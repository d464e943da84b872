--------------------------- MODULE BulkSyncProofs ---------------------------
(***************************************************************************)
(* No dinode is lost, brought back or changed by mistake: theorems about   *)
(* BulkSync for any number of inodes, of inodes per block and of requests, *)
(* and any list.                                                           *)
(***************************************************************************)
EXTENDS BulkSync, FiniteSetTheorems, TLAPS

-----------------------------------------------------------------------------
(***************************************************************************)
(* The arithmetic of inode blocks.                                         *)
(***************************************************************************)

LEMMA DivMod ==
  ASSUME NEW i \in Nat
  PROVE  /\ BlockNr(i) \in Nat /\ Offset(i) \in 0 .. PerBlock - 1
         /\ i = PerBlock * BlockNr(i) + Offset(i)
BY BulkSyncAssumption, Z3 DEF BlockNr, Offset

LEMMA InodePlace ==
  ASSUME NEW i \in Inode
  PROVE  BlockNr(i) \in InodeBlock /\ Offset(i) \in 0 .. PerBlock - 1
<1>1. BlockNr(i) \in InodeBlock
  BY BulkSyncAssumption, Z3 DEF BlockNr, Inode, InodeBlock
<1> QED
  BY <1>1, DivMod, BulkSyncAssumption DEF Inode

\* A block number and an offset name one inode.
LEMMA PlaceInjective ==
  ASSUME NEW i \in Inode, NEW j \in Inode,
         BlockNr(i) = BlockNr(j), Offset(i) = Offset(j)
  PROVE  i = j
BY DivMod, BulkSyncAssumption, Z3 DEF Inode

LEMMA InodeBlockBound == \A b \in InodeBlock : b \in Nat /\ b < NInodes
BY BulkSyncAssumption, Z3 DEF InodeBlock

\* No block is both an inode block and an indirect block, or the indirect
\* block of two inodes.
LEMMA IndirectPlace ==
  ASSUME NEW i \in Inode
  PROVE  /\ Indirect(i) \in Block /\ Indirect(i) \notin InodeBlock
         /\ \A j \in Inode : Indirect(i) = Indirect(j) => i = j
<1>1. Indirect(i) \notin InodeBlock
  BY InodeBlockBound, BulkSyncAssumption DEF Indirect, Inode
<1>2. \A j \in Inode : Indirect(i) = Indirect(j) => i = j
  BY BulkSyncAssumption DEF Indirect, Inode
<1> QED
  BY <1>1, <1>2 DEF Block

LEMMA BlockKinds ==
  ASSUME NEW b \in Block
  PROVE  b \in InodeBlock \/ \E i \in Inode : b = Indirect(i)
BY DEF Block

LEMMA NewIsNotOld ==
  /\ New \in Contents /\ Old \in Contents /\ New # Old
  /\ \A o \in 0 .. PerBlock - 1 : New[o] = "new" /\ Old[o] = "old"
<1>1. 0 \in 0 .. PerBlock - 1
  BY BulkSyncAssumption
<1>2. New[0] = "new" /\ Old[0] = "old"
  BY <1>1 DEF New, Old
<1> QED
  BY <1>2 DEF New, Old, Contents

-----------------------------------------------------------------------------
(***************************************************************************)
(* The inductive invariant.                                                *)
(***************************************************************************)
B(k) == BlockNr(inodes[k])

\* Where the loops are in the list, which is sorted for the second.
LoopInv ==
  /\ pc = "indirect" => cur = NoBlock
  /\ pc \in {"indirect", "inodes", "load"} => Len(inodes) > 0
  /\ pc = "load" => at <= Len(inodes) /\ B(at) # cur
  /\ pc \in {"inodes", "load"} =>
       /\ Sorted(inodes)
       /\ \A k \in DOMAIN inodes : /\ k < at => B(k) <= cur
                                   /\ k >= at => cur <= B(k)
  /\ waiting = "read_f" =>
       pc = "inodes" /\ \A k \in DOMAIN inodes : k < at => B(k) < cur

\* The inode blocks for which the write has been issued.
Flushed(b) ==
  \/ pc = "inodes" /\ b < cur
  \/ pc = "load" /\ b <= cur
  \/ pc \in {"wait", "done"}

\* The dinodes on the disk.
DiskInv ==
  \A i \in Inode :
    /\ OnDisk(i) = "new" => i \in Listed /\ Flushed(BlockNr(i))
    /\ i \in Listed /\ Flushed(BlockNr(i)) =>
         \/ OnDisk(i) = "new"
         \/ \E q \in Request : /\ pending[q] # Free /\ pending[q].op = "write"
                               /\ pending[q].blk = BlockNr(i)

\* A write of an inode block has all its new dinodes, and no other.
Right(r) ==
  IF r.op = "read"
  THEN /\ waiting = "read_f" /\ r.fut = "read_f"
       /\ r.blk = cur /\ r.blk \in InodeBlock /\ r.buf = BlockBuf
  ELSE /\ r.fut = "f"
       /\ r.blk \in InodeBlock =>
            /\ Flushed(r.blk)
            /\ \A i \in Inode : BlockNr(i) = r.blk =>
                 (r.val[Offset(i)] = "new" <=> i \in Listed)
       /\ \A i \in Inode : r.blk = Indirect(i) =>
            r.val = New /\ i \in wasDirty \ indirectDirty

PendingInv == \A q \in Request : pending[q] # Free => Right(pending[q])

Reading == \E q \in Request : pending[q] # Free /\ pending[q].op = "read"

\* The buffer has the dinodes that were copied, and no other new ones.
BufInv ==
  pc = "inodes" /\ ~Reading =>
    \A i \in Inode : BlockNr(i) = cur =>
      (mem[BlockBuf][Offset(i)] = "new"
         <=> \E k \in DOMAIN inodes : k < at /\ inodes[k] = i)

\* The indirect blocks.
IndirectInv ==
  /\ indirectDirty \subseteq wasDirty /\ wasDirty \subseteq Listed
  /\ \A i \in Inode : mem[i] = New
  /\ pc = "indirect" => \A k \in DOMAIN inodes : k < at => inodes[k] \notin indirectDirty
  /\ pc # "indirect" => indirectDirty = {}
  /\ \A i \in Inode :
       /\ \/ disk[Indirect(i)] = Old
          \/ disk[Indirect(i)] = New /\ i \in wasDirty \ indirectDirty
       /\ i \in wasDirty \ indirectDirty =>
            \/ disk[Indirect(i)] = New
            \/ \E q \in Request : pending[q] # Free /\ pending[q].blk = Indirect(i)

\* What the waits leave behind.
WaitInv ==
  /\ sync => \A q \in Request : pending[q] # Free => pending[q].fut = waiting
  /\ pc = "done" /\ waiting = None => \A q \in Request : pending[q] = Free

\* The dinodes whose flag is clear have been copied.
DirtyInv ==
  \A k \in DOMAIN inodes : inodes[k] \notin dirty =>
    pc # "indirect" /\ (pc \in {"inodes", "load"} => k < at)

IInv ==
  /\ TypeOK /\ LoopInv /\ DiskInv /\ PendingInv /\ OneRequestPerBlock
  /\ BufInv /\ IndirectInv /\ WaitInv /\ DirtyInv

-----------------------------------------------------------------------------
(***************************************************************************)
(* What the calls of block.h do.                                           *)
(***************************************************************************)
Record(op, f, d, b) ==
  [op |-> op, fut |-> f, blk |-> b, buf |-> d,
   val |-> IF op = "write" THEN mem[d] ELSE Old]

LEMMA WriteStep ==
  ASSUME TypeOK, NEW d \in Buf, NEW b \in Block, Write(d, b)
  PROVE  /\ waiting = None /\ waiting' = (IF sync THEN "f" ELSE None)
         /\ disk' = disk /\ mem' = mem
         /\ \E q \in Request :
              /\ pending[q] = Free /\ Record("write", "f", d, b) \in Pending
              /\ pending' = [pending EXCEPT ![q] = Record("write", "f", d, b)]
<1>1. mem[d] \in Contents
  BY DEF TypeOK
<1>2. Record("write", "f", d, b) \in Pending
  BY <1>1 DEF Record, Pending, Frame
<1> QED
  BY <1>2 DEF Write, Store!Pend, Record

LEMMA ReadStep ==
  ASSUME TypeOK, NEW b \in Block, Read(b)
  PROVE  /\ waiting = None /\ waiting' = "read_f"
         /\ disk' = disk /\ mem' = mem
         /\ \E q \in Request :
              /\ pending[q] = Free /\ Record("read", "read_f", BlockBuf, b) \in Pending
              /\ pending' = [pending EXCEPT ![q] = Record("read", "read_f", BlockBuf, b)]
<1>1. Record("read", "read_f", BlockBuf, b) \in Pending
  BY NewIsNotOld DEF Record, Pending, Frame, Buf
<1> QED
  BY <1>1 DEF Read, Store!Pend, Record

LEMMA FreeIsNoRecord == \A r \in Pending : r # Free
BY BulkSyncAssumption

-----------------------------------------------------------------------------
(***************************************************************************)
(* The properties follow from the invariant.                               *)
(***************************************************************************)

LEMMA ListedPlace ==
  ASSUME TypeOK
  PROVE  /\ Listed \subseteq Inode
         /\ \A k \in DOMAIN inodes : inodes[k] \in Inode /\ inodes[k] \in Listed
         /\ \A i \in Listed : \E k \in DOMAIN inodes : inodes[k] = i
         /\ DOMAIN inodes = 1 .. Len(inodes)
BY DEF TypeOK, Listed, ToSet

LEMMA SyncedFromInv == IInv => BulkSynced
<1> SUFFICES ASSUME IInv, At("done") PROVE
      /\ \A i \in Listed : OnDisk(i) = "new"
      /\ \A i \in wasDirty : disk[Indirect(i)] = New
  BY DEF BulkSynced
<1>1. pc = "done" /\ \A q \in Request : pending[q] = Free
  BY DEF IInv, WaitInv, At
<1>2. ASSUME NEW i \in Listed PROVE OnDisk(i) = "new"
  BY <1>1, ListedPlace DEF IInv, DiskInv, Flushed
<1>3. ASSUME NEW i \in wasDirty PROVE disk[Indirect(i)] = New
  BY <1>1, ListedPlace DEF IInv, IndirectInv
<1> QED
  BY <1>2, <1>3

LEMMA OthersFromInv == IInv => OthersUntouched
<1> SUFFICES ASSUME IInv PROVE OthersUntouched
  OBVIOUS
<1>1. ASSUME NEW i \in Inode \ Listed PROVE OnDisk(i) = "old"
  <2>1. OnDisk(i) # "new"
    BY DEF IInv, DiskInv
  <2>2. disk[BlockNr(i)] \in Contents /\ Offset(i) \in 0 .. PerBlock - 1
    BY InodePlace DEF IInv, TypeOK, Block
  <2> QED
    BY <2>1, <2>2 DEF Contents, OnDisk
<1>2. ASSUME NEW i \in Inode \ wasDirty PROVE disk[Indirect(i)] = Old
  BY DEF IInv, IndirectInv
<1> QED
  BY <1>1, <1>2 DEF OthersUntouched

LEMMA CleanFromInv == IInv => CleanIsSaved
<1> SUFFICES ASSUME IInv, NEW i \in Listed \ dirty PROVE
      \/ OnDisk(i) = "new"
      \/ \E q \in Request : /\ pending[q] # Free /\ pending[q].op = "write"
                            /\ pending[q].blk = BlockNr(i)
                            /\ pending[q].val[Offset(i)] = "new"
      \/ cur = BlockNr(i) /\ mem[BlockBuf][Offset(i)] = "new" /\ pc \in {"inodes", "load"}
  BY DEF CleanIsSaved
<1> USE DEF IInv
<1>1. PICK k \in DOMAIN inodes : inodes[k] = i
  BY ListedPlace
<1>2. i \in Inode /\ BlockNr(i) \in InodeBlock /\ BlockNr(i) \in Nat
  BY ListedPlace, InodePlace, InodeBlockBound
<1>3. CASE Flushed(BlockNr(i))
  <2>1. SUFFICES ASSUME OnDisk(i) # "new"
                 PROVE \E q \in Request : /\ pending[q] # Free /\ pending[q].op = "write"
                                          /\ pending[q].blk = BlockNr(i)
                                          /\ pending[q].val[Offset(i)] = "new"
    OBVIOUS
  <2>2. PICK q \in Request : /\ pending[q] # Free /\ pending[q].op = "write"
                             /\ pending[q].blk = BlockNr(i)
    BY <1>2, <1>3, <2>1 DEF DiskInv
  <2>3. Right(pending[q])
    BY <2>2 DEF PendingInv
  <2>4. pending[q].val[Offset(i)] = "new"
    BY <1>2, <2>2, <2>3 DEF Right
  <2> QED
    BY <2>2, <2>4
<1>4. CASE ~ Flushed(BlockNr(i))
  <2>1. pc \in {"inodes", "load"} /\ k < at
    BY <1>1, <1>4 DEF DirtyInv, Flushed, TypeOK
  <2>2. B(k) = BlockNr(i) /\ B(k) <= cur
    BY <1>1, <2>1 DEF LoopInv, B
  <2>3. pc = "inodes" /\ BlockNr(i) = cur
    BY <1>2, <1>4, <2>1, <2>2 DEF Flushed, TypeOK, InodeBlock, NoBlock
  <2>4. waiting # "read_f"
    BY <1>1, <2>1, <2>2, <2>3, <1>2 DEF LoopInv
  <2>5. ~ Reading
    BY <2>4 DEF PendingInv, Right, Reading
  <2>6. mem[BlockBuf][Offset(i)] = "new"
    BY <1>1, <1>2, <2>1, <2>3, <2>5 DEF BufInv
  <2> QED
    BY <2>3, <2>6
<1> QED
  BY <1>3, <1>4

-----------------------------------------------------------------------------
(***************************************************************************)
(* The invariant holds initially.                                          *)
(***************************************************************************)

LEMMA InitType == Init => TypeOK
<1> SUFFICES ASSUME Init PROVE TypeOK
  OBVIOUS
<1>1. PICK S \in SUBSET Inode : inodes \in SetToSeqs(S)
  BY DEF Init
<1>2. IsFiniteSet(S) /\ Cardinality(S) \in Nat
  <2>1. NInodes - 1 \in Int
    BY BulkSyncAssumption
  <2>2. IsFiniteSet(Inode)
    BY <2>1, FS_Interval DEF Inode
  <2>3. IsFiniteSet(S)
    BY <2>2, FS_Subset
  <2> QED
    BY <2>3, FS_CardinalityType
<1>3. inodes \in [1 .. Cardinality(S) -> S] /\ IsInjective(inodes)
  BY <1>1 DEF SetToSeqs, IsInjective
<1>4. inodes \in Seq(Inode) /\ Listed \subseteq Inode /\ 1 \in 1 .. Len(inodes) + 1
  BY <1>2, <1>3 DEF Listed, ToSet
<1>5. disk \in [Block -> Contents] /\ mem \in [Buf -> Contents]
  BY NewIsNotOld DEF Init
<1> QED
  BY <1>3, <1>4, <1>5 DEF Init, TypeOK

LEMMA InitInv == Init => IInv
<1> SUFFICES ASSUME Init PROVE IInv
  OBVIOUS
<1>1. TypeOK
  BY InitType
<1>2. LoopInv
  BY <1>1, BulkSyncAssumption DEF Init, LoopInv, TypeOK, Frame
<1>3. DiskInv
  <2> SUFFICES ASSUME NEW i \in Inode
               PROVE OnDisk(i) # "new" /\ ~ (i \in Listed /\ Flushed(BlockNr(i)))
    BY DEF DiskInv
  <2>1. OnDisk(i) # "new"
    BY InodePlace, NewIsNotOld DEF Init, OnDisk, Block
  <2>2. Listed = {} \/ pc = "indirect"
    BY DEF Init, Listed, ToSet
  <2> QED
    BY <2>1, <2>2 DEF Flushed
<1>4. PendingInv /\ OneRequestPerBlock
  BY DEF Init, PendingInv, OneRequestPerBlock
<1>5. BufInv /\ WaitInv
  BY DEF Init, BufInv, WaitInv
<1>6. IndirectInv
  <2>1. \A i \in Inode : mem[i] = New /\ disk[Indirect(i)] = Old
    BY IndirectPlace, BulkSyncAssumption DEF Init, Buf, BlockBuf, Inode
  <2>2. pc # "indirect" => indirectDirty = {}
    BY DEF Init, Listed, ToSet
  <2>3. \A k \in DOMAIN inodes : ~ (k < at)
    BY <1>1, ListedPlace DEF Init
  <2> QED
    BY <2>1, <2>2, <2>3 DEF Init, IndirectInv
<1>7. DirtyInv
  BY <1>1, ListedPlace DEF Init, DirtyInv
<1> QED
  BY <1>1, <1>2, <1>3, <1>4, <1>5, <1>6, <1>7 DEF IInv

-----------------------------------------------------------------------------
(***************************************************************************)
(* Every step keeps the invariant.                                         *)
(***************************************************************************)

LEMMA FlushIndirectInv == IInv /\ FlushIndirect => IInv'
<1> SUFFICES ASSUME IInv, FlushIndirect PROVE IInv'
  OBVIOUS
<1> DEFINE i == inodes[at]
<1>1. /\ TypeOK /\ pc = "indirect" /\ waiting = None /\ at \in DOMAIN inodes
      /\ i \in Inode /\ i \in Listed
  BY ListedPlace DEF IInv, FlushIndirect, At, TypeOK
<1>2. UNCHANGED <<inodes, dirty, wasDirty, sync, pc, cur>> /\ at' = at + 1
  BY DEF FlushIndirect
<1>3. Listed' = Listed /\ \A k : B(k)' = B(k)
  BY <1>2 DEF Listed, B
<1>4. Indirect(i) \in Block /\ i \in Buf /\ i # BlockBuf
  BY <1>1, IndirectPlace, BulkSyncAssumption DEF Buf, BlockBuf, Inode
<1>5. \A b : Flushed(b)' = FALSE
  BY <1>1, <1>2 DEF Flushed
<1>6. LoopInv' /\ DirtyInv' /\ BufInv'
  <2>1. waiting' # "read_f"
    BY <1>1, <1>4, WriteStep, BulkSyncAssumption DEF FlushIndirect, storeVars, Frame
  <2> QED
    BY <1>1, <1>2, <2>1 DEF IInv, LoopInv, DirtyInv, BufInv
<1>7. CASE /\ i \in indirectDirty /\ Write(i, Indirect(i))
           /\ indirectDirty' = indirectDirty \ {i}
  <2>1. PICK q \in Request :
          /\ pending[q] = Free /\ Record("write", "f", i, Indirect(i)) \in Pending
          /\ pending' = [pending EXCEPT ![q] = Record("write", "f", i, Indirect(i))]
    BY <1>1, <1>4, <1>7, WriteStep
  <2>2. disk' = disk /\ mem' = mem /\ waiting' = IF sync THEN "f" ELSE None
    BY <1>1, <1>4, <1>7, WriteStep
  <2>3. TypeOK'
    BY <1>1, <1>2, <1>7, <2>1, <2>2, ListedPlace DEF TypeOK, Frame
  <2>4. \A p \in Request \ {q} : pending'[p] = pending[p]
    BY <2>1
  <2>5. pending'[q] = Record("write", "f", i, Indirect(i)) /\ pending'[q] # Free
    BY <1>1, <2>1, FreeIsNoRecord DEF TypeOK
  <2>6. \A p \in Request : pending[p] # Free =>
          /\ pending[p].op # "read" /\ pending[p].blk # Indirect(i)
          /\ pending[p].blk \in Block
    <3> SUFFICES ASSUME NEW p \in Request, pending[p] # Free
                 PROVE  /\ pending[p].op # "read" /\ pending[p].blk # Indirect(i)
                        /\ pending[p].blk \in Block
      OBVIOUS
    <3>1. Right(pending[p]) /\ pending[p] \in Pending
      BY <1>1 DEF IInv, PendingInv, TypeOK
    <3>2. pending[p].op # "read"
      BY <1>1, <3>1, BulkSyncAssumption DEF Right, Frame
    <3> QED
      BY <1>1, <1>7, <3>1, <3>2 DEF Right, Pending
  <2>7. DiskInv'
    <3> SUFFICES ASSUME NEW j \in Inode PROVE OnDisk(j)' # "new" /\ ~ Flushed(BlockNr(j))'
      BY DEF DiskInv
    <3>1. OnDisk(j) # "new"
      BY <1>1 DEF IInv, DiskInv, Flushed
    <3> QED
      BY <1>5, <2>2, <3>1 DEF OnDisk
  <2>8. PendingInv'
    <3> SUFFICES ASSUME NEW p \in Request, pending'[p] # Free PROVE Right(pending[p])'
      BY DEF PendingInv
    <3>1. CASE p = q
      <4>1. \A j \in Inode : Indirect(i) = Indirect(j) => j = i
        BY <1>1, IndirectPlace
      <4>2. i \in wasDirty' \ indirectDirty' /\ mem[i] = New
        BY <1>1, <1>2, <1>7 DEF IInv, IndirectInv
      <4>3. Indirect(i) \notin InodeBlock
        BY <1>1, IndirectPlace
      <4> QED
        BY <2>5, <3>1, <4>1, <4>2, <4>3 DEF Right, Record
    <3>2. CASE p # q
      <4>1. Right(pending[p]) /\ pending'[p] = pending[p] /\ pending[p].op # "read"
        BY <2>4, <2>6, <3>2 DEF IInv, PendingInv
      <4>2. pending[p].blk \notin InodeBlock
        BY <1>1, <4>1 DEF Right, Flushed
      <4> QED
        BY <1>2, <1>7, <4>1, <4>2 DEF Right
    <3> QED
      BY <3>1, <3>2
  <2>9. OneRequestPerBlock'
    <3>1. pending'[q].blk = Indirect(i)
      BY <2>5 DEF Record
    <3> QED
      BY <2>4, <2>6, <3>1 DEF IInv, OneRequestPerBlock
  <2>10. IndirectInv'
    <3>1. pending'[q].blk = Indirect(i)
      BY <2>5 DEF Record
    <3>2. \A k \in DOMAIN inodes : k < at + 1 => inodes[k] \notin indirectDirty'
      <4> SUFFICES ASSUME NEW k \in DOMAIN inodes, k < at + 1
                   PROVE inodes[k] \notin indirectDirty'
        OBVIOUS
      <4>1. k = at \/ k < at
        BY <1>1, ListedPlace DEF TypeOK
      <4> QED
        BY <1>1, <1>7, <4>1 DEF IInv, IndirectInv
    <3>3. ASSUME NEW j \in Inode PROVE
            /\ \/ disk'[Indirect(j)] = Old
               \/ disk'[Indirect(j)] = New /\ j \in wasDirty' \ indirectDirty'
            /\ j \in wasDirty' \ indirectDirty' =>
                 \/ disk'[Indirect(j)] = New
                 \/ \E p \in Request : pending'[p] # Free /\ pending'[p].blk = Indirect(j)
      <4>1. CASE j = i
        BY <1>1, <1>2, <1>7, <2>2, <2>5, <3>1, <4>1 DEF IInv, IndirectInv
      <4>2. CASE j # i
        BY <1>2, <1>7, <2>1, <2>2, <2>4, <4>2 DEF IInv, IndirectInv
      <4> QED
        BY <4>1, <4>2
    <3> QED
      BY <1>1, <1>2, <1>3, <1>7, <2>2, <3>2, <3>3 DEF IInv, IndirectInv
  <2>11. WaitInv'
    <3>1. \A p \in Request : pending[p] # Free => ~ sync
      BY <1>1, BulkSyncAssumption DEF IInv, WaitInv, TypeOK, Pending
    <3>2. pending'[q].fut = "f"
      BY <2>5 DEF Record
    <3> QED
      BY <1>1, <1>2, <2>2, <2>4, <3>1, <3>2 DEF WaitInv
  <2> QED
    BY <1>6, <2>3, <2>7, <2>8, <2>9, <2>10, <2>11 DEF IInv
<1>8. CASE i \notin indirectDirty /\ UNCHANGED <<storeVars, indirectDirty>>
  <2> USE DEF storeVars
  <2>1. TypeOK'
    BY <1>1, <1>2, <1>8, ListedPlace DEF TypeOK
  <2>2. DiskInv' /\ OneRequestPerBlock' /\ WaitInv'
    BY <1>2, <1>3, <1>8 DEF IInv, DiskInv, OneRequestPerBlock, WaitInv, Flushed, OnDisk
  <2>3. PendingInv'
    BY <1>2, <1>3, <1>8 DEF IInv, PendingInv, Right, Flushed
  <2>4. IndirectInv'
    <3>1. \A k \in DOMAIN inodes : k < at + 1 => k = at \/ k < at
      BY <1>1, ListedPlace DEF TypeOK
    <3> QED
      BY <1>1, <1>2, <1>3, <1>8, <3>1 DEF IInv, IndirectInv
  <2> QED
    BY <1>6, <2>1, <2>2, <2>3, <2>4 DEF IInv
<1> QED
  BY <1>7, <1>8 DEF FlushIndirect

LEMMA SortInv == IInv /\ Sort => IInv'
<1> SUFFICES ASSUME IInv, Sort PROVE IInv'
  OBVIOUS
<1>1. /\ TypeOK /\ pc = "indirect" /\ waiting = None /\ cur = NoBlock
      /\ at > Len(inodes) /\ Len(inodes) > 0
  BY DEF IInv, Sort, At, LoopInv
<1>2. /\ UNCHANGED <<storeVars, dirty, indirectDirty, wasDirty, sync, cur>>
      /\ pc' = "inodes" /\ at' = 1
  BY DEF Sort
<1>3. /\ inodes' \in [DOMAIN inodes -> Listed] /\ Listed' = Listed
      /\ IsInjective(inodes') /\ Sorted(inodes')
  BY DEF Sort, SortedList, Listed
<1>4. DOMAIN inodes' = 1 .. Len(inodes) /\ inodes' \in Seq(Inode) /\ Len(inodes') = Len(inodes)
  <2>1. inodes' \in [1 .. Len(inodes) -> Inode] /\ Len(inodes) \in Nat
    BY <1>1, <1>3, ListedPlace DEF TypeOK
  <2> QED
    BY <2>1
<1>5. TypeOK'
  BY <1>1, <1>2, <1>3, <1>4 DEF TypeOK, storeVars
<1>6. \A b \in InodeBlock : Flushed(b)' = FALSE /\ Flushed(b) = FALSE
  BY <1>1, <1>2, InodeBlockBound DEF Flushed, NoBlock
<1>7. LoopInv'
  <2>1. \A k \in DOMAIN inodes' : k >= 1 /\ B(k)' \in Nat
    BY <1>3, <1>4, ListedPlace, <1>1, InodePlace, InodeBlockBound DEF B
  <2> QED
    BY <1>1, <1>2, <1>3, <1>4, <2>1, BulkSyncAssumption
       DEF LoopInv, storeVars, NoBlock, Frame
<1>8. DiskInv'
  BY <1>2, <1>3, <1>6, InodePlace DEF IInv, DiskInv, OnDisk, storeVars
<1>9. PendingInv'
  <2> SUFFICES ASSUME NEW q \in Request, pending[q] # Free PROVE Right(pending[q])'
    BY <1>2 DEF PendingInv, storeVars
  <2>1. Right(pending[q])
    BY DEF IInv, PendingInv
  <2> QED
    BY <1>1, <1>2, <1>3, <1>6, <2>1, BulkSyncAssumption DEF Right, storeVars, Frame
<1>10. OneRequestPerBlock' /\ WaitInv'
  BY <1>1, <1>2 DEF IInv, OneRequestPerBlock, WaitInv, storeVars
<1>11. BufInv'
  BY <1>1, <1>2, InodePlace, InodeBlockBound DEF BufInv, NoBlock
<1>12. IndirectInv'
  <2>1. indirectDirty = {}
    BY <1>1, ListedPlace DEF IInv, IndirectInv, TypeOK
  <2> QED
    BY <1>2, <1>3, <2>1 DEF IInv, IndirectInv, storeVars
<1>13. DirtyInv'
  <2>1. Listed \subseteq dirty
    BY <1>1, ListedPlace DEF IInv, DirtyInv
  <2> QED
    BY <1>2, <1>3, <1>4, <2>1 DEF DirtyInv
<1> QED
  BY <1>5, <1>7, <1>8, <1>9, <1>10, <1>11, <1>12, <1>13 DEF IInv

\* Issuing a write of the buffer into cur: common to FlushBlock and FlushLast,
\* which go on differently.
LEMMA WriteBufFacts ==
  ASSUME IInv, pc = "inodes", Write(BlockBuf, cur), cur # NoBlock,
         \A k \in DOMAIN inodes : B(k) = cur => k < at
  PROVE  \E q \in Request :
           /\ pending[q] = Free /\ Record("write", "f", BlockBuf, cur) \in Pending
           /\ pending' = [pending EXCEPT ![q] = Record("write", "f", BlockBuf, cur)]
           /\ pending'[q] = Record("write", "f", BlockBuf, cur) /\ pending'[q] # Free
           /\ \A p \in Request \ {q} : pending'[p] = pending[p]
           /\ \A p \in Request : pending[p] # Free =>
                pending[p].op # "read" /\ pending[p].blk # cur
           /\ \A i \in Inode : BlockNr(i) = cur =>
                (mem[BlockBuf][Offset(i)] = "new" <=> i \in Listed)
<1>1. TypeOK /\ cur \in InodeBlock /\ cur \in Block /\ BlockBuf \in Buf /\ cur \in Nat
  BY InodeBlockBound DEF IInv, TypeOK, Block, Buf
<1>2. PICK q \in Request :
        /\ pending[q] = Free /\ Record("write", "f", BlockBuf, cur) \in Pending
        /\ pending' = [pending EXCEPT ![q] = Record("write", "f", BlockBuf, cur)]
  BY <1>1, WriteStep
<1>3. /\ \A p \in Request \ {q} : pending'[p] = pending[p]
      /\ pending'[q] = Record("write", "f", BlockBuf, cur) /\ pending'[q] # Free
  BY <1>1, <1>2, FreeIsNoRecord DEF TypeOK
<1>4. ASSUME NEW p \in Request, pending[p] # Free
      PROVE  pending[p].op # "read" /\ pending[p].blk # cur
  <2>1. Right(pending[p]) /\ waiting = None
    BY <1>1, <1>4, WriteStep DEF IInv, PendingInv
  <2> QED
    BY <1>1, <2>1, BulkSyncAssumption DEF Right, Flushed, Frame
<1>5. ASSUME NEW i \in Inode, BlockNr(i) = cur
      PROVE  mem[BlockBuf][Offset(i)] = "new" <=> i \in Listed
  <2>1. mem[BlockBuf][Offset(i)] = "new"
          <=> \E k \in DOMAIN inodes : k < at /\ inodes[k] = i
    BY <1>4, <1>5 DEF IInv, BufInv, Reading
  <2> QED
    BY <1>1, <1>5, <2>1, ListedPlace DEF B
<1> QED
  BY <1>2, <1>3, <1>4, <1>5

\* What is left to show when it has been issued and cur counts as flushed.
LEMMA WriteBufInv ==
  ASSUME IInv, pc = "inodes", Write(BlockBuf, cur), cur # NoBlock,
         \A k \in DOMAIN inodes : B(k) = cur => k < at,
         UNCHANGED <<inodes, dirty, indirectDirty, wasDirty, sync, at, cur>>,
         pc' \in {"load", "wait"},
         \A b \in InodeBlock : b <= cur => Flushed(b)',
         \A k \in DOMAIN inodes : Flushed(B(k))' => B(k) <= cur
  PROVE  /\ TypeOK' /\ DiskInv' /\ PendingInv' /\ OneRequestPerBlock'
         /\ BufInv' /\ IndirectInv' /\ WaitInv' /\ waiting' # "read_f"
<1>1. /\ TypeOK /\ cur \in InodeBlock /\ cur \in Block /\ cur \in Nat
      /\ BlockBuf \in Buf /\ waiting = None
  BY InodeBlockBound, WriteStep DEF IInv, TypeOK, Block, Buf
<1>2. PICK q \in Request :
        /\ pending[q] = Free /\ Record("write", "f", BlockBuf, cur) \in Pending
        /\ pending' = [pending EXCEPT ![q] = Record("write", "f", BlockBuf, cur)]
        /\ pending'[q] = Record("write", "f", BlockBuf, cur) /\ pending'[q] # Free
        /\ \A p \in Request \ {q} : pending'[p] = pending[p]
        /\ \A p \in Request : pending[p] # Free =>
             pending[p].op # "read" /\ pending[p].blk # cur
        /\ \A i \in Inode : BlockNr(i) = cur =>
             (mem[BlockBuf][Offset(i)] = "new" <=> i \in Listed)
  BY WriteBufFacts
<1>3. disk' = disk /\ mem' = mem /\ waiting' = (IF sync THEN "f" ELSE None)
  BY <1>1, WriteStep
<1>4. Listed' = Listed
  BY DEF Listed
<1>5. pending'[q].op = "write" /\ pending'[q].blk = cur /\ pending'[q].fut = "f"
  BY <1>2 DEF Record
<1>6. TypeOK'
  BY <1>1, <1>2, <1>3, ListedPlace DEF TypeOK, Frame
<1>7. \A b \in InodeBlock : Flushed(b) => Flushed(b)'
  BY <1>1, InodeBlockBound DEF Flushed
<1>8. DiskInv'
  <2> SUFFICES ASSUME NEW i \in Inode
      PROVE /\ OnDisk(i)' = "new" => i \in Listed /\ Flushed(BlockNr(i))'
            /\ i \in Listed /\ Flushed(BlockNr(i))' =>
                 \/ OnDisk(i)' = "new"
                 \/ \E p \in Request : /\ pending'[p] # Free /\ pending'[p].op = "write"
                                       /\ pending'[p].blk = BlockNr(i)
    BY <1>4 DEF DiskInv
  <2>1. BlockNr(i) \in InodeBlock /\ BlockNr(i) \in Nat /\ OnDisk(i)' = OnDisk(i)
    BY <1>3, InodePlace, InodeBlockBound DEF OnDisk
  <2>2. OnDisk(i) = "new" => i \in Listed /\ Flushed(BlockNr(i))'
    BY <1>7, <2>1 DEF IInv, DiskInv
  <2>3. ASSUME i \in Listed, Flushed(BlockNr(i))', OnDisk(i) # "new"
        PROVE \E p \in Request : /\ pending'[p] # Free /\ pending'[p].op = "write"
                                 /\ pending'[p].blk = BlockNr(i)
    <3>1. BlockNr(i) <= cur
      BY <1>1, <2>3, ListedPlace DEF B
    <3>2. CASE BlockNr(i) = cur
      BY <1>2, <1>5, <3>2
    <3>3. CASE BlockNr(i) < cur
      <4>1. PICK p \in Request : /\ pending[p] # Free /\ pending[p].op = "write"
                                 /\ pending[p].blk = BlockNr(i)
        BY <2>3, <3>3 DEF IInv, DiskInv, Flushed
      <4> QED
        BY <1>2, <4>1
    <3> QED
      BY <1>1, <2>1, <3>1, <3>2, <3>3
  <2> QED
    BY <2>1, <2>2, <2>3
<1>9. PendingInv'
  <2> SUFFICES ASSUME NEW p \in Request, pending'[p] # Free PROVE Right(pending[p])'
    BY DEF PendingInv
  <2>1. CASE p = q
    <3>1. \A i \in Inode : cur # Indirect(i)
      BY <1>1, IndirectPlace
    <3>2. pending'[q].val = mem[BlockBuf]
      BY <1>2 DEF Record
    <3>3. Flushed(cur)'
      BY <1>1
    <3> QED
      BY <1>1, <1>2, <1>4, <1>5, <2>1, <3>1, <3>2, <3>3 DEF Right
  <2>2. CASE p # q
    <3>1. Right(pending[p]) /\ pending'[p] = pending[p] /\ pending[p].op # "read"
      BY <1>2, <2>2 DEF IInv, PendingInv
    <3> QED
      BY <1>4, <1>7, <3>1 DEF Right
  <2> QED
    BY <2>1, <2>2
<1>10. OneRequestPerBlock'
  BY <1>2, <1>5 DEF IInv, OneRequestPerBlock
<1>11. BufInv' /\ waiting' # "read_f"
  BY <1>3, BulkSyncAssumption DEF BufInv, Frame
<1>12. IndirectInv'
  <2>1. ASSUME NEW p \in Request, pending[p] # Free
        PROVE  pending'[p] # Free /\ pending'[p].blk = pending[p].blk
    BY <1>2, <2>1
  <2> QED
    BY <1>3, <1>4, <2>1 DEF IInv, IndirectInv
<1>13. WaitInv'
  <2>1. \A p \in Request : pending[p] # Free => ~ sync
    BY <1>1, BulkSyncAssumption DEF IInv, WaitInv, TypeOK, Pending
  <2> QED
    BY <1>2, <1>3, <1>5, <2>1 DEF WaitInv
<1> QED
  BY <1>6, <1>8, <1>9, <1>10, <1>11, <1>12, <1>13

LEMMA FlushBlockInv == IInv /\ FlushBlock => IInv'
<1> SUFFICES ASSUME IInv, FlushBlock PROVE IInv'
  OBVIOUS
<1>1. /\ TypeOK /\ pc = "inodes" /\ waiting = None /\ at \in DOMAIN inodes
      /\ B(at) # cur /\ at \in Nat /\ at <= Len(inodes)
  BY ListedPlace DEF IInv, FlushBlock, At, TypeOK, B
<1>2. UNCHANGED <<inodes, dirty, indirectDirty, wasDirty, sync, at, cur>> /\ pc' = "load"
  BY DEF FlushBlock
<1>3. Listed' = Listed /\ \A k : B(k)' = B(k)
  BY <1>2 DEF Listed, B
<1>4. /\ Sorted(inodes)
      /\ \A k \in DOMAIN inodes : /\ k < at => B(k) <= cur
                                  /\ k >= at => cur <= B(k)
  BY <1>1 DEF IInv, LoopInv
<1>5. \A k \in DOMAIN inodes : B(k) \in Nat /\ B(k) \in InodeBlock
  BY <1>1, ListedPlace, InodePlace, InodeBlockBound DEF B
<1>6. \A k \in DOMAIN inodes : B(k) = cur => k < at
  <2> SUFFICES ASSUME NEW k \in DOMAIN inodes, B(k) = cur, k >= at PROVE FALSE
    BY <1>1, ListedPlace
  <2>1. B(at) <= B(k)
    <3>1. CASE k = at
      BY <1>5, <3>1
    <3>2. CASE k > at
      BY <1>1, <1>4, <3>2 DEF Sorted, B
    <3> QED
      BY <1>1, <3>1, <3>2, ListedPlace
  <2>2. cur <= B(at) /\ B(at) \in Nat
    BY <1>1, <1>4, <1>5
  <2> QED
    BY <1>1, <1>5, <2>1, <2>2
<1>7. \A b : Flushed(b)' <=> b <= cur
  BY <1>2 DEF Flushed
<1>8. waiting' # "read_f" => LoopInv' /\ DirtyInv'
  BY <1>1, <1>2, <1>3, <1>4 DEF IInv, LoopInv, DirtyInv
<1>9. CASE cur # NoBlock /\ Write(BlockBuf, cur)
  <2>1. \A k \in DOMAIN inodes : Flushed(B(k))' => B(k) <= cur
    BY <1>2, <1>3 DEF Flushed
  <2>2. \A b \in InodeBlock : b <= cur => Flushed(b)'
    BY <1>7
  <2> QED
    BY <1>1, <1>2, <1>6, <1>8, <1>9, <2>1, <2>2, WriteBufInv DEF IInv
<1>10. CASE cur = NoBlock /\ UNCHANGED storeVars
  <2> USE DEF storeVars
  <2>1. waiting' # "read_f" /\ TypeOK'
    BY <1>1, <1>2, <1>10, BulkSyncAssumption DEF TypeOK, Frame
  <2>2. \A b \in InodeBlock : Flushed(b)' = FALSE /\ Flushed(b) = FALSE
    BY <1>1, <1>2, <1>10, InodeBlockBound DEF Flushed, NoBlock
  <2>3. DiskInv'
    BY <1>2, <1>3, <1>10, <2>2, InodePlace DEF IInv, DiskInv, OnDisk
  <2>4. PendingInv'
    <3> SUFFICES ASSUME NEW q \in Request, pending[q] # Free PROVE Right(pending[q])'
      BY <1>10 DEF PendingInv
    <3>1. Right(pending[q])
      BY DEF IInv, PendingInv
    <3> QED
      BY <1>2, <1>3, <1>10, <2>2, <3>1 DEF Right
  <2>5. OneRequestPerBlock' /\ WaitInv' /\ BufInv'
    BY <1>1, <1>2, <1>10 DEF IInv, OneRequestPerBlock, WaitInv, BufInv
  <2>6. IndirectInv'
    BY <1>1, <1>2, <1>3, <1>10 DEF IInv, IndirectInv
  <2> QED
    BY <1>8, <2>1, <2>3, <2>4, <2>5, <2>6 DEF IInv
<1> QED
  BY <1>9, <1>10 DEF FlushBlock

LEMMA FlushLastInv == IInv /\ FlushLast => IInv'
<1> SUFFICES ASSUME IInv, FlushLast PROVE IInv'
  OBVIOUS
<1>1. /\ TypeOK /\ pc = "inodes" /\ Write(BlockBuf, cur) /\ at > Len(inodes)
      /\ UNCHANGED <<inodes, dirty, indirectDirty, wasDirty, sync, at, cur>>
      /\ pc' = "wait"
  BY DEF IInv, FlushLast, At
<1>2. /\ Len(inodes) > 0
      /\ \A k \in DOMAIN inodes : k < at => B(k) <= cur
  BY <1>1 DEF IInv, LoopInv
<1>3. \A k \in DOMAIN inodes : k < at /\ B(k) <= cur /\ B(k) \in Nat
  BY <1>1, <1>2, ListedPlace, InodePlace, InodeBlockBound DEF TypeOK, B
<1>4. cur # NoBlock
  <2>1. 1 \in DOMAIN inodes
    BY <1>1, <1>2, ListedPlace DEF TypeOK
  <2> QED
    BY <1>1, <1>3, <2>1 DEF NoBlock
<1>5. \A b : Flushed(b)' = TRUE
  BY <1>1 DEF Flushed
<1>6. waiting' # "read_f" => LoopInv' /\ DirtyInv'
  BY <1>1 DEF IInv, LoopInv, DirtyInv
<1> QED
  BY <1>1, <1>3, <1>4, <1>5, <1>6, WriteBufInv DEF IInv

LEMMA LoadBlockInv == IInv /\ LoadBlock => IInv'
<1> SUFFICES ASSUME IInv, LoadBlock PROVE IInv'
  OBVIOUS
<1> DEFINE b == B(at)
<1>1. /\ TypeOK /\ pc = "load" /\ waiting = None /\ at \in DOMAIN inodes
      /\ at \in Nat /\ b # cur
  BY ListedPlace DEF IInv, LoadBlock, At, TypeOK, LoopInv
<1>2. /\ UNCHANGED <<inodes, dirty, indirectDirty, wasDirty, sync, at>>
      /\ pc' = "inodes" /\ cur' = b /\ Read(b)
  BY DEF LoadBlock, B
<1>3. Listed' = Listed /\ \A k : B(k)' = B(k)
  BY <1>2 DEF Listed, B
<1>4. \A k \in DOMAIN inodes : B(k) \in Nat /\ B(k) \in InodeBlock
  BY <1>1, ListedPlace, InodePlace, InodeBlockBound DEF B
<1>5. b \in Block /\ BlockBuf \in Buf /\ cur \in Int
  BY <1>1, <1>4, InodeBlockBound DEF Block, Buf, TypeOK, NoBlock
<1>6. /\ Sorted(inodes)
      /\ \A k \in DOMAIN inodes : /\ k < at => B(k) <= cur
                                  /\ k >= at => cur <= B(k)
  BY <1>1 DEF IInv, LoopInv
<1>7. cur < b
  BY <1>1, <1>4, <1>5, <1>6
<1>8. ASSUME NEW k \in DOMAIN inodes
      PROVE  (k < at => B(k) < b) /\ (k >= at => b <= B(k))
  <2>1. k \in Nat
    BY <1>1, ListedPlace
  <2>2. CASE k < at
    BY <1>1, <1>4, <1>5, <1>6, <1>7, <2>1, <2>2
  <2>3. CASE k = at
    BY <1>1, <1>4, <2>1, <2>3
  <2>4. CASE k > at
    BY <1>1, <1>4, <1>6, <2>1, <2>4 DEF Sorted, B
  <2> QED
    BY <1>1, <2>1, <2>2, <2>3, <2>4
<1>9. PICK q \in Request :
        /\ pending[q] = Free /\ Record("read", "read_f", BlockBuf, b) \in Pending
        /\ pending' = [pending EXCEPT ![q] = Record("read", "read_f", BlockBuf, b)]
  BY <1>1, <1>2, <1>5, ReadStep
<1>10. disk' = disk /\ mem' = mem /\ waiting' = "read_f"
  BY <1>1, <1>2, <1>5, ReadStep
<1>11. /\ \A p \in Request \ {q} : pending'[p] = pending[p]
       /\ pending'[q] = Record("read", "read_f", BlockBuf, b) /\ pending'[q] # Free
       /\ pending'[q].op = "read" /\ pending'[q].fut = "read_f"
       /\ pending'[q].blk = b /\ pending'[q].buf = BlockBuf
  BY <1>1, <1>9, FreeIsNoRecord DEF TypeOK, Record
<1>12. \A p \in Request : pending[p] # Free => Right(pending[p]) /\ pending[p].op # "read"
  BY <1>1, BulkSyncAssumption DEF IInv, PendingInv, Right, Frame
<1>13. \A c : (Flushed(c) <=> c <= cur) /\ (Flushed(c)' <=> c < b)
  BY <1>1, <1>2 DEF Flushed
<1>14. \A c \in InodeBlock : Flushed(c) => Flushed(c)'
  BY <1>4, <1>5, <1>7, <1>13, <1>1, InodeBlockBound
<1>15. TypeOK'
  BY <1>1, <1>2, <1>4, <1>9, <1>10, ListedPlace DEF TypeOK, Frame
<1>16. LoopInv'
  BY <1>1, <1>2, <1>3, <1>4, <1>6, <1>8, <1>10 DEF IInv, LoopInv
<1>17. DiskInv'
  <2> SUFFICES ASSUME NEW i \in Inode
      PROVE /\ OnDisk(i)' = "new" => i \in Listed /\ Flushed(BlockNr(i))'
            /\ i \in Listed /\ Flushed(BlockNr(i))' =>
                 \/ OnDisk(i)' = "new"
                 \/ \E p \in Request : /\ pending'[p] # Free /\ pending'[p].op = "write"
                                       /\ pending'[p].blk = BlockNr(i)
    BY <1>3 DEF DiskInv
  <2>1. BlockNr(i) \in InodeBlock /\ OnDisk(i)' = OnDisk(i)
    BY <1>10, InodePlace DEF OnDisk
  <2>2. OnDisk(i) = "new" => i \in Listed /\ Flushed(BlockNr(i))'
    BY <1>14, <2>1 DEF IInv, DiskInv
  <2>3. ASSUME i \in Listed, Flushed(BlockNr(i))', OnDisk(i) # "new"
        PROVE \E p \in Request : /\ pending'[p] # Free /\ pending'[p].op = "write"
                                 /\ pending'[p].blk = BlockNr(i)
    <3>1. PICK k \in DOMAIN inodes : inodes[k] = i
      BY <1>1, <2>3, ListedPlace
    <3>2. B(k) = BlockNr(i) /\ B(k) < b
      BY <1>13, <2>3, <3>1 DEF B
    <3>3. k < at
      BY <1>1, <1>4, <1>8, <3>2, ListedPlace
    <3>4. Flushed(BlockNr(i))
      BY <1>6, <1>13, <3>2, <3>3
    <3>5. PICK p \in Request : /\ pending[p] # Free /\ pending[p].op = "write"
                               /\ pending[p].blk = BlockNr(i)
      BY <2>3, <3>4 DEF IInv, DiskInv
    <3> QED
      BY <1>9, <1>11, <3>5
  <2> QED
    BY <2>1, <2>2, <2>3
<1>18. PendingInv'
  <2> SUFFICES ASSUME NEW p \in Request, pending'[p] # Free PROVE Right(pending[p])'
    BY DEF PendingInv
  <2>1. CASE p = q
    BY <1>1, <1>2, <1>4, <1>10, <1>11, <2>1 DEF Right
  <2>2. CASE p # q
    <3>1. Right(pending[p]) /\ pending'[p] = pending[p] /\ pending[p].op # "read"
      BY <1>11, <1>12, <2>2
    <3> QED
      BY <1>2, <1>3, <1>14, <3>1 DEF Right
  <2> QED
    BY <2>1, <2>2
<1>19. OneRequestPerBlock'
  <2>1. \A p \in Request : pending[p] # Free => pending[p].blk # b
    BY <1>1, <1>4, <1>5, <1>7, <1>12, <1>13 DEF Right
  <2> QED
    BY <1>11, <2>1 DEF IInv, OneRequestPerBlock
<1>20. BufInv'
  BY <1>11 DEF BufInv, Reading
<1>21. IndirectInv'
  <2>1. ASSUME NEW p \in Request, pending[p] # Free
        PROVE  pending'[p] # Free /\ pending'[p].blk = pending[p].blk
    BY <1>9, <1>11, <2>1
  <2> QED
    BY <1>1, <1>2, <1>3, <1>10, <2>1 DEF IInv, IndirectInv
<1>22. WaitInv'
  <2>1. \A p \in Request : pending[p] # Free => ~ sync
    BY <1>1, BulkSyncAssumption DEF IInv, WaitInv, TypeOK, Pending
  <2> QED
    BY <1>2, <1>10, <1>11, <2>1 DEF WaitInv
<1>23. DirtyInv'
  BY <1>1, <1>2 DEF IInv, DirtyInv
<1> QED
  BY <1>15, <1>16, <1>17, <1>18, <1>19, <1>20, <1>21, <1>22, <1>23 DEF IInv

LEMMA CopyDinodeInv == IInv /\ CopyDinode => IInv'
<1> SUFFICES ASSUME IInv, CopyDinode PROVE IInv'
  OBVIOUS
<1> DEFINE i == inodes[at]
<1>1. /\ TypeOK /\ pc = "inodes" /\ waiting = None /\ at \in DOMAIN inodes
      /\ at \in Nat /\ B(at) = cur /\ i \in Inode /\ i \in Listed
  BY ListedPlace DEF IInv, CopyDinode, At, TypeOK, B
<1>2. /\ UNCHANGED <<inodes, indirectDirty, wasDirty, sync, pc, cur, disk, pending, waiting>>
      /\ dirty' = dirty \ {i} /\ at' = at + 1
      /\ mem' = [mem EXCEPT ![BlockBuf] = [mem[BlockBuf] EXCEPT ![Offset(i)] = "new"]]
  BY DEF CopyDinode, Store!Fill
<1>3. Listed' = Listed /\ \A k : B(k)' = B(k)
  BY <1>2 DEF Listed, B
<1>4. /\ BlockBuf \in Buf /\ mem[BlockBuf] \in Contents /\ Offset(i) \in 0 .. PerBlock - 1
      /\ \A d \in Buf : d # BlockBuf => mem'[d] = mem[d]
  BY <1>1, <1>2, InodePlace DEF Buf, TypeOK
<1>5. TypeOK'
  <2>1. [mem[BlockBuf] EXCEPT ![Offset(i)] = "new"] \in Contents
    BY <1>4 DEF Contents
  <2>2. mem' \in [Buf -> Contents]
    BY <1>1, <1>2, <2>1 DEF TypeOK
  <2>3. at' \in 1 .. Len(inodes') + 1
    BY <1>1, <1>2, ListedPlace DEF TypeOK
  <2> QED
    BY <1>1, <1>2, <2>2, <2>3 DEF TypeOK
<1>6. \A k \in DOMAIN inodes : /\ k \in Nat
                               /\ k < at + 1 <=> k < at \/ k = at
                               /\ k >= at + 1 => k >= at
  BY <1>1, ListedPlace
<1>7. LoopInv'
  <2>1. cur <= cur
    BY <1>1, InodePlace, InodeBlockBound DEF B
  <2>2. waiting # "read_f"
    BY <1>1, BulkSyncAssumption DEF Frame
  <2> QED
    BY <1>1, <1>2, <1>3, <1>6, <2>1, <2>2 DEF IInv, LoopInv
<1>8. DiskInv' /\ PendingInv' /\ OneRequestPerBlock' /\ WaitInv'
  BY <1>2, <1>3 DEF IInv, DiskInv, PendingInv, Right, Flushed, OnDisk, OneRequestPerBlock, WaitInv
<1>9. BufInv'
  <2> SUFFICES ASSUME ~ Reading, NEW j \in Inode, BlockNr(j) = cur
               PROVE  mem'[BlockBuf][Offset(j)] = "new"
                        <=> \E k \in DOMAIN inodes : k < at + 1 /\ inodes[k] = j
    BY <1>2 DEF BufInv, Reading
  <2>1. mem[BlockBuf][Offset(j)] = "new"
          <=> \E k \in DOMAIN inodes : k < at /\ inodes[k] = j
    BY <1>1 DEF IInv, BufInv
  <2>2. CASE j = i
    BY <1>1, <1>2, <1>4, <1>6, <2>2 DEF TypeOK, Contents
  <2>3. CASE j # i
    <3>1. Offset(j) # Offset(i) /\ Offset(j) \in 0 .. PerBlock - 1
      BY <1>1, <2>3, PlaceInjective, InodePlace DEF B
    <3>2. mem'[BlockBuf][Offset(j)] = mem[BlockBuf][Offset(j)]
      BY <1>1, <1>2, <1>4, <3>1 DEF TypeOK, Contents
    <3> QED
      BY <1>6, <2>1, <2>3, <3>2
  <2> QED
    BY <2>2, <2>3
<1>10. IndirectInv'
  <2>1. \A j \in Inode : j \in Buf /\ j # BlockBuf
    BY BulkSyncAssumption DEF Buf, BlockBuf, Inode
  <2> QED
    BY <1>1, <1>2, <1>3, <1>4, <2>1 DEF IInv, IndirectInv
<1>11. DirtyInv'
  <2>1. \A k \in DOMAIN inodes : inodes[k] = i => k = at
    BY <1>1 DEF TypeOK, IsInjective
  <2> QED
    BY <1>1, <1>2, <1>6, <2>1 DEF IInv, DirtyInv
<1> QED
  BY <1>5, <1>7, <1>8, <1>9, <1>10, <1>11 DEF IInv

LEMMA CallerWaitInv == IInv /\ CallerWait => IInv'
<1> SUFFICES ASSUME IInv, CallerWait PROVE IInv'
  OBVIOUS
<1>1. /\ TypeOK /\ pc = "wait" /\ waiting = None /\ pc' = "done"
      /\ UNCHANGED <<disk, mem, pending, inodes, dirty, indirectDirty, wasDirty, sync, at, cur>>
      /\ waiting' = IF sync THEN None ELSE "f"
  BY DEF IInv, CallerWait, At, Store!Wait, storeVars
<1>2. Listed' = Listed
  BY <1>1 DEF Listed
<1>3. \A b : Flushed(b) = TRUE /\ Flushed(b)' = TRUE
  BY <1>1 DEF Flushed
<1>4. waiting' # "read_f" /\ waiting # "read_f" /\ None # "f"
  BY <1>1, BulkSyncAssumption DEF Frame
<1>5. TypeOK' /\ LoopInv' /\ DirtyInv' /\ BufInv'
  BY <1>1, <1>4 DEF IInv, TypeOK, LoopInv, DirtyInv, BufInv, Frame
<1>6. DiskInv' /\ OneRequestPerBlock' /\ IndirectInv'
  BY <1>1, <1>2, <1>3 DEF IInv, DiskInv, OneRequestPerBlock, IndirectInv, OnDisk
<1>7. PendingInv'
  BY <1>1, <1>2, <1>3, <1>4 DEF IInv, PendingInv, Right
<1>8. WaitInv'
  <2>1. \A q \in Request : pending[q] # Free => pending[q].fut # None
    BY <1>1, BulkSyncAssumption DEF TypeOK, Pending
  <2> QED
    BY <1>1, <1>4, <2>1 DEF IInv, WaitInv
<1> QED
  BY <1>5, <1>6, <1>7, <1>8 DEF IInv

LEMMA LandInv ==
  ASSUME IInv, NEW q \in Request, Store!Land(q),
         UNCHANGED <<inodes, dirty, indirectDirty, wasDirty, sync, pc, at, cur>>
  PROVE  IInv'
<1> DEFINE r == pending[q]
<1>1. /\ TypeOK /\ r # Free /\ r \in Pending /\ Right(r)
      /\ pending' = [pending EXCEPT ![q] = Free] /\ waiting' = waiting
  BY DEF IInv, TypeOK, PendingInv, Store!Land
<1>2. Listed' = Listed /\ \A k : B(k)' = B(k)
  BY DEF Listed, B
<1>3. \A b : Flushed(b)' <=> Flushed(b)
  BY DEF Flushed
<1>4. /\ pending'[q] = Free
      /\ \A p \in Request \ {q} : pending'[p] = pending[p]
  BY <1>1 DEF TypeOK
<1>5. LoopInv' /\ DirtyInv' /\ OneRequestPerBlock' /\ WaitInv'
  BY <1>1, <1>2, <1>4 DEF IInv, LoopInv, DirtyInv, OneRequestPerBlock, WaitInv
<1>6. PendingInv'
  <2> SUFFICES ASSUME NEW p \in Request, pending'[p] # Free PROVE Right(pending[p])'
    BY DEF PendingInv
  <2>1. Right(pending[p]) /\ pending'[p] = pending[p]
    BY <1>4 DEF IInv, PendingInv
  <2> QED
    BY <1>1, <1>2, <1>3, <2>1 DEF Right
<1>7. CASE r.op = "write"
  <2>1. /\ disk' = [disk EXCEPT ![r.blk] = r.val] /\ mem' = mem
        /\ r.blk \in Block /\ r.val \in Contents
    BY <1>1, <1>7 DEF Store!Land, Pending
  <2>2. TypeOK'
    BY <1>1, <2>1 DEF TypeOK
  <2>3. /\ disk'[r.blk] = r.val
        /\ \A b \in Block : b # r.blk => disk'[b] = disk[b]
    BY <1>1, <2>1 DEF TypeOK
  <2>4. DiskInv'
    <3> SUFFICES ASSUME NEW i \in Inode
        PROVE /\ OnDisk(i)' = "new" => i \in Listed /\ Flushed(BlockNr(i))
              /\ i \in Listed /\ Flushed(BlockNr(i)) =>
                   \/ OnDisk(i)' = "new"
                   \/ \E p \in Request : /\ pending'[p] # Free /\ pending'[p].op = "write"
                                         /\ pending'[p].blk = BlockNr(i)
      BY <1>2, <1>3 DEF DiskInv
    <3>1. BlockNr(i) \in InodeBlock /\ BlockNr(i) \in Block
      BY InodePlace DEF Block
    <3>2. CASE BlockNr(i) = r.blk
      <4>1. OnDisk(i)' = r.val[Offset(i)]
        BY <2>3, <3>2 DEF OnDisk
      <4>2. /\ Flushed(BlockNr(i))
            /\ r.val[Offset(i)] = "new" <=> i \in Listed
        BY <1>1, <1>7, <3>1, <3>2 DEF Right
      <4> QED
        BY <4>1, <4>2
    <3>3. CASE BlockNr(i) # r.blk
      <4>1. OnDisk(i)' = OnDisk(i)
        BY <2>3, <3>1, <3>3 DEF OnDisk
      <4> QED
        BY <1>4, <3>3, <4>1 DEF IInv, DiskInv
    <3> QED
      BY <3>2, <3>3
  <2>5. BufInv'
    BY <1>4, <1>7, <2>1 DEF IInv, BufInv, Reading
  <2>6. IndirectInv'
    <3>1. ASSUME NEW i \in Inode PROVE
            /\ \/ disk'[Indirect(i)] = Old
               \/ disk'[Indirect(i)] = New /\ i \in wasDirty \ indirectDirty
            /\ i \in wasDirty \ indirectDirty =>
                 \/ disk'[Indirect(i)] = New
                 \/ \E p \in Request : pending'[p] # Free /\ pending'[p].blk = Indirect(i)
      <4>1. Indirect(i) \in Block
        BY IndirectPlace
      <4>2. CASE Indirect(i) = r.blk
        BY <1>1, <1>7, <2>3, <4>2 DEF Right
      <4>3. CASE Indirect(i) # r.blk
        <5>1. disk'[Indirect(i)] = disk[Indirect(i)]
          BY <2>3, <4>1, <4>3
        <5> QED
          BY <1>4, <4>3, <5>1 DEF IInv, IndirectInv
      <4> QED
        BY <4>2, <4>3
    <3> QED
      BY <1>2, <2>1, <3>1 DEF IInv, IndirectInv
  <2> QED
    BY <1>5, <1>6, <2>2, <2>4, <2>5, <2>6 DEF IInv
<1>8. CASE r.op # "write"
  <2>1. /\ r.op = "read" /\ disk' = disk /\ mem' = [mem EXCEPT ![BlockBuf] = disk[cur]]
        /\ cur \in InodeBlock /\ cur \in Block /\ waiting = "read_f"
    BY <1>1, <1>8 DEF Store!Land, Pending, Right, Block
  <2>2. /\ TypeOK' /\ mem'[BlockBuf] = disk[cur]
        /\ \A d \in Buf : d # BlockBuf => mem'[d] = mem[d]
    BY <1>1, <2>1 DEF TypeOK, Buf
  <2>3. DiskInv'
    <3> SUFFICES ASSUME NEW i \in Inode
        PROVE /\ OnDisk(i)' = "new" => i \in Listed /\ Flushed(BlockNr(i))
              /\ i \in Listed /\ Flushed(BlockNr(i)) =>
                   \/ OnDisk(i)' = "new"
                   \/ \E p \in Request : /\ pending'[p] # Free /\ pending'[p].op = "write"
                                         /\ pending'[p].blk = BlockNr(i)
      BY <1>2, <1>3 DEF DiskInv
    <3> QED
      BY <1>4, <1>8, <2>1 DEF IInv, DiskInv, OnDisk
  <2>4. BufInv'
    <3> SUFFICES ASSUME pc = "inodes", NEW i \in Inode, BlockNr(i) = cur
                 PROVE  mem'[BlockBuf][Offset(i)] = "new"
                          <=> \E k \in DOMAIN inodes : k < at /\ inodes[k] = i
      BY DEF BufInv
    <3>1. ~ Flushed(BlockNr(i))
      BY <2>1, InodeBlockBound DEF Flushed
    <3>2. OnDisk(i) # "new"
      BY <3>1 DEF IInv, DiskInv
    <3>3. \A k \in DOMAIN inodes : k < at => B(k) < cur
      BY <2>1 DEF IInv, LoopInv
    <3>4. \A k \in DOMAIN inodes : k < at => inodes[k] # i
      BY <2>1, <3>3, InodeBlockBound DEF B
    <3> QED
      BY <2>2, <3>2, <3>4 DEF OnDisk
  <2>5. IndirectInv'
    <3>1. \A i \in Inode : i \in Buf /\ i # BlockBuf
      BY BulkSyncAssumption DEF Buf, BlockBuf, Inode
    <3>2. \A i \in Inode : r.blk # Indirect(i)
      BY <1>1, <2>1, IndirectPlace DEF Right
    <3> QED
      BY <1>2, <1>4, <2>1, <2>2, <3>1, <3>2 DEF IInv, IndirectInv
  <2> QED
    BY <1>5, <1>6, <2>2, <2>3, <2>4, <2>5 DEF IInv
<1> QED
  BY <1>7, <1>8

LEMMA WakeInv ==
  ASSUME IInv, Store!Wake,
         UNCHANGED <<inodes, dirty, indirectDirty, wasDirty, sync, pc, at, cur>>
  PROVE  IInv'
<1>1. /\ TypeOK /\ waiting # None /\ waiting' = None
      /\ UNCHANGED <<disk, mem, pending>>
      /\ \A q \in Request : pending[q] # Free => pending[q].fut # waiting
  BY DEF IInv, Store!Wake, Store!Of
<1>2. Listed' = Listed /\ \A k : B(k)' = B(k)
  BY DEF Listed, B
<1>3. \A b : Flushed(b)' <=> Flushed(b)
  BY DEF Flushed
<1>4. None # "read_f"
  BY BulkSyncAssumption DEF Frame
<1>5. TypeOK' /\ LoopInv' /\ DirtyInv' /\ BufInv'
  BY <1>1, <1>2, <1>4 DEF IInv, TypeOK, LoopInv, DirtyInv, BufInv, Reading
<1>6. DiskInv' /\ OneRequestPerBlock' /\ IndirectInv'
  BY <1>1, <1>2, <1>3 DEF IInv, DiskInv, OneRequestPerBlock, IndirectInv, OnDisk
<1>7. ASSUME NEW q \in Request, pending[q] # Free
      PROVE  Right(pending[q]) /\ pending[q].op # "read" /\ pending[q].fut = "f"
  BY <1>1, <1>7 DEF IInv, PendingInv, Right
<1>8. PendingInv'
  <2> SUFFICES ASSUME NEW p \in Request, pending[p] # Free PROVE Right(pending[p])'
    BY <1>1 DEF PendingInv
  <2> QED
    BY <1>1, <1>2, <1>3, <1>7 DEF Right
<1>9. WaitInv'
  <2>1. pc = "done" => waiting = "f"
    BY <1>1 DEF IInv, LoopInv, TypeOK, Frame
  <2>2. sync => \A q \in Request : pending[q] = Free
    BY <1>1 DEF IInv, WaitInv
  <2> QED
    BY <1>1, <1>7, <2>1, <2>2 DEF WaitInv
<1> QED
  BY <1>5, <1>6, <1>8, <1>9 DEF IInv

LEMMA StepInv == IInv /\ [Next]_vars => IInv'
<1> SUFFICES ASSUME IInv, [Next]_vars PROVE IInv'
  OBVIOUS
<1>1. CASE Call
  BY <1>1, FlushIndirectInv, SortInv, FlushBlockInv, LoadBlockInv, CopyDinodeInv,
     FlushLastInv, CallerWaitInv DEF Call
<1>2. CASE Reactors
  BY <1>2, LandInv, WakeInv DEF Reactors
<1>3. CASE UNCHANGED vars
  BY <1>3 DEF vars, storeVars, IInv, TypeOK, LoopInv, Sorted, B, DiskInv, OnDisk, Flushed,
     Listed, PendingInv, Right, OneRequestPerBlock, BufInv, Reading, IndirectInv, WaitInv,
     DirtyInv
<1> QED
  BY <1>1, <1>2, <1>3 DEF Next

-----------------------------------------------------------------------------
(***************************************************************************)
(* The theorems.                                                           *)
(***************************************************************************)

LEMMA SpecInv == Spec => []IInv
BY InitInv, StepInv, PTL DEF Spec

\* The types of the variables, for any list (the arguments and locals of
\* testfs_bulk_sync_inode_async).
THEOREM BulkTypeCorrect == Spec => []TypeOK
<1>1. IInv => TypeOK
  BY DEF IInv
<1> QED
  BY SpecInv, <1>1, PTL

\* When the caller has waited, everything that was dirty is on the disk,
\* however the list is ordered and the writes are delayed.
THEOREM BulkSyncedAlways == Spec => []BulkSynced
BY SpecInv, SyncedFromInv, PTL

\* Nothing else on the disk changes, though whole blocks are written back.
THEOREM OthersUntouchedAlways == Spec => []OthersUntouched
BY SpecInv, OthersFromInv, PTL

\* Two requests for one block are never under way: what the sort is for.
THEOREM OneRequestPerBlockAlways == Spec => []OneRequestPerBlock
<1>1. IInv => OneRequestPerBlock
  BY DEF IInv
<1> QED
  BY SpecInv, <1>1, PTL

\* A dinode whose dirty flag is clear is on the disk or on its way there.
THEOREM CleanIsSavedAlways == Spec => []CleanIsSaved
BY SpecInv, CleanFromInv, PTL

LEMMA NeverBackStep ==
  IInv /\ [Next]_vars =>
    [/\ \A i \in Inode : OnDisk(i) = "new" => OnDisk(i)' = "new"
     /\ \A i \in Inode : disk[Indirect(i)] = New => disk'[Indirect(i)] = New]_vars
<1> SUFFICES ASSUME IInv, Next PROVE
      /\ \A i \in Inode : OnDisk(i) = "new" => OnDisk(i)' = "new"
      /\ \A i \in Inode : disk[Indirect(i)] = New => disk'[Indirect(i)] = New
  OBVIOUS
<1>1. CASE disk' = disk
  BY <1>1 DEF OnDisk
<1>2. CASE \E q \in Request : Store!Land(q) /\ pending[q].op = "write"
  <2>1. PICK q \in Request : Store!Land(q) /\ pending[q].op = "write"
    BY <1>2
  <2> DEFINE r == pending[q]
  <2>2. /\ TypeOK /\ r \in Pending /\ Right(r)
        /\ disk' = [disk EXCEPT ![r.blk] = r.val] /\ r.blk \in Block
    BY <2>1 DEF IInv, TypeOK, PendingInv, Store!Land, Pending
  <2>3. /\ disk'[r.blk] = r.val
        /\ \A b \in Block : b # r.blk => disk'[b] = disk[b]
    BY <2>2 DEF TypeOK
  <2>4. ASSUME NEW i \in Inode, OnDisk(i) = "new" PROVE OnDisk(i)' = "new"
    <3>1. BlockNr(i) \in InodeBlock /\ BlockNr(i) \in Block /\ i \in Listed
      BY <2>4, InodePlace DEF IInv, DiskInv, Block
    <3>2. CASE BlockNr(i) = r.blk
      BY <2>1, <2>2, <2>3, <3>1, <3>2 DEF Right, OnDisk
    <3>3. CASE BlockNr(i) # r.blk
      BY <2>3, <2>4, <3>1, <3>3 DEF OnDisk
    <3> QED
      BY <3>2, <3>3
  <2>5. ASSUME NEW i \in Inode, disk[Indirect(i)] = New PROVE disk'[Indirect(i)] = New
    BY <2>1, <2>2, <2>3, <2>5, IndirectPlace DEF Right
  <2> QED
    BY <2>4, <2>5
<1>3. disk' = disk \/ \E q \in Request : Store!Land(q) /\ pending[q].op = "write"
  <2>1. CASE Reactors
    BY <2>1 DEF Reactors, Store!Land, Store!Wake
  <2>2. CASE Call
    BY <2>2 DEF Call, FlushIndirect, Sort, FlushBlock, LoadBlock, CopyDinode, FlushLast,
       CallerWait, Write, Read, Store!Pend, Store!Fill, Store!Wait, storeVars
  <2> QED
    BY <2>1, <2>2 DEF Next
<1> QED
  BY <1>1, <1>2, <1>3

\* What has reached the disk is never overwritten with what was there before.
THEOREM NeverBackAlways == Spec => NeverBack
BY SpecInv, NeverBackStep, PTL DEF Spec, NeverBack
=============================================================================
