------------------------------ MODULE BulkSync ------------------------------
(***************************************************************************)
(* Writing back several inodes at once: testfs_bulk_sync_inode_async and   *)
(* its synchronous twin, with the caller's wait that ends the batch        *)
(* (src/src/inode_alternate_async.c, inode_alternate_sync.c, bench_e2e.c). *)
(*                                                                         *)
(* The disk, the caller's buffers and the requests are those of            *)
(* FutureStore, which AsyncIO implements: a write takes effect once, some  *)
(* time after it was issued and before a wait on its future ends, in no    *)
(* particular order.  The function builds every inode block in one stack   *)
(* buffer, `block', out of what it reads from the disk and of the dinodes  *)
(* in memory, so two writes of one block, or a read of a block whose write *)
(* is on its way, would lose dinodes; the sort is what prevents them.      *)
(*                                                                         *)
(* The contents of a block are its PerBlock parts, dinodes in an inode     *)
(* block; each is "old" on the disk and "new" in memory.                   *)
(***************************************************************************)
EXTENDS Integers, FiniteSets, SequencesExt

CONSTANTS
  NInodes,    \* inodes on the device
  PerBlock,   \* INODES_PER_BLOCK
  MaxDirty,   \* bound: inodes of the list whose indirect block is dirty
  Request,    \* addresses of requests, as numbers
  Free, None  \* see FutureStore

Inode == 0 .. NInodes - 1

\* testfs_inode_to_block_nr and testfs_inode_to_block_offset.
BlockNr(i) == i \div PerBlock
Offset(i)  == i % PerBlock

NoBlock    == -1
InodeBlock == 0 .. (NInodes - 1) \div PerBlock
Indirect(i) == NInodes + i       \* the block i_indirect points to

Block == InodeBlock \cup {Indirect(i) : i \in Inode}
BlockBuf == -1                   \* the stack buffer `block'
Buf   == {BlockBuf} \cup Inode   \* and the in->indirect of each inode
Frame == {"f", "read_f"}

Contents == [0 .. PerBlock - 1 -> {"old", "new"}]
Old      == [o \in 0 .. PerBlock - 1 |-> "old"]
New      == [o \in 0 .. PerBlock - 1 |-> "new"]

Pending == [op: {"read", "write"}, fut: Frame, blk: Block, buf: Buf, val: Contents]

ASSUME BulkSyncAssumption ==
  /\ NInodes \in Nat /\ MaxDirty \in Nat /\ PerBlock \in Nat \ {0}
  /\ Request \subseteq Nat /\ IsFiniteSet(Request)
  /\ Free \notin Pending /\ None \notin Frame

VARIABLES
  disk, mem, pending, waiting,   \* see FutureStore
  inodes,         \* the list the caller passed, as sorted so far
  dirty,          \* inodes with I_FLAGS_DIRTY set
  indirectDirty,  \* inodes with I_FLAGS_INDIRECT_DIRTY set
  wasDirty,       \* indirectDirty when the call was made
  sync,           \* TRUE for the synchronous twin
  pc,             \* "indirect", "inodes", "load", "wait", "done"
  at,             \* index into inodes
  cur             \* cur_block_nr

storeVars == <<disk, mem, pending, waiting>>
vars == <<storeVars, inodes, dirty, indirectDirty, wasDirty, sync, pc, at, cur>>

Store == INSTANCE FutureStore WITH Value <- {}, Zero <- Old

Listed == ToSet(inodes)

TypeOK ==
  /\ disk \in [Block -> Contents] /\ mem \in [Buf -> Contents]
  /\ pending \in [Request -> Pending \cup {Free}]
  /\ waiting \in Frame \cup {None}
  /\ inodes \in Seq(Inode) /\ IsInjective(inodes)
  /\ dirty \subseteq Inode /\ indirectDirty \subseteq Inode
  /\ pc \in {"indirect", "inodes", "load", "wait", "done"}
  /\ at \in 1 .. Len(inodes) + 1
  /\ cur \in InodeBlock \cup {NoBlock}

Init ==
  /\ disk = [b \in Block |-> Old]
  /\ mem = [d \in Buf |-> IF d = BlockBuf THEN Old ELSE New]
  /\ pending = [q \in Request |-> Free]
  /\ waiting = None
  /\ \E S \in SUBSET Inode : inodes \in SetToSeqs(S)
  /\ dirty = Listed
  /\ indirectDirty \in {D \in SUBSET dirty : Cardinality(D) <= MaxDirty}
  /\ wasDirty = indirectDirty
  /\ sync \in BOOLEAN
  /\ pc = IF inodes = <<>> THEN "wait" ELSE "indirect"
  /\ at = 1
  /\ cur = NoBlock

-----------------------------------------------------------------------------
(***************************************************************************)
(* Calls of block.h.                                                       *)
(***************************************************************************)

\* The caller runs: it is not in spin_wait.
At(where) == pc = where /\ waiting = None

\* malloc: the lowest free address.
Lowest(q) == \A p \in Request : pending[p] = Free => q <= p

\* A write on f, waited for at once by the synchronous twin.
Write(d, b) ==
  /\ \E q \in Request : Lowest(q) /\ Store!Pend(q, "write", "f", d, b)
  /\ waiting' = IF sync THEN "f" ELSE None

\* Mutated: spin_wait(&read_f) is forgotten.
ReadUnawaited(b) ==
  /\ \E q \in Request : Lowest(q) /\ Store!Pend(q, "read", "read_f", BlockBuf, b)
  /\ UNCHANGED waiting

\* The read of an inode block is waited for in both.
Read(b) ==
  /\ \E q \in Request : Lowest(q) /\ Store!Pend(q, "read", "read_f", BlockBuf, b)
  /\ waiting' = "read_f"

-----------------------------------------------------------------------------
(***************************************************************************)
(* The function.                                                           *)
(***************************************************************************)

\* Step 1: one iteration of the loop over the indirect blocks.
FlushIndirect ==
  /\ At("indirect") /\ at <= Len(inodes)
  /\ LET i == inodes[at]
     IN  \/ /\ i \in indirectDirty
            /\ Write(i, Indirect(i))
            /\ indirectDirty' = indirectDirty \ {i}
         \/ /\ i \notin indirectDirty
            /\ UNCHANGED <<storeVars, indirectDirty>>
  /\ at' = at + 1
  /\ UNCHANGED <<inodes, dirty, wasDirty, sync, pc, cur>>

Sorted(s) == \A i, j \in DOMAIN s : i < j => BlockNr(s[i]) <= BlockNr(s[j])

\* Mutated: the list is left as it is.
SortedListUnsorted == {inodes}

\* Step 2: qsort by block number; the order inside a block is unspecified.
SortedList ==
  {s \in [DOMAIN inodes -> Listed] :
     ToSet(s) = Listed /\ IsInjective(s) /\ Sorted(s)}

Sort ==
  /\ At("indirect") /\ at > Len(inodes)
  /\ inodes' \in SortedList
  /\ pc' = "inodes" /\ at' = 1
  /\ UNCHANGED <<storeVars, dirty, indirectDirty, wasDirty, sync, cur>>

\* Mutated: the test for the first block is dropped.
FlushBlockAlways ==
  /\ At("inodes") /\ at <= Len(inodes)
  /\ BlockNr(inodes[at]) # cur
  /\ Write(BlockBuf, cur)
  /\ pc' = "load"
  /\ UNCHANGED <<inodes, dirty, indirectDirty, wasDirty, sync, at, cur>>

\* Step 3: a new block is reached.  The one built so far is written ...
FlushBlock ==
  /\ At("inodes") /\ at <= Len(inodes)
  /\ BlockNr(inodes[at]) # cur
  /\ \/ cur # NoBlock /\ Write(BlockBuf, cur)
     \/ cur = NoBlock /\ UNCHANGED storeVars
  /\ pc' = "load"
  /\ UNCHANGED <<inodes, dirty, indirectDirty, wasDirty, sync, at, cur>>

\* ... and the new one is read.
LoadBlock ==
  /\ At("load")
  /\ Read(BlockNr(inodes[at]))
  /\ cur' = BlockNr(inodes[at])
  /\ pc' = "inodes"
  /\ UNCHANGED <<inodes, dirty, indirectDirty, wasDirty, sync, at>>

\* The dinode is copied into the buffer.
CopyDinode ==
  /\ At("inodes") /\ at <= Len(inodes)
  /\ BlockNr(inodes[at]) = cur
  /\ Store!Fill(BlockBuf, [mem[BlockBuf] EXCEPT ![Offset(inodes[at])] = "new"])
  /\ dirty' = dirty \ {inodes[at]}
  /\ at' = at + 1
  /\ UNCHANGED <<inodes, indirectDirty, wasDirty, sync, pc, cur>>

\* Mutated: the last block is not written.
FlushLastNot ==
  /\ At("inodes") /\ at > Len(inodes)
  /\ pc' = "wait"
  /\ UNCHANGED <<storeVars, inodes, dirty, indirectDirty, wasDirty, sync, at, cur>>

FlushLast ==
  /\ At("inodes") /\ at > Len(inodes)
  /\ Write(BlockBuf, cur)
  /\ pc' = "wait"
  /\ UNCHANGED <<inodes, dirty, indirectDirty, wasDirty, sync, at, cur>>

\* Mutated: the caller does not wait.
CallerWaitNot ==
  /\ At("wait")
  /\ pc' = "done"
  /\ UNCHANGED <<storeVars, inodes, dirty, indirectDirty, wasDirty, sync, at, cur>>

\* The caller of the asynchronous function waits on f.
CallerWait ==
  /\ At("wait")
  /\ IF sync THEN UNCHANGED storeVars ELSE Store!Wait("f")
  /\ pc' = "done"
  /\ UNCHANGED <<inodes, dirty, indirectDirty, wasDirty, sync, at, cur>>

\* The reactors: a request takes effect, or a wait ends.
Reactors ==
  /\ (\E q \in Request : Store!Land(q)) \/ Store!Wake
  /\ UNCHANGED <<inodes, dirty, indirectDirty, wasDirty, sync, pc, at, cur>>

Call == FlushIndirect \/ Sort \/ FlushBlock \/ LoadBlock \/ CopyDinode
          \/ FlushLast \/ CallerWait

Next == Call \/ Reactors

Spec == Init /\ [][Next]_vars

-----------------------------------------------------------------------------
(***************************************************************************)
(* Properties.                                                             *)
(***************************************************************************)
OnDisk(i) == disk[BlockNr(i)][Offset(i)]

\* When the caller has waited, every dinode of the list, and every indirect
\* block that was dirty, is on the disk (inode_alternate.h:28-31).
BulkSynced ==
  At("done") =>
    /\ \A i \in Listed : OnDisk(i) = "new"
    /\ \A i \in wasDirty : disk[Indirect(i)] = New

\* At no moment does the call touch a dinode that is not in the list, though
\* it writes back the blocks they are in, or an indirect block that is clean.
OthersUntouched ==
  /\ \A i \in Inode \ Listed : OnDisk(i) = "old"
  /\ \A i \in Inode \ wasDirty : disk[Indirect(i)] = Old

\* No two requests for one block are under way: nothing orders them
\* (block.c:141-154).
OneRequestPerBlock ==
  \A p, q \in Request :
    /\ p # q /\ pending[p] # Free /\ pending[q] # Free
    => pending[p].blk # pending[q].blk

\* A dinode whose dirty flag is clear is on the disk, or on its way there: in
\* a write under way that comes last, or in the buffer yet to be written.
CleanIsSaved ==
  \A i \in Listed \ dirty :
    \/ OnDisk(i) = "new"
    \/ \E q \in Request : /\ pending[q] # Free /\ pending[q].op = "write"
                          /\ pending[q].blk = BlockNr(i)
                          /\ pending[q].val[Offset(i)] = "new"
    \/ cur = BlockNr(i) /\ mem[BlockBuf][Offset(i)] = "new" /\ pc \in {"inodes", "load"}

\* What has reached the disk is not overwritten with what was there before.
NeverBack ==
  [][/\ \A i \in Inode : OnDisk(i) = "new" => OnDisk(i)' = "new"
     /\ \A i \in Inode : disk[Indirect(i)] = New => disk'[Indirect(i)] = New]_vars
=============================================================================
