--------------------------- MODULE BlockMapProofs ---------------------------
(***************************************************************************)
(* Theorems about BlockMap, for any sizes of blocks, inodes and the volume, *)
(* any set of files and any commands: no block is referenced twice, what a *)
(* file references is marked, and no file has a hole; a classic write that *)
(* fails leaves the file and the freemap as they were, and a command that  *)
(* succeeds on a clean volume leaves it clean.                             *)
(***************************************************************************)
EXTENDS BlockMap, TLAPS, WellFoundedInduction

-----------------------------------------------------------------------------
(***************************************************************************)
(* The invariant.                                                          *)
(***************************************************************************)
IsCommand(c) ==
  /\ c = [op |-> c.op, f |-> c.f, pc |-> c.pc, start |-> c.start, size |-> c.size,
          next |-> c.next, total |-> c.total, to |-> c.to, ret |-> c.ret,
          tailRead |-> c.tailRead, clean |-> c.clean, was |-> c.was]
  /\ c.f \in File
  /\ c.pc \in {"alternate", "classic", "truncate", "remove", "sync"}
  /\ {c.start, c.size, c.next, c.total, c.to} \subseteq Nat

Types == TypeOK /\ (cmd # Idle => IsCommand(cmd))

\* What does not exist is empty, and what is free has been zeroed.
Cleared ==
  /\ \A f \in File \ live : inode[f] = EmptyDinode
  /\ \A b \in Block \ marked : table[b] = NoEntries

\* Every logical block below the size of a file is mapped, at every step.
Whole(f) ==
  \A i \in Nat : i * BlockSize < inode[f].size => i \in LogBlock /\ BlockAt(f, i) # 0

NothingMissing == \A f \in live : Whole(f)

IndDirty == "INDIRECT_DIRTY" \in flags

\* The cached indirect block: it is that of the alternate write under way, it
\* lacks nothing the device has, and what it has in addition is beyond the
\* size of the file, so that a truncation will not look for it on the device.
CacheIsNewer ==
  LET in == inode[cmd.f]
  IN  /\ cmd.op = "write" /\ cmd.pc \in {"alternate", "truncate", "sync"}
      /\ "INDIRECT_LOADED" \in flags /\ in.ind # 0
      /\ \A j \in 0 .. NIndirect - 1 : table[in.ind][j] \in {0, cache[j]}
      /\ cmd.pc = "alternate" => in.size <= cmd.next * BlockSize
      /\ cmd.pc = "truncate" => in.size <= cmd.to

CacheIsTable == inode[cmd.f].ind # 0 /\ cache = table[inode[cmd.f].ind]

Cached ==
  /\ cmd = Idle => flags = {}
  /\ IndDirty => cmd # Idle /\ CacheIsNewer
  /\ cmd # Idle /\ cmd.pc = "alternate" /\ ~IndDirty /\ "INDIRECT_LOADED" \in flags
       => CacheIsTable

\* The loops: what is behind is mapped.
MappedBefore(k) ==
  k <= NDirect + NIndirect /\ \A i \in 0 .. k - 1 : BlockAt(cmd.f, i) # 0

Loops ==
  cmd # Idle =>
    /\ cmd.f \in live
    /\ cmd.pc = "remove" => cmd.op = "rm"
    /\ cmd.pc \in {"alternate", "classic"} => MappedBefore(cmd.next)
    /\ cmd.pc = "alternate" =>
         /\ cmd.op = "write" /\ cmd.start = 0
         /\ cmd.next * BlockSize < cmd.size
         /\ cmd.size <= (NDirect + NIndirect) * BlockSize
    /\ cmd.pc = "classic" =>
         /\ cmd.op \in {"owrite", "import"}
         /\ cmd.start <= inode[cmd.f].size
         /\ cmd.op = "import" => cmd.start + cmd.size <= cmd.total

\* The conjuncts that are not about the command.
Volume == NoSharedBlock /\ RefsMarked /\ Cleared /\ NothingMissing /\ MappingAssertsHold

IInv == Types /\ Volume /\ Cached /\ Loops

-----------------------------------------------------------------------------
(***************************************************************************)
(* Arithmetic of blocks, and the allocator.                                *)
(***************************************************************************)
LEMMA Times ==
  ASSUME NEW i \in Nat
  PROVE  i * BlockSize \in Nat /\ (i + 1) * BlockSize = i * BlockSize + BlockSize
BY BlockMapAssumption

LEMMA TimesMonotone ==
  ASSUME NEW i \in Nat, NEW k \in Nat, i <= k
  PROVE  i * BlockSize <= k * BlockSize
<1>1. PICK d \in Nat : k = i + d
  <2>1. k - i \in Nat /\ k = i + (k - i)  OBVIOUS
  <2> QED BY <2>1
<1>2. k * BlockSize = i * BlockSize + d * BlockSize
  BY <1>1, BlockMapAssumption
<1>3. i * BlockSize \in Nat /\ d * BlockSize \in Nat
  BY Times
<1> QED BY <1>2, <1>3

\* A block that starts below byte n is before block k if n is not beyond it.
LEMMA Below ==
  ASSUME NEW i \in Nat, NEW k \in Nat, NEW n \in Nat,
         i * BlockSize < n, n <= k * BlockSize
  PROVE  i < k
<1> SUFFICES ASSUME k <= i PROVE FALSE
  OBVIOUS
<1>1. k * BlockSize <= i * BlockSize
  BY TimesMonotone
<1> QED BY <1>1, Times

\* DIVROUNDUP counts the blocks that start below byte n.
LEMMA BlocksOfCounts ==
  ASSUME NEW n \in Nat
  PROVE  /\ BlocksOf(n) \in Nat
         /\ n <= BlocksOf(n) * BlockSize
         /\ \A i \in Nat : i < BlocksOf(n) <=> i * BlockSize < n
<1> DEFINE q == BlocksOf(n)
<1>1. q \in Nat /\ q * BlockSize <= n + BlockSize - 1 /\ n + BlockSize - 1 < (q + 1) * BlockSize
  BY BlockMapAssumption, Z3 DEF BlocksOf
<1> HIDE DEF q
<1>2. n <= q * BlockSize
  BY <1>1, Times, BlockMapAssumption
<1>3. ASSUME NEW i \in Nat, i < q  PROVE  i * BlockSize < n
  <2>1. (i + 1) * BlockSize <= q * BlockSize
    BY <1>1, <1>3, TimesMonotone
  <2> QED BY <2>1, <1>1, Times, BlockMapAssumption
<1>4. ASSUME NEW i \in Nat, i * BlockSize < n  PROVE  i < q
  BY <1>1, <1>2, <1>4, Below
<1> QED BY <1>1, <1>2, <1>3, <1>4 DEF q

LEMMA MaxOfTwo ==
  ASSUME NEW a \in Int, NEW b \in Int
  PROVE  Max({a, b}) = IF a >= b THEN a ELSE b
<1>1. CASE a >= b
  <2>1. a \in {a, b} /\ \A y \in {a, b} : a >= y  BY <1>1
  <2>2. \A x \in {a, b} : (\A y \in {a, b} : x >= y) => x = a  BY <1>1
  <2> QED BY <1>1, <2>1, <2>2 DEF Max
<1>2. CASE ~(a >= b)
  <2>1. b \in {a, b} /\ \A y \in {a, b} : b >= y  BY <1>2
  <2>2. \A x \in {a, b} : (\A y \in {a, b} : x >= y) => x = b  BY <1>2
  <2> QED BY <1>2, <2>1, <2>2 DEF Max
<1> QED BY <1>1, <1>2

LEMMA MinOfTwo ==
  ASSUME NEW a \in Int, NEW b \in Int
  PROVE  Min({a, b}) = IF a <= b THEN a ELSE b
<1>1. CASE a <= b
  <2>1. a \in {a, b} /\ \A y \in {a, b} : a <= y  BY <1>1
  <2>2. \A x \in {a, b} : (\A y \in {a, b} : x <= y) => x = a  BY <1>1
  <2> QED BY <1>1, <2>1, <2>2 DEF Min
<1>2. CASE ~(a <= b)
  <2>1. b \in {a, b} /\ \A y \in {a, b} : b <= y  BY <1>2
  <2>2. \A x \in {a, b} : (\A y \in {a, b} : x <= y) => x = b  BY <1>2
  <2> QED BY <1>2, <2>1, <2>2 DEF Min
<1> QED BY <1>1, <1>2

\* bitmap_alloc returns a clear bit, if there is one.
LEMMA FirstClearIsClear ==
  ASSUME NEW m, m \subseteq Block, FirstClear(m) # 0
  PROVE  FirstClear(m) \in Block \ m
<1> DEFINE S == Block \ m
<1>1. S # {} /\ S \subseteq Nat /\ FirstClear(m) = Min(S)
  <2>1. m # Block /\ FirstClear(m) = Min(S)
    BY DEF FirstClear
  <2>2. S # {}
    BY <2>1
  <2>3. S \subseteq Nat
    BY BlockMapAssumption DEF Block
  <2> QED BY <2>1, <2>2, <2>3
<1>2. OpToRel(<, Nat) = {ss \in Nat \X Nat : ss[1] < ss[2]}
  BY DEF OpToRel
<1>3. PICK x \in S : \A y \in S : ~(<<y, x>> \in {ss \in Nat \X Nat : ss[1] < ss[2]})
  BY <1>1, <1>2, NatLessThanWellFounded, WFMin, ZenonT(60)
<1>4. ASSUME NEW y \in S  PROVE  x <= y
  <2>1. <<y, x>> \in Nat \X Nat  BY <1>1
  <2>2. ~(<<y, x>>[1] < <<y, x>>[2])  BY <1>3, <2>1
  <2> QED BY <1>1, <2>2
<1>5. Min(S) \in S
  <2> HIDE DEF S
  <2> QED BY <1>4 DEF Min
<1> QED BY <1>1, <1>5

-----------------------------------------------------------------------------
(***************************************************************************)
(* The two things a step does to the blocks of a file.                     *)
(***************************************************************************)

\* Places of g that were empty get blocks that were not marked.
Takes(g) ==
  /\ marked \subseteq marked' /\ marked' \subseteq Block
  /\ \A f \in File \ {g} : \A s \in Slot : BlockAt(f, s)' = BlockAt(f, s)
  /\ \A s \in Slot : BlockAt(g, s)' # BlockAt(g, s) =>
       /\ BlockAt(g, s) = 0
       /\ BlockAt(g, s)' \in marked' \ marked
       /\ \A t \in Slot : BlockAt(g, t)' = BlockAt(g, s)' => t = s

\* Places of g are emptied, and blocks of g that are referenced no more freed.
Gives(g) ==
  /\ marked' \subseteq marked
  /\ \A f \in File \ {g} : \A s \in Slot : BlockAt(f, s)' = BlockAt(f, s)
  /\ \A s \in Slot : BlockAt(g, s)' \in {0, BlockAt(g, s)}
  /\ \A b \in marked \ marked' : b \in Refs(g) /\ \A s \in Slot : BlockAt(g, s)' # b

\* What a step does to the blocks.
Moved ==
  \/ marked' = marked /\ \A f \in File : \A s \in Slot : BlockAt(f, s)' = BlockAt(f, s)
  \/ \E g \in File : Takes(g) \/ Gives(g)

LEMMA RefsAreMarked ==
  RefsMarked <=> \A f \in File : \A s \in Slot : BlockAt(f, s) # 0 => BlockAt(f, s) \in marked
BY DEF RefsMarked, Refs

LEMMA TakesSafe ==
  ASSUME NoSharedBlock, RefsMarked, marked \subseteq Block, NEW g \in File, Takes(g)
  PROVE  NoSharedBlock' /\ RefsMarked'
<1>1. \A f \in File, s \in Slot :
        \/ BlockAt(f, s)' = BlockAt(f, s)
        \/ f = g /\ BlockAt(g, s)' \in marked' \ marked
              /\ \A t \in Slot : BlockAt(g, t)' = BlockAt(g, s)' => t = s
  BY DEF Takes
<1>2. \A f \in File : \A s \in Slot : BlockAt(f, s) # 0 => BlockAt(f, s) \in marked
  BY RefsAreMarked
<1>3. marked \subseteq marked'
  BY DEF Takes
<1>4. \A f \in File : \A s \in Slot : BlockAt(f, s)' # 0 => BlockAt(f, s)' \in marked'
  BY <1>1, <1>2, <1>3
<1>5. ASSUME NEW f \in File, NEW h \in File, NEW s \in Slot, NEW t \in Slot,
             BlockAt(f, s)' = BlockAt(h, t)', BlockAt(f, s)' # 0
      PROVE  f = h /\ s = t
  <2>1. CASE BlockAt(f, s)' = BlockAt(f, s) /\ BlockAt(h, t)' = BlockAt(h, t)
    <3>1. BlockAt(f, s) = BlockAt(h, t) /\ BlockAt(f, s) # 0
      BY <1>5, <2>1
    <3> QED BY <3>1 DEF NoSharedBlock
  <2>2. CASE BlockAt(f, s)' = BlockAt(f, s) /\ BlockAt(h, t)' # BlockAt(h, t)
    <3>1. BlockAt(h, t)' \notin marked
      BY <1>1, <2>2
    <3>2. BlockAt(f, s)' \in marked
      BY <1>2, <1>5, <2>2
    <3> QED BY <1>5, <3>1, <3>2
  <2>3. CASE BlockAt(f, s)' # BlockAt(f, s) /\ BlockAt(h, t)' = BlockAt(h, t)
    <3>1. BlockAt(f, s)' \notin marked
      BY <1>1, <2>3
    <3>2. BlockAt(h, t)' \in marked
      BY <1>2, <1>5, <2>3
    <3> QED BY <1>5, <3>1, <3>2
  <2>4. CASE BlockAt(f, s)' # BlockAt(f, s) /\ BlockAt(h, t)' # BlockAt(h, t)
    BY <1>1, <1>5, <2>4
  <2> QED BY <2>1, <2>2, <2>3, <2>4
<1>6. NoSharedBlock'
  BY <1>5 DEF NoSharedBlock
<1>7. RefsMarked'
  BY <1>4 DEF RefsMarked, Refs
<1> QED BY <1>6, <1>7

LEMMA GivesSafe ==
  ASSUME NoSharedBlock, RefsMarked, NEW g \in File, Gives(g)
  PROVE  NoSharedBlock' /\ RefsMarked'
<1>1. \A f \in File, s \in Slot : BlockAt(f, s)' \in {0, BlockAt(f, s)}
  BY DEF Gives
<1>2. NoSharedBlock'
  BY <1>1 DEF NoSharedBlock
<1>3. ASSUME NEW f \in File, NEW s \in Slot, BlockAt(f, s)' # 0
      PROVE  BlockAt(f, s)' \in marked'
  <2>1. BlockAt(f, s)' = BlockAt(f, s) /\ BlockAt(f, s) \in marked
    BY <1>1, <1>3, RefsAreMarked
  <2>2. SUFFICES ASSUME BlockAt(f, s) \notin marked' PROVE FALSE
    BY <2>1
  <2>3. BlockAt(f, s) \in Refs(g) /\ \A t \in Slot : BlockAt(g, t)' # BlockAt(f, s)
    BY <2>1, <2>2 DEF Gives
  <2>4. PICK t \in Slot : BlockAt(g, t) = BlockAt(f, s)
    BY <2>3 DEF Refs
  <2>5. f = g
    BY <1>3, <2>1, <2>4 DEF NoSharedBlock
  <2> QED BY <2>1, <2>3, <2>5
<1>4. RefsMarked'
  BY <1>3 DEF RefsMarked, Refs
<1> QED BY <1>2, <1>4

LEMMA ClearIsNotReferenced ==
  ASSUME Types, RefsMarked, NEW b \in Block \ marked, NEW f \in File, NEW s \in Slot
  PROVE  BlockAt(f, s) # b
BY RefsAreMarked, BlockMapAssumption DEF Block

-----------------------------------------------------------------------------
(***************************************************************************)
(* The blocks of a file, as a function of its dinode and of the entries of *)
(* its indirect block.                                                     *)
(***************************************************************************)
View(in, e, s) ==
  IF s = IndSlot THEN in.ind
  ELSE IF s < NDirect THEN in.direct[s]
  ELSE IF in.ind = 0 THEN 0 ELSE e[s - NDirect]

Entries(f) == IF IndDirty /\ cmd.f = f THEN cache ELSE table[inode[f].ind]

LEMMA BlockAtIsView ==
  ASSUME NEW f \in File, NEW s \in Slot
  PROVE  BlockAt(f, s) = View(inode[f], Entries(f), s)
BY DEF BlockAt, View, Entry, Entries, IndDirty

LEMMA SlotIs ==
  /\ IndSlot \in Slot /\ LogBlock \subseteq Slot /\ Slot \subseteq Nat
  /\ \A s \in Slot : s # IndSlot => s \in LogBlock
  /\ \A s \in LogBlock : s # IndSlot /\ (s >= NDirect => s - NDirect \in 0 .. NIndirect - 1)
BY BlockMapAssumption DEF IndSlot, Slot, LogBlock

LEMMA BlockAtEntry ==
  ASSUME NEW f \in File, NEW i \in LogBlock, i >= NDirect
  PROVE  BlockAt(f, i) = IF inode[f].ind = 0 THEN 0 ELSE Entries(f)[i - NDirect]
<1>1. i \in Slot /\ i # IndSlot
  BY SlotIs
<1>2. ~(i < NDirect)
  BY BlockMapAssumption DEF LogBlock
<1> QED BY <1>1, <1>2, BlockAtIsView DEF View

LEMMA BlockAtType ==
  ASSUME Types, NEW f \in File, NEW s \in Slot
  PROVE  BlockAt(f, s) \in BlockPtr
<1>1. inode[f] \in Dinode /\ cache \in Table /\ table \in [Block -> Table]
  BY DEF Types, TypeOK
<1>2. inode[f].ind \in BlockPtr /\ inode[f].direct \in [0 .. NDirect - 1 -> BlockPtr]
  BY <1>1 DEF Dinode
<1>3. ASSUME NEW j \in 0 .. NIndirect - 1  PROVE Entry(f, j) \in BlockPtr
  <2>1. inode[f].ind = 0 \/ inode[f].ind \in Block
    BY <1>2, BlockMapAssumption DEF BlockPtr, Block
  <2>2. inode[f].ind \in Block => table[inode[f].ind][j] \in BlockPtr
    BY <1>1 DEF Table
  <2>3. cache[j] \in BlockPtr /\ 0 \in BlockPtr
    BY <1>1, BlockMapAssumption DEF Table, BlockPtr
  <2> QED BY <2>1, <2>2, <2>3 DEF Entry
<1>4. CASE s = IndSlot
  BY <1>2, <1>4 DEF BlockAt
<1>5. CASE s # IndSlot /\ s < NDirect
  <2>1. s \in 0 .. NDirect - 1
    BY <1>5, SlotIs, BlockMapAssumption
  <2> QED BY <1>2, <1>5, <2>1 DEF BlockAt
<1>6. CASE s # IndSlot /\ ~(s < NDirect)
  <2>1. s - NDirect \in 0 .. NIndirect - 1
    BY <1>6, SlotIs, BlockMapAssumption
  <2>2. BlockAt(f, s) = Entry(f, s - NDirect)
    BY <1>6 DEF BlockAt
  <2> QED BY <1>3, <2>1, <2>2
<1> QED BY <1>4, <1>5, <1>6

\* What a write may do to the blocks of the file the command works on: the file
\* gets dinode in, with entries e in its indirect block, and m are marked.  Only
\* block cmd.next and the indirect block may be new, and what is newly marked is
\* referenced.
TakesAs(in, e, m) ==
  LET f == cmd.f
  IN  /\ in \in Dinode /\ in.size = inode[f].size
      /\ marked \subseteq m /\ m \subseteq Block
      /\ \A s \in Slot : View(in, e, s) # BlockAt(f, s) =>
           /\ s \in {cmd.next, IndSlot} /\ BlockAt(f, s) = 0
           /\ View(in, e, s) \in m \ marked
           /\ \A t \in Slot : View(in, e, t) = View(in, e, s) => t = s
      /\ \A b \in m \ marked : \E s \in Slot : View(in, e, s) = b

\* Nothing is mapped.
LEMMA TakesNothing ==
  ASSUME Types, cmd # Idle
  PROVE  TakesAs(inode[cmd.f], Entries(cmd.f), marked)
<1>1. cmd.f \in File /\ inode[cmd.f] \in Dinode /\ marked \subseteq Block
  BY DEF Types, TypeOK, IsCommand
<1> QED BY <1>1, BlockAtIsView DEF TakesAs

\* Logical block i is mapped to a block that was free, in the dinode.
LEMMA TakesDirect ==
  ASSUME Types, RefsMarked, cmd # Idle, NEW i \in Nat, i = cmd.next, i < NDirect,
         BlockAt(cmd.f, i) = 0,
         NEW b \in Block \ marked
  PROVE  /\ TakesAs(Mapped(inode[cmd.f], i, b), Entries(cmd.f), marked \cup {b})
         /\ View(Mapped(inode[cmd.f], i, b), Entries(cmd.f), i) = b
         /\ Mapped(inode[cmd.f], i, b).ind = inode[cmd.f].ind
<1> DEFINE in == inode[cmd.f]
           out == Mapped(in, i, b)
           e == Entries(cmd.f)
<1>1. cmd.f \in File /\ in \in Dinode /\ marked \subseteq Block
  BY DEF Types, TypeOK, IsCommand
<1>2. i \in Slot /\ i # IndSlot /\ i \in 0 .. NDirect - 1
  BY BlockMapAssumption DEF Slot, IndSlot
<1>3. /\ out \in Dinode /\ out.size = in.size /\ out.ind = in.ind
      /\ out.direct = [in.direct EXCEPT ![i] = b]
      /\ in.direct \in [0 .. NDirect - 1 -> BlockPtr]
  <2>1. b \in BlockPtr
    BY BlockMapAssumption DEF BlockPtr, Block
  <2> QED BY <1>1, <1>2, <2>1 DEF Mapped, Dinode
<1>4. \A s \in Slot : BlockAt(cmd.f, s) = View(in, e, s)
  BY <1>1, BlockAtIsView
<1> HIDE DEF e, out
<1>5. out.direct[i] = b /\ \A s \in 0 .. NDirect - 1 : s # i => out.direct[s] = in.direct[s]
  BY <1>2, <1>3
<1>6. View(out, e, i) = b
  BY <1>2, <1>5 DEF View
<1>7. ASSUME NEW s \in Slot, s # i  PROVE View(out, e, s) = View(in, e, s)
  <2>1. s < NDirect => s \in 0 .. NDirect - 1
    BY SlotIs, BlockMapAssumption
  <2> QED BY <1>3, <1>5, <1>7, <2>1 DEF View
<1>8. \A s \in Slot : BlockAt(cmd.f, s) # b
  BY <1>1, ClearIsNotReferenced
<1>9. ASSUME NEW s \in Slot, View(out, e, s) # BlockAt(cmd.f, s)
      PROVE  /\ s \in {cmd.next, IndSlot} /\ BlockAt(cmd.f, s) = 0
             /\ View(out, e, s) \in (marked \cup {b}) \ marked
             /\ \A t \in Slot : View(out, e, t) = View(out, e, s) => t = s
  BY <1>4, <1>6, <1>7, <1>8, <1>9
<1>10. TakesAs(out, e, marked \cup {b})
  BY <1>1, <1>2, <1>3, <1>6, <1>9 DEF TakesAs
<1> QED BY <1>3, <1>6, <1>10 DEF e, out

LEMMA TakesEntry ==
  ASSUME Types, RefsMarked, cmd # Idle, NEW i \in LogBlock, i = cmd.next, i >= NDirect,
         inode[cmd.f].ind # 0, BlockAt(cmd.f, i) = 0, NEW b \in Block \ marked,
         NEW e, e = [Entries(cmd.f) EXCEPT ![i - NDirect] = b]
  PROVE  /\ e \in Table
         /\ TakesAs(inode[cmd.f], e, marked \cup {b})
         /\ View(inode[cmd.f], e, i) = b
<1> DEFINE in == inode[cmd.f]
           old == Entries(cmd.f)
<1>1. cmd.f \in File /\ in \in Dinode /\ marked \subseteq Block
  BY DEF Types, TypeOK, IsCommand
<1>2. i \in Slot /\ i # IndSlot /\ i - NDirect \in 0 .. NIndirect - 1 /\ ~(i < NDirect)
  BY SlotIs, BlockMapAssumption DEF LogBlock
<1>3. in.ind \in Block
  BY <1>1, BlockMapAssumption DEF Dinode, BlockPtr, Block
<1>4. old \in Table
  BY <1>3 DEF Entries, Types, TypeOK
<1>5. b \in BlockPtr
  BY BlockMapAssumption DEF Block, BlockPtr
<1>6. \A s \in Slot : BlockAt(cmd.f, s) = View(in, old, s)
  BY <1>1, BlockAtIsView
<1> HIDE DEF old
<1>7. e \in Table /\ e[i - NDirect] = b
        /\ \A j \in 0 .. NIndirect - 1 : j # i - NDirect => e[j] = old[j]
  BY <1>2, <1>4, <1>5 DEF Table, old
<1>8. View(in, e, i) = b
  BY <1>2, <1>7 DEF View
<1>9. ASSUME NEW s \in Slot, s # i  PROVE View(in, e, s) = View(in, old, s)
  <2>1. s # IndSlot /\ ~(s < NDirect) => s - NDirect \in 0 .. NIndirect - 1 /\ s - NDirect # i - NDirect
    BY <1>9, SlotIs, BlockMapAssumption DEF LogBlock
  <2> QED BY <1>7, <2>1 DEF View
<1>10. \A s \in Slot : BlockAt(cmd.f, s) # b
  BY <1>1, ClearIsNotReferenced
<1>11. ASSUME NEW s \in Slot, View(in, e, s) # BlockAt(cmd.f, s)
       PROVE  /\ s \in {cmd.next, IndSlot} /\ BlockAt(cmd.f, s) = 0
              /\ View(in, e, s) \in (marked \cup {b}) \ marked
              /\ \A t \in Slot : View(in, e, t) = View(in, e, s) => t = s
  BY <1>6, <1>8, <1>9, <1>10, <1>11
<1>12. TakesAs(in, e, marked \cup {b})
  BY <1>1, <1>2, <1>8, <1>11 DEF TakesAs
<1> QED BY <1>7, <1>8, <1>12

\* The first block of an indirect block, and the indirect block.
LEMMA TakesFirstEntry ==
  ASSUME Types, RefsMarked, cmd # Idle, NEW i \in LogBlock, i = cmd.next, i >= NDirect,
         inode[cmd.f].ind = 0,
         NEW b \in Block \ marked, NEW t \in Block \ marked, b # t,
         NEW in, in = [inode[cmd.f] EXCEPT !.ind = t],
         NEW e, e = [NoEntries EXCEPT ![i - NDirect] = b]
  PROVE  /\ e \in Table /\ in.ind = t
         /\ TakesAs(in, e, marked \cup {b, t})
         /\ View(in, e, i) = b
<1> DEFINE was == inode[cmd.f]
<1>1. cmd.f \in File /\ was \in Dinode /\ marked \subseteq Block
  BY DEF Types, TypeOK, IsCommand
<1>2. i \in Slot /\ i # IndSlot /\ i - NDirect \in 0 .. NIndirect - 1 /\ ~(i < NDirect)
  BY SlotIs, BlockMapAssumption DEF LogBlock
<1>3. b \in BlockPtr /\ t \in BlockPtr /\ 0 \in BlockPtr /\ b # 0 /\ t # 0
  BY BlockMapAssumption DEF Block, BlockPtr
<1>4. in \in Dinode /\ in.size = was.size /\ in.ind = t /\ in.direct = was.direct
  BY <1>1, <1>3 DEF Dinode
<1>5. \A s \in Slot : BlockAt(cmd.f, s) = View(was, Entries(cmd.f), s)
  BY <1>1, BlockAtIsView
<1>6. NoEntries \in Table /\ \A j \in 0 .. NIndirect - 1 : NoEntries[j] = 0
  BY <1>3 DEF Table, NoEntries
<1>7. e \in Table /\ e[i - NDirect] = b
        /\ \A j \in 0 .. NIndirect - 1 : j # i - NDirect => e[j] = 0
  <2> HIDE DEF NoEntries
  <2> QED BY <1>2, <1>3, <1>6 DEF Table
<1>8. View(in, e, i) = b /\ View(in, e, IndSlot) = t
  BY <1>2, <1>3, <1>4, <1>7 DEF View
<1>9. View(was, Entries(cmd.f), i) = 0 /\ View(was, Entries(cmd.f), IndSlot) = 0
  BY <1>2 DEF View
<1>10. ASSUME NEW s \in Slot, s # i, s # IndSlot
       PROVE  View(in, e, s) = View(was, Entries(cmd.f), s)
  <2>1. ~(s < NDirect) => s - NDirect \in 0 .. NIndirect - 1 /\ s - NDirect # i - NDirect
    BY <1>10, SlotIs, BlockMapAssumption DEF LogBlock
  <2> QED BY <1>3, <1>4, <1>7, <1>10, <2>1 DEF View
<1>11. \A s \in Slot : BlockAt(cmd.f, s) # b /\ BlockAt(cmd.f, s) # t
  BY <1>1, ClearIsNotReferenced
<1>12. ASSUME NEW s \in Slot, View(in, e, s) # BlockAt(cmd.f, s)
       PROVE  /\ s \in {cmd.next, IndSlot} /\ BlockAt(cmd.f, s) = 0
              /\ View(in, e, s) \in (marked \cup {b, t}) \ marked
              /\ \A r \in Slot : View(in, e, r) = View(in, e, s) => r = s
  <2>1. s \in {i, IndSlot}
    BY <1>5, <1>10, <1>12
  <2>2. BlockAt(cmd.f, s) = 0
    BY <1>5, <1>9, <2>1
  <2>3. View(in, e, s) = IF s = i THEN b ELSE t
    BY <1>8, <2>1
  <2>4. \A r \in Slot \ {i, IndSlot} : View(in, e, r) # b /\ View(in, e, r) # t
    <3> SUFFICES ASSUME NEW r \in Slot, r # i, r # IndSlot
                 PROVE  View(in, e, r) # b /\ View(in, e, r) # t
      OBVIOUS
    <3>1. View(in, e, r) = BlockAt(cmd.f, r)
      BY <1>5, <1>10
    <3> QED BY <1>11, <3>1
  <2>5. \A r \in Slot : View(in, e, r) = View(in, e, s) => r = s
    BY <1>8, <2>1, <2>3, <2>4
  <2>6. View(in, e, s) \in (marked \cup {b, t}) \ marked
    BY <2>3
  <2>7. s \in {cmd.next, IndSlot}
    BY <2>1
  <2> QED BY <2>2, <2>5, <2>6, <2>7
<1>13. TakesAs(in, e, marked \cup {b, t})
  BY <1>1, <1>2, <1>4, <1>8, <1>12, SlotIs DEF TakesAs
<1> QED BY <1>4, <1>7, <1>8, <1>13

\* An indirect block without entries.
LEMMA TakesIndirectOnly ==
  ASSUME Types, RefsMarked, cmd # Idle, inode[cmd.f].ind = 0,
         NEW t \in Block \ marked,
         NEW in, in = [inode[cmd.f] EXCEPT !.ind = t]
  PROVE  /\ in.ind = t /\ TakesAs(in, NoEntries, marked \cup {t})
         /\ \A i \in LogBlock : View(in, NoEntries, i) = BlockAt(cmd.f, i)
<1> DEFINE was == inode[cmd.f]
<1>1. cmd.f \in File /\ was \in Dinode /\ marked \subseteq Block
  BY DEF Types, TypeOK, IsCommand
<1>2. t \in BlockPtr /\ t # 0
  BY BlockMapAssumption DEF Block, BlockPtr
<1>3. in \in Dinode /\ in.size = was.size /\ in.ind = t /\ in.direct = was.direct
  BY <1>1, <1>2 DEF Dinode
<1>4. \A s \in Slot : BlockAt(cmd.f, s) = View(was, Entries(cmd.f), s)
  BY <1>1, BlockAtIsView
<1>5. View(in, NoEntries, IndSlot) = t /\ View(was, Entries(cmd.f), IndSlot) = 0
  BY <1>3 DEF View
<1>6. ASSUME NEW s \in Slot, s # IndSlot
      PROVE  View(in, NoEntries, s) = View(was, Entries(cmd.f), s)
  <2>1. ~(s < NDirect) => s - NDirect \in 0 .. NIndirect - 1
    BY <1>6, SlotIs, BlockMapAssumption
  <2>2. ~(s < NDirect) => NoEntries[s - NDirect] = 0
    BY <2>1 DEF NoEntries
  <2> QED BY <1>2, <1>3, <1>6, <2>2 DEF View
<1>7. \A s \in Slot : BlockAt(cmd.f, s) # t
  BY <1>1, ClearIsNotReferenced
<1>8. ASSUME NEW s \in Slot, View(in, NoEntries, s) # BlockAt(cmd.f, s)
      PROVE  /\ s \in {cmd.next, IndSlot} /\ BlockAt(cmd.f, s) = 0
             /\ View(in, NoEntries, s) \in (marked \cup {t}) \ marked
             /\ \A r \in Slot : View(in, NoEntries, r) = View(in, NoEntries, s) => r = s
  BY <1>4, <1>5, <1>6, <1>7, <1>8
<1>9. TakesAs(in, NoEntries, marked \cup {t})
  BY <1>1, <1>3, <1>5, <1>8, SlotIs DEF TakesAs
<1> QED BY <1>3, <1>4, <1>6, <1>9, SlotIs

-----------------------------------------------------------------------------
(***************************************************************************)
(* What holds after any step of a write.                                   *)
(***************************************************************************)

\* File g, the one the command works on, has dinode out, which differs from in
\* in its size only, with entries e in its indirect block.
Stores(g, in, e, m, out) ==
  /\ g = cmd.f /\ TakesAs(in, e, m)
  /\ out \in Dinode /\ out.ind = in.ind /\ out.direct = in.direct
  /\ marked' = m
  /\ inode' = [inode EXCEPT ![g] = out]
  /\ Entries(g)' = e
  /\ \A f \in File \ {g} : inode[f].ind # 0 => Entries(f)' = Entries(f)
  /\ \A b \in Block \ m : table'[b] = NoEntries
  /\ UNCHANGED <<live, aborted>>

\* What it takes is block cmd.next or the indirect block, and nothing is lost.
Adds(g) ==
  /\ Takes(g) /\ live' = live /\ \A f \in File \ {g} : inode'[f] = inode[f]
  /\ \A s \in Slot : BlockAt(g, s)' # BlockAt(g, s) => s \in {cmd.next, IndSlot}
  /\ \A b \in marked' \ marked : \E s \in Slot : BlockAt(g, s)' = b

LEMMA StoresTakes ==
  ASSUME Types, NEW g \in File, NEW in, NEW e, NEW m, NEW out, Stores(g, in, e, m, out)
  PROVE  /\ Takes(g) /\ Adds(g)
         /\ \A s \in Slot : BlockAt(g, s)' = View(in, e, s)
<1>1. inode'[g] = out /\ \A f \in File \ {g} : inode'[f] = inode[f]
  BY DEF Stores, Types, TypeOK
<1>2. ASSUME NEW f \in File, NEW s \in Slot
      PROVE  BlockAt(f, s)' = View(inode'[f], Entries(f)', s)
  BY DEF BlockAt, View, Entry, Entries, IndDirty
<1>3. ASSUME NEW s \in Slot  PROVE BlockAt(g, s)' = View(in, e, s)
  BY <1>1, <1>2 DEF View, Stores
<1>4. ASSUME NEW f \in File \ {g}, NEW s \in Slot  PROVE BlockAt(f, s)' = BlockAt(f, s)
  <2>1. inode[f].ind # 0 => Entries(f)' = Entries(f)
    BY DEF Stores
  <2> QED BY <1>1, <1>2, <2>1, BlockAtIsView DEF View
<1>5. Takes(g)
  BY <1>3, <1>4 DEF Takes, Stores, TakesAs
<1>6. Adds(g)
  BY <1>1, <1>3, <1>5 DEF Adds, Stores, TakesAs
<1> QED BY <1>3, <1>5, <1>6

LEMMA TakesKeepsMapped ==
  ASSUME NEW g \in File, Takes(g), NEW f \in File, NEW s \in Slot, BlockAt(f, s) # 0
  PROVE  BlockAt(f, s)' # 0
BY BlockMapAssumption DEF Takes, Block

LEMMA StoresSafe ==
  ASSUME Types, Volume, NEW g \in live, NEW in, NEW e, NEW m, NEW out,
         Stores(g, in, e, m, out),
         \A i \in Nat : i * BlockSize < out.size =>
           i * BlockSize < in.size \/ (i \in LogBlock /\ View(in, e, i) # 0)
  PROVE  Volume'
<1>1. g \in File /\ inode \in [File -> Dinode] /\ marked \subseteq Block /\ live \subseteq File
  BY DEF Types, TypeOK
<1>2. Takes(g) /\ \A s \in Slot : BlockAt(g, s)' = View(in, e, s)
  BY <1>1, StoresTakes
<1>3. NoSharedBlock' /\ RefsMarked'
  BY <1>1, <1>2, TakesSafe DEF Volume
<1>4. inode'[g] = out /\ \A f \in File \ {g} : inode'[f] = inode[f]
  BY <1>1 DEF Stores
<1>5. Cleared'
  BY <1>4 DEF Cleared, Stores, Volume
<1>6. ASSUME NEW f \in live, NEW i \in Nat, i * BlockSize < inode'[f].size
      PROVE  i \in LogBlock /\ BlockAt(f, i)' # 0
  <2>1. CASE i * BlockSize < inode[f].size
    <3>1. i \in LogBlock /\ BlockAt(f, i) # 0
      BY <2>1 DEF Volume, NothingMissing, Whole
    <3> QED BY <1>1, <1>2, <3>1, TakesKeepsMapped, SlotIs
  <2>2. CASE ~(i * BlockSize < inode[f].size)
    <3>1. f = g /\ i * BlockSize < out.size
      BY <1>1, <1>4, <1>6, <2>2
    <3>2. i \in LogBlock /\ View(in, e, i) # 0
      BY <2>2, <3>1 DEF Stores, TakesAs
    <3> QED BY <1>2, <3>1, <3>2, SlotIs
  <2> QED BY <2>1, <2>2
<1>7. NothingMissing'
  BY <1>6 DEF NothingMissing, Whole, Stores
<1>8. MappingAssertsHold'
  BY DEF Volume, MappingAssertsHold, Stores
<1> QED BY <1>3, <1>5, <1>7, <1>8 DEF Volume

\* A step that changes no reference.
LEMMA StaySafe ==
  ASSUME Types, Volume, UNCHANGED <<inode, aborted>>,
         live \subseteq live', live' \subseteq File,
         marked \subseteq marked', \A b \in Block \ marked' : table'[b] = NoEntries,
         \A f \in File : \A s \in Slot : BlockAt(f, s)' = BlockAt(f, s)
  PROVE  Volume'
<1>1. NoSharedBlock'
  BY DEF NoSharedBlock, Volume
<1>2. \A f \in File : \A s \in Slot : BlockAt(f, s) # 0 => BlockAt(f, s) \in marked
  BY RefsAreMarked DEF Volume
<1>3. RefsMarked'
  BY <1>2 DEF RefsMarked, Refs
<1>4. Cleared'
  BY DEF Cleared, Volume
<1>5. ASSUME NEW f \in live', NEW i \in Nat, i * BlockSize < inode[f].size
      PROVE  i \in LogBlock /\ BlockAt(f, i)' # 0
  <2>0. f \in live
    <3> SUFFICES ASSUME f \notin live PROVE FALSE
      OBVIOUS
    <3>1. inode[f].size = 0
      BY DEF Cleared, Volume, EmptyDinode
    <3> QED BY <1>5, <3>1, Times
  <2>1. i \in LogBlock /\ BlockAt(f, i) # 0
    BY <1>5, <2>0 DEF Volume, NothingMissing, Whole
  <2> QED BY <2>1, SlotIs DEF Types, TypeOK
<1>6. NothingMissing'
  BY <1>5 DEF NothingMissing, Whole
<1> QED BY <1>1, <1>3, <1>4, <1>6 DEF Volume, MappingAssertsHold

-----------------------------------------------------------------------------
(***************************************************************************)
(* The fields of the command.                                              *)
(***************************************************************************)
SameCall(c) ==
  /\ IsCommand(c) /\ c.op = cmd.op /\ c.f = cmd.f
  /\ c.total = cmd.total /\ c.was = cmd.was /\ c.clean = cmd.clean

LEMMA CommandFields ==
  ASSUME NEW op, NEW f \in File, NEW pc \in {"alternate", "classic", "truncate", "sync"},
         NEW start \in Nat, NEW size \in Nat, NEW total \in Nat, NEW to \in Nat,
         NEW ret, NEW tailRead
  PROVE  LET c == Command(op, f, pc, start, size, total, to, ret, tailRead)
         IN  /\ IsCommand(c) /\ c # Idle
             /\ c.op = op /\ c.f = f /\ c.pc = pc /\ c.start = start /\ c.size = size
             /\ c.next * BlockSize <= start /\ c.total = total /\ c.to = to
             /\ start = 0 => c.next = 0
<1> DEFINE k == start \div BlockSize
<1>1. k \in Nat /\ k * BlockSize <= start
  BY BlockMapAssumption, Z3
<1>2. start = 0 => k = 0
  <2> SUFFICES ASSUME start = 0, k >= 1 PROVE FALSE
    BY <1>1
  <2> HIDE DEF k
  <2>1. 1 * BlockSize <= k * BlockSize
    BY <1>1, TimesMonotone
  <2> QED BY <1>1, <2>1, BlockMapAssumption
<1>3. Command(op, f, pc, start, size, total, to, ret, tailRead).next = k
  BY DEF Command
<1> HIDE DEF k
<1> DEFINE c == Command(op, f, pc, start, size, total, to, ret, tailRead)
<1>4. /\ c.op = op /\ c.f = f /\ c.pc = pc /\ c.start = start /\ c.size = size
      /\ c.total = total /\ c.to = to /\ c # Idle
  BY DEF Command, Idle
<1>5. IsCommand(c)
  BY <1>1, <1>3, <1>4 DEF Command, IsCommand
<1> HIDE DEF c
<1> QED BY <1>1, <1>2, <1>3, <1>4, <1>5 DEF c

LEMMA CommandSnapshot ==
  ASSUME NEW op, NEW f, NEW pc, NEW start, NEW size, NEW total, NEW to, NEW ret, NEW tailRead
  PROVE  LET c == Command(op, f, pc, start, size, total, to, ret, tailRead)
         IN  /\ c.ret = ret /\ c.clean = Clean
             /\ op = "owrite" => c.was = Snapshot(f)
BY DEF Command

LEMMA NextBlockFields ==
  ASSUME IsCommand(cmd)
  PROVE  /\ SameCall(NextBlock) /\ NextBlock.pc = cmd.pc /\ NextBlock.ret = cmd.ret
         /\ NextBlock.start = cmd.start /\ NextBlock.size = cmd.size
         /\ NextBlock.next = cmd.next + 1
BY DEF IsCommand, NextBlock, SameCall

LEMMA ThenTruncateFields ==
  ASSUME IsCommand(cmd), NEW to \in Nat, NEW why
  PROVE  /\ SameCall(ThenTruncate(to))
         /\ ThenTruncate(to).pc = "truncate" /\ ThenTruncate(to).to = to
         /\ ThenTruncate(to).ret = cmd.ret
         /\ SameCall([ThenTruncate(to) EXCEPT !.ret = why])
         /\ [ThenTruncate(to) EXCEPT !.ret = why].pc = "truncate"
         /\ [ThenTruncate(to) EXCEPT !.ret = why].to = to
         /\ [ThenTruncate(to) EXCEPT !.ret = why].ret = why
<1>1. ASSUME NEW no, NEW c, c = [cmd EXCEPT !.pc = "truncate", !.to = to, !.tailRead = no]
      PROVE  SameCall(c) /\ c.pc = "truncate" /\ c.to = to /\ c.ret = cmd.ret
  BY <1>1 DEF IsCommand, SameCall
<1>2. /\ SameCall(ThenTruncate(to)) /\ ThenTruncate(to).pc = "truncate"
      /\ ThenTruncate(to).to = to /\ ThenTruncate(to).ret = cmd.ret
  BY <1>1 DEF ThenTruncate
<1>3. ASSUME NEW c, SameCall(c)
      PROVE  LET d == [c EXCEPT !.ret = why]
             IN  SameCall(d) /\ d.pc = c.pc /\ d.to = c.to /\ d.ret = why
  BY <1>3 DEF IsCommand, SameCall
<1> QED BY <1>2, <1>3

LEMMA PcFields ==
  ASSUME IsCommand(cmd), NEW pc \in {"sync", "remove"}, NEW why
  PROVE  /\ SameCall([cmd EXCEPT !.pc = pc]) /\ [cmd EXCEPT !.pc = pc].pc = pc
         /\ [cmd EXCEPT !.pc = pc].ret = cmd.ret
         /\ SameCall([cmd EXCEPT !.pc = pc, !.ret = why])
         /\ [cmd EXCEPT !.pc = pc, !.ret = why].pc = pc
         /\ [cmd EXCEPT !.pc = pc, !.ret = why].ret = why
<1>1. /\ SameCall([cmd EXCEPT !.pc = pc]) /\ [cmd EXCEPT !.pc = pc].pc = pc
      /\ [cmd EXCEPT !.pc = pc].ret = cmd.ret
  BY DEF IsCommand, SameCall
<1>2. ASSUME NEW c, c = [cmd EXCEPT !.pc = pc, !.ret = why]
      PROVE  SameCall(c) /\ c.pc = pc /\ c.ret = why
  BY <1>2 DEF IsCommand, SameCall
<1> QED BY <1>1, <1>2

LEMMA NotIdle ==
  ASSUME Types, NEW pc \in {"alternate", "classic", "truncate", "remove", "sync"}, At(pc)
  PROVE  cmd # Idle /\ IsCommand(cmd) /\ cmd.pc = pc /\ cmd.f \in File
BY DEF Types, At, Idle, IsCommand

-----------------------------------------------------------------------------
(***************************************************************************)
(* The actions.                                                            *)
(***************************************************************************)
LEMMA AbortKeeps ==
  ASSUME IInv, NEW a, Abort(a),
         a \in {"inode.c:210", "inode.c:323", "inode.c:394", "csum.c:58", "csum.c:83",
                "csum.c:97", "super.c:253"}
  PROVE  IInv' /\ Moved
<1>1. UNCHANGED <<marked, live, inode, table, flags, cache, cmd>>
  BY DEF Abort
<1>2. Types'
  BY <1>1 DEF IInv, Types, TypeOK, Abort, IsCommand
<1>3. \A f \in File : \A s \in Slot : BlockAt(f, s)' = BlockAt(f, s)
  BY <1>1 DEF BlockAt, Entry
<1>4. NoSharedBlock' /\ RefsMarked'
  BY <1>1 DEF NoSharedBlock, RefsMarked, Refs, BlockAt, Entry, IInv, Volume
<1>5. Cleared' /\ NothingMissing'
  BY <1>1 DEF Cleared, NothingMissing, Whole, BlockAt, Entry, IInv, Volume
<1>6. Cached' /\ Loops'
  BY <1>1 DEF Cached, Loops, CacheIsNewer, CacheIsTable, IndDirty, MappedBefore, BlockAt, Entry, IInv
<1>7. MappingAssertsHold'
  BY DEF MappingAssertsHold, Abort
<1>8. Moved
  BY <1>1, <1>3 DEF Moved
<1> QED BY <1>2, <1>4, <1>5, <1>6, <1>7, <1>8 DEF IInv, Volume

\* A command starts: the indirect block is loaded at most, and none is dirty.
LEMMA CommandStarts ==
  ASSUME IInv, cmd = Idle, UNCHANGED <<marked, inode, table, aborted>>,
         live \subseteq live', live' \subseteq File,
         flags' \subseteq {"INDIRECT_LOADED"}, cache' \in Table,
         IsCommand(cmd')
  PROVE  /\ Types' /\ Volume' /\ Moved
         /\ \A f \in File : \A s \in Slot : BlockAt(f, s)' = BlockAt(f, s)
<1>1. flags = {}
  BY DEF IInv, Cached
<1>2. "INDIRECT_DIRTY" \notin flags /\ "INDIRECT_DIRTY" \notin flags'
  BY <1>1
<1>3. \A f \in File : \A s \in Slot : BlockAt(f, s)' = BlockAt(f, s)
  BY <1>2 DEF BlockAt, Entry
<1>4. Types'
  BY DEF IInv, Types, TypeOK, IsCommand, AllFlags
<1>5. Volume'
  BY <1>3, StaySafe DEF IInv, Cleared, Volume
<1>6. Moved
  BY <1>3 DEF Moved
<1> QED BY <1>3, <1>4, <1>5, <1>6

LEMMA CreateKeeps ==
  ASSUME IInv, NEW f \in File, Create(f)
  PROVE  IInv' /\ Moved
<1>1. cmd = Idle /\ live' = live \cup {f}
        /\ UNCHANGED <<marked, inode, table, flags, cache, cmd, aborted>>
  BY DEF Create
<1>2. Types'
  BY <1>1 DEF IInv, Types, TypeOK, IsCommand
<1>3. \A h \in File : \A s \in Slot : BlockAt(h, s)' = BlockAt(h, s)
  BY <1>1 DEF BlockAt, Entry
<1>4. Volume'
  BY <1>1, <1>2, <1>3, StaySafe DEF IInv, Cleared, Volume, Types, TypeOK
<1>5. Cached' /\ Loops'
  BY <1>1 DEF IInv, Cached, Loops, IndDirty
<1> QED BY <1>1, <1>2, <1>3, <1>4, <1>5 DEF IInv, Moved

LEMMA CmdOwriteKeeps ==
  ASSUME IInv, NEW f \in File, NEW off \in Sizes \cup {0}, NEW n \in Sizes \ {0},
         CmdOwrite(f, off, n)
  PROVE  IInv' /\ Moved
<1>1. CASE off > inode[f].size
  BY <1>1, AbortKeeps DEF CmdOwrite
<1>2. CASE ~(off > inode[f].size)
  <2>1. /\ cmd = Idle /\ f \in live
        /\ cmd' = Command("owrite", f, "classic", off, n, 0, 0, "ok", FALSE)
        /\ UNCHANGED <<marked, live, inode, table, flags, cache, aborted>>
    BY <1>2 DEF CmdOwrite, Ready
  <2>2. off \in Nat /\ n \in Nat /\ inode[f].size \in Nat /\ off <= inode[f].size
    BY <1>2, BlockMapAssumption DEF IInv, Types, TypeOK, Dinode
  <2>3. /\ IsCommand(cmd') /\ cmd' # Idle /\ cmd'.op = "owrite" /\ cmd'.f = f
        /\ cmd'.pc = "classic" /\ cmd'.start = off /\ cmd'.next * BlockSize <= off
    <3>1. PICK no : cmd' = Command("owrite", f, "classic", off, n, 0, 0, "ok", no)
      BY <2>1, Zenon
    <3>2. off \in Nat /\ n \in Nat /\ 0 \in Nat /\ "classic" \in {"alternate", "classic", "truncate", "sync"}
      BY <2>2
    <3> QED BY ONLY <3>1, <3>2, f \in File, CommandFields
  <2>4. flags = {} /\ flags' = {}
    BY <2>1 DEF IInv, Cached
  <2>5. /\ Types' /\ Volume' /\ Moved
        /\ \A h \in File : \A s \in Slot : BlockAt(h, s)' = BlockAt(h, s)
    BY <2>1, <2>3, <2>4, CommandStarts DEF IInv, Types, TypeOK
  <2>6. Cached'
    BY <2>3, <2>4 DEF Cached, IndDirty
  <2>7. MappedBefore(cmd.next)'
    <3> DEFINE k == cmd'.next
    <3>1. k \in Nat /\ k * BlockSize <= off
      BY <2>3 DEF IsCommand
    <3> HIDE DEF k
    <3>2. ASSUME NEW i \in 0 .. k - 1  PROVE i \in LogBlock /\ BlockAt(f, i) # 0
      <4>1. (i + 1) * BlockSize <= k * BlockSize
        BY <3>1, TimesMonotone
      <4>2. i * BlockSize < inode[f].size
        BY <2>2, <3>1, <4>1, Times, BlockMapAssumption
      <4> QED BY <2>1, <4>2 DEF IInv, Volume, NothingMissing, Whole
    <3>3. k <= NDirect + NIndirect
      <4>1. k # 0 => k - 1 \in LogBlock
        BY <3>1, <3>2
      <4> QED BY <3>1, <4>1, BlockMapAssumption DEF LogBlock
    <3>4. \A i \in 0 .. k - 1 : BlockAt(f, i)' # 0
      BY <2>5, <3>2, SlotIs
    <3> QED BY <2>3, <3>3, <3>4 DEF MappedBefore, k
  <2>8. Loops'
    BY <2>1, <2>2, <2>3, <2>7 DEF Loops
  <2> QED BY <2>5, <2>6, <2>8 DEF IInv
<1> QED BY <1>1, <1>2

LEMMA ImportChunkType ==
  ASSUME NEW n \in Nat, NEW start \in Nat, start <= n
  PROVE  ImportChunk(start, n) \in Nat /\ start + ImportChunk(start, n) <= n
BY MinOfTwo, BlockMapAssumption DEF ImportChunk

LEMMA CmdImportKeeps ==
  ASSUME IInv, NEW f \in File, NEW n \in Sizes \cup {0}, CmdImport(f, n)
  PROVE  IInv' /\ Moved
<1>1. /\ cmd = Idle /\ live' = live \cup {f}
      /\ cmd' = Command("import", f, "classic", 0, ImportChunk(0, n), n, 0, "ok", FALSE)
      /\ UNCHANGED <<marked, inode, table, flags, cache, aborted>>
  BY DEF CmdImport, Ready
<1>2. n \in Nat /\ ImportChunk(0, n) \in Nat /\ 0 + ImportChunk(0, n) <= n
  BY ImportChunkType, BlockMapAssumption
<1>3. /\ IsCommand(cmd') /\ cmd' # Idle /\ cmd'.op = "import" /\ cmd'.f = f
      /\ cmd'.pc = "classic" /\ cmd'.start = 0 /\ cmd'.next = 0
      /\ cmd'.size = ImportChunk(0, n) /\ cmd'.total = n
  <2>1. PICK no : cmd' = Command("import", f, "classic", 0, ImportChunk(0, n), n, 0, "ok", no)
    BY <1>1, Zenon
  <2> QED BY <1>2, <2>1, CommandFields
<1>4. flags = {} /\ flags' = {}
  BY <1>1 DEF IInv, Cached
<1>5. live \subseteq live' /\ live' \subseteq File /\ inode \in [File -> Dinode] /\ cache \in Table
  BY <1>1 DEF IInv, Types, TypeOK
<1>6. Types' /\ Volume' /\ Moved
  BY <1>1, <1>3, <1>4, <1>5, CommandStarts
<1>7. Cached'
  BY <1>3, <1>4 DEF Cached, IndDirty
<1>8. MappedBefore(cmd.next)'
  BY <1>3, BlockMapAssumption DEF MappedBefore
<1>9. inode'[f].size >= 0
  BY <1>1, <1>5 DEF Dinode
<1>10. Loops'
  BY <1>1, <1>2, <1>3, <1>8, <1>9 DEF Loops
<1> QED BY <1>6, <1>7, <1>10 DEF IInv

LEMMA CmdRmKeeps ==
  ASSUME IInv, NEW f \in File, CmdRm(f)
  PROVE  IInv' /\ Moved
<1>1. /\ cmd = Idle /\ f \in live
      /\ cmd' = Command("rm", f, "truncate", 0, 0, 0, 0, "ok", FALSE)
      /\ UNCHANGED <<marked, live, inode, table, flags, cache, aborted>>
  BY DEF CmdRm, Ready
<1>2. /\ IsCommand(cmd') /\ cmd' # Idle /\ cmd'.op = "rm" /\ cmd'.f = f /\ cmd'.pc = "truncate"
  <2>1. PICK no : cmd' = Command("rm", f, "truncate", 0, 0, 0, 0, "ok", no)
    BY <1>1, Zenon
  <2> QED BY <2>1, CommandFields
<1>3. flags = {} /\ flags' = {}
  BY <1>1 DEF IInv, Cached
<1>4. Types' /\ Volume' /\ Moved
  BY <1>1, <1>2, <1>3, CommandStarts DEF IInv, Types, TypeOK
<1>5. Cached'
  BY <1>2, <1>3 DEF Cached, IndDirty
<1>6. Loops'
  BY <1>1, <1>2 DEF Loops
<1> QED BY <1>4, <1>5, <1>6 DEF IInv

\* Between commands the device has the entries of every indirect block.
LEMMA OnDiskIsBlockAt ==
  ASSUME "INDIRECT_DIRTY" \notin flags, NEW f \in File, NEW i \in LogBlock
  PROVE  PhyOnDisk(f, i) = BlockAt(f, i)
BY SlotIs DEF PhyOnDisk, BlockAt, Entry

LEMMA StutterKeeps ==
  ASSUME IInv, UNCHANGED vars
  PROVE  IInv' /\ Moved
<1>1. UNCHANGED <<marked, live, inode, table, flags, cache, cmd, aborted>>
  BY DEF vars
<1>2. Types'
  BY <1>1 DEF IInv, Types, TypeOK, IsCommand
<1>3. Volume'
  BY <1>1 DEF IInv, Volume, NoSharedBlock, RefsMarked, Refs, Cleared, NothingMissing, Whole,
              MappingAssertsHold, BlockAt, Entry
<1>4. Cached' /\ Loops'
  BY <1>1 DEF Cached, Loops, CacheIsNewer, CacheIsTable, IndDirty, MappedBefore, BlockAt, Entry, IInv
<1>5. Moved
  BY <1>1 DEF Moved, BlockAt, Entry
<1> QED BY <1>2, <1>3, <1>4, <1>5 DEF IInv

LEMMA CmdCatKeeps ==
  ASSUME IInv, NEW f \in File, CmdCat(f)
  PROVE  IInv' /\ Moved
<1>1. cmd = Idle /\ f \in live /\ flags = {} /\ inode[f].size \in Nat
  BY DEF CmdCat, Ready, IInv, Cached, Types, TypeOK, Dinode
<1>2. ASSUME NEW i \in 0 .. BlocksOf(inode[f].size) - 1  PROVE PhyOnDisk(f, i) > 0
  <2>1. i \in Nat /\ i * BlockSize < inode[f].size
    BY <1>1, BlocksOfCounts
  <2>2. i \in LogBlock /\ BlockAt(f, i) # 0
    BY <1>1, <2>1 DEF IInv, Volume, NothingMissing, Whole
  <2>3. PhyOnDisk(f, i) = BlockAt(f, i)
    BY <1>1, <2>2, OnDiskIsBlockAt
  <2>4. BlockAt(f, i) \in BlockPtr
    BY <2>2, SlotIs, BlockAtType DEF IInv
  <2> QED BY <2>2, <2>3, <2>4, BlockMapAssumption DEF BlockPtr
<1> QED BY <1>2, StutterKeeps DEF CmdCat

LEMMA CmdCheckfsKeeps ==
  ASSUME IInv, CmdCheckfs
  PROVE  IInv' /\ Moved
<1>1. CheckFailures \subseteq {"csum.c:83", "super.c:253"}
  BY DEF CheckFailures
<1> QED BY <1>1, AbortKeeps, StutterKeeps DEF CmdCheckfs

LEMMA CmdWriteKeeps ==
  ASSUME IInv, NEW f \in File, NEW n \in Sizes \ {0}, CmdWrite(f, n)
  PROVE  IInv' /\ Moved
<1> DEFINE last == BlocksOf(n) - 1
<1>1. /\ cmd = Idle /\ f \in live /\ UNCHANGED <<marked, live, inode, table, aborted>>
  BY DEF CmdWrite, Ready
<1>2. flags = {} /\ inode[f] \in Dinode /\ cache \in Table /\ table \in [Block -> Table]
        /\ live \subseteq File
  BY <1>1 DEF IInv, Cached, Types, TypeOK
<1>3. n \in Nat /\ n > 0 /\ last \in Nat /\ n <= (last + 1) * BlockSize
  <2>1. n \in Nat /\ n > 0
    BY BlockMapAssumption
  <2>2. BlocksOf(n) \in Nat /\ n <= BlocksOf(n) * BlockSize
    BY <2>1, BlocksOfCounts
  <2>3. 0 < BlocksOf(n)
    BY <2>1, BlocksOfCounts, BlockMapAssumption
  <2> QED BY <2>1, <2>2, <2>3
<1> HIDE DEF last
<1>4. CASE TooBig(last)
  <2>1. PICK no : cmd' = Command("write", f, "sync", 0, n, 0, 0, "EFBIG", no)
    <3>1. cmd' = Command("write", f, "sync", 0, n, 0, 0, "EFBIG", FALSE)
      BY <1>4 DEF CmdWrite, last
    <3> QED BY <3>1, Zenon
  <2>2. /\ IsCommand(cmd') /\ cmd' # Idle /\ cmd'.f = f /\ cmd'.pc = "sync"
    BY <1>3, <2>1, CommandFields
  <2>3. UNCHANGED <<flags, cache>>
    BY <1>4 DEF CmdWrite, last
  <2>4. Types' /\ Volume' /\ Moved
    BY <1>1, <1>2, <2>2, <2>3, CommandStarts
  <2>5. Cached' /\ Loops'
    BY <1>1, <1>2, <2>2, <2>3 DEF Cached, IndDirty, Loops
  <2> QED BY <2>4, <2>5 DEF IInv
<1>5. CASE ~TooBig(last)
  <2>1. PICK tail : cmd' = Command("write", f, "alternate", 0, n, 0, 0, "ok", tail)
    <3>1. cmd' = Command("write", f, "alternate", 0, n, 0, 0, "ok",
                         n % BlockSize # 0 /\ LogToPhy(f, last) > 0)
      BY <1>5 DEF CmdWrite, last
    <3> QED BY <3>1, Zenon
  <2>2. /\ IsCommand(cmd') /\ cmd' # Idle /\ cmd'.f = f /\ cmd'.pc = "alternate"
        /\ cmd'.op = "write" /\ cmd'.start = 0 /\ cmd'.size = n /\ cmd'.next = 0
    <3>1. n \in Nat
      BY <1>3
    <3>2. IsCommand(cmd') /\ cmd' # Idle /\ cmd'.f = f /\ cmd'.pc = "alternate" /\ cmd'.op = "write"
      BY <2>1, <3>1, CommandFields
    <3>3. cmd'.start = 0 /\ cmd'.size = n
      BY <2>1, <3>1, CommandFields
    <3>4. cmd'.next = 0
      BY <2>1, <3>1, CommandFields
    <3> QED BY <3>2, <3>3, <3>4
  <2>3. \/ flags' = flags /\ cache' = cache
        \/ flags' = FlagsAfter(f, last) /\ cache' = CacheAfter(f, last)
    BY <1>5 DEF CmdWrite, last
  <2>4. \/ flags' = {} /\ cache' = cache
        \/ /\ flags' = {"INDIRECT_LOADED"} /\ cache' = table[inode[f].ind]
           /\ inode[f].ind # 0
    BY <1>2, <2>3 DEF FlagsAfter, CacheAfter, LoadsIndirect, Loaded
  <2>5. inode[f].ind # 0 => table[inode[f].ind] \in Table
    BY <1>2, BlockMapAssumption DEF Dinode, BlockPtr, Block
  <2>6. flags' \subseteq {"INDIRECT_LOADED"} /\ cache' \in Table
    BY <1>2, <2>4, <2>5
  <2>7. Types' /\ Volume' /\ Moved
    BY <1>1, <1>2, <2>2, <2>6, CommandStarts
  <2>8. Cached'
    BY <1>1, <2>2, <2>4, <2>6 DEF Cached, IndDirty, CacheIsTable
  <2>9. n <= (NDirect + NIndirect) * BlockSize
    <3>1. last + 1 <= NDirect + NIndirect
      BY <1>3, <1>5, BlockMapAssumption DEF TooBig
    <3>2. (last + 1) * BlockSize <= (NDirect + NIndirect) * BlockSize
      BY <1>3, <3>1, TimesMonotone, BlockMapAssumption
    <3> QED BY <1>3, <3>2, Times, BlockMapAssumption
  <2>10. cmd'.next * BlockSize < cmd'.size
    BY <1>3, <2>2, BlockMapAssumption
  <2>11. MappedBefore(cmd.next)'
    BY <2>2, BlockMapAssumption DEF MappedBefore
  <2>12. Loops'
    BY <1>1, <2>2, <2>9, <2>10, <2>11 DEF Loops
  <2> QED BY <2>7, <2>8, <2>12 DEF IInv
<1> QED BY <1>4, <1>5

-----------------------------------------------------------------------------
(***************************************************************************)
(* Iterations of the write loops.                                          *)
(***************************************************************************)

\* Block cmd.next is mapped now, and what is before it was.
LEMMA BlockDone ==
  ASSUME Types, Volume, cmd # Idle, MappedBefore(cmd.next), cmd.next \in LogBlock,
         NEW g \in live, NEW in, NEW e, NEW m, NEW out,
         Stores(g, in, e, m, out), View(in, e, cmd.next) # 0,
         out.size <= in.size \/ out.size <= (cmd.next + 1) * BlockSize
  PROVE  /\ Volume' /\ Moved /\ Adds(g)
         /\ \A i \in 0 .. cmd.next : BlockAt(g, i)' # 0
<1>1. ASSUME NEW i \in 0 .. cmd.next  PROVE i \in LogBlock /\ i \in Slot /\ View(in, e, i) # 0
  <2>1. i \in LogBlock /\ i \in Slot
    BY SlotIs, BlockMapAssumption DEF LogBlock
  <2>2. CASE i = cmd.next
    BY <2>1, <2>2
  <2>3. CASE i # cmd.next
    <3>1. BlockAt(g, i) # 0
      BY <2>3, BlockMapAssumption DEF MappedBefore, LogBlock, Stores
    <3> QED BY <2>1, <3>1 DEF TakesAs, Stores
  <2> QED BY <2>2, <2>3
<1>2. ASSUME NEW i \in Nat, i * BlockSize < out.size, ~(i * BlockSize < in.size)
      PROVE  i \in LogBlock /\ View(in, e, i) # 0
  <2>1. in.size \in Nat /\ out.size \in Nat /\ cmd.next \in Nat
    BY BlockMapAssumption DEF Stores, TakesAs, Dinode, LogBlock
  <2>2. out.size <= (cmd.next + 1) * BlockSize
    BY <1>2, <2>1, Times
  <2>3. i < cmd.next + 1
    BY <1>2, <2>1, <2>2, Below
  <2> QED BY <1>1, <2>1, <2>3
<1>3. g \in File
  BY DEF Types, TypeOK
<1>4. Volume'
  BY <1>2, StoresSafe
<1>5. Takes(g) /\ Adds(g) /\ \A s \in Slot : BlockAt(g, s)' = View(in, e, s)
  BY <1>3, StoresTakes
<1> QED BY <1>1, <1>3, <1>4, <1>5 DEF Moved

\* The command and the size of file g after the iteration: the loop goes on,
\* or the call has written its last block, and the command truncates, or goes
\* on with the next chunk of an import.
Continues(g) ==
  /\ ~LastIteration /\ inode'[g].size = inode[g].size
  /\ cmd'.pc = cmd.pc /\ cmd'.next = cmd.next + 1
  /\ cmd'.start = cmd.start /\ cmd'.size = cmd.size

Completes(g) ==
  /\ LastIteration
  /\ inode'[g].size = IF inode[g].size >= cmd.start + cmd.size THEN inode[g].size
                      ELSE cmd.start + cmd.size
  /\ \/ cmd'.pc = "truncate"
     \/ /\ cmd.op = "import" /\ cmd.size = BlockSize
        /\ cmd'.pc = "classic" /\ cmd'.next = cmd.next + 1
        /\ cmd'.start = cmd.start + BlockSize
        /\ cmd'.size = ImportChunk(cmd.start + BlockSize, cmd.total)

Iterates ==
  \E g \in live :
    /\ g = cmd.f /\ Adds(g) /\ SameCall(cmd') /\ cmd'.ret = cmd.ret
    /\ Continues(g) \/ Completes(g)

\* An iteration that finds no block, or is beyond the last logical block.
GivesUp ==
  \E g \in live :
    /\ g = cmd.f /\ Adds(g) /\ SameCall(cmd') /\ cmd'.ret # "ok"
    /\ \A i \in LogBlock : BlockAt(g, i)' = BlockAt(g, i)
    /\ cmd'.pc = "truncate" /\ cmd'.to = inode[g].size
    /\ inode'[g].size = IF inode[g].size >= cmd.next * BlockSize THEN inode[g].size
                        ELSE cmd.next * BlockSize

Aborts == \E a : Abort(a)

LEMMA GrownIs ==
  ASSUME NEW in \in Dinode, IsCommand(cmd)
  PROVE  /\ Grown(in) \in Dinode /\ Grown(in).ind = in.ind /\ Grown(in).direct = in.direct
         /\ Grown(in).size = IF in.size >= cmd.start + cmd.size THEN in.size
                             ELSE cmd.start + cmd.size
<1>1. in.size \in Nat /\ cmd.start + cmd.size \in Nat
  BY DEF Dinode, IsCommand
<1> DEFINE n == IF in.size >= cmd.start + cmd.size THEN in.size ELSE cmd.start + cmd.size
<1>2. Grown(in) = [in EXCEPT !.size = n]
  BY <1>1, MaxOfTwo DEF Grown
<1>3. n \in Nat
  BY <1>1
<1> HIDE DEF n
<1>4. /\ [in EXCEPT !.size = n] \in Dinode /\ [in EXCEPT !.size = n].ind = in.ind
      /\ [in EXCEPT !.size = n].direct = in.direct /\ [in EXCEPT !.size = n].size = n
  BY <1>3 DEF Dinode
<1> QED BY <1>2, <1>4 DEF n

\* The cached indirect block c and the flags fl that an iteration of the
\* alternate write leaves, for dinode in.
CacheLeft(in, c, fl) ==
  /\ c \in Table /\ fl \subseteq AllFlags
  /\ "INDIRECT_DIRTY" \in fl =>
       /\ "INDIRECT_LOADED" \in fl /\ in.ind # 0
       /\ \A j \in 0 .. NIndirect - 1 : table[in.ind][j] \in {0, c[j]}
       /\ in.size <= cmd.next * BlockSize
  /\ "INDIRECT_DIRTY" \notin fl /\ "INDIRECT_LOADED" \in fl => in.ind # 0 /\ c = table[in.ind]

EntriesLeft(in, c, fl) == IF "INDIRECT_DIRTY" \in fl THEN c ELSE table[in.ind]

LEMMA AltWrittenKeeps ==
  ASSUME IInv, At("alternate"), NEW in, NEW m, NEW c, NEW fl, NEW b,
         AltWritten(in, m, c, fl, b),
         TakesAs(in, EntriesLeft(in, c, fl), m), CacheLeft(in, c, fl),
         View(in, EntriesLeft(in, c, fl), cmd.next) # 0
  PROVE  IInv' /\ Moved /\ (Iterates \/ Aborts)
<1>1. PICK g \in live : g = cmd.f
  BY NotIdle DEF IInv, Loops
<1>2. /\ cmd # Idle /\ IsCommand(cmd) /\ cmd.pc = "alternate" /\ g \in File
      /\ cmd.op = "write" /\ cmd.start = 0 /\ cmd.next * BlockSize < cmd.size
      /\ cmd.size <= (NDirect + NIndirect) * BlockSize /\ MappedBefore(cmd.next)
  BY <1>1, NotIdle DEF IInv, Loops
<1>3. cmd.next \in Nat /\ cmd.size \in Nat
  BY <1>2 DEF IsCommand
<1>4. cmd.next \in LogBlock
  <2>1. NDirect + NIndirect \in Nat
    BY BlockMapAssumption
  <2>2. cmd.next < NDirect + NIndirect
    BY <1>2, <1>3, <2>1, Below
  <2> QED BY <1>3, <2>2, BlockMapAssumption DEF LogBlock
<1>5. in \in Dinode /\ in.size \in Nat /\ m \subseteq Block /\ in.size = inode[g].size
  BY <1>1 DEF TakesAs, Dinode
<1>6. CASE Abort("csum.c:97")
  BY <1>6, AbortKeeps DEF Aborts
<1>7. ASSUME NEW out, marked' = m, cache' = c, UNCHANGED <<live, table, aborted>>,
             inode' = [inode EXCEPT ![cmd.f] = out], flags' = fl \/ flags' = fl \cup {"DIRTY"},
             SameCall(cmd'), out \in Dinode, out.ind = in.ind, out.direct = in.direct,
             out.size <= in.size \/ out.size <= (cmd.next + 1) * BlockSize
      PROVE  /\ Types' /\ Volume' /\ Moved /\ Adds(g) /\ \A i \in 0 .. cmd.next : BlockAt(g, i)' # 0
             /\ IndDirty' <=> "INDIRECT_DIRTY" \in fl
             /\ "INDIRECT_LOADED" \in flags' <=> "INDIRECT_LOADED" \in fl
             /\ inode'[g] = out /\ cmd'.f = g /\ cmd'.op = "write" /\ cmd' # Idle
             /\ "INDIRECT_DIRTY" \in fl => \A j \in 0 .. NIndirect - 1 : table[in.ind][j] \in {0, c[j]}
  <2>1. inode' = [inode EXCEPT ![g] = out] /\ inode'[g] = out
    BY <1>1, <1>2, <1>7 DEF IInv, Types, TypeOK
  <2>2. cmd'.f = g /\ cmd'.op = "write" /\ IsCommand(cmd') /\ cmd' # Idle
    BY <1>1, <1>2, <1>7 DEF SameCall, IsCommand, Idle
  <2>3. IndDirty' <=> "INDIRECT_DIRTY" \in fl
    BY <1>7 DEF IndDirty
  <2>4. Entries(g)' = EntriesLeft(in, c, fl)
    BY <1>7, <2>1, <2>2, <2>3 DEF Entries, EntriesLeft
  <2>5. \A f \in File \ {g} : Entries(f)' = Entries(f)
    BY <1>1, <1>7, <2>1, <2>2 DEF Entries, IInv, Types, TypeOK
  <2>6. \A x \in Block \ m : table'[x] = NoEntries
    BY <1>7 DEF TakesAs, IInv, Volume, Cleared
  <2>7. Stores(g, in, EntriesLeft(in, c, fl), m, out)
    BY <1>1, <1>7, <2>1, <2>4, <2>5, <2>6 DEF Stores
  <2>8. Volume' /\ Moved /\ Adds(g) /\ \A i \in 0 .. cmd.next : BlockAt(g, i)' # 0
    BY <1>2, <1>4, <1>7, <2>7, BlockDone DEF IInv
  <2>9. Types'
    <3>1. inode' \in [File -> Dinode] /\ marked' \subseteq Block /\ live' \subseteq File
      BY <1>2, <1>5, <1>7, <2>1 DEF IInv, Types, TypeOK
    <3>2. cache' \in Table /\ table' \in [Block -> Table] /\ flags' \subseteq AllFlags
      BY <1>7 DEF IInv, Types, TypeOK, CacheLeft, AllFlags
    <3>3. aborted' = aborted
      BY <1>7
    <3>4. cmd'.pc \in {"idle", "alternate", "classic", "truncate", "remove", "sync"}
      BY <2>2 DEF IsCommand
    <3> QED BY <2>2, <3>1, <3>2, <3>3, <3>4 DEF IInv, Types, TypeOK
  <2> QED BY <1>7, <2>1, <2>2, <2>3, <2>8, <2>9 DEF CacheLeft
<1>8. CASE ~LastIteration /\ b <= NCsums /\ ~Abort("csum.c:97")
  <2>1. /\ marked' = m /\ cache' = c /\ UNCHANGED <<live, table, aborted>>
        /\ inode' = [inode EXCEPT ![cmd.f] = in] /\ flags' = fl /\ cmd' = NextBlock
    BY <1>8 DEF AltWritten
  <2>2. SameCall(cmd') /\ cmd'.pc = "alternate" /\ cmd'.start = 0 /\ cmd'.size = cmd.size
          /\ cmd'.next = cmd.next + 1 /\ cmd'.ret = cmd.ret
    BY <1>2, <2>1, NextBlockFields
  <2>3. /\ Types' /\ Volume' /\ Moved /\ Adds(g) /\ \A i \in 0 .. cmd.next : BlockAt(g, i)' # 0
        /\ IndDirty' <=> "INDIRECT_DIRTY" \in fl
        /\ inode'[g] = in /\ cmd'.f = g /\ cmd'.op = "write" /\ cmd' # Idle
        /\ "INDIRECT_DIRTY" \in fl => \A j \in 0 .. NIndirect - 1 : table[in.ind][j] \in {0, c[j]}
    <3>1. PICK out : out = in
      OBVIOUS
    <3>2. inode' = [inode EXCEPT ![cmd.f] = out] /\ out \in Dinode /\ out.size <= in.size
            /\ out.ind = in.ind /\ out.direct = in.direct
      BY <1>5, <2>1, <3>1
    <3> QED BY <1>7, <2>1, <2>2, <3>1, <3>2
  <2>4. cmd.next * BlockSize <= (cmd.next + 1) * BlockSize /\ cmd.next * BlockSize \in Nat
          /\ (cmd.next + 1) * BlockSize \in Nat
    BY <1>3, Times, BlockMapAssumption
  <2>5. Cached'
    <3>1. IndDirty' => CacheIsNewer'
      BY <1>5, <2>1, <2>2, <2>3, <2>4 DEF CacheIsNewer, CacheLeft
    <3>2. ~IndDirty' /\ "INDIRECT_LOADED" \in flags' => CacheIsTable'
      BY <2>1, <2>3 DEF CacheIsTable, CacheLeft
    <3> QED BY <2>3, <3>1, <3>2 DEF Cached
  <2>6. MappedBefore(cmd.next)'
    <3>1. cmd.next + 1 <= NDirect + NIndirect
      BY <1>4, BlockMapAssumption DEF LogBlock
    <3>2. \A i \in 0 .. cmd'.next - 1 : BlockAt(g, i)' # 0
      BY <1>3, <2>2, <2>3
    <3> QED BY <2>2, <2>3, <3>1, <3>2 DEF MappedBefore
  <2>7. cmd'.next * BlockSize < cmd'.size
    BY <1>2, <1>3, <1>8, <2>2, <2>4 DEF LastIteration
  <2>8. Loops'
    BY <1>1, <1>2, <2>1, <2>2, <2>3, <2>6, <2>7 DEF Loops
  <2>9. Iterates
    BY <1>1, <1>2, <1>5, <1>8, <2>2, <2>3 DEF Iterates, Continues
  <2> QED BY <2>3, <2>5, <2>8, <2>9 DEF IInv
<1>9. CASE LastIteration /\ b <= NCsums /\ ~Abort("csum.c:97")
  <2> DEFINE out == Grown(in)
  <2>1. /\ marked' = m /\ cache' = c /\ UNCHANGED <<live, table, aborted>>
        /\ inode' = [inode EXCEPT ![cmd.f] = out] /\ flags' = fl \cup {"DIRTY"}
        /\ cmd' = ThenTruncate(cmd.size)
    BY <1>9 DEF AltWritten
  <2>2. SameCall(cmd') /\ cmd'.pc = "truncate" /\ cmd'.to = cmd.size /\ cmd'.ret = cmd.ret
    BY <1>2, <1>3, <2>1, ThenTruncateFields
  <2>3. /\ out \in Dinode /\ out.ind = in.ind /\ out.direct = in.direct
        /\ out.size = IF in.size >= cmd.size THEN in.size ELSE cmd.size
    BY <1>2, <1>3, <1>5, GrownIs
  <2> HIDE DEF out
  <2>4. out.size <= in.size \/ out.size <= (cmd.next + 1) * BlockSize
    BY <1>2, <1>3, <1>5, <1>9, <2>3 DEF LastIteration
  <2>5. /\ Types' /\ Volume' /\ Moved /\ Adds(g)
        /\ IndDirty' <=> "INDIRECT_DIRTY" \in fl
        /\ "INDIRECT_LOADED" \in flags' <=> "INDIRECT_LOADED" \in fl
        /\ inode'[g] = out /\ cmd'.f = g /\ cmd'.op = "write" /\ cmd' # Idle
        /\ "INDIRECT_DIRTY" \in fl => \A j \in 0 .. NIndirect - 1 : table[in.ind][j] \in {0, c[j]}
    BY <1>7, <2>1, <2>2, <2>3, <2>4
  <2>6. "INDIRECT_DIRTY" \in fl => out.size <= cmd.size
    BY <1>2, <1>3, <1>5, <2>3, Times DEF CacheLeft
  <2>7. Cached'
    <3>1. IndDirty' => CacheIsNewer'
      BY <2>1, <2>2, <2>3, <2>5, <2>6 DEF CacheIsNewer, CacheLeft
    <3> QED BY <2>2, <2>5, <3>1 DEF Cached
  <2>8. Loops'
    BY <1>1, <2>1, <2>2, <2>5 DEF Loops
  <2>9. Iterates
    BY <1>1, <1>2, <1>3, <1>5, <1>9, <2>2, <2>3, <2>5 DEF Iterates, Completes
  <2> QED BY <2>5, <2>7, <2>8, <2>9 DEF IInv
<1>10. b <= NCsums \/ Abort("csum.c:97")
  BY DEF AltWritten
<1> QED BY <1>6, <1>8, <1>9, <1>10

\* What an iteration of the alternate write starts from: it looks the block up
\* where its latest entry is.
LEMMA AltStarts ==
  ASSUME IInv, At("alternate"), NEW g \in File, g = cmd.f
  PROVE  /\ cmd # Idle /\ IsCommand(cmd) /\ g \in live
         /\ cmd.next \in LogBlock /\ cmd.next \in Nat
         /\ inode[g] \in Dinode /\ marked \subseteq Block
         /\ LogToPhy(g, cmd.next) = BlockAt(g, cmd.next)
         /\ inode[g].ind # 0 => Loaded(g) = Entries(g) /\ Loaded(g) \in Table
         /\ CacheLeft(inode[g], cache, flags)
         /\ EntriesLeft(inode[g], cache, flags) = Entries(g)
<1>1. /\ cmd # Idle /\ IsCommand(cmd) /\ cmd.pc = "alternate" /\ g \in live
      /\ cmd.next * BlockSize < cmd.size
      /\ cmd.size <= (NDirect + NIndirect) * BlockSize
  BY NotIdle DEF IInv, Loops
<1>2. cmd.next \in Nat /\ cmd.size \in Nat
  BY <1>1 DEF IsCommand
<1>3. cmd.next \in LogBlock
  <2>1. NDirect + NIndirect \in Nat
    BY BlockMapAssumption
  <2>2. cmd.next < NDirect + NIndirect
    BY <1>1, <1>2, <2>1, Below
  <2> QED BY <1>2, <2>2, BlockMapAssumption DEF LogBlock
<1>4. /\ inode[g] \in Dinode /\ marked \subseteq Block /\ cache \in Table
      /\ flags \subseteq AllFlags /\ table \in [Block -> Table]
  BY DEF IInv, Types, TypeOK
<1>5. IndDirty => CacheIsNewer
  BY DEF IInv, Cached
<1>6. ~IndDirty /\ "INDIRECT_LOADED" \in flags => CacheIsTable
  BY <1>1 DEF IInv, Cached
<1>7. inode[g].ind # 0 => inode[g].ind \in Block /\ table[inode[g].ind] \in Table
  BY <1>4, BlockMapAssumption DEF Dinode, BlockPtr, Block
<1>8. inode[g].ind # 0 => Loaded(g) = Entries(g) /\ Loaded(g) \in Table
  BY <1>4, <1>5, <1>6, <1>7 DEF Loaded, Entries, IndDirty, CacheIsNewer, CacheIsTable
<1>9. LogToPhy(g, cmd.next) = BlockAt(g, cmd.next)
  <2>1. cmd.next # IndSlot /\ cmd.next \in Slot
    BY <1>3, SlotIs
  <2>2. BlockAt(g, cmd.next) = View(inode[g], Entries(g), cmd.next)
    BY <2>1, BlockAtIsView
  <2> QED BY <1>8, <2>1, <2>2 DEF LogToPhy, View
<1>10. CacheLeft(inode[g], cache, flags)
  BY <1>1, <1>4, <1>5, <1>6 DEF CacheLeft, IndDirty, CacheIsNewer, CacheIsTable
<1>11. EntriesLeft(inode[g], cache, flags) = Entries(g)
  BY DEF EntriesLeft, Entries, IndDirty
<1> QED BY <1>1, <1>2, <1>3, <1>4, <1>8, <1>9, <1>10, <1>11

\* Looking a block up may load the indirect block.
LEMMA LookupLoads ==
  ASSUME IInv, At("alternate"), NEW g \in File, g = cmd.f
  PROVE  /\ CacheLeft(inode[g], CacheAfter(g, cmd.next), FlagsAfter(g, cmd.next))
         /\ EntriesLeft(inode[g], CacheAfter(g, cmd.next), FlagsAfter(g, cmd.next)) = Entries(g)
<1>1. /\ inode[g].ind # 0 => Loaded(g) = Entries(g) /\ Loaded(g) \in Table
      /\ CacheLeft(inode[g], cache, flags)
      /\ EntriesLeft(inode[g], cache, flags) = Entries(g)
  BY AltStarts
<1>2. CASE LoadsIndirect(g, cmd.next)
  <2>1. /\ CacheAfter(g, cmd.next) = Loaded(g) /\ inode[g].ind # 0
        /\ FlagsAfter(g, cmd.next) = flags \cup {"INDIRECT_LOADED"}
    BY <1>2 DEF CacheAfter, FlagsAfter, LoadsIndirect
  <2>2. CASE IndDirty
    BY <1>1, <2>1, <2>2 DEF CacheLeft, EntriesLeft, IndDirty, Entries, AllFlags
  <2>3. CASE ~IndDirty
    BY <1>1, <2>1, <2>3 DEF CacheLeft, EntriesLeft, IndDirty, Entries, AllFlags
  <2> QED BY <2>2, <2>3
<1>3. CASE ~LoadsIndirect(g, cmd.next)
  BY <1>1, <1>3 DEF CacheAfter, FlagsAfter
<1> QED BY <1>2, <1>3

LEMMA AltReuseKeeps ==
  ASSUME IInv, AltReuse
  PROVE  IInv' /\ Moved /\ (Iterates \/ Aborts)
<1> DEFINE g == cmd.f
<1>1. At("alternate") /\ g \in File
  BY NotIdle DEF AltReuse, IInv
<1>2. LogToPhy(g, cmd.next) = BlockAt(g, cmd.next) /\ cmd # Idle /\ marked \subseteq Block
        /\ cmd.next \in LogBlock
  BY <1>1, AltStarts
<1>3. /\ BlockAt(g, cmd.next) # 0
      /\ AltWritten(inode[g], marked, CacheAfter(g, cmd.next), FlagsAfter(g, cmd.next),
                    BlockAt(g, cmd.next))
  BY <1>2 DEF AltReuse
<1>4. /\ CacheLeft(inode[g], CacheAfter(g, cmd.next), FlagsAfter(g, cmd.next))
      /\ EntriesLeft(inode[g], CacheAfter(g, cmd.next), FlagsAfter(g, cmd.next)) = Entries(g)
  BY <1>1, LookupLoads
<1>5. TakesAs(inode[g], Entries(g), marked)
  BY <1>2, TakesNothing DEF IInv
<1>6. View(inode[g], Entries(g), cmd.next) # 0
  BY <1>1, <1>2, <1>3, SlotIs, BlockAtIsView
<1> QED BY <1>1, <1>3, <1>4, <1>5, <1>6, AltWrittenKeeps

LEMMA AltDirectKeeps ==
  ASSUME IInv, AltDirect
  PROVE  IInv' /\ Moved /\ (Iterates \/ Aborts)
<1> DEFINE g == cmd.f
           b == FirstClear(marked)
           in == Mapped(inode[g], cmd.next, b)
<1>1. At("alternate") /\ g \in File /\ cmd.next < NDirect
  BY NotIdle DEF AltDirect, IInv
<1>2. /\ cmd # Idle /\ marked \subseteq Block /\ cmd.next \in Nat /\ BlockAt(g, cmd.next) = 0
      /\ CacheLeft(inode[g], cache, flags) /\ EntriesLeft(inode[g], cache, flags) = Entries(g)
  BY <1>1, AltStarts DEF AltDirect
<1>3. b # 0 /\ AltWritten(in, marked \cup {b}, cache, flags \cup {"DIRTY"}, b)
  BY DEF AltDirect
<1>4. b \in Block \ marked
  BY <1>2, <1>3, FirstClearIsClear
<1> HIDE DEF b
<1>5. /\ TakesAs(in, Entries(g), marked \cup {b}) /\ View(in, Entries(g), cmd.next) = b
      /\ in.ind = inode[g].ind
  BY <1>1, <1>2, <1>4, TakesDirect DEF IInv, Volume
<1>6. in.size = inode[g].size
  BY <1>5 DEF TakesAs
<1> HIDE DEF in
<1>7. /\ CacheLeft(in, cache, flags \cup {"DIRTY"})
      /\ EntriesLeft(in, cache, flags \cup {"DIRTY"}) = Entries(g)
  BY <1>2, <1>5, <1>6 DEF CacheLeft, EntriesLeft, AllFlags
<1> QED BY <1>1, <1>3, <1>5, <1>7, AltWrittenKeeps

\* A block that is not mapped is not below the size.
LEMMA UnmappedIsBeyond ==
  ASSUME IInv, NEW g \in live, NEW i \in Nat, BlockAt(g, i) = 0
  PROVE  inode[g].size <= i * BlockSize
<1>1. inode[g].size \in Nat
  BY DEF IInv, Types, TypeOK, Dinode
<1>2. ~(i * BlockSize < inode[g].size)
  BY DEF IInv, Volume, NothingMissing, Whole
<1> QED BY <1>1, <1>2, Times

LEMMA AltIndirectKeeps ==
  ASSUME IInv, AltIndirect
  PROVE  IInv' /\ Moved /\ (Iterates \/ Aborts)
<1> DEFINE g == cmd.f
           i == cmd.next
           b == FirstClear(marked)
           e == [Loaded(g) EXCEPT ![i - NDirect] = b]
<1>1. At("alternate") /\ g \in File /\ i >= NDirect /\ inode[g].ind # 0
  BY NotIdle DEF AltIndirect, IInv
<1>2. /\ cmd # Idle /\ marked \subseteq Block /\ i \in Nat /\ i \in LogBlock /\ g \in live
      /\ BlockAt(g, i) = 0 /\ Loaded(g) = Entries(g) /\ Loaded(g) \in Table
      /\ CacheLeft(inode[g], cache, flags)
  BY <1>1, AltStarts DEF AltIndirect
<1>3. b # 0 /\ AltWritten(inode[g], marked \cup {b}, e, AllFlags, b)
  BY DEF AltIndirect
<1>4. b \in Block \ marked
  BY <1>2, <1>3, FirstClearIsClear
<1> HIDE DEF b
<1>5. /\ e \in Table /\ TakesAs(inode[g], e, marked \cup {b})
      /\ View(inode[g], e, i) = b
  BY <1>1, <1>2, <1>4, TakesEntry DEF IInv, Volume
<1>6. EntriesLeft(inode[g], e, AllFlags) = e
  BY DEF EntriesLeft, AllFlags
<1>7. Entries(g)[i - NDirect] = 0
  BY <1>1, <1>2, BlockAtEntry
<1>8. ASSUME NEW j \in 0 .. NIndirect - 1  PROVE table[inode[g].ind][j] \in {0, e[j]}
  <2>1. table[inode[g].ind][j] \in {0, Entries(g)[j]}
    BY <1>2 DEF CacheLeft, Entries, IndDirty
  <2>2. j # i - NDirect => e[j] = Entries(g)[j]
    BY <1>2 DEF Table
  <2> QED BY <1>7, <2>1, <2>2
<1>9. inode[g].size <= i * BlockSize
  BY <1>2, UnmappedIsBeyond
<1>10. CacheLeft(inode[g], e, AllFlags)
  BY <1>1, <1>5, <1>8, <1>9 DEF CacheLeft, AllFlags
<1> HIDE DEF e
<1> QED BY <1>1, <1>3, <1>4, <1>5, <1>6, <1>10, BlockMapAssumption, AltWrittenKeeps DEF Block

LEMMA AltFirstIndirectKeeps ==
  ASSUME IInv, AltFirstIndirect
  PROVE  IInv' /\ Moved /\ (Iterates \/ Aborts)
<1> DEFINE g == cmd.f
           i == cmd.next
           b == FirstClear(marked)
           t == FirstClear(marked \cup {b})
           in == [inode[g] EXCEPT !.ind = t]
           e == [NoEntries EXCEPT ![i - NDirect] = b]
<1>1. At("alternate") /\ g \in File /\ i >= NDirect /\ inode[g].ind = 0
  BY NotIdle DEF AltFirstIndirect, IInv
<1>2. /\ cmd # Idle /\ marked \subseteq Block /\ i \in Nat /\ i \in LogBlock /\ g \in live
      /\ inode[g] \in Dinode
  BY <1>1, AltStarts
<1>3. b # 0 /\ t # 0 /\ AltWritten(in, marked \cup {b, t}, e, AllFlags, b)
  BY DEF AltFirstIndirect
<1>4. b \in Block \ marked
  BY <1>2, <1>3, FirstClearIsClear
<1>5. t \in Block \ marked /\ b # t
  BY <1>2, <1>3, <1>4, FirstClearIsClear
<1> HIDE DEF b, t
<1>6. /\ e \in Table /\ in.ind = t /\ TakesAs(in, e, marked \cup {b, t})
      /\ View(in, e, i) = b
  BY <1>1, <1>2, <1>4, <1>5, TakesFirstEntry DEF IInv, Volume
<1>7. EntriesLeft(in, e, AllFlags) = e
  BY DEF EntriesLeft, AllFlags
<1>8. \A j \in 0 .. NIndirect - 1 : table[t][j] = 0
  BY <1>5 DEF IInv, Volume, Cleared, NoEntries
<1>9. BlockAt(g, i) = 0
  BY <1>1, <1>2, BlockAtEntry
<1>10. in.size <= i * BlockSize
  BY <1>2, <1>6, <1>9, UnmappedIsBeyond DEF TakesAs
<1>11. t # 0 /\ b # 0
  BY <1>3 DEF b, t
<1>12. CacheLeft(in, e, AllFlags)
  BY <1>6, <1>8, <1>10, <1>11 DEF CacheLeft, AllFlags
<1> HIDE DEF e, in
<1> QED BY <1>1, <1>3, <1>6, <1>7, <1>11, <1>12, AltWrittenKeeps

LEMMA AltFailKeeps ==
  ASSUME IInv, At("alternate"), NEW m, NEW fl, marked \subseteq m, m \subseteq Block,
         AltFail(m, fl), NEW g \in File, g = cmd.f,
         CacheLeft(inode[g], CacheAfter(g, cmd.next), fl),
         EntriesLeft(inode[g], CacheAfter(g, cmd.next), fl) = Entries(g)
  PROVE  IInv' /\ Moved
<1> DEFINE c == CacheAfter(g, cmd.next)
<1>1. /\ cmd # Idle /\ IsCommand(cmd) /\ g \in live /\ cmd.op = "write"
      /\ inode \in [File -> Dinode] /\ live \subseteq File
  BY NotIdle DEF IInv, Loops, Types, TypeOK
<1>2. /\ marked' = m /\ flags' = fl /\ cache' = c
      /\ UNCHANGED <<live, inode, table, aborted>>
  BY DEF AltFail
<1> HIDE DEF c
<1>3. SameCall(cmd') /\ cmd'.pc = "sync"
  BY <1>1, PcFields DEF AltFail
<1>4. cmd' # Idle /\ IsCommand(cmd') /\ cmd'.f = g /\ cmd'.op = "write"
  BY <1>1, <1>3 DEF SameCall, IsCommand, Idle
<1>5. Types'
  <2>1. marked' \subseteq Block /\ flags' \subseteq AllFlags /\ cache' \in Table
    BY <1>2 DEF CacheLeft, c
  <2>2. cmd'.pc \in {"idle", "alternate", "classic", "truncate", "remove", "sync"}
    BY <1>3
  <2> QED BY <1>2, <1>4, <2>1, <2>2 DEF IInv, Types, TypeOK
<1>6. Entries(g)' = Entries(g)
  BY <1>2, <1>4 DEF Entries, EntriesLeft, IndDirty, c
<1>7. \A f \in File : Entries(f)' = Entries(f)
  BY <1>2, <1>4, <1>6 DEF Entries
<1>8. \A f \in File : \A s \in Slot : BlockAt(f, s)' = BlockAt(f, s)
  <2>1. \A f \in File : \A s \in Slot : BlockAt(f, s)' = View(inode'[f], Entries(f)', s)
    BY DEF BlockAt, View, Entry, Entries, IndDirty
  <2> QED BY <1>2, <1>7, <2>1, BlockAtIsView DEF View
<1>9. Volume'
  BY <1>1, <1>2, <1>8, StaySafe DEF IInv, Volume, Cleared
<1>10. Cached'
  <2>1. IndDirty' => CacheIsNewer'
    BY <1>2, <1>3, <1>4 DEF IndDirty, CacheIsNewer, CacheLeft, c
  <2> QED BY <1>3, <1>4, <2>1 DEF Cached
<1>11. Loops'
  BY <1>1, <1>2, <1>3, <1>4 DEF Loops
<1>12. Takes(g)
  BY <1>2, <1>8 DEF Takes
<1> QED BY <1>5, <1>9, <1>10, <1>11, <1>12 DEF IInv, Moved

LEMMA AltNoSpaceKeeps ==
  ASSUME IInv, AltNoSpace
  PROVE  IInv' /\ Moved
<1>1. At("alternate") /\ cmd.f \in File /\ marked \subseteq Block
  BY NotIdle DEF AltNoSpace, IInv, Types, TypeOK
<1>2. AltFail(marked, FlagsAfter(cmd.f, cmd.next))
  BY DEF AltNoSpace
<1> QED BY <1>1, <1>2, LookupLoads, AltFailKeeps

LEMMA AltHalfwayKeeps ==
  ASSUME IInv, AltHalfway
  PROVE  IInv' /\ Moved
<1> DEFINE g == cmd.f
           b == FirstClear(marked)
<1>1. At("alternate") /\ g \in File /\ marked \subseteq Block /\ inode[g].ind = 0
  BY NotIdle DEF AltHalfway, IInv, Types, TypeOK
<1>2. b # 0 /\ AltFail(marked \cup {b}, flags \cup {"DIRTY"})
  BY DEF AltHalfway
<1>3. b \in Block
  BY <1>1, <1>2, FirstClearIsClear
<1> HIDE DEF b
<1>4. CacheAfter(g, cmd.next) = cache
  BY <1>1 DEF CacheAfter, LoadsIndirect
<1>5. CacheLeft(inode[g], cache, flags) /\ EntriesLeft(inode[g], cache, flags) = Entries(g)
  BY <1>1, AltStarts
<1>6. /\ CacheLeft(inode[g], cache, flags \cup {"DIRTY"})
      /\ EntriesLeft(inode[g], cache, flags \cup {"DIRTY"}) = Entries(g)
  BY <1>5 DEF CacheLeft, EntriesLeft, AllFlags
<1> QED BY <1>1, <1>2, <1>3, <1>4, <1>6, AltFailKeeps

\* The classic write works on the device: there is no dirty copy.
LEMMA ClassicStarts ==
  ASSUME IInv, At("classic")
  PROVE  /\ cmd # Idle /\ IsCommand(cmd) /\ cmd.f \in live /\ cmd.f \in File
         /\ cmd.pc = "classic" /\ cmd.op \in {"owrite", "import"}
         /\ cmd.next \in Nat /\ cmd.start \in Nat /\ cmd.size \in Nat /\ cmd.total \in Nat
         /\ cmd.start <= inode[cmd.f].size /\ MappedBefore(cmd.next)
         /\ cmd.op = "import" => cmd.start + cmd.size <= cmd.total
         /\ inode \in [File -> Dinode] /\ marked \subseteq Block /\ live \subseteq File
         /\ table \in [Block -> Table] /\ flags \subseteq AllFlags /\ cache \in Table
         /\ ~IndDirty
         /\ \A f \in File : Entries(f) = table[inode[f].ind]
<1>1. /\ cmd # Idle /\ IsCommand(cmd) /\ cmd.f \in live /\ cmd.f \in File /\ cmd.pc = "classic"
      /\ cmd.op \in {"owrite", "import"}
      /\ cmd.start <= inode[cmd.f].size /\ MappedBefore(cmd.next)
      /\ cmd.op = "import" => cmd.start + cmd.size <= cmd.total
  BY NotIdle DEF IInv, Loops
<1>2. cmd.next \in Nat /\ cmd.start \in Nat /\ cmd.size \in Nat /\ cmd.total \in Nat
  BY <1>1 DEF IsCommand
<1>3. /\ inode \in [File -> Dinode] /\ marked \subseteq Block /\ live \subseteq File
      /\ table \in [Block -> Table] /\ flags \subseteq AllFlags /\ cache \in Table
  BY DEF IInv, Types, TypeOK
<1>4. ~IndDirty
  BY <1>1 DEF IInv, Cached, CacheIsNewer
<1>5. \A f \in File : Entries(f) = table[inode[f].ind]
  BY <1>4 DEF Entries
<1> QED BY <1>1, <1>2, <1>3, <1>4, <1>5

\* The device with table t has what dinode in of the file refers to, and what
\* the other files do.
OnDevice(in, m, t) ==
  /\ t \in [Block -> Table]
  /\ TakesAs(in, t[in.ind], m)
  /\ \A b \in Block \ m : t[b] = NoEntries
  /\ \A f \in File \ {cmd.f} : inode[f].ind # 0 => t[inode[f].ind] = table[inode[f].ind]

\* What every step of the classic write that stores something does.
StoreStep(out, m, t) ==
  /\ marked' = m /\ table' = t /\ inode' = [inode EXCEPT ![cmd.f] = out]
  /\ flags' \in {flags, flags \cup {"DIRTY"}}
  /\ SameCall(cmd')
  /\ UNCHANGED <<live, cache, aborted>>

LEMMA ClassicStores ==
  ASSUME IInv, At("classic"), NEW in, NEW m, NEW t, OnDevice(in, m, t), NEW g, g = cmd.f,
         NEW out \in Dinode, out.ind = in.ind, out.direct = in.direct,
         StoreStep(out, m, t)
  PROVE  /\ Types' /\ Stores(g, in, t[in.ind], m, out)
         /\ cmd' # Idle /\ IsCommand(cmd') /\ cmd'.f = g /\ cmd'.op = cmd.op
         /\ ~IndDirty' /\ inode'[g] = out
<1>1. /\ g \in File /\ inode \in [File -> Dinode] /\ flags \subseteq AllFlags /\ ~IndDirty
      /\ \A f \in File : Entries(f) = table[inode[f].ind]
  BY ClassicStarts
<1>2. cmd' # Idle /\ IsCommand(cmd') /\ cmd'.f = g /\ cmd'.op = cmd.op
  BY DEF StoreStep, SameCall, IsCommand, Idle
<1>3. ~IndDirty'
  BY <1>1 DEF IndDirty, StoreStep
<1>4. inode' = [inode EXCEPT ![g] = out] /\ inode'[g] = out
        /\ \A f \in File \ {g} : inode'[f] = inode[f]
  BY <1>1 DEF StoreStep
<1>5. \A f \in File : Entries(f)' = table'[inode'[f].ind]
  BY <1>3 DEF Entries
<1>6. Entries(g)' = t[in.ind]
  BY <1>1, <1>4, <1>5 DEF StoreStep
<1>7. \A f \in File \ {g} : inode[f].ind # 0 => Entries(f)' = Entries(f)
  BY <1>1, <1>4, <1>5 DEF OnDevice, StoreStep
<1>8. Stores(g, in, t[in.ind], m, out)
  BY <1>4, <1>6, <1>7 DEF Stores, OnDevice, StoreStep
<1>9. Types'
  <2>1. inode' \in [File -> Dinode] /\ marked' \subseteq Block /\ live' \subseteq File
    BY <1>1, <1>4 DEF IInv, Types, TypeOK, OnDevice, TakesAs, StoreStep
  <2>2. cache' \in Table /\ table' \in [Block -> Table] /\ flags' \subseteq AllFlags
    BY <1>1 DEF IInv, Types, TypeOK, OnDevice, AllFlags, StoreStep
  <2>3. cmd'.pc \in {"idle", "alternate", "classic", "truncate", "remove", "sync"}
    BY <1>2 DEF IsCommand
  <2> QED BY <1>2, <2>1, <2>2, <2>3 DEF IInv, Types, TypeOK, StoreStep
<1> QED BY <1>2, <1>3, <1>4, <1>8, <1>9

LEMMA WrittenKeeps ==
  ASSUME IInv, At("classic"), ~TooBig(cmd.next), NEW in, NEW m, NEW t, NEW b,
         Written(in, m, t, b), OnDevice(in, m, t), View(in, t[in.ind], cmd.next) # 0
  PROVE  IInv' /\ Moved /\ (Iterates \/ Aborts)
<1>1. PICK g \in live : g = cmd.f
  BY ClassicStarts
<1>2. /\ cmd # Idle /\ IsCommand(cmd) /\ g \in File /\ cmd.pc = "classic"
      /\ cmd.op \in {"owrite", "import"} /\ MappedBefore(cmd.next) /\ flags \subseteq AllFlags
      /\ cmd.next \in Nat /\ cmd.start \in Nat /\ cmd.size \in Nat /\ cmd.total \in Nat
      /\ cmd.start <= inode[g].size
      /\ cmd.op = "import" => cmd.start + cmd.size <= cmd.total
  BY <1>1, ClassicStarts
<1>3. cmd.next \in LogBlock /\ cmd.next + 1 <= NDirect + NIndirect
  BY <1>2, BlockMapAssumption DEF TooBig, LogBlock
<1>4. in \in Dinode /\ in.size \in Nat /\ in.size = inode[g].size
  BY <1>1 DEF OnDevice, TakesAs, Dinode
<1>5. CASE Abort("csum.c:58")
  BY <1>5, AbortKeeps DEF Aborts
<1>6. ASSUME NEW out \in Dinode, out.ind = in.ind, out.direct = in.direct,
             out.size <= in.size \/ out.size <= (cmd.next + 1) * BlockSize,
             StoreStep(out, m, t)
      PROVE  /\ Types' /\ Volume' /\ Moved /\ Adds(g) /\ \A i \in 0 .. cmd.next : BlockAt(g, i)' # 0
             /\ cmd' # Idle /\ IsCommand(cmd') /\ cmd'.f = g /\ cmd'.op = cmd.op
             /\ ~IndDirty' /\ inode'[g] = out
  <2>1. /\ Types' /\ Stores(g, in, t[in.ind], m, out)
        /\ cmd' # Idle /\ IsCommand(cmd') /\ cmd'.f = g /\ cmd'.op = cmd.op
        /\ ~IndDirty' /\ inode'[g] = out
    BY <1>1, <1>6, ClassicStores
  <2>2. Volume' /\ Moved /\ Adds(g) /\ \A i \in 0 .. cmd.next : BlockAt(g, i)' # 0
    BY <1>2, <1>3, <1>6, <2>1, BlockDone DEF IInv
  <2> QED BY <2>1, <2>2
<1>7. CASE ~LastIteration /\ b <= NCsums /\ ~Abort("csum.c:58")
  <2>1. /\ marked' = m /\ table' = t /\ UNCHANGED <<live, cache, aborted>>
        /\ inode' = [inode EXCEPT ![cmd.f] = in] /\ flags' \in {flags, flags \cup {"DIRTY"}}
        /\ cmd' = NextBlock
    BY <1>7 DEF Written
  <2>2. SameCall(cmd') /\ cmd'.pc = "classic" /\ cmd'.start = cmd.start /\ cmd'.size = cmd.size
          /\ cmd'.next = cmd.next + 1 /\ cmd'.total = cmd.total /\ cmd'.ret = cmd.ret
    BY <1>2, <2>1, NextBlockFields DEF SameCall
  <2>3. /\ Types' /\ Volume' /\ Moved /\ Adds(g) /\ \A i \in 0 .. cmd.next : BlockAt(g, i)' # 0
        /\ cmd' # Idle /\ cmd'.f = g /\ cmd'.op = cmd.op
        /\ ~IndDirty' /\ inode'[g] = in
    <3>1. StoreStep(in, m, t) /\ in.size <= in.size
      BY <1>4, <2>1, <2>2 DEF StoreStep
    <3> QED BY <1>4, <1>6, <3>1
  <2>4. Cached'
    BY <2>2, <2>3 DEF Cached
  <2>5. MappedBefore(cmd.next)'
    <3>1. \A i \in 0 .. cmd'.next - 1 : BlockAt(g, i)' # 0
      BY <1>2, <2>2, <2>3
    <3> QED BY <1>3, <2>2, <2>3, <3>1 DEF MappedBefore
  <2>6. Loops'
    BY <1>1, <1>2, <1>4, <2>1, <2>2, <2>3, <2>5 DEF Loops
  <2>7. Iterates
    BY <1>1, <1>2, <1>4, <1>7, <2>2, <2>3 DEF Iterates, Continues
  <2> QED BY <2>3, <2>4, <2>6, <2>7 DEF IInv
<1>8. ASSUME LastIteration, marked' = m, table' = t, UNCHANGED <<live, cache, aborted>>,
             inode' = [inode EXCEPT ![cmd.f] = Grown(in)], flags' = flags \cup {"DIRTY"},
             SameCall(cmd')
      PROVE  /\ Types' /\ Volume' /\ Moved /\ Adds(g) /\ \A i \in 0 .. cmd.next : BlockAt(g, i)' # 0
             /\ cmd' # Idle /\ cmd'.f = g /\ cmd'.op = cmd.op
             /\ ~IndDirty' /\ inode'[g].size >= cmd.start + cmd.size
             /\ inode'[g].size = IF inode[g].size >= cmd.start + cmd.size THEN inode[g].size
                                 ELSE cmd.start + cmd.size
  <2> DEFINE out == Grown(in)
  <2>1. /\ out \in Dinode /\ out.ind = in.ind /\ out.direct = in.direct
        /\ out.size = IF in.size >= cmd.start + cmd.size THEN in.size ELSE cmd.start + cmd.size
    BY <1>2, <1>4, GrownIs
  <2> HIDE DEF out
  <2>2. out.size <= in.size \/ out.size <= (cmd.next + 1) * BlockSize
    BY <1>2, <1>4, <1>8, <2>1 DEF LastIteration
  <2>3. out.size >= cmd.start + cmd.size
    BY <1>2, <1>4, <2>1
  <2>4. StoreStep(out, m, t)
    BY <1>8 DEF out, StoreStep
  <2>5. /\ Types' /\ Volume' /\ Moved /\ Adds(g) /\ \A i \in 0 .. cmd.next : BlockAt(g, i)' # 0
        /\ cmd' # Idle /\ IsCommand(cmd') /\ cmd'.f = g /\ cmd'.op = cmd.op
        /\ ~IndDirty' /\ inode'[g] = out
    BY <1>6, <2>1, <2>2, <2>4
  <2> QED BY <1>4, <2>1, <2>3, <2>5
<1>9. CASE /\ LastIteration /\ b <= NCsums /\ ~Abort("csum.c:58")
           /\ ~(cmd.op = "import" /\ cmd.size = BlockSize)
  <2>1. /\ marked' = m /\ table' = t /\ UNCHANGED <<live, cache, aborted>>
        /\ inode' = [inode EXCEPT ![cmd.f] = Grown(in)] /\ flags' = flags \cup {"DIRTY"}
        /\ cmd' = ThenTruncate(cmd.start + cmd.size)
    BY <1>9 DEF Written
  <2>2. SameCall(cmd') /\ cmd'.pc = "truncate" /\ cmd'.ret = cmd.ret
    <3>1. PICK to \in Nat : cmd' = ThenTruncate(to)
      BY <1>2, <2>1
    <3> QED BY <1>2, <3>1, ThenTruncateFields
  <2>3. /\ Types' /\ Volume' /\ Moved /\ Adds(g) /\ cmd' # Idle /\ cmd'.f = g /\ ~IndDirty'
        /\ inode'[g].size = IF inode[g].size >= cmd.start + cmd.size THEN inode[g].size
                            ELSE cmd.start + cmd.size
    BY <1>8, <1>9, <2>1, <2>2
  <2>4. Cached' /\ Loops'
    BY <1>1, <2>1, <2>2, <2>3 DEF Cached, Loops
  <2>5. Iterates
    BY <1>1, <1>9, <2>2, <2>3 DEF Iterates, Completes
  <2> QED BY <2>3, <2>4, <2>5 DEF IInv
<1>10. CASE /\ LastIteration /\ b <= NCsums /\ ~Abort("csum.c:58")
            /\ cmd.op = "import" /\ cmd.size = BlockSize
  <2> DEFINE n == ImportChunk(cmd.start + BlockSize, cmd.total)
             start == cmd.start + BlockSize
  <2>1. /\ marked' = m /\ table' = t /\ UNCHANGED <<live, cache, aborted>>
        /\ inode' = [inode EXCEPT ![cmd.f] = Grown(in)] /\ flags' = flags \cup {"DIRTY"}
        /\ cmd' = [NextBlock EXCEPT !.start = @ + BlockSize, !.size = n]
    BY <1>10 DEF Written
  <2>2. start \in Nat /\ n \in Nat /\ start + n <= cmd.total
    <3>1. start \in Nat /\ start <= cmd.total
      BY <1>2, <1>10, BlockMapAssumption
    <3> QED BY <1>2, <3>1, ImportChunkType
  <2> HIDE DEF n
  <2>3. SameCall(cmd') /\ cmd'.pc = "classic" /\ cmd'.start = start /\ cmd'.size = n
          /\ cmd'.next = cmd.next + 1 /\ cmd'.total = cmd.total /\ cmd'.ret = cmd.ret
    <3>1. /\ SameCall(NextBlock) /\ NextBlock.pc = "classic" /\ NextBlock.start = cmd.start
          /\ NextBlock.next = cmd.next + 1 /\ NextBlock.total = cmd.total
          /\ NextBlock.ret = cmd.ret
      BY <1>2, NextBlockFields DEF SameCall
    <3>2. ASSUME NEW c, SameCall(c), NEW d, d = [c EXCEPT !.start = @ + BlockSize, !.size = n],
                 c.start = cmd.start
          PROVE  /\ SameCall(d) /\ d.pc = c.pc /\ d.start = start /\ d.size = n
                 /\ d.next = c.next /\ d.ret = c.ret
      BY <2>2, <3>2 DEF SameCall, IsCommand
    <3>3. /\ SameCall(cmd') /\ cmd'.pc = NextBlock.pc /\ cmd'.start = start /\ cmd'.size = n
          /\ cmd'.next = NextBlock.next /\ cmd'.ret = NextBlock.ret
      BY <2>1, <3>1, <3>2
    <3> QED BY <3>1, <3>3 DEF SameCall
  <2>4. /\ Types' /\ Volume' /\ Moved /\ Adds(g) /\ \A i \in 0 .. cmd.next : BlockAt(g, i)' # 0
        /\ cmd' # Idle /\ cmd'.f = g /\ cmd'.op = cmd.op
        /\ ~IndDirty' /\ inode'[g].size >= cmd.start + cmd.size
        /\ inode'[g].size = IF inode[g].size >= cmd.start + cmd.size THEN inode[g].size
                            ELSE cmd.start + cmd.size
    BY <1>8, <1>10, <2>1, <2>3
  <2>5. Cached'
    BY <2>3, <2>4 DEF Cached
  <2>6. MappedBefore(cmd.next)'
    <3>1. \A i \in 0 .. cmd'.next - 1 : BlockAt(g, i)' # 0
      BY <1>2, <2>3, <2>4
    <3> QED BY <1>3, <2>3, <2>4, <3>1 DEF MappedBefore
  <2>7. inode'[g].size \in Nat
    BY <1>2, <2>4 DEF Types, TypeOK, Dinode
  <2>8. cmd'.start <= inode'[g].size
    BY <1>2, <1>10, <2>2, <2>3, <2>4, <2>7, BlockMapAssumption
  <2>9. Loops'
    BY <1>1, <1>2, <2>1, <2>2, <2>3, <2>4, <2>6, <2>8 DEF Loops
  <2>10. Iterates
    BY <1>1, <1>10, <2>3, <2>4 DEF Iterates, Completes, n
  <2> QED BY <2>4, <2>5, <2>9, <2>10 DEF IInv
<1>11. b <= NCsums \/ Abort("csum.c:58")
  BY DEF Written
<1> QED BY <1>5, <1>7, <1>9, <1>10, <1>11

\* The tables of a block that is written differ in that block only; no other
\* file has it as its indirect block.
LEMMA OthersOnDevice ==
  ASSUME IInv, At("classic"), NEW x \in Block, x = inode[cmd.f].ind \/ x \notin marked,
         NEW f \in File \ {cmd.f}, inode[f].ind # 0
  PROVE  inode[f].ind # x /\ inode[f].ind \in Block
<1>1. cmd.f \in File /\ inode[f] \in Dinode
  BY ClassicStarts
<1>2. BlockAt(f, IndSlot) = inode[f].ind /\ BlockAt(cmd.f, IndSlot) = inode[cmd.f].ind
        /\ IndSlot \in Slot
  BY SlotIs DEF BlockAt
<1>3. inode[f].ind \in marked
  BY <1>2, RefsAreMarked DEF IInv, Volume
<1>4. inode[f].ind # inode[cmd.f].ind
  BY <1>1, <1>2 DEF IInv, Volume, NoSharedBlock
<1>5. marked \subseteq Block
  BY ClassicStarts
<1> QED BY <1>3, <1>4, <1>5

LEMMA ReuseKeeps ==
  ASSUME IInv, Reuse
  PROVE  IInv' /\ Moved /\ (Iterates \/ Aborts)
<1> DEFINE g == cmd.f
<1>1. At("classic") /\ ~TooBig(cmd.next)
  BY DEF Reuse
<1>2. /\ g \in File /\ cmd # Idle /\ marked \subseteq Block /\ table \in [Block -> Table]
      /\ Entries(g) = table[inode[g].ind] /\ ~IndDirty /\ cmd.next \in Nat
  BY <1>1, ClassicStarts
<1>3. cmd.next \in LogBlock
  BY <1>1, <1>2, BlockMapAssumption DEF TooBig, LogBlock
<1>4. /\ PhyOnDisk(g, cmd.next) # 0
      /\ Written(inode[g], marked, table, PhyOnDisk(g, cmd.next))
  BY DEF Reuse
<1>5. View(inode[g], table[inode[g].ind], cmd.next) # 0
  BY <1>2, <1>3, <1>4, OnDiskIsBlockAt, SlotIs, BlockAtIsView DEF IndDirty
<1>6. OnDevice(inode[g], marked, table)
  BY <1>2, TakesNothing DEF OnDevice, IInv, Volume, Cleared
<1> QED BY <1>1, <1>4, <1>5, <1>6, WrittenKeeps

LEMMA AllocDirectKeeps ==
  ASSUME IInv, AllocDirect
  PROVE  IInv' /\ Moved /\ (Iterates \/ Aborts)
<1> DEFINE g == cmd.f
           b == FirstClear(marked)
           in == Mapped(inode[g], cmd.next, b)
<1>1. At("classic") /\ cmd.next < NDirect /\ PhyOnDisk(g, cmd.next) = 0
  BY DEF AllocDirect
<1>2. /\ g \in File /\ cmd # Idle /\ marked \subseteq Block /\ table \in [Block -> Table]
      /\ Entries(g) = table[inode[g].ind] /\ ~IndDirty /\ cmd.next \in Nat
  BY <1>1, ClassicStarts
<1>3. cmd.next \in LogBlock /\ ~TooBig(cmd.next)
  BY <1>1, <1>2, BlockMapAssumption DEF TooBig, LogBlock
<1>4. b # 0 /\ Written(in, marked \cup {b}, table, b)
  BY DEF AllocDirect
<1>5. b \in Block \ marked
  BY <1>2, <1>4, FirstClearIsClear
<1> HIDE DEF b
<1>6. BlockAt(g, cmd.next) = 0
  BY <1>1, <1>2, <1>3, OnDiskIsBlockAt DEF IndDirty
<1>7. /\ TakesAs(in, Entries(g), marked \cup {b}) /\ View(in, Entries(g), cmd.next) = b
      /\ in.ind = inode[g].ind
  BY <1>1, <1>2, <1>5, <1>6, TakesDirect DEF IInv, Volume
<1> HIDE DEF in
<1>8. OnDevice(in, marked \cup {b}, table)
  BY <1>2, <1>7 DEF OnDevice, IInv, Volume, Cleared
<1>9. View(in, table[in.ind], cmd.next) # 0
  BY <1>2, <1>4, <1>7 DEF b
<1> QED BY <1>1, <1>3, <1>4, <1>8, <1>9, WrittenKeeps

LEMMA AllocIndirectKeeps ==
  ASSUME IInv, AllocIndirect
  PROVE  IInv' /\ Moved /\ (Iterates \/ Aborts)
<1> DEFINE g == cmd.f
           i == cmd.next
           in == inode[g]
           b == FirstClear(marked)
           t == [table EXCEPT ![in.ind][i - NDirect] = b]
           e == [Entries(g) EXCEPT ![i - NDirect] = b]
<1>1. /\ At("classic") /\ i >= NDirect /\ ~TooBig(i) /\ in.ind # 0 /\ PhyOnDisk(g, i) = 0
  BY DEF AllocIndirect
<1>2. /\ g \in File /\ cmd # Idle /\ marked \subseteq Block /\ table \in [Block -> Table]
      /\ Entries(g) = table[in.ind] /\ ~IndDirty /\ i \in Nat /\ in \in Dinode
  BY <1>1, ClassicStarts
<1>3. i \in LogBlock
  BY <1>1, <1>2, BlockMapAssumption DEF TooBig, LogBlock
<1>4. b # 0 /\ Written(in, marked \cup {b}, t, b)
  BY DEF AllocIndirect
<1>5. b \in Block \ marked
  BY <1>2, <1>4, FirstClearIsClear
<1> HIDE DEF b
<1>6. BlockAt(g, i) = 0
  BY <1>1, <1>2, <1>3, OnDiskIsBlockAt DEF IndDirty
<1>7. /\ e \in Table /\ TakesAs(in, e, marked \cup {b}) /\ View(in, e, i) = b
  BY <1>1, <1>2, <1>3, <1>5, <1>6, TakesEntry DEF IInv, Volume
<1>8. in.ind \in Block
  BY <1>1, <1>2, BlockMapAssumption DEF Dinode, BlockPtr, Block
<1>9. t = [table EXCEPT ![in.ind] = e]
  BY <1>2
<1> HIDE DEF e, t
<1>10. t \in [Block -> Table] /\ t[in.ind] = e /\ \A x \in Block \ {in.ind} : t[x] = table[x]
  BY <1>2, <1>7, <1>8, <1>9
<1>11. in.ind \in marked
  <2>1. BlockAt(g, IndSlot) = in.ind /\ IndSlot \in Slot
    BY SlotIs DEF BlockAt
  <2> QED BY <1>1, <1>2, <2>1, RefsAreMarked DEF IInv, Volume
<1>12. \A f \in File \ {cmd.f} : inode[f].ind # 0 => t[inode[f].ind] = table[inode[f].ind]
  BY <1>1, <1>8, <1>10, OthersOnDevice
<1>13. \A x \in Block \ (marked \cup {b}) : t[x] = NoEntries
  BY <1>10, <1>11 DEF IInv, Volume, Cleared
<1>14. OnDevice(in, marked \cup {b}, t)
  BY <1>7, <1>10, <1>12, <1>13 DEF OnDevice
<1>15. View(in, t[in.ind], cmd.next) # 0
  BY <1>4, <1>7, <1>10 DEF b
<1> QED BY <1>1, <1>4, <1>14, <1>15, WrittenKeeps

LEMMA AllocFirstIndirectKeeps ==
  ASSUME IInv, AllocFirstIndirect
  PROVE  IInv' /\ Moved /\ (Iterates \/ Aborts)
<1> DEFINE g == cmd.f
           i == cmd.next
           x == FirstClear(marked)
           b == FirstClear(marked \cup {x})
           in == [inode[g] EXCEPT !.ind = x]
           e == [NoEntries EXCEPT ![i - NDirect] = b]
           t == [table EXCEPT ![x] = e]
<1>1. At("classic") /\ i >= NDirect /\ ~TooBig(i) /\ inode[g].ind = 0
  BY DEF AllocFirstIndirect
<1>2. /\ g \in File /\ cmd # Idle /\ marked \subseteq Block /\ table \in [Block -> Table]
      /\ i \in Nat
  BY <1>1, ClassicStarts
<1>3. i \in LogBlock
  BY <1>1, <1>2, BlockMapAssumption DEF TooBig, LogBlock
<1>4. x # 0 /\ b # 0 /\ Written(in, marked \cup {b, x}, t, b)
  BY DEF AllocFirstIndirect
<1>5. x \in Block \ marked
  BY <1>2, <1>4, FirstClearIsClear
<1>6. b \in Block \ marked /\ b # x
  BY <1>2, <1>4, <1>5, FirstClearIsClear
<1> HIDE DEF b, x
<1>7. /\ e \in Table /\ in.ind = x /\ TakesAs(in, e, marked \cup {b, x}) /\ View(in, e, i) = b
  <2>1. Types /\ RefsMarked
    BY DEF IInv, Volume
  <2>2. /\ cmd # Idle /\ i \in LogBlock /\ i >= NDirect /\ inode[g].ind = 0
        /\ b \in Block \ marked /\ x \in Block \ marked /\ b # x
    BY <1>1, <1>2, <1>3, <1>5, <1>6
  <2> QED BY <2>1, <2>2, TakesFirstEntry
<1> HIDE DEF e, in
<1>8. t \in [Block -> Table] /\ t[in.ind] = e /\ \A y \in Block \ {x} : t[y] = table[y]
  BY <1>2, <1>5, <1>7
<1> HIDE DEF t
<1>9. \A f \in File \ {cmd.f} : inode[f].ind # 0 => t[inode[f].ind] = table[inode[f].ind]
  BY <1>1, <1>5, <1>8, OthersOnDevice
<1>10. \A y \in Block \ (marked \cup {b, x}) : t[y] = NoEntries
  BY <1>8 DEF IInv, Volume, Cleared
<1>11. OnDevice(in, marked \cup {b, x}, t)
  BY <1>7, <1>8, <1>9, <1>10 DEF OnDevice
<1>12. View(in, t[in.ind], cmd.next) # 0
  BY <1>4, <1>7, <1>8 DEF b
<1> QED BY <1>1, <1>4, <1>11, <1>12, WrittenKeeps

-----------------------------------------------------------------------------
(***************************************************************************)
(* The error path of the classic write.                                    *)
(***************************************************************************)
LEMMA RollbackKeeps ==
  ASSUME IInv, At("classic"), NEW in, NEW m, NEW t, NEW why,
         Rollback(in, m, t, why), OnDevice(in, m, t), why # "ok",
         \A i \in LogBlock : View(in, t[in.ind], i) = BlockAt(cmd.f, i)
  PROVE  IInv' /\ Moved /\ GivesUp
<1> DEFINE n == Max({in.size, WrittenTo})
           out == [in EXCEPT !.size = n]
<1>1. PICK g \in live : g = cmd.f
  BY ClassicStarts
<1>2. /\ cmd # Idle /\ IsCommand(cmd) /\ g \in File /\ MappedBefore(cmd.next)
      /\ cmd.next \in Nat /\ cmd.start \in Nat /\ cmd.start <= inode[g].size
  BY <1>1, ClassicStarts
<1>3. in \in Dinode /\ in.size \in Nat /\ in.size = inode[g].size
  BY <1>1 DEF OnDevice, TakesAs, Dinode
<1>4. cmd.next * BlockSize \in Nat
  BY <1>2, Times
<1>5. n \in Nat /\ n = IF in.size >= cmd.next * BlockSize THEN in.size ELSE cmd.next * BlockSize
  <2> DEFINE k == cmd.next * BlockSize
  <2>1. WrittenTo = Max({cmd.start, k})
    BY DEF WrittenTo
  <2> HIDE DEF k
  <2>2. WrittenTo = IF cmd.start >= k THEN cmd.start ELSE k
    BY <1>2, <1>4, <2>1, MaxOfTwo DEF k
  <2>3. WrittenTo \in Nat /\ n = IF in.size >= WrittenTo THEN in.size ELSE WrittenTo
    BY <1>2, <1>3, <1>4, <2>2, MaxOfTwo DEF k
  <2>4. k \in Nat
    BY <1>4 DEF k
  <2> HIDE DEF n
  <2>5. n \in Nat /\ n = IF in.size >= k THEN in.size ELSE k
    BY <1>2, <1>3, <2>2, <2>3, <2>4
  <2> QED BY <2>5 DEF k
<1> HIDE DEF n
<1>6. out \in Dinode /\ out.ind = in.ind /\ out.direct = in.direct /\ out.size = n
  BY <1>3, <1>5 DEF Dinode
<1>7. SameCall(cmd') /\ cmd'.pc = "truncate" /\ cmd'.to = in.size /\ cmd'.ret = why
  BY <1>2, <1>3, ThenTruncateFields DEF Rollback
<1>8. StoreStep(out, m, t)
  BY <1>7 DEF Rollback, StoreStep, n
<1> HIDE DEF out
<1>9. /\ Types' /\ Stores(g, in, t[in.ind], m, out)
      /\ cmd' # Idle /\ cmd'.f = g /\ ~IndDirty' /\ inode'[g] = out
  BY <1>1, <1>6, <1>8, ClassicStores
<1>10. ASSUME NEW i \in Nat, i * BlockSize < out.size, ~(i * BlockSize < in.size)
       PROVE  i \in LogBlock /\ View(in, t[in.ind], i) # 0
  <2>1. i * BlockSize < n /\ n <= cmd.next * BlockSize
    BY <1>3, <1>4, <1>5, <1>6, <1>10, Times
  <2>2. i < cmd.next
    BY <1>2, <1>5, <2>1, Below
  <2>3. i \in LogBlock /\ BlockAt(g, i) # 0
    BY <1>1, <1>2, <2>2, BlockMapAssumption DEF MappedBefore, LogBlock
  <2> QED BY <1>1, <2>3, SlotIs DEF OnDevice, TakesAs
<1>11. Volume' /\ Moved
  BY <1>2, <1>9, <1>10, StoresSafe, StoresTakes DEF IInv, Moved
<1>12. Cached' /\ Loops'
  BY <1>1, <1>7, <1>8, <1>9 DEF Cached, Loops, StoreStep
<1>13. GivesUp
  <2>1. Adds(g) /\ \A s \in Slot : BlockAt(g, s)' = View(in, t[in.ind], s)
    BY <1>2, <1>9, StoresTakes DEF IInv
  <2>2. \A i \in LogBlock : BlockAt(g, i)' = BlockAt(g, i)
    BY <1>1, <2>1, SlotIs
  <2>3. inode'[g].size = IF inode[g].size >= cmd.next * BlockSize THEN inode[g].size
                         ELSE cmd.next * BlockSize
    BY <1>3, <1>5, <1>6, <1>9
  <2>4. cmd'.to = inode[g].size /\ cmd'.ret # "ok"
    BY <1>3, <1>7
  <2> QED BY <1>1, <1>7, <2>1, <2>2, <2>3, <2>4 DEF GivesUp
<1> QED BY <1>9, <1>11, <1>12, <1>13 DEF IInv

LEMMA WriteFailsKeeps ==
  ASSUME IInv, WriteTooBig \/ WriteNoSpace
  PROVE  IInv' /\ Moved /\ GivesUp
<1> DEFINE g == cmd.f
<1>1. At("classic") /\ \E why : why # "ok" /\ Rollback(inode[g], marked, table, why)
  BY DEF WriteTooBig, WriteNoSpace
<1>2. /\ g \in File /\ cmd # Idle /\ marked \subseteq Block /\ table \in [Block -> Table]
      /\ Entries(g) = table[inode[g].ind]
  BY <1>1, ClassicStarts
<1>3. OnDevice(inode[g], marked, table)
  BY <1>2, TakesNothing DEF OnDevice, IInv, Volume, Cleared
<1>4. \A i \in LogBlock : View(inode[g], table[inode[g].ind], i) = BlockAt(g, i)
  BY <1>2, SlotIs, BlockAtIsView
<1> QED BY <1>1, <1>3, <1>4, RollbackKeeps

LEMMA WriteHalfwayKeeps ==
  ASSUME IInv, WriteHalfway
  PROVE  IInv' /\ Moved /\ GivesUp
<1> DEFINE g == cmd.f
           x == FirstClear(marked)
           in == [inode[g] EXCEPT !.ind = x]
           t == [table EXCEPT ![x] = NoEntries]
<1>1. At("classic") /\ inode[g].ind = 0
  BY DEF WriteHalfway
<1>2. /\ g \in File /\ cmd # Idle /\ marked \subseteq Block /\ table \in [Block -> Table]
  BY <1>1, ClassicStarts
<1>3. x # 0 /\ Rollback(in, marked \cup {x}, t, "ENOSPC")
  BY DEF WriteHalfway
<1>4. x \in Block \ marked
  BY <1>2, <1>3, FirstClearIsClear
<1> HIDE DEF x
<1>5. /\ in.ind = x /\ TakesAs(in, NoEntries, marked \cup {x})
      /\ \A i \in LogBlock : View(in, NoEntries, i) = BlockAt(g, i)
  BY <1>1, <1>2, <1>4, TakesIndirectOnly DEF IInv, Volume
<1> HIDE DEF in
<1>6. t = table
  BY <1>2, <1>4 DEF IInv, Volume, Cleared
<1>7. OnDevice(in, marked \cup {x}, t)
  BY <1>2, <1>4, <1>5, <1>6 DEF OnDevice, IInv, Volume, Cleared
<1>8. \A i \in LogBlock : View(in, t[in.ind], i) = BlockAt(cmd.f, i)
  BY <1>4, <1>5, <1>6 DEF IInv, Volume, Cleared
<1> HIDE DEF t
<1> QED BY <1>1, <1>3, <1>7, <1>8, RollbackKeeps

-----------------------------------------------------------------------------
(***************************************************************************)
(* Truncation, and the end of a command.                                   *)
(***************************************************************************)
LEMMA TruncateStarts ==
  ASSUME IInv, At("truncate")
  PROVE  /\ cmd # Idle /\ IsCommand(cmd) /\ cmd.f \in live /\ cmd.f \in File
         /\ cmd.pc = "truncate" /\ cmd.to \in Nat
         /\ inode \in [File -> Dinode] /\ inode[cmd.f] \in Dinode
         /\ inode[cmd.f].size \in Nat /\ inode[cmd.f].ind \in BlockPtr
         /\ inode[cmd.f].direct \in [0 .. NDirect - 1 -> BlockPtr]
         /\ table \in [Block -> Table] /\ marked \subseteq Block /\ flags \subseteq AllFlags
         /\ live \subseteq File /\ cache \in Table
<1>1. cmd # Idle /\ IsCommand(cmd) /\ cmd.f \in live /\ cmd.f \in File /\ cmd.pc = "truncate"
  BY NotIdle DEF IInv, Loops
<1>2. cmd.to \in Nat
  BY <1>1 DEF IsCommand
<1>3. /\ inode \in [File -> Dinode] /\ table \in [Block -> Table] /\ marked \subseteq Block
      /\ flags \subseteq AllFlags /\ live \subseteq File /\ cache \in Table
  BY DEF IInv, Types, TypeOK
<1>4. /\ inode[cmd.f] \in Dinode
      /\ inode[cmd.f].size \in Nat /\ inode[cmd.f].ind \in BlockPtr
      /\ inode[cmd.f].direct \in [0 .. NDirect - 1 -> BlockPtr]
  BY <1>1, <1>3 DEF Dinode
<1> QED BY <1>1, <1>2, <1>3, <1>4

LEMMA AfterTruncateFields ==
  ASSUME IInv, At("truncate")
  PROVE  /\ SameCall(AfterTruncate) /\ AfterTruncate.pc \in {"remove", "sync"}
         /\ AfterTruncate.pc = "remove" => cmd.op = "rm"
         /\ AfterTruncate.ret = cmd.ret
<1>1. IsCommand(cmd)
  BY TruncateStarts
<1>2. CASE cmd.op = "rm"
  BY <1>1, <1>2, PcFields DEF AfterTruncate
<1>3. CASE cmd.op # "rm"
  BY <1>1, <1>3, PcFields DEF AfterTruncate
<1> QED BY <1>2, <1>3

LEMMA TruncateNothingKeeps ==
  ASSUME IInv, TruncateNothing
  PROVE  IInv' /\ Moved
<1>1. /\ At("truncate") /\ cmd' = AfterTruncate
      /\ UNCHANGED <<marked, live, inode, table, flags, cache, aborted>>
  BY DEF TruncateNothing
<1>2. cmd # Idle /\ IsCommand(cmd) /\ cmd.f \in live /\ cmd.pc = "truncate" /\ live \subseteq File
  BY <1>1, TruncateStarts
<1>3. SameCall(cmd') /\ cmd'.pc \in {"remove", "sync"} /\ (cmd'.pc = "remove" => cmd.op = "rm")
  BY <1>1, AfterTruncateFields
<1>4. cmd' # Idle /\ IsCommand(cmd') /\ cmd'.f = cmd.f /\ cmd'.op = cmd.op
  BY <1>3 DEF SameCall, IsCommand, Idle
<1>5. Types'
  <2>1. cmd'.pc \in {"idle", "alternate", "classic", "truncate", "remove", "sync"}
    BY <1>3
  <2> QED BY <1>1, <1>4, <2>1 DEF IInv, Types, TypeOK
<1>6. \A f \in File : \A s \in Slot : BlockAt(f, s)' = BlockAt(f, s)
  BY <1>1, <1>4 DEF BlockAt, Entry
<1>7. Volume'
  BY <1>1, <1>2, <1>6, StaySafe DEF IInv, Volume, Cleared
<1>8. Cached'
  <2>1. IndDirty' => CacheIsNewer'
    BY <1>1, <1>2, <1>3, <1>4 DEF IInv, Cached, IndDirty, CacheIsNewer
  <2> QED BY <1>3, <1>4, <2>1 DEF Cached
<1>9. Loops'
  BY <1>1, <1>2, <1>3, <1>4 DEF Loops
<1> QED BY <1>1, <1>5, <1>6, <1>7, <1>8, <1>9 DEF IInv, Moved

\* The places a truncation cuts.
LEMMA CutIs ==
  ASSUME IInv, At("truncate")
  PROVE  /\ FirstCut \in Nat /\ EndCut \in Nat
         /\ \A i \in Int : i \in CutDirect <=> FirstCut <= i /\ i < EndCut /\ i < NDirect
         /\ \A j \in Int : j \in CutIndirect <=>
              /\ FirstCut <= j + NDirect /\ 0 <= j
              /\ j + NDirect < EndCut /\ j < NIndirect
         /\ CutDirect \subseteq Int /\ CutIndirect \subseteq Int
<1>1. FirstCut \in Nat /\ EndCut \in Nat
  BY TruncateStarts, BlocksOfCounts DEF FirstCut, EndCut
<1>2. CutDirect = FirstCut .. (IF EndCut <= NDirect THEN EndCut ELSE NDirect) - 1
  BY <1>1, MinOfTwo, BlockMapAssumption DEF CutDirect
<1>3. Max({FirstCut - NDirect, 0}) = IF FirstCut - NDirect >= 0 THEN FirstCut - NDirect ELSE 0
  BY <1>1, MaxOfTwo, BlockMapAssumption
<1>4. Min({EndCut - NDirect, NIndirect})
        = IF EndCut - NDirect <= NIndirect THEN EndCut - NDirect ELSE NIndirect
  BY <1>1, MinOfTwo, BlockMapAssumption
<1>5. CutIndirect = (IF FirstCut - NDirect >= 0 THEN FirstCut - NDirect ELSE 0)
        .. (IF EndCut - NDirect <= NIndirect THEN EndCut - NDirect ELSE NIndirect) - 1
  BY <1>3, <1>4 DEF CutIndirect
<1> QED BY <1>1, <1>2, <1>5, BlockMapAssumption

\* What is cut is mapped: only the assertion inode.c:394 can fail.
LEMMA CutIsMapped ==
  ASSUME IInv, Truncating, NEW g \in File, g = cmd.f
  PROVE  /\ ~IndDirty
         /\ \A i \in CutDirect : i \in LogBlock /\ i \in 0 .. NDirect - 1
                                /\ inode[g].direct[i] = BlockAt(g, i) /\ BlockAt(g, i) # 0
         /\ CutsIndirect => inode[g].ind # 0
         /\ CutsIndirect => \A j \in CutIndirect :
              /\ j \in 0 .. NIndirect - 1 /\ j + NDirect \in LogBlock
              /\ table[inode[g].ind][j] = BlockAt(g, j + NDirect) /\ BlockAt(g, j + NDirect) # 0
<1>1. /\ At("truncate") /\ cmd.pc = "truncate" /\ g \in live /\ cmd.to \in Nat
      /\ inode[g].size \in Nat /\ inode[g].size > cmd.to
  BY TruncateStarts DEF Truncating
<1>2. ~IndDirty
  BY <1>1 DEF IInv, Cached, CacheIsNewer
<1>3. Entries(g) = table[inode[g].ind]
  BY <1>2 DEF Entries
<1>4. EndCut \in Nat /\ \A i \in Nat : i < EndCut => i \in LogBlock /\ BlockAt(g, i) # 0
  BY <1>1, BlocksOfCounts DEF EndCut, IInv, Volume, NothingMissing, Whole
<1>5. ASSUME NEW i \in CutDirect
      PROVE  i \in LogBlock /\ i \in 0 .. NDirect - 1
               /\ inode[g].direct[i] = BlockAt(g, i) /\ BlockAt(g, i) # 0
  <2>1. i \in Nat /\ i < EndCut /\ i < NDirect
    BY <1>1, CutIs
  <2>2. i \in LogBlock /\ BlockAt(g, i) # 0 /\ i # IndSlot
    BY <1>4, <2>1, SlotIs
  <2> QED BY <2>1, <2>2, BlockMapAssumption DEF BlockAt
<1>6. CutsIndirect => inode[g].ind # 0
  <2> SUFFICES ASSUME CutsIndirect PROVE inode[g].ind # 0
    OBVIOUS
  <2>1. NDirect \in Nat /\ NDirect < EndCut
    BY <1>4, BlockMapAssumption DEF CutsIndirect
  <2>2. NDirect \in LogBlock /\ BlockAt(g, NDirect) # 0
    BY <1>4, <2>1
  <2> QED BY <2>1, <2>2, BlockAtEntry
<1>7. ASSUME CutsIndirect, NEW j \in CutIndirect
      PROVE  /\ j \in 0 .. NIndirect - 1 /\ j + NDirect \in LogBlock
             /\ table[inode[g].ind][j] = BlockAt(g, j + NDirect) /\ BlockAt(g, j + NDirect) # 0
  <2>1. j \in 0 .. NIndirect - 1 /\ j + NDirect \in Nat /\ j + NDirect < EndCut
    BY <1>1, CutIs, BlockMapAssumption
  <2>2. j + NDirect \in LogBlock /\ BlockAt(g, j + NDirect) # 0
    BY <1>4, <2>1
  <2>3. j + NDirect >= NDirect /\ (j + NDirect) - NDirect = j
    BY <2>1, BlockMapAssumption
  <2>4. BlockAt(g, j + NDirect) = Entries(g)[j]
    BY <1>6, <1>7, <2>2, <2>3, BlockAtEntry
  <2> QED BY <1>3, <2>1, <2>2, <2>4
<1> QED BY <1>2, <1>5, <1>6, <1>7

LEMMA TruncateAssertsKeeps ==
  ASSUME IInv, TruncateAsserts
  PROVE  IInv' /\ Moved
<1>1. Truncating /\ At("truncate") /\ cmd.f \in File
  BY TruncateStarts DEF TruncateAsserts, Truncating
<1>2. TruncateFailures \subseteq {"inode.c:394"}
  BY <1>1, CutIsMapped DEF TruncateFailures
<1> QED BY <1>2, AbortKeeps DEF TruncateAsserts

\* What the truncation of g frees, keeps of the indirect block, and leaves.
DropsIndirect == CutsIndirect /\ FirstCut <= NDirect
Freed(g) == CutBlocks \cup (IF DropsIndirect THEN {inode[g].ind} ELSE {})
KeptEntries(g) ==
  [j \in 0 .. NIndirect - 1 |-> IF j \in CutIndirect THEN 0 ELSE table[inode[g].ind][j]]
LeftDinode(g) ==
  [size |-> cmd.to,
   direct |-> [i \in 0 .. NDirect - 1 |-> IF i \in CutDirect THEN 0 ELSE inode[g].direct[i]],
   ind |-> IF DropsIndirect THEN 0 ELSE inode[g].ind]
LeftTable(g) ==
  [b \in Block |-> IF b \in Freed(g) THEN NoEntries
                   ELSE IF CutsIndirect /\ b = inode[g].ind THEN KeptEntries(g) ELSE table[b]]

\* Every freed block is referenced by g from a place that is cut.
LEMMA FreedIsReferenced ==
  ASSUME IInv, Truncating, NEW g \in File, g = cmd.f, NEW b \in Freed(g)
  PROVE  /\ b # 0 /\ b \in marked
         /\ \/ \E i \in CutDirect : b = BlockAt(g, i) /\ i \in LogBlock
            \/ CutsIndirect /\ \E j \in CutIndirect : b = BlockAt(g, j + NDirect)
                                                     /\ j + NDirect \in LogBlock
            \/ DropsIndirect /\ b = BlockAt(g, IndSlot)
<1>1. BlockAt(g, IndSlot) = inode[g].ind /\ IndSlot \in Slot /\ LogBlock \subseteq Slot
  BY SlotIs DEF BlockAt
<1>2. \/ \E i \in CutDirect : b = BlockAt(g, i) /\ i \in LogBlock /\ b # 0
      \/ CutsIndirect /\ \E j \in CutIndirect : b = BlockAt(g, j + NDirect)
                                               /\ j + NDirect \in LogBlock /\ b # 0
      \/ DropsIndirect /\ b = BlockAt(g, IndSlot) /\ b # 0
  <2>1. CASE DropsIndirect /\ b = inode[g].ind
    BY <1>1, <2>1, CutIsMapped DEF DropsIndirect
  <2>2. CASE b \in CutBlocks
    <3>1. CASE \E i \in CutDirect : b = inode[g].direct[i]
      BY <3>1, CutIsMapped
    <3>2. CASE CutsIndirect /\ \E j \in CutIndirect : b = table[inode[g].ind][j]
      BY <3>2, CutIsMapped
    <3> QED BY <2>2, <3>1, <3>2 DEF CutBlocks
  <2> QED BY <2>1, <2>2 DEF Freed
<1>3. b \in marked
  BY <1>1, <1>2, RefsAreMarked DEF IInv, Volume
<1> QED BY <1>2, <1>3

\* What a truncation leaves: the blocks before the cut, and none of the others
\* below the size; what it takes away there is free.
Cuts ==
  \E g \in live :
    /\ g = cmd.f /\ Gives(g) /\ live' = live /\ \A f \in File \ {g} : inode'[f] = inode[f]
    /\ SameCall(cmd') /\ cmd'.ret = cmd.ret /\ cmd'.pc \in {"remove", "sync"}
    /\ inode'[g].size = cmd.to
    /\ \A i \in LogBlock :
         /\ i < FirstCut => BlockAt(g, i)' = BlockAt(g, i)
         /\ FirstCut <= i /\ i < EndCut => BlockAt(g, i)' = 0
    /\ \A s \in Slot :
         BlockAt(g, s)' # BlockAt(g, s) /\ (s = IndSlot \/ s < EndCut)
           => BlockAt(g, s) \notin marked'

LEMMA TruncateBlocksKeeps ==
  ASSUME IInv, TruncateBlocks
  PROVE  IInv' /\ Moved /\ Cuts
<1>1. PICK g \in live : g = cmd.f
  BY TruncateStarts DEF TruncateBlocks, Truncating
<1>2. Truncating /\ At("truncate") /\ g \in File
  BY <1>1, TruncateStarts DEF TruncateBlocks, Truncating
<1>3. /\ inode \in [File -> Dinode] /\ table \in [Block -> Table] /\ marked \subseteq Block
      /\ flags \subseteq AllFlags /\ live \subseteq File /\ cache \in Table /\ cmd.to \in Nat
      /\ inode[g].size \in Nat /\ inode[g].ind \in BlockPtr /\ inode[g].size > cmd.to
      /\ inode[g].direct \in [0 .. NDirect - 1 -> BlockPtr]
  BY <1>1, <1>2, TruncateStarts DEF Truncating
<1>4. ~IndDirty /\ Entries(g) = table[inode[g].ind]
  BY <1>1, <1>2, CutIsMapped DEF Entries
<1>5. Freed(g) \subseteq marked /\ 0 \notin Freed(g)
  BY <1>1, <1>2, FreedIsReferenced
<1>6. /\ marked' = marked \ Freed(g) /\ table' = LeftTable(g)
      /\ inode' = [inode EXCEPT ![g] = LeftDinode(g)]
      /\ flags' = flags \cup {"DIRTY"} /\ cmd' = AfterTruncate
      /\ UNCHANGED <<live, cache, aborted>>
  <2>1. IF ~(Freed(cmd.f) \subseteq marked) THEN Abort("bitmap.c:117")
        ELSE /\ marked' = marked \ Freed(cmd.f)
             /\ table' = LeftTable(cmd.f)
             /\ inode' = [inode EXCEPT ![cmd.f] = LeftDinode(cmd.f)]
             /\ flags' = flags \cup {"DIRTY"}
             /\ cmd' = AfterTruncate
             /\ UNCHANGED <<live, cache, aborted>>
    BY Zenon DEF TruncateBlocks, Freed, DropsIndirect, LeftTable, LeftDinode, KeptEntries,
                 IndirectLeft
  <2> QED BY <1>1, <1>5, <2>1
<1>7. SameCall(cmd') /\ cmd'.pc \in {"remove", "sync"} /\ (cmd'.pc = "remove" => cmd.op = "rm")
  BY <1>2, <1>6, AfterTruncateFields
<1>8. cmd' # Idle /\ IsCommand(cmd') /\ cmd'.f = g /\ cmd'.op = cmd.op
  BY <1>1, <1>7 DEF SameCall, IsCommand, Idle
<1>9. ~IndDirty' /\ \A f \in File : Entries(f)' = table'[inode'[f].ind]
  BY <1>4, <1>6 DEF IndDirty, Entries
<1>10. inode'[g] = LeftDinode(g) /\ \A f \in File \ {g} : inode'[f] = inode[f]
  BY <1>2, <1>3, <1>6
<1>11. \A f \in File : \A s \in Slot : BlockAt(f, s)' = View(inode'[f], Entries(f)', s)
  BY DEF BlockAt, View, Entry, Entries, IndDirty
<1> DEFINE CutSlot == {s \in Slot :
                        \/ s \in LogBlock /\ s < NDirect /\ s \in CutDirect
                        \/ /\ s \in LogBlock /\ s >= NDirect
                           /\ DropsIndirect \/ (CutsIndirect /\ s - NDirect \in CutIndirect)
                        \/ s = IndSlot /\ DropsIndirect}
<1>12. inode[g].ind # 0 => inode[g].ind \in Block /\ table[inode[g].ind] \in Table
  BY <1>3, BlockMapAssumption DEF BlockPtr, Block
<1>13. BlockAt(g, IndSlot) = inode[g].ind /\ IndSlot \in Slot /\ LogBlock \subseteq Slot
         /\ IndSlot \notin LogBlock /\ \A s \in Slot : s # IndSlot => s \in LogBlock
  BY SlotIs DEF BlockAt
<1>14. ~DropsIndirect /\ inode[g].ind # 0 => inode[g].ind \notin Freed(g)
  <2> SUFFICES ASSUME ~DropsIndirect, inode[g].ind # 0, inode[g].ind \in Freed(g)
               PROVE  FALSE
    OBVIOUS
  <2>1. PICK s \in LogBlock : BlockAt(g, s) = inode[g].ind
    BY <1>1, <1>2, FreedIsReferenced
  <2> QED BY <1>2, <1>13, <2>1 DEF IInv, Volume, NoSharedBlock
<1>15. ASSUME NEW s \in Slot
       PROVE  BlockAt(g, s)' = IF s \in CutSlot THEN 0 ELSE BlockAt(g, s)
  <2>1. BlockAt(g, s)' = View(LeftDinode(g), LeftTable(g)[LeftDinode(g).ind], s)
    BY <1>2, <1>6, <1>9, <1>10, <1>11
  <2>2. LeftDinode(g).ind = IF DropsIndirect THEN 0 ELSE inode[g].ind
    BY DEF LeftDinode
  <2>3. CASE s = IndSlot
    BY <1>13, <2>1, <2>2, <2>3 DEF View
  <2>4. CASE s \in LogBlock /\ s < NDirect
    <3>1. s \in 0 .. NDirect - 1 /\ s # IndSlot
      BY <1>13, <2>4, BlockMapAssumption DEF LogBlock
    <3>2. BlockAt(g, s) = inode[g].direct[s]
      BY <2>4, <3>1 DEF BlockAt
    <3>3. BlockAt(g, s)' = LeftDinode(g).direct[s]
      BY <2>1, <2>4, <3>1 DEF View
    <3>4. LeftDinode(g).direct[s] = IF s \in CutDirect THEN 0 ELSE inode[g].direct[s]
      BY <3>1 DEF LeftDinode
    <3>5. ~(s >= NDirect)
      BY <3>1, BlockMapAssumption
    <3> QED BY <2>4, <3>1, <3>2, <3>3, <3>4, <3>5
  <2>5. CASE s \in LogBlock /\ ~(s < NDirect)
    <3>1. s >= NDirect /\ s # IndSlot /\ s - NDirect \in 0 .. NIndirect - 1
      BY <1>13, <2>5, SlotIs, BlockMapAssumption DEF LogBlock
    <3>2. BlockAt(g, s) = IF inode[g].ind = 0 THEN 0 ELSE table[inode[g].ind][s - NDirect]
      BY <1>2, <1>4, <2>5, <3>1, BlockAtEntry
    <3>3. BlockAt(g, s)' = IF LeftDinode(g).ind = 0 THEN 0
                           ELSE LeftTable(g)[LeftDinode(g).ind][s - NDirect]
      BY <2>1, <2>5, <3>1 DEF View
    <3>4. s \in CutSlot <=> DropsIndirect \/ (CutsIndirect /\ s - NDirect \in CutIndirect)
      BY <2>5, <3>1
    <3>5. CASE DropsIndirect
      BY <2>2, <3>3, <3>4, <3>5
    <3>6. CASE ~DropsIndirect /\ inode[g].ind = 0
      BY <2>2, <3>2, <3>3, <3>6
    <3>7. CASE ~DropsIndirect /\ inode[g].ind # 0
      <4>1. LeftTable(g)[inode[g].ind] = IF CutsIndirect THEN KeptEntries(g)
                                         ELSE table[inode[g].ind]
        BY <1>12, <1>14, <3>7 DEF LeftTable
      <4>2. KeptEntries(g)[s - NDirect] = IF s - NDirect \in CutIndirect THEN 0
                                          ELSE table[inode[g].ind][s - NDirect]
        BY <3>1 DEF KeptEntries
      <4>3. BlockAt(g, s)' = LeftTable(g)[inode[g].ind][s - NDirect]
        BY <2>2, <3>3, <3>7
      <4> HIDE DEF CutSlot
      <4> QED BY <3>2, <3>4, <3>7, <4>1, <4>2, <4>3
    <3> QED BY <3>5, <3>6, <3>7
  <2> QED BY <1>13, <2>3, <2>4, <2>5
<1>16. ASSUME NEW b \in Freed(g)  PROVE \E s \in CutSlot : BlockAt(g, s) = b
  <2>1. CASE \E i \in CutDirect : b = BlockAt(g, i) /\ i \in LogBlock
    <3>1. PICK i \in CutDirect : b = BlockAt(g, i) /\ i \in LogBlock
      BY <2>1
    <3>2. i < NDirect
      BY <1>2, CutIs
    <3> QED BY <1>13, <3>1, <3>2
  <2>2. CASE CutsIndirect /\ \E j \in CutIndirect : b = BlockAt(g, j + NDirect)
                                                  /\ j + NDirect \in LogBlock
    <3>1. PICK j \in CutIndirect : b = BlockAt(g, j + NDirect) /\ j + NDirect \in LogBlock
      BY <2>2
    <3>2. j + NDirect >= NDirect /\ (j + NDirect) - NDirect = j
      BY <1>2, CutIs, BlockMapAssumption
    <3> QED BY <1>13, <2>2, <3>1, <3>2
  <2>3. CASE DropsIndirect /\ b = BlockAt(g, IndSlot)
    BY <1>13, <2>3
  <2> QED BY <1>1, <1>2, <2>1, <2>2, <2>3, FreedIsReferenced
<1>17. ASSUME NEW i \in Nat, i * BlockSize < cmd.to
       PROVE  i \in LogBlock /\ BlockAt(g, i) # 0 /\ i \notin CutSlot
  <2>1. i * BlockSize < inode[g].size
    <3>1. i * BlockSize \in Nat /\ cmd.to < inode[g].size
      BY <1>3, Times
    <3> QED BY <1>3, <1>17, <3>1
  <2>2. i \in LogBlock /\ BlockAt(g, i) # 0
    BY <2>1 DEF IInv, Volume, NothingMissing, Whole
  <2>3. FirstCut \in Nat /\ i < FirstCut
    BY <1>3, <1>17, BlocksOfCounts DEF FirstCut
  <2>4. i \notin CutDirect
    BY <1>2, <2>3, CutIs
  <2>5. i - NDirect \notin CutIndirect
    <3>1. (i - NDirect) + NDirect = i /\ i - NDirect \in Int
      BY BlockMapAssumption
    <3> QED BY <1>2, <2>3, <3>1, CutIs
  <2>6. i >= NDirect => ~DropsIndirect
    BY <2>3, BlockMapAssumption DEF DropsIndirect
  <2> QED BY <1>13, <2>2, <2>4, <2>5, <2>6
<1>18. CutSlot \subseteq Slot
  OBVIOUS
<1>27. ASSUME NEW i \in LogBlock
       PROVE  /\ i < FirstCut => i \notin CutSlot
              /\ FirstCut <= i /\ i < EndCut => i \in CutSlot
  <2>1. i \in Nat /\ i # IndSlot /\ i \in Slot /\ i - NDirect \in Int /\ (i - NDirect) + NDirect = i
    BY <1>13, SlotIs, BlockMapAssumption DEF LogBlock
  <2>2. FirstCut \in Nat /\ EndCut \in Nat
    BY <1>2, CutIs
  <2>3. i \in CutDirect <=> FirstCut <= i /\ i < EndCut /\ i < NDirect
    BY <1>2, <2>1, CutIs
  <2>4. i - NDirect \in CutIndirect <=>
          FirstCut <= i /\ 0 <= i - NDirect /\ i < EndCut /\ i - NDirect < NIndirect
    BY <1>2, <2>1, CutIs
  <2>5. i - NDirect < NIndirect
    BY BlockMapAssumption DEF LogBlock
  <2>6. i \in CutSlot <=> \/ i < NDirect /\ i \in CutDirect
                          \/ i >= NDirect /\ (DropsIndirect \/ (CutsIndirect /\ i - NDirect \in CutIndirect))
    BY <2>1
  <2> HIDE DEF CutSlot
  <2>7. ASSUME i < FirstCut  PROVE i \notin CutSlot
    BY <2>1, <2>2, <2>3, <2>4, <2>6, <2>7, BlockMapAssumption DEF DropsIndirect
  <2>8. ASSUME FirstCut <= i, i < EndCut  PROVE i \in CutSlot
    BY <2>1, <2>2, <2>3, <2>4, <2>5, <2>6, <2>8, BlockMapAssumption DEF CutsIndirect
  <2> QED BY <2>7, <2>8
<1>28. ASSUME NEW s \in CutSlot, s = IndSlot \/ s < EndCut
       PROVE  BlockAt(g, s) \in Freed(g)
  <2>1. CASE s = IndSlot
    BY <1>13, <1>28, <2>1 DEF Freed
  <2>2. CASE s \in LogBlock /\ s < NDirect /\ s # IndSlot
    <3>1. s \in CutDirect
      BY <1>28, <2>2, BlockMapAssumption DEF LogBlock
    <3>2. inode[g].direct[s] = BlockAt(g, s)
      BY <1>1, <1>2, <3>1, CutIsMapped
    <3> QED BY <1>1, <3>1, <3>2 DEF Freed, CutBlocks
  <2>3. CASE s \in LogBlock /\ ~(s < NDirect) /\ s # IndSlot
    <3>1. /\ s >= NDirect /\ s \in Nat /\ s - NDirect \in Int /\ (s - NDirect) + NDirect = s
          /\ 0 <= s - NDirect /\ s - NDirect < NIndirect
      BY <2>3, BlockMapAssumption DEF LogBlock
    <3>2. DropsIndirect \/ (CutsIndirect /\ s - NDirect \in CutIndirect)
      BY <1>28, <2>3, <3>1
    <3>3. CutsIndirect /\ s - NDirect \in CutIndirect
      <4>1. DropsIndirect => FirstCut <= s /\ s < EndCut
        BY <1>2, <1>28, <2>3, <3>1, CutIs, BlockMapAssumption DEF DropsIndirect
      <4>2. DropsIndirect => s - NDirect \in CutIndirect
        BY <1>2, <3>1, <4>1, CutIs
      <4> QED BY <3>2, <4>2 DEF DropsIndirect
    <3>4. table[inode[g].ind][s - NDirect] = BlockAt(g, s)
      BY <1>1, <1>2, <3>1, <3>3, CutIsMapped
    <3> QED BY <1>1, <3>3, <3>4 DEF Freed, CutBlocks
  <2> QED BY <1>13, <2>1, <2>2, <2>3
<1> HIDE DEF CutSlot
<1>19. \A f \in File \ {g} : \A s \in Slot : BlockAt(f, s)' = BlockAt(f, s)
  <2> SUFFICES ASSUME NEW f \in File \ {g}, NEW s \in Slot
               PROVE  BlockAt(f, s)' = BlockAt(f, s)
    OBVIOUS
  <2>1. inode[f].ind # 0 => table'[inode[f].ind] = table[inode[f].ind]
    <3> SUFFICES ASSUME inode[f].ind # 0 PROVE table'[inode[f].ind] = table[inode[f].ind]
      OBVIOUS
    <3>1. inode[f] \in Dinode /\ BlockAt(f, IndSlot) = inode[f].ind
      BY <1>3 DEF BlockAt
    <3>2. inode[f].ind \in Block
      BY <3>1, BlockMapAssumption DEF Dinode, BlockPtr, Block
    <3>3. \A r \in Slot : BlockAt(g, r) # inode[f].ind
      BY <1>2, <1>13, <3>1 DEF IInv, Volume, NoSharedBlock
    <3>4. inode[f].ind \notin Freed(g) /\ inode[f].ind # inode[g].ind
      BY <1>13, <1>16, <1>18, <3>3
    <3> QED BY <1>6, <3>2, <3>4 DEF LeftTable
  <2>2. Entries(f) = table[inode[f].ind]
    BY <1>4 DEF Entries
  <2> QED BY <1>9, <1>10, <1>11, <2>1, <2>2, BlockAtIsView DEF View
<1>20. Gives(g)
  <2>1. ASSUME NEW b \in marked \ marked'
        PROVE  b \in Refs(g) /\ \A s \in Slot : BlockAt(g, s)' # b
    <3>1. b \in Freed(g) /\ b # 0
      BY <1>5, <1>6
    <3>2. PICK s \in CutSlot : BlockAt(g, s) = b
      BY <1>16, <3>1
    <3>3. b \in Refs(g)
      BY <1>18, <3>1, <3>2 DEF Refs
    <3>4. ASSUME NEW r \in Slot, BlockAt(g, r)' = b  PROVE FALSE
      <4>1. r \notin CutSlot /\ BlockAt(g, r) = b
        BY <1>15, <3>1, <3>4
      <4>2. r = s
        BY <1>2, <1>18, <3>1, <3>2, <4>1 DEF IInv, Volume, NoSharedBlock
      <4> QED BY <4>1, <4>2
    <3> QED BY <3>3, <3>4
  <2> QED BY <1>6, <1>15, <1>19, <2>1 DEF Gives
<1>21. NoSharedBlock' /\ RefsMarked'
  BY <1>2, <1>20, GivesSafe DEF IInv, Volume
<1>22. Cleared'
  <2>1. \A f \in File \ live' : inode'[f] = EmptyDinode
    BY <1>6, <1>10 DEF IInv, Volume, Cleared
  <2>2. ASSUME NEW b \in Block \ marked'  PROVE table'[b] = NoEntries
    <3>1. CASE b \in Freed(g)
      BY <1>6, <3>1 DEF LeftTable
    <3>2. CASE b \notin Freed(g)
      <4>1. b \notin marked
        BY <1>6, <3>2
      <4>2. CutsIndirect => inode[g].ind \in marked
        BY <1>1, <1>2, <1>13, CutIsMapped, RefsAreMarked DEF IInv, Volume
      <4>3. table[b] = NoEntries
        BY <4>1 DEF IInv, Volume, Cleared
      <4> QED BY <1>6, <3>2, <4>1, <4>2, <4>3 DEF LeftTable
    <3> QED BY <3>1, <3>2
  <2> QED BY <2>1, <2>2 DEF Cleared
<1>23. NothingMissing'
  <2>1. LeftDinode(g).size = cmd.to
    BY DEF LeftDinode
  <2>2. ASSUME NEW f \in live, NEW i \in Nat, i * BlockSize < inode'[f].size
        PROVE  i \in LogBlock /\ BlockAt(f, i)' # 0
    <3>1. CASE f = g
      <4>1. i * BlockSize < cmd.to
        BY <1>10, <2>1, <2>2, <3>1
      <4> QED BY <1>13, <1>15, <1>17, <3>1, <4>1
    <3>2. CASE f # g
      <4>1. f \in File \ {g} /\ inode'[f] = inode[f]
        BY <1>3, <1>10, <3>2
      <4>2. i \in LogBlock /\ BlockAt(f, i) # 0
        BY <2>2, <4>1 DEF IInv, Volume, NothingMissing, Whole
      <4> QED BY <1>13, <1>19, <4>1, <4>2
    <3> QED BY <3>1, <3>2
  <2> QED BY <1>6, <2>2 DEF NothingMissing, Whole
<1>24. Types'
  <2>1. 0 \in BlockPtr /\ NoEntries \in Table
    BY BlockMapAssumption DEF BlockPtr, NoEntries, Table
  <2>2. LeftDinode(g) \in Dinode
    BY <1>3, <2>1 DEF LeftDinode, Dinode
  <2>3. inode' \in [File -> Dinode]
    BY <1>3, <1>6, <2>2
  <2>4. CutsIndirect => KeptEntries(g) \in Table
    BY <1>1, <1>2, <1>12, <2>1, CutIsMapped DEF KeptEntries, Table
  <2>5. table' \in [Block -> Table]
    BY <1>3, <1>6, <2>1, <2>4 DEF LeftTable
  <2>6. flags' \subseteq AllFlags /\ marked' \subseteq Block /\ live' \subseteq File
          /\ cache' \in Table /\ aborted' = aborted
    BY <1>3, <1>6 DEF AllFlags
  <2>7. cmd'.pc \in {"idle", "alternate", "classic", "truncate", "remove", "sync"}
    BY <1>7
  <2> QED BY <1>8, <2>3, <2>5, <2>6, <2>7 DEF IInv, Types, TypeOK
<1>25. MappingAssertsHold'
  BY <1>6 DEF IInv, Volume, MappingAssertsHold
<1>26. Cached' /\ Loops'
  BY <1>1, <1>6, <1>7, <1>8, <1>9 DEF Cached, Loops
<1>29. Cuts
  <2>1. inode'[g].size = cmd.to
    BY <1>10 DEF LeftDinode
  <2>2. ASSUME NEW i \in LogBlock
        PROVE  /\ i < FirstCut => BlockAt(g, i)' = BlockAt(g, i)
               /\ FirstCut <= i /\ i < EndCut => BlockAt(g, i)' = 0
    BY <1>13, <1>15, <1>27
  <2>3. ASSUME NEW s \in Slot, BlockAt(g, s)' # BlockAt(g, s), s = IndSlot \/ s < EndCut
        PROVE  BlockAt(g, s) \notin marked'
    BY <1>6, <1>15, <1>28, <2>3
  <2>4. cmd'.ret = cmd.ret
    BY <1>2, <1>6, AfterTruncateFields
  <2> QED BY <1>1, <1>6, <1>7, <1>10, <1>20, <2>1, <2>2, <2>3, <2>4 DEF Cuts
<1> QED BY <1>2, <1>20, <1>21, <1>22, <1>23, <1>24, <1>25, <1>26, <1>29
       DEF IInv, Volume, Moved

\* testfs_sync_inode brings the device up to date with what the inode refers to.
LEMMA SyncKeeps ==
  ASSUME IInv, Sync
  PROVE  IInv' /\ Moved
<1>1. At("sync")
  BY DEF Sync
<1>2. PICK g \in live : g = cmd.f
  BY <1>1, NotIdle DEF IInv, Loops
<1>3. /\ g \in File /\ inode \in [File -> Dinode] /\ table \in [Block -> Table]
      /\ marked \subseteq Block /\ cache \in Table /\ live \subseteq File
  BY <1>2 DEF IInv, Types, TypeOK
<1>4. CASE Abort("inode.c:210")
  BY <1>4, AbortKeeps
<1>5. CASE ~Abort("inode.c:210")
  <2>1. /\ table' = IF IndDirty /\ inode[g].ind # 0
                    THEN [table EXCEPT ![inode[g].ind] = cache] ELSE table
        /\ flags' = {} /\ cache' = NoEntries /\ cmd' = Idle
        /\ UNCHANGED <<marked, live, inode, aborted>>
    BY <1>2, <1>5 DEF Sync, IndDirty
  <2>2. IndDirty => inode[g].ind # 0
    BY <1>2 DEF IInv, Cached, CacheIsNewer
  <2>3. inode[g].ind # 0 => inode[g].ind \in marked /\ inode[g].ind \in Block
    <3>1. BlockAt(g, IndSlot) = inode[g].ind /\ IndSlot \in Slot
      BY SlotIs DEF BlockAt
    <3> QED BY <1>3, <3>1, RefsAreMarked DEF IInv, Volume
  <2>4. NoEntries \in Table
    BY BlockMapAssumption DEF NoEntries, Table, BlockPtr
  <2>5. table' \in [Block -> Table]
    BY <1>3, <2>1
  <2>6. Types'
    BY <1>3, <2>1, <2>4, <2>5 DEF IInv, Types, TypeOK, Idle
  <2>7. ASSUME NEW f \in File, inode[f].ind # 0
        PROVE  table'[inode[f].ind] = Entries(f)
    <3>1. CASE f = g
      BY <1>2, <1>3, <2>1, <2>2, <2>3, <3>1 DEF Entries
    <3>2. CASE f # g
      <4>1. /\ BlockAt(g, IndSlot) = inode[g].ind /\ BlockAt(f, IndSlot) = inode[f].ind
            /\ IndSlot \in Slot
        BY SlotIs DEF BlockAt
      <4>2. inode[f].ind # inode[g].ind
        BY <1>3, <2>7, <3>2, <4>1 DEF IInv, Volume, NoSharedBlock
      <4>3. Entries(f) = table[inode[f].ind]
        BY <1>2, <3>2 DEF Entries
      <4>4. inode[f].ind \in Block
        BY <1>3, <2>7, BlockMapAssumption DEF Dinode, BlockPtr, Block
      <4> QED BY <1>3, <2>1, <4>2, <4>3, <4>4
    <3> QED BY <3>1, <3>2
  <2>8. ASSUME NEW f \in File, NEW s \in Slot  PROVE BlockAt(f, s)' = BlockAt(f, s)
    <3>1. BlockAt(f, s)' = View(inode[f], table'[inode[f].ind], s)
      BY <2>1 DEF BlockAt, View, Entry
    <3> QED BY <2>7, <3>1, BlockAtIsView DEF View
  <2>9. \A b \in Block \ marked : table'[b] = NoEntries
    BY <1>3, <2>1, <2>3 DEF IInv, Volume, Cleared
  <2>10. Volume'
    BY <1>3, <2>1, <2>8, <2>9, StaySafe DEF IInv
  <2>11. Cached' /\ Loops'
    BY <2>1 DEF Cached, IndDirty, Loops
  <2> QED BY <2>1, <2>6, <2>8, <2>10, <2>11 DEF IInv, Moved
<1> QED BY <1>4, <1>5

LEMMA RemoveGives ==
  ASSUME IInv, Remove, NEW g \in File, g = cmd.f
  PROVE  Gives(g) /\ \A s \in Slot : BlockAt(g, s)' = 0
<1>1. /\ cmd # Idle /\ cmd.pc = "remove" /\ cmd.op = "rm" /\ inode \in [File -> Dinode]
  BY NotIdle DEF Remove, IInv, Loops, Types, TypeOK
<1>2. /\ inode' = [inode EXCEPT ![g] = EmptyDinode] /\ flags' = {}
      /\ UNCHANGED <<marked, table>>
  BY DEF Remove
<1>3. ~IndDirty
  BY <1>1 DEF IInv, Cached, CacheIsNewer
<1>4. \A f \in File : \A s \in Slot :
        /\ BlockAt(f, s)' = View(inode'[f], table[inode'[f].ind], s)
        /\ BlockAt(f, s) = View(inode[f], table[inode[f].ind], s)
  BY <1>2, <1>3 DEF BlockAt, View, Entry, IndDirty
<1>5. inode'[g] = EmptyDinode /\ \A f \in File \ {g} : inode'[f] = inode[f]
  BY <1>1, <1>2
<1>6. \A f \in File \ {g} : \A s \in Slot : BlockAt(f, s)' = BlockAt(f, s)
  BY <1>4, <1>5
<1>7. ASSUME NEW s \in Slot  PROVE BlockAt(g, s)' = 0
  <2>1. EmptyDinode.ind = 0 /\ \A i \in 0 .. NDirect - 1 : EmptyDinode.direct[i] = 0
    BY DEF EmptyDinode
  <2>2. s < NDirect => s \in 0 .. NDirect - 1
    BY SlotIs, BlockMapAssumption
  <2> QED BY <1>4, <1>5, <2>1, <2>2 DEF View
<1> QED BY <1>2, <1>6, <1>7 DEF Gives

LEMMA RemoveKeeps ==
  ASSUME IInv, Remove
  PROVE  IInv' /\ Moved
<1>1. PICK g \in live : g = cmd.f
  BY NotIdle DEF Remove, IInv, Loops
<1>2. /\ g \in File /\ inode \in [File -> Dinode] /\ live \subseteq File
  BY <1>1 DEF IInv, Types, TypeOK
<1>3. /\ inode' = [inode EXCEPT ![g] = EmptyDinode] /\ live' = live \ {g}
      /\ flags' = {} /\ cache' = NoEntries /\ cmd' = Idle
      /\ UNCHANGED <<marked, table, aborted>>
  BY <1>1 DEF Remove
<1>4. Gives(g)
  BY <1>1, <1>2, RemoveGives
<1>5. NoSharedBlock' /\ RefsMarked'
  BY <1>2, <1>4, GivesSafe DEF IInv, Volume
<1>6. inode'[g] = EmptyDinode /\ \A f \in File \ {g} : inode'[f] = inode[f]
  BY <1>2, <1>3
<1>7. Cleared'
  BY <1>2, <1>3, <1>6 DEF IInv, Volume, Cleared
<1>8. ASSUME NEW f \in live', NEW i \in Nat, i * BlockSize < inode'[f].size
      PROVE  i \in LogBlock /\ BlockAt(f, i)' # 0
  <2>1. f \in live /\ f \in File \ {g} /\ inode'[f] = inode[f]
    BY <1>2, <1>3, <1>6
  <2>2. i \in LogBlock /\ BlockAt(f, i) # 0
    BY <1>8, <2>1 DEF IInv, Volume, NothingMissing, Whole
  <2> QED BY <1>4, <2>1, <2>2, SlotIs DEF Gives
<1>9. NothingMissing'
  BY <1>8 DEF NothingMissing, Whole
<1>10. Types'
  <2>1. 0 \in BlockPtr /\ NoEntries \in Table /\ EmptyDinode \in Dinode
    BY BlockMapAssumption DEF NoEntries, Table, BlockPtr, EmptyDinode, Dinode
  <2>2. inode' \in [File -> Dinode] /\ live' \subseteq File
    BY <1>2, <1>3, <2>1
  <2> QED BY <1>3, <2>1, <2>2 DEF IInv, Types, TypeOK, Idle
<1>11. MappingAssertsHold' /\ Cached' /\ Loops'
  BY <1>3 DEF IInv, Volume, MappingAssertsHold, Cached, IndDirty, Loops
<1> QED BY <1>2, <1>4, <1>5, <1>7, <1>9, <1>10, <1>11 DEF IInv, Volume, Moved

-----------------------------------------------------------------------------
(***************************************************************************)
(* The theorems.                                                           *)
(***************************************************************************)
LEMMA InitHolds == Init => IInv
<1> SUFFICES ASSUME Init PROVE IInv
  OBVIOUS
<1>1. /\ marked = {} /\ live = {} /\ inode = [f \in File |-> EmptyDinode]
      /\ table = [b \in Block |-> NoEntries] /\ flags = {} /\ cache = NoEntries
      /\ cmd = Idle /\ aborted = "none"
  BY DEF Init
<1>2. 0 \in BlockPtr /\ NoEntries \in Table /\ EmptyDinode \in Dinode
  BY BlockMapAssumption DEF NoEntries, Table, BlockPtr, EmptyDinode, Dinode
<1>3. Types
  BY <1>1, <1>2 DEF Types, TypeOK, Idle
<1>4. ASSUME NEW f \in File, NEW s \in Slot  PROVE BlockAt(f, s) = 0
  <2>1. EmptyDinode.ind = 0 /\ \A i \in 0 .. NDirect - 1 : EmptyDinode.direct[i] = 0
    BY DEF EmptyDinode
  <2>2. s < NDirect => s \in 0 .. NDirect - 1
    BY SlotIs, BlockMapAssumption
  <2> QED BY <1>1, <2>1, <2>2, BlockAtIsView DEF View
<1>5. NoSharedBlock /\ RefsMarked
  BY <1>4 DEF NoSharedBlock, RefsMarked, Refs
<1>6. Cleared /\ NothingMissing /\ MappingAssertsHold /\ Cached /\ Loops
  BY <1>1 DEF Cleared, NothingMissing, MappingAssertsHold, Cached, IndDirty, Loops
<1> QED BY <1>3, <1>5, <1>6 DEF IInv, Volume

LEMMA NextKeeps == IInv /\ [Next]_vars => IInv' /\ Moved
<1> SUFFICES ASSUME IInv, [Next]_vars PROVE IInv' /\ Moved
  OBVIOUS
<1>1. CASE UNCHANGED vars
  BY <1>1, StutterKeeps
<1>2. CASE Start
  BY <1>2, CreateKeeps, CmdRmKeeps, CmdCatKeeps, CmdWriteKeeps, CmdOwriteKeeps, CmdImportKeeps
     DEF Start
<1>3. CASE CmdCheckfs
  BY <1>3, CmdCheckfsKeeps
<1>4. CASE AltStep
  BY <1>4, AltReuseKeeps, AltDirectKeeps, AltIndirectKeeps, AltFirstIndirectKeeps,
     AltNoSpaceKeeps, AltHalfwayKeeps DEF AltStep
<1>5. CASE WriteStep
  BY <1>5, ReuseKeeps, AllocDirectKeeps, AllocIndirectKeeps, AllocFirstIndirectKeeps,
     WriteFailsKeeps, WriteHalfwayKeeps DEF WriteStep
<1>6. CASE Truncate
  BY <1>6, TruncateNothingKeeps, TruncateAssertsKeeps, TruncateBlocksKeeps DEF Truncate
<1>7. CASE Sync \/ Remove
  BY <1>7, SyncKeeps, RemoveKeeps
<1> QED BY <1>1, <1>2, <1>3, <1>4, <1>5, <1>6, <1>7 DEF Next

LEMMA Invariance == Spec => []IInv
BY InitHolds, NextKeeps, PTL DEF Spec

\* The type invariant of the block map.
THEOREM TypeCorrect == Spec => []TypeOK
<1>1. IInv => TypeOK
  BY DEF IInv, Types
<1> QED BY <1>1, Invariance, PTL

\* Whatever fills up, fails or is cut on either write path, no block is ever
\* referenced from two places, of two files or of one.
THEOREM NoSharedBlockAlways == Spec => []NoSharedBlock
<1>1. IInv => NoSharedBlock
  BY DEF IInv, Volume
<1> QED BY <1>1, Invariance, PTL

\* At every step of every command, testfs_alloc_block_freemap has the blocks
\* that files reference, through the cached indirect block too, marked.
THEOREM RefsMarkedAlways == Spec => []RefsMarked
<1>1. IInv => RefsMarked
  BY DEF IInv, Volume
<1> QED BY <1>1, Invariance, PTL

\* No sequence of commands leaves a file with an unmapped block below its size.
THEOREM NoHolesAlways == Spec => []NoHoles
<1>1. ASSUME IInv, NEW f \in live, NEW i \in 0 .. BlocksOf(inode[f].size) - 1
      PROVE  BlockAt(f, i) > 0
  <2>1. f \in File /\ inode[f].size \in Nat
    BY <1>1 DEF IInv, Types, TypeOK, Dinode
  <2>2. i \in Nat /\ i * BlockSize < inode[f].size
    <3>1. BlocksOf(inode[f].size) \in Nat
      BY <2>1, BlocksOfCounts
    <3>2. i \in Nat /\ i < BlocksOf(inode[f].size)
      BY <3>1
    <3> QED BY <2>1, <3>2, BlocksOfCounts
  <2>3. i \in Slot /\ BlockAt(f, i) # 0
    BY <1>1, <2>2, SlotIs DEF IInv, Volume, NothingMissing, Whole
  <2>4. BlockAt(f, i) \in 0 .. NBits
    BY <1>1, <2>1, <2>3, BlockAtType DEF IInv, BlockPtr
  <2> QED BY <2>3, <2>4, BlockMapAssumption
<1>2. IInv => NoHoles
  BY <1>1 DEF NoHoles
<1> QED BY <1>2, Invariance, PTL

\* The assertions about the mapping never fail: those of read and truncation
\* that a block below the size is mapped, and that of bitmap_unmark that a
\* block which is freed was in use.
THEOREM MappingAssertsAlways == Spec => []MappingAssertsHold
<1>1. IInv => MappingAssertsHold
  BY DEF IInv, Volume
<1> QED BY <1>1, Invariance, PTL

\* testfs_flush_indirect writes to the block the inode points to, and brings
\* back no entry a truncation has cut.
THEOREM IndirectFlushAlways == Spec => []IndirectFlushSafe
<1>1. ASSUME IInv, At("sync"), IndDirty
      PROVE  /\ inode[cmd.f].ind # 0
             /\ \A i \in LogBlock : PhyOnDisk(cmd.f, i) \in {0, BlockAt(cmd.f, i)}
  <2>1. cmd # Idle /\ cmd.f \in File /\ inode[cmd.f].ind # 0
        /\ \A j \in 0 .. NIndirect - 1 : table[inode[cmd.f].ind][j] \in {0, cache[j]}
    BY <1>1, NotIdle DEF IInv, Types, IsCommand, Cached, CacheIsNewer
  <2>2. ASSUME NEW i \in LogBlock
        PROVE  PhyOnDisk(cmd.f, i) \in {0, BlockAt(cmd.f, i)}
    <3>1. CASE i < NDirect
      BY <3>1, SlotIs DEF PhyOnDisk, BlockAt
    <3>2. CASE ~(i < NDirect)
      <4>1. i - NDirect \in 0 .. NIndirect - 1 /\ i # IndSlot
        BY <3>2, SlotIs, BlockMapAssumption DEF LogBlock
      <4>2. BlockAt(cmd.f, i) = cache[i - NDirect]
        BY <1>1, <2>1, <3>2, <4>1 DEF BlockAt, Entry, IndDirty
      <4> QED BY <2>1, <3>2, <4>1, <4>2 DEF PhyOnDisk
    <3> QED BY <3>1, <3>2
  <2> QED BY <2>1, <2>2
<1>2. IInv => IndirectFlushSafe
  BY <1>1 DEF IndirectFlushSafe, IndDirty
<1> QED BY <1>2, Invariance, PTL

-----------------------------------------------------------------------------
(***************************************************************************)
(* BlockMap implements BlockOwner, for any sizes of blocks, inodes and the *)
(* volume, any set of files and any commands.  The argument rests on       *)
(* Moved, which every step satisfies: a step takes free blocks for one     *)
(* file, or gives blocks of one file back, or moves nothing.               *)
(***************************************************************************)
Referenced(b, f) == \E s \in Slot : BlockAt(f, s) = b

\* A block belongs to the file that references it, and to no file otherwise.
OwnersAre ==
  \A b \in Block :
    /\ \A f \in File : Referenced(b, f) => OwnerOf(b) = f
    /\ (\A f \in File : ~ Referenced(b, f)) =>
         OwnerOf(b) = IF b \in marked THEN "lost" ELSE "nobody"

LEMMA OwnerIs == NoSharedBlock => OwnersAre
<1> SUFFICES ASSUME NoSharedBlock, NEW b \in Block
             PROVE  /\ \A f \in File : Referenced(b, f) => OwnerOf(b) = f
                    /\ (\A f \in File : ~ Referenced(b, f)) =>
                         OwnerOf(b) = IF b \in marked THEN "lost" ELSE "nobody"
  BY DEF OwnersAre
<1>1. \A f \in File : b \in Refs(f) <=> Referenced(b, f)
  BY BlockMapAssumption DEF Refs, Block, Referenced
<1>2. b # 0
  BY BlockMapAssumption DEF Block
<1>3. ASSUME NEW f \in File, Referenced(b, f)  PROVE OwnerOf(b) = f
  <2> DEFINE h == CHOOSE x \in File : b \in Refs(x)
  <2>1. h \in File /\ Referenced(b, h) /\ OwnerOf(b) = h
    BY <1>1, <1>3 DEF OwnerOf
  <2> HIDE DEF h
  <2>2. PICK s \in Slot, t \in Slot : BlockAt(f, s) = b /\ BlockAt(h, t) = b
    BY <1>3, <2>1 DEF Referenced
  <2> QED BY <1>2, <2>1, <2>2 DEF NoSharedBlock
<1> QED BY <1>1, <1>3 DEF OwnerOf

LEMMA OwnerIsNext == NoSharedBlock' => OwnersAre'
BY OwnerIs, PTL

-----------------------------------------------------------------------------
(***************************************************************************)
(* What a step does to the owners.                                         *)
(***************************************************************************)

\* The blocks whose owner changes had the owners in from, and get those in to.
MovesOwners(from, to) ==
  \A b \in Block : OwnerOf(b)' # OwnerOf(b) => OwnerOf(b) \in from /\ OwnerOf(b)' \in to

LEMMA OwnerType ==
  ASSUME OwnersAre'
  PROVE  \A b \in Block : OwnerOf(b)' \in File \cup {"nobody", "lost"}
BY DEF OwnersAre

LEMMA OwnersMove ==
  ASSUME OwnersAre', NEW from, NEW to, MovesOwners(from, to)
  PROVE  Owner_!Move(from, to)
BY OwnerType DEF MovesOwners, Owner_!Move, Owner_!Owner

\* A write: what changes hands was free, and is the file's or lost afterwards.
LEMMA TakesMoves ==
  ASSUME OwnersAre, OwnersAre', NEW g \in File, Takes(g)
  PROVE  MovesOwners({"nobody"}, {g, "lost"})
<1> SUFFICES ASSUME NEW b \in Block, OwnerOf(b)' # OwnerOf(b)
             PROVE  OwnerOf(b) = "nobody" /\ OwnerOf(b)' \in {g, "lost"}
  BY DEF MovesOwners
<1>1. b # 0
  BY BlockMapAssumption DEF Block
<1>2. ASSUME NEW f \in File, Referenced(b, f)  PROVE FALSE
  <2>1. PICK s \in Slot : BlockAt(f, s) = b
    BY <1>2 DEF Referenced
  <2>2. BlockAt(f, s)' = b
    BY <1>1, <2>1 DEF Takes
  <2> QED BY <1>2, <2>2 DEF OwnersAre, Referenced
<1>3. ASSUME NEW f \in File, Referenced(b, f)'
      PROVE  f = g /\ b \notin marked
  <2>1. PICK s \in Slot : BlockAt(f, s)' = b
    BY <1>3 DEF Referenced
  <2>2. BlockAt(f, s)' # BlockAt(f, s)
    BY <1>2, <2>1 DEF Referenced
  <2> QED BY <2>1, <2>2 DEF Takes
<1>4. OwnerOf(b) = IF b \in marked THEN "lost" ELSE "nobody"
  BY <1>2 DEF OwnersAre
<1>5. CASE \E f \in File : Referenced(b, f)'
  BY <1>3, <1>4, <1>5 DEF OwnersAre
<1>6. CASE \A f \in File : ~ Referenced(b, f)'
  <2>1. OwnerOf(b)' = IF b \in marked' THEN "lost" ELSE "nobody"
    BY <1>6 DEF OwnersAre
  <2> QED BY <1>4, <2>1 DEF Takes
<1> QED BY <1>5, <1>6

\* A truncation or a removal: what changes hands was the file's, and is free
\* or lost afterwards.
LEMMA GivesMoves ==
  ASSUME OwnersAre, OwnersAre', NEW g \in File, Gives(g)
  PROVE  MovesOwners({g}, {"nobody", "lost"})
<1> SUFFICES ASSUME NEW b \in Block, OwnerOf(b)' # OwnerOf(b)
             PROVE  OwnerOf(b) = g /\ OwnerOf(b)' \in {"nobody", "lost"}
  BY DEF MovesOwners
<1>1. b # 0
  BY BlockMapAssumption DEF Block
<1>2. ASSUME NEW f \in File, Referenced(b, f)'  PROVE FALSE
  <2>1. PICK s \in Slot : BlockAt(f, s)' = b
    BY <1>2 DEF Referenced
  <2>2. BlockAt(f, s) = b
    BY <1>1, <2>1 DEF Gives
  <2> QED BY <1>2, <2>2 DEF OwnersAre, Referenced
<1>3. OwnerOf(b)' = IF b \in marked' THEN "lost" ELSE "nobody"
  BY <1>2 DEF OwnersAre
<1>4. CASE \E f \in File : Referenced(b, f)
  <2>1. PICK f \in File : Referenced(b, f)
    BY <1>4
  <2>2. PICK s \in Slot : BlockAt(f, s) = b
    BY <2>1 DEF Referenced
  <2>3. f = g
    BY <1>2, <2>2 DEF Gives, Referenced
  <2> QED BY <1>3, <2>1, <2>3 DEF OwnersAre
<1>5. CASE \A f \in File : ~ Referenced(b, f)
  <2>1. OwnerOf(b) = IF b \in marked THEN "lost" ELSE "nobody"
    BY <1>5 DEF OwnersAre
  <2>2. b \notin Refs(g)
    BY <1>5 DEF Refs, Referenced
  <2> QED BY <1>3, <2>1, <2>2 DEF Gives
<1> QED BY <1>4, <1>5

LEMMA StayMoves ==
  ASSUME OwnersAre, OwnersAre', marked' = marked,
         \A f \in File : \A s \in Slot : BlockAt(f, s)' = BlockAt(f, s)
  PROVE  \A b \in Block : OwnerOf(b)' = OwnerOf(b)
BY DEF OwnersAre, Referenced

-----------------------------------------------------------------------------
LEMMA RefineInit == Init => Owner_!Init
<1> SUFFICES ASSUME Init PROVE Owner_!Init
  OBVIOUS
<1>1. IInv /\ marked = {}
  BY InitHolds DEF Init
<1>2. \A f \in File : Refs(f) = {}
  BY <1>1 DEF IInv, Volume, RefsMarked
<1>3. \A b \in Block : OwnerOf(b) = "nobody"
  BY <1>1, <1>2 DEF OwnerOf
<1> QED BY <1>3 DEF Owner_!Init

LEMMA RefineStep ==
  IInv /\ IInv' /\ [Next]_vars => [Owner_!Next]_([b \in Block |-> OwnerOf(b)])
<1> SUFFICES ASSUME IInv, IInv', [Next]_vars
             PROVE  Owner_!Next \/ \A b \in Block : OwnerOf(b)' = OwnerOf(b)
  OBVIOUS
<1>1. OwnersAre /\ OwnersAre'
  BY OwnerIs, OwnerIsNext DEF IInv, Volume
<1>2. Moved
  BY NextKeeps
<1>3. ASSUME NEW g \in File, Takes(g)  PROVE Owner_!Next
  BY <1>1, <1>3, TakesMoves, OwnersMove DEF Owner_!Next, Owner_!Take
<1>4. ASSUME NEW g \in File, Gives(g)  PROVE Owner_!Next
  BY <1>1, <1>4, GivesMoves, OwnersMove DEF Owner_!Next, Owner_!Release
<1> QED BY <1>1, <1>2, <1>3, <1>4, StayMoves DEF Moved

\* Through every write, truncation and removal, failed ones included, a block
\* passes from one file to another by way of the freemap only.  (The theorem
\* says as much if "nobody" and "lost" are not themselves files.)
THEOREM ImplementsOwner == Spec => ImplementsBlockOwner
BY Invariance, RefineInit, RefineStep, PTL DEF Spec, ImplementsBlockOwner, Owner_!Spec

-----------------------------------------------------------------------------
(***************************************************************************)
(* The invariants.                                                         *)
(***************************************************************************)

\* An import of a whole number of blocks asks for one block more than the size.
WholeImport == cmd.op = "import" /\ cmd.total % BlockSize = 0

InLoop == cmd.pc \in {"alternate", "classic"}

\* The call of a write loop has something left to write in block cmd.next.
Ahead ==
  cmd # Idle /\ InLoop /\ ~WholeImport =>
    /\ cmd.next * BlockSize < cmd.start + cmd.size
    /\ cmd.op = "import" => cmd.start = cmd.next * BlockSize /\ cmd.size <= BlockSize

\* The end of file f in blocks; what a write loop has mapped so far counts.
Extent(f) ==
  IF f = cmd.f /\ InLoop /\ cmd.next > BlocksOf(inode[f].size)
  THEN cmd.next ELSE BlocksOf(inode[f].size)

\* Since it started on a clean volume, the command has mapped no block beyond
\* the extent of its file, and has lost none.
NothingBeyond ==
  cmd # Idle /\ cmd.clean /\ cmd.ret = "ok" /\ ~WholeImport =>
    /\ \A b \in marked : \E f \in live : \E s \in Slot : BlockAt(f, s) = b
    /\ \A f \in live : \A i \in LogBlock : BlockAt(f, i) # 0 => i < Extent(f)

\* File g is as in snapshot w, save for blocks that were free then: they are at
\* places that were empty, before block k, or hold the entries of g.
GrownSince(g, w, k) ==
  /\ \A i \in LogBlock :
       \/ BlockAt(g, i) = w.phy[i]
       \/ w.phy[i] = 0 /\ i < k /\ BlockAt(g, i) \notin w.marked
  /\ w.marked \subseteq marked
  /\ \A b \in marked \ w.marked :
       \/ b = BlockAt(g, IndSlot)
       \/ \E i \in LogBlock : w.phy[i] = 0 /\ BlockAt(g, i) = b
  /\ \/ BlockAt(g, IndSlot) = w.ind
     \/ w.ind = 0 /\ BlockAt(g, IndSlot) \notin w.marked

AsBefore(g, w) ==
  /\ inode[g].size = w.size
  /\ \A i \in LogBlock : BlockAt(g, i) = w.phy[i]
  /\ marked \ {BlockAt(g, IndSlot)} = w.marked \ {w.ind}

IsSnapshot(w) ==
  /\ w.size \in Nat /\ w.marked \subseteq Block
  /\ \A i \in LogBlock : w.phy[i] # 0 <=> i < BlocksOf(w.size)

SinceStart ==
  cmd # Idle /\ cmd.op = "owrite" /\ cmd.was.tight =>
    /\ IsSnapshot(cmd.was)
    /\ cmd.pc = "classic" =>
         /\ cmd.ret = "ok" /\ inode[cmd.f].size = cmd.was.size
         /\ GrownSince(cmd.f, cmd.was, cmd.next)
    /\ cmd.pc = "truncate" /\ cmd.ret # "ok" =>
         /\ cmd.to = cmd.was.size /\ inode[cmd.f].size >= cmd.was.size
         /\ GrownSince(cmd.f, cmd.was, EndCut)
    /\ cmd.pc = "sync" /\ cmd.ret # "ok" => AsBefore(cmd.f, cmd.was)

CInv == IInv /\ Ahead /\ NothingBeyond /\ SinceStart

-----------------------------------------------------------------------------
(***************************************************************************)
(* A command starts.                                                       *)
(***************************************************************************)
LEMMA BlocksOfMonotone ==
  ASSUME NEW m \in Nat, NEW n \in Nat, m <= n
  PROVE  BlocksOf(m) <= BlocksOf(n)
<1>1. /\ BlocksOf(m) \in Nat /\ BlocksOf(n) \in Nat /\ n <= BlocksOf(n) * BlockSize
      /\ \A i \in Nat : i < BlocksOf(m) => i * BlockSize < m
  BY BlocksOfCounts
<1> SUFFICES ASSUME BlocksOf(n) < BlocksOf(m) PROVE FALSE
  BY <1>1
<1>2. BlocksOf(n) * BlockSize < m
  BY <1>1
<1> QED BY <1>1, <1>2, Times

\* A write that leaves off below byte n has not gone beyond its last block.
LEMMA BlocksOfReaches ==
  ASSUME NEW k \in Nat, NEW n \in Nat
  PROVE  /\ k * BlockSize < n => k + 1 <= BlocksOf(n)
         /\ k * BlockSize <= n => k <= BlocksOf(n)
<1>1. /\ BlocksOf(n) \in Nat /\ n <= BlocksOf(n) * BlockSize
      /\ k * BlockSize < n => k < BlocksOf(n)
  BY BlocksOfCounts
<1>2. ASSUME k * BlockSize <= n, BlocksOf(n) < k  PROVE FALSE
  <2>1. (BlocksOf(n) + 1) * BlockSize <= k * BlockSize
    BY <1>1, <1>2, TimesMonotone
  <2> QED BY <1>1, <1>2, <2>1, Times, BlockMapAssumption
<1> QED BY <1>1, <1>2

LEMMA MultipleHasNoRest ==
  ASSUME NEW k \in Nat
  PROVE  (k * BlockSize) % BlockSize = 0
BY BlockMapAssumption, Z3

OfWholeBlocks(op, total) == op = "import" /\ total % BlockSize = 0

\* Nothing is mapped, marked or freed when a command starts.
Begins(op, f, pc, start, size, total, ret) ==
  /\ cmd = Idle /\ live \subseteq live' /\ live' \subseteq File
  /\ \E to \in Nat, tailRead \in BOOLEAN :
       cmd' = Command(op, f, pc, start, size, total, to, ret, tailRead)
  /\ UNCHANGED <<marked, inode>>
  /\ \A h \in File : \A s \in Slot : BlockAt(h, s)' = BlockAt(h, s)

LEMMA SameBlocks ==
  ASSUME IInv, cmd = Idle, flags' \subseteq {"INDIRECT_LOADED"}, UNCHANGED <<inode, table>>
  PROVE  \A h \in File : \A s \in Slot : BlockAt(h, s)' = BlockAt(h, s)
<1>1. "INDIRECT_DIRTY" \notin flags /\ "INDIRECT_DIRTY" \notin flags'
  BY DEF IInv, Cached
<1> QED BY <1>1 DEF BlockAt, Entry

LEMMA BeginsKeeps ==
  ASSUME IInv, IInv',
         NEW op, NEW f \in live', NEW pc \in {"alternate", "classic", "truncate", "sync"},
         NEW start \in Nat, NEW size \in Nat, NEW total \in Nat, NEW ret,
         Begins(op, f, pc, start, size, total, ret),
         pc \in {"alternate", "classic"} => size > 0 \/ OfWholeBlocks(op, total),
         op = "import" => start = 0 /\ size <= BlockSize,
         op = "owrite" => pc = "classic" /\ ret = "ok" /\ f \in live
  PROVE  Ahead' /\ NothingBeyond' /\ SinceStart'
<1>1. /\ cmd = Idle /\ live \subseteq live' /\ live' \subseteq File /\ f \in File
      /\ UNCHANGED <<marked, inode>>
      /\ \A h \in File : \A s \in Slot : BlockAt(h, s)' = BlockAt(h, s)
  BY DEF Begins
<1>2. PICK to \in Nat, tailRead \in BOOLEAN :
        cmd' = Command(op, f, pc, start, size, total, to, ret, tailRead)
  BY DEF Begins
<1>0. PICK c : c = Command(op, f, pc, start, size, total, to, ret, tailRead)
  BY Zenon
<1>3. /\ IsCommand(c) /\ c # Idle
      /\ c.op = op /\ c.f = f /\ c.pc = pc /\ c.start = start /\ c.size = size
      /\ c.next * BlockSize <= start /\ c.total = total /\ c.to = to
      /\ start = 0 => c.next = 0
  BY <1>0, <1>1, CommandFields
<1>4. c.ret = ret /\ c.clean = Clean /\ (op = "owrite" => c.was = Snapshot(f))
  BY <1>0, CommandSnapshot
<1>5. cmd' = c
  BY <1>0, <1>2
<1>6. c.next \in Nat
  BY <1>3 DEF IsCommand
<1>7. Ahead'
  <2>1. WholeImport' <=> OfWholeBlocks(op, total)
    BY <1>3, <1>5 DEF WholeImport, OfWholeBlocks
  <2>2. ASSUME InLoop', ~WholeImport'
        PROVE  /\ c.next * BlockSize < c.start + c.size
               /\ c.op = "import" => c.start = c.next * BlockSize /\ c.size <= BlockSize
    <3>1. size > 0
      BY <1>3, <1>5, <2>1, <2>2 DEF InLoop
    <3>2. c.next * BlockSize \in Nat
      BY <1>6, Times
    <3>3. 0 * BlockSize = 0
      BY BlockMapAssumption
    <3> QED BY <1>3, <3>1, <3>2, <3>3
  <2> QED BY <1>5, <2>2 DEF Ahead
<1>8. NothingBeyond'
  <2> SUFFICES ASSUME Clean
               PROVE  /\ \A b \in marked' : \E h \in live' : \E s \in Slot : BlockAt(h, s)' = b
                      /\ \A h \in live' : \A i \in LogBlock : BlockAt(h, i)' # 0 => i < Extent(h)'
    BY <1>4, <1>5 DEF NothingBeyond
  <2>1. ASSUME NEW b \in marked'
        PROVE  \E h \in live' : \E s \in Slot : BlockAt(h, s)' = b
    <3>1. b \in UNION {Refs(h) : h \in live}
      BY <1>1 DEF Clean
    <3>2. PICK h \in live : b \in Refs(h)
      BY <3>1
    <3>3. PICK s \in Slot : BlockAt(h, s) = b
      BY <3>2 DEF Refs
    <3> QED BY <1>1, <3>2, <3>3
  <2>2. ASSUME NEW h \in live', NEW i \in LogBlock, BlockAt(h, i)' # 0
        PROVE  i < Extent(h)'
    <3>1. h \in File /\ i \in Slot /\ BlockAt(h, i) # 0 /\ i \in Nat
      BY <1>1, <2>2, SlotIs
    <3>2. h \in live
      <4> SUFFICES ASSUME h \notin live PROVE FALSE
        OBVIOUS
      <4>1. inode[h] = EmptyDinode
        BY <3>1 DEF IInv, Volume, Cleared
      <4>2. /\ EmptyDinode.ind = 0 /\ \A j \in 0 .. NDirect - 1 : EmptyDinode.direct[j] = 0
        BY DEF EmptyDinode
      <4>3. i < NDirect => i \in 0 .. NDirect - 1
        BY <3>1, BlockMapAssumption
      <4> QED BY <3>1, <4>1, <4>2, <4>3, SlotIs, BlockAtIsView DEF View
    <3>3. i \in 0 .. BlocksOf(inode[h].size) - 1
      BY <3>1, <3>2 DEF Clean, Fits
    <3>4. inode[h].size \in Nat
      BY <3>1 DEF IInv, Types, TypeOK, Dinode
    <3>5. BlocksOf(inode[h].size) \in Nat
      BY <3>4, BlocksOfCounts
    <3>6. Extent(h)' >= BlocksOf(inode[h].size)
      <4>1. Extent(h)' = IF h = cmd'.f /\ InLoop' /\ cmd'.next > BlocksOf(inode'[h].size)
                         THEN cmd'.next ELSE BlocksOf(inode'[h].size)
        BY DEF Extent, BlocksOf
      <4> QED BY <1>1, <1>5, <1>6, <3>5, <4>1
    <3>7. Extent(h)' \in Nat
      BY <1>1, <1>5, <1>6, <3>5 DEF Extent, BlocksOf
    <3> QED BY <3>1, <3>3, <3>5, <3>6, <3>7
  <2> QED BY <2>1, <2>2
<1>9. SinceStart'
  <2> SUFFICES ASSUME op = "owrite", c.was.tight
               PROVE  SinceStart'
    BY <1>3, <1>5 DEF SinceStart
  <2>0. PICK w : w = Snapshot(f)
    BY Zenon
  <2>1. /\ w.size = inode[f].size /\ w.marked = marked /\ w.ind = inode[f].ind
        /\ w.tight = Fits(f) /\ w.phy = [i \in LogBlock |-> PhyOnDisk(f, i)]
    BY <2>0 DEF Snapshot
  <2>2. Fits(f) /\ c.was = w
    BY <1>4, <2>0, <2>1
  <2>3. "INDIRECT_DIRTY" \notin flags
    BY <1>1 DEF IInv, Cached
  <2>4. \A i \in LogBlock : w.phy[i] = BlockAt(f, i)
    BY <1>1, <2>1, <2>3, OnDiskIsBlockAt
  <2>5. inode[f].size \in Nat /\ marked \subseteq Block
    BY <1>1 DEF IInv, Types, TypeOK, Dinode
  <2>6. IsSnapshot(w)
    <3>1. ASSUME NEW i \in LogBlock
          PROVE  w.phy[i] # 0 <=> i < BlocksOf(w.size)
      <4>1. i \in 0 .. BlocksOf(inode[f].size) - 1 <=> BlockAt(f, i) # 0
        BY <2>2 DEF Fits
      <4>2. i \in Nat /\ BlocksOf(inode[f].size) \in Nat
        BY <2>5, SlotIs, BlocksOfCounts
      <4> QED BY <2>1, <2>4, <4>1, <4>2
    <3> QED BY <2>1, <2>5, <3>1 DEF IsSnapshot
  <2>7. BlockAt(f, IndSlot) = w.ind
    BY <2>1 DEF BlockAt
  <2>8. GrownSince(f, w, c.next)'
    <3>1. /\ \A i \in LogBlock : BlockAt(f, i)' = w.phy[i]
          /\ BlockAt(f, IndSlot)' = w.ind /\ marked' = w.marked
      BY <1>1, <2>1, <2>4, <2>7, SlotIs
    <3> QED BY <3>1 DEF GrownSince
  <2>9. /\ cmd'.was = w /\ cmd'.pc = "classic" /\ cmd'.ret = "ok" /\ cmd'.f = f /\ cmd'.next = c.next
    BY <1>3, <1>4, <1>5, <2>2
  <2> QED BY <1>1, <2>1, <2>6, <2>8, <2>9 DEF SinceStart
<1> QED BY <1>7, <1>8, <1>9

LEMMA CmdOwriteBegins ==
  ASSUME IInv, IInv', NEW f \in File, NEW off \in Sizes \cup {0}, NEW n \in Sizes \ {0},
         CmdOwrite(f, off, n), ~Aborts
  PROVE  Ahead' /\ NothingBeyond' /\ SinceStart'
<1>1. /\ cmd = Idle /\ f \in live
      /\ cmd' = Command("owrite", f, "classic", off, n, 0, 0, "ok", FALSE)
      /\ UNCHANGED <<marked, live, inode, table, flags, cache, aborted>>
  BY DEF CmdOwrite, Ready, Aborts
<1>2. off \in Nat /\ n \in Nat /\ n > 0 /\ live \subseteq File
  BY BlockMapAssumption DEF IInv, Types, TypeOK
<1>3. Begins("owrite", f, "classic", off, n, 0, "ok")
  <2>1. \A h \in File : \A s \in Slot : BlockAt(h, s)' = BlockAt(h, s)
    BY <1>1, SameBlocks DEF IInv, Cached
  <2> QED BY <1>1, <1>2, <2>1 DEF Begins
<1>4. "classic" \in {"alternate", "classic", "truncate", "sync"} /\ 0 \in Nat
  OBVIOUS
<1>5. "classic" \in {"alternate", "classic"} => n > 0 \/ OfWholeBlocks("owrite", 0)
  BY <1>2
<1>6. f \in live' /\ "owrite" # "import"
  BY <1>1
<1> QED BY <1>1, <1>2, <1>3, <1>4, <1>5, <1>6, BeginsKeeps

LEMMA CmdImportBegins ==
  ASSUME IInv, IInv', NEW f \in File, NEW n \in Sizes \cup {0}, CmdImport(f, n)
  PROVE  Ahead' /\ NothingBeyond' /\ SinceStart'
<1> DEFINE chunk == ImportChunk(0, n)
<1>1. /\ cmd = Idle /\ live' = live \cup {f}
      /\ cmd' = Command("import", f, "classic", 0, chunk, n, 0, "ok", FALSE)
      /\ UNCHANGED <<marked, inode, table, flags, cache, aborted>>
  BY DEF CmdImport, Ready
<1>2. n \in Nat /\ live' \subseteq File /\ f \in live'
  BY <1>1, BlockMapAssumption DEF IInv, Types, TypeOK
<1>3. chunk \in Nat /\ chunk <= BlockSize /\ (n % BlockSize # 0 => chunk > 0)
  <2>1. chunk = IF BlockSize <= n - 0 THEN BlockSize ELSE n - 0
    BY <1>2, MinOfTwo, BlockMapAssumption DEF ImportChunk
  <2>2. n = 0 => n % BlockSize = 0
    BY MultipleHasNoRest, BlockMapAssumption
  <2> QED BY <1>2, <2>1, <2>2, BlockMapAssumption
<1> HIDE DEF chunk
<1>4. Begins("import", f, "classic", 0, chunk, n, "ok")
  <2>1. \A h \in File : \A s \in Slot : BlockAt(h, s)' = BlockAt(h, s)
    BY <1>1, SameBlocks DEF IInv, Cached
  <2> QED BY <1>1, <1>2, <2>1 DEF Begins
<1>5. "classic" \in {"alternate", "classic", "truncate", "sync"} /\ 0 \in Nat
  OBVIOUS
<1>6. "classic" \in {"alternate", "classic"} => chunk > 0 \/ OfWholeBlocks("import", n)
  BY <1>3 DEF OfWholeBlocks
<1> QED BY <1>2, <1>3, <1>4, <1>5, <1>6, BeginsKeeps

LEMMA CmdRmBegins ==
  ASSUME IInv, IInv', NEW f \in File, CmdRm(f)
  PROVE  Ahead' /\ NothingBeyond' /\ SinceStart'
<1>1. /\ cmd = Idle /\ f \in live
      /\ cmd' = Command("rm", f, "truncate", 0, 0, 0, 0, "ok", FALSE)
      /\ UNCHANGED <<marked, live, inode, table, flags, cache, aborted>>
  BY DEF CmdRm, Ready
<1>2. live \subseteq File
  BY DEF IInv, Types, TypeOK
<1>3. Begins("rm", f, "truncate", 0, 0, 0, "ok")
  <2>1. \A h \in File : \A s \in Slot : BlockAt(h, s)' = BlockAt(h, s)
    BY <1>1, SameBlocks DEF IInv, Cached
  <2> QED BY <1>1, <1>2, <2>1 DEF Begins
<1> QED BY <1>1, <1>3, BeginsKeeps

LEMMA CmdWriteBegins ==
  ASSUME IInv, IInv', NEW f \in File, NEW n \in Sizes \ {0}, CmdWrite(f, n)
  PROVE  Ahead' /\ NothingBeyond' /\ SinceStart'
<1> DEFINE last == BlocksOf(n) - 1
           tail == n % BlockSize # 0 /\ LogToPhy(f, last) > 0
<1>1. cmd = Idle /\ f \in live /\ UNCHANGED <<marked, live, inode, table, aborted>>
  BY DEF CmdWrite, Ready
<1>2. n \in Nat /\ n > 0 /\ live \subseteq File /\ flags = {}
  BY <1>1, BlockMapAssumption DEF IInv, Types, TypeOK, Cached
<1>3. flags' \subseteq {"INDIRECT_LOADED"}
  BY <1>2 DEF CmdWrite, FlagsAfter
<1>4. \A h \in File : \A s \in Slot : BlockAt(h, s)' = BlockAt(h, s)
  BY <1>1, <1>3, SameBlocks
<1>5. CASE TooBig(last)
  <2>1. cmd' = Command("write", f, "sync", 0, n, 0, 0, "EFBIG", FALSE)
    BY <1>5 DEF CmdWrite
  <2>2. Begins("write", f, "sync", 0, n, 0, "EFBIG")
    BY <1>1, <1>2, <1>4, <2>1 DEF Begins
  <2> QED BY <1>1, <1>2, <2>2, BeginsKeeps
<1>6. CASE ~TooBig(last)
  <2>1. cmd' = Command("write", f, "alternate", 0, n, 0, 0, "ok", tail)
    BY <1>6 DEF CmdWrite
  <2>2. tail \in BOOLEAN
    OBVIOUS
  <2> HIDE DEF tail
  <2>3. Begins("write", f, "alternate", 0, n, 0, "ok")
    BY <1>1, <1>2, <1>4, <2>1, <2>2 DEF Begins
  <2>4. "alternate" \in {"alternate", "classic"} => n > 0 \/ OfWholeBlocks("write", 0)
    BY <1>2
  <2>5. /\ "alternate" \in {"alternate", "classic", "truncate", "sync"} /\ 0 \in Nat
        /\ f \in live'
    BY <1>1
  <2> QED BY <1>2, <2>3, <2>4, <2>5, BeginsKeeps
<1> QED BY <1>5, <1>6

\* A step that changes nothing but the assertion that failed.
LEMMA AbortIsStill ==
  ASSUME Ahead, NothingBeyond, SinceStart,
         UNCHANGED <<marked, live, inode, table, flags, cache, cmd>>
  PROVE  Ahead' /\ NothingBeyond' /\ SinceStart'
<1>1. \A h, s : BlockAt(h, s)' = BlockAt(h, s)
  BY DEF BlockAt, Entry
<1>2. Ahead'
  BY DEF Ahead, InLoop, WholeImport
<1>3. NothingBeyond'
  BY <1>1 DEF NothingBeyond, WholeImport, Extent, InLoop, BlocksOf
<1>4. /\ \A g, w, k : GrownSince(g, w, k)' <=> GrownSince(g, w, k)
      /\ \A g, w : AsBefore(g, w)' <=> AsBefore(g, w)
  BY <1>1 DEF GrownSince, AsBefore
<1>5. EndCut' = EndCut /\ \A w : IsSnapshot(w)' <=> IsSnapshot(w)
  BY DEF EndCut, BlocksOf, IsSnapshot
<1>6. SinceStart'
  BY <1>4, <1>5 DEF SinceStart
<1> QED BY <1>2, <1>3, <1>6

\* A step after which no command runs, or one that the invariants say nothing of.
LEMMA EndsKeeps ==
  ASSUME \/ cmd' = Idle
         \/ cmd'.op = "write" /\ cmd'.pc = "sync" /\ cmd'.ret # "ok"
  PROVE  Ahead' /\ NothingBeyond' /\ SinceStart'
BY DEF Ahead, NothingBeyond, SinceStart, InLoop

-----------------------------------------------------------------------------
(***************************************************************************)
(* The write loops.                                                        *)
(***************************************************************************)
LEMMA GrowsOn ==
  ASSUME IInv, NEW g \in live, NEW w, NEW k \in Nat, NEW l \in Nat, k <= l,
         IsSnapshot(w), GrownSince(g, w, k), Adds(g),
         \A i \in LogBlock : BlockAt(g, i)' # BlockAt(g, i) => i < l
  PROVE  GrownSince(g, w, l)'
<1>1. /\ g \in File /\ marked \subseteq Block /\ IndSlot \in Slot /\ LogBlock \subseteq Slot
      /\ \A s \in Slot : s # IndSlot => s \in LogBlock
      /\ \A i \in LogBlock : i \in Nat
      /\ 0 \notin Block
  BY SlotIs, BlockMapAssumption DEF IInv, Types, TypeOK, Block, LogBlock
<1>2. /\ marked \subseteq marked'
      /\ \A s \in Slot : BlockAt(g, s)' # BlockAt(g, s) =>
           BlockAt(g, s) = 0 /\ BlockAt(g, s)' \in marked' \ marked
      /\ \A b \in marked' \ marked : \E s \in Slot : BlockAt(g, s)' = b
  BY DEF Adds, Takes
<1>3. \A s \in Slot : BlockAt(g, s) # 0 => BlockAt(g, s) \in marked
  BY <1>1, RefsAreMarked DEF IInv, Volume
<1>4. w.marked \subseteq marked
  BY DEF GrownSince
<1>5. ASSUME NEW i \in LogBlock
      PROVE  \/ BlockAt(g, i)' = w.phy[i]
             \/ w.phy[i] = 0 /\ i < l /\ BlockAt(g, i)' \notin w.marked
  <2>1. CASE BlockAt(g, i)' = BlockAt(g, i)
    BY <1>1, <2>1 DEF GrownSince
  <2>2. CASE BlockAt(g, i)' # BlockAt(g, i)
    <3>1. w.phy[i] = 0
      BY <1>1, <1>2, <2>2 DEF GrownSince
    <3> QED BY <1>1, <1>2, <1>4, <2>2, <3>1
  <2> QED BY <2>1, <2>2
<1>6. ASSUME NEW b \in marked' \ w.marked
      PROVE  \/ b = BlockAt(g, IndSlot)'
             \/ \E i \in LogBlock : w.phy[i] = 0 /\ BlockAt(g, i)' = b
  <2>1. CASE b \in marked
    <3>1. b # 0
      BY <1>1, <2>1
    <3>2. CASE b = BlockAt(g, IndSlot)
      BY <1>1, <1>2, <3>1, <3>2
    <3>3. CASE \E i \in LogBlock : w.phy[i] = 0 /\ BlockAt(g, i) = b
      BY <1>1, <1>2, <3>1, <3>3
    <3> QED BY <1>6, <2>1, <3>2, <3>3 DEF GrownSince
  <2>2. CASE b \notin marked
    <3>1. PICK s \in Slot : BlockAt(g, s)' = b
      BY <1>2, <1>6, <2>2
    <3>2. CASE s = IndSlot
      BY <3>1, <3>2
    <3>3. CASE s \in LogBlock
      <4>1. BlockAt(g, s) = 0 /\ b # 0
        <5>1. b \in Block
          BY <1>6 DEF Adds, Takes
        <5>2. BlockAt(g, s) # b
          BY <1>1, <1>3, <2>2, <5>1
        <5> QED BY <1>1, <1>2, <3>1, <5>1, <5>2
      <4>2. w.phy[s] = 0
        BY <3>3, <4>1 DEF GrownSince
      <4> QED BY <3>1, <3>3, <4>2
    <3> QED BY <1>1, <3>2, <3>3
  <2> QED BY <2>1, <2>2
<1>7. \/ BlockAt(g, IndSlot)' = w.ind
      \/ w.ind = 0 /\ BlockAt(g, IndSlot)' \notin w.marked
  BY <1>1, <1>2, <1>4 DEF GrownSince
<1> QED BY <1>2, <1>4, <1>5, <1>6, <1>7 DEF GrownSince

\* The extent of the other files is that of before.
LEMMA AddsKeepsWithin ==
  ASSUME IInv, IInv', NEW g \in live, g = cmd.f, cmd'.f = g, Adds(g), NEW n \in Nat,
         cmd.next < n, n <= Extent(g)', Extent(g) <= Extent(g)', Extent(g) \in Nat,
         Extent(g)' \in Nat,
         \A b \in marked : \E f \in live : \E s \in Slot : BlockAt(f, s) = b,
         \A f \in live : \A i \in LogBlock : BlockAt(f, i) # 0 => i < Extent(f)
  PROVE  /\ \A b \in marked' : \E f \in live' : \E s \in Slot : BlockAt(f, s)' = b
         /\ \A f \in live' : \A i \in LogBlock : BlockAt(f, i)' # 0 => i < Extent(f)'
<1>1. /\ live' = live /\ g \in File /\ live \subseteq File /\ marked \subseteq Block
      /\ 0 \notin Block /\ LogBlock \subseteq Slot /\ \A i \in LogBlock : i \in Nat /\ i # IndSlot
  <2>1. live' = live
    BY DEF Adds
  <2>2. live \subseteq File /\ marked \subseteq Block
    BY DEF IInv, Types, TypeOK
  <2>3. 0 \notin Block /\ LogBlock \subseteq Slot /\ \A i \in LogBlock : i \in Nat /\ i # IndSlot
    <3>1. 0 \notin Block /\ LogBlock \subseteq Slot
      BY SlotIs, BlockMapAssumption DEF Block
    <3>2. \A i \in LogBlock : i \in Nat /\ i # IndSlot
      BY SlotIs
    <3> QED BY <3>1, <3>2
  <2> QED BY <2>1, <2>2, <2>3
<1>2. /\ \A f \in File \ {g} : \A s \in Slot : BlockAt(f, s)' = BlockAt(f, s)
      /\ \A s \in Slot : BlockAt(g, s)' # BlockAt(g, s) =>
           BlockAt(g, s) = 0 /\ s \in {cmd.next, IndSlot}
      /\ \A b \in marked' \ marked : \E s \in Slot : BlockAt(g, s)' = b
  BY DEF Adds, Takes
<1>3. ASSUME NEW b \in marked'
      PROVE  \E f \in live' : \E s \in Slot : BlockAt(f, s)' = b
  <2>1. CASE b \in marked
    <3>1. PICK f \in live, s \in Slot : BlockAt(f, s) = b
      BY <2>1
    <3>2. BlockAt(f, s)' = b
      BY <1>1, <1>2, <2>1, <3>1
    <3> QED BY <1>1, <3>2
  <2> QED BY <1>1, <1>2, <2>1
<1>4. ASSUME NEW f \in live, NEW i \in LogBlock, BlockAt(f, i)' # 0
      PROVE  i < Extent(f)'
  <2>1. CASE f # g
    <3>1. Extent(f)' = Extent(f)
      BY <1>1, <2>1 DEF Extent, BlocksOf, Adds
    <3> QED BY <1>1, <1>2, <1>4, <2>1, <3>1
  <2>2. CASE f = g /\ BlockAt(g, i) # 0
    BY <1>1, <2>2
  <2>3. CASE f = g /\ BlockAt(g, i) = 0
    <3>1. i = cmd.next
      BY <1>1, <1>2, <1>4, <2>3
    <3> QED BY <1>1, <2>3, <3>1
  <2> QED BY <2>1, <2>2, <2>3
<1> QED BY <1>1, <1>3, <1>4

LEMMA InTheLoop ==
  ASSUME IInv, At("alternate") \/ At("classic")
  PROVE  /\ cmd # Idle /\ IsCommand(cmd) /\ InLoop /\ cmd.f \in live /\ cmd.f \in File
         /\ {cmd.next, cmd.start, cmd.size, cmd.total} \subseteq Nat
         /\ inode[cmd.f].size \in Nat /\ BlocksOf(inode[cmd.f].size) \in Nat
         /\ cmd.pc = "alternate" => cmd.op = "write"
         /\ cmd.op = "import" => cmd.start + cmd.size <= cmd.total
<1>1. cmd # Idle /\ IsCommand(cmd) /\ cmd.pc \in {"alternate", "classic"} /\ cmd.f \in File
  BY NotIdle DEF IInv
<1>2. /\ cmd.f \in live /\ (cmd.pc = "alternate" => cmd.op = "write")
      /\ cmd.op = "import" => cmd.start + cmd.size <= cmd.total
  BY <1>1 DEF IInv, Loops
<1>3. inode[cmd.f].size \in Nat
  BY <1>1 DEF IInv, Types, TypeOK, Dinode
<1>4. BlocksOf(inode[cmd.f].size) \in Nat
  BY <1>3, BlocksOfCounts
<1> QED BY <1>1, <1>2, <1>3, <1>4 DEF IsCommand, InLoop

\* The rest of an import that is not of whole blocks is never empty.
LEMMA NextChunkIs ==
  ASSUME NEW k \in Nat, NEW total \in Nat, k * BlockSize <= total, total % BlockSize # 0
  PROVE  LET n == ImportChunk(k * BlockSize, total)
         IN  n \in Nat /\ n > 0 /\ n <= BlockSize
<1> DEFINE s == k * BlockSize
<1>1. s \in Nat /\ s # total
  BY Times, MultipleHasNoRest
<1> HIDE DEF s
<1>2. ImportChunk(s, total) = IF BlockSize <= total - s THEN BlockSize ELSE total - s
  BY <1>1, MinOfTwo, BlockMapAssumption DEF ImportChunk
<1>3. total - s > 0
  BY <1>1 DEF s
<1> QED BY <1>1, <1>2, <1>3, BlockMapAssumption DEF s

LEMMA IteratesKeeps ==
  ASSUME CInv, IInv', At("alternate") \/ At("classic"), Iterates
  PROVE  Ahead' /\ NothingBeyond' /\ SinceStart'
<1>1. PICK g \in live : /\ g = cmd.f /\ Adds(g) /\ SameCall(cmd') /\ cmd'.ret = cmd.ret
                        /\ Continues(g) \/ Completes(g)
  BY DEF Iterates
<1>2. /\ cmd # Idle /\ InLoop /\ g \in File
      /\ cmd.next \in Nat /\ cmd.start \in Nat /\ cmd.size \in Nat /\ cmd.total \in Nat
      /\ inode[g].size \in Nat /\ BlocksOf(inode[g].size) \in Nat
      /\ cmd.pc = "alternate" => cmd.op = "write"
      /\ cmd.op = "import" => cmd.start + cmd.size <= cmd.total
  BY <1>1, InTheLoop DEF CInv
<1>3. /\ cmd' # Idle /\ IsCommand(cmd') /\ cmd'.op = cmd.op /\ cmd'.f = g
      /\ cmd'.total = cmd.total /\ cmd'.was = cmd.was /\ cmd'.clean = cmd.clean
  BY <1>1 DEF SameCall, IsCommand, Idle
<1>4. inode'[g].size \in Nat /\ BlocksOf(inode'[g].size) \in Nat /\ cmd'.next \in Nat
  <2>1. inode'[g].size \in Nat
    BY <1>2 DEF IInv, Types, TypeOK, Dinode
  <2> QED BY <1>3, <2>1, BlocksOfCounts DEF IsCommand
<1>5. WholeImport' <=> WholeImport
  BY <1>3 DEF WholeImport
<1>6. /\ cmd.next * BlockSize \in Nat /\ (cmd.next + 1) * BlockSize \in Nat
      /\ (cmd.next + 1) * BlockSize = cmd.next * BlockSize + BlockSize
  <2>1. cmd.next + 1 \in Nat
    BY <1>2
  <2>2. cmd.next * BlockSize \in Nat /\ (cmd.next + 1) * BlockSize = cmd.next * BlockSize + BlockSize
    BY <1>2, Times
  <2>3. (cmd.next + 1) * BlockSize \in Nat
    BY <2>1, Times
  <2> QED BY <2>2, <2>3
<1>7. ~WholeImport => /\ cmd.next * BlockSize < cmd.start + cmd.size
                      /\ cmd.op = "import" => cmd.start = cmd.next * BlockSize
                                               /\ cmd.size <= BlockSize
  BY <1>2 DEF CInv, Ahead
<1>8. Ahead'
  <2> SUFFICES ASSUME InLoop', ~WholeImport
               PROVE  /\ cmd'.next * BlockSize < cmd'.start + cmd'.size
                      /\ cmd'.op = "import" => cmd'.start = cmd'.next * BlockSize
                                                /\ cmd'.size <= BlockSize
    BY <1>5 DEF Ahead
  <2>1. CASE Continues(g)
    <3>1. cmd'.next = cmd.next + 1 /\ cmd'.start = cmd.start /\ cmd'.size = cmd.size
            /\ (cmd.next + 1) * BlockSize < cmd.start + cmd.size
      BY <1>2, <1>6, <2>1 DEF Continues, LastIteration
    <3>2. cmd.op # "import"
      BY <1>2, <1>6, <1>7, <3>1, BlockMapAssumption
    <3> QED BY <1>3, <3>1, <3>2
  <2>2. CASE Completes(g)
    <3>1. /\ cmd.op = "import" /\ cmd.size = BlockSize /\ cmd'.next = cmd.next + 1
          /\ cmd'.start = cmd.start + BlockSize
          /\ cmd'.size = ImportChunk(cmd.start + BlockSize, cmd.total)
      BY <2>2 DEF Completes, InLoop
    <3>2. cmd.start + BlockSize = (cmd.next + 1) * BlockSize
      BY <1>6, <1>7, <3>1
    <3>3. (cmd.next + 1) * BlockSize <= cmd.total /\ cmd.total % BlockSize # 0
      BY <1>2, <3>1, <3>2 DEF WholeImport
    <3>4. cmd'.size \in Nat /\ cmd'.size > 0 /\ cmd'.size <= BlockSize
      <4> DEFINE k == cmd.next + 1
      <4>1. k \in Nat
        BY <1>2
      <4>2. cmd'.size = ImportChunk(k * BlockSize, cmd.total)
        BY <3>1, <3>2
      <4> HIDE DEF k
      <4>3. k * BlockSize <= cmd.total
        BY <3>3 DEF k
      <4> QED BY <1>2, <3>3, <4>1, <4>2, <4>3, NextChunkIs
    <3> QED BY <1>6, <3>1, <3>2, <3>4
  <2> QED BY <1>1, <2>1, <2>2
<1>9. NothingBeyond'
  <2> SUFFICES ASSUME cmd.clean, cmd.ret = "ok", ~WholeImport
               PROVE  /\ \A b \in marked' : \E f \in live' : \E s \in Slot : BlockAt(f, s)' = b
                      /\ \A f \in live' : \A i \in LogBlock : BlockAt(f, i)' # 0 => i < Extent(f)'
    BY <1>1, <1>3, <1>5 DEF NothingBeyond
  <2>1. /\ \A b \in marked : \E f \in live : \E s \in Slot : BlockAt(f, s) = b
        /\ \A f \in live : \A i \in LogBlock : BlockAt(f, i) # 0 => i < Extent(f)
    BY <1>2 DEF CInv, NothingBeyond
  <2>2. Extent(g) = IF cmd.next > BlocksOf(inode[g].size) THEN cmd.next ELSE BlocksOf(inode[g].size)
    BY <1>1, <1>2 DEF Extent
  <2>3. Extent(g)' = IF InLoop' /\ cmd'.next > BlocksOf(inode'[g].size) THEN cmd'.next
                     ELSE BlocksOf(inode'[g].size)
    BY <1>3 DEF Extent, BlocksOf
  <2>4. CASE Continues(g)
    <3>1. InLoop' /\ cmd'.next = cmd.next + 1 /\ inode'[g].size = inode[g].size
      BY <1>2, <2>4 DEF Continues, InLoop
    <3> QED BY <1>1, <1>2, <1>3, <1>4, <2>1, <2>2, <2>3, <3>1, AddsKeepsWithin DEF CInv
  <2>5. CASE Completes(g)
    <3>1. /\ inode[g].size <= inode'[g].size /\ cmd.start + cmd.size <= inode'[g].size
          /\ InLoop' => cmd'.next = cmd.next + 1
      BY <1>2, <2>5 DEF Completes, InLoop
    <3>2. BlocksOf(inode[g].size) <= BlocksOf(inode'[g].size)
      BY <1>2, <1>4, <3>1, BlocksOfMonotone
    <3>3. cmd.next + 1 <= BlocksOf(inode'[g].size)
      BY <1>2, <1>4, <1>6, <1>7, <3>1, BlocksOfReaches
    <3>4. Extent(g) <= Extent(g)' /\ cmd.next + 1 <= Extent(g)' /\ Extent(g)' \in Nat
            /\ Extent(g) \in Nat
      BY <1>2, <1>4, <2>2, <2>3, <3>1, <3>2, <3>3
    <3> QED BY <1>1, <1>2, <1>3, <2>1, <3>4, AddsKeepsWithin DEF CInv
  <2> QED BY <1>1, <2>4, <2>5
<1>10. SinceStart'
  <2> SUFFICES ASSUME cmd.op = "owrite", cmd.was.tight
               PROVE  SinceStart'
    BY <1>3 DEF SinceStart
  <2>1. PICK w : w = cmd.was
    OBVIOUS
  <2>2. cmd.pc = "classic"
    BY <1>2 DEF InLoop
  <2>3. IsSnapshot(w) /\ cmd.ret = "ok" /\ inode[g].size = w.size /\ GrownSince(g, w, cmd.next)
    BY <1>1, <1>2, <2>1, <2>2 DEF CInv, SinceStart
  <2>4. IsSnapshot(w)'
    BY <2>3 DEF IsSnapshot, BlocksOf
  <2>5. CASE Continues(g)
    <3>1. cmd'.pc = "classic" /\ cmd'.next = cmd.next + 1 /\ inode'[g].size = inode[g].size
      BY <2>2, <2>5 DEF Continues
    <3>2. PICK l \in Nat : l = cmd.next + 1
      BY <1>2
    <3>3. PICK k \in Nat : k = cmd.next
      BY <1>2
    <3>4. ASSUME NEW i \in LogBlock, BlockAt(g, i)' # BlockAt(g, i)  PROVE i < l
      <4>1. i \in Slot /\ i # IndSlot
        BY SlotIs
      <4>2. i = cmd.next
        BY <1>1, <3>4, <4>1 DEF Adds
      <4> QED BY <1>2, <3>2, <4>2
    <3>5. GrownSince(g, w, l)'
      BY <1>1, <2>3, <3>2, <3>3, <3>4, GrowsOn DEF CInv
    <3> QED BY <1>1, <1>3, <2>1, <2>3, <2>4, <3>1, <3>2, <3>5 DEF SinceStart
  <2>6. CASE Completes(g)
    <3>1. cmd'.pc = "truncate" /\ cmd'.ret = "ok"
      BY <1>1, <2>3, <2>6 DEF Completes
    <3> QED BY <1>3, <2>1, <2>4, <3>1 DEF SinceStart
  <2> QED BY <1>1, <2>5, <2>6
<1> QED BY <1>8, <1>9, <1>10

LEMMA GivesUpKeeps ==
  ASSUME CInv, IInv', At("classic"), GivesUp
  PROVE  Ahead' /\ NothingBeyond' /\ SinceStart'
<1>1. PICK g \in live :
        /\ g = cmd.f /\ Adds(g) /\ SameCall(cmd') /\ cmd'.ret # "ok"
        /\ \A i \in LogBlock : BlockAt(g, i)' = BlockAt(g, i)
        /\ cmd'.pc = "truncate" /\ cmd'.to = inode[g].size
        /\ inode'[g].size = IF inode[g].size >= cmd.next * BlockSize THEN inode[g].size
                            ELSE cmd.next * BlockSize
  BY DEF GivesUp
<1>2. /\ cmd # Idle /\ cmd.pc = "classic" /\ g \in File
      /\ cmd.next \in Nat /\ inode[g].size \in Nat
  BY <1>1, InTheLoop DEF CInv, At
<1>3. /\ cmd' # Idle /\ cmd'.op = cmd.op /\ cmd'.f = g /\ cmd'.was = cmd.was
  BY <1>1 DEF SameCall, IsCommand, Idle
<1>4. Ahead' /\ NothingBeyond'
  BY <1>1 DEF Ahead, NothingBeyond, InLoop
<1>5. SinceStart'
  <2> SUFFICES ASSUME cmd.op = "owrite", cmd.was.tight
               PROVE  SinceStart'
    BY <1>3 DEF SinceStart
  <2>1. PICK w : w = cmd.was
    OBVIOUS
  <2>2. IsSnapshot(w) /\ inode[g].size = w.size /\ GrownSince(g, w, cmd.next)
    BY <1>1, <1>2, <2>1 DEF CInv, SinceStart
  <2>3. IsSnapshot(w)'
    BY <2>2 DEF IsSnapshot, BlocksOf
  <2>4. cmd.next * BlockSize \in Nat
    BY <1>2, Times
  <2>5. PICK n \in Nat : n = inode'[g].size
    BY <1>1, <1>2, <2>4
  <2>6. n >= w.size /\ cmd.next * BlockSize <= n
    BY <1>1, <1>2, <2>2, <2>4, <2>5
  <2>7. PICK k \in Nat : k = cmd.next
    BY <1>2
  <2>8. PICK l \in Nat : l = BlocksOf(n)
    BY <2>5, BlocksOfCounts
  <2>9. k <= l
    BY <2>5, <2>6, <2>7, <2>8, BlocksOfReaches
  <2>10. GrownSince(g, w, l)'
    BY <1>1, <2>2, <2>7, <2>8, <2>9, GrowsOn DEF CInv
  <2>11. EndCut' = l
    BY <1>3, <2>5, <2>8 DEF EndCut, BlocksOf
  <2> QED BY <1>1, <1>3, <2>1, <2>2, <2>3, <2>5, <2>6, <2>10, <2>11 DEF SinceStart
<1> QED BY <1>4, <1>5

-----------------------------------------------------------------------------
(***************************************************************************)
(* Truncation.                                                             *)
(***************************************************************************)

\* What has grown by nothing below the size it had is as it was.
LEMMA GrownIsBefore ==
  ASSUME NEW g, NEW w, IsSnapshot(w), GrownSince(g, w, BlocksOf(w.size)),
         marked \subseteq Block, inode[g].size = w.size
  PROVE  AsBefore(g, w)
<1>1. 0 \notin Block
  BY BlockMapAssumption DEF Block
<1>2. \A i \in LogBlock : BlockAt(g, i) = w.phy[i]
  BY DEF GrownSince, IsSnapshot
<1>3. \A b \in marked \ w.marked : b = BlockAt(g, IndSlot)
  BY <1>1, <1>2 DEF GrownSince
<1>4. marked \ {BlockAt(g, IndSlot)} = w.marked \ {w.ind}
  BY <1>1, <1>3 DEF GrownSince, IsSnapshot
<1> QED BY <1>2, <1>4 DEF AsBefore

LEMMA TruncateNothingStill ==
  ASSUME CInv, IInv', TruncateNothing
  PROVE  Ahead' /\ NothingBeyond' /\ SinceStart'
<1>1. /\ At("truncate") /\ inode[cmd.f].size <= cmd.to /\ cmd' = AfterTruncate
      /\ UNCHANGED <<marked, live, inode, table, flags, cache, aborted>>
  BY DEF TruncateNothing
<1>2. PICK g \in live : g = cmd.f
  BY <1>1, TruncateStarts DEF CInv
<1>3. /\ cmd # Idle /\ cmd.pc = "truncate" /\ cmd.to \in Nat /\ inode[g].size \in Nat
      /\ marked \subseteq Block
  BY <1>1, <1>2, TruncateStarts DEF CInv
<1>4. /\ SameCall(cmd') /\ cmd'.pc \in {"remove", "sync"} /\ cmd'.ret = cmd.ret
  BY <1>1, AfterTruncateFields DEF CInv
<1>5. /\ cmd' # Idle /\ cmd'.op = cmd.op /\ cmd'.f = g /\ cmd'.was = cmd.was
      /\ cmd'.clean = cmd.clean /\ cmd'.total = cmd.total
  BY <1>2, <1>4 DEF SameCall, IsCommand, Idle
<1>6. \A h, s : BlockAt(h, s)' = BlockAt(h, s)
  BY <1>1, <1>2, <1>5 DEF BlockAt, Entry
<1>7. Ahead'
  BY <1>4 DEF Ahead, InLoop
<1>8. NothingBeyond'
  <2>1. \A h : Extent(h)' = Extent(h)
    BY <1>1, <1>3, <1>4 DEF Extent, InLoop, BlocksOf
  <2> QED BY <1>1, <1>3, <1>4, <1>5, <1>6, <2>1 DEF CInv, NothingBeyond, WholeImport
<1>9. SinceStart'
  <2> SUFFICES ASSUME cmd.op = "owrite", cmd.was.tight
               PROVE  SinceStart'
    BY <1>5 DEF SinceStart
  <2>1. PICK w : w = cmd.was
    OBVIOUS
  <2>2. IsSnapshot(w)
    BY <1>3, <2>1 DEF CInv, SinceStart
  <2>3. IsSnapshot(w)'
    BY <2>2 DEF IsSnapshot, BlocksOf
  <2>4. ASSUME cmd.ret # "ok"  PROVE AsBefore(g, w)'
    <3>1. cmd.to = w.size /\ inode[g].size >= w.size /\ GrownSince(g, w, EndCut)
      BY <1>2, <1>3, <2>1, <2>4 DEF CInv, SinceStart
    <3>2. inode[g].size = w.size
      BY <1>1, <1>2, <1>3, <3>1
    <3>3. EndCut = BlocksOf(w.size)
      BY <1>2, <3>2 DEF EndCut
    <3>4. AsBefore(g, w)
      BY <1>3, <2>2, <3>1, <3>2, <3>3, GrownIsBefore
    <3> QED BY <1>1, <1>6, <3>4 DEF AsBefore
  <2> QED BY <1>4, <1>5, <2>1, <2>3, <2>4 DEF SinceStart
<1> QED BY <1>7, <1>8, <1>9

\* A rollback cuts what the write has added, and nothing else.
LEMMA CutsBack ==
  ASSUME IInv, IInv', NEW g \in live, Gives(g), NEW w, IsSnapshot(w),
         GrownSince(g, w, EndCut), EndCut \in Nat,
         inode'[g].size = w.size,
         \A i \in LogBlock :
           /\ i < BlocksOf(w.size) => BlockAt(g, i)' = BlockAt(g, i)
           /\ BlocksOf(w.size) <= i /\ i < EndCut => BlockAt(g, i)' = 0,
         \A s \in Slot :
           BlockAt(g, s)' # BlockAt(g, s) /\ (s = IndSlot \/ s < EndCut)
             => BlockAt(g, s) \notin marked'
  PROVE  AsBefore(g, w)'
<1>1. /\ 0 \notin Block /\ marked \subseteq Block /\ LogBlock \subseteq Slot /\ IndSlot \in Slot
      /\ \A s \in Slot : s # IndSlot => s \in LogBlock
  BY SlotIs, BlockMapAssumption DEF Block, IInv, Types, TypeOK
<1>2. /\ marked' \subseteq marked
      /\ \A s \in Slot : BlockAt(g, s)' \in {0, BlockAt(g, s)}
      /\ \A b \in marked \ marked' :
           b \in Refs(g) /\ \A s \in Slot : BlockAt(g, s)' # b
  BY DEF Gives
<1>3. w.size \in Nat /\ BlocksOf(w.size) \in Nat
  BY BlocksOfCounts DEF IsSnapshot
<1>4. ASSUME NEW i \in LogBlock  PROVE BlockAt(g, i)' = w.phy[i]
  <2>1. CASE i < BlocksOf(w.size)
    BY <2>1 DEF IsSnapshot, GrownSince
  <2>2. CASE ~(i < BlocksOf(w.size))
    <3>1. w.phy[i] = 0 /\ i \in Nat /\ BlocksOf(w.size) <= i
      <4>1. w.phy[i] = 0
        BY <2>2 DEF IsSnapshot
      <4>2. i \in Nat
        BY SlotIs
      <4> QED BY <1>3, <2>2, <4>1, <4>2
    <3>2. CASE i < EndCut
      BY <3>1, <3>2
    <3>3. CASE ~(i < EndCut)
      <4>1. BlockAt(g, i) = 0
        BY <3>1, <3>3 DEF GrownSince
      <4> QED BY <1>1, <1>2, <3>1, <4>1
    <3> QED BY <3>2, <3>3
  <2> QED BY <2>1, <2>2
<1>5. /\ w.marked \subseteq marked /\ w.marked \subseteq Block
      /\ \/ BlockAt(g, IndSlot) = w.ind
         \/ w.ind = 0 /\ BlockAt(g, IndSlot) \notin w.marked
  BY DEF GrownSince, IsSnapshot
<1>6. ASSUME NEW b \in marked', b # BlockAt(g, IndSlot)'
      PROVE  b \in w.marked /\ b # w.ind
  <2>1. b \in marked /\ b # 0
    BY <1>1, <1>2
  <2>2. b # BlockAt(g, IndSlot)
    BY <1>1, <1>6
  <2>3. b \in w.marked
    <3> SUFFICES ASSUME b \notin w.marked PROVE FALSE
      OBVIOUS
    <3>1. PICK i \in LogBlock : w.phy[i] = 0 /\ BlockAt(g, i) = b
      BY <2>1, <2>2 DEF GrownSince
    <3>2. i < EndCut
      BY <2>1, <3>1 DEF GrownSince
    <3>3. BlockAt(g, i)' # BlockAt(g, i)
      BY <1>4, <2>1, <3>1
    <3> QED BY <1>1, <1>6, <3>1, <3>2, <3>3
  <2> QED BY <1>5, <2>1, <2>2, <2>3
<1>7. ASSUME NEW b \in w.marked, b # w.ind
      PROVE  b \in marked' /\ b # BlockAt(g, IndSlot)'
  <2>1. b \in marked /\ b # 0
    BY <1>1, <1>5
  <2>2. b # BlockAt(g, IndSlot)
    BY <1>5, <1>7
  <2>3. b \in marked'
    <3> SUFFICES ASSUME b \notin marked' PROVE FALSE
      OBVIOUS
    <3>1. b \in Refs(g) /\ \A s \in Slot : BlockAt(g, s)' # b
      BY <1>2, <2>1
    <3>2. PICK s \in Slot : BlockAt(g, s) = b
      BY <3>1 DEF Refs
    <3>3. s \in LogBlock
      BY <1>1, <2>2, <3>2
    <3>4. BlockAt(g, s) = w.phy[s]
      BY <3>2, <3>3 DEF GrownSince
    <3> QED BY <1>4, <3>1, <3>2, <3>3, <3>4
  <2>4. BlockAt(g, IndSlot)' \in {0, BlockAt(g, IndSlot)}
    BY <1>1, <1>2
  <2> QED BY <2>1, <2>2, <2>3, <2>4
<1>8. (marked \ {BlockAt(g, IndSlot)})' = w.marked \ {w.ind}
  BY <1>6, <1>7
<1> QED BY <1>4, <1>8 DEF AsBefore

LEMMA CutsKeeps ==
  ASSUME CInv, IInv', At("truncate"), Cuts
  PROVE  Ahead' /\ NothingBeyond' /\ SinceStart'
<1>1. PICK g \in live :
        /\ g = cmd.f /\ Gives(g) /\ live' = live /\ \A f \in File \ {g} : inode'[f] = inode[f]
        /\ SameCall(cmd') /\ cmd'.ret = cmd.ret /\ cmd'.pc \in {"remove", "sync"}
        /\ inode'[g].size = cmd.to
        /\ \A i \in LogBlock :
             /\ i < FirstCut => BlockAt(g, i)' = BlockAt(g, i)
             /\ FirstCut <= i /\ i < EndCut => BlockAt(g, i)' = 0
        /\ \A s \in Slot :
             BlockAt(g, s)' # BlockAt(g, s) /\ (s = IndSlot \/ s < EndCut)
               => BlockAt(g, s) \notin marked'
  BY DEF Cuts
<1>2. /\ cmd # Idle /\ cmd.pc = "truncate" /\ cmd.to \in Nat /\ g \in File
      /\ marked \subseteq Block /\ live \subseteq File
      /\ FirstCut \in Nat /\ EndCut \in Nat
  BY <1>1, TruncateStarts, CutIs DEF CInv
<1>3. /\ cmd' # Idle /\ cmd'.op = cmd.op /\ cmd'.f = g /\ cmd'.was = cmd.was
      /\ cmd'.clean = cmd.clean /\ cmd'.total = cmd.total
  BY <1>1 DEF SameCall, IsCommand, Idle
<1>4. /\ 0 \notin Block /\ LogBlock \subseteq Slot /\ LogBlock \subseteq Nat
      /\ \A s \in Slot : s # IndSlot => s \in LogBlock
  <2>1. LogBlock \subseteq Slot /\ Slot \subseteq Nat /\ \A s \in Slot : s # IndSlot => s \in LogBlock
    BY SlotIs
  <2>2. 0 \notin Block
    BY BlockMapAssumption DEF Block
  <2> QED BY <2>1, <2>2
<1>5. Ahead'
  BY <1>1 DEF Ahead, InLoop
<1>6. NothingBeyond'
  <2> SUFFICES ASSUME cmd.clean, cmd.ret = "ok", ~WholeImport
               PROVE  /\ \A b \in marked' : \E f \in live' : \E s \in Slot : BlockAt(f, s)' = b
                      /\ \A f \in live' : \A i \in LogBlock : BlockAt(f, i)' # 0 => i < Extent(f)'
    BY <1>1, <1>3 DEF NothingBeyond, WholeImport
  <2>1. /\ \A b \in marked : \E f \in live : \E s \in Slot : BlockAt(f, s) = b
        /\ \A f \in live : \A i \in LogBlock : BlockAt(f, i) # 0 => i < Extent(f)
    BY <1>2 DEF CInv, NothingBeyond
  <2>2. Extent(g) = EndCut /\ Extent(g)' = FirstCut
    BY <1>1, <1>2 DEF Extent, InLoop, EndCut, FirstCut, BlocksOf
  <2>3. \A f \in live : f # g => Extent(f)' = Extent(f)
    BY <1>1, <1>2 DEF Extent, InLoop, BlocksOf
  <2>4. /\ \A f \in live : f # g => \A s \in Slot : BlockAt(f, s)' = BlockAt(f, s)
        /\ \A s \in Slot : BlockAt(g, s)' \in {0, BlockAt(g, s)}
        /\ marked' \subseteq marked
    BY <1>1, <1>2 DEF Gives
  <2>5. ASSUME NEW b \in marked'  PROVE \E f \in live' : \E s \in Slot : BlockAt(f, s)' = b
    <3>1. PICK f \in live, s \in Slot : BlockAt(f, s) = b
      BY <2>1, <2>4
    <3>2. b # 0
      BY <1>2, <1>4, <2>4
    <3>3. CASE f # g
      BY <1>1, <2>4, <3>1, <3>3
    <3>4. CASE f = g
      <4>1. s = IndSlot \/ s < EndCut
        BY <1>4, <2>1, <2>2, <3>1, <3>2, <3>4
      <4>2. BlockAt(g, s)' = b
        BY <1>1, <3>1, <3>4, <4>1
      <4> QED BY <1>1, <4>2
    <3> QED BY <3>3, <3>4
  <2>6. ASSUME NEW f \in live, NEW i \in LogBlock, BlockAt(f, i)' # 0  PROVE i < Extent(f)'
    <3>1. CASE f # g
      BY <1>4, <2>1, <2>3, <2>4, <2>6, <3>1
    <3>2. CASE f = g
      <4>1. BlockAt(g, i) # 0
        BY <1>4, <2>4, <2>6, <3>2
      <4>2. i < EndCut /\ i \in Nat
        BY <1>4, <2>1, <2>2, <4>1
      <4>3. ~(FirstCut <= i)
        BY <1>1, <2>6, <3>2, <4>2
      <4> QED BY <1>2, <2>2, <3>2, <4>2, <4>3
    <3> QED BY <3>1, <3>2
  <2> QED BY <1>1, <2>5, <2>6
<1>7. SinceStart'
  <2> SUFFICES ASSUME cmd.op = "owrite", cmd.was.tight
               PROVE  SinceStart'
    BY <1>3 DEF SinceStart
  <2>1. PICK w : w = cmd.was
    OBVIOUS
  <2>2. IsSnapshot(w)
    BY <1>2, <2>1 DEF CInv, SinceStart
  <2>3. IsSnapshot(w)'
    BY <2>2 DEF IsSnapshot, BlocksOf
  <2>4. ASSUME cmd.ret # "ok"  PROVE AsBefore(g, w)'
    <3>1. cmd.to = w.size /\ GrownSince(g, w, EndCut)
      BY <1>1, <1>2, <2>1, <2>4 DEF CInv, SinceStart
    <3>2. FirstCut = BlocksOf(w.size)
      BY <3>1 DEF FirstCut
    <3> QED BY <1>1, <1>2, <2>2, <3>1, <3>2, CutsBack DEF CInv
  <2> QED BY <1>1, <1>3, <2>1, <2>3, <2>4 DEF SinceStart
<1> QED BY <1>5, <1>6, <1>7

-----------------------------------------------------------------------------
(***************************************************************************)
(* The theorems.                                                           *)
(***************************************************************************)
LEMMA CleanInit == Init => CInv
<1> SUFFICES ASSUME Init PROVE CInv
  OBVIOUS
<1>1. IInv /\ cmd = Idle
  BY InitHolds DEF Init
<1> QED BY <1>1 DEF CInv, Ahead, NothingBeyond, SinceStart

LEMMA CleanStep ==
  ASSUME CInv, IInv', [Next]_vars
  PROVE  Ahead' /\ NothingBeyond' /\ SinceStart'
<1>1. IInv /\ Ahead /\ NothingBeyond /\ SinceStart
  BY DEF CInv
<1>2. CASE UNCHANGED vars
  BY <1>1, <1>2, AbortIsStill DEF vars
<1>3. CASE Aborts
  BY <1>1, <1>3, AbortIsStill DEF Aborts, Abort
<1>4. CASE Start /\ ~Aborts
  <2>1. PICK f \in File :
          \/ Create(f) \/ CmdRm(f) \/ CmdCat(f)
          \/ \E n \in Sizes \ {0} : CmdWrite(f, n)
          \/ \E n \in Sizes \ {0}, off \in Sizes \cup {0} : CmdOwrite(f, off, n)
          \/ \E n \in Sizes \cup {0} : CmdImport(f, n)
    BY <1>4 DEF Start
  <2>2. CASE Create(f)
    BY <2>2, EndsKeeps DEF Create
  <2>3. CASE CmdCat(f)
    BY <1>2, <1>4, <2>3 DEF CmdCat, Aborts
  <2> QED BY <1>1, <1>4, <2>1, <2>2, <2>3, CmdRmBegins, CmdWriteBegins, CmdOwriteBegins,
             CmdImportBegins
<1>5. CASE CmdCheckfs
  BY <1>2, <1>3, <1>5 DEF CmdCheckfs, Aborts
<1>6. CASE AltStep
  <2>1. CASE AltNoSpace \/ AltHalfway
    <3>1. /\ At("alternate") /\ cmd' = [cmd EXCEPT !.pc = "sync", !.ret = "ENOSPC"]
      BY <2>1 DEF AltNoSpace, AltHalfway, AltFail
    <3>2. IsCommand(cmd) /\ cmd.op = "write"
      BY <1>1, <3>1, InTheLoop DEF At
    <3>3. cmd'.op = "write" /\ cmd'.pc = "sync" /\ cmd'.ret = "ENOSPC"
      BY <3>1, <3>2, PcFields DEF SameCall
    <3> QED BY <3>3, EndsKeeps
  <2>2. CASE AltReuse \/ AltDirect \/ AltIndirect \/ AltFirstIndirect
    <3>1. At("alternate") /\ (Iterates \/ Aborts)
      BY <1>1, <2>2, AltReuseKeeps, AltDirectKeeps, AltIndirectKeeps, AltFirstIndirectKeeps
         DEF AltReuse, AltDirect, AltIndirect, AltFirstIndirect
    <3> QED BY <1>3, <3>1, IteratesKeeps
  <2> QED BY <1>6, <2>1, <2>2 DEF AltStep
<1>7. CASE WriteStep
  <2>1. At("classic")
    BY <1>7 DEF WriteStep, Reuse, AllocDirect, AllocIndirect, AllocFirstIndirect,
                WriteTooBig, WriteNoSpace, WriteHalfway
  <2>2. Iterates \/ Aborts \/ GivesUp
    BY <1>1, <1>7, ReuseKeeps, AllocDirectKeeps, AllocIndirectKeeps, AllocFirstIndirectKeeps,
       WriteFailsKeeps, WriteHalfwayKeeps DEF WriteStep
  <2> QED BY <1>3, <2>1, <2>2, IteratesKeeps, GivesUpKeeps
<1>8. CASE Truncate
  <2>1. CASE TruncateNothing
    BY <2>1, TruncateNothingStill
  <2>2. CASE TruncateAsserts
    BY <1>3, <2>2 DEF TruncateAsserts, Aborts
  <2>3. CASE TruncateBlocks
    <3>1. At("truncate") /\ Cuts
      BY <1>1, <2>3, TruncateBlocksKeeps DEF TruncateBlocks, Truncating
    <3> QED BY <3>1, CutsKeeps
  <2> QED BY <1>8, <2>1, <2>2, <2>3 DEF Truncate
<1>9. CASE Sync \/ Remove
  <2>1. cmd' = Idle \/ Aborts
    BY <1>9 DEF Sync, Remove, Aborts
  <2> QED BY <1>3, <2>1, EndsKeeps
<1> QED BY <1>2, <1>3, <1>4, <1>5, <1>6, <1>7, <1>8, <1>9 DEF Next

LEMMA CleanInvariance == Spec => []CInv
<1>1. CInv /\ [Next]_vars => CInv'
  BY NextKeeps, CleanStep DEF CInv
<1> QED BY <1>1, CleanInit, PTL DEF Spec

\* An owrite that fails on a file with exactly the blocks of its size - no
\* block is left, or the file would be too big - leaves the size and every
\* mapping of the file, and the freemap, as they were: taking what was written
\* into the size and truncating back gives back every block it took.
THEOREM FailedWriteAlways == Spec => []FailedWriteRollsBack
<1>1. ASSUME CInv, At("sync"), cmd.op = "owrite", cmd.ret # "ok", cmd.was.tight
      PROVE  /\ inode[cmd.f].size = cmd.was.size
             /\ \A i \in LogBlock : PhyOnDisk(cmd.f, i) = cmd.was.phy[i]
             /\ marked \ {inode[cmd.f].ind} = cmd.was.marked \ {cmd.was.ind}
  <2>1. cmd # Idle /\ cmd.pc = "sync" /\ cmd.f \in File
    BY <1>1, NotIdle DEF CInv, IInv
  <2>2. AsBefore(cmd.f, cmd.was)
    BY <1>1, <2>1 DEF CInv, SinceStart
  <2>3. "INDIRECT_DIRTY" \notin flags
    BY <1>1 DEF CInv, IInv, Cached, IndDirty, CacheIsNewer
  <2>4. BlockAt(cmd.f, IndSlot) = inode[cmd.f].ind
    BY DEF BlockAt
  <2> QED BY <2>1, <2>2, <2>3, <2>4, OnDiskIsBlockAt DEF AsBefore
<1>2. CInv => FailedWriteRollsBack
  BY <1>1 DEF FailedWriteRollsBack
<1> QED BY <1>2, CleanInvariance, PTL

\* A write, owrite, import or rm that succeeds on a clean volume leaves the
\* freemap with exactly the blocks files reference, and every file with
\* exactly the blocks of its size: no block is lost, none is left behind a
\* truncation.
THEOREM CheckfsCleanAlways == Spec => []CheckfsClean
<1>1. ASSUME CInv, At("sync") \/ At("remove"), cmd.clean, cmd.ret = "ok",
             ~(cmd.op = "import" /\ cmd.total % BlockSize = 0)
      PROVE  Clean
  <2>1. cmd # Idle /\ ~InLoop /\ live \subseteq File
    BY <1>1, NotIdle DEF CInv, IInv, At, InLoop, Types, TypeOK
  <2>2. /\ \A b \in marked : \E f \in live : \E s \in Slot : BlockAt(f, s) = b
        /\ \A f \in live : \A i \in LogBlock : BlockAt(f, i) # 0 => i < Extent(f)
    BY <1>1, <2>1 DEF CInv, NothingBeyond, WholeImport
  <2>3. marked = UNION {Refs(f) : f \in live}
    <3>1. 0 \notin marked
      BY <1>1, BlockMapAssumption DEF CInv, IInv, Types, TypeOK, Block
    <3>2. ASSUME NEW b \in marked  PROVE b \in UNION {Refs(f) : f \in live}
      <4>1. PICK f \in live, s \in Slot : BlockAt(f, s) = b
        BY <2>2
      <4>2. b \in Refs(f)
        BY <3>1, <4>1 DEF Refs
      <4> QED BY <4>2
    <3>3. \A f \in live : Refs(f) \subseteq marked
      BY <1>1, <2>1 DEF CInv, IInv, Volume, RefsMarked
    <3> QED BY <3>2, <3>3
  <2>4. ASSUME NEW f \in live  PROVE Fits(f)
    <3>1. inode[f].size \in Nat
      BY <1>1, <2>1 DEF CInv, IInv, Types, TypeOK, Dinode
    <3>2. PICK n \in Nat : n = BlocksOf(inode[f].size)
      BY <3>1, BlocksOfCounts
    <3>3. Extent(f) = n
      BY <2>1, <3>2 DEF Extent
    <3>4. ASSUME NEW i \in 0 .. n - 1  PROVE i \in LogBlock /\ BlockAt(f, i) # 0
      <4>1. i \in Nat /\ i < n
        BY <3>2
      <4>2. i * BlockSize < inode[f].size
        BY <3>1, <3>2, <4>1, BlocksOfCounts
      <4> QED BY <1>1, <4>1, <4>2 DEF CInv, IInv, Volume, NothingMissing, Whole
    <3>5. ASSUME NEW i \in LogBlock, BlockAt(f, i) # 0  PROVE i \in 0 .. n - 1
      <4>1. i < n /\ i \in Nat
        BY <2>2, <3>3, <3>5, SlotIs
      <4> QED BY <3>2, <4>1
    <3>6. {i \in LogBlock : BlockAt(f, i) # 0} = 0 .. n - 1
      BY <3>4, <3>5
    <3> QED BY <3>2, <3>6 DEF Fits
  <2> QED BY <2>3, <2>4 DEF Clean
<1>2. CInv => CheckfsClean
  BY <1>1 DEF CheckfsClean
<1> QED BY <1>2, CleanInvariance, PTL
=============================================================================
