------------------------------ MODULE BlockMap ------------------------------
(***************************************************************************)
(* Which device block holds which logical block of which file, and the     *)
(* block freemap: src/src/inode.c, src/src/inode_alternate_*.c, the        *)
(* allocator of src/src/super.c, and the commands of src/src/file.c and    *)
(* src/src/dir.c that change them.                                         *)
(*                                                                         *)
(* One command runs at a time, on the main reactor.  cmd holds where it is *)
(* and its local variables; an iteration of a write loop is one step, and  *)
(* so is a truncation.  Two write paths are in the code: the classic one   *)
(* (testfs_write_data), which reads and writes the indirect block on the   *)
(* device each time, and the alternate one (testfs_write_data_alternate_   *)
(* async), which works on a cached copy, in->indirect, that only           *)
(* testfs_sync_inode writes back.                                          *)
(*                                                                         *)
(* A failed assertion ends the program: aborted then names it, and nothing *)
(* happens any more.  File contents, directories, the inode freemap and    *)
(* what is on the device when the program stops are not in this module.    *)
(***************************************************************************)
EXTENDS Integers, FiniteSetsExt

CONSTANTS
  BlockSize,  \* BLOCK_SIZE, in bytes
  NDirect,    \* NR_DIRECT_BLOCKS
  NIndirect,  \* NR_INDIRECT_BLOCKS
  NBits,      \* bits of the block freemap
  NCsums,     \* MAX_NR_CSUMS
  File,       \* the inodes commands may name
  Ops,        \* the commands that may be given
  Sizes       \* bound: the offsets and sizes a command may name

ASSUME BlockMapAssumption ==
  /\ BlockSize \in Nat \ {0}
  /\ NDirect \in Nat \ {0} /\ NIndirect \in Nat \ {0}
  /\ NBits \in Nat /\ NCsums \in Nat /\ Sizes \subseteq Nat
  /\ Ops \subseteq {"write", "owrite", "import", "rm", "cat", "checkfs"}

VARIABLES
  marked,    \* the block freemap in memory, as the set of blocks in use
  live,      \* the files that exist
  inode,     \* the dinode of each file
  table,     \* each block of the device, read as an indirect block
  flags,     \* in->i_flags of the inode the command works on
  cache,     \* its in->indirect
  cmd,       \* the command under way
  aborted    \* the assertion that failed, or "none"

vars == <<marked, live, inode, table, flags, cache, cmd, aborted>>

\* Block b is the data block of bit b - 1; 0 stands for "not mapped".
Block    == 1 .. NBits
BlockPtr == 0 .. NBits
Table    == [0 .. NIndirect - 1 -> BlockPtr]
Dinode   == [size: Nat, direct: [0 .. NDirect - 1 -> BlockPtr], ind: BlockPtr]

NoEntries   == [i \in 0 .. NIndirect - 1 |-> 0]
EmptyDinode == [size |-> 0, direct |-> [i \in 0 .. NDirect - 1 |-> 0], ind |-> 0]
Idle        == [pc |-> "idle"]

AllFlags == {"DIRTY", "INDIRECT_DIRTY", "INDIRECT_LOADED"}

LogBlock == 0 .. NDirect + NIndirect - 1

\* DIVROUNDUP(n, BLOCK_SIZE)
BlocksOf(n) == (n + BlockSize - 1) \div BlockSize

TypeOK ==
  /\ marked \subseteq Block
  /\ live \subseteq File
  /\ inode \in [File -> Dinode]
  /\ table \in [Block -> Table]
  /\ flags \subseteq AllFlags
  /\ cache \in Table
  /\ cmd.pc \in {"idle", "alternate", "classic", "truncate", "remove", "sync"}
  /\ aborted \in {"none", "inode.c:210", "inode.c:293", "inode.c:323",
                  "inode.c:367", "inode.c:378", "inode.c:382", "inode.c:394",
                  "csum.c:58", "csum.c:83", "csum.c:97", "bitmap.c:117",
                  "super.c:253"}

Init ==
  /\ marked = {} /\ live = {}
  /\ inode = [f \in File |-> EmptyDinode]
  /\ table = [b \in Block |-> NoEntries]
  /\ flags = {} /\ cache = NoEntries
  /\ cmd = Idle /\ aborted = "none"

-----------------------------------------------------------------------------
(***************************************************************************)
(* The mapping.                                                            *)
(***************************************************************************)

\* What testfs_get_block finds: the indirect block is read from the device.
PhyOnDisk(f, i) ==
  IF i < NDirect THEN inode[f].direct[i]
  ELSE IF inode[f].ind = 0 THEN 0 ELSE table[inode[f].ind][i - NDirect]

\* Mutated: the indirect block is marked as loaded and never read.
LoadedNever(f) == cache

\* in->indirect after testfs_ensure_indirect_loaded.
Loaded(f) == IF "INDIRECT_LOADED" \in flags THEN cache ELSE table[inode[f].ind]

\* testfs_inode_log_to_phy, on the inode the command works on.
LogToPhy(f, i) ==
  IF i < NDirect THEN inode[f].direct[i]
  ELSE IF inode[f].ind = 0 THEN 0 ELSE Loaded(f)[i - NDirect]

\* The cache and the flags after looking up logical block i.
LoadsIndirect(f, i) == i >= NDirect /\ inode[f].ind # 0
CacheAfter(f, i) == IF LoadsIndirect(f, i) THEN Loaded(f) ELSE cache
FlagsAfter(f, i) ==
  IF LoadsIndirect(f, i) THEN flags \cup {"INDIRECT_LOADED"} ELSE flags

Mapped(in, i, b) == [in EXCEPT !.direct[i] = b]

\* Mutated: the scan goes one bit too far.
FirstClearTooFar(m) == Min((1 .. NBits + 1) \ m)

\* bitmap_alloc: the lowest clear bit, 0 for -ENOSPC (Bitmap).
FirstClear(m) == IF m = Block THEN 0 ELSE Min(Block \ m)

TooBig(i) == i >= NDirect + NIndirect

\* The places a block can be referenced from: every logical block of a file,
\* and, numbered after them, its indirect pointer.  An entry of the indirect
\* block is what the next sync will leave on the device.
IndSlot == NDirect + NIndirect
Slot    == 0 .. IndSlot

Entry(f, j) ==
  IF inode[f].ind = 0 THEN 0
  ELSE IF "INDIRECT_DIRTY" \in flags /\ cmd.f = f THEN cache[j]
  ELSE table[inode[f].ind][j]

BlockAt(f, s) ==
  IF s = IndSlot THEN inode[f].ind
  ELSE IF s < NDirect THEN inode[f].direct[s] ELSE Entry(f, s - NDirect)

Refs(f) == {BlockAt(f, s) : s \in Slot} \ {0}

\* File f has exactly the blocks of its size.
Fits(f) == {i \in LogBlock : BlockAt(f, i) # 0} = 0 .. BlocksOf(inode[f].size) - 1

\* The freemap has exactly the blocks files reference, and every file fits its
\* size: checkfs finds nothing to say.  (It walks a file up to the first block
\* that is not mapped; one behind that makes it call the freemap inconsistent.)
Clean == marked = UNION {Refs(f) : f \in live} /\ \A f \in live : Fits(f)

-----------------------------------------------------------------------------
(***************************************************************************)
(* Commands.                                                               *)
(***************************************************************************)
Ready(op) == aborted = "none" /\ cmd = Idle /\ op \in Ops
At(pc)    == aborted = "none" /\ cmd.pc = pc

Abort(where) ==
  /\ aborted' = where
  /\ UNCHANGED <<marked, live, inode, table, flags, cache, cmd>>

\* What was when the command started (not in the code; for the properties
\* only): whether the volume was clean and, for owrite, the file.
Snapshot(f) ==
  [size |-> inode[f].size, marked |-> marked, ind |-> inode[f].ind,
   tight |-> Fits(f),
   phy |-> [i \in LogBlock |-> PhyOnDisk(f, i)]]

Command(op, f, pc, start, size, total, to, ret, tailRead) ==
  [op |-> op, f |-> f, pc |-> pc, start |-> start, size |-> size,
   next |-> start \div BlockSize, total |-> total, to |-> to, ret |-> ret,
   tailRead |-> tailRead, clean |-> Clean,
   was |-> IF op = "owrite" THEN Snapshot(f) ELSE {}]

Create(f) ==
  /\ aborted = "none" /\ cmd = Idle
  /\ f \notin live
  /\ live' = live \cup {f}
  /\ UNCHANGED <<marked, inode, table, flags, cache, cmd, aborted>>

\* cmd_write up to the loops of the alternate write, which always starts at
\* offset 0: the read of the last block is issued if that block exists and is
\* written in part only.
CmdWrite(f, n) ==
  /\ Ready("write") /\ f \in live
  /\ LET last == BlocksOf(n) - 1
         hasTail == n % BlockSize # 0
     IN  IF TooBig(last)
         THEN /\ cmd' = Command("write", f, "sync", 0, n, 0, 0, "EFBIG", FALSE)
              /\ UNCHANGED <<flags, cache>>
         ELSE /\ cmd' = Command("write", f, "alternate", 0, n, 0, 0, "ok",
                                hasTail /\ LogToPhy(f, last) > 0)
              /\ cache' = IF hasTail THEN CacheAfter(f, last) ELSE cache
              /\ flags' = IF hasTail THEN FlagsAfter(f, last) ELSE flags
  /\ UNCHANGED <<marked, live, inode, table, aborted>>

CmdOwrite(f, off, n) ==
  /\ Ready("owrite") /\ f \in live
  /\ IF off > inode[f].size
     THEN Abort("inode.c:323")
     ELSE /\ cmd' = Command("owrite", f, "classic", off, n, 0, 0, "ok", FALSE)
          /\ UNCHANGED <<marked, live, inode, table, flags, cache, aborted>>

\* cmd_import creates the file, then writes it in chunks of a block; feof is
\* seen only after a short read, so the last chunk has n % BlockSize bytes,
\* none at all for some n.
ImportChunk(start, n) == Min({BlockSize, n - start})

CmdImport(f, n) ==
  /\ Ready("import") /\ f \notin live
  /\ live' = live \cup {f}
  /\ cmd' = Command("import", f, "classic", 0, ImportChunk(0, n), n, 0, "ok", FALSE)
  /\ UNCHANGED <<marked, inode, table, flags, cache, aborted>>

\* cmd_rm, once the directory entry is gone.
CmdRm(f) ==
  /\ Ready("rm") /\ f \in live
  /\ cmd' = Command("rm", f, "truncate", 0, 0, 0, 0, "ok", FALSE)
  /\ UNCHANGED <<marked, live, inode, table, flags, cache, aborted>>

\* cmd_cat and cmd_export: every block below the size is read.
CmdCat(f) ==
  /\ Ready("cat") /\ f \in live
  /\ IF \A i \in 0 .. BlocksOf(inode[f].size) - 1 : PhyOnDisk(f, i) > 0
     THEN UNCHANGED vars ELSE Abort("inode.c:293")

\* testfs_check_inode: the blocks before the first one that is not mapped.
Walked(f) == {i \in LogBlock : \A j \in 0 .. i : PhyOnDisk(f, j) > 0}
CheckedSize(f) == Cardinality(Walked(f)) * BlockSize

CheckFailures ==
  {a \in {"csum.c:83", "super.c:253"} : \E f \in live :
     CASE a = "csum.c:83"   -> \E i \in Walked(f) : PhyOnDisk(f, i) > NCsums
       [] a = "super.c:253" -> CheckedSize(f) # BlocksOf(inode[f].size) * BlockSize}

CmdCheckfs ==
  /\ Ready("checkfs")
  /\ IF CheckFailures = {} THEN UNCHANGED vars
     ELSE \E a \in CheckFailures : Abort(a)

-----------------------------------------------------------------------------
(***************************************************************************)
(* One iteration of a write loop, on logical block cmd.next.               *)
(***************************************************************************)
LastIteration == cmd.start + cmd.size <= (cmd.next + 1) * BlockSize

NextBlock == [cmd EXCEPT !.next = @ + 1]
ThenTruncate(to) == [cmd EXCEPT !.pc = "truncate", !.to = to, !.tailRead = FALSE]

\* The size of the file once the last block of the call is written.
Grown(in) == [in EXCEPT !.size = Max({@, cmd.start + cmd.size})]

\* testfs_file_write_block_async: the block is written, its checksum is set,
\* and after the last block the size grows; cmd_write then truncates.
AltWritten(in, m, c, fl, b) ==
  \/ b > NCsums /\ Abort("csum.c:97")
  \/ /\ b <= NCsums
     /\ marked' = m /\ cache' = c
     /\ \/ /\ ~LastIteration
           /\ inode' = [inode EXCEPT ![cmd.f] = in]
           /\ flags' = fl
           /\ cmd' = NextBlock
        \/ /\ LastIteration
           /\ inode' = [inode EXCEPT ![cmd.f] = Grown(in)]
           /\ flags' = fl \cup {"DIRTY"}
           /\ cmd' = ThenTruncate(cmd.size)
     /\ UNCHANGED <<live, table, aborted>>

AltReuse ==
  /\ At("alternate")
  /\ LET b == LogToPhy(cmd.f, cmd.next)
     IN  /\ b # 0
         /\ AltWritten(inode[cmd.f], marked, CacheAfter(cmd.f, cmd.next),
                       FlagsAfter(cmd.f, cmd.next), b)

AltDirect ==
  /\ At("alternate") /\ cmd.next < NDirect
  /\ LogToPhy(cmd.f, cmd.next) = 0
  /\ LET b == FirstClear(marked)
     IN  /\ b # 0
         /\ AltWritten(Mapped(inode[cmd.f], cmd.next, b), marked \cup {b}, cache,
                       flags \cup {"DIRTY"}, b)

AltIndirect ==
  /\ At("alternate") /\ cmd.next >= NDirect
  /\ inode[cmd.f].ind # 0 /\ LogToPhy(cmd.f, cmd.next) = 0
  /\ LET b == FirstClear(marked)
     IN  /\ b # 0
         /\ AltWritten(inode[cmd.f], marked \cup {b},
                       [Loaded(cmd.f) EXCEPT ![cmd.next - NDirect] = b], AllFlags, b)

\* Mutated: the data block is not marked before the indirect block is chosen.
AltFirstIndirectUnmarked ==
  /\ At("alternate") /\ cmd.next >= NDirect /\ inode[cmd.f].ind = 0
  /\ LET b == FirstClear(marked)
     IN  /\ b # 0
         /\ AltWritten([inode[cmd.f] EXCEPT !.ind = b], marked \cup {b},
                       [NoEntries EXCEPT ![cmd.next - NDirect] = b], AllFlags, b)

\* The data block is allocated first, the indirect block second.
AltFirstIndirect ==
  /\ At("alternate") /\ cmd.next >= NDirect /\ inode[cmd.f].ind = 0
  /\ LET b == FirstClear(marked)
         t == FirstClear(marked \cup {b})
     IN  /\ b # 0 /\ t # 0
         /\ AltWritten([inode[cmd.f] EXCEPT !.ind = t], marked \cup {b, t},
                       [NoEntries EXCEPT ![cmd.next - NDirect] = b], AllFlags, b)

\* RETURN_IF_NEG: cmd_write skips the truncation and syncs.
AltFail(m, fl) ==
  /\ marked' = m /\ flags' = fl
  /\ cache' = CacheAfter(cmd.f, cmd.next)
  /\ cmd' = [cmd EXCEPT !.pc = "sync", !.ret = "ENOSPC"]
  /\ UNCHANGED <<live, inode, table, aborted>>

AltNoSpace ==
  /\ At("alternate")
  /\ LogToPhy(cmd.f, cmd.next) = 0 /\ FirstClear(marked) = 0
  /\ AltFail(marked, FlagsAfter(cmd.f, cmd.next))

\* No block is left for the indirect block: the data block stays allocated.
AltHalfway ==
  /\ At("alternate") /\ cmd.next >= NDirect /\ inode[cmd.f].ind = 0
  /\ LET b == FirstClear(marked)
     IN  /\ b # 0 /\ FirstClear(marked \cup {b}) = 0
         /\ AltFail(marked \cup {b}, flags \cup {"DIRTY"})

\* testfs_write_data after testfs_allocate_block: the block and its checksum
\* are written; after the last one the size grows, and the caller goes on.
Written(in, m, t, b) ==
  \/ b > NCsums /\ Abort("csum.c:58")
  \/ /\ b <= NCsums
     /\ marked' = m /\ table' = t
     /\ \/ /\ ~LastIteration
           /\ inode' = [inode EXCEPT ![cmd.f] = in]
           /\ flags' = IF in # inode[cmd.f] THEN flags \cup {"DIRTY"} ELSE flags
           /\ cmd' = NextBlock
        \/ /\ LastIteration
           /\ inode' = [inode EXCEPT ![cmd.f] = Grown(in)]
           /\ flags' = flags \cup {"DIRTY"}
           /\ cmd' = IF cmd.op = "import" /\ cmd.size = BlockSize
                     THEN [NextBlock EXCEPT !.start = @ + BlockSize,
                             !.size = ImportChunk(cmd.start + BlockSize, cmd.total)]
                     ELSE ThenTruncate(cmd.start + cmd.size)
     /\ UNCHANGED <<live, cache, aborted>>

Reuse ==
  /\ At("classic") /\ ~TooBig(cmd.next)
  /\ LET b == PhyOnDisk(cmd.f, cmd.next)
     IN  b # 0 /\ Written(inode[cmd.f], marked, table, b)

AllocDirect ==
  /\ At("classic") /\ cmd.next < NDirect
  /\ PhyOnDisk(cmd.f, cmd.next) = 0
  /\ LET b == FirstClear(marked)
     IN  /\ b # 0
         /\ Written(Mapped(inode[cmd.f], cmd.next, b), marked \cup {b}, table, b)

AllocIndirect ==
  /\ At("classic") /\ cmd.next >= NDirect /\ ~TooBig(cmd.next)
  /\ inode[cmd.f].ind # 0 /\ PhyOnDisk(cmd.f, cmd.next) = 0
  /\ LET b == FirstClear(marked)
     IN  /\ b # 0
         /\ Written(inode[cmd.f], marked \cup {b},
              [table EXCEPT ![inode[cmd.f].ind][cmd.next - NDirect] = b], b)

\* The indirect block is allocated first, the data block second.
AllocFirstIndirect ==
  /\ At("classic") /\ cmd.next >= NDirect /\ ~TooBig(cmd.next)
  /\ inode[cmd.f].ind = 0
  /\ LET t == FirstClear(marked)
         b == FirstClear(marked \cup {t})
     IN  /\ t # 0 /\ b # 0
         /\ Written([inode[cmd.f] EXCEPT !.ind = t], marked \cup {b, t},
              [table EXCEPT ![t] = [NoEntries EXCEPT ![cmd.next - NDirect] = b]], b)

\* Mutated: the blocks written so far are left out.
WrittenToForgotten == cmd.start

\* Mutated: the block that could not be had is counted as written.
WrittenToOneMore == Max({cmd.start, (cmd.next + 1) * BlockSize})

\* start + buf_offset when cmd.next is the block that could not be had.
WrittenTo == Max({cmd.start, cmd.next * BlockSize})

\* The error path: take the blocks written so far into the size, so that
\* truncating to the size the file had gives them back.
Rollback(in, m, t, why) ==
  /\ inode' = [inode EXCEPT ![cmd.f] = [in EXCEPT !.size = Max({@, WrittenTo})]]
  /\ marked' = m /\ table' = t /\ flags' = flags \cup {"DIRTY"}
  /\ cmd' = [ThenTruncate(in.size) EXCEPT !.ret = why]
  /\ UNCHANGED <<live, cache, aborted>>

WriteTooBig ==
  /\ At("classic") /\ TooBig(cmd.next)
  /\ Rollback(inode[cmd.f], marked, table, "EFBIG")

WriteNoSpace ==
  /\ At("classic") /\ ~TooBig(cmd.next)
  /\ PhyOnDisk(cmd.f, cmd.next) = 0 /\ FirstClear(marked) = 0
  /\ Rollback(inode[cmd.f], marked, table, "ENOSPC")

\* The indirect block was had, the data block was not.
WriteHalfway ==
  /\ At("classic") /\ cmd.next >= NDirect /\ ~TooBig(cmd.next)
  /\ inode[cmd.f].ind = 0
  /\ LET t == FirstClear(marked)
     IN  /\ t # 0 /\ FirstClear(marked \cup {t}) = 0
         /\ Rollback([inode[cmd.f] EXCEPT !.ind = t], marked \cup {t},
                     [table EXCEPT ![t] = NoEntries], "ENOSPC")

-----------------------------------------------------------------------------
(***************************************************************************)
(* testfs_truncate_data, and the end of a command.                         *)
(***************************************************************************)
Truncating == At("truncate") /\ inode[cmd.f].size > cmd.to

\* Mutated: the size is rounded down.
FirstCutDown == cmd.to \div BlockSize

FirstCut == BlocksOf(cmd.to)
EndCut   == BlocksOf(inode[cmd.f].size)

\* The direct entries, and the entries of the indirect block, to be cut.
CutDirect   == FirstCut .. Min({EndCut, NDirect}) - 1
\* Mutated: the first entry is skipped.
CutIndirectLate == Max({FirstCut - NDirect, 0}) + 1 .. Min({EndCut - NDirect, NIndirect}) - 1

CutIndirect == Max({FirstCut - NDirect, 0}) .. Min({EndCut - NDirect, NIndirect}) - 1
CutsIndirect == EndCut > NDirect

CutBlocks ==
  LET in == inode[cmd.f]
  IN  {in.direct[i] : i \in CutDirect} \cup
      (IF CutsIndirect THEN {table[in.ind][j] : j \in CutIndirect} ELSE {})

AfterTruncate == [cmd EXCEPT !.pc = IF cmd.op = "rm" THEN "remove" ELSE "sync"]

TruncateNothing ==
  /\ At("truncate") /\ inode[cmd.f].size <= cmd.to
  /\ cmd' = AfterTruncate
  /\ UNCHANGED <<marked, live, inode, table, flags, cache, aborted>>

\* The assertions of testfs_truncate_data, and of bitmap_unmark, that fail.
TruncateFailures ==
  LET in == inode[cmd.f]
  IN  (IF \E i \in CutDirect : in.direct[i] = 0 THEN {"inode.c:367"} ELSE {})
      \cup (IF CutsIndirect /\ in.ind = 0 THEN {"inode.c:378"} ELSE {})
      \cup (IF CutsIndirect /\ in.ind # 0 /\ \E j \in CutIndirect : table[in.ind][j] = 0
            THEN {"inode.c:382"} ELSE {})
      \cup (IF ~CutsIndirect /\ in.ind # 0 THEN {"inode.c:394"} ELSE {})

TruncateAsserts ==
  /\ Truncating
  /\ \E a \in TruncateFailures : Abort(a)

\* Mutated: i_indirect is not reset when the indirect block is freed.
KeptPointer(in, drop) == in.ind

\* i_indirect after the truncation.
IndirectLeft(in, drop) == IF drop THEN 0 ELSE in.ind

\* The indirect block goes when its first entry does, otherwise it is written
\* back.  A freed block is zeroed on the device.
TruncateBlocks ==
  /\ Truncating
  /\ TruncateFailures = {}
  /\ LET in == inode[cmd.f]
         dropInd == CutsIndirect /\ FirstCut <= NDirect
         freed == CutBlocks \cup (IF dropInd THEN {in.ind} ELSE {})
         kept == [j \in 0 .. NIndirect - 1 |->
                    IF j \in CutIndirect THEN 0 ELSE table[in.ind][j]]
     IN  IF ~(freed \subseteq marked) THEN Abort("bitmap.c:117")
         ELSE /\ marked' = marked \ freed
              /\ table' = [b \in Block |->
                             IF b \in freed THEN NoEntries
                             ELSE IF CutsIndirect /\ b = in.ind THEN kept ELSE table[b]]
              /\ inode' = [inode EXCEPT ![cmd.f] =
                   [size |-> cmd.to,
                    direct |-> [i \in 0 .. NDirect - 1 |->
                                  IF i \in CutDirect THEN 0 ELSE in.direct[i]],
                    ind |-> IndirectLeft(in, dropInd)]]
              /\ flags' = flags \cup {"DIRTY"}
              /\ cmd' = AfterTruncate
              /\ UNCHANGED <<live, cache, aborted>>

Truncate == TruncateNothing \/ TruncateAsserts \/ TruncateBlocks

\* testfs_sync_inode and testfs_put_inode; the inode leaves memory, and the
\* next command starts with clear flags.
Sync ==
  /\ At("sync")
  /\ \/ "DIRTY" \notin flags /\ Abort("inode.c:210")
     \/ /\ "DIRTY" \in flags
        /\ table' = IF "INDIRECT_DIRTY" \in flags /\ inode[cmd.f].ind # 0
                    THEN [table EXCEPT ![inode[cmd.f].ind] = cache] ELSE table
        /\ flags' = {} /\ cache' = NoEntries
        /\ cmd' = Idle
        /\ UNCHANGED <<marked, live, inode, aborted>>

\* testfs_remove_inode after the truncation: the dinode is zeroed and synced.
Remove ==
  /\ At("remove")
  /\ inode' = [inode EXCEPT ![cmd.f] = EmptyDinode]
  /\ live' = live \ {cmd.f}
  /\ flags' = {} /\ cache' = NoEntries
  /\ cmd' = Idle
  /\ UNCHANGED <<marked, table, aborted>>

-----------------------------------------------------------------------------
Start ==
  \E f \in File :
    \/ Create(f) \/ CmdRm(f) \/ CmdCat(f)
    \/ \E n \in Sizes \ {0} : CmdWrite(f, n)
    \/ \E n \in Sizes \ {0}, off \in Sizes \cup {0} : CmdOwrite(f, off, n)
    \/ \E n \in Sizes \cup {0} : CmdImport(f, n)

AltStep == AltReuse \/ AltDirect \/ AltIndirect \/ AltFirstIndirect
             \/ AltNoSpace \/ AltHalfway
WriteStep == Reuse \/ AllocDirect \/ AllocIndirect \/ AllocFirstIndirect
               \/ WriteTooBig \/ WriteNoSpace \/ WriteHalfway

Next == Start \/ CmdCheckfs \/ AltStep \/ WriteStep \/ Truncate \/ Sync \/ Remove

Spec == Init /\ [][Next]_vars

-----------------------------------------------------------------------------
(***************************************************************************)
(* Properties.                                                             *)
(***************************************************************************)

\* No block of the device is referenced twice, by two files or by two places
\* of one file, its indirect block included.
NoSharedBlock ==
  \A f, g \in File : \A s, t \in Slot :
    BlockAt(f, s) = BlockAt(g, t) /\ BlockAt(f, s) # 0 => f = g /\ s = t

\* A block a file references is never free: it cannot be handed out again.
RefsMarked == \A f \in File : Refs(f) \subseteq marked

\* Between commands every logical block below the size of a file is mapped,
\* which the assertions inode.c:293, 367, 378 and 382 rely on.
NoHoles ==
  cmd = Idle =>
    \A f \in live : \A i \in 0 .. BlocksOf(inode[f].size) - 1 : BlockAt(f, i) > 0

\* The assertions that say so, and the one that a block is freed once only.
MappingAssertsHold ==
  aborted \notin {"inode.c:293", "inode.c:367", "inode.c:378", "inode.c:382",
                  "bitmap.c:117"}

\* The cached indirect block is written to the block the inode points to, and
\* brings no entry back that a truncation has cut on the device meanwhile.
IndirectFlushSafe ==
  At("sync") /\ "INDIRECT_DIRTY" \in flags =>
    /\ inode[cmd.f].ind # 0
    /\ \A i \in LogBlock : PhyOnDisk(cmd.f, i) \in {0, BlockAt(cmd.f, i)}

\* A classic write that failed leaves the size, every mapping and the freemap
\* as they were, save that an indirect block with no entry may come or go.
\* This is about files with no block beyond their size: such a block, left by
\* an alternate write that failed, may be given back too.
FailedWriteRollsBack ==
  At("sync") /\ cmd.op = "owrite" /\ cmd.ret # "ok" /\ cmd.was.tight =>
    /\ inode[cmd.f].size = cmd.was.size
    /\ \A i \in LogBlock : PhyOnDisk(cmd.f, i) = cmd.was.phy[i]
    /\ marked \ {inode[cmd.f].ind} = cmd.was.marked \ {cmd.was.ind}

\* A command that succeeds on a clean volume leaves it clean, so checkfs finds
\* nothing to say; a command that fails, and an import of a whole number of
\* blocks, are excepted (FailedWriteRollsBack, TruncateIndirectAsserted and
\* CheckfsSizeAsserted are about those).
CheckfsClean ==
  /\ At("sync") \/ At("remove")
  /\ cmd.clean /\ cmd.ret = "ok"
  /\ ~(cmd.op = "import" /\ cmd.total % BlockSize = 0)
  => Clean

\* Who a block belongs to; a block that is marked and not referenced is lost.
OwnerOf(b) ==
  IF \E f \in File : b \in Refs(f) THEN CHOOSE f \in File : b \in Refs(f)
  ELSE IF b \in marked THEN "lost" ELSE "nobody"

Owner_ == INSTANCE BlockOwner WITH
            owner <- [b \in Block |-> OwnerOf(b)], Nobody <- "nobody", Lost <- "lost"

\* Through every write, truncation and removal, failed ones included, a block
\* passes from one file to another by way of the freemap only.
ImplementsBlockOwner == Owner_!Spec

\* A read of the last block that was issued has been waited for when the
\* write returns.
TailReadAwaited == At("sync") => ~cmd.tailRead

\* checkfs finds as many blocks as the size of a file asks for (super.c:253).
CheckfsSizeAsserted == aborted # "super.c:253"

\* A file cut down to its direct blocks has no indirect block (inode.c:394).
TruncateIndirectAsserted == aborted # "inode.c:394"
=============================================================================
