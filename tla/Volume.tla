------------------------------- MODULE Volume -------------------------------
(***************************************************************************)
(* The volume across commands, crashes and restarts: which block each      *)
(* command writes, in which order, and what a program started later reads  *)
(* back (src/src/super.c, csum.c, inode.c, dir.c, file.c, bench_e2e.c,     *)
(* testfs.c).                                                              *)
(*                                                                         *)
(* A command is a sequential program that alone uses the memory of the     *)
(* process.  Each function of the source is an operator that takes a run   *)
(* -- the device as the command reads it, the memory and the writes issued *)
(* so far -- and returns the run after it; a command started is the list   *)
(* of writes of its run, which then reach the device one step at a time.   *)
(* The process may stop between any two of them, losing its memory and the *)
(* asynchronous writes that have not landed.  A block is written whole.    *)
(*                                                                         *)
(* One directory, the root, whose entries fit in one block and have names  *)
(* of one length; files of at most two blocks, one direct and one          *)
(* indirect, always of whole blocks with the same data; no command is      *)
(* given that needs more blocks than are free (BlockMap has those).        *)
(***************************************************************************)
EXTENDS Integers, FiniteSets, SequencesExt

CONSTANTS
  NBlocks,    \* NR_DATA_BLOCKS
  NInodes,    \* inodes
  PerGroup,   \* data blocks to a block of the freemap or of the checksums
  PerBlock,   \* INODES_PER_BLOCK
  WordBits,   \* bits of a word, 32
  MaxCrashes  \* bound: crashes

\* A block is the words in it; the words left out are 0.
Removed == 2 ^ WordBits - 1   \* -1
Word    == 0 .. Removed
Zero    == <<>>
Data    == <<1>>              \* a block of a file

\* A word is enough for the number of an inode or of a block.
ASSUME VolumeAssumption ==
  /\ NBlocks \in Nat \ {0} /\ NInodes \in Nat \ {0}
  /\ PerGroup \in Nat \ {0} /\ PerBlock \in Nat \ {0} /\ MaxCrashes \in Nat
  /\ WordBits \in Nat /\ NBlocks <= Removed /\ NInodes <= Removed

Block == 1 .. NBlocks
Inode == 0 .. NInodes - 1
Root  == 0
File  == Inode \ {Root}

\* Blocks of the freemap and of the checksum table; blocks of inodes.
Group(b)      == (b - 1) \div PerGroup
Groups        == {Group(b) : b \in Block}
InGroup(g)    == {b \in Block : Group(b) = g}
InodeBlock(i) == i \div PerBlock
InodeBlocks   == {InodeBlock(i) : i \in Inode}
InBlock(g)    == {i \in Inode : InodeBlock(i) = g}

\* testfs_calculate_csum: the bits set in an odd number of words.
Bit == 0 .. WordBits - 1
Csum(words) ==
  {p \in Bit : Cardinality({n \in DOMAIN words : (words[n] \div 2 ^ p) % 2 = 1}) % 2 = 1}

Dinode(type, size, direct, indirect) ==
  [type |-> type, size |-> size, direct |-> direct, indirect |-> indirect]
NoDinode == Dinode("none", 0, 0, 0)

BlockPtr == Block \cup {0}
Dinodes  ==
  {n \in [type : {"none", "file", "dir"}, size : Nat, direct : BlockPtr, indirect : BlockPtr] :
     n.type = "file" => n.size <= 2}
Device   == [bmap : SUBSET Block, imap : SUBSET Inode, csum : [Block -> SUBSET Bit],
             node : [Inode -> Dinodes], block : [Block -> Seq(Word)]]
Memory   == [bmap : SUBSET Block, imap : SUBSET Inode, csum : [Block -> SUBSET Bit],
             dirty : SUBSET Groups]

VARIABLES
  dev,       \* [bmap, imap, csum, node, block]: what is on the device
  up,        \* the program runs
  mem,       \* [bmap, imap, csum, dirty]: what the program keeps of it
  cmd,       \* the command being executed and the writes it has to issue
  inflight,  \* asynchronous writes issued and not landed
  risk,      \* inodes that a crash now may damage
  history,   \* since mkfs: "crashed", "damaged", "csumLost"
  crashes    \* crashes so far

vars == <<dev, up, mem, cmd, inflight, risk, history, crashes>>

Idle  == [name |-> "none", size |-> 0, writes |-> <<>>]
NoMem == [bmap |-> {}, imap |-> {}, csum |-> [b \in Block |-> {}], dirty |-> {}]

\* The device before the first mkfs.
Blank == [bmap |-> {}, imap |-> {}, csum |-> [b \in Block |-> {}],
          node |-> [i \in Inode |-> NoDinode], block |-> [b \in Block |-> Zero]]

TypeOK ==
  /\ dev \in Device /\ mem \in Memory /\ up \in BOOLEAN
  /\ up \/ (cmd = Idle /\ inflight = {} /\ mem = NoMem)
  /\ risk \subseteq Inode
  /\ history \subseteq {"crashed", "damaged", "csumLost"}
  /\ crashes \in 0 .. MaxCrashes

Init ==
  /\ dev = Blank /\ up = FALSE /\ mem = NoMem /\ cmd = Idle
  /\ inflight = {} /\ risk = {} /\ history = {} /\ crashes = 0

-----------------------------------------------------------------------------
(***************************************************************************)
(* Writes, and runs.                                                       *)
(***************************************************************************)

\* What a write puts where: contents by the number of their block.
At(n, x) == [m \in {n} |-> x]

\* The write w puts something in block n of the area.
Hits(w, area, n) == w.area = area /\ n \in DOMAIN w.val

\* The device d once the write w has landed.
Put(d, w) ==
  CASE w.area = "imap"   -> [d EXCEPT !.imap = IF Hits(w, "imap", 0) THEN w.val[0] ELSE @]
    [] w.area = "bmap"   -> [d EXCEPT !.bmap = {b \in Block :
         IF Hits(w, "bmap", Group(b)) THEN b \in w.val[Group(b)] ELSE b \in d.bmap}]
    [] w.area = "csum"   -> [d EXCEPT !.csum = [b \in Block |->
         IF Hits(w, "csum", Group(b)) THEN w.val[Group(b)][b] ELSE d.csum[b]]]
    [] w.area = "inodes" -> [d EXCEPT !.node = [i \in Inode |->
         IF Hits(w, "inodes", InodeBlock(i)) THEN w.val[InodeBlock(i)][i] ELSE d.node[i]]]
    [] w.area = "block"  -> [d EXCEPT !.block = [b \in Block |->
         IF Hits(w, "block", b) THEN w.val[b] ELSE d.block[b]]]
    [] OTHER             -> d

\* A run: `ino' and `ind' are the inodes in memory and their cached indirect
\* blocks, Zero unless dirty; `open' and `unsaved' the inodes that the writes
\* to come will have put at risk, for a while or until the freemap is flushed.
RunFrom(d, m) ==
  [dev |-> d, mem |-> m, ino |-> d.node, ind |-> [i \in Inode |-> Zero],
   writes |-> <<>>, open |-> {}, unsaved |-> risk]

Request(r, how, area, val) ==
  [area |-> area, val |-> val, sync |-> how = "sync", risk |-> r.open \cup r.unsaved]

Issue(r, w) == [r EXCEPT !.dev = Put(r.dev, w), !.writes = Append(r.writes, w)]

\* write_blocks and write_blocks_async, of one block.
Write(r, how, area, at, x) == Issue(r, Request(r, how, area, At(at, x)))
WriteSync(r, area, at, x)  == Write(r, "sync", area, at, x)

\* The same, of every block that val has contents for, in their order.
Ascending(S) == CHOOSE s \in [1 .. Cardinality(S) -> S] :
                  \A j, k \in 1 .. Cardinality(S) : j < k => s[j] < s[k]
WriteEach(r, how, area, val) ==
  LET s == Ascending(DOMAIN val)
      part == [k \in 1 .. Len(s) |-> Request(r, how, area, At(s[k], val[s[k]]))]
  IN  [r EXCEPT !.dev = Put(r.dev, Request(r, how, area, val)),
                !.writes = r.writes \o part]

\* spin_wait, and dev_stop at the end of the program.
SpinWait(r) == Issue(r, Request(r, "sync", "wait", <<>>))
DevStop(r)  == Issue(r, Request(r, "sync", "stop", <<>>))

\* Op(r, k) for k from 1 to n, which is 1 or 2.
ForEach(n, r, Op(_, _)) == IF n = 1 THEN Op(r, 1) ELSE Op(Op(r, 1), 2)

-----------------------------------------------------------------------------
(***************************************************************************)
(* super.c and csum.c: the freemaps, the checksums, the super block.       *)
(***************************************************************************)
BmapOf(r, g) == r.mem.bmap \cap InGroup(g)
CsumOf(r, g) == [b \in InGroup(g) |-> r.mem.csum[b]]

WriteBlockFreemap(r, b) == WriteSync(r, "bmap", Group(b), BmapOf(r, Group(b)))

\* The files that the directory on the device d names.
Entries(d) ==
  LET root == d.node[Root]
  IN  IF root.direct = 0 THEN {}
      ELSE {d.block[root.direct][k] : k \in 1 .. root.size} \cap File

FirstFreeBlock(r) == CHOOSE b \in Block \ r.mem.bmap :
                       \A c \in Block \ r.mem.bmap : b <= c

\* Mutated: as in testfs_alloc_block_alternate, the freemap is not written.
AllocBlockUnwritten(r) == [r EXCEPT !.mem.bmap = @ \cup {FirstFreeBlock(r)}]

\* testfs_alloc_block allocates FirstFreeBlock(r).
AllocBlock(r) ==
  LET b == FirstFreeBlock(r)
  IN  WriteBlockFreemap([r EXCEPT !.mem.bmap = @ \cup {b}], b)

\* testfs_free_block of a block of inode i.
FreeBlock(r, i, b) ==
  LET open   == [r EXCEPT !.open = @ \cup ({i} \cap Entries(r.dev))]
      zeroed == WriteSync(open, "block", b, Zero)
  IN  WriteBlockFreemap([zeroed EXCEPT !.mem.bmap = @ \ {b}], b)

PutCsum(r, b, c) ==
  LET s == [r EXCEPT !.mem.csum[b] = c]
  IN  WriteSync(s, "csum", Group(b), CsumOf(s, Group(b)))

\* Mutated: the block of the table after the right one is marked dirty.
SetCsumNext(r, b, c) ==
  [r EXCEPT !.mem.csum[b] = c, !.mem.dirty = @ \cup {Group(b) + 1}]

SetCsum(r, b, c) ==
  [r EXCEPT !.mem.csum[b] = c, !.mem.dirty = @ \cup {Group(b)}]

\* testfs_flush_csum and testfs_flush_csum_async.
FlushCsum(r, how) ==
  [WriteEach(r, how, "csum", [g \in r.mem.dirty |-> CsumOf(r, g)])
     EXCEPT !.mem.dirty = {}]

\* The block freemap is written whole, by one request of several blocks.
WriteBmap(r) == WriteEach(r, "async", "bmap", [g \in Groups |-> BmapOf(r, g)])

\* testfs_flush_block_freemap
FlushBlockFreemap(r) == SpinWait([WriteBmap(r) EXCEPT !.unsaved = {}])

\* Mutated: only the inode freemap is written.
FlushSuperNoBmap(r) == SpinWait(WriteSync(r, "imap", 0, r.mem.imap))

\* testfs_flush_super_block; the block it is named for never changes.
FlushSuper(r) ==
  FlushBlockFreemap(WriteSync(r, "imap", 0, r.mem.imap))

\* testfs_init_super_block
Load(d) == [bmap |-> d.bmap, imap |-> d.imap, csum |-> d.csum, dirty |-> {}]
InitSuper(r) == [r EXCEPT !.mem = Load(r.dev), !.ino = r.dev.node]

-----------------------------------------------------------------------------
(***************************************************************************)
(* inode.c, dir.c: inodes, their blocks and the directory.                 *)
(***************************************************************************)

\* testfs_get_block: the block mapped to block k of inode i, or 0.
Mapped(r, i, k) ==
  LET n == r.ino[i]
  IN  IF k = 0 THEN n.direct
      ELSE IF n.indirect = 0 \/ r.dev.block[n.indirect] = Zero THEN 0
      ELSE r.dev.block[n.indirect][1]

\* testfs_allocate_block, of a block that is not mapped.
AllocateBlock(r, i, k) ==
  IF k = 0
  THEN [AllocBlock(r) EXCEPT !.ino[i].direct = FirstFreeBlock(r)]
  ELSE LET s == IF r.ino[i].indirect # 0 THEN r
                ELSE [AllocBlock(r) EXCEPT !.ino[i].indirect = FirstFreeBlock(r)]
       IN  WriteSync(AllocBlock(s), "block", s.ino[i].indirect,
                     <<FirstFreeBlock(s)>>)

\* Mutated: no checksum for a block that was mapped already.
WriteBlockNoCsum(r, i, k, words) ==
  IF Mapped(r, i, k) # 0
  THEN WriteSync(r, "block", Mapped(r, i, k), words)
  ELSE LET s == AllocateBlock(r, i, k)
           b == Mapped(s, i, k)
       IN  PutCsum(WriteSync(s, "block", b, words), b, Csum(words))

\* testfs_write_data, of one block; the caller sets the size.
WriteBlock(r, i, k, words) ==
  LET s == IF Mapped(r, i, k) # 0 THEN r ELSE AllocateBlock(r, i, k)
      b == Mapped(s, i, k)
  IN  PutCsum(WriteSync(s, "block", b, words), b, Csum(words))

GrowTo(r, i, size) ==
  [r EXCEPT !.ino[i].size = IF @ < size THEN size ELSE @]

\* testfs_truncate_data
Truncate(r, i, size) ==
  LET n == r.ino[i]
      a == IF size = 0
           THEN [FreeBlock(r, i, n.direct) EXCEPT !.ino[i].direct = 0]
           ELSE r
      b == IF n.size = 2
           THEN LET freed == FreeBlock(a, i, Mapped(r, i, 1))
                IN  [FreeBlock(freed, i, n.indirect) EXCEPT !.ino[i].indirect = 0]
           ELSE a
  IN  IF n.size <= size THEN r ELSE [b EXCEPT !.ino[i].size = size]

\* The inode block of i as it is on the device but for the dinodes of S.
WithDinodes(r, g, S) ==
  [j \in InBlock(g) |-> IF j \in S THEN r.ino[j] ELSE r.dev.node[j]]

\* The cached indirect block of i, when it is dirty.
FlushIndirect(r, i, how) ==
  IF r.ind[i] = Zero THEN r
  ELSE [Write(r, how, "block", r.ino[i].indirect, r.ind[i]) EXCEPT !.ind[i] = Zero]

\* testfs_sync_inode; i is whole on the device once it is done.
SyncInode(r, i) ==
  LET g == InodeBlock(i)
      s == [r EXCEPT !.open = @ \ {i}]
  IN  FlushIndirect(WriteSync(s, "inodes", g, WithDinodes(s, g, {i})),
                    i, "sync")

\* testfs_write_dirent: word w at index k of the directory.
WriteDirent(r, k, w) ==
  LET b == Mapped(r, Root, 0)
      words == IF b = 0 THEN Zero ELSE r.dev.block[b]
      new == IF k > Len(words) THEN Append(words, w) ELSE [words EXCEPT ![k] = w]
  IN  GrowTo(WriteBlock(r, Root, 0, new), Root, k)

\* testfs_add_dirent: the first entry removed, or the end.
AddDirent(r, i) ==
  LET b == Mapped(r, Root, 0)
      removed == IF b = 0 THEN {}
                 ELSE {k \in 1 .. r.ino[Root].size : r.dev.block[b][k] = Removed}
  IN  WriteDirent(r, IF removed = {} THEN r.ino[Root].size + 1
                     ELSE CHOOSE k \in removed : \A l \in removed : k <= l, i)

FirstFreeInode(r) == CHOOSE i \in Inode \ r.mem.imap :
                       \A j \in Inode \ r.mem.imap : i <= j

\* testfs_create_inode; the rest of the dinode is what the device has.
CreateInode(r, i, type) ==
  LET s == [r EXCEPT !.mem.imap = @ \cup {i}]
  IN  [WriteSync(s, "imap", 0, s.mem.imap) EXCEPT
        !.ino[i] = [r.dev.node[i] EXCEPT !.type = type]]

\* testfs_remove_inode; the file has no entry any more.
RemoveInode(r, i) ==
  LET s == Truncate(r, i, 0)
      t == [s EXCEPT !.ino[i] = NoDinode, !.mem.imap = @ \ {i},
                     !.open = {i}, !.unsaved = @ \ {i}]
  IN  SyncInode(WriteSync(t, "imap", 0, t.mem.imap), i)

-----------------------------------------------------------------------------
(***************************************************************************)
(* The commands.                                                           *)
(***************************************************************************)

\* testfs_create_file_or_dir, of a file in the root.
CreateFile(r) ==
  LET i == FirstFreeInode(r)
      s == [CreateInode(r, i, "file") EXCEPT !.open = {i}]
  IN  SyncInode(SyncInode(AddDirent(s, i), Root), i)

\* testfs_make_root_dir; "." and "..".
MakeRoot(r) ==
  SyncInode(AddDirent(AddDirent(CreateInode(r, Root, "dir"), Root), Root), Root)

\* cmd_rm
RemoveFile(r, i) ==
  LET k == CHOOSE k \in 1 .. r.ino[Root].size : r.dev.block[r.ino[Root].direct][k] = i
  IN  SyncInode(RemoveInode(WriteDirent(r, k, Removed), i), Root)

\* cmd_owrite at offset 0.
Owrite(r, i, size) ==
  LET write(s, k) == WriteBlock(s, i, k - 1, Data)
      written == GrowTo(ForEach(size, r, write), i, size)
  IN  SyncInode(Truncate(written, i, size), i)

\* testfs_inode_log_to_phy
LogToPhy(r, i, k) ==
  IF k = 1 /\ r.ind[i] # Zero THEN r.ind[i][1] ELSE Mapped(r, i, k)

\* testfs_allocate_block_alternate: nothing is written.
AllocateAlternate(r, i, k) ==
  LET b == FirstFreeBlock(r)
      s == [r EXCEPT !.mem.bmap = @ \cup {b}, !.unsaved = @ \cup {i}]
      n == FirstFreeBlock(s)
      t == IF s.ino[i].indirect # 0 THEN s
           ELSE [s EXCEPT !.mem.bmap = @ \cup {n}, !.ino[i].indirect = n]
  IN  IF k = 0 THEN [s EXCEPT !.ino[i].direct = b] ELSE [t EXCEPT !.ind[i] = <<b>>]

\* testfs_write_data_alternate and testfs_write_data_alternate_async.
WriteAlternate(r, i, size, how) ==
  LET mapped(s, k) == IF LogToPhy(s, i, k - 1) # 0 THEN s ELSE AllocateAlternate(s, i, k - 1)
      write(s, k)  == LET t == mapped(s, k)
                          b == LogToPhy(t, i, k - 1)
                      IN  SetCsum(Write(t, how, "block", b, Data), b, Csum(Data))
  IN  GrowTo(ForEach(size, r, write), i, size)

\* cmd_write
CmdWrite(r, i, size) ==
  LET written == SpinWait(WriteAlternate(r, i, size, "async"))
  IN  SyncInode(Truncate(written, i, size), i)

\* cmd_mkfs
Mkfs(r) ==
  LET imap   == WriteSync([r EXCEPT !.unsaved = Inode], "imap", 0, {})
      bmap   == WriteEach(imap, "sync", "bmap", [g \in Groups |-> {}])
      csum   == WriteEach(bmap, "sync", "csum",
                          [g \in Groups |-> [b \in InGroup(g) |-> {}]])
      zeroed == WriteEach([csum EXCEPT !.unsaved = {}], "sync", "inodes",
                          [g \in InodeBlocks |-> [i \in InBlock(g) |-> NoDinode]])
  IN  InitSuper(FlushSuper(MakeRoot(InitSuper(zeroed))))

\* The files that benchmark_set_up creates and the writes fill.
BenchFiles(n) == 1 .. n

\* testfs_bulk_sync_inode and testfs_bulk_sync_inode_async, of these files
\* (see BulkSync).
BulkSync(r, n, how) ==
  LET indirect(s, i) == FlushIndirect(s, i, how)
      flushed == ForEach(n, r, indirect)
      blocks  == {InodeBlock(i) : i \in BenchFiles(n)}
  IN  WriteEach(flushed, how, "inodes",
                [g \in blocks |-> WithDinodes(flushed, g, BenchFiles(n))])

SetUp(r, n) ==
  LET create(s, i) == CreateFile(s)
  IN  ForEach(n, Mkfs(r), create)

\* benchmark_sync_writes
BenchSync(r, n, size) ==
  LET write(s, i) == WriteAlternate(s, i, size, "sync")
      written == ForEach(n, SetUp(r, n), write)
  IN  FlushCsum(FlushBlockFreemap(BulkSync(written, n, "sync")),
                "sync")

\* Mutated: the future is not waited for.
BenchAsyncUnawaited(r, n, size) ==
  LET write(s, i) == WriteAlternate(s, i, size, "async")
      written == ForEach(n, SetUp(r, n), write)
      flushed == WriteBmap(BulkSync(written, n, "async"))
  IN  [FlushCsum(flushed, "async") EXCEPT !.unsaved = {}]

\* benchmark_async_writes
BenchAsync(r, n, size) ==
  LET write(s, i) == WriteAlternate(s, i, size, "async")
      written == ForEach(n, SetUp(r, n), write)
      flushed == WriteBmap(BulkSync(written, n, "async"))
  IN  SpinWait([FlushCsum(flushed, "async") EXCEPT !.unsaved = {}])

\* The end of testfs_main: without a file system nothing is written.
FsExists(d) == d.node[Root].type = "dir"
\* What a program started on the device d would reach.
Reached(d) == IF FsExists(d) THEN {Root} \cup Entries(d) ELSE {}
Quit(r) == DevStop(IF FsExists(r.dev) THEN FlushSuper(r) ELSE r)

-----------------------------------------------------------------------------
(***************************************************************************)
(* Steps.                                                                  *)
(***************************************************************************)

\* testfs_main
Boot ==
  /\ ~up
  /\ up' = TRUE /\ mem' = Load(dev)
  /\ UNCHANGED <<dev, cmd, inflight, risk, history, crashes>>

\* handle_command: nothing but mkfs, bench and quit without a file system.
\* Bound: on a damaged one nothing but mkfs and quit is tried.
Ready == up /\ cmd = Idle
Usable == Ready /\ FsExists(dev) /\ "damaged" \notin history

Execute(name, size, r) ==
  /\ cmd' = [name |-> name, size |-> size, writes |-> r.writes]
  /\ mem' = r.mem
  /\ UNCHANGED <<dev, up, inflight, risk, history, crashes>>

Now == RunFrom(dev, mem)

\* Blocks that i needs to grow to size.
Needed(i, size) ==
  LET old == dev.node[i].size
  IN  IF size <= old THEN 0 ELSE size - old + (IF size = 2 THEN 1 ELSE 0)
Enough(n) == Cardinality(Block \ mem.bmap) >= n

\* Bound: mkfs is given without a file system, on a damaged or an empty one.
StartMkfs ==
  /\ Ready
  /\ "damaged" \in history \/ Reached(dev) \subseteq {Root}
  /\ Execute("mkfs", 0, Mkfs(Now))

StartCreate ==
  /\ Usable /\ Inode \ mem.imap # {}
  /\ Execute("create", 0, CreateFile(Now))

StartRemove(i) == Usable /\ Execute("rm", 0, RemoveFile(Now, i))

StartOwrite(i, size) ==
  /\ Usable /\ Enough(Needed(i, size))
  /\ Execute("owrite", size, Owrite(Now, i, size))

StartWrite(i, size) ==
  /\ Usable /\ Enough(Needed(i, size))
  /\ Execute("write", size, CmdWrite(Now, i, size))

\* Bound: half a trial, which starts with mkfs, at a time; on an empty volume,
\* with files that fit.
StartBench(n, size) ==
  /\ Usable /\ Entries(dev) = {}
  /\ 1 + n * (IF size = 2 THEN 3 ELSE 1) <= NBlocks /\ n < NInodes
  /\ \/ Execute("bench", size, BenchSync(Now, n, size))
     \/ Execute("bench", size, BenchAsync(Now, n, size))

StartQuit == Ready /\ Execute("quit", 0, Quit(Now))

\* The last write of a command is done; mkfs makes a new volume.
Proceed ==
  LET w == Head(cmd.writes)
      rest == Tail(cmd.writes)
  IN  /\ cmd' = IF rest = <<>> THEN Idle ELSE [cmd EXCEPT !.writes = rest]
      /\ history' = IF rest = <<>> /\ cmd.name \in {"mkfs", "bench"}
                    THEN {} ELSE history
      /\ risk' = w.risk
      /\ UNCHANGED <<up, mem, crashes>>

NextIs(areas) == cmd.writes # <<>> /\ Head(cmd.writes).area \in areas
Written == {"imap", "bmap", "csum", "inodes", "block"}

DoWriteSync ==
  /\ NextIs(Written) /\ Head(cmd.writes).sync
  /\ dev' = Put(dev, Head(cmd.writes))
  /\ Proceed /\ UNCHANGED inflight

DoWriteAsync ==
  /\ NextIs(Written) /\ ~Head(cmd.writes).sync
  /\ inflight' = inflight \cup {Head(cmd.writes)}
  /\ Proceed /\ UNCHANGED dev

DoSpinWait ==
  /\ NextIs({"wait"}) /\ inflight = {}
  /\ Proceed /\ UNCHANGED <<dev, inflight>>

\* Asynchronous writes land in any order, also across reactors.
Land ==
  \E w \in inflight :
    /\ dev' = Put(dev, w)
    /\ inflight' = inflight \ {w}
    /\ UNCHANGED <<up, mem, cmd, risk, history, crashes>>

DoStop ==
  /\ NextIs({"stop"})
  /\ up' = FALSE /\ mem' = NoMem /\ cmd' = Idle
  /\ history' = history \cup (IF mem.dirty = {} THEN {} ELSE {"csumLost"})
  /\ UNCHANGED <<dev, inflight, risk, crashes>>

Crash ==
  /\ up /\ crashes < MaxCrashes
  /\ crashes' = crashes + 1
  /\ up' = FALSE /\ mem' = NoMem /\ cmd' = Idle /\ inflight' = {}
  /\ risk' = {}
  /\ history' = history \cup {"crashed"}
                         \cup (IF risk = {} THEN {} ELSE {"damaged"})
  /\ UNCHANGED dev

Start ==
  \/ StartMkfs \/ StartCreate \/ StartQuit
  \/ \E i \in Entries(dev) :
       \/ StartRemove(i)
       \/ \E size \in 1 .. 2 : StartOwrite(i, size) \/ StartWrite(i, size)
  \/ \E n, size \in 1 .. 2 : StartBench(n, size)

Next ==
  \/ Boot \/ Start \/ DoWriteSync \/ DoWriteAsync \/ DoSpinWait \/ Land
  \/ DoStop \/ Crash

Spec == Init /\ [][Next]_vars

-----------------------------------------------------------------------------
(***************************************************************************)
(* Properties.                                                             *)
(***************************************************************************)
Indirected(d, i) ==
  IF d.node[i].indirect = 0 THEN {} ELSE ToSet(d.block[d.node[i].indirect])
DataBlocks(d, i) == ({d.node[i].direct} \cup Indirected(d, i)) \ {0}
BlocksOf(d, i)   == (DataBlocks(d, i) \cup {d.node[i].indirect}) \ {0}

\* A file, or the root, as it should be on the device d, among those in S.
Intact(d, i, S) ==
  /\ i \in d.imap
  /\ d.node[i].type = IF i = Root THEN "dir" ELSE "file"
  /\ BlocksOf(d, i) \subseteq d.bmap
  /\ \A j \in S \ {i} : BlocksOf(d, i) \cap BlocksOf(d, j) = {}
  /\ i \in File =>
       /\ Cardinality(DataBlocks(d, i)) = d.node[i].size
       /\ \A b \in DataBlocks(d, i) : d.block[b] = Data

\* Whenever the program stops, at any step of any command, only the file the
\* command is about can be harmed, and only between the writes that `open'
\* and `unsaved' name: a create, from its entry to its dinode; a file cut
\* short, from its first block zeroed to its dinode; a file removed, from its
\* inode freed to its dinode zeroed; one that write gave blocks to, until the
\* freemap is flushed; and in mkfs everything, until the inodes are zeroed.
\* All others are as they should be, free inodes have
\* no dinode that a later create would take over, and so it stays after any
\* number of such stops (inode.c:206-270, dir.c:243-270, super.c:287-318).
CrashSafe ==
  "damaged" \notin history /\ FsExists(dev) =>
    /\ \A i \in Reached(dev) \ risk : Intact(dev, i, Reached(dev) \ risk)
    /\ \A i \in Inode \ (dev.imap \cup risk) : dev.node[i] = NoDinode

\* A program that has always stopped by quit or at the end of its input left
\* freemaps that mark what can be reached and nothing else, whatever had been
\* changed in memory only (super.c:117-141, testfs.c:313-325).
CleanAfterQuit ==
  ~up /\ history \subseteq {"csumLost"} /\ FsExists(dev) =>
    /\ dev.imap = Reached(dev)
    /\ dev.bmap = UNION {BlocksOf(dev, i) : i \in Reached(dev)}

\* checkfs between two commands finds no checksum error: the checksum in
\* memory of every block of data or entries is that of what is on the device,
\* also of blocks freed and allocated again (csum.c:53-102).  This leaves out
\* volumes that have gone through a crash since their mkfs, and those that lost
\* checksums when the program quit, which CsumSurvivesQuit is about.
MemCsumValid ==
  Ready /\ history = {} =>
    \A i \in Reached(dev) : \A b \in DataBlocks(dev, i) :
      mem.csum[b] = Csum(dev.block[b])

\* Once a benchmark's last wait is over, all it has written is on the device,
\* in whatever order it landed: a crash or an end without a flush then loses
\* nothing (bench_e2e.c:55-61, 84-93).
BenchDurable ==
  [][cmd.name = "bench" /\ cmd' = Idle /\ up' =>
       /\ dev'.bmap = mem'.bmap /\ dev'.imap = mem'.imap
       /\ dev'.csum = mem'.csum /\ mem'.dirty = {}
       /\ \A i \in Entries(dev') :
            dev'.node[i].size = cmd.size /\ Intact(dev', i, Reached(dev'))]_vars

\* What include/csum.h:21-22 asks of the callers of testfs_set_csum, seen by
\* checkfs after a restart: the checksums are on the device when the program
\* has ended normally.
CsumSurvivesQuit ==
  Ready /\ history \subseteq {"csumLost"} =>
    \A i \in Reached(dev) : \A b \in DataBlocks(dev, i) :
      mem.csum[b] = Csum(dev.block[b])
=============================================================================
