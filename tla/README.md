# testFS in TLA+

testFS is a small Unix-like file system in C.  It runs inside SPDK: the file
system itself is one thread on one reactor (an SPDK event loop), its block reads
and writes are executed by two other reactors, and every command waits by
spinning on counters that those reactors increment.  This directory holds a
model of it in TLA+, the configurations that check the model with TLC, and
proofs for TLAPS.

Paths below are relative to the root of the repository: `src/inode.c` is the C
file, `include/inode.h` its header.

Contents: [inventory](#1-inventory) · [modules](#2-the-modules-and-the-code) ·
[runs](#3-the-runs) · [fairness](#4-fairness) · [proofs](#5-what-is-proved) ·
[where the code and its words differ](#6-where-the-code-and-its-words-differ) ·
[not modelled](#7-what-is-not-modelled) · [plan](#8-plan)

## 1. Inventory

### The parts

| part | source | state it keeps | operations |
|---|---|---|---|
| asynchronous block I/O | `async.c`, `block.c` | `struct future` (`counts`, `expected_counts`, one slot per reactor), heap requests, the device | `future_init`, `spin_wait`, `read_blocks(_async)`, `write_blocks(_async)`, the callbacks |
| device | `device.c` | descriptor, channel and buffer of each reactor, the count of reactors that are ready | `dev_init`, per-reactor init, `dev_stop` |
| bitmap | `bitmap.c` | words of bits | create, alloc (lowest free), mark, unmark, isset, equal, count |
| super block, allocator | `super.c` | the layout, the two freemaps, the checksum table, in memory and on the device | mkfs, init (mount), flush/close (unmount), alloc/free of blocks and inode numbers, checkfs |
| checksums | `csum.c` | the table, a dirty bit per block of it | get, put (write through), set (memory only), flush, verify |
| inode, block map | `inode.c` | dinode: size, 4 direct pointers, one indirect pointer; the indirect block | get/allocate block, read, write, truncate, check |
| inode, alternate write | `inode_alternate_*.c` | `in->indirect`, a cached copy of the indirect block, flags `DIRTY`, `INDIRECT_DIRTY`, `INDIRECT_LOADED` | write, bulk sync of many inodes, each synchronous and asynchronous |
| inode cache | `inode.c` | hash table, reference counts | get, put, sync, create, remove |
| directories | `dir.c` | entries (number, name) in the data of a directory, `-1` for removed | add, remove, find; `cd`, `ls`, `mkdir`, `touch`, `rm` |
| file commands | `file.c` | – | `cat`, `catr`, `write`, `owrite`, `import`, `export` |
| transactions | `tx.c` | the kind of the transaction under way | start, commit (assertions only) |
| command loop | `testfs.c` | the current directory | tokenising, dispatch, start and quit |
| benchmarks | `bench*.c`, `perf_test.c` | – | mkfs, files written and synced in bulk, with the flushes `write` leaves out |

### How they interact

* **Calls.**  A command (`file.c`, `dir.c`) looks up a name, gets the inode,
  changes data through the block map, syncs the inode and puts it.  The block
  map takes blocks from the allocator, which scans the bitmap; each block
  written has its checksum set.
* **Messages and callbacks.**  `read_blocks_async` and `write_blocks_async`
  send an event to another reactor.  There the request is submitted to the
  device; the completion callback copies data out (reads), increments
  `f->counts[reactor]` and frees the request.
* **Shared state.**  The future, and the destination of a read, are stack
  objects of the *calling* function: the callbacks write to another thread's
  stack through a pointer held in the request.  The caller polls
  `counts[i] == expected_counts[i]` for each reactor.  The file system proper
  is single-threaded.
* **Memory and device.**  Dinodes, indirect blocks, freemaps and the checksum
  table exist in memory and on the device, and different operations write
  different ones through: the classic write path writes everything at once, the
  alternate path leaves the freemap, the checksums and the indirect block in
  memory until somebody flushes them.

### What is hard

* *Concurrency.*  Requests on two reactors complete in any order, while the
  caller issues more; futures are reused at the same stack addresses.  One count
  in the wrong slot, or too early, shows as a rare corruption.
* *Failure.*  The disk fills up in the middle of a write, at any of the
  allocations a write makes (data block, indirect block), on two write paths
  that allocate in different orders and roll back differently.
* *Long sequences.*  The block map has no free list or log: whether a block is
  in use is known by the bitmap, by the references, and by the sizes.  A
  mismatch left by one command is an assertion failure, or two files sharing a
  block, several commands later.
* *Boundaries.*  Rounding of sizes to blocks, direct/indirect, a freemap longer
  than the checksum table.
* *Restart.*  What was only in memory is gone: after an orderly end, what was
  not flushed; after a crash, also what the command under way had still to write.
  There is no journal, so what is left depends on the order of the writes.
* *Start and stop.*  Three reactors come up concurrently and one of them starts
  the program; at the end it takes down channels that the others use.

### What makes each part correct

* asynchronous I/O: a wait ends exactly when everything issued on the future has
  taken effect; a wait ends; no callback outlives the frame it writes to, save in
  one case where the code lets it, whose damage has to stay where it is.
* bitmap: it hands out the lowest free number and nothing that is in use; its
  comparison looks at real bits only.
* block map: no block is referenced twice; a referenced block is never free;
  every block below a file's size is mapped; a failed write leaves no trace;
  the freemap is exactly what the files reference; the cached indirect block
  never overwrites what a truncation did.
* directories and inode cache: names are unique, an inode in memory is counted
  by those who hold it, a removed inode is held by nobody, nothing dirty is
  dropped.
* bulk sync: every dinode in the list reaches the device, none beside it in its
  block is touched, and no two requests for a block are under way at once.
* volume: what is on the device at any moment can be mounted again: a crash
  harms no file but the one being changed, and that only in known windows; after
  an orderly end the freemaps are exact.
* start: the program is started once, with every channel acquired.

`PROJECT.json` lists these as hazards, each at the line where it bites, with the
properties that watch it.

## 2. The modules and the code

| module | models | abstract specification |
|---|---|---|
| `AsyncIO` | `async.c`, `block.c` | `FutureStore` |
| `Bitmap` | `bitmap.c` | `BitSet` |
| `BlockMap` | the block map of `inode.c`, `inode_alternate_common.c` and `inode_alternate_async.c`, the allocator and checkfs of `super.c`, `csum.c`'s limits, the commands of `file.c` that change blocks, `rm` | `BlockOwner` |
| `Namespace` | `dir.c`, the inode cache of `inode.c`, the inode freemap of `super.c`, the walk of checkfs, `catr`, the current directory, quit and start | `NameTree` |
| `BulkSync` | `testfs_bulk_sync_inode` and `_async` (`inode_alternate_*.c`), with the wait of their caller | uses `FutureStore` for the I/O |
| `Volume` | what is on the device: `super.c` (mkfs, start, end, allocation), `csum.c`, the writes of `inode.c`, `dir.c`, `file.c`, `inode_alternate_sync.c` and `bench_e2e.c` in their order; crashes | |
| `DeviceInit` | `device.c` | |
| `TestFS` | `DeviceInit` and `AsyncIO` composed: start, commands' I/O, stop | |
| `AsyncIOProofs`, `BitmapProofs`, `BlockMapProofs`, `BulkSyncProofs`, `NamespaceProofs`, `TestFSProofs`, `VolumePlans`, `VolumeProofs` | theorems (`VolumePlans`: the lemmas of `VolumeProofs` about plans, runs and three of the commands) | |
| `MCAsyncIO`, `MCBlockMap`, `MCNamespace` | the symmetry TLC uses | |

### AsyncIO

A request is a record at a heap address (`Request`), with a stage: `queued`
(event sent), `submitted` (accepted by the device), `finished` (data moved),
`copied` (read callback past its `memcpy`), `lost` (submission rejected).  A
future lives at a stack address (`Frame`), which is used again once the owning
call has returned; a request keeps the *address*, so a callback that comes too
late counts for whoever lives there by then.  `frame` is what the calling code
knows of the address: `dead`, `ready` (initialised, nothing outstanding),
`reading` (nothing but reads of the data reactor issued since the last wait),
`issued` (other requests too), or `local` for the private future of
`read_blocks`/`write_blocks`.

| action | code |
|---|---|
| `FutureInit` | `future_init`, `async.c:27-32` |
| `IssueAsync` | `read_blocks_async`, `write_blocks_async`, `block.c:116-154` |
| `IssueAndWait` | `read_blocks`, `write_blocks`, up to the spinning |
| `SpinWait`, `SpinStep`, `SpinReturn` | `spin_wait`: entry, one pass of the inner loop that finds the slot complete, return |
| `Return` | the end of the function that owns the future: everything has been waited for, or it is the early return of `inode_alternate_async.c:90` |
| `Store` | the caller writes its buffer, possibly one just issued from |
| `Submit`, `DeviceExec`/`DeviceFail`, `CopyOut`, `CountUp` | the event handlers and completion callbacks, split where another thread can look |

The data is there so that `FutureStore` can speak of it: buffers and blocks hold
abstract values.  The callers are free to do anything the source allows.  They
never use a buffer that is the destination of a read under way (`Usable`), and
they wait for a future before they leave it, with one exception: when a block
cannot be allocated, the `RETURN_IF_NEG` of `inode_alternate_async.c:90` leaves
`testfs_write_data_alternate_async` with the reads issued on `head_tail_f` still
under way.  That is the second half of `Return`, for a frame that is `reading`.
The history variable `abandoned` has the addresses where it happened, at most
`MaxAbandoned` of them; from then on `Usable` excludes nothing, since what the late
reads fill is stack that other calls use by now.  That the control flow really
leads there is shown in `BlockMap` (`TailReadAwaited`, finding 3 of section 6).

What such a late read does is part of the model: it counts for whatever future
lives at the address, so the wait there ends too early, and a `write_blocks` that
was waiting can itself outlive its future.  So neither "no callback outlives its
future" nor "only the reads that were left behind do" is true of the code, and
TLC refutes both.  True is `OnlyAbandonedDangle`: however far this goes, it stays
at addresses that were abandoned and on the data reactor, since no request of
the metadata reactor is ever left behind; and `CountsMatch` and `WaitComplete`
are exact everywhere else (`Exact`).

`FutureStore` is what callers rely on: writes and reads take effect atomically,
once, in any order, and a wait ends only when all of the future's have.  A
request the device fails has no effect, or zeroes the reader's buffer (the
request's own buffer comes from `spdk_dma_zmalloc`), and its wait ends like any
other: `success` is ignored.  No reactors, counters or frames.  `AsyncIO` is a
`FutureStore` for as long as nothing is abandoned.

### Bitmap

Words are sets of bit positions, `Alloc` finds the first word with a clear bit
and the first clear bit in it, as the two loops do, and the leftover bits of the
last word are set on creation.  There are none in this program, whose four bitmaps
(`super.c:73, 84, 266, 269`) have a whole number of words: that branch of
`bitmap_create` is checked as part of `bitmap.c`, for any size.  `BitSet` is a set of numbers from which the
least free one is taken.  The asserts of `bitmap_mark` and `bitmap_unmark` are
guards here; that callers meet them is the business of `BlockMap`.

### BlockMap

The largest module.  A command is under way or not (`cmd`); one iteration of a
write loop is one step, so that failure between any two allocations is a
state.  `marked` is the freemap, `inode` the dinodes, `table` the contents of
each device block *read as an indirect block* (zeroed blocks have no entries),
`flags` and `cache` the in-memory part of the one inode the command holds.  An
assertion that fails sets `aborted` to its file and line, and nothing happens
any more; so the model never continues past an abort, and each assertion of the
mapping code is a property.

The two write paths are separate sets of actions, as they are separate code:
`Alt…` for the alternate path (data block first, indirect block second, entries
in the cache, no rollback) and the others for the classic path (indirect block
first, entries written through, rollback by growing the size to what was written
and truncating to what it had been).  `Truncate…` is `testfs_truncate_data`,
with its four assertions and that of `bitmap_unmark`.  `Sync` is
`testfs_sync_inode` with its assertion, and the write-back of the cached
indirect block.

`BlockOwner` says what the allocator promises: a block has one owner, and moves
between files only by way of nobody.  A block that is marked but referenced by
nobody is `lost`, which the code cannot undo.

Abstractions: file contents are not modelled; a checksum is only an index that
must be inside the table; file names are the files themselves; an inode number
is the file.  The data of directories is written through the classic path like
that of any other file, and is one to this module.

### Namespace

A directory is the sequence of its entries in the order of its data; removing
an entry sets its number to -1 and leaves it, and `testfs_add_dirent` uses it
again for a name of the same length (`Stops`, `Place`), so there are names of
two lengths.  `count` is `i_count`, 0 when the inode is not in memory; `dirty`
is `I_FLAGS_DIRTY` of what is in memory; `freemap` is the inode freemap.

| action | code |
|---|---|
| `Create` | `testfs_create_file_or_dir` with `testfs_create_inode`, `testfs_create_empty_dir`, `testfs_add_dirent`, the two syncs and the put |
| `CreateFails` | the same, to the label `out`, when the entry cannot be appended |
| `Rm` | `cmd_rm`, `testfs_remove_dirent`, `testfs_remove_inode` |
| `Cd` | `cmd_cd`, with the assertion of `testfs_put_inode` |
| `Look` | `pwd`, `stat`, `cat`, `ls`, `lsr`, `checkfs`: they change nothing, and what is modelled is which of their assertions can fail |
| `Restart` | quit and the next start: the put of the current directory, and `inode_hash_destroy`, which asserts that nothing is in memory |
| `Catr`, `CatrSkip`, `CatrDescend`, `CatrEnd` | `cmd_catr`, one step per entry; its recursion is the sequence `stack`, and `c->cur_dir`, `tmp_inode` and `cin` are `cur` and the `tmp` of the frames |

Commands run one at a time and a command is a step.  `catr` is cut into steps
because it is the one command that changes shared state (the current directory)
around a call of itself: its invariants are about the middle of it.

A command that fails before it has changed anything is no step.  Where an inode
was freed under its holder (`count[cur] = 0`) the code's behaviour is undefined,
and the model stops.

`BlockMap` and `Namespace` meet in one place: an append to a directory may fail,
which is nondeterministic here (`CreateFails`: at the greatest size always, at
the start of a new block possibly), and is what `BlockMap` shows to leave no
trace but the dirty flag.

`NameTree` has numbers in use and links `(directory, name, number)`: `Make` adds
a new number under a name that is not taken, `Remove` takes away a link to a
number under which there is nothing.

### BulkSync

One call of `testfs_bulk_sync_inode_async` or of its synchronous twin (`sync`),
on any list of different inodes in any order, of which any may have a dirty
indirect block.  The disk, the buffers and the requests are those of
`FutureStore`, the abstract specification that `async_safety` shows `AsyncIO` to
implement: a write takes the contents of the buffer when it is issued, takes
effect at some later moment before the wait on its future ends, and two of them
in any order.

| action | code (`inode_alternate_async.c`; the twin has the same at `inode_alternate_sync.c:116-158`) |
|---|---|
| `FlushIndirect` | an iteration of the loop over the indirect blocks, 123-136 |
| `Sort` | `qsort`, 139; inodes of one block in any order |
| `FlushBlock`, `LoadBlock` | 153-160: a new block is reached, the one built is written, the next one read and waited for |
| `CopyDinode` | 162-165 |
| `FlushLast` | 169 |
| `CallerWait` | `spin_wait(&f)` in the caller, `bench_e2e.c:92` |
| `Reactors` | a request takes effect, a wait ends |

A block is its dinodes, each `"old"` or `"new"`: old on the disk, new in memory.
That is enough to see a dinode lost, brought back or changed that should not be.

### Volume

The device and the memory apart, and the order of the writes.  A command is a
sequential program that alone uses the memory of the process, so each function
of the source is an *operator* from a run to a run (the device as the command
sees it, the memory, the inodes in memory, the writes so far), and a command
started (`StartMkfs`, `StartCreate`, `StartRemove`, `StartOwrite`, `StartWrite`,
`StartBench`, `StartQuit`) is the list of the writes of its run.  The writes are
then the steps:

| action | code |
|---|---|
| `DoWriteSync` | `write_blocks`: the block is on the device |
| `DoWriteAsync`, `Land` | `write_blocks_async`, and the moment it takes effect: any, and in any order |
| `DoSpinWait` | `spin_wait`: enabled when nothing is in flight |
| `DoStop` | `dev_stop`, the end of the program |
| `Crash` | the process ends between two steps; its memory and what is in flight are gone |
| `Boot` | `testfs_main`: `testfs_init_super_block`, the root |

The operators have the names of the functions (`AllocBlock` is
`testfs_alloc_block`, `SyncInode` is `testfs_sync_inode`, ...), and where the
source writes a block, in its order, they issue a write: `testfs_alloc_block`
the block of the freemap, `testfs_put_csum` the block of the table, a sync the
inode block and then the dirty indirect block, and so on.

A write is a request of `block.c`: an area of the device, contents by the number
of their block (`Hits`, `Put`), and whether it is waited for.  The requests in
flight are a set: two alike would have the same effect, and the model never has
different ones for the same block.  A loop that writes blocks one by one, in
ascending order, is `WriteEach`.  A block is a sequence of words, the words left
out being 0, and a checksum is the set of the bits that are set in an odd number
of its words, which is what the exclusive or of them is.

`risk` is what the model says about crashes: the inodes that may be harmed if
the process stops now.  It is not in the code; it is the claim `CrashSafe` makes
precise, and it is small:

* `create`: the new file, from its entry (`dir.c:266`) to its dinode;
* a file cut short (`owrite`, `write`): from the first block zeroed
  (`super.c:223`) to its dinode;
* `rm`: the inode number, from `inode.c:267`, which frees it, to `inode.c:268`,
  which zeroes the dinode.  Until then a `create` after a restart would take
  over the old size and blocks;
* `write` and the benchmarks: a file they gave blocks to, until the freemap is
  flushed -- by the benchmark at its end, by `write` not before `quit`;
* `mkfs`: everything, until the inode blocks are zeroed.

Each of these windows is needed: with any one left out of `open` or `unsaved`
TLC finds `CrashSafe` violated.  A crash inside one sets `damaged`, after which
the model allows `mkfs` and `quit` only; a crash outside leaves a volume on
which everything goes on, and the invariant keeps on holding.

Bounds and simplifications: four data blocks, three inodes, two groups of blocks
in the freemap and two in the checksum table, two inode blocks, words of three
bits (-1, which marks a removed entry, is 7), at most two crashes; one directory; files of one direct and one indirect block, whole, with
one value of data; commands get blocks enough (`BlockMap` is about the others);
`mkfs` on a volume that is missing, damaged or empty; the benchmark on an empty
volume, half a trial at a time.  The super block is written by the same
functions, always with the same contents, and is left out.

### DeviceInit and TestFS

`DeviceInit` has the event queue of each reactor, which takes events one at a
time.  `start` sends `acquire_io_channels` to all three (`SendAcquire`), each
acquires its channel and answers to the main one (`Acquire`), which counts down
(`Complete`) and with the last answer frees the context and sends itself the
event that runs `testfs_main` (`RunApp`).  `PutChannel` and `Close` are
`dev_stop`.  The main reactor takes no event while `start` or the program runs
on it; the others do.

`TestFS` puts `AsyncIO` under it: requests are issued and served while the
program runs (`Serve`), and `dev_stop` comes when the command loop has ended
(`InCommandLoop`): its order relative to the requests is what `ChannelHeld` is
about.

## 3. The runs

All runs use small constants chosen so that every boundary is inside the reach
of a short command.  `BlockSize = 2` distinguishes empty, partial and full last
blocks; `NDirect` and `NIndirect` of 1 or 2 make every file shape (no block,
direct, the first and the last indirect entry, too big) reachable with sizes up
to 9 bytes.

| run | asks | bounds |
|---|---|---|
| `async_safety` | types; counters account for requests (`CountsMatch`); a wait is complete (`WaitComplete`); requests outlive their frames only where reads were left behind (`OnlyAbandonedDangle`); until then the layer is a `FutureStore` (`ImplementsFutureStore`). The device may fail requests and reject submissions. | 3 reactors as shipped, 2 requests, 2 frames of which one may be abandoned (`MaxAbandoned = 1`), 1 buffer, 1 block, 2 values, 1 operation per reactor and future |
| `testfs` | the program starts (`ProgramStarts`) once, when all channels are held (`StartsReady`); no channel is put under a request (`ChannelHeld`); every `spin_wait` returns (`EveryWaitReturns`), with I/O errors reported by the device | 3 reactors, 2 requests, 2 frames, none abandoned (`MaxAbandoned = 0`), 2 operations per slot, one value |
| `bitmap` | types, checkfs comparison (`EqualsRebuilt`), refinement of `BitSet` | 11 bits: one full word and one with leftover bits, which no bitmap of the program has; all 2^11 states of the bits |
| `blockmap_full` | the main run, all commands on a disk that fills up: `NoSharedBlock`, `RefsMarked`, `NoHoles`, `MappingAssertsHold`, `IndirectFlushSafe`, `FailedWriteRollsBack`; a command that succeeds on a clean volume leaves the freemap with exactly the blocks files reference and each file with exactly the blocks of its size (`CheckfsClean`); `ImplementsBlockOwner` | 2 files, 5 blocks; a file needs up to 5 with its indirect block, so every allocation of a command can be the one that fails |
| `blockmap_halfway`, `blockmap_import_exact`, `blockmap_tail_read` | violations, one finding each, see section 6 | |
| `namespace` | unique names (`NamesUnique`); the freemap is the tree (`FreemapIsTree`); counts are holders (`CountsAreHolders`); what is held is not removed (`HeldNotRemoved`); assertions of `pwd`, `checkfs`, quit (`TreeAssertsHold`); `catr` comes to an end (`NoReentry`); refinement of `NameTree` | 3 inodes, 2 short names and 1 long, directories of 5 entries, 2 per block |
| `namespace_catr` | a violation, see section 6 | as above |
| `bulk_sync` | what was to be saved is on the disk after the wait (`BulkSynced`), or never out of sight before (`CleanIsSaved`); dinodes and indirect blocks not in the list are never touched (`OthersUntouched`); nothing new is overwritten by what was there before (`NeverBack`); no two requests for one block (`OneRequestPerBlock`) | 5 inodes, two to a block, the last block half full; all lists, in all orders; 2 dirty indirect blocks; 6 requests, the most there can be |
| `volume` | a crash at any moment (`CrashSafe`), an orderly end (`CleanAfterQuit`), checksums in memory (`MemCsumValid`), what the benchmarks leave (`BenchDurable`) | see Volume above |
| `volume_csum` | a violation, see section 6 | as above |

Why these bounds are enough.  In `AsyncIO` the properties relate one future to
the requests that name it; interference needs a second frame (an address used
again) and a second request, and there are three slots with two of them in use.
Two requests on one slot are in `testfs`.  One abandoned address is enough for a
late read to end a later wait at it too early, next to a future it must not
touch; with two addresses and one of them abandoned both are there.  One buffer
is the worst case for the data: every request and every `Store` meets in it.
`testfs` is about a program in which no write fails with its read under way: with
such a read `ChannelHeld` would be false, since nothing waits for it at the end.  In `Bitmap` words are treated
alike except the last.  In `BlockMap` two files are what it takes to share a
block; what a command does depends on which of its entries are mapped and on
whether there is a free block, never on which block it is.

In `Namespace` three inodes are two directories one below the other or side by
side, or a directory and a file; a directory of five entries has room for a
removed one, a live one and one more, which is what using entries again needs;
the second block of a directory begins at the third entry and the third at the
fifth, so an append may fail below the greatest size and at it.

`CheckfsClean` is about commands that succeed on a clean volume, other than
`import` of a whole number of blocks, because of findings 1, 2 and the
one without a run: it fails there.  *Clean* says that `checkfs` finds
nothing to say: `testfs_check_inode` stops at the first entry that is not mapped, so
a file that has blocks behind a gap (section 6) has the size it should, but its
blocks behind the gap make the freemap inconsistent.  `MappingAssertsHold`
leaves out the assertions `inode.c:394`, `inode.c:210` and `super.c:253`, which
can fail.

Every property has a mutant in `PROJECT.json`: a change of one definition, of
the kind a slip in the code would be, under which TLC reports that property.
They are the operators whose comment begins with *Mutated*.

In `BulkSync` three blocks of inodes are a first, a middle and a last one; what
matters inside a block is that there is a dinode in the list and one that is
not.  In `Volume` a file of two blocks has every kind of block (data, direct and
indirect, and the indirect block); two groups make a write of one of them
different from a write of all; two inode blocks put the root and one file in the
same one and another file apart.  The second crash is there because a state
after a crash differs from any before it: blocks marked and not used, inodes in
use and not entered.  Without a crash the model has 64 thousand states, with one
0.8 million, with two 3.5 million.

`CHECK_DEADLOCK FALSE` is set where the program may stop: an aborted program in
`BlockMap`, a lost request in `AsyncIO`, the end of the program in `TestFS` and of
the call in `BulkSync`.  `Volume` never stops: there is always another start.

## 4. Fairness

`SysFairness` (`TestFS`) assumes weak fairness of the start (`start` returns, and
every reactor polls for ever), of the progress of each request (a reactor polls,
and the device answers what it has accepted) and of the steps of
`spin_wait` (a busy loop that nothing suspends).  Nothing makes the main thread
issue a command, or stop.  `FairSpec` of `AsyncIO` is its part about requests.  Once the program has started the main reactor is *not* fair, nor enabled: it runs
`testfs_main`, which does not return to the event loop before the program ends,
and this is why `IOReactor` leaves it out and no caller in the source sends
requests to it.

## 5. What is proved

`AsyncIOProofs`, for any number (at least two) of reactors, any finite set of
requests, any futures, blocks, buffers and values, whatever the device answers:

* `TypeCorrect`: `Spec => []TypeOK`.
* `WaitIsComplete`, `CountersAgree`, `DamageIsConfined`: `Spec => []P` for
  `WaitComplete`, `CountsMatch`, `OnlyAbandonedDangle`, however many addresses
  are abandoned and however they are used again.

`WaitComplete` alone is not inductive: that the loop has passed slot 0 says
nothing about slot 0 now.  The inductive invariant is

    IInv == TypeOK /\ CountsMatch /\ PendingFrames /\ SpinProgress /\ NothingLeft

`CountsMatch` turns equality of the two counters into *no request of this future
and slot exists*; `PendingFrames` says that requests name only futures that are
waited for or that their owner still has to wait for; `SpinProgress` says that
the slots the loop has passed have no requests, which stays true because the
only thread that could issue one is in the loop.  `CountedStep` (a callback
counts up and frees its request) and `IssuedStep` are where the cardinalities
change.  All three are about the pairs of a future and a reactor that are
`Exact`: a late read can disturb the pair of its address and the data reactor,
and no other, and `AbandonedStays` says that a pair once disturbed is never
claimed to be exact again.  A return by the early exit adds a pair that is about
to be disturbed; that it adds only one is where it is needed that the frame was
`reading`, with nothing of another reactor under way.  `NothingLeft` (with
`MaxAbandoned = 0` nothing is abandoned) is for `TestFSProofs`.

`ImplementsStore`, in the second part of the module: `Spec => ImplementsFutureStore`,
which is about steps taken before anything is abandoned.
A request leaves the abstract store when the device has finished it; from then
until `CopyOut` a read shows in the abstract buffer and not yet in the real one.
The invariant adds that no buffer is the destination of two reads (`OneReader`),
so that there is one thing to show, and that the request of a read the device
has not answered holds zeroes (`EmptyReads`), which is what a failed read copies
out.  That a wait of the store ends only when nothing is pending on the future is
`WaitComplete`.

`BitmapProofs`, for every number of bits: type correctness (so the assertion
`bitmap.c:82` holds), `EqualsRebuilt`, and the refinement
`Spec => ImplementsBitSet`.  The invariant adds to the types that the leftover
bits are in use, without which an index beyond `nbits` would be handed out.

`NamespaceProofs`, for any numbers of inodes and entries, any names of the two
lengths other than `.` and `..`, whatever `catr` is given and however deep it
may call itself:

* `UniqueNames`: `Spec => []NamesUnique`;
* `ImplementsTree`: `Spec => ImplementsNameTree`.

The inductive invariant is

    IInv == Types /\ Sizes /\ Dirs /\ NamesUnique /\ Kids

`Kids` says that a child is in use, is the child of one directory under one
entry, and is neither the root nor its own parent; `Dirs` that only a number in
use has a type, only a directory entries, and that the root, the current
directory and those a `catr` will come back to are directories.  Names are
unique because `testfs_create_file_or_dir` looks the name up first: after that,
the place `testfs_add_dirent` finds is removed or past the end.  (That a scan
finds the *first* such place needs that a set of numbers has a least element,
`LeastInSet`.)  An `rm` takes away the only entry of its inode, and of a
directory only when it is empty; with `Kids`, nothing that is left refers to it.
The reference counts are not needed for this: the assumption that a command only
runs while the current directory is in memory is the guard `Ready`.
`CreatedAs` and `RemovedAs` say what a command that makes or removes an inode
does to entries and numbers, and `StepOfTree` that every other step leaves them,
so that the argument for the tree is made once for each of the two.
`LinksAre` says what the set of links is, entry by entry.

The second part of the module goes on from that invariant to what the commands
keep in memory, for the same constants:

* `FreemapIsTheTree`: `Spec => []FreemapIsTree`, and `TypeCorrect`:
  `Spec => []TypeOK`, whatever `catr` is given;
* `CountsExact`, `HeldInUse`, `AssertsHold`: `Spec => []P` for
  `CountsAreHolders`, `HeldNotRemoved` and `TreeAssertsHold`, if `catr` is only
  given `.` or `..`;
* `NoDirectoryTwice`: `Spec => []NoReentry`, if it is only given `.`.

`FreemapIsTree` speaks of the inodes one comes to from the root in `NInodes`
rounds of an iteration; `TreeInv` adds that a number in use is listed in some
directory (`InUse`), that `.` and `..` are what they should be (`DotEntries`),
and that the directories have levels (`IsDepth`), which no cycle has.  A new
directory gets the level below its parent's, and an `rm` takes a leaf away.  That
a chain of parents from any inode comes to the root in so many rounds is
`FreemapIsBelow`, by the levels and by the number of inodes; the iteration itself is
turned into a function on the natural numbers by `Iterated`, step by step, since
no theorem about recursive functions can be instantiated.

For the counts, `Rest(i)` is what is counted of inode `i` beyond what the calls of
`catr` hold.  That it is not negative (`Held`) is true whatever `catr` is given,
and is what `TypeOK` needs: a call puts only what it got.  That it is 1 for
the current directory, or for the one the outermost call began in (`Home`), and 0
for any other (`Exact`), needs that a call that has descended never fails, and so
that the argument is a name every directory has: hence `CatrArgs` is assumed to be
among `.` and `..`.  For other names `CountsAreHolders` is false, which is finding
4: `goto out` loses a count of the directory the command began in, and leaves one
that is not counted as the current one.  `NoReentry` is false for `..` (section 6);
for `.` the calls go down one level each (`Descends`), and levels are no more than
inodes, so that the recursion is bounded by the tree and not by `MaxStack`.
`CatrKeepsCurDir`, the property of finding 4, follows from none of this.

`BulkSyncProofs`, for any number of inodes, of dinodes in a block and of
requests, any list of different inodes in any order, and both twins:
`Spec => []P` for `TypeOK`, `BulkSynced`, `OthersUntouched`,
`OneRequestPerBlock`, `CleanIsSaved`, and `Spec => NeverBack`.  The inductive
invariant is

    IInv == /\ TypeOK /\ LoopInv /\ DiskInv /\ PendingInv /\ OneRequestPerBlock
            /\ BufInv /\ IndirectInv /\ WaitInv /\ DirtyInv

Everything turns on `Flushed(b)`, the inode blocks the loop has left behind.
`LoopInv` says that the sorted list is split at `at`: what comes before is in
blocks up to `cur_block_nr`, what comes after is not below it; so a block that
is left is never met again.  `DiskInv` says that on the disk exactly dinodes of
the list in flushed blocks are new, or a write that makes them so is under way;
`PendingInv` that such a write has *all* new dinodes of its block and no other
(the buffer was complete when it was issued), so that it does not matter when it
takes effect; `BufInv` that the buffer has the dinodes copied so far, unless the
read that fills it is still awaited; `WaitInv` that the wait that ends the call
leaves nothing under way.  `WriteBufInv` is the step where a finished buffer is
written, common to the blocks in the middle and the last.  Assumed of the
arguments: the inodes are different, and their indirect blocks are too
(`NoSharedBlock` of `BlockMap`).  The device answers every request: a write
that fails loses its dinodes, and nobody is told.

`BlockMapProofs`, for any sizes of a block, of a dinode, of the freemap and of
the checksum table, any files and any commands: `Spec => []P` for `TypeOK`,
`NoSharedBlock`, `RefsMarked`, `NoHoles`, `MappingAssertsHold` and
`IndirectFlushSafe`.  The inductive invariant is

    IInv == Types /\ Volume /\ Cached /\ Loops

`Volume` is about what exists whatever the command: no block is shared, what is
referenced is marked, every block below the size of a file is mapped at every
step and not only between commands (`NothingMissing`), and a free block has no
entries (`Cleared`), without which a block that becomes an indirect block on the
alternate path, which does not write it before the sync, would bring old
pointers with it.  `Cached` is about the indirect block in memory: while it is
dirty it has every entry the device has, and what it has in addition lies beyond
the size.  That is why the truncation after an alternate write, which cuts
entries on the *device*, has nothing to cut: the write was shorter than the file
only if nothing was dirty.  `Loops` is where the write loops are: what is behind
is mapped, so the size may grow to it, and the alternate write starts at block 0.

Every step is one of three: it takes free blocks for one file (`Takes`), gives
blocks of one file back (`Gives`), or leaves references and freemap alone.
`TakesSafe` and `GivesSafe` show once that the first two keep `NoSharedBlock` and
`RefsMarked`; a write is a `Stores`, and `BlockDone` is the iteration of a loop,
common to the paths.  `View` reads the blocks of a file off a dinode and a list of
entries, and is how the proof speaks of a file whose indirect block is in memory
and of one whose is not in the same way.  The truncation is the one step that
needs the sizes as numbers: `CutIs` and `CutIsMapped` say which places it cuts,
and `BlocksOfCounts` what `DIVROUNDUP` counts.

`ImplementsOwner`, at the end of the module: `Spec => ImplementsBlockOwner`, from
the same invariant.  `Moved` is proved of every step; a step that takes maps to
`Take` of the file, one that gives to `Release`, and `OwnerIs` says that the owner
the refinement chooses is the one file that references the block.

The last part of `BlockMapProofs` is about a command from its start to its
end, for the same constants: `Spec => []FailedWriteRollsBack` and `Spec => []CheckfsClean`.  The inductive
invariant is

    CInv == IInv /\ Ahead /\ NothingBeyond /\ SinceStart

`Ahead`: the call of a write loop has something left to write in block
`cmd.next`, so the block it maps lies below the size the call will leave.  That is
what `import` of a whole number of blocks breaks (finding 2), and why `CheckfsClean`
excepts it.  `NothingBeyond`: since it started on a clean volume the command has
lost no block, and has mapped none beyond the *extent* of its file, which is its
size or, in a loop, what the loop has mapped so far.  `SinceStart` compares the
file with the snapshot of its start: in the loop of an `owrite` it has grown by
blocks that were free, at places that were empty, before `cmd.next`
(`GrownSince`); when the loop has failed, before the end of the size that the
error path has set, which is how the truncation finds all of them; and after the
truncation it is as before, save for an indirect block (`AsBefore`).  The rounding
of `start + buf_offset` enters here and nowhere else: `BlocksOfReaches` says that
the size set by the error path covers every block the loop has passed.
The lemmas of `BlockMapProofs` about single actions say for this what a step does
to the command as well: an iteration `Continues` or `Completes` the call
(`Iterates`), or `GivesUp`; a truncation `Cuts`.

`TestFSProofs`, for any number of reactors: `Spec => []StartsReady` of `DeviceInit`
and the same for the composed system, `Spec => [](TypeOK /\ FreedAfterLastAnswer)`, and
`SysSpec => []ChannelHeld`.  `StartInv` counts: while the start is under way the
answers that are outstanding and the channels that are held are together as many
as the reactors and the answers on their way to the main one (`Answering`), and a
reactor that has been asked holds its channel or has the event that asks it; so the
last answer finds all channels held and no event left (`Answered`).  This is where
the order of answers drops out.  `ChannelHeld` needs the requests: they are under way
only while the program runs, since `dev_stop` comes when the command loop has ended
and each command waits for what it issued.  That is `WaitComplete`, so the theorem
assumes `MaxAbandoned = 0` and takes the invariant of `AsyncIOProofs` over by
`INSTANCE`, with its `ConstantAssumption` as a hypothesis on the constants of
`TestFS`.

`VolumeProofs`, for any numbers of blocks and inodes, of blocks to a block of the
freemap or of checksums, of dinodes to a block, of bits to a word, and of crashes
(a word has to be wide enough for the number of a block or of an inode, and no
inode may have the number -1): `Spec => []P` for `TypeOK`, `CrashSafe`, `CleanAfterQuit` and
`MemCsumValid`, and `Spec => BenchDurable`.  With other constants a directory is
still one block, which then has as many entries as there are inodes; files have
at most two blocks, and a benchmark two files, whatever the constants.

A command in `Volume` is a list of writes, made when it starts; what has to be
invariant is therefore a statement about the writes that are *still to come*.
`VolumePlans` says it with points and plans.  A point has the device `a` when
nothing was under way for the last time, the device `l` when everything issued has
landed, the requests `p` that may not have landed, and the inodes `r` at risk.  A
request leads from a point to the next (`Goes`): a synchronous one needs `p` to be
empty and goes to the device with the write on it; an asynchronous one joins `p`
and must not contradict what is there (`Agrees`), so that the order of landing does
not matter; the wait empties `p`.  Each point a request leads to has to be `Secure`:
*every* device that is, in each freemap entry, checksum, dinode and block, as `a` or
as `l` (`Between`) can be started again with no harm to anything outside `r`.  The
inductive invariant is

    IInv == /\ TypeOK /\ IsCommand
            /\ cmd # Idle => Working
            /\ cmd = Idle => inflight = {} /\ Rests(dev, mem or what a start loads, risk, history)
            /\ ~up => risk = {}

`Working`: there is a point at which the device and the requests in flight stand
(`Stands`: the device is between `a` and `l`, and where it is not `l` a request in
flight `Covers` the difference), from which the requests to come lead (`Leads`) to
a point that is what the command `Achieves`.  `Rests` is what is true between two
commands: `Consistent` says of directory, files, freemaps and checksums, on the
device and in memory, what belongs to what, and `Mirror` that a checksum in memory
that differs from the device's is marked dirty.  `CrashSafe`, `CleanAfterQuit` and
`MemCsumValid` are read off it.  None of them is inductive: that a file is whole
after a crash in the middle of `owrite` depends on the writes the command has not
issued; that `quit` leaves exact freemaps on blocks that are marked in memory only
being those of files in `risk`; that checksums are right on their being right for
blocks that a command holds and no file has yet (`hand`).

With that, the steps that issue a write, let one land, or crash are proved
without a look at any command (`DoWriteSyncInv`, `DoWriteAsyncInv`, `DoSpinWaitInv`,
`LandInv`, `DoStopInv`, `CrashInv`, `BootInv`: the first 800 lines); all the rest
shows that each command, when it starts, has a plan that achieves its end.  The
proof follows the functions of the source: `Led` and `Holds` say where a run has
got to, and there is a lemma for each operator (`SyncInode`, `WriteBlock`,
`Truncate`, `AddDirent`, `WriteAlternate`, `BulkSync`, `FlushCsum`, ...) that takes
one such statement to another.  A write keeps the volume sound at every point by
one of a few arguments: it changes what nothing refers to (`Loose`: the blocks in
hand, checksums, freemap entries of files at risk), or it is one block that changes
one dinode, one entry or one freemap at a time.  `ExecuteInv` turns what is known
of the run at its end into `IInv'`.  The benchmarks are the longest: they begin with
the whole of mkfs, at a point where everything is at risk, and none of what they
write afterwards is waited for before the end in the asynchronous twin; `Stage`
says how far the files have got, in memory and under way.  That their end is
`Durable` is part of `Achieves`, and `NextBenchEnds` finds that the last step of a
benchmark is the one that gets there, which is `BenchDurable`.

What the theorems do not say is what the model does not have: commands that run
out of blocks (`BlockMap`), directories of several blocks, torn writes.

Only model-checked: liveness (`ProgramStarts`, `EveryWaitReturns`), since TLAPS does
not reason about `ENABLED` and fairness here.  The properties of the runs that end
in a violation are false.  The inductive invariants of `BlockMap` and `Namespace` are
predicates of a state that TLC can evaluate; that of `Volume` has quantifiers over
plans, and only what follows from it is checked with TLC.

A note on `AsyncIO`: `DeviceExec` changes the stage and the value of a request with
one update of the request inside one of `req`, and not with two updates of
`req[q]` in one `EXCEPT`.  The values are the same; but the encoding of
the latter for the SMT solver is only right for updates at different places.

## 6. Where the code and its words differ

Each is a run that TLC ends with a counterexample, replayed against the source.

1. `blockmap_halfway`.  The classic path allocates the indirect block, enters it
   in the inode, and then finds no data block.  The rollback does not free it,
   and `assert(in->in.i_indirect == 0)` (`inode.c:394`) fails, then or at a later
   truncation.
2. `blockmap_import_exact`.  Importing a file whose size is a multiple of the
   block size allocates one block too many; `checkfs` asserts, and removing the
   file loses the block.
3. `blockmap_tail_read`.  The early return of the alternate write with the read
   of the last block still under way (the second half of `Return` in `AsyncIO`)
   is reachable with `create` and `write` alone.  On three data blocks: write two
   blocks to `f1`; write four, which takes the third block, fails and leaves it
   mapped beyond the size; write one, which frees only the second block and so
   leaves a gap; write one block to `f2`, which takes the freed one, and the disk
   is full; now write three blocks to `f1`, the last of them partial: its read is
   issued, the second block cannot be allocated, and the function returns.
4. `namespace_catr`.  `catr d`, where `d` has a subdirectory without an entry
   `d`: the inner call fails, the outer one leaves at `goto out` (`file.c:97`)
   and the current directory of the program is the subdirectory, which has just
   been freed.
5. `volume_csum`.  `write` changes checksums in memory and nothing flushes them,
   though `testfs_set_csum` asks its callers to (`include/csum.h:21-22`): after
   `write`, `quit` and a new start `checkfs` reports a checksum error for a block
   that is sound.

Met while modelling and not given a run of their own: `cmd_write` syncs the inode
even if the write failed before it changed anything, and `testfs_sync_inode`
asserts that it is dirty (`inode.c:210`); `touch` or `mkdir` in a directory that
cannot grow fails as it should and leaves the directory dirty, and the next `cd`,
`ls`, `checkfs` or `quit` ends the program at `inode.c:225`; a failed alternate write
leaves blocks mapped beyond the size, and `checkfs` asserts (`super.c:253`, the
assertion of finding 2), unless a shorter `write` has cut a gap in front of them:
`testfs_truncate_data` cuts below the old size only and `testfs_check_inode` stops at
the gap, so that `checkfs` prints an inconsistent freemap and asserts only after a
later write has filled the gap; the freemap hands out 8192 blocks and the checksum
table has 7680 entries, so block 7680 fails `csum.c:58`; `reactor_read` and
`reactor_write` drop the return code of a submission (`block.c:50,72`), and the
wait for a request that was not accepted never ends; `owrite` at an offset beyond
the size ends the program with `inode.c:323`; a request that the device fails is
counted like one that succeeded; `catr ..` comes back to the directory it is in,
and recurses until the stack is full; `ls`, `lsr` and `catr` of a file end the
program at `dir.c:21`.

## 7. What is not modelled

* File contents beyond one value to a block; the formats of dinodes and entries.
* The bytes of directory entries, and where in a block they lie.
* Writes at an offset inside a block on the alternate path: its three callers
  write from offset 0.
* `init_bdev` (`device.c:23-42`): calls of the library.  After
  `spdk_app_stop(-1)` it goes on with a null device, and what follows is up to
  the library.
* A torn write: the device writes a block whole.
* Transactions (`tx.c`): two assertions that calls are paired; every command
  starts and commits on each of its paths, and none calls another that does.
* The tokeniser, printing, options; measurements; `bench_raw.c`, which overwrites
  the device from block 0 and leaves no file system to speak of; `perf_test.c`,
  which is not part of the program; the vendored `list.h`.
* I/O of more than one block is one request with one value in `AsyncIO`: no caller
  overlaps requests of different length.  In `Volume` it is several writes.
* A negative offset of `owrite` (undefined behaviour in C), `ENOMEM`.
* An inode freemap with more bits than there are inodes (4096 for 2048,
  `inode.c:70`): `Namespace` has as many of one as of the other.

## 8. Plan

Done: every module of section 2 and the proofs of section 5.

What could be added: which bytes of which block a write covers, as operators
checked against a byte-by-byte definition; two levels of directories in `Volume`.
