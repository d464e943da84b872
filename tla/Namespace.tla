----------------------------- MODULE Namespace -----------------------------
(***************************************************************************)
(* Directories, inode numbers and the inodes in memory: src/src/dir.c, the *)
(* inode cache of src/src/inode.c, the inode freemap of src/src/super.c,   *)
(* cmd_catr of src/src/file.c and the current directory of src/src/testfs.c*)
(*                                                                         *)
(* A directory is the sequence of its entries, in the order of its data; a *)
(* removed entry stays, with inode number -1, and is used again for a name *)
(* of the same length.  An inode is in memory while its count is not 0,    *)
(* and must be clean whenever a count is given back (inode.c:225).         *)
(*                                                                         *)
(* One command runs at a time and is one step, except cmd_catr, which      *)
(* calls itself with the current directory changed: one step is one entry  *)
(* of one of its loops.  A command that fails without changing anything is *)
(* no step.  File contents and blocks are the business of BlockMap; what   *)
(* matters here is that appending to a directory may fail.                 *)
(***************************************************************************)
EXTENDS Integers, Sequences, FiniteSets

CONSTANTS
  ShortName, LongName,  \* names, of two lengths
  NInodes,              \* inode numbers: as many as the inode freemap has bits
  EntriesPerBlock,      \* entries of a directory block
  MaxEntries,           \* entries of a directory of the greatest size
  CatrArgs,             \* what catr may be given
  MaxStack              \* calls of cmd_catr the stack has room for

ASSUME NamespaceAssumption ==
  /\ NInodes \in Nat \ {0}
  /\ EntriesPerBlock \in Nat \ {0, 1}
  /\ MaxEntries \in Nat \ {0, 1}
  /\ MaxStack \in Nat
  /\ (ShortName \cup LongName) \cap {".", ".."} = {}

VARIABLES
  freemap,  \* the inode numbers in use
  type,     \* i_type of each inode
  data,     \* the entries of each directory
  count,    \* i_count, 0 if the inode is not in memory
  dirty,    \* the inodes in memory that are dirty
  cur,      \* c->cur_dir
  arg,      \* c->cmd[1] of the catr under way
  stack,    \* its calls, the outermost first
  aborted   \* the assertion that failed, or "none"

vars == <<freemap, type, data, count, dirty, cur, arg, stack, aborted>>

Root    == 0
Nr      == 0 .. NInodes - 1
Dots    == {".", ".."}
Name    == ShortName \cup LongName
Entry   == [name: Name \cup Dots, nr: Nr \cup {-1}]
\* A call: the directory it lists, the current directory at its start
\* (tmp_inode), and the next entry.
Frame   == [in: Nr, tmp: Nr, at: Nat]

TypeOK ==
  /\ freemap \subseteq Nr
  /\ type \in [Nr -> {"none", "file", "dir"}]
  /\ data \in [Nr -> Seq(Entry)]
  /\ count \in [Nr -> Nat]
  /\ dirty \subseteq Nr
  /\ cur \in Nr
  /\ arg \in CatrArgs \cup {"none"}
  /\ stack \in Seq(Frame)
  /\ aborted \in {"none", "dir.c:21", "dir.c:288", "dir.c:295", "inode.c:35",
                  "inode.c:225", "super.c:236", "bitmap.c:106", "stack"}

Dot(name, nr) == [name |-> name, nr |-> nr]

\* Mutated: the root is the parent of every directory.
EmptyDirInRoot(i, parent) == <<Dot(".", i), Dot("..", Root)>>

\* testfs_create_empty_dir
EmptyDir(i, parent) == <<Dot(".", i), Dot("..", parent)>>

\* After mkfs: the root directory, held as the current directory.
Init ==
  /\ freemap = {Root}
  /\ type = [i \in Nr |-> IF i = Root THEN "dir" ELSE "none"]
  /\ data = [i \in Nr |-> IF i = Root THEN EmptyDir(Root, Root) ELSE <<>>]
  /\ count = [i \in Nr |-> IF i = Root THEN 1 ELSE 0]
  /\ dirty = {} /\ cur = Root
  /\ arg = "none" /\ stack = <<>> /\ aborted = "none"

-----------------------------------------------------------------------------
(***************************************************************************)
(* Entries.                                                                *)
(***************************************************************************)
Live(e) == e.nr >= 0

LeastOf(S) == CHOOSE k \in S : \A j \in S : k <= j

Named(d, n) == {k \in DOMAIN data[d] : Live(data[d][k]) /\ data[d][k].name = n}

\* testfs_dir_name_to_inode_nr, -1 for -ENOENT
Lookup(d, n) == IF Named(d, n) = {} THEN -1 ELSE data[d][LeastOf(Named(d, n))].nr

SameLength(m, n) == (m \in ShortName) = (n \in ShortName)

\* The scan of testfs_add_dirent stops at the first entry of the name, or the
\* first removed entry of the same length.
Stops(d, n) ==
  Named(d, n) \cup
  {k \in DOMAIN data[d] : ~Live(data[d][k]) /\ SameLength(data[d][k].name, n)}

Place(d, n)  == IF Stops(d, n) = {} THEN Len(data[d]) + 1 ELSE LeastOf(Stops(d, n))
Appends(d, n) == Stops(d, n) = {}

Children(d) == {k \in DOMAIN data[d] : Live(data[d][k]) /\ data[d][k].name \notin Dots}

WithEntry(s, k, e) == [j \in DOMAIN s \cup {k} |-> IF j = k THEN e ELSE s[j]]

-----------------------------------------------------------------------------
(***************************************************************************)
(* Commands.                                                               *)
(***************************************************************************)

\* Using an inode that was freed is undefined: nothing is said of what follows.
Ready == aborted = "none" /\ stack = <<>> /\ count[cur] > 0

Abort(where) ==
  /\ aborted' = where
  /\ UNCHANGED <<freemap, type, data, count, dirty, cur, arg, stack>>

\* Mutated: testfs_create_file_or_dir leaves it to testfs_add_dirent.
NameTakenUnchecked(d, n) == FALSE

\* The first check of testfs_create_file_or_dir.
NameTaken(d, n) == Lookup(d, n) >= 0

\* touch, mkdir, and the first part of import; names are never . or .., which
\* every directory has.  The lowest free inode number is
\* taken, a directory gets its two entries, and the new entry is put in place;
\* then the directory and the inode are synced.
Create(kind, n) ==
  /\ Ready /\ freemap # Nr /\ ~NameTaken(cur, n)
  /\ LET i == LeastOf(Nr \ freemap)
         k == Place(cur, n)
     IN  /\ k <= MaxEntries
         /\ k \in DOMAIN data[cur] => ~Live(data[cur][k])
         /\ freemap' = freemap \cup {i}
         /\ type' = [type EXCEPT ![i] = kind]
         /\ data' = [data EXCEPT ![cur] = WithEntry(@, k, [name |-> n, nr |-> i]),
                                 ![i] = IF kind = "dir" THEN EmptyDir(i, cur) ELSE <<>>]
         /\ dirty' = dirty \ {cur}
  /\ UNCHANGED <<count, cur, arg, stack, aborted>>

\* The entry has to be appended, and the directory has its greatest size, or
\* needs a block and gets none.  The new inode is removed again; rolling back
\* the append leaves the directory dirty, and nobody syncs it.
CreateFails(n) ==
  /\ Ready /\ freemap # Nr /\ ~NameTaken(cur, n)
  /\ Appends(cur, n)
  /\ \/ Len(data[cur]) = MaxEntries
     \/ Len(data[cur]) % EntriesPerBlock = 0
  /\ dirty' = dirty \cup {cur}
  /\ UNCHANGED <<freemap, type, data, count, cur, arg, stack, aborted>>

\* Mutated: . and .. may be removed.
RemovableAny(d, n) ==
  LET i == Lookup(d, n)
  IN  i >= 0 /\ (type[i] = "dir" => Children(i) = {})

\* Mutated: a directory that is not empty may be removed.
RemovableFull(d, n) == n \notin Dots /\ Lookup(d, n) >= 0

\* testfs_remove_dirent and testfs_remove_dirent_allowed
Removable(d, n) ==
  LET i == Lookup(d, n)
  IN  n \notin Dots /\ i >= 0 /\ (type[i] = "dir" => Children(i) = {})

\* Mutated: the inode number is not given back.
FreedNever(i) == freemap

\* testfs_put_inode_freemap
Freed(i) == freemap \ {i}

\* cmd_rm: the entry is marked, the inode removed, the directory synced.
Rm(n) ==
  /\ Ready /\ Removable(cur, n)
  /\ LET i == Lookup(cur, n)
     IN  /\ data' = [data EXCEPT ![cur][LeastOf(Named(cur, n))].nr = -1, ![i] = <<>>]
         /\ type' = [type EXCEPT ![i] = "none"]
         /\ freemap' = Freed(i)
         /\ dirty' = dirty \ {cur, i}
  /\ UNCHANGED <<count, cur, arg, stack, aborted>>

\* Mutated: the directory that is left is not put.
MovedHoldKept(from, to) == [count EXCEPT ![to] = @ + 1]

\* testfs_get_inode of the new directory, testfs_put_inode of the old one.
MovedHold(from, to) ==
  [j \in Nr |-> count[j] - (IF j = from THEN 1 ELSE 0) + (IF j = to THEN 1 ELSE 0)]

Cd(n) ==
  /\ Ready
  /\ LET i == IF n = "/" THEN Root ELSE Lookup(cur, n)
     IN  /\ i >= 0 /\ type[i] = "dir"
         /\ IF cur \in dirty THEN Abort("inode.c:225")
            ELSE /\ cur' = i /\ count' = MovedHold(cur, i)
                 /\ UNCHANGED <<freemap, type, data, dirty, arg, stack, aborted>>

\* The entries of the directories in S, but . and .. and the removed ones.
ChildrenOf(S) == {p \in S \X (1 .. MaxEntries) : p[2] \in Children(p[1])}

NrAt(p) == data[p[1]][p[2]].nr

\* The inodes from d down, by way of the children.
Below(d) ==
  LET Down[n \in Nat] ==
        IF n = 0 THEN {d} ELSE Down[n - 1] \cup {NrAt(p) : p \in ChildrenOf(Down[n - 1])}
  IN  Down[NInodes]

\* The directories from d up, by way of their entries "..".
Above(d) ==
  LET Up[n \in Nat] ==
        IF n = 0 THEN {d}
        ELSE LET S == Up[n - 1]
             IN  S \cup ({Lookup(i, "..") : i \in S} \cap Nr)
  IN  Up[NInodes]

\* testfs_pwd looks every directory up in its parent.
PwdFailures ==
  LET up == Above(cur)
  IN  (IF \E i \in up : Lookup(i, "..") < 0 THEN {"dir.c:288"} ELSE {}) \cup
      (IF \E i \in up : LET p == Lookup(i, "..")
                        IN  p \in Nr \ {i} /\ \A k \in DOMAIN data[p] : data[p][k].nr # i
       THEN {"dir.c:295"} ELSE {})

\* stat, cat, write, owrite and export get an inode by its name, and put it;
\* ls and lsr do so with every entry they list, and need a directory.
GetPutFailures ==
  IF cur \in dirty THEN {"inode.c:225"} ELSE {}

LsFailures ==
  IF \E n \in Name : Lookup(cur, n) >= 0 /\ type[Lookup(cur, n)] # "dir"
  THEN {"dir.c:21"} ELSE {}

\* testfs_checkfs goes through the tree and marks every inode it meets.
CheckFailures ==
  LET tree == Below(Root)
  IN  (IF \E i \in tree : type[i] = "none" THEN {"super.c:236"} ELSE {}) \cup
      (IF \E p, q \in ChildrenOf(tree) : p # q /\ NrAt(p) = NrAt(q)
       THEN {"bitmap.c:106"} ELSE {})

\* Commands that only look, where one of their assertions fails.
Look ==
  /\ Ready
  /\ \E a \in PwdFailures \cup GetPutFailures \cup LsFailures \cup CheckFailures : Abort(a)

\* quit and the next start.
Restart ==
  /\ Ready
  /\ IF cur \in dirty THEN Abort("inode.c:225")
     ELSE IF \E i \in Nr : count[i] > (IF i = cur THEN 1 ELSE 0) THEN Abort("inode.c:35")
     ELSE /\ cur' = Root
          /\ count' = [i \in Nr |-> IF i = Root THEN 1 ELSE 0]
          /\ UNCHANGED <<freemap, type, data, dirty, arg, stack, aborted>>

-----------------------------------------------------------------------------
(***************************************************************************)
(* cmd_catr.                                                               *)
(***************************************************************************)
Top    == stack[Len(stack)]
Caller == stack[Len(stack) - 1]
InCatr == aborted = "none" /\ stack # <<>>

Call(i, tmp) == [in |-> i, tmp |-> tmp, at |-> 1]
NextEntry == [stack EXCEPT ![Len(stack)].at = @ + 1]

Catr(n) ==
  /\ Ready /\ n \in CatrArgs
  /\ LET i == Lookup(cur, n)
     IN  /\ i >= 0
         /\ count' = [count EXCEPT ![i] = @ + 1]
         /\ stack' = <<Call(i, cur)>>
         /\ arg' = n
  /\ UNCHANGED <<freemap, type, data, dirty, cur, aborted>>

\* What a call that ends with the current directory at puts: its target, the
\* directory it could not descend to, and for the caller the one it is in.
CatrPuts(at) == {Top.in} \cup ({at} \ {cur}) \cup (IF Len(stack) = 1 THEN {} ELSE {Top.tmp})

\* The call puts its target, the caller the directory it had descended to.
ReturnedHold ==
  [j \in Nr |-> count[j] - (IF j = Top.in THEN 1 ELSE 0) - (IF j = Top.tmp THEN 1 ELSE 0)]

\* The target is put and the call returns 0.  The caller takes its own current
\* directory back and puts the one it had descended to; the outermost call
\* leaves the current directory as it is.
CatrReturn(at) ==
  IF CatrPuts(at) \cap dirty # {} THEN Abort("inode.c:225")
  ELSE /\ stack' = SubSeq(stack, 1, Len(stack) - 1)
       /\ IF Len(stack) = 1
          THEN /\ count' = [count EXCEPT ![Top.in] = @ - 1]
               /\ cur' = at /\ arg' = "none"
          ELSE /\ count' = ReturnedHold
               /\ cur' = Caller.tmp /\ UNCHANGED arg
       /\ UNCHANGED <<freemap, type, data, dirty, aborted>>

CatrEntries ==
  IF type[Top.in] # "dir" THEN {}
  ELSE {k \in DOMAIN data[Top.in] : k = Top.at}

\* The loop is at its end, or its target was no directory to begin with.
CatrEnd ==
  /\ InCatr /\ CatrEntries = {}
  /\ IF type[Top.in] # "dir" THEN Abort("dir.c:21") ELSE CatrReturn(cur)

\* Mutated: . and .. are not passed over.
SubdirsAndDots ==
  {k \in CatrEntries : Live(data[Top.in][k]) /\ type[data[Top.in][k].nr] = "dir"}

Subdirs == {k \in CatrEntries \cap Children(Top.in) : type[data[Top.in][k].nr] = "dir"}

\* A removed entry, . or .., or a file, which is got, printed and put.
CatrSkip ==
  /\ InCatr
  /\ CatrEntries \ Subdirs # {}
  /\ stack' = NextEntry
  /\ UNCHANGED <<freemap, type, data, count, dirty, cur, arg, aborted>>

\* Mutated: the directory descended to is not held by the caller.
DescendedHoldOne(kid, i) == [count EXCEPT ![i] = @ + 1]

\* The caller holds the directory it descends to, the call the one it lists.
DescendedHold(kid, i) ==
  [j \in Nr |-> count[j] + (IF j = kid THEN 1 ELSE 0) + (IF j = i THEN 1 ELSE 0)]

\* The directory becomes the current one and the command is called again with
\* the same argument.  Where that does not exist the call fails: goto out, with
\* the current directory changed.
CatrDescend ==
  /\ InCatr
  /\ \E k \in Subdirs :
       LET kid == data[Top.in][k].nr
           i == Lookup(kid, arg)
       IN  IF i < 0 THEN CatrReturn(kid)
           ELSE IF Len(stack) = MaxStack THEN Abort("stack")
           ELSE /\ count' = DescendedHold(kid, i)
                /\ stack' = Append(NextEntry, Call(i, kid))
                /\ cur' = kid
                /\ UNCHANGED <<freemap, type, data, dirty, arg, aborted>>

CatrStep == CatrEnd \/ CatrSkip \/ CatrDescend

-----------------------------------------------------------------------------
Next ==
  \/ \E n \in Name :
       \/ \E kind \in {"file", "dir"} : Create(kind, n)
       \/ CreateFails(n)
  \/ \E n \in Name \cup Dots : Rm(n) \/ Catr(n)
  \/ \E n \in Name \cup Dots \cup {"/"} : Cd(n)
  \/ Look
  \/ Restart
  \/ CatrStep

Spec == Init /\ [][Next]_vars

-----------------------------------------------------------------------------
(***************************************************************************)
(* Properties.                                                             *)
(***************************************************************************)

\* The entries of the tree, as what NameTree is about.
LinkAt(p) == [dir |-> p[1], name |-> data[p[1]][p[2]].name, nr |-> NrAt(p)]
Links == {LinkAt(p) : p \in ChildrenOf(Nr)}

\* No directory has two live entries of one name.  testfs_add_dirent does not
\* see to it: a removed entry of the right length ends its scan (dir.c:123-124)
\* before it meets a later entry of the name.
NamesUnique ==
  \A d \in Nr : \A k, j \in DOMAIN data[d] :
    Live(data[d][k]) /\ Live(data[d][j]) /\ data[d][k].name = data[d][j].name => k = j

\* What checkfs compares: the numbers in use are those one comes to from the
\* root (super.c:274).  No number is lost, none is used by two entries, none of
\* a removed inode is left in a directory.
FreemapIsTree ==
  /\ freemap = Below(Root)
  /\ \A p, q \in ChildrenOf(Nr) : NrAt(p) = NrAt(q) => p = q

\* The directory testfs_main or the outermost catr has got.
Home == IF stack = <<>> THEN cur ELSE stack[1].tmp

Holders(i) ==
  (IF i = Home THEN 1 ELSE 0) +
  Cardinality({f \in DOMAIN stack : stack[f].in = i}) +
  Cardinality({f \in DOMAIN stack \ {1} : stack[f].tmp = i})

\* An inode is counted once by each who has got it and not put it (inode.c:181,
\* inode.c:226): none is freed under its holder, none stays behind when all are
\* gone, whatever the order of cd, catr, rm and failures.
CountsAreHolders == aborted = "none" => \A i \in Nr : count[i] = Holders(i)

\* A held inode is a directory in use: rm never removes the current directory,
\* or one that catr is in (dir.c:183, dir.c:202).
HeldNotRemoved == \A i \in Nr : count[i] > 0 => i \in freemap /\ type[i] = "dir"

\* These assertions hold after any sequence of commands: every directory has a
\* parent that lists it (dir.c:288, dir.c:295), no entry names a removed inode
\* (super.c:236), none names one twice (bitmap.c:106), and no inode is held at
\* the end (inode.c:35).
TreeAssertsHold ==
  aborted \notin {"dir.c:288", "dir.c:295", "super.c:236", "bitmap.c:106", "inode.c:35"}

\* catr is in no directory twice, and so its recursion ends (file.c:94).
NoReentry == \A f, g \in DOMAIN stack : stack[f].in = stack[g].in => f = g

\* Directories, entries and inode numbers are a tree of names.
Tree == INSTANCE NameTree WITH used <- freemap, links <- Links

ImplementsNameTree == Tree!Spec

\* catr ends in the current directory it began in: "Store the current
\* directory." (file.c:72).
CatrKeepsCurDir == [][InCatr /\ stack' = <<>> => cur' = stack[1].tmp]_vars
=============================================================================
