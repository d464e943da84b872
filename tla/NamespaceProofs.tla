--------------------------- MODULE NamespaceProofs ---------------------------
(***************************************************************************)
(* Theorems about Namespace, for any numbers of inodes, names, entries and *)
(* calls: names are unique in every directory, and directories, entries and *)
(* inode numbers implement the abstract NameTree, whatever catr is given;  *)
(* the inode freemap is what one comes to from the root, the reference     *)
(* counts are those of who holds what, the assertions about the tree hold, *)
(* and catr, given ".", is in no directory twice.                          *)
(*                                                                         *)
(* The first invariant does not speak of reference counts: that the current *)
(* directory is never removed follows from its being a directory, and from *)
(* no directory being its own child.                                       *)
(***************************************************************************)
EXTENDS Namespace, FiniteSetTheorems, TLAPS, WellFoundedInduction

-----------------------------------------------------------------------------
(***************************************************************************)
(* The invariant.                                                          *)
(***************************************************************************)
Types ==
  /\ freemap \subseteq Nr
  /\ type \in [Nr -> {"none", "file", "dir"}]
  /\ data \in [Nr -> Seq(Entry)]
  /\ cur \in Nr
  /\ stack \in Seq(Frame)

Sizes == \A d \in Nr : Len(data[d]) <= MaxEntries

\* Only a number in use has a type, and only a directory entries; the root, the
\* current directory, and those catr will come back to, are directories.
Dirs ==
  /\ \A d \in Nr : d \notin freemap => type[d] = "none"
  /\ \A d \in Nr : type[d] # "dir" => data[d] = <<>>
  /\ type[Root] = "dir" /\ type[cur] = "dir"
  /\ \A f \in DOMAIN stack : type[stack[f].tmp] = "dir"

\* A child is in use, is no other's child, nor its own, and is not the root.
Kids ==
  /\ \A d \in Nr : \A k \in Children(d) : data[d][k].nr \in freemap \ {d, Root}
  /\ \A d, e \in Nr : \A k \in Children(d), j \in Children(e) :
       data[d][k].nr = data[e][j].nr => d = e /\ k = j

IInv == Types /\ Sizes /\ Dirs /\ NamesUnique /\ Kids

-----------------------------------------------------------------------------
(***************************************************************************)
(* The scans.                                                              *)
(***************************************************************************)

\* A set of natural numbers that is not empty has a least element, so that
\* bitmap_alloc and the scans of dir.c find what they look for.
LEMMA LeastInSet ==
  ASSUME NEW S, S \subseteq Nat, S # {}
  PROVE  LeastOf(S) \in S /\ \A j \in S : LeastOf(S) <= j
<1>1. OpToRel(<, Nat) = {ss \in Nat \X Nat : ss[1] < ss[2]}
  BY DEF OpToRel
<1>2. PICK x \in S : \A y \in S : ~(<<y, x>> \in {ss \in Nat \X Nat : ss[1] < ss[2]})
  BY <1>1, NatLessThanWellFounded, WFMin, Zenon
<1>3. ASSUME NEW y \in S  PROVE  x <= y
  <2>1. <<y, x>> \in Nat \X Nat  OBVIOUS
  <2>2. ~(<<y, x>>[1] < <<y, x>>[2])  BY <1>2, <2>1
  <2> QED BY <2>2
<1> QED BY <1>3 DEF LeastOf

\* testfs_dir_name_to_inode_nr returns the number of an entry of the name.
LEMMA LookupFound ==
  ASSUME Types, NEW d \in Nr, NEW n, Lookup(d, n) >= 0
  PROVE  /\ LeastOf(Named(d, n)) \in Named(d, n)
         /\ Lookup(d, n) = data[d][LeastOf(Named(d, n))].nr
         /\ Lookup(d, n) \in Nr
<1>1. Named(d, n) # {}
  BY DEF Lookup
<1>2. Named(d, n) \subseteq DOMAIN data[d] /\ DOMAIN data[d] \subseteq Nat
  BY DEF Named, Types
<1>3. LeastOf(Named(d, n)) \in Named(d, n)
  BY <1>1, <1>2, LeastInSet
<1>4. Lookup(d, n) = data[d][LeastOf(Named(d, n))].nr
  BY <1>1 DEF Lookup
<1>5. data[d][LeastOf(Named(d, n))] \in Entry
  BY <1>2, <1>3 DEF Types
<1>6. data[d][LeastOf(Named(d, n))].nr \in Nr \cup {-1}
  BY <1>5 DEF Entry
<1> QED BY <1>3, <1>4, <1>6 DEF Named, Live, Nr

\* ... and -ENOENT only if there is none.
LEMMA LookupNone ==
  ASSUME Types, NEW d \in Nr, NEW n, ~(Lookup(d, n) >= 0)
  PROVE  Named(d, n) = {}
<1> SUFFICES ASSUME Named(d, n) # {} PROVE FALSE
  OBVIOUS
<1>1. Named(d, n) \subseteq Nat
  BY DEF Named, Types
<1>2. LeastOf(Named(d, n)) \in Named(d, n)
  BY <1>1, LeastInSet
<1>3. data[d][LeastOf(Named(d, n))].nr >= 0
  BY <1>2 DEF Named, Live
<1> QED BY <1>3 DEF Lookup

-----------------------------------------------------------------------------
(***************************************************************************)
(* What create and rm do to the entries.                                   *)
(***************************************************************************)

\* An entry is put in place k, which held no live entry, of a sequence.
LEMMA EntryPut ==
  ASSUME NEW s \in Seq(Entry), NEW k \in 1 .. Len(s) + 1, NEW e \in Entry,
         NEW max \in Nat, Len(s) <= max, k <= max
  PROVE  /\ WithEntry(s, k, e) \in Seq(Entry)
         /\ Len(WithEntry(s, k, e)) <= max
<1> DEFINE m == IF k \in DOMAIN s THEN Len(s) ELSE k
           w == WithEntry(s, k, e)
<1>1. m \in Nat /\ m <= max /\ DOMAIN s \cup {k} = 1 .. m
  OBVIOUS
<1>2. w \in [1 .. m -> Entry]
  BY <1>1 DEF WithEntry
<1>3. w \in Seq(Entry) /\ Len(w) = m
  <2> HIDE DEF m, w
  <2> QED BY <1>1, <1>2
<1> HIDE DEF m
<1> QED BY <1>1, <1>3

\* The new inode i is entered under the name n at place k of the current
\* directory, and has no children.
CreatedAs(n, i, k) ==
  /\ i \in Nr \ freemap /\ i # cur
  /\ k \in 1 .. MaxEntries /\ k \notin Children(cur)
  /\ k \in DOMAIN data[cur] => ~Live(data[cur][k])
  /\ Named(cur, n) = {}
  /\ freemap' = freemap \cup {i}
  /\ type' \in [Nr -> {"none", "file", "dir"}]
  /\ \A d \in Nr \ {i} : type'[d] = type[d]
  /\ type'[i] \in {"file", "dir"}
  /\ data'[i] = IF type'[i] = "dir" THEN EmptyDir(i, cur) ELSE <<>>
  /\ data' \in [Nr -> Seq(Entry)]
  /\ \A d \in Nr : Len(data'[d]) <= MaxEntries
  /\ \A d \in Nr \ {cur, i} : data'[d] = data[d]
  /\ data'[i] \in {<<>>, EmptyDir(i, cur)}
  /\ DOMAIN data'[cur] = DOMAIN data[cur] \cup {k}
  /\ data'[cur][k] = [name |-> n, nr |-> i]
  /\ \A j \in DOMAIN data[cur] \ {k} : data'[cur][j] = data[cur][j]
  /\ UNCHANGED <<cur, stack>>

LEMMA Created ==
  ASSUME IInv, NEW kind \in {"file", "dir"}, NEW n \in Name, Create(kind, n)
  PROVE  \E i \in Nr, k \in 1 .. MaxEntries : CreatedAs(n, i, k)
<1> DEFINE i == LeastOf(Nr \ freemap)
           k == Place(cur, n)
           e == [name |-> n, nr |-> i]
<1> USE NamespaceAssumption
<1>1. i \in Nr \ freemap
  <2>1. freemap # Nr /\ freemap \subseteq Nr
    BY DEF Create, IInv, Types
  <2>2. Nr \subseteq Nat
    BY DEF Nr
  <2>3. Nr \ freemap # {} /\ Nr \ freemap \subseteq Nat
    BY <2>1, <2>2
  <2> QED BY <2>3, LeastInSet
<1>2. i # cur
  BY <1>1 DEF IInv, Dirs, Types
<1>3. data[cur] \in Seq(Entry)
  BY DEF IInv, Types
<1>4. k \in 1 .. Len(data[cur]) + 1
  <2>1. Stops(cur, n) \subseteq DOMAIN data[cur]
    BY DEF Stops, Named
  <2>2. CASE Stops(cur, n) = {}
    BY <1>3, <2>2 DEF Place
  <2>3. CASE Stops(cur, n) # {}
    <3>1. DOMAIN data[cur] = 1 .. Len(data[cur]) /\ Len(data[cur]) \in Nat
      BY <1>3
    <3>2. Stops(cur, n) \subseteq Nat
      BY <2>1, <3>1
    <3>3. k \in Stops(cur, n)
      BY <2>3, <3>2, LeastInSet DEF Place
    <3> QED BY <2>1, <3>1, <3>3
  <2> QED BY <2>2, <2>3
<1>5. Named(cur, n) = {}
  BY LookupNone DEF Create, NameTaken, IInv, Types
<1>6. k \notin Children(cur)
  BY DEF Create, Children
<1>7. k <= MaxEntries
  BY DEF Create
<1>8. e \in Entry
  BY <1>1 DEF Entry
<1>9. data' = [data EXCEPT ![cur] = WithEntry(@, k, e),
                           ![i] = IF kind = "dir" THEN EmptyDir(i, cur) ELSE <<>>]
  BY DEF Create
<1>10. EmptyDir(i, cur) \in Seq(Entry) /\ Len(EmptyDir(i, cur)) = 2
  <2>1. Dot(".", i) \in Entry /\ Dot("..", cur) \in Entry
    BY <1>1 DEF Dot, Entry, Dots, IInv, Types
  <2> QED BY <2>1 DEF EmptyDir
<1>11. /\ data'[cur] = WithEntry(data[cur], k, e)
       /\ data'[i] = IF kind = "dir" THEN EmptyDir(i, cur) ELSE <<>>
       /\ \A d \in Nr \ {cur, i} : data'[d] = data[d]
       /\ DOMAIN data' = Nr
  BY <1>1, <1>2, <1>9 DEF IInv, Types
<1>12. /\ WithEntry(data[cur], k, e) \in Seq(Entry)
       /\ Len(WithEntry(data[cur], k, e)) <= MaxEntries
       /\ DOMAIN WithEntry(data[cur], k, e) = DOMAIN data[cur] \cup {k}
       /\ WithEntry(data[cur], k, e)[k] = e
       /\ \A j \in DOMAIN data[cur] \ {k} : WithEntry(data[cur], k, e)[j] = data[cur][j]
  <2>1. Len(data[cur]) <= MaxEntries /\ MaxEntries \in Nat
    BY DEF IInv, Sizes, Types
  <2> HIDE DEF k, e
  <2>2. data[cur] \in Seq(Entry) /\ k \in 1 .. Len(data[cur]) + 1 /\ e \in Entry
        /\ Len(data[cur]) <= MaxEntries /\ k <= MaxEntries /\ MaxEntries \in Nat
    BY <1>3, <1>4, <1>7, <1>8, <2>1
  <2>3. WithEntry(data[cur], k, e) \in Seq(Entry)
    BY <2>2, EntryPut
  <2>4. Len(WithEntry(data[cur], k, e)) <= MaxEntries
    BY <2>2, EntryPut
  <2>5. /\ DOMAIN WithEntry(data[cur], k, e) = DOMAIN data[cur] \cup {k}
        /\ WithEntry(data[cur], k, e)[k] = e
        /\ \A j \in DOMAIN data[cur] \ {k} : WithEntry(data[cur], k, e)[j] = data[cur][j]
    BY DEF WithEntry
  <2> QED BY <2>3, <2>4, <2>5
<1>13. data' \in [Nr -> Seq(Entry)]
  <2>1. ASSUME NEW d \in Nr  PROVE data'[d] \in Seq(Entry)
    <3>1. CASE d = cur
      BY <1>11, <1>12, <3>1
    <3>2. CASE d = i
      <4>1. data'[d] = EmptyDir(i, cur) \/ data'[d] = <<>>
        BY <1>11, <3>2
      <4>2. <<>> \in Seq(Entry)
        OBVIOUS
      <4> QED BY <1>10, <4>1, <4>2
    <3>3. CASE d \notin {cur, i}
      BY <1>11, <3>3 DEF IInv, Types
    <3> QED BY <3>1, <3>2, <3>3
  <2>2. data' = [d \in Nr |-> data'[d]]
    BY <1>9 DEF IInv, Types
  <2> QED BY <2>1, <2>2
<1>14. \A d \in Nr : Len(data'[d]) <= MaxEntries
  <2> SUFFICES ASSUME NEW d \in Nr  PROVE Len(data'[d]) <= MaxEntries
    OBVIOUS
  <2>1. CASE d = cur
    BY <1>11, <1>12, <2>1
  <2>2. CASE d = i
    <3>1. data'[d] = EmptyDir(i, cur) \/ data'[d] = <<>>
      BY <1>11, <2>2
    <3>2. Len(<<>>) <= MaxEntries /\ 2 <= MaxEntries
      OBVIOUS
    <3> QED BY <1>10, <3>1, <3>2
  <2>3. CASE d \notin {cur, i}
    BY <1>11, <2>3 DEF IInv, Sizes
  <2> QED BY <2>1, <2>2, <2>3
<1>15. /\ type' \in [Nr -> {"none", "file", "dir"}]
       /\ \A d \in Nr \ {i} : type'[d] = type[d]
       /\ type'[i] = kind
  BY <1>1 DEF Create, IInv, Types
<1>16. freemap' = freemap \cup {i} /\ UNCHANGED <<cur, stack>>
  BY DEF Create
<1>17. k \in 1 .. MaxEntries
  BY <1>3, <1>4, <1>7
<1>18. CreatedAs(n, i, k)
  <2>1. /\ data'[i] \in {<<>>, EmptyDir(i, cur)} /\ type'[i] \in {"file", "dir"}
        /\ data'[i] = IF type'[i] = "dir" THEN EmptyDir(i, cur) ELSE <<>>
    BY <1>11, <1>15
  <2>2. k \in DOMAIN data[cur] => ~Live(data[cur][k])
    BY DEF Create
  <2> HIDE DEF i, k
  <2> QED
    BY <1>1, <1>2, <1>5, <1>6, <1>11, <1>12, <1>13, <1>14, <1>15, <1>16, <1>17, <2>1, <2>2
    DEF CreatedAs, e
<1> QED BY <1>1, <1>17, <1>18

\* The entry at place k of the current directory, which names i, is marked; i is
\* another inode, and had no children.
RemovedAs(n, i, k) ==
  /\ i \in Nr /\ i # cur /\ Children(i) = {}
  /\ k \in Children(cur) /\ data[cur][k] = [name |-> n, nr |-> i]
  /\ freemap' = freemap \ {i}
  /\ type' \in [Nr -> {"none", "file", "dir"}]
  /\ type'[i] = "none"
  /\ \A d \in Nr \ {i} : type'[d] = type[d]
  /\ data' \in [Nr -> Seq(Entry)]
  /\ \A d \in Nr : Len(data'[d]) <= MaxEntries
  /\ data'[i] = <<>>
  /\ \A d \in Nr \ {cur, i} : data'[d] = data[d]
  /\ DOMAIN data'[cur] = DOMAIN data[cur]
  /\ data'[cur][k].nr = -1
  /\ \A j \in DOMAIN data[cur] \ {k} : data'[cur][j] = data[cur][j]
  /\ stack = <<>> /\ UNCHANGED <<cur, stack>>

LEMMA Removed ==
  ASSUME IInv, NEW n, Rm(n)
  PROVE  \E i \in Nr, k \in Children(cur) : RemovedAs(n, i, k)
<1> DEFINE i == Lookup(cur, n)
           k == LeastOf(Named(cur, n))
           s == [data[cur] EXCEPT ![k].nr = -1]
<1> USE NamespaceAssumption
<1>1. i >= 0 /\ n \notin Dots /\ (type[i] = "dir" => Children(i) = {})
  BY DEF Rm, Removable
<1>2. cur \in Nr /\ data[cur] \in Seq(Entry) /\ type[cur] = "dir"
  BY DEF IInv, Types, Dirs
<1>3. k \in Named(cur, n) /\ i = data[cur][k].nr /\ i \in Nr
  BY <1>1, <1>2, LookupFound DEF IInv
<1>4. k \in DOMAIN data[cur] /\ data[cur][k].name = n /\ k \in Children(cur)
  BY <1>1, <1>3 DEF Named, Children
<1>5. data[cur][k] = [name |-> n, nr |-> i]
  <2>1. data[cur][k] \in Entry
    BY <1>2, <1>4
  <2> QED BY <1>3, <1>4, <2>1 DEF Entry
<1>6. i # cur
  BY <1>2, <1>3, <1>4 DEF IInv, Kids
<1>7. Children(i) = {}
  <2>1. CASE type[i] = "dir"
    BY <1>1, <2>1
  <2>2. CASE type[i] # "dir"
    <3>1. data[i] = <<>>
      BY <1>3, <2>2 DEF IInv, Dirs
    <3> QED BY <3>1 DEF Children
  <2> QED BY <2>1, <2>2
<1>8. data' = [data EXCEPT ![cur][k].nr = -1, ![i] = <<>>]
  BY DEF Rm
<1>9. /\ data'[cur] = s
      /\ data'[i] = <<>>
      /\ \A d \in Nr \ {cur, i} : data'[d] = data[d]
      /\ data' = [d \in Nr |-> data'[d]]
  BY <1>2, <1>3, <1>6, <1>8 DEF IInv, Types
<1>10. /\ s \in Seq(Entry)
       /\ Len(s) = Len(data[cur])
       /\ DOMAIN s = DOMAIN data[cur]
       /\ s[k].nr = -1
       /\ \A j \in DOMAIN data[cur] \ {k} : s[j] = data[cur][j]
  <2> HIDE DEF k
  <2>1. data[cur][k] \in Entry
    BY <1>2, <1>4
  <2>2. [data[cur][k] EXCEPT !.nr = -1] \in Entry /\ [data[cur][k] EXCEPT !.nr = -1].nr = -1
    BY <2>1 DEF Entry
  <2>3. s = [data[cur] EXCEPT ![k] = [data[cur][k] EXCEPT !.nr = -1]]
    OBVIOUS
  <2> HIDE DEF s
  <2> QED BY <1>2, <1>4, <2>2, <2>3
<1>11. data' \in [Nr -> Seq(Entry)]
  <2>1. <<>> \in Seq(Entry)
    OBVIOUS
  <2>2. \A d \in Nr : data'[d] \in Seq(Entry)
    <3> HIDE DEF s, i
    <3> QED BY <1>9, <1>10, <2>1 DEF IInv, Types
  <2> QED BY <1>9, <2>2
<1>12. \A d \in Nr : Len(data'[d]) <= MaxEntries
  <2>1. Len(<<>>) <= MaxEntries
    OBVIOUS
  <2> HIDE DEF s, i
  <2> QED BY <1>9, <1>10, <2>1 DEF IInv, Sizes
<1>13. /\ type' \in [Nr -> {"none", "file", "dir"}]
       /\ type'[i] = "none"
       /\ \A d \in Nr \ {i} : type'[d] = type[d]
  BY <1>3 DEF Rm, IInv, Types
<1>14. freemap' = freemap \ {i} /\ stack = <<>> /\ UNCHANGED <<cur, stack>>
  BY DEF Rm, Ready, Freed
<1>15. RemovedAs(n, i, k)
  <2> HIDE DEF s, i, k
  <2> QED
    BY <1>3, <1>4, <1>5, <1>6, <1>7, <1>9, <1>10, <1>11, <1>12, <1>13, <1>14 DEF RemovedAs
<1> QED BY <1>3, <1>4, <1>15

\* Only the current directory has a new child, or lost one.
LEMMA CreatedChildren ==
  ASSUME IInv, NEW n \in Name, NEW i, NEW k, CreatedAs(n, i, k)
  PROVE  /\ Children(cur)' = Children(cur) \cup {k}
         /\ \A d \in Nr \ {cur, i} : Children(d)' = Children(d)
         /\ Children(i) = {} /\ Children(i)' = {}
<1> USE NamespaceAssumption
<1>1. i \in Nr /\ i \notin freemap
  BY DEF CreatedAs
<1>2. Children(i) = {}
  <2>1. data[i] = <<>>
    BY <1>1 DEF IInv, Dirs
  <2> QED BY <2>1 DEF Children
<1>3. Children(i)' = {}
  <2>1. CASE data'[i] = <<>>
    BY <2>1 DEF Children
  <2>2. CASE data'[i] = EmptyDir(i, cur)
    <3>1. \A j \in DOMAIN EmptyDir(i, cur) : EmptyDir(i, cur)[j].name \in Dots
      BY DEF EmptyDir, Dot, Dots
    <3> QED BY <2>2, <3>1 DEF Children
  <2> QED BY <2>1, <2>2 DEF CreatedAs
<1>4. Children(cur)' = Children(cur) \cup {k}
  <2>1. /\ cur' = cur /\ k \notin Children(cur)
        /\ DOMAIN data'[cur] = DOMAIN data[cur] \cup {k}
        /\ data'[cur][k] = [name |-> n, nr |-> i]
        /\ \A j \in DOMAIN data[cur] \ {k} : data'[cur][j] = data[cur][j]
    BY DEF CreatedAs
  <2>2. i >= 0 /\ n \notin Dots
    BY <1>1 DEF Nr, Name, Dots
  <2> QED BY <2>1, <2>2 DEF Children, Live
<1>5. \A d \in Nr \ {cur, i} : Children(d)' = Children(d)
  BY DEF CreatedAs, Children
<1> QED BY <1>2, <1>3, <1>4, <1>5

LEMMA RemovedChildren ==
  ASSUME IInv, NEW n, NEW i, NEW k, RemovedAs(n, i, k)
  PROVE  /\ Children(cur)' = Children(cur) \ {k}
         /\ \A d \in Nr \ {cur, i} : Children(d)' = Children(d)
         /\ Children(i) = {} /\ Children(i)' = {}
<1>1. Children(cur)' = Children(cur) \ {k}
  <2>1. /\ cur' = cur
        /\ DOMAIN data'[cur] = DOMAIN data[cur]
        /\ data'[cur][k].nr = -1
        /\ \A j \in DOMAIN data[cur] \ {k} : data'[cur][j] = data[cur][j]
    BY DEF RemovedAs
  <2> QED BY <2>1 DEF Children, Live
<1>2. \A d \in Nr \ {cur, i} : Children(d)' = Children(d)
  BY DEF RemovedAs, Children
<1>3. Children(i) = {} /\ Children(i)' = {}
  BY DEF RemovedAs, Children
<1> QED BY <1>1, <1>2, <1>3

-----------------------------------------------------------------------------
(***************************************************************************)
(* The invariant is kept.                                                  *)
(***************************************************************************)

LEMMA CreatedKeeps ==
  ASSUME IInv, NEW n \in Name, NEW i, NEW k, CreatedAs(n, i, k)
  PROVE  IInv'
<1> USE NamespaceAssumption
<1>1. /\ cur \in Nr /\ cur' = cur /\ stack' = stack /\ i \in Nr /\ i # cur
      /\ i \notin freemap /\ freemap' = freemap \cup {i} /\ Root \in Nr /\ i # Root
  BY DEF CreatedAs, IInv, Types, Dirs, Nr, Root
<1>2. Types'
  BY <1>1 DEF CreatedAs, IInv, Types
<1>3. Sizes'
  BY DEF CreatedAs, Sizes
<1>4. Dirs'
  <2>1. \A d \in Nr : d \notin freemap' => type'[d] = "none"
    BY <1>1 DEF CreatedAs, IInv, Dirs
  <2>2. ASSUME NEW d \in Nr, type'[d] # "dir"  PROVE data'[d] = <<>>
    <3>1. CASE d = i
      BY <2>2, <3>1 DEF CreatedAs
    <3>2. CASE d # i
      <4>1. type[d] # "dir" /\ d # cur
        BY <1>1, <2>2, <3>2 DEF CreatedAs, IInv, Dirs
      <4> QED BY <3>2, <4>1 DEF CreatedAs, IInv, Dirs
    <3> QED BY <3>1, <3>2
  <2>3. type'[Root] = "dir" /\ type'[cur'] = "dir"
    BY <1>1 DEF CreatedAs, IInv, Dirs
  <2>4. ASSUME NEW f \in DOMAIN stack'  PROVE type'[stack'[f].tmp] = "dir"
    <3>1. stack[f] \in Frame /\ type[stack[f].tmp] = "dir"
      BY <1>1 DEF IInv, Types, Dirs
    <3>2. stack[f].tmp # i
      BY <1>1, <3>1 DEF IInv, Dirs, Types
    <3> QED BY <1>1, <3>1, <3>2 DEF CreatedAs, Frame
  <2> QED BY <2>1, <2>2, <2>3, <2>4 DEF Dirs
<1>5. NamesUnique'
  <2> SUFFICES ASSUME NEW d \in Nr, NEW j \in DOMAIN data'[d], NEW l \in DOMAIN data'[d],
                      Live(data'[d][j]), Live(data'[d][l]),
                      data'[d][j].name = data'[d][l].name
               PROVE  j = l
    BY DEF NamesUnique
  <2>1. CASE d = cur
    <3>1. /\ DOMAIN data'[cur] = DOMAIN data[cur] \cup {k}
          /\ data'[cur][k] = [name |-> n, nr |-> i]
          /\ \A m \in DOMAIN data[cur] \ {k} : data'[cur][m] = data[cur][m]
          /\ Named(cur, n) = {}
      BY DEF CreatedAs
    <3>2. \A m \in DOMAIN data[cur] \ {k} : Live(data[cur][m]) => data'[cur][m].name # n
      BY <3>1 DEF Named
    <3>3. CASE j = k \/ l = k
      BY <2>1, <3>1, <3>2, <3>3
    <3>4. CASE j # k /\ l # k
      <4>1. /\ j \in DOMAIN data[cur] /\ l \in DOMAIN data[cur]
            /\ data'[cur][j] = data[cur][j] /\ data'[cur][l] = data[cur][l]
        BY <2>1, <3>1, <3>4
      <4> QED BY <1>1, <2>1, <4>1 DEF IInv, NamesUnique
    <3> QED BY <3>3, <3>4
  <2>2. CASE d = i
    <3>1. data'[i] = EmptyDir(i, cur)
      BY <2>2 DEF CreatedAs
    <3> QED BY <2>2, <3>1 DEF EmptyDir, Dot
  <2>3. CASE d \notin {cur, i}
    BY <2>3 DEF CreatedAs, IInv, NamesUnique
  <2> QED BY <2>1, <2>2, <2>3
<1>6. Kids'
  <2>1. /\ Children(cur)' = Children(cur) \cup {k}
        /\ \A d \in Nr \ {cur, i} : Children(d)' = Children(d)
        /\ Children(i)' = {}
        /\ k \notin Children(cur)
    BY CreatedChildren DEF CreatedAs
  <2>2. ASSUME NEW d \in Nr, NEW j \in Children(d)'
        PROVE  \/ d = cur /\ j = k /\ data'[d][j].nr = i
               \/ j \in Children(d) /\ data'[d][j] = data[d][j]
    <3>1. CASE d = cur
      <4>1. Children(cur)' = Children(d)'
        BY <1>1, <3>1
      <4>2. CASE j = k
        BY <3>1, <4>2 DEF CreatedAs
      <4>3. CASE j # k
        <5>1. j \in Children(cur)
          BY <2>1, <4>1, <4>3
        <5>2. j \in DOMAIN data[cur] \ {k}
          BY <4>3, <5>1 DEF Children
        <5> QED BY <3>1, <5>1, <5>2 DEF CreatedAs
      <4> QED BY <4>2, <4>3
    <3>2. CASE d # cur
      BY <2>1, <3>2 DEF CreatedAs
    <3> QED BY <3>1, <3>2
  <2>3. \A d \in Nr : \A j \in Children(d) : data[d][j].nr \in freemap \ {d, Root}
    BY DEF IInv, Kids
  <2>4. \A d \in Nr : \A j \in Children(d)' : data'[d][j].nr \in freemap' \ {d, Root}
    BY <1>1, <2>2, <2>3
  <2>5. ASSUME NEW d \in Nr, NEW e \in Nr, NEW j \in Children(d)', NEW l \in Children(e)',
               data'[d][j].nr = data'[e][l].nr
        PROVE  d = e /\ j = l
    BY <1>1, <2>2, <2>3, <2>5 DEF IInv, Kids
  <2> QED BY <2>4, <2>5 DEF Kids
<1> QED BY <1>2, <1>3, <1>4, <1>5, <1>6 DEF IInv

LEMMA RemovedKeeps ==
  ASSUME IInv, NEW n, NEW i, NEW k, RemovedAs(n, i, k)
  PROVE  IInv'
<1>1. /\ cur \in Nr /\ cur' = cur /\ stack' = stack /\ i \in Nr /\ i # cur
      /\ freemap' = freemap \ {i} /\ Root \in Nr /\ i # Root
  <2>1. data[cur][k].nr = i /\ k \in Children(cur) /\ cur \in Nr
    BY DEF RemovedAs, IInv, Types
  <2>2. i # Root
    BY <2>1 DEF IInv, Kids
  <2> QED BY <2>2, NamespaceAssumption DEF RemovedAs, IInv, Types, Nr, Root
<1>2. Types'
  BY <1>1 DEF RemovedAs, IInv, Types
<1>3. Sizes'
  BY DEF RemovedAs, Sizes
<1>4. \A d \in Nr : \A j \in DOMAIN data'[d] :
        Live(data'[d][j]) => j \in DOMAIN data[d] /\ data'[d][j] = data[d][j]
  <2> SUFFICES ASSUME NEW d \in Nr, NEW j \in DOMAIN data'[d], Live(data'[d][j])
               PROVE  j \in DOMAIN data[d] /\ data'[d][j] = data[d][j]
    OBVIOUS
  <2>1. CASE d = cur
    <3>1. j # k
      BY <2>1 DEF RemovedAs, Live
    <3> QED BY <2>1, <3>1 DEF RemovedAs
  <2>2. CASE d = i
    BY <2>2 DEF RemovedAs
  <2>3. CASE d \notin {cur, i}
    BY <2>3 DEF RemovedAs
  <2> QED BY <2>1, <2>2, <2>3
<1>5. NamesUnique'
  BY <1>4 DEF IInv, NamesUnique
<1>6. \A d \in Nr : \A j \in Children(d)' : j \in Children(d) /\ data'[d][j] = data[d][j]
  BY <1>4 DEF Children
<1>7. \A d \in Nr : \A j \in Children(d)' : ~(d = cur /\ j = k)
  BY DEF RemovedAs, Children, Live
<1>8. Kids'
  <2>1. ASSUME NEW d \in Nr, NEW j \in Children(d)'  PROVE data'[d][j].nr \in freemap' \ {d, Root}
    <3>1. j \in Children(d) /\ data'[d][j].nr = data[d][j].nr
      BY <1>6, <2>1
    <3>2. data[d][j].nr \in freemap \ {d, Root}
      BY <3>1 DEF IInv, Kids
    <3>3. data[cur][k].nr = i /\ k \in Children(cur)
      BY DEF RemovedAs
    <3>4. data[d][j].nr # i
      BY <1>1, <1>7, <2>1, <3>1, <3>3 DEF IInv, Kids
    <3> QED BY <1>1, <3>1, <3>2, <3>4
  <2>2. \A d, e \in Nr : \A j \in Children(d)', l \in Children(e)' :
          data'[d][j].nr = data'[e][l].nr => d = e /\ j = l
    BY <1>6 DEF IInv, Kids
  <2> QED BY <2>1, <2>2 DEF Kids
<1>9. Dirs'
  <2>1. \A d \in Nr : d \notin freemap' => type'[d] = "none"
    BY <1>1 DEF RemovedAs, IInv, Dirs
  <2>2. \A d \in Nr : type'[d] # "dir" => data'[d] = <<>>
    BY <1>1 DEF RemovedAs, IInv, Dirs
  <2>3. type'[Root] = "dir" /\ type'[cur'] = "dir"
    BY <1>1 DEF RemovedAs, IInv, Dirs
  <2>4. stack' = <<>>
    BY DEF RemovedAs
  <2> QED BY <2>1, <2>2, <2>3, <2>4 DEF Dirs
<1> QED BY <1>2, <1>3, <1>5, <1>8, <1>9 DEF IInv

\* What catr does with its directories when the data stays as it is.
LEMMA MovedKeeps ==
  ASSUME IInv, UNCHANGED <<freemap, type, data>>,
         cur' \in Nr, type[cur'] = "dir",
         stack' \in Seq(Frame), \A f \in DOMAIN stack' : type[stack'[f].tmp] = "dir"
  PROVE  IInv'
<1>1. Types' /\ Sizes' /\ Dirs'
  BY DEF IInv, Types, Sizes, Dirs
<1>2. NamesUnique' /\ Kids'
  BY DEF IInv, NamesUnique, Kids, Children
<1> QED BY <1>1, <1>2 DEF IInv

LEMMA AbortKeeps ==
  ASSUME IInv, NEW a, Abort(a)
  PROVE  IInv' /\ UNCHANGED <<freemap, type, data>>
BY MovedKeeps DEF Abort, IInv, Types, Dirs

LEMMA CommandKeeps ==
  ASSUME IInv, NEW n,
         CreateFails(n) \/ Cd(n) \/ Look \/ Restart \/ Catr(n)
  PROVE  IInv' /\ UNCHANGED <<freemap, type, data>>
<1>1. cur \in Nr /\ type[cur] = "dir" /\ stack \in Seq(Frame) /\ Root \in Nr
  BY NamespaceAssumption DEF IInv, Types, Dirs, Nr, Root
<1>2. CASE CreateFails(n)
  BY <1>1, <1>2, MovedKeeps DEF CreateFails, IInv, Dirs
<1>3. CASE Cd(n)
  <2> DEFINE i == IF n = "/" THEN Root ELSE Lookup(cur, n)
  <2>1. i >= 0 /\ type[i] = "dir"
    BY <1>3 DEF Cd
  <2>2. i \in Nr
    BY <1>1, <2>1, LookupFound DEF IInv
  <2>3. CASE cur \in dirty
    <3>1. Abort("inode.c:225")
      BY <1>3, <2>3 DEF Cd
    <3> QED BY <3>1, AbortKeeps
  <2>4. CASE cur \notin dirty
    <3>1. cur' = i /\ UNCHANGED <<freemap, type, data, stack>>
      BY <1>3, <2>4 DEF Cd
    <3> HIDE DEF i
    <3> QED BY <1>1, <2>1, <2>2, <3>1, MovedKeeps DEF IInv, Dirs
  <2> QED BY <2>3, <2>4
<1>4. CASE Look
  BY <1>4, AbortKeeps DEF Look
<1>5. CASE Restart
  <2>1. (\E a : Abort(a)) \/ (cur' = Root /\ UNCHANGED <<freemap, type, data, stack>>)
    BY <1>5 DEF Restart
  <2>2. CASE cur' = Root /\ UNCHANGED <<freemap, type, data, stack>>
    BY <1>1, <2>2, MovedKeeps DEF IInv, Dirs
  <2> QED BY <2>1, <2>2, AbortKeeps
<1>6. CASE Catr(n)
  <2> DEFINE i == Lookup(cur, n)
             s == <<Call(i, cur)>>
  <2>1. i \in Nr
    BY <1>1, <1>6, LookupFound DEF Catr, IInv
  <2>2. stack' = s /\ UNCHANGED <<freemap, type, data, cur>>
    BY <1>6 DEF Catr
  <2>3. Call(i, cur) \in Frame /\ Call(i, cur).tmp = cur
    BY <1>1, <2>1 DEF Call, Frame
  <2>4. s \in Seq(Frame) /\ \A f \in DOMAIN s : s[f].tmp = cur
    BY <2>3
  <2> HIDE DEF s
  <2> QED BY <1>1, <2>2, <2>4, MovedKeeps
<1> QED BY <1>2, <1>3, <1>4, <1>5, <1>6

\* A call returns to directories it knew, or stays in one it descended to.
LEMMA ReturnKeeps ==
  ASSUME IInv, stack # <<>>, NEW at \in Nr, type[at] = "dir", CatrReturn(at)
  PROVE  IInv' /\ UNCHANGED <<freemap, type, data>>
<1>1. stack \in Seq(Frame) /\ Len(stack) \in Nat /\ Len(stack) >= 1
  BY DEF IInv, Types
<1>2. CASE CatrPuts(at) \cap dirty # {}
  BY <1>2, AbortKeeps DEF CatrReturn
<1>3. CASE CatrPuts(at) \cap dirty = {}
  <2> DEFINE s == SubSeq(stack, 1, Len(stack) - 1)
  <2>1. stack' = s /\ UNCHANGED <<freemap, type, data>>
    BY <1>3 DEF CatrReturn
  <2>2. /\ s \in Seq(Frame) /\ DOMAIN s = 1 .. Len(stack) - 1
        /\ \A f \in 1 .. Len(stack) - 1 : s[f] = stack[f]
    BY <1>1
  <2>3. \A f \in DOMAIN s : type[s[f].tmp] = "dir"
    <3> HIDE DEF s
    <3>1. 1 .. Len(stack) - 1 \subseteq DOMAIN stack
      BY <1>1
    <3> QED BY <2>2, <3>1 DEF IInv, Dirs
  <2>4. cur' \in Nr /\ type[cur'] = "dir"
    <3>1. CASE Len(stack) = 1
      BY <1>3, <3>1 DEF CatrReturn
    <3>2. CASE Len(stack) # 1
      <4>1. cur' = stack[Len(stack) - 1].tmp
        BY <1>3, <3>2 DEF CatrReturn, Caller
      <4>2. Len(stack) - 1 \in DOMAIN stack
        <5>1. DOMAIN stack = 1 .. Len(stack)
          BY <1>1
        <5>2. \A m \in Nat : m >= 1 /\ m # 1 => m - 1 \in 1 .. m
          OBVIOUS
        <5> QED BY <1>1, <3>2, <5>1, <5>2
      <4>3. stack[Len(stack) - 1] \in Frame
        BY <1>1, <4>2
      <4> QED BY <4>1, <4>2, <4>3 DEF Frame, IInv, Dirs
    <3> QED BY <3>1, <3>2
  <2> HIDE DEF s
  <2> QED BY <2>1, <2>2, <2>3, <2>4, MovedKeeps
<1> QED BY <1>2, <1>3

LEMMA CatrKeeps ==
  ASSUME IInv, CatrStep
  PROVE  IInv' /\ UNCHANGED <<freemap, type, data>>
<1>1. /\ stack \in Seq(Frame) /\ stack # <<>> /\ cur \in Nr /\ type[cur] = "dir"
      /\ Len(stack) \in DOMAIN stack /\ Len(stack) \in Nat
  BY DEF CatrStep, CatrEnd, CatrSkip, CatrDescend, InCatr, IInv, Types, Dirs
<1>2. Top \in Frame /\ type[Top.tmp] = "dir"
  BY <1>1 DEF Top, IInv, Dirs
<1> DEFINE next == [Top EXCEPT !.at = @ + 1]
<1>3. next \in Frame /\ next.tmp = Top.tmp
  BY <1>2 DEF Frame
<1>4. /\ NextEntry \in Seq(Frame) /\ Len(NextEntry) = Len(stack)
      /\ \A f \in DOMAIN NextEntry : type[NextEntry[f].tmp] = "dir"
  <2> HIDE DEF next
  <2>1. NextEntry = [stack EXCEPT ![Len(stack)] = next]
    BY DEF NextEntry, Top, next
  <2>2. NextEntry \in Seq(Frame) /\ Len(NextEntry) = Len(stack) /\ DOMAIN NextEntry = DOMAIN stack
    BY <1>1, <1>3, <2>1
  <2>3. \A f \in DOMAIN stack : NextEntry[f] = IF f = Len(stack) THEN next ELSE stack[f]
    BY <2>1
  <2> QED BY <1>2, <1>3, <2>2, <2>3 DEF IInv, Dirs
<1>5. CASE CatrEnd
  <2>1. CASE type[Top.in] # "dir"
    BY <1>5, <2>1, AbortKeeps DEF CatrEnd
  <2>2. CASE type[Top.in] = "dir"
    BY <1>1, <1>5, <2>2, ReturnKeeps DEF CatrEnd
  <2> QED BY <2>1, <2>2
<1>6. CASE CatrSkip
  BY <1>1, <1>4, <1>6, MovedKeeps DEF CatrSkip
<1>7. CASE CatrDescend
  <2>1. PICK k \in Subdirs :
          LET kid == data[Top.in][k].nr
              i == Lookup(kid, arg)
          IN  IF i < 0 THEN CatrReturn(kid)
              ELSE IF Len(stack) = MaxStack THEN Abort("stack")
              ELSE /\ stack' = Append(NextEntry, Call(i, kid))
                   /\ cur' = kid
                   /\ UNCHANGED <<freemap, type, data>>
    BY <1>7 DEF CatrDescend
  <2> DEFINE kid == data[Top.in][k].nr
             i == Lookup(kid, arg)
             s == Append(NextEntry, Call(i, kid))
  <2>2. kid \in Nr /\ type[kid] = "dir"
    <3>1. k \in Children(Top.in) /\ Top.in \in Nr
      BY <1>2 DEF Subdirs, Frame
    <3> QED BY <3>1 DEF Subdirs, IInv, Kids, Types
  <2>3. CASE i < 0
    BY <1>1, <2>1, <2>2, <2>3, ReturnKeeps
  <2>4. CASE ~(i < 0) /\ Len(stack) = MaxStack
    BY <2>1, <2>4, AbortKeeps
  <2>5. CASE ~(i < 0) /\ Len(stack) # MaxStack
    <3>1. i \in Nr
      <4>1. i = -1 \/ i \in Nr
        <5>1. CASE Named(kid, arg) = {}
          BY <5>1 DEF Lookup
        <5>2. CASE Named(kid, arg) # {}
          <6>0. ASSUME NEW d \in Nr  PROVE Named(d, arg) \subseteq Nat
            <7>1. data[d] \in Seq(Entry)
              BY DEF IInv, Types
            <7>2. DOMAIN data[d] \subseteq Nat
              BY <7>1
            <7> QED BY <7>2 DEF Named
          <6>1. Named(kid, arg) \subseteq Nat
            BY <2>2, <6>0
          <6>2. LeastOf(Named(kid, arg)) \in Named(kid, arg)
            BY <5>2, <6>1, LeastInSet
          <6>3. Lookup(kid, arg) >= 0
            BY <5>2, <6>2 DEF Lookup, Named, Live
          <6> QED BY <2>2, <6>3, LookupFound DEF IInv
        <5> QED BY <5>1, <5>2
      <4> QED BY <2>5, <4>1
    <3>2. Call(i, kid) \in Frame /\ Call(i, kid).tmp = kid
      BY <2>2, <3>1 DEF Call, Frame
    <3>3. s \in Seq(Frame) /\ \A f \in DOMAIN s : type[s[f].tmp] = "dir"
      <4> DEFINE c == Call(i, kid)
      <4>1. c \in Frame /\ type[c.tmp] = "dir"
        BY <2>2, <3>2
      <4> HIDE DEF c
      <4>2. /\ Append(NextEntry, c) \in Seq(Frame)
            /\ \A f \in DOMAIN Append(NextEntry, c) :
                 Append(NextEntry, c)[f] = c \/ (f \in DOMAIN NextEntry /\ Append(NextEntry, c)[f] = NextEntry[f])
        BY <1>4, <4>1
      <4> QED BY <1>4, <4>1, <4>2 DEF c
    <3>4. stack' = s /\ cur' = kid /\ UNCHANGED <<freemap, type, data>>
      BY <2>1, <2>5
    <3> HIDE DEF s, kid
    <3> QED BY <2>2, <3>3, <3>4, MovedKeeps
  <2> QED BY <2>3, <2>4, <2>5
<1> QED BY <1>5, <1>6, <1>7 DEF CatrStep

LEMMA InitIInv == Init => IInv
<1> SUFFICES ASSUME Init PROVE IInv
  OBVIOUS
<1> USE NamespaceAssumption
<1>1. Root \in Nr
  BY DEF Root, Nr
<1>2. EmptyDir(Root, Root) \in Seq(Entry) /\ Len(EmptyDir(Root, Root)) = 2
  <2>1. Dot(".", Root) \in Entry /\ Dot("..", Root) \in Entry
    BY <1>1 DEF Dot, Entry, Dots
  <2> QED BY <2>1 DEF EmptyDir
<1>3. \A d \in Nr : data[d] = EmptyDir(Root, Root) \/ data[d] = <<>>
  BY DEF Init
<1>4. Types
  <2>1. <<>> \in Seq(Entry)
    OBVIOUS
  <2> QED BY <1>1, <1>2, <2>1 DEF Init, Types
<1>5. Sizes
  <2>1. Len(<<>>) <= MaxEntries /\ 2 <= MaxEntries
    OBVIOUS
  <2> QED BY <1>2, <1>3, <2>1 DEF Sizes
<1>6. Dirs
  BY <1>1 DEF Init, Dirs
<1>7. NamesUnique
  BY <1>3 DEF NamesUnique, EmptyDir, Dot
<1>8. \A d \in Nr : Children(d) = {}
  <2>1. \A j \in DOMAIN EmptyDir(Root, Root) : EmptyDir(Root, Root)[j].name \in Dots
    BY DEF EmptyDir, Dot, Dots
  <2> QED BY <1>3, <2>1 DEF Children
<1>9. Kids
  BY <1>8 DEF Kids
<1> QED BY <1>4, <1>5, <1>6, <1>7, <1>9 DEF IInv

\* Every step creates a name, removes one, or leaves the tree as it is.
StepOfTree ==
  \/ \E n \in Name, i \in Nr, k \in 1 .. MaxEntries : CreatedAs(n, i, k)
  \/ \E n \in Name \cup Dots, i \in Nr : \E k \in Children(cur) : RemovedAs(n, i, k)
  \/ UNCHANGED <<freemap, type, data>>

LEMMA StepKeeps == IInv /\ [Next]_vars => IInv' /\ StepOfTree
<1> SUFFICES ASSUME IInv, [Next]_vars PROVE IInv' /\ StepOfTree
  OBVIOUS
<1>1. ASSUME NEW n \in Name, NEW kind \in {"file", "dir"}, Create(kind, n)
      PROVE  IInv' /\ StepOfTree
  BY <1>1, Created, CreatedKeeps DEF StepOfTree
<1>2. ASSUME NEW n \in Name \cup Dots, Rm(n)
      PROVE  IInv' /\ StepOfTree
  BY <1>2, Removed, RemovedKeeps DEF StepOfTree
<1>3. ASSUME NEW n, CreateFails(n) \/ Cd(n) \/ Look \/ Restart \/ Catr(n)
      PROVE  IInv' /\ StepOfTree
  BY <1>3, CommandKeeps DEF StepOfTree
<1>4. CASE CatrStep
  BY <1>4, CatrKeeps DEF StepOfTree
<1>5. CASE UNCHANGED vars
  BY <1>5, MovedKeeps DEF vars, StepOfTree, IInv, Types, Dirs
<1> QED BY <1>1, <1>2, <1>3, <1>4, <1>5 DEF Next

LEMMA Invariant == Spec => []IInv
BY InitIInv, StepKeeps, PTL DEF Spec

\* No directory ever has two live entries of one name, although
\* testfs_add_dirent stops its search at the first removed entry it can use.
THEOREM UniqueNames == Spec => []NamesUnique
<1>1. IInv => NamesUnique
  BY DEF IInv
<1> QED BY <1>1, Invariant, PTL

-----------------------------------------------------------------------------
(***************************************************************************)
(* The refinement.                                                         *)
(***************************************************************************)

\* The links, by directory and place.
LinksByPlace ==
  \A l : l \in Links <=>
    \E d \in Nr : \E k \in Children(d) :
      l = [dir |-> d, name |-> data[d][k].name, nr |-> data[d][k].nr]

LEMMA LinksAre == IInv => LinksByPlace
<1> SUFFICES ASSUME IInv PROVE LinksByPlace
  OBVIOUS
<1>1. \A d \in Nr : \A k \in Children(d) : k \in 1 .. MaxEntries
  <2> SUFFICES ASSUME NEW d \in Nr, NEW k \in Children(d) PROVE k \in 1 .. MaxEntries
    OBVIOUS
  <2>1. data[d] \in Seq(Entry) /\ k \in DOMAIN data[d] /\ Len(data[d]) <= MaxEntries
    BY DEF IInv, Types, Sizes, Children
  <2>2. k \in 1 .. Len(data[d]) /\ Len(data[d]) \in Nat
    BY <2>1
  <2> QED BY <2>1, <2>2, NamespaceAssumption
<1>2. ASSUME NEW l, l \in Links
      PROVE  \E d \in Nr : \E k \in Children(d) :
               l = [dir |-> d, name |-> data[d][k].name, nr |-> data[d][k].nr]
  BY <1>2 DEF Links, LinkAt, NrAt, ChildrenOf
<1>3. ASSUME NEW d \in Nr, NEW k \in Children(d)
      PROVE  [dir |-> d, name |-> data[d][k].name, nr |-> data[d][k].nr] \in Links
  <2>1. <<d, k>> \in ChildrenOf(Nr)
    BY <1>1 DEF ChildrenOf
  <2>2. LinkAt(<<d, k>>) = [dir |-> d, name |-> data[d][k].name, nr |-> data[d][k].nr]
    BY DEF LinkAt, NrAt
  <2> QED BY <2>1, <2>2 DEF Links
<1> QED BY <1>2, <1>3 DEF LinksByPlace

LEMMA CreatedMakes ==
  ASSUME IInv, IInv', LinksByPlace, LinksByPlace',
         NEW n \in Name, NEW i \in Nr, NEW k, CreatedAs(n, i, k)
  PROVE  Tree!Make(cur, n, i)
<1>1. cur \in freemap /\ cur \in Nr /\ cur' = cur
  BY DEF CreatedAs, IInv, Types, Dirs
<1>2. i \notin freemap /\ freemap' = freemap \cup {i} /\ i # cur
  BY DEF CreatedAs
<1>3. /\ Children(cur)' = Children(cur) \cup {k} /\ k \notin Children(cur)
      /\ \A d \in Nr \ {cur, i} : Children(d)' = Children(d)
      /\ Children(i) = {} /\ Children(i)' = {}
  BY CreatedChildren DEF CreatedAs
<1>4. data'[cur][k] = [name |-> n, nr |-> i]
  BY DEF CreatedAs
<1>5. \A d \in Nr : \A j \in Children(d) : data'[d][j] = data[d][j]
  <2> SUFFICES ASSUME NEW d \in Nr, NEW j \in Children(d) PROVE data'[d][j] = data[d][j]
    OBVIOUS
  <2>1. j \in DOMAIN data[d]
    BY DEF Children
  <2>2. CASE d = cur
    BY <1>3, <2>1, <2>2 DEF CreatedAs
  <2>3. CASE d # cur
    BY <1>3, <2>3 DEF CreatedAs
  <2> QED BY <2>2, <2>3
<1>6. \A l \in Links : ~(l.dir = cur /\ l.name = n)
  <2> SUFFICES ASSUME NEW l \in Links, l.dir = cur, l.name = n PROVE FALSE
    OBVIOUS
  <2>1. PICK j \in Children(cur) : data[cur][j].name = n
    BY DEF LinksByPlace
  <2>2. j \in Named(cur, n)
    BY <2>1 DEF Children, Named
  <2> QED BY <2>2 DEF CreatedAs
<1>7. Links' = Links \cup {[dir |-> cur, name |-> n, nr |-> i]}
  <2>1. ASSUME NEW l, l \in Links'
        PROVE  l \in Links \/ l = [dir |-> cur, name |-> n, nr |-> i]
    <3>0. PICK d \in Nr : \E j \in Children(d)' :
            l = [dir |-> d, name |-> data'[d][j].name, nr |-> data'[d][j].nr]
      BY <2>1 DEF LinksByPlace
    <3>1. PICK j \in Children(d)' :
            l = [dir |-> d, name |-> data'[d][j].name, nr |-> data'[d][j].nr]
      BY <3>0
    <3>2. CASE d = cur /\ j = k
      BY <1>4, <3>1, <3>2
    <3>3. CASE ~(d = cur /\ j = k)
      <4>1. j \in Children(d)
        <5>1. CASE d = cur
          <6>1. Children(d)' = Children(cur)'
            BY <1>1, <5>1
          <6> QED BY <1>3, <3>3, <5>1, <6>1
        <5>2. CASE d # cur
          BY <1>3, <5>2
        <5> QED BY <5>1, <5>2
      <4> QED BY <1>5, <3>1, <4>1 DEF LinksByPlace
    <3> QED BY <3>2, <3>3
  <2>2. ASSUME NEW l, l \in Links  PROVE l \in Links'
    <3>0. PICK d \in Nr : \E j \in Children(d) :
            l = [dir |-> d, name |-> data[d][j].name, nr |-> data[d][j].nr]
      BY <2>2 DEF LinksByPlace
    <3>1. PICK j \in Children(d) :
            l = [dir |-> d, name |-> data[d][j].name, nr |-> data[d][j].nr]
      BY <3>0
    <3>2. j \in Children(d)'
      <4>1. CASE d = cur
        <5>1. Children(d)' = Children(cur)'
          BY <1>1, <4>1
        <5> QED BY <1>3, <4>1, <5>1
      <4>2. CASE d # cur
        BY <1>3, <4>2
      <4> QED BY <4>1, <4>2
    <3> QED BY <1>5, <3>1, <3>2 DEF LinksByPlace
  <2>3. [dir |-> cur, name |-> n, nr |-> i] \in Links'
    <3>1. k \in Children(cur)'
      BY <1>3
    <3> QED BY <1>1, <1>4, <3>1 DEF LinksByPlace
  <2> QED BY <2>1, <2>2, <2>3
<1> QED BY <1>1, <1>2, <1>6, <1>7 DEF Tree!Make

LEMMA RemovedRemoves ==
  ASSUME IInv, IInv', LinksByPlace, LinksByPlace',
         NEW n, NEW i \in Nr, NEW k, RemovedAs(n, i, k)
  PROVE  \E l \in Links : Tree!Remove(l)
<1> DEFINE l == [dir |-> cur, name |-> n, nr |-> i]
<1>1. /\ cur \in Nr /\ cur' = cur /\ k \in Children(cur)
      /\ data[cur][k] = [name |-> n, nr |-> i] /\ freemap' = freemap \ {i}
  BY DEF RemovedAs, IInv, Types
<1>2. /\ Children(cur)' = Children(cur) \ {k}
      /\ \A d \in Nr \ {cur, i} : Children(d)' = Children(d)
      /\ Children(i) = {} /\ Children(i)' = {}
  BY RemovedChildren
<1>3. \A d \in Nr : \A j \in Children(d)' : data'[d][j] = data[d][j]
  <2> SUFFICES ASSUME NEW d \in Nr, NEW j \in Children(d)' PROVE data'[d][j] = data[d][j]
    OBVIOUS
  <2>1. CASE d = cur
    <3>1. Children(d)' = Children(cur)'
      BY <1>1, <2>1
    <3>2. j \in DOMAIN data[cur] \ {k}
      BY <1>2, <3>1 DEF Children
    <3> QED BY <2>1, <3>2 DEF RemovedAs
  <2>2. CASE d # cur
    BY <1>2, <2>2 DEF RemovedAs
  <2> QED BY <2>1, <2>2
<1>4. l \in Links
  BY <1>1 DEF LinksByPlace
<1>5. \A m \in Links : m.dir # l.nr
  BY <1>2 DEF LinksByPlace
<1>6. Links' = Links \ {l}
  <2>1. ASSUME NEW m, m \in Links'  PROVE m \in Links /\ m # l
    <3>0. PICK d \in Nr : \E j \in Children(d)' :
            m = [dir |-> d, name |-> data'[d][j].name, nr |-> data'[d][j].nr]
      BY <2>1 DEF LinksByPlace
    <3>1. PICK j \in Children(d)' :
            m = [dir |-> d, name |-> data'[d][j].name, nr |-> data'[d][j].nr]
      BY <3>0
    <3>2. j \in Children(d) /\ ~(d = cur /\ j = k)
      <4>1. CASE d = cur
        <5>1. Children(d)' = Children(cur)'
          BY <1>1, <4>1
        <5> QED BY <1>2, <4>1, <5>1
      <4>2. CASE d # cur
        BY <1>2, <4>2
      <4> QED BY <4>1, <4>2
    <3>3. m = [dir |-> d, name |-> data[d][j].name, nr |-> data[d][j].nr]
      BY <1>3, <3>1
    <3>4. m \in Links
      BY <3>2, <3>3 DEF LinksByPlace
    <3>5. data[d][j].nr # i
      BY <1>1, <3>2 DEF IInv, Kids
    <3> QED BY <3>3, <3>4, <3>5
  <2>2. ASSUME NEW m, m \in Links, m # l  PROVE m \in Links'
    <3>0. PICK d \in Nr : \E j \in Children(d) :
            m = [dir |-> d, name |-> data[d][j].name, nr |-> data[d][j].nr]
      BY <2>2 DEF LinksByPlace
    <3>1. PICK j \in Children(d) :
            m = [dir |-> d, name |-> data[d][j].name, nr |-> data[d][j].nr]
      BY <3>0
    <3>2. ~(d = cur /\ j = k)
      BY <1>1, <2>2, <3>1
    <3>3. j \in Children(d)'
      <4>1. CASE d = cur
        <5>1. Children(d)' = Children(cur)'
          BY <1>1, <4>1
        <5> QED BY <1>2, <3>2, <4>1, <5>1
      <4>2. CASE d # cur
        BY <1>2, <4>2
      <4> QED BY <4>1, <4>2
    <3> QED BY <1>3, <3>1, <3>3 DEF LinksByPlace
  <2> QED BY <2>1, <2>2
<1> QED BY <1>1, <1>4, <1>5, <1>6 DEF Tree!Remove

\* Directories, entries and inode numbers are a tree of names: a new inode is
\* entered once, under a name that was free, and only an inode without children
\* goes away, with the one entry it has.
THEOREM ImplementsTree == Spec => ImplementsNameTree
<1>1. Init => Tree!Init
  <2> SUFFICES ASSUME Init PROVE Tree!Init
    OBVIOUS
  <2>1. \A d \in Nr : Children(d) = {}
    <3>1. \A d \in Nr : data[d] = EmptyDir(Root, Root) \/ data[d] = <<>>
      BY DEF Init
    <3>2. \A j \in DOMAIN EmptyDir(Root, Root) : EmptyDir(Root, Root)[j].name \in Dots
      BY DEF EmptyDir, Dot, Dots
    <3> QED BY <3>1, <3>2 DEF Children
  <2>2. LinksByPlace
    BY InitIInv, LinksAre
  <2>3. Links = {}
    BY <2>1, <2>2 DEF LinksByPlace
  <2> QED BY <2>3 DEF Tree!Init, Init
<1>2. IInv /\ IInv' /\ LinksByPlace /\ LinksByPlace' /\ StepOfTree
        => [Tree!Next]_<<freemap, Links>>
  <2> SUFFICES ASSUME IInv, IInv', LinksByPlace, LinksByPlace', StepOfTree
               PROVE  [Tree!Next]_<<freemap, Links>>
    OBVIOUS
  <2>1. ASSUME NEW n \in Name, NEW i \in Nr, NEW k \in 1 .. MaxEntries, CreatedAs(n, i, k)
        PROVE  Tree!Next
    <3>1. Tree!Make(cur, n, i)
      BY <2>1, CreatedMakes
    <3> QED BY <3>1 DEF Tree!Next, IInv, Types
  <2>2. ASSUME NEW n, NEW i \in Nr, NEW k \in Children(cur), RemovedAs(n, i, k)
        PROVE  Tree!Next
    BY <2>2, RemovedRemoves DEF Tree!Next
  <2>3. CASE UNCHANGED <<freemap, type, data>>
    <3>1. Links' = Links
      BY <2>3 DEF Links, LinkAt, NrAt, ChildrenOf, Children
    <3> QED BY <2>3, <3>1
  <2> QED BY <2>1, <2>2, <2>3 DEF StepOfTree
<1> QED BY <1>1, <1>2, LinksAre, InitIInv, StepKeeps, PTL DEF Spec, ImplementsNameTree, Tree!Spec

-----------------------------------------------------------------------------
(***************************************************************************)
(* Iteration.                                                              *)
(***************************************************************************)

LEMMA EachNumber ==
  ASSUME NEW S, 0 \in S, \A n \in Nat : n \in S => n + 1 \in S
  PROVE  \A n \in Nat : n \in S
<1> SUFFICES ASSUME NEW n \in Nat, n \notin S PROVE FALSE
  OBVIOUS
<1> DEFINE T == {m \in Nat : m \notin S}
           l == LeastOf(T)
<1>1. l \in T /\ \A j \in T : l <= j
  BY LeastInSet
<1> HIDE DEF l
<1>2. l \in Nat /\ l # 0 /\ l \notin S
  BY <1>1
<1>3. l - 1 \in Nat /\ l - 1 \notin T /\ (l - 1) + 1 = l
  BY <1>1, <1>2
<1> QED BY <1>2, <1>3

\* What a loop computes from v, that puts G[x] in the place of x.
Iterates(f, V, v, G) ==
  /\ f \in [Nat -> V]
  /\ f[0] = v /\ \A n \in Nat : f[n + 1] = G[f[n]]

LEMMA Iterated ==
  ASSUME NEW V, NEW v \in V, NEW G \in [V -> V]
  PROVE  \E f : Iterates(f, V, v, G)
<1> DEFINE IsPart(g, m) == /\ g \in [0 .. m -> V] /\ g[0] = v
                           /\ \A j \in 0 .. m - 1 : g[j + 1] = G[g[j]]
           S == {m \in Nat : \E g : IsPart(g, m)}
<1>1. 0 \in S
  <2>1. IsPart([j \in 0 .. 0 |-> v], 0)
    OBVIOUS
  <2> QED BY <2>1
<1>2. ASSUME NEW m \in Nat, m \in S PROVE m + 1 \in S
  <2>1. PICK g : IsPart(g, m)
    BY <1>2
  <2> DEFINE h == [j \in 0 .. m + 1 |-> IF j <= m THEN g[j] ELSE G[g[m]]]
  <2>2. h \in [0 .. m + 1 -> V] /\ h[0] = v
    BY <2>1
  <2>3. \A j \in 0 .. (m + 1) - 1 : h[j + 1] = G[h[j]]
    <3> SUFFICES ASSUME NEW j \in 0 .. m PROVE h[j + 1] = G[h[j]]
      OBVIOUS
    <3>1. CASE j = m
      BY <3>1
    <3>2. CASE j # m
      <4>1. j \in 0 .. m - 1 /\ j + 1 \in 0 .. m + 1 /\ j + 1 <= m /\ j <= m
        BY <3>2
      <4> QED BY <2>1, <4>1
    <3> QED BY <3>1, <3>2
  <2> HIDE DEF h
  <2>4. IsPart(h, m + 1)
    BY <2>2, <2>3
  <2> QED BY <2>4
<1>3. \A m \in Nat : m \in S
  <2> HIDE DEF S
  <2> QED BY <1>1, <1>2, EachNumber
<1> DEFINE part(m) == CHOOSE g : IsPart(g, m)
<1>4. \A m \in Nat : IsPart(part(m), m)
  BY <1>3
<1>5. ASSUME NEW m \in Nat, NEW g, NEW h, IsPart(g, m), IsPart(h, m + 1)
      PROVE  g[m] = h[m]
  <2> DEFINE U == {j \in Nat : j <= m => g[j] = h[j]}
  <2>1. 0 \in U
    BY <1>5
  <2>2. ASSUME NEW j \in Nat, j \in U PROVE j + 1 \in U
    <3> SUFFICES ASSUME j + 1 <= m PROVE g[j + 1] = h[j + 1]
      OBVIOUS
    <3>1. j \in 0 .. m - 1 /\ j \in 0 .. (m + 1) - 1 /\ g[j] = h[j]
      BY <2>2
    <3> QED BY <1>5, <3>1
  <2>3. \A j \in Nat : j \in U
    <3> HIDE DEF U
    <3> QED BY <2>1, <2>2, EachNumber
  <2> QED BY <2>3
<1> HIDE DEF part
<1> DEFINE f == [n \in Nat |-> part(n)[n]]
<1>6. f \in [Nat -> V] /\ f[0] = v
  <2>1. \A n \in Nat : part(n) \in [0 .. n -> V] /\ n \in 0 .. n /\ part(n)[0] = v
    BY <1>4
  <2> QED BY <2>1
<1>7. ASSUME NEW n \in Nat PROVE f[n + 1] = G[f[n]]
  <2>1. IsPart(part(n), n) /\ IsPart(part(n + 1), n + 1)
    <3> HIDE DEF IsPart
    <3>1. n + 1 \in Nat
      OBVIOUS
    <3> QED BY <1>4, <3>1
  <2>2. part(n)[n] = part(n + 1)[n]
    <3> HIDE DEF IsPart
    <3> QED BY <1>5, <2>1
  <2>3. n \in 0 .. (n + 1) - 1
    OBVIOUS
  <2>4. part(n + 1)[n + 1] = G[part(n + 1)[n]]
    BY <2>1, <2>3
  <2> QED BY <2>2, <2>4
<1> HIDE DEF f
<1> QED BY <1>6, <1>7 DEF Iterates

\* The numbers children are given are those of inodes in use.
LEMMA BelowIs ==
  ASSUME IInv, NEW d \in Nr
  PROVE  \E f : /\ f[0] = {d}
                /\ \A n \in Nat : f[n + 1] = f[n] \cup {NrAt(p) : p \in ChildrenOf(f[n])}
                /\ Below(d) = f[NInodes]
<1> DEFINE Kids_(S) == {NrAt(p) : p \in ChildrenOf(S)}
           G == [S \in SUBSET Nr |-> S \cup Kids_(S)]
           IsDown(f) == f = [n \in Nat |-> IF n = 0 THEN {d} ELSE f[n - 1] \cup Kids_(f[n - 1])]
           D == CHOOSE f : IsDown(f)
<1>1. G \in [SUBSET Nr -> SUBSET Nr]
  <2>1. ASSUME NEW S \in SUBSET Nr, NEW p \in ChildrenOf(S) PROVE NrAt(p) \in Nr
    BY <2>1 DEF ChildrenOf, NrAt, IInv, Kids, Types
  <2> QED BY <2>1
<1>2. PICK f \in [Nat -> SUBSET Nr] : f[0] = {d} /\ \A n \in Nat : f[n + 1] = G[f[n]]
  <2> HIDE DEF G
  <2>1. \E f : Iterates(f, SUBSET Nr, {d}, G)
    BY <1>1, Iterated
  <2> QED BY <2>1 DEF Iterates
<1>3. IsDown(f)
  <2>1. ASSUME NEW n \in Nat, n # 0 PROVE f[n] = f[n - 1] \cup Kids_(f[n - 1])
    <3>1. n - 1 \in Nat /\ (n - 1) + 1 = n
      BY <2>1
    <3>2. f[n - 1] \in SUBSET Nr /\ f[n] = G[f[n - 1]]
      BY <1>2, <3>1
    <3> HIDE DEF Kids_
    <3> QED BY <3>2
  <2> HIDE DEF Kids_
  <2> QED BY <1>2, <2>1
<1>4. IsDown(D)
  <2> HIDE DEF IsDown
  <2> QED BY <1>3
<1>5. Below(d) = D[NInodes]
  BY DEF Below
<1> HIDE DEF D
<1>6. D[0] = {d}
  BY <1>4
<1>7. ASSUME NEW n \in Nat PROVE D[n + 1] = D[n] \cup Kids_(D[n])
  <2>1. n + 1 \in Nat /\ n + 1 # 0 /\ (n + 1) - 1 = n
    OBVIOUS
  <2> HIDE DEF Kids_
  <2> QED BY <1>4, <2>1
<1> QED BY <1>5, <1>6, <1>7

-----------------------------------------------------------------------------
(***************************************************************************)
(* The tree.                                                               *)
(***************************************************************************)

Listed(d, i) == \E k \in Children(d) : data[d][k].nr = i

\* A number in use is an inode's, and the root or in some directory.
InUse ==
  /\ \A i \in freemap : type[i] # "none"
  /\ \A i \in freemap \ {Root} : \E d \in Nr : Listed(d, i)

\* The first two entries of a directory are itself, and the directory it is in.
DotEntries ==
  \A d \in Nr : type[d] = "dir" =>
    /\ {1, 2} \subseteq DOMAIN data[d]
    /\ data[d][1] = Dot(".", d)
    /\ data[d][2].name = ".." /\ data[d][2].nr \in Nr
    /\ IF d = Root THEN data[d][2].nr = Root ELSE Listed(data[d][2].nr, d)

\* The levels of the tree: a child is one below its directory.
IsDepth(depth) ==
  /\ depth \in [Nr -> Nat] /\ depth[Root] = 0
  /\ \A d \in Nr : \A k \in Children(d) : depth[data[d][k].nr] = depth[d] + 1

TreeInv == InUse /\ DotEntries /\ \E depth : IsDepth(depth)

LEMMA RootFacts ==
  /\ NInodes \in Nat /\ NInodes > 0 /\ Nr \subseteq Nat /\ Root \in Nr
  /\ IsFiniteSet(Nr) /\ Cardinality(Nr) = NInodes
BY NamespaceAssumption, FS_Interval DEF Nr, Root

\* What has children is a directory in use, and so are they in use.
LEMMA Parent ==
  ASSUME IInv, NEW d \in Nr, NEW k \in Children(d)
  PROVE  /\ type[d] = "dir" /\ d \in freemap
         /\ data[d][k].nr \in freemap \ {d, Root} /\ data[d][k].nr \in Nr
<1>1. data[d] # <<>>
  BY DEF Children
<1>2. type[d] = "dir" /\ d \in freemap
  BY <1>1 DEF IInv, Dirs
<1> QED BY <1>2 DEF IInv, Kids, Types

LEMMA CreatedEntries ==
  ASSUME IInv, NEW n \in Name, NEW i, NEW k, CreatedAs(n, i, k)
  PROVE  /\ \A d \in Nr : \A j \in Children(d) : j \in Children(d)' /\ data'[d][j] = data[d][j]
         /\ \A d \in Nr : \A j \in Children(d)' :
              (d = cur /\ j = k) \/ j \in Children(d)
         /\ k \in Children(cur)' /\ data'[cur][k] = [name |-> n, nr |-> i]
         /\ cur \in Nr /\ cur' = cur
<1>1. /\ cur \in Nr /\ cur' = cur /\ k \notin Children(cur)
      /\ data'[cur][k] = [name |-> n, nr |-> i]
  BY DEF CreatedAs, IInv, Types
<1>2. /\ Children(cur)' = Children(cur) \cup {k}
      /\ \A d \in Nr \ {cur, i} : Children(d)' = Children(d)
      /\ Children(i) = {} /\ Children(i)' = {}
  BY CreatedChildren
<1>3. ASSUME NEW d \in Nr, NEW j \in Children(d)
      PROVE  j \in Children(d)' /\ data'[d][j] = data[d][j]
  <2>1. CASE d = cur
    <3>1. Children(d)' = Children(cur)' /\ j \in Children(cur)
      BY <1>1, <2>1
    <3>2. j \in DOMAIN data[cur] \ {k}
      BY <1>1, <3>1 DEF Children
    <3> QED BY <1>2, <2>1, <3>1, <3>2 DEF CreatedAs
  <2>2. CASE d # cur
    BY <1>2, <2>2 DEF CreatedAs
  <2> QED BY <2>1, <2>2
<1>4. ASSUME NEW d \in Nr, NEW j \in Children(d)'
      PROVE  (d = cur /\ j = k) \/ j \in Children(d)
  <2>1. CASE d = cur
    <3>1. Children(d)' = Children(cur)'
      BY <1>1, <2>1
    <3> QED BY <1>2, <2>1, <3>1
  <2>2. CASE d # cur
    BY <1>2, <2>2
  <2> QED BY <2>1, <2>2
<1> QED BY <1>1, <1>2, <1>3, <1>4

LEMMA RemovedEntries ==
  ASSUME IInv, NEW n, NEW i, NEW k, RemovedAs(n, i, k)
  PROVE  /\ \A d \in Nr : \A j \in Children(d)' : j \in Children(d) /\ data'[d][j] = data[d][j]
         /\ \A d \in Nr : \A j \in Children(d) :
              (d = cur /\ j = k) \/ (j \in Children(d)' /\ data'[d][j] = data[d][j])
         /\ k \in Children(cur) /\ data[cur][k].nr = i
         /\ cur \in Nr /\ cur' = cur
<1>1. cur \in Nr /\ cur' = cur /\ k \in Children(cur) /\ data[cur][k].nr = i
  BY DEF RemovedAs, IInv, Types
<1>2. /\ Children(cur)' = Children(cur) \ {k}
      /\ \A d \in Nr \ {cur, i} : Children(d)' = Children(d)
      /\ Children(i) = {} /\ Children(i)' = {}
  BY RemovedChildren
<1>3. ASSUME NEW d \in Nr, NEW j \in Children(d)'
      PROVE  j \in Children(d) /\ data'[d][j] = data[d][j]
  <2>1. CASE d = cur
    <3>1. Children(d)' = Children(cur)'
      BY <1>1, <2>1
    <3>2. j \in Children(cur) /\ j # k
      BY <1>2, <3>1
    <3>3. j \in DOMAIN data[cur] \ {k}
      BY <3>2 DEF Children
    <3> QED BY <2>1, <3>2, <3>3 DEF RemovedAs
  <2>2. CASE d # cur
    BY <1>2, <2>2 DEF RemovedAs
  <2> QED BY <2>1, <2>2
<1>4. ASSUME NEW d \in Nr, NEW j \in Children(d), ~(d = cur /\ j = k)
      PROVE  j \in Children(d)'
  <2>1. CASE d = cur
    <3>1. Children(d)' = Children(cur)' /\ j # k /\ j \in Children(cur)
      BY <1>1, <1>4, <2>1
    <3> QED BY <1>2, <3>1
  <2>2. CASE d # cur
    BY <1>2, <2>2
  <2> QED BY <2>1, <2>2
<1> QED BY <1>1, <1>3, <1>4

LEMMA TreeInit == Init => TreeInv
<1> SUFFICES ASSUME Init PROVE TreeInv
  OBVIOUS
<1>1. Root \in Nr
  BY RootFacts
<1>2. \A d \in Nr : data[d] = EmptyDir(Root, Root) \/ data[d] = <<>>
  BY DEF Init
<1>3. \A d \in Nr : Children(d) = {}
  <2>1. \A j \in DOMAIN EmptyDir(Root, Root) : EmptyDir(Root, Root)[j].name \in Dots
    BY DEF EmptyDir, Dot, Dots
  <2> QED BY <1>2, <2>1 DEF Children
<1>4. InUse
  BY <1>1 DEF Init, InUse
<1>5. DotEntries
  <2> SUFFICES ASSUME NEW d \in Nr, type[d] = "dir"
               PROVE  /\ {1, 2} \subseteq DOMAIN data[d]
                      /\ data[d][1] = Dot(".", d)
                      /\ data[d][2].name = ".." /\ data[d][2].nr \in Nr
                      /\ IF d = Root THEN data[d][2].nr = Root ELSE Listed(data[d][2].nr, d)
    BY DEF DotEntries
  <2>1. d = Root /\ data[d] = <<Dot(".", Root), Dot("..", Root)>>
    BY <1>1 DEF Init, EmptyDir
  <2> QED BY <1>1, <2>1 DEF Dot
<1>6. IsDepth([d \in Nr |-> 0])
  BY <1>1, <1>3 DEF IsDepth
<1> QED BY <1>4, <1>5, <1>6 DEF TreeInv

LEMMA CreatedTree ==
  ASSUME IInv, IInv', TreeInv, NEW n \in Name, NEW i, NEW k, CreatedAs(n, i, k)
  PROVE  TreeInv'
<1>1. /\ i \in Nr /\ i \notin freemap /\ i # cur /\ i # Root /\ freemap' = freemap \cup {i}
      /\ type'[i] \in {"file", "dir"} /\ \A d \in Nr \ {i} : type'[d] = type[d]
      /\ data'[i] = IF type'[i] = "dir" THEN EmptyDir(i, cur) ELSE <<>>
      /\ Root \in Nr /\ freemap \subseteq Nr
  BY RootFacts DEF CreatedAs, IInv, Dirs, Types
<1>2. /\ \A d \in Nr : \A j \in Children(d) : j \in Children(d)' /\ data'[d][j] = data[d][j]
      /\ \A d \in Nr : \A j \in Children(d)' : (d = cur /\ j = k) \/ j \in Children(d)
      /\ k \in Children(cur)' /\ data'[cur][k] = [name |-> n, nr |-> i]
      /\ cur \in Nr /\ cur' = cur
  BY CreatedEntries
<1>3. \A d, j \in Nr : Listed(d, j) => Listed(d, j)'
  BY <1>2 DEF Listed
<1>4. Listed(cur, i)'
  <2>1. \E j \in Children(cur)' : data'[cur][j].nr = i
    BY <1>2
  <2>2. Listed(cur, i)' <=> \E j \in Children(cur)' : data'[cur'][j].nr = i
    BY DEF Listed
  <2> QED BY <1>2, <2>1, <2>2
<1>5. InUse'
  <2>1. \A j \in freemap' : type'[j] # "none"
    BY <1>1 DEF TreeInv, InUse
  <2>2. ASSUME NEW j \in freemap' \ {Root} PROVE \E d \in Nr : Listed(d, j)'
    <3>1. CASE j = i
      BY <1>2, <1>4, <3>1
    <3>2. CASE j # i
      BY <1>1, <1>3, <3>2 DEF TreeInv, InUse
    <3> QED BY <3>1, <3>2
  <2> QED BY <2>1, <2>2 DEF InUse
<1>6. DotEntries'
  <2> SUFFICES ASSUME NEW d \in Nr, type'[d] = "dir"
               PROVE  /\ {1, 2} \subseteq DOMAIN data'[d]
                      /\ data'[d][1] = Dot(".", d)
                      /\ data'[d][2].name = ".." /\ data'[d][2].nr \in Nr
                      /\ IF d = Root THEN data'[d][2].nr = Root ELSE Listed(data[d][2].nr, d)'
    BY DEF DotEntries, Listed
  <2>1. CASE d = i
    <3>1. data'[d] = <<Dot(".", i), Dot("..", cur)>>
      BY <1>1, <2>1 DEF EmptyDir
    <3>2. data'[d][1] = Dot(".", d) /\ data'[d][2] = Dot("..", cur) /\ {1, 2} \subseteq DOMAIN data'[d]
      BY <2>1, <3>1
    <3> QED BY <1>1, <1>2, <1>4, <2>1, <3>2 DEF Dot
  <2>2. CASE d # i
    <3>1. /\ {1, 2} \subseteq DOMAIN data[d]
          /\ data[d][1] = Dot(".", d)
          /\ data[d][2].name = ".." /\ data[d][2].nr \in Nr
          /\ IF d = Root THEN data[d][2].nr = Root ELSE Listed(data[d][2].nr, d)
      BY <1>1, <2>2 DEF TreeInv, DotEntries
    <3>2. {1, 2} \subseteq DOMAIN data'[d] /\ data'[d][1] = data[d][1] /\ data'[d][2] = data[d][2]
      <4>1. CASE d = cur
        <5>1. Live(data[d][1]) /\ Live(data[d][2])
          BY <3>1, RootFacts DEF Live, Dot
        <5>2. k \notin {1, 2}
          BY <3>1, <4>1, <5>1 DEF CreatedAs
        <5> QED BY <3>1, <4>1, <5>2 DEF CreatedAs
      <4>2. CASE d # cur
        BY <2>2, <3>1, <4>2 DEF CreatedAs
      <4> QED BY <4>1, <4>2
    <3> QED BY <1>3, <3>1, <3>2
  <2> QED BY <2>1, <2>2
<1>7. \E depth : IsDepth(depth)'
  <2>1. PICK depth : IsDepth(depth)
    BY DEF TreeInv
  <2>0. PICK deeper : deeper = [depth EXCEPT ![i] = depth[cur] + 1]
    OBVIOUS
  <2>2. /\ deeper \in [Nr -> Nat] /\ deeper[Root] = 0 /\ deeper[i] = depth[cur] + 1
        /\ \A d \in Nr \ {i} : deeper[d] = depth[d]
    BY <1>1, <1>2, <2>0, <2>1 DEF IsDepth
  <2>3. ASSUME NEW d \in Nr, NEW j \in Children(d)'
        PROVE  deeper[data'[d][j].nr] = deeper[d] + 1
    <3>1. CASE d = cur /\ j = k
      BY <1>1, <1>2, <2>2, <3>1
    <3>2. CASE ~(d = cur /\ j = k)
      <4>1. j \in Children(d) /\ data'[d][j] = data[d][j]
        BY <1>2, <3>2
      <4>2. d \in freemap /\ data[d][j].nr \in freemap
        BY <4>1, Parent
      <4>3. depth[data[d][j].nr] = depth[d] + 1
        BY <2>1, <4>1 DEF IsDepth
      <4> QED BY <1>1, <2>2, <4>1, <4>2, <4>3
    <3> QED BY <3>1, <3>2
  <2>4. IsDepth(deeper)'
    BY <2>2, <2>3 DEF IsDepth
  <2> QED BY <2>4
<1> QED BY <1>5, <1>6, <1>7 DEF TreeInv

LEMMA RemovedTree ==
  ASSUME IInv, IInv', TreeInv, NEW n, NEW i, NEW k, RemovedAs(n, i, k)
  PROVE  TreeInv'
<1>1. /\ i \in Nr /\ i # cur /\ Children(i) = {} /\ freemap' = freemap \ {i}
      /\ type'[i] = "none" /\ \A d \in Nr \ {i} : type'[d] = type[d]
      /\ freemap \subseteq Nr /\ Root \in Nr
  BY RootFacts DEF RemovedAs, IInv, Types
<1>2. /\ \A d \in Nr : \A j \in Children(d)' : j \in Children(d) /\ data'[d][j] = data[d][j]
      /\ \A d \in Nr : \A j \in Children(d) :
           (d = cur /\ j = k) \/ (j \in Children(d)' /\ data'[d][j] = data[d][j])
      /\ k \in Children(cur) /\ data[cur][k].nr = i
      /\ cur \in Nr /\ cur' = cur
  BY RemovedEntries
<1>3. ASSUME NEW d \in Nr, NEW j \in Nr \ {i}, Listed(d, j) PROVE Listed(d, j)'
  BY <1>2, <1>3 DEF Listed
<1>4. InUse'
  BY <1>1, <1>3 DEF TreeInv, InUse
<1>5. DotEntries'
  <2> SUFFICES ASSUME NEW d \in Nr, type'[d] = "dir"
               PROVE  /\ {1, 2} \subseteq DOMAIN data'[d]
                      /\ data'[d][1] = Dot(".", d)
                      /\ data'[d][2].name = ".." /\ data'[d][2].nr \in Nr
                      /\ IF d = Root THEN data'[d][2].nr = Root ELSE Listed(data[d][2].nr, d)'
    BY DEF DotEntries, Listed
  <2>1. d # i
    BY <1>1
  <2>2. /\ {1, 2} \subseteq DOMAIN data[d]
        /\ data[d][1] = Dot(".", d)
        /\ data[d][2].name = ".." /\ data[d][2].nr \in Nr
        /\ IF d = Root THEN data[d][2].nr = Root ELSE Listed(data[d][2].nr, d)
    BY <1>1, <2>1 DEF TreeInv, DotEntries
  <2>3. {1, 2} \subseteq DOMAIN data'[d] /\ data'[d][1] = data[d][1] /\ data'[d][2] = data[d][2]
    <3>1. CASE d = cur
      <4>1. data[cur][k].name \notin Dots
        BY <1>2 DEF Children
      <4>2. k # 1 /\ k # 2
        BY <2>2, <3>1, <4>1 DEF Dot, Dots
      <4> QED BY <2>2, <3>1, <4>2 DEF RemovedAs
    <3>2. CASE d # cur
      BY <2>1, <2>2, <3>2 DEF RemovedAs
    <3> QED BY <3>1, <3>2
  <2>4. CASE d = Root
    BY <2>2, <2>3, <2>4
  <2>5. CASE d # Root
    BY <1>3, <2>1, <2>2, <2>3, <2>5
  <2> QED BY <2>4, <2>5
<1>6. \A depth : IsDepth(depth) => IsDepth(depth)'
  BY <1>2 DEF IsDepth
<1> QED BY <1>4, <1>5, <1>6 DEF TreeInv

LEMMA SameTree ==
  ASSUME TreeInv, UNCHANGED <<freemap, type, data>>
  PROVE  TreeInv' /\ \A depth : IsDepth(depth) => IsDepth(depth)'
<1>1. \A d \in Nr : Children(d)' = Children(d)
  BY DEF Children
<1>2. \A d \in Nr, i \in Nr : Listed(d, i) <=> Listed(d, i)'
  BY <1>1 DEF Listed
<1>3. \A depth : IsDepth(depth) => IsDepth(depth)'
  BY <1>1 DEF IsDepth
<1>4. InUse' /\ DotEntries'
  BY <1>1 DEF TreeInv, InUse, DotEntries, Listed
<1> QED BY <1>3, <1>4 DEF TreeInv

LEMMA TreeStep == IInv /\ TreeInv /\ [Next]_vars => TreeInv'
<1> SUFFICES ASSUME IInv, TreeInv, [Next]_vars PROVE TreeInv'
  OBVIOUS
<1>1. IInv' /\ StepOfTree
  BY StepKeeps
<1> QED BY <1>1, CreatedTree, RemovedTree, SameTree DEF StepOfTree

\* Every level down to that of an inode in use has one, and each has its own
\* number: the tree is less deep than there are numbers.
LEMMA Levels ==
  ASSUME IInv, TreeInv, NEW depth, IsDepth(depth), NEW i \in freemap
  PROVE  depth[i] \in Nat /\ depth[i] <= NInodes
<1> DEFINE m == depth[i]
           S == {t \in Nat : t <= m => \E x \in freemap : depth[x] = m - t}
<1>1. freemap \subseteq Nr /\ depth \in [Nr -> Nat] /\ depth[Root] = 0 /\ m \in Nat
  BY DEF IInv, Types, IsDepth
<1>2. 0 \in S
  BY <1>1
<1>3. ASSUME NEW t \in Nat, t \in S PROVE t + 1 \in S
  <2> SUFFICES ASSUME t + 1 <= m PROVE \E x \in freemap : depth[x] = m - (t + 1)
    OBVIOUS
  <2>1. PICK x \in freemap : depth[x] = m - t
    BY <1>1, <1>3
  <2>2. x \in freemap \ {Root}
    BY <1>1, <2>1
  <2>3. PICK d \in Nr : Listed(d, x)
    BY <2>2 DEF TreeInv, InUse
  <2>4. PICK k \in Children(d) : data[d][k].nr = x
    BY <2>3 DEF Listed
  <2>5. d \in freemap /\ depth[x] = depth[d] + 1
    BY <2>4, Parent DEF IsDepth
  <2> QED BY <1>1, <2>1, <2>5
<1>4. \A t \in Nat : t \in S
  <2> HIDE DEF S
  <2> QED BY <1>2, <1>3, EachNumber
<1>5. \A j \in 0 .. m : \E x \in Nr : depth[x] = j
  <2> SUFFICES ASSUME NEW j \in 0 .. m PROVE \E x \in Nr : depth[x] = j
    OBVIOUS
  <2>1. m - j \in Nat /\ m - j <= m /\ m - (m - j) = j
    BY <1>1
  <2>2. m - j \in S
    BY <1>4, <2>1
  <2> QED BY <1>1, <2>1, <2>2
<1> DEFINE g == [j \in 0 .. m |-> CHOOSE x \in Nr : depth[x] = j]
<1>6. g \in Injection(0 .. m, Nr)
  <2>1. \A j \in 0 .. m : g[j] \in Nr /\ depth[g[j]] = j
    BY <1>5
  <2>2. g \in [0 .. m -> Nr]
    BY <1>5
  <2> HIDE DEF g, m
  <2> QED BY <2>1, <2>2 DEF Injection, IsInjective
<1>7. Cardinality(0 .. m) <= NInodes /\ Cardinality(0 .. m) = m + 1
  <2> HIDE DEF g, m
  <2>1. Cardinality(0 .. m) <= NInodes
    BY <1>6, RootFacts, FS_Injection
  <2>2. Cardinality(0 .. m) = m + 1
    BY <1>1, FS_Interval
  <2> QED BY <2>1, <2>2
<1> QED BY <1>1, <1>7, RootFacts

\* The tree from the root, level by level, is all that is in use.
LEMMA BelowRoot ==
  ASSUME IInv, TreeInv
  PROVE  Below(Root) = freemap
<1>1. PICK depth : IsDepth(depth)
  BY DEF TreeInv
<1>2. PICK f : /\ f[0] = {Root}
               /\ \A n \in Nat : f[n + 1] = f[n] \cup {NrAt(p) : p \in ChildrenOf(f[n])}
               /\ Below(Root) = f[NInodes]
  BY BelowIs, RootFacts
<1>3. /\ freemap \subseteq Nr /\ depth \in [Nr -> Nat] /\ depth[Root] = 0
      /\ Root \in freemap /\ Root \in Nr
  BY <1>1, RootFacts DEF IInv, Types, Dirs, IsDepth
<1>4. \A d \in Nr : \A k \in Children(d) : k \in 1 .. MaxEntries
  <2> SUFFICES ASSUME NEW d \in Nr, NEW k \in Children(d) PROVE k \in 1 .. MaxEntries
    OBVIOUS
  <2>1. data[d] \in Seq(Entry) /\ k \in DOMAIN data[d] /\ Len(data[d]) <= MaxEntries
    BY DEF IInv, Types, Sizes, Children
  <2>2. k \in 1 .. Len(data[d]) /\ Len(data[d]) \in Nat
    BY <2>1
  <2> QED BY <2>1, <2>2, NamespaceAssumption
<1>5. \A i \in freemap : depth[i] = 0 => i = Root
  <2> SUFFICES ASSUME NEW i \in freemap, i # Root PROVE depth[i] # 0
    OBVIOUS
  <2>1. PICK d \in Nr : Listed(d, i)
    BY DEF TreeInv, InUse
  <2>2. depth[i] = depth[d] + 1
    BY <1>1, <2>1 DEF Listed, IsDepth
  <2> QED BY <1>3, <2>2
<1> DEFINE S == {n \in Nat : f[n] = {i \in freemap : depth[i] <= n}}
<1>6. 0 \in S
  BY <1>2, <1>3, <1>5
<1>7. ASSUME NEW n \in Nat, n \in S PROVE n + 1 \in S
  <2>1. f[n] = {i \in freemap : depth[i] <= n}
    BY <1>7
  <2>2. f[n + 1] = f[n] \cup {NrAt(p) : p \in ChildrenOf(f[n])}
    BY <1>2
  <2>3. ASSUME NEW p \in ChildrenOf(f[n]) PROVE NrAt(p) \in freemap /\ depth[NrAt(p)] <= n + 1
    <3>1. p[1] \in freemap /\ depth[p[1]] <= n /\ p[2] \in Children(p[1])
      BY <2>1 DEF ChildrenOf
    <3>2. p[1] \in Nr /\ depth[p[1]] \in Nat
      BY <1>3, <3>1
    <3>3. NrAt(p) \in freemap /\ depth[NrAt(p)] = depth[p[1]] + 1
      BY <1>1, <3>1, <3>2, Parent DEF NrAt, IsDepth
    <3> QED BY <3>1, <3>2, <3>3
  <2>4. ASSUME NEW i \in freemap, depth[i] <= n + 1, ~(depth[i] <= n)
        PROVE  \E p \in ChildrenOf(f[n]) : i = NrAt(p)
    <3>1. depth[i] = n + 1 /\ i # Root
      BY <1>3, <2>4
    <3>2. PICK d \in Nr : Listed(d, i)
      BY <3>1 DEF TreeInv, InUse
    <3>3. PICK k \in Children(d) : data[d][k].nr = i
      BY <3>2 DEF Listed
    <3>4. d \in freemap /\ depth[i] = depth[d] + 1 /\ depth[d] \in Nat
      BY <1>1, <1>3, <3>3, Parent DEF IsDepth
    <3>5. d \in f[n]
      BY <2>1, <3>1, <3>4
    <3>6. <<d, k>> \in ChildrenOf(f[n])
      BY <1>4, <3>3, <3>5 DEF ChildrenOf
    <3>7. NrAt(<<d, k>>) = i
      BY <3>3 DEF NrAt
    <3> QED BY <3>6, <3>7
  <2>5. \A i \in freemap : depth[i] <= n => depth[i] <= n + 1
    BY <1>3
  <2>6. f[n + 1] = {i \in freemap : depth[i] <= n + 1}
    <3>1. ASSUME NEW i, i \in f[n + 1] PROVE i \in freemap /\ depth[i] <= n + 1
      BY <2>1, <2>2, <2>3, <2>5, <3>1
    <3>2. ASSUME NEW i \in freemap, depth[i] <= n + 1 PROVE i \in f[n + 1]
      <4>1. CASE depth[i] <= n
        BY <2>1, <2>2, <4>1
      <4>2. CASE ~(depth[i] <= n)
        BY <2>2, <2>4, <3>2, <4>2
      <4> QED BY <4>1, <4>2
    <3> QED BY <3>1, <3>2
  <2> QED BY <2>6
<1>8. NInodes \in S
  <2>1. \A n \in Nat : n \in S
    <3> HIDE DEF S
    <3> QED BY <1>6, <1>7, EachNumber
  <2> QED BY <2>1, RootFacts
<1>9. \A i \in freemap : depth[i] <= NInodes
  BY <1>1, Levels
<1> QED BY <1>2, <1>8, <1>9

LEMMA FreemapIsBelow == IInv /\ TreeInv => FreemapIsTree
<1> SUFFICES ASSUME IInv, TreeInv, NEW p \in ChildrenOf(Nr), NEW q \in ChildrenOf(Nr),
                    NrAt(p) = NrAt(q)
             PROVE  p = q
  BY BelowRoot DEF FreemapIsTree
<1>1. /\ p \in Nr \X (1 .. MaxEntries) /\ q \in Nr \X (1 .. MaxEntries)
      /\ p[2] \in Children(p[1]) /\ q[2] \in Children(q[1])
  BY DEF ChildrenOf
<1>2. p[1] = q[1] /\ p[2] = q[2]
  BY <1>1 DEF NrAt, IInv, Kids
<1> QED BY <1>1, <1>2

\* The inode numbers in use are those one comes to from the root, each by one
\* way: after any commands none is lost, and none given to two entries
\* (super.c:274).
THEOREM FreemapIsTheTree == Spec => []FreemapIsTree
<1>1. Init => IInv /\ TreeInv
  BY InitIInv, TreeInit
<1>2. IInv /\ TreeInv /\ [Next]_vars => IInv' /\ TreeInv'
  BY StepKeeps, TreeStep
<1> QED BY <1>1, <1>2, FreemapIsBelow, PTL DEF Spec

-----------------------------------------------------------------------------
(***************************************************************************)
(* What the calls of catr hold.                                            *)
(***************************************************************************)

\* The calls that list i, and those but the outermost that began in i.
Listing(s, i)  == {f \in DOMAIN s : s[f].in = i}
Beginning(s, i) == {f \in DOMAIN s \ {1} : s[f].tmp = i}
HeldBy(s, i)   == Cardinality(Listing(s, i)) + Cardinality(Beginning(s, i))

LEMMA HeldFinite ==
  ASSUME NEW s \in Seq(Frame), NEW i
  PROVE  /\ IsFiniteSet(Listing(s, i)) /\ IsFiniteSet(Beginning(s, i))
         /\ Cardinality(Listing(s, i)) \in Nat /\ Cardinality(Beginning(s, i)) \in Nat
         /\ HeldBy(s, i) \in Nat
<1>1. IsFiniteSet(1 .. Len(s))
  BY FS_Interval
<1>2. Listing(s, i) \in SUBSET (1 .. Len(s)) /\ Beginning(s, i) \in SUBSET (1 .. Len(s))
  BY DEF Listing, Beginning
<1>3. IsFiniteSet(Listing(s, i)) /\ IsFiniteSet(Beginning(s, i))
  BY <1>1, <1>2, FS_Subset
<1>4. Cardinality(Listing(s, i)) \in Nat /\ Cardinality(Beginning(s, i)) \in Nat
  BY <1>3, FS_CardinalityType
<1> QED BY <1>3, <1>4 DEF HeldBy

LEMMA HeldByNone ==
  ASSUME NEW i
  PROVE  HeldBy(<<>>, i) = 0
<1>1. Listing(<<>>, i) = {} /\ Beginning(<<>>, i) = {}
  BY DEF Listing, Beginning
<1>2. Cardinality({}) = 0
  BY FS_EmptySet
<1> QED BY <1>1, <1>2 DEF HeldBy

LEMMA HeldByOne ==
  ASSUME NEW c, NEW i
  PROVE  HeldBy(<<c>>, i) = IF c.in = i THEN 1 ELSE 0
<1>1. Listing(<<c>>, i) = (IF c.in = i THEN {1} ELSE {}) /\ Beginning(<<c>>, i) = {}
  BY DEF Listing, Beginning
<1>2. Cardinality({}) = 0 /\ Cardinality({1}) = 1
  BY FS_EmptySet, FS_Singleton
<1> QED BY <1>1, <1>2 DEF HeldBy

LEMMA HeldByMore ==
  ASSUME NEW s \in Seq(Frame), s # <<>>, NEW c \in Frame, NEW i
  PROVE  HeldBy(Append(s, c), i)
           = HeldBy(s, i) + (IF c.in = i THEN 1 ELSE 0) + (IF c.tmp = i THEN 1 ELSE 0)
<1> DEFINE l == Len(s) + 1
<1>1. /\ Append(s, c) \in Seq(Frame) /\ DOMAIN Append(s, c) = DOMAIN s \cup {l}
      /\ Append(s, c)[l] = c /\ l # 1 /\ l \notin DOMAIN s
      /\ \A f \in DOMAIN s : Append(s, c)[f] = s[f]
  OBVIOUS
<1> HIDE DEF l
<1>2. Listing(Append(s, c), i) = Listing(s, i) \cup (IF c.in = i THEN {l} ELSE {})
  BY <1>1 DEF Listing
<1>3. Beginning(Append(s, c), i) = Beginning(s, i) \cup (IF c.tmp = i THEN {l} ELSE {})
  BY <1>1 DEF Beginning
<1>4. l \notin Listing(s, i) /\ l \notin Beginning(s, i)
  BY <1>1 DEF Listing, Beginning
<1>5. /\ IsFiniteSet(Listing(s, i)) /\ IsFiniteSet(Beginning(s, i))
      /\ Cardinality(Listing(s, i)) \in Nat /\ Cardinality(Beginning(s, i)) \in Nat
  BY HeldFinite
<1>6. Cardinality(Listing(Append(s, c), i))
        = Cardinality(Listing(s, i)) + IF c.in = i THEN 1 ELSE 0
  <2>1. CASE c.in = i
    BY <1>2, <1>4, <1>5, <2>1, FS_AddElement
  <2>2. CASE c.in # i
    <3>1. Listing(Append(s, c), i) = Listing(s, i)
      BY <1>2, <2>2
    <3> QED BY <1>5, <2>2, <3>1
  <2> QED BY <2>1, <2>2
<1>7. Cardinality(Beginning(Append(s, c), i))
        = Cardinality(Beginning(s, i)) + IF c.tmp = i THEN 1 ELSE 0
  <2>1. CASE c.tmp = i
    BY <1>3, <1>4, <1>5, <2>1, FS_AddElement
  <2>2. CASE c.tmp # i
    <3>1. Beginning(Append(s, c), i) = Beginning(s, i)
      BY <1>3, <2>2
    <3> QED BY <1>5, <2>2, <3>1
  <2> QED BY <2>1, <2>2
<1> QED BY <1>5, <1>6, <1>7 DEF HeldBy

\* The calls but the last one.
LEMMA Popped ==
  ASSUME NEW s \in Seq(Frame), Len(s) > 1
  PROVE  LET r == SubSeq(s, 1, Len(s) - 1)
         IN  /\ r \in Seq(Frame) /\ r # <<>> /\ Len(r) = Len(s) - 1 /\ r[1] = s[1]
             /\ s[Len(s)] \in Frame /\ s = Append(r, s[Len(s)])
             /\ r[Len(r)] = s[Len(s) - 1]
<1> DEFINE r == SubSeq(s, 1, Len(s) - 1)
<1>1. Len(s) \in Nat /\ Len(s) - 1 \in 1 .. Len(s) /\ s[Len(s)] \in Frame
  OBVIOUS
<1>2. r \in Seq(Frame) /\ Len(r) = Len(s) - 1 /\ \A f \in 1 .. Len(s) - 1 : r[f] = s[f]
  BY <1>1
<1> HIDE DEF r
<1>3. r # <<>> /\ r[1] = s[1] /\ r[Len(r)] = s[Len(s) - 1]
  BY <1>1, <1>2
<1>4. s = Append(r, s[Len(s)])
  BY <1>1, <1>2
<1> QED BY <1>1, <1>2, <1>3, <1>4 DEF r

LEMMA HeldByFewer ==
  ASSUME NEW s \in Seq(Frame), Len(s) > 1, NEW i
  PROVE  HeldBy(s, i) = HeldBy(SubSeq(s, 1, Len(s) - 1), i)
                          + (IF s[Len(s)].in = i THEN 1 ELSE 0)
                          + (IF s[Len(s)].tmp = i THEN 1 ELSE 0)
<1> DEFINE r == SubSeq(s, 1, Len(s) - 1)
           c == s[Len(s)]
<1>1. r \in Seq(Frame) /\ r # <<>> /\ c \in Frame /\ s = Append(r, c)
  BY Popped
<1> HIDE DEF r, c
<1>2. HeldBy(Append(r, c), i)
        = HeldBy(r, i) + (IF c.in = i THEN 1 ELSE 0) + (IF c.tmp = i THEN 1 ELSE 0)
  BY <1>1, HeldByMore
<1>3. HeldBy(s, i) = HeldBy(Append(r, c), i)
  BY <1>1
<1> QED BY <1>2, <1>3 DEF r, c

\* Going to the next entry, a call lists and began in what it did.
LEMMA NextEntrySame ==
  ASSUME stack \in Seq(Frame), stack # <<>>
  PROVE  /\ NextEntry \in Seq(Frame) /\ Len(NextEntry) = Len(stack) /\ NextEntry # <<>>
         /\ DOMAIN NextEntry = DOMAIN stack
         /\ \A f \in DOMAIN stack : /\ NextEntry[f].in = stack[f].in
                                     /\ NextEntry[f].tmp = stack[f].tmp
         /\ \A i : HeldBy(NextEntry, i) = HeldBy(stack, i)
<1> DEFINE next == [Top EXCEPT !.at = @ + 1]
<1>1. Len(stack) \in DOMAIN stack /\ Top \in Frame
  BY DEF Top
<1>2. next \in Frame /\ next.in = Top.in /\ next.tmp = Top.tmp
  BY <1>1 DEF Frame
<1>3. NextEntry = [stack EXCEPT ![Len(stack)] = next]
  BY DEF NextEntry, Top
<1> HIDE DEF next
<1>4. /\ NextEntry \in Seq(Frame) /\ Len(NextEntry) = Len(stack) /\ DOMAIN NextEntry = DOMAIN stack
      /\ \A f \in DOMAIN stack : NextEntry[f] = IF f = Len(stack) THEN next ELSE stack[f]
  BY <1>1, <1>2, <1>3
<1>5. \A f \in DOMAIN stack : NextEntry[f].in = stack[f].in /\ NextEntry[f].tmp = stack[f].tmp
  BY <1>2, <1>4 DEF Top
<1>6. \A i : Listing(NextEntry, i) = Listing(stack, i) /\ Beginning(NextEntry, i) = Beginning(stack, i)
  BY <1>4, <1>5 DEF Listing, Beginning
<1>7. NextEntry # <<>>
  BY <1>4
<1> QED BY <1>4, <1>5, <1>6, <1>7 DEF HeldBy

\* What is counted beyond what the calls of catr hold.
Rest(i) == count[i] - HeldBy(stack, i)

CountTypes == count \in [Nr -> Nat] /\ dirty \subseteq Nr

Held == CountTypes /\ \A i \in Nr : Rest(i) >= 0

\* Counts and calls change together, or not at all.
Still == \A i \in Nr : Rest(i)' = Rest(i)

\* cd, between commands.
Moved ==
  /\ stack = <<>> /\ stack' = <<>> /\ cur' \in Nr /\ count[cur] > 0
  /\ \A i \in Nr : Rest(i)' = Rest(i) - (IF i = cur THEN 1 ELSE 0) + (IF i = cur' THEN 1 ELSE 0)

\* quit and start: only the root is held again.
Restarted ==
  /\ stack = <<>> /\ stack' = <<>> /\ cur' = Root
  /\ \A i \in Nr : Rest(i)' = IF i = Root THEN 1 ELSE 0

LEMMA LookupType ==
  ASSUME IInv, NEW d \in Nr, NEW n
  PROVE  Lookup(d, n) \in Nr \cup {-1}
<1>1. CASE Named(d, n) = {}
  BY <1>1 DEF Lookup
<1>2. CASE Named(d, n) # {}
  <2>1. data[d] \in Seq(Entry)
    BY DEF IInv, Types
  <2>2. Named(d, n) \subseteq Nat
    BY <2>1 DEF Named
  <2>3. LeastOf(Named(d, n)) \in Named(d, n)
    BY <1>2, <2>2, LeastInSet
  <2>4. Lookup(d, n) >= 0
    BY <1>2, <2>3 DEF Lookup, Named, Live
  <2> QED BY <2>4, LookupFound DEF IInv
<1> QED BY <1>1, <1>2

LEMMA StillIfSame ==
  ASSUME UNCHANGED <<count, stack>>
  PROVE  Still
BY DEF Still, Rest

\* A call that returns gives back what it held.
LEMMA ReturnStill ==
  ASSUME IInv, Held, stack # <<>>, NEW at, CatrReturn(at)
  PROVE  count' \in [Nr -> Int] /\ dirty' \subseteq Nr /\ Still
<1>1. stack \in Seq(Frame) /\ Len(stack) \in Nat /\ Len(stack) >= 1 /\ Top \in Frame
  BY DEF IInv, Types, Top
<1>2. Top.in \in Nr /\ Top.tmp \in Nr /\ count \in [Nr -> Nat] /\ dirty \subseteq Nr
  BY <1>1 DEF Frame, Held, CountTypes
<1>3. CASE CatrPuts(at) \cap dirty # {}
  <2>1. UNCHANGED <<count, stack, dirty>>
    BY <1>3 DEF CatrReturn, Abort
  <2> QED BY <1>2, <2>1, StillIfSame
<1>4. CASE CatrPuts(at) \cap dirty = {} /\ Len(stack) = 1
  <2>1. /\ stack' = SubSeq(stack, 1, 0) /\ dirty' = dirty
        /\ count' = [count EXCEPT ![Top.in] = @ - 1]
    BY <1>4 DEF CatrReturn
  <2>2. stack' = <<>> /\ stack = <<Top>>
    BY <1>1, <1>4, <2>1 DEF Top
  <2>3. \A i \in Nr : count'[i] = count[i] - IF Top.in = i THEN 1 ELSE 0
    BY <1>2, <2>1
  <2>4. \A i : HeldBy(stack, i) = (IF Top.in = i THEN 1 ELSE 0) /\ HeldBy(stack', i) = 0
    <3>1. \A i : HeldBy(<<Top>>, i) = (IF Top.in = i THEN 1 ELSE 0) /\ HeldBy(<<>>, i) = 0
      BY HeldByOne, HeldByNone
    <3> QED BY <2>2, <3>1
  <2>5. \A i \in Nr : Rest(i)' = Rest(i)
    <3> SUFFICES ASSUME NEW i \in Nr PROVE count'[i] - HeldBy(stack', i) = count[i] - HeldBy(stack, i)
      BY DEF Rest
    <3>1. count[i] \in Nat
      BY <1>2
    <3> QED BY <2>3, <2>4, <3>1
  <2> QED BY <1>2, <2>1, <2>5 DEF Still
<1>5. CASE CatrPuts(at) \cap dirty = {} /\ Len(stack) # 1
  <2>1. /\ stack' = SubSeq(stack, 1, Len(stack) - 1) /\ dirty' = dirty
        /\ count' = ReturnedHold
    BY <1>5 DEF CatrReturn
  <2>2. \A i \in Nr : count'[i] = count[i] - (IF Top.in = i THEN 1 ELSE 0)
                                         - (IF Top.tmp = i THEN 1 ELSE 0)
    BY <2>1 DEF ReturnedHold
  <2>3. count' \in [Nr -> Int]
    BY <1>2, <2>1 DEF ReturnedHold
  <2>4. Len(stack) > 1
    <3>1. \A m \in Nat : m >= 1 /\ m # 1 => m > 1
      OBVIOUS
    <3> QED BY <1>1, <1>5, <3>1
  <2>5. \A i : HeldBy(stack, i) = HeldBy(stack', i) + (IF Top.in = i THEN 1 ELSE 0)
                                                   + (IF Top.tmp = i THEN 1 ELSE 0)
    BY <1>1, <2>1, <2>4, HeldByFewer DEF Top
  <2>6. stack' \in Seq(Frame)
    BY <1>1, <2>1, <2>4, Popped
  <2>7. \A i \in Nr : Rest(i)' = Rest(i)
    <3> SUFFICES ASSUME NEW i \in Nr PROVE count'[i] - HeldBy(stack', i) = count[i] - HeldBy(stack, i)
      BY DEF Rest
    <3>1. count[i] \in Nat /\ HeldBy(stack', i) \in Nat
      BY <1>2, <2>6, HeldFinite
    <3> QED BY <2>2, <2>5, <3>1
  <2> QED BY <1>2, <2>1, <2>3, <2>7 DEF Still
<1> QED BY <1>3, <1>4, <1>5

\* A call that descends holds the directory and what its call lists.
LEMMA DescendStill ==
  ASSUME IInv, Held, stack # <<>>, NEW kid \in Nr, NEW i \in Nr,
         count' = DescendedHold(kid, i), stack' = Append(NextEntry, Call(i, kid))
  PROVE  count' \in [Nr -> Int] /\ Still
<1>1. /\ NextEntry \in Seq(Frame) /\ NextEntry # <<>>
      /\ \A j : HeldBy(NextEntry, j) = HeldBy(stack, j)
  BY NextEntrySame DEF IInv, Types
<1>2. Call(i, kid) \in Frame /\ Call(i, kid).in = i /\ Call(i, kid).tmp = kid
  BY DEF Call, Frame
<1>3. \A j : HeldBy(stack', j) = HeldBy(NextEntry, j) + (IF i = j THEN 1 ELSE 0)
                                                    + (IF kid = j THEN 1 ELSE 0)
  BY <1>1, <1>2, HeldByMore
<1>4. count \in [Nr -> Nat]
  BY DEF Held, CountTypes
<1>5. \A j \in Nr : count'[j] = count[j] + (IF j = kid THEN 1 ELSE 0) + (IF j = i THEN 1 ELSE 0)
  BY DEF DescendedHold
<1>6. count' \in [Nr -> Int]
  BY <1>4 DEF DescendedHold
<1>7. \A j \in Nr : Rest(j)' = Rest(j)
  <2> SUFFICES ASSUME NEW j \in Nr PROVE count'[j] - HeldBy(stack', j) = count[j] - HeldBy(stack, j)
    BY DEF Rest
  <2>1. count[j] \in Nat /\ HeldBy(stack, j) \in Nat
    BY <1>4, HeldFinite DEF IInv, Types
  <2> DEFINE x == IF i = j THEN 1 ELSE 0
             y == IF kid = j THEN 1 ELSE 0
  <2>2. x \in Int /\ y \in Int
    OBVIOUS
  <2>3. HeldBy(stack', j) = HeldBy(stack, j) + x + y
    BY <1>1, <1>3
  <2>4. count'[j] = count[j] + y + x
    BY <1>5
  <2> HIDE DEF x, y
  <2> QED BY <2>1, <2>2, <2>3, <2>4
<1> QED BY <1>6, <1>7 DEF Still

LEMMA CatrCounts ==
  ASSUME IInv, Held, CatrStep
  PROVE  count' \in [Nr -> Int] /\ dirty' \subseteq Nr /\ Still
<1>1. /\ stack \in Seq(Frame) /\ stack # <<>> /\ Top \in Frame /\ Top.in \in Nr
      /\ count \in [Nr -> Int] /\ dirty \subseteq Nr
  <2>1. stack \in Seq(Frame) /\ stack # <<>>
    BY DEF CatrStep, CatrEnd, CatrSkip, CatrDescend, InCatr, IInv, Types
  <2>2. Top \in Frame
    BY <2>1 DEF Top
  <2> QED BY <2>1, <2>2 DEF Frame, Held, CountTypes
<1>2. ASSUME NEW a, Abort(a) PROVE dirty' = dirty /\ count' = count /\ Still
  BY <1>2, StillIfSame DEF Abort
<1>3. CASE CatrEnd
  BY <1>1, <1>2, <1>3, ReturnStill DEF CatrEnd
<1>4. CASE CatrSkip
  <2>1. stack' = NextEntry /\ UNCHANGED <<count, dirty>>
    BY <1>4 DEF CatrSkip
  <2>2. \A i : HeldBy(stack', i) = HeldBy(stack, i)
    BY <1>1, <2>1, NextEntrySame
  <2>3. Still
    BY <2>1, <2>2 DEF Still, Rest
  <2> QED BY <1>1, <2>1, <2>3
<1>5. CASE CatrDescend
  <2>1. PICK k \in Subdirs :
          LET kid == data[Top.in][k].nr
              i == Lookup(kid, arg)
          IN  IF i < 0 THEN CatrReturn(kid)
              ELSE IF Len(stack) = MaxStack THEN Abort("stack")
              ELSE /\ count' = DescendedHold(kid, i)
                   /\ stack' = Append(NextEntry, Call(i, kid))
                   /\ dirty' = dirty
    BY <1>5 DEF CatrDescend
  <2> DEFINE kid == data[Top.in][k].nr
             i == Lookup(kid, arg)
  <2>2. kid \in Nr
    BY <1>1, Parent DEF Subdirs
  <2>3. i \in Nr \cup {-1}
    BY <2>2, LookupType
  <2>4. CASE i < 0
    BY <1>1, <2>1, <2>4, ReturnStill
  <2>5. CASE ~(i < 0) /\ Len(stack) = MaxStack
    BY <1>1, <1>2, <2>1, <2>5
  <2>6. CASE ~(i < 0) /\ Len(stack) # MaxStack
    <3>1. i \in Nr /\ count' = DescendedHold(kid, i) /\ stack' = Append(NextEntry, Call(i, kid))
          /\ dirty' = dirty
      BY <2>1, <2>3, <2>6
    <3> HIDE DEF kid, i
    <3> QED BY <1>1, <2>2, <3>1, DescendStill
  <2> QED BY <2>4, <2>5, <2>6
<1> QED BY <1>3, <1>4, <1>5 DEF CatrStep

LEMMA CountStep ==
  ASSUME IInv, Held, [Next]_vars
  PROVE  /\ count' \in [Nr -> Int] /\ dirty' \subseteq Nr
         /\ (Still /\ (stack = <<>> => cur' = cur)) \/ Moved \/ Restarted
<1>1. count \in [Nr -> Nat] /\ dirty \subseteq Nr /\ cur \in Nr /\ Root \in Nr
  BY RootFacts DEF Held, CountTypes, IInv, Types
<1>2. CASE UNCHANGED <<count, stack, cur>> /\ dirty' \subseteq Nr
  BY <1>1, <1>2, StillIfSame
<1>3. ASSUME NEW n, NEW kind, Create(kind, n) \/ CreateFails(n) \/ Rm(n) \/ Look
      PROVE  UNCHANGED <<count, stack, cur>> /\ dirty' \subseteq Nr
  BY <1>1, <1>3 DEF Create, CreateFails, Rm, Look, Abort
<1>4. ASSUME NEW n, Catr(n)
      PROVE  count' \in [Nr -> Int] /\ dirty' \subseteq Nr /\ Still /\ cur' = cur
  <2> DEFINE i == Lookup(cur, n)
  <2>1. i \in Nr
    BY <1>1, <1>4, LookupFound DEF Catr, IInv
  <2>2. /\ stack = <<>> /\ stack' = <<Call(i, cur)>> /\ dirty' = dirty /\ cur' = cur
        /\ count' = [count EXCEPT ![i] = @ + 1]
    BY <1>4 DEF Catr, Ready
  <2> HIDE DEF i
  <2>3. \A j : HeldBy(stack, j) = 0 /\ HeldBy(stack', j) = IF i = j THEN 1 ELSE 0
    <3>1. Call(i, cur).in = i
      BY DEF Call
    <3>2. \A j : HeldBy(<<>>, j) = 0 /\ HeldBy(<<Call(i, cur)>>, j) = IF i = j THEN 1 ELSE 0
      BY <3>1, HeldByNone, HeldByOne
    <3> QED BY <2>2, <3>2
  <2>4. \A j \in Nr : Rest(j)' = Rest(j)
    <3> SUFFICES ASSUME NEW j \in Nr PROVE count'[j] - HeldBy(stack', j) = count[j] - HeldBy(stack, j)
      BY DEF Rest
    <3>1. count[j] \in Nat /\ count'[j] = count[j] + IF i = j THEN 1 ELSE 0
      BY <1>1, <2>1, <2>2
    <3> QED BY <2>3, <3>1
  <2>5. count' \in [Nr -> Int]
    BY <1>1, <2>1, <2>2
  <2> QED BY <1>1, <2>2, <2>4, <2>5 DEF Still
<1>5. \A j : stack = <<>> => HeldBy(stack, j) = 0
  BY HeldByNone
<1>6. ASSUME NEW n, Cd(n)
      PROVE  count' \in [Nr -> Int] /\ dirty' \subseteq Nr /\ ((Still /\ cur' = cur) \/ Moved)
  <2> DEFINE i == IF n = "/" THEN Root ELSE Lookup(cur, n)
  <2>1. i \in Nr
    BY <1>1, <1>6, LookupFound DEF Cd, IInv
  <2>2. stack = <<>> /\ count[cur] > 0 /\ stack' = stack /\ dirty' = dirty
    BY <1>6 DEF Cd, Ready, Abort
  <2>3. CASE cur \in dirty
    BY <1>1, <1>6, <2>3, StillIfSame DEF Cd, Abort
  <2>4. CASE cur \notin dirty
    <3>1. cur' = i /\ count' = MovedHold(cur, i)
      BY <1>6, <2>4 DEF Cd
    <3> HIDE DEF i
    <3>2. \A j \in Nr : count'[j] = count[j] - (IF j = cur THEN 1 ELSE 0) + (IF j = i THEN 1 ELSE 0)
      BY <1>1, <2>1, <3>1 DEF MovedHold
    <3>3. count' \in [Nr -> Int]
      BY <1>1, <2>1, <3>1 DEF MovedHold
    <3>4. ASSUME NEW j \in Nr
          PROVE  Rest(j)' = Rest(j) - (IF j = cur THEN 1 ELSE 0) + (IF j = cur' THEN 1 ELSE 0)
      <4>1. HeldBy(stack, j) = 0 /\ HeldBy(stack', j) = 0 /\ count[j] \in Nat
        BY <1>1, <1>5, <2>2
      <4>2. Rest(j) = count[j] /\ Rest(j)' = count'[j]
        <5>1. count[j] - 0 = count[j] /\ count'[j] - 0 = count'[j]
          BY <3>2, <4>1
        <5> QED BY <4>1, <5>1 DEF Rest
      <4> QED BY <3>1, <3>2, <4>2
    <3>5. Moved
      BY <2>1, <2>2, <3>1, <3>4 DEF Moved
    <3> QED BY <1>1, <2>2, <3>3, <3>5
  <2> QED BY <2>3, <2>4
<1>7. CASE Restart
  <2>1. stack = <<>> /\ stack' = stack /\ dirty' = dirty
    BY <1>7 DEF Restart, Ready, Abort
  <2>2. \/ count' = count /\ cur' = cur
        \/ cur' = Root /\ count' = [j \in Nr |-> IF j = Root THEN 1 ELSE 0]
    BY <1>7 DEF Restart, Abort
  <2>3. CASE count' = count /\ cur' = cur
    BY <1>1, <2>1, <2>3, StillIfSame
  <2>4. CASE cur' = Root /\ count' = [j \in Nr |-> IF j = Root THEN 1 ELSE 0]
    <3>1. ASSUME NEW j \in Nr PROVE Rest(j)' = IF j = Root THEN 1 ELSE 0
      <4>1. HeldBy(stack', j) = 0 /\ count'[j] = IF j = Root THEN 1 ELSE 0
        BY <1>5, <2>1, <2>4
      <4> QED BY <4>1 DEF Rest
    <3> QED BY <1>1, <2>1, <2>4, <3>1 DEF Restarted
  <2> QED BY <2>2, <2>3, <2>4
<1>8. CASE UNCHANGED vars
  BY <1>1, <1>8, StillIfSame DEF vars
<1>9. CASE CatrStep
  <2>1. stack # <<>>
    BY <1>9 DEF CatrStep, CatrEnd, CatrSkip, CatrDescend, InCatr
  <2> QED BY <1>9, <2>1, CatrCounts
<1> QED BY <1>2, <1>3, <1>4, <1>6, <1>7, <1>8, <1>9 DEF Next

LEMMA HeldInit == Init => Held
<1> SUFFICES ASSUME Init PROVE Held
  OBVIOUS
<1>1. \A i : HeldBy(stack, i) = 0
  BY HeldByNone DEF Init
<1> QED BY <1>1 DEF Init, Held, CountTypes, Rest

LEMMA HeldStep == IInv /\ Held /\ [Next]_vars => Held'
<1> SUFFICES ASSUME IInv, Held, [Next]_vars PROVE Held'
  OBVIOUS
<1>1. count' \in [Nr -> Int] /\ dirty' \subseteq Nr /\ (Still \/ Moved \/ Restarted)
  BY CountStep
<1>2. IInv' /\ stack' \in Seq(Frame) /\ count \in [Nr -> Nat]
  BY StepKeeps DEF IInv, Types, Held, CountTypes
<1>3. ASSUME NEW i \in Nr PROVE Rest(i) \in Nat
  <2>1. HeldBy(stack, i) \in Nat /\ count[i] \in Nat /\ Rest(i) >= 0
    BY <1>2, HeldFinite DEF IInv, Types, Held
  <2> QED BY <2>1 DEF Rest
<1>4. ASSUME NEW i \in Nr PROVE Rest(i)' >= 0
  <2>1. CASE Still
    BY <1>3, <2>1 DEF Still
  <2>2. CASE Moved
    <3>1. i = cur => Rest(i) > 0
      <4>1. HeldBy(<<>>, cur) = 0
        BY HeldByNone
      <4>2. HeldBy(stack, cur) = 0 /\ count[cur] > 0
        BY <2>2, <4>1 DEF Moved
      <4>3. i = cur => count[i] \in Nat /\ count[i] - 0 = count[i]
        BY <1>2
      <4> QED BY <4>2, <4>3 DEF Rest
    <3> QED BY <1>3, <2>2, <3>1 DEF Moved
  <2>3. CASE Restarted
    BY <2>3 DEF Restarted
  <2> QED BY <1>1, <2>1, <2>2, <2>3
<1>5. ASSUME NEW i \in Nr PROVE count'[i] \in Nat
  <2>1. HeldBy(stack', i) \in Nat /\ count'[i] \in Int
    BY <1>1, <1>2, HeldFinite
  <2>2. count'[i] - HeldBy(stack', i) >= 0
    BY <1>4 DEF Rest
  <2> QED BY <2>1, <2>2
<1>6. count' \in [Nr -> Nat]
  BY <1>1, <1>5
<1> QED BY <1>1, <1>4, <1>6 DEF Held, CountTypes

-----------------------------------------------------------------------------
(***************************************************************************)
(* The assertions about the tree.                                          *)
(***************************************************************************)

\* Every directory has one entry "." and one entry "..", its own number and
\* that of a directory.
LEMMA LookupDots ==
  ASSUME IInv, TreeInv, NEW d \in Nr, type[d] = "dir"
  PROVE  /\ Lookup(d, ".") = d
         /\ Lookup(d, "..") = data[d][2].nr
         /\ Lookup(d, "..") \in Nr /\ type[Lookup(d, "..")] = "dir"
         /\ IF d = Root THEN Lookup(d, "..") = Root ELSE Listed(Lookup(d, ".."), d)
<1>1. /\ 1 \in DOMAIN data[d] /\ 2 \in DOMAIN data[d]
      /\ data[d][1].name = "." /\ data[d][1].nr = d
      /\ data[d][2].name = ".." /\ data[d][2].nr \in Nr
      /\ IF d = Root THEN data[d][2].nr = Root ELSE Listed(data[d][2].nr, d)
  <2>1. /\ {1, 2} \subseteq DOMAIN data[d]
        /\ data[d][1] = Dot(".", d)
        /\ data[d][2].name = ".." /\ data[d][2].nr \in Nr
        /\ IF d = Root THEN data[d][2].nr = Root ELSE Listed(data[d][2].nr, d)
    BY DEF TreeInv, DotEntries
  <2>2. Dot(".", d).name = "." /\ Dot(".", d).nr = d
    BY DEF Dot
  <2> QED BY <2>1, <2>2
<1>2. Live(data[d][1]) /\ Live(data[d][2])
  <2>1. data[d][1].nr \in Nat /\ data[d][2].nr \in Nat
    BY <1>1, RootFacts
  <2> QED BY <2>1 DEF Live
<1>3. ASSUME NEW n, NEW k \in DOMAIN data[d], Live(data[d][k]), data[d][k].name = n
      PROVE  Lookup(d, n) = data[d][k].nr
  <2>1. Named(d, n) = {k}
    BY <1>3 DEF Named, IInv, NamesUnique
  <2>2. k \in Nat
    BY DEF IInv, Types
  <2>3. LeastOf({k}) = k
    BY <2>2, LeastInSet
  <2> QED BY <2>1, <2>3 DEF Lookup
<1>4. Lookup(d, ".") = d /\ Lookup(d, "..") = data[d][2].nr
  BY <1>1, <1>2, <1>3
<1>5. type[data[d][2].nr] = "dir"
  <2>1. CASE d = Root
    BY <1>1, <2>1 DEF IInv, Dirs
  <2>2. CASE d # Root
    BY <1>1, <2>2, Parent DEF Listed
  <2> QED BY <2>1, <2>2
<1> QED BY <1>1, <1>4, <1>5

LEMMA AboveIs ==
  ASSUME NEW d \in Nr
  PROVE  \E f : /\ f[0] = {d}
                /\ \A n \in Nat : f[n + 1] = f[n] \cup ({Lookup(i, "..") : i \in f[n]} \cap Nr)
                /\ Above(d) = f[NInodes]
<1> DEFINE Dirs_(S) == {Lookup(i, "..") : i \in S} \cap Nr
           G == [S \in SUBSET Nr |-> S \cup Dirs_(S)]
           IsUp(f) == f = [n \in Nat |-> IF n = 0 THEN {d}
                                         ELSE LET S == f[n - 1] IN S \cup Dirs_(S)]
           U == CHOOSE f : IsUp(f)
<1>1. G \in [SUBSET Nr -> SUBSET Nr]
  OBVIOUS
<1>2. PICK f \in [Nat -> SUBSET Nr] : f[0] = {d} /\ \A n \in Nat : f[n + 1] = G[f[n]]
  <2> HIDE DEF G
  <2>1. \E f : Iterates(f, SUBSET Nr, {d}, G)
    BY <1>1, Iterated
  <2> QED BY <2>1 DEF Iterates
<1>3. IsUp(f)
  <2>1. ASSUME NEW n \in Nat, n # 0 PROVE f[n] = f[n - 1] \cup Dirs_(f[n - 1])
    <3>1. n - 1 \in Nat /\ (n - 1) + 1 = n
      BY <2>1
    <3>2. f[n - 1] \in SUBSET Nr /\ f[n] = G[f[n - 1]]
      BY <1>2, <3>1
    <3> HIDE DEF Dirs_
    <3> QED BY <3>2
  <2> HIDE DEF Dirs_
  <2> QED BY <1>2, <2>1
<1>4. IsUp(U)
  <2> HIDE DEF IsUp
  <2> QED BY <1>3
<1>5. Above(d) = U[NInodes]
  BY DEF Above
<1> HIDE DEF U
<1>6. U[0] = {d}
  BY <1>4
<1>7. ASSUME NEW n \in Nat PROVE U[n + 1] = U[n] \cup Dirs_(U[n])
  <2>1. n + 1 \in Nat /\ n + 1 # 0 /\ (n + 1) - 1 = n
    OBVIOUS
  <2> HIDE DEF Dirs_
  <2> QED BY <1>4, <2>1
<1> QED BY <1>5, <1>6, <1>7

\* What pwd comes to are directories.
LEMMA AboveDirs ==
  ASSUME IInv, TreeInv
  PROVE  \A i \in Above(cur) : i \in Nr /\ type[i] = "dir"
<1>1. cur \in Nr /\ type[cur] = "dir"
  BY DEF IInv, Types, Dirs
<1>2. PICK f : /\ f[0] = {cur}
               /\ \A n \in Nat : f[n + 1] = f[n] \cup ({Lookup(i, "..") : i \in f[n]} \cap Nr)
               /\ Above(cur) = f[NInodes]
  BY <1>1, AboveIs
<1> DEFINE S == {n \in Nat : \A i \in f[n] : i \in Nr /\ type[i] = "dir"}
<1>3. 0 \in S
  BY <1>1, <1>2
<1>4. ASSUME NEW n \in Nat, n \in S PROVE n + 1 \in S
  BY <1>2, <1>4, LookupDots
<1>5. \A n \in Nat : n \in S
  <2> HIDE DEF S
  <2> QED BY <1>3, <1>4, EachNumber
<1> QED BY <1>2, <1>5, RootFacts

\* pwd and checkfs never fail.
LEMMA LookedUp ==
  ASSUME IInv, TreeInv
  PROVE  PwdFailures = {} /\ CheckFailures = {}
<1>1. ASSUME NEW i \in Above(cur) PROVE ~(Lookup(i, "..") < 0)
  <2>1. i \in Nr /\ Lookup(i, "..") \in Nr
    BY AboveDirs, LookupDots
  <2>2. \A j \in Nat : ~(j < 0)
    OBVIOUS
  <2> QED BY <2>1, <2>2, RootFacts
<1>2. ASSUME NEW i \in Above(cur), Lookup(i, "..") \in Nr \ {i}
      PROVE  \E k \in DOMAIN data[Lookup(i, "..")] : data[Lookup(i, "..")][k].nr = i
  <2>1. i \in Nr /\ Listed(Lookup(i, ".."), i)
    BY <1>2, AboveDirs, LookupDots
  <2> QED BY <2>1 DEF Listed, Children
<1>3. PwdFailures = {}
  BY <1>1, <1>2 DEF PwdFailures
<1>4. Below(Root) = freemap /\ freemap \subseteq Nr
  BY BelowRoot DEF IInv, Types
<1>5. \A i \in Below(Root) : type[i] # "none"
  BY <1>4 DEF TreeInv, InUse
<1>6. ChildrenOf(Below(Root)) \subseteq ChildrenOf(Nr)
  BY <1>4 DEF ChildrenOf
<1>7. \A p, q \in ChildrenOf(Below(Root)) : NrAt(p) = NrAt(q) => p = q
  BY <1>6, FreemapIsBelow DEF FreemapIsTree
<1>8. CheckFailures = {}
  BY <1>5, <1>7 DEF CheckFailures
<1> QED BY <1>3, <1>8

\* The assertions that may fail, and the argument catr has got.
Aborts ==
  /\ aborted \in {"none", "dir.c:21", "inode.c:35", "inode.c:225", "stack"}
  /\ arg \in CatrArgs \cup {"none"}

LEMMA ReturnAborts ==
  ASSUME Aborts, NEW at, CatrReturn(at)
  PROVE  Aborts'
<1>1. CASE CatrPuts(at) \cap dirty # {}
  BY <1>1 DEF CatrReturn, Abort, Aborts
<1>2. CASE CatrPuts(at) \cap dirty = {}
  BY <1>2 DEF CatrReturn, Aborts
<1> QED BY <1>1, <1>2

LEMMA AbortsStep == IInv /\ TreeInv /\ Aborts /\ [Next]_vars => Aborts'
<1> SUFFICES ASSUME IInv, TreeInv, Aborts, [Next]_vars PROVE Aborts'
  OBVIOUS
<1>1. ASSUME NEW n, NEW kind, Create(kind, n) \/ CreateFails(n) \/ Rm(n) \/ Catr(n) \/ Cd(n)
      PROVE  Aborts'
  BY <1>1 DEF Create, CreateFails, Rm, Catr, Cd, Abort, Aborts
<1>2. CASE Look
  <2>1. PICK a \in PwdFailures \cup GetPutFailures \cup LsFailures \cup CheckFailures : Abort(a)
    BY <1>2 DEF Look
  <2>2. a \in {"inode.c:225", "dir.c:21"}
    BY <2>1, LookedUp DEF GetPutFailures, LsFailures
  <2> QED BY <2>1, <2>2 DEF Abort, Aborts
<1>3. CASE Restart
  BY <1>3 DEF Restart, Abort, Aborts
<1>4. CASE CatrEnd
  BY <1>4, ReturnAborts DEF CatrEnd, Abort, Aborts
<1>5. CASE CatrSkip
  BY <1>5 DEF CatrSkip, Aborts
<1>6. CASE CatrDescend
  <2>1. \/ \E at : CatrReturn(at)
        \/ Abort("stack")
        \/ UNCHANGED <<arg, aborted>>
    BY <1>6 DEF CatrDescend
  <2> QED BY <2>1, ReturnAborts DEF Abort, Aborts
<1>7. CASE UNCHANGED vars
  BY <1>7 DEF vars, Aborts
<1> QED BY <1>1, <1>2, <1>3, <1>4, <1>5, <1>6, <1>7 DEF Next, CatrStep

\* Every variable keeps its type: the counts are natural numbers, and the
\* assertions of pwd and checkfs are never among those that failed.
THEOREM TypeCorrect == Spec => []TypeOK
<1>1. Init => IInv /\ TreeInv /\ Held /\ Aborts
  BY InitIInv, TreeInit, HeldInit DEF Init, Aborts
<1>2. IInv /\ TreeInv /\ Held /\ Aborts /\ [Next]_vars => IInv' /\ TreeInv' /\ Held' /\ Aborts'
  BY StepKeeps, TreeStep, HeldStep, AbortsStep
<1>3. IInv /\ Held /\ Aborts => TypeOK
  BY DEF IInv, Types, Held, CountTypes, Aborts, TypeOK
<1> QED BY <1>1, <1>2, <1>3, PTL DEF Spec

-----------------------------------------------------------------------------
(***************************************************************************)
(* catr, given "." or "..".                                                *)
(***************************************************************************)

\* A call is in a directory, and the current directory is the one the last
\* call began in.
Calls ==
  /\ \A f \in DOMAIN stack : type[stack[f].in] = "dir"
  /\ stack # <<>> => arg \in CatrArgs /\ cur = Top.tmp

\* No count is more or less than it should be, and so none is at the end.
Exact ==
  /\ \A i \in Nr : Rest(i) = IF i = Home THEN 1 ELSE 0
  /\ aborted # "inode.c:35"

LEMMA LastCall ==
  ASSUME stack \in Seq(Frame), stack # <<>>
  PROVE  /\ Len(stack) \in Nat /\ Len(stack) >= 1 /\ Len(stack) \in DOMAIN stack
         /\ 1 \in DOMAIN stack /\ DOMAIN stack = 1 .. Len(stack)
         /\ Top \in Frame /\ Top.in \in Nr /\ Top.tmp \in Nr
         /\ Len(stack) = 1 \/ Len(stack) > 1
<1>1. Len(stack) \in Nat /\ Len(stack) >= 1 /\ DOMAIN stack = 1 .. Len(stack)
  OBVIOUS
<1>2. \A m \in Nat : m >= 1 => (m = 1 \/ m > 1) /\ m \in 1 .. m /\ 1 \in 1 .. m
  OBVIOUS
<1>3. Len(stack) \in DOMAIN stack /\ 1 \in DOMAIN stack /\ (Len(stack) = 1 \/ Len(stack) > 1)
  BY <1>1, <1>2
<1>4. Top \in Frame
  BY <1>3 DEF Top
<1>5. Top.in \in Nr /\ Top.tmp \in Nr
  BY <1>4 DEF Frame
<1> QED BY <1>1, <1>3, <1>4, <1>5

LEMMA ReturnCalls ==
  ASSUME IInv, Calls, stack # <<>>, CatrReturn(cur)
  PROVE  Calls' /\ Home' = Home
<1>1. /\ stack \in Seq(Frame) /\ Len(stack) \in Nat /\ Top.tmp = cur /\ arg \in CatrArgs
      /\ Len(stack) = 1 \/ Len(stack) > 1
  BY LastCall DEF IInv, Types, Calls
<1>2. CASE CatrPuts(cur) \cap dirty # {}
  BY <1>2 DEF CatrReturn, Abort, Calls, Home, Top
<1>3. CASE CatrPuts(cur) \cap dirty = {} /\ Len(stack) = 1
  <2>1. stack' = <<>> /\ cur' = cur
    BY <1>1, <1>3 DEF CatrReturn
  <2>2. Home = cur
    BY <1>1, <1>3 DEF Home, Top
  <2>3. Home' = cur
    BY <2>1 DEF Home
  <2> QED BY <2>1, <2>2, <2>3 DEF Calls
<1>4. CASE CatrPuts(cur) \cap dirty = {} /\ Len(stack) > 1
  <2>1. /\ stack' = SubSeq(stack, 1, Len(stack) - 1) /\ cur' = Caller.tmp
        /\ arg' = arg /\ type' = type
    BY <1>1, <1>4 DEF CatrReturn
  <2>2. /\ stack' # <<>> /\ stack'[1] = stack[1] /\ stack'[Len(stack')] = Caller
        /\ stack' \in Seq(Frame) /\ Len(stack') = Len(stack) - 1
    BY <1>1, <1>4, <2>1, Popped DEF Caller
  <2>3. \A f \in DOMAIN stack' : f \in DOMAIN stack /\ stack'[f] = stack[f]
    BY <1>1, <1>4, <2>1, <2>2
  <2>4. Home' = Home
    BY <1>4, <2>2 DEF Home
  <2>5. Top' = Caller
    BY <2>2 DEF Top
  <2> QED BY <1>1, <2>1, <2>2, <2>3, <2>4, <2>5 DEF Calls
<1> QED BY <1>1, <1>2, <1>3, <1>4

LEMMA DescendCalls ==
  ASSUME IInv, Calls, stack # <<>>, NEW kid \in Nr, NEW i \in Nr, type[i] = "dir",
         stack' = Append(NextEntry, Call(i, kid)), cur' = kid, UNCHANGED <<type, arg>>
  PROVE  Calls' /\ Home' = Home
<1>1. /\ NextEntry \in Seq(Frame) /\ NextEntry # <<>> /\ DOMAIN NextEntry = DOMAIN stack
      /\ Len(NextEntry) = Len(stack)
      /\ \A f \in DOMAIN stack : NextEntry[f].in = stack[f].in /\ NextEntry[f].tmp = stack[f].tmp
  BY NextEntrySame DEF IInv, Types
<1>2. 1 \in DOMAIN stack
  BY LastCall DEF IInv, Types
<1> DEFINE c == Call(i, kid)
           n == Len(stack) + 1
<1>3. c \in Frame /\ c.in = i /\ c.tmp = kid
  BY DEF Call, Frame
<1> HIDE DEF c
<1>4. /\ Append(NextEntry, c) # <<>> /\ Len(Append(NextEntry, c)) = n /\ Append(NextEntry, c)[n] = c
      /\ \A f \in DOMAIN Append(NextEntry, c) :
           f = n \/ (f \in DOMAIN stack /\ Append(NextEntry, c)[f] = NextEntry[f])
      /\ Append(NextEntry, c)[1] = NextEntry[1]
  BY <1>1, <1>2, <1>3
<1>5. stack' = Append(NextEntry, c)
  BY DEF c
<1>6. Home' = Home
  BY <1>1, <1>2, <1>4, <1>5 DEF Home
<1>7. Top' = c
  BY <1>4, <1>5 DEF Top
<1>8. \A f \in DOMAIN stack' : type'[stack'[f].in] = "dir"
  BY <1>1, <1>3, <1>4, <1>5 DEF Calls
<1> QED BY <1>3, <1>4, <1>5, <1>6, <1>7, <1>8 DEF Calls

\* What a step of catr does, when no directory is without its argument.
LEMMA CatrCalls ==
  ASSUME CatrArgs \subseteq Dots, IInv, TreeInv, Calls, CatrStep
  PROVE  /\ Calls' /\ Home' = Home /\ stack # <<>>
         /\ aborted' \in {"none", "inode.c:225", "stack"}
<1>1. /\ stack \in Seq(Frame) /\ stack # <<>> /\ Len(stack) \in DOMAIN stack
      /\ Top.in \in Nr /\ type[Top.in] = "dir" /\ aborted = "none"
  <2>1. stack \in Seq(Frame) /\ stack # <<>> /\ aborted = "none"
    BY DEF CatrStep, CatrEnd, CatrSkip, CatrDescend, InCatr, IInv, Types
  <2> QED BY <2>1, LastCall DEF Calls, Top
<1>2. ASSUME NEW a, Abort(a) PROVE Calls' /\ Home' = Home /\ aborted' = a
  BY <1>2 DEF Abort, Calls, Home, Top
<1>3. CASE CatrEnd
  <2>1. CatrReturn(cur)
    BY <1>1, <1>3 DEF CatrEnd
  <2>2. aborted' \in {"none", "inode.c:225"}
    BY <1>1, <2>1 DEF CatrReturn, Abort
  <2> QED BY <1>1, <2>1, <2>2, ReturnCalls
<1>4. CASE CatrSkip
  <2>1. stack' = NextEntry /\ UNCHANGED <<type, cur, arg, aborted>>
    BY <1>4 DEF CatrSkip
  <2>2. /\ NextEntry # <<>> /\ DOMAIN NextEntry = DOMAIN stack /\ Len(NextEntry) = Len(stack)
        /\ \A f \in DOMAIN stack : NextEntry[f].in = stack[f].in /\ NextEntry[f].tmp = stack[f].tmp
    BY <1>1, NextEntrySame
  <2>3. Top'.tmp = Top.tmp
    <3>1. Top' = stack'[Len(stack')]
      BY DEF Top
    <3> QED BY <1>1, <2>1, <2>2, <3>1 DEF Top
  <2>4. Home' = Home
    <3>1. 1 \in DOMAIN stack
      BY <1>1, LastCall
    <3> QED BY <1>1, <2>1, <2>2, <3>1 DEF Home
  <2> QED BY <1>1, <2>1, <2>2, <2>3, <2>4 DEF Calls
<1>5. CASE CatrDescend
  <2>1. PICK k \in Subdirs :
          LET kid == data[Top.in][k].nr
              i == Lookup(kid, arg)
          IN  IF i < 0 THEN CatrReturn(kid)
              ELSE IF Len(stack) = MaxStack THEN Abort("stack")
              ELSE /\ stack' = Append(NextEntry, Call(i, kid)) /\ cur' = kid
                   /\ UNCHANGED <<type, arg, aborted>>
    BY <1>5 DEF CatrDescend
  <2> DEFINE kid == data[Top.in][k].nr
             i == Lookup(kid, arg)
  <2>2. kid \in Nr /\ type[kid] = "dir"
    BY <1>1, Parent DEF Subdirs
  <2>3. arg \in Dots
    BY <1>1 DEF Calls
  <2>4. i \in Nr /\ type[i] = "dir"
    BY <2>2, <2>3, LookupDots DEF Dots
  <2>5. ~(i < 0)
    <3>1. \A m \in Nat : ~(m < 0)
      OBVIOUS
    <3> QED BY <2>4, <3>1, RootFacts
  <2>6. CASE Len(stack) = MaxStack
    BY <1>1, <1>2, <2>1, <2>5, <2>6
  <2>7. CASE Len(stack) # MaxStack
    <3>1. /\ stack' = Append(NextEntry, Call(i, kid)) /\ cur' = kid
          /\ UNCHANGED <<type, arg, aborted>>
      BY <2>1, <2>5, <2>7
    <3> HIDE DEF kid, i
    <3> QED BY <1>1, <2>2, <2>4, <3>1, DescendCalls
  <2> QED BY <2>6, <2>7
<1> QED BY <1>1, <1>3, <1>4, <1>5 DEF CatrStep

LEMMA CallsInit == Init => Calls /\ Exact
<1> SUFFICES ASSUME Init PROVE Calls /\ Exact
  OBVIOUS
<1>1. \A i : HeldBy(<<>>, i) = 0
  BY HeldByNone
<1> QED BY <1>1 DEF Init, Calls, Exact, Rest, Home

\* The commands between the calls of catr.
LEMMA CommandCalls ==
  ASSUME IInv, TreeInv, Calls, [Next]_vars, ~CatrStep, CatrArgs \subseteq Dots
  PROVE  Calls' /\ (stack # <<>> \/ cur' = cur => Home' = Home)
<1>1. CASE UNCHANGED <<type, stack, cur, arg>>
  BY <1>1 DEF Calls, Home, Top
<1>2. CASE stack = <<>> /\ stack' = <<>>
  BY <1>2 DEF Calls, Home
<1>3. ASSUME NEW n, Catr(n) PROVE Calls' /\ Home' = Home
  <2> DEFINE i == Lookup(cur, n)
             s == <<Call(i, cur)>>
  <2>1. /\ n \in Dots /\ n \in CatrArgs /\ stack = <<>> /\ stack' = s /\ arg' = n
        /\ UNCHANGED <<type, cur>>
    BY <1>3 DEF Catr, Ready
  <2>2. i \in Nr /\ type[i] = "dir"
    BY <2>1, LookupDots DEF Dots, IInv, Types, Dirs
  <2>3. Call(i, cur).in = i /\ Call(i, cur).tmp = cur
    BY DEF Call
  <2>4. s # <<>> /\ s[1] = Call(i, cur) /\ s[Len(s)] = Call(i, cur) /\ DOMAIN s = {1}
    OBVIOUS
  <2> HIDE DEF s, i
  <2>5. Top' = Call(i, cur)
    BY <2>1, <2>4 DEF Top
  <2>6. Home' = Home
    BY <2>1, <2>3, <2>4 DEF Home
  <2> QED BY <2>1, <2>2, <2>3, <2>4, <2>5, <2>6 DEF Calls
<1>4. ASSUME NEW n, NEW kind, Create(kind, n) \/ CreateFails(n) \/ Rm(n) \/ Cd(n)
      PROVE  stack = <<>> /\ stack' = <<>>
  BY <1>4 DEF Create, CreateFails, Rm, Cd, Ready, Abort
<1>5. CASE Look \/ Restart
  BY <1>2, <1>5 DEF Look, Restart, Ready, Abort
<1> QED BY <1>1, <1>2, <1>3, <1>4, <1>5 DEF Next, vars

LEMMA ExactStep ==
  ASSUME CatrArgs \subseteq Dots, IInv, TreeInv, Held, Calls, Exact, [Next]_vars
  PROVE  Calls' /\ Exact'
<1>1. Calls' /\ (stack # <<>> \/ cur' = cur => Home' = Home)
  BY CatrCalls, CommandCalls
<1>2. (Still /\ (stack = <<>> => cur' = cur)) \/ Moved \/ Restarted
  BY CountStep
<1>3. \A i \in Nr : Rest(i)' = IF i = Home' THEN 1 ELSE 0
  <2>1. CASE Still /\ (stack = <<>> => cur' = cur)
    BY <1>1, <2>1 DEF Still, Exact
  <2>2. CASE Moved
    <3>1. Home = cur /\ Home' = cur'
      BY <2>2 DEF Moved, Home
    <3>2. ASSUME NEW i \in Nr PROVE Rest(i)' = IF i = cur' THEN 1 ELSE 0
      <4>1. /\ Rest(i) = IF i = cur THEN 1 ELSE 0
            /\ Rest(i)' = Rest(i) - (IF i = cur THEN 1 ELSE 0) + (IF i = cur' THEN 1 ELSE 0)
        BY <2>2, <3>1 DEF Moved, Exact
      <4> QED BY <4>1
    <3> QED BY <3>1, <3>2
  <2>3. CASE Restarted
    <3>1. Home' = Root
      BY <2>3 DEF Restarted, Home
    <3> QED BY <2>3, <3>1 DEF Restarted
  <2> QED BY <1>2, <2>1, <2>2, <2>3
<1>4. aborted' # "inode.c:35"
  <2>1. ASSUME NEW n, NEW kind, Create(kind, n) \/ CreateFails(n) \/ Rm(n) \/ Catr(n) \/ Cd(n)
        PROVE  aborted' # "inode.c:35"
    BY <2>1 DEF Create, CreateFails, Rm, Catr, Cd, Abort, Exact
  <2>2. CASE Look
    <3>1. PICK a \in PwdFailures \cup GetPutFailures \cup LsFailures \cup CheckFailures : Abort(a)
      BY <2>2 DEF Look
    <3> QED BY <3>1, LookedUp DEF GetPutFailures, LsFailures, Abort
  <2>3. CASE Restart
    <3>1. \A i \in Nr : count[i] = IF i = cur THEN 1 ELSE 0
      <4> SUFFICES ASSUME NEW i \in Nr PROVE count[i] = IF i = cur THEN 1 ELSE 0
        OBVIOUS
      <4>1. stack = <<>> /\ Home = cur /\ HeldBy(stack, i) = 0 /\ count[i] \in Nat
        BY <2>3, HeldByNone DEF Restart, Ready, Home, Held, CountTypes
      <4>2. count[i] - HeldBy(stack, i) = IF i = cur THEN 1 ELSE 0
        BY <4>1 DEF Exact, Rest
      <4> QED BY <4>1, <4>2
    <3>2. ~ \E i \in Nr : count[i] > (IF i = cur THEN 1 ELSE 0)
      BY <3>1
    <3> QED BY <2>3, <3>2 DEF Restart, Abort, Exact
  <2>4. CASE CatrStep
    BY <2>4, CatrCalls
  <2>5. CASE UNCHANGED vars
    BY <2>5 DEF vars, Exact
  <2> QED BY <2>1, <2>2, <2>3, <2>4, <2>5 DEF Next
<1> QED BY <1>1, <1>3, <1>4 DEF Exact

CatrInv == IInv /\ TreeInv /\ Held /\ Aborts /\ Calls /\ Exact

LEMMA CatrInvariant ==
  ASSUME CatrArgs \subseteq Dots
  PROVE  Spec => []CatrInv
<1>1. Init => CatrInv
  BY InitIInv, TreeInit, HeldInit, CallsInit DEF Init, Aborts, CatrInv
<1>2. CatrInv /\ [Next]_vars => CatrInv'
  BY StepKeeps, TreeStep, HeldStep, AbortsStep, ExactStep DEF CatrInv
<1> QED BY <1>1, <1>2, PTL DEF Spec

\* Each is counted once by who has got it and not put it: given "." or "..",
\* which every directory has, catr puts all it got.  Given any other name it may
\* not: where that is missing, goto out leaves the directory it had descended to,
\* already put, as the current one, and the one it began in is never put
\* (file.c:95-98).
THEOREM CountsExact ==
  ASSUME CatrArgs \subseteq Dots
  PROVE  Spec => []CountsAreHolders
<1>1. ASSUME CatrInv PROVE CountsAreHolders
  <2> SUFFICES ASSUME NEW i \in Nr PROVE count[i] = Holders(i)
    BY DEF CountsAreHolders
  <2>1. count[i] \in Nat /\ HeldBy(stack, i) \in Nat
    BY <1>1, HeldFinite DEF CatrInv, Held, CountTypes, IInv, Types
  <2>2. count[i] - HeldBy(stack, i) = IF i = Home THEN 1 ELSE 0
    BY <1>1 DEF CatrInv, Exact, Rest
  <2>3. Holders(i) = (IF i = Home THEN 1 ELSE 0) + Cardinality(Listing(stack, i))
                                                 + Cardinality(Beginning(stack, i))
    BY DEF Holders, Listing, Beginning
  <2>4. Cardinality(Listing(stack, i)) \in Nat /\ Cardinality(Beginning(stack, i)) \in Nat
    BY <1>1, HeldFinite DEF CatrInv, IInv, Types
  <2> QED BY <2>1, <2>2, <2>3, <2>4 DEF HeldBy
<1> QED BY <1>1, CatrInvariant, PTL

\* rm never removes a directory that is held: the current one, or one that a
\* call of catr is in or began in (dir.c:183, dir.c:202).
THEOREM HeldInUse ==
  ASSUME CatrArgs \subseteq Dots
  PROVE  Spec => []HeldNotRemoved
<1>1. ASSUME CatrInv PROVE HeldNotRemoved
  <2> SUFFICES ASSUME NEW i \in Nr, count[i] > 0 PROVE i \in freemap /\ type[i] = "dir"
    BY DEF HeldNotRemoved
  <2>1. stack \in Seq(Frame) /\ count[i] \in Nat
    BY <1>1 DEF CatrInv, Held, CountTypes, IInv, Types
  <2>2. count[i] - HeldBy(stack, i) = IF i = Home THEN 1 ELSE 0
    BY <1>1 DEF CatrInv, Exact, Rest
  <2>3. i = Home \/ Listing(stack, i) # {} \/ Beginning(stack, i) # {}
    <3> SUFFICES ASSUME i # Home, Listing(stack, i) = {}, Beginning(stack, i) = {} PROVE FALSE
      OBVIOUS
    <3>1. HeldBy(stack, i) = 0
      BY FS_EmptySet DEF HeldBy
    <3> QED BY <2>1, <2>2, <3>1
  <2>4. /\ type[cur] = "dir"
        /\ \A f \in DOMAIN stack : type[stack[f].in] = "dir" /\ type[stack[f].tmp] = "dir"
    BY <1>1 DEF CatrInv, Calls, IInv, Dirs
  <2>5. type[Home] = "dir"
    BY <2>1, <2>4, LastCall DEF Home
  <2>6. type[i] = "dir"
    BY <2>3, <2>4, <2>5 DEF Listing, Beginning
  <2> QED BY <1>1, <2>6 DEF CatrInv, IInv, Dirs
<1> QED BY <1>1, CatrInvariant, PTL

\* The assertions about the tree never fail: every directory has a parent that
\* lists it (dir.c:288, dir.c:295), no entry names a removed inode (super.c:236)
\* or one that another names (bitmap.c:106), and no inode is held at the end
\* (inode.c:35).
THEOREM AssertsHold ==
  ASSUME CatrArgs \subseteq Dots
  PROVE  Spec => []TreeAssertsHold
<1>1. CatrInv => TreeAssertsHold
  BY DEF CatrInv, Aborts, Exact, TreeAssertsHold
<1> QED BY <1>1, CatrInvariant, PTL

-----------------------------------------------------------------------------
(***************************************************************************)
(* catr, given ".".                                                        *)
(***************************************************************************)

\* Every call is in a directory one level below that of its caller.
Descends(depth) ==
  \A f \in DOMAIN stack : depth[stack[f].in] = depth[stack[1].in] + f - 1

Deeper == \E depth : IsDepth(depth) /\ Descends(depth)

LEMMA ReturnDescends ==
  ASSUME IInv, Calls, stack # <<>>, NEW depth, Descends(depth), CatrReturn(cur)
  PROVE  Descends(depth)'
<1>1. stack \in Seq(Frame) /\ Len(stack) \in Nat /\ (Len(stack) = 1 \/ Len(stack) > 1)
  BY LastCall DEF IInv, Types
<1>2. stack' = stack \/ stack' = SubSeq(stack, 1, Len(stack) - 1)
  BY DEF CatrReturn, Abort
<1>3. CASE stack' = stack
  BY <1>3 DEF Descends
<1>4. CASE stack' = SubSeq(stack, 1, Len(stack) - 1) /\ Len(stack) = 1
  <2>1. stack' = <<>>
    BY <1>1, <1>4
  <2> QED BY <2>1 DEF Descends
<1>5. CASE stack' = SubSeq(stack, 1, Len(stack) - 1) /\ Len(stack) > 1
  <2>1. stack' \in Seq(Frame) /\ Len(stack') = Len(stack) - 1 /\ stack'[1] = stack[1]
    BY <1>1, <1>5, Popped
  <2>2. \A f \in DOMAIN stack' : f \in DOMAIN stack /\ stack'[f] = stack[f]
    BY <1>1, <1>5, <2>1
  <2> QED BY <2>1, <2>2 DEF Descends
<1> QED BY <1>1, <1>2, <1>3, <1>4, <1>5

LEMMA DescendDescends ==
  ASSUME IInv, TreeInv, Calls, stack # <<>>, NEW depth, IsDepth(depth), Descends(depth),
         NEW k \in Children(Top.in), NEW kid, kid = data[Top.in][k].nr,
         stack' = Append(NextEntry, Call(kid, kid))
  PROVE  Descends(depth)'
<1>1. /\ NextEntry \in Seq(Frame) /\ DOMAIN NextEntry = DOMAIN stack
      /\ Len(NextEntry) = Len(stack)
      /\ \A f \in DOMAIN stack : NextEntry[f].in = stack[f].in
  BY NextEntrySame DEF IInv, Types
<1>2. /\ 1 \in DOMAIN stack /\ Len(stack) \in DOMAIN stack /\ Top \in Frame
      /\ stack \in Seq(Frame) /\ Len(stack) \in Nat /\ Top.in \in Nr
  BY LastCall DEF IInv, Types
<1> DEFINE c == Call(kid, kid)
           n == Len(stack) + 1
<1>3. c \in Frame /\ c.in = kid
  BY <1>2, Parent DEF Call, Frame
<1> HIDE DEF c
<1>4. /\ Append(NextEntry, c)[n] = c
      /\ \A f \in DOMAIN Append(NextEntry, c) :
           f = n \/ (f \in DOMAIN stack /\ Append(NextEntry, c)[f] = NextEntry[f])
      /\ Append(NextEntry, c)[1] = NextEntry[1]
  BY <1>1, <1>2, <1>3
<1>5. stack' = Append(NextEntry, c)
  BY DEF c
<1>6. depth[kid] = depth[Top.in] + 1
  BY <1>2 DEF IsDepth
<1>7. depth[Top.in] = depth[stack[1].in] + Len(stack) - 1
  BY <1>2 DEF Descends, Top
<1>8. depth[stack[1].in] \in Nat
  <2>1. stack[1] \in Frame
    BY <1>2
  <2> QED BY <2>1 DEF Frame, IsDepth
<1>9. depth[kid] = depth[stack[1].in] + n - 1
  BY <1>2, <1>6, <1>7, <1>8
<1>10. stack'[1].in = stack[1].in
  BY <1>1, <1>2, <1>4, <1>5
<1>11. ASSUME NEW f \in DOMAIN stack' PROVE depth[stack'[f].in] = depth[stack'[1].in] + f - 1
  <2>1. CASE f = n
    BY <1>3, <1>4, <1>5, <1>9, <1>10, <2>1
  <2>2. CASE f # n
    BY <1>1, <1>4, <1>5, <1>10, <1>11, <2>2 DEF Descends
  <2> QED BY <2>1, <2>2
<1> QED BY <1>11 DEF Descends

LEMMA DeeperStep ==
  ASSUME CatrArgs \subseteq {"."}, CatrInv, CatrInv', Deeper, [Next]_vars
  PROVE  Deeper'
<1> USE DEF CatrInv
<1>1. PICK depth : IsDepth(depth) /\ Descends(depth)
  BY DEF Deeper
<1>2. CASE stack' = <<>>
  <2>1. PICK new : IsDepth(new)'
    BY DEF TreeInv
  <2>2. Descends(new)'
    BY <1>2 DEF Descends
  <2> QED BY <2>1, <2>2 DEF Deeper
<1>3. CASE UNCHANGED <<freemap, type, data>> /\ Descends(depth)'
  BY <1>1, <1>3, SameTree DEF Deeper
<1>4. CASE CatrStep
  <2>1. /\ stack \in Seq(Frame) /\ stack # <<>> /\ Top.in \in Nr /\ arg = "."
        /\ type[Top.in] = "dir"
    <3>1. stack \in Seq(Frame) /\ stack # <<>>
      BY <1>4 DEF CatrStep, CatrEnd, CatrSkip, CatrDescend, InCatr, IInv, Types
    <3> QED BY <3>1, LastCall DEF Calls, Top
  <2>2. UNCHANGED <<freemap, type, data>>
    BY <1>4, CatrKeeps
  <2>3. ASSUME NEW a, Abort(a) PROVE Descends(depth)'
    BY <1>1, <2>3 DEF Abort, Descends
  <2>4. CASE CatrEnd
    BY <1>1, <1>3, <2>1, <2>2, <2>4, ReturnDescends DEF CatrEnd
  <2>5. CASE CatrSkip
    <3>1. stack' = NextEntry /\ 1 \in DOMAIN stack
      BY <2>1, <2>5, LastCall DEF CatrSkip
    <3>2. /\ DOMAIN NextEntry = DOMAIN stack
          /\ \A f \in DOMAIN stack : NextEntry[f].in = stack[f].in
      BY <2>1, NextEntrySame
    <3> QED BY <1>1, <1>3, <2>2, <3>1, <3>2 DEF Descends
  <2>6. CASE CatrDescend
    <3>1. PICK k \in Subdirs :
            LET kid == data[Top.in][k].nr
                i == Lookup(kid, arg)
            IN  IF i < 0 THEN CatrReturn(kid)
                ELSE IF Len(stack) = MaxStack THEN Abort("stack")
                ELSE stack' = Append(NextEntry, Call(i, kid))
      BY <2>6 DEF CatrDescend
    <3>2. PICK kid : kid = data[Top.in][k].nr
      OBVIOUS
    <3>3. k \in Children(Top.in) /\ kid \in Nr /\ type[kid] = "dir"
      BY <2>1, <3>2, Parent DEF Subdirs
    <3>4. Lookup(kid, arg) = kid /\ ~(kid < 0)
      <4>1. \A m \in Nat : ~(m < 0)
        OBVIOUS
      <4> QED BY <2>1, <3>3, <4>1, LookupDots, RootFacts
    <3>5. Abort("stack") \/ stack' = Append(NextEntry, Call(kid, kid))
      BY <3>1, <3>2, <3>4
    <3> QED BY <1>1, <1>3, <2>1, <2>2, <2>3, <3>2, <3>3, <3>5, DescendDescends
  <2> QED BY <1>4, <2>4, <2>5, <2>6 DEF CatrStep
<1>5. ASSUME NEW n, Catr(n) PROVE Deeper'
  <2> DEFINE c == Call(Lookup(cur, n), cur)
  <2>1. stack' = <<c>> /\ UNCHANGED <<freemap, type, data>> /\ Lookup(cur, n) \in Nr
    BY <1>5, LookupFound DEF Catr, IInv, Types
  <2>2. c.in \in Nr
    BY <2>1 DEF Call
  <2> HIDE DEF c
  <2>3. \A f \in DOMAIN <<c>> : f = 1 /\ <<c>>[f] = c
    OBVIOUS
  <2>4. depth[c.in] \in Nat
    BY <1>1, <2>2 DEF IsDepth
  <2>5. Descends(depth)'
    BY <2>1, <2>3, <2>4 DEF Descends
  <2> QED BY <1>3, <2>1, <2>5
<1>6. ASSUME NEW n, NEW kind, Create(kind, n) \/ CreateFails(n) \/ Rm(n) \/ Cd(n)
      PROVE  stack' = <<>>
  BY <1>6 DEF Create, CreateFails, Rm, Cd, Ready, Abort
<1>7. CASE Look \/ Restart
  BY <1>2, <1>7 DEF Look, Restart, Ready, Abort
<1>8. CASE UNCHANGED vars
  BY <1>1, <1>3, <1>8 DEF vars, Descends
<1> QED BY <1>2, <1>4, <1>5, <1>6, <1>7, <1>8 DEF Next

\* Given ".", catr is in no directory twice: it descends one level with every
\* call, and so its recursion ends (file.c:94).
THEOREM NoDirectoryTwice ==
  ASSUME CatrArgs \subseteq {"."}
  PROVE  Spec => []NoReentry
<1>1. Init => Deeper
  <2> SUFFICES ASSUME Init PROVE Deeper
    OBVIOUS
  <2>1. PICK depth : IsDepth(depth)
    BY TreeInit DEF TreeInv
  <2> QED BY <2>1 DEF Init, Descends, Deeper
<1>2. CatrArgs \subseteq Dots
  BY DEF Dots
<1>3. CatrInv /\ CatrInv' /\ Deeper /\ [Next]_vars => Deeper'
  BY DeeperStep
<1>4. ASSUME CatrInv, Deeper PROVE NoReentry
  <2>1. PICK depth : IsDepth(depth) /\ Descends(depth)
    BY <1>4 DEF Deeper
  <2> SUFFICES ASSUME NEW f \in DOMAIN stack, NEW g \in DOMAIN stack, stack[f].in = stack[g].in
               PROVE  f = g
    BY DEF NoReentry
  <2>2. stack \in Seq(Frame) /\ f \in Nat /\ g \in Nat /\ 1 \in DOMAIN stack /\ stack[1] \in Frame
    BY <1>4 DEF CatrInv, IInv, Types
  <2>3. depth[stack[1].in] \in Nat
    BY <2>1, <2>2 DEF Frame, IsDepth
  <2>4. depth[stack[1].in] + f - 1 = depth[stack[1].in] + g - 1
    BY <2>1 DEF Descends
  <2> QED BY <2>2, <2>3, <2>4
<1> QED BY <1>1, <1>2, <1>3, <1>4, CatrInvariant, PTL DEF Spec
=============================================================================
