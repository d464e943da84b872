---------------------------- MODULE BitmapProofs ----------------------------
(***************************************************************************)
(* Theorems about Bitmap, for every number of bits.                        *)
(***************************************************************************)
EXTENDS Bitmap, TLAPS

\* A word and an offset in it number the bits, and bitmap_translate undoes it.
LEMMA Translate ==
  ASSUME NEW i \in Nat
  PROVE  /\ IxOf(i) \in Nat /\ MaskOf(i) \in Offset
         /\ i = IxOf(i) * BitsPerWord + MaskOf(i)
BY DEF IxOf, MaskOf, Offset, BitsPerWord

LEMMA TranslateBack ==
  ASSUME NEW ix \in Nat, NEW o \in Offset
  PROVE  /\ ix * BitsPerWord + o \in Nat
         /\ IxOf(ix * BitsPerWord + o) = ix
         /\ MaskOf(ix * BitsPerWord + o) = o
BY DEF IxOf, MaskOf, Offset, BitsPerWord

LEMMA WordsNat == Words \in Nat
BY BitmapAssumption DEF Words, BitsPerWord

\* Every index has a word.
LEMMA IndexInWord ==
  ASSUME NEW i \in Index
  PROVE  IxOf(i) \in Word /\ MaskOf(i) \in Offset
BY BitmapAssumption, WordsNat DEF Index, IxOf, MaskOf, Word, Words, Offset, BitsPerWord

\* A place in the words is either an index or a leftover bit.
LEMMA PlaceIsIndex ==
  ASSUME NEW ix \in Word, NEW o \in Offset
  PROVE  ix * BitsPerWord + o \in Index <=> ~(ix = Words - 1 /\ o \in LeftoverBits)
BY BitmapAssumption, WordsNat
   DEF Index, Word, Words, Offset, BitsPerWord, LeftoverBits

-----------------------------------------------------------------------------
(***************************************************************************)
(* The inductive invariant: leftover bits are never cleared, so the word   *)
(* scan meets no clear bit that is not an index.                           *)
(***************************************************************************)
LeftoverInUse ==
  \A ix \in Word, o \in Offset : ix = Words - 1 /\ o \in LeftoverBits => o \in v[ix]

BInv == TypeOK /\ LeftoverInUse

\* What the scan returns: an index that is free, and the lowest one.
LEMMA ScanLowest ==
  ASSUME BInv,
         NEW ix \in Word, NEW o \in Offset,
         IsFirst(ix, OpenWords), IsFirst(o, Offset \ v[ix])
  PROVE  /\ ix * BitsPerWord + o \in Index
         /\ ~IsSet(v, ix * BitsPerWord + o)
         /\ \A j \in Index : ~IsSet(v, j) => ix * BitsPerWord + o <= j
<1> DEFINE i == ix * BitsPerWord + o
<1>1. ix \in Nat /\ o \notin v[ix]
  BY WordsNat DEF Word, IsFirst
<1>2. i \in Index
  BY <1>1, PlaceIsIndex DEF BInv, LeftoverInUse
<1>3. ~IsSet(v, i)
  BY <1>1, TranslateBack DEF IsSet
<1>4. ASSUME NEW j \in Index, ~IsSet(v, j) PROVE i <= j
  <2>1. IxOf(j) \in Word /\ MaskOf(j) \in Offset
    BY IndexInWord
  <2>2. j \in Nat
    BY BitmapAssumption DEF Index
  <2>3. j = IxOf(j) * BitsPerWord + MaskOf(j)
    BY <2>2, Translate
  <2>4. MaskOf(j) \notin v[IxOf(j)]
    BY <1>4 DEF IsSet
  <2>5. IxOf(j) \in OpenWords
    BY <2>1, <2>4 DEF OpenWords, AllBits
  <2>6. ix <= IxOf(j)
    BY <2>5 DEF IsFirst
  <2>7. ix = IxOf(j) => o <= MaskOf(j)
    BY <2>1, <2>4 DEF IsFirst
  <2>8. IxOf(j) \in Nat
    BY <2>1, WordsNat DEF Word
  <2> QED
    BY <1>1, <2>1, <2>3, <2>6, <2>7, <2>8 DEF Offset, BitsPerWord
<1> QED
  BY <1>2, <1>3, <1>4

\* No open word means no free index.
LEMMA NoneFree ==
  ASSUME OpenWords = {}
  PROVE  \A j \in Index : IsSet(v, j)
BY IndexInWord DEF OpenWords, AllBits, IsSet

LEMMA InvInit == Init => BInv
BY WordsNat DEF Init, BInv, TypeOK, LeftoverInUse, LeftoverBits

LEMMA InvStep == BInv /\ [Next]_vars => BInv'
<1> SUFFICES ASSUME BInv, [Next]_vars PROVE BInv'
  OBVIOUS
<1> USE DEF BInv, TypeOK, LeftoverInUse
<1>1. CASE Alloc
  <2>1. CASE OpenWords = {} /\ ret' = -1 /\ UNCHANGED v
    BY <2>1
  <2>2. ASSUME NEW ix \in Word, NEW o \in Offset,
               IsFirst(ix, OpenWords), IsFirst(o, Offset \ v[ix]),
               v' = [v EXCEPT ![ix] = @ \cup {o}], ret' = ix * BitsPerWord + o
        PROVE  BInv'
    <3>1. ret' \in Index
      BY <2>2, ScanLowest
    <3> QED
      BY <2>2, <3>1
  <2> QED
    BY <1>1, <2>1, <2>2 DEF Alloc
<1>2. ASSUME NEW i \in Index, Mark(i) PROVE BInv'
  BY <1>2, IndexInWord DEF Mark
<1>3. ASSUME NEW i \in Index, Unmark(i) PROVE BInv'
  <2>1. IxOf(i) \in Word /\ MaskOf(i) \in Offset
    BY IndexInWord
  <2>2. i = IxOf(i) * BitsPerWord + MaskOf(i)
    BY BitmapAssumption, Translate DEF Index
  <2>3. ~(IxOf(i) = Words - 1 /\ MaskOf(i) \in LeftoverBits)
    BY <2>1, <2>2, PlaceIsIndex
  <2> QED
    BY <1>3, <2>1, <2>3 DEF Unmark
<1>4. CASE UNCHANGED vars
  BY <1>4 DEF vars
<1> QED
  BY <1>1, <1>2, <1>3, <1>4 DEF Next

LEMMA Invariance == Spec => []BInv
BY InvInit, InvStep, PTL DEF Spec

\* Every index bitmap_alloc returns is below nbits: the assertion bitmap.c:82
\* holds, whatever the number of leftover bits.
THEOREM TypeCorrect == Spec => []TypeOK
<1>1. BInv => TypeOK
  BY DEF BInv
<1> QED
  BY <1>1, Invariance, PTL

\* bitmap_equal of the freemap and of a bitmap rebuilt from the same bits.
THEOREM EqualsRebuiltCorrect == Spec => []EqualsRebuilt
<1>1. ASSUME BInv PROVE EqualsRebuilt
  <2>1. SUFFICES ASSUME NEW ix \in Word, NEW o \in Offset
                 PROVE  o \in v[ix] <=> o \in Rebuilt(UsedBits)[ix]
    <3>1. ASSUME NEW ix \in Word PROVE v[ix] \subseteq Offset
      BY <1>1 DEF BInv, TypeOK
    <3>2. ASSUME NEW ix \in Word PROVE Rebuilt(UsedBits)[ix] \subseteq Offset
      BY IndexInWord DEF Rebuilt, UsedBits, LeftoverBits
    <3> QED
      BY <2>1, <3>1, <3>2 DEF EqualsRebuilt, Equal
  <2> DEFINE i == ix * BitsPerWord + o
  <2>2. ix \in Nat
    BY WordsNat DEF Word
  <2>3. IxOf(i) = ix /\ MaskOf(i) = o
    BY <2>2, TranslateBack
  <2>4. ASSUME NEW k \in Index, IxOf(k) = ix, MaskOf(k) = o PROVE k = i
    BY <2>4, BitmapAssumption, Translate DEF Index
  <2>5. i \in Index <=> ~(ix = Words - 1 /\ o \in LeftoverBits)
    BY PlaceIsIndex
  <2>6. o \in Rebuilt(UsedBits)[ix] <=>
          \/ ix = Words - 1 /\ o \in LeftoverBits
          \/ i \in Index /\ IsSet(v, i)
    BY <2>3, <2>4 DEF Rebuilt, UsedBits
  <2> QED
    BY <1>1, <2>3, <2>5, <2>6 DEF BInv, LeftoverInUse, IsSet
<1> QED
  BY <1>1, Invariance, PTL

-----------------------------------------------------------------------------
LEMMA RefineInit == Init => Set_!Init
<1> SUFFICES ASSUME Init PROVE Set_!Init
  OBVIOUS
<1>1. ASSUME NEW i \in Index PROVE ~IsSet(v, i)
  <2>1. IxOf(i) \in Word /\ MaskOf(i) \in Offset
    BY IndexInWord
  <2>2. i = IxOf(i) * BitsPerWord + MaskOf(i)
    BY BitmapAssumption, Translate DEF Index
  <2>3. ~(IxOf(i) = Words - 1 /\ MaskOf(i) \in LeftoverBits)
    BY <2>1, <2>2, PlaceIsIndex
  <2> QED
    BY <2>1, <2>3 DEF Init, IsSet
<1> QED
  BY <1>1 DEF Set_!Init, UsedBits, Init

\* A change of the bit of one index changes that index only.
LEMMA OneBit ==
  ASSUME NEW i \in Index, NEW j \in Index, i # j
  PROVE  IxOf(i) # IxOf(j) \/ MaskOf(i) # MaskOf(j)
BY BitmapAssumption, Translate DEF Index

LEMMA MarkUsed ==
  ASSUME BInv, NEW i \in Index,
         v' = [v EXCEPT ![IxOf(i)] = @ \cup {MaskOf(i)}]
  PROVE  UsedBits' = UsedBits \cup {i}
<1>1. \A j \in Index : IxOf(j) \in Word
  BY IndexInWord
<1>2. ASSUME NEW j \in Index PROVE IsSet(v', j) <=> IsSet(v, j) \/ j = i
  BY <1>1, OneBit DEF BInv, TypeOK, IsSet
<1> QED
  BY <1>2 DEF UsedBits

LEMMA UnmarkUsed ==
  ASSUME BInv, NEW i \in Index,
         v' = [v EXCEPT ![IxOf(i)] = @ \ {MaskOf(i)}]
  PROVE  UsedBits' = UsedBits \ {i}
<1>1. \A j \in Index : IxOf(j) \in Word
  BY IndexInWord
<1>2. ASSUME NEW j \in Index PROVE IsSet(v', j) <=> IsSet(v, j) /\ j # i
  BY <1>1, OneBit DEF BInv, TypeOK, IsSet
<1> QED
  BY <1>2 DEF UsedBits

LEMMA RefineStep == BInv /\ [Next]_vars => [Set_!Next]_<<UsedBits, ret>>
<1> SUFFICES ASSUME BInv, [Next]_vars PROVE [Set_!Next]_<<UsedBits, ret>>
  OBVIOUS
<1> USE DEF Set_!Next
<1>1. CASE Alloc
  <2>1. CASE OpenWords = {} /\ ret' = -1 /\ UNCHANGED v
    <3>1. Set_!Free = {}
      BY <2>1, NoneFree DEF Set_!Free, Set_!Bits, UsedBits, Index
    <3>2. UsedBits' = UsedBits
      BY <2>1 DEF UsedBits, IsSet
    <3> QED
      BY <2>1, <3>1, <3>2 DEF Set_!Alloc
  <2>2. ASSUME NEW ix \in Word, NEW o \in Offset,
               IsFirst(ix, OpenWords), IsFirst(o, Offset \ v[ix]),
               v' = [v EXCEPT ![ix] = @ \cup {o}], ret' = ix * BitsPerWord + o
        PROVE  Set_!Alloc
    <3> DEFINE i == ix * BitsPerWord + o
    <3>1. /\ i \in Index /\ ~IsSet(v, i)
          /\ \A j \in Index : ~IsSet(v, j) => i <= j
      BY <2>2, ScanLowest
    <3>2. IxOf(i) = ix /\ MaskOf(i) = o
      BY WordsNat, TranslateBack DEF Word
    <3>3. v' = [v EXCEPT ![IxOf(i)] = @ \cup {MaskOf(i)}]
      BY <2>2, <3>2
    <3>4. UsedBits' = UsedBits \cup {i}
      BY <3>1, <3>3, MarkUsed
    <3>5. i \in Set_!Free /\ \A j \in Set_!Free : i <= j
      BY <3>1 DEF Set_!Free, Set_!Bits, UsedBits, Index
    <3> QED
      BY <2>2, <3>4, <3>5 DEF Set_!Alloc
  <2> QED
    BY <1>1, <2>1, <2>2 DEF Alloc
<1>2. ASSUME NEW i \in Index, Mark(i) PROVE Set_!Mark
  <2>1. UsedBits' = UsedBits \cup {i}
    BY <1>2, MarkUsed DEF Mark
  <2>2. i \in Set_!Free
    BY <1>2 DEF Mark, Set_!Free, Set_!Bits, UsedBits, Index
  <2> QED
    BY <1>2, <2>1, <2>2 DEF Mark, Set_!Mark
<1>3. ASSUME NEW i \in Index, Unmark(i) PROVE Set_!Unmark
  <2>1. UsedBits' = UsedBits \ {i}
    BY <1>3, UnmarkUsed DEF Unmark
  <2>2. i \in UsedBits
    BY <1>3 DEF Unmark, UsedBits
  <2> QED
    BY <1>3, <2>1, <2>2 DEF Unmark, Set_!Unmark
<1>4. CASE UNCHANGED vars
  BY <1>4 DEF vars, UsedBits, IsSet
<1> QED
  BY <1>1, <1>2, <1>3, <1>4 DEF Next

\* The word scan is the allocator the block map is modelled with: the lowest
\* free index, and none only when all are in use.
THEOREM ScanImplementsBitSet == Spec => ImplementsBitSet
BY Invariance, RefineInit, RefineStep, PTL DEF Spec, ImplementsBitSet, Set_!Spec
=============================================================================
