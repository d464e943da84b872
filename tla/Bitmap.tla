------------------------------- MODULE Bitmap -------------------------------
(***************************************************************************)
(* The freemaps: src/src/bitmap.c.  A bitmap is an array of words of       *)
(* BITS_PER_WORD bits; a word is modelled as the set of its bits that are  *)
(* on.  When NBits is not a multiple of the word, the leftover bits of the *)
(* last word are on from the start, and the scan for a free bit relies on  *)
(* them never being cleared.                                               *)
(* The bitmaps of the program have no such bits (super.c:73, 84, 266 and   *)
(* 269 ask for whole words); any number is modelled, as in bitmap.c.       *)
(***************************************************************************)
EXTENDS Integers

CONSTANT NBits  \* nbits

ASSUME BitmapAssumption == NBits \in Nat

VARIABLES
  v,   \* the words
  ret  \* what the last operation returned: an index, or -1 (-ENOSPC, or none)

vars == <<v, ret>>

BitsPerWord == 8
Offset  == 0 .. BitsPerWord - 1
AllBits == Offset  \* WORD_ALLBITS

Words == (NBits + BitsPerWord - 1) \div BitsPerWord
Word  == 0 .. Words - 1
Index == 0 .. NBits - 1

\* Mutated: the leftover bits are not marked.
NoLeftoverBits == {}

\* bitmap_create
LeftoverBits ==
  IF NBits \div BitsPerWord < Words
  THEN {j \in Offset : j >= NBits - (Words - 1) * BitsPerWord}
  ELSE {}

Init ==
  /\ v = [ix \in Word |-> IF ix = Words - 1 THEN LeftoverBits ELSE {}]
  /\ ret = -1

\* bitmap_translate, and bitmap_isset
IxOf(i)   == i \div BitsPerWord
MaskOf(i) == i % BitsPerWord
IsSet(w, i) == MaskOf(i) \in w[IxOf(i)]

\* bitmap_alloc: the first word that has a clear bit, and the first in it.
OpenWords == {ix \in Word : v[ix] # AllBits}

IsFirst(x, S) == x \in S /\ \A y \in S : x <= y

Alloc ==
  \/ \E ix \in Word, offset \in Offset :
       /\ IsFirst(ix, OpenWords)
       /\ IsFirst(offset, Offset \ v[ix])
       /\ v' = [v EXCEPT ![ix] = @ \cup {offset}]
       /\ ret' = ix * BitsPerWord + offset
  \/ OpenWords = {} /\ ret' = -1 /\ UNCHANGED v

\* bitmap_mark and bitmap_unmark; what they assert is up to the caller.
Mark(i) ==
  /\ ~IsSet(v, i)
  /\ v' = [v EXCEPT ![IxOf(i)] = @ \cup {MaskOf(i)}]
  /\ ret' = -1

\* Mutated: the mask is not inverted.
UnmarkMasks(i) ==
  /\ IsSet(v, i)
  /\ v' = [v EXCEPT ![IxOf(i)] = @ \cap {MaskOf(i)}]
  /\ ret' = -1

Unmark(i) ==
  /\ IsSet(v, i)
  /\ v' = [v EXCEPT ![IxOf(i)] = @ \ {MaskOf(i)}]
  /\ ret' = -1

Next == Alloc \/ \E i \in Index : Mark(i) \/ Unmark(i)

Spec == Init /\ [][Next]_vars

-----------------------------------------------------------------------------
TypeOK == v \in [Word -> SUBSET Offset] /\ ret \in Index \cup {-1}

\* The bits in use, as bitmap_nr_allocated counts them.
UsedBits == {i \in Index : IsSet(v, i)}

\* bitmap_equal: two bitmaps are compared word by word.
Equal(a, b) == \A ix \in Word : a[ix] = b[ix]

\* A new bitmap with the bits of S marked.
Rebuilt(S) ==
  [ix \in Word |-> (IF ix = Words - 1 THEN LeftoverBits ELSE {})
                     \cup {MaskOf(i) : i \in {k \in S : IxOf(k) = ix}}]

\* The freemap equals the one cmd_checkfs builds from the blocks in use: the
\* comparison of whole words sees no difference in bits that stand for nothing.
EqualsRebuilt == Equal(v, Rebuilt(UsedBits))

Set_ == INSTANCE BitSet WITH used <- UsedBits, got <- ret

\* The scan by words hands out the lowest index that is free, below nbits (the
\* assertion bitmap.c:82), and reports -ENOSPC only when none is.
ImplementsBitSet == Set_!Spec
=============================================================================
