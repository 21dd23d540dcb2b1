--------------------------- MODULE YoBufferBounds ---------------------------
(***************************************************************************)
(* The immutable value YoBufferBounds: an index window [startIndex,        *)
(* endIndex] and the lower and upper bound of the samples in it.           *)
(*                                                                         *)
(* Samples are doubles.  What the bounds tell apart is their order and     *)
(* whether they are NaN, so a sample is an integer of Number or NaN; the   *)
(* two infinities are the integers PosInf and NegInf.                      *)
(***************************************************************************)
EXTENDS Integers, Sequences, FiniteSetsExt

CONSTANTS Number,   \* the ordered samples a variable may take
          NaN,      \* the sample every comparison with is false
          PosInf, NegInf,
          MaxLength \* bound of the model on the length of a buffer

ASSUME NumberAssumption ==
    /\ IsFiniteSet(Number) /\ Number \subseteq Int /\ 0 \in Number
    /\ PosInf \in Int /\ NegInf \in Int /\ NegInf < PosInf
    /\ \A n \in Number : NegInf <= n /\ n <= PosInf
    /\ NaN \notin Int

ASSUME MaxLengthAssumption == MaxLength \in Nat \ {0}

Value == Number \cup {NaN}
Extended == Number \cup {PosInf, NegInf}

Bounds == [startIndex : -1 .. MaxLength, endIndex : -1 .. MaxLength,
           lowerBound : Extended, upperBound : Extended]

EMPTY == [startIndex |-> -1, endIndex |-> -1,
          lowerBound |-> PosInf, upperBound |-> NegInf]

(***************************************************************************)
(* The slots YoBufferBounds::computed visits, as 0-based indices: the end  *)
(* index is excluded, and a window whose start is not before its end wraps *)
(* around the array.                                                       *)
(***************************************************************************)
WindowSlots(start, end, length) ==
    IF start < end THEN start .. (end - 1)
                   ELSE (start .. (length - 1)) \cup (0 .. (end - 1))

\* Comparisons with NaN are false, so NaN samples never reach the bounds.
Samples(start, end, data) ==
    {data[i + 1] : i \in WindowSlots(start, end, Len(data))} \ {NaN}

\* Mutant: the largest finite number in place of infinity.
computedFromMax(start, end, data) ==
    [startIndex |-> start, endIndex |-> end,
     lowerBound |-> Min(Samples(start, end, data) \cup {PosInf - 1}),
     upperBound |-> Max(Samples(start, end, data) \cup {NegInf + 1})]

computed(start, end, data) ==
    [startIndex |-> start, endIndex |-> end,
     lowerBound |-> Min(Samples(start, end, data) \cup {PosInf}),
     upperBound |-> Max(Samples(start, end, data) \cup {NegInf})]

isInsideBounds(b, value) ==
    value # NaN /\ b.lowerBound <= value /\ value <= b.upperBound

\* Mutant: a sample moves one of the bounds only.
widenedOnOneSide(b, value) ==
    IF value = NaN \/ isInsideBounds(b, value) THEN b
    ELSE IF value < b.lowerBound THEN [b EXCEPT !.lowerBound = value]
                                 ELSE [b EXCEPT !.upperBound = value]

\* std::min(lower, NaN) and std::max(upper, NaN) both keep the old bound.
widenedToInclude(b, value) ==
    IF value = NaN \/ isInsideBounds(b, value) THEN b
    ELSE [b EXCEPT !.lowerBound = Min({@, value}), !.upperBound = Max({@, value})]

\* An interval, or the empty pair of infinities.
IsOrdered(b) ==
    b.lowerBound <= b.upperBound \/ (b.lowerBound = PosInf /\ b.upperBound = NegInf)

\* a contains every sample b contains
Contains(a, b) == a.lowerBound <= b.lowerBound /\ b.upperBound <= a.upperBound
=============================================================================
