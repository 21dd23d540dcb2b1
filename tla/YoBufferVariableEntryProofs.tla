-------------------- MODULE YoBufferVariableEntryProofs ---------------------
(***************************************************************************)
(* With recomputations kept apart from other calls (GuardedSpec), any      *)
(* number of writers may overlap and no widening is lost: for every number *)
(* of threads, every set of samples and every length.                      *)
(***************************************************************************)
EXTENDS YoBufferVariableEntry, WellFoundedInduction, SequenceTheorems, TLAPS

(* What computed and widenedToInclude return, for every array and sample. *)

\* A non-empty set of integers with a lower bound has a least element.
LEMMA MinIsLeast ==
    ASSUME NEW S, S \subseteq Int, S # {}, NEW low \in Int, \A x \in S : low <= x
    PROVE  Min(S) \in S /\ \A x \in S : Min(S) <= x
<1> DEFINE T == {n \in Nat : low + n \in S}
<1>1. PICK x \in S : TRUE
  OBVIOUS
<1>2. x - low \in T
  BY <1>1
<1>3. PICK m \in T : \A n \in T : ~(<<n, m>> \in OpToRel(<, Nat))
  <2>1. T \subseteq Nat /\ T # {}
    BY <1>2
  <2> HIDE DEF T
  <2> QED  BY <2>1, WFMin, NatLessThanWellFounded
<1>4. \A n \in T : m <= n
  <2>1. \A a, b \in Nat : <<a, b>> \in OpToRel(<, Nat) <=> a < b
    BY DEF OpToRel
  <2>2. \A n \in T : n \in Nat /\ m \in Nat /\ ~(n < m)
    BY <1>3, <2>1
  <2> QED  BY <2>2
<1>5. \A y \in S : y - low \in T
  OBVIOUS
<1>6. \A y \in S : low + m <= y
  BY <1>4, <1>5
<1>7. low + m \in S
  BY <1>3
<1> QED  BY <1>6, <1>7 DEF Min

\* A non-empty set of integers with an upper bound has a greatest element.
LEMMA MaxIsGreatest ==
    ASSUME NEW S, S \subseteq Int, S # {}, NEW high \in Int, \A x \in S : x <= high
    PROVE  Max(S) \in S /\ \A x \in S : x <= Max(S)
<1> DEFINE T == {n \in Nat : high - n \in S}
<1>1. PICK x \in S : TRUE
  OBVIOUS
<1>2. high - x \in T
  BY <1>1
<1>3. PICK m \in T : \A n \in T : ~(<<n, m>> \in OpToRel(<, Nat))
  <2>1. T \subseteq Nat /\ T # {}
    BY <1>2
  <2> HIDE DEF T
  <2> QED  BY <2>1, WFMin, NatLessThanWellFounded
<1>4. \A n \in T : m <= n
  <2>1. \A a, b \in Nat : <<a, b>> \in OpToRel(<, Nat) <=> a < b
    BY DEF OpToRel
  <2>2. \A n \in T : n \in Nat /\ m \in Nat /\ ~(n < m)
    BY <1>3, <2>1
  <2> QED  BY <2>2
<1>5. \A y \in S : high - y \in T
  OBVIOUS
<1>6. \A y \in S : y <= high - m
  BY <1>4, <1>5
<1>7. high - m \in S
  BY <1>3
<1> QED  BY <1>6, <1>7 DEF Max

\* The samples of an array, restricted to a window inside it, are numbers.
LEMMA SamplesAreNumbers ==
    ASSUME NEW data \in Seq(Value), NEW start, NEW end,
           WindowSlots(start, end, Len(data)) \subseteq 0 .. Len(data) - 1
    PROVE  Samples(start, end, data) \subseteq Number
<1>1. \A i \in WindowSlots(start, end, Len(data)) : data[i + 1] \in Value
  OBVIOUS
<1> QED  BY <1>1 DEF Samples, Value

\* The bounds computed for a window inside the array are well formed and
\* contain every sample of the window that is not NaN.
THEOREM ComputedCovers ==
    ASSUME NEW data \in Seq(Value), Len(data) \in 1 .. MaxLength,
           NEW start \in 0 .. MaxLength - 1, NEW end \in 0 .. MaxLength - 1,
           WindowSlots(start, end, Len(data)) \subseteq 0 .. Len(data) - 1
    PROVE  /\ computed(start, end, data) \in Bounds
           /\ \A i \in WindowSlots(start, end, Len(data)) :
                 data[i + 1] = NaN \/ isInsideBounds(computed(start, end, data), data[i + 1])
<1> DEFINE S == Samples(start, end, data)
<1>1. S \subseteq Number
  BY SamplesAreNumbers
<1>2. /\ Min(S \cup {PosInf}) \in S \cup {PosInf}
      /\ \A x \in S \cup {PosInf} : Min(S \cup {PosInf}) <= x
  <2> HIDE DEF S
  <2>1. S \cup {PosInf} \subseteq Int /\ S \cup {PosInf} # {}
    BY <1>1, NumberAssumption
  <2>2. \A x \in S \cup {PosInf} : NegInf <= x
    BY <1>1, NumberAssumption
  <2> QED  BY <2>1, <2>2, MinIsLeast, NumberAssumption
<1>3. /\ Max(S \cup {NegInf}) \in S \cup {NegInf}
      /\ \A x \in S \cup {NegInf} : x <= Max(S \cup {NegInf})
  <2> HIDE DEF S
  <2>1. S \cup {NegInf} \subseteq Int /\ S \cup {NegInf} # {}
    BY <1>1, NumberAssumption
  <2>2. \A x \in S \cup {NegInf} : x <= PosInf
    BY <1>1, NumberAssumption
  <2> QED  BY <2>1, <2>2, MaxIsGreatest, NumberAssumption
<1>4. computed(start, end, data) \in Bounds
  BY <1>1, <1>2, <1>3, MaxLengthAssumption DEF computed, Bounds, Extended
<1>5. ASSUME NEW i \in WindowSlots(start, end, Len(data)), data[i + 1] # NaN
      PROVE  isInsideBounds(computed(start, end, data), data[i + 1])
  <2>1. data[i + 1] \in S
    BY <1>5 DEF Samples
  <2> QED  BY <1>2, <1>3, <1>5, <2>1 DEF computed, isInsideBounds
<1> QED  BY <1>4, <1>5

\* Computed bounds are an interval, or empty when the window has no samples.
THEOREM ComputedIsOrdered ==
    ASSUME NEW data \in Seq(Value), NEW start, NEW end,
           WindowSlots(start, end, Len(data)) \subseteq 0 .. Len(data) - 1
    PROVE  IsOrdered(computed(start, end, data))
<1> DEFINE S == Samples(start, end, data)
<1>1. S \subseteq Number
  BY SamplesAreNumbers
<1>2. /\ computed(start, end, data).lowerBound = Min(S \cup {PosInf})
      /\ computed(start, end, data).upperBound = Max(S \cup {NegInf})
  BY DEF computed
<1> HIDE DEF S
<1>3. CASE S = {}
  <2>1. S \cup {PosInf} \subseteq Int /\ S \cup {NegInf} \subseteq Int
    BY <1>3, NumberAssumption
  <2>2. Min(S \cup {PosInf}) \in S \cup {PosInf}
    BY <1>3, <2>1, MinIsLeast, NumberAssumption
  <2>3. Max(S \cup {NegInf}) \in S \cup {NegInf}
    BY <1>3, <2>1, MaxIsGreatest, NumberAssumption
  <2> QED  BY <1>2, <1>3, <2>2, <2>3 DEF IsOrdered
<1>4. CASE S # {}
  <2>1. PICK x : x \in S
    BY <1>4
  <2>2. /\ S \cup {PosInf} \subseteq Int /\ S \cup {NegInf} \subseteq Int /\ x \in Int
        /\ \A y \in S \cup {PosInf} : NegInf <= y
        /\ \A y \in S \cup {NegInf} : y <= PosInf
    BY <1>1, <2>1, NumberAssumption
  <2>3. Min(S \cup {PosInf}) <= x /\ Min(S \cup {PosInf}) \in Int
    BY <2>1, <2>2, MinIsLeast, NumberAssumption
  <2>4. x <= Max(S \cup {NegInf}) /\ Max(S \cup {NegInf}) \in Int
    BY <2>1, <2>2, MaxIsGreatest, NumberAssumption
  <2>5. Min(S \cup {PosInf}) <= Max(S \cup {NegInf})
    BY <2>2, <2>3, <2>4
  <2> QED  BY <1>2, <2>5 DEF IsOrdered
<1> QED  BY <1>3, <1>4

\* Widening returns well-formed bounds that contain the old ones and the sample.
THEOREM WidenedContains ==
    ASSUME NEW b \in Bounds, NEW value \in Value
    PROVE  /\ widenedToInclude(b, value) \in Bounds
           /\ Contains(widenedToInclude(b, value), b)
           /\ value = NaN \/ isInsideBounds(widenedToInclude(b, value), value)
           /\ widenedToInclude(b, value).startIndex = b.startIndex
           /\ widenedToInclude(b, value).endIndex = b.endIndex
<1>0. b.lowerBound \in Int /\ b.upperBound \in Int
      /\ b.lowerBound \in Extended /\ b.upperBound \in Extended
  BY NumberAssumption DEF Bounds, Extended
<1>1. CASE value = NaN \/ isInsideBounds(b, value)
  BY <1>0, <1>1 DEF widenedToInclude, Contains
<1>2. CASE ~(value = NaN \/ isInsideBounds(b, value))
  <2>1. value \in Number /\ value \in Int
    BY <1>2, NumberAssumption DEF Value
  <2> DEFINE low == Min({b.lowerBound, value})
             high == Max({b.upperBound, value})
  <2>2. low \in {b.lowerBound, value} /\ low <= b.lowerBound /\ low <= value
    <3>1. \E x \in {b.lowerBound, value} : \A y \in {b.lowerBound, value} : x <= y
      BY <1>0, <2>1
    <3> QED  BY <3>1 DEF Min
  <2>3. high \in {b.upperBound, value} /\ b.upperBound <= high /\ value <= high
    <3>1. \E x \in {b.upperBound, value} : \A y \in {b.upperBound, value} : x >= y
      BY <1>0, <2>1
    <3>2. high \in {b.upperBound, value} /\ high >= b.upperBound /\ high >= value
      BY <3>1 DEF Max
    <3> QED  BY <1>0, <2>1, <3>2
  <2>4. widenedToInclude(b, value) = [b EXCEPT !.lowerBound = low, !.upperBound = high]
    BY <1>2 DEF widenedToInclude
  <2> HIDE DEF low, high
  <2>5. widenedToInclude(b, value) \in Bounds
    BY <1>0, <2>1, <2>2, <2>3, <2>4 DEF Bounds, Extended
  <2>6. /\ widenedToInclude(b, value).lowerBound = low
        /\ widenedToInclude(b, value).upperBound = high
        /\ widenedToInclude(b, value).startIndex = b.startIndex
        /\ widenedToInclude(b, value).endIndex = b.endIndex
    BY <2>4 DEF Bounds
  <2> QED  BY <1>2, <2>2, <2>3, <2>5, <2>6 DEF Contains, isInsideBounds
<1> QED  BY <1>1, <1>2

\* Widening keeps bounds ordered: it moves both to the sample when they were empty.
THEOREM WidenedIsOrdered ==
    ASSUME NEW b \in Bounds, NEW value \in Value, IsOrdered(b)
    PROVE  IsOrdered(widenedToInclude(b, value))
<1>1. CASE value = NaN
  BY <1>1 DEF widenedToInclude
<1>2. CASE value # NaN
  <2>1. isInsideBounds(widenedToInclude(b, value), value) /\ widenedToInclude(b, value) \in Bounds
    BY <1>2, WidenedContains
  <2>2. /\ widenedToInclude(b, value).lowerBound \in Int
        /\ widenedToInclude(b, value).upperBound \in Int /\ value \in Int
    BY <1>2, <2>1, NumberAssumption DEF Bounds, Extended, Value
  <2> QED  BY <2>1, <2>2 DEF IsOrdered, isInsideBounds
<1> QED  BY <1>1, <1>2

\* Bounds contain themselves.
THEOREM ContainsIsReflexive ==
    ASSUME NEW b \in Bounds PROVE Contains(b, b)
<1>1. b.lowerBound \in Int /\ b.upperBound \in Int
  BY NumberAssumption DEF Bounds, Extended
<1> QED  BY <1>1 DEF Contains

\* Wider bounds contain what narrower bounds contain.
THEOREM ContainsIsTransitive ==
    ASSUME NEW a \in Bounds, NEW b \in Bounds, Contains(a, b)
    PROVE  /\ \A value \in Value : isInsideBounds(b, value) => isInsideBounds(a, value)
           /\ \A c \in Bounds : Contains(b, c) => Contains(a, c)
<1>1. \A x \in Bounds : x.lowerBound \in Int /\ x.upperBound \in Int
  BY NumberAssumption DEF Bounds, Extended
<1>2. \A value \in Value : value = NaN \/ value \in Int
  BY NumberAssumption DEF Value
<1>3. \A value \in Value : isInsideBounds(b, value) => isInsideBounds(a, value)
  BY <1>1, <1>2 DEF Contains, isInsideBounds
<1>4. \A c \in Bounds : Contains(b, c) => Contains(a, c)
  BY <1>1 DEF Contains
<1> QED  BY <1>3, <1>4
-----------------------------------------------------------------------------
(* The types *)

\* A window asked for lies inside the buffer.
WindowInBuffer ==
    \A r \in Reader : (reader[r].pc # "idle" /\ reader[r].window # <<>>) =>
        reader[r].window[1] < Len(buffer) /\ reader[r].window[2] < Len(buffer)

HasSnapshot(r) == reader[r].pc \in {"loadOld", "publish", "setChanged"}

SnapshotIsFull == \A r \in Reader : HasSnapshot(r) => Len(reader[r].snapshot) = Len(buffer)

\* Inductive in every specification.
TypeInv == TypeOK /\ WindowInBuffer /\ SnapshotIsFull
-----------------------------------------------------------------------------
(* The arrays the resizing operations build hold samples. *)

\* An array of equal samples has the length asked for.
LEMMA FilledType ==
    ASSUME NEW length \in Nat, NEW value \in Value
    PROVE  Filled(length, value) \in Seq(Value) /\ Len(Filled(length, value)) = length
BY DEF Filled

\* Storing a sample in a slot keeps an array of samples, and its length.
LEMMA StoreKeepsType ==
    ASSUME NEW data \in Seq(Value), NEW i \in Int, NEW value \in Value
    PROVE  /\ [data EXCEPT ![i] = value] \in Seq(Value)
           /\ Len([data EXCEPT ![i] = value]) = Len(data)
<1> DEFINE new == [data EXCEPT ![i] = value]
<1>1. new = [j \in 1 .. Len(data) |-> IF j = i THEN value ELSE data[j]]
  OBVIOUS
<1>2. \A j \in 1 .. Len(data) : (IF j = i THEN value ELSE data[j]) \in Value
  OBVIOUS
<1> HIDE DEF new
<1>3. new \in Seq(Value) /\ Len(new) = Len(data)
  BY <1>1, <1>2
<1> QED  BY <1>3 DEF new

\* A longer copy of an array holds samples.
LEMMA EnlargedType ==
    ASSUME NEW data \in Seq(Value), Len(data) > 0, NEW newSize \in Nat
    PROVE  Enlarged(data, newSize) \in Seq(Value)
BY DEF Enlarged

\* The array cropBuffer builds holds samples.
LEMMA CroppedType ==
    ASSUME NEW data \in Seq(Value), Len(data) > 0, NEW start \in Nat, NEW end \in Nat
    PROVE  Cropped(data, start, end) \in Seq(Value)
<1> DEFINE n == computeBufferSizeAfterCrop(start, end, Len(data))
           slot(i) == ((i - 1 + start) % Len(data)) + 1
<1>1. n \in Nat
  BY DEF computeBufferSizeAfterCrop
<1>2. \A i \in 1 .. n : slot(i) \in 1 .. Len(data)
  BY <1>1
<1>3. \A i \in 1 .. n : data[slot(i)] \in Value
  BY <1>2
<1>4. Cropped(data, start, end) = [i \in 1 .. n |-> data[slot(i)]]
  BY DEF Cropped
<1> HIDE DEF n, slot
<1> QED  BY <1>1, <1>3, <1>4

\* The array cutBuffer builds holds samples.
LEMMA CutOutType ==
    ASSUME NEW data \in Seq(Value), NEW start \in Nat, NEW end \in Nat,
           CutAccepted(start, end, Len(data)), CutIsDefined(start, end, Len(data))
    PROVE  CutOut(data, start, end) \in Seq(Value)
<1> DEFINE n == SizeAfterCut(start, end, Len(data))
<1>1. n \in Nat /\ n <= Len(data)
  BY DEF CutAccepted, CutIsDefined, LargestCutWrite, SizeAfterCut, computeBufferSizeAfterCut
<1>2. 0 \in Value
  BY NumberAssumption DEF Value
<1>3. \A i \in 1 .. n : (IF i <= start THEN data[i]
                         ELSE IF i + (end - start + 1) <= Len(data) THEN data[i + (end - start + 1)]
                         ELSE 0) \in Value
  BY <1>1, <1>2 DEF CutAccepted
<1> HIDE DEF n
<1> QED  BY <1>1, <1>3 DEF CutOut, n

\* The rotated array holds samples.
LEMMA ShiftedType ==
    ASSUME NEW data \in Seq(Value), NEW shiftIndex \in Nat
    PROVE  Shifted(data, shiftIndex) \in Seq(Value)
<1>1. CASE ~ShiftAccepted(shiftIndex, Len(data))
  BY <1>1 DEF Shifted
<1>2. CASE ShiftAccepted(shiftIndex, Len(data))
  <2> DEFINE slot(i) == ((i - 1 + shiftIndex) % Len(data)) + 1
  <2>1. \A i \in 1 .. Len(data) : slot(i) \in 1 .. Len(data)
    BY <1>2 DEF ShiftAccepted
  <2>2. \A i \in 1 .. Len(data) : data[slot(i)] \in Value
    BY <2>1
  <2>3. Shifted(data, shiftIndex) = [i \in 1 .. Len(data) |-> data[slot(i)]]
    BY <1>2 DEF Shifted
  <2> HIDE DEF slot
  <2> QED  BY <2>2, <2>3
<1> QED  BY <1>1, <1>2

\* The thinned array holds samples.
LEMMA ThinnedType ==
    ASSUME NEW data \in Seq(Value), NEW n \in Nat \ {0}
    PROVE  Thinned(data, n) \in Seq(Value)
<1> DEFINE size == Len(data) \div n
<1>1. size \in Nat /\ size * n <= Len(data)
  OBVIOUS
<1>2. \A i \in 1 .. size : (i - 1) * n + 1 \in 1 .. Len(data)
  <2> TAKE i \in 1 .. size
  <2>1. (i - 1) * n >= 0 /\ (i - 1) * n \in Int
    OBVIOUS
  <2>2. (i - 1) * n <= (size - 1) * n
    <3> HIDE DEF size
    <3>1. (size - i) * n >= 0 /\ (size - i) * n \in Int
      BY <1>1
    <3>2. (size - 1) * n = (i - 1) * n + (size - i) * n
      BY <1>1
    <3> QED  BY <1>1, <2>1, <3>1, <3>2
  <2>3. (size - 1) * n = size * n - n
    BY <1>1
  <2> HIDE DEF size
  <2> QED  BY <1>1, <2>1, <2>2, <2>3
<1>3. \A i \in 1 .. size : data[(i - 1) * n + 1] \in Value
  <2> DEFINE slot(i) == (i - 1) * n + 1
  <2>1. \A i \in 1 .. size : slot(i) \in 1 .. Len(data)
    BY <1>2
  <2> HIDE DEF slot, size
  <2>2. \A i \in 1 .. size : data[slot(i)] \in Value
    BY <2>1
  <2> QED  BY <2>2 DEF slot
<1>4. Thinned(data, n) = [i \in 1 .. size |-> data[(i - 1) * n + 1]]
  BY DEF Thinned
<1> HIDE DEF size
<1> QED  BY <1>1, <1>3, <1>4
-----------------------------------------------------------------------------
(* Type correctness *)

\* The empty bounds are bounds.
LEMMA EmptyType == EMPTY \in Bounds
BY MaxLengthAssumption DEF EMPTY, Bounds, Extended

\* A thread outside of any call has well-formed locals.
LEMMA IdleTypes == IdleWriter \in WriterLocals /\ IdleReader \in ReaderLocals
BY EmptyType, NumberAssumption, MaxLengthAssumption
   DEF IdleWriter, IdleReader, WriterLocals, ReaderLocals, WriterPC, ReaderPC, Value

\* The constructor leaves everything well typed.
LEMMA InitType == Init => TypeInv
<1> SUFFICES ASSUME Init PROVE TypeInv
  OBVIOUS
<1>1. buffer \in Seq(Value) /\ Len(buffer) \in 1 .. MaxLength
  <2>1. PICK size \in 1 .. MaxLength : buffer = Filled(size, 0)
    BY DEF Init
  <2>2. 0 \in Value /\ size \in Nat
    BY NumberAssumption DEF Value
  <2> QED  BY <2>1, <2>2, FilledType
<1>2. \A r \in Reader : reader[r].pc = "idle"
  BY DEF Init, IdleReader
<1> QED
  BY <1>1, <1>2, IdleTypes, EmptyType
     DEF Init, TypeInv, TypeOK, WindowInBuffer, SnapshotIsFull, HasSnapshot

\* A store to a slot adds its sample to what the readers remember.
LEMMA StoredKeepsReaders ==
    ASSUME NEW w \in Writer, StoreSlot(w), reader \in [Reader -> ReaderLocals], writer[w].value \in Value
    PROVE  /\ reader' \in [Reader -> ReaderLocals]
           /\ \A r \in Reader :
                 /\ reader'[r].pc = reader[r].pc /\ reader'[r].window = reader[r].window
                 /\ reader'[r].old = reader[r].old /\ reader'[r].snapshot = reader[r].snapshot
                 /\ reader[r].pc = "check" =>
                       reader'[r].meanwhile = reader[r].meanwhile \cup {writer[w].value}
<1> DEFINE kept(r) == IF reader[r].pc = "check" THEN reader[r].meanwhile \cup {writer[w].value}
                                               ELSE reader[r].meanwhile
<1>1. reader' = [r \in Reader |-> [reader[r] EXCEPT !.meanwhile = kept(r)]]
  BY DEF StoreSlot
<1>2. ASSUME NEW r \in Reader
      PROVE  /\ [reader[r] EXCEPT !.meanwhile = kept(r)] \in ReaderLocals
             /\ [reader[r] EXCEPT !.meanwhile = kept(r)].meanwhile = kept(r)
  <2>1. reader[r] \in ReaderLocals /\ kept(r) \in SUBSET Value
    BY DEF ReaderLocals
  <2> HIDE DEF kept
  <2> QED  BY <2>1 DEF ReaderLocals
<1>3. \A r \in Reader : reader'[r] = [reader[r] EXCEPT !.meanwhile = kept(r)]
  BY <1>1
<1> HIDE DEF kept
<1> QED  BY <1>1, <1>2, <1>3 DEF kept, ReaderLocals

\* A step of a writer changes no array length, and of the readers only what they
\* remember of it.
LEMMA WriterType ==
    ASSUME TypeInv, NEW w \in Writer, Write(w)
    PROVE  TypeInv'
<1> USE DEF TypeInv, TypeOK, WindowInBuffer, SnapshotIsFull, HasSnapshot
<1>1. ASSUME NEW value \in Value, NEW index \in 0 .. MaxLength - 1, WriteBegin(w, value, index)
      PROVE  TypeInv'
  BY <1>1, EmptyType DEF WriteBegin, WriterLocals, WriterPC
<1>2. CASE StoreSlot(w)
  <2>1. writer[w].value \in Value /\ writer[w].index + 1 \in Int /\ 0 \in 0 .. MaxLength - 1
    BY MaxLengthAssumption DEF WriterLocals
  <2>2. buffer' \in Seq(Value) /\ Len(buffer') = Len(buffer)
    <3>1. buffer' = [buffer EXCEPT ![writer[w].index + 1] = writer[w].value]
      BY <1>2 DEF StoreSlot
    <3> QED  BY <2>1, <3>1, StoreKeepsType
  <2>3. writer' \in [Writer -> WriterLocals]
    BY <1>2, <2>1 DEF StoreSlot, WriterLocals, WriterPC
  <2>4. /\ reader' \in [Reader -> ReaderLocals]
        /\ \A r \in Reader : /\ reader'[r].pc = reader[r].pc /\ reader'[r].window = reader[r].window
                             /\ reader'[r].snapshot = reader[r].snapshot
    BY StoredKeepsReaders, <1>2, <2>1
  <2> QED  BY <1>2, <2>2, <2>3, <2>4 DEF StoreSlot
<1>3. CASE LoadCurrent(w)
  BY <1>3 DEF LoadCurrent, WriterLocals, WriterPC
<1>4. CASE WriteIsCovered(w)
  BY <1>4, IdleTypes DEF WriteIsCovered
<1>5. CASE SwapSucceeds(w)
  <2>1. currentBounds' \in Bounds
    BY <1>5, WidenedContains DEF SwapSucceeds, WriterLocals
  <2>2. [IdleWriter EXCEPT !.pc = "flag"] \in WriterLocals
    BY IdleTypes DEF WriterLocals, WriterPC
  <2> QED  BY <1>5, <2>1, <2>2 DEF SwapSucceeds
<1>6. CASE SwapFails(w)
  BY <1>6 DEF SwapFails, WriterLocals, WriterPC
<1>7. CASE FlagChange(w)
  BY <1>7, IdleTypes DEF FlagChange
<1> QED  BY <1>1, <1>2, <1>3, <1>4, <1>5, <1>6, <1>7 DEF Write, SomeWriteBegins, WriteStep

\* The slots of a window inside the buffer are slots of the buffer.
LEMMA WindowInside ==
    ASSUME NEW length \in Nat, NEW start \in Nat, NEW end \in Nat, start < length, end < length
    PROVE  WindowSlots(start, end, length) \subseteq 0 .. length - 1
BY DEF WindowSlots

\* The window of a reader that has its snapshot, and what it computes from it.
LEMMA NewBoundsCover ==
    ASSUME TypeInv, NEW r \in Reader, HasSnapshot(r)
    PROVE  /\ newBounds(r) \in Bounds
           /\ \A i \in WindowSlots(newBounds(r).startIndex, newBounds(r).endIndex, Len(buffer)) :
                 \/ reader[r].snapshot[i + 1] = NaN
                 \/ isInsideBounds(newBounds(r), reader[r].snapshot[i + 1])
<1> DEFINE snapshot == reader[r].snapshot
           window   == reader[r].window
<1>1. snapshot \in Seq(Value) /\ Len(snapshot) = Len(buffer) /\ Len(snapshot) \in 1 .. MaxLength
  BY DEF TypeInv, TypeOK, SnapshotIsFull, ReaderLocals
<1>2. CASE window = <<>>
  <2> DEFINE last == Len(snapshot) - 1
  <2>1. last \in 0 .. MaxLength - 1
        /\ WindowSlots(0, last, Len(snapshot)) \subseteq 0 .. Len(snapshot) - 1
    <3>1. last \in Nat /\ Len(snapshot) \in Nat /\ 0 < Len(snapshot) /\ last < Len(snapshot)
      BY <1>1, MaxLengthAssumption
    <3>2. last \in 0 .. MaxLength - 1
      BY <1>1, MaxLengthAssumption
    <3> QED  BY <3>1, <3>2, WindowInside
  <2>2. newBounds(r) = computed(0, last, snapshot)
    BY <1>2 DEF newBounds
  <2> HIDE DEF last, snapshot, window
  <2>3. newBounds(r).startIndex = 0 /\ newBounds(r).endIndex = last
    BY <2>2 DEF computed
  <2>4. 0 \in 0 .. MaxLength - 1
    BY MaxLengthAssumption
  <2>5. /\ computed(0, last, snapshot) \in Bounds
        /\ \A i \in WindowSlots(0, last, Len(snapshot)) :
              snapshot[i + 1] = NaN \/ isInsideBounds(computed(0, last, snapshot), snapshot[i + 1])
    BY <1>1, <2>1, <2>4, ComputedCovers
  <2> QED  BY <1>1, <2>2, <2>3, <2>5 DEF snapshot
<1>3. CASE window # <<>>
  <2>1. /\ window \in Windows /\ window[1] < Len(buffer) /\ window[2] < Len(buffer)
        /\ window[1] \in 0 .. MaxLength - 1 /\ window[2] \in 0 .. MaxLength - 1
    BY <1>3, WindowsAssumption DEF TypeInv, TypeOK, WindowInBuffer, HasSnapshot, ReaderLocals
  <2>2. WindowSlots(window[1], window[2], Len(snapshot)) \subseteq 0 .. Len(snapshot) - 1
    BY <1>1, <2>1, WindowInside, MaxLengthAssumption
  <2>3. newBounds(r) = computed(window[1], window[2], snapshot)
    BY <1>3 DEF newBounds
  <2> HIDE DEF snapshot, window
  <2>4. newBounds(r).startIndex = window[1] /\ newBounds(r).endIndex = window[2]
    BY <2>3 DEF computed
  <2> QED  BY <1>1, <2>1, <2>2, <2>3, <2>4, ComputedCovers DEF snapshot
<1> QED  BY <1>2, <1>3

\* They are an interval or empty.
LEMMA NewBoundsOrdered ==
    ASSUME TypeInv, NEW r \in Reader, HasSnapshot(r)
    PROVE  IsOrdered(newBounds(r))
<1> DEFINE snapshot == reader[r].snapshot
           window   == reader[r].window
<1>1. snapshot \in Seq(Value) /\ Len(snapshot) = Len(buffer) /\ Len(snapshot) \in 1 .. MaxLength
  BY DEF TypeInv, TypeOK, SnapshotIsFull, ReaderLocals
<1>2. CASE window = <<>>
  <2>1. WindowSlots(0, Len(snapshot) - 1, Len(snapshot)) \subseteq 0 .. Len(snapshot) - 1
    BY <1>1, WindowInside, MaxLengthAssumption
  <2>2. newBounds(r) = computed(0, Len(snapshot) - 1, snapshot)
    BY <1>2 DEF newBounds
  <2> HIDE DEF snapshot
  <2> QED  BY <1>1, <2>1, <2>2, ComputedIsOrdered
<1>3. CASE window # <<>>
  <2>1. /\ window[1] < Len(buffer) /\ window[2] < Len(buffer)
        /\ window[1] \in 0 .. MaxLength - 1 /\ window[2] \in 0 .. MaxLength - 1
    BY <1>3, WindowsAssumption DEF TypeInv, TypeOK, WindowInBuffer, HasSnapshot, ReaderLocals
  <2>2. WindowSlots(window[1], window[2], Len(snapshot)) \subseteq 0 .. Len(snapshot) - 1
    BY <1>1, <2>1, WindowInside, MaxLengthAssumption
  <2>3. newBounds(r) = computed(window[1], window[2], snapshot)
    BY <1>3 DEF newBounds
  <2> HIDE DEF snapshot, window
  <2> QED  BY <1>1, <2>2, <2>3, ComputedIsOrdered
<1> QED  BY <1>2, <1>3

\* A step of a reader keeps the types; its snapshot ends up as long as the buffer.
LEMMA ReaderType ==
    ASSUME TypeInv, NEW r \in Reader, ReadBegin(r) \/ ReadStep(r)
    PROVE  TypeInv'
<1> USE DEF TypeInv, TypeOK, WindowInBuffer, SnapshotIsFull, HasSnapshot
<1>1. CASE GetBoundsBegin(r)
  <2>1. \A pc \in ReaderPC : [IdleReader EXCEPT !.pc = pc] \in ReaderLocals
    BY IdleTypes DEF ReaderLocals
  <2> QED  BY <1>1, <2>1 DEF GetBoundsBegin, IdleReader, ReaderPC
<1>2. ASSUME NEW window \in Windows, GetWindowBoundsBegin(r, window)
      PROVE  TypeInv'
  <2>1. [pc |-> "check", window |-> window, old |-> currentBounds, snapshot |-> <<>>,
         meanwhile |-> {value \in Value : InFlight(value)}] \in ReaderLocals
    BY DEF ReaderLocals, ReaderPC
  <2> QED  BY <1>2, <2>1 DEF GetWindowBoundsBegin
<1>3. CASE UseOldBounds(r)
  BY <1>3, IdleTypes DEF UseOldBounds, IdleReader
<1>4. CASE RecomputeWindow(r)
  BY <1>4 DEF RecomputeWindow, ReaderLocals, ReaderPC
<1>5. CASE CopySlot(r)
  <2>1. buffer[Len(reader[r].snapshot) + 1] \in Value
    BY <1>5 DEF CopySlot, ReaderLocals
  <2>2. Append(reader[r].snapshot, buffer[Len(reader[r].snapshot) + 1]) \in Seq(Value)
    BY <2>1 DEF ReaderLocals
  <2> QED  BY <1>5, <2>2 DEF CopySlot, ReaderLocals
<1>6. CASE SnapshotDone(r)
  BY <1>6 DEF SnapshotDone, ReaderLocals, ReaderPC
<1>7. CASE LoadOldBounds(r)
  BY <1>7 DEF LoadOldBounds, ReaderLocals, ReaderPC
<1>8. CASE PublishBounds(r)
  <2>1. currentBounds' \in Bounds
    BY <1>8, NewBoundsCover DEF PublishBounds
  <2> QED  BY <1>8, <2>1 DEF PublishBounds, ReaderLocals, ReaderPC
<1>9. CASE SetChanged(r)
  <2>1. \A pc \in ReaderPC : [IdleReader EXCEPT !.pc = pc] \in ReaderLocals
    BY IdleTypes DEF ReaderLocals
  <2> QED  BY <1>9, <2>1 DEF SetChanged, IdleReader, ReaderPC
<1>10. CASE SetClean(r)
  BY <1>10, IdleTypes DEF SetClean, IdleReader
<1>11. CASE ReturnBounds(r)
  BY <1>11, IdleTypes DEF ReturnBounds, IdleReader
<1> QED
  BY <1>1, <1>2, <1>3, <1>4, <1>5, <1>6, <1>7, <1>8, <1>9, <1>10, <1>11 DEF ReadBegin, ReadStep

\* A resizing operation is alone, so no reader holds a snapshot.
LEMMA ResizeType ==
    ASSUME TypeInv, Alone, MarkingResize \/ UnmarkedResize
    PROVE  TypeInv'
<1> USE DEF TypeInv, TypeOK, WindowInBuffer, SnapshotIsFull, HasSnapshot
<1>0. /\ 0 \in Value /\ 1 .. MaxLength \subseteq Nat \ {0} /\ 0 .. MaxLength \subseteq Nat
      /\ Len(buffer) > 0
  BY NumberAssumption, MaxLengthAssumption DEF Value
<1>1. ASSUME NEW data \in Seq(Value), Replace(data), UNCHANGED <<boundsChanged, writer, reader, seen>>,
             currentBounds' \in Bounds, boundsDirty' \in BOOLEAN
      PROVE  TypeInv'
  BY <1>1 DEF Replace, Alone, ReadersIdle
<1>2. ASSUME NEW n \in 1 .. MaxLength, enlargeBufferSize(n)
      PROVE  TypeInv'
  <2>1. Enlarged(buffer, n) \in Seq(Value)
    BY <1>0, EnlargedType
  <2> QED  BY <1>1, <1>2, <2>1 DEF enlargeBufferSize, MarkDirty
<1>3. ASSUME NEW n \in 1 .. MaxLength, shiftBuffer(n)
      PROVE  TypeInv'
  BY <1>0, <1>1, <1>3, ShiftedType DEF shiftBuffer, MarkDirty
<1>4. ASSUME NEW n \in 1 .. MaxLength, clearBuffer(n)
      PROVE  TypeInv'
  BY <1>0, <1>1, <1>4, FilledType, EmptyType DEF clearBuffer
<1>5. ASSUME NEW start \in 0 .. MaxLength, NEW end \in 0 .. MaxLength, cropBuffer(start, end)
      PROVE  TypeInv'
  <2>1. Cropped(buffer, start, end) \in Seq(Value)
    BY <1>0, CroppedType
  <2> QED  BY <1>1, <1>5, <2>1 DEF cropBuffer, MarkDirty
<1>6. ASSUME NEW start \in 0 .. MaxLength, NEW end \in 0 .. MaxLength, cutBuffer(start, end)
      PROVE  TypeInv'
  BY <1>0, <1>1, <1>6, CutOutType DEF cutBuffer, MarkDirty
<1>7. ASSUME NEW value \in Value, fillBuffer(value)
      PROVE  TypeInv'
  BY <1>0, <1>1, <1>7, FilledType, EmptyType DEF fillBuffer
<1>8. ASSUME NEW n \in 1 .. MaxLength, thinData(n)
      PROVE  TypeInv'
  BY <1>0, <1>1, <1>8, ThinnedType DEF thinData
<1> QED
  BY <1>2, <1>3, <1>4, <1>5, <1>6, <1>7, <1>8 DEF MarkingResize, UnmarkedResize

\* So does every step.
LEMMA NextType == TypeInv /\ [Next]_vars => TypeInv'
<1> SUFFICES ASSUME TypeInv, [Next]_vars PROVE TypeInv'
  OBVIOUS
<1>1. CASE resetBoundsChangedFlag
  BY <1>1 DEF resetBoundsChangedFlag, TypeInv, TypeOK, WindowInBuffer, SnapshotIsFull, HasSnapshot
<1>2. CASE UNCHANGED vars
  BY <1>2 DEF vars, TypeInv, TypeOK, WindowInBuffer, SnapshotIsFull, HasSnapshot
<1> QED
  BY <1>1, <1>2, WriterType, ReaderType, ResizeType DEF Next, SharedNext, WriterNext

\* Whatever overlaps: the buffer holds samples, the bounds are bounds and every
\* thread is at a line of its call.
THEOREM TypeCorrect == Spec => []TypeOK
<1>1. TypeInv => TypeOK
  BY DEF TypeInv
<1> QED  BY <1>1, InitType, NextType, PTL DEF Spec

\* Whatever overlaps, every step stores ordered bounds.
LEMMA NextOrdered == TypeInv /\ BoundsOrdered /\ [Next]_vars => BoundsOrdered'
<1> SUFFICES ASSUME TypeInv, BoundsOrdered, [Next]_vars PROVE BoundsOrdered'
  OBVIOUS
<1>1. CASE resetBoundsChangedFlag \/ UNCHANGED vars
  BY <1>1 DEF resetBoundsChangedFlag, vars, BoundsOrdered
<1>2. ASSUME NEW w \in Writer, Write(w) PROVE BoundsOrdered'
  <2>1. CASE SwapSucceeds(w)
    <3>1. currentBounds \in Bounds /\ writer[w].value \in Value
      BY DEF TypeInv, TypeOK, WriterLocals
    <3> QED  BY <2>1, <3>1, WidenedIsOrdered DEF SwapSucceeds, BoundsOrdered
  <2>2. CASE ~SwapSucceeds(w)
    BY <1>2, <2>2 DEF Write, SomeWriteBegins,
                      WriteStep, WriteBegin, StoreSlot, LoadCurrent, WriteIsCovered, SwapFails,
                      FlagChange, BoundsOrdered
  <2> QED  BY <2>1, <2>2
<1>3. ASSUME NEW r \in Reader, ReadBegin(r) \/ ReadStep(r) PROVE BoundsOrdered'
  <2>1. CASE PublishBounds(r)
    <3>1. HasSnapshot(r)
      BY <2>1 DEF PublishBounds, HasSnapshot
    <3> QED  BY <2>1, <3>1, NewBoundsOrdered DEF PublishBounds, BoundsOrdered
  <2>2. CASE ~PublishBounds(r)
    BY <1>3, <2>2 DEF ReadBegin, ReadStep, GetBoundsBegin, GetWindowBoundsBegin, UseOldBounds,
       RecomputeWindow, CopySlot, SnapshotDone, LoadOldBounds, SetChanged, SetClean, ReturnBounds,
       BoundsOrdered
  <2> QED  BY <2>1, <2>2
<1>4. CASE MarkingResize \/ UnmarkedResize
  <2>1. currentBounds' = currentBounds \/ currentBounds' = EMPTY
    BY <1>4 DEF MarkingResize, enlargeBufferSize, shiftBuffer, clearBuffer, cropBuffer, cutBuffer,
       MarkDirty, UnmarkedResize, fillBuffer, thinData
  <2> QED  BY <2>1 DEF BoundsOrdered, IsOrdered, EMPTY
<1> QED  BY <1>1, <1>2, <1>3, <1>4 DEF Next, SharedNext, WriterNext

\* Whoever loads the bounds sees an interval, or the empty bounds it starts from.
THEOREM BoundsAlwaysOrdered == Spec => []BoundsOrdered
<1>1. Init => BoundsOrdered
  BY DEF Init, BoundsOrdered, IsOrdered, EMPTY
<1> QED  BY <1>1, InitType, NextType, NextOrdered, PTL DEF Spec
-----------------------------------------------------------------------------
(* What a step of a writer does, whoever else is there *)

\* The bounds only widen after a writer loaded them.
CurrentContained ==
    \A w \in Writer : writer[w].pc = "cas" => Contains(currentBounds, writer[w].current)

\* Every step of a writer leaves the bounds alone or widens them by its sample.
LEMMA WriteWidens ==
    ASSUME TypeInv, NEW w \in Writer, Write(w)
    PROVE  Contains(currentBounds', currentBounds)
<1>1. currentBounds \in Bounds /\ writer[w].value \in Value
  BY DEF TypeInv, TypeOK, WriterLocals
<1>2. CASE SwapSucceeds(w)
  BY <1>1, <1>2, WidenedContains DEF SwapSucceeds
<1>3. CASE ~SwapSucceeds(w)
  <2>1. currentBounds' = currentBounds
    BY <1>3 DEF Write, SomeWriteBegins,
                WriteStep, WriteBegin, StoreSlot, LoadCurrent, WriteIsCovered, SwapFails, FlagChange
  <2> QED  BY <1>1, <2>1, ContainsIsReflexive
<1> QED  BY <1>2, <1>3

\* What a writer loaded stays inside the bounds, which only widen.
LEMMA WriteKeepsContained ==
    ASSUME TypeInv, CurrentContained, NEW w \in Writer, Write(w)
    PROVE  CurrentContained'
<1>0. /\ writer \in [Writer -> WriterLocals] /\ currentBounds \in Bounds /\ currentBounds' \in Bounds
      /\ \A u \in Writer : writer[u].current \in Bounds
      /\ Contains(currentBounds', currentBounds)
  BY WriterType, WriteWidens DEF TypeInv, TypeOK, WriterLocals
<1> SUFFICES ASSUME NEW u \in Writer, writer'[u].pc = "cas"
             PROVE  Contains(currentBounds', writer'[u].current)
  BY DEF CurrentContained
<1>1. CASE writer'[u] = writer[u]
  BY <1>0, <1>1, ContainsIsTransitive DEF CurrentContained
<1>2. CASE writer'[u] # writer[u]
  <2>1. LoadCurrent(w) \/ SwapFails(w)
    BY <1>0, <1>2 DEF Write, SomeWriteBegins,
                      WriteStep, WriteBegin, StoreSlot, WriteIsCovered, SwapSucceeds, FlagChange,
                      IdleWriter, WriterLocals
  <2>2. writer'[u].current = currentBounds /\ currentBounds' = currentBounds
    BY <1>0, <1>2, <2>1 DEF LoadCurrent, SwapFails, WriterLocals
  <2> QED  BY <1>0, <2>2
<1> QED  BY <1>1, <1>2

\* A sample in the buffer is accounted for.
Accounted(i) == Covers(currentBounds, i) \/ InFlight(buffer[i + 1])

\* A step of a writer keeps the length of the buffer, the window and what is
\* accounted for; the slot it stores to becomes accounted for.
LEMMA WriteAccounts ==
    ASSUME TypeInv, CurrentContained, NEW w \in Writer, Write(w)
    PROVE  /\ Len(buffer') = Len(buffer)
           /\ WindowOf(currentBounds)' = WindowOf(currentBounds)
           /\ boundsDirty' = boundsDirty
           /\ \A i \in Slots(buffer) : buffer'[i + 1] # buffer[i + 1] \/ Accounted(i) => Accounted(i)'
<1>0. /\ buffer \in Seq(Value) /\ currentBounds \in Bounds
      /\ currentBounds' \in Bounds /\ Contains(currentBounds', currentBounds)
      /\ writer \in [Writer -> WriterLocals]
      /\ writer[w].value \in Value /\ writer[w].current \in Bounds
      /\ \A i \in Slots(buffer) : buffer[i + 1] \in Value
  BY WriterType, WriteWidens DEF TypeInv, TypeOK, WriterLocals, Slots
<1>9. boundsDirty' = boundsDirty
  BY DEF Write, SomeWriteBegins,
         WriteStep, WriteBegin, StoreSlot, LoadCurrent, WriteIsCovered, SwapSucceeds, SwapFails,
         FlagChange
<1>1. ASSUME NEW value \in Value, isInsideBounds(currentBounds, value)
      PROVE  isInsideBounds(currentBounds', value)
  BY <1>0, <1>1, ContainsIsTransitive
<1>2. ASSUME NEW value, InFlight(value)
      PROVE  InFlight(value)' \/ value = NaN \/ isInsideBounds(currentBounds', value)
  <2>1. PICK u \in Writer : writer[u].pc \in {"load", "cas"} /\ writer[u].value = value
    BY <1>2 DEF InFlight
  <2>2. CASE u # w
    <3>1. writer'[u] = writer[u]
      BY <1>0, <2>2 DEF Write, SomeWriteBegins, WriteStep, WriteBegin, StoreSlot, LoadCurrent, WriteIsCovered,
                        SwapSucceeds, SwapFails, FlagChange
    <3> QED  BY <2>1, <3>1 DEF InFlight
  <2>3. CASE u = w /\ (LoadCurrent(w) \/ SwapFails(w))
    <3>1. writer'[w].pc = "cas" /\ writer'[w].value = value
      BY <1>0, <2>1, <2>3 DEF LoadCurrent, SwapFails, WriterLocals
    <3> QED  BY <3>1 DEF InFlight
  <2>4. CASE u = w /\ WriteIsCovered(w)
    <3>1. value = NaN \/ isInsideBounds(writer[w].current, value)
      BY <1>0, <2>1, <2>4, WidenedContains DEF WriteIsCovered
    <3>2. Contains(currentBounds, writer[w].current) /\ value \in Value
      BY <1>0, <2>1, <2>4 DEF WriteIsCovered, CurrentContained
    <3> QED  BY <1>0, <1>1, <3>1, <3>2, ContainsIsTransitive
  <2>5. CASE u = w /\ SwapSucceeds(w)
    BY <1>0, <2>1, <2>5, WidenedContains DEF SwapSucceeds
  <2> QED
    BY <2>1, <2>2, <2>3, <2>4, <2>5 DEF Write, SomeWriteBegins, WriteStep, WriteBegin, StoreSlot, FlagChange
<1>3. ASSUME NEW i \in Slots(buffer), Accounted(i), buffer'[i + 1] = buffer[i + 1]
      PROVE  Accounted(i)'
  <2>1. buffer[i + 1] \in Value
    BY <1>0
  <2>2. CASE Covers(currentBounds, i)
    BY <1>1, <1>3, <2>1, <2>2 DEF Covers, Accounted
  <2>3. CASE InFlight(buffer[i + 1])
    <3>1. InFlight(buffer[i + 1])' \/ buffer[i + 1] = NaN \/ isInsideBounds(currentBounds', buffer[i + 1])
      <4> DEFINE value == buffer[i + 1]
      <4> HIDE DEF value
      <4>1. InFlight(value)
        BY <2>3 DEF value
      <4>2. (\E u \in Writer : writer'[u].pc \in {"load", "cas"} /\ writer'[u].value = value)
            \/ value = NaN \/ isInsideBounds(currentBounds', value)
        BY <1>2, <4>1 DEF InFlight
      <4> QED  BY <1>3, <4>2 DEF value, InFlight
    <3> QED  BY <1>3, <3>1 DEF Covers, Accounted
  <2> QED  BY <1>3, <2>2, <2>3 DEF Accounted
<1>4. CASE StoreSlot(w)
  <2>1. writer'[w].pc = "load" /\ writer'[w].value = writer[w].value /\ currentBounds' = currentBounds
    BY <1>0, <1>4 DEF StoreSlot, WriterLocals
  <2>2. Len(buffer') = Len(buffer)
        /\ \A i \in Slots(buffer) : buffer'[i + 1] \in {buffer[i + 1], writer[w].value}
    <3>1. buffer' = [buffer EXCEPT ![writer[w].index + 1] = writer[w].value]
      BY <1>4 DEF StoreSlot
    <3>2. writer[w].index + 1 \in Int
      BY <1>0, MaxLengthAssumption DEF WriterLocals
    <3>3. Len(buffer') = Len(buffer)
      BY <1>0, <3>1, <3>2, StoreKeepsType
    <3> QED  BY <1>0, <3>1, <3>3 DEF Slots
  <2>3. ASSUME NEW i \in Slots(buffer), buffer'[i + 1] = writer[w].value
        PROVE  Accounted(i)'
    BY <2>1, <2>3 DEF Accounted, InFlight
  <2> QED  BY <1>0, <1>9, <1>3, <2>1, <2>2, <2>3 DEF WindowOf, Slots
<1>5. CASE ~StoreSlot(w)
  <2>1. buffer' = buffer
    BY <1>5 DEF Write, SomeWriteBegins,
                WriteStep, WriteBegin, LoadCurrent, WriteIsCovered, SwapSucceeds, SwapFails, FlagChange
  <2>2. currentBounds'.startIndex = currentBounds.startIndex /\ currentBounds'.endIndex = currentBounds.endIndex
    <3>1. CASE SwapSucceeds(w)
      BY <1>0, <3>1, WidenedContains DEF SwapSucceeds
    <3>2. CASE ~SwapSucceeds(w)
      BY <1>5, <3>2 DEF Write, SomeWriteBegins,
                      WriteStep, WriteBegin, LoadCurrent, WriteIsCovered, SwapFails, FlagChange
    <3> QED  BY <3>1, <3>2
  <2> QED  BY <1>0, <1>9, <1>3, <2>1, <2>2 DEF WindowOf
<1> QED  BY <1>4, <1>5
-----------------------------------------------------------------------------
(* Recomputation kept apart from writers *)

\* A reader that recomputes is alone.
RecomputesAlone ==
    \A r \in Reader : Recomputing(r) =>
        WritersIdle /\ \A other \in Reader \ {r} : reader[other].pc = "idle"

\* A reader has copied nothing when it decides whether to recompute.
CheckStarts ==
    \A r \in Reader : reader[r].pc = "check" =>
        reader[r].window \in Windows /\ reader[r].snapshot = <<>>

\* What a reader has copied is what the buffer holds.
SnapshotMatches ==
    \A r \in Reader :
        /\ reader[r].pc = "snapshot" =>
              /\ Len(reader[r].snapshot) <= Len(buffer)
              /\ \A i \in 1 .. Len(reader[r].snapshot) : reader[r].snapshot[i] = buffer[i]
        /\ HasSnapshot(r) => reader[r].snapshot = buffer

WindowCovered == \A i \in WindowOf(currentBounds) : Covers(currentBounds, i)

PublishedCovers ==
    \A r \in Reader : reader[r].pc \in {"setChanged", "setClean"} => WindowCovered

ReaderInv ==
    RecomputesAlone /\ CheckStarts /\ SnapshotMatches /\ PublishedCovers /\ CachedBoundsValid

GuardedInv == TypeInv /\ ReaderInv /\ CurrentContained /\ BoundsCoverWindow

\* The constructor leaves the bounds marked dirty, so they promise nothing yet.
LEMMA GuardedInit == Init => GuardedInv
<1> SUFFICES ASSUME Init PROVE GuardedInv
  OBVIOUS
<1>1. WritersIdle /\ ReadersIdle /\ boundsDirty
  BY DEF Init, WritersIdle, ReadersIdle, IdleWriter, IdleReader
<1>2. ReaderInv
  BY <1>1 DEF ReadersIdle, ReaderInv, RecomputesAlone, Recomputing, CheckStarts, SnapshotMatches,
              PublishedCovers, CachedBoundsValid, UsesOld, HasSnapshot
<1> QED
  BY <1>1, <1>2, InitType DEF GuardedInv, CurrentContained, BoundsCoverWindow, WritersIdle

\* The slots of the window a reader asks for are slots of the buffer.
LEMMA AskedIsInside ==
    ASSUME TypeInv, NEW r \in Reader, reader[r].pc = "check", reader[r].window \in Windows
    PROVE  WindowSlots(reader[r].window[1], reader[r].window[2], Len(buffer)) \subseteq Slots(buffer)
<1> DEFINE window == reader[r].window
<1>1. window[1] \in 0 .. MaxLength - 1 /\ window[2] \in 0 .. MaxLength - 1 /\ window # <<>>
  BY WindowsAssumption
<1>2. window[1] < Len(buffer) /\ window[2] < Len(buffer) /\ Len(buffer) \in Nat
  BY <1>1 DEF TypeInv, TypeOK, WindowInBuffer
<1> QED  BY <1>1, <1>2, WindowInside, MaxLengthAssumption DEF Slots

\* A writer only runs while no reader recomputes.  What it stores, the readers
\* that hold old bounds remember; what it does not store stays covered by them.
LEMMA GuardedWriterInv ==
    ASSUME GuardedInv, NEW w \in Writer, Write(w), NoneRecomputes \/ WriteStep(w)
    PROVE  GuardedInv'
<1>0. /\ reader \in [Reader -> ReaderLocals] /\ writer[w].value \in Value
      /\ writer[w].index + 1 \in Int /\ buffer \in Seq(Value)
  BY MaxLengthAssumption DEF GuardedInv, TypeInv, TypeOK, WriterLocals
<1>1. NoneRecomputes
  <2>1. WriteStep(w) => writer[w].pc # "idle"
    BY DEF WriteStep, StoreSlot, LoadCurrent, WriteIsCovered, SwapSucceeds, SwapFails, FlagChange
  <2> QED  BY <2>1 DEF GuardedInv, ReaderInv, RecomputesAlone, NoneRecomputes, WritersIdle
<1>2. /\ boundsDirty' = boundsDirty
      /\ \A r \in Reader :
            /\ reader'[r].pc = reader[r].pc /\ reader'[r].window = reader[r].window
            /\ reader'[r].old = reader[r].old /\ reader'[r].snapshot = reader[r].snapshot
  <2>1. CASE StoreSlot(w)
    BY <1>0, <2>1, StoredKeepsReaders DEF StoreSlot
  <2>2. CASE ~StoreSlot(w)
    BY <2>2 DEF Write, SomeWriteBegins, WriteStep, WriteBegin, LoadCurrent, WriteIsCovered, SwapSucceeds,
                SwapFails, FlagChange
  <2> QED  BY <2>1, <2>2
<1>3. NoneRecomputes' /\ CheckStarts'
  <2>1. NoneRecomputes'
    BY <1>1, <1>2 DEF NoneRecomputes, Recomputing, UsesOld, MatchesWindow
  <2> QED  BY <1>2, <2>1 DEF GuardedInv, ReaderInv, CheckStarts
<1>4. CachedBoundsValid'
  <2> SUFFICES ASSUME NEW r \in Reader, UsesOld(r)',
                      NEW i \in WindowSlots(reader[r].window[1], reader[r].window[2], Len(buffer))
               PROVE  Covers(reader[r].old, i)' \/ buffer'[i + 1] \in reader'[r].meanwhile
    <3>1. Len(buffer') = Len(buffer)
      BY WriteAccounts DEF GuardedInv
    <3> QED  BY <1>2, <3>1 DEF CachedBoundsValid
  <2>1. UsesOld(r) /\ reader[r].pc = "check"
    BY <1>2 DEF UsesOld, MatchesWindow
  <2>2. Covers(reader[r].old, i) \/ buffer[i + 1] \in reader[r].meanwhile
    BY <2>1 DEF GuardedInv, ReaderInv, CachedBoundsValid
  <2>3. CASE StoreSlot(w)
    <3>1. reader'[r].meanwhile = reader[r].meanwhile \cup {writer[w].value}
      BY <1>0, <2>1, <2>3, StoredKeepsReaders
    <3>2. buffer'[i + 1] = buffer[i + 1] \/ buffer'[i + 1] = writer[w].value
      <4>1. buffer' = [buffer EXCEPT ![writer[w].index + 1] = writer[w].value]
        BY <2>3 DEF StoreSlot
      <4>2. i \in Int /\ i + 1 \in 1 .. Len(buffer)
        <5>1. TypeInv /\ reader[r].window \in Windows
          BY <2>1 DEF GuardedInv, ReaderInv, CheckStarts
        <5>2. i \in Slots(buffer)
          BY <2>1, <5>1, AskedIsInside
        <5> QED  BY <1>0, <5>2 DEF Slots
      <4> QED  BY <1>0, <4>1, <4>2
    <3> QED  BY <1>2, <2>2, <3>1, <3>2 DEF Covers
  <2>4. CASE ~StoreSlot(w)
    <3>1. UNCHANGED <<buffer, reader>>
      BY <2>4 DEF Write, SomeWriteBegins, WriteStep, WriteBegin, LoadCurrent, WriteIsCovered, SwapSucceeds,
                  SwapFails, FlagChange
    <3> QED  BY <2>2, <3>1 DEF Covers
  <2> QED  BY <2>3, <2>4
<1>5. ReaderInv'
  <2>1. \A r \in Reader : reader'[r].pc \in {"idle", "return", "check"}
    BY <1>3 DEF NoneRecomputes, Recomputing, UsesOld
  <2> QED
    BY <1>3, <1>4, <2>1
       DEF NoneRecomputes, ReaderInv, RecomputesAlone, SnapshotMatches, PublishedCovers, HasSnapshot
<1>6. TypeInv' /\ CurrentContained'
  BY WriterType, WriteKeepsContained DEF GuardedInv
<1>7. BoundsCoverWindow'
  <2>1. \A i \in WindowOf(currentBounds) : i \in Slots(buffer)
    BY DEF WindowOf
  <2> QED  BY <2>1, WriteAccounts DEF GuardedInv, BoundsCoverWindow, Accounted
<1> QED  BY <1>5, <1>6, <1>7 DEF GuardedInv

\* Old bounds that are clean when they are loaded account for their window.
LEMMA LoadedIsValid ==
    ASSUME GuardedInv, NEW r \in Reader, NEW window \in Windows, GetWindowBoundsBegin(r, window), UsesOld(r)',
           NEW i \in WindowSlots(reader'[r].window[1], reader'[r].window[2], Len(buffer'))
    PROVE  Covers(reader[r].old, i)' \/ buffer'[i + 1] \in reader'[r].meanwhile
<1>1. /\ reader'[r].window = window /\ reader'[r].old = currentBounds /\ reader'[r].pc = "check"
      /\ reader'[r].meanwhile = {value \in Value : InFlight(value)}
      /\ UNCHANGED <<buffer, currentBounds, boundsDirty, writer>>
  BY DEF GetWindowBoundsBegin, GuardedInv, TypeInv, TypeOK
<1>2. i \in Slots(buffer) /\ buffer[i + 1] \in Value
  <2>1. window[1] \in 0 .. MaxLength - 1 /\ window[2] \in 0 .. MaxLength - 1
    BY WindowsAssumption
  <2>2. window[1] < Len(buffer) /\ window[2] < Len(buffer) /\ Len(buffer) \in Nat /\ buffer \in Seq(Value)
    BY <2>1 DEF GuardedInv, TypeInv, TypeOK, GetWindowBoundsBegin
  <2>3. i \in Slots(buffer)
    BY <1>1, <2>1, <2>2, WindowInside, MaxLengthAssumption DEF Slots
  <2> QED  BY <2>2, <2>3 DEF Slots
<1>3. ~boundsDirty /\ i \in WindowOf(currentBounds)
  BY <1>1, <1>2 DEF UsesOld, MatchesWindow, WindowOf
<1>4. Covers(currentBounds, i) \/ InFlight(buffer[i + 1])
  BY <1>3 DEF GuardedInv, BoundsCoverWindow
<1> QED  BY <1>1, <1>2, <1>4 DEF Covers

\* A call that hands out the bounds it found changes nothing but where it is.
LEMMA CachedReaderInv ==
    ASSUME GuardedInv, NEW r \in Reader,
           (NoneRecomputes /\ CachedReadBegin(r)) \/ UseOldBounds(r) \/ ReturnBounds(r)
    PROVE  GuardedInv'
<1>0. reader \in [Reader -> ReaderLocals]
  BY DEF GuardedInv, TypeInv, TypeOK
<1>1. UNCHANGED <<buffer, currentBounds, boundsDirty, writer, seen>>
      /\ \A other \in Reader \ {r} : reader'[other] = reader[other]
  BY <1>0 DEF CachedReadBegin, GetBoundsBegin, GetWindowBoundsBegin, UseOldBounds, ReturnBounds
<1>2. NoneRecomputes
  BY DEF UseOldBounds, ReturnBounds, UsesOld, Recomputing, NoneRecomputes, GuardedInv, ReaderInv,
         RecomputesAlone
<1>3. ~Recomputing(r)' /\ (reader'[r].pc = "check" =>
         reader'[r].window \in Windows /\ reader'[r].snapshot = <<>>)
  <2>1. CASE GetBoundsBegin(r) /\ ~boundsDirty
    BY <1>0, <2>1 DEF GetBoundsBegin, IdleReader, Recomputing, UsesOld
  <2>2. ASSUME NEW window \in Windows, MatchesWindow(currentBounds, window), ~boundsDirty,
               GetWindowBoundsBegin(r, window)
        PROVE  ~Recomputing(r)' /\ reader'[r].window \in Windows /\ reader'[r].snapshot = <<>>
    BY <1>0, <2>2 DEF GetWindowBoundsBegin, Recomputing, UsesOld, MatchesWindow
  <2>3. CASE UseOldBounds(r) \/ ReturnBounds(r)
    BY <1>0, <2>3 DEF UseOldBounds, ReturnBounds, IdleReader, Recomputing
  <2> QED  BY <2>1, <2>2, <2>3 DEF CachedReadBegin
<1>4. NoneRecomputes' /\ CheckStarts'
  <2>1. \A other \in Reader \ {r} : ~Recomputing(other)'
    BY <1>1, <1>2 DEF NoneRecomputes, Recomputing, UsesOld, MatchesWindow
  <2> QED  BY <1>1, <1>3, <2>1 DEF NoneRecomputes, CheckStarts, GuardedInv, ReaderInv
<1>5. CachedBoundsValid'
  <2> SUFFICES ASSUME NEW q \in Reader, UsesOld(q)',
                      NEW i \in WindowSlots(reader'[q].window[1], reader'[q].window[2], Len(buffer'))
               PROVE  Covers(reader[q].old, i)' \/ buffer'[i + 1] \in reader'[q].meanwhile
    BY DEF CachedBoundsValid
  <2>1. CASE q # r
    BY <1>1, <2>1 DEF UsesOld, MatchesWindow, Covers, GuardedInv, ReaderInv, CachedBoundsValid
  <2>2. CASE q = r
    <3>1. reader'[r].pc = "check"
      BY <2>2 DEF UsesOld
    <3>2. \E window \in Windows : GetWindowBoundsBegin(r, window)
      BY <1>0, <3>1 DEF CachedReadBegin, GetBoundsBegin, UseOldBounds, ReturnBounds, IdleReader
    <3> QED  BY <2>2, <3>2, LoadedIsValid
  <2> QED  BY <2>1, <2>2
<1>6. ReaderInv'
  <2>1. \A q \in Reader : reader'[q].pc \in {"idle", "return", "check"}
    BY <1>4 DEF NoneRecomputes, Recomputing, UsesOld
  <2> QED
    BY <1>4, <1>5, <2>1
       DEF NoneRecomputes, ReaderInv, RecomputesAlone, SnapshotMatches, PublishedCovers, HasSnapshot
<1>7. TypeInv'
  BY ReaderType DEF GuardedInv, CachedReadBegin, ReadBegin, ReadStep
<1>8. CurrentContained' /\ BoundsCoverWindow'
  BY <1>1 DEF GuardedInv, CurrentContained, BoundsCoverWindow, WindowOf, Covers, InFlight
<1> QED  BY <1>6, <1>7, <1>8 DEF GuardedInv

\* A reader that recomputes is alone: the buffer stands still while it copies,
\* and what it publishes covers the window of the buffer.
LEMMA RecomputingReaderInv ==
    ASSUME GuardedInv, NEW r \in Reader,
           \/ Alone /\ ReadBegin(r)
           \/ ReadStep(r) /\ ~UseOldBounds(r) /\ ~ReturnBounds(r)
    PROVE  GuardedInv'
<1>0. /\ reader \in [Reader -> ReaderLocals] /\ buffer \in Seq(Value)
      /\ \A q \in Reader : reader[q].snapshot \in Seq(Value)
  BY DEF GuardedInv, TypeInv, TypeOK, ReaderLocals
<1>1. WritersIdle /\ \A other \in Reader \ {r} : reader[other].pc = "idle"
  <2>1. ReadStep(r) /\ ~UseOldBounds(r) /\ ~ReturnBounds(r) => Recomputing(r)
    BY DEF ReadStep, RecomputeWindow, CopySlot, SnapshotDone, LoadOldBounds,
           PublishBounds, SetChanged, SetClean, Recomputing, UsesOld
  <2> QED  BY <2>1 DEF GuardedInv, ReaderInv, RecomputesAlone, Alone, ReadersIdle
<1>2. UNCHANGED <<buffer, writer, seen>> /\ \A other \in Reader \ {r} : reader'[other] = reader[other]
  BY <1>0 DEF ReadBegin, GetBoundsBegin, GetWindowBoundsBegin, ReadStep, UseOldBounds, RecomputeWindow,
              CopySlot, SnapshotDone, LoadOldBounds, PublishBounds, SetChanged, SetClean, ReturnBounds
<1>3. TypeInv'
  BY ReaderType DEF GuardedInv
<1>4. CurrentContained' /\ RecomputesAlone'
  BY <1>1, <1>2 DEF WritersIdle, CurrentContained, RecomputesAlone, Recomputing
<1>5. reader'[r].pc # "check" => CheckStarts' /\ CachedBoundsValid'
  BY <1>1, <1>2 DEF CheckStarts, CachedBoundsValid, UsesOld
<1>6. \A value : ~InFlight(value)
  BY <1>1 DEF WritersIdle, InFlight
<1> SUFFICES /\ SnapshotMatches' /\ PublishedCovers' /\ BoundsCoverWindow'
             /\ CheckStarts' /\ CachedBoundsValid'
  BY <1>3, <1>4 DEF GuardedInv, ReaderInv
<1>7. UNCHANGED <<currentBounds, boundsDirty>> => BoundsCoverWindow'
  BY <1>2 DEF GuardedInv, BoundsCoverWindow, WindowOf, Covers, InFlight
<1> USE DEF SnapshotMatches, PublishedCovers, HasSnapshot
<1>8. CASE GetBoundsBegin(r)
  <2>1. reader'[r].pc \in {"snapshot", "return"} /\ reader'[r].snapshot = <<>>
    BY <1>0, <1>8 DEF GetBoundsBegin, IdleReader
  <2> QED  BY <1>0, <1>1, <1>2, <1>5, <1>7, <1>8, <2>1 DEF GetBoundsBegin
<1>9. ASSUME NEW window \in Windows, GetWindowBoundsBegin(r, window)
      PROVE  /\ SnapshotMatches' /\ PublishedCovers' /\ BoundsCoverWindow'
             /\ CheckStarts' /\ CachedBoundsValid'
  <2>1. reader'[r].pc = "check" /\ reader'[r].snapshot = <<>> /\ reader'[r].window \in Windows
    BY <1>0, <1>9 DEF GetWindowBoundsBegin
  <2>2. CachedBoundsValid'
    BY <1>1, <1>2, <1>9, LoadedIsValid DEF CachedBoundsValid, UsesOld
  <2> QED  BY <1>1, <1>2, <1>7, <1>9, <2>1, <2>2 DEF GetWindowBoundsBegin, CheckStarts
<1>11. CASE RecomputeWindow(r)
  <2>1. reader'[r].pc = "snapshot" /\ reader'[r].snapshot = <<>>
    BY <1>0, <1>11 DEF RecomputeWindow, ReaderLocals, GuardedInv, ReaderInv, CheckStarts
  <2> QED  BY <1>0, <1>1, <1>2, <1>5, <1>7, <1>11, <2>1 DEF RecomputeWindow
<1>12. CASE CopySlot(r)
  <2> DEFINE old == reader[r].snapshot
             new == Append(old, buffer[Len(old) + 1])
  <2>1. reader'[r].pc = "snapshot" /\ reader'[r].snapshot = new
    BY <1>0, <1>12 DEF CopySlot, ReaderLocals
  <2>2. Len(old) < Len(buffer) /\ \A i \in 1 .. Len(old) : old[i] = buffer[i]
    BY <1>12 DEF CopySlot, GuardedInv, ReaderInv
  <2>3. Len(new) <= Len(buffer) /\ \A i \in 1 .. Len(new) : new[i] = buffer[i]
    <3>1. old \in Seq(Value) /\ buffer[Len(old) + 1] \in Value
      BY <1>0, <2>2
    <3> QED  BY <1>0, <2>2, <3>1
  <2> QED  BY <1>1, <1>2, <1>5, <1>7, <1>12, <2>1, <2>3 DEF CopySlot
<1>13. CASE SnapshotDone(r)
  <2>1. reader'[r].pc \in {"loadOld", "publish"} /\ reader'[r].snapshot = reader[r].snapshot
    BY <1>0, <1>13 DEF SnapshotDone, ReaderLocals
  <2>2. reader[r].snapshot = buffer
    <3>1. /\ Len(reader[r].snapshot) = Len(buffer)
          /\ \A i \in 1 .. Len(reader[r].snapshot) : reader[r].snapshot[i] = buffer[i]
      BY <1>13 DEF SnapshotDone, GuardedInv, ReaderInv
    <3> QED  BY <1>0, <3>1, SeqEqual
  <2> QED  BY <1>1, <1>2, <1>5, <1>7, <1>13, <2>1, <2>2 DEF SnapshotDone
<1>14. CASE LoadOldBounds(r)
  <2>1. reader'[r].pc = "publish" /\ reader'[r].snapshot = reader[r].snapshot
    BY <1>0, <1>14 DEF LoadOldBounds, ReaderLocals
  <2>2. reader[r].snapshot = buffer
    BY <1>14 DEF LoadOldBounds, GuardedInv, ReaderInv
  <2> QED  BY <1>1, <1>2, <1>5, <1>7, <1>14, <2>1, <2>2 DEF LoadOldBounds
<1>15. CASE PublishBounds(r)
  <2>1. /\ reader'[r].pc = "setChanged" /\ reader'[r].snapshot = reader[r].snapshot
        /\ currentBounds' = newBounds(r) /\ reader[r].pc = "publish"
    BY <1>0, <1>15 DEF PublishBounds, ReaderLocals
  <2>2. reader[r].snapshot = buffer
    BY <2>1 DEF GuardedInv, ReaderInv
  <2>3. \A i \in WindowSlots(currentBounds'.startIndex, currentBounds'.endIndex, Len(buffer)) :
           buffer[i + 1] = NaN \/ isInsideBounds(currentBounds', buffer[i + 1])
    BY <2>1, <2>2, NewBoundsCover DEF GuardedInv
  <2>4. WindowCovered'
    BY <1>2, <2>3 DEF WindowCovered, WindowOf, Covers
  <2>5. BoundsCoverWindow'
    BY <2>4 DEF WindowCovered, BoundsCoverWindow
  <2> QED  BY <1>1, <1>2, <1>5, <2>1, <2>2, <2>4, <2>5
<1>16. CASE SetChanged(r)
  <2>1. reader'[r].pc \in {"return", "setClean"}
    BY <1>0, <1>16 DEF SetChanged, IdleReader
  <2>2. WindowCovered'
    BY <1>2, <1>16 DEF SetChanged, GuardedInv, ReaderInv, WindowCovered, WindowOf, Covers
  <2> QED  BY <1>1, <1>2, <1>5, <1>7, <1>16, <2>1, <2>2 DEF SetChanged
<1>17. CASE SetClean(r)
  <2>1. reader'[r].pc = "idle"
    BY <1>0, <1>17 DEF SetClean, IdleReader
  <2>2. WindowCovered'
    BY <1>2, <1>17 DEF SetClean, GuardedInv, ReaderInv, WindowCovered, WindowOf, Covers
  <2> QED  BY <1>1, <1>2, <1>5, <2>1, <2>2 DEF WindowCovered, BoundsCoverWindow
<1> QED
  BY <1>8, <1>9, <1>11, <1>12, <1>13, <1>14, <1>15, <1>16, <1>17 DEF ReadBegin, ReadStep

\* An operation that replaces the array leaves the bounds marked dirty.
LEMMA GuardedResizeInv ==
    ASSUME GuardedInv, Alone, MarkingResize \/ (boundsDirty /\ UnmarkedResize)
    PROVE  GuardedInv'
<1>1. boundsDirty' /\ UNCHANGED <<writer, reader>>
  BY DEF MarkingResize, enlargeBufferSize, shiftBuffer, clearBuffer, cropBuffer, cutBuffer, MarkDirty,
         UnmarkedResize, fillBuffer, thinData
<1>2. WritersIdle' /\ ReadersIdle'
  BY <1>1 DEF Alone, WritersIdle, ReadersIdle
<1>3. ReaderInv'
  BY <1>2 DEF ReadersIdle, ReaderInv, RecomputesAlone, Recomputing, CheckStarts, SnapshotMatches,
              PublishedCovers, CachedBoundsValid, UsesOld, HasSnapshot
<1>4. CurrentContained' /\ BoundsCoverWindow'
  BY <1>1, <1>2 DEF WritersIdle, CurrentContained, BoundsCoverWindow
<1>5. TypeInv'
  BY ResizeType DEF GuardedInv
<1> QED  BY <1>3, <1>4, <1>5 DEF GuardedInv

\* GuardedInv is inductive: writers, readers and resizing operations keep it.
LEMMA GuardedStep == GuardedInv /\ [GuardedNext]_vars => GuardedInv'
<1> SUFFICES ASSUME GuardedInv, [GuardedNext]_vars PROVE GuardedInv'
  OBVIOUS
<1>1. CASE resetBoundsChangedFlag \/ UNCHANGED vars
  <2>1. UNCHANGED <<buffer, currentBounds, boundsDirty, writer, reader>>
    BY <1>1 DEF resetBoundsChangedFlag, vars
  <2>2. TypeInv'
    BY <1>1, NextType DEF Next, SharedNext, WriterNext, GuardedInv
  <2>3. ReaderInv'
    BY <2>1 DEF GuardedInv, ReaderInv, RecomputesAlone, Recomputing, UsesOld, MatchesWindow, CheckStarts,
       SnapshotMatches, PublishedCovers, CachedBoundsValid, HasSnapshot, WindowCovered, WindowOf, Covers,
       WritersIdle
  <2> QED
    BY <2>1, <2>2, <2>3 DEF GuardedInv, CurrentContained, BoundsCoverWindow, WindowOf, Covers, InFlight
<1>2. ASSUME NEW w \in Writer, Write(w), NoneRecomputes \/ WriteStep(w)
      PROVE  GuardedInv'
  BY <1>2, GuardedWriterInv
<1>3. ASSUME NEW r \in Reader,
             (Alone /\ ReadBegin(r)) \/ (NoneRecomputes /\ CachedReadBegin(r)) \/ ReadStep(r)
      PROVE  GuardedInv'
  BY <1>3, CachedReaderInv, RecomputingReaderInv
<1> QED
  BY <1>1, <1>2, <1>3, GuardedResizeInv DEF GuardedNext, Write

\* When recomputations are kept apart from writers, bounds that are not marked
\* dirty account for every sample of their window, however the writers overlap.
THEOREM GuardedBoundsCover == GuardedSpec => []BoundsCoverWindow
<1>1. GuardedInv => BoundsCoverWindow
  BY DEF GuardedInv
<1> QED  BY <1>1, GuardedInit, GuardedStep, PTL DEF GuardedSpec

\* Then the bounds getWindowBounds returns without recomputing account for the
\* window it was asked for, whatever was written since it loaded them: only
\* samples whose write overlaps the call may be missing.
THEOREM GuardedCacheValid == GuardedSpec => []CachedBoundsValid
<1>1. GuardedInv => CachedBoundsValid
  BY DEF GuardedInv, ReaderInv
<1> QED  BY <1>1, GuardedInit, GuardedStep, PTL DEF GuardedSpec
-----------------------------------------------------------------------------
(* Writers and a poller of the changed flag *)

WriterNextInv == TypeInv /\ CurrentContained /\ ChangeSignalled /\ WrittenIsCovered

\* What the writers maintain holds of a new buffer, whose samples are zero.
LEMMA WriterSpecInit == Init => WriterNextInv
<1> SUFFICES ASSUME Init PROVE WriterNextInv
  OBVIOUS
<1>1. CurrentContained /\ ChangeSignalled
  BY DEF Init, CurrentContained, ChangeSignalled, IdleWriter
<1>2. WrittenIsCovered
  BY MaxLengthAssumption DEF Init, WrittenIsCovered, Filled, Slots
<1> QED  BY <1>1, <1>2, InitType DEF WriterNextInv

\* A writer that moves the bounds is about to flag them, and does.
LEMMA WriteSignals ==
    ASSUME TypeInv, ChangeSignalled, NEW w \in Writer, Write(w)
    PROVE  ChangeSignalled'
<1>0. writer \in [Writer -> WriterLocals]
  BY DEF TypeInv, TypeOK
<1>1. CASE SwapSucceeds(w)
  <2>1. writer'[w].pc = "flag"
    BY <1>0, <1>1 DEF SwapSucceeds, IdleWriter
  <2> QED  BY <2>1 DEF ChangeSignalled
<1>2. CASE FlagChange(w)
  BY <1>2 DEF FlagChange, ChangeSignalled
<1>3. CASE ~SwapSucceeds(w) /\ ~FlagChange(w)
  <2>1. /\ UNCHANGED <<currentBounds, boundsChanged, seen>>
        /\ \A u \in Writer : writer[u].pc = "flag" => writer'[u].pc = "flag"
    BY <1>0, <1>3 DEF Write, SomeWriteBegins,
                      WriteStep, WriteBegin, StoreSlot, LoadCurrent, WriteIsCovered, SwapFails
  <2> QED  BY <2>1 DEF ChangeSignalled
<1> QED  BY <1>1, <1>2, <1>3

\* The writers and the poller maintain it.
LEMMA WriterSpecStep == WriterNextInv /\ [WriterNext]_vars => WriterNextInv'
<1> SUFFICES ASSUME WriterNextInv, [WriterNext]_vars PROVE WriterNextInv'
  OBVIOUS
<1>1. TypeInv'
  BY NextType DEF WriterNextInv, Next, SharedNext
<1>2. CASE resetBoundsChangedFlag
  <2>1. UNCHANGED <<buffer, currentBounds, writer>> /\ seen' = currentBounds
    BY <1>2 DEF resetBoundsChangedFlag
  <2> QED  BY <1>1, <2>1 DEF WriterNextInv, CurrentContained, ChangeSignalled, WrittenIsCovered,
                Covers, InFlight
<1>3. CASE UNCHANGED vars
  BY <1>1, <1>3 DEF vars, WriterNextInv, CurrentContained, ChangeSignalled, WrittenIsCovered,
                Covers, InFlight
<1>4. ASSUME NEW w \in Writer, Write(w)
      PROVE  WriterNextInv'
  <2>1. CurrentContained'
    BY <1>4, WriteKeepsContained DEF WriterNextInv
  <2>2. WrittenIsCovered'
    <3>1. Slots(buffer)' = Slots(buffer)
      BY <1>4, WriteAccounts DEF WriterNextInv, Slots
    <3>2. ASSUME NEW i \in Slots(buffer), buffer'[i + 1] # 0
          PROVE  Accounted(i)'
      <4>1. buffer'[i + 1] # buffer[i + 1] \/ Accounted(i)
        BY <3>2 DEF WriterNextInv, WrittenIsCovered, Accounted
      <4> QED  BY <1>4, <4>1, WriteAccounts DEF WriterNextInv
    <3> QED  BY <3>1, <3>2 DEF WrittenIsCovered, Accounted
  <2> QED  BY <1>1, <1>4, <2>1, <2>2, WriteSignals DEF WriterNextInv
<1> QED  BY <1>2, <1>3, <1>4 DEF WriterNext

\* Among writers and a poller, no change of the bounds since the last reset of
\* the flag goes without the flag, however the reset races the writes.
THEOREM WriterChangeSignalled == WriterSpec => []ChangeSignalled
<1>1. WriterNextInv => ChangeSignalled
  BY DEF WriterNextInv
<1> QED  BY <1>1, WriterSpecInit, WriterSpecStep, PTL DEF WriterSpec

\* Among writers, no writer overwrites the widening of another.
THEOREM WriterCovered == WriterSpec => []WrittenIsCovered
<1>1. WriterNextInv => WrittenIsCovered
  BY DEF WriterNextInv
<1> QED  BY <1>1, WriterSpecInit, WriterSpecStep, PTL DEF WriterSpec

\* Among writers, the bounds never get narrower.
THEOREM WriterBoundsOnlyWiden == WriterSpec => BoundsOnlyWiden
<1>1. WriterNextInv /\ [WriterNext]_vars => [Contains(currentBounds', currentBounds)]_vars
  <2> SUFFICES ASSUME WriterNextInv, WriterNext PROVE Contains(currentBounds', currentBounds)
    BY DEF vars
  <2>1. CASE resetBoundsChangedFlag
    BY <2>1, ContainsIsReflexive DEF resetBoundsChangedFlag, WriterNextInv, TypeInv, TypeOK
  <2> QED  BY <2>1, WriteWidens DEF WriterNext, WriterNextInv
<1> QED  BY <1>1, WriterSpecInit, WriterSpecStep, PTL DEF WriterSpec, BoundsOnlyWiden
=============================================================================
