--------------------------- MODULE YoBufferProofs ---------------------------
(***************************************************************************)
(* Whatever is recorded, moved, marked and rearranged, the indices of a    *)
(* YoBuffer stay inside its arrays and the entries keep its size; whatever *)
(* moves the index, the variables and the listeners follow; and a buffer   *)
(* that is used as a recorder implements the list of frames of             *)
(* RecordedHistory.  For every set of variables and samples and every size.*)
(***************************************************************************)
EXTENDS YoBufferProcessor, YoBufferHistory, SequenceProofs

\* Inductive as it stands: each part needs the others, since the indices decide
\* which samples a rearrangement reads and the size of what it builds.
Inv == IndicesInBuffer /\ EntriesMatchBufferSize

\* The arrays of some variables, all of one size.
Arrays(data, size) ==
    DOMAIN data \subseteq Variable /\ \A v \in DOMAIN data : data[v] \in [1 .. size -> Value]

\* What a listener may have heard.
Hearings == {<<>>} \cup {<<i>> : i \in Int}

\* The parts of Inv, as the proofs use them.
Parts ==
    /\ bufferSize \in Size /\ bufferSize \in Nat \ {0}
    /\ inPoint \in Slot /\ currentIndex \in Slot /\ outPoint \in -1 .. (bufferSize - 1)
    /\ lockIndex \in BOOLEAN /\ keyPoints \in Seq(Nat)
    /\ Arrays(entries, bufferSize) /\ variables \in Frame /\ heard \in Hearings
-----------------------------------------------------------------------------
(* The arithmetic of the indices *)

\* A remainder by a positive divisor.
LEMMA RemainderInRange ==
    ASSUME NEW a \in Int, NEW b \in Nat \ {0}
    PROVE  a % b \in 0 .. (b - 1)
OBVIOUS

\* A slot of the array, counted from 1.
LEMMA SlotIsPosition ==
    ASSUME NEW b \in Nat, NEW k \in 0 .. (b - 1)
    PROVE  k + 1 \in 1 .. b
OBVIOUS

\* The remainder of C++, after what is negative was replaced by 0.
LEMMA NonNegativeInRange ==
    ASSUME NEW a \in Int, NEW b \in Nat \ {0}
    PROVE  NonNegative(CMod(a, b)) \in 0 .. (b - 1)
<1>1. CASE a >= 0
  BY <1>1, RemainderInRange DEF NonNegative, CMod
<1>2. CASE ~(a >= 0)
  <2>1. (-a) % b \in 0 .. (b - 1)
    BY RemainderInRange
  <2> QED  BY <1>2, <2>1 DEF NonNegative, CMod
<1> QED  BY <1>1, <1>2

\* setCurrentIndex lands inside the buffer.
LEMMA LandedInRange ==
    ASSUME NEW index \in Int, NEW size \in Nat \ {0}
    PROVE  Landed(index, size) \in 0 .. (size - 1)
BY DEF Landed

\* incrementIndex computes a number, whatever the window and the step.
LEMMA SteppedIsInteger ==
    ASSUME NEW index \in Int, NEW stepSize \in Int, NEW in \in Int, NEW out \in Int, NEW size
    PROVE  Stepped(index, stepSize, in, out, size) \in Int
BY DEF Stepped

\* A shifted out-point is a slot, even from -1.
LEMMA ShiftedOutInRange ==
    ASSUME NEW size \in Nat \ {0}, NEW out \in -1 .. (size - 1), NEW shiftIndex \in Int,
           ShiftAccepted(shiftIndex, size)
    PROVE  CMod(out - shiftIndex + size, size) \in 0 .. (size - 1)
<1>1. out - shiftIndex + size >= 0 /\ out - shiftIndex + size \in Int
  BY DEF ShiftAccepted
<1> QED  BY <1>1, RemainderInRange DEF CMod

\* A crop leaves at least one slot and never adds one.
LEMMA CropSizeInRange ==
    ASSUME NEW size \in Nat \ {0}, NEW start \in Int, NEW end \in Int
    PROVE  computeBufferSizeAfterCrop(start, end, size) \in 1 .. size
<1>1. (end - start + 1 + size) % size \in 0 .. (size - 1)
  BY RemainderInRange
<1> QED  BY <1>1 DEF computeBufferSizeAfterCrop

\* So does a cut that behaves, and the slot in front of it is still there.
LEMMA CutSizeInRange ==
    ASSUME NEW size \in Nat \ {0}, NEW start \in Int, NEW end \in Int,
           CutAccepted(start, end, size), CutIsDefined(start, end, size)
    PROVE  /\ SizeAfterCut(start, end, size) \in 1 .. size
           /\ start - 1 < SizeAfterCut(start, end, size)
BY DEF CutAccepted, CutIsDefined, LargestCutWrite, SizeAfterCut, computeBufferSizeAfterCut

\* Thinning leaves at least one slot.
LEMMA ThinSizeInRange ==
    ASSUME NEW size \in Nat \ {0}, NEW n \in Nat \ {0}, n <= size
    PROVE  size \div n \in 1 .. size
<1> DEFINE q == size \div n
<1>1. q \in Nat /\ size = n * q + (size % n) /\ size % n \in 0 .. (n - 1)
  OBVIOUS
<1>2. q # 0
  BY <1>1
<1>3. n * q >= q
  <2>1. (n - 1) * q >= 0 /\ (n - 1) * q = n * q - q
    BY <1>1
  <2> QED  BY <1>1, <2>1
<1> HIDE DEF q
<1>4. q \in 1 .. size
  BY <1>1, <1>2, <1>3
<1> QED  BY <1>4 DEF q
-----------------------------------------------------------------------------
(* The arrays: what each rearrangement builds from an array of the size of   *)
(* the buffer.                                                               *)

\* A sequence of samples of some length, as a function.
LEMMA SamplesOfLength ==
    ASSUME NEW size \in Nat, NEW data
    PROVE  data \in [1 .. size -> Value] <=> data \in Seq(Value) /\ Len(data) = size
<1>1. ASSUME data \in [1 .. size -> Value]
      PROVE  data \in Seq(Value) /\ Len(data) = size
  BY <1>1
<1>2. ASSUME data \in Seq(Value), Len(data) = size
      PROVE  data \in [1 .. size -> Value]
  BY <1>2
<1> QED  BY <1>1, <1>2

\* A new array has the size asked for.
LEMMA FilledArray ==
    ASSUME NEW size \in Nat, NEW value \in Value
    PROVE  Filled(size, value) \in [1 .. size -> Value]
BY DEF Filled

\* A longer array repeats the last sample.
LEMMA EnlargedArray ==
    ASSUME NEW size \in Nat \ {0}, NEW data \in [1 .. size -> Value], NEW newSize \in Nat
    PROVE  Enlarged(data, newSize) \in [1 .. newSize -> Value]
<1>1. Len(data) = size
  BY SamplesOfLength
<1>2. \A i \in 1 .. newSize : (IF i <= size THEN data[i] ELSE data[size]) \in Value
  OBVIOUS
<1> QED  BY <1>1, <1>2 DEF Enlarged

\* A rotated array has the samples it had.
LEMMA ShiftedArray ==
    ASSUME NEW size \in Nat \ {0}, NEW data \in [1 .. size -> Value], NEW shiftIndex \in Int
    PROVE  Shifted(data, shiftIndex) \in [1 .. size -> Value]
<1> DEFINE slot(i) == ((i - 1 + shiftIndex) % size) + 1
<1>1. Len(data) = size
  BY SamplesOfLength
<1>2. \A i \in 1 .. size : slot(i) \in 1 .. size
  <2> TAKE i \in 1 .. size
  <2>1. i - 1 + shiftIndex \in Int
    OBVIOUS
  <2>2. (i - 1 + shiftIndex) % size \in 0 .. (size - 1)
    BY <2>1, RemainderInRange
  <2> QED  BY <2>2
<1> HIDE DEF slot
<1>3. \A i \in 1 .. size : data[slot(i)] \in Value
  BY <1>2
<1>4. Shifted(data, shiftIndex) =
          IF ShiftAccepted(shiftIndex, size) THEN [i \in 1 .. size |-> data[slot(i)]] ELSE data
  BY <1>1 DEF Shifted, slot
<1> QED  BY <1>3, <1>4

\* A crop reads slots of the array, even where its end is no slot.
LEMMA CroppedArray ==
    ASSUME NEW size \in Nat \ {0}, NEW data \in [1 .. size -> Value],
           NEW start \in Int, NEW end \in Int
    PROVE  Cropped(data, start, end) \in
               [1 .. computeBufferSizeAfterCrop(start, end, size) -> Value]
<1> DEFINE slot(i) == ((i - 1 + start) % size) + 1
           new == computeBufferSizeAfterCrop(start, end, size)
<1>1. Len(data) = size
  BY SamplesOfLength
<1>2. new \in 1 .. size
  BY CropSizeInRange
<1>3. Cropped(data, start, end) = [i \in 1 .. new |-> data[slot(i)]]
  BY <1>1 DEF Cropped
<1> HIDE DEF new
<1>4. \A i \in 1 .. new : slot(i) \in 1 .. size
  <2> TAKE i \in 1 .. new
  <2>1. i - 1 + start \in Int
    BY <1>2
  <2>2. (i - 1 + start) % size \in 0 .. (size - 1)
    BY <2>1, RemainderInRange
  <2> QED  BY <2>2
<1> HIDE DEF slot
<1>5. \A i \in 1 .. new : data[slot(i)] \in Value
  BY <1>4
<1>6. Cropped(data, start, end) \in [1 .. new -> Value]
  BY <1>3, <1>5
<1> QED  BY <1>6 DEF new

\* What a cut that behaves leaves are samples and, where it is a cut of
\* everything, zeros.
LEMMA CutOutArray ==
    ASSUME NEW size \in Nat \ {0}, NEW data \in [1 .. size -> Value],
           NEW start \in Int, NEW end \in Int,
           CutAccepted(start, end, size), CutIsDefined(start, end, size)
    PROVE  CutOut(data, start, end) \in [1 .. SizeAfterCut(start, end, size) -> Value]
<1> DEFINE new == SizeAfterCut(start, end, size)
<1>1. Len(data) = size
  BY SamplesOfLength
<1>2. new \in 1 .. size
  BY CutSizeInRange
<1>3. CutOut(data, start, end) =
          [i \in 1 .. new |-> IF i <= start THEN data[i]
                              ELSE IF i + (end - start + 1) <= size THEN data[i + (end - start + 1)]
                              ELSE 0]
  BY <1>1 DEF CutOut
<1> HIDE DEF new
<1>4. \A i \in 1 .. new : (IF i <= start THEN data[i]
                           ELSE IF i + (end - start + 1) <= size THEN data[i + (end - start + 1)]
                           ELSE 0) \in Value
  BY <1>2, BufferAssumption DEF CutAccepted
<1>5. CutOut(data, start, end) \in [1 .. new -> Value]
  BY <1>3, <1>4
<1> QED  BY <1>5 DEF new

\* A thinned array takes its samples from inside the old one.
LEMMA ThinnedArray ==
    ASSUME NEW size \in Nat \ {0}, NEW data \in [1 .. size -> Value], NEW n \in Nat \ {0}
    PROVE  Thinned(data, n) \in [1 .. (size \div n) -> Value]
<1> DEFINE q == size \div n
           slot(i) == (i - 1) * n + 1
<1>1. Len(data) = size
  BY SamplesOfLength
<1>2. q \in Nat /\ q * n <= size
  OBVIOUS
<1>3. Thinned(data, n) = [i \in 1 .. q |-> data[slot(i)]]
  BY <1>1 DEF Thinned
<1> HIDE DEF q
<1>4. \A i \in 1 .. q : slot(i) \in 1 .. size
  <2> TAKE i \in 1 .. q
  <2>1. (i - 1) * n >= 0 /\ (i - 1) * n \in Int
    BY <1>2
  <2>2. (q - i) * n >= 0 /\ (q - i) * n \in Int
    BY <1>2
  <2>3. q * n - n = (i - 1) * n + (q - i) * n /\ q * n \in Int
    BY <1>2
  <2> QED  BY <1>2, <2>1, <2>2, <2>3
<1> HIDE DEF slot
<1>5. \A i \in 1 .. q : data[slot(i)] \in Value
  BY <1>4
<1>6. Thinned(data, n) \in [1 .. q -> Value]
  BY <1>3, <1>5
<1> QED  BY <1>6 DEF q
-----------------------------------------------------------------------------
(* The state *)

\* A listener has heard nothing or one index.
LEMMA HearingsAreShort == \A h : h \in Hearings <=> h \in Seq(Int) /\ Len(h) <= 1
<1> TAKE h
<1>1. ASSUME h \in Hearings
      PROVE  h \in Seq(Int) /\ Len(h) <= 1
  <2>1. CASE h = <<>>
    BY <2>1, EmptySeq
  <2>2. ASSUME NEW i \in Int, h = <<i>>
        PROVE  h \in Seq(Int) /\ Len(h) <= 1
    BY <2>2
  <2> QED  BY <1>1, <2>1, <2>2 DEF Hearings
<1>2. ASSUME h \in Seq(Int), Len(h) <= 1
      PROVE  h \in Hearings
  <2>1. Len(h) = 0 \/ Len(h) = 1
    <3>1. Len(h) \in Nat
      BY <1>2, LenProperties
    <3>2. \A n \in Nat : n <= 1 => n = 0 \/ n = 1
      OBVIOUS
    <3>3. Len(h) <= 1
      BY <1>2
    <3> QED  BY <3>1, <3>2, <3>3
  <2>2. CASE Len(h) = 0
    BY <1>2, <2>2, EmptySeq DEF Hearings
  <2>3. CASE Len(h) = 1
    <3>1. h = <<h[1]>> /\ h[1] \in Int
      BY <1>2, <2>3
    <3> QED  BY <3>1 DEF Hearings
  <2> QED  BY <2>1, <2>2, <2>3
<1> QED  BY <1>1, <1>2

\* Arrays of one size are sequences of that length.
LEMMA ArraysAreSequences ==
    ASSUME NEW data, NEW size \in Nat
    PROVE  Arrays(data, size) <=>
               /\ DOMAIN data \subseteq Variable
               /\ \A v \in DOMAIN data : data[v] \in Seq(Value) /\ Len(data[v]) = size
BY SamplesOfLength DEF Arrays

\* Inv says what its parts say.
LEMMA InvIsItsParts == Inv <=> Parts
<1>1. bufferSize \in Size => bufferSize \in Nat \ {0}
  BY BufferAssumption DEF Size
<1>2. bufferSize \in Nat \ {0} =>
          (outPoint \in Slot \cup {-1} <=> outPoint \in -1 .. (bufferSize - 1))
  BY DEF Slot
<1>3. bufferSize \in Nat \ {0} /\ inPoint \in Slot => inPoint \in Int
  BY DEF Slot
<1>4. bufferSize \in Nat \ {0} /\ currentIndex \in Slot => currentIndex \in Int
  BY DEF Slot
<1>5. bufferSize \in Nat \ {0} /\ outPoint \in -1 .. (bufferSize - 1) => outPoint \in Int
  OBVIOUS
<1>6. bufferSize \in Nat \ {0} =>
          (Arrays(entries, bufferSize) <=>
               /\ Registered \subseteq Variable /\ \A v \in Registered : entries[v] \in Seq(Value)
               /\ EntriesMatchBufferSize)
  BY ArraysAreSequences DEF Registered, EntriesMatchBufferSize
<1>7. heard \in Hearings <=> heard \in Seq(Int) /\ Len(heard) <= 1
  BY HearingsAreShort
<1> QED  BY <1>1, <1>2, <1>3, <1>4, <1>5, <1>6, <1>7 DEF Inv, Parts, IndicesInBuffer, TypeOK

\* The samples at a slot of the arrays are a frame.
LEMMA ReadIsFrame ==
    ASSUME Parts, NEW size \in Nat \ {0}, NEW data, Arrays(data, size),
           NEW index \in 0 .. (size - 1)
    PROVE  ReadAt(data, index) \in Frame
<1>1. \A v \in DOMAIN data : data[v][index + 1] \in Value
  <2>1. index + 1 \in 1 .. size
    OBVIOUS
  <2> QED  BY <2>1 DEF Arrays
<1>2. \A v \in Variable : variables[v] \in Value
  BY DEF Parts, Frame
<1>3. \A v \in Variable : (IF v \in DOMAIN data THEN data[v][index + 1] ELSE variables[v]) \in Value
  BY <1>1, <1>2
<1> QED  BY <1>3 DEF ReadAt, Frame

\* Writing a frame into a slot of the arrays leaves arrays.
LEMMA WriteLeavesArrays ==
    ASSUME Parts, NEW index \in Slot, NEW frame \in Frame
    PROVE  Arrays([v \in Registered |-> [entries[v] EXCEPT ![index + 1] = frame[v]]], bufferSize)
<1>1. \A v \in Registered : v \in Variable /\ entries[v] \in [1 .. bufferSize -> Value]
  BY DEF Parts, Arrays, Registered
<1>2. \A v \in Registered : frame[v] \in Value
  BY <1>1 DEF Frame
<1>3. \A v \in Registered :
          [entries[v] EXCEPT ![index + 1] = frame[v]] \in [1 .. bufferSize -> Value]
  BY <1>1, <1>2
<1> QED  BY <1>1, <1>3 DEF Arrays

\* A listener is told an index.
LEMMA ToldIsHearing ==
    ASSUME NEW index \in Int
    PROVE  Told(index) \in Hearings
BY DEF Told, Hearings

\* setCurrentIndex at the end of an operation.
LEMMA MoveToKeepsParts ==
    ASSUME Parts, bufferSize' \in Nat \ {0}, Arrays(entries', bufferSize'),
           NEW index \in Int, NEW before \in 0 .. (bufferSize' - 1), MoveTo(index, before)
    PROVE  currentIndex' \in Slot' /\ variables' \in Frame /\ heard' \in Hearings
<1>1. CASE lockIndex
  BY <1>1 DEF MoveTo, Slot, Parts
<1>2. CASE ~lockIndex
  <2>1. currentIndex' = Landed(index, bufferSize') /\ currentIndex' \in 0 .. (bufferSize' - 1)
    BY <1>2, LandedInRange DEF MoveTo
  <2>2. variables' = ReadAt(entries', currentIndex') /\ heard' = Told(currentIndex')
    BY <1>2 DEF MoveTo
  <2>3. variables' \in Frame
    <3> HIDE DEF Parts
    <3> QED  BY <2>1, <2>2, ReadIsFrame
  <2> QED  BY <2>1, <2>2, <2>3, ToldIsHearing DEF Slot
<1> QED  BY <1>1, <1>2
-----------------------------------------------------------------------------
(* The operations *)

\* An operation that sets the current index last.
LEMMA ThenMoved ==
    ASSUME Parts, bufferSize' \in Size, inPoint' \in Slot', outPoint' \in -1 .. (bufferSize' - 1),
           UNCHANGED lockIndex, keyPoints' \in Seq(Nat), Arrays(entries', bufferSize'),
           NEW index \in Int, NEW before \in 0 .. (bufferSize' - 1), MoveTo(index, before)
    PROVE  Parts'
<1>1. bufferSize' \in Nat \ {0}
  BY BufferAssumption DEF Size
<1>2. currentIndex' \in Slot' /\ variables' \in Frame /\ heard' \in Hearings
  BY <1>1, MoveToKeepsParts
<1> QED  BY <1>1, <1>2 DEF Parts

\* Moving the current index.
LEMMA MovingKeepsParts ==
    ASSUME Parts, NEW index \in Int, setCurrentIndex(index)
    PROVE  Parts'
<1>1. /\ UNCHANGED <<bufferSize, inPoint, outPoint, lockIndex, keyPoints, entries>>
      /\ MoveTo(index, currentIndex)
  BY DEF setCurrentIndex
<1>2. bufferSize' \in Size /\ inPoint' \in Slot' /\ outPoint' \in -1 .. (bufferSize' - 1)
  BY <1>1 DEF Parts, Slot
<1>3. currentIndex \in 0 .. (bufferSize' - 1) /\ keyPoints' \in Seq(Nat) /\ Arrays(entries', bufferSize')
  BY <1>1 DEF Parts, Slot
<1> QED  BY <1>1, <1>2, <1>3, ThenMoved

\* The calls that move the index (ticks, setCurrentIndex, jumps to the in- and the out-point)
\* leave every part of the buffer in its range.
LEMMA MoveIndexKeepsParts ==
    ASSUME Parts, MoveIndex
    PROVE  Parts'
<1>1. bufferSize \in Nat /\ inPoint \in Int /\ outPoint \in Int /\ currentIndex \in Int
  BY DEF Parts, Slot
<1>2. CASE gotoInPoint \/ gotoOutPoint
  BY <1>1, <1>2, MovingKeepsParts DEF gotoInPoint, gotoOutPoint
<1>3. ASSUME NEW index \in -1 .. bufferSize, setCurrentIndex(index)
      PROVE  Parts'
  <2>1. index \in Int
    BY <1>1
  <2> QED  BY <1>3, <2>1, MovingKeepsParts
<1>4. ASSUME NEW stepSize \in {-2, -1, 0, 1, 2}, tickAndReadFromBuffer(stepSize)
      PROVE  Parts'
  <2>1. Stepped(currentIndex, stepSize, inPoint, outPoint, bufferSize) \in Int
    BY <1>1, SteppedIsInteger
  <2> QED  BY <1>4, <2>1, MovingKeepsParts DEF tickAndReadFromBuffer
<1> QED  BY <1>2, <1>3, <1>4 DEF MoveIndex

\* The next slot, around the end of the buffer.
LEMMA Next1InBuffer ==
    ASSUME Parts, NEW index \in Slot
    PROVE  Next1(index) \in Slot
BY DEF Parts, Slot, Next1

\* Recording, reading and writing.
LEMMA TransferKeepsParts ==
    ASSUME Parts, Transfer
    PROVE  Parts'
<1>1. CASE tickAndWriteIntoBuffer
  <2>1. /\ currentIndex' = Next1(currentIndex) /\ outPoint' = currentIndex'
        /\ inPoint' \in {inPoint, Next1(inPoint)}
        /\ keyPoints' = Removed(keyPoints, currentIndex')
        /\ entries' = [v \in Registered |-> [entries[v] EXCEPT ![currentIndex' + 1] = variables[v]]]
        /\ heard' = Told(currentIndex') /\ UNCHANGED <<bufferSize, lockIndex, variables>>
    BY <1>1 DEF tickAndWriteIntoBuffer, WrittenAt
  <2>2. currentIndex' \in Slot /\ inPoint' \in Slot
    BY <2>1, Next1InBuffer DEF Parts
  <2>3. outPoint' \in -1 .. (bufferSize - 1) /\ currentIndex' \in Int
    BY <2>1, <2>2 DEF Parts, Slot
  <2>4. Arrays(entries', bufferSize)
    <3>1. variables \in Frame
      BY DEF Parts
    <3> HIDE DEF Parts
    <3> QED  BY <2>1, <2>2, <3>1, WriteLeavesArrays
  <2>5. keyPoints' \in Seq(Nat)
    <3>1. Nat \in SUBSET Int /\ keyPoints \in Seq(Nat)
      BY DEF Parts
    <3> QED  BY <2>1, <2>3, <3>1, RemovedType
  <2>6. heard' \in Hearings
    BY <2>1, <2>3, ToldIsHearing
  <2> QED  BY <2>1, <2>2, <2>3, <2>4, <2>5, <2>6 DEF Parts, Slot
<1>2. CASE readFromBuffer
  <2>1. variables' \in Frame
    <3>1. currentIndex \in 0 .. (bufferSize - 1) /\ variables' = ReadAt(entries, currentIndex)
          /\ bufferSize \in Nat \ {0} /\ Arrays(entries, bufferSize)
      BY <1>2 DEF readFromBuffer, Parts, Slot
    <3> QED  BY <3>1, ReadIsFrame
  <2> QED  BY <1>2, <2>1 DEF readFromBuffer, Parts, Slot
<1>3. CASE writeIntoBuffer
  <2>1. Arrays(entries', bufferSize)
    <3>1. currentIndex \in Slot /\ variables \in Frame
      BY DEF Parts
    <3>2. entries' = [v \in Registered |-> [entries[v] EXCEPT ![currentIndex + 1] = variables[v]]]
      BY <1>3 DEF writeIntoBuffer, WrittenAt
    <3> QED  BY <3>1, <3>2, WriteLeavesArrays
  <2> QED  BY <1>3, <2>1 DEF writeIntoBuffer, Parts, Slot
<1>4. CASE fillBuffer
  <2>1. \A v \in Registered : v \in Variable /\ entries[v] \in [1 .. bufferSize -> Value]
    BY DEF Parts, Arrays, Registered
  <2>2. \A v \in Registered : Len(entries[v]) = bufferSize /\ variables[v] \in Value
    BY <2>1, SamplesOfLength DEF Parts, Frame
  <2>3. \A v \in Registered : Filled(Len(entries[v]), variables[v]) \in [1 .. bufferSize -> Value]
    BY <2>2, FilledArray DEF Parts
  <2>4. Arrays(entries', bufferSize)
    BY <1>4, <2>1, <2>3 DEF fillBuffer, Arrays
  <2> QED  BY <1>4, <2>4 DEF fillBuffer, Parts, Slot
<1>5. ASSUME NEW v \in Variable, NEW value \in Value, setValue(v, value)
      PROVE  Parts'
  <2>1. variables' \in Frame
    BY <1>5 DEF setValue, Parts, Frame
  <2> QED  BY <1>5, <2>1 DEF setValue, Parts, Slot
<1> QED  BY <1>1, <1>2, <1>3, <1>4, <1>5 DEF Transfer

\* The marks and the key points.
LEMMA MarkKeepsParts ==
    ASSUME Parts, Mark
    PROVE  Parts'
<1>1. Nat \in SUBSET Int /\ keyPoints \in Seq(Nat) /\ bufferSize \in Nat \ {0}
  BY DEF Parts
<1>2. ASSUME NEW index \in Slot, setInPoint(index)
      PROVE  Parts'
  <2>1. keyPoints' \in Seq(Nat)
    BY <1>1, <1>2, TrimmedType DEF setInPoint
  <2> QED  BY <1>2, <2>1 DEF setInPoint, Parts, Slot
<1>3. ASSUME NEW index \in Slot, setOutPoint(index)
      PROVE  Parts'
  <2>1. keyPoints' \in Seq(Nat)
    BY <1>1, <1>3, TrimmedType DEF setOutPoint
  <2>2. index \in -1 .. (bufferSize - 1)
    BY <1>1 DEF Slot
  <2> QED  BY <1>3, <2>1, <2>2 DEF setOutPoint, Parts, Slot
<1>4. CASE setInOutPointFullBuffer
  BY <1>4 DEF setInOutPointFullBuffer, Parts, Slot
<1>5. CASE toggleKeyPoint
  <2>1. keyPoints' \in Seq(Nat)
    <3>1. currentIndex \in Nat
      BY DEF Parts, Slot
    <3> QED  BY <1>1, <1>5, <3>1, ToggledType DEF toggleKeyPoint
  <2> QED  BY <1>5, <2>1 DEF toggleKeyPoint, Parts, Slot
<1> QED  BY <1>2, <1>3, <1>4, <1>5 DEF Mark, ToggleWithinBound

\* Registering, clearing and locking.
LEMMA RegisterKeepsParts ==
    ASSUME Parts, \/ Register
                  \/ \E size \in Size : KeepsIndices(size) /\ clearBuffers(size)
                  \/ \E lock \in BOOLEAN : setLockIndex(lock)
    PROVE  Parts'
<1>0. bufferSize \in Nat \ {0} /\ \A v \in Registered : v \in Variable /\ entries[v] \in [1 .. bufferSize -> Value]
  BY DEF Parts, Arrays, Registered
<1>1. CASE clear
  <2>1. Arrays(<<>>, bufferSize)
    BY DEF Arrays
  <2>2. <<>> \in Seq(Nat) /\ <<>> \in Hearings
    BY EmptySeq DEF Hearings
  <2> QED  BY <1>1, <2>1, <2>2 DEF clear, Parts, Slot
<1>2. CASE addListener
  <2>1. heard' \in Hearings
    BY <1>2 DEF addListener, Parts, Slot, Hearings
  <2> QED  BY <1>2, <2>1 DEF addListener, Parts, Slot
<1>3. CASE removeListeners
  <2>1. heard' \in Hearings
    BY <1>3 DEF removeListeners, Hearings
  <2> QED  BY <1>3, <2>1 DEF removeListeners, Parts, Slot
<1>4. ASSUME NEW v \in Variable, addVariable(v)
      PROVE  Parts'
  <2>1. Filled(bufferSize, 0) \in [1 .. bufferSize -> Value]
    BY <1>0, FilledArray, BufferAssumption
  <2>2. Arrays(entries', bufferSize)
    BY <1>0, <1>4, <2>1 DEF addVariable, Arrays
  <2> QED  BY <1>4, <2>2 DEF addVariable, Parts, Slot
<1>5. ASSUME NEW v \in Variable, removeVariable(v)
      PROVE  Parts'
  <2>1. Arrays(entries', bufferSize)
    BY <1>0, <1>5 DEF removeVariable, Arrays
  <2> QED  BY <1>5, <2>1 DEF removeVariable, Parts, Slot
<1>6. ASSUME NEW size \in Size, KeepsIndices(size), clearBuffers(size)
      PROVE  Parts'
  <2>1. size \in Nat \ {0}
    BY BufferAssumption DEF Size
  <2>2. Filled(size, 0) \in [1 .. size -> Value]
    BY <2>1, FilledArray, BufferAssumption
  <2>3. Arrays(entries', size)
    BY <1>0, <1>6, <2>2 DEF clearBuffers, Arrays
  <2> QED  BY <1>6, <2>1, <2>3 DEF clearBuffers, KeepsIndices, Parts, Slot
<1>7. ASSUME NEW lock \in BOOLEAN, setLockIndex(lock)
      PROVE  Parts'
  BY <1>7 DEF setLockIndex, Parts, Slot
<1> QED  BY <1>1, <1>2, <1>3, <1>4, <1>5, <1>6, <1>7 DEF Register

\* The arrays an operation leaves that rebuilds each of them.
LEMMA RearrangedArrays ==
    ASSUME Parts, NEW new, NEW size, DOMAIN new = Registered,
           \A v \in Registered : entries[v] \in [1 .. bufferSize -> Value]
                                     => new[v] \in [1 .. size -> Value]
    PROVE  Arrays(new, size)
BY DEF Parts, Arrays, Registered

\* Rotating the entries.
LEMMA ShiftKeepsParts ==
    ASSUME Parts, NEW shiftIndex \in Int, shiftBuffer(shiftIndex)
    PROVE  Parts'
<1> DEFINE index == ShiftedBack(currentIndex, shiftIndex)
<1>1. bufferSize \in Nat \ {0} /\ bufferSize \in Size /\ currentIndex \in Int
      /\ outPoint \in -1 .. (bufferSize - 1) /\ keyPoints \in Seq(Nat)
  BY DEF Parts, Slot
<1>2. /\ ShiftAccepted(shiftIndex, bufferSize) /\ inPoint' = 0
      /\ outPoint' = CMod(outPoint - shiftIndex + bufferSize, bufferSize)
      /\ entries' = [v \in Registered |-> Shifted(entries[v], shiftIndex)]
      /\ UNCHANGED <<bufferSize, lockIndex, keyPoints>>
      /\ MoveTo(Stepped(index, 0, 0, outPoint', bufferSize), index)
  BY DEF shiftBuffer, Rearranged
<1>3. index \in 0 .. (bufferSize - 1)
  <2>1. currentIndex - shiftIndex + bufferSize \in Int
    BY <1>1
  <2> QED  BY <1>1, <2>1, NonNegativeInRange DEF ShiftedBack
<1>4. outPoint' \in 0 .. (bufferSize - 1)
  BY <1>1, <1>2, ShiftedOutInRange
<1>5. Arrays(entries', bufferSize)
  BY <1>1, <1>2, ShiftedArray, RearrangedArrays
<1> HIDE DEF index
<1>6. Stepped(index, 0, 0, outPoint', bufferSize) \in Int
  BY <1>3, <1>4, SteppedIsInteger
<1>7. inPoint' \in Slot' /\ outPoint' \in -1 .. (bufferSize' - 1)
  BY <1>1, <1>2, <1>4 DEF Slot
<1> QED  BY <1>1, <1>2, <1>3, <1>5, <1>6, <1>7, ThenMoved

\* Sizes that are at least 1 and no larger than the buffer are sizes.
LEMMA SmallerIsSize ==
    ASSUME Parts, NEW size \in 1 .. bufferSize
    PROVE  size \in Size /\ size \in Nat \ {0}
BY BufferAssumption DEF Parts, Size

\* Cropping, wherever the interval ends.
LEMMA CropKeepsParts ==
    ASSUME Parts, NEW start \in Int, NEW end \in Int, cropBuffer(start, end)
    PROVE  Parts'
<1> DEFINE size == computeBufferSizeAfterCrop(start, end, bufferSize)
           before == NonNegative(CMod(currentIndex - start + size, size))
<1>1. bufferSize \in Nat \ {0} /\ currentIndex \in Int /\ keyPoints \in Seq(Nat)
  BY DEF Parts, Slot
<1>2. size \in 1 .. bufferSize
  BY <1>1, CropSizeInRange
<1>3. /\ bufferSize' = size /\ inPoint' = 0 /\ outPoint' = size - 1
      /\ entries' = [v \in Registered |-> Cropped(entries[v], start, end)]
      /\ UNCHANGED <<lockIndex, keyPoints>> /\ MoveTo(0, before)
  BY DEF cropBuffer, Rearranged
<1>4. Arrays(entries', size)
  BY <1>1, <1>3, CroppedArray, RearrangedArrays
<1> HIDE DEF size
<1>5. size \in Size /\ size \in Nat \ {0}
  BY <1>2, SmallerIsSize
<1>6. before \in 0 .. (size - 1)
  <2>1. currentIndex - start + size \in Int
    BY <1>1, <1>5
  <2> QED  BY <1>5, <2>1, NonNegativeInRange
<1> HIDE DEF before
<1>7. inPoint' \in Slot' /\ outPoint' \in -1 .. (bufferSize' - 1)
  BY <1>3, <1>5 DEF Slot
<1> QED  BY <1>1, <1>3, <1>4, <1>5, <1>6, <1>7, ThenMoved

\* Cutting.
LEMMA CutKeepsParts ==
    ASSUME Parts, NEW start \in Int, NEW end \in Int, cutBuffer(start, end)
    PROVE  Parts'
<1> DEFINE size == SizeAfterCut(start, end, bufferSize)
           before == NonNegative(CMod(currentIndex - start + size, size))
<1>1. bufferSize \in Nat \ {0} /\ currentIndex \in Int /\ keyPoints \in Seq(Nat)
  BY DEF Parts, Slot
<1>2. CutAccepted(start, end, bufferSize) /\ CutIsDefined(start, end, bufferSize)
  BY DEF cutBuffer, CutBehaves
<1>3. size \in 1 .. bufferSize /\ start - 1 < size /\ start >= 0
  BY <1>1, <1>2, CutSizeInRange DEF CutAccepted
<1>4. /\ bufferSize' = size /\ inPoint' = 0 /\ outPoint' = start - 1
      /\ entries' = [v \in Registered |-> CutOut(entries[v], start, end)]
      /\ UNCHANGED <<lockIndex, keyPoints>> /\ MoveTo(start - 1, before)
  BY DEF cutBuffer, Rearranged
<1>5. Arrays(entries', size)
  BY <1>1, <1>2, <1>4, CutOutArray, RearrangedArrays
<1> HIDE DEF size
<1>6. size \in Size /\ size \in Nat \ {0}
  BY <1>3, SmallerIsSize
<1>7. before \in 0 .. (size - 1)
  <2>1. currentIndex - start + size \in Int
    BY <1>1, <1>6
  <2> QED  BY <1>6, <2>1, NonNegativeInRange
<1> HIDE DEF before
<1>8. inPoint' \in Slot' /\ outPoint' \in -1 .. (bufferSize' - 1) /\ start - 1 \in Int
  BY <1>3, <1>4, <1>6 DEF Slot
<1> QED  BY <1>1, <1>4, <1>5, <1>6, <1>7, <1>8, ThenMoved

\* The arrays thinData and resizeBuffer go on from: rotated, where they rotate.
LEMMA ShiftedFirst ==
    ASSUME Parts, NEW shift \in BOOLEAN, NEW data,
           data = IF shift THEN [v \in Registered |-> Shifted(entries[v], inPoint)] ELSE entries
    PROVE  /\ DOMAIN data = Registered /\ Arrays(data, bufferSize)
           /\ \A v \in Registered : data[v] \in [1 .. bufferSize -> Value]
<1>1. bufferSize \in Nat \ {0} /\ inPoint \in Int
      /\ \A v \in Registered : v \in Variable /\ entries[v] \in [1 .. bufferSize -> Value]
  BY DEF Parts, Slot, Arrays, Registered
<1>2. \A v \in Registered : Shifted(entries[v], inPoint) \in [1 .. bufferSize -> Value]
  BY <1>1, ShiftedArray
<1>3. CASE shift
  BY <1>1, <1>2, <1>3 DEF Arrays
<1>4. CASE ~shift
  BY <1>1, <1>4 DEF Arrays, Registered
<1> QED  BY <1>3, <1>4

\* Thinning, also a buffer that is too small for it.
LEMMA ThinKeepsParts ==
    ASSUME Parts, NEW n \in Size, thinData(n)
    PROVE  Parts'
<1> DEFINE shift == ShiftAccepted(inPoint, bufferSize)
           data  == IF shift THEN [v \in Registered |-> Shifted(entries[v], inPoint)] ELSE entries
           out   == IF shift THEN CMod(outPoint - inPoint + bufferSize, bufferSize) ELSE outPoint
           index == Landed(Stepped(ShiftedBack(currentIndex, inPoint), 0, 0, out, bufferSize), bufferSize)
<1>1. bufferSize \in Nat \ {0} /\ bufferSize \in Size /\ n \in Nat \ {0} /\ currentIndex \in Int
      /\ inPoint \in Int /\ outPoint \in -1 .. (bufferSize - 1) /\ keyPoints \in Seq(Nat)
  BY BufferAssumption DEF Parts, Slot, Size
<1>2. /\ inPoint' = 0 /\ UNCHANGED <<lockIndex, keyPoints>>
      /\ \/ /\ ThinApplies(n)
            /\ bufferSize' = ThinnedSize(n)
            /\ entries' = [v \in Registered |-> Thinned(data[v], n)]
            /\ outPoint' = bufferSize' - 1 /\ MoveTo(0, 0)
         \/ /\ bufferSize' = bufferSize /\ entries' = data
            /\ outPoint' = out /\ currentIndex' = 0
            /\ \/ variables' = ReadAt(data, index) /\ heard' = Told(index)
               \/ UNCHANGED <<variables, heard>>
  BY DEF thinData, Rearranged
<1>3. /\ DOMAIN data = Registered /\ Arrays(data, bufferSize)
      /\ \A v \in Registered : data[v] \in [1 .. bufferSize -> Value]
  <2>1. shift \in BOOLEAN
    BY DEF ShiftAccepted
  <2> HIDE DEF shift
  <2> QED  BY <2>1, ShiftedFirst
<1>4. out \in -1 .. (bufferSize - 1)
  <2>1. shift => out \in 0 .. (bufferSize - 1)
    BY <1>1, ShiftedOutInRange
  <2> QED  BY <1>1, <2>1
<1>5. index \in 0 .. (bufferSize - 1)
  <2>1. currentIndex - inPoint + bufferSize \in Int
    BY <1>1
  <2>2. ShiftedBack(currentIndex, inPoint) \in Int
    BY <1>1, <2>1, NonNegativeInRange DEF ShiftedBack
  <2> HIDE DEF out
  <2>3. Stepped(ShiftedBack(currentIndex, inPoint), 0, 0, out, bufferSize) \in Int
    BY <1>4, <2>2, SteppedIsInteger
  <2> QED  BY <1>1, <2>3, LandedInRange
<1> HIDE DEF shift, data, out, index
<1>6. CASE /\ ThinApplies(n)
           /\ bufferSize' = ThinnedSize(n)
           /\ entries' = [v \in Registered |-> Thinned(data[v], n)]
           /\ outPoint' = bufferSize' - 1 /\ MoveTo(0, 0)
  <2>1. n <= bufferSize
    BY <1>1, <1>6 DEF ThinApplies
  <2>2. bufferSize' \in 1 .. bufferSize /\ (Registered # {} => bufferSize' = bufferSize \div n)
    BY <1>1, <1>6, <2>1, ThinSizeInRange DEF ThinnedSize
  <2>3. bufferSize' \in Size /\ bufferSize' \in Nat \ {0}
    BY <2>2, SmallerIsSize
  <2>4. Arrays(entries', bufferSize')
    <3>1. \A v \in Registered : Thinned(data[v], n) \in [1 .. (bufferSize \div n) -> Value]
      BY <1>1, <1>3, ThinnedArray
    <3> QED  BY <1>6, <2>2, <3>1, RearrangedArrays
  <2>5. inPoint' \in Slot' /\ outPoint' \in -1 .. (bufferSize' - 1) /\ 0 \in 0 .. (bufferSize' - 1)
    BY <1>2, <1>6, <2>3 DEF Slot
  <2> QED  BY <1>1, <1>2, <1>6, <2>3, <2>4, <2>5, ThenMoved
<1>7. CASE /\ bufferSize' = bufferSize /\ entries' = data
           /\ outPoint' = out /\ currentIndex' = 0
           /\ \/ variables' = ReadAt(data, index) /\ heard' = Told(index)
              \/ UNCHANGED <<variables, heard>>
  <2>1. ReadAt(data, index) \in Frame /\ Told(index) \in Hearings
    BY <1>1, <1>3, <1>5, ReadIsFrame, ToldIsHearing
  <2>2. variables' \in Frame /\ heard' \in Hearings
    BY <1>7, <2>1 DEF Parts
  <2>3. inPoint' \in Slot' /\ currentIndex' \in Slot'
    BY <1>1, <1>2, <1>7 DEF Slot
  <2> QED  BY <1>1, <1>2, <1>3, <1>4, <1>7, <2>2, <2>3 DEF Parts
<1> QED  BY <1>2, <1>6, <1>7

\* Making the buffer smaller or larger.
LEMMA ResizeKeepsParts ==
    ASSUME Parts, NEW size \in Size, resizeBuffer(size)
    PROVE  Parts'
<1> DEFINE shift == ShiftAccepted(inPoint, bufferSize)
           data  == IF shift THEN [v \in Registered |-> Shifted(entries[v], inPoint)] ELSE entries
           out   == CMod(outPoint - inPoint + bufferSize, bufferSize)
           index == ShiftedBack(currentIndex, inPoint)
<1>1. /\ bufferSize \in Nat \ {0} /\ size \in Nat \ {0} /\ currentIndex \in Slot
      /\ inPoint \in Slot /\ outPoint \in -1 .. (bufferSize - 1) /\ keyPoints \in Seq(Nat)
      /\ currentIndex \in Int /\ inPoint \in Int
  BY BufferAssumption DEF Parts, Slot, Size
<1>2. CASE size < bufferSize
  <2>1. cropBuffer(inPoint, (inPoint + size - 1) % bufferSize)
    BY <1>1, <1>2 DEF resizeBuffer, Rearranged
  <2>2. inPoint + size - 1 \in Int
    BY <1>1
  <2>3. (inPoint + size - 1) % bufferSize \in Int
    BY <1>1, <2>2, RemainderInRange
  <2> QED  BY <1>1, <2>1, <2>3, CropKeepsParts
<1>3. CASE size > bufferSize
  <2>1. /\ bufferSize' = size /\ UNCHANGED <<lockIndex, keyPoints>>
        /\ entries' = [v \in Registered |-> Enlarged(data[v], size)]
        /\ IF shift
           THEN /\ inPoint' = 0 /\ outPoint' = out
                /\ MoveTo(Stepped(index, 0, 0, outPoint', bufferSize), index)
           ELSE UNCHANGED <<inPoint, outPoint, currentIndex, variables, heard>>
    BY <1>1, <1>3 DEF resizeBuffer, Rearranged
  <2>2. \A v \in Registered : data[v] \in [1 .. bufferSize -> Value]
    <3>1. shift \in BOOLEAN
      BY DEF ShiftAccepted
    <3> HIDE DEF shift
    <3> QED  BY <3>1, ShiftedFirst
  <2> HIDE DEF data
  <2>3. \A v \in Registered : Enlarged(data[v], size) \in [1 .. size -> Value]
    BY <1>1, <2>2, EnlargedArray
  <2>4. Arrays(entries', size)
    BY <2>1, <2>3, RearrangedArrays
  <2>5. CASE shift
    <3>1. out \in 0 .. (bufferSize - 1)
      BY <1>1, <2>5, ShiftedOutInRange
    <3>2. index \in 0 .. (bufferSize - 1)
      <4>1. currentIndex - inPoint + bufferSize \in Int
        BY <1>1
      <4> QED  BY <1>1, <4>1, NonNegativeInRange DEF ShiftedBack
    <3> HIDE DEF out, index, shift
    <3>3. inPoint' = 0 /\ outPoint' = out /\ MoveTo(Stepped(index, 0, 0, outPoint', bufferSize), index)
      BY <2>1, <2>5
    <3>4. Stepped(index, 0, 0, outPoint', bufferSize) \in Int
      BY <3>1, <3>2, <3>3, SteppedIsInteger
    <3>5. inPoint' \in Slot' /\ outPoint' \in -1 .. (bufferSize' - 1) /\ index \in 0 .. (bufferSize' - 1)
      BY <1>1, <1>3, <2>1, <3>1, <3>2, <3>3 DEF Slot
    <3> QED  BY <1>1, <2>1, <2>4, <3>3, <3>4, <3>5, ThenMoved
  <2>6. CASE ~shift
    <3>1. UNCHANGED <<inPoint, outPoint, currentIndex, variables, heard>>
      BY <2>1, <2>6
    <3>2. inPoint' \in Slot' /\ currentIndex' \in Slot' /\ outPoint' \in -1 .. (bufferSize' - 1)
      BY <1>1, <1>3, <2>1, <3>1 DEF Slot
    <3> QED  BY <1>1, <2>1, <2>4, <3>1, <3>2 DEF Parts
  <2> QED  BY <2>5, <2>6
<1> QED  BY <1>2, <1>3 DEF resizeBuffer, Rearranged

\* The calls that rearrange the samples (crop, cut, thin, shift, resize, clear) leave indices
\* that are slots of the new size, and entries of that length.
LEMMA RearrangeKeepsParts ==
    ASSUME Parts, Rearrange
    PROVE  Parts'
<1>1. bufferSize \in Nat /\ inPoint \in Int /\ outPoint \in Int /\ Slot \subseteq Int
  BY DEF Parts, Slot
<1>2. ASSUME NEW size \in Size, resizeBuffer(size)
      PROVE  Parts'
  BY <1>2, ResizeKeepsParts
<1>3. ASSUME NEW shiftIndex \in Slot, shiftBuffer(shiftIndex)
      PROVE  Parts'
  BY <1>1, <1>3, ShiftKeepsParts
<1>4. ASSUME NEW start \in Slot, NEW end \in 0 .. bufferSize, cropBuffer(start, end) \/ cutBuffer(start, end)
      PROVE  Parts'
  <2>1. start \in Int /\ end \in Int
    BY <1>1
  <2> QED  BY <1>4, <2>1, CropKeepsParts, CutKeepsParts
<1>5. CASE cropToWindow
  <2> DEFINE end == IF inPoint # outPoint THEN outPoint ELSE inPoint + 1
  <2>1. end \in Int /\ cropBuffer(inPoint, end)
    BY <1>1, <1>5 DEF cropToWindow
  <2> HIDE DEF end
  <2> QED  BY <1>1, <2>1, CropKeepsParts
<1>6. CASE cutWindow
  BY <1>1, <1>6, CutKeepsParts DEF cutWindow
<1> QED  BY <1>2, <1>3, <1>4, <1>5, <1>6 DEF Rearrange

\* Every step keeps the invariant, the thinning of a buffer that is too small
\* for it included.
LEMMA ThinNextKeepsParts ==
    ASSUME Parts, ThinNext
    PROVE  Parts'
<1>1. Next => \/ MoveIndex \/ Transfer \/ Mark \/ Register \/ Rearrange
              \/ \E n \in Size : thinData(n)
              \/ \E lock \in BOOLEAN : setLockIndex(lock)
              \/ \E size \in Size : KeepsIndices(size) /\ clearBuffers(size)
  BY DEF Next
<1>2. ASSUME NEW n \in Size, thinData(n)
      PROVE  Parts'
  BY <1>2, ThinKeepsParts
<1>3. \/ Register \/ \E size \in Size : KeepsIndices(size) /\ clearBuffers(size)
      \/ \E lock \in BOOLEAN : setLockIndex(lock)
      => Parts'
  BY RegisterKeepsParts
<1>4. MoveIndex \/ Transfer \/ Mark \/ Rearrange => Parts'
  BY MoveIndexKeepsParts, TransferKeepsParts, MarkKeepsParts, RearrangeKeepsParts
<1> QED  BY <1>1, <1>2, <1>3, <1>4 DEF ThinNext

\* A new buffer.
LEMMA InitHasParts == Init => Parts
<1> SUFFICES ASSUME Init
             PROVE  Parts
  OBVIOUS
<1>1. bufferSize \in Size /\ bufferSize \in Nat \ {0} /\ 0 \in Value
  BY BufferAssumption DEF Init, Size
<1>2. Arrays(entries, bufferSize)
  <2>1. Filled(bufferSize, 0) \in [1 .. bufferSize -> Value]
    BY <1>1, FilledArray
  <2>2. entries = [v \in Variable |-> Filled(bufferSize, 0)]
    BY DEF Init
  <2> QED  BY <2>1, <2>2 DEF Arrays
<1>3. variables \in Frame /\ heard \in Hearings /\ keyPoints \in Seq(Nat) /\ lockIndex \in BOOLEAN
  <2>1. variables \in Frame
    BY <1>1 DEF Init, Frame
  <2>2. keyPoints \in Seq(Nat)
    BY EmptySeq DEF Init
  <2>3. heard \in Hearings
    BY DEF Init, Hearings
  <2> QED  BY <2>1, <2>2, <2>3 DEF Init
<1> QED  BY <1>1, <1>2, <1>3 DEF Init, Parts, Slot

\* A step that changes nothing breaks nothing.
LEMMA PartsUnchanged ==
    ASSUME Parts, UNCHANGED vars
    PROVE  Parts'
BY DEF vars, Parts, Slot

\* Whatever calls are made on the buffer, its indices stay slots and its entries its size.
LEMMA InvAlways == Spec => []Inv
<1>1. Init => Inv
  BY InitHasParts, InvIsItsParts
<1>2. Inv /\ [Next]_vars => Inv'
  <2>1. Inv' <=> Parts'
    BY InvIsItsParts, PTL
  <2> QED  BY <2>1, InvIsItsParts, PartsUnchanged, ThinNextKeepsParts DEF ThinNext
<1> QED  BY <1>1, <1>2, PTL DEF Spec
-----------------------------------------------------------------------------
(* The theorems *)

\* After any sequence of calls, every read and write of YoBuffer at its current
\* index, in-point or out-point is inside its arrays (an out-point of -1, which
\* a cut of the first slots leaves, is never read), and the size YoBuffer keeps
\* and the sizes its entries compute for themselves never come apart.
THEOREM BufferStaysConsistent == Spec => []BufferConsistent
<1>1. Inv => BufferConsistent
  BY DEF Inv, BufferConsistent
<1> QED  BY <1>1, InvAlways, PTL
-----------------------------------------------------------------------------
(* What follows the index *)

\* The variables have the samples at the new index, and a listener knows it.
Followed ==
    /\ \A v \in DOMAIN entries' : variables'[v] = entries'[v][currentIndex' + 1]
    /\ heard' # <<>> => heard' = <<currentIndex'>>

\* setCurrentIndex of an unlocked buffer reads and tells.
LEMMA MoveToFollows ==
    ASSUME Parts', ~lockIndex, NEW index, NEW before, MoveTo(index, before)
    PROVE  Followed
<1>1. variables' = ReadAt(entries', currentIndex') /\ heard' = Told(currentIndex')
  BY DEF MoveTo
<1>2. \A v \in DOMAIN entries' : v \in Variable
  BY DEF Parts, Arrays
<1>3. \A v \in Variable : v \in DOMAIN entries' =>
          ReadAt(entries', currentIndex')[v] = entries'[v][currentIndex' + 1]
  BY DEF ReadAt
<1>4. Told(currentIndex') = <<>> \/ Told(currentIndex') = <<currentIndex'>>
  BY DEF Told
<1> QED  BY <1>1, <1>2, <1>3, <1>4 DEF Followed

\* The two that move the index by themselves: what recording wrote is what the
\* variables have, and clear leaves no entries and no listeners.
LEMMA RecordingFollows ==
    ASSUME Parts, Parts', tickAndWriteIntoBuffer \/ clear
    PROVE  Followed
<1>1. CASE tickAndWriteIntoBuffer
  <2>1. /\ entries' = [v \in Registered |-> [entries[v] EXCEPT ![currentIndex' + 1] = variables[v]]]
        /\ heard' = Told(currentIndex') /\ UNCHANGED <<bufferSize, variables>>
    BY <1>1 DEF tickAndWriteIntoBuffer, WrittenAt
  <2>2. currentIndex' + 1 \in 1 .. bufferSize
    <3>1. bufferSize \in Nat /\ currentIndex' \in 0 .. (bufferSize' - 1)
      BY DEF Parts, Slot
    <3>2. bufferSize' = bufferSize
      BY <2>1
    <3>3. currentIndex' \in 0 .. (bufferSize - 1)
      BY <3>1, <3>2
    <3> QED  BY <3>1, <3>3, SlotIsPosition
  <2>3. \A v \in Registered : entries[v] \in [1 .. bufferSize -> Value]
    BY DEF Parts, Arrays, Registered
  <2>4. \A v \in Registered :
            [entries[v] EXCEPT ![currentIndex' + 1] = variables[v]][currentIndex' + 1] = variables[v]
    BY <2>2, <2>3
  <2>5. heard' = <<>> \/ heard' = <<currentIndex'>>
    BY <2>1 DEF Told
  <2> QED  BY <2>1, <2>4, <2>5 DEF Followed
<1>2. CASE clear
  BY <1>2 DEF clear, Followed
<1> QED  BY <1>1, <1>2

\* Nothing else moves the index: shift, crop, cut, thin and resize move it with
\* the call setCurrentIndex makes.
LEMMA WhatMovesTheIndex ==
    ASSUME Next
    PROVE  \/ UNCHANGED currentIndex \/ tickAndWriteIntoBuffer \/ clear
           \/ \E index, before : MoveTo(index, before)
<1>1. CASE MoveIndex
  BY <1>1 DEF MoveIndex, gotoInPoint, gotoOutPoint, tickAndReadFromBuffer, setCurrentIndex
<1>2. CASE Transfer
  BY <1>2 DEF Transfer, readFromBuffer, writeIntoBuffer, fillBuffer, setValue
<1>3. CASE Mark
  BY <1>3 DEF Mark, ToggleWithinBound, setInPoint, setOutPoint, setInOutPointFullBuffer, toggleKeyPoint
<1>4. CASE Register
  BY <1>4 DEF Register, addListener, removeListeners, addVariable, removeVariable
<1>5. CASE Rearrange
  <2>1. \A shiftIndex : shiftBuffer(shiftIndex) => \E index, before : MoveTo(index, before)
    BY DEF shiftBuffer, Rearranged
  <2>2. \A start, end : cropBuffer(start, end) => \E index, before : MoveTo(index, before)
    BY DEF cropBuffer, Rearranged
  <2>3. \A start, end : cutBuffer(start, end) => \E index, before : MoveTo(index, before)
    BY DEF cutBuffer, Rearranged
  <2>4. \A size : resizeBuffer(size) =>
            UNCHANGED currentIndex \/ \E index, before : MoveTo(index, before)
    BY <2>2 DEF resizeBuffer, Rearranged
  <2>5. cropToWindow => \E start, end : cropBuffer(start, end)
    BY DEF cropToWindow
  <2> QED  BY <1>5, <2>1, <2>2, <2>3, <2>4, <2>5 DEF Rearrange, cutWindow
<1>6. ASSUME NEW lock \in BOOLEAN, setLockIndex(lock)
      PROVE  UNCHANGED currentIndex
  BY <1>6 DEF setLockIndex
<1>7. ASSUME NEW n \in Size, ThinApplies(n), thinData(n)
      PROVE  \E index, before : MoveTo(index, before)
  <2>1. MoveTo(0, 0)
    BY <1>7 DEF thinData, Rearranged
  <2> QED  BY <2>1
<1>8. ASSUME NEW size \in Size, clearBuffers(size)
      PROVE  UNCHANGED currentIndex
  BY <1>8 DEF clearBuffers
<1> QED  BY <1>1, <1>2, <1>3, <1>4, <1>5, <1>6, <1>7, <1>8 DEF Next

\* A step that moves the index of an unlocked buffer takes the variables and
\* the listeners along.
LEMMA MovedFollows ==
    ASSUME Inv, Inv', Next, Moved
    PROVE  Followed
<1>1. Parts /\ Parts'
  <2>1. Inv' <=> Parts'
    BY InvIsItsParts, PTL
  <2> QED  BY <2>1, InvIsItsParts
<1>2. ~lockIndex /\ ~UNCHANGED currentIndex
  BY DEF Moved
<1> QED  BY <1>1, <1>2, WhatMovesTheIndex, MoveToFollows, RecordingFollows

\* However the index of an unlocked buffer is moved, by ticking, jumping,
\* recording, shifting, cropping, cutting, thinning or resizing, the variables
\* have the samples at the new index afterwards.
THEOREM VariablesAlwaysFollow == Spec => VariablesFollowIndex
<1>1. Inv /\ Inv' /\ [Next]_vars =>
          [Moved => \A v \in DOMAIN entries' : variables'[v] = entries'[v][currentIndex' + 1]]_vars
  BY MovedFollows DEF Followed
<1> QED  BY <1>1, InvAlways, PTL DEF Spec, VariablesFollowIndex

\* And a registered listener is told the index it was moved to.
THEOREM ListenersAlwaysFollow == Spec => ListenersFollowIndex
<1>1. Inv /\ Inv' /\ [Next]_vars =>
          [(Moved /\ heard' # <<>>) => heard' = <<currentIndex'>>]_vars
  BY MovedFollows DEF Followed
<1> QED  BY <1>1, InvAlways, PTL DEF Spec, ListenersFollowIndex
-----------------------------------------------------------------------------
(* applyProcessor *)

\* How far a processor has come: the slots behind it were processed once, those
\* in front of it were not, and it has not left the window.
Behind(i) == IF running = "forward" THEN inPoint <= i /\ i < currentIndex
                                    ELSE currentIndex < i /\ i <= outPoint

Travelling ==
    running # "idle" =>
        /\ running \in {"forward", "backward"} /\ ~lockIndex
        /\ inPoint <= currentIndex /\ currentIndex <= outPoint
        /\ visits = [i \in Slot |-> IF Behind(i) THEN 1 ELSE 0]

\* The processor's turn leaves a buffer, whatever it gave the variables.
LEMMA TurnKeepsParts ==
    ASSUME Parts, NEW stepSize \in Int, Turn, StepSize = stepSize
    PROVE  Parts'
<1>1. PICK written \in Frame :
          /\ entries' = [v \in Registered |-> [entries[v] EXCEPT ![currentIndex + 1] = written[v]]]
          /\ UNCHANGED <<bufferSize, inPoint, outPoint, lockIndex, keyPoints>>
          /\ MoveTo(Stepped(currentIndex, stepSize, inPoint, outPoint, bufferSize), currentIndex)
  BY DEF Turn
<1>2. /\ currentIndex \in Slot /\ currentIndex \in 0 .. (bufferSize' - 1) /\ currentIndex \in Int
      /\ inPoint \in Int /\ outPoint \in Int /\ keyPoints' \in Seq(Nat)
      /\ bufferSize' \in Size /\ inPoint' \in Slot' /\ outPoint' \in -1 .. (bufferSize' - 1)
  BY <1>1 DEF Parts, Slot
<1>3. Arrays(entries', bufferSize')
  BY <1>1, <1>2, WriteLeavesArrays
<1>4. Stepped(currentIndex, stepSize, inPoint, outPoint, bufferSize) \in Int
  BY <1>2, SteppedIsInteger
<1> QED  BY <1>1, <1>2, <1>3, <1>4, ThenMoved

\* applyProcessor goes to one end of the window, which is a slot.
LEMMA BeginKeepsParts ==
    ASSUME Parts, NEW direction, BeginProcessor(direction)
    PROVE  Parts'
<1> DEFINE index == IF direction = "forward" THEN inPoint ELSE outPoint
<1>1. /\ UNCHANGED <<bufferSize, inPoint, outPoint, lockIndex, keyPoints, entries>>
      /\ MoveTo(index, currentIndex)
  BY DEF BeginProcessor
<1>2. index \in Int /\ currentIndex \in 0 .. (bufferSize' - 1)
  BY <1>1 DEF Parts, Slot
<1>3. bufferSize' \in Size /\ inPoint' \in Slot' /\ outPoint' \in -1 .. (bufferSize' - 1)
  BY <1>1 DEF Parts, Slot
<1>4. keyPoints' \in Seq(Nat) /\ Arrays(entries', bufferSize')
  BY <1>1 DEF Parts
<1> HIDE DEF index
<1> QED  BY <1>1, <1>2, <1>3, <1>4, ThenMoved

\* Processing between other calls keeps the invariant, whatever the window.
LEMMA AnyNextKeepsParts ==
    ASSUME Parts, AnyNext \/ StraightNext
    PROVE  Parts'
<1>1. CASE Idle(Next)
  BY <1>1, ThinNextKeepsParts DEF Idle, ThinNext
<1>2. CASE Apply
  BY <1>2, BeginKeepsParts DEF Apply
<1>3. CASE ProcessorStep
  <2>1. Turn /\ StepSize \in Int
    BY <1>3 DEF ProcessorStep, LoopTurn, LastTurn, StepSize
  <2> QED  BY <2>1, TurnKeepsParts
<1> QED  BY <1>1, <1>2, <1>3 DEF AnyNext, StraightNext

\* The jump to the end of the window the travel starts from.
LEMMA BeginTravels ==
    ASSUME Parts, inPoint <= outPoint, Apply
    PROVE  Travelling'
<1>1. PICK direction \in {"forward", "backward"} : BeginProcessor(direction)
  BY DEF Apply
<1>2. /\ running' = direction /\ visits' = [i \in Slot |-> 0]
      /\ UNCHANGED <<bufferSize, inPoint, outPoint, lockIndex>> /\ ~lockIndex
      /\ currentIndex' = Landed(IF direction = "forward" THEN inPoint ELSE outPoint, bufferSize)
  BY <1>1 DEF Apply, BeginProcessor, MoveTo
<1>3. /\ inPoint \in Int /\ outPoint \in Int /\ bufferSize \in Nat
      /\ 0 <= inPoint /\ inPoint < bufferSize /\ 0 <= outPoint /\ outPoint < bufferSize
  BY DEF Parts, Slot
<1>4. currentIndex' = IF direction = "forward" THEN inPoint ELSE outPoint
  BY <1>2, <1>3 DEF Landed
<1>5. Slot' = Slot /\ \A i \in Slot : ~Behind(i)'
  BY <1>2, <1>3, <1>4 DEF Behind, Slot
<1>6. visits' = [i \in Slot' |-> IF Behind(i)' THEN 1 ELSE 0]
  BY <1>2, <1>5
<1> QED  BY <1>2, <1>3, <1>4, <1>6 DEF Travelling

\* The count after a turn: the slot of the turn joins those behind.
LEMMA TurnCounts ==
    ASSUME Parts, Travelling, running # "idle", Turn
    PROVE  /\ UNCHANGED <<bufferSize, inPoint, outPoint, lockIndex>>
           /\ \A i \in Slot : visits'[i] = IF Behind(i) \/ i = currentIndex THEN 1 ELSE 0
           /\ visits' = [i \in Slot |-> visits'[i]]
<1>1. /\ visits' = [visits EXCEPT ![currentIndex] = (@ + 1) % VisitBound]
      /\ UNCHANGED <<bufferSize, inPoint, outPoint, lockIndex>> /\ currentIndex \in Slot
  BY DEF Turn
<1>2. visits = [i \in Slot |-> IF Behind(i) THEN 1 ELSE 0]
  BY DEF Travelling
<1>3. visits[currentIndex] = 0
  <2>1. ~Behind(currentIndex)
    BY DEF Behind, Parts, Slot
  <2> QED  BY <1>1, <1>2, <2>1
<1>4. (0 + 1) % VisitBound = 1
  BY DEF VisitBound
<1>5. visits' = [i \in Slot |-> IF i = currentIndex THEN 1 ELSE IF Behind(i) THEN 1 ELSE 0]
  BY <1>1, <1>2, <1>3, <1>4
<1> QED  BY <1>1, <1>5

\* A turn that is not the last one steps to the next slot of the window.
LEMMA LoopTravels ==
    ASSUME Parts, Travelling, LoopTurn
    PROVE  Travelling'
<1>1. running # "idle" /\ ~AtFarEnd /\ Turn /\ UNCHANGED running
  BY DEF LoopTurn
<1>2. /\ running \in {"forward", "backward"} /\ ~lockIndex
      /\ inPoint <= currentIndex /\ currentIndex <= outPoint
  BY <1>1 DEF Travelling
<1>3. /\ inPoint \in Int /\ outPoint \in Int /\ bufferSize \in Nat /\ currentIndex \in Int
      /\ 0 <= inPoint /\ outPoint < bufferSize
  BY DEF Parts, Slot
<1> DEFINE next == currentIndex + StepSize
<1>4. /\ StepSize \in Int /\ (running = "forward" => StepSize = 1)
      /\ (running = "backward" => StepSize = -1)
  BY <1>2 DEF StepSize
<1>5. next \in Int /\ inPoint <= next /\ next <= outPoint
  BY <1>1, <1>2, <1>3, <1>4 DEF AtFarEnd
<1>6. Stepped(currentIndex, StepSize, inPoint, outPoint, bufferSize) = next
  BY <1>2, <1>3, <1>5 DEF Stepped, isIndexBetweenBounds
<1>7. UNCHANGED <<bufferSize, inPoint, outPoint, lockIndex>>
  BY <1>1, TurnCounts
<1>8. currentIndex' = next
  <2>1. MoveTo(Stepped(currentIndex, StepSize, inPoint, outPoint, bufferSize), currentIndex)
    BY <1>1 DEF Turn
  <2>2. currentIndex' = Landed(next, bufferSize)
    BY <1>2, <1>6, <1>7, <2>1 DEF MoveTo
  <2> QED  BY <1>3, <1>5, <2>2 DEF Landed
<1> HIDE DEF next
<1>9. Slot' = Slot /\ \A i \in Slot : Behind(i)' <=> Behind(i) \/ i = currentIndex
  <2>1. Slot' = Slot
    BY <1>7 DEF Slot
  <2>2. ASSUME NEW i \in Slot
        PROVE  Behind(i)' <=> Behind(i) \/ i = currentIndex
    <3>1. i \in Int
      BY <1>3 DEF Slot
    <3>2. CASE running = "forward"
      BY <1>1, <1>2, <1>3, <1>4, <1>7, <1>8, <3>1, <3>2 DEF Behind, next
    <3>3. CASE running = "backward"
      BY <1>1, <1>2, <1>3, <1>4, <1>7, <1>8, <3>1, <3>3 DEF Behind, next
    <3> QED  BY <1>2, <3>2, <3>3
  <2> QED  BY <2>1, <2>2
<1>10. visits' = [i \in Slot' |-> IF Behind(i)' THEN 1 ELSE 0]
  BY <1>1, <1>9, TurnCounts
<1> QED  BY <1>1, <1>2, <1>5, <1>7, <1>8, <1>10 DEF Travelling

\* The last turn is at the far end, so that the whole window is behind it.
LEMMA LastTurnIsComplete ==
    ASSUME Parts, Travelling, LastTurn
    PROVE  \A i \in Slot : visits'[i] = IF InWindow(i) THEN 1 ELSE 0
<1>1. running # "idle" /\ AtFarEnd /\ Turn
  BY DEF LastTurn
<1>2. /\ running \in {"forward", "backward"}
      /\ inPoint <= currentIndex /\ currentIndex <= outPoint
  BY <1>1 DEF Travelling
<1>3. inPoint \in Int /\ outPoint \in Int /\ currentIndex \in Int /\ Slot \subseteq Int
  BY DEF Parts, Slot
<1>4. \A i \in Slot : InWindow(i) <=> Behind(i) \/ i = currentIndex
  BY <1>1, <1>2, <1>3 DEF AtFarEnd, InWindow, Behind
<1> QED  BY <1>1, <1>4, TurnCounts

\* What holds whenever a processor is at work, and when none is
StraightInv == Inv /\ Travelling

\* Every step of a program that applies processors to straight windows keeps it.
LEMMA StraightStep ==
    ASSUME StraightInv, [StraightNext]_procVars
    PROVE  StraightInv'
<1>1. Parts /\ (Inv' <=> Parts')
  BY InvIsItsParts, PTL DEF StraightInv
<1>2. Parts'
  <2>1. CASE UNCHANGED procVars
    BY <1>1, <2>1, PartsUnchanged DEF procVars
  <2> QED  BY <1>1, <2>1, AnyNextKeepsParts
<1>3. Travelling'
  <2>1. CASE UNCHANGED procVars
    BY <2>1 DEF StraightInv, Travelling, procVars, vars, Slot, Behind
  <2>2. CASE Idle(Next)
    BY <2>2 DEF Idle, Travelling
  <2>3. CASE LastTurn
    BY <2>3 DEF LastTurn, Travelling
  <2>4. CASE LoopTurn
    BY <1>1, <2>4, LoopTravels DEF StraightInv
  <2> QED  BY <1>1, <2>1, <2>2, <2>3, <2>4, BeginTravels DEF StraightNext, ProcessorStep
<1> QED  BY <1>1, <1>2, <1>3 DEF StraightInv

\* While a processor runs over a window that does not wrap around, it is inside the window and
\* has visited each slot behind it once and none before it.
LEMMA StraightAlways == StraightSpec => []StraightInv
<1>1. ProcInit => StraightInv
  BY InitHasParts, InvIsItsParts DEF ProcInit, StraightInv, Travelling
<1> QED  BY <1>1, StraightStep, PTL DEF StraightSpec

\* The same of a buffer that has processors applied to its window, between any
\* two of their turns.
THEOREM ProcessedBufferStaysConsistent == StraightSpec => []BufferConsistent
<1>1. StraightInv => BufferConsistent
  BY DEF StraightInv, Inv, BufferConsistent
<1> QED  BY <1>1, StraightAlways, PTL

\* The jump to where a processor begins and each of its turns move the index as
\* the other calls do.
LEMMA ProcessedFollows ==
    ASSUME StraightInv, StraightInv', [StraightNext]_procVars, Moved
    PROVE  Followed
<1>1. Inv /\ Inv' /\ Parts'
  <2>1. Inv' <=> Parts'
    BY InvIsItsParts, PTL
  <2> QED  BY <2>1 DEF StraightInv
<1>2. ~lockIndex /\ ~UNCHANGED currentIndex
  BY DEF Moved
<1>3. CASE Idle(Next)
  BY <1>1, <1>3, MovedFollows DEF Idle
<1>4. CASE Apply \/ ProcessorStep
  <2>1. \E index, before : MoveTo(index, before)
    BY <1>4 DEF Apply, BeginProcessor, ProcessorStep, LoopTurn, LastTurn, Turn
  <2> QED  BY <1>1, <1>2, <2>1, MoveToFollows
<1> QED  BY <1>2, <1>3, <1>4 DEF StraightNext, procVars, vars

\* Variables and listeners follow the index through a processor, too, which
\* takes it along slot by slot and writes to the variables at each.
THEOREM ProcessorsTakeAlong == StraightSpec => VariablesFollowIndex /\ ListenersFollowIndex
<1>1. StraightInv /\ StraightInv' /\ [StraightNext]_procVars =>
          /\ [Moved => \A v \in DOMAIN entries' : variables'[v] = entries'[v][currentIndex' + 1]]_vars
          /\ [(Moved /\ heard' # <<>>) => heard' = <<currentIndex'>>]_vars
  BY ProcessedFollows DEF Followed
<1> QED  BY <1>1, StraightAlways, PTL DEF StraightSpec, VariablesFollowIndex, ListenersFollowIndex

\* A processor applied to a window that does not wrap around the end of the
\* buffer has processed every slot of it once, and no other one, when the call
\* returns, in either direction.
THEOREM WindowProcessedOnce == StraightSpec => WholeWindowProcessed
<1>1. StraightInv /\ [StraightNext]_procVars =>
          [LastTurn => \A i \in Slot : visits'[i] = IF InWindow(i) THEN 1 ELSE 0]_procVars
  BY InvIsItsParts, LastTurnIsComplete DEF StraightInv
<1> QED  BY <1>1, StraightAlways, PTL DEF StraightSpec, WholeWindowProcessed
-----------------------------------------------------------------------------
(* The recorder *)

\* How many slots index is behind in, around the end of the buffer.
Distance(index, in, size) == IF index >= in THEN index - in ELSE index - in + size

\* The slot that is k slots behind in.
SlotBehind(k, in, size) == IF in + k < size THEN in + k ELSE in + k - size

\* What the variables were when slot index was written.
FrameAt(data, index) == [v \in Variable |-> data[v][index + 1]]

\* The frames of the first slots from in on.
FramesFrom(data, in, length, size) ==
    [k \in 1 .. length |-> FrameAt(data, SlotBehind(k - 1, in, size))]

\* Inductive: all variables are recorded, and the index is in the window.
HistoryInv ==
    /\ Parts /\ outPoint \in Slot /\ lockIndex = FALSE /\ DOMAIN entries = Variable
    /\ Distance(currentIndex, inPoint, bufferSize) <= Distance(outPoint, inPoint, bufferSize)
-----------------------------------------------------------------------------
(* The arithmetic of a ring *)

\* A remainder of what is at most once around.
LEMMA OnceAround ==
    ASSUME NEW a \in Nat, NEW b \in Nat \ {0}, a < 2 * b
    PROVE  a % b = IF a < b THEN a ELSE a - b
<1> DEFINE q == a \div b
           r == a % b
<1>1. q \in Int /\ r \in 0 .. (b - 1) /\ a = b * q + r
  OBVIOUS
<1> HIDE DEF q, r
<1>2. q >= 0
  <2>1. SUFFICES ASSUME q <= -1
                 PROVE  FALSE
    BY <1>1
  <2>2. b * q <= -b
    <3>1. b * (q + 1) <= 0 /\ b * (q + 1) = b * q + b
      BY <1>1, <2>1
    <3> QED  BY <3>1, <1>1
  <2> QED  BY <1>1, <2>2
<1>3. q <= 1
  <2>1. SUFFICES ASSUME q >= 2
                 PROVE  FALSE
    BY <1>1
  <2>2. b * q >= 2 * b
    <3>1. b * (q - 2) >= 0 /\ b * (q - 2) = b * q - 2 * b
      BY <1>1, <2>1
    <3> QED  BY <3>1, <1>1
  <2> QED  BY <1>1, <2>2
<1>4. CASE q = 0
  BY <1>1, <1>4 DEF r
<1>5. CASE q = 1
  BY <1>1, <1>5 DEF r
<1> QED  BY <1>1, <1>2, <1>3, <1>4, <1>5

\* The distance of two slots is less than the size.
LEMMA DistanceInRange ==
    ASSUME NEW size \in Nat \ {0}, NEW in \in 0 .. (size - 1), NEW index \in 0 .. (size - 1)
    PROVE  /\ Distance(index, in, size) \in 0 .. (size - 1)
           /\ (index - in + size) % size = Distance(index, in, size)
<1>1. Distance(index, in, size) \in 0 .. (size - 1)
  BY DEF Distance
<1> DEFINE a == index - in + size
<1>2. a \in Nat /\ a < 2 * size
  OBVIOUS
<1>3. (IF a < size THEN a ELSE a - size) = Distance(index, in, size)
  BY DEF Distance
<1> HIDE DEF a
<1>4. a % size = IF a < size THEN a ELSE a - size
  BY <1>2, OnceAround
<1>5. a % size = Distance(index, in, size)
  BY <1>3, <1>4
<1> QED  BY <1>1, <1>5 DEF a

\* Walking on from a slot ends in a slot.
LEMMA SlotBehindInRange ==
    ASSUME NEW size \in Nat \ {0}, NEW in \in 0 .. (size - 1), NEW k \in 0 .. (size - 1)
    PROVE  /\ SlotBehind(k, in, size) \in 0 .. (size - 1)
           /\ (in + k) % size = SlotBehind(k, in, size)
<1> DEFINE a == in + k
<1>1. a \in Nat /\ a < 2 * size
  OBVIOUS
<1>2. (IF a < size THEN a ELSE a - size) = SlotBehind(k, in, size)
  BY DEF SlotBehind
<1> HIDE DEF a
<1>3. a % size = IF a < size THEN a ELSE a - size
  BY <1>1, OnceAround
<1>4. a % size = SlotBehind(k, in, size)
  BY <1>2, <1>3
<1>5. SlotBehind(k, in, size) \in 0 .. (size - 1)
  BY DEF SlotBehind
<1> QED  BY <1>4, <1>5 DEF a

\* Walking as far as a slot is behind ends in that slot, and the other way round.
LEMMA WalkThere ==
    ASSUME NEW size \in Nat \ {0}, NEW in \in 0 .. (size - 1), NEW index \in 0 .. (size - 1)
    PROVE  SlotBehind(Distance(index, in, size), in, size) = index
BY DEF Distance, SlotBehind

\* Slots at different distances are different slots.
LEMMA WalkBack ==
    ASSUME NEW size \in Nat \ {0}, NEW in \in 0 .. (size - 1), NEW k \in 0 .. (size - 1)
    PROVE  Distance(SlotBehind(k, in, size), in, size) = k
BY DEF Distance, SlotBehind
-----------------------------------------------------------------------------
(* Frames *)

\* A slot of the arrays holds a frame.
LEMMA SlotHoldsFrame ==
    ASSUME NEW size \in Nat \ {0}, NEW data, Arrays(data, size), DOMAIN data = Variable,
           NEW index \in 0 .. (size - 1)
    PROVE  FrameAt(data, index) \in Frame
<1>1. index + 1 \in 1 .. size
  BY SlotIsPosition
<1>2. \A v \in Variable : data[v][index + 1] \in Value
  BY <1>1 DEF Arrays
<1> QED  BY <1>2 DEF FrameAt, Frame

\* The frames from a slot on are a list of frames.
LEMMA FramesAreList ==
    ASSUME NEW size \in Nat \ {0}, NEW data, Arrays(data, size), DOMAIN data = Variable,
           NEW in \in 0 .. (size - 1), NEW length \in 0 .. size
    PROVE  /\ FramesFrom(data, in, length, size) \in Seq(Frame)
           /\ Len(FramesFrom(data, in, length, size)) = length
           /\ \A k \in 1 .. length :
                 FramesFrom(data, in, length, size)[k] = FrameAt(data, SlotBehind(k - 1, in, size))
<1> DEFINE new == FramesFrom(data, in, length, size)
           slot(k) == SlotBehind(k - 1, in, size)
<1>1. \A k \in 1 .. length : slot(k) \in 0 .. (size - 1)
  <2> TAKE k \in 1 .. length
  <2>1. k - 1 \in 0 .. (size - 1)
    OBVIOUS
  <2> QED  BY <2>1, SlotBehindInRange
<1>2. new = [k \in 1 .. length |-> FrameAt(data, slot(k))]
  BY DEF FramesFrom
<1> HIDE DEF slot
<1>3. \A k \in 1 .. length : FrameAt(data, slot(k)) \in Frame
  BY <1>1, SlotHoldsFrame
<1> HIDE DEF new
<1>4. new \in [1 .. length -> Frame] /\ \A k \in 1 .. length : new[k] = FrameAt(data, slot(k))
  BY <1>2, <1>3
<1>5. new \in Seq(Frame) /\ Len(new) = length
  BY <1>4
<1> QED  BY <1>4, <1>5 DEF new, slot

\* Reading a slot while all variables are recorded shows the frame in it.
LEMMA ReadIsFrameAt ==
    ASSUME NEW data, DOMAIN data = Variable, NEW index
    PROVE  ReadAt(data, index) = FrameAt(data, index)
BY DEF ReadAt, FrameAt

\* Writing puts the frame into one slot and leaves the others.
LEMMA WriteOneFrame ==
    ASSUME HistoryInv, NEW index \in Slot, NEW other \in Slot
    PROVE  FrameAt(WrittenAt(index), other) = IF other = index THEN variables ELSE FrameAt(entries, other)
<1>1. /\ bufferSize \in Nat /\ index \in 0 .. (bufferSize - 1) /\ other \in 0 .. (bufferSize - 1)
      /\ variables \in [Variable -> Value] /\ Registered = Variable
      /\ \A v \in Variable : entries[v] \in [1 .. bufferSize -> Value]
  BY DEF HistoryInv, Parts, Slot, Registered, Arrays, Frame
<1>2. index + 1 \in 1 .. bufferSize /\ other + 1 \in 1 .. bufferSize
  BY <1>1
<1>3. WrittenAt(index) = [v \in Variable |-> [entries[v] EXCEPT ![index + 1] = variables[v]]]
  BY <1>1 DEF WrittenAt
<1>4. CASE other = index
  <2>1. \A v \in Variable : WrittenAt(index)[v][other + 1] = variables[v]
    BY <1>1, <1>2, <1>3, <1>4
  <2>2. variables = [v \in Variable |-> variables[v]]
    BY <1>1
  <2> QED  BY <1>4, <2>1, <2>2 DEF FrameAt
<1>5. CASE other # index
  <2>1. other + 1 # index + 1
    BY <1>1, <1>5
  <2>2. \A v \in Variable : WrittenAt(index)[v][other + 1] = entries[v][other + 1]
    BY <1>1, <1>2, <1>3, <2>1
  <2> QED  BY <1>5, <2>2 DEF FrameAt
<1> QED  BY <1>4, <1>5
-----------------------------------------------------------------------------
(* The list of frames that a buffer holds *)

\* What the mapping says of a state: the frames are those from the in-point on.
Mapped ==
    /\ WindowLength = Distance(outPoint, inPoint, bufferSize) + 1
    /\ Cursor = Distance(currentIndex, inPoint, bufferSize) + 1
    /\ WindowLength \in 1 .. bufferSize /\ Cursor \in 1 .. WindowLength
    /\ Frames \in Seq(Frame) /\ Len(Frames) = WindowLength
    /\ \A k \in 1 .. WindowLength : Frames[k] = FrameAt(entries, SlotBehind(k - 1, inPoint, bufferSize))
    /\ Frames[Cursor] = FrameAt(entries, currentIndex)

\* The ranges the arithmetic needs.
LEMMA Ranges ==
    ASSUME HistoryInv
    PROVE  /\ bufferSize \in Nat \ {0} /\ inPoint \in 0 .. (bufferSize - 1)
           /\ outPoint \in 0 .. (bufferSize - 1) /\ currentIndex \in 0 .. (bufferSize - 1)
           /\ Arrays(entries, bufferSize) /\ DOMAIN entries = Variable /\ Registered = Variable
           /\ variables \in Frame
BY DEF HistoryInv, Parts, Slot, Registered

\* The remainders of the mapping are distances from the in-point.
LEMMA MappingIsMapped == HistoryInv => Mapped
<1> SUFFICES ASSUME HistoryInv
             PROVE  Mapped
  OBVIOUS
<1>1. /\ bufferSize \in Nat \ {0} /\ inPoint \in 0 .. (bufferSize - 1)
      /\ outPoint \in 0 .. (bufferSize - 1) /\ currentIndex \in 0 .. (bufferSize - 1)
      /\ Arrays(entries, bufferSize) /\ DOMAIN entries = Variable
  BY Ranges
<1> DEFINE last == Distance(outPoint, inPoint, bufferSize)
           here == Distance(currentIndex, inPoint, bufferSize)
<1>2. last \in 0 .. (bufferSize - 1) /\ WindowLength = last + 1
  BY <1>1, DistanceInRange DEF WindowLength
<1>3. here \in 0 .. (bufferSize - 1) /\ Cursor = here + 1
  BY <1>1, DistanceInRange DEF Cursor
<1>4. here <= last
  BY DEF HistoryInv
<1>5. SlotBehind(here, inPoint, bufferSize) = currentIndex
  BY <1>1, WalkThere
<1> HIDE DEF last, here
<1>6. WindowLength \in 1 .. bufferSize /\ Cursor \in 1 .. WindowLength
  BY <1>1, <1>2, <1>3, <1>4
<1>7. ASSUME NEW k \in 1 .. WindowLength
      PROVE  SlotOf(k) = SlotBehind(k - 1, inPoint, bufferSize)
  <2>1. k - 1 \in 0 .. (bufferSize - 1) /\ inPoint + k - 1 = inPoint + (k - 1)
    BY <1>1, <1>6
  <2>2. (inPoint + (k - 1)) % bufferSize = SlotBehind(k - 1, inPoint, bufferSize)
    BY <1>1, <2>1, SlotBehindInRange
  <2> QED  BY <2>1, <2>2 DEF SlotOf
<1>8. Frames = FramesFrom(entries, inPoint, WindowLength, bufferSize)
  BY <1>7 DEF Frames, FramesFrom, FrameAt
<1>9. WindowLength \in 0 .. bufferSize
  BY <1>1, <1>6
<1>10. /\ Frames \in Seq(Frame) /\ Len(Frames) = WindowLength
       /\ \A k \in 1 .. WindowLength :
             Frames[k] = FrameAt(entries, SlotBehind(k - 1, inPoint, bufferSize))
  BY <1>1, <1>8, <1>9, FramesAreList
<1>11. Frames[Cursor] = FrameAt(entries, currentIndex)
  <2>1. Cursor - 1 = here
    BY <1>1, <1>3
  <2> QED  BY <1>5, <1>6, <1>10, <2>1
<1> QED  BY <1>2, <1>3, <1>6, <1>10, <1>11 DEF Mapped, last, here

\* The same of the next state.
LEMMA MappedNext == HistoryInv' => Mapped'
BY MappingIsMapped, PTL
-----------------------------------------------------------------------------
(* Moving the index in the window *)

\* Who walks from the in-point to the out-point meets the slots of the window.
LEMMA WindowIsBehind ==
    ASSUME HistoryInv, NEW index \in Slot
    PROVE  InWindow(index) <=> Distance(index, inPoint, bufferSize) <= Distance(outPoint, inPoint, bufferSize)
<1>1. /\ bufferSize \in Nat \ {0} /\ inPoint \in 0 .. (bufferSize - 1)
      /\ outPoint \in 0 .. (bufferSize - 1) /\ index \in 0 .. (bufferSize - 1)
  BY Ranges DEF Slot
<1> QED  BY <1>1 DEF InWindow, Distance

\* A step from a slot of a window stays in it.
LEMMA SteppedStays ==
    ASSUME NEW size \in Nat \ {0}, NEW in \in 0 .. (size - 1), NEW out \in 0 .. (size - 1),
           NEW index \in 0 .. (size - 1), NEW stepSize \in Int,
           Distance(index, in, size) <= Distance(out, in, size)
    PROVE  /\ Stepped(index, stepSize, in, out, size) \in 0 .. (size - 1)
           /\ Distance(Stepped(index, stepSize, in, out, size), in, size) <= Distance(out, in, size)
<1> DEFINE to == Stepped(index, stepSize, in, out, size)
           next == index + stepSize
<1>1. next \in Int
  OBVIOUS
<1>2. CASE isIndexBetweenBounds(next, in, out, size)
  <2>1. to = next
    BY <1>2 DEF Stepped
  <2>2. 0 <= next /\ next < size /\ (IF in <= out THEN in <= next /\ next <= out ELSE next <= out \/ next > in)
    BY <1>2 DEF isIndexBetweenBounds
  <2> HIDE DEF to, next
  <2>3. next \in 0 .. (size - 1) /\ Distance(next, in, size) <= Distance(out, in, size)
    BY <1>1, <2>2 DEF Distance
  <2> QED  BY <2>1, <2>3 DEF to
<1>3. CASE ~isIndexBetweenBounds(next, in, out, size)
  <2>1. to \in {in, out}
    BY <1>3 DEF Stepped
  <2> HIDE DEF to
  <2>2. Distance(in, in, size) <= Distance(out, in, size)
    BY DEF Distance
  <2>3. Distance(out, in, size) <= Distance(out, in, size)
    BY DEF Distance
  <2> QED  BY <2>1, <2>2, <2>3 DEF to
<1> QED  BY <1>2, <1>3

\* No step at all from a slot of a window that starts at 0 stays where it is.
LEMMA SteppedByNone ==
    ASSUME NEW size \in Nat \ {0}, NEW out \in 0 .. (size - 1), NEW index \in 0 .. out
    PROVE  Stepped(index, 0, 0, out, size) = index
BY DEF Stepped, isIndexBetweenBounds

\* What is shown after a move is the frame at the cursor.
LEMMA MoveReplays ==
    ASSUME HistoryInv, HistoryInv', UNCHANGED <<bufferSize, inPoint, outPoint, entries>>,
           variables' = FrameAt(entries, currentIndex')
    PROVE  History!Replay
<1>1. UNCHANGED <<Frames, bufferSize, WindowLength>>
  BY DEF Frames, WindowLength, SlotOf
<1>2. Cursor' \in 1 .. WindowLength' /\ Frames'[Cursor'] = FrameAt(entries', currentIndex')
  BY MappedNext DEF Mapped
<1>3. Frames \in Seq(Frame) /\ Len(Frames) = WindowLength
  BY MappingIsMapped DEF Mapped
<1>4. Cursor' \in DOMAIN Frames /\ variables' = Frames[Cursor']
  BY <1>1, <1>2, <1>3
<1> QED  BY <1>1, <1>4 DEF History!Replay

\* setCurrentIndex to a slot of the window.
LEMMA MoveInWindow ==
    ASSUME HistoryInv, Parts', NEW index \in Slot, setCurrentIndex(index),
           Distance(index, inPoint, bufferSize) <= Distance(outPoint, inPoint, bufferSize)
    PROVE  HistoryInv' /\ History!Replay
<1>1. /\ UNCHANGED <<bufferSize, inPoint, outPoint, lockIndex, entries>>
      /\ MoveTo(index, currentIndex) /\ ~lockIndex /\ DOMAIN entries = Variable
      /\ bufferSize \in Nat \ {0} /\ index \in 0 .. (bufferSize - 1)
  BY Ranges DEF setCurrentIndex, HistoryInv, Slot
<1>2. Landed(index, bufferSize) = index
  BY <1>1 DEF Landed
<1>3. currentIndex' = index /\ variables' = ReadAt(entries', index)
  BY <1>1, <1>2 DEF MoveTo
<1>4. HistoryInv'
  BY <1>1, <1>3 DEF HistoryInv, Slot
<1>5. variables' = FrameAt(entries, currentIndex')
  BY <1>1, <1>3, ReadIsFrameAt
<1> QED  BY <1>1, <1>4, <1>5, MoveReplays

\* The calls of somebody who looks at the recording.
LEMMA ScrubReplays ==
    ASSUME HistoryInv, Parts', Scrub
    PROVE  HistoryInv' /\ History!Replay
<1>1. /\ bufferSize \in Nat \ {0} /\ inPoint \in 0 .. (bufferSize - 1)
      /\ outPoint \in 0 .. (bufferSize - 1) /\ currentIndex \in 0 .. (bufferSize - 1)
      /\ Distance(currentIndex, inPoint, bufferSize) <= Distance(outPoint, inPoint, bufferSize)
  BY Ranges DEF HistoryInv
<1>2. CASE gotoInPoint
  <2>1. Distance(inPoint, inPoint, bufferSize) <= Distance(outPoint, inPoint, bufferSize)
    BY <1>1 DEF Distance
  <2> QED  BY <1>1, <1>2, <2>1, MoveInWindow DEF gotoInPoint, Slot
<1>3. CASE gotoOutPoint
  <2>1. Distance(outPoint, inPoint, bufferSize) <= Distance(outPoint, inPoint, bufferSize)
    BY <1>1 DEF Distance
  <2> QED  BY <1>1, <1>3, <2>1, MoveInWindow DEF gotoOutPoint, Slot
<1>4. ASSUME NEW index \in Slot, InWindow(index), setCurrentIndex(index)
      PROVE  HistoryInv' /\ History!Replay
  BY <1>4, WindowIsBehind, MoveInWindow
<1>5. ASSUME NEW stepSize \in {-2, -1, 0, 1, 2}, tickAndReadFromBuffer(stepSize)
      PROVE  HistoryInv' /\ History!Replay
  <2> DEFINE to == Stepped(currentIndex, stepSize, inPoint, outPoint, bufferSize)
  <2>1. stepSize \in Int
    OBVIOUS
  <2>2. to \in 0 .. (bufferSize - 1)
        /\ Distance(to, inPoint, bufferSize) <= Distance(outPoint, inPoint, bufferSize)
    BY <1>1, <2>1, SteppedStays
  <2>3. setCurrentIndex(to)
    BY <1>5 DEF tickAndReadFromBuffer
  <2> HIDE DEF to
  <2> QED  BY <2>2, <2>3, MoveInWindow DEF Slot
<1> QED  BY <1>2, <1>3, <1>4, <1>5 DEF Scrub

\* Reading back where the index is.
LEMMA ReadReplays ==
    ASSUME HistoryInv, Parts', readFromBuffer
    PROVE  HistoryInv' /\ History!Replay
<1>1. /\ UNCHANGED <<bufferSize, inPoint, outPoint, currentIndex, lockIndex, entries>>
      /\ variables' = ReadAt(entries, currentIndex) /\ DOMAIN entries = Variable
  BY DEF readFromBuffer, HistoryInv
<1>2. HistoryInv'
  BY <1>1 DEF HistoryInv, Slot
<1>3. variables' = FrameAt(entries, currentIndex')
  BY <1>1, ReadIsFrameAt
<1> QED  BY <1>1, <1>2, <1>3, MoveReplays
-----------------------------------------------------------------------------
(* Recording and marking *)

\* Two lists with the same frames are the same.
LEMMA SameFrames ==
    ASSUME NEW s \in Seq(Frame), NEW t \in Seq(Frame), NEW n \in Nat, Len(s) = n, Len(t) = n,
           \A k \in 1 .. n : s[k] = t[k]
    PROVE  s = t
BY SeqEqual

\* A part of a list of frames.
LEMMA PartOfList ==
    ASSUME NEW s \in Seq(Frame), NEW from \in 1 .. Len(s), NEW to \in from .. Len(s)
    PROVE  /\ SubSeq(s, from, to) \in Seq(Frame) /\ Len(SubSeq(s, from, to)) = to - from + 1
           /\ \A k \in 1 .. (to - from + 1) : SubSeq(s, from, to)[k] = s[from + k - 1]
<1>1. from \in Int /\ to \in Int /\ from <= to /\ Len(s) \in Nat
  OBVIOUS
<1>2. \A i \in from .. to : s[i] \in Frame
  OBVIOUS
<1> QED  BY <1>1, <1>2, SubSeqProperties

\* Writing at the index overwrites the frame at the cursor and no other.
LEMMA WriteOverwrites ==
    ASSUME HistoryInv, Parts', writeIntoBuffer
    PROVE  HistoryInv' /\ History!Overwrite
<1>1. /\ UNCHANGED <<bufferSize, inPoint, outPoint, currentIndex, lockIndex, variables>>
      /\ entries' = WrittenAt(currentIndex) /\ DOMAIN entries' = Variable
      /\ bufferSize \in Nat \ {0} /\ inPoint \in 0 .. (bufferSize - 1)
      /\ currentIndex \in 0 .. (bufferSize - 1) /\ variables \in Frame
  BY Ranges DEF writeIntoBuffer, WrittenAt
<1>2. HistoryInv'
  BY <1>1 DEF HistoryInv, Slot
<1>3. UNCHANGED <<WindowLength, Cursor>>
  BY <1>1 DEF WindowLength, Cursor
<1> DEFINE new == [Frames EXCEPT ![Cursor] = variables]
<1>4. /\ WindowLength \in 1 .. bufferSize /\ Cursor \in 1 .. WindowLength
      /\ Frames \in Seq(Frame) /\ Len(Frames) = WindowLength
      /\ Cursor = Distance(currentIndex, inPoint, bufferSize) + 1
      /\ \A k \in 1 .. WindowLength : Frames[k] = FrameAt(entries, SlotBehind(k - 1, inPoint, bufferSize))
  BY MappingIsMapped DEF Mapped
<1>5. /\ Frames' \in Seq(Frame) /\ Len(Frames') = WindowLength
      /\ \A k \in 1 .. WindowLength : Frames'[k] = FrameAt(entries', SlotBehind(k - 1, inPoint, bufferSize))
  BY <1>1, <1>2, <1>3, MappedNext DEF Mapped
<1>6. /\ new \in Seq(Frame) /\ Len(new) = WindowLength
      /\ \A k \in 1 .. WindowLength : new[k] = IF k = Cursor THEN variables ELSE Frames[k]
  BY <1>1, <1>4, ExceptSeq
<1> HIDE DEF new
<1>7. ASSUME NEW k \in 1 .. WindowLength
      PROVE  Frames'[k] = new[k]
  <2> DEFINE slot == SlotBehind(k - 1, inPoint, bufferSize)
  <2>1. k - 1 \in 0 .. (bufferSize - 1)
    BY <1>1, <1>4
  <2>2. slot \in Slot
    BY <1>1, <2>1, SlotBehindInRange DEF Slot
  <2>3. Distance(slot, inPoint, bufferSize) = k - 1
    BY <1>1, <2>1, WalkBack
  <2>4. k = Cursor => slot = currentIndex
    <3>0. Distance(currentIndex, inPoint, bufferSize) \in Int
      BY <1>1, DistanceInRange
    <3>1. k = Cursor => k - 1 = Distance(currentIndex, inPoint, bufferSize)
      BY <1>4, <3>0
    <3> QED  BY <1>1, <3>1, WalkThere
  <2> HIDE DEF slot
  <2>5. k = Cursor <=> slot = currentIndex
    BY <1>1, <1>4, <2>1, <2>3, <2>4
  <2>6. FrameAt(entries', slot) = IF slot = currentIndex THEN variables ELSE FrameAt(entries, slot)
    BY <1>1, <2>2, WriteOneFrame DEF Slot
  <2>7. Frames[k] = FrameAt(entries, slot) /\ Frames'[k] = FrameAt(entries', slot)
    BY <1>4, <1>5 DEF slot
  <2> QED  BY <1>6, <2>5, <2>6, <2>7
<1>8. Frames' = new
  <2>1. WindowLength \in Nat
    BY <1>1, <1>4
  <2> QED  BY <1>5, <1>6, <1>7, <2>1, SameFrames
<1> QED  BY <1>1, <1>2, <1>3, <1>8 DEF new, History!Overwrite

\* Setting a variable touches no frame.
LEMMA SettingChanges ==
    ASSUME HistoryInv, Parts', NEW v \in Variable, NEW value \in Value, setValue(v, value)
    PROVE  HistoryInv' /\ History!Change
<1>1. UNCHANGED <<bufferSize, inPoint, outPoint, currentIndex, lockIndex, entries>>
  BY DEF setValue
<1>2. HistoryInv'
  BY <1>1 DEF HistoryInv, Slot
<1>3. UNCHANGED <<Frames, Cursor>>
  BY <1>1 DEF Frames, Cursor, WindowLength, SlotOf
<1>4. variables' \in Frame
  BY DEF Parts, Frame
<1> QED  BY <1>1, <1>2, <1>3, <1>4 DEF History!Change

\* Marking the in-point at the index forgets what is before the cursor.
LEMMA InPointForgets ==
    ASSUME HistoryInv, Parts', setInPoint(currentIndex)
    PROVE  HistoryInv' /\ History!ForgetBefore
<1>1. /\ UNCHANGED <<bufferSize, outPoint, currentIndex, lockIndex, entries, variables>>
      /\ inPoint' = currentIndex
      /\ bufferSize \in Nat \ {0} /\ inPoint \in 0 .. (bufferSize - 1)
      /\ outPoint \in 0 .. (bufferSize - 1) /\ currentIndex \in 0 .. (bufferSize - 1)
  BY Ranges DEF setInPoint
<1> DEFINE here == Distance(currentIndex, inPoint, bufferSize)
           last == Distance(outPoint, inPoint, bufferSize)
<1>2. /\ Distance(currentIndex', inPoint', bufferSize) = 0
      /\ Distance(outPoint', inPoint', bufferSize) = last - here
      /\ here \in 0 .. last /\ last \in 0 .. (bufferSize - 1)
  <2>1. here <= last
    BY DEF HistoryInv
  <2> QED  BY <1>1, <2>1 DEF Distance
<1>3. HistoryInv'
  <2> HIDE DEF here, last
  <2>1. Distance(currentIndex', inPoint', bufferSize') <= Distance(outPoint', inPoint', bufferSize')
    BY <1>1, <1>2
  <2> QED  BY <1>1, <2>1 DEF HistoryInv, Slot
<1>4. /\ WindowLength = last + 1 /\ Cursor = here + 1
      /\ Frames \in Seq(Frame) /\ Len(Frames) = WindowLength
      /\ \A k \in 1 .. WindowLength : Frames[k] = FrameAt(entries, SlotBehind(k - 1, inPoint, bufferSize))
  BY MappingIsMapped DEF Mapped
<1>5. /\ WindowLength' = last - here + 1 /\ Cursor' = 1
      /\ Frames' \in Seq(Frame) /\ Len(Frames') = WindowLength'
      /\ \A k \in 1 .. WindowLength' : Frames'[k] = FrameAt(entries, SlotBehind(k - 1, currentIndex, bufferSize))
  BY <1>1, <1>2, <1>3, MappedNext DEF Mapped
<1> HIDE DEF here, last
<1> DEFINE new == SubSeq(Frames, Cursor, Len(Frames))
<1>6. /\ new \in Seq(Frame) /\ Len(new) = last - here + 1
      /\ \A k \in 1 .. (last - here + 1) : new[k] = Frames[here + k]
  <2>1. Cursor \in 1 .. Len(Frames) /\ Len(Frames) \in Cursor .. Len(Frames)
    BY <1>2, <1>4
  <2>2. /\ new \in Seq(Frame) /\ Len(new) = Len(Frames) - Cursor + 1
        /\ \A k \in 1 .. (Len(Frames) - Cursor + 1) : new[k] = Frames[Cursor + k - 1]
    BY <1>4, <2>1, PartOfList
  <2> HIDE DEF new
  <2>3. Len(Frames) - Cursor + 1 = last - here + 1
    BY <1>2, <1>4
  <2>4. \A k \in 1 .. (last - here + 1) : Cursor + k - 1 = here + k
    BY <1>2, <1>4
  <2> QED  BY <2>2, <2>3, <2>4
<1> HIDE DEF new
<1>7. ASSUME NEW k \in 1 .. (last - here + 1)
      PROVE  Frames'[k] = new[k]
  <2>1. here + k \in 1 .. WindowLength
    BY <1>1, <1>2, <1>4
  <2>2. SlotBehind(here + k - 1, inPoint, bufferSize) = SlotBehind(k - 1, currentIndex, bufferSize)
    BY <1>1, <1>2 DEF SlotBehind, Distance, here, last
  <2> DEFINE j == here + k
  <2>3. j - 1 = here + k - 1
    BY <1>1, <1>2
  <2> HIDE DEF j
  <2>4. Frames[j] = FrameAt(entries, SlotBehind(j - 1, inPoint, bufferSize))
    BY <1>4, <2>1 DEF j
  <2>5. Frames[j] = FrameAt(entries, SlotBehind(k - 1, currentIndex, bufferSize))
    BY <2>2, <2>3, <2>4
  <2>6. new[k] = Frames[j]
    BY <1>6 DEF j
  <2>7. Frames'[k] = FrameAt(entries, SlotBehind(k - 1, currentIndex, bufferSize))
    BY <1>5
  <2> QED  BY <2>5, <2>6, <2>7
<1>8. Frames' = new
  <2>1. last - here + 1 \in Nat
    BY <1>1, <1>2
  <2> QED  BY <1>5, <1>6, <1>7, <2>1, SameFrames
<1> QED  BY <1>1, <1>3, <1>5, <1>8 DEF new, History!ForgetBefore

\* Marking the out-point at the index forgets what is after the cursor.
LEMMA OutPointForgets ==
    ASSUME HistoryInv, Parts', setOutPoint(currentIndex)
    PROVE  HistoryInv' /\ History!ForgetAfter
<1>1. /\ UNCHANGED <<bufferSize, inPoint, currentIndex, lockIndex, entries, variables>>
      /\ outPoint' = currentIndex
      /\ bufferSize \in Nat \ {0} /\ inPoint \in 0 .. (bufferSize - 1)
      /\ currentIndex \in 0 .. (bufferSize - 1)
  BY Ranges DEF setOutPoint
<1> DEFINE here == Distance(currentIndex, inPoint, bufferSize)
<1>2. here \in 0 .. (bufferSize - 1)
  BY <1>1, DistanceInRange
<1>3. HistoryInv'
  <2>1. Distance(currentIndex', inPoint', bufferSize') <= Distance(outPoint', inPoint', bufferSize')
    BY <1>1, <1>2
  <2> QED  BY <1>1, <2>1 DEF HistoryInv, Slot
<1>4. /\ Cursor = here + 1 /\ Cursor \in 1 .. WindowLength /\ WindowLength \in 1 .. bufferSize
      /\ Frames \in Seq(Frame) /\ Len(Frames) = WindowLength
      /\ \A k \in 1 .. WindowLength : Frames[k] = FrameAt(entries, SlotBehind(k - 1, inPoint, bufferSize))
  BY MappingIsMapped DEF Mapped
<1>5. /\ WindowLength' = here + 1 /\ Cursor' = Cursor
      /\ Frames' \in Seq(Frame) /\ Len(Frames') = Cursor
      /\ \A k \in 1 .. Cursor : Frames'[k] = FrameAt(entries, SlotBehind(k - 1, inPoint, bufferSize))
  BY <1>1, <1>3, <1>4, MappedNext DEF Mapped
<1> HIDE DEF here
<1> DEFINE new == SubSeq(Frames, 1, Cursor)
<1>6. new \in Seq(Frame) /\ Len(new) = Cursor /\ \A k \in 1 .. Cursor : new[k] = Frames[k]
  <2>1. 1 \in 1 .. Len(Frames) /\ Cursor \in 1 .. Len(Frames)
    BY <1>1, <1>4
  <2>2. /\ new \in Seq(Frame) /\ Len(new) = Cursor - 1 + 1
        /\ \A k \in 1 .. (Cursor - 1 + 1) : new[k] = Frames[1 + k - 1]
    BY <1>4, <2>1, PartOfList
  <2> HIDE DEF new
  <2>3. Cursor - 1 + 1 = Cursor /\ Cursor \in Nat
    BY <1>2, <1>4
  <2>4. \A k \in 1 .. Cursor : 1 + k - 1 = k
    BY <2>3
  <2> QED  BY <2>2, <2>3, <2>4
<1> HIDE DEF new
<1>7. \A k \in 1 .. Cursor : k \in 1 .. WindowLength
  BY <1>1, <1>4
<1>8. \A k \in 1 .. Cursor : Frames'[k] = new[k]
  BY <1>4, <1>5, <1>6, <1>7
<1>9. Frames' = new
  <2>1. Cursor \in Nat
    BY <1>1, <1>4
  <2> QED  BY <1>5, <1>6, <1>8, <2>1, SameFrames
<1> QED  BY <1>1, <1>3, <1>5, <1>9 DEF new, History!ForgetAfter
-----------------------------------------------------------------------------
(* Recording *)

\* The slot in front is one further from the in-point, or it is the in-point
\* and the whole ring is in between.
LEMMA OneFurther ==
    ASSUME NEW size \in Nat \ {0}, NEW in \in 0 .. (size - 1), NEW index \in 0 .. (size - 1),
           NEW next, next = IF index + 1 >= size THEN 0 ELSE index + 1
    PROVE  /\ next \in 0 .. (size - 1)
           /\ next # in => Distance(next, in, size) = Distance(index, in, size) + 1
           /\ next = in => Distance(index, in, size) = size - 1 /\ Distance(next, in, size) = 0
BY DEF Distance

\* Pushing the in-point on by one slot makes it the last of the ring.
LEMMA PushedOn ==
    ASSUME NEW size \in Nat \ {0}, NEW in \in 0 .. (size - 1),
           NEW next, next = IF in + 1 >= size THEN 0 ELSE in + 1
    PROVE  /\ next \in 0 .. (size - 1)
           /\ Distance(in, next, size) = size - 1 /\ SlotBehind(size - 1, next, size) = in
           /\ \A k \in 1 .. (size - 1) : SlotBehind(k - 1, next, size) = SlotBehind(k, in, size)
BY DEF Distance, SlotBehind

\* The frames of s up to the cursor c and one more, and what is left of them
\* without the oldest.
IsLonger(longer, s, c, f) ==
    /\ longer \in Seq(Frame) /\ Len(longer) = c + 1
    /\ \A k \in 1 .. c : longer[k] = s[k]
    /\ longer[c + 1] = f
    /\ Tail(longer) \in Seq(Frame) /\ Len(Tail(longer)) = c
    /\ \A k \in 1 .. c : Tail(longer)[k] = longer[k + 1]

\* Appending a frame at the cursor makes that list.
LEMMA LongerList ==
    ASSUME NEW s \in Seq(Frame), NEW c \in 1 .. Len(s), NEW f \in Frame,
           NEW longer, longer = Append(SubSeq(s, 1, c), f)
    PROVE  IsLonger(longer, s, c, f)
<1> DEFINE part == SubSeq(s, 1, c)
<1>1. part \in Seq(Frame) /\ Len(part) = c /\ \A k \in 1 .. c : part[k] = s[k]
  <2>1. 1 \in 1 .. Len(s) /\ c \in 1 .. Len(s) /\ c \in Nat
    OBVIOUS
  <2>2. /\ part \in Seq(Frame) /\ Len(part) = c - 1 + 1
        /\ \A k \in 1 .. (c - 1 + 1) : part[k] = s[1 + k - 1]
    BY <2>1, PartOfList
  <2> HIDE DEF part
  <2>3. c - 1 + 1 = c /\ \A k \in 1 .. c : 1 + k - 1 = k
    BY <2>1
  <2> QED  BY <2>2, <2>3
<1> HIDE DEF part
<1>2. longer = Append(part, f)
  BY DEF part
<1>3. /\ longer \in Seq(Frame) /\ longer # << >> /\ Len(longer) = Len(part) + 1
      /\ \A k \in 1 .. Len(part) : longer[k] = part[k]
      /\ longer[Len(part) + 1] = f
  BY <1>1, <1>2, AppendProperties
<1>4. /\ Tail(longer) \in Seq(Frame) /\ Len(Tail(longer)) = Len(longer) - 1
      /\ \A k \in 1 .. Len(Tail(longer)) : Tail(longer)[k] = longer[k + 1]
  BY <1>3, HeadTailProperties
<1>5. c \in Nat /\ c + 1 - 1 = c
  OBVIOUS
<1>6. Len(longer) = c + 1 /\ longer[c + 1] = f /\ \A k \in 1 .. c : longer[k] = s[k]
  BY <1>1, <1>3
<1>7. Len(Tail(longer)) = c
  <2>1. Len(Tail(longer)) = Len(longer) - 1 /\ Len(longer) = c + 1
    BY <1>4, <1>6
  <2> QED  BY <1>5, <2>1
<1>8. \A k \in 1 .. c : Tail(longer)[k] = longer[k + 1]
  BY <1>4, <1>7
<1> QED  BY <1>3, <1>4, <1>6, <1>7, <1>8 DEF IsLonger

\* Recording drops what is after the cursor and, when the ring is full, the
\* oldest frame.
LEMMA TickRecords ==
    ASSUME HistoryInv, Parts', tickAndWriteIntoBuffer
    PROVE  HistoryInv' /\ History!Record
<1> DEFINE n == Next1(currentIndex)
           here == Distance(currentIndex, inPoint, bufferSize)
           longer == Append(SubSeq(Frames, 1, Cursor), variables)
           slot(k) == SlotBehind(k - 1, inPoint, bufferSize)
<1>1. /\ currentIndex' = n /\ outPoint' = n
      /\ inPoint' = IF n = inPoint THEN Next1(inPoint) ELSE inPoint
      /\ entries' = WrittenAt(n) /\ DOMAIN entries' = Variable
      /\ UNCHANGED <<bufferSize, lockIndex, variables>>
  BY Ranges DEF tickAndWriteIntoBuffer, WrittenAt
<1>2. /\ bufferSize \in Nat \ {0} /\ inPoint \in 0 .. (bufferSize - 1)
      /\ currentIndex \in 0 .. (bufferSize - 1) /\ variables \in Frame
      /\ n = (IF currentIndex + 1 >= bufferSize THEN 0 ELSE currentIndex + 1)
      /\ Next1(inPoint) = (IF inPoint + 1 >= bufferSize THEN 0 ELSE inPoint + 1)
  BY Ranges DEF Next1
<1> HIDE DEF n
<1>3. /\ n \in 0 .. (bufferSize - 1)
      /\ n # inPoint => Distance(n, inPoint, bufferSize) = here + 1
      /\ n = inPoint => here = bufferSize - 1 /\ Distance(n, inPoint, bufferSize) = 0
  BY <1>2, OneFurther
<1>4. /\ Next1(inPoint) \in 0 .. (bufferSize - 1)
      /\ Distance(inPoint, Next1(inPoint), bufferSize) = bufferSize - 1
      /\ SlotBehind(bufferSize - 1, Next1(inPoint), bufferSize) = inPoint
      /\ \A k \in 1 .. (bufferSize - 1) :
            SlotBehind(k - 1, Next1(inPoint), bufferSize) = SlotBehind(k, inPoint, bufferSize)
  BY <1>2, PushedOn
<1>5. inPoint' \in 0 .. (bufferSize - 1)
  BY <1>1, <1>2, <1>4
<1>6. HistoryInv'
  <2>1. Distance(n, inPoint', bufferSize) \in Int
    BY <1>2, <1>3, <1>5 DEF Distance
  <2>2. Distance(currentIndex', inPoint', bufferSize') <= Distance(outPoint', inPoint', bufferSize')
    BY <1>1, <2>1
  <2> QED  BY <1>1, <1>3, <2>2 DEF HistoryInv, Slot
<1>7. /\ Cursor = here + 1 /\ Cursor \in 1 .. WindowLength /\ WindowLength \in 1 .. bufferSize
      /\ Frames \in Seq(Frame) /\ Len(Frames) = WindowLength
      /\ \A k \in 1 .. WindowLength : Frames[k] = FrameAt(entries, slot(k))
  BY MappingIsMapped DEF Mapped
<1> DEFINE last == Distance(n, inPoint', bufferSize)
<1>8. /\ Cursor' = last + 1
      /\ Frames' \in Seq(Frame) /\ Len(Frames') = last + 1
      /\ \A k \in 1 .. (last + 1) : Frames'[k] = FrameAt(entries', SlotBehind(k - 1, inPoint', bufferSize))
  BY <1>1, <1>6, MappedNext DEF Mapped
<1>9. here \in 0 .. (bufferSize - 1) /\ last \in 0 .. (bufferSize - 1)
  BY <1>2, <1>3, <1>5, DistanceInRange
<1> HIDE DEF here, last
<1>10. /\ longer \in Seq(Frame) /\ Len(longer) = Cursor + 1
       /\ \A k \in 1 .. Cursor : longer[k] = Frames[k]
       /\ longer[Cursor + 1] = variables
       /\ Tail(longer) \in Seq(Frame) /\ Len(Tail(longer)) = Cursor
       /\ \A k \in 1 .. Cursor : Tail(longer)[k] = longer[k + 1]
  <2>1. Cursor \in 1 .. Len(Frames) /\ Frames \in Seq(Frame) /\ variables \in Frame
    BY <1>2, <1>7
  <2>2. longer = Append(SubSeq(Frames, 1, Cursor), variables)
    OBVIOUS
  <2> HIDE DEF longer
  <2>3. IsLonger(longer, Frames, Cursor, variables)
    BY <2>1, <2>2, LongerList
  <2> QED  BY <2>3 DEF IsLonger
<1>11. ASSUME NEW k \in 0 .. (bufferSize - 1), n # SlotBehind(k, inPoint, bufferSize), k + 1 \in 1 .. WindowLength
       PROVE  FrameAt(entries', SlotBehind(k, inPoint, bufferSize)) = Frames[k + 1]
  <2> DEFINE other == SlotBehind(k, inPoint, bufferSize)
  <2>1. other \in 0 .. (bufferSize - 1)
    BY <1>2, SlotBehindInRange
  <2>2. k + 1 - 1 = k
    OBVIOUS
  <2>3. Frames[k + 1] = FrameAt(entries, other)
    BY <1>7, <1>11, <2>2
  <2> HIDE DEF other
  <2>4. FrameAt(entries', other) = FrameAt(entries, other)
    BY <1>1, <1>3, <1>11, <2>1, WriteOneFrame DEF other, Slot
  <2> QED  BY <2>3, <2>4 DEF other
<1>12. FrameAt(entries', n) = variables
  BY <1>1, <1>3, WriteOneFrame DEF Slot
<1> HIDE DEF longer
<1>13. CASE n # inPoint
  <2>1. inPoint' = inPoint /\ last = here + 1
    BY <1>1, <1>3, <1>13 DEF last
  <2>2. Len(longer) = last + 1 /\ ~(Len(longer) > bufferSize) /\ Cursor = last
    BY <1>2, <1>7, <1>9, <1>10, <2>1
  <2>3. ASSUME NEW k \in 1 .. (last + 1)
        PROVE  Frames'[k] = longer[k]
    <3>1. Frames'[k] = FrameAt(entries', SlotBehind(k - 1, inPoint, bufferSize))
      BY <1>8, <2>1
    <3>2. k - 1 \in 0 .. (bufferSize - 1)
      BY <1>2, <1>9
    <3>3. Distance(SlotBehind(k - 1, inPoint, bufferSize), inPoint, bufferSize) = k - 1
      BY <1>2, <3>2, WalkBack
    <3>4. CASE k = last + 1
      <4>1. k - 1 = last
        BY <1>2, <1>9, <3>4
      <4>2. SlotBehind(last, inPoint, bufferSize) = n
        BY <1>2, <1>3, <2>1, WalkThere DEF last
      <4> QED  BY <1>10, <1>12, <2>2, <3>1, <3>4, <4>1, <4>2
    <3>5. CASE k # last + 1
      <4>1. k \in 1 .. Cursor /\ k \in 1 .. WindowLength /\ k - 1 # last
        BY <1>2, <1>7, <1>9, <2>2, <3>5
      <4>2. n # SlotBehind(k - 1, inPoint, bufferSize)
        BY <2>1, <3>3, <4>1 DEF last
      <4> DEFINE j == k - 1
      <4>3. j + 1 = k
        OBVIOUS
      <4> HIDE DEF j
      <4>4. FrameAt(entries', SlotBehind(j, inPoint, bufferSize)) = Frames[j + 1]
        BY <1>11, <3>2, <4>1, <4>2, <4>3 DEF j
      <4>5. Frames'[k] = Frames[k]
        BY <3>1, <4>3, <4>4 DEF j
      <4> QED  BY <1>10, <4>1, <4>5
    <3> QED  BY <3>4, <3>5
  <2>4. Frames' = longer
    <3>1. last + 1 \in Nat
      BY <1>9
    <3> QED  BY <1>8, <1>10, <2>2, <2>3, <3>1, SameFrames
  <2>5. Frames' = (IF Len(longer) > bufferSize THEN Tail(longer) ELSE longer) /\ Cursor' = Len(Frames')
    BY <1>8, <2>2, <2>4
  <2> QED  BY <1>1, <1>6, <2>5 DEF longer, History!Record
<1>14. CASE n = inPoint
  <2>1. inPoint' = Next1(inPoint) /\ last = bufferSize - 1 /\ here = bufferSize - 1
    BY <1>1, <1>3, <1>4, <1>14 DEF last
  <2>2. Len(longer) > bufferSize /\ Cursor = bufferSize /\ WindowLength = bufferSize /\ last + 1 = bufferSize
    BY <1>2, <1>7, <1>9, <1>10, <2>1
  <2>3. ASSUME NEW k \in 1 .. bufferSize
        PROVE  Frames'[k] = Tail(longer)[k]
    <3>1. Frames'[k] = FrameAt(entries', SlotBehind(k - 1, Next1(inPoint), bufferSize))
      BY <1>8, <2>1, <2>2
    <3>2. Tail(longer)[k] = longer[k + 1]
      BY <1>10, <2>2
    <3>3. CASE k = bufferSize
      <4>1. SlotBehind(k - 1, Next1(inPoint), bufferSize) = n
        BY <1>4, <1>14, <3>3
      <4> QED  BY <1>10, <1>12, <2>2, <3>1, <3>2, <3>3, <4>1
    <3>4. CASE k # bufferSize
      <4>1. /\ k \in 1 .. (bufferSize - 1) /\ k \in 0 .. (bufferSize - 1)
            /\ k + 1 \in 1 .. bufferSize /\ k # 0
        BY <1>2, <3>4
      <4>2. SlotBehind(k - 1, Next1(inPoint), bufferSize) = SlotBehind(k, inPoint, bufferSize)
        BY <1>4, <4>1
      <4>3. n # SlotBehind(k, inPoint, bufferSize)
        BY <1>2, <1>3, <1>14, <4>1, WalkBack
      <4>4. FrameAt(entries', SlotBehind(k, inPoint, bufferSize)) = Frames[k + 1]
        BY <1>11, <2>2, <4>1, <4>3
      <4>5. longer[k + 1] = Frames[k + 1]
        BY <1>10, <2>2, <4>1
      <4> QED  BY <3>1, <3>2, <4>2, <4>4, <4>5
    <3> QED  BY <3>3, <3>4
  <2>4. Frames' = Tail(longer)
    <3>1. bufferSize \in Nat /\ Len(Frames') = bufferSize /\ Len(Tail(longer)) = bufferSize
      BY <1>2, <1>8, <1>10, <2>2
    <3> QED  BY <1>8, <1>10, <2>3, <3>1, SameFrames
  <2>5. Frames' = (IF Len(longer) > bufferSize THEN Tail(longer) ELSE longer) /\ Cursor' = Len(Frames')
    BY <1>8, <2>2, <2>4
  <2> QED  BY <1>1, <1>6, <2>5 DEF longer, History!Record
<1> QED  BY <1>13, <1>14
-----------------------------------------------------------------------------
(* Rearranging *)

\* From slot 0 on, a slot is as far as its index says.
LEMMA AtFront ==
    ASSUME NEW size \in Nat \ {0}, NEW index \in 0 .. (size - 1)
    PROVE  Distance(index, 0, size) = index /\ SlotBehind(index, 0, size) = index
BY DEF Distance, SlotBehind

\* What the mapping says after the in-point was moved to 0 and the frames to
\* the first slots, as far as there were frames.
LEMMA MovedToFront ==
    ASSUME HistoryInv, HistoryInv', inPoint' = 0, NEW n \in Nat, outPoint' \in Int, outPoint' = n - 1,
           \A j \in 0 .. (n - 1) :
              FrameAt(entries', j) = FrameAt(entries, SlotBehind(j, inPoint, bufferSize))
    PROVE  /\ Cursor' = currentIndex' + 1 /\ Cursor' \in 1 .. n
           /\ Frames' \in Seq(Frame) /\ Len(Frames') = n
           /\ \A k \in 1 .. n : k \in 1 .. WindowLength => Frames'[k] = Frames[k]
           /\ Frames'[Cursor'] = FrameAt(entries', currentIndex')
<1>1. Mapped /\ Mapped'
  BY MappingIsMapped, MappedNext
<1>2. /\ bufferSize' \in Nat \ {0} /\ n - 1 \in 0 .. (bufferSize' - 1)
      /\ currentIndex' \in 0 .. (bufferSize' - 1)
  BY DEF HistoryInv, Parts, Slot
<1>3. /\ Distance(outPoint', inPoint', bufferSize') = n - 1
      /\ Distance(currentIndex', inPoint', bufferSize') = currentIndex'
  BY <1>2, AtFront
<1>4. /\ Cursor' = currentIndex' + 1 /\ WindowLength' = n /\ Cursor' \in 1 .. n
      /\ Frames' \in Seq(Frame) /\ Len(Frames') = n
      /\ Frames'[Cursor'] = FrameAt(entries', currentIndex')
  <2>1. n - 1 + 1 = n
    OBVIOUS
  <2> QED  BY <1>1, <1>3, <2>1 DEF Mapped
<1>5. \A k \in 1 .. n : Frames'[k] = FrameAt(entries', SlotBehind(k - 1, 0, bufferSize'))
  BY <1>1, <1>4 DEF Mapped
<1>6. \A k \in 1 .. WindowLength : Frames[k] = FrameAt(entries, SlotBehind(k - 1, inPoint, bufferSize))
  BY <1>1 DEF Mapped
<1>7. ASSUME NEW k \in 1 .. n, k \in 1 .. WindowLength
      PROVE  Frames'[k] = Frames[k]
  <2> DEFINE j == k - 1
  <2>1. j \in 0 .. (n - 1)
    OBVIOUS
  <2>2. SlotBehind(j, 0, bufferSize') = j
    <3> HIDE DEF j
    <3> DEFINE size == bufferSize'
    <3>1. size \in Nat \ {0} /\ n - 1 \in 0 .. (size - 1)
      BY <1>2
    <3> HIDE DEF size
    <3>2. j \in 0 .. (size - 1)
      BY <2>1, <3>1
    <3>3. j \in 0 .. (bufferSize' - 1)
      BY <3>2 DEF size
    <3> QED  BY <1>2, <3>3, AtFront
  <2>3. Frames'[k] = FrameAt(entries', SlotBehind(j, 0, bufferSize'))
    BY <1>5
  <2>4. Frames[k] = FrameAt(entries, SlotBehind(j, inPoint, bufferSize))
    BY <1>6, <1>7
  <2> HIDE DEF j
  <2> QED  BY <2>1, <2>2, <2>3, <2>4
<1> QED  BY <1>4, <1>7

\* The frame in a slot of arrays each of which was rebuilt from the slot that is
\* as many slots behind the in-point.
LEMMA RebuiltFrame ==
    ASSUME HistoryInv, NEW data, DOMAIN data = Variable, NEW j \in 0 .. (bufferSize - 1),
           \A v \in Variable : data[v][j + 1] = entries[v][((j + inPoint) % bufferSize) + 1]
    PROVE  FrameAt(data, j) = FrameAt(entries, SlotBehind(j, inPoint, bufferSize))
<1>1. bufferSize \in Nat \ {0} /\ inPoint \in 0 .. (bufferSize - 1)
  BY Ranges
<1>2. (inPoint + j) % bufferSize = SlotBehind(j, inPoint, bufferSize) /\ inPoint + j = j + inPoint
  BY <1>1, SlotBehindInRange
<1> QED  BY <1>2 DEF FrameAt

\* Each array of a rotated buffer.
LEMMA RotatedFrames ==
    ASSUME HistoryInv, NEW data,
           data = [v \in Registered |-> IF ShiftAccepted(inPoint, bufferSize)
                                        THEN Shifted(entries[v], inPoint) ELSE entries[v]]
    PROVE  \A j \in 0 .. (bufferSize - 1) :
              FrameAt(data, j) = FrameAt(entries, SlotBehind(j, inPoint, bufferSize))
<1>1. /\ bufferSize \in Nat \ {0} /\ inPoint \in 0 .. (bufferSize - 1) /\ Registered = Variable
      /\ \A v \in Variable : entries[v] \in [1 .. bufferSize -> Value]
  BY Ranges DEF Arrays
<1>2. \A v \in Variable : Len(entries[v]) = bufferSize
  BY <1>1, SamplesOfLength
<1> TAKE j \in 0 .. (bufferSize - 1)
<1>3. CASE ShiftAccepted(inPoint, bufferSize)
  <2>1. data = [v \in Variable |-> [i \in 1 .. bufferSize |->
                                      entries[v][((i - 1 + inPoint) % bufferSize) + 1]]]
    BY <1>1, <1>2, <1>3 DEF Shifted
  <2>2. j + 1 \in 1 .. bufferSize /\ j + 1 - 1 = j
    BY <1>1
  <2>3. ASSUME NEW v \in Variable
        PROVE  data[v][j + 1] = entries[v][((j + inPoint) % bufferSize) + 1]
    <3> DEFINE i == j + 1
    <3>1. data[v] = [h \in 1 .. bufferSize |-> entries[v][((h - 1 + inPoint) % bufferSize) + 1]]
      BY <2>1
    <3>2. i \in 1 .. bufferSize /\ i - 1 = j
      BY <2>2
    <3> HIDE DEF i
    <3>3. data[v][i] = entries[v][((i - 1 + inPoint) % bufferSize) + 1]
      BY <3>1, <3>2
    <3> QED  BY <3>2, <3>3 DEF i
  <2> QED  BY <2>1, <2>3, RebuiltFrame
<1>4. CASE ~ShiftAccepted(inPoint, bufferSize)
  <2>1. inPoint = 0
    BY <1>1, <1>4 DEF ShiftAccepted
  <2>2. SlotBehind(j, inPoint, bufferSize) = j
    BY <1>1, <2>1 DEF SlotBehind
  <2>3. data = [v \in Variable |-> entries[v]]
    BY <1>1, <1>4
  <2> QED  BY <2>2, <2>3 DEF FrameAt
<1> QED  BY <1>3, <1>4

\* The indices after a rotation are distances from the in-point.
LEMMA RotatedIndices ==
    ASSUME NEW size \in Nat \ {0}, NEW in \in 0 .. (size - 1), NEW index \in 0 .. (size - 1)
    PROVE  /\ CMod(index - in + size, size) = Distance(index, in, size)
           /\ NonNegative(CMod(index - in + size, size)) = Distance(index, in, size)
<1>1. index - in + size >= 0
  OBVIOUS
<1>2. CMod(index - in + size, size) = (index - in + size) % size
  BY <1>1 DEF CMod
<1>3. (index - in + size) % size = Distance(index, in, size)
      /\ Distance(index, in, size) \in 0 .. (size - 1)
  BY DistanceInRange
<1> HIDE DEF CMod, Distance
<1>4. CMod(index - in + size, size) = Distance(index, in, size)
  BY <1>2, <1>3
<1> QED  BY <1>3, <1>4 DEF NonNegative

\* A slot is where setCurrentIndex lands.
LEMMA SlotLands ==
    ASSUME NEW size \in Nat, NEW index \in 0 .. (size - 1)
    PROVE  Landed(index, size) = index
BY DEF Landed

\* Moving an unlocked index that is a slot.
LEMMA MoveLands ==
    ASSUME HistoryInv, DOMAIN entries' = Variable, bufferSize' \in Nat,
           NEW index \in 0 .. (bufferSize' - 1), NEW before, MoveTo(index, before)
    PROVE  currentIndex' = index /\ variables' = FrameAt(entries', index)
<1>1. Landed(index, bufferSize') = index
  BY SlotLands
<1>2. currentIndex' = index /\ variables' = ReadAt(entries', index)
  BY <1>1 DEF MoveTo, HistoryInv
<1> QED  BY <1>2, ReadIsFrameAt

\* Rotating the in-point to slot 0 keeps the frames and reads the one at the
\* cursor.
LEMMA ShiftReplays ==
    ASSUME HistoryInv, Parts', shiftBuffer(inPoint)
    PROVE  HistoryInv' /\ History!Replay
<1> DEFINE here == Distance(currentIndex, inPoint, bufferSize)
           last == Distance(outPoint, inPoint, bufferSize)
<1>1. /\ bufferSize \in Nat \ {0} /\ inPoint \in 0 .. (bufferSize - 1)
      /\ outPoint \in 0 .. (bufferSize - 1) /\ currentIndex \in 0 .. (bufferSize - 1)
      /\ Registered = Variable
  BY Ranges
<1>2. /\ here \in 0 .. (bufferSize - 1) /\ last \in 0 .. (bufferSize - 1) /\ here <= last
      /\ ShiftedBack(currentIndex, inPoint) = here
      /\ CMod(outPoint - inPoint + bufferSize, bufferSize) = last
  BY <1>1, DistanceInRange, RotatedIndices DEF HistoryInv, ShiftedBack
<1>3. /\ ShiftAccepted(inPoint, bufferSize) /\ inPoint' = 0 /\ outPoint' = last
      /\ entries' = [v \in Registered |-> Shifted(entries[v], inPoint)]
      /\ UNCHANGED <<bufferSize, lockIndex>>
      /\ MoveTo(Stepped(here, 0, 0, last, bufferSize), here)
  BY <1>2 DEF shiftBuffer, Rearranged
<1> HIDE DEF here, last
<1>4. Stepped(here, 0, 0, last, bufferSize) = here
  BY <1>1, <1>2, SteppedByNone
<1>5. currentIndex' = here /\ variables' = FrameAt(entries', here)
  BY <1>1, <1>2, <1>3, <1>4, MoveLands
<1>6. HistoryInv'
  <2>1. Distance(currentIndex', inPoint', bufferSize') <= Distance(outPoint', inPoint', bufferSize')
    BY <1>1, <1>2, <1>3, <1>5 DEF Distance
  <2> QED  BY <1>1, <1>2, <1>3, <2>1 DEF HistoryInv, Slot
<1>7. \A j \in 0 .. (bufferSize - 1) :
         FrameAt(entries', j) = FrameAt(entries, SlotBehind(j, inPoint, bufferSize))
  BY <1>3, RotatedFrames
<1>8. /\ Cursor' \in 1 .. (last + 1) /\ Frames' \in Seq(Frame) /\ Len(Frames') = last + 1
      /\ \A k \in 1 .. (last + 1) : k \in 1 .. WindowLength => Frames'[k] = Frames[k]
      /\ Frames'[Cursor'] = FrameAt(entries', currentIndex')
  <2> DEFINE n == last + 1
  <2>1. n \in Nat /\ outPoint' \in Int /\ outPoint' = n - 1 /\ inPoint' = 0
    BY <1>2, <1>3
  <2>2. \A j \in 0 .. (n - 1) : j \in 0 .. (bufferSize - 1)
    BY <1>1, <1>2
  <2> HIDE DEF n
  <2>3. \A j \in 0 .. (n - 1) :
           FrameAt(entries', j) = FrameAt(entries, SlotBehind(j, inPoint, bufferSize))
    BY <1>7, <2>2
  <2>4. /\ Cursor' \in 1 .. n /\ Frames' \in Seq(Frame) /\ Len(Frames') = n
        /\ \A k \in 1 .. n : k \in 1 .. WindowLength => Frames'[k] = Frames[k]
        /\ Frames'[Cursor'] = FrameAt(entries', currentIndex')
    BY <1>6, <2>1, <2>3, MovedToFront
  <2> QED  BY <2>4 DEF n
<1>9. WindowLength = last + 1 /\ Frames \in Seq(Frame) /\ Len(Frames) = last + 1
  BY MappingIsMapped DEF Mapped, last
<1>10. Frames' = Frames
  <2>1. last + 1 \in Nat
    BY <1>2
  <2> QED  BY <1>8, <1>9, <2>1, SameFrames
<1>11. Cursor' \in DOMAIN Frames /\ variables' = Frames[Cursor']
  BY <1>5, <1>8, <1>9, <1>10
<1> QED  BY <1>3, <1>6, <1>10, <1>11 DEF History!Replay

\* Making room keeps the frames, and shows what it showed or the frame at the
\* cursor.
LEMMA LargerGrows ==
    ASSUME HistoryInv, Parts', NEW size \in Size, size > bufferSize, resizeBuffer(size)
    PROVE  HistoryInv' /\ History!Grow
<1> DEFINE here  == Distance(currentIndex, inPoint, bufferSize)
           last  == Distance(outPoint, inPoint, bufferSize)
           shift == ShiftAccepted(inPoint, bufferSize)
           data  == [v \in Registered |-> IF shift THEN Shifted(entries[v], inPoint) ELSE entries[v]]
<1>1. /\ bufferSize \in Nat \ {0} /\ inPoint \in 0 .. (bufferSize - 1)
      /\ outPoint \in 0 .. (bufferSize - 1) /\ currentIndex \in 0 .. (bufferSize - 1)
      /\ Registered = Variable /\ size \in Nat
      /\ \A v \in Variable : entries[v] \in [1 .. bufferSize -> Value]
  BY Ranges, BufferAssumption DEF Size, Arrays
<1>2. /\ here \in 0 .. (bufferSize - 1) /\ last \in 0 .. (bufferSize - 1) /\ here <= last
      /\ ShiftedBack(currentIndex, inPoint) = here
      /\ CMod(outPoint - inPoint + bufferSize, bufferSize) = last
  BY <1>1, DistanceInRange, RotatedIndices DEF HistoryInv, ShiftedBack
<1>3. /\ bufferSize' = size /\ UNCHANGED lockIndex
      /\ entries' = [v \in Registered |-> Enlarged(data[v], size)]
      /\ IF shift
         THEN inPoint' = 0 /\ outPoint' = last /\ MoveTo(Stepped(here, 0, 0, last, bufferSize), here)
         ELSE UNCHANGED <<inPoint, outPoint, currentIndex, variables>>
  <2>1. ~(size < bufferSize)
    BY <1>1
  <2>2. CASE shift
    BY <1>2, <2>1, <2>2 DEF resizeBuffer, Rearranged
  <2>3. CASE ~shift
    BY <1>2, <2>1, <2>3 DEF resizeBuffer, Rearranged
  <2> QED  BY <2>2, <2>3
<1>4. \A v \in Variable : data[v] \in [1 .. bufferSize -> Value]
  BY <1>1, ShiftedArray
<1>5. \A j \in 0 .. (bufferSize - 1) :
         FrameAt(data, j) = FrameAt(entries, SlotBehind(j, inPoint, bufferSize))
  BY RotatedFrames
<1>6. ~shift => inPoint = 0
  BY <1>1 DEF ShiftAccepted
<1>7. inPoint = 0 => here = currentIndex /\ last = outPoint
  BY <1>1 DEF Distance
<1> HIDE DEF here, last, shift, data
<1>8. /\ inPoint' = 0 /\ outPoint' = last /\ currentIndex' = here
      /\ variables' = variables \/ variables' = FrameAt(entries', here)
  <2>1. CASE shift
    <3>1. Stepped(here, 0, 0, last, bufferSize) = here
      BY <1>1, <1>2, SteppedByNone
    <3>2. here \in 0 .. (bufferSize' - 1) /\ bufferSize' \in Nat
      BY <1>1, <1>2, <1>3
    <3>3. DOMAIN entries' = Variable
      BY <1>1, <1>3
    <3>4. MoveTo(here, here) /\ inPoint' = 0 /\ outPoint' = last
      BY <1>3, <2>1, <3>1
    <3> QED  BY <3>2, <3>3, <3>4, MoveLands
  <2>2. CASE ~shift
    BY <1>3, <1>6, <1>7, <2>2
  <2> QED  BY <2>1, <2>2
<1>9. ASSUME NEW j \in 0 .. (bufferSize - 1)
      PROVE  FrameAt(entries', j) = FrameAt(entries, SlotBehind(j, inPoint, bufferSize))
  <2>1. j + 1 \in 1 .. size /\ j + 1 <= bufferSize
    BY <1>1
  <2>2. \A v \in Variable : Len(data[v]) = bufferSize
    BY <1>1, <1>4, SamplesOfLength
  <2>3. \A v \in Variable : entries'[v][j + 1] = data[v][j + 1]
    BY <1>1, <1>3, <2>1, <2>2 DEF Enlarged
  <2>4. FrameAt(entries', j) = FrameAt(data, j)
    BY <2>3 DEF FrameAt
  <2> QED  BY <1>5, <2>4
<1>10. HistoryInv'
  <2>1. Distance(currentIndex', inPoint', bufferSize') <= Distance(outPoint', inPoint', bufferSize')
    BY <1>1, <1>2, <1>3, <1>8 DEF Distance
  <2>2. outPoint' \in 0 .. (bufferSize' - 1)
    BY <1>1, <1>2, <1>3, <1>8
  <2> QED  BY <1>1, <1>3, <2>1, <2>2 DEF HistoryInv, Slot
<1>11. /\ Cursor' = here + 1 /\ Frames' \in Seq(Frame) /\ Len(Frames') = last + 1
       /\ \A k \in 1 .. (last + 1) : k \in 1 .. WindowLength => Frames'[k] = Frames[k]
       /\ Frames'[Cursor'] = FrameAt(entries', here)
  <2> DEFINE n == last + 1
  <2>1. n \in Nat /\ outPoint' \in Int /\ outPoint' = n - 1 /\ inPoint' = 0
    BY <1>2, <1>8
  <2>2. \A j \in 0 .. (n - 1) : j \in 0 .. (bufferSize - 1)
    BY <1>1, <1>2
  <2> HIDE DEF n
  <2>3. \A j \in 0 .. (n - 1) :
           FrameAt(entries', j) = FrameAt(entries, SlotBehind(j, inPoint, bufferSize))
    BY <1>9, <2>2
  <2>4. /\ Cursor' = currentIndex' + 1 /\ Frames' \in Seq(Frame) /\ Len(Frames') = n
        /\ \A k \in 1 .. n : k \in 1 .. WindowLength => Frames'[k] = Frames[k]
        /\ Frames'[Cursor'] = FrameAt(entries', currentIndex')
    BY <1>10, <2>1, <2>3, MovedToFront
  <2>5. currentIndex' = here
    BY <1>8
  <2> QED  BY <2>4, <2>5 DEF n
<1>12. /\ WindowLength = last + 1 /\ Cursor = here + 1
       /\ Frames \in Seq(Frame) /\ Len(Frames) = last + 1
  BY MappingIsMapped DEF Mapped, last, here
<1>13. Frames' = Frames
  <2>1. last + 1 \in Nat
    BY <1>2
  <2> QED  BY <1>11, <1>12, <2>1, SameFrames
<1>14. Cursor' = Cursor /\ variables' \in {variables, Frames[Cursor]}
  BY <1>8, <1>11, <1>12, <1>13
<1>15. bufferSize' \in Size /\ bufferSize' > bufferSize
  BY <1>3
<1> QED  BY <1>10, <1>13, <1>14, <1>15 DEF History!Grow

\* The size after a crop is the number of slots from its first to its last.
LEMMA CropSize ==
    ASSUME NEW size \in Nat \ {0}, NEW start \in 0 .. (size - 1), NEW end \in 0 .. (size - 1)
    PROVE  computeBufferSizeAfterCrop(start, end, size) = Distance(end, start, size) + 1
<1> DEFINE a == end - start + 1 + size
           far == Distance(end, start, size)
<1>1. a \in Nat /\ far \in 0 .. (size - 1) /\ (a = far + 1 \/ a = far + 1 + size)
  BY DEF Distance
<1> HIDE DEF a, far
<1>2. CASE far + 1 < size
  <2>0. a < 2 * size
    BY <1>1, <1>2
  <2>1. a % size = IF a < size THEN a ELSE a - size
    BY <1>1, <2>0, OnceAround
  <2>2. a % size = far + 1
    BY <1>1, <1>2, <2>1
  <2> QED  BY <1>1, <2>2 DEF computeBufferSizeAfterCrop, a, far
<1>3. CASE far + 1 = size
  <2>1. a % size = 0
    BY <1>1, <1>3
  <2> QED  BY <1>3, <2>1 DEF computeBufferSizeAfterCrop, a, far
<1> QED  BY <1>1, <1>2, <1>3

\* Cropping from the in-point keeps the frames that fit, and shows the first.
LEMMA CroppedFrames ==
    ASSUME HistoryInv, Parts', NEW end \in 0 .. (bufferSize - 1), cropBuffer(inPoint, end),
           NEW n, n = Distance(end, inPoint, bufferSize) + 1
    PROVE  /\ HistoryInv' /\ bufferSize' = n /\ Cursor' = 1
           /\ Frames' \in Seq(Frame) /\ Len(Frames') = n
           /\ \A k \in 1 .. n : k \in 1 .. WindowLength => Frames'[k] = Frames[k]
           /\ variables' = Frames'[1]
<1>1. /\ bufferSize \in Nat \ {0} /\ inPoint \in 0 .. (bufferSize - 1) /\ Registered = Variable
      /\ \A v \in Variable : entries[v] \in [1 .. bufferSize -> Value]
  BY Ranges DEF Arrays
<1>2. n \in 1 .. bufferSize
  <2>1. Distance(end, inPoint, bufferSize) \in 0 .. (bufferSize - 1)
    BY <1>1, DistanceInRange
  <2> QED  BY <1>1, <2>1
<1>3. computeBufferSizeAfterCrop(inPoint, end, bufferSize) = n
  BY <1>1, CropSize
<1>4. /\ bufferSize' = n /\ inPoint' = 0 /\ outPoint' = n - 1 /\ UNCHANGED lockIndex
      /\ entries' = [v \in Registered |-> Cropped(entries[v], inPoint, end)]
      /\ \E before : MoveTo(0, before)
  BY <1>3 DEF cropBuffer, Rearranged
<1>5. DOMAIN entries' = Variable
  BY <1>1, <1>4
<1>6. currentIndex' = 0 /\ variables' = FrameAt(entries', 0)
  <2>1. 0 \in 0 .. (bufferSize' - 1) /\ bufferSize' \in Nat
    BY <1>1, <1>2, <1>4
  <2>2. PICK before : MoveTo(0, before)
    BY <1>4
  <2> QED  BY <1>5, <2>1, <2>2, MoveLands
<1>7. HistoryInv'
  <2>1. Distance(currentIndex', inPoint', bufferSize') <= Distance(outPoint', inPoint', bufferSize')
    BY <1>1, <1>2, <1>4, <1>6 DEF Distance
  <2>2. outPoint' \in 0 .. (bufferSize' - 1)
    BY <1>1, <1>2, <1>4
  <2> QED  BY <1>4, <1>5, <2>1, <2>2 DEF HistoryInv, Slot
<1>8. ASSUME NEW j \in 0 .. (n - 1)
      PROVE  FrameAt(entries', j) = FrameAt(entries, SlotBehind(j, inPoint, bufferSize))
  <2>1. \A v \in Variable : Len(entries[v]) = bufferSize
    BY <1>1, SamplesOfLength
  <2>2. entries' = [v \in Variable |-> [i \in 1 .. n |->
                                          entries[v][((i - 1 + inPoint) % bufferSize) + 1]]]
    BY <1>1, <1>3, <1>4, <2>1 DEF Cropped
  <2>3. j + 1 \in 1 .. n /\ j + 1 - 1 = j /\ j \in 0 .. (bufferSize - 1)
    BY <1>1, <1>2
  <2>4. \A v \in Variable : entries'[v][j + 1] = entries[v][((j + inPoint) % bufferSize) + 1]
    BY <2>2, <2>3
  <2> QED  BY <1>5, <2>3, <2>4, RebuiltFrame
<1>9. /\ Cursor' = currentIndex' + 1
      /\ Frames' \in Seq(Frame) /\ Len(Frames') = n
      /\ \A k \in 1 .. n : k \in 1 .. WindowLength => Frames'[k] = Frames[k]
      /\ Frames'[Cursor'] = FrameAt(entries', currentIndex')
  <2>1. n \in Nat /\ outPoint' \in Int
    BY <1>1, <1>2, <1>4
  <2> QED  BY <1>4, <1>7, <1>8, <2>1, MovedToFront
<1> QED  BY <1>4, <1>6, <1>7, <1>9

\* Making the buffer smaller keeps the oldest frames.
LEMMA SmallerShrinks ==
    ASSUME HistoryInv, Parts', NEW size \in Size, size < bufferSize, resizeBuffer(size)
    PROVE  HistoryInv' /\ History!Shrink
<1> DEFINE end == (inPoint + (size - 1)) % bufferSize
<1>1. /\ bufferSize \in Nat \ {0} /\ inPoint \in 0 .. (bufferSize - 1)
      /\ size \in Nat \ {0} /\ size - 1 \in 0 .. (bufferSize - 1)
      /\ inPoint + (size - 1) = inPoint + size - 1 /\ ~(size > bufferSize)
  BY Ranges, BufferAssumption DEF Size
<1>2. end = SlotBehind(size - 1, inPoint, bufferSize) /\ end \in 0 .. (bufferSize - 1)
  BY <1>1, SlotBehindInRange
<1>3. cropBuffer(inPoint, end)
  BY <1>1 DEF resizeBuffer
<1>4. size = Distance(end, inPoint, bufferSize) + 1
  <2>1. Distance(SlotBehind(size - 1, inPoint, bufferSize), inPoint, bufferSize) = size - 1
    BY <1>1, WalkBack
  <2> QED  BY <1>1, <1>2, <2>1
<1> HIDE DEF end
<1>5. /\ HistoryInv' /\ bufferSize' = size /\ Cursor' = 1
      /\ Frames' \in Seq(Frame) /\ Len(Frames') = size
      /\ \A k \in 1 .. size : k \in 1 .. WindowLength => Frames'[k] = Frames[k]
      /\ variables' = Frames'[1]
  BY <1>2, <1>3, <1>4, CroppedFrames
<1>6. Frames \in Seq(Frame) /\ Len(Frames) = WindowLength
  BY MappingIsMapped DEF Mapped
<1>7. Frames' \in [1 .. size -> Frame]
  BY <1>5
<1>8. \A k \in DOMAIN Frames' \cap DOMAIN Frames : Frames'[k] = Frames[k]
  BY <1>5, <1>6
<1> QED  BY <1>5, <1>7, <1>8 DEF History!Shrink

\* Cropping to a window of several frames keeps these frames.
LEMMA WindowCrops ==
    ASSUME HistoryInv, Parts', inPoint # outPoint, cropToWindow
    PROVE  HistoryInv' /\ History!Crop
<1> DEFINE last == Distance(outPoint, inPoint, bufferSize)
<1>1. /\ bufferSize \in Nat \ {0} /\ inPoint \in 0 .. (bufferSize - 1)
      /\ outPoint \in 0 .. (bufferSize - 1)
  BY Ranges
<1>2. last \in 0 .. (bufferSize - 1) /\ last # 0
  BY <1>1 DEF Distance
<1>3. cropBuffer(inPoint, outPoint)
  BY DEF cropToWindow
<1>4. WindowLength = last + 1 /\ Frames \in Seq(Frame) /\ Len(Frames) = last + 1
  BY MappingIsMapped DEF Mapped
<1>5. /\ HistoryInv' /\ bufferSize' = last + 1 /\ Cursor' = 1
      /\ Frames' \in Seq(Frame) /\ Len(Frames') = last + 1
      /\ \A k \in 1 .. (last + 1) : k \in 1 .. WindowLength => Frames'[k] = Frames[k]
      /\ variables' = Frames'[1]
  BY <1>1, <1>3, CroppedFrames
<1> HIDE DEF last
<1>6. Frames' = Frames
  <2>1. last + 1 \in Nat
    BY <1>2
  <2> QED  BY <1>4, <1>5, <2>1, SameFrames
<1>7. Len(Frames) > 1 /\ bufferSize' = Len(Frames)
  BY <1>2, <1>4, <1>5
<1> QED  BY <1>5, <1>6, <1>7 DEF History!Crop
-----------------------------------------------------------------------------
(* The refinement *)

\* A buffer that holds nothing yet holds one frame of zeros.
LEMMA InitIsRecorder == Init => HistoryInv /\ History!Init
<1> SUFFICES ASSUME Init
             PROVE  HistoryInv /\ History!Init
  OBVIOUS
<1>1. Parts /\ bufferSize \in Nat \ {0} /\ bufferSize \in Size
  BY InitHasParts DEF Parts
<1>2. /\ inPoint = 0 /\ outPoint = 0 /\ currentIndex = 0 /\ lockIndex = FALSE
      /\ entries = [v \in Variable |-> Filled(bufferSize, 0)]
      /\ variables = [v \in Variable |-> 0]
  BY DEF Init
<1>3. Distance(0, 0, bufferSize) = 0
  BY DEF Distance
<1>4. HistoryInv
  BY <1>1, <1>2, <1>3 DEF HistoryInv, Slot
<1>5. /\ WindowLength = 1 /\ Cursor = 1 /\ Frames \in Seq(Frame) /\ Len(Frames) = 1
      /\ Frames[1] = FrameAt(entries, 0)
  BY <1>2, <1>3, <1>4, MappingIsMapped DEF Mapped
<1>6. FrameAt(entries, 0) = [v \in Variable |-> 0]
  BY <1>1, <1>2 DEF FrameAt, Filled
<1>7. [v \in Variable |-> 0] \in Frame
  BY <1>2, <1>1 DEF Parts
<1>8. Frames = <<[v \in Variable |-> 0]>>
  BY <1>5, <1>6
<1> QED  BY <1>1, <1>2, <1>4, <1>5, <1>8 DEF History!Init

\* Every call of a recorder is a call of YoBuffer.
LEMMA HistoryKeepsParts ==
    ASSUME HistoryInv, HistoryNext
    PROVE  Parts'
<1>1. Parts /\ currentIndex \in Slot /\ inPoint \in Slot /\ bufferSize \in Nat
  BY DEF HistoryInv, Parts
<1>2. \A index \in Slot : index \in -1 .. bufferSize
  BY <1>1 DEF Slot
<1>3. Scrub => MoveIndex
  BY <1>2 DEF Scrub, MoveIndex
<1>4. HistoryNext => MoveIndex \/ Transfer \/ Mark \/ Rearrange
  BY <1>1, <1>3 DEF HistoryNext, Transfer, Mark, Rearrange
<1> QED  BY <1>1, <1>4, MoveIndexKeepsParts, TransferKeepsParts, MarkKeepsParts, RearrangeKeepsParts

\* Frames and cursor are made of the indices, the entries and the variables.
LEMMA MappingStands ==
    ASSUME HistoryInv, Parts', UNCHANGED <<bufferSize, inPoint, outPoint, currentIndex, lockIndex>>,
           UNCHANGED <<entries, variables>>
    PROVE  HistoryInv' /\ UNCHANGED <<Frames, Cursor, bufferSize, variables>>
<1>1. HistoryInv'
  BY DEF HistoryInv, Slot
<1>2. UNCHANGED <<Frames, Cursor>>
  BY DEF Frames, Cursor, WindowLength, SlotOf
<1> QED  BY <1>1, <1>2

\* Every call is a step of the list of frames; a key point is none of it.
LEMMA HistorySimulates ==
    ASSUME HistoryInv, HistoryNext
    PROVE  HistoryInv' /\ [History!Next]_<<Frames, Cursor, bufferSize, variables>>
<1>1. Parts'
  BY HistoryKeepsParts
<1>2. CASE Scrub \/ readFromBuffer \/ shiftBuffer(inPoint)
  BY <1>1, <1>2, ScrubReplays, ReadReplays, ShiftReplays DEF History!Next
<1>3. CASE tickAndWriteIntoBuffer \/ writeIntoBuffer
  BY <1>1, <1>3, TickRecords, WriteOverwrites DEF History!Next
<1>4. ASSUME NEW v \in Variable, NEW value \in Value, setValue(v, value)
      PROVE  HistoryInv' /\ History!Next
  BY <1>1, <1>4, SettingChanges DEF History!Next
<1>5. CASE setInPoint(currentIndex) \/ setOutPoint(currentIndex)
  BY <1>1, <1>5, InPointForgets, OutPointForgets DEF History!Next
<1>6. ASSUME NEW size \in Size, resizeBuffer(size)
      PROVE  HistoryInv' /\ History!Next
  <2>1. size < bufferSize \/ size > bufferSize
    BY <1>6 DEF resizeBuffer
  <2> QED  BY <1>1, <1>6, <2>1, LargerGrows, SmallerShrinks DEF History!Next
<1>7. CASE inPoint # outPoint /\ cropToWindow
  BY <1>1, <1>7, WindowCrops DEF History!Next
<1>8. CASE ToggleWithinBound
  BY <1>1, <1>8, MappingStands DEF ToggleWithinBound, toggleKeyPoint
<1> QED  BY <1>2, <1>3, <1>4, <1>5, <1>6, <1>7, <1>8 DEF HistoryNext

\* What is played back is what was recorded, in that order, through wrapping
\* around, rewinding and recording again, shifting, cropping and resizing: the
\* ring with its two marks implements a list of frames with a cursor.
THEOREM RingImplementsHistory == HistorySpec => ImplementsHistory
<1>1. HistoryInv /\ [HistoryNext]_vars
      => HistoryInv' /\ [History!Next]_<<Frames, Cursor, bufferSize, variables>>
  <2>1. ASSUME HistoryInv, UNCHANGED vars
        PROVE  HistoryInv' /\ UNCHANGED <<Frames, Cursor, bufferSize, variables>>
    <3>1. Parts'
      BY <2>1, PartsUnchanged DEF HistoryInv
    <3> QED  BY <2>1, <3>1, MappingStands DEF vars
  <2> QED  BY <2>1, HistorySimulates
<1> QED  BY <1>1, InitIsRecorder, PTL DEF HistorySpec, ImplementsHistory, History!Spec
=============================================================================
