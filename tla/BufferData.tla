----------------------------- MODULE BufferData -----------------------------
(***************************************************************************)
(* The array of samples of one YoBufferVariableEntry (AtomicDoubleArray)   *)
(* and the new array each resizing operation builds from it.  An array is  *)
(* a sequence; slot i of the code (0-based) is element i + 1.              *)
(***************************************************************************)
EXTENDS Integers, Sequences

Slots(data) == 0 .. (Len(data) - 1)

Filled(length, value) == [i \in 1 .. length |-> value]

\* The last sample is repeated in the slots that are new.
Enlarged(data, newSize) ==
    [i \in 1 .. newSize |-> IF i <= Len(data) THEN data[i] ELSE data[Len(data)]]

computeBufferSizeAfterCrop(start, end, previousSize) ==
    LET size == (end - start + 1 + previousSize) % previousSize
    IN  IF size = 0 THEN previousSize ELSE size

computeBufferSizeAfterCut(start, end, previousSize) == previousSize - (end - start + 1)

\* cropBuffer refuses what is outside the array; end may equal its length.
CropAccepted(start, end, size) == start >= 0 /\ end <= size

Cropped(data, start, end) ==
    [i \in 1 .. computeBufferSizeAfterCrop(start, end, Len(data)) |->
        data[((i - 1 + start) % Len(data)) + 1]]

CutAccepted(start, end, size) == start <= end /\ start >= 0 /\ end <= size

\* The entry survives a cut of everything: zeros in an array of the old size.
SizeAfterCut(start, end, size) ==
    LET n == computeBufferSizeAfterCut(start, end, size) IN IF n = 0 THEN size ELSE n

\* The largest slot cutBuffer writes, -1 when it writes none: a cut whose end
\* equals the length writes behind the new array.
LargestCutWrite(start, end, size) ==
    IF end + 1 < size THEN (size - 1) - (end - start + 1) ELSE start - 1

CutIsDefined(start, end, size) ==
    LargestCutWrite(start, end, size) < SizeAfterCut(start, end, size)

CutOut(data, start, end) ==
    [i \in 1 .. SizeAfterCut(start, end, Len(data)) |->
        IF i <= start THEN data[i]
        ELSE IF i + (end - start + 1) <= Len(data) THEN data[i + (end - start + 1)]
        ELSE 0]

Thinned(data, keepEveryNthPoint) ==
    [i \in 1 .. (Len(data) \div keepEveryNthPoint) |->
        data[(i - 1) * keepEveryNthPoint + 1]]

ShiftAccepted(shiftIndex, size) == 0 < shiftIndex /\ shiftIndex < size

Shifted(data, shiftIndex) ==
    IF ShiftAccepted(shiftIndex, Len(data))
    THEN [i \in 1 .. Len(data) |-> data[((i - 1 + shiftIndex) % Len(data)) + 1]]
    ELSE data
=============================================================================
