------------------------------ MODULE YoBuffer ------------------------------
(***************************************************************************)
(* YoBuffer: the recorded history of a set of variables.  All entries have *)
(* the size of the buffer; one current index, an in-point and an out-point *)
(* are shared by them, and moving the current index reads the variables    *)
(* back from the entries and tells the listeners.  The class is used from  *)
(* one thread, so a call is one action.                                    *)
(*                                                                         *)
(* Contract of the callers (YoBuffer does not check it): indices given to  *)
(* setInPoint, setOutPoint and cropBuffer are slots of the buffer.  Calls  *)
(* whose effect C++ leaves undefined have no action: see CutBehaves.       *)
(***************************************************************************)
EXTENDS KeyPoints, BufferData

CONSTANTS Variable, \* the YoVariables of the program
          Value,    \* the samples
          MaxSize,  \* bound of the model on the size of the buffer
          MaxKeyPoints \* bound of the model on the number of key points

ASSUME BufferAssumption == 0 \in Value /\ MaxSize \in Nat \ {0}

VARIABLES
    bufferSize, inPoint, outPoint, currentIndex, lockIndex, keyPoints,
    entries,   \* the samples of each registered variable
    variables, \* the value each variable has now
    heard      \* <<i>>: the index a registered listener knows; <<>>: none registered

vars == <<bufferSize, inPoint, outPoint, currentIndex, lockIndex, keyPoints,
          entries, variables, heard>>

Registered == DOMAIN entries
Size == 1 .. MaxSize
Slot == 0 .. (bufferSize - 1)
Frame == [Variable -> Value]

TypeOK ==
    /\ bufferSize \in Size
    /\ inPoint \in Int /\ outPoint \in Int /\ currentIndex \in Int
    /\ lockIndex \in BOOLEAN
    /\ keyPoints \in Seq(Nat)
    /\ Registered \subseteq Variable /\ \A v \in Registered : entries[v] \in Seq(Value)
    /\ variables \in Frame
    /\ heard \in Seq(Int) /\ Len(heard) <= 1

\* A new buffer with some variables registered and a listener watching it.
Init ==
    /\ bufferSize \in Size
    /\ inPoint = 0 /\ outPoint = 0 /\ currentIndex = 0 /\ lockIndex = FALSE
    /\ keyPoints = <<>>
    /\ entries = [v \in Variable |-> Filled(bufferSize, 0)]
    /\ variables = [v \in Variable |-> 0]
    /\ heard = <<0>>
-----------------------------------------------------------------------------
\* The remainder of C++, which has the sign of the dividend.
CMod(a, b) == IF a >= 0 THEN a % b ELSE -((-a) % b)

\* Every assignment of a remainder to currentIndex_ is followed by this.
NonNegative(index) == IF index < 0 THEN 0 ELSE index

ReadAt(data, index) ==
    [v \in Variable |-> IF v \in DOMAIN data THEN data[v][index + 1] ELSE variables[v]]

WrittenAt(index) == [v \in Registered |-> [entries[v] EXCEPT ![index + 1] = variables[v]]]

Told(index) == IF heard = <<>> THEN <<>> ELSE <<index>>

\* setCurrentIndex brings an index that is outside the buffer back into it.
Landed(index, size) == IF index >= size THEN 0 ELSE IF index < 0 THEN size - 1 ELSE index

\* Mutant: the variables keep their values.
MoveWithoutReading(index, before) ==
    /\ currentIndex' = IF lockIndex THEN before ELSE Landed(index, bufferSize')
    /\ heard' = IF lockIndex THEN heard ELSE Told(currentIndex')
    /\ UNCHANGED variables

\* Mutant: nobody is told.
MoveWithoutTelling(index, before) ==
    /\ currentIndex' = IF lockIndex THEN before ELSE Landed(index, bufferSize')
    /\ variables' = IF lockIndex THEN variables ELSE ReadAt(entries', currentIndex')
    /\ UNCHANGED heard

\* setCurrentIndex(index) as the last call of an operation that has set
\* currentIndex_ to before: a locked buffer stays there, unread and untold.
MoveTo(index, before) ==
    IF lockIndex
    THEN currentIndex' = before /\ UNCHANGED <<variables, heard>>
    ELSE /\ currentIndex' = Landed(index, bufferSize')
         /\ variables' = ReadAt(entries', currentIndex')
         /\ heard' = Told(currentIndex')

\* YoBufferReader
isIndexBetweenBounds(index, in, out, size) ==
    /\ 0 <= index /\ index < size
    /\ IF in <= out THEN in <= index /\ index <= out ELSE index <= out \/ index > in

getBufferInOutLength(in, out, size) ==
    IF out > in THEN out - in + 1 ELSE size - (in - out) + 1

\* The index tickAndReadFromBuffer moves to from index.
Stepped(index, stepSize, in, out, size) ==
    IF isIndexBetweenBounds(index + stepSize, in, out, size) THEN index + stepSize
    ELSE IF stepSize >= 0 THEN in ELSE out
-----------------------------------------------------------------------------
(* Moving the current index *)

setCurrentIndex(index) ==
    /\ ~lockIndex
    /\ UNCHANGED <<bufferSize, inPoint, outPoint, lockIndex, keyPoints, entries>>
    /\ MoveTo(index, currentIndex)

gotoInPoint == setCurrentIndex(inPoint)
gotoOutPoint == setCurrentIndex(outPoint)

tickAndReadFromBuffer(stepSize) ==
    setCurrentIndex(Stepped(currentIndex, stepSize, inPoint, outPoint, bufferSize))

setLockIndex(lock) ==
    /\ lockIndex' = lock
    /\ UNCHANGED <<bufferSize, inPoint, outPoint, currentIndex, keyPoints, entries, variables, heard>>

Next1(index) == IF index + 1 >= bufferSize \/ index + 1 < 0 THEN 0 ELSE index + 1

\* Mutant: the in-point is not pushed on by the out-point.
tickAndOverrun ==
    /\ currentIndex' = Next1(currentIndex)
    /\ outPoint' = currentIndex'
    /\ keyPoints' = Removed(keyPoints, currentIndex')
    /\ entries' = WrittenAt(currentIndex')
    /\ heard' = Told(currentIndex')
    /\ UNCHANGED <<bufferSize, inPoint, lockIndex, variables>>

\* Ignores the lock.
tickAndWriteIntoBuffer ==
    /\ currentIndex' = Next1(currentIndex)
    /\ outPoint' = currentIndex'
    /\ inPoint' = IF outPoint' = inPoint THEN Next1(inPoint) ELSE inPoint
    /\ keyPoints' = Removed(keyPoints, currentIndex')
    /\ entries' = WrittenAt(currentIndex')
    /\ heard' = Told(currentIndex')
    /\ UNCHANGED <<bufferSize, lockIndex, variables>>

\* Reads and writes are inside the arrays.
readFromBuffer ==
    /\ currentIndex \in Slot
    /\ variables' = ReadAt(entries, currentIndex)
    /\ UNCHANGED <<bufferSize, inPoint, outPoint, currentIndex, lockIndex, keyPoints, entries, heard>>

writeIntoBuffer ==
    /\ currentIndex \in Slot
    /\ entries' = WrittenAt(currentIndex)
    /\ UNCHANGED <<bufferSize, inPoint, outPoint, currentIndex, lockIndex, keyPoints, variables, heard>>

\* The program sets one of its variables.
setValue(v, value) ==
    /\ variables' = [variables EXCEPT ![v] = value]
    /\ UNCHANGED <<bufferSize, inPoint, outPoint, currentIndex, lockIndex, keyPoints, entries, heard>>
-----------------------------------------------------------------------------
(* Marks *)

setInPoint(index) ==
    /\ inPoint' = index
    /\ keyPoints' = Trimmed(keyPoints, index, outPoint)
    /\ UNCHANGED <<bufferSize, outPoint, currentIndex, lockIndex, entries, variables, heard>>

setOutPoint(index) ==
    /\ outPoint' = index
    /\ keyPoints' = Trimmed(keyPoints, inPoint, index)
    /\ UNCHANGED <<bufferSize, inPoint, currentIndex, lockIndex, entries, variables, heard>>

setInOutPointFullBuffer ==
    /\ inPoint' = 0 /\ outPoint' = bufferSize - 1
    /\ UNCHANGED <<bufferSize, currentIndex, lockIndex, keyPoints, entries, variables, heard>>

toggleKeyPoint ==
    /\ keyPoints' = Toggled(keyPoints, currentIndex)
    /\ UNCHANGED <<bufferSize, inPoint, outPoint, currentIndex, lockIndex, entries, variables, heard>>
-----------------------------------------------------------------------------
(* Contents and listeners *)

clear ==
    /\ inPoint' = 0 /\ outPoint' = 0 /\ currentIndex' = 0
    /\ entries' = <<>> /\ keyPoints' = <<>> /\ heard' = <<>>
    /\ UNCHANGED <<bufferSize, lockIndex, variables>>

\* The indices stay what they are, whatever the new size.
clearBuffers(size) ==
    /\ bufferSize' = size
    /\ entries' = [v \in Registered |-> Filled(size, 0)]
    /\ UNCHANGED <<inPoint, outPoint, currentIndex, lockIndex, keyPoints, variables, heard>>

addVariable(v) ==
    /\ v \notin Registered
    /\ entries' = [u \in Registered \cup {v} |-> IF u = v THEN Filled(bufferSize, 0) ELSE entries[u]]
    /\ UNCHANGED <<bufferSize, inPoint, outPoint, currentIndex, lockIndex, keyPoints, variables, heard>>

removeVariable(v) ==
    /\ v \in Registered
    /\ entries' = [u \in Registered \ {v} |-> entries[u]]
    /\ UNCHANGED <<bufferSize, inPoint, outPoint, currentIndex, lockIndex, keyPoints, variables, heard>>

fillBuffer ==
    /\ entries' = [v \in Registered |-> Filled(Len(entries[v]), variables[v])]
    /\ UNCHANGED <<bufferSize, inPoint, outPoint, currentIndex, lockIndex, keyPoints, variables, heard>>

\* A new listener asks for the current index; removing it forgets it.
addListener ==
    /\ heard' = <<currentIndex>>
    /\ UNCHANGED <<bufferSize, inPoint, outPoint, currentIndex, lockIndex, keyPoints, entries, variables>>

removeListeners ==
    /\ heard' = <<>>
    /\ UNCHANGED <<bufferSize, inPoint, outPoint, currentIndex, lockIndex, keyPoints, entries, variables>>
-----------------------------------------------------------------------------
(* Rearranging the entries *)

Rearranged(Op(_)) == [v \in Registered |-> Op(entries[v])]

ShiftedBack(index, shiftIndex) == NonNegative(CMod(index - shiftIndex + bufferSize, bufferSize))

\* shiftBuffer(shiftIndex) and the tickAndReadFromBuffer(0) it ends with
shiftBuffer(shiftIndex) ==
    /\ ShiftAccepted(shiftIndex, bufferSize)
    /\ entries' = Rearranged(LAMBDA data : Shifted(data, shiftIndex))
    /\ inPoint' = 0
    /\ outPoint' = CMod(outPoint - shiftIndex + bufferSize, bufferSize)
    /\ UNCHANGED <<bufferSize, lockIndex, keyPoints>>
    /\ LET index == ShiftedBack(currentIndex, shiftIndex)
       IN  MoveTo(Stepped(index, 0, 0, outPoint', bufferSize), index)

\* cropBuffer(start, end); the marks are set to the whole of the new buffer
cropBuffer(start, end) ==
    /\ CropAccepted(start, end, bufferSize)
    /\ bufferSize' = computeBufferSizeAfterCrop(start, end, bufferSize)
    /\ entries' = Rearranged(LAMBDA data : Cropped(data, start, end))
    /\ inPoint' = 0 /\ outPoint' = bufferSize' - 1
    /\ UNCHANGED <<lockIndex, keyPoints>>
    /\ MoveTo(0, NonNegative(CMod(currentIndex - start + bufferSize', bufferSize')))

\* cropBuffer() crops to the window, and one slot further when it is one slot.
cropToWindow == cropBuffer(inPoint, IF inPoint # outPoint THEN outPoint ELSE inPoint + 1)

\* The cuts that behave.  One up to and with the slot behind the last passes
\* the checks of the code, and then writes outside the new array; without
\* entries it leaves the marks behind the buffer, and a cut of everything
\* divides by zero.
CutBehaves(start, end) ==
    /\ CutIsDefined(start, end, bufferSize)
    /\ Registered = {} => computeBufferSizeAfterCut(start, end, bufferSize) > 0

\* Mutant: the out-point stays where it was.
cutKeepingOutPoint(start, end) ==
    /\ CutAccepted(start, end, bufferSize) /\ CutBehaves(start, end)
    /\ bufferSize' = SizeAfterCut(start, end, bufferSize)
    /\ entries' = Rearranged(LAMBDA data : CutOut(data, start, end))
    /\ inPoint' = 0
    /\ UNCHANGED <<outPoint, lockIndex, keyPoints>>
    /\ MoveTo(outPoint, 0)

\* A cut that starts at 0 leaves the out-point at -1.
cutBuffer(start, end) ==
    /\ CutAccepted(start, end, bufferSize) /\ CutBehaves(start, end)
    /\ bufferSize' = SizeAfterCut(start, end, bufferSize)
    /\ entries' = Rearranged(LAMBDA data : CutOut(data, start, end))
    /\ inPoint' = 0 /\ outPoint' = start - 1
    /\ UNCHANGED <<lockIndex, keyPoints>>
    /\ MoveTo(start - 1, NonNegative(CMod(currentIndex - start + bufferSize', bufferSize')))

cutWindow == inPoint <= outPoint /\ cutBuffer(inPoint, outPoint)

\* Mutant: the buffer's size is not taken from the entries.
ThinnedSizeKept(n) == bufferSize

\* Without entries nobody computes a new size.
ThinnedSize(n) == IF Registered = {} THEN bufferSize ELSE bufferSize \div n

ThinApplies(n) == bufferSize > 2 * n

\* thinData(n): shiftBuffer, marks reset, and only then the early return, which
\* has moved the current index to 0 without a read or a notification.
thinData(n) ==
    LET shift == ShiftAccepted(inPoint, bufferSize)
        data  == IF shift THEN Rearranged(LAMBDA d : Shifted(d, inPoint)) ELSE entries
        out   == IF shift THEN CMod(outPoint - inPoint + bufferSize, bufferSize) ELSE outPoint
        index == Landed(Stepped(ShiftedBack(currentIndex, inPoint), 0, 0, out, bufferSize), bufferSize)
    IN  /\ inPoint' = 0
        /\ UNCHANGED <<lockIndex, keyPoints>>
        /\ \/ /\ ThinApplies(n)
              /\ bufferSize' = ThinnedSize(n)
              /\ entries' = [v \in Registered |-> Thinned(data[v], n)]
              /\ outPoint' = bufferSize' - 1
              /\ MoveTo(0, 0)
           \/ /\ ~ThinApplies(n)
              /\ UNCHANGED bufferSize /\ entries' = data
              /\ outPoint' = out /\ currentIndex' = 0
              /\ IF shift /\ ~lockIndex
                 THEN variables' = ReadAt(data, index) /\ heard' = Told(index)
                 ELSE UNCHANGED <<variables, heard>>

\* resizeBuffer: a crop from the in-point, or shiftBuffer and longer arrays.
resizeBuffer(size) ==
    \/ /\ size < bufferSize
       /\ cropBuffer(inPoint, (inPoint + size - 1) % bufferSize)
    \/ /\ size > bufferSize
       /\ LET shift == ShiftAccepted(inPoint, bufferSize)
              data  == IF shift THEN Rearranged(LAMBDA d : Shifted(d, inPoint)) ELSE entries
              index == ShiftedBack(currentIndex, inPoint)
          IN  /\ bufferSize' = size
              /\ entries' = [v \in Registered |-> Enlarged(data[v], size)]
              /\ IF shift
                 THEN /\ inPoint' = 0
                      /\ outPoint' = CMod(outPoint - inPoint + bufferSize, bufferSize)
                      /\ MoveTo(Stepped(index, 0, 0, outPoint', bufferSize), index)
                 ELSE UNCHANGED <<inPoint, outPoint, currentIndex, variables, heard>>
              /\ UNCHANGED <<lockIndex, keyPoints>>
-----------------------------------------------------------------------------
(* Specifications *)

\* The new size is large enough for every index.
KeepsIndices(size) == inPoint < size /\ outPoint < size /\ currentIndex < size

MoveIndex ==
    \/ gotoInPoint \/ gotoOutPoint
    \/ \E index \in -1 .. bufferSize : setCurrentIndex(index)
    \/ \E stepSize \in {-2, -1, 0, 1, 2} : tickAndReadFromBuffer(stepSize)

Transfer ==
    \/ tickAndWriteIntoBuffer \/ readFromBuffer \/ writeIntoBuffer \/ fillBuffer
    \/ \E v \in Variable, value \in Value : setValue(v, value)

ToggleWithinBound == toggleKeyPoint /\ Len(keyPoints') <= MaxKeyPoints

Mark ==
    \/ \E index \in Slot : setInPoint(index) \/ setOutPoint(index)
    \/ setInOutPointFullBuffer
    \/ ToggleWithinBound

Register ==
    \/ clear \/ addListener \/ removeListeners
    \/ \E v \in Variable : addVariable(v) \/ removeVariable(v)

Rearrange ==
    \/ \E size \in Size : resizeBuffer(size)
    \/ \E shiftIndex \in Slot : shiftBuffer(shiftIndex)
    \/ \E start \in Slot, end \in 0 .. bufferSize : cropBuffer(start, end) \/ cutBuffer(start, end)
    \/ cropToWindow \/ cutWindow

\* Every operation, but for the calls that ThinNext and ClearNext add.
Next ==
    \/ MoveIndex \/ Transfer \/ Mark \/ Register \/ Rearrange
    \/ \E lock \in BOOLEAN : setLockIndex(lock)
    \/ \E n \in Size : ThinApplies(n) /\ thinData(n)
    \/ \E size \in Size : KeepsIndices(size) /\ clearBuffers(size)

\* thinData of a buffer that is too small for it
ThinNext == Next \/ \E n \in Size : thinData(n)

\* clearBuffers to a size that is too small for the indices
ClearNext == Next \/ \E size \in Size : clearBuffers(size)

Spec == Init /\ [][Next]_vars
ThinSpec == Init /\ [][ThinNext]_vars
ClearSpec == Init /\ [][ClearNext]_vars
-----------------------------------------------------------------------------
(* Properties *)

\* After any sequence of edits the indices are slots of the buffer, so a read
\* or a write stays inside the arrays; only the out-point may be -1, after a
\* cut of the first slots.
IndicesInBuffer ==
    TypeOK /\ inPoint \in Slot /\ currentIndex \in Slot /\ outPoint \in Slot \cup {-1}

\* The size YoBuffer computes for itself and the sizes its entries compute are
\* the same after any sequence of edits ("The new entry size does not match the
\* buffer size" is an error addEntry throws).
EntriesMatchBufferSize == \A v \in Registered : Len(entries[v]) = bufferSize

\* What the buffer keeps of its entries, their length and places in them, is so
\* of every entry although each edits its own array (see the two formulas).
BufferConsistent == IndicesInBuffer /\ EntriesMatchBufferSize

Moved == currentIndex' # currentIndex /\ ~lockIndex

\* Whatever moves the index of an unlocked buffer, shift, crop, cut, thin and
\* resize included, leaves the variables with the samples at the new index
\* (yo_buffer_reader.h: "reads the buffer at the new index, updates the
\* variables").
VariablesFollowIndex ==
    [][Moved => \A v \in DOMAIN entries' : variables'[v] = entries'[v][currentIndex' + 1]]_vars

\* And the listeners learn of it ("Receives notifications of changes to the
\* current index of a YoBuffer").
ListenersFollowIndex == [][(Moved /\ heard' # <<>>) => heard' = <<currentIndex'>>]_vars

\* The same for a buffer that may be locked.
ListenersKnowIndex == heard # <<>> => heard = <<currentIndex>>

\* The slots of the window, walking from the in-point to the out-point.
InWindow(index) ==
    IF inPoint <= outPoint THEN inPoint <= index /\ index <= outPoint
                           ELSE inPoint <= index \/ index <= outPoint

\* yo_buffer_reader.h: "True if indexToCheck lies in [inPoint, outPoint],
\* accounting for wraparound".
BetweenBoundsIsWindow ==
    \A index \in Slot :
        isIndexBetweenBounds(index, inPoint, outPoint, bufferSize) <=> InWindow(index)

\* yo_buffer_reader.h: getBufferInOutLength is "The length of [inPoint,
\* outPoint]".
InOutLengthIsWindow ==
    getBufferInOutLength(inPoint, outPoint, bufferSize)
        = Cardinality({index \in Slot : InWindow(index)})

\* yo_buffer.h: cropBuffer() "Crops the buffer to retain only [inPoint,
\* outPoint]": no more slots are left than the window had.
CropRetainsWindow ==
    [][cropToWindow => bufferSize' = Cardinality({index \in Slot : InWindow(index)})]_vars
=============================================================================
