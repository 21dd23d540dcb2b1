-------------------------- MODULE YoBufferHistory ---------------------------
(***************************************************************************)
(* YoBuffer as a recorder: the calls a simulation and its viewer make, and *)
(* the list of frames they see through the in-point, the out-point and the *)
(* ring of slots.  The index stays in the window and is not locked.        *)
(***************************************************************************)
EXTENDS YoBuffer

WindowLength == ((outPoint - inPoint + bufferSize) % bufferSize) + 1

\* The slot of the k-th frame, the first one being at the in-point.
SlotOf(k) == (inPoint + k - 1) % bufferSize

Frames == [k \in 1 .. WindowLength |-> [v \in Variable |-> entries[v][SlotOf(k) + 1]]]

Cursor == ((currentIndex - inPoint + bufferSize) % bufferSize) + 1

Scrub == \/ gotoInPoint \/ gotoOutPoint
         \/ \E index \in Slot : InWindow(index) /\ setCurrentIndex(index)
         \/ \E stepSize \in {-2, -1, 0, 1, 2} : tickAndReadFromBuffer(stepSize)

HistoryNext ==
    \/ Scrub
    \/ tickAndWriteIntoBuffer \/ readFromBuffer \/ writeIntoBuffer
    \/ \E v \in Variable, value \in Value : setValue(v, value)
    \/ setInPoint(currentIndex) \/ setOutPoint(currentIndex) \/ ToggleWithinBound
    \/ shiftBuffer(inPoint)
    \/ \E size \in Size : resizeBuffer(size)
    \/ inPoint # outPoint /\ cropToWindow

HistorySpec == Init /\ [][HistoryNext]_vars

History == INSTANCE RecordedHistory WITH
    ZeroFrame <- [v \in Variable |-> 0], Capacity <- Size,
    frames <- Frames, cursor <- Cursor, capacity <- bufferSize, shown <- variables

\* What is played back is what was recorded, in that order, through wrapping
\* around, rewinding and recording again, shifting, cropping and resizing: the
\* arithmetic on the in-point, the out-point and the current index never makes
\* an old or an unrecorded slot part of the history.
ImplementsHistory == History!Spec

=============================================================================
