-------------------------- MODULE RecordedHistory ---------------------------
(***************************************************************************)
(* What a YoBuffer promises the program that records with it and plays     *)
(* back: a list of frames, oldest first, of bounded length, and a cursor   *)
(* in it.  There are no slots, no wrap-around and no marks.                *)
(***************************************************************************)
EXTENDS Integers, Sequences

CONSTANTS Frame, ZeroFrame, Capacity

VARIABLES frames,   \* what was recorded and not forgotten
          cursor,   \* the frame being looked at
          capacity, \* how many frames are kept
          shown     \* what the program sees: the values of its variables

Init == frames = <<ZeroFrame>> /\ cursor = 1 /\ capacity \in Capacity /\ shown = ZeroFrame

\* Recording forgets what came after the cursor, and the oldest frame when
\* there are too many.
Record ==
    LET longer == Append(SubSeq(frames, 1, cursor), shown)
    IN  /\ frames' = IF Len(longer) > capacity THEN Tail(longer) ELSE longer
        /\ cursor' = Len(frames')
        /\ UNCHANGED <<capacity, shown>>

Overwrite == frames' = [frames EXCEPT ![cursor] = shown] /\ UNCHANGED <<cursor, capacity, shown>>

\* The program is shown a frame that was recorded, and no other.
Replay == /\ cursor' \in DOMAIN frames /\ shown' = frames[cursor']
          /\ UNCHANGED <<frames, capacity>>

Change == shown' \in Frame /\ UNCHANGED <<frames, cursor, capacity>>

ForgetBefore == /\ frames' = SubSeq(frames, cursor, Len(frames)) /\ cursor' = 1
                /\ UNCHANGED <<capacity, shown>>

ForgetAfter == frames' = SubSeq(frames, 1, cursor) /\ UNCHANGED <<cursor, capacity, shown>>

Grow == /\ capacity' \in Capacity /\ capacity' > capacity
        /\ shown' \in {shown, frames[cursor]}
        /\ UNCHANGED <<frames, cursor>>

\* "If newBufferSize is too small to retain that data, the buffer is cropped to
\* [inPoint, inPoint + newBufferSize - 1]" (yo_buffer.h, resizeBuffer); when it
\* is not, what follows the data is not said.
Shrink == /\ capacity' \in Capacity /\ capacity' < capacity
          /\ frames' \in [1 .. capacity' -> Frame]
          /\ \A k \in DOMAIN frames' \cap DOMAIN frames : frames'[k] = frames[k]
          /\ cursor' = 1 /\ shown' = frames'[1]

\* Keep the frames and no room for others.
Crop == /\ Len(frames) > 1 /\ capacity' = Len(frames)
        /\ cursor' = 1 /\ shown' = frames[1] /\ UNCHANGED frames

Next == \/ Record \/ Overwrite \/ Replay \/ Change \/ ForgetBefore \/ ForgetAfter
        \/ Grow \/ Shrink \/ Crop

Spec == Init /\ [][Next]_<<frames, cursor, capacity, shown>>
=============================================================================
