------------------------- MODULE YoBufferProcessor --------------------------
(***************************************************************************)
(* YoBuffer::applyProcessor, the one call of YoBuffer that loops on its    *)
(* own state: one action per turn of the loop.  The processor is code of   *)
(* the caller; process may give the variables any value.                   *)
(***************************************************************************)
EXTENDS YoBuffer

VARIABLES
    running, \* "idle", or the way the processor travels
    visits   \* history: how often process was called for each slot

procVars == <<vars, running, visits>>

\* Bound of the model on the count of visits, which starts over behind it.
VisitBound == 4

ProcInit == Init /\ running = "idle" /\ visits = [i \in Slot |-> 0]

\* initialize, and the jump to the end the travel starts from
BeginProcessor(direction) ==
    /\ running = "idle"
    /\ running' = direction
    /\ visits' = [i \in Slot |-> 0]
    /\ UNCHANGED <<bufferSize, inPoint, outPoint, lockIndex, keyPoints, entries>>
    /\ MoveTo(IF direction = "forward" THEN inPoint ELSE outPoint, currentIndex)

\* Mutant: the loop stops in front of the far end.
AtNeighbourOfFarEnd ==
    currentIndex = IF running = "forward" THEN outPoint - 1 ELSE inPoint + 1

AtFarEnd == currentIndex = IF running = "forward" THEN outPoint ELSE inPoint

\* Mutant: the travel back steps forward.
StepSizeForward == 1

StepSize == IF running = "forward" THEN 1 ELSE -1

\* process, writeIntoBuffer, tickAndReadFromBuffer
Turn ==
    /\ currentIndex \in Slot
    /\ visits' = [visits EXCEPT ![currentIndex] = (@ + 1) % VisitBound]
    /\ \E written \in Frame :
          /\ \A v \in Variable : v \notin Registered => written[v] = variables[v]
          /\ entries' = [v \in Registered |-> [entries[v] EXCEPT ![currentIndex + 1] = written[v]]]
          /\ UNCHANGED <<bufferSize, inPoint, outPoint, lockIndex, keyPoints>>
          /\ MoveTo(Stepped(currentIndex, StepSize, inPoint, outPoint, bufferSize), currentIndex)

LoopTurn == running # "idle" /\ ~AtFarEnd /\ Turn /\ UNCHANGED running

\* The far end is processed behind the loop, and the index rolls over.
LastTurn == running # "idle" /\ AtFarEnd /\ Turn /\ running' = "idle"

ProcessorStep == LoopTurn \/ LastTurn

\* Between two calls, the caller may do everything else a buffer has.
Idle(action) == running = "idle" /\ action /\ UNCHANGED running /\ visits' = [i \in 0 .. bufferSize' - 1 |-> 0]

\* A locked buffer is not considered: its index cannot travel.
Apply == ~lockIndex /\ \E direction \in {"forward", "backward"} : BeginProcessor(direction)

\* applyProcessor on a window that does not wrap around the end of the buffer
StraightNext ==
    \/ Idle(Next)
    \/ inPoint <= outPoint /\ Apply
    \/ ProcessorStep

\* ... and on one that does (a cut can also leave no window, with an out-point
\* of -1 that no travel arrives at)
AnyNext == Idle(Next) \/ (outPoint \in Slot /\ Apply) \/ ProcessorStep

\* The call is a loop in one thread: it goes on as long as it can.
StraightSpec == ProcInit /\ [][StraightNext]_procVars /\ WF_procVars(ProcessorStep)
AnySpec == ProcInit /\ [][AnyNext]_procVars /\ WF_procVars(ProcessorStep)
-----------------------------------------------------------------------------
(* Properties *)

\* When the call is over, process has seen every slot of the window once and no
\* other slot, whichever way it travelled.
WholeWindowProcessed ==
    [][LastTurn => \A i \in Slot : visits'[i] = IF InWindow(i) THEN 1 ELSE 0]_procVars

\* "True to travel the buffer in-point to out-point, false for out-point to
\* in-point" (yo_buffer_processor.h): the travel arrives.
ProcessorTerminates == (running # "idle") ~> (running = "idle")
=============================================================================
