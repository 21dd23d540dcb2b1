---------------------------- MODULE KeyPointSet -----------------------------
(***************************************************************************)
(* What the KeyPointsHandler promises its callers: a set of buffer indices *)
(* with the usual operations and a flag.                                   *)
(***************************************************************************)
EXTENDS Integers

CONSTANT Index
VARIABLES points, enabled

Init == points = {} /\ enabled = FALSE

Toggle(i) == points' = IF i \in points THEN points \ {i} ELSE points \cup {i}
Add(i)    == points' = points \cup {i}
Remove(i) == points' = points \ {i}

\* Keep the indices met when walking from start to end, around the end of the
\* buffer when end comes first.
Keep(start, end, i) == IF start <= end THEN start <= i /\ i <= end ELSE i <= end \/ start <= i
Trim(start, end) == points' = {i \in points : Keep(start, end, i)}

Next ==
    \/ \E i \in Index : (Toggle(i) \/ Add(i) \/ Remove(i)) /\ UNCHANGED enabled
    \/ \E start, end \in Index : start # end /\ Trim(start, end) /\ UNCHANGED enabled
    \/ UNCHANGED points /\ enabled' = ~enabled
    \/ points' = {} /\ UNCHANGED enabled

Spec == Init /\ [][Next]_<<points, enabled>>
=============================================================================
