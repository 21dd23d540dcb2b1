------------------------------ MODULE Erasing -------------------------------
(***************************************************************************)
(* What the code leaves of a vector when it erases elements from it: the   *)
(* loop of KeyPointsHandler::trimKeyPoints, and erase(remove(...)) in      *)
(* YoRegistry and YoVariableList.                                          *)
(***************************************************************************)
EXTENDS Integers, Sequences

\* The elements of seq that are in T, in their order.
Kept(seq, T) ==
    LET kept[n \in 0 .. Len(seq)] ==
            IF n = 0 THEN <<>>
            ELSE IF seq[n] \in T THEN Append(kept[n - 1], seq[n]) ELSE kept[n - 1]
    IN  kept[Len(seq)]

\* erase(remove(begin, end, element), end)
Without(seq, element) == Kept(seq, {seq[i] : i \in DOMAIN seq} \ {element})
=============================================================================
