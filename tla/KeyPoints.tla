----------------------------- MODULE KeyPoints ------------------------------
(***************************************************************************)
(* What KeyPointsHandler does to its vector of key points.  The vector is  *)
(* a sequence of buffer indices; every search walks it from the front and  *)
(* stops at the first key point that is not below the index looked for.    *)
(***************************************************************************)
EXTENDS Integers, SequencesExt, Erasing

Increasing(keyPoints) ==
    \A i, j \in DOMAIN keyPoints : i < j => keyPoints[i] < keyPoints[j]

\* Where the walk for index stops: 0 when it reaches the end of the vector.
FirstNotBelow(keyPoints, index) == SelectInSeq(keyPoints, LAMBDA k : k >= index)

HasKeyPoint(keyPoints, index) ==
    LET p == FirstNotBelow(keyPoints, index) IN p # 0 /\ keyPoints[p] = index

\* Mutant: a new key point always goes to the end.
InsertedLast(keyPoints, index) == Append(keyPoints, index)

Inserted(keyPoints, index) ==
    LET p == FirstNotBelow(keyPoints, index)
    IN  IF p = 0 THEN Append(keyPoints, index) ELSE InsertAt(keyPoints, p, index)

Removed(keyPoints, index) ==
    IF HasKeyPoint(keyPoints, index)
    THEN RemoveAt(keyPoints, FirstNotBelow(keyPoints, index)) ELSE keyPoints

Added(keyPoints, index) ==
    IF HasKeyPoint(keyPoints, index) THEN keyPoints ELSE Inserted(keyPoints, index)

Toggled(keyPoints, index) ==
    IF HasKeyPoint(keyPoints, index) THEN Removed(keyPoints, index) ELSE Inserted(keyPoints, index)

\* Mutant: an interval that wraps around the end of the buffer is not treated
\* apart.
OutsideOfEither(index, start, end) == index < start \/ index > end

OutsideInterval(index, start, end) ==
    IF start < end THEN index < start \/ index > end
                   ELSE index < start /\ index > end

Trimmed(keyPoints, start, end) ==
    Kept(keyPoints, {k \in ToSet(keyPoints) : ~OutsideInterval(k, start, end)})

\* Mutant: the key point at the index itself counts as the next one.
NextFrom(keyPoints, index) ==
    LET p == SelectInSeq(keyPoints, LAMBDA k : k >= index)
    IN  IF keyPoints = <<>> THEN index ELSE IF p = 0 THEN keyPoints[1] ELSE keyPoints[p]

getNextKeyPoint(keyPoints, index) ==
    LET p == SelectInSeq(keyPoints, LAMBDA k : k > index)
    IN  IF keyPoints = <<>> THEN index ELSE IF p = 0 THEN keyPoints[1] ELSE keyPoints[p]

getPreviousKeyPoint(keyPoints, index) ==
    LET p == SelectLastInSeq(keyPoints, LAMBDA k : k < index)
    IN  IF keyPoints = <<>> THEN index ELSE IF p = 0 THEN Last(keyPoints) ELSE keyPoints[p]
=============================================================================
