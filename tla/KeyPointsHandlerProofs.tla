----------------------- MODULE KeyPointsHandlerProofs -----------------------
(***************************************************************************)
(* The vector of a KeyPointsHandler stays in order under every operation,  *)
(* so that its searches may stop early; it implements a set of indices;    *)
(* and no listener shows a key point that is gone.  For every set of       *)
(* indices, every number of listeners and key points.                      *)
(***************************************************************************)
EXTENDS KeyPointsHandler, SequenceProofs

\* Inductive: the order is all the searches need, and nobody is left out when a
\* key point goes.
Inv == TypeOK /\ KeyPointsIncreasing /\ ListenersShowNothingStale

\* The searches compare indices.
LEMMA IndicesAreIntegers == Index \in SUBSET Int
BY IndexAssumption

\* What every operation does to the set of key points.
LEMMA ToggledInOrder ==
    ASSUME TypeOK, KeyPointsIncreasing, NEW index \in Index
    PROVE  /\ HasKeyPoint(keyPoints, index) <=> index \in ToSet(keyPoints)
           /\ Toggled(keyPoints, index) \in Seq(Index)
           /\ Increasing(Toggled(keyPoints, index))
           /\ ToSet(Toggled(keyPoints, index)) =
                  IF index \in ToSet(keyPoints) THEN ToSet(keyPoints) \ {index}
                                                ELSE ToSet(keyPoints) \cup {index}
<1>1. keyPoints \in Seq(Index) /\ Increasing(keyPoints) /\ index \in Int /\ Index \in SUBSET Int
  BY IndicesAreIntegers DEF TypeOK, KeyPointsIncreasing
<1>2. HasKeyPoint(keyPoints, index) <=> index \in ToSet(keyPoints)
  BY <1>1, HasKeyPointIsMember
<1>3. Toggled(keyPoints, index) \in Seq(Index)
  BY <1>1, ToggledType
<1>4. CASE HasKeyPoint(keyPoints, index)
  BY <1>1, <1>2, <1>3, <1>4, RemovedProperties DEF Toggled
<1>5. CASE ~HasKeyPoint(keyPoints, index)
  BY <1>1, <1>2, <1>3, <1>5, InsertedProperties DEF Toggled
<1> QED  BY <1>4, <1>5

\* Adding a key point that is not there does what toggling it does.
LEMMA AddedIsToggled ==
    ASSUME NEW index, ~HasKeyPoint(keyPoints, index)
    PROVE  Added(keyPoints, index) = Toggled(keyPoints, index)
BY DEF Added, Toggled

\* Removing calls toggleKeyPoint for a key point that is there.
LEMMA RemovedIsToggled ==
    ASSUME NEW index, HasKeyPoint(keyPoints, index)
    PROVE  Removed(keyPoints, index) = Toggled(keyPoints, index)
BY DEF Toggled

\* Trimming keeps the order and removes exactly what is outside.
LEMMA TrimmedInOrder ==
    ASSUME TypeOK, KeyPointsIncreasing, NEW start \in Index, NEW end \in Index
    PROVE  /\ Trimmed(keyPoints, start, end) \in Seq(Index)
           /\ Increasing(Trimmed(keyPoints, start, end))
           /\ ToSet(Trimmed(keyPoints, start, end)) =
                  {k \in ToSet(keyPoints) : ~OutsideInterval(k, start, end)}
BY IndicesAreIntegers, TrimmedType, TrimmedProperties DEF TypeOK, KeyPointsIncreasing
-----------------------------------------------------------------------------
(* Types and order *)

\* The members of a sequence over S are in S.
LEMMA ToSetType ==
    ASSUME NEW S, NEW seq \in Seq(S)
    PROVE  ToSet(seq) \in SUBSET S
BY DEF ToSet

\* A notification of indices keeps the types of what the listeners show.
LEMMA NotifyType ==
    ASSUME TypeOK, enableKeyPoints' \in BOOLEAN,
           NEW added \in SUBSET Index, NEW removed, Notify(added, removed)
    PROVE  /\ shown' \in [Listener -> SUBSET Index]
           /\ shownEnabled' \in [Listener -> BOOLEAN]
<1>1. \A l \in Listener : (IF l \in ToSet(listeners) THEN (shown[l] \cup added) \ removed
                                                     ELSE shown[l]) \in SUBSET Index
  BY DEF TypeOK
<1>2. \A l \in Listener : (IF l \in ToSet(listeners) THEN enableKeyPoints'
                                                     ELSE shownEnabled[l]) \in BOOLEAN
  BY DEF TypeOK
<1> QED  BY <1>1, <1>2 DEF Notify

\* What every listener shows after a change: stale for none, if none is told
\* less than what is removed.
LEMMA NotifyKeepsFresh ==
    ASSUME TypeOK, ListenersShowNothingStale, UNCHANGED listeners,
           NEW added, NEW removed, Notify(added, removed),
           (ToSet(keyPoints) \cup added) \ removed \subseteq ToSet(keyPoints')
    PROVE  ListenersShowNothingStale'
<1> SUFFICES ASSUME NEW l \in ToSet(listeners)
             PROVE  shown'[l] \subseteq ToSet(keyPoints') /\ shownEnabled'[l] = enableKeyPoints'
  BY DEF ListenersShowNothingStale
<1>1. l \in Listener
  BY ToSetType DEF TypeOK
<1>2. shown'[l] = (shown[l] \cup added) \ removed /\ shownEnabled'[l] = enableKeyPoints'
  BY <1>1 DEF Notify
<1>3. shown[l] \subseteq ToSet(keyPoints)
  BY DEF ListenersShowNothingStale
<1> QED  BY <1>2, <1>3

\* Nobody listens to an empty vector.
LEMMA InvInitially == Init => Inv
<1> SUFFICES ASSUME Init
             PROVE  Inv
  OBVIOUS
<1>1. TypeOK
  <2>1. keyPoints \in Seq(Index) /\ listeners \in Seq(Listener) /\ enableKeyPoints \in BOOLEAN
    BY EmptySeq DEF Init
  <2>2. shown \in [Listener -> SUBSET Index] /\ shownEnabled \in [Listener -> BOOLEAN]
    BY DEF Init
  <2>3. trimmed \in (Index \X Index) \cup {<<>>}
    BY DEF Init
  <2> QED  BY <2>1, <2>2, <2>3 DEF TypeOK
<1>2. KeyPointsIncreasing
  BY DEF Init, KeyPointsIncreasing, Increasing
<1>3. ListenersShowNothingStale
  BY EmptyToSet DEF Init, ListenersShowNothingStale
<1> QED  BY <1>1, <1>2, <1>3 DEF Inv

\* The operations on the listeners and the flag.
LEMMA ListenersKeepInv ==
    ASSUME Inv,
           \/ clear \/ removeListeners \/ toggleKeyPoints
           \/ \E l \in Listener : addListener(l) \/ removeListener(l)
    PROVE  Inv'
<1> USE DEF Inv
<1>1. CASE clear
  BY <1>1 DEF clear, TypeOK, KeyPointsIncreasing, Increasing, ListenersShowNothingStale, ToSet
<1>2. CASE removeListeners
  BY <1>2 DEF removeListeners, TypeOK, KeyPointsIncreasing, ListenersShowNothingStale, ToSet
<1>3. CASE toggleKeyPoints
  <2>1. Notify({}, {}) /\ enableKeyPoints' \in BOOLEAN /\ UNCHANGED <<keyPoints, listeners, trimmed>>
    BY <1>3 DEF toggleKeyPoints, TypeOK
  <2>2. shown' \in [Listener -> SUBSET Index] /\ shownEnabled' \in [Listener -> BOOLEAN]
    BY <2>1, NotifyType
  <2>3. ListenersShowNothingStale'
    BY <2>1, NotifyKeepsFresh
  <2> QED  BY <2>1, <2>2, <2>3 DEF TypeOK, KeyPointsIncreasing
<1>4. ASSUME NEW l \in Listener, addListener(l)
      PROVE  Inv'
  <2>1. ToSet(keyPoints) \in SUBSET Index
    BY ToSetType DEF TypeOK
  <2>2. TypeOK'
    BY <1>4, <2>1, AppendProperties DEF addListener, TypeOK
  <2>3. ToSet(listeners') = ToSet(listeners) \cup {l}
    BY <1>4, AppendToSet DEF addListener, TypeOK
  <2>4. ToSet(listeners) \subseteq Listener
    BY ToSetType DEF TypeOK
  <2>5. ListenersShowNothingStale'
    BY <1>4, <2>3, <2>4 DEF addListener, TypeOK, ListenersShowNothingStale
  <2> QED  BY <1>4, <2>2, <2>5 DEF addListener, KeyPointsIncreasing
<1>5. ASSUME NEW l \in Listener, removeListener(l)
      PROVE  Inv'
  <2>1. listeners' \in Seq(Listener) /\ ToSet(listeners') \subseteq ToSet(listeners)
    BY <1>5, RemoveFirstProperties DEF removeListener, TypeOK
  <2> QED  BY <1>5, <2>1 DEF removeListener, TypeOK, KeyPointsIncreasing, ListenersShowNothingStale
<1> QED  BY <1>1, <1>2, <1>3, <1>4, <1>5

\* The operations on the key points.
LEMMA KeyPointsKeepInv ==
    ASSUME Inv,
           \/ \E i \in Index : toggleKeyPoint(i) \/ addKeyPoint(i) \/ removeKeyPoint(i)
           \/ \E start, end \in Index : trimKeyPoints(start, end)
    PROVE  Inv'
<1> USE DEF Inv
<1>1. ASSUME NEW new, keyPoints' = new, new \in Seq(Index), Increasing(new),
             trimmed' \in (Index \X Index) \cup {<<>>}, UNCHANGED <<enableKeyPoints, listeners>>,
             \/ /\ Silent
                /\ ToSet(keyPoints) \subseteq ToSet(new)
             \/ \E added, removed \in SUBSET Index :
                   /\ Notify(added, removed)
                   /\ (ToSet(keyPoints) \cup added) \ removed \subseteq ToSet(new)
      PROVE  Inv'
  <2>1. enableKeyPoints' \in BOOLEAN
    BY <1>1 DEF TypeOK
  <2>2. CASE Silent /\ ToSet(keyPoints) \subseteq ToSet(new)
    BY <1>1, <2>1, <2>2 DEF Silent, TypeOK, KeyPointsIncreasing, ListenersShowNothingStale
  <2>3. ASSUME NEW added \in SUBSET Index, NEW removed \in SUBSET Index, Notify(added, removed),
               (ToSet(keyPoints) \cup added) \ removed \subseteq ToSet(new)
        PROVE  Inv'
    <3>1. shown' \in [Listener -> SUBSET Index] /\ shownEnabled' \in [Listener -> BOOLEAN]
      BY <2>1, <2>3, NotifyType
    <3>2. ListenersShowNothingStale'
      BY <1>1, <2>3, NotifyKeepsFresh
    <3> QED  BY <1>1, <2>1, <3>1, <3>2 DEF TypeOK, KeyPointsIncreasing
  <2> QED  BY <1>1, <2>2, <2>3
<1>2. ASSUME NEW index \in Index, toggleKeyPoint(index) \/ addKeyPoint(index) \/ removeKeyPoint(index)
      PROVE  Inv'
  <2> DEFINE new == Toggled(keyPoints, index)
  <2>1. /\ HasKeyPoint(keyPoints, index) <=> index \in ToSet(keyPoints)
        /\ new \in Seq(Index) /\ Increasing(new)
        /\ ToSet(new) = IF index \in ToSet(keyPoints) THEN ToSet(keyPoints) \ {index}
                                                      ELSE ToSet(keyPoints) \cup {index}
    BY ToggledInOrder
  <2>2. keyPoints' = new /\ trimmed' = <<>> /\ UNCHANGED <<enableKeyPoints, listeners>>
    BY <1>2, AddedIsToggled, RemovedIsToggled DEF toggleKeyPoint, addKeyPoint, removeKeyPoint
  <2>3. \/ Silent /\ index \notin ToSet(keyPoints)
        \/ Notify({index}, {}) /\ index \notin ToSet(keyPoints)
        \/ Notify({}, {index}) /\ index \in ToSet(keyPoints)
    BY <1>2, <2>1 DEF toggleKeyPoint, addKeyPoint, removeKeyPoint
  <2> HIDE DEF new
  <2>4. \/ Silent /\ ToSet(keyPoints) \subseteq ToSet(new)
        \/ \E added, removed \in SUBSET Index :
              /\ Notify(added, removed)
              /\ (ToSet(keyPoints) \cup added) \ removed \subseteq ToSet(new)
    BY <2>1, <2>3
  <2> QED  BY <1>1, <2>1, <2>2, <2>4
<1>3. ASSUME NEW start \in Index, NEW end \in Index, trimKeyPoints(start, end)
      PROVE  Inv'
  <2> DEFINE new == Trimmed(keyPoints, start, end)
             removed == ToSet(keyPoints) \ ToSet(new)
  <2>1. new \in Seq(Index) /\ Increasing(new)
    BY TrimmedInOrder
  <2>2. /\ keyPoints' = new /\ trimmed' = <<start, end>> /\ UNCHANGED <<enableKeyPoints, listeners>>
        /\ Notify({}, removed)
    BY <1>3 DEF trimKeyPoints
  <2>3. removed \in SUBSET Index /\ (ToSet(keyPoints) \cup {}) \ removed \subseteq ToSet(new)
    BY ToSetType DEF TypeOK
  <2> HIDE DEF new, removed
  <2> QED  BY <1>1, <2>1, <2>2, <2>3
<1> QED  BY <1>2, <1>3

\* Every step keeps the invariant.
LEMMA InvIsInductive == Inv /\ [Next]_vars => Inv'
<1> SUFFICES ASSUME Inv, [Next]_vars
             PROVE  Inv'
  OBVIOUS
<1>1. CASE UNCHANGED vars
  BY <1>1 DEF vars, Inv, TypeOK, KeyPointsIncreasing, ListenersShowNothingStale
<1>2. CASE Next
  BY <1>2, ListenersKeepInv, KeyPointsKeepInv DEF Next, enableKeyPointsTo
<1> QED  BY <1>1, <1>2

\* The invariant holds in every reachable state.
LEMMA InvAlways == Spec => []Inv
BY InvInitially, InvIsInductive, PTL DEF Spec
-----------------------------------------------------------------------------
(* The theorems *)

\* Stepping relies on the order alone.
LEMMA OrderMakesStepsReturn == TypeOK /\ KeyPointsIncreasing => PreviousUndoesNext
<1> SUFFICES ASSUME TypeOK, KeyPointsIncreasing, NEW m \in 1 .. Len(keyPoints)
             PROVE  LET k == keyPoints[m]
                        next == getNextKeyPoint(keyPoints, k)
                    IN  /\ next \in ToSet(keyPoints) /\ (Len(keyPoints) > 1 => next # k)
                        /\ getPreviousKeyPoint(keyPoints, next) = k
  BY DEF PreviousUndoesNext, ToSet, TypeOK
<1> DEFINE N == Len(keyPoints)
           n == IF m < N THEN m + 1 ELSE 1
           k == keyPoints[m]
           next == getNextKeyPoint(keyPoints, k)
<1>1. /\ keyPoints \in Seq(Index) /\ Increasing(keyPoints) /\ Index \in SUBSET Int
      /\ N \in Nat /\ m \in 1 .. N /\ n \in 1 .. N /\ DOMAIN keyPoints = 1 .. N
  BY IndicesAreIntegers DEF TypeOK, KeyPointsIncreasing
<1>2. next = keyPoints[n]
  BY <1>1, NextIsBehind
<1>3. getPreviousKeyPoint(keyPoints, keyPoints[n]) = IF n > 1 THEN keyPoints[n - 1] ELSE keyPoints[N]
  <2> HIDE DEF n
  <2> QED  BY <1>1, PreviousIsInFront
<1>4. (IF n > 1 THEN n - 1 ELSE N) = m
  <2> HIDE DEF N
  <2>1. CASE m < N
    <3>1. n = m + 1 /\ n > 1 /\ n - 1 = m
      BY <1>1, <2>1
    <3> QED  BY <3>1
  <2>2. CASE m = N
    <3>1. n = 1
      BY <1>1, <2>2
    <3> QED  BY <2>2, <3>1
  <2> QED  BY <1>1, <2>1, <2>2
<1>5. next \in ToSet(keyPoints)
  BY <1>1, <1>2 DEF ToSet
<1>6. N > 1 => next # k
  <2>1. N > 1 => n # m
    BY <1>1
  <2>2. \A i \in 1 .. N : keyPoints[i] \in Int
    BY <1>1, KeyPointsAreIntegers
  <2>3. n < m \/ m < n \/ n = m
    BY <1>1
  <2> HIDE DEF n, next
  <2> QED  BY <1>1, <1>2, <2>1, <2>2, <2>3 DEF Increasing
<1> HIDE DEF n, next
<1> QED  BY <1>2, <1>3, <1>4, <1>5, <1>6 DEF next

\* KeyPointsHandler keeps its vector in increasing order under every sequence of
\* calls, and stepping forward and back through it comes back.
THEOREM KeyPointsStayOrdered == Spec => []KeyPointsOrdered
<1>1. Inv => KeyPointsOrdered
  BY OrderMakesStepsReturn DEF Inv, KeyPointsOrdered
<1> QED  BY <1>1, InvAlways, PTL

\* Whatever is removed, by toggling, removing or trimming, every registered
\* listener is told, so that none shows a key point that is gone.
THEOREM NothingStaleIsShown == Spec => []ListenersShowNothingStale
<1>1. Inv => ListenersShowNothingStale
  BY DEF Inv
<1> QED  BY <1>1, InvAlways, PTL

\* What each operation does to the set of key points and the flag: an operation
\* of KeyPointSet, or nothing.
LEMMA StepsOfTheSet ==
    ASSUME Inv, Next
    PROVE  Points!Next \/ UNCHANGED <<ToSet(keyPoints), enableKeyPoints>>
<1> USE DEF Inv
<1>1. CASE clear
  BY <1>1, EmptyToSet DEF clear, Points!Next
<1>2. CASE removeListeners \/ \E l \in Listener : addListener(l) \/ removeListener(l)
  BY <1>2 DEF removeListeners, addListener, removeListener
<1>3. CASE toggleKeyPoints
  BY <1>3 DEF toggleKeyPoints, Points!Next
<1>4. ASSUME NEW i \in Index, toggleKeyPoint(i) \/ addKeyPoint(i) \/ removeKeyPoint(i)
      PROVE  Points!Next
  <2>1. keyPoints' = Toggled(keyPoints, i) /\ UNCHANGED enableKeyPoints
    BY <1>4, AddedIsToggled, RemovedIsToggled DEF toggleKeyPoint, addKeyPoint, removeKeyPoint
  <2>2. Points!Toggle(i)
    BY <2>1, ToggledInOrder DEF Points!Toggle
  <2> QED  BY <2>1, <2>2 DEF Points!Next
<1>5. ASSUME NEW start \in Index, NEW end \in Index, trimKeyPoints(start, end)
      PROVE  Points!Next \/ UNCHANGED <<ToSet(keyPoints), enableKeyPoints>>
  <2>1. ToSet(keyPoints') = {k \in ToSet(keyPoints) : ~OutsideInterval(k, start, end)}
    BY <1>5, TrimmedInOrder DEF trimKeyPoints
  <2>2. ToSet(keyPoints) \subseteq Int /\ start \in Int /\ end \in Int
    BY ToSetType, IndicesAreIntegers DEF TypeOK
  <2>3. UNCHANGED enableKeyPoints
    BY <1>5 DEF trimKeyPoints
  <2>4. CASE start = end
    <3>1. \A k \in ToSet(keyPoints) : ~OutsideInterval(k, start, end)
      BY <2>2, <2>4 DEF OutsideInterval
    <3> QED  BY <2>1, <2>3, <3>1
  <2>5. CASE start # end
    <3>1. \A k \in ToSet(keyPoints) : Points!Keep(start, end, k) <=> ~OutsideInterval(k, start, end)
      BY <2>2, <2>5 DEF OutsideInterval, Points!Keep
    <3>2. Points!Trim(start, end)
      BY <2>1, <3>1 DEF Points!Trim
    <3> QED  BY <2>3, <2>5, <3>2 DEF Points!Next
  <2> QED  BY <2>4, <2>5
<1> QED  BY <1>1, <1>2, <1>3, <1>4, <1>5 DEF Next, enableKeyPointsTo

\* KeyPointsHandler implements the set of indices its header promises: no search
\* that stops early misses a key point, adds one twice or removes another one.
THEOREM VectorImplementsSet == Spec => ImplementsSet
<1>1. Init => Points!Init
  BY EmptyToSet DEF Init, Points!Init
<1>2. Inv /\ [Next]_vars => [Points!Next]_<<ToSet(keyPoints), enableKeyPoints>>
  BY StepsOfTheSet DEF vars
<1> QED  BY <1>1, <1>2, InvAlways, PTL DEF Spec, ImplementsSet, Points!Spec
=============================================================================
