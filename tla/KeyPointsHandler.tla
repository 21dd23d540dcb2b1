-------------------------- MODULE KeyPointsHandler --------------------------
(***************************************************************************)
(* KeyPointsHandler: an ordered vector of key points, a flag, and the      *)
(* listeners told of every change.  A listener is code outside this        *)
(* repository; it is modelled by what it can know: it copies the key       *)
(* points and the flag when it is added, and from then on applies the      *)
(* changes it is told, as the GUIs the interface is meant for do.          *)
(***************************************************************************)
EXTENDS KeyPoints

CONSTANTS Index,        \* the buffer indices
          Listener,
          MaxListeners  \* bound of the model on the listeners_ vector

ASSUME IndexAssumption == Index \subseteq Nat /\ MaxListeners \in Nat

VARIABLES
    keyPoints,       \* keyPoints_
    enableKeyPoints, \* enableKeyPoints_
    listeners,       \* listeners_: the same listener may be there twice
    shown,           \* the key points each listener believes in
    shownEnabled,    \* the flag each listener believes in
    trimmed          \* history: <<start, end>> when the last call was a trim

vars == <<keyPoints, enableKeyPoints, listeners, shown, shownEnabled, trimmed>>

TypeOK ==
    /\ keyPoints \in Seq(Index) /\ enableKeyPoints \in BOOLEAN
    /\ listeners \in Seq(Listener)
    /\ shown \in [Listener -> SUBSET Index]
    /\ shownEnabled \in [Listener -> BOOLEAN]
    /\ trimmed \in (Index \X Index) \cup {<<>>}

Init ==
    /\ keyPoints = <<>> /\ enableKeyPoints = FALSE /\ listeners = <<>>
    /\ shown = [l \in Listener |-> {}] /\ shownEnabled = [l \in Listener |-> FALSE]
    /\ trimmed = <<>>
-----------------------------------------------------------------------------
\* Every registered listener is handed the same Change; a listener that is
\* registered twice applies it twice, to the same effect.
Notify(added, removed) ==
    /\ shown' = [l \in Listener |->
                    IF l \in ToSet(listeners) THEN (shown[l] \cup added) \ removed ELSE shown[l]]
    /\ shownEnabled' = [l \in Listener |->
                    IF l \in ToSet(listeners) THEN enableKeyPoints' ELSE shownEnabled[l]]

Silent == UNCHANGED <<shown, shownEnabled>>

clear ==
    /\ keyPoints' = <<>> /\ listeners' = <<>>
    /\ trimmed' = <<>>
    /\ UNCHANGED <<enableKeyPoints, shown, shownEnabled>>

addListener(l) ==
    /\ Len(listeners) < MaxListeners
    /\ listeners' = Append(listeners, l)
    /\ shown' = [shown EXCEPT ![l] = ToSet(keyPoints)]
    /\ shownEnabled' = [shownEnabled EXCEPT ![l] = enableKeyPoints]
    /\ UNCHANGED <<keyPoints, enableKeyPoints, trimmed>>

removeListeners ==
    /\ listeners' = <<>>
    /\ UNCHANGED <<keyPoints, enableKeyPoints, shown, shownEnabled, trimmed>>

\* Only the first registration of the listener goes.
removeListener(l) ==
    /\ listeners' = RemoveFirst(listeners, l)
    /\ UNCHANGED <<keyPoints, enableKeyPoints, shown, shownEnabled, trimmed>>

toggleKeyPoints ==
    /\ enableKeyPoints' = ~enableKeyPoints
    /\ Notify({}, {})
    /\ UNCHANGED <<keyPoints, listeners, trimmed>>

enableKeyPointsTo(enable) == enable # enableKeyPoints /\ toggleKeyPoints

\* Mutant: a key point toggled away is not announced.
toggleKeyPointSilently(index) ==
    /\ keyPoints' = Toggled(keyPoints, index) /\ trimmed' = <<>>
    /\ UNCHANGED <<enableKeyPoints, listeners>> /\ Silent

\* A key point that goes to the end of the vector is added without a word.
toggleKeyPoint(index) ==
    /\ keyPoints' = Toggled(keyPoints, index)
    /\ trimmed' = <<>>
    /\ UNCHANGED <<enableKeyPoints, listeners>>
    /\ IF HasKeyPoint(keyPoints, index) THEN Notify({}, {index})
       ELSE IF FirstNotBelow(keyPoints, index) = 0 THEN Silent
       ELSE Notify({index}, {})

addKeyPoint(index) ==
    /\ ~HasKeyPoint(keyPoints, index)
    /\ keyPoints' = Added(keyPoints, index)
    /\ trimmed' = <<>>
    /\ UNCHANGED <<enableKeyPoints, listeners>>
    /\ Notify({index}, {})

removeKeyPoint(index) ==
    /\ HasKeyPoint(keyPoints, index)
    /\ keyPoints' = Removed(keyPoints, index)
    /\ trimmed' = <<>>
    /\ UNCHANGED <<enableKeyPoints, listeners>>
    /\ Notify({}, {index})

\* The listeners are notified even when nothing is removed.
trimKeyPoints(start, end) ==
    /\ keyPoints' = Trimmed(keyPoints, start, end)
    /\ trimmed' = <<start, end>>
    /\ UNCHANGED <<enableKeyPoints, listeners>>
    /\ Notify({}, ToSet(keyPoints) \ ToSet(keyPoints'))

Next ==
    \/ clear \/ removeListeners \/ toggleKeyPoints
    \/ \E l \in Listener : addListener(l) \/ removeListener(l)
    \/ \E enable \in BOOLEAN : enableKeyPointsTo(enable)
    \/ \E i \in Index : toggleKeyPoint(i) \/ addKeyPoint(i) \/ removeKeyPoint(i)
    \/ \E start, end \in Index : trimKeyPoints(start, end)

Spec == Init /\ [][Next]_vars
-----------------------------------------------------------------------------
(* Properties *)

\* "Maintains an increasing order in index value when updating its key points"
\* (key_points_handler.h): the early exits of every search rely on it.
KeyPointsIncreasing == Increasing(keyPoints)

\* A listener never shows a key point that is gone, and never shows the wrong
\* flag: every path that removes a key point notifies.
ListenersShowNothingStale ==
    \A l \in ToSet(listeners) :
        shown[l] \subseteq ToSet(keyPoints) /\ shownEnabled[l] = enableKeyPoints

\* Stepping with getNextKeyPoint from a key point reaches another one whose
\* getPreviousKeyPoint leads back, around the end of the vector as well.
PreviousUndoesNext ==
    \A k \in ToSet(keyPoints) :
        LET next == getNextKeyPoint(keyPoints, k)
        IN  /\ next \in ToSet(keyPoints) /\ (Len(keyPoints) > 1 => next # k)
            /\ getPreviousKeyPoint(keyPoints, next) = k

\* The vector is in order, and stepping through it relies on that (see above).
KeyPointsOrdered == TypeOK /\ KeyPointsIncreasing /\ PreviousUndoesNext

\* The vector implements a set of indices: a search that stops early neither
\* misses a key point nor adds one twice.
Points == INSTANCE KeyPointSet WITH points <- ToSet(keyPoints), enabled <- enableKeyPoints
ImplementsSet == Points!Spec

\* key_points_changed_listener.h: "Receives notifications of changes to a
\* KeyPointsHolder": a listener knows every key point.
ListenersShowAll == \A l \in ToSet(listeners) : shown[l] = ToSet(keyPoints)

\* key_points_handler.h: trimKeyPoints "Removes every key point outside
\* [startBufferIndex, endBufferIndex]", an interval that may be one index long.
TrimKeepsInterval ==
    (trimmed # <<>> /\ trimmed[1] <= trimmed[2]) =>
        \A k \in ToSet(keyPoints) : trimmed[1] <= k /\ k <= trimmed[2]
=============================================================================
