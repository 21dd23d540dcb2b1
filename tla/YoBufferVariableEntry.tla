----------------------- MODULE YoBufferVariableEntry ------------------------
(***************************************************************************)
(* The history of one YoVariable and its lazily recomputed bounds, shared  *)
(* by writer threads (writeIntoBufferAt) and reader threads (getBounds,    *)
(* getWindowBounds, resetBoundsChangedFlag).  Every access to an atomic is *)
(* an action of its own, so calls of different threads interleave between  *)
(* any two of them.  The operations that replace the array are documented  *)
(* as single-threaded: they are one action, taken while no call is active. *)
(***************************************************************************)
EXTENDS YoBufferBounds, BufferData

CONSTANTS Writer, Reader, \* the threads
          Windows         \* the <<start, end>> pairs readers ask for

ASSUME ThreadAssumption == Writer \cap Reader = {}

ASSUME WindowsAssumption ==
    Windows \subseteq (0 .. MaxLength - 1) \X (0 .. MaxLength - 1)

VARIABLES
    buffer,        \* *bufferData_
    currentBounds, \* *currentBounds_
    boundsChanged, \* boundsChanged_
    boundsDirty,   \* boundsDirty_
    writer,        \* the locals of each writer's writeBufferAt
    reader,        \* the locals of each reader's getBounds or getWindowBounds
    seen           \* history: the bounds when the changed flag was last reset

vars == <<buffer, currentBounds, boundsChanged, boundsDirty, writer, reader, seen>>
-----------------------------------------------------------------------------
WriterPC == {"idle", "store", "load", "cas", "flag"}
ReaderPC == {"idle", "check", "snapshot", "loadOld", "publish", "setChanged",
             "setClean", "return"}

\* current is the bounds the writer last loaded
WriterLocals == [pc : WriterPC, value : Value, index : 0 .. MaxLength - 1, current : Bounds]

\* window is <<start, end>> in getWindowBounds and <<>> in getBounds; old is
\* oldBounds and snapshot the part of bufferSnapshot copied so far; meanwhile
\* is history: the samples whose writes had not ended when old was loaded
ReaderLocals == [pc : ReaderPC, window : Windows \cup {<<>>}, old : Bounds, snapshot : Seq(Value),
                 meanwhile : SUBSET Value]

IdleWriter == [pc |-> "idle", value |-> 0, index |-> 0, current |-> EMPTY]
IdleReader == [pc |-> "idle", window |-> <<>>, old |-> EMPTY, snapshot |-> <<>>, meanwhile |-> {}]

TypeOK ==
    /\ buffer \in Seq(Value) /\ Len(buffer) \in 1 .. MaxLength
    /\ currentBounds \in Bounds
    /\ boundsChanged \in BOOLEAN /\ boundsDirty \in BOOLEAN
    /\ writer \in [Writer -> WriterLocals]
    /\ reader \in [Reader -> ReaderLocals]
    /\ seen \in Bounds

WritersIdle == \A w \in Writer : writer[w].pc = "idle"
ReadersIdle == \A r \in Reader : reader[r].pc = "idle"

\* The constructor: clearBuffer on flags that start out set.
Init ==
    /\ \E size \in 1 .. MaxLength : buffer = Filled(size, 0)
    /\ currentBounds = EMPTY
    /\ boundsChanged = TRUE /\ boundsDirty = TRUE
    /\ writer = [w \in Writer |-> IdleWriter]
    /\ reader = [r \in Reader |-> IdleReader]
    /\ seen = EMPTY
-----------------------------------------------------------------------------
(* writeBufferAt *)

\* A sample equal to the slot's ends the call; NaN is equal to nothing.
WriteBegin(w, value, index) ==
    /\ writer[w].pc = "idle"
    /\ index \in Slots(buffer)
    /\ value = NaN \/ buffer[index + 1] # value
    /\ writer' = [writer EXCEPT ![w] =
                    [pc |-> "store", value |-> value, index |-> index, current |-> EMPTY]]
    /\ UNCHANGED <<buffer, currentBounds, boundsChanged, boundsDirty, reader, seen>>

StoreSlot(w) ==
    /\ writer[w].pc = "store"
    /\ buffer' = [buffer EXCEPT ![writer[w].index + 1] = writer[w].value]
    /\ writer' = [writer EXCEPT ![w].pc = "load", ![w].index = 0]
    /\ reader' = [r \in Reader |-> [reader[r] EXCEPT !.meanwhile =
                    IF reader[r].pc = "check" THEN @ \cup {writer[w].value} ELSE @]]
    /\ UNCHANGED <<currentBounds, boundsChanged, boundsDirty, seen>>

LoadCurrent(w) ==
    /\ writer[w].pc = "load"
    /\ writer' = [writer EXCEPT ![w].pc = "cas", ![w].current = currentBounds]
    /\ UNCHANGED <<buffer, currentBounds, boundsChanged, boundsDirty, reader, seen>>

\* widenedValue == *current: nothing to publish
WriteIsCovered(w) ==
    /\ writer[w].pc = "cas"
    /\ widenedToInclude(writer[w].current, writer[w].value) = writer[w].current
    /\ writer' = [writer EXCEPT ![w] = IdleWriter]
    /\ UNCHANGED <<buffer, currentBounds, boundsChanged, boundsDirty, reader, seen>>

\* Mutant: an exchange that forgets to flag the change.
SwapSilently(w) ==
    LET widened == widenedToInclude(writer[w].current, writer[w].value) IN
    /\ writer[w].pc = "cas" /\ widened # writer[w].current
    /\ currentBounds = writer[w].current /\ currentBounds' = widened
    /\ writer' = [writer EXCEPT ![w] = IdleWriter]
    /\ UNCHANGED <<buffer, boundsChanged, boundsDirty, reader, seen>>

\* Mutant: a plain store in place of the compare-and-exchange.
SwapBlindly(w) ==
    LET widened == widenedToInclude(writer[w].current, writer[w].value) IN
    /\ writer[w].pc = "cas" /\ widened # writer[w].current
    /\ currentBounds' = widened
    /\ writer' = [writer EXCEPT ![w] = [IdleWriter EXCEPT !.pc = "flag"]]
    /\ UNCHANGED <<buffer, boundsChanged, boundsDirty, reader, seen>>

\* The exchange compares pointers: an equal value behind another pointer fails
\* once, reloads the same value and then succeeds, as here.
SwapSucceeds(w) ==
    LET widened == widenedToInclude(writer[w].current, writer[w].value) IN
    /\ writer[w].pc = "cas"
    /\ widened # writer[w].current
    /\ currentBounds = writer[w].current
    /\ currentBounds' = widened
    /\ writer' = [writer EXCEPT ![w] = [IdleWriter EXCEPT !.pc = "flag"]]
    /\ UNCHANGED <<buffer, boundsChanged, boundsDirty, reader, seen>>

\* Mutant: a failed exchange that does not reload current.
SwapFailsWithoutReload(w) ==
    /\ writer[w].pc = "cas"
    /\ widenedToInclude(writer[w].current, writer[w].value) # writer[w].current
    /\ currentBounds # writer[w].current
    /\ UNCHANGED vars

\* A failed exchange reloads current.  A spurious failure of the weak exchange
\* reloads the value it already has: a stuttering step.
SwapFails(w) ==
    /\ writer[w].pc = "cas"
    /\ widenedToInclude(writer[w].current, writer[w].value) # writer[w].current
    /\ currentBounds # writer[w].current
    /\ writer' = [writer EXCEPT ![w].current = currentBounds]
    /\ UNCHANGED <<buffer, currentBounds, boundsChanged, boundsDirty, reader, seen>>

FlagChange(w) ==
    /\ writer[w].pc = "flag"
    /\ boundsChanged' = TRUE
    /\ writer' = [writer EXCEPT ![w] = IdleWriter]
    /\ UNCHANGED <<buffer, currentBounds, boundsDirty, reader, seen>>

WriteStep(w) == \/ StoreSlot(w) \/ LoadCurrent(w) \/ WriteIsCovered(w)
                \/ SwapSucceeds(w) \/ SwapFails(w) \/ FlagChange(w)

SomeWriteBegins(w) == \E value \in Value, index \in 0 .. MaxLength - 1 : WriteBegin(w, value, index)

Write(w) == SomeWriteBegins(w) \/ WriteStep(w)

resetBoundsChangedFlag ==
    /\ boundsChanged' = FALSE
    /\ seen' = currentBounds
    /\ UNCHANGED <<buffer, currentBounds, boundsDirty, writer, reader>>
-----------------------------------------------------------------------------
(* getBounds (with updateBounds) and getWindowBounds *)

\* The sample a writer has stored but not yet accounted for in the bounds.
InFlight(value) == \E w \in Writer : writer[w].pc \in {"load", "cas"} /\ writer[w].value = value

GetBoundsBegin(r) ==
    /\ reader[r].pc = "idle"
    /\ reader' = [reader EXCEPT ![r] =
                    [IdleReader EXCEPT !.pc = IF boundsDirty THEN "snapshot" ELSE "return"]]
    /\ UNCHANGED <<buffer, currentBounds, boundsChanged, boundsDirty, writer, seen>>

GetWindowBoundsBegin(r, window) ==
    /\ reader[r].pc = "idle"
    /\ window[1] < Len(buffer) /\ window[2] < Len(buffer)
    /\ reader' = [reader EXCEPT ![r] =
                    [pc |-> "check", window |-> window, old |-> currentBounds, snapshot |-> <<>>,
                     meanwhile |-> {value \in Value : InFlight(value)}]]
    /\ UNCHANGED <<buffer, currentBounds, boundsChanged, boundsDirty, writer, seen>>

MatchesWindow(b, window) == b.startIndex = window[1] /\ b.endIndex = window[2]

\* What the check answers: oldBounds are clean and of the window asked for.
UsesOld(r) ==
    reader[r].pc = "check" /\ ~boundsDirty /\ MatchesWindow(reader[r].old, reader[r].window)

\* Loads boundsDirty_, after oldBounds was loaded.
UseOldBounds(r) ==
    /\ UsesOld(r)
    /\ reader' = [reader EXCEPT ![r] = IdleReader]
    /\ UNCHANGED <<buffer, currentBounds, boundsChanged, boundsDirty, writer, seen>>

RecomputeWindow(r) ==
    /\ reader[r].pc = "check" /\ ~UsesOld(r)
    /\ reader' = [reader EXCEPT ![r].pc = "snapshot", ![r].meanwhile = {}]
    /\ UNCHANGED <<buffer, currentBounds, boundsChanged, boundsDirty, writer, seen>>

\* toDoubleArray loads one slot after the other.
CopySlot(r) ==
    /\ reader[r].pc = "snapshot"
    /\ Len(reader[r].snapshot) < Len(buffer)
    /\ reader' = [reader EXCEPT ![r].snapshot = Append(@, buffer[Len(@) + 1])]
    /\ UNCHANGED <<buffer, currentBounds, boundsChanged, boundsDirty, writer, seen>>

SnapshotDone(r) ==
    /\ reader[r].pc = "snapshot"
    /\ Len(reader[r].snapshot) = Len(buffer)
    /\ reader' = [reader EXCEPT ![r].pc = IF reader[r].window = <<>> THEN "loadOld" ELSE "publish"]
    /\ UNCHANGED <<buffer, currentBounds, boundsChanged, boundsDirty, writer, seen>>

\* updateBounds loads oldBounds only now.
LoadOldBounds(r) ==
    /\ reader[r].pc = "loadOld"
    /\ reader' = [reader EXCEPT ![r].pc = "publish", ![r].old = currentBounds]
    /\ UNCHANGED <<buffer, currentBounds, boundsChanged, boundsDirty, writer, seen>>

newBounds(r) ==
    LET snapshot == reader[r].snapshot
        window   == reader[r].window
    IN  IF window = <<>> THEN computed(0, Len(snapshot) - 1, snapshot)
                         ELSE computed(window[1], window[2], snapshot)

\* A plain store: whatever was published since the snapshot is overwritten.
PublishBounds(r) ==
    /\ reader[r].pc = "publish"
    /\ currentBounds' = newBounds(r)
    /\ reader' = [reader EXCEPT ![r].pc = "setChanged"]
    /\ UNCHANGED <<buffer, boundsChanged, boundsDirty, writer, seen>>

SetChanged(r) ==
    /\ reader[r].pc = "setChanged"
    /\ boundsChanged' = (\/ newBounds(r).lowerBound # reader[r].old.lowerBound
                         \/ newBounds(r).upperBound # reader[r].old.upperBound)
    /\ reader' = [reader EXCEPT ![r] =
                    [IdleReader EXCEPT !.pc = IF reader[r].window = <<>> THEN "return" ELSE "setClean"]]
    /\ UNCHANGED <<buffer, currentBounds, boundsDirty, writer, seen>>

\* Only getWindowBounds clears boundsDirty_.
SetClean(r) ==
    /\ reader[r].pc = "setClean"
    /\ boundsDirty' = FALSE
    /\ reader' = [reader EXCEPT ![r] = IdleReader]
    /\ UNCHANGED <<buffer, currentBounds, boundsChanged, writer, seen>>

\* getBounds returns what currentBounds_ holds by now.
ReturnBounds(r) ==
    /\ reader[r].pc = "return"
    /\ reader' = [reader EXCEPT ![r] = IdleReader]
    /\ UNCHANGED <<buffer, currentBounds, boundsChanged, boundsDirty, writer, seen>>

ReadBegin(r) == GetBoundsBegin(r) \/ \E window \in Windows : GetWindowBoundsBegin(r, window)

ReadStep(r) == \/ UseOldBounds(r) \/ RecomputeWindow(r) \/ CopySlot(r) \/ SnapshotDone(r)
               \/ LoadOldBounds(r) \/ PublishBounds(r) \/ SetChanged(r) \/ SetClean(r)
               \/ ReturnBounds(r)
-----------------------------------------------------------------------------
(* The operations that replace the array *)

Replace(data) == buffer' = data /\ Len(data) \in 1 .. MaxLength

\* They all end by marking the bounds; the bounds stay what they were.
MarkDirty == boundsDirty' = TRUE /\ UNCHANGED <<currentBounds, boundsChanged, writer, reader, seen>>

enlargeBufferSize(newSize) == newSize > Len(buffer) /\ Replace(Enlarged(buffer, newSize)) /\ MarkDirty

cropBuffer(start, end) ==
    CropAccepted(start, end, Len(buffer)) /\ Replace(Cropped(buffer, start, end)) /\ MarkDirty

cutBuffer(start, end) ==
    /\ CutAccepted(start, end, Len(buffer)) /\ CutIsDefined(start, end, Len(buffer))
    /\ Replace(CutOut(buffer, start, end)) /\ MarkDirty

\* Mutant: a rotation that does not mark the bounds.
shiftBufferUnmarked(shiftIndex) ==
    /\ ShiftAccepted(shiftIndex, Len(buffer)) /\ Replace(Shifted(buffer, shiftIndex))
    /\ UNCHANGED <<currentBounds, boundsChanged, boundsDirty, writer, reader, seen>>

shiftBuffer(shiftIndex) ==
    ShiftAccepted(shiftIndex, Len(buffer)) /\ Replace(Shifted(buffer, shiftIndex)) /\ MarkDirty

clearBuffer(bufferSize) ==
    /\ Replace(Filled(bufferSize, 0))
    /\ currentBounds' = EMPTY /\ boundsDirty' = TRUE
    /\ UNCHANGED <<boundsChanged, writer, reader, seen>>

\* The next two leave boundsDirty_ as it is.
fillBuffer(value) ==
    /\ Replace(Filled(Len(buffer), value))
    /\ currentBounds' = EMPTY
    /\ UNCHANGED <<boundsChanged, boundsDirty, writer, reader, seen>>

thinData(keepEveryNthPoint) ==
    /\ Replace(Thinned(buffer, keepEveryNthPoint))
    /\ UNCHANGED <<currentBounds, boundsChanged, boundsDirty, writer, reader, seen>>

MarkingResize ==
    \/ \E n \in 1 .. MaxLength : enlargeBufferSize(n) \/ shiftBuffer(n) \/ clearBuffer(n)
    \/ \E start, end \in 0 .. MaxLength : cropBuffer(start, end) \/ cutBuffer(start, end)

UnmarkedResize ==
    (\E value \in Value : fillBuffer(value)) \/ (\E n \in 1 .. MaxLength : thinData(n))

\* The contract of the class: no other call is active.
Alone == WritersIdle /\ ReadersIdle
-----------------------------------------------------------------------------
(* Specifications, by what the callers are allowed to overlap *)

\* Any number of writers and a poller of the changed flag.
WriterNext == (\E w \in Writer : Write(w)) \/ resetBoundsChangedFlag

\* What the class comment allows: writers and readers overlap at will.
SharedNext == WriterNext \/ \E r \in Reader : ReadBegin(r) \/ ReadStep(r)

\* A call that has to recompute the bounds, for all it has found out so far.
Recomputing(r) == reader[r].pc \notin {"idle", "return"} /\ ~UsesOld(r)

NoneRecomputes == \A r \in Reader : ~Recomputing(r)

\* A call that finds clean bounds of its window to hand out.
CachedReadBegin(r) ==
    /\ ~boundsDirty
    /\ \/ GetBoundsBegin(r)
       \/ \E window \in Windows : MatchesWindow(currentBounds, window) /\ GetWindowBoundsBegin(r, window)

\* Bounds are recomputed by one caller while no other call is active.  From then
\* on any number of writers write while any number of readers ask for them,
\* until an edit or another window makes somebody recompute.  fillBuffer
\* and thinData are called while the bounds are dirty already.
GuardedNext ==
    \/ \E w \in Writer : (NoneRecomputes /\ SomeWriteBegins(w)) \/ WriteStep(w)
    \/ resetBoundsChangedFlag
    \/ \E r \in Reader :
          (Alone /\ ReadBegin(r)) \/ (NoneRecomputes /\ CachedReadBegin(r)) \/ ReadStep(r)
    \/ Alone /\ (MarkingResize \/ (boundsDirty /\ UnmarkedResize))

\* Readers overlap each other; writers overlap each other; edits are alone.
ReadersNext ==
    \/ \E w \in Writer : (ReadersIdle /\ SomeWriteBegins(w)) \/ WriteStep(w)
    \/ resetBoundsChangedFlag
    \/ \E r \in Reader : (WritersIdle /\ ReadBegin(r)) \/ ReadStep(r)
    \/ Alone /\ MarkingResize

FillNext == GuardedNext \/ (Alone /\ \E value \in Value : fillBuffer(value))
ThinNext == GuardedNext \/ (Alone /\ \E n \in 1 .. MaxLength : thinData(n))

Next == SharedNext \/ (Alone /\ (MarkingResize \/ UnmarkedResize))

Spec        == Init /\ [][Next]_vars
WriterSpec  == Init /\ [][WriterNext]_vars
SharedSpec  == Init /\ [][SharedNext]_vars
GuardedSpec == Init /\ [][GuardedNext]_vars
ReadersSpec == Init /\ [][ReadersNext]_vars
FillSpec    == Init /\ [][FillNext]_vars
ThinSpec    == Init /\ [][ThinNext]_vars

\* A writer inside a call keeps running, and the weak exchange does not fail
\* spuriously for ever (a spurious failure is a stuttering step).
FairWriterSpec == WriterSpec /\ \A w \in Writer : WF_vars(WriteStep(w))
-----------------------------------------------------------------------------
(* Properties *)

Covers(b, i) == buffer[i + 1] = NaN \/ isInsideBounds(b, buffer[i + 1])

WindowOf(b) == WindowSlots(b.startIndex, b.endIndex, Len(buffer)) \cap Slots(buffer)

\* The bounds are an interval or still empty (the lower at plus and the upper
\* at minus infinity): the first sample to come in moves both of them, in the
\* loops of computed and in widenedToInclude, also where a window has no samples.
BoundsOrdered == IsOrdered(currentBounds)

\* While the bounds are not marked dirty, which makes getBounds and
\* getWindowBounds hand them out as they are, every sample of their window is
\* inside them or is being added by a writer: no widening got lost between the
\* exchange loop of writeBufferAt and the store of a recomputation.
BoundsCoverWindow ==
    ~boundsDirty =>
        \A i \in WindowOf(currentBounds) :
            Covers(currentBounds, i) \/ InFlight(buffer[i + 1])

\* "Bounds on the buffer values for the index interval [startIndex, endIndex]":
\* getWindowBounds loads oldBounds, then the dirty flag, and returns oldBounds if
\* that is clear.  Whatever was written, widened and handed out in between, they
\* cover the window it was asked for, but for samples whose write overlaps the call.
CachedBoundsValid ==
    \A r \in Reader : UsesOld(r) =>
        \A i \in WindowSlots(reader[r].window[1], reader[r].window[2], Len(buffer)) :
            Covers(reader[r].old, i) \/ buffer[i + 1] \in reader[r].meanwhile

\* Among writers alone, bounds that differ from those at the last
\* resetBoundsChangedFlag are flagged, or the writer that moved them is about
\* to flag them: a reset that races a write loses no change.
ChangeSignalled ==
    (currentBounds # seen) => boundsChanged \/ \E w \in Writer : writer[w].pc = "flag"

\* Among writers alone, every non-zero sample of the buffer (the array starts
\* out zero) is inside the bounds or in flight: no writer overwrites the
\* widening of another.
WrittenIsCovered ==
    \A i \in Slots(buffer) :
        buffer[i + 1] # 0 => Covers(currentBounds, i) \/ InFlight(buffer[i + 1])

\* Among writers alone the bounds never get narrower.
BoundsOnlyWiden == [][Contains(currentBounds', currentBounds)]_vars

\* Among writers alone the exchange loop ends: each failure is a widening of
\* another writer, and there are finitely many of those.
WriteTerminates == \A w \in Writer : (writer[w].pc # "idle") ~> (writer[w].pc = "idle")

\* yo_buffer_variable_entry_reader.h: "The current bounds for the data in this
\* buffer, updated if necessary": what getBounds is about to return covers the
\* slots updateBounds looks at.
getBoundsCoversBuffer ==
    \A r \in Reader :
        (reader[r].pc = "return" /\ WritersIdle)
            => \A i \in WindowSlots(0, Len(buffer) - 1, Len(buffer)) : Covers(currentBounds, i)

\* yo_buffer_variable_entry_reader.h: "Bounds on the buffer values for the index
\* interval [startIndex, endIndex]", both ends included.
IntervalIsCovered ==
    (~boundsDirty /\ WritersIdle /\ currentBounds.startIndex < currentBounds.endIndex) =>
        \A i \in currentBounds.startIndex .. currentBounds.endIndex : Covers(currentBounds, i)
=============================================================================
