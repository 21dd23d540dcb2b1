# IHMC YoVariables (C++) in TLA+

YoVariables are named values (double, integer, long, boolean, enum) that a control
program registers in a tree of registries, loads parameters from, records tick by tick
in a ring buffer, and shows to a viewer that scrubs through the recording. This
directory specifies that library: modules translated from the sources, small instances
that TLC checks, and theorems that TLAPS proves for every size.

Contents: 1 the system, 2 the modules, 3 the runs, 4 what is proved, 5 where the code
and its words part, 6 what is left out, 7 the plan.

## 1. The system

| component | state it keeps | operations that change it | interacts with |
|---|---|---|---|
| buffer entry (`buffer/yo_buffer_variable_entry`) | the sample array, the bounds, and the flags *changed* and *dirty*, all atomics | write a sample (lock-free), ask for bounds (may recompute), reset the changed flag, enlarge, crop, cut, shift, thin, fill, clear | the thread that records writes, a viewer's thread reads bounds; `YoBuffer` edits |
| bounds (`buffer/yo_buffer_bounds`) | immutable window and two numbers | computed, widened | the entry exchanges pointers to them |
| buffer (`buffer/yo_buffer`) | size, in-point, out-point, current index, lock, entries, key points, listeners | move, tick and read, tick and write, mark in/out, crop, cut, thin, shift, resize, clear, register | moves every entry at once; reads back into the variables; calls index listeners |
| processors (`YoBuffer::applyProcessor`) | the loop's position is the buffer's index | process each slot of the window | caller's callback, then write and tick |
| key points (`buffer/key_points_handler`) | an ordered vector of indices, a flag, listeners | toggle, add, remove, trim, clear | owned by the buffer |
| registry (`registry/yo_registry`) | parent, children and their map, variables and theirs, restriction level, namespace, listeners | add/remove variable and child, detach, restrict, destroy | calls back and forth with `YoVariable::setRegistry`; notifications climb to the root |
| variable (`variable/yo_variable`) | its registry, cached full name, listeners | setRegistry, destroy, set | registry, entry, parameter |
| parameters (`parameters/yo_parameter`) | load status, a holder that relays changes | load, load default, set, listen | backing variable; readers |
| readers and writers (`parameters/*reader*`, `*writer*`) | map of full names to texts; tree of registries to write | read documents over one another, read into a registry, add a registry, write | registry, parameters and their listeners |
| list (`registry/yo_variable_list`) | a vector of variables and a map from lower-case names to homonyms | add, insert, set, remove, add all, clear | asks each variable for the namespace its registry has now |
| namespaces (`registry/yo_namespace`, `tools/yo_tools`) | full name and sub-names, immutable | prepend, append, remove start and end, parent; queries by text and by namespace | registries, lists, searches |
| variable types (`variable/yo_boolean` ... `yo_enum`) | a value, listeners | set, from double, bits, text or another variable; add and subtract; duplicate | listeners, which may set it again; buffer entries (double), loggers (bits), files (text) |
| filters (`filters/*`) | a value, counters, windows, coefficients, states of their own | update, reset, set | read parameters that are variables anybody may set |

What is hard here, and what would make each part right:

* **Concurrency** only exists in the buffer entry, whose class comment claims it is right
  "under any number of concurrent writers". Writers widen the bounds in a
  compare-and-exchange loop, flag the change in a second step, and readers recompute the
  bounds from a snapshot. Right means: no widening lost, no change unflagged,
  bounds that are not marked dirty cover their window, bounds handed out are those of the
  window asked for, the loop ends.
* **Index arithmetic** in the buffer: five indices' worth of modulo arithmetic, each edit
  with formulas of its own, entries that compute their new length apart from the buffer.
  Right means: indices stay slots, entries stay as long as the buffer, what is played back
  is what was recorded, variables and listeners follow the index.
* **Mutual pointers** in the registry: two classes call each other to keep four pairs of
  pointers in agreement, with checks that throw between the assignments. Right means: a
  tree, agreement both ways, valid cached names, restrictions that hold through every
  path, listeners that can keep a mirror of the tree from notifications.
* **The same thing kept twice**: a list and its map of homonyms, a text and its sub-names, a
  window and its sum, parameters and the coefficients computed from them. Right means: both
  agree after every sequence of calls, although a registry renames, a user writes a window
  size, another filter sets the parameters.
* **Values that change form**: recorded as doubles, logged as bits, saved as texts, shown to
  listeners that set them again. Right means: what comes back is what went in, but where the
  form cannot hold it; a listener shows the value there is.
* **Filters over a history**: each promises something about all the inputs since its reset
  (a glitch is not let through, a limit is kept, a reversal is played out, an average is one).
* **Calls that break off**: loading parameters calls listeners, which throw when they ask
  for a parameter that is not loaded. Right means: a call that returns has initialised
  everything, whatever broke off before; what is in front is loaded when a listener is
  called; what was saved comes back.

## 2. The modules

A definition is named after the C++ function it stands for; a variable after its member
without the trailing underscore. Where a call runs in one thread it is one action; where
threads or callbacks interleave, every atomic access or callback is. A call that throws or
returns before it has changed anything is no action. A definition called "Mutant" in its
comment is a plausible mistake kept beside the right form; nothing uses it but the
comparison that shows the property next to it can fail. Recursion is written as recursive functions,
or as the least set that is closed under a step (`Ancestors`, `Subtree`), where theorems stand on it.

| module | models |
|---|---|
| `BufferData` | the sample array as a sequence: what each edit of the entry makes of it (pure operators) |
| `YoBufferBounds` | the bounds: `computed`, `widenedToInclude`, `isInsideBounds`. Samples are integers or `NaN`, for order and NaN is all that bounds tell apart |
| `YoBufferVariableEntry` | extends both: `writer[w]` and `reader[r]` hold a thread's program counter and locals; one action per load, store and exchange; `GuardedNext`, `SharedNext`, `WriterNext` say which calls may overlap |
| `Erasing` | what loops that erase from a vector leave of it, for key points, registries and lists (pure operators) |
| `KeyPoints` | the search, insert, erase and trim of the ordered vector (pure operators) |
| `KeyPointSet` | abstract: a set of indices and a flag |
| `KeyPointsHandler` | the handler with its listeners; a listener is what it shows if it applies the changes it is told |
| `YoBuffer` | the buffer over `KeyPoints` and `BufferData`: one action per call |
| `RecordedHistory` | abstract: a bounded list of frames with a cursor; no slots, no wrap-around |
| `YoBufferHistory` | the calls of a recorder and its viewer, and the refinement mapping from slots to frames |
| `YoBufferProcessor` | extends `YoBuffer` by the loop of `applyProcessor`, a turn per action, with every other call of the buffer between two of them |
| `YoRegistry` | registries, variables, notifications |
| `YoParameter` | a parameter, its load status, its listener and the holder in between |
| `ParameterFiles` | extends it by registries in a chain, the reader's loop (an action per parameter, for each may end the call) and the writer |
| `YoNamespace` | a namespace as a text and its sub-names; the queries and edits of the class and the functions of `yo_tools` they stand on (pure operators; texts are short sequences, for it is the text that `endsWith` compares) |
| `YoVariableList` | the list and its map, over `YoNamespace`, with registries that move the variables meanwhile; `findVariable` and the other searches |
| `OwnedObject` | what `VariableTypes` and the filters share: one `object` of any class, a record of its members, and `past`, what its caller knows; `filter_math.h` |
| `VariableTypes` | the five classes of variables and the parameters that own one, with listeners that note or reset the value |
| `GlitchFilters`, `WindowFilters`, `LimiterFilters`, `VelocityFilters`, `SmoothingFilters` | the filters by families: constructors, updates, resets, setters, and the writes of others to the variables they read |
| `YoObjects` | any object of these six modules |
| `YoBufferVariableEntryProofs`, `KeyPointsHandlerProofs`, `YoBufferProofs`, `YoRegistryProofs`, `YoVariableListProofs`, `ParameterFilesProofs` | theorems about the module each is named after, `YoBufferVariableEntryProofs` about `YoBufferBounds` too, `YoBufferProofs` about `YoBufferProcessor` and `YoBufferHistory` (section 4) |
| `FilterProofs` | theorems about `GlitchFilters`, `LimiterFilters`, `VelocityFilters` and `SmoothingFilters` |
| `SequenceProofs` | the lemmas these share: least elements, induction and recursion over `0 .. n`, inserting into and erasing from sequences, and what the operators of `KeyPoints` do to a vector in order |
| `MC...` | the small instances: values of constants, views, symmetry |

`YoBuffer` uses the same `BufferData` operators as the entry; it does not carry the entry's
bounds and flags, which it never looks at. `YoBuffer.resizeBuffer` and `clear` go through
the same operators. In `YoBuffer`, `heard` is what one registered listener knows of the
index; in `YoRegistry`, `told` is the list of changes told during the last call with the
registries whose listeners hear of each. Both, and `seen`, `trimmed`, `visits`, `given`,
`threw`, `saved`, `past` and a reader's `meanwhile` are history variables: properties
read them and the code has none of them.

## 3. The runs

Each run is `tlc -config <cfg> <module>`. Passing runs:

| run (cfg) | what it shows | bounds |
|---|---|---|
| `entry_writers` (EntryWriters) | `ChangeSignalled`: bounds that moved since the poller's last reset are flagged, or a writer is about to; `WrittenIsCovered`: no widening overwritten; `BoundsOnlyWiden`; `WriteTerminates`: the exchange loop ends | 2 writers, 3 numbers and NaN, arrays of 1 and 2 |
| `entry_guarded` (EntryGuarded) | `TypeOK`; `BoundsOrdered`: bounds are an interval or still empty, also of windows without samples; `BoundsCoverWindow`: clean bounds cover their window, through every edit (the two that do not mark the bounds where these are dirty already); `CachedBoundsValid`: what `getWindowBounds` loads before it asks the dirty flag, and then returns, covers the window asked for, whatever was written and widened in between, but for samples whose write overlaps the call (`meanwhile`) | 2 writers, 1 reader, windows forward, wrapped and behind; arrays up to 3 |
| `key_points` (KeyPoints) | `KeyPointsOrdered`: the vector stays ordered, next and previous undo each other; `ImplementsSet`; `ListenersShowNothingStale` | 4 indices, 2 listeners registered up to twice |
| `buffer_processor` (BufferProcessor) | indices stay slots and entries keep the buffer's length through any sequence of calls and edits; wherever an unlocked buffer's index moves, the variables hold the samples at the new index and listeners were told it; `applyProcessor` sees each slot of a window that does not wrap exactly once in both directions, and ends | up to 5 slots, 1 variable of 2 values |
| `buffer_history` (BufferHistory) | `ImplementsHistory`: recording, wrapping around, rewinding and recording again, marking, shifting to the in-point, cropping and resizing implement the list of frames, with an index that stays in its window | up to 5 slots, 2 values, 1 key point |
| `registry_tree` (RegistryTree) | `TreeWellFormed` (parents and children agree, levels descend), `NamesAreCurrent` (stored namespaces and cached full names), `RegistriesAgree`, `RestrictionHolds`, `VariablesAreTold`, while registries and variables are moved at will | 3 registries, two with names that differ in case, 2 variables of the same name |
| `parameters` (Parameters) | `ReadIsComplete`, `ListenersCanRead`, `SavedComesBack` over any sequence of reading, overwriting, setting, listening and saving, each of which may break off | 2 registries in a chain, a parameter in each, 3 values, 2 foreign documents besides the saved one, 3 entries in the writer |
| `variable_list` (VariableList) | `MapMatchesList`; `SearchesFindListed`: a search by text, of a full name split at its last separator, finds what lies below the ending sub-name by sub-name; `NamespacesAreLists`: queries by text and by namespace agree, and edits undo one another; `CollisionsOnlyByMoving`: no call on the list brings two variables of one full name together | 3 variables, homonyms that differ in case, 3 registries one of which has the text of another in its name, a tree to attach them below |
| `objects` (Objects) | one object of every class, through every sequence of calls: the ten properties below | small sets of whole numbers, see below |

What `objects` checks. `ConversionsComeBack`: every value comes back from a double, from bits, from a
text and in a duplicate, but for longs beyond the mantissa, and for doubles with more decimals than
the six that `std::to_string` prints, of which the nearest printed one comes back, and that one for good.
`ListenersTold`: a listener that notes what it is told is right until somebody sets the
variable silently, also when another listener sets it in between. `GlitchesFiltered`: a value is let
through only after it was seen as often in a row as the window says. A write through the inherited setters of
either class (`SetThroughBase`: a rewind, `parseValue`, a `YoInteger&`) passes the counter by: the next row may
then be shorter, by what the counter stood at and no more. `WindowsHoldLastInputs`: delayed
variables, moving and running averages are what the last inputs make of them, whenever the window was
resized. `CoefficientsFollowParameters`: the registers and coefficients of the second order filter follow
the last inputs and setters. `LimitsKept`: rate, acceleration, jerk and delta of each update are within
the limits of that update, and a deadband is continuous. `ReversalsPlayedOut`: after a reversal the
output ramps up over the slop time from the last reversal on; a discrete velocity is shown from the
second move in one direction. `DifferencesWithinObserved` and `SmoothedStayAmongInputs`: no filter makes
up a velocity or a value outside of what it was given. `WrapsTheShorterWay`: a wrapping filter stays in
its range and approaches its input by the shorter way round.

Why these bounds are enough. A lost update needs two actors and one value beyond the
bounds; three numbers let both writers widen on either side. Arrays of three hold a window
and a slot outside of it; `computed` has two loops, one for windows that wrap, and both are
met. One reader is enough
in `entry_guarded`: the others can only use the bounds they loaded there, which writes nothing anybody
else reads, and a second that recomputes is the run `entry_stale_window`. A buffer
of four slots has one before, in and behind an interval and windows that wrap; five let a thinned buffer still
be large enough to be cut, and let the recorder overrun its tail and keep a frame on each side. Key points move no
index and change no entry: their part in a buffer's calls is met in `buffer_history`, their order in `key_points`.
A chain of three registries has a middle that is
both parent and child, which is what levels, names and notifications pass through. Two
parameters are one in front of another, and each is the last or the first. Three variables are a homonym before
and one behind a third. The widths of numbers keep the order of the code: an `int` of 3 bits is
narrower than the 4 bits of a double's mantissa, and these than a `long` of 6; the numbers
given lie inside, at the edge of and beyond each. Doubles given are sixths: halves stand for what is
printed exactly, the others for what is rounded to either side, or to zero. Windows are 0 to 3 long, so that
each is met empty, partly filled, full and overrun; limits include 0, negative ones and ones below the speed already
reached; positions lie on both sides of half a turn; a clock may stand still or go back.
A smoothing constant is not chosen: each update may leave any value between the two that the
constants 0 and 1 would, so that every constant, and one that changes, is covered.

Bounds of the models that the code does not have are named: `MaxLength`, `MaxSize`,
`MaxKeyPoints`, `MaxListeners`, `VisitBound`, `MaxEntries`,
`MaxSamples`, `MaxMagnitude` (values that gains drive further away are not followed), and
`MaxStreak`, `MaxAge`, `MaxKept` (longer histories are not told apart).

Fairness. `FairWriterSpec` assumes weak fairness of each writer's own steps: a thread inside
a call goes on running. `compare_exchange_weak` may fail spuriously; such a failure loads the
same pointer again and is a stutter, and weak fairness then says it does not fail for ever.
Nothing is assumed of the poller or of calls being made. `StraightSpec` and `AnySpec`
assume weak fairness of the processor's loop, which runs synchronously in one thread.
Everything else is safety without fairness.

Contracts of callers. `YoBuffer` does not check the indices it is given: `setInPoint`,
`setOutPoint` and `cropBuffer` are called with slots. The resizing calls of an entry are
documented as single-threaded and are taken while no call is active. Calls whose effect C++
leaves undefined have no action: cuts that write behind the new array (`CutIsDefined`), cuts
that leave a size of zero by which the index is divided (`CutBehaves`). A locked buffer is
not given to `applyProcessor`: its index cannot travel.

A moving average is not given a window below 1, which writes outside of its ring. An object
lives alone: filters interact only through the variables they read, whose every value is tried.

Runs that TLC refutes, each a claim in the source that the code does not keep:

| run | claim | what TLC finds |
|---|---|---|
| `entry_lost_widening` | "This is correct under any number of concurrent writers" (`yo_buffer_variable_entry.h:28`) | a reader publishes recomputed bounds by a plain store over a writer's exchange and marks them clean |
| `entry_stale_window` | "Bounds on the buffer values for the index interval [startIndex, endIndex]" (`interfaces/yo_buffer_variable_entry_reader.h:58`) | a reader loads bounds that are dirty, another recomputes them and clears the flag, and the first returns the old ones |
| `registry_destroy` | destroy "destroys every variable and child registry in its subtree" (`yo_registry.h:58`) | the loop runs over the vector that destroying a variable erases from, and skips every other one |

## 4. What is proved

For every number of threads, registries, variables, parameters and listeners, every size of buffer
and every set of numbers, names, documents and indices, under the named assumptions of the modules
(`NumberAssumption`, `MaxLengthAssumption`, `ThreadAssumption`, `WindowsAssumption`,
`IndexAssumption`, `BufferAssumption`, `RegistryAssumption`, `SeparatorAssumption`,
`ParameterAssumption`, `FilesAssumption`, `WindowSizesAssumption`, `LimiterAssumption`,
`VelocityAssumption`, `SmoothingAssumption`) and nothing else. Each
invariant was checked by TLC, in its inductive form, before it was proved.

**Buffer entry and bounds** (`YoBufferVariableEntryProofs`)

* `TypeCorrect`: `Spec => []TypeOK`, the complete entry, every edit included. `TypeOK` is not
  inductive, for the bounds a reader publishes are computed from its snapshot: `TypeInv` adds
  how much of the array has been copied. The lemmas `EnlargedType`, `CroppedType`, `CutOutType`,
  `ShiftedType` and `ThinnedType` say that each edit yields a non-empty array of samples.
* `BoundsAlwaysOrdered`: `Spec => []BoundsOrdered`, the complete entry with writers, readers and
  edits overlapping at will: the bounds are an interval or still empty. It rests on
  `TypeInv`, and on `ComputedIsOrdered` and `WidenedIsOrdered` for the two ways bounds come to be.
* `GuardedBoundsCover` and `GuardedCacheValid`: with recomputation and edits kept apart from
  writes, clean bounds cover their window, and so do the bounds `getWindowBounds` loaded before it asked the
  dirty flag. Any number of readers that use what they loaded overlap with any number of writers there.
  The inductive invariant `GuardedInv` joins `TypeInv`, `ReaderInv` (a reader that recomputes is alone, and its
  snapshot is the array's beginning; one that has loaded the bounds while they were clean finds each sample of
  its window inside them or among those whose write has overlapped its call), `CurrentContained` (the bounds a
  writer holds are inside the current ones, because they only widen while it holds them) and
  `BoundsCoverWindow` itself. `CurrentContained` is why a covered sample stays covered between a writer's load
  and its exchange; that the flag cannot go from dirty to clean while a reader is between its two loads is what
  `entry_stale_window` shows to be needed.
* `WriterChangeSignalled`, `WriterCovered`, `WriterBoundsOnlyWiden`: any number of writers and a
  poller, from `WriterNextInv`.
* `ComputedCovers` (with `WidenedContains`, `ContainsIsReflexive`, `ContainsIsTransitive`): the bounds
  computed for a window cover each sample the code looks at, and widening never loses one.

**Key points** (`KeyPointsHandlerProofs` over `SequenceProofs`)

* `KeyPointsStayOrdered`, `NothingStaleIsShown`, and the refinement `VectorImplementsSet`
  (`Spec => ImplementsSet`). The order alone is inductive once the types are known, and it is what
  the rest needs: in an increasing vector the first element that is not below the index is the index
  if it is there at all (`HasKeyPointIsMember`), so that stopping early misses nothing. Each
  operation then adds, removes or keeps exactly the points the set's operation does. That the next
  key point of the previous one is the first again (`OrderMakesStepsReturn`) follows from the order.

**Buffer** (`YoBufferProofs`)

* `BufferStaysConsistent`, for every call in every order: `IndicesInBuffer` and `EntriesMatchBufferSize` are one
  inductive invariant and neither is one alone: an edit reads the entries through the indices and
  computes the new indices from the length it expects of the entries. The work is in the formulas:
  the remainders of C++, which are negative for negative operands (`NonNegativeInRange`), a
  shifted out-point of -1, the lengths a crop and a cut of a wrapped window leave.
* `VariablesAlwaysFollow` and `ListenersAlwaysFollow`: action properties over the same invariant; the
  sample at the new index is only there to be read because the new index is in the new array.
* `ProcessorsTakeAlong` says the same of both while `applyProcessor` runs.
* `ProcessedBufferStaysConsistent` and `WindowProcessedOnce`: while `applyProcessor` runs
  over a window that does not wrap. `Travelling` says how far it has come: the slots behind it have
  been visited once and the others not at all, and it has not left the window. At the far
  end the slots behind it and its own are the window.
* `RingImplementsHistory`, the refinement (`HistorySpec => ImplementsHistory`): the ring is the list of
  frames. `HistoryInv` adds to the two invariants that the index is in its window, measured by `Distance`,
  the number of steps around the ring from one slot to another. Frame k of the list is the slot k
  steps behind the in-point (`SlotBehind`), and the cursor is the index's distance; every call is then a
  statement about distances. Recording in the last slot of a full window pushes the in-point on, which
  drops the first frame; a crop and a resize copy slot by slot what `BufferData` says, and each copied
  slot has to be shown to be the frame of the same number.

**Registry** (`YoRegistryProofs`)

* `TreeStaysWellFormed`, `NamesStayCurrent`, `RegistriesAlwaysAgree`, and the
  action properties `RestrictionsAreHeeded` and `ListenersHearOfVariables`. The inductive
  invariant joins the invariants of the run with what they do not say: siblings have different
  names. Without it `nameToChildMap_` may hold one of two children, and after the other was
  removed by name the map and the list part.
* `addChild` looks for repeated names along the new path and for nothing else. `SaneIsNotBelow` proves
  that to be a check for cycles: were the new parent below the child, the child's name would be on
  the path already, because stored namespaces are paths (`NamesInv`). This is where tree
  and names need each other. `MovedAcyclic` then shows that one pointer moved to a registry that is
  not below leaves nobody above itself, by least sets that are closed under `parent` or `children`:
  `SubtreeIsBelow` says that what is reached by the lists going down is what reaches it by the
  pointers going up.
* `RaisedLevels`: raising a subtree may skip what is below a registry that is restricted
  enough already, because levels descend. `NamesFollow` and `CacheFollows` say what renaming
  a subtree does to every namespace and cached name in and outside of it.

**Variable list** (`YoVariableListProofs`)

* `MapAlwaysMatches` and `CallsBringNoneTogether`. In the inductive form of `MapMatchesList` a variable is
  in the list if and only if it is where a search for its name looks, which is what each of the
  operations reads before it repairs both structures. `set` passes through a state
  of the map in which the old variable and the new one are both there, and `addAll` through one for each
  variable it adds: `Sound` is carried along its recursion by `AddAllSound`, for lists of any length.

**Parameters** (`ParameterFilesProofs`)

* `ParameterTypesKept`: `Spec => []TypeOK`. `FileTypes` says more than `TypeOK`: only while a registry is
  read are parameters ahead of the loop, and they are the end of that registry's list.
* `ReadingIsComplete` and `ListenersCanAlwaysRead`, from `ReadInv`: the parameters the loop has passed are
  settled, that is what the document or the default says of each, and the two reports
  hold exactly their names. It is inductive because nothing but the loop sets a parameter while the loop runs, and
  because no two parameters below a registry have one name as seen from it (`NamesDiffer`). That
  a parameter in front is loaded when a listener asks needs the list to be in the order of the program
  (`ListInOrder`); that the report is complete needs the order of the document to leave out no place, which is
  a counting argument (`EveryPlaceIsTaken`).
* `WhatIsSavedComesBack`, from `WrittenInv`: the last entry with a parameter's name is what was saved of it, although
  a writer is given registries that overlap; names also differ across registries (`NamesDifferAcross`).

**Filters** (`FilterProofs`)

* `GlitchesStayOut` (`GlitchSpec => GlitchesFiltered`), `LimitsAreKept` (`LimiterSpec => LimitsKept`),
  `ReversalsArePlayedOut` and `DifferencesAreObserved` (`VelocitySpec => ReversalsPlayedOut`, `=>
  []DifferencesWithinObserved`), `SmoothedAmongInputs`, `ParametersAreFollowed` and
  `WrapsAlwaysTheShorterWay` (`SmoothingSpec => []SmoothedStayAmongInputs`, `=>
  []CoefficientsFollowParameters`, `=> WrapsTheShorterWay`). The specification of a family is `Init` and
  `Next` of `YoObjects` cut down to the family's disjuncts, which is where every object of the family
  lives: its class never changes, and other families act on other classes.
* `GlitchInv` ties the counter to the row of equal observations. The two classes differ: the boolean's
  counter is at least the row while that contradicts the value, the integer's at most one behind it; neither is
  ahead of the row by more than what a write past the filter carried over (`CountsTheRow`).
  Windows may be of any length, and changed while a row lasts.
* `LimiterInv` says that a filter is called for the first time exactly when its caller thinks so, and that
  a deadband shows its last input. The limits then follow from two facts on numbers: what is
  clamped stays within (`ClampProperties`), and so does its product with the time step (`ProductWithin`).
* `VelocityInv` relates each class's state to the inputs its caller remembers: the direction of the
  backlash is that of the last movement, its time is that movement's age (for
  `BacklashCompensating` only while the backlash lasts), and a discrete velocity stands only
  after two movements in one direction. `reset` keeps some of these members, and the invariants hold across it.
  A finite difference saw the position last that its caller gave; that `angleDifferenceMinusPiToPi` then
  computes the shorter way round, which the caller's side defines by CHOOSE, takes the uniqueness of
  remainders (`RemainderIs`, `SameTurn`, `AngleDifferenceIs`).
* `SmoothingInv` has a part for each class, told apart by `object.class`. A low pass is `Within` its
  inputs, that is within every pair of bounds of them, which mixing preserves (`MixtureIsWithin`) and
  from which `Min` and `Max` follow where the inputs have ends (`HasEnds`, kept by `EndsOfMore`); a high
  pass says the same of its input less its value, a band pass of both of its filters. The parts also say
  that a filter starts when its caller thinks so, which is where a clock that stands still and an update
  that throws come in.
* `WrappingInv` says that a wrapping filter's mixture lies within half a turn of its target, and its
  target within the limits; from `Unwound` and `Rewound`, which move by whole turns, and `ApartIs`, which
  says what the distance round is, the way to the input adds up (`WayRound`). `SecondOrderInv` ties the
  registers to the last three inputs (`LastThreePushed`).

Each step lemma has one step per action and splits on what the action can disturb. What the
run `registry_tree` shows of `destroy` holds, and is proved, of calls in which its loop
leaves nothing; the others are the run `registry_destroy`.

Only model-checked:

* liveness (`WriteTerminates`, `ProcessorTerminates`), which TLAPS does not prove, and anything
  with ENABLED;
* `SearchesFindListed` and `NamespacesAreLists`: they compare texts with what these are split into,
  by recursive operators of the community modules (`FlattenSeq`, sorting);
* `ConversionsComeBack` and `ListenersTold`: `VariableTypes` declares recursive operators (a listener may
  set what it is told of), which the provers cannot reach, nor anything in a module above it;
* `WindowsHoldLastInputs`: that a mean is that of the last inputs is a statement about sums folded over
  sequences, an induction over data.

Induction is done over sets of numbers (`LeastElement`, `InductionUpTo`, `RecursionUpTo`), for the
induction theorems of the library take an operator as a parameter, which the installed provers
do not instantiate. What is defined by recursion over the length of a sequence or the
length of a path (`Kept`, `NamesBetween`, `AddAll`) is reasoned about in this way.

## 5. Where the code and its words part

Beside the three runs above, these configurations have counterexamples of claims quoted beside
the properties. They are not part of the list of runs. Where the first column says "with", TLC
finds the counterexample when the specification and the properties of that configuration are
replaced by those named, its constants kept.

| configuration (module) | refuted | what the code does |
|---|---|---|
| EntryLostWidening with `FillSpec` (MCYoBufferVariableEntry) | `BoundsCoverWindow` | `fillBuffer` resets the bounds and does not mark them dirty |
| EntryThin (same) | `BoundsCoverWindow` | `thinData`, alone of the edits, does not mark the bounds |
| EntryGuarded with these invariants (MCYoBufferVariableEntry) | `getBoundsCoversBuffer`, `IntervalIsCovered` | `getBounds` trusts a dirty flag cleared for another window; `computed` leaves the end index out |
| KeyPoints with these invariants and no `VIEW` (MCKeyPointsHandler) | `ListenersShowAll`, `TrimKeepsInterval` | toggling a key point behind the last tells nobody; trimming to one index removes nothing |
| BufferHistory with `Spec` and these properties (MCYoBuffer) | `ListenersKnowIndex`, `BetweenBoundsIsWindow`, `InOutLengthIsWindow`, `CropRetainsWindow` | a locked buffer is shifted, cropped and cut and keeps silent; the in-point of a wrapped window is "not inside"; windows of one slot have the length of the buffer plus one, and are cropped to two slots |
| BufferThin (MCYoBuffer) | `ListenersFollowIndex` | `thinData` of a small buffer moves the index to 0, then returns |
| BufferProcessorWrapped (MCYoBufferProcessor) | `ProcessorTerminates` | `applyProcessor` promises to travel from in-point to out-point (`yo_buffer_processor.h:16`); on a window that wraps around, ticking behind the last slot goes to the in-point instead of slot 0, and the loop does not end |
| BufferClear (MCYoBuffer) | `IndicesInBuffer` | `clearBuffers` to a smaller size keeps the indices |
| RegistryTree with this property (MCYoRegistry) | `ToldOnce` | `removeVariable` re-enters itself through `setRegistry` and tells twice |
| RegistryTree with `RefusingSpec` and this invariant (same) | `ListedOnce` | `setRegistry` forgets the old registry before it may refuse |
| RegistryAdopt (same) | `TreeConsistent` | `addChild` sets the parent before the check of names may throw |
| RegistryTree with `FailingDestroySpec` and this invariant (same) | `ListedAreRegistered` | `destroy` of a restricted root throws halfway |
| Parameters with these properties and no `VIEW` (MCParameterFiles) | `LoadedIsGiven`, `OverwriteAddsNothing` | a text that does not parse still marks the parameter as loaded; `overwrite` stores the unknown entry, then throws |

Words that the models answer by what the code does, without a counterexample of their own:

* `delta_limited_yo_variable.h` speaks of a value "within maxDelta of the desired value"; the code
  keeps it within maxDelta of the *actual* one, which is what `LimitsKept` states.
* `alpha_filtered_wrapping_yo_variable.h` gives the range as `[lower, upper)`; exactly the upper limit can be
  reached. Its first `update(double)` remembers the unfiltered variable, not the position it was
  given, so that a next input equal to that variable is taken for no change (`past.ignored`).
* `jerk_limited_yo_double.cpp` limits the acceleration by the maximum *jerk*; `maximumAcceleration` is never read.
* `rate_limited_yo_variable.cpp` throws for a negative rate after its first update has taken the input over.
* `backlash_processing` and `backlash_compensating` keep the time since the last reversal, and the
  latter its inner finite difference, through `reset`; a discrete velocity its unfiltered velocity.
* `first_order_filtered_yo_double.cpp`: a clock that has not gone on restarts the filter only after this
  update has used the old `dt`; a cut-off of zero throws halfway.
* `first_order_band_pass_filtered_yo_double.cpp`: `reset` is that of the low pass alone; the first two updates
  show the raw input; the constructor with a `dt` does not check the pass band.
* `YoEnum::set(E)` and `EnumParameter` take the underlying value of a constant for its ordinal
  (`CountsFromZero`); `EnumParameter::duplicate` reads outside of the constants for others (`CanDuplicate`).
* `glitch_filtered_yo_boolean.h` warns that its `set` hides that of `YoBoolean` and does not override it; the
  integer filter's hides `YoInteger`'s in the same way, and its header does not say so (`SetThroughBase`).
* The coefficients of a second-order filter are those of its parameters only as long as nobody else sets
  these: the filter computes them at a reset and in its own setters (`past.elsewhere`).
* `YoInteger` and `YoLong` cut a double off to show it and round it to set it.
* `LongParameter` with a description but without an initial value drops the description.

## 6. What is left out, and why

* **XML text**: pugixml reads and prints it; a document is the list of its entries, in the order
  the reader walks them. Entries without a value and `rootNamespace_` are left out.
* **Doubles**: an order with NaN (bounds), opaque values (buffer), sixths with NaN and -0, of which
  halves are printed exactly (variables), whole numbers with every rounding in between (filters), or three
  values of which printing merges two (parameters).
* **AlphaBetaFilteredYoVariable, AlphaFilterTools, the coefficients of the second order filter**:
  formulas over doubles without a decision in them; a model could only repeat them. Thrown
  roundings (`alpha >= 1`) are left out with them.
* **Bounds and descriptions of variables, formats**: nothing checks a value against them. A text is
  printed without a format, as files are.
* **Other writes to the members of a filter**: counters, previous positions and the like are registered
  variables too, which a rewind restores or a user may set; only the ones the classes take as inputs are written
  by others here, and the filtered value itself.
* **`yo_search_tools`, factories, names of geometry**: walks over a tree that change nothing, and concatenations of
  names. In `YoRegistry` a namespace is the sequence of its names: siblings are told apart in lower case, the
  names along a path as they are.
* **A listener that adds or removes listeners while it is told**: the C++ iterates over the vector; no
  class of the library does it.
* **Average, custom bounds, inverted, epsilonEquals, copy constructor, getters**: no state that
  the modelled operations look at.
* **Exceptions and providers, build files, tests**: no behaviour of their own.

## 7. The plan

Done, by importance: the entry (1), key points and buffer (2), registry (3), parameters (4),
the variable list and namespaces (5), filters (6), variable types (7), proofs about entry, key
points, buffer, registry and list (8), the refinement by `RecordedHistory` (9), proofs about parameters
and about the glitch, limiter, velocity and smoothing filters (10). What is left:

11. Proofs about `WindowFilters`.
12. `yo_search_tools` over `YoRegistry`, and a buffer that records filters: members that are no
    YoVariables are not rewound with it.
