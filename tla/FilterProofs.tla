---------------------------- MODULE FilterProofs ----------------------------
(***************************************************************************)
(* What the filters keep to, for every input, window, limit and time: an   *)
(* object of a family is followed from its construction on, as in          *)
(* YoObjects, whose Init and Next are the disjunctions of those of the     *)
(* families.                                                               *)
(***************************************************************************)
EXTENDS GlitchFilters, LimiterFilters, VelocityFilters, SmoothingFilters, SequenceTheorems, TLAPS

(* Numbers *)

\* Of two numbers, Min is the smaller.
LEMMA MinOfTwo ==
    ASSUME NEW a \in Int, NEW b \in Int
    PROVE  Min({a, b}) = IF a <= b THEN a ELSE b
<1> DEFINE m == IF a <= b THEN a ELSE b
<1>1. m \in {a, b} /\ m \in Int /\ \A y \in {a, b} : m =< y
  OBVIOUS
<1>2. \A x \in {a, b} : (\A y \in {a, b} : x =< y) => x = m
  OBVIOUS
<1> QED  BY <1>1, <1>2 DEF Min

\* Of two numbers, Max is the greater.
LEMMA MaxOfTwo ==
    ASSUME NEW a \in Int, NEW b \in Int
    PROVE  Max({a, b}) = IF a >= b THEN a ELSE b
<1> DEFINE m == IF a >= b THEN a ELSE b
<1>1. m \in {a, b} /\ m \in Int /\ \A y \in {a, b} : m >= y
  OBVIOUS
<1>2. \A x \in {a, b} : (\A y \in {a, b} : x >= y) => x = m
  OBVIOUS
<1> QED  BY <1>1, <1>2 DEF Max

\* The longest window is at least as long as any.
LEMMA LongestWindow ==
    /\ MaxStreak \in Int
    /\ \A n \in WindowSizes : n + 2 <= MaxStreak
<1> DEFINE longest == Max(WindowSizes)
<1>1. longest \in WindowSizes /\ \A n \in WindowSizes : longest >= n
  <2>1. \E x \in WindowSizes : \A y \in WindowSizes : x >= y
    BY WindowSizesAssumption
  <2> QED  BY <2>1 DEF Max
<1>2. longest \in Int /\ \A n \in WindowSizes : n \in Int
  BY <1>1, WindowSizesAssumption
<1>3. MaxStreak = longest + 2
  BY DEF MaxStreak
<1> HIDE DEF longest
<1> QED  BY <1>1, <1>2, <1>3

\* (the same, of one window)
LEMMA WindowIsShorter ==
    ASSUME NEW windowSize \in WindowSizes
    PROVE  windowSize \in Int /\ MaxStreak \in Int /\ windowSize + 2 <= MaxStreak
BY LongestWindow, WindowSizesAssumption

-----------------------------------------------------------------------------
(* Glitch filters *)

GlitchBooleans ==
    [class : {"GlitchFilteredYoBoolean"}, value : BOOLEAN, counter : Nat, windowSize : WindowSizes]

GlitchIntegerFilters ==
    [class : {"GlitchFilteredYoInteger"}, value : GlitchIntegers \cup {0},
     previousPosition : GlitchIntegers \cup {0}, counter : Nat, windowSize : WindowSizes]

Observed(values) ==
    [call : {"set", "update", "setWindowSize"}, observed : values, streak : 0 .. MaxStreak, carried : Nat]

\* What was observed is of the filter's type, and the longest row told apart is
\* longer than a window.
GlitchTypes ==
    /\ \/ object \in GlitchBooleans /\ past \in Observed(BOOLEAN)
       \/ object \in GlitchIntegerFilters /\ past \in Observed(GlitchIntegers \cup {0})
    /\ 2 <= MaxStreak

\* The counter is not ahead of the row and what was carried over into it, unless
\* the row is longer than is told apart.
CountsTheRow == object.counter <= past.streak + past.carried \/ past.streak = MaxStreak

\* A row that is counted is one against the value, and counted in full.
BooleanCounts ==
    /\ CountsTheRow
    /\ object.counter > 0 /\ past.streak > 0 => past.observed # object.value
    /\ past.streak > 0 /\ past.observed # object.value => object.counter >= past.streak

\* The counter of repetitions is at most one behind them.
IntegerCounts ==
    /\ CountsTheRow
    /\ past.observed = object.previousPosition
    /\ past.streak > 0 /\ past.observed # object.value => object.counter + 1 >= past.streak

GlitchInv ==
    /\ GlitchTypes
    /\ Is("GlitchFilteredYoBoolean") => BooleanCounts
    /\ Is("GlitchFilteredYoInteger") => IntegerCounts

\* A new filter has observed nothing.
LEMMA GlitchInitInv == GlitchInit => GlitchInv
<1> SUFFICES ASSUME GlitchInit PROVE GlitchInv
  OBVIOUS
<1>1. PICK windowSize \in {n \in WindowSizes : n >= 0} :
         object \in {NewGlitchFilteredYoBoolean(windowSize), NewGlitchFilteredYoInteger(windowSize)}
  BY DEF GlitchInit
<1>2. MaxStreak \in Int /\ windowSize \in Int /\ windowSize + 2 <= MaxStreak
  BY LongestWindow, WindowSizesAssumption
<1>3. CASE object = NewGlitchFilteredYoBoolean(windowSize)
  <2>1. object = [class |-> "GlitchFilteredYoBoolean", value |-> FALSE, counter |-> 0,
                  windowSize |-> windowSize]
    BY <1>3 DEF NewGlitchFilteredYoBoolean
  <2>2. past = [call |-> "set", observed |-> FALSE, streak |-> 0, carried |-> 0]
    BY <2>1 DEF GlitchInit, NotObserved
  <2>3. GlitchTypes
    <3>1. 2 <= MaxStreak /\ 0 \in 0 .. MaxStreak /\ 0 \in Nat /\ windowSize \in WindowSizes
      BY <1>2
    <3>2. object \in GlitchBooleans
      BY <3>1, <2>1, Zenon DEF GlitchBooleans
    <3>3. past \in Observed(BOOLEAN)
      BY <3>1, <2>2, Zenon DEF Observed
    <3> QED  BY <3>1, <3>2, <3>3 DEF GlitchTypes
  <2>4. BooleanCounts /\ ~Is("GlitchFilteredYoInteger")
    BY <2>1, <2>2 DEF BooleanCounts, CountsTheRow, Is
  <2> QED  BY <2>3, <2>4 DEF GlitchInv
<1>4. CASE object = NewGlitchFilteredYoInteger(windowSize)
  <2>1. object = [class |-> "GlitchFilteredYoInteger", value |-> 0, previousPosition |-> 0,
                  counter |-> 0, windowSize |-> windowSize]
    BY <1>4 DEF NewGlitchFilteredYoInteger
  <2>2. past = [call |-> "set", observed |-> 0, streak |-> 0, carried |-> 0]
    BY <2>1 DEF GlitchInit, NotObserved
  <2>3. GlitchTypes
    BY <1>2, <2>1, <2>2 DEF GlitchTypes, GlitchIntegerFilters, Observed
  <2>4. IntegerCounts /\ ~Is("GlitchFilteredYoBoolean")
    BY <2>1, <2>2 DEF IntegerCounts, CountsTheRow, Is
  <2> QED  BY <2>3, <2>4 DEF GlitchInv
<1> QED  BY <1>1, <1>3, <1>4

\* What is seen once more makes the row longer by one, up to MaxStreak; anything
\* else starts a row.
LEMMA RowGrows ==
    ASSUME NEW values, past \in Observed(values), NEW value \in values, Observe(value), 2 <= MaxStreak,
           object'.counter \in Nat
    PROVE  /\ past' \in Observed(values)
           /\ past'.call = "update" /\ past'.observed = value
           /\ past'.carried = (IF object'.counter = 0 THEN 0 ELSE past.carried)
           /\ past'.streak \in Int /\ past'.streak > 0
           /\ IF past.streak > 0 /\ past.observed = value
              THEN past'.streak = past.streak + 1 \/ (past.streak = MaxStreak /\ past'.streak = MaxStreak)
              ELSE past'.streak = 1
<1> DEFINE streak == IF past.streak > 0 /\ past.observed = value
                     THEN Min({past.streak + 1, MaxStreak}) ELSE 1
<1>1. past.streak \in 0 .. MaxStreak /\ past.streak \in Int /\ MaxStreak \in Int /\ past.carried \in Nat
  BY LongestWindow DEF Observed
<1>2. Min({past.streak + 1, MaxStreak}) = IF past.streak + 1 <= MaxStreak THEN past.streak + 1 ELSE MaxStreak
  BY <1>1, MinOfTwo
<1>3. /\ streak \in 0 .. MaxStreak /\ streak \in Int /\ streak > 0
      /\ IF past.streak > 0 /\ past.observed = value
         THEN streak = past.streak + 1 \/ (past.streak = MaxStreak /\ streak = MaxStreak)
         ELSE streak = 1
  BY <1>1, <1>2
<1>4. past' = [call |-> "update", observed |-> value, streak |-> streak,
               carried |-> IF object'.counter = 0 THEN 0 ELSE past.carried]
  BY DEF Observe
<1> HIDE DEF streak
<1>5. (IF object'.counter = 0 THEN 0 ELSE past.carried) \in Nat
  BY <1>1
<1> QED  BY <1>3, <1>4, <1>5 DEF Observed

\* An update of either filter takes the value over or leaves it.
LEMMA BooleanUpdateInv ==
    ASSUME GlitchInv, NEW value, value \in Observable, UpdateBoolean(value)
    PROVE  /\ GlitchInv' /\ Updated'
           /\ object'.value # object.value =>
                 object'.value = past'.observed /\ past'.streak + past.carried >= object.windowSize
           /\ past'.streak > object.windowSize => object'.value = past'.observed
<1> DEFINE counter == CountContradictions(value)
           accepted == counter >= object.windowSize
<1>1. /\ Is("GlitchFilteredYoBoolean") /\ value \in BOOLEAN
      /\ object' = [object EXCEPT !.value = IF accepted THEN value ELSE @,
                                  !.counter = IF accepted THEN 0 ELSE counter]
      /\ Observe(value)
  BY DEF UpdateBoolean, Observable
<1>2. object \in GlitchBooleans /\ past \in Observed(BOOLEAN) /\ 2 <= MaxStreak /\ BooleanCounts
  BY <1>1 DEF GlitchInv, GlitchTypes, Is, GlitchBooleans, GlitchIntegerFilters
<1>9. /\ object.counter \in Nat /\ object.windowSize \in WindowSizes /\ past.streak \in 0 .. MaxStreak
      /\ object.value \in BOOLEAN /\ past.observed \in BOOLEAN /\ past.carried \in Nat
  BY <1>2, Zenon DEF GlitchBooleans, Observed
<1>3. /\ object.counter \in Nat /\ object.windowSize \in Int /\ object.windowSize \in WindowSizes
      /\ past.streak \in Nat /\ past.streak <= MaxStreak
      /\ MaxStreak \in Int /\ object.windowSize + 2 <= MaxStreak
  BY <1>9, WindowIsShorter
<1>4. counter = IF value # object.value THEN object.counter + 1 ELSE 0
  BY DEF CountContradictions
<1> HIDE DEF counter
<1>5. /\ counter \in Nat /\ accepted \in BOOLEAN
      /\ (IF accepted THEN value ELSE object.value) \in BOOLEAN
      /\ (IF accepted THEN 0 ELSE counter) \in Nat
  BY <1>1, <1>3, <1>4, <1>9
<1>6. /\ object'.class = object.class /\ object'.windowSize = object.windowSize
      /\ object'.value = (IF accepted THEN value ELSE object.value)
      /\ object'.counter = (IF accepted THEN 0 ELSE counter)
  BY <1>1, <1>2 DEF GlitchBooleans
<1>7. object' \in GlitchBooleans
  BY <1>1, <1>2, <1>5, Zenon DEF GlitchBooleans
<1>8. /\ past' \in Observed(BOOLEAN) /\ past'.call = "update" /\ past'.observed = value
      /\ past'.carried = (IF object'.counter = 0 THEN 0 ELSE past.carried)
      /\ past'.streak \in Int /\ past'.streak > 0
      /\ IF past.streak > 0 /\ past.observed = value
         THEN past'.streak = past.streak + 1 \/ (past.streak = MaxStreak /\ past'.streak = MaxStreak)
         ELSE past'.streak = 1
  BY <1>1, <1>2, <1>5, <1>6, RowGrows
<1>10. BooleanCounts'
  BY <1>1, <1>2, <1>3, <1>4, <1>5, <1>6, <1>8, <1>9 DEF BooleanCounts, CountsTheRow
<1>11. GlitchInv'
  BY <1>1, <1>2, <1>6, <1>7, <1>8, <1>10 DEF GlitchInv, GlitchTypes, Is
<1>12. /\ object'.value # object.value =>
             object'.value = past'.observed /\ past'.streak + past.carried >= object.windowSize
       /\ past'.streak > object.windowSize => object'.value = past'.observed
  BY <1>1, <1>2, <1>3, <1>4, <1>5, <1>6, <1>8, <1>9 DEF BooleanCounts, CountsTheRow
<1> QED  BY <1>8, <1>11, <1>12 DEF Updated

\* (see BooleanUpdateInv)
LEMMA IntegerUpdateInv ==
    ASSUME GlitchInv, NEW value, value \in Observable, UpdateInteger(value)
    PROVE  /\ GlitchInv' /\ Updated'
           /\ object'.value # object.value =>
                 object'.value = past'.observed /\ past'.streak + past.carried >= object.windowSize
           /\ past'.streak > object.windowSize => object'.value = past'.observed
<1> DEFINE values == GlitchIntegers \cup {0}
           counter == IF value = object.previousPosition THEN object.counter + 1 ELSE 0
           accepted == counter >= object.windowSize
<1>1. /\ Is("GlitchFilteredYoInteger") /\ value \in values
      /\ object' = [object EXCEPT !.value = IF accepted THEN value ELSE @,
                                  !.counter = IF accepted THEN 0 ELSE counter,
                                  !.previousPosition = value]
      /\ Observe(value)
  BY DEF UpdateInteger, Observable, Is
<1>2. object \in GlitchIntegerFilters /\ past \in Observed(values) /\ 2 <= MaxStreak /\ IntegerCounts
  BY <1>1 DEF GlitchInv, GlitchTypes, Is, GlitchBooleans, GlitchIntegerFilters
<1>3. /\ object.counter \in Nat /\ object.windowSize \in WindowSizes /\ past.streak \in 0 .. MaxStreak
      /\ object.value \in values /\ past.carried \in Nat
  BY <1>2, Zenon DEF GlitchIntegerFilters, Observed
<1>4. /\ object.counter \in Nat /\ object.windowSize \in Int /\ past.streak \in Nat
      /\ past.streak <= MaxStreak /\ MaxStreak \in Int /\ object.windowSize + 2 <= MaxStreak
  BY <1>3, WindowIsShorter
<1> HIDE DEF values
<1>5. /\ counter \in Nat /\ accepted \in BOOLEAN
      /\ (IF accepted THEN value ELSE object.value) \in values
      /\ (IF accepted THEN 0 ELSE counter) \in Nat
  BY <1>1, <1>3, <1>4
<1>6. /\ object'.class = object.class /\ object'.windowSize = object.windowSize
      /\ object'.previousPosition = value
      /\ object'.value = (IF accepted THEN value ELSE object.value)
      /\ object'.counter = (IF accepted THEN 0 ELSE counter)
  BY <1>1, <1>2 DEF GlitchIntegerFilters
<1>7. object' \in GlitchIntegerFilters
  BY <1>1, <1>2, <1>5 DEF GlitchIntegerFilters, values
<1>8. /\ past' \in Observed(values) /\ past'.call = "update" /\ past'.observed = value
      /\ past'.carried = (IF object'.counter = 0 THEN 0 ELSE past.carried)
      /\ past'.streak \in Int /\ past'.streak > 0
      /\ IF past.streak > 0 /\ past.observed = value
         THEN past'.streak = past.streak + 1 \/ (past.streak = MaxStreak /\ past'.streak = MaxStreak)
         ELSE past'.streak = 1
  BY <1>1, <1>2, <1>5, <1>6, RowGrows
<1>9. IntegerCounts'
  BY <1>1, <1>2, <1>3, <1>4, <1>5, <1>6, <1>8 DEF IntegerCounts, CountsTheRow
<1>10. GlitchInv'
  BY <1>1, <1>2, <1>6, <1>7, <1>8, <1>9 DEF GlitchInv, GlitchTypes, Is, values
<1>11. /\ object'.value # object.value =>
             object'.value = past'.observed /\ past'.streak + past.carried >= object.windowSize
       /\ past'.streak > object.windowSize => object'.value = past'.observed
  BY <1>1, <1>2, <1>3, <1>4, <1>5, <1>6, <1>8 DEF IntegerCounts, CountsTheRow
<1> QED  BY <1>8, <1>10, <1>11 DEF Updated

\* A filter that is set starts to count anew; past the filter the count stays,
\* and is carried over into the next row.
LEMMA GlitchSetInv ==
    ASSUME GlitchInv, NEW value, value \in Observable,
           SetGlitchFiltered(value) \/ SetThroughBase(value)
    PROVE  GlitchInv' /\ past'.call = "set"
<1>1. PICK counter \in {0, object.counter} :
         /\ object' = [object EXCEPT !.value = value, !.counter = counter]
         /\ past' = [past EXCEPT !.call = "set", !.streak = 0, !.carried = counter]
  <2>1. CASE SetGlitchFiltered(value)
    BY <2>1 DEF SetGlitchFiltered
  <2>2. CASE SetThroughBase(value)
    <3>1. object' = [object EXCEPT !.value = value, !.counter = object.counter]
      BY <2>2 DEF SetThroughBase, GlitchInv, GlitchTypes, GlitchBooleans, GlitchIntegerFilters
    <3> QED  BY <2>2, <3>1 DEF SetThroughBase
  <2> QED  BY <2>1, <2>2
<1>2. CASE Is("GlitchFilteredYoBoolean")
  <2>1. object \in GlitchBooleans /\ past \in Observed(BOOLEAN) /\ 2 <= MaxStreak /\ value \in BOOLEAN
    BY <1>2 DEF GlitchInv, GlitchTypes, Is, GlitchBooleans, GlitchIntegerFilters, Observable
  <2>2. counter \in Nat /\ 0 \in 0 .. MaxStreak
    <3>1. object.counter \in Nat
      BY <2>1, Zenon DEF GlitchBooleans
    <3> QED  BY <2>1, <3>1, LongestWindow
  <2>3. object' \in GlitchBooleans /\ past' \in Observed(BOOLEAN)
    BY <1>1, <2>1, <2>2, Zenon DEF GlitchBooleans, Observed
  <2>4. /\ object'.counter = counter /\ object'.class = object.class
        /\ past'.streak = 0 /\ past'.carried = counter /\ past'.call = "set"
    BY <1>1, <2>1 DEF GlitchBooleans, Observed
  <2>5. BooleanCounts'
    BY <2>2, <2>4 DEF BooleanCounts, CountsTheRow
  <2> QED  BY <1>2, <2>1, <2>3, <2>4, <2>5 DEF GlitchInv, GlitchTypes, Is
<1>3. CASE ~Is("GlitchFilteredYoBoolean")
  <2> DEFINE values == GlitchIntegers \cup {0}
  <2>1. value \in values
    BY <1>3 DEF Observable
  <2>2. /\ object \in GlitchIntegerFilters /\ past \in Observed(values) /\ 2 <= MaxStreak
        /\ IntegerCounts
    BY <1>3 DEF GlitchInv, GlitchTypes, Is, GlitchBooleans, GlitchIntegerFilters
  <2>3. counter \in Nat /\ 0 \in 0 .. MaxStreak
    <3>1. object.counter \in Nat
      BY <2>2, Zenon DEF GlitchIntegerFilters
    <3> QED  BY <2>2, <3>1, LongestWindow
  <2> HIDE DEF values
  <2>4. object' \in GlitchIntegerFilters /\ past' \in Observed(values)
    BY <1>1, <2>1, <2>2, <2>3, Zenon DEF GlitchIntegerFilters, Observed, values
  <2>5. /\ object'.counter = counter /\ object'.class = object.class
        /\ object'.previousPosition = object.previousPosition
        /\ past'.streak = 0 /\ past'.carried = counter /\ past'.call = "set"
        /\ past'.observed = past.observed
    BY <1>1, <2>2 DEF GlitchIntegerFilters, Observed
  <2>6. IntegerCounts'
    BY <2>2, <2>3, <2>5 DEF IntegerCounts, CountsTheRow
  <2> QED  BY <1>3, <2>2, <2>4, <2>5, <2>6 DEF GlitchInv, GlitchTypes, Is, values
<1> QED  BY <1>2, <1>3

\* Another window leaves the counts.
LEMMA WindowSizeInv ==
    ASSUME GlitchInv, NEW windowSize \in WindowSizes, SetGlitchWindowSize(windowSize)
    PROVE  GlitchInv' /\ past'.call = "setWindowSize"
<1>1. /\ object' = [object EXCEPT !.windowSize = windowSize]
      /\ past' = [past EXCEPT !.call = "setWindowSize"]
  BY DEF SetGlitchWindowSize
<1>2. CASE object \in GlitchBooleans /\ past \in Observed(BOOLEAN)
  <2>1. object' \in GlitchBooleans /\ past' \in Observed(BOOLEAN)
    BY <1>1, <1>2, Zenon DEF GlitchBooleans, Observed
  <2>2. /\ object'.class = object.class /\ object.class = "GlitchFilteredYoBoolean"
        /\ object'.counter = object.counter /\ object'.value = object.value
        /\ past'.streak = past.streak /\ past'.observed = past.observed
        /\ past'.carried = past.carried /\ past'.call = "setWindowSize"
    BY <1>1, <1>2, Zenon DEF GlitchBooleans, Observed
  <2>3. BooleanCounts'
    BY <1>2, <2>2 DEF GlitchInv, BooleanCounts, CountsTheRow, Is
  <2> QED  BY <2>1, <2>2, <2>3 DEF GlitchInv, GlitchTypes, Is
<1>3. CASE object \in GlitchIntegerFilters /\ past \in Observed(GlitchIntegers \cup {0})
  <2>1. object' \in GlitchIntegerFilters /\ past' \in Observed(GlitchIntegers \cup {0})
    BY <1>1, <1>3, Zenon DEF GlitchIntegerFilters, Observed
  <2>2. /\ object'.class = object.class /\ object.class = "GlitchFilteredYoInteger"
        /\ object'.counter = object.counter /\ object'.value = object.value
        /\ object'.previousPosition = object.previousPosition
        /\ past'.streak = past.streak /\ past'.observed = past.observed
        /\ past'.carried = past.carried /\ past'.call = "setWindowSize"
    BY <1>1, <1>3, Zenon DEF GlitchIntegerFilters, Observed
  <2>3. IntegerCounts'
    BY <1>3, <2>2 DEF GlitchInv, IntegerCounts, CountsTheRow, Is
  <2> QED  BY <2>1, <2>2, <2>3 DEF GlitchInv, GlitchTypes, Is
<1> QED  BY <1>2, <1>3 DEF GlitchInv, GlitchTypes

\* What every step keeps, and what an update does besides.
LEMMA GlitchNextInv ==
    ASSUME GlitchInv, [GlitchNext]_vars
    PROVE  /\ GlitchInv'
           /\ GlitchNext /\ past'.call = "update" =>
                 /\ object'.value # object.value =>
                       object'.value = past'.observed
                       /\ past'.streak + past.carried >= object.windowSize
                 /\ past'.streak > object.windowSize => object'.value = past'.observed
<1>1. CASE UNCHANGED vars /\ ~GlitchNext
  BY <1>1 DEF vars, GlitchInv, GlitchTypes, BooleanCounts, IntegerCounts, CountsTheRow, Is
<1>2. CASE GlitchNext
  <2>1. CASE \E value \in Observable : UpdateBoolean(value)
    BY <2>1, BooleanUpdateInv
  <2>2. CASE \E value \in Observable : UpdateInteger(value)
    BY <2>2, IntegerUpdateInv
  <2>3. CASE \E value \in Observable : SetGlitchFiltered(value) \/ SetThroughBase(value)
    BY <2>3, GlitchSetInv
  <2>4. CASE \E windowSize \in WindowSizes : SetGlitchWindowSize(windowSize)
    BY <2>4, WindowSizeInv
  <2> QED  BY <1>2, <2>1, <2>2, <2>3, <2>4 DEF GlitchNext
<1> QED  BY <1>1, <1>2

\* A filtered value changes only to what was observed as often in a row as the
\* window says, counting in the updates that a write past the filter carried
\* over, and follows what was observed more often since it was written, however
\* the window is set meanwhile (glitch_filtered_yo_boolean.cpp and _integer.cpp,
\* with the setters of YoBoolean and YoInteger that they do not override).
THEOREM GlitchesStayOut == GlitchSpec => GlitchesFiltered
<1>1. GlitchInit => GlitchInv
  BY GlitchInitInv
<1>2. GlitchInv /\ [GlitchNext]_vars => GlitchInv'
  BY GlitchNextInv
<1>3. GlitchInv /\ [GlitchNext]_vars =>
         [IsGlitchFilter /\ past'.call = "update" =>
             /\ object'.value # object.value =>
                   object'.value = past'.observed
                   /\ past'.streak + past.carried >= object.windowSize
             /\ past'.streak > object.windowSize => object'.value = past'.observed]_vars
  BY GlitchNextInv
<1> QED  BY <1>1, <1>2, <1>3, PTL DEF GlitchSpec, GlitchesFiltered

-----------------------------------------------------------------------------
(* Limiters *)

\* A clamped value is within the limit, and is the value where this is.
LEMMA ClampProperties ==
    ASSUME NEW value \in Int, NEW max \in Nat
    PROVE  /\ clampSymmetric(value, max) \in Int
           /\ -max <= clampSymmetric(value, max) /\ clampSymmetric(value, max) <= max
           /\ value < -max => clampSymmetric(value, max) = -max
           /\ value > max => clampSymmetric(value, max) = max
           /\ -max <= value /\ value <= max => clampSymmetric(value, max) = value
BY DEF clampSymmetric, clamp

\* Within a limit at a point, a rate stays within the product over a time.
LEMMA ProductWithin ==
    ASSUME NEW a \in Int, NEW max \in Nat, NEW time \in Nat, -max <= a, a <= max
    PROVE  /\ a * time \in Int /\ max * time \in Nat
           /\ -(max * time) <= a * time /\ a * time <= max * time
<1>1. a * time \in Int /\ max * time \in Nat
  OBVIOUS
<1>2. (max - a) * time >= 0 /\ (max - a) * time = max * time - a * time
  OBVIOUS
<1>3. (max + a) * time >= 0 /\ (max + a) * time = max * time + a * time
  OBVIOUS
<1> QED  BY <1>1, <1>2, <1>3

RateLimiters == [class : {"RateLimited"}, value : Int, hasBeenCalled : BOOLEAN, limited : BOOLEAN]

AccelerationLimiters ==
    [class : {"AccelerationLimited"}, value : Int, hasBeenInitialized : BOOLEAN, smoothedRate : Int,
     smoothedAcceleration : Int, positionGain : Int, velocityGain : Int]

JerkLimiters ==
    [class : {"JerkLimited"}, value : Int, hasBeenInitialized : BOOLEAN, smoothedRate : Int,
     smoothedAcceleration : Int, smoothedJerk : Int, positionGain : Int, velocityGain : Int,
     accelerationGain : Int]

DeltaLimiters == [class : {"DeltaLimited"}, value : Int, maxDelta : Nat, isLimitingActive : BOOLEAN]

Deadbanders == [class : {"Deadbanded"}, value : Int]

\* The next update is the first after a start if and only if the filter takes it
\* for the first.
FirstIsKnown ==
    /\ object \in RateLimiters => (past.isFirst <=> ~object.hasBeenCalled)
    /\ object \in AccelerationLimiters \cup JerkLimiters => (past.isFirst <=> ~object.hasBeenInitialized)

\* A deadband is a function of what it was given last.
DeadbandIsLast ==
    object \in Deadbanders /\ past.call = "update" =>
        /\ past.given.input \in Int /\ past.given.deadzone \in Nat
        /\ object.value = applyDeadband(past.given.deadzone, past.given.input)

LimiterInv ==
    /\ object \in RateLimiters \cup AccelerationLimiters \cup JerkLimiters \cup DeltaLimiters
                  \cup Deadbanders
    /\ past = [call |-> past.call, isFirst |-> past.isFirst, given |-> past.given]
    /\ past.isFirst \in BOOLEAN
    /\ FirstIsKnown
    /\ DeadbandIsLast

\* The body of LimitsKept.
LimitsKeptNow ==
    /\ Is("RateLimited") => RateKept
    /\ Is("AccelerationLimited") => AccelerationKept
    /\ Is("JerkLimited") => JerkKept
    /\ Is("DeltaLimited") => DeltaKept
    /\ Is("Deadbanded") => DeadbandContinuous

\* The sets are told apart by the names of the classes.
LEMMA ClassesDiffer ==
    ASSUME NEW filter
    PROVE  /\ filter \in RateLimiters => filter.class = "RateLimited"
           /\ filter \in AccelerationLimiters => filter.class = "AccelerationLimited"
           /\ filter \in JerkLimiters => filter.class = "JerkLimited"
           /\ filter \in DeltaLimiters => filter.class = "DeltaLimited"
           /\ filter \in Deadbanders => filter.class = "Deadbanded"
BY DEF RateLimiters, AccelerationLimiters, JerkLimiters, DeltaLimiters, Deadbanders

\* (the same, of the object)
LEMMA LimiterClasses ==
    ASSUME LimiterInv
    PROVE  /\ Is("RateLimited") <=> object \in RateLimiters
           /\ Is("AccelerationLimited") <=> object \in AccelerationLimiters
           /\ Is("JerkLimited") <=> object \in JerkLimiters
           /\ Is("DeltaLimited") <=> object \in DeltaLimiters
           /\ Is("Deadbanded") <=> object \in Deadbanders
BY ClassesDiffer DEF LimiterInv, Is

\* What an update leaves of what it was given.
LEMMA GivenProperties ==
    ASSUME NEW arguments, Given(arguments)
    PROVE  /\ past' = [call |-> past'.call, isFirst |-> past'.isFirst, given |-> past'.given]
           /\ past'.call = "update" /\ past'.isFirst = FALSE /\ past'.given = arguments
BY DEF Given

\* The constructors know of no call.
LEMMA LimiterInitInv == LimiterInit => LimiterInv
<1> SUFFICES ASSUME LimiterInit PROVE LimiterInv
  OBVIOUS
<1>1. /\ past = [call |-> "reset", isFirst |-> TRUE, given |-> <<>>]
      /\ past.call = "reset" /\ past.isFirst = TRUE /\ past.given = <<>>
  BY DEF LimiterInit, Start
<1>2. CASE object = NewRateLimited
  <2>1. object \in RateLimiters /\ ~object.hasBeenCalled
    <3>1. 0 \in Int
      OBVIOUS
    <3> QED  BY <1>2, <3>1, Zenon DEF NewRateLimited, RateLimiters
  <2> QED  BY <1>1, <2>1, ClassesDiffer DEF LimiterInv, FirstIsKnown, DeadbandIsLast
<1>3. CASE object = NewDeadbanded
  <2>1. object \in Deadbanders
    BY <1>3 DEF NewDeadbanded, Deadbanders
  <2> QED  BY <1>1, <2>1, ClassesDiffer DEF LimiterInv, FirstIsKnown, DeadbandIsLast
<1>4. ASSUME NEW g \in Gains, object = NewAccelerationLimited(g[1], g[2])
      PROVE  LimiterInv
  <2>1. g[1] * g[1] \in Int /\ 2 * g[2] * g[1] \in Int /\ 0 \in Int
    BY LimiterAssumption
  <2>2. object = [class |-> "AccelerationLimited", value |-> 0, hasBeenInitialized |-> FALSE,
                  smoothedRate |-> 0, smoothedAcceleration |-> 0,
                  positionGain |-> g[1] * g[1], velocityGain |-> 2 * g[2] * g[1]]
    BY <1>4 DEF NewAccelerationLimited, WithGains
  <2>3. object \in AccelerationLimiters /\ ~object.hasBeenInitialized
    BY <2>1, <2>2, Zenon DEF AccelerationLimiters
  <2> QED  BY <1>1, <2>3, ClassesDiffer DEF LimiterInv, FirstIsKnown, DeadbandIsLast
<1>5. ASSUME NEW g \in Gains, object = NewJerkLimited(g[1], g[2])
      PROVE  LimiterInv
  <2>1. /\ g[1] * g[1] * g[1] \in Int /\ g[1] * g[1] + 2 * g[2] * g[1] * g[1] \in Int
        /\ g[1] + 2 * g[2] * g[1] \in Int /\ 0 \in Int
    BY LimiterAssumption
  <2>2. object = [class |-> "JerkLimited", value |-> 0, hasBeenInitialized |-> FALSE,
                  smoothedRate |-> 0, smoothedAcceleration |-> 0, smoothedJerk |-> 0,
                  positionGain |-> g[1] * g[1] * g[1],
                  velocityGain |-> g[1] * g[1] + 2 * g[2] * g[1] * g[1],
                  accelerationGain |-> g[1] + 2 * g[2] * g[1]]
    BY <1>5 DEF NewJerkLimited, WithJerkGains
  <2>3. object \in JerkLimiters /\ ~object.hasBeenInitialized
    BY <2>1, <2>2, Zenon DEF JerkLimiters
  <2> QED  BY <1>1, <2>3, ClassesDiffer DEF LimiterInv, FirstIsKnown, DeadbandIsLast
<1>6. ASSUME NEW maxDelta \in Limits \cup NegativeLimits, object = NewDeltaLimited(maxDelta)
      PROVE  LimiterInv
  <2>1. Abs(maxDelta) \in Nat /\ 0 \in Int
    BY LimiterAssumption DEF Abs
  <2>2. object \in DeltaLimiters
    BY <1>6, <2>1, Zenon DEF NewDeltaLimited, DeltaLimiters
  <2> QED  BY <1>1, <2>2, ClassesDiffer DEF LimiterInv, FirstIsKnown, DeadbandIsLast
<1> QED  BY <1>2, <1>3, <1>4, <1>5, <1>6 DEF LimiterInit

\* A rate limiter moves to its input by maxRate * dt at most.
LEMMA RateSteps ==
    ASSUME LimiterInv, NEW input \in LimiterInputs, NEW maxRate \in Limits \cup NegativeLimits,
           UpdateRate(input, maxRate)
    PROVE  LimiterInv' /\ LimitsKeptNow
<1> DEFINE value == IF object.hasBeenCalled THEN object.value ELSE input
           difference == input - value
           isLimited == Abs(difference) > maxRate * Dt
           new == value + (IF isLimited THEN Sign(difference) * maxRate * Dt ELSE difference)
<1>1. object \in RateLimiters /\ (past.isFirst <=> ~object.hasBeenCalled) /\ Is("RateLimited")
  BY LimiterClasses DEF UpdateRate, LimiterInv, FirstIsKnown
<1>2. object.value \in Int /\ object.hasBeenCalled \in BOOLEAN
  BY <1>1, Zenon DEF RateLimiters
<1>3. input \in Int /\ maxRate \in Int /\ Dt \in Nat
  BY LimiterAssumption
<1>4. value \in Int /\ difference \in Int
  BY <1>2, <1>3
<1>5. CASE maxRate < 0
  <2>1. object' = [object EXCEPT !.hasBeenCalled = TRUE, !.value = value]
    BY <1>5 DEF UpdateRate
  <2>2. past' = [past EXCEPT !.call = "threw", !.isFirst = FALSE]
    BY <1>5 DEF UpdateRate
  <2>3. object' \in RateLimiters /\ object'.hasBeenCalled
    BY <1>1, <1>4, <2>1, Zenon DEF RateLimiters
  <2>4. /\ past' = [call |-> past'.call, isFirst |-> past'.isFirst, given |-> past'.given]
        /\ past'.call = "threw" /\ past'.isFirst = FALSE
    BY <2>2 DEF LimiterInv
  <2>5. LimiterInv'
    BY <2>3, <2>4, ClassesDiffer DEF LimiterInv, FirstIsKnown, DeadbandIsLast
  <2>6. LimitsKeptNow
    BY <1>1, <2>4 DEF LimitsKeptNow, Is, RateKept, UpdatedNow
  <2> QED  BY <2>5, <2>6
<1>6. CASE ~(maxRate < 0)
  <2> DEFINE limit == maxRate * Dt
  <2>1. limit \in Nat /\ maxRate \in Nat /\ 1 * maxRate * Dt = limit /\ (-1) * maxRate * Dt = -limit
        /\ 0 * maxRate * Dt = 0
    BY <1>3, <1>6
  <2>2. object' = [object EXCEPT !.hasBeenCalled = TRUE, !.limited = isLimited, !.value = new]
    BY <1>6 DEF UpdateRate
  <2>3. Given([input |-> input, maxRate |-> maxRate])
    BY <1>6 DEF UpdateRate
  <2>4. /\ past' = [call |-> past'.call, isFirst |-> past'.isFirst, given |-> past'.given]
        /\ past'.call = "update" /\ past'.isFirst = FALSE
        /\ past'.given.input = input /\ past'.given.maxRate = maxRate
    <3>1. past'.given = [input |-> input, maxRate |-> maxRate]
      BY <2>3, GivenProperties
    <3>2. /\ past' = [call |-> past'.call, isFirst |-> past'.isFirst, given |-> past'.given]
          /\ past'.call = "update" /\ past'.isFirst = FALSE
      BY <2>3, GivenProperties
    <3> QED  BY <3>1, <3>2
  <2> HIDE DEF limit, value, difference
  <2>5. isLimited \in BOOLEAN /\ (isLimited <=> Abs(difference) > limit)
    BY DEF limit
  <2>6. new = value + (IF Abs(difference) > limit
                       THEN (IF difference > 0 THEN limit ELSE -limit) ELSE difference)
    <3>1. CASE difference > 0
      BY <1>4, <2>1, <2>5, <3>1 DEF Sign
    <3>2. CASE difference < 0
      BY <1>4, <2>1, <2>5, <3>2 DEF Sign
    <3>3. CASE difference = 0
      BY <1>4, <2>1, <2>5, <3>3 DEF Abs
    <3> QED  BY <1>4, <3>1, <3>2, <3>3
  <2>7. new \in Int
    BY <1>4, <2>1, <2>6
  <2> HIDE DEF isLimited, new
  <2>8. object' \in RateLimiters /\ object'.hasBeenCalled
    BY <1>1, <2>2, <2>5, <2>7, Zenon DEF RateLimiters
  <2>9. object'.value = new /\ (object'.limited <=> isLimited)
    BY <1>1, <2>2, Zenon DEF RateLimiters
  <2>10. LimiterInv'
    BY <2>4, <2>8, ClassesDiffer DEF LimiterInv, FirstIsKnown, DeadbandIsLast
  <2>11. RateKept
    <3> DEFINE distance == IF past.isFirst THEN 0 ELSE Abs(past'.given.input - object.value)
               left     == Max({0, distance - past'.given.maxRate * Dt})
    <3>1. distance = Abs(difference) /\ distance \in Nat
      BY <1>1, <1>2, <1>3, <1>4, <2>4 DEF Abs, difference, value
    <3>2. past'.given.maxRate * Dt = limit
      BY <2>4 DEF limit
    <3>3. left = IF Abs(difference) > limit THEN Abs(difference) - limit ELSE 0
      <4>1. Abs(difference) - limit \in Int
        BY <2>1, <3>1
      <4>2. distance - past'.given.maxRate * Dt = Abs(difference) - limit
        BY <3>1, <3>2
      <4> HIDE DEF distance
      <4>3. left = Max({0, Abs(difference) - limit})
        BY <4>2
      <4> HIDE DEF left
      <4> QED  BY <2>1, <3>1, <4>1, <4>3, MaxOfTwo
    <3> HIDE DEF distance, left
    <3>4. Abs(input - new) = left
      BY <1>3, <1>4, <2>1, <2>6, <2>7, <3>3 DEF Abs, difference
    <3>5. past.isFirst \/ value = object.value
      BY <1>1 DEF value
    <3>6. Abs(new - value) = distance - left
      BY <1>3, <1>4, <2>1, <2>6, <2>7, <3>1, <3>3 DEF Abs, difference
    <3>7. isLimited <=> left > 0
      BY <1>4, <2>1, <2>5, <3>1, <3>3
    <3> QED  BY <2>4, <2>9, <3>4, <3>5, <3>6, <3>7 DEF RateKept, distance, left
  <2> QED  BY <1>1, <2>10, <2>11 DEF LimitsKeptNow, Is
<1> QED  BY <1>5, <1>6

\* An acceleration limiter keeps its rate within the maximum, and changes it by
\* no more than the maximum acceleration, unless the maximum rate cuts it.
LEMMA AccelerationSteps ==
    ASSUME LimiterInv, NEW input \in LimiterInputs, NEW maxRate \in Limits, NEW maxAcceleration \in Limits,
           UpdateAcceleration(input, maxRate, maxAcceleration)
    PROVE  LimiterInv' /\ LimitsKeptNow
<1> DEFINE before == IF object.hasBeenInitialized THEN object ELSE Initialized(object, input)
           wanted == before.positionGain * (input - before.value) - before.velocityGain * before.smoothedRate
           acceleration == clampSymmetric(wanted, maxAcceleration)
           rate == Accelerated(before.smoothedRate, acceleration, maxRate)
<1>1. /\ object \in AccelerationLimiters /\ (past.isFirst <=> ~object.hasBeenInitialized)
      /\ Is("AccelerationLimited")
  BY LimiterClasses DEF UpdateAcceleration, LimiterInv, FirstIsKnown
<1>2. input \in Int /\ maxRate \in Nat /\ maxAcceleration \in Nat /\ Dt \in Nat
  BY LimiterAssumption
<1>3. before \in AccelerationLimiters /\ before.hasBeenInitialized
  <2>1. CASE object.hasBeenInitialized
    BY <1>1, <2>1
  <2>2. CASE ~object.hasBeenInitialized
    <3>1. 0 \in Int /\ before = Initialized(object, input)
      BY <2>2
    <3> HIDE DEF before
    <3> QED  BY <1>1, <1>2, <3>1, Zenon DEF Initialized, AccelerationLimiters
  <2> QED  BY <2>1, <2>2
<1>4. /\ before.smoothedRate = (IF past.isFirst THEN 0 ELSE object.smoothedRate)
      /\ before.value = (IF past.isFirst THEN input ELSE object.value)
  <2>1. CASE object.hasBeenInitialized
    BY <1>1, <2>1
  <2>2. CASE ~object.hasBeenInitialized
    BY <1>1, <2>2 DEF Initialized, AccelerationLimiters
  <2> QED  BY <2>1, <2>2
<1> HIDE DEF before
<1>5. /\ before.value \in Int /\ before.smoothedRate \in Int /\ before.positionGain \in Int
      /\ before.velocityGain \in Int
  BY <1>3, Zenon DEF AccelerationLimiters
<1>6. wanted \in Int
  BY <1>2, <1>5
<1> HIDE DEF wanted
<1>7. acceleration \in Int /\ -maxAcceleration <= acceleration /\ acceleration <= maxAcceleration
  BY <1>2, <1>6, ClampProperties
<1> HIDE DEF acceleration
<1> DEFINE change == acceleration * Dt
           most == maxAcceleration * Dt
<1>8. change \in Int /\ most \in Nat /\ -most <= change /\ change <= most
  BY <1>2, <1>7, ProductWithin
<1> DEFINE sum == before.smoothedRate + change
<1>9. sum \in Int /\ rate = clampSymmetric(sum, maxRate)
  BY <1>5, <1>8 DEF Accelerated
<1> HIDE DEF rate, change, most
<1>10. /\ rate \in Int /\ -maxRate <= rate /\ rate <= maxRate
       /\ sum < -maxRate => rate = -maxRate
       /\ sum > maxRate => rate = maxRate
       /\ -maxRate <= sum /\ sum <= maxRate => rate = sum
  <2> HIDE DEF sum
  <2> QED  BY <1>2, <1>9, ClampProperties
<1> DEFINE moved == rate * Dt
           furthest == maxRate * Dt
<1>11. moved \in Int /\ furthest \in Nat /\ -furthest <= moved /\ moved <= furthest
  BY <1>2, <1>10, ProductWithin
<1>12. object' = [before EXCEPT !.smoothedAcceleration = acceleration, !.smoothedRate = rate,
                                !.value = @ + moved]
  BY DEF UpdateAcceleration, before, rate, acceleration, wanted
<1>13. Given([input |-> input, maxRate |-> maxRate, maxAcceleration |-> maxAcceleration])
  BY DEF UpdateAcceleration
<1>14. /\ past' = [call |-> past'.call, isFirst |-> past'.isFirst, given |-> past'.given]
       /\ past'.call = "update" /\ past'.isFirst = FALSE
       /\ past'.given = [input |-> input, maxRate |-> maxRate, maxAcceleration |-> maxAcceleration]
  BY <1>13, GivenProperties
<1>15. past'.given.input = input /\ past'.given.maxRate = maxRate
       /\ past'.given.maxAcceleration = maxAcceleration
  BY <1>14
<1> HIDE DEF moved, furthest
<1>16. before.value + moved \in Int
  BY <1>5, <1>11
<1>17. object' = [before EXCEPT !.smoothedAcceleration = acceleration, !.smoothedRate = rate,
                                !.value = before.value + moved]
  BY <1>3, <1>12 DEF AccelerationLimiters
<1>18. object' \in AccelerationLimiters /\ object'.hasBeenInitialized
  BY <1>3, <1>7, <1>10, <1>16, <1>17, Zenon DEF AccelerationLimiters
<1>19. object'.value = before.value + moved /\ object'.smoothedRate = rate
  BY <1>3, <1>17, Zenon DEF AccelerationLimiters
<1>20. LimiterInv'
  BY <1>14, <1>18, ClassesDiffer DEF LimiterInv, FirstIsKnown, DeadbandIsLast
<1>21. AccelerationKept
  <2>1. Abs(rate) <= maxRate
    BY <1>2, <1>10 DEF Abs
  <2>2. Abs(object'.value - before.value) <= furthest
    BY <1>5, <1>11, <1>19 DEF Abs
  <2>3. Abs(rate - before.smoothedRate) <= most \/ Abs(before.smoothedRate) > maxRate
    BY <1>2, <1>5, <1>8, <1>10 DEF Abs
  <2>4. Abs(object'.smoothedRate) <= past'.given.maxRate
    BY <1>15, <1>19, <2>1
  <2>5. Abs(object'.value - (IF past.isFirst THEN past'.given.input ELSE object.value))
           <= past'.given.maxRate * Dt
    <3>1. before.value = IF past.isFirst THEN past'.given.input ELSE object.value
      BY <1>4, <1>15
    <3>2. furthest = past'.given.maxRate * Dt
      BY <1>15 DEF furthest
    <3> QED  BY <2>2, <3>1, <3>2, Zenon
  <2>6. \/ Abs(object'.smoothedRate - (IF past.isFirst THEN 0 ELSE object.smoothedRate))
              <= past'.given.maxAcceleration * Dt
        \/ Abs(IF past.isFirst THEN 0 ELSE object.smoothedRate) > past'.given.maxRate
    BY <1>4, <1>15, <1>19, <2>3 DEF most
  <2> QED  BY <2>4, <2>5, <2>6 DEF AccelerationKept
<1> QED  BY <1>1, <1>20, <1>21 DEF LimitsKeptNow, Is

\* A jerk limiter keeps its jerk within the maximum, and changes the
\* acceleration by no more than it, unless it cuts the acceleration too.
LEMMA JerkSteps ==
    ASSUME LimiterInv, NEW position \in LimiterInputs, NEW velocity \in LimiterInputs,
           NEW acceleration \in LimiterInputs, NEW maxJerk \in Limits,
           UpdateJerk(position, velocity, acceleration, maxJerk)
    PROVE  LimiterInv' /\ LimitsKeptNow
<1> DEFINE before == IF object.hasBeenInitialized THEN object
                     ELSE InitializedAt(object, position, velocity, acceleration)
           wanted == before.accelerationGain * (acceleration - before.smoothedAcceleration)
                        + before.velocityGain * (velocity - before.smoothedRate)
                        + before.positionGain * (position - before.value)
           jerk == clampSymmetric(wanted, maxJerk)
           sum == before.smoothedAcceleration + jerk * Dt
           newAcceleration == clampSymmetric(sum, maxJerk)
           rate == before.smoothedRate + newAcceleration * Dt
<1>1. object \in JerkLimiters /\ (past.isFirst <=> ~object.hasBeenInitialized) /\ Is("JerkLimited")
  BY LimiterClasses DEF UpdateJerk, LimiterInv, FirstIsKnown
<1>2. /\ position \in Int /\ velocity \in Int /\ acceleration \in Int /\ maxJerk \in Nat /\ Dt \in Nat
  BY LimiterAssumption
<1>3. before \in JerkLimiters /\ before.hasBeenInitialized
  <2>1. CASE object.hasBeenInitialized
    BY <1>1, <2>1
  <2>2. CASE ~object.hasBeenInitialized
    <3>1. 0 \in Int /\ before = InitializedAt(object, position, velocity, acceleration)
      BY <2>2
    <3> HIDE DEF before
    <3> QED  BY <1>1, <1>2, <3>1, Zenon DEF InitializedAt, JerkLimiters
  <2> QED  BY <2>1, <2>2
<1>4. past.isFirst \/ before.smoothedAcceleration = object.smoothedAcceleration
  BY <1>1
<1> HIDE DEF before
<1>5. /\ before.value \in Int /\ before.smoothedRate \in Int /\ before.smoothedAcceleration \in Int
      /\ before.positionGain \in Int /\ before.velocityGain \in Int /\ before.accelerationGain \in Int
  BY <1>3, Zenon DEF JerkLimiters
<1>6. wanted \in Int
  BY <1>2, <1>5
<1> HIDE DEF wanted
<1>7. jerk \in Int /\ -maxJerk <= jerk /\ jerk <= maxJerk
  BY <1>2, <1>6, ClampProperties
<1> HIDE DEF jerk
<1> DEFINE change == jerk * Dt
           most == maxJerk * Dt
<1>8. change \in Int /\ most \in Nat /\ -most <= change /\ change <= most
  BY <1>2, <1>7, ProductWithin
<1>9. sum \in Int /\ sum = before.smoothedAcceleration + change
  BY <1>5, <1>8
<1> HIDE DEF sum, change, most
<1>10. /\ newAcceleration \in Int /\ -maxJerk <= newAcceleration /\ newAcceleration <= maxJerk
       /\ sum < -maxJerk => newAcceleration = -maxJerk
       /\ sum > maxJerk => newAcceleration = maxJerk
       /\ -maxJerk <= sum /\ sum <= maxJerk => newAcceleration = sum
  BY <1>2, <1>9, ClampProperties
<1> HIDE DEF newAcceleration
<1>11. rate \in Int /\ before.value + rate * Dt \in Int
  BY <1>2, <1>5, <1>10
<1>12. object' = [before EXCEPT !.smoothedJerk = jerk, !.smoothedAcceleration = newAcceleration,
                                !.smoothedRate = rate, !.value = @ + rate * Dt]
  BY DEF UpdateJerk, before, wanted, jerk, sum, newAcceleration
<1> HIDE DEF rate
<1>13. object' = [before EXCEPT !.smoothedJerk = jerk, !.smoothedAcceleration = newAcceleration,
                                !.smoothedRate = rate, !.value = before.value + rate * Dt]
  BY <1>3, <1>12 DEF JerkLimiters
<1>14. object' \in JerkLimiters /\ object'.hasBeenInitialized
  BY <1>3, <1>7, <1>10, <1>11, <1>13, Zenon DEF JerkLimiters
<1>15. object'.smoothedJerk = jerk /\ object'.smoothedAcceleration = newAcceleration
  BY <1>3, <1>13, Zenon DEF JerkLimiters
<1>16. Given([maxJerk |-> maxJerk])
  BY DEF UpdateJerk
<1>17. /\ past' = [call |-> past'.call, isFirst |-> past'.isFirst, given |-> past'.given]
       /\ past'.call = "update" /\ past'.isFirst = FALSE /\ past'.given = [maxJerk |-> maxJerk]
  BY <1>16, GivenProperties
<1>18. past'.given.maxJerk = maxJerk
  BY <1>17
<1>19. LimiterInv'
  BY <1>14, <1>17, ClassesDiffer DEF LimiterInv, FirstIsKnown, DeadbandIsLast
<1>20. JerkKept
  <2>1. Abs(jerk) <= maxJerk
    BY <1>2, <1>7 DEF Abs
  <2>2. \/ Abs(newAcceleration - before.smoothedAcceleration) <= most
        \/ Abs(before.smoothedAcceleration) > maxJerk
    BY <1>2, <1>5, <1>8, <1>9, <1>10 DEF Abs
  <2>3. most = past'.given.maxJerk * Dt
    BY <1>18 DEF most
  <2> QED  BY <1>4, <1>15, <1>18, <2>1, <2>2, <2>3 DEF JerkKept
<1> QED  BY <1>1, <1>19, <1>20 DEF LimitsKeptNow, Is

\* The nearest value to the desired one no further than maxDelta from the actual.
LEMMA DeltaSteps ==
    ASSUME LimiterInv, NEW actual \in LimiterInputs, NEW desired \in LimiterInputs,
           UpdateOutput(actual, desired)
    PROVE  LimiterInv' /\ LimitsKeptNow
<1> DEFINE rawDelta == actual - desired
           isLimited == object.maxDelta < Abs(rawDelta)
           new == IF isLimited THEN actual - object.maxDelta * Sign(rawDelta) ELSE desired
<1>1. object \in DeltaLimiters /\ Is("DeltaLimited")
  BY LimiterClasses DEF UpdateOutput
<1>2. actual \in Int /\ desired \in Int
  BY LimiterAssumption
<1>3. object.maxDelta \in Nat
  BY <1>1, Zenon DEF DeltaLimiters
<1> DEFINE limit == object.maxDelta
<1>4. new = IF limit < Abs(rawDelta) THEN (IF rawDelta > 0 THEN actual - limit ELSE actual + limit)
            ELSE desired
  <2>1. limit * 1 = limit /\ limit * (-1) = -limit
    BY <1>3
  <2>2. CASE rawDelta > 0
    BY <1>2, <1>3, <2>1, <2>2 DEF Sign
  <2>3. CASE rawDelta < 0
    BY <1>2, <1>3, <2>1, <2>3 DEF Sign
  <2>4. CASE rawDelta = 0
    BY <1>2, <1>3, <2>4 DEF Abs
  <2> QED  BY <1>2, <2>2, <2>3, <2>4
<1>5. new \in Int
  BY <1>2, <1>3, <1>4
<1>6. isLimited \in BOOLEAN
  OBVIOUS
<1>7. /\ object' = [object EXCEPT !.value = new, !.isLimitingActive = isLimited]
      /\ Given([actual |-> actual, desired |-> desired])
  BY DEF UpdateOutput
<1>8. isLimited <=> limit < Abs(rawDelta)
  OBVIOUS
<1> HIDE DEF new, isLimited
<1>9. object' \in DeltaLimiters
  BY <1>1, <1>5, <1>6, <1>7, Zenon DEF DeltaLimiters
<1>10. object'.value = new /\ (object'.isLimitingActive <=> isLimited)
  BY <1>1, <1>7, Zenon DEF DeltaLimiters
<1>11. /\ past' = [call |-> past'.call, isFirst |-> past'.isFirst, given |-> past'.given]
       /\ past'.call = "update" /\ past'.isFirst = FALSE
       /\ past'.given = [actual |-> actual, desired |-> desired]
  BY <1>7, GivenProperties
<1>12. past'.given.actual = actual /\ past'.given.desired = desired
  BY <1>11
<1>13. LimiterInv'
  BY <1>9, <1>11, ClassesDiffer DEF LimiterInv, FirstIsKnown, DeadbandIsLast
<1>14. DeltaKept
  <2> DEFINE near == {v \in interpolate(actual, desired) : Abs(v - actual) <= limit}
  <2>1. new \in near
    BY <1>2, <1>3, <1>4, <1>5 DEF interpolate, Abs
  <2>2. \A v \in near : Abs(new - desired) <= Abs(v - desired)
    BY <1>2, <1>3, <1>4, <1>5 DEF interpolate, Abs
  <2>3. isLimited <=> new # desired
    BY <1>2, <1>3, <1>4, <1>8 DEF Abs
  <2>4. near = {v \in interpolate(past'.given.actual, past'.given.desired) :
                   Abs(v - past'.given.actual) <= object.maxDelta}
    BY <1>12
  <2> HIDE DEF near
  <2> QED  BY <1>10, <1>12, <2>1, <2>2, <2>3, <2>4 DEF DeltaKept
<1> QED  BY <1>1, <1>13, <1>14 DEF LimitsKeptNow, Is

\* A dead zone lets its input through, nearer to zero, without a jump.
LEMMA DeadbandContinues ==
    ASSUME NEW x \in Int, NEW y \in Int, NEW c \in Nat, NEW d \in Nat
    PROVE  /\ applyDeadband(d, y) \in Int
           /\ Abs(applyDeadband(d, y) - applyDeadband(c, x)) <= Abs(y - x) + Abs(d - c)
<1>1. \A a \in Int : Abs(a) = IF a < 0 THEN -a ELSE a
  BY DEF Abs
<1>2. applyDeadband(c, x) = IF x > c THEN x - c ELSE IF x < -c THEN x + c ELSE 0
  BY DEF applyDeadband
<1>3. applyDeadband(d, y) = IF y > d THEN y - d ELSE IF y < -d THEN y + d ELSE 0
  BY DEF applyDeadband
<1>4. applyDeadband(d, y) \in Int /\ applyDeadband(c, x) \in Int
  BY <1>2, <1>3
<1> QED  BY <1>1, <1>2, <1>3, <1>4

\* (see DeadbandContinues)
LEMMA DeadbandSteps ==
    ASSUME LimiterInv, NEW input \in LimiterInputs, NEW deadzone \in Limits,
           UpdateDeadbanded(input, deadzone)
    PROVE  LimiterInv' /\ LimitsKeptNow
<1> DEFINE new == applyDeadband(deadzone, input)
<1>1. object \in Deadbanders /\ Is("Deadbanded") /\ DeadbandIsLast
  BY LimiterClasses DEF UpdateDeadbanded, LimiterInv
<1>2. input \in Int /\ deadzone \in Nat
  BY LimiterAssumption
<1>3. new \in Int
  BY <1>2, DeadbandContinues
<1>4. object' = [object EXCEPT !.value = new] /\ Given([input |-> input, deadzone |-> deadzone])
  BY DEF UpdateDeadbanded
<1>5. object' \in Deadbanders /\ object'.value = new
  BY <1>1, <1>3, <1>4 DEF Deadbanders
<1>6. /\ past' = [call |-> past'.call, isFirst |-> past'.isFirst, given |-> past'.given]
      /\ past'.call = "update" /\ past'.isFirst = FALSE
      /\ past'.given = [input |-> input, deadzone |-> deadzone]
  BY <1>4, GivenProperties
<1>7. past'.given.input = input /\ past'.given.deadzone = deadzone
  BY <1>6
<1>8. LimiterInv'
  BY <1>2, <1>5, <1>6, <1>7, ClassesDiffer DEF LimiterInv, FirstIsKnown, DeadbandIsLast
<1>9. DeadbandContinuous
  <2> SUFFICES ASSUME past.call = "update" PROVE
         Abs(object'.value - object.value)
            <= Abs(past'.given.input - past.given.input) + Abs(past'.given.deadzone - past.given.deadzone)
    BY DEF DeadbandContinuous
  <2>1. /\ past.given.input \in Int /\ past.given.deadzone \in Nat
        /\ object.value = applyDeadband(past.given.deadzone, past.given.input)
    BY <1>1 DEF DeadbandIsLast
  <2>2. Abs(new - object.value) <= Abs(input - past.given.input) + Abs(deadzone - past.given.deadzone)
    BY <1>2, <2>1, DeadbandContinues
  <2> QED  BY <1>5, <1>7, <2>2
<1> QED  BY <1>1, <1>8, <1>9 DEF LimitsKeptNow, Is

\* A reset makes the next update the first; gains and a maximal delta may be set
\* at any time.
LEMMA OtherLimiterSteps ==
    ASSUME LimiterInv,
           \/ ResetRate \/ ResetAcceleration \/ ResetJerk
           \/ \E gain \in Gains : SetGains(gain[1], gain[2])
           \/ \E limit \in Limits \cup NegativeLimits : SetMaxDelta(limit)
    PROVE  LimiterInv' /\ LimitsKeptNow
<1>1. SUFFICES LimiterInv' /\ past'.call # "update"
  BY <1>1 DEF LimitsKeptNow, RateKept, AccelerationKept, JerkKept, DeltaKept, DeadbandContinuous, UpdatedNow
<1>2. Start = [call |-> "reset", isFirst |-> TRUE, given |-> <<>>]
  BY DEF Start
<1>3. ASSUME past' = Start, object' \in RateLimiters \cup AccelerationLimiters \cup JerkLimiters,
             object' \in RateLimiters => ~object'.hasBeenCalled,
             object' \in AccelerationLimiters \cup JerkLimiters => ~object'.hasBeenInitialized
      PROVE  LimiterInv' /\ past'.call # "update"
  <2>1. /\ past' = [call |-> past'.call, isFirst |-> past'.isFirst, given |-> past'.given]
        /\ past'.call = "reset" /\ past'.isFirst = TRUE
    BY <1>2, <1>3
  <2> QED  BY <1>3, <2>1, ClassesDiffer DEF LimiterInv, FirstIsKnown, DeadbandIsLast
<1>4. CASE ResetRate
  <2>1. object \in RateLimiters /\ object' = [object EXCEPT !.hasBeenCalled = FALSE] /\ past' = Start
    BY <1>4, LimiterClasses DEF ResetRate
  <2>2. object' \in RateLimiters /\ ~object'.hasBeenCalled
    BY <2>1, Zenon DEF RateLimiters
  <2> QED  BY <1>3, <2>1, <2>2, ClassesDiffer
<1>5. CASE ResetAcceleration
  <2>1. /\ object \in AccelerationLimiters /\ past' = Start /\ 0 \in Int
        /\ object' = [object EXCEPT !.hasBeenInitialized = FALSE, !.smoothedRate = 0,
                                    !.smoothedAcceleration = 0]
    BY <1>5, LimiterClasses DEF ResetAcceleration
  <2>2. object' \in AccelerationLimiters /\ ~object'.hasBeenInitialized
    BY <2>1, Zenon DEF AccelerationLimiters
  <2> QED  BY <1>3, <2>1, <2>2, ClassesDiffer
<1>6. CASE ResetJerk
  <2>1. /\ object \in JerkLimiters /\ past' = Start /\ 0 \in Int
        /\ object' = [object EXCEPT !.hasBeenInitialized = FALSE, !.smoothedRate = 0,
                                    !.smoothedAcceleration = 0, !.smoothedJerk = 0]
    BY <1>6, LimiterClasses DEF ResetJerk
  <2>2. object' \in JerkLimiters /\ ~object'.hasBeenInitialized
    BY <2>1, Zenon DEF JerkLimiters
  <2> QED  BY <1>3, <2>1, <2>2, ClassesDiffer
<1>7. ASSUME past' = [past EXCEPT !.call = "other"],
             object' \in AccelerationLimiters \cup JerkLimiters \cup DeltaLimiters,
             object' \in AccelerationLimiters =>
                object \in AccelerationLimiters /\ object'.hasBeenInitialized = object.hasBeenInitialized,
             object' \in JerkLimiters =>
                object \in JerkLimiters /\ object'.hasBeenInitialized = object.hasBeenInitialized
      PROVE  LimiterInv' /\ past'.call # "update"
  <2>1. /\ past' = [call |-> past'.call, isFirst |-> past'.isFirst, given |-> past'.given]
        /\ past'.call = "other" /\ past'.isFirst = past.isFirst
    BY <1>7 DEF LimiterInv
  <2> QED  BY <1>7, <2>1, ClassesDiffer DEF LimiterInv, FirstIsKnown, DeadbandIsLast
<1>8. ASSUME NEW gain \in Gains, SetGains(gain[1], gain[2])
      PROVE  LimiterInv' /\ past'.call # "update"
  <2> DEFINE w0 == gain[1]
             zeta == gain[2]
  <2>1. /\ w0 * w0 \in Int /\ 2 * zeta * w0 \in Int /\ w0 * w0 * w0 \in Int
        /\ w0 * w0 + 2 * zeta * w0 * w0 \in Int /\ w0 + 2 * zeta * w0 \in Int
    BY LimiterAssumption
  <2>2. past' = [past EXCEPT !.call = "other"]
    BY <1>8 DEF SetGains
  <2>3. CASE Is("AccelerationLimited")
    <3>1. object \in AccelerationLimiters /\ object' = WithGains(object, w0, zeta)
      BY <1>8, <2>3, LimiterClasses DEF SetGains, Is
    <3>2. /\ object' \in AccelerationLimiters
          /\ object'.hasBeenInitialized = object.hasBeenInitialized
      BY <2>1, <3>1, Zenon DEF WithGains, AccelerationLimiters
    <3> QED  BY <1>7, <2>2, <3>1, <3>2, ClassesDiffer
  <2>4. CASE ~Is("AccelerationLimited")
    <3>1. object \in JerkLimiters /\ object' = WithJerkGains(object, w0, zeta)
      BY <1>8, <2>4, LimiterClasses DEF SetGains
    <3>2. /\ object' \in JerkLimiters
          /\ object'.hasBeenInitialized = object.hasBeenInitialized
      BY <2>1, <3>1, Zenon DEF WithJerkGains, JerkLimiters
    <3> QED  BY <1>7, <2>2, <3>1, <3>2, ClassesDiffer
  <2> QED  BY <2>3, <2>4
<1>9. ASSUME NEW limit \in Limits \cup NegativeLimits, SetMaxDelta(limit)
      PROVE  LimiterInv' /\ past'.call # "update"
  <2>1. Abs(limit) \in Nat
    BY LimiterAssumption DEF Abs
  <2>2. /\ object \in DeltaLimiters /\ object' = [object EXCEPT !.maxDelta = Abs(limit)]
        /\ past' = [past EXCEPT !.call = "other"]
    BY <1>9, LimiterClasses DEF SetMaxDelta
  <2>3. object' \in DeltaLimiters
    BY <2>1, <2>2, Zenon DEF DeltaLimiters
  <2> QED  BY <1>7, <2>2, <2>3, ClassesDiffer
<1> QED  BY <1>4, <1>5, <1>6, <1>8, <1>9

\* Every step of a limiter.
LEMMA LimiterSteps ==
    ASSUME LimiterInv, LimiterNext
    PROVE  LimiterInv' /\ LimitsKeptNow
<1>1. CASE \E input \in LimiterInputs, limit \in Limits \cup NegativeLimits : UpdateRate(input, limit)
  BY <1>1, RateSteps
<1>2. CASE \E input \in LimiterInputs, limit \in Limits : UpdateDeadbanded(input, limit)
  BY <1>2, DeadbandSteps
<1>3. CASE \E input \in LimiterInputs, maxRate, maxAcceleration \in Limits :
              UpdateAcceleration(input, maxRate, maxAcceleration)
  BY <1>3, AccelerationSteps
<1>4. CASE \E position, velocity, acceleration \in LimiterInputs, maxJerk \in Limits :
              UpdateJerk(position, velocity, acceleration, maxJerk)
  BY <1>4, JerkSteps
<1>5. CASE \E actual, desired \in LimiterInputs : UpdateOutput(actual, desired)
  BY <1>5, DeltaSteps
<1>6. CASE \/ ResetRate \/ ResetAcceleration \/ ResetJerk
           \/ \E gain \in Gains : SetGains(gain[1], gain[2])
           \/ \E limit \in Limits \cup NegativeLimits : SetMaxDelta(limit)
  BY <1>6, OtherLimiterSteps
<1> QED  BY <1>1, <1>2, <1>3, <1>4, <1>5, <1>6 DEF LimiterNext

\* Rates, accelerations, jerks and deltas of every update are within the limits
\* given with it, as near to the input as these allow, and a dead zone does not
\* jump, whatever the inputs, limits, gains and resets (the update functions of
\* the *_limited classes and deadbanded_yo_variable.cpp).
THEOREM LimitsAreKept == LimiterSpec => LimitsKept
<1>1. LimiterInit => LimiterInv
  BY LimiterInitInv
<1>2. LimiterInv /\ [LimiterNext]_vars => LimiterInv'
  <2>1. LimiterInv /\ UNCHANGED vars => LimiterInv'
    BY DEF vars, LimiterInv, FirstIsKnown, DeadbandIsLast
  <2> QED  BY <2>1, LimiterSteps
<1>3. LimiterInv /\ [LimiterNext]_vars => [LimitsKeptNow]_vars
  BY LimiterSteps
<1> QED  BY <1>1, <1>2, <1>3, PTL DEF LimiterSpec, LimitsKept, LimitsKeptNow

-----------------------------------------------------------------------------
(* Velocities *)

\* A quotient by a positive number is an integer and not on the other side of zero.
LEMMA QuotientProperties ==
    ASSUME NEW a \in Int, NEW b \in Nat \ {0}
    PROVE  /\ a \div b \in Int
           /\ a >= 0 => a \div b >= 0
           /\ a < 0 => a \div b < 0
<1> DEFINE q == a \div b
           r == a % b
<1>1. q \in Int /\ r \in Int /\ 0 <= r /\ r < b /\ a = b * q + r
  OBVIOUS
<1> HIDE DEF q, r
<1>2. CASE q >= 0
  <2>1. b * q >= 0
    BY <1>1, <1>2
  <2> QED  BY <1>1, <1>2, <2>1 DEF q
<1>3. CASE q < 0
  <2>1. b * (-q - 1) >= 0 /\ b * (-q - 1) = -(b * q) - b
    BY <1>1, <1>3
  <2>2. a < 0
    BY <1>1, <2>1
  <2> QED  BY <1>1, <1>3, <2>2 DEF q
<1> QED  BY <1>1, <1>2, <1>3

\* A mixture of two integers is one.
LEMMA InterpolateType ==
    ASSUME NEW a \in Int, NEW b \in Int, NEW v \in interpolate(a, b)
    PROVE  /\ v \in Int
           /\ (a <= v /\ v <= b) \/ (b <= v /\ v <= a)
<1>1. CASE a <= b
  BY <1>1 DEF interpolate
<1>2. CASE ~(a <= b)
  BY <1>2 DEF interpolate
<1> QED  BY <1>1, <1>2

FiniteDifferenceFilters ==
    [class : {"FiniteDifference"}, value : Int, lastPosition : Int, hasBeenCalled : BOOLEAN]

\* A difference of angles is an integer, too.
LEMMA AngleDifferenceType ==
    ASSUME NEW a \in Int, NEW b \in Int
    PROVE  angleDifferenceMinusPiToPi(a, b, HalfTurn) \in Int
<1> DEFINE turn == 2 * HalfTurn
           remainder == Abs(a - b) % turn
           difference == Fmod(a - b, turn)
<1>1. turn \in Nat \ {0} /\ HalfTurn \in Int
  BY VelocityAssumption
<1>2. Abs(a - b) \in Nat /\ Sign(a - b) \in {-1, 0, 1}
  BY DEF Abs, Sign
<1> HIDE DEF turn
<1>3. remainder \in Int
  BY <1>1, <1>2
<1>4. difference = Sign(a - b) * remainder
  BY DEF Fmod
<1> HIDE DEF remainder, difference
<1>5. difference \in Int
  BY <1>2, <1>3, <1>4
<1>6. angleDifferenceMinusPiToPi(a, b, HalfTurn) =
         IF difference <= -HalfTurn THEN difference + turn
         ELSE IF difference > HalfTurn THEN difference - turn ELSE difference
  BY DEF angleDifferenceMinusPiToPi, difference, turn
<1> QED  BY <1>1, <1>5, <1>6

\* What is left of x, less than n, is the remainder.
LEMMA RemainderIs ==
    ASSUME NEW n \in Nat \ {0}, NEW q \in Int, NEW r \in 0 .. (n - 1), NEW x \in Int, x = q * n + r
    PROVE  x % n = r
<1> DEFINE p == x \div n
           s == x % n
<1>1. p \in Int /\ s \in Int /\ 0 <= s /\ s < n /\ x = n * p + s
  OBVIOUS
<1> HIDE DEF p, s
<1> DEFINE d == q - p
<1>2. d \in Int /\ n * p = p * n /\ d * n = q * n - p * n
  BY <1>1
<1>3. p * n \in Int /\ q * n \in Int /\ d * n \in Int
  BY <1>1
<1>4. d * n = s - r
  BY <1>1, <1>2, <1>3
<1> HIDE DEF d
<1>5. d < 1
  <2> SUFFICES ASSUME d >= 1 PROVE FALSE
    BY <1>2
  <2>1. (d - 1) * n >= 0 /\ (d - 1) * n = d * n - n
    BY <1>2
  <2> QED  BY <1>1, <1>3, <1>4, <2>1
<1>6. d > -1
  <2> SUFFICES ASSUME d <= -1 PROVE FALSE
    BY <1>2
  <2>1. (-1 - d) * n >= 0 /\ (-1 - d) * n = -n - d * n
    BY <1>2
  <2> QED  BY <1>1, <1>3, <1>4, <2>1
<1>7. d = 0
  BY <1>2, <1>5, <1>6
<1>8. s = r
  BY <1>1, <1>4, <1>7
<1> QED  BY <1>8 DEF s

\* Two of the half turns to either side that differ from a number by whole turns are one.
LEMMA SameTurn ==
    ASSUME NEW n \in Nat \ {0}, NEW x \in Int, NEW d \in Int, NEW e \in Int,
           (x - d) % n = 0, (x - e) % n = 0, d - e < n, e - d < n
    PROVE  d = e
<1> DEFINE p == (x - d) \div n
           q == (x - e) \div n
<1>1. p \in Int /\ x - d = n * p
  OBVIOUS
<1>2. q \in Int /\ x - e = n * q
  OBVIOUS
<1> HIDE DEF p, q
<1>3. /\ q - p \in Int /\ d - e = (q - p) * n + 0
      /\ p - q \in Int /\ e - d = (p - q) * n + 0
  <2>1. n * q - n * p = (q - p) * n /\ n * p - n * q = (p - q) * n
    BY <1>1, <1>2
  <2> QED  BY <1>1, <1>2, <2>1
<1>4. d - e \in Int /\ e - d \in Int /\ 0 \in 0 .. (n - 1) /\ 0 \in Int
  OBVIOUS
<1>5. (d - e) % n = 0 /\ (e - d) % n = 0
  <2> DEFINE a == d - e
             b == e - d
             k == q - p
             l == p - q
  <2>1. a \in Int /\ b \in Int /\ k \in Int /\ l \in Int /\ a = k * n + 0 /\ b = l * n + 0
    BY <1>3, <1>4
  <2> HIDE DEF a, b, k, l
  <2>2. a % n = 0 /\ b % n = 0
    BY <1>4, <2>1, RemainderIs
  <2> QED  BY <2>2 DEF a, b
<1>6. CASE d >= e
  <2>1. d - e \in 0 .. (n - 1) /\ d - e = 0 * n + (d - e)
    BY <1>6
  <2>2. (d - e) % n = d - e
    BY <1>4, <2>1, RemainderIs
  <2> QED  BY <1>5, <2>2
<1>7. CASE d < e
  <2>1. e - d \in 0 .. (n - 1) /\ e - d = 0 * n + (e - d)
    BY <1>7
  <2>2. (e - d) % n = e - d
    BY <1>4, <2>1, RemainderIs
  <2> QED  BY <1>5, <2>2
<1> QED  BY <1>6, <1>7

\* A number is its quotient and its remainder.
LEMMA DivisionProperties ==
    ASSUME NEW a \in Int, NEW n \in Nat \ {0}
    PROVE  /\ a \div n \in Int /\ a % n \in Int /\ 0 <= a % n /\ a % n < n
           /\ a = n * (a \div n) + (a % n)
<1> DEFINE q == a \div n
           r == a % n
<1>1. q \in Int /\ r \in Int /\ 0 <= r /\ r < n /\ a = n * q + r
  OBVIOUS
<1> QED  BY <1>1

\* What angleDifferenceMinusPiToPi computes is the difference up to whole turns,
\* of half a turn at most.
LEMMA AngleDifferenceIs ==
    ASSUME NEW a \in Int, NEW b \in Int
    PROVE  LET d == angleDifferenceMinusPiToPi(a, b, HalfTurn)
           IN  d \in (1 - HalfTurn) .. HalfTurn /\ (a - b - d) % (2 * HalfTurn) = 0
<1> DEFINE turn == 2 * HalfTurn
           x == a - b
           size == Abs(x)
           q == size \div turn
           r == size % turn
           difference == Fmod(x, turn)
           k == IF x >= 0 THEN q ELSE -q
           d == angleDifferenceMinusPiToPi(a, b, HalfTurn)
<1>1. turn \in Nat \ {0} /\ HalfTurn \in Nat \ {0} /\ turn = 2 * HalfTurn /\ x \in Int
  BY VelocityAssumption
<1>2. d = IF difference <= -HalfTurn THEN difference + turn
          ELSE IF difference > HalfTurn THEN difference - turn ELSE difference
  BY DEF angleDifferenceMinusPiToPi
<1>3. difference = Sign(x) * r
  BY DEF Fmod
<1>4. size \in Int /\ size = IF x < 0 THEN -x ELSE x
  BY <1>1 DEF Abs
<1> HIDE DEF turn, x, d, difference, size
<1>5. q \in Int /\ r \in Int /\ 0 <= r /\ r < turn /\ size = turn * q + r
  <2>1. turn \in Nat \ {0} /\ size \in Int
    BY <1>1, <1>4
  <2> QED  BY <2>1, DivisionProperties
<1> HIDE DEF q, r
<1>6. /\ x > 0 => difference = r
      /\ x < 0 => difference = -r
      /\ x = 0 => difference = 0 /\ r = 0 /\ turn * q = 0
  <2>1. CASE x > 0
    <3>1. Sign(x) = 1
      BY <1>1, <2>1 DEF Sign
    <3>2. Sign(x) * r = 1 * r /\ 1 * r = r
      BY <1>5, <3>1
    <3> QED  BY <1>1, <1>3, <2>1, <3>2
  <2>2. CASE x < 0
    <3>1. Sign(x) = -1
      BY <1>1, <2>2 DEF Sign
    <3>2. Sign(x) * r = -1 * r /\ -1 * r = -r
      BY <1>5, <3>1
    <3> QED  BY <1>1, <1>3, <2>2, <3>2
  <2>3. CASE x = 0
    <3>1. Sign(x) = 0 /\ size = 0
      BY <1>4, <2>3 DEF Sign
    <3>2. Sign(x) * r = 0 * r /\ 0 * r = 0
      BY <1>5, <3>1
    <3>3. turn * q + r = 0
      BY <1>5, <3>1
    <3>4. 0 = 0 * turn + 0 /\ 0 \in 0 .. (turn - 1)
      BY <1>1
    <3>5. 0 % turn = 0
      BY <1>1, <3>4, RemainderIs
    <3>6. r = 0
      BY <3>1, <3>5 DEF r
    <3>7. turn * q = 0
      <4> DEFINE m == turn * q
      <4>1. m \in Int /\ m + r = 0
        BY <1>1, <1>5, <3>3
      <4> HIDE DEF m
      <4>2. m = 0
        BY <3>6, <4>1
      <4> QED  BY <4>2 DEF m
    <3>8. difference = 0
      BY <1>3, <3>2
    <3> QED  BY <2>3, <3>6, <3>7, <3>8
  <2> QED  BY <1>1, <2>1, <2>2, <2>3
<1>7. k \in Int /\ x = turn * k + difference /\ difference \in Int /\ -turn < difference /\ difference < turn
  <2>1. CASE x > 0
    BY <1>1, <1>4, <1>5, <1>6, <2>1
  <2>2. CASE x < 0
    <3>1. turn * (-q) = -(turn * q)
      BY <1>1, <1>5
    <3>2. turn * q \in Int
      BY <1>1, <1>5
    <3>3. -x = turn * q + r /\ k = -q
      BY <1>1, <1>4, <1>5, <2>2
    <3> QED  BY <1>1, <1>5, <1>6, <2>2, <3>1, <3>2, <3>3
  <2>3. CASE x = 0
    BY <1>1, <1>5, <1>6, <2>3
  <2> QED  BY <1>1, <2>1, <2>2, <2>3
<1> HIDE DEF k
<1>8. d \in (1 - HalfTurn) .. HalfTurn /\ (d = difference \/ d = difference + turn \/ d = difference - turn)
  BY <1>1, <1>2, <1>7
<1> DEFINE j == IF d = difference THEN k ELSE IF d = difference + turn THEN k - 1 ELSE k + 1
<1>9. j \in Int /\ x - d = j * turn + 0
  <2>1. /\ turn * k = k * turn /\ (k - 1) * turn = k * turn - turn
        /\ (k + 1) * turn = k * turn + turn /\ k * turn \in Int
    BY <1>1, <1>7
  <2> QED  BY <1>1, <1>7, <1>8, <2>1
<1> HIDE DEF j
<1>10. x - d \in Int /\ 0 \in 0 .. (turn - 1)
  BY <1>1, <1>8
<1>11. (x - d) % turn = 0
  <2> DEFINE y == x - d
  <2>1. /\ y \in Int /\ y = j * turn + 0 /\ j \in Int
        /\ turn \in Nat \ {0} /\ 0 \in 0 .. (turn - 1)
    BY <1>1, <1>9, <1>10
  <2> HIDE DEF y
  <2>2. y % turn = 0
    BY <2>1, RemainderIs
  <2> QED  BY <2>2 DEF y
<1> QED  BY <1>8, <1>11 DEF x, turn, d

\* The shorter way is what it computes from where the caller saw the position last.
LEMMA ShorterWayIs ==
    ASSUME NEW position \in Int, past.position \in Int
    PROVE  ShorterWay(position) = angleDifferenceMinusPiToPi(position, past.position, HalfTurn)
<1> DEFINE x == position - past.position
           d == angleDifferenceMinusPiToPi(position, past.position, HalfTurn)
           turn == 2 * HalfTurn
           range == (1 - HalfTurn) .. HalfTurn
<1>1. x \in Int /\ turn \in Nat \ {0} /\ HalfTurn \in Nat \ {0} /\ turn = 2 * HalfTurn
  BY VelocityAssumption
<1>2. d \in range /\ (x - d) % turn = 0
  BY AngleDifferenceIs
<1>3. ShorterWay(position) = CHOOSE e \in range : (x - e) % turn = 0
  BY DEF ShorterWay
<1> HIDE DEF x, d, turn
<1>4. ASSUME NEW e \in range, (x - e) % turn = 0 PROVE e = d
  <2>1. d \in Int /\ e \in Int /\ d - e < turn /\ e - d < turn
    BY <1>1, <1>2, <1>4
  <2> QED  BY <1>1, <1>2, <1>4, <2>1, SameTurn
<1> HIDE DEF range
<1>5. ShorterWay(position) = d
  BY <1>2, <1>3, <1>4
<1> QED  BY <1>5 DEF d

\* An update leaves such a filter.
LEMMA FiniteDifferencesType ==
    ASSUME NEW filter \in FiniteDifferenceFilters, NEW position \in Positions, NEW areAngles \in BOOLEAN,
           NEW new \in FiniteDifferences(filter, position, areAngles)
    PROVE  new \in FiniteDifferenceFilters
<1> DEFINE last == IF filter.hasBeenCalled THEN filter.lastPosition ELSE position
           value == IF filter.hasBeenCalled THEN filter.value ELSE 0
           difference == IF areAngles THEN angleDifferenceMinusPiToPi(position, last, HalfTurn)
                         ELSE position - last
<1>1. position \in Int /\ VelocityDt \in Nat \ {0}
  BY VelocityAssumption
<1>2. filter.lastPosition \in Int /\ filter.value \in Int
  BY Zenon DEF FiniteDifferenceFilters
<1>3. last \in Int /\ value \in Int
  BY <1>1, <1>2
<1>4. PICK v \in interpolate(difference \div VelocityDt, value) :
         new = [filter EXCEPT !.hasBeenCalled = TRUE, !.lastPosition = position, !.value = v]
  BY DEF FiniteDifferences
<1> HIDE DEF last, value
<1>5. difference \in Int
  BY <1>1, <1>3, AngleDifferenceType
<1> HIDE DEF difference
<1>6. v \in Int
  BY <1>1, <1>3, <1>5, QuotientProperties, InterpolateType
<1> QED  BY <1>1, <1>4, <1>6, Zenon DEF FiniteDifferenceFilters

Turns == {-1, 1}
BacklashStates(direction) == {OK(direction), Slop(direction)}

\* The direction a velocity shows.
LEMMA TowardsProperties ==
    ASSUME NEW velocity \in Int, NEW direction \in {-1, 0, 1}
    PROVE  /\ Towards(velocity, direction) \in {-1, 0, 1}
           /\ direction # 0 \/ velocity # 0 => Towards(velocity, direction) \in Turns
           /\ velocity # 0 => Towards(velocity, direction) = Sign(velocity)
           /\ velocity = 0 => Towards(velocity, direction) = direction
           /\ direction # 0 => (velocity * direction < 0 <=> Towards(velocity, direction) # direction)
           /\ velocity * direction < 0 => Towards(velocity, direction) = -direction
BY DEF Towards, Sign, Turns

\* What the states are made of.
LEMMA StateProperties ==
    ASSUME NEW direction \in {-1, 0, 1}
    PROVE  /\ Direction(OK(direction)) = direction /\ ~isInBacklash(OK(direction))
           /\ Direction(Slop(direction)) = direction /\ isInBacklash(Slop(direction))
           /\ Direction(None) = 0 /\ ~isInBacklash(None)
           /\ OK(direction) # None /\ Slop(direction) # None
BY DEF Direction, OK, Slop, None, isInBacklash

\* A turn enters the backlash and starts the time anew; only more than slopTime
\* after the last one is it left.
LEMMA AfterVelocityProperties ==
    ASSUME NEW filter, "timeSinceSloppy" \in DOMAIN filter, "backlashState" \in DOMAIN filter,
           NEW direction \in Turns, filter.backlashState \in BacklashStates(direction),
           NEW velocity \in Int, NEW slopTime, NEW restarts \in BOOLEAN,
           NEW after, after = AfterVelocity(filter, velocity, slopTime, restarts),
           NEW turned, turned = Towards(velocity, direction)
    PROVE  /\ turned \in Turns
           /\ after.backlashState \in BacklashStates(turned)
           /\ turned # direction => after.backlashState = Slop(turned) /\ after.timeSinceSloppy = 0
           /\ turned = direction =>
                 \/ /\ after.backlashState = filter.backlashState
                    /\ after.timeSinceSloppy = filter.timeSinceSloppy
                 \/ /\ isInBacklash(filter.backlashState) /\ ~isInBacklash(after.backlashState)
                    /\ filter.timeSinceSloppy > slopTime
                    /\ ~restarts => after.timeSinceSloppy = filter.timeSinceSloppy
<1> DEFINE time == IF restarts THEN 0 ELSE filter.timeSinceSloppy
<1>1. /\ turned \in Turns /\ direction \in {-1, 0, 1}
      /\ velocity * direction < 0 <=> turned # direction
      /\ velocity * direction < 0 => turned = -direction
  BY TowardsProperties DEF Turns
<1>2. Direction(filter.backlashState) = direction
  BY <1>1, StateProperties DEF BacklashStates
<1>3. after = IF velocity * direction < 0
              THEN [filter EXCEPT !.timeSinceSloppy = 0, !.backlashState = Slop(-direction)]
              ELSE IF isInBacklash(filter.backlashState) /\ filter.timeSinceSloppy > slopTime
              THEN [filter EXCEPT !.timeSinceSloppy = time, !.backlashState = OK(direction)]
              ELSE filter
  BY <1>2 DEF AfterVelocity
<1> HIDE DEF time
<1>4. CASE velocity * direction < 0
  <2>1. after = [filter EXCEPT !.timeSinceSloppy = 0, !.backlashState = Slop(turned)]
    BY <1>1, <1>3, <1>4
  <2>2. after.timeSinceSloppy = 0 /\ after.backlashState = Slop(turned)
    BY <2>1
  <2> QED  BY <1>1, <1>4, <2>1, <2>2 DEF BacklashStates
<1>5. CASE ~(velocity * direction < 0) /\ isInBacklash(filter.backlashState) /\ filter.timeSinceSloppy > slopTime
  <2>1. after = [filter EXCEPT !.timeSinceSloppy = time, !.backlashState = OK(direction)]
    BY <1>3, <1>5
  <2>2. after.timeSinceSloppy = time /\ after.backlashState = OK(direction)
    BY <2>1
  <2>3. ~isInBacklash(after.backlashState)
    BY <1>1, <2>2, StateProperties
  <2>4. turned = direction
    BY <1>1, <1>5
  <2> QED  BY <1>1, <1>5, <2>1, <2>2, <2>3, <2>4 DEF BacklashStates, time
<1>6. CASE ~(velocity * direction < 0) /\ ~(isInBacklash(filter.backlashState) /\ filter.timeSinceSloppy > slopTime)
  <2>1. after = filter /\ turned = direction
    BY <1>1, <1>3, <1>6
  <2> QED  BY <1>1, <2>1
<1> QED  BY <1>4, <1>5, <1>6

DifferencePasts == [call : {"reset", "update"}, position : Int, lowest : Int, highest : Int]

\* A filter that was called saw the position last that its caller gave, and what
\* it showed is among the differences since.
DifferenceInv ==
    /\ object \in FiniteDifferenceFilters /\ past \in DifferencePasts
    /\ object.hasBeenCalled => object.lastPosition = past.position
    /\ object.hasBeenCalled \/ Updated => past.lowest <= object.value /\ object.value <= past.highest

BacklashPast ==
    past = [call |-> past.call, direction |-> past.direction, age |-> past.age,
            velocity |-> past.velocity, slopTime |-> past.slopTime]

\* The state points in the direction the inputs did last, and its time is the
\* age of that direction, also beyond a reset.
ProcessingInv ==
    /\ object = [class |-> "BacklashProcessing", value |-> object.value,
                 hasBeenCalled |-> object.hasBeenCalled, backlashState |-> object.backlashState,
                 timeSinceSloppy |-> object.timeSinceSloppy]
    /\ BacklashPast /\ past.direction \in Turns
    /\ \/ object.backlashState = None /\ past.direction = 1
       \/ object.backlashState \in BacklashStates(past.direction)
    /\ object.timeSinceSloppy = past.age

\* The time is that age only while the backlash lasts: it is started anew when
\* this is left.
CompensatingInv ==
    /\ object = [class |-> "BacklashCompensating", value |-> object.value,
                 lastPosition |-> object.lastPosition, hasBeenCalled |-> object.hasBeenCalled,
                 backlashState |-> object.backlashState, timeSinceSloppy |-> object.timeSinceSloppy,
                 finiteDifferenceVelocity |-> object.finiteDifferenceVelocity]
    /\ object.finiteDifferenceVelocity \in FiniteDifferenceFilters
    /\ BacklashPast /\ past.direction \in {-1, 0, 1}
    /\ \/ object.backlashState = None /\ past.direction = 0
       \/ object.backlashState \in BacklashStates(past.direction) /\ past.direction \in Turns
    /\ isInBacklash(object.backlashState) => object.timeSinceSloppy = past.age

\* The first movement in a direction shows no velocity, and the second none in
\* the other; a filter that was not called since the start has seen none.
DiscreteInv ==
    /\ object = [class |-> "DiscreteVelocity", value |-> object.value,
                 hasBeenCalled |-> object.hasBeenCalled, lastPosition |-> object.lastPosition,
                 lastUpdateTime |-> object.lastUpdateTime,
                 lastUpdateDirection |-> object.lastUpdateDirection,
                 unfilteredVelocity |-> object.unfilteredVelocity]
    /\ past = [call |-> past.call, position |-> past.position, direction |-> past.direction,
               moves |-> past.moves]
    /\ object.lastPosition \in Int /\ object.lastUpdateTime \in Int /\ object.unfilteredVelocity \in Int
    /\ past.direction \in {-1, 0, 1} /\ past.moves \in 0 .. 2
    /\ IF object.hasBeenCalled
       THEN past.position = object.lastPosition /\ past.direction = object.lastUpdateDirection
       ELSE past.direction = 0 /\ past.moves = 0
    /\ past.moves = 1 => object.unfilteredVelocity = 0
    /\ past.moves = 2 /\ object.unfilteredVelocity # 0 =>
          Sign(object.unfilteredVelocity) = past.direction

VelocityInv ==
    \/ ProcessingInv
    \/ CompensatingInv
    \/ DifferenceInv
    \/ DiscreteInv

\* The body of ReversalsPlayedOut.
PlayedOutNow ==
    past'.call = "update" =>
        /\ Is("BacklashProcessing") \/ Is("BacklashCompensating") => BacklashPlayedOut
        /\ Is("BacklashProcessing") => RampedUp
        /\ Is("DiscreteVelocity") => CountsFromSecondMove

\* Each class has its part of the invariant.
LEMMA VelocityClasses ==
    ASSUME VelocityInv
    PROVE  /\ Is("BacklashProcessing") <=> ProcessingInv
           /\ Is("BacklashCompensating") <=> CompensatingInv
           /\ Is("FiniteDifference") <=> DifferenceInv
           /\ Is("DiscreteVelocity") <=> DiscreteInv
<1>1. ProcessingInv => object.class = "BacklashProcessing"
  BY DEF ProcessingInv
<1>2. CompensatingInv => object.class = "BacklashCompensating"
  BY DEF CompensatingInv
<1>3. DifferenceInv => object.class = "FiniteDifference"
  BY DEF DifferenceInv, FiniteDifferenceFilters
<1>4. DiscreteInv => object.class = "DiscreteVelocity"
  BY DEF DiscreteInv
<1> QED  BY <1>1, <1>2, <1>3, <1>4 DEF VelocityInv, Is

\* The constructors have seen nothing.
LEMMA VelocityInitInv == VelocityInit => VelocityInv
<1> SUFFICES ASSUME VelocityInit PROVE VelocityInv
  OBVIOUS
<1>1. NewFiniteDifference \in FiniteDifferenceFilters
  <2>1. 0 \in Int
    OBVIOUS
  <2> QED  BY <2>1, Zenon DEF NewFiniteDifference, FiniteDifferenceFilters
<1>2. CASE /\ object = NewBacklashProcessing
           /\ past = [call |-> "reset", direction |-> 1, age |-> 0, velocity |-> 0, slopTime |-> 0]
  BY <1>2 DEF NewBacklashProcessing, VelocityInv, ProcessingInv, BacklashPast, Turns
<1>3. CASE /\ object = NewBacklashCompensating
           /\ past = [call |-> "reset", direction |-> 0, age |-> 0, velocity |-> 0, slopTime |-> 0]
  BY <1>1, <1>3 DEF NewBacklashCompensating, VelocityInv, CompensatingInv, BacklashPast,
                    isInBacklash, None
<1>4. CASE /\ object = NewFiniteDifference
           /\ past = [call |-> "reset", position |-> 0, lowest |-> 0, highest |-> 0]
  <2>1. past \in DifferencePasts
    <3>1. 0 \in Int
      OBVIOUS
    <3> QED  BY <1>4, <3>1, Zenon DEF DifferencePasts
  <2>2. object.hasBeenCalled = FALSE /\ past.call = "reset"
    BY <1>4 DEF NewFiniteDifference
  <2> QED  BY <1>1, <1>4, <2>1, <2>2 DEF VelocityInv, DifferenceInv, Updated
<1>5. CASE /\ object = NewDiscreteVelocity
           /\ past = [call |-> "reset", position |-> 0, direction |-> 0, moves |-> 0]
  BY <1>5 DEF NewDiscreteVelocity, VelocityInv, DiscreteInv
<1> QED  BY <1>2, <1>3, <1>4, <1>5 DEF VelocityInit

\* What the caller knows after an update.
LEMMA ReversalsProperties ==
    ASSUME NEW velocity, NEW slopTime, Reversals(velocity, slopTime)
    PROVE  LET turned == Towards(velocity, past.direction)
           IN  /\ BacklashPast' /\ past'.call = "update" /\ past'.direction = turned
               /\ past'.velocity = velocity /\ past'.slopTime = slopTime
               /\ past'.age = IF turned # past.direction /\ past.direction # 0 THEN 0
                              ELSE Later(past.age)
BY DEF Reversals, BacklashPast

\* A filter of velocities plays a reversal out and ramps its input up.
LEMMA ProcessingSteps ==
    ASSUME VelocityInv, NEW velocity \in Velocities, NEW slopTime \in SlopTimes,
           UpdateProcessing(velocity, slopTime)
    PROVE  VelocityInv' /\ PlayedOutNow
<1> DEFINE started == IF object.backlashState = None THEN [object EXCEPT !.backlashState = OK(1)] ELSE object
           later == [started EXCEPT !.timeSinceSloppy = Later(@)]
           after == AfterVelocity(later, velocity, slopTime, FALSE)
           turned == Towards(velocity, past.direction)
           shown == IF slopTime < VelocityDt THEN velocity
                    ELSE Share(velocity, after.timeSinceSloppy, slopTime)
<1>1. ProcessingInv /\ Is("BacklashProcessing")
  BY VelocityClasses DEF UpdateProcessing
<1>2. /\ BacklashPast' /\ past'.call = "update" /\ past'.direction = turned
      /\ past'.velocity = velocity /\ past'.slopTime = slopTime
      /\ past'.age = IF turned # past.direction /\ past.direction # 0 THEN 0 ELSE Later(past.age)
  BY ReversalsProperties DEF UpdateProcessing
<1>3. velocity \in Int /\ past.direction \in Turns /\ past.direction # 0
  BY <1>1, VelocityAssumption DEF ProcessingInv, Turns
<1>4. /\ started = [class |-> "BacklashProcessing", value |-> object.value,
                    hasBeenCalled |-> object.hasBeenCalled, backlashState |-> started.backlashState,
                    timeSinceSloppy |-> object.timeSinceSloppy]
      /\ started.backlashState \in BacklashStates(past.direction)
      /\ isInBacklash(object.backlashState) => isInBacklash(started.backlashState)
  <2>1. CASE object.backlashState = None
    <3>1. past.direction = 1
      BY <1>1, <1>3, <2>1 DEF ProcessingInv, BacklashStates, OK, Slop, None, Turns
    <3>2. started = [object EXCEPT !.backlashState = OK(1)] /\ ~isInBacklash(None)
      BY <2>1, StateProperties
    <3> QED  BY <1>1, <2>1, <3>1, <3>2 DEF ProcessingInv, BacklashStates
  <2>2. CASE object.backlashState # None
    BY <1>1, <2>2 DEF ProcessingInv
  <2> QED  BY <2>1, <2>2
<1> HIDE DEF started
<1>5. /\ later = [class |-> "BacklashProcessing", value |-> object.value,
                  hasBeenCalled |-> object.hasBeenCalled, backlashState |-> started.backlashState,
                  timeSinceSloppy |-> Later(past.age)]
      /\ later.backlashState \in BacklashStates(past.direction)
      /\ later.timeSinceSloppy = Later(past.age)
  BY <1>1, <1>4 DEF ProcessingInv
<1> HIDE DEF later
<1>6. "timeSinceSloppy" \in DOMAIN later /\ "backlashState" \in DOMAIN later
  BY <1>5
<1>7. /\ turned \in Turns
      /\ after.backlashState \in BacklashStates(turned)
      /\ turned # past.direction => after.backlashState = Slop(turned) /\ after.timeSinceSloppy = 0
      /\ turned = past.direction =>
            \/ /\ after.backlashState = later.backlashState
               /\ after.timeSinceSloppy = later.timeSinceSloppy
            \/ /\ isInBacklash(later.backlashState) /\ ~isInBacklash(after.backlashState)
               /\ later.timeSinceSloppy > slopTime
               /\ after.timeSinceSloppy = later.timeSinceSloppy
  <2> DEFINE direction == past.direction
             restarts == FALSE
  <2>1. direction \in Turns /\ later.backlashState \in BacklashStates(direction)
    BY <1>3, <1>5
  <2>2. restarts \in BOOLEAN /\ ~restarts
    OBVIOUS
  <2>3. turned = Towards(velocity, direction)
    OBVIOUS
  <2>4. after = AfterVelocity(later, velocity, slopTime, restarts)
    OBVIOUS
  <2> HIDE DEF direction, restarts, turned, after
  <2>5. /\ turned \in Turns
        /\ after.backlashState \in BacklashStates(turned)
        /\ turned # direction => after.backlashState = Slop(turned) /\ after.timeSinceSloppy = 0
        /\ turned = direction =>
              \/ /\ after.backlashState = later.backlashState
                 /\ after.timeSinceSloppy = later.timeSinceSloppy
              \/ /\ isInBacklash(later.backlashState) /\ ~isInBacklash(after.backlashState)
                 /\ later.timeSinceSloppy > slopTime
                 /\ after.timeSinceSloppy = later.timeSinceSloppy
    BY <1>3, <1>6, <2>1, <2>2, <2>3, <2>4, AfterVelocityProperties
  <2> QED  BY <2>5 DEF direction
<1>8. object' = [after EXCEPT !.hasBeenCalled = TRUE, !.value = shown]
  BY DEF UpdateProcessing, shown, after, later, started
<1> HIDE DEF after, turned
<1>9. after.timeSinceSloppy = past'.age
  BY <1>2, <1>3, <1>5, <1>7
<1> HIDE DEF shown
<1>10. /\ object' = [class |-> "BacklashProcessing", value |-> shown, hasBeenCalled |-> TRUE,
                     backlashState |-> after.backlashState, timeSinceSloppy |-> after.timeSinceSloppy]
       /\ object'.backlashState = after.backlashState /\ object'.value = shown
  <2>1. after = [class |-> "BacklashProcessing", value |-> object.value,
                 hasBeenCalled |-> object.hasBeenCalled, backlashState |-> after.backlashState,
                 timeSinceSloppy |-> after.timeSinceSloppy]
    BY <1>5 DEF after, AfterVelocity
  <2> DEFINE state == after.backlashState
             time  == after.timeSinceSloppy
  <2>2. after = [class |-> "BacklashProcessing", value |-> object.value,
                 hasBeenCalled |-> object.hasBeenCalled, backlashState |-> state,
                 timeSinceSloppy |-> time]
    BY <2>1
  <2> HIDE DEF state, time
  <2>3. object' = [class |-> "BacklashProcessing", value |-> shown, hasBeenCalled |-> TRUE,
                   backlashState |-> state, timeSinceSloppy |-> time]
    BY <1>8, <2>2
  <2> QED  BY <2>3 DEF state, time
<1>11. VelocityInv'
  BY <1>2, <1>7, <1>9, <1>10 DEF VelocityInv, ProcessingInv
<1>12. BacklashPlayedOut
  <2>1. Direction(object'.backlashState) = past'.direction
    BY <1>2, <1>7, <1>10, StateProperties DEF BacklashStates, Turns
  <2>2. turned # past.direction => isInBacklash(object'.backlashState)
    BY <1>7, <1>10, StateProperties DEF Turns
  <2>3. isInBacklash(object.backlashState) /\ ~isInBacklash(object'.backlashState) =>
           past'.age > past'.slopTime
    BY <1>2, <1>4, <1>5, <1>7, <1>9, <1>10, <2>2
  <2> QED  BY <1>2, <2>1, <2>2, <2>3 DEF BacklashPlayedOut
<1>13. RampedUp
  BY <1>2, <1>9, <1>10 DEF RampedUp, shown
<1> QED  BY <1>1, <1>11, <1>12, <1>13 DEF PlayedOutNow, Is

\* A filter of positions plays a reversal of its own differences out.
LEMMA CompensatingSteps ==
    ASSUME VelocityInv, NEW position \in Positions, NEW slopTime \in SlopTimes,
           UpdateCompensating(position, slopTime)
    PROVE  VelocityInv' /\ PlayedOutNow
<1>1. CompensatingInv /\ Is("BacklashCompensating")
  BY VelocityClasses DEF UpdateCompensating
<1> DEFINE Started(difference) ==
               [object EXCEPT !.hasBeenCalled = TRUE,
                              !.lastPosition = IF object.hasBeenCalled THEN @ ELSE position,
                              !.value = IF object.hasBeenCalled THEN @ ELSE 0,
                              !.finiteDifferenceVelocity = difference,
                              !.timeSinceSloppy = Later(@)]
           After(difference) ==
               IF object.backlashState # None THEN AfterVelocity(Started(difference), difference.value, slopTime, TRUE)
               ELSE IF difference.value # 0
               THEN [Started(difference) EXCEPT !.backlashState = OK(Sign(difference.value))]
               ELSE Started(difference)
<1>0. PICK difference \in FiniteDifferences(object.finiteDifferenceVelocity, position, FALSE) :
         /\ \E value : object' = [After(difference) EXCEPT !.lastPosition = position, !.value = value]
         /\ Reversals(difference.value, slopTime)
  BY DEF UpdateCompensating
<1>2. PICK value :
         /\ object' = [After(difference) EXCEPT !.lastPosition = position, !.value = value]
         /\ Reversals(difference.value, slopTime)
  BY <1>0
<1> DEFINE started == Started(difference)
           after == After(difference)
           velocity == difference.value
           direction == past.direction
           turned == Towards(velocity, direction)
<1>3. difference \in FiniteDifferenceFilters /\ velocity \in Int
  <2>1. object.finiteDifferenceVelocity \in FiniteDifferenceFilters /\ FALSE \in BOOLEAN
    BY <1>1 DEF CompensatingInv
  <2>2. difference \in FiniteDifferenceFilters
    BY <1>0, <2>1, FiniteDifferencesType
  <2> QED  BY <2>2, Zenon DEF FiniteDifferenceFilters
<1>4. /\ BacklashPast' /\ past'.call = "update" /\ past'.direction = turned
      /\ past'.velocity = velocity /\ past'.slopTime = slopTime
      /\ past'.age = IF turned # direction /\ direction # 0 THEN 0 ELSE Later(past.age)
  BY <1>2, ReversalsProperties
<1>5. /\ direction \in {-1, 0, 1}
      /\ \/ object.backlashState = None /\ direction = 0
         \/ object.backlashState \in BacklashStates(direction) /\ direction \in Turns /\ object.backlashState # None
      /\ isInBacklash(object.backlashState) => object.timeSinceSloppy = past.age
  BY <1>1, StateProperties DEF CompensatingInv, BacklashStates
<1> DEFINE position0 == IF object.hasBeenCalled THEN object.lastPosition ELSE position
           value0 == IF object.hasBeenCalled THEN object.value ELSE 0
<1>6. /\ started = [class |-> "BacklashCompensating", value |-> value0, lastPosition |-> position0,
                    hasBeenCalled |-> TRUE, backlashState |-> object.backlashState,
                    timeSinceSloppy |-> Later(object.timeSinceSloppy),
                    finiteDifferenceVelocity |-> difference]
      /\ started.backlashState = object.backlashState
      /\ started.timeSinceSloppy = Later(object.timeSinceSloppy)
      /\ "timeSinceSloppy" \in DOMAIN started /\ "backlashState" \in DOMAIN started
  <2> DEFINE v == object.value
             l == object.lastPosition
             h == object.hasBeenCalled
             s == object.backlashState
             t == object.timeSinceSloppy
             f == object.finiteDifferenceVelocity
  <2>1. object = [class |-> "BacklashCompensating", value |-> v, lastPosition |-> l,
                  hasBeenCalled |-> h, backlashState |-> s, timeSinceSloppy |-> t,
                  finiteDifferenceVelocity |-> f]
    BY <1>1 DEF CompensatingInv
  <2>2. started = [object EXCEPT !.hasBeenCalled = TRUE, !.lastPosition = position0, !.value = value0,
                                 !.finiteDifferenceVelocity = difference, !.timeSinceSloppy = Later(t)]
    BY <2>1
  <2> HIDE DEF started, position0, value0
  <2>3. Later(t) = Later(object.timeSinceSloppy) /\ s = object.backlashState
    OBVIOUS
  <2> HIDE DEF v, l, h, s, t, f
  <2>4. started = [class |-> "BacklashCompensating", value |-> value0, lastPosition |-> position0,
                   hasBeenCalled |-> TRUE, backlashState |-> s, timeSinceSloppy |-> Later(t),
                   finiteDifferenceVelocity |-> difference]
    BY <2>1, <2>2
  <2> QED  BY <2>3, <2>4
<1>7. after = IF object.backlashState # None THEN AfterVelocity(started, velocity, slopTime, TRUE)
              ELSE IF velocity # 0 THEN [started EXCEPT !.backlashState = OK(Sign(velocity))]
              ELSE started
  OBVIOUS
<1>8. object' = [after EXCEPT !.lastPosition = position, !.value = value]
  BY <1>2
<1> HIDE DEF Started, After, started, after, position0, value0
<1>9. after = [class |-> "BacklashCompensating", value |-> value0, lastPosition |-> position0,
               hasBeenCalled |-> TRUE, backlashState |-> after.backlashState,
               timeSinceSloppy |-> after.timeSinceSloppy, finiteDifferenceVelocity |-> difference]
  <2>1. CASE object.backlashState # None
    BY <1>6, <1>7, <2>1 DEF AfterVelocity
  <2>2. CASE object.backlashState = None
    BY <1>6, <1>7, <2>2
  <2> QED  BY <2>1, <2>2
<1>10. /\ \/ after.backlashState = None /\ turned = 0
          \/ after.backlashState \in BacklashStates(turned) /\ turned \in Turns
       /\ isInBacklash(after.backlashState) => after.timeSinceSloppy = past'.age
       /\ direction # 0 /\ turned # direction => isInBacklash(after.backlashState)
       /\ isInBacklash(object.backlashState) /\ ~isInBacklash(after.backlashState) =>
             past'.age > slopTime
  <2>1. CASE object.backlashState # None
    <3> DEFINE restarts == TRUE
    <3>1. direction \in Turns /\ direction # 0 /\ started.backlashState \in BacklashStates(direction)
      BY <1>5, <1>6, <2>1 DEF Turns
    <3>2. restarts \in BOOLEAN /\ after = AfterVelocity(started, velocity, slopTime, restarts)
      BY <1>7, <2>1
    <3>3. turned = Towards(velocity, direction)
      OBVIOUS
    <3> HIDE DEF restarts, turned, direction, velocity
    <3>4. /\ turned \in Turns
          /\ after.backlashState \in BacklashStates(turned)
          /\ turned # direction => after.backlashState = Slop(turned) /\ after.timeSinceSloppy = 0
          /\ turned = direction =>
                \/ /\ after.backlashState = started.backlashState
                   /\ after.timeSinceSloppy = started.timeSinceSloppy
                \/ /\ isInBacklash(started.backlashState) /\ ~isInBacklash(after.backlashState)
                   /\ started.timeSinceSloppy > slopTime
      BY <1>3, <1>6, <3>1, <3>2, <3>3, AfterVelocityProperties
    <3>5. isInBacklash(Slop(turned))
      BY <3>4, StateProperties DEF Turns
    <3>6. CASE turned # direction
      BY <1>4, <3>1, <3>4, <3>5, <3>6
    <3>7. CASE turned = direction
      <4>1. past'.age = Later(past.age)
        BY <1>4, <3>7
      <4> QED  BY <1>5, <1>6, <3>4, <3>7, <4>1
    <3> QED  BY <3>6, <3>7
  <2>2. CASE object.backlashState = None
    <3>1. direction = 0
      BY <1>5, <2>2, StateProperties DEF BacklashStates
    <3>2. ~isInBacklash(None) /\ ~isInBacklash(object.backlashState)
      BY <2>2, StateProperties
    <3>3. CASE velocity # 0
      <4>1. turned \in Turns /\ turned = Sign(velocity)
        BY <1>3, <1>5, <3>3, TowardsProperties
      <4>2. after.backlashState = OK(turned)
        BY <1>6, <1>7, <2>2, <3>3, <4>1
      <4>3. ~isInBacklash(OK(turned))
        BY <4>1, StateProperties DEF Turns
      <4> QED  BY <3>1, <3>2, <4>1, <4>2, <4>3 DEF BacklashStates
    <3>4. CASE velocity = 0
      <4>1. turned = 0
        BY <1>3, <1>5, <3>1, <3>4, TowardsProperties
      <4>2. after.backlashState = None
        BY <1>6, <1>7, <2>2, <3>4
      <4> QED  BY <3>1, <3>2, <4>1, <4>2
    <3> QED  BY <3>3, <3>4
  <2> QED  BY <2>1, <2>2
<1> HIDE DEF turned, direction, velocity
<1>11. /\ object' = [class |-> "BacklashCompensating", value |-> value, lastPosition |-> position,
                     hasBeenCalled |-> TRUE, backlashState |-> after.backlashState,
                     timeSinceSloppy |-> after.timeSinceSloppy, finiteDifferenceVelocity |-> difference]
       /\ object'.backlashState = after.backlashState
  <2> DEFINE state == after.backlashState
             time  == after.timeSinceSloppy
  <2>1. after = [class |-> "BacklashCompensating", value |-> value0, lastPosition |-> position0,
                 hasBeenCalled |-> TRUE, backlashState |-> state, timeSinceSloppy |-> time,
                 finiteDifferenceVelocity |-> difference]
    BY <1>9
  <2> HIDE DEF state, time
  <2>2. object' = [class |-> "BacklashCompensating", value |-> value, lastPosition |-> position,
                   hasBeenCalled |-> TRUE, backlashState |-> state, timeSinceSloppy |-> time,
                   finiteDifferenceVelocity |-> difference]
    BY <1>8, <2>1
  <2> QED  BY <2>2 DEF state, time
<1>12. VelocityInv'
  <2>1. turned \in {-1, 0, 1}
    BY <1>10 DEF Turns
  <2> QED  BY <1>3, <1>4, <1>10, <1>11, <2>1 DEF VelocityInv, CompensatingInv
<1>13. BacklashPlayedOut
  <2>1. object'.backlashState # None => Direction(object'.backlashState) = past'.direction
    BY <1>4, <1>10, <1>11, StateProperties DEF BacklashStates, Turns
  <2> QED  BY <1>4, <1>10, <1>11, <2>1 DEF BacklashPlayedOut, direction
<1> QED  BY <1>1, <1>12, <1>13 DEF PlayedOutNow, Is

\* A velocity is shown from the second movement in one direction; what was shown
\* before may decay meanwhile, but does not change its sign.
LEMMA DiscreteSteps ==
    ASSUME VelocityInv, NEW position \in Positions, NEW time \in Times, UpdateDiscrete(position, time)
    PROVE  VelocityInv' /\ PlayedOutNow
<1> DEFINE called == object.hasBeenCalled
           last == IF called THEN object.lastPosition ELSE position
           lastTime == IF called THEN object.lastUpdateTime ELSE time
           direction == past.direction
           unfiltered0 == object.unfilteredVelocity
           moved == position - last
           elapsed == time - lastTime
           turned == Towards(moved, direction)
           changed == moved # 0 /\ Sign(moved) # direction
           started == IF called THEN object
                      ELSE [object EXCEPT !.hasBeenCalled = TRUE, !.lastPosition = position,
                                          !.lastUpdateTime = time, !.lastUpdateDirection = 0]
<1>1. DiscreteInv /\ Is("DiscreteVelocity")
  BY VelocityClasses DEF UpdateDiscrete
<1>2. position \in Int /\ time \in Int
  BY VelocityAssumption
<1>3. /\ last \in Int /\ lastTime \in Int /\ moved \in Int /\ elapsed \in Int
      /\ unfiltered0 \in Int /\ direction \in {-1, 0, 1}
  BY <1>1, <1>2 DEF DiscreteInv
<1>4. /\ started = [class |-> "DiscreteVelocity", value |-> object.value, hasBeenCalled |-> TRUE,
                    lastPosition |-> last, lastUpdateTime |-> lastTime,
                    lastUpdateDirection |-> direction, unfilteredVelocity |-> unfiltered0]
      /\ started.lastPosition = last /\ started.lastUpdateTime = lastTime
      /\ started.lastUpdateDirection = direction
  <2> DEFINE v == object.value
             l == object.lastPosition
             t == object.lastUpdateTime
             d == object.lastUpdateDirection
  <2>1. object = [class |-> "DiscreteVelocity", value |-> v, hasBeenCalled |-> called,
                  lastPosition |-> l, lastUpdateTime |-> t, lastUpdateDirection |-> d,
                  unfilteredVelocity |-> unfiltered0]
    BY <1>1 DEF DiscreteInv
  <2>2. CASE called
    <3>1. direction = d
      BY <1>1, <2>2 DEF DiscreteInv
    <3>2. started = object /\ last = l /\ lastTime = t
      BY <2>2
    <3> HIDE DEF l, t, d, unfiltered0, started, last, lastTime, direction, v
    <3>3. started = [class |-> "DiscreteVelocity", value |-> v, hasBeenCalled |-> TRUE,
                     lastPosition |-> last, lastUpdateTime |-> lastTime,
                     lastUpdateDirection |-> direction, unfilteredVelocity |-> unfiltered0]
      <4>1. called = TRUE
        BY <2>1, <2>2, <1>1 DEF DiscreteInv
      <4> HIDE DEF called
      <4> QED  BY <2>1, <3>1, <3>2, <4>1
    <3> QED  BY <3>3 DEF v
  <2>3. CASE ~called
    <3>1. direction = 0 /\ last = position /\ lastTime = time
      BY <1>1, <2>3 DEF DiscreteInv
    <3>2. started = [object EXCEPT !.hasBeenCalled = TRUE, !.lastPosition = position,
                                   !.lastUpdateTime = time, !.lastUpdateDirection = 0]
      BY <2>3
    <3> HIDE DEF l, t, d, unfiltered0, started, last, lastTime, direction, v, called
    <3>3. started = [class |-> "DiscreteVelocity", value |-> v, hasBeenCalled |-> TRUE,
                     lastPosition |-> last, lastUpdateTime |-> lastTime,
                     lastUpdateDirection |-> direction, unfilteredVelocity |-> unfiltered0]
      BY <2>1, <3>1, <3>2
    <3> QED  BY <3>3 DEF v
  <2> QED  BY <2>2, <2>3
<1> HIDE DEF started
<1>0. PICK unfiltered \in IF moved = 0 THEN interpolate(0, unfiltered0)
                          ELSE {OnMovement(changed, moved, elapsed)} :
         \E value : object' = [started EXCEPT !.value = value, !.unfilteredVelocity = unfiltered,
                                   !.lastUpdateDirection = Towards(moved, @),
                                   !.lastPosition = position,
                                   !.lastUpdateTime = IF moved # 0 THEN time ELSE @]
  <2> DEFINE movedBy == position - started.lastPosition
             turns == movedBy # 0 /\ Sign(movedBy) # started.lastUpdateDirection
  <2>1. \E unfiltered \in IF movedBy = 0 THEN interpolate(0, object.unfilteredVelocity)
                          ELSE {OnMovement(turns, movedBy, time - started.lastUpdateTime)} :
        \E value \in interpolate(unfiltered, object.value) :
           object' = [started EXCEPT !.value = value, !.unfilteredVelocity = unfiltered,
                                     !.lastUpdateDirection = Towards(movedBy, @),
                                     !.lastPosition = position,
                                     !.lastUpdateTime = IF movedBy # 0 THEN time ELSE @]
    BY DEF UpdateDiscrete, started
  <2>2. movedBy = moved /\ (turns <=> changed) /\ time - started.lastUpdateTime = elapsed
    BY <1>4
  <2>3. turns = changed
    BY <2>2
  <2> HIDE DEF movedBy, moved, turns, changed, elapsed, started
  <2> QED  BY <2>1, <2>2, <2>3
<1>5. PICK value :
         object' = [started EXCEPT !.value = value, !.unfilteredVelocity = unfiltered,
                                   !.lastUpdateDirection = Towards(moved, @),
                                   !.lastPosition = position,
                                   !.lastUpdateTime = IF moved # 0 THEN time ELSE @]
  BY <1>0
<1> DEFINE moves == IF moved = 0 THEN past.moves ELSE IF Sign(moved) = direction THEN 2 ELSE 1
<1>6. past' = [call |-> "update", position |-> position, direction |-> turned, moves |-> moves]
  <2>1. moved = (IF object.hasBeenCalled THEN position - past.position ELSE 0)
    BY <1>1, <1>2 DEF DiscreteInv
  <2>2. Movements(position)
    BY DEF UpdateDiscrete
  <2> HIDE DEF moved
  <2> QED  BY <2>1, <2>2 DEF Movements
<1>7. /\ past'.call = "update" /\ past'.position = position /\ past'.direction = turned
      /\ past'.moves = moves
  BY <1>6
<1> DEFINE newTime == IF moved # 0 THEN time ELSE lastTime
<1>8. /\ object' = [class |-> "DiscreteVelocity", value |-> value, hasBeenCalled |-> TRUE,
                    lastPosition |-> position, lastUpdateTime |-> newTime,
                    lastUpdateDirection |-> turned, unfilteredVelocity |-> unfiltered]
      /\ object'.hasBeenCalled /\ object'.lastPosition = position /\ object'.lastUpdateTime = newTime
      /\ object'.lastUpdateDirection = turned /\ object'.unfilteredVelocity = unfiltered
  <2> HIDE DEF last, lastTime, moved, direction, unfiltered0
  <2> QED  BY <1>4, <1>5
<1>9. /\ turned \in {-1, 0, 1} /\ newTime \in Int
      /\ moved = 0 => turned = direction
      /\ moved # 0 => turned = Sign(moved)
  BY <1>2, <1>3, TowardsProperties
<1> HIDE DEF called, last, lastTime, moved, elapsed, turned, started, unfiltered0, newTime
<1>10. moved # 0 => called
  BY <1>2 DEF moved, last
<1>11. /\ past.moves \in 0 .. 2
       /\ past.moves = 1 => unfiltered0 = 0
       /\ past.moves = 2 /\ unfiltered0 # 0 => Sign(unfiltered0) = direction
  BY <1>1 DEF DiscreteInv, unfiltered0
<1>12. /\ unfiltered \in Int /\ moves \in 0 .. 2
       /\ moves = 1 => unfiltered = 0
       /\ moves = 2 /\ unfiltered # 0 => Sign(unfiltered) = turned
  <2>1. CASE moved = 0
    <3>1. unfiltered \in interpolate(0, unfiltered0)
      BY <1>5, <2>1
    <3>2. /\ unfiltered \in Int
          /\ (0 <= unfiltered /\ unfiltered <= unfiltered0) \/ (unfiltered0 <= unfiltered /\ unfiltered <= 0)
      BY <1>3, <3>1, InterpolateType
    <3>3. unfiltered # 0 => unfiltered0 # 0 /\ Sign(unfiltered) = Sign(unfiltered0)
      BY <1>3, <3>2 DEF Sign
    <3>4. moves = past.moves /\ turned = direction
      BY <1>9, <2>1
    <3>5. past.moves = 1 => unfiltered = 0
      BY <1>11, <3>3
    <3>6. past.moves = 2 /\ unfiltered # 0 => Sign(unfiltered) = direction
      BY <1>11, <3>3
    <3> QED  BY <1>11, <3>2, <3>4, <3>5, <3>6
  <2>2. CASE moved # 0
    <3>1. unfiltered = OnMovement(changed, moved, elapsed)
      BY <1>5, <2>2
    <3>2. unfiltered = IF changed \/ elapsed <= 0 THEN 0 ELSE moved \div elapsed
      BY <3>1 DEF OnMovement
    <3>3. CASE changed \/ elapsed <= 0
      BY <2>2, <3>2, <3>3
    <3>4. CASE ~changed /\ ~(elapsed <= 0)
      <4>1. elapsed \in Nat \ {0} /\ unfiltered = moved \div elapsed
        BY <1>3, <3>2, <3>4
      <4>2. unfiltered \in Int /\ (moved >= 0 => unfiltered >= 0) /\ (moved < 0 => unfiltered < 0)
        BY <1>3, <4>1, QuotientProperties
      <4>3. unfiltered # 0 => Sign(unfiltered) = Sign(moved)
        BY <1>3, <2>2, <4>2 DEF Sign
      <4>4. Sign(moved) = direction /\ moves = 2
        BY <2>2, <3>4
      <4> QED  BY <1>9, <2>2, <4>2, <4>3, <4>4
    <3> QED  BY <3>3, <3>4
  <2> QED  BY <2>1, <2>2
<1> HIDE DEF moves, direction, changed
<1>13. VelocityInv'
  BY <1>2, <1>6, <1>7, <1>8, <1>9, <1>12 DEF VelocityInv, DiscreteInv
<1>14. CountsFromSecondMove
  <2>1. moves # 0 /\ moves # 1 => moves = 2
    BY <1>12
  <2> QED  BY <1>7, <1>8, <1>12, <2>1 DEF CountsFromSecondMove
<1> QED  BY <1>1, <1>14, <1>13 DEF PlayedOutNow, Is

\* The difference that an update filters is the one its caller observes.
LEMMA DifferenceObserved ==
    ASSUME DifferenceInv, NEW position \in Positions, UpdateDifference(position) \/ UpdateForAngles(position)
    PROVE  \E difference \in Int :
              /\ \E v \in interpolate(difference \div VelocityDt, IF object.hasBeenCalled THEN object.value ELSE 0) :
                    object' = [object EXCEPT !.hasBeenCalled = TRUE, !.lastPosition = position, !.value = v]
              /\ ObserveVelocity(position, difference \div VelocityDt)
              /\ ~object.hasBeenCalled => difference = 0
<1> DEFINE last == IF object.hasBeenCalled THEN object.lastPosition ELSE position
           straight == position - last
           angle == angleDifferenceMinusPiToPi(position, last, HalfTurn)
<1>1. /\ position \in Int /\ object.lastPosition \in Int /\ past.position \in Int
      /\ object.hasBeenCalled => last = past.position
  <2>1. position \in Int
    BY VelocityAssumption
  <2>2. object.lastPosition \in Int /\ past.position \in Int
    BY Zenon DEF DifferenceInv, FiniteDifferenceFilters, DifferencePasts
  <2> QED  BY <2>1, <2>2 DEF DifferenceInv
<1>2. last \in Int /\ (~object.hasBeenCalled => last = position)
  BY <1>1
<1> HIDE DEF last
<1>3. CASE UpdateDifference(position)
  <2>1. straight \in Int /\ (~object.hasBeenCalled => straight = 0)
    BY <1>1, <1>2
  <2>2. object.hasBeenCalled => straight = position - past.position
    BY <1>1
  <2>3. \E v \in interpolate(straight \div VelocityDt, IF object.hasBeenCalled THEN object.value ELSE 0) :
           object' = [object EXCEPT !.hasBeenCalled = TRUE, !.lastPosition = position, !.value = v]
    BY <1>3 DEF UpdateDifference, FiniteDifferences, last
  <2>4. ObserveVelocity(position, straight \div VelocityDt)
    BY <1>3, <2>2 DEF UpdateDifference, ObserveVelocity
  <2> HIDE DEF straight
  <2> QED  BY <2>1, <2>3, <2>4, Zenon
<1>4. CASE UpdateForAngles(position)
  <2>1. angle \in Int
    BY <1>1, <1>2, AngleDifferenceType
  <2>2. ~object.hasBeenCalled => angle = 0
    <3> SUFFICES ASSUME ~object.hasBeenCalled PROVE angle = 0
      OBVIOUS
    <3> DEFINE turn == 2 * HalfTurn
    <3>1. angle \in (1 - HalfTurn) .. HalfTurn /\ (position - last - angle) % turn = 0
      BY <1>1, <1>2, AngleDifferenceIs
    <3>2. turn \in Nat \ {0} /\ HalfTurn \in Nat \ {0} /\ turn = 2 * HalfTurn /\ 0 \in Int
      BY VelocityAssumption
    <3> HIDE DEF turn, angle
    <3>3. position - last - angle = 0 - angle
      BY <1>1, <1>2, <2>1
    <3>4. 0 = 0 * turn + 0 /\ 0 \in 0 .. (turn - 1) /\ 0 - 0 = 0
      BY <3>2
    <3>5. (0 - 0) % turn = 0
      BY <3>2, <3>4, RemainderIs
    <3>6. angle - 0 < turn /\ 0 - angle < turn
      BY <3>1, <3>2
    <3> QED  BY <2>1, <3>1, <3>2, <3>3, <3>5, <3>6, SameTurn
  <2>3. object.hasBeenCalled => angle = ShorterWay(position)
    BY <1>1, ShorterWayIs
  <2>4. \E v \in interpolate(angle \div VelocityDt, IF object.hasBeenCalled THEN object.value ELSE 0) :
           object' = [object EXCEPT !.hasBeenCalled = TRUE, !.lastPosition = position, !.value = v]
    BY <1>4 DEF UpdateForAngles, FiniteDifferences, last
  <2>5. ObserveVelocity(position, angle \div VelocityDt)
    BY <1>4, <2>3 DEF UpdateForAngles, ObserveVelocity
  <2> HIDE DEF angle
  <2> QED  BY <2>1, <2>2, <2>4, <2>5, Zenon
<1> QED  BY <1>3, <1>4

\* What is filtered stays among what is observed.
LEMMA DifferenceSteps ==
    ASSUME DifferenceInv, NEW position \in Positions, UpdateDifference(position) \/ UpdateForAngles(position)
    PROVE  DifferenceInv'
<1> DEFINE called == object.hasBeenCalled
           value == IF called THEN object.value ELSE 0
           lowest == past.lowest
           highest == past.highest
<1>1. PICK difference \in Int :
         /\ \E v \in interpolate(difference \div VelocityDt, value) :
               object' = [object EXCEPT !.hasBeenCalled = TRUE, !.lastPosition = position, !.value = v]
         /\ ObserveVelocity(position, difference \div VelocityDt)
         /\ ~called => difference = 0
  BY DifferenceObserved
<1> DEFINE raw == difference \div VelocityDt
<1>2. VelocityDt \in Nat \ {0} /\ position \in Int
  BY VelocityAssumption
<1>3. raw \in Int /\ (~called => raw = 0)
  <2>1. raw \in Int
    BY <1>2, QuotientProperties
  <2>2. 0 \div VelocityDt = 0
    BY <1>2
  <2> QED  BY <1>1, <2>1, <2>2
<1> HIDE DEF raw
<1>4. PICK v \in interpolate(raw, value) :
         object' = [object EXCEPT !.hasBeenCalled = TRUE, !.lastPosition = position, !.value = v]
  BY <1>1 DEF raw
<1>5. object \in FiniteDifferenceFilters /\ past \in DifferencePasts
  BY DEF DifferenceInv
<1>6. object.value \in Int /\ lowest \in Int /\ highest \in Int
  BY <1>5, Zenon DEF FiniteDifferenceFilters, DifferencePasts
<1>7. value \in Int /\ (called => value = object.value /\ lowest <= value /\ value <= highest) /\ (~called => value = 0)
  BY <1>6 DEF DifferenceInv
<1>8. past' = IF called THEN [call |-> "update", position |-> position,
                              lowest |-> Min({lowest, raw}), highest |-> Max({highest, raw})]
              ELSE [call |-> "update", position |-> position, lowest |-> 0, highest |-> 0]
  BY <1>1 DEF ObserveVelocity, raw
<1> HIDE DEF called, value, lowest, highest
<1>9. v \in Int /\ ((raw <= v /\ v <= value) \/ (value <= v /\ v <= raw))
  BY <1>3, <1>7, InterpolateType
<1> DEFINE newLowest == IF called THEN Min({lowest, raw}) ELSE 0
           newHighest == IF called THEN Max({highest, raw}) ELSE 0
<1>10. newLowest \in Int /\ newHighest \in Int /\ newLowest <= v /\ v <= newHighest
  <2>1. CASE called
    <3>1. /\ Min({lowest, raw}) = IF lowest <= raw THEN lowest ELSE raw
          /\ Max({highest, raw}) = IF highest >= raw THEN highest ELSE raw
      BY <1>3, <1>6, MinOfTwo, MaxOfTwo
    <3> QED  BY <1>3, <1>6, <1>7, <1>9, <2>1, <3>1
  <2>2. CASE ~called
    BY <1>3, <1>7, <1>9, <2>2
  <2> QED  BY <2>1, <2>2
<1>11. past' = [call |-> "update", position |-> position, lowest |-> newLowest, highest |-> newHighest]
  BY <1>8
<1> HIDE DEF newLowest, newHighest
<1>12. past' \in DifferencePasts
  BY <1>2, <1>10, <1>11, Zenon DEF DifferencePasts
<1>13. past'.position = position /\ past'.lowest = newLowest /\ past'.highest = newHighest
  BY <1>11
<1>14. object' \in FiniteDifferenceFilters
  <2>1. TRUE \in BOOLEAN
    OBVIOUS
  <2> QED  BY <1>2, <1>4, <1>5, <1>9, <2>1, Zenon DEF FiniteDifferenceFilters
<1>15. object'.lastPosition = position /\ object'.value = v
  <2>1. DOMAIN object = {"class", "value", "lastPosition", "hasBeenCalled"}
    BY <1>5 DEF FiniteDifferenceFilters
  <2> QED  BY <1>4, <2>1
<1> QED  BY <1>10, <1>12, <1>13, <1>14, <1>15 DEF DifferenceInv

\* A finite difference has no states; resets forget what was seen, but not the time.
LEMMA OtherVelocitySteps ==
    ASSUME VelocityInv,
           \/ \E position \in Positions : UpdateDifference(position) \/ UpdateForAngles(position)
           \/ ResetBacklash \/ ResetDifference \/ ResetDiscrete
    PROVE  VelocityInv' /\ PlayedOutNow
<1>1. CASE \E position \in Positions : UpdateDifference(position) \/ UpdateForAngles(position)
  <2>1. PICK position \in Positions : UpdateDifference(position) \/ UpdateForAngles(position)
    BY <1>1
  <2>2. DifferenceInv /\ Is("FiniteDifference")
    BY <2>1, VelocityClasses DEF UpdateDifference, UpdateForAngles
  <2>3. DifferenceInv'
    BY <2>1, <2>2, DifferenceSteps
  <2> QED  BY <2>2, <2>3 DEF VelocityInv, PlayedOutNow, Is
<1>2. CASE ResetBacklash
  <2>1. past' = [past EXCEPT !.call = "reset", !.direction = IF Is("BacklashProcessing") THEN 1 ELSE 0]
    BY <1>2 DEF ResetBacklash
  <2>2. object' = [object EXCEPT !.hasBeenCalled = FALSE, !.backlashState = None]
    BY <1>2 DEF ResetBacklash
  <2>3. CASE Is("BacklashProcessing")
    <3>1. ProcessingInv
      BY <2>3, VelocityClasses
    <3>2. past'.call = "reset" /\ past'.direction = 1 /\ past'.age = past.age /\ BacklashPast'
      BY <2>1, <2>3, <3>1 DEF ProcessingInv, BacklashPast
    <3>3. ProcessingInv'
      <4> DEFINE v == object.value
                 h == object.hasBeenCalled
                 s == object.backlashState
                 t == object.timeSinceSloppy
      <4>1. /\ object = [class |-> "BacklashProcessing", value |-> v, hasBeenCalled |-> h,
                         backlashState |-> s, timeSinceSloppy |-> t]
            /\ t = past.age
        BY <3>1 DEF ProcessingInv
      <4> HIDE DEF v, h, s, t
      <4>2. object' = [class |-> "BacklashProcessing", value |-> v, hasBeenCalled |-> FALSE,
                       backlashState |-> None, timeSinceSloppy |-> t]
        BY <2>2, <4>1
      <4> QED  BY <3>2, <4>1, <4>2 DEF ProcessingInv, Turns
    <3> QED  BY <3>2, <3>3 DEF VelocityInv, PlayedOutNow
  <2>4. CASE ~Is("BacklashProcessing")
    <3>1. CompensatingInv
      BY <1>2, <2>4, VelocityClasses DEF ResetBacklash
    <3>2. past'.call = "reset" /\ past'.direction = 0 /\ past'.age = past.age /\ BacklashPast'
      BY <2>1, <2>4, <3>1 DEF CompensatingInv, BacklashPast
    <3>3. ~isInBacklash(None)
      BY StateProperties
    <3>4. CompensatingInv'
      <4> DEFINE v == object.value
                 l == object.lastPosition
                 h == object.hasBeenCalled
                 s == object.backlashState
                 t == object.timeSinceSloppy
                 f == object.finiteDifferenceVelocity
      <4>1. /\ object = [class |-> "BacklashCompensating", value |-> v, lastPosition |-> l,
                         hasBeenCalled |-> h, backlashState |-> s, timeSinceSloppy |-> t,
                         finiteDifferenceVelocity |-> f]
            /\ f \in FiniteDifferenceFilters
        BY <3>1 DEF CompensatingInv
      <4> HIDE DEF v, l, h, s, t, f
      <4>2. object' = [class |-> "BacklashCompensating", value |-> v, lastPosition |-> l,
                       hasBeenCalled |-> FALSE, backlashState |-> None, timeSinceSloppy |-> t,
                       finiteDifferenceVelocity |-> f]
        BY <2>2, <4>1
      <4> QED  BY <3>2, <3>3, <4>1, <4>2 DEF CompensatingInv
    <3> QED  BY <3>2, <3>4 DEF VelocityInv, PlayedOutNow
  <2> QED  BY <2>3, <2>4
<1>3. CASE ResetDifference
  <2>1. /\ DifferenceInv /\ Is("FiniteDifference")
        /\ object' = [object EXCEPT !.hasBeenCalled = FALSE] /\ past' = [past EXCEPT !.call = "reset"]
    BY <1>3, VelocityClasses DEF ResetDifference
  <2>2. object \in FiniteDifferenceFilters /\ past \in DifferencePasts /\ FALSE \in BOOLEAN
    BY <2>1 DEF DifferenceInv
  <2>3. object' \in FiniteDifferenceFilters /\ past' \in DifferencePasts
    BY <2>1, <2>2, Zenon DEF FiniteDifferenceFilters, DifferencePasts
  <2>4. object'.hasBeenCalled = FALSE /\ past'.call = "reset"
    <3>1. "hasBeenCalled" \in DOMAIN object /\ "call" \in DOMAIN past
      BY <2>2 DEF FiniteDifferenceFilters, DifferencePasts
    <3> QED  BY <2>1, <3>1
  <2> QED  BY <2>1, <2>3, <2>4 DEF VelocityInv, DifferenceInv, PlayedOutNow, Updated, Is
<1>4. CASE ResetDiscrete
  <2>1. /\ DiscreteInv /\ object' = [object EXCEPT !.hasBeenCalled = FALSE]
        /\ past' = [past EXCEPT !.call = "reset", !.direction = 0, !.moves = 0]
    BY <1>4, VelocityClasses DEF ResetDiscrete
  <2>2. DiscreteInv' /\ past'.call = "reset"
    <3> DEFINE v == object.value
               h == object.hasBeenCalled
               l == object.lastPosition
               t == object.lastUpdateTime
               d == object.lastUpdateDirection
               u == object.unfilteredVelocity
    <3>1. /\ object = [class |-> "DiscreteVelocity", value |-> v, hasBeenCalled |-> h,
                       lastPosition |-> l, lastUpdateTime |-> t, lastUpdateDirection |-> d,
                       unfilteredVelocity |-> u]
          /\ l \in Int /\ t \in Int /\ u \in Int
      BY <2>1 DEF DiscreteInv
    <3> DEFINE p == past.position
    <3>2. past' = [call |-> "reset", position |-> p, direction |-> 0, moves |-> 0]
      BY <2>1 DEF DiscreteInv
    <3> HIDE DEF v, h, l, t, d, u, p
    <3>3. object' = [class |-> "DiscreteVelocity", value |-> v, hasBeenCalled |-> FALSE,
                     lastPosition |-> l, lastUpdateTime |-> t, lastUpdateDirection |-> d,
                     unfilteredVelocity |-> u]
      BY <2>1, <3>1
    <3> QED  BY <3>1, <3>2, <3>3 DEF DiscreteInv
  <2> QED  BY <2>2 DEF VelocityInv, PlayedOutNow
<1> QED  BY <1>1, <1>2, <1>3, <1>4

\* Every step of an estimator of velocities.
LEMMA VelocitySteps ==
    ASSUME VelocityInv, VelocityNext
    PROVE  VelocityInv' /\ PlayedOutNow
<1>1. CASE \E velocity \in Velocities, slopTime \in SlopTimes : UpdateProcessing(velocity, slopTime)
  BY <1>1, ProcessingSteps
<1>2. CASE \E position \in Positions, slopTime \in SlopTimes : UpdateCompensating(position, slopTime)
  BY <1>2, CompensatingSteps
<1>3. CASE \E position \in Positions, time \in Times : UpdateDiscrete(position, time)
  BY <1>3, DiscreteSteps
<1>4. CASE \/ \E position \in Positions : UpdateDifference(position) \/ UpdateForAngles(position)
           \/ ResetBacklash \/ ResetDifference \/ ResetDiscrete
  BY <1>4, OtherVelocitySteps
<1> QED  BY <1>1, <1>2, <1>3, <1>4 DEF VelocityNext

\* What the estimators of velocities keep is an invariant.
LEMMA VelocityInvariant == VelocitySpec => []VelocityInv
<1>1. VelocityInit => VelocityInv
  BY VelocityInitInv
<1>2. VelocityInv /\ [VelocityNext]_vars => VelocityInv'
  <2>1. VelocityInv /\ UNCHANGED vars => VelocityInv'
    BY DEF vars, VelocityInv, ProcessingInv, CompensatingInv, DifferenceInv, DiscreteInv, BacklashPast, Updated
  <2> QED  BY <2>1, VelocitySteps
<1> QED  BY <1>1, <1>2, PTL DEF VelocitySpec

\* A reversal enters the backlash, which lasts until slopTime is over, and the
\* output is the share of it that has passed, whatever the inputs, times, slop
\* times and resets (update of backlash_processing_yo_variable.cpp and
\* backlash_compensating_velocity_yo_variable.cpp); a discrete velocity waits for
\* the second movement (filtered_discrete_velocity_yo_variable.cpp).
THEOREM ReversalsArePlayedOut == VelocitySpec => ReversalsPlayedOut
<1>1. VelocityInv /\ [VelocityNext]_vars => [PlayedOutNow]_vars
  BY VelocitySteps
<1> QED  BY <1>1, VelocityInvariant, PTL DEF VelocitySpec, ReversalsPlayedOut, PlayedOutNow

\* A filtered difference lies among those filtered, for every position, period and
\* smoothing constant, also for angles that turn on and on: the difference computed
\* by the remainder is the shorter way (update and updateForAngles of
\* filtered_finite_difference_yo_variable.cpp, filter_math.h).
THEOREM DifferencesAreObserved == VelocitySpec => []DifferencesWithinObserved
<1>1. VelocityInv => DifferencesWithinObserved
  BY VelocityClasses DEF DifferencesWithinObserved, DifferenceInv
<1> QED  BY <1>1, VelocityInvariant, PTL

-----------------------------------------------------------------------------
(* Smoothing *)

AlphaFilters == [class : {"AlphaFiltered"}, value : Int, hasBeenCalled : BOOLEAN]

Butterworths ==
    [class : {"Butterworth"}, type : Types, value : Int, previousInput : Int, hasBeenCalled : BOOLEAN]

FirstOrders ==
    [class : {"FirstOrder"}, type : Types, value : Int, hasBeenCalled : BOOLEAN, cutoffFrequency : Int,
     filterInputOld : Int, filterUpdateTimeOld : Int, hasClock : BOOLEAN, dt : Int]

BandPasses == [class : {"BandPass"}, hasBeenCalled : BOOLEAN, low : FirstOrders, high : FirstOrders]

\* x is within every bounds of the values.
Within(x, values) ==
    \A low, high \in Int : (\A y \in values : low <= y /\ y <= high) => low <= x /\ x <= high

\* x is no greater than the distance of any bounds of the values.
WithinSpread(x, values) ==
    \A low, high \in Int : (\A y \in values : low <= y /\ y <= high) => low - high <= x /\ x <= high - low

\* Some of the values are the least and the greatest.
HasEnds(values) ==
    values # {} => \E low, high \in values : \A y \in values : low <= y /\ y <= high

\* There are ends also after one more value.
LEMMA EndsOfMore ==
    ASSUME NEW values \in SUBSET Int, HasEnds(values), NEW x \in Int
    PROVE  values \cup {x} \in SUBSET Int /\ HasEnds(values \cup {x})
<1>1. CASE values = {}
  BY <1>1 DEF HasEnds
<1>2. CASE values # {}
  <2>1. PICK low \in values, high \in values : \A y \in values : low <= y /\ y <= high
    BY <1>2 DEF HasEnds
  <2> DEFINE lower == IF x < low THEN x ELSE low
             higher == IF x > high THEN x ELSE high
  <2>2. lower \in values \cup {x} /\ higher \in values \cup {x}
    OBVIOUS
  <2>3. \A y \in values \cup {x} : lower <= y /\ y <= higher
    BY <2>1
  <2> HIDE DEF lower, higher
  <2> QED  BY <2>2, <2>3 DEF HasEnds
<1> QED  BY <1>1, <1>2

\* What is within all bounds is between the ends.
LEMMA WithinIsBetween ==
    ASSUME NEW values \in SUBSET Int, HasEnds(values), values # {}, NEW x \in Int
    PROVE  /\ Within(x, values) => IsBetween(x, values)
           /\ WithinSpread(x, values) => Abs(x) <= Spread(values)
<1>1. PICK low \in values, high \in values : \A y \in values : low <= y /\ y <= high
  BY DEF HasEnds
<1>2. low \in Int /\ high \in Int /\ \A y \in values : y \in Int
  OBVIOUS
<1>3. \A m \in values : (\A y \in values : m <= y) => m = low
  BY <1>1, <1>2
<1>4. \A m \in values : (\A y \in values : m >= y) => m = high
  BY <1>1, <1>2
<1>5. Min(values) = low
  BY <1>1, <1>3 DEF Min
<1>6. \A y \in values : high >= y
  BY <1>1, <1>2
<1>7. Max(values) = high
  BY <1>4, <1>6 DEF Max
<1>8. ASSUME Within(x, values) PROVE IsBetween(x, values)
  <2>1. low <= x /\ x <= high
    BY <1>1, <1>2, <1>8 DEF Within
  <2> QED  BY <1>5, <1>7, <2>1 DEF IsBetween
<1>9. ASSUME WithinSpread(x, values) PROVE Abs(x) <= Spread(values)
  <2>1. low - high <= x /\ x <= high - low
    BY <1>1, <1>2, <1>9 DEF WithinSpread
  <2>2. Spread(values) = high - low
    BY <1>5, <1>7 DEF Spread
  <2> QED  BY <1>2, <2>1, <2>2 DEF Abs
<1> QED  BY <1>8, <1>9

\* The values themselves are, and whatever lies between two that are.
LEMMA MixtureIsWithin ==
    ASSUME NEW values \in SUBSET Int, NEW a \in Int, NEW b \in Int, NEW x \in Int,
           (a <= x /\ x <= b) \/ (b <= x /\ x <= a)
    PROVE  /\ a \in values => Within(a, values)
           /\ Within(a, values) /\ Within(b, values) => Within(x, values)
           /\ WithinSpread(a, values) /\ WithinSpread(b, values) => WithinSpread(x, values)
<1>1. a \in values => Within(a, values)
  BY DEF Within
<1>2. ASSUME Within(a, values), Within(b, values) PROVE Within(x, values)
  <2> SUFFICES ASSUME NEW low \in Int, NEW high \in Int, \A y \in values : low <= y /\ y <= high
               PROVE  low <= x /\ x <= high
    BY DEF Within
  <2>1. low <= a /\ a <= high /\ low <= b /\ b <= high
    BY <1>2, Zenon DEF Within
  <2> QED  BY <2>1
<1>3. ASSUME WithinSpread(a, values), WithinSpread(b, values) PROVE WithinSpread(x, values)
  <2> SUFFICES ASSUME NEW low \in Int, NEW high \in Int, \A y \in values : low <= y /\ y <= high
               PROVE  low - high <= x /\ x <= high - low
    BY DEF WithinSpread
  <2>1. low - high <= a /\ a <= high - low /\ low - high <= b /\ b <= high - low
    BY <1>3, Zenon DEF WithinSpread
  <2> QED  BY <2>1
<1> QED  BY <1>1, <1>2, <1>3

\* The difference of two numbers within bounds is no greater than their distance.
LEMMA SpreadOfDifference ==
    ASSUME NEW values \in SUBSET Int, NEW a \in Int, NEW x \in Int,
           Within(a, values), Within(a - x, values)
    PROVE  WithinSpread(x, values)
<1> SUFFICES ASSUME NEW low \in Int, NEW high \in Int, \A y \in values : low <= y /\ y <= high
             PROVE  low - high <= x /\ x <= high - low
  BY DEF WithinSpread
<1>1. low <= a /\ a <= high /\ low <= a - x /\ a - x <= high
  BY DEF Within
<1> QED  BY <1>1

\* More values have no narrower bounds.
LEMMA WithinMore ==
    ASSUME NEW values \in SUBSET Int, NEW more \in SUBSET Int, values \subseteq more, NEW x \in Int
    PROVE  /\ Within(x, values) => Within(x, more)
           /\ WithinSpread(x, values) => WithinSpread(x, more)
<1>1. ASSUME NEW low, NEW high, \A y \in more : low <= y /\ y <= high
      PROVE  \A y \in values : low <= y /\ y <= high
  BY <1>1
<1>2. Within(x, values) => Within(x, more)
  <2> SUFFICES ASSUME Within(x, values), NEW low \in Int, NEW high \in Int,
                      \A y \in more : low <= y /\ y <= high
               PROVE  low <= x /\ x <= high
    BY DEF Within
  <2> QED  BY <1>1, Zenon DEF Within
<1>3. WithinSpread(x, values) => WithinSpread(x, more)
  <2> SUFFICES ASSUME WithinSpread(x, values), NEW low \in Int, NEW high \in Int,
                      \A y \in more : low <= y /\ y <= high
               PROVE  low - high <= x /\ x <= high - low
    BY DEF WithinSpread
  <2> QED  BY <1>1, Zenon DEF WithinSpread
<1> QED  BY <1>2, <1>3

\* A clock that stands still stops a filter, which keeps what it has mixed.
LEMMA OnTimeProperties ==
    ASSUME NEW filter \in FirstOrders, NEW time \in Int, NEW timed, timed = OnTime(filter, time)
    PROVE  /\ timed \in FirstOrders
           /\ timed.type = filter.type /\ timed.value = filter.value /\ timed.hasClock = filter.hasClock
           /\ timed.filterInputOld = filter.filterInputOld
           /\ timed.filterUpdateTimeOld = filter.filterUpdateTimeOld
           /\ timed.cutoffFrequency = filter.cutoffFrequency
           /\ timed.hasBeenCalled =
                 (filter.hasBeenCalled /\ ~(filter.hasClock /\ time <= filter.filterUpdateTimeOld))
<1>0. DOMAIN filter = {"class", "type", "value", "hasBeenCalled", "cutoffFrequency", "filterInputOld",
                       "filterUpdateTimeOld", "hasClock", "dt"}
  BY DEF FirstOrders
<1>1. filter.hasBeenCalled \in BOOLEAN /\ filter.hasClock \in BOOLEAN /\ filter.filterUpdateTimeOld \in Int
  BY Zenon DEF FirstOrders
<1>2. CASE ~filter.hasClock
  <2>1. timed = filter
    BY <1>2 DEF OnTime
  <2> QED  BY <1>1, <1>2, <2>1
<1>3. CASE filter.hasClock /\ time > filter.filterUpdateTimeOld
  <2> DEFINE dt == time - filter.filterUpdateTimeOld
  <2>1. timed = [filter EXCEPT !.dt = dt] /\ dt \in Int
    BY <1>1, <1>3 DEF OnTime
  <2> HIDE DEF dt
  <2>2. timed \in FirstOrders
    BY <2>1, Zenon DEF FirstOrders
  <2>4. /\ timed.type = filter.type /\ timed.value = filter.value /\ timed.hasClock = filter.hasClock
        /\ timed.filterInputOld = filter.filterInputOld
        /\ timed.filterUpdateTimeOld = filter.filterUpdateTimeOld
        /\ timed.cutoffFrequency = filter.cutoffFrequency
    BY <1>0, <2>1
  <2>5. timed.hasBeenCalled = filter.hasBeenCalled
    BY <1>0, <2>1
  <2> QED  BY <1>1, <1>3, <2>2, <2>4, <2>5
<1>4. CASE filter.hasClock /\ ~(time > filter.filterUpdateTimeOld)
  <2>1. timed = [filter EXCEPT !.hasBeenCalled = FALSE]
    BY <1>4 DEF OnTime
  <2>2. timed \in FirstOrders
    BY <2>1, Zenon DEF FirstOrders
  <2>3. /\ timed.type = filter.type /\ timed.value = filter.value /\ timed.hasClock = filter.hasClock
        /\ timed.filterInputOld = filter.filterInputOld
        /\ timed.filterUpdateTimeOld = filter.filterUpdateTimeOld
        /\ timed.cutoffFrequency = filter.cutoffFrequency
    BY <1>0, <2>1
  <2>4. timed.hasBeenCalled = FALSE
    BY <1>0, <2>1
  <2>5. time <= filter.filterUpdateTimeOld
    BY <1>1, <1>4
  <2> QED  BY <1>4, <2>2, <2>3, <2>4, <2>5, Zenon
<1> QED  BY <1>2, <1>3, <1>4

\* An update mixes the input with what was mixed before, unless it starts.
LEMMA FirstOrderUpdatesProperties ==
    ASSUME NEW filter \in FirstOrders, NEW input \in Int, NEW time \in Int,
           NEW new \in FirstOrderUpdates(filter, input, time)
    PROVE  /\ new \in FirstOrders /\ new.value \in Int
           /\ new.type = filter.type /\ new.hasClock = filter.hasClock
           /\ new.filterInputOld = input
           /\ new.filterUpdateTimeOld = IF filter.hasClock THEN time ELSE 0
           /\ new.hasBeenCalled =
                 ~(filter.hasBeenCalled /\ filter.hasClock /\ time <= filter.filterUpdateTimeOld)
           /\ ~filter.hasBeenCalled => new.value = input
           /\ filter.hasBeenCalled /\ filter.type = "LOW_PASS" => new.value \in interpolate(input, filter.value)
           /\ filter.hasBeenCalled /\ filter.type = "HIGH_PASS" =>
                 new.value \in interpolate(0, filter.value + input - filter.filterInputOld)
<1> DEFINE timed == IF filter.hasBeenCalled THEN OnTime(filter, time) ELSE [filter EXCEPT !.hasBeenCalled = TRUE]
           updateTime == IF filter.hasClock THEN time ELSE 0
           all == IF filter.type = "LOW_PASS" THEN filter.value
                  ELSE filter.value + input - filter.filterInputOld
           none == IF filter.type = "LOW_PASS" THEN input ELSE 0
<1>1. /\ filter.hasBeenCalled \in BOOLEAN /\ filter.hasClock \in BOOLEAN /\ filter.type \in Types
      /\ filter.value \in Int /\ filter.filterInputOld \in Int /\ filter.filterUpdateTimeOld \in Int
  BY Zenon DEF FirstOrders
<1>2. /\ timed \in FirstOrders
      /\ timed.type = filter.type /\ timed.value = filter.value /\ timed.hasClock = filter.hasClock
      /\ timed.filterInputOld = filter.filterInputOld
      /\ timed.hasBeenCalled =
            ~(filter.hasBeenCalled /\ filter.hasClock /\ time <= filter.filterUpdateTimeOld)
  <2>1. CASE filter.hasBeenCalled
    BY <1>1, <2>1, OnTimeProperties
  <2>2. CASE ~filter.hasBeenCalled
    <3>1. timed = [filter EXCEPT !.hasBeenCalled = TRUE]
      BY <2>2
    <3>2. timed \in FirstOrders
      BY <3>1, Zenon DEF FirstOrders
    <3> HIDE DEF timed
    <3> QED  BY <1>1, <2>2, <3>1, <3>2 DEF FirstOrders
  <2> QED  BY <2>1, <2>2
<1> HIDE DEF timed
<1>3. PICK value \in IF filter.hasBeenCalled THEN FirstOrderRange(timed, input) ELSE {input} :
         new = [timed EXCEPT !.value = value, !.filterInputOld = input, !.filterUpdateTimeOld = updateTime]
  BY <1>2 DEF FirstOrderUpdates, timed
<1>4. all \in Int /\ none \in Int /\ updateTime \in Int
  BY <1>1
<1>5. filter.hasBeenCalled => value \in interpolate(none, all)
  <2>1. FirstOrderRange(timed, input) = IF timed.dt = 0 THEN {all} ELSE interpolate(none, all)
    BY <1>2 DEF FirstOrderRange
  <2>2. all \in interpolate(none, all)
    BY <1>4 DEF interpolate
  <2> HIDE DEF all, none
  <2> QED  BY <1>3, <2>1, <2>2
<1>6. value \in Int
  <2>1. CASE filter.hasBeenCalled
    <3> HIDE DEF all, none
    <3> QED  BY <1>4, <1>5, <2>1, InterpolateType
  <2>2. CASE ~filter.hasBeenCalled
    BY <1>3, <2>2
  <2> QED  BY <2>1, <2>2
<1>7. /\ filter.hasBeenCalled /\ filter.type = "LOW_PASS" => value \in interpolate(input, filter.value)
      /\ filter.hasBeenCalled /\ filter.type = "HIGH_PASS" =>
            value \in interpolate(0, filter.value + input - filter.filterInputOld)
      /\ ~filter.hasBeenCalled => value = input
  BY <1>3, <1>5
<1> HIDE DEF updateTime, all, none
<1>8. new \in FirstOrders
  BY <1>2, <1>3, <1>4, <1>6, Zenon DEF FirstOrders
<1>9. /\ new.value = value /\ new.filterInputOld = input /\ new.filterUpdateTimeOld = updateTime
      /\ new.type = timed.type /\ new.hasClock = timed.hasClock /\ new.hasBeenCalled = timed.hasBeenCalled
  BY <1>2, <1>3 DEF FirstOrders
<1> QED  BY <1>2, <1>6, <1>7, <1>8, <1>9 DEF updateTime

MixedPasts ==
    [call : {"reset", "update", "threw", "other"}, starts : BOOLEAN, inputs : SUBSET Int, input : Int,
     time : Int]

\* The filter starts when its caller thinks so; until then, and also where a
\* clock that stands still makes it start next, what it shows is made of the
\* inputs since the last start.
Mixture(type, lastInput) ==
    /\ past \in MixedPasts /\ HasEnds(past.inputs)
    /\ object.hasBeenCalled = ~past.starts
    /\ object.hasBeenCalled => lastInput = past.input
    /\ object.hasBeenCalled \/ Updated =>
          /\ past.input \in past.inputs
          /\ type = "LOW_PASS" => Within(object.value, past.inputs)
          /\ type = "HIGH_PASS" => Within(past.input - object.value, past.inputs \cup {0})

AlphaInv == object \in AlphaFilters /\ Mixture("LOW_PASS", past.input)
ButterworthInv == object \in Butterworths /\ Mixture(object.type, object.previousInput)

FirstOrderInv ==
    /\ object \in FirstOrders /\ Mixture(object.type, object.filterInputOld)
    /\ object.hasBeenCalled /\ object.hasClock => past.time = object.filterUpdateTimeOld

\* What the caller knows after an update.
LEMMA MixedProperties ==
    ASSUME past \in MixedPasts, HasEnds(past.inputs), NEW input \in Int, NEW time \in Int,
           NEW restarts \in BOOLEAN, Mixed(input, time, restarts)
    PROVE  /\ past' \in MixedPasts /\ HasEnds(past'.inputs) /\ past'.inputs \in SUBSET Int
           /\ past'.call = "update" /\ past'.starts = restarts /\ past'.input = input
           /\ past'.time = time /\ input \in past'.inputs
           /\ ~past.starts => past.inputs \subseteq past'.inputs
<1> DEFINE inputs == IF past.starts THEN {input} ELSE past.inputs \cup {input}
<1>1. past' = [call |-> "update", input |-> input, starts |-> restarts, time |-> time, inputs |-> inputs]
  BY DEF Mixed
<1>2. past.inputs \in SUBSET Int
  BY Zenon DEF MixedPasts
<1>3. inputs \in SUBSET Int /\ HasEnds(inputs)
  <2>1. {} \in SUBSET Int /\ HasEnds({}) /\ {} \cup {input} = {input}
    BY DEF HasEnds
  <2>2. {input} \in SUBSET Int /\ HasEnds({input})
    BY <2>1, EndsOfMore
  <2> QED  BY <1>2, <2>2, EndsOfMore
<1>4. input \in inputs /\ (~past.starts => past.inputs \subseteq inputs)
  OBVIOUS
<1> HIDE DEF inputs
<1>5. past' \in MixedPasts
  BY <1>1, <1>3, Zenon DEF MixedPasts
<1>6. /\ past'.call = "update" /\ past'.input = input /\ past'.time = time /\ past'.inputs = inputs
  BY <1>1
<1>7. past'.starts = restarts
  BY <1>1
<1> QED  BY <1>3, <1>4, <1>5, <1>6, <1>7

\* A low pass mixes its input with its value, a high pass their differences.
LEMMA MixesWithin ==
    ASSUME NEW values \in SUBSET Int, NEW more \in SUBSET Int, values \subseteq more,
           NEW input \in more, NEW value \in Int, NEW new \in Int
    PROVE  /\ Within(value, values) /\ new \in interpolate(input, value) => Within(new, more)
           /\ \A last, none \in Int :
                 /\ Within(last - value, values \cup {0}) /\ Within(input - none, more \cup {0})
                 /\ new \in interpolate(none, value + input - last)
                 => Within(input - new, more \cup {0})
<1>1. ASSUME Within(value, values), new \in interpolate(input, value) PROVE Within(new, more)
  <2>1. Within(value, more) /\ Within(input, more)
    BY <1>1, WithinMore, MixtureIsWithin
  <2>2. input \in Int
    OBVIOUS
  <2>3. (input <= new /\ new <= value) \/ (value <= new /\ new <= input)
    BY <1>1, <2>2, InterpolateType
  <2> QED  BY <2>1, <2>2, <2>3, MixtureIsWithin
<1>2. ASSUME NEW last \in Int, NEW none \in Int,
             Within(last - value, values \cup {0}), Within(input - none, more \cup {0}),
             new \in interpolate(none, value + input - last)
      PROVE  Within(input - new, more \cup {0})
  <2> DEFINE a == last - value
             b == input - none
             x == input - new
             all == value + input - last
  <2>1. input \in Int /\ a \in Int /\ b \in Int /\ x \in Int /\ all \in Int
    OBVIOUS
  <2>2. values \cup {0} \in SUBSET Int /\ more \cup {0} \in SUBSET Int /\ values \cup {0} \subseteq more \cup {0}
    OBVIOUS
  <2>3. Within(a, values \cup {0}) /\ Within(b, more \cup {0})
    BY <1>2
  <2>4. (none <= new /\ new <= all) \/ (all <= new /\ new <= none)
    BY <1>2, <2>1, InterpolateType
  <2>5. (a <= x /\ x <= b) \/ (b <= x /\ x <= a)
    BY <2>1, <2>4
  <2> HIDE DEF a, b, x, all
  <2>6. Within(a, more \cup {0})
    BY <2>1, <2>2, <2>3, WithinMore
  <2>7. Within(x, more \cup {0})
    BY <2>1, <2>2, <2>3, <2>5, <2>6, MixtureIsWithin
  <2> QED  BY <2>7 DEF x
<1> QED  BY <1>1, <1>2

\* AlphaFilteredYoVariable::update
LEMMA AlphaSteps ==
    ASSUME AlphaInv, NEW input \in SmoothedInputs, UpdateAlpha(input)
    PROVE  AlphaInv'
<1>1. /\ object.hasBeenCalled \in BOOLEAN /\ object.value \in Int /\ object.hasBeenCalled = ~past.starts
      /\ past \in MixedPasts /\ HasEnds(past.inputs) /\ past.inputs \in SUBSET Int
      /\ object.hasBeenCalled => Within(object.value, past.inputs)
  <2>1. object.hasBeenCalled \in BOOLEAN /\ object.value \in Int
    BY Zenon DEF AlphaInv, AlphaFilters
  <2>2. past \in MixedPasts
    BY DEF AlphaInv, Mixture
  <2>3. past.inputs \in SUBSET Int
    BY <2>2, Zenon DEF MixedPasts
  <2> QED  BY <2>1, <2>2, <2>3 DEF AlphaInv, Mixture
<1>2. input \in Int /\ 0 \in Int /\ FALSE \in BOOLEAN
  BY SmoothingAssumption
<1>3. Mixed(input, 0, FALSE)
  BY DEF UpdateAlpha
<1>4. /\ past' \in MixedPasts /\ HasEnds(past'.inputs) /\ past'.inputs \in SUBSET Int
      /\ past'.starts = FALSE /\ past'.input = input /\ input \in past'.inputs
      /\ ~past.starts => past.inputs \subseteq past'.inputs
  BY <1>1, <1>2, <1>3, MixedProperties
<1>5. PICK value \in IF object.hasBeenCalled THEN interpolate(input, object.value) ELSE {input} :
         object' = [object EXCEPT !.hasBeenCalled = TRUE, !.value = value]
  BY DEF UpdateAlpha
<1>6. value \in Int /\ Within(value, past'.inputs)
  <2>1. CASE object.hasBeenCalled
    <3>1. value \in interpolate(input, object.value) /\ value \in Int
      BY <1>1, <1>2, <1>5, <2>1, InterpolateType
    <3>2. past.inputs \subseteq past'.inputs /\ Within(object.value, past.inputs)
      BY <1>1, <1>4, <2>1
    <3> QED  BY <1>1, <1>4, <3>1, <3>2, MixesWithin
  <2>2. CASE ~object.hasBeenCalled
    <3>1. value = input
      BY <1>5, <2>2
    <3> QED  BY <1>2, <1>4, <3>1, MixtureIsWithin
  <2> QED  BY <2>1, <2>2
<1>7. object' \in AlphaFilters /\ object'.hasBeenCalled = TRUE /\ object'.value = value
  <2>1. object \in AlphaFilters
    BY DEF AlphaInv
  <2>2. object' \in AlphaFilters
    BY <1>5, <1>6, <2>1, Zenon DEF AlphaFilters
  <2> QED  BY <1>5, <2>1, <2>2 DEF AlphaFilters
<1> QED  BY <1>4, <1>6, <1>7 DEF AlphaInv, Mixture

\* ButterworthFilteredYoVariable::update
LEMMA ButterworthSteps ==
    ASSUME ButterworthInv, NEW input \in SmoothedInputs, UpdateButterworth(input)
    PROVE  ButterworthInv'
<1> DEFINE type == object.type
           previous == object.previousInput
<1>1. /\ object \in Butterworths /\ object.hasBeenCalled \in BOOLEAN /\ object.value \in Int /\ type \in Types
      /\ previous \in Int
  <2>1. object \in Butterworths
    BY DEF ButterworthInv
  <2> QED  BY <2>1, Zenon DEF Butterworths
<1>2. /\ object.hasBeenCalled = ~past.starts
      /\ past \in MixedPasts /\ HasEnds(past.inputs) /\ past.inputs \in SUBSET Int
      /\ object.hasBeenCalled =>
            /\ previous \in past.inputs
            /\ type = "LOW_PASS" => Within(object.value, past.inputs)
            /\ type = "HIGH_PASS" => Within(previous - object.value, past.inputs \cup {0})
  <2>1. past \in MixedPasts
    BY DEF ButterworthInv, Mixture
  <2>2. past.inputs \in SUBSET Int
    BY <2>1, Zenon DEF MixedPasts
  <2> QED  BY <2>1, <2>2 DEF ButterworthInv, Mixture
<1>3. input \in Int /\ 0 \in Int /\ FALSE \in BOOLEAN
  BY SmoothingAssumption
<1>4. Mixed(input, 0, FALSE)
  BY DEF UpdateButterworth
<1>5. /\ past' \in MixedPasts /\ HasEnds(past'.inputs) /\ past'.inputs \in SUBSET Int
      /\ past'.starts = FALSE /\ past'.input = input /\ input \in past'.inputs
      /\ ~past.starts => past.inputs \subseteq past'.inputs
  BY <1>2, <1>3, <1>4, MixedProperties
<1>6. PICK value \in IF object.hasBeenCalled THEN ButterworthRange(input)
                     ELSE {IF type = "HIGH_PASS" THEN 0 ELSE input} :
         object' = [object EXCEPT !.hasBeenCalled = TRUE, !.value = value, !.previousInput = input]
  BY DEF UpdateButterworth
<1>7. /\ value \in Int
      /\ type = "LOW_PASS" => Within(value, past'.inputs)
      /\ type = "HIGH_PASS" => Within(input - value, past'.inputs \cup {0})
  <2> HIDE DEF type, previous
  <2>1. past'.inputs \cup {0} \in SUBSET Int /\ input \in past'.inputs \cup {0}
    BY <1>5
  <2>2. CASE ~object.hasBeenCalled
    <3>1. value = IF type = "HIGH_PASS" THEN 0 ELSE input
      BY <1>6, <2>2
    <3>2. Within(input, past'.inputs) /\ Within(input, past'.inputs \cup {0})
      BY <1>3, <1>5, <2>1, MixtureIsWithin
    <3> QED  BY <1>3, <3>1, <3>2
  <2>3. CASE object.hasBeenCalled /\ type = "LOW_PASS"
    <3> DEFINE mean == (input + previous) \div 2
    <3>1. mean \in Int /\ ((input <= mean /\ mean <= previous) \/ (previous <= mean /\ mean <= input))
      BY <1>1, <1>3
    <3>2. previous \in past'.inputs /\ past.inputs \subseteq past'.inputs /\ Within(object.value, past.inputs)
      BY <1>2, <1>5, <2>3
    <3>3. value \in interpolate(mean, object.value)
      BY <1>6, <2>3 DEF ButterworthRange, type, previous
    <3> HIDE DEF mean
    <3>4. Within(mean, past'.inputs)
      <4>1. Within(input, past'.inputs)
        BY <1>3, <1>5, MixtureIsWithin
      <4>2. Within(previous, past'.inputs)
        BY <1>1, <1>5, <3>2, MixtureIsWithin
      <4> QED  BY <1>1, <1>3, <1>5, <3>1, <4>1, <4>2, MixtureIsWithin
    <3>5. Within(object.value, past'.inputs)
      BY <1>1, <1>2, <1>5, <3>2, WithinMore
    <3>6. value \in Int /\ ((mean <= value /\ value <= object.value) \/ (object.value <= value /\ value <= mean))
      BY <1>1, <3>1, <3>3, InterpolateType
    <3>7. Within(value, past'.inputs)
      BY <1>1, <1>5, <3>1, <3>4, <3>5, <3>6, MixtureIsWithin
    <3> QED  BY <2>3, <3>6, <3>7
  <2>4. CASE object.hasBeenCalled /\ type = "HIGH_PASS"
    <3> DEFINE half == (input - previous) \div 2
               rest == input - half
               all == object.value + input - previous
    <3>1. /\ half \in Int /\ rest \in Int /\ all \in Int
          /\ (input <= rest /\ rest <= previous) \/ (previous <= rest /\ rest <= input)
      BY <1>1, <1>3
    <3>2. previous \in past'.inputs \cup {0} /\ past.inputs \subseteq past'.inputs
          /\ Within(previous - object.value, past.inputs \cup {0})
      BY <1>2, <1>5, <2>4
    <3>3. value \in interpolate(half, all)
      BY <1>6, <2>4 DEF ButterworthRange, type, previous
    <3>4. Within(rest, past'.inputs \cup {0})
      <4> HIDE DEF rest
      <4>1. Within(input, past'.inputs \cup {0})
        BY <1>3, <2>1, MixtureIsWithin
      <4>2. Within(previous, past'.inputs \cup {0})
        BY <1>1, <2>1, <3>2, MixtureIsWithin
      <4> QED  BY <1>1, <1>3, <2>1, <3>1, <4>1, <4>2, MixtureIsWithin
    <3>5. value \in Int
      <4> HIDE DEF half, all
      <4> QED  BY <3>1, <3>3, InterpolateType
    <3>6. Within(input - half, past'.inputs \cup {0}) /\ value \in interpolate(half, object.value + input - previous)
      BY <3>3, <3>4
    <3> HIDE DEF half, rest, all
    <3>7. Within(input - value, past'.inputs \cup {0})
      BY <1>1, <1>2, <1>5, <3>1, <3>2, <3>5, <3>6, MixesWithin
    <3> QED  BY <2>4, <3>5, <3>7
  <2> QED  BY <1>1, <2>2, <2>3, <2>4 DEF Types
<1>8. object' \in Butterworths
  BY <1>1, <1>3, <1>6, <1>7, Zenon DEF Butterworths
<1>9. /\ object'.hasBeenCalled = TRUE /\ object'.value = value /\ object'.previousInput = input
      /\ object'.type = type
  <2>1. DOMAIN object = {"class", "type", "value", "previousInput", "hasBeenCalled"}
    BY <1>1 DEF Butterworths
  <2> QED  BY <1>6, <2>1
<1> HIDE DEF type, previous
<1> QED  BY <1>5, <1>7, <1>8, <1>9 DEF ButterworthInv, Mixture

\* What the invariant says of a first-order filter.
LEMMA FirstOrderKnown ==
    ASSUME FirstOrderInv
    PROVE  /\ object \in FirstOrders /\ object.hasBeenCalled \in BOOLEAN /\ object.hasClock \in BOOLEAN
           /\ object.value \in Int /\ object.type \in Types /\ object.filterInputOld \in Int
           /\ object.filterUpdateTimeOld \in Int
           /\ past \in MixedPasts /\ HasEnds(past.inputs) /\ past.inputs \in SUBSET Int
           /\ past.starts \in BOOLEAN /\ object.hasBeenCalled = ~past.starts
           /\ object.hasBeenCalled =>
                 /\ object.filterInputOld = past.input /\ past.input \in past.inputs
                 /\ object.type = "LOW_PASS" => Within(object.value, past.inputs)
                 /\ object.type = "HIGH_PASS" => Within(past.input - object.value, past.inputs \cup {0})
                 /\ object.hasClock => past.time = object.filterUpdateTimeOld
<1>1. object \in FirstOrders /\ past \in MixedPasts
  BY DEF FirstOrderInv, Mixture
<1>2. /\ object.hasBeenCalled \in BOOLEAN /\ object.hasClock \in BOOLEAN
      /\ object.value \in Int /\ object.type \in Types /\ object.filterInputOld \in Int
      /\ object.filterUpdateTimeOld \in Int
  BY <1>1, Zenon DEF FirstOrders
<1>3. past.inputs \in SUBSET Int /\ past.starts \in BOOLEAN
  BY <1>1, Zenon DEF MixedPasts
<1> QED  BY <1>1, <1>2, <1>3 DEF FirstOrderInv, Mixture

\* An update that throws has looked at the clock, and nothing else.
LEMMA FirstOrderThrows ==
    ASSUME FirstOrderInv, NEW time \in Int, Throws(object), object' = OnTime(object, time),
           past' = [past EXCEPT !.call = "threw", !.starts = @ \/ Stopped(object, time)]
    PROVE  FirstOrderInv'
<1> DEFINE stopped == Stopped(object, time)
           starts == past.starts \/ stopped
<1>1. object.hasBeenCalled /\ past.starts = FALSE /\ past \in MixedPasts
  BY FirstOrderKnown DEF Throws
<1>2. stopped = (object.hasClock /\ time <= object.filterUpdateTimeOld) /\ starts = stopped
      /\ starts \in BOOLEAN
  <2>1. object.hasClock \in BOOLEAN /\ (object.hasClock => past.time = object.filterUpdateTimeOld)
    BY <1>1, FirstOrderKnown
  <2> QED  BY <1>1, <2>1 DEF Stopped
<1>3. past' = [past EXCEPT !.call = "threw", !.starts = starts]
  OBVIOUS
<1>4. /\ object' \in FirstOrders
      /\ object'.type = object.type /\ object'.value = object.value /\ object'.hasClock = object.hasClock
      /\ object'.filterInputOld = object.filterInputOld
      /\ object'.filterUpdateTimeOld = object.filterUpdateTimeOld
      /\ object'.hasBeenCalled =
            (object.hasBeenCalled /\ ~(object.hasClock /\ time <= object.filterUpdateTimeOld))
  <2>1. object \in FirstOrders
    BY FirstOrderKnown
  <2>2. \A new : new = OnTime(object, time) =>
          /\ new \in FirstOrders
          /\ new.type = object.type /\ new.value = object.value /\ new.hasClock = object.hasClock
          /\ new.filterInputOld = object.filterInputOld
          /\ new.filterUpdateTimeOld = object.filterUpdateTimeOld
          /\ new.hasBeenCalled =
                (object.hasBeenCalled /\ ~(object.hasClock /\ time <= object.filterUpdateTimeOld))
    BY <2>1, OnTimeProperties
  <2> QED  BY <2>2
<1> HIDE DEF stopped, starts
<1>5. past' \in MixedPasts
  BY <1>1, <1>2, <1>3, Zenon DEF MixedPasts
<1>6. DOMAIN past = {"call", "starts", "inputs", "input", "time"}
  BY <1>1 DEF MixedPasts
<1>7. past'.call = "threw" /\ past'.inputs = past.inputs /\ past'.input = past.input /\ past'.time = past.time
  BY <1>3, <1>6
<1>8. past'.starts = starts
  BY <1>3, <1>6
<1>9. object'.hasBeenCalled = ~past'.starts
  BY <1>1, <1>2, <1>4, <1>8
<1>10. HasEnds(past'.inputs)
  BY <1>7, FirstOrderKnown
<1>11. /\ object.filterInputOld = past.input /\ past.input \in past.inputs
       /\ object.type = "LOW_PASS" => Within(object.value, past.inputs)
       /\ object.type = "HIGH_PASS" => Within(past.input - object.value, past.inputs \cup {0})
       /\ object.hasClock => past.time = object.filterUpdateTimeOld
  BY <1>1, FirstOrderKnown
<1> QED  BY <1>4, <1>5, <1>7, <1>9, <1>10, <1>11 DEF FirstOrderInv, Mixture

\* FirstOrderFilteredYoDouble::update
LEMMA FirstOrderSteps ==
    ASSUME FirstOrderInv, NEW input \in SmoothedInputs, NEW time \in Clock, UpdateFirstOrder(input, time)
    PROVE  FirstOrderInv'
<1>1. input \in Int /\ time \in Int
  BY SmoothingAssumption
<1>2. CASE Throws(object)
  <2>1. /\ object' = OnTime(object, time)
        /\ past' = [past EXCEPT !.call = "threw", !.starts = @ \/ Stopped(object, time)]
    BY <1>2 DEF UpdateFirstOrder
  <2> QED  BY <1>1, <1>2, <2>1, FirstOrderThrows
<1>3. CASE ~Throws(object)
  <2> DEFINE stopped == Stopped(object, time)
  <2>1. object' \in FirstOrderUpdates(object, input, time) /\ Mixed(input, time, stopped)
    BY <1>3 DEF UpdateFirstOrder
  <2>2. /\ stopped = (object.hasBeenCalled /\ object.hasClock /\ time <= object.filterUpdateTimeOld)
        /\ stopped \in BOOLEAN
    <3>1. /\ object.hasClock \in BOOLEAN /\ object.hasBeenCalled = ~past.starts /\ past.starts \in BOOLEAN
          /\ object.hasBeenCalled /\ object.hasClock => past.time = object.filterUpdateTimeOld
      BY FirstOrderKnown
    <3> QED  BY <3>1 DEF Stopped
  <2> HIDE DEF stopped
  <2>3. /\ past' \in MixedPasts /\ HasEnds(past'.inputs) /\ past'.inputs \in SUBSET Int
        /\ past'.starts = stopped /\ past'.input = input /\ past'.time = time /\ input \in past'.inputs
        /\ ~past.starts => past.inputs \subseteq past'.inputs
    BY <1>1, <2>1, <2>2, MixedProperties, FirstOrderKnown
  <2>4. /\ object' \in FirstOrders /\ object'.value \in Int
        /\ object'.type = object.type /\ object'.hasClock = object.hasClock
        /\ object'.filterInputOld = input
        /\ object'.filterUpdateTimeOld = IF object.hasClock THEN time ELSE 0
        /\ object'.hasBeenCalled = ~stopped
        /\ ~object.hasBeenCalled => object'.value = input
        /\ object.hasBeenCalled /\ object.type = "LOW_PASS" => object'.value \in interpolate(input, object.value)
        /\ object.hasBeenCalled /\ object.type = "HIGH_PASS" =>
              object'.value \in interpolate(0, object.value + input - object.filterInputOld)
    BY <1>1, <2>1, <2>2, FirstOrderKnown, FirstOrderUpdatesProperties
  <2>5. /\ object.type = "LOW_PASS" => Within(object'.value, past'.inputs)
        /\ object.type = "HIGH_PASS" => Within(input - object'.value, past'.inputs \cup {0})
    <3>1. past'.inputs \cup {0} \in SUBSET Int /\ input \in past'.inputs \cup {0} /\ 0 \in past'.inputs \cup {0}
      BY <2>3
    <3>2. Within(input, past'.inputs) /\ Within(input, past'.inputs \cup {0}) /\ Within(0, past'.inputs \cup {0})
      BY <1>1, <2>3, <3>1, MixtureIsWithin
    <3>3. CASE ~object.hasBeenCalled
      <4>1. object'.value = input /\ input - object'.value = 0
        BY <1>1, <2>4, <3>3
      <4> QED  BY <3>2, <4>1
    <3>4. CASE object.hasBeenCalled /\ object.type = "LOW_PASS"
      <4>1. /\ past.inputs \subseteq past'.inputs /\ Within(object.value, past.inputs)
            /\ object.value \in Int /\ past.inputs \in SUBSET Int
        BY <2>3, <3>4, FirstOrderKnown
      <4> DEFINE value == object.value
                 new == object'.value
                 values == past.inputs
                 more == past'.inputs
      <4>2. /\ values \in SUBSET Int /\ more \in SUBSET Int /\ values \subseteq more /\ input \in more
            /\ value \in Int /\ new \in Int /\ Within(value, values) /\ new \in interpolate(input, value)
        BY <2>3, <2>4, <3>4, <4>1
      <4> HIDE DEF value, new, values, more
      <4>3. Within(new, more)
        BY <4>2, MixesWithin
      <4> QED  BY <3>4, <4>3 DEF new, more
    <3>5. CASE object.hasBeenCalled /\ object.type = "HIGH_PASS"
      <4>1. /\ past.inputs \subseteq past'.inputs /\ object.filterInputOld \in Int
            /\ Within(object.filterInputOld - object.value, past.inputs \cup {0})
            /\ object.value \in Int /\ past.inputs \in SUBSET Int
        BY <2>3, <3>5, FirstOrderKnown
      <4> DEFINE value == object.value
                 last == object.filterInputOld
                 new == object'.value
                 values == past.inputs
                 more == past'.inputs
      <4>2. /\ values \in SUBSET Int /\ more \in SUBSET Int /\ values \subseteq more /\ input \in more
            /\ value \in Int /\ new \in Int /\ last \in Int
            /\ Within(last - value, values \cup {0}) /\ new \in interpolate(0, value + input - last)
        BY <2>3, <2>4, <3>5, <4>1
      <4>3. 0 \in Int /\ Within(input - 0, more \cup {0})
        <5>1. input - 0 = input
          BY <1>1
        <5> QED  BY <3>2, <5>1
      <4> HIDE DEF value, last, new, values, more
      <4>4. Within(input - new, more \cup {0})
        BY <4>2, <4>3, MixesWithin
      <4> QED  BY <3>5, <4>4 DEF new, more
    <3>6. object.type \in {"LOW_PASS", "HIGH_PASS"} /\ object.hasBeenCalled \in BOOLEAN
      BY FirstOrderKnown DEF Types
    <3> QED  BY <3>3, <3>4, <3>5, <3>6
  <2> QED  BY <2>2, <2>3, <2>4, <2>5 DEF FirstOrderInv, Mixture
<1> QED  BY <1>2, <1>3

\* A reset makes the next update a start, a new cut-off changes no mixture.
LEMMA ResetSmoothingSteps ==
    ASSUME AlphaInv \/ ButterworthInv \/ FirstOrderInv, ResetSmoothing
    PROVE  AlphaInv' \/ ButterworthInv' \/ FirstOrderInv'
<1>1. object' = [object EXCEPT !.hasBeenCalled = FALSE] /\ past' = [past EXCEPT !.call = "reset", !.starts = TRUE]
  BY DEF ResetSmoothing
<1>2. past \in MixedPasts /\ HasEnds(past.inputs)
  BY DEF AlphaInv, ButterworthInv, FirstOrderInv, Mixture
<1>3. past' \in MixedPasts
  <2>1. TRUE \in BOOLEAN
    OBVIOUS
  <2> QED  BY <1>1, <1>2, <2>1, Zenon DEF MixedPasts
<1>4. past'.call = "reset" /\ past'.inputs = past.inputs /\ past'.starts = TRUE
  <2>1. DOMAIN past = {"call", "starts", "inputs", "input", "time"}
    BY <1>2 DEF MixedPasts
  <2> QED  BY <1>1, <2>1
<1>5. ASSUME "hasBeenCalled" \in DOMAIN object PROVE object'.hasBeenCalled = FALSE
  BY <1>1, <1>5
<1>6. CASE AlphaInv
  <2>1. object \in AlphaFilters /\ FALSE \in BOOLEAN
    BY <1>6 DEF AlphaInv
  <2>2. object' \in AlphaFilters
    BY <1>1, <2>1, Zenon DEF AlphaFilters
  <2>3. "hasBeenCalled" \in DOMAIN object
    BY <2>1 DEF AlphaFilters
  <2> QED  BY <1>2, <1>3, <1>4, <1>5, <2>2, <2>3 DEF AlphaInv, Mixture, Updated
<1>7. CASE ButterworthInv
  <2>1. object \in Butterworths /\ FALSE \in BOOLEAN
    BY <1>7 DEF ButterworthInv
  <2>2. object' \in Butterworths
    BY <1>1, <2>1, Zenon DEF Butterworths
  <2>3. "hasBeenCalled" \in DOMAIN object
    BY <2>1 DEF Butterworths
  <2> QED  BY <1>2, <1>3, <1>4, <1>5, <2>2, <2>3 DEF ButterworthInv, Mixture, Updated
<1>8. CASE FirstOrderInv
  <2>1. object \in FirstOrders /\ FALSE \in BOOLEAN
    BY <1>8 DEF FirstOrderInv
  <2>2. object' \in FirstOrders
    BY <1>1, <2>1, Zenon DEF FirstOrders
  <2>3. "hasBeenCalled" \in DOMAIN object
    BY <2>1 DEF FirstOrders
  <2> QED  BY <1>2, <1>3, <1>4, <1>5, <2>2, <2>3 DEF FirstOrderInv, Mixture, Updated
<1> QED  BY <1>6, <1>7, <1>8

\* A cut-off frequency that is set leaves the rest of the filter alone.
LEMMA CutoffSteps ==
    ASSUME FirstOrderInv, NEW cutoff \in Cutoffs, SetCutoffFrequency(cutoff)
    PROVE  FirstOrderInv'
<1>1. object' = [object EXCEPT !.cutoffFrequency = cutoff] /\ past' = [past EXCEPT !.call = "other"]
  BY DEF SetCutoffFrequency
<1>2. object \in FirstOrders /\ past \in MixedPasts /\ cutoff \in Int
  BY SmoothingAssumption DEF FirstOrderInv, Mixture
<1>3. object' \in FirstOrders
  BY <1>1, <1>2, Zenon DEF FirstOrders
<1>4. past' \in MixedPasts
  BY <1>1, <1>2, Zenon DEF MixedPasts
<1>5. /\ object'.type = object.type /\ object'.value = object.value /\ object'.hasClock = object.hasClock
      /\ object'.hasBeenCalled = object.hasBeenCalled
      /\ object'.filterInputOld = object.filterInputOld
      /\ object'.filterUpdateTimeOld = object.filterUpdateTimeOld
  <2>1. DOMAIN object = {"class", "type", "value", "hasBeenCalled", "cutoffFrequency", "filterInputOld",
                         "filterUpdateTimeOld", "hasClock", "dt"}
    BY <1>2 DEF FirstOrders
  <2> QED  BY <1>1, <2>1
<1>6. /\ past'.call = "other" /\ past'.inputs = past.inputs /\ past'.starts = past.starts
      /\ past'.input = past.input /\ past'.time = past.time
  <2>1. DOMAIN past = {"call", "starts", "inputs", "input", "time"}
    BY <1>2 DEF MixedPasts
  <2> QED  BY <1>1, <2>1
<1> QED  BY <1>3, <1>4, <1>5, <1>6 DEF FirstOrderInv, Mixture, Updated

\* What the two filters of a band pass hold, of the values the inputs spread over.
Band(high, low, values) ==
    /\ high \in FirstOrders /\ high.type = "HIGH_PASS"
    /\ low \in FirstOrders /\ low.type = "LOW_PASS"
    /\ Within(high.filterInputOld, values) /\ Within(high.filterInputOld - high.value, values)
    /\ WithinSpread(low.value, values)

BandPassInv ==
    /\ object = [class |-> "BandPass", hasBeenCalled |-> object.hasBeenCalled, low |-> object.low,
                 high |-> object.high]
    /\ past \in MixedPasts /\ HasEnds(past.inputs)
    /\ Band(object.high, object.low, past.inputs \cup {0})

\* Neither filter leaves the spread in an update.
LEMMA BandUpdates ==
    ASSUME NEW values \in SUBSET Int, 0 \in values, NEW more \in SUBSET Int, values \subseteq more,
           NEW input \in more, NEW time \in Int, NEW high, NEW low, Band(high, low, values)
    PROVE  /\ Band(high, low, more) /\ Band(OnTime(high, time), low, more)
           /\ \A new \in FirstOrderUpdates(high, input, time) :
                 /\ Band(new, low, more) /\ Band(new, OnTime(low, time), more)
                 /\ \A mixed \in FirstOrderUpdates(low, new.value, time) : Band(new, mixed, more)
<1>1. /\ high \in FirstOrders /\ high.type = "HIGH_PASS" /\ low \in FirstOrders /\ low.type = "LOW_PASS"
      /\ Within(high.filterInputOld, values) /\ Within(high.filterInputOld - high.value, values)
      /\ WithinSpread(low.value, values)
  BY DEF Band
<1>2. high.filterInputOld \in Int /\ high.value \in Int /\ low.value \in Int /\ high.hasBeenCalled \in BOOLEAN
      /\ low.hasBeenCalled \in BOOLEAN /\ input \in Int
  BY <1>1, Zenon DEF FirstOrders
<1>3. /\ Within(high.filterInputOld, more) /\ Within(high.filterInputOld - high.value, more)
      /\ WithinSpread(low.value, more)
  BY <1>1, <1>2, WithinMore
<1>4. Band(high, low, more)
  BY <1>1, <1>3 DEF Band
<1>5. \A filter \in FirstOrders : \A timed : timed = OnTime(filter, time) =>
          timed \in FirstOrders /\ timed.type = filter.type /\ timed.value = filter.value
          /\ timed.filterInputOld = filter.filterInputOld
  BY OnTimeProperties
<1>6. Band(OnTime(high, time), low, more)
  <2>1. PICK timed : timed = OnTime(high, time)
    OBVIOUS
  <2>2. timed \in FirstOrders /\ timed.type = high.type /\ timed.value = high.value
        /\ timed.filterInputOld = high.filterInputOld
    BY <1>1, <1>5, <2>1
  <2>3. Band(timed, low, more)
    BY <1>1, <1>3, <2>2 DEF Band
  <2> QED  BY <2>1, <2>3
<1>7. ASSUME NEW new \in FirstOrderUpdates(high, input, time)
      PROVE  /\ Band(new, low, more) /\ Band(new, OnTime(low, time), more)
             /\ \A mixed \in FirstOrderUpdates(low, new.value, time) : Band(new, mixed, more)
  <2> DEFINE value == high.value
             last == high.filterInputOld
             v == new.value
  <2>1. /\ new \in FirstOrders /\ v \in Int /\ new.type = "HIGH_PASS" /\ new.filterInputOld = input
        /\ ~high.hasBeenCalled => v = input
        /\ high.hasBeenCalled => v \in interpolate(0, value + input - last)
    BY <1>1, <1>2, FirstOrderUpdatesProperties
  <2>2. value \in Int /\ last \in Int /\ Within(last - value, values)
    BY <1>1, <1>2
  <2> HIDE DEF value, last, v
  <2>3. Within(input, more) /\ Within(0, more) /\ 0 \in more /\ 0 \in Int
    BY <1>2, MixtureIsWithin
  <2>4. Within(input - v, more)
    <3>1. CASE ~high.hasBeenCalled
      <4>1. input - v = 0
        BY <1>2, <2>1, <3>1
      <4> QED  BY <2>3, <4>1
    <3>2. CASE high.hasBeenCalled
      <4>1. values \cup {0} = values /\ more \cup {0} = more
        BY <2>3
      <4>2. Within(input - 0, more \cup {0}) /\ Within(last - value, values \cup {0})
        <5>1. input - 0 = input
          BY <1>2
        <5> QED  BY <2>2, <2>3, <4>1, <5>1
      <4>3. v \in interpolate(0, value + input - last)
        BY <2>1, <3>2
      <4>4. Within(input - v, more \cup {0})
        BY <2>1, <2>2, <2>3, <4>2, <4>3, MixesWithin
      <4> QED  BY <4>1, <4>4
    <3> QED  BY <1>2, <3>1, <3>2
  <2>5. WithinSpread(v, more)
    BY <1>2, <2>1, <2>3, <2>4, SpreadOfDifference
  <2>6. Band(new, low, more)
    BY <1>1, <1>3, <2>1, <2>3, <2>4 DEF Band, v
  <2>7. Band(new, OnTime(low, time), more)
    <3>1. PICK timed : timed = OnTime(low, time)
      OBVIOUS
    <3>2. timed \in FirstOrders /\ timed.type = low.type /\ timed.value = low.value
      BY <1>1, <1>5, <3>1
    <3>3. Band(new, timed, more)
      BY <1>1, <1>3, <2>6, <3>2 DEF Band
    <3> QED  BY <3>1, <3>3
  <2>8. ASSUME NEW mixed \in FirstOrderUpdates(low, v, time)
        PROVE  Band(new, mixed, more)
    <3> DEFINE old == low.value
               m == mixed.value
    <3>1. /\ mixed \in FirstOrders /\ m \in Int /\ mixed.type = "LOW_PASS"
          /\ ~low.hasBeenCalled => m = v
          /\ low.hasBeenCalled => m \in interpolate(v, old)
      BY <1>1, <2>1, <2>8, FirstOrderUpdatesProperties
    <3>2. old \in Int /\ WithinSpread(old, more)
      BY <1>2, <1>3
    <3> HIDE DEF old, m
    <3>3. WithinSpread(m, more)
      <4>1. CASE ~low.hasBeenCalled
        BY <2>5, <3>1, <4>1
      <4>2. CASE low.hasBeenCalled
        <5>1. (v <= m /\ m <= old) \/ (old <= m /\ m <= v)
          BY <2>1, <3>1, <3>2, <4>2, InterpolateType
        <5> QED  BY <2>1, <2>5, <3>1, <3>2, <5>1, MixtureIsWithin
      <4> QED  BY <1>2, <4>1, <4>2
    <3> QED  BY <2>6, <3>1, <3>3 DEF Band, m
  <2> QED  BY <2>6, <2>7, <2>8 DEF v
<1> QED  BY <1>4, <1>6, <1>7

\* FirstOrderBandPassFilteredYoDouble: its first update shows the input, its reset
\* and its setters leave what the two filters hold.
LEMMA BandPassSteps ==
    ASSUME BandPassInv,
           \/ \E input \in SmoothedInputs, time \in Clock : UpdateBandPass(input, time)
           \/ ResetBandPass \/ \E min, max \in Cutoffs : SetPassBand(min, max)
    PROVE  BandPassInv'
<1> DEFINE called == object.hasBeenCalled
           low == object.low
           high == object.high
           values == past.inputs \cup {0}
<1>1. /\ object = [class |-> "BandPass", hasBeenCalled |-> called, low |-> low, high |-> high]
      /\ past \in MixedPasts /\ HasEnds(past.inputs) /\ Band(high, low, values)
  BY DEF BandPassInv
<1>2. past.inputs \in SUBSET Int /\ values \in SUBSET Int /\ 0 \in values
  <2>1. past.inputs \in SUBSET Int
    BY <1>1, Zenon DEF MixedPasts
  <2> QED  BY <2>1
<1>3. DOMAIN past = {"call", "starts", "inputs", "input", "time"}
  BY <1>1 DEF MixedPasts
<1>4. /\ high \in FirstOrders /\ low \in FirstOrders
      /\ high.type = "HIGH_PASS" /\ low.type = "LOW_PASS"
  BY <1>1 DEF Band
<1>5. ASSUME NEW c, NEW l, NEW h, object' = [class |-> "BandPass", hasBeenCalled |-> c, low |-> l, high |-> h],
             past' \in MixedPasts, HasEnds(past'.inputs), Band(h, l, past'.inputs \cup {0})
      PROVE  BandPassInv'
  BY <1>5 DEF BandPassInv
<1> HIDE DEF called, low, high
<1>6. ASSUME NEW input \in SmoothedInputs, NEW time \in Clock, UpdateBandPass(input, time)
      PROVE  BandPassInv'
  <2> DEFINE inputs == past.inputs \cup {input}
             more == inputs \cup {0}
  <2>1. input \in Int /\ time \in Int
    BY SmoothingAssumption
  <2>2. inputs \in SUBSET Int /\ HasEnds(inputs)
    BY <1>1, <1>2, <2>1, EndsOfMore
  <2>3. more \in SUBSET Int /\ values \subseteq more /\ input \in more /\ 0 \in more
    BY <2>2
  <2>4. past' = [past EXCEPT !.call = "update", !.inputs = inputs]
    BY <1>6 DEF UpdateBandPass
  <2> HIDE DEF inputs
  <2>5. past' \in MixedPasts
    BY <1>1, <2>2, <2>4, Zenon DEF MixedPasts
  <2>6. past'.inputs = inputs
    BY <1>3, <2>4
  <2> HIDE DEF more, values
  <2>7. /\ Band(high, low, more) /\ Band(OnTime(high, time), low, more)
        /\ \A new \in FirstOrderUpdates(high, input, time) :
              /\ Band(new, low, more) /\ Band(new, OnTime(low, time), more)
              /\ \A mixed \in FirstOrderUpdates(low, new.value, time) : Band(new, mixed, more)
    BY <1>1, <1>2, <2>1, <2>3, BandUpdates
  <2>8. ASSUME NEW c, NEW l, NEW h, Band(h, l, more),
               object' = [class |-> "BandPass", hasBeenCalled |-> c, low |-> l, high |-> h]
        PROVE  BandPassInv'
    <3>1. Band(h, l, past'.inputs \cup {0}) /\ HasEnds(past'.inputs)
      BY <2>2, <2>6, <2>8 DEF more
    <3> QED  BY <1>5, <2>5, <2>8, <3>1
  <2>9. called = object.hasBeenCalled /\ low = object.low /\ high = object.high
    BY DEF called, low, high
  <2>10. CASE ~called
    <3>1. object' = [object EXCEPT !.hasBeenCalled = TRUE, !.low.value = input]
      BY <1>6, <2>9, <2>10 DEF UpdateBandPass
    <3> DEFINE shown == [low EXCEPT !.value = input]
    <3>2. object' = [class |-> "BandPass", hasBeenCalled |-> TRUE, low |-> shown, high |-> high]
      BY <1>1, <3>1
    <3>3. shown \in FirstOrders
      BY <1>4, <2>1, Zenon DEF FirstOrders
    <3>4. shown.type = "LOW_PASS" /\ shown.value = input
      <4>1. "type" \in DOMAIN low /\ "value" \in DOMAIN low
        BY <1>4 DEF FirstOrders
      <4> QED  BY <1>4, <4>1
    <3> HIDE DEF shown
    <3>5. WithinSpread(input, more)
      <4>1. Within(input, more) /\ Within(0, more)
        BY <2>1, <2>3, MixtureIsWithin
      <4>2. input - input = 0
        BY <2>1
      <4>3. Within(input - input, more)
        BY <4>1, <4>2
      <4> QED  BY <2>1, <2>3, <4>1, <4>3, SpreadOfDifference
    <3>6. Band(high, shown, more)
      BY <2>7, <3>3, <3>4, <3>5 DEF Band
    <3> QED  BY <2>8, <3>2, <3>6
  <2>11. CASE called /\ Throws(high)
    <3>1. object' = [object EXCEPT !.high = OnTime(high, time)]
      BY <1>6, <2>9, <2>11 DEF UpdateBandPass
    <3> DEFINE timed == OnTime(high, time)
    <3>2. Band(timed, low, more)
      BY <2>7
    <3> HIDE DEF timed
    <3>3. object' = [class |-> "BandPass", hasBeenCalled |-> called, low |-> low, high |-> timed]
      BY <1>1, <3>1 DEF timed
    <3> QED  BY <2>8, <3>2, <3>3
  <2>12. CASE called /\ ~Throws(high)
    <3>1. PICK new \in FirstOrderUpdates(high, input, time) :
              IF Throws(low)
              THEN object' = [object EXCEPT !.high = new, !.low = OnTime(low, time)]
              ELSE \E mixed \in FirstOrderUpdates(low, new.value, time) :
                       object' = [object EXCEPT !.high = new, !.low = mixed]
      BY <1>6, <2>9, <2>12 DEF UpdateBandPass
    <3>2. PICK mixed : object' = [object EXCEPT !.high = new, !.low = mixed] /\ Band(new, mixed, more)
      BY <2>7, <3>1
    <3>3. object' = [class |-> "BandPass", hasBeenCalled |-> called, low |-> mixed, high |-> new]
      BY <1>1, <3>2
    <3> QED  BY <2>8, <3>2, <3>3
  <2> QED  BY <2>10, <2>11, <2>12
<1>7. ASSUME ResetBandPass PROVE BandPassInv'
  <2> DEFINE stopped == [low EXCEPT !.hasBeenCalled = FALSE]
  <2>1. object' = [class |-> "BandPass", hasBeenCalled |-> called, low |-> stopped, high |-> high]
    BY <1>1, <1>7 DEF ResetBandPass
  <2>2. past' = [past EXCEPT !.call = "reset"]
    BY <1>7 DEF ResetBandPass
  <2>3. past' \in MixedPasts
    BY <1>1, <2>2, Zenon DEF MixedPasts
  <2>4. past'.inputs = past.inputs
    BY <1>3, <2>2
  <2>5. stopped \in FirstOrders
    <3>1. FALSE \in BOOLEAN
      OBVIOUS
    <3> QED  BY <1>4, <3>1, Zenon DEF FirstOrders
  <2>6. stopped.type = low.type /\ stopped.value = low.value
    <3>1. "type" \in DOMAIN low /\ "value" \in DOMAIN low
      BY <1>4 DEF FirstOrders
    <3> QED  BY <3>1
  <2> HIDE DEF stopped
  <2>7. Band(high, stopped, past'.inputs \cup {0})
    BY <1>1, <2>4, <2>5, <2>6 DEF Band
  <2>8. HasEnds(past'.inputs)
    BY <1>1, <2>4
  <2> QED  BY <1>5, <2>1, <2>3, <2>7, <2>8
<1>8. ASSUME NEW min \in Cutoffs, NEW max \in Cutoffs, SetPassBand(min, max) PROVE BandPassInv'
  <2> DEFINE l == [low EXCEPT !.cutoffFrequency = max]
             h == [high EXCEPT !.cutoffFrequency = min]
  <2>1. object' = [class |-> "BandPass", hasBeenCalled |-> called, low |-> l, high |-> h]
    BY <1>1, <1>8 DEF SetPassBand
  <2>2. past' = [past EXCEPT !.call = "other"] /\ min \in Int /\ max \in Int
    BY <1>8, SmoothingAssumption DEF SetPassBand
  <2>3. past' \in MixedPasts
    BY <1>1, <2>2, Zenon DEF MixedPasts
  <2>4. past'.inputs = past.inputs
    BY <1>3, <2>2
  <2>5. l \in FirstOrders /\ h \in FirstOrders
    BY <1>4, <2>2, Zenon DEF FirstOrders
  <2>6. /\ l.type = low.type /\ l.value = low.value
        /\ h.type = high.type /\ h.value = high.value /\ h.filterInputOld = high.filterInputOld
    <3>1. /\ "type" \in DOMAIN low /\ "value" \in DOMAIN low
          /\ "type" \in DOMAIN high /\ "value" \in DOMAIN high /\ "filterInputOld" \in DOMAIN high
      BY <1>4 DEF FirstOrders
    <3> QED  BY <3>1
  <2> HIDE DEF l, h
  <2>7. Band(h, l, past'.inputs \cup {0})
    BY <1>1, <2>4, <2>5, <2>6 DEF Band
  <2>8. HasEnds(past'.inputs)
    BY <1>1, <2>4
  <2> QED  BY <1>5, <2>1, <2>3, <2>7, <2>8
<1> QED  BY <1>6, <1>7, <1>8

Turn == UpperLimit - LowerLimit

\* What the assumption says of the range.
LEMMA TurnProperties ==
    Turn \in Nat \ {0} /\ Turn \in Int /\ LowerLimit \in Int /\ UpperLimit \in Int
    /\ UpperLimit = LowerLimit + Turn /\ Turn > 0
BY SmoothingAssumption DEF Turn

\* Values that differ by d and whole turns are d apart, where d is no more than
\* half a turn.
LEMMA ApartIs ==
    ASSUME NEW x \in Int, NEW y \in Int, NEW d \in Int, NEW k \in Int, x - y = d + k * Turn,
           2 * d <= Turn, -2 * d <= Turn
    PROVE  Apart(x, y) = Abs(d)
<1> DEFINE r == IF d >= 0 THEN d ELSE d + Turn
           q == IF d >= 0 THEN k ELSE k - 1
           z == x - y
<1>1. Turn \in Nat \ {0} /\ Turn > 0
  BY TurnProperties
<1>2. k * Turn \in Int /\ (k - 1) * Turn = k * Turn - Turn
  BY <1>1
<1>3. q \in Int /\ r \in 0 .. (Turn - 1) /\ z \in Int /\ z = q * Turn + r
  BY <1>1, <1>2
<1> HIDE DEF r, q, z
<1>4. z % Turn = r
  BY <1>1, <1>3, RemainderIs
<1>5. Min({r, Turn - r}) = IF r <= Turn - r THEN r ELSE Turn - r
  <2>1. r \in Int /\ Turn - r \in Int
    BY <1>1, <1>3
  <2> QED  BY <2>1, MinOfTwo
<1>6. Apart(x, y) = Min({r, Turn - r})
  BY <1>4 DEF Apart, Turn, z
<1> QED  BY <1>1, <1>5, <1>6 DEF r, Abs

\* A position is reduced by whole turns.
LEMMA InRangeProperties ==
    ASSUME NEW position \in Int
    PROVE  /\ InRange(position) \in Int /\ LowerLimit <= InRange(position) /\ InRange(position) < UpperLimit
           /\ \E k \in Int : InRange(position) - position = k * Turn
<1> DEFINE x == position - LowerLimit
           q == x \div Turn
           r == x % Turn
<1>1. Turn \in Nat \ {0} /\ LowerLimit \in Int /\ UpperLimit = LowerLimit + Turn /\ x \in Int
  BY TurnProperties
<1>2. q \in Int /\ r \in Int /\ 0 <= r /\ r < Turn /\ x = Turn * q + r
  BY <1>1
<1>3. InRange(position) = LowerLimit + r
  BY DEF InRange, Turn
<1>4. x = position - LowerLimit
  OBVIOUS
<1> HIDE DEF x, q, r
<1>5. -q \in Int /\ Turn * q \in Int /\ (-q) * Turn = -(Turn * q)
  BY <1>1, <1>2
<1>6. InRange(position) - position = (-q) * Turn
  BY <1>1, <1>2, <1>3, <1>4, <1>5
<1>7. \E k \in Int : InRange(position) - position = k * Turn
  BY <1>5, <1>6, Zenon
<1> QED  BY <1>1, <1>2, <1>3, <1>7

\* A value is taken by at most a turn next to its target, half a turn or less away.
LEMMA UnwoundProperties ==
    ASSUME NEW value \in Int, LowerLimit <= value, value <= UpperLimit,
           NEW target \in Int, LowerLimit <= target, target < UpperLimit
    PROVE  LET error == Error(value, target)
               unwound == Unwound(value, error)
           IN  /\ error \in Int /\ unwound \in Int
               /\ 2 * (unwound - target) <= Turn /\ -2 * (unwound - target) <= Turn
               /\ \E k \in {-1, 0, 1} : value - unwound = k * Turn
<1>1. Turn \in Int /\ LowerLimit \in Int /\ UpperLimit = LowerLimit + Turn /\ Turn > 0
  BY TurnProperties
<1> DEFINE standard == target - value
           wrapping == IF target > value THEN standard - Turn ELSE standard + Turn
           error == IF Abs(standard) < Abs(wrapping) THEN standard ELSE wrapping
           unwound == IF value + error >= UpperLimit THEN value - Turn
                      ELSE IF value + error < LowerLimit THEN value + Turn ELSE value
<1>2. error = Error(value, target)
  BY DEF Error, Turn
<1>3. unwound = Unwound(value, error)
  BY DEF Unwound, Turn
<1>4. error \in Int /\ 2 * error <= Turn /\ -2 * error <= Turn
  BY <1>1 DEF Abs
<1>5. unwound = target - error /\ unwound \in Int
  BY <1>1 DEF Abs
<1>6. \/ value - unwound = (-1) * Turn
      \/ value - unwound = 0 * Turn
      \/ value - unwound = 1 * Turn
  BY <1>1
<1> HIDE DEF error, unwound
<1> QED  BY <1>1, <1>2, <1>3, <1>4, <1>5, <1>6

\* A mixture at most half a turn off a value of the range comes back in it.
LEMMA RewoundProperties ==
    ASSUME NEW mixture \in Int, NEW target \in Int, LowerLimit <= target, target < UpperLimit,
           2 * (mixture - target) <= Turn, -2 * (mixture - target) <= Turn
    PROVE  /\ Rewound(mixture) \in Int
           /\ LowerLimit <= Rewound(mixture) /\ Rewound(mixture) <= UpperLimit
           /\ \E k \in {-1, 0, 1} : Rewound(mixture) - mixture = k * Turn
<1>1. Turn \in Int /\ LowerLimit \in Int /\ UpperLimit = LowerLimit + Turn /\ Turn > 0
  BY TurnProperties
<1> DEFINE rewound == IF mixture > UpperLimit THEN mixture - Turn
                      ELSE IF mixture < LowerLimit THEN mixture + Turn ELSE mixture
<1>2. rewound = Rewound(mixture)
  BY DEF Rewound, Turn
<1>3. rewound \in Int /\ LowerLimit <= rewound /\ rewound <= UpperLimit
  BY <1>1
<1>4. \/ rewound - mixture = (-1) * Turn
      \/ rewound - mixture = 0 * Turn
      \/ rewound - mixture = 1 * Turn
  BY <1>1
<1> HIDE DEF rewound
<1> QED  BY <1>2, <1>3, <1>4

\* From a value, unwound next to the target, through a mixture of the two: there
\* is no shorter way round.
LEMMA WayRound ==
    ASSUME NEW value \in Int, NEW unwound \in Int, NEW target \in Int, NEW mixture \in Int, NEW input \in Int,
           LowerLimit <= target, target < UpperLimit,
           2 * (unwound - target) <= Turn, -2 * (unwound - target) <= Turn,
           NEW i \in Int, value - unwound = i * Turn,
           NEW j \in Int, target - input = j * Turn,
           (target <= mixture /\ mixture <= unwound) \/ (unwound <= mixture /\ mixture <= target)
    PROVE  LET new == Rewound(mixture)
           IN  /\ new \in Int /\ LowerLimit <= new /\ new <= UpperLimit
               /\ 2 * (mixture - target) <= Turn /\ -2 * (mixture - target) <= Turn
               /\ Apart(value, new) + Apart(new, input) = Apart(value, input)
<1> DEFINE new == Rewound(mixture)
           a == unwound - mixture
           b == mixture - target
           c == unwound - target
<1>1. Turn \in Int /\ Turn > 0
  BY TurnProperties
<1>2. 2 * b <= Turn /\ -2 * b <= Turn /\ 2 * a <= Turn /\ -2 * a <= Turn
  BY <1>1
<1>3. new \in Int /\ LowerLimit <= new /\ new <= UpperLimit
  BY <1>2, RewoundProperties
<1>4. PICK k \in {-1, 0, 1} : new - mixture = k * Turn
  BY <1>2, RewoundProperties
<1>5. a \in Int /\ b \in Int /\ c \in Int /\ k \in Int /\ Abs(a) + Abs(b) = Abs(c)
  BY DEF Abs
<1> HIDE DEF new
<1>6. /\ i * Turn \in Int /\ j * Turn \in Int /\ k * Turn \in Int
      /\ (i - k) * Turn = i * Turn - k * Turn
      /\ (k + j) * Turn = k * Turn + j * Turn
      /\ (i + j) * Turn = i * Turn + j * Turn
      /\ i - k \in Int /\ k + j \in Int /\ i + j \in Int
  BY <1>1, <1>5
<1>7. /\ value - new = a + (i - k) * Turn
      /\ new - input = b + (k + j) * Turn
      /\ value - input = c + (i + j) * Turn
  BY <1>3, <1>4, <1>6
<1>8. 2 * c <= Turn /\ -2 * c <= Turn
  OBVIOUS
<1> HIDE DEF a, b, c
<1>9. Apart(value, new) = Abs(a)
  BY <1>2, <1>3, <1>5, <1>6, <1>7, ApartIs
<1>10. Apart(new, input) = Abs(b)
  BY <1>2, <1>3, <1>5, <1>6, <1>7, ApartIs
<1>11. Apart(value, input) = Abs(c)
  BY <1>5, <1>6, <1>7, <1>8, ApartIs
<1>12. 2 * (mixture - target) <= Turn /\ -2 * (mixture - target) <= Turn
  BY <1>2 DEF b
<1> QED  BY <1>3, <1>5, <1>9, <1>10, <1>11, <1>12 DEF new

Wrappings ==
    [class : {"Wrapping"}, value : Int, hasBeenCalled : BOOLEAN, previousUnfiltered : Int,
     unfilteredInRange : Int, temporary : Int, error : Int]

WrappingPasts == [call : {"reset", "update", "other"}, input : Int, ignored : SUBSET Int]

\* A filter that was called has mixed a value next to its target, which is the
\* last input but for the one that is ignored.
WrappingInv ==
    /\ object \in Wrappings /\ past \in WrappingPasts
    /\ object.hasBeenCalled =>
          /\ LowerLimit <= object.unfilteredInRange /\ object.unfilteredInRange < UpperLimit
          /\ 2 * (object.temporary - object.unfilteredInRange) <= Turn
          /\ -2 * (object.temporary - object.unfilteredInRange) <= Turn
          /\ object.value = Rewound(object.temporary)
          /\ \/ past.ignored = {} /\ object.unfilteredInRange = InRange(object.previousUnfiltered)
             \/ past.ignored = {object.previousUnfiltered}

\* The body of WrapsTheShorterWay.
WrapsNow ==
    Is("Wrapping") /\ past'.call = "update" =>
        /\ LowerLimit <= object'.value /\ object'.value <= UpperLimit
        /\ object.hasBeenCalled =>
              Apart(object.value, object'.value) + Apart(object'.value, past'.input)
                  = Apart(object.value, past'.input)

\* AlphaFilteredWrappingYoVariable::update, the first one
LEMMA WrappingStarts ==
    ASSUME WrappingInv, NEW input \in WrapInputs, NEW unfiltered \in WrapInputs,
           UpdateWrapping(input, unfiltered), ~object.hasBeenCalled
    PROVE  WrappingInv' /\ WrapsNow
<1> DEFINE target == InRange(input)
           ignored == {unfiltered} \ {input}
<1>1. input \in Int /\ unfiltered \in Int
  BY SmoothingAssumption
<1>2. target \in Int /\ LowerLimit <= target /\ target < UpperLimit
  BY <1>1, InRangeProperties
<1>3. object' = [object EXCEPT !.hasBeenCalled = TRUE, !.previousUnfiltered = unfiltered,
                               !.unfilteredInRange = target, !.temporary = target, !.value = target]
  BY DEF UpdateWrapping
<1>4. past' = [call |-> "update", input |-> input, ignored |-> ignored]
  BY DEF UpdateWrapping
<1>5. ignored \in SUBSET Int /\ ((ignored = {} /\ input = unfiltered) \/ ignored = {unfiltered})
  BY <1>1
<1>6. target = Rewound(target)
  BY <1>2, TurnProperties DEF Rewound
<1>7. object \in Wrappings
  BY DEF WrappingInv
<1>8. target = InRange(input)
  OBVIOUS
<1> HIDE DEF target, ignored
<1>9. object' \in Wrappings
  <2>1. TRUE \in BOOLEAN
    OBVIOUS
  <2> QED  BY <1>1, <1>2, <1>3, <1>7, <2>1, Zenon DEF Wrappings
<1>10. past' \in WrappingPasts
  BY <1>1, <1>4, <1>5, Zenon DEF WrappingPasts
<1>11. /\ object'.previousUnfiltered = unfiltered /\ object'.unfilteredInRange = target
       /\ object'.temporary = target /\ object'.value = target
  <2>1. DOMAIN object = {"class", "value", "hasBeenCalled", "previousUnfiltered", "unfilteredInRange",
                         "temporary", "error"}
    BY <1>7 DEF Wrappings
  <2> QED  BY <1>3, <2>1
<1>12. past'.call = "update" /\ past'.ignored = ignored
  BY <1>4
<1>13. 2 * (target - target) <= Turn /\ -2 * (target - target) <= Turn
  BY <1>2, TurnProperties
<1>14. WrappingInv'
  BY <1>2, <1>5, <1>6, <1>8, <1>9, <1>10, <1>11, <1>12, <1>13 DEF WrappingInv
<1>15. WrapsNow
  <2>1. LowerLimit <= target /\ target <= UpperLimit
    BY <1>2, TurnProperties
  <2> QED  BY <1>11, <2>1 DEF WrapsNow
<1> QED  BY <1>14, <1>15

\* AlphaFilteredWrappingYoVariable::update, after the first one
LEMMA WrappingContinues ==
    ASSUME WrappingInv, NEW input \in WrapInputs, NEW unfiltered \in WrapInputs,
           UpdateWrapping(input, unfiltered), object.hasBeenCalled
    PROVE  WrappingInv' /\ WrapsNow
<1> DEFINE value == object.value
           previous == object.previousUnfiltered
           ignored == past.ignored
           remixed == Remixed(input)
           target == remixed.unfilteredInRange
           unwound == remixed.temporary
<1>1. input \in Int /\ object \in Wrappings /\ past \in WrappingPasts
  BY SmoothingAssumption DEF WrappingInv
<1>2. /\ object.value \in Int /\ object.previousUnfiltered \in Int /\ object.unfilteredInRange \in Int
      /\ object.temporary \in Int /\ past.ignored \in SUBSET Int
  <2>1. /\ object.value \in Int /\ object.previousUnfiltered \in Int /\ object.unfilteredInRange \in Int
        /\ object.temporary \in Int
    BY <1>1, Zenon DEF Wrappings
  <2>2. past.ignored \in SUBSET Int
    BY <1>1, Zenon DEF WrappingPasts
  <2> QED  BY <2>1, <2>2
<1>3. /\ LowerLimit <= object.unfilteredInRange /\ object.unfilteredInRange < UpperLimit
      /\ 2 * (object.temporary - object.unfilteredInRange) <= Turn
      /\ -2 * (object.temporary - object.unfilteredInRange) <= Turn
      /\ value = Rewound(object.temporary)
      /\ \/ ignored = {} /\ object.unfilteredInRange = InRange(previous)
         \/ ignored = {previous}
  BY DEF WrappingInv
<1>4. LowerLimit <= value /\ value <= UpperLimit /\ \E k \in {-1, 0, 1} : value - object.temporary = k * Turn
  BY <1>2, <1>3, RewoundProperties
<1>5. DOMAIN object = {"class", "value", "hasBeenCalled", "previousUnfiltered", "unfilteredInRange",
                       "temporary", "error"}
  BY <1>1 DEF Wrappings
<1>6. /\ remixed \in Wrappings /\ target \in Int /\ unwound \in Int
      /\ LowerLimit <= target /\ target < UpperLimit
      /\ 2 * (unwound - target) <= Turn /\ -2 * (unwound - target) <= Turn
      /\ \E k \in {-1, 0, 1} : value - unwound = k * Turn
      /\ remixed.previousUnfiltered = input
      /\ \/ ignored = {} /\ target = InRange(input)
         \/ ignored = {previous} /\ (input # previous => target = InRange(input))
  <2>1. CASE input = previous
    <3>1. remixed = object
      BY <2>1 DEF Remixed
    <3> QED  BY <1>1, <1>2, <1>3, <1>4, <2>1, <3>1
  <2>2. CASE input # previous
    <3> DEFINE t == InRange(input)
               e == Error(value, t)
               u == Unwound(value, e)
    <3>1. remixed = [object EXCEPT !.previousUnfiltered = input, !.unfilteredInRange = t, !.error = e,
                                   !.temporary = u]
      BY <2>2 DEF Remixed
    <3>2. t \in Int /\ LowerLimit <= t /\ t < UpperLimit
      BY <1>1, InRangeProperties
    <3>3. t = InRange(input) /\ value \in Int
      BY <1>2
    <3> HIDE DEF t, value
    <3>4. /\ e \in Int /\ u \in Int /\ 2 * (u - t) <= Turn /\ -2 * (u - t) <= Turn
          /\ \E k \in {-1, 0, 1} : value - u = k * Turn
      BY <1>4, <3>2, <3>3, UnwoundProperties
    <3> HIDE DEF e, u, remixed
    <3>5. remixed \in Wrappings
      BY <1>1, <3>1, <3>2, <3>4, Zenon DEF Wrappings
    <3>6. remixed.unfilteredInRange = t /\ remixed.temporary = u /\ remixed.previousUnfiltered = input
      BY <1>5, <3>1
    <3> QED  BY <1>3, <2>2, <3>2, <3>3, <3>4, <3>5, <3>6
  <2> QED  BY <2>1, <2>2
<1>7. PICK mixture \in interpolate(target, unwound) :
         object' = [remixed EXCEPT !.temporary = mixture, !.value = Rewound(mixture)]
  BY DEF UpdateWrapping
<1>8. past' = IF input \in ignored THEN [past EXCEPT !.call = "other"]
              ELSE [call |-> "update", input |-> input, ignored |-> {}]
  BY DEF UpdateWrapping
<1> DEFINE new == Rewound(mixture)
<1>9. value \in Int
  BY <1>2
<1> HIDE DEF value, previous, ignored, remixed, target, unwound
<1>10. mixture \in Int /\ ((target <= mixture /\ mixture <= unwound) \/ (unwound <= mixture /\ mixture <= target))
  BY <1>6, <1>7, InterpolateType
<1>11. /\ new \in Int /\ LowerLimit <= new /\ new <= UpperLimit
       /\ 2 * (mixture - target) <= Turn /\ -2 * (mixture - target) <= Turn
  <2>1. 2 * (mixture - target) <= Turn /\ -2 * (mixture - target) <= Turn
    BY <1>6, <1>10, TurnProperties
  <2> QED  BY <1>6, <1>10, <2>1, RewoundProperties
<1>12. object' \in Wrappings
  BY <1>6, <1>7, <1>10, <1>11, Zenon DEF Wrappings
<1>13. /\ object'.temporary = mixture /\ object'.value = new
       /\ object'.unfilteredInRange = target /\ object'.previousUnfiltered = input
  <2>1. DOMAIN remixed = {"class", "value", "hasBeenCalled", "previousUnfiltered", "unfilteredInRange",
                          "temporary", "error"}
    BY <1>6 DEF Wrappings
  <2> QED  BY <1>6, <1>7, <2>1 DEF target
<1>14. WrappingInv' /\ (input \notin ignored => target = InRange(input) /\ past'.call = "update" /\ past'.input = input)
  <2>1. CASE input \in ignored
    <3>1. ignored = {input} /\ past' = [past EXCEPT !.call = "other"]
      BY <1>6, <1>8, <2>1
    <3>2. past' \in WrappingPasts
      BY <1>1, <3>1, Zenon DEF WrappingPasts
    <3>3. past'.ignored = {input}
      <4>1. "ignored" \in DOMAIN past /\ past.ignored = ignored
        BY <1>1 DEF WrappingPasts, ignored
      <4> QED  BY <3>1, <4>1
    <3> QED  BY <1>6, <1>11, <1>12, <1>13, <2>1, <3>2, <3>3 DEF WrappingInv
  <2>2. CASE input \notin ignored
    <3>1. past' = [call |-> "update", input |-> input, ignored |-> {}] /\ {} \in SUBSET Int
      BY <1>8, <2>2
    <3>2. past' \in WrappingPasts
      BY <1>1, <3>1, Zenon DEF WrappingPasts
    <3>3. past'.ignored = {} /\ past'.call = "update" /\ past'.input = input
      BY <3>1
    <3>4. target = InRange(input)
      BY <1>6, <2>2
    <3> QED  BY <1>6, <1>11, <1>12, <1>13, <3>2, <3>3, <3>4 DEF WrappingInv
  <2> QED  BY <2>1, <2>2
<1>15. WrapsNow
  <2>1. CASE input \in ignored
    <3>1. past'.call # "update"
      <4>1. "call" \in DOMAIN past
        BY <1>1 DEF WrappingPasts
      <4> QED  BY <1>8, <2>1, <4>1
    <3> QED  BY <3>1 DEF WrapsNow
  <2>2. CASE input \notin ignored
    <3>1. target = InRange(input) /\ past'.input = input
      BY <1>14, <2>2
    <3>2. PICK j \in Int : target - input = j * Turn
      BY <1>1, <3>1, InRangeProperties
    <3>3. PICK i \in {-1, 0, 1} : value - unwound = i * Turn
      BY <1>6
    <3>4. i \in Int
      OBVIOUS
    <3>5. Apart(value, new) + Apart(new, input) = Apart(value, input)
      BY <1>1, <1>6, <1>9, <1>10, <3>2, <3>3, <3>4, WayRound
    <3> QED  BY <1>11, <1>13, <3>1, <3>5 DEF WrapsNow, value
  <2> QED  BY <2>1, <2>2
<1> QED  BY <1>14, <1>15

\* A reset makes the next update a start.
LEMMA WrappingSteps ==
    ASSUME WrappingInv,
           \/ \E input, unfiltered \in WrapInputs : UpdateWrapping(input, unfiltered)
           \/ ResetWrapping
    PROVE  WrappingInv' /\ WrapsNow
<1>1. ASSUME NEW input \in WrapInputs, NEW unfiltered \in WrapInputs, UpdateWrapping(input, unfiltered)
      PROVE  WrappingInv' /\ WrapsNow
  BY <1>1, WrappingStarts, WrappingContinues
<1>2. ASSUME ResetWrapping PROVE WrappingInv' /\ WrapsNow
  <2>1. object' = [object EXCEPT !.hasBeenCalled = FALSE] /\ past' = [past EXCEPT !.call = "reset"]
    BY <1>2 DEF ResetWrapping
  <2>2. object \in Wrappings /\ past \in WrappingPasts /\ FALSE \in BOOLEAN
    BY DEF WrappingInv
  <2>3. object' \in Wrappings
    BY <2>1, <2>2, Zenon DEF Wrappings
  <2>4. past' \in WrappingPasts
    BY <2>1, <2>2, Zenon DEF WrappingPasts
  <2>5. object'.hasBeenCalled = FALSE /\ past'.call = "reset"
    <3>1. "hasBeenCalled" \in DOMAIN object /\ "call" \in DOMAIN past
      BY <2>2 DEF Wrappings, WrappingPasts
    <3> QED  BY <2>1, <3>1
  <2> QED  BY <2>3, <2>4, <2>5 DEF WrappingInv, WrapsNow
<1> QED  BY <1>1, <1>2

\* A register of three, the newest first, of a sequence that keeps as many.
LastThreeOf(register, given) ==
    /\ given \in Seq(Int) /\ Len(given) <= 3
    /\ given # <<>> => \E a, b, c \in Int : register = <<a, b, c>>
    /\ LastThree(register, given)

\* Of one more than three numbers the first is not kept.
LEMMA LastThreeKept ==
    ASSUME NEW s \in Seq(Int), NEW n \in 1 .. 3, Len(s) = n, NEW x \in Int
    PROVE  LET kept == LastOf(Append(s, x), 3)
           IN  /\ kept \in Seq(Int) /\ Len(kept) = (IF n = 3 THEN 3 ELSE n + 1)
               /\ n = 1 => kept[1] = s[1] /\ kept[2] = x
               /\ n = 2 => kept[1] = s[1] /\ kept[2] = s[2] /\ kept[3] = x
               /\ n = 3 => kept[1] = s[2] /\ kept[2] = s[3] /\ kept[3] = x
<1> DEFINE a == Append(s, x)
           kept == LastOf(a, 3)
           first == IF n = 3 THEN 2 ELSE 1
           last == n + 1
<1>1. /\ a \in Seq(Int) /\ Len(a) = n + 1
      /\ \A i \in 1 .. Len(s) : a[i] = s[i]
      /\ a[Len(s) + 1] = x
  BY AppendProperties
<1>2. a[n + 1] = x /\ \A i \in 1 .. n : a[i] = s[i]
  BY <1>1
<1>3. \A i \in 1 .. n + 1 : a[i] \in Int
  <2>1. \A i \in 1 .. Len(a) : a[i] \in Int
    BY <1>1, ElementOfSeq
  <2> QED  BY <1>1, <2>1
<1>4. kept = SubSeq(a, 1 + (IF n + 1 > 3 THEN n + 1 - 3 ELSE 0), n + 1)
  BY <1>1 DEF LastOf
<1> HIDE DEF a
<1>5. 1 + (IF n + 1 > 3 THEN n + 1 - 3 ELSE 0) = first /\ n + 1 = last
  OBVIOUS
<1>6. kept = SubSeq(a, first, last)
  BY <1>4, <1>5
<1>7. /\ first \in Int /\ last \in Int /\ first <= last
      /\ last - first + 1 = (IF n = 3 THEN 3 ELSE n + 1)
      /\ \A i \in first .. last : i \in 1 .. n + 1
  OBVIOUS
<1>8. \A i \in first .. last : a[i] \in Int
  BY <1>3, <1>7
<1> HIDE DEF kept, first, last
<1>9. /\ kept \in Seq(Int)
      /\ Len(kept) = IF first <= last THEN last - first + 1 ELSE 0
      /\ \A i \in 1 .. last - first + 1 : kept[i] = a[first + i - 1]
  BY <1>6, <1>7, <1>8, SubSeqProperties
<1>10. Len(kept) = (IF n = 3 THEN 3 ELSE n + 1) /\ \A i \in 1 .. (IF n = 3 THEN 3 ELSE n + 1) : kept[i] = a[first + i - 1]
  BY <1>7, <1>9
<1>11. CASE n = 1
  <2>1. 1 \in 1 .. 2 /\ 2 \in 1 .. 2 /\ first + 1 - 1 = 1 /\ first + 2 - 1 = 2
    BY <1>11 DEF first
  <2>2. kept[1] = a[1] /\ kept[2] = a[2]
    BY <1>10, <1>11, <2>1
  <2>3. a[1] = s[1] /\ a[2] = x
    BY <1>2, <1>11
  <2> QED  BY <1>9, <1>10, <1>11, <2>2, <2>3 DEF kept, a
<1>12. CASE n = 2
  <2>1. /\ 1 \in 1 .. 3 /\ 2 \in 1 .. 3 /\ 3 \in 1 .. 3
        /\ first + 1 - 1 = 1 /\ first + 2 - 1 = 2 /\ first + 3 - 1 = 3
    BY <1>12 DEF first
  <2>2. kept[1] = a[1] /\ kept[2] = a[2] /\ kept[3] = a[3]
    BY <1>10, <1>12, <2>1
  <2>3. a[1] = s[1] /\ a[2] = s[2] /\ a[3] = x
    BY <1>2, <1>12
  <2> QED  BY <1>9, <1>10, <1>12, <2>2, <2>3 DEF kept, a
<1>13. CASE n = 3
  <2>1. /\ 1 \in 1 .. 3 /\ 2 \in 1 .. 3 /\ 3 \in 1 .. 3
        /\ first + 1 - 1 = 2 /\ first + 2 - 1 = 3 /\ first + 3 - 1 = 4
    BY <1>13 DEF first
  <2>2. kept[1] = a[2] /\ kept[2] = a[3] /\ kept[3] = a[4]
    BY <1>10, <1>13, <2>1
  <2>3. a[2] = s[2] /\ a[3] = s[3] /\ a[4] = x
    BY <1>2, <1>13
  <2> QED  BY <1>9, <1>10, <1>13, <2>2, <2>3 DEF kept, a
<1> QED  BY <1>11, <1>12, <1>13

\* A register is pushed as the sequence grows.
LEMMA LastThreePushed ==
    ASSUME NEW register, NEW given, given # <<>>, LastThreeOf(register, given), NEW x \in Int
    PROVE  LastThreeOf(Pushed(register, x), LastOf(Append(given, x), 3)) /\ LastOf(Append(given, x), 3) # <<>>
<1> DEFINE n == Len(given)
           kept == LastOf(Append(given, x), 3)
           pushed == Pushed(register, x)
<1>1. given \in Seq(Int) /\ n \in 1 .. 3
  <2>1. given \in Seq(Int) /\ n <= 3
    BY DEF LastThreeOf
  <2>2. n \in Nat \ {0}
    BY <2>1, EmptySeq
  <2> HIDE DEF n
  <2> QED  BY <2>1, <2>2
<1>2. PICK a \in Int, b \in Int, c \in Int : register = <<a, b, c>>
  BY DEF LastThreeOf
<1>3. pushed = <<x, a, b>>
  BY <1>2 DEF Pushed
<1>4. a = given[n] /\ b = given[IF 2 < n THEN n - 1 ELSE 1]
  <2>1. \A i \in 1 .. 3 : register[i] = given[IF i < n THEN n + 1 - i ELSE 1]
    BY DEF LastThreeOf, LastThree
  <2>2. register[1] = a /\ register[2] = b
    BY <1>2
  <2>3. 1 \in 1 .. 3 /\ 2 \in 1 .. 3
    OBVIOUS
  <2>4. /\ register[1] = given[IF 1 < n THEN n + 1 - 1 ELSE 1]
        /\ register[2] = given[IF 2 < n THEN n + 1 - 2 ELSE 1]
    BY <2>1, <2>3, Zenon
  <2>5. (IF 1 < n THEN n + 1 - 1 ELSE 1) = n /\ n + 1 - 2 = n - 1
    <3> HIDE DEF n
    <3> QED  BY <1>1
  <2> QED  BY <2>2, <2>4, <2>5
<1>5. /\ kept \in Seq(Int) /\ Len(kept) = (IF n = 3 THEN 3 ELSE n + 1)
      /\ n = 1 => kept[1] = given[1] /\ kept[2] = x
      /\ n = 2 => kept[1] = given[1] /\ kept[2] = given[2] /\ kept[3] = x
      /\ n = 3 => kept[1] = given[2] /\ kept[2] = given[3] /\ kept[3] = x
  BY <1>1, LastThreeKept
<1>6. pushed[1] = x /\ pushed[2] = a /\ pushed[3] = b
  BY <1>3
<1>7. kept # <<>>
  <2>1. Len(<<>>) = 0
    BY EmptySeq
  <2>2. Len(kept) # 0
    BY <1>1, <1>5
  <2> QED  BY <2>1, <2>2
<1>8. \A i \in 1 .. 3 : pushed[i] = kept[IF i < Len(kept) THEN Len(kept) + 1 - i ELSE 1]
  <2> HIDE DEF kept, pushed, n
  <2>1. CASE n = 1
    <3>1. a = given[1] /\ b = given[1]
      BY <1>4, <2>1
    <3>2. Len(kept) = 2 /\ kept[1] = given[1] /\ kept[2] = x
      BY <1>5, <2>1
    <3> QED  BY <1>6, <3>1, <3>2
  <2>2. CASE n = 2
    <3>1. a = given[2] /\ b = given[1]
      BY <1>4, <2>2
    <3>2. Len(kept) = 3 /\ kept[1] = given[1] /\ kept[2] = given[2] /\ kept[3] = x
      BY <1>5, <2>2
    <3> QED  BY <1>6, <3>1, <3>2
  <2>3. CASE n = 3
    <3>1. a = given[3] /\ b = given[2]
      BY <1>4, <2>3
    <3>2. Len(kept) = 3 /\ kept[1] = given[2] /\ kept[2] = given[3] /\ kept[3] = x
      BY <1>5, <2>3
    <3> QED  BY <1>6, <3>1, <3>2
  <2> QED  BY <1>1, <2>1, <2>2, <2>3
<1>9. Len(kept) <= 3
  <2> HIDE DEF kept, n
  <2> QED  BY <1>1, <1>5
<1> HIDE DEF kept, pushed
<1>10. LastThreeOf(pushed, kept)
  <2>1. LastThree(pushed, kept)
    BY <1>8 DEF LastThree
  <2>2. \E d, e, f \in Int : pushed = <<d, e, f>>
    BY <1>3
  <2> QED  BY <1>5, <1>9, <2>1, <2>2, Zenon DEF LastThreeOf
<1> QED  BY <1>7, <1>10 DEF kept, pushed

\* The first one stands for three.
LEMMA LastThreeStarted ==
    ASSUME NEW x \in Int
    PROVE  LastThreeOf(<<x, x, x>>, LastOf(Append(<<>>, x), 3)) /\ LastOf(Append(<<>>, x), 3) # <<>>
<1> DEFINE kept == LastOf(Append(<<>>, x), 3)
           register == <<x, x, x>>
<1>1. kept = <<x>>
  <2>1. Append(<<>>, x) = <<x>> /\ Len(<<x>>) = 1
    OBVIOUS
  <2>2. kept = SubSeq(<<x>>, 1, 1)
    BY <2>1 DEF LastOf
  <2> QED  BY <2>2
<1>2. <<x>> \in Seq(Int) /\ Len(<<x>>) = 1 /\ <<x>>[1] = x /\ <<x>> # <<>>
  OBVIOUS
<1>3. kept \in Seq(Int) /\ Len(kept) = 1 /\ kept[1] = x /\ kept # <<>>
  <2> HIDE DEF kept
  <2> QED  BY <1>1, <1>2
<1>4. register[1] = x /\ register[2] = x /\ register[3] = x
  OBVIOUS
<1>5. \E a, b, c \in Int : register = <<a, b, c>>
  OBVIOUS
<1> HIDE DEF kept, register
<1>6. LastThree(register, kept)
  BY <1>3, <1>4 DEF LastThree
<1>7. LastThreeOf(register, kept)
  <2>1. Len(kept) <= 3
    BY <1>3
  <2> QED  BY <1>3, <1>5, <1>6, <2>1, Zenon DEF LastThreeOf
<1> QED  BY <1>3, <1>7 DEF kept, register

\* The filters that give what they computed last keep true to what it was computed from.
SecondOrderInv ==
    /\ object = [class |-> "SecondOrder", value |-> object.value, hasBeenCalled |-> object.hasBeenCalled,
                 frequency |-> object.frequency, damping |-> object.damping,
                 coefficients |-> object.coefficients, input |-> object.input, output |-> object.output]
    /\ past = [call |-> past.call, elsewhere |-> past.elsewhere, inputs |-> past.inputs,
               outputs |-> past.outputs]
    /\ \E type, frequency, damping :
          /\ object.coefficients = <<type, frequency, damping>>
          /\ past.elsewhere \/ (frequency = object.frequency /\ damping = object.damping)
    /\ LastThreeOf(object.input, past.inputs) /\ LastThreeOf(object.output, past.outputs)
    /\ object.hasBeenCalled <=> past.inputs # <<>>
    /\ object.hasBeenCalled <=> past.outputs # <<>>

\* AlphaBasedOnBreakFrequencyProvider: the frequency it remembers is that of its alpha
AlphaProviderInv ==
    /\ object = [class |-> "AlphaProvider", previous |-> object.previous, alphaOf |-> object.alphaOf]
    /\ past = [call |-> past.call, frequency |-> past.frequency]
    /\ object.previous \subseteq {object.alphaOf}
    /\ Updated => object.alphaOf = past.frequency

\* Coefficients computed anew are those of the parameters.
LEMMA ComputedProperties ==
    ASSUME NEW filter, NEW class, NEW value, NEW called, NEW frequency, NEW damping, NEW input, NEW output,
           NEW type, NEW f, NEW d,
           filter = [class |-> class, value |-> value, hasBeenCalled |-> called, frequency |-> frequency,
                     damping |-> damping, coefficients |-> <<type, f, d>>, input |-> input, output |-> output]
    PROVE  Computed(filter) =
               [class |-> class, value |-> value, hasBeenCalled |-> called, frequency |-> frequency,
                damping |-> damping, coefficients |-> <<type, frequency, damping>>, input |-> input,
                output |-> output]
<1>1. filter.frequency = frequency /\ filter.damping = damping /\ filter.coefficients[1] = type
  OBVIOUS
<1>2. Computed(filter) = [filter EXCEPT !.coefficients = <<filter.coefficients[1], filter.frequency, filter.damping>>]
  BY DEF Computed
<1>3. Computed(filter) = [filter EXCEPT !.coefficients = <<type, frequency, damping>>]
  BY <1>1, <1>2
<1> QED  BY <1>3

\* The calls of a second-order filter
LEMMA SecondOrderSteps ==
    ASSUME SecondOrderInv,
           \/ \E input, output \in SmoothedInputs : UpdateSecondOrder(input, output)
           \/ \E frequency \in Frequencies : SetNaturalFrequency(frequency)
           \/ \E damping \in DampingRatios : SetDampingRatio(damping)
           \/ \E frequency \in Frequencies, damping \in DampingRatios : ParametersChanged(frequency, damping)
           \/ ResetSecondOrder
    PROVE  SecondOrderInv'
<1> DEFINE value == object.value
           called == object.hasBeenCalled
           frequency == object.frequency
           damping == object.damping
           input == object.input
           output == object.output
           call == past.call
           elsewhere == past.elsewhere
           inputs == past.inputs
           outputs == past.outputs
<1>0. PICK type, f, d :
         /\ object.coefficients = <<type, f, d>>
         /\ past.elsewhere \/ (f = object.frequency /\ d = object.damping)
  BY DEF SecondOrderInv
<1>1. /\ object = [class |-> "SecondOrder", value |-> value, hasBeenCalled |-> called,
                   frequency |-> frequency, damping |-> damping,
                   coefficients |-> <<type, f, d>>, input |-> input, output |-> output]
      /\ past = [call |-> call, elsewhere |-> elsewhere, inputs |-> inputs, outputs |-> outputs]
      /\ elsewhere \/ (f = frequency /\ d = damping)
      /\ LastThreeOf(input, inputs) /\ LastThreeOf(output, outputs)
      /\ called <=> inputs # <<>>
      /\ called <=> outputs # <<>>
  BY <1>0 DEF SecondOrderInv
<1>10. /\ object.hasBeenCalled = called /\ object.input = input /\ object.output = output
      /\ past.inputs = inputs /\ past.outputs = outputs
  OBVIOUS
<1> HIDE DEF value, called, frequency, damping, input, output, call, elsewhere, inputs, outputs
<1>2. ASSUME NEW newValue, NEW newCalled, NEW newFrequency, NEW newDamping, NEW t, NEW newF, NEW newD,
             NEW newInput, NEW newOutput, NEW newCall, NEW newElsewhere, NEW newInputs, NEW newOutputs,
             object' = [class |-> "SecondOrder", value |-> newValue, hasBeenCalled |-> newCalled,
                        frequency |-> newFrequency, damping |-> newDamping,
                        coefficients |-> <<t, newF, newD>>, input |-> newInput, output |-> newOutput],
             past' = [call |-> newCall, elsewhere |-> newElsewhere, inputs |-> newInputs,
                      outputs |-> newOutputs],
             newElsewhere \/ (newF = newFrequency /\ newD = newDamping),
             LastThreeOf(newInput, newInputs), LastThreeOf(newOutput, newOutputs),
             newCalled <=> newInputs # <<>>, newCalled <=> newOutputs # <<>>
      PROVE  SecondOrderInv'
  <2>1. /\ object'.value = newValue /\ object'.hasBeenCalled = newCalled
        /\ object'.frequency = newFrequency /\ object'.damping = newDamping
        /\ object'.coefficients = <<t, newF, newD>> /\ object'.input = newInput
        /\ object'.output = newOutput
    BY <1>2
  <2>2. /\ past'.call = newCall /\ past'.elsewhere = newElsewhere /\ past'.inputs = newInputs
        /\ past'.outputs = newOutputs
    BY <1>2
  <2>3. \E tt, ff, dd : /\ object'.coefficients = <<tt, ff, dd>>
                        /\ past'.elsewhere \/ (ff = object'.frequency /\ dd = object'.damping)
    BY <1>2, <2>1, <2>2, Zenon
  <2>4. LastThreeOf(object'.input, past'.inputs) /\ LastThreeOf(object'.output, past'.outputs)
    BY <1>2, <2>1, <2>2
  <2>5. /\ object'.hasBeenCalled <=> past'.inputs # <<>>
        /\ object'.hasBeenCalled <=> past'.outputs # <<>>
    BY <1>2, <2>1, <2>2
  <2>6. object' = [class |-> "SecondOrder", value |-> object'.value, hasBeenCalled |-> object'.hasBeenCalled,
                   frequency |-> object'.frequency, damping |-> object'.damping,
                   coefficients |-> object'.coefficients, input |-> object'.input,
                   output |-> object'.output]
    BY <1>2, <2>1
  <2>7. past' = [call |-> past'.call, elsewhere |-> past'.elsewhere, inputs |-> past'.inputs,
                 outputs |-> past'.outputs]
    BY <1>2, <2>2
  <2> QED  BY <2>3, <2>4, <2>5, <2>6, <2>7, Zenon DEF SecondOrderInv
<1>3. LastThreeOf(input, <<>>) /\ LastThreeOf(output, <<>>)
  BY EmptySeq DEF LastThreeOf, LastThree
<1>4. ASSUME NEW i \in SmoothedInputs, NEW o \in SmoothedInputs, UpdateSecondOrder(i, o)
      PROVE  SecondOrderInv'
  <2> DEFINE v == IF called THEN o ELSE i
             newInput == IF called THEN Pushed(input, i) ELSE <<i, i, i>>
             newOutput == IF called THEN Pushed(output, o) ELSE <<i, i, i>>
             newInputs == LastOf(Append(inputs, i), 3)
             newOutputs == LastOf(Append(outputs, v), 3)
  <2>1. i \in Int /\ o \in Int
    BY SmoothingAssumption
  <2>3. /\ object' = [object EXCEPT !.hasBeenCalled = TRUE, !.value = v, !.input = newInput,
                                    !.output = newOutput]
        /\ past' = [past EXCEPT !.call = "update", !.inputs = newInputs, !.outputs = newOutputs]
    BY <1>4, <1>10 DEF UpdateSecondOrder, Keeps
  <2>4. /\ LastThreeOf(newInput, newInputs) /\ newInputs # <<>>
        /\ LastThreeOf(newOutput, newOutputs) /\ newOutputs # <<>>
    <3>1. CASE called
      <4>1. inputs # <<>> /\ outputs # <<>>
        BY <1>1, <3>1
      <4> QED  BY <1>1, <2>1, <3>1, <4>1, LastThreePushed
    <3>2. CASE ~called
      <4>1. inputs = <<>> /\ outputs = <<>>
        BY <1>1, <3>2
      <4> QED  BY <2>1, <3>2, <4>1, LastThreeStarted
    <3> QED  BY <3>1, <3>2
  <2> HIDE DEF v, newInput, newOutput, newInputs, newOutputs
  <2>5. object' = [class |-> "SecondOrder", value |-> v, hasBeenCalled |-> TRUE,
                   frequency |-> frequency, damping |-> damping,
                   coefficients |-> <<type, f, d>>, input |-> newInput, output |-> newOutput]
    BY <1>1, <2>3
  <2>6. past' = [call |-> "update", elsewhere |-> elsewhere, inputs |-> newInputs, outputs |-> newOutputs]
    BY <1>1, <2>3
  <2> QED  BY <1>1, <1>2, <2>4, <2>5, <2>6
<1>5. ASSUME NEW newFrequency, NEW newDamping,
             object' = Computed([object EXCEPT !.frequency = newFrequency, !.damping = newDamping]),
             past' = [past EXCEPT !.call = "other", !.elsewhere = FALSE]
      PROVE  SecondOrderInv'
  <2> DEFINE o == [object EXCEPT !.frequency = newFrequency, !.damping = newDamping]
  <2>4. o = [object EXCEPT !.frequency = newFrequency, !.damping = newDamping]
    OBVIOUS
  <2>5. object' = Computed(o)
    BY <1>5
  <2> HIDE DEF o
  <2>1. o = [class |-> "SecondOrder", value |-> value, hasBeenCalled |-> called,
             frequency |-> newFrequency, damping |-> newDamping,
             coefficients |-> <<type, f, d>>, input |-> input, output |-> output]
    BY <1>1, <2>4
  <2>2. object' = [class |-> "SecondOrder", value |-> value, hasBeenCalled |-> called,
                   frequency |-> newFrequency, damping |-> newDamping,
                   coefficients |-> <<type, newFrequency, newDamping>>, input |-> input, output |-> output]
    BY <2>5, <2>1, ComputedProperties
  <2>3. past' = [call |-> "other", elsewhere |-> FALSE, inputs |-> inputs, outputs |-> outputs]
    BY <1>1, <1>5
  <2> QED  BY <1>1, <1>2, <2>2, <2>3
<1>6. ASSUME NEW newFrequency \in Frequencies, SetNaturalFrequency(newFrequency) PROVE SecondOrderInv'
  <2> DEFINE clamped == clamp(newFrequency, 0, MaxFrequency)
  <2>1. /\ object' = Computed([object EXCEPT !.frequency = clamped])
        /\ past' = [past EXCEPT !.call = "other", !.elsewhere = FALSE]
    BY <1>6 DEF SetNaturalFrequency
  <2> HIDE DEF clamped
  <2>2. [object EXCEPT !.frequency = clamped] = [object EXCEPT !.frequency = clamped, !.damping = damping]
    <3> DEFINE o == [object EXCEPT !.frequency = clamped]
               p == [object EXCEPT !.frequency = clamped, !.damping = damping]
    <3>1. o = [object EXCEPT !.frequency = clamped] /\ p = [object EXCEPT !.frequency = clamped, !.damping = damping]
      OBVIOUS
    <3> HIDE DEF o, p
    <3>2. o = [class |-> "SecondOrder", value |-> value, hasBeenCalled |-> called,
               frequency |-> clamped, damping |-> damping,
               coefficients |-> <<type, f, d>>, input |-> input, output |-> output]
      BY <1>1, <3>1
    <3>3. p = [class |-> "SecondOrder", value |-> value, hasBeenCalled |-> called,
               frequency |-> clamped, damping |-> damping,
               coefficients |-> <<type, f, d>>, input |-> input, output |-> output]
      BY <1>1, <3>1
    <3> QED  BY <3>2, <3>3 DEF o, p
  <2> QED  BY <1>5, <2>1, <2>2
<1>7. ASSUME NEW newDamping \in DampingRatios, SetDampingRatio(newDamping) PROVE SecondOrderInv'
  <2> DEFINE clamped == Max({newDamping, 0})
  <2>1. /\ object' = Computed([object EXCEPT !.damping = clamped])
        /\ past' = [past EXCEPT !.call = "other", !.elsewhere = FALSE]
    BY <1>7 DEF SetDampingRatio
  <2> HIDE DEF clamped
  <2>2. [object EXCEPT !.damping = clamped] = [object EXCEPT !.frequency = frequency, !.damping = clamped]
    <3> DEFINE o == [object EXCEPT !.damping = clamped]
               p == [object EXCEPT !.frequency = frequency, !.damping = clamped]
    <3>1. o = [object EXCEPT !.damping = clamped] /\ p = [object EXCEPT !.frequency = frequency, !.damping = clamped]
      OBVIOUS
    <3> HIDE DEF o, p
    <3>2. o = [class |-> "SecondOrder", value |-> value, hasBeenCalled |-> called,
               frequency |-> frequency, damping |-> clamped,
               coefficients |-> <<type, f, d>>, input |-> input, output |-> output]
      BY <1>1, <3>1
    <3>3. p = [class |-> "SecondOrder", value |-> value, hasBeenCalled |-> called,
               frequency |-> frequency, damping |-> clamped,
               coefficients |-> <<type, f, d>>, input |-> input, output |-> output]
      BY <1>1, <3>1
    <3> QED  BY <3>2, <3>3 DEF o, p
  <2> QED  BY <1>5, <2>1, <2>2
<1>8. ASSUME NEW newFrequency \in Frequencies, NEW newDamping \in DampingRatios,
             ParametersChanged(newFrequency, newDamping)
      PROVE  SecondOrderInv'
  <2>1. /\ object' = [object EXCEPT !.frequency = newFrequency, !.damping = newDamping]
        /\ past' = [past EXCEPT !.call = "other", !.elsewhere = TRUE]
    BY <1>8 DEF ParametersChanged
  <2>2. object' = [class |-> "SecondOrder", value |-> value, hasBeenCalled |-> called,
                   frequency |-> newFrequency, damping |-> newDamping,
                   coefficients |-> <<type, f, d>>, input |-> input, output |-> output]
    BY <1>1, <2>1
  <2>3. past' = [call |-> "other", elsewhere |-> TRUE, inputs |-> inputs, outputs |-> outputs]
    BY <1>1, <2>1
  <2> QED  BY <1>1, <1>2, <2>2, <2>3
<1>9. ASSUME ResetSecondOrder PROVE SecondOrderInv'
  <2>1. /\ object' = Computed([object EXCEPT !.hasBeenCalled = FALSE])
        /\ past' = [call |-> "reset", elsewhere |-> FALSE, inputs |-> <<>>, outputs |-> <<>>]
    BY <1>9 DEF ResetSecondOrder
  <2> DEFINE never == FALSE
             o == [object EXCEPT !.hasBeenCalled = never]
  <2>4. o = [object EXCEPT !.hasBeenCalled = never] /\ ~never
    OBVIOUS
  <2>5. object' = Computed(o)
    BY <2>1
  <2> HIDE DEF o, never
  <2>2. o = [class |-> "SecondOrder", value |-> value, hasBeenCalled |-> never,
             frequency |-> frequency, damping |-> damping,
             coefficients |-> <<type, f, d>>, input |-> input, output |-> output]
    BY <1>1, <2>4
  <2>3. object' = [class |-> "SecondOrder", value |-> value, hasBeenCalled |-> never,
                   frequency |-> frequency, damping |-> damping,
                   coefficients |-> <<type, frequency, damping>>, input |-> input, output |-> output]
    BY <2>5, <2>2, ComputedProperties
  <2> QED  BY <1>2, <1>3, <2>4, <2>1, <2>3
<1> QED  BY <1>4, <1>6, <1>7, <1>8, <1>9

\* AlphaBasedOnBreakFrequencyProvider::getValue
LEMMA AlphaProviderSteps ==
    ASSUME AlphaProviderInv, NEW frequency \in Frequencies, GetAlpha(frequency)
    PROVE  AlphaProviderInv'
<1>1. PICK previous, alphaOf : object = [class |-> "AlphaProvider", previous |-> previous, alphaOf |-> alphaOf]
  BY Zenon DEF AlphaProviderInv
<1>2. object.previous = previous /\ object.alphaOf = alphaOf /\ previous \subseteq {alphaOf}
  BY <1>1 DEF AlphaProviderInv
<1>3. past' = [call |-> "update", frequency |-> frequency]
  BY DEF GetAlpha
<1>4. past'.frequency = frequency /\ past' = [call |-> past'.call, frequency |-> past'.frequency]
  BY <1>3
<1>5. CASE frequency \in previous
  <2>1. object' = object /\ alphaOf = frequency
    BY <1>2, <1>5 DEF GetAlpha
  <2> QED  BY <1>2, <1>4, <2>1 DEF AlphaProviderInv, Updated
<1>6. CASE frequency \notin previous
  <2>1. object' = [class |-> "AlphaProvider", previous |-> {frequency}, alphaOf |-> frequency]
    BY <1>1, <1>2, <1>6 DEF GetAlpha
  <2>2. object'.previous = {frequency} /\ object'.alphaOf = frequency
    BY <2>1
  <2>3. object' = [class |-> "AlphaProvider", previous |-> object'.previous, alphaOf |-> object'.alphaOf]
    BY <2>1, <2>2
  <2> QED  BY <1>4, <2>2, <2>3 DEF AlphaProviderInv
<1> QED  BY <1>5, <1>6

\* Every class has its own part of the invariant.
SmoothingInv ==
    \/ AlphaInv \/ ButterworthInv \/ FirstOrderInv \/ BandPassInv \/ WrappingInv
    \/ SecondOrderInv \/ AlphaProviderInv

\* The class of an object tells its part.
LEMMA SmoothingClasses ==
    /\ AlphaInv => object.class = "AlphaFiltered"
    /\ ButterworthInv => object.class = "Butterworth"
    /\ FirstOrderInv => object.class = "FirstOrder"
    /\ BandPassInv => object.class = "BandPass"
    /\ WrappingInv => object.class = "Wrapping"
    /\ SecondOrderInv => object.class = "SecondOrder"
    /\ AlphaProviderInv => object.class = "AlphaProvider"
<1>1. AlphaInv => object.class = "AlphaFiltered"
  BY DEF AlphaInv, AlphaFilters
<1>2. ButterworthInv => object.class = "Butterworth"
  BY DEF ButterworthInv, Butterworths
<1>3. FirstOrderInv => object.class = "FirstOrder"
  BY DEF FirstOrderInv, FirstOrders
<1>4. BandPassInv => object.class = "BandPass"
  BY DEF BandPassInv
<1>5. WrappingInv => object.class = "Wrapping"
  BY DEF WrappingInv, Wrappings
<1>6. SecondOrderInv => object.class = "SecondOrder"
  BY DEF SecondOrderInv
<1>7. AlphaProviderInv => object.class = "AlphaProvider"
  BY DEF AlphaProviderInv
<1> QED  BY <1>1, <1>2, <1>3, <1>4, <1>5, <1>6, <1>7

\* Every call keeps to the part of its class.
LEMMA SmoothingSteps ==
    ASSUME SmoothingInv, SmoothingNext
    PROVE  SmoothingInv' /\ WrapsNow
<1> SUFFICES SmoothingInv' /\ (Is("Wrapping") => WrapsNow)
  BY DEF WrapsNow
<1>1. ASSUME NEW input \in SmoothedInputs, UpdateAlpha(input)
      PROVE  SmoothingInv' /\ ~Is("Wrapping")
  <2>1. object.class = "AlphaFiltered"
    BY <1>1 DEF UpdateAlpha, Is
  <2>2. AlphaInv
    BY <2>1, SmoothingClasses DEF SmoothingInv
  <2>3. AlphaInv'
    BY <1>1, <2>2, AlphaSteps
  <2> QED  BY <2>1, <2>3 DEF SmoothingInv, Is
<1>2. ASSUME NEW input \in SmoothedInputs, UpdateButterworth(input)
      PROVE  SmoothingInv' /\ ~Is("Wrapping")
  <2>1. object.class = "Butterworth"
    BY <1>2 DEF UpdateButterworth, Is
  <2>2. ButterworthInv
    BY <2>1, SmoothingClasses DEF SmoothingInv
  <2>3. ButterworthInv'
    BY <1>2, <2>2, ButterworthSteps
  <2> QED  BY <2>1, <2>3 DEF SmoothingInv, Is
<1>3. ASSUME \/ \E input \in SmoothedInputs, time \in Clock : UpdateFirstOrder(input, time)
             \/ \E cutoff \in Cutoffs : SetCutoffFrequency(cutoff)
      PROVE  SmoothingInv' /\ ~Is("Wrapping")
  <2>1. object.class = "FirstOrder"
    BY <1>3 DEF UpdateFirstOrder, SetCutoffFrequency, Is
  <2>2. FirstOrderInv
    BY <2>1, SmoothingClasses DEF SmoothingInv
  <2>3. FirstOrderInv'
    BY <1>3, <2>2, FirstOrderSteps, CutoffSteps
  <2> QED  BY <2>1, <2>3 DEF SmoothingInv, Is
<1>4. ASSUME \/ \E input \in SmoothedInputs, time \in Clock : UpdateBandPass(input, time)
             \/ ResetBandPass \/ \E min, max \in Cutoffs : SetPassBand(min, max)
      PROVE  SmoothingInv' /\ ~Is("Wrapping")
  <2>1. object.class = "BandPass"
    BY <1>4 DEF UpdateBandPass, ResetBandPass, SetPassBand, Is
  <2>2. BandPassInv
    BY <2>1, SmoothingClasses DEF SmoothingInv
  <2>3. BandPassInv'
    BY <1>4, <2>2, BandPassSteps
  <2> QED  BY <2>1, <2>3 DEF SmoothingInv, Is
<1>5. ASSUME \/ \E input, unfiltered \in WrapInputs : UpdateWrapping(input, unfiltered)
             \/ ResetWrapping
      PROVE  SmoothingInv' /\ WrapsNow
  <2>1. object.class = "Wrapping"
    BY <1>5 DEF UpdateWrapping, ResetWrapping, Is
  <2>2. WrappingInv
    BY <2>1, SmoothingClasses DEF SmoothingInv
  <2>3. WrappingInv' /\ WrapsNow
    BY <1>5, <2>2, WrappingSteps
  <2> QED  BY <2>3 DEF SmoothingInv
<1>6. ASSUME \/ \E input, output \in SmoothedInputs : UpdateSecondOrder(input, output)
             \/ \E frequency \in Frequencies : SetNaturalFrequency(frequency)
             \/ \E damping \in DampingRatios : SetDampingRatio(damping)
             \/ \E frequency \in Frequencies, damping \in DampingRatios :
                   ParametersChanged(frequency, damping)
             \/ ResetSecondOrder
      PROVE  SmoothingInv' /\ ~Is("Wrapping")
  <2>1. object.class = "SecondOrder"
    BY <1>6 DEF UpdateSecondOrder, SetNaturalFrequency, SetDampingRatio, ParametersChanged,
                ResetSecondOrder, Is
  <2>2. SecondOrderInv
    BY <2>1, SmoothingClasses DEF SmoothingInv
  <2>3. SecondOrderInv'
    BY <1>6, <2>2, SecondOrderSteps
  <2> QED  BY <2>1, <2>3 DEF SmoothingInv, Is
<1>7. ASSUME NEW frequency \in Frequencies, GetAlpha(frequency)
      PROVE  SmoothingInv' /\ ~Is("Wrapping")
  <2>1. object.class = "AlphaProvider"
    BY <1>7 DEF GetAlpha, Is
  <2>2. AlphaProviderInv
    BY <2>1, SmoothingClasses DEF SmoothingInv
  <2>3. AlphaProviderInv'
    BY <1>7, <2>2, AlphaProviderSteps
  <2> QED  BY <2>1, <2>3 DEF SmoothingInv, Is
<1>8. ASSUME ResetSmoothing
      PROVE  SmoothingInv' /\ ~Is("Wrapping")
  <2>1. object.class \in {"AlphaFiltered", "Butterworth", "FirstOrder"}
    BY <1>8 DEF ResetSmoothing
  <2>2. AlphaInv \/ ButterworthInv \/ FirstOrderInv
    BY <2>1, SmoothingClasses DEF SmoothingInv
  <2>3. AlphaInv' \/ ButterworthInv' \/ FirstOrderInv'
    BY <1>8, <2>2, ResetSmoothingSteps
  <2> QED  BY <2>1, <2>3 DEF SmoothingInv, Is
<1> QED  BY <1>1, <1>2, <1>3, <1>4, <1>5, <1>6, <1>7, <1>8 DEF SmoothingNext

\* Objects as they are constructed
LEMMA SmoothingInitInv == SmoothingInit => SmoothingInv
<1> SUFFICES ASSUME SmoothingInit PROVE SmoothingInv
  OBVIOUS
<1>0. FALSE \in BOOLEAN /\ TRUE \in BOOLEAN /\ 0 \in Int /\ {} \in SUBSET Int
  OBVIOUS
<1>1. ASSUME past = Unstarted
      PROVE  past \in MixedPasts /\ HasEnds(past.inputs) /\ past.starts = TRUE /\ ~Updated /\ past.inputs = {}
  <2>1. past = [call |-> "reset", starts |-> TRUE, inputs |-> {}, input |-> 0, time |-> 0]
    BY <1>1 DEF Unstarted
  <2>2. past \in MixedPasts
    BY <1>0, <2>1, Zenon DEF MixedPasts
  <2>3. past.call = "reset" /\ past.starts = TRUE /\ past.inputs = {}
    BY <2>1
  <2> QED  BY <2>2, <2>3 DEF HasEnds, Updated
<1>2. ASSUME past = Unstarted, object = NewAlphaFiltered PROVE AlphaInv
  <2>1. object \in AlphaFilters
    BY <1>0, <1>2, Zenon DEF NewAlphaFiltered, AlphaFilters
  <2>2. object.hasBeenCalled = FALSE
    BY <1>2 DEF NewAlphaFiltered
  <2> QED  BY <1>1, <1>2, <2>1, <2>2 DEF AlphaInv, Mixture
<1>3. ASSUME past = Unstarted, NEW type \in Types, object = NewButterworth(type) PROVE ButterworthInv
  <2>1. object \in Butterworths
    BY <1>0, <1>3, Zenon DEF NewButterworth, Butterworths
  <2>2. object.hasBeenCalled = FALSE
    BY <1>3 DEF NewButterworth
  <2> QED  BY <1>1, <1>3, <2>1, <2>2 DEF ButterworthInv, Mixture
<1>4. ASSUME NEW type \in Types, NEW cutoff \in Cutoffs, NEW hasClock \in BOOLEAN
      PROVE  /\ NewFirstOrder(type, cutoff, hasClock) \in FirstOrders
             /\ NewFirstOrder(type, cutoff, hasClock).hasBeenCalled = FALSE
             /\ NewFirstOrder(type, cutoff, hasClock).type = type
             /\ NewFirstOrder(type, cutoff, hasClock).value = 0
             /\ NewFirstOrder(type, cutoff, hasClock).filterInputOld = 0
  <2> DEFINE dt == IF hasClock THEN 0 ELSE 1
             new == NewFirstOrder(type, cutoff, hasClock)
  <2>1. dt \in Int /\ 0 \in Int /\ cutoff \in Int
    BY SmoothingAssumption
  <2>2. new = [class |-> "FirstOrder", type |-> type, value |-> 0, hasBeenCalled |-> FALSE,
               cutoffFrequency |-> cutoff, filterInputOld |-> 0, filterUpdateTimeOld |-> 0,
               hasClock |-> hasClock, dt |-> dt]
    BY Zenon DEF NewFirstOrder
  <2> HIDE DEF dt, new
  <2>3. new \in FirstOrders
    BY <1>0, <2>1, <2>2, Zenon DEF FirstOrders
  <2>4. new.hasBeenCalled = FALSE /\ new.type = type /\ new.value = 0 /\ new.filterInputOld = 0
    BY <2>2
  <2> QED  BY <2>3, <2>4 DEF new
<1>5. ASSUME past = Unstarted, NEW type \in Types, NEW cutoff \in Cutoffs, NEW hasClock \in BOOLEAN,
             object = NewFirstOrder(type, cutoff, hasClock)
      PROVE  FirstOrderInv
  <2>1. object \in FirstOrders /\ object.hasBeenCalled = FALSE
    BY <1>4, <1>5
  <2> QED  BY <1>1, <1>5, <2>1 DEF FirstOrderInv, Mixture
<1>6. ASSUME past = Unstarted, NEW min \in Cutoffs, NEW max \in Cutoffs, NEW hasClock \in BOOLEAN,
             object = NewBandPass(min, max, hasClock)
      PROVE  BandPassInv
  <2> DEFINE low == NewFirstOrder("LOW_PASS", max, hasClock)
             high == NewFirstOrder("HIGH_PASS", min, hasClock)
  <2>1. object = [class |-> "BandPass", hasBeenCalled |-> FALSE, low |-> low, high |-> high]
    BY <1>6 DEF NewBandPass
  <2>2. "LOW_PASS" \in Types /\ "HIGH_PASS" \in Types
    BY DEF Types
  <2>3. /\ low \in FirstOrders /\ low.type = "LOW_PASS" /\ low.value = 0
        /\ high \in FirstOrders /\ high.type = "HIGH_PASS" /\ high.value = 0 /\ high.filterInputOld = 0
    BY <1>4, <2>2, Zenon
  <2> HIDE DEF low, high
  <2>4. object.low = low /\ object.high = high /\ object.hasBeenCalled = FALSE
    BY <2>1
  <2>5. object = [class |-> "BandPass", hasBeenCalled |-> object.hasBeenCalled, low |-> object.low,
                  high |-> object.high]
    BY <2>1, <2>4, Zenon
  <2>6. past \in MixedPasts /\ HasEnds(past.inputs) /\ past.inputs = {}
    BY <1>1, <1>6
  <2>7. Within(0, {0}) /\ WithinSpread(0, {0}) /\ 0 - 0 = 0
    BY DEF Within, WithinSpread
  <2>8. Within(high.filterInputOld, {0}) /\ Within(high.filterInputOld - high.value, {0})
    BY <2>3, <2>7
  <2>9. WithinSpread(low.value, {0})
    BY <2>3, <2>7
  <2>10. past.inputs \cup {0} = {0}
    BY <2>6
  <2>11. Band(high, low, {0})
    BY <2>3, <2>8, <2>9, Zenon DEF Band
  <2> QED  BY <2>4, <2>5, <2>6, <2>10, <2>11, Zenon DEF BandPassInv
<1>7. ASSUME object = NewWrapping, past = [call |-> "reset", input |-> 0, ignored |-> {}] PROVE WrappingInv
  <2>1. object \in Wrappings /\ past \in WrappingPasts
    BY <1>0, <1>7, Zenon DEF NewWrapping, Wrappings, WrappingPasts
  <2>2. object.hasBeenCalled = FALSE
    BY <1>7 DEF NewWrapping
  <2> QED  BY <2>1, <2>2 DEF WrappingInv
<1>8. ASSUME NEW type, NEW frequency, NEW damping, object = NewSecondOrder(type, frequency, damping),
             past = [call |-> "reset", elsewhere |-> FALSE, inputs |-> <<>>, outputs |-> <<>>]
      PROVE  SecondOrderInv
  <2> DEFINE never == FALSE
             none == <<0, 0, 0>>
             empty == <<>>
             o == [class |-> "SecondOrder", value |-> 0, hasBeenCalled |-> never,
                   frequency |-> frequency, damping |-> damping, coefficients |-> <<type, 0, 0>>,
                   input |-> none, output |-> none]
  <2>1. ~never
    OBVIOUS
  <2>2. object = Computed(o)
    BY <1>8 DEF NewSecondOrder
  <2>3. past = [call |-> "reset", elsewhere |-> never, inputs |-> empty, outputs |-> empty]
    BY <1>8
  <2>4. LastThreeOf(none, empty)
    BY EmptySeq DEF LastThreeOf, LastThree
  <2>5. empty = <<>>
    OBVIOUS
  <2>6. o = [class |-> "SecondOrder", value |-> 0, hasBeenCalled |-> never,
             frequency |-> frequency, damping |-> damping, coefficients |-> <<type, 0, 0>>,
             input |-> none, output |-> none]
    OBVIOUS
  <2> HIDE DEF never, none, empty, o
  <2>7. object = [class |-> "SecondOrder", value |-> 0, hasBeenCalled |-> never,
                  frequency |-> frequency, damping |-> damping,
                  coefficients |-> <<type, frequency, damping>>, input |-> none, output |-> none]
    BY <2>2, <2>6, ComputedProperties
  <2>8. /\ object.value = 0 /\ object.hasBeenCalled = never
        /\ object.frequency = frequency /\ object.damping = damping
        /\ object.coefficients = <<type, frequency, damping>> /\ object.input = none
        /\ object.output = none
    BY <2>7
  <2>9. past.call = "reset" /\ past.elsewhere = never /\ past.inputs = empty /\ past.outputs = empty
    BY <2>3
  <2>10. object = [class |-> "SecondOrder", value |-> object.value, hasBeenCalled |-> object.hasBeenCalled,
                   frequency |-> object.frequency, damping |-> object.damping,
                   coefficients |-> object.coefficients, input |-> object.input,
                   output |-> object.output]
    BY <2>7, <2>8
  <2>11. past = [call |-> past.call, elsewhere |-> past.elsewhere, inputs |-> past.inputs,
                 outputs |-> past.outputs]
    BY <2>3, <2>9
  <2>12. \E t, f, d : /\ object.coefficients = <<t, f, d>>
                      /\ past.elsewhere \/ (f = object.frequency /\ d = object.damping)
    BY <2>8, Zenon
  <2>13. LastThreeOf(object.input, past.inputs) /\ LastThreeOf(object.output, past.outputs)
    BY <2>4, <2>8, <2>9
  <2>14. /\ object.hasBeenCalled <=> past.inputs # <<>>
         /\ object.hasBeenCalled <=> past.outputs # <<>>
    BY <2>1, <2>5, <2>8, <2>9
  <2> QED  BY <2>10, <2>11, <2>12, <2>13, <2>14, Zenon DEF SecondOrderInv
<1>9. ASSUME object = NewAlphaProvider, past = [call |-> "reset", frequency |-> 0] PROVE AlphaProviderInv
  <2>1. object = [class |-> "AlphaProvider", previous |-> {}, alphaOf |-> 0]
    BY <1>9 DEF NewAlphaProvider
  <2>2. object.previous = {} /\ object.alphaOf = 0 /\ past.call = "reset" /\ past.frequency = 0
    BY <1>9, <2>1
  <2>3. object = [class |-> "AlphaProvider", previous |-> object.previous, alphaOf |-> object.alphaOf]
    BY <2>1, <2>2
  <2>4. past = [call |-> past.call, frequency |-> past.frequency]
    BY <1>9, <2>2
  <2> QED  BY <2>2, <2>3, <2>4 DEF AlphaProviderInv, Updated
<1>10. CASE /\ \/ object = NewAlphaFiltered
               \/ \E type \in Types, cutoff \in Cutoffs, hasClock \in BOOLEAN :
                     object \in {NewButterworth(type), NewFirstOrder(type, cutoff, hasClock)}
               \/ \E min, max \in Cutoffs, hasClock \in BOOLEAN :
                     (hasClock => min <= max) /\ object = NewBandPass(min, max, hasClock)
            /\ past = Unstarted
  BY <1>2, <1>3, <1>5, <1>6, <1>10, Zenon DEF SmoothingInv
<1>11. CASE \E type \in Types \cup {"NOTCH"}, frequency \in Frequencies, damping \in DampingRatios :
               /\ object = NewSecondOrder(type, frequency, damping)
               /\ past = [call |-> "reset", elsewhere |-> FALSE, inputs |-> <<>>, outputs |-> <<>>]
  BY <1>8, <1>11, Zenon DEF SmoothingInv
<1>12. CASE \/ object = NewWrapping /\ past = [call |-> "reset", input |-> 0, ignored |-> {}]
            \/ object = NewAlphaProvider /\ past = [call |-> "reset", frequency |-> 0]
  BY <1>7, <1>9, <1>12, Zenon DEF SmoothingInv
<1> QED  BY <1>10, <1>11, <1>12, Zenon DEF SmoothingInit

\* Nothing changes where neither the object nor its past does.
LEMMA SmoothingStutters ==
    ASSUME SmoothingInv, UNCHANGED vars
    PROVE  SmoothingInv'
<1>1. object' = object /\ past' = past
  BY DEF vars
<1>2. AlphaInv => AlphaInv'
  BY <1>1 DEF AlphaInv, Mixture, Updated
<1>3. ButterworthInv => ButterworthInv'
  BY <1>1 DEF ButterworthInv, Mixture, Updated
<1>4. FirstOrderInv => FirstOrderInv'
  BY <1>1 DEF FirstOrderInv, Mixture, Updated
<1>5. BandPassInv => BandPassInv'
  BY <1>1 DEF BandPassInv
<1>6. WrappingInv => WrappingInv'
  BY <1>1 DEF WrappingInv
<1>7. SecondOrderInv => SecondOrderInv'
  BY <1>1, Zenon DEF SecondOrderInv
<1>8. AlphaProviderInv => AlphaProviderInv'
  BY <1>1 DEF AlphaProviderInv, Updated
<1> QED  BY <1>2, <1>3, <1>4, <1>5, <1>6, <1>7, <1>8 DEF SmoothingInv

\* A filter that was just updated shows a mixture of what it was given.
LEMMA MixtureIsBetween ==
    ASSUME NEW type, NEW lastInput, Mixture(type, lastInput), Updated, object.value \in Int
    PROVE  /\ type = "LOW_PASS" => IsBetween(object.value, past.inputs)
           /\ type = "HIGH_PASS" => IsBetween(past.input - object.value, past.inputs \cup {0})
<1>1. past \in MixedPasts /\ HasEnds(past.inputs) /\ past.input \in past.inputs
  BY DEF Mixture
<1>2. past.inputs \in SUBSET Int
  BY <1>1, Zenon DEF MixedPasts
<1>3. past.input \in Int /\ past.inputs # {}
  BY <1>1, <1>2
<1>4. ASSUME type = "LOW_PASS" PROVE IsBetween(object.value, past.inputs)
  <2>1. Within(object.value, past.inputs)
    BY <1>4 DEF Mixture
  <2> QED  BY <1>1, <1>2, <1>3, <2>1, WithinIsBetween
<1>5. ASSUME type = "HIGH_PASS" PROVE IsBetween(past.input - object.value, past.inputs \cup {0})
  <2> DEFINE values == past.inputs \cup {0}
             rest == past.input - object.value
  <2>1. Within(rest, values)
    BY <1>5 DEF Mixture
  <2>2. values \in SUBSET Int /\ HasEnds(values)
    BY <1>1, <1>2, EndsOfMore
  <2>3. values # {} /\ rest \in Int
    BY <1>3
  <2> HIDE DEF values, rest
  <2>4. IsBetween(rest, values)
    BY <2>1, <2>2, <2>3, WithinIsBetween
  <2> QED  BY <2>4 DEF values, rest
<1> QED  BY <1>4, <1>5

\* SmoothedStayAmongInputs is what the parts say of an updated filter.
LEMMA SmoothingInvIsAmongInputs == SmoothingInv => SmoothedStayAmongInputs
<1> SUFFICES ASSUME SmoothingInv PROVE SmoothedStayAmongInputs
  OBVIOUS
<1>1. ASSUME IsLowPass, Updated PROVE IsBetween(object.value, past.inputs)
  <2>1. CASE object.class = "AlphaFiltered"
    <3>1. AlphaInv
      BY <2>1, SmoothingClasses DEF SmoothingInv
    <3>2. object.value \in Int
      BY <3>1, Zenon DEF AlphaInv, AlphaFilters
    <3>3. Mixture("LOW_PASS", past.input)
      BY <3>1 DEF AlphaInv
    <3> QED  BY <1>1, <3>2, <3>3, MixtureIsBetween
  <2>2. CASE object.class = "Butterworth" /\ object.type = "LOW_PASS"
    <3>1. ButterworthInv
      BY <2>2, SmoothingClasses DEF SmoothingInv
    <3>2. object.value \in Int
      BY <3>1, Zenon DEF ButterworthInv, Butterworths
    <3>3. Mixture(object.type, object.previousInput)
      BY <3>1 DEF ButterworthInv
    <3> QED  BY <1>1, <2>2, <3>2, <3>3, MixtureIsBetween
  <2>3. CASE object.class = "FirstOrder" /\ object.type = "LOW_PASS"
    <3>1. FirstOrderInv
      BY <2>3, SmoothingClasses DEF SmoothingInv
    <3>2. object.value \in Int
      BY <3>1, Zenon DEF FirstOrderInv, FirstOrders
    <3>3. Mixture(object.type, object.filterInputOld)
      BY <3>1 DEF FirstOrderInv
    <3> QED  BY <1>1, <2>3, <3>2, <3>3, MixtureIsBetween
  <2> QED  BY <1>1, <2>1, <2>2, <2>3 DEF IsLowPass, IsOfType, Is
<1>2. ASSUME IsOfType("HIGH_PASS"), Updated PROVE IsBetween(past.input - object.value, past.inputs \cup {0})
  <2>1. object.type = "HIGH_PASS"
    BY <1>2 DEF IsOfType
  <2>2. CASE object.class = "Butterworth"
    <3>1. ButterworthInv
      BY <2>2, SmoothingClasses DEF SmoothingInv
    <3>2. object.value \in Int
      BY <3>1, Zenon DEF ButterworthInv, Butterworths
    <3>3. Mixture(object.type, object.previousInput)
      BY <3>1 DEF ButterworthInv
    <3> QED  BY <1>2, <2>1, <3>2, <3>3, MixtureIsBetween
  <2>3. CASE object.class = "FirstOrder"
    <3>1. FirstOrderInv
      BY <2>3, SmoothingClasses DEF SmoothingInv
    <3>2. object.value \in Int
      BY <3>1, Zenon DEF FirstOrderInv, FirstOrders
    <3>3. Mixture(object.type, object.filterInputOld)
      BY <3>1 DEF FirstOrderInv
    <3> QED  BY <1>2, <2>1, <3>2, <3>3, MixtureIsBetween
  <2> QED  BY <1>2, <2>2, <2>3 DEF IsOfType
<1>3. ASSUME Is("BandPass"), Updated PROVE Abs(object.low.value) <= Spread(past.inputs \cup {0})
  <2> DEFINE values == past.inputs \cup {0}
             value == object.low.value
  <2>1. BandPassInv
    BY <1>3, SmoothingClasses DEF SmoothingInv, Is
  <2>2. past \in MixedPasts /\ HasEnds(past.inputs) /\ object.low \in FirstOrders /\ WithinSpread(value, values)
    BY <2>1 DEF BandPassInv, Band
  <2>3. past.inputs \in SUBSET Int /\ value \in Int
    BY <2>2, Zenon DEF MixedPasts, FirstOrders
  <2>4. values \in SUBSET Int /\ HasEnds(values) /\ values # {}
    BY <2>2, <2>3, EndsOfMore
  <2> HIDE DEF values, value
  <2>5. Abs(value) <= Spread(values)
    BY <2>2, <2>3, <2>4, WithinIsBetween
  <2> QED  BY <2>5 DEF values, value
<1> QED  BY <1>1, <1>2, <1>3 DEF SmoothedStayAmongInputs

\* CoefficientsFollowParameters is a part of what the parts say.
LEMMA SmoothingInvFollowsParameters == SmoothingInv => CoefficientsFollowParameters
<1> SUFFICES ASSUME SmoothingInv PROVE CoefficientsFollowParameters
  OBVIOUS
<1>1. ASSUME Is("SecondOrder")
      PROVE  /\ past.elsewhere \/ Tail(object.coefficients) = <<object.frequency, object.damping>>
             /\ LastThree(object.input, past.inputs) /\ LastThree(object.output, past.outputs)
  <2>1. SecondOrderInv
    BY <1>1, SmoothingClasses DEF SmoothingInv, Is
  <2>2. PICK type, frequency, damping :
            /\ object.coefficients = <<type, frequency, damping>>
            /\ past.elsewhere \/ (frequency = object.frequency /\ damping = object.damping)
    BY <2>1 DEF SecondOrderInv
  <2>3. Tail(<<type, frequency, damping>>) = <<frequency, damping>>
    OBVIOUS
  <2>4. past.elsewhere \/ Tail(object.coefficients) = <<object.frequency, object.damping>>
    BY <2>2, <2>3
  <2> QED  BY <2>1, <2>4 DEF SecondOrderInv, LastThreeOf
<1>2. ASSUME Is("AlphaProvider"), Updated PROVE object.alphaOf = past.frequency
  <2>1. AlphaProviderInv
    BY <1>2, SmoothingClasses DEF SmoothingInv, Is
  <2> QED  BY <1>2, <2>1 DEF AlphaProviderInv
<1> QED  BY <1>1, <1>2 DEF CoefficientsFollowParameters

\* What the filters that smooth keep is an invariant.
LEMMA SmoothingInvariant == SmoothingSpec => []SmoothingInv
<1>1. SmoothingInit => SmoothingInv
  BY SmoothingInitInv
<1>2. SmoothingInv /\ [SmoothingNext]_vars => SmoothingInv'
  BY SmoothingSteps, SmoothingStutters
<1> QED  BY <1>1, <1>2, PTL DEF SmoothingSpec

\* A low pass stays among the inputs since its last start and a high pass within
\* them of its last input, whatever the constants, cut-offs and times, and also
\* where the clock stands still or an update throws halfway (update of
\* alpha_filtered, butterworth_filtered and first_order_filtered).
THEOREM SmoothedAmongInputs == SmoothingSpec => []SmoothedStayAmongInputs
<1> QED  BY SmoothingInvariant, SmoothingInvIsAmongInputs, PTL

\* The coefficients are those of the parameters but where these were changed
\* elsewhere, the registers hold the last three inputs and outputs, and an alpha is
\* that of the frequency asked for (second_order_filtered_yo_double.cpp,
\* alpha_based_on_break_frequency_provider.cpp).
THEOREM ParametersAreFollowed == SmoothingSpec => []CoefficientsFollowParameters
<1> QED  BY SmoothingInvariant, SmoothingInvFollowsParameters, PTL

\* A wrapping filter goes towards its input by the shorter way and stays within
\* its limits, whatever these are (update of alpha_filtered_wrapping_yo_variable.cpp).
THEOREM WrapsAlwaysTheShorterWay == SmoothingSpec => WrapsTheShorterWay
<1>1. SmoothingInv /\ [SmoothingNext]_vars => [WrapsNow]_vars
  BY SmoothingSteps
<1> QED  BY <1>1, SmoothingInvariant, PTL DEF SmoothingSpec, WrapsTheShorterWay, WrapsNow
=============================================================================
