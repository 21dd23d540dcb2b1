---------------------------- MODULE GlitchFilters ----------------------------
(***************************************************************************)
(* filters/glitch_filtered_yo_boolean and _integer: a new value is taken   *)
(* over only when it has been observed often enough in a row.  The two     *)
(* count differently: the one the updates that contradict its value, the   *)
(* other the repetitions of what it observed last.                         *)
(***************************************************************************)
EXTENDS OwnedObject

CONSTANTS GlitchIntegers,     \* what the integer filter observes
          WindowSizes         \* the window size is a variable: anybody may set it

\* A window size is an int, of which there is a largest.
ASSUME WindowSizesAssumption ==
    /\ WindowSizes \subseteq Int
    /\ \E longest \in WindowSizes : \A n \in WindowSizes : n <= longest

\* Bound: a longer row of equal observations is not told apart.
MaxStreak == Max(WindowSizes) + 2

Observable == IF Is("GlitchFilteredYoBoolean") THEN BOOLEAN ELSE GlitchIntegers
IsGlitchFilter == Is("GlitchFilteredYoBoolean") \/ Is("GlitchFilteredYoInteger")

\* streak: how often observed was seen in a row since the value was last
\* written; carried: what the counter stood at when it was written past the
\* filter, as long as the counter has not started anew
NotObserved == [call |-> "set", observed |-> FALSE, streak |-> 0, carried |-> 0]

\* the value to filter is read and set, and then overwritten with false
NewGlitchFilteredYoBoolean(windowSize) ==
    [class |-> "GlitchFilteredYoBoolean", value |-> FALSE, counter |-> 0, windowSize |-> windowSize]

NewGlitchFilteredYoInteger(windowSize) ==
    [class |-> "GlitchFilteredYoInteger", value |-> 0, previousPosition |-> 0, counter |-> 0,
     windowSize |-> windowSize]

GlitchInit ==
    /\ \E windowSize \in {n \in WindowSizes : n >= 0} :
          object \in {NewGlitchFilteredYoBoolean(windowSize), NewGlitchFilteredYoInteger(windowSize)}
    /\ past = [NotObserved EXCEPT !.observed = IF object.class = "GlitchFilteredYoBoolean" THEN FALSE
                                               ELSE 0]

-----------------------------------------------------------------------------
Observe(value) ==
    past' = [call |-> "update", observed |-> value,
             streak |-> IF past.streak > 0 /\ past.observed = value
                        THEN Min({past.streak + 1, MaxStreak}) ELSE 1,
             carried |-> IF object'.counter = 0 THEN 0 ELSE past.carried]

\* Mutant: the counter of contradictions survives an agreement.
CountContradictionsEver(value) ==
    IF value # object.value THEN object.counter + 1 ELSE object.counter

CountContradictions(value) == IF value # object.value THEN object.counter + 1 ELSE 0

UpdateBoolean(value) ==
    LET counter  == CountContradictions(value)
        accepted == counter >= object.windowSize
    IN  /\ Is("GlitchFilteredYoBoolean")
        /\ object' = [object EXCEPT !.value = IF accepted THEN value ELSE @,
                                    !.counter = IF accepted THEN 0 ELSE counter]
        /\ Observe(value)

UpdateInteger(value) ==
    LET counter  == IF value = object.previousPosition THEN object.counter + 1 ELSE 0
        accepted == counter >= object.windowSize
    IN  /\ Is("GlitchFilteredYoInteger")
        /\ object' = [object EXCEPT !.value = IF accepted THEN value ELSE @,
                                    !.counter = IF accepted THEN 0 ELSE counter,
                                    !.previousPosition = value]
        /\ Observe(value)

SetGlitchFiltered(value) ==
    /\ IsGlitchFilter
    /\ object' = [object EXCEPT !.value = value, !.counter = 0]
    /\ past' = [past EXCEPT !.call = "set", !.streak = 0, !.carried = 0]

\* set is hidden, not overridden: written through a YoBoolean& or YoInteger&, or
\* by a function of these classes (setValueFromDouble, parseValue, increment),
\* the value changes and the counter stays.
SetThroughBase(value) ==
    /\ IsGlitchFilter
    /\ object' = [object EXCEPT !.value = value]
    /\ past' = [past EXCEPT !.call = "set", !.streak = 0, !.carried = object.counter]

SetGlitchWindowSize(windowSize) ==
    /\ IsGlitchFilter
    /\ object' = [object EXCEPT !.windowSize = windowSize]
    /\ past' = [past EXCEPT !.call = "setWindowSize"]

GlitchNext ==
    /\ IsGlitchFilter
    /\ \/ \E value \in Observable : \/ UpdateBoolean(value)
                                    \/ UpdateInteger(value)
                                    \/ SetGlitchFiltered(value)
                                    \/ SetThroughBase(value)
       \/ \E windowSize \in WindowSizes : SetGlitchWindowSize(windowSize)

GlitchSpec == GlitchInit /\ [][GlitchNext]_vars

-----------------------------------------------------------------------------
(* "Only accepts a new value once it has been observed for at least          *)
(* windowSize consecutive update() calls", however the window is set while a *)
(* row lasts, and never refuses what was observed more often than that since *)
(* the value was written.  A write past the filter leaves the counter, as    *)
(* glitch_filtered_yo_boolean.h notes: a value is accepted sooner after it,  *)
(* but by no more updates than the counter then stood at, and only until the *)
(* counter starts anew.                                                      *)
GlitchesFiltered ==
    [][IsGlitchFilter /\ past'.call = "update" =>
          /\ object'.value # object.value =>
                object'.value = past'.observed /\ past'.streak + past.carried >= object.windowSize
          /\ past'.streak > object.windowSize => object'.value = past'.observed]_vars
=============================================================================
