---------------------------- MODULE WindowFilters ----------------------------
(***************************************************************************)
(* The filters that keep the last inputs: delayed_yo_boolean and _double   *)
(* shift them through a row of variables, simple_moving_average keeps them *)
(* in a circular buffer, running_average in one number and their count.    *)
(***************************************************************************)
EXTENDS OwnedObject

CONSTANTS WindowInputs,    \* multiples of every number of inputs averaged
          Delays,          \* ticksToDelay
          AverageWindows,  \* the window size of the moving average, a public variable
          MaxSamples       \* bound: inputs of a running average between resets

MaxKept == Max(Delays \cup AverageWindows \cup {MaxSamples}) + 1

\* DelayedYoBoolean is the same code with values of another type.
NewDelayed(ticksToDelay, input) ==
    [class |-> "Delayed", value |-> input, previous |-> [i \in 1..ticksToDelay |-> input]]

NewSimpleMovingAverage(windowSize) ==
    [class |-> "SimpleMovingAverage", value |-> 0, windowSize |-> windowSize,
     previousUpdateValues |-> [i \in 1..windowSize |-> 0],
     bufferPosition |-> 0, bufferHasBeenFilled |-> FALSE]

NewRunningAverage == [class |-> "RunningAverage", value |-> 0, sampleSize |-> 0]

\* A delay reads its first input when it is built.
WindowInit ==
    \/ \E ticksToDelay \in Delays, input \in WindowInputs :
          /\ object = NewDelayed(ticksToDelay, input)
          /\ past = [call |-> "reset", inputs |-> <<input>>]
    \/ /\ object \in {NewSimpleMovingAverage(n) : n \in AverageWindows} \cup {NewRunningAverage}
       /\ past = [call |-> "reset", inputs |-> <<>>]

TakesIn(input) == past' = [call |-> "update", inputs |-> LastOf(Append(past.inputs, input), MaxKept)]

-----------------------------------------------------------------------------
\* Mutant: the row is shifted from its other end.
ShiftedBackwards(previous, input) ==
    [i \in DOMAIN previous |-> IF i = Len(previous) THEN input ELSE previous[Len(previous)]]

Shifted(previous, input) ==
    [i \in DOMAIN previous |-> IF i = Len(previous) THEN input ELSE previous[i + 1]]

UpdateDelayed(input) ==
    /\ Is("Delayed")
    /\ object' = IF object.previous = <<>> THEN [object EXCEPT !.value = input]
                 ELSE [object EXCEPT !.value = object.previous[1], !.previous = Shifted(@, input)]
    /\ TakesIn(input)

ResetDelayed(input) ==
    /\ Is("Delayed")
    /\ object' = NewDelayed(Len(object.previous), input)
    /\ past' = [call |-> "reset", inputs |-> <<input>>]

-----------------------------------------------------------------------------
Emptied(average) ==
    [average EXCEPT !.bufferPosition = 0, !.bufferHasBeenFilled = FALSE,
                    !.previousUpdateValues = [i \in 1..average.windowSize |-> 0]]

\* an update that finds the window resized empties it first
UpdateMovingAverage(input) ==
    LET resized  == Len(object.previousUpdateValues) # object.windowSize
        window   == IF resized THEN Emptied(object) ELSE object
        values   == [window.previousUpdateValues EXCEPT ![window.bufferPosition + 1] = input]
        isFull   == window.bufferPosition + 1 >= object.windowSize
        position == IF isFull THEN 0 ELSE window.bufferPosition + 1
        filled   == window.bufferHasBeenFilled \/ isFull
    IN  /\ Is("SimpleMovingAverage")
        /\ object' = [window EXCEPT
                         !.previousUpdateValues = values,
                         !.bufferPosition = position,
                         !.bufferHasBeenFilled = filled,
                         !.value = SumOf(values) \div (IF filled THEN object.windowSize ELSE position)]
        /\ IF resized THEN past' = [call |-> "update", inputs |-> <<input>>] ELSE TakesIn(input)

ResetMovingAverage ==
    /\ Is("SimpleMovingAverage")
    /\ object' = Emptied(object)
    /\ past' = [call |-> "reset", inputs |-> <<>>]

SetAverageWindow(windowSize) ==
    /\ Is("SimpleMovingAverage")
    /\ object' = Emptied([object EXCEPT !.windowSize = windowSize])
    /\ past' = [call |-> "reset", inputs |-> <<>>]

\* the variable that holds the window size is set, the filter is not told
WindowSizeWritten(windowSize) ==
    /\ Is("SimpleMovingAverage")
    /\ object' = [object EXCEPT !.windowSize = windowSize]
    /\ past' = [past EXCEPT !.call = "other"]

-----------------------------------------------------------------------------
\* Mutant: the share of the new input is that of the inputs before it.
AverageWithOldShare(value, input, sampleSize) ==
    value + (input - value) \div (IF sampleSize > 1 THEN sampleSize - 1 ELSE 1)

AverageWith(value, input, sampleSize) == value + (input - value) \div sampleSize

UpdateRunningAverage(input) ==
    /\ Is("RunningAverage")
    /\ object.sampleSize < MaxSamples
    /\ object' = [object EXCEPT !.sampleSize = @ + 1,
                                !.value = AverageWith(@, input, object.sampleSize + 1)]
    /\ TakesIn(input)

ResetRunningAverage ==
    /\ Is("RunningAverage")
    /\ object' = [object EXCEPT !.sampleSize = 0]
    /\ past' = [call |-> "reset", inputs |-> <<>>]

WindowNext ==
    \/ \E input \in WindowInputs : \/ UpdateDelayed(input)
                                   \/ ResetDelayed(input)
                                   \/ UpdateMovingAverage(input)
                                   \/ UpdateRunningAverage(input)
    \/ ResetMovingAverage
    \/ \E windowSize \in AverageWindows : SetAverageWindow(windowSize) \/ WindowSizeWritten(windowSize)
    \/ ResetRunningAverage

-----------------------------------------------------------------------------
(* delayed_yo_double.h and delayed_yo_boolean.h: a fixed delay, in ticks.    *)
DelayedByTicks ==
    LET ticks == Len(object.previous)
        oldest == Len(past.inputs) - ticks
    IN  object.value = past.inputs[IF oldest >= 1 THEN oldest ELSE 1]

AverageOfWindow ==
    LET last == LastOf(past.inputs, object.windowSize)
    IN  object.value * Len(last) = SumOf(last)

MeanSinceReset == object.value * Len(past.inputs) = SumOf(past.inputs)

(* What these filters keep of their inputs, in a row, in a ring or in one    *)
(* number, is what the caller gave them since they were last emptied: a      *)
(* delay shows the input of ticksToDelay calls ago, a moving average the     *)
(* mean of the last windowSize inputs, or of all if there were fewer, a      *)
(* running average the mean of all, and none mixes in anything older.        *)
WindowsHoldLastInputs ==
    /\ Is("Delayed") => DelayedByTicks
    /\ Is("SimpleMovingAverage") /\ Updated => AverageOfWindow
    /\ Is("RunningAverage") /\ Updated => MeanSinceReset
=============================================================================
