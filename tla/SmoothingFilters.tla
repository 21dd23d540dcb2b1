-------------------------- MODULE SmoothingFilters --------------------------
(***************************************************************************)
(* The filters that mix the input with what came before: alpha_filtered,   *)
(* alpha_filtered_wrapping, butterworth, first_order, its band pass, and   *)
(* second_order, whose coefficients are kept like the answer of            *)
(* alpha_based_on_break_frequency_provider.                                *)
(***************************************************************************)
EXTENDS OwnedObject

CONSTANTS SmoothedInputs,   \* even, so that the mean of two of them is whole
          Clock,            \* readings of the time of the first-order filters
          Cutoffs,          \* cut-off frequencies, zero among them
          WrapInputs, LowerLimit, UpperLimit,
          Frequencies, DampingRatios, MaxFrequency   \* of the second order; 1 / (2 dt)

\* Positions are reduced modulo the length of the range, which must not be zero.
ASSUME SmoothingAssumption ==
    /\ SmoothedInputs \subseteq Int /\ Clock \subseteq Int /\ Cutoffs \subseteq Int
    /\ WrapInputs \subseteq Int /\ LowerLimit \in Int /\ UpperLimit \in Int /\ LowerLimit < UpperLimit
    /\ Frequencies \subseteq Int /\ DampingRatios \subseteq Int /\ MaxFrequency \in Int

Types == {"LOW_PASS", "HIGH_PASS"}

NewAlphaFiltered == [class |-> "AlphaFiltered", value |-> 0, hasBeenCalled |-> FALSE]

NewButterworth(type) ==
    [class |-> "Butterworth", type |-> type, value |-> 0, previousInput |-> 0, hasBeenCalled |-> FALSE]

NewFirstOrder(type, cutoff, hasClock) ==
    [class |-> "FirstOrder", type |-> type, value |-> 0, hasBeenCalled |-> FALSE,
     cutoffFrequency |-> cutoff, filterInputOld |-> 0, filterUpdateTimeOld |-> 0,
     hasClock |-> hasClock, dt |-> IF hasClock THEN 0 ELSE 1]

NewBandPass(min, max, hasClock) ==
    [class |-> "BandPass", hasBeenCalled |-> FALSE,
     low  |-> NewFirstOrder("LOW_PASS", max, hasClock),
     high |-> NewFirstOrder("HIGH_PASS", min, hasClock)]

NewWrapping ==
    [class |-> "Wrapping", value |-> 0, hasBeenCalled |-> FALSE, previousUnfiltered |-> 0,
     unfilteredInRange |-> 0, temporary |-> 0, error |-> 0]

Computed(filter) == [filter EXCEPT !.coefficients = <<@[1], filter.frequency, filter.damping>>]

\* The coefficients are told by what they were computed from; no BAND can be built.
NewSecondOrder(type, frequency, damping) ==
    Computed([class |-> "SecondOrder", value |-> 0, hasBeenCalled |-> FALSE,
              frequency |-> frequency, damping |-> damping, coefficients |-> <<type, 0, 0>>,
              input |-> <<0, 0, 0>>, output |-> <<0, 0, 0>>])

\* No frequency is the one remembered first, which is not a number.
NewAlphaProvider == [class |-> "AlphaProvider", previous |-> {}, alphaOf |-> 0]

\* What the caller gave since the last start, whether the next update is a start, and when it was.
Unstarted == [call |-> "reset", starts |-> TRUE, inputs |-> {}, input |-> 0, time |-> 0]

SmoothingInit ==
    \/ /\ \/ object = NewAlphaFiltered
          \/ \E type \in Types, cutoff \in Cutoffs, hasClock \in BOOLEAN :
                object \in {NewButterworth(type), NewFirstOrder(type, cutoff, hasClock)}
          \/ \E min, max \in Cutoffs, hasClock \in BOOLEAN :
                (hasClock => min <= max) /\ object = NewBandPass(min, max, hasClock)
       /\ past = Unstarted
    \/ /\ object = NewWrapping
       /\ past = [call |-> "reset", input |-> 0, ignored |-> {}]
    \/ /\ \E type \in Types \cup {"NOTCH"}, frequency \in Frequencies, damping \in DampingRatios :
             object = NewSecondOrder(type, frequency, damping)
       /\ past = [call |-> "reset", elsewhere |-> FALSE, inputs |-> <<>>, outputs |-> <<>>]
    \/ /\ object = NewAlphaProvider
       /\ past = [call |-> "reset", frequency |-> 0]

\* A start forgets the inputs before it.
Mixed(input, time, restarts) ==
    past' = [call |-> "update", input |-> input, starts |-> restarts, time |-> time,
             inputs |-> IF past.starts THEN {input} ELSE past.inputs \cup {input}]

-----------------------------------------------------------------------------
(* AlphaFilteredYoVariable and ButterworthFilteredYoVariable                 *)

UpdateAlpha(input) ==
    /\ Is("AlphaFiltered")
    /\ \E value \in IF object.hasBeenCalled THEN interpolate(input, object.value) ELSE {input} :
          object' = [object EXCEPT !.hasBeenCalled = TRUE, !.value = value]
    /\ Mixed(input, 0, FALSE)

\* Both formulas are linear in alpha; these are the values it takes for 0 and 1.
ButterworthRange(input) ==
    IF object.type = "LOW_PASS"
    THEN interpolate((input + object.previousInput) \div 2, object.value)
    ELSE interpolate((input - object.previousInput) \div 2, object.value + input - object.previousInput)

UpdateButterworth(input) ==
    /\ Is("Butterworth")
    /\ \E value \in IF object.hasBeenCalled THEN ButterworthRange(input)
                    ELSE {IF object.type = "HIGH_PASS" THEN 0 ELSE input} :
          object' = [object EXCEPT !.hasBeenCalled = TRUE, !.value = value, !.previousInput = input]
    /\ Mixed(input, 0, FALSE)

ResetSmoothing ==
    /\ object.class \in {"AlphaFiltered", "Butterworth", "FirstOrder"}
    /\ object' = [object EXCEPT !.hasBeenCalled = FALSE]
    /\ past' = [past EXCEPT !.call = "reset", !.starts = TRUE]

-----------------------------------------------------------------------------
(* FirstOrderFilteredYoDouble.  Where the time has not gone on the filter    *)
(* starts anew at the next update, after this one has used the old dt.  A    *)
(* cut-off of zero is thrown for halfway: dt and the restart stay, the old   *)
(* input and time are not brought up to date.                                *)

\* Mutant: a clock that stands still only leaves dt alone.
OnTimeGoesOn(filter, time) ==
    IF filter.hasClock /\ time > filter.filterUpdateTimeOld
    THEN [filter EXCEPT !.dt = time - filter.filterUpdateTimeOld]
    ELSE filter

OnTime(filter, time) ==
    IF ~filter.hasClock THEN filter
    ELSE IF time > filter.filterUpdateTimeOld
    THEN [filter EXCEPT !.dt = time - filter.filterUpdateTimeOld]
    ELSE [filter EXCEPT !.hasBeenCalled = FALSE]

\* alpha is 1 for a dt of 0, and in (0, 1) for every other
FirstOrderRange(filter, input) ==
    LET all == IF filter.type = "LOW_PASS" THEN filter.value
               ELSE filter.value + input - filter.filterInputOld
        none == IF filter.type = "LOW_PASS" THEN input ELSE 0
    IN  IF filter.dt = 0 THEN {all} ELSE interpolate(none, all)

\* The filters an update can leave.  An update that starts takes the input over.
FirstOrderUpdates(filter, input, time) ==
    LET timed == IF filter.hasBeenCalled THEN OnTime(filter, time) ELSE [filter EXCEPT !.hasBeenCalled = TRUE]
        done(value) == [timed EXCEPT !.value = value, !.filterInputOld = input,
                                     !.filterUpdateTimeOld = IF filter.hasClock THEN time ELSE 0]
    IN  {done(value) : value \in IF filter.hasBeenCalled THEN FirstOrderRange(timed, input) ELSE {input}}

Throws(filter) == filter.hasBeenCalled /\ filter.cutoffFrequency = 0

\* The clock of the caller: it has not gone on since the last update.
Stopped(filter, time) == filter.hasClock /\ ~past.starts /\ time <= past.time

UpdateFirstOrder(input, time) ==
    /\ Is("FirstOrder")
    /\ IF Throws(object)
       THEN /\ object' = OnTime(object, time)
            /\ past' = [past EXCEPT !.call = "threw", !.starts = @ \/ Stopped(object, time)]
       ELSE /\ object' \in FirstOrderUpdates(object, input, time)
            /\ Mixed(input, time, Stopped(object, time))

SetCutoffFrequency(cutoff) ==
    /\ Is("FirstOrder")
    /\ object' = [object EXCEPT !.cutoffFrequency = cutoff]
    /\ past' = [past EXCEPT !.call = "other"]

-----------------------------------------------------------------------------
(* FirstOrderBandPassFilteredYoDouble: a low pass that owns a high pass.     *)
(* Its first update shows the input and updates neither, so that the second  *)
(* shows the input as well; reset is that of the low pass; and a low pass    *)
(* that throws leaves the high pass updated.                                 *)

UpdateBandPass(input, time) ==
    /\ Is("BandPass")
    /\ IF ~object.hasBeenCalled
       THEN object' = [object EXCEPT !.hasBeenCalled = TRUE, !.low.value = input]
       ELSE IF Throws(object.high)
       THEN object' = [object EXCEPT !.high = OnTime(@, time)]
       ELSE \E high \in FirstOrderUpdates(object.high, input, time) :
                IF Throws(object.low)
                THEN object' = [object EXCEPT !.high = high, !.low = OnTime(@, time)]
                ELSE \E low \in FirstOrderUpdates(object.low, high.value, time) :
                         object' = [object EXCEPT !.high = high, !.low = low]
    /\ past' = [past EXCEPT !.call = "update", !.inputs = @ \cup {input}]

ResetBandPass ==
    /\ Is("BandPass")
    /\ object' = [object EXCEPT !.low.hasBeenCalled = FALSE]
    /\ past' = [past EXCEPT !.call = "reset"]

\* setPassBand throws for the limits in the wrong order before it sets one
SetPassBand(min, max) ==
    /\ Is("BandPass") /\ min <= max
    /\ object' = [object EXCEPT !.high.cutoffFrequency = min, !.low.cutoffFrequency = max]
    /\ past' = [past EXCEPT !.call = "other"]

-----------------------------------------------------------------------------
(* AlphaFilteredWrappingYoVariable.  update() passes the unfiltered variable *)
(* on; update(double) leaves it out but for the first call, which remembers  *)
(* the variable where later calls remember, and skip, their input.           *)

\* unfilteredVariableModulo
InRange(position) == LowerLimit + ((position - LowerLimit) % (UpperLimit - LowerLimit))

\* Mutant: the way across the limits is never taken.
ErrorStraight(value, target) == target - value

Error(value, target) ==
    LET standard == target - value
        wrapping == IF target > value THEN standard - (UpperLimit - LowerLimit)
                    ELSE standard + (UpperLimit - LowerLimit)
    IN  IF Abs(standard) < Abs(wrapping) THEN standard ELSE wrapping

\* The value as the neighbour of the target it is to be mixed with.
Unwound(value, error) ==
    IF value + error >= UpperLimit THEN value - (UpperLimit - LowerLimit)
    ELSE IF value + error < LowerLimit THEN value + (UpperLimit - LowerLimit)
    ELSE value

\* Mixed with a new input; an input equal to the last one leaves the mixture as it was.
Remixed(input) ==
    LET target == InRange(input)
        error  == Error(object.value, target)
    IN  IF input = object.previousUnfiltered THEN object
        ELSE [object EXCEPT !.previousUnfiltered = input, !.unfilteredInRange = target,
                            !.error = error, !.temporary = Unwound(object.value, error)]

Rewound(value) ==
    IF value > UpperLimit THEN value - (UpperLimit - LowerLimit)
    ELSE IF value < LowerLimit THEN value + (UpperLimit - LowerLimit)
    ELSE value

UpdateWrapping(input, unfiltered) ==
    /\ Is("Wrapping")
    /\ IF ~object.hasBeenCalled
       THEN /\ object' = [object EXCEPT !.hasBeenCalled = TRUE, !.previousUnfiltered = unfiltered,
                                        !.unfilteredInRange = InRange(input),
                                        !.temporary = InRange(input), !.value = InRange(input)]
            /\ past' = [call |-> "update", input |-> input, ignored |-> {unfiltered} \ {input}]
       ELSE /\ \E mixture \in interpolate(Remixed(input).unfilteredInRange, Remixed(input).temporary) :
                   object' = [Remixed(input) EXCEPT !.temporary = mixture, !.value = Rewound(mixture)]
            /\ past' = IF input \in past.ignored THEN [past EXCEPT !.call = "other"]
                       ELSE [call |-> "update", input |-> input, ignored |-> {}]

ResetWrapping ==
    /\ Is("Wrapping")
    /\ object' = [object EXCEPT !.hasBeenCalled = FALSE]
    /\ past' = [past EXCEPT !.call = "reset"]

-----------------------------------------------------------------------------
(* SecondOrderFilteredYoDouble.  Its parameters may be shared with other     *)
(* filters and are variables anybody can set; it computes its coefficients   *)
(* when it is reset and in its own setters.  What it computes from them and  *)
(* from its registers is left open.                                          *)

\* Mutant: the newest is overwritten before it is moved on.
PushedTwice(register, x) == <<x, x, register[2]>>

Pushed(register, x) == <<x, register[1], register[2]>>

Keeps(s, x) == LastOf(Append(s, x), 3)

UpdateSecondOrder(input, output) ==
    LET value == IF object.hasBeenCalled THEN output ELSE input
    IN  /\ Is("SecondOrder")
        /\ object' = [object EXCEPT
                         !.hasBeenCalled = TRUE, !.value = value,
                         !.input  = IF object.hasBeenCalled THEN Pushed(@, input) ELSE <<input, input, input>>,
                         !.output = IF object.hasBeenCalled THEN Pushed(@, output) ELSE <<input, input, input>>]
        /\ past' = [past EXCEPT !.call = "update", !.inputs = Keeps(@, input), !.outputs = Keeps(@, value)]

ResetSecondOrder ==
    /\ Is("SecondOrder")
    /\ object' = Computed([object EXCEPT !.hasBeenCalled = FALSE])
    /\ past' = [call |-> "reset", elsewhere |-> FALSE, inputs |-> <<>>, outputs |-> <<>>]

SetNaturalFrequency(frequency) ==
    /\ Is("SecondOrder")
    /\ object' = Computed([object EXCEPT !.frequency = clamp(frequency, 0, MaxFrequency)])
    /\ past' = [past EXCEPT !.call = "other", !.elsewhere = FALSE]

SetDampingRatio(damping) ==
    /\ Is("SecondOrder")
    /\ object' = Computed([object EXCEPT !.damping = Max({damping, 0})])
    /\ past' = [past EXCEPT !.call = "other", !.elsewhere = FALSE]

\* SecondOrderFilteredYoVariableParameters, set by their name or through another filter
ParametersChanged(frequency, damping) ==
    /\ Is("SecondOrder")
    /\ object' = [object EXCEPT !.frequency = frequency, !.damping = damping]
    /\ past' = [past EXCEPT !.call = "other", !.elsewhere = TRUE]

-----------------------------------------------------------------------------
\* AlphaBasedOnBreakFrequencyProvider::getValue; its dt is fixed
GetAlpha(frequency) ==
    /\ Is("AlphaProvider")
    /\ object' = IF frequency \in object.previous THEN object
                 ELSE [object EXCEPT !.previous = {frequency}, !.alphaOf = frequency]
    /\ past' = [call |-> "update", frequency |-> frequency]

SmoothingNext ==
    \/ \E input \in SmoothedInputs : UpdateAlpha(input) \/ UpdateButterworth(input)
    \/ \E input \in SmoothedInputs, time \in Clock :
          UpdateFirstOrder(input, time) \/ UpdateBandPass(input, time)
    \/ \E cutoff \in Cutoffs : SetCutoffFrequency(cutoff)
    \/ \E min, max \in Cutoffs : SetPassBand(min, max)
    \/ \E input, unfiltered \in WrapInputs : UpdateWrapping(input, unfiltered)
    \/ \E input, output \in SmoothedInputs : UpdateSecondOrder(input, output)
    \/ \E frequency \in Frequencies : SetNaturalFrequency(frequency) \/ GetAlpha(frequency)
    \/ \E damping \in DampingRatios : SetDampingRatio(damping)
    \/ \E frequency \in Frequencies, damping \in DampingRatios : ParametersChanged(frequency, damping)
    \/ ResetSmoothing \/ ResetBandPass \/ ResetWrapping \/ ResetSecondOrder

SmoothingSpec == SmoothingInit /\ [][SmoothingNext]_vars

-----------------------------------------------------------------------------
IsBetween(x, values) == Min(values) <= x /\ x <= Max(values)
IsOfType(type) == object.class \in {"Butterworth", "FirstOrder"} /\ object.type = type
IsLowPass == Is("AlphaFiltered") \/ IsOfType("LOW_PASS")
Spread(values) == Max(values) - Min(values)

(* Whatever the smoothing constants, the times and the order of the calls, a *)
(* low pass stays among the inputs since its last start, and a high pass     *)
(* differs from its last input by a mixture of them: nothing from before a   *)
(* reset comes back, also where the clock stands still or an update has      *)
(* thrown halfway.  A band pass, which is both, stays within their spread.   *)
SmoothedStayAmongInputs ==
    /\ IsLowPass /\ Updated => IsBetween(object.value, past.inputs)
    /\ IsOfType("HIGH_PASS") /\ Updated => IsBetween(past.input - object.value, past.inputs \cup {0})
    /\ Is("BandPass") /\ Updated => Abs(object.low.value) <= Spread(past.inputs \cup {0})

\* The length of the shorter way from one value round to another.
Apart(x, y) == LET straight == (x - y) % (UpperLimit - LowerLimit)
               IN  Min({straight, UpperLimit - LowerLimit - straight})

(* A wrapping filter goes from its value towards the input by the shorter    *)
(* way round, across the limits where that is the shorter one, and stays     *)
(* within them (alpha_filtered_wrapping_yo_variable.h).  Excepted is an      *)
(* input of update(double) that the unfiltered variable had at the start.    *)
WrapsTheShorterWay ==
    [][Is("Wrapping") /\ past'.call = "update" =>
          /\ LowerLimit <= object'.value /\ object'.value <= UpperLimit
          /\ object.hasBeenCalled =>
                Apart(object.value, object'.value) + Apart(object'.value, past'.input)
                    = Apart(object.value, past'.input)]_vars

\* Of the last three, the newest first; the first one stands for those before it.
LastThree(register, given) ==
    given # <<>> => \A i \in 1..3 : register[i] = given[IF i < Len(given) THEN Len(given) + 1 - i ELSE 1]

(* What a second-order filter keeps is true to what it was given: the        *)
(* coefficients are those of its parameters, unless these have been changed  *)
(* elsewhere since, the registers hold the last three inputs and outputs     *)
(* since the last reset; and an alpha is that of the frequency asked for.    *)
CoefficientsFollowParameters ==
    /\ Is("SecondOrder") =>
          /\ past.elsewhere \/ Tail(object.coefficients) = <<object.frequency, object.damping>>
          /\ LastThree(object.input, past.inputs) /\ LastThree(object.output, past.outputs)
    /\ Is("AlphaProvider") /\ Updated => object.alphaOf = past.frequency
=============================================================================
