--------------------------- MODULE LimiterFilters ---------------------------
(***************************************************************************)
(* The filters that hold a value back: rate_limited, acceleration_limited, *)
(* jerk_limited and delta_limited, and deadbanded_yo_variable.  Their      *)
(* limits come from providers or variables that may change at any time.    *)
(***************************************************************************)
EXTENDS OwnedObject

CONSTANTS LimiterInputs,
          Limits,           \* maximum rates, accelerations, jerks, deltas; dead zones
          NegativeLimits,   \* what rate_limited refuses and delta_limited turns round
          Gains,            \* pairs <<w0, zeta>> of setGainsByPolePlacement
          Dt,               \* seconds between updates
          MaxMagnitude      \* bound on a value and its derivatives

ASSUME LimiterAssumption ==
    /\ LimiterInputs \subseteq Int /\ Limits \subseteq Nat /\ NegativeLimits \subseteq Int
    /\ Gains \subseteq Int \X Int /\ Dt \in Nat /\ MaxMagnitude \in Int

Start == [call |-> "reset", isFirst |-> TRUE, given |-> <<>>]

Given(arguments) == past' = [call |-> "update", isFirst |-> FALSE, given |-> arguments]

\* Bound: values that a resonant choice of gains drives away are not followed.
IsBounded(filter) ==
    /\ Abs(filter.value) <= MaxMagnitude
    /\ filter.class = "JerkLimited" => Abs(filter.smoothedRate) <= MaxMagnitude

NewRateLimited == [class |-> "RateLimited", value |-> 0, hasBeenCalled |-> FALSE, limited |-> FALSE]

\* setGainsByPolePlacement
WithGains(filter, w0, zeta) ==
    [filter EXCEPT !.positionGain = w0 * w0, !.velocityGain = 2 * zeta * w0]

NewAccelerationLimited(w0, zeta) ==
    WithGains([class |-> "AccelerationLimited", value |-> 0, hasBeenInitialized |-> FALSE,
               smoothedRate |-> 0, smoothedAcceleration |-> 0,
               positionGain |-> 0, velocityGain |-> 0], w0, zeta)

\* both frequencies of setGainsByPolePlacement are the same here
WithJerkGains(filter, w0, zeta) ==
    [filter EXCEPT !.positionGain = w0 * w0 * w0,
                   !.velocityGain = w0 * w0 + 2 * zeta * w0 * w0,
                   !.accelerationGain = w0 + 2 * zeta * w0]

NewJerkLimited(w0, zeta) ==
    WithJerkGains([class |-> "JerkLimited", value |-> 0, hasBeenInitialized |-> FALSE,
                   smoothedRate |-> 0, smoothedAcceleration |-> 0, smoothedJerk |-> 0,
                   positionGain |-> 0, velocityGain |-> 0, accelerationGain |-> 0], w0, zeta)

NewDeltaLimited(maxDelta) ==
    [class |-> "DeltaLimited", value |-> 0, maxDelta |-> Abs(maxDelta), isLimitingActive |-> FALSE]

NewDeadbanded == [class |-> "Deadbanded", value |-> 0]

LimiterInit ==
    /\ object \in {NewRateLimited, NewDeadbanded}
                  \cup {NewAccelerationLimited(g[1], g[2]) : g \in Gains}
                  \cup {NewJerkLimited(g[1], g[2]) : g \in Gains}
                  \cup {NewDeltaLimited(maxDelta) : maxDelta \in Limits \cup NegativeLimits}
    /\ past = Start

-----------------------------------------------------------------------------
(* RateLimitedYoVariable: the first update takes the input over, whatever    *)
(* the rate, and a negative rate is found (and thrown for) only after that.  *)

UpdateRate(input, maxRate) ==
    LET value == IF object.hasBeenCalled THEN object.value ELSE input
        difference == input - value
        isLimited == Abs(difference) > maxRate * Dt
    IN  /\ Is("RateLimited")
        /\ IF maxRate < 0
           THEN /\ object' = [object EXCEPT !.hasBeenCalled = TRUE, !.value = value]
                /\ past' = [past EXCEPT !.call = "threw", !.isFirst = FALSE]
           ELSE /\ object' = [object EXCEPT
                                 !.hasBeenCalled = TRUE,
                                 !.limited = isLimited,
                                 !.value = value + (IF isLimited THEN Sign(difference) * maxRate * Dt
                                                    ELSE difference)]
                /\ Given([input |-> input, maxRate |-> maxRate])

ResetRate ==
    /\ Is("RateLimited")
    /\ object' = [object EXCEPT !.hasBeenCalled = FALSE]
    /\ past' = Start

-----------------------------------------------------------------------------
(* AccelerationLimitedYoVariable                                             *)

Initialized(filter, input) ==
    [filter EXCEPT !.value = input, !.smoothedRate = 0, !.smoothedAcceleration = 0,
                   !.hasBeenInitialized = TRUE]

\* Mutant: the rate is limited before the acceleration is added to it.
AcceleratedUnchecked(rate, acceleration, maxRate) == clampSymmetric(rate, maxRate) + acceleration * Dt

Accelerated(rate, acceleration, maxRate) == clampSymmetric(rate + acceleration * Dt, maxRate)

UpdateAcceleration(input, maxRate, maxAcceleration) ==
    LET before == IF object.hasBeenInitialized THEN object ELSE Initialized(object, input)
        acceleration == clampSymmetric(before.positionGain * (input - before.value)
                                          - before.velocityGain * before.smoothedRate,
                                       maxAcceleration)
        rate == Accelerated(before.smoothedRate, acceleration, maxRate)
    IN  /\ Is("AccelerationLimited")
        /\ object' = [before EXCEPT !.smoothedAcceleration = acceleration, !.smoothedRate = rate,
                                    !.value = @ + rate * Dt]
        /\ IsBounded(object')
        /\ Given([input |-> input, maxRate |-> maxRate, maxAcceleration |-> maxAcceleration])

ResetAcceleration ==
    /\ Is("AccelerationLimited")
    /\ object' = [object EXCEPT !.hasBeenInitialized = FALSE, !.smoothedRate = 0,
                                !.smoothedAcceleration = 0]
    /\ past' = Start

SetGains(w0, zeta) ==
    /\ \/ Is("AccelerationLimited") /\ object' = WithGains(object, w0, zeta)
       \/ Is("JerkLimited") /\ object' = WithJerkGains(object, w0, zeta)
    /\ past' = [past EXCEPT !.call = "other"]

-----------------------------------------------------------------------------
(* JerkLimitedYoDouble: the acceleration is clamped with the maximum of the  *)
(* jerk; the maximum acceleration, though asked for, is never read.          *)

InitializedAt(filter, position, velocity, acceleration) ==
    [filter EXCEPT !.value = position, !.smoothedRate = velocity,
                   !.smoothedAcceleration = acceleration, !.smoothedJerk = 0,
                   !.hasBeenInitialized = TRUE]

UpdateJerk(position, velocity, acceleration, maxJerk) ==
    LET before == IF object.hasBeenInitialized THEN object
                  ELSE InitializedAt(object, position, velocity, acceleration)
        jerk == clampSymmetric(before.accelerationGain * (acceleration - before.smoothedAcceleration)
                                  + before.velocityGain * (velocity - before.smoothedRate)
                                  + before.positionGain * (position - before.value),
                               maxJerk)
        newAcceleration == clampSymmetric(before.smoothedAcceleration + jerk * Dt, maxJerk)
        rate == before.smoothedRate + newAcceleration * Dt
    IN  /\ Is("JerkLimited")
        /\ object' = [before EXCEPT !.smoothedJerk = jerk, !.smoothedAcceleration = newAcceleration,
                                    !.smoothedRate = rate, !.value = @ + rate * Dt]
        /\ IsBounded(object')
        /\ Given([maxJerk |-> maxJerk])

ResetJerk ==
    /\ Is("JerkLimited")
    /\ object' = [object EXCEPT !.hasBeenInitialized = FALSE, !.smoothedRate = 0,
                                !.smoothedAcceleration = 0, !.smoothedJerk = 0]
    /\ past' = Start

-----------------------------------------------------------------------------
SetMaxDelta(maxDelta) ==
    /\ Is("DeltaLimited")
    /\ object' = [object EXCEPT !.maxDelta = Abs(maxDelta)]
    /\ past' = [past EXCEPT !.call = "other"]

\* updateOutput
UpdateOutput(actual, desired) ==
    LET rawDelta == actual - desired
        isLimited == object.maxDelta < Abs(rawDelta)
    IN  /\ Is("DeltaLimited")
        /\ object' = [object EXCEPT
                         !.value = IF isLimited THEN actual - object.maxDelta * Sign(rawDelta)
                                   ELSE desired,
                         !.isLimitingActive = isLimited]
        /\ Given([actual |-> actual, desired |-> desired])

UpdateDeadbanded(input, deadzone) ==
    /\ Is("Deadbanded")
    /\ object' = [object EXCEPT !.value = applyDeadband(deadzone, input)]
    /\ Given([input |-> input, deadzone |-> deadzone])

LimiterNext ==
    \/ \E input \in LimiterInputs, limit \in Limits \cup NegativeLimits :
          UpdateRate(input, limit) \/ SetMaxDelta(limit)
    \/ \E input \in LimiterInputs, limit \in Limits : UpdateDeadbanded(input, limit)
    \/ \E input \in LimiterInputs, maxRate, maxAcceleration \in Limits :
          UpdateAcceleration(input, maxRate, maxAcceleration)
    \/ \E position, velocity, acceleration \in LimiterInputs, maxJerk \in Limits :
          UpdateJerk(position, velocity, acceleration, maxJerk)
    \/ \E actual, desired \in LimiterInputs : UpdateOutput(actual, desired)
    \/ \E gain \in Gains : SetGains(gain[1], gain[2])
    \/ ResetRate \/ ResetAcceleration \/ ResetJerk

LimiterSpec == LimiterInit /\ [][LimiterNext]_vars

-----------------------------------------------------------------------------
UpdatedNow == past'.call = "update"

\* Nearer to the input by maxRate * dt, or there; the first update jumps.
RateKept ==
    UpdatedNow =>
        LET distance == IF past.isFirst THEN 0 ELSE Abs(past'.given.input - object.value)
            left     == Max({0, distance - past'.given.maxRate * Dt})
        IN  /\ Abs(past'.given.input - object'.value) = left
            /\ Abs(object'.value - object.value) = distance - left \/ past.isFirst
            /\ object'.limited <=> left > 0

\* A rate that a lowered maximum cuts may change by more than the acceleration.
AccelerationKept ==
    UpdatedNow =>
        LET oldRate == IF past.isFirst THEN 0 ELSE object.smoothedRate
            oldValue == IF past.isFirst THEN past'.given.input ELSE object.value
        IN  /\ Abs(object'.smoothedRate) <= past'.given.maxRate
            /\ Abs(object'.value - oldValue) <= past'.given.maxRate * Dt
            /\ \/ Abs(object'.smoothedRate - oldRate) <= past'.given.maxAcceleration * Dt
               \/ Abs(oldRate) > past'.given.maxRate

JerkKept ==
    UpdatedNow =>
        /\ Abs(object'.smoothedJerk) <= past'.given.maxJerk
        /\ \/ past.isFirst
           \/ Abs(object'.smoothedAcceleration - object.smoothedAcceleration) <= past'.given.maxJerk * Dt
           \/ Abs(object.smoothedAcceleration) > past'.given.maxJerk

\* Of the values no further than maxDelta from the actual one, the nearest to the desired one.
DeltaKept ==
    UpdatedNow =>
        LET near == {v \in interpolate(past'.given.actual, past'.given.desired) :
                        Abs(v - past'.given.actual) <= object.maxDelta}
        IN  /\ object'.value \in near
            /\ \A v \in near : Abs(object'.value - past'.given.desired) <= Abs(v - past'.given.desired)
            /\ object'.isLimitingActive <=> object'.value # past'.given.desired

\* No jump at the edges of the dead zone.
DeadbandContinuous ==
    UpdatedNow /\ past.call = "update" =>
        Abs(object'.value - object.value)
            <= Abs(past'.given.input - past.given.input) + Abs(past'.given.deadzone - past.given.deadzone)

(* A limited value comes as near to what is asked for as its limits at that *)
(* update allow and never nearer: a rate (rate_limited_yo_variable.h), a     *)
(* rate and its derivative, a jerk, the distance of two values; a dead zone  *)
(* shifts what it lets through such that the output does not jump.           *)
LimitsKept ==
    [][/\ Is("RateLimited") => RateKept
       /\ Is("AccelerationLimited") => AccelerationKept
       /\ Is("JerkLimited") => JerkKept
       /\ Is("DeltaLimited") => DeltaKept
       /\ Is("Deadbanded") => DeadbandContinuous]_vars
=============================================================================
