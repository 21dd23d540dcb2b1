--------------------------- MODULE VelocityFilters ---------------------------
(***************************************************************************)
(* The filters that estimate a velocity: backlash_processing from a        *)
(* velocity, backlash_compensating_velocity, filtered_finite_difference    *)
(* and filtered_discrete_velocity from positions.                          *)
(***************************************************************************)
EXTENDS OwnedObject, TLC

CONSTANTS Positions,       \* such that a difference over dt, over slopTime and over times is whole
          Velocities,
          SlopTimes,       \* provided, as the smoothing constants are: they may change
          Times,           \* readings of the clock of the discrete velocity
          VelocityDt,      \* seconds between updates
          HalfTurn         \* pi

ASSUME VelocityAssumption ==
    /\ Positions \subseteq Int /\ Velocities \subseteq Int /\ SlopTimes \subseteq Nat /\ Times \subseteq Int
    /\ VelocityDt \in Nat \ {0} /\ HalfTurn \in Nat \ {0}

MaxAge == Max(SlopTimes) + VelocityDt    \* bound: longer times are not told apart

None == <<0, "NONE">>
OK(direction) == <<direction, "OK">>
Slop(direction) == <<direction, "SLOP">>
isInBacklash(state) == state[2] = "SLOP"
Direction(state) == state[1]

\* The direction a velocity shows, the old one if it shows none.
Towards(velocity, direction) == IF velocity = 0 THEN direction ELSE Sign(velocity)
Later(time) == Min({time + VelocityDt, MaxAge})

NewBacklashProcessing ==
    [class |-> "BacklashProcessing", value |-> 0, hasBeenCalled |-> FALSE,
     backlashState |-> None, timeSinceSloppy |-> 0]

NewFiniteDifference ==
    [class |-> "FiniteDifference", value |-> 0, lastPosition |-> 0, hasBeenCalled |-> FALSE]

NewBacklashCompensating ==
    [class |-> "BacklashCompensating", value |-> 0, lastPosition |-> 0, hasBeenCalled |-> FALSE,
     backlashState |-> None, timeSinceSloppy |-> 0, finiteDifferenceVelocity |-> NewFiniteDifference]

NewDiscreteVelocity ==
    [class |-> "DiscreteVelocity", value |-> 0, hasBeenCalled |-> FALSE, lastPosition |-> 0,
     lastUpdateTime |-> 0, lastUpdateDirection |-> 0, unfilteredVelocity |-> 0]

VelocityInit ==
    \/ /\ object = NewBacklashProcessing
       /\ past = [call |-> "reset", direction |-> 1, age |-> 0, velocity |-> 0, slopTime |-> 0]
    \/ /\ object = NewBacklashCompensating
       /\ past = [call |-> "reset", direction |-> 0, age |-> 0, velocity |-> 0, slopTime |-> 0]
    \/ /\ object = NewFiniteDifference
       /\ past = [call |-> "reset", position |-> 0, lowest |-> 0, highest |-> 0]
    \/ /\ object = NewDiscreteVelocity
       /\ past = [call |-> "reset", position |-> 0, direction |-> 0, moves |-> 0]

-----------------------------------------------------------------------------
(* The states of a backlash and the time since it was entered.  The          *)
(* compensating filter starts to count anew when it leaves it.               *)

\* Mutant: a reversal within the backlash is not noticed.
AfterVelocityOnce(filter, velocity, slopTime, restarts) ==
    LET direction == Direction(filter.backlashState)
    IN  IF ~isInBacklash(filter.backlashState) /\ velocity * direction < 0
        THEN [filter EXCEPT !.timeSinceSloppy = 0, !.backlashState = Slop(-direction)]
        ELSE IF isInBacklash(filter.backlashState) /\ filter.timeSinceSloppy > slopTime
        THEN [filter EXCEPT !.timeSinceSloppy = IF restarts THEN 0 ELSE @, !.backlashState = OK(direction)]
        ELSE filter

AfterVelocity(filter, velocity, slopTime, restarts) ==
    LET direction == Direction(filter.backlashState)
    IN  IF velocity * direction < 0
        THEN [filter EXCEPT !.timeSinceSloppy = 0, !.backlashState = Slop(-direction)]
        ELSE IF isInBacklash(filter.backlashState) /\ filter.timeSinceSloppy > slopTime
        THEN [filter EXCEPT !.timeSinceSloppy = IF restarts THEN 0 ELSE @, !.backlashState = OK(direction)]
        ELSE filter

\* value * clamp(time / slopTime, 0, 1), and all of it where 0 / 0 is not a number
Share(value, time, slopTime) == IF time >= slopTime THEN value ELSE (value * time) \div slopTime

\* What the caller knows: the direction of the velocities and since when it is this one.
Reversals(velocity, slopTime) ==
    LET direction == Towards(velocity, past.direction)
        reversed  == direction # past.direction /\ past.direction # 0
    IN  past' = [call |-> "update", direction |-> direction, velocity |-> velocity,
                 slopTime |-> slopTime, age |-> IF reversed THEN 0 ELSE Later(past.age)]

UpdateProcessing(velocity, slopTime) ==
    LET started == IF object.backlashState = None THEN [object EXCEPT !.backlashState = OK(1)] ELSE object
        after   == AfterVelocity([started EXCEPT !.timeSinceSloppy = Later(@)],
                                 velocity, slopTime, FALSE)
    IN  /\ Is("BacklashProcessing")
        /\ object' = [after EXCEPT !.hasBeenCalled = TRUE,
                                   !.value = IF slopTime < VelocityDt THEN velocity
                                             ELSE Share(velocity, after.timeSinceSloppy, slopTime)]
        /\ Reversals(velocity, slopTime)

\* reset of both: the time since the last reversal goes on
ResetBacklash ==
    /\ Is("BacklashProcessing") \/ Is("BacklashCompensating")
    /\ object' = [object EXCEPT !.hasBeenCalled = FALSE, !.backlashState = None]
    /\ past' = [past EXCEPT !.call = "reset",
                            !.direction = IF Is("BacklashProcessing") THEN 1 ELSE 0]

-----------------------------------------------------------------------------
(* FilteredFiniteDifferenceYoVariable                                        *)

\* Mutant: the position from before a reset is taken for the last one.
FiniteDifferencesFromOld(filter, position, areAngles) ==
    LET difference == IF areAngles THEN angleDifferenceMinusPiToPi(position, filter.lastPosition, HalfTurn)
                      ELSE position - filter.lastPosition
    IN  {[filter EXCEPT !.hasBeenCalled = TRUE, !.lastPosition = position, !.value = v] :
            v \in interpolate(difference \div VelocityDt, IF filter.hasBeenCalled THEN filter.value ELSE 0)}

\* The filters an update can leave, the smoothing constant being any in [0, 1].
FiniteDifferences(filter, position, areAngles) ==
    LET last   == IF filter.hasBeenCalled THEN filter.lastPosition ELSE position
        value  == IF filter.hasBeenCalled THEN filter.value ELSE 0
        difference == IF areAngles THEN angleDifferenceMinusPiToPi(position, last, HalfTurn)
                      ELSE position - last
    IN  {[filter EXCEPT !.hasBeenCalled = TRUE, !.lastPosition = position, !.value = v] :
            v \in interpolate(difference \div VelocityDt, value)}

\* The velocities observed, of a straight or the shorter way round, and none at the start.
ObserveVelocity(position, raw) ==
    past' = IF object.hasBeenCalled
            THEN [call |-> "update", position |-> position,
                  lowest |-> Min({past.lowest, raw}), highest |-> Max({past.highest, raw})]
            ELSE [call |-> "update", position |-> position, lowest |-> 0, highest |-> 0]

ShorterWay(position) ==
    CHOOSE d \in (1 - HalfTurn) .. HalfTurn : (position - past.position - d) % (2 * HalfTurn) = 0

UpdateDifference(position) ==
    /\ Is("FiniteDifference")
    /\ object' \in FiniteDifferences(object, position, FALSE)
    /\ ObserveVelocity(position, (position - past.position) \div VelocityDt)

UpdateForAngles(position) ==
    /\ Is("FiniteDifference")
    /\ object' \in FiniteDifferences(object, position, TRUE)
    /\ ObserveVelocity(position, ShorterWay(position) \div VelocityDt)

ResetDifference ==
    /\ Is("FiniteDifference")
    /\ object' = [object EXCEPT !.hasBeenCalled = FALSE]
    /\ past' = [past EXCEPT !.call = "reset"]

-----------------------------------------------------------------------------
(* BacklashCompensatingVelocityYoVariable: reset leaves the filter of the    *)
(* finite differences alone, which goes on from the position it saw last.    *)

UpdateCompensating(position, slopTime) ==
    /\ Is("BacklashCompensating")
    /\ \E difference \in FiniteDifferences(object.finiteDifferenceVelocity, position, FALSE) :
           LET started == [object EXCEPT !.hasBeenCalled = TRUE,
                                         !.lastPosition = IF object.hasBeenCalled THEN @ ELSE position,
                                         !.value = IF object.hasBeenCalled THEN @ ELSE 0,
                                         !.finiteDifferenceVelocity = difference,
                                         !.timeSinceSloppy = Later(@)]
               velocity == difference.value
               after == IF object.backlashState # None THEN AfterVelocity(started, velocity, slopTime, TRUE)
                        ELSE IF velocity # 0 THEN [started EXCEPT !.backlashState = OK(Sign(velocity))]
                        ELSE started
               moved == position - started.lastPosition
               scaled == IF isInBacklash(after.backlashState)
                         THEN Share(moved, after.timeSinceSloppy, slopTime) ELSE moved
           IN  /\ \E value \in interpolate(scaled \div VelocityDt, started.value) :
                     object' = [after EXCEPT !.lastPosition = position, !.value = value]
               /\ Reversals(velocity, slopTime)

-----------------------------------------------------------------------------
(* FilteredDiscreteVelocityYoVariable: reset leaves the unfiltered velocity, *)
(* which the next update, seeing no movement, lets decay.                    *)

\* Mutant: a turn is a velocity like any other.
OnMovementWithTurns(directionChanged, moved, elapsed) ==
    IF elapsed <= 0 THEN 0 ELSE moved \div elapsed

OnMovement(directionChanged, moved, elapsed) ==
    IF directionChanged \/ elapsed <= 0 THEN 0 ELSE moved \div elapsed

\* The movements of the position since the start, up to two in one direction.
Movements(position) ==
    LET moved == IF object.hasBeenCalled THEN position - past.position ELSE 0
    IN  past' = [call |-> "update", position |-> position,
                 direction |-> Towards(moved, past.direction),
                 moves |-> IF moved = 0 THEN past.moves
                           ELSE IF Sign(moved) = past.direction THEN 2 ELSE 1]

UpdateDiscrete(position, time) ==
    LET started == IF object.hasBeenCalled THEN object
                   ELSE [object EXCEPT !.hasBeenCalled = TRUE, !.lastPosition = position,
                                       !.lastUpdateTime = time, !.lastUpdateDirection = 0]
        moved   == position - started.lastPosition
        directionChanged == moved # 0 /\ Sign(moved) # started.lastUpdateDirection
    IN  /\ Is("DiscreteVelocity")
        /\ \E unfiltered \in IF moved = 0 THEN interpolate(0, object.unfilteredVelocity)   \* 0.99 * it
                             ELSE {OnMovement(directionChanged, moved, time - started.lastUpdateTime)} :
           \E value \in interpolate(unfiltered, object.value) :
              object' = [started EXCEPT
                            !.value = value,
                            !.unfilteredVelocity = unfiltered,
                            !.lastUpdateDirection = Towards(moved, @),
                            !.lastPosition = position,
                            !.lastUpdateTime = IF moved # 0 THEN time ELSE @]
        /\ Movements(position)

ResetDiscrete ==
    /\ Is("DiscreteVelocity")
    /\ object' = [object EXCEPT !.hasBeenCalled = FALSE]
    /\ past' = [past EXCEPT !.call = "reset", !.direction = 0, !.moves = 0]

VelocityNext ==
    \/ \E velocity \in Velocities, slopTime \in SlopTimes : UpdateProcessing(velocity, slopTime)
    \/ \E position \in Positions : UpdateDifference(position) \/ UpdateForAngles(position)
    \/ \E position \in Positions, slopTime \in SlopTimes : UpdateCompensating(position, slopTime)
    \/ \E position \in Positions, time \in Times : UpdateDiscrete(position, time)
    \/ ResetBacklash \/ ResetDifference \/ ResetDiscrete

VelocitySpec == VelocityInit /\ [][VelocityNext]_vars

-----------------------------------------------------------------------------
\* A turn enters the backlash, and only more than slopTime after the last one it is left.
BacklashPlayedOut ==
    /\ object'.backlashState # None => Direction(object'.backlashState) = past'.direction
    /\ past.direction # 0 /\ past'.direction # past.direction => isInBacklash(object'.backlashState)
    /\ isInBacklash(object.backlashState) /\ ~isInBacklash(object'.backlashState) =>
          past'.age > past'.slopTime

\* The input is let through in the share of slopTime that has passed.
RampedUp ==
    object'.value = IF past'.slopTime < VelocityDt THEN past'.velocity
                    ELSE Share(past'.velocity, past'.age, past'.slopTime)

\* A movement counts from the second one in a direction; what a reset left may still decay.
CountsFromSecondMove ==
    object'.unfilteredVelocity # 0 =>
        \/ past'.moves = 0
        \/ past'.moves = 2 /\ Sign(object'.unfilteredVelocity) = past'.direction

(* What a change of direction does, told by the inputs alone: the backlash   *)
(* filters enter their slop and leave it when slopTime is over, however      *)
(* often the direction changes meanwhile and whether reset was called or not *)
(* (backlash_processing_yo_variable.h: zeroed at a change of sign, then      *)
(* ramped up over slopTime), and the discrete velocity waits for a second    *)
(* movement in the new direction.                                            *)
ReversalsPlayedOut ==
    [][past'.call = "update" =>
          /\ Is("BacklashProcessing") \/ Is("BacklashCompensating") => BacklashPlayedOut
          /\ Is("BacklashProcessing") => RampedUp
          /\ Is("DiscreteVelocity") => CountsFromSecondMove]_vars

(* A filtered difference lies among the differences observed since the last  *)
(* reset, those of angles taken by the shorter way round: neither a position *)
(* from before a reset nor a turn across the limits shows as a velocity.     *)
DifferencesWithinObserved ==
    Is("FiniteDifference") /\ Updated =>
        past.lowest <= object.value /\ object.value <= past.highest
=============================================================================
