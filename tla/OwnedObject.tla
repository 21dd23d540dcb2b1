---------------------------- MODULE OwnedObject ----------------------------
(***************************************************************************)
(* What the modules of the filter classes share.  A behaviour follows one  *)
(* object of one class: every filter is owned and updated by one caller,   *)
(* and what surrounds it (the filtered variable, the providers of window   *)
(* sizes, rates and smoothing constants) may change between any two calls, *)
(* so it is an argument of the calls.                                      *)
(*                                                                         *)
(* A double is an integer: the inputs are chosen such that every quotient  *)
(* a class computes is one, and where it weighs two values by a factor out *)
(* of [0, 1] any value on the grid between the two may come out.           *)
(***************************************************************************)
EXTENDS Integers, Sequences, SequencesExt, FiniteSetsExt

VARIABLES object,   \* the members of the object, with the name of its class
          past      \* what its caller did: nothing in the code

vars == <<object, past>>

Is(class) == object.class = class

\* The last call was an update.
Updated == past.call = "update"

-----------------------------------------------------------------------------
(* filter_math.h                                                            *)

Abs(x) == IF x < 0 THEN -x ELSE x
Sign(x) == IF x > 0 THEN 1 ELSE IF x < 0 THEN -1 ELSE 0

clamp(value, min, max) ==
    LET raised == IF value < min THEN min ELSE value IN IF max < raised THEN max ELSE raised
clampSymmetric(value, max) == clamp(value, -max, max)

\* (1 - alpha) * a + alpha * b for every alpha in [0, 1]
interpolate(a, b) == IF a <= b THEN a .. b ELSE b .. a

\* std::fmod: the remainder has the sign of the dividend
Fmod(a, n) == Sign(a) * (Abs(a) % n)

\* a - b in (-halfTurn, halfTurn]
angleDifferenceMinusPiToPi(a, b, halfTurn) ==
    LET difference == Fmod(a - b, 2 * halfTurn)
    IN  IF difference <= -halfTurn THEN difference + 2 * halfTurn
        ELSE IF difference > halfTurn THEN difference - 2 * halfTurn
        ELSE difference

applyDeadband(deadband, value) ==
    IF value > deadband THEN value - deadband
    ELSE IF value < -deadband THEN value + deadband
    ELSE 0

-----------------------------------------------------------------------------
(* Ghosts                                                                   *)

\* The last n elements of a sequence, or all of them.
LastOf(s, n) == SubSeq(s, 1 + (IF Len(s) > n THEN Len(s) - n ELSE 0), Len(s))
SumOf(s) == FoldLeft(LAMBDA x, y : x + y, 0, s)
=============================================================================
