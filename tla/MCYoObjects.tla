----------------------------- MODULE MCYoObjects -----------------------------
(* The numbers of YoObjects for TLC: a configuration has no negative ones.   *)
EXTENDS YoObjects

MCLimiterInputs  == {-2, 0, 3}
MCNegativeLimits == {-1}
MCGains          == {<<1, 1>>, <<1, 0>>}
MCVelocities     == {-4, 0, 4}
MCWrapInputs     == {-2, 1, 3, 5, 13}
MCFrequencies    == {-1, 1, 3}
MCEnumerations == {<<0, 1, 2>>, <<0, 2>>, <<1, 2>>}
\* One half is 3; the others are wholes, and numbers a text rounds up, down and to zero.
MCSixths       == {-27, -9, -4, -3, -1, 0, 1, 2, 3, 6, 9, 24, 25, 102, 186, 192}
MCWholeNumbers == {-33, -32, -5, -1, 0, 1, 3, 4, 17, 31, 32}
=============================================================================
