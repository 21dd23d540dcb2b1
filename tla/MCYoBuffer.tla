----------------------------- MODULE MCYoBuffer -----------------------------
(***************************************************************************)
(* Small instances of YoBuffer: one variable that takes two values, and    *)
(* buffers of up to three to five slots, so that windows wrap around and   *)
(* every edit has a slot before, in and behind its interval.               *)
(***************************************************************************)
EXTENDS YoBufferHistory
=============================================================================
