------------------------ MODULE MCYoBufferProcessor -------------------------
(***************************************************************************)
(* applyProcessor, and every edit, on buffers of up to five slots whose    *)
(* variable holds one of two values.                                       *)
(***************************************************************************)
EXTENDS YoBufferProcessor
=============================================================================
