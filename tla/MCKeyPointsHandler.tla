------------------------- MODULE MCKeyPointsHandler -------------------------
(***************************************************************************)
(* Four buffer indices and two listeners, one of which may be registered   *)
(* twice: every shape of a vector of up to four key points, with an index  *)
(* before, between and behind them.                                        *)
(***************************************************************************)
EXTENDS KeyPointsHandler

\* The history of the last trim is looked at in the run on trimming only.
NoHistory == <<keyPoints, enableKeyPoints, listeners, shown, shownEnabled>>
=============================================================================
