---------------------- MODULE MCYoBufferVariableEntry -----------------------
(***************************************************************************)
(* Small instances of YoBufferVariableEntry: two writers, one reader, and  *)
(* windows with start before end, start after end, and a single slot.      *)
(***************************************************************************)
EXTENDS YoBufferVariableEntry, TLC

NegInfValue == -9
SignedNumbers == {-1, 0, 1}
AllWindows == {<<0, 1>>, <<1, 0>>, <<1, 2>>}
TwoWindows == {<<0, 1>>, <<1, 0>>}
OneWindow == {<<1, 2>>}

ThreadSymmetry == Permutations(Writer) \cup Permutations(Reader)

\* The history variable is looked at in the run of the writers only.
NoHistory == <<buffer, currentBounds, boundsChanged, boundsDirty, writer, reader>>
=============================================================================
