------------------------------ MODULE YoObjects ------------------------------
(***************************************************************************)
(* One object of any class of variables or filters, from its construction  *)
(* on.  Filters do not interact but by the variables they read, so that    *)
(* every object can be followed alone; the families keep the names of      *)
(* their calls and what their classes share.                               *)
(***************************************************************************)
EXTENDS VariableTypes, GlitchFilters, WindowFilters, LimiterFilters, VelocityFilters,
        SmoothingFilters

Init == VariableInit \/ GlitchInit \/ WindowInit \/ LimiterInit \/ VelocityInit \/ SmoothingInit

Next == VariableNext \/ GlitchNext \/ WindowNext \/ LimiterNext \/ VelocityNext \/ SmoothingNext

Spec == Init /\ [][Next]_vars
=============================================================================
