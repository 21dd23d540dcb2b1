---------------------------- MODULE YoParameter -----------------------------
(***************************************************************************)
(* Parameters: variables that have to be loaded before their value can be  *)
(* asked for.  Setting one calls its listener, which may ask for other     *)
(* parameters and then throws when one of them is not loaded: that ends    *)
(* whatever call had set the first one, where it is.  One thread; a call   *)
(* is one action.                                                          *)
(*                                                                         *)
(* A text is the value that it denotes, or Bad when it denotes none.       *)
(***************************************************************************)
EXTENDS Integers, SequencesExt

CONSTANTS Parameter, Value,
          Initial,  \* initialValue_ of each parameter
          Printed,  \* the text printed for each value: printing a double loses digits
          Listened, \* the parameters that get a listener
          Asks,     \* the parameters the listener of each parameter asks for
          Bad       \* a text that does not parse

ASSUME ParameterAssumption ==
    /\ 0 \in Value /\ Bad \notin Value
    /\ Initial \in [Parameter -> Value] /\ Printed \in [Value -> Value]
    /\ Listened \subseteq Parameter /\ Asks \in [Parameter -> SUBSET Parameter]

VARIABLES
    value,    \* of the variable behind each parameter
    status,   \* loadStatus_
    holder,   \* changedListenerHolder_: "none", or whether the variable still has it
    attended, \* the parameters with a listener in their holder
    given,    \* history: the parameters whose value somebody has given
    threw     \* history: whether the last call threw

parameterVars == <<value, status, holder, attended, given, threw>>

LoadStatus == {"UNLOADED", "DEFAULT", "LOADED"}

ParameterTypeOK ==
    /\ value \in [Parameter -> Value]
    /\ status \in [Parameter -> LoadStatus]
    /\ holder \in [Parameter -> {"none", "attached", "detached"}]
    /\ attended \subseteq Listened
    /\ given \subseteq Parameter /\ threw \in BOOLEAN

\* The constructors of the variables set 0.
ParameterInit ==
    /\ value = [p \in Parameter |-> 0]
    /\ status = [p \in Parameter |-> "UNLOADED"]
    /\ holder = [p \in Parameter |-> "none"]
    /\ attended = {} /\ given = {} /\ threw = FALSE
-----------------------------------------------------------------------------
isLoaded(p) == status[p] # "UNLOADED"

\* The listener of p is called when p gets another value.
Calls(p, v) == v # value[p] /\ holder[p] = "attached" /\ p \in attended

\* It throws when what it asks for is not loaded, with the statuses st.
ListenerThrows(p, v, st) == Calls(p, v) /\ \E q \in Asks[p] : st[q] = "UNLOADED"

\* p gets the value v, with the statuses st at the time the listener is called.
Assigned(p, v, st) ==
    /\ value' = [value EXCEPT ![p] = v]
    /\ given' = given \cup {p}
    /\ threw' = ListenerThrows(p, v, st)
    /\ UNCHANGED <<holder, attended>>

\* Mutant: the status is set behind the value, and not when setting it threw.
loadLate(p, text) ==
    \/ /\ text = Bad /\ threw' = TRUE
       /\ UNCHANGED <<value, status, given, holder, attended>>
    \/ /\ text # Bad /\ Assigned(p, text, status)
       /\ status' = IF threw' THEN status ELSE [status EXCEPT ![p] = "LOADED"]

\* LOADED also when the text does not parse.
load(p, text) ==
    /\ status' = [status EXCEPT ![p] = "LOADED"]
    /\ \/ text = Bad /\ threw' = TRUE /\ UNCHANGED <<value, given, holder, attended>>
       \/ text # Bad /\ Assigned(p, text, status')

loadDefault(p) ==
    /\ status' = [status EXCEPT ![p] = "DEFAULT"]
    /\ Assigned(p, Initial[p], status')

\* Does not load the parameter.
setToString(p, text) ==
    /\ UNCHANGED status
    /\ \/ text = Bad /\ threw' = TRUE /\ UNCHANGED <<value, given, holder, attended>>
       \/ text # Bad /\ Assigned(p, text, status)

\* SingleParameterReader: the value, and the status only then.
readParameter(p, v, loadStatus) ==
    /\ loadStatus # "UNLOADED"
    /\ Assigned(p, v, status)
    /\ status' = IF threw' THEN status ELSE [status EXCEPT ![p] = loadStatus]

addListener(p) ==
    /\ p \in Listened \ attended
    /\ attended' = attended \cup {p}
    /\ holder' = IF holder[p] = "none" THEN [holder EXCEPT ![p] = "attached"] ELSE holder
    /\ threw' = FALSE
    /\ UNCHANGED <<value, status, given>>

removeListener(p) ==
    /\ p \in attended
    /\ attended' = attended \ {p} /\ threw' = FALSE
    /\ UNCHANGED <<value, status, given, holder>>

\* removeListeners of the variable itself, which destroy() of it ends with as
\* well: the holder is lost, and the parameter does not know.
variableRemoveListeners(p) ==
    /\ holder[p] = "attached"
    /\ holder' = [holder EXCEPT ![p] = "detached"] /\ threw' = FALSE
    /\ UNCHANGED <<value, status, given, attended>>
=============================================================================
