--------------------------- MODULE ParameterFiles ---------------------------
(***************************************************************************)
(* Loading the parameters of a registry from XML documents and saving them *)
(* to one: XmlParameterReader, XmlParameterWriter and the loops of their   *)
(* base classes.  The loop of readParametersInRegistry calls listeners and *)
(* may be ended by any of them, so each of its passes is an action.        *)
(*                                                                         *)
(* The registries form a fixed chain; Path names the way to each of them.  *)
(* A document is the list of its entries, each with the full name of a     *)
(* parameter and a text.                                                   *)
(***************************************************************************)
EXTENDS YoParameter, Erasing, FiniteSets

CONSTANTS Registry,
          Path,      \* the names on the way from the root to each registry
          Owner,     \* the registry of each parameter
          Order,     \* the parameters as collectSubtreeParameters finds them
          Documents, \* documents written by somebody else
          None,      \* no registry
          MaxEntries \* bound of the model on what one writer is given

Texts == Value \cup {Bad}
FullName == Seq(Parameter \cup STRING)
DocumentEntry == [name : FullName, text : Texts]

ASSUME FilesAssumption ==
    /\ None \notin Registry /\ Owner \in [Parameter -> Registry]
    /\ Order \in Seq(Parameter) /\ ToSet(Order) = Parameter /\ IsInjective(Order)
    /\ Path \in [Registry -> Seq(STRING)] /\ IsInjective(Path) /\ \A r \in Registry : Path[r] # <<>>
    /\ Documents \subseteq Seq(DocumentEntry)

VARIABLES
    parameterValues, \* of the reader
    reading,         \* the registry being read, or None
    todo,            \* the parameters the loop has ahead of it
    localMap, defaultParameters,
    written,         \* the document the writer holds
    saved            \* history: the text last saved for each parameter, under each registry

loopVars == <<reading, todo, localMap, defaultParameters>>
fileVars == <<parameterValues, written, saved>>
vars == <<parameterVars, loopVars, fileVars>>

NoEntry == <<>>

Init ==
    /\ ParameterInit
    /\ parameterValues = NoEntry /\ localMap = NoEntry /\ defaultParameters = {}
    /\ reading = None /\ todo = <<>>
    /\ written = <<>> /\ saved = [r \in Registry |-> NoEntry]
-----------------------------------------------------------------------------
(* Names and documents *)

ParametersIn == [r \in Registry |-> Kept(Order, {p \in Parameter : IsPrefix(Path[r], Path[Owner[p]])})]

\* getRelativeNamespace: the name starts at the registry, not at its root.
RelativeName(r, p) == Append(SubSeq(Path[Owner[p]], Len(Path[r]), Len(Path[Owner[p]])), p)

Names(document) == {document[i].name : i \in DOMAIN document}

\* Mutant: what is there already stays.
FirstOf(document, name) ==
    LET places == {i \in DOMAIN document : document[i].name = name}
    IN  document[CHOOSE i \in places : \A j \in places : i <= j].text

LastOf(document, name) ==
    LET places == {i \in DOMAIN document : document[i].name = name}
    IN  document[CHOOSE i \in places : \A j \in places : j <= i].text

\* The entry that made the writer create the outermost registry of entry i.
Created(list, i) ==
    CHOOSE k \in DOMAIN list : /\ Head(list[k].name) = Head(list[i].name)
                               /\ \A j \in 1..(k - 1) : Head(list[j].name) # Head(list[i].name)

Before(list, i, j) ==
    \/ Created(list, i) < Created(list, j)
    \/ /\ Created(list, i) = Created(list, j)
       /\ \/ Len(list[i].name) < Len(list[j].name)
          \/ Len(list[i].name) = Len(list[j].name) /\ i < j

\* Registries in the order they were created in, each with its parameters in
\* front of its children.
InDocumentOrder(list) ==
    LET place(i) == Cardinality({j \in DOMAIN list : Before(list, j, i)}) + 1
    IN  [k \in DOMAIN list |-> list[CHOOSE i \in DOMAIN list : place(i) = k]]

Overwritten(map, document) ==
    [name \in DOMAIN map \cup Names(document) |->
        IF name \in Names(document) THEN LastOf(document, name) ELSE map[name]]

\* overwrite stores the first entry that does not exist, and then throws.
UnknownEntries(document) == {i \in DOMAIN document : document[i].name \notin DOMAIN parameterValues}
UpToUnknown(document) == SubSeq(document, 1, CHOOSE i \in UnknownEntries(document) :
                                                \A j \in UnknownEntries(document) : i <= j)
-----------------------------------------------------------------------------
(* XmlParameterReader *)

Idle == reading = None

\* A reader of documents is one of none that then reads them.
newReader ==
    /\ Idle
    /\ parameterValues' = NoEntry /\ threw' = FALSE
    /\ UNCHANGED <<value, status, holder, attended, given, loopVars, written, saved>>

readAndOverwrite(document) ==
    /\ Idle
    /\ parameterValues' = Overwritten(parameterValues, document) /\ threw' = FALSE
    /\ UNCHANGED <<value, status, holder, attended, given, loopVars, written, saved>>

overwrite(document) ==
    /\ Idle
    /\ threw' = (UnknownEntries(document) # {})
    /\ parameterValues' = Overwritten(parameterValues,
                                      IF threw' THEN UpToUnknown(document) ELSE document)
    /\ UNCHANGED <<value, status, holder, attended, given, loopVars, written, saved>>

readParametersInRegistry(r) ==
    /\ Idle
    /\ reading' = r /\ todo' = ParametersIn[r]
    /\ localMap' = parameterValues /\ defaultParameters' = {}
    /\ threw' = FALSE
    /\ UNCHANGED <<value, status, holder, attended, given, fileVars>>

Unnamed(map, name) == [n \in DOMAIN map \ {name} |-> map[n]]

\* An exception ends the loop and the call, and what the call had found is gone.
NextPass(map, defaults) ==
    IF threw' THEN reading' = None /\ todo' = <<>> /\ localMap' = NoEntry /\ defaultParameters' = {}
    ELSE /\ todo' = Tail(todo) /\ localMap' = map /\ defaultParameters' = defaults
         /\ UNCHANGED reading

\* Mutant: the entry stays in the map.
LoadNextKeeping ==
    /\ todo # <<>> /\ RelativeName(reading, Head(todo)) \in DOMAIN localMap
    /\ load(Head(todo), localMap[RelativeName(reading, Head(todo))])
    /\ NextPass(localMap, defaultParameters) /\ UNCHANGED fileVars

LoadNext ==
    /\ todo # <<>> /\ RelativeName(reading, Head(todo)) \in DOMAIN localMap
    /\ load(Head(todo), localMap[RelativeName(reading, Head(todo))])
    /\ NextPass(Unnamed(localMap, RelativeName(reading, Head(todo))), defaultParameters)
    /\ UNCHANGED fileVars

\* Mutant: the name is reported without the way to it.
DefaultNextShortName ==
    /\ todo # <<>> /\ RelativeName(reading, Head(todo)) \notin DOMAIN localMap
    /\ loadDefault(Head(todo))
    /\ NextPass(localMap, defaultParameters \cup {<<Head(todo)>>}) /\ UNCHANGED fileVars

DefaultNext ==
    /\ todo # <<>> /\ RelativeName(reading, Head(todo)) \notin DOMAIN localMap
    /\ loadDefault(Head(todo))
    /\ NextPass(localMap, defaultParameters \cup {RelativeName(reading, Head(todo))})
    /\ UNCHANGED fileVars

\* What is left in localMap is reported as unmatched.
ReadReturns ==
    /\ reading # None /\ todo = <<>>
    /\ reading' = None /\ threw' = FALSE
    /\ localMap' = NoEntry /\ defaultParameters' = {}
    /\ UNCHANGED <<todo, value, status, holder, attended, given, fileVars>>

ReadStep == LoadNext \/ DefaultNext \/ ReadReturns
-----------------------------------------------------------------------------
(* XmlParameterWriter *)

newWriter ==
    /\ Idle
    /\ written' = <<>> /\ saved' = [r \in Registry |-> NoEntry] /\ threw' = FALSE
    /\ UNCHANGED <<value, status, holder, attended, given, loopVars, parameterValues>>

Entry(r, p) == [name |-> RelativeName(r, p), text |-> Printed[value[p]]]

\* The parameters in front of the first that is not loaded, which throws.
Savable(list) ==
    LET unloaded == {i \in DOMAIN list : ~isLoaded(list[i])}
    IN  IF unloaded = {} THEN list
        ELSE SubSeq(list, 1, (CHOOSE i \in unloaded : \A j \in unloaded : i <= j) - 1)

addParameters(r) ==
    LET list == Savable(ParametersIn[r])
    IN  /\ Idle /\ Len(written) + Len(list) <= MaxEntries
        /\ written' = written \o [i \in DOMAIN list |-> Entry(r, list[i])]
        /\ saved' = [saved EXCEPT ![r] = [p \in DOMAIN @ \cup ToSet(list) |->
                        IF p \in ToSet(list) THEN Printed[value[p]] ELSE @[p]]]
        /\ threw' = (list # ParametersIn[r])
        /\ UNCHANGED <<value, status, holder, attended, given, loopVars, parameterValues>>
-----------------------------------------------------------------------------
(* Specification *)

\* What the program does with a single parameter
Program(p) ==
    \/ addListener(p) \/ removeListener(p) \/ variableRemoveListeners(p)
    \/ \E text \in Texts : setToString(p, text)
    \/ \E v \in Value, loadStatus \in LoadStatus : readParameter(p, v, loadStatus)

Load(document) == readAndOverwrite(document) \/ overwrite(document)

Next ==
    \/ \E p \in Parameter : Idle /\ Program(p) /\ UNCHANGED <<loopVars, fileVars>>
    \/ \E document \in Documents \cup {InDocumentOrder(written)} : Load(document)
    \/ \E r \in Registry : readParametersInRegistry(r) \/ addParameters(r)
    \/ ReadStep \/ newReader \/ newWriter

Spec == Init /\ [][Next]_vars
-----------------------------------------------------------------------------
(* Properties *)

TypeOK ==
    /\ ParameterTypeOK
    /\ reading \in Registry \cup {None} /\ todo \in Seq(Parameter)
    /\ defaultParameters \subseteq {RelativeName(r, p) : r \in Registry, p \in Parameter}
    /\ \A name \in DOMAIN parameterValues : parameterValues[name] \in Texts

\* "Recurses from registry, finds all parameters, and initializes them from
\* getValues(). Parameters getValues() does not cover are initialized to
\* default" (abstract_parameter_reader.h): so it is when the call returns,
\* however many calls were ended halfway before it, and the two reports are
\* exactly the parameters without an entry and the entries without a parameter.
ReadIsComplete ==
    [][ReadReturns =>
        LET read  == ToSet(ParametersIn[reading])
            names == {RelativeName(reading, p) : p \in read}
        IN  /\ \A p \in read :
                  IF RelativeName(reading, p) \in DOMAIN parameterValues
                  THEN status[p] = "LOADED" /\ value[p] = parameterValues[RelativeName(reading, p)]
                  ELSE status[p] = "DEFAULT" /\ value[p] = Initial[p]
            /\ defaultParameters = names \ DOMAIN parameterValues
            /\ DOMAIN localMap = DOMAIN parameterValues \ names]_vars

\* While a registry is read, a listener that asks for nothing but the
\* parameters in front of its own, and its own, does not end the reading: they
\* are loaded by the time it is called.
Earlier(p) == {q \in Parameter : \E i, j \in DOMAIN Order : i <= j /\ Order[i] = q /\ Order[j] = p}
ListenersCanRead ==
    [][(reading \in Registry /\ todo # <<>> /\ threw') =>
        (\/ /\ RelativeName(reading, Head(todo)) \in DOMAIN localMap
            /\ localMap[RelativeName(reading, Head(todo))] = Bad
         \/ ~(Asks[Head(todo)] \subseteq Earlier(Head(todo)) \cap ToSet(ParametersIn[reading])))]_vars

\* What was saved comes back when the document is read into the registry it was
\* saved from, to the digits that are printed: also when the same writer was
\* used before, for a save that was ended halfway, for other values, or for
\* another registry.
SavedComesBack ==
    [][\A r \in Registry :
        (ReadReturns /\ reading = r /\ parameterValues = Overwritten(NoEntry, written)) =>
            \A p \in DOMAIN saved[r] : value[p] = saved[r][p] /\ status[p] = "LOADED"]_vars

\* "Parameters ... have to be initialized before they can be used"
\* (yo_parameter.h): the value of a loaded parameter was given by somebody.
LoadedIsGiven == \A p \in Parameter : isLoaded(p) => p \in given

\* "@throws std::runtime_error if any parameter to overwrite does not already
\* exist" (xml_parameter_reader.h): overwriting adds no entry.
OverwriteAddsNothing ==
    [][\A document \in Documents \cup {InDocumentOrder(written)} :
        overwrite(document) => DOMAIN parameterValues' = DOMAIN parameterValues]_vars
=============================================================================
