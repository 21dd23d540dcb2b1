--------------------------- MODULE YoVariableList ---------------------------
(***************************************************************************)
(* registry/yo_variable_list: a collection of variables kept twice, as a   *)
(* list and, for the searches, as a map from the lower-case simple name to *)
(* the variables of that name.  The list owns nothing: the registries move *)
(* the variables it holds from one namespace to another.                   *)
(***************************************************************************)
EXTENDS YoNamespace, Erasing, TLC, FiniteSets

CONSTANTS Variables,
          NoVariable,      \* nullptr
          NameOf,          \* getName(), fixed when the variable is built
          OwnNamespaces,   \* full names of the registries variables are put in
          ParentName       \* name of the registry others are attached below

VARIABLES variableList,              \* variableList_
          simpleNameToVariablesMap,  \* simpleNameToVariablesMap_
          namespaceOf                \* getNamespace() of every variable

vars == <<variableList, simpleNameToVariablesMap, namespaceOf>>

NoEnding == NoNamespace    \* std::nullopt for a namespace ending

KeyOf(v) == toLower(NameOf[v])

Init ==
    /\ variableList = <<>>
    /\ simpleNameToVariablesMap = <<>>
    /\ namespaceOf = [v \in Variables |-> NoNamespace]

-----------------------------------------------------------------------------
(* registerVariableInMap: what it answers, and the map it leaves.           *)

SameNamespace(v, w) ==
    \/ namespaceOf[v] = NoNamespace /\ namespaceOf[w] = NoNamespace
    \/ /\ namespaceOf[v] # NoNamespace
       /\ namespaceOf[w] # NoNamespace
       /\ namespaceOf[v].name = namespaceOf[w].name

Homonyms(map, v) == IF KeyOf(v) \in DOMAIN map THEN map[KeyOf(v)] ELSE <<>>

IsPresent(map, v) == Contains(Homonyms(map, v), v)

\* Mutant: only the oldest homonym is looked at.
CollidesWithFirst(map, v) ==
    ~IsPresent(map, v) /\ Homonyms(map, v) # <<>> /\ SameNamespace(v, Homonyms(map, v)[1])

Collides(map, v) ==
    ~IsPresent(map, v) /\ \E w \in ToSet(Homonyms(map, v)) : SameNamespace(v, w)

registerVariableInMap(map, v) ==
    [key \in DOMAIN map \union {KeyOf(v)} |->
        IF key = KeyOf(v) THEN Append(Homonyms(map, v), v) ELSE map[key]]

\* a variable that is present, or collides (NameCollisionException), changes nothing
Registers(v) == ~IsPresent(simpleNameToVariablesMap, v) /\ ~Collides(simpleNameToVariablesMap, v)

\* Mutant: the whole entry of the map goes.
WithoutHomonyms(map, v) == [key \in DOMAIN map \ {KeyOf(v)} |-> map[key]]

WithoutVariable(map, v) ==
    IF KeyOf(v) \in DOMAIN map THEN [map EXCEPT ![KeyOf(v)] = Without(@, v)] ELSE map

-----------------------------------------------------------------------------
(* The operations of the list.                                              *)

Add(v) ==
    /\ Registers(v)
    /\ simpleNameToVariablesMap' = registerVariableInMap(simpleNameToVariablesMap, v)
    /\ variableList' = Append(variableList, v)
    /\ UNCHANGED namespaceOf

AddAt(index, v) ==
    /\ Registers(v)
    /\ simpleNameToVariablesMap' = registerVariableInMap(simpleNameToVariablesMap, v)
    /\ variableList' = InsertAt(variableList, index, v)
    /\ UNCHANGED namespaceOf

\* add, on the list and the map that the calls of addAll before it left
AddTo(both, v) ==
    IF both.threw \/ IsPresent(both.map, v) THEN both
    ELSE IF Collides(both.map, v) THEN [both EXCEPT !.threw = TRUE]
    ELSE [both EXCEPT !.map = registerVariableInMap(@, v), !.list = Append(@, v)]

\* addAll stops at the first collision and keeps what it had added
AddAll(vs) ==
    LET both == [list |-> variableList, map |-> simpleNameToVariablesMap, threw |-> FALSE]
        adding[n \in 0 .. Len(vs)] == IF n = 0 THEN both ELSE AddTo(adding[n - 1], vs[n])
        added == adding[Len(vs)]
    IN  /\ variableList' = added.list
        /\ simpleNameToVariablesMap' = added.map
        /\ UNCHANGED namespaceOf

\* the new variable is registered while the one it replaces is still in the map
Set(index, v) ==
    LET previousVariable == variableList[index]
    IN  /\ v # previousVariable
        /\ Registers(v)
        /\ simpleNameToVariablesMap' =
              WithoutVariable(registerVariableInMap(simpleNameToVariablesMap, v), previousVariable)
        /\ variableList' = ReplaceAt(variableList, index, v)
        /\ UNCHANGED namespaceOf

RemoveIndex(index) ==
    /\ simpleNameToVariablesMap' = WithoutVariable(simpleNameToVariablesMap, variableList[index])
    /\ variableList' = Without(variableList, variableList[index])
    /\ UNCHANGED namespaceOf

RemoveVariable(v) ==
    /\ KeyOf(v) \in DOMAIN simpleNameToVariablesMap
    /\ simpleNameToVariablesMap' = [simpleNameToVariablesMap EXCEPT ![KeyOf(v)] = RemoveFirst(@, v)]
    /\ variableList' = RemoveFirst(variableList, v)
    /\ UNCHANGED namespaceOf

Clear ==
    /\ variableList' = <<>>
    /\ simpleNameToVariablesMap' = <<>>
    /\ UNCHANGED namespaceOf

-----------------------------------------------------------------------------
(* What the registries do to the variables meanwhile: a variable is put in  *)
(* a registry, taken out of it, and a whole tree of registries is attached  *)
(* below another one or detached from it.                                   *)

PutIn(v, ownName) ==
    /\ namespaceOf' = [namespaceOf EXCEPT ![v] = FromName(ownName)]
    /\ UNCHANGED <<variableList, simpleNameToVariablesMap>>

TakeOut(v) ==
    /\ namespaceOf' = [namespaceOf EXCEPT ![v] = NoNamespace]
    /\ UNCHANGED <<variableList, simpleNameToVariablesMap>>

InRegistry == {v \in Variables : namespaceOf[v] # NoNamespace}
IsAttached(v) == startsWithName(namespaceOf[v], ParentName, FALSE)

AttachAll ==
    /\ \A v \in InRegistry : ~IsAttached(v)
    /\ namespaceOf' = [v \in Variables |-> IF v \in InRegistry THEN prepend(namespaceOf[v], ParentName)
                                           ELSE NoNamespace]
    /\ UNCHANGED <<variableList, simpleNameToVariablesMap>>

DetachAll ==
    /\ \A v \in InRegistry : IsAttached(v) /\ ~isRoot(namespaceOf[v])
    /\ namespaceOf' = [v \in Variables |->
                         IF v \in InRegistry THEN removeStart(namespaceOf[v], FromName(ParentName))
                         ELSE NoNamespace]
    /\ UNCHANGED <<variableList, simpleNameToVariablesMap>>

Next ==
    \/ \E v \in Variables : Add(v) \/ RemoveVariable(v)
    \/ \E v \in Variables, index \in 1..Len(variableList) + 1 : AddAt(index, v)
    \/ \E v, w \in Variables : v # w /\ AddAll(<<v, w>>)
    \/ \E v \in Variables, index \in DOMAIN variableList : Set(index, v)
    \/ \E index \in DOMAIN variableList : RemoveIndex(index)
    \/ Clear
    \/ \E v \in Variables, ownName \in OwnNamespaces : PutIn(v, ownName)
    \/ \E v \in Variables : TakeOut(v)
    \/ AttachAll
    \/ DetachAll

Spec == Init /\ [][Next]_vars

-----------------------------------------------------------------------------
(* The searches.                                                            *)

Candidates(name) ==
    IF toLower(name) \in DOMAIN simpleNameToVariablesMap
    THEN simpleNameToVariablesMap[toLower(name)] ELSE <<>>

\* Mutant: the text may lie anywhere in the namespace.
IsAround(v, namespaceEnding) ==
    namespaceOf[v] # NoNamespace /\ containsName(namespaceOf[v], namespaceEnding, FALSE)

IsBelow(v, namespaceEnding) ==
    namespaceOf[v] # NoNamespace /\ endsWithName(namespaceOf[v], namespaceEnding, FALSE)

findVariables(namespaceEnding, name) ==
    IF namespaceEnding = NoEnding THEN Candidates(name)
    ELSE SelectSeq(Candidates(name), LAMBDA v : IsBelow(v, namespaceEnding))

findVariable(namespaceEnding, name) ==
    IF namespaceEnding = NoEnding /\ Candidates(name) # <<>> THEN Candidates(name)[1]
    ELSE LET index == SelectInSeq(Candidates(name),
                                  LAMBDA v : namespaceEnding # NoEnding /\ IsBelow(v, namespaceEnding))
         IN  IF index = 0 THEN NoVariable ELSE Candidates(name)[index]

countNumberOfVariables(namespaceEnding, name) == Len(findVariables(namespaceEnding, name))

hasUniqueVariable(namespaceEnding, name) == countNumberOfVariables(namespaceEnding, name) = 1

findVariablesIn(ns) ==
    SelectSeq(variableList,
              LAMBDA v : namespaceOf[v] # NoNamespace /\ namespaceOf[v].name = ns.name)

\* YoVariableHolder::splitTrailingName
splitTrailingName(name) ==
    LET cut == SelectLastInSeq(name, LAMBDA c : c = Separator)
    IN  IF cut = 0 THEN [ending |-> NoEnding, name |-> name]
        ELSE [ending |-> SubSeq(name, 1, cut - 1), name |-> SubSeq(name, cut + 1, Len(name))]

-----------------------------------------------------------------------------
(* Properties. *)

\* The list and the map hold the same variables, each once and under its own
\* lower-case name, whatever sequence of add, set, remove, addAll and clear
\* was called: set and the two removals repair both structures by hand.
MapMatchesList ==
    LET map == simpleNameToVariablesMap
    IN  /\ \A i, j \in DOMAIN variableList : variableList[i] = variableList[j] => i = j
        /\ \A key \in DOMAIN map : \A i, j \in DOMAIN map[key] :
              /\ map[key][i] = map[key][j] => i = j
              /\ KeyOf(map[key][i]) = key
        /\ ToSet(variableList) = UNION {ToSet(map[key]) : key \in DOMAIN map}

\* No operation of the list brings together two variables of one full name:
\* only the registries can, by moving a variable that is already listed.
InCollision(v, w) ==
    /\ v # w /\ Contains(variableList, v) /\ Contains(variableList, w)
    /\ KeyOf(v) = KeyOf(w) /\ SameNamespace(v, w)

CollisionsOnlyByMoving ==
    [][\A v, w \in Variables :
          InCollision(v, w)' => InCollision(v, w) \/ namespaceOf' # namespaceOf]_vars

\* A search, which reads the map and compares texts, finds what is in the list
\* and lies below the ending sub-name by sub-name; it is unique when there is
\* one such variable and fails only when there is none.
Names == {NameOf[v] : v \in Variables}
Endings == OwnNamespaces \union {namespaceOf[v].name : v \in InRegistry} \union {ParentName}

Matching(namespaceEnding, name) ==
    {v \in ToSet(variableList) :
       /\ Same(NameOf[v], name, TRUE)
       /\ namespaceEnding # NoEnding =>
            v \in InRegistry /\ endsWith(namespaceOf[v], FromName(namespaceEnding), FALSE)}

SearchesFindListed ==
    \A namespaceEnding \in Endings \union {NoEnding}, name \in Names :
       LET fullName == IF namespaceEnding = NoEnding THEN name
                       ELSE append(FromName(namespaceEnding), name).name
           split    == splitTrailingName(fullName)
           found    == findVariables(split.ending, split.name)
           matching == Matching(namespaceEnding, name)
       IN  /\ ToSet(found) = matching
           /\ hasUniqueVariable(split.ending, split.name) <=> Cardinality(matching) = 1
           /\ findVariable(split.ending, split.name) =
                 IF matching = {} THEN NoVariable ELSE found[1]

\* Asking a namespace about a text and about the namespace of that text gives
\* one answer for startsWith and endsWith.  contains looks at one place only:
\* what it finds in the text is there, and on sub-names, when no two of them
\* are alike, it finds all there is.
NamespaceQueriesAgree ==
    \A v \in InRegistry, text \in Endings, ignoreCase \in BOOLEAN :
       LET ns       == namespaceOf[v]
           query    == FromName(text)
           isInside == \E i \in 0..size(ns) - 1, j \in 1..size(ns) :
                          /\ i < j
                          /\ size(query) = j - i
                          /\ \A k \in 1..j - i : Same(ns.subNames[i + k], query.subNames[k], ignoreCase)
           alike    == \E i, j \in 1..size(ns) : i # j /\ Same(ns.subNames[i], ns.subNames[j], ignoreCase)
       IN  /\ startsWithName(ns, text, ignoreCase) <=> startsWith(ns, query, ignoreCase)
           /\ endsWithName(ns, text, ignoreCase) <=> endsWith(ns, query, ignoreCase)
           /\ containsName(ns, text, ignoreCase) => isInside
           /\ containsPath(ns, query, ignoreCase) => isInside
           /\ ~alike /\ isInside => containsPath(ns, query, ignoreCase)

\* What is put before or after a namespace comes off again, and a namespace
\* stays what its full name is split into.
EditsUndone ==
    \A v \in InRegistry, text \in Endings :
       LET ns == namespaceOf[v]
           other == FromName(text)
       IN  /\ ns = FromName(ns.name)
           /\ removeStart(prepend(ns, text), other) = ns
           /\ removeEnd(append(ns, text), other) = ns
           /\ concatenate(ns, other) = append(ns, text)
           /\ getParent(append(ns, toShortName(text))) = ns

\* Namespaces are lists of sub-names, whether a list or a text is given and
\* whatever they are built from (see the two formulas).
NamespacesAreLists == NamespaceQueriesAgree /\ EditsUndone
=============================================================================
