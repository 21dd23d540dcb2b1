---------------------------- MODULE YoNamespace ----------------------------
(***************************************************************************)
(* Namespaces (registry/yo_namespace) and the name tools they are built    *)
(* on (tools/yo_tools).  A name is a sequence of characters; a namespace   *)
(* keeps its full name and the sub-names it was split into, and each       *)
(* question about it can be asked of either.                               *)
(***************************************************************************)
EXTENDS Integers, SequencesExt

CONSTANTS Separator,    \* kNamespaceSeparator
          LowerOf,      \* std::tolower, on every character that is used
          NoNamespace   \* std::nullopt, a null pointer to a namespace

ASSUME SeparatorAssumption == LowerOf[Separator] = Separator

-----------------------------------------------------------------------------
(* Names. *)

toLower(name) == [i \in DOMAIN name |-> LowerOf[name[i]]]

Same(name, other, ignoreCase) ==
    IF ignoreCase THEN toLower(name) = toLower(other) ELSE name = other

splitName(name) ==
    LET cuts == {0, Len(name) + 1} \union {i \in DOMAIN name : name[i] = Separator}
        cut  == SetToSortSeq(cuts, <)
    IN  [k \in 1..Len(cut) - 1 |-> SubSeq(name, cut[k] + 1, cut[k + 1] - 1)]

joinNames(subNames) ==
    FlattenSeq([i \in DOMAIN subNames |->
                  IF i = 1 THEN subNames[1] ELSE <<Separator>> \o subNames[i]])

toShortName(name) == Last(splitName(name))

-----------------------------------------------------------------------------
(* Namespaces.  The constructors throw on an empty list and on empty        *)
(* sub-names in a full name.                                                *)

FromSubNames(subNames) == [name |-> joinNames(subNames), subNames |-> subNames]
FromName(name) == [name |-> name, subNames |-> splitName(name)]

size(ns) == Len(ns.subNames)
isRoot(ns) == size(ns) = 1

checkNamespaceSanity(ns) ==
    /\ \A i \in 1..size(ns) : ns.subNames[i] # <<>> /\ ~Contains(ns.subNames[i], Separator)
    /\ joinNames(ns.subNames) = ns.name
    /\ \A i, j \in 1..size(ns) : ns.subNames[i] = ns.subNames[j] => i = j

concatenate(ns, other) == FromSubNames(ns.subNames \o other.subNames)
append(ns, name) == FromSubNames(ns.subNames \o splitName(name))
prepend(ns, name) == FromSubNames(splitName(name) \o ns.subNames)

\* Mutant: the last sub-name is lost.
subNamespaceShort(ns, fromIndex, toIndex) ==
    IF fromIndex = 0 /\ toIndex = size(ns) THEN ns
    ELSE IF fromIndex + 1 >= toIndex THEN NoNamespace
    ELSE FromSubNames(SubSeq(ns.subNames, fromIndex + 1, toIndex - 1))

subNamespace(ns, fromIndex, toIndex) ==
    IF fromIndex = 0 /\ toIndex = size(ns) THEN ns
    ELSE IF fromIndex = toIndex THEN NoNamespace
    ELSE FromSubNames(SubSeq(ns.subNames, fromIndex + 1, toIndex))

\* for a length of at most size(ns)
removeFirst(ns, length) == subNamespace(ns, length, size(ns))
removeLast(ns, length) == subNamespace(ns, 0, size(ns) - length)
getParent(ns) == removeLast(ns, 1)

startsWith(ns, query, ignoreCase) ==
    /\ size(query) <= size(ns)
    /\ \A i \in 1..size(query) : Same(query.subNames[i], ns.subNames[i], ignoreCase)

endsWith(ns, query, ignoreCase) ==
    /\ size(query) <= size(ns)
    /\ \A i \in 0..size(query) - 1 :
          Same(query.subNames[size(query) - i], ns.subNames[size(ns) - i], ignoreCase)

\* only the first sub-name equal to the first one of the query is tried
containsPath(ns, query, ignoreCase) ==
    /\ size(query) <= size(ns)
    /\ LET first == SelectInSubSeq(ns.subNames, 1, size(ns) - size(query) + 1,
                                   LAMBDA s : Same(s, query.subNames[1], ignoreCase))
       IN  /\ first # 0
           /\ \A i \in 1..size(query) - 1 :
                 Same(query.subNames[i + 1], ns.subNames[first + i], ignoreCase)

removeStart(ns, toRemove) ==
    IF ns.name = toRemove.name \/ ~startsWith(ns, toRemove, FALSE) THEN NoNamespace
    ELSE removeFirst(ns, size(toRemove))

removeEnd(ns, toRemove) ==
    IF ns.name = toRemove.name \/ ~endsWith(ns, toRemove, FALSE) THEN NoNamespace
    ELSE removeLast(ns, size(toRemove))

-----------------------------------------------------------------------------
(* The same questions asked of the full name.                               *)

\* Mutant: the text may end within a sub-name.
startsWithText(ns, nameToMatch, ignoreCase) ==
    /\ Len(nameToMatch) <= Len(ns.name)
    /\ Same(SubSeq(ns.name, 1, Len(nameToMatch)), nameToMatch, ignoreCase)

startsWithName(ns, nameToMatch, ignoreCase) ==
    /\ Len(nameToMatch) <= Len(ns.name)
    /\ Same(SubSeq(ns.name, 1, Len(nameToMatch)), nameToMatch, ignoreCase)
    /\ \/ Len(ns.name) = Len(nameToMatch)
       \/ ns.name[Len(nameToMatch) + 1] = Separator

\* Mutant: the text may begin within a sub-name.
endsWithText(ns, nameToMatch, ignoreCase) ==
    LET rest == Len(ns.name) - Len(nameToMatch)
    IN  rest >= 0 /\ Same(SubSeq(ns.name, rest + 1, Len(ns.name)), nameToMatch, ignoreCase)

endsWithName(ns, nameToMatch, ignoreCase) ==
    LET rest == Len(ns.name) - Len(nameToMatch)
    IN  /\ rest >= 0
        /\ Same(SubSeq(ns.name, rest + 1, Len(ns.name)), nameToMatch, ignoreCase)
        /\ rest = 0 \/ ns.name[rest] = Separator

\* only the first occurrence of the text is tried
containsName(ns, nameToMatch, ignoreCase) ==
    LET found == {i \in 1..Len(ns.name) - Len(nameToMatch) + 1 :
                     Same(SubSeq(ns.name, i, i + Len(nameToMatch) - 1), nameToMatch, ignoreCase)}
        start == CHOOSE i \in found : \A j \in found : i <= j
        end   == start + Len(nameToMatch)
    IN  /\ found # {}
        /\ start = 1 \/ ns.name[start - 1] = Separator
        /\ end > Len(ns.name) \/ ns.name[end] = Separator

=============================================================================
