----------------------------- MODULE YoRegistry -----------------------------
(***************************************************************************)
(* The tree of YoRegistry objects and the YoVariables registered in them.  *)
(* Registry and variable point at each other (variables_ and registry_),   *)
(* parent and child as well (children_, nameToChildMap_ and parent_), and  *)
(* the operations of the two classes call each other to keep that so; some *)
(* of them throw halfway.  One thread, so a call is one action; a call     *)
(* that throws before it has changed anything is no action.                *)
(*                                                                         *)
(* nameToVariableMap_ always holds the names of variables_ and is not kept *)
(* apart.  parameters_ is left to the model of parameters.  Every registry *)
(* has a listener until something clears them.                             *)
(***************************************************************************)
EXTENDS Integers, SequencesExt, Erasing

CONSTANTS Registry, Variable,
          RegistryName,       \* a function: the name of each registry
          LowerOf,            \* toLower of the names of registries
          VariableName,       \* a function: the name of each variable, in lower case
          None                \* nullptr

ASSUME RegistryAssumption ==
    /\ IsFiniteSet(Registry) /\ None \notin Registry
    /\ DOMAIN RegistryName = Registry /\ DOMAIN VariableName = Variable
    /\ \A r \in Registry : RegistryName[r] \in DOMAIN LowerOf

FULLY_MUTABLE == 0
RESTRICTED == 1
IMMUTABLE == 2
Level == {FULLY_MUTABLE, RESTRICTED, IMMUTABLE}

\* Mutant: a restricted registry gives up its contents.
isRemovalAllowedBelowImmutable(restrictionLevel) == restrictionLevel # IMMUTABLE

isAdditionAllowed(restrictionLevel) == restrictionLevel # IMMUTABLE
isRemovalAllowed(restrictionLevel) == restrictionLevel = FULLY_MUTABLE

VARIABLES
    parent,     \* parent_
    children,   \* children_
    childMap,   \* nameToChildMap_
    level,      \* restrictionLevel_
    namespace,  \* namespace_, as the sequence of its sub-names
    variables,  \* variables_
    registry,   \* registry_ of each variable
    fullName,   \* fullName_ of each variable, <<>> when it is reset
    listening,  \* the registries whose listeners are registered
    told        \* history: the changes told during the last call, in order

tree == <<parent, children, childMap, namespace>>
contents == <<variables, registry, fullName>>
vars == <<parent, children, childMap, level, namespace, variables, registry, fullName,
          listening, told>>

Init ==
    /\ parent = [r \in Registry |-> None]
    /\ children = [r \in Registry |-> <<>>]
    /\ childMap = [r \in Registry |-> <<>>]
    /\ level = [r \in Registry |-> FULLY_MUTABLE]
    /\ namespace = [r \in Registry |-> <<RegistryName[r]>>]
    /\ variables = [r \in Registry |-> <<>>]
    /\ registry = [v \in Variable |-> None]
    /\ fullName = [v \in Variable |-> <<>>]
    /\ listening = Registry
    /\ told = <<>>
-----------------------------------------------------------------------------
(* The shape of the tree *)

\* r and the registries above it, along the parent pointers p: what is in every
\* set that has r and the parent of each of its members
Ancestors(p, r) ==
    {s \in Registry : \A S \in SUBSET Registry :
        (r \in S /\ \A x \in S : p[x] \in S \cup {None}) => s \in S}

\* r and the registries below it, along children_
Subtree(r) ==
    {s \in Registry : \A S \in SUBSET Registry :
        (r \in S /\ \A x \in S : ToSet(children[x]) \subseteq S) => s \in S}

\* The names on the way from c down to d, those of both ends included
NamesBetween(c, d) ==
    LET names[n \in 0 .. Cardinality(Registry)] ==
            [x \in Registry |->
                IF n = 0 \/ x = c \/ parent[x] = None THEN <<RegistryName[x]>>
                ELSE Append(names[n - 1][parent[x]], RegistryName[x])]
    IN  names[Cardinality(Registry)][d]

\* The loops over children_ visit a before b.
Before(a, b) ==
    \/ a # b /\ b \in Subtree(a)
    \/ \E r \in Registry : \E i, j \in DOMAIN children[r] :
          i < j /\ a \in Subtree(children[r][i]) /\ b \in Subtree(children[r][j])

\* Mutant: the name stays in the map.
ForgetNothing(map, name) == map

Forget(map, name) == [n \in DOMAIN map \ {name} |-> map[n]]
Remember(map, name, r) == [n \in DOMAIN map \cup {name} |-> IF n = name THEN r ELSE map[n]]

\* A change and the registries whose listeners hear of it: notifyListeners
\* climbs from the registry it happened to along the parent pointers p.
Change(kind, target, r, p) == [kind |-> kind, target |-> target, to |-> Ancestors(p, r) \cap listening]

\* The name of a child in nameToChildMap_
KeyOf(c) == LowerOf[RegistryName[c]]

\* checkSanity of a namespace whose names are well-formed: the names of one
\* namespace differ, if only in case.
Sane(names) == IsInjective(names)
-----------------------------------------------------------------------------
(* Variables *)

\* A variable does not collide with itself.
NameTakenByOther(r, v) == \E u \in ToSet(variables[r]) : u # v /\ VariableName[u] = VariableName[v]

NameTaken(r, v) == \E u \in ToSet(variables[r]) : VariableName[u] = VariableName[v]

IsListed(r, v) == r # None /\ v \in ToSet(variables[r])

\* Mutant: the variable stays in the list it leaves.
TransferredCopy(v, r, s) ==
    [x \in Registry |-> IF x = s THEN Append(variables[x], v) ELSE variables[x]]

\* A variable leaves r, which is None when it is not registered, for s.
Transferred(v, r, s) ==
    [x \in Registry |-> IF x = s /\ ~IsListed(s, v) THEN Append(variables[x], v)
                        ELSE IF x = r THEN Without(variables[x], v) ELSE variables[x]]

Owned(v, r) == registry' = [registry EXCEPT ![v] = r] /\ fullName' = [fullName EXCEPT ![v] = <<>>]

\* removeVariable calls setRegistry(nullptr), which calls removeVariable again
\* while the variable is still listed: both calls tell the listeners.
RemovedTwice(v, r) == LET change == Change("VARIABLE_REMOVED", v, r, parent) IN <<change, change>>

addVariable(r, v) ==
    /\ isAdditionAllowed(level[r])
    /\ ~NameTaken(r, v)
    /\ IsListed(registry[v], v) => isRemovalAllowed(level[registry[v]])
    /\ variables' = Transferred(v, registry[v], r)
    /\ Owned(v, r)
    /\ told' = (IF IsListed(registry[v], v) THEN RemovedTwice(v, registry[v]) ELSE <<>>)
                  \o <<Change("VARIABLE_ADDED", v, r, parent)>>
    /\ UNCHANGED <<tree, level, listening>>

\* (A variable listed here and owned by another registry does not occur while
\* RegistriesAgree holds.)
removeVariable(r, v) ==
    /\ IsListed(r, v) /\ registry[v] \in {r, None}
    /\ isRemovalAllowed(level[r])
    /\ variables' = Transferred(v, r, None)
    /\ Owned(v, None)
    /\ told' = IF registry[v] = r THEN RemovedTwice(v, r)
                                  ELSE <<Change("VARIABLE_REMOVED", v, r, parent)>>
    /\ UNCHANGED <<tree, level, listening>>

LetsGo(v) == IsListed(registry[v], v) => isRemovalAllowed(level[registry[v]])
Accepts(r, v) == r # None => (isAdditionAllowed(level[r]) /\ ~NameTakenByOther(r, v))

\* YoVariable::setRegistry, r = None to detach; registry_ is nullptr by the
\* time the old registry removes the variable, which tells its listeners once.
Detached(v) ==
    IF IsListed(registry[v], v) THEN <<Change("VARIABLE_REMOVED", v, registry[v], parent)>> ELSE <<>>

\* Mutant: the cached full name survives the move.
setRegistryKeepingName(v, r) ==
    /\ r # registry[v]
    /\ LetsGo(v) /\ Accepts(r, v)
    /\ variables' = Transferred(v, registry[v], r)
    /\ registry' = [registry EXCEPT ![v] = r]
    /\ told' = Detached(v) \o IF r = None THEN <<>> ELSE <<Change("VARIABLE_ADDED", v, r, parent)>>
    /\ UNCHANGED <<tree, level, fullName, listening>>

\* Mutant: the listeners of the old registry are told, those of the new are not.
setRegistryTellingOld(v, r) ==
    /\ r # registry[v]
    /\ LetsGo(v) /\ Accepts(r, v)
    /\ variables' = Transferred(v, registry[v], r)
    /\ Owned(v, r)
    /\ told' = Detached(v)
    /\ UNCHANGED <<tree, level, listening>>

setRegistry(v, r) ==
    /\ r # registry[v]
    /\ LetsGo(v) /\ Accepts(r, v)
    /\ variables' = Transferred(v, registry[v], r)
    /\ Owned(v, r)
    /\ told' = Detached(v) \o IF r = None THEN <<>> ELSE <<Change("VARIABLE_ADDED", v, r, parent)>>
    /\ UNCHANGED <<tree, level, listening>>

\* The old registry throws: registry_ is nullptr by then, and stays so.
setRegistryRefusedByOld(v, r) ==
    /\ r # registry[v] /\ ~LetsGo(v)
    /\ registry' = [registry EXCEPT ![v] = None]
    /\ told' = <<>>
    /\ UNCHANGED <<tree, level, variables, fullName, listening>>

\* The new registry throws: the variable has left the old one by then.
setRegistryRefusedByNew(v, r) ==
    /\ r # registry[v] /\ LetsGo(v) /\ ~Accepts(r, v)
    /\ variables' = Transferred(v, registry[v], None)
    /\ registry' = [registry EXCEPT ![v] = None]
    /\ told' = Detached(v)
    /\ UNCHANGED <<tree, level, fullName, listening>>

FullNameOf(v) ==
    IF registry[v] = None THEN <<VariableName[v]>>
                          ELSE Append(namespace[registry[v]], VariableName[v])

getFullName(v) ==
    /\ fullName[v] = <<>>
    /\ fullName' = [fullName EXCEPT ![v] = FullNameOf(v)]
    /\ told' = <<>>
    /\ UNCHANGED <<tree, level, variables, registry, listening>>
-----------------------------------------------------------------------------
(* Children *)

\* Mutant: the registries below keep their namespaces.
RenamedAlone(c, prefix) ==
    /\ namespace' = [namespace EXCEPT ![c] = Append(prefix, RegistryName[c])]
    /\ fullName' = [v \in Variable |-> IF IsListed(c, v) THEN <<>> ELSE fullName[v]]

\* setParentNamespace renames the subtree of c and resets the cached names of
\* the variables in it.
Renamed(c, prefix) ==
    /\ namespace' = [r \in Registry |->
                        IF r \in Subtree(c) THEN prefix \o NamesBetween(c, r) ELSE namespace[r]]
    /\ fullName' = [v \in Variable |->
                        IF \E r \in Subtree(c) : IsListed(r, v) THEN <<>> ELSE fullName[v]]

\* detachFromParent; a child that its parent does not list only loses parent_.
ChildrenWithout(c) == [r \in Registry |-> IF r = parent[c] THEN Without(children[r], c) ELSE children[r]]
MapWithout(c) == [r \in Registry |-> IF r = parent[c] THEN Forget(childMap[r], KeyOf(c)) ELSE childMap[r]]
NamesWithout(c) ==
    [r \in Registry |-> IF parent[c] # None /\ r \in Subtree(c) THEN NamesBetween(c, r) ELSE namespace[r]]
ParentWithout(c) == [parent EXCEPT ![c] = None]
ToldOfDetaching(c) ==
    IF parent[c] = None THEN <<>>
    ELSE <<Change("REGISTRY_REMOVED", c, parent[c], parent)>>
MayDetach(c) == parent[c] # None => isRemovalAllowed(level[parent[c]])

\* setRestrictionLevel stops at a registry that is restricted enough already.
LevelsRaised(c, newLevel) ==
    [r \in Registry |->
        IF r \in Subtree(c) /\ \A x \in Subtree(c) : r \in Subtree(x) => (x = c \/ level[x] < newLevel)
        THEN newLevel ELSE level[r]]

\* What addChild checks before it changes anything
MayAdopt(r, c) ==
    /\ c # r /\ isAdditionAllowed(level[r])
    /\ KeyOf(c) \notin DOMAIN childMap[r]
    /\ MayDetach(c)

\* The namespace of r by the time c has left its old parent.
PrefixFor(r, c) == IF parent[c] # None /\ r \in Subtree(c) THEN NamesBetween(c, r) ELSE namespace[r]

SaneBelow(r, c) == \A d \in Subtree(c) : Sane(PrefixFor(r, c) \o NamesBetween(c, d))

\* Mutant: the child keeps the level it came with.
LevelOfGuest(r, c) == level

LevelOfAdopted(r, c) == IF level[c] < level[r] THEN LevelsRaised(c, level[r]) ELSE level

addChild(r, c, notify) ==
    /\ MayAdopt(r, c) /\ SaneBelow(r, c)
    /\ parent' = [parent EXCEPT ![c] = r]
    /\ children' = [ChildrenWithout(c) EXCEPT ![r] = Append(@, c)]
    /\ childMap' = [MapWithout(c) EXCEPT ![r] = Remember(@, KeyOf(c), c)]
    /\ Renamed(c, PrefixFor(r, c))
    /\ level' = LevelOfAdopted(r, c)
    /\ told' = ToldOfDetaching(c) \o IF notify THEN <<Change("REGISTRY_ADDED", c, r, parent')>> ELSE <<>>
    /\ UNCHANGED <<variables, registry, listening>>

\* checkSanity throws at d, the first namespace with a name twice: c has left
\* its old parent, points at r, and r does not list it; what comes before d has
\* its new name, and only what is renamed completely has its names reset.
addChildFails(r, c, d) ==
    /\ MayAdopt(r, c)
    /\ d \in Subtree(c) /\ ~Sane(PrefixFor(r, c) \o NamesBetween(c, d))
    /\ \A e \in Subtree(c) : Before(e, d) => Sane(PrefixFor(r, c) \o NamesBetween(c, e))
    /\ parent' = [parent EXCEPT ![c] = r]
    /\ children' = ChildrenWithout(c) /\ childMap' = MapWithout(c)
    /\ LET renamed == {e \in Subtree(c) : e = d \/ Before(e, d)}
           reset   == IF parent[c] = None THEN {e \in renamed : d \notin Subtree(e)} ELSE Subtree(c)
       IN  /\ namespace' = [x \in Registry |->
                    IF x \in renamed THEN PrefixFor(r, c) \o NamesBetween(c, x)
                                     ELSE NamesWithout(c)[x]]
           /\ fullName' = [v \in Variable |->
                    IF \E x \in reset : IsListed(x, v) THEN <<>> ELSE fullName[v]]
    /\ told' = ToldOfDetaching(c)
    /\ UNCHANGED <<level, variables, registry, listening>>

removeChild(r, c) ==
    /\ parent[c] = r /\ isRemovalAllowed(level[r])
    /\ parent' = ParentWithout(c) /\ children' = ChildrenWithout(c) /\ childMap' = MapWithout(c)
    /\ Renamed(c, <<>>)
    /\ told' = ToldOfDetaching(c)
    /\ UNCHANGED <<level, variables, registry, listening>>

detachFromParent(c) == parent[c] # None /\ removeChild(parent[c], c)

setRestrictionLevel(r, newLevel) ==
    /\ level[r] <= newLevel
    /\ level' = LevelsRaised(r, newLevel)
    /\ told' = <<>>
    /\ UNCHANGED <<tree, contents, listening>>

addListener(r) == listening' = listening \cup {r} /\ told' = <<>> /\ UNCHANGED <<tree, level, contents>>
removeListeners(r) == listening' = listening \ {r} /\ told' = <<>> /\ UNCHANGED <<tree, level, contents>>
-----------------------------------------------------------------------------
(* destroy *)

MayDestroy(r) == (parent[r] = None \/ level[r] = FULLY_MUTABLE) /\ MayDetach(r)

\* Removing a variable throws in a registry that is not fully mutable.
Blocks(r) == variables[r] # <<>> /\ ~isRemovalAllowed(level[r])

\* destroyInternal walks over variables_ while the destroy() of each variable
\* erases it from there.  The iterator then steps over the one that moved into
\* the gap, until it reaches the copies the erased tail leaves behind.  (The
\* walk is undefined behaviour; this is what it does to an array of pointers
\* whose memory stays in place.)
Skipped(list) == {list[i] : i \in {n \in DOMAIN list : n % 2 = 0 /\ n < Len(list)}}

\* What destroying the registries of S does to their variables; those that are
\* skipped keep pointing at a registry that does not list them.
Struck(S) == UNION {ToSet(variables[s]) \ Skipped(variables[s]) : s \in S}
Emptied(S) == variables' = [s \in Registry |-> IF s \in S THEN <<>> ELSE variables[s]]
Released(S, more) == registry' = [v \in Variable |-> IF v \in Struck(S) \cup more THEN None ELSE registry[v]]
Reset(r, S) ==
    fullName' = [v \in Variable |->
        IF \/ v \in Struck(S)
           \/ parent[r] # None /\ \E s \in Subtree(r) : IsListed(s, v)
        THEN <<>> ELSE fullName[v]]
ToldOfStriking(r, S) ==
    SetToSeq(UNION {{Change("VARIABLE_REMOVED", v, s, ParentWithout(r)) : v \in ToSet(variables[s]) \ Skipped(variables[s])} : s \in S})

\* What is left of the registries of S when they are done: the children still
\* point at their parents and keep their namespaces.
Dissolved(r, S) ==
    /\ parent' = ParentWithout(r) /\ namespace' = NamesWithout(r)
    /\ children' = [s \in Registry |-> IF s \in S THEN <<>> ELSE ChildrenWithout(r)[s]]
    /\ childMap' = [s \in Registry |-> IF s \in S THEN <<>> ELSE MapWithout(r)[s]]
    /\ level' = [s \in Registry |-> IF s \in S THEN FULLY_MUTABLE ELSE level[s]]
    /\ listening' = listening \ S

destroy(r) ==
    /\ MayDestroy(r) /\ \A s \in Subtree(r) : ~Blocks(s)
    /\ Dissolved(r, Subtree(r))
    /\ Emptied(Subtree(r)) /\ Released(Subtree(r), {}) /\ Reset(r, Subtree(r))
    /\ told' = ToldOfDetaching(r) \o ToldOfStriking(r, Subtree(r))
                  \o <<Change("CLEARED", None, r, ParentWithout(r))>>

\* b, the first registry on the way that blocks, throws at its first variable,
\* which has lost registry_ by then; whatever came before b is done.
destroyFails(r, b) ==
    /\ MayDestroy(r) /\ b \in Subtree(r) /\ Blocks(b)
    /\ \A s \in Subtree(r) : Before(s, b) => ~Blocks(s)
    /\ LET walked == {s \in Subtree(r) : Before(s, b)}
       IN  /\ Dissolved(r, {s \in walked : b \notin Subtree(s)})
           /\ Emptied(walked) /\ Released(walked, {Head(variables[b])}) /\ Reset(r, walked)
           /\ told' = ToldOfDetaching(r) \o ToldOfStriking(r, walked)
-----------------------------------------------------------------------------
(* Specifications *)

\* The calls that succeed, but for destroy()
Succeed ==
    \/ \E r \in Registry, v \in Variable : addVariable(r, v) \/ removeVariable(r, v)
    \/ \E v \in Variable : getFullName(v) \/ \E r \in Registry \cup {None} : setRegistry(v, r)
    \/ \E r, c \in Registry : removeChild(r, c) \/ \E notify \in BOOLEAN : addChild(r, c, notify)
    \/ \E r \in Registry : \/ detachFromParent(r) \/ addListener(r) \/ removeListeners(r)
                           \/ \E newLevel \in Level : setRestrictionLevel(r, newLevel)

\* destroy() of a registry without children and with few variables
LeavesNothing(r) == children[r] = <<>> /\ Skipped(variables[r]) = {}

Next == Succeed \/ \E r \in Registry : LeavesNothing(r) /\ destroy(r)

RefusingNext ==
    Next \/ \E v \in Variable, r \in Registry \cup {None} :
                setRegistryRefusedByOld(v, r) \/ setRegistryRefusedByNew(v, r)
FailingChildNext == Next \/ \E r, c, d \in Registry : addChildFails(r, c, d)
DestroyingNext == Next \/ \E r \in Registry : destroy(r)
FailingDestroyNext == Next \/ \E r, b \in Registry : destroyFails(r, b)

Spec == Init /\ [][Next]_vars
RefusingSpec == Init /\ [][RefusingNext]_vars
FailingChildSpec == Init /\ [][FailingChildNext]_vars
DestroyingSpec == Init /\ [][DestroyingNext]_vars
FailingDestroySpec == Init /\ [][FailingDestroyNext]_vars
-----------------------------------------------------------------------------
(* Properties *)

\* No list has an element twice: collisions of names are found even when the
\* call comes back to the registry that already has the variable.
TypeOK ==
    /\ parent \in [Registry -> Registry \cup {None}]
    /\ \A r \in Registry :
          /\ children[r] \in Seq(Registry) /\ IsInjective(children[r])
          /\ variables[r] \in Seq(Variable) /\ IsInjective(variables[r])
    /\ level \in [Registry -> Level]
    /\ registry \in [Variable -> Registry \cup {None}]
    /\ listening \subseteq Registry

\* "Registries are organized into a tree structure with one parent, variables,
\* and child registries" (yo_registry.h): parent_, children_ and nameToChildMap_
\* tell the same story, and nobody is above itself, which the recursions of
\* getRoot and notifyListeners rely on; addChild has no check for a cycle but
\* that of the names.
TreeConsistent ==
    \A r \in Registry :
        /\ ToSet(children[r]) = {c \in Registry : parent[c] = r}
        /\ childMap[r] = [n \in {KeyOf(c) : c \in ToSet(children[r])} |->
                            CHOOSE c \in ToSet(children[r]) : KeyOf(c) = n]
        /\ parent[r] # None => r \notin Ancestors(parent, parent[r])

\* "Each YoVariable can only be registered to one registry at a time"
\* (yo_registry.h): the list of a registry and registry_ of a variable agree.
RegistriesAgree == \A r \in Registry, v \in Variable : IsListed(r, v) <=> registry[v] = r

\* A registry is never less restricted than the one above it: what makes it
\* sound that setRestrictionLevel does not look below a child that is restricted
\* enough, and that destroy() asks the level of the registry only.
LevelsDescend == \A r \in Registry : parent[r] # None => level[parent[r]] <= level[r]

\* No list has an element twice, the three maps of the tree agree, and the
\* restrictions grow downwards (see the three formulas).
TreeWellFormed == TypeOK /\ TreeConsistent /\ LevelsDescend

\* The stored namespace is the path from the root, whichever of the registries
\* above was moved last.
NamespaceIsPath ==
    \A r \in Registry :
        namespace[r] = IF parent[r] = None THEN <<RegistryName[r]>>
                       ELSE Append(namespace[parent[r]], RegistryName[r])

\* A cached full name is never out of date: every move of the variable, of its
\* registry, or of a registry above resets it.
CachedNameValid == \A v \in Variable : fullName[v] # <<>> => fullName[v] = FullNameOf(v)

\* The names kept below are those of the tree, wherever a subtree was attached
\* or moved to (see the two formulas).
NamesAreCurrent == NamespaceIsPath /\ CachedNameValid

\* "Structure can only be expanded" at RESTRICTED and "is frozen" at IMMUTABLE
\* (yo_registry_restriction_level.h), through every path by which a variable or
\* a child can be taken away, from another registry as well.
RestrictionHolds ==
    [][\A r \in Registry :
        /\ level[r] # FULLY_MUTABLE => /\ IsPrefix(variables[r], variables'[r])
                                      /\ IsPrefix(children[r], children'[r])
        /\ level[r] = IMMUTABLE => variables'[r] = variables[r] /\ children'[r] = children[r]]_vars

Heard(kind, target, r) == \E i \in DOMAIN told' : told'[i].kind = kind /\ told'[i].target = target /\ r \in told'[i].to

\* A listener of a registry, or of one above it, hears of every variable that
\* comes or goes, a variable that moves from one registry to another included;
\* one whose registry is destroyed may only hear that the registry is gone.
VariablesAreTold ==
    [][\A r \in Registry, v \in Variable : \A s \in Ancestors(parent, r) \cap listening :
        /\ IsListed(r, v) /\ v \notin ToSet(variables'[r]) =>
              \/ Heard("VARIABLE_REMOVED", v, s)
              \/ \E c \in (Ancestors(parent, r) \cap Subtree(s)) \ {s} : Heard("REGISTRY_REMOVED", c, s)
        /\ ~IsListed(r, v) /\ v \in ToSet(variables'[r]) => Heard("VARIABLE_ADDED", v, s)]_vars

\* yo_registry_changed_listener.h: a Change is "A single change done to a
\* YoRegistry": no listener is told twice of the same one.
ToldOnce == [][IsInjective(told')]_vars

\* yo_registry.h, destroy: "destroys every variable and child registry in its
\* subtree": no variable still points at a registry that does not list it.
RegisteredAreListed == \A v \in Variable : registry[v] # None => IsListed(registry[v], v)

\* yo_registry.h, destroy: it throws "if this registry is not the root and is
\* not fully mutable"; another destroy() empties the registry, and leaves no
\* variable in a list that its registry_ does not know of.
ListedAreRegistered == \A r \in Registry, v \in Variable : IsListed(r, v) => registry[v] = r

\* "Each YoVariable can only be registered to one registry at a time".
ListedOnce == \A v \in Variable : Cardinality({r \in Registry : IsListed(r, v)}) <= 1
=============================================================================
