------------------------ MODULE YoVariableListProofs ------------------------
(***************************************************************************)
(* The list and the map of a YoVariableList hold the same variables after  *)
(* any sequence of calls, and no call brings two variables of one full     *)
(* name together.  For any variables, names and namespaces.                *)
(***************************************************************************)
EXTENDS YoVariableList, SequenceProofs

\* The maps there can be
Maps == UNION {[keys -> Seq(Variables)] : keys \in SUBSET {KeyOf(v) : v \in Variables}}

\* A list and a map that hold the same: a variable is in the list when it is
\* where a search for its name looks.
Agree(list, map) ==
    /\ list \in Seq(Variables) /\ IsInjective(list)
    /\ map \in Maps
    /\ \A key \in DOMAIN map : IsInjective(map[key]) /\ \A v \in ToSet(map[key]) : KeyOf(v) = key
    /\ \A v \in Variables : v \in ToSet(list) <=> v \in ToSet(Homonyms(map, v))

\* Inductive: MapMatchesList, with the types of both
Inv == Agree(variableList, simpleNameToVariablesMap)

\* Two variables of a list that have one full name
Collide(list, v, w) ==
    /\ v # w /\ v \in ToSet(list) /\ w \in ToSet(list)
    /\ KeyOf(v) = KeyOf(w) /\ SameNamespace(v, w)

\* std::find on a vector.
LEMMA ContainsIsMember ==
    ASSUME NEW S, NEW seq \in Seq(S), NEW x
    PROVE  Contains(seq, x) <=> x \in ToSet(seq)
BY DEF Contains, ToSet

\* A vector without duplicates holds nothing when it is empty.
LEMMA EmptyProper == \A S : <<>> \in Seq(S) /\ IsInjective(<<>>) /\ ToSet(<<>>) = {}
BY DEF IsInjective, ToSet

\* The entries of a map are vectors of variables.
LEMMA EntriesAreLists == \A map \in Maps : \A key \in DOMAIN map : map[key] \in Seq(Variables)
BY DEF Maps

\* What the map has for the name of a variable, whether there is an entry or not.
LEMMA HomonymsProper ==
    ASSUME NEW list, NEW map, Agree(list, map), NEW v
    PROVE  /\ Homonyms(map, v) \in Seq(Variables) /\ IsInjective(Homonyms(map, v))
           /\ \A w \in ToSet(Homonyms(map, v)) : KeyOf(w) = KeyOf(v)
           /\ IsPresent(map, v) <=> v \in ToSet(Homonyms(map, v))
<1>1. CASE KeyOf(v) \in DOMAIN map
  <2>1. Homonyms(map, v) = map[KeyOf(v)]
    BY <1>1 DEF Homonyms
  <2>2. /\ map[KeyOf(v)] \in Seq(Variables) /\ IsInjective(map[KeyOf(v)])
        /\ \A w \in ToSet(map[KeyOf(v)]) : KeyOf(w) = KeyOf(v)
    BY <1>1, EntriesAreLists DEF Agree
  <2> QED  BY <2>1, <2>2, ContainsIsMember DEF IsPresent
<1>2. CASE KeyOf(v) \notin DOMAIN map
  <2>1. Homonyms(map, v) = <<>>
    BY <1>2 DEF Homonyms
  <2>2. <<>> \in Seq(Variables) /\ IsInjective(<<>>) /\ ToSet(<<>>) = {}
    BY EmptyProper
  <2> QED  BY <2>1, <2>2, ContainsIsMember DEF IsPresent
<1> QED  BY <1>1, <1>2

\* registerVariableInMap adds an entry or to one, and leaves the others.
LEMMA RegisteredMap ==
    ASSUME NEW map, NEW v
    PROVE  /\ DOMAIN registerVariableInMap(map, v) = {KeyOf(v)} \cup DOMAIN map
           /\ \A key \in {KeyOf(v)} \cup DOMAIN map :
                 registerVariableInMap(map, v)[key] =
                     IF key = KeyOf(v) THEN Append(Homonyms(map, v), v) ELSE map[key]
BY DEF registerVariableInMap

\* A variable that is registered and comes to the list, anywhere in it.
LEMMA RegisteringAgrees ==
    ASSUME NEW list, NEW map, Agree(list, map), NEW v \in Variables, ~IsPresent(map, v),
           NEW new \in Seq(Variables), IsInjective(new), ToSet(new) = ToSet(list) \cup {v}
    PROVE  Agree(new, registerVariableInMap(map, v))
<1> DEFINE after == registerVariableInMap(map, v)
           old == Homonyms(map, v)
           entry == Append(old, v)
<1>1. /\ old \in Seq(Variables) /\ IsInjective(old) /\ v \notin ToSet(old)
      /\ \A w \in ToSet(old) : KeyOf(w) = KeyOf(v)
  BY HomonymsProper
<1>2. entry \in Seq(Variables) /\ IsInjective(entry) /\ ToSet(entry) = ToSet(old) \cup {v}
  <2> HIDE DEF old
  <2> QED  BY <1>1, AppendProper
<1>3. /\ DOMAIN after = {KeyOf(v)} \cup DOMAIN map
      /\ \A key \in {KeyOf(v)} \cup DOMAIN map : after[key] = IF key = KeyOf(v) THEN entry ELSE map[key]
  BY RegisteredMap
<1> HIDE DEF after, entry
<1>0. after \in Maps
  <2>1. PICK keys \in SUBSET {KeyOf(w) : w \in Variables} : map \in [keys -> Seq(Variables)]
    BY DEF Agree, Maps
  <2>2. after \in [keys \cup {KeyOf(v)} -> Seq(Variables)]
    <3>1. after = [key \in {KeyOf(v)} \cup DOMAIN map |-> after[key]]
      BY <1>3 DEF after, registerVariableInMap
    <3> QED  BY <1>2, <1>3, <2>1, <3>1
  <2> QED  BY <2>2 DEF Maps
<1>4. ASSUME NEW key \in DOMAIN after
      PROVE  /\ IsInjective(after[key])
             /\ \A w \in ToSet(after[key]) : KeyOf(w) = key
  <2>1. CASE key = KeyOf(v)
    BY <1>1, <1>2, <1>3, <2>1
  <2>2. CASE key # KeyOf(v)
    BY <1>3, <2>2 DEF Agree
  <2> QED  BY <2>1, <2>2
<1>5. ASSUME NEW w \in Variables
      PROVE  w \in ToSet(new) <=> w \in ToSet(Homonyms(after, w))
  <2>1. w \in ToSet(list) <=> w \in ToSet(Homonyms(map, w))
    BY DEF Agree
  <2>2. CASE KeyOf(w) = KeyOf(v)
    <3>1. Homonyms(after, w) = entry /\ Homonyms(map, w) = old
      BY <1>3, <2>2 DEF Homonyms
    <3> QED  BY <1>2, <2>1, <3>1
  <2>3. CASE KeyOf(w) # KeyOf(v)
    <3>1. Homonyms(after, w) = Homonyms(map, w) /\ w # v
      BY <1>3, <2>3 DEF Homonyms
    <3> QED  BY <2>1, <3>1
  <2> QED  BY <2>2, <2>3
<1> QED  BY <1>0, <1>4, <1>5 DEF Agree, after

\* A variable that is erased from its entry and from the list.
LEMMA ErasingAgrees ==
    ASSUME NEW list, NEW map, Agree(list, map), NEW v \in Variables, KeyOf(v) \in DOMAIN map,
           NEW entry \in Seq(Variables), IsInjective(entry),
           ToSet(entry) = ToSet(map[KeyOf(v)]) \ {v},
           NEW new \in Seq(Variables), IsInjective(new), ToSet(new) = ToSet(list) \ {v}
    PROVE  Agree(new, [map EXCEPT ![KeyOf(v)] = entry])
<1> DEFINE after == [map EXCEPT ![KeyOf(v)] = entry]
<1>1. /\ DOMAIN after = DOMAIN map
      /\ \A key \in DOMAIN map : after[key] = IF key = KeyOf(v) THEN entry ELSE map[key]
  OBVIOUS
<1>0. after \in Maps
  <2>1. PICK keys \in SUBSET {KeyOf(w) : w \in Variables} : map \in [keys -> Seq(Variables)]
    BY DEF Agree, Maps
  <2>2. after \in [keys -> Seq(Variables)]
    BY <2>1
  <2> QED  BY <2>2 DEF Maps
<1> HIDE DEF after
<1>2. ASSUME NEW key \in DOMAIN after
      PROVE  /\ IsInjective(after[key])
             /\ \A w \in ToSet(after[key]) : KeyOf(w) = key
  <2>1. CASE key = KeyOf(v)
    BY <1>1, <2>1 DEF Agree
  <2>2. CASE key # KeyOf(v)
    BY <1>1, <2>2 DEF Agree
  <2> QED  BY <2>1, <2>2
<1>3. ASSUME NEW w \in Variables
      PROVE  w \in ToSet(new) <=> w \in ToSet(Homonyms(after, w))
  <2>1. w \in ToSet(list) <=> w \in ToSet(Homonyms(map, w))
    BY DEF Agree
  <2>2. CASE KeyOf(w) = KeyOf(v)
    <3>1. Homonyms(after, w) = entry /\ Homonyms(map, w) = map[KeyOf(v)]
      BY <1>1, <2>2 DEF Homonyms
    <3> QED  BY <2>1, <3>1
  <2>3. CASE KeyOf(w) # KeyOf(v)
    <3>1. Homonyms(after, w) = Homonyms(map, w) /\ w # v
      BY <1>1, <2>3 DEF Homonyms
    <3> QED  BY <2>1, <3>1
  <2> QED  BY <2>2, <2>3
<1> QED  BY <1>0, <1>2, <1>3 DEF Agree, after

\* What is registered collides with nothing that is in the list.
LEMMA RegisteringCollidesNot ==
    ASSUME NEW list, NEW map, Agree(list, map), NEW v \in Variables,
           ~IsPresent(map, v), ~Collides(map, v),
           NEW new, ToSet(new) \subseteq ToSet(list) \cup {v},
           NEW a \in Variables, NEW b \in Variables, Collide(new, a, b)
    PROVE  Collide(list, a, b)
<1>1. ASSUME NEW w \in Variables, w \in ToSet(list), KeyOf(w) = KeyOf(v)
      PROVE  ~SameNamespace(v, w) /\ ~SameNamespace(w, v)
  <2>1. w \in ToSet(Homonyms(map, v))
    <3>1. Homonyms(map, w) = Homonyms(map, v)
      BY <1>1 DEF Homonyms
    <3> QED  BY <1>1, <3>1 DEF Agree
  <2>2. ~SameNamespace(v, w)
    BY <2>1 DEF Collides
  <2> QED  BY <2>2 DEF SameNamespace
<1> QED  BY <1>1 DEF Collide
-----------------------------------------------------------------------------
(* addAll *)

\* What addAll carries along
Both == [list : Seq(Variables), map : Maps, threw : BOOLEAN]

\* What holds of the list and the map after each call of add in addAll
Sound(both) ==
    /\ both \in Both /\ Agree(both.list, both.map)
    /\ \A a, b \in Variables : Collide(both.list, a, b) => Collide(variableList, a, b)

\* Each of these calls is one of add.
LEMMA AddToSound ==
    ASSUME NEW both, Sound(both), NEW v \in Variables
    PROVE  Sound(AddTo(both, v))
<1> DEFINE list == both.list
           map == both.map
<1>1. /\ list \in Seq(Variables) /\ map \in Maps /\ both.threw \in BOOLEAN /\ Agree(list, map)
      /\ both = [list |-> list, map |-> map, threw |-> both.threw]
  BY DEF Sound, Both
<1>2. CASE both.threw \/ IsPresent(map, v)
  BY <1>2 DEF AddTo
<1>3. CASE ~both.threw /\ ~IsPresent(map, v) /\ Collides(map, v)
  <2>1. AddTo(both, v) = [list |-> list, map |-> map, threw |-> TRUE]
    BY <1>1, <1>3 DEF AddTo
  <2> QED  BY <2>1 DEF Sound, Both
<1>4. CASE ~both.threw /\ ~IsPresent(map, v) /\ ~Collides(map, v)
  <2> DEFINE new == Append(list, v)
             after == registerVariableInMap(map, v)
  <2>1. AddTo(both, v) = [list |-> new, map |-> after, threw |-> both.threw]
    BY <1>1, <1>4 DEF AddTo
  <2>2. v \notin ToSet(list) /\ IsInjective(list)
    BY <1>1, <1>4, HomonymsProper DEF Agree
  <2>3. new \in Seq(Variables) /\ IsInjective(new) /\ ToSet(new) = ToSet(list) \cup {v}
    BY <1>1, <2>2, AppendProper
  <2> HIDE DEF new, list, map
  <2>4. Agree(new, after)
    BY <1>1, <1>4, <2>3, RegisteringAgrees
  <2>5. \A a, b \in Variables : Collide(new, a, b) => Collide(list, a, b)
    BY <1>1, <1>4, <2>3, RegisteringCollidesNot
  <2>6. after \in Maps
    BY <2>4 DEF Agree
  <2>7. \A a, b \in Variables : Collide(list, a, b) => Collide(variableList, a, b)
    BY DEF Sound, list
  <2> QED  BY <1>1, <2>1, <2>3, <2>4, <2>5, <2>6, <2>7 DEF Sound, Both
<1> QED  BY <1>2, <1>3, <1>4

\* The calls one after the other: the recursion is well-founded, and each call leaves what the
\* next one needs.
LEMMA AddAllSound ==
    ASSUME NEW vs \in Seq(Variables), NEW base, Sound(base),
           NEW adding, adding = CHOOSE f : f = [n \in 0 .. Len(vs) |->
                                   IF n = 0 THEN base ELSE AddTo(f[n - 1], vs[n])]
    PROVE  Sound(adding[Len(vs)])
<1> DEFINE N == Len(vs)
           S == {both \in Both : Sound(both)}
           Body(f) == [n \in 0 .. N |-> IF n = 0 THEN base ELSE AddTo(f[n - 1], vs[n])]
           step == [n \in 1 .. N |-> [both \in S |-> AddTo(both, vs[n])]]
<1>1. N \in Nat /\ \A n \in 1 .. N : vs[n] \in Variables
  OBVIOUS
<1>2. base \in S
  BY DEF Sound
<1>3. \A both \in S, v \in Variables : AddTo(both, v) \in S
  BY AddToSound DEF Sound
<1> HIDE DEF S
<1>4. step \in [1 .. N -> [S -> S]]
  BY <1>1, <1>3
<1>5. PICK f \in [0 .. N -> S] : f[0] = base /\ \A i \in 1 .. N : f[i] = step[i][f[i - 1]]
  <2> HIDE DEF step, N
  <2>1. \E f : Follows(f, N, S, base, step)
    BY <1>1, <1>2, <1>4, RecursionUpTo
  <2> QED  BY <2>1 DEF Follows
<1> HIDE DEF N
<1>6. f = Body(f)
  <2>1. ASSUME NEW n \in 0 .. N, n # 0
        PROVE  f[n] = AddTo(f[n - 1], vs[n])
    <3>1. f[n - 1] \in S /\ n \in 1 .. N
      BY <1>1, <1>5, <2>1
    <3> QED  BY <1>5, <3>1
  <2> HIDE DEF step
  <2>2. \A n \in 0 .. N : f[n] = Body(f)[n]
    BY <1>5, <2>1
  <2> QED  BY <1>5, <2>2
<1>7. adding = Body(adding)
  <2>1. adding = CHOOSE g : g = Body(g)
    BY DEF N
  <2> HIDE DEF Body
  <2> QED  BY <1>6, <2>1
<1>8. adding[0] = base /\ \A n \in 1 .. N : adding[n] = AddTo(adding[n - 1], vs[n])
  <2>1. Body(adding)[0] = base /\ \A n \in 1 .. N : Body(adding)[n] = AddTo(adding[n - 1], vs[n])
    BY <1>1
  <2> HIDE DEF Body
  <2> QED  BY <1>7, <2>1
<1> DEFINE Reached == {n \in 0 .. N : adding[n] \in S}
<1>9. 0 \in Reached
  BY <1>1, <1>2, <1>8
<1>10. ASSUME NEW n \in 0 .. N, n < N, n \in Reached
       PROVE  n + 1 \in Reached
  <2>1. n + 1 \in 1 .. N /\ (n + 1) - 1 = n
    BY <1>1, <1>10
  <2>2. adding[n + 1] = AddTo(adding[n], vs[n + 1]) /\ adding[n] \in S
    BY <1>8, <1>10, <2>1
  <2> QED  BY <1>1, <1>3, <2>1, <2>2
<1> HIDE DEF Reached
<1>11. \A n \in 0 .. N : n \in Reached
  BY <1>1, <1>9, <1>10, InductionUpTo
<1>12. adding[N] \in S
  BY <1>1, <1>11 DEF Reached
<1> QED  BY <1>12 DEF S, N
-----------------------------------------------------------------------------
(* The operations *)

\* What a call on the list leaves: list and map agree, and no two variables have come together.
\* (The registries of the variables are where they were.)
Harmless ==
    /\ Inv'
    /\ \A a, b \in Variables : Collide(variableList', a, b) => Collide(variableList, a, b)

\* What add and set find when they go on.
LEMMA RegistersMeans ==
    ASSUME Inv, NEW v \in Variables, Registers(v)
    PROVE  /\ variableList \in Seq(Variables) /\ IsInjective(variableList)
           /\ ~IsPresent(simpleNameToVariablesMap, v) /\ ~Collides(simpleNameToVariablesMap, v)
           /\ v \notin ToSet(variableList)
BY HomonymsProper DEF Inv, Agree, Registers

\* What erasing a variable that has an entry leaves.
LEMMA ErasedIsHarmless ==
    ASSUME Inv, NEW v \in Variables, KeyOf(v) \in DOMAIN simpleNameToVariablesMap,
           NEW entry \in Seq(Variables), IsInjective(entry),
           ToSet(entry) = ToSet(simpleNameToVariablesMap[KeyOf(v)]) \ {v},
           variableList' \in Seq(Variables), IsInjective(variableList'),
           ToSet(variableList') = ToSet(variableList) \ {v},
           simpleNameToVariablesMap' = [simpleNameToVariablesMap EXCEPT ![KeyOf(v)] = entry],
           UNCHANGED namespaceOf
    PROVE  Harmless
<1> DEFINE list == variableList
           map == simpleNameToVariablesMap
           new == variableList'
           after == [map EXCEPT ![KeyOf(v)] = entry]
<1>1. Agree(list, map)
  BY DEF Inv
<1> HIDE DEF list, map, new
<1>2. /\ KeyOf(v) \in DOMAIN map /\ ToSet(entry) = ToSet(map[KeyOf(v)]) \ {v}
      /\ new \in Seq(Variables) /\ IsInjective(new) /\ ToSet(new) = ToSet(list) \ {v}
  BY DEF list, map, new
<1>3. Agree(new, after)
  BY <1>1, <1>2, ErasingAgrees
<1>4. \A a, b \in Variables : Collide(new, a, b) => Collide(list, a, b)
  BY <1>2 DEF Collide
<1>5. Inv'
  BY <1>3 DEF Inv, new, map, Agree, Homonyms, KeyOf
<1> QED  BY <1>4, <1>5 DEF Harmless, list, new

\* add(variable)
LEMMA AddIsHarmless ==
    ASSUME Inv, NEW v \in Variables, Add(v)
    PROVE  Harmless
<1> DEFINE list == variableList
           map == simpleNameToVariablesMap
           new == Append(list, v)
           after == registerVariableInMap(map, v)
<1>1. Agree(list, map)
  BY DEF Inv
<1>2. /\ list \in Seq(Variables) /\ IsInjective(list)
      /\ ~IsPresent(map, v) /\ ~Collides(map, v) /\ v \notin ToSet(list)
  BY RegistersMeans DEF Add
<1>3. variableList' = new /\ simpleNameToVariablesMap' = after
  BY DEF Add
<1> HIDE DEF list, map
<1>4. new \in Seq(Variables) /\ IsInjective(new) /\ ToSet(new) = ToSet(list) \cup {v}
  BY <1>2, AppendProper
<1> HIDE DEF new
<1>5. Agree(new, after)
  BY <1>1, <1>2, <1>4, RegisteringAgrees
<1>6. \A a, b \in Variables : Collide(new, a, b) => Collide(list, a, b)
  BY <1>1, <1>2, <1>4, RegisteringCollidesNot
<1> QED  BY <1>3, <1>5, <1>6 DEF Harmless, Inv, list, Agree, Homonyms, KeyOf

\* add(index, variable)
LEMMA AddAtIsHarmless ==
    ASSUME Inv, NEW v \in Variables, NEW index \in 1 .. (Len(variableList) + 1), AddAt(index, v)
    PROVE  Harmless
<1> DEFINE list == variableList
           map == simpleNameToVariablesMap
           new == InsertAt(list, index, v)
           after == registerVariableInMap(map, v)
<1>1. Agree(list, map)
  BY DEF Inv
<1>2. /\ list \in Seq(Variables) /\ IsInjective(list) /\ index \in 1 .. (Len(list) + 1)
      /\ ~IsPresent(map, v) /\ ~Collides(map, v) /\ v \notin ToSet(list)
  BY RegistersMeans DEF AddAt
<1>3. variableList' = new /\ simpleNameToVariablesMap' = after
  BY DEF AddAt
<1> HIDE DEF list, map
<1>4. new \in Seq(Variables) /\ IsInjective(new) /\ ToSet(new) = ToSet(list) \cup {v}
  BY <1>2, InsertProper
<1> HIDE DEF new
<1>5. Agree(new, after)
  BY <1>1, <1>2, <1>4, RegisteringAgrees
<1>6. \A a, b \in Variables : Collide(new, a, b) => Collide(list, a, b)
  BY <1>1, <1>2, <1>4, RegisteringCollidesNot
<1> QED  BY <1>3, <1>5, <1>6 DEF Harmless, Inv, list, Agree, Homonyms, KeyOf

\* addAll, which keeps what it had added before a collision
LEMMA AddAllIsHarmless ==
    ASSUME Inv, NEW vs \in Seq(Variables), AddAll(vs)
    PROVE  Harmless
<1> DEFINE base == [list |-> variableList, map |-> simpleNameToVariablesMap, threw |-> FALSE]
           adding == CHOOSE f : f = [n \in 0 .. Len(vs) |->
                               IF n = 0 THEN base ELSE AddTo(f[n - 1], vs[n])]
           added == adding[Len(vs)]
<1>1. Sound(base)
  BY DEF Sound, Both, Inv, Agree
<1>2. variableList' = added.list /\ simpleNameToVariablesMap' = added.map
  BY DEF AddAll
<1>3. Sound(added)
  <2> HIDE DEF base
  <2> QED  BY <1>1, AddAllSound
<1> HIDE DEF added
<1> QED  BY <1>2, <1>3 DEF Sound, Harmless, Inv, Agree, Homonyms, KeyOf

\* set, which registers the new variable before it erases the one it replaces
LEMMA SetIsHarmless ==
    ASSUME Inv, NEW v \in Variables, NEW index \in DOMAIN variableList, Set(index, v)
    PROVE  Harmless
<1> DEFINE list == variableList
           map == simpleNameToVariablesMap
           previous == list[index]
           longer == Append(list, v)
           registered == registerVariableInMap(map, v)
           key == KeyOf(previous)
           entry == Without(registered[key], previous)
           new == ReplaceAt(list, index, v)
           after == [registered EXCEPT ![key] = entry]
<1>1. Agree(list, map)
  BY DEF Inv
<1>2. /\ list \in Seq(Variables) /\ IsInjective(list) /\ index \in 1 .. Len(list)
      /\ ~IsPresent(map, v) /\ ~Collides(map, v) /\ v \notin ToSet(list)
  BY RegistersMeans DEF Set
<1>3. variableList' = new /\ simpleNameToVariablesMap' = WithoutVariable(registered, previous)
  BY DEF Set
<1>4. previous \in Variables /\ previous \in ToSet(list) /\ previous # v
  BY <1>2 DEF ToSet
<1> HIDE DEF list, map
<1>5. longer \in Seq(Variables) /\ IsInjective(longer) /\ ToSet(longer) = ToSet(list) \cup {v}
  BY <1>2, AppendProper
<1>6. new \in Seq(Variables) /\ IsInjective(new) /\ ToSet(new) = (ToSet(list) \ {previous}) \cup {v}
  BY <1>2, ReplaceProper
<1> HIDE DEF longer, new, previous
<1>7. Agree(longer, registered)
  BY <1>1, <1>2, <1>5, RegisteringAgrees
<1>8. key \in DOMAIN registered
  <2>1. previous \in ToSet(Homonyms(registered, previous))
    BY <1>4, <1>5, <1>7 DEF Agree
  <2> QED  BY <2>1, EmptyProper DEF Homonyms
<1>9. simpleNameToVariablesMap' = after
  BY <1>3, <1>8 DEF WithoutVariable
<1> HIDE DEF registered
<1>10. registered[key] \in Seq(Variables) /\ IsInjective(registered[key])
  BY <1>7, <1>8, EntriesAreLists DEF Agree
<1> DEFINE old == registered[key]
<1>11. entry \in Seq(Variables) /\ IsInjective(entry) /\ ToSet(entry) = ToSet(registered[key]) \ {previous}
  <2>1. old \in Seq(Variables) /\ IsInjective(old)
    BY <1>10
  <2> HIDE DEF old
  <2>2. /\ Without(old, previous) \in Seq(Variables) /\ IsInjective(Without(old, previous))
        /\ ToSet(Without(old, previous)) = ToSet(old) \ {previous}
    BY <2>1, WithoutProperties
  <2> QED  BY <2>2 DEF old
<1> HIDE DEF entry, old
<1>12. ToSet(new) = ToSet(longer) \ {previous}
  BY <1>4, <1>5, <1>6
<1>13. Agree(new, after)
  BY <1>4, <1>6, <1>7, <1>8, <1>11, <1>12, ErasingAgrees
<1>14. \A a, b \in Variables : Collide(new, a, b) => Collide(list, a, b)
  <2>1. ToSet(new) \subseteq ToSet(list) \cup {v}
    BY <1>6
  <2> QED  BY <1>1, <1>2, <2>1, RegisteringCollidesNot
<1> QED  BY <1>3, <1>9, <1>13, <1>14 DEF Harmless, Inv, list, Agree, Homonyms, KeyOf

\* remove(index)
LEMMA RemoveIndexIsHarmless ==
    ASSUME Inv, NEW index \in DOMAIN variableList, RemoveIndex(index)
    PROVE  Harmless
<1> DEFINE map == simpleNameToVariablesMap
           v == variableList[index]
           old == map[KeyOf(v)]
           entry == Without(old, v)
<1>1. /\ v \in Variables /\ v \in ToSet(variableList)
      /\ variableList \in Seq(Variables) /\ IsInjective(variableList) /\ Agree(variableList, map)
  BY DEF Inv, Agree, ToSet
<1>2. KeyOf(v) \in DOMAIN map
  <2>1. v \in ToSet(Homonyms(map, v))
    BY <1>1 DEF Agree
  <2> QED  BY <2>1, EmptyProper DEF Homonyms
<1>3. /\ simpleNameToVariablesMap' = [map EXCEPT ![KeyOf(v)] = entry]
      /\ variableList' = Without(variableList, v) /\ UNCHANGED namespaceOf
  BY <1>2 DEF RemoveIndex, WithoutVariable
<1>4. old \in Seq(Variables) /\ IsInjective(old)
  BY <1>1, <1>2, EntriesAreLists DEF Agree
<1> HIDE DEF v, old
<1>5. entry \in Seq(Variables) /\ IsInjective(entry) /\ ToSet(entry) = ToSet(old) \ {v}
  BY <1>4, WithoutProperties
<1>6. /\ variableList' \in Seq(Variables) /\ IsInjective(variableList')
      /\ ToSet(variableList') = ToSet(variableList) \ {v}
  BY <1>1, <1>3, WithoutProperties
<1> HIDE DEF entry
<1> QED  BY <1>1, <1>2, <1>3, <1>5, <1>6, ErasedIsHarmless DEF old

\* remove(variable), which need not be in the list
LEMMA RemoveVariableIsHarmless ==
    ASSUME Inv, NEW v \in Variables, RemoveVariable(v)
    PROVE  Harmless
<1> DEFINE map == simpleNameToVariablesMap
           old == map[KeyOf(v)]
           entry == RemoveFirst(old, v)
<1>1. /\ variableList \in Seq(Variables) /\ IsInjective(variableList) /\ Agree(variableList, map)
      /\ KeyOf(v) \in DOMAIN map
  BY DEF Inv, Agree, RemoveVariable
<1>2. /\ simpleNameToVariablesMap' = [map EXCEPT ![KeyOf(v)] = entry]
      /\ variableList' = RemoveFirst(variableList, v) /\ UNCHANGED namespaceOf
  BY DEF RemoveVariable
<1>3. old \in Seq(Variables) /\ IsInjective(old)
  BY <1>1, EntriesAreLists DEF Agree
<1> HIDE DEF old
<1>4. entry \in Seq(Variables) /\ IsInjective(entry) /\ ToSet(entry) = ToSet(old) \ {v}
  BY <1>3, RemoveFirstProper
<1>5. /\ variableList' \in Seq(Variables) /\ IsInjective(variableList')
      /\ ToSet(variableList') = ToSet(variableList) \ {v}
  BY <1>1, <1>2, RemoveFirstProper
<1> HIDE DEF entry
<1> QED  BY <1>1, <1>2, <1>4, <1>5, ErasedIsHarmless DEF old

\* A list and a map without anything agree.
LEMMA NothingAgrees == Agree(<<>>, <<>>)
<1>1. DOMAIN <<>> = {} /\ <<>> \in Maps
  <2>1. <<>> \in [{} -> Seq(Variables)]
    OBVIOUS
  <2> QED  BY <2>1 DEF Maps
<1>2. \A v : Homonyms(<<>>, v) = <<>>
  BY <1>1 DEF Homonyms
<1> QED  BY <1>1, <1>2, EmptyProper DEF Agree

\* clear
LEMMA ClearIsHarmless ==
    ASSUME Clear
    PROVE  Harmless
<1>1. variableList' = <<>> /\ simpleNameToVariablesMap' = <<>>
  BY DEF Clear
<1>2. Inv'
  BY <1>1, NothingAgrees DEF Inv, Agree, Homonyms, KeyOf
<1> QED  BY <1>1, <1>2, EmptyProper DEF Harmless, Collide

\* Registries move variables and leave list and map alone; every other call is harmless.
LEMMA NextIsHarmless ==
    ASSUME Inv, [Next]_vars
    PROVE  /\ Inv'
           /\ UNCHANGED namespaceOf => Harmless
<1>1. CASE UNCHANGED <<variableList, simpleNameToVariablesMap>>
  <2>1. Inv'
    BY <1>1 DEF Inv, Agree, Homonyms, KeyOf
  <2> QED  BY <1>1, <2>1 DEF Harmless
<1>2. ASSUME NEW v \in Variables, NEW w \in Variables, AddAll(<<v, w>>)
      PROVE  Harmless
  <2>1. <<v, w>> \in Seq(Variables)
    OBVIOUS
  <2> QED  BY <1>2, <2>1, AddAllIsHarmless
<1>3. CASE UNCHANGED vars
  BY <1>1, <1>3 DEF vars
<1>4. CASE \E v \in Variables : Add(v) \/ RemoveVariable(v)
  BY <1>4, AddIsHarmless, RemoveVariableIsHarmless DEF Harmless
<1>5. CASE \E v \in Variables, index \in 1 .. (Len(variableList) + 1) : AddAt(index, v)
  BY <1>5, AddAtIsHarmless DEF Harmless
<1>6. CASE \E v, w \in Variables : v # w /\ AddAll(<<v, w>>)
  BY <1>2, <1>6 DEF Harmless
<1>7. CASE \E v \in Variables, index \in DOMAIN variableList : Set(index, v)
  BY <1>7, SetIsHarmless DEF Harmless
<1>8. CASE \E index \in DOMAIN variableList : RemoveIndex(index)
  BY <1>8, RemoveIndexIsHarmless DEF Harmless
<1>9. CASE Clear
  BY <1>9, ClearIsHarmless DEF Harmless
<1>10. CASE \/ \E v \in Variables, ownName \in OwnNamespaces : PutIn(v, ownName)
            \/ \E v \in Variables : TakeOut(v)
            \/ AttachAll \/ DetachAll
  BY <1>1, <1>10 DEF PutIn, TakeOut, AttachAll, DetachAll
<1> QED  BY <1>3, <1>4, <1>5, <1>6, <1>7, <1>8, <1>9, <1>10 DEF Next

\* List and map agree in every state.
LEMMA InvAlways == Spec => []Inv
<1>1. Init => Inv
  BY NothingAgrees DEF Init, Inv
<1>2. Inv /\ [Next]_vars => Inv'
  BY NextIsHarmless
<1> QED  BY <1>1, <1>2, PTL DEF Spec
-----------------------------------------------------------------------------
(* The theorems *)

\* Agreement is what the property says of the two structures.
LEMMA AgreementMatches == Inv => MapMatchesList
<1> SUFFICES ASSUME Inv  PROVE MapMatchesList
  OBVIOUS
<1> DEFINE map == simpleNameToVariablesMap
           Held == UNION {ToSet(map[key]) : key \in DOMAIN map}
<1>1. /\ variableList \in Seq(Variables) /\ IsInjective(variableList) /\ map \in Maps
      /\ \A key \in DOMAIN map : IsInjective(map[key]) /\ \A v \in ToSet(map[key]) : KeyOf(v) = key
      /\ \A v \in Variables : v \in ToSet(variableList) <=> v \in ToSet(Homonyms(map, v))
  BY DEF Inv, Agree
<1>2. ASSUME NEW v \in ToSet(variableList)
      PROVE  v \in Held
  <2>1. v \in ToSet(Homonyms(map, v))
    BY <1>1 DEF ToSet
  <2> QED  BY <2>1, EmptyProper DEF Homonyms
<1>3. ASSUME NEW v \in Held
      PROVE  v \in ToSet(variableList)
  <2>1. PICK key \in DOMAIN map : v \in ToSet(map[key])
    OBVIOUS
  <2>2. KeyOf(v) = key /\ v \in Variables
    BY <1>1, <2>1, EntriesAreLists DEF ToSet
  <2> QED  BY <1>1, <2>1, <2>2 DEF Homonyms
<1>4. \A key \in DOMAIN map : \A i, j \in DOMAIN map[key] :
          (map[key][i] = map[key][j] => i = j) /\ KeyOf(map[key][i]) = key
  BY <1>1 DEF IsInjective, ToSet
<1>5. \A i, j \in DOMAIN variableList : variableList[i] = variableList[j] => i = j
  BY <1>1 DEF IsInjective
<1>6. ToSet(variableList) = Held
  BY <1>2, <1>3
<1> QED  BY <1>4, <1>5, <1>6 DEF MapMatchesList

\* Whatever is called on a list, in whatever order, the vector and the map of a YoVariableList hold
\* the same variables, each once and under its own name, so that a search that reads the map
\* misses nothing that is in the list.
THEOREM MapAlwaysMatches == Spec => []MapMatchesList
<1> QED  BY InvAlways, AgreementMatches, PTL

\* registerVariableInMap checks every homonym, and set and addAll go through it: two variables of
\* one full name are only in a list when a registry gave one of them that name while it was there.
THEOREM CallsBringNoneTogether == Spec => CollisionsOnlyByMoving
<1>1. ASSUME Inv, [Next]_vars
      PROVE  [\A v, w \in Variables :
                 InCollision(v, w)' => InCollision(v, w) \/ namespaceOf' # namespaceOf]_vars
  <2> SUFFICES ASSUME NEW v \in Variables, NEW w \in Variables, InCollision(v, w)',
                      UNCHANGED namespaceOf
               PROVE  InCollision(v, w)
    OBVIOUS
  <2>1. Inv' /\ Harmless
    BY <1>1, NextIsHarmless
  <2>2. variableList \in Seq(Variables) /\ variableList' \in Seq(Variables)
    BY <1>1, <2>1 DEF Inv, Agree
  <2>3. Collide(variableList', v, w)
    <3>1. Contains(variableList', v) /\ Contains(variableList', w) /\ v # w
      BY DEF InCollision
    <3>2. v \in ToSet(variableList') /\ w \in ToSet(variableList')
      BY <2>2, <3>1, ContainsIsMember
    <3> QED  BY <3>1, <3>2 DEF InCollision, Collide, SameNamespace, KeyOf
  <2>4. Collide(variableList, v, w)
    BY <2>1, <2>3 DEF Harmless
  <2> QED  BY <2>2, <2>4, ContainsIsMember DEF InCollision, Collide
<1> QED  BY <1>1, InvAlways, PTL DEF Spec, CollisionsOnlyByMoving
=============================================================================
