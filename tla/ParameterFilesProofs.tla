------------------------ MODULE ParameterFilesProofs ------------------------
(***************************************************************************)
(* However listeners end the calls of readers and writers: a reading that  *)
(* returns has set every parameter and reports what did not match, and a   *)
(* saved value comes back.  For every chain of registries, every set of    *)
(* parameters and listeners, and every collection of documents.            *)
(***************************************************************************)
EXTENDS ParameterFiles, SequenceProofs, FiniteSetTheorems

(* The parameters in a registry, and their names *)

\* collectSubtreeParameters lists the parameters that are under the registry,
\* each of them once.
LEMMA ListProperties ==
    ASSUME NEW r \in Registry
    PROVE  /\ ParametersIn[r] \in Seq(Parameter)
           /\ \A i, j \in 1 .. Len(ParametersIn[r]) :
                 ParametersIn[r][i] = ParametersIn[r][j] => i = j
           /\ ToSet(ParametersIn[r]) = {p \in Parameter : IsPrefix(Path[r], Path[Owner[p]])}
           /\ \E at : Places(at, ParametersIn[r], Order, Len(Order))
<1> DEFINE under == {p \in Parameter : IsPrefix(Path[r], Path[Owner[p]])}
           list == Kept(Order, under)
<1>1. ParametersIn[r] = list
  BY DEF ParametersIn
<1>2. Order \in Seq(Parameter) /\ ToSet(Order) = Parameter /\ IsInjective(Order)
  BY FilesAssumption
<1> HIDE DEF under
<1>3. /\ list \in Seq(Parameter) /\ ToSet(list) = ToSet(Order) \cap under
      /\ \E at : Places(at, list, Order, Len(Order))
  BY <1>2, KeptProperties
<1>4. under = {p \in Parameter : IsPrefix(Path[r], Path[Owner[p]])}
  BY DEF under
<1> HIDE DEF list
<1>5. \A i, j \in 1 .. Len(list) : list[i] = list[j] => i = j
  <2>1. PICK at : Places(at, list, Order, Len(Order))
    BY <1>3
  <2> TAKE i, j \in 1 .. Len(list)
  <2> HAVE list[i] = list[j]
  <2>2. /\ at[i] \in 1 .. Len(Order) /\ at[j] \in 1 .. Len(Order)
        /\ list[i] = Order[at[i]] /\ list[j] = Order[at[j]]
    BY <2>1 DEF Places
  <2>3. at[i] = at[j]
    <3>1. DOMAIN Order = 1 .. Len(Order)
      BY <1>2
    <3>2. Order[at[i]] = Order[at[j]]
      BY <2>2
    <3> QED  BY <1>2, <2>2, <3>1, <3>2 DEF IsInjective
  <2>4. Len(list) \in Nat /\ i \in Nat /\ j \in Nat
    BY <1>3
  <2>5. i < j => at[i] < at[j]
    BY <2>1 DEF Places
  <2>6. j < i => at[j] < at[i]
    BY <2>1 DEF Places
  <2> QED  BY <2>2, <2>3, <2>4, <2>5, <2>6
<1>6. ToSet(list) = {p \in Parameter : IsPrefix(Path[r], Path[Owner[p]])}
  BY <1>2, <1>3, <1>4
<1> QED  BY <1>1, <1>3, <1>5, <1>6

\* What a registry lists in front of a parameter is in front of it in the whole
\* program.
LEMMA ListInOrder ==
    ASSUME NEW r \in Registry, NEW i \in 1 .. Len(ParametersIn[r]), NEW j \in 1 .. Len(ParametersIn[r]),
           ParametersIn[r][j] \in Earlier(ParametersIn[r][i])
    PROVE  j <= i
<1> DEFINE list == ParametersIn[r]
<1>1. PICK at : Places(at, list, Order, Len(Order))
  BY ListProperties
<1>2. list \in Seq(Parameter) /\ Order \in Seq(Parameter) /\ IsInjective(Order)
  BY ListProperties, FilesAssumption
<1>3. PICK m, n \in DOMAIN Order : m <= n /\ Order[m] = list[j] /\ Order[n] = list[i]
  BY DEF Earlier
<1> HIDE DEF list
<1>4. i \in 1 .. Len(list) /\ j \in 1 .. Len(list)
  BY DEF list
<1>5. /\ at[i] \in 1 .. Len(Order) /\ at[j] \in 1 .. Len(Order)
      /\ list[i] = Order[at[i]] /\ list[j] = Order[at[j]]
  BY <1>1, <1>4 DEF Places
<1>6. m = at[j] /\ n = at[i]
  BY <1>2, <1>3, <1>5 DEF IsInjective
<1>7. i < j => at[i] < at[j]
  BY <1>1, <1>4 DEF Places
<1>8. Len(list) \in Nat /\ Len(Order) \in Nat
  BY <1>2
<1> QED  BY <1>3, <1>4, <1>5, <1>6, <1>7, <1>8

\* The name of a parameter as seen from a registry ends with the parameter.
LEMMA NameProperties ==
    ASSUME NEW r \in Registry, NEW p \in Parameter
    PROVE  /\ RelativeName(r, p) \in FullName
           /\ Len(RelativeName(r, p)) \in Nat \ {0}
           /\ RelativeName(r, p)[Len(RelativeName(r, p))] = p
           /\ Len(Path[r]) <= Len(Path[Owner[p]]) =>
                 Len(RelativeName(r, p)) = Len(Path[Owner[p]]) - Len(Path[r]) + 2
<1> DEFINE way == Path[Owner[p]]
           Part == Parameter \cup STRING
           part == SubSeq(way, Len(Path[r]), Len(way))
<1>1. way \in Seq(STRING) /\ Path[r] \in Seq(STRING) /\ Path[r] # <<>>
  BY FilesAssumption
<1>2. Len(way) \in Nat /\ Len(Path[r]) \in Nat \ {0}
  BY <1>1, EmptySeq
<1>3. \A i \in Len(Path[r]) .. Len(way) : way[i] \in Part
  BY <1>1, <1>2
<1> HIDE DEF way
<1>4. /\ part \in Seq(Part)
      /\ Len(part) = IF Len(Path[r]) <= Len(way) THEN Len(way) - Len(Path[r]) + 1 ELSE 0
  BY <1>2, <1>3, SubSeqProperties
<1>5. RelativeName(r, p) = Append(part, p)
  BY DEF RelativeName, way
<1> HIDE DEF part
<1>6. p \in Part
  OBVIOUS
<1> HIDE DEF Part
<1>7. /\ Append(part, p) \in Seq(Part) /\ Len(Append(part, p)) = Len(part) + 1
      /\ Append(part, p)[Len(part) + 1] = p
  BY <1>4, <1>6, AppendProperties
<1>8. Len(part) \in Nat
  BY <1>4
<1>9. RelativeName(r, p) \in FullName
  BY <1>5, <1>7 DEF FullName, Part
<1> DEFINE name == RelativeName(r, p)
<1>10. Len(name) = Len(part) + 1 /\ name[Len(part) + 1] = p
  BY <1>5, <1>7
<1> HIDE DEF name
<1>11. Len(name) \in Nat \ {0} /\ name[Len(name)] = p
  BY <1>8, <1>10
<1>12. Len(Path[r]) <= Len(way) => Len(name) = Len(way) - Len(Path[r]) + 2
  BY <1>2, <1>4, <1>8, <1>10
<1> QED  BY <1>9, <1>11, <1>12 DEF name, way

\* No two parameters have the same name, as seen from a registry.
LEMMA NamesDiffer ==
    ASSUME NEW r \in Registry, NEW p \in Parameter, NEW q \in Parameter,
           RelativeName(r, p) = RelativeName(r, q)
    PROVE  p = q
<1> DEFINE name == RelativeName(r, p)
<1>1. name[Len(name)] = p
  BY NameProperties
<1>2. name[Len(name)] = q
  BY NameProperties
<1> QED  BY <1>1, <1>2

\* Nor as seen from different registries that they are under.
LEMMA NamesDifferAcross ==
    ASSUME NEW r \in Registry, NEW p \in ToSet(ParametersIn[r]),
           NEW s \in Registry, NEW q \in ToSet(ParametersIn[s]),
           RelativeName(r, p) = RelativeName(s, q)
    PROVE  r = s /\ p = q
<1> DEFINE way == Path[Owner[p]]
<1>1. p \in Parameter /\ q \in Parameter /\ IsPrefix(Path[r], way) /\ IsPrefix(Path[s], Path[Owner[q]])
  BY ListProperties
<1>2. p = q
  BY <1>1, NameProperties
<1>3. Path[r] \in Seq(STRING) /\ Path[s] \in Seq(STRING) /\ way \in Seq(STRING)
  BY <1>1, FilesAssumption
<1>4. /\ Len(Path[r]) <= Len(way) /\ Len(Path[s]) <= Len(way)
      /\ SubSeq(Path[r], 1, Len(Path[r])) = SubSeq(way, 1, Len(Path[r]))
      /\ SubSeq(Path[s], 1, Len(Path[s])) = SubSeq(way, 1, Len(Path[s]))
  BY <1>1, <1>2 DEF IsPrefix
<1>5. Len(Path[r]) = Len(Path[s])
  <2>1. /\ Len(RelativeName(r, p)) = Len(way) - Len(Path[r]) + 2
        /\ Len(RelativeName(s, p)) = Len(way) - Len(Path[s]) + 2
    BY <1>1, <1>4, NameProperties
  <2>2. Len(way) \in Nat /\ Len(Path[r]) \in Nat /\ Len(Path[s]) \in Nat
    BY <1>3
  <2> QED  BY <1>2, <2>1, <2>2
<1>6. SubSeq(Path[r], 1, Len(Path[r])) = Path[r] /\ SubSeq(Path[s], 1, Len(Path[s])) = Path[s]
  BY <1>3
<1>7. Path[r] = Path[s]
  BY <1>4, <1>5, <1>6
<1>8. r = s
  BY <1>7, FilesAssumption DEF IsInjective
<1> QED  BY <1>2, <1>8
-----------------------------------------------------------------------------
(* Documents *)

\* The text of a name is the one of its last entry.
LEMMA LastIsThere ==
    ASSUME NEW document \in Seq(DocumentEntry), NEW name \in Names(document)
    PROVE  \E i \in 1 .. Len(document) :
              /\ document[i].name = name /\ LastOf(document, name) = document[i].text
              /\ \A j \in 1 .. Len(document) : document[j].name = name => j <= i
<1> DEFINE places == {i \in DOMAIN document : document[i].name = name}
           last == CHOOSE i \in places : \A j \in places : j <= i
<1>1. DOMAIN document = 1 .. Len(document) /\ Len(document) \in Nat
  OBVIOUS
<1>2. places \in SUBSET (0 .. Len(document)) /\ places # {}
  BY <1>1 DEF Names
<1> HIDE DEF places
<1>3. \E i \in places : \A j \in places : j <= i
  BY <1>1, <1>2, GreatestElement
<1>4. last \in places /\ \A j \in places : j <= last
  BY <1>3
<1>5. LastOf(document, name) = document[last].text
  BY DEF LastOf, places
<1> HIDE DEF last
<1> QED  BY <1>1, <1>4, <1>5 DEF places

\* It is one of the texts there are.
LEMMA LastIsText ==
    ASSUME NEW document \in Seq(DocumentEntry), NEW name \in Names(document)
    PROVE  LastOf(document, name) \in Texts
<1>1. PICK i \in 1 .. Len(document) : LastOf(document, name) = document[i].text
  BY LastIsThere
<1>2. document[i] \in DocumentEntry
  OBVIOUS
<1> QED  BY <1>1, <1>2 DEF DocumentEntry

\* A reader knows what it knew, with what the document says in its place.
LEMMA OverwrittenProperties ==
    ASSUME NEW map, NEW document \in Seq(DocumentEntry),
           \A name \in DOMAIN map : map[name] \in Texts
    PROVE  /\ DOMAIN Overwritten(map, document) = DOMAIN map \cup Names(document)
           /\ \A name \in DOMAIN Overwritten(map, document) : Overwritten(map, document)[name] \in Texts
BY LastIsText DEF Overwritten

\* Each entry belongs to one that created its outermost registry.
LEMMA CreatedIsThere ==
    ASSUME NEW list \in Seq(DocumentEntry), NEW i \in 1 .. Len(list)
    PROVE  Created(list, i) \in 1 .. Len(list)
<1> DEFINE same == {k \in 1 .. Len(list) : Head(list[k].name) = Head(list[i].name)}
<1>1. DOMAIN list = 1 .. Len(list) /\ Len(list) \in Nat
  OBVIOUS
<1>2. same \in SUBSET Nat /\ same # {}
  BY <1>1
<1>3. PICK k \in same : \A j \in same : k <= j
  <2> HIDE DEF same
  <2> QED  BY <1>2, LeastElement
<1>4. /\ k \in DOMAIN list /\ Head(list[k].name) = Head(list[i].name)
      /\ \A j \in 1 .. (k - 1) : Head(list[j].name) # Head(list[i].name)
  BY <1>1, <1>3
<1> QED  BY <1>1, <1>4 DEF Created

\* The document is written in a strict order of its entries.
LEMMA BeforeIsOrder ==
    ASSUME NEW list \in Seq(DocumentEntry)
    PROVE  /\ \A i \in 1 .. Len(list) : ~Before(list, i, i)
           /\ \A i, j \in 1 .. Len(list) : i = j \/ Before(list, i, j) \/ Before(list, j, i)
           /\ \A i, j, k \in 1 .. Len(list) :
                 Before(list, i, j) /\ Before(list, j, k) => Before(list, i, k)
<1> DEFINE length(i) == Len(list[i].name)
           created(i) == Created(list, i)
<1>1. \A i \in 1 .. Len(list) : created(i) \in Nat /\ length(i) \in Nat /\ i \in Nat
  <2> TAKE i \in 1 .. Len(list)
  <2>1. list[i] \in DocumentEntry
    OBVIOUS
  <2>2. list[i].name \in Seq(Parameter \cup STRING)
    BY <2>1 DEF DocumentEntry, FullName
  <2> QED  BY <2>2, CreatedIsThere
<1>2. ASSUME NEW i \in 1 .. Len(list), NEW j \in 1 .. Len(list)
      PROVE  Before(list, i, j) <=>
                \/ created(i) < created(j)
                \/ created(i) = created(j) /\ (length(i) < length(j) \/ (length(i) = length(j) /\ i < j))
  BY DEF Before
<1> HIDE DEF length, created
<1>3. \A i \in 1 .. Len(list) : ~Before(list, i, i)
  BY <1>1, <1>2
<1>4. \A i, j \in 1 .. Len(list) : i = j \/ Before(list, i, j) \/ Before(list, j, i)
  BY <1>1, <1>2
<1>5. ASSUME NEW i \in 1 .. Len(list), NEW j \in 1 .. Len(list), NEW k \in 1 .. Len(list),
             Before(list, i, j), Before(list, j, k)
      PROVE  Before(list, i, k)
  BY <1>1, <1>2, <1>5
<1> QED  BY <1>3, <1>4, <1>5

\* The place of an entry counts what is written before it, so every place is
\* the one of some entry.
LEMMA EveryPlaceIsTaken ==
    ASSUME NEW list \in Seq(DocumentEntry), NEW k \in 1 .. Len(list)
    PROVE  \E i \in 1 .. Len(list) : Cardinality({j \in DOMAIN list : Before(list, j, i)}) + 1 = k
<1> DEFINE N == Len(list)
           front(i) == {j \in 1 .. N : Before(list, j, i)}
           place == [i \in 1 .. N |-> Cardinality(front(i)) + 1]
<1>1. DOMAIN list = 1 .. N /\ N \in Nat
  OBVIOUS
<1>2. IsFiniteSet(1 .. N) /\ Cardinality(1 .. N) = N
  BY <1>1, FS_Interval
<1>3. \A i \in 1 .. N : IsFiniteSet(front(i)) /\ Cardinality(front(i)) \in 0 .. (N - 1)
  <2> TAKE i \in 1 .. N
  <2> DEFINE others == (1 .. N) \ {i}
  <2>1. IsFiniteSet(others) /\ Cardinality(others) = N - 1
    BY <1>2, FS_RemoveElement
  <2>2. front(i) \in SUBSET others
    BY BeforeIsOrder
  <2> HIDE DEF others, front
  <2>3. IsFiniteSet(front(i)) /\ Cardinality(front(i)) <= Cardinality(others)
    BY <2>1, <2>2, FS_Subset
  <2>4. Cardinality(front(i)) \in Nat
    BY <2>3, FS_CardinalityType
  <2> QED  BY <1>1, <2>1, <2>3, <2>4
<1>4. \A i, j \in 1 .. N : Before(list, i, j) => Cardinality(front(i)) < Cardinality(front(j))
  <2> SUFFICES ASSUME NEW i \in 1 .. N, NEW j \in 1 .. N, Before(list, i, j)
               PROVE  Cardinality(front(i)) < Cardinality(front(j))
    OBVIOUS
  <2>1. front(i) \in SUBSET front(j) /\ i \in front(j) /\ i \notin front(i)
    BY BeforeIsOrder
  <2>2. IsFiniteSet(front(j)) /\ Cardinality(front(i)) \in Nat /\ Cardinality(front(j)) \in Nat
    <3> HIDE DEF front, N
    <3> QED  BY <1>1, <1>3
  <2> HIDE DEF front
  <2>3. /\ Cardinality(front(i)) <= Cardinality(front(j))
        /\ Cardinality(front(j)) = Cardinality(front(i)) => front(j) = front(i)
    BY <2>1, <2>2, FS_Subset
  <2> QED  BY <2>1, <2>2, <2>3
<1>5. place \in [1 .. N -> 1 .. N]
  <2> SUFFICES ASSUME NEW i \in 1 .. N  PROVE Cardinality(front(i)) + 1 \in 1 .. N
    OBVIOUS
  <2> HIDE DEF front, N
  <2> QED  BY <1>1, <1>3
<1>6. \A i, j \in 1 .. N : place[i] = place[j] => i = j
  <2> TAKE i, j \in 1 .. N
  <2> HAVE place[i] = place[j]
  <2>1. Cardinality(front(i)) \in Nat /\ Cardinality(front(j)) \in Nat
    <3> HIDE DEF front, N
    <3> QED  BY <1>1, <1>3
  <2>2. place[i] = Cardinality(front(i)) + 1 /\ place[j] = Cardinality(front(j)) + 1
    OBVIOUS
  <2>3. i = j \/ Before(list, i, j) \/ Before(list, j, i)
    BY BeforeIsOrder
  <2>4. Cardinality(front(i)) + 1 = Cardinality(front(j)) + 1
    BY <2>2
  <2> HIDE DEF front, place
  <2>5. Cardinality(front(i)) = Cardinality(front(j))
    BY <2>1, <2>4
  <2> QED  BY <1>4, <2>1, <2>3, <2>5
<1>7. place \in Injection(1 .. N, 1 .. N)
  <2> HIDE DEF place
  <2> QED  BY <1>5, <1>6 DEF Injection, IsInjective
<1>8. place \in Surjection(1 .. N, 1 .. N)
  <2> HIDE DEF place
  <2> QED  BY <1>2, <1>7, FS_Injection
<1>9. PICK i \in 1 .. N : place[i] = k
  <2> HIDE DEF place
  <2> QED  BY <1>8 DEF Surjection
<1>10. Cardinality(front(i)) + 1 = k
  BY <1>9
<1>11. front(i) = {j \in DOMAIN list : Before(list, j, i)}
  BY <1>1
<1> QED  BY <1>10, <1>11

\* What the writer prints is a document of the entries that were added to it.
LEMMA InDocumentOrderType ==
    ASSUME NEW list \in Seq(DocumentEntry)
    PROVE  InDocumentOrder(list) \in Seq(DocumentEntry)
<1> DEFINE place(i) == Cardinality({j \in DOMAIN list : Before(list, j, i)}) + 1
           at(k) == CHOOSE i \in DOMAIN list : place(i) = k
           ordered == [k \in DOMAIN list |-> list[at(k)]]
<1>1. DOMAIN list = 1 .. Len(list) /\ Len(list) \in Nat
  OBVIOUS
<1>2. \A k \in DOMAIN list : \E i \in DOMAIN list : place(i) = k
  BY <1>1, EveryPlaceIsTaken
<1> HIDE DEF place
<1>3. \A k \in DOMAIN list : at(k) \in DOMAIN list
  BY <1>2
<1> HIDE DEF at
<1>4. \A k \in 1 .. Len(list) : list[at(k)] \in DocumentEntry
  BY <1>1, <1>3
<1>5. ordered \in [1 .. Len(list) -> DocumentEntry]
  BY <1>1, <1>4
<1>6. ordered \in Seq(DocumentEntry)
  BY <1>1, <1>5
<1>7. InDocumentOrder(list) = ordered
  BY DEF InDocumentOrder, ordered, at, place
<1> QED  BY <1>6, <1>7

\* The entries up to one that the reader does not know are a document.
LEMMA UpToUnknownType ==
    ASSUME NEW document \in Seq(DocumentEntry), UnknownEntries(document) # {}
    PROVE  UpToUnknown(document) \in Seq(DocumentEntry)
<1> DEFINE first == CHOOSE i \in UnknownEntries(document) : \A j \in UnknownEntries(document) : i <= j
<1>1. DOMAIN document = 1 .. Len(document) /\ Len(document) \in Nat
  OBVIOUS
<1>2. UnknownEntries(document) \in SUBSET Nat /\ UnknownEntries(document) \subseteq 1 .. Len(document)
  BY <1>1 DEF UnknownEntries
<1>3. first \in 1 .. Len(document)
  BY <1>2, LeastElement
<1> HIDE DEF first
<1>4. SubSeq(document, 1, first) \in Seq(DocumentEntry)
  BY <1>3
<1> QED  BY <1>4 DEF UpToUnknown, first

\* What can be saved is a part of the list.
LEMMA SavableProperties ==
    ASSUME NEW S, NEW list \in Seq(S)
    PROVE  /\ Savable(list) \in Seq(S)
           /\ ToSet(Savable(list)) \subseteq ToSet(list)
<1> DEFINE unloaded == {i \in DOMAIN list : ~isLoaded(list[i])}
           first == CHOOSE i \in unloaded : \A j \in unloaded : i <= j
<1>1. DOMAIN list = 1 .. Len(list) /\ Len(list) \in Nat
  OBVIOUS
<1>2. CASE unloaded = {}
  BY <1>2 DEF Savable
<1>3. CASE unloaded # {}
  <2>1. unloaded \in SUBSET Nat /\ unloaded \subseteq 1 .. Len(list)
    BY <1>1
  <2>2. Savable(list) = SubSeq(list, 1, first - 1)
    BY <1>3 DEF Savable
  <2> HIDE DEF unloaded
  <2>3. first \in 1 .. Len(list)
    BY <1>3, <2>1, LeastElement
  <2> HIDE DEF first
  <2> DEFINE part == SubSeq(list, 1, first - 1)
  <2>4. /\ part \in Seq(S) /\ Len(part) = first - 1
        /\ \A i \in 1 .. (first - 1) : part[i] = list[i]
    BY <2>3
  <2> HIDE DEF part
  <2>5. \A i \in DOMAIN part : i \in DOMAIN list /\ part[i] = list[i]
    BY <1>1, <2>3, <2>4
  <2>6. ToSet(part) \subseteq ToSet(list)
    BY <2>5 DEF ToSet
  <2> QED  BY <2>2, <2>4, <2>6 DEF part
<1> QED  BY <1>2, <1>3

\* An entry that is added stands behind the ones there are: it counts, and the
\* other names keep what they had.
LEMMA LastOfAppended ==
    ASSUME NEW document \in Seq(DocumentEntry), NEW new \in Seq(DocumentEntry), NEW name
    PROVE  /\ Names(document \o new) = Names(document) \cup Names(new)
           /\ name \in Names(new) => LastOf(document \o new, name) = LastOf(new, name)
           /\ name \in Names(document) \ Names(new) =>
                 LastOf(document \o new, name) = LastOf(document, name)
<1> DEFINE whole == document \o new
           M == Len(document)
           N == Len(new)
<1>1. M \in Nat /\ N \in Nat /\ DOMAIN document = 1 .. M /\ DOMAIN new = 1 .. N
  OBVIOUS
<1>2. /\ whole \in Seq(DocumentEntry) /\ Len(whole) = M + N
      /\ \A i \in 1 .. (M + N) : whole[i] = IF i <= M THEN document[i] ELSE new[i - M]
  OBVIOUS
<1> HIDE DEF whole, M, N
<1>3. DOMAIN whole = 1 .. (M + N)
  BY <1>2
<1>4. \A i \in 1 .. M : i \in 1 .. (M + N) /\ whole[i] = document[i]
  BY <1>1, <1>2
<1>5. \A i \in 1 .. N : M + i \in 1 .. (M + N) /\ whole[M + i] = new[i]
  BY <1>1, <1>2
<1>6. \A i \in 1 .. (M + N) : i \in 1 .. M \/ (i - M \in 1 .. N /\ i = M + (i - M) /\ whole[i] = new[i - M])
  BY <1>1, <1>2
<1>7. Names(whole) = Names(document) \cup Names(new)
  <2>1. ASSUME NEW n \in Names(document)  PROVE n \in Names(whole)
    <3>1. PICK i \in 1 .. M : document[i].name = n
      BY <1>1 DEF Names
    <3> QED  BY <1>3, <1>4, <3>1 DEF Names
  <2>2. ASSUME NEW n \in Names(new)  PROVE n \in Names(whole)
    <3>1. PICK i \in 1 .. N : new[i].name = n
      BY <1>1 DEF Names
    <3> QED  BY <1>3, <1>5, <3>1 DEF Names
  <2>3. ASSUME NEW n \in Names(whole)  PROVE n \in Names(document) \cup Names(new)
    <3>1. PICK i \in 1 .. (M + N) : whole[i].name = n
      BY <1>3 DEF Names
    <3>2. CASE i \in 1 .. M
      BY <1>1, <1>4, <3>1, <3>2 DEF Names
    <3>3. CASE i - M \in 1 .. N /\ whole[i] = new[i - M]
      BY <1>1, <3>1, <3>3 DEF Names
    <3> QED  BY <1>6, <3>2, <3>3
  <2> QED  BY <2>1, <2>2, <2>3
<1>8. ASSUME name \in Names(new)
      PROVE  LastOf(whole, name) = LastOf(new, name)
  <2>1. PICK i \in 1 .. Len(whole) : /\ whole[i].name = name /\ LastOf(whole, name) = whole[i].text
                                     /\ \A j \in 1 .. Len(whole) : whole[j].name = name => j <= i
    BY <1>2, <1>7, <1>8, LastIsThere
  <2>2. PICK k \in 1 .. N : /\ new[k].name = name /\ LastOf(new, name) = new[k].text
                            /\ \A j \in 1 .. N : new[j].name = name => j <= k
    BY <1>8, LastIsThere DEF N
  <2>3. M + k <= i
    BY <1>2, <1>5, <2>1, <2>2
  <2>4. i \in Nat /\ k \in Nat /\ k >= 1 /\ i \in 1 .. (M + N)
    BY <1>1, <1>2
  <2>5. i - M \in 1 .. N /\ whole[i] = new[i - M]
    BY <1>1, <1>2, <2>3, <2>4
  <2>6. i - M <= k
    BY <2>1, <2>2, <2>5
  <2>7. i - M = k
    BY <1>1, <2>3, <2>4, <2>6
  <2> QED  BY <2>1, <2>2, <2>5, <2>7
<1>9. ASSUME name \in Names(document), name \notin Names(new)
      PROVE  LastOf(whole, name) = LastOf(document, name)
  <2>1. PICK i \in 1 .. Len(whole) : /\ whole[i].name = name /\ LastOf(whole, name) = whole[i].text
                                     /\ \A j \in 1 .. Len(whole) : whole[j].name = name => j <= i
    BY <1>2, <1>7, <1>9, LastIsThere
  <2>2. PICK k \in 1 .. M : /\ document[k].name = name /\ LastOf(document, name) = document[k].text
                            /\ \A j \in 1 .. M : document[j].name = name => j <= k
    BY <1>9, LastIsThere DEF M
  <2>3. i \in 1 .. (M + N)
    BY <1>2, <2>1
  <2>4. i \in 1 .. M
    BY <1>1, <1>6, <1>9, <2>1, <2>3 DEF Names
  <2>5. i <= k /\ k <= i
    BY <1>2, <1>4, <2>1, <2>2, <2>4
  <2>6. i = k
    BY <1>1, <2>4, <2>5
  <2> QED  BY <1>4, <2>1, <2>2, <2>6
<1> QED  BY <1>7, <1>8, <1>9 DEF whole
-----------------------------------------------------------------------------
(* Types *)

\* Whether a listener throws is yes or no.
LEMMA ThrowsIsBoolean ==
    ASSUME NEW p, NEW v, NEW st
    PROVE  ListenerThrows(p, v, st) \in BOOLEAN
BY DEF ListenerThrows, Calls

\* Giving a parameter a value of its kind.
LEMMA AssignedTypes ==
    ASSUME ParameterTypeOK, NEW p \in Parameter, NEW v \in Value, NEW st, Assigned(p, v, st),
           status' \in [Parameter -> LoadStatus]
    PROVE  ParameterTypeOK'
<1>1. /\ value' = [value EXCEPT ![p] = v] /\ given' = given \cup {p}
      /\ threw' = ListenerThrows(p, v, st) /\ holder' = holder /\ attended' = attended
  BY DEF Assigned
<1>2. threw' \in BOOLEAN
  BY <1>1, ThrowsIsBoolean
<1>3. value' \in [Parameter -> Value] /\ given' \subseteq Parameter
  BY <1>1 DEF ParameterTypeOK
<1> QED  BY <1>1, <1>2, <1>3 DEF ParameterTypeOK

\* So does loading it, also when the text does not parse.
LEMMA LoadTypes ==
    ASSUME ParameterTypeOK, NEW p \in Parameter, NEW text \in Texts, load(p, text)
    PROVE  ParameterTypeOK'
<1>1. status' \in [Parameter -> LoadStatus]
  BY DEF load, ParameterTypeOK, LoadStatus
<1>2. CASE text = Bad /\ threw' = TRUE /\ UNCHANGED <<value, given, holder, attended>>
  BY <1>1, <1>2 DEF ParameterTypeOK
<1>3. CASE text # Bad /\ Assigned(p, text, status')
  <2>1. text \in Value
    BY <1>3 DEF Texts
  <2> QED  BY <1>1, <1>3, <2>1, AssignedTypes
<1> QED  BY <1>2, <1>3 DEF load

\* And setting it to its default.
LEMMA LoadDefaultTypes ==
    ASSUME ParameterTypeOK, NEW p \in Parameter, loadDefault(p)
    PROVE  ParameterTypeOK'
<1>1. status' \in [Parameter -> LoadStatus]
  BY DEF loadDefault, ParameterTypeOK, LoadStatus
<1>2. Initial[p] \in Value
  BY ParameterAssumption
<1>3. Assigned(p, Initial[p], status')
  BY DEF loadDefault
<1> QED  BY <1>1, <1>2, <1>3, AssignedTypes

\* And what the program does with it.
LEMMA ProgramTypes ==
    ASSUME ParameterTypeOK, NEW p \in Parameter, Program(p)
    PROVE  ParameterTypeOK'
<1>1. CASE addListener(p)
  BY <1>1 DEF addListener, ParameterTypeOK
<1>2. CASE removeListener(p)
  BY <1>2 DEF removeListener, ParameterTypeOK
<1>3. CASE variableRemoveListeners(p)
  BY <1>3 DEF variableRemoveListeners, ParameterTypeOK
<1>4. ASSUME NEW text \in Texts, setToString(p, text)
      PROVE  ParameterTypeOK'
  <2>1. status' \in [Parameter -> LoadStatus]
    BY <1>4 DEF setToString, ParameterTypeOK
  <2>2. CASE text = Bad /\ threw' = TRUE /\ UNCHANGED <<value, given, holder, attended>>
    BY <2>1, <2>2 DEF ParameterTypeOK
  <2>3. CASE text # Bad /\ Assigned(p, text, status)
    <3>1. text \in Value
      BY <2>3 DEF Texts
    <3> QED  BY <2>1, <2>3, <3>1, AssignedTypes
  <2> QED  BY <1>4, <2>2, <2>3 DEF setToString
<1>5. ASSUME NEW v \in Value, NEW loadStatus \in LoadStatus, readParameter(p, v, loadStatus)
      PROVE  ParameterTypeOK'
  <2>1. status' \in [Parameter -> LoadStatus]
    BY <1>5 DEF readParameter, ParameterTypeOK
  <2> QED  BY <1>5, <2>1, AssignedTypes DEF readParameter
<1> QED  BY <1>1, <1>2, <1>3, <1>4, <1>5 DEF Program

\* The names of the parameters, as seen from the registries.
ParameterNames == {RelativeName(r, p) : r \in Registry, p \in Parameter}

\* What the variables hold, histories included; only a reading has parameters
\* ahead of it.
FileTypes ==
    /\ ParameterTypeOK
    /\ reading \in Registry \cup {None} /\ todo \in Seq(Parameter) /\ (reading = None => todo = <<>>)
    /\ defaultParameters \subseteq ParameterNames
    /\ \A name \in DOMAIN parameterValues : parameterValues[name] \in Texts
    /\ \A name \in DOMAIN localMap : localMap[name] \in Texts
    /\ written \in Seq(DocumentEntry)
    /\ DOMAIN saved = Registry

\* The program starts with nothing read and nothing written.
LEMMA InitTypes == Init => FileTypes
<1> SUFFICES ASSUME Init  PROVE FileTypes
  OBVIOUS
<1>1. ParameterTypeOK
  BY ParameterAssumption DEF Init, ParameterInit, ParameterTypeOK, LoadStatus
<1>2. DOMAIN NoEntry = {}
  BY DEF NoEntry
<1>3. <<>> \in Seq(Parameter) /\ <<>> \in Seq(DocumentEntry)
  OBVIOUS
<1> QED  BY <1>1, <1>2, <1>3 DEF Init, FileTypes

\* A pass of the loop of a reading: it goes on behind the parameter, or is ended.
LEMMA NextPassTypes ==
    ASSUME FileTypes, reading # None, todo # <<>>, ParameterTypeOK', UNCHANGED fileVars,
           NEW map, \A name \in DOMAIN map : map[name] \in Texts,
           NEW defaults \in SUBSET ParameterNames, NextPass(map, defaults)
    PROVE  FileTypes'
<1>1. CASE threw'
  <2>1. DOMAIN NoEntry = {} /\ <<>> \in Seq(Parameter)
    BY DEF NoEntry
  <2> QED  BY <1>1, <2>1 DEF NextPass, FileTypes, fileVars
<1>2. CASE ~threw'
  <2>1. Tail(todo) \in Seq(Parameter)
    BY DEF FileTypes
  <2> QED  BY <1>2, <2>1 DEF NextPass, FileTypes, fileVars
<1> QED  BY <1>1, <1>2

\* Loading a parameter from its entry keeps the types.
LEMMA LoadNextTypes ==
    ASSUME FileTypes, LoadNext
    PROVE  FileTypes'
<1> DEFINE p == Head(todo)
           name == RelativeName(reading, p)
           left == Unnamed(localMap, name)
<1>1. /\ todo # <<>> /\ name \in DOMAIN localMap /\ load(p, localMap[name])
      /\ NextPass(left, defaultParameters) /\ UNCHANGED fileVars
  BY DEF LoadNext
<1>2. p \in Parameter /\ reading # None
  BY <1>1 DEF FileTypes
<1>3. localMap[name] \in Texts
  BY <1>1 DEF FileTypes
<1>4. ParameterTypeOK'
  BY <1>1, <1>2, <1>3, LoadTypes DEF FileTypes
<1>5. \A n \in DOMAIN left : left[n] \in Texts
  BY DEF Unnamed, FileTypes
<1>6. defaultParameters \in SUBSET ParameterNames
  BY DEF FileTypes
<1> HIDE DEF left
<1> QED  BY <1>1, <1>2, <1>4, <1>5, <1>6, NextPassTypes

\* So does setting one to its default.
LEMMA DefaultNextTypes ==
    ASSUME FileTypes, DefaultNext
    PROVE  FileTypes'
<1> DEFINE p == Head(todo)
           name == RelativeName(reading, p)
           defaults == defaultParameters \cup {name}
<1>1. todo # <<>> /\ loadDefault(p) /\ NextPass(localMap, defaults) /\ UNCHANGED fileVars
  BY DEF DefaultNext
<1>2. p \in Parameter /\ reading # None /\ reading \in Registry
  BY <1>1 DEF FileTypes
<1>3. ParameterTypeOK'
  BY <1>1, <1>2, LoadDefaultTypes DEF FileTypes
<1>4. \A n \in DOMAIN localMap : localMap[n] \in Texts
  BY DEF FileTypes
<1>5. defaults \in SUBSET ParameterNames
  BY <1>2 DEF FileTypes, ParameterNames
<1> HIDE DEF defaults
<1> QED  BY <1>1, <1>2, <1>3, <1>4, <1>5, NextPassTypes

\* So does reading a document, also one that a writer has just printed.
LEMMA LoadDocumentTypes ==
    ASSUME FileTypes, NEW document \in Documents \cup {InDocumentOrder(written)}, Load(document)
    PROVE  FileTypes'
<1>1. document \in Seq(DocumentEntry)
  BY InDocumentOrderType, FilesAssumption DEF FileTypes
<1>2. ParameterTypeOK'
  <2>1. UNCHANGED <<value, status, holder, attended, given>> /\ threw' \in BOOLEAN
    BY DEF Load, readAndOverwrite, overwrite
  <2> QED  BY <2>1 DEF FileTypes, ParameterTypeOK
<1>3. PICK read \in Seq(DocumentEntry) : parameterValues' = Overwritten(parameterValues, read)
  <2>1. CASE readAndOverwrite(document)
    BY <1>1, <2>1 DEF readAndOverwrite
  <2>2. CASE overwrite(document) /\ UnknownEntries(document) = {}
    BY <1>1, <2>2 DEF overwrite
  <2>3. CASE overwrite(document) /\ UnknownEntries(document) # {}
    BY <1>1, <2>3, UpToUnknownType DEF overwrite
  <2> QED  BY <2>1, <2>2, <2>3 DEF Load
<1>4. \A name \in DOMAIN parameterValues' : parameterValues'[name] \in Texts
  BY <1>3, OverwrittenProperties DEF FileTypes
<1>5. UNCHANGED <<loopVars, written, saved>>
  BY DEF Load, readAndOverwrite, overwrite
<1> QED  BY <1>2, <1>4, <1>5 DEF FileTypes, loopVars

\* What a parameter is saved as, is an entry.
LEMMA EntryType ==
    ASSUME ParameterTypeOK, NEW r \in Registry, NEW p \in Parameter
    PROVE  Entry(r, p) \in DocumentEntry
<1>1. RelativeName(r, p) \in FullName
  BY NameProperties
<1>2. Printed[value[p]] \in Texts
  BY ParameterAssumption DEF ParameterTypeOK, Texts
<1> QED  BY <1>1, <1>2 DEF Entry, DocumentEntry

\* What a call of the writer adds, as entries.
LEMMA AddedEntries ==
    ASSUME ParameterTypeOK, NEW r \in Registry, NEW list \in Seq(Parameter)
    PROVE  [i \in DOMAIN list |-> Entry(r, list[i])] \in Seq(DocumentEntry)
<1> DEFINE new == [i \in DOMAIN list |-> Entry(r, list[i])]
<1>1. Len(list) \in Nat /\ DOMAIN list = 1 .. Len(list)
  OBVIOUS
<1>2. \A i \in DOMAIN list : Entry(r, list[i]) \in DocumentEntry
  BY <1>1, EntryType
<1>3. new \in [1 .. Len(list) -> DocumentEntry]
  BY <1>1, <1>2
<1> HIDE DEF new
<1>4. new \in Seq(DocumentEntry)
  BY <1>1, <1>3
<1> QED  BY <1>4 DEF new

\* Saving parameters keeps the types.
LEMMA AddTypes ==
    ASSUME FileTypes, NEW r \in Registry, addParameters(r)
    PROVE  FileTypes'
<1> DEFINE list == Savable(ParametersIn[r])
           new == [i \in DOMAIN list |-> Entry(r, list[i])]
<1>1. list \in Seq(Parameter)
  BY ListProperties, SavableProperties
<1>2. /\ written' = written \o new /\ threw' \in BOOLEAN
      /\ DOMAIN saved' = DOMAIN saved
      /\ UNCHANGED <<value, status, holder, attended, given, loopVars, parameterValues>>
  BY DEF addParameters
<1>3. new \in Seq(DocumentEntry)
  <2> HIDE DEF list
  <2> QED  BY <1>1, AddedEntries DEF FileTypes
<1> HIDE DEF new
<1>4. written \o new \in Seq(DocumentEntry)
  BY <1>3 DEF FileTypes
<1> QED  BY <1>2, <1>4 DEF FileTypes, ParameterTypeOK, loopVars

\* Every step keeps the types.
LEMMA NextTypes == FileTypes /\ [Next]_vars => FileTypes'
<1> SUFFICES ASSUME FileTypes, [Next]_vars  PROVE FileTypes'
  OBVIOUS
<1>1. ASSUME NEW p \in Parameter, Program(p), UNCHANGED <<loopVars, fileVars>>
      PROVE  FileTypes'
  <2>1. ParameterTypeOK'
    BY <1>1, ProgramTypes DEF FileTypes
  <2> QED  BY <1>1, <2>1 DEF FileTypes, loopVars, fileVars
<1>2. ASSUME NEW document \in Documents \cup {InDocumentOrder(written)}, Load(document)
      PROVE  FileTypes'
  BY <1>2, LoadDocumentTypes
<1>3. ASSUME NEW r \in Registry, readParametersInRegistry(r)
      PROVE  FileTypes'
  <2>1. ParametersIn[r] \in Seq(Parameter) /\ r # None
    BY ListProperties, FilesAssumption
  <2>2. /\ reading' = r /\ todo' = ParametersIn[r] /\ localMap' = parameterValues
        /\ defaultParameters' = {} /\ threw' = FALSE
        /\ UNCHANGED <<value, status, holder, attended, given, parameterValues, written, saved>>
    BY <1>3 DEF readParametersInRegistry, fileVars
  <2> QED  BY <2>1, <2>2 DEF FileTypes, ParameterTypeOK
<1>4. ASSUME NEW r \in Registry, addParameters(r)
      PROVE  FileTypes'
  BY <1>4, AddTypes
<1>5. CASE ReadReturns
  <2>1. DOMAIN NoEntry = {}
    BY DEF NoEntry
  <2> QED  BY <1>5, <2>1 DEF ReadReturns, FileTypes, ParameterTypeOK, fileVars
<1>6. CASE newReader
  <2>1. DOMAIN NoEntry = {}
    BY DEF NoEntry
  <2> QED  BY <1>6, <2>1 DEF newReader, FileTypes, ParameterTypeOK, loopVars
<1>7. CASE newWriter
  <2>1. <<>> \in Seq(DocumentEntry)
    OBVIOUS
  <2> QED  BY <1>7, <2>1 DEF newWriter, FileTypes, ParameterTypeOK, loopVars
<1>8. CASE UNCHANGED vars
  BY <1>8 DEF vars, parameterVars, loopVars, fileVars, FileTypes, ParameterTypeOK
<1> QED  BY <1>1, <1>2, <1>3, <1>4, <1>5, <1>6, <1>7, <1>8, LoadNextTypes, DefaultNextTypes DEF Next, ReadStep

\* The types hold in every reachable state.
LEMMA TypesKept == Spec => []FileTypes
BY InitTypes, NextTypes, PTL DEF Spec

\* Whatever documents are read, and whatever listeners end, every parameter
\* holds a value of its kind, and what is known of a name is a text.
THEOREM ParameterTypesKept == Spec => []TypeOK
<1>1. FileTypes => TypeOK
  BY DEF FileTypes, TypeOK, ParameterNames
<1> QED  BY <1>1, TypesKept, PTL
-----------------------------------------------------------------------------
(* Reading *)

\* The parameters the loop has passed, with their names as the registry sees them.
List == ParametersIn[reading]
Passed == Len(List) - Len(todo)
NamesPassed == {RelativeName(reading, List[i]) : i \in 1 .. Passed}

\* p is what the reader says of it, and its default when it says nothing.
Settled(p) ==
    IF RelativeName(reading, p) \in DOMAIN parameterValues
    THEN status[p] = "LOADED" /\ value[p] = parameterValues[RelativeName(reading, p)]
    ELSE status[p] = "DEFAULT" /\ value[p] = Initial[p]

\* While a registry is read, nothing but the loop sets its parameters: the ones
\* it has passed are settled, and the two reports are exact for their names.
ReadInv ==
    reading # None =>
       /\ Passed \in 0 .. Len(List)
       /\ \A i \in 1 .. Len(todo) : todo[i] = List[Passed + i]
       /\ \A i \in 1 .. Passed : Settled(List[i])
       /\ DOMAIN localMap = DOMAIN parameterValues \ NamesPassed
       /\ \A name \in DOMAIN localMap : localMap[name] = parameterValues[name]
       /\ defaultParameters = NamesPassed \ DOMAIN parameterValues

\* The parameter a pass is about: the first that is ahead, listed behind the
\* ones that were passed, and none of them.
LEMMA NextIsNew ==
    ASSUME FileTypes, ReadInv, reading # None, todo # <<>>
    PROVE  /\ reading \in Registry /\ Head(todo) \in Parameter
           /\ Passed \in 0 .. (Len(List) - 1) /\ Head(todo) = List[Passed + 1]
           /\ \A i \in 1 .. Passed : List[i] \in Parameter /\ List[i] # Head(todo)
           /\ RelativeName(reading, Head(todo)) \notin NamesPassed
<1>1. reading \in Registry /\ todo \in Seq(Parameter)
  BY DEF FileTypes
<1>2. Len(todo) \in Nat \ {0} /\ Head(todo) = todo[1] /\ Head(todo) \in Parameter
  BY <1>1, EmptySeq
<1>3. /\ List \in Seq(Parameter)
      /\ \A i, j \in 1 .. Len(List) : List[i] = List[j] => i = j
  BY <1>1, ListProperties DEF List
<1>4. Len(List) \in Nat
  BY <1>3
<1>5. Passed \in 0 .. (Len(List) - 1)
  BY <1>2, <1>4 DEF ReadInv, Passed
<1>6. Head(todo) = List[Passed + 1]
  BY <1>2 DEF ReadInv
<1>7. \A i \in 1 .. Passed : List[i] \in Parameter /\ List[i] # Head(todo)
  <2> TAKE i \in 1 .. Passed
  <2>1. i \in 1 .. Len(List) /\ Passed + 1 \in 1 .. Len(List) /\ i # Passed + 1
    BY <1>4, <1>5
  <2> QED  BY <1>3, <1>6, <2>1
<1>8. RelativeName(reading, Head(todo)) \notin NamesPassed
  <2> SUFFICES ASSUME NEW i \in 1 .. Passed,
                      RelativeName(reading, Head(todo)) = RelativeName(reading, List[i])
               PROVE  FALSE
    BY DEF NamesPassed
  <2> QED  BY <1>1, <1>2, <1>7, NamesDiffer
<1> QED  BY <1>1, <1>2, <1>5, <1>6, <1>7, <1>8

\* A pass that is not ended settles its parameter and leaves the others alone.
Settles(p) ==
    /\ ~threw' /\ UNCHANGED <<reading, parameterValues>>
    /\ todo' = Tail(todo)
    /\ IF RelativeName(reading, p) \in DOMAIN parameterValues
       THEN status'[p] = "LOADED" /\ value'[p] = parameterValues[RelativeName(reading, p)]
       ELSE status'[p] = "DEFAULT" /\ value'[p] = Initial[p]
    /\ \A q \in Parameter \ {p} : value'[q] = value[q] /\ status'[q] = status[q]

\* Such a pass makes one more that was passed.
LEMMA OneMorePassed ==
    ASSUME FileTypes, ReadInv, reading # None, todo # <<>>, Settles(Head(todo)), FileTypes'
    PROVE  /\ Passed' = Passed + 1 /\ Passed' \in 0 .. Len(List) /\ List' = List
           /\ \A i \in 1 .. Len(todo') : todo'[i] = List[Passed' + i]
           /\ \A i \in 1 .. Passed' : Settled(List[i])'
           /\ NamesPassed' = NamesPassed \cup {RelativeName(reading, Head(todo))}
<1>1. /\ reading \in Registry /\ Head(todo) \in Parameter
      /\ Passed \in 0 .. (Len(List) - 1) /\ Head(todo) = List[Passed + 1]
      /\ \A i \in 1 .. Passed : List[i] \in Parameter /\ List[i] # Head(todo)
  BY NextIsNew
<1>2. List' = List
  BY DEF List, Settles
<1>3. todo \in Seq(Parameter) /\ Len(List) \in Nat
  BY <1>1, ListProperties DEF FileTypes, List
<1>4. /\ Len(todo) \in Nat /\ Len(todo') = Len(todo) - 1 /\ Len(todo') \in Nat
      /\ \A i \in 1 .. Len(todo') : todo'[i] = todo[i + 1] /\ i + 1 \in 1 .. Len(todo)
  BY <1>3, HeadTailProperties DEF Settles
<1>5. Passed' = Passed + 1
  BY <1>2, <1>3, <1>4 DEF Passed
<1>6. Passed' \in 0 .. Len(List)
  BY <1>1, <1>3, <1>5
<1>7. \A i \in 1 .. Len(todo') : todo'[i] = List[Passed' + i]
  <2> TAKE i \in 1 .. Len(todo')
  <2>1. todo'[i] = List[Passed + (i + 1)]
    BY <1>4 DEF ReadInv
  <2>2. Passed + (i + 1) = Passed' + i
    BY <1>1, <1>3, <1>4, <1>5
  <2> QED  BY <2>1, <2>2
<1>8. \A i \in 1 .. Passed' : Settled(List[i])'
  <2> TAKE i \in 1 .. Passed'
  <2>1. i \in 1 .. Passed \/ i = Passed + 1
    BY <1>1, <1>3, <1>5
  <2>2. CASE i \in 1 .. Passed
    <3>1. Settled(List[i])
      BY <2>2 DEF ReadInv
    <3>2. value'[List[i]] = value[List[i]] /\ status'[List[i]] = status[List[i]]
      BY <1>1, <2>2 DEF Settles
    <3> QED  BY <1>2, <3>1, <3>2 DEF Settled, Settles
  <2>3. CASE i = Passed + 1
    <3>1. List[i] = Head(todo)
      BY <1>1, <2>3
    <3> QED  BY <1>2, <3>1 DEF Settled, Settles
  <2> QED  BY <2>1, <2>2, <2>3
<1>9. NamesPassed' = NamesPassed \cup {RelativeName(reading, Head(todo))}
  <2>1. \A i : i \in 1 .. Passed' <=> i \in 1 .. Passed \/ i = Passed + 1
    BY <1>1, <1>3, <1>5
  <2>2. reading' = reading
    BY DEF Settles
  <2> QED  BY <1>1, <1>2, <2>1, <2>2 DEF NamesPassed
<1> QED  BY <1>2, <1>5, <1>6, <1>7, <1>8, <1>9

\* What loading does to a parameter, and to no other one.
LEMMA LoadSets ==
    ASSUME ParameterTypeOK, NEW p \in Parameter, NEW text, load(p, text)
    PROVE  /\ status'[p] = "LOADED"
           /\ ~threw' => value'[p] = text
           /\ \A q \in Parameter \ {p} : value'[q] = value[q] /\ status'[q] = status[q]
<1>1. status' = [status EXCEPT ![p] = "LOADED"]
  BY DEF load
<1>2. \/ threw' = TRUE /\ value' = value
      \/ value' = [value EXCEPT ![p] = text]
  BY DEF load, Assigned
<1> QED  BY <1>1, <1>2 DEF ParameterTypeOK

\* What setting it to its default does.
LEMMA LoadDefaultSets ==
    ASSUME ParameterTypeOK, NEW p \in Parameter, loadDefault(p)
    PROVE  /\ status'[p] = "DEFAULT" /\ value'[p] = Initial[p]
           /\ \A q \in Parameter \ {p} : value'[q] = value[q] /\ status'[q] = status[q]
<1>1. status' = [status EXCEPT ![p] = "DEFAULT"] /\ value' = [value EXCEPT ![p] = Initial[p]]
  BY DEF loadDefault, Assigned
<1> QED  BY <1>1 DEF ParameterTypeOK

\* A pass that finds an entry takes it out of the map.
LEMMA LoadNextReads ==
    ASSUME FileTypes, ReadInv, FileTypes', LoadNext
    PROVE  ReadInv'
<1> DEFINE p == Head(todo)
           name == RelativeName(reading, p)
<1>1. /\ todo # <<>> /\ name \in DOMAIN localMap /\ load(p, localMap[name])
      /\ NextPass(Unnamed(localMap, name), defaultParameters) /\ UNCHANGED fileVars
  BY DEF LoadNext
<1>2. reading # None /\ p \in Parameter
  BY <1>1 DEF FileTypes
<1>3. CASE threw'
  BY <1>1, <1>3 DEF NextPass, ReadInv
<1>4. CASE ~threw'
  <2>1. name \in DOMAIN parameterValues /\ localMap[name] = parameterValues[name]
    BY <1>1, <1>2 DEF ReadInv
  <2>2. /\ status'[p] = "LOADED" /\ value'[p] = localMap[name]
        /\ \A q \in Parameter \ {p} : value'[q] = value[q] /\ status'[q] = status[q]
    BY <1>1, <1>2, <1>4, LoadSets DEF FileTypes
  <2>3. /\ todo' = Tail(todo) /\ localMap' = Unnamed(localMap, name)
        /\ defaultParameters' = defaultParameters
        /\ UNCHANGED <<reading, parameterValues>>
    BY <1>1, <1>4 DEF NextPass, fileVars
  <2>4. Settles(p)
    BY <1>4, <2>1, <2>2, <2>3 DEF Settles
  <2>5. /\ Passed' \in 0 .. Len(List) /\ List' = List
        /\ \A i \in 1 .. Len(todo') : todo'[i] = List[Passed' + i]
        /\ \A i \in 1 .. Passed' : Settled(List[i])'
        /\ NamesPassed' = NamesPassed \cup {name}
    BY <1>1, <1>2, <2>4, OneMorePassed
  <2>6. /\ DOMAIN localMap = DOMAIN parameterValues \ NamesPassed
        /\ \A n \in DOMAIN localMap : localMap[n] = parameterValues[n]
        /\ defaultParameters = NamesPassed \ DOMAIN parameterValues
    BY <1>2 DEF ReadInv
  <2>7. /\ DOMAIN localMap' = DOMAIN parameterValues' \ NamesPassed'
        /\ \A n \in DOMAIN localMap' : localMap'[n] = parameterValues'[n]
    BY <2>3, <2>5, <2>6 DEF Unnamed
  <2>8. defaultParameters' = NamesPassed' \ DOMAIN parameterValues'
    BY <2>1, <2>3, <2>5, <2>6
  <2> QED  BY <2>5, <2>7, <2>8 DEF ReadInv
<1> QED  BY <1>3, <1>4

\* One that finds none reports the name.
LEMMA DefaultNextReads ==
    ASSUME FileTypes, ReadInv, FileTypes', DefaultNext
    PROVE  ReadInv'
<1> DEFINE p == Head(todo)
           name == RelativeName(reading, p)
<1>1. /\ todo # <<>> /\ name \notin DOMAIN localMap /\ loadDefault(p)
      /\ NextPass(localMap, defaultParameters \cup {name}) /\ UNCHANGED fileVars
  BY DEF DefaultNext
<1>2. reading # None /\ p \in Parameter
  BY <1>1 DEF FileTypes
<1>3. CASE threw'
  BY <1>1, <1>3 DEF NextPass, ReadInv
<1>4. CASE ~threw'
  <2>1. name \notin DOMAIN parameterValues
    BY <1>1, <1>2, NextIsNew DEF ReadInv
  <2>2. /\ status'[p] = "DEFAULT" /\ value'[p] = Initial[p]
        /\ \A q \in Parameter \ {p} : value'[q] = value[q] /\ status'[q] = status[q]
    BY <1>1, <1>2, LoadDefaultSets DEF FileTypes
  <2>3. /\ todo' = Tail(todo) /\ localMap' = localMap
        /\ defaultParameters' = defaultParameters \cup {name}
        /\ UNCHANGED <<reading, parameterValues>>
    BY <1>1, <1>4 DEF NextPass, fileVars
  <2>4. Settles(p)
    BY <1>4, <2>1, <2>2, <2>3 DEF Settles
  <2>5. /\ Passed' \in 0 .. Len(List) /\ List' = List
        /\ \A i \in 1 .. Len(todo') : todo'[i] = List[Passed' + i]
        /\ \A i \in 1 .. Passed' : Settled(List[i])'
        /\ NamesPassed' = NamesPassed \cup {name}
    BY <1>1, <1>2, <2>4, OneMorePassed
  <2>6. /\ DOMAIN localMap = DOMAIN parameterValues \ NamesPassed
        /\ \A n \in DOMAIN localMap : localMap[n] = parameterValues[n]
        /\ defaultParameters = NamesPassed \ DOMAIN parameterValues
    BY <1>2 DEF ReadInv
  <2>7. /\ DOMAIN localMap' = DOMAIN parameterValues' \ NamesPassed'
        /\ \A n \in DOMAIN localMap' : localMap'[n] = parameterValues'[n]
    BY <2>1, <2>3, <2>5, <2>6
  <2>8. defaultParameters' = NamesPassed' \ DOMAIN parameterValues'
    BY <2>1, <2>3, <2>5, <2>6
  <2> QED  BY <2>5, <2>7, <2>8 DEF ReadInv
<1> QED  BY <1>3, <1>4

\* A reading starts with every parameter of the registry ahead of it.
LEMMA ReadingStarts ==
    ASSUME NEW r \in Registry, readParametersInRegistry(r)
    PROVE  ReadInv'
<1>1. /\ reading' = r /\ todo' = ParametersIn[r] /\ localMap' = parameterValues
      /\ defaultParameters' = {} /\ parameterValues' = parameterValues
  BY DEF readParametersInRegistry, fileVars
<1>2. List' = ParametersIn[r] /\ List' = todo'
  BY <1>1 DEF List
<1>3. Len(List') \in Nat
  BY <1>2, ListProperties
<1>4. Passed' = 0
  BY <1>2, <1>3 DEF Passed
<1>5. NamesPassed' = {}
  BY <1>4 DEF NamesPassed
<1>6. \A i \in 1 .. Len(todo') : todo'[i] = List'[Passed' + i]
  BY <1>2, <1>3, <1>4
<1> QED  BY <1>1, <1>3, <1>4, <1>5, <1>6 DEF ReadInv

\* Every step keeps what a reading relies on.
LEMMA NextReads == FileTypes /\ ReadInv /\ [Next]_vars => ReadInv'
<1> SUFFICES ASSUME FileTypes, ReadInv, [Next]_vars  PROVE ReadInv'
  OBVIOUS
<1>1. FileTypes'
  BY NextTypes
<1>2. ASSUME Idle, reading' = reading  PROVE ReadInv'
  BY <1>2 DEF Idle, ReadInv
<1>3. ASSUME NEW p \in Parameter, Idle, Program(p), UNCHANGED <<loopVars, fileVars>>
      PROVE  ReadInv'
  BY <1>2, <1>3 DEF loopVars
<1>4. ASSUME NEW document, Load(document)  PROVE ReadInv'
  BY <1>2, <1>4 DEF Load, readAndOverwrite, overwrite, loopVars
<1>5. ASSUME NEW r \in Registry, addParameters(r)  PROVE ReadInv'
  BY <1>2, <1>5 DEF addParameters, loopVars
<1>6. CASE newReader \/ newWriter
  BY <1>2, <1>6 DEF newReader, newWriter, loopVars
<1>7. CASE ReadReturns
  BY <1>7 DEF ReadReturns, ReadInv
<1>8. CASE UNCHANGED vars
  BY <1>8 DEF vars, parameterVars, loopVars, fileVars, ReadInv, Passed, List, NamesPassed, Settled
<1> QED  BY <1>1, <1>3, <1>4, <1>5, <1>6, <1>7, <1>8, LoadNextReads, DefaultNextReads, ReadingStarts
         DEF Next, ReadStep

\* It holds in every reachable state.
LEMMA ReadKept == Spec => [](FileTypes /\ ReadInv)
<1>1. Init => FileTypes /\ ReadInv
  BY InitTypes DEF Init, ReadInv
<1> QED  BY <1>1, NextTypes, NextReads, PTL DEF Spec

\* A reading that returns has set every parameter of the registry from its
\* entry, or to its default, and both reports are exact, whatever calls a
\* listener ended before.
THEOREM ReadingIsComplete == Spec => ReadIsComplete
<1> DEFINE Complete == LET read  == ToSet(ParametersIn[reading])
                           names == {RelativeName(reading, p) : p \in read}
                       IN  /\ \A p \in read :
                                 IF RelativeName(reading, p) \in DOMAIN parameterValues
                                 THEN status[p] = "LOADED" /\ value[p] = parameterValues[RelativeName(reading, p)]
                                 ELSE status[p] = "DEFAULT" /\ value[p] = Initial[p]
                           /\ defaultParameters = names \ DOMAIN parameterValues
                           /\ DOMAIN localMap = DOMAIN parameterValues \ names
<1>1. ASSUME FileTypes, ReadInv, ReadReturns  PROVE Complete
  <2>1. reading \in Registry /\ reading # None /\ todo = <<>>
    BY <1>1 DEF ReadReturns, FileTypes
  <2>2. List \in Seq(Parameter) /\ List = ParametersIn[reading]
    BY <2>1, ListProperties DEF List
  <2>3. DOMAIN List = 1 .. Passed
    BY <2>1, <2>2 DEF Passed
  <2>4. ToSet(List) = {List[i] : i \in 1 .. Passed}
    BY <2>3 DEF ToSet
  <2>5. NamesPassed = {RelativeName(reading, p) : p \in ToSet(List)}
    BY <2>4 DEF NamesPassed
  <2>6. \A p \in ToSet(List) : Settled(p)
    BY <1>1, <2>1, <2>4 DEF ReadInv
  <2>7. /\ defaultParameters = NamesPassed \ DOMAIN parameterValues
        /\ DOMAIN localMap = DOMAIN parameterValues \ NamesPassed
    BY <1>1, <2>1 DEF ReadInv
  <2> QED  BY <2>2, <2>5, <2>6, <2>7 DEF Settled
<1>2. FileTypes /\ ReadInv => [ReadReturns => Complete]_vars
  BY <1>1
<1> QED  BY <1>2, ReadKept, PTL DEF ReadIsComplete

\* The parameters in front of the one a pass is about are loaded.
LEMMA EarlierAreLoaded ==
    ASSUME FileTypes, ReadInv, reading # None, todo # <<>>,
           NEW q \in Parameter, q \in Earlier(Head(todo)), q \in ToSet(List), q # Head(todo)
    PROVE  status[q] # "UNLOADED"
<1>1. /\ reading \in Registry /\ Passed \in 0 .. (Len(List) - 1) /\ Head(todo) = List[Passed + 1]
  BY NextIsNew
<1>2. List \in Seq(Parameter) /\ List = ParametersIn[reading]
  BY <1>1, ListProperties DEF List
<1>3. Len(List) \in Nat /\ DOMAIN List = 1 .. Len(List) /\ Passed + 1 \in 1 .. Len(List)
  BY <1>1, <1>2
<1>4. PICK j \in 1 .. Len(List) : q = List[j]
  BY <1>3 DEF ToSet
<1>5. List[j] \in Earlier(List[Passed + 1])
  BY <1>1, <1>4
<1>6. j <= Passed + 1
  BY <1>1, <1>2, <1>3, <1>5, ListInOrder
<1>7. j \in 1 .. Passed
  BY <1>1, <1>3, <1>4, <1>6
<1>8. Settled(q)
  BY <1>4, <1>7 DEF ReadInv
<1> QED  BY <1>8 DEF Settled

\* A pass that throws does so for a text that does not parse, or for a listener
\* that asks for more than what is in front of its parameter in the registry.
PassThrowsFor ==
    \/ /\ RelativeName(reading, Head(todo)) \in DOMAIN localMap
       /\ localMap[RelativeName(reading, Head(todo))] = Bad
    \/ ~(Asks[Head(todo)] \subseteq Earlier(Head(todo)) \cap ToSet(ParametersIn[reading]))

\* The listener of the parameter that a pass sets finds what it asks for.
LEMMA AskedAreLoaded ==
    ASSUME FileTypes, ReadInv, reading # None, todo # <<>>,
           Asks[Head(todo)] \subseteq Earlier(Head(todo)) \cap ToSet(ParametersIn[reading]),
           status'[Head(todo)] # "UNLOADED",
           \A q \in Parameter \ {Head(todo)} : status'[q] = status[q],
           NEW v
    PROVE  ~ListenerThrows(Head(todo), v, status')
<1> DEFINE p == Head(todo)
<1>1. reading \in Registry /\ p \in Parameter
  BY NextIsNew
<1>2. Asks[p] \subseteq Parameter
  BY <1>1, ParameterAssumption
<1>3. ASSUME NEW q \in Asks[p]  PROVE status'[q] # "UNLOADED"
  <2>1. CASE q = p
    BY <2>1
  <2>2. CASE q # p
    <3>1. q \in Parameter /\ q \in Earlier(p) /\ q \in ToSet(List)
      BY <1>2, <1>3 DEF List
    <3>2. status[q] # "UNLOADED"
      BY <2>2, <3>1, EarlierAreLoaded
    <3> QED  BY <2>2, <3>1, <3>2
  <2> QED  BY <2>1, <2>2
<1> QED  BY <1>3 DEF ListenerThrows

\* A pass of a reading throws for no other reason.
LEMMA PassThrows ==
    ASSUME FileTypes, ReadInv, reading # None, todo # <<>>, LoadNext \/ DefaultNext, threw'
    PROVE  PassThrowsFor
<1> DEFINE p == Head(todo)
           name == RelativeName(reading, p)
<1> SUFFICES ASSUME ~PassThrowsFor  PROVE FALSE
  OBVIOUS
<1>1. Asks[p] \subseteq Earlier(p) \cap ToSet(ParametersIn[reading])
  BY DEF PassThrowsFor
<1>2. ParameterTypeOK /\ p \in Parameter
  BY DEF FileTypes
<1>3. CASE LoadNext
  <2>1. name \in DOMAIN localMap /\ load(p, localMap[name])
    BY <1>3 DEF LoadNext
  <2>2. localMap[name] # Bad
    BY <2>1 DEF PassThrowsFor
  <2>3. threw' = ListenerThrows(p, localMap[name], status')
    BY <2>1, <2>2 DEF load, Assigned
  <2>4. /\ status'[p] # "UNLOADED"
        /\ \A q \in Parameter \ {p} : status'[q] = status[q]
    BY <1>2, <2>1, LoadSets
  <2>5. ~ListenerThrows(p, localMap[name], status')
    BY <1>1, <2>4, AskedAreLoaded
  <2> QED  BY <2>3, <2>5
<1>4. CASE DefaultNext
  <2>1. loadDefault(p)
    BY <1>4 DEF DefaultNext
  <2>2. threw' = ListenerThrows(p, Initial[p], status')
    BY <2>1 DEF loadDefault, Assigned
  <2>3. /\ status'[p] # "UNLOADED"
        /\ \A q \in Parameter \ {p} : status'[q] = status[q]
    BY <1>2, <2>1, LoadDefaultSets
  <2>4. ~ListenerThrows(p, Initial[p], status')
    BY <1>1, <2>3, AskedAreLoaded
  <2> QED  BY <2>2, <2>4
<1> QED  BY <1>3, <1>4

\* While parameters are ahead of it, nothing but a pass of the loop happens.
LEMMA OnlyPasses ==
    ASSUME Next, reading # None, todo # <<>>
    PROVE  LoadNext \/ DefaultNext
BY DEF Next, Load, Idle, readAndOverwrite, overwrite, readParametersInRegistry, addParameters,
       ReadStep, ReadReturns, newReader, newWriter

\* A listener that asks for its parameter and those in front of it does not end
\* the reading that calls it.
THEOREM ListenersCanAlwaysRead == Spec => ListenersCanRead
<1>1. FileTypes /\ ReadInv /\ [Next]_vars =>
        [(reading \in Registry /\ todo # <<>> /\ threw') => PassThrowsFor]_vars
  <2> SUFFICES ASSUME FileTypes, ReadInv, Next, reading \in Registry, todo # <<>>, threw'
               PROVE  PassThrowsFor
    OBVIOUS
  <2>1. reading # None
    BY FilesAssumption
  <2>2. LoadNext \/ DefaultNext
    BY <2>1, OnlyPasses
  <2> QED  BY <2>1, <2>2, PassThrows
<1>2. [][(reading \in Registry /\ todo # <<>> /\ threw') => PassThrowsFor]_vars => ListenersCanRead
  BY DEF ListenersCanRead, PassThrowsFor
<1> QED  BY <1>1, <1>2, ReadKept, PTL DEF Spec
-----------------------------------------------------------------------------
(* Saving *)

\* The last entry of each saved parameter is what was saved, and entries of the
\* same name come from the same registry and parameter.
WrittenInv ==
    \A r \in Registry : \A p \in DOMAIN saved[r] :
        /\ p \in ToSet(ParametersIn[r])
        /\ RelativeName(r, p) \in Names(written)
        /\ LastOf(written, RelativeName(r, p)) = saved[r][p]

\* What is saved of a parameter is its name and the text of its value.
LEMMA AddedNames ==
    ASSUME NEW r \in Registry, NEW list \in Seq(Parameter), NEW new \in Seq(DocumentEntry),
           new = [i \in DOMAIN list |-> Entry(r, list[i])]
    PROVE  /\ Names(new) = {RelativeName(r, p) : p \in ToSet(list)}
           /\ \A p \in ToSet(list) : LastOf(new, RelativeName(r, p)) = Printed[value[p]]
<1>1. DOMAIN new = DOMAIN list /\ DOMAIN list = 1 .. Len(list) /\ Len(new) = Len(list)
  OBVIOUS
<1>2. \A i \in DOMAIN list : /\ new[i].name = RelativeName(r, list[i])
                             /\ new[i].text = Printed[value[list[i]]]
                             /\ list[i] \in Parameter
  BY <1>1 DEF Entry
<1>3. Names(new) = {RelativeName(r, p) : p \in ToSet(list)}
  BY <1>1, <1>2 DEF Names, ToSet
<1>4. ASSUME NEW p \in ToSet(list)
      PROVE  LastOf(new, RelativeName(r, p)) = Printed[value[p]]
  <2>1. PICK i \in 1 .. Len(new) : /\ new[i].name = RelativeName(r, p)
                                   /\ LastOf(new, RelativeName(r, p)) = new[i].text
    <3> DEFINE name == RelativeName(r, p)
    <3>1. name \in Names(new)
      BY <1>3
    <3> HIDE DEF name
    <3>2. \E i \in 1 .. Len(new) : new[i].name = name /\ LastOf(new, name) = new[i].text
      BY <3>1, LastIsThere
    <3> QED  BY <3>2 DEF name
  <2>2. RelativeName(r, list[i]) = RelativeName(r, p) /\ list[i] \in Parameter
    BY <1>1, <1>2, <2>1
  <2>3. p \in Parameter
    BY <1>2 DEF ToSet
  <2>4. list[i] = p
    BY <2>2, <2>3, NamesDiffer
  <2> QED  BY <1>1, <1>2, <2>1, <2>4
<1> QED  BY <1>3, <1>4

\* A save, whole or ended halfway, adds its own and keeps the earlier ones.
LEMMA AddKeepsSaved ==
    ASSUME FileTypes, WrittenInv, NEW r \in Registry, addParameters(r)
    PROVE  WrittenInv'
<1> DEFINE list == Savable(ParametersIn[r])
           new == [i \in DOMAIN list |-> Entry(r, list[i])]
<1>1. list \in Seq(Parameter) /\ ToSet(list) \subseteq ToSet(ParametersIn[r])
  BY ListProperties, SavableProperties
<1>2. /\ written' = written \o new
      /\ saved' = [saved EXCEPT ![r] = [p \in DOMAIN @ \cup ToSet(list) |->
                      IF p \in ToSet(list) THEN Printed[value[p]] ELSE @[p]]]
  BY DEF addParameters
<1>3. new \in Seq(DocumentEntry)
  <2> HIDE DEF list
  <2> QED  BY <1>1, AddedEntries DEF FileTypes
<1>4. /\ Names(new) = {RelativeName(r, p) : p \in ToSet(list)}
      /\ \A p \in ToSet(list) : LastOf(new, RelativeName(r, p)) = Printed[value[p]]
  <2> HIDE DEF list
  <2> QED  BY <1>1, <1>3, AddedNames
<1>5. written \in Seq(DocumentEntry) /\ DOMAIN saved = Registry
  BY DEF FileTypes
<1> HIDE DEF list, new
<1> SUFFICES ASSUME NEW s \in Registry, NEW p \in DOMAIN saved'[s]
             PROVE  /\ p \in ToSet(ParametersIn[s])
                    /\ RelativeName(s, p) \in Names(written')
                    /\ LastOf(written', RelativeName(s, p)) = saved'[s][p]
  BY DEF WrittenInv
<1>6. CASE s = r /\ p \in ToSet(list)
  <2>1. saved'[s][p] = Printed[value[p]]
    BY <1>2, <1>5, <1>6
  <2>2. RelativeName(s, p) \in Names(new) /\ LastOf(new, RelativeName(s, p)) = Printed[value[p]]
    BY <1>4, <1>6
  <2> QED  BY <1>1, <1>2, <1>3, <1>5, <1>6, <2>1, <2>2, LastOfAppended
<1>7. CASE ~(s = r /\ p \in ToSet(list))
  <2>1. p \in DOMAIN saved[s] /\ saved'[s][p] = saved[s][p]
    BY <1>2, <1>5, <1>7
  <2>2. /\ p \in ToSet(ParametersIn[s]) /\ RelativeName(s, p) \in Names(written)
        /\ LastOf(written, RelativeName(s, p)) = saved[s][p]
    BY <2>1 DEF WrittenInv
  <2>3. RelativeName(s, p) \notin Names(new)
    <3> SUFFICES ASSUME NEW q \in ToSet(list), RelativeName(s, p) = RelativeName(r, q)
                 PROVE  FALSE
      BY <1>4
    <3> QED  BY <1>1, <1>7, <2>2, NamesDifferAcross
  <2> QED  BY <1>2, <1>3, <1>5, <2>1, <2>2, <2>3, LastOfAppended
<1> QED  BY <1>6, <1>7

\* Nothing else writes.
LEMMA NextKeepsSaved == FileTypes /\ WrittenInv /\ [Next]_vars => WrittenInv'
<1> SUFFICES ASSUME FileTypes, WrittenInv, [Next]_vars  PROVE WrittenInv'
  OBVIOUS
<1>1. ASSUME UNCHANGED <<written, saved>>  PROVE WrittenInv'
  BY <1>1 DEF WrittenInv
<1>2. ASSUME UNCHANGED fileVars  PROVE WrittenInv'
  BY <1>1, <1>2 DEF fileVars
<1>3. ASSUME NEW p \in Parameter, UNCHANGED <<loopVars, fileVars>>  PROVE WrittenInv'
  BY <1>2, <1>3
<1>4. ASSUME NEW document, Load(document)  PROVE WrittenInv'
  BY <1>1, <1>4 DEF Load, readAndOverwrite, overwrite
<1>5. ASSUME NEW r \in Registry, readParametersInRegistry(r)  PROVE WrittenInv'
  BY <1>2, <1>5 DEF readParametersInRegistry
<1>6. CASE ReadStep
  BY <1>2, <1>6 DEF ReadStep, LoadNext, DefaultNext, ReadReturns
<1>7. CASE newReader
  BY <1>1, <1>7 DEF newReader
<1>8. CASE newWriter
  <2>1. \A r \in Registry : DOMAIN saved'[r] = {}
    BY <1>8 DEF newWriter, NoEntry
  <2> QED  BY <2>1 DEF WrittenInv
<1>9. CASE UNCHANGED vars
  BY <1>2, <1>9 DEF vars
<1> QED  BY <1>3, <1>4, <1>5, <1>6, <1>7, <1>8, <1>9, AddKeepsSaved DEF Next

\* It holds in every reachable state, with the rest.
LEMMA SavedKept == Spec => [](FileTypes /\ ReadInv /\ WrittenInv)
<1>1. Init => WrittenInv
  BY DEF Init, NoEntry, WrittenInv
<1> QED  BY <1>1, NextKeepsSaved, ReadKept, PTL DEF Spec

\* Reading back what a writer has written gives each parameter the value it was
\* last saved with, when it is read into the registry it was saved from.
THEOREM WhatIsSavedComesBack == Spec => SavedComesBack
<1> DEFINE Back == \A r \in Registry :
                     (ReadReturns /\ reading = r /\ parameterValues = Overwritten(NoEntry, written)) =>
                         \A p \in DOMAIN saved[r] : value[p] = saved[r][p] /\ status[p] = "LOADED"
<1>1. FileTypes /\ ReadInv /\ WrittenInv => Back
  <2> SUFFICES ASSUME FileTypes, ReadInv, WrittenInv, NEW r \in Registry, ReadReturns, reading = r,
                      parameterValues = Overwritten(NoEntry, written), NEW p \in DOMAIN saved[r]
               PROVE  value[p] = saved[r][p] /\ status[p] = "LOADED"
    OBVIOUS
  <2>1. reading # None /\ todo = <<>>
    BY DEF ReadReturns
  <2>2. /\ p \in ToSet(ParametersIn[r]) /\ RelativeName(r, p) \in Names(written)
        /\ LastOf(written, RelativeName(r, p)) = saved[r][p]
    BY DEF WrittenInv
  <2>3. List = ParametersIn[r] /\ List \in Seq(Parameter)
    BY ListProperties DEF List
  <2>4. PICK i \in 1 .. Passed : p = List[i]
    BY <2>1, <2>2, <2>3 DEF ToSet, Passed
  <2>5. Settled(p)
    BY <2>1, <2>4 DEF ReadInv
  <2>6. /\ RelativeName(r, p) \in DOMAIN parameterValues
        /\ parameterValues[RelativeName(r, p)] = LastOf(written, RelativeName(r, p))
    BY <2>2 DEF Overwritten
  <2> QED  BY <2>2, <2>5, <2>6 DEF Settled
<1>2. FileTypes /\ ReadInv /\ WrittenInv => [Back]_vars
  BY <1>1
<1> QED  BY <1>2, SavedKept, PTL DEF SavedComesBack
=============================================================================
