-------------------------- MODULE YoRegistryProofs --------------------------
(***************************************************************************)
(* The tree of registries and the lists of variables keep what the code    *)
(* relies on, for every number of registries and variables and whatever    *)
(* their names: the pointers and lists of both sides agree, nobody is      *)
(* above itself although addChild looks for names only, the stored names   *)
(* are the paths from the root, and restrictions and listeners are heeded. *)
(***************************************************************************)
EXTENDS YoRegistry, SequenceProofs, FiniteSetTheorems

(* Paths of parent pointers, for any pointers *)

Pointers == [Registry -> Registry \cup {None}]

\* A path starts at the registry, and goes on with the parent of whoever is on it.
LEMMA AncestorsStart ==
    ASSUME NEW p \in Pointers, NEW r \in Registry
    PROVE  r \in Ancestors(p, r) /\ Ancestors(p, r) \subseteq Registry
BY DEF Ancestors

\* The parent of a registry on a path is on the path.
LEMMA AncestorsClosed ==
    ASSUME NEW p \in Pointers, NEW r \in Registry, NEW x \in Ancestors(p, r), p[x] # None
    PROVE  p[x] \in Ancestors(p, r)
<1>1. x \in Registry /\ p[x] \in Registry
  BY DEF Ancestors, Pointers
<1>2. ASSUME NEW S \in SUBSET Registry, r \in S, \A y \in S : p[y] \in S \cup {None}
      PROVE  p[x] \in S
  <2>1. x \in S
    BY <1>2 DEF Ancestors
  <2> QED  BY <1>2, <2>1
<1> QED  BY <1>1, <1>2 DEF Ancestors

\* Nothing else is on it.
LEMMA AncestorsLeast ==
    ASSUME NEW p \in Pointers, NEW r \in Registry, NEW S \in SUBSET Registry,
           r \in S, \A x \in S : p[x] \in S \cup {None}
    PROVE  Ancestors(p, r) \subseteq S
BY DEF Ancestors

\* The path of a registry on a path is the rest of that path.
LEMMA AncestorsTransitive ==
    ASSUME NEW p \in Pointers, NEW r \in Registry, NEW s \in Ancestors(p, r)
    PROVE  Ancestors(p, s) \subseteq Ancestors(p, r)
<1>1. Ancestors(p, r) \in SUBSET Registry /\ s \in Registry
  BY AncestorsStart
<1>2. \A x \in Ancestors(p, r) : p[x] \in Ancestors(p, r) \cup {None}
  BY AncestorsClosed
<1> QED  BY <1>1, <1>2, AncestorsLeast

\* A path is its first registry and the path of its parent, which is how the code walks it.
LEMMA AncestorsUnfold ==
    ASSUME NEW p \in Pointers, NEW r \in Registry
    PROVE  Ancestors(p, r) = IF p[r] = None THEN {r} ELSE {r} \cup Ancestors(p, p[r])
<1>1. CASE p[r] = None
  <2>1. Ancestors(p, r) \subseteq {r}
    <3> DEFINE S == {r}
    <3>1. S \in SUBSET Registry /\ r \in S /\ \A x \in S : p[x] \in S \cup {None}
      BY <1>1
    <3> HIDE DEF S
    <3>2. Ancestors(p, r) \subseteq S
      BY <3>1, AncestorsLeast
    <3> QED  BY <3>2 DEF S
  <2> QED  BY <1>1, <2>1, AncestorsStart
<1>2. CASE p[r] # None
  <2> DEFINE S == {r} \cup Ancestors(p, p[r])
  <2>1. p[r] \in Registry /\ p[r] \in Ancestors(p, r)
    BY <1>2, AncestorsStart, AncestorsClosed DEF Pointers
  <2>2. Ancestors(p, p[r]) \subseteq Ancestors(p, r)
    BY <2>1, AncestorsTransitive
  <2>3. S \in SUBSET Registry /\ \A x \in S : p[x] \in S \cup {None}
    BY <2>1, AncestorsStart, AncestorsClosed
  <2>4. Ancestors(p, r) \subseteq S
    <3> HIDE DEF S
    <3>1. r \in S
      BY DEF S
    <3> QED  BY <2>3, <3>1, AncestorsLeast
  <2> QED  BY <1>2, <2>2, <2>4, AncestorsStart
<1> QED  BY <1>1, <1>2

\* Nobody is above itself.
Acyclic(p) == \A r \in Registry : p[r] # None => r \notin Ancestors(p, p[r])

\* Of two registries at most one is above the other, if nobody is above itself.
LEMMA AncestorsAntisymmetric ==
    ASSUME NEW p \in Pointers, Acyclic(p),
           NEW r \in Registry, NEW s \in Ancestors(p, r), r \in Ancestors(p, s)
    PROVE  r = s
<1> SUFFICES ASSUME r # s  PROVE FALSE
  OBVIOUS
<1>1. p[r] # None /\ s \in Ancestors(p, p[r])
  BY AncestorsUnfold
<1>2. p[r] \in Registry
  BY <1>1 DEF Pointers
<1>3. r \in Ancestors(p, p[r])
  BY <1>1, <1>2, AncestorsTransitive
<1> QED  BY <1>1, <1>3 DEF Acyclic

\* The registries below c, along parent pointers
Below(p, c) == {d \in Registry : c \in Ancestors(p, d)}

\* What is below c: c itself, and everybody whose parent is below c.
LEMMA BelowStart ==
    ASSUME NEW p \in Pointers, NEW c \in Registry
    PROVE  /\ c \in Below(p, c)
           /\ \A d \in Registry : p[d] # None => (p[d] \in Below(p, c) => d \in Below(p, c))
           /\ \A d \in Below(p, c) : d # c => p[d] \in Below(p, c)
<1>1. c \in Below(p, c)
  BY AncestorsStart DEF Below
<1>2. ASSUME NEW d \in Registry, p[d] # None, p[d] \in Below(p, c)
      PROVE  d \in Below(p, c)
  BY <1>2, AncestorsUnfold DEF Below
<1>3. ASSUME NEW d \in Below(p, c), d # c
      PROVE  p[d] \in Below(p, c)
  <2>1. d \in Registry /\ c \in Ancestors(p, d)
    BY DEF Below
  <2>2. p[d] # None /\ c \in Ancestors(p, p[d])
    BY <1>3, <2>1, AncestorsUnfold
  <2>3. p[d] \in Registry
    BY <2>1, <2>2 DEF Pointers
  <2> QED  BY <2>2, <2>3 DEF Below
<1> QED  BY <1>1, <1>2, <1>3
-----------------------------------------------------------------------------
(* One pointer moves *)

\* q is p, but for c, which moves to the top or to where it is not above.
Moved(p, q, c) ==
    /\ p \in Pointers /\ q \in Pointers /\ c \in Registry
    /\ \A x \in Registry : x # c => q[x] = p[x]
    /\ q[c] # None => q[c] \notin Below(p, c)

\* The paths that do not pass through c stay as they are.
LEMMA PathsElsewhereStay ==
    ASSUME NEW p, NEW q, NEW c, Moved(p, q, c), NEW x \in Registry, x \notin Below(p, c)
    PROVE  Ancestors(q, x) = Ancestors(p, x)
<1>1. p \in Pointers /\ q \in Pointers /\ c \notin Ancestors(p, x)
  BY DEF Moved, Below
<1>2. Ancestors(q, x) \subseteq Ancestors(p, x)
  <2>1. Ancestors(p, x) \in SUBSET Registry /\ x \in Ancestors(p, x)
    BY <1>1, AncestorsStart
  <2>2. \A y \in Ancestors(p, x) : q[y] \in Ancestors(p, x) \cup {None}
    BY <1>1, <2>1, AncestorsClosed DEF Moved
  <2> QED  BY <1>1, <2>1, <2>2, AncestorsLeast
<1>3. Ancestors(p, x) \subseteq Ancestors(q, x)
  <2>1. Ancestors(q, x) \in SUBSET Registry /\ x \in Ancestors(q, x)
    BY <1>1, AncestorsStart
  <2>2. \A y \in Ancestors(q, x) : p[y] \in Ancestors(q, x) \cup {None}
    <3> SUFFICES ASSUME NEW y \in Ancestors(q, x), p[y] # None
                 PROVE  p[y] \in Ancestors(q, x)
      OBVIOUS
    <3>1. y # c /\ y \in Registry
      BY <1>1, <1>2, <2>1
    <3>2. q[y] = p[y]
      BY <3>1 DEF Moved
    <3> QED  BY <1>1, <3>2, AncestorsClosed
  <2> QED  BY <1>1, <2>1, <2>2, AncestorsLeast
<1> QED  BY <1>2, <1>3

\* The others go to c and on from where it is now.
LEMMA PathsThroughMoved ==
    ASSUME NEW p, NEW q, NEW c, Moved(p, q, c), NEW x \in Below(p, c),
           NEW y \in Ancestors(q, x)
    PROVE  \/ y \in Ancestors(p, x) \cap Below(p, c)
           \/ q[c] # None /\ y \in Ancestors(p, q[c])
<1>1. p \in Pointers /\ q \in Pointers /\ c \in Registry /\ x \in Registry
  BY DEF Moved, Below
<1> DEFINE near == Ancestors(p, x) \cap Below(p, c)
           far == IF q[c] = None THEN {} ELSE Ancestors(p, q[c])
<1>2. q[c] # None => q[c] \in Registry /\ far = Ancestors(q, q[c])
  <2> SUFFICES ASSUME q[c] # None
               PROVE  q[c] \in Registry /\ far = Ancestors(q, q[c])
    OBVIOUS
  <2>1. q[c] \in Registry /\ q[c] \notin Below(p, c)
    BY <1>1 DEF Moved, Pointers
  <2> QED  BY <2>1, PathsElsewhereStay
<1>3. near \cup far \in SUBSET Registry
  BY <1>1, <1>2, AncestorsStart DEF Below
<1>4. x \in near
  BY <1>1, AncestorsStart
<1>5. ASSUME NEW z \in near \cup far
      PROVE  q[z] \in near \cup far \cup {None}
  <2>1. CASE z \in near /\ z # c
    <3>1. q[z] = p[z] /\ p[z] \in Below(p, c) /\ p[z] \in Registry
      BY <1>1, <1>3, <2>1, BelowStart DEF Moved, Below
    <3>2. p[z] # None
      BY <3>1, RegistryAssumption
    <3>3. p[z] \in Ancestors(p, x)
      BY <1>1, <2>1, <3>2, AncestorsClosed
    <3> QED  BY <3>1, <3>3
  <2>2. CASE z = c
    BY <1>1, <1>2, <2>2, AncestorsStart
  <2>3. CASE z \in far
    <3>1. q[c] # None /\ z \in Ancestors(q, q[c])
      BY <1>2, <2>3
    <3> QED  BY <1>1, <1>2, <3>1, AncestorsClosed
  <2> QED  BY <1>5, <2>1, <2>2, <2>3
<1> HIDE DEF near, far
<1>6. Ancestors(q, x) \subseteq near \cup far
  BY <1>1, <1>3, <1>4, <1>5, AncestorsLeast
<1> QED  BY <1>6 DEF near, far

\* No cycle arises.
LEMMA MovedAcyclic ==
    ASSUME NEW p, NEW q, NEW c, Moved(p, q, c), Acyclic(p)
    PROVE  Acyclic(q)
<1>1. p \in Pointers /\ q \in Pointers /\ c \in Registry
  BY DEF Moved
<1> SUFFICES ASSUME NEW x \in Registry, q[x] # None, x \in Ancestors(q, q[x])
             PROVE  FALSE
  BY DEF Acyclic
<1>2. q[x] \in Registry
  BY <1>1 DEF Pointers
<1>3. CASE x = c
  <2>1. q[c] \notin Below(p, c)
    BY <1>3 DEF Moved
  <2>2. c \in Ancestors(p, q[c])
    BY <1>2, <1>3, <2>1, PathsElsewhereStay
  <2> QED  BY <1>2, <1>3, <2>1, <2>2 DEF Below
<1>4. CASE x # c
  <2>1. q[x] = p[x]
    BY <1>4 DEF Moved
  <2>2. x \notin Ancestors(p, p[x])
    BY <2>1 DEF Acyclic
  <2>3. p[x] \in Below(p, c)
    BY <1>2, <2>1, <2>2, PathsElsewhereStay
  <2>4. q[c] # None /\ x \in Ancestors(p, q[c])
    BY <2>1, <2>2, <2>3, PathsThroughMoved
  <2>5. q[c] \in Registry /\ q[c] \notin Below(p, c)
    BY <1>1, <2>4 DEF Moved, Pointers
  <2>6. x \in Below(p, c)
    BY <1>1, <2>1, <2>3, BelowStart
  <2>7. c \in Ancestors(p, x)
    BY <2>6 DEF Below
  <2>8. c \in Ancestors(p, q[c])
    BY <1>1, <2>4, <2>5, <2>7, AncestorsTransitive
  <2> QED  BY <2>5, <2>8 DEF Below
<1> QED  BY <1>3, <1>4
-----------------------------------------------------------------------------
(* The tree of the registries *)

\* parent_ and children_ tell the same story.
ChildrenAgree ==
    /\ parent \in Pointers
    /\ \A r \in Registry : ToSet(children[r]) = {c \in Registry : parent[c] = r}

\* Down the lists of children is down the pointers to parents.
LEMMA SubtreeIsBelow ==
    ASSUME ChildrenAgree, NEW c \in Registry
    PROVE  Subtree(c) = Below(parent, c)
<1>1. parent \in Pointers
  BY DEF ChildrenAgree
<1>2. Subtree(c) \subseteq Below(parent, c)
  <2> DEFINE S == Below(parent, c)
  <2>1. S \in SUBSET Registry /\ c \in S
    BY <1>1, BelowStart DEF Below
  <2>2. ASSUME NEW x \in S
        PROVE  ToSet(children[x]) \subseteq S
    <3>1. x \in Registry /\ x # None
      BY <2>1, RegistryAssumption
    <3>2. ASSUME NEW d \in ToSet(children[x])
          PROVE  d \in S
      <4>1. d \in Registry /\ parent[d] = x
        BY <3>1, <3>2 DEF ChildrenAgree
      <4> QED  BY <1>1, <2>2, <3>1, <4>1, BelowStart
    <3> QED  BY <3>2
  <2> HIDE DEF S
  <2>3. Subtree(c) \subseteq S
    BY <2>1, <2>2 DEF Subtree
  <2> QED  BY <2>3 DEF S
<1>3. Below(parent, c) \subseteq Subtree(c)
  <2> SUFFICES ASSUME NEW d \in Below(parent, c), NEW S \in SUBSET Registry, c \in S,
                      \A x \in S : ToSet(children[x]) \subseteq S
               PROVE  d \in S
    BY DEF Subtree, Below
  <2> SUFFICES ASSUME d \notin S
               PROVE  FALSE
    OBVIOUS
  <2> DEFINE T == Registry \ S
  <2>1. d \in Registry /\ c \in Ancestors(parent, d)
    BY DEF Below
  <2>2. ASSUME NEW x \in T
        PROVE  parent[x] \in T \cup {None}
    <3>1. CASE parent[x] \in S
      <4>1. x \in ToSet(children[parent[x]])
        BY <3>1 DEF ChildrenAgree
      <4> QED  BY <3>1, <4>1
    <3>2. CASE parent[x] \notin S
      BY <1>1, <3>2 DEF Pointers
    <3> QED  BY <3>1, <3>2
  <2>3. T \in SUBSET Registry /\ d \in T /\ c \notin T
    BY <2>1
  <2> HIDE DEF T
  <2>4. Ancestors(parent, d) \subseteq T
    BY <1>1, <2>1, <2>2, <2>3, AncestorsLeast
  <2> QED  BY <2>1, <2>3, <2>4
<1> QED  BY <1>2, <1>3

\* What is in c, and in the children of whatever it is in below c, is in all of
\* the subtree.
LEMMA SubtreeInduction ==
    ASSUME ChildrenAgree, NEW c \in Registry, NEW T, c \in T,
           \A d \in Below(parent, c) : d # c /\ parent[d] \in T => d \in T
    PROVE  \A d \in Below(parent, c) : d \in T
<1> DEFINE S == Below(parent, c) \cap T
<1>1. parent \in Pointers /\ S \in SUBSET Registry /\ c \in S
  BY BelowStart DEF ChildrenAgree, Below
<1>2. ASSUME NEW x \in S
      PROVE  ToSet(children[x]) \subseteq S
  <2>1. x \in Registry /\ x # None /\ x \in T /\ x \in Below(parent, c)
    BY <1>1, RegistryAssumption
  <2>2. ASSUME NEW d \in ToSet(children[x])
        PROVE  d \in S
    <3>1. d \in Registry /\ parent[d] = x
      BY <2>1, <2>2 DEF ChildrenAgree
    <3>2. d \in Below(parent, c)
      BY <1>1, <2>1, <3>1, BelowStart
    <3>3. d \in T
      BY <2>1, <3>1, <3>2
    <3> QED  BY <3>2, <3>3
  <2> QED  BY <2>2
<1>3. Subtree(c) \subseteq S
  <2> HIDE DEF S
  <2> QED  BY <1>1, <1>2 DEF Subtree
<1> QED  BY <1>3, SubtreeIsBelow
-----------------------------------------------------------------------------
(* The names on a path *)

Name == {RegistryName[r] : r \in Registry}

\* What NamesBetween finds within n steps up from x.
NamesWithin(names, c) ==
    /\ names \in [0 .. Cardinality(Registry) -> [Registry -> Seq(Name)]]
    /\ \A n \in 0 .. Cardinality(Registry), x \in Registry :
          names[n][x] = IF n = 0 \/ x = c \/ parent[x] = None THEN <<RegistryName[x]>>
                        ELSE Append(names[n - 1][parent[x]], RegistryName[x])

\* There are finitely many registries, so that paths can be counted down.
LEMMA RegistryCounts == Cardinality(Registry) \in Nat
BY FS_CardinalityType, RegistryAssumption

\* The recursion of NamesBetween is well-founded.
LEMMA NamesUnfold ==
    ASSUME parent \in Pointers, NEW c \in Registry
    PROVE  \E names : /\ NamesWithin(names, c)
                      /\ \A d \in Registry : NamesBetween(c, d) = names[Cardinality(Registry)][d]
<1> DEFINE N == Cardinality(Registry)
           S == [Registry -> Seq(Name)]
           Line(t) == [x \in Registry |->
                          IF x = c \/ parent[x] = None THEN <<RegistryName[x]>>
                          ELSE Append(t[parent[x]], RegistryName[x])]
           base == [x \in Registry |-> <<RegistryName[x]>>]
           step == [n \in 1 .. N |-> [t \in S |-> Line(t)]]
           Body(f) == [n \in 0 .. N |-> [x \in Registry |->
                          IF n = 0 \/ x = c \/ parent[x] = None THEN <<RegistryName[x]>>
                          ELSE Append(f[n - 1][parent[x]], RegistryName[x])]]
           chosen == CHOOSE f : f = Body(f)
<1>1. N \in Nat
  BY RegistryCounts
<1>2. \A d \in Registry : NamesBetween(c, d) = chosen[N][d]
  BY DEF NamesBetween
<1>3. base \in S
  BY DEF Name
<1>4. ASSUME NEW t \in S
      PROVE  Line(t) \in S
  <2> SUFFICES ASSUME NEW x \in Registry
               PROVE  (IF x = c \/ parent[x] = None THEN <<RegistryName[x]>>
                       ELSE Append(t[parent[x]], RegistryName[x])) \in Seq(Name)
    OBVIOUS
  <2>1. RegistryName[x] \in Name
    BY DEF Name
  <2>2. CASE parent[x] # None
    <3>1. t[parent[x]] \in Seq(Name)
      BY <2>2 DEF Pointers
    <3> QED  BY <2>1, <3>1, AppendProperties
  <2>3. CASE parent[x] = None
    BY <2>1, <2>3
  <2> QED  BY <2>2, <2>3
<1>5. step \in [1 .. N -> [S -> S]]
  <2> HIDE DEF Line, S
  <2> QED  BY <1>4
<1>6. PICK f : Follows(f, N, S, base, step)
  <2> HIDE DEF N, S, base, step, chosen
  <2> QED  BY <1>1, <1>3, <1>5, RecursionUpTo
<1>7. f \in [0 .. N -> S] /\ f[0] = base /\ \A i \in 1 .. N : f[i] = Line(f[i - 1])
  <2>1. f \in [0 .. N -> S] /\ f[0] = base /\ \A i \in 1 .. N : f[i] = step[i][f[i - 1]]
    <3> HIDE DEF base, step, S, N
    <3> QED  BY <1>6 DEF Follows
  <2>2. ASSUME NEW i \in 1 .. N
        PROVE  f[i] = Line(f[i - 1])
    <3>1. f[i - 1] \in S
      <4> HIDE DEF S, base, step
      <4> QED  BY <1>1, <2>1
    <3>2. step[i][f[i - 1]] = Line(f[i - 1])
      <4> HIDE DEF S, Line
      <4> QED  BY <3>1
    <3> HIDE DEF Line, step, S, base
    <3> QED  BY <2>1, <3>2
  <2> HIDE DEF Line, step, S, base
  <2> QED  BY <2>1, <2>2
<1>8. f = Body(f)
  <2>1. ASSUME NEW n \in 0 .. N
        PROVE  f[n] = Body(f)[n]
    <3>1. CASE n = 0
      <4>1. Body(f)[0] = base
        BY <1>1
      <4> HIDE DEF Body, base, Line
      <4> QED  BY <1>7, <3>1, <4>1
    <3>2. CASE n # 0
      <4>1. Body(f)[n] = Line(f[n - 1])
        BY <3>2
      <4>2. n \in 1 .. N
        BY <1>1, <3>2
      <4> HIDE DEF Body, base, Line
      <4> QED  BY <1>7, <4>1, <4>2
    <3> QED  BY <3>1, <3>2
  <2>2. DOMAIN Body(f) = 0 .. N /\ Body(f) = [n \in 0 .. N |-> Body(f)[n]]
    OBVIOUS
  <2>3. f = [n \in 0 .. N |-> f[n]]
    BY <1>7
  <2> HIDE DEF Body
  <2> QED  BY <2>1, <2>2, <2>3
<1>9. chosen = Body(chosen)
  <2> HIDE DEF Body
  <2> QED  BY <1>8
<1>10. chosen[0] = base
  <2>1. Body(chosen)[0] = base
    BY <1>1
  <2> HIDE DEF Body, base
  <2> QED  BY <1>9, <2>1
<1>11. ASSUME NEW n \in 1 .. N
       PROVE  chosen[n] = Line(chosen[n - 1])
  <2> HIDE DEF chosen
  <2>0. n \in 0 .. N /\ n # 0
    BY <1>1
  <2>1. Body(chosen)[n] = Line(chosen[n - 1])
    BY <2>0
  <2> HIDE DEF Body, Line
  <2> QED  BY <1>9, <2>1
<1>12. \A n \in 0 .. N : chosen[n] \in S
  <2> DEFINE Typed == {n \in 0 .. N : chosen[n] \in S}
  <2> HIDE DEF N, S, Line, chosen, base
  <2>1. 0 \in Typed
    BY <1>1, <1>3, <1>10
  <2>2. ASSUME NEW n \in 0 .. N, n < N, n \in Typed
        PROVE  n + 1 \in Typed
    <3>1. n + 1 \in 1 .. N /\ (n + 1) - 1 = n /\ n + 1 \in 0 .. N
      BY <1>1, <2>2
    <3>2. chosen[n + 1] = Line(chosen[n])
      BY <1>11, <3>1
    <3> QED  BY <1>4, <2>2, <3>1, <3>2
  <2> HIDE DEF Typed
  <2>3. \A n \in 0 .. N : n \in Typed
    BY <1>1, <2>1, <2>2, InductionUpTo
  <2> QED  BY <2>3 DEF Typed
<1>13. chosen \in [0 .. N -> S]
  <2>1. chosen = [n \in 0 .. N |-> chosen[n]]
    <3> HIDE DEF chosen
    <3> QED  BY <1>9
  <2> HIDE DEF chosen, S
  <2> QED  BY <2>1, <1>12
<1> HIDE DEF chosen
<1>14. ASSUME NEW n \in 0 .. N, NEW x \in Registry
       PROVE  chosen[n][x] = IF n = 0 \/ x = c \/ parent[x] = None THEN <<RegistryName[x]>>
                             ELSE Append(chosen[n - 1][parent[x]], RegistryName[x])
  <2>1. Body(chosen)[n][x] = IF n = 0 \/ x = c \/ parent[x] = None THEN <<RegistryName[x]>>
                             ELSE Append(chosen[n - 1][parent[x]], RegistryName[x])
    OBVIOUS
  <2> HIDE DEF Body
  <2> QED  BY <1>9, <2>1
<1>15. NamesWithin(chosen, c)
  BY <1>13, <1>14 DEF NamesWithin
<1> QED  BY <1>2, <1>15

\* The registries on the way from c down to d
Path(c, d) == Ancestors(parent, d) \cap Below(parent, c)

\* It is shorter by one for the parent of d.
LEMMA PathShortens ==
    ASSUME parent \in Pointers, Acyclic(parent), NEW c \in Registry,
           NEW d \in Below(parent, c), d # c
    PROVE  /\ IsFiniteSet(Path(c, d)) /\ Cardinality(Path(c, d)) \in Nat
           /\ parent[d] \in Below(parent, c)
           /\ Cardinality(Path(c, parent[d])) = Cardinality(Path(c, d)) - 1
           /\ Cardinality(Path(c, d)) <= Cardinality(Registry)
<1>1. d \in Registry /\ parent[d] \in Below(parent, c) /\ parent[d] \in Registry
  BY BelowStart DEF Below
<1>2. parent[d] # None
  BY <1>1, RegistryAssumption
<1>3. Ancestors(parent, d) = {d} \cup Ancestors(parent, parent[d])
  BY <1>1, <1>2, AncestorsUnfold
<1>4. d \notin Ancestors(parent, parent[d])
  BY <1>1, <1>2 DEF Acyclic
<1>5. Path(c, parent[d]) = Path(c, d) \ {d} /\ d \in Path(c, d)
  BY <1>3, <1>4 DEF Path
<1>6. Path(c, d) \in SUBSET Registry
  BY DEF Path, Below
<1>7. IsFiniteSet(Path(c, d)) /\ Cardinality(Path(c, d)) <= Cardinality(Registry)
  BY <1>6, FS_Subset, RegistryAssumption
<1>8. Cardinality(Path(c, d)) \in Nat
  BY <1>7, FS_CardinalityType
<1>9. Cardinality(Path(c, parent[d])) = Cardinality(Path(c, d)) - 1
  BY <1>5, <1>7, FS_RemoveElement
<1> QED  BY <1>1, <1>7, <1>8, <1>9

\* The names on the way down to d are those down to its parent, and its own.
LEMMA NamesGoDown ==
    ASSUME parent \in Pointers, Acyclic(parent), NEW c \in Registry
    PROVE  /\ NamesBetween(c, c) = <<RegistryName[c]>>
           /\ \A d \in Registry : NamesBetween(c, d) \in Seq(Name)
           /\ \A d \in Below(parent, c) : d # c =>
                 NamesBetween(c, d) = Append(NamesBetween(c, parent[d]), RegistryName[d])
<1> DEFINE N == Cardinality(Registry)
<1>1. PICK names : /\ NamesWithin(names, c)
                   /\ \A d \in Registry : NamesBetween(c, d) = names[N][d]
  BY NamesUnfold
<1>2. N \in Nat /\ N # 0
  BY RegistryCounts, RegistryAssumption, FS_EmptySet
<1>3. NamesBetween(c, c) = <<RegistryName[c]>>
  <2>1. N \in 0 .. N
    BY <1>2
  <2>2. names[N][c] = <<RegistryName[c]>>
    BY <1>1, <2>1 DEF NamesWithin
  <2> QED  BY <1>1, <2>2
<1>4. \A d \in Registry : NamesBetween(c, d) \in Seq(Name)
  <2> HIDE DEF N
  <2>1. names \in [0 .. N -> [Registry -> Seq(Name)]]
    BY <1>1 DEF NamesWithin, N
  <2> QED  BY <1>1, <1>2, <2>1
<1>5. ASSUME NEW d \in Below(parent, c), d # c, NEW n \in 1 .. N
      PROVE  /\ names[n][d] = Append(names[n - 1][parent[d]], RegistryName[d])
             /\ d \in Registry /\ parent[d] \in Registry /\ parent[d] \in Below(parent, c)
  <2>1. parent[d] \in Below(parent, c) /\ d \in Registry /\ parent[d] \in Registry
    BY <1>5, BelowStart DEF Below
  <2>2. parent[d] # None
    BY <2>1, RegistryAssumption
  <2>3. n \in 0 .. N /\ n # 0
    BY <1>2
  <2>4. names[n][d] = IF n = 0 \/ d = c \/ parent[d] = None THEN <<RegistryName[d]>>
                      ELSE Append(names[n - 1][parent[d]], RegistryName[d])
    BY <1>1, <2>1, <2>3 DEF NamesWithin
  <2> QED  BY <1>5, <2>1, <2>2, <2>3, <2>4
<1>6. \A n \in 0 .. N : names[n][c] = <<RegistryName[c]>>
  BY <1>1 DEF NamesWithin
<1> HIDE DEF N
<1> DEFINE Settled == {n \in 0 .. (N - 1) :
                         \A d \in Below(parent, c) :
                            Cardinality(Path(c, d)) <= n + 1 => names[n + 1][d] = names[n][d]}
<1>7. ASSUME NEW n \in 0 .. (N - 1), n = 0 \/ n - 1 \in Settled
      PROVE  n \in Settled
  <2> SUFFICES ASSUME NEW d \in Below(parent, c), Cardinality(Path(c, d)) <= n + 1
               PROVE  names[n + 1][d] = names[n][d]
    OBVIOUS
  <2>1. n \in 0 .. N /\ n + 1 \in 1 .. N /\ n + 1 \in 0 .. N /\ (n + 1) - 1 = n
    BY <1>2
  <2>2. CASE d = c
    BY <1>6, <2>1, <2>2
  <2>3. CASE d # c
    <3>1. /\ parent[d] \in Below(parent, c) /\ Cardinality(Path(c, d)) \in Nat
          /\ Cardinality(Path(c, parent[d])) = Cardinality(Path(c, d)) - 1
      BY <2>3, PathShortens
    <3>2. names[n + 1][d] = Append(names[n][parent[d]], RegistryName[d])
      BY <1>5, <2>1, <2>3
    <3>3. CASE n = 0
      <4>1. Cardinality(Path(c, parent[d])) = 0
        <5>1. Cardinality(Path(c, parent[d])) \in Nat
          <6>1. Path(c, parent[d]) \in SUBSET Registry
            BY DEF Path, Below
          <6> QED  BY <6>1, FS_Subset, FS_CardinalityType, RegistryAssumption
        <5> QED  BY <3>1, <3>3, <5>1
      <4>2. IsFiniteSet(Path(c, parent[d]))
        <5>1. Path(c, parent[d]) \in SUBSET Registry
          BY DEF Path, Below
        <5> QED  BY <5>1, FS_Subset, RegistryAssumption
      <4>3. Path(c, parent[d]) = {}
        BY <4>1, <4>2, FS_EmptySet
      <4>4. parent[d] \in Path(c, parent[d])
        <5>1. parent[d] \in Registry
          BY <3>1 DEF Below
        <5> QED  BY <3>1, <5>1, AncestorsStart DEF Path
      <4> QED  BY <4>3, <4>4
    <3>4. CASE n # 0
      <4>1. n \in 1 .. N /\ (n - 1) + 1 = n
        BY <2>1, <3>4
      <4>2. names[n][d] = Append(names[n - 1][parent[d]], RegistryName[d])
        BY <1>5, <2>3, <4>1
      <4>3. Cardinality(Path(c, parent[d])) <= (n - 1) + 1
        BY <3>1, <4>1
      <4>4. names[(n - 1) + 1][parent[d]] = names[n - 1][parent[d]]
        BY <1>7, <3>1, <3>4, <4>3
      <4> QED  BY <3>2, <4>1, <4>2, <4>4
    <3> QED  BY <3>3, <3>4
  <2> QED  BY <2>2, <2>3
<1>8. N - 1 \in Settled
  <2>1. N - 1 \in Nat /\ 0 \in 0 .. (N - 1)
    BY <1>2
  <2>2. 0 \in Settled
    BY <1>7, <2>1
  <2>3. ASSUME NEW n \in 0 .. (N - 1), n < N - 1, n \in Settled
        PROVE  n + 1 \in Settled
    <3>1. n + 1 \in 0 .. (N - 1) /\ (n + 1) - 1 = n
      BY <1>2, <2>3
    <3> HIDE DEF Settled
    <3> QED  BY <1>7, <2>3, <3>1
  <2> HIDE DEF Settled
  <2>4. \A n \in 0 .. (N - 1) : n \in Settled
    BY <2>1, <2>2, <2>3, InductionUpTo
  <2> QED  BY <2>1, <2>4
<1>9. ASSUME NEW d \in Below(parent, c), d # c
      PROVE  NamesBetween(c, d) = Append(NamesBetween(c, parent[d]), RegistryName[d])
  <2>1. N \in 1 .. N /\ (N - 1) + 1 = N /\ N - 1 \in 0 .. (N - 1)
    BY <1>2
  <2>2. /\ names[N][d] = Append(names[N - 1][parent[d]], RegistryName[d])
        /\ d \in Registry /\ parent[d] \in Registry /\ parent[d] \in Below(parent, c)
    BY <1>5, <1>9, <2>1
  <2>3. Cardinality(Path(c, parent[d])) <= N
    <3>1. /\ Cardinality(Path(c, d)) \in Nat /\ Cardinality(Path(c, d)) <= N
          /\ Cardinality(Path(c, parent[d])) = Cardinality(Path(c, d)) - 1
      BY <1>9, PathShortens DEF N
    <3> QED  BY <1>2, <3>1
  <2>4. names[N][parent[d]] = names[N - 1][parent[d]]
    BY <1>8, <2>1, <2>2, <2>3
  <2> QED  BY <1>1, <2>2, <2>4
<1> QED  BY <1>3, <1>4, <1>9
-----------------------------------------------------------------------------
(* Lists: what erasing, appending and walking leave *)

\* A name appended to the end of a namespace is appended to all of it.
LEMMA ConcatAppend ==
    ASSUME NEW S, NEW s \in Seq(S), NEW t \in Seq(S), NEW x \in S
    PROVE  s \o Append(t, x) = Append(s \o t, x)
<1>1. <<x>> \in Seq(S) /\ s \o t \in Seq(S)
  OBVIOUS
<1>2. Append(t, x) = t \o <<x>>
  OBVIOUS
<1> DEFINE front == s \o t
           last == <<x>>
<1>3. front \o last = s \o (t \o last)
  <2> HIDE DEF last
  <2> QED  BY <1>1, ConcatAssociative DEF last
<1>4. Append(front, x) = front \o last
  <2> HIDE DEF front
  <2> QED  BY <1>1 DEF front
<1> QED  BY <1>2, <1>3, <1>4

\* Each namespace begins with itself.
LEMMA PrefixOfItself ==
    ASSUME NEW S, NEW seq \in Seq(S)
    PROVE  IsPrefix(seq, seq)
BY DEF IsPrefix

\* The namespace of a child begins with that of its parent.
LEMMA PrefixOfLonger ==
    ASSUME NEW S, NEW seq \in Seq(S), NEW x \in S
    PROVE  IsPrefix(seq, Append(seq, x))
<1>1. /\ Len(seq) \in Nat /\ Len(Append(seq, x)) = Len(seq) + 1
      /\ Append(seq, x) \in Seq(S)
      /\ \A i \in 1 .. Len(seq) : Append(seq, x)[i] = seq[i] /\ seq[i] \in S
  BY AppendProperties
<1> DEFINE new == Append(seq, x)
           N == Len(seq)
<1> HIDE DEF new
<1>2. /\ SubSeq(seq, 1, N) \in Seq(S) /\ Len(SubSeq(seq, 1, N)) = N
      /\ \A i \in 1 .. N : SubSeq(seq, 1, N)[i] = seq[i]
  BY <1>1
<1>3. /\ SubSeq(new, 1, N) \in Seq(S) /\ Len(SubSeq(new, 1, N)) = N
      /\ \A i \in 1 .. N : SubSeq(new, 1, N)[i] = new[i]
  BY <1>1 DEF new
<1>4. SubSeq(seq, 1, N) = SubSeq(new, 1, N)
  <2> DEFINE s == SubSeq(seq, 1, N)
             t == SubSeq(new, 1, N)
  <2>1. s \in Seq(S) /\ t \in Seq(S) /\ Len(s) = Len(t) /\ \A i \in 1 .. Len(s) : s[i] = t[i]
    BY <1>1, <1>2, <1>3 DEF new
  <2> HIDE DEF s, t
  <2>2. s = t
    BY <2>1, SeqEqual
  <2> QED  BY <2>2 DEF s, t
<1> QED  BY <1>1, <1>4 DEF IsPrefix, new
-----------------------------------------------------------------------------
(* nameToChildMap_ *)

\* The map of a registry with the children C
Mapping(C) == [n \in {KeyOf(c) : c \in C} |-> CHOOSE c \in C : KeyOf(c) = n]

Distinct(C) == \A c, d \in C : KeyOf(c) = KeyOf(d) => c = d

\* It finds a child by its name.
LEMMA MappingFinds ==
    ASSUME NEW C, Distinct(C)
    PROVE  /\ DOMAIN Mapping(C) = {KeyOf(c) : c \in C}
           /\ \A c \in C : Mapping(C)[KeyOf(c)] = c
<1>1. ASSUME NEW c \in C
      PROVE  (CHOOSE d \in C : KeyOf(d) = KeyOf(c)) = c
  BY DEF Distinct
<1>2. ASSUME NEW c \in C
      PROVE  Mapping(C)[KeyOf(c)] = CHOOSE d \in C : KeyOf(d) = KeyOf(c)
  BY DEF Mapping
<1>3. DOMAIN Mapping(C) = {KeyOf(c) : c \in C}
  BY DEF Mapping
<1> QED  BY <1>1, <1>2, <1>3

\* Whatever does so is the map.
LEMMA MappingUnique ==
    ASSUME NEW C, Distinct(C), NEW map, map = [n \in {KeyOf(c) : c \in C} |-> map[n]],
           \A c \in C : map[KeyOf(c)] = c
    PROVE  map = Mapping(C)
<1> DEFINE D == {KeyOf(c) : c \in C}
           other == Mapping(C)
<1>1. other = [n \in D |-> other[n]]
  BY DEF Mapping
<1>2. \A c \in C : other[KeyOf(c)] = c
  BY MappingFinds
<1>3. map = [n \in D |-> map[n]]
  OBVIOUS
<1> HIDE DEF other
<1>4. \A n \in D : map[n] = other[n]
  BY <1>2
<1> HIDE DEF D
<1>5. map = other
  BY <1>1, <1>3, <1>4
<1> QED  BY <1>5 DEF other

\* Erasing the name of a child leaves the map of the other children.
LEMMA ForgottenChild ==
    ASSUME NEW C, Distinct(C), NEW c \in C
    PROVE  Forget(Mapping(C), KeyOf(c)) = Mapping(C \ {c})
<1> DEFINE D == C \ {c}
           map == Forget(Mapping(C), KeyOf(c))
<1>1. Distinct(D)
  BY DEF Distinct
<1>2. {KeyOf(d) : d \in C} \ {KeyOf(c)} = {KeyOf(d) : d \in D}
  BY DEF Distinct
<1>3. map = [n \in {KeyOf(d) : d \in D} |-> Mapping(C)[n]]
  <2>1. DOMAIN Mapping(C) = {KeyOf(d) : d \in C}
    BY MappingFinds
  <2>2. map = [n \in (DOMAIN Mapping(C)) \ {KeyOf(c)} |-> Mapping(C)[n]]
    BY DEF Forget
  <2> HIDE DEF map, D
  <2> QED  BY <1>2, <2>1, <2>2
<1>4. \A d \in D : map[KeyOf(d)] = d
  <2>1. \A d \in D : KeyOf(d) \in {KeyOf(e) : e \in D}
    OBVIOUS
  <2>2. \A d \in D : Mapping(C)[KeyOf(d)] = d
    BY MappingFinds
  <2> HIDE DEF map, D
  <2> QED  BY <1>3, <2>1, <2>2
<1>5. map = [n \in {KeyOf(d) : d \in D} |-> map[n]]
  <2> HIDE DEF map
  <2> QED  BY <1>3
<1> HIDE DEF map, D
<1>6. map = Mapping(D)
  BY <1>1, <1>4, <1>5, MappingUnique
<1> QED  BY <1>6 DEF map, D

\* Entering a child whose name nobody has leaves the map of all of them, and no name twice.
LEMMA RememberedChild ==
    ASSUME NEW C, Distinct(C), NEW c, KeyOf(c) \notin {KeyOf(d) : d \in C}
    PROVE  /\ Distinct(C \cup {c})
           /\ Remember(Mapping(C), KeyOf(c), c) = Mapping(C \cup {c})
<1> DEFINE D == C \cup {c}
           map == Remember(Mapping(C), KeyOf(c), c)
<1>1. Distinct(D)
  BY DEF Distinct
<1>2. {KeyOf(d) : d \in C} \cup {KeyOf(c)} = {KeyOf(d) : d \in D}
  OBVIOUS
<1>3. map = [n \in {KeyOf(d) : d \in D} |-> IF n = KeyOf(c) THEN c ELSE Mapping(C)[n]]
  <2>1. DOMAIN Mapping(C) = {KeyOf(d) : d \in C}
    BY MappingFinds
  <2>2. map = [n \in (DOMAIN Mapping(C)) \cup {KeyOf(c)} |->
                  IF n = KeyOf(c) THEN c ELSE Mapping(C)[n]]
    BY DEF Remember
  <2> HIDE DEF map, D
  <2> QED  BY <1>2, <2>1, <2>2
<1>4. ASSUME NEW d \in D
      PROVE  map[KeyOf(d)] = d
  <2>1. map[KeyOf(d)] = IF KeyOf(d) = KeyOf(c) THEN c ELSE Mapping(C)[KeyOf(d)]
    <3>1. KeyOf(d) \in {KeyOf(e) : e \in D}
      OBVIOUS
    <3> HIDE DEF map, D
    <3> QED  BY <1>3, <3>1
  <2>2. CASE d = c
    BY <2>1, <2>2
  <2>3. CASE d \in C
    BY <2>1, <2>3, MappingFinds
  <2> QED  BY <2>2, <2>3
<1>5. map = [n \in {KeyOf(d) : d \in D} |-> map[n]]
  <2> HIDE DEF map
  <2> QED  BY <1>3
<1> HIDE DEF map, D
<1>6. map = Mapping(D)
  BY <1>1, <1>4, <1>5, MappingUnique
<1> QED  BY <1>1, <1>6 DEF map, D
-----------------------------------------------------------------------------
(* The inductive invariant, in the parts the operations disturb *)

ChildrenOf(p, r) == {c \in Registry : p[c] = r}

\* parent_, children_ and nameToChildMap_.  Siblings have different names: the
\* map would lose one of them otherwise, which no formula about the map alone says.
TreeInv ==
    /\ parent \in Pointers /\ Acyclic(parent)
    /\ children \in [Registry -> Seq(Registry)]
    /\ \A r \in Registry :
          IsInjective(children[r]) /\ ToSet(children[r]) = ChildrenOf(parent, r)
    /\ \A r \in Registry : Distinct(ChildrenOf(parent, r))
    /\ childMap = [r \in Registry |-> Mapping(ChildrenOf(parent, r))]

LevelInv == level \in [Registry -> Level] /\ LevelsDescend

NamesInv == namespace \in [Registry -> Seq(Name)] /\ NamespaceIsPath

\* variables_ and registry_
ListsInv ==
    /\ variables \in [Registry -> Seq(Variable)] /\ registry \in [Variable -> Registry \cup {None}]
    /\ \A r \in Registry : IsInjective(variables[r])
    /\ RegistriesAgree

CacheInv == fullName = [v \in Variable |-> fullName[v]] /\ CachedNameValid

Inv == TreeInv /\ LevelInv /\ NamesInv /\ ListsInv /\ CacheInv /\ listening \subseteq Registry

\* It holds what the runs check.
LEMMA InvIsEnough ==
    Inv => TreeWellFormed /\ NamespaceIsPath /\ CachedNameValid /\ RegistriesAgree
<1> SUFFICES ASSUME Inv
             PROVE  TreeWellFormed
  BY DEF Inv, NamesInv, CacheInv, ListsInv
<1>1. TypeOK
  BY DEF Inv, TreeInv, LevelInv, ListsInv, TypeOK, Pointers
<1>2. ASSUME NEW r \in Registry
      PROVE  /\ ToSet(children[r]) = {c \in Registry : parent[c] = r}
             /\ childMap[r] = [n \in {KeyOf(c) : c \in ToSet(children[r])} |->
                                CHOOSE c \in ToSet(children[r]) : KeyOf(c) = n]
             /\ parent[r] # None => r \notin Ancestors(parent, parent[r])
  <2>1. ToSet(children[r]) = {c \in Registry : parent[c] = r}
    BY DEF Inv, TreeInv, ChildrenOf
  <2>2. childMap[r] = Mapping(ToSet(children[r]))
    BY DEF Inv, TreeInv
  <2>3. parent[r] # None => r \notin Ancestors(parent, parent[r])
    BY DEF Inv, TreeInv, Acyclic
  <2> QED  BY <2>1, <2>2, <2>3 DEF Mapping
<1>3. TreeConsistent
  BY <1>2 DEF TreeConsistent
<1> QED  BY <1>1, <1>3 DEF TreeWellFormed, Inv, LevelInv

\* A subtree goes down the pointers.
LEMMA SubtreeInTree ==
    ASSUME TreeInv, NEW c \in Registry
    PROVE  Subtree(c) = Below(parent, c)
<1>1. ChildrenAgree
  BY DEF TreeInv, ChildrenAgree, ChildrenOf
<1> QED  BY <1>1, SubtreeIsBelow
-----------------------------------------------------------------------------
(* A registry changes its parent *)

\* What detachFromParent leaves of the lists
LEMMA ChildrenLeft ==
    ASSUME TreeInv, NEW c \in Registry, NEW x \in Registry
    PROVE  /\ ChildrenWithout(c)[x] \in Seq(Registry) /\ IsInjective(ChildrenWithout(c)[x])
           /\ ToSet(ChildrenWithout(c)[x]) = ChildrenOf(parent, x) \ {c}
<1>1. /\ children[x] \in Seq(Registry) /\ IsInjective(children[x])
      /\ ToSet(children[x]) = ChildrenOf(parent, x)
  BY DEF TreeInv
<1>2. CASE x = parent[c]
  <2>1. ChildrenWithout(c)[x] = Without(children[x], c)
    BY <1>2 DEF ChildrenWithout
  <2> QED  BY <1>1, <2>1, WithoutProperties
<1>3. CASE x # parent[c]
  <2>1. ChildrenWithout(c)[x] = children[x] /\ c \notin ChildrenOf(parent, x)
    BY <1>3 DEF ChildrenWithout, ChildrenOf
  <2> QED  BY <1>1, <2>1
<1> QED  BY <1>2, <1>3

\* What removeChild leaves of each map is the map of the children that remain.
LEMMA MapLeft ==
    ASSUME TreeInv, NEW c \in Registry, NEW x \in Registry
    PROVE  MapWithout(c)[x] = Mapping(ChildrenOf(parent, x) \ {c})
<1>1. childMap[x] = Mapping(ChildrenOf(parent, x)) /\ Distinct(ChildrenOf(parent, x))
  BY DEF TreeInv
<1>2. CASE x = parent[c]
  <2>1. MapWithout(c)[x] = Forget(childMap[x], KeyOf(c)) /\ c \in ChildrenOf(parent, x)
    BY <1>2 DEF MapWithout, ChildrenOf
  <2> QED  BY <1>1, <2>1, ForgottenChild
<1>3. CASE x # parent[c]
  <2>1. MapWithout(c)[x] = childMap[x] /\ c \notin ChildrenOf(parent, x)
    BY <1>3 DEF MapWithout, ChildrenOf
  <2>2. ChildrenOf(parent, x) \ {c} = ChildrenOf(parent, x)
    BY <2>1
  <2> QED  BY <1>1, <2>1, <2>2
<1> QED  BY <1>2, <1>3

\* c goes to r, None for the top, where it is not above and no child has its name.
Goes(c, r) ==
    /\ r # None => /\ r \notin Below(parent, c)
                   /\ KeyOf(c) \notin {KeyOf(d) : d \in ChildrenOf(parent, r)}
    /\ parent' = [parent EXCEPT ![c] = r]
    /\ children' = [x \in Registry |-> IF x = r THEN Append(ChildrenWithout(c)[x], c)
                                       ELSE ChildrenWithout(c)[x]]
    /\ childMap' = [x \in Registry |-> IF x = r THEN Remember(MapWithout(c)[x], KeyOf(c), c)
                                       ELSE MapWithout(c)[x]]

\* attachChild and removeChild change the parent of one registry.
LEMMA GoesIsMoved ==
    ASSUME parent \in Pointers, NEW c \in Registry, NEW r \in Registry \cup {None}, Goes(c, r)
    PROVE  Moved(parent, parent', c)
BY DEF Goes, Moved, Pointers

\* A registry that goes below one that is not below it, where its name is not taken, or to nobody:
\* pointers, vectors and maps agree again, and nobody is above itself.
LEMMA TreeFollows ==
    ASSUME TreeInv, NEW c \in Registry, NEW r \in Registry \cup {None}, Goes(c, r)
    PROVE  TreeInv'
<1>1. parent \in Pointers /\ Acyclic(parent) /\ parent' = [parent EXCEPT ![c] = r]
  BY DEF TreeInv, Goes
<1>2. parent' \in Pointers
  BY <1>1 DEF Pointers
<1>3. Acyclic(parent')
  BY <1>1, GoesIsMoved, MovedAcyclic
<1>4. ASSUME NEW x \in Registry
      PROVE  ChildrenOf(parent', x) = IF x = r THEN (ChildrenOf(parent, x) \ {c}) \cup {c}
                                      ELSE ChildrenOf(parent, x) \ {c}
  BY <1>1 DEF ChildrenOf, Pointers
<1>5. ASSUME NEW x \in Registry
      PROVE  /\ Distinct(ChildrenOf(parent', x))
             /\ children'[x] \in Seq(Registry) /\ IsInjective(children'[x])
             /\ ToSet(children'[x]) = ChildrenOf(parent', x)
             /\ childMap'[x] = Mapping(ChildrenOf(parent', x))
  <2> DEFINE C == ChildrenOf(parent, x) \ {c}
             seq == ChildrenWithout(c)[x]
  <2>1. seq \in Seq(Registry) /\ IsInjective(seq) /\ ToSet(seq) = C
    BY ChildrenLeft
  <2>2. MapWithout(c)[x] = Mapping(C)
    BY MapLeft
  <2>3. Distinct(C)
    BY DEF TreeInv, Distinct
  <2>4. CASE x = r
    <3>1. ChildrenOf(parent', x) = C \cup {c} /\ children'[x] = Append(seq, c)
      BY <1>4, <2>4 DEF Goes
    <3>2. childMap'[x] = Remember(Mapping(C), KeyOf(c), c)
      BY <2>2, <2>4 DEF Goes
    <3>3. c \notin C /\ KeyOf(c) \notin {KeyOf(d) : d \in C}
      <4>1. r # None
        BY <2>4, RegistryAssumption
      <4>2. KeyOf(c) \notin {KeyOf(d) : d \in ChildrenOf(parent, r)}
        BY <4>1 DEF Goes
      <4> QED  BY <2>4, <4>2
    <3> HIDE DEF C, seq
    <3>4. Distinct(C \cup {c}) /\ childMap'[x] = Mapping(C \cup {c})
      BY <2>3, <3>2, <3>3, RememberedChild
    <3>5. /\ Append(seq, c) \in Seq(Registry) /\ IsInjective(Append(seq, c))
          /\ ToSet(Append(seq, c)) = C \cup {c}
      BY <2>1, <3>3, AppendProper
    <3> QED  BY <3>1, <3>4, <3>5
  <2>5. CASE x # r
    <3>1. ChildrenOf(parent', x) = C /\ children'[x] = seq
      BY <1>4, <2>5 DEF Goes
    <3>2. childMap'[x] = Mapping(C)
      BY <2>2, <2>5 DEF Goes
    <3> HIDE DEF C, seq
    <3> QED  BY <2>1, <2>3, <3>1, <3>2
  <2> QED  BY <2>4, <2>5
<1>6. children' = [x \in Registry |-> children'[x]]
  BY DEF Goes
<1>7. children' \in [Registry -> Seq(Registry)]
  BY <1>5, <1>6
<1>8. childMap' = [x \in Registry |-> childMap'[x]]
  BY DEF Goes
<1>9. childMap' = [x \in Registry |-> Mapping(ChildrenOf(parent', x))]
  BY <1>5, <1>8
<1> QED  BY <1>2, <1>3, <1>5, <1>7, <1>9 DEF TreeInv

\* The names tell when c would come below itself: its own name is on the way.
LEMMA NameOnTheWay ==
    ASSUME TreeInv, NamesInv, NEW c \in Registry, NEW r \in Below(parent, c)
    PROVE  PrefixFor(r, c) \in Seq(Name) /\ RegistryName[c] \in ToSet(PrefixFor(r, c))
<1>1. ChildrenAgree /\ parent \in Pointers /\ Acyclic(parent) /\ r \in Registry
  BY DEF TreeInv, ChildrenAgree, ChildrenOf, Below
<1>2. r \in Subtree(c)
  BY SubtreeInTree
<1>3. ASSUME NEW names \in Seq(Name), NEW d \in Registry
      PROVE  ToSet(Append(names, RegistryName[d])) = ToSet(names) \cup {RegistryName[d]}
  BY AppendToSet DEF Name
<1>4. ToSet(<<RegistryName[c]>>) = {RegistryName[c]}
  <2>1. ToSet(Append(<<>>, RegistryName[c])) = ToSet(<<>>) \cup {RegistryName[c]}
    BY <1>3, EmptySeq
  <2>2. Append(<<>>, RegistryName[c]) = <<RegistryName[c]>>
    OBVIOUS
  <2> QED  BY <2>1, <2>2, EmptyToSet
<1>5. CASE parent[c] # None
  <2> DEFINE T == {d \in Registry : RegistryName[c] \in ToSet(NamesBetween(c, d))}
  <2>1. c \in T
    BY <1>1, <1>4, NamesGoDown
  <2>2. ASSUME NEW d \in Below(parent, c), d # c, parent[d] \in T
        PROVE  d \in T
    <3>1. /\ NamesBetween(c, d) = Append(NamesBetween(c, parent[d]), RegistryName[d])
          /\ NamesBetween(c, parent[d]) \in Seq(Name) /\ d \in Registry
      BY <1>1, <2>2, NamesGoDown DEF Below
    <3>2. RegistryName[c] \in ToSet(NamesBetween(c, parent[d]))
      BY <2>2
    <3> QED  BY <1>3, <3>1, <3>2
  <2> HIDE DEF T
  <2>3. r \in T
    BY <1>1, <2>1, <2>2, SubtreeInduction
  <2>4. PrefixFor(r, c) = NamesBetween(c, r)
    BY <1>2, <1>5 DEF PrefixFor
  <2> QED  BY <1>1, <2>3, <2>4, NamesGoDown DEF T
<1>6. CASE parent[c] = None
  <2> DEFINE T == {d \in Registry : RegistryName[c] \in ToSet(namespace[d])}
  <2>1. c \in T
    BY <1>4, <1>6 DEF NamesInv, NamespaceIsPath
  <2>2. ASSUME NEW d \in Below(parent, c), d # c, parent[d] \in T
        PROVE  d \in T
    <3>1. d \in Registry /\ parent[d] # None /\ parent[d] \in Registry
      BY <2>2, RegistryAssumption DEF Below
    <3>2. namespace[d] = Append(namespace[parent[d]], RegistryName[d])
      BY <3>1 DEF NamesInv, NamespaceIsPath
    <3>3. namespace[parent[d]] \in Seq(Name) /\ RegistryName[c] \in ToSet(namespace[parent[d]])
      BY <2>2, <3>1 DEF NamesInv
    <3> QED  BY <1>3, <3>1, <3>2, <3>3
  <2> HIDE DEF T
  <2>3. r \in T
    BY <1>1, <2>1, <2>2, SubtreeInduction
  <2>4. PrefixFor(r, c) = namespace[r]
    BY <1>6 DEF PrefixFor
  <2> QED  BY <1>1, <2>3, <2>4 DEF T, NamesInv
<1> QED  BY <1>5, <1>6

\* So the check of the names is a check for cycles.
LEMMA SaneIsNotBelow ==
    ASSUME TreeInv, NamesInv, NEW r \in Registry, NEW c \in Registry, SaneBelow(r, c)
    PROVE  r \notin Below(parent, c)
<1> SUFFICES ASSUME r \in Below(parent, c)
             PROVE  FALSE
  OBVIOUS
<1> DEFINE prefix == PrefixFor(r, c)
           names == prefix \o <<RegistryName[c]>>
<1>1. prefix \in Seq(Name) /\ RegistryName[c] \in ToSet(prefix)
  BY NameOnTheWay
<1>2. parent \in Pointers /\ Acyclic(parent)
  BY DEF TreeInv
<1>3. c \in Subtree(c)
  BY <1>2, SubtreeInTree, BelowStart
<1>4. IsInjective(names)
  BY <1>2, <1>3, NamesGoDown DEF SaneBelow, Sane
<1> HIDE DEF prefix
<1>5. RegistryName[c] \in Name
  BY DEF Name
<1>6. PICK i \in 1 .. Len(prefix) : prefix[i] = RegistryName[c]
  BY <1>1 DEF ToSet
<1>7. /\ Len(prefix) \in Nat /\ DOMAIN names = 1 .. (Len(prefix) + 1)
      /\ names[i] = prefix[i] /\ names[Len(prefix) + 1] = RegistryName[c]
  BY <1>1, <1>5
<1> HIDE DEF names
<1>8. i = Len(prefix) + 1
  <2>1. i \in DOMAIN names /\ Len(prefix) + 1 \in DOMAIN names
    BY <1>7
  <2> QED  BY <1>4, <1>6, <1>7, <2>1 DEF IsInjective
<1> QED  BY <1>7, <1>8

\* The subtree of c takes the path of where c goes.
LEMMA NamesFollow ==
    ASSUME TreeInv, NamesInv, NEW c \in Registry, NEW r \in Registry \cup {None}, Goes(c, r),
           NEW prefix, prefix = IF r = None THEN <<>> ELSE namespace[r],
           namespace' = [x \in Registry |->
                           IF x \in Subtree(c) THEN prefix \o NamesBetween(c, x) ELSE namespace[x]]
    PROVE  NamesInv'
<1>1. parent \in Pointers /\ Acyclic(parent) /\ parent' = [parent EXCEPT ![c] = r]
  BY DEF TreeInv, Goes
<1>2. Subtree(c) = Below(parent, c)
  BY SubtreeInTree
<1>3. prefix \in Seq(Name) /\ namespace \in [Registry -> Seq(Name)]
  BY DEF NamesInv
<1>4. /\ NamesBetween(c, c) = <<RegistryName[c]>>
      /\ \A d \in Registry : NamesBetween(c, d) \in Seq(Name)
      /\ \A d \in Below(parent, c) : d # c =>
            NamesBetween(c, d) = Append(NamesBetween(c, parent[d]), RegistryName[d])
  BY <1>1, NamesGoDown
<1>5. ASSUME NEW x \in Registry
      PROVE  namespace'[x] = IF x \in Below(parent, c) THEN prefix \o NamesBetween(c, x) ELSE namespace[x]
  BY <1>2
<1>6. namespace' \in [Registry -> Seq(Name)]
  <2>1. \A x \in Registry : prefix \o NamesBetween(c, x) \in Seq(Name)
    BY <1>3, <1>4
  <2> QED  BY <1>3, <2>1
<1>7. ASSUME NEW x \in Registry
      PROVE  namespace'[x] = IF parent'[x] = None THEN <<RegistryName[x]>>
                             ELSE Append(namespace'[parent'[x]], RegistryName[x])
  <2>0. RegistryName[x] \in Name
    BY DEF Name
  <2>1. CASE x = c
    <3>1. x \in Below(parent, c) /\ parent'[x] = r
      BY <1>1, <2>1, BelowStart DEF Pointers
    <3>2. namespace'[x] = prefix \o <<RegistryName[x]>>
      BY <1>4, <1>5, <2>1, <3>1
    <3>3. namespace'[x] = Append(prefix, RegistryName[x])
      BY <1>3, <2>0, <3>2
    <3>4. CASE r = None
      BY <3>1, <3>3, <3>4
    <3>5. CASE r # None
      <4>1. r \in Registry /\ r \notin Below(parent, c)
        BY <3>5 DEF Goes
      <4>2. namespace'[r] = prefix
        BY <1>5, <3>5, <4>1
      <4> QED  BY <3>1, <3>3, <3>5, <4>2
    <3> QED  BY <3>4, <3>5
  <2>2. CASE x # c /\ x \in Below(parent, c)
    <3>1. /\ parent'[x] = parent[x] /\ parent[x] \in Below(parent, c)
          /\ parent[x] \in Registry /\ parent[x] # None
      BY <1>1, <2>2, BelowStart, RegistryAssumption DEF Pointers, Below
    <3>2. /\ namespace'[x] = prefix \o Append(NamesBetween(c, parent[x]), RegistryName[x])
          /\ namespace'[parent[x]] = prefix \o NamesBetween(c, parent[x])
      BY <1>4, <1>5, <2>2, <3>1
    <3> DEFINE upper == NamesBetween(c, parent[x])
               own == RegistryName[x]
    <3>3. prefix \in Seq(Name) /\ upper \in Seq(Name) /\ own \in Name
      BY <1>3, <1>4, <2>0, <3>1
    <3> HIDE DEF upper, own
    <3>4. prefix \o Append(upper, own) = Append(prefix \o upper, own)
      <4>1. \A s, t \in Seq(Name), e \in Name : s \o Append(t, e) = Append(s \o t, e)
        BY ConcatAppend
      <4> QED  BY <3>3, <4>1
    <3> QED  BY <3>1, <3>2, <3>4 DEF upper, own
  <2>3. CASE x \notin Below(parent, c)
    <3>1. x # c
      BY <1>1, <2>3, BelowStart
    <3>2. parent'[x] = parent[x] /\ namespace'[x] = namespace[x]
      BY <1>1, <1>5, <2>3, <3>1 DEF Pointers
    <3>3. CASE parent[x] = None
      BY <3>2, <3>3 DEF NamesInv, NamespaceIsPath
    <3>4. CASE parent[x] # None
      <4>1. parent[x] \in Registry /\ parent[x] \notin Below(parent, c)
        BY <1>1, <2>3, <3>4, BelowStart DEF Pointers
      <4>2. namespace'[parent[x]] = namespace[parent[x]]
        BY <1>5, <4>1
      <4> QED  BY <3>2, <3>4, <4>2 DEF NamesInv, NamespaceIsPath
    <3> QED  BY <3>3, <3>4
  <2> QED  BY <2>1, <2>2, <2>3
<1> QED  BY <1>6, <1>7 DEF NamesInv, NamespaceIsPath

\* The variables below c forget their names, and no other name changes.
LEMMA CacheFollows ==
    ASSUME TreeInv, ListsInv, CacheInv, NEW c \in Registry,
           \A x \in Registry : x \notin Subtree(c) => namespace'[x] = namespace[x],
           fullName' = [v \in Variable |->
                           IF \E x \in Subtree(c) : IsListed(x, v) THEN <<>> ELSE fullName[v]],
           registry' = registry
    PROVE  CacheInv'
<1>1. fullName' = [v \in Variable |-> fullName'[v]]
  OBVIOUS
<1>2. ASSUME NEW v \in Variable, fullName'[v] # <<>>
      PROVE  fullName'[v] = FullNameOf(v)'
  <2>1. fullName'[v] = fullName[v] /\ ~ \E x \in Subtree(c) : IsListed(x, v)
    BY <1>2
  <2>2. fullName[v] = FullNameOf(v)
    BY <1>2, <2>1 DEF CacheInv, CachedNameValid
  <2>3. CASE registry[v] = None
    BY <2>1, <2>2, <2>3 DEF FullNameOf
  <2>4. CASE registry[v] # None
    <3>1. registry[v] \in Registry
      BY <2>4 DEF ListsInv
    <3>2. IsListed(registry[v], v)
      BY <3>1 DEF ListsInv, RegistriesAgree
    <3>3. namespace'[registry[v]] = namespace[registry[v]]
      BY <2>1, <3>1, <3>2
    <3> QED  BY <2>1, <2>2, <2>4, <3>3 DEF FullNameOf
  <2> QED  BY <2>3, <2>4
<1> QED  BY <1>1, <1>2 DEF CacheInv, CachedNameValid
-----------------------------------------------------------------------------
(* Levels *)

\* c gets the level; what is below it follows its parents, whether or not the
\* walk stopped above it.
LEMMA RaisedLevels ==
    ASSUME TreeInv, LevelInv, NEW c \in Registry, NEW newLevel \in Level, level[c] <= newLevel,
           NEW raised, raised = LevelsRaised(c, newLevel)
    PROVE  /\ raised \in [Registry -> Level]
           /\ \A x \in Registry : x \notin Below(parent, c) => raised[x] = level[x]
           /\ raised[c] = newLevel
           /\ \A d \in Registry : d # c /\ parent[d] # None => raised[parent[d]] <= raised[d]
<1>1. parent \in Pointers /\ Acyclic(parent) /\ level \in [Registry -> Level] /\ Level \subseteq Int
  BY DEF TreeInv, LevelInv, Level, FULLY_MUTABLE, RESTRICTED, IMMUTABLE
<1> DEFINE Reached(z) == z \in Below(parent, c) /\ \A x \in Below(parent, c) :
                            z \in Below(parent, x) => (x = c \/ level[x] < newLevel)
<1>2. ASSUME NEW z \in Registry
      PROVE  raised[z] = IF Reached(z) THEN newLevel ELSE level[z]
  <2>1. Subtree(c) = Below(parent, c) /\ \A x \in Below(parent, c) : Subtree(x) = Below(parent, x)
    BY SubtreeInTree DEF Below
  <2> QED  BY <2>1 DEF LevelsRaised
<1>3. raised \in [Registry -> Level]
  <2>1. raised = [z \in Registry |-> raised[z]]
    BY DEF LevelsRaised
  <2> HIDE DEF Reached
  <2> QED  BY <1>1, <1>2, <2>1
<1>4. raised[c] = newLevel
  <2>1. ASSUME NEW x \in Below(parent, c), c \in Below(parent, x)
        PROVE  x = c
    BY <1>1, <2>1, AncestorsAntisymmetric DEF Below
  <2>2. Reached(c)
    BY <1>1, <2>1, BelowStart
  <2> QED  BY <1>2, <2>2
<1>5. ASSUME NEW d \in Registry, d # c, parent[d] # None
      PROVE  raised[parent[d]] <= raised[d]
  <2> DEFINE q == parent[d]
  <2>1. q \in Registry
    BY <1>1, <1>5 DEF Pointers
  <2>2. level[q] <= level[d] /\ level[q] \in Int /\ level[d] \in Int /\ newLevel \in Int
    BY <1>1, <1>5, <2>1 DEF LevelInv, LevelsDescend
  <2>3. q \in Below(parent, c) <=> d \in Below(parent, c)
    BY <1>1, <1>5, <2>1, BelowStart
  <2>4. \A x \in Registry : q \in Below(parent, x) => d \in Below(parent, x)
    BY <1>1, <1>5, BelowStart
  <2>5. CASE Reached(q)
    <3>1. CASE Reached(d)
      BY <1>2, <2>1, <2>2, <2>5, <3>1
    <3>2. CASE ~Reached(d)
      <4>1. d \in Below(parent, c)
        BY <2>3, <2>5
      <4>2. PICK x \in Below(parent, c) : d \in Below(parent, x) /\ x # c /\ ~(level[x] < newLevel)
        BY <3>2, <4>1
      <4>3. x = d
        <5> SUFFICES ASSUME x # d
                     PROVE  FALSE
          OBVIOUS
        <5>1. x \in Registry
          BY DEF Below
        <5>2. q \in Below(parent, x)
          BY <1>1, <4>2, <5>1, BelowStart
        <5> QED  BY <2>5, <4>2, <5>2
      <4>4. newLevel <= level[d]
        BY <2>2, <4>2, <4>3
      <4>5. raised[q] = newLevel /\ raised[d] = level[d]
        BY <1>2, <2>1, <2>5, <3>2
      <4> QED  BY <4>4, <4>5
    <3> QED  BY <3>1, <3>2
  <2>6. CASE ~Reached(q)
    <3>1. CASE ~Reached(d)
      BY <1>2, <2>1, <2>2, <2>6, <3>1
    <3>2. CASE Reached(d)
      <4>1. q \in Below(parent, c)
        BY <2>3, <3>2
      <4>2. PICK x \in Below(parent, c) : q \in Below(parent, x) /\ ~(x = c \/ level[x] < newLevel)
        BY <2>6, <4>1
      <4>3. d \in Below(parent, x)
        BY <2>4, <4>2 DEF Below
      <4> QED  BY <3>2, <4>2, <4>3
    <3> QED  BY <3>1, <3>2
  <2> QED  BY <2>5, <2>6
<1>6. ASSUME NEW x \in Registry, x \notin Below(parent, c)
      PROVE  raised[x] = level[x]
  BY <1>2, <1>6
<1> QED  BY <1>3, <1>4, <1>5, <1>6

\* The guest is at least as restricted as its host.
LEMMA AdoptedLevels ==
    ASSUME TreeInv, LevelInv, NEW r \in Registry, NEW c \in Registry, r \notin Below(parent, c),
           parent' = [parent EXCEPT ![c] = r], level' = LevelOfAdopted(r, c)
    PROVE  LevelInv'
<1>1. parent \in Pointers /\ level \in [Registry -> Level] /\ Level \subseteq Int
  BY DEF TreeInv, LevelInv, Level, FULLY_MUTABLE, RESTRICTED, IMMUTABLE
<1>2. /\ level' \in [Registry -> Level] /\ level'[r] <= level'[c]
      /\ \A d \in Registry : d # c /\ parent[d] # None => level'[parent[d]] <= level'[d]
  <2>0. level[c] \in Int /\ level[r] \in Int /\ level[r] \in Level
    BY <1>1
  <2>1. CASE level[c] < level[r]
    <3>1. level' = LevelsRaised(c, level[r]) /\ level[r] \in Level /\ level[c] <= level[r]
      BY <2>0, <2>1 DEF LevelOfAdopted
    <3>2. /\ level' \in [Registry -> Level]
          /\ \A x \in Registry : x \notin Below(parent, c) => level'[x] = level[x]
          /\ level'[c] = level[r]
          /\ \A d \in Registry : d # c /\ parent[d] # None => level'[parent[d]] <= level'[d]
      BY <3>1, RaisedLevels
    <3>3. level'[r] = level[r] /\ level[r] \in Int
      BY <1>1, <3>2
    <3> QED  BY <3>2, <3>3
  <2>2. CASE ~(level[c] < level[r])
    <3>1. level' = level
      BY <2>2 DEF LevelOfAdopted
    <3>2. level[r] <= level[c]
      BY <2>0, <2>2
    <3> QED  BY <1>1, <3>1, <3>2 DEF LevelInv, LevelsDescend
  <2> QED  BY <2>1, <2>2
<1>3. ASSUME NEW d \in Registry, parent'[d] # None
      PROVE  level'[parent'[d]] <= level'[d]
  <2>1. parent'[d] = IF d = c THEN r ELSE parent[d]
    BY <1>1 DEF Pointers
  <2> QED  BY <1>2, <1>3, <2>1
<1> QED  BY <1>2, <1>3 DEF LevelInv, LevelsDescend
-----------------------------------------------------------------------------
(* Every operation keeps the invariant *)

\* addChild, with the removal from the old parent it begins with: the tree, the levels that it
\* raises in the subtree, the names it rebuilds there, and the full names it drops.
LEMMA AddChildKeepsInv ==
    ASSUME Inv, NEW r \in Registry, NEW c \in Registry, NEW notify, addChild(r, c, notify)
    PROVE  Inv'
<1>1. TreeInv /\ LevelInv /\ NamesInv /\ ListsInv /\ CacheInv /\ listening \subseteq Registry
  BY DEF Inv
<1>2. /\ MayAdopt(r, c) /\ SaneBelow(r, c)
      /\ parent' = [parent EXCEPT ![c] = r]
      /\ children' = [ChildrenWithout(c) EXCEPT ![r] = Append(@, c)]
      /\ childMap' = [MapWithout(c) EXCEPT ![r] = Remember(@, KeyOf(c), c)]
      /\ Renamed(c, PrefixFor(r, c))
      /\ level' = LevelOfAdopted(r, c)
      /\ UNCHANGED <<variables, registry, listening>>
  BY DEF addChild
<1>3. r \notin Below(parent, c)
  BY <1>1, <1>2, SaneIsNotBelow
<1>4. r # None
  BY RegistryAssumption
<1>5. KeyOf(c) \notin {KeyOf(d) : d \in ChildrenOf(parent, r)}
  <2>1. childMap[r] = Mapping(ChildrenOf(parent, r)) /\ Distinct(ChildrenOf(parent, r))
    BY <1>1 DEF TreeInv
  <2> QED  BY <1>2, <2>1, MappingFinds DEF MayAdopt
<1>6. Goes(c, r)
  <2>1. children' = [x \in Registry |-> IF x = r THEN Append(ChildrenWithout(c)[x], c)
                                         ELSE ChildrenWithout(c)[x]]
    BY <1>2 DEF ChildrenWithout
  <2>2. childMap' = [x \in Registry |-> IF x = r THEN Remember(MapWithout(c)[x], KeyOf(c), c)
                                         ELSE MapWithout(c)[x]]
    BY <1>2 DEF MapWithout
  <2> QED  BY <1>2, <1>3, <1>5, <2>1, <2>2 DEF Goes
<1>7. TreeInv'
  BY <1>1, <1>6, TreeFollows
<1>8. LevelInv'
  BY <1>1, <1>2, <1>3, AdoptedLevels
<1>9. NamesInv'
  <2> DEFINE prefix == namespace[r]
  <2>1. PrefixFor(r, c) = prefix /\ prefix = IF r = None THEN <<>> ELSE namespace[r]
    BY <1>1, <1>3, <1>4, SubtreeInTree DEF PrefixFor
  <2>2. namespace' = [x \in Registry |->
                        IF x \in Subtree(c) THEN prefix \o NamesBetween(c, x) ELSE namespace[x]]
    BY <1>2, <2>1 DEF Renamed
  <2> HIDE DEF prefix
  <2> QED  BY <1>1, <1>6, <2>1, <2>2, NamesFollow
<1>10. ListsInv'
  BY <1>1, <1>2 DEF ListsInv, RegistriesAgree, IsListed
<1>11. CacheInv'
  <2>1. /\ \A x \in Registry : x \notin Subtree(c) => namespace'[x] = namespace[x]
        /\ fullName' = [v \in Variable |->
                           IF \E x \in Subtree(c) : IsListed(x, v) THEN <<>> ELSE fullName[v]]
        /\ registry' = registry
    BY <1>2 DEF Renamed
  <2> QED  BY <1>1, <2>1, CacheFollows
<1> QED  BY <1>1, <1>2, <1>7, <1>8, <1>9, <1>10, <1>11 DEF Inv

\* What removeChild and destroy() share: c has left its parent.
LEMMA Leaves ==
    ASSUME TreeInv, NEW c \in Registry,
           parent' = ParentWithout(c), children' = ChildrenWithout(c), childMap' = MapWithout(c)
    PROVE  Goes(c, None)
<1>1. \A x \in Registry : x # None
  BY RegistryAssumption
<1>2. children' = [x \in Registry |-> IF x = None THEN Append(ChildrenWithout(c)[x], c)
                                       ELSE ChildrenWithout(c)[x]]
  BY <1>1 DEF ChildrenWithout
<1>3. childMap' = [x \in Registry |-> IF x = None THEN Remember(MapWithout(c)[x], KeyOf(c), c)
                                       ELSE MapWithout(c)[x]]
  BY <1>1 DEF MapWithout
<1> QED  BY <1>2, <1>3 DEF Goes, ParentWithout

\* removeChild, which makes a root of the child and renames all that is below it.
LEMMA RemoveChildKeepsInv ==
    ASSUME Inv, NEW r, NEW c \in Registry, removeChild(r, c)
    PROVE  Inv'
<1>1. TreeInv /\ LevelInv /\ NamesInv /\ ListsInv /\ CacheInv /\ listening \subseteq Registry
  BY DEF Inv
<1>2. /\ parent' = ParentWithout(c) /\ children' = ChildrenWithout(c) /\ childMap' = MapWithout(c)
      /\ Renamed(c, <<>>)
      /\ UNCHANGED <<level, variables, registry, listening>>
  BY DEF removeChild
<1>3. Goes(c, None)
  BY <1>1, <1>2, Leaves
<1>4. TreeInv'
  BY <1>1, <1>3, TreeFollows
<1>5. LevelInv'
  <2>1. \A d \in Registry : parent'[d] # None => parent'[d] = parent[d]
    BY <1>1, <1>2 DEF ParentWithout, TreeInv, Pointers
  <2> QED  BY <1>1, <1>2, <2>1 DEF LevelInv, LevelsDescend
<1>6. NamesInv'
  <2> DEFINE prefix == <<>>
  <2>1. prefix = IF None = None THEN <<>> ELSE namespace[None]
    OBVIOUS
  <2>2. namespace' = [x \in Registry |->
                        IF x \in Subtree(c) THEN prefix \o NamesBetween(c, x) ELSE namespace[x]]
    BY <1>2 DEF Renamed
  <2> HIDE DEF prefix
  <2> QED  BY <1>1, <1>3, <2>1, <2>2, NamesFollow
<1>7. ListsInv'
  BY <1>1, <1>2 DEF ListsInv, RegistriesAgree, IsListed
<1>8. CacheInv'
  <2>1. /\ \A x \in Registry : x \notin Subtree(c) => namespace'[x] = namespace[x]
        /\ fullName' = [v \in Variable |->
                           IF \E x \in Subtree(c) : IsListed(x, v) THEN <<>> ELSE fullName[v]]
        /\ registry' = registry
    BY <1>2 DEF Renamed
  <2> QED  BY <1>1, <2>1, CacheFollows
<1> QED  BY <1>1, <1>2, <1>4, <1>5, <1>6, <1>7, <1>8 DEF Inv

\* setRestrictionLevel raises the level of a whole subtree, and levels still descend.
LEMMA SetRestrictionLevelKeepsInv ==
    ASSUME Inv, NEW r \in Registry, NEW newLevel \in Level, setRestrictionLevel(r, newLevel)
    PROVE  Inv'
<1>1. TreeInv /\ LevelInv /\ NamesInv /\ ListsInv /\ CacheInv /\ listening \subseteq Registry
  BY DEF Inv
<1>2. /\ level[r] <= newLevel /\ level' = LevelsRaised(r, newLevel)
      /\ UNCHANGED <<parent, children, childMap, namespace, variables, registry, fullName, listening>>
  BY DEF setRestrictionLevel, tree, contents
<1>3. LevelInv'
  <2>1. /\ level' \in [Registry -> Level]
        /\ \A x \in Registry : x \notin Below(parent, r) => level'[x] = level[x]
        /\ level'[r] = newLevel
        /\ \A d \in Registry : d # r /\ parent[d] # None => level'[parent[d]] <= level'[d]
    BY <1>1, <1>2, RaisedLevels
  <2>2. parent[r] # None => level'[parent[r]] <= level'[r]
    <3> SUFFICES ASSUME parent[r] # None
                 PROVE  level'[parent[r]] <= level'[r]
      OBVIOUS
    <3>1. parent \in Pointers /\ Acyclic(parent) /\ parent[r] \in Registry
      BY <1>1 DEF TreeInv, Pointers
    <3>2. parent[r] \notin Below(parent, r)
      BY <3>1 DEF Acyclic, Below
    <3>3. level'[parent[r]] = level[parent[r]] /\ level[parent[r]] <= level[r]
      BY <1>1, <2>1, <3>1, <3>2 DEF LevelInv, LevelsDescend
    <3>4. level[parent[r]] \in Int /\ level[r] \in Int /\ newLevel \in Int
      BY <1>1, <3>1 DEF LevelInv, Level, FULLY_MUTABLE, RESTRICTED, IMMUTABLE
    <3> QED  BY <1>2, <2>1, <3>3, <3>4
  <2> QED  BY <1>2, <2>1, <2>2 DEF LevelInv, LevelsDescend
<1>4. TreeInv'
  BY <1>1, <1>2 DEF TreeInv
<1>5. NamesInv' /\ ListsInv'
  BY <1>1, <1>2 DEF NamesInv, NamespaceIsPath, ListsInv, RegistriesAgree, IsListed
<1>6. CacheInv'
  BY <1>1, <1>2 DEF CacheInv, CachedNameValid, FullNameOf
<1> QED  BY <1>1, <1>2, <1>3, <1>4, <1>5, <1>6 DEF Inv

\* A variable leaves the registry it says it is in for another, or for none.
LEMMA ListsFollow ==
    ASSUME ListsInv, NEW v \in Variable, NEW s \in Registry \cup {None}, s # registry[v],
           variables' = Transferred(v, registry[v], s), registry' = [registry EXCEPT ![v] = s]
    PROVE  ListsInv'
<1>1. ASSUME NEW x \in Registry
      PROVE  /\ variables'[x] \in Seq(Variable) /\ IsInjective(variables'[x])
             /\ ToSet(variables'[x]) = IF x = s THEN ToSet(variables[x]) \cup {v}
                                       ELSE ToSet(variables[x]) \ {v}
  <2>0. variables[x] \in Seq(Variable) /\ IsInjective(variables[x])
    BY DEF ListsInv
  <2>1. IsListed(x, v) <=> registry[v] = x
    BY DEF ListsInv, RegistriesAgree
  <2>2. v \in ToSet(variables[x]) <=> registry[v] = x
    BY <2>1, RegistryAssumption DEF IsListed
  <2>3. CASE x = s
    <3>1. ~IsListed(x, v) /\ v \notin ToSet(variables[x])
      BY <2>1, <2>2, <2>3
    <3>2. variables'[x] = Append(variables[x], v)
      BY <2>3, <3>1 DEF Transferred
    <3> QED  BY <2>0, <2>3, <3>1, <3>2, AppendProper
  <2>4. CASE x # s /\ x = registry[v]
    <3>1. variables'[x] = Without(variables[x], v)
      BY <2>4 DEF Transferred
    <3> QED  BY <2>0, <2>4, <3>1, WithoutProperties
  <2>5. CASE x # s /\ x # registry[v]
    <3>1. variables'[x] = variables[x] /\ v \notin ToSet(variables[x])
      BY <2>2, <2>5 DEF Transferred
    <3> QED  BY <2>0, <2>5, <3>1
  <2> QED  BY <2>3, <2>4, <2>5
<1>2. variables' \in [Registry -> Seq(Variable)]
  <2>1. variables' = [x \in Registry |-> variables'[x]]
    BY DEF Transferred
  <2> QED  BY <1>1, <2>1
<1>3. registry' \in [Variable -> Registry \cup {None}]
  BY DEF ListsInv
<1>4. ASSUME NEW x \in Registry, NEW u \in Variable
      PROVE  IsListed(x, u)' <=> registry'[u] = x
  <2>1. IsListed(x, u) <=> registry[u] = x
    BY DEF ListsInv, RegistriesAgree
  <2>2. IsListed(x, u)' <=> u \in ToSet(variables'[x])
    BY RegistryAssumption DEF IsListed
  <2>3. IsListed(x, u) <=> u \in ToSet(variables[x])
    BY RegistryAssumption DEF IsListed
  <2>4. registry'[u] = IF u = v THEN s ELSE registry[u]
    BY DEF ListsInv
  <2> QED  BY <1>1, <2>1, <2>2, <2>3, <2>4
<1> QED  BY <1>1, <1>2, <1>3, <1>4 DEF ListsInv, RegistriesAgree

\* Its cached name is reset.
LEMMA CacheForgets ==
    ASSUME CacheInv, NEW v \in Variable, NEW s, ListsInv, Owned(v, s), namespace' = namespace
    PROVE  CacheInv'
<1>1. fullName' = [u \in Variable |-> fullName'[u]] /\ fullName'[v] = <<>>
  BY DEF Owned, CacheInv
<1>2. ASSUME NEW u \in Variable, fullName'[u] # <<>>
      PROVE  fullName'[u] = FullNameOf(u)'
  <2>1. u # v
    BY <1>1, <1>2
  <2>2. fullName'[u] = fullName[u] /\ registry'[u] = registry[u]
    BY <2>1 DEF Owned, CacheInv, ListsInv
  <2> QED  BY <1>2, <2>2 DEF CacheInv, CachedNameValid, FullNameOf
<1> QED  BY <1>1, <1>2 DEF CacheInv, CachedNameValid

\* What the calls about one variable share
LEMMA VariableMoves ==
    ASSUME Inv, NEW v \in Variable, NEW s \in Registry \cup {None}, s # registry[v],
           variables' = Transferred(v, registry[v], s), Owned(v, s), UNCHANGED <<tree, level, listening>>
    PROVE  Inv'
<1>1. TreeInv /\ LevelInv /\ NamesInv /\ ListsInv /\ CacheInv /\ listening \subseteq Registry
  BY DEF Inv
<1>2. UNCHANGED <<parent, children, childMap, namespace, level, listening>>
  BY DEF tree
<1>3. TreeInv' /\ LevelInv' /\ NamesInv'
  BY <1>1, <1>2 DEF TreeInv, LevelInv, LevelsDescend, NamesInv, NamespaceIsPath
<1>4. ListsInv'
  BY <1>1, ListsFollow DEF Owned
<1>5. CacheInv'
  BY <1>1, <1>2, CacheForgets
<1> QED  BY <1>1, <1>2, <1>3, <1>4, <1>5 DEF Inv

\* A variable that is listed says so.
LEMMA ListedIsOwned ==
    ASSUME Inv, NEW v \in Variable
    PROVE  /\ \A r \in Registry : v \in ToSet(variables[r]) <=> registry[v] = r
           /\ registry[v] # None => registry[v] \in Registry /\ IsListed(registry[v], v)
           /\ ~IsListed(None, v)
BY RegistryAssumption DEF Inv, ListsInv, RegistriesAgree, IsListed

\* addVariable, which takes the variable from its old registry first.
LEMMA AddVariableKeepsInv ==
    ASSUME Inv, NEW r \in Registry, NEW v \in Variable, addVariable(r, v)
    PROVE  Inv'
<1>1. /\ ~NameTaken(r, v) /\ variables' = Transferred(v, registry[v], r) /\ Owned(v, r)
      /\ UNCHANGED <<tree, level, listening>>
  BY DEF addVariable
<1>2. r # registry[v]
  BY <1>1, ListedIsOwned DEF NameTaken
<1> QED  BY <1>1, <1>2, VariableMoves

\* removeVariable.
LEMMA RemoveVariableKeepsInv ==
    ASSUME Inv, NEW r \in Registry, NEW v \in Variable, removeVariable(r, v)
    PROVE  Inv'
<1>1. /\ IsListed(r, v) /\ variables' = Transferred(v, r, None) /\ Owned(v, None)
      /\ UNCHANGED <<tree, level, listening>>
  BY DEF removeVariable
<1>2. registry[v] = r
  BY <1>1, ListedIsOwned DEF IsListed
<1>3. None # registry[v]
  BY <1>2, RegistryAssumption
<1> QED  BY <1>1, <1>2, <1>3, VariableMoves

\* YoVariable::setRegistry, the other way into the same exchange.
LEMMA SetRegistryKeepsInv ==
    ASSUME Inv, NEW v \in Variable, NEW r \in Registry \cup {None}, setRegistry(v, r)
    PROVE  Inv'
BY VariableMoves DEF setRegistry

\* getFullName stores the name it computes, which is valid for the moment.
LEMMA GetFullNameKeepsInv ==
    ASSUME Inv, NEW v \in Variable, getFullName(v)
    PROVE  Inv'
<1>1. TreeInv /\ LevelInv /\ NamesInv /\ ListsInv /\ CacheInv /\ listening \subseteq Registry
  BY DEF Inv
<1>2. /\ fullName' = [fullName EXCEPT ![v] = FullNameOf(v)]
      /\ UNCHANGED <<parent, children, childMap, namespace, level, variables, registry, listening>>
  BY DEF getFullName, tree
<1>3. TreeInv' /\ LevelInv' /\ NamesInv' /\ ListsInv'
  BY <1>1, <1>2 DEF TreeInv, LevelInv, LevelsDescend, NamesInv, NamespaceIsPath, ListsInv,
                    RegistriesAgree, IsListed
<1>4. \A u \in Variable : FullNameOf(u)' = FullNameOf(u)
  BY <1>2 DEF FullNameOf
<1>5. CacheInv'
  BY <1>1, <1>2, <1>4 DEF CacheInv, CachedNameValid
<1> QED  BY <1>1, <1>2, <1>3, <1>5 DEF Inv

\* Listeners come and go without an effect on the tree.
LEMMA ListenersKeepInv ==
    ASSUME Inv, NEW r \in Registry, addListener(r) \/ removeListeners(r) \/ UNCHANGED vars
    PROVE  Inv'
<1>1. TreeInv /\ LevelInv /\ NamesInv /\ ListsInv /\ CacheInv /\ listening \subseteq Registry
  BY DEF Inv
<1>2. /\ UNCHANGED <<parent, children, childMap, namespace, level, variables, registry, fullName>>
      /\ listening' \subseteq listening \cup {r}
  BY DEF addListener, removeListeners, tree, contents, vars
<1>3. TreeInv' /\ LevelInv' /\ NamesInv' /\ ListsInv'
  BY <1>1, <1>2 DEF TreeInv, LevelInv, LevelsDescend, NamesInv, NamespaceIsPath, ListsInv,
                    RegistriesAgree, IsListed
<1>4. CacheInv'
  BY <1>1, <1>2 DEF CacheInv, CachedNameValid, FullNameOf
<1> QED  BY <1>1, <1>2, <1>3, <1>4 DEF Inv

\* A registry without children is all of its subtree, and walking over few
\* variables skips none.
LEMMA NothingBelow ==
    ASSUME TreeInv, NEW r \in Registry, LeavesNothing(r)
    PROVE  /\ Subtree(r) = {r} /\ Struck({r}) = ToSet(variables[r])
           /\ ChildrenOf(parent, r) = {} /\ parent[r] # r
<1>1. children[r] = <<>> /\ Skipped(variables[r]) = {}
  BY DEF LeavesNothing
<1>2. ChildrenOf(parent, r) = {}
  BY <1>1, EmptyToSet DEF TreeInv
<1>3. Subtree(r) \subseteq {r}
  <2> DEFINE S == {r}
  <2>1. S \in SUBSET Registry /\ r \in S /\ \A x \in S : ToSet(children[x]) \subseteq S
    BY <1>1, EmptyToSet
  <2> HIDE DEF S
  <2>2. Subtree(r) \subseteq S
    BY <2>1 DEF Subtree
  <2> QED  BY <2>2 DEF S
<1>4. r \in Subtree(r)
  BY DEF Subtree
<1>5. Struck({r}) = ToSet(variables[r])
  BY <1>1 DEF Struck
<1>6. parent[r] # r
  BY <1>2 DEF ChildrenOf
<1> QED  BY <1>2, <1>3, <1>4, <1>5, <1>6

\* destroy of a registry without children and with so few variables that its loop skips none.
LEMMA DestroyKeepsInv ==
    ASSUME Inv, NEW r \in Registry, LeavesNothing(r), destroy(r)
    PROVE  Inv'
<1>1. TreeInv /\ LevelInv /\ NamesInv /\ ListsInv /\ CacheInv /\ listening \subseteq Registry
  BY DEF Inv
<1>2. /\ Subtree(r) = {r} /\ Struck({r}) = ToSet(variables[r])
      /\ ChildrenOf(parent, r) = {} /\ parent[r] # r
  BY <1>1, NothingBelow
<1>3. /\ parent' = ParentWithout(r) /\ namespace' = NamesWithout(r)
      /\ children' = [s \in Registry |-> IF s = r THEN <<>> ELSE ChildrenWithout(r)[s]]
      /\ childMap' = [s \in Registry |-> IF s = r THEN <<>> ELSE MapWithout(r)[s]]
      /\ level' = [s \in Registry |-> IF s = r THEN FULLY_MUTABLE ELSE level[s]]
      /\ listening' = listening \ {r}
  BY <1>2 DEF destroy, Dissolved
<1>4. /\ variables' = [s \in Registry |-> IF s = r THEN <<>> ELSE variables[s]]
      /\ registry' = [v \in Variable |-> IF v \in ToSet(variables[r]) THEN None ELSE registry[v]]
  BY <1>2 DEF destroy, Emptied, Released
<1>5. fullName' = [v \in Variable |-> IF v \in ToSet(variables[r]) THEN <<>> ELSE fullName[v]]
  BY <1>2 DEF destroy, Reset, IsListed
<1>6. children' = ChildrenWithout(r)
  <2>1. ChildrenWithout(r)[r] = <<>>
    BY <1>2 DEF ChildrenWithout, LeavesNothing
  <2>2. ChildrenWithout(r) = [s \in Registry |-> ChildrenWithout(r)[s]]
    BY DEF ChildrenWithout
  <2>3. \A s \in Registry : (IF s = r THEN <<>> ELSE ChildrenWithout(r)[s]) = ChildrenWithout(r)[s]
    BY <2>1
  <2> QED  BY <1>3, <2>2, <2>3
<1>7. childMap' = MapWithout(r)
  <2>1. MapWithout(r)[r] = <<>>
    <3>1. MapWithout(r)[r] = Mapping({})
      BY <1>1, <1>2 DEF MapWithout, TreeInv
    <3> QED  BY <3>1 DEF Mapping
  <2>2. MapWithout(r) = [s \in Registry |-> MapWithout(r)[s]]
    BY DEF MapWithout
  <2>3. \A s \in Registry : (IF s = r THEN <<>> ELSE MapWithout(r)[s]) = MapWithout(r)[s]
    BY <2>1
  <2> QED  BY <1>3, <2>2, <2>3
<1>8. Goes(r, None)
  BY <1>1, <1>3, <1>6, <1>7, Leaves
<1>9. TreeInv'
  BY <1>1, <1>8, TreeFollows
<1>10. LevelInv'
  <2>1. \A d \in Registry : parent'[d] # None => parent'[d] = parent[d] /\ d # r /\ parent[d] # r
    BY <1>1, <1>2, <1>3 DEF ParentWithout, TreeInv, Pointers, ChildrenOf
  <2>2. parent' \in Pointers
    BY <1>9 DEF TreeInv
  <2>3. level' \in [Registry -> Level]
    BY <1>1, <1>3 DEF LevelInv, Level
  <2>4. ASSUME NEW d \in Registry, parent'[d] # None
        PROVE  level'[parent'[d]] <= level'[d]
    <3>1. parent'[d] = parent[d] /\ d # r /\ parent[d] # r /\ parent[d] \in Registry
      BY <2>1, <2>2, <2>4 DEF Pointers
    <3>2. level'[parent[d]] = level[parent[d]] /\ level'[d] = level[d]
      BY <1>3, <3>1
    <3>3. level[parent[d]] <= level[d]
      BY <1>1, <2>4, <3>1 DEF LevelInv, LevelsDescend
    <3> QED  BY <3>1, <3>2, <3>3
  <2> QED  BY <2>3, <2>4 DEF LevelInv, LevelsDescend
<1>11. NamesInv'
  <2>1. CASE parent[r] = None
    <3>1. parent' = parent /\ namespace' = namespace
      BY <1>1, <1>3, <2>1 DEF ParentWithout, NamesWithout, TreeInv, Pointers, NamesInv
    <3> QED  BY <1>1, <3>1 DEF NamesInv, NamespaceIsPath
  <2>2. CASE parent[r] # None
    <3> DEFINE prefix == <<>>
    <3>1. prefix = IF None = None THEN <<>> ELSE namespace[None]
      OBVIOUS
    <3>2. \A x \in Registry : prefix \o NamesBetween(r, x) = NamesBetween(r, x)
      BY <1>1, NamesGoDown, ConcatEmptySeq DEF TreeInv
    <3>3. namespace' = [x \in Registry |->
                          IF x \in Subtree(r) THEN prefix \o NamesBetween(r, x) ELSE namespace[x]]
      BY <1>3, <2>2, <3>2 DEF NamesWithout
    <3> HIDE DEF prefix
    <3> QED  BY <1>1, <1>8, <3>1, <3>3, NamesFollow
  <2> QED  BY <2>1, <2>2
<1>12. ListsInv'
  <2>1. variables' \in [Registry -> Seq(Variable)] /\ \A s \in Registry : IsInjective(variables'[s])
    <3>1. <<>> \in Seq(Variable) /\ IsInjective(<<>>)
      BY DEF IsInjective
    <3> QED  BY <1>1, <1>4, <3>1 DEF ListsInv
  <2>2. registry' \in [Variable -> Registry \cup {None}]
    BY <1>1, <1>4 DEF ListsInv
  <2>3. ASSUME NEW s \in Registry, NEW v \in Variable
        PROVE  v \in ToSet(variables'[s]) <=> registry'[v] = s
    <3>1. \A t \in Registry : v \in ToSet(variables[t]) <=> registry[v] = t
      BY ListedIsOwned
    <3>2. s # None
      BY RegistryAssumption
    <3>3. CASE s = r
      BY <1>4, <3>1, <3>2, <3>3, EmptyToSet
    <3>4. CASE s # r
      BY <1>4, <3>1, <3>2, <3>4
    <3> QED  BY <3>3, <3>4
  <2> QED  BY <2>1, <2>2, <2>3, RegistryAssumption DEF ListsInv, RegistriesAgree, IsListed
<1>13. CacheInv'
  <2>1. ASSUME NEW v \in Variable, fullName'[v] # <<>>
        PROVE  fullName'[v] = FullNameOf(v)'
    <3>1. v \notin ToSet(variables[r]) /\ fullName'[v] = fullName[v] /\ registry'[v] = registry[v]
      BY <1>4, <1>5, <2>1
    <3>2. fullName[v] = FullNameOf(v)
      BY <1>1, <2>1, <3>1 DEF CacheInv, CachedNameValid
    <3>3. registry[v] # r
      BY <3>1, ListedIsOwned
    <3>4. registry[v] # None => namespace'[registry[v]] = namespace[registry[v]]
      BY <1>2, <1>3, <3>3, ListedIsOwned DEF NamesWithout
    <3> QED  BY <3>1, <3>2, <3>4 DEF FullNameOf
  <2> QED  BY <1>5, <2>1 DEF CacheInv, CachedNameValid
<1> QED  BY <1>1, <1>3, <1>9, <1>10, <1>11, <1>12, <1>13 DEF Inv

\* Whatever is called, the invariant holds again after the call.
LEMMA NextKeepsInv ==
    ASSUME Inv, [Next]_vars
    PROVE  Inv'
<1>1. CASE UNCHANGED vars
  <2>1. CASE Registry = {}
    BY <1>1, <2>1 DEF Inv, TreeInv, LevelInv, LevelsDescend, NamesInv, NamespaceIsPath, ListsInv,
                      RegistriesAgree, IsListed, CacheInv, CachedNameValid, FullNameOf, vars
  <2>2. CASE Registry # {}
    BY <1>1, <2>2, ListenersKeepInv
  <2> QED  BY <2>1, <2>2
<1>2. CASE \E r \in Registry, v \in Variable : addVariable(r, v) \/ removeVariable(r, v)
  BY <1>2, AddVariableKeepsInv, RemoveVariableKeepsInv
<1>3. CASE \E v \in Variable : getFullName(v) \/ \E r \in Registry \cup {None} : setRegistry(v, r)
  BY <1>3, GetFullNameKeepsInv, SetRegistryKeepsInv
<1>4. CASE \E r, c \in Registry : removeChild(r, c) \/ \E notify \in BOOLEAN : addChild(r, c, notify)
  BY <1>4, RemoveChildKeepsInv, AddChildKeepsInv
<1>5. CASE \E r \in Registry : detachFromParent(r)
  BY <1>5, RemoveChildKeepsInv DEF detachFromParent
<1>6. CASE \E r \in Registry : addListener(r) \/ removeListeners(r)
  BY <1>6, ListenersKeepInv
<1>7. CASE \E r \in Registry, newLevel \in Level : setRestrictionLevel(r, newLevel)
  BY <1>7, SetRestrictionLevelKeepsInv
<1>8. CASE \E r \in Registry : LeavesNothing(r) /\ destroy(r)
  BY <1>8, DestroyKeepsInv
<1> QED  BY <1>1, <1>2, <1>3, <1>4, <1>5, <1>6, <1>7, <1>8 DEF Next, Succeed

\* Registries and variables begin alone.
LEMMA InitHasInv == Init => Inv
<1> SUFFICES ASSUME Init
             PROVE  Inv
  OBVIOUS
<1>1. <<>> \in Seq(Registry) /\ <<>> \in Seq(Variable) /\ IsInjective(<<>>) /\ ToSet(<<>>) = {}
  BY EmptyToSet DEF IsInjective
<1>2. \A r \in Registry : r # None
  BY RegistryAssumption
<1>3. \A r \in Registry : ChildrenOf(parent, r) = {}
  BY <1>2 DEF Init, ChildrenOf
<1>4. Mapping({}) = <<>>
  BY DEF Mapping
<1>5. TreeInv
  <2>1. parent \in Pointers /\ Acyclic(parent) /\ Distinct({})
    BY DEF Init, Pointers, Acyclic, Distinct
  <2>2. children \in [Registry -> Seq(Registry)]
    BY <1>1 DEF Init
  <2>3. childMap = [r \in Registry |-> Mapping(ChildrenOf(parent, r))]
    <3> HIDE DEF Mapping
    <3> QED  BY <1>3, <1>4 DEF Init
  <2>4. \A r \in Registry : children[r] = <<>>
    BY DEF Init
  <2> QED  BY <1>1, <1>3, <2>1, <2>2, <2>3, <2>4 DEF TreeInv
<1>6. LevelInv
  BY DEF Init, LevelInv, LevelsDescend, Level
<1>7. NamesInv
  <2>1. \A r \in Registry : <<RegistryName[r]>> \in Seq(Name)
    BY DEF Name
  <2> QED  BY <2>1 DEF Init, NamesInv, NamespaceIsPath
<1>8. ListsInv
  <2>1. variables \in [Registry -> Seq(Variable)] /\ registry \in [Variable -> Registry \cup {None}]
    BY <1>1 DEF Init
  <2>2. \A r \in Registry : variables[r] = <<>>
    BY DEF Init
  <2>3. \A v \in Variable : registry[v] = None
    BY DEF Init
  <2> QED  BY <1>1, <1>2, <2>1, <2>2, <2>3 DEF ListsInv, RegistriesAgree, IsListed
<1>9. CacheInv
  BY DEF Init, CacheInv, CachedNameValid
<1>10. listening \subseteq Registry
  BY DEF Init
<1> QED  BY <1>5, <1>6, <1>7, <1>8, <1>9, <1>10 DEF Inv

\* The invariant of the registries, in every state.
LEMMA InvAlways == Spec => []Inv
<1>1. Init => Inv
  BY InitHasInv
<1>2. Inv /\ [Next]_vars => Inv'
  BY NextKeepsInv
<1> QED  BY <1>1, <1>2, PTL DEF Spec

\* Parents, lists and maps of children agree, nobody is above itself, and
\* restrictions grow downwards, in every state: addChild needs no check for a
\* cycle but that of the names.
THEOREM TreeStaysWellFormed == Spec => []TreeWellFormed
<1>1. Inv => TreeWellFormed
  BY InvIsEnough
<1> QED  BY <1>1, InvAlways, PTL

\* The stored namespaces are the paths from the root in every state, and no
\* cached full name is ever out of date.
THEOREM NamesStayCurrent == Spec => []NamesAreCurrent
<1>1. Inv => NamesAreCurrent
  BY InvIsEnough DEF NamesAreCurrent
<1> QED  BY <1>1, InvAlways, PTL

\* The lists of the registries and registry_ of the variables agree in every
\* state.
THEOREM RegistriesAlwaysAgree == Spec => []RegistriesAgree
<1>1. Inv => RegistriesAgree
  BY InvIsEnough
<1> QED  BY <1>1, InvAlways, PTL
-----------------------------------------------------------------------------
(* Restrictions *)

\* What may become of a list at a level: it only grows, or it does not change.
Heeded(restrictionLevel, list, after) ==
    /\ restrictionLevel # FULLY_MUTABLE => IsPrefix(list, after)
    /\ restrictionLevel = IMMUTABLE => after = list

\* A vector that stays as it is respects any restriction.
LEMMA UnchangedIsHeeded ==
    ASSUME NEW S, NEW list \in Seq(S), NEW restrictionLevel
    PROVE  Heeded(restrictionLevel, list, list)
BY PrefixOfItself DEF Heeded

\* Moving a variable asks both registries.
LEMMA TransferHeeds ==
    ASSUME Inv, NEW v \in Variable, NEW s \in Registry \cup {None}, s # registry[v],
           variables' = Transferred(v, registry[v], s),
           registry[v] # None => isRemovalAllowed(level[registry[v]]),
           s # None => isAdditionAllowed(level[s]),
           NEW x \in Registry
    PROVE  Heeded(level[x], variables[x], variables'[x])
<1>1. variables[x] \in Seq(Variable)
  BY DEF Inv, ListsInv
<1>2. (IsListed(x, v) <=> registry[v] = x) /\ x # None
  BY ListedIsOwned, RegistryAssumption DEF IsListed
<1>3. CASE x = s
  <2>1. variables'[x] = Append(variables[x], v)
    BY <1>2, <1>3 DEF Transferred
  <2>2. IsPrefix(variables[x], variables'[x])
    BY <1>1, <2>1, PrefixOfLonger
  <2> QED  BY <1>2, <1>3, <2>2 DEF Heeded, isAdditionAllowed
<1>4. CASE x # s /\ x = registry[v]
  BY <1>2, <1>4 DEF Heeded, isRemovalAllowed, FULLY_MUTABLE, IMMUTABLE
<1>5. CASE x # s /\ x # registry[v]
  <2>1. variables'[x] = variables[x]
    BY <1>5 DEF Transferred
  <2> QED  BY <1>1, <2>1, UnchangedIsHeeded
<1> QED  BY <1>3, <1>4, <1>5

\* So does taking a child from its parent.
LEMMA DetachingHeeds ==
    ASSUME Inv, NEW c \in Registry, MayDetach(c), NEW x \in Registry
    PROVE  Heeded(level[x], children[x], ChildrenWithout(c)[x])
<1>1. children[x] \in Seq(Registry) /\ x # None
  BY RegistryAssumption DEF Inv, TreeInv
<1>2. CASE x = parent[c]
  BY <1>1, <1>2 DEF MayDetach, Heeded, isRemovalAllowed, FULLY_MUTABLE, IMMUTABLE
<1>3. CASE x # parent[c]
  <2>1. ChildrenWithout(c)[x] = children[x]
    BY <1>3 DEF ChildrenWithout
  <2> QED  BY <1>1, <2>1, UnchangedIsHeeded
<1> QED  BY <1>2, <1>3

\* addChild neither gives a child to a registry that takes none nor takes one from a registry that
\* lets none go: the checks of both come before anything is changed.
LEMMA AddChildHeeds ==
    ASSUME Inv, NEW r \in Registry, NEW c \in Registry, NEW notify, addChild(r, c, notify),
           NEW x \in Registry
    PROVE  Heeded(level[x], children[x], children'[x])
<1>1. MayDetach(c) /\ isAdditionAllowed(level[r]) /\ KeyOf(c) \notin DOMAIN childMap[r]
  BY DEF addChild, MayAdopt
<1>2. children' = [ChildrenWithout(c) EXCEPT ![r] = Append(@, c)]
  BY DEF addChild
<1>3. children[x] \in Seq(Registry)
  BY DEF Inv, TreeInv
<1>4. CASE x = r
  <2>1. parent[c] # r
    <3>1. childMap[r] = Mapping(ChildrenOf(parent, r)) /\ Distinct(ChildrenOf(parent, r))
      BY DEF Inv, TreeInv
    <3>2. c \notin ChildrenOf(parent, r)
      BY <1>1, <3>1, MappingFinds
    <3> QED  BY <3>2 DEF ChildrenOf
  <2>2. children'[x] = Append(children[x], c)
    BY <1>2, <1>4, <2>1 DEF ChildrenWithout
  <2>3. IsPrefix(children[x], children'[x])
    BY <1>3, <2>2, PrefixOfLonger
  <2> QED  BY <1>1, <1>4, <2>3 DEF Heeded, isAdditionAllowed
<1>5. CASE x # r
  <2>1. children'[x] = ChildrenWithout(c)[x]
    BY <1>2, <1>5 DEF ChildrenWithout
  <2> QED  BY <1>1, <2>1, DetachingHeeds
<1> QED  BY <1>4, <1>5

\* destroy takes only from registries that may be changed.
LEMMA DestroyHeeds ==
    ASSUME Inv, NEW r \in Registry, LeavesNothing(r), destroy(r), NEW x \in Registry
    PROVE  /\ Heeded(level[x], children[x], children'[x])
           /\ Heeded(level[x], variables[x], variables'[x])
<1>1. Subtree(r) = {r} /\ children[r] = <<>>
  BY NothingBelow DEF Inv, LeavesNothing
<1>2. /\ MayDetach(r) /\ ~Blocks(r)
      /\ children' = [s \in Registry |-> IF s = r THEN <<>> ELSE ChildrenWithout(r)[s]]
      /\ variables' = [s \in Registry |-> IF s = r THEN <<>> ELSE variables[s]]
  BY <1>1 DEF destroy, MayDestroy, Dissolved, Emptied
<1>3. children[x] \in Seq(Registry) /\ variables[x] \in Seq(Variable)
  BY DEF Inv, TreeInv, ListsInv
<1>4. CASE x = r
  <2>1. children'[x] = children[x] /\ variables'[x] = <<>>
    BY <1>1, <1>2, <1>4
  <2>2. variables[x] = <<>> \/ level[x] = FULLY_MUTABLE
    BY <1>2, <1>4 DEF Blocks, isRemovalAllowed
  <2>3. Heeded(level[x], children[x], children'[x])
    BY <1>3, <2>1, UnchangedIsHeeded
  <2>4. CASE variables[x] = <<>>
    <3>1. variables'[x] = variables[x]
      BY <2>1, <2>4
    <3> QED  BY <1>3, <2>3, <3>1, UnchangedIsHeeded
  <2>5. CASE level[x] = FULLY_MUTABLE
    BY <2>3, <2>5 DEF Heeded, FULLY_MUTABLE, IMMUTABLE
  <2> QED  BY <2>2, <2>4, <2>5
<1>5. CASE x # r
  <2>1. children'[x] = ChildrenWithout(r)[x] /\ variables'[x] = variables[x]
    BY <1>2, <1>5
  <2>2. Heeded(level[x], children[x], children'[x])
    BY <1>2, <2>1, DetachingHeeds
  <2> QED  BY <1>3, <2>1, <2>2, UnchangedIsHeeded
<1> QED  BY <1>4, <1>5

\* The operations that leave both kinds of lists alone
LEMMA OthersHeed ==
    ASSUME Inv, NEW x \in Registry
    PROVE  /\ UNCHANGED variables => Heeded(level[x], variables[x], variables'[x])
           /\ UNCHANGED children => Heeded(level[x], children[x], children'[x])
<1>1. children[x] \in Seq(Registry) /\ variables[x] \in Seq(Variable)
  BY DEF Inv, TreeInv, ListsInv
<1> QED  BY <1>1, UnchangedIsHeeded

\* Whatever is called, the restrictions that held before the call are respected by it.
LEMMA NextHeeds ==
    ASSUME Inv, Next, NEW x \in Registry
    PROVE  /\ Heeded(level[x], variables[x], variables'[x])
           /\ Heeded(level[x], children[x], children'[x])
<1>1. CASE \E r \in Registry, v \in Variable : addVariable(r, v)
  <2>1. PICK r \in Registry, v \in Variable : addVariable(r, v)
    BY <1>1
  <2>2. /\ r # registry[v] /\ variables' = Transferred(v, registry[v], r)
        /\ registry[v] # None => isRemovalAllowed(level[registry[v]])
        /\ isAdditionAllowed(level[r]) /\ UNCHANGED children
    BY <2>1, ListedIsOwned DEF addVariable, NameTaken, tree
  <2> QED  BY <2>2, TransferHeeds, OthersHeed
<1>2. CASE \E r \in Registry, v \in Variable : removeVariable(r, v)
  <2>1. PICK r \in Registry, v \in Variable : removeVariable(r, v)
    BY <1>2
  <2>2. /\ registry[v] = r /\ None # r /\ variables' = Transferred(v, registry[v], None)
        /\ isRemovalAllowed(level[r]) /\ UNCHANGED children
    BY <2>1, ListedIsOwned, RegistryAssumption DEF removeVariable, IsListed, tree
  <2> QED  BY <2>2, TransferHeeds, OthersHeed
<1>3. CASE \E v \in Variable, r \in Registry \cup {None} : setRegistry(v, r)
  <2>1. PICK v \in Variable, r \in Registry \cup {None} : setRegistry(v, r)
    BY <1>3
  <2>2. /\ r # registry[v] /\ variables' = Transferred(v, registry[v], r)
        /\ registry[v] # None => isRemovalAllowed(level[registry[v]])
        /\ (r # None => isAdditionAllowed(level[r])) /\ UNCHANGED children
    BY <2>1, ListedIsOwned DEF setRegistry, LetsGo, Accepts, tree
  <2> QED  BY <2>2, TransferHeeds, OthersHeed
<1>4. CASE \E v \in Variable : getFullName(v)
  BY <1>4, OthersHeed DEF getFullName, tree
<1>5. CASE \E r, c \in Registry : removeChild(r, c)
  <2>1. PICK r \in Registry, c \in Registry : removeChild(r, c)
    BY <1>5
  <2>2. MayDetach(c) /\ children' = ChildrenWithout(c) /\ UNCHANGED variables
    BY <2>1 DEF removeChild, MayDetach
  <2> QED  BY <2>2, DetachingHeeds, OthersHeed
<1>6. CASE \E r, c \in Registry, notify \in BOOLEAN : addChild(r, c, notify)
  <2>1. PICK r \in Registry, c \in Registry, notify \in BOOLEAN : addChild(r, c, notify)
    BY <1>6
  <2>2. UNCHANGED variables
    BY <2>1 DEF addChild
  <2> QED  BY <2>1, <2>2, AddChildHeeds, OthersHeed
<1>7. CASE \E r \in Registry : detachFromParent(r)
  <2>1. PICK c \in Registry : removeChild(parent[c], c)
    BY <1>7 DEF detachFromParent
  <2>2. MayDetach(c) /\ children' = ChildrenWithout(c) /\ UNCHANGED variables
    BY <2>1 DEF removeChild, MayDetach
  <2> QED  BY <2>2, DetachingHeeds, OthersHeed
<1>8. CASE \E r \in Registry : addListener(r) \/ removeListeners(r)
  BY <1>8, OthersHeed DEF addListener, removeListeners, tree, contents
<1>9. CASE \E r \in Registry, newLevel \in Level : setRestrictionLevel(r, newLevel)
  BY <1>9, OthersHeed DEF setRestrictionLevel, tree, contents
<1>10. CASE \E r \in Registry : LeavesNothing(r) /\ destroy(r)
  BY <1>10, DestroyHeeds
<1> QED  BY <1>1, <1>2, <1>3, <1>4, <1>5, <1>6, <1>7, <1>8, <1>9, <1>10 DEF Next, Succeed

\* No operation takes anything from a registry that is restricted, or adds
\* anything to one that is immutable, from whichever side it comes.
THEOREM RestrictionsAreHeeded == Spec => RestrictionHolds
<1>1. ASSUME Inv, Next, NEW r \in Registry
      PROVE  /\ level[r] # FULLY_MUTABLE => /\ IsPrefix(variables[r], variables'[r])
                                            /\ IsPrefix(children[r], children'[r])
             /\ level[r] = IMMUTABLE => variables'[r] = variables[r] /\ children'[r] = children[r]
  BY <1>1, NextHeeds DEF Heeded
<1>2. Inv /\ [Next]_vars =>
          [\A r \in Registry :
              /\ level[r] # FULLY_MUTABLE => /\ IsPrefix(variables[r], variables'[r])
                                            /\ IsPrefix(children[r], children'[r])
              /\ level[r] = IMMUTABLE => variables'[r] = variables[r] /\ children'[r] = children[r]]_vars
  BY <1>1
<1> QED  BY <1>2, InvAlways, PTL DEF Spec, RestrictionHolds
-----------------------------------------------------------------------------
(* Listeners *)

\* A change is among those told.
Among(change, seq) == \E i \in DOMAIN seq : seq[i] = change

\* What is told in either of two parts of a call is told in the call.
LEMMA AmongBoth ==
    ASSUME NEW S, NEW s \in Seq(S), NEW t \in Seq(S), NEW x, Among(x, s) \/ Among(x, t)
    PROVE  Among(x, s \o t)
<1> DEFINE both == s \o t
<1>1. /\ Len(s) \in Nat /\ Len(t) \in Nat /\ DOMAIN s = 1 .. Len(s) /\ DOMAIN t = 1 .. Len(t)
      /\ DOMAIN both = 1 .. (Len(s) + Len(t))
      /\ \A i \in 1 .. (Len(s) + Len(t)) : both[i] = IF i <= Len(s) THEN s[i] ELSE t[i - Len(s)]
  BY ConcatProperties
<1> HIDE DEF both
<1>2. CASE Among(x, s)
  <2>1. PICK i \in 1 .. Len(s) : s[i] = x
    BY <1>1, <1>2 DEF Among
  <2>2. i \in 1 .. (Len(s) + Len(t)) /\ both[i] = x
    BY <1>1, <2>1
  <2> QED  BY <1>1, <2>2 DEF Among, both
<1>3. CASE Among(x, t)
  <2>1. PICK i \in 1 .. Len(t) : t[i] = x
    BY <1>1, <1>3 DEF Among
  <2>2. i + Len(s) \in 1 .. (Len(s) + Len(t)) /\ ~(i + Len(s) <= Len(s)) /\ (i + Len(s)) - Len(s) = i
    BY <1>1, <2>1
  <2>3. both[i + Len(s)] = x
    BY <1>1, <2>1, <2>2
  <2> QED  BY <1>1, <2>2, <2>3 DEF Among, both
<1> QED  BY <1>2, <1>3

\* A change told alone is told.
LEMMA AmongOne == \A x : Among(x, <<x>>)
BY DEF Among

\* SetToSeq leaves nothing out.
LEMMA AmongAll ==
    ASSUME NEW T, IsFiniteSet(T)
    PROVE  SetToSeq(T) \in Seq(T) /\ \A x \in T : Among(x, SetToSeq(T))
<1> DEFINE n == Cardinality(T)
           seq == SetToSeq(T)
<1>1. n \in Nat /\ ExistsBijection(1 .. n, T)
  BY FS_CardinalityType
<1>2. \E f \in [1 .. n -> T] : IsInjective(f)
  BY <1>1 DEF ExistsBijection, Bijection, Injection
<1>3. seq \in [1 .. n -> T] /\ IsInjective(seq)
  BY <1>2 DEF SetToSeq
<1>4. seq \in Injection(1 .. n, T)
  BY <1>3 DEF Injection
<1>5. Cardinality(1 .. n) = n
  <2>1. 1 \in Int /\ n \in Int
    BY <1>1
  <2>2. Cardinality(1 .. n) = IF 1 > n THEN 0 ELSE n - 1 + 1
    BY <2>1, FS_Interval
  <2> QED  BY <1>1, <2>2
<1> HIDE DEF seq
<1>6. seq \in Surjection(1 .. n, T)
  BY <1>4, <1>5, FS_Injection
<1>7. \A x \in T : \E i \in 1 .. n : seq[i] = x
  BY <1>6 DEF Surjection
<1>8. seq \in Seq(T)
  BY <1>1, <1>3
<1> QED  BY <1>3, <1>7, <1>8 DEF Among, seq

\* What the operations about variables tell, and destroy()
Telling ==
    [kind : {"VARIABLE_ADDED", "VARIABLE_REMOVED", "REGISTRY_REMOVED", "CLEARED"},
     target : Registry \cup Variable \cup {None}, to : SUBSET Registry]

\* Whoever is above hears of what is told.
LEMMA ToldIsHeard ==
    \A kind, target, r, p : Among(Change(kind, target, r, p), told') =>
        \A s \in Ancestors(p, r) \cap listening : Heard(kind, target, s)
BY DEF Change, Among, Heard

\* A variable that leaves a registry for another, as the callers tell of it
LEMMA MovesAreTold ==
    ASSUME Inv, NEW v \in Variable, NEW s \in Registry \cup {None}, s # registry[v],
           variables' = Transferred(v, registry[v], s),
           NEW r \in Registry, NEW u \in Variable
    PROVE  /\ IsListed(r, u) /\ u \notin ToSet(variables'[r]) => u = v /\ r = registry[v]
           /\ ~IsListed(r, u) /\ u \in ToSet(variables'[r]) => u = v /\ r = s
<1>1. r # None /\ variables[r] \in Seq(Variable) /\ IsInjective(variables[r])
  BY RegistryAssumption DEF Inv, ListsInv
<1>2. IsListed(r, u) <=> u \in ToSet(variables[r])
  BY <1>1 DEF IsListed
<1>3. CASE r = s
  <2>1. ~IsListed(r, v)
    BY <1>1, <1>3, ListedIsOwned DEF IsListed
  <2>2. variables'[r] = Append(variables[r], v)
    BY <1>3, <2>1 DEF Transferred
  <2>3. ToSet(variables'[r]) = ToSet(variables[r]) \cup {v}
    BY <1>1, <2>2, AppendToSet
  <2> QED  BY <1>2, <1>3, <2>3
<1>4. CASE r # s /\ r = registry[v]
  <2>1. variables'[r] = Without(variables[r], v)
    BY <1>4 DEF Transferred
  <2>2. ToSet(variables'[r]) = ToSet(variables[r]) \ {v}
    BY <1>1, <2>1, WithoutProperties
  <2> QED  BY <1>2, <1>4, <2>2
<1>5. CASE r # s /\ r # registry[v]
  <2>1. variables'[r] = variables[r]
    BY <1>5 DEF Transferred
  <2> QED  BY <1>2, <2>1
<1> QED  BY <1>3, <1>4, <1>5

\* What a listener at s hears of u in r.
Told(r, u, s) ==
    /\ IsListed(r, u) /\ u \notin ToSet(variables'[r]) =>
          \/ Heard("VARIABLE_REMOVED", u, s)
          \/ \E c \in (Ancestors(parent, r) \cap Subtree(s)) \ {s} : Heard("REGISTRY_REMOVED", c, s)
    /\ ~IsListed(r, u) /\ u \in ToSet(variables'[r]) => Heard("VARIABLE_ADDED", u, s)

\* A call that changes no list of variables owes nothing to the listeners.
LEMMA NothingToTell ==
    ASSUME Inv, UNCHANGED variables, NEW r \in Registry, NEW u, NEW s
    PROVE  Told(r, u, s)
BY RegistryAssumption DEF Told, IsListed

\* addVariable tells the listeners above the registry the variable comes to, and those above
\* the one it leaves.
LEMMA AddVariableTells ==
    ASSUME Inv, NEW x \in Registry, NEW v \in Variable, addVariable(x, v),
           NEW r \in Registry, NEW u \in Variable, NEW s \in Ancestors(parent, r) \cap listening
    PROVE  Told(r, u, s)
<1> DEFINE removed == Change("VARIABLE_REMOVED", v, registry[v], parent)
           added == Change("VARIABLE_ADDED", v, x, parent)
           first == IF IsListed(registry[v], v) THEN <<removed, removed>> ELSE <<>>
<1>1. x # registry[v] /\ variables' = Transferred(v, registry[v], x)
  BY ListedIsOwned DEF addVariable, NameTaken
<1>2. told' = first \o <<added>>
  BY DEF addVariable, RemovedTwice
<1>3. listening \subseteq Registry
  BY DEF Inv
<1>4. removed \in Telling /\ added \in Telling
  BY <1>3 DEF Change, Telling
<1>5. first \in Seq(Telling) /\ <<added>> \in Seq(Telling)
  <2> HIDE DEF removed, added
  <2> QED  BY <1>4
<1>6. Among(added, told')
  <2> HIDE DEF first, added
  <2> QED  BY <1>2, <1>5, AmongBoth, AmongOne
<1>7. IsListed(registry[v], v) => Among(removed, told')
  <2> SUFFICES ASSUME IsListed(registry[v], v)
               PROVE  Among(removed, told')
    OBVIOUS
  <2>1. Among(removed, first)
    <3> HIDE DEF removed
    <3> QED  BY DEF Among
  <2> HIDE DEF first, added, removed
  <2> QED  BY <1>2, <1>5, <2>1, AmongBoth
<1>8. ASSUME IsListed(r, u), u \notin ToSet(variables'[r])
      PROVE  Heard("VARIABLE_REMOVED", u, s)
  <2>1. u = v /\ r = registry[v]
    BY <1>1, <1>8, MovesAreTold
  <2> QED  BY <1>3, <1>7, <1>8, <2>1, ToldIsHeard
<1>9. ASSUME ~IsListed(r, u), u \in ToSet(variables'[r])
      PROVE  Heard("VARIABLE_ADDED", u, s)
  <2>1. u = v /\ r = x
    BY <1>1, <1>9, MovesAreTold
  <2> QED  BY <1>3, <1>6, <2>1, ToldIsHeard
<1> QED  BY <1>8, <1>9 DEF Told

\* removeVariable tells every listener above the registry.
LEMMA RemoveVariableTells ==
    ASSUME Inv, NEW x \in Registry, NEW v \in Variable, removeVariable(x, v),
           NEW r \in Registry, NEW u \in Variable, NEW s \in Ancestors(parent, r) \cap listening
    PROVE  Told(r, u, s)
<1> DEFINE removed == Change("VARIABLE_REMOVED", v, x, parent)
<1>1. /\ registry[v] = x /\ None # registry[v] /\ variables' = Transferred(v, registry[v], None)
      /\ r # None
  BY ListedIsOwned, RegistryAssumption DEF removeVariable, IsListed
<1>2. told' = <<removed, removed>>
  BY <1>1 DEF removeVariable, RemovedTwice
<1>3. Among(removed, told')
  <2> HIDE DEF removed
  <2> QED  BY <1>2 DEF Among
<1>4. listening \subseteq Registry
  BY DEF Inv
<1>5. ASSUME IsListed(r, u), u \notin ToSet(variables'[r])
      PROVE  Heard("VARIABLE_REMOVED", u, s)
  <2>1. u = v /\ r = x
    BY <1>1, <1>5, MovesAreTold
  <2> QED  BY <1>3, <1>4, <2>1, ToldIsHeard
<1>6. ~(~IsListed(r, u) /\ u \in ToSet(variables'[r]))
  BY <1>1, MovesAreTold
<1> QED  BY <1>5, <1>6 DEF Told

\* So does setRegistry, by the calls to addVariable and removeVariable inside of it.
LEMMA SetRegistryTells ==
    ASSUME Inv, NEW v \in Variable, NEW x \in Registry \cup {None}, setRegistry(v, x),
           NEW r \in Registry, NEW u \in Variable, NEW s \in Ancestors(parent, r) \cap listening
    PROVE  Told(r, u, s)
<1> DEFINE removed == Change("VARIABLE_REMOVED", v, registry[v], parent)
           added == Change("VARIABLE_ADDED", v, x, parent)
           first == IF IsListed(registry[v], v) THEN <<removed>> ELSE <<>>
           second == IF x = None THEN <<>> ELSE <<added>>
<1>1. x # registry[v] /\ variables' = Transferred(v, registry[v], x) /\ r # None
  BY RegistryAssumption DEF setRegistry
<1>2. told' = first \o second
  BY DEF setRegistry, Detached
<1>3. listening \subseteq Registry
  BY DEF Inv
<1>4. removed \in Telling /\ added \in Telling
  BY <1>3 DEF Change, Telling
<1>5. first \in Seq(Telling) /\ second \in Seq(Telling)
  <2> HIDE DEF removed, added
  <2> QED  BY <1>4
<1>6. x # None => Among(added, told')
  <2>1. x # None => Among(added, second)
    <3> HIDE DEF added
    <3> QED  BY AmongOne
  <2> HIDE DEF first, second, added
  <2> QED  BY <1>2, <1>5, <2>1, AmongBoth
<1>7. IsListed(registry[v], v) => Among(removed, told')
  <2>1. IsListed(registry[v], v) => Among(removed, first)
    <3> HIDE DEF removed
    <3> QED  BY AmongOne
  <2> HIDE DEF first, second, removed
  <2> QED  BY <1>2, <1>5, <2>1, AmongBoth
<1>8. ASSUME IsListed(r, u), u \notin ToSet(variables'[r])
      PROVE  Heard("VARIABLE_REMOVED", u, s)
  <2>1. u = v /\ r = registry[v]
    BY <1>1, <1>8, MovesAreTold
  <2> QED  BY <1>3, <1>7, <1>8, <2>1, ToldIsHeard
<1>9. ASSUME ~IsListed(r, u), u \in ToSet(variables'[r])
      PROVE  Heard("VARIABLE_ADDED", u, s)
  <2>1. u = v /\ r = x
    BY <1>1, <1>9, MovesAreTold
  <2> QED  BY <1>1, <1>3, <1>6, <2>1, ToldIsHeard
<1> QED  BY <1>8, <1>9 DEF Told

\* The listeners above a registry that goes hear of it, its own of its variables.
LEMMA DestroyTells ==
    ASSUME Inv, NEW x \in Registry, LeavesNothing(x), destroy(x),
           NEW r \in Registry, NEW u \in Variable, NEW s \in Ancestors(parent, r) \cap listening
    PROVE  Told(r, u, s)
<1> DEFINE gone == Change("REGISTRY_REMOVED", x, parent[x], parent)
           p == ParentWithout(x)
           T == {Change("VARIABLE_REMOVED", v, x, p) : v \in ToSet(variables[x])}
           first == IF parent[x] = None THEN <<>> ELSE <<gone>>
           second == SetToSeq(T)
           last == <<Change("CLEARED", None, x, p)>>
<1>1. /\ parent \in Pointers /\ listening \subseteq Registry /\ TreeInv
      /\ variables \in [Registry -> Seq(Variable)]
  BY DEF Inv, TreeInv, ListsInv
<1>2. Subtree(x) = {x} /\ Skipped(variables[x]) = {}
  BY <1>1, NothingBelow DEF LeavesNothing
<1>3. variables' = [y \in Registry |-> IF y = x THEN <<>> ELSE variables[y]]
  BY <1>2 DEF destroy, Emptied
<1>4. told' = first \o second \o last
  <2>1. ToldOfStriking(x, {x}) = second
    BY <1>2 DEF ToldOfStriking
  <2> HIDE DEF second
  <2> QED  BY <1>2, <2>1 DEF destroy, ToldOfDetaching
<1>5. IsFiniteSet(T)
  <2> DEFINE list == variables[x]
             f == [i \in 1 .. Len(list) |-> Change("VARIABLE_REMOVED", list[i], x, p)]
  <2>1. list \in Seq(Variable) /\ Len(list) \in Nat /\ ToSet(list) = {list[i] : i \in 1 .. Len(list)}
    BY <1>1 DEF ToSet
  <2>2. f \in Surjection(1 .. Len(list), T)
    <3> HIDE DEF list, p
    <3> QED  BY <2>1 DEF Surjection, list
  <2>3. IsFiniteSet(1 .. Len(list))
    <3>1. 1 \in Int /\ Len(list) \in Int
      BY <2>1
    <3> QED  BY <3>1, FS_Interval
  <2> HIDE DEF f, T
  <2> QED  BY <2>2, <2>3, FS_Surjection
<1>6. /\ T \in SUBSET Telling /\ gone \in Telling /\ Change("CLEARED", None, x, p) \in Telling
  <2>1. \A v \in ToSet(variables[x]) : v \in Variable
    BY <1>1 DEF ToSet
  <2> HIDE DEF p
  <2> QED  BY <1>1, <2>1 DEF Change, Telling
<1>7. first \in Seq(Telling) /\ second \in Seq(Telling) /\ last \in Seq(Telling)
  <2> HIDE DEF T, gone, p
  <2>1. second \in Seq(T)
    BY <1>5, AmongAll
  <2>2. second \in Seq(Telling)
    <3> HIDE DEF second
    <3> QED  BY <1>6, <2>1, SeqMonotonic
  <2> HIDE DEF second
  <2> QED  BY <1>6, <2>2
<1>8. /\ parent[x] # None => Among(gone, told')
      /\ \A y \in T : Among(y, told')
  <2>1. parent[x] # None => Among(gone, first)
    <3> HIDE DEF gone
    <3> QED  BY AmongOne
  <2>2. \A y \in T : Among(y, second)
    <3> HIDE DEF T
    <3> QED  BY <1>5, AmongAll
  <2> HIDE DEF first, second, last, T, gone
  <2> DEFINE both == first \o second
  <2>3. both \in Seq(Telling) /\ told' = both \o last
    BY <1>4, <1>7, ConcatProperties
  <2>4. parent[x] # None => Among(gone, both)
    BY <1>7, <2>1, AmongBoth
  <2>5. \A y \in T : Among(y, both)
    BY <1>7, <2>2, AmongBoth
  <2> HIDE DEF both
  <2> QED  BY <1>7, <2>3, <2>4, <2>5, AmongBoth
<1>9. ASSUME IsListed(r, u), u \notin ToSet(variables'[r])
      PROVE  \/ Heard("VARIABLE_REMOVED", u, s)
             \/ \E c \in (Ancestors(parent, r) \cap Subtree(s)) \ {s} : Heard("REGISTRY_REMOVED", c, s)
  <2>1. r = x /\ u \in ToSet(variables[x])
    BY <1>3, <1>9 DEF IsListed
  <2>2. CASE s = x
    <3>1. p \in Pointers /\ x \in Ancestors(p, x)
      <4>1. p \in Pointers
        BY <1>1 DEF ParentWithout, Pointers
      <4> QED  BY <4>1, AncestorsStart
    <3>2. Among(Change("VARIABLE_REMOVED", u, x, p), told')
      BY <1>8, <2>1
    <3> HIDE DEF p
    <3> QED  BY <1>1, <2>2, <3>1, <3>2, ToldIsHeard
  <2>3. CASE s # x
    <3>1. parent[x] # None /\ s \in Ancestors(parent, parent[x]) \cap listening
      BY <1>1, <2>1, <2>3, AncestorsUnfold
    <3>2. Heard("REGISTRY_REMOVED", x, s)
      BY <1>1, <1>8, <3>1, ToldIsHeard
    <3>3. x \in Ancestors(parent, r) /\ x \in Subtree(s)
      <4>1. s \in Registry /\ s \in Ancestors(parent, x)
        BY <1>1, <2>1
      <4> QED  BY <1>1, <2>1, <4>1, AncestorsStart, SubtreeInTree DEF Below
    <3> QED  BY <2>3, <3>2, <3>3
  <2> QED  BY <2>2, <2>3
<1>10. ~(~IsListed(r, u) /\ u \in ToSet(variables'[r]))
  BY <1>3, EmptyToSet, RegistryAssumption DEF IsListed
<1> QED  BY <1>9, <1>10 DEF Told

\* Whatever is called, no listener above a changed list goes without the change.
LEMMA NextTells ==
    ASSUME Inv, Next, NEW r \in Registry, NEW u \in Variable,
           NEW s \in Ancestors(parent, r) \cap listening
    PROVE  Told(r, u, s)
<1>1. CASE \E x \in Registry, v \in Variable : addVariable(x, v) \/ removeVariable(x, v)
  BY <1>1, AddVariableTells, RemoveVariableTells
<1>2. CASE \E v \in Variable, x \in Registry \cup {None} : setRegistry(v, x)
  BY <1>2, SetRegistryTells
<1>3. CASE \E x \in Registry : LeavesNothing(x) /\ destroy(x)
  BY <1>3, DestroyTells
<1>4. CASE \E v \in Variable : getFullName(v)
  BY <1>4, NothingToTell DEF getFullName
<1>5. CASE \E x, c \in Registry : removeChild(x, c) \/ \E notify \in BOOLEAN : addChild(x, c, notify)
  BY <1>5, NothingToTell DEF removeChild, addChild
<1>6. CASE \E x \in Registry : \/ detachFromParent(x) \/ addListener(x) \/ removeListeners(x)
                                \/ \E newLevel \in Level : setRestrictionLevel(x, newLevel)
  BY <1>6, NothingToTell DEF detachFromParent, removeChild, addListener, removeListeners,
                             setRestrictionLevel, contents
<1> QED  BY <1>1, <1>2, <1>3, <1>4, <1>5, <1>6 DEF Next, Succeed

\* A listener of a registry, or of one above it, hears of every variable that
\* comes or goes, whichever of the two objects was called.
THEOREM ListenersHearOfVariables == Spec => VariablesAreTold
<1>1. ASSUME Inv, Next, NEW r \in Registry, NEW v \in Variable,
             NEW s \in Ancestors(parent, r) \cap listening
      PROVE  /\ IsListed(r, v) /\ v \notin ToSet(variables'[r]) =>
                   \/ Heard("VARIABLE_REMOVED", v, s)
                   \/ \E c \in (Ancestors(parent, r) \cap Subtree(s)) \ {s} : Heard("REGISTRY_REMOVED", c, s)
             /\ ~IsListed(r, v) /\ v \in ToSet(variables'[r]) => Heard("VARIABLE_ADDED", v, s)
  BY <1>1, NextTells DEF Told
<1>2. Inv /\ [Next]_vars =>
          [\A r \in Registry, v \in Variable : \A s \in Ancestors(parent, r) \cap listening :
             /\ IsListed(r, v) /\ v \notin ToSet(variables'[r]) =>
                   \/ Heard("VARIABLE_REMOVED", v, s)
                   \/ \E c \in (Ancestors(parent, r) \cap Subtree(s)) \ {s} : Heard("REGISTRY_REMOVED", c, s)
             /\ ~IsListed(r, v) /\ v \in ToSet(variables'[r]) => Heard("VARIABLE_ADDED", v, s)]_vars
  BY <1>1
<1> QED  BY <1>2, InvAlways, PTL DEF Spec, VariablesAreTold
=============================================================================
