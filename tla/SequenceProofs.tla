--------------------------- MODULE SequenceProofs ---------------------------
(***************************************************************************)
(* What the proofs about the other modules need of numbers and sequences:  *)
(* least elements and induction, stated of sets and not of predicates, so  *)
(* that a proof can instantiate them; functions defined by recursion over  *)
(* 0 .. n; what inserting into, removing from and erasing from a sequence  *)
(* leaves; and what the operators of KeyPoints return.                     *)
(***************************************************************************)
EXTENDS KeyPoints, WellFoundedInduction, SequenceTheorems, TLAPS

(* Numbers *)

\* A set of natural numbers that is not empty has a least element.
LEMMA LeastElement ==
    ASSUME NEW T \in SUBSET Nat, T # {}
    PROVE  \E x \in T : \A y \in T : x <= y
<1> DEFINE R == OpToRel(<, Nat)
<1>1. IsWellFoundedOn(R, Nat)
  BY NatLessThanWellFounded
<1>2. \A x, y \in Nat : ~(<<y, x>> \in R) => x <= y
  BY DEF OpToRel
<1> HIDE DEF R
<1>3. \E x \in T : \A y \in T : ~(<<y, x>> \in R)
  BY <1>1, WFMin
<1>4. PICK x \in T : \A y \in T : ~(<<y, x>> \in R)
  BY <1>3
<1>5. \A y \in T : x <= y
  BY <1>2, <1>4
<1> QED  BY <1>5

\* And one that is bounded has a greatest.
LEMMA GreatestElement ==
    ASSUME NEW n \in Nat, NEW T \in SUBSET (0 .. n), T # {}
    PROVE  \E x \in T : \A y \in T : y <= x
<1> DEFINE U == {n - x : x \in T}
<1>1. U \in SUBSET Nat /\ U # {}
  <2>1. \A x \in T : n - x \in Nat
    OBVIOUS
  <2>2. PICK x \in T : TRUE
    OBVIOUS
  <2>3. n - x \in U
    BY <2>2
  <2> QED  BY <2>1, <2>3
<1>2. PICK u \in U : \A w \in U : u <= w
  BY <1>1, LeastElement
<1>3. PICK x \in T : u = n - x
  BY <1>2
<1>4. \A y \in T : n - y \in U
  OBVIOUS
<1>5. \A y \in T : n - x <= n - y
  BY <1>2, <1>3, <1>4
<1> QED  BY <1>5

\* What Min and Max choose.
LEMMA MinIsLeast ==
    ASSUME NEW T \in SUBSET Nat, T # {}
    PROVE  Min(T) \in T /\ \A y \in T : Min(T) <= y
BY LeastElement DEF Min

\* A non-empty set of numbers up to n has a greatest one, and Max is it.
LEMMA MaxIsGreatest ==
    ASSUME NEW n \in Nat, NEW T \in SUBSET (0 .. n), T # {}
    PROVE  Max(T) \in T /\ \A y \in T : y <= Max(T)
<1>1. \E x \in T : \A y \in T : x >= y
  BY GreatestElement
<1>2. Max(T) \in T /\ \A y \in T : Max(T) >= y
  BY <1>1 DEF Max
<1> QED  BY <1>2

\* A set that holds 0, and the successor of each of its numbers, holds them all.
LEMMA InductionUpTo ==
    ASSUME NEW n \in Nat, NEW T, 0 \in T,
           \A i \in 0 .. n : i < n /\ i \in T => i + 1 \in T
    PROVE  \A i \in 0 .. n : i \in T
<1> SUFFICES ASSUME NEW k \in 0 .. n, k \notin T
             PROVE  FALSE
  OBVIOUS
<1> DEFINE U == {i \in 0 .. n : i \notin T}
<1>1. U \in SUBSET Nat /\ U # {}
  OBVIOUS
<1>2. PICK x \in U : \A y \in U : x <= y
  BY <1>1, LeastElement
<1>3. x # 0
  BY <1>2
<1>4. x - 1 \in 0 .. n /\ x - 1 < n /\ x - 1 \notin U
  BY <1>2, <1>3
<1>5. (x - 1) + 1 \in T
  BY <1>4
<1> QED  BY <1>2, <1>5

\* A recursion over 0 .. n: the value at 0, and what turns a value into the next.
\* (A definition of its own, so that the lemma can be instantiated.)
Follows(f, n, S, base, step) ==
    f \in [0 .. n -> S] /\ f[0] = base /\ \A i \in 1 .. n : f[i] = step[i][f[i - 1]]

\* There is a function that satisfies it.
LEMMA RecursionUpTo ==
    ASSUME NEW n \in Nat, NEW S, NEW base \in S, NEW step \in [1 .. n -> [S -> S]]
    PROVE  \E f : Follows(f, n, S, base, step)
<1> DEFINE Solves(f, k) == f[0] = base /\ \A i \in 1 .. k : f[i] = step[i][f[i - 1]]
           T == {k \in 0 .. n : \E f \in [0 .. k -> S] : Solves(f, k)}
<1>1. 0 \in T
  <2> DEFINE f == [i \in 0 .. 0 |-> base]
  <2>1. f \in [0 .. 0 -> S] /\ Solves(f, 0)
    OBVIOUS
  <2>2. \E g \in [0 .. 0 -> S] : Solves(g, 0)
    <3> HIDE DEF f, Solves
    <3> QED  BY <2>1
  <2> QED  BY <2>2
<1>2. ASSUME NEW k \in 0 .. n, k < n, k \in T
      PROVE  k + 1 \in T
  <2>1. PICK f \in [0 .. k -> S] : Solves(f, k)
    BY <1>2
  <2> DEFINE next == step[k + 1][f[k]]
             g == [i \in 0 .. (k + 1) |-> IF i <= k THEN f[i] ELSE next]
  <2>2. next \in S
    <3>1. f[k] \in S /\ k + 1 \in 1 .. n
      BY <1>2
    <3> QED  BY <3>1
  <2>3. g \in [0 .. (k + 1) -> S] /\ g[0] = base
    <3> HIDE DEF next
    <3> QED  BY <2>1, <2>2
  <2>4. ASSUME NEW i \in 1 .. (k + 1)
        PROVE  g[i] = step[i][g[i - 1]]
    <3>1. CASE i <= k
      <4>1. g[i] = f[i] /\ g[i - 1] = f[i - 1]
        BY <3>1
      <4> QED  BY <2>1, <3>1, <4>1
    <3>2. CASE i = k + 1
      <4>1. g[i] = next /\ g[i - 1] = f[k]
        BY <3>2
      <4> QED  BY <3>2, <4>1
    <3> QED  BY <3>1, <3>2
  <2>5. Solves(g, k + 1)
    BY <2>3, <2>4
  <2> HIDE DEF g, Solves
  <2> QED  BY <2>3, <2>5, <1>2
<1>3. n \in T
  <2> HIDE DEF T
  <2>1. \A i \in 0 .. n : i \in T
    BY <1>1, <1>2, InductionUpTo
  <2> QED  BY <2>1
<1> QED  BY <1>3 DEF Follows
-----------------------------------------------------------------------------
(* Inserting into a sequence and removing from it *)

\* push_back adds the element to what a vector holds, and nothing else.
LEMMA AppendToSet ==
    ASSUME NEW S, NEW seq \in Seq(S), NEW x \in S
    PROVE  ToSet(Append(seq, x)) = ToSet(seq) \cup {x}
<1> DEFINE new == Append(seq, x)
           N == Len(seq)
<1>1. /\ N \in Nat /\ DOMAIN seq = 1 .. N /\ DOMAIN new = 1 .. (N + 1)
      /\ \A i \in 1 .. N : new[i] = seq[i]
      /\ new[N + 1] = x
  BY AppendProperties
<1>2. N + 1 \in 1 .. (N + 1) /\ \A i \in 1 .. (N + 1) : i = N + 1 \/ i \in 1 .. N
  BY <1>1
<1> HIDE DEF new, N
<1> QED  BY <1>1, <1>2 DEF ToSet, new

\* A new vector holds nothing.
LEMMA EmptyToSet == ToSet(<<>>) = {}
BY DEF ToSet

\* new is seq with x at p and what was there and after it moved up.
IsInsertion(new, seq, p, x) ==
    /\ Len(new) = Len(seq) + 1
    /\ \A i \in 1 .. (Len(seq) + 1) :
          new[i] = IF i < p THEN seq[i] ELSE IF i = p THEN x ELSE seq[i - 1]

\* insert at an iterator moves what is at it and behind it up by one place.
LEMMA InsertAtProperties ==
    ASSUME NEW S, NEW seq \in Seq(S), NEW p \in 1 .. (Len(seq) + 1), NEW x \in S
    PROVE  InsertAt(seq, p, x) \in Seq(S) /\ IsInsertion(InsertAt(seq, p, x), seq, p, x)
<1> DEFINE front == SubSeq(seq, 1, p - 1)
           back == SubSeq(seq, p, Len(seq))
<1>1. /\ front \in Seq(S) /\ Len(front) = p - 1
      /\ \A i \in 1 .. (p - 1) : front[i] = seq[i]
  OBVIOUS
<1>2. /\ back \in Seq(S) /\ Len(back) = Len(seq) - p + 1
      /\ \A i \in 1 .. (Len(seq) - p + 1) : back[i] = seq[p + i - 1]
  OBVIOUS
<1>3. InsertAt(seq, p, x) = front \o <<x>> \o back
  BY DEF InsertAt
<1> HIDE DEF front, back
<1>4. <<x>> \in Seq(S) /\ Len(<<x>>) = 1 /\ <<x>>[1] = x
  OBVIOUS
<1> DEFINE f == front \o <<x>>
<1>5. /\ f \in Seq(S) /\ Len(f) = p
      /\ \A i \in 1 .. p : f[i] = IF i <= p - 1 THEN front[i] ELSE <<x>>[i - (p - 1)]
  BY <1>1, <1>4, ConcatProperties
<1> HIDE DEF f
<1> DEFINE cat == f \o back
<1>6. /\ cat \in Seq(S) /\ Len(cat) = Len(seq) + 1
      /\ \A i \in 1 .. (Len(seq) + 1) : cat[i] = IF i <= p THEN f[i] ELSE back[i - p]
  <2>1. /\ cat \in Seq(S) /\ Len(cat) = Len(f) + Len(back)
        /\ \A i \in 1 .. (Len(f) + Len(back)) :
              cat[i] = IF i <= Len(f) THEN f[i] ELSE back[i - Len(f)]
    BY <1>2, <1>5, ConcatProperties
  <2>2. Len(f) = p /\ Len(f) + Len(back) = Len(seq) + 1
    BY <1>2, <1>5
  <2> HIDE DEF cat
  <2> QED  BY <2>1, <2>2
<1>7. InsertAt(seq, p, x) = cat
  BY <1>3 DEF f
<1> HIDE DEF cat
<1>8. ASSUME NEW i \in 1 .. (Len(seq) + 1)
      PROVE  cat[i] = IF i < p THEN seq[i] ELSE IF i = p THEN x ELSE seq[i - 1]
  <2>1. CASE i < p
    BY <1>1, <1>5, <1>6, <2>1
  <2>2. CASE i = p
    BY <1>4, <1>5, <1>6, <2>2
  <2>3. CASE i > p
    <3>1. i - p \in 1 .. (Len(seq) - p + 1) /\ p + (i - p) - 1 = i - 1
      BY <2>3
    <3>2. back[i - p] = seq[i - 1]
      BY <1>2, <3>1
    <3> QED  BY <1>6, <2>3, <3>2
  <2> QED  BY <2>1, <2>2, <2>3
<1> QED  BY <1>6, <1>7, <1>8 DEF IsInsertion

\* erase at an iterator moves what is behind it down by one place.
LEMMA RemoveAtProperties ==
    ASSUME NEW S, NEW seq \in Seq(S), NEW p \in 1 .. Len(seq)
    PROVE  /\ RemoveAt(seq, p) \in Seq(S)
           /\ Len(RemoveAt(seq, p)) = Len(seq) - 1
           /\ \A i \in 1 .. (Len(seq) - 1) :
                 RemoveAt(seq, p)[i] = IF i < p THEN seq[i] ELSE seq[i + 1]
<1> DEFINE front == SubSeq(seq, 1, p - 1)
           back == SubSeq(seq, p + 1, Len(seq))
<1>1. /\ front \in Seq(S) /\ Len(front) = p - 1
      /\ \A i \in 1 .. (p - 1) : front[i] = seq[i]
  OBVIOUS
<1>2. /\ back \in Seq(S) /\ Len(back) = Len(seq) - p
      /\ \A i \in 1 .. (Len(seq) - p) : back[i] = seq[p + i]
  OBVIOUS
<1>3. RemoveAt(seq, p) = front \o back
  BY DEF RemoveAt
<1> HIDE DEF front, back
<1> DEFINE cat == front \o back
<1>4. /\ cat \in Seq(S) /\ Len(cat) = Len(seq) - 1
      /\ \A i \in 1 .. (Len(seq) - 1) :
            cat[i] = IF i <= p - 1 THEN front[i] ELSE back[i - (p - 1)]
  <2>1. /\ cat \in Seq(S) /\ Len(cat) = Len(front) + Len(back)
        /\ \A i \in 1 .. (Len(front) + Len(back)) :
              cat[i] = IF i <= Len(front) THEN front[i] ELSE back[i - Len(front)]
    BY <1>1, <1>2, ConcatProperties
  <2>2. Len(front) = p - 1 /\ Len(front) + Len(back) = Len(seq) - 1
    BY <1>1, <1>2
  <2> HIDE DEF cat
  <2> QED  BY <2>1, <2>2
<1>5. ASSUME NEW i \in 1 .. (Len(seq) - 1)
      PROVE  cat[i] = IF i < p THEN seq[i] ELSE seq[i + 1]
  <2>1. CASE i < p
    BY <1>1, <1>4, <2>1
  <2>2. CASE ~(i < p)
    <3>1. i - (p - 1) \in 1 .. (Len(seq) - p) /\ p + (i - (p - 1)) = i + 1
      BY <2>2
    <3>2. back[i - (p - 1)] = seq[i + 1]
      BY <1>2, <3>1
    <3> QED  BY <1>4, <2>2, <3>2
  <2> QED  BY <2>1, <2>2
<1> QED  BY <1>3, <1>4, <1>5

\* What is left when the first of the equal elements goes.
LEMMA RemoveFirstProperties ==
    ASSUME NEW S, NEW seq \in Seq(S), NEW x
    PROVE  /\ RemoveFirst(seq, x) \in Seq(S)
           /\ ToSet(RemoveFirst(seq, x)) \subseteq ToSet(seq)
<1> DEFINE T == {i \in 1 .. Len(seq) : seq[i] = x}
           new == RemoveFirst(seq, x)
<1>1. CASE T = {}
  <2>1. new = seq
    BY <1>1 DEF RemoveFirst
  <2> QED  BY <2>1
<1>2. CASE T # {}
  <2>1. new = RemoveAt(seq, Min(T))
    BY <1>2 DEF RemoveFirst, SelectInSeq
  <2>2. T \in SUBSET Nat
    OBVIOUS
  <2>3. Min(T) \in 1 .. Len(seq)
    <3>1. Min(T) \in T
      BY <1>2, <2>2, MinIsLeast
    <3> QED  BY <3>1
  <2> DEFINE p == Min(T)
  <2> HIDE DEF T, p, new
  <2>4. p \in 1 .. Len(seq) /\ new = RemoveAt(seq, p)
    BY <2>1, <2>3 DEF p
  <2>5. /\ new \in Seq(S) /\ Len(new) = Len(seq) - 1
        /\ \A i \in 1 .. (Len(seq) - 1) : new[i] = IF i < p THEN seq[i] ELSE seq[i + 1]
    BY <2>4, RemoveAtProperties
  <2>6. \A i \in 1 .. Len(new) : new[i] \in ToSet(seq)
    <3> SUFFICES ASSUME NEW i \in 1 .. Len(new)
                 PROVE  new[i] \in ToSet(seq)
      OBVIOUS
    <3>1. Len(seq) \in Nat /\ \A j \in 1 .. Len(seq) : seq[j] \in ToSet(seq)
      BY DEF ToSet
    <3>2. i \in 1 .. (Len(seq) - 1)
      BY <2>5
    <3>3. i \in 1 .. Len(seq) /\ i + 1 \in 1 .. Len(seq)
      BY <3>1, <3>2
    <3>4. new[i] = seq[i] \/ new[i] = seq[i + 1]
      BY <2>5, <3>2
    <3> QED  BY <3>1, <3>3, <3>4
  <2>7. ToSet(new) \subseteq ToSet(seq)
    BY <2>5, <2>6 DEF ToSet
  <2> QED  BY <2>5, <2>7 DEF new
<1> QED  BY <1>1, <1>2
-----------------------------------------------------------------------------
(* Erasing from a sequence *)

\* What the recursion of Kept computes, from the front.
KeptSoFar(kept, S, seq, T) ==
    /\ kept \in [0 .. Len(seq) -> Seq(S)]
    /\ kept[0] = <<>>
    /\ \A n \in 1 .. Len(seq) :
          kept[n] = IF seq[n] \in T THEN Append(kept[n - 1], seq[n]) ELSE kept[n - 1]

\* The recursion of Kept is well-founded.
LEMMA KeptUnfolds ==
    ASSUME NEW S, NEW seq \in Seq(S), NEW T
    PROVE  \E kept : KeptSoFar(kept, S, seq, T) /\ Kept(seq, T) = kept[Len(seq)]
<1> DEFINE Body(f) == [n \in 0 .. Len(seq) |->
                          IF n = 0 THEN <<>>
                          ELSE IF seq[n] \in T THEN Append(f[n - 1], seq[n]) ELSE f[n - 1]]
           chosen == CHOOSE f : f = Body(f)
           step == [n \in 1 .. Len(seq) |-> [t \in Seq(S) |->
                       IF seq[n] \in T THEN Append(t, seq[n]) ELSE t]]
<1>1. Kept(seq, T) = chosen[Len(seq)]
  BY DEF Kept
<1>2. step \in [1 .. Len(seq) -> [Seq(S) -> Seq(S)]]
  <2>1. \A n \in 1 .. Len(seq), t \in Seq(S) : Append(t, seq[n]) \in Seq(S)
    BY AppendProperties
  <2> QED  BY <2>1
<1>3. PICK f \in [0 .. Len(seq) -> Seq(S)] :
          f[0] = <<>> /\ \A i \in 1 .. Len(seq) : f[i] = step[i][f[i - 1]]
  <2> HIDE DEF step, chosen
  <2>1. <<>> \in Seq(S) /\ Len(seq) \in Nat
    OBVIOUS
  <2>2. \E f : Follows(f, Len(seq), Seq(S), <<>>, step)
    BY <1>2, <2>1, RecursionUpTo
  <2> QED  BY <2>2 DEF Follows
<1>4. f = Body(f)
  <2>1. ASSUME NEW n \in 0 .. Len(seq), n # 0
        PROVE  f[n] = IF seq[n] \in T THEN Append(f[n - 1], seq[n]) ELSE f[n - 1]
    <3>1. n \in 1 .. Len(seq) /\ n - 1 \in 0 .. Len(seq)
      <4>1. Len(seq) \in Nat
        OBVIOUS
      <4> HIDE DEF Body, chosen, step
      <4> QED  BY <2>1, <4>1
    <3> QED  BY <1>3, <3>1
  <2> HIDE DEF step
  <2>2. \A n \in 0 .. Len(seq) : f[n] = Body(f)[n]
    BY <1>3, <2>1
  <2> QED  BY <1>3, <2>2
<1> HIDE DEF step
<1>5. chosen = Body(chosen)
  <2> HIDE DEF Body
  <2> QED  BY <1>4
<1> HIDE DEF chosen
<1>6. chosen[0] = <<>> /\ DOMAIN chosen = 0 .. Len(seq)
  BY <1>5
<1>7. ASSUME NEW n \in 1 .. Len(seq)
      PROVE  chosen[n] = IF seq[n] \in T THEN Append(chosen[n - 1], seq[n]) ELSE chosen[n - 1]
  <2>1. Body(chosen)[n] = IF seq[n] \in T THEN Append(chosen[n - 1], seq[n]) ELSE chosen[n - 1]
    OBVIOUS
  <2> HIDE DEF Body
  <2> QED  BY <1>5, <2>1
<1>8. \A n \in 0 .. Len(seq) : chosen[n] \in Seq(S)
  <2> DEFINE Typed == {n \in 0 .. Len(seq) : chosen[n] \in Seq(S)}
  <2>1. 0 \in Typed
    BY <1>6
  <2>2. ASSUME NEW n \in 0 .. Len(seq), n < Len(seq), n \in Typed
        PROVE  n + 1 \in Typed
    <3>1. n + 1 \in 1 .. Len(seq) /\ (n + 1) - 1 = n /\ seq[n + 1] \in S
      BY <2>2
    <3>2. chosen[n] \in Seq(S)
      BY <2>2
    <3>3. Append(chosen[n], seq[n + 1]) \in Seq(S)
      BY <3>1, <3>2, AppendProperties
    <3>4. chosen[n + 1] \in Seq(S)
      BY <1>7, <3>1, <3>2, <3>3
    <3> QED  BY <2>2, <3>4
  <2>3. Len(seq) \in Nat
    OBVIOUS
  <2> HIDE DEF Typed
  <2>4. \A n \in 0 .. Len(seq) : n \in Typed
    BY <2>1, <2>2, <2>3, InductionUpTo
  <2> QED  BY <2>4 DEF Typed
<1>9. chosen \in [0 .. Len(seq) -> Seq(S)]
  <2>1. chosen = [n \in 0 .. Len(seq) |-> chosen[n]]
    BY <1>5
  <2> QED  BY <2>1, <1>8
<1>10. KeptSoFar(chosen, S, seq, T)
  BY <1>6, <1>7, <1>9 DEF KeptSoFar
<1> QED  BY <1>1, <1>10

\* p finds the elements of part in the first n places of seq, in their order.
Places(p, part, seq, n) ==
    /\ p \in [1 .. Len(part) -> 1 .. n]
    /\ \A i, j \in 1 .. Len(part) : i < j => p[i] < p[j]
    /\ \A i \in 1 .. Len(part) : part[i] = seq[p[i]]

\* What is kept is a part of the sequence, in its order, and all of it that is
\* in the set.
LEMMA KeptProperties ==
    ASSUME NEW S, NEW seq \in Seq(S), NEW T
    PROVE  /\ Kept(seq, T) \in Seq(S)
           /\ \E p : Places(p, Kept(seq, T), seq, Len(seq))
           /\ ToSet(Kept(seq, T)) = ToSet(seq) \cap T
<1>1. PICK kept : KeptSoFar(kept, S, seq, T) /\ Kept(seq, T) = kept[Len(seq)]
  BY KeptUnfolds
<1> DEFINE Found(n) == \A m \in 1 .. n : seq[m] \in T =>
                          \E i \in 1 .. Len(kept[n]) : kept[n][i] = seq[m]
           InT(n) == \A i \in 1 .. Len(kept[n]) : kept[n][i] \in T
           Good == {n \in 0 .. Len(seq) : (\E p : Places(p, kept[n], seq, n)) /\ Found(n) /\ InT(n)}
<1>2. 0 \in Good
  <2>1. Places([i \in 1 .. 0 |-> 0], <<>>, seq, 0)
    BY DEF Places
  <2>2. Found(0) /\ InT(0) /\ kept[0] = <<>>
    BY <1>1 DEF KeptSoFar
  <2> HIDE DEF Found, InT
  <2> QED  BY <2>1, <2>2
<1>3. ASSUME NEW n \in 0 .. Len(seq), n < Len(seq), n \in Good
      PROVE  n + 1 \in Good
  <2>1. PICK p : Places(p, kept[n], seq, n)
    BY <1>3
  <2>2. /\ kept[n] \in Seq(S) /\ n + 1 \in 1 .. Len(seq) /\ (n + 1) - 1 = n
        /\ seq[n + 1] \in S
    BY <1>1, <1>3 DEF KeptSoFar
  <2>3. CASE seq[n + 1] \in T
    <3> DEFINE last == Len(kept[n]) + 1
               q == [i \in 1 .. last |-> IF i < last THEN p[i] ELSE n + 1]
    <3>1. kept[n + 1] = Append(kept[n], seq[n + 1])
      BY <1>1, <2>2, <2>3 DEF KeptSoFar
    <3>2. Len(kept[n + 1]) = last /\ kept[n + 1][last] = seq[n + 1]
      BY <2>2, <3>1
    <3>3. \A i \in 1 .. Len(kept[n]) : kept[n + 1][i] = kept[n][i]
      BY <2>2, <3>1
    <3>4. Places(q, kept[n + 1], seq, n + 1)
      <4>1. q \in [1 .. last -> 1 .. (n + 1)]
        BY <2>1, <2>2 DEF Places
      <4>2. ASSUME NEW i \in 1 .. last, NEW j \in 1 .. last, i < j
            PROVE  q[i] < q[j]
        <5>1. i \in 1 .. Len(kept[n]) /\ q[i] = p[i]
          BY <2>2, <4>2
        <5>2. CASE j = last
          <6>1. p[i] \in 1 .. n
            BY <2>1, <5>1 DEF Places
          <6>2. q[j] = n + 1
            BY <2>2, <5>2
          <6> QED  BY <5>1, <6>1, <6>2
        <5>3. CASE j # last
          <6>1. j \in 1 .. Len(kept[n]) /\ q[j] = p[j]
            BY <2>2, <5>3
          <6> QED  BY <2>1, <4>2, <5>1, <6>1 DEF Places
        <5> QED  BY <5>2, <5>3
      <4>3. ASSUME NEW i \in 1 .. last
            PROVE  kept[n + 1][i] = seq[q[i]]
        BY <2>1, <2>2, <3>2, <3>3 DEF Places
      <4> HIDE DEF q, last
      <4> QED  BY <3>2, <4>1, <4>2, <4>3 DEF Places
    <3>5. Found(n + 1)
      <4> SUFFICES ASSUME NEW m \in 1 .. (n + 1), seq[m] \in T
                   PROVE  \E i \in 1 .. last : kept[n + 1][i] = seq[m]
        BY <3>2
      <4>1. CASE m = n + 1
        BY <2>2, <3>2, <4>1
      <4>2. CASE m \in 1 .. n
        <5>1. PICK i \in 1 .. Len(kept[n]) : kept[n][i] = seq[m]
          BY <1>3, <4>2
        <5> QED  BY <2>2, <3>3, <5>1
      <4> QED  BY <4>1, <4>2
    <3>6. InT(n + 1)
      <4>1. InT(n)
        BY <1>3
      <4>2. \A i \in 1 .. last : i = last \/ i \in 1 .. Len(kept[n])
        BY <2>2
      <4> QED  BY <2>3, <3>2, <3>3, <4>1, <4>2
    <3> HIDE DEF Found, InT, q
    <3> QED  BY <2>2, <3>4, <3>5, <3>6
  <2>4. CASE seq[n + 1] \notin T
    <3>1. kept[n + 1] = kept[n]
      BY <1>1, <2>2, <2>4 DEF KeptSoFar
    <3>2. Places(p, kept[n + 1], seq, n + 1)
      BY <2>1, <2>2, <3>1 DEF Places
    <3>3. Found(n + 1) /\ InT(n + 1)
      BY <1>3, <2>4, <3>1
    <3> HIDE DEF Found, InT
    <3> QED  BY <2>2, <3>2, <3>3
  <2> QED  BY <2>3, <2>4
<1>4. Len(seq) \in Good
  <2> HIDE DEF Good
  <2>1. Len(seq) \in Nat
    OBVIOUS
  <2>2. \A n \in 0 .. Len(seq) : n \in Good
    BY <1>2, <1>3, <2>1, InductionUpTo
  <2> QED  BY <2>1, <2>2
<1>5. PICK p : Places(p, Kept(seq, T), seq, Len(seq))
  BY <1>1, <1>4
<1>6. Kept(seq, T) \in Seq(S)
  BY <1>1 DEF KeptSoFar
<1>7. \A m \in 1 .. Len(seq) : seq[m] \in T =>
          \E i \in 1 .. Len(Kept(seq, T)) : Kept(seq, T)[i] = seq[m]
  BY <1>1, <1>4
<1>8. \A i \in 1 .. Len(Kept(seq, T)) : Kept(seq, T)[i] \in T
  BY <1>1, <1>4
<1>9. ToSet(Kept(seq, T)) = ToSet(seq) \cap T
  <2>1. ASSUME NEW x \in ToSet(Kept(seq, T))
        PROVE  x \in ToSet(seq) \cap T
    <3>1. PICK i \in 1 .. Len(Kept(seq, T)) : x = Kept(seq, T)[i]
      BY <1>6, <2>1 DEF ToSet
    <3>2. x = seq[p[i]] /\ p[i] \in 1 .. Len(seq)
      BY <1>5, <3>1 DEF Places
    <3> QED  BY <1>8, <3>1, <3>2 DEF ToSet
  <2>2. ASSUME NEW x \in ToSet(seq), x \in T
        PROVE  x \in ToSet(Kept(seq, T))
    <3>1. PICK m \in 1 .. Len(seq) : x = seq[m]
      BY <2>2 DEF ToSet
    <3>2. PICK i \in 1 .. Len(Kept(seq, T)) : Kept(seq, T)[i] = x
      BY <1>7, <2>2, <3>1
    <3> QED  BY <1>6, <3>2 DEF ToSet
  <2> QED  BY <2>1, <2>2
<1> QED  BY <1>5, <1>6, <1>9

\* Erasing an element from a vector without duplicates: it is gone, and nothing else is.
LEMMA WithoutProperties ==
    ASSUME NEW S, NEW seq \in Seq(S), IsInjective(seq), NEW x
    PROVE  /\ Without(seq, x) \in Seq(S) /\ IsInjective(Without(seq, x))
           /\ ToSet(Without(seq, x)) = ToSet(seq) \ {x}
<1> DEFINE part == Without(seq, x)
<1>1. /\ part \in Seq(S)
      /\ \E p : Places(p, part, seq, Len(seq))
      /\ ToSet(part) = ToSet(seq) \cap (ToSet(seq) \ {x})
  <2>1. part = Kept(seq, ToSet(seq) \ {x})
    BY DEF Without, ToSet
  <2> HIDE DEF part
  <2> QED  BY <2>1, KeptProperties
<1> HIDE DEF part
<1>2. PICK p : Places(p, part, seq, Len(seq))
  BY <1>1
<1>3. IsInjective(part)
  <2> SUFFICES ASSUME NEW i \in 1 .. Len(part), NEW j \in 1 .. Len(part), part[i] = part[j]
               PROVE  i = j
    BY <1>1 DEF IsInjective
  <2>1. p[i] \in 1 .. Len(seq) /\ p[j] \in 1 .. Len(seq) /\ seq[p[i]] = seq[p[j]]
    BY <1>2 DEF Places
  <2>2. p[i] = p[j]
    BY <2>1 DEF IsInjective
  <2>3. ~(i < j) /\ ~(j < i)
    BY <1>2, <2>1, <2>2 DEF Places
  <2>4. i \in Int /\ j \in Int
    BY <1>1
  <2> QED  BY <2>3, <2>4
<1> QED  BY <1>1, <1>3 DEF part

\* push_back of what a vector does not hold keeps it without duplicates.
LEMMA AppendProper ==
    ASSUME NEW S, NEW seq \in Seq(S), IsInjective(seq), NEW x \in S, x \notin ToSet(seq)
    PROVE  /\ Append(seq, x) \in Seq(S) /\ IsInjective(Append(seq, x))
           /\ ToSet(Append(seq, x)) = ToSet(seq) \cup {x}
<1> DEFINE new == Append(seq, x)
           N == Len(seq)
<1>1. /\ N \in Nat /\ DOMAIN seq = 1 .. N /\ DOMAIN new = 1 .. (N + 1)
      /\ \A i \in 1 .. N : new[i] = seq[i]
      /\ new[N + 1] = x /\ new \in Seq(S)
  BY AppendProperties
<1>2. \A i \in 1 .. N : seq[i] # x
  BY <1>1 DEF ToSet
<1>3. ToSet(new) = ToSet(seq) \cup {x}
  BY AppendToSet
<1> HIDE DEF new, N
<1>4. IsInjective(new)
  <2> SUFFICES ASSUME NEW i \in 1 .. (N + 1), NEW j \in 1 .. (N + 1), new[i] = new[j]
               PROVE  i = j
    BY <1>1 DEF IsInjective
  <2>1. CASE i = N + 1 /\ j # N + 1
    <3>1. j \in 1 .. N
      BY <1>1, <2>1
    <3> QED  BY <1>1, <1>2, <2>1, <3>1
  <2>2. CASE j = N + 1 /\ i # N + 1
    <3>1. i \in 1 .. N
      BY <1>1, <2>2
    <3> QED  BY <1>1, <1>2, <2>2, <3>1
  <2>3. CASE i # N + 1 /\ j # N + 1
    <3>1. i \in 1 .. N /\ j \in 1 .. N
      BY <1>1, <2>3
    <3> QED  BY <1>1, <3>1 DEF IsInjective
  <2> QED  BY <2>1, <2>2, <2>3
<1> QED  BY <1>1, <1>3, <1>4 DEF new

\* insert of what a vector does not hold, wherever the iterator is.
LEMMA InsertProper ==
    ASSUME NEW S, NEW seq \in Seq(S), IsInjective(seq), NEW x \in S, x \notin ToSet(seq),
           NEW p \in 1 .. (Len(seq) + 1)
    PROVE  /\ InsertAt(seq, p, x) \in Seq(S) /\ IsInjective(InsertAt(seq, p, x))
           /\ ToSet(InsertAt(seq, p, x)) = ToSet(seq) \cup {x}
<1>0. InsertAt(seq, p, x) \in Seq(S) /\ IsInsertion(InsertAt(seq, p, x), seq, p, x)
  BY InsertAtProperties
<1> DEFINE new == InsertAt(seq, p, x)
           N == Len(seq)
<1>1. /\ N \in Nat /\ DOMAIN seq = 1 .. N /\ DOMAIN new = 1 .. (N + 1) /\ new \in Seq(S)
      /\ \A i \in 1 .. (N + 1) : new[i] = IF i < p THEN seq[i] ELSE IF i = p THEN x ELSE seq[i - 1]
  <2>1. new \in Seq(S) /\ IsInsertion(new, seq, p, x)
    BY <1>0
  <2> HIDE DEF new
  <2> QED  BY <2>1 DEF IsInsertion
<1>2. /\ p \in 1 .. (N + 1)
      /\ \A i \in 1 .. N : seq[i] # x /\ seq[i] \in ToSet(seq) /\ \A j \in 1 .. N : seq[i] = seq[j] => i = j
  BY <1>1 DEF ToSet, IsInjective
<1> HIDE DEF new, N
<1>3. IsInjective(new)
  <2> SUFFICES ASSUME NEW i \in 1 .. (N + 1), NEW j \in 1 .. (N + 1), i < j
               PROVE  new[i] # new[j]
    BY <1>1 DEF IsInjective
  <2>1. CASE j < p
    BY <1>1, <1>2, <2>1
  <2>2. CASE i < p /\ j = p
    BY <1>1, <1>2, <2>2
  <2>3. CASE i < p /\ p < j
    <3>1. i \in 1 .. N /\ j - 1 \in 1 .. N /\ i # j - 1
      BY <1>1, <1>2, <2>3
    <3> QED  BY <1>1, <1>2, <2>3, <3>1
  <2>4. CASE i = p
    <3>1. j - 1 \in 1 .. N /\ ~(j < p) /\ j # p
      BY <1>1, <1>2, <2>4
    <3> QED  BY <1>1, <1>2, <2>4, <3>1
  <2>5. CASE p < i
    <3>1. i - 1 \in 1 .. N /\ j - 1 \in 1 .. N /\ i - 1 # j - 1 /\ p < j
      BY <1>1, <1>2, <2>5
    <3> QED  BY <1>1, <1>2, <2>5, <3>1
  <2> QED  BY <1>1, <1>2, <2>1, <2>2, <2>3, <2>4, <2>5
<1>4. ToSet(new) \subseteq ToSet(seq) \cup {x}
  <2> SUFFICES ASSUME NEW i \in 1 .. (N + 1)
               PROVE  new[i] \in ToSet(seq) \cup {x}
    BY <1>1 DEF ToSet
  <2>1. CASE i < p
    <3>1. i \in 1 .. N
      BY <1>1, <1>2, <2>1
    <3> QED  BY <1>1, <1>2, <2>1, <3>1
  <2>2. CASE i = p
    BY <1>1, <1>2, <2>2
  <2>3. CASE p < i
    <3>1. i - 1 \in 1 .. N /\ ~(i < p) /\ i # p
      BY <1>1, <1>2, <2>3
    <3> QED  BY <1>1, <1>2, <3>1
  <2> QED  BY <1>1, <1>2, <2>1, <2>2, <2>3
<1>5. x \in ToSet(new)
  BY <1>1, <1>2 DEF ToSet
<1>6. ASSUME NEW i \in 1 .. N
      PROVE  seq[i] \in ToSet(new)
  <2>1. CASE i < p
    BY <1>1, <1>2, <2>1 DEF ToSet
  <2>2. CASE p <= i
    <3>1. i + 1 \in 1 .. (N + 1) /\ new[i + 1] = seq[i]
      BY <1>1, <1>2, <2>2
    <3> QED  BY <1>1, <3>1 DEF ToSet
  <2> QED  BY <1>1, <1>2, <2>1, <2>2
<1>7. ToSet(seq) \subseteq ToSet(new)
  BY <1>1, <1>6 DEF ToSet
<1> QED  BY <1>1, <1>3, <1>4, <1>5, <1>7 DEF new

\* Assigning to an element what a vector does not hold.
LEMMA ReplaceProper ==
    ASSUME NEW S, NEW seq \in Seq(S), IsInjective(seq), NEW x \in S, x \notin ToSet(seq),
           NEW p \in 1 .. Len(seq)
    PROVE  /\ ReplaceAt(seq, p, x) \in Seq(S) /\ IsInjective(ReplaceAt(seq, p, x))
           /\ ToSet(ReplaceAt(seq, p, x)) = (ToSet(seq) \ {seq[p]}) \cup {x}
<1> DEFINE new == ReplaceAt(seq, p, x)
           N == Len(seq)
<1>1. /\ N \in Nat /\ DOMAIN seq = 1 .. N /\ DOMAIN new = 1 .. N /\ new \in Seq(S)
      /\ \A i \in 1 .. N : new[i] = IF i = p THEN x ELSE seq[i]
  BY DEF ReplaceAt
<1>2. p \in 1 .. N /\ \A i \in 1 .. N : seq[i] # x /\ (i # p => seq[i] # seq[p])
  BY <1>1 DEF ToSet, IsInjective
<1> HIDE DEF new, N
<1>3. IsInjective(new)
  BY <1>1, <1>2 DEF IsInjective
<1>4. ToSet(new) = (ToSet(seq) \ {seq[p]}) \cup {x}
  BY <1>1, <1>2 DEF ToSet
<1> QED  BY <1>1, <1>3, <1>4 DEF new

\* Erasing the first element that equals x from a vector without duplicates.
LEMMA RemoveFirstProper ==
    ASSUME NEW S, NEW seq \in Seq(S), IsInjective(seq), NEW x
    PROVE  /\ RemoveFirst(seq, x) \in Seq(S) /\ IsInjective(RemoveFirst(seq, x))
           /\ ToSet(RemoveFirst(seq, x)) = ToSet(seq) \ {x}
<1> DEFINE N == Len(seq)
           new == RemoveFirst(seq, x)
           T == {i \in 1 .. N : seq[i] = x}
<1>1. /\ N \in Nat /\ DOMAIN seq = 1 .. N
      /\ \A i \in 1 .. N : seq[i] \in ToSet(seq) /\ \A j \in 1 .. N : seq[i] = seq[j] => i = j
  BY DEF ToSet, IsInjective
<1>2. CASE T = {}
  <2>1. new = seq
    BY <1>2 DEF RemoveFirst
  <2>2. x \notin ToSet(seq)
    BY <1>1, <1>2 DEF ToSet
  <2> QED  BY <2>1, <2>2
<1>3. CASE T # {}
  <2> DEFINE p == Min(T)
  <2>1. new = RemoveAt(seq, p)
    BY <1>3 DEF RemoveFirst, SelectInSeq
  <2>2. p \in 1 .. N /\ seq[p] = x
    <3>1. T \in SUBSET Nat
      OBVIOUS
    <3>2. p \in T
      BY <1>3, <3>1, MinIsLeast
    <3> QED  BY <3>2
  <2> HIDE DEF p, new, T
  <2>3. /\ new \in Seq(S) /\ DOMAIN new = 1 .. (N - 1)
        /\ \A i \in 1 .. (N - 1) : new[i] = IF i < p THEN seq[i] ELSE seq[i + 1]
    <3>1. /\ new \in Seq(S) /\ Len(new) = Len(seq) - 1
          /\ \A i \in 1 .. (Len(seq) - 1) : new[i] = IF i < p THEN seq[i] ELSE seq[i + 1]
      BY <2>1, <2>2, RemoveAtProperties
    <3> QED  BY <3>1
  <2> HIDE DEF N
  <2>4. IsInjective(new)
    <3> SUFFICES ASSUME NEW i \in 1 .. (N - 1), NEW j \in 1 .. (N - 1), i < j
                 PROVE  new[i] # new[j]
      BY <1>1, <2>3 DEF IsInjective
    <3>1. CASE j < p
      BY <1>1, <2>2, <2>3, <3>1 DEF IsInjective
    <3>2. CASE i < p /\ p <= j
      BY <1>1, <2>2, <2>3, <3>2 DEF IsInjective
    <3>3. CASE p <= i
      <4>1. i + 1 \in 1 .. N /\ j + 1 \in 1 .. N /\ i + 1 # j + 1 /\ ~(i < p) /\ ~(j < p)
        BY <1>1, <2>2, <3>3
      <4> QED  BY <1>1, <2>3, <4>1
    <3> QED  BY <1>1, <2>2, <3>1, <3>2, <3>3
  <2>5. ASSUME NEW i \in 1 .. (N - 1)
        PROVE  new[i] \in ToSet(seq) \ {x}
    <3>1. CASE i < p
      BY <1>1, <2>2, <2>3, <3>1 DEF IsInjective, ToSet
    <3>2. CASE p <= i
      <4>1. i + 1 \in 1 .. N /\ i + 1 # p /\ ~(i < p)
        BY <1>1, <2>2, <3>2
      <4> QED  BY <1>1, <2>2, <2>3, <4>1
    <3> QED  BY <1>1, <2>2, <3>1, <3>2
  <2>6. ASSUME NEW i \in 1 .. N, i # p
        PROVE  seq[i] \in ToSet(new)
    <3>1. CASE i < p
      <4>1. i \in 1 .. (N - 1) /\ new[i] = seq[i]
        BY <1>1, <2>2, <2>3, <3>1
      <4> QED  BY <2>3, <4>1 DEF ToSet
    <3>2. CASE p < i
      <4>1. i - 1 \in 1 .. (N - 1) /\ new[i - 1] = seq[i]
        BY <1>1, <2>2, <2>3, <3>2
      <4> QED  BY <2>3, <4>1 DEF ToSet
    <3> QED  BY <1>1, <2>2, <2>6, <3>1, <3>2
  <2>7. ToSet(new) = ToSet(seq) \ {x}
    <3>1. ToSet(new) \subseteq ToSet(seq) \ {x}
      BY <2>3, <2>5 DEF ToSet
    <3>2. ASSUME NEW y \in ToSet(seq), y # x
          PROVE  y \in ToSet(new)
      <4>1. PICK i \in 1 .. N : seq[i] = y
        BY <1>1 DEF ToSet
      <4> QED  BY <2>2, <2>6, <3>2, <4>1
    <3> QED  BY <3>1, <3>2
  <2> QED  BY <2>3, <2>4, <2>7 DEF new
<1> QED  BY <1>2, <1>3

(***************************************************************************)
(* Key points: for a vector of any length that is in order, a search that  *)
(* stops at the first key point not below the index finds the index if and *)
(* only if it is there, and inserting, removing and trimming do to the set *)
(* of key points what they say, and keep the order.  (Indices are          *)
(* integers; S is the set they come from.)                                 *)
(***************************************************************************)

\* What a vector of indices holds at each position is an index, hence a number.
LEMMA KeyPointsAreIntegers ==
    ASSUME NEW S \in SUBSET Int, NEW keyPoints \in Seq(S)
    PROVE  \A i \in 1 .. Len(keyPoints) : keyPoints[i] \in S /\ keyPoints[i] \in Int
<1> TAKE i \in 1 .. Len(keyPoints)
<1>1. keyPoints[i] \in S
  OBVIOUS
<1> QED  BY <1>1

\* The walk stops at the first key point that is not below the index.
LEMMA FirstNotBelowProperties ==
    ASSUME NEW S \in SUBSET Int, NEW keyPoints \in Seq(S), NEW index \in Int,
           NEW p, p = FirstNotBelow(keyPoints, index)
    PROVE  /\ p \in 0 .. Len(keyPoints)
           /\ p = 0 => \A i \in 1 .. Len(keyPoints) : keyPoints[i] < index
           /\ p # 0 => keyPoints[p] >= index /\ \A i \in 1 .. (p - 1) : keyPoints[i] < index
<1> DEFINE T == {i \in 1 .. Len(keyPoints) : keyPoints[i] >= index}
<1>1. p = IF T # {} THEN Min(T) ELSE 0
  BY DEF FirstNotBelow, SelectInSeq
<1>2. \A i \in 1 .. Len(keyPoints) : keyPoints[i] \in Int
  BY KeyPointsAreIntegers
<1>3. CASE T = {}
  BY <1>1, <1>2, <1>3
<1>4. CASE T # {}
  <2>1. T \in SUBSET Nat
    OBVIOUS
  <2>2. p \in T /\ \A y \in T : p <= y
    BY <1>1, <1>4, <2>1, MinIsLeast
  <2>3. \A i \in 1 .. (p - 1) : i \in 1 .. Len(keyPoints) /\ i \notin T
    BY <2>2
  <2> QED  BY <1>2, <2>2, <2>3
<1> QED  BY <1>3, <1>4

\* In a vector in order, a key point is found if and only if it is there.
LEMMA HasKeyPointIsMember ==
    ASSUME NEW S \in SUBSET Int, NEW keyPoints \in Seq(S), NEW index \in Int,
           Increasing(keyPoints)
    PROVE  HasKeyPoint(keyPoints, index) <=> index \in ToSet(keyPoints)
<1> DEFINE p == FirstNotBelow(keyPoints, index)
<1>1. /\ p \in 0 .. Len(keyPoints)
      /\ p = 0 => \A i \in 1 .. Len(keyPoints) : keyPoints[i] < index
      /\ p # 0 => keyPoints[p] >= index /\ \A i \in 1 .. (p - 1) : keyPoints[i] < index
  BY FirstNotBelowProperties
<1>2. HasKeyPoint(keyPoints, index) <=> p # 0 /\ keyPoints[p] = index
  BY DEF HasKeyPoint
<1> HIDE DEF p
<1>3. ASSUME NEW i \in 1 .. Len(keyPoints), keyPoints[i] = index
      PROVE  p # 0 /\ keyPoints[p] = index
  <2>1. p # 0 /\ ~(i < p)
    BY <1>1, <1>3
  <2>2. CASE i = p
    BY <1>3, <2>1, <2>2
  <2>3. CASE p < i
    <3>1. keyPoints[p] < keyPoints[i]
      BY <1>1, <2>1, <2>3 DEF Increasing
    <3>2. keyPoints[p] \in Int
      BY <1>1, <2>1, KeyPointsAreIntegers
    <3> QED  BY <1>1, <1>3, <2>1, <3>1, <3>2
  <2> QED  BY <1>1, <2>1, <2>2, <2>3
<1>4. index \in ToSet(keyPoints) <=> \E i \in 1 .. Len(keyPoints) : keyPoints[i] = index
  BY DEF ToSet
<1> QED  BY <1>1, <1>2, <1>3, <1>4

\* Whatever the order, the vectors built are vectors of indices.
LEMMA InsertedType ==
    ASSUME NEW S \in SUBSET Int, NEW keyPoints \in Seq(S), NEW index \in S
    PROVE  Inserted(keyPoints, index) \in Seq(S)
<1> DEFINE p == FirstNotBelow(keyPoints, index)
<1>1. p \in 0 .. Len(keyPoints)
  BY FirstNotBelowProperties
<1>2. Inserted(keyPoints, index) =
          IF p = 0 THEN Append(keyPoints, index) ELSE InsertAt(keyPoints, p, index)
  BY DEF Inserted
<1> HIDE DEF p
<1> QED  BY <1>1, <1>2, InsertAtProperties DEF IsInsertion

\* Removing a key point leaves a vector of indices.
LEMMA RemovedType ==
    ASSUME NEW S \in SUBSET Int, NEW keyPoints \in Seq(S), NEW index \in Int
    PROVE  Removed(keyPoints, index) \in Seq(S)
<1> DEFINE p == FirstNotBelow(keyPoints, index)
<1>1. p \in 0 .. Len(keyPoints)
  BY FirstNotBelowProperties
<1>2. Removed(keyPoints, index) =
          IF p # 0 /\ keyPoints[p] = index THEN RemoveAt(keyPoints, p) ELSE keyPoints
  BY DEF Removed, HasKeyPoint
<1> HIDE DEF p
<1> QED  BY <1>1, <1>2, RemoveAtProperties

\* Toggling a key point leaves a vector of indices, whether it inserts or erases.
LEMMA ToggledType ==
    ASSUME NEW S \in SUBSET Int, NEW keyPoints \in Seq(S), NEW index \in S
    PROVE  Toggled(keyPoints, index) \in Seq(S)
BY InsertedType, RemovedType DEF Toggled

\* trimKeyPoints leaves a vector of the indices there were.
LEMMA TrimmedType ==
    ASSUME NEW S, NEW keyPoints \in Seq(S), NEW start, NEW end
    PROVE  Trimmed(keyPoints, start, end) \in Seq(S)
BY KeptProperties DEF Trimmed

\* Inserting an index that is not there.
LEMMA InsertedProperties ==
    ASSUME NEW S \in SUBSET Int, NEW keyPoints \in Seq(S), NEW index \in S,
           Increasing(keyPoints), ~HasKeyPoint(keyPoints, index)
    PROVE  /\ Increasing(Inserted(keyPoints, index))
           /\ ToSet(Inserted(keyPoints, index)) = ToSet(keyPoints) \cup {index}
<1> DEFINE p == FirstNotBelow(keyPoints, index)
           N == Len(keyPoints)
<1>1. /\ p \in 0 .. N
      /\ p = 0 => \A i \in 1 .. N : keyPoints[i] < index
      /\ p # 0 => keyPoints[p] >= index /\ \A i \in 1 .. (p - 1) : keyPoints[i] < index
  BY FirstNotBelowProperties
<1>2. Inserted(keyPoints, index) =
          IF p = 0 THEN Append(keyPoints, index) ELSE InsertAt(keyPoints, p, index)
  BY DEF Inserted
<1>3. p # 0 => keyPoints[p] # index
  BY DEF HasKeyPoint
<1>4. N \in Nat /\ DOMAIN keyPoints = 1 .. N /\ \A i \in 1 .. N : keyPoints[i] \in Int
  BY KeyPointsAreIntegers
<1> DEFINE q == IF p = 0 THEN N + 1 ELSE p
           new == Inserted(keyPoints, index)
<1>5. /\ new \in Seq(S) /\ Len(new) = N + 1
      /\ \A i \in 1 .. (N + 1) :
            new[i] = IF i < q THEN keyPoints[i] ELSE IF i = q THEN index ELSE keyPoints[i - 1]
  <2> HIDE DEF p, N
  <2>1. CASE p = 0
    <3>1. new = Append(keyPoints, index)
      BY <1>2, <2>1
    <3> QED  BY <2>1, <3>1, AppendProperties DEF N
  <2>2. CASE p # 0
    <3>1. new = InsertAt(keyPoints, p, index) /\ p \in 1 .. N
      BY <1>1, <1>2, <2>2
    <3> QED  BY <2>2, <3>1, InsertAtProperties DEF N, IsInsertion
  <2> QED  BY <2>1, <2>2
<1>6. \A i \in 1 .. N : (i < q => keyPoints[i] < index) /\ (i >= q => keyPoints[i] > index)
  <2> TAKE i \in 1 .. N
  <2>1. i < q => keyPoints[i] < index
    BY <1>1
  <2>2. ASSUME i >= q
        PROVE  keyPoints[i] > index
    <3>1. p # 0 /\ keyPoints[p] > index
      BY <1>1, <1>3, <1>4, <2>2
    <3>2. i = p \/ keyPoints[i] > keyPoints[p]
      BY <1>1, <1>4, <2>2, <3>1 DEF Increasing
    <3> QED  BY <1>1, <1>4, <3>1, <3>2
  <2> QED  BY <2>1, <2>2
<1>7. q \in 1 .. (N + 1) /\ DOMAIN new = 1 .. (N + 1) /\ index \in Int
  BY <1>1, <1>4, <1>5
<1> HIDE DEF p, N, q, new
<1>8. Increasing(new)
  <2> SUFFICES ASSUME NEW i \in 1 .. (N + 1), NEW j \in 1 .. (N + 1), i < j
               PROVE  new[i] < new[j]
    BY <1>7 DEF Increasing
  <2>1. CASE i < q
    <3>1. new[i] = keyPoints[i] /\ i \in 1 .. N
      BY <1>4, <1>5, <1>7, <2>1
    <3>2. CASE j < q
      <4>1. new[j] = keyPoints[j] /\ j \in 1 .. N
        BY <1>4, <1>5, <1>7, <3>2
      <4> QED  BY <1>4, <3>1, <4>1 DEF Increasing
    <3>3. CASE j = q
      BY <1>5, <1>6, <2>1, <3>1, <3>3
    <3>4. CASE j > q
      <4>1. new[j] = keyPoints[j - 1] /\ j - 1 \in 1 .. N /\ j - 1 >= q
        BY <1>4, <1>5, <1>7, <3>4
      <4>2. keyPoints[i] < index /\ keyPoints[j - 1] > index
        BY <1>6, <2>1, <3>1, <4>1
      <4> QED  BY <1>4, <1>7, <3>1, <4>1, <4>2
    <3> QED  BY <1>7, <3>2, <3>3, <3>4
  <2>2. CASE i = q
    <3>1. new[i] = index /\ new[j] = keyPoints[j - 1] /\ j - 1 \in 1 .. N /\ j - 1 >= q
      BY <1>4, <1>5, <1>7, <2>2
    <3> QED  BY <1>4, <1>6, <1>7, <3>1
  <2>3. CASE i > q
    <3>1. new[i] = keyPoints[i - 1] /\ new[j] = keyPoints[j - 1]
      BY <1>5, <1>7, <2>3
    <3>2. i - 1 \in 1 .. N /\ j - 1 \in 1 .. N /\ i - 1 < j - 1
      BY <1>4, <1>7, <2>3
    <3> QED  BY <1>4, <3>1, <3>2 DEF Increasing
  <2> QED  BY <1>7, <2>1, <2>2, <2>3
<1>9. ToSet(new) = ToSet(keyPoints) \cup {index}
  <2>1. ASSUME NEW x \in ToSet(new)
        PROVE  x \in ToSet(keyPoints) \cup {index}
    <3>1. PICK i \in 1 .. (N + 1) : x = new[i]
      BY <1>7, <2>1 DEF ToSet
    <3>2. i < q => i \in 1 .. N
      BY <1>4, <1>7
    <3>3. i > q => i - 1 \in 1 .. N
      BY <1>4, <1>7
    <3>4. x = index \/ (i < q /\ x = keyPoints[i]) \/ (i > q /\ x = keyPoints[i - 1])
      BY <1>5, <1>7, <3>1
    <3> QED  BY <1>4, <3>2, <3>3, <3>4 DEF ToSet
  <2>2. index \in ToSet(new)
    BY <1>5, <1>7 DEF ToSet
  <2>3. ASSUME NEW i \in 1 .. N
        PROVE  keyPoints[i] \in ToSet(new)
    <3>1. i < q => new[i] = keyPoints[i] /\ i \in DOMAIN new
      BY <1>4, <1>5, <1>7
    <3>2. i >= q => new[i + 1] = keyPoints[i] /\ i + 1 \in DOMAIN new
      BY <1>4, <1>5, <1>7
    <3>3. i < q \/ i >= q
      BY <1>7
    <3> QED  BY <3>1, <3>2, <3>3 DEF ToSet
  <2>4. ToSet(keyPoints) \subseteq ToSet(new)
    BY <1>4, <2>3 DEF ToSet
  <2> QED  BY <2>1, <2>2, <2>4
<1> QED  BY <1>8, <1>9 DEF new

\* Removing an index that is there.
LEMMA RemovedProperties ==
    ASSUME NEW S \in SUBSET Int, NEW keyPoints \in Seq(S), NEW index \in Int,
           Increasing(keyPoints), HasKeyPoint(keyPoints, index)
    PROVE  /\ Increasing(Removed(keyPoints, index))
           /\ ToSet(Removed(keyPoints, index)) = ToSet(keyPoints) \ {index}
<1> DEFINE p == FirstNotBelow(keyPoints, index)
           N == Len(keyPoints)
           new == Removed(keyPoints, index)
<1>1. p \in 1 .. N /\ keyPoints[p] = index
  BY FirstNotBelowProperties DEF HasKeyPoint
<1>2. new = RemoveAt(keyPoints, p)
  BY DEF Removed
<1>3. N \in Nat /\ DOMAIN keyPoints = 1 .. N /\ \A i \in 1 .. N : keyPoints[i] \in Int
  BY KeyPointsAreIntegers
<1>4. /\ new \in Seq(S) /\ Len(new) = N - 1
      /\ \A i \in 1 .. (N - 1) : new[i] = IF i < p THEN keyPoints[i] ELSE keyPoints[i + 1]
  <2> HIDE DEF p, new
  <2> QED  BY <1>1, <1>2, RemoveAtProperties
<1>5. DOMAIN new = 1 .. (N - 1)
  BY <1>4
<1>6. \A i, j \in 1 .. N : i < j => keyPoints[i] < keyPoints[j]
  BY <1>3 DEF Increasing
<1> HIDE DEF p, N, new
<1>7. Increasing(new)
  <2> SUFFICES ASSUME NEW i \in 1 .. (N - 1), NEW j \in 1 .. (N - 1), i < j
               PROVE  new[i] < new[j]
    BY <1>5 DEF Increasing
  <2>1. CASE j < p
    BY <1>1, <1>3, <1>4, <1>6, <2>1
  <2>2. CASE i < p /\ ~(j < p)
    BY <1>1, <1>3, <1>4, <1>6, <2>2
  <2>3. CASE ~(i < p)
    BY <1>1, <1>3, <1>4, <1>6, <2>3
  <2> QED  BY <1>1, <2>1, <2>2, <2>3
<1>8. ToSet(new) = ToSet(keyPoints) \ {index}
  <2>1. ASSUME NEW x \in ToSet(new)
        PROVE  x \in ToSet(keyPoints) \ {index}
    <3>1. PICK i \in 1 .. (N - 1) : x = new[i]
      BY <1>5, <2>1 DEF ToSet
    <3>2. CASE i < p
      <4>1. x = keyPoints[i] /\ i \in 1 .. N /\ keyPoints[i] < keyPoints[p]
        BY <1>1, <1>3, <1>4, <1>6, <3>1, <3>2
      <4> QED  BY <1>1, <1>3, <4>1 DEF ToSet
    <3>3. CASE ~(i < p)
      <4>1. x = keyPoints[i + 1] /\ i + 1 \in 1 .. N /\ keyPoints[p] < keyPoints[i + 1]
        BY <1>1, <1>3, <1>4, <1>6, <3>1, <3>3
      <4> QED  BY <1>1, <1>3, <4>1 DEF ToSet
    <3> QED  BY <3>2, <3>3
  <2>2. ASSUME NEW i \in 1 .. N, keyPoints[i] # index
        PROVE  keyPoints[i] \in ToSet(new)
    <3>1. i # p
      BY <1>1, <2>2
    <3>2. i < p => new[i] = keyPoints[i] /\ i \in DOMAIN new
      BY <1>1, <1>3, <1>4, <1>5
    <3>3. i > p => new[i - 1] = keyPoints[i] /\ i - 1 \in DOMAIN new
      BY <1>1, <1>3, <1>4, <1>5
    <3>4. i < p \/ i > p
      BY <1>1, <3>1
    <3> QED  BY <3>2, <3>3, <3>4 DEF ToSet
  <2>3. \A x \in ToSet(keyPoints) : x # index => x \in ToSet(new)
    BY <1>3, <2>2 DEF ToSet
  <2> QED  BY <2>1, <2>3
<1> QED  BY <1>7, <1>8 DEF new

\* Trimming.
LEMMA TrimmedProperties ==
    ASSUME NEW S \in SUBSET Int, NEW keyPoints \in Seq(S), NEW start, NEW end,
           Increasing(keyPoints)
    PROVE  /\ Increasing(Trimmed(keyPoints, start, end))
           /\ ToSet(Trimmed(keyPoints, start, end)) =
                  {k \in ToSet(keyPoints) : ~OutsideInterval(k, start, end)}
<1> DEFINE T == {k \in ToSet(keyPoints) : ~OutsideInterval(k, start, end)}
           new == Trimmed(keyPoints, start, end)
<1>1. new = Kept(keyPoints, T)
  BY DEF Trimmed
<1>2. PICK p : Places(p, new, keyPoints, Len(keyPoints))
  <2> HIDE DEF T, new
  <2> QED  BY <1>1, KeptProperties
<1>3. new \in Seq(S) /\ ToSet(new) = ToSet(keyPoints) \cap T
  <2> HIDE DEF T, new
  <2> QED  BY <1>1, KeptProperties
<1> HIDE DEF new
<1>4. Increasing(new)
  <2> SUFFICES ASSUME NEW i \in 1 .. Len(new), NEW j \in 1 .. Len(new), i < j
               PROVE  new[i] < new[j]
    BY <1>3 DEF Increasing
  <2>1. /\ p[i] \in DOMAIN keyPoints /\ p[j] \in DOMAIN keyPoints /\ p[i] < p[j]
        /\ new[i] = keyPoints[p[i]] /\ new[j] = keyPoints[p[j]]
    BY <1>2 DEF Places
  <2> QED  BY <2>1 DEF Increasing
<1> QED  BY <1>3, <1>4 DEF new

\* From a key point, the next one is the one behind it in the vector, or the
\* first one behind the last.
LEMMA NextIsBehind ==
    ASSUME NEW S \in SUBSET Int, NEW keyPoints \in Seq(S), Increasing(keyPoints),
           NEW m \in 1 .. Len(keyPoints)
    PROVE  getNextKeyPoint(keyPoints, keyPoints[m]) =
               IF m < Len(keyPoints) THEN keyPoints[m + 1] ELSE keyPoints[1]
<1> DEFINE N == Len(keyPoints)
           T == {i \in 1 .. N : keyPoints[i] > keyPoints[m]}
           p == IF T # {} THEN Min(T) ELSE 0
<1>1. getNextKeyPoint(keyPoints, keyPoints[m]) = IF p = 0 THEN keyPoints[1] ELSE keyPoints[p]
  BY DEF getNextKeyPoint, SelectInSeq
<1>2. N \in Nat /\ DOMAIN keyPoints = 1 .. N /\ \A i \in 1 .. N : keyPoints[i] \in Int
  BY KeyPointsAreIntegers
<1>3. \A i \in 1 .. N : i \in T <=> m < i
  <2> TAKE i \in 1 .. N
  <2>1. i < m => keyPoints[i] < keyPoints[m]
    BY <1>2 DEF Increasing
  <2>2. m < i => keyPoints[m] < keyPoints[i]
    BY <1>2 DEF Increasing
  <2> QED  BY <1>2, <2>1, <2>2
<1> HIDE DEF N
<1>4. CASE m < N
  <2>1. T \in SUBSET Nat /\ m + 1 \in T
    BY <1>2, <1>3, <1>4
  <2>2. Min(T) \in T /\ \A y \in T : Min(T) <= y
    <3> HIDE DEF T
    <3> QED  BY <2>1, MinIsLeast
  <2>3. p = Min(T) /\ p \in 1 .. N /\ p <= m + 1 /\ m < p
    BY <1>3, <2>1, <2>2
  <2>4. p = m + 1
    BY <2>3
  <2> HIDE DEF p
  <2> QED  BY <1>1, <1>4, <2>3, <2>4 DEF N
<1>5. CASE ~(m < N)
  <2>1. T = {}
    BY <1>2, <1>3, <1>5
  <2> QED  BY <1>1, <1>5, <2>1 DEF N
<1> QED  BY <1>4, <1>5

\* And the previous one is the one in front of it, or the last one.
LEMMA PreviousIsInFront ==
    ASSUME NEW S \in SUBSET Int, NEW keyPoints \in Seq(S), Increasing(keyPoints),
           NEW m \in 1 .. Len(keyPoints)
    PROVE  getPreviousKeyPoint(keyPoints, keyPoints[m]) =
               IF m > 1 THEN keyPoints[m - 1] ELSE keyPoints[Len(keyPoints)]
<1> DEFINE N == Len(keyPoints)
           T == {i \in 1 .. N : keyPoints[i] < keyPoints[m]}
           p == IF T # {} THEN Max(T) ELSE 0
<1>1. getPreviousKeyPoint(keyPoints, keyPoints[m]) = IF p = 0 THEN keyPoints[N] ELSE keyPoints[p]
  BY DEF getPreviousKeyPoint, SelectLastInSeq, Last
<1>2. N \in Nat /\ DOMAIN keyPoints = 1 .. N /\ \A i \in 1 .. N : keyPoints[i] \in Int
  BY KeyPointsAreIntegers
<1>3. \A i \in 1 .. N : i \in T <=> i < m
  <2> TAKE i \in 1 .. N
  <2>1. i < m => keyPoints[i] < keyPoints[m]
    BY <1>2 DEF Increasing
  <2>2. m < i => keyPoints[m] < keyPoints[i]
    BY <1>2 DEF Increasing
  <2> QED  BY <1>2, <2>1, <2>2
<1> HIDE DEF N
<1>4. CASE m > 1
  <2>1. T \in SUBSET (0 .. N) /\ m - 1 \in T
    BY <1>2, <1>3, <1>4 DEF N
  <2>2. Max(T) \in T /\ \A y \in T : y <= Max(T)
    <3> HIDE DEF T
    <3> QED  BY <1>2, <2>1, MaxIsGreatest
  <2>3. p = Max(T) /\ p \in 1 .. N /\ m - 1 <= p /\ p < m
    BY <1>3, <2>1, <2>2
  <2>4. p = m - 1
    BY <2>3
  <2> HIDE DEF p
  <2> QED  BY <1>1, <1>4, <2>3, <2>4
<1>5. CASE ~(m > 1)
  <2>1. T = {}
    BY <1>2, <1>3, <1>5
  <2> QED  BY <1>1, <1>5, <2>1 DEF N
<1> QED  BY <1>4, <1>5
=============================================================================
