------------------------- MODULE ExecutionPlanProofs -------------------------
(***************************************************************************)
(* What the algorithms of ExecutionPlan compute, for every manifest, and   *)
(* the invariant of admission and the walk.                                *)
(*                                                                         *)
(* The recursive functions exist because each of their steps stays in a    *)
(* set: Iterates for those over numbers, EmitExists for the calls over     *)
(* tasks and the tasks being visited, which fall by the measure of what is *)
(* not visited.  Induction is over sets of numbers or of calls, by a least *)
(* counterexample: so Tree, what the leaves below a task are, is carried   *)
(* from the branches of a composite to what is joined from them.           *)
(***************************************************************************)

EXTENDS ExecutionPlan, SequenceFacts

-----------------------------------------------------------------------------
\* A beginning of the order: each item once, after all it needs.
InOrder(items, needs, s) ==
  /\ s \in Seq(items)
  /\ \A i, j \in DOMAIN s : s[i] = s[j] => i = j
  /\ \A i \in DOMAIN s : needs[s[i]] \subseteq {s[j] : j \in 1..(i - 1)}

\* No item that is left is ready.
Stuck(items, needs, s) == \A x \in items \ ToSet(s) : ~ needs[x] \subseteq ToSet(s)

\* One more item keeps the order, and none is taken only where none is ready.
LEMMA PlaceFirstKeeps ==
  ASSUME NEW items \in SUBSET Nat, NEW needs, NEW s, InOrder(items, needs, s)
  PROVE  /\ InOrder(items, needs, PlaceFirst(items, needs, s))
         /\ Stuck(items, needs, s) => PlaceFirst(items, needs, s) = s
         /\ ~ Stuck(items, needs, s) => Len(PlaceFirst(items, needs, s)) = Len(s) + 1
<1> DEFINE ready == {i \in items \ ToSet(s) : needs[i] \subseteq ToSet(s)}
<1>1. Stuck(items, needs, s) <=> ready = {}
  BY DEF Stuck
<1>2. PlaceFirst(items, needs, s) = IF ready = {} THEN s ELSE Append(s, Min(ready))
  BY DEF PlaceFirst
<1>3. s \in Seq(items) /\ Len(s) \in Nat /\ DOMAIN s = 1..Len(s)
  BY LenProperties DEF InOrder
<1>4. CASE ready = {}
  BY <1>1, <1>2, <1>4
<1>5. CASE ready # {}
  <2> DEFINE x == Min(ready)
             t == Append(s, x)
  <2>1. ready \in SUBSET Nat
    OBVIOUS
  <2>2. x \in ready
    BY <1>5, <2>1, MinIsLeast
  <2> HIDE DEF x
  <2>3. x \in items /\ x \notin ToSet(s) /\ needs[x] \subseteq ToSet(s)
    BY <2>2
  <2>4. /\ t \in Seq(items) /\ Len(t) = Len(s) + 1 /\ t[Len(s) + 1] = x
        /\ \A i \in 1..Len(s) : t[i] = s[i]
    BY <1>3, <2>3, AppendProperties
  <2>5. DOMAIN t = 1..(Len(s) + 1)
    BY <2>4, LenProperties
  <2> HIDE DEF t
  <2>6. ASSUME NEW i \in DOMAIN t, NEW j \in DOMAIN t, t[i] = t[j]
        PROVE  i = j
    <3>1. \A k \in 1..Len(s) : s[k] # x
      BY <2>3, <1>3 DEF ToSet
    <3>2. \A k, l \in 1..Len(s) : s[k] = s[l] => k = l
      BY <1>3 DEF InOrder
    <3>3. (i \in 1..Len(s) \/ i = Len(s) + 1) /\ (j \in 1..Len(s) \/ j = Len(s) + 1)
      BY <2>5, <1>3
    <3>4. QED
      BY <3>1, <3>2, <3>3, <2>4, <2>6
  <2>7. ASSUME NEW i \in DOMAIN t
        PROVE  needs[t[i]] \subseteq {t[j] : j \in 1..(i - 1)}
    <3>1. CASE i = Len(s) + 1
      <4>1. ASSUME NEW y \in ToSet(s)
            PROVE  y \in {t[j] : j \in 1..(i - 1)}
        <5>1. PICK k \in 1..Len(s) : y = s[k]
          BY <1>3 DEF ToSet
        <5>2. t[k] = y /\ k \in 1..(i - 1)
          BY <5>1, <2>4, <3>1, <1>3
        <5>3. QED
          BY <5>2
      <4>2. QED
        BY <3>1, <4>1, <2>3, <2>4
    <3>2. CASE i # Len(s) + 1
      <4>1. i \in 1..Len(s) /\ t[i] = s[i]
        BY <2>5, <2>4, <3>2, <1>3
      <4>2. needs[s[i]] \subseteq {s[j] : j \in 1..(i - 1)}
        BY <4>1, <1>3 DEF InOrder
      <4>3. \A j \in 1..(i - 1) : t[j] = s[j]
        BY <4>1, <2>4, <1>3
      <4>4. QED
        BY <4>1, <4>2, <4>3
    <3>3. QED
      BY <3>1, <3>2
  <2>8. InOrder(items, needs, t)
    BY <2>4, <2>6, <2>7 DEF InOrder
  <2>9. PlaceFirst(items, needs, s) = t
    BY <1>2, <1>5 DEF t, x
  <2>10. QED
    BY <2>8, <2>9, <2>4, <1>1, <1>5
<1>6. QED
  BY <1>4, <1>5

\* FirstReady gives every item its place once, after all it needs; it leaves one
\* out only where each that is left needs another that is left or unknown.
LEMMA FirstReadyIsOrder ==
  ASSUME NEW items \in SUBSET Nat, IsFiniteSet(items), NEW needs
  PROVE  /\ InOrder(items, needs, FirstReady(items, needs))
         /\ \/ Stuck(items, needs, FirstReady(items, needs))
            \/ Len(FirstReady(items, needs)) = Cardinality(items)
<1> DEFINE N == Cardinality(items)
           V == {s \in Seq(items) : InOrder(items, needs, s)}
           F == [c \in Nat \X V |-> PlaceFirst(items, needs, c[2])]
           place == CHOOSE f : f = [n \in 0..N |-> IF n = 0 THEN <<>>
                                      ELSE PlaceFirst(items, needs, f[n - 1])]
<1>1. N \in Nat
  BY FS_CardinalityType
<1>2. <<>> \in V
  BY DEF InOrder
<1>3. F \in [Nat \X V -> V]
  <2>1. ASSUME NEW s \in V
        PROVE  PlaceFirst(items, needs, s) \in V
    BY PlaceFirstKeeps DEF InOrder
  <2>2. \A c \in Nat \X V : c[2] \in V
    OBVIOUS
  <2>3. QED
    BY <2>1, <2>2
<1>4. \A n \in Nat : \A s \in V : F[<<n, s>>] = PlaceFirst(items, needs, s)
  OBVIOUS
<1>a. PICK f : Iteration(f, V, <<>>, N, F)
  <2> HIDE DEF F, V, N
  <2>1. QED
    BY <1>1, <1>2, <1>3, Iterates
<1>5. /\ f \in [0..N -> V]
      /\ f[0] = <<>> /\ \A n \in 1..N : f[n] = F[<<n, f[n - 1]>>]
  BY <1>a DEF Iteration
<1>6. f = [n \in 0..N |-> IF n = 0 THEN <<>> ELSE PlaceFirst(items, needs, f[n - 1])]
  <2> HIDE DEF F, V
  <2>1. ASSUME NEW n \in 0..N
        PROVE  f[n] = IF n = 0 THEN <<>> ELSE PlaceFirst(items, needs, f[n - 1])
    <3>1. CASE n = 0
      BY <3>1, <1>5
    <3>2. CASE n # 0
      <4>1. n \in Nat /\ n \in 1..N /\ n - 1 \in 0..N
        BY <3>2, <1>1
      <4>2. f[n - 1] \in V
        BY <4>1, <1>5
      <4>3. QED
        BY <3>2, <4>1, <4>2, <1>4, <1>5
    <3>3. QED
      BY <3>1, <3>2
  <2>2. QED
    BY <2>1, <1>5
<1>7. place = [n \in 0..N |-> IF n = 0 THEN <<>> ELSE PlaceFirst(items, needs, place[n - 1])]
  BY <1>6
<1>8. FirstReady(items, needs) = place[N]
  BY Zenon DEF FirstReady
<1> HIDE DEF place, F, V
<1>9. place[0] = <<>> /\ \A n \in 1..N : place[n] = PlaceFirst(items, needs, place[n - 1])
  BY <1>7, <1>1
<1> DEFINE Reached == {n \in Nat : n <= N =>
                         /\ InOrder(items, needs, place[n])
                         /\ Stuck(items, needs, place[n]) \/ Len(place[n]) = n}
<1>10. 0 \in Reached
  BY <1>9, <1>2 DEF V
<1>11. ASSUME NEW n \in Nat, n \in Reached
       PROVE  n + 1 \in Reached
  <2>1. SUFFICES ASSUME n + 1 <= N
                 PROVE  /\ InOrder(items, needs, place[n + 1])
                        /\ Stuck(items, needs, place[n + 1]) \/ Len(place[n + 1]) = n + 1
    OBVIOUS
  <2>2. /\ InOrder(items, needs, place[n])
        /\ Stuck(items, needs, place[n]) \/ Len(place[n]) = n
    BY <1>11, <2>1, <1>1
  <2>3. n + 1 \in 1..N /\ n + 1 - 1 = n
    BY <2>1, <1>1
  <2>4. place[n + 1] = PlaceFirst(items, needs, place[n])
    BY <2>3, <1>9
  <2>5. QED
    BY <2>2, <2>4, PlaceFirstKeeps
<1>12. N \in Reached
  <2> HIDE DEF Reached
  <2>1. Nat \subseteq Reached
    BY <1>10, <1>11, Induction
  <2>2. QED
    BY <2>1, <1>1
<1>13. QED
  BY <1>12, <1>8, <1>1

\* An order of full length has every item.
LEMMA FullOrder ==
  ASSUME NEW items, IsFiniteSet(items), NEW needs, NEW s, InOrder(items, needs, s),
         Len(s) = Cardinality(items)
  PROVE  ToSet(s) = items
<1>1. s \in Seq(items) /\ Len(s) \in Nat /\ DOMAIN s = 1..Len(s) /\ s \in [1..Len(s) -> items]
  BY LenProperties DEF InOrder
<1>2. s \in Injection(1..Len(s), items)
  BY <1>1 DEF InOrder, Injection, IsInjective
<1>3. IsFiniteSet(1..Len(s)) /\ Cardinality(1..Len(s)) = Len(s)
  BY <1>1, Places
<1>4. s \in Surjection(1..Len(s), items)
  BY <1>2, <1>3, FS_Injection
<1>5. QED
  BY <1>4, <1>1 DEF Surjection, ToSet

-----------------------------------------------------------------------------
\* Nothing that a member needs is missing.
Closed(S, edges) == \A s \in S : edges[s] \subseteq S

\* CloseUnion is the least closed set with these members.
LEMMA CloseUnionIsClosure ==
  ASSUME NEW D, IsFiniteSet(D), NEW edges \in [D -> SUBSET D], NEW union \in SUBSET D
  PROVE  /\ union \subseteq CloseUnion(union, edges)
         /\ CloseUnion(union, edges) \subseteq D
         /\ Closed(CloseUnion(union, edges), edges)
         /\ \A T \in SUBSET D : union \subseteq T /\ Closed(T, edges) =>
              CloseUnion(union, edges) \subseteq T
<1> DEFINE N == Cardinality(D)
           V == SUBSET D
           F == [c \in Nat \X V |-> WithNeeds(c[2], edges)]
           close == CHOOSE f : f = [n \in 0..N |-> IF n = 0 THEN union
                                      ELSE WithNeeds(f[n - 1], edges)]
<1>1. N \in Nat /\ DOMAIN edges = D
  BY FS_CardinalityType
<1>2. \A S \in V : WithNeeds(S, edges) \in V /\ S \subseteq WithNeeds(S, edges)
  BY DEF WithNeeds
<1>3. F \in [Nat \X V -> V] /\ \A n \in Nat : \A S \in V : F[<<n, S>>] = WithNeeds(S, edges)
  <2>1. \A c \in Nat \X V : c[2] \in V
    OBVIOUS
  <2>2. QED
    BY <1>2, <2>1
<1>4. PICK f : Iteration(f, V, union, N, F)
  <2> HIDE DEF F, V, N
  <2>1. union \in V
    BY DEF V
  <2>2. QED
    BY <1>1, <1>3, <2>1, Iterates
<1>5. /\ f \in [0..N -> V]
      /\ f[0] = union /\ \A n \in 1..N : f[n] = F[<<n, f[n - 1]>>]
  BY <1>4 DEF Iteration
<1>6. f = [n \in 0..N |-> IF n = 0 THEN union ELSE WithNeeds(f[n - 1], edges)]
  <2> HIDE DEF F, V
  <2>1. ASSUME NEW n \in 0..N
        PROVE  f[n] = IF n = 0 THEN union ELSE WithNeeds(f[n - 1], edges)
    <3>1. CASE n = 0
      BY <3>1, <1>5
    <3>2. CASE n # 0
      <4>1. n \in Nat /\ n \in 1..N /\ n - 1 \in 0..N
        BY <3>2, <1>1
      <4>2. f[n - 1] \in V
        BY <4>1, <1>5
      <4>3. QED
        BY <3>2, <4>1, <4>2, <1>3, <1>5
    <3>3. QED
      BY <3>1, <3>2
  <2>2. QED
    BY <2>1, <1>5
<1>7. close = [n \in 0..N |-> IF n = 0 THEN union ELSE WithNeeds(close[n - 1], edges)]
  BY <1>6
<1>8. CloseUnion(union, edges) = close[N]
  BY <1>1, Zenon DEF CloseUnion
<1> HIDE DEF close, F, V
<1>9. close[0] = union /\ \A n \in 1..N : close[n] = WithNeeds(close[n - 1], edges)
  BY <1>7, <1>1
<1> DEFINE Grown == {n \in Nat : n <= N =>
                       /\ close[n] \in SUBSET D /\ union \subseteq close[n]
                       /\ Closed(close[n], edges) \/ Cardinality(close[n]) >= n
                       /\ \A T \in SUBSET D : union \subseteq T /\ Closed(T, edges) =>
                            close[n] \subseteq T}
<1>10. 0 \in Grown
  <2>1. IsFiniteSet(union)
    BY FS_Subset
  <2>2. Cardinality(union) \in Nat
    BY <2>1, FS_CardinalityType
  <2>3. QED
    BY <1>9, <2>2
<1>11. ASSUME NEW n \in Nat, n \in Grown
       PROVE  n + 1 \in Grown
  <2> DEFINE C == close[n]
             E == WithNeeds(C, edges)
  <2>1. SUFFICES ASSUME n + 1 <= N
                 PROVE  /\ close[n + 1] \in SUBSET D /\ union \subseteq close[n + 1]
                        /\ \/ Closed(close[n + 1], edges)
                           \/ Cardinality(close[n + 1]) >= n + 1
                        /\ \A T \in SUBSET D : union \subseteq T /\ Closed(T, edges) =>
                             close[n + 1] \subseteq T
    OBVIOUS
  <2>2. /\ C \in SUBSET D /\ union \subseteq C
        /\ Closed(C, edges) \/ Cardinality(C) >= n
        /\ \A T \in SUBSET D : union \subseteq T /\ Closed(T, edges) => C \subseteq T
    BY <1>11, <2>1, <1>1
  <2>3. close[n + 1] = E
    <3>1. n + 1 \in 1..N /\ n + 1 - 1 = n
      BY <2>1, <1>1
    <3>2. QED
      BY <3>1, <1>9
  <2> HIDE DEF C
  <2>4. E \in SUBSET D /\ C \subseteq E
    BY <2>2, <1>2 DEF V
  <2>5. ASSUME NEW T \in SUBSET D, union \subseteq T, Closed(T, edges)
        PROVE  E \subseteq T
    <3>1. C \subseteq T
      BY <2>2, <2>5
    <3>2. QED
      BY <3>1, <2>5 DEF WithNeeds, Closed
  <2>6. Closed(E, edges) \/ Cardinality(E) >= n + 1
    <3>1. CASE Closed(C, edges)
      <4>1. E = C
        BY <3>1 DEF WithNeeds, Closed
      <4>2. QED
        BY <3>1, <4>1
    <3>2. CASE ~ Closed(C, edges)
      <4>1. E # C
        BY <3>2 DEF WithNeeds, Closed
      <4>2. IsFiniteSet(E) /\ IsFiniteSet(C)
        BY <2>2, <2>4, FS_Subset
      <4>3. Cardinality(C) <= Cardinality(E) /\ Cardinality(C) # Cardinality(E)
        BY <2>4, <4>1, <4>2, FS_Subset
      <4>4. Cardinality(C) \in Nat /\ Cardinality(E) \in Nat
        BY <4>2, FS_CardinalityType
      <4>5. QED
        BY <3>2, <2>2, <4>3, <4>4
    <3>3. QED
      BY <3>1, <3>2
  <2>7. QED
    BY <2>2, <2>3, <2>4, <2>5, <2>6
<1>12. N \in Grown
  <2> HIDE DEF Grown
  <2>1. Nat \subseteq Grown
    BY <1>10, <1>11, Induction
  <2>2. QED
    BY <2>1, <1>1
<1>13. Closed(close[N], edges)
  <2>1. CASE Cardinality(close[N]) >= N
    <3>1. close[N] \in SUBSET D
      BY <1>12, <1>1
    <3>2. Cardinality(close[N]) \in Nat /\ Cardinality(close[N]) <= N
      BY <3>1, FS_Subset, FS_CardinalityType
    <3>3. close[N] = D
      BY <2>1, <3>1, <3>2, <1>1, FS_Subset
    <3>4. QED
      BY <3>3 DEF Closed
  <2>2. QED
    BY <2>1, <1>12, <1>1
<1>14. QED
  BY <1>8, <1>12, <1>13, <1>1

\* Where no service is among what it needs, the services of a closed set can be
\* ordered: the order is never stuck before its end.
LEMMA AcyclicIsOrdered ==
  ASSUME NEW D \in SUBSET Nat, IsFiniteSet(D), NEW edges \in [D -> SUBSET D],
         \A s \in D : s \notin CloseUnion(edges[s], edges),
         NEW items \in SUBSET D, Closed(items, edges)
  PROVE  /\ InOrder(items, edges, FirstReady(items, edges))
         /\ Len(FirstReady(items, edges)) = Cardinality(items)
         /\ ToSet(FirstReady(items, edges)) = items
<1> DEFINE order == FirstReady(items, edges)
           reach(s) == CloseUnion(edges[s], edges)
           R == items \ ToSet(order)
<1>1. IsFiniteSet(items) /\ items \in SUBSET Nat
  BY FS_Subset
<1>2. InOrder(items, edges, order)
  BY <1>1, FirstReadyIsOrder
<1>3. Stuck(items, edges, order) \/ Len(order) = Cardinality(items)
  BY <1>1, FirstReadyIsOrder
<1> HIDE DEF order
<1>4. ASSUME NEW s \in D
      PROVE  /\ edges[s] \subseteq reach(s) /\ reach(s) \in SUBSET D
             /\ Closed(reach(s), edges)
             /\ \A T \in SUBSET D : edges[s] \subseteq T /\ Closed(T, edges) => reach(s) \subseteq T
  <2> DEFINE base == edges[s]
  <2>1. base \in SUBSET D
    OBVIOUS
  <2> HIDE DEF base
  <2>2. /\ base \subseteq CloseUnion(base, edges) /\ CloseUnion(base, edges) \in SUBSET D
        /\ Closed(CloseUnion(base, edges), edges)
        /\ \A T \in SUBSET D : base \subseteq T /\ Closed(T, edges) =>
             CloseUnion(base, edges) \subseteq T
    BY <2>1, CloseUnionIsClosure
  <2>3. QED
    BY <2>2 DEF base
<1>5. ASSUME Stuck(items, edges, order), R # {}
      PROVE  FALSE
  <2>1. \A s \in R : Cardinality(reach(s)) \in Nat /\ IsFiniteSet(reach(s))
    BY <1>4, FS_Subset, FS_CardinalityType
  <2> DEFINE sizes == {Cardinality(reach(s)) : s \in R}
  <2>2. sizes \in SUBSET Nat /\ sizes # {}
    BY <2>1, <1>5
  <2>3. PICK s \in R : \A r \in R : Cardinality(reach(s)) <= Cardinality(reach(r))
    <3>1. PICK x \in sizes : \A y \in sizes : x <= y
      BY <2>2, LeastNumber
    <3>2. QED
      BY <3>1
  <2>4. PICK r \in edges[s] : r \in R
    <3>1. ~ edges[s] \subseteq ToSet(order)
      BY <1>5 DEF Stuck
    <3>2. edges[s] \subseteq items
      BY DEF Closed
    <3>3. QED
      BY <3>1, <3>2
  <2> HIDE DEF R, reach
  <2>5. s \in D /\ r \in D
    BY DEF R
  <2>6. r \in reach(s)
    BY <2>4, <2>5, <1>4
  <2>7. reach(r) \subseteq reach(s)
    <3>1. edges[r] \subseteq reach(s)
      BY <2>5, <2>6, <1>4 DEF Closed
    <3>2. QED
      BY <3>1, <2>5, <1>4
  <2>8. r \notin reach(r)
    BY <2>5 DEF reach
  <2>9. reach(r) # reach(s)
    BY <2>6, <2>8
  <2>10. /\ Cardinality(reach(r)) # Cardinality(reach(s))
         /\ Cardinality(reach(r)) <= Cardinality(reach(s))
    BY <2>1, <2>3, <2>7, <2>9, FS_Subset
  <2>11. QED
    BY <2>1, <2>3, <2>4, <2>10
<1>6. Len(order) = Cardinality(items)
  <2>1. CASE Stuck(items, edges, order)
    <3>1. R = {}
      BY <1>5, <2>1
    <3>2. ToSet(order) = items
      <4>1. order \in Seq(items)
        BY <1>2 DEF InOrder
      <4>2. ToSet(order) \subseteq items
        BY <4>1, LenProperties DEF ToSet
      <4>3. QED
        BY <3>1, <4>2
    <3>3. order \in Seq(items) /\ Len(order) \in Nat /\ DOMAIN order = 1..Len(order)
          /\ order \in [1..Len(order) -> items]
      BY <1>2, LenProperties DEF InOrder
    <3>4. order \in Injection(1..Len(order), items)
      BY <3>3, <1>2 DEF InOrder, Injection, IsInjective
    <3>5. order \in Surjection(1..Len(order), items)
      BY <3>2, <3>3 DEF Surjection, ToSet
    <3>6. IsFiniteSet(1..Len(order)) /\ Cardinality(1..Len(order)) = Len(order)
      BY <3>3, Places
    <3>7. QED
      BY <3>4, <3>5, <3>6, <1>1, FS_Injection
  <2>2. QED
    BY <2>1, <1>3
<1>7. ToSet(order) = items
  BY <1>1, <1>2, <1>6, FullOrder
<1>8. QED
  BY <1>2, <1>6, <1>7 DEF order

-----------------------------------------------------------------------------
\* The elements of one sequence or the other.
LEMMA ConcatElements ==
  ASSUME NEW S, NEW s \in Seq(S), NEW t \in Seq(S)
  PROVE  ToSet(s \o t) = ToSet(s) \cup ToSet(t)
<1>1. /\ s \o t \in Seq(S) /\ Len(s \o t) = Len(s) + Len(t)
      /\ \A i \in 1..(Len(s) + Len(t)) : (s \o t)[i] = IF i <= Len(s) THEN s[i] ELSE t[i - Len(s)]
  BY ConcatProperties
<1>2. /\ Len(s) \in Nat /\ DOMAIN s = 1..Len(s) /\ Len(t) \in Nat /\ DOMAIN t = 1..Len(t)
      /\ DOMAIN (s \o t) = 1..(Len(s) + Len(t))
  BY <1>1, LenProperties
<1> DEFINE u == s \o t
<1> HIDE DEF u
<1>3. ASSUME NEW i \in DOMAIN s
      PROVE  s[i] \in ToSet(u)
  <2>1. i \in DOMAIN u /\ u[i] = s[i]
    BY <1>1, <1>2 DEF u
  <2>2. QED
    BY <2>1 DEF ToSet
<1>4. ASSUME NEW i \in DOMAIN t
      PROVE  t[i] \in ToSet(u)
  <2> DEFINE k == Len(s) + i
  <2>1. k \in 1..(Len(s) + Len(t)) /\ ~ k <= Len(s) /\ k - Len(s) = i
    BY <1>2
  <2> HIDE DEF k
  <2>2. k \in DOMAIN u /\ u[k] = t[i]
    BY <1>1, <1>2, <2>1 DEF u
  <2>3. QED
    BY <2>2 DEF ToSet
<1>5. ASSUME NEW i \in DOMAIN u
      PROVE  u[i] \in ToSet(s) \cup ToSet(t)
  <2>1. CASE i <= Len(s)
    <3>1. i \in DOMAIN s /\ u[i] = s[i]
      BY <1>1, <1>2, <2>1 DEF u
    <3>2. QED
      BY <3>1 DEF ToSet
  <2>2. CASE ~ i <= Len(s)
    <3>1. i - Len(s) \in DOMAIN t /\ u[i] = t[i - Len(s)]
      BY <1>1, <1>2, <2>2 DEF u
    <3>2. QED
      BY <3>1 DEF ToSet
  <2>3. QED
    BY <2>1, <2>2
<1>6. QED
  BY <1>3, <1>4, <1>5 DEF ToSet, u

\* No element twice.
Distinct(s) == \A i, j \in DOMAIN s : s[i] = s[j] => i = j

\* Two sequences without common elements.
LEMMA ConcatDistinct ==
  ASSUME NEW S, NEW s \in Seq(S), NEW t \in Seq(S), Distinct(s), Distinct(t),
         ToSet(s) \cap ToSet(t) = {}
  PROVE  Distinct(s \o t)
<1>1. /\ s \o t \in Seq(S) /\ Len(s \o t) = Len(s) + Len(t)
      /\ \A i \in 1..(Len(s) + Len(t)) : (s \o t)[i] = IF i <= Len(s) THEN s[i] ELSE t[i - Len(s)]
  BY ConcatProperties
<1>2. /\ Len(s) \in Nat /\ DOMAIN s = 1..Len(s) /\ Len(t) \in Nat /\ DOMAIN t = 1..Len(t)
      /\ DOMAIN (s \o t) = 1..(Len(s) + Len(t))
  BY <1>1, LenProperties
<1> DEFINE u == s \o t
<1> HIDE DEF u
<1>3. ASSUME NEW i \in DOMAIN u, NEW j \in DOMAIN u, u[i] = u[j], i <= Len(s)
      PROVE  i = j
  <2>1. i \in DOMAIN s /\ u[i] = s[i]
    BY <1>1, <1>2, <1>3 DEF u
  <2>2. CASE j <= Len(s)
    <3>1. j \in DOMAIN s /\ u[j] = s[j]
      BY <1>1, <1>2, <2>2 DEF u
    <3>2. QED
      BY <1>3, <2>1, <3>1 DEF Distinct
  <2>3. CASE ~ j <= Len(s)
    <3>1. j - Len(s) \in DOMAIN t /\ u[j] = t[j - Len(s)]
      BY <1>1, <1>2, <2>3 DEF u
    <3>2. u[i] \in ToSet(s) /\ u[i] \in ToSet(t)
      BY <1>3, <2>1, <3>1 DEF ToSet
    <3>3. QED
      BY <3>2
  <2>4. QED
    BY <2>2, <2>3
<1>4. ASSUME NEW i \in DOMAIN u, NEW j \in DOMAIN u, u[i] = u[j],
             ~ i <= Len(s), ~ j <= Len(s)
      PROVE  i = j
  <2>1. /\ i - Len(s) \in DOMAIN t /\ u[i] = t[i - Len(s)]
        /\ j - Len(s) \in DOMAIN t /\ u[j] = t[j - Len(s)]
    BY <1>1, <1>2, <1>4 DEF u
  <2>2. i - Len(s) = j - Len(s)
    BY <1>4, <2>1 DEF Distinct
  <2>3. i \in Nat /\ j \in Nat
    BY <1>2 DEF u
  <2>4. QED
    BY <1>2, <2>2, <2>3
<1>5. QED
  BY <1>3, <1>4 DEF Distinct, u

\* What is joined has the elements of its parts, each once where they are apart.
LEMMA FlattenSeqElements ==
  ASSUME NEW S, NEW s \in Seq(Seq(S)), s # <<>>
  PROVE  /\ FlattenSeq(s) \in Seq(S)
         /\ ToSet(FlattenSeq(s)) = UNION {ToSet(s[i]) : i \in DOMAIN s}
         /\ (/\ \A i \in DOMAIN s : Distinct(s[i])
             /\ \A i, j \in DOMAIN s : i # j => ToSet(s[i]) \cap ToSet(s[j]) = {})
              => Distinct(FlattenSeq(s))
<1> DEFINE N == Len(s)
           apart == /\ \A i \in DOMAIN s : Distinct(s[i])
                    /\ \A i, j \in DOMAIN s : i # j => ToSet(s[i]) \cap ToSet(s[j]) = {}
<1>1. N \in Nat \ {0} /\ DOMAIN s = 1..N /\ \A i \in 1..N : s[i] \in Seq(S)
  BY EmptySeq, LenProperties
<1>2. PICK f : /\ FlattenSeq(s) = f[Len(s)] /\ f[1] = s[1]
               /\ \A k \in 1..Len(s) : f[k] \in Seq(S)
               /\ \A n \in Nat : n + 1 \in 2..Len(s) => f[n + 1] = f[n] \o s[n + 1]
  BY FlattenSeqUnrolls
<1> DEFINE upto(n) == UNION {ToSet(s[i]) : i \in 1..n}
           Good == {n \in Nat : n + 1 <= N =>
                      ToSet(f[n + 1]) = upto(n + 1) /\ (apart => Distinct(f[n + 1]))}
<1>3. 0 \in Good
  <2>1. upto(1) = ToSet(s[1])
    OBVIOUS
  <2>2. f[0 + 1] = s[1] /\ 1 \in DOMAIN s
    BY <1>1, <1>2
  <2> HIDE DEF upto
  <2>3. QED
    BY <2>1, <2>2
<1>4. ASSUME NEW n \in Nat, n \in Good
      PROVE  n + 1 \in Good
  <2> DEFINE k == n + 1
  <2>1. SUFFICES ASSUME k + 1 <= N
                 PROVE  ToSet(f[k + 1]) = upto(k + 1) /\ (apart => Distinct(f[k + 1]))
    OBVIOUS
  <2>2. k \in 1..N /\ k + 1 \in 2..N /\ k + 1 \in 1..N /\ k \in Nat /\ k + 1 \in DOMAIN s
        /\ k + 1 \notin 1..k /\ 1..k \subseteq DOMAIN s
    BY <1>1, <2>1
  <2>3. ToSet(f[k]) = upto(k) /\ (apart => Distinct(f[k]))
    <3>1. n + 1 <= N
      BY <1>1, <2>1
    <3>2. QED
      BY <1>4, <3>1
  <2>4. 1..(k + 1) = 1..k \cup {k + 1}
    BY <2>2
  <2> HIDE DEF k
  <2>5. f[k + 1] = f[k] \o s[k + 1] /\ f[k] \in Seq(S) /\ s[k + 1] \in Seq(S)
    BY <1>1, <1>2, <2>2
  <2>6. upto(k + 1) = upto(k) \cup ToSet(s[k + 1])
    BY <2>4
  <2>7. ToSet(f[k + 1]) = upto(k + 1)
    <3> HIDE DEF upto
    <3>1. ToSet(f[k] \o s[k + 1]) = ToSet(f[k]) \cup ToSet(s[k + 1])
      BY <2>5, ConcatElements
    <3>2. QED
      BY <2>3, <2>5, <2>6, <3>1
  <2>8. ASSUME apart
        PROVE  Distinct(f[k + 1])
    <3>1. upto(k) \cap ToSet(s[k + 1]) = {}
      BY <2>2, <2>8
    <3>2. Distinct(s[k + 1]) /\ Distinct(f[k])
      BY <2>2, <2>3, <2>8
    <3> HIDE DEF upto
    <3>3. QED
      BY <2>3, <2>5, <3>1, <3>2, ConcatDistinct
  <2>9. QED
    BY <2>7, <2>8
<1>5. N - 1 \in Good /\ N - 1 + 1 = N
  <2> HIDE DEF Good
  <2>1. Nat \subseteq Good
    BY <1>3, <1>4, Induction
  <2>2. QED
    BY <2>1, <1>1
<1>6. ToSet(f[N]) = upto(N) /\ (apart => Distinct(f[N]))
  BY <1>1, <1>5
<1>7. QED
  BY <1>1, <1>2, <1>6

-----------------------------------------------------------------------------
\* Nodes of a plan: what they run is a leaf.
LeafNodes(p) ==
  [path : Seq(Nat), task : {t \in Tasks(p) : IsLeaf(p, t)}, after : SUBSET Seq(Nat)]

\* The shape of a manifest, one declaration at a time.
LEMMA ManifestShape ==
  ASSUME NEW p, IsManifest(p)
  PROVE  /\ Services(p) \in SUBSET Nat /\ IsFiniteSet(Services(p)) /\ 0 \notin Services(p)
         /\ Tasks(p) \in SUBSET Nat /\ IsFiniteSet(Tasks(p)) /\ 0 \notin Tasks(p)
         /\ \A s \in Services(p) :
              /\ p.services[s].connects \in SUBSET Nat
              /\ p.services[s].endpoints \in SUBSET (Nat \ {0})
              /\ IsFiniteSet(p.services[s].endpoints)
              /\ p.services[s].primary \in Nat /\ p.services[s].prepare \in Nat
         /\ \A t \in Tasks(p) :
              /\ p.tasks[t].requires \in Seq(Nat)
              /\ p.tasks[t].steps \in Seq(StepDeclarations)
<1>1. /\ p.services \in Seq(ServiceDeclarations) /\ p.tasks \in Seq(TaskDeclarations)
      /\ \A s \in DOMAIN p.services : IsFiniteSet(p.services[s].endpoints)
  BY DEF IsManifest
<1>2. /\ Len(p.services) \in Nat /\ DOMAIN p.services = 1..Len(p.services)
      /\ p.services \in [1..Len(p.services) -> ServiceDeclarations]
  BY <1>1, LenProperties
<1>3. /\ Len(p.tasks) \in Nat /\ DOMAIN p.tasks = 1..Len(p.tasks)
      /\ p.tasks \in [1..Len(p.tasks) -> TaskDeclarations]
  BY <1>1, LenProperties
<1>4. /\ \A s \in Services(p) : p.services[s] \in ServiceDeclarations
      /\ \A t \in Tasks(p) : p.tasks[t] \in TaskDeclarations
  BY <1>2, <1>3 DEF Services, Tasks
<1>5. IsFiniteSet(1..Len(p.services)) /\ IsFiniteSet(1..Len(p.tasks))
  BY <1>2, <1>3, Places
<1>6. \A s \in Services(p) :
        /\ p.services[s].connects \in SUBSET Nat
        /\ p.services[s].endpoints \in SUBSET (Nat \ {0})
        /\ p.services[s].primary \in Nat /\ p.services[s].prepare \in Nat
  BY <1>4 DEF ServiceDeclarations
<1>7. \A t \in Tasks(p) : p.tasks[t].requires \in Seq(Nat)
                          /\ p.tasks[t].steps \in Seq(StepDeclarations)
  BY <1>4 DEF TaskDeclarations
<1>8. Services(p) = 1..Len(p.services) /\ Tasks(p) = 1..Len(p.tasks)
  BY <1>2, <1>3 DEF Services, Tasks
<1>9. QED
  BY <1>1, <1>2, <1>3, <1>5, <1>6, <1>7, <1>8 DEF Services

\* A leaf below a step, as a leaf below the composite.
Under(steps, below, i, y) ==
  [path  |-> Deeper(i, y.path),
   task  |-> y.task,
   after |-> {Deeper(i, q) : q \in y.after}
               \cup UNION {Subtree(d, below[d]) : d \in steps[i].after}]

\* A step before a path.
LEMMA StepPath ==
  ASSUME NEW i \in Nat, NEW q \in Seq(Nat)
  PROVE  /\ Deeper(i, q) \in Seq(Nat)
         /\ Len(q) \in Nat /\ DOMAIN q = 1..Len(q)
         /\ Len(Deeper(i, q)) = Len(q) + 1 /\ DOMAIN Deeper(i, q) = 1..(Len(q) + 1)
         /\ Deeper(i, q)[1] = i
         /\ \A n \in Nat : n \in DOMAIN q => Deeper(i, q)[n + 1] = q[n]
<1> DEFINE s == <<i>>
<1>1. s \in Seq(Nat) /\ Len(s) = 1 /\ s[1] = i
  OBVIOUS
<1> HIDE DEF s
<1>2. /\ s \o q \in Seq(Nat) /\ Len(s \o q) = Len(s) + Len(q)
      /\ \A n \in 1..(Len(s) + Len(q)) : (s \o q)[n] = IF n <= Len(s) THEN s[n] ELSE q[n - Len(s)]
  BY <1>1, ConcatProperties
<1>3. Len(q) \in Nat /\ DOMAIN q = 1..Len(q) /\ DOMAIN (s \o q) = 1..Len(s \o q)
  BY <1>2, LenProperties
<1>4. (s \o q)[1] = i
  BY <1>1, <1>2, <1>3
<1>5. ASSUME NEW n \in Nat, n \in DOMAIN q
      PROVE  (s \o q)[n + 1] = q[n]
  <2>1. n + 1 \in 1..(Len(s) + Len(q)) /\ ~ n + 1 <= Len(s) /\ n + 1 - Len(s) = n
    BY <1>1, <1>3, <1>5
  <2>2. QED
    BY <1>2, <2>1
<1>6. Len(s \o q) = Len(q) + 1
  BY <1>1, <1>2, <1>3
<1>7. QED
  BY <1>2, <1>3, <1>4, <1>5, <1>6 DEF s, Deeper

\* The step and the path are found again.
LEMMA StepPathIsInjective ==
  ASSUME NEW i \in Nat, NEW j \in Nat, NEW q \in Seq(Nat), NEW r \in Seq(Nat),
         Deeper(i, q) = Deeper(j, r)
  PROVE  i = j /\ q = r
<1>1. /\ Len(q) \in Nat /\ DOMAIN q = 1..Len(q)
      /\ Len(Deeper(i, q)) = Len(q) + 1 /\ Deeper(i, q)[1] = i
      /\ \A n \in Nat : n \in DOMAIN q => Deeper(i, q)[n + 1] = q[n]
  BY StepPath
<1>2. /\ Len(r) \in Nat /\ DOMAIN r = 1..Len(r)
      /\ Len(Deeper(j, r)) = Len(r) + 1 /\ Deeper(j, r)[1] = j
      /\ \A n \in Nat : n \in DOMAIN r => Deeper(j, r)[n + 1] = r[n]
  BY StepPath
<1>3. i = j /\ Len(q) = Len(r)
  <2>1. Deeper(i, q) = Deeper(j, r)
    OBVIOUS
  <2>2. Deeper(i, q)[1] = i /\ Deeper(i, q)[1] = j
    BY <1>1, <1>2, <2>1
  <2>3. Len(q) + 1 = Len(r) + 1
    BY <1>1, <1>2, <2>1
  <2>4. Len(q) \in Nat /\ Len(r) \in Nat
    BY <1>1, <1>2
  <2>5. Len(q) = Len(r)
    BY <2>3, <2>4
  <2>6. QED
    BY <2>2, <2>5
<1>4. ASSUME NEW n \in 1..Len(q)
      PROVE  q[n] = r[n]
  <2>1. n \in Nat /\ n \in DOMAIN q /\ n \in DOMAIN r
    BY <1>1, <1>2, <1>3
  <2>2. QED
    BY <2>1, <1>1, <1>2
<1>5. q = r
  BY <1>3, <1>4, SeqEqual
<1>6. QED
  BY <1>3, <1>5

\* Each node has its own path.
PathsDiffer(nodes) == \A x, y \in ToSet(nodes) : x.path = y.path => x = y

\* What is joined are the leaves below the steps.
LEMMA JoinedElements ==
  ASSUME NEW p, NEW steps \in Seq(StepDeclarations), steps # <<>>,
         \A i \in DOMAIN steps : steps[i].after \subseteq DOMAIN steps,
         NEW below, \A i \in DOMAIN steps : below[i] \in Seq(LeafNodes(p))
  PROVE  /\ Joined(steps, below) \in Seq(LeafNodes(p))
         /\ ToSet(Joined(steps, below)) =
              UNION {{Under(steps, below, i, y) : y \in ToSet(below[i])} : i \in DOMAIN steps}
         /\ (\A i \in DOMAIN steps : Distinct(below[i]) /\ PathsDiffer(below[i])) =>
              Distinct(Joined(steps, below))
<1> DEFINE N == LeafNodes(p)
           node(i, n) == Under(steps, below, i, below[i][n])
           within(i) == [n \in DOMAIN below[i] |-> node(i, n)]
           parts == [i \in DOMAIN steps |-> within(i)]
<1>1. Len(steps) \in Nat \ {0} /\ DOMAIN steps = 1..Len(steps)
  BY EmptySeq, LenProperties
<1>2. ASSUME NEW i \in DOMAIN steps, NEW q \in Seq(Nat)
      PROVE  Deeper(i, q) \in Seq(Nat)
  BY <1>1, StepPath
<1>3. ASSUME NEW i \in DOMAIN steps
      PROVE  /\ Len(below[i]) \in Nat /\ DOMAIN below[i] = 1..Len(below[i])
             /\ \A n \in DOMAIN below[i] : below[i][n] \in N
  BY LenProperties
<1>4. ASSUME NEW i \in DOMAIN steps
      PROVE  Subtree(i, below[i]) \subseteq Seq(Nat)
  <2>1. ASSUME NEW n \in DOMAIN below[i]
        PROVE  Deeper(i, below[i][n].path) \in Seq(Nat)
    <3>1. below[i][n].path \in Seq(Nat)
      BY <1>3 DEF LeafNodes
    <3>2. QED
      BY <3>1, <1>2
  <2>2. QED
    BY <2>1 DEF Subtree, ToSet
<1>5. ASSUME NEW i \in DOMAIN steps, NEW n \in DOMAIN below[i]
      PROVE  node(i, n) \in N
  <2>1. /\ below[i][n].path \in Seq(Nat) /\ below[i][n].after \in SUBSET Seq(Nat)
        /\ below[i][n].task \in {t \in Tasks(p) : IsLeaf(p, t)}
    BY <1>3 DEF LeafNodes
  <2>2. Deeper(i, below[i][n].path) \in Seq(Nat)
    BY <2>1, <1>2
  <2>3. {Deeper(i, q) : q \in below[i][n].after} \subseteq Seq(Nat)
    BY <2>1, <1>2
  <2>4. UNION {Subtree(d, below[d]) : d \in steps[i].after} \subseteq Seq(Nat)
    BY <1>4
  <2>5. QED
    BY <2>1, <2>2, <2>3, <2>4 DEF LeafNodes, Under
<1>6. ASSUME NEW i \in DOMAIN steps, NEW j \in DOMAIN steps,
             NEW m \in DOMAIN below[i], NEW n \in DOMAIN below[j], node(i, m) = node(j, n)
      PROVE  i = j /\ below[i][m].path = below[j][n].path
  <2> DEFINE q == below[i][m].path
             r == below[j][n].path
  <2>1. q \in Seq(Nat) /\ r \in Seq(Nat)
    BY <1>3 DEF LeafNodes
  <2>2. Deeper(i, q) = Deeper(j, r)
    BY <1>6 DEF Under
  <2>3. i \in Nat /\ j \in Nat
    BY <1>1
  <2> HIDE DEF node, q, r
  <2>4. i = j /\ q = r
    BY <2>1, <2>2, <2>3, StepPathIsInjective
  <2>5. QED
    BY <2>4 DEF q, r
<1> HIDE DEF N
<1>7. ASSUME NEW i \in DOMAIN steps
      PROVE  /\ within(i) \in Seq(N)
             /\ ToSet(within(i)) = {Under(steps, below, i, y) : y \in ToSet(below[i])}
             /\ Distinct(below[i]) /\ PathsDiffer(below[i]) => Distinct(within(i))
  <2> DEFINE L == Len(below[i])
  <2>1. \A n \in 1..L : node(i, n) \in N
    BY <1>3, <1>5
  <2>2. within(i) = [n \in 1..L |-> node(i, n)] /\ DOMAIN within(i) = DOMAIN below[i]
    BY <1>3
  <2>3. L \in Nat /\ within(i) \in [1..L -> N]
    BY <2>1, <2>2, <1>3
  <2>4. ToSet(within(i)) = {Under(steps, below, i, y) : y \in ToSet(below[i])}
    BY DEF ToSet
  <2>5. ASSUME Distinct(below[i]), PathsDiffer(below[i]),
               NEW m \in DOMAIN below[i], NEW n \in DOMAIN below[i], within(i)[m] = within(i)[n]
        PROVE  m = n
    <3>1. below[i][m].path = below[i][n].path
      BY <1>6, <2>5
    <3>2. below[i][m] \in ToSet(below[i]) /\ below[i][n] \in ToSet(below[i])
      BY DEF ToSet
    <3>3. QED
      BY <2>5, <3>1, <3>2 DEF PathsDiffer, Distinct
  <2>6. Distinct(below[i]) /\ PathsDiffer(below[i]) => Distinct(within(i))
    BY <2>2, <2>5 DEF Distinct
  <2> HIDE DEF within, L
  <2>7. QED
    BY <2>3, <2>4, <2>6
<1>8. ASSUME NEW i \in DOMAIN steps, NEW j \in DOMAIN steps, i # j
      PROVE  ToSet(within(i)) \cap ToSet(within(j)) = {}
  <2>1. ASSUME NEW x, x \in ToSet(within(i)), x \in ToSet(within(j))
        PROVE  FALSE
    <3>1. PICK m \in DOMAIN below[i] : x = node(i, m)
      BY <2>1 DEF ToSet
    <3>2. PICK n \in DOMAIN below[j] : x = node(j, n)
      BY <2>1 DEF ToSet
    <3>3. node(i, m) = node(j, n)
      BY <3>1, <3>2
    <3> HIDE DEF node
    <3>4. QED
      BY <1>6, <1>8, <3>3
  <2>2. QED
    BY <2>1
<1>9. Joined(steps, below) = FlattenSeq(parts)
  BY DEF Joined, Under
<1> HIDE DEF within
<1>10. parts \in Seq(Seq(N)) /\ parts # <<>>
  <2>1. \A i \in 1..Len(steps) : within(i) \in Seq(N)
    BY <1>1, <1>7
  <2>2. [i \in 1..Len(steps) |-> within(i)] \in Seq(Seq(N))
    BY <2>1, <1>1
  <2>3. DOMAIN parts # DOMAIN <<>>
    BY <1>1
  <2>4. QED
    BY <2>2, <2>3, <1>1
<1>11. DOMAIN parts = DOMAIN steps /\ \A i \in DOMAIN steps : parts[i] = within(i)
  OBVIOUS
<1> HIDE DEF parts
<1>12. /\ FlattenSeq(parts) \in Seq(N)
       /\ ToSet(FlattenSeq(parts)) = UNION {ToSet(parts[i]) : i \in DOMAIN parts}
       /\ (/\ \A i \in DOMAIN parts : Distinct(parts[i])
           /\ \A i, j \in DOMAIN parts : i # j => ToSet(parts[i]) \cap ToSet(parts[j]) = {})
            => Distinct(FlattenSeq(parts))
  BY <1>10, FlattenSeqElements
<1>13. UNION {ToSet(parts[i]) : i \in DOMAIN parts} =
         UNION {{Under(steps, below, i, y) : y \in ToSet(below[i])} : i \in DOMAIN steps}
  BY <1>7, <1>11
<1>14. QED
  BY <1>7, <1>8, <1>9, <1>11, <1>12, <1>13 DEF N

-----------------------------------------------------------------------------
\* A task and the tasks that are being visited.
Calls == Nat \X SUBSET Nat

\* The tasks a call has not visited yet.
Unvisited(p, call) == Tasks(p) \ call[2]

\* The calls with fewer than so many tasks left.
CallsBelow(p, k) == {call \in Calls : Cardinality(Unvisited(p, call)) < k}

\* The call for a step.
StepCall(p, call, i) == <<p.tasks[call[1]].steps[i].task, call[2] \cup {call[1]}>>

\* A call that goes on to its steps.
Descends(p, call) ==
  call[1] \in Tasks(p) /\ call[1] \notin call[2] /\ ~ IsLeaf(p, call[1])

\* A call has fewer tasks left than the call it is made by.
LEMMA StepCallIsSmaller ==
  ASSUME NEW p, IsManifest(p), NEW call \in Calls, Descends(p, call),
         NEW i \in DOMAIN p.tasks[call[1]].steps
  PROVE  /\ StepCall(p, call, i) \in Calls
         /\ Cardinality(Unvisited(p, call)) \in Nat
         /\ Cardinality(Unvisited(p, StepCall(p, call, i))) = Cardinality(Unvisited(p, call)) - 1
<1> DEFINE t == call[1]
           U == Unvisited(p, call)
<1>1. t \in Tasks(p) /\ t \in U /\ call[2] \in SUBSET Nat /\ t \in Nat
  BY DEF Descends, Unvisited, Calls
<1>2. p.tasks[t].steps[i].task \in Nat
  <2>1. p.tasks[t].steps \in Seq(StepDeclarations)
    BY <1>1, ManifestShape
  <2>2. p.tasks[t].steps[i] \in StepDeclarations
    BY <2>1, LenProperties
  <2>3. QED
    BY <2>2 DEF StepDeclarations
<1>3. StepCall(p, call, i) \in Calls
  BY <1>1, <1>2 DEF StepCall, Calls
<1>4. IsFiniteSet(U)
  <2>1. IsFiniteSet(Tasks(p))
    BY ManifestShape
  <2>2. U \in SUBSET Tasks(p)
    BY DEF Unvisited
  <2>3. QED
    BY <2>1, <2>2, FS_Subset
<1>5. Unvisited(p, StepCall(p, call, i)) = U \ {t}
  BY DEF Unvisited, StepCall
<1>6. Cardinality(U \ {t}) = Cardinality(U) - 1
  BY <1>1, <1>4, FS_RemoveElement
<1>7. Cardinality(U) \in Nat
  BY <1>4, FS_CardinalityType
<1>8. QED
  BY <1>3, <1>5, <1>6, <1>7

\* Where the steps' calls give leaves, so does the call.
LEMMA LeavesBelowType ==
  ASSUME NEW p, IsManifest(p), ReferencesDeclared(p), NEW call \in Calls, NEW emit,
         Descends(p, call) => \A i \in DOMAIN p.tasks[call[1]].steps :
                                emit[StepCall(p, call, i)] \in Seq(LeafNodes(p))
  PROVE  LeavesBelow(p, call, emit) \in Seq(LeafNodes(p))
<1> DEFINE t     == call[1]
           steps == p.tasks[t].steps
           below == [i \in DOMAIN steps |-> emit[StepCall(p, call, i)]]
<1>1. LeavesBelow(p, call, emit) =
        IF t \notin Tasks(p) \/ t \in call[2] THEN <<>>
        ELSE IF IsLeaf(p, t) THEN <<[path |-> <<>>, task |-> t, after |-> {}]>>
        ELSE IF \E i \in DOMAIN steps : below[i] = <<>> THEN <<>>
        ELSE Joined(steps, below)
  BY DEF LeavesBelow, StepCall
<1>2. <<>> \in Seq(LeafNodes(p))
  BY EmptySeq
<1>3. ASSUME t \in Tasks(p), IsLeaf(p, t)
      PROVE  <<[path |-> <<>>, task |-> t, after |-> {}]>> \in Seq(LeafNodes(p))
  <2>1. [path |-> <<>>, task |-> t, after |-> {}] \in LeafNodes(p)
    BY <1>3, EmptySeq DEF LeafNodes
  <2>2. QED
    BY <2>1
<1>4. ASSUME Descends(p, call)
      PROVE  Joined(steps, below) \in Seq(LeafNodes(p))
  <2>1. steps \in Seq(StepDeclarations) /\ steps # <<>>
    BY <1>4, ManifestShape DEF Descends, IsLeaf
  <2>2. \A i \in DOMAIN steps : steps[i].after \subseteq DOMAIN steps
    BY <1>4 DEF ReferencesDeclared, Descends
  <2>3. \A i \in DOMAIN steps : below[i] \in Seq(LeafNodes(p))
    BY <1>4
  <2> HIDE DEF steps, below
  <2>4. QED
    BY <2>1, <2>2, <2>3, JoinedElements
<1> HIDE DEF below, steps
<1>5. QED
  BY <1>1, <1>2, <1>3, <1>4 DEF Descends

\* A call depends on the calls of its steps only.
LEMMA LeavesBelowDepends ==
  ASSUME NEW p, NEW call, NEW f, NEW g,
         Descends(p, call) => \A i \in DOMAIN p.tasks[call[1]].steps :
                                f[StepCall(p, call, i)] = g[StepCall(p, call, i)]
  PROVE  LeavesBelow(p, call, f) = LeavesBelow(p, call, g)
<1> DEFINE t     == call[1]
           steps == p.tasks[t].steps
           below(e) == [i \in DOMAIN steps |-> e[StepCall(p, call, i)]]
<1>1. ASSUME NEW e
      PROVE  LeavesBelow(p, call, e) =
               IF t \notin Tasks(p) \/ t \in call[2] THEN <<>>
               ELSE IF IsLeaf(p, t) THEN <<[path |-> <<>>, task |-> t, after |-> {}]>>
               ELSE IF \E i \in DOMAIN steps : below(e)[i] = <<>> THEN <<>>
               ELSE Joined(steps, below(e))
  BY DEF LeavesBelow, StepCall
<1>2. Descends(p, call) => below(f) = below(g)
  OBVIOUS
<1> HIDE DEF below, steps
<1>3. QED
  BY <1>1, <1>2 DEF Descends

\* There is a function that gives each call what its steps' calls give.
LEMMA EmitExists ==
  ASSUME NEW p, IsManifest(p), ReferencesDeclared(p)
  PROVE  \E emit : emit = [call \in Calls |-> LeavesBelow(p, call, emit)]
<1> DEFINE D(k) == CallsBelow(p, k)
           Solves(f, k) == f = [call \in D(k) |-> f[call]]
                           /\ \A call \in D(k) : f[call] = LeavesBelow(p, call, f)
           Good == {k \in Nat : \E f : Solves(f, k)}
<1>1. \A call \in Calls : /\ IsFiniteSet(Unvisited(p, call))
                          /\ Cardinality(Unvisited(p, call)) \in Nat
                          /\ Cardinality(Unvisited(p, call)) <= Cardinality(Tasks(p))
  <2>1. \A call : Unvisited(p, call) \in SUBSET Tasks(p)
    BY DEF Unvisited
  <2>2. QED
    BY <2>1, ManifestShape, FS_Subset, FS_CardinalityType
<1>2. Cardinality(Tasks(p)) \in Nat
  BY ManifestShape, FS_CardinalityType
<1>3. 0 \in Good
  <2>1. D(0) = {}
    BY <1>1 DEF CallsBelow
  <2> DEFINE f == [call \in D(0) |-> <<>>]
  <2>2. Solves(f, 0)
    BY <2>1
  <2>3. QED
    BY <2>2
<1>4. ASSUME NEW k \in Nat, k \in Good
      PROVE  k + 1 \in Good
  <2>1. PICK f : Solves(f, k)
    BY <1>4
  <2> DEFINE g == [call \in D(k + 1) |-> LeavesBelow(p, call, f)]
  <2>2. D(k) \subseteq D(k + 1)
    BY <1>1 DEF CallsBelow
  <2>3. \A call \in D(k) : g[call] = f[call]
    BY <2>1, <2>2
  <2>4. ASSUME NEW call \in D(k + 1)
        PROVE  g[call] = LeavesBelow(p, call, g)
    <3>1. call \in Calls /\ Cardinality(Unvisited(p, call)) < k + 1
      BY DEF CallsBelow
    <3>2. ASSUME Descends(p, call), NEW i \in DOMAIN p.tasks[call[1]].steps
          PROVE  f[StepCall(p, call, i)] = g[StepCall(p, call, i)]
      <4>1. /\ StepCall(p, call, i) \in Calls
            /\ Cardinality(Unvisited(p, call)) \in Nat
            /\ Cardinality(Unvisited(p, StepCall(p, call, i)))
                 = Cardinality(Unvisited(p, call)) - 1
        BY <3>1, <3>2, StepCallIsSmaller
      <4>2. StepCall(p, call, i) \in D(k)
        BY <3>1, <4>1 DEF CallsBelow
      <4>3. QED
        BY <4>2, <2>3
    <3> HIDE DEF g
    <3>3. LeavesBelow(p, call, f) = LeavesBelow(p, call, g)
      BY <3>2, LeavesBelowDepends
    <3>4. QED
      BY <3>3 DEF g
  <2>5. g = [call \in D(k + 1) |-> g[call]]
    OBVIOUS
  <2> HIDE DEF g
  <2>6. Solves(g, k + 1)
    BY <2>4, <2>5
  <2>7. QED
    BY <2>6
<1>5. Cardinality(Tasks(p)) + 1 \in Good
  <2> HIDE DEF Good
  <2>1. Nat \subseteq Good
    BY <1>3, <1>4, Induction
  <2>2. QED
    BY <2>1, <1>2
<1>6. D(Cardinality(Tasks(p)) + 1) = Calls
  BY <1>1, <1>2 DEF CallsBelow
<1>7. PICK f : Solves(f, Cardinality(Tasks(p)) + 1)
  BY <1>5
<1>8. f = [call \in Calls |-> LeavesBelow(p, call, f)]
  BY <1>6, <1>7
<1>9. QED
  BY <1>8

\* Induction over the calls: what holds of a call where it holds of the calls for
\* its steps, holds of every call.
LEMMA CallInduction ==
  ASSUME NEW p, IsManifest(p), NEW S,
         \A call \in Calls :
           (Descends(p, call) =>
              \A i \in DOMAIN p.tasks[call[1]].steps : StepCall(p, call, i) \in S) => call \in S
  PROVE  Calls \subseteq S
<1> DEFINE Good == {k \in Nat : CallsBelow(p, k) \subseteq S}
<1>1. \A call \in Calls : /\ Cardinality(Unvisited(p, call)) \in Nat
                          /\ Cardinality(Unvisited(p, call)) <= Cardinality(Tasks(p))
  <2>1. \A call : Unvisited(p, call) \in SUBSET Tasks(p)
    BY DEF Unvisited
  <2>2. QED
    BY <2>1, ManifestShape, FS_Subset, FS_CardinalityType
<1>2. 0 \in Good
  BY <1>1 DEF CallsBelow
<1>3. ASSUME NEW k \in Nat, k \in Good
      PROVE  k + 1 \in Good
  <2>1. SUFFICES ASSUME NEW call \in CallsBelow(p, k + 1)
                 PROVE  call \in S
    OBVIOUS
  <2>2. call \in Calls /\ Cardinality(Unvisited(p, call)) < k + 1
    BY <2>1 DEF CallsBelow
  <2>3. ASSUME Descends(p, call), NEW i \in DOMAIN p.tasks[call[1]].steps
        PROVE  StepCall(p, call, i) \in S
    <3>1. /\ StepCall(p, call, i) \in Calls
          /\ Cardinality(Unvisited(p, call)) \in Nat
          /\ Cardinality(Unvisited(p, StepCall(p, call, i)))
               = Cardinality(Unvisited(p, call)) - 1
      BY <2>2, <2>3, StepCallIsSmaller
    <3>2. StepCall(p, call, i) \in CallsBelow(p, k)
      BY <2>2, <3>1 DEF CallsBelow
    <3>3. QED
      BY <3>2, <1>3
  <2>4. QED
    BY <2>2, <2>3
<1>4. Cardinality(Tasks(p)) \in Nat
  BY ManifestShape, FS_CardinalityType
<1>5. Cardinality(Tasks(p)) + 1 \in Good
  <2> HIDE DEF Good
  <2>1. Nat \subseteq Good
    BY <1>2, <1>3, Induction
  <2>2. QED
    BY <2>1, <1>4
<1>6. Calls \subseteq CallsBelow(p, Cardinality(Tasks(p)) + 1)
  BY <1>1, <1>4 DEF CallsBelow
<1>7. QED
  BY <1>5, <1>6

\* What each call gives follows from what the calls for its steps give.
Emits(p, emit) == \A call \in Calls : emit[call] = LeavesBelow(p, call, emit)

\* Emit is the first of such calls.
LEMMA EmitUnrolls ==
  ASSUME NEW p, IsManifest(p), ReferencesDeclared(p), NEW root
  PROVE  \E emit : Emits(p, emit) /\ Emit(p, root) = emit[<<root, {}>>]
<1> DEFINE emit == CHOOSE f : f = [call \in Nat \X SUBSET Nat |-> LeavesBelow(p, call, f)]
<1>1. \E f : f = [call \in Nat \X SUBSET Nat |-> LeavesBelow(p, call, f)]
  BY EmitExists DEF Calls
<1>2. emit = [call \in Nat \X SUBSET Nat |-> LeavesBelow(p, call, emit)]
  BY <1>1
<1>3. Emit(p, root) = emit[<<root, {}>>]
  BY Zenon DEF Emit
<1> HIDE DEF emit
<1>4. Emits(p, emit)
  BY <1>2 DEF Calls, Emits
<1>5. QED
  BY <1>3, <1>4

\* The steps' leaves.
StepLeaves(p, call, emit) ==
  [i \in DOMAIN p.tasks[call[1]].steps |-> emit[StepCall(p, call, i)]]

\* What a call gives, case by case.
LEMMA EmitsCases ==
  ASSUME NEW p, NEW emit, Emits(p, emit), NEW call \in Calls
  PROVE  LET t     == call[1]
             steps == p.tasks[t].steps
         IN \/ /\ ~ Descends(p, call) /\ (t \notin Tasks(p) \/ t \in call[2])
               /\ emit[call] = <<>>
            \/ /\ t \in Tasks(p) /\ IsLeaf(p, t)
               /\ emit[call] = <<[path |-> <<>>, task |-> t, after |-> {}]>>
            \/ /\ Descends(p, call) /\ emit[call] = <<>>
               /\ \E i \in DOMAIN steps : emit[StepCall(p, call, i)] = <<>>
            \/ /\ Descends(p, call) /\ emit[call] = Joined(steps, StepLeaves(p, call, emit))
               /\ \A i \in DOMAIN steps : emit[StepCall(p, call, i)] # <<>>
<1> DEFINE t     == call[1]
           steps == p.tasks[t].steps
           below == StepLeaves(p, call, emit)
<1>1. emit[call] = LeavesBelow(p, call, emit)
  BY DEF Emits
<1>2. LeavesBelow(p, call, emit) =
        IF t \notin Tasks(p) \/ t \in call[2] THEN <<>>
        ELSE IF IsLeaf(p, t) THEN <<[path |-> <<>>, task |-> t, after |-> {}]>>
        ELSE IF \E i \in DOMAIN steps : below[i] = <<>> THEN <<>>
        ELSE Joined(steps, below)
  BY DEF LeavesBelow, StepCall, StepLeaves
<1>3. \A i \in DOMAIN steps : below[i] = emit[StepCall(p, call, i)]
  BY DEF StepLeaves
<1> HIDE DEF below
<1>4. QED
  BY <1>1, <1>2, <1>3 DEF Descends, below

\* What a call gives are leaves.
LEMMA EmitsType ==
  ASSUME NEW p, IsManifest(p), ReferencesDeclared(p), NEW emit, Emits(p, emit)
  PROVE  \A call \in Calls : emit[call] \in Seq(LeafNodes(p))
<1> DEFINE S == {call \in Calls : emit[call] \in Seq(LeafNodes(p))}
<1>1. ASSUME NEW call \in Calls,
             Descends(p, call) =>
               \A i \in DOMAIN p.tasks[call[1]].steps : StepCall(p, call, i) \in S
      PROVE  call \in S
  <2>1. emit[call] = LeavesBelow(p, call, emit)
    BY DEF Emits
  <2>2. QED
    BY <1>1, <2>1, LeavesBelowType
<1> HIDE DEF S
<1>2. Calls \subseteq S
  BY <1>1, CallInduction
<1>3. QED
  BY <1>2 DEF S

\* What Emit finds below a task are leaves.
LEMMA EmitType ==
  ASSUME NEW p, IsManifest(p), ReferencesDeclared(p), NEW root \in Nat
  PROVE  Emit(p, root) \in Seq(LeafNodes(p))
<1>1. PICK emit : Emits(p, emit) /\ Emit(p, root) = emit[<<root, {}>>]
  BY EmitUnrolls
<1>2. <<root, {}>> \in Calls
  BY DEF Calls
<1>3. QED
  BY <1>1, <1>2, EmitsType

\* Some nodes that wait for each other and for nothing else.
Knotted(nodes) ==
  \E R \in SUBSET ToSet(nodes) : R # {} /\ \A x \in R : \E y \in R : y.path \in x.after

\* Flatten gives all the nodes, each after those it is after, or there is a knot.
LEMMA FlattenOrder ==
  ASSUME NEW p, IsManifest(p), ReferencesDeclared(p), NEW root \in Nat
  PROVE  /\ Flatten(p, root) \in Seq(LeafNodes(p))
         /\ ToSet(Flatten(p, root)) \subseteq ToSet(Emit(p, root))
         /\ Flatten(p, root) = <<>> => Emit(p, root) = <<>> \/ Knotted(Emit(p, root))
         /\ Flatten(p, root) # <<>> => ToSet(Flatten(p, root)) = ToSet(Emit(p, root))
         /\ Distinct(Emit(p, root)) /\ PathsDiffer(Emit(p, root)) =>
              \A a, b \in DOMAIN Flatten(p, root) :
                LET x == Flatten(p, root)[a]
                    y == Flatten(p, root)[b]
                IN (y.path \in x.after => b < a) /\ (x.path = y.path => a = b)
<1> DEFINE nodes == Emit(p, root)
           flat  == Flatten(p, root)
           waits == [n \in DOMAIN nodes |->
                       {m \in DOMAIN nodes : nodes[m].path \in nodes[n].after}]
           order == FirstReady(DOMAIN nodes, waits)
<1>1. /\ nodes \in Seq(LeafNodes(p)) /\ Len(nodes) \in Nat /\ DOMAIN nodes = 1..Len(nodes)
      /\ \A n \in DOMAIN nodes : nodes[n] \in LeafNodes(p)
  BY EmitType, LenProperties
<1>2. /\ IsFiniteSet(DOMAIN nodes) /\ DOMAIN nodes \in SUBSET Nat
      /\ Cardinality(DOMAIN nodes) = Len(nodes)
  <2> HIDE DEF nodes
  <2>1. IsFiniteSet(1..Len(nodes)) /\ Cardinality(1..Len(nodes)) = Len(nodes)
    BY <1>1, Places
  <2>2. QED
    BY <1>1, <2>1
<1>3. flat = IF Len(order) < Len(nodes) THEN <<>> ELSE [n \in DOMAIN order |-> nodes[order[n]]]
  BY DEF Flatten
<1>4. \A n \in DOMAIN nodes : waits[n] = {m \in DOMAIN nodes : nodes[m].path \in nodes[n].after}
  OBVIOUS
<1> HIDE DEF nodes, waits, flat
<1>5. /\ InOrder(DOMAIN nodes, waits, order)
      /\ Stuck(DOMAIN nodes, waits, order) \/ Len(order) = Len(nodes)
  BY <1>2, FirstReadyIsOrder
<1> HIDE DEF order
<1>6. /\ Len(order) \in Nat /\ DOMAIN order = 1..Len(order)
      /\ order \in [1..Len(order) -> DOMAIN nodes]
  BY <1>5, LenProperties DEF InOrder
<1>7. [n \in DOMAIN order |-> nodes[order[n]]] \in Seq(LeafNodes(p))
  <2>1. [n \in 1..Len(order) |-> nodes[order[n]]] \in [1..Len(order) -> LeafNodes(p)]
    BY <1>1, <1>6
  <2>2. QED
    BY <2>1, <1>6
<1>8. CASE Len(order) < Len(nodes)
  <2>1. flat = <<>> /\ Stuck(DOMAIN nodes, waits, order)
    <3>1. Len(order) \in Nat /\ Len(nodes) \in Nat
      BY <1>1, <1>6
    <3>2. Len(order) # Len(nodes)
      BY <1>8, <3>1
    <3>3. QED
      BY <1>3, <1>5, <1>8, <3>2
  <2> DEFINE left == DOMAIN nodes \ ToSet(order)
             R    == {nodes[n] : n \in left}
  <2>2. left # {}
    <3>1. SUFFICES ASSUME DOMAIN nodes \subseteq ToSet(order)
                   PROVE  FALSE
      OBVIOUS
    <3>2. order \in Surjection(1..Len(order), DOMAIN nodes)
      BY <1>6, <3>1 DEF ToSet, Surjection
    <3>3. IsFiniteSet(1..Len(order)) /\ Cardinality(1..Len(order)) = Len(order)
      BY <1>6, Places
    <3>4. Cardinality(DOMAIN nodes) <= Len(order)
      BY <3>2, <3>3, FS_Surjection
    <3>5. QED
      BY <3>4, <1>1, <1>2, <1>6, <1>8
  <2>3. ASSUME NEW n \in left
        PROVE  \E m \in left : nodes[m].path \in nodes[n].after
    <3>1. ~ waits[n] \subseteq ToSet(order)
      BY <2>1 DEF Stuck
    <3>2. QED
      BY <3>1, <1>4
  <2>4. \A x \in R : \E y \in R : y.path \in x.after
    BY <2>3
  <2>5. R # {} /\ R \in SUBSET ToSet(nodes)
    BY <2>2 DEF ToSet
  <2>6. Knotted(nodes)
    BY <2>4, <2>5 DEF Knotted
  <2>7. <<>> \in Seq(LeafNodes(p)) /\ ToSet(<<>>) = {} /\ DOMAIN <<>> = {}
    BY EmptySeq DEF ToSet
  <2>8. QED
    BY <2>1, <2>6, <2>7 DEF nodes, flat
<1>9. CASE ~ Len(order) < Len(nodes)
  <2>1. flat = [n \in DOMAIN order |-> nodes[order[n]]]
    BY <1>3, <1>9
  <2>2. Len(order) = Len(nodes)
    <3>1. \A i, j \in DOMAIN order : order[i] = order[j] => i = j
      BY <1>5 DEF InOrder
    <3>2. order \in Injection(1..Len(order), DOMAIN nodes)
      BY <1>6, <3>1 DEF Injection, IsInjective
    <3>3. IsFiniteSet(1..Len(order)) /\ Cardinality(1..Len(order)) = Len(order)
      BY <1>6, Places
    <3>4. Cardinality(1..Len(order)) <= Cardinality(DOMAIN nodes)
      BY <3>2, <3>3, <1>2, FS_Injection
    <3>5. QED
      BY <3>3, <3>4, <1>1, <1>2, <1>6, <1>9
  <2>3. ToSet(order) = DOMAIN nodes
    BY <2>2, <1>2, <1>5, FullOrder
  <2>4. DOMAIN flat = DOMAIN order /\ \A n \in DOMAIN order : flat[n] = nodes[order[n]]
    BY <2>1
  <2>5. ToSet(flat) = ToSet(nodes)
    BY <2>3, <2>4 DEF ToSet
  <2>6. ASSUME flat = <<>>
        PROVE  nodes = <<>>
    <3>1. DOMAIN order = {}
      BY <2>4, <2>6
    <3>2. Len(nodes) = 0
      BY <3>1, <2>2, <1>6
    <3>3. QED
      BY <3>2, <1>1, EmptySeq
  <2>7. ASSUME Distinct(nodes), PathsDiffer(nodes), NEW a \in DOMAIN flat, NEW b \in DOMAIN flat
        PROVE  /\ flat[b].path \in flat[a].after => b < a
               /\ flat[a].path = flat[b].path => a = b
    <3>1. order[a] \in DOMAIN nodes /\ order[b] \in DOMAIN nodes
      BY <2>4, <2>7, <1>6
    <3>2. \A i, j \in DOMAIN order : order[i] = order[j] => i = j
      BY <1>5 DEF InOrder
    <3>3. ASSUME flat[b].path \in flat[a].after
          PROVE  b < a
      <4>1. order[b] \in waits[order[a]]
        BY <3>1, <3>3, <2>4, <2>7, <1>4
      <4>2. waits[order[a]] \subseteq {order[j] : j \in 1..(a - 1)}
        BY <2>4, <2>7, <1>5 DEF InOrder
      <4>3. PICK j \in 1..(a - 1) : order[b] = order[j]
        BY <4>1, <4>2
      <4>4. a \in Nat /\ j \in DOMAIN order
        BY <2>4, <2>7, <1>6, <4>3
      <4>5. b = j
        BY <3>2, <2>4, <2>7, <4>3, <4>4
      <4>6. QED
        BY <4>3, <4>4, <4>5
    <3>4. ASSUME flat[a].path = flat[b].path
          PROVE  a = b
      <4>1. nodes[order[a]].path = nodes[order[b]].path
        BY <3>4, <2>4, <2>7
      <4>2. nodes[order[a]] = nodes[order[b]]
        BY <4>1, <3>1, <2>7 DEF PathsDiffer, ToSet
      <4>3. QED
        BY <4>2, <3>1, <3>2, <2>4, <2>7 DEF Distinct
    <3>5. QED
      BY <3>3, <3>4
  <2>8. flat \in Seq(LeafNodes(p))
    BY <2>1, <1>7
  <2>9. QED
    BY <2>5, <2>6, <2>7, <2>8 DEF nodes, flat
<1>10. QED
  BY <1>8, <1>9

-----------------------------------------------------------------------------
\* What leaves require is declared.
LEMMA RequirementsDeclared ==
  ASSUME NEW p, IsManifest(p), ReferencesDeclared(p), NEW nodes \in Seq(LeafNodes(p))
  PROVE  /\ DirectRequirements(p, nodes) \in SUBSET Services(p)
         /\ \A n \in DOMAIN nodes : ToSet(p.tasks[nodes[n].task].requires)
                                      \subseteq DirectRequirements(p, nodes)
<1>1. DOMAIN nodes = 1..Len(nodes) /\ \A n \in DOMAIN nodes : nodes[n] \in LeafNodes(p)
  BY LenProperties
<1>2. \A n \in DOMAIN nodes : nodes[n].task \in Tasks(p)
  BY <1>1 DEF LeafNodes
<1>3. \A t \in Tasks(p) : ToSet(p.tasks[t].requires) \subseteq Services(p)
  BY DEF ReferencesDeclared
<1>4. \A n \in DOMAIN nodes : nodes[n] \in ToSet(nodes)
  BY DEF ToSet
<1>5. \A node \in ToSet(nodes) : node.task \in Tasks(p)
  BY <1>2 DEF ToSet
<1>6. QED
  BY <1>3, <1>4, <1>5 DEF DirectRequirements

\* The leaves of a preparation.
LEMMA PreparationType ==
  ASSUME NEW p, IsManifest(p), ReferencesDeclared(p), NEW s \in Services(p)
  PROVE  Preparation(p, s) \in Seq(LeafNodes(p))
<1>1. p.services[s].prepare \in Nat
  BY ManifestShape
<1>2. Flatten(p, p.services[s].prepare) \in Seq(LeafNodes(p))
  BY <1>1, FlattenOrder
<1>3. QED
  BY <1>2, EmptySeq DEF Preparation

\* What services need is declared.
LEMMA EdgesType ==
  ASSUME NEW p, IsManifest(p), ReferencesDeclared(p)
  PROVE  /\ ServiceEdges(p) \in [Services(p) -> SUBSET Services(p)]
         /\ \A s \in Services(p) :
              /\ p.services[s].connects \subseteq ServiceEdges(p)[s]
              /\ DirectRequirements(p, Preparation(p, s)) \subseteq ServiceEdges(p)[s]
<1>1. ASSUME NEW s \in Services(p)
      PROVE  /\ p.services[s].connects \in SUBSET Services(p)
             /\ DirectRequirements(p, Preparation(p, s)) \in SUBSET Services(p)
  <2>1. Preparation(p, s) \in Seq(LeafNodes(p))
    BY PreparationType
  <2>2. QED
    BY <2>1, RequirementsDeclared DEF ReferencesDeclared
<1>2. QED
  BY <1>1 DEF ServiceEdges

\* The services of a task are declared; with each they have all that it needs.
LEMMA RequiredIsClosed ==
  ASSUME NEW p, IsManifest(p), ReferencesDeclared(p), NEW t \in Tasks(p)
  PROVE  /\ Required(p, t) \in SUBSET Services(p)
         /\ Closed(Required(p, t), ServiceEdges(p))
         /\ DirectRequirements(p, Flatten(p, t)) \subseteq Required(p, t)
         /\ IsFiniteSet(Required(p, t))
<1>1. t \in Nat
  BY ManifestShape
<1>2. Flatten(p, t) \in Seq(LeafNodes(p))
  BY <1>1, FlattenOrder
<1>3. DirectRequirements(p, Flatten(p, t)) \in SUBSET Services(p)
  BY <1>2, RequirementsDeclared
<1>4. IsFiniteSet(Services(p)) /\ ServiceEdges(p) \in [Services(p) -> SUBSET Services(p)]
  BY ManifestShape, EdgesType
<1>5. /\ DirectRequirements(p, Flatten(p, t)) \subseteq Required(p, t)
      /\ Required(p, t) \subseteq Services(p)
      /\ Closed(Required(p, t), ServiceEdges(p))
  BY <1>3, <1>4, CloseUnionIsClosure DEF Required
<1>6. QED
  BY <1>4, <1>5, FS_Subset

\* Where no service needs itself, the services of a task have an order.
LEMMA RequiredIsOrdered ==
  ASSUME NEW p, IsManifest(p), ReferencesDeclared(p), ServicesAcyclic(p), NEW t \in Tasks(p)
  PROVE  LET order == FirstReady(Required(p, t), ServiceEdges(p))
         IN /\ InOrder(Required(p, t), ServiceEdges(p), order)
            /\ Len(order) = Cardinality(Required(p, t))
            /\ ToSet(order) = Required(p, t)
<1>1. Required(p, t) \in SUBSET Services(p) /\ Closed(Required(p, t), ServiceEdges(p))
  BY RequiredIsClosed
<1>2. /\ Services(p) \in SUBSET Nat /\ IsFiniteSet(Services(p))
      /\ ServiceEdges(p) \in [Services(p) -> SUBSET Services(p)]
  BY ManifestShape, EdgesType
<1>3. \A s \in Services(p) : s \notin CloseUnion(ServiceEdges(p)[s], ServiceEdges(p))
  BY DEF ServicesAcyclic
<1>4. QED
  BY <1>1, <1>2, <1>3, AcyclicIsOrdered

-----------------------------------------------------------------------------
\* The endpoints of some services are finitely many.
LEMMA EndpointsType ==
  ASSUME NEW p, IsManifest(p), NEW selected \in SUBSET Services(p)
  PROVE  /\ IsFiniteSet(Endpoints(p, selected))
         /\ \A s \in selected : \A e \in p.services[s].endpoints :
              <<s, e>> \in Endpoints(p, selected) /\ s \in Nat /\ e \in Nat
         /\ Endpoints(p, selected) \subseteq Nat \X Nat
<1> DEFINE own(s) == {s} \X p.services[s].endpoints
           all    == {own(s) : s \in selected}
           f      == [s \in selected |-> own(s)]
<1>1. IsFiniteSet(selected)
  BY ManifestShape, FS_Subset
<1>2. \A s \in selected : IsFiniteSet(own(s))
  BY ManifestShape, FS_Singleton, FS_Product
<1>3. IsFiniteSet(all)
  <2>1. f \in Surjection(selected, all)
    BY DEF Surjection
  <2>2. QED
    BY <1>1, <2>1, FS_Surjection
<1>4. Endpoints(p, selected) = UNION all
  BY DEF Endpoints
<1>5. IsFiniteSet(UNION all)
  BY <1>2, <1>3, FS_UNION
<1>6. \A s \in selected : s \in Nat /\ p.services[s].endpoints \subseteq Nat
  BY ManifestShape
<1>7. \A s \in selected : \A e \in p.services[s].endpoints : <<s, e>> \in UNION all
  OBVIOUS
<1>8. UNION all \subseteq Nat \X Nat
  BY <1>6
<1>9. QED
  BY <1>4, <1>5, <1>6, <1>7, <1>8

\* The order of endpoints in which ports are handed out.
EndpointBefore(f, g) == f[1] < g[1] \/ (f[1] = g[1] /\ f[2] < g[2])

\* Every endpoint has a port of the window, and a later endpoint a later port.
PortsInOrder(p, selected, window, ports) ==
  /\ DOMAIN ports = selected
  /\ \A s \in selected :
       /\ DOMAIN ports[s] = p.services[s].endpoints
       /\ \A e \in p.services[s].endpoints :
            ports[s][e] \in Window(window) /\ ports[s][e] \in Nat \ {0}
  /\ \A s, t \in selected :
       \A e \in p.services[s].endpoints, f \in p.services[t].endpoints :
         EndpointBefore(<<s, e>>, <<t, f>>) => ports[s][e] < ports[t][f]

\* A window that is large enough gives every endpoint its port, in their order.
LEMMA PortsAreInOrder ==
  ASSUME NEW p, IsManifest(p), NEW selected \in SUBSET Services(p),
         NEW window \in PortWindows, window.start # 0, Fits(p, selected, window), MaxPort \in Nat
  PROVE  PortsInOrder(p, selected, window, AssignPorts(p, selected, window))
<1> DEFINE all == Endpoints(p, selected)
           earlier(g) == {f \in all : EndpointBefore(f, g)}
           at0(g) == Cardinality(earlier(g))
           ports == AssignPorts(p, selected, window)
<1>1. /\ IsFiniteSet(all) /\ all \subseteq Nat \X Nat
      /\ \A s \in selected : \A e \in p.services[s].endpoints :
           <<s, e>> \in all /\ s \in Nat /\ e \in Nat
  BY EndpointsType
<1>2. /\ window.start \in Nat /\ window.end \in Nat /\ window.end <= MaxPort
      /\ Cardinality(all) <= window.end - window.start + 1
  BY DEF PortWindows, Fits, Capacity
<1> HIDE DEF all
<1>3. ASSUME NEW g \in all
      PROVE  /\ IsFiniteSet(earlier(g)) /\ at0(g) \in Nat
             /\ at0(g) < Cardinality(all) /\ Cardinality(all) \in Nat
  <2>1. earlier(g) \in SUBSET all /\ g \notin earlier(g)
    BY <1>1 DEF EndpointBefore
  <2>2. earlier(g) # all
    BY <2>1
  <2>3. Cardinality(earlier(g)) <= Cardinality(all) /\ Cardinality(earlier(g)) # Cardinality(all)
        /\ IsFiniteSet(earlier(g))
    BY <1>1, <2>1, <2>2, FS_Subset
  <2>4. QED
    BY <1>1, <2>3, FS_CardinalityType
<1>4. ASSUME NEW g \in all, NEW h \in all, EndpointBefore(g, h)
      PROVE  at0(g) < at0(h)
  <2>1. g[1] \in Nat /\ g[2] \in Nat /\ h[1] \in Nat /\ h[2] \in Nat
    BY <1>1
  <2>2. ASSUME NEW f \in earlier(g)
        PROVE  f \in earlier(h)
    <3>1. f[1] \in Nat /\ f[2] \in Nat /\ f \in all
      BY <1>1
    <3>2. EndpointBefore(f, h)
      BY <1>4, <2>1, <3>1, <2>2 DEF EndpointBefore
    <3>3. QED
      BY <3>1, <3>2
  <2>3. g \in earlier(h) /\ g \notin earlier(g)
    BY <1>4, <2>1 DEF EndpointBefore
  <2>4. earlier(g) \in SUBSET earlier(h) /\ earlier(g) # earlier(h)
    BY <2>2, <2>3
  <2>5. IsFiniteSet(earlier(h)) /\ at0(g) \in Nat /\ at0(h) \in Nat
    BY <1>3
  <2> HIDE DEF earlier
  <2>6. Cardinality(earlier(g)) <= Cardinality(earlier(h))
        /\ Cardinality(earlier(g)) # Cardinality(earlier(h))
    BY <2>4, <2>5, FS_Subset
  <2>7. QED
    BY <2>5, <2>6
<1>5. ports = [s \in selected |-> [e \in p.services[s].endpoints |->
                 Min({window.start + at0(<<s, e>>), MaxPort})]]
  BY DEF AssignPorts, EndpointBefore, all
<1> HIDE DEF at0, earlier, ports
<1>6. ASSUME NEW s \in selected, NEW e \in p.services[s].endpoints
      PROVE  /\ ports[s][e] = window.start + at0(<<s, e>>)
             /\ ports[s][e] \in Nat \ {0} /\ ports[s][e] <= window.end
             /\ window.start <= ports[s][e]
  <2> DEFINE n == at0(<<s, e>>)
             both == {window.start + n, MaxPort}
  <2>1. n \in Nat /\ n < Cardinality(all) /\ Cardinality(all) \in Nat
    BY <1>1, <1>3
  <2> HIDE DEF n
  <2>2. window.start + n <= window.end /\ window.start + n \in Nat
    BY <2>1, <1>2
  <2>3. both \in SUBSET Nat /\ both # {}
    BY <2>2
  <2>4. Min(both) \in both /\ \A y \in both : Min(both) <= y
    BY <2>3, MinIsLeast
  <2>5. Min(both) = window.start + n
    BY <2>2, <2>4, <1>2
  <2>6. ports[s][e] = Min(both)
    BY <1>5 DEF n
  <2>7. QED
    BY <2>1, <2>2, <2>5, <2>6, <1>2 DEF n
<1>7. ASSUME NEW s \in selected, NEW t \in selected,
             NEW e \in p.services[s].endpoints, NEW f \in p.services[t].endpoints,
             EndpointBefore(<<s, e>>, <<t, f>>)
      PROVE  ports[s][e] < ports[t][f]
  <2>1. at0(<<s, e>>) < at0(<<t, f>>)
    BY <1>1, <1>4, <1>7
  <2>2. at0(<<s, e>>) \in Nat /\ at0(<<t, f>>) \in Nat
    BY <1>1, <1>3
  <2>3. QED
    BY <1>2, <1>6, <2>1, <2>2
<1>8. /\ DOMAIN ports = selected
      /\ \A s \in selected : DOMAIN ports[s] = p.services[s].endpoints
  BY <1>5
<1>9. ASSUME NEW s \in selected, NEW e \in p.services[s].endpoints
      PROVE  ports[s][e] \in Window(window) /\ ports[s][e] \in Nat \ {0}
  <2>1. Window(window) = window.start..window.end
    BY DEF Window
  <2>2. /\ window.start <= ports[s][e] /\ ports[s][e] <= window.end
        /\ ports[s][e] \in Nat \ {0}
    BY <1>6
  <2> DEFINE x == ports[s][e]
  <2> HIDE DEF x
  <2>3. x \in Nat /\ window.start <= x /\ x <= window.end
    BY <2>2 DEF x
  <2>4. x \in Window(window)
    BY <2>1, <2>3, <1>2
  <2>5. QED
    BY <2>2, <2>4 DEF x
<1>10. QED
  BY <1>7, <1>8, <1>9 DEF ports, PortsInOrder

\* Windows that do not overlap where they are neighbours do not overlap at all.
LEMMA WindowsAreApart ==
  ASSUME NEW p, IsManifest(p), PlacementsValid(p),
         NEW j \in DOMAIN p.windows, NEW k \in DOMAIN p.windows, j # k
  PROVE  Window(p.windows[j]) \cap Window(p.windows[k]) = {}
<1> DEFINE start(i) == p.windows[i].start
           end(i)   == p.windows[i].end
           Before(h, i) == start(h) < start(i) \/ (start(h) = start(i) /\ h < i)
           I == DOMAIN p.windows
<1>1. /\ I \subseteq Nat
      /\ \A i \in I : start(i) \in Nat /\ end(i) \in Nat /\ start(i) <= end(i)
  <2>1. p.windows \in Seq(PortWindows)
    BY DEF IsManifest
  <2>2. I = 1..Len(p.windows) /\ Len(p.windows) \in Nat /\ \A i \in I : p.windows[i] \in PortWindows
    BY <2>1, LenProperties
  <2>3. \A i \in I : start(i) \in 0..MaxPort /\ end(i) \in 0..MaxPort
    BY <2>2 DEF PortWindows
  <2>4. QED
    BY <2>2, <2>3 DEF PlacementsValid
<1>2. \A h, i \in I : Before(h, i) /\ (~ \E g \in I : Before(h, g) /\ Before(g, i)) =>
                        start(i) > end(h)
  BY DEF PlacementsValid
<1> HIDE DEF I, start, end
<1>3. ASSUME NEW h \in I, NEW i \in I, Before(h, i)
      PROVE  end(h) < start(i)
  <2> DEFINE later  == {g \in I : Before(h, g)}
             starts == {start(g) : g \in later}
  <2>1. starts \in SUBSET Nat /\ starts # {}
    BY <1>1, <1>3
  <2>2. PICK x \in starts : \A y \in starts : x <= y
    BY <2>1, LeastNumber
  <2> DEFINE first == {g \in later : start(g) = x}
  <2>3. first \in SUBSET Nat /\ first # {}
    BY <2>2, <1>1
  <2>4. PICK g \in first : \A y \in first : g <= y
    BY <2>3, LeastNumber
  <2>5. g \in I /\ Before(h, g) /\ start(g) = x
    BY <2>4
  <2>6. ~ \E l \in I : Before(h, l) /\ Before(l, g)
    <3>1. SUFFICES ASSUME NEW l \in I, Before(h, l), Before(l, g)
                   PROVE  FALSE
      OBVIOUS
    <3>2. l \in later /\ start(l) \in starts
      BY <3>1
    <3>3. x <= start(l) /\ start(l) \in Nat /\ l \in Nat /\ g \in Nat /\ x \in Nat
      BY <2>2, <2>5, <3>1, <3>2, <1>1
    <3>4. start(l) = x /\ l < g
      BY <3>1, <3>3, <2>5
    <3>5. g <= l
      BY <2>4, <3>2, <3>4
    <3>6. QED
      BY <3>3, <3>4, <3>5
  <2>7. end(h) < x
    BY <2>5, <2>6, <1>1, <1>2
  <2>8. x <= start(i)
    BY <2>2, <1>3
  <2>9. QED
    BY <2>5, <2>7, <2>8, <1>1
<1>4. Before(j, k) \/ Before(k, j)
  BY <1>1 DEF I
<1>5. end(j) < start(k) \/ end(k) < start(j)
  BY <1>3, <1>4 DEF I
<1>6. Window(p.windows[j]) = start(j)..end(j) /\ Window(p.windows[k]) = start(k)..end(k)
  BY DEF Window, start, end
<1>7. start(j) \in Nat /\ end(j) \in Nat /\ start(k) \in Nat /\ end(k) \in Nat
  BY <1>1 DEF I
<1>8. QED
  BY <1>5, <1>6, <1>7

-----------------------------------------------------------------------------
\* The steps after each check.
WalkSteps       == {"next", "prepare", "run", "done"}
AdmittedSteps   == {"admitted"} \cup WalkSteps
AcyclicSteps    == {"acyclic"} \cup AdmittedSteps
LoweredSteps    == {"lowered"} \cup AcyclicSteps
ReferencedSteps == {"referenced"} \cup LoweredSteps
ValidatedSteps  == {"validated"} \cup ReferencedSteps

\* What the checks that were passed say of the manifest.
Checked ==
  /\ IsManifest(program)
  /\ step \in ValidatedSteps  => PlacementsValid(program) /\ EndpointsValid(program)
  /\ step \in ReferencedSteps => ReferencesDeclared(program)
  /\ step \in LoweredSteps    => PlaceholdersDeclared(program)
  /\ step \in AcyclicSteps    => TasksFlatten(program) /\ ServicesAcyclic(program)
  /\ step \in AdmittedSteps   => TasksFit(program)

\* The plan is that of a task in a slot.
Planned ==
  \E t \in Tasks(program) :
    /\ slot \in DOMAIN program.windows
    /\ plan.nodes = Flatten(program, t)
    /\ plan.services = FirstReady(Required(program, t), ServiceEdges(program))
    /\ plan.ports = AssignPorts(program, Required(program, t), program.windows[slot])

\* Services are started in the order of the plan.
Walked ==
  /\ step \notin WalkSteps => plan = NoPlan /\ started = <<>> /\ at = 1
  /\ step \in WalkSteps =>
       /\ Planned
       /\ started \in Seq(Nat) /\ Len(started) <= Len(plan.services)
       /\ \A i \in DOMAIN started : started[i] = plan.services[i]
       /\ at \in Nat \ {0}
  /\ step = "prepare" => Len(started) < Len(plan.services)

\* The inductive invariant.
PInv == step \in Steps \ {"broken"} /\ Checked /\ Walked

\* A service that listens can be selected.
LEMMA ListeningIsSelected ==
  ASSUME NEW p, EndpointsValid(p), NEW s \in Services(p), Listens(p, s)
  PROVE  Selected(p, s)
BY DEF EndpointsValid, Listens, Selected

\* Where its requirements are there, a leaf finds all it names.
LEMMA LeafFindsNames ==
  ASSUME NEW p, IsManifest(p), EndpointsValid(p), ReferencesDeclared(p), PlaceholdersDeclared(p),
         NEW t \in Tasks(p), IsLeaf(p, t)
  PROVE  p.tasks[t].names \subseteq TaskContext(p, t)
<1> DEFINE requires == p.tasks[t].requires
<1>1. requires \in Seq(Nat) /\ ToSet(requires) \subseteq Services(p)
  BY ManifestShape DEF ReferencesDeclared
<1>2. ASSUME requires # <<>>
      PROVE  Head(requires) = requires[1] /\ requires[1] \in ToSet(requires)
  <2>1. Len(requires) \in Nat \ {0} /\ DOMAIN requires = 1..Len(requires)
    BY <1>1, <1>2, EmptySeq, LenProperties
  <2>2. QED
    BY <1>1, <1>2, <2>1 DEF ToSet
<1>3. p.tasks[t].names \subseteq TaskScope(p, t)
  BY DEF PlaceholdersDeclared
<1>4. \A s \in ToSet(requires) : Listens(p, s) => Selected(p, s)
  BY <1>1, ListeningIsSelected
<1>5. TaskScope(p, t) = (IF requires # <<>> /\ Listens(p, requires[1]) THEN {Bare} ELSE {})
                          \cup {s \in ToSet(requires) : Listens(p, s)}
  BY DEF TaskScope
<1>6. TaskContext(p, t) = (IF requires # <<>> /\ Selected(p, Head(requires)) THEN {Bare} ELSE {})
                            \cup {s \in ToSet(requires) : Selected(p, s)}
  BY DEF TaskContext
<1> HIDE DEF requires
<1>7. TaskScope(p, t) \subseteq TaskContext(p, t)
  BY <1>2, <1>4, <1>5, <1>6
<1>8. QED
  BY <1>3, <1>7

\* Where the services it connects to are selected, a service finds all it names.
LEMMA ServiceFindsNames ==
  ASSUME NEW p, IsManifest(p), EndpointsValid(p), ReferencesDeclared(p), PlaceholdersDeclared(p),
         NEW s \in Services(p), NEW selected, p.services[s].connects \subseteq selected
  PROVE  p.services[s].names \subseteq ServiceContext(p, s, selected)
<1>1. p.services[s].connects \subseteq Services(p)
  BY DEF ReferencesDeclared
<1>2. \A c \in {s} \cup p.services[s].connects : Listens(p, c) => Selected(p, c)
  BY <1>1, ListeningIsSelected
<1>3. ServiceScope(p, s) \subseteq ServiceContext(p, s, selected)
  BY <1>2 DEF ServiceScope, ServiceContext
<1>4. QED
  BY <1>3 DEF PlaceholdersDeclared

\* What the walk relies on.
LEMMA PlanIsSound ==
  ASSUME PlanAssumption, PInv, step \in WalkSteps
  PROVE  /\ plan.services \in Seq(Services(program))
         /\ PortsInOrder(program, ToSet(plan.services), program.windows[slot], plan.ports)
         /\ \A i \in DOMAIN plan.services :
              ServiceEdges(program)[plan.services[i]]
                \subseteq {plan.services[j] : j \in 1..(i - 1)}
         /\ plan.nodes \in Seq(LeafNodes(program))
         /\ DirectRequirements(program, plan.nodes) \subseteq ToSet(plan.services)
         /\ slot \in DOMAIN program.windows
<1>1. /\ IsManifest(program) /\ PlacementsValid(program) /\ ReferencesDeclared(program)
      /\ ServicesAcyclic(program) /\ TasksFit(program)
  BY DEF PInv, Checked, WalkSteps, AdmittedSteps, AcyclicSteps, LoweredSteps, ReferencedSteps,
         ValidatedSteps
<1>2. PICK t \in Tasks(program) :
        /\ slot \in DOMAIN program.windows
        /\ plan.nodes = Flatten(program, t)
        /\ plan.services = FirstReady(Required(program, t), ServiceEdges(program))
        /\ plan.ports = AssignPorts(program, Required(program, t), program.windows[slot])
  BY DEF PInv, Walked, Planned
<1> DEFINE R == Required(program, t)
           order == plan.services
           edges == ServiceEdges(program)
           window == program.windows[slot]
<1>3. R \in SUBSET Services(program) /\ DirectRequirements(program, Flatten(program, t)) \subseteq R
  BY <1>1, RequiredIsClosed
<1>4. InOrder(R, edges, order) /\ ToSet(order) = R
  BY <1>1, <1>2, RequiredIsOrdered
<1>5. t \in Nat
  BY <1>1, ManifestShape
<1>6. plan.nodes \in Seq(LeafNodes(program))
  BY <1>1, <1>2, <1>5, FlattenOrder
<1>7. order \in Seq(Services(program))
  BY <1>3, <1>4, SeqMonotonic DEF InOrder
<1>8. window \in PortWindows /\ window.start # 0 /\ Fits(program, R, window) /\ MaxPort \in Nat
  <2>1. program.windows \in Seq(PortWindows)
    BY <1>1 DEF IsManifest
  <2>2. window \in PortWindows
    BY <1>2, <2>1, LenProperties
  <2>3. window.start # 0
    BY <1>1, <1>2 DEF PlacementsValid
  <2>4. Fits(program, R, window)
    BY <1>1, <1>2 DEF TasksFit
  <2>5. QED
    BY <2>2, <2>3, <2>4 DEF PlanAssumption
<1>9. PortsInOrder(program, R, window, plan.ports)
  BY <1>1, <1>2, <1>3, <1>8, PortsAreInOrder
<1>10. \A i \in DOMAIN order : edges[order[i]] \subseteq {order[j] : j \in 1..(i - 1)}
  BY <1>4 DEF InOrder
<1>11. QED
  BY <1>2, <1>3, <1>4, <1>6, <1>7, <1>9, <1>10

-----------------------------------------------------------------------------
\* A check that is passed adds what it checked; one that fails ends it.
LEMMA CheckStep ==
  ASSUME PInv,
         \/ Validate \/ ProveReferences \/ Lower \/ ProveGraph \/ ProveCapacity
  PROVE  PInv'
<1> USE DEF WalkSteps, AdmittedSteps, AcyclicSteps, LoweredSteps, ReferencedSteps,
            ValidatedSteps, Steps
<1>1. ASSUME NEW from, NEW ok, NEW to, NEW why, Check(from, ok, to, why),
             from \in Steps \ WalkSteps, to \in Steps \ (WalkSteps \cup {"broken"})
      PROVE  /\ step = from /\ program' = program
             /\ (ok /\ step' = to) \/ step' = "refused"
             /\ Walked' /\ step' \in Steps \ {"broken"}
  <2>1. /\ step = from /\ program' = program
        /\ plan' = plan /\ started' = started /\ at' = at
        /\ (ok /\ step' = to) \/ step' = "refused"
    BY <1>1 DEF Check
  <2>2. plan = NoPlan /\ started = <<>> /\ at = 1
    BY <1>1, <2>1 DEF PInv, Walked
  <2>3. step' \notin WalkSteps /\ step' \in Steps \ {"broken"} /\ step' # "prepare"
    BY <1>1, <2>1
  <2>4. QED
    BY <2>1, <2>2, <2>3 DEF Walked
<1>2. CASE Validate
  <2> DEFINE ok  == PlacementsValid(program) /\ EndpointsValid(program)
             why == IF PlacementsValid(program) THEN "endpoints" ELSE "placements"
  <2>1. Check("read", ok, "validated", why)
    BY <1>2 DEF Validate
  <2> HIDE DEF ok, why
  <2>2. /\ step = "read" /\ program' = program /\ Walked' /\ step' \in Steps \ {"broken"}
        /\ (ok /\ step' = "validated") \/ step' = "refused"
    BY <1>1, <2>1
  <2>3. QED
    BY <2>2 DEF PInv, Checked, ok
<1>3. CASE ProveReferences
  <2>1. /\ step = "validated" /\ program' = program /\ Walked' /\ step' \in Steps \ {"broken"}
        /\ \/ step' = "referenced" /\ ReferencesDeclared(program)
           \/ step' = "refused"
    BY <1>1, <1>3 DEF ProveReferences
  <2>2. QED
    BY <2>1 DEF PInv, Checked
<1>4. CASE Lower
  <2>1. /\ step = "referenced" /\ program' = program /\ Walked' /\ step' \in Steps \ {"broken"}
        /\ \/ step' = "lowered" /\ PlaceholdersDeclared(program)
           \/ step' = "refused"
    BY <1>1, <1>4 DEF Lower
  <2>2. QED
    BY <2>1 DEF PInv, Checked
<1>5. CASE ProveGraph
  <2> DEFINE ok  == TasksFlatten(program) /\ ServicesAcyclic(program)
             why == IF TasksFlatten(program) THEN "services" ELSE "tasks"
  <2>1. Check("lowered", ok, "acyclic", why)
    BY <1>5 DEF ProveGraph
  <2> HIDE DEF ok, why
  <2>2. /\ step = "lowered" /\ program' = program /\ Walked' /\ step' \in Steps \ {"broken"}
        /\ (ok /\ step' = "acyclic") \/ step' = "refused"
    BY <1>1, <2>1
  <2>3. QED
    BY <2>2 DEF PInv, Checked, ok
<1>6. CASE ProveCapacity
  <2>1. /\ step = "acyclic" /\ program' = program /\ Walked' /\ step' \in Steps \ {"broken"}
        /\ \/ step' = "admitted" /\ TasksFit(program)
           \/ step' = "refused"
    BY <1>1, <1>6 DEF ProveCapacity
  <2>2. QED
    BY <2>1 DEF PInv, Checked
<1>7. QED
  BY <1>2, <1>3, <1>4, <1>5, <1>6

\* A task that was admitted has a plan in every slot of the policy.
LEMMA PlanStep ==
  ASSUME PlanAssumption, PInv, SelectSlot
  PROVE  PInv'
<1> USE DEF WalkSteps, AdmittedSteps, AcyclicSteps, LoweredSteps, ReferencedSteps,
            ValidatedSteps, Steps
<1>1. PICK t \in Tasks(program), k \in 1..(Len(program.windows) + 1) :
        \/ k \in DOMAIN program.windows /\ Plan(t, k)
        \/ k \notin DOMAIN program.windows /\ Check("admitted", FALSE, "next", "slot")
  BY DEF SelectSlot
<1>2. CASE k \in DOMAIN program.windows /\ Plan(t, k)
  <2> DEFINE order == FirstReady(Required(program, t), ServiceEdges(program))
             ports == AssignPorts(program, Required(program, t), program.windows[k])
             possible == /\ Flatten(program, t) # <<>>
                         /\ Len(order) = Cardinality(Required(program, t))
                         /\ k \in DOMAIN program.windows
                         /\ Fits(program, Required(program, t), program.windows[k])
  <2>1. /\ step = "admitted" /\ slot' = k /\ program' = program
        /\ started' = started /\ at' = at
        /\ possible => /\ step' = "next"
                       /\ plan' = [services |-> order, nodes |-> Flatten(program, t),
                                   ports |-> ports]
    BY <1>2 DEF Plan
  <2>2. /\ IsManifest(program) /\ ReferencesDeclared(program) /\ TasksFlatten(program)
        /\ ServicesAcyclic(program) /\ TasksFit(program)
        /\ plan = NoPlan /\ started = <<>> /\ at = 1
    BY <2>1 DEF PInv, Checked, Walked
  <2>3. possible
    BY <1>2, <2>2, RequiredIsOrdered DEF TasksFlatten, TasksFit
  <2>4. step' = "next" /\ plan'.services = order /\ plan'.nodes = Flatten(program, t)
        /\ plan'.ports = ports
    BY <2>1, <2>3
  <2>5. Planned'
    BY <1>2, <2>1, <2>4 DEF Planned
  <2>6. Len(plan'.services) \in Nat
    <3>1. order \in Seq(Required(program, t))
      BY <2>2, RequiredIsOrdered DEF InOrder
    <3>2. QED
      BY <2>4, <3>1, LenProperties
  <2>7. started' \in Seq(Nat) /\ Len(started') = 0 /\ DOMAIN started' = {}
    BY <2>1, <2>2
  <2>8. Walked'
    BY <2>1, <2>2, <2>4, <2>5, <2>6, <2>7 DEF Walked
  <2>9. Checked'
    BY <2>1, <2>4 DEF PInv, Checked
  <2>10. QED
    BY <2>4, <2>8, <2>9 DEF PInv
<1>3. CASE Check("admitted", FALSE, "next", "slot")
  <2>1. /\ step = "admitted" /\ step' = "refused" /\ program' = program
        /\ plan' = plan /\ started' = started /\ at' = at
    BY <1>3 DEF Check
  <2>2. QED
    BY <2>1 DEF PInv, Checked, Walked
<1>4. QED
  BY <1>1, <1>2, <1>3

\* The walk changes neither the manifest nor the plan.
LEMMA WalkKeeps ==
  ASSUME PInv, step \in WalkSteps, NEW to \in WalkSteps, step' = to,
         UNCHANGED <<program, refusal, slot, plan>>,
         started' \in Seq(Nat), Len(started') <= Len(plan.services),
         \A i \in DOMAIN started' : started'[i] = plan.services[i],
         at' \in Nat \ {0},
         to = "prepare" => Len(started') < Len(plan.services)
  PROVE  PInv'
<1> USE DEF WalkSteps, AdmittedSteps, AcyclicSteps, LoweredSteps, ReferencedSteps,
            ValidatedSteps, Steps
<1>1. program' = program /\ plan' = plan /\ slot' = slot
  OBVIOUS
<1>2. Planned'
  BY <1>1 DEF PInv, Walked, Planned
<1>3. Checked'
  BY <1>1 DEF PInv, Checked
<1>4. Walked'
  BY <1>1, <1>2 DEF Walked
<1>5. QED
  BY <1>3, <1>4 DEF PInv

\* A leaf runs where what it requires was started.
LEMMA LeafRuns ==
  ASSUME PlanAssumption, PInv, step \in WalkSteps, NEW nodes \in Seq(LeafNodes(program)),
         DirectRequirements(program, nodes) \subseteq ToSet(started), NEW n \in DOMAIN nodes
  PROVE  Runs(nodes[n].task)
<1>1. /\ IsManifest(program) /\ EndpointsValid(program) /\ ReferencesDeclared(program)
      /\ PlaceholdersDeclared(program)
  BY DEF PInv, Checked, WalkSteps, AdmittedSteps, AcyclicSteps, LoweredSteps, ReferencedSteps,
         ValidatedSteps
<1>2. nodes[n].task \in Tasks(program) /\ IsLeaf(program, nodes[n].task)
  <2>1. nodes[n] \in LeafNodes(program)
    BY LenProperties
  <2>2. QED
    BY <2>1 DEF LeafNodes
<1>3. ToSet(program.tasks[nodes[n].task].requires) \subseteq ToSet(started)
  BY <1>1, RequirementsDeclared
<1>4. QED
  BY <1>1, <1>2, <1>3, LeafFindsNames DEF Runs

\* The walk never meets a missing service, port or endpoint.
LEMMA WalkStep ==
  ASSUME PlanAssumption, PInv, BindService \/ PrepareLeaf \/ StartService \/ RunLeaf \/ Finish
  PROVE  PInv'
<1> DEFINE order == plan.services
<1>1. step \in WalkSteps
  BY DEF BindService, PrepareLeaf, StartService, RunLeaf, Finish, WalkSteps
<1>2. /\ IsManifest(program) /\ EndpointsValid(program) /\ ReferencesDeclared(program)
      /\ PlaceholdersDeclared(program)
  BY <1>1 DEF PInv, Checked, WalkSteps, AdmittedSteps, AcyclicSteps, LoweredSteps,
              ReferencedSteps, ValidatedSteps
<1>3. /\ started \in Seq(Nat) /\ Len(started) <= Len(order)
      /\ \A i \in DOMAIN started : started[i] = order[i]
      /\ at \in Nat \ {0}
  BY <1>1 DEF PInv, Walked
<1>4. /\ order \in Seq(Services(program))
      /\ PortsInOrder(program, ToSet(order), program.windows[slot], plan.ports)
      /\ \A i \in DOMAIN order :
           ServiceEdges(program)[order[i]] \subseteq {order[j] : j \in 1..(i - 1)}
      /\ plan.nodes \in Seq(LeafNodes(program))
      /\ DirectRequirements(program, plan.nodes) \subseteq ToSet(order)
  BY <1>1, PlanIsSound
<1>5. /\ Len(order) \in Nat /\ DOMAIN order = 1..Len(order)
      /\ Len(started) \in Nat /\ DOMAIN started = 1..Len(started)
      /\ \A i \in DOMAIN order : order[i] \in Services(program)
  BY <1>3, <1>4, LenProperties
<1>6. Services(program) \subseteq Nat
  BY <1>2, ManifestShape
<1> HIDE DEF order
<1>7. ASSUME Len(started) < Len(order)
      PROVE  /\ Current = order[Len(started) + 1] /\ Len(started) + 1 \in DOMAIN order
             /\ Current \in Services(program) /\ Current \in ToSet(order)
             /\ ServiceEdges(program)[Current] \subseteq ToSet(started)
  <2> DEFINE c == Len(started) + 1
  <2>1. c \in DOMAIN order
    BY <1>5, <1>7
  <2>2. Current = order[c]
    BY DEF Current, order
  <2>3. ServiceEdges(program)[order[c]] \subseteq {order[j] : j \in 1..(c - 1)}
    BY <1>4, <2>1
  <2>4. c - 1 = Len(started)
    BY <1>5
  <2> HIDE DEF c
  <2>5. {order[j] : j \in 1..(c - 1)} \subseteq ToSet(started)
    BY <1>3, <1>5, <2>4 DEF ToSet
  <2>6. QED
    BY <1>5, <2>1, <2>2, <2>3, <2>5 DEF c, ToSet
<1>8. CASE BindService
  <2>1. /\ step = "next" /\ Len(started) < Len(order) /\ at' = 1 /\ started' = started
        /\ UNCHANGED <<program, refusal, slot, plan>>
        /\ CoherentPorts(plan.ports[Current], program.services[Current].endpoints)
             /\ program.services[Current].names
                  \subseteq ServiceContext(program, Current, DOMAIN plan.ports)
           => step' = "prepare"
    BY <1>8 DEF BindService, Continue, order
  <2> DEFINE s     == Current
             ports == plan.ports[s]
             own   == program.services[s].endpoints
  <2>2. /\ s \in Services(program) /\ s \in ToSet(order)
        /\ ServiceEdges(program)[s] \subseteq ToSet(started)
    BY <2>1, <1>7
  <2> HIDE DEF s
  <2>3. own \subseteq Nat /\ s \in Nat
    BY <1>2, <1>6, <2>2, ManifestShape
  <2>4. DOMAIN ports = own /\ \A e \in own : ports[e] \in Nat \ {0}
    BY <1>4, <2>2 DEF PortsInOrder
  <2>5. \A e, f \in own : e < f => ports[e] < ports[f]
    BY <1>4, <2>2 DEF PortsInOrder, EndpointBefore
  <2> HIDE DEF own, ports
  <2>6. 0 \notin Range(ports) /\ IsInjective(ports)
    <3>1. \A e, f \in own : e # f => ports[e] # ports[f]
      BY <2>3, <2>4, <2>5
    <3>2. QED
      BY <2>4, <3>1 DEF Range, IsInjective
  <2>7. CoherentPorts(ports, own)
    BY <2>4, <2>6 DEF CoherentPorts
  <2>8. program.services[s].connects \subseteq DOMAIN plan.ports
    <3>1. program.services[s].connects \subseteq ToSet(started)
      BY <1>2, <2>2, EdgesType
    <3>2. ToSet(started) \subseteq ToSet(order)
      <4>1. DOMAIN started \subseteq DOMAIN order
        BY <1>3, <1>5 DEF order
      <4>2. QED
        BY <1>3, <4>1 DEF ToSet, order
    <3>3. DOMAIN plan.ports = ToSet(order)
      BY <1>4 DEF PortsInOrder
    <3>4. QED
      BY <3>1, <3>2, <3>3
  <2>9. program.services[s].names \subseteq ServiceContext(program, s, DOMAIN plan.ports)
    BY <1>2, <2>2, <2>8, ServiceFindsNames
  <2>10. step' = "prepare"
    BY <2>1, <2>7, <2>9 DEF s, ports, own
  <2>11. QED
    BY <2>1, <2>10, <1>1, <1>3, WalkKeeps DEF WalkSteps, order
<1>9. CASE PrepareLeaf
  <2>1. /\ step = "prepare" /\ at <= Len(Preparation(program, Current))
        /\ at' = at + 1 /\ started' = started
        /\ UNCHANGED <<program, refusal, slot, plan>>
        /\ Runs(Preparation(program, Current)[at].task) => step' = "prepare"
    BY <1>9 DEF PrepareLeaf, Continue
  <2>2. Len(started) < Len(order)
    BY <2>1 DEF PInv, Walked, order
  <2>3. /\ Current \in Services(program)
        /\ ServiceEdges(program)[Current] \subseteq ToSet(started)
    BY <1>7, <2>2
  <2> DEFINE nodes == Preparation(program, Current)
  <2>4. nodes \in Seq(LeafNodes(program))
    BY <1>2, <2>3, PreparationType
  <2>5. DirectRequirements(program, nodes) \subseteq ToSet(started)
    BY <1>2, <2>3, EdgesType
  <2> HIDE DEF nodes
  <2>6. at \in DOMAIN nodes
    BY <1>3, <2>1, <2>4, LenProperties DEF nodes
  <2>7. Runs(nodes[at].task)
    BY <1>1, <2>4, <2>5, <2>6, LeafRuns
  <2>8. step' = "prepare" /\ at' \in Nat \ {0}
    BY <1>3, <2>1, <2>7 DEF nodes
  <2>9. QED
    BY <2>1, <2>2, <2>8, <1>1, <1>3, WalkKeeps DEF WalkSteps, order
<1>10. CASE StartService
  <2>1. /\ step = "prepare" /\ started' = Append(started, Current) /\ at' = 1
        /\ UNCHANGED <<program, refusal, slot, plan>> /\ step' = "next"
    BY <1>10 DEF StartService, Continue
  <2>2. Len(started) < Len(order)
    BY <2>1 DEF PInv, Walked, order
  <2>3. Current = order[Len(started) + 1] /\ Current \in Nat
    BY <1>6, <1>7, <2>2
  <2>4. /\ started' \in Seq(Nat) /\ Len(started') = Len(started) + 1
        /\ \A i \in 1..Len(started) : started'[i] = started[i]
        /\ started'[Len(started) + 1] = Current
    BY <1>3, <2>1, <2>3, AppendProperties
  <2>5. DOMAIN started' = 1..(Len(started) + 1)
    BY <2>4, LenProperties
  <2>6. ASSUME NEW i \in DOMAIN started'
        PROVE  started'[i] = order[i]
    <3>1. CASE i = Len(started) + 1
      BY <3>1, <2>3, <2>4
    <3>2. CASE i # Len(started) + 1
      <4>1. i \in 1..Len(started)
        BY <3>2, <2>5, <1>5
      <4>2. QED
        BY <4>1, <2>4, <1>3, <1>5 DEF order
    <3>3. QED
      BY <3>1, <3>2
  <2>7. Len(started') <= Len(order)
    BY <1>5, <2>2, <2>4
  <2>8. QED
    BY <2>1, <2>4, <2>6, <2>7, <1>1, WalkKeeps DEF WalkSteps, order
<1>11. CASE RunLeaf
  <2>1. /\ Len(started) = Len(order) /\ at <= Len(plan.nodes)
        /\ at' = at + 1 /\ started' = started
        /\ UNCHANGED <<program, refusal, slot, plan>>
        /\ Runs(plan.nodes[at].task) => step' = "run"
    BY <1>11 DEF RunLeaf, Continue, order
  <2>2. ToSet(order) \subseteq ToSet(started)
    <3>1. DOMAIN order = DOMAIN started
      BY <2>1, <1>5
    <3>2. QED
      BY <3>1, <1>3 DEF ToSet, order
  <2>3. at \in DOMAIN plan.nodes
    BY <1>3, <1>4, <2>1, LenProperties
  <2>4. Runs(plan.nodes[at].task)
    BY <1>1, <1>4, <2>2, <2>3, LeafRuns
  <2>5. step' = "run" /\ at' \in Nat \ {0}
    BY <1>3, <2>1, <2>4
  <2>6. QED
    BY <2>1, <2>5, <1>1, <1>3, WalkKeeps DEF WalkSteps, order
<1>12. CASE Finish
  <2>1. /\ step' = "done" /\ started' = started /\ at' = at
        /\ UNCHANGED <<program, refusal, slot, plan>>
    BY <1>12 DEF Finish, Continue
  <2>2. QED
    BY <2>1, <1>1, <1>3, WalkKeeps DEF WalkSteps, order
<1>13. QED
  BY <1>8, <1>9, <1>10, <1>11, <1>12

-----------------------------------------------------------------------------
\* The invariant holds of every behaviour (admission, plan and walk).
THEOREM PlanInvariance == Spec => []PInv
<1>1. Init => PInv
  <2>1. SUFFICES ASSUME Init
                 PROVE  PInv
    OBVIOUS
  <2>2. IsManifest(program)
    BY <2>1, PlanAssumption DEF Init
  <2>3. QED
    BY <2>1, <2>2, EmptySeq
       DEF Init, PInv, Checked, Walked, Steps, WalkSteps, AdmittedSteps, AcyclicSteps,
           LoweredSteps, ReferencedSteps, ValidatedSteps
<1>2. PInv /\ [Next]_vars => PInv'
  <2>1. SUFFICES ASSUME PInv, [Next]_vars
                 PROVE  PInv'
    OBVIOUS
  <2>2. CASE Validate \/ ProveReferences \/ Lower \/ ProveGraph \/ ProveCapacity
    BY <2>1, <2>2, CheckStep
  <2>3. CASE SelectSlot
    BY <2>1, <2>3, PlanAssumption, PlanStep
  <2>4. CASE BindService \/ PrepareLeaf \/ StartService \/ RunLeaf \/ Finish
    BY <2>1, <2>4, PlanAssumption, WalkStep
  <2>5. CASE UNCHANGED vars
    BY <2>1, <2>5 DEF vars, PInv, Checked, Walked, Planned
  <2>6. QED
    BY <2>1, <2>2, <2>3, <2>4, <2>5 DEF Next
<1>3. QED
  BY <1>1, <1>2, PTL DEF Spec

\* What was admitted runs, whatever the manifest (AdmittedRuns): the planner can
\* order what admission found acyclic, and every leaf and service finds what its
\* placeholders name.
THEOREM AdmittedAlwaysRuns == Spec => []AdmittedRuns
<1>1. PInv => AdmittedRuns
  BY DEF PInv, AdmittedRuns
<1>2. QED
  BY <1>1, PlanInvariance, PTL

\* Every endpoint has a port of its own, in the window of its slot and no other,
\* whatever the manifest (PortsBelongToOne).
THEOREM PortsAreDisjoint == Spec => []PortsBelongToOne
<1>1. PInv => PortsBelongToOne
  <2>1. SUFFICES ASSUME PInv
                 PROVE  PortsBelongToOne
    OBVIOUS
  <2>2. CASE step \notin WalkSteps
    <3>1. DOMAIN plan.ports = {}
      BY <2>1, <2>2 DEF PInv, Walked, NoPlan
    <3>2. QED
      BY <3>1 DEF PortsBelongToOne
  <2>3. CASE step \in WalkSteps
    <3>1. /\ PortsInOrder(program, ToSet(plan.services), program.windows[slot], plan.ports)
          /\ slot \in DOMAIN program.windows
      BY <2>1, <2>3, PlanAssumption, PlanIsSound
    <3>2. IsManifest(program) /\ PlacementsValid(program)
      BY <2>1, <2>3 DEF PInv, Checked, WalkSteps, AdmittedSteps, AcyclicSteps, LoweredSteps,
                        ReferencedSteps, ValidatedSteps
    <3>3. ASSUME NEW s \in DOMAIN plan.ports, NEW e \in DOMAIN plan.ports[s],
                 NEW k \in DOMAIN program.windows
          PROVE  plan.ports[s][e] \in Window(program.windows[k]) <=> k = slot
      <4>1. plan.ports[s][e] \in Window(program.windows[slot])
        BY <3>1 DEF PortsInOrder
      <4>2. k # slot => Window(program.windows[k]) \cap Window(program.windows[slot]) = {}
        BY <3>1, <3>2, WindowsAreApart
      <4>3. QED
        BY <4>1, <4>2
    <3>4. ASSUME NEW s \in DOMAIN plan.ports, NEW t \in DOMAIN plan.ports,
                 NEW e \in DOMAIN plan.ports[s], NEW f \in DOMAIN plan.ports[t],
                 s < t \/ (s = t /\ e < f)
          PROVE  plan.ports[s][e] < plan.ports[t][f]
      BY <3>1, <3>4 DEF PortsInOrder, EndpointBefore
    <3>5. QED
      BY <3>3, <3>4 DEF PortsBelongToOne
  <2>4. QED
    BY <2>2, <2>3
<1>2. QED
  BY <1>1, PlanInvariance, PTL

-----------------------------------------------------------------------------
\* The values of TaskAt's recursion over some steps of a path.
Leads(f, p, root, path, m) ==
  f = [n \in 0..m |-> IF n = 0 THEN root ELSE p.tasks[f[n - 1]].steps[path[n]].task]

\* There are such values.
LEMMA LeadsExists ==
  ASSUME NEW p, NEW root, NEW path
  PROVE  \A m \in Nat : \E f : Leads(f, p, root, path, m)
<1> DEFINE Good == {m \in Nat : \E f : Leads(f, p, root, path, m)}
<1>1. 0 \in Good
  <2> DEFINE f == [n \in 0..0 |-> root]
  <2>1. f = [n \in 0..0 |-> IF n = 0 THEN root ELSE p.tasks[f[n - 1]].steps[path[n]].task]
    OBVIOUS
  <2> HIDE DEF f
  <2>2. Leads(f, p, root, path, 0)
    BY <2>1, Zenon DEF Leads
  <2>3. QED
    BY <2>2
<1>2. ASSUME NEW m \in Nat, m \in Good
      PROVE  m + 1 \in Good
  <2>1. PICK f : Leads(f, p, root, path, m)
    BY <1>2
  <2>2. \A n \in 0..m : f[n] = IF n = 0 THEN root ELSE p.tasks[f[n - 1]].steps[path[n]].task
    BY <2>1, Zenon DEF Leads
  <2> DEFINE g == [n \in 0..(m + 1) |->
                    IF n = m + 1 THEN p.tasks[f[m]].steps[path[n]].task ELSE f[n]]
             G(n) == IF n = 0 THEN root ELSE p.tasks[g[n - 1]].steps[path[n]].task
  <2>3. ASSUME NEW n \in 0..(m + 1)
        PROVE  g[n] = G(n)
    <3>1. CASE n = m + 1
      <4>1. n - 1 = m /\ m \in 0..(m + 1) /\ m # m + 1 /\ n # 0
        BY <3>1
      <4>2. g[m] = f[m]
        BY <4>1
      <4>3. QED
        BY <3>1, <4>1, <4>2
    <3>2. CASE n # m + 1
      <4>1. n \in 0..m
        BY <3>2
      <4>2. n = 0 \/ (n - 1 \in 0..(m + 1) /\ n - 1 # m + 1)
        BY <4>1
      <4>3. n = 0 \/ g[n - 1] = f[n - 1]
        BY <4>2
      <4>4. g[n] = f[n]
        BY <3>2
      <4>5. QED
        BY <4>1, <4>3, <4>4, <2>2, Zenon
    <3>3. QED
      BY <3>1, <3>2, Zenon
  <2>4. g = [n \in 0..(m + 1) |-> G(n)]
    BY <2>3, Zenon
  <2> HIDE DEF g
  <2>5. Leads(g, p, root, path, m + 1)
    BY <2>4, Zenon DEF Leads
  <2>6. QED
    BY <2>5
<1> HIDE DEF Good
<1>3. Nat \subseteq Good
  BY <1>1, <1>2, Induction
<1>4. QED
  BY <1>3 DEF Good

\* The tasks on a path, one step after the other, the last one that of TaskAt.
Walks(f, p, root, path) ==
  /\ TaskAt(p, root, path) = f[Len(path)]
  /\ f[0] = root
  /\ \A n \in Nat : n + 1 \in DOMAIN path => f[n + 1] = p.tasks[f[n]].steps[path[n + 1]].task

\* TaskAt goes step by step.
LEMMA TaskAtWalks ==
  ASSUME NEW p, NEW root, NEW path \in Seq(Nat)
  PROVE  \E f : Walks(f, p, root, path)
<1> DEFINE walk == CHOOSE f : f = [n \in 0..Len(path) |-> IF n = 0 THEN root
                                     ELSE p.tasks[f[n - 1]].steps[path[n]].task]
<1>1. Len(path) \in Nat /\ DOMAIN path = 1..Len(path)
  BY LenProperties
<1>2. \E f : f = [n \in 0..Len(path) |-> IF n = 0 THEN root
                                     ELSE p.tasks[f[n - 1]].steps[path[n]].task]
  <2>1. \E f : Leads(f, p, root, path, Len(path))
    BY <1>1, LeadsExists
  <2>2. QED
    BY <2>1 DEF Leads
<1>3. walk = [n \in 0..Len(path) |-> IF n = 0 THEN root
                ELSE p.tasks[walk[n - 1]].steps[path[n]].task]
  BY <1>2, Zenon
<1>4. TaskAt(p, root, path) = walk[Len(path)]
  BY Zenon DEF TaskAt
<1> HIDE DEF walk
<1>5. walk[0] = root
  BY <1>1, <1>3
<1>6. ASSUME NEW n \in Nat, n + 1 \in DOMAIN path
      PROVE  walk[n + 1] = p.tasks[walk[n]].steps[path[n + 1]].task
  <2> DEFINE k == n + 1
  <2>1. k \in 0..Len(path) /\ k # 0 /\ k - 1 = n
    BY <1>1, <1>6
  <2> HIDE DEF k
  <2>2. walk[k] = p.tasks[walk[k - 1]].steps[path[k]].task
    BY <2>1, <1>3, Zenon
  <2>3. QED
    BY <2>1, <2>2 DEF k
<1>7. Walks(walk, p, root, path)
  BY <1>4, <1>5, <1>6 DEF Walks
<1>8. QED
  BY <1>7

\* The task below a step is found from the step's task.
LEMMA TaskAtDeeper ==
  ASSUME NEW p, NEW root, NEW i \in Nat, NEW q \in Seq(Nat)
  PROVE  /\ TaskAt(p, root, <<>>) = root
         /\ TaskAt(p, root, Deeper(i, q)) = TaskAt(p, p.tasks[root].steps[i].task, q)
<1> DEFINE path == Deeper(i, q)
<1>1. /\ path \in Seq(Nat) /\ Len(q) \in Nat /\ DOMAIN q = 1..Len(q)
      /\ Len(path) = Len(q) + 1 /\ DOMAIN path = 1..(Len(q) + 1) /\ path[1] = i
      /\ \A n \in Nat : n \in DOMAIN q => path[n + 1] = q[n]
  BY StepPath
<1> HIDE DEF path
<1>2. TaskAt(p, root, <<>>) = root
  <2> DEFINE none == <<>>
  <2>1. none \in Seq(Nat)
    BY EmptySeq
  <2>2. Len(none) = 0
    BY EmptySeq
  <2> HIDE DEF none
  <2>3. PICK f : Walks(f, p, root, none)
    BY <2>1, TaskAtWalks
  <2>4. QED
    BY <2>2, <2>3 DEF none, Walks
<1>3. PICK f : Walks(f, p, root, path)
  BY <1>1, TaskAtWalks
<1>4. /\ TaskAt(p, root, path) = f[Len(path)]
      /\ f[0] = root
      /\ \A n \in Nat : n + 1 \in DOMAIN path =>
           f[n + 1] = p.tasks[f[n]].steps[path[n + 1]].task
  BY <1>3 DEF Walks
<1> DEFINE u == p.tasks[root].steps[i].task
<1>5. PICK g : Walks(g, p, u, q)
  BY TaskAtWalks
<1>6. /\ TaskAt(p, u, q) = g[Len(q)]
      /\ g[0] = u
      /\ \A n \in Nat : n + 1 \in DOMAIN q => g[n + 1] = p.tasks[g[n]].steps[q[n + 1]].task
  BY <1>5 DEF Walks
<1> DEFINE Same == {n \in Nat : n <= Len(q) => f[n + 1] = g[n]}
<1>7. 0 \in Same
  <2>1. 0 + 1 \in DOMAIN path /\ 0 + 1 = 1
    BY <1>1
  <2>2. f[1] = u
    BY <2>1, <1>1, <1>4
  <2>3. QED
    BY <2>1, <2>2, <1>6
<1>8. ASSUME NEW n \in Nat, n \in Same
      PROVE  n + 1 \in Same
  <2>1. SUFFICES ASSUME n + 1 <= Len(q)
                 PROVE  f[n + 1 + 1] = g[n + 1]
    OBVIOUS
  <2>2. n + 1 \in DOMAIN q /\ n + 1 + 1 \in DOMAIN path /\ n + 1 \in Nat /\ n <= Len(q)
    BY <1>1, <2>1
  <2>3. f[n + 1 + 1] = p.tasks[f[n + 1]].steps[path[n + 1 + 1]].task
    BY <2>2, <1>4
  <2>4. path[n + 1 + 1] = q[n + 1] /\ f[n + 1] = g[n]
    BY <2>2, <1>1, <1>8
  <2>5. QED
    BY <2>2, <2>3, <2>4, <1>6
<1> HIDE DEF Same
<1>9. Nat \subseteq Same
  BY <1>7, <1>8, Induction
<1>10. f[Len(q) + 1] = g[Len(q)]
  BY <1>1, <1>9 DEF Same
<1>11. QED
  BY <1>1, <1>2, <1>4, <1>6, <1>10 DEF path

\* What the beginning of a path consists of.
LEMMA FirstSteps ==
  ASSUME NEW q \in Seq(Nat), NEW n \in 0..Len(q)
  PROVE  /\ SubSeq(q, 1, n) \in Seq(Nat) /\ Len(SubSeq(q, 1, n)) = n
         /\ \A k \in 1..n : SubSeq(q, 1, n)[k] = q[k]
<1>1. Len(q) \in Nat /\ DOMAIN q = 1..Len(q) /\ \A k \in DOMAIN q : q[k] \in Nat
  BY LenProperties
<1>2. 1 \in Int /\ n \in Int /\ n \in Nat /\ \A k \in 1..n : k \in DOMAIN q
  BY <1>1
<1>3. \A k \in 1..n : q[k] \in Nat
  BY <1>1, <1>2
<1>4. /\ SubSeq(q, 1, n) \in Seq(Nat)
      /\ Len(SubSeq(q, 1, n)) = IF 1 <= n THEN n - 1 + 1 ELSE 0
      /\ \A k \in 1..(n - 1 + 1) : SubSeq(q, 1, n)[k] = q[1 + k - 1]
  BY <1>2, <1>3, SubSeqProperties
<1>5. /\ (IF 1 <= n THEN n - 1 + 1 ELSE 0) = n
      /\ 1..(n - 1 + 1) = 1..n
      /\ \A k \in 1..n : 1 + k - 1 = k
  BY <1>2
<1>6. QED
  BY <1>4, <1>5

\* The path that a step of a path starts from.
Above(path, n) == SubSeq(path, 1, n - 1)

\* It is the beginning of the path.
LEMMA AboveType ==
  ASSUME NEW q \in Seq(Nat), NEW n \in DOMAIN q
  PROVE  /\ Above(q, n) \in Seq(Nat) /\ Len(Above(q, n)) = n - 1
         /\ \A k \in 1..(n - 1) : Above(q, n)[k] = q[k]
<1>1. n - 1 \in 0..Len(q)
  <2>1. Len(q) \in Nat /\ DOMAIN q = 1..Len(q)
    BY LenProperties
  <2>2. QED
    BY <2>1
<1>2. QED
  BY <1>1, FirstSteps DEF Above

\* A path goes on from where its step starts.
LEMMA PathGoesOn ==
  ASSUME NEW q \in Seq(Nat), NEW n \in DOMAIN q
  PROVE  IsPrefix(Append(Above(q, n), q[n]), q)
<1> DEFINE a == Above(q, n)
           s == Append(a, q[n])
           r == SubSeq(s, 1, n)
           t == SubSeq(q, 1, n)
<1>1. Len(q) \in Nat /\ DOMAIN q = 1..Len(q) /\ q[n] \in Nat
  BY LenProperties
<1>2. n \in Nat /\ n >= 1 /\ n \in 0..Len(q) /\ n <= Len(q)
  BY <1>1
<1>3. a \in Seq(Nat) /\ Len(a) = n - 1 /\ \A k \in 1..(n - 1) : a[k] = q[k]
  BY AboveType
<1> HIDE DEF a
<1>4. /\ s \in Seq(Nat) /\ Len(s) = Len(a) + 1 /\ s[Len(a) + 1] = q[n]
      /\ \A k \in 1..Len(a) : s[k] = a[k]
  BY <1>1, <1>3, AppendProperties
<1>5. Len(a) + 1 = n /\ 1..Len(a) = 1..(n - 1)
  <2>1. Len(a) = n - 1
    BY <1>3
  <2> DEFINE l == Len(a)
  <2> HIDE DEF l
  <2>2. l + 1 = n /\ 1..l = 1..(n - 1)
    BY <1>2, <2>1 DEF l
  <2>3. QED
    BY <2>2 DEF l
<1>6. Len(s) = n /\ n \in 0..Len(s) /\ s[n] = q[n] /\ \A k \in 1..(n - 1) : s[k] = q[k]
  BY <1>2, <1>3, <1>4, <1>5
<1> HIDE DEF s
<1>7. r \in Seq(Nat) /\ Len(r) = n /\ \A k \in 1..n : r[k] = s[k]
  BY <1>4, <1>6, FirstSteps
<1>8. t \in Seq(Nat) /\ Len(t) = n /\ \A k \in 1..n : t[k] = q[k]
  BY <1>2, FirstSteps
<1> HIDE DEF r, t
<1>9. \A k \in 1..n : r[k] = t[k]
  <2>1. \A k \in 1..n : k = n \/ k \in 1..(n - 1)
    BY <1>2
  <2>2. QED
    BY <2>1, <1>6, <1>7, <1>8
<1>10. r = t
  BY <1>7, <1>8, <1>9, SeqEqual
<1>11. QED
  BY <1>2, <1>6, <1>10 DEF IsPrefix, a, s, r, t

\* A path below a step starts at the step.
LEMMA AboveDeeper ==
  ASSUME NEW i \in Nat, NEW q \in Seq(Nat)
  PROVE  /\ Above(Deeper(i, q), 1) = <<>>
         /\ \A n \in Nat : n \in DOMAIN q =>
              Above(Deeper(i, q), n + 1) = Deeper(i, Above(q, n))
<1> DEFINE path == Deeper(i, q)
<1>1. /\ path \in Seq(Nat) /\ Len(q) \in Nat /\ DOMAIN q = 1..Len(q)
      /\ Len(path) = Len(q) + 1 /\ DOMAIN path = 1..(Len(q) + 1) /\ path[1] = i
      /\ \A n \in Nat : n \in DOMAIN q => path[n + 1] = q[n]
  BY StepPath
<1> HIDE DEF path
<1>2. Above(path, 1) = <<>>
  <2>1. Above(path, 1) \in Seq(Nat) /\ Len(Above(path, 1)) = 1 - 1
    BY <1>1, AboveType
  <2>2. QED
    BY <2>1, EmptySeq
<1>3. ASSUME NEW n \in Nat, n \in DOMAIN q
      PROVE  Above(path, n + 1) = Deeper(i, Above(q, n))
  <2> DEFINE next == n + 1
             a    == Above(path, next)
             r    == Above(q, n)
             b    == Deeper(i, r)
  <2>1. next \in DOMAIN path /\ next - 1 = n /\ n >= 1 /\ n - 1 \in Nat
    BY <1>1, <1>3
  <2> HIDE DEF next
  <2>2. a \in Seq(Nat) /\ Len(a) = next - 1 /\ \A k \in 1..(next - 1) : a[k] = path[k]
    BY <1>1, <2>1, AboveType
  <2>3. r \in Seq(Nat) /\ Len(r) = n - 1 /\ \A k \in 1..(n - 1) : r[k] = q[k]
    BY <1>3, AboveType
  <2> HIDE DEF a, r
  <2>4. /\ b \in Seq(Nat) /\ DOMAIN r = 1..Len(r)
        /\ Len(b) = Len(r) + 1 /\ b[1] = i
        /\ \A k \in Nat : k \in DOMAIN r => b[k + 1] = r[k]
    BY <2>3, StepPath
  <2> HIDE DEF b
  <2>5. Len(a) = n /\ Len(b) = n
    BY <2>1, <2>2, <2>3, <2>4
  <2>6. ASSUME NEW k \in 1..n
        PROVE  a[k] = b[k]
    <3>1. a[k] = path[k]
      BY <2>1, <2>2
    <3>2. CASE k = 1
      BY <3>1, <3>2, <1>1, <2>4
    <3>3. CASE k # 1
      <4> DEFINE m == k - 1
      <4>1. m \in Nat /\ m \in 1..(n - 1) /\ m + 1 = k /\ m \in 1..Len(q)
        BY <3>3, <2>1, <1>1, <1>3
      <4> HIDE DEF m
      <4>2. path[k] = q[m]
        BY <4>1, <1>1
      <4>3. b[k] = q[m]
        BY <4>1, <2>3, <2>4
      <4>4. QED
        BY <3>1, <4>2, <4>3
    <3>4. QED
      BY <3>2, <3>3
  <2>7. a = b
    BY <2>2, <2>4, <2>5, <2>6, SeqEqual
  <2>8. QED
    BY <2>7 DEF a, b, r, next
<1>4. QED
  BY <1>2, <1>3 DEF path

-----------------------------------------------------------------------------
\* What a path below a step consists of.
LEMMA DeeperWalk ==
  ASSUME NEW p, NEW t, NEW i \in Nat, NEW q \in Seq(Nat)
  PROVE  /\ 1 \in DOMAIN Deeper(i, q) /\ Deeper(i, q)[1] = i /\ Above(Deeper(i, q), 1) = <<>>
         /\ \A n \in DOMAIN Deeper(i, q) : n = 1 \/ \E m \in DOMAIN q : n = m + 1
         /\ \A m \in DOMAIN q :
              /\ m + 1 \in DOMAIN Deeper(i, q) /\ Deeper(i, q)[m + 1] = q[m]
              /\ Above(q, m) \in Seq(Nat)
              /\ Above(Deeper(i, q), m + 1) = Deeper(i, Above(q, m))
              /\ TaskAt(p, t, Above(Deeper(i, q), m + 1))
                   = TaskAt(p, p.tasks[t].steps[i].task, Above(q, m))
<1> DEFINE path == Deeper(i, q)
<1>1. /\ Len(q) \in Nat /\ DOMAIN q = 1..Len(q)
      /\ Len(path) = Len(q) + 1 /\ DOMAIN path = 1..(Len(q) + 1) /\ path[1] = i
      /\ \A n \in Nat : n \in DOMAIN q => path[n + 1] = q[n]
  BY StepPath
<1>2. /\ Above(path, 1) = <<>>
      /\ \A n \in Nat : n \in DOMAIN q => Above(path, n + 1) = Deeper(i, Above(q, n))
  BY AboveDeeper
<1> HIDE DEF path
<1>3. ASSUME NEW n \in DOMAIN path
      PROVE  n = 1 \/ \E m \in DOMAIN q : n = m + 1
  <2>1. SUFFICES ASSUME n # 1
                 PROVE  \E m \in DOMAIN q : n = m + 1
    OBVIOUS
  <2>2. n - 1 \in DOMAIN q /\ n = n - 1 + 1
    BY <1>1, <2>1
  <2>3. QED
    BY <2>2
<1>4. ASSUME NEW m \in DOMAIN q
      PROVE  /\ m + 1 \in DOMAIN path /\ path[m + 1] = q[m]
             /\ Above(q, m) \in Seq(Nat)
             /\ Above(path, m + 1) = Deeper(i, Above(q, m))
             /\ TaskAt(p, t, Above(path, m + 1)) = TaskAt(p, p.tasks[t].steps[i].task, Above(q, m))
  <2>1. m \in Nat /\ m + 1 \in DOMAIN path
    BY <1>1
  <2>2. Above(q, m) \in Seq(Nat)
    BY AboveType
  <2>3. Above(path, m + 1) = Deeper(i, Above(q, m))
    BY <2>1, <1>2
  <2>4. TaskAt(p, t, Deeper(i, Above(q, m))) = TaskAt(p, p.tasks[t].steps[i].task, Above(q, m))
    BY <2>2, TaskAtDeeper
  <2>5. QED
    BY <2>1, <2>2, <2>3, <2>4, <1>1
<1>5. 1 \in DOMAIN path
  BY <1>1
<1>6. QED
  BY <1>1, <1>2, <1>3, <1>4, <1>5 DEF path

\* The leaves have the tasks their paths lead to, all of them parts of the task.
Placed(p, t, nodes) ==
  \A x \in ToSet(nodes) :
    TaskAt(p, t, x.path) = x.task /\ x.task \in Least(Tasks(p), {t}, Parts(p))

\* A leaf is after all leaves below a step that a step above it is after.
Waiting(p, t, nodes) ==
  \A x, y \in ToSet(nodes) : \A n \in DOMAIN x.path \cap DOMAIN y.path :
    /\ Above(x.path, n) = Above(y.path, n)
    /\ y.path[n] \in p.tasks[TaskAt(p, t, Above(x.path, n))].steps[x.path[n]].after
    => y.path \in x.after

\* Paths go along steps, and every step of a task on the way has a leaf below it.
Whole(p, t, nodes) ==
  \A x \in ToSet(nodes) : \A n \in DOMAIN x.path :
    LET u == TaskAt(p, t, Above(x.path, n))
    IN /\ u \in Tasks(p) /\ x.path[n] \in DOMAIN p.tasks[u].steps
       /\ \A i \in DOMAIN p.tasks[u].steps : \E y \in ToSet(nodes) :
            n \in DOMAIN y.path /\ Above(y.path, n) = Above(x.path, n) /\ y.path[n] = i

\* No steps of a composite wait for each other.
StepsAcyclic(p) == \A u \in Tasks(p) : ~ Circular(DOMAIN p.tasks[u].steps, After(p, u))

\* What the leaves below a task are.
Tree(p, t, nodes) ==
  /\ Distinct(nodes) /\ PathsDiffer(nodes)
  /\ Placed(p, t, nodes) /\ Waiting(p, t, nodes) /\ Whole(p, t, nodes)
  /\ StepsAcyclic(p) => ~ Knotted(nodes)

\* A composite, and the leaves below each of its steps.
Branches(p, t, below) ==
  /\ IsManifest(p) /\ ReferencesDeclared(p) /\ t \in Tasks(p) /\ ~ IsLeaf(p, t)
  /\ \A i \in DOMAIN p.tasks[t].steps :
       /\ below[i] \in Seq(LeafNodes(p)) /\ below[i] # <<>>
       /\ Tree(p, p.tasks[t].steps[i].task, below[i])

\* The joined leaves, seen from the branches.
LEMMA BranchLeaves ==
  ASSUME NEW p, NEW t, NEW below, Branches(p, t, below)
  PROVE  LET steps == p.tasks[t].steps
         IN /\ steps \in Seq(StepDeclarations) /\ steps # <<>>
            /\ \A i \in DOMAIN steps : /\ i \in Nat /\ steps[i].task \in Tasks(p)
                                       /\ steps[i].after \subseteq DOMAIN steps
                                       /\ ToSet(below[i]) \subseteq LeafNodes(p)
            /\ Joined(steps, below) \in Seq(LeafNodes(p))
            /\ ToSet(Joined(steps, below)) =
                 UNION {{Under(steps, below, i, y) : y \in ToSet(below[i])} : i \in DOMAIN steps}
            /\ Distinct(Joined(steps, below))
<1> DEFINE steps == p.tasks[t].steps
<1>1. /\ IsManifest(p) /\ ReferencesDeclared(p) /\ t \in Tasks(p) /\ ~ IsLeaf(p, t)
      /\ \A i \in DOMAIN steps : /\ below[i] \in Seq(LeafNodes(p))
                                 /\ Distinct(below[i]) /\ PathsDiffer(below[i])
  BY DEF Branches, Tree
<1>2. steps \in Seq(StepDeclarations) /\ steps # <<>>
  BY <1>1, ManifestShape DEF IsLeaf
<1>3. \A i \in DOMAIN steps : steps[i].task \in Tasks(p) /\ steps[i].after \subseteq DOMAIN steps
  BY <1>1 DEF ReferencesDeclared
<1> HIDE DEF steps
<1>4. \A i \in DOMAIN steps : i \in Nat
  BY <1>2, LenProperties
<1>5. ASSUME NEW i \in DOMAIN steps
      PROVE  ToSet(below[i]) \subseteq LeafNodes(p)
  <2>1. \A n \in DOMAIN below[i] : below[i][n] \in LeafNodes(p)
    BY <1>1, LenProperties
  <2>2. QED
    BY <2>1 DEF ToSet
<1>6. /\ Joined(steps, below) \in Seq(LeafNodes(p))
      /\ ToSet(Joined(steps, below)) =
           UNION {{Under(steps, below, i, y) : y \in ToSet(below[i])} : i \in DOMAIN steps}
      /\ Distinct(Joined(steps, below))
  BY <1>1, <1>2, <1>3, JoinedElements
<1>7. QED
  BY <1>2, <1>3, <1>4, <1>5, <1>6 DEF steps

\* A joined leaf comes from a branch.
LEMMA BranchLeaf ==
  ASSUME NEW p, NEW t, NEW below, Branches(p, t, below),
         NEW x \in ToSet(Joined(p.tasks[t].steps, below))
  PROVE  \E i \in DOMAIN p.tasks[t].steps : \E y \in ToSet(below[i]) :
           x = Under(p.tasks[t].steps, below, i, y)
<1> DEFINE steps == p.tasks[t].steps
<1>1. ToSet(Joined(steps, below)) =
        UNION {{Under(steps, below, i, y) : y \in ToSet(below[i])} : i \in DOMAIN steps}
  BY BranchLeaves
<1> HIDE DEF steps
<1>2. x \in ToSet(Joined(steps, below))
  BY DEF steps
<1>3. QED
  BY <1>1, <1>2 DEF steps

\* What becomes of a leaf of a branch.
LEMMA LeafOfBranch ==
  ASSUME NEW p, NEW t, NEW below, Branches(p, t, below),
         NEW i \in DOMAIN p.tasks[t].steps, NEW y \in ToSet(below[i])
  PROVE  LET x == Under(p.tasks[t].steps, below, i, y)
         IN /\ i \in Nat /\ y \in LeafNodes(p) /\ y.path \in Seq(Nat)
            /\ x \in ToSet(Joined(p.tasks[t].steps, below))
            /\ x.path = Deeper(i, y.path) /\ x.task = y.task
            /\ x.after = {Deeper(i, q) : q \in y.after}
                           \cup UNION {Subtree(d, below[d]) : d \in p.tasks[t].steps[i].after}
<1> DEFINE steps == p.tasks[t].steps
           x == Under(steps, below, i, y)
<1>1. /\ i \in Nat /\ ToSet(below[i]) \subseteq LeafNodes(p)
      /\ ToSet(Joined(steps, below)) =
           UNION {{Under(steps, below, j, z) : z \in ToSet(below[j])} : j \in DOMAIN steps}
  BY BranchLeaves
<1>2. y \in LeafNodes(p)
  BY <1>1
<1>3. y.path \in Seq(Nat)
  BY <1>2 DEF LeafNodes
<1>4. i \in DOMAIN steps
  OBVIOUS
<1>5. /\ x.path = Deeper(i, y.path) /\ x.task = y.task
      /\ x.after = {Deeper(i, q) : q \in y.after}
                     \cup UNION {Subtree(d, below[d]) : d \in steps[i].after}
  BY DEF Under
<1> HIDE DEF steps
<1>6. x \in {Under(steps, below, i, z) : z \in ToSet(below[i])}
  OBVIOUS
<1>7. x \in ToSet(Joined(steps, below))
  BY <1>1, <1>4, <1>6
<1> HIDE DEF x
<1>8. QED
  BY <1>1, <1>2, <1>3, <1>5, <1>7 DEF steps, x

\* The properties of a tree hold of the joined leaves where they hold of the branches.
LEMMA JoinedPathsDiffer ==
  ASSUME NEW p, NEW t, NEW below, Branches(p, t, below)
  PROVE  PathsDiffer(Joined(p.tasks[t].steps, below))
<1> DEFINE steps == p.tasks[t].steps
           nodes == Joined(steps, below)
<1>1. SUFFICES ASSUME NEW x \in ToSet(nodes), NEW z \in ToSet(nodes), x.path = z.path
               PROVE  x = z
  BY DEF PathsDiffer
<1>2. PICK i \in DOMAIN steps : \E y \in ToSet(below[i]) : x = Under(steps, below, i, y)
  BY BranchLeaf
<1>3. PICK y \in ToSet(below[i]) : x = Under(steps, below, i, y)
  BY <1>2
<1>4. PICK j \in DOMAIN steps : \E w \in ToSet(below[j]) : z = Under(steps, below, j, w)
  BY BranchLeaf
<1>5. PICK w \in ToSet(below[j]) : z = Under(steps, below, j, w)
  BY <1>4
<1>6. /\ i \in Nat /\ j \in Nat /\ y.path \in Seq(Nat) /\ w.path \in Seq(Nat)
      /\ x.path = Deeper(i, y.path) /\ z.path = Deeper(j, w.path)
  BY <1>3, <1>5, LeafOfBranch
<1>7. i = j /\ y.path = w.path
  <2> DEFINE q == y.path
             r == w.path
  <2>1. q \in Seq(Nat) /\ r \in Seq(Nat) /\ Deeper(i, q) = Deeper(j, r)
    BY <1>1, <1>6
  <2> HIDE DEF q, r
  <2>2. i = j /\ q = r
    BY <1>6, <2>1, StepPathIsInjective
  <2>3. QED
    BY <2>2 DEF q, r
<1>8. PathsDiffer(below[i])
  BY DEF Branches, Tree
<1>9. y = w
  BY <1>7, <1>8 DEF PathsDiffer
<1>10. QED
  BY <1>3, <1>5, <1>7, <1>9

\* What is a part of a step's task is a part of the composite.
LEMMA PartOfStep ==
  ASSUME NEW p, NEW t \in Tasks(p), NEW i \in DOMAIN p.tasks[t].steps,
         p.tasks[t].steps[i].task \in Tasks(p),
         NEW u \in Least(Tasks(p), {p.tasks[t].steps[i].task}, Parts(p))
  PROVE  u \in Least(Tasks(p), {t}, Parts(p))
<1> DEFINE s == p.tasks[t].steps[i].task
<1>1. s \in Parts(p)[t]
  BY DEF Parts, ToSet
<1>2. u \in Tasks(p) /\ \A C \in SUBSET Tasks(p) :
        {s} \subseteq C /\ (\A c \in C : Parts(p)[c] \cap Tasks(p) \subseteq C) => u \in C
  BY DEF Least
<1> HIDE DEF s
<1>3. ASSUME NEW C \in SUBSET Tasks(p), {t} \subseteq C,
             \A c \in C : Parts(p)[c] \cap Tasks(p) \subseteq C
      PROVE  u \in C
  <2>1. s \in C
    BY <1>1, <1>3 DEF s
  <2>2. QED
    BY <1>2, <1>3, <2>1
<1>4. QED
  BY <1>2, <1>3 DEF Least

\* The joined leaves have the tasks their paths lead to.
LEMMA JoinedPlaced ==
  ASSUME NEW p, NEW t, NEW below, Branches(p, t, below)
  PROVE  Placed(p, t, Joined(p.tasks[t].steps, below))
<1> DEFINE steps == p.tasks[t].steps
           nodes == Joined(steps, below)
<1>1. SUFFICES ASSUME NEW x \in ToSet(nodes)
               PROVE  TaskAt(p, t, x.path) = x.task /\ x.task \in Least(Tasks(p), {t}, Parts(p))
  BY DEF Placed
<1>2. PICK i \in DOMAIN steps : \E y \in ToSet(below[i]) : x = Under(steps, below, i, y)
  BY BranchLeaf
<1>3. PICK y \in ToSet(below[i]) : x = Under(steps, below, i, y)
  BY <1>2
<1>4. i \in Nat /\ y.path \in Seq(Nat) /\ x.path = Deeper(i, y.path) /\ x.task = y.task
  BY <1>3, LeafOfBranch
<1>5. Placed(p, steps[i].task, below[i]) /\ t \in Tasks(p)
  BY DEF Branches, Tree
<1>6. /\ TaskAt(p, steps[i].task, y.path) = y.task
      /\ y.task \in Least(Tasks(p), {steps[i].task}, Parts(p))
  BY <1>5 DEF Placed
<1>7. TaskAt(p, t, Deeper(i, y.path)) = TaskAt(p, steps[i].task, y.path)
  <2> DEFINE q == y.path
  <2>1. q \in Seq(Nat)
    BY <1>4
  <2> HIDE DEF q
  <2>2. TaskAt(p, t, Deeper(i, q)) = TaskAt(p, p.tasks[t].steps[i].task, q)
    BY <1>4, <2>1, TaskAtDeeper
  <2>3. QED
    BY <2>2 DEF q
<1>8. steps[i].task \in Tasks(p)
  BY BranchLeaves
<1>9. y.task \in Least(Tasks(p), {t}, Parts(p))
  BY <1>5, <1>6, <1>8, PartOfStep
<1>10. QED
  BY <1>4, <1>6, <1>7, <1>9

\* Where two paths start at one step, the branch has them; where they part at the
\* first step, the whole subtree is waited for.
LEMMA JoinedWaiting ==
  ASSUME NEW p, NEW t, NEW below, Branches(p, t, below)
  PROVE  Waiting(p, t, Joined(p.tasks[t].steps, below))
<1> DEFINE steps == p.tasks[t].steps
           nodes == Joined(steps, below)
<1>1. SUFFICES ASSUME NEW x \in ToSet(nodes), NEW z \in ToSet(nodes),
                      NEW n \in DOMAIN x.path \cap DOMAIN z.path,
                      Above(x.path, n) = Above(z.path, n),
                      z.path[n] \in p.tasks[TaskAt(p, t, Above(x.path, n))].steps[x.path[n]].after
               PROVE  z.path \in x.after
  BY DEF Waiting
<1>2. PICK i \in DOMAIN steps : \E y \in ToSet(below[i]) : x = Under(steps, below, i, y)
  BY BranchLeaf
<1>3. PICK y \in ToSet(below[i]) : x = Under(steps, below, i, y)
  BY <1>2
<1>4. PICK j \in DOMAIN steps : \E w \in ToSet(below[j]) : z = Under(steps, below, j, w)
  BY BranchLeaf
<1>5. PICK w \in ToSet(below[j]) : z = Under(steps, below, j, w)
  BY <1>4
<1> DEFINE q == y.path
           r == w.path
<1>6. i \in Nat /\ q \in Seq(Nat) /\ x.path = Deeper(i, q)
  BY <1>3, LeafOfBranch
<1>7. j \in Nat /\ r \in Seq(Nat) /\ z.path = Deeper(j, r)
  BY <1>5, LeafOfBranch
<1>8. x.after = {Deeper(i, a) : a \in y.after}
                  \cup UNION {Subtree(d, below[d]) : d \in steps[i].after}
  BY <1>3 DEF Under
<1>9. Waiting(p, steps[i].task, below[i])
  BY DEF Branches, Tree
<1>10. Subtree(j, below[j]) = {Deeper(j, v.path) : v \in ToSet(below[j])}
  BY DEF Subtree
<1>11. Deeper(j, r) \in Subtree(j, below[j])
  BY <1>10
<1>12. r \in y.after => Deeper(i, r) \in x.after
  BY <1>8
<1>13. ASSUME NEW m \in DOMAIN q \cap DOMAIN r, Above(q, m) = Above(r, m), i = j,
              r[m] \in p.tasks[TaskAt(p, steps[i].task, Above(q, m))].steps[q[m]].after
       PROVE  r \in y.after
  BY <1>9, <1>13, Zenon DEF Waiting
<1>14. /\ 1 \in DOMAIN x.path /\ x.path[1] = i /\ Above(x.path, 1) = <<>>
       /\ \A k \in DOMAIN x.path : k = 1 \/ \E m \in DOMAIN q : k = m + 1
       /\ \A m \in DOMAIN q :
            /\ m + 1 \in DOMAIN x.path /\ x.path[m + 1] = q[m]
            /\ Above(q, m) \in Seq(Nat)
            /\ Above(x.path, m + 1) = Deeper(i, Above(q, m))
            /\ TaskAt(p, t, Above(x.path, m + 1)) = TaskAt(p, p.tasks[t].steps[i].task, Above(q, m))
  <2> HIDE DEF q
  <2>1. QED
    BY <1>6, DeeperWalk, SMTT(20)
<1>15. /\ z.path[1] = j
       /\ \A k \in DOMAIN z.path : k = 1 \/ \E m \in DOMAIN r : k = m + 1
       /\ \A m \in DOMAIN r :
            /\ z.path[m + 1] = r[m]
            /\ Above(r, m) \in Seq(Nat)
            /\ Above(z.path, m + 1) = Deeper(j, Above(r, m))
            /\ TaskAt(p, t, Above(z.path, m + 1)) = TaskAt(p, p.tasks[t].steps[j].task, Above(r, m))
  <2> HIDE DEF r
  <2>1. QED
    BY <1>7, DeeperWalk
<1>16. TaskAt(p, t, <<>>) = t
  BY <1>6, TaskAtDeeper
<1> HIDE DEF q, r, steps
<1>17. CASE n = 1
  <2>1. j \in steps[i].after
    BY <1>1, <1>14, <1>15, <1>16, <1>17 DEF steps
  <2>2. Deeper(j, r) \in UNION {Subtree(d, below[d]) : d \in steps[i].after}
    BY <1>11, <2>1
  <2>3. QED
    BY <1>7, <1>8, <2>2
<1>18. CASE n # 1
  <2>1. PICK m \in DOMAIN q : n = m + 1
    BY <1>14, <1>18
  <2>2. PICK k \in DOMAIN r : n = k + 1
    BY <1>15, <1>18
  <2>3. m = k
    <3>1. m \in Nat /\ k \in Nat
      BY <1>6, <1>7, LenProperties
    <3>2. QED
      BY <2>1, <2>2, <3>1
  <2> DEFINE a == Above(q, m)
             b == Above(r, m)
  <2>4. a \in Seq(Nat) /\ b \in Seq(Nat) /\ Deeper(i, a) = Deeper(j, b)
    BY <1>1, <1>14, <1>15, <2>1, <2>2, <2>3
  <2>5. i = j /\ a = b
    <3> HIDE DEF a, b
    <3>1. QED
      BY <1>6, <1>7, <2>4, StepPathIsInjective
  <2>6. r[m] \in p.tasks[TaskAt(p, steps[i].task, Above(q, m))].steps[q[m]].after
    BY <1>1, <1>14, <1>15, <2>1, <2>2, <2>3 DEF steps
  <2>7. r \in y.after
    BY <1>13, <2>2, <2>3, <2>5, <2>6
  <2>8. QED
    BY <1>7, <1>12, <2>5, <2>7
<1>19. QED
  BY <1>17, <1>18

\* Every step has a leaf below it: the first one, and those of the branches.
LEMMA JoinedWhole ==
  ASSUME NEW p, NEW t, NEW below, Branches(p, t, below)
  PROVE  Whole(p, t, Joined(p.tasks[t].steps, below))
<1> DEFINE steps == p.tasks[t].steps
           nodes == Joined(steps, below)
<1>1. SUFFICES ASSUME NEW x \in ToSet(nodes), NEW n \in DOMAIN x.path
               PROVE  LET u == TaskAt(p, t, Above(x.path, n))
                      IN /\ u \in Tasks(p) /\ x.path[n] \in DOMAIN p.tasks[u].steps
                         /\ \A j \in DOMAIN p.tasks[u].steps : \E z \in ToSet(nodes) :
                              /\ n \in DOMAIN z.path /\ Above(z.path, n) = Above(x.path, n)
                              /\ z.path[n] = j
  BY DEF Whole
<1>2. PICK i \in DOMAIN steps : \E y \in ToSet(below[i]) : x = Under(steps, below, i, y)
  BY BranchLeaf
<1>3. PICK y \in ToSet(below[i]) : x = Under(steps, below, i, y)
  BY <1>2
<1> DEFINE q == y.path
<1>4. i \in Nat /\ q \in Seq(Nat) /\ x.path = Deeper(i, q)
  BY <1>3, LeafOfBranch
<1>5. /\ t \in Tasks(p)
      /\ \A j \in DOMAIN steps : below[j] \in Seq(LeafNodes(p)) /\ below[j] # <<>>
      /\ Whole(p, steps[i].task, below[i])
  BY DEF Branches, Tree
<1>6. /\ 1 \in DOMAIN x.path /\ x.path[1] = i /\ Above(x.path, 1) = <<>>
      /\ \A k \in DOMAIN x.path : k = 1 \/ \E m \in DOMAIN q : k = m + 1
      /\ \A m \in DOMAIN q :
           /\ m + 1 \in DOMAIN x.path /\ x.path[m + 1] = q[m]
           /\ Above(q, m) \in Seq(Nat)
           /\ Above(x.path, m + 1) = Deeper(i, Above(q, m))
           /\ TaskAt(p, t, Above(x.path, m + 1)) = TaskAt(p, p.tasks[t].steps[i].task, Above(q, m))
  <2> HIDE DEF q
  <2>1. QED
    BY <1>4, DeeperWalk
<1>7. TaskAt(p, t, <<>>) = t
  BY <1>4, TaskAtDeeper
<1>8. CASE n = 1
  <2>1. TaskAt(p, t, Above(x.path, n)) = t /\ x.path[n] = i
    BY <1>6, <1>7, <1>8
  <2>2. ASSUME NEW j \in DOMAIN steps
        PROVE  \E z \in ToSet(nodes) : /\ n \in DOMAIN z.path /\ Above(z.path, n) = Above(x.path, n)
                                       /\ z.path[n] = j
    <3>1. below[j] \in Seq(LeafNodes(p)) /\ below[j] # <<>>
      BY <1>5
    <3>2. 1 \in DOMAIN below[j]
      BY <3>1, EmptySeq, LenProperties
    <3>3. PICK w : w \in ToSet(below[j])
      BY <3>2 DEF ToSet
    <3> DEFINE z == Under(steps, below, j, w)
    <3>4. z \in ToSet(nodes) /\ z.path = Deeper(j, w.path) /\ j \in Nat /\ w.path \in Seq(Nat)
      BY <3>3, LeafOfBranch
    <3> DEFINE r == w.path
    <3>5. 1 \in DOMAIN Deeper(j, r) /\ Deeper(j, r)[1] = j /\ Above(Deeper(j, r), 1) = <<>>
      <4>1. r \in Seq(Nat)
        BY <3>4
      <4> HIDE DEF r
      <4>2. QED
        BY <3>4, <4>1, DeeperWalk
    <3> HIDE DEF z
    <3>6. QED
      BY <3>4, <3>5, <1>6, <1>8
  <2>3. QED
    BY <2>1, <2>2, <1>5
<1>9. CASE n # 1
  <2>1. PICK m \in DOMAIN q : n = m + 1
    BY <1>6, <1>9
  <2> DEFINE u == TaskAt(p, steps[i].task, Above(q, m))
  <2>2. TaskAt(p, t, Above(x.path, n)) = u /\ x.path[n] = q[m]
    BY <1>6, <2>1
  <2>3. /\ u \in Tasks(p) /\ q[m] \in DOMAIN p.tasks[u].steps
        /\ \A j \in DOMAIN p.tasks[u].steps : \E w \in ToSet(below[i]) :
             m \in DOMAIN w.path /\ Above(w.path, m) = Above(q, m) /\ w.path[m] = j
    BY <1>5 DEF Whole
  <2> HIDE DEF u
  <2>4. ASSUME NEW j \in DOMAIN p.tasks[u].steps
        PROVE  \E z \in ToSet(nodes) : /\ n \in DOMAIN z.path /\ Above(z.path, n) = Above(x.path, n)
                                       /\ z.path[n] = j
    <3>1. PICK w \in ToSet(below[i]) :
            m \in DOMAIN w.path /\ Above(w.path, m) = Above(q, m) /\ w.path[m] = j
      BY <2>3
    <3> DEFINE z == Under(steps, below, i, w)
               r == w.path
    <3>2. z \in ToSet(nodes) /\ z.path = Deeper(i, r) /\ r \in Seq(Nat)
      BY LeafOfBranch
    <3>3. m \in DOMAIN r /\ Above(r, m) = Above(q, m) /\ r[m] = j
      BY <3>1
    <3> HIDE DEF z, r
    <3>4. /\ m + 1 \in DOMAIN Deeper(i, r) /\ Deeper(i, r)[m + 1] = r[m]
          /\ Above(Deeper(i, r), m + 1) = Deeper(i, Above(r, m))
      BY <1>4, <3>2, <3>3, DeeperWalk
    <3>5. Above(x.path, m + 1) = Deeper(i, Above(q, m))
      BY <1>6
    <3>6. QED
      BY <2>1, <3>2, <3>3, <3>4, <3>5
  <2>5. QED
    BY <2>2, <2>3, <2>4
<1>10. QED
  BY <1>8, <1>9

\* Where some joined leaves wait for each other, so do some leaves of a branch, or
\* some steps.
LEMMA JoinedUnknotted ==
  ASSUME NEW p, NEW t, NEW below, Branches(p, t, below), StepsAcyclic(p)
  PROVE  ~ Knotted(Joined(p.tasks[t].steps, below))
<1> DEFINE steps == p.tasks[t].steps
           nodes == Joined(steps, below)
<1>1. SUFFICES ASSUME NEW R \in SUBSET ToSet(nodes), R # {},
                      \A x \in R : \E z \in R : z.path \in x.after
               PROVE  FALSE
  BY DEF Knotted
<1> DEFINE I == {i \in DOMAIN steps : \E y \in ToSet(below[i]) : Under(steps, below, i, y) \in R}
<1>2. PICK x1 \in R : TRUE
  BY <1>1
<1>3. PICK i1 \in DOMAIN steps : \E y \in ToSet(below[i1]) : x1 = Under(steps, below, i1, y)
  BY BranchLeaf
<1>4. i1 \in I
  BY <1>3
<1>5. ~ Circular(DOMAIN steps, After(p, t))
  BY DEF Branches, StepsAcyclic
<1>6. \A i \in DOMAIN steps : After(p, t)[i] = steps[i].after
  BY DEF After
<1> HIDE DEF steps
<1>7. I \in SUBSET DOMAIN steps /\ I # {}
  BY <1>4
<1> HIDE DEF I
<1>8. PICK i \in I : steps[i].after \cap I = {}
  BY <1>5, <1>6, <1>7 DEF Circular
<1>9. i \in DOMAIN steps
  BY <1>7
<1> DEFINE L == {y \in ToSet(below[i]) : Under(steps, below, i, y) \in R}
<1>10. L \in SUBSET ToSet(below[i]) /\ L # {}
  BY DEF I
<1>11. ~ Knotted(below[i])
  BY <1>9 DEF Branches, Tree, steps
<1> HIDE DEF L
<1>12. PICK y \in L : \A w \in L : w.path \notin y.after
  BY <1>10, <1>11 DEF Knotted
<1> DEFINE x == Under(steps, below, i, y)
<1>13. y \in ToSet(below[i]) /\ x \in R
  BY <1>12 DEF L
<1>14. /\ i \in Nat /\ y \in LeafNodes(p)
       /\ x.after = {Deeper(i, q) : q \in y.after}
                      \cup UNION {Subtree(d, below[d]) : d \in steps[i].after}
  <2>1. i \in Nat /\ y \in LeafNodes(p)
    BY <1>9, <1>13, LeafOfBranch DEF steps
  <2>2. x.after = {Deeper(i, q) : q \in y.after}
                    \cup UNION {Subtree(d, below[d]) : d \in steps[i].after}
    BY DEF Under
  <2>3. QED
    BY <2>1, <2>2
<1> HIDE DEF x
<1>15. PICK z \in R : z.path \in x.after
  BY <1>1, <1>13
<1>16. PICK j \in DOMAIN steps : \E w \in ToSet(below[j]) : z = Under(steps, below, j, w)
  BY BranchLeaf DEF steps
<1>17. PICK w \in ToSet(below[j]) : z = Under(steps, below, j, w)
  BY <1>16
<1>18. j \in I
  BY <1>17 DEF I
<1>19. j \in Nat /\ w.path \in Seq(Nat) /\ z.path = Deeper(j, w.path)
  BY <1>17, LeafOfBranch DEF steps
<1>20. CASE \E q \in y.after : z.path = Deeper(i, q)
  <2>1. PICK q \in y.after : z.path = Deeper(i, q)
    BY <1>20
  <2> DEFINE r == w.path
  <2>2. q \in Seq(Nat) /\ r \in Seq(Nat) /\ Deeper(i, q) = Deeper(j, r)
    BY <1>14, <1>19, <2>1 DEF LeafNodes
  <2> HIDE DEF r
  <2>3. i = j /\ q = r
    BY <1>14, <1>19, <2>2, StepPathIsInjective
  <2>4. w \in L
    BY <1>17, <2>3 DEF L
  <2>5. w.path \in y.after
    BY <2>1, <2>3 DEF r
  <2>6. QED
    BY <1>12, <2>4, <2>5
<1>21. CASE \E d \in steps[i].after : z.path \in Subtree(d, below[d])
  <2>1. PICK d \in steps[i].after : z.path \in Subtree(d, below[d])
    BY <1>21
  <2>2. PICK v \in ToSet(below[d]) : z.path = Deeper(d, v.path)
    BY <2>1 DEF Subtree
  <2>3. d \in DOMAIN steps
    BY <1>9, <2>1, BranchLeaves DEF steps
  <2>4. d \in Nat /\ v.path \in Seq(Nat)
    BY <2>2, <2>3, LeafOfBranch DEF steps
  <2> DEFINE q == v.path
             r == w.path
  <2>5. q \in Seq(Nat) /\ r \in Seq(Nat) /\ Deeper(d, q) = Deeper(j, r)
    BY <1>19, <2>2, <2>4
  <2> HIDE DEF q, r
  <2>6. d = j
    BY <1>19, <2>4, <2>5, StepPathIsInjective
  <2>7. QED
    BY <1>8, <1>18, <2>1, <2>6
<1>22. QED
  BY <1>14, <1>15, <1>20, <1>21

\* A leaf alone is a tree.
LEMMA LeafTree ==
  ASSUME NEW p, NEW t \in Tasks(p), NEW nodes,
         nodes = <<[path |-> <<>>, task |-> t, after |-> {}]>>
  PROVE  Tree(p, t, nodes)
<1> DEFINE x == [path |-> <<>>, task |-> t, after |-> {}]
<1>1. DOMAIN nodes = {1} /\ nodes[1] = x
  OBVIOUS
<1>2. ToSet(nodes) = {x}
  BY <1>1 DEF ToSet
<1>3. x.path = <<>> /\ x.task = t /\ x.after = {} /\ DOMAIN x.path = {}
  OBVIOUS
<1> HIDE DEF x
<1>4. Distinct(nodes) /\ PathsDiffer(nodes)
  BY <1>1, <1>2 DEF Distinct, PathsDiffer
<1>5. Placed(p, t, nodes)
  <2>1. TaskAt(p, t, <<>>) = t
    <3>1. 0 \in Nat /\ <<>> \in Seq(Nat)
      BY EmptySeq
    <3>2. QED
      BY <3>1, TaskAtDeeper
  <2>2. t \in Least(Tasks(p), {t}, Parts(p))
    BY DEF Least
  <2>3. QED
    BY <1>2, <1>3, <2>1, <2>2 DEF Placed
<1>6. Waiting(p, t, nodes) /\ Whole(p, t, nodes)
  BY <1>2, <1>3 DEF Waiting, Whole
<1>7. ~ Knotted(nodes)
  BY <1>2, <1>3 DEF Knotted
<1>8. QED
  BY <1>4, <1>5, <1>6, <1>7 DEF Tree

\* The leaves below the steps of a call are branches where they are trees.
LEMMA CallBranches ==
  ASSUME NEW p, IsManifest(p), ReferencesDeclared(p), NEW emit, Emits(p, emit),
         NEW call \in Calls, Descends(p, call),
         \A i \in DOMAIN p.tasks[call[1]].steps :
           /\ emit[StepCall(p, call, i)] # <<>>
           /\ Tree(p, p.tasks[call[1]].steps[i].task, emit[StepCall(p, call, i)])
  PROVE  Branches(p, call[1], StepLeaves(p, call, emit))
<1> DEFINE t     == call[1]
           steps == p.tasks[t].steps
           below == StepLeaves(p, call, emit)
<1>1. t \in Tasks(p) /\ ~ IsLeaf(p, t)
  BY DEF Descends
<1>2. ASSUME NEW i \in DOMAIN steps
      PROVE  /\ below[i] \in Seq(LeafNodes(p)) /\ below[i] # <<>>
             /\ Tree(p, steps[i].task, below[i])
  <2>1. below[i] = emit[StepCall(p, call, i)]
    BY DEF StepLeaves
  <2>2. StepCall(p, call, i) \in Calls
    BY StepCallIsSmaller
  <2> HIDE DEF below
  <2>3. emit[StepCall(p, call, i)] \in Seq(LeafNodes(p))
    BY <2>2, EmitsType
  <2>4. QED
    BY <2>1, <2>3
<1> HIDE DEF below
<1>3. QED
  BY <1>1, <1>2 DEF Branches, below

\* What a call gives is a tree.
LEMMA EmitsTree ==
  ASSUME NEW p, IsManifest(p), ReferencesDeclared(p), NEW emit, Emits(p, emit)
  PROVE  \A call \in Calls : emit[call] # <<>> => Tree(p, call[1], emit[call])
<1> DEFINE S == {call \in Calls : emit[call] # <<>> => Tree(p, call[1], emit[call])}
<1>1. ASSUME NEW call \in Calls,
             Descends(p, call) =>
               \A i \in DOMAIN p.tasks[call[1]].steps : StepCall(p, call, i) \in S
      PROVE  call \in S
  <2> DEFINE t     == call[1]
             steps == p.tasks[t].steps
             below == StepLeaves(p, call, emit)
  <2>1. SUFFICES ASSUME emit[call] # <<>>
                 PROVE  Tree(p, t, emit[call])
    OBVIOUS
  <2>2. CASE /\ t \in Tasks(p) /\ IsLeaf(p, t)
             /\ emit[call] = <<[path |-> <<>>, task |-> t, after |-> {}]>>
    BY <2>2, LeafTree
  <2>3. CASE /\ Descends(p, call) /\ emit[call] = Joined(steps, below)
             /\ \A i \in DOMAIN steps : emit[StepCall(p, call, i)] # <<>>
    <3>1. ASSUME NEW i \in DOMAIN steps
          PROVE  Tree(p, steps[i].task, emit[StepCall(p, call, i)])
      <4>1. StepCall(p, call, i) \in Calls /\ StepCall(p, call, i) \in S
        BY <1>1, <2>3
      <4>2. StepCall(p, call, i)[1] = steps[i].task
        BY DEF StepCall
      <4>3. QED
        BY <2>3, <4>1, <4>2
    <3>2. Branches(p, t, below)
      BY <2>3, <3>1, CallBranches
    <3> HIDE DEF below
    <3>3. Distinct(Joined(steps, below))
      BY <3>2, BranchLeaves
    <3>4. Tree(p, t, Joined(steps, below))
      BY <3>2, <3>3, JoinedPathsDiffer, JoinedPlaced, JoinedWaiting, JoinedWhole,
         JoinedUnknotted DEF Tree
    <3>5. QED
      BY <2>3, <3>4
  <2>4. QED
    BY <2>1, <2>2, <2>3, EmitsCases
<1> HIDE DEF S
<1>2. Calls \subseteq S
  BY <1>1, CallInduction
<1>3. QED
  BY <1>2 DEF S

-----------------------------------------------------------------------------
\* What is joined from branches is not empty.
LEMMA JoinedIsNotEmpty ==
  ASSUME NEW p, NEW t, NEW below, Branches(p, t, below)
  PROVE  Joined(p.tasks[t].steps, below) # <<>>
<1> DEFINE steps == p.tasks[t].steps
<1>1. steps \in Seq(StepDeclarations) /\ steps # <<>>
  BY BranchLeaves
<1>2. 1 \in DOMAIN steps
  BY <1>1, EmptySeq, LenProperties
<1>3. below[1] \in Seq(LeafNodes(p)) /\ below[1] # <<>>
  BY <1>2 DEF Branches
<1>4. 1 \in DOMAIN below[1]
  BY <1>3, EmptySeq, LenProperties
<1>5. PICK y : y \in ToSet(below[1])
  BY <1>4 DEF ToSet
<1>6. Under(steps, below, 1, y) \in ToSet(Joined(steps, below))
  BY <1>2, <1>5, LeafOfBranch
<1>7. ToSet(<<>>) = {}
  BY DEF ToSet
<1>8. QED
  BY <1>6, <1>7

\* The tasks being visited lead to each other and to the call's task.
OnTheWay(p, call) ==
  /\ call[1] \in Tasks(p) /\ call[2] \in SUBSET Tasks(p)
  /\ \A u \in call[2] : Parts(p)[u] \cap (call[2] \cup {call[1]}) # {}

\* Where a call on the way gives nothing, some task contains itself.
LEMMA EmptyIsCircular ==
  ASSUME NEW p, IsManifest(p), ReferencesDeclared(p), NEW emit, Emits(p, emit)
  PROVE  \A call \in Calls : OnTheWay(p, call) /\ emit[call] = <<>> => Circular(Tasks(p), Parts(p))
<1> DEFINE S == {call \in Calls : OnTheWay(p, call) /\ emit[call] = <<>> =>
                                    Circular(Tasks(p), Parts(p))}
<1>1. ASSUME NEW call \in Calls,
             Descends(p, call) =>
               \A i \in DOMAIN p.tasks[call[1]].steps : StepCall(p, call, i) \in S
      PROVE  call \in S
  <2> DEFINE t     == call[1]
             steps == p.tasks[t].steps
             below == StepLeaves(p, call, emit)
  <2>1. SUFFICES ASSUME OnTheWay(p, call), emit[call] = <<>>
                 PROVE  Circular(Tasks(p), Parts(p))
    OBVIOUS
  <2>2. /\ t \in Tasks(p) /\ call[2] \in SUBSET Tasks(p)
        /\ \A u \in call[2] : Parts(p)[u] \cap (call[2] \cup {t}) # {}
    BY <2>1 DEF OnTheWay
  <2>3. CASE t \in call[2]
    <3> DEFINE C == call[2]
    <3>1. C \in SUBSET Tasks(p) /\ C # {}
      BY <2>2, <2>3
    <3>2. \A u \in C : Parts(p)[u] \cap C # {}
      BY <2>2, <2>3
    <3> HIDE DEF C
    <3>3. QED
      BY <3>1, <3>2 DEF Circular
  <2>4. CASE emit[call] = <<[path |-> <<>>, task |-> t, after |-> {}]>>
    BY <2>1, <2>4
  <2>5. CASE Descends(p, call) /\ \E i \in DOMAIN steps : emit[StepCall(p, call, i)] = <<>>
    <3>1. PICK i \in DOMAIN steps : emit[StepCall(p, call, i)] = <<>>
      BY <2>5
    <3>2. StepCall(p, call, i) \in S /\ StepCall(p, call, i) \in Calls
      BY <1>1, <2>5
    <3>3. steps[i].task \in Tasks(p) /\ steps[i].task \in Parts(p)[t]
      BY <2>2 DEF ReferencesDeclared, Parts, ToSet
    <3>4. OnTheWay(p, <<steps[i].task, call[2] \cup {t}>>)
      BY <2>2, <3>3 DEF OnTheWay
    <3>5. QED
      BY <3>1, <3>2, <3>4 DEF StepCall
  <2>6. CASE /\ Descends(p, call) /\ emit[call] = Joined(steps, below)
             /\ \A i \in DOMAIN steps : emit[StepCall(p, call, i)] # <<>>
    <3>1. ASSUME NEW i \in DOMAIN steps
          PROVE  Tree(p, steps[i].task, emit[StepCall(p, call, i)])
      <4>1. StepCall(p, call, i) \in Calls
        BY <2>6, StepCallIsSmaller
      <4>2. StepCall(p, call, i)[1] = steps[i].task
        BY DEF StepCall
      <4>3. QED
        BY <2>6, <4>1, <4>2, EmitsTree
    <3>2. Branches(p, t, below)
      BY <2>6, <3>1, CallBranches
    <3> HIDE DEF below
    <3>3. QED
      BY <2>1, <2>6, <3>2, JoinedIsNotEmpty
  <2>7. QED
    BY <2>2, <2>3, <2>4, <2>5, <2>6, EmitsCases
<1> HIDE DEF S
<1>2. Calls \subseteq S
  BY <1>1, CallInduction
<1>3. QED
  BY <1>2 DEF S

\* A task that cannot be flattened contains itself, or steps of a composite wait for
\* each other.
LEMMA UnflattenedIsCircular ==
  ASSUME NEW p, IsManifest(p), ReferencesDeclared(p), NEW root \in Tasks(p),
         Flatten(p, root) = <<>>
  PROVE  \/ Circular(Tasks(p), Parts(p))
         \/ \E t \in Tasks(p) : Circular(DOMAIN p.tasks[t].steps, After(p, t))
<1>1. root \in Nat
  BY ManifestShape
<1>2. PICK emit : Emits(p, emit) /\ Emit(p, root) = emit[<<root, {}>>]
  BY EmitUnrolls
<1> DEFINE call == <<root, {}>>
<1>3. call \in Calls /\ call[1] = root
  BY <1>1 DEF Calls
<1>4. OnTheWay(p, call)
  BY DEF OnTheWay
<1> HIDE DEF call
<1>5. emit[call] = <<>> => Circular(Tasks(p), Parts(p))
  BY <1>2, <1>3, <1>4, EmptyIsCircular
<1>6. emit[call] # <<>> => Tree(p, root, emit[call])
  BY <1>2, <1>3, EmitsTree
<1>7. emit[call] = <<>> \/ Knotted(emit[call])
  BY <1>1, <1>2, FlattenOrder DEF call
<1>8. QED
  BY <1>5, <1>6, <1>7 DEF Tree, StepsAcyclic

-----------------------------------------------------------------------------
\* The leaves of a plan are those of a tree.
LEMMA FlattenTree ==
  ASSUME NEW p, IsManifest(p), ReferencesDeclared(p), NEW root \in Tasks(p),
         Flatten(p, root) # <<>>
  PROVE  /\ Tree(p, root, Emit(p, root))
         /\ ToSet(Flatten(p, root)) = ToSet(Emit(p, root))
<1>1. root \in Nat
  BY ManifestShape
<1>2. PICK emit : Emits(p, emit) /\ Emit(p, root) = emit[<<root, {}>>]
  BY EmitUnrolls
<1>3. Flatten(p, root) \in Seq(LeafNodes(p)) /\ ToSet(Flatten(p, root)) = ToSet(Emit(p, root))
  BY <1>1, FlattenOrder
<1>4. Emit(p, root) # <<>>
  <2> DEFINE flat == Flatten(p, root)
  <2>1. flat \in Seq(LeafNodes(p)) /\ flat # <<>>
    BY <1>3
  <2> HIDE DEF flat
  <2>2. 1 \in DOMAIN flat
    BY <2>1, EmptySeq, LenProperties
  <2>3. ToSet(flat) # {} /\ ToSet(<<>>) = {}
    BY <2>2 DEF ToSet
  <2>4. QED
    BY <1>3, <2>3 DEF flat
<1> DEFINE call == <<root, {}>>
<1>5. call \in Calls /\ call[1] = root
  BY <1>1 DEF Calls
<1>6. emit[call] # <<>>
  BY <1>2, <1>4
<1> HIDE DEF call
<1>7. Tree(p, root, emit[call])
  BY <1>2, <1>5, <1>6, EmitsTree
<1>8. QED
  BY <1>2, <1>3, <1>7 DEF call

\* What a plan requires is used by the leaves of its task.
LEMMA RequirementsAreUsed ==
  ASSUME NEW p, IsManifest(p), ReferencesDeclared(p), NEW root \in Tasks(p)
  PROVE  DirectRequirements(p, Flatten(p, root)) \subseteq Uses(p, root)
<1> DEFINE flat == Flatten(p, root)
<1>1. flat \in Seq(LeafNodes(p))
  BY ManifestShape, FlattenOrder
<1>2. ASSUME NEW x \in ToSet(flat)
      PROVE  x.task \in Leaves(p, root)
  <2>1. PICK n \in DOMAIN flat : x = flat[n]
    BY DEF ToSet
  <2>2. flat # <<>>
    BY <2>1
  <2>3. x \in ToSet(Emit(p, root)) /\ Placed(p, root, Emit(p, root))
    BY <2>2, FlattenTree DEF Tree
  <2>4. x.task \in Least(Tasks(p), {root}, Parts(p))
    BY <2>3 DEF Placed
  <2> HIDE DEF flat
  <2>5. x \in LeafNodes(p)
    BY <1>1, <2>1, LenProperties
  <2>6. IsLeaf(p, x.task)
    BY <2>5 DEF LeafNodes
  <2>7. QED
    BY <2>4, <2>6 DEF Leaves
<1>3. QED
  BY <1>2 DEF DirectRequirements, Uses

\* Admission counts no need that is none.
LEMMA EdgesAreNeeds ==
  ASSUME NEW p, IsManifest(p), ReferencesDeclared(p)
  PROVE  \A s \in Services(p) : ServiceEdges(p)[s] \subseteq NeedsOf(p)[s]
<1>1. SUFFICES ASSUME NEW s \in Services(p)
               PROVE  ServiceEdges(p)[s] \subseteq NeedsOf(p)[s]
  OBVIOUS
<1> DEFINE t == p.services[s].prepare
<1>2. ServiceEdges(p)[s] = p.services[s].connects \cup DirectRequirements(p, Preparation(p, s))
  BY DEF ServiceEdges
<1>3. NeedsOf(p)[s] = p.services[s].connects \cup (IF t = None THEN {} ELSE Uses(p, t))
  BY DEF NeedsOf
<1>4. t \in Tasks(p) \cup {None}
  BY DEF ReferencesDeclared
<1>5. CASE t = None
  <2>1. Preparation(p, s) = <<>> /\ ToSet(<<>>) = {}
    BY <1>5 DEF Preparation, ToSet
  <2>2. DirectRequirements(p, Preparation(p, s)) = {}
    BY <2>1 DEF DirectRequirements
  <2>3. QED
    BY <1>2, <1>3, <2>2
<1>6. CASE t # None
  <2>1. Preparation(p, s) = Flatten(p, t)
    BY <1>6 DEF Preparation
  <2>2. DirectRequirements(p, Flatten(p, t)) \subseteq Uses(p, t)
    BY <1>4, <1>6, RequirementsAreUsed
  <2>3. QED
    BY <1>2, <1>3, <1>6, <2>1, <2>2
<1>7. QED
  BY <1>5, <1>6

\* What is among what it needs lies on a circle.
LEMMA ReachedIsCircular ==
  ASSUME NEW D, IsFiniteSet(D), NEW edges \in [D -> SUBSET D], NEW s \in D,
         s \in CloseUnion(edges[s], edges)
  PROVE  Circular(D, edges)
<1> DEFINE reach(u) == CloseUnion(edges[u], edges)
           C == {u \in D : s \in reach(u)}
<1>1. ASSUME NEW u \in D
      PROVE  /\ edges[u] \in SUBSET D
             /\ edges[u] \subseteq reach(u) /\ reach(u) \in SUBSET D
             /\ Closed(reach(u), edges)
             /\ \A T \in SUBSET D : edges[u] \subseteq T /\ Closed(T, edges) => reach(u) \subseteq T
  <2>1. edges[u] \in SUBSET D
    OBVIOUS
  <2>2. QED
    BY <2>1, CloseUnionIsClosure
<1>2. s \in C
  OBVIOUS
<1> HIDE DEF reach
<1>3. ASSUME NEW u \in C
      PROVE  edges[u] \cap C # {}
  <2>1. u \in D /\ s \in reach(u)
    OBVIOUS
  <2>2. SUFFICES ASSUME edges[u] \cap C = {}
                 PROVE  FALSE
    OBVIOUS
  <2> DEFINE T == edges[u] \cup UNION {reach(d) : d \in edges[u]}
  <2>3. edges[u] \in SUBSET D
    BY <2>1, <1>1
  <2>4. T \in SUBSET D
    BY <2>3, <1>1
  <2>5. ASSUME NEW x \in T
        PROVE  edges[x] \subseteq T
    <3>1. CASE x \in edges[u]
      <4>1. edges[x] \subseteq reach(x)
        BY <2>3, <3>1, <1>1
      <4>2. QED
        BY <3>1, <4>1
    <3>2. CASE x \notin edges[u]
      <4>1. PICK d \in edges[u] : x \in reach(d)
        BY <3>2
      <4>2. edges[x] \subseteq reach(d)
        BY <4>1, <2>3, <1>1 DEF Closed
      <4>3. QED
        BY <4>1, <4>2
    <3>3. QED
      BY <3>1, <3>2
  <2>6. reach(u) \subseteq T
    <3>1. Closed(T, edges) /\ edges[u] \subseteq T
      BY <2>5 DEF Closed
    <3> HIDE DEF T
    <3>2. QED
      BY <3>1, <2>1, <2>4, <1>1
  <2>7. s \notin edges[u]
    BY <2>2, <1>2
  <2>8. PICK d \in edges[u] : s \in reach(d)
    BY <2>1, <2>6, <2>7
  <2>9. d \in C
    BY <2>3, <2>8
  <2>10. QED
    BY <2>2, <2>8, <2>9
<1>4. C \in SUBSET D /\ C # {}
  BY <1>2
<1> HIDE DEF C
<1>5. QED
  BY <1>3, <1>4 DEF Circular

\* Services that cannot be ordered wait for each other.
LEMMA UnorderedIsCircular ==
  ASSUME NEW p, IsManifest(p), ReferencesDeclared(p), ~ ServicesAcyclic(p)
  PROVE  Circular(Services(p), NeedsOf(p))
<1> DEFINE D     == Services(p)
           edges == ServiceEdges(p)
           needs == NeedsOf(p)
<1>1. IsFiniteSet(D) /\ edges \in [D -> SUBSET D]
  BY ManifestShape, EdgesType
<1>2. PICK s \in D : s \in CloseUnion(edges[s], edges)
  BY DEF ServicesAcyclic
<1>3. \A u \in D : edges[u] \subseteq needs[u]
  BY EdgesAreNeeds
<1> HIDE DEF D, edges, needs
<1>4. Circular(D, edges)
  BY <1>1, <1>2, ReachedIsCircular
<1>5. PICK C \in SUBSET D \ {{}} : \A u \in C : edges[u] \cap C # {}
  BY <1>4 DEF Circular
<1>6. \A u \in C : needs[u] \cap C # {}
  BY <1>3, <1>5
<1>7. Circular(D, needs)
  BY <1>5, <1>6 DEF Circular
<1>8. QED
  BY <1>7 DEF D, needs

\* The services of a plan are needed.
LEMMA RequiredIsNeeded ==
  ASSUME NEW p, IsManifest(p), ReferencesDeclared(p), NEW t \in Tasks(p)
  PROVE  Required(p, t) \subseteq NeededBy(p, t)
<1> DEFINE D     == Services(p)
           edges == ServiceEdges(p)
           base  == DirectRequirements(p, Flatten(p, t))
<1>1. IsFiniteSet(D) /\ edges \in [D -> SUBSET D]
  BY ManifestShape, EdgesType
<1>2. base \subseteq Uses(p, t) /\ \A s \in D : edges[s] \subseteq NeedsOf(p)[s]
  BY RequirementsAreUsed, EdgesAreNeeds
<1>3. Required(p, t) = CloseUnion(base, edges)
  BY DEF Required
<1>4. Required(p, t) \in SUBSET D /\ base \subseteq Required(p, t)
  BY RequiredIsClosed
<1> HIDE DEF D, edges, base
<1>5. ASSUME NEW C \in SUBSET D, Uses(p, t) \subseteq C,
             \A c \in C : NeedsOf(p)[c] \cap D \subseteq C
      PROVE  Required(p, t) \subseteq C
  <2>1. base \subseteq C /\ Closed(C, edges)
    BY <1>1, <1>2, <1>5 DEF Closed
  <2>2. base \in SUBSET D
    BY <1>4
  <2>3. QED
    BY <1>1, <1>3, <2>1, <2>2, CloseUnionIsClosure
<1>6. QED
  BY <1>4, <1>5 DEF NeededBy, Least, D

-----------------------------------------------------------------------------
\* Where admission finds no room, there is none.
LEMMA UnfitIsImpossible ==
  ASSUME NEW p, IsManifest(p), ReferencesDeclared(p), PlacementsValid(p),
         NEW t \in Tasks(p), NEW k \in DOMAIN p.windows, ~ Fits(p, Required(p, t), p.windows[k])
  PROVE  Cardinality(Endpoints(p, NeededBy(p, t))) > Cardinality(Window(p.windows[k]))
<1> DEFINE window == p.windows[k]
           few    == Endpoints(p, Required(p, t))
           all    == Endpoints(p, NeededBy(p, t))
<1>1. window.start \in Nat /\ window.end \in Nat /\ window.start <= window.end
  <2>1. window \in PortWindows
    BY LenProperties DEF IsManifest
  <2>2. window.start \in 0..MaxPort /\ window.end \in 0..MaxPort
    BY <2>1 DEF PortWindows
  <2>3. window.start <= window.end
    BY DEF PlacementsValid
  <2> HIDE DEF window
  <2>4. QED
    BY <2>2, <2>3
<1>2. Cardinality(Window(window)) = window.end - window.start + 1
  <2> DEFINE a == window.start
             b == window.end
  <2>1. a \in Nat /\ b \in Nat /\ a <= b
    BY <1>1
  <2> HIDE DEF a, b
  <2>2. a \in Int /\ b \in Int /\ ~ a > b
    BY <2>1
  <2>3. Cardinality(a..b) = b - a + 1
    BY <2>2, FS_Interval
  <2>4. QED
    BY <2>3 DEF a, b, Window
<1>3. ~ Cardinality(few) <= window.end - window.start + 1
  BY DEF Fits, Capacity
<1>4. IsFiniteSet(all) /\ few \subseteq all
  <2>1. NeededBy(p, t) \in SUBSET Services(p)
    BY DEF NeededBy, Least
  <2>2. Required(p, t) \subseteq NeededBy(p, t)
    BY RequiredIsNeeded
  <2>3. IsFiniteSet(all)
    BY <2>1, EndpointsType
  <2>4. few \subseteq all
    BY <2>2 DEF Endpoints
  <2>5. QED
    BY <2>3, <2>4
<1> HIDE DEF few, all, window
<1>5. /\ IsFiniteSet(few) /\ Cardinality(few) <= Cardinality(all)
      /\ Cardinality(few) \in Nat /\ Cardinality(all) \in Nat
  <2>1. IsFiniteSet(few) /\ Cardinality(few) <= Cardinality(all)
    BY <1>4, FS_Subset
  <2>2. QED
    BY <2>1, <1>4, FS_CardinalityType
<1>6. Cardinality(all) > window.end - window.start + 1
  BY <1>1, <1>3, <1>5
<1>7. QED
  BY <1>2, <1>6 DEF all, window

\* Placements that are refused make no sense or share a port.
LEMMA RefusedPlacements ==
  ASSUME NEW p, IsManifest(p), ~ PlacementsValid(p)
  PROVE  Impossible(p, "placements")
<1> DEFINE I         == DOMAIN p.windows
           start(i)  == p.windows[i].start
           end(i)    == p.windows[i].end
           window(i) == Window(p.windows[i])
<1>1. \A i \in I : i \in Nat /\ start(i) \in Nat /\ end(i) \in Nat /\ window(i) = start(i)..end(i)
  <2>1. ASSUME NEW i \in I
        PROVE  i \in Nat /\ p.windows[i] \in PortWindows
    BY LenProperties DEF IsManifest
  <2>2. \A i \in I : start(i) \in 0..MaxPort /\ end(i) \in 0..MaxPort
    BY <2>1 DEF PortWindows
  <2>3. \A i \in I : window(i) = start(i)..end(i)
    BY DEF Window
  <2> HIDE DEF window, start, end
  <2>4. QED
    BY <2>1, <2>2, <2>3
<1>2. Impossible(p, "placements") <=>
        \E j, k \in I : \/ window(k) \ {0} # window(k)
                        \/ start(k) > end(k)
                        \/ j # k /\ window(j) \cap window(k) # {}
  BY DEF Impossible
<1>3. \/ \E k \in I : start(k) = 0 \/ ~ start(k) <= end(k)
      \/ \E j, k \in I : /\ start(j) < start(k) \/ (start(j) = start(k) /\ j < k)
                         /\ ~ start(k) > end(j)
  BY DEF PlacementsValid
<1> HIDE DEF I, window, start, end
<1>4. ASSUME NEW k \in I, ~ start(k) <= end(k)
      PROVE  Impossible(p, "placements")
  <2>1. start(k) > end(k)
    BY <1>1, <1>4
  <2>2. QED
    BY <1>2, <2>1
<1>5. ASSUME NEW k \in I, start(k) = 0
      PROVE  Impossible(p, "placements")
  <2>1. CASE ~ start(k) <= end(k)
    BY <1>4, <2>1
  <2>2. CASE start(k) <= end(k)
    <3>1. 0 \in window(k)
      BY <1>1, <1>5, <2>2
    <3>2. window(k) \ {0} # window(k)
      BY <3>1
    <3>3. QED
      BY <1>2, <3>2
  <2>3. QED
    BY <2>1, <2>2
<1>6. ASSUME NEW j \in I, NEW k \in I,
             start(j) < start(k) \/ (start(j) = start(k) /\ j < k), ~ start(k) > end(j)
      PROVE  Impossible(p, "placements")
  <2>1. CASE ~ start(k) <= end(k)
    BY <1>4, <2>1
  <2>2. CASE start(k) <= end(k)
    <3>1. /\ j \in Nat /\ k \in Nat
          /\ start(j) \in Nat /\ end(j) \in Nat /\ start(k) \in Nat /\ end(k) \in Nat
      BY <1>1
    <3>2. j # k /\ start(k) \in start(j)..end(j) /\ start(k) \in start(k)..end(k)
      BY <1>6, <2>2, <3>1
    <3>3. window(j) \cap window(k) # {}
      BY <1>1, <3>2
    <3>4. QED
      BY <1>2, <3>2, <3>3
  <2>3. QED
    BY <2>1, <2>2
<1>7. QED
  BY <1>3, <1>4, <1>5, <1>6

\* A placeholder that is refused is one that no run could resolve.
LEMMA RefusedPlaceholder ==
  ASSUME NEW p, IsManifest(p), ReferencesDeclared(p), ~ PlaceholdersDeclared(p)
  PROVE  Impossible(p, "placeholder")
<1>1. Impossible(p, "placeholder") <=>
        \/ \E s \in Services(p) : ~ p.services[s].names \subseteq ServiceContext(p, s, Services(p))
        \/ \E t \in Tasks(p) : IsLeaf(p, t) /\ ~ p.tasks[t].names \subseteq TaskContext(p, t)
  BY DEF Impossible
<1>2. ASSUME NEW s \in Services(p), ~ p.services[s].names \subseteq ServiceScope(p, s)
      PROVE  Impossible(p, "placeholder")
  <2>1. ServiceContext(p, s, Services(p)) \subseteq ServiceScope(p, s)
    BY DEF ServiceContext, ServiceScope, Selected
  <2>2. QED
    BY <1>1, <1>2, <2>1
<1>3. ASSUME NEW t \in Tasks(p), IsLeaf(p, t), ~ p.tasks[t].names \subseteq TaskScope(p, t)
      PROVE  Impossible(p, "placeholder")
  <2> DEFINE requires == p.tasks[t].requires
  <2>1. requires \in Seq(Nat)
    BY ManifestShape
  <2>2. requires # <<>> => Head(requires) = requires[1]
    BY <2>1
  <2>3. TaskContext(p, t) \subseteq TaskScope(p, t)
    BY <2>2 DEF TaskContext, TaskScope, Selected
  <2>4. QED
    BY <1>1, <1>3, <2>3
<1>4. QED
  BY <1>2, <1>3 DEF PlaceholdersDeclared

\* A manifest is refused only for what makes it impossible, whatever the manifest
\* (OnlyTheImpossibleIsRefused): admission's walks over sets find no cycle, no
\* missing room and no unresolvable placeholder that the graph does not have.
THEOREM RefusalsAreDeserved == Spec => []OnlyTheImpossibleIsRefused
<1>1. Init => OnlyTheImpossibleIsRefused
  BY DEF Init, OnlyTheImpossibleIsRefused
<1>2. PInv /\ OnlyTheImpossibleIsRefused /\ [Next]_vars => OnlyTheImpossibleIsRefused'
  <2>1. SUFFICES ASSUME PInv, OnlyTheImpossibleIsRefused, [Next]_vars, step' = "refused"
                 PROVE  Impossible(program', refusal')
    BY DEF OnlyTheImpossibleIsRefused
  <2>2. /\ IsManifest(program)
        /\ step = "validated" => PlacementsValid(program)
        /\ step \in {"referenced", "lowered", "acyclic"} =>
             PlacementsValid(program) /\ ReferencesDeclared(program)
    BY <2>1 DEF PInv, Checked, WalkSteps, AdmittedSteps, AcyclicSteps, LoweredSteps,
                ReferencedSteps, ValidatedSteps
  <2>3. Impossible(program, "endpoints") /\ Impossible(program, "reference")
        /\ Impossible(program, "slot")
    BY DEF Impossible
  <2>4. CASE Validate
    <3>1. /\ program' = program
          /\ refusal' = IF PlacementsValid(program) THEN "endpoints" ELSE "placements"
      BY <2>1, <2>4 DEF Validate, Check
    <3>2. QED
      BY <3>1, <2>2, <2>3, RefusedPlacements
  <2>5. CASE ProveReferences
    <3>1. program' = program /\ refusal' = "reference"
      BY <2>1, <2>5 DEF ProveReferences, Check
    <3>2. QED
      BY <3>1, <2>3
  <2>6. CASE Lower
    <3>1. /\ program' = program /\ refusal' = "placeholder"
          /\ ~ PlaceholdersDeclared(program) /\ step = "referenced"
      BY <2>1, <2>6 DEF Lower, Check
    <3>2. QED
      BY <3>1, <2>2, RefusedPlaceholder
  <2>7. CASE ProveGraph
    <3>1. /\ program' = program /\ step = "lowered"
          /\ refusal' = IF TasksFlatten(program) THEN "services" ELSE "tasks"
          /\ ~ TasksFlatten(program) \/ ~ ServicesAcyclic(program)
      BY <2>1, <2>7 DEF ProveGraph, Check
    <3>2. CASE TasksFlatten(program)
      <4>1. Circular(Services(program), NeedsOf(program))
        BY <3>1, <3>2, <2>2, UnorderedIsCircular
      <4>2. QED
        BY <3>1, <3>2, <4>1 DEF Impossible
    <3>3. CASE ~ TasksFlatten(program)
      <4>1. PICK root \in Tasks(program) : Flatten(program, root) = <<>>
        BY <3>3 DEF TasksFlatten
      <4>2. \/ Circular(Tasks(program), Parts(program))
            \/ \E t \in Tasks(program) : Circular(DOMAIN program.tasks[t].steps, After(program, t))
        BY <3>1, <4>1, <2>2, UnflattenedIsCircular
      <4>3. QED
        BY <3>1, <3>3, <4>2 DEF Impossible
    <3>4. QED
      BY <3>2, <3>3
  <2>8. CASE ProveCapacity
    <3>1. program' = program /\ refusal' = "capacity" /\ step = "acyclic" /\ ~ TasksFit(program)
      BY <2>1, <2>8 DEF ProveCapacity, Check
    <3>2. PICK t \in Tasks(program), k \in DOMAIN program.windows :
            ~ Fits(program, Required(program, t), program.windows[k])
      BY <3>1 DEF TasksFit
    <3>3. Cardinality(Endpoints(program, NeededBy(program, t)))
            > Cardinality(Window(program.windows[k]))
      BY <3>1, <3>2, <2>2, UnfitIsImpossible
    <3>4. QED
      BY <3>1, <3>3 DEF Impossible
  <2>9. CASE SelectSlot
    <3>1. program' = program /\ refusal' = "slot"
      BY <2>1, <2>9 DEF SelectSlot, Plan, Check
    <3>2. QED
      BY <3>1, <2>3
  <2>10. CASE BindService \/ PrepareLeaf \/ StartService \/ RunLeaf \/ Finish
    BY <2>1, <2>10 DEF BindService, PrepareLeaf, StartService, RunLeaf, Finish, Continue
  <2>11. CASE UNCHANGED vars
    BY <2>1, <2>11 DEF vars, OnlyTheImpossibleIsRefused
  <2>12. QED
    BY <2>1, <2>4, <2>5, <2>6, <2>7, <2>8, <2>9, <2>10, <2>11 DEF Next
<1>3. QED
  BY <1>1, <1>2, PlanInvariance, PTL DEF Spec

-----------------------------------------------------------------------------
\* The leaves of a plan, seen from its tree.
LEMMA PlanLeaves ==
  ASSUME NEW p, IsManifest(p), ReferencesDeclared(p), NEW root \in Tasks(p),
         Flatten(p, root) # <<>>
  PROVE  LET flat == Flatten(p, root)
         IN /\ \A n \in DOMAIN flat : flat[n].path \in Seq(Nat) /\ IsLeaf(p, flat[n].task)
            /\ Placed(p, root, flat) /\ Waiting(p, root, flat) /\ Whole(p, root, flat)
            /\ \A a, b \in DOMAIN flat : /\ flat[b].path \in flat[a].after => b < a
                                         /\ flat[a].path = flat[b].path => a = b
<1> DEFINE flat == Flatten(p, root)
<1>1. Tree(p, root, Emit(p, root)) /\ ToSet(flat) = ToSet(Emit(p, root))
  BY FlattenTree
<1>2. root \in Nat
  BY ManifestShape
<1>3. Distinct(Emit(p, root)) /\ PathsDiffer(Emit(p, root))
  BY <1>1 DEF Tree
<1>4. /\ flat \in Seq(LeafNodes(p))
      /\ \A a, b \in DOMAIN flat : /\ flat[b].path \in flat[a].after => b < a
                                   /\ flat[a].path = flat[b].path => a = b
  BY <1>2, <1>3, FlattenOrder
<1> HIDE DEF flat
<1>5. Placed(p, root, flat) /\ Waiting(p, root, flat) /\ Whole(p, root, flat)
  <2> DEFINE nodes == Emit(p, root)
  <2>1. Placed(p, root, nodes) /\ Waiting(p, root, nodes) /\ Whole(p, root, nodes)
    BY <1>1 DEF Tree
  <2>2. ToSet(flat) = ToSet(nodes)
    BY <1>1
  <2> HIDE DEF nodes
  <2>3. Placed(p, root, flat)
    BY <2>1, <2>2 DEF Placed
  <2>4. Waiting(p, root, flat)
    BY <2>1, <2>2 DEF Waiting
  <2>5. Whole(p, root, flat)
    <3> DEFINE whole(S) == \A x \in S : \A n \in DOMAIN x.path :
                 LET u == TaskAt(p, root, Above(x.path, n))
                 IN /\ u \in Tasks(p) /\ x.path[n] \in DOMAIN p.tasks[u].steps
                    /\ \A i \in DOMAIN p.tasks[u].steps : \E y \in S :
                         n \in DOMAIN y.path /\ Above(y.path, n) = Above(x.path, n)
                           /\ y.path[n] = i
    <3>1. whole(ToSet(nodes))
      BY <2>1 DEF Whole
    <3>2. whole(ToSet(flat))
      <4> HIDE DEF whole
      <4>1. QED
        BY <2>2, <3>1
    <3>3. QED
      BY <3>2 DEF Whole
  <2>6. QED
    BY <2>3, <2>4, <2>5
<1>6. \A n \in DOMAIN flat : flat[n] \in LeafNodes(p)
  BY <1>4, LenProperties
<1>7. \A n \in DOMAIN flat : flat[n].path \in Seq(Nat) /\ IsLeaf(p, flat[n].task)
  BY <1>6 DEF LeafNodes
<1>8. QED
  BY <1>4, <1>5, <1>7 DEF flat

\* A leaf never comes before one that it waits for, directly or not.
LEMMA NoneComesTooEarly ==
  ASSUME NEW p, IsManifest(p), ReferencesDeclared(p), NEW root \in Tasks(p),
         Flatten(p, root) # <<>>,
         NEW m \in DOMAIN Flatten(p, root), NEW n \in DOMAIN Flatten(p, root),
         MustFollow(p, root, Flatten(p, root)[m].path, Flatten(p, root)[n].path)
  PROVE  n < m
<1> DEFINE flat  == Flatten(p, root)
           later == flat[m].path
           first == flat[n].path
<1>1. /\ Waiting(p, root, flat) /\ Whole(p, root, flat)
      /\ \A a, b \in DOMAIN flat : flat[b].path \in flat[a].after => b < a
      /\ DOMAIN flat \in SUBSET Nat
  <2>1. flat \in Seq(LeafNodes(p))
    BY ManifestShape, FlattenOrder
  <2>2. DOMAIN flat \in SUBSET Nat
    <3> HIDE DEF flat
    <3>1. DOMAIN flat = 1..Len(flat) /\ Len(flat) \in Nat
      BY <2>1, LenProperties
    <3>2. QED
      BY <3>1
  <2>3. QED
    BY <2>2, PlanLeaves
<1>2. PICK k \in DOMAIN later \cap DOMAIN first :
        /\ Above(later, k) = Above(first, k)
        /\ LET t == TaskAt(p, root, Above(later, k))
           IN first[k] \in Least(DOMAIN p.tasks[t].steps,
                                 p.tasks[t].steps[later[k]].after, After(p, t))
  BY DEF MustFollow, Above
<1> DEFINE above == Above(later, k)
           t     == TaskAt(p, root, above)
           steps == p.tasks[t].steps
           through(b, j) == k \in DOMAIN flat[b].path /\ Above(flat[b].path, k) = above
                              /\ flat[b].path[k] = j
           C == {j \in DOMAIN steps : \A b \in DOMAIN flat : through(b, j) => b < m}
<1>3. /\ t \in Tasks(p) /\ later[k] \in DOMAIN steps
      /\ \A j \in DOMAIN steps : \E d \in DOMAIN flat : through(d, j)
  <2>1. flat[m] \in ToSet(flat)
    BY DEF ToSet
  <2>2. /\ t \in Tasks(p) /\ later[k] \in DOMAIN steps
        /\ \A j \in DOMAIN steps : \E y \in ToSet(flat) :
             k \in DOMAIN y.path /\ Above(y.path, k) = above /\ y.path[k] = j
    <3>1. Whole(p, root, flat)
      BY <1>1
    <3>2. QED
      BY <2>1, <3>1, Zenon DEF Whole
  <2> HIDE DEF flat, above, t, later
  <2>3. ASSUME NEW j \in DOMAIN steps
        PROVE  \E d \in DOMAIN flat : through(d, j)
    <3>1. PICK y \in ToSet(flat) : k \in DOMAIN y.path /\ Above(y.path, k) = above /\ y.path[k] = j
      BY <2>2
    <3>2. PICK d \in DOMAIN flat : y = flat[d]
      BY DEF ToSet
    <3>3. QED
      BY <3>1, <3>2
  <2>4. QED
    BY <2>2, <2>3
<1>4. through(m, later[k]) /\ through(n, first[k])
  BY <1>2
<1>5. ASSUME NEW a \in DOMAIN flat, NEW b \in DOMAIN flat, NEW i, NEW j,
             through(a, i), through(b, j), j \in steps[i].after
      PROVE  b < a
  <2>1. flat[a] \in ToSet(flat) /\ flat[b] \in ToSet(flat)
    BY DEF ToSet
  <2>2. flat[b].path \in flat[a].after
    BY <1>1, <1>5, <2>1 DEF Waiting
  <2>3. QED
    BY <1>1, <2>2
<1>6. \A i \in DOMAIN steps : /\ steps[i].after \subseteq DOMAIN steps
                              /\ After(p, t)[i] = steps[i].after
  BY <1>3 DEF ReferencesDeclared, After
<1>7. first[k] \in Least(DOMAIN steps, steps[later[k]].after, After(p, t))
  BY <1>2
<1> HIDE DEF through, t, later, first, flat
<1>8. steps[later[k]].after \subseteq C
  <2>1. ASSUME NEW j \in steps[later[k]].after, NEW b \in DOMAIN flat, through(b, j)
        PROVE  b < m
    <3>1. m \in DOMAIN flat
      BY DEF flat
    <3>2. QED
      BY <3>1, <2>1, <1>4, <1>5
  <2>2. QED
    BY <1>3, <1>6, <2>1
<1>9. ASSUME NEW c \in C
      PROVE  steps[c].after \subseteq C
  <2>1. PICK d \in DOMAIN flat : through(d, c)
    BY <1>3
  <2>2. d < m
    BY <2>1
  <2>3. ASSUME NEW j \in steps[c].after, NEW b \in DOMAIN flat, through(b, j)
        PROVE  b < m
    <3>1. b < d
      BY <1>5, <2>1, <2>3
    <3>2. b \in Nat /\ d \in Nat /\ m \in Nat
      BY <1>1 DEF flat
    <3>3. QED
      BY <2>2, <3>1, <3>2
  <2>4. QED
    BY <1>6, <2>3
<1>10. C \in SUBSET DOMAIN steps /\ \A c \in C : After(p, t)[c] \cap DOMAIN steps \subseteq C
  BY <1>6, <1>9
<1>11. first[k] \in C
  <2> HIDE DEF C, steps
  <2>1. QED
    BY <1>7, <1>8, <1>10 DEF Least
<1>12. QED
  BY <1>4, <1>11 DEF flat

\* A flattened task runs in order.
LEMMA FlattenRunsInOrder ==
  ASSUME NEW p, IsManifest(p), ReferencesDeclared(p), NEW root \in Tasks(p),
         Flatten(p, root) # <<>>
  PROVE  RunsInOrder(p, root, Flatten(p, root))
<1> DEFINE flat == Flatten(p, root)
<1>1. /\ \A n \in DOMAIN flat : flat[n].path \in Seq(Nat) /\ IsLeaf(p, flat[n].task)
      /\ Placed(p, root, flat) /\ Whole(p, root, flat)
      /\ \A a, b \in DOMAIN flat : flat[a].path = flat[b].path => a = b
  BY PlanLeaves
<1>2. \A m, n \in DOMAIN flat : MustFollow(p, root, flat[m].path, flat[n].path) => n < m
  BY NoneComesTooEarly
<1>3. DOMAIN flat \in SUBSET Nat
  <2>1. flat \in Seq(LeafNodes(p))
    BY ManifestShape, FlattenOrder
  <2> HIDE DEF flat
  <2>2. DOMAIN flat = 1..Len(flat) /\ Len(flat) \in Nat
    BY <2>1, LenProperties
  <2>3. QED
    BY <2>2
<1> HIDE DEF flat
<1>4. \A n \in DOMAIN flat : IsLeaf(p, TaskAt(p, root, flat[n].path))
  <2>1. \A n \in DOMAIN flat : TaskAt(p, root, flat[n].path) = flat[n].task
    BY <1>1 DEF Placed, ToSet
  <2>2. QED
    BY <1>1, <2>1
<1>5. \A m, n \in DOMAIN flat : m < n => /\ flat[m].path # flat[n].path
                                         /\ ~ MustFollow(p, root, flat[m].path, flat[n].path)
  <2>1. ASSUME NEW m \in DOMAIN flat, NEW n \in DOMAIN flat, m < n
        PROVE  m # n /\ ~ n < m
    <3>1. m \in Nat /\ n \in Nat
      BY <1>3
    <3>2. QED
      BY <2>1, <3>1
  <2>2. QED
    BY <1>1, <1>2, <2>1
<1>6. ASSUME NEW n \in DOMAIN flat, NEW k \in DOMAIN flat[n].path,
             NEW i \in DOMAIN p.tasks[TaskAt(p, root, Above(flat[n].path, k))].steps
      PROVE  \E m \in DOMAIN flat : IsPrefix(Append(Above(flat[n].path, k), i), flat[m].path)
  <2>1. flat[n] \in ToSet(flat)
    BY DEF ToSet
  <2> DEFINE x == flat[n]
             above == Above(x.path, k)
             t == TaskAt(p, root, above)
  <2>2. \A j \in DOMAIN p.tasks[t].steps : \E y \in ToSet(flat) :
          k \in DOMAIN y.path /\ Above(y.path, k) = above /\ y.path[k] = j
    <3> HIDE DEF x
    <3>1. x \in ToSet(flat) /\ k \in DOMAIN x.path
      BY <2>1 DEF x
    <3>2. Whole(p, root, flat)
      BY <1>1
    <3>3. QED
      BY <3>1, <3>2, Zenon DEF Whole
  <2>3. PICK y \in ToSet(flat) : /\ k \in DOMAIN y.path
                                 /\ Above(y.path, k) = Above(flat[n].path, k) /\ y.path[k] = i
    BY <2>2
  <2>4. PICK m \in DOMAIN flat : y = flat[m]
    BY DEF ToSet
  <2> DEFINE q == y.path
  <2>5. q \in Seq(Nat) /\ k \in DOMAIN q
    BY <1>1, <2>3, <2>4
  <2> HIDE DEF q
  <2>6. IsPrefix(Append(Above(q, k), q[k]), q)
    BY <2>5, PathGoesOn
  <2>7. QED
    BY <2>3, <2>4, <2>6 DEF q
<1>7. QED
  BY <1>4, <1>5, <1>6 DEF RunsInOrder, Above, flat

\* Every leaf of every task has its one place, after all the leaves it waits for,
\* whatever the manifest (StepsInOrder).
THEOREM LeavesRunInOrder == Spec => []StepsInOrder
<1>1. PInv => StepsInOrder
  <2>1. SUFFICES ASSUME PInv, step = "acyclic", NEW t \in Tasks(program)
                 PROVE  RunsInOrder(program, t, Flatten(program, t))
    BY DEF StepsInOrder
  <2>2. IsManifest(program) /\ ReferencesDeclared(program) /\ TasksFlatten(program)
    BY <2>1 DEF PInv, Checked, AcyclicSteps, LoweredSteps, ReferencedSteps
  <2>3. QED
    BY <2>1, <2>2, FlattenRunsInOrder DEF TasksFlatten
<1>2. QED
  BY <1>1, PlanInvariance, PTL
=============================================================================
