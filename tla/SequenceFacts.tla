---------------------------- MODULE SequenceFacts ----------------------------
(***************************************************************************)
(* Facts about numbers, recursive functions and sequences that the proofs  *)
(* about data need: least elements and the inductions that follow, the     *)
(* existence of iterations, and what joining sequences gives.              *)
(*                                                                         *)
(* Induction is over a set, given by what its elements satisfy.            *)
(***************************************************************************)

EXTENDS Naturals, SequencesExt, FiniteSetTheorems, SequenceTheorems, TLAPS

-----------------------------------------------------------------------------
\* A set of numbers that is not empty has a least one.
LEMMA LeastNumber ==
  ASSUME NEW S \in SUBSET Nat, S # {}
  PROVE  \E x \in S : \A y \in S : x <= y
<1>1. \E x \in S : \A y \in S : ~ <<y, x>> \in OpToRel(<, Nat)
  BY NatLessThanWellFounded, WFMin
<1>2. PICK x \in S : \A y \in S : ~ <<y, x>> \in OpToRel(<, Nat)
  BY <1>1
<1>3. ASSUME NEW y \in S
      PROVE  x <= y
  <2>1. ~ y < x
    BY <1>2 DEF OpToRel
  <2>2. QED
    BY <2>1
<1>4. QED
  BY <1>3

\* Min finds it.
LEMMA MinIsLeast ==
  ASSUME NEW S \in SUBSET Nat, S # {}
  PROVE  Min(S) \in S /\ \A y \in S : Min(S) <= y
<1>1. \E x \in S : \A y \in S : x <= y
  BY LeastNumber
<1>2. QED
  BY <1>1, Zenon DEF Min

\* Induction over the numbers, of a set.
LEMMA Induction ==
  ASSUME NEW S, 0 \in S, \A n \in Nat : n \in S => n + 1 \in S
  PROVE  Nat \subseteq S
<1>1. SUFFICES ASSUME Nat \ S # {}
               PROVE  FALSE
  OBVIOUS
<1>2. Nat \ S \in SUBSET Nat
  OBVIOUS
<1>3. PICK x \in Nat \ S : \A y \in Nat \ S : x <= y
  BY <1>1, <1>2, LeastNumber
<1>4. x # 0 /\ x - 1 \in Nat
  BY <1>3
<1>5. x - 1 \in S
  BY <1>3, <1>4
<1>6. x - 1 + 1 = x
  BY <1>3
<1>7. QED
  BY <1>3, <1>4, <1>5, <1>6

\* Induction from the end: what holds where it holds of all that come later.
LEMMA DownwardInduction ==
  ASSUME NEW N \in Nat, NEW S, \A c \in 0..N : (\A e \in (c + 1)..N : e \in S) => c \in S
  PROVE  0..N \subseteq S
<1> DEFINE Bad == {n \in Nat : n <= N /\ N - n \notin S}
<1>1. SUFFICES ASSUME NEW d \in 0..N, d \notin S
               PROVE  FALSE
  OBVIOUS
<1>2. N - d \in 0..N /\ N - (N - d) = d
  OBVIOUS
<1>3. Bad \in SUBSET Nat /\ Bad # {}
  <2>1. N - d \in Nat /\ N - d <= N /\ N - (N - d) \notin S
    BY <1>1, <1>2
  <2>2. N - d \in Bad
    BY <2>1, Zenon
  <2>3. Bad \in SUBSET Nat
    OBVIOUS
  <2>4. QED
    BY <2>2, <2>3
<1>4. PICK n \in Bad : \A m \in Bad : n <= m
  <2> HIDE DEF Bad
  <2>1. QED
    BY <1>3, LeastNumber
<1>5. n \in 0..N /\ N - n \in 0..N /\ N - n \notin S
  BY <1>4
<1>6. ASSUME NEW e \in (N - n + 1)..N
      PROVE  e \in S
  <2>1. N - e \in 0..N /\ N - (N - e) = e /\ ~ n <= N - e
    BY <1>5
  <2>2. N - e \notin Bad
    BY <1>4, <2>1
  <2>3. QED
    BY <2>1, <2>2
<1>7. QED
  BY <1>5, <1>6

\* A sequence has as many places as its length says.
LEMMA Places ==
  ASSUME NEW n \in Nat
  PROVE  IsFiniteSet(1..n) /\ Cardinality(1..n) = n
<1>1. 1 \in Int /\ n \in Int /\ (IF 1 > n THEN 0 ELSE n - 1 + 1) = n
  OBVIOUS
<1>2. QED
  BY <1>1, FS_Interval

\* The values that start with a, each of the others made from the one before it.
Iteration(f, V, a, N, F) ==
  /\ f \in [0..N -> V]
  /\ f[0] = a /\ \A n \in 1..N : f[n] = F[<<n, f[n - 1]>>]

\* A function may be defined by its beginning and its steps.
LEMMA Iterates ==
  ASSUME NEW V, NEW a \in V, NEW N \in Nat, NEW F \in [Nat \X V -> V]
  PROVE  \E f : Iteration(f, V, a, N, F)
<1> DEFINE Good == {m \in Nat : \E f : Iteration(f, V, a, m, F)}
<1>1. 0 \in Good
  <2> DEFINE g == [n \in 0..0 |-> a]
  <2>1. g \in [0..0 -> V] /\ g[0] = a /\ 1..0 = {}
    OBVIOUS
  <2> HIDE DEF g
  <2>2. Iteration(g, V, a, 0, F)
    BY <2>1 DEF Iteration
  <2>3. QED
    BY <2>2
<1>2. ASSUME NEW m \in Nat, m \in Good
      PROVE  m + 1 \in Good
  <2>0. PICK f : Iteration(f, V, a, m, F)
    BY <1>2
  <2>1. /\ f \in [0..m -> V]
        /\ f[0] = a /\ \A n \in 1..m : f[n] = F[<<n, f[n - 1]>>]
    BY <2>0 DEF Iteration
  <2>2. f[m] \in V /\ F[<<m + 1, f[m]>>] \in V
    BY <2>1
  <2> DEFINE g == [n \in 0..(m + 1) |-> IF n = m + 1 THEN F[<<m + 1, f[m]>>] ELSE f[n]]
  <2>3. g \in [0..(m + 1) -> V]
    BY <2>1, <2>2
  <2>4. g[0] = a
    BY <2>1
  <2>5. ASSUME NEW n \in 1..(m + 1)
        PROVE  g[n] = F[<<n, g[n - 1]>>]
    <3>1. CASE n = m + 1
      <4>1. g[n] = F[<<m + 1, f[m]>>] /\ n - 1 = m /\ n - 1 # m + 1 /\ n - 1 \in 0..(m + 1)
        BY <3>1
      <4>2. g[n - 1] = f[m]
        BY <4>1
      <4>3. QED
        BY <4>1, <4>2, <3>1
    <3>2. CASE n # m + 1
      <4>1. n \in 1..m /\ g[n] = f[n] /\ g[n - 1] = f[n - 1]
        BY <3>2
      <4>2. QED
        BY <4>1, <2>1
    <3>3. QED
      BY <3>1, <3>2
  <2> HIDE DEF g
  <2>6. Iteration(g, V, a, m + 1, F)
    BY <2>3, <2>4, <2>5 DEF Iteration
  <2>7. QED
    BY <2>6
<1>3. N \in Good
  <2> HIDE DEF Good
  <2>1. Nat \subseteq Good
    BY <1>1, <1>2, Induction
  <2>2. QED
    BY <2>1
<1>4. QED
  BY <1>3

\* Sequences of sequences are joined one after the other.
LEMMA FlattenSeqUnrolls ==
  ASSUME NEW S, NEW s \in Seq(Seq(S)), s # <<>>
  PROVE  \E f : /\ FlattenSeq(s) = f[Len(s)] /\ f[1] = s[1]
                /\ \A k \in 1..Len(s) : f[k] \in Seq(S)
                /\ \A n \in Nat : n + 1 \in 2..Len(s) => f[n + 1] = f[n] \o s[n + 1]
<1> DEFINE N == Len(s)
           V == Seq(S)
           F == [c \in Nat \X V |-> IF c[1] \in 1..N THEN c[2] \o s[c[1]] ELSE <<>>]
           flatten == CHOOSE f : f = [i \in 1..N |-> IF i = 1 THEN s[i] ELSE f[i - 1] \o s[i]]
<1>1. N \in Nat \ {0} /\ DOMAIN s = 1..N /\ \A i \in 1..N : s[i] \in V
  BY EmptySeq, LenProperties
<1>2. <<>> \in V
  BY EmptySeq
<1>3. F \in [Nat \X V -> V]
  <2>1. ASSUME NEW c \in Nat \X V
        PROVE  (IF c[1] \in 1..N THEN c[2] \o s[c[1]] ELSE <<>>) \in V
    <3>1. c[2] \in V
      OBVIOUS
    <3>2. QED
      BY <3>1, <1>1, <1>2, ConcatProperties
  <2>2. QED
    BY <2>1
<1>4. \A n \in 1..N : \A q \in V : F[<<n, q>>] = q \o s[n]
  <2>1. ASSUME NEW n \in 1..N, NEW q \in V
        PROVE  F[<<n, q>>] = q \o s[n]
    <3>1. n \in Nat
      BY <1>1
    <3>2. <<n, q>> \in Nat \X V /\ <<n, q>>[1] = n /\ <<n, q>>[2] = q
      BY <3>1
    <3> HIDE DEF V
    <3>3. QED
      BY <3>2
  <2>2. QED
    BY <2>1
<1>5. PICK f : Iteration(f, V, <<>>, N, F)
  <2> HIDE DEF F, V, N
  <2>1. QED
    BY <1>1, <1>2, <1>3, Iterates
<1>6. /\ f \in [0..N -> V]
      /\ f[0] = <<>> /\ \A n \in 1..N : f[n] = F[<<n, f[n - 1]>>]
  BY <1>5 DEF Iteration
<1> DEFINE g == [i \in 1..N |-> f[i]]
<1>7. g = [i \in 1..N |-> IF i = 1 THEN s[i] ELSE g[i - 1] \o s[i]]
  <2> HIDE DEF F, V
  <2>1. ASSUME NEW i \in 1..N
        PROVE  f[i] = IF i = 1 THEN s[i] ELSE g[i - 1] \o s[i]
    <3>1. i - 1 \in 0..N /\ f[i] = f[i - 1] \o s[i]
      <4>1. i - 1 \in 0..N
        BY <1>1
      <4>2. f[i - 1] \in V
        BY <4>1, <1>6
      <4>3. QED
        BY <4>1, <4>2, <1>4, <1>6
    <3>2. CASE i = 1
      <4>1. f[1] = <<>> \o s[1]
        <5>1. i - 1 = 0
          BY <3>2
        <5>2. f[i] = f[0] \o s[i]
          BY <3>1, <5>1
        <5>3. QED
          BY <5>2, <3>2, <1>6
      <4>2. s[1] \in Seq(S)
        BY <1>1 DEF V
      <4>3. QED
        BY <3>2, <4>1, <4>2, ConcatEmptySeq
    <3>3. CASE i # 1
      <4>1. i - 1 \in 1..N
        BY <3>3, <1>1
      <4>2. QED
        BY <3>1, <3>3, <4>1
    <3>4. QED
      BY <3>2, <3>3
  <2>2. QED
    BY <2>1
<1>8. flatten = [i \in 1..N |-> IF i = 1 THEN s[i] ELSE flatten[i - 1] \o s[i]]
  BY <1>7, Zenon
<1>9. FlattenSeq(s) = flatten[N]
  <2>1. Len(s) # 0
    BY <1>1
  <2>2. QED
    BY <2>1, Zenon DEF FlattenSeq
<1> HIDE DEF flatten
<1> DEFINE Typed == {n \in Nat : n + 1 <= N => flatten[n + 1] \in V}
<1>10. 0 \in Typed
  <2>1. flatten[1] = s[1]
    BY <1>1, <1>8
  <2>2. QED
    BY <2>1, <1>1
<1>11. ASSUME NEW n \in Nat, n \in Typed
       PROVE  n + 1 \in Typed
  <2>1. SUFFICES ASSUME n + 1 + 1 <= N
                 PROVE  flatten[n + 1 + 1] \in V
    OBVIOUS
  <2>2. n + 1 + 1 \in 1..N /\ n + 1 + 1 # 1 /\ n + 1 + 1 - 1 = n + 1 /\ n + 1 <= N
    BY <2>1, <1>1
  <2>3. flatten[n + 1 + 1] = flatten[n + 1] \o s[n + 1 + 1]
    <3> DEFINE k == n + 1 + 1
    <3>1. k \in 1..N /\ k # 1 /\ k - 1 = n + 1
      BY <2>2
    <3> HIDE DEF k
    <3>2. flatten[k] = IF k = 1 THEN s[k] ELSE flatten[k - 1] \o s[k]
      BY <3>1, <1>8
    <3>3. flatten[k] = flatten[n + 1] \o s[k]
      BY <3>1, <3>2
    <3>4. QED
      BY <3>3 DEF k
  <2>4. flatten[n + 1] \in V /\ s[n + 1 + 1] \in V
    BY <2>2, <1>11, <1>1
  <2>5. QED
    BY <2>3, <2>4, ConcatProperties
<1>12. ASSUME NEW n \in 1..N
       PROVE  flatten[n] \in V
  <2> HIDE DEF Typed
  <2>1. Nat \subseteq Typed
    BY <1>10, <1>11, Induction
  <2>2. n - 1 \in Typed /\ n - 1 + 1 = n /\ n <= N
    BY <2>1, <1>1
  <2>3. QED
    BY <2>2 DEF Typed
<1>13. ASSUME NEW n \in Nat, n + 1 \in 2..N
       PROVE  flatten[n + 1] = flatten[n] \o s[n + 1]
  <2> DEFINE k == n + 1
  <2>1. k \in 1..N /\ k # 1 /\ k - 1 = n
    BY <1>13, <1>1
  <2> HIDE DEF k
  <2>2. flatten[k] = IF k = 1 THEN s[k] ELSE flatten[k - 1] \o s[k]
    BY <2>1, <1>8
  <2>3. flatten[k] = flatten[n] \o s[k]
    BY <2>1, <2>2
  <2>4. QED
    BY <2>3 DEF k
<1>14. flatten[1] = s[1]
  BY <1>1, <1>8
<1>15. QED
  BY <1>9, <1>12, <1>13, <1>14

\* One more is joined at the end.
LEMMA FlattenSeqAppend ==
  ASSUME NEW S, NEW s \in Seq(Seq(S)), NEW e \in Seq(S)
  PROVE  /\ FlattenSeq(s) \in Seq(S)
         /\ FlattenSeq(Append(s, e)) = FlattenSeq(s) \o e
<1> DEFINE t == Append(s, e)
           N == Len(s)
<1>1. /\ N \in Nat /\ DOMAIN s = 1..N
      /\ t \in Seq(Seq(S)) /\ t # <<>> /\ Len(t) = N + 1
      /\ \A i \in 1..N : t[i] = s[i]
      /\ t[N + 1] = e
  BY AppendProperties, LenProperties, EmptySeq
<1> HIDE DEF t
<1>2. PICK g : /\ FlattenSeq(t) = g[Len(t)] /\ g[1] = t[1]
               /\ \A k \in 1..Len(t) : g[k] \in Seq(S)
               /\ \A n \in Nat : n + 1 \in 2..Len(t) => g[n + 1] = g[n] \o t[n + 1]
  BY <1>1, FlattenSeqUnrolls
<1>3. CASE s = <<>>
  <2>1. N = 0 /\ FlattenSeq(s) = <<>>
    BY <1>3 DEF FlattenSeq
  <2>2. FlattenSeq(t) = e
    BY <1>1, <1>2, <2>1
  <2>3. <<>> \in Seq(S) /\ <<>> \o e = e
    BY EmptySeq, ConcatEmptySeq
  <2>4. QED
    BY <2>1, <2>2, <2>3 DEF t
<1>4. CASE s # <<>>
  <2>1. PICK f : /\ FlattenSeq(s) = f[Len(s)] /\ f[1] = s[1]
                 /\ \A k \in 1..Len(s) : f[k] \in Seq(S)
                 /\ \A n \in Nat : n + 1 \in 2..Len(s) => f[n + 1] = f[n] \o s[n + 1]
    BY <1>4, FlattenSeqUnrolls
  <2>2. N \in Nat \ {0}
    BY <1>4, EmptySeq
  <2> DEFINE Same == {n \in Nat : n + 1 <= N => g[n + 1] = f[n + 1]}
  <2>3. 0 \in Same
    BY <1>1, <1>2, <2>1, <2>2
  <2>4. ASSUME NEW n \in Nat, n \in Same
        PROVE  n + 1 \in Same
    <3> DEFINE k == n + 1
    <3>1. SUFFICES ASSUME k + 1 <= N
                   PROVE  g[k + 1] = f[k + 1]
      OBVIOUS
    <3>2. k \in Nat /\ k + 1 \in 1..N /\ k + 1 \in 2..Len(s) /\ k + 1 \in 2..Len(t) /\ n + 1 <= N
      BY <3>1, <1>1
    <3>3. g[k] = f[k]
      BY <3>2, <2>4
    <3> HIDE DEF k
    <3>4. g[k + 1] = g[k] \o t[k + 1] /\ f[k + 1] = f[k] \o s[k + 1] /\ t[k + 1] = s[k + 1]
      BY <3>2, <1>1, <1>2, <2>1
    <3>5. QED
      BY <3>3, <3>4
  <2>5. g[N] = f[N]
    <3> HIDE DEF Same
    <3>1. Nat \subseteq Same
      BY <2>3, <2>4, Induction
    <3>2. N - 1 \in Same /\ N - 1 + 1 = N
      BY <3>1, <2>2
    <3>3. QED
      BY <3>2, <2>2 DEF Same
  <2>6. g[N + 1] = g[N] \o t[N + 1]
    <3>1. N \in Nat /\ N + 1 \in 2..Len(t)
      BY <1>1, <2>2
    <3> HIDE DEF N
    <3>2. QED
      BY <3>1, <1>2
  <2>7. f[N] \in Seq(S)
    BY <2>1, <2>2
  <2>8. QED
    BY <1>1, <1>2, <2>1, <2>5, <2>6, <2>7 DEF t
<1>5. QED
  BY <1>3, <1>4

\* A prefix has the same elements.
LEMMA PrefixElements ==
  ASSUME NEW S, NEW s \in Seq(S), NEW t \in Seq(S)
  PROVE  IsPrefix(s, t) <=> Len(s) <= Len(t) /\ \A k \in 1..Len(s) : s[k] = t[k]
<1> DEFINE n == Len(s)
<1>1. n \in Nat /\ Len(t) \in Nat /\ (\A k \in 1..n : s[k] \in S) /\ \A k \in 1..Len(t) : t[k] \in S
  BY LenProperties
<1>2. SubSeq(s, 1, n) = s
  BY SubSeqFull
<1>3. ASSUME n <= Len(t)
      PROVE  s = SubSeq(t, 1, n) <=> \A k \in 1..n : s[k] = t[k]
  <2> DEFINE u == SubSeq(t, 1, n)
  <2>1. /\ 1 \in Int /\ n \in Int /\ \A k \in 1..n : t[k] \in S
    BY <1>1, <1>3
  <2>2. /\ u \in Seq(S) /\ Len(u) = IF 1 <= n THEN n - 1 + 1 ELSE 0
        /\ \A k \in 1..(n - 1 + 1) : u[k] = t[1 + k - 1]
    BY <2>1, SubSeqProperties
  <2> HIDE DEF u
  <2>3. Len(u) = n /\ \A k \in 1..n : u[k] = t[k]
    BY <2>2, <1>1
  <2>4. (\A k \in 1..n : s[k] = u[k]) => s = u
    BY <2>2, <2>3, SeqEqual
  <2>5. QED
    BY <2>3, <2>4 DEF u
<1>4. QED
  BY <1>2, <1>3 DEF IsPrefix

\* What is joined begins with the first.
LEMMA PrefixOfJoined ==
  ASSUME NEW S, NEW s \in Seq(S), NEW t \in Seq(S)
  PROVE  IsPrefix(s, s \o t)
<1>1. /\ s \o t \in Seq(S) /\ Len(s \o t) = Len(s) + Len(t)
      /\ \A i \in 1..(Len(s) + Len(t)) : (s \o t)[i] = IF i <= Len(s) THEN s[i] ELSE t[i - Len(s)]
  BY ConcatProperties
<1>2. Len(s) \in Nat /\ Len(t) \in Nat
  BY LenProperties
<1>3. Len(s) <= Len(s \o t) /\ \A k \in 1..Len(s) : s[k] = (s \o t)[k]
  BY <1>1, <1>2
<1>4. QED
  BY <1>1, <1>3, PrefixElements

\* A prefix of a prefix is one.
LEMMA PrefixOfPrefix ==
  ASSUME NEW S, NEW s \in Seq(S), NEW t \in Seq(S), NEW u \in Seq(S), IsPrefix(s, t), IsPrefix(t, u)
  PROVE  IsPrefix(s, u)
<1>1. Len(s) \in Nat /\ Len(t) \in Nat /\ Len(u) \in Nat
  BY LenProperties
<1>2. /\ Len(s) <= Len(t) /\ \A k \in 1..Len(s) : s[k] = t[k]
      /\ Len(t) <= Len(u) /\ \A k \in 1..Len(t) : t[k] = u[k]
  BY PrefixElements
<1>3. Len(s) <= Len(u) /\ \A k \in 1..Len(s) : s[k] = u[k]
  BY <1>1, <1>2
<1>4. QED
  BY <1>3, PrefixElements

\* A part of what is joined is joined to less.
LEMMA PrefixJoinsPrefix ==
  ASSUME NEW S, NEW s \in Seq(S), NEW t \in Seq(S), NEW u \in Seq(S), IsPrefix(t, u)
  PROVE  IsPrefix(s \o t, s \o u)
<1>1. Len(s) \in Nat /\ Len(t) \in Nat /\ Len(u) \in Nat
  BY LenProperties
<1>2. Len(t) <= Len(u) /\ \A k \in 1..Len(t) : t[k] = u[k]
  BY PrefixElements
<1>3. /\ s \o t \in Seq(S) /\ Len(s \o t) = Len(s) + Len(t)
      /\ \A i \in 1..(Len(s) + Len(t)) : (s \o t)[i] = IF i <= Len(s) THEN s[i] ELSE t[i - Len(s)]
  BY ConcatProperties
<1>4. /\ s \o u \in Seq(S) /\ Len(s \o u) = Len(s) + Len(u)
      /\ \A i \in 1..(Len(s) + Len(u)) : (s \o u)[i] = IF i <= Len(s) THEN s[i] ELSE u[i - Len(s)]
  BY ConcatProperties
<1>5. ASSUME NEW k \in 1..(Len(s) + Len(t))
      PROVE  (s \o t)[k] = (s \o u)[k]
  <2>1. k \in 1..(Len(s) + Len(u)) /\ (k <= Len(s) \/ k - Len(s) \in 1..Len(t))
    BY <1>1, <1>2
  <2>2. QED
    BY <2>1, <1>2, <1>3, <1>4
<1>6. Len(s \o t) <= Len(s \o u) /\ \A k \in 1..Len(s \o t) : (s \o t)[k] = (s \o u)[k]
  BY <1>1, <1>2, <1>3, <1>4, <1>5
<1>7. QED
  BY <1>3, <1>4, <1>6, PrefixElements

=============================================================================
