--------------------------- MODULE CaptureRelayProofs ---------------------------
(***************************************************************************)
(* What the log files and the outcome of a capture say, for any secrets,   *)
(* outputs and reads.                                                      *)
(*                                                                         *)
(* Replaced says where secrets start in the whole output.  Beginning is    *)
(* what it makes of the first bytes, and Decided says that no secret goes  *)
(* on there.  Scanning a chunk from a decided place to a decided place     *)
(* adds what is between them (ScanAdds), because up to the undecided start *)
(* the chunk shows the same secrets as the whole (ChunkShows).             *)
(***************************************************************************)

EXTENDS CaptureRelay, SequenceFacts

-----------------------------------------------------------------------------
(* Secrets that are to be seen at a place.                                 *)

SecretSets == SUBSET (Seq(Bytes) \ {<<>>})

\* The secrets that are to be seen at a place of the input.
Seen(secrets, input, i) == {p \in secrets : IsPrefix(p, From(input, i))}

\* The bytes that the secret takes.
Width(secrets, input, i) == Len(Longest(Seen(secrets, input, i)))

\* The rest of the input, byte by byte.
LEMMA FromElements ==
  ASSUME NEW S, NEW input \in Seq(S), NEW i \in 1..(Len(input) + 1)
  PROVE  /\ From(input, i) \in Seq(S)
         /\ Len(From(input, i)) = Len(input) - i + 1
         /\ \A k \in 1..(Len(input) - i + 1) : From(input, i)[k] = input[i + k - 1]
<1> DEFINE n == Len(input)
           t == SubSeq(input, i, n)
<1>1. n \in Nat /\ i \in Int /\ n \in Int /\ \A k \in i..n : input[k] \in S
  BY LenProperties
<1>2. /\ t \in Seq(S) /\ Len(t) = IF i <= n THEN n - i + 1 ELSE 0
      /\ \A k \in 1..(n - i + 1) : t[k] = input[i + k - 1]
  BY <1>1, SubSeqProperties
<1>3. Len(t) = n - i + 1
  BY <1>1, <1>2
<1>4. From(input, i) = t
  BY DEF From
<1>5. QED
  BY <1>2, <1>3, <1>4

\* A secret is to be seen where its bytes are.
LEMMA SeenElements ==
  ASSUME NEW S, NEW p \in Seq(S), NEW input \in Seq(S), NEW i \in 1..(Len(input) + 1)
  PROVE  IsPrefix(p, From(input, i)) <=>
           /\ Len(p) <= Len(input) - i + 1
           /\ \A k \in 1..Len(p) : p[k] = input[i + k - 1]
<1>1. /\ From(input, i) \in Seq(S)
      /\ Len(From(input, i)) = Len(input) - i + 1
      /\ \A k \in 1..(Len(input) - i + 1) : From(input, i)[k] = input[i + k - 1]
  BY FromElements
<1>2. IsPrefix(p, From(input, i)) <=>
        Len(p) <= Len(From(input, i)) /\ \A k \in 1..Len(p) : p[k] = From(input, i)[k]
  <2> DEFINE t == From(input, i)
  <2>1. t \in Seq(S)
    BY <1>1
  <2> HIDE DEF t
  <2>2. IsPrefix(p, t) <=> Len(p) <= Len(t) /\ \A k \in 1..Len(p) : p[k] = t[k]
    BY <2>1, PrefixElements
  <2>3. QED
    BY <2>2 DEF t
<1>3. Len(p) \in Nat /\ Len(input) \in Nat
  BY LenProperties
<1>4. ASSUME Len(p) <= Len(input) - i + 1
      PROVE  (\A k \in 1..Len(p) : p[k] = From(input, i)[k])
               <=> \A k \in 1..Len(p) : p[k] = input[i + k - 1]
  <2>1. \A k \in 1..Len(p) : k \in 1..(Len(input) - i + 1)
    BY <1>3, <1>4
  <2>2. QED
    BY <2>1, <1>1
<1>5. Len(p) <= Len(From(input, i)) <=> Len(p) <= Len(input) - i + 1
  BY <1>1
<1>6. QED
  BY <1>2, <1>4, <1>5

\* Of secrets of bounded length there is a longest.
LEMMA LongestIsOne ==
  ASSUME NEW S, NEW H \in SUBSET Seq(S), H # {}, NEW n \in Nat, \A p \in H : Len(p) <= n
  PROVE  Longest(H) \in H /\ \A q \in H : Len(q) <= Len(Longest(H))
<1> DEFINE Short == {n - Len(p) : p \in H}
<1>1. \A p \in H : Len(p) \in Nat /\ n - Len(p) \in Nat
  BY LenProperties
<1>2. Short \in SUBSET Nat /\ Short # {}
  BY <1>1
<1>3. PICK x \in Short : \A y \in Short : x <= y
  <2> HIDE DEF Short
  <2>1. QED
    BY <1>2, LeastNumber
<1>4. PICK p \in H : x = n - Len(p)
  BY <1>3
<1>5. ASSUME NEW q \in H
      PROVE  Len(q) <= Len(p)
  <2>1. x <= n - Len(q)
    BY <1>3
  <2>2. QED
    BY <2>1, <1>1, <1>4
<1>6. \E r \in H : \A q \in H : Len(q) <= Len(r)
  BY <1>4, <1>5
<1>7. QED
  BY <1>6, Zenon DEF Longest

\* The secret that is seen is one of them and within the input.
LEMMA WidthFits ==
  ASSUME NEW secrets \in SecretSets, NEW input \in Seq(Bytes), NEW i \in 1..(Len(input) + 1),
         Seen(secrets, input, i) # {}
  PROVE  /\ Width(secrets, input, i) \in Nat \ {0}
         /\ i + Width(secrets, input, i) <= Len(input) + 1
<1> DEFINE H == Seen(secrets, input, i)
           n == Len(input) - i + 1
<1>1. Len(input) \in Nat /\ n \in Nat
  BY LenProperties
<1>2. H \in SUBSET Seq(Bytes) /\ H # {} /\ <<>> \notin H
  BY DEF Seen, SecretSets
<1>3. ASSUME NEW p \in H
      PROVE  Len(p) <= n /\ Len(p) \in Nat \ {0}
  <2>1. IsPrefix(p, From(input, i)) /\ p \in Seq(Bytes) /\ p # <<>>
    BY <1>2 DEF Seen
  <2>2. QED
    BY <2>1, SeenElements, EmptySeq
<1>4. Longest(H) \in H
  <2> HIDE DEF H, n
  <2>1. QED
    BY <1>1, <1>2, <1>3, LongestIsOne
<1>5. Width(secrets, input, i) = Len(Longest(H))
  BY DEF Width
<1>6. QED
  BY <1>1, <1>3, <1>4, <1>5

-----------------------------------------------------------------------------
(* Where secrets start, and what the beginning of the output becomes.      *)

\* A secret that starts before a place goes on there.
Within(secrets, input, i, S) == \E j \in S : j < i /\ i < j + Width(secrets, input, j)

\* At these places, a secret starts where one is to be seen and none goes on.
AreStarts(secrets, input, places, S) ==
  \A i \in places : i \in S <=> Seen(secrets, input, i) # {} /\ ~Within(secrets, input, i, S)

StartsOf(secrets, input) == CHOOSE S \in SUBSET DOMAIN input : AreStarts(secrets, input, DOMAIN input, S)

\* There are such places: whether one is depends on those before it.
LEMMA StartsExist ==
  ASSUME NEW secrets, NEW input \in Seq(Bytes)
  PROVE  /\ StartsOf(secrets, input) \in SUBSET DOMAIN input
         /\ AreStarts(secrets, input, DOMAIN input, StartsOf(secrets, input))
<1> DEFINE Good == {k \in Nat : \E S \in SUBSET (1..k) : AreStarts(secrets, input, 1..k, S)}
<1>1. 0 \in Good
  <2>1. {} \in SUBSET (1..0) /\ AreStarts(secrets, input, 1..0, {})
    BY DEF AreStarts
  <2>2. QED
    BY <2>1
<1>2. ASSUME NEW k \in Nat, k \in Good
      PROVE  k + 1 \in Good
  <2>1. PICK S \in SUBSET (1..k) : AreStarts(secrets, input, 1..k, S)
    BY <1>2
  <2> DEFINE last == {i \in {k + 1} : Seen(secrets, input, i) # {} /\ ~Within(secrets, input, i, S)}
             T == S \cup last
  <2>2. /\ T \in SUBSET (1..(k + 1)) /\ (\A j \in T : j \in S \/ j = k + 1)
        /\ S \subseteq T /\ k + 1 \notin S
        /\ k + 1 \in T <=> Seen(secrets, input, k + 1) # {} /\ ~Within(secrets, input, k + 1, S)
    <3>1. /\ last \subseteq {k + 1}
          /\ k + 1 \in last <=> Seen(secrets, input, k + 1) # {} /\ ~Within(secrets, input, k + 1, S)
      OBVIOUS
    <3> HIDE DEF last
    <3>2. S \subseteq 1..k /\ k + 1 \notin 1..k /\ 1..k \subseteq 1..(k + 1) /\ k + 1 \in 1..(k + 1)
      OBVIOUS
    <3>3. QED
      BY <3>1, <3>2
  <2> HIDE DEF last
  <2>3. ASSUME NEW i \in 1..(k + 1)
        PROVE  Within(secrets, input, i, T) <=> Within(secrets, input, i, S)
    <3>1. ~ k + 1 < i
      OBVIOUS
    <3> HIDE DEF T
    <3>2. QED
      BY <3>1, <2>2 DEF Within
  <2>4. ASSUME NEW i \in 1..(k + 1)
        PROVE  i \in T <=> Seen(secrets, input, i) # {} /\ ~Within(secrets, input, i, T)
    <3>1. CASE i = k + 1
      <4>1. i \in T <=> Seen(secrets, input, i) # {} /\ ~Within(secrets, input, i, S)
        BY <3>1, <2>2
      <4>2. QED
        BY <4>1, <2>3
    <3>2. CASE i # k + 1
      <4>1. i \in 1..k /\ (i \in T <=> i \in S)
        BY <3>2, <2>2
      <4>2. QED
        BY <4>1, <2>1, <2>3 DEF AreStarts
    <3>3. QED
      BY <3>1, <3>2
  <2> HIDE DEF T
  <2>5. AreStarts(secrets, input, 1..(k + 1), T)
    BY <2>4 DEF AreStarts
  <2>6. \E R \in SUBSET (1..(k + 1)) : AreStarts(secrets, input, 1..(k + 1), R)
    BY <2>2, <2>5
  <2>7. QED
    BY <2>6
<1>3. Len(input) \in Nat /\ DOMAIN input = 1..Len(input)
  BY LenProperties
<1>4. \E S \in SUBSET DOMAIN input : AreStarts(secrets, input, DOMAIN input, S)
  <2>1. Len(input) \in Good
    <3> HIDE DEF Good
    <3>1. Nat \subseteq Good
      BY <1>1, <1>2, Induction
    <3>2. QED
      BY <3>1, <1>3
  <2>2. QED
    BY <2>1, <1>3
<1>5. QED
  BY <1>4, Zenon DEF StartsOf

\* What a byte of the output becomes: a token where a secret starts.
Piece(secrets, input, i) ==
  IF i \in StartsOf(secrets, input) THEN <<Token>>
  ELSE IF Within(secrets, input, i, StartsOf(secrets, input)) THEN <<>> ELSE <<input[i]>>

\* What the first k bytes become.
Pieces(secrets, input, k)    == [i \in 1..k |-> Piece(secrets, input, i)]
Beginning(secrets, input, k) == FlattenSeq(Pieces(secrets, input, k))

LEMMA PieceType ==
  ASSUME NEW secrets, NEW input \in Seq(Bytes), NEW i \in 1..Len(input)
  PROVE  Piece(secrets, input, i) \in Seq(Nat)
<1>1. input[i] \in Nat /\ Token \in Nat
  BY ElementOfSeq DEF Bytes, Token
<1>2. <<>> \in Seq(Nat) /\ <<Token>> \in Seq(Nat) /\ <<input[i]>> \in Seq(Nat)
  BY <1>1
<1>3. QED
  BY <1>2 DEF Piece

LEMMA PiecesType ==
  ASSUME NEW secrets, NEW input \in Seq(Bytes), NEW k \in 0..Len(input)
  PROVE  /\ Pieces(secrets, input, k) \in Seq(Seq(Nat)) /\ Len(Pieces(secrets, input, k)) = k
         /\ Beginning(secrets, input, k) \in Seq(Nat)
<1>1. Len(input) \in Nat /\ k \in Nat
  BY LenProperties
<1>2. \A i \in 1..k : Piece(secrets, input, i) \in Seq(Nat)
  <2>1. \A i \in 1..k : i \in 1..Len(input)
    BY <1>1
  <2>2. QED
    BY <2>1, PieceType
<1>3. Pieces(secrets, input, k) \in Seq(Seq(Nat)) /\ Len(Pieces(secrets, input, k)) = k
  BY <1>1, <1>2 DEF Pieces
<1>4. <<>> \in Seq(Nat)
  BY EmptySeq
<1>5. Beginning(secrets, input, k) \in Seq(Nat)
  BY <1>3, <1>4, FlattenSeqAppend DEF Beginning
<1>6. QED
  BY <1>3, <1>5

\* The next byte adds what becomes of it.
LEMMA BeginningGrows ==
  ASSUME NEW secrets, NEW input \in Seq(Bytes), NEW k \in Nat, k + 1 <= Len(input)
  PROVE  Beginning(secrets, input, k + 1) = Beginning(secrets, input, k) \o Piece(secrets, input, k + 1)
<1> DEFINE s == Pieces(secrets, input, k)
           t == Pieces(secrets, input, k + 1)
           e == Piece(secrets, input, k + 1)
<1>1. Len(input) \in Nat /\ k \in 0..Len(input) /\ k + 1 \in 0..Len(input) /\ k + 1 \in 1..Len(input)
  BY LenProperties
<1>2. /\ s \in Seq(Seq(Nat)) /\ Len(s) = k /\ t \in Seq(Seq(Nat)) /\ Len(t) = k + 1 /\ e \in Seq(Nat)
  BY <1>1, PiecesType, PieceType
<1>3. \A i \in 1..(k + 1) : t[i] = IF i = k + 1 THEN e ELSE s[i]
  BY DEF Pieces
<1> HIDE DEF s, t, e
<1>4. /\ Append(s, e) \in Seq(Seq(Nat)) /\ Len(Append(s, e)) = k + 1
      /\ \A i \in 1..(k + 1) : Append(s, e)[i] = IF i = k + 1 THEN e ELSE s[i]
  BY <1>2, AppendProperties
<1>5. Append(s, e) = t
  BY <1>2, <1>3, <1>4, SeqEqual
<1>6. FlattenSeq(t) = FlattenSeq(s) \o e
  BY <1>2, <1>5, FlattenSeqAppend
<1>7. QED
  BY <1>6 DEF s, t, e, Beginning

\* The whole output becomes what the property says.
LEMMA ReplacedIsBeginning ==
  ASSUME NEW secrets, NEW input \in Seq(Bytes)
  PROVE  Replaced(secrets, input) = Beginning(secrets, input, Len(input))
<1>1. DOMAIN input = 1..Len(input)
  BY LenProperties
<1>2. StartsOf(secrets, input) =
        CHOOSE S \in SUBSET DOMAIN input :
          \A i \in DOMAIN input :
            i \in S <=> {p \in secrets : IsPrefix(p, From(input, i))} # {}
                        /\ ~\E j \in S : j < i /\ i < j + Len(Longest({p \in secrets : IsPrefix(p, From(input, j))}))
  BY DEF StartsOf, AreStarts, Within, Width, Seen
<1>3. QED
  BY <1>1, <1>2 DEF Replaced, Beginning, Pieces, Piece, Within, Width, Seen

\* No secret that starts in the first k bytes goes on after them.
Decided(secrets, input, k) ==
  k \in 0..Len(input) /\ ~Within(secrets, input, k + 1, StartsOf(secrets, input))

\* Nothing is undecided at the beginning.
LEMMA BeginningDecided ==
  ASSUME NEW secrets, NEW input \in Seq(Bytes)
  PROVE  Decided(secrets, input, 0) /\ Beginning(secrets, input, 0) = <<>>
<1> DEFINE S == StartsOf(secrets, input)
<1>1. Len(input) \in Nat /\ S \subseteq 1..Len(input)
  BY LenProperties, StartsExist
<1>2. ~Within(secrets, input, 0 + 1, S)
  <2> HIDE DEF S
  <2>1. QED
    BY <1>1 DEF Within
<1>3. Pieces(secrets, input, 0) = <<>>
  <2>1. Pieces(secrets, input, 0) \in Seq(Seq(Nat)) /\ Len(Pieces(secrets, input, 0)) = 0
    BY <1>1, PiecesType
  <2>2. QED
    BY <2>1, EmptySeq
<1>4. Beginning(secrets, input, 0) = <<>>
  BY <1>3 DEF Beginning, FlattenSeq
<1>5. QED
  BY <1>1, <1>2, <1>4 DEF Decided

\* A secret that starts is within the output.
LEMMA StartFits ==
  ASSUME NEW secrets \in SecretSets, NEW input \in Seq(Bytes), NEW j \in StartsOf(secrets, input)
  PROVE  /\ j \in 1..Len(input) /\ Width(secrets, input, j) \in Nat \ {0}
         /\ ~Within(secrets, input, j, StartsOf(secrets, input))
<1>1. Len(input) \in Nat /\ DOMAIN input = 1..Len(input) /\ StartsOf(secrets, input) \subseteq DOMAIN input
  BY LenProperties, StartsExist
<1>2. Seen(secrets, input, j) # {} /\ ~Within(secrets, input, j, StartsOf(secrets, input))
  BY <1>1, StartsExist DEF AreStarts
<1>3. j \in 1..(Len(input) + 1)
  BY <1>1
<1>4. QED
  BY <1>1, <1>2, <1>3, WidthFits

\* A byte where no secret is to be seen stays as it is.
LEMMA ByteDecides ==
  ASSUME NEW secrets \in SecretSets, NEW input \in Seq(Bytes), NEW k \in Nat, k + 1 <= Len(input),
         Decided(secrets, input, k), Seen(secrets, input, k + 1) = {}
  PROVE  /\ Decided(secrets, input, k + 1)
         /\ Beginning(secrets, input, k + 1) = Beginning(secrets, input, k) \o <<input[k + 1]>>
<1> DEFINE S == StartsOf(secrets, input)
<1>1. Len(input) \in Nat /\ DOMAIN input = 1..Len(input) /\ k + 1 \in DOMAIN input
  BY LenProperties
<1>2. S \subseteq 1..Len(input) /\ k + 1 \notin S /\ ~Within(secrets, input, k + 1, S)
  BY <1>1, StartsExist DEF AreStarts, Decided
<1>3. Beginning(secrets, input, k + 1) = Beginning(secrets, input, k) \o <<input[k + 1]>>
  BY <1>2, BeginningGrows DEF Piece
<1>4. ASSUME NEW j \in S, j < k + 1 + 1, k + 1 + 1 < j + Width(secrets, input, j)
      PROVE  FALSE
  <2>1. j \in Nat /\ j \in 1..Len(input) /\ j # k + 1
    BY <1>1, <1>2
  <2>2. Width(secrets, input, j) \in Nat
    BY StartFits
  <2>3. j < k + 1 /\ k + 1 < j + Width(secrets, input, j)
    BY <1>4, <2>1, <2>2
  <2>4. QED
    BY <1>2, <2>3 DEF Within
<1>5. ~Within(secrets, input, k + 1 + 1, S)
  <2> HIDE DEF S
  <2>1. QED
    BY <1>4 DEF Within
<1>6. QED
  BY <1>1, <1>3, <1>5 DEF Decided

\* Where a secret is to be seen, its bytes become a token.
LEMMA SecretDecides ==
  ASSUME NEW secrets \in SecretSets, NEW input \in Seq(Bytes), NEW k \in Nat, k + 1 <= Len(input),
         Decided(secrets, input, k), Seen(secrets, input, k + 1) # {}
  PROVE  LET w == Width(secrets, input, k + 1)
         IN  /\ w \in Nat \ {0} /\ Decided(secrets, input, k + w)
             /\ Beginning(secrets, input, k + w) = Beginning(secrets, input, k) \o <<Token>>
<1> DEFINE S == StartsOf(secrets, input)
           w == Width(secrets, input, k + 1)
<1>1. /\ Len(input) \in Nat /\ DOMAIN input = 1..Len(input)
      /\ k + 1 \in DOMAIN input /\ k + 1 \in 1..(Len(input) + 1)
  BY LenProperties
<1>2. S \subseteq 1..Len(input) /\ k + 1 \in S /\ ~Within(secrets, input, k + 1, S)
  BY <1>1, StartsExist DEF AreStarts, Decided
<1>3. w \in Nat \ {0} /\ k + w <= Len(input)
  <2>1. w \in Nat \ {0} /\ k + 1 + w <= Len(input) + 1
    BY <1>1, WidthFits
  <2> HIDE DEF w
  <2>2. QED
    BY <2>1, <1>1
<1>4. ASSUME NEW i \in Nat, k + 1 < i, i < k + 1 + w
      PROVE  Within(secrets, input, i, S) /\ i \notin S /\ i \in 1..Len(input)
  <2>1. Within(secrets, input, i, S)
    BY <1>2, <1>4 DEF Within
  <2>2. QED
    <3> HIDE DEF S, w
    <3>1. i \in 1..Len(input)
      BY <1>1, <1>3, <1>4
    <3>2. i \notin S
      BY <2>1, StartFits DEF S
    <3>3. QED
      BY <2>1, <3>1, <3>2
<1> DEFINE Good == {m \in Nat : m + 1 <= w =>
                      Beginning(secrets, input, k + (m + 1)) = Beginning(secrets, input, k) \o <<Token>>}
<1>5. 0 \in Good
  <2>1. Beginning(secrets, input, k + 1) = Beginning(secrets, input, k) \o <<Token>>
    BY <1>2, BeginningGrows DEF Piece
  <2>2. QED
    BY <2>1
<1>6. ASSUME NEW m \in Nat, m \in Good
      PROVE  m + 1 \in Good
  <2> DEFINE i == k + (m + 1)
  <2>1. SUFFICES ASSUME m + 1 + 1 <= w
                 PROVE  Beginning(secrets, input, k + (m + 1 + 1)) = Beginning(secrets, input, k) \o <<Token>>
    OBVIOUS
  <2> HIDE DEF S, w
  <2>2. /\ i \in Nat /\ k + 1 < i + 1 /\ i + 1 < k + 1 + w /\ i + 1 <= Len(input) /\ i + 1 \in Nat
        /\ k + (m + 1 + 1) = i + 1 /\ m + 1 <= w /\ i \in 0..Len(input)
    BY <2>1, <1>1, <1>3
  <2>3. Beginning(secrets, input, i) = Beginning(secrets, input, k) \o <<Token>>
    BY <1>6, <2>2
  <2> HIDE DEF i
  <2>4. Piece(secrets, input, i + 1) = <<>>
    BY <2>2, <1>4 DEF Piece, S
  <2>5. Beginning(secrets, input, i + 1) = Beginning(secrets, input, i) \o <<>>
    BY <2>2, <2>4, BeginningGrows
  <2>6. Beginning(secrets, input, i) \in Seq(Nat)
    BY <2>2, PiecesType
  <2>7. Beginning(secrets, input, i) \o <<>> = Beginning(secrets, input, i)
    BY <2>6, ConcatEmptySeq
  <2>8. QED
    BY <2>2, <2>3, <2>5, <2>7
<1>7. Beginning(secrets, input, k + w) = Beginning(secrets, input, k) \o <<Token>>
  <2> HIDE DEF w
  <2>1. Nat \subseteq Good
    <3> HIDE DEF Good
    <3>1. QED
      BY <1>5, <1>6, Induction
  <2>2. w - 1 \in Good /\ w - 1 + 1 = w
    <3> HIDE DEF Good
    <3>1. QED
      BY <2>1, <1>3
  <2>3. QED
    BY <2>2, <1>3
<1>8. ASSUME NEW j \in S, j < k + w + 1, k + w + 1 < j + Width(secrets, input, j)
      PROVE  FALSE
  <2>1. j \in Nat /\ Width(secrets, input, j) \in Nat
    BY StartFits
  <2> HIDE DEF S
  <2>2. CASE j < k + 1
    <3>1. k + 1 < j + Width(secrets, input, j)
      <4> HIDE DEF w
      <4>1. QED
        BY <2>1, <1>3, <1>8
    <3>2. QED
      BY <2>2, <3>1, <1>2 DEF Within
  <2>3. CASE j = k + 1
    <3>1. j + Width(secrets, input, j) = k + 1 + w
      BY <2>3
    <3> HIDE DEF w
    <3>2. QED
      BY <3>1, <1>3, <1>8
  <2>4. CASE k + 1 < j
    <3>1. j < k + 1 + w
      <4> HIDE DEF w
      <4>1. QED
        BY <2>1, <1>3, <1>8
    <3>2. QED
      BY <2>1, <2>4, <3>1, <1>4
  <2>5. QED
    BY <2>1, <2>2, <2>3, <2>4
<1>9. ~Within(secrets, input, k + w + 1, S)
  <2> HIDE DEF S, w
  <2>1. QED
    BY <1>8 DEF Within
<1>10. k + w \in 0..Len(input)
  <2> HIDE DEF w
  <2>1. QED
    BY <1>1, <1>3
<1>11. QED
  BY <1>3, <1>7, <1>9, <1>10 DEF Decided

-----------------------------------------------------------------------------
(* Scanning a chunk.                                                       *)

\* A chunk shows the secrets that the whole output shows, at a place from which
\* no longer chunk could show one.
LEMMA ChunkShows ==
  ASSUME NEW secrets \in SecretSets, NEW input \in Seq(Bytes),
         NEW u \in Nat, NEW v \in Nat, v <= Len(input), NEW c \in Nat, u + c + 1 <= v,
         \/ v = Len(input)
         \/ \A p \in secrets : ~IsStrictPrefix(From(SubSeq(input, u + 1, v), c + 1), p)
  PROVE  Seen(secrets, SubSeq(input, u + 1, v), c + 1) = Seen(secrets, input, u + c + 1)
<1> DEFINE chunk == SubSeq(input, u + 1, v)
           n == v - u - c
<1>1. Len(input) \in Nat /\ n \in Nat \ {0} /\ \A k \in (u + 1)..v : input[k] \in Bytes
  BY LenProperties
<1>2. /\ chunk \in Seq(Bytes) /\ Len(chunk) = v - u
      /\ \A k \in 1..(v - u) : chunk[k] = input[u + k]
  <2>1. /\ chunk \in Seq(Bytes) /\ Len(chunk) = IF u + 1 <= v THEN v - (u + 1) + 1 ELSE 0
        /\ \A k \in 1..(v - (u + 1) + 1) : chunk[k] = input[u + 1 + k - 1]
    BY <1>1, SubSeqProperties
  <2>2. QED
    BY <2>1
<1>3. c + 1 \in 1..(Len(chunk) + 1) /\ u + c + 1 \in 1..(Len(input) + 1)
  BY <1>1, <1>2
<1> HIDE DEF chunk
<1>4. ASSUME NEW p \in Seq(Bytes)
      PROVE  /\ IsPrefix(p, From(chunk, c + 1)) <=>
                  Len(p) <= n /\ \A k \in 1..Len(p) : p[k] = input[u + c + k]
             /\ IsPrefix(p, From(input, u + c + 1)) <=>
                  Len(p) <= Len(input) - u - c /\ \A k \in 1..Len(p) : p[k] = input[u + c + k]
             /\ Len(p) \in Nat
  <2>1. Len(p) \in Nat
    BY LenProperties
  <2>2. IsPrefix(p, From(chunk, c + 1)) <=>
          Len(p) <= Len(chunk) - (c + 1) + 1 /\ \A k \in 1..Len(p) : p[k] = chunk[c + 1 + k - 1]
    <3> DEFINE d == c + 1
    <3>1. d \in 1..(Len(chunk) + 1)
      BY <1>3
    <3> HIDE DEF d
    <3>2. IsPrefix(p, From(chunk, d)) <=>
            Len(p) <= Len(chunk) - d + 1 /\ \A k \in 1..Len(p) : p[k] = chunk[d + k - 1]
      BY <1>2, <3>1, SeenElements
    <3>3. QED
      BY <3>2 DEF d
  <2>3. IsPrefix(p, From(input, u + c + 1)) <=>
          /\ Len(p) <= Len(input) - (u + c + 1) + 1
          /\ \A k \in 1..Len(p) : p[k] = input[u + c + 1 + k - 1]
    <3> DEFINE d == u + c + 1
    <3>1. d \in 1..(Len(input) + 1)
      BY <1>3
    <3> HIDE DEF d
    <3>2. IsPrefix(p, From(input, d)) <=>
            Len(p) <= Len(input) - d + 1 /\ \A k \in 1..Len(p) : p[k] = input[d + k - 1]
      BY <3>1, SeenElements, ZenonT(40)
    <3>3. QED
      BY <3>2 DEF d
  <2>4. \A k \in 1..Len(p) : u + c + 1 + k - 1 = u + c + k
    BY <2>1
  <2>5. Len(p) <= n => \A k \in 1..Len(p) : chunk[c + 1 + k - 1] = input[u + c + k]
    <3>1. ASSUME Len(p) <= n, NEW k \in 1..Len(p)
          PROVE  chunk[c + 1 + k - 1] = input[u + c + k]
      <4>1. c + 1 + k - 1 = c + k /\ c + k \in 1..(v - u) /\ u + (c + k) = u + c + k
        BY <2>1, <3>1
      <4>2. QED
        BY <4>1, <1>2
    <3>2. QED
      BY <3>1
  <2>6. Len(chunk) - (c + 1) + 1 = n /\ Len(input) - (u + c + 1) + 1 = Len(input) - u - c
    BY <1>1, <1>2
  <2> HIDE DEF n
  <2>7. IsPrefix(p, From(chunk, c + 1)) <=>
          Len(p) <= n /\ \A k \in 1..Len(p) : p[k] = input[u + c + k]
    <3>1. CASE Len(p) <= n
      BY <3>1, <2>2, <2>5, <2>6, ZenonT(40)
    <3>2. CASE ~ Len(p) <= n
      BY <3>2, <2>2, <2>6, ZenonT(40)
    <3>3. QED
      BY <3>1, <3>2, SMTT(40)
  <2>8. IsPrefix(p, From(input, u + c + 1)) <=>
          Len(p) <= Len(input) - u - c /\ \A k \in 1..Len(p) : p[k] = input[u + c + k]
    BY <2>3, <2>4, <2>6
  <2>9. QED
    BY <2>1, <2>7, <2>8
<1>5. ASSUME NEW p \in secrets, IsPrefix(p, From(input, u + c + 1))
      PROVE  Len(p) <= n
  <2>1. p \in Seq(Bytes)
    BY DEF SecretSets
  <2>2. /\ Len(p) <= Len(input) - u - c /\ Len(p) \in Nat
        /\ \A k \in 1..Len(p) : p[k] = input[u + c + k]
    BY <1>4, <1>5, <2>1
  <2>3. CASE v = Len(input)
    BY <2>2, <2>3
  <2>4. CASE ~IsStrictPrefix(From(chunk, c + 1), p)
    <3> DEFINE t == From(chunk, c + 1)
    <3>1. /\ t \in Seq(Bytes) /\ Len(t) = n
          /\ \A k \in 1..n : t[k] = chunk[c + 1 + k - 1]
      <4> DEFINE d == c + 1
      <4>1. Len(chunk) - d + 1 = n /\ d \in 1..(Len(chunk) + 1)
        BY <1>1, <1>2, <1>3
      <4> HIDE DEF d, n
      <4>2. /\ From(chunk, d) \in Seq(Bytes) /\ Len(From(chunk, d)) = n
            /\ \A k \in 1..n : From(chunk, d)[k] = chunk[d + k - 1]
        BY <1>2, <4>1, FromElements
      <4>3. QED
        BY <4>2 DEF d
    <3> HIDE DEF t
    <3>2. SUFFICES ASSUME n < Len(p)
                   PROVE  FALSE
      BY <1>1, <2>2
    <3>3. ASSUME NEW k \in 1..n
          PROVE  t[k] = p[k]
      <4>1. /\ c + 1 + k - 1 = c + k /\ c + k \in 1..(v - u) /\ u + (c + k) = u + c + k /\ k \in 1..Len(p)
        BY <1>1, <2>2, <3>2, SMTT(40)
      <4>2. QED
        BY <4>1, <1>2, <2>2, <3>1
    <3>4. IsPrefix(t, p) /\ t # p
      <4>1. Len(t) <= Len(p) /\ Len(t) # Len(p) /\ \A k \in 1..Len(t) : t[k] = p[k]
        BY <1>1, <2>2, <3>1, <3>2, <3>3, SMTT(40)
      <4>2. QED
        BY <2>1, <3>1, <4>1, PrefixElements
    <3>5. QED
      BY <3>4, <2>4 DEF IsStrictPrefix, t
  <2>5. QED
    BY <2>3, <2>4 DEF chunk
<1>6. ASSUME NEW p \in secrets
      PROVE  IsPrefix(p, From(chunk, c + 1)) <=> IsPrefix(p, From(input, u + c + 1))
  <2>1. p \in Seq(Bytes)
    BY DEF SecretSets
  <2>2. n <= Len(input) - u - c
    BY <1>1
  <2> HIDE DEF n
  <2>3. n \in Nat /\ Len(input) - u - c \in Int
    BY <1>1
  <2>4. QED
    BY <2>1, <2>2, <2>3, <1>4, <1>5
<1>7. QED
  BY <1>6 DEF Seen, chunk

\* Up to the undecided start, no secret may go beyond the end of what is there.
LEMMA UndecidedStartIs ==
  ASSUME NEW input \in Seq(Bytes)
  PROVE  /\ UndecidedStart(input) \in 0..Len(input)
         /\ \A i \in 1..UndecidedStart(input) : \A p \in patterns : ~IsStrictPrefix(From(input, i), p)
<1> DEFINE undecided == {i \in DOMAIN input : \E p \in patterns : IsStrictPrefix(From(input, i), p)}
<1>1. Len(input) \in Nat /\ DOMAIN input = 1..Len(input)
  BY LenProperties
<1>2. UndecidedStart(input) = IF undecided = {} THEN Len(input) ELSE Min(undecided) - 1
  BY DEF UndecidedStart
<1>3. undecided \in SUBSET (1..Len(input)) /\ undecided \in SUBSET Nat
  BY <1>1
<1>4. \A i \in 1..Len(input) : i \notin undecided => \A p \in patterns : ~IsStrictPrefix(From(input, i), p)
  BY <1>1
<1> HIDE DEF undecided
<1>5. CASE undecided = {}
  BY <1>1, <1>2, <1>4, <1>5
<1>6. CASE undecided # {}
  <2>1. Min(undecided) \in undecided /\ \A y \in undecided : Min(undecided) <= y
    BY <1>3, <1>6, MinIsLeast
  <2> DEFINE m == Min(undecided)
  <2>2. m \in 1..Len(input) /\ \A i \in 1..(m - 1) : i \notin undecided /\ i \in 1..Len(input)
    <3>1. m \in 1..Len(input) /\ \A y \in undecided : m <= y
      BY <1>3, <2>1
    <3> HIDE DEF m
    <3>2. QED
      BY <1>1, <3>1
  <2>3. QED
    BY <1>1, <1>2, <1>4, <1>6, <2>2
<1>7. QED
  BY <1>5, <1>6

\* One step of the scan at a place, given what the scan makes of later places.
ScanStep(input, limit, c, scan) ==
  LET here == Seen(patterns, input, c + 1)
      rest == scan[c + (IF here = {} THEN 1 ELSE Width(patterns, input, c + 1))]
  IN IF c >= limit THEN [out |-> <<>>, used |-> c]
     ELSE [out  |-> <<IF here = {} THEN input[c + 1] ELSE Token>> \o rest.out,
           used |-> rest.used]

\* A step takes a byte or a secret, within the input.
LEMMA StepFits ==
  ASSUME patterns \in SecretSets, NEW input \in Seq(Bytes), NEW c \in Nat, c < Len(input)
  PROVE  c + (IF Seen(patterns, input, c + 1) = {} THEN 1 ELSE Width(patterns, input, c + 1))
           \in (c + 1)..Len(input)
<1>1. Len(input) \in Nat /\ c + 1 \in 1..(Len(input) + 1)
  BY LenProperties
<1>2. CASE Seen(patterns, input, c + 1) = {}
  BY <1>1, <1>2
<1>3. CASE Seen(patterns, input, c + 1) # {}
  <2> DEFINE w == Width(patterns, input, c + 1)
  <2>1. w \in Nat \ {0} /\ c + 1 + w <= Len(input) + 1
    BY <1>1, <1>3, WidthFits
  <2> HIDE DEF w
  <2>2. c + w \in (c + 1)..Len(input)
    BY <1>1, <2>1
  <2>3. QED
    BY <1>3, <2>2 DEF w
<1>4. QED
  BY <1>2, <1>3

\* It looks at later places only.
LEMMA StepDepends ==
  ASSUME patterns \in SecretSets, NEW input \in Seq(Bytes), NEW limit \in 0..Len(input),
         NEW c \in 0..Len(input), NEW f, NEW g, \A e \in (c + 1)..Len(input) : f[e] = g[e]
  PROVE  ScanStep(input, limit, c, f) = ScanStep(input, limit, c, g)
<1>1. Len(input) \in Nat
  BY LenProperties
<1>2. CASE c >= limit
  BY <1>2 DEF ScanStep
<1>3. CASE ~ c >= limit
  <2> DEFINE e == c + (IF Seen(patterns, input, c + 1) = {} THEN 1 ELSE Width(patterns, input, c + 1))
  <2>1. e \in (c + 1)..Len(input)
    BY <1>1, <1>3, StepFits
  <2>2. f[e] = g[e]
    BY <2>1
  <2>3. QED
    BY <2>2 DEF ScanStep
<1>4. QED
  BY <1>2, <1>3

\* The scan goes on as its steps say.
LEMMA ScanUnrolls ==
  ASSUME patterns \in SecretSets, NEW input \in Seq(Bytes), NEW limit \in 0..Len(input)
  PROVE  \E scan : /\ Scan(input, limit) = scan[0]
                   /\ \A c \in 0..Len(input) : scan[c] = ScanStep(input, limit, c, scan)
<1> DEFINE N == Len(input)
           Scans(f, c) == f = [e \in c..N |-> ScanStep(input, limit, e, f)]
           Good == {c \in 0..N : \E f : Scans(f, c)}
           scan == CHOOSE f : f = [c \in 0..N |-> ScanStep(input, limit, c, f)]
<1>1. N \in Nat
  BY LenProperties
<1>2. ASSUME NEW c \in 0..N, \A e \in (c + 1)..N : e \in Good
      PROVE  c \in Good
  <2>1. \E g : \A e \in (c + 1)..N : g[e] = ScanStep(input, limit, e, g)
    <3>1. CASE c = N
      BY <3>1, <1>1
    <3>2. CASE c # N
      <4>1. c + 1 \in (c + 1)..N
        BY <3>2, <1>1
      <4>2. PICK f : Scans(f, c + 1)
        BY <4>1, <1>2
      <4>3. QED
        BY <4>2
    <3>3. QED
      BY <3>1, <3>2
  <2>2. PICK g : \A e \in (c + 1)..N : g[e] = ScanStep(input, limit, e, g)
    BY <2>1
  <2> DEFINE h == [e \in c..N |-> IF e = c THEN ScanStep(input, limit, c, g) ELSE g[e]]
  <2>3. (\A e \in (c + 1)..N : h[e] = g[e]) /\ h[c] = ScanStep(input, limit, c, g) /\ DOMAIN h = c..N
    BY <1>1
  <2>4. h = [e \in c..N |-> h[e]]
    OBVIOUS
  <2> HIDE DEF h
  <2>5. ASSUME NEW e \in c..N
        PROVE  h[e] = ScanStep(input, limit, e, h)
    <3>1. e \in 0..N /\ \A d \in (e + 1)..N : d \in (c + 1)..N
      BY <1>1
    <3>2. ScanStep(input, limit, e, g) = ScanStep(input, limit, e, h)
      <4>1. \A d \in (e + 1)..Len(input) : g[d] = h[d]
        BY <2>3, <3>1
      <4>2. QED
        BY <4>1, <3>1, StepDepends
    <3>3. CASE e = c
      BY <2>3, <3>2, <3>3
    <3>4. CASE e # c
      <4>1. e \in (c + 1)..N
        BY <3>4, <1>1
      <4>2. QED
        BY <4>1, <2>2, <2>3, <3>2
    <3>5. QED
      BY <3>3, <3>4
  <2>6. Scans(h, c)
    BY <2>4, <2>5
  <2>7. QED
    BY <2>6
<1>3. \E f : f = [c \in 0..N |-> ScanStep(input, limit, c, f)]
  <2>1. 0 \in Good
    <3> HIDE DEF Good
    <3>1. 0..N \subseteq Good
      BY <1>1, <1>2, DownwardInduction
    <3>2. QED
      BY <3>1, <1>1
  <2>2. QED
    BY <2>1
<1>4. scan = [c \in 0..N |-> ScanStep(input, limit, c, scan)]
  BY <1>3, Zenon
<1>5. Scan(input, limit) = scan[0]
  BY DEF Scan, ScanStep, Seen, Width
<1> HIDE DEF scan
<1>6. \A c \in 0..N : scan[c] = ScanStep(input, limit, c, scan)
  BY <1>4
<1>7. QED
  BY <1>5, <1>6

\* What a result adds to the beginning of the output, from c bytes of a chunk on
\* that starts after u bytes; what it leaves pending starts at a decided place.
Adds(input, u, c, result) ==
  /\ Decided(patterns, input, u + result.used)
  /\ result.out \in Seq(Nat)
  /\ Beginning(patterns, input, u + result.used) = Beginning(patterns, input, u + c) \o result.out

\* A byte or a secret of the chunk is one of the output.
LEMMA StepAdds ==
  ASSUME patterns \in SecretSets, NEW input \in Seq(Bytes),
         NEW u \in Nat, NEW v \in Nat, v <= Len(input), NEW c \in Nat, u + c + 1 <= v,
         \/ v = Len(input)
         \/ \A p \in patterns : ~IsStrictPrefix(From(SubSeq(input, u + 1, v), c + 1), p),
         Decided(patterns, input, u + c)
  PROVE  LET chunk == SubSeq(input, u + 1, v)
             here  == Seen(patterns, chunk, c + 1)
             e     == c + (IF here = {} THEN 1 ELSE Width(patterns, chunk, c + 1))
             x     == <<IF here = {} THEN chunk[c + 1] ELSE Token>>
         IN  /\ x \in Seq(Nat) /\ Decided(patterns, input, u + e)
             /\ Beginning(patterns, input, u + e) = Beginning(patterns, input, u + c) \o x
<1> DEFINE chunk == SubSeq(input, u + 1, v)
           k == u + c
           here == Seen(patterns, chunk, c + 1)
<1>1. /\ k \in Nat /\ k + 1 <= Len(input) /\ Len(input) \in Nat /\ input[k + 1] \in Nat /\ Token \in Nat
  <2>1. Len(input) \in Nat /\ k + 1 \in 1..Len(input)
    BY LenProperties
  <2>2. input[k + 1] \in Bytes
    BY <2>1, ElementOfSeq
  <2>3. QED
    BY <2>1, <2>2 DEF Bytes, Token
<1>2. here = Seen(patterns, input, k + 1)
  BY ChunkShows
<1>3. chunk[c + 1] = input[k + 1]
  <2>1. \A i \in (u + 1)..v : input[i] \in Bytes
    BY LenProperties
  <2>2. \A i \in 1..(v - (u + 1) + 1) : chunk[i] = input[u + 1 + i - 1]
    BY <2>1, SubSeqProperties
  <2>3. c + 1 \in 1..(v - (u + 1) + 1) /\ u + 1 + (c + 1) - 1 = k + 1
    BY <1>1
  <2> HIDE DEF chunk, k
  <2>4. QED
    BY <2>2, <2>3
<1>4. Width(patterns, chunk, c + 1) = Width(patterns, input, k + 1)
  BY <1>2 DEF Width
<1> HIDE DEF chunk, here
<1>5. CASE here = {}
  <2>1. Decided(patterns, input, k + 1) /\ Beginning(patterns, input, k + 1) = Beginning(patterns, input, k) \o <<input[k + 1]>>
    <3> HIDE DEF k
    <3>1. Decided(patterns, input, k) /\ Seen(patterns, input, k + 1) = {}
      BY <1>2, <1>5 DEF k
    <3>2. QED
      BY <1>1, <3>1, ByteDecides
  <2>2. u + (c + 1) = k + 1
    OBVIOUS
  <2>3. <<input[k + 1]>> \in Seq(Nat)
    BY <1>1
  <2>4. QED
    BY <1>3, <1>5, <2>1, <2>2, <2>3 DEF chunk, here
<1>6. CASE here # {}
  <2> DEFINE w == Width(patterns, input, k + 1)
  <2>1. /\ w \in Nat \ {0} /\ Decided(patterns, input, k + w)
        /\ Beginning(patterns, input, k + w) = Beginning(patterns, input, k) \o <<Token>>
    <3> HIDE DEF k
    <3>1. Decided(patterns, input, k) /\ Seen(patterns, input, k + 1) # {}
      BY <1>2, <1>6 DEF k
    <3>2. QED
      BY <1>1, <3>1, SecretDecides
  <2>2. u + (c + w) = k + w
    <3> HIDE DEF w
    <3>1. QED
      BY <2>1
  <2>3. <<Token>> \in Seq(Nat)
    BY <1>1
  <2>4. QED
    BY <1>4, <1>6, <2>1, <2>2, <2>3 DEF chunk, here
<1>7. QED
  BY <1>5, <1>6

\* Three parts of a file can be joined in either order.
LEMMA FilesAssociate == \A p, q, r \in Seq(Nat) : (p \o q) \o r = p \o (q \o r)
<1>1. ASSUME NEW p \in Seq(Nat), NEW q \in Seq(Nat), NEW r \in Seq(Nat)
      PROVE  (p \o q) \o r = p \o (q \o r)
  <2> DEFINE S == Nat
  <2>1. p \in Seq(S) /\ q \in Seq(S) /\ r \in Seq(S)
    OBVIOUS
  <2> HIDE DEF S
  <2>2. QED
    BY <2>1, ConcatAssociative, SMTT(30)
<1>2. QED
  BY <1>1

\* Scanning a chunk that starts at a decided place adds the bytes it takes, and it
\* takes all up to the limit.
LEMMA ScanAdds ==
  ASSUME patterns \in SecretSets, NEW input \in Seq(Bytes),
         NEW u \in Nat, NEW v \in Nat, u <= v, v <= Len(input), NEW limit \in 0..(v - u),
         \/ v = Len(input)
         \/ \A i \in 1..limit : \A p \in patterns : ~IsStrictPrefix(From(SubSeq(input, u + 1, v), i), p),
         Decided(patterns, input, u)
  PROVE  /\ Adds(input, u, 0, Scan(SubSeq(input, u + 1, v), limit))
         /\ Scan(SubSeq(input, u + 1, v), limit).used \in limit..(v - u)
<1> DEFINE chunk == SubSeq(input, u + 1, v)
           N == v - u
<1>1. N \in Nat /\ Len(input) \in Nat
  BY LenProperties
<1>2. chunk \in Seq(Bytes) /\ Len(chunk) = N
  <2>1. \A i \in (u + 1)..v : input[i] \in Bytes
    BY LenProperties
  <2>2. chunk \in Seq(Bytes) /\ Len(chunk) = IF u + 1 <= v THEN v - (u + 1) + 1 ELSE 0
    BY <2>1, SubSeqProperties
  <2>3. QED
    BY <2>2
<1>3. PICK scan : /\ Scan(chunk, limit) = scan[0]
                  /\ \A c \in 0..N : scan[c] = ScanStep(chunk, limit, c, scan)
  <2> HIDE DEF chunk, N
  <2>1. limit \in 0..Len(chunk)
    BY <1>2 DEF N
  <2>2. QED
    BY <1>2, <2>1, ScanUnrolls
<1> DEFINE Done(c) == Adds(input, u, c, scan[c]) /\ scan[c].used \in limit..N
           Good == {c \in 0..N : Decided(patterns, input, u + c) => Done(c)}
<1>4. ASSUME NEW c \in 0..N, \A d \in (c + 1)..N : d \in Good
      PROVE  c \in Good
  <2>1. SUFFICES ASSUME Decided(patterns, input, u + c)
                 PROVE  Done(c)
    OBVIOUS
  <2>2. /\ c \in Nat /\ c <= N /\ limit \in Nat /\ limit <= N
        /\ scan[c] = ScanStep(chunk, limit, c, scan)
        /\ u + c \in 0..Len(input)
    BY <1>1, <1>3
  <2>3. Beginning(patterns, input, u + c) \in Seq(Nat)
    BY <2>2, PiecesType
  <2>4. CASE c >= limit
    <3>1. scan[c].out = <<>> /\ scan[c].used = c
      <4>1. scan[c] = [out |-> <<>>, used |-> c]
        BY <2>2, <2>4 DEF ScanStep
      <4>2. QED
        BY <4>1
    <3>2. Beginning(patterns, input, u + c) \o <<>> = Beginning(patterns, input, u + c)
      BY <2>3, ConcatEmptySeq
    <3>3. <<>> \in Seq(Nat) /\ c \in limit..N
      BY <2>2, <2>4
    <3>4. QED
      BY <2>1, <3>1, <3>2, <3>3 DEF Adds
  <2>5. CASE ~ c >= limit
    <3> DEFINE here == Seen(patterns, chunk, c + 1)
               e == c + (IF here = {} THEN 1 ELSE Width(patterns, chunk, c + 1))
               x == <<IF here = {} THEN chunk[c + 1] ELSE Token>>
    <3>1. u + c + 1 <= v /\ c < Len(chunk) /\ c + 1 \in 1..limit
      BY <1>1, <1>2, <2>2, <2>5
    <3>2. /\ x \in Seq(Nat) /\ Decided(patterns, input, u + e)
          /\ Beginning(patterns, input, u + e) = Beginning(patterns, input, u + c) \o x
      <4>1. v = Len(input) \/ \A p \in patterns : ~IsStrictPrefix(From(chunk, c + 1), p)
        BY <3>1
      <4>2. QED
        BY <2>1, <2>2, <3>1, <4>1, StepAdds, ZenonT(40)
    <3>3. e \in (c + 1)..N
      BY <1>2, <2>2, <3>1, StepFits
    <3>4. scan[c] = [out |-> x \o scan[e].out, used |-> scan[e].used]
      BY <2>2, <2>5 DEF ScanStep
    <3> HIDE DEF e, x, here
    <3>5. Done(e)
      BY <1>4, <3>2, <3>3
    <3>6. /\ scan[c].out = x \o scan[e].out /\ scan[c].used = scan[e].used
      BY <3>4, SMTT(40)
    <3>7. scan[e].out \in Seq(Nat)
      BY <3>5 DEF Adds
    <3>8. (Beginning(patterns, input, u + c) \o x) \o scan[e].out = Beginning(patterns, input, u + c) \o scan[c].out
      <4> DEFINE a == Beginning(patterns, input, u + c)
                 b == scan[e].out
      <4>1. a \in Seq(Nat) /\ b \in Seq(Nat) /\ x \in Seq(Nat)
        BY <2>3, <3>2, <3>7
      <4> HIDE DEF a, b
      <4>2. (a \o x) \o b = a \o (x \o b)
        BY <4>1, FilesAssociate, Zenon
      <4>3. QED
        BY <3>6, <4>2 DEF a, b
    <3>9. scan[c].out \in Seq(Nat)
      BY <3>2, <3>6, <3>7, ConcatProperties
    <3>10. QED
      BY <3>2, <3>5, <3>6, <3>8, <3>9 DEF Adds
  <2>6. QED
    BY <2>4, <2>5
<1>5. 0 \in Good
  <2> HIDE DEF Good, N
  <2>1. 0..N \subseteq Good
    BY <1>1, <1>4, DownwardInduction
  <2>2. QED
    BY <2>1, <1>1
<1>6. u + 0 = u
  OBVIOUS
<1>7. Done(0)
  <2> HIDE DEF Done
  <2>1. QED
    BY <1>5, <1>6
<1>8. QED
  BY <1>3, <1>7

\* What is available adds what it takes.
LEMMA AvailableAdds ==
  ASSUME patterns \in SecretSets, NEW input \in Seq(Bytes),
         NEW u \in Nat, NEW v \in Nat, u <= v, v <= Len(input), Decided(patterns, input, u)
  PROVE  LET ready == RedactAvailable(SubSeq(input, u + 1, v))
         IN  Adds(input, u, 0, ready) /\ ready.used \in 0..(v - u)
<1> DEFINE chunk == SubSeq(input, u + 1, v)
<1>1. chunk \in Seq(Bytes) /\ Len(chunk) = v - u
  <2>1. \A i \in (u + 1)..v : input[i] \in Bytes
    BY LenProperties
  <2>2. chunk \in Seq(Bytes) /\ Len(chunk) = IF u + 1 <= v THEN v - (u + 1) + 1 ELSE 0
    BY <2>1, SubSeqProperties
  <2>3. QED
    BY <2>2
<1>2. /\ UndecidedStart(chunk) \in 0..(v - u)
      /\ \A i \in 1..UndecidedStart(chunk) : \A p \in patterns : ~IsStrictPrefix(From(chunk, i), p)
  <2> HIDE DEF chunk
  <2>1. QED
    BY <1>1, UndecidedStartIs
<1> DEFINE limit == UndecidedStart(chunk)
<1>3. Adds(input, u, 0, Scan(chunk, limit)) /\ Scan(chunk, limit).used \in limit..(v - u)
  <2> HIDE DEF limit
  <2>1. limit \in 0..(v - u) /\ \A i \in 1..limit : \A p \in patterns : ~IsStrictPrefix(From(chunk, i), p)
    BY <1>2 DEF limit
  <2>2. QED
    BY <2>1, ScanAdds
<1>4. limit..(v - u) \subseteq 0..(v - u)
  <2> HIDE DEF limit
  <2>1. limit \in 0..(v - u)
    BY <1>2 DEF limit
  <2>2. QED
    BY <2>1
<1>5. QED
  BY <1>3, <1>4 DEF RedactAvailable

\* The tail of the output, or of what is empty, adds all of it.
LEMMA TailAdds ==
  ASSUME patterns \in SecretSets, NEW input \in Seq(Bytes),
         NEW u \in Nat, NEW v \in Nat, u <= v, v <= Len(input), v = Len(input) \/ v = u,
         Decided(patterns, input, u)
  PROVE  LET last == RedactBytes(SubSeq(input, u + 1, v))
         IN  Adds(input, u, 0, last) /\ last.used = v - u
<1> DEFINE chunk == SubSeq(input, u + 1, v)
           limit == v - u
<1>1. Len(chunk) = limit
  <2>1. \A i \in (u + 1)..v : input[i] \in Bytes
    BY LenProperties
  <2>2. Len(chunk) = IF u + 1 <= v THEN v - (u + 1) + 1 ELSE 0
    BY <2>1, SubSeqProperties
  <2>3. QED
    BY <2>2
<1>2. v # Len(input) => 1..limit = {}
  OBVIOUS
<1>3. limit \in 0..(v - u) /\ limit..(v - u) = {v - u}
  OBVIOUS
<1>4. Adds(input, u, 0, Scan(chunk, limit)) /\ Scan(chunk, limit).used \in limit..(v - u)
  <2> HIDE DEF limit
  <2>1. QED
    BY <1>2, <1>3, ScanAdds
<1>5. QED
  BY <1>1, <1>3, <1>4 DEF RedactBytes

\* What the first bytes become is the beginning of what all become.
LEMMA BeginningIsPrefix ==
  ASSUME NEW secrets, NEW input \in Seq(Bytes), NEW k \in 0..Len(input)
  PROVE  IsPrefix(Beginning(secrets, input, k), Beginning(secrets, input, Len(input)))
<1> DEFINE N == Len(input)
           whole == Beginning(secrets, input, N)
           Good == {c \in 0..N : IsPrefix(Beginning(secrets, input, c), whole)}
<1>1. N \in Nat /\ N \in 0..N
  BY LenProperties
<1>2. whole \in Seq(Nat) /\ \A c \in 0..N : Beginning(secrets, input, c) \in Seq(Nat)
  BY <1>1, PiecesType
<1>3. ASSUME NEW c \in 0..N, \A d \in (c + 1)..N : d \in Good
      PROVE  c \in Good
  <2>1. CASE c = N
    <3>1. IsPrefix(whole, whole)
      <4> HIDE DEF whole
      <4>1. Len(whole) \in Nat
        BY <1>2, LenProperties
      <4>2. QED
        BY <1>2, <4>1, PrefixElements
    <3>2. QED
      BY <2>1, <3>1
  <2>2. CASE c # N
    <3> DEFINE a == Beginning(secrets, input, c)
               b == Beginning(secrets, input, c + 1)
               piece == Piece(secrets, input, c + 1)
    <3>1. c \in Nat /\ c + 1 <= N /\ c + 1 \in 0..N /\ c + 1 \in (c + 1)..N /\ c + 1 \in 1..N
      BY <1>1, <2>2
    <3>2. b = a \o piece /\ piece \in Seq(Nat) /\ IsPrefix(b, whole) /\ a \in Seq(Nat) /\ b \in Seq(Nat)
      BY <3>1, <1>2, <1>3, BeginningGrows, PieceType
    <3>3. IsPrefix(a, whole)
      <4> HIDE DEF a, b, piece, whole
      <4>1. IsPrefix(a, b)
        BY <3>2, PrefixOfJoined
      <4>2. QED
        BY <1>2, <3>2, <4>1, PrefixOfPrefix
    <3>4. QED
      BY <3>3
  <2>3. QED
    BY <2>1, <2>2
<1>4. k \in Good
  <2> HIDE DEF Good
  <2>1. 0..N \subseteq Good
    <3> HIDE DEF N
    <3>1. QED
      BY <1>1, <1>3, DownwardInduction
  <2>2. QED
    BY <2>1
<1>5. QED
  BY <1>4

-----------------------------------------------------------------------------
(* The invariant of the relay.                                             *)

\* What was decided is in the file; after a failure, a part of what was ready more.
Retained ==
  \A s \in Streams :
    /\ Decided(patterns, output[s], used[s])
    /\ worker[s] # "failed" => file[s] = Beginning(patterns, output[s], used[s])
    /\ IsPrefix(file[s], Beginning(patterns, output[s], Len(output[s])))

\* A stream without a writer is complete, or nobody ever had it; its worker ends
\* with all of it.
Streamed ==
  /\ owner = "stdout" => open = {} /\ worker["stdout"] = "none"
  /\ owner = "stderr" => open = {"stdout"}
  /\ owner \in {"stdout", "stderr"} => worker["stderr"] = "none"
  /\ owner \in {"stdout", "stderr", "failed"} => \A s \in Streams : wrote[s] = 0
  /\ \A s \in Streams : s \notin open => wrote[s] \in {0, Len(output[s])}
  /\ owner \in {"owning", "asking", "joining", "dropping"} \/ outcome # "none" =>
       \A s \in Streams : s \notin open => wrote[s] = Len(output[s])
  /\ \A s \in Streams : worker[s] = "eof" => s \notin open /\ used[s] = got[s] /\ got[s] = wrote[s]

\* Who was asked to end, and that nobody stops short without a deadline.
Asked ==
  /\ \A s \in Streams : worker[s] = "incomplete" => Aborted(s)
  /\ owner \in {"stdout", "stderr", "owning"} => \A s \in Streams : control[s] = "none"
  /\ owner = "asking" => control["stdout"] = "later" /\ control["stderr"] = "none"
  /\ owner = "joining" \/ outcome # "none" => \A s \in Streams : control[s] = "later"

\* The outcome is that of the worse worker.
Judged ==
  /\ outcome # "none" => owner = "done" /\ \A s \in Streams : worker[s] \in Ended
  /\ outcome = "complete"   => \A s \in Streams : worker[s] = "eof"
  /\ outcome = "incomplete" => (\E s \in Streams : worker[s] = "incomplete") /\ \A s \in Streams : worker[s] # "failed"
  /\ outcome = "unknown"    => \E s \in Streams : worker[s] = "failed"

\* The inductive invariant.
RInv == TypeOK /\ Retained /\ Streamed /\ Asked /\ Judged

\* The types of what the data is made of.
LEMMA DataTypes ==
  ASSUME TypeOK
  PROVE  patterns \in SecretSets /\ output \in [Streams -> Seq(Bytes)]
BY RelayAssumption DEF TypeOK, SecretSets

LEMMA MinOfTwo ==
  ASSUME NEW a \in Nat, NEW b \in Nat
  PROVE  Min({a, b}) = IF a <= b THEN a ELSE b
<1>1. Min({a, b}) \in {a, b} /\ \A y \in {a, b} : Min({a, b}) <= y
  BY MinIsLeast
<1>2. QED
  BY <1>1

LEMMA MaxOfTwo ==
  ASSUME NEW a \in Nat, NEW b \in Nat
  PROVE  Max({a, b}) = IF a <= b THEN b ELSE a
<1>1. \E x \in {a, b} : \A y \in {a, b} : x >= y
  OBVIOUS
<1>2. Max({a, b}) \in {a, b} /\ \A y \in {a, b} : Max({a, b}) >= y
  BY <1>1, Zenon DEF Max
<1>3. QED
  BY <1>2

LEMMA InitRetains == Init => RInv
<1> SUFFICES ASSUME Init
             PROVE  RInv
  OBVIOUS
<1>1. patterns \in SecretSets /\ output \in [Streams -> Seq(Bytes)]
  BY RelayAssumption DEF Init, SecretSets
<1>2. \A s \in Streams : Len(output[s]) \in Nat
  BY <1>1, LenProperties
<1>3. TypeOK
  <2>1. <<>> \in Seq(Nat)
    BY EmptySeq
  <2>2. /\ wrote \in [Streams -> Nat] /\ got \in [Streams -> Nat] /\ used \in [Streams -> Nat]
        /\ file \in [Streams -> Seq(Nat)]
        /\ worker \in [Streams -> {"none", "poll", "recheck", "read"} \cup Ended]
        /\ control \in [Streams -> {"none", "later", "now"}]
    BY <2>1 DEF Init
  <2>3. \A s \in Streams : used[s] <= got[s] /\ got[s] <= wrote[s] /\ wrote[s] <= Len(output[s])
    BY <1>2 DEF Init
  <2>4. QED
    BY <2>2, <2>3 DEF Init, TypeOK
<1>4. Retained
  <2> SUFFICES ASSUME NEW s \in Streams
               PROVE  /\ Decided(patterns, output[s], 0)
                      /\ <<>> = Beginning(patterns, output[s], 0)
                      /\ IsPrefix(<<>>, Beginning(patterns, output[s], Len(output[s])))
    BY DEF Init, Retained
  <2>1. output[s] \in Seq(Bytes)
    BY <1>1
  <2>2. Decided(patterns, output[s], 0) /\ Beginning(patterns, output[s], 0) = <<>>
    BY <2>1, BeginningDecided
  <2>3. 0 \in 0..Len(output[s])
    BY <1>2
  <2>4. QED
    BY <2>1, <2>2, <2>3, BeginningIsPrefix
<1>5. Streamed /\ Asked /\ Judged
  BY DEF Init, Streamed, Asked, Judged, Streams, Aborted
<1>6. QED
  BY <1>3, <1>4, <1>5 DEF RInv

-----------------------------------------------------------------------------
(* The steps of the process and of the owner leave the files alone.        *)

LEMMA RetainedStays ==
  ASSUME Retained, UNCHANGED <<patterns, output, used, file>>,
         \A s \in Streams : worker[s] = "failed" => worker'[s] = "failed"
  PROVE  Retained'
BY DEF Retained

LEMMA ProcessSteps ==
  ASSUME RInv, NEW s \in Streams, Write(s) \/ Close(s)
  PROVE  RInv'
<1>1. TypeOK /\ Retained /\ Streamed /\ Asked /\ Judged
  BY DEF RInv
<1>2. UNCHANGED <<patterns, output, relay, keeper, late>>
  BY DEF Write, Close
<1>3. UNCHANGED <<patterns, output, got, used, file, worker, control, owner, outcome, late>>
  BY <1>2 DEF relay, keeper
<1>4. /\ wrote' \in [Streams -> Nat] /\ open' \subseteq Streams
      /\ \A t \in Streams : wrote[t] <= wrote'[t] /\ wrote'[t] <= Len(output[t])
      /\ \A t \in Streams : t \notin open' => wrote'[t] = Len(output[t]) \/ (t \notin open /\ wrote'[t] = wrote[t])
      /\ \A t \in Streams : t \notin open => wrote'[t] = wrote[t] /\ t \notin open'
      /\ Spawned
  <2>1. \A t \in Streams : Len(output[t]) \in Nat
    BY <1>1, DataTypes, LenProperties
  <2>2. CASE Write(s)
    BY <1>1, <2>1, <2>2 DEF TypeOK, Write, Streamed
  <2>3. CASE Close(s)
    BY <1>1, <2>1, <2>3 DEF TypeOK, Close
  <2>4. QED
    BY <2>2, <2>3
<1>5. TypeOK'
  <2>1. \A t \in Streams : got[t] <= wrote'[t]
    BY <1>1, <1>4 DEF TypeOK
  <2>2. QED
    BY <1>1, <1>3, <1>4, <2>1 DEF TypeOK
<1>6. Retained'
  BY <1>1, <1>3, RetainedStays
<1>7. Streamed'
  BY <1>1, <1>3, <1>4 DEF Streamed, Spawned
<1>8. Asked' /\ Judged'
  BY <1>1, <1>3 DEF Asked, Judged, Aborted
<1>9. QED
  BY <1>5, <1>6, <1>7, <1>8 DEF RInv

LEMMA ExpireStep ==
  ASSUME RInv, Expire
  PROVE  RInv'
<1>1. TypeOK /\ Retained /\ Streamed /\ Asked /\ Judged
  BY DEF RInv
<1>2. UNCHANGED <<patterns, output, wrote, open, got, used, file, worker, control, owner, outcome>> /\ late' = TRUE
  BY DEF Expire, source, relay, keeper
<1>3. TypeOK'
  BY <1>1, <1>2 DEF TypeOK
<1>4. Retained'
  BY <1>1, <1>2, RetainedStays
<1>5. Streamed' /\ Asked' /\ Judged'
  BY <1>1, <1>2 DEF Streamed, Asked, Judged, Aborted
<1>6. QED
  BY <1>3, <1>4, <1>5 DEF RInv

\* The streams and the workers are made.
LEMMA CreateSteps ==
  ASSUME RInv, CreateStdout \/ CreateStderr \/ CreateFails \/ CreateFailed
  PROVE  RInv'
<1>1. TypeOK /\ Retained /\ Streamed /\ Asked /\ Judged
  BY DEF RInv
<1>2. UNCHANGED <<patterns, output, wrote, got, used, file, late, outcome>>
  BY DEF CreateStdout, CreateStderr, CreateFails, CreateFailed, Owner
<1>3. TypeOK'
  BY <1>1, <1>2 DEF TypeOK, CreateStdout, CreateStderr, CreateFails, CreateFailed, Owner, Streams
<1>4. outcome = "none"
  BY <1>1 DEF Judged, CreateStdout, CreateStderr, CreateFails, CreateFailed, Owner
<1>5. Retained'
  <2>1. \A s \in Streams : worker[s] = "failed" => worker'[s] = "failed"
    BY <1>1 DEF TypeOK, Streamed, CreateStdout, CreateStderr, CreateFails, CreateFailed, Streams, Owner
  <2>2. QED
    BY <1>1, <1>2, <2>1, RetainedStays
<1>6. CASE CreateStdout
  <2>1. Streamed' /\ Asked' /\ Judged'
    BY <1>1, <1>2, <1>4, <1>6 DEF TypeOK, Streamed, Asked, Judged, CreateStdout, Owner, Streams, Aborted
  <2>2. QED
    BY <1>3, <1>5, <2>1 DEF RInv
<1>7. CASE CreateStderr
  <2>1. Streamed'
    BY <1>1, <1>2, <1>4, <1>7 DEF TypeOK, Streamed, CreateStderr, Owner, Streams
  <2>2. Asked' /\ Judged'
    BY <1>1, <1>2, <1>4, <1>7 DEF TypeOK, Streamed, Asked, Judged, CreateStderr, Owner, Streams, Aborted
  <2>3. QED
    BY <1>3, <1>5, <2>1, <2>2 DEF RInv
<1>8. CASE CreateFails
  <2>1. Streamed'
    BY <1>1, <1>2, <1>4, <1>8 DEF TypeOK, Streamed, CreateFails, Owner, Streams
  <2>2. Asked' /\ Judged'
    BY <1>1, <1>2, <1>4, <1>8 DEF TypeOK, Streamed, Asked, Judged, CreateFails, Owner, Streams, Aborted
  <2>3. QED
    BY <1>3, <1>5, <2>1, <2>2 DEF RInv
<1>9. CASE CreateFailed
  <2>1. Streamed' /\ Asked' /\ Judged'
    BY <1>1, <1>2, <1>4, <1>9 DEF TypeOK, Streamed, Asked, Judged, CreateFailed, Owner, Streams, Aborted
  <2>2. QED
    BY <1>3, <1>5, <2>1 DEF RInv
<1>10. QED
  BY <1>6, <1>7, <1>8, <1>9

\* The workers are asked to end, or dropped.
LEMMA AskSteps ==
  ASSUME RInv, AskStdout \/ AskStderr \/ Drop
  PROVE  RInv'
<1>1. TypeOK /\ Retained /\ Streamed /\ Asked /\ Judged
  BY DEF RInv
<1>2. UNCHANGED <<patterns, output, wrote, open, got, used, file, worker, late, outcome>>
  BY DEF AskStdout, AskStderr, Drop, Owner
<1>3. outcome = "none"
  BY <1>1 DEF Judged, AskStdout, AskStderr, Drop, Owner
<1>4. TypeOK'
  BY <1>1, <1>2 DEF TypeOK, AskStdout, AskStderr, Drop, Owner, Streams
<1>5. Retained'
  BY <1>1, <1>2, RetainedStays
<1>6. Streamed' /\ Judged'
  BY <1>1, <1>2, <1>3 DEF Streamed, Judged, AskStdout, AskStderr, Drop, Owner
<1>7. Asked'
  <2>1. CASE AskStdout
    BY <1>1, <1>2, <1>3, <2>1 DEF TypeOK, Asked, AskStdout, Owner, Streams, Aborted
  <2>2. CASE AskStderr
    BY <1>1, <1>2, <1>3, <2>2 DEF TypeOK, Asked, AskStderr, Owner, Streams, Aborted
  <2>3. CASE Drop
    BY <1>1, <1>2, <1>3, <2>3 DEF TypeOK, Asked, Drop, Owner, Streams, Aborted, Ended
  <2>4. QED
    BY <2>1, <2>2, <2>3
<1>8. QED
  BY <1>4, <1>5, <1>6, <1>7 DEF RInv

\* The owner joins both and says the worse of what they say.
LEMMA JoinStep ==
  ASSUME RInv, Join
  PROVE  RInv'
<1>1. TypeOK /\ Retained /\ Streamed /\ Asked /\ Judged
  BY DEF RInv
<1>2. /\ UNCHANGED <<patterns, output, wrote, open, got, used, file, worker, control, late>>
      /\ owner = "joining" /\ owner' = "done"
      /\ \A s \in Streams : worker[s] \in Ended
  BY DEF Join, Owner
<1>3. \A s \in Streams : /\ Result(s) \in 1..3
                         /\ Result(s) = 1 <=> worker[s] = "eof"
                         /\ Result(s) = 2 <=> worker[s] = "incomplete"
                         /\ Result(s) = 3 <=> worker[s] = "failed"
  BY <1>2 DEF Result, Ended
<1> DEFINE a == Result("stdout")
           b == Result("stderr")
           worse == IF a <= b THEN b ELSE a
<1>4. a \in 1..3 /\ b \in 1..3
  BY <1>3 DEF Streams
<1>5. outcome' = Verdicts[worse]
  <2>1. {Result(s) : s \in Streams} = {a, b}
    BY DEF Streams
  <2>2. Max({a, b}) = worse
    <3>1. a \in Nat /\ b \in Nat
      BY <1>4
    <3> HIDE DEF a, b
    <3>2. QED
      BY <3>1, MaxOfTwo
  <2>3. QED
    BY <2>1, <2>2 DEF Join
<1> HIDE DEF a, b
<1>6. /\ worse \in 1..3
      /\ worse = 1 => a = 1 /\ b = 1
      /\ worse = 2 => (a = 2 \/ b = 2) /\ a # 3 /\ b # 3
      /\ worse = 3 => a = 3 \/ b = 3
  BY <1>4
<1>7. /\ outcome' \in {"complete", "incomplete", "unknown"}
      /\ outcome' = "complete"   => worse = 1
      /\ outcome' = "incomplete" => worse = 2
      /\ outcome' = "unknown"    => worse = 3
  <2> HIDE DEF worse
  <2>1. QED
    BY <1>5, <1>6 DEF Verdicts
<1>8. Judged'
  <2>1. /\ worse = 1 => \A s \in Streams : worker[s] = "eof"
        /\ worse = 2 => (\E s \in Streams : worker[s] = "incomplete") /\ \A s \in Streams : worker[s] # "failed"
        /\ worse = 3 => \E s \in Streams : worker[s] = "failed"
    <3> HIDE DEF worse
    <3>1. QED
      BY <1>3, <1>6 DEF Streams, a, b
  <2> HIDE DEF worse
  <2>2. QED
    BY <1>2, <1>7, <2>1 DEF Judged
<1>9. TypeOK'
  BY <1>1, <1>2, <1>7 DEF TypeOK
<1>10. Retained'
  BY <1>1, <1>2, RetainedStays
<1>11. Streamed' /\ Asked'
  BY <1>1, <1>2 DEF Streamed, Asked, Aborted
<1>12. QED
  BY <1>8, <1>9, <1>10, <1>11 DEF RInv

-----------------------------------------------------------------------------
(* The steps of a worker.                                                  *)

\* What a worker has ready when it reads: the chunk's decided bytes, or the tail.
LEMMA ReadyBytes ==
  ASSUME TypeOK, Retained, Streamed, NEW s \in Streams, worker[s] = "read", Readable(s)
  PROVE  LET upto  == Min({wrote[s], got[s] + Buffer})
             ready == IF got[s] < wrote[s] THEN RedactAvailable(Pending(s, upto))
                                           ELSE RedactBytes(Pending(s, upto))
             next  == used[s] + ready.used
         IN  /\ upto \in Nat /\ got[s] <= upto /\ upto <= wrote[s]
             /\ next \in used[s]..upto /\ next \in 0..Len(output[s])
             /\ ~ got[s] < wrote[s] => upto = got[s] /\ next = got[s]
             /\ Decided(patterns, output[s], next)
             /\ ready.out \in Seq(Nat)
             /\ Beginning(patterns, output[s], next) = file[s] \o ready.out
<1> DEFINE upto  == Min({wrote[s], got[s] + Buffer})
           ready == IF got[s] < wrote[s] THEN RedactAvailable(Pending(s, upto))
                                         ELSE RedactBytes(Pending(s, upto))
           next  == used[s] + ready.used
           u     == used[s]
           input == output[s]
<1>1. /\ u \in Nat /\ got[s] \in Nat /\ wrote[s] \in Nat /\ u <= got[s] /\ got[s] <= wrote[s]
      /\ wrote[s] <= Len(input) /\ Buffer \in Nat \ {0}
  BY RelayAssumption DEF TypeOK
<1>2. patterns \in SecretSets /\ input \in Seq(Bytes) /\ Len(input) \in Nat
  BY DataTypes, LenProperties
<1>3. /\ upto \in Nat /\ got[s] <= upto /\ upto <= wrote[s]
      /\ ~ got[s] < wrote[s] => upto = got[s]
  <2>1. upto = IF wrote[s] <= got[s] + Buffer THEN wrote[s] ELSE got[s] + Buffer
    BY <1>1, MinOfTwo
  <2> HIDE DEF upto
  <2>2. QED
    BY <2>1, <1>1
<1>4. /\ Decided(patterns, input, u)
      /\ file[s] = Beginning(patterns, input, u)
  BY DEF Retained
<1>5. /\ Adds(input, u, 0, ready) /\ ready.used \in 0..(upto - u)
      /\ ~ got[s] < wrote[s] => ready.used = upto - u
  <2> HIDE DEF upto, u, input
  <2>1. Pending(s, upto) = SubSeq(input, u + 1, upto)
    BY DEF Pending, u, input
  <2>2. u <= upto /\ upto <= Len(input)
    BY <1>1, <1>2, <1>3
  <2>3. CASE got[s] < wrote[s]
    <3>1. ready = RedactAvailable(SubSeq(input, u + 1, upto))
      BY <2>1, <2>3
    <3> HIDE DEF ready
    <3>2. QED
      BY <1>1, <1>2, <1>3, <1>4, <2>2, <2>3, <3>1, AvailableAdds
  <2>4. CASE ~ got[s] < wrote[s]
    <3>1. ready = RedactBytes(SubSeq(input, u + 1, upto))
      BY <2>1, <2>4
    <3>2. upto = Len(input) \/ upto = u
      <4>1. s \notin open /\ upto = wrote[s]
        BY <1>1, <1>3, <2>4 DEF Readable
      <4>2. wrote[s] = 0 \/ wrote[s] = Len(input)
        BY <4>1 DEF Streamed, input
      <4>3. QED
        BY <1>1, <2>2, <4>1, <4>2
    <3> HIDE DEF ready
    <3>3. Adds(input, u, 0, ready) /\ ready.used = upto - u
      BY <1>1, <1>2, <1>3, <1>4, <2>2, <3>1, <3>2, TailAdds
    <3>4. upto - u \in 0..(upto - u)
      BY <1>1, <1>3, <2>2
    <3>5. QED
      BY <3>3, <3>4
  <2>5. QED
    BY <2>3, <2>4
<1>6. /\ Decided(patterns, input, next) /\ ready.out \in Seq(Nat)
      /\ Beginning(patterns, input, next) = file[s] \o ready.out
  <2> HIDE DEF ready, input
  <2>1. u + 0 = u
    BY <1>1
  <2>2. QED
    BY <1>4, <1>5, <2>1 DEF Adds
<1>7. /\ next \in u..upto /\ next \in 0..Len(input)
      /\ ~ got[s] < wrote[s] => next = got[s]
  <2> HIDE DEF ready, upto, input
  <2>1. next = u + ready.used
    OBVIOUS
  <2> HIDE DEF next, u
  <2>2. QED
    BY <1>1, <1>2, <1>3, <1>5, <2>1
<1>8. QED
  BY <1>3, <1>6, <1>7

\* What a step of a worker leaves of the other parts of the invariant.
LEMMA WorkerKeeps ==
  ASSUME RInv, NEW s \in Streams, NEW to \in {"poll", "recheck", "read"} \cup Ended,
         worker[s] \in {"poll", "recheck", "read"}, worker' = [worker EXCEPT ![s] = to],
         UNCHANGED <<patterns, source, keeper, late>>,
         used' \in [Streams -> Nat], got' \in [Streams -> Nat], file' \in [Streams -> Seq(Nat)],
         used'[s] <= got'[s], got'[s] <= wrote[s],
         \A t \in Streams \ {s} : used'[t] = used[t] /\ got'[t] = got[t] /\ file'[t] = file[t],
         Decided(patterns, output[s], used'[s]),
         to # "failed" => file'[s] = Beginning(patterns, output[s], used'[s]),
         IsPrefix(file'[s], Beginning(patterns, output[s], Len(output[s]))),
         to = "eof" => s \notin open /\ used'[s] = got'[s] /\ got'[s] = wrote[s],
         to = "incomplete" => Aborted(s)
  PROVE  RInv'
<1>1. TypeOK /\ Retained /\ Streamed /\ Asked /\ Judged
  BY DEF RInv
<1>2. UNCHANGED <<patterns, output, wrote, open, control, owner, outcome, late>>
  BY DEF source, keeper
<1>3. worker \in [Streams -> {"none", "poll", "recheck", "read"} \cup Ended]
  BY <1>1 DEF TypeOK
<1>4. /\ worker' \in [Streams -> {"none", "poll", "recheck", "read"} \cup Ended]
      /\ worker'[s] = to /\ \A t \in Streams \ {s} : worker'[t] = worker[t]
  BY <1>3
<1>5. worker[s] \notin Ended /\ worker[s] # "none"
  BY DEF Ended
<1>6. TypeOK'
  <2>1. \A t \in Streams : used'[t] <= got'[t] /\ got'[t] <= wrote[t]
    BY <1>1 DEF TypeOK
  <2>2. QED
    BY <1>1, <1>2, <1>4, <2>1 DEF TypeOK
<1>7. Retained'
  <2> SUFFICES ASSUME NEW t \in Streams
               PROVE  /\ Decided(patterns, output[t], used'[t])
                      /\ worker'[t] # "failed" => file'[t] = Beginning(patterns, output[t], used'[t])
                      /\ IsPrefix(file'[t], Beginning(patterns, output[t], Len(output[t])))
    BY <1>2 DEF Retained
  <2>1. CASE t = s
    BY <1>4, <2>1
  <2>2. CASE t # s
    BY <1>1, <1>4, <2>2 DEF Retained
  <2>3. QED
    BY <2>1, <2>2
<1>8. Streamed'
  <2>1. owner # "stdout" \/ s # "stdout"
    BY <1>1, <1>5 DEF Streamed
  <2>2. owner \in {"stdout", "stderr"} => s # "stderr"
    BY <1>1, <1>5 DEF Streamed
  <2>3. \A t \in Streams : worker'[t] = "eof" => t \notin open /\ used'[t] = got'[t] /\ got'[t] = wrote[t]
    BY <1>1, <1>4 DEF Streamed
  <2>4. QED
    BY <1>1, <1>2, <1>4, <2>1, <2>2, <2>3 DEF Streamed, Streams
<1>9. Asked'
  <2>1. \A t \in Streams : worker'[t] = "incomplete" => Aborted(t)
    BY <1>1, <1>4 DEF Asked
  <2>2. QED
    BY <1>1, <1>2, <2>1 DEF Asked, Aborted
<1>10. Judged'
  <2>1. outcome = "none"
    BY <1>1, <1>5 DEF Judged
  <2>2. QED
    BY <1>2, <2>1 DEF Judged
<1>11. QED
  BY <1>6, <1>7, <1>8, <1>9, <1>10 DEF RInv

\* A poll and the second look at the deadline move no byte.
LEMMA LookSteps ==
  ASSUME RInv, NEW s \in Streams, Poll(s) \/ Recheck(s)
  PROVE  RInv'
<1>1. TypeOK /\ Retained
  BY DEF RInv
<1>2. PICK to \in {"recheck", "read", "incomplete"} :
        /\ worker[s] \in {"poll", "recheck"} /\ worker' = [worker EXCEPT ![s] = to]
        /\ UNCHANGED <<patterns, source, keeper, late, got, used, file>>
        /\ to = "incomplete" => Aborted(s)
  BY DEF Poll, Recheck, Works
<1>3. /\ used' \in [Streams -> Nat] /\ got' \in [Streams -> Nat] /\ file' \in [Streams -> Seq(Nat)]
      /\ used'[s] <= got'[s] /\ got'[s] <= wrote[s]
  BY <1>1, <1>2 DEF TypeOK
<1>4. /\ Decided(patterns, output[s], used'[s])
      /\ file'[s] = Beginning(patterns, output[s], used'[s])
      /\ IsPrefix(file'[s], Beginning(patterns, output[s], Len(output[s])))
  BY <1>1, <1>2 DEF Retained
<1>5. to \in {"poll", "recheck", "read"} \cup Ended /\ to # "failed" /\ to # "eof"
  BY DEF Ended
<1>6. QED
  BY <1>2, <1>3, <1>4, <1>5, WorkerKeeps

\* A chunk, or the tail: what is ready goes to the file.
LEMMA ReadSteps ==
  ASSUME RInv, NEW s \in Streams, Read(s) \/ Finish(s)
  PROVE  RInv'
<1> DEFINE upto  == Min({wrote[s], got[s] + Buffer})
           ready == IF got[s] < wrote[s] THEN RedactAvailable(Pending(s, upto))
                                         ELSE RedactBytes(Pending(s, upto))
           next  == used[s] + ready.used
           to    == IF got[s] < wrote[s] THEN "poll" ELSE "eof"
<1>1. TypeOK /\ Retained /\ Streamed
  BY DEF RInv
<1>2. worker[s] = "read" /\ Readable(s)
  BY DEF Read, Finish, Works, Readable
<1>3. /\ upto \in Nat /\ got[s] <= upto /\ upto <= wrote[s]
      /\ next \in used[s]..upto /\ next \in 0..Len(output[s])
      /\ ~ got[s] < wrote[s] => upto = got[s] /\ next = got[s]
      /\ Decided(patterns, output[s], next)
      /\ ready.out \in Seq(Nat)
      /\ Beginning(patterns, output[s], next) = file[s] \o ready.out
  BY <1>1, <1>2, ReadyBytes
<1>4. /\ worker' = [worker EXCEPT ![s] = to] /\ UNCHANGED <<patterns, source, keeper, late>>
      /\ got' = [got EXCEPT ![s] = upto]
      /\ used' = [used EXCEPT ![s] = next]
      /\ file' = [file EXCEPT ![s] = @ \o ready.out]
      /\ to = "eof" => s \notin open /\ got[s] = wrote[s]
  <2>1. used \in [Streams -> Nat] /\ got \in [Streams -> Nat] /\ wrote \in [Streams -> Nat]
    BY <1>1 DEF TypeOK
  <2>2. CASE Read(s)
    <3>1. got[s] < wrote[s]
      BY <2>2 DEF Read
    <3>2. QED
      BY <2>2, <3>1 DEF Read, Works
  <2>3. CASE Finish(s)
    <3>1. ~ got[s] < wrote[s] /\ got[s] = wrote[s] /\ s \notin open
      BY <2>1, <2>3 DEF Finish
    <3>2. upto = got[s] /\ next = got[s] /\ to = "eof" /\ ready = RedactBytes(Pending(s, got[s]))
      BY <1>3, <3>1
    <3> HIDE DEF upto, next, to, ready
    <3>3. got' = [got EXCEPT ![s] = upto]
      BY <2>1, <2>3, <3>2 DEF Finish
    <3>4. QED
      BY <2>3, <3>1, <3>2, <3>3 DEF Finish, Works
  <2>4. QED
    BY <2>2, <2>3
<1> HIDE DEF upto, ready, next
<1>5. /\ used \in [Streams -> Nat] /\ got \in [Streams -> Nat] /\ file \in [Streams -> Seq(Nat)]
      /\ output[s] \in Seq(Bytes) /\ next \in Nat /\ wrote[s] \in Nat /\ next <= upto
  <2>1. used[s] \in Nat
    BY <1>1 DEF TypeOK
  <2>2. QED
    BY <1>1, <1>3, <2>1, DataTypes DEF TypeOK
<1>6. file[s] \o ready.out \in Seq(Nat)
  BY <1>3, <1>5, ConcatProperties
<1>7. /\ used' \in [Streams -> Nat] /\ got' \in [Streams -> Nat] /\ file' \in [Streams -> Seq(Nat)]
      /\ used'[s] = next /\ got'[s] = upto /\ file'[s] = file[s] \o ready.out
      /\ \A t \in Streams \ {s} : used'[t] = used[t] /\ got'[t] = got[t] /\ file'[t] = file[t]
  BY <1>3, <1>4, <1>5, <1>6
<1>8. file'[s] = Beginning(patterns, output[s], used'[s])
  BY <1>3, <1>7
<1>9. IsPrefix(file'[s], Beginning(patterns, output[s], Len(output[s])))
  BY <1>3, <1>5, <1>7, BeginningIsPrefix
<1>10. to \in {"poll", "recheck", "read"} \cup Ended /\ to # "incomplete"
  BY DEF Ended
<1>11. to = "eof" => s \notin open /\ used'[s] = got'[s] /\ got'[s] = wrote[s]
  <2>1. to = "eof" => ~ got[s] < wrote[s]
    OBVIOUS
  <2> HIDE DEF to
  <2>2. QED
    BY <1>3, <1>4, <1>7, <2>1
<1> HIDE DEF to
<1>12. /\ used'[s] <= got'[s] /\ got'[s] <= wrote[s] /\ Decided(patterns, output[s], used'[s])
  BY <1>3, <1>5, <1>7
<1>13. QED
  BY <1>2, <1>4, <1>7, <1>8, <1>9, <1>10, <1>11, <1>12, WorkerKeeps

\* A failure leaves a part of what was ready.
LEMMA FailStep ==
  ASSUME RInv, NEW s \in Streams, Fail(s)
  PROVE  RInv'
<1> DEFINE whole == Beginning(patterns, output[s], Len(output[s]))
<1>1. TypeOK /\ Retained /\ Streamed
  BY DEF RInv
<1>2. /\ UNCHANGED <<patterns, source, keeper, late, got, used>>
      /\ worker[s] \in {"poll", "recheck", "read"} /\ worker' = [worker EXCEPT ![s] = "failed"]
  BY DEF Fail, Works
<1>3. /\ used \in [Streams -> Nat] /\ got \in [Streams -> Nat] /\ file \in [Streams -> Seq(Nat)]
      /\ output[s] \in Seq(Bytes) /\ used[s] <= got[s] /\ got[s] <= wrote[s]
  BY <1>1, DataTypes DEF TypeOK
<1>4. Decided(patterns, output[s], used[s]) /\ IsPrefix(file[s], whole)
  BY <1>1 DEF Retained
<1>5. whole \in Seq(Nat)
  <2>1. Len(output[s]) \in Nat /\ Len(output[s]) \in 0..Len(output[s])
    BY <1>3, LenProperties
  <2>2. QED
    BY <1>3, <2>1, PiecesType
<1>6. /\ file' \in [Streams -> Seq(Nat)] /\ IsPrefix(file'[s], whole)
      /\ \A t \in Streams \ {s} : file'[t] = file[t]
  <2>1. CASE UNCHANGED file
    BY <1>3, <1>4, <2>1
  <2>2. CASE ~ UNCHANGED file
    <3> DEFINE upto  == Min({wrote[s], got[s] + Buffer})
               ready == IF got[s] < wrote[s] THEN RedactAvailable(Pending(s, upto))
                                             ELSE RedactBytes(Pending(s, upto))
               next  == used[s] + ready.used
    <3>1. /\ Readable(s) /\ worker[s] = "read"
          /\ \E n \in 0..Len(ready.out) : file' = [file EXCEPT ![s] = @ \o SubSeq(ready.out, 1, n)]
      <4>1. ready.out = IF got[s] < wrote[s] THEN RedactAvailable(Pending(s, upto)).out
                                             ELSE RedactBytes(Pending(s, upto)).out
        OBVIOUS
      <4> HIDE DEF ready
      <4>2. QED
        BY <2>2, <4>1 DEF Fail, Works
    <3>2. /\ next \in 0..Len(output[s]) /\ ready.out \in Seq(Nat)
          /\ Beginning(patterns, output[s], next) = file[s] \o ready.out
      BY <1>1, <3>1, ReadyBytes
    <3> DEFINE out == ready.out
    <3> HIDE DEF ready, next
    <3>3. PICK n \in 0..Len(out) : file' = [file EXCEPT ![s] = @ \o SubSeq(out, 1, n)]
      BY <3>1
    <3>4. out \in Seq(Nat) /\ IsPrefix(file[s] \o out, whole)
      BY <1>3, <3>2, BeginningIsPrefix
    <3> DEFINE part == SubSeq(out, 1, n)
    <3> HIDE DEF out, whole
    <3>5. part \in Seq(Nat) /\ IsPrefix(part, out)
      <4>1. Len(out) \in Nat /\ \A i \in 1..n : out[i] \in Nat
        BY <3>4, LenProperties
      <4>2. /\ part \in Seq(Nat) /\ Len(part) = IF 1 <= n THEN n - 1 + 1 ELSE 0
            /\ \A i \in 1..(n - 1 + 1) : part[i] = out[1 + i - 1]
        BY <4>1, SubSeqProperties
      <4>3. Len(part) <= Len(out) /\ \A i \in 1..Len(part) : part[i] = out[i]
        BY <4>1, <4>2
      <4>4. QED
        BY <3>4, <4>2, <4>3, PrefixElements
    <3> HIDE DEF part
    <3>6. file[s] \in Seq(Nat)
      BY <1>3
    <3>7. file[s] \o part \in Seq(Nat) /\ file[s] \o out \in Seq(Nat)
      BY <3>4, <3>5, <3>6, ConcatProperties
    <3>8. IsPrefix(file[s] \o part, whole)
      <4>1. IsPrefix(file[s] \o part, file[s] \o out)
        BY <3>4, <3>5, <3>6, PrefixJoinsPrefix
      <4>2. QED
        BY <1>5, <3>4, <3>7, <4>1, PrefixOfPrefix
    <3>9. /\ file' \in [Streams -> Seq(Nat)] /\ file'[s] = file[s] \o part
          /\ \A t \in Streams \ {s} : file'[t] = file[t]
      BY <1>3, <3>3, <3>7 DEF part
    <3>10. QED
      BY <3>8, <3>9
  <2>3. QED
    BY <2>1, <2>2
<1>7. "failed" \in {"poll", "recheck", "read"} \cup Ended
  BY DEF Ended
<1>8. QED
  BY <1>2, <1>3, <1>4, <1>6, <1>7, WorkerKeeps

-----------------------------------------------------------------------------
\* The invariant holds of every behaviour (the threads of a capture and its owner).
THEOREM RelayInvariance == Spec => []RInv
<1>1. Init => RInv
  BY InitRetains
<1>2. RInv /\ [Next]_vars => RInv'
  <2> SUFFICES ASSUME RInv, [Next]_vars
               PROVE  RInv'
    OBVIOUS
  <2>1. CASE CreateStdout \/ CreateStderr \/ CreateFails \/ CreateFailed
    BY <2>1, CreateSteps
  <2>2. CASE AskStdout \/ AskStderr \/ Drop
    BY <2>2, AskSteps
  <2>3. CASE Join
    BY <2>3, JoinStep
  <2>4. CASE Expire
    BY <2>4, ExpireStep
  <2>5. ASSUME NEW s \in Streams, Write(s) \/ Close(s) \/ Work(s)
        PROVE  RInv'
    <3>1. CASE Write(s) \/ Close(s)
      BY <3>1, ProcessSteps
    <3>2. CASE Poll(s) \/ Recheck(s)
      BY <3>2, LookSteps
    <3>3. CASE Read(s) \/ Finish(s)
      BY <3>3, ReadSteps
    <3>4. CASE Fail(s)
      BY <3>4, FailStep
    <3>5. QED
      BY <2>5, <3>1, <3>2, <3>3, <3>4 DEF Work
  <2>6. CASE UNCHANGED vars
    <3>1. UNCHANGED <<patterns, output, wrote, open, got, used, file, worker, control, owner, outcome, late>>
      BY <2>6 DEF vars, source, relay, keeper
    <3>2. TypeOK'
      BY <3>1 DEF RInv, TypeOK
    <3>3. Retained'
      BY <3>1, RetainedStays DEF RInv
    <3>4. Streamed' /\ Asked' /\ Judged'
      BY <3>1 DEF RInv, Streamed, Asked, Judged, Aborted
    <3>5. QED
      BY <3>2, <3>3, <3>4 DEF RInv
  <2>7. QED
    BY <2>1, <2>2, <2>3, <2>4, <2>5, <2>6 DEF Next
<1>3. QED
  BY <1>1, <1>2, PTL DEF Spec

\* Every variable keeps its type (TypeOK).
THEOREM RelayTypes == Spec => []TypeOK
<1>1. RInv => TypeOK
  BY DEF RInv
<1>2. QED
  BY <1>1, RelayInvariance, PTL

\* The whole output, redacted.
LEMMA RedactedIsBeginning ==
  ASSUME TypeOK, NEW s \in Streams
  PROVE  Redacted(s) = Beginning(patterns, output[s], Len(output[s]))
<1>1. patterns \in Secrets /\ output \in Outputs /\ output[s] \in Seq(Bytes)
  BY DataTypes DEF TypeOK
<1>2. Redacted(s) = Replaced(patterns, output[s])
  BY <1>1 DEF Redacted, Redactions
<1>3. QED
  BY <1>1, <1>2, ReplacedIsBeginning

\* A log file is at every moment a beginning of the redacted output, whatever the
\* secrets, the output and the way it is cut into reads (RetainedIsRedacted).
THEOREM FilesAreRedacted == Spec => []RetainedIsRedacted
<1>1. RInv => RetainedIsRedacted
  BY RedactedIsBeginning DEF RInv, Retained, RetainedIsRedacted
<1>2. QED
  BY <1>1, RelayInvariance, PTL

\* The outcome of a capture is true of both streams (OutcomeIsTrue).
THEOREM OutcomesAreTrue == Spec => []OutcomeIsTrue
<1>1. RInv => OutcomeIsTrue
  <2> SUFFICES ASSUME RInv
               PROVE  OutcomeIsTrue
    OBVIOUS
  <2>1. TypeOK /\ Retained /\ Streamed /\ Asked /\ Judged
    BY DEF RInv
  <2>2. ASSUME outcome = "complete"
        PROVE  open = {} /\ \A s \in Streams : wrote[s] = Len(output[s]) /\ file[s] = Redacted(s)
    <3>1. \A s \in Streams : worker[s] = "eof"
      BY <2>1, <2>2 DEF Judged
    <3>2. \A s \in Streams : s \notin open /\ used[s] = wrote[s] /\ wrote[s] = Len(output[s])
      BY <2>1, <2>2, <3>1 DEF Streamed
    <3>3. \A s \in Streams : file[s] = Redacted(s)
      BY <2>1, <3>1, <3>2, RedactedIsBeginning DEF Retained
    <3>4. QED
      BY <2>1, <3>2, <3>3 DEF TypeOK
  <2>3. ASSUME outcome = "incomplete"
        PROVE  /\ late /\ \E s \in Streams : worker[s] = "incomplete"
               /\ \A s \in Streams : worker[s] # "failed"
    BY <2>1, <2>3 DEF Judged, Asked, Aborted
  <2>4. outcome = "unknown" <=> owner = "done" /\ outcome # "none" /\ \E s \in Streams : worker[s] = "failed"
    BY <2>1 DEF Judged, TypeOK
  <2>5. QED
    BY <2>2, <2>3, <2>4 DEF OutcomeIsTrue
<1>2. QED
  BY <1>1, RelayInvariance, PTL

=============================================================================
