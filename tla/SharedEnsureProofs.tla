--------------------------- MODULE SharedEnsureProofs ---------------------------
(***************************************************************************)
(* What SharedEnsure guarantees for any number of ensures, daemon launches *)
(* and foreground runs, any requests, and any number of registry files.    *)
(*                                                                         *)
(* The argument comes in layers, each inductive relative to those below.   *)
(*  - CertaintyInv: the slot belongs to the owner between its acquisition  *)
(*    and its close, a process and its channel agree on what was published *)
(*    and written, and a launcher is told only what its owner can no       *)
(*    longer falsify.  It implies CertaintyIsTrue.                         *)
(*  - LineageInv: a run is published in a file of one inode, and a history *)
(*    that somebody carries has the inode of every file read so far and is *)
(*    not behind the events found there.  It implies PinnedKeepsLineage,   *)
(*    although files are removed and made anew, under an old inode too.    *)
(*  - IntactInv, while nobody removes the registry: an unfinished session  *)
(*    is the latest, no history is ahead of the registry, that of an owner *)
(*    continues that of its ensure, and an answer names the first          *)
(*    publication after the watermark.  It implies NoFalseCorruption, and  *)
(*    every step under it is one of FirstPublication (KeepsPromise).       *)
(***************************************************************************)
EXTENDS SharedEnsure, FiniteSetTheorems, SequenceTheorems, TLAPS

\* A finite set, put in a sequence, gives a sequence over it.
LEMMA SetToSeqType ==
  ASSUME NEW S, IsFiniteSet(S)
  PROVE  SetToSeq(S) \in Seq(S)
<1>1. Cardinality(S) \in Nat /\ ExistsBijection(1..Cardinality(S), S)
  BY FS_CardinalityType
<1>2. \E f \in [1..Cardinality(S) -> S] : IsInjective(f)
  BY <1>1 DEF ExistsBijection, Bijection, Injection
<1>3. SetToSeq(S) \in [1..Cardinality(S) -> S]
  BY <1>2, Zenon DEF SetToSeq
<1>4. QED
  BY <1>1, <1>3, SeqDef

\* There is a least element in a set of naturals that is not empty.
LEMMA LeastElement ==
  ASSUME NEW S \in SUBSET Nat, S # {}
  PROVE  \E i \in S : \A j \in S : i <= j
<1>1. \E i \in S : \A j \in S : <<j, i>> \notin OpToRel(<, Nat)
  BY NatLessThanWellFounded, WFMin
<1>2. ASSUME NEW i \in S, NEW j \in S, <<j, i>> \notin OpToRel(<, Nat)
      PROVE  i <= j
  BY <1>2 DEF OpToRel
<1>3. QED
  BY <1>1, <1>2

\* The least member of C above w, 0 when there is none: FirstAfter of any log.
FirstOf(C, w) ==
  IF \E i \in C : i > w
  THEN CHOOSE i \in C : i > w /\ \A j \in C : j > w => i <= j
  ELSE 0

\* It is a member above w and the least.
LEMMA FirstOfIsLeast ==
  ASSUME NEW C \in SUBSET (Nat \ {0}), NEW w \in Nat
  PROVE  /\ FirstOf(C, w) \in Nat
         /\ FirstOf(C, w) = 0 <=> \A i \in C : i <= w
         /\ FirstOf(C, w) # 0 =>
              /\ FirstOf(C, w) \in C
              /\ FirstOf(C, w) > w
              /\ \A i \in C : i > w => FirstOf(C, w) <= i
<1>1. CASE \E i \in C : i > w
  <2> DEFINE After == {i \in C : i > w}
  <2>1. After \in SUBSET Nat /\ After # {}
    BY <1>1
  <2>2. \E i \in After : \A j \in After : i <= j
    <3> HIDE DEF After
    <3>1. QED
      BY <2>1, LeastElement
  <2>3. \E i \in C : i > w /\ \A j \in C : j > w => i <= j
    BY <2>2
  <2>4. /\ FirstOf(C, w) \in C
        /\ FirstOf(C, w) > w
        /\ \A j \in C : j > w => FirstOf(C, w) <= j
    BY <1>1, <2>3, Zenon DEF FirstOf
  <2>5. FirstOf(C, w) \in Nat /\ FirstOf(C, w) # 0
    BY <2>4
  <2>6. ~ \A i \in C : i <= w
    <3>1. ~ (FirstOf(C, w) <= w)
      BY <2>4, <2>5
    <3>2. QED
      BY <2>4, <3>1
  <2>7. QED
    BY <2>4, <2>5, <2>6
<1>2. CASE ~ \E i \in C : i > w
  <2>1. FirstOf(C, w) = 0
    BY <1>2 DEF FirstOf
  <2>2. QED
    BY <1>2, <2>1
<1>3. QED
  BY <1>1, <1>2

\* There is one such member only.
LEMMA FirstOfIsUnique ==
  ASSUME NEW C \in SUBSET (Nat \ {0}), NEW w \in Nat,
         NEW i \in C, i > w, \A j \in C : j > w => i <= j
  PROVE  FirstOf(C, w) = i
<1>1. ~ \A j \in C : j <= w
  OBVIOUS
<1>2. FirstOf(C, w) \in C /\ FirstOf(C, w) > w /\ FirstOf(C, w) <= i
  BY <1>1, FirstOfIsLeast
<1>3. FirstOf(C, w) \in Nat /\ i \in Nat /\ i <= FirstOf(C, w)
  BY <1>2
<1>4. QED
  BY <1>2, <1>3

\* The first publication after w is one, and the least; 0 stands for none.
LEMMA FirstAfterIsFirst ==
  ASSUME log \in Seq(Events), NEW w \in Nat
  PROVE  /\ FirstAfter(w) \in Nat
         /\ FirstAfter(w) = 0 <=> \A i \in Creations : i <= w
         /\ FirstAfter(w) # 0 =>
              /\ FirstAfter(w) \in Creations
              /\ FirstAfter(w) > w
              /\ \A i \in Creations : i > w => FirstAfter(w) <= i
<1>1. Creations \in SUBSET (Nat \ {0})
  BY LenProperties DEF Creations
<1>2. FirstAfter(w) = FirstOf(Creations, w)
  BY Zenon DEF FirstAfter, FirstOf
<1>3. /\ FirstOf(Creations, w) \in Nat
      /\ FirstOf(Creations, w) = 0 <=> \A i \in Creations : i <= w
      /\ FirstOf(Creations, w) # 0 =>
           /\ FirstOf(Creations, w) \in Creations
           /\ FirstOf(Creations, w) > w
           /\ \A i \in Creations : i > w => FirstOf(Creations, w) <= i
  BY <1>1, FirstOfIsLeast
<1>4. QED
  BY <1>2, <1>3

\* Only finitely many runs were published.
LEMMA CreatedIsFinite ==
  ASSUME log \in Seq(Events)
  PROVE  IsFiniteSet(Created) /\ Created \subseteq Runs
<1> DEFINE f == [i \in Creations |-> log[i].run]
<1>1. IsFiniteSet(Creations)
  <2>1. IsFiniteSet(1..Len(log))
    BY FS_Interval
  <2>2. QED
    BY <2>1, FS_Subset DEF Creations
<1>2. f \in Surjection(Creations, Created)
  BY DEF Surjection, Created
<1>3. IsFiniteSet(Created)
  BY <1>1, <1>2, FS_Surjection
<1>4. ASSUME NEW i \in Creations PROVE log[i].run \in Runs
  <2>1. i \in 1..Len(log)
    BY LenProperties DEF Creations
  <2>2. log[i] \in Events
    BY <2>1, ElementOfSeq
  <2>3. QED
    BY <2>2 DEF Events
<1>5. QED
  BY <1>3, <1>4 DEF Created

\* What a recovery appends: settlements of recorded runs.
LEMMA SettlementsAreEvents ==
  ASSUME log \in Seq(Events), NEW P \in SUBSET Created
  PROVE  SetToSeq({Event("settled", p) : p \in P}) \in
           Seq({e \in Events : e.kind = "settled"})
<1> DEFINE S == {Event("settled", p) : p \in P}
           f == [p \in P |-> Event("settled", p)]
<1>1. IsFiniteSet(P)
  BY CreatedIsFinite, FS_Subset
<1>2. f \in Surjection(P, S)
  BY DEF Surjection
<1>3. IsFiniteSet(S)
  BY <1>1, <1>2, FS_Surjection
<1>4. S \subseteq {e \in Events : e.kind = "settled"}
  BY CreatedIsFinite DEF Event, Events
<1>5. QED
  BY <1>3, <1>4, SetToSeqType, SeqMonotonic

-----------------------------------------------------------------------------
(* How the log grows.                                                      *)

\* Settlements add no publication and move none.
LEMMA SettlesOnly ==
  ASSUME log \in Seq(Events), NEW t \in Seq({e \in Events : e.kind = "settled"}),
         log' = log \o t
  PROVE  /\ Creations' = Creations
         /\ Len(log') \in Nat /\ Len(log) <= Len(log')
         /\ \A i \in Creations : log'[i] = log[i]
         /\ Created' = Created
         /\ \A w : FirstAfter(w)' = FirstAfter(w)
<1>1. t \in Seq(Events)
  <2>1. {e \in Events : e.kind = "settled"} \subseteq Events
    OBVIOUS
  <2>2. QED
    BY <2>1, SeqMonotonic
<1>2. /\ log' \in Seq(Events)
      /\ Len(log') = Len(log) + Len(t) /\ Len(log) \in Nat /\ Len(t) \in Nat
      /\ DOMAIN log = 1..Len(log) /\ DOMAIN log' = 1..Len(log')
      /\ \A i \in 1..Len(log') : log'[i] = IF i <= Len(log) THEN log[i] ELSE t[i - Len(log)]
  BY <1>1, ConcatProperties, LenProperties
<1>3. ASSUME NEW i \in 1..Len(log'), i > Len(log) PROVE log'[i].kind = "settled"
  <2>1. i - Len(log) \in 1..Len(t) /\ log'[i] = t[i - Len(log)]
    BY <1>2, <1>3
  <2>2. t[i - Len(log)] \in {e \in Events : e.kind = "settled"}
    BY <2>1, ElementOfSeq
  <2>3. QED
    BY <2>1, <2>2
<1>4. \A i \in Creations : i \in Creations' /\ log'[i] = log[i]
  BY <1>2 DEF Creations
<1>5. \A i \in Creations' : i \in Creations
  <2> SUFFICES ASSUME NEW i \in Creations' PROVE i \in Creations
    OBVIOUS
  <2>1. i \in 1..Len(log') /\ log'[i].kind = "created"
    BY <1>2 DEF Creations
  <2>2. ~ (i > Len(log))
    BY <1>3, <2>1
  <2>3. QED
    BY <1>2, <2>1, <2>2 DEF Creations
<1>6. Creations' = Creations
  BY <1>4, <1>5
<1>7. Created' = Created
  BY <1>4, <1>6 DEF Created
<1>8. \A w : FirstAfter(w)' = FirstAfter(w)
  <2>1. \A w : FirstAfter(w) = FirstOf(Creations, w) /\ FirstAfter(w)' = FirstOf(Creations', w)
    BY Zenon DEF FirstAfter, FirstOf
  <2>2. QED
    BY <1>6, <2>1
<1>9. Len(log') \in Nat /\ Len(log) <= Len(log')
  BY <1>2
<1>10. QED
  BY <1>4, <1>6, <1>7, <1>8, <1>9

\* A publication takes the next number and moves no other.
LEMMA PublishesOne ==
  ASSUME log \in Seq(Events), NEW r \in Runs, log' = Append(log, Event("created", r))
  PROVE  /\ Creations' = Creations \cup {Len(log) + 1}
         /\ Len(log) \in Nat /\ Len(log') = Len(log) + 1
         /\ \A i \in Creations : i \in 1..Len(log) /\ log'[i] = log[i]
         /\ log'[Len(log) + 1].run = r
         /\ Created' = Created \cup {r}
         /\ \A w \in Nat : FirstAfter(w) # 0 => FirstAfter(w)' = FirstAfter(w)
         /\ \A w \in Nat : FirstAfter(w) = 0 /\ w <= Len(log) =>
              FirstAfter(w)' = Len(log) + 1
<1>1. Event("created", r) \in Events
  BY DEF Event, Events
<1>2. Event("created", r).kind = "created" /\ Event("created", r).run = r
  BY DEF Event
<1>3. /\ log' \in Seq(Events)
      /\ Len(log') = Len(log) + 1 /\ Len(log) \in Nat
      /\ DOMAIN log = 1..Len(log) /\ DOMAIN log' = 1..(Len(log) + 1)
      /\ \A i \in 1..Len(log) : log'[i] = log[i]
      /\ log'[Len(log) + 1] = Event("created", r)
  BY <1>1, AppendProperties, LenProperties
<1>4. \A i \in Creations : i \in 1..Len(log) /\ log'[i] = log[i]
  BY <1>3 DEF Creations
<1>5. Creations' = Creations \cup {Len(log) + 1}
  <2>1. \A i \in Creations' : i \in Creations \/ i = Len(log) + 1
    BY <1>3 DEF Creations
  <2>2. \A i \in Creations : i \in Creations'
    BY <1>3 DEF Creations
  <2>3. Len(log) + 1 \in Creations'
    BY <1>2, <1>3 DEF Creations
  <2>4. QED
    BY <2>1, <2>2, <2>3
<1>6. Created' = Created \cup {r}
  <2>1. \A x \in Created' : x \in Created \/ x = r
    BY <1>2, <1>3, <1>4, <1>5 DEF Created
  <2>2. \A x \in Created : x \in Created'
    BY <1>4, <1>5 DEF Created
  <2>3. r \in Created'
    BY <1>2, <1>3, <1>5 DEF Created
  <2>4. QED
    BY <2>1, <2>2, <2>3
<1>7. Creations \in SUBSET (Nat \ {0}) /\ Creations' \in SUBSET (Nat \ {0})
  BY <1>3, <1>4, <1>5
<1>8. \A w : FirstAfter(w) = FirstOf(Creations, w) /\ FirstAfter(w)' = FirstOf(Creations', w)
  BY Zenon DEF FirstAfter, FirstOf
<1>9. ASSUME NEW w \in Nat, FirstAfter(w) # 0 PROVE FirstAfter(w)' = FirstAfter(w)
  <2> DEFINE f == FirstAfter(w)
  <2>1. /\ f \in Creations /\ f > w /\ f \in Nat
        /\ \A j \in Creations : j > w => f <= j
    BY <1>7, <1>8, <1>9, FirstOfIsLeast
  <2> HIDE DEF f
  <2>2. f \in Creations' /\ \A j \in Creations' : j > w => f <= j
    BY <1>3, <1>4, <1>5, <2>1
  <2>3. FirstOf(Creations', w) = f
    <3> DEFINE C == Creations'
    <3>1. C \in SUBSET (Nat \ {0}) /\ f \in C /\ \A j \in C : j > w => f <= j
      BY <1>7, <2>2
    <3> HIDE DEF C
    <3>2. FirstOf(C, w) = f
      BY <2>1, <3>1, FirstOfIsUnique
    <3>3. QED
      BY <3>2 DEF C
  <2>4. QED
    BY <1>8, <2>3 DEF f
<1>10. ASSUME NEW w \in Nat, FirstAfter(w) = 0, w <= Len(log)
       PROVE  FirstAfter(w)' = Len(log) + 1
  <2>1. \A j \in Creations : j <= w
    BY <1>7, <1>8, <1>10, FirstOfIsLeast
  <2>2. /\ Len(log) + 1 \in Creations' /\ Len(log) + 1 > w
        /\ \A j \in Creations' : j > w => Len(log) + 1 <= j
    BY <1>3, <1>5, <1>7, <1>10, <2>1
  <2>3. FirstOf(Creations', w) = Len(log) + 1
    <3> DEFINE C == Creations'
    <3>1. /\ C \in SUBSET (Nat \ {0}) /\ Len(log) + 1 \in C /\ Len(log) + 1 > w
          /\ \A j \in C : j > w => Len(log) + 1 <= j
      BY <1>7, <2>2
    <3> HIDE DEF C
    <3>2. FirstOf(C, w) = Len(log) + 1
      BY <3>1, FirstOfIsUnique
    <3>3. QED
      BY <3>2 DEF C
  <2>4. QED
    BY <1>8, <2>3
<1>11. Len(log) \in Nat /\ Len(log') = Len(log) + 1 /\ log'[Len(log) + 1].run = r
  BY <1>2, <1>3
<1>12. QED
  BY <1>4, <1>5, <1>6, <1>9, <1>10, <1>11

\* The end of a session is one settlement.
LEMMA SettlesOne ==
  ASSUME log \in Seq(Events), NEW r \in Runs, log' = Append(log, Event("settled", r))
  PROVE  \E t \in Seq({e \in Events : e.kind = "settled"}) : log' = log \o t
<1>1. Event("settled", r) \in {e \in Events : e.kind = "settled"}
  BY DEF Event, Events
<1>2. /\ <<Event("settled", r)>> \in Seq({e \in Events : e.kind = "settled"})
      /\ Event("settled", r) \in Events
  BY <1>1
<1>3. log' = log \o <<Event("settled", r)>>
  BY <1>2, AppendIsConcat
<1>4. QED
  BY <1>2, <1>3

\* A recovery appends settlements.
LEMMA RecoverySettles ==
  ASSUME log \in Seq(Events), NEW r \in Runs, Recover(r)
  PROVE  \E t \in Seq({e \in Events : e.kind = "settled"}) : log' = log \o t
<1> DEFINE unknown == {q \in Unfinished : ~Recorded(q)}
<1>1. unknown \in SUBSET Created
  BY DEF Unfinished
<1>2. log' = log \o SetToSeq({Event("settled", p) : p \in unknown})
  BY Zenon DEF Recover
<1> HIDE DEF unknown
<1>3. SetToSeq({Event("settled", p) : p \in unknown})
        \in Seq({e \in Events : e.kind = "settled"})
  BY <1>1, SettlementsAreEvents
<1>4. QED
  BY <1>2, <1>3

-----------------------------------------------------------------------------
(* Types.                                                                  *)

\* Inodes are named as they appear, and there is room for the next file.
FilesInv == file <= files /\ (file = 0 => files < MaxFiles)

\* Owners that have not come to their commit.
EarlyPCs == {"none"} \cup WaitPCs \cup GuardPCs

EstablishedDraft(r) == r \in Launchers /\ draft[r] # None /\ draft[r].kind = "established"

\* The slot is held by the owner between its acquisition and its close, which
\* writes a file before anything else.
GuardInv ==
  \A r \in Runs :
    /\ owner[r] \in GuardPCs \cup SessionPCs => holder = r
    /\ owner[r] = "replying" => r \in Launchers
    /\ owner[r] = "replying" /\ EstablishedDraft(r) => holder = r /\ file # 0
    /\ owner[r] \in (GuardPCs \ {"guarded", "open"}) \cup SessionPCs => file # 0

\* What the process of an owner has published and written.
ChannelInv ==
  \A l \in Launchers :
    /\ owner[l] \in EarlyPCs => madeIn[l] = 0 /\ draft[l] = None /\ reply[l] = None
    /\ owner[l] = "replying" =>
         /\ draft[l] # None /\ reply[l] = None
         /\ (draft[l].kind = "established") = (madeIn[l] # 0)
    /\ owner[l] \in SessionPCs \cup {"linger"} => madeIn[l] # 0
    /\ reply[l] # None =>
         /\ (reply[l].kind = "established") = (madeIn[l] # 0)
         /\ madeIn[l] = 0 => owner[l] = "exited"

\* An ensure is enrolled before it asks for anything.
MarkInv ==
  \A c \in Ensures :
    /\ owner[c] # "none" => mark[c] # None
    /\ launcher[c] \in {"sampling", "seeking", "sending", "waiting", "selecting"} =>
         mark[c] # None

\* How far the launcher of an owner is.
LauncherInv ==
  \A l \in Launchers :
    /\ launcher[l] \in {"idle", "sampling", "seeking"} => owner[l] = "none"
    /\ launcher[l] \in {"idle", "sampling", "seeking", "sending"} => sent[l] # "full"
    /\ sent[l] # "full" => owner[l] \in {"none", "receive", "exited"} /\ madeIn[l] = 0
    /\ launcher[l] = "selecting" => reply[l] # None
    /\ launcher[l] \notin {"ended", "dead"} => told[l] = "none"
    /\ told[l] = "not-requested" => owner[l] = "none"
    /\ told[l] = "not-established" => owner[l] = "exited"

\* The inductive invariant of what launchers are told.
ToldInv == GuardInv /\ ChannelInv /\ MarkInv /\ LauncherInv /\ CertaintyIsTrue

CertaintyInv == TypeOK /\ FilesInv /\ ToldInv

\* What may be written on the channel has the type of a reply.
LEMMA AnswersAreReplies ==
  ASSUME log \in Seq(Events)
  PROVE  /\ \A r \in Runs, h \in Histories : Established(r, h) \in Replies
         /\ \A i \in Creations, h \in Histories : Existing(i, h) \in Replies
         /\ \A r \in Runs, why \in Ends : Rejected(r, why) \in Replies
<1>1. ASSUME NEW i \in Creations PROVE i \in Nat /\ log[i].run \in Runs
  <2>1. i \in 1..Len(log)
    BY LenProperties DEF Creations
  <2>2. log[i] \in Events
    BY <2>1, ElementOfSeq
  <2>3. QED
    BY <2>1, <2>2, LenProperties DEF Events
<1>2. Unseen \in Histories
  BY EnsureAssumption DEF Unseen, Histories
<1>3. QED
  BY <1>1, <1>2 DEF Established, Existing, Rejected, Replies, Ends

\* No step leaves the types.
LEMMA TypeStep == CertaintyInv /\ [Next]_vars => TypeOK' /\ FilesInv'
<1> SUFFICES ASSUME TypeOK, FilesInv, MarkInv, LauncherInv, [Next]_vars
             PROVE  TypeOK' /\ FilesInv'
  BY DEF CertaintyInv, ToldInv
<1> USE EnsureAssumption
<1>1. Len(log) \in Nat
  BY LenProperties DEF TypeOK
<1>2. Now \in Histories
  BY <1>1 DEF TypeOK, Now, Histories
<1>3. \A h \in Histories : Advanced(h) \in Histories
  BY <1>2 DEF Advanced
<1>4. \A w \in Nat : FirstAfter(w) # 0 => FirstAfter(w) \in Creations
  BY FirstAfterIsFirst DEF TypeOK
<1>5. \A r \in Runs, h \in Histories :
        /\ Established(r, h) \in Replies
        /\ \A i \in Creations : Existing(i, h) \in Replies
        /\ \A why \in Ends : Rejected(r, why) \in Replies
  BY AnswersAreReplies DEF TypeOK
<1>6. Unseen \in Histories /\ [Now EXCEPT !.greatest = @ + 1] \in Histories
  BY <1>1, <1>2 DEF Unseen, Histories
<1>7. \A r \in Runs : Event("created", r) \in Events /\ Event("settled", r) \in Events
  BY DEF Event, Events
<1>8. \A e \in Events : Append(log, e) \in Seq(Events)
  BY AppendProperties DEF TypeOK
<1>9. Ensures \subseteq Launchers /\ Daemons \subseteq Launchers /\ Launchers \subseteq Runs
      /\ Foregrounds \subseteq Runs
  BY DEF Launchers, Runs
<1>10. \A l \in Launchers, said1 \in Ends, told1 \in Certainties :
         Concludes(l, said1, told1) =>
           /\ launcher' \in [Launchers -> LauncherPCs]
           /\ said' \in [Launchers -> Ends]
           /\ told' \in [Launchers -> Certainties]
  BY DEF TypeOK, Concludes, LauncherPCs
<1>11. \A a : Certainty(a) \in Certainties
  BY DEF Certainty, Certainties
<1>12. \A c \in Ensures :
         Sees(c) => seen' \in [Ensures -> [files : SUBSET Files, events : Nat]]
  <2> TAKE c \in Ensures
  <2>1. file # 0 => [number |-> files, inode |-> file] \in Files
    BY DEF TypeOK, FilesInv, Files
  <2>2. Now.greatest \in Nat
    BY <1>2 DEF Histories
  <2>3. seen[c].files \subseteq Files /\ seen[c].events \in Nat
    BY DEF TypeOK
  <2>4. QED
    BY <2>1, <2>2, <2>3 DEF TypeOK, Sees
<1>13. \A r \in Runs, to \in OwnerPCs : Goes(r, to) => owner' \in [Runs -> OwnerPCs]
  BY DEF TypeOK, Goes
<1>14. \A r \in Runs, a \in Replies :
         Drafts(r, a) => draft' \in [Launchers -> Replies \cup {None}]
  BY DEF TypeOK, Drafts
<1>15. \A r \in Runs, why \in Ends :
         Rejects(r, why) =>
           /\ owner' \in [Runs -> OwnerPCs]
           /\ draft' \in [Launchers -> Replies \cup {None}]
           /\ holder' \in Runs \cup {None}
  <2> TAKE r \in Runs, why \in Ends
  <2>1. Rejected(r, why) \in Replies
    BY <1>5, <1>6
  <2>2. "replying" \in OwnerPCs /\ "exited" \in OwnerPCs
    BY DEF OwnerPCs
  <2>3. QED
    BY <2>1, <2>2, <1>13, <1>14 DEF TypeOK, Rejects
<1>16. {"timeout", "mismatch", "corrupt", "failed", "canceled", "none"} \subseteq Ends
  BY DEF Ends
<1>17. ASSUME NEW c \in Ensures, EnrollRead(c) PROVE TypeOK' /\ FilesInv'
  <2>1. Created \subseteq Runs
    BY CreatedIsFinite DEF TypeOK
  <2>2. /\ launcher' \in [Launchers -> LauncherPCs]
        /\ mark' \in [Ensures -> Nat \cup {None}]
        /\ candidates' \in [Ensures -> SUBSET Runs]
    BY <1>17, <1>1, <1>9, <2>1 DEF EnrollRead, TypeOK, LauncherPCs
  <2>3. /\ hist' \in [Ensures -> Histories]
        /\ seen' \in [Ensures -> [files : SUBSET Files, events : Nat]]
    BY <1>17, <1>3, <1>12 DEF EnrollRead, TypeOK
  <2>4. QED
    BY <1>17, <2>2, <2>3
       DEF EnrollRead, TypeOK, FilesInv, channelVars, ownerVars, registryVars
<1>18. ASSUME NEW c \in Ensures, EnrollSample(c) PROVE TypeOK' /\ FilesInv'
  <2>1. /\ launcher' \in [Launchers -> LauncherPCs]
        /\ said' \in [Launchers -> Ends]
        /\ told' \in [Launchers -> Certainties]
        /\ pinned' \in [Ensures -> Runs \cup {None}]
    <3>1. \/ \E w \in Ends, t \in Certainties : Concludes(c, w, t)
          \/ /\ launcher' = [launcher EXCEPT ![c] = "seeking"]
             /\ UNCHANGED <<said, told>>
      <4>1. "not-requested" \in Certainties /\ "pinned" \in Ends
        BY DEF Certainties, Ends
      <4>2. QED
        BY <1>18, <4>1, <1>16, Zenon DEF EnrollSample
    <3>2. /\ launcher' \in [Launchers -> LauncherPCs]
          /\ said' \in [Launchers -> Ends]
          /\ told' \in [Launchers -> Certainties]
      <4>1. CASE \E w \in Ends, t \in Certainties : Concludes(c, w, t)
        BY <4>1, <1>9, <1>10, Zenon
      <4>2. CASE launcher' = [launcher EXCEPT ![c] = "seeking"] /\ UNCHANGED <<said, told>>
        BY <4>2 DEF TypeOK, LauncherPCs
      <4>3. QED
        BY <3>1, <4>1, <4>2
    <3>3. pinned' = pinned \/ \E r \in candidates[c] : pinned' = [pinned EXCEPT ![c] = r]
      BY <1>18, Zenon DEF EnrollSample
    <3>4. \A r \in candidates[c] :
             [pinned EXCEPT ![c] = r] \in [Ensures -> Runs \cup {None}]
      <4> TAKE r \in candidates[c]
      <4>1. r \in Runs
        BY DEF TypeOK
      <4>2. QED
        BY <4>1 DEF TypeOK
    <3>5. pinned \in [Ensures -> Runs \cup {None}]
      BY DEF TypeOK
    <3>6. ASSUME NEW r \in candidates[c], pinned' = [pinned EXCEPT ![c] = r]
          PROVE  pinned' \in [Ensures -> Runs \cup {None}]
      BY <3>4, <3>6, Zenon
    <3>7. QED
      BY <3>2, <3>3, <3>5, <3>6
  <2>2. candidates' \in [Ensures -> SUBSET Runs]
    BY <1>18 DEF EnrollSample, TypeOK
  <2>3. UNCHANGED <<mark, hist, interrupted, channelVars, ownerVars, holder,
                    registryVars, canceled, seen>>
    BY <1>18, Zenon DEF EnrollSample
  <2>4. QED
    BY <2>1, <2>2, <2>3 DEF TypeOK, FilesInv, channelVars, ownerVars, registryVars
<1>19. ASSUME NEW c \in Ensures, EnsureReceive(c) PROVE TypeOK' /\ FilesInv'
  <2>1. \/ \E w \in Ends, t \in Certainties : Concludes(c, w, t)
        \/ /\ launcher' = [launcher EXCEPT ![c] = "selecting"]
           /\ UNCHANGED <<said, told>>
    <3>1. "rejected" \in Ends
      BY DEF Ends
    <3>2. QED
      BY <1>19, <3>1, <1>11, <1>16, Zenon DEF EnsureReceive
  <2>2. /\ launcher' \in [Launchers -> LauncherPCs]
        /\ said' \in [Launchers -> Ends]
        /\ told' \in [Launchers -> Certainties]
    <3>1. CASE \E w \in Ends, t \in Certainties : Concludes(c, w, t)
      BY <3>1, <1>9, <1>10, Zenon
    <3>2. CASE launcher' = [launcher EXCEPT ![c] = "selecting"] /\ UNCHANGED <<said, told>>
      BY <3>2 DEF TypeOK, LauncherPCs
    <3>3. QED
      BY <2>1, <3>1, <3>2
  <2>3. QED
    BY <1>19, <2>2, <1>9
       DEF EnsureReceive, TypeOK, FilesInv, ownerVars, registryVars
<1>20. ASSUME NEW c \in Ensures, SelectReply(c) PROVE TypeOK' /\ FilesInv'
  <2>1. reply[c].hist \in Histories /\ reply[c].run \in Runs
    <3>1. reply[c] \in Replies
      BY <1>20, <1>9 DEF SelectReply, LauncherInv, TypeOK
    <3>2. QED
      BY <3>1 DEF Replies
  <2>2. /\ launcher' \in [Launchers -> LauncherPCs]
        /\ said' \in [Launchers -> Ends]
        /\ told' \in [Launchers -> Certainties]
    BY <1>20, <1>9, <1>10, <1>11 DEF SelectReply, Ends
  <2>3. hist' \in [Ensures -> Histories] /\ pinned' \in [Ensures -> Runs \cup {None}]
    <3>1. /\ \/ hist' = [hist EXCEPT ![c] = Advanced(reply[c].hist)]
             \/ hist' = hist
          /\ \/ pinned' = [pinned EXCEPT ![c] = reply[c].run]
             \/ pinned' = pinned
      BY <1>20, Zenon DEF SelectReply
    <3>2. /\ [hist EXCEPT ![c] = Advanced(reply[c].hist)] \in [Ensures -> Histories]
          /\ [pinned EXCEPT ![c] = reply[c].run] \in [Ensures -> Runs \cup {None}]
      BY <2>1, <1>3 DEF TypeOK
    <3>3. hist \in [Ensures -> Histories] /\ pinned \in [Ensures -> Runs \cup {None}]
      BY DEF TypeOK
    <3>4. hist' \in [Ensures -> Histories]
      BY <3>1, <3>2, <3>3, Zenon
    <3>5. pinned' \in [Ensures -> Runs \cup {None}]
      BY <3>1, <3>2, <3>3, Zenon
    <3>6. QED
      BY <3>4, <3>5
  <2>4. QED
    BY <1>20, <2>2, <2>3, <1>12
       DEF SelectReply, TypeOK, FilesInv, channelVars, ownerVars, registryVars
<1>21. ASSUME NEW c \in Ensures, EnsureExpires(c) PROVE TypeOK' /\ FilesInv'
  <2>1. \E t \in Certainties : Concludes(c, "timeout", t)
    <3>1. "not-requested" \in Certainties /\ "uncertain" \in Certainties
      BY DEF Certainties
    <3>2. QED
      BY <1>21, <3>1, <1>11, Zenon DEF EnsureExpires
  <2>2. /\ launcher' \in [Launchers -> LauncherPCs]
        /\ said' \in [Launchers -> Ends]
        /\ told' \in [Launchers -> Certainties]
    BY <2>1, <1>9, <1>10, <1>16
  <2>3. QED
    BY <1>21, <2>2, <1>9
       DEF EnsureExpires, TypeOK, FilesInv, ownerVars, registryVars
<1>22. ASSUME NEW c \in Ensures, Resume(c) PROVE TypeOK' /\ FilesInv'
  <2>1. CASE Readable(hist[c])
    <3>1. learned' = [learned EXCEPT ![c] = Advanced(hist[c])] /\ Goes(c, "seek")
      BY <1>22, <2>1, Zenon DEF Resume
    <3>2. learned' \in [Ensures -> Histories] /\ owner' \in [Runs -> OwnerPCs]
      BY <3>1, <1>3, <1>9, <1>13 DEF OwnerPCs, WaitPCs, TypeOK
    <3>3. QED
      BY <1>22, <2>1, <3>2, <1>12
         DEF Resume, Keeps, TypeOK, FilesInv, launcherVars, channelVars, registryVars
  <2>2. CASE ~ Readable(hist[c])
    BY <1>22, <2>2, <1>9, <1>12, <1>15, <1>16
       DEF Resume, Keeps, TypeOK, FilesInv, launcherVars, channelVars, registryVars
  <2>3. QED
    BY <2>1, <2>2
<1>23. ASSUME NEW c \in Ensures, Seek(c) PROVE TypeOK' /\ FilesInv'
  <2> DEFINE first == FirstAfter(mark[c])
  <2>1. first \in Creations => Existing(first, Advanced(learned[c])) \in Replies
    BY <1>3, <1>5, <1>9 DEF TypeOK
  <2>2. first # 0 => first \in Creations
    BY <1>23, <1>4, <1>9 DEF Seek, MarkInv, TypeOK
  <2>3. learned' \in [Ensures -> Histories]
    <3>1. learned' = [learned EXCEPT ![c] = Advanced(@)] \/ learned' = learned
      BY <1>23, Zenon DEF Seek
    <3>2. [learned EXCEPT ![c] = Advanced(@)] \in [Ensures -> Histories]
      BY <1>3 DEF TypeOK
    <3>3. QED
      BY <3>1, <3>2 DEF TypeOK
  <2>4. \/ Goes(c, "try") /\ UNCHANGED <<draft, holder>>
        \/ /\ first # 0
           /\ Goes(c, "replying")
           /\ Drafts(c, Existing(first, Advanced(learned[c])))
           /\ UNCHANGED holder
        \/ \E why \in Ends : Rejects(c, why)
    BY <1>23, <1>16, Zenon DEF Seek
  <2> HIDE DEF first
  <2>5. /\ owner' \in [Runs -> OwnerPCs]
        /\ draft' \in [Launchers -> Replies \cup {None}]
        /\ holder' \in Runs \cup {None}
    BY <2>1, <2>2, <2>4, <1>9, <1>13, <1>14, <1>15 DEF OwnerPCs, WaitPCs, TypeOK
  <2>6. QED
    BY <1>23, <2>3, <2>5, <1>12
       DEF Seek, Keeps, TypeOK, FilesInv, launcherVars, channelVars, registryVars
<1>24. ASSUME NEW c \in Ensures, Try(c) PROVE TypeOK' /\ FilesInv'
  BY <1>24, <1>9, <1>13
     DEF Try, Keeps, OwnerPCs, WaitPCs, GuardPCs, TypeOK, FilesInv, launcherVars,
         channelVars, ownerVars, registryVars
<1>25. ASSUME NEW c \in Ensures, Recheck(c) PROVE TypeOK' /\ FilesInv'
  <2>1. learned' \in [Ensures -> Histories]
    <3>1. learned' = [learned EXCEPT ![c] = Advanced(@)] \/ learned' = learned
      BY <1>25, Zenon DEF Recheck
    <3>2. [learned EXCEPT ![c] = Advanced(@)] \in [Ensures -> Histories]
      BY <1>3 DEF TypeOK
    <3>3. QED
      BY <3>1, <3>2 DEF TypeOK
  <2>2. \/ Goes(c, "open") /\ UNCHANGED <<draft, holder>>
        \/ \E why \in Ends : Rejects(c, why)
    BY <1>25, <1>16, Zenon DEF Recheck
  <2>3. /\ owner' \in [Runs -> OwnerPCs]
        /\ draft' \in [Launchers -> Replies \cup {None}]
        /\ holder' \in Runs \cup {None}
    BY <2>2, <1>9, <1>13, <1>15 DEF OwnerPCs, GuardPCs, TypeOK
  <2>4. QED
    BY <1>25, <2>1, <2>3, <1>12
       DEF Recheck, Keeps, TypeOK, FilesInv, launcherVars, channelVars, registryVars
<1>26. ASSUME NEW d \in Daemons, DaemonInterrupt(d) PROVE TypeOK' /\ FilesInv'
  BY <1>26, <1>9
     DEF DaemonInterrupt, TypeOK, FilesInv, launcherVars, channelVars, ownerVars,
         registryVars
<1>27. ASSUME NEW d \in Daemons, DaemonReceive(d) PROVE TypeOK' /\ FilesInv'
  BY <1>27, <1>9, <1>10
     DEF DaemonReceive, Ends, Certainties, TypeOK, FilesInv, launcherVars, channelVars,
         ownerVars, registryVars
<1>28. ASSUME NEW d \in Daemons, DaemonGivesUp(d) PROVE TypeOK' /\ FilesInv'
  BY <1>28, <1>9, <1>10
     DEF DaemonGivesUp, Ends, Certainties, TypeOK, FilesInv, launcherVars, channelVars,
         ownerVars, registryVars
<1>29. ASSUME NEW l \in Launchers, Spawn(l) PROVE TypeOK' /\ FilesInv'
  BY <1>29, <1>9
     DEF Spawn, LauncherPCs, OwnerPCs, WaitPCs, TypeOK, FilesInv, launcherVars,
         channelVars, ownerVars, registryVars
<1>30. ASSUME NEW l \in Launchers, SpawnFails(l) PROVE TypeOK' /\ FilesInv'
  BY <1>30, <1>10
     DEF SpawnFails, Ends, Certainties, TypeOK, FilesInv, launcherVars, channelVars,
         ownerVars, registryVars
<1>31. ASSUME NEW l \in Launchers, Send(l) PROVE TypeOK' /\ FilesInv'
  BY <1>31
     DEF Send, LauncherPCs, TypeOK, FilesInv, launcherVars, channelVars, ownerVars,
         registryVars
<1>32. ASSUME NEW l \in Launchers, Incomplete(l) PROVE TypeOK' /\ FilesInv'
  BY <1>32, <1>9, <1>10
     DEF Incomplete, Ends, Certainties, OwnerPCs, TypeOK, FilesInv, launcherVars,
         channelVars, ownerVars, registryVars
<1>33. ASSUME NEW l \in Launchers, Eof(l) PROVE TypeOK' /\ FilesInv'
  BY <1>33, <1>10
     DEF Eof, Ends, Certainties, TypeOK, FilesInv, launcherVars, channelVars, ownerVars,
         registryVars
<1>34. ASSUME NEW l \in Launchers, LauncherDies(l) PROVE TypeOK' /\ FilesInv'
  BY <1>34
     DEF LauncherDies, LauncherPCs, TypeOK, FilesInv, launcherVars, channelVars,
         ownerVars, registryVars
<1>35. ASSUME NEW l \in Launchers, ReceiveRequest(l) PROVE TypeOK' /\ FilesInv'
  BY <1>35, <1>9, <1>13
     DEF ReceiveRequest, Keeps, OwnerPCs, WaitPCs, TypeOK, FilesInv, launcherVars,
         channelVars, ownerVars, registryVars
<1>36. ASSUME NEW l \in Launchers, ReceiveFails(l) PROVE TypeOK' /\ FilesInv'
  BY <1>36, <1>9, <1>13
     DEF ReceiveFails, Keeps, OwnerPCs, TypeOK, FilesInv, launcherVars, channelVars,
         ownerVars, registryVars
<1>37. ASSUME NEW l \in Launchers, Abandoned(l) PROVE TypeOK' /\ FilesInv'
  BY <1>37, <1>9, <1>15, <1>16
     DEF Abandoned, Keeps, TypeOK, FilesInv, launcherVars, channelVars, ownerVars,
         registryVars
<1>38. ASSUME NEW l \in Launchers, WriteReply(l) PROVE TypeOK' /\ FilesInv'
  BY <1>38, <1>9, <1>13
     DEF WriteReply, AfterReply, OwnerPCs, SessionPCs, TypeOK, FilesInv, launcherVars,
         channelVars, ownerVars, registryVars
<1>39. ASSUME NEW l \in Launchers, LoseReply(l) PROVE TypeOK' /\ FilesInv'
  BY <1>39, <1>9, <1>13
     DEF LoseReply, Keeps, AfterReply, OwnerPCs, SessionPCs, TypeOK, FilesInv,
         launcherVars, channelVars, ownerVars, registryVars
<1>40. ASSUME NEW r \in Daemons \cup Foregrounds, Acquire(r) PROVE TypeOK' /\ FilesInv'
  BY <1>40, <1>9, <1>13, <1>15, <1>16
     DEF Acquire, Keeps, OwnerPCs, GuardPCs, TypeOK, FilesInv, launcherVars,
         channelVars, ownerVars, registryVars
<1>41. ASSUME NEW r \in Runs, Open(r) PROVE TypeOK' /\ FilesInv'
  BY <1>41, <1>13
     DEF Open, Keeps, OwnerPCs, GuardPCs, TypeOK, FilesInv, launcherVars, channelVars,
         ownerVars, registryVars
<1>42. ASSUME NEW r \in Runs, InitializeSchema(r) PROVE TypeOK' /\ FilesInv'
  BY <1>42, <1>13
     DEF InitializeSchema, Keeps, OwnerPCs, GuardPCs, TypeOK, FilesInv, launcherVars,
         channelVars, ownerVars, registryVars
<1>43. ASSUME NEW r \in Runs, Recover(r) PROVE TypeOK' /\ FilesInv'
  <2> DEFINE unknown == {q \in Unfinished : ~Recorded(q)}
  <2>1. Unfinished \subseteq Created /\ unknown \in SUBSET Created /\ Created \subseteq Runs
    BY CreatedIsFinite DEF Unfinished, TypeOK
  <2>2. SetToSeq({Event("settled", p) : p \in unknown}) \in Seq(Events)
    <3>1. {e \in Events : e.kind = "settled"} \subseteq Events
      OBVIOUS
    <3>2. QED
      <4> HIDE DEF unknown
      <4>1. SetToSeq({Event("settled", p) : p \in unknown})
              \in Seq({e \in Events : e.kind = "settled"})
        BY <2>1, SettlementsAreEvents DEF TypeOK
      <4>2. QED
        BY <3>1, <4>1, SeqMonotonic
  <2>3. log' \in Seq(Events)
    BY <1>43, <2>2, ConcatProperties DEF Recover, TypeOK
  <2>4. finished' \subseteq Runs /\ UNCHANGED <<file, files, schema, madeIn>>
    BY <1>43, <2>1 DEF Recover, TypeOK
  <2>5. owner' \in [Runs -> OwnerPCs]
    BY <1>43, <1>13 DEF Recover, OwnerPCs, GuardPCs
  <2>6. UNCHANGED <<launcherVars, channelVars, canceled, learned, draft, holder, seen>>
    BY <1>43 DEF Recover, Keeps
  <2>7. QED
    BY <2>3, <2>4, <2>5, <2>6 DEF TypeOK, FilesInv, launcherVars, channelVars
<1>44. ASSUME NEW r \in Runs, Prepare(r) PROVE TypeOK' /\ FilesInv'
  BY <1>44, <1>13
     DEF Prepare, Keeps, OwnerPCs, GuardPCs, TypeOK, FilesInv, launcherVars,
         channelVars, ownerVars, registryVars
<1>45. ASSUME NEW r \in Runs, Check(r) PROVE TypeOK' /\ FilesInv'
  BY <1>45, <1>13
     DEF Check, Keeps, OwnerPCs, GuardPCs, TypeOK, FilesInv, launcherVars, channelVars,
         ownerVars, registryVars
<1>46. ASSUME NEW r \in Runs, Publish(r) PROVE TypeOK' /\ FilesInv'
  <2>1. CASE r \in Ensures => IsFirstPublication(r)
    <3>1. /\ madeIn' = [madeIn EXCEPT ![r] = file]
          /\ log' = Append(log, Event("created", r))
          /\ learned' = IF r \in Ensures
                        THEN [learned EXCEPT ![r] = [Now EXCEPT !.greatest = @ + 1]]
                        ELSE learned
          /\ Drafts(r, Established(r, IF r \in Ensures THEN learned'[r] ELSE Unseen))
          /\ UNCHANGED holder
          /\ \E to \in OwnerPCs : Goes(r, to)
      <4>1. "replying" \in OwnerPCs /\ "session" \in OwnerPCs
        BY DEF OwnerPCs, SessionPCs
      <4>2. QED
        BY <1>46, <2>1, <4>1, Zenon DEF Publish
    <3>2. UNCHANGED <<launcherVars, channelVars, canceled, file, files, schema, finished,
                      seen>>
      BY <1>46, Zenon DEF Publish, Keeps
    <3>3. madeIn' \in [Runs -> 0..MaxFiles] /\ log' \in Seq(Events)
      BY <3>1, <1>7, <1>8 DEF TypeOK
    <3>4. learned' \in [Ensures -> Histories]
      BY <3>1, <1>6 DEF TypeOK
    <3>5. draft' \in [Launchers -> Replies \cup {None}]
      <4> DEFINE h == IF r \in Ensures THEN learned'[r] ELSE Unseen
      <4>1. h \in Histories
        BY <3>4, <1>6
      <4>2. Drafts(r, Established(r, h))
        BY <3>1
      <4> HIDE DEF h
      <4>3. QED
        BY <4>1, <4>2, <1>5, <1>14
    <3>6. owner' \in [Runs -> OwnerPCs]
      BY <3>1, <1>13
    <3>7. QED
      BY <3>1, <3>2, <3>3, <3>4, <3>5, <3>6
         DEF TypeOK, FilesInv, launcherVars, channelVars
  <2>2. CASE ~ (r \in Ensures => IsFirstPublication(r))
    <3>1. /\ Rejects(r, "corrupt")
          /\ UNCHANGED <<learned, log, madeIn>>
          /\ UNCHANGED <<launcherVars, channelVars, canceled, file, files, schema,
                         finished, seen>>
      BY <1>46, <2>2, Zenon DEF Publish, Keeps
    <3>2. QED
      BY <3>1, <1>15, <1>16 DEF TypeOK, FilesInv, launcherVars, channelVars
  <2>3. QED
    BY <2>1, <2>2
<1>47. ASSUME NEW r \in Runs, PrecommitFails(r) PROVE TypeOK' /\ FilesInv'
  BY <1>47, <1>15, <1>16
     DEF PrecommitFails, Keeps, TypeOK, FilesInv, launcherVars, channelVars, ownerVars,
         registryVars
<1>48. ASSUME NEW r \in Runs, Settle(r) PROVE TypeOK' /\ FilesInv'
  BY <1>48, <1>7, <1>8, <1>13
     DEF Settle, Keeps, OwnerPCs, SessionPCs, TypeOK, FilesInv, launcherVars,
         channelVars, ownerVars, registryVars
<1>49. ASSUME NEW r \in Runs, Finalize(r) PROVE TypeOK' /\ FilesInv'
  BY <1>49, <1>13
     DEF Finalize, Keeps, OwnerPCs, SessionPCs, TypeOK, FilesInv, launcherVars,
         channelVars, ownerVars, registryVars
<1>50. ASSUME NEW r \in Runs, Close(r) PROVE TypeOK' /\ FilesInv'
  BY <1>50, <1>13
     DEF Close, Keeps, OwnerPCs, SessionPCs, TypeOK, FilesInv, launcherVars,
         channelVars, ownerVars, registryVars
<1>51. ASSUME NEW r \in Runs, Exit(r) PROVE TypeOK' /\ FilesInv'
  BY <1>51, <1>13
     DEF Exit, Keeps, OwnerPCs, TypeOK, FilesInv, launcherVars, channelVars, ownerVars,
         registryVars
<1>52. ASSUME NEW r \in Runs, Crash(r) PROVE TypeOK' /\ FilesInv'
  BY <1>52, <1>9, <1>13
     DEF Crash, Keeps, OwnerPCs, TypeOK, FilesInv, launcherVars, channelVars, ownerVars,
         registryVars
<1>53. CASE RemoveRegistry
  <2>1. <<>> \in Seq(Events)
    BY EmptySeq
  <2>2. log' \in Seq(Events)
    BY <1>53, <2>1 DEF RemoveRegistry
  <2>3. file' \in 0..MaxFiles /\ FilesInv'
    BY <1>53
       DEF RemoveRegistry, TypeOK, FilesInv, launcherVars, channelVars, ownerVars,
           registryVars
  <2>4. QED
    BY <1>53, <2>2, <2>3 DEF RemoveRegistry, TypeOK, launcherVars, channelVars, ownerVars
<1>54. CASE UNCHANGED vars
  BY <1>54 DEF vars, TypeOK, FilesInv, launcherVars, channelVars, ownerVars, registryVars
<1>55. QED
  BY <1>17, <1>18, <1>19, <1>20, <1>21, <1>22, <1>23, <1>24, <1>25, <1>26, <1>27, <1>28,
     <1>29, <1>30, <1>31, <1>32, <1>33, <1>34, <1>35, <1>36, <1>37, <1>38, <1>39, <1>40,
     <1>41, <1>42, <1>43, <1>44, <1>45, <1>46, <1>47, <1>48, <1>49, <1>50, <1>51, <1>52,
     <1>53, <1>54
     DEF Next, EnsureStep, SharedStep, DaemonStep, LauncherStep, DetachedStep, OwnerStep
-----------------------------------------------------------------------------
(* What launchers are told.                                                *)

\* No step falsifies what a launcher was told.
LEMMA CertaintyStep == CertaintyInv /\ [Next]_vars => CertaintyInv'
<1> SUFFICES ASSUME CertaintyInv, [Next]_vars
             PROVE  ToldInv'
  BY TypeStep DEF CertaintyInv
<1> USE EnsureAssumption, NoneAssumption
<1>1. /\ launcher \in [Launchers -> LauncherPCs] /\ told \in [Launchers -> Certainties]
      /\ owner \in [Runs -> OwnerPCs] /\ sent \in [Launchers -> {"none", "partial", "full"}]
      /\ draft \in [Launchers -> Replies \cup {None}]
      /\ reply \in [Launchers -> Replies \cup {None}]
      /\ holder \in Runs \cup {None} /\ madeIn \in [Runs -> 0..MaxFiles]
      /\ mark \in [Ensures -> Nat \cup {None}]
      /\ file \in 0..MaxFiles /\ files \in 0..MaxFiles
      /\ None \notin Runs /\ MaxFiles \in Nat /\ None \notin Nat /\ None \notin Replies
  BY DEF CertaintyInv, TypeOK
<1>2. /\ \A r, h : Established(r, h).kind = "established"
      /\ \A i, h : Existing(i, h).kind = "existing"
      /\ \A r, why : Rejected(r, why).kind = "rejected"
  BY DEF Established, Existing, Rejected
<1>3. \A r \in Runs, why \in Ends : Rejected(r, why) # None
  <2>1. Unseen \in Histories
    BY DEF Unseen, Histories
  <2>2. QED
    BY <1>1, <2>1, AnswersAreReplies DEF CertaintyInv, TypeOK
<1>4. ASSUME NEW r \in Runs, NEW why \in Ends, Rejects(r, why), Keeps,
             owner[r] \in (WaitPCs \ {"receive"}) \cup GuardPCs, UNCHANGED registryVars
      PROVE  ToldInv'
  BY <1>1, <1>2, <1>3, <1>4
     DEF Rejects, Keeps, Goes, Drafts, CertaintyInv, ToldInv, GuardInv, ChannelInv,
         MarkInv, LauncherInv, CertaintyIsTrue, EstablishedDraft, EarlyPCs, WaitPCs,
         GuardPCs, SessionPCs, Launchers, Runs, launcherVars, channelVars, ownerVars,
         registryVars
<1>5. {"corrupt", "failed", "mismatch", "canceled"} \subseteq Ends
  BY DEF Ends
<1>6. /\ \A r \in Runs, h \in Histories : Established(r, h) # None
      /\ \A i \in Creations, h \in Histories : Existing(i, h) # None
  BY <1>1, AnswersAreReplies DEF CertaintyInv, TypeOK
<1>7. Len(log) \in Nat
  BY LenProperties DEF CertaintyInv, TypeOK
<1>8. ASSUME NEW c \in Ensures, EnrollRead(c) PROVE ToldInv'
  <2>1. mark' = [mark EXCEPT ![c] = Len(log)] /\ Len(log) # None
    BY <1>8, <1>1, <1>7 DEF EnrollRead
  <2>2. /\ launcher[c] = "idle" /\ launcher' = [launcher EXCEPT ![c] = "sampling"]
        /\ UNCHANGED <<told, channelVars, ownerVars, holder, registryVars>>
    BY <1>8 DEF EnrollRead
  <2>3. MarkInv'
    BY <1>8, <2>1, <2>2, <1>1 DEF CertaintyInv, ToldInv, MarkInv, ownerVars, Launchers
  <2>4. GuardInv' /\ ChannelInv' /\ LauncherInv' /\ CertaintyIsTrue'
    BY <1>8, <2>2, <1>1
       DEF CertaintyInv, ToldInv, GuardInv, ChannelInv, MarkInv, LauncherInv,
           CertaintyIsTrue, EstablishedDraft, EarlyPCs, WaitPCs, GuardPCs, SessionPCs,
           Launchers, Runs, launcherVars, channelVars, ownerVars, registryVars
  <2>5. QED
    BY <2>3, <2>4 DEF ToldInv
<1>9. ASSUME NEW c \in Ensures, EnrollSample(c) PROVE ToldInv'
  BY <1>9, <1>1, <1>2
     DEF EnrollSample, Concludes, CertaintyInv, ToldInv, GuardInv, ChannelInv, MarkInv,
         LauncherInv, CertaintyIsTrue, EstablishedDraft, EarlyPCs, WaitPCs, GuardPCs,
         SessionPCs, Launchers, Runs, launcherVars, channelVars, ownerVars, registryVars
<1>10. ASSUME NEW c \in Ensures, EnsureReceive(c) PROVE ToldInv'
  BY <1>10, <1>1, <1>2
     DEF EnsureReceive, Concludes, Certainty, CertaintyInv, ToldInv, GuardInv,
         ChannelInv, MarkInv, LauncherInv, CertaintyIsTrue, EstablishedDraft, EarlyPCs,
         WaitPCs, GuardPCs, SessionPCs, Launchers, Runs, launcherVars, channelVars,
         ownerVars, registryVars
<1>11. ASSUME NEW c \in Ensures, SelectReply(c) PROVE ToldInv'
  BY <1>11, <1>1, <1>2
     DEF SelectReply, Concludes, Certainty, CertaintyInv, ToldInv, GuardInv, ChannelInv,
         MarkInv, LauncherInv, CertaintyIsTrue, EstablishedDraft, EarlyPCs, WaitPCs,
         GuardPCs, SessionPCs, Launchers, Runs, launcherVars, channelVars, ownerVars,
         registryVars
<1>12. ASSUME NEW c \in Ensures, EnsureExpires(c) PROVE ToldInv'
  BY <1>12, <1>1, <1>2
     DEF EnsureExpires, Concludes, Certainty, CertaintyInv, ToldInv, GuardInv,
         ChannelInv, MarkInv, LauncherInv, CertaintyIsTrue, EstablishedDraft, EarlyPCs,
         WaitPCs, GuardPCs, SessionPCs, Launchers, Runs, launcherVars, channelVars,
         ownerVars, registryVars
<1>13. ASSUME NEW c \in Ensures, Resume(c) PROVE ToldInv'
  <2>1. CASE Readable(hist[c])
    BY <1>13, <2>1, <1>1
       DEF Resume, Keeps, Goes, CertaintyInv, ToldInv, GuardInv, ChannelInv, MarkInv,
           LauncherInv, CertaintyIsTrue, EstablishedDraft, EarlyPCs, WaitPCs, GuardPCs,
           SessionPCs, Launchers, Runs, launcherVars, channelVars, ownerVars,
           registryVars
  <2>2. CASE ~ Readable(hist[c])
    BY <1>13, <2>2, <1>4, <1>5 DEF Resume, WaitPCs, Launchers, Runs
  <2>3. QED
    BY <2>1, <2>2
<1>14. ASSUME NEW c \in Ensures, Seek(c) PROVE ToldInv'
  <2> DEFINE first == FirstAfter(mark[c])
  <2>1. /\ owner[c] = "seek" /\ Keeps /\ UNCHANGED registryVars
        /\ \/ Goes(c, "try") /\ UNCHANGED <<draft, holder>>
           \/ /\ first # 0
              /\ Goes(c, "replying")
              /\ Drafts(c, Existing(first, Advanced(learned[c])))
              /\ UNCHANGED holder
           \/ \E why \in Ends : Rejects(c, why)
    BY <1>14, <1>5, Zenon DEF Seek
  <2>2. CASE Goes(c, "try") /\ UNCHANGED <<draft, holder>>
    BY <1>14, <2>1, <2>2, <1>1
       DEF Keeps, Goes, CertaintyInv, ToldInv, GuardInv, ChannelInv, MarkInv,
           LauncherInv, CertaintyIsTrue, EstablishedDraft, EarlyPCs, WaitPCs, GuardPCs,
           SessionPCs, Launchers, Runs, launcherVars, channelVars, ownerVars,
           registryVars
  <2>3. CASE /\ first # 0
             /\ Goes(c, "replying")
             /\ Drafts(c, Existing(first, Advanced(learned[c])))
             /\ UNCHANGED holder
    <3> DEFINE answer == Existing(first, Advanced(learned[c]))
    <3>1. mark[c] \in Nat
      BY <1>14, <2>1, <1>1 DEF CertaintyInv, ToldInv, MarkInv
    <3>2. first \in Creations
      BY <2>3, <3>1, FirstAfterIsFirst DEF CertaintyInv, TypeOK
    <3>3. Advanced(learned[c]) \in Histories
      BY <1>14, <1>7 DEF Advanced, Now, Histories, CertaintyInv, TypeOK
    <3>4. answer # None /\ answer.kind = "existing"
      BY <3>2, <3>3, <1>2, <1>6
    <3>5. Goes(c, "replying") /\ Drafts(c, answer) /\ UNCHANGED holder
      BY <2>3
    <3> HIDE DEF answer
    <3>6. QED
      BY <1>14, <2>1, <3>4, <3>5, <1>1
         DEF Keeps, Goes, Drafts, CertaintyInv, ToldInv, GuardInv, ChannelInv, MarkInv,
             LauncherInv, CertaintyIsTrue, EstablishedDraft, EarlyPCs, WaitPCs,
             GuardPCs, SessionPCs, Launchers, Runs, launcherVars, channelVars,
             ownerVars, registryVars
  <2>4. CASE \E why \in Ends : Rejects(c, why)
    BY <1>14, <2>1, <2>4, <1>4 DEF WaitPCs, Launchers, Runs
  <2>5. QED
    BY <2>1, <2>2, <2>3, <2>4
<1>15. ASSUME NEW c \in Ensures, Try(c) PROVE ToldInv'
  BY <1>15, <1>1, <1>2
     DEF Try, Keeps, Goes, CertaintyInv, ToldInv, GuardInv, ChannelInv, MarkInv,
         LauncherInv, CertaintyIsTrue, EstablishedDraft, EarlyPCs, WaitPCs, GuardPCs,
         SessionPCs, Launchers, Runs, launcherVars, channelVars, ownerVars, registryVars
<1>16. ASSUME NEW c \in Ensures, Recheck(c) PROVE ToldInv'
  <2>1. \/ Goes(c, "open") /\ UNCHANGED <<draft, holder>>
        \/ \E why \in Ends : Rejects(c, why)
    BY <1>16, <1>5, Zenon DEF Recheck
  <2>2. CASE Goes(c, "open") /\ UNCHANGED <<draft, holder>>
    <3>1. owner[c] = "guarded" /\ Keeps /\ UNCHANGED registryVars
      BY <1>16 DEF Recheck
    <3>2. QED
      BY <1>16, <2>2, <3>1, <1>1
         DEF Keeps, Goes, CertaintyInv, ToldInv, GuardInv, ChannelInv, MarkInv,
             LauncherInv, CertaintyIsTrue, EstablishedDraft, EarlyPCs, WaitPCs,
             GuardPCs, SessionPCs, Launchers, Runs, launcherVars, channelVars,
             ownerVars, registryVars
  <2>3. CASE \E why \in Ends : Rejects(c, why)
    BY <1>16, <2>3, <1>4 DEF Recheck, GuardPCs, Launchers, Runs
  <2>4. QED
    BY <2>1, <2>2, <2>3
<1>17. ASSUME NEW d \in Daemons, DaemonInterrupt(d) PROVE ToldInv'
  BY <1>17, <1>1, <1>2
     DEF DaemonInterrupt, CertaintyInv, ToldInv, GuardInv, ChannelInv, MarkInv,
         LauncherInv, CertaintyIsTrue, EstablishedDraft, EarlyPCs, WaitPCs, GuardPCs,
         SessionPCs, Launchers, Runs, launcherVars, channelVars, ownerVars, registryVars
<1>18. ASSUME NEW d \in Daemons, DaemonReceive(d) PROVE ToldInv'
  BY <1>18, <1>1, <1>2
     DEF DaemonReceive, Concludes, Listening, CertaintyInv, ToldInv, GuardInv,
         ChannelInv, MarkInv, LauncherInv, CertaintyIsTrue, EstablishedDraft, EarlyPCs,
         WaitPCs, GuardPCs, SessionPCs, Launchers, Runs, launcherVars, channelVars,
         ownerVars, registryVars
<1>19. ASSUME NEW d \in Daemons, DaemonGivesUp(d) PROVE ToldInv'
  BY <1>19, <1>1, <1>2
     DEF DaemonGivesUp, Concludes, CertaintyInv, ToldInv, GuardInv, ChannelInv, MarkInv,
         LauncherInv, CertaintyIsTrue, EstablishedDraft, EarlyPCs, WaitPCs, GuardPCs,
         SessionPCs, Launchers, Runs, launcherVars, channelVars, ownerVars, registryVars
<1>20. ASSUME NEW l \in Launchers, Spawn(l) PROVE ToldInv'
  BY <1>20, <1>1, <1>2
     DEF Spawn, CertaintyInv, ToldInv, GuardInv, ChannelInv, MarkInv, LauncherInv,
         CertaintyIsTrue, EstablishedDraft, EarlyPCs, WaitPCs, GuardPCs, SessionPCs,
         Launchers, Runs, launcherVars, channelVars, ownerVars, registryVars
<1>21. ASSUME NEW l \in Launchers, SpawnFails(l) PROVE ToldInv'
  BY <1>21, <1>1, <1>2
     DEF SpawnFails, Concludes, CertaintyInv, ToldInv, GuardInv, ChannelInv, MarkInv,
         LauncherInv, CertaintyIsTrue, EstablishedDraft, EarlyPCs, WaitPCs, GuardPCs,
         SessionPCs, Launchers, Runs, launcherVars, channelVars, ownerVars, registryVars
<1>22. ASSUME NEW l \in Launchers, Send(l) PROVE ToldInv'
  BY <1>22, <1>1, <1>2
     DEF Send, CertaintyInv, ToldInv, GuardInv, ChannelInv, MarkInv, LauncherInv,
         CertaintyIsTrue, EstablishedDraft, EarlyPCs, WaitPCs, GuardPCs, SessionPCs,
         Launchers, Runs, launcherVars, channelVars, ownerVars, registryVars
<1>23. ASSUME NEW l \in Launchers, Incomplete(l) PROVE ToldInv'
  BY <1>23, <1>1, <1>2
     DEF Incomplete, Concludes, CertaintyInv, ToldInv, GuardInv, ChannelInv, MarkInv,
         LauncherInv, CertaintyIsTrue, EstablishedDraft, EarlyPCs, WaitPCs, GuardPCs,
         SessionPCs, Launchers, Runs, launcherVars, channelVars, ownerVars, registryVars
<1>24. ASSUME NEW l \in Launchers, Eof(l) PROVE ToldInv'
  BY <1>24, <1>1, <1>2
     DEF Eof, Concludes, CertaintyInv, ToldInv, GuardInv, ChannelInv, MarkInv,
         LauncherInv, CertaintyIsTrue, EstablishedDraft, EarlyPCs, WaitPCs, GuardPCs,
         SessionPCs, Launchers, Runs, launcherVars, channelVars, ownerVars, registryVars
<1>25. ASSUME NEW l \in Launchers, LauncherDies(l) PROVE ToldInv'
  BY <1>25, <1>1, <1>2
     DEF LauncherDies, CertaintyInv, ToldInv, GuardInv, ChannelInv, MarkInv,
         LauncherInv, CertaintyIsTrue, EstablishedDraft, EarlyPCs, WaitPCs, GuardPCs,
         SessionPCs, Launchers, Runs, launcherVars, channelVars, ownerVars, registryVars
<1>26. ASSUME NEW l \in Launchers, ReceiveRequest(l) PROVE ToldInv'
  BY <1>26, <1>1, <1>2
     DEF ReceiveRequest, Keeps, Goes, CertaintyInv, ToldInv, GuardInv, ChannelInv,
         MarkInv, LauncherInv, CertaintyIsTrue, EstablishedDraft, EarlyPCs, WaitPCs,
         GuardPCs, SessionPCs, Launchers, Runs, launcherVars, channelVars, ownerVars,
         registryVars
<1>27. ASSUME NEW l \in Launchers, ReceiveFails(l) PROVE ToldInv'
  BY <1>27, <1>1, <1>2
     DEF ReceiveFails, Keeps, Goes, CertaintyInv, ToldInv, GuardInv, ChannelInv,
         MarkInv, LauncherInv, CertaintyIsTrue, EstablishedDraft, EarlyPCs, WaitPCs,
         GuardPCs, SessionPCs, Launchers, Runs, launcherVars, channelVars, ownerVars,
         registryVars
<1>28. ASSUME NEW l \in Launchers, Abandoned(l) PROVE ToldInv'
  <2>1. l \in Runs /\ owner[l] \in (WaitPCs \ {"receive"}) \cup GuardPCs
    BY <1>28 DEF Abandoned, WaitPCs, GuardPCs, Runs
  <2>2. QED
    BY <1>28, <2>1, <1>4, <1>5 DEF Abandoned
<1>29. ASSUME NEW l \in Launchers, WriteReply(l) PROVE ToldInv'
  BY <1>29, <1>1, <1>2
     DEF WriteReply, Goes, AfterReply, CertaintyInv, ToldInv, GuardInv, ChannelInv,
         MarkInv, LauncherInv, CertaintyIsTrue, EstablishedDraft, EarlyPCs, WaitPCs,
         GuardPCs, SessionPCs, Launchers, Runs, launcherVars, channelVars, ownerVars,
         registryVars
<1>30. ASSUME NEW l \in Launchers, LoseReply(l) PROVE ToldInv'
  BY <1>30, <1>1, <1>2
     DEF LoseReply, Keeps, Goes, AfterReply, CertaintyInv, ToldInv, GuardInv,
         ChannelInv, MarkInv, LauncherInv, CertaintyIsTrue, EstablishedDraft, EarlyPCs,
         WaitPCs, GuardPCs, SessionPCs, Launchers, Runs, launcherVars, channelVars,
         ownerVars, registryVars
<1>31. ASSUME NEW r \in Daemons \cup Foregrounds, Acquire(r) PROVE ToldInv'
  <2>1. CASE holder = None
    BY <1>31, <2>1, <1>1
       DEF Acquire, Keeps, Goes, CertaintyInv, ToldInv, GuardInv, ChannelInv, MarkInv,
           LauncherInv, CertaintyIsTrue, EstablishedDraft, EarlyPCs, WaitPCs, GuardPCs,
           SessionPCs, Launchers, Runs, launcherVars, channelVars, ownerVars,
           registryVars
  <2>2. CASE holder # None
    BY <1>31, <2>2, <1>4, <1>5 DEF Acquire, WaitPCs, Launchers, Runs
  <2>3. QED
    BY <2>1, <2>2
<1>32. ASSUME NEW r \in Runs, Open(r) PROVE ToldInv'
  BY <1>32, <1>1, <1>2
     DEF Open, Keeps, Goes, CertaintyInv, ToldInv, GuardInv, ChannelInv, MarkInv,
         LauncherInv, CertaintyIsTrue, EstablishedDraft, EarlyPCs, WaitPCs, GuardPCs,
         SessionPCs, Launchers, Runs, launcherVars, channelVars, ownerVars, registryVars
<1>33. ASSUME NEW r \in Runs, InitializeSchema(r) PROVE ToldInv'
  BY <1>33, <1>1, <1>2
     DEF InitializeSchema, Keeps, Goes, CertaintyInv, ToldInv, GuardInv, ChannelInv,
         MarkInv, LauncherInv, CertaintyIsTrue, EstablishedDraft, EarlyPCs, WaitPCs,
         GuardPCs, SessionPCs, Launchers, Runs, launcherVars, channelVars, ownerVars,
         registryVars
<1>34. ASSUME NEW r \in Runs, Recover(r) PROVE ToldInv'
  <2>1. /\ owner[r] = "recover" /\ owner' = [owner EXCEPT ![r] = "prepare"]
        /\ UNCHANGED <<launcher, told, sent, draft, reply, holder, madeIn, mark, file>>
    BY <1>34, Zenon DEF Recover, Goes, Keeps, launcherVars, channelVars, Wanted
  <2>2. QED
    BY <1>1, <2>1
       DEF CertaintyInv, ToldInv, GuardInv, ChannelInv, MarkInv, LauncherInv,
           CertaintyIsTrue, EstablishedDraft, EarlyPCs, WaitPCs, GuardPCs, SessionPCs,
           Launchers, Runs
<1>35. ASSUME NEW r \in Runs, Prepare(r) PROVE ToldInv'
  BY <1>35, <1>1, <1>2
     DEF Prepare, Keeps, Goes, CertaintyInv, ToldInv, GuardInv, ChannelInv, MarkInv,
         LauncherInv, CertaintyIsTrue, EstablishedDraft, EarlyPCs, WaitPCs, GuardPCs,
         SessionPCs, Launchers, Runs, launcherVars, channelVars, ownerVars, registryVars
<1>36. ASSUME NEW r \in Runs, Check(r) PROVE ToldInv'
  BY <1>36, <1>1, <1>2
     DEF Check, Keeps, Goes, CertaintyInv, ToldInv, GuardInv, ChannelInv, MarkInv,
         LauncherInv, CertaintyIsTrue, EstablishedDraft, EarlyPCs, WaitPCs, GuardPCs,
         SessionPCs, Launchers, Runs, launcherVars, channelVars, ownerVars, registryVars
<1>37. ASSUME NEW r \in Runs, Publish(r) PROVE ToldInv'
  <2>1. CASE r \in Ensures => IsFirstPublication(r)
    <3> DEFINE answer == Established(r, IF r \in Ensures THEN learned'[r] ELSE Unseen)
    <3>1. /\ owner[r] = "publish" /\ Keeps /\ UNCHANGED <<holder, file, files, schema, finished>>
          /\ madeIn' = [madeIn EXCEPT ![r] = file]
          /\ Goes(r, IF r \in Launchers THEN "replying" ELSE "session")
          /\ Drafts(r, answer)
      BY <1>37, <2>1, Zenon DEF Publish
    <3>2. (IF r \in Ensures THEN learned'[r] ELSE Unseen) \in Histories
      BY TypeStep DEF CertaintyInv, TypeOK, Unseen, Histories
    <3>3. answer # None /\ answer.kind = "established"
      BY <1>37, <3>2, <1>2, <1>6
    <3> HIDE DEF answer
    <3>4. QED
      BY <1>37, <3>1, <3>3, <1>1
         DEF Keeps, Goes, Drafts, CertaintyInv, ToldInv, GuardInv, ChannelInv, MarkInv,
             LauncherInv, CertaintyIsTrue, EstablishedDraft, EarlyPCs, WaitPCs,
             GuardPCs, SessionPCs, Launchers, Runs, launcherVars, channelVars,
             ownerVars, registryVars
  <2>2. CASE ~ (r \in Ensures => IsFirstPublication(r))
    <3>1. /\ Rejects(r, "corrupt") /\ Keeps /\ owner[r] = "publish"
          /\ UNCHANGED registryVars
      BY <1>37, <2>2, Zenon DEF Publish, registryVars
    <3>2. QED
      BY <1>37, <3>1, <1>4, <1>5 DEF GuardPCs
  <2>3. QED
    BY <2>1, <2>2
<1>38. ASSUME NEW r \in Runs, PrecommitFails(r) PROVE ToldInv'
  BY <1>38, <1>4, <1>5 DEF PrecommitFails
<1>39. ASSUME NEW r \in Runs, Settle(r) PROVE ToldInv'
  BY <1>39, <1>1, <1>2
     DEF Settle, Keeps, Goes, CertaintyInv, ToldInv, GuardInv, ChannelInv, MarkInv,
         LauncherInv, CertaintyIsTrue, EstablishedDraft, EarlyPCs, WaitPCs, GuardPCs,
         SessionPCs, Launchers, Runs, launcherVars, channelVars, ownerVars, registryVars
<1>40. ASSUME NEW r \in Runs, Finalize(r) PROVE ToldInv'
  BY <1>40, <1>1, <1>2
     DEF Finalize, Keeps, Goes, CertaintyInv, ToldInv, GuardInv, ChannelInv, MarkInv,
         LauncherInv, CertaintyIsTrue, EstablishedDraft, EarlyPCs, WaitPCs, GuardPCs,
         SessionPCs, Launchers, Runs, launcherVars, channelVars, ownerVars, registryVars
<1>41. ASSUME NEW r \in Runs, Close(r) PROVE ToldInv'
  BY <1>41, <1>1, <1>2
     DEF Close, Keeps, Goes, CertaintyInv, ToldInv, GuardInv, ChannelInv, MarkInv,
         LauncherInv, CertaintyIsTrue, EstablishedDraft, EarlyPCs, WaitPCs, GuardPCs,
         SessionPCs, Launchers, Runs, launcherVars, channelVars, ownerVars, registryVars
<1>42. ASSUME NEW r \in Runs, Exit(r) PROVE ToldInv'
  BY <1>42, <1>1, <1>2
     DEF Exit, Keeps, Goes, CertaintyInv, ToldInv, GuardInv, ChannelInv, MarkInv,
         LauncherInv, CertaintyIsTrue, EstablishedDraft, EarlyPCs, WaitPCs, GuardPCs,
         SessionPCs, Launchers, Runs, launcherVars, channelVars, ownerVars, registryVars
<1>43. ASSUME NEW r \in Runs, Crash(r) PROVE ToldInv'
  BY <1>43, <1>1, <1>2
     DEF Crash, Keeps, Goes, CertaintyInv, ToldInv, GuardInv, ChannelInv, MarkInv,
         LauncherInv, CertaintyIsTrue, EstablishedDraft, EarlyPCs, WaitPCs, GuardPCs,
         SessionPCs, Launchers, Runs, launcherVars, channelVars, ownerVars, registryVars
<1>44. CASE RemoveRegistry
  BY <1>44, <1>1
     DEF RemoveRegistry, CertaintyInv, ToldInv, GuardInv, ChannelInv, MarkInv,
         LauncherInv, CertaintyIsTrue, EstablishedDraft, EarlyPCs, WaitPCs, GuardPCs,
         SessionPCs, Launchers, Runs, launcherVars, channelVars, ownerVars, registryVars
<1>45. CASE UNCHANGED vars
  BY <1>45, <1>1
     DEF vars, CertaintyInv, ToldInv, GuardInv, ChannelInv, MarkInv, LauncherInv,
         CertaintyIsTrue, EstablishedDraft, EarlyPCs, WaitPCs, GuardPCs, SessionPCs,
         Launchers, Runs, launcherVars, channelVars, ownerVars, registryVars
<1>46. QED
  BY <1>8, <1>9, <1>10, <1>11, <1>12, <1>13, <1>14, <1>15, <1>16, <1>17, <1>18, <1>19,
     <1>20, <1>21, <1>22, <1>23, <1>24, <1>25, <1>26, <1>27, <1>28, <1>29, <1>30, <1>31,
     <1>32, <1>33, <1>34, <1>35, <1>36, <1>37, <1>38, <1>39, <1>40, <1>41, <1>42, <1>43,
     <1>44, <1>45
     DEF Next, EnsureStep, SharedStep, DaemonStep, LauncherStep, DetachedStep, OwnerStep

\* A program that has not started has told nobody anything.
LEMMA InitialCertainty == Init => CertaintyInv
<1> SUFFICES ASSUME Init PROVE CertaintyInv
  OBVIOUS
<1> USE EnsureAssumption, NoneAssumption DEF Init
<1>1. PICK cast \in Casts :
        /\ launcher = [l \in Launchers |-> IF l \in cast THEN "idle" ELSE "ended"]
        /\ owner = [r \in Runs |-> IF r \in cast \cap Foregrounds THEN "acquire" ELSE "none"]
  OBVIOUS
<1>2. Launchers \subseteq Runs
  BY DEF Runs
<1>3. TypeOK
  <2>1. log \in Seq(Events)
    BY EmptySeq
  <2>2. launcher \in [Launchers -> LauncherPCs] /\ owner \in [Runs -> OwnerPCs]
    BY <1>1 DEF LauncherPCs, OwnerPCs, WaitPCs
  <2>3. Unseen \in Histories /\ "none" \in Ends /\ "none" \in Certainties
    BY DEF Unseen, Histories, Ends, Certainties
  <2>4. /\ mark \in [Ensures -> Nat \cup {None}] /\ hist \in [Ensures -> Histories]
        /\ candidates \in [Ensures -> SUBSET Runs] /\ interrupted \subseteq Daemons
        /\ pinned \in [Ensures -> Runs \cup {None}] /\ said \in [Launchers -> Ends]
        /\ told \in [Launchers -> Certainties] /\ learned \in [Ensures -> Histories]
    BY <2>3
  <2>5. /\ draft \in [Launchers -> Replies \cup {None}]
        /\ sent \in [Launchers -> {"none", "partial", "full"}] /\ left \subseteq Launchers
        /\ reply \in [Launchers -> Replies \cup {None}] /\ holder \in Runs \cup {None}
    OBVIOUS
  <2>6. /\ file \in 0..MaxFiles /\ files \in 0..MaxFiles
        /\ finished \subseteq Runs /\ canceled \subseteq Runs
    OBVIOUS
  <2>7. /\ madeIn \in [Runs -> 0..MaxFiles]
        /\ seen \in [Ensures -> [files : SUBSET Files, events : Nat]]
    OBVIOUS
  <2>8. schema \in BOOLEAN
    OBVIOUS
  <2>9. QED
    BY <2>1, <2>2, <2>4, <2>5, <2>6, <2>7, <2>8 DEF TypeOK
<1>4. \A l \in Launchers : owner[l] = "none" /\ launcher[l] \in {"idle", "ended"}
  BY <1>1, <1>2
<1>5. \A r \in Runs : owner[r] \in {"none", "acquire"}
  BY <1>1
<1>6. FilesInv /\ GuardInv /\ ChannelInv
  BY <1>2, <1>4, <1>5
     DEF FilesInv, GuardInv, ChannelInv, GuardPCs, SessionPCs, EarlyPCs, WaitPCs
<1>7. MarkInv /\ LauncherInv /\ CertaintyIsTrue
  BY <1>2, <1>4 DEF MarkInv, LauncherInv, CertaintyIsTrue, Launchers
<1>8. QED
  BY <1>3, <1>6, <1>7 DEF CertaintyInv, ToldInv

\* The inductive invariant holds in every behaviour.
THEOREM EnsureInvariance == Spec => []CertaintyInv
  BY InitialCertainty, CertaintyStep, PTL DEF Spec

\* What a launcher is told of the session it asked for is true.
THEOREM CertaintyHolds == Spec => []CertaintyIsTrue
<1>1. CertaintyInv => CertaintyIsTrue
  BY DEF CertaintyInv, ToldInv
<1>2. QED
  BY <1>1, EnsureInvariance, PTL

-----------------------------------------------------------------------------
(* The registry file behind an answer.                                     *)

\* A history was read from file f and from no other.
ReadFrom(h, f) == h.phase # "unseen" /\ h.file = f

\* What was read is of the file of the history h and not ahead of it.
Behind(s, h) ==
  /\ \A f \in s.files : ReadFrom(h, f.inode)
  /\ IF h.phase = "complete" THEN s.events <= h.greatest ELSE s.events = 0

\* An answer names a session of the file of its history, which is not behind
\* anything that was read for it.
OneFile(c, answer) ==
  /\ madeIn[answer.run] # 0
  /\ ReadFrom(answer.hist, madeIn[answer.run])
  /\ Behind(seen[c], answer.hist)

\* A run is published in one file, before which it is nowhere, and the events
\* of a file go with it.
RegistryInv ==
  /\ \A r \in Runs : owner[r] \in EarlyPCs => madeIn[r] = 0
  /\ \A i \in Creations : madeIn[log[i].run] = file
  /\ file = 0 => log = <<>>

\* What an ensure and its owner have read so far is the file of their history.
ReadInv ==
  \A c \in Ensures :
    /\ launcher[c] = "idle" => hist[c] = Unseen /\ mark[c] = None
    /\ owner[c] \in {"none", "receive", "resume"} => Behind(seen[c], hist[c])
    /\ owner[c] \in {"seek", "try"} \cup GuardPCs => Behind(seen[c], learned[c])

\* Where the run an ensure may name was published.
AnswerInv ==
  \A c \in Ensures :
    /\ candidates[c] # {} => launcher[c] = "sampling"
    /\ launcher[c] = "selecting" => reply[c].kind # "rejected"
    /\ \A r \in candidates[c] :
         madeIn[r] # 0 /\ \A f \in seen[c].files : f.inode = madeIn[r]
    /\ owner[c] = "replying" /\ draft[c].kind # "rejected" => OneFile(c, draft[c])
    /\ reply[c] # None /\ reply[c].kind # "rejected" /\ launcher[c] # "ended" =>
         OneFile(c, reply[c])
    /\ pinned[c] # None =>
         /\ launcher[c] = "ended"
         /\ owner[c] = "none" \/ reply[c] # None
         /\ madeIn[pinned[c]] # 0
         /\ \A f \in seen[c].files : f.inode = madeIn[pinned[c]]

LineageInv == RegistryInv /\ ReadInv /\ AnswerInv

\* A run appears in the log of the file it was published in.
LEMMA RegistryStep == CertaintyInv /\ RegistryInv /\ [Next]_vars => RegistryInv'
<1> SUFFICES ASSUME CertaintyInv, RegistryInv, [Next]_vars
             PROVE  RegistryInv'
  OBVIOUS
<1>1. /\ launcher \in [Launchers -> LauncherPCs]
      /\ mark \in [Ensures -> Nat \cup {None}]
      /\ hist \in [Ensures -> Histories]
      /\ candidates \in [Ensures -> SUBSET Runs]
      /\ pinned \in [Ensures -> Runs \cup {None}]
      /\ owner \in [Runs -> OwnerPCs]
      /\ learned \in [Ensures -> Histories]
      /\ draft \in [Launchers -> Replies \cup {None}]
      /\ reply \in [Launchers -> Replies \cup {None}]
      /\ madeIn \in [Runs -> 0..MaxFiles]
      /\ seen \in [Ensures -> [files : SUBSET Files, events : Nat]]
      /\ file \in 0..MaxFiles /\ log \in Seq(Events) /\ Len(log) \in Nat
      /\ Ensures \subseteq Launchers /\ Daemons \subseteq Launchers
      /\ Launchers \subseteq Runs /\ Foregrounds \subseteq Runs
      /\ None \notin Runs /\ None \notin Nat /\ None \notin Replies /\ MaxFiles \in Nat
  BY LenProperties, EnsureAssumption, NoneAssumption
     DEF CertaintyInv, TypeOK, Launchers, Runs
<1>2. UNCHANGED log => Creations' = Creations
  BY DEF Creations
<1>3. \A i \in Creations : log[i].run \in Runs
  <2>1. ASSUME NEW i \in Creations PROVE log[i] \in Events
    BY <1>1, LenProperties, ElementOfSeq DEF Creations
  <2>2. QED
    BY <2>1 DEF Events
<1>4. GuardInv /\ LauncherInv
  BY DEF CertaintyInv, ToldInv
<1>5. ASSUME NEW c \in Ensures, EnrollRead(c) PROVE RegistryInv'
  BY <1>5, <1>1, <1>2
     DEF EnrollRead, RegistryInv, EarlyPCs, WaitPCs, GuardPCs, SessionPCs, launcherVars,
         channelVars, ownerVars, registryVars
<1>6. ASSUME NEW c \in Ensures, EnrollSample(c) PROVE RegistryInv'
  BY <1>6, <1>1, <1>2
     DEF EnrollSample, RegistryInv, EarlyPCs, WaitPCs, GuardPCs, SessionPCs,
         launcherVars, channelVars, ownerVars, registryVars
<1>7. ASSUME NEW c \in Ensures, EnsureReceive(c) PROVE RegistryInv'
  BY <1>7, <1>1, <1>2
     DEF EnsureReceive, RegistryInv, EarlyPCs, WaitPCs, GuardPCs, SessionPCs,
         launcherVars, channelVars, ownerVars, registryVars
<1>8. ASSUME NEW c \in Ensures, SelectReply(c) PROVE RegistryInv'
  BY <1>8, <1>1, <1>2
     DEF SelectReply, RegistryInv, EarlyPCs, WaitPCs, GuardPCs, SessionPCs,
         launcherVars, channelVars, ownerVars, registryVars
<1>9. ASSUME NEW c \in Ensures, EnsureExpires(c) PROVE RegistryInv'
  BY <1>9, <1>1, <1>2
     DEF EnsureExpires, RegistryInv, EarlyPCs, WaitPCs, GuardPCs, SessionPCs,
         launcherVars, channelVars, ownerVars, registryVars
<1>10. ASSUME NEW c \in Ensures, Resume(c) PROVE RegistryInv'
  BY <1>10, <1>1, <1>2
     DEF Resume, Keeps, Goes, Rejects, RegistryInv, EarlyPCs, WaitPCs, GuardPCs,
         SessionPCs, launcherVars, channelVars, ownerVars, registryVars
<1>11. ASSUME NEW c \in Ensures, Seek(c) PROVE RegistryInv'
  BY <1>11, <1>1, <1>2
     DEF Seek, Keeps, Goes, Rejects, RegistryInv, EarlyPCs, WaitPCs, GuardPCs,
         SessionPCs, launcherVars, channelVars, ownerVars, registryVars
<1>12. ASSUME NEW c \in Ensures, Try(c) PROVE RegistryInv'
  BY <1>12, <1>1, <1>2
     DEF Try, Keeps, Goes, RegistryInv, EarlyPCs, WaitPCs, GuardPCs, SessionPCs,
         launcherVars, channelVars, ownerVars, registryVars
<1>13. ASSUME NEW c \in Ensures, Recheck(c) PROVE RegistryInv'
  BY <1>13, <1>1, <1>2
     DEF Recheck, Keeps, Goes, Rejects, RegistryInv, EarlyPCs, WaitPCs, GuardPCs,
         SessionPCs, launcherVars, channelVars, ownerVars, registryVars
<1>14. ASSUME NEW d \in Daemons, DaemonInterrupt(d) PROVE RegistryInv'
  BY <1>14, <1>1, <1>2
     DEF DaemonInterrupt, RegistryInv, EarlyPCs, WaitPCs, GuardPCs, SessionPCs,
         launcherVars, channelVars, ownerVars, registryVars
<1>15. ASSUME NEW d \in Daemons, DaemonReceive(d) PROVE RegistryInv'
  BY <1>15, <1>1, <1>2
     DEF DaemonReceive, RegistryInv, EarlyPCs, WaitPCs, GuardPCs, SessionPCs,
         launcherVars, channelVars, ownerVars, registryVars
<1>16. ASSUME NEW d \in Daemons, DaemonGivesUp(d) PROVE RegistryInv'
  BY <1>16, <1>1, <1>2
     DEF DaemonGivesUp, RegistryInv, EarlyPCs, WaitPCs, GuardPCs, SessionPCs,
         launcherVars, channelVars, ownerVars, registryVars
<1>17. ASSUME NEW l \in Launchers, Spawn(l) PROVE RegistryInv'
  BY <1>17, <1>1, <1>2, <1>4
     DEF Spawn, LauncherInv, RegistryInv, EarlyPCs, WaitPCs, GuardPCs, SessionPCs,
         launcherVars, channelVars, ownerVars, registryVars
<1>18. ASSUME NEW l \in Launchers, SpawnFails(l) PROVE RegistryInv'
  BY <1>18, <1>1, <1>2
     DEF SpawnFails, RegistryInv, EarlyPCs, WaitPCs, GuardPCs, SessionPCs, launcherVars,
         channelVars, ownerVars, registryVars
<1>19. ASSUME NEW l \in Launchers, Send(l) PROVE RegistryInv'
  BY <1>19, <1>1, <1>2
     DEF Send, RegistryInv, EarlyPCs, WaitPCs, GuardPCs, SessionPCs, launcherVars,
         channelVars, ownerVars, registryVars
<1>20. ASSUME NEW l \in Launchers, Incomplete(l) PROVE RegistryInv'
  BY <1>20, <1>1, <1>2
     DEF Incomplete, RegistryInv, EarlyPCs, WaitPCs, GuardPCs, SessionPCs, launcherVars,
         channelVars, ownerVars, registryVars
<1>21. ASSUME NEW l \in Launchers, Eof(l) PROVE RegistryInv'
  BY <1>21, <1>1, <1>2
     DEF Eof, RegistryInv, EarlyPCs, WaitPCs, GuardPCs, SessionPCs, launcherVars,
         channelVars, ownerVars, registryVars
<1>22. ASSUME NEW l \in Launchers, LauncherDies(l) PROVE RegistryInv'
  BY <1>22, <1>1, <1>2
     DEF LauncherDies, RegistryInv, EarlyPCs, WaitPCs, GuardPCs, SessionPCs,
         launcherVars, channelVars, ownerVars, registryVars
<1>23. ASSUME NEW l \in Launchers, ReceiveRequest(l) PROVE RegistryInv'
  BY <1>23, <1>1, <1>2
     DEF ReceiveRequest, Keeps, Goes, RegistryInv, EarlyPCs, WaitPCs, GuardPCs,
         SessionPCs, launcherVars, channelVars, ownerVars, registryVars
<1>24. ASSUME NEW l \in Launchers, ReceiveFails(l) PROVE RegistryInv'
  BY <1>24, <1>1, <1>2
     DEF ReceiveFails, Keeps, Goes, RegistryInv, EarlyPCs, WaitPCs, GuardPCs,
         SessionPCs, launcherVars, channelVars, ownerVars, registryVars
<1>25. ASSUME NEW l \in Launchers, Abandoned(l) PROVE RegistryInv'
  BY <1>25, <1>1, <1>2
     DEF Abandoned, Keeps, Rejects, Goes, RegistryInv, EarlyPCs, WaitPCs, GuardPCs,
         SessionPCs, launcherVars, channelVars, ownerVars, registryVars
<1>26. ASSUME NEW l \in Launchers, WriteReply(l) PROVE RegistryInv'
  BY <1>26, <1>1, <1>2
     DEF WriteReply, Goes, AfterReply, RegistryInv, EarlyPCs, WaitPCs, GuardPCs,
         SessionPCs, launcherVars, channelVars, ownerVars, registryVars
<1>27. ASSUME NEW l \in Launchers, LoseReply(l) PROVE RegistryInv'
  BY <1>27, <1>1, <1>2
     DEF LoseReply, Keeps, Goes, AfterReply, RegistryInv, EarlyPCs, WaitPCs, GuardPCs,
         SessionPCs, launcherVars, channelVars, ownerVars, registryVars
<1>28. ASSUME NEW r \in Daemons \cup Foregrounds, Acquire(r) PROVE RegistryInv'
  BY <1>28, <1>1, <1>2
     DEF Acquire, Keeps, Goes, Rejects, RegistryInv, EarlyPCs, WaitPCs, GuardPCs,
         SessionPCs, launcherVars, channelVars, ownerVars, registryVars
<1>29. ASSUME NEW r \in Runs, Open(r) PROVE RegistryInv'
  <2>1. log = <<>> \/ file' = file
    BY <1>29 DEF Open, RegistryInv
  <2>2. log = <<>> => Creations = {}
    BY DEF Creations
  <2>3. QED
    BY <1>29, <1>1, <1>2, <2>1, <2>2
       DEF Open, Goes, RegistryInv, EarlyPCs, WaitPCs, GuardPCs, SessionPCs
<1>30. ASSUME NEW r \in Runs, InitializeSchema(r) PROVE RegistryInv'
  BY <1>30, <1>1, <1>2
     DEF InitializeSchema, Keeps, Goes, RegistryInv, EarlyPCs, WaitPCs, GuardPCs,
         SessionPCs, launcherVars, channelVars, ownerVars, registryVars
<1>31. ASSUME NEW r \in Runs, Recover(r) PROVE RegistryInv'
  <2>1. /\ owner[r] = "recover" /\ Goes(r, "prepare") /\ file # 0
        /\ UNCHANGED <<file, madeIn>>
    BY <1>31, <1>4 DEF Recover, GuardInv, GuardPCs
  <2>2. Creations' = Creations /\ \A i \in Creations : log'[i] = log[i]
    BY <1>31, <1>1, RecoverySettles, SettlesOnly
  <2>3. QED
    BY <1>1, <2>1, <2>2 DEF Goes, RegistryInv, EarlyPCs, WaitPCs, GuardPCs, SessionPCs
<1>32. ASSUME NEW r \in Runs, Prepare(r) PROVE RegistryInv'
  BY <1>32, <1>1, <1>2
     DEF Prepare, Keeps, Goes, RegistryInv, EarlyPCs, WaitPCs, GuardPCs, SessionPCs,
         launcherVars, channelVars, ownerVars, registryVars
<1>33. ASSUME NEW r \in Runs, Check(r) PROVE RegistryInv'
  BY <1>33, <1>1, <1>2
     DEF Check, Keeps, Goes, RegistryInv, EarlyPCs, WaitPCs, GuardPCs, SessionPCs,
         launcherVars, channelVars, ownerVars, registryVars
<1>34. ASSUME NEW r \in Runs, Publish(r) PROVE RegistryInv'
  <2>1. CASE r \in Ensures => IsFirstPublication(r)
    <3>1. /\ owner[r] = "publish" /\ file # 0 /\ file' = file
          /\ madeIn' = [madeIn EXCEPT ![r] = file]
          /\ log' = Append(log, Event("created", r))
          /\ \E to \in {"replying", "session"} : Goes(r, to)
      <4>1. file # 0
        BY <1>34, <1>4 DEF Publish, GuardInv, GuardPCs
      <4>2. QED
        BY <1>34, <2>1, <4>1, Zenon DEF Publish
    <3>2. /\ Creations' = Creations \cup {Len(log) + 1} /\ log'[Len(log) + 1].run = r
          /\ \A i \in Creations : log'[i] = log[i]
      BY <1>34, <1>1, <3>1, PublishesOne
    <3>3. \A i \in Creations' : madeIn'[log'[i].run] = file
      <4>1. \A x \in Runs : madeIn'[x] = IF x = r THEN file ELSE madeIn[x]
        BY <1>1, <3>1
      <4>2. \A i \in Creations : madeIn'[log'[i].run] = file
        BY <1>3, <3>2, <4>1 DEF RegistryInv
      <4>3. QED
        BY <1>34, <3>2, <4>1, <4>2
    <3>4. \A x \in Runs : owner'[x] \in EarlyPCs => madeIn'[x] = 0
      BY <1>34, <1>1, <3>1 DEF Goes, RegistryInv, EarlyPCs, WaitPCs, GuardPCs, SessionPCs
    <3>5. QED
      BY <3>1, <3>3, <3>4 DEF RegistryInv
  <2>2. CASE ~ (r \in Ensures => IsFirstPublication(r))
    <3>1. Rejects(r, "corrupt") /\ UNCHANGED <<file, log, madeIn>>
      BY <1>34, <2>2, Zenon DEF Publish
    <3>2. QED
      BY <1>34, <1>1, <1>2, <3>1
         DEF Rejects, Goes, RegistryInv, EarlyPCs, WaitPCs, GuardPCs, SessionPCs
  <2>3. QED
    BY <2>1, <2>2
<1>35. ASSUME NEW r \in Runs, PrecommitFails(r) PROVE RegistryInv'
  BY <1>35, <1>1, <1>2
     DEF PrecommitFails, Keeps, Rejects, Goes, RegistryInv, EarlyPCs, WaitPCs, GuardPCs,
         SessionPCs, launcherVars, channelVars, ownerVars, registryVars
<1>36. ASSUME NEW r \in Runs, Settle(r) PROVE RegistryInv'
  <2>1. /\ owner[r] = "session" /\ Goes(r, "finalize") /\ file # 0
        /\ UNCHANGED <<file, madeIn>>
    BY <1>36, <1>4 DEF Settle, GuardInv, SessionPCs
  <2>2. Creations' = Creations /\ \A i \in Creations : log'[i] = log[i]
    BY <1>36, <1>1, SettlesOne, SettlesOnly DEF Settle
  <2>3. QED
    BY <1>1, <2>1, <2>2 DEF Goes, RegistryInv, EarlyPCs, WaitPCs, GuardPCs, SessionPCs
<1>37. ASSUME NEW r \in Runs, Finalize(r) PROVE RegistryInv'
  BY <1>37, <1>1, <1>2
     DEF Finalize, Keeps, Goes, RegistryInv, EarlyPCs, WaitPCs, GuardPCs, SessionPCs,
         launcherVars, channelVars, ownerVars, registryVars
<1>38. ASSUME NEW r \in Runs, Close(r) PROVE RegistryInv'
  BY <1>38, <1>1, <1>2
     DEF Close, Keeps, Goes, RegistryInv, EarlyPCs, WaitPCs, GuardPCs, SessionPCs,
         launcherVars, channelVars, ownerVars, registryVars
<1>39. ASSUME NEW r \in Runs, Exit(r) PROVE RegistryInv'
  BY <1>39, <1>1, <1>2
     DEF Exit, Keeps, Goes, RegistryInv, EarlyPCs, WaitPCs, GuardPCs, SessionPCs,
         launcherVars, channelVars, ownerVars, registryVars
<1>40. ASSUME NEW r \in Runs, Crash(r) PROVE RegistryInv'
  BY <1>40, <1>1, <1>2
     DEF Crash, Keeps, Goes, RegistryInv, EarlyPCs, WaitPCs, GuardPCs, SessionPCs,
         launcherVars, channelVars, ownerVars, registryVars
<1>41. CASE RemoveRegistry
  <2>1. log' = <<>> /\ madeIn' = madeIn /\ owner' = owner
    BY <1>41 DEF RemoveRegistry, ownerVars
  <2>2. Creations' = {}
    BY <2>1 DEF Creations
  <2>3. QED
    BY <2>1, <2>2 DEF RegistryInv
<1>42. CASE UNCHANGED vars
  BY <1>42, <1>1, <1>2
     DEF vars, RegistryInv, EarlyPCs, WaitPCs, GuardPCs, SessionPCs, launcherVars,
         channelVars, ownerVars, registryVars
<1>43. QED
  BY <1>5, <1>6, <1>7, <1>8, <1>9, <1>10, <1>11, <1>12, <1>13, <1>14, <1>15, <1>16,
     <1>17, <1>18, <1>19, <1>20, <1>21, <1>22, <1>23, <1>24, <1>25, <1>26, <1>27, <1>28,
     <1>29, <1>30, <1>31, <1>32, <1>33, <1>34, <1>35, <1>36, <1>37, <1>38, <1>39, <1>40,
     <1>41, <1>42
     DEF Next, EnsureStep, SharedStep, DaemonStep, LauncherStep, DetachedStep, OwnerStep

\* A read that continues the history h gives one which nothing read is ahead of.
LEMMA ReadAdvances ==
  ASSUME CertaintyInv, NEW c \in Ensures, Sees(c)
  PROVE  /\ \A x \in Ensures : x # c => seen'[x] = seen[x]
         /\ \A f \in seen'[c].files : f \in seen[c].files \/ (file # 0 /\ f.inode = file)
         /\ \A h \in Histories : Behind(seen[c], h) /\ Readable(h) =>
              /\ Behind(seen'[c], Advanced(h))
              /\ seen'[c].events <= Len(log)
<1>1. /\ seen \in [Ensures -> [files : SUBSET Files, events : Nat]]
      /\ file \in Nat /\ Len(log) \in Nat
  BY EnsureAssumption, LenProperties DEF CertaintyInv, TypeOK
<1>2. /\ seen[c].events \in Nat
      /\ seen'[c] =
           IF file = 0 THEN seen[c]
           ELSE [files  |-> seen[c].files \cup {[number |-> files, inode |-> file]},
                 events |-> IF seen[c].events < Now.greatest
                            THEN Now.greatest ELSE seen[c].events]
      /\ \A x \in Ensures : x # c => seen'[x] = seen[x]
  BY <1>1 DEF Sees
<1>3. /\ Now.file = file /\ Now.greatest \in Nat /\ Now.greatest <= Len(log)
      /\ Now.phase \in {"bootstrap", "complete"}
      /\ Now.phase = "bootstrap" => Now.greatest = 0
  BY <1>1 DEF Now
<1>4. ASSUME NEW f \in seen'[c].files
      PROVE  f \in seen[c].files \/ (file # 0 /\ f.inode = file)
  BY <1>2
<1>5. ASSUME NEW h \in Histories, Behind(seen[c], h), Readable(h)
      PROVE  Behind(seen'[c], Advanced(h)) /\ seen'[c].events <= Len(log)
  <2>1. h.greatest \in Nat /\ h.phase \in {"unseen", "bootstrap", "complete"}
    BY DEF Histories
  <2>2. CASE file = 0
    BY <1>1, <1>2, <1>5, <2>2 DEF Readable, Advanced, Behind
  <2>3. CASE file # 0
    <3>1. Continues(h, Now)
      BY <1>5, <2>3 DEF Readable
    <3>2. \A f \in seen[c].files : f.inode = file
      BY <1>3, <1>5, <3>1 DEF Behind, ReadFrom, Continues
    <3>3. \A f \in seen'[c].files : ReadFrom(Now, f.inode)
      BY <1>3, <1>4, <3>2 DEF ReadFrom
    <3>4. seen[c].events <= Now.greatest
      BY <1>2, <1>3, <1>5, <2>1, <3>1 DEF Behind, Continues
    <3>5. seen'[c].events = Now.greatest
      BY <1>2, <1>3, <2>3, <3>4
    <3>6. Advanced(h) = Now
      BY <2>3 DEF Advanced
    <3>7. QED
      BY <1>3, <3>3, <3>5, <3>6 DEF Behind
  <2>4. QED
    BY <2>2, <2>3
<1>6. QED
  BY <1>2, <1>4, <1>5

\* What an ensure and its owner read follows their history.
LEMMA ReadStep == CertaintyInv /\ ReadInv /\ [Next]_vars => ReadInv'
<1> SUFFICES ASSUME CertaintyInv, ReadInv, [Next]_vars
             PROVE  ReadInv'
  OBVIOUS
<1>1. /\ launcher \in [Launchers -> LauncherPCs]
      /\ mark \in [Ensures -> Nat \cup {None}]
      /\ hist \in [Ensures -> Histories]
      /\ candidates \in [Ensures -> SUBSET Runs]
      /\ pinned \in [Ensures -> Runs \cup {None}]
      /\ owner \in [Runs -> OwnerPCs]
      /\ learned \in [Ensures -> Histories]
      /\ draft \in [Launchers -> Replies \cup {None}]
      /\ reply \in [Launchers -> Replies \cup {None}]
      /\ madeIn \in [Runs -> 0..MaxFiles]
      /\ seen \in [Ensures -> [files : SUBSET Files, events : Nat]]
      /\ file \in 0..MaxFiles /\ log \in Seq(Events) /\ Len(log) \in Nat
      /\ Ensures \subseteq Launchers /\ Daemons \subseteq Launchers
      /\ Launchers \subseteq Runs /\ Foregrounds \subseteq Runs
      /\ None \notin Runs /\ None \notin Nat /\ None \notin Replies /\ MaxFiles \in Nat
  BY LenProperties, EnsureAssumption, NoneAssumption
     DEF CertaintyInv, TypeOK, Launchers, Runs
<1>2. /\ Now.phase # "unseen" /\ Now.file = file /\ Unseen.phase = "unseen"
      /\ \A h : Advanced(h) = IF file = 0 THEN h ELSE Now
  BY DEF Now, Unseen, Advanced
<1>3. \A h : Readable(h) => h.phase = "unseen" \/ (file # 0 /\ h.file = file)
  BY DEF Readable, Continues, Now
<1>4. LauncherInv /\ ChannelInv
  BY DEF CertaintyInv, ToldInv
<1>4a. ASSUME NEW c \in Ensures, owner[c] \in {"seek", "guarded"}, Keeps, Sees(c),
              Readable(learned[c]), learned' = [learned EXCEPT ![c] = Advanced(@)],
              NEW to \in {"try", "open"}, Goes(c, to)
       PROVE  ReadInv'
  <2>1. learned[c] \in Histories /\ Behind(seen[c], learned[c])
    BY <1>1, <1>4a DEF ReadInv, GuardPCs
  <2>2. /\ Behind(seen'[c], Advanced(learned[c]))
        /\ \A x \in Ensures : x # c => seen'[x] = seen[x]
    BY <1>4a, <2>1, ReadAdvances
  <2>3. owner' = [owner EXCEPT ![c] = to] /\ UNCHANGED <<launcher, hist, mark>>
    BY <1>4a DEF Goes, Keeps, launcherVars
  <2>4. QED
    BY <1>1, <1>4a, <2>2, <2>3 DEF ReadInv, GuardPCs
<1>4b. ASSUME NEW c \in Ensures, Keeps, Sees(c), Goes(c, "replying"),
              \A x \in Ensures : x # c => learned'[x] = learned[x]
       PROVE  ReadInv'
  <2>1. \A x \in Ensures : x # c => seen'[x] = seen[x]
    BY <1>4b, ReadAdvances
  <2>2. owner' = [owner EXCEPT ![c] = "replying"] /\ UNCHANGED <<launcher, hist, mark>>
    BY <1>4b DEF Goes, Keeps, launcherVars
  <2>3. QED
    BY <1>1, <1>4b, <2>1, <2>2 DEF ReadInv, GuardPCs
<1>5. ASSUME NEW c \in Ensures, EnrollRead(c) PROVE ReadInv'
  <2>1. owner[c] = "none" /\ hist[c] = Unseen /\ Behind(seen[c], hist[c])
    BY <1>5, <1>1, <1>4 DEF EnrollRead, LauncherInv, ReadInv
  <2>2. /\ launcher' = [launcher EXCEPT ![c] = "sampling"]
        /\ hist' = [hist EXCEPT ![c] = Advanced(@)]
        /\ \A x \in Ensures : x # c => mark'[x] = mark[x]
        /\ owner' = owner /\ learned' = learned /\ Sees(c)
    BY <1>5, <1>1 DEF EnrollRead, ownerVars
  <2>3. /\ Behind(seen'[c], hist'[c])
        /\ \A x \in Ensures : x # c => seen'[x] = seen[x]
    <3>1. Readable(hist[c])
      BY <1>2, <2>1 DEF Readable, Continues
    <3>2. hist[c] \in Histories /\ hist'[c] = Advanced(hist[c])
      BY <1>1, <2>2
    <3>3. QED
      BY <2>1, <2>2, <3>1, <3>2, ReadAdvances
  <2>4. QED
    BY <1>1, <2>1, <2>2, <2>3 DEF ReadInv, GuardPCs
<1>6. ASSUME NEW c \in Ensures, EnrollSample(c) PROVE ReadInv'
  BY <1>6, <1>1
     DEF EnrollSample, Concludes, ReadInv, ReadFrom, Behind, EarlyPCs, WaitPCs, GuardPCs,
         SessionPCs, launcherVars, channelVars, ownerVars, registryVars
<1>7. ASSUME NEW c \in Ensures, EnsureReceive(c) PROVE ReadInv'
  BY <1>7, <1>1
     DEF EnsureReceive, Concludes, ReadInv, ReadFrom, Behind, EarlyPCs, WaitPCs, GuardPCs,
         SessionPCs, launcherVars, channelVars, ownerVars, registryVars
<1>8. ASSUME NEW c \in Ensures, SelectReply(c) PROVE ReadInv'
  <2>1. owner[c] \notin EarlyPCs /\ owner[c] # "none"
    BY <1>8, <1>1, <1>4 DEF SelectReply, LauncherInv, ChannelInv, EarlyPCs
  <2>2. /\ launcher' = [launcher EXCEPT ![c] = "ended"]
        /\ \A x \in Ensures : x # c => hist'[x] = hist[x]
        /\ \A x \in Ensures : x # c => seen'[x] = seen[x]
        /\ UNCHANGED <<mark, owner, learned>>
    BY <1>8, <1>1, ReadAdvances DEF SelectReply, Concludes, ownerVars
  <2>3. QED
    BY <1>8, <1>1, <2>1, <2>2 DEF ReadInv, EarlyPCs, WaitPCs, GuardPCs, SessionPCs
<1>9. ASSUME NEW c \in Ensures, EnsureExpires(c) PROVE ReadInv'
  BY <1>9, <1>1
     DEF EnsureExpires, Concludes, ReadInv, ReadFrom, Behind, EarlyPCs, WaitPCs, GuardPCs,
         SessionPCs, launcherVars, channelVars, ownerVars, registryVars
<1>10. ASSUME NEW c \in Ensures, Resume(c) PROVE ReadInv'
  <2>1. CASE Readable(hist[c])
    <3>1. /\ owner[c] = "resume" /\ owner' = [owner EXCEPT ![c] = "seek"]
          /\ learned' = [learned EXCEPT ![c] = Advanced(hist[c])]
          /\ UNCHANGED <<launcher, hist, mark>>
      BY <1>10, <2>1 DEF Resume, Goes, Keeps, launcherVars
    <3>2. /\ Behind(seen'[c], Advanced(hist[c]))
          /\ \A x \in Ensures : x # c => seen'[x] = seen[x]
      BY <1>10, <1>1, <2>1, <3>1, ReadAdvances DEF Resume, ReadInv
    <3>3. QED
      BY <1>1, <3>1, <3>2 DEF ReadInv, GuardPCs
  <2>2. CASE ~ Readable(hist[c])
    <3>1. /\ owner' = [owner EXCEPT ![c] = "replying"]
          /\ UNCHANGED <<launcher, hist, mark, learned>>
      BY <1>10, <1>1, <2>2 DEF Resume, Rejects, Goes, Keeps, launcherVars
    <3>2. \A x \in Ensures : x # c => seen'[x] = seen[x]
      BY <1>10, ReadAdvances DEF Resume
    <3>3. QED
      BY <1>1, <3>1, <3>2 DEF ReadInv, GuardPCs
  <2>3. QED
    BY <2>1, <2>2
<1>11. ASSUME NEW c \in Ensures, Seek(c) PROVE ReadInv'
  <2>1. /\ owner[c] = "seek" /\ Keeps /\ Sees(c)
        /\ \/ Goes(c, "try") /\ Readable(learned[c])
              /\ learned' = [learned EXCEPT ![c] = Advanced(@)]
           \/ /\ Goes(c, "replying")
              /\ \A x \in Ensures : x # c => learned'[x] = learned[x]
    BY <1>11, <1>1 DEF Seek, Rejects
  <2>2. CASE Goes(c, "try") /\ Readable(learned[c])
             /\ learned' = [learned EXCEPT ![c] = Advanced(@)]
    BY <1>1, <1>4a, <2>1, <2>2
  <2>3. CASE Goes(c, "replying") /\ \A x \in Ensures : x # c => learned'[x] = learned[x]
    BY <1>1, <1>4b, <2>1, <2>3
  <2>4. QED
    BY <2>1, <2>2, <2>3
<1>12. ASSUME NEW c \in Ensures, Try(c) PROVE ReadInv'
  BY <1>12, <1>1
     DEF Try, Keeps, Goes, ReadInv, ReadFrom, Behind, EarlyPCs, WaitPCs, GuardPCs, SessionPCs,
         launcherVars, channelVars, ownerVars, registryVars
<1>13. ASSUME NEW c \in Ensures, Recheck(c) PROVE ReadInv'
  <2>1. /\ owner[c] = "guarded" /\ Keeps /\ Sees(c)
        /\ \/ Goes(c, "open") /\ Readable(learned[c])
              /\ learned' = [learned EXCEPT ![c] = Advanced(@)]
           \/ /\ Goes(c, "replying")
              /\ \A x \in Ensures : x # c => learned'[x] = learned[x]
    BY <1>13, <1>1 DEF Recheck, Rejects
  <2>2. owner[c] \in {"seek", "guarded"}
    BY <2>1
  <2>3. QED
    BY <1>4a, <1>4b, <2>1, <2>2
<1>14. ASSUME NEW d \in Daemons, DaemonInterrupt(d) PROVE ReadInv'
  BY <1>14, <1>1
     DEF DaemonInterrupt, ReadInv, ReadFrom, Behind, EarlyPCs, WaitPCs, GuardPCs, SessionPCs,
         launcherVars, channelVars, ownerVars, registryVars
<1>15. ASSUME NEW d \in Daemons, DaemonReceive(d) PROVE ReadInv'
  BY <1>15, <1>1
     DEF DaemonReceive, Concludes, ReadInv, ReadFrom, Behind, EarlyPCs, WaitPCs, GuardPCs,
         SessionPCs, launcherVars, channelVars, ownerVars, registryVars
<1>16. ASSUME NEW d \in Daemons, DaemonGivesUp(d) PROVE ReadInv'
  BY <1>16, <1>1
     DEF DaemonGivesUp, Concludes, ReadInv, ReadFrom, Behind, EarlyPCs, WaitPCs, GuardPCs,
         SessionPCs, launcherVars, channelVars, ownerVars, registryVars
<1>17. ASSUME NEW l \in Launchers, Spawn(l) PROVE ReadInv'
  BY <1>17, <1>1, <1>4
     DEF Spawn, LauncherInv, ReadInv, ReadFrom, Behind, EarlyPCs, WaitPCs, GuardPCs, SessionPCs,
         launcherVars, channelVars, ownerVars, registryVars
<1>18. ASSUME NEW l \in Launchers, SpawnFails(l) PROVE ReadInv'
  BY <1>18, <1>1
     DEF SpawnFails, Concludes, ReadInv, ReadFrom, Behind, EarlyPCs, WaitPCs, GuardPCs,
         SessionPCs, launcherVars, channelVars, ownerVars, registryVars
<1>19. ASSUME NEW l \in Launchers, Send(l) PROVE ReadInv'
  BY <1>19, <1>1
     DEF Send, ReadInv, ReadFrom, Behind, EarlyPCs, WaitPCs, GuardPCs, SessionPCs, launcherVars,
         channelVars, ownerVars, registryVars
<1>20. ASSUME NEW l \in Launchers, Incomplete(l) PROVE ReadInv'
  BY <1>20, <1>1
     DEF Incomplete, Concludes, ReadInv, ReadFrom, Behind, EarlyPCs, WaitPCs, GuardPCs,
         SessionPCs, launcherVars, channelVars, ownerVars, registryVars
<1>21. ASSUME NEW l \in Launchers, Eof(l) PROVE ReadInv'
  BY <1>21, <1>1
     DEF Eof, Concludes, ReadInv, ReadFrom, Behind, EarlyPCs, WaitPCs, GuardPCs, SessionPCs,
         launcherVars, channelVars, ownerVars, registryVars
<1>22. ASSUME NEW l \in Launchers, LauncherDies(l) PROVE ReadInv'
  BY <1>22, <1>1
     DEF LauncherDies, ReadInv, ReadFrom, Behind, EarlyPCs, WaitPCs, GuardPCs, SessionPCs,
         launcherVars, channelVars, ownerVars, registryVars
<1>23. ASSUME NEW l \in Launchers, ReceiveRequest(l) PROVE ReadInv'
  BY <1>23, <1>1
     DEF ReceiveRequest, Keeps, Goes, ReadInv, ReadFrom, Behind, EarlyPCs, WaitPCs, GuardPCs,
         SessionPCs, launcherVars, channelVars, ownerVars, registryVars
<1>24. ASSUME NEW l \in Launchers, ReceiveFails(l) PROVE ReadInv'
  BY <1>24, <1>1
     DEF ReceiveFails, Keeps, Goes, ReadInv, ReadFrom, Behind, EarlyPCs, WaitPCs, GuardPCs,
         SessionPCs, launcherVars, channelVars, ownerVars, registryVars
<1>25. ASSUME NEW l \in Launchers, Abandoned(l) PROVE ReadInv'
  BY <1>25, <1>1
     DEF Abandoned, Keeps, Rejects, Goes, ReadInv, ReadFrom, Behind, EarlyPCs, WaitPCs,
         GuardPCs, SessionPCs, launcherVars, channelVars, ownerVars, registryVars
<1>26. ASSUME NEW l \in Launchers, WriteReply(l) PROVE ReadInv'
  BY <1>26, <1>1
     DEF WriteReply, Goes, AfterReply, ReadInv, ReadFrom, Behind, EarlyPCs, WaitPCs, GuardPCs,
         SessionPCs, launcherVars, channelVars, ownerVars, registryVars
<1>27. ASSUME NEW l \in Launchers, LoseReply(l) PROVE ReadInv'
  BY <1>27, <1>1
     DEF LoseReply, Keeps, Goes, AfterReply, ReadInv, ReadFrom, Behind, EarlyPCs, WaitPCs,
         GuardPCs, SessionPCs, launcherVars, channelVars, ownerVars, registryVars
<1>28. ASSUME NEW r \in Daemons \cup Foregrounds, Acquire(r) PROVE ReadInv'
  <2>1. r \notin Ensures
    BY <1>28, EnsureAssumption DEF Launchers
  <2>2. /\ Keeps /\ UNCHANGED <<learned, seen>>
        /\ \E to \in {"open", "replying", "exited"} : Goes(r, to)
    BY <1>28 DEF Acquire, Rejects
  <2>3. \A x \in Ensures : owner'[x] = owner[x]
    BY <1>1, <2>1, <2>2 DEF Goes
  <2>4. QED
    BY <2>2, <2>3 DEF Keeps, ReadInv, ReadFrom, Behind, launcherVars
<1>29. ASSUME NEW r \in Runs, Open(r) PROVE ReadInv'
  BY <1>29, <1>1
     DEF Open, Keeps, Goes, ReadInv, ReadFrom, Behind, EarlyPCs, WaitPCs, GuardPCs, SessionPCs,
         launcherVars, channelVars, ownerVars, registryVars
<1>30. ASSUME NEW r \in Runs, InitializeSchema(r) PROVE ReadInv'
  BY <1>30, <1>1
     DEF InitializeSchema, Keeps, Goes, ReadInv, ReadFrom, Behind, EarlyPCs, WaitPCs, GuardPCs,
         SessionPCs, launcherVars, channelVars, ownerVars, registryVars
<1>31. ASSUME NEW r \in Runs, Recover(r) PROVE ReadInv'
  BY <1>31, <1>1
     DEF Recover, Keeps, Goes, ReadInv, ReadFrom, Behind, EarlyPCs, WaitPCs, GuardPCs,
         SessionPCs, launcherVars, channelVars, ownerVars, registryVars
<1>32. ASSUME NEW r \in Runs, Prepare(r) PROVE ReadInv'
  BY <1>32, <1>1
     DEF Prepare, Keeps, Goes, ReadInv, ReadFrom, Behind, EarlyPCs, WaitPCs, GuardPCs,
         SessionPCs, launcherVars, channelVars, ownerVars, registryVars
<1>33. ASSUME NEW r \in Runs, Check(r) PROVE ReadInv'
  BY <1>33, <1>1
     DEF Check, Keeps, Goes, ReadInv, ReadFrom, Behind, EarlyPCs, WaitPCs, GuardPCs, SessionPCs,
         launcherVars, channelVars, ownerVars, registryVars
<1>34. ASSUME NEW r \in Runs, Publish(r) PROVE ReadInv'
  <2>1. /\ Keeps /\ UNCHANGED <<seen>>
        /\ \E to \in {"replying", "session", "exited"} : Goes(r, to)
        /\ \A x \in Ensures : x # r => learned'[x] = learned[x]
    BY <1>34, <1>1 DEF Publish, Rejects
  <2>2. QED
    BY <1>34, <1>1, <2>1
       DEF Keeps, Goes, ReadInv, ReadFrom, Behind, EarlyPCs, WaitPCs, GuardPCs, SessionPCs,
           launcherVars, channelVars, ownerVars, registryVars
<1>35. ASSUME NEW r \in Runs, PrecommitFails(r) PROVE ReadInv'
  BY <1>35, <1>1
     DEF PrecommitFails, Keeps, Rejects, Goes, ReadInv, ReadFrom, Behind, EarlyPCs, WaitPCs,
         GuardPCs, SessionPCs, launcherVars, channelVars, ownerVars, registryVars
<1>36. ASSUME NEW r \in Runs, Settle(r) PROVE ReadInv'
  BY <1>36, <1>1
     DEF Settle, Keeps, Goes, ReadInv, ReadFrom, Behind, EarlyPCs, WaitPCs, GuardPCs,
         SessionPCs, launcherVars, channelVars, ownerVars, registryVars
<1>37. ASSUME NEW r \in Runs, Finalize(r) PROVE ReadInv'
  BY <1>37, <1>1
     DEF Finalize, Keeps, Goes, ReadInv, ReadFrom, Behind, EarlyPCs, WaitPCs, GuardPCs,
         SessionPCs, launcherVars, channelVars, ownerVars, registryVars
<1>38. ASSUME NEW r \in Runs, Close(r) PROVE ReadInv'
  BY <1>38, <1>1
     DEF Close, Keeps, Goes, ReadInv, ReadFrom, Behind, EarlyPCs, WaitPCs, GuardPCs, SessionPCs,
         launcherVars, channelVars, ownerVars, registryVars
<1>39. ASSUME NEW r \in Runs, Exit(r) PROVE ReadInv'
  BY <1>39, <1>1
     DEF Exit, Keeps, Goes, ReadInv, ReadFrom, Behind, EarlyPCs, WaitPCs, GuardPCs, SessionPCs,
         launcherVars, channelVars, ownerVars, registryVars
<1>40. ASSUME NEW r \in Runs, Crash(r) PROVE ReadInv'
  BY <1>40, <1>1
     DEF Crash, Keeps, Goes, ReadInv, ReadFrom, Behind, EarlyPCs, WaitPCs, GuardPCs, SessionPCs,
         launcherVars, channelVars, ownerVars, registryVars
<1>41. CASE RemoveRegistry
  BY <1>41, <1>1
     DEF RemoveRegistry, ReadInv, ReadFrom, Behind, EarlyPCs, WaitPCs, GuardPCs, SessionPCs,
         launcherVars, channelVars, ownerVars, registryVars
<1>42. CASE UNCHANGED vars
  BY <1>42, <1>1
     DEF vars, ReadInv, ReadFrom, Behind, EarlyPCs, WaitPCs, GuardPCs, SessionPCs, launcherVars,
         channelVars, ownerVars, registryVars
<1>43. QED
  BY <1>5, <1>6, <1>7, <1>8, <1>9, <1>10, <1>11, <1>12, <1>13, <1>14, <1>15, <1>16,
     <1>17, <1>18, <1>19, <1>20, <1>21, <1>22, <1>23, <1>24, <1>25, <1>26, <1>27, <1>28,
     <1>29, <1>30, <1>31, <1>32, <1>33, <1>34, <1>35, <1>36, <1>37, <1>38, <1>39, <1>40,
     <1>41, <1>42
     DEF Next, EnsureStep, SharedStep, DaemonStep, LauncherStep, DetachedStep, OwnerStep

\* An answer that names a session of one file goes on doing so.
LEMMA AnswerStep ==
  CertaintyInv /\ LineageInv /\ [Next]_vars => AnswerInv'
<1> SUFFICES ASSUME CertaintyInv, LineageInv, [Next]_vars
             PROVE  AnswerInv'
  OBVIOUS
<1>1. /\ launcher \in [Launchers -> LauncherPCs]
      /\ mark \in [Ensures -> Nat \cup {None}]
      /\ hist \in [Ensures -> Histories]
      /\ candidates \in [Ensures -> SUBSET Runs]
      /\ pinned \in [Ensures -> Runs \cup {None}]
      /\ owner \in [Runs -> OwnerPCs]
      /\ learned \in [Ensures -> Histories]
      /\ draft \in [Launchers -> Replies \cup {None}]
      /\ reply \in [Launchers -> Replies \cup {None}]
      /\ madeIn \in [Runs -> 0..MaxFiles]
      /\ seen \in [Ensures -> [files : SUBSET Files, events : Nat]]
      /\ file \in 0..MaxFiles /\ log \in Seq(Events) /\ Len(log) \in Nat
      /\ Ensures \subseteq Launchers /\ Daemons \subseteq Launchers
      /\ Launchers \subseteq Runs /\ Foregrounds \subseteq Runs
      /\ None \notin Runs /\ None \notin Nat /\ None \notin Replies /\ MaxFiles \in Nat
  BY LenProperties, EnsureAssumption, NoneAssumption
     DEF CertaintyInv, TypeOK, Launchers, Runs
<1>2. AnswerInv /\ ReadInv /\ RegistryInv /\ LauncherInv /\ ChannelInv /\ MarkInv
  BY DEF CertaintyInv, ToldInv, LineageInv
<1>3. /\ \A r, h : /\ Established(r, h).kind = "established"
                   /\ Established(r, h).run = r /\ Established(r, h).hist = h
      /\ \A i, h : /\ Existing(i, h).kind = "existing"
                   /\ Existing(i, h).run = log[i].run /\ Existing(i, h).hist = h
      /\ \A r, why : Rejected(r, why).kind = "rejected"
  BY DEF Established, Existing, Rejected
<1>4. /\ Now.phase # "unseen" /\ Now.file = file /\ Unseen.phase = "unseen"
      /\ \A h : Advanced(h) = IF file = 0 THEN h ELSE Now
  BY DEF Now, Unseen, Advanced
<1>5. \A h : Readable(h) => h.phase = "unseen" \/ (file # 0 /\ h.file = file)
  BY DEF Readable, Continues, Now
<1>6. \A i \in Creations : log[i].run \in Runs /\ madeIn[log[i].run] = file /\ file # 0
  <2>1. ASSUME NEW i \in Creations PROVE log[i] \in Events
    BY <1>1, LenProperties, ElementOfSeq DEF Creations
  <2>2. file # 0 \/ Creations = {}
    BY <1>2 DEF RegistryInv, Creations
  <2>3. QED
    BY <1>2, <2>1, <2>2 DEF Events, RegistryInv
<1>7. \A a \in Replies : a.run \in Runs
  BY DEF Replies
<1>8. ASSUME NEW c \in Ensures, owner[c] \in {"resume", "seek", "guarded"}
      PROVE  candidates[c] = {} /\ reply[c] = None /\ pinned[c] = None
  BY <1>1, <1>2, <1>8 DEF AnswerInv, LauncherInv, ChannelInv, EarlyPCs, WaitPCs, GuardPCs
<1>9. ASSUME NEW r \in Runs, owner[r] # "none", NEW why, Rejects(r, why),
             UNCHANGED <<launcher, candidates, pinned, reply, seen, madeIn>>
      PROVE  AnswerInv'
  <2>1. /\ \A x \in Ensures : x # r => owner'[x] = owner[x] /\ draft'[x] = draft[x]
        /\ r \in Ensures => draft'[r].kind = "rejected"
    BY <1>1, <1>3, <1>9 DEF Rejects, Goes, Drafts, Launchers
  <2>2. \A x \in Ensures : owner[x] = "none" => owner'[x] = "none"
    BY <1>9, <2>1
  <2>3. ASSUME NEW c \in Ensures, owner'[c] = "replying", draft'[c].kind # "rejected"
        PROVE  OneFile(c, draft'[c])
    <3>1. c # r
      BY <2>1, <2>3
    <3>2. QED
      BY <1>2, <2>1, <2>3, <3>1 DEF AnswerInv
  <2>4. ASSUME NEW c \in Ensures
        PROVE  /\ candidates[c] # {} => launcher[c] = "sampling"
               /\ launcher[c] = "selecting" => reply[c].kind # "rejected"
               /\ \A x \in candidates[c] :
                    madeIn[x] # 0 /\ \A f \in seen[c].files : f.inode = madeIn[x]
               /\ reply[c] # None /\ reply[c].kind # "rejected" /\ launcher[c] # "ended" =>
                    OneFile(c, reply[c])
               /\ pinned[c] # None =>
                    /\ launcher[c] = "ended"
                    /\ owner'[c] = "none" \/ reply[c] # None
                    /\ madeIn[pinned[c]] # 0
                    /\ \A f \in seen[c].files : f.inode = madeIn[pinned[c]]
    BY <1>2, <2>2, <2>4 DEF AnswerInv
  <2>5. ASSUME NEW c \in Ensures
        PROVE  /\ owner'[c] = "replying" /\ draft'[c].kind # "rejected" =>
                    OneFile(c, draft[c])'
               /\ reply[c] # None /\ reply[c].kind # "rejected" /\ launcher[c] # "ended" =>
                    OneFile(c, reply[c])'
    BY <1>9, <2>3, <2>4, <2>5 DEF OneFile
  <2>6. QED
    BY <1>9, <2>4, <2>5, Zenon DEF AnswerInv
<1>9a. ASSUME NEW c \in Ensures, owner[c] \in {"resume", "seek", "guarded"}, Sees(c),
              UNCHANGED <<launcher, candidates, pinned, reply, madeIn, draft>>,
              NEW to \in {"seek", "try", "open"}, Goes(c, to)
       PROVE  AnswerInv'
  <2>1. /\ owner'[c] = to
        /\ \A x \in Ensures : x # c => owner'[x] = owner[x] /\ seen'[x] = seen[x]
    BY <1>1, <1>9a, ReadAdvances DEF Goes
  <2>2. QED
    BY <1>2, <1>8, <1>9a, <2>1 DEF AnswerInv, OneFile
<1>9b. ASSUME NEW c \in Ensures, owner[c] \in {"resume", "seek", "guarded"}, Sees(c),
              UNCHANGED <<launcher, candidates, pinned, reply, madeIn>>,
              NEW why, Rejects(c, why)
       PROVE  AnswerInv'
  <2>1. /\ draft'[c].kind = "rejected"
        /\ \A x \in Ensures : x # c => /\ owner'[x] = owner[x] /\ draft'[x] = draft[x]
                                       /\ seen'[x] = seen[x]
    BY <1>1, <1>3, <1>9b, ReadAdvances DEF Rejects, Goes, Drafts
  <2>2. QED
    BY <1>2, <1>8, <1>9b, <2>1 DEF AnswerInv, OneFile
<1>10. ASSUME NEW c \in Ensures, EnrollRead(c) PROVE AnswerInv'
  <2>1. /\ owner[c] = "none" /\ seen[c].files = {} /\ pinned[c] = None
        /\ launcher[c] = "idle"
    BY <1>10, <1>1, <1>2, <1>4 DEF EnrollRead, LauncherInv, ReadInv, ReadFrom, Behind, AnswerInv
  <2>2. \A r \in Created : madeIn[r] = file /\ file # 0
    BY <1>6 DEF Created
  <2>3. /\ launcher' = [launcher EXCEPT ![c] = "sampling"]
        /\ candidates' = [candidates EXCEPT ![c] = Created \ finished]
        /\ Sees(c)
        /\ UNCHANGED <<pinned, reply, owner, draft, madeIn>>
    BY <1>10, Zenon DEF EnrollRead, channelVars, ownerVars, registryVars
  <2>4. ASSUME NEW x \in Ensures, x # c
        PROVE  /\ launcher'[x] = launcher[x] /\ candidates'[x] = candidates[x]
               /\ seen'[x] = seen[x]
    BY <1>1, <2>3, <2>4, ReadAdvances
  <2>5. /\ launcher'[c] = "sampling" /\ candidates'[c] = Created \ finished
        /\ \A f \in seen'[c].files : f.inode = file
        /\ reply[c] = None /\ owner[c] # "replying"
    BY <1>10, <1>1, <1>2, <2>1, <2>3, ReadAdvances DEF ChannelInv, EarlyPCs
  <2>6. QED
    BY <1>2, <2>1, <2>2, <2>3, <2>4, <2>5 DEF AnswerInv, OneFile, ReadFrom, Behind
<1>11. ASSUME NEW c \in Ensures, EnrollSample(c) PROVE AnswerInv'
  <2>1. /\ owner[c] = "none" /\ pinned[c] = None /\ launcher[c] = "sampling"
    BY <1>11, <1>1, <1>2 DEF EnrollSample, LauncherInv, AnswerInv
  <2>2. reply[c] = None
    BY <1>11, <1>1, <1>2, <2>1 DEF ChannelInv, EarlyPCs
  <2>3. /\ candidates' = [candidates EXCEPT ![c] = {}]
        /\ \A x \in Ensures : x # c => launcher'[x] = launcher[x] /\ pinned'[x] = pinned[x]
        /\ \/ pinned'[c] = None /\ launcher'[c] # "selecting"
           \/ pinned'[c] \in candidates[c] /\ launcher'[c] = "ended"
        /\ UNCHANGED <<seen, reply, owner, draft, madeIn>>
    BY <1>11, <1>1, <2>1 DEF EnrollSample, Concludes, channelVars, ownerVars, registryVars
  <2>4. QED
    BY <1>11, <1>1, <1>2, <2>1, <2>2, <2>3 DEF AnswerInv, OneFile
<1>12. ASSUME NEW c \in Ensures, EnsureReceive(c) PROVE AnswerInv'
  BY <1>12, <1>1, <1>2, <1>3
     DEF EnsureReceive, Concludes, AnswerInv, OneFile, ReadFrom, Behind, launcherVars,
         channelVars, ownerVars, registryVars
<1>13. ASSUME NEW c \in Ensures, SelectReply(c) PROVE AnswerInv'
  <2> DEFINE a == reply[c]
  <2>1. /\ launcher[c] = "selecting" /\ a # None /\ a \in Replies /\ a.kind # "rejected"
    BY <1>13, <1>1, <1>2 DEF SelectReply, LauncherInv, AnswerInv
  <2>7. pinned[c] = None /\ candidates[c] = {} /\ owner[c] # "replying"
    BY <1>13, <1>1, <1>2, <2>1 DEF AnswerInv, ChannelInv
  <2>2. OneFile(c, a) /\ a.run \in Runs
    BY <1>13, <1>2, <1>7, <2>1 DEF AnswerInv
  <2>3. /\ launcher' = [launcher EXCEPT ![c] = "ended"]
        /\ Sees(c) /\ \A x \in Ensures : x # c => seen'[x] = seen[x]
        /\ \/ pinned' = pinned
           \/ Readable(a.hist) /\ pinned' = [pinned EXCEPT ![c] = a.run]
        /\ UNCHANGED <<candidates, reply, owner, draft, madeIn>>
    BY <1>13, ReadAdvances DEF SelectReply, Concludes, channelVars, ownerVars, registryVars
  <2>4. Readable(a.hist) => \A f \in seen'[c].files : f.inode = madeIn[a.run]
    BY <1>13, <1>1, <1>5, <2>2, <2>3, ReadAdvances DEF OneFile, ReadFrom, Behind
  <2>5. madeIn[a.run] # 0
    BY <2>2 DEF OneFile
  <2>6. /\ \A x \in Ensures : x # c => launcher'[x] = launcher[x] /\ pinned'[x] = pinned[x]
        /\ launcher'[c] = "ended"
        /\ pinned'[c] # None => Readable(a.hist) /\ pinned'[c] = a.run
    BY <1>1, <2>3, <2>7
  <2>8. QED
    BY <1>2, <2>1, <2>3, <2>4, <2>5, <2>6, <2>7 DEF AnswerInv, OneFile
<1>14. ASSUME NEW c \in Ensures, EnsureExpires(c) PROVE AnswerInv'
  BY <1>14, <1>1, <1>2, <1>3
     DEF EnsureExpires, Concludes, AnswerInv, OneFile, ReadFrom, Behind, launcherVars,
         channelVars, ownerVars, registryVars
<1>15. ASSUME NEW c \in Ensures, Resume(c) PROVE AnswerInv'
  <2>1. /\ owner[c] = "resume" /\ Sees(c)
        /\ UNCHANGED <<launcher, candidates, pinned, reply, madeIn>>
        /\ \/ Goes(c, "seek") /\ UNCHANGED draft
           \/ Rejects(c, "corrupt")
    BY <1>15, Zenon DEF Resume, Keeps, launcherVars, channelVars, registryVars
  <2>2. QED
    BY <1>9a, <1>9b, <2>1
<1>16. ASSUME NEW c \in Ensures, Seek(c) PROVE AnswerInv'
  <2> DEFINE first  == FirstAfter(mark[c])
             answer == Existing(first, Advanced(learned[c]))
  <2>1. /\ owner[c] = "seek" /\ Sees(c)
        /\ UNCHANGED <<launcher, candidates, pinned, reply, madeIn>>
        /\ \/ Goes(c, "try") /\ UNCHANGED draft
           \/ /\ Readable(learned[c]) /\ first # 0
              /\ Goes(c, "replying") /\ Drafts(c, answer)
           \/ \E why : Rejects(c, why)
    BY <1>16, Zenon DEF Seek, Keeps, launcherVars, channelVars, registryVars
  <2>2. CASE Goes(c, "try") /\ UNCHANGED draft
    BY <1>9a, <2>1, <2>2
  <2>3. CASE /\ Readable(learned[c]) /\ first # 0
             /\ Goes(c, "replying") /\ Drafts(c, answer)
    <3>1. mark[c] \in Nat
      BY <1>16, <1>1, <1>2, <2>1 DEF MarkInv
    <3>2. first \in Creations
      BY <1>1, <2>3, <3>1, FirstAfterIsFirst
    <3>3. /\ answer.run = log[first].run /\ answer.hist = Now /\ answer.kind = "existing"
          /\ answer.run \in Runs /\ madeIn[answer.run] = file /\ file # 0
      BY <1>3, <1>4, <1>6, <3>2
    <3>4. Behind(seen'[c], Advanced(learned[c]))
      <4>1. Behind(seen[c], learned[c]) /\ learned[c] \in Histories
        BY <1>16, <1>1, <1>2, <2>1 DEF ReadInv
      <4>2. QED
        BY <2>1, <2>3, <4>1, ReadAdvances
    <3>5. owner' = [owner EXCEPT ![c] = "replying"] /\ draft' = [draft EXCEPT ![c] = answer]
      BY <1>16, <1>1, <2>3 DEF Goes, Drafts
    <3> HIDE DEF answer, first
    <3>6. /\ answer.kind # "rejected" /\ madeIn'[answer.run] # 0
          /\ ReadFrom(answer.hist, madeIn'[answer.run])
          /\ Behind(seen'[c], answer.hist)
      BY <1>4, <2>1, <3>3, <3>4 DEF ReadFrom
    <3>7. /\ draft'[c] = answer /\ owner'[c] = "replying"
          /\ candidates[c] = {} /\ reply[c] = None /\ pinned[c] = None
      BY <1>16, <1>1, <1>8, <2>1, <3>5, EnsureAssumption DEF Launchers, Runs
    <3>8. \A x \in Ensures :
            x # c => draft'[x] = draft[x] /\ owner'[x] = owner[x] /\ seen'[x] = seen[x]
      BY <1>1, <2>1, <3>5, ReadAdvances
    <3>9. QED
      BY <1>2, <2>1, <3>6, <3>7, <3>8 DEF AnswerInv, OneFile
  <2>4. CASE \E why : Rejects(c, why)
    BY <1>9b, <2>1, <2>4
  <2>5. QED
    BY <2>1, <2>2, <2>3, <2>4
<1>17. ASSUME NEW c \in Ensures, Try(c) PROVE AnswerInv'
  BY <1>17, <1>1, <1>2, <1>3
     DEF Try, Keeps, Goes, AnswerInv, OneFile, ReadFrom, Behind, launcherVars, channelVars,
         ownerVars, registryVars
<1>18. ASSUME NEW c \in Ensures, Recheck(c) PROVE AnswerInv'
  <2>1. /\ owner[c] = "guarded" /\ Sees(c)
        /\ UNCHANGED <<launcher, candidates, pinned, reply, madeIn>>
        /\ \/ Goes(c, "open") /\ UNCHANGED draft
           \/ \E why : Rejects(c, why)
    BY <1>18, Zenon DEF Recheck, Keeps, launcherVars, channelVars, registryVars
  <2>2. QED
    BY <1>9a, <1>9b, <2>1
<1>19. ASSUME NEW d \in Daemons, DaemonInterrupt(d) PROVE AnswerInv'
  BY <1>19, <1>1, <1>2, <1>3
     DEF DaemonInterrupt, AnswerInv, OneFile, ReadFrom, Behind, launcherVars, channelVars,
         ownerVars, registryVars
<1>20. ASSUME NEW d \in Daemons, DaemonReceive(d) PROVE AnswerInv'
  BY <1>20, <1>1, <1>2, <1>3
     DEF DaemonReceive, Concludes, AnswerInv, OneFile, ReadFrom, Behind, launcherVars,
         channelVars, ownerVars, registryVars
<1>21. ASSUME NEW d \in Daemons, DaemonGivesUp(d) PROVE AnswerInv'
  BY <1>21, <1>1, <1>2, <1>3
     DEF DaemonGivesUp, Concludes, AnswerInv, OneFile, ReadFrom, Behind, launcherVars,
         channelVars, ownerVars, registryVars
<1>22. ASSUME NEW l \in Launchers, Spawn(l) PROVE AnswerInv'
  BY <1>22, <1>1, <1>2
     DEF Spawn, LauncherInv, ChannelInv, EarlyPCs, AnswerInv, OneFile, ReadFrom,
         launcherVars, channelVars, ownerVars, registryVars
<1>23. ASSUME NEW l \in Launchers, SpawnFails(l) PROVE AnswerInv'
  BY <1>23, <1>1, <1>2
     DEF SpawnFails, Concludes, LauncherInv, ChannelInv, EarlyPCs, AnswerInv, OneFile,
         ReadFrom, Behind, launcherVars, channelVars, ownerVars, registryVars
<1>24. ASSUME NEW l \in Launchers, Send(l) PROVE AnswerInv'
  BY <1>24, <1>1, <1>2, <1>3
     DEF Send, AnswerInv, OneFile, ReadFrom, Behind, launcherVars, channelVars, ownerVars,
         registryVars
<1>25. ASSUME NEW l \in Launchers, Incomplete(l) PROVE AnswerInv'
  BY <1>25, <1>1, <1>2, <1>3
     DEF Incomplete, Concludes, AnswerInv, OneFile, ReadFrom, Behind, launcherVars, channelVars,
         ownerVars, registryVars
<1>26. ASSUME NEW l \in Launchers, Eof(l) PROVE AnswerInv'
  BY <1>26, <1>1, <1>2, <1>3
     DEF Eof, Concludes, AnswerInv, OneFile, ReadFrom, Behind, launcherVars, channelVars,
         ownerVars, registryVars
<1>27. ASSUME NEW l \in Launchers, LauncherDies(l) PROVE AnswerInv'
  BY <1>27, <1>1, <1>2, <1>3
     DEF LauncherDies, AnswerInv, OneFile, ReadFrom, Behind, launcherVars, channelVars,
         ownerVars, registryVars
<1>28. ASSUME NEW l \in Launchers, ReceiveRequest(l) PROVE AnswerInv'
  BY <1>28, <1>1, <1>2, <1>3
     DEF ReceiveRequest, Keeps, Goes, AnswerInv, OneFile, ReadFrom, Behind, launcherVars,
         channelVars, ownerVars, registryVars
<1>29. ASSUME NEW l \in Launchers, ReceiveFails(l) PROVE AnswerInv'
  BY <1>29, <1>1, <1>2, <1>3
     DEF ReceiveFails, Keeps, Goes, AnswerInv, OneFile, ReadFrom, Behind, launcherVars,
         channelVars, ownerVars, registryVars
<1>30. ASSUME NEW l \in Launchers, Abandoned(l) PROVE AnswerInv'
  BY <1>30, <1>1, <1>2, <1>3
     DEF Abandoned, Keeps, Rejects, Goes, Drafts, AnswerInv, OneFile, ReadFrom,
         launcherVars, channelVars, ownerVars, registryVars
<1>31. ASSUME NEW l \in Launchers, WriteReply(l) PROVE AnswerInv'
  BY <1>31, <1>1, <1>2
     DEF WriteReply, Goes, AfterReply, ChannelInv, LauncherInv, AnswerInv, OneFile,
         ReadFrom, Behind, launcherVars, channelVars, ownerVars, registryVars
<1>32. ASSUME NEW l \in Launchers, LoseReply(l) PROVE AnswerInv'
  BY <1>32, <1>1, <1>2, <1>3
     DEF LoseReply, Keeps, Goes, AfterReply, AnswerInv, OneFile, ReadFrom, Behind, launcherVars,
         channelVars, ownerVars, registryVars
<1>33. ASSUME NEW r \in Daemons \cup Foregrounds, Acquire(r) PROVE AnswerInv'
  <2>1. r \notin Ensures
    BY <1>33, EnsureAssumption DEF Launchers
  <2>2. /\ Keeps /\ UNCHANGED <<seen, madeIn>>
        /\ \E to \in {"open", "replying", "exited"} : Goes(r, to)
        /\ \A x \in Ensures : draft'[x] = draft[x]
    BY <1>33, <1>1, <2>1 DEF Acquire, Rejects, Drafts, registryVars
  <2>3. \A x \in Ensures : owner'[x] = owner[x]
    BY <1>1, <2>1, <2>2 DEF Goes
  <2>4. QED
    BY <1>2, <2>2, <2>3 DEF Keeps, AnswerInv, OneFile, ReadFrom, Behind, launcherVars, channelVars
<1>34. ASSUME NEW r \in Runs, Open(r) PROVE AnswerInv'
  BY <1>34, <1>1, <1>2, <1>3
     DEF Open, Keeps, Goes, AnswerInv, OneFile, ReadFrom, Behind, launcherVars, channelVars,
         ownerVars, registryVars
<1>35. ASSUME NEW r \in Runs, InitializeSchema(r) PROVE AnswerInv'
  BY <1>35, <1>1, <1>2, <1>3
     DEF InitializeSchema, Keeps, Goes, AnswerInv, OneFile, ReadFrom, Behind, launcherVars,
         channelVars, ownerVars, registryVars
<1>36. ASSUME NEW r \in Runs, Recover(r) PROVE AnswerInv'
  BY <1>36, <1>1, <1>2, <1>3
     DEF Recover, Keeps, Goes, AnswerInv, OneFile, ReadFrom, Behind, launcherVars, channelVars,
         ownerVars, registryVars
<1>37. ASSUME NEW r \in Runs, Prepare(r) PROVE AnswerInv'
  BY <1>37, <1>1, <1>2, <1>3
     DEF Prepare, Keeps, Goes, AnswerInv, OneFile, ReadFrom, Behind, launcherVars, channelVars,
         ownerVars, registryVars
<1>38. ASSUME NEW r \in Runs, Check(r) PROVE AnswerInv'
  BY <1>38, <1>1, <1>2, <1>3
     DEF Check, Keeps, Goes, AnswerInv, OneFile, ReadFrom, Behind, launcherVars, channelVars,
         ownerVars, registryVars
<1>39. ASSUME NEW r \in Runs, Publish(r) PROVE AnswerInv'
  <2>1. UNCHANGED <<launcher, candidates, pinned, reply, seen>>
    BY <1>39, Zenon DEF Publish, Keeps, launcherVars, channelVars
  <2>2. /\ owner[r] = "publish" /\ madeIn[r] = 0 /\ file # 0
    BY <1>39, <1>2
       DEF Publish, RegistryInv, CertaintyInv, ToldInv, GuardInv, EarlyPCs, GuardPCs
  <2>3. CASE r \in Ensures => IsFirstPublication(r)
    <3> DEFINE h == IF r \in Ensures THEN learned'[r] ELSE Unseen
               answer == Established(r, h)
    <3>1. /\ madeIn' = [madeIn EXCEPT ![r] = file]
          /\ learned' = IF r \in Ensures
                        THEN [learned EXCEPT ![r] = [Now EXCEPT !.greatest = @ + 1]]
                        ELSE learned
          /\ Goes(r, IF r \in Launchers THEN "replying" ELSE "session")
          /\ Drafts(r, answer)
      BY <1>39, <2>3, Zenon DEF Publish
    <3>2. \A x \in Runs : madeIn[x] # 0 => x # r /\ madeIn'[x] = madeIn[x]
      BY <1>1, <2>2, <3>1
    <3>3. ASSUME r \in Ensures
          PROVE  /\ madeIn'[answer.run] # 0
                 /\ ReadFrom(answer.hist, madeIn'[answer.run])
                 /\ Behind(seen[r], answer.hist)
      <4>1. h = [Now EXCEPT !.greatest = @ + 1]
        BY <1>1, <3>1, <3>3
      <4>2. h.phase # "unseen" /\ h.file = file
        BY <4>1 DEF Now
      <4>3. Continues(learned[r], h)
        BY <2>3, <3>3, <4>1 DEF IsFirstPublication
      <4>4. Behind(seen[r], learned[r]) /\ learned[r] \in Histories
        BY <1>1, <1>2, <2>2, <3>3 DEF ReadInv, GuardPCs
      <4>5. Behind(seen[r], h)
        <5>1. h.greatest \in Nat /\ learned[r].greatest \in Nat /\ seen[r].events \in Nat
          BY <1>1, <3>3, <4>1, <4>4 DEF Now, Histories
        <5>2. h.phase \in {"bootstrap", "complete"}
          BY <4>1 DEF Now
        <5> HIDE DEF h
        <5>3. QED
          BY <4>2, <4>3, <4>4, <5>1, <5>2 DEF Behind, ReadFrom, Continues, Histories
      <4>6. answer.run = r /\ answer.hist = h
        BY <1>3
      <4>7. madeIn'[r] = file
        BY <1>39, <1>1, <3>1
      <4> HIDE DEF h, answer
      <4>8. QED
        BY <2>2, <4>2, <4>5, <4>6, <4>7 DEF ReadFrom, Behind
    <3> HIDE DEF answer
    <3>4. /\ \A x \in Ensures : x # r => owner'[x] = owner[x] /\ draft'[x] = draft[x]
          /\ r \in Ensures => draft'[r] = answer
      BY <1>39, <1>1, <3>1 DEF Goes, Drafts, Launchers
    <3>5. \A x \in Ensures, a \in Replies : OneFile(x, a) => madeIn'[a.run] = madeIn[a.run]
      BY <1>7, <3>2 DEF OneFile
    <3>6. ASSUME r \in Ensures
          PROVE candidates[r] = {} /\ reply[r] = None /\ pinned[r] = None
      BY <1>1, <1>2, <2>2, <3>6
         DEF AnswerInv, LauncherInv, ChannelInv, EarlyPCs, WaitPCs, GuardPCs, Launchers
    <3>7. /\ \A x \in Ensures : /\ draft[x] \in Replies \cup {None}
                                /\ reply[x] \in Replies \cup {None}
                                /\ pinned[x] # None => pinned[x] \in Runs
                                /\ candidates[x] \subseteq Runs
          /\ \A x \in Ensures : owner[x] = "replying" => draft[x] # None
      BY <1>1, <1>2 DEF ChannelInv, Launchers
    <3>8. ASSUME NEW x \in Ensures
          PROVE  /\ (owner[x] = "replying" /\ draft[x].kind # "rejected" => OneFile(x, draft[x]))'
                 /\ (reply[x] # None /\ reply[x].kind # "rejected" /\ launcher[x] # "ended" =>
                        OneFile(x, reply[x]))'
      BY <1>2, <2>1, <3>3, <3>4, <3>5, <3>6, <3>7, <3>8 DEF AnswerInv, OneFile
    <3>9. ASSUME NEW x \in Ensures
          PROVE  /\ \A y \in candidates'[x] :
                      madeIn'[y] # 0 /\ \A f \in seen'[x].files : f.inode = madeIn'[y]
                 /\ pinned'[x] # None =>
                      /\ owner'[x] = "none" \/ reply'[x] # None
                      /\ madeIn'[pinned'[x]] # 0
                      /\ \A f \in seen'[x].files : f.inode = madeIn'[pinned'[x]]
      BY <1>2, <2>1, <3>2, <3>4, <3>6, <3>7, <3>9 DEF AnswerInv
    <3>10. QED
      BY <1>2, <2>1, <3>8, <3>9 DEF AnswerInv
  <2>4. CASE ~ (r \in Ensures => IsFirstPublication(r))
    <3>1. Rejects(r, "corrupt") /\ UNCHANGED madeIn
      BY <1>39, <2>4, Zenon DEF Publish
    <3>2. QED
      BY <1>9, <1>39, <2>1, <2>2, <3>1
  <2>5. QED
    BY <2>3, <2>4
<1>40. ASSUME NEW r \in Runs, PrecommitFails(r) PROVE AnswerInv'
  <2>1. /\ owner[r] # "none" /\ Rejects(r, "failed")
        /\ UNCHANGED <<launcher, candidates, pinned, reply, seen, madeIn>>
    BY <1>40 DEF PrecommitFails, Keeps, WaitPCs, GuardPCs, launcherVars, channelVars,
                registryVars
  <2>2. QED
    BY <1>9, <1>40, <2>1
<1>41. ASSUME NEW r \in Runs, Settle(r) PROVE AnswerInv'
  BY <1>41, <1>1, <1>2, <1>3
     DEF Settle, Keeps, Goes, AnswerInv, OneFile, ReadFrom, Behind, launcherVars, channelVars,
         ownerVars, registryVars
<1>42. ASSUME NEW r \in Runs, Finalize(r) PROVE AnswerInv'
  BY <1>42, <1>1, <1>2, <1>3
     DEF Finalize, Keeps, Goes, AnswerInv, OneFile, ReadFrom, Behind, launcherVars, channelVars,
         ownerVars, registryVars
<1>43. ASSUME NEW r \in Runs, Close(r) PROVE AnswerInv'
  BY <1>43, <1>1, <1>2, <1>3
     DEF Close, Keeps, Goes, AnswerInv, OneFile, ReadFrom, Behind, launcherVars, channelVars,
         ownerVars, registryVars
<1>44. ASSUME NEW r \in Runs, Exit(r) PROVE AnswerInv'
  BY <1>44, <1>1, <1>2, <1>3
     DEF Exit, Keeps, Goes, AnswerInv, OneFile, ReadFrom, Behind, launcherVars, channelVars,
         ownerVars, registryVars
<1>45. ASSUME NEW r \in Runs, Crash(r) PROVE AnswerInv'
  BY <1>45, <1>1, <1>2, <1>3
     DEF Crash, Keeps, Goes, AnswerInv, OneFile, ReadFrom, Behind, launcherVars, channelVars,
         ownerVars, registryVars
<1>46. CASE RemoveRegistry
  BY <1>46, <1>1, <1>2
     DEF RemoveRegistry, AnswerInv, OneFile, ReadFrom, Behind, launcherVars, channelVars,
         ownerVars, registryVars
<1>47. CASE UNCHANGED vars
  BY <1>47, <1>1, <1>2
     DEF vars, AnswerInv, OneFile, ReadFrom, Behind, launcherVars, channelVars, ownerVars,
         registryVars
<1>48. QED
  BY <1>10, <1>11, <1>12, <1>13, <1>14, <1>15, <1>16, <1>17, <1>18, <1>19, <1>20, <1>21,
     <1>22, <1>23, <1>24, <1>25, <1>26, <1>27, <1>28, <1>29, <1>30, <1>31, <1>32, <1>33,
     <1>34, <1>35, <1>36, <1>37, <1>38, <1>39, <1>40, <1>41, <1>42, <1>43, <1>44, <1>45,
     <1>46, <1>47
     DEF Next, EnsureStep, SharedStep, DaemonStep, LauncherStep, DetachedStep, OwnerStep

\* The inductive invariant of histories and answers.
THEOREM LineageInvariance == Spec => []LineageInv
<1>1. Init => LineageInv
  <2> SUFFICES ASSUME Init PROVE LineageInv
    OBVIOUS
  <2>1. \A l \in Launchers : owner[l] = "none" /\ launcher[l] \in {"idle", "ended"}
    BY EnsureAssumption DEF Init, Launchers, Runs
  <2>2. RegistryInv
    BY DEF Init, RegistryInv, Creations
  <2>3. ReadInv /\ AnswerInv
    BY <2>1 DEF Init, ReadInv, AnswerInv, Behind, Unseen, Launchers, GuardPCs
  <2>4. QED
    BY <2>2, <2>3 DEF LineageInv
<1>2. CertaintyInv /\ LineageInv /\ [Next]_vars => LineageInv'
  BY RegistryStep, ReadStep, AnswerStep DEF LineageInv
<1>3. QED
  BY <1>1, <1>2, EnsureInvariance, PTL DEF Spec

\* The run an ensure names was published in a file with the inode of every file it
\* and its owner have read, and the log of its reply is not behind what they found.
THEOREM LineageHolds == Spec => PinnedKeepsLineage
<1>1. CertaintyInv /\ LineageInv /\ [Next]_vars =>
        [\A c \in Ensures :
           pinned[c] = None /\ pinned'[c] # None =>
             /\ \A f \in seen'[c].files : f.inode = madeIn[pinned'[c]]
             /\ launcher[c] = "selecting" => seen'[c].events <= Len(log)]_vars
  <2> SUFFICES ASSUME CertaintyInv, LineageInv, [Next]_vars,
                      NEW c \in Ensures, pinned[c] = None, pinned'[c] # None
               PROVE  /\ \A f \in seen'[c].files : f.inode = madeIn[pinned'[c]]
                      /\ launcher[c] = "selecting" => seen'[c].events <= Len(log)
    OBVIOUS
  <2>1. /\ pinned \in [Ensures -> Runs \cup {None}]
        /\ reply \in [Launchers -> Replies \cup {None}] /\ Ensures \subseteq Launchers
    BY DEF CertaintyInv, TypeOK, Launchers
  <2>2. AnswerInv /\ LauncherInv
    BY DEF CertaintyInv, ToldInv, LineageInv
  <2>3. \/ EnrollSample(c)
        \/ SelectReply(c)
    <3>1. pinned' # pinned
      OBVIOUS
    <3>2. \E x \in Ensures : EnrollSample(x) \/ SelectReply(x)
      <4>1. ASSUME NEW x \in Ensures, EnsureStep(x) \/ SharedStep(x)
            PROVE  EnrollSample(x) \/ SelectReply(x)
        BY <3>1, <4>1, Zenon DEF EnsureStep, SharedStep, Keeps, launcherVars, EnrollRead,
          EnsureReceive, EnsureExpires, Resume, Seek, Try, Recheck
      <4>2. ASSUME NEW d \in Daemons, DaemonStep(d) PROVE FALSE
        BY <3>1, <4>2, Zenon DEF DaemonStep, DaemonInterrupt, DaemonReceive, DaemonGivesUp
      <4>3. ASSUME NEW l \in Launchers, LauncherStep(l) \/ DetachedStep(l) PROVE FALSE
        BY <3>1, <4>3, Zenon DEF LauncherStep, DetachedStep, Keeps, launcherVars, Spawn,
          SpawnFails, Send, Incomplete, Eof, LauncherDies, ReceiveRequest, ReceiveFails,
          Abandoned, WriteReply, LoseReply
      <4>4. ASSUME NEW r \in Daemons \cup Foregrounds, Acquire(r) PROVE FALSE
        BY <3>1, <4>4, Zenon DEF Acquire, Keeps, launcherVars
      <4>5. ASSUME NEW r \in Runs, OwnerStep(r) PROVE FALSE
        BY <3>1, <4>5, Zenon DEF OwnerStep, Keeps, launcherVars, Open, InitializeSchema,
          Recover, Prepare, Check, Publish, PrecommitFails, Settle, Finalize, Close, Exit,
          Crash
      <4>6. ~ RemoveRegistry /\ ~ UNCHANGED vars
        BY <3>1, Zenon DEF RemoveRegistry, vars, launcherVars
      <4>7. QED
        BY <4>1, <4>2, <4>3, <4>4, <4>5, <4>6, Zenon DEF Next
    <3>3. PICK x \in Ensures : EnrollSample(x) \/ SelectReply(x)
      BY <3>2
    <3>4. \A y \in Ensures : y # x => pinned'[y] = pinned[y]
      BY <2>1, <3>3 DEF EnrollSample, SelectReply
    <3>5. QED
      BY <3>3, <3>4
  <2>4. CASE EnrollSample(c)
    <3>1. pinned'[c] \in candidates[c] /\ launcher[c] = "sampling" /\ seen' = seen
      BY <2>1, <2>4 DEF EnrollSample
    <3>2. QED
      BY <2>2, <3>1 DEF AnswerInv
  <2>5. CASE SelectReply(c)
    <3> DEFINE a == reply[c]
    <3>1. launcher[c] = "selecting" /\ a \in Replies /\ a # None
      BY <2>1, <2>2, <2>5 DEF SelectReply, LauncherInv
    <3>2. a.hist \in Histories /\ OneFile(c, a)
      BY <2>2, <3>1 DEF Replies, AnswerInv
    <3>3. Readable(a.hist) /\ pinned'[c] = a.run /\ Sees(c)
      BY <2>1, <2>5 DEF SelectReply
    <3>4. /\ Behind(seen[c], a.hist) /\ a.hist.file = madeIn[a.run]
          /\ a.hist.phase # "unseen"
      BY <3>2 DEF OneFile, ReadFrom
    <3>5. Readable(a.hist) => a.hist.phase = "unseen" \/ a.hist.file = file
      BY DEF Readable, Continues, Now
    <3>6. /\ seen'[c].events <= Len(log)
          /\ \A f \in seen'[c].files : f \in seen[c].files \/ f.inode = file
      BY <3>2, <3>3, <3>4, ReadAdvances
    <3>7. \A f \in seen[c].files : f.inode = a.hist.file
      BY <3>4 DEF Behind, ReadFrom
    <3>8. QED
      BY <3>3, <3>4, <3>5, <3>6, <3>7
  <2>6. QED
    BY <2>3, <2>4, <2>5
<1>2. QED
  BY <1>1, EnsureInvariance, LineageInvariance, PTL DEF Spec, PinnedKeepsLineage

-----------------------------------------------------------------------------
(* The registry nobody removed.                                            *)

\* There is one file, and it stays at the path once it is made.
Intact == files <= 1 /\ file = files

\* A session that is not finished is the latest one, and there is none when a
\* run is about to be published.
OrderInv ==
  /\ \A i \in Creations : log[i].run \notin finished => \A j \in Creations : j <= i
  /\ \A r \in Runs : owner[r] \in {"prepare", "check", "publish"} => Created \subseteq finished

\* A history is of file f and not ahead of its schema and its n events.
PastOf(h, f, hasSchema, n) ==
  \/ h.phase = "unseen"
  \/ /\ f # 0
     /\ h.file = f
     /\ h.phase = "complete" => hasSchema /\ h.greatest <= n

Past(h) == PastOf(h, file, schema, Len(log))

PastInv ==
  \A c \in Ensures :
    /\ Past(hist[c]) /\ Past(learned[c])
    /\ draft[c] # None => Past(draft[c].hist)
    /\ reply[c] # None => Past(reply[c].hist)
    /\ mark[c] # None => mark[c] <= Len(log)

\* The history of an owner continues that of its ensure.
CursorInv ==
  \A c \in Ensures :
    /\ owner[c] \in {"seek", "try"} \cup GuardPCs => Continues(hist[c], learned[c])
    /\ owner[c] = "replying" /\ draft[c].kind # "rejected" =>
         Continues(hist[c], draft[c].hist)
    /\ reply[c] # None /\ reply[c].kind # "rejected" /\ launcher[c] # "ended" =>
         Continues(hist[c], reply[c].hist)

\* Among the publications C of the log l, r is the latest session at the watermark w.
LatestAt(C, l, r, w) ==
  \E i \in C : i <= w /\ l[i].run = r /\ \A j \in C : j <= w => j <= i

\* An answer names the publication that has the number i in the log l.
Names(l, i, answer) ==
  /\ i # 0
  /\ l[i].run = answer.run
  /\ answer.kind = "existing" => answer.seq = i

\* What an ensure may name, and when its owner may publish.
FirstInv ==
  \A c \in Ensures :
    /\ \A r \in candidates[c] : LatestAt(Creations, log, r, mark[c])
    /\ owner[c] \in GuardPCs \ {"guarded"} => FirstOf(Creations, mark[c]) = 0
    /\ draft[c] # None /\ draft[c].kind # "rejected" =>
         Names(log, FirstOf(Creations, mark[c]), draft[c])
    /\ reply[c] # None /\ reply[c].kind # "rejected" =>
         Names(log, FirstOf(Creations, mark[c]), reply[c])

\* The inductive invariant of a registry nobody removes.
IntactInv == Intact /\ OrderInv /\ PastInv /\ CursorInv /\ FirstInv /\ NoFalseCorruption

\* The log grows by settlements or by one publication, of the owner in the slot.
LEMMA LogGrows ==
  ASSUME CertaintyInv, [Next]_vars, ~ RemoveRegistry
  PROVE  \/ \E t \in Seq({e \in Events : e.kind = "settled"}) : log' = log \o t
         \/ \E r \in Runs : owner[r] = "publish" /\ log' = Append(log, Event("created", r))
<1>1. log \in Seq(Events)
  BY DEF CertaintyInv, TypeOK
<1>2. CASE log' = log
  <2>1. << >> \in Seq({e \in Events : e.kind = "settled"}) /\ log \o << >> = log
    BY <1>1, EmptySeq, ConcatEmptySeq
  <2>2. QED
    BY <1>2, <2>1
<1>3. ASSUME NEW r \in Runs, Publish(r), log' # log
      PROVE  owner[r] = "publish" /\ log' = Append(log, Event("created", r))
  BY <1>3, Zenon DEF Publish
<1>4. ASSUME NEW r \in Runs, Recover(r)
      PROVE  \E t \in Seq({e \in Events : e.kind = "settled"}) : log' = log \o t
  BY <1>1, <1>4, RecoverySettles
<1>5. ASSUME NEW r \in Runs, Settle(r)
      PROVE  \E t \in Seq({e \in Events : e.kind = "settled"}) : log' = log \o t
  BY <1>1, <1>5, SettlesOne DEF Settle
<1>6. log' = log \/ \E r \in Runs : Publish(r) \/ Recover(r) \/ Settle(r)
  <2>1. ASSUME NEW c \in Ensures, EnsureStep(c) \/ SharedStep(c) PROVE log' = log
    BY <2>1, Zenon DEF EnsureStep, SharedStep, registryVars, EnrollRead, EnrollSample,
      EnsureReceive, SelectReply, EnsureExpires, Resume, Seek, Try, Recheck
  <2>2. ASSUME NEW d \in Daemons, DaemonStep(d) PROVE log' = log
    BY <2>2, Zenon
       DEF DaemonStep, registryVars, DaemonInterrupt, DaemonReceive, DaemonGivesUp
  <2>3. ASSUME NEW l \in Launchers, LauncherStep(l) \/ DetachedStep(l) PROVE log' = log
    BY <2>3, Zenon DEF LauncherStep, DetachedStep, registryVars, Spawn, SpawnFails, Send,
      Incomplete, Eof, LauncherDies, ReceiveRequest, ReceiveFails, Abandoned, WriteReply,
      LoseReply
  <2>4. ASSUME NEW r \in Daemons \cup Foregrounds, Acquire(r) PROVE log' = log
    BY <2>4, Zenon DEF Acquire, registryVars
  <2>5. ASSUME NEW r \in Runs, OwnerStep(r)
        PROVE  log' = log \/ Publish(r) \/ Recover(r) \/ Settle(r)
    BY <2>5, Zenon DEF OwnerStep, registryVars, Open, InitializeSchema, Prepare, Check,
      PrecommitFails, Finalize, Close, Exit, Crash
  <2>6. UNCHANGED vars => log' = log
    BY DEF vars, registryVars
  <2>7. QED
    BY <2>1, <2>2, <2>3, <2>4, <2>5, <2>6 DEF Next
<1>7. QED
  BY <1>2, <1>3, <1>4, <1>5, <1>6

\* What was published stays where it is, and so does the first after a watermark.
LEMMA LogKeeps ==
  ASSUME CertaintyInv, [Next]_vars, ~ RemoveRegistry
  PROVE  /\ Len(log) \in Nat /\ Len(log') \in Nat /\ Len(log) <= Len(log')
         /\ \A i \in Creations : /\ i \in Creations' /\ log'[i] = log[i]
                                 /\ i \in Nat /\ i <= Len(log)
         /\ \A i \in Creations' : i \in Nat /\ (i \in Creations \/ i > Len(log))
         /\ \A w \in Nat : FirstAfter(w) # 0 =>
              FirstAfter(w)' = FirstAfter(w) /\ FirstAfter(w) \in Creations
<1>1. log \in Seq(Events)
  BY DEF CertaintyInv, TypeOK
<1>2. Len(log) \in Nat /\ \A i \in Creations : i \in Nat /\ i <= Len(log)
  BY <1>1, LenProperties DEF Creations
<1>3. \A w \in Nat : FirstAfter(w) # 0 => FirstAfter(w) \in Creations
  BY <1>1, FirstAfterIsFirst
<1>4. CASE \E t \in Seq({e \in Events : e.kind = "settled"}) : log' = log \o t
  BY <1>1, <1>2, <1>3, <1>4, SettlesOnly
<1>5. CASE \E r \in Runs : owner[r] = "publish" /\ log' = Append(log, Event("created", r))
  <2>1. PICK r \in Runs : log' = Append(log, Event("created", r))
    BY <1>5
  <2>2. /\ Creations' = Creations \cup {Len(log) + 1} /\ Len(log') = Len(log) + 1
        /\ \A i \in Creations : log'[i] = log[i]
        /\ \A w \in Nat : FirstAfter(w) # 0 => FirstAfter(w)' = FirstAfter(w)
    BY <1>1, <2>1, PublishesOne
  <2>3. QED
    BY <1>2, <1>3, <2>2
<1>6. QED
  BY <1>4, <1>5, LogGrows

\* A run is published when all others are finished.
LEMMA OrderStep == CertaintyInv /\ OrderInv /\ [Next]_vars => OrderInv'
<1> SUFFICES ASSUME CertaintyInv, OrderInv, [Next]_vars
             PROVE  OrderInv'
  OBVIOUS
<1>1. /\ launcher \in [Launchers -> LauncherPCs]
      /\ mark \in [Ensures -> Nat \cup {None}]
      /\ hist \in [Ensures -> Histories]
      /\ candidates \in [Ensures -> SUBSET Runs]
      /\ pinned \in [Ensures -> Runs \cup {None}]
      /\ owner \in [Runs -> OwnerPCs]
      /\ learned \in [Ensures -> Histories]
      /\ draft \in [Launchers -> Replies \cup {None}]
      /\ reply \in [Launchers -> Replies \cup {None}]
      /\ madeIn \in [Runs -> 0..MaxFiles]
      /\ seen \in [Ensures -> [files : SUBSET Files, events : Nat]]
      /\ file \in 0..MaxFiles /\ log \in Seq(Events) /\ Len(log) \in Nat
      /\ Ensures \subseteq Launchers /\ Daemons \subseteq Launchers
      /\ Launchers \subseteq Runs /\ Foregrounds \subseteq Runs
      /\ None \notin Runs /\ None \notin Nat /\ None \notin Replies /\ MaxFiles \in Nat
  BY LenProperties, EnsureAssumption, NoneAssumption
     DEF CertaintyInv, TypeOK, Launchers, Runs
<1>2. UNCHANGED log => Creations' = Creations /\ Created' = Created
  BY DEF Creations, Created
<1>3. \A r \in Runs : owner[r] \in GuardPCs \cup SessionPCs => holder = r
  BY DEF CertaintyInv, ToldInv, GuardInv
<1>4. \A i \in Creations : i \in Nat /\ i <= Len(log)
  BY <1>1, LenProperties DEF Creations
<1>5. ASSUME NEW r \in Runs, NEW to, Goes(r, to), UNCHANGED <<log, finished>>,
             to \in {"prepare", "check", "publish"} =>
               owner[r] \in {"prepare", "check", "publish"}
      PROVE  OrderInv'
  BY <1>1, <1>2, <1>5 DEF Goes, OrderInv
<1>6. UNCHANGED <<owner, log, finished>> => OrderInv'
  BY <1>2 DEF OrderInv
<1>7. ASSUME NEW c \in Ensures, EnrollRead(c) PROVE OrderInv'
  BY <1>7, <1>6 DEF EnrollRead, registryVars, ownerVars
<1>8. ASSUME NEW c \in Ensures, EnrollSample(c) PROVE OrderInv'
  BY <1>8, <1>6 DEF EnrollSample, registryVars, ownerVars
<1>9. ASSUME NEW c \in Ensures, EnsureReceive(c) PROVE OrderInv'
  BY <1>9, <1>6 DEF EnsureReceive, registryVars, ownerVars
<1>10. ASSUME NEW c \in Ensures, SelectReply(c) PROVE OrderInv'
  BY <1>10, <1>6 DEF SelectReply, registryVars, ownerVars
<1>11. ASSUME NEW c \in Ensures, EnsureExpires(c) PROVE OrderInv'
  BY <1>11, <1>6 DEF EnsureExpires, registryVars, ownerVars
<1>12. ASSUME NEW c \in Ensures, Resume(c) PROVE OrderInv'
  BY <1>12, <1>5, <1>1 DEF Resume, Rejects, registryVars
<1>13. ASSUME NEW c \in Ensures, Seek(c) PROVE OrderInv'
  BY <1>13, <1>5, <1>1 DEF Seek, Rejects, registryVars
<1>14. ASSUME NEW c \in Ensures, Try(c) PROVE OrderInv'
  BY <1>14, <1>5, <1>1 DEF Try, registryVars
<1>15. ASSUME NEW c \in Ensures, Recheck(c) PROVE OrderInv'
  BY <1>15, <1>5, <1>1 DEF Recheck, Rejects, registryVars
<1>16. ASSUME NEW d \in Daemons, DaemonInterrupt(d) PROVE OrderInv'
  BY <1>16, <1>6 DEF DaemonInterrupt, registryVars, ownerVars
<1>17. ASSUME NEW d \in Daemons, DaemonReceive(d) PROVE OrderInv'
  BY <1>17, <1>6 DEF DaemonReceive, registryVars, ownerVars
<1>18. ASSUME NEW d \in Daemons, DaemonGivesUp(d) PROVE OrderInv'
  BY <1>18, <1>6 DEF DaemonGivesUp, registryVars, ownerVars
<1>19. ASSUME NEW l \in Launchers, Spawn(l) PROVE OrderInv'
  BY <1>19, <1>5, <1>1 DEF Spawn, Goes, registryVars
<1>20. ASSUME NEW l \in Launchers, SpawnFails(l) PROVE OrderInv'
  BY <1>20, <1>6 DEF SpawnFails, registryVars, ownerVars
<1>21. ASSUME NEW l \in Launchers, Send(l) PROVE OrderInv'
  BY <1>21, <1>6 DEF Send, registryVars, ownerVars
<1>22. ASSUME NEW l \in Launchers, Incomplete(l) PROVE OrderInv'
  BY <1>22, <1>5, <1>1 DEF Incomplete, Goes, registryVars
<1>23. ASSUME NEW l \in Launchers, Eof(l) PROVE OrderInv'
  BY <1>23, <1>6 DEF Eof, registryVars, ownerVars
<1>24. ASSUME NEW l \in Launchers, LauncherDies(l) PROVE OrderInv'
  BY <1>24, <1>6 DEF LauncherDies, registryVars, ownerVars
<1>25. ASSUME NEW l \in Launchers, ReceiveRequest(l) PROVE OrderInv'
  BY <1>25, <1>5, <1>1 DEF ReceiveRequest, registryVars
<1>26. ASSUME NEW l \in Launchers, ReceiveFails(l) PROVE OrderInv'
  BY <1>26, <1>5, <1>1 DEF ReceiveFails, registryVars
<1>27. ASSUME NEW l \in Launchers, Abandoned(l) PROVE OrderInv'
  BY <1>27, <1>5, <1>1 DEF Abandoned, Rejects, registryVars
<1>28. ASSUME NEW l \in Launchers, WriteReply(l) PROVE OrderInv'
  BY <1>28, <1>5, <1>1 DEF WriteReply, AfterReply, registryVars
<1>29. ASSUME NEW l \in Launchers, LoseReply(l) PROVE OrderInv'
  BY <1>29, <1>5, <1>1 DEF LoseReply, AfterReply, registryVars
<1>30. ASSUME NEW r \in Daemons \cup Foregrounds, Acquire(r) PROVE OrderInv'
  BY <1>30, <1>5, <1>1 DEF Acquire, Rejects, registryVars
<1>31. ASSUME NEW r \in Runs, Open(r) PROVE OrderInv'
  BY <1>31, <1>5, <1>1 DEF Open
<1>32. ASSUME NEW r \in Runs, InitializeSchema(r) PROVE OrderInv'
  BY <1>32, <1>5, <1>1 DEF InitializeSchema
<1>33. ASSUME NEW r \in Runs, Recover(r) PROVE OrderInv'
  <2>1. Creations' = Creations /\ Created' = Created /\ \A i \in Creations : log'[i] = log[i]
    BY <1>33, <1>1, RecoverySettles, SettlesOnly
  <2>2. finished' = finished \cup Created
    BY <1>33 DEF Recover, Unfinished
  <2>3. QED
    BY <2>1, <2>2 DEF OrderInv, Created
<1>34. ASSUME NEW r \in Runs, Prepare(r) PROVE OrderInv'
  BY <1>34, <1>5, <1>1 DEF Prepare, registryVars
<1>35. ASSUME NEW r \in Runs, Check(r) PROVE OrderInv'
  BY <1>35, <1>5, <1>1 DEF Check, registryVars
<1>36. ASSUME NEW r \in Runs, Publish(r) PROVE OrderInv'
  <2>1. owner[r] = "publish"
    BY <1>36 DEF Publish
  <2>2. CASE r \in Ensures => IsFirstPublication(r)
    <3>1. /\ log' = Append(log, Event("created", r)) /\ UNCHANGED finished
          /\ \E to \in {"replying", "session"} : Goes(r, to)
      BY <1>36, <2>2, Zenon DEF Publish
    <3>2. /\ Creations' = Creations \cup {Len(log) + 1}
          /\ \A i \in Creations : log'[i] = log[i]
      BY <1>1, <1>36, <3>1, PublishesOne
    <3>3. \A i \in Creations : log[i].run \in finished
      BY <1>36, <2>1 DEF OrderInv, Created
    <3>4. \A x \in Runs : owner'[x] \notin {"prepare", "check", "publish"}
      BY <1>1, <1>3, <1>36, <2>1, <3>1 DEF Goes, GuardPCs
    <3>5. ASSUME NEW i \in Creations', log'[i].run \notin finished', NEW j \in Creations'
          PROVE  j <= i
      <4>1. i = Len(log) + 1
        BY <3>1, <3>2, <3>3, <3>5
      <4>2. QED
        BY <1>1, <1>4, <3>2, <4>1
    <3>6. QED
      BY <3>4, <3>5 DEF OrderInv
  <2>3. CASE ~ (r \in Ensures => IsFirstPublication(r))
    <3>1. Rejects(r, "corrupt") /\ UNCHANGED <<log, finished>>
      BY <1>36, <2>3, Zenon DEF Publish
    <3>2. QED
      BY <1>5, <1>36, <3>1 DEF Rejects
  <2>4. QED
    BY <2>2, <2>3
<1>37. ASSUME NEW r \in Runs, PrecommitFails(r) PROVE OrderInv'
  BY <1>37, <1>5, <1>1 DEF PrecommitFails, Rejects, registryVars
<1>38. ASSUME NEW r \in Runs, Settle(r) PROVE OrderInv'
  <2>1. Creations' = Creations /\ Created' = Created /\ \A i \in Creations : log'[i] = log[i]
    BY <1>38, <1>1, SettlesOne, SettlesOnly DEF Settle
  <2>2. Goes(r, "finalize") /\ UNCHANGED finished
    BY <1>38 DEF Settle
  <2>3. QED
    BY <1>1, <2>1, <2>2 DEF OrderInv, Goes
<1>39. ASSUME NEW r \in Runs, Finalize(r) PROVE OrderInv'
  <2>1. Goes(r, "close") /\ UNCHANGED log /\ finished \subseteq finished'
    BY <1>39 DEF Finalize
  <2>2. QED
    BY <1>1, <1>2, <2>1 DEF OrderInv, Goes
<1>40. ASSUME NEW r \in Runs, Close(r) PROVE OrderInv'
  BY <1>40, <1>5, <1>1 DEF Close, registryVars
<1>41. ASSUME NEW r \in Runs, Exit(r) PROVE OrderInv'
  BY <1>41, <1>5, <1>1 DEF Exit, registryVars
<1>42. ASSUME NEW r \in Runs, Crash(r) PROVE OrderInv'
  BY <1>42, <1>5, <1>1 DEF Crash, registryVars
<1>43. CASE RemoveRegistry
  <2>1. log' = <<>> /\ owner' = owner
    BY <1>43 DEF RemoveRegistry, ownerVars
  <2>2. Creations' = {} /\ Created' = {}
    BY <2>1 DEF Creations, Created
  <2>3. QED
    BY <2>2 DEF OrderInv
<1>44. CASE UNCHANGED vars
  BY <1>44, <1>6 DEF vars, ownerVars, registryVars
<1>45. QED
  BY <1>7, <1>8, <1>9, <1>10, <1>11, <1>12, <1>13, <1>14, <1>15, <1>16, <1>17, <1>18,
     <1>19, <1>20, <1>21, <1>22, <1>23, <1>24, <1>25, <1>26, <1>27, <1>28, <1>29, <1>30,
     <1>31, <1>32, <1>33, <1>34, <1>35, <1>36, <1>37, <1>38, <1>39, <1>40, <1>41, <1>42,
     <1>43, <1>44
     DEF Next, EnsureStep, SharedStep, DaemonStep, LauncherStep, DetachedStep, OwnerStep

\* Without a removal the file and its schema stay once they are made.
LEMMA FileKeeps ==
  ASSUME CertaintyInv, Intact, [Next]_vars, ~ RemoveRegistry
  PROVE  /\ Intact'
         /\ file # 0 => file' = file
         /\ schema => schema'
<1>1. \/ UNCHANGED <<file, files, schema>>
      \/ \E r \in Runs : Open(r) \/ InitializeSchema(r)
  <2>1. ASSUME NEW c \in Ensures, EnsureStep(c) \/ SharedStep(c)
        PROVE  UNCHANGED <<file, files, schema>>
    BY <2>1, Zenon DEF EnsureStep, SharedStep, registryVars, EnrollRead, EnrollSample,
      EnsureReceive, SelectReply, EnsureExpires, Resume, Seek, Try, Recheck
  <2>2. ASSUME NEW d \in Daemons, DaemonStep(d) PROVE UNCHANGED <<file, files, schema>>
    BY <2>2, Zenon
       DEF DaemonStep, registryVars, DaemonInterrupt, DaemonReceive, DaemonGivesUp
  <2>3. ASSUME NEW l \in Launchers, LauncherStep(l) \/ DetachedStep(l)
        PROVE  UNCHANGED <<file, files, schema>>
    BY <2>3, Zenon DEF LauncherStep, DetachedStep, registryVars, Spawn, SpawnFails, Send,
      Incomplete, Eof, LauncherDies, ReceiveRequest, ReceiveFails, Abandoned, WriteReply,
      LoseReply
  <2>4. ASSUME NEW r \in Daemons \cup Foregrounds, Acquire(r)
        PROVE  UNCHANGED <<file, files, schema>>
    BY <2>4, Zenon DEF Acquire, registryVars
  <2>5. ASSUME NEW r \in Runs, OwnerStep(r)
        PROVE  UNCHANGED <<file, files, schema>> \/ Open(r) \/ InitializeSchema(r)
    BY <2>5, Zenon DEF OwnerStep, registryVars, Recover, Prepare, Check, Publish,
      PrecommitFails, Settle, Finalize, Close, Exit, Crash
  <2>6. UNCHANGED vars => UNCHANGED <<file, files, schema>>
    BY DEF vars, registryVars
  <2>7. QED
    BY <2>1, <2>2, <2>3, <2>4, <2>5, <2>6 DEF Next
<1>2. files \in Nat /\ file \in Nat
  BY EnsureAssumption DEF CertaintyInv, TypeOK
<1>3. ASSUME NEW r \in Runs, Open(r)
      PROVE  Intact' /\ (file # 0 => file' = file) /\ UNCHANGED schema
  BY <1>2, <1>3 DEF Open, Intact
<1>4. ASSUME NEW r \in Runs, InitializeSchema(r)
      PROVE  UNCHANGED <<file, files>> /\ schema'
  BY <1>4 DEF InitializeSchema
<1>5. QED
  BY <1>1, <1>3, <1>4 DEF Intact

\* No history gets ahead of the registry, and no watermark does.
LEMMA PastStep ==
  CertaintyInv /\ RegistryInv /\ Intact /\ PastInv /\ [Next]_vars /\ ~ RemoveRegistry
    => PastInv'
<1> SUFFICES ASSUME CertaintyInv, RegistryInv, Intact, PastInv, [Next]_vars,
                    ~ RemoveRegistry
             PROVE  PastInv'
  OBVIOUS
<1>1. /\ launcher \in [Launchers -> LauncherPCs]
      /\ mark \in [Ensures -> Nat \cup {None}]
      /\ hist \in [Ensures -> Histories]
      /\ candidates \in [Ensures -> SUBSET Runs]
      /\ pinned \in [Ensures -> Runs \cup {None}]
      /\ owner \in [Runs -> OwnerPCs]
      /\ learned \in [Ensures -> Histories]
      /\ draft \in [Launchers -> Replies \cup {None}]
      /\ reply \in [Launchers -> Replies \cup {None}]
      /\ madeIn \in [Runs -> 0..MaxFiles]
      /\ seen \in [Ensures -> [files : SUBSET Files, events : Nat]]
      /\ file \in 0..MaxFiles /\ log \in Seq(Events) /\ Len(log) \in Nat
      /\ Ensures \subseteq Launchers /\ Daemons \subseteq Launchers
      /\ Launchers \subseteq Runs /\ Foregrounds \subseteq Runs
      /\ None \notin Runs /\ None \notin Nat /\ None \notin Replies /\ MaxFiles \in Nat
  BY LenProperties, EnsureAssumption, NoneAssumption
     DEF CertaintyInv, TypeOK, Launchers, Runs
<1> DEFINE Stays(h) == PastOf(h, file', schema', Len(log'))
<1>2. Len(log') \in Nat /\ Len(log) <= Len(log')
  BY LogKeeps
<1>3. \A h \in Histories : Past(h) => Stays(h)
  BY <1>1, <1>2, FileKeeps DEF Past, PastOf, Histories
<1>4. \A h : Past(h) => Stays(Advanced(h))
  <2>1. file # 0 => Stays(Now)
    BY <1>1, <1>2, FileKeeps DEF PastOf, Now
  <2>2. file = 0 => \A h : Past(h) => h.phase = "unseen"
    BY DEF Past, PastOf
  <2>3. QED
    BY <2>1, <2>2 DEF Advanced, PastOf
<1>5. Stays(Unseen)
  BY DEF PastOf, Unseen
<1>6. \A a \in Replies : a.hist \in Histories
  BY DEF Replies
<1>7. /\ \A r, h : Established(r, h).hist = h
      /\ \A i, h : Existing(i, h).hist = h
      /\ \A r, why : Rejected(r, why).hist = Unseen
  BY DEF Established, Existing, Rejected
<1> HIDE DEF Stays
<1>8. /\ \A c \in Ensures : /\ Stays(hist[c]) /\ Stays(learned[c])
                            /\ draft[c] # None => Stays(draft[c].hist)
                            /\ reply[c] # None => Stays(reply[c].hist)
                            /\ mark[c] # None => mark[c] <= Len(log')
      /\ \A c \in Ensures : Stays(Advanced(hist[c])) /\ Stays(Advanced(learned[c]))
      /\ \A c \in Ensures : reply[c] # None => Stays(Advanced(reply[c].hist))
  BY <1>1, <1>2, <1>3, <1>4, <1>6 DEF PastInv
<1>9. SUFFICES
        \A c \in Ensures : /\ Stays(hist'[c]) /\ Stays(learned'[c])
                           /\ draft'[c] # None => Stays(draft'[c].hist)
                           /\ reply'[c] # None => Stays(reply'[c].hist)
                           /\ mark'[c] # None => mark'[c] <= Len(log')
  BY DEF PastInv, Past, Stays
<1> DEFINE Goal == \A c \in Ensures : /\ Stays(hist'[c]) /\ Stays(learned'[c])
                                      /\ draft'[c] # None => Stays(draft'[c].hist)
                                      /\ reply'[c] # None => Stays(reply'[c].hist)
                                      /\ mark'[c] # None => mark'[c] <= Len(log')
<1>10. ASSUME NEW c \in Ensures, EnrollRead(c) PROVE Goal
  BY <1>10, <1>1, <1>2, <1>8 DEF EnrollRead, launcherVars, channelVars, ownerVars
<1>11. ASSUME NEW c \in Ensures, EnrollSample(c) PROVE Goal
  BY <1>11, <1>1, <1>2, <1>8 DEF EnrollSample, launcherVars, channelVars, ownerVars
<1>12. ASSUME NEW c \in Ensures, EnsureReceive(c) PROVE Goal
  BY <1>12, <1>1, <1>2, <1>8 DEF EnsureReceive, launcherVars, channelVars, ownerVars
<1>13. ASSUME NEW c \in Ensures, SelectReply(c) PROVE Goal
  <2>1. /\ \/ UNCHANGED hist
           \/ hist' = [hist EXCEPT ![c] = Advanced(reply[c].hist)]
        /\ UNCHANGED <<mark, reply, draft, learned>>
    BY <1>13, Zenon DEF SelectReply, channelVars, ownerVars
  <2>2. reply[c] # None
    BY <1>13 DEF SelectReply, CertaintyInv, ToldInv, LauncherInv, Launchers
  <2>3. \A x \in Ensures : \/ hist'[x] = hist[x]
                           \/ reply[x] # None /\ hist'[x] = Advanced(reply[x].hist)
    BY <1>13, <1>1, <2>1, <2>2
  <2>4. QED
    BY <1>2, <1>8, <2>1, <2>3
<1>14. ASSUME NEW c \in Ensures, EnsureExpires(c) PROVE Goal
  BY <1>14, <1>1, <1>2, <1>8 DEF EnsureExpires, launcherVars, channelVars, ownerVars
<1>15. ASSUME NEW c \in Ensures, Resume(c) PROVE Goal
  <2>1. /\ UNCHANGED <<hist, mark, reply>>
        /\ \/ UNCHANGED learned
           \/ learned' = [learned EXCEPT ![c] = Advanced(hist[c])]
        /\ \/ UNCHANGED draft
           \/ \E why : Drafts(c, Rejected(c, why))
    BY <1>15, Zenon DEF Resume, Rejects, Keeps, launcherVars, channelVars
  <2>2. /\ \A x \in Ensures : learned'[x] \in {learned[x], Advanced(hist[x])}
        /\ \A x \in Ensures : draft'[x] = draft[x] \/ draft'[x].hist = Unseen
    BY <1>15, <1>1, <1>7, <2>1 DEF Drafts
  <2>3. QED
    BY <1>2, <1>5, <1>8, <2>1, <2>2
<1>16. ASSUME NEW c \in Ensures, Seek(c) PROVE Goal
  <2>1. /\ UNCHANGED <<hist, mark, reply>>
        /\ \/ UNCHANGED learned
           \/ learned' = [learned EXCEPT ![c] = Advanced(@)]
        /\ \/ UNCHANGED draft
           \/ \E i : Drafts(c, Existing(i, Advanced(learned[c])))
           \/ \E why : Drafts(c, Rejected(c, why))
    BY <1>16, Zenon DEF Seek, Rejects, Keeps, launcherVars, channelVars
  <2>2. /\ \A x \in Ensures : learned'[x] \in {learned[x], Advanced(learned[x])}
        /\ \A x \in Ensures : \/ draft'[x] = draft[x]
                              \/ draft'[x].hist \in {Advanced(learned[x]), Unseen}
    BY <1>16, <1>1, <1>7, <2>1 DEF Drafts
  <2>3. QED
    BY <1>2, <1>5, <1>8, <2>1, <2>2
<1>17. ASSUME NEW c \in Ensures, Try(c) PROVE Goal
  BY <1>17, <1>1, <1>2, <1>8 DEF Try, Keeps, launcherVars, channelVars, ownerVars
<1>18. ASSUME NEW c \in Ensures, Recheck(c) PROVE Goal
  <2>1. /\ UNCHANGED <<hist, mark, reply>>
        /\ \/ UNCHANGED learned
           \/ learned' = [learned EXCEPT ![c] = Advanced(@)]
        /\ \/ UNCHANGED draft
           \/ \E why : Drafts(c, Rejected(c, why))
    BY <1>18, Zenon DEF Recheck, Rejects, Keeps, launcherVars, channelVars
  <2>2. /\ \A x \in Ensures : learned'[x] \in {learned[x], Advanced(learned[x])}
        /\ \A x \in Ensures : draft'[x] = draft[x] \/ draft'[x].hist = Unseen
    BY <1>18, <1>1, <1>7, <2>1 DEF Drafts
  <2>3. QED
    BY <1>2, <1>5, <1>8, <2>1, <2>2
<1>19. ASSUME NEW d \in Daemons, DaemonInterrupt(d) PROVE Goal
  BY <1>19, <1>1, <1>2, <1>8 DEF DaemonInterrupt, launcherVars, channelVars, ownerVars
<1>20. ASSUME NEW d \in Daemons, DaemonReceive(d) PROVE Goal
  BY <1>20, <1>1, <1>2, <1>8 DEF DaemonReceive, launcherVars, channelVars, ownerVars
<1>21. ASSUME NEW d \in Daemons, DaemonGivesUp(d) PROVE Goal
  BY <1>21, <1>1, <1>2, <1>8 DEF DaemonGivesUp, launcherVars, channelVars, ownerVars
<1>22. ASSUME NEW l \in Launchers, Spawn(l) PROVE Goal
  BY <1>22, <1>1, <1>2, <1>8 DEF Spawn, launcherVars, channelVars, ownerVars
<1>23. ASSUME NEW l \in Launchers, SpawnFails(l) PROVE Goal
  BY <1>23, <1>1, <1>2, <1>8 DEF SpawnFails, launcherVars, channelVars, ownerVars
<1>24. ASSUME NEW l \in Launchers, Send(l) PROVE Goal
  BY <1>24, <1>1, <1>2, <1>8 DEF Send, launcherVars, channelVars, ownerVars
<1>25. ASSUME NEW l \in Launchers, Incomplete(l) PROVE Goal
  BY <1>25, <1>1, <1>2, <1>8 DEF Incomplete, launcherVars, channelVars, ownerVars
<1>26. ASSUME NEW l \in Launchers, Eof(l) PROVE Goal
  BY <1>26, <1>1, <1>2, <1>8 DEF Eof, launcherVars, channelVars, ownerVars
<1>27. ASSUME NEW l \in Launchers, LauncherDies(l) PROVE Goal
  BY <1>27, <1>1, <1>2, <1>8 DEF LauncherDies, launcherVars, channelVars, ownerVars
<1>28. ASSUME NEW l \in Launchers, ReceiveRequest(l) PROVE Goal
  BY <1>28, <1>1, <1>2, <1>8
     DEF ReceiveRequest, Keeps, launcherVars, channelVars, ownerVars
<1>29. ASSUME NEW l \in Launchers, ReceiveFails(l) PROVE Goal
  BY <1>29, <1>1, <1>2, <1>8 DEF ReceiveFails, Keeps, launcherVars, channelVars, ownerVars
<1>30. ASSUME NEW l \in Launchers, Abandoned(l) PROVE Goal
  BY <1>30, <1>1, <1>2, <1>5, <1>7, <1>8
     DEF Abandoned, Rejects, Keeps, Drafts, launcherVars, channelVars, ownerVars
<1>31. ASSUME NEW l \in Launchers, WriteReply(l) PROVE Goal
  BY <1>31, <1>1, <1>2, <1>8 DEF WriteReply, launcherVars, channelVars, ownerVars
<1>32. ASSUME NEW l \in Launchers, LoseReply(l) PROVE Goal
  BY <1>32, <1>1, <1>2, <1>8 DEF LoseReply, Keeps, launcherVars, channelVars, ownerVars
<1>33. ASSUME NEW r \in Daemons \cup Foregrounds, Acquire(r) PROVE Goal
  BY <1>33, <1>1, <1>2, <1>5, <1>7, <1>8
     DEF Acquire, Rejects, Keeps, Drafts, launcherVars, channelVars, ownerVars
<1>34. ASSUME NEW r \in Runs, Open(r) PROVE Goal
  BY <1>34, <1>1, <1>2, <1>8 DEF Open, Keeps, launcherVars, channelVars, ownerVars
<1>35. ASSUME NEW r \in Runs, InitializeSchema(r) PROVE Goal
  BY <1>35, <1>1, <1>2, <1>8
     DEF InitializeSchema, Keeps, launcherVars, channelVars, ownerVars
<1>36. ASSUME NEW r \in Runs, Recover(r) PROVE Goal
  BY <1>36, <1>1, <1>2, <1>8 DEF Recover, Keeps, launcherVars, channelVars, ownerVars
<1>37. ASSUME NEW r \in Runs, Prepare(r) PROVE Goal
  BY <1>37, <1>1, <1>2, <1>8 DEF Prepare, Keeps, launcherVars, channelVars, ownerVars
<1>38. ASSUME NEW r \in Runs, Check(r) PROVE Goal
  BY <1>38, <1>1, <1>2, <1>8 DEF Check, Keeps, launcherVars, channelVars, ownerVars
<1>39. ASSUME NEW r \in Runs, Publish(r) PROVE Goal
  <2>1. CASE r \in Ensures => IsFirstPublication(r)
    <3> DEFINE next == [Now EXCEPT !.greatest = @ + 1]
    <3>1. /\ UNCHANGED <<hist, mark, reply>>
          /\ learned' = IF r \in Ensures THEN [learned EXCEPT ![r] = next] ELSE learned
          /\ Drafts(r, Established(r, IF r \in Ensures THEN learned'[r] ELSE Unseen))
          /\ owner[r] = "publish" /\ log' = Append(log, Event("created", r))
      BY <1>39, <2>1, Zenon DEF Publish, Keeps, launcherVars, channelVars
    <3>2. file # 0
      BY <3>1 DEF CertaintyInv, ToldInv, GuardInv, GuardPCs
    <3>3. Len(log') = Len(log) + 1
      BY <1>1, <3>1, PublishesOne
    <3>4. Stays(next)
      BY <1>1, <3>2, <3>3, FileKeeps DEF Stays, PastOf, Now
    <3> HIDE DEF next
    <3>5. QED
      BY <1>39, <1>1, <1>5, <1>7, <1>8, <3>1, <3>4 DEF Drafts
  <2>2. CASE ~ (r \in Ensures => IsFirstPublication(r))
    <3>1. UNCHANGED <<hist, mark, reply, learned>> /\ Drafts(r, Rejected(r, "corrupt"))
      BY <1>39, <2>2, Zenon DEF Publish, Rejects, Keeps, launcherVars, channelVars
    <3>2. QED
      BY <1>39, <1>1, <1>5, <1>7, <1>8, <3>1 DEF Drafts
  <2>3. QED
    BY <2>1, <2>2
<1>40. ASSUME NEW r \in Runs, PrecommitFails(r) PROVE Goal
  BY <1>40, <1>1, <1>2, <1>5, <1>7, <1>8
     DEF PrecommitFails, Rejects, Keeps, Drafts, launcherVars, channelVars, ownerVars
<1>41. ASSUME NEW r \in Runs, Settle(r) PROVE Goal
  BY <1>41, <1>1, <1>2, <1>8 DEF Settle, Keeps, launcherVars, channelVars, ownerVars
<1>42. ASSUME NEW r \in Runs, Finalize(r) PROVE Goal
  BY <1>42, <1>1, <1>2, <1>8 DEF Finalize, Keeps, launcherVars, channelVars, ownerVars
<1>43. ASSUME NEW r \in Runs, Close(r) PROVE Goal
  BY <1>43, <1>1, <1>2, <1>8 DEF Close, Keeps, launcherVars, channelVars, ownerVars
<1>44. ASSUME NEW r \in Runs, Exit(r) PROVE Goal
  BY <1>44, <1>1, <1>2, <1>8 DEF Exit, Keeps, launcherVars, channelVars, ownerVars
<1>45. ASSUME NEW r \in Runs, Crash(r) PROVE Goal
  BY <1>45, <1>1, <1>2, <1>8 DEF Crash, Keeps, launcherVars, channelVars, ownerVars
<1>46. CASE RemoveRegistry
  BY <1>46
<1>47. CASE UNCHANGED vars
  BY <1>47, <1>1, <1>8 DEF vars, launcherVars, channelVars, ownerVars
<1>48. QED
  BY <1>10, <1>11, <1>12, <1>13, <1>14, <1>15, <1>16, <1>17, <1>18, <1>19, <1>20, <1>21,
     <1>22, <1>23, <1>24, <1>25, <1>26, <1>27, <1>28, <1>29, <1>30, <1>31, <1>32, <1>33,
     <1>34, <1>35, <1>36, <1>37, <1>38, <1>39, <1>40, <1>41, <1>42, <1>43, <1>44, <1>45,
     <1>46, <1>47
     DEF Next, EnsureStep, SharedStep, DaemonStep, LauncherStep, DetachedStep, OwnerStep

\* A history that continues another continues what that one continued.
LEMMA ContinuesIsTransitive ==
  ASSUME NEW f \in Histories, NEW g \in Histories, NEW h \in Histories,
         Continues(f, g), Continues(g, h)
  PROVE  Continues(f, h)
  BY DEF Continues, Histories

\* The histories of an ensure and of its owner stay in a line.
LEMMA CursorStep ==
  CertaintyInv /\ CursorInv /\ [Next]_vars => CursorInv'
<1> SUFFICES ASSUME CertaintyInv, CursorInv, [Next]_vars
             PROVE  CursorInv'
  OBVIOUS
<1>1. /\ launcher \in [Launchers -> LauncherPCs]
      /\ mark \in [Ensures -> Nat \cup {None}]
      /\ hist \in [Ensures -> Histories]
      /\ candidates \in [Ensures -> SUBSET Runs]
      /\ pinned \in [Ensures -> Runs \cup {None}]
      /\ owner \in [Runs -> OwnerPCs]
      /\ learned \in [Ensures -> Histories]
      /\ draft \in [Launchers -> Replies \cup {None}]
      /\ reply \in [Launchers -> Replies \cup {None}]
      /\ madeIn \in [Runs -> 0..MaxFiles]
      /\ seen \in [Ensures -> [files : SUBSET Files, events : Nat]]
      /\ file \in 0..MaxFiles /\ log \in Seq(Events) /\ Len(log) \in Nat
      /\ Ensures \subseteq Launchers /\ Daemons \subseteq Launchers
      /\ Launchers \subseteq Runs /\ Foregrounds \subseteq Runs
      /\ None \notin Runs /\ None \notin Nat /\ None \notin Replies /\ MaxFiles \in Nat
  BY LenProperties, EnsureAssumption, NoneAssumption
     DEF CertaintyInv, TypeOK, Launchers, Runs
<1>2. /\ \A r, h : Established(r, h).hist = h
      /\ \A i, h : Existing(i, h).hist = h
      /\ \A r, why : Rejected(r, why).kind = "rejected"
  BY DEF Established, Existing, Rejected
<1>3. Now \in Histories /\ \A h \in Histories : Advanced(h) \in Histories
  BY <1>1 DEF CertaintyInv, TypeOK, Now, Advanced, Histories
<1>4. \A h \in Histories : Readable(h) => Continues(h, Advanced(h))
  BY DEF Readable, Advanced, Continues
<1>5. \A c \in Ensures :
        /\ owner[c] \in EarlyPCs => reply[c] = None
        /\ owner[c] = "replying" => reply[c] = None /\ draft[c] # None
        /\ launcher[c] \in {"idle", "sampling", "seeking"} => owner[c] = "none"
        /\ launcher[c] = "selecting" => reply[c] # None
  BY <1>1 DEF CertaintyInv, ToldInv, ChannelInv, LauncherInv
<1>6. ASSUME NEW r \in Runs, NEW why, Rejects(r, why), UNCHANGED <<hist, reply, launcher>>,
             \A c \in Ensures : c # r => learned'[c] = learned[c]
      PROVE  CursorInv'
  <2>1. /\ \A c \in Ensures : c # r => owner'[c] = owner[c] /\ draft'[c] = draft[c]
        /\ r \in Ensures => owner'[r] = "replying" /\ draft'[r].kind = "rejected"
    BY <1>1, <1>2, <1>6 DEF Rejects, Goes, Drafts
  <2>2. QED
    BY <1>6, <2>1 DEF CursorInv, GuardPCs
<1>7. ASSUME NEW c \in Ensures, EnrollRead(c) PROVE CursorInv'
  <2>1. /\ hist' = [hist EXCEPT ![c] = Advanced(@)]
        /\ launcher' = [launcher EXCEPT ![c] = "sampling"]
        /\ owner[c] = "none" /\ reply[c] = None
        /\ UNCHANGED <<owner, reply, draft, learned>>
    BY <1>7, <1>1, <1>5 DEF EnrollRead, ownerVars, channelVars, EarlyPCs
  <2>2. QED
    BY <1>7, <1>1, <2>1 DEF CursorInv, GuardPCs
<1>8. ASSUME NEW c \in Ensures, EnrollSample(c) PROVE CursorInv'
  BY <1>8, <1>1, <1>5
     DEF EnrollSample, Concludes, CursorInv, EarlyPCs, WaitPCs, GuardPCs, SessionPCs,
         launcherVars, channelVars, ownerVars, registryVars
<1>9. ASSUME NEW c \in Ensures, EnsureReceive(c) PROVE CursorInv'
  BY <1>9, <1>1, <1>5
     DEF EnsureReceive, Concludes, CursorInv, EarlyPCs, WaitPCs, GuardPCs, SessionPCs,
         launcherVars, channelVars, ownerVars, registryVars
<1>10. ASSUME NEW c \in Ensures, SelectReply(c) PROVE CursorInv'
  <2>1. /\ launcher' = [launcher EXCEPT ![c] = "ended"] /\ launcher[c] = "selecting"
        /\ \A x \in Ensures : x # c => hist'[x] = hist[x]
        /\ UNCHANGED <<owner, reply, draft, learned>>
    BY <1>10, <1>1 DEF SelectReply, Concludes, ownerVars, channelVars
  <2>2. reply[c] # None /\ owner[c] \notin {"seek", "try", "replying"} \cup GuardPCs
    BY <1>10, <1>5, <2>1 DEF EarlyPCs, WaitPCs
  <2>3. QED
    BY <1>10, <1>1, <2>1, <2>2 DEF CursorInv
<1>11. ASSUME NEW c \in Ensures, EnsureExpires(c) PROVE CursorInv'
  BY <1>11, <1>1, <1>5
     DEF EnsureExpires, Concludes, CursorInv, EarlyPCs, WaitPCs, GuardPCs, SessionPCs,
         launcherVars, channelVars, ownerVars, registryVars
<1>12. ASSUME NEW c \in Ensures, Resume(c) PROVE CursorInv'
  <2>1. CASE Readable(hist[c])
    <3>1. /\ learned' = [learned EXCEPT ![c] = Advanced(hist[c])] /\ Goes(c, "seek")
          /\ UNCHANGED <<hist, reply, launcher, draft>>
      BY <1>12, <2>1, Zenon DEF Resume, Keeps, launcherVars, channelVars
    <3>2. Continues(hist[c], Advanced(hist[c]))
      BY <1>12, <1>1, <1>4, <2>1
    <3>3. QED
      BY <1>12, <1>1, <3>1, <3>2 DEF CursorInv, Goes
  <2>2. CASE ~ Readable(hist[c])
    <3>1. /\ Rejects(c, "corrupt") /\ UNCHANGED <<hist, reply, launcher>>
          /\ UNCHANGED learned
      BY <1>12, <2>2, Zenon DEF Resume, Keeps, launcherVars, channelVars
    <3>2. QED
      BY <1>1, <1>6, <1>12, <3>1
  <2>3. QED
    BY <2>1, <2>2
<1>13. ASSUME NEW c \in Ensures, Seek(c) PROVE CursorInv'
  <2> DEFINE next == Advanced(learned[c])
  <2>1. CASE Readable(learned[c])
    <3>1. Continues(hist[c], next)
      <4>1. Continues(hist[c], learned[c])
        BY <1>13 DEF Seek, CursorInv
      <4>2. Continues(learned[c], next)
        BY <1>13, <1>1, <1>4, <2>1
      <4>3. QED
        BY <1>13, <1>1, <1>3, <4>1, <4>2, ContinuesIsTransitive
    <3>2. /\ learned' = [learned EXCEPT ![c] = next]
          /\ UNCHANGED <<hist, reply, launcher>>
          /\ \/ Goes(c, "try") /\ UNCHANGED draft
             \/ Goes(c, "replying") /\ \E i : Drafts(c, Existing(i, next))
             \/ \E why : Rejects(c, why)
      BY <1>13, <2>1, Zenon DEF Seek, Keeps, launcherVars, channelVars
    <3> HIDE DEF next
    <3>3. CASE Goes(c, "try") /\ UNCHANGED draft
      BY <1>13, <1>1, <3>1, <3>2, <3>3 DEF CursorInv, Goes
    <3>4. CASE Goes(c, "replying") /\ \E i : Drafts(c, Existing(i, next))
      <4>1. /\ draft'[c].hist = next /\ owner'[c] = "replying" /\ reply[c] = None
            /\ \A x \in Ensures : x # c => /\ draft'[x] = draft[x] /\ owner'[x] = owner[x]
                                           /\ learned'[x] = learned[x]
        BY <1>13, <1>1, <1>2, <1>5, <3>2, <3>4 DEF Goes, Drafts, EarlyPCs, WaitPCs, Seek
      <4>2. QED
        BY <3>1, <3>2, <4>1 DEF CursorInv, GuardPCs
    <3>5. CASE \E why : Rejects(c, why)
      BY <1>1, <1>6, <1>13, <3>2, <3>5
    <3>6. QED
      BY <3>2, <3>3, <3>4, <3>5
  <2>2. CASE ~ Readable(learned[c])
    <3>1. /\ Rejects(c, "corrupt") /\ UNCHANGED <<hist, reply, launcher>>
          /\ UNCHANGED learned
      BY <1>13, <2>2, Zenon DEF Seek, Keeps, launcherVars, channelVars
    <3>2. QED
      BY <1>1, <1>6, <1>13, <3>1
  <2>3. QED
    BY <2>1, <2>2
<1>14. ASSUME NEW c \in Ensures, Try(c) PROVE CursorInv'
  BY <1>14, <1>1, <1>5
     DEF Try, Keeps, Goes, CursorInv, EarlyPCs, WaitPCs, GuardPCs, SessionPCs,
         launcherVars, channelVars, ownerVars, registryVars
<1>15. ASSUME NEW c \in Ensures, Recheck(c) PROVE CursorInv'
  <2> DEFINE next == Advanced(learned[c])
  <2>1. CASE Readable(learned[c])
    <3>1. Continues(hist[c], next)
      <4>1. Continues(hist[c], learned[c])
        BY <1>15 DEF Recheck, CursorInv, GuardPCs
      <4>2. Continues(learned[c], next)
        BY <1>15, <1>1, <1>4, <2>1
      <4>3. QED
        BY <1>15, <1>1, <1>3, <4>1, <4>2, ContinuesIsTransitive
    <3>2. /\ learned' = [learned EXCEPT ![c] = next]
          /\ UNCHANGED <<hist, reply, launcher>>
          /\ \/ Goes(c, "open") /\ UNCHANGED draft
             \/ \E why : Rejects(c, why)
      BY <1>15, <2>1, Zenon DEF Recheck, Keeps, launcherVars, channelVars
    <3> HIDE DEF next
    <3>3. CASE Goes(c, "open") /\ UNCHANGED draft
      BY <1>15, <1>1, <3>1, <3>2, <3>3 DEF CursorInv, Goes
    <3>4. CASE \E why : Rejects(c, why)
      BY <1>1, <1>6, <1>15, <3>2, <3>4
    <3>5. QED
      BY <3>2, <3>3, <3>4
  <2>2. CASE ~ Readable(learned[c])
    <3>1. /\ Rejects(c, "corrupt") /\ UNCHANGED <<hist, reply, launcher>>
          /\ UNCHANGED learned
      BY <1>15, <2>2, Zenon DEF Recheck, Keeps, launcherVars, channelVars
    <3>2. QED
      BY <1>1, <1>6, <1>15, <3>1
  <2>3. QED
    BY <2>1, <2>2
<1>16. ASSUME NEW d \in Daemons, DaemonInterrupt(d) PROVE CursorInv'
  BY <1>16, <1>1, <1>5
     DEF DaemonInterrupt, CursorInv, EarlyPCs, WaitPCs, GuardPCs, SessionPCs,
         launcherVars, channelVars, ownerVars, registryVars
<1>17. ASSUME NEW d \in Daemons, DaemonReceive(d) PROVE CursorInv'
  BY <1>17, <1>1, <1>5
     DEF DaemonReceive, Concludes, CursorInv, EarlyPCs, WaitPCs, GuardPCs, SessionPCs,
         launcherVars, channelVars, ownerVars, registryVars
<1>18. ASSUME NEW d \in Daemons, DaemonGivesUp(d) PROVE CursorInv'
  BY <1>18, <1>1, <1>5
     DEF DaemonGivesUp, Concludes, CursorInv, EarlyPCs, WaitPCs, GuardPCs, SessionPCs,
         launcherVars, channelVars, ownerVars, registryVars
<1>19. ASSUME NEW l \in Launchers, Spawn(l) PROVE CursorInv'
  BY <1>19, <1>1, <1>5
     DEF Spawn, CursorInv, EarlyPCs, WaitPCs, GuardPCs, SessionPCs, launcherVars,
         channelVars, ownerVars, registryVars
<1>20. ASSUME NEW l \in Launchers, SpawnFails(l) PROVE CursorInv'
  BY <1>20, <1>1, <1>5
     DEF SpawnFails, Concludes, CursorInv, EarlyPCs, WaitPCs, GuardPCs, SessionPCs,
         launcherVars, channelVars, ownerVars, registryVars
<1>21. ASSUME NEW l \in Launchers, Send(l) PROVE CursorInv'
  BY <1>21, <1>1, <1>5
     DEF Send, CursorInv, EarlyPCs, WaitPCs, GuardPCs, SessionPCs, launcherVars,
         channelVars, ownerVars, registryVars
<1>22. ASSUME NEW l \in Launchers, Incomplete(l) PROVE CursorInv'
  BY <1>22, <1>1, <1>5
     DEF Incomplete, Concludes, CursorInv, EarlyPCs, WaitPCs, GuardPCs, SessionPCs,
         launcherVars, channelVars, ownerVars, registryVars
<1>23. ASSUME NEW l \in Launchers, Eof(l) PROVE CursorInv'
  BY <1>23, <1>1, <1>5
     DEF Eof, Concludes, CursorInv, EarlyPCs, WaitPCs, GuardPCs, SessionPCs,
         launcherVars, channelVars, ownerVars, registryVars
<1>24. ASSUME NEW l \in Launchers, LauncherDies(l) PROVE CursorInv'
  BY <1>24, <1>1, <1>5
     DEF LauncherDies, CursorInv, EarlyPCs, WaitPCs, GuardPCs, SessionPCs, launcherVars,
         channelVars, ownerVars, registryVars
<1>25. ASSUME NEW l \in Launchers, ReceiveRequest(l) PROVE CursorInv'
  BY <1>25, <1>1, <1>5
     DEF ReceiveRequest, Keeps, Goes, CursorInv, EarlyPCs, WaitPCs, GuardPCs,
         SessionPCs, launcherVars, channelVars, ownerVars, registryVars
<1>26. ASSUME NEW l \in Launchers, ReceiveFails(l) PROVE CursorInv'
  BY <1>26, <1>1, <1>5
     DEF ReceiveFails, Keeps, Goes, CursorInv, EarlyPCs, WaitPCs, GuardPCs, SessionPCs,
         launcherVars, channelVars, ownerVars, registryVars
<1>27. ASSUME NEW l \in Launchers, Abandoned(l) PROVE CursorInv'
  BY <1>27, <1>6, <1>1 DEF Abandoned, Keeps, launcherVars, channelVars
<1>28. ASSUME NEW l \in Launchers, WriteReply(l) PROVE CursorInv'
  BY <1>28, <1>1, <1>2, <1>5
     DEF WriteReply, Goes, AfterReply, CursorInv, EarlyPCs, WaitPCs, GuardPCs,
         SessionPCs, launcherVars, channelVars, ownerVars, registryVars
<1>29. ASSUME NEW l \in Launchers, LoseReply(l) PROVE CursorInv'
  BY <1>29, <1>1, <1>2, <1>5
     DEF LoseReply, Goes, AfterReply, CursorInv, EarlyPCs, WaitPCs, GuardPCs,
         SessionPCs, launcherVars, channelVars, ownerVars, registryVars, Keeps
<1>30. ASSUME NEW r \in Daemons \cup Foregrounds, Acquire(r) PROVE CursorInv'
  <2>1. r \notin Ensures
    BY <1>30, EnsureAssumption DEF Launchers
  <2>2. /\ UNCHANGED <<hist, reply, launcher, learned>>
        /\ \E to \in {"open", "replying", "exited"} : Goes(r, to)
        /\ \A x \in Ensures : draft'[x] = draft[x]
    BY <1>30, <1>1, <2>1 DEF Acquire, Rejects, Drafts, Keeps, launcherVars, channelVars
  <2>3. \A x \in Ensures : owner'[x] = owner[x]
    BY <1>1, <2>1, <2>2 DEF Goes
  <2>4. QED
    BY <2>2, <2>3 DEF CursorInv
<1>31. ASSUME NEW r \in Runs, Open(r) PROVE CursorInv'
  BY <1>31, <1>1, <1>5
     DEF Open, Keeps, Goes, CursorInv, EarlyPCs, WaitPCs, GuardPCs, SessionPCs,
         launcherVars, channelVars, ownerVars, registryVars
<1>32. ASSUME NEW r \in Runs, InitializeSchema(r) PROVE CursorInv'
  BY <1>32, <1>1, <1>5
     DEF InitializeSchema, Keeps, Goes, CursorInv, EarlyPCs, WaitPCs, GuardPCs,
         SessionPCs, launcherVars, channelVars, ownerVars, registryVars
<1>33. ASSUME NEW r \in Runs, Recover(r) PROVE CursorInv'
  BY <1>33, <1>1, <1>5
     DEF Recover, Keeps, Goes, CursorInv, EarlyPCs, WaitPCs, GuardPCs, SessionPCs,
         launcherVars, channelVars, ownerVars, registryVars
<1>34. ASSUME NEW r \in Runs, Prepare(r) PROVE CursorInv'
  BY <1>34, <1>1, <1>5
     DEF Prepare, Keeps, Goes, CursorInv, EarlyPCs, WaitPCs, GuardPCs, SessionPCs,
         launcherVars, channelVars, ownerVars, registryVars
<1>35. ASSUME NEW r \in Runs, Check(r) PROVE CursorInv'
  BY <1>35, <1>1, <1>5
     DEF Check, Keeps, Goes, CursorInv, EarlyPCs, WaitPCs, GuardPCs, SessionPCs,
         launcherVars, channelVars, ownerVars, registryVars
<1>36. ASSUME NEW r \in Runs, Publish(r) PROVE CursorInv'
  <2>1. UNCHANGED <<hist, reply, launcher>> /\ owner[r] = "publish"
    BY <1>36 DEF Publish, Keeps, launcherVars, channelVars
  <2>2. CASE r \in Ensures => IsFirstPublication(r)
    <3> DEFINE next == [Now EXCEPT !.greatest = @ + 1]
    <3>1. /\ learned' = IF r \in Ensures THEN [learned EXCEPT ![r] = next] ELSE learned
          /\ Goes(r, IF r \in Launchers THEN "replying" ELSE "session")
          /\ Drafts(r, Established(r, IF r \in Ensures THEN learned'[r] ELSE Unseen))
      BY <1>36, <2>2, Zenon DEF Publish
    <3>2. ASSUME r \in Ensures PROVE Continues(hist[r], next)
      <4>1. Continues(hist[r], learned[r]) /\ Continues(learned[r], next)
        BY <2>1, <2>2, <3>2 DEF CursorInv, GuardPCs, IsFirstPublication
      <4>2. next \in Histories
        BY <1>3 DEF Histories
      <4>3. QED
        BY <1>1, <3>2, <4>1, <4>2, ContinuesIsTransitive
    <3>3. /\ r \in Ensures => /\ draft'[r].hist = next /\ owner'[r] = "replying"
                              /\ reply[r] = None
          /\ \A x \in Ensures : x # r => /\ draft'[x] = draft[x] /\ owner'[x] = owner[x]
                                         /\ learned'[x] = learned[x]
      BY <1>36, <1>1, <1>2, <1>5, <2>1, <3>1 DEF Goes, Drafts, EarlyPCs, GuardPCs
    <3> HIDE DEF next
    <3>4. QED
      BY <2>1, <3>2, <3>3 DEF CursorInv, GuardPCs
  <2>3. CASE ~ (r \in Ensures => IsFirstPublication(r))
    <3>1. Rejects(r, "corrupt") /\ UNCHANGED learned
      BY <1>36, <2>3, Zenon DEF Publish
    <3>2. QED
      BY <1>6, <1>36, <2>1, <3>1
  <2>4. QED
    BY <2>2, <2>3
<1>37. ASSUME NEW r \in Runs, PrecommitFails(r) PROVE CursorInv'
  BY <1>37, <1>6, <1>1 DEF PrecommitFails, Keeps, launcherVars, channelVars
<1>38. ASSUME NEW r \in Runs, Settle(r) PROVE CursorInv'
  BY <1>38, <1>1, <1>5
     DEF Settle, Keeps, Goes, CursorInv, EarlyPCs, WaitPCs, GuardPCs, SessionPCs,
         launcherVars, channelVars, ownerVars, registryVars
<1>39. ASSUME NEW r \in Runs, Finalize(r) PROVE CursorInv'
  BY <1>39, <1>1, <1>5
     DEF Finalize, Keeps, Goes, CursorInv, EarlyPCs, WaitPCs, GuardPCs, SessionPCs,
         launcherVars, channelVars, ownerVars, registryVars
<1>40. ASSUME NEW r \in Runs, Close(r) PROVE CursorInv'
  BY <1>40, <1>1, <1>5
     DEF Close, Keeps, Goes, CursorInv, EarlyPCs, WaitPCs, GuardPCs, SessionPCs,
         launcherVars, channelVars, ownerVars, registryVars
<1>41. ASSUME NEW r \in Runs, Exit(r) PROVE CursorInv'
  BY <1>41, <1>1, <1>5
     DEF Exit, Keeps, Goes, CursorInv, EarlyPCs, WaitPCs, GuardPCs, SessionPCs,
         launcherVars, channelVars, ownerVars, registryVars
<1>42. ASSUME NEW r \in Runs, Crash(r) PROVE CursorInv'
  BY <1>42, <1>1, <1>5
     DEF Crash, Keeps, Goes, CursorInv, EarlyPCs, WaitPCs, GuardPCs, SessionPCs,
         launcherVars, channelVars, ownerVars, registryVars
<1>43. CASE RemoveRegistry
  BY <1>43, <1>1
     DEF RemoveRegistry, CursorInv, EarlyPCs, WaitPCs, GuardPCs, SessionPCs,
         launcherVars, channelVars, ownerVars, registryVars
<1>44. CASE UNCHANGED vars
  <2>1. UNCHANGED <<launcherVars, channelVars, ownerVars, holder, registryVars>>
    BY <1>44, Zenon DEF vars
  <2>2. QED
    BY <2>1, <1>1
       DEF CursorInv, EarlyPCs, WaitPCs, GuardPCs, SessionPCs, launcherVars,
           channelVars, ownerVars, registryVars
<1>45. QED
  BY <1>7, <1>8, <1>9, <1>10, <1>11, <1>12, <1>13, <1>14, <1>15, <1>16, <1>17, <1>18,
     <1>19, <1>20, <1>21, <1>22, <1>23, <1>24, <1>25, <1>26, <1>27, <1>28, <1>29, <1>30,
     <1>31, <1>32, <1>33, <1>34, <1>35, <1>36, <1>37, <1>38, <1>39, <1>40, <1>41, <1>42,
     <1>43, <1>44
     DEF Next, EnsureStep, SharedStep, DaemonStep, LauncherStep, DetachedStep, OwnerStep

\* What an ensure may name stays the first publication since it enrolled, or the
\* session current then.
LEMMA FirstStep ==
  CertaintyInv /\ AnswerInv /\ OrderInv /\ PastInv /\ FirstInv /\ [Next]_vars /\ ~ RemoveRegistry
    => FirstInv'
<1> SUFFICES ASSUME CertaintyInv, AnswerInv, OrderInv, PastInv, FirstInv, [Next]_vars,
                    ~ RemoveRegistry
             PROVE  FirstInv'
  OBVIOUS
<1>1. /\ launcher \in [Launchers -> LauncherPCs]
      /\ mark \in [Ensures -> Nat \cup {None}]
      /\ hist \in [Ensures -> Histories]
      /\ candidates \in [Ensures -> SUBSET Runs]
      /\ pinned \in [Ensures -> Runs \cup {None}]
      /\ owner \in [Runs -> OwnerPCs]
      /\ learned \in [Ensures -> Histories]
      /\ draft \in [Launchers -> Replies \cup {None}]
      /\ reply \in [Launchers -> Replies \cup {None}]
      /\ madeIn \in [Runs -> 0..MaxFiles]
      /\ seen \in [Ensures -> [files : SUBSET Files, events : Nat]]
      /\ file \in 0..MaxFiles /\ log \in Seq(Events) /\ Len(log) \in Nat
      /\ Ensures \subseteq Launchers /\ Daemons \subseteq Launchers
      /\ Launchers \subseteq Runs /\ Foregrounds \subseteq Runs
      /\ None \notin Runs /\ None \notin Nat /\ None \notin Replies /\ MaxFiles \in Nat
  BY LenProperties, EnsureAssumption, NoneAssumption
     DEF CertaintyInv, TypeOK, Launchers, Runs
<1>2. /\ \A r, h : /\ Established(r, h).run = r /\ Established(r, h).kind = "established"
      /\ \A i, h : /\ Existing(i, h).run = log[i].run /\ Existing(i, h).seq = i
      /\ \A r, why : Rejected(r, why).kind = "rejected"
  BY DEF Established, Existing, Rejected
<1>3. UNCHANGED log => Creations' = Creations
  BY DEF Creations
<1>4. \A c \in Ensures :
        /\ owner[c] \in EarlyPCs => draft[c] = None /\ reply[c] = None
        /\ owner[c] = "replying" => draft[c] # None /\ reply[c] = None
        /\ launcher[c] \in {"idle", "sampling", "seeking"} => owner[c] = "none"
        /\ candidates[c] # {} => launcher[c] = "sampling"
        /\ owner[c] # "none" \/ launcher[c] = "sampling" => mark[c] # None
  BY <1>1 DEF CertaintyInv, ToldInv, ChannelInv, LauncherInv, MarkInv, AnswerInv
<1>5. \A c \in Ensures :
        (draft[c] # None \/ reply[c] # None \/ candidates[c] # {} \/ owner[c] \in GuardPCs)
          => mark[c] \in Nat /\ mark[c] <= Len(log)
  BY <1>1, <1>4 DEF PastInv, EarlyPCs, GuardPCs
<1>6. \A w : FirstAfter(w) = FirstOf(Creations, w) /\ FirstAfter(w)' = FirstOf(Creations', w)
  BY Zenon DEF FirstAfter, FirstOf
<1>7. /\ Len(log') \in Nat /\ Len(log) <= Len(log')
      /\ \A i \in Creations : /\ i \in Creations' /\ log'[i] = log[i]
                              /\ i \in Nat /\ i <= Len(log)
      /\ \A i \in Creations' : i \in Nat /\ (i \in Creations \/ i > Len(log))
      /\ \A w \in Nat : FirstOf(Creations, w) # 0 =>
           /\ FirstOf(Creations', w) = FirstOf(Creations, w)
           /\ log'[FirstOf(Creations, w)] = log[FirstOf(Creations, w)]
  BY <1>6, LogKeeps
<1> DEFINE First(c) == FirstOf(Creations', mark[c])
<1>8. ASSUME NEW c \in Ensures
      PROVE  /\ \A r \in candidates[c] : LatestAt(Creations', log', r, mark[c])
             /\ draft[c] # None /\ draft[c].kind # "rejected" => Names(log', First(c), draft[c])
             /\ reply[c] # None /\ reply[c].kind # "rejected" => Names(log', First(c), reply[c])
  <2>1. ASSUME NEW r \in candidates[c] PROVE LatestAt(Creations', log', r, mark[c])
    <3>1. mark[c] \in Nat /\ mark[c] <= Len(log)
      BY <1>5, <2>1
    <3>2. PICK i \in Creations : /\ i <= mark[c] /\ log[i].run = r
                                 /\ \A j \in Creations : j <= mark[c] => j <= i
      BY <2>1 DEF FirstInv, LatestAt
    <3>3. \A j \in Creations' : j <= mark[c] => j \in Creations
      BY <1>1, <1>7, <3>1
    <3>4. QED
      BY <1>7, <3>2, <3>3 DEF LatestAt
  <2>2. ASSUME NEW a, a = draft[c] \/ a = reply[c], a # None, a.kind # "rejected"
        PROVE  Names(log', First(c), a)
    <3>1. mark[c] \in Nat
      BY <1>5, <2>2
    <3>2. Names(log, FirstOf(Creations, mark[c]), a)
      BY <2>2 DEF FirstInv
    <3>3. QED
      BY <1>7, <3>1, <3>2 DEF Names
  <2>3. QED
    BY <2>1, <2>2
<1>9. SUFFICES
        \A c \in Ensures :
          /\ \A r \in candidates'[c] : LatestAt(Creations', log', r, mark'[c])
          /\ owner'[c] \in GuardPCs \ {"guarded"} => FirstOf(Creations', mark'[c]) = 0
          /\ draft'[c] # None /\ draft'[c].kind # "rejected" =>
               Names(log', FirstOf(Creations', mark'[c]), draft'[c])
          /\ reply'[c] # None /\ reply'[c].kind # "rejected" =>
               Names(log', FirstOf(Creations', mark'[c]), reply'[c])
  BY DEF FirstInv
<1> DEFINE Goal ==
        \A c \in Ensures :
          /\ \A r \in candidates'[c] : LatestAt(Creations', log', r, mark'[c])
          /\ owner'[c] \in GuardPCs \ {"guarded"} => FirstOf(Creations', mark'[c]) = 0
          /\ draft'[c] # None /\ draft'[c].kind # "rejected" =>
               Names(log', FirstOf(Creations', mark'[c]), draft'[c])
          /\ reply'[c] # None /\ reply'[c].kind # "rejected" =>
               Names(log', FirstOf(Creations', mark'[c]), reply'[c])
<1>10. \A c \in Ensures : owner[c] \in GuardPCs \ {"guarded"} => FirstOf(Creations, mark[c]) = 0
  BY DEF FirstInv
<1>11. ASSUME NEW r \in Runs, NEW to, Goes(r, to), Creations' = Creations,
              UNCHANGED <<mark, reply, draft, candidates>>,
              to \in GuardPCs \ {"guarded"} /\ r \in Ensures =>
                owner[r] \in GuardPCs \ {"guarded"}
       PROVE  Goal
  <2>1. \A c \in Ensures : owner'[c] \in GuardPCs \ {"guarded"} =>
                             owner[c] \in GuardPCs \ {"guarded"}
    BY <1>1, <1>11 DEF Goes
  <2>2. QED
    BY <1>8, <1>10, <1>11, <2>1
<1>12. ASSUME NEW r \in Runs, NEW why, Rejects(r, why), Creations' = Creations,
              UNCHANGED <<mark, reply, candidates>>
       PROVE  Goal
  <2>1. /\ \A c \in Ensures : c # r => owner'[c] = owner[c] /\ draft'[c] = draft[c]
        /\ r \in Ensures => owner'[r] = "replying" /\ draft'[r].kind = "rejected"
    BY <1>1, <1>2, <1>12 DEF Rejects, Goes, Drafts
  <2>2. QED
    BY <1>8, <1>10, <1>12, <2>1 DEF GuardPCs
<1>13. ASSUME UNCHANGED <<mark, owner, draft, reply, candidates>>, Creations' = Creations
       PROVE  Goal
  BY <1>8, <1>10, <1>13
<1>14. ASSUME NEW c \in Ensures, EnrollRead(c) PROVE Goal
  <2>1. /\ mark' = [mark EXCEPT ![c] = Len(log)]
        /\ candidates' = [candidates EXCEPT ![c] = Created \ finished]
        /\ owner[c] = "none" /\ draft[c] = None /\ reply[c] = None
        /\ UNCHANGED <<owner, reply, draft, log>>
    BY <1>14, <1>1, <1>4 DEF EnrollRead, ownerVars, channelVars, registryVars, EarlyPCs
  <2>2. \A r \in Created \ finished : LatestAt(Creations, log, r, Len(log))
    BY <1>7 DEF Created, OrderInv, LatestAt
  <2>3. /\ mark'[c] = Len(log)
        /\ \A x \in Ensures : x # c => mark'[x] = mark[x] /\ candidates'[x] = candidates[x]
    BY <1>14, <1>1, <2>1
  <2>4. candidates'[c] = Created \ finished
    BY <1>14, <2>1 DEF CertaintyInv, TypeOK
  <2>5. QED
    BY <1>3, <1>8, <1>10, <2>1, <2>2, <2>3, <2>4 DEF GuardPCs
<1>15. ASSUME NEW c \in Ensures, EnrollSample(c) PROVE Goal
  <2>1. /\ candidates' = [candidates EXCEPT ![c] = {}]
        /\ UNCHANGED <<owner, reply, draft, mark, log>>
    BY <1>15 DEF EnrollSample, ownerVars, channelVars, registryVars
  <2>2. \A x \in Ensures : candidates'[x] \subseteq candidates[x]
    BY <2>1 DEF CertaintyInv, TypeOK
  <2>3. QED
    BY <1>3, <1>8, <1>10, <2>1, <2>2
<1>16. ASSUME NEW c \in Ensures, EnsureReceive(c) PROVE Goal
  BY <1>16, <1>3, <1>13 DEF EnsureReceive, ownerVars, registryVars, ownerVars, channelVars
<1>17. ASSUME NEW c \in Ensures, SelectReply(c) PROVE Goal
  BY <1>17, <1>3, <1>13 DEF SelectReply, channelVars, ownerVars, registryVars
<1>18. ASSUME NEW c \in Ensures, EnsureExpires(c) PROVE Goal
  BY <1>18, <1>3, <1>13 DEF EnsureExpires, ownerVars, registryVars, ownerVars, channelVars
<1>19. ASSUME NEW c \in Ensures, Resume(c) PROVE Goal
  <2>1. /\ UNCHANGED <<mark, reply, candidates, log>>
        /\ \/ Goes(c, "seek") /\ UNCHANGED draft
           \/ Rejects(c, "corrupt")
    BY <1>19, Zenon DEF Resume, Keeps, launcherVars, channelVars, registryVars
  <2>2. QED
    BY <1>1, <1>3, <1>11, <1>12, <1>19, <2>1 DEF GuardPCs
<1>20. ASSUME NEW c \in Ensures, Seek(c) PROVE Goal
  <2> DEFINE first  == FirstAfter(mark[c])
             answer == Existing(first, Advanced(learned[c]))
  <2>1. /\ UNCHANGED <<mark, reply, candidates, log>> /\ owner[c] = "seek"
        /\ \/ Goes(c, "try") /\ UNCHANGED draft
           \/ first # 0 /\ Goes(c, "replying") /\ Drafts(c, answer)
           \/ \E why : Rejects(c, why)
    BY <1>20, Zenon DEF Seek, Keeps, launcherVars, channelVars, registryVars
  <2>2. CASE first # 0 /\ Goes(c, "replying") /\ Drafts(c, answer)
    <3>1. Names(log, first, answer)
      BY <1>2, <2>2 DEF Names
    <3>2. first = FirstOf(Creations', mark[c])
      BY <1>3, <1>6, <2>1
    <3> HIDE DEF answer, first
    <3>3. /\ draft'[c] = answer /\ owner'[c] = "replying"
          /\ \A x \in Ensures : x # c => draft'[x] = draft[x] /\ owner'[x] = owner[x]
      BY <1>20, <1>1, <2>2 DEF Goes, Drafts
    <3>4. QED
      BY <1>3, <1>8, <1>10, <2>1, <3>1, <3>2, <3>3 DEF GuardPCs
  <2>3. QED
    BY <1>1, <1>3, <1>11, <1>12, <1>20, <2>1, <2>2 DEF GuardPCs
<1>21. ASSUME NEW c \in Ensures, Try(c) PROVE Goal
  BY <1>21, <1>1, <1>3, <1>11
     DEF Try, Keeps, GuardPCs, launcherVars, channelVars, ownerVars, registryVars
<1>22. ASSUME NEW c \in Ensures, Recheck(c) PROVE Goal
  <2>1. /\ UNCHANGED <<mark, reply, candidates, log>>
        /\ \/ FirstAfter(mark[c]) = 0 /\ Goes(c, "open") /\ UNCHANGED draft
           \/ \E why : Rejects(c, why)
    BY <1>22, Zenon DEF Recheck, Keeps, launcherVars, channelVars, registryVars
  <2>2. CASE FirstAfter(mark[c]) = 0 /\ Goes(c, "open") /\ UNCHANGED draft
    <3>1. \A x \in Ensures : x # c => owner'[x] = owner[x]
      BY <1>1, <2>2 DEF Goes
    <3>2. FirstOf(Creations, mark[c]) = 0
      BY <1>6, <2>2
    <3>3. QED
      BY <1>3, <1>8, <1>10, <2>1, <2>2, <3>1, <3>2
  <2>3. QED
    BY <1>1, <1>3, <1>12, <1>22, <2>1, <2>2
<1>23. ASSUME NEW d \in Daemons, DaemonInterrupt(d) PROVE Goal
  BY <1>23, <1>3, <1>13
     DEF DaemonInterrupt, ownerVars, registryVars, ownerVars, channelVars
<1>24. ASSUME NEW d \in Daemons, DaemonReceive(d) PROVE Goal
  BY <1>24, <1>3, <1>13 DEF DaemonReceive, ownerVars, registryVars, ownerVars, channelVars
<1>25. ASSUME NEW d \in Daemons, DaemonGivesUp(d) PROVE Goal
  BY <1>25, <1>3, <1>13 DEF DaemonGivesUp, ownerVars, registryVars, ownerVars, channelVars
<1>26. ASSUME NEW l \in Launchers, Spawn(l) PROVE Goal
  BY <1>26, <1>1, <1>3, <1>11
     DEF Spawn, Goes, GuardPCs, launcherVars, registryVars, ownerVars
<1>27. ASSUME NEW l \in Launchers, SpawnFails(l) PROVE Goal
  BY <1>27, <1>3, <1>13 DEF SpawnFails, channelVars, ownerVars, registryVars
<1>28. ASSUME NEW l \in Launchers, Send(l) PROVE Goal
  BY <1>28, <1>3, <1>13 DEF Send, ownerVars, registryVars, ownerVars, channelVars
<1>29. ASSUME NEW l \in Launchers, Incomplete(l) PROVE Goal
  BY <1>29, <1>1, <1>3, <1>11
     DEF Incomplete, Goes, GuardPCs, launcherVars, registryVars, ownerVars
<1>30. ASSUME NEW l \in Launchers, Eof(l) PROVE Goal
  BY <1>30, <1>3, <1>13 DEF Eof, ownerVars, registryVars, ownerVars, channelVars
<1>31. ASSUME NEW l \in Launchers, LauncherDies(l) PROVE Goal
  BY <1>31, <1>3, <1>13 DEF LauncherDies, ownerVars, registryVars, ownerVars, channelVars
<1>32. ASSUME NEW l \in Launchers, ReceiveRequest(l) PROVE Goal
  BY <1>32, <1>1, <1>3, <1>11
     DEF ReceiveRequest, Keeps, GuardPCs, launcherVars, channelVars, ownerVars,
         registryVars
<1>33. ASSUME NEW l \in Launchers, ReceiveFails(l) PROVE Goal
  BY <1>33, <1>1, <1>3, <1>11
     DEF ReceiveFails, Keeps, GuardPCs, launcherVars, channelVars, ownerVars,
         registryVars
<1>34. ASSUME NEW l \in Launchers, Abandoned(l) PROVE Goal
  BY <1>34, <1>1, <1>3, <1>12
     DEF Abandoned, Keeps, launcherVars, channelVars, ownerVars, registryVars
<1>35. ASSUME NEW l \in Launchers, WriteReply(l) PROVE Goal
  <2>1. /\ reply' = [reply EXCEPT ![l] = draft[l]] /\ draft' = [draft EXCEPT ![l] = None]
        /\ Goes(l, AfterReply(l)) /\ AfterReply(l) \notin GuardPCs
        /\ UNCHANGED <<mark, candidates, log>>
    BY <1>35 DEF WriteReply, AfterReply, GuardPCs, launcherVars, registryVars
  <2>2. /\ l \in Ensures => reply'[l] = draft[l] /\ draft'[l] = None
        /\ \A x \in Ensures : x # l => reply'[x] = reply[x] /\ draft'[x] = draft[x]
        /\ \A x \in Ensures : owner'[x] \in GuardPCs => owner'[x] = owner[x]
    BY <1>1, <1>35, <2>1 DEF Goes
  <2>3. QED
    BY <1>3, <1>8, <1>10, <2>1, <2>2
<1>36. ASSUME NEW l \in Launchers, LoseReply(l) PROVE Goal
  <2>1. /\ draft' = [draft EXCEPT ![l] = None]
        /\ Goes(l, AfterReply(l)) /\ AfterReply(l) \notin GuardPCs
        /\ UNCHANGED <<mark, candidates, log, reply>>
    BY <1>36 DEF LoseReply, AfterReply, GuardPCs, Keeps, launcherVars, channelVars,
                registryVars
  <2>2. /\ \A x \in Ensures : draft'[x] \in {None, draft[x]}
        /\ \A x \in Ensures : owner'[x] \in GuardPCs => owner'[x] = owner[x]
    BY <1>1, <1>36, <2>1 DEF Goes
  <2>3. QED
    BY <1>3, <1>8, <1>10, <2>1, <2>2
<1>37. ASSUME NEW r \in Daemons \cup Foregrounds, Acquire(r) PROVE Goal
  <2>1. r \notin Ensures
    BY <1>37, EnsureAssumption DEF Launchers
  <2>2. /\ UNCHANGED <<mark, reply, candidates, log>>
        /\ \/ Goes(r, "open") /\ UNCHANGED draft
           \/ Rejects(r, "failed")
    BY <1>37, Zenon DEF Acquire, Keeps, launcherVars, channelVars, registryVars
  <2>3. QED
    BY <1>1, <1>3, <1>11, <1>12, <1>37, <2>1, <2>2
<1>38. ASSUME NEW r \in Runs, Open(r) PROVE Goal
  BY <1>38, <1>1, <1>3, <1>11
     DEF Open, Keeps, GuardPCs, launcherVars, channelVars, ownerVars, registryVars
<1>39. ASSUME NEW r \in Runs, InitializeSchema(r) PROVE Goal
  BY <1>39, <1>1, <1>3, <1>11
     DEF InitializeSchema, Keeps, GuardPCs, launcherVars, channelVars, ownerVars,
         registryVars
<1>40. ASSUME NEW r \in Runs, Recover(r) PROVE Goal
  <2>1. /\ Goes(r, "prepare") /\ UNCHANGED <<mark, reply, draft, candidates>>
        /\ owner[r] = "recover"
    BY <1>40 DEF Recover, Keeps, launcherVars, channelVars
  <2>2. Creations' = Creations
    BY <1>40, <1>1, RecoverySettles, SettlesOnly
  <2>3. QED
    BY <1>11, <1>40, <2>1, <2>2 DEF GuardPCs
<1>41. ASSUME NEW r \in Runs, Prepare(r) PROVE Goal
  BY <1>41, <1>1, <1>3, <1>11
     DEF Prepare, Keeps, GuardPCs, launcherVars, channelVars, ownerVars, registryVars
<1>42. ASSUME NEW r \in Runs, Check(r) PROVE Goal
  BY <1>42, <1>1, <1>3, <1>11
     DEF Check, Keeps, GuardPCs, launcherVars, channelVars, ownerVars, registryVars
<1>43. ASSUME NEW r \in Runs, Publish(r) PROVE Goal
  <2>1. /\ UNCHANGED <<mark, reply, candidates>> /\ owner[r] = "publish"
    BY <1>43, Zenon DEF Publish, Keeps, launcherVars, channelVars
  <2>2. CASE r \in Ensures => IsFirstPublication(r)
    <3> DEFINE answer == Established(r, IF r \in Ensures THEN learned'[r] ELSE Unseen)
    <3>1. /\ log' = Append(log, Event("created", r))
          /\ Goes(r, IF r \in Launchers THEN "replying" ELSE "session")
          /\ Drafts(r, answer)
      BY <1>43, <2>2, Zenon DEF Publish
    <3>2. /\ log'[Len(log) + 1].run = r
          /\ \A w \in Nat : FirstOf(Creations, w) = 0 /\ w <= Len(log) =>
               FirstOf(Creations', w) = Len(log) + 1
      BY <1>1, <1>6, <1>43, <3>1, PublishesOne
    <3>3. ASSUME r \in Ensures PROVE Names(log', First(r), answer)
      <4>1. First(r) = Len(log) + 1
        BY <1>5, <1>10, <2>1, <3>2, <3>3 DEF GuardPCs
      <4>2. answer.run = r /\ answer.kind = "established"
        BY <1>2
      <4>3. QED
        BY <1>1, <3>2, <4>1, <4>2 DEF Names
    <3> HIDE DEF answer
    <3>4. /\ r \in Ensures => draft'[r] = answer
          /\ \A x \in Ensures : x # r => draft'[x] = draft[x]
      BY <1>1, <1>43, <3>1 DEF Drafts
    <3>5. \A x \in Ensures : owner'[x] \notin GuardPCs
      <4>1. \A x \in Runs : owner[x] \in GuardPCs => holder = x
        BY DEF CertaintyInv, ToldInv, GuardInv
      <4>2. \A x \in Ensures : x # r => owner[x] \notin GuardPCs
        BY <1>1, <1>43, <2>1, <4>1 DEF GuardPCs
      <4>3. QED
        BY <1>1, <1>43, <3>1, <4>2 DEF Goes, GuardPCs
    <3>6. QED
      BY <1>8, <2>1, <3>3, <3>4, <3>5
  <2>3. CASE ~ (r \in Ensures => IsFirstPublication(r))
    <3>1. Rejects(r, "corrupt") /\ UNCHANGED log
      BY <1>43, <2>3, Zenon DEF Publish
    <3>2. QED
      BY <1>3, <1>12, <1>43, <2>1, <3>1
  <2>4. QED
    BY <2>2, <2>3
<1>44. ASSUME NEW r \in Runs, PrecommitFails(r) PROVE Goal
  BY <1>44, <1>1, <1>3, <1>12
     DEF PrecommitFails, Keeps, launcherVars, channelVars, ownerVars, registryVars
<1>45. ASSUME NEW r \in Runs, Settle(r) PROVE Goal
  <2>1. /\ Goes(r, "finalize") /\ UNCHANGED <<mark, reply, draft, candidates>>
    BY <1>45 DEF Settle, Keeps, launcherVars, channelVars
  <2>2. Creations' = Creations
    BY <1>45, <1>1, SettlesOne, SettlesOnly DEF Settle
  <2>3. QED
    BY <1>11, <1>45, <2>1, <2>2 DEF GuardPCs
<1>46. ASSUME NEW r \in Runs, Finalize(r) PROVE Goal
  BY <1>46, <1>1, <1>3, <1>11
     DEF Finalize, Keeps, GuardPCs, launcherVars, channelVars, ownerVars, registryVars
<1>47. ASSUME NEW r \in Runs, Close(r) PROVE Goal
  BY <1>47, <1>1, <1>3, <1>11
     DEF Close, Keeps, GuardPCs, launcherVars, channelVars, ownerVars, registryVars
<1>48. ASSUME NEW r \in Runs, Exit(r) PROVE Goal
  BY <1>48, <1>1, <1>3, <1>11
     DEF Exit, Keeps, GuardPCs, launcherVars, channelVars, ownerVars, registryVars
<1>49. ASSUME NEW r \in Runs, Crash(r) PROVE Goal
  <2>1. /\ Goes(r, "exited") /\ UNCHANGED <<mark, reply, candidates, log>>
        /\ \/ draft' = [draft EXCEPT ![r] = None]
           \/ UNCHANGED draft
    BY <1>49, Zenon DEF Crash, Keeps, launcherVars, channelVars, registryVars
  <2>2. /\ \A x \in Ensures : draft'[x] \in {None, draft[x]}
        /\ \A x \in Ensures : owner'[x] \in GuardPCs => owner'[x] = owner[x]
    BY <1>1, <1>49, <2>1 DEF Goes, GuardPCs
  <2>3. QED
    BY <1>3, <1>8, <1>10, <2>1, <2>2
<1>50. CASE RemoveRegistry
  BY <1>50
<1>51. CASE UNCHANGED vars
  BY <1>51, <1>3, <1>13 DEF vars, launcherVars, channelVars, ownerVars, registryVars
<1>52. QED
  BY <1>14, <1>15, <1>16, <1>17, <1>18, <1>19, <1>20, <1>21, <1>22, <1>23, <1>24, <1>25,
     <1>26, <1>27, <1>28, <1>29, <1>30, <1>31, <1>32, <1>33, <1>34, <1>35, <1>36, <1>37,
     <1>38, <1>39, <1>40, <1>41, <1>42, <1>43, <1>44, <1>45, <1>46, <1>47, <1>48, <1>49,
     <1>50, <1>51
     DEF Next, EnsureStep, SharedStep, DaemonStep, LauncherStep, DetachedStep, OwnerStep

\* There is one latest session at a watermark.
LEMMA LatestIsUnique ==
  ASSUME NEW C \in SUBSET Nat, NEW l, NEW w, NEW q, NEW r,
         LatestAt(C, l, q, w), LatestAt(C, l, r, w)
  PROVE  q = r
<1>1. PICK i \in C : i <= w /\ l[i].run = q /\ \A j \in C : j <= w => j <= i
  BY DEF LatestAt
<1>2. PICK k \in C : k <= w /\ l[k].run = r /\ \A j \in C : j <= w => j <= k
  BY DEF LatestAt
<1>3. i = k
  BY <1>1, <1>2
<1>4. QED
  BY <1>1, <1>2, <1>3

\* A history of the present registry is continued by it.
LEMMA PastIsReadable ==
  ASSUME CertaintyInv, NEW h \in Histories, Past(h)
  PROVE  /\ Readable(h)
         /\ file # 0 => Continues(h, [Now EXCEPT !.greatest = @ + 1])
<1>1. Len(log) \in Nat
  BY LenProperties DEF CertaintyInv, TypeOK
<1>2. h.greatest \in Nat /\ h.phase \in {"unseen", "bootstrap", "complete"}
  BY DEF Histories
<1>3. CASE file = 0
  BY <1>3 DEF Past, PastOf, Readable
<1>4. CASE file # 0
  BY <1>1, <1>2, <1>4 DEF Past, PastOf, Readable, Continues, Now
<1>5. QED
  BY <1>3, <1>4

\* Nobody takes the registry for corrupt.
LEMMA ReadingStep ==
  CertaintyInv /\ LineageInv /\ IntactInv /\ [Next]_vars /\ ~ RemoveRegistry
    => NoFalseCorruption'
<1> SUFFICES ASSUME CertaintyInv, LineageInv, IntactInv, [Next]_vars, ~ RemoveRegistry
             PROVE  NoFalseCorruption'
  OBVIOUS
<1>1. /\ launcher \in [Launchers -> LauncherPCs]
      /\ mark \in [Ensures -> Nat \cup {None}]
      /\ hist \in [Ensures -> Histories]
      /\ candidates \in [Ensures -> SUBSET Runs]
      /\ pinned \in [Ensures -> Runs \cup {None}]
      /\ owner \in [Runs -> OwnerPCs]
      /\ learned \in [Ensures -> Histories]
      /\ draft \in [Launchers -> Replies \cup {None}]
      /\ reply \in [Launchers -> Replies \cup {None}]
      /\ madeIn \in [Runs -> 0..MaxFiles]
      /\ seen \in [Ensures -> [files : SUBSET Files, events : Nat]]
      /\ file \in 0..MaxFiles /\ log \in Seq(Events) /\ Len(log) \in Nat
      /\ Ensures \subseteq Launchers /\ Daemons \subseteq Launchers
      /\ Launchers \subseteq Runs /\ Foregrounds \subseteq Runs
      /\ None \notin Runs /\ None \notin Nat /\ None \notin Replies /\ MaxFiles \in Nat
  BY LenProperties, EnsureAssumption, NoneAssumption
     DEF CertaintyInv, TypeOK, Launchers, Runs
<1>2. AnswerInv /\ PastInv /\ CursorInv /\ FirstInv /\ NoFalseCorruption
  BY DEF LineageInv, IntactInv
<1>3. /\ \A r, h : Established(r, h).why # "corrupt"
      /\ \A i, h : Existing(i, h).why # "corrupt"
      /\ \A r, why : Rejected(r, why).why = why
  BY DEF Established, Existing, Rejected
<1>4. \A w : FirstAfter(w) = FirstOf(Creations, w)
  BY Zenon DEF FirstAfter, FirstOf
<1>5. \A c \in Ensures : Readable(hist[c]) /\ Readable(learned[c])
  BY <1>1, <1>2, PastIsReadable DEF PastInv
<1>6. said \in [Launchers -> Ends]
  BY DEF CertaintyInv, TypeOK
<1>7. UNCHANGED <<said, draft, reply>> => NoFalseCorruption'
  BY <1>2 DEF NoFalseCorruption
<1>8. ASSUME NEW l \in Launchers, NEW result, NEW certainty, Concludes(l, result, certainty),
             result # "corrupt", UNCHANGED <<draft, reply>>
      PROVE  NoFalseCorruption'
  BY <1>2, <1>6, <1>8 DEF Concludes, NoFalseCorruption
<1>9. ASSUME NEW r \in Runs, NEW why, why # "corrupt", Rejects(r, why),
             UNCHANGED <<said, reply>>
      PROVE  NoFalseCorruption'
  BY <1>1, <1>2, <1>3, <1>9 DEF Rejects, Drafts, NoFalseCorruption
<1>10. ASSUME NEW c \in Ensures, EnrollRead(c) PROVE NoFalseCorruption'
  BY <1>10, <1>7 DEF EnrollRead, launcherVars, channelVars, ownerVars
<1>11. ASSUME NEW c \in Ensures, EnrollSample(c) PROVE NoFalseCorruption'
  <2> DEFINE live == {r \in candidates[c] : Alive(r)}
  <2>1. ASSUME NEW q \in live, NEW r \in live PROVE q = r
    <3>1. /\ LatestAt(Creations, log, q, mark[c])
          /\ LatestAt(Creations, log, r, mark[c])
      BY <1>11, <1>2 DEF FirstInv
    <3>2. Creations \in SUBSET Nat
      BY <1>1, LenProperties DEF Creations
    <3>3. QED
      BY <3>1, <3>2, LatestIsUnique
  <2>2. ~ (Cardinality(live) > 1)
    <3>1. CASE live = {}
      BY <3>1, FS_EmptySet
    <3>2. CASE live # {}
      <4>1. PICK r \in live : live = {r}
        BY <2>1, <3>2
      <4> HIDE DEF live
      <4>2. Cardinality(live) = 1
        BY <4>1, FS_Singleton, Zenon
      <4>3. QED
        BY <4>2
    <3>3. QED
      BY <3>1, <3>2
  <2> HIDE DEF live
  <2>3. /\ UNCHANGED <<draft, reply>>
        /\ \/ \E result \in {"pinned", "timeout", "mismatch"} :
                Concludes(c, result, "not-requested")
           \/ UNCHANGED said
    <3>1. /\ UNCHANGED <<draft, reply>>
          /\ \/ Cardinality(live) > 1
             \/ Concludes(c, "pinned", "not-requested")
             \/ \E r : Concludes(c, IF Matches(c, r) THEN "timeout" ELSE "mismatch",
                                 "not-requested")
             \/ UNCHANGED said
      BY <1>11, Zenon DEF EnrollSample, live, channelVars, ownerVars
    <3>2. QED
      BY <2>2, <3>1
  <2>4. QED
    BY <1>1, <1>7, <1>8, <1>11, <2>3
<1>12. ASSUME NEW c \in Ensures, EnsureReceive(c) PROVE NoFalseCorruption'
  <2>1. /\ UNCHANGED <<draft, reply>>
        /\ \/ \E x \in {"timeout", "rejected"} : Concludes(c, x, Certainty(reply[c]))
           \/ UNCHANGED said
    BY <1>12 DEF EnsureReceive, ownerVars
  <2>2. QED
    BY <1>1, <1>7, <1>8, <1>12, <2>1
<1>13. ASSUME NEW c \in Ensures, SelectReply(c) PROVE NoFalseCorruption'
  <2> DEFINE answer == reply[c]
             first == FirstAfter(mark[c])
  <2>1. launcher[c] = "selecting" /\ UNCHANGED <<draft, reply>>
    BY <1>13 DEF SelectReply, channelVars, ownerVars
  <2>2. answer # None /\ answer \in Replies /\ answer.kind # "rejected"
    BY <1>13, <1>1, <1>2, <2>1 DEF AnswerInv, CertaintyInv, ToldInv, LauncherInv
  <2>3. /\ Continues(hist[c], answer.hist)
        /\ Readable(answer.hist)
        /\ first # 0
        /\ log[first].run = answer.run
        /\ answer.kind = "existing" => first = answer.seq
    <3>1. answer.hist \in Histories /\ Past(answer.hist)
      BY <1>13, <1>2, <2>2 DEF PastInv, Replies
    <3>2. Names(log, first, answer)
      BY <1>13, <1>2, <1>4, <2>2 DEF FirstInv
    <3>3. Continues(hist[c], answer.hist)
      BY <1>13, <1>2, <2>1, <2>2 DEF CursorInv
    <3>4. QED
      BY <3>1, <3>2, <3>3, PastIsReadable DEF Names
  <2>4. \/ Concludes(c, "pinned", Certainty(answer))
        \/ Concludes(c, "mismatch", Certainty(answer))
    BY <1>13, <2>3, Zenon DEF SelectReply
  <2>5. QED
    BY <1>1, <1>8, <1>13, <2>1, <2>4
<1>14. ASSUME NEW c \in Ensures, EnsureExpires(c) PROVE NoFalseCorruption'
  <2>1. UNCHANGED <<draft, reply>> /\ \E x : Concludes(c, "timeout", x)
    BY <1>14 DEF EnsureExpires, ownerVars
  <2>2. QED
    BY <1>1, <1>8, <1>14, <2>1
<1>15. ASSUME NEW c \in Ensures, Resume(c) PROVE NoFalseCorruption'
  <2>1. UNCHANGED <<said, draft, reply>>
    BY <1>5, <1>15, Zenon DEF Resume, Keeps, launcherVars, channelVars
  <2>2. QED
    BY <1>7, <2>1
<1>16. ASSUME NEW c \in Ensures, Seek(c) PROVE NoFalseCorruption'
  <2>1. /\ UNCHANGED <<said, reply>>
        /\ \/ UNCHANGED draft
           \/ \E i, h : Drafts(c, Existing(i, h))
           \/ Rejects(c, "mismatch")
    BY <1>5, <1>16, Zenon DEF Seek, Keeps, launcherVars, channelVars
  <2>2. CASE \E i, h : Drafts(c, Existing(i, h))
    BY <1>1, <1>2, <1>3, <1>16, <2>1, <2>2 DEF Drafts, NoFalseCorruption
  <2>3. QED
    BY <1>1, <1>7, <1>9, <1>16, <2>1, <2>2
<1>17. ASSUME NEW c \in Ensures, Try(c) PROVE NoFalseCorruption'
  BY <1>17, <1>7 DEF Try, Keeps, launcherVars, channelVars, ownerVars
<1>18. ASSUME NEW c \in Ensures, Recheck(c) PROVE NoFalseCorruption'
  <2>1. /\ UNCHANGED <<said, reply>>
        /\ \/ UNCHANGED draft
           \/ \E r : Rejects(c, IF Matches(c, r) THEN "failed" ELSE "mismatch")
    BY <1>5, <1>18, Zenon DEF Recheck, Keeps, launcherVars, channelVars
  <2>2. QED
    BY <1>1, <1>7, <1>9, <1>18, <2>1
<1>19. ASSUME NEW d \in Daemons, DaemonInterrupt(d) PROVE NoFalseCorruption'
  BY <1>19, <1>7 DEF DaemonInterrupt, launcherVars, channelVars, ownerVars
<1>20. ASSUME NEW d \in Daemons, DaemonReceive(d) PROVE NoFalseCorruption'
  <2>1. /\ UNCHANGED <<draft, reply>>
        /\ \E x \in {"rejected", "established", "canceled", "undelivered"} :
             \E y : Concludes(d, x, y)
    BY <1>20 DEF DaemonReceive, ownerVars
  <2>2. QED
    BY <1>1, <1>8, <1>20, <2>1
<1>21. ASSUME NEW d \in Daemons, DaemonGivesUp(d) PROVE NoFalseCorruption'
  <2>1. /\ UNCHANGED <<draft, reply>>
        /\ \E x \in {"interrupted", "uncertain"} : Concludes(d, x, "uncertain")
    BY <1>21 DEF DaemonGivesUp, ownerVars
  <2>2. QED
    BY <1>1, <1>8, <1>21, <2>1
<1>22. ASSUME NEW l \in Launchers, Spawn(l) PROVE NoFalseCorruption'
  BY <1>22, <1>7 DEF Spawn, launcherVars, channelVars, ownerVars
<1>23. ASSUME NEW l \in Launchers, SpawnFails(l) PROVE NoFalseCorruption'
  BY <1>23, <1>8 DEF SpawnFails, ownerVars, channelVars
<1>24. ASSUME NEW l \in Launchers, Send(l) PROVE NoFalseCorruption'
  BY <1>24, <1>7 DEF Send, launcherVars, channelVars, ownerVars
<1>25. ASSUME NEW l \in Launchers, Incomplete(l) PROVE NoFalseCorruption'
  BY <1>25, <1>8 DEF Incomplete
<1>26. ASSUME NEW l \in Launchers, Eof(l) PROVE NoFalseCorruption'
  <2>1. /\ UNCHANGED <<draft, reply>>
        /\ \E x \in {"interrupted", "uncertain"} : Concludes(l, x, "uncertain")
    BY <1>26 DEF Eof, ownerVars
  <2>2. QED
    BY <1>8, <1>26, <2>1
<1>27. ASSUME NEW l \in Launchers, LauncherDies(l) PROVE NoFalseCorruption'
  BY <1>27, <1>7 DEF LauncherDies, launcherVars, channelVars, ownerVars
<1>28. ASSUME NEW l \in Launchers, ReceiveRequest(l) PROVE NoFalseCorruption'
  BY <1>28, <1>7 DEF ReceiveRequest, Keeps, launcherVars, channelVars, ownerVars
<1>29. ASSUME NEW l \in Launchers, ReceiveFails(l) PROVE NoFalseCorruption'
  BY <1>29, <1>7 DEF ReceiveFails, Keeps, launcherVars, channelVars, ownerVars
<1>30. ASSUME NEW l \in Launchers, Abandoned(l) PROVE NoFalseCorruption'
  BY <1>30, <1>1, <1>9
     DEF Abandoned, Keeps, launcherVars, channelVars, ownerVars, registryVars
<1>31. ASSUME NEW l \in Launchers, WriteReply(l) PROVE NoFalseCorruption'
  <2>1. /\ reply' = [reply EXCEPT ![l] = draft[l]] /\ draft' = [draft EXCEPT ![l] = None]
        /\ UNCHANGED said
    BY <1>31 DEF WriteReply, launcherVars
  <2>2. \A x \in Launchers : draft'[x] \in {None, draft[x]} /\ reply'[x] \in {reply[x], draft[x]}
    BY <1>1, <1>31, <2>1
  <2>3. QED
    BY <1>2, <2>1, <2>2 DEF NoFalseCorruption
<1>32. ASSUME NEW l \in Launchers, LoseReply(l) PROVE NoFalseCorruption'
  <2>1. draft' = [draft EXCEPT ![l] = None] /\ UNCHANGED <<said, reply>>
    BY <1>32 DEF LoseReply, Keeps, launcherVars, channelVars
  <2>2. \A x \in Launchers : draft'[x] \in {None, draft[x]}
    BY <1>1, <1>32, <2>1
  <2>3. QED
    BY <1>2, <2>1, <2>2 DEF NoFalseCorruption
<1>33. ASSUME NEW r \in Daemons \cup Foregrounds, Acquire(r) PROVE NoFalseCorruption'
  <2>1. /\ UNCHANGED <<said, reply>>
        /\ UNCHANGED draft \/ Rejects(r, "failed")
    BY <1>33, Zenon DEF Acquire, Keeps, launcherVars, channelVars
  <2>2. QED
    BY <1>1, <1>7, <1>9, <1>33, <2>1
<1>34. ASSUME NEW r \in Runs, Open(r) PROVE NoFalseCorruption'
  BY <1>34, <1>7 DEF Open, Keeps, launcherVars, channelVars, ownerVars
<1>35. ASSUME NEW r \in Runs, InitializeSchema(r) PROVE NoFalseCorruption'
  BY <1>35, <1>7 DEF InitializeSchema, Keeps, launcherVars, channelVars, ownerVars
<1>36. ASSUME NEW r \in Runs, Recover(r) PROVE NoFalseCorruption'
  BY <1>36, <1>7 DEF Recover, Keeps, launcherVars, channelVars, ownerVars
<1>37. ASSUME NEW r \in Runs, Prepare(r) PROVE NoFalseCorruption'
  BY <1>37, <1>7 DEF Prepare, Keeps, launcherVars, channelVars, ownerVars
<1>38. ASSUME NEW r \in Runs, Check(r) PROVE NoFalseCorruption'
  BY <1>38, <1>7 DEF Check, Keeps, launcherVars, channelVars, ownerVars
<1>39. ASSUME NEW r \in Runs, Publish(r) PROVE NoFalseCorruption'
  <2>1. owner[r] = "publish" /\ UNCHANGED <<said, reply>>
    BY <1>39 DEF Publish, Keeps, launcherVars, channelVars
  <2>2. ASSUME r \in Ensures PROVE IsFirstPublication(r)
    <3>1. file # 0 /\ mark[r] \in Nat
      BY <1>1, <2>1, <2>2 DEF CertaintyInv, ToldInv, GuardInv, MarkInv, GuardPCs
    <3>2. Continues(learned[r], [Now EXCEPT !.greatest = @ + 1])
      BY <1>1, <1>2, <2>2, <3>1, PastIsReadable DEF PastInv
    <3>3. FirstAfter(mark[r]) = 0
      BY <1>2, <1>4, <2>1, <2>2 DEF FirstInv, GuardPCs
    <3>4. Len(log) + 1 > mark[r]
      BY <1>1, <1>2, <2>2, <3>1 DEF PastInv
    <3>5. QED
      BY <3>2, <3>3, <3>4 DEF IsFirstPublication
  <2>3. \E h : Drafts(r, Established(r, h))
    BY <1>39, <2>2, Zenon DEF Publish
  <2>4. QED
    BY <1>1, <1>2, <1>3, <1>39, <2>1, <2>3 DEF Drafts, NoFalseCorruption
<1>40. ASSUME NEW r \in Runs, PrecommitFails(r) PROVE NoFalseCorruption'
  BY <1>40, <1>9
     DEF PrecommitFails, Keeps, launcherVars, channelVars, ownerVars, registryVars
<1>41. ASSUME NEW r \in Runs, Settle(r) PROVE NoFalseCorruption'
  BY <1>41, <1>7 DEF Settle, Keeps, launcherVars, channelVars, ownerVars
<1>42. ASSUME NEW r \in Runs, Finalize(r) PROVE NoFalseCorruption'
  BY <1>42, <1>7 DEF Finalize, Keeps, launcherVars, channelVars, ownerVars
<1>43. ASSUME NEW r \in Runs, Close(r) PROVE NoFalseCorruption'
  BY <1>43, <1>7 DEF Close, Keeps, launcherVars, channelVars, ownerVars
<1>44. ASSUME NEW r \in Runs, Exit(r) PROVE NoFalseCorruption'
  BY <1>44, <1>7 DEF Exit, Keeps, launcherVars, channelVars, ownerVars
<1>45. ASSUME NEW r \in Runs, Crash(r) PROVE NoFalseCorruption'
  <2>1. /\ draft' = [draft EXCEPT ![r] = None] \/ UNCHANGED draft
        /\ UNCHANGED <<said, reply>>
    BY <1>45, Zenon DEF Crash, Keeps, launcherVars, channelVars
  <2>2. \A x \in Launchers : draft'[x] \in {None, draft[x]}
    BY <1>1, <1>45, <2>1
  <2>3. QED
    BY <1>2, <2>1, <2>2 DEF NoFalseCorruption
<1>46. CASE RemoveRegistry
  BY <1>46
<1>47. CASE UNCHANGED vars
  BY <1>47, <1>7 DEF vars, launcherVars, channelVars, ownerVars
<1>48. QED
  BY <1>10, <1>11, <1>12, <1>13, <1>14, <1>15, <1>16, <1>17, <1>18, <1>19, <1>20, <1>21,
     <1>22, <1>23, <1>24, <1>25, <1>26, <1>27, <1>28, <1>29, <1>30, <1>31, <1>32, <1>33,
     <1>34, <1>35, <1>36, <1>37, <1>38, <1>39, <1>40, <1>41, <1>42, <1>43, <1>44, <1>45,
     <1>46, <1>47
     DEF Next, EnsureStep, SharedStep, DaemonStep, LauncherStep, DetachedStep, OwnerStep

\* The registry nobody removes: every step keeps its order and its readers.
LEMMA IntactStep ==
  CertaintyInv /\ LineageInv /\ IntactInv /\ [Next]_vars /\ [~ RemoveRegistry]_vars
    => IntactInv'
<1> SUFFICES ASSUME CertaintyInv, LineageInv, IntactInv, [Next]_vars, [~ RemoveRegistry]_vars
             PROVE  IntactInv'
  OBVIOUS
<1>1. ~ RemoveRegistry
  <2>1. RemoveRegistry => file' # file
    BY DEF RemoveRegistry
  <2>2. UNCHANGED vars => file' = file
    BY DEF vars, registryVars
  <2>3. QED
    BY <2>1, <2>2
<1>2. QED
  BY <1>1, FileKeeps, OrderStep, PastStep, CursorStep, FirstStep, ReadingStep
     DEF IntactInv, LineageInv

\* The inductive invariant of a registry nobody removes.
THEOREM IntactInvariance == Spec /\ [][~ RemoveRegistry]_vars => []IntactInv
<1>1. Init => IntactInv
  <2> SUFFICES ASSUME Init PROVE IntactInv
    OBVIOUS
  <2>1. Intact
    BY DEF Init, Intact
  <2>2. Creations = {} /\ Created = {}
    BY DEF Init, Creations, Created
  <2>3. \A r \in Runs : owner[r] \in {"none", "acquire"}
    BY DEF Init
  <2>4. OrderInv
    BY <2>2 DEF OrderInv
  <2>5. PastInv /\ CursorInv /\ FirstInv /\ NoFalseCorruption
    <3>1. \A c \in Ensures :
            /\ hist[c] = Unseen /\ learned[c] = Unseen /\ mark[c] = None
            /\ draft[c] = None /\ reply[c] = None /\ candidates[c] = {}
            /\ owner[c] \in {"none", "acquire"}
      BY <2>3 DEF Init, Launchers, Runs
    <3>2. \A l \in Launchers : said[l] = "none" /\ draft[l] = None /\ reply[l] = None
      BY DEF Init
    <3>3. Past(Unseen)
      BY DEF Past, PastOf, Unseen
    <3>4. QED
      BY <3>1, <3>2, <3>3 DEF PastInv, CursorInv, FirstInv, NoFalseCorruption, GuardPCs
  <2>6. QED
    BY <2>1, <2>4, <2>5 DEF IntactInv
<1>2. QED
  BY <1>1, IntactStep, EnsureInvariance, LineageInvariance, PTL DEF Spec

\* Unless somebody removes the registry no reader takes it for corrupt.
THEOREM ReadersAgree == Spec /\ [][~ RemoveRegistry]_vars => []NoFalseCorruption
<1>1. IntactInv => NoFalseCorruption
  BY DEF IntactInv
<1>2. QED
  BY <1>1, IntactInvariance, PTL

-----------------------------------------------------------------------------
(* The promise of an ensure.                                               *)

\* A step that leaves log, watermarks and answers alone is none of the promise.
LEMMA PromiseStutters ==
  ASSUME UNCHANGED <<log, mark, pinned>>
  PROVE  UNCHANGED Promise!firstVars
<1>1. Publications' = Publications
  BY DEF Publications, Creations
<1>2. QED
  BY <1>1 DEF Promise!firstVars

\* Settlements are the other events of the promise.
LEMMA SettlementsTick ==
  ASSUME log \in Seq(Events), NEW t \in Seq({e \in Events : e.kind = "settled"}),
         log' = log \o t, UNCHANGED <<mark, pinned>>
  PROVE  Promise!Tick \/ UNCHANGED Promise!firstVars
<1>1. /\ Creations' = Creations /\ Len(log') \in Nat /\ Len(log) <= Len(log')
      /\ \A i \in Creations : log'[i] = log[i]
  BY SettlesOnly
<1>2. Publications' = Publications
  BY <1>1 DEF Publications
<1>3. Len(log) \in Nat
  BY LenProperties
<1>4. CASE Len(log') = Len(log)
  BY <1>2, <1>4 DEF Promise!firstVars
<1>5. CASE Len(log') # Len(log)
  BY <1>1, <1>2, <1>3, <1>5 DEF Promise!Tick
<1>6. QED
  BY <1>4, <1>5

\* What the promise calls before and after is what the watermark divides.
LEMMA Divided ==
  ASSUME log \in Seq(Events), NEW c \in Ensures, mark[c] \in Nat
  PROVE  /\ \A p : p \in Promise!Before(c) <=>
              \E i \in Creations : i <= mark[c] /\ p = [run |-> log[i].run, seq |-> i]
         /\ \A p : p \in Promise!After(c) <=>
              \E i \in Creations : i > mark[c] /\ p = [run |-> log[i].run, seq |-> i]
  BY DEF Promise!Before, Promise!After, Publications

\* Every step without a removal is a step of the promise.
LEMMA PromiseStep ==
  CertaintyInv /\ LineageInv /\ IntactInv /\ [Next]_vars /\ [~ RemoveRegistry]_vars
    => [Promise!FirstNext]_(Promise!firstVars)
<1> SUFFICES ASSUME CertaintyInv, LineageInv, IntactInv, [Next]_vars, [~ RemoveRegistry]_vars
             PROVE  [Promise!FirstNext]_(Promise!firstVars)
  OBVIOUS
<1>1. /\ launcher \in [Launchers -> LauncherPCs]
      /\ mark \in [Ensures -> Nat \cup {None}]
      /\ hist \in [Ensures -> Histories]
      /\ candidates \in [Ensures -> SUBSET Runs]
      /\ pinned \in [Ensures -> Runs \cup {None}]
      /\ owner \in [Runs -> OwnerPCs]
      /\ learned \in [Ensures -> Histories]
      /\ draft \in [Launchers -> Replies \cup {None}]
      /\ reply \in [Launchers -> Replies \cup {None}]
      /\ madeIn \in [Runs -> 0..MaxFiles]
      /\ seen \in [Ensures -> [files : SUBSET Files, events : Nat]]
      /\ file \in 0..MaxFiles /\ log \in Seq(Events) /\ Len(log) \in Nat
      /\ Ensures \subseteq Launchers /\ Daemons \subseteq Launchers
      /\ Launchers \subseteq Runs /\ Foregrounds \subseteq Runs
      /\ None \notin Runs /\ None \notin Nat /\ None \notin Replies /\ MaxFiles \in Nat
  BY LenProperties, EnsureAssumption, NoneAssumption
     DEF CertaintyInv, TypeOK, Launchers, Runs
<1>2. ReadInv /\ AnswerInv /\ RegistryInv /\ FirstInv /\ PastInv
  BY DEF LineageInv, IntactInv
<1>3. \A w : FirstAfter(w) = FirstOf(Creations, w)
  BY Zenon DEF FirstAfter, FirstOf
<1>4. Creations \in SUBSET (Nat \ {0})
  BY <1>1, LenProperties DEF Creations
<1>5. ASSUME NEW c \in Ensures, EnrollRead(c) PROVE [Promise!FirstNext]_(Promise!firstVars)
  <2>1. mark[c] = None
    BY <1>5, <1>2 DEF EnrollRead, ReadInv
  <2>2. mark' = [mark EXCEPT ![c] = Len(log)] /\ UNCHANGED <<log, pinned>>
    BY <1>5 DEF EnrollRead, registryVars
  <2>3. Publications' = Publications
    BY <2>2 DEF Publications, Creations
  <2>4. Promise!Ask(c)
    BY <2>1, <2>2, <2>3 DEF Promise!Ask
  <2>5. QED
    BY <1>5, <2>4 DEF Promise!FirstNext
<1>6. ASSUME NEW c \in Ensures, EnrollSample(c)
       PROVE  [Promise!FirstNext]_(Promise!firstVars)
  <2>1. CASE UNCHANGED pinned
    <3>1. UNCHANGED <<log, mark, pinned>>
      BY <1>6, <2>1 DEF EnrollSample, registryVars
    <3>2. QED
      BY <3>1, PromiseStutters
  <2>2. ASSUME NEW r \in candidates[c], pinned' = [pinned EXCEPT ![c] = r]
        PROVE  [Promise!FirstNext]_(Promise!firstVars)
    <3>1. UNCHANGED <<log, mark>> /\ launcher[c] = "sampling"
      BY <1>6 DEF EnrollSample, registryVars
    <3>2. pinned[c] = None /\ mark[c] \in Nat
      BY <1>6, <1>1, <1>2, <3>1 DEF AnswerInv, CertaintyInv, ToldInv, MarkInv
    <3>3. PICK i \in Creations : /\ i <= mark[c] /\ log[i].run = r
                                 /\ \A j \in Creations : j <= mark[c] => j <= i
      BY <1>6, <1>2, <2>2 DEF FirstInv, LatestAt
    <3> DEFINE p == [run |-> log[i].run, seq |-> i]
    <3>4. p \in Promise!Before(c)
      BY <1>6, <1>1, <3>2, <3>3, Divided
    <3>5. \A q \in Promise!Before(c) : q.seq <= p.seq
      BY <1>6, <1>1, <3>2, <3>3, Divided
    <3>6. p.run = r
      BY <3>3
    <3>7. Publications' = Publications
      BY <3>1 DEF Publications, Creations
    <3> HIDE DEF p
    <3>8. Promise!AnswerCurrent(c)
      BY <1>1, <2>2, <3>1, <3>2, <3>4, <3>5, <3>6, <3>7 DEF Promise!AnswerCurrent
    <3>9. QED
      BY <1>6, <3>8 DEF Promise!FirstNext
  <2>3. UNCHANGED pinned \/ \E r \in candidates[c] : pinned' = [pinned EXCEPT ![c] = r]
    BY <1>6 DEF EnrollSample
  <2>4. QED
    BY <2>1, <2>2, <2>3
<1>7. ASSUME NEW c \in Ensures, EnsureReceive(c)
       PROVE  [Promise!FirstNext]_(Promise!firstVars)
  BY <1>7, PromiseStutters, Zenon DEF EnsureReceive, registryVars
<1>8. ASSUME NEW c \in Ensures, SelectReply(c) PROVE [Promise!FirstNext]_(Promise!firstVars)
  <2> DEFINE first == FirstAfter(mark[c])
             r == log[first].run
  <2>1. UNCHANGED <<log, mark>> /\ launcher[c] = "selecting"
    BY <1>8 DEF SelectReply, registryVars
  <2>2. \/ UNCHANGED pinned
        \/ first # 0 /\ pinned' = [pinned EXCEPT ![c] = r]
    BY <1>8 DEF SelectReply
  <2>3. CASE UNCHANGED pinned
    BY <2>1, <2>3, PromiseStutters
  <2>4. CASE first # 0 /\ pinned' = [pinned EXCEPT ![c] = r]
    <3>1. pinned[c] = None /\ mark[c] \in Nat
      BY <1>8, <1>1, <1>2, <2>1 DEF AnswerInv, CertaintyInv, ToldInv, MarkInv
    <3>2. /\ first \in Creations /\ first > mark[c]
          /\ \A i \in Creations : i > mark[c] => first <= i
      BY <1>1, <2>4, <3>1, FirstAfterIsFirst
    <3> DEFINE p == [run |-> r, seq |-> first]
    <3>3. p \in Promise!After(c)
      BY <1>8, <1>1, <3>1, <3>2, Divided
    <3>4. \A q \in Promise!After(c) : p.seq <= q.seq
      BY <1>8, <1>1, <3>1, <3>2, Divided
    <3>5. p.run = r
      OBVIOUS
    <3>6. Publications' = Publications
      BY <2>1 DEF Publications, Creations
    <3>7. pinned' = [pinned EXCEPT ![c] = p.run]
      BY <2>4
    <3> HIDE DEF p, r, first
    <3>8. Promise!AnswerFirst(c)
      BY <1>1, <2>1, <3>1, <3>3, <3>4, <3>6, <3>7 DEF Promise!AnswerFirst
    <3>9. QED
      BY <1>8, <3>8 DEF Promise!FirstNext
  <2>5. QED
    BY <2>2, <2>3, <2>4
<1>9. ASSUME NEW c \in Ensures, EnsureExpires(c)
       PROVE  [Promise!FirstNext]_(Promise!firstVars)
  BY <1>9, PromiseStutters, Zenon DEF EnsureExpires, registryVars
<1>10. ASSUME NEW c \in Ensures, Resume(c) PROVE [Promise!FirstNext]_(Promise!firstVars)
  BY <1>10, PromiseStutters, Zenon DEF Resume, Keeps, launcherVars, registryVars
<1>11. ASSUME NEW c \in Ensures, Seek(c) PROVE [Promise!FirstNext]_(Promise!firstVars)
  BY <1>11, PromiseStutters, Zenon DEF Seek, Keeps, launcherVars, registryVars
<1>12. ASSUME NEW c \in Ensures, Try(c) PROVE [Promise!FirstNext]_(Promise!firstVars)
  BY <1>12, PromiseStutters, Zenon DEF Try, Keeps, launcherVars, registryVars
<1>13. ASSUME NEW c \in Ensures, Recheck(c) PROVE [Promise!FirstNext]_(Promise!firstVars)
  BY <1>13, PromiseStutters, Zenon DEF Recheck, Keeps, launcherVars, registryVars
<1>14. ASSUME NEW d \in Daemons, DaemonInterrupt(d)
       PROVE  [Promise!FirstNext]_(Promise!firstVars)
  BY <1>14, PromiseStutters, Zenon DEF DaemonInterrupt, registryVars
<1>15. ASSUME NEW d \in Daemons, DaemonReceive(d)
       PROVE  [Promise!FirstNext]_(Promise!firstVars)
  BY <1>15, PromiseStutters, Zenon DEF DaemonReceive, registryVars
<1>16. ASSUME NEW d \in Daemons, DaemonGivesUp(d)
       PROVE  [Promise!FirstNext]_(Promise!firstVars)
  BY <1>16, PromiseStutters, Zenon DEF DaemonGivesUp, registryVars
<1>17. ASSUME NEW l \in Launchers, Spawn(l) PROVE [Promise!FirstNext]_(Promise!firstVars)
  BY <1>17, PromiseStutters, Zenon DEF Spawn, registryVars
<1>18. ASSUME NEW l \in Launchers, SpawnFails(l)
       PROVE  [Promise!FirstNext]_(Promise!firstVars)
  BY <1>18, PromiseStutters, Zenon DEF SpawnFails, registryVars
<1>19. ASSUME NEW l \in Launchers, Send(l) PROVE [Promise!FirstNext]_(Promise!firstVars)
  BY <1>19, PromiseStutters, Zenon DEF Send, registryVars
<1>20. ASSUME NEW l \in Launchers, Incomplete(l)
       PROVE  [Promise!FirstNext]_(Promise!firstVars)
  BY <1>20, PromiseStutters, Zenon DEF Incomplete, registryVars
<1>21. ASSUME NEW l \in Launchers, Eof(l) PROVE [Promise!FirstNext]_(Promise!firstVars)
  BY <1>21, PromiseStutters, Zenon DEF Eof, registryVars
<1>22. ASSUME NEW l \in Launchers, LauncherDies(l)
       PROVE  [Promise!FirstNext]_(Promise!firstVars)
  BY <1>22, PromiseStutters, Zenon DEF LauncherDies, registryVars
<1>23. ASSUME NEW l \in Launchers, ReceiveRequest(l)
       PROVE  [Promise!FirstNext]_(Promise!firstVars)
  BY <1>23, PromiseStutters, Zenon DEF ReceiveRequest, Keeps, launcherVars, registryVars
<1>24. ASSUME NEW l \in Launchers, ReceiveFails(l)
       PROVE  [Promise!FirstNext]_(Promise!firstVars)
  BY <1>24, PromiseStutters, Zenon DEF ReceiveFails, Keeps, launcherVars, registryVars
<1>25. ASSUME NEW l \in Launchers, Abandoned(l)
       PROVE  [Promise!FirstNext]_(Promise!firstVars)
  BY <1>25, PromiseStutters, Zenon DEF Abandoned, Keeps, launcherVars, registryVars
<1>26. ASSUME NEW l \in Launchers, WriteReply(l)
       PROVE  [Promise!FirstNext]_(Promise!firstVars)
  BY <1>26, PromiseStutters, Zenon DEF WriteReply, launcherVars, registryVars
<1>27. ASSUME NEW l \in Launchers, LoseReply(l)
       PROVE  [Promise!FirstNext]_(Promise!firstVars)
  BY <1>27, PromiseStutters, Zenon DEF LoseReply, Keeps, launcherVars, registryVars
<1>28. ASSUME NEW r \in Daemons \cup Foregrounds, Acquire(r)
       PROVE  [Promise!FirstNext]_(Promise!firstVars)
  BY <1>28, PromiseStutters, Zenon DEF Acquire, Keeps, launcherVars, registryVars
<1>29. ASSUME NEW r \in Runs, Open(r) PROVE [Promise!FirstNext]_(Promise!firstVars)
  BY <1>29, PromiseStutters, Zenon DEF Open, Keeps, launcherVars
<1>30. ASSUME NEW r \in Runs, InitializeSchema(r)
       PROVE  [Promise!FirstNext]_(Promise!firstVars)
  BY <1>30, PromiseStutters, Zenon DEF InitializeSchema, Keeps, launcherVars
<1>31. ASSUME NEW r \in Runs, Recover(r) PROVE [Promise!FirstNext]_(Promise!firstVars)
  <2>1. UNCHANGED <<mark, pinned>>
    BY <1>31 DEF Recover, Keeps, launcherVars
  <2>2. Promise!Tick \/ UNCHANGED Promise!firstVars
    BY <1>1, <1>31, <2>1, RecoverySettles, SettlementsTick
  <2>3. QED
    BY <2>2 DEF Promise!FirstNext
<1>32. ASSUME NEW r \in Runs, Prepare(r) PROVE [Promise!FirstNext]_(Promise!firstVars)
  BY <1>32, PromiseStutters, Zenon DEF Prepare, Keeps, launcherVars, registryVars
<1>33. ASSUME NEW r \in Runs, Check(r) PROVE [Promise!FirstNext]_(Promise!firstVars)
  BY <1>33, PromiseStutters, Zenon DEF Check, Keeps, launcherVars, registryVars
<1>34. ASSUME NEW r \in Runs, Publish(r) PROVE [Promise!FirstNext]_(Promise!firstVars)
  <2>1. owner[r] = "publish" /\ UNCHANGED <<mark, pinned>>
    BY <1>34 DEF Publish, Keeps, launcherVars
  <2>2. CASE r \in Ensures => IsFirstPublication(r)
    <3>1. log' = Append(log, Event("created", r))
      BY <1>34, <2>2, Zenon DEF Publish
    <3>2. /\ Creations' = Creations \cup {Len(log) + 1} /\ Len(log') = Len(log) + 1
          /\ \A i \in Creations : log'[i] = log[i]
          /\ log'[Len(log) + 1].run = r
      BY <1>1, <1>34, <3>1, PublishesOne
    <3>3. Publications' = Publications \cup {[run |-> r, seq |-> Len(log')]}
      BY <3>2 DEF Publications
    <3>4. \A p \in Publications : p.run # r
      <4>1. madeIn[r] = 0 /\ file # 0
        BY <1>34, <1>2, <2>1 DEF RegistryInv, EarlyPCs, GuardPCs, CertaintyInv, ToldInv,
                                GuardInv
      <4>2. \A i \in Creations : log[i].run # r
        BY <1>2, <4>1 DEF RegistryInv
      <4>3. QED
        BY <4>2 DEF Publications
    <3>5. ASSUME r \in Ensures PROVE mark[r] # None /\ Promise!After(r) = {}
      <4>1. mark[r] \in Nat
        BY <1>1, <2>1, <3>5 DEF CertaintyInv, ToldInv, MarkInv
      <4>2. FirstAfter(mark[r]) = 0
        BY <2>2, <3>5 DEF IsFirstPublication
      <4>3. \A i \in Creations : i <= mark[r]
        BY <1>1, <4>1, <4>2, FirstAfterIsFirst
      <4>4. \A p : p \notin Promise!After(r)
        BY <1>1, <1>4, <3>5, <4>1, <4>3, Divided
      <4>5. QED
        BY <1>1, <4>1, <4>4
    <3>6. Promise!Publish(r)
      BY <2>1, <3>2, <3>3, <3>4, <3>5 DEF Promise!Publish
    <3>7. QED
      BY <1>34, <3>6 DEF Promise!FirstNext
  <2>3. CASE ~ (r \in Ensures => IsFirstPublication(r))
    <3>1. UNCHANGED log
      BY <1>34, <2>3, Zenon DEF Publish
    <3>2. QED
      BY <2>1, <3>1, PromiseStutters
  <2>4. QED
    BY <2>2, <2>3
<1>35. ASSUME NEW r \in Runs, PrecommitFails(r)
       PROVE  [Promise!FirstNext]_(Promise!firstVars)
  BY <1>35, PromiseStutters, Zenon DEF PrecommitFails, Keeps, launcherVars, registryVars
<1>36. ASSUME NEW r \in Runs, Settle(r) PROVE [Promise!FirstNext]_(Promise!firstVars)
  <2>1. log' = Append(log, Event("settled", r)) /\ UNCHANGED <<mark, pinned>>
    BY <1>36 DEF Settle, Keeps, launcherVars
  <2>2. Promise!Tick \/ UNCHANGED Promise!firstVars
    BY <1>1, <1>36, <2>1, SettlesOne, SettlementsTick
  <2>3. QED
    BY <2>2 DEF Promise!FirstNext
<1>37. ASSUME NEW r \in Runs, Finalize(r) PROVE [Promise!FirstNext]_(Promise!firstVars)
  BY <1>37, PromiseStutters, Zenon DEF Finalize, Keeps, launcherVars
<1>38. ASSUME NEW r \in Runs, Close(r) PROVE [Promise!FirstNext]_(Promise!firstVars)
  BY <1>38, PromiseStutters, Zenon DEF Close, Keeps, launcherVars, registryVars
<1>39. ASSUME NEW r \in Runs, Exit(r) PROVE [Promise!FirstNext]_(Promise!firstVars)
  BY <1>39, PromiseStutters, Zenon DEF Exit, Keeps, launcherVars, registryVars
<1>40. ASSUME NEW r \in Runs, Crash(r) PROVE [Promise!FirstNext]_(Promise!firstVars)
  BY <1>40, PromiseStutters, Zenon DEF Crash, Keeps, launcherVars, registryVars
<1>41. CASE RemoveRegistry
  <2>1. file' # file
    BY <1>41 DEF RemoveRegistry
  <2>2. UNCHANGED vars
    BY <1>41, <2>1
  <2>3. QED
    BY <2>1, <2>2 DEF vars, registryVars
<1>42. CASE UNCHANGED vars
  BY <1>42, PromiseStutters, Zenon DEF vars, launcherVars, registryVars
<1>43. QED
  BY <1>5, <1>6, <1>7, <1>8, <1>9, <1>10, <1>11, <1>12, <1>13, <1>14, <1>15, <1>16,
     <1>17, <1>18, <1>19, <1>20, <1>21, <1>22, <1>23, <1>24, <1>25, <1>26, <1>27, <1>28,
     <1>29, <1>30, <1>31, <1>32, <1>33, <1>34, <1>35, <1>36, <1>37, <1>38, <1>39, <1>40,
     <1>41, <1>42
     DEF Next, EnsureStep, SharedStep, DaemonStep, LauncherStep, DetachedStep, OwnerStep

\* Unless somebody removes the registry an ensure keeps its promise: it names the
\* session current when it enrolled or the first one published since, and its own
\* owner publishes only while there is none.
THEOREM EnsureKeepsPromise == Spec /\ [][~ RemoveRegistry]_vars => KeepsPromise
<1>1. Init => Promise!FirstInit
  <2> SUFFICES ASSUME Init PROVE Promise!FirstInit
    OBVIOUS
  <2>1. Len(log) = 0 /\ Publications = {}
    BY DEF Init, Publications, Creations
  <2>2. QED
    BY <2>1 DEF Init, Promise!FirstInit
<1>2. QED
  BY <1>1, PromiseStep, EnsureInvariance, LineageInvariance, IntactInvariance, PTL
     DEF Spec, KeepsPromise, Promise!FirstSpec

\* One file is never removed: the bound of the run that checks the two.
THEOREM OneFileStays ==
  ASSUME MaxFiles = 1
  PROVE  Spec => [][~ RemoveRegistry]_vars
<1>1. CertaintyInv => ~ RemoveRegistry
  <2> SUFFICES ASSUME CertaintyInv, RemoveRegistry PROVE FALSE
    OBVIOUS
  <2>1. file \in 0..1 /\ files \in 0..1 /\ file <= files
    BY DEF CertaintyInv, TypeOK, FilesInv
  <2>2. file # 0 /\ files < 1
    BY DEF RemoveRegistry
  <2>3. QED
    BY <2>1, <2>2
<1>2. QED
  BY <1>1, EnsureInvariance, PTL

=============================================================================
