---------------------------- MODULE FirstPublication ----------------------------
(***************************************************************************)
(* What "ensure" promises, without processes, locks, channels or files.    *)
(*                                                                         *)
(* Sessions are published at numbers of one growing clock.  An asker names *)
(* one of them and never another: the session current when it asked, or    *)
(* the first one published since.  A session started on behalf of an asker *)
(* is published only while nothing else was published since it asked.      *)
(***************************************************************************)
EXTENDS Naturals

CONSTANTS
  Askers,  \* who asks; an asker may publish a session under its own name
  Runs,    \* sessions
  None     \* no answer, not asked

VARIABLES
  clock,    \* the number of the latest event
  created,  \* the publications: a session and its number
  since,    \* since[c]: the clock when c asked
  answer    \* answer[c]: the session c settled on

firstVars == <<clock, created, since, answer>>

FirstInit ==
  /\ clock = 0
  /\ created = {}
  /\ since = [c \in Askers |-> None]
  /\ answer = [c \in Askers |-> None]

After(c)  == {p \in created : p.seq > since[c]}
Before(c) == {p \in created : p.seq <= since[c]}

\* Other events.
Tick ==
  /\ clock' \in Nat
  /\ clock' > clock
  /\ UNCHANGED <<created, since, answer>>

Ask(c) ==
  /\ since[c] = None
  /\ since' = [since EXCEPT ![c] = clock]
  /\ UNCHANGED <<clock, created, answer>>

Publish(r) ==
  /\ clock' = clock + 1
  /\ \A p \in created : p.run # r
  /\ r \in Askers => since[r] # None /\ After(r) = {}
  /\ created' = created \cup {[run |-> r, seq |-> clock']}
  /\ UNCHANGED <<since, answer>>

\* The session current when c asked.
AnswerCurrent(c) ==
  /\ answer[c] = None
  /\ since[c] # None
  /\ \E p \in Before(c) :
       /\ \A q \in Before(c) : q.seq <= p.seq
       /\ answer' = [answer EXCEPT ![c] = p.run]
  /\ UNCHANGED <<clock, created, since>>

\* The first session published since c asked.
AnswerFirst(c) ==
  /\ answer[c] = None
  /\ since[c] # None
  /\ \E p \in After(c) :
       /\ \A q \in After(c) : p.seq <= q.seq
       /\ answer' = [answer EXCEPT ![c] = p.run]
  /\ UNCHANGED <<clock, created, since>>

FirstNext ==
  \/ Tick
  \/ \E c \in Askers : Ask(c) \/ AnswerCurrent(c) \/ AnswerFirst(c)
  \/ \E r \in Runs : Publish(r)

FirstSpec == FirstInit /\ [][FirstNext]_firstVars
=================================================================================
