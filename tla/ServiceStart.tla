------------------------------ MODULE ServiceStart ------------------------------
(***************************************************************************)
(* One service from its startup locks to its terminal row: the locks and   *)
(* the preflight, the gated launch, the grace period, the check rounds of  *)
(* readiness and health with their listener observations and their probe   *)
(* processes, the ready commit, and the teardown (service/process.rs,      *)
(* endpoint.rs, readiness.rs, registry.rs, launch.rs).                     *)
(*                                                                         *)
(* Abstractions.                                                           *)
(*  - Each owner is a runtime process that starts one service.  Its tree   *)
(*    is a leader and at most one descendant, the helper.                  *)
(*  - A port has at most one listening socket at a time; sockets are       *)
(*    numbered per port and no number is used again.                       *)
(*  - An observation visits one process after another and, in each, one    *)
(*    endpoint after another, twice, as on Linux; everything may happen in *)
(*    between.  On the other platform there is no second look.             *)
(*  - A preparation is one step that may never come: its task is of        *)
(*    ExecutionPlan.                                                       *)
(*  - A checkpoint (other services, authority, deadline), a transaction,   *)
(*    an inspection, a containment or a capture of a faulty owner may fail *)
(*    at any time.  The events of a transaction are left out.  The session *)
(*    around the service and the recovery of what a crash leaves are in    *)
(*    SlotSession.                                                         *)
(***************************************************************************)
EXTENDS Integers, Sequences, FiniteSets, FiniteSetsExt

CONSTANTS
  Owners,      \* runtime processes, each with one service to start
  Ports,       \* host addresses
  Wants,       \* the endpoints of an owner's service, in lock order
  Strict,      \* owners whose service is contained by its process group
  Faulty,      \* owners whose checkpoints, transactions, inspections, containment
               \* and capture may fail
  Forking,     \* owners whose service forks a helper
  Serves,      \* the addresses of an owner's service, with the process that listens
  Prepared,    \* owners whose service names a preparation
  Timed,       \* those whose preparation has a timeout
  MaxAttempts, \* the probe policy's bound on rounds
  MaxSockets,  \* bound: sockets that ever listen on each port
  MaxStarts,   \* bound: owners that ever start
  None

ASSUME ServiceAssumption ==
  /\ Wants \in [Owners -> Seq(Ports)]
  /\ Strict \subseteq Owners
  /\ Faulty \subseteq Owners /\ Forking \subseteq Owners
  /\ Serves \in [Owners -> SUBSET (Ports \X {"leader", "helper"})]
  /\ Prepared \subseteq Owners /\ Timed \subseteq Prepared
  /\ MaxAttempts \in Nat \ {0}
  /\ MaxSockets \in [Ports -> Nat] /\ MaxStarts \in Nat
  /\ None \notin Owners \cup Ports

VARIABLES
  pc,        \* pc[o]: the step the owner is about to take
  todo,      \* endpoints its current loop has still to visit
  lock,      \* lock[p]: the owner that holds the startup lock, None, or Other
  phase,     \* "ready", then "health"
  attempt,   \* round of the phase
  queue,     \* candidates the current observation has still to inspect
  at,        \* the one it inspects, None between two
  unread,    \* endpoints it has still to look for among the sockets of that one
  sighting,  \* the socket it found there for each endpoint, 0 for none
  found,     \* the listeners it has established
  witness,   \* the initial witnesses of the round
  policy,    \* the teardown that was chosen
  contained, \* what its containment proved
  captured,  \* whether the capture workers saw every writer close
  known,     \* owners that have evidence of their helper
  strayed,   \* owners that have evidence that it left the group
  leader,    \* leader[o]: the process the service was launched as
  helper,    \* its descendant: "in" the group, "out" of it, or out and "mute"
  holder,    \* holder[p]: who listens on p, Free, or Other
  socket,    \* number of the latest socket on p
  row,       \* the service's process row
  probe,     \* the probe process of the owner
  key,       \* the endpoint it checks
  result,    \* what the owner observed of it
  probeRow,  \* its rows: the latest one of each endpoint
  canceled,  \* owners that were asked to cancel
  steady     \* history: endpoints whose initial witness has held since it was complete

driver  == <<pc, todo, lock, phase, attempt, policy>>
rounds  == <<queue, at, unread, sighting, found, witness>>
ending  == <<contained, captured>>
tracker == <<known, strayed>>
tree    == <<leader, helper>>
sockets == <<holder, socket>>
probes  == <<probe, key, result, probeRow>>
vars == <<driver, rounds, ending, tracker, tree, sockets, row, probes, canceled, steady>>

\* All but the history, which every step determines.
runtimeVars == <<driver, rounds, ending, tracker, tree, sockets, row, probes, canceled>>

\* No one listens on an address; another runtime's process does, or holds its lock.
Free  == <<None, "free">>
Other == <<None, "other">>

\* An endpointless service has one probe, of no endpoint.
Keys(o) == IF Wants[o] = <<>> THEN <<None>> ELSE Wants[o]
Endpoints(o) == {Wants[o][i] : i \in DOMAIN Wants[o]}
Probed(o) == {Keys(o)[i] : i \in DOMAIN Keys(o)}

StartPCs  == {"lock", "bind", "intent", "prepare", "spawn", "register", "release", "launch",
              "grace"}
LookPCs   == {"list", "look", "sight", "recheck"}
ProbePCs  == {"probe", "admit", "watch", "finish", "record", "credit"}
CheckPCs  == LookPCs \cup ProbePCs \cup {"round", "commit", "write", "unguard", "wait"}
StopPCs   == {"stop", "contain", "capture", "settle", "drop"}
EndPCs    == {"absent", "refused", "ended", "crashed"}
PCs       == StartPCs \cup CheckPCs \cup {"up"} \cup StopPCs \cup EndPCs

Policies  == {"none", "stop", "cancel", "canceled", "failed"}
Statuses  == {"none", "running", "ready", "stopped", "canceled", "failed", "escaped"}
Outcomes  == {"none", "passed", "failed", "timedOut", "canceled"}
Tree      == [by : {"leader", "helper"}, group : {"in", "out"}]
Witnesses == [by : {"leader", "helper"}, group : {"in", "out"}, socket : Nat]
Sights(o) == [Endpoints(o) -> Witnesses \cup {None}]
Rows      == [status : Statuses, owned : {"none", "unresolved", "settled"},
              capture : {"pending", "complete", "incomplete"}]
ProbeRows == [attempt : 0..(MaxAttempts - 1), outcome : Outcomes,
              status : {"none", "running"} \cup Outcomes,
              owned : {"none", "unresolved", "settled"}]

TypeOK ==
  /\ pc \in [Owners -> PCs]
  /\ todo \in [Owners -> Seq(Ports \cup {None})]
  /\ lock \in [Ports -> Owners \cup {None, Other}]
  /\ phase \in [Owners -> {"ready", "health"}]
  /\ attempt \in [Owners -> 0..(MaxAttempts - 1)]
  /\ queue \in [Owners -> SUBSET Tree]
  /\ at \in [Owners -> Tree \cup {None}]
  /\ unread \in [Owners -> SUBSET Ports]
  /\ DOMAIN sighting = Owners /\ DOMAIN found = Owners /\ DOMAIN witness = Owners
  /\ \A o \in Owners : /\ sighting[o] \in [Endpoints(o) -> Nat]
                        /\ found[o] \in Sights(o) /\ witness[o] \in Sights(o)
  /\ policy \in [Owners -> Policies]
  /\ contained \in [Owners -> BOOLEAN]
  /\ captured \in [Owners -> BOOLEAN]
  /\ known \subseteq Owners
  /\ strayed \subseteq Strict \cap known
  /\ leader \in [Owners -> {"none", "gate", "released", "live", "dead"}]
  /\ helper \in [Owners -> {"none", "in", "out", "mute", "dead"}]
  /\ holder \in [Ports -> {Free, Other} \cup (Owners \X {"leader", "helper"})]
  /\ socket \in [Ports -> Nat] /\ \A p \in Ports : socket[p] <= MaxSockets[p]
  /\ row \in [Owners -> Rows]
  /\ probe \in [Owners -> {"none", "gate", "running", "passed", "failed"}]
  /\ DOMAIN key = Owners /\ \A o \in Owners : key[o] \in Probed(o)
  /\ result \in [Owners -> Outcomes \cup {"error"}]
  /\ DOMAIN probeRow = Owners
  /\ \A o \in Owners : probeRow[o] \in [Probed(o) -> ProbeRows]
  /\ canceled \subseteq Owners
  /\ steady \in [Owners -> SUBSET Ports]

\* Bounds: a tree is followed until its owner ends, its sockets until it is torn
\* down, and an address changes hands between others until then.
Followed == {o \in Owners : pc[o] \notin EndPCs}
Observable == {o \in Owners : pc[o] \notin EndPCs \cup StopPCs}

NoRow      == [status |-> "none", owned |-> "none", capture |-> "pending"]
NoProbeRow == [attempt |-> 0, outcome |-> "none", status |-> "none", owned |-> "none"]
Unseen(o)  == [p \in Endpoints(o) |-> None]
NoSight(o) == [p \in Endpoints(o) |-> 0]

Init ==
  /\ \E started \in kSubset(MaxStarts, Owners) :
       pc = [o \in Owners |-> IF o \in started THEN "lock" ELSE "absent"]
  /\ todo = Wants
  /\ lock \in [Ports -> {None, Other}]
  /\ \A p \in Ports : lock[p] = Other => \E o \in Followed : p \in Endpoints(o)
  /\ phase = [o \in Owners |-> "ready"]
  /\ attempt = [o \in Owners |-> 0]
  /\ queue = [o \in Owners |-> {}]
  /\ at = [o \in Owners |-> None]
  /\ unread = [o \in Owners |-> {}]
  /\ sighting = [o \in Owners |-> NoSight(o)]
  /\ found = [o \in Owners |-> Unseen(o)]
  /\ witness = [o \in Owners |-> Unseen(o)]
  /\ policy = [o \in Owners |-> "none"]
  /\ contained = [o \in Owners |-> FALSE]
  /\ captured = [o \in Owners |-> FALSE]
  /\ known = {}
  /\ strayed = {}
  /\ leader = [o \in Owners |-> "none"]
  /\ helper = [o \in Owners |-> "none"]
  /\ holder = [p \in Ports |-> Free]
  /\ socket = [p \in Ports |-> 0]
  /\ row = [o \in Owners |-> NoRow]
  /\ probe = [o \in Owners |-> "none"]
  /\ key = [o \in Owners |-> Head(Keys(o))]
  /\ result = [o \in Owners |-> "none"]
  /\ probeRow = [o \in Owners |-> [k \in Probed(o) |-> NoProbeRow]]
  /\ canceled = {}
  /\ steady = [o \in Owners |-> {}]

-----------------------------------------------------------------------------
(* The owner's control.                                                    *)

Goto(o, step) == pc' = [pc EXCEPT ![o] = step]
Freed(o) == [p \in Ports |-> IF lock[p] = o THEN None ELSE lock[p]]

\* Nothing was launched: the start settles as it stands and the locks go.
Refuse(o) ==
  /\ Goto(o, "refused")
  /\ lock' = Freed(o)
  /\ UNCHANGED <<todo, phase, attempt, policy>>

\* A checkpoint, or what it guards, ends what the owner is doing.
Interrupted(o) == o \in Faulty \cup canceled

\* What a loop keeps goes with it.
LeaveLoops(o) == todo' = [todo EXCEPT ![o] = <<>>] /\ attempt' = [attempt EXCEPT ![o] = 0]

\* The error chooses how the launched service is torn down.
Fail(o) ==
  /\ \E why \in {"failed"} \cup (IF o \in canceled THEN {"canceled"} ELSE {}) :
       policy' = [policy EXCEPT ![o] = why]
  /\ Goto(o, "contain")
  /\ LeaveLoops(o)
  /\ UNCHANGED <<lock, phase>>

-----------------------------------------------------------------------------
(* Evidence about the tree.                                                *)

LeaderLives(o) == leader[o] \in {"gate", "released", "live"}
Away(o) == helper[o] \in {"out", "mute"}
HelperLives(o) == helper[o] = "in" \/ Away(o)

\* A child is found through its parent only.
Refresh(o) ==
  /\ known' = IF LeaderLives(o) /\ HelperLives(o) THEN known \cup {o} ELSE known
  /\ strayed' = IF LeaderLives(o) /\ Away(o) /\ o \in Strict
                THEN strayed \cup {o} ELSE strayed

\* What an observation finds, its evidence refreshed: escape first, then exit.
Live(o) == o \notin strayed' /\ LeaderLives(o)

\* One contained observation that lets the owner go on, under a checkpoint.
Proceed(o) == Refresh(o) /\ Live(o) /\ o \notin canceled
\* ... and one that ends the start.
Depart(o) == Refresh(o) /\ (Interrupted(o) \/ ~Live(o)) /\ Fail(o)

-----------------------------------------------------------------------------
(* An observation of the listeners.                                        *)

Lives(o, w) == IF w = "leader" THEN LeaderLives(o) ELSE HelperLives(o)
Group(o, w) == IF w = "helper" /\ Away(o) THEN "out" ELSE "in"
InContainment(o, w) ==
  IF o \in Strict THEN Group(o, w) = "in" ELSE w = "leader" \/ LeaderLives(o)

\* Processes whose sockets count as the service's.
Candidates(o) ==
  {c \in Tree : Lives(o, c.by) /\ c.group = Group(o, c.by) /\ InContainment(o, c.by)}

\* A candidate that changed its group or left the containment ends the start.
Moved(o, c) == Lives(o, c.by) /\ (c.group # Group(o, c.by) \/ ~InContainment(o, c.by))

\* Nothing is left of an observation.
Looked(o) ==
  /\ queue' = [queue EXCEPT ![o] = {}]
  /\ at' = [at EXCEPT ![o] = None]
  /\ unread' = [unread EXCEPT ![o] = {}]
  /\ sighting' = [sighting EXCEPT ![o] = NoSight(o)]
  /\ found' = [found EXCEPT ![o] = Unseen(o)]

\* A round's evidence is its own and ends with it.
Forget(o) == Looked(o) /\ witness' = [witness EXCEPT ![o] = Unseen(o)]

\* The observation is the second of its round.
Again(o) == witness[o] # Unseen(o)

\* Mutant: two witnesses are compared without their sockets.
SameHolder(a, b) == a.by = b.by /\ a.group = b.group

\* Two observations met the same listener.
SameListener(a, b) == a = b

Complete(o, seen) == \A p \in Endpoints(o) : seen[p] # None

\* The candidates are listed; the leader lived a moment ago.
List(o) ==
  /\ pc[o] = "list"
  /\ queue' = [queue EXCEPT ![o] = Candidates(o)]
  /\ Goto(o, "look")
  /\ UNCHANGED <<todo, lock, phase, attempt, policy, at, unread, sighting, found, witness>>

\* The next candidate, if it is still there.
Inspect(o) ==
  /\ pc[o] = "look" /\ ~Complete(o, found[o])
  /\ \E c \in queue[o] :
       /\ ~Moved(o, c)
       /\ queue' = [queue EXCEPT ![o] = @ \ {c}]
       /\ IF Lives(o, c.by)
          THEN /\ at' = [at EXCEPT ![o] = c]
               /\ unread' = [unread EXCEPT ![o] = Endpoints(o)]
               /\ Goto(o, "sight")
          ELSE UNCHANGED <<pc, at, unread>>
  /\ UNCHANGED <<todo, lock, phase, attempt, policy, sighting, found, witness>>

SocketAt(o, p) == IF holder[p] = <<o, at[o].by>> THEN socket[p] ELSE 0

\* One descriptor of the candidate after the other.
Sight(o) ==
  /\ pc[o] = "sight"
  /\ \E p \in unread[o] : /\ sighting' = [sighting EXCEPT ![o][p] = SocketAt(o, p)]
                          /\ unread' = [unread EXCEPT ![o] = @ \ {p}]
  /\ UNCHANGED <<driver, queue, at, found, witness>>

\* The kernel's dump, after which the descriptors are read again.
Dump(o) ==
  /\ pc[o] = "sight" /\ unread[o] = {}
  /\ unread' = [unread EXCEPT ![o] = {p \in Endpoints(o) : sighting[o][p] # 0}]
  /\ Goto(o, "recheck")
  /\ UNCHANGED <<todo, lock, phase, attempt, policy, queue, at, sighting, found, witness>>

Recheck(o) ==
  /\ pc[o] = "recheck"
  /\ \E p \in unread[o] :
       /\ sighting' = [sighting EXCEPT ![o][p] = IF SocketAt(o, p) = @ THEN @ ELSE 0]
       /\ unread' = [unread EXCEPT ![o] = @ \ {p}]
  /\ UNCHANGED <<driver, queue, at, found, witness>>

WitnessAt(o, p) == [by |-> at[o].by, group |-> at[o].group, socket |-> sighting[o][p]]

\* What the observation may add: in the second one only the initial witness again.
Establishes(o, p) ==
  /\ found[o][p] = None
  /\ sighting[o][p] # 0
  /\ Again(o) => SameListener(WitnessAt(o, p), witness[o][p])

\* A candidate that is still there after its inspection lends its listeners.
Admit(o) ==
  /\ pc[o] = "recheck" /\ unread[o] = {} /\ ~Moved(o, at[o])
  /\ found' = [found EXCEPT ![o] =
       [p \in Endpoints(o) |-> IF Lives(o, at[o].by) /\ Establishes(o, p)
                               THEN WitnessAt(o, p) ELSE found[o][p]]]
  /\ at' = [at EXCEPT ![o] = None]
  /\ sighting' = [sighting EXCEPT ![o] = NoSight(o)]
  /\ Goto(o, "look")
  /\ UNCHANGED <<todo, lock, phase, attempt, policy, queue, unread, witness>>

\* The leader is gone at the start, a candidate moved, or an inspection fails.
LookFails(o) ==
  /\ \/ pc[o] = "list" /\ ~LeaderLives(o)
     \/ pc[o] = "look" /\ ~Complete(o, found[o]) /\ \E c \in queue[o] : Moved(o, c)
     \/ pc[o] = "recheck" /\ unread[o] = {} /\ Moved(o, at[o])
     \/ pc[o] \in LookPCs /\ o \in Faulty
  /\ Fail(o)
  /\ Forget(o)

-----------------------------------------------------------------------------
(* Locks, preflight and launch.                                            *)

\* The locks are tried in one order and never waited for.
TakeLock(o) ==
  /\ pc[o] = "lock"
  /\ IF todo[o] = <<>>
     THEN /\ Goto(o, "bind")
          /\ todo' = [todo EXCEPT ![o] = Wants[o]]
          /\ UNCHANGED lock
     ELSE /\ lock[Head(todo[o])] = None
          /\ lock' = [lock EXCEPT ![Head(todo[o])] = o]
          /\ todo' = [todo EXCEPT ![o] = Tail(@)]
          /\ UNCHANGED pc
  /\ UNCHANGED <<phase, attempt, policy>>

\* The exact bind of each endpoint, then the start intent and prepare.
Preflight(o) ==
  /\ pc[o] = "bind"
  /\ IF todo[o] = <<>>
     THEN Goto(o, "intent") /\ UNCHANGED todo
     ELSE /\ holder[Head(todo[o])] = Free
          /\ todo' = [todo EXCEPT ![o] = Tail(@)]
          /\ UNCHANGED pc
  /\ UNCHANGED <<lock, phase, attempt, policy>>

\* A lock of another owner, an address in use, or a failure before a child exists.
StartFails(o) ==
  /\ \/ pc[o] = "lock" /\ todo[o] # <<>> /\ lock[Head(todo[o])] # None
     \/ pc[o] = "bind" /\ todo[o] # <<>> /\ holder[Head(todo[o])] # Free
     \/ pc[o] \in {"lock", "bind", "intent", "spawn"} /\ Interrupted(o)
  /\ Refuse(o)

Intend(o) ==
  /\ pc[o] = "intent"
  /\ Goto(o, IF o \in Prepared THEN "prepare" ELSE "spawn")
  /\ UNCHANGED <<todo, lock, phase, attempt, policy>>

\* A preparation is stopped when it is canceled or at its timeout, if it has one.
PrepareCut(o) ==
  /\ pc[o] = "prepare"
  /\ o \in canceled \cup Timed
  /\ Refuse(o)

\* The steps above change nothing but the owner's control.
Prelaunch(o) ==
  /\ TakeLock(o) \/ Preflight(o) \/ StartFails(o) \/ Intend(o) \/ PrepareCut(o)
  /\ UNCHANGED <<rounds, ending, tracker, tree, sockets, row, probes, canceled>>

\* A preparation ends by itself, or never does.
PrepareEnds(o) ==
  /\ pc[o] = "prepare"
  /\ \/ Goto(o, "spawn") /\ UNCHANGED <<todo, lock, phase, attempt, policy>>
     \/ Refuse(o)
  /\ UNCHANGED <<rounds, ending, tracker, tree, sockets, row, probes, canceled>>

SpawnGate(o) ==
  /\ pc[o] = "spawn" /\ o \notin canceled
  /\ leader' = [leader EXCEPT ![o] = "gate"]
  /\ Goto(o, "register")
  /\ UNCHANGED <<todo, lock, phase, attempt, policy, rounds, ending, tracker, helper,
                 sockets, row, probes, canceled>>

\* The row is committed before any byte of the request reaches the gate.
Register(o) ==
  /\ pc[o] = "register" /\ o \notin canceled /\ leader[o] = "gate"
  /\ row' = [row EXCEPT ![o] = [status |-> "running", owned |-> "unresolved",
                                capture |-> "pending"]]
  /\ Goto(o, "release")
  /\ UNCHANGED <<todo, lock, phase, attempt, policy, rounds, ending, tracker, tree, sockets,
                 probes, canceled>>

\* Without a row the inert gate is reaped directly; that may fail too.
RegisterFails(o) ==
  /\ pc[o] = "register"
  /\ Interrupted(o) \/ leader[o] = "dead"
  /\ Refuse(o)
  /\ \E state \in {"dead"} \cup (IF o \in Faulty THEN {leader[o]} ELSE {}) : leader' = [leader EXCEPT ![o] = state]
  /\ UNCHANGED <<rounds, ending, tracker, helper, sockets, row, probes, canceled>>

\* Permission: the request and the closed write half.
Release(o) ==
  /\ pc[o] = "release" /\ o \notin canceled /\ leader[o] = "gate"
  /\ leader' = [leader EXCEPT ![o] = "released"]
  /\ Goto(o, "launch")
  /\ UNCHANGED <<todo, lock, phase, attempt, policy, rounds, ending, tracker, helper,
                 sockets, row, probes, canceled>>

\* The channel closes when the workload is executed, or when the gate dies.
Launched(o) ==
  /\ pc[o] = "launch" /\ o \notin canceled /\ leader[o] \in {"live", "dead"}
  /\ Goto(o, "grace")
  /\ UNCHANGED <<todo, lock, phase, attempt, policy, rounds, ending, tracker, tree, sockets,
                 row, probes, canceled>>

\* Refused after the commit, or the startup deadline: the caller settles the
\* row from the contained facts.
LaunchFails(o) ==
  /\ \/ pc[o] = "release" /\ (Interrupted(o) \/ leader[o] = "dead")
     \/ pc[o] = "launch"
  /\ Fail(o)
  /\ UNCHANGED <<rounds, ending, tracker, tree, sockets, row, probes, canceled>>

\* The grace period: escape evidence again and again, then a live leader.
Grace(o) ==
  /\ pc[o] = "grace"
  /\ \/ Refresh(o) /\ o \notin strayed' /\ UNCHANGED driver
     \/ Proceed(o) /\ Goto(o, "round") /\ UNCHANGED <<todo, lock, phase, attempt, policy>>
     \/ Depart(o)
  /\ UNCHANGED <<rounds, ending, tree, sockets, row, probes, canceled>>

-----------------------------------------------------------------------------
(* Check rounds.                                                           *)

\* Observe the service, then either the listeners or, without endpoints, probe.
Round(o) ==
  /\ pc[o] = "round"
  /\ Proceed(o)
  /\ IF Endpoints(o) = {} THEN Goto(o, "probe") /\ todo' = [todo EXCEPT ![o] = Keys(o)]
                          ELSE Goto(o, "list") /\ UNCHANGED todo
  /\ UNCHANGED <<lock, phase, attempt, policy, rounds, probes>>

\* An exhausted phase is an error; otherwise the owner waits and tries again.
Retry(o) ==
  IF attempt[o] + 1 < MaxAttempts
  THEN /\ Goto(o, "wait")
       /\ attempt' = [attempt EXCEPT ![o] = @ + 1]
       /\ UNCHANGED <<todo, lock, phase, policy>>
  ELSE Fail(o)

\* The witnesses the round has to find again at its end.
Initial(o) ==
  /\ Complete(o, found[o]) /\ ~Again(o)
  /\ Looked(o)
  /\ witness' = [witness EXCEPT ![o] = found[o]]
  /\ Goto(o, "probe")
  /\ todo' = [todo EXCEPT ![o] = Keys(o)]
  /\ UNCHANGED <<lock, phase, attempt, policy>>

\* They were found again, each as it was.
Final(o) ==
  /\ Complete(o, found[o]) /\ Again(o)
  /\ Forget(o)
  /\ Goto(o, "commit")
  /\ UNCHANGED <<todo, lock, phase, attempt, policy>>

Missing(o) ==
  /\ ~Complete(o, found[o]) /\ queue[o] = {}
  /\ Forget(o)
  /\ Retry(o)

Conclude(o) == pc[o] = "look" /\ (Initial(o) \/ Final(o) \/ Missing(o))

Look(o) ==
  /\ \/ List(o) \/ Inspect(o) \/ Sight(o) \/ Dump(o) \/ Recheck(o) \/ Admit(o)
     \/ LookFails(o) \/ Conclude(o)
  /\ UNCHANGED <<tracker, probes>>

Wait(o) ==
  /\ pc[o] = "wait"
  /\ Proceed(o)
  /\ Goto(o, "round")
  /\ UNCHANGED <<todo, lock, phase, attempt, policy, rounds, probes>>

\* Mutant: the locks go with the evidence, before the commit.
CommitUnguarded(o) ==
  /\ pc[o] = "commit"
  /\ Proceed(o)
  /\ lock' = Freed(o)
  /\ Goto(o, "write")
  /\ UNCHANGED <<todo, phase, attempt, policy, rounds, probes>>

\* Once more before the transaction.
Commit(o) ==
  /\ pc[o] = "commit"
  /\ Proceed(o)
  /\ Goto(o, "write")
  /\ UNCHANGED <<todo, lock, phase, attempt, policy, rounds, probes>>

\* Cancellation, a departed service, a transaction that fails.
CheckFails(o) ==
  /\ pc[o] \in {"round", "wait", "commit", "write"}
  /\ Depart(o)
  /\ UNCHANGED <<rounds, probes>>

CheckStep(o) ==
  /\ Round(o) \/ Look(o) \/ Wait(o) \/ Commit(o) \/ CheckFails(o)
  /\ UNCHANGED <<ending, tree, sockets, row, canceled>>

\* The transaction takes a row in its phase and probes that are settled successes.
Credited(r) == r.status = "passed" /\ r.owned = "settled" /\ r.outcome = "passed"

WriteCheck(o) ==
  /\ pc[o] = "write"
  /\ row[o].status = (IF phase[o] = "ready" THEN "running" ELSE "ready")
  /\ row[o].owned = "unresolved"
  /\ \A k \in Probed(o) : Credited(probeRow[o][k])
  /\ row' = [row EXCEPT ![o].status = "ready"]
  /\ Goto(o, IF phase[o] = "ready" THEN "unguard" ELSE "up")
  /\ UNCHANGED <<todo, lock, phase, attempt, policy, rounds, ending, tracker, tree, sockets,
                 probes, canceled>>

\* The locks go after the commit; the health check follows.
Unguard(o) ==
  /\ pc[o] = "unguard"
  /\ lock' = Freed(o)
  /\ phase' = [phase EXCEPT ![o] = "health"]
  /\ attempt' = [attempt EXCEPT ![o] = 0]
  /\ Goto(o, "round")
  /\ UNCHANGED <<todo, policy, rounds, ending, tracker, tree, sockets, row, probes, canceled>>

-----------------------------------------------------------------------------
(* One probe.                                                              *)

\* Spawned inert and registered; a service that departed starts none.
StartProbe(o) ==
  /\ pc[o] = "probe"
  /\ Proceed(o)
  /\ key' = [key EXCEPT ![o] = Head(todo[o])]
  /\ probe' = [probe EXCEPT ![o] = "gate"]
  /\ probeRow' = [probeRow EXCEPT ![o][Head(todo[o])] =
       [attempt |-> attempt[o], outcome |-> "none", status |-> "running",
        owned |-> "unresolved"]]
  /\ Goto(o, "admit")
  /\ UNCHANGED <<todo, lock, phase, attempt, policy, result>>

\* Before its row commits the inert probe is reaped and nothing is owed.
ProbeFails(o) ==
  /\ pc[o] = "probe"
  /\ Depart(o)
  /\ Forget(o)
  /\ UNCHANGED probes

AdmitProbe(o) ==
  /\ pc[o] = "admit"
  /\ \/ /\ o \notin canceled
        /\ probe' = [probe EXCEPT ![o] = "running"]
        /\ Goto(o, "watch")
        /\ UNCHANGED <<result, tracker>>
     \/ /\ Refresh(o) /\ (Interrupted(o) \/ ~Live(o))
        /\ result' = [result EXCEPT ![o] = "error"]
        /\ Goto(o, "finish")
        /\ UNCHANGED probe
  /\ UNCHANGED <<todo, lock, phase, attempt, policy, key, probeRow>>

\* Mutant: a probe is waited for without its deadline.
ObservedPatiently(o) ==
  IF o \in canceled THEN {"canceled"}
  ELSE (IF o \in Faulty \/ ~Live(o) THEN {"error"} ELSE {})
         \cup (IF ~Live(o) \/ probe[o] = "running" THEN {} ELSE {probe[o]})

\* Cancellation, then the service, then the probe itself, then its deadline.
Observed(o) ==
  IF o \in canceled THEN {"canceled"}
  ELSE (IF o \in Faulty \/ ~Live(o) THEN {"error"} ELSE {})
         \cup (IF ~Live(o) THEN {}
               ELSE IF probe[o] = "running" THEN {"timedOut"} ELSE {probe[o]})

\* An observed outcome is committed once, before anything is signaled.
WatchProbe(o) ==
  /\ pc[o] = "watch"
  /\ Refresh(o)
  /\ \E seen \in Observed(o) :
       /\ result' = [result EXCEPT ![o] = seen]
       /\ \/ seen # "error" /\ probeRow' = [probeRow EXCEPT ![o][key[o]].outcome = seen]
          \/ (seen = "error" \/ o \in Faulty) /\ UNCHANGED probeRow
  /\ Goto(o, "finish")
  /\ UNCHANGED <<todo, lock, phase, attempt, policy, probe, key>>

\* Its group is terminated and reaped and its capture closed, whatever was
\* observed; only when both succeed does the probe leave no obligation.
FinishProbe(o) ==
  /\ pc[o] = "finish"
  /\ \/ probe' = [probe EXCEPT ![o] = "none"] /\ Goto(o, "record")
     \/ /\ o \in Faulty
        /\ \E left \in {probe[o], "none"} : probe' = [probe EXCEPT ![o] = left]
        /\ Goto(o, "credit")
  /\ UNCHANGED <<todo, lock, phase, attempt, policy, tracker, key, result, probeRow>>

\* Mutant: what ended the wait for the settlement hides what was observed.
VerdictLatest(o) == IF o \in canceled THEN "canceled" ELSE result[o]

\* Terminal evidence: the outcome that was observed, or an interruption.
Verdict(o) == IF result[o] = "error" THEN "canceled" ELSE result[o]

RecordProbe(o) ==
  /\ pc[o] = "record"
  /\ \/ probeRow' = [probeRow EXCEPT ![o][key[o]].status = Verdict(o),
                                     ![o][key[o]].owned = "settled"]
     \/ o \in Faulty /\ UNCHANGED probeRow
  /\ Goto(o, "credit")
  /\ UNCHANGED <<todo, lock, phase, attempt, policy, tracker, probe, key, result>>

\* A departure of the service hides no probe error and no probe success hides
\* a departure: only a settled success goes on, and a settled failure retries.
CreditProbe(o) ==
  /\ pc[o] = "credit"
  /\ \/ /\ Proceed(o)
        /\ probeRow[o][key[o]].owned = "settled"
        /\ probeRow[o][key[o]].outcome = result[o]
        /\ \/ /\ result[o] = "passed"
              /\ todo' = [todo EXCEPT ![o] = Tail(@)]
              /\ Goto(o, IF Tail(todo[o]) # <<>> THEN "probe"
                         ELSE IF Endpoints(o) = {} THEN "commit" ELSE "list")
              /\ UNCHANGED <<lock, phase, attempt, policy, rounds>>
           \/ result[o] \in {"failed", "timedOut"} /\ Retry(o) /\ Forget(o)
     \/ result[o] \in {"canceled", "error"} /\ Refresh(o) /\ Fail(o) /\ Forget(o)
     \/ Depart(o) /\ Forget(o)
  /\ result' = [result EXCEPT ![o] = "none"]
  /\ UNCHANGED <<probe, key, probeRow>>

ProbeStep(o) ==
  /\ \/ /\ StartProbe(o) \/ AdmitProbe(o) \/ WatchProbe(o) \/ FinishProbe(o) \/ RecordProbe(o)
        /\ UNCHANGED rounds
     \/ ProbeFails(o) \/ CreditProbe(o)
  /\ UNCHANGED <<ending, tree, sockets, row, canceled>>

-----------------------------------------------------------------------------
(* Teardown.                                                               *)

\* A ready service is stopped, or canceled, when its session ends.
Choose(o) ==
  /\ pc[o] = "up"
  /\ \E how \in {"stop"} \cup (IF o \in canceled THEN {"cancel"} ELSE {}) :
       /\ policy' = [policy EXCEPT ![o] = how]
       /\ Goto(o, IF how = "stop" THEN "stop" ELSE "contain")
  /\ UNCHANGED <<todo, lock, phase, attempt, rounds, ending, tracker, tree, sockets, row,
                 probes, canceled>>

\* Pending exits and escapes are observed before the durable stop intent; a
\* stop that finds one, or cannot record its intent, is a failure.
Stop(o) ==
  /\ pc[o] = "stop"
  /\ Refresh(o)
  /\ \/ Live(o) /\ policy' = [policy EXCEPT ![o] = "stop"]
     \/ (~Live(o) \/ o \in Faulty) /\ policy' = [policy EXCEPT ![o] = "failed"]
  /\ Goto(o, "contain")
  /\ UNCHANGED <<todo, lock, phase, attempt, rounds, ending, tree, sockets, row, probes,
                 canceled>>

\* The processes a signal to the group and to the evidence reaches.
Reached(o) == {"leader"} \cup (IF helper[o] = "in" \/ o \in known' THEN {"helper"} ELSE {})

HolderAfter(o, gone) ==
  [p \in Ports |-> IF \E w \in gone : holder[p] = <<o, w>> THEN Free ELSE holder[p]]

\* Evidence is refreshed, the tree is signaled, escalated and waited for.
Kill(o) ==
  /\ Refresh(o)
  /\ leader' = [leader EXCEPT ![o] = "dead"]
  /\ helper' = [helper EXCEPT ![o] =
       IF HelperLives(o) /\ "helper" \in Reached(o) THEN "dead" ELSE @]
  /\ holder' = HolderAfter(o, Reached(o))

Survives(o) == Refresh(o) /\ o \in Faulty /\ UNCHANGED <<leader, helper, holder>>

Contain(o) ==
  /\ pc[o] = "contain"
  /\ \/ Kill(o) /\ contained' = [contained EXCEPT ![o] = TRUE]
     \/ Survives(o) /\ UNCHANGED contained
  /\ Goto(o, "capture")
  /\ UNCHANGED <<todo, lock, phase, attempt, policy, rounds, captured, socket, row,
                 probes, canceled>>

\* Capture is complete only when every writer has closed the output.
Writers(o) == LeaderLives(o) \/ (HelperLives(o) /\ helper[o] # "mute")

Capture(o) ==
  /\ pc[o] = "capture"
  /\ \E closed \in {~Writers(o)} \cup (IF o \in Faulty THEN {FALSE} ELSE {}) :
       captured' = [captured EXCEPT ![o] = closed]
  /\ Goto(o, "settle")
  /\ UNCHANGED <<todo, lock, phase, attempt, policy, rounds, contained, tracker, tree, sockets,
                 row, probes, canceled>>

\* The terminal status the policy and the contained facts leave.
Terminal(o) ==
  IF ~contained[o] THEN "escaped"
  ELSE CASE policy[o] = "stop" /\ captured[o] ->
              IF o \in canceled THEN "canceled" ELSE IF o \in strayed THEN "failed" ELSE "stopped"
         [] policy[o] \in {"cancel", "canceled"} -> "canceled"
         [] OTHER -> "failed"

\* Mutant: containment alone settles the obligation.
SettleContained(o) ==
  /\ pc[o] = "settle"
  /\ row' = [row EXCEPT ![o] =
       [status  |-> Terminal(o),
        owned   |-> IF contained[o] THEN "settled" ELSE "unresolved",
        capture |-> IF captured[o] THEN "complete" ELSE "incomplete"]]
  /\ Goto(o, "drop")
  /\ UNCHANGED <<todo, lock, phase, attempt, policy, rounds, ending, tracker, tree, sockets,
                 probes, canceled>>

\* The row keeps its obligation unless containment and capture settled.
Settle(o) ==
  /\ pc[o] = "settle"
  /\ \/ row' = [row EXCEPT ![o] =
          [status  |-> Terminal(o),
           owned   |-> IF contained[o] /\ captured[o] THEN "settled" ELSE "unresolved",
           capture |-> IF captured[o] THEN "complete" ELSE "incomplete"]]
     \/ o \in Faulty /\ UNCHANGED row
  /\ Goto(o, "drop")
  /\ UNCHANGED <<todo, lock, phase, attempt, policy, rounds, ending, tracker, tree, sockets,
                 probes, canceled>>

\* The owned service is dropped, with one more try at a live leader, and then
\* the locks that are left.
Drop(o) ==
  /\ pc[o] = "drop"
  /\ IF LeaderLives(o) THEN Kill(o) \/ Survives(o)
                       ELSE UNCHANGED <<tracker, leader, helper, holder>>
  /\ lock' = Freed(o)
  /\ Goto(o, "ended")
  /\ UNCHANGED <<todo, phase, attempt, policy, rounds, ending, socket, row, probes,
                 canceled>>

\* The owner dies; the kernel frees its locks and a gate without permission ends.
Crash(o) ==
  /\ pc[o] \notin EndPCs
  /\ Goto(o, "crashed")
  /\ lock' = Freed(o)
  /\ LeaveLoops(o) /\ Forget(o)
  /\ UNCHANGED <<phase, policy, ending, tracker, tree, sockets, row, probes, canceled>>

OwnerStep(o) ==
  \/ Prelaunch(o) \/ SpawnGate(o) \/ Register(o) \/ RegisterFails(o)
  \/ Release(o) \/ Launched(o) \/ LaunchFails(o) \/ Grace(o)
  \/ CheckStep(o) \/ ProbeStep(o) \/ WriteCheck(o) \/ Unguard(o)
  \/ Stop(o) \/ Contain(o) \/ Capture(o) \/ Settle(o) \/ Drop(o)

-----------------------------------------------------------------------------
(* The service, its probes, and everything else on the host.               *)

\* The gate executes the workload or dies, a workload and its helper end.
Exec(o) ==
  /\ leader[o] = "released"
  /\ leader' = [leader EXCEPT ![o] = "live"]
  /\ UNCHANGED <<helper, sockets, probe>>

Exit(o, w) ==
  /\ w = "leader" => LeaderLives(o)
  /\ w = "helper" => HelperLives(o)
  /\ IF w = "leader" THEN leader' = [leader EXCEPT ![o] = "dead"] /\ UNCHANGED helper
                     ELSE helper' = [helper EXCEPT ![o] = "dead"] /\ UNCHANGED leader
  /\ holder' = HolderAfter(o, {w})
  /\ UNCHANGED <<socket, probe>>

\* The leader forks; the helper leaves the group, and may close its output.
Fork(o) ==
  /\ o \in Forking /\ leader[o] = "live" /\ helper[o] = "none"
  /\ helper' = [helper EXCEPT ![o] = "in"]
  /\ UNCHANGED <<leader, sockets, probe>>

Leave(o) ==
  /\ helper[o] = "in"
  /\ \E how \in {"out", "mute"} : helper' = [helper EXCEPT ![o] = how]
  /\ UNCHANGED <<leader, sockets, probe>>

Listen(p, who) ==
  /\ holder[p] = Free /\ socket[p] < MaxSockets[p]
  /\ holder' = [holder EXCEPT ![p] = who]
  /\ socket' = [socket EXCEPT ![p] = @ + 1]
  /\ UNCHANGED <<tree, probe>>

ServiceListens(o, p) ==
  \/ <<p, "leader">> \in Serves[o] /\ leader[o] = "live" /\ Listen(p, <<o, "leader">>)
  \/ <<p, "helper">> \in Serves[o] /\ HelperLives(o) /\ Listen(p, <<o, "helper">>)

Unlisten(p) ==
  /\ holder[p] # Free
  /\ holder' = [holder EXCEPT ![p] = Free]
  /\ UNCHANGED <<tree, socket, probe>>

ProbeExits(o) ==
  /\ probe[o] = "running"
  /\ \E how \in {"passed", "failed"} : probe' = [probe EXCEPT ![o] = how]
  /\ UNCHANGED <<tree, sockets>>

HostStep ==
  /\ \/ \E o \in Followed : \/ Exec(o) \/ Fork(o) \/ Leave(o) \/ ProbeExits(o)
                          \/ \E w \in {"leader", "helper"} : Exit(o, w)
     \/ \E o \in Observable : \E p \in Endpoints(o) : ServiceListens(o, p)
     \/ \E o \in Observable : \E p \in Endpoints(o) : Unlisten(p) \/ Listen(p, Other)
  /\ UNCHANGED <<driver, rounds, ending, tracker, row, key, result, probeRow, canceled>>

Cancel(o) ==
  /\ pc[o] \notin EndPCs
  /\ canceled' = canceled \cup {o}
  /\ UNCHANGED <<driver, rounds, ending, tracker, tree, sockets, row, probes>>

\* The endpoint is listened on as its initial witness says.
Held(o, p) ==
  /\ holder[p] = <<o, witness[o][p].by>>
  /\ socket[p] = witness[o][p].socket
  /\ Group(o, witness[o][p].by) = witness[o][p].group

\* Between the two observations of a round.
Probing(o) == pc[o] \in ProbePCs \/ (pc[o] = "list" /\ Again(o))

Steady ==
  steady' = [o \in Owners |->
    IF Probing(o)'
    THEN {p \in (IF Probing(o) THEN steady[o] ELSE Endpoints(o)) : Held(o, p)'}
    ELSE IF Again(o)' THEN steady[o] ELSE {}]

Next ==
  /\ \/ \E o \in Owners : OwnerStep(o) \/ PrepareEnds(o) \/ Choose(o) \/ Crash(o) \/ Cancel(o)
     \/ HostStep
  /\ Steady

Spec == Init /\ [][Next]_vars

\* Owners keep running, and their waits have a deadline: for the channel of a
\* gate, a probe, a containment, the capture of what is left.  Not so that of a
\* preparation without a timeout, which is no step of the owner; and nothing makes
\* a session end.  The writes of the capture, to files, are taken to return.
FairSpec ==
  Spec /\ \A o \in Owners : WF_runtimeVars(pc[o] \notin EndPCs /\ OwnerStep(o))

-----------------------------------------------------------------------------
(* What must hold.                                                         *)

\* A round goes on to its commit only when every endpoint was listened on by
\* the process, in the group and by the socket of its initial witness in every
\* state from the end of the first observation to the start of the second, in
\* which the probes ran, and every probe of this very round succeeded.  The two
\* observations look at one process and one socket after the other: while they
\* last, and after them, nothing is promised (CheckingRound, observe_with).
RoundIsFresh ==
  [][\A o \in Owners :
       pc[o] # "commit" /\ pc'[o] = "commit" =>
         /\ steady[o] = Endpoints(o)
         /\ \A k \in Probed(o) :
              Credited(probeRow[o][k]) /\ probeRow[o][k].attempt = attempt[o]
         /\ probe[o] = "none"]_vars

\* A tree that may run its workload is owed by an unresolved row, unless what
\* is left of it left the group, was never observed, and closed its output.
TreeIsOwed ==
  \A o \in Owners :
    row[o].owned # "unresolved" =>
      /\ leader[o] \in {"none", "gate", "dead"}
      /\ HelperLives(o) => helper[o] = "mute" /\ o \notin known

\* A launched service that is not ready has its addresses guarded: its owner
\* keeps every startup lock until the ready commit, or until the failed start
\* is torn down as far as it can be.
StartIsGuarded ==
  \A o \in Owners :
    (row[o].status = "running" \/ LeaderLives(o)) /\ pc[o] \notin EndPCs
      /\ row[o].status # "ready" /\ phase[o] = "ready" =>
        \A p \in Endpoints(o) : lock[p] = o

\* A settled probe is gone, and its terminal status is the exit that was
\* observed before anything was signaled; only a process whose observation
\* could not be committed settles without one.
VerdictIsObserved ==
  \A o \in Owners : \A k \in Probed(o) :
    probeRow[o][k].owned = "settled" =>
      /\ probeRow[o][k].outcome \in {"none", probeRow[o][k].status}
      /\ k = key[o] => probe[o] = "none"

\* A start comes to its end, whatever its probes do: the service is ready and
\* healthy, or its teardown is over.  Only a preparation without a timeout may go
\* on for ever, until it is canceled.
StartDecides ==
  \A o \in Owners :
    (\/ o \in canceled \cup Timed \/ o \notin Prepared
     \/ pc[o] \notin {"lock", "bind", "intent", "prepare"})
      ~> (pc[o] \in {"up"} \cup EndPCs)

=============================================================================
