-------------------------- MODULE SessionObservation --------------------------
(***************************************************************************)
(* A session and a process that awaits one of its root tasks               *)
(* (control/observation.rs, registry/observation.rs).  The session starts  *)
(* its services, runs its root leaves and is finalized by its owner, or    *)
(* recovered by the next one (main.rs, service/task.rs, control.rs).  The  *)
(* observer only reads: snapshots of the registry, and the process table,  *)
(* one leader at a time.                                                   *)
(*                                                                         *)
(* Abstractions.                                                           *)
(*  - A snapshot is atomic, as SQLite makes it; a busy registry is a read  *)
(*    that comes later.  The request, the owner identity, the manifest and *)
(*    the endpoints of a run never change and are left out, an exit code   *)
(*    is part of its outcome, preparation and probe rows are not read.     *)
(*  - What the observer does not tell apart has one name: "ended" is every *)
(*    terminal status of a service, "failed" every one of a task but       *)
(*    success, "incomplete" a capture that is incomplete or unknown.       *)
(*  - The owner's failures (a cancellation, a checkpoint, a spawn, a       *)
(*    summary, a registry error) may come at any step that can fail.  How  *)
(*    one service starts is in ServiceStart, how a session holds its slot  *)
(*    and recovers the last one in SlotSession.                            *)
(***************************************************************************)
EXTENDS Naturals, Sequences, FiniteSetsExt

CONSTANTS
  ServiceCount, \* the services of the plan
  LeafCount,    \* its root leaves
  Step          \* the observed leaf

\* Services are numbered in the order of the plan, which is also that of their ids here.
Services == 1..ServiceCount
Leaves   == 1..LeafCount

ASSUME ObservationAssumption ==
  ServiceCount \in Nat /\ LeafCount \in Nat \ {0} /\ Step \in Leaves

VARIABLES
  pc,        \* the step the session's owner is about to take
  at,        \* the service or leaf it is at
  progress,  \* the run row: unpublished, executing, finalizing, finalized
  successor, \* a later run was published
  service,   \* service[i]: status and ownership of its row
  root,      \* root[l]: the leaf's row
  owner,     \* what the recorded pid of the owner is now
  leader,    \* leader[i]: what the recorded pid of the service is now
  phase,     \* the step the observer is about to take
  candidate, \* the snapshot of its round
  sampled,   \* the leaders it has sampled in this round
  verdict,   \* its answer
  confirmed, \* history: services the round saw live once the task was successful
  overdue    \* history: the question was decided when the round took its snapshot

rows     == <<progress, successor, service, root>>
session  == <<pc, at, rows, owner, leader>>
observer == <<phase, candidate, sampled, verdict, confirmed, overdue>>
vars     == <<session, observer>>

Active   == {"running", "ready"}
Outcomes == {"succeeded", "failed"}
Leaders  == {"live", "gone", "reused"}

\* Why an await ends without a success; the first that holds is reported.
ReasonOrder == <<"ownerReplaced", "ownerGone", "executionSettled", "taskFailed",
                 "evidenceIncomplete", "serviceSettled", "serviceGone",
                 "serviceIdentityMismatch">>
Reasons == {ReasonOrder[n] : n \in DOMAIN ReasonOrder}

ServiceRows == [status : Active \cup {"none", "ended"}, owned : {"unresolved", "settled"}]
TaskRows    == [status : Outcomes \cup {"none", "running"},
                owned : {"unresolved", "settled"},
                capture : {"pending", "complete", "incomplete"},
                outcome : Outcomes \cup {"none"}]

NoService   == [status |-> "none", owned |-> "unresolved"]
NoTask      == [status |-> "none", owned |-> "unresolved", capture |-> "pending",
                outcome |-> "none"]
Snapshot    == [progress |-> progress, successor |-> successor,
                service |-> service, task |-> root[Step]]
NoCandidate == [progress |-> "unpublished", successor |-> FALSE,
                service |-> [i \in Services |-> NoService],
                task |-> NoTask]
NoSample    == [owner |-> "none", service |-> [i \in Services |-> "none"]]

TypeOK ==
  /\ pc \in {"publish", "start", "ready", "health", "leaf", "observe", "finish",
             "check", "outcome", "stop", "finalize", "exit", "over"}
  /\ at \in Services \cup Leaves \cup {1}
  /\ progress \in {"unpublished", "executing", "finalizing", "finalized"}
  /\ successor \in BOOLEAN
  /\ service \in [Services -> ServiceRows]
  /\ root \in [Leaves -> TaskRows]
  /\ owner \in Leaders
  /\ leader \in [Services -> Leaders \cup {"none"}]
  /\ phase \in {"select", "read", "owner", "service", "decide", "fresh", "resample", "done"}
  /\ candidate.service \in [Services -> ServiceRows] /\ candidate.task \in TaskRows
  /\ sampled \in [owner : Leaders \cup {"none"}, service : [Services -> Leaders \cup {"none"}]]
  /\ verdict \in Reasons \cup {"none", "absent", "elsewhere", "satisfied", "corrupt", "expired"}
  /\ confirmed \subseteq Services /\ overdue \in BOOLEAN

Init ==
  /\ pc = "publish" /\ at = 1
  /\ progress = "unpublished" /\ successor = FALSE
  /\ service = [i \in Services |-> NoService]
  /\ root = [l \in Leaves |-> NoTask]
  /\ owner = "live" /\ leader = [i \in Services |-> "none"]
  /\ phase = "select" /\ candidate = NoCandidate /\ sampled = NoSample
  /\ verdict = "none" /\ confirmed = {} /\ overdue = FALSE

(***************************************************************************)
(* The owner.                                                              *)
(***************************************************************************)

Owner(from) == owner = "live" /\ pc = from /\ UNCHANGED <<owner, successor, observer>>

\* The session ends with the outcome it has so far.
GiveUp == pc' = "outcome" /\ at' = 1

Publish ==
  /\ Owner("publish")
  /\ progress' = "executing"
  /\ pc' = IF Services = {} THEN "leaf" ELSE "start"
  /\ UNCHANGED <<at, service, root, leader>>

\* Nothing of this service or leaf is recorded.
Refuse ==
  /\ \E from \in {"start", "leaf"} : Owner(from)
  /\ GiveUp
  /\ UNCHANGED <<progress, service, root, leader>>

\* The gated leader is alive when its row is committed.
StartService ==
  /\ Owner("start")
  /\ service' = [service EXCEPT ![at].status = "running"]
  /\ leader' = [leader EXCEPT ![at] = "live"]
  /\ pc' = "ready"
  /\ UNCHANGED <<at, progress, root>>

\* The evidence of the round may be older than its commit.
BecomeReady ==
  /\ Owner("ready")
  /\ service' = [service EXCEPT ![at].status = "ready"]
  /\ pc' = "health"
  /\ UNCHANGED <<at, progress, root, leader>>

BecomeHealthy ==
  /\ Owner("health")
  /\ IF at + 1 \in Services THEN pc' = "start" /\ at' = at + 1 ELSE pc' = "leaf" /\ at' = 1
  /\ UNCHANGED <<progress, service, root, leader>>

\* What a teardown leaves: a settled row, a contained service with capture writers,
\* an escape, or the row as it was.
Settle(i) ==
  \/ /\ \E owned \in {"settled", "unresolved"} :
          service' = [service EXCEPT ![i] = [status |-> "ended", owned |-> owned]]
     /\ leader' = [leader EXCEPT ![i] = IF @ = "reused" THEN @ ELSE "gone"]
  \/ /\ service' = [service EXCEPT ![i].status = "ended"]
     /\ UNCHANGED leader
  \/ UNCHANGED <<service, leader>>

FailStart ==
  /\ \E from \in {"ready", "health"} : Owner(from)
  /\ Settle(at)
  /\ GiveUp
  /\ UNCHANGED <<progress, root>>

RegisterTask ==
  /\ Owner("leaf")
  /\ root' = [root EXCEPT ![at].status = "running"]
  /\ pc' = "observe"
  /\ UNCHANGED <<at, progress, service, leader>>

ObserveTask ==
  /\ Owner("observe")
  /\ \E outcome \in Outcomes : root' = [root EXCEPT ![at].outcome = outcome]
  /\ pc' = "finish"
  /\ UNCHANGED <<at, progress, service, leader>>

\* A failure before the terminal: of a checkpoint, of the recording of the outcome,
\* of the containment or the capture.  A contained task with a complete capture is
\* finished as it was observed; any other keeps its obligation.
InterruptTask ==
  /\ \E from \in {"observe", "finish"} : Owner(from)
  /\ \/ \E status \in IF root[at].outcome = "none" THEN Outcomes ELSE {root[at].outcome} :
          root' = [root EXCEPT ![at].status = status, ![at].owned = "settled",
                               ![at].capture = "complete"]
     \/ \E capture \in {"pending", "complete", "incomplete"} :
          root' = [root EXCEPT ![at].capture = capture]
  /\ GiveUp
  /\ UNCHANGED <<progress, service, leader>>

FinishTask ==
  /\ Owner("finish")
  /\ root' = [root EXCEPT ![at].status = root[at].outcome, ![at].owned = "settled",
                          ![at].capture = "complete"]
  /\ IF root[at].outcome = "succeeded" THEN pc' = "check" /\ UNCHANGED at ELSE GiveUp
  /\ UNCHANGED <<progress, service, leader>>

\* The summary is written before the terminal; without it the row stays as it was.
LoseSummary ==
  /\ Owner("finish")
  /\ GiveUp
  /\ UNCHANGED <<progress, service, root, leader>>

\* A service that exited fails the node of a task that succeeded.
CheckServices ==
  /\ Owner("check")
  /\ \/ /\ \E i \in Services : leader[i] # "live"
        /\ GiveUp
     \/ IF at + 1 \in Leaves THEN pc' = "leaf" /\ at' = at + 1 ELSE GiveUp
  /\ UNCHANGED <<progress, service, root, leader>>

RecordOutcome ==
  /\ Owner("outcome")
  /\ progress' \in {"executing", "finalizing"}
  /\ pc' = "stop"
  /\ UNCHANGED <<at, service, root, leader>>

Started == {i \in Services : service[i].status \in Active}
Settled == /\ \A i \in Services : service[i].status # "none" => service[i].owned = "settled"
           /\ \A l \in Leaves : root[l].status # "none" => root[l].owned = "settled"

\* Exited services first, then the last started one; the order is that of SlotSession.
StopService ==
  /\ Owner("stop")
  /\ \E i \in Started : Settle(i)
  /\ pc' = "stop"
  /\ UNCHANGED <<at, progress, root>>

\* A service whose settlement failed keeps its row.
StopDone ==
  /\ Owner("stop")
  /\ pc' = "finalize"
  /\ UNCHANGED <<at, progress, service, root, leader>>

Finalize ==
  /\ Owner("finalize")
  /\ progress' \in IF Settled /\ progress = "finalizing" THEN {progress, "finalized"}
                                                        ELSE {progress}
  /\ pc' = "exit"
  /\ UNCHANGED <<at, service, root, leader>>

\* It exits, or dies at any other step.
Leave ==
  /\ owner = "live"
  /\ owner' = "gone" /\ pc' = "over" /\ at' = 1
  /\ UNCHANGED <<rows, leader, observer>>

(***************************************************************************)
(* The host and the next owner.                                            *)
(***************************************************************************)

Die(i) ==
  /\ leader[i] = "live"
  /\ leader' = [leader EXCEPT ![i] = "gone"]
  /\ UNCHANGED <<pc, at, rows, owner, observer>>

\* The pid of a process that is gone names another one.
Reuse ==
  /\ \/ owner = "gone" /\ owner' = "reused" /\ UNCHANGED leader
     \/ \E i \in Services : /\ leader[i] = "gone"
                            /\ leader' = [leader EXCEPT ![i] = "reused"]
                            /\ UNCHANGED owner
  /\ UNCHANGED <<pc, at, rows, observer>>

\* The next owner of the slot; it takes its steps once the owner is gone.
Recovering == owner # "live" /\ progress # "unpublished" /\ ~successor
              /\ UNCHANGED <<pc, at, owner, observer>>

RecoverOutcome ==
  /\ Recovering /\ progress = "executing"
  /\ progress' = "finalizing"
  /\ UNCHANGED <<successor, service, root, leader>>

RecoverService(i) ==
  /\ Recovering /\ progress = "finalizing"
  /\ service[i].status # "none" /\ service[i].owned = "unresolved"
  /\ service' = [service EXCEPT ![i] = [status |-> "ended", owned |-> "settled"]]
  /\ leader' = [leader EXCEPT ![i] = IF @ = "live" THEN "gone" ELSE @]
  /\ UNCHANGED <<progress, successor, root>>

\* Recovery never invents a success, nor a capture.
RecoverTask(l) ==
  /\ Recovering /\ progress = "finalizing"
  /\ root[l].status # "none" /\ root[l].owned = "unresolved"
  /\ root' = [root EXCEPT ![l].owned = "settled",
                         ![l].status = IF @ = "running" THEN "failed" ELSE @]
  /\ UNCHANGED <<progress, successor, service, leader>>

RecoverComplete ==
  /\ Recovering /\ progress = "finalizing" /\ Settled
  /\ progress' = "finalized"
  /\ UNCHANGED <<successor, service, root, leader>>

PublishSuccessor ==
  /\ Recovering /\ progress = "finalized"
  /\ successor' = TRUE
  /\ UNCHANGED <<progress, service, root, leader>>

(***************************************************************************)
(* What the observer makes of a snapshot and of the leaders it sampled.    *)
(***************************************************************************)

Recorded(c) == {i \in Services : c.service[i].status # "none"}

\* Evidence that no run of the program records, or that leaves its plan.
Contradictory ==
  \/ \E i \in Services : service[i].owned = "settled" /\ service[i].status \in Active
  \/ \E l \in Leaves :
       LET task == root[l] IN
       \/ task.owned = "settled" /\ task.status = "running"
       \/ task.status = "succeeded" /\ task.capture = "pending"
       \/ task.status = "succeeded" /\ task.outcome \notin {"none", "succeeded"}
       \/ task.status # "none" /\ Recorded(Snapshot) # Services

SuccessfulTask(task) ==
  task = [status |-> "succeeded", owned |-> "settled", capture |-> "complete",
          outcome |-> "succeeded"]

\* Why a task of this candidate will not be observed to succeed, the first of these.
FailedTask(task) ==
  \/ task.outcome \notin {"none", "succeeded"}
  \/ task.status \notin {"none", "running", "succeeded"}

\* A bug: a task that was observed and is not settled counts as incomplete.
IncompleteTaskEarly(task) ==
  \/ task.capture = "incomplete"
  \/ task.owned = "unresolved" /\ task.outcome # "none"
  \/ task.status = "succeeded" /\ ~SuccessfulTask(task)

IncompleteTask(task) ==
  \/ task.capture = "incomplete"
  \/ task.owned = "unresolved" /\ task.capture # "pending"
  \/ task.status = "succeeded" /\ ~SuccessfulTask(task)

Unavailable(c, leaders) ==
  LET lost == {i \in Recorded(c) : leaders.service[i] # "live"}
      facts == [
        ownerReplaced           |-> c.successor \/ leaders.owner = "reused",
        ownerGone               |-> leaders.owner = "gone",
        executionSettled        |-> c.progress # "executing",
        taskFailed              |-> FailedTask(c.task),
        evidenceIncomplete      |-> IncompleteTask(c.task),
        serviceSettled          |-> \E i \in Recorded(c) : c.service[i].status \notin Active,
        serviceGone             |-> lost # {} /\ leaders.service[Min(lost)] = "gone",
        serviceIdentityMismatch |-> lost # {} /\ leaders.service[Min(lost)] = "reused"]
      held == {n \in DOMAIN ReasonOrder : facts[ReasonOrder[n]]}
  IN IF held = {} THEN "none" ELSE ReasonOrder[Min(held)]

Ready(c) ==
  /\ SuccessfulTask(c.task)
  /\ \A i \in Services : c.service[i].status = "ready"

\* What an await asks has an answer.
Decided ==
  \/ owner # "live" \/ successor \/ progress \in {"finalizing", "finalized"}
  \/ root[Step].status \notin {"none", "running"} \/ root[Step].capture # "pending"
  \/ \E i \in Services : leader[i] \in {"gone", "reused"}

(***************************************************************************)
(* The observer.                                                           *)
(***************************************************************************)

Reading(from) == phase = from /\ UNCHANGED session

Answer(answer) ==
  /\ verdict' = answer /\ phase' = "done"
  /\ candidate' = NoCandidate /\ sampled' = NoSample /\ confirmed' = {} /\ overdue' = FALSE

\* By its run id, or the run that is unfinished now.
Select ==
  /\ Reading("select")
  /\ \/ IF progress = "unpublished"
          THEN Answer("absent")
          ELSE phase' = "read" /\ UNCHANGED <<candidate, sampled, verdict, confirmed, overdue>>
     \/ IF successor
          THEN Answer("elsewhere")
          ELSE IF progress \in {"unpublished", "finalized"}
          THEN Answer("absent")
          ELSE phase' = "read" /\ UNCHANGED <<candidate, sampled, verdict, confirmed, overdue>>

Read ==
  /\ Reading("read")
  /\ IF Contradictory
       THEN Answer("corrupt")
       ELSE /\ candidate' = Snapshot /\ phase' = "owner"
            /\ overdue' = Decided
            /\ UNCHANGED <<sampled, verdict, confirmed>>

\* A bug: a zombie is present.
SampleOwnerZombie ==
  /\ Reading("owner")
  /\ sampled' = [sampled EXCEPT !.owner = IF owner = "gone" THEN "live" ELSE owner]
  /\ phase' = IF Recorded(candidate) = {} THEN "decide" ELSE "service"
  /\ UNCHANGED <<candidate, verdict, confirmed, overdue>>

SampleOwner ==
  /\ Reading("owner")
  /\ sampled' = [sampled EXCEPT !.owner = owner]
  /\ phase' = IF Recorded(candidate) = {} THEN "decide" ELSE "service"
  /\ UNCHANGED <<candidate, verdict, confirmed, overdue>>

SampleService ==
  /\ Reading("service")
  /\ LET unsampled == {i \in Recorded(candidate) : sampled.service[i] = "none"}
         i == Min(unsampled)
     IN /\ sampled' = [sampled EXCEPT !.service[i] = leader[i]]
        /\ phase' = IF unsampled = {i} THEN "decide" ELSE "service"
        /\ confirmed' = IF leader[i] = "live" /\ SuccessfulTask(root[Step])
                          THEN confirmed \cup {i} ELSE confirmed
  /\ UNCHANGED <<candidate, verdict, overdue>>

\* An answer, a second look, or the next round.
Decide ==
  /\ Reading("decide")
  /\ LET reason == Unavailable(candidate, sampled) IN
     IF reason # "none" THEN Answer(reason)
     ELSE IF Ready(candidate)
     THEN phase' = "fresh" /\ UNCHANGED <<candidate, sampled, verdict, confirmed, overdue>>
     ELSE /\ phase' = "read" /\ candidate' = NoCandidate
          /\ sampled' = NoSample /\ confirmed' = {} /\ overdue' = FALSE
          /\ UNCHANGED verdict

\* A bug: a service that stopped since is taken for one that was never ready.
ConfirmStrictly ==
  /\ Reading("fresh")
  /\ LET reason == Unavailable(Snapshot, sampled) IN
     IF \E i \in Services : service[i].status # "ready" THEN Answer("corrupt")
     ELSE IF reason # "none" THEN Answer(reason)
     ELSE phase' = "resample" /\ UNCHANGED <<candidate, sampled, verdict, confirmed, overdue>>

\* The same task and services, still ready, in a snapshot that is later than the samples.
Confirm ==
  /\ Reading("fresh")
  /\ LET reason == Unavailable(Snapshot, sampled) IN
     IF \/ Contradictory
        \/ Recorded(Snapshot) # Recorded(candidate)
        \/ root[Step] # candidate.task
       THEN Answer("corrupt")
     ELSE IF reason # "none" THEN Answer(reason)
     ELSE IF \E i \in Services : service[i].status # "ready" THEN Answer("corrupt")
     ELSE phase' = "resample" /\ UNCHANGED <<candidate, sampled, verdict, confirmed, overdue>>

\* A bug: the owner's sample of the round is enough.
ResampleNot == Reading("resample") /\ Answer("satisfied")

\* The owner once more: one that lives still holds the slot, and the run is its own.
Resample ==
  /\ Reading("resample")
  /\ Answer(CASE owner = "live" -> "satisfied"
              [] owner = "gone" -> "ownerGone"
              [] owner = "reused" -> "ownerReplaced")

\* A deadline or a cancellation.
Expire ==
  /\ \E from \in {"select", "read", "fresh", "resample"} : Reading(from)
  /\ Answer("expired")

Observe == Select \/ Read \/ SampleOwner \/ SampleService \/ Decide \/ Confirm \/ Resample

Drive ==
  \/ Publish \/ Refuse \/ StartService \/ BecomeReady \/ BecomeHealthy \/ FailStart
  \/ RegisterTask \/ ObserveTask \/ InterruptTask \/ FinishTask \/ LoseSummary
  \/ CheckServices \/ RecordOutcome \/ StopService \/ StopDone \/ Finalize \/ Leave

Recover ==
  \/ RecoverOutcome \/ RecoverComplete \/ PublishSuccessor
  \/ \E i \in Services : RecoverService(i)
  \/ \E l \in Leaves : RecoverTask(l)

Next == Observe \/ Expire \/ Drive \/ Recover \/ Reuse \/ \E i \in Services : Die(i)

Spec == Init /\ [][Next]_vars

(***************************************************************************)
(* Properties.                                                             *)
(***************************************************************************)

\* A satisfied await tells the truth of the moment it returns: the owner lives and its run
\* is still the last one, the task's success is recorded in full, and every service of the
\* plan was seen alive after that success (await_root_with_poll).
SatisfiedIsTrue ==
  [][verdict' = "satisfied" /\ verdict # "satisfied" =>
       /\ owner = "live" /\ ~successor
       /\ SuccessfulTask(root[Step])
       /\ confirmed = Services]_vars

\* A refusal names a fact, and one that no later step of the owner, of the recovery or of
\* the host takes back: in particular a task that was called failed or incomplete never
\* becomes a success (unavailable).
RefusalStands ==
  /\ verdict = "ownerReplaced" => successor \/ owner = "reused"
  /\ verdict = "ownerGone" => owner # "live"
  /\ verdict = "executionSettled" => progress \in {"finalizing", "finalized"}
  /\ verdict \in {"taskFailed", "evidenceIncomplete"} =>
       root[Step] # NoTask /\ ~SuccessfulTask(root[Step])
  /\ verdict = "serviceSettled" =>
       \E i \in Services : service[i].status \notin Active \cup {"none"}
  /\ verdict = "serviceGone" => \E i \in Services : leader[i] \in {"gone", "reused"}
  /\ verdict = "serviceIdentityMismatch" => \E i \in Services : leader[i] = "reused"

\* Nothing that the owner, a crash or a recovery records is taken for corruption, in one
\* snapshot or between the two of a confirmation (RawProcess::decode, validate_plan).
HonestIsNotCorrupt == verdict # "corrupt"

\* An await does not outlive its question: the first round whose snapshot is taken once the
\* owner is gone, the run settles, the task has ended or a service is lost ends in an answer
\* and never in another round, whatever happens while it is under way (await_root_with_poll).
DecidedRoundAnswers ==
  [][phase = "decide" /\ phase' = "read" => ~overdue]_vars

=============================================================================
