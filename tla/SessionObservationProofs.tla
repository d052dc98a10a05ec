--------------------- MODULE SessionObservationProofs ---------------------
(***************************************************************************)
(* What an await answers, for any number of services and leaves and any    *)
(* observed leaf.                                                          *)
(*                                                                         *)
(* The argument has two layers.                                            *)
(*  - SessionInv: the rows that the owner, its recovery and the host leave *)
(*    at every step.  Its steps also take nothing back (Progressed): a     *)
(*    task that is doomed stays doomed, a success stays as it is, and what *)
(*    ended, settled or was lost stays so.                                 *)
(*  - RoundInv: what the candidate and the samples of a round still say of *)
(*    the session, although it went on meanwhile.  A step of the session   *)
(*    keeps it because it takes nothing back, a step of the observer       *)
(*    because the session stands still.                                    *)
(* The invariant of both, ObservationInv, implies RefusalStands and        *)
(* HonestIsNotCorrupt, and every step under it satisfies SatisfiedIsTrue   *)
(* and DecidedRoundAnswers.                                                *)
(***************************************************************************)
EXTENDS SessionObservation, NaturalsInduction, WellFoundedInduction, TLAPS

-----------------------------------------------------------------------------
(* The session, its recovery and its host.                                 *)

\* The types of the session, those of the observer follow below.
SessionType ==
  /\ pc \in {"publish", "start", "ready", "health", "leaf", "observe", "finish",
             "check", "outcome", "stop", "finalize", "exit", "over"}
  /\ at \in Services \cup Leaves \cup {1}
  /\ progress \in {"unpublished", "executing", "finalizing", "finalized"}
  /\ successor \in BOOLEAN
  /\ service \in [Services -> ServiceRows]
  /\ root \in [Leaves -> TaskRows]
  /\ owner \in Leaders
  /\ leader \in [Services -> Leaders \cup {"none"}]

\* The rows of services and tasks, at whatever step their owner died.
RowsInv ==
  /\ \A i \in Services :
       /\ service[i].status = "none" => service[i] = NoService
       /\ service[i].owned = "settled" => service[i].status = "ended"
       /\ leader[i] = "none" <=> service[i].status = "none"
  /\ \A l \in Leaves :
       /\ root[l].status = "none" => root[l] = NoTask
       /\ root[l].owned = "settled" <=> root[l].status \in Outcomes
       /\ root[l].status = "succeeded" =>
            root[l].capture = "complete" /\ root[l].outcome \in {"none", "succeeded"}
       /\ root[l].status # "none" => \A i \in Services : service[i].status \in {"ready", "ended"}

\* How far the run is while its owner lives, and after.
OwnerInv ==
  /\ owner # "live" <=> pc = "over"
  /\ successor => owner # "live"
  /\ progress = "unpublished" => pc \in {"publish", "over"}
  /\ pc = "publish" => progress = "unpublished" /\ at = 1
  /\ pc \in {"start", "ready", "health", "leaf", "observe", "finish", "check", "outcome"} =>
       progress = "executing"

\* The owner takes services and leaves in the order of the plan.
PlaceInv ==
  /\ pc \in {"publish", "start", "ready", "health"} => \A l \in Leaves : root[l] = NoTask
  /\ pc = "publish" => \A i \in Services : service[i] = NoService
  /\ pc \in {"start", "ready", "health"} =>
       /\ at \in Services
       /\ \A i \in Services : i < at => service[i].status = "ready"
       /\ \A i \in Services : i > at => service[i] = NoService
  /\ pc = "start" => service[at] = NoService
  /\ pc = "ready" => service[at].status = "running"
  /\ pc = "health" => service[at].status = "ready"
  /\ pc \in {"leaf", "observe", "finish", "check"} =>
       /\ at \in Leaves
       /\ \A i \in Services : service[i].status = "ready"
       /\ \A l \in Leaves : l > at => root[l] = NoTask
  /\ pc = "leaf" => root[at] = NoTask
  /\ pc = "observe" => root[at] = [NoTask EXCEPT !.status = "running"]
  /\ pc = "finish" =>
       /\ root[at].status = "running" /\ root[at].owned = "unresolved"
       /\ root[at].capture = "pending" /\ root[at].outcome \in Outcomes

\* The invariant of the session.
SessionInv == SessionType /\ RowsInv /\ OwnerInv /\ PlaceInv

\* What the session, the recovery and the host do.
SessionStep == Drive \/ Recover \/ Reuse \/ \E i \in Services : Die(i)

-----------------------------------------------------------------------------
(* The observer.                                                           *)

\* A task that will not be observed to succeed.
Doomed(task) == FailedTask(task) \/ IncompleteTask(task)

\* What is final of a process and of a run, and the steps of a round.
Lost     == {"gone", "reused"}
Settling == {"finalizing", "finalized"}
Rounds   == {"owner", "service", "decide", "fresh", "resample"}
Sampled  == {"decide", "fresh", "resample"}

\* The types of the observer.
ObserverType ==
  /\ phase \in Rounds \cup {"select", "read", "done"}
  /\ candidate \in [progress : {"unpublished", "executing", "finalizing", "finalized"},
                    successor : BOOLEAN,
                    service : [Services -> ServiceRows],
                    task : TaskRows]
  /\ sampled \in [owner : Leaders \cup {"none"},
                  service : [Services -> Leaders \cup {"none"}]]
  /\ verdict \in Reasons \cup {"none", "absent", "elsewhere", "satisfied", "corrupt", "expired"}
  /\ confirmed \subseteq Services
  /\ overdue \in BOOLEAN

\* What a round knows at each of its steps.
PhaseInv ==
  /\ phase # "done" => verdict = "none"
  /\ phase \notin {"select", "done"} => progress # "unpublished"
  /\ phase \in {"select", "read", "owner"} => sampled = NoSample
  /\ phase \in {"select", "read"} => ~overdue
  /\ phase = "service" => \E i \in Recorded(candidate) : sampled.service[i] = "none"
  /\ phase \in Sampled => \A i \in Recorded(candidate) : sampled.service[i] # "none"
  /\ phase \in Sampled \cup {"service"} => sampled.owner # "none"
  /\ phase \in {"fresh", "resample"} =>
       /\ Ready(candidate)
       /\ \A i \in Services : sampled.service[i] = "live"

\* A snapshot is consistent, and what it says that cannot change is still so.
CandidateInv == phase \in Rounds =>
  /\ candidate.progress # "unpublished"
  /\ candidate.successor => successor
  /\ candidate.progress \in Settling => progress \in Settling
  /\ candidate.task.owned = "settled" <=> candidate.task.status \in Outcomes
  /\ candidate.task.status # "none" =>
       \A i \in Services : candidate.service[i].status \in {"ready", "ended"}
  /\ Doomed(candidate.task) => Doomed(root[Step])
  /\ SuccessfulTask(candidate.task) => root[Step] = candidate.task
  /\ \A i \in Services :
       /\ candidate.service[i].status # "none" => service[i].status # "none"
       /\ candidate.service[i].status = "ready" => service[i].status \in {"ready", "ended"}
       /\ candidate.service[i].status = "ended" => service[i].status = "ended"

\* A leader that was found lost is lost, and one found live after the task's success counts.
SampleInv ==
  /\ sampled.owner \in Lost => owner \in Lost
  /\ sampled.owner = "reused" => owner = "reused"
  /\ \A i \in Services :
       /\ sampled.service[i] \in Lost => leader[i] \in Lost
       /\ sampled.service[i] = "reused" => leader[i] = "reused"
       /\ SuccessfulTask(candidate.task) /\ sampled.service[i] = "live" => i \in confirmed

\* What an answer claims is a fact of the session.
Justified(answer) ==
  /\ answer # "corrupt"
  /\ answer = "ownerReplaced" => successor \/ owner = "reused"
  /\ answer = "ownerGone" => owner # "live"
  /\ answer = "executionSettled" => progress \in Settling
  /\ answer \in {"taskFailed", "evidenceIncomplete"} => Doomed(root[Step])
  /\ answer = "serviceSettled" => \E i \in Services : service[i].status = "ended"
  /\ answer = "serviceGone" => \E i \in Services : leader[i] \in Lost
  /\ answer = "serviceIdentityMismatch" => \E i \in Services : leader[i] = "reused"

\* The answer that was given, if one was, stays justified.
VerdictInv == Justified(verdict)

\* What decided the question is in the candidate, or still to be sampled, or was sampled.
OverdueInv == overdue =>
  \/ owner # "live" /\ sampled.owner # "live"
  \/ candidate.successor \/ candidate.progress \in Settling
  \/ candidate.task.status \notin {"none", "running"} \/ candidate.task.capture # "pending"
  \/ \E i \in Recorded(candidate) : leader[i] \in Lost /\ sampled.service[i] # "live"

\* The invariant of a round, and of the answer that ended it.
RoundInv == ObserverType /\ PhaseInv /\ CandidateInv /\ SampleInv /\ VerdictInv /\ OverdueInv

\* The inductive invariant of an observation.
ObservationInv == SessionInv /\ RoundInv

\* What the session, its recovery and the host never take back.
TaskProgress(task, next) ==
  /\ Doomed(task) => Doomed(next)
  /\ SuccessfulTask(task) => next = task

\* A step of the session: the observer stands still and every final fact stays.
Progressed ==
  /\ UNCHANGED observer
  /\ successor => successor'
  /\ owner \in Lost => owner' \in Lost
  /\ owner = "reused" => owner' = "reused"
  /\ progress # "unpublished" => progress' # "unpublished"
  /\ progress \in Settling => progress' \in Settling
  /\ \A i \in Services :
       /\ service[i].status # "none" => service'[i].status # "none"
       /\ service[i].status = "ready" => service'[i].status \in {"ready", "ended"}
       /\ service[i].status = "ended" => service'[i].status = "ended"
       /\ leader[i] \in Lost => leader'[i] \in Lost
       /\ leader[i] = "reused" => leader'[i] = "reused"
  /\ \A l \in Leaves : TaskProgress(root[l], root'[l])

\* The tasks of a run go on: what is settled stays, and what is doomed stays doomed.
LEMMA TaskSteps ==
  /\ \A task \in TaskRows : TaskProgress(task, task)
  /\ \A next \in TaskRows : TaskProgress(NoTask, next)
  /\ \A next \in TaskRows : TaskProgress([NoTask EXCEPT !.status = "running"], next)
  BY
     DEF TaskProgress, Doomed, FailedTask, IncompleteTask, SuccessfulTask, NoTask,
         TaskRows,
         Outcomes

\* What a teardown does to the row and the leader of a service.
LEMMA SettleEffect ==
  ASSUME SessionType, NEW i \in Services, Settle(i)
  PROVE  /\ service' \in [Services -> ServiceRows]
         /\ leader' \in [Services -> Leaders \cup {"none"}]
         /\ \/ service'[i] = service[i] /\ leader'[i] = leader[i]
            \/ /\ service'[i].status = "ended"
               /\ leader'[i] # leader[i] => leader[i] # "reused" /\ leader'[i] = "gone"
         /\ \A j \in Services \ {i} : service'[j] = service[j] /\ leader'[j] = leader[j]
<1>1. /\ service \in [Services -> ServiceRows] /\ service[i] \in ServiceRows
      /\ leader \in [Services -> Leaders \cup {"none"}]
  BY DEF SessionType
<1>2. ASSUME NEW owned \in {"settled", "unresolved"},
             service' = [service EXCEPT ![i] = [status |-> "ended", owned |-> owned]],
             leader' = [leader EXCEPT ![i] = IF @ = "reused" THEN @ ELSE "gone"]
      PROVE  /\ service' \in [Services -> ServiceRows]
             /\ service'[i].status = "ended"
             /\ \A j \in Services \ {i} : service'[j] = service[j]
             /\ leader' \in [Services -> Leaders \cup {"none"}]
             /\ leader'[i] # leader[i] => leader[i] # "reused" /\ leader'[i] = "gone"
             /\ \A j \in Services \ {i} : leader'[j] = leader[j]
  <2>1. [status |-> "ended", owned |-> owned] \in ServiceRows
    BY <1>2 DEF ServiceRows
  <2>2. "gone" \in Leaders
    BY DEF Leaders
  <2>3. QED
    BY <1>1, <1>2, <2>1, <2>2
<1>3. ASSUME service' = [service EXCEPT ![i].status = "ended"]
      PROVE  /\ service' \in [Services -> ServiceRows]
             /\ service'[i].status = "ended"
             /\ \A j \in Services \ {i} : service'[j] = service[j]
  <2>1. service' = [service EXCEPT ![i] = [status |-> "ended", owned |-> service[i].owned]]
    <3>1. [service[i] EXCEPT !.status = "ended"]
            = [status |-> "ended", owned |-> service[i].owned]
      BY <1>1 DEF ServiceRows
    <3>2. QED
      BY <1>3, <3>1
  <2>2. [status |-> "ended", owned |-> service[i].owned] \in ServiceRows
    BY <1>1 DEF ServiceRows
  <2>3. QED
    BY <1>1, <2>1, <2>2
<1>4. QED
  BY <1>1, <1>2, <1>3 DEF Settle

\* Every step of the session keeps its invariant and takes nothing back.
LEMMA SessionSteps == SessionInv /\ SessionStep => SessionInv' /\ Progressed
<1> DEFINE Goal == SessionInv' /\ Progressed
<1> SUFFICES ASSUME SessionInv, SessionStep PROVE Goal
  OBVIOUS
<1> USE ObservationAssumption DEF SessionInv
<1>1. CASE Publish
  <2>1. UNCHANGED observer
    BY <1>1 DEF Publish, Owner
  <2>2. /\ owner = "live" /\ pc = "publish"
        /\ progress' = "executing" /\ at' = at
        /\ \/ pc' = "leaf" /\ Services = {}
           \/ pc' = "start" /\ Services # {}
        /\ UNCHANGED <<owner, successor, service, root, leader>>
    BY <1>1 DEF Publish, rows, Owner
  <2>3. SessionType'
    BY <2>2 DEF SessionType, PlaceInv, Leaders, Services, Leaves
  <2>4. RowsInv'
    BY <2>2, <2>3
       DEF RowsInv, PlaceInv, SessionType, ServiceRows, TaskRows, NoService, NoTask,
           Active, Outcomes
  <2>5. OwnerInv'
    BY <2>2 DEF OwnerInv, SessionType, Leaders
  <2>6. PlaceInv'
    BY <2>2, <2>3
       DEF PlaceInv, OwnerInv, RowsInv, SessionType, ServiceRows, TaskRows, NoService,
           NoTask, Active, Outcomes, Services, Leaves
  <2>7. \A l \in Leaves : TaskProgress(root[l], root'[l])
    BY <2>2, TaskSteps DEF SessionType
  <2>8. Progressed
    BY <2>1, <2>2, <2>3, <2>7
       DEF Progressed, RowsInv, PlaceInv, OwnerInv, SessionType, ServiceRows, Active,
           NoService, Lost, Settling, Leaders
  <2>9. QED
    BY <2>3, <2>4, <2>5, <2>6, <2>8
<1>2. CASE Refuse
  <2>1. UNCHANGED observer
    BY <1>2 DEF Refuse, Owner, GiveUp
  <2>2. /\ owner = "live" /\ pc \in {"start", "leaf"}
        /\ pc' = "outcome" /\ at' = 1
        /\ UNCHANGED <<owner, successor, progress, service, root, leader>>
    BY <1>2 DEF Refuse, rows, Owner, GiveUp
  <2>3. SessionType'
    BY <2>2 DEF SessionType, PlaceInv, Leaders, Services, Leaves
  <2>4. RowsInv'
    BY <2>2, <2>3
       DEF RowsInv, PlaceInv, SessionType, ServiceRows, TaskRows, NoService, NoTask,
           Active, Outcomes
  <2>5. OwnerInv'
    BY <2>2 DEF OwnerInv, SessionType, Leaders
  <2>6. PlaceInv'
    BY <2>2, <2>3
       DEF PlaceInv, OwnerInv, RowsInv, SessionType, ServiceRows, TaskRows, NoService,
           NoTask, Active, Outcomes, Services, Leaves
  <2>7. \A l \in Leaves : TaskProgress(root[l], root'[l])
    BY <2>2, TaskSteps DEF SessionType
  <2>8. Progressed
    BY <2>1, <2>2, <2>3, <2>7
       DEF Progressed, RowsInv, PlaceInv, OwnerInv, SessionType, ServiceRows, Active,
           NoService, Lost, Settling, Leaders
  <2>9. QED
    BY <2>3, <2>4, <2>5, <2>6, <2>8
<1>3. CASE StartService
  <2>1. UNCHANGED observer
    BY <1>3 DEF StartService, Owner
  <2>2. /\ owner = "live" /\ pc = "start" /\ pc' = "ready"
        /\ UNCHANGED <<owner, successor, at, progress, root>>
        /\ service' = [service EXCEPT ![at].status = "running"]
        /\ leader' = [leader EXCEPT ![at] = "live"]
    BY <1>3 DEF StartService, rows, Owner
  <2>3. /\ service' \in [Services -> ServiceRows] /\ leader' \in [Services -> Leaders \cup {"none"}]
        /\ service'[at] = [status |-> "running", owned |-> "unresolved"] /\ leader'[at] = "live"
        /\ \A i \in Services \ {at} : service'[i] = service[i] /\ leader'[i] = leader[i]
    BY <2>2
       DEF SessionType, RowsInv, OwnerInv, PlaceInv, ServiceRows, TaskRows, Active,
           Outcomes, Leaders, Services, Leaves, NoTask, NoService
  <2>4. SessionType'
    BY <2>2, <2>3 DEF SessionType, PlaceInv, Leaders, Services, Leaves
  <2>5. RowsInv'
    BY <2>2, <2>3, <2>4
       DEF RowsInv, PlaceInv, SessionType, ServiceRows, TaskRows, NoService, NoTask,
           Active, Outcomes
  <2>6. OwnerInv'
    BY <2>2, <2>3 DEF OwnerInv, SessionType, Leaders
  <2>7. PlaceInv'
    BY <2>2, <2>3, <2>4
       DEF PlaceInv, OwnerInv, RowsInv, SessionType, ServiceRows, TaskRows, NoService,
           NoTask, Active, Outcomes, Services, Leaves
  <2>8. \A l \in Leaves : TaskProgress(root[l], root'[l])
    BY <2>2, TaskSteps DEF SessionType
  <2>9. Progressed
    BY <2>1, <2>2, <2>3, <2>4, <2>8
       DEF Progressed, RowsInv, PlaceInv, OwnerInv, SessionType, ServiceRows, Active,
           NoService, Lost, Settling, Leaders
  <2>10. QED
    BY <2>4, <2>5, <2>6, <2>7, <2>9
<1>4. CASE BecomeReady
  <2>1. UNCHANGED observer
    BY <1>4 DEF BecomeReady, Owner
  <2>2. /\ owner = "live" /\ pc = "ready" /\ pc' = "health"
        /\ UNCHANGED <<owner, successor, at, progress, root, leader>>
        /\ service' = [service EXCEPT ![at].status = "ready"]
    BY <1>4 DEF BecomeReady, rows, Owner
  <2>3. /\ service' \in [Services -> ServiceRows]
        /\ service'[at] = [status |-> "ready", owned |-> service[at].owned]
        /\ \A i \in Services \ {at} : service'[i] = service[i]
    BY <2>2
       DEF SessionType, RowsInv, OwnerInv, PlaceInv, ServiceRows, TaskRows, Active,
           Outcomes, Leaders, Services, Leaves, NoTask, NoService
  <2>4. SessionType'
    BY <2>2, <2>3 DEF SessionType, PlaceInv, Leaders, Services, Leaves
  <2>5. RowsInv'
    BY <2>2, <2>3, <2>4
       DEF RowsInv, PlaceInv, SessionType, ServiceRows, TaskRows, NoService, NoTask,
           Active, Outcomes
  <2>6. OwnerInv'
    BY <2>2, <2>3 DEF OwnerInv, SessionType, Leaders
  <2>7. PlaceInv'
    BY <2>2, <2>3, <2>4
       DEF PlaceInv, OwnerInv, RowsInv, SessionType, ServiceRows, TaskRows, NoService,
           NoTask, Active, Outcomes, Services, Leaves
  <2>8. \A l \in Leaves : TaskProgress(root[l], root'[l])
    BY <2>2, TaskSteps DEF SessionType
  <2>9. Progressed
    BY <2>1, <2>2, <2>3, <2>4, <2>8
       DEF Progressed, RowsInv, PlaceInv, OwnerInv, SessionType, ServiceRows, Active,
           NoService, Lost, Settling, Leaders
  <2>10. QED
    BY <2>4, <2>5, <2>6, <2>7, <2>9
<1>5. CASE BecomeHealthy
  <2>1. UNCHANGED observer
    BY <1>5 DEF BecomeHealthy, Owner
  <2>2. /\ owner = "live" /\ pc = "health"
        /\ UNCHANGED <<owner, successor, progress, service, root, leader>>
        /\ \/ at + 1 \in Services /\ pc' = "start" /\ at' = at + 1
           \/ at + 1 \notin Services /\ pc' = "leaf" /\ at' = 1
    BY <1>5 DEF BecomeHealthy, rows, Owner
  <2>3. SessionType'
    BY <2>2 DEF SessionType, PlaceInv, Leaders, Services, Leaves
  <2>4. RowsInv'
    BY <2>2, <2>3
       DEF RowsInv, PlaceInv, SessionType, ServiceRows, TaskRows, NoService, NoTask,
           Active, Outcomes
  <2>5. OwnerInv'
    BY <2>2 DEF OwnerInv, SessionType, Leaders
  <2>6. PlaceInv'
    <3>1. /\ at \in Services /\ at \in Nat /\ Services \subseteq Nat
          /\ \A l \in Leaves : root'[l] = NoTask
          /\ \A i \in Services : i <= at => service[i].status = "ready"
          /\ \A i \in Services : i > at => service[i] = NoService
      BY <2>2 DEF PlaceInv, Services
    <3>2. CASE at + 1 \in Services
      BY <2>2, <3>1, <3>2 DEF PlaceInv
    <3>3. CASE at + 1 \notin Services
      <4>1. \A i \in Services : i <= at
        BY <3>1, <3>3 DEF Services
      <4>2. 1 \in Leaves
        BY DEF Leaves
      <4>3. QED
        BY <2>2, <3>1, <3>3, <4>1, <4>2 DEF PlaceInv
    <3>4. QED
      BY <3>2, <3>3
  <2>7. \A l \in Leaves : TaskProgress(root[l], root'[l])
    BY <2>2, TaskSteps DEF SessionType
  <2>8. Progressed
    BY <2>1, <2>2, <2>3, <2>7
       DEF Progressed, RowsInv, PlaceInv, OwnerInv, SessionType, ServiceRows, Active,
           NoService, Lost, Settling, Leaders
  <2>9. QED
    BY <2>3, <2>4, <2>5, <2>6, <2>8
<1>6. CASE FailStart
  <2>1. UNCHANGED observer
    BY <1>6 DEF FailStart, Owner, GiveUp, Settle
  <2>2. /\ owner = "live" /\ pc \in {"ready", "health"} /\ Settle(at)
        /\ pc' = "outcome" /\ at' = 1
        /\ UNCHANGED <<owner, successor, progress, root>>
    BY <1>6 DEF FailStart, rows, Owner, GiveUp
  <2>3. /\ service' \in [Services -> ServiceRows] /\ leader' \in [Services -> Leaders \cup {"none"}]
        /\ \/ service'[at] = service[at] /\ leader'[at] = leader[at]
           \/ /\ service'[at].status = "ended"
              /\ leader'[at] # leader[at] => leader[at] # "reused" /\ leader'[at] = "gone"
        /\ \A i \in Services \ {at} : service'[i] = service[i] /\ leader'[i] = leader[i]
    <3>1. at \in Services
      BY <2>2 DEF PlaceInv
    <3>2. QED
      BY <2>2, <3>1, SettleEffect
  <2>4. SessionType'
    BY <2>2, <2>3 DEF SessionType, PlaceInv, Leaders, Services, Leaves
  <2>5. RowsInv'
    <3>1. \A l \in Leaves : root'[l] = NoTask
      BY <2>2 DEF PlaceInv
    <3>2. ASSUME NEW i \in Services
          PROVE  /\ service'[i].status = "none" => service'[i] = NoService
                 /\ service'[i].owned = "settled" => service'[i].status = "ended"
                 /\ leader'[i] = "none" <=> service'[i].status = "none"
      <4>1. CASE service'[i] = service[i] /\ leader'[i] = leader[i]
        BY <4>1 DEF RowsInv
      <4>2. CASE i = at /\ service'[i].status = "ended"
        BY <2>2, <2>3, <4>2 DEF RowsInv, PlaceInv
      <4>3. QED
        BY <2>3, <4>1, <4>2
    <3>3. QED
      BY <3>1, <3>2 DEF RowsInv, NoTask, Outcomes
  <2>6. OwnerInv'
    BY <2>2, <2>3 DEF OwnerInv, SessionType, Leaders
  <2>7. PlaceInv'
    BY <2>2, <2>3, <2>4
       DEF PlaceInv, OwnerInv, RowsInv, SessionType, ServiceRows, TaskRows, NoService,
           NoTask, Active, Outcomes, Services, Leaves
  <2>8. \A l \in Leaves : TaskProgress(root[l], root'[l])
    BY <2>2, TaskSteps DEF SessionType
  <2>9. Progressed
    BY <2>1, <2>2, <2>3, <2>4, <2>8
       DEF Progressed, RowsInv, PlaceInv, OwnerInv, SessionType, ServiceRows, Active,
           NoService, Lost, Settling, Leaders
  <2>10. QED
    BY <2>4, <2>5, <2>6, <2>7, <2>9
<1>7. CASE RegisterTask
  <2>1. UNCHANGED observer
    BY <1>7 DEF RegisterTask, Owner
  <2>2. /\ owner = "live" /\ pc = "leaf" /\ pc' = "observe"
        /\ UNCHANGED <<owner, successor, at, progress, service, leader>>
        /\ root' = [root EXCEPT ![at].status = "running"]
    BY <1>7 DEF RegisterTask, rows, Owner
  <2>3. /\ root' \in [Leaves -> TaskRows]
        /\ root[at] = NoTask /\ root'[at] = [NoTask EXCEPT !.status = "running"]
        /\ \A l \in Leaves \ {at} : root'[l] = root[l]
    BY <2>2
       DEF SessionType, RowsInv, OwnerInv, PlaceInv, ServiceRows, TaskRows, Active,
           Outcomes, Leaders, Services, Leaves, NoTask, NoService
  <2>4. SessionType'
    BY <2>2, <2>3 DEF SessionType, PlaceInv, Leaders, Services, Leaves
  <2>5. RowsInv'
    BY <2>2, <2>3, <2>4
       DEF RowsInv, PlaceInv, SessionType, ServiceRows, TaskRows, NoService, NoTask,
           Active, Outcomes
  <2>6. OwnerInv'
    BY <2>2, <2>3 DEF OwnerInv, SessionType, Leaders
  <2>7. PlaceInv'
    BY <2>2, <2>3, <2>4
       DEF PlaceInv, OwnerInv, RowsInv, SessionType, ServiceRows, TaskRows, NoService,
           NoTask, Active, Outcomes, Services, Leaves
  <2>8. \A l \in Leaves : TaskProgress(root[l], root'[l])
    BY <2>2, <2>3, TaskSteps
       DEF TaskProgress, Doomed, FailedTask, IncompleteTask, SuccessfulTask,
           SessionType, TaskRows, Outcomes, NoTask, PlaceInv
  <2>9. Progressed
    BY <2>1, <2>2, <2>3, <2>4, <2>8
       DEF Progressed, RowsInv, PlaceInv, OwnerInv, SessionType, ServiceRows, Active,
           NoService, Lost, Settling, Leaders
  <2>10. QED
    BY <2>4, <2>5, <2>6, <2>7, <2>9
<1>8. CASE ObserveTask
  <2>1. UNCHANGED observer
    BY <1>8 DEF ObserveTask, Owner
  <2>2. /\ owner = "live" /\ pc = "observe" /\ pc' = "finish"
        /\ UNCHANGED <<owner, successor, at, progress, service, leader>>
        /\ \E outcome \in Outcomes : root' = [root EXCEPT ![at].outcome = outcome]
    BY <1>8 DEF ObserveTask, rows, Owner
  <2>3. /\ root' \in [Leaves -> TaskRows]
        /\ root[at] = [NoTask EXCEPT !.status = "running"]
        /\ root'[at].status = "running" /\ root'[at].owned = "unresolved"
        /\ root'[at].capture = "pending" /\ root'[at].outcome \in Outcomes
        /\ \A l \in Leaves \ {at} : root'[l] = root[l]
    <3>1. PICK outcome \in Outcomes : root' = [root EXCEPT ![at].outcome = outcome]
      BY <2>2, Zenon
    <3>2. /\ at \in Leaves /\ root \in [Leaves -> TaskRows]
          /\ root[at] = [NoTask EXCEPT !.status = "running"]
      BY <2>2 DEF PlaceInv, SessionType
    <3>3. /\ root[at].status = "running" /\ root[at].owned = "unresolved"
          /\ root[at].capture = "pending" /\ root[at] \in TaskRows
      BY <3>2 DEF NoTask
    <3>4. root' = [root EXCEPT ![at] = [status |-> "running", owned |-> "unresolved",
                                        capture |-> "pending", outcome |-> outcome]]
      <4>1. [root[at] EXCEPT !.outcome = outcome]
              = [status |-> "running", owned |-> "unresolved", capture |-> "pending",
                 outcome |-> outcome]
        BY <3>3 DEF TaskRows
      <4>2. QED
        BY <3>1, <4>1
    <3>5. [status |-> "running", owned |-> "unresolved", capture |-> "pending",
           outcome |-> outcome] \in TaskRows
      BY <3>1 DEF TaskRows
    <3>6. /\ root' \in [Leaves -> TaskRows] /\ root'[at].status = "running"
          /\ root'[at].owned = "unresolved" /\ root'[at].capture = "pending"
          /\ root'[at].outcome = outcome /\ \A l \in Leaves \ {at} : root'[l] = root[l]
      <4>1. at \in Leaves /\ root \in [Leaves -> TaskRows]
        BY <3>2
      <4>2. QED
        BY <3>4, <3>5, <4>1
    <3>7. QED
      BY <3>1, <3>2, <3>6, Zenon
  <2>4. /\ owner = "live" /\ pc = "observe" /\ pc' = "finish"
        /\ UNCHANGED <<owner, successor, at, progress, service, leader>>
    BY <2>2, Zenon
  <2>5. SessionType'
    BY <2>4, <2>3 DEF SessionType, PlaceInv, Leaders, Services, Leaves
  <2>6. RowsInv'
    BY <2>4, <2>3, <2>5
       DEF RowsInv, PlaceInv, SessionType, ServiceRows, TaskRows, NoService, NoTask,
           Active, Outcomes
  <2>7. OwnerInv'
    BY <2>4, <2>3 DEF OwnerInv, SessionType, Leaders
  <2>8. PlaceInv'
    <3>1. /\ at \in Leaves /\ \A i \in Services : service[i].status = "ready"
          /\ \A l \in Leaves : l > at => l # at /\ root[l] = NoTask
      BY <2>4 DEF PlaceInv, Leaves
    <3>2. QED
      BY <2>4, <2>3, <3>1 DEF PlaceInv
  <2>9. \A l \in Leaves : TaskProgress(root[l], root'[l])
    BY <2>4, <2>3, TaskSteps
       DEF TaskProgress, Doomed, FailedTask, IncompleteTask, SuccessfulTask,
           SessionType, TaskRows, Outcomes, NoTask, PlaceInv
  <2>10. Progressed
    BY <2>1, <2>4, <2>3, <2>5, <2>9
       DEF Progressed, RowsInv, PlaceInv, OwnerInv, SessionType, ServiceRows, Active,
           NoService, Lost, Settling, Leaders
  <2>11. QED
    BY <2>5, <2>6, <2>7, <2>8, <2>10
<1>9. CASE InterruptTask
  <2>1. PICK from \in {"observe", "finish"} : Owner(from)
    BY <1>9, Zenon DEF InterruptTask
  <2>2. UNCHANGED observer
    BY <2>1 DEF Owner
  <2>3. owner = "live" /\ pc \in {"observe", "finish"} /\ UNCHANGED <<owner, successor>>
    BY <2>1 DEF Owner
  <2>4. pc' = "outcome" /\ at' = 1
    BY <1>9, Zenon DEF InterruptTask, GiveUp
  <2>5. /\ \/ \E status \in IF root[at].outcome = "none" THEN Outcomes
                                                         ELSE {root[at].outcome} :
                root' = [root EXCEPT ![at].status = status, ![at].owned = "settled",
                                     ![at].capture = "complete"]
           \/ \E capture \in {"pending", "complete", "incomplete"} :
                root' = [root EXCEPT ![at].capture = capture]
        /\ UNCHANGED <<progress, service, leader>>
    BY <1>9, Zenon DEF InterruptTask
  <2>6. /\ root' \in [Leaves -> TaskRows]
        /\ root[at].status = "running" /\ root[at].owned = "unresolved"
        /\ root[at].capture = "pending"
        /\ root'[at].outcome = root[at].outcome
        /\ \/ /\ root'[at].status \in Outcomes /\ root'[at].owned = "settled"
              /\ root'[at].capture = "complete"
              /\ root[at].outcome \in {"none", root'[at].status}
           \/ root'[at].status = "running" /\ root'[at].owned = "unresolved"
        /\ \A l \in Leaves \ {at} : root'[l] = root[l]
    <3>1. /\ at \in Leaves /\ root \in [Leaves -> TaskRows] /\ root[at] \in TaskRows
          /\ root[at].status = "running" /\ root[at].owned = "unresolved"
          /\ root[at].capture = "pending"
      BY <2>3 DEF PlaceInv, SessionType, NoTask
    <3>2. ASSUME NEW status \in Outcomes, root[at].outcome \in {"none", status},
                 root' = [root EXCEPT ![at].status = status, ![at].owned = "settled",
                                      ![at].capture = "complete"]
          PROVE  /\ root' \in [Leaves -> TaskRows]
                 /\ root'[at].status = status /\ root'[at].owned = "settled"
                 /\ root'[at].capture = "complete" /\ root'[at].outcome = root[at].outcome
                 /\ \A l \in Leaves \ {at} : root'[l] = root[l]
      <4>1. root' = [root EXCEPT ![at] = [status |-> status, owned |-> "settled",
                                          capture |-> "complete",
                                          outcome |-> root[at].outcome]]
        BY <3>1, <3>2 DEF TaskRows
      <4>2. [status |-> status, owned |-> "settled", capture |-> "complete",
             outcome |-> root[at].outcome] \in TaskRows
        BY <3>1, <3>2 DEF TaskRows
      <4>3. QED
        BY <3>1, <4>1, <4>2
    <3>3. ASSUME NEW capture \in {"pending", "complete", "incomplete"},
                 root' = [root EXCEPT ![at].capture = capture]
          PROVE  /\ root' \in [Leaves -> TaskRows]
                 /\ root'[at].status = "running" /\ root'[at].owned = "unresolved"
                 /\ root'[at].outcome = root[at].outcome
                 /\ \A l \in Leaves \ {at} : root'[l] = root[l]
      <4>1. root' = [root EXCEPT ![at] = [status |-> "running", owned |-> "unresolved",
                                          capture |-> capture,
                                          outcome |-> root[at].outcome]]
        <5>1. [root[at] EXCEPT !.capture = capture]
                = [status |-> "running", owned |-> "unresolved", capture |-> capture,
                   outcome |-> root[at].outcome]
          BY <3>1 DEF TaskRows
        <5>2. QED
          BY <3>3, <5>1
      <4>2. [status |-> "running", owned |-> "unresolved", capture |-> capture,
             outcome |-> root[at].outcome] \in TaskRows
        BY <3>1, <3>3 DEF TaskRows
      <4>3. QED
        BY <3>1, <4>1, <4>2
    <3>4. \A status \in IF root[at].outcome = "none" THEN Outcomes ELSE {root[at].outcome} :
            status \in Outcomes /\ root[at].outcome \in {"none", status}
      BY <3>1 DEF TaskRows
    <3>5. QED
      BY <2>5, <3>1, <3>2, <3>3, <3>4, Zenon
  <2>7. /\ owner = "live" /\ pc \in {"observe", "finish"}
        /\ pc' = "outcome" /\ at' = 1
        /\ UNCHANGED <<owner, successor, progress, service, leader>>
    BY <2>3, <2>4, <2>5, Zenon
  <2>8. SessionType'
    BY <2>7, <2>6 DEF SessionType, PlaceInv, Leaders, Services, Leaves
  <2>9. RowsInv'
    <3>1. ASSUME NEW l \in Leaves
          PROVE  /\ root'[l].status = "none" => root'[l] = NoTask
                 /\ root'[l].owned = "settled" <=> root'[l].status \in Outcomes
                 /\ root'[l].status = "succeeded" =>
                      /\ root'[l].capture = "complete"
                      /\ root'[l].outcome \in {"none", "succeeded"}
      <4>1. CASE l = at
        BY <2>6, <4>1 DEF Outcomes
      <4>2. CASE l # at
        BY <2>6, <4>2 DEF RowsInv
      <4>3. QED
        BY <4>1, <4>2
    <3>2. \A i \in Services : service[i].status \in {"ready", "ended"}
      BY <2>7 DEF PlaceInv
    <3>3. QED
      BY <2>7, <3>1, <3>2 DEF RowsInv
  <2>10. OwnerInv'
    BY <2>7, <2>6 DEF OwnerInv, SessionType, Leaders
  <2>11. PlaceInv'
    BY <2>7, <2>6, <2>8
       DEF PlaceInv, OwnerInv, RowsInv, SessionType, ServiceRows, TaskRows, NoService,
           NoTask, Active, Outcomes, Services, Leaves
  <2>12. \A l \in Leaves : TaskProgress(root[l], root'[l])
    <3>1. ASSUME NEW l \in Leaves, l # at PROVE TaskProgress(root[l], root'[l])
      BY <2>6, <3>1, TaskSteps DEF SessionType
    <3>2. ~ SuccessfulTask(root[at]) /\ ~ IncompleteTask(root[at])
      BY <2>6 DEF SuccessfulTask, IncompleteTask
    <3>3. FailedTask(root[at]) => FailedTask(root'[at])
      BY <2>6, <2>11, <2>8 DEF FailedTask
    <3>4. QED
      BY <3>1, <3>2, <3>3 DEF TaskProgress, Doomed
  <2>13. Progressed
    BY <2>2, <2>7, <2>6, <2>8, <2>12
       DEF Progressed, RowsInv, PlaceInv, OwnerInv, SessionType, ServiceRows, Active,
           NoService, Lost, Settling, Leaders
  <2>14. QED
    BY <2>8, <2>9, <2>10, <2>11, <2>13
<1>10. CASE FinishTask
  <2>1. UNCHANGED observer
    BY <1>10 DEF FinishTask, Owner, GiveUp
  <2>2. /\ owner = "live" /\ pc = "finish"
        /\ UNCHANGED <<owner, successor, progress, service, leader>>
        /\ root' = [root EXCEPT ![at].status = root[at].outcome, ![at].owned = "settled",
                                ![at].capture = "complete"]
        /\ \/ pc' = "check" /\ at' = at
           \/ pc' = "outcome" /\ at' = 1
    BY <1>10 DEF FinishTask, rows, Owner, GiveUp
  <2>3. /\ root' \in [Leaves -> TaskRows]
        /\ root[at].status = "running" /\ root[at].owned = "unresolved"
        /\ root[at].capture = "pending"
        /\ root[at].outcome \in Outcomes /\ root'[at].outcome = root[at].outcome
        /\ root'[at].status = root[at].outcome /\ root'[at].owned = "settled"
        /\ root'[at].capture = "complete"
        /\ \A l \in Leaves \ {at} : root'[l] = root[l]
    BY <2>2
       DEF SessionType, RowsInv, OwnerInv, PlaceInv, ServiceRows, TaskRows, Active,
           Outcomes, Leaders, Services, Leaves, NoTask, NoService
  <2>4. /\ owner = "live" /\ pc = "finish"
        /\ UNCHANGED <<owner, successor, progress, service, leader>>
        /\ \/ pc' = "check" /\ at' = at
           \/ pc' = "outcome" /\ at' = 1
    BY <2>2, Zenon
  <2>5. SessionType'
    BY <2>4, <2>3 DEF SessionType, PlaceInv, Leaders, Services, Leaves
  <2>6. RowsInv'
    BY <2>4, <2>3, <2>5
       DEF RowsInv, PlaceInv, SessionType, ServiceRows, TaskRows, NoService, NoTask,
           Active, Outcomes
  <2>7. OwnerInv'
    BY <2>4, <2>3 DEF OwnerInv, SessionType, Leaders
  <2>8. PlaceInv'
    <3>1. /\ at \in Leaves /\ \A i \in Services : service[i].status = "ready"
          /\ \A l \in Leaves : l > at => l # at /\ root[l] = NoTask
      BY <2>4 DEF PlaceInv, Leaves
    <3>2. QED
      BY <2>4, <2>3, <3>1 DEF PlaceInv
  <2>9. \A l \in Leaves : TaskProgress(root[l], root'[l])
    BY <2>4, <2>3, TaskSteps
       DEF TaskProgress, Doomed, FailedTask, IncompleteTask, SuccessfulTask,
           SessionType, TaskRows, Outcomes, NoTask, PlaceInv
  <2>10. Progressed
    BY <2>1, <2>4, <2>3, <2>5, <2>9
       DEF Progressed, RowsInv, PlaceInv, OwnerInv, SessionType, ServiceRows, Active,
           NoService, Lost, Settling, Leaders
  <2>11. QED
    BY <2>5, <2>6, <2>7, <2>8, <2>10
<1>11. CASE LoseSummary
  <2>1. UNCHANGED observer
    BY <1>11 DEF LoseSummary, Owner, GiveUp
  <2>2. /\ owner = "live" /\ pc = "finish"
        /\ pc' = "outcome" /\ at' = 1
        /\ UNCHANGED <<owner, successor, progress, service, root, leader>>
    BY <1>11 DEF LoseSummary, rows, Owner, GiveUp
  <2>3. SessionType'
    BY <2>2 DEF SessionType, PlaceInv, Leaders, Services, Leaves
  <2>4. RowsInv'
    BY <2>2, <2>3
       DEF RowsInv, PlaceInv, SessionType, ServiceRows, TaskRows, NoService, NoTask,
           Active, Outcomes
  <2>5. OwnerInv'
    BY <2>2 DEF OwnerInv, SessionType, Leaders
  <2>6. PlaceInv'
    BY <2>2, <2>3
       DEF PlaceInv, OwnerInv, RowsInv, SessionType, ServiceRows, TaskRows, NoService,
           NoTask, Active, Outcomes, Services, Leaves
  <2>7. \A l \in Leaves : TaskProgress(root[l], root'[l])
    BY <2>2, TaskSteps DEF SessionType
  <2>8. Progressed
    BY <2>1, <2>2, <2>3, <2>7
       DEF Progressed, RowsInv, PlaceInv, OwnerInv, SessionType, ServiceRows, Active,
           NoService, Lost, Settling, Leaders
  <2>9. QED
    BY <2>3, <2>4, <2>5, <2>6, <2>8
<1>12. CASE CheckServices
  <2>1. UNCHANGED observer
    BY <1>12 DEF CheckServices, Owner, GiveUp
  <2>2. /\ owner = "live" /\ pc = "check"
        /\ UNCHANGED <<owner, successor, progress, service, root, leader>>
        /\ \/ at + 1 \in Leaves /\ pc' = "leaf" /\ at' = at + 1
           \/ pc' = "outcome" /\ at' = 1
    BY <1>12 DEF CheckServices, rows, Owner, GiveUp
  <2>3. SessionType'
    BY <2>2 DEF SessionType, PlaceInv, Leaders, Services, Leaves
  <2>4. RowsInv'
    BY <2>2, <2>3
       DEF RowsInv, PlaceInv, SessionType, ServiceRows, TaskRows, NoService, NoTask,
           Active, Outcomes
  <2>5. OwnerInv'
    BY <2>2 DEF OwnerInv, SessionType, Leaders
  <2>6. PlaceInv'
    BY <2>2, <2>3
       DEF PlaceInv, OwnerInv, RowsInv, SessionType, ServiceRows, TaskRows, NoService,
           NoTask, Active, Outcomes, Services, Leaves
  <2>7. \A l \in Leaves : TaskProgress(root[l], root'[l])
    BY <2>2, TaskSteps DEF SessionType
  <2>8. Progressed
    BY <2>1, <2>2, <2>3, <2>7
       DEF Progressed, RowsInv, PlaceInv, OwnerInv, SessionType, ServiceRows, Active,
           NoService, Lost, Settling, Leaders
  <2>9. QED
    BY <2>3, <2>4, <2>5, <2>6, <2>8
<1>13. CASE RecordOutcome
  <2>1. UNCHANGED observer
    BY <1>13 DEF RecordOutcome, Owner
  <2>2. /\ owner = "live" /\ pc = "outcome" /\ pc' = "stop"
        /\ progress' \in {"executing", "finalizing"}
        /\ UNCHANGED <<owner, successor, at, service, root, leader>>
    BY <1>13 DEF RecordOutcome, rows, Owner
  <2>3. SessionType'
    BY <2>2 DEF SessionType, PlaceInv, Leaders, Services, Leaves
  <2>4. RowsInv'
    BY <2>2, <2>3
       DEF RowsInv, PlaceInv, SessionType, ServiceRows, TaskRows, NoService, NoTask,
           Active, Outcomes
  <2>5. OwnerInv'
    BY <2>2 DEF OwnerInv, SessionType, Leaders
  <2>6. PlaceInv'
    BY <2>2, <2>3
       DEF PlaceInv, OwnerInv, RowsInv, SessionType, ServiceRows, TaskRows, NoService,
           NoTask, Active, Outcomes, Services, Leaves
  <2>7. \A l \in Leaves : TaskProgress(root[l], root'[l])
    BY <2>2, TaskSteps DEF SessionType
  <2>8. Progressed
    BY <2>1, <2>2, <2>3, <2>7
       DEF Progressed, RowsInv, PlaceInv, OwnerInv, SessionType, ServiceRows, Active,
           NoService, Lost, Settling, Leaders
  <2>9. QED
    BY <2>3, <2>4, <2>5, <2>6, <2>8
<1>14. CASE StopService
  <2>1. UNCHANGED observer
    BY <1>14 DEF StopService, Owner, Settle
  <2>2. /\ owner = "live" /\ pc = "stop" /\ pc' = "stop"
        /\ \E i \in Started : Settle(i)
        /\ UNCHANGED <<owner, successor, at, progress, root>>
    BY <1>14 DEF StopService, rows, Owner
  <2>3. /\ service' \in [Services -> ServiceRows] /\ leader' \in [Services -> Leaders \cup {"none"}]
        /\ \A i \in Services :
             \/ service'[i] = service[i] /\ leader'[i] = leader[i]
             \/ /\ service[i].status \in Active /\ service'[i].status = "ended"
                /\ leader'[i] # leader[i] => leader[i] # "reused" /\ leader'[i] = "gone"
    <3>1. PICK i \in Services : service[i].status \in Active /\ Settle(i)
      BY <2>2 DEF Started
    <3>2. QED
      BY <3>1, SettleEffect
  <2>4. SessionType'
    BY <2>2, <2>3 DEF SessionType, PlaceInv, Leaders, Services, Leaves
  <2>5. RowsInv'
    BY <2>2, <2>3, <2>4
       DEF RowsInv, PlaceInv, SessionType, ServiceRows, TaskRows, NoService, NoTask,
           Active, Outcomes
  <2>6. OwnerInv'
    BY <2>2, <2>3 DEF OwnerInv, SessionType, Leaders
  <2>7. PlaceInv'
    BY <2>2, <2>3, <2>4
       DEF PlaceInv, OwnerInv, RowsInv, SessionType, ServiceRows, TaskRows, NoService,
           NoTask, Active, Outcomes, Services, Leaves
  <2>8. \A l \in Leaves : TaskProgress(root[l], root'[l])
    BY <2>2, TaskSteps DEF SessionType
  <2>9. Progressed
    BY <2>1, <2>2, <2>3, <2>4, <2>8
       DEF Progressed, RowsInv, PlaceInv, OwnerInv, SessionType, ServiceRows, Active,
           NoService, Lost, Settling, Leaders
  <2>10. QED
    BY <2>4, <2>5, <2>6, <2>7, <2>9
<1>15. CASE StopDone
  <2>1. UNCHANGED observer
    BY <1>15 DEF StopDone, Owner
  <2>2. /\ owner = "live" /\ pc = "stop" /\ pc' = "finalize"
        /\ UNCHANGED <<owner, successor, at, progress, service, root, leader>>
    BY <1>15 DEF StopDone, rows, Owner
  <2>3. SessionType'
    BY <2>2 DEF SessionType, PlaceInv, Leaders, Services, Leaves
  <2>4. RowsInv'
    BY <2>2, <2>3
       DEF RowsInv, PlaceInv, SessionType, ServiceRows, TaskRows, NoService, NoTask,
           Active, Outcomes
  <2>5. OwnerInv'
    BY <2>2 DEF OwnerInv, SessionType, Leaders
  <2>6. PlaceInv'
    BY <2>2, <2>3
       DEF PlaceInv, OwnerInv, RowsInv, SessionType, ServiceRows, TaskRows, NoService,
           NoTask, Active, Outcomes, Services, Leaves
  <2>7. \A l \in Leaves : TaskProgress(root[l], root'[l])
    BY <2>2, TaskSteps DEF SessionType
  <2>8. Progressed
    BY <2>1, <2>2, <2>3, <2>7
       DEF Progressed, RowsInv, PlaceInv, OwnerInv, SessionType, ServiceRows, Active,
           NoService, Lost, Settling, Leaders
  <2>9. QED
    BY <2>3, <2>4, <2>5, <2>6, <2>8
<1>16. CASE Finalize
  <2>1. UNCHANGED observer
    BY <1>16 DEF Finalize, Owner
  <2>2. /\ owner = "live" /\ pc = "finalize" /\ pc' = "exit"
        /\ \/ progress' = progress
           \/ progress' = "finalized"
        /\ UNCHANGED <<owner, successor, at, service, root, leader>>
    BY <1>16 DEF Finalize, rows, Owner
  <2>3. SessionType'
    BY <2>2 DEF SessionType, PlaceInv, Leaders, Services, Leaves
  <2>4. RowsInv'
    BY <2>2, <2>3
       DEF RowsInv, PlaceInv, SessionType, ServiceRows, TaskRows, NoService, NoTask,
           Active, Outcomes
  <2>5. OwnerInv'
    BY <2>2 DEF OwnerInv, SessionType, Leaders
  <2>6. PlaceInv'
    BY <2>2, <2>3
       DEF PlaceInv, OwnerInv, RowsInv, SessionType, ServiceRows, TaskRows, NoService,
           NoTask, Active, Outcomes, Services, Leaves
  <2>7. \A l \in Leaves : TaskProgress(root[l], root'[l])
    BY <2>2, TaskSteps DEF SessionType
  <2>8. Progressed
    BY <2>1, <2>2, <2>3, <2>7
       DEF Progressed, RowsInv, PlaceInv, OwnerInv, SessionType, ServiceRows, Active,
           NoService, Lost, Settling, Leaders
  <2>9. QED
    BY <2>3, <2>4, <2>5, <2>6, <2>8
<1>17. CASE Leave
  <2>1. UNCHANGED observer
    BY <1>17 DEF Leave
  <2>2. /\ owner = "live"
        /\ owner' = "gone" /\ pc' = "over" /\ at' = 1
        /\ UNCHANGED <<successor, progress, service, root, leader>>
    BY <1>17 DEF Leave, rows
  <2>3. SessionType'
    BY <2>2 DEF SessionType, PlaceInv, Leaders, Services, Leaves
  <2>4. RowsInv'
    BY <2>2, <2>3
       DEF RowsInv, PlaceInv, SessionType, ServiceRows, TaskRows, NoService, NoTask,
           Active, Outcomes
  <2>5. OwnerInv'
    BY <2>2 DEF OwnerInv, SessionType, Leaders
  <2>6. PlaceInv'
    BY <2>2, <2>3
       DEF PlaceInv, OwnerInv, RowsInv, SessionType, ServiceRows, TaskRows, NoService,
           NoTask, Active, Outcomes, Services, Leaves
  <2>7. \A l \in Leaves : TaskProgress(root[l], root'[l])
    BY <2>2, TaskSteps DEF SessionType
  <2>8. Progressed
    BY <2>1, <2>2, <2>3, <2>7
       DEF Progressed, RowsInv, PlaceInv, OwnerInv, SessionType, ServiceRows, Active,
           NoService, Lost, Settling, Leaders
  <2>9. QED
    BY <2>3, <2>4, <2>5, <2>6, <2>8
<1>18. CASE RecoverOutcome
  <2>1. UNCHANGED observer
    BY <1>18 DEF RecoverOutcome, Recovering
  <2>2. /\ owner # "live" /\ progress # "unpublished"
        /\ progress' = "finalizing"
        /\ UNCHANGED <<pc, at, owner, successor, service, root, leader>>
    BY <1>18 DEF RecoverOutcome, rows, Recovering
  <2>3. SessionType'
    BY <2>2 DEF SessionType, PlaceInv, Leaders, Services, Leaves
  <2>4. RowsInv'
    BY <2>2, <2>3
       DEF RowsInv, PlaceInv, SessionType, ServiceRows, TaskRows, NoService, NoTask,
           Active, Outcomes
  <2>5. OwnerInv'
    BY <2>2 DEF OwnerInv, SessionType, Leaders
  <2>6. PlaceInv'
    BY <2>2, <2>3
       DEF PlaceInv, OwnerInv, RowsInv, SessionType, ServiceRows, TaskRows, NoService,
           NoTask, Active, Outcomes, Services, Leaves
  <2>7. \A l \in Leaves : TaskProgress(root[l], root'[l])
    BY <2>2, TaskSteps DEF SessionType
  <2>8. Progressed
    BY <2>1, <2>2, <2>3, <2>7
       DEF Progressed, RowsInv, PlaceInv, OwnerInv, SessionType, ServiceRows, Active,
           NoService, Lost, Settling, Leaders
  <2>9. QED
    BY <2>3, <2>4, <2>5, <2>6, <2>8
<1>19. CASE RecoverComplete
  <2>1. UNCHANGED observer
    BY <1>19 DEF RecoverComplete, Recovering
  <2>2. /\ owner # "live" /\ progress # "unpublished"
        /\ progress' = "finalized"
        /\ UNCHANGED <<pc, at, owner, successor, service, root, leader>>
    BY <1>19 DEF RecoverComplete, rows, Recovering
  <2>3. SessionType'
    BY <2>2 DEF SessionType, PlaceInv, Leaders, Services, Leaves
  <2>4. RowsInv'
    BY <2>2, <2>3
       DEF RowsInv, PlaceInv, SessionType, ServiceRows, TaskRows, NoService, NoTask,
           Active, Outcomes
  <2>5. OwnerInv'
    BY <2>2 DEF OwnerInv, SessionType, Leaders
  <2>6. PlaceInv'
    BY <2>2, <2>3
       DEF PlaceInv, OwnerInv, RowsInv, SessionType, ServiceRows, TaskRows, NoService,
           NoTask, Active, Outcomes, Services, Leaves
  <2>7. \A l \in Leaves : TaskProgress(root[l], root'[l])
    BY <2>2, TaskSteps DEF SessionType
  <2>8. Progressed
    BY <2>1, <2>2, <2>3, <2>7
       DEF Progressed, RowsInv, PlaceInv, OwnerInv, SessionType, ServiceRows, Active,
           NoService, Lost, Settling, Leaders
  <2>9. QED
    BY <2>3, <2>4, <2>5, <2>6, <2>8
<1>20. CASE PublishSuccessor
  <2>1. UNCHANGED observer
    BY <1>20 DEF PublishSuccessor, Recovering
  <2>2. /\ owner # "live" /\ progress # "unpublished"
        /\ successor' = TRUE
        /\ UNCHANGED <<pc, at, owner, progress, service, root, leader>>
    BY <1>20 DEF PublishSuccessor, rows, Recovering
  <2>3. SessionType'
    BY <2>2 DEF SessionType, PlaceInv, Leaders, Services, Leaves
  <2>4. RowsInv'
    BY <2>2, <2>3
       DEF RowsInv, PlaceInv, SessionType, ServiceRows, TaskRows, NoService, NoTask,
           Active, Outcomes
  <2>5. OwnerInv'
    BY <2>2 DEF OwnerInv, SessionType, Leaders
  <2>6. PlaceInv'
    BY <2>2, <2>3
       DEF PlaceInv, OwnerInv, RowsInv, SessionType, ServiceRows, TaskRows, NoService,
           NoTask, Active, Outcomes, Services, Leaves
  <2>7. \A l \in Leaves : TaskProgress(root[l], root'[l])
    BY <2>2, TaskSteps DEF SessionType
  <2>8. Progressed
    BY <2>1, <2>2, <2>3, <2>7
       DEF Progressed, RowsInv, PlaceInv, OwnerInv, SessionType, ServiceRows, Active,
           NoService, Lost, Settling, Leaders
  <2>9. QED
    BY <2>3, <2>4, <2>5, <2>6, <2>8
<1>21. ASSUME NEW i \in Services, RecoverService(i) PROVE Goal
  <2>1. UNCHANGED observer
    BY <1>21 DEF RecoverService, Recovering
  <2>2. /\ owner # "live" /\ progress # "unpublished"
        /\ service[i].status # "none"
        /\ service' = [service EXCEPT ![i] = [status |-> "ended", owned |-> "settled"]]
        /\ leader' = [leader EXCEPT ![i] = IF leader[i] = "live" THEN "gone" ELSE leader[i]]
        /\ UNCHANGED <<pc, at, owner, progress, successor, root>>
    BY <1>21 DEF RecoverService, rows, Recovering
  <2>3. /\ service' \in [Services -> ServiceRows] /\ leader' \in [Services -> Leaders \cup {"none"}]
        /\ service'[i] = [status |-> "ended", owned |-> "settled"]
        /\ leader'[i] # leader[i] => leader[i] = "live" /\ leader'[i] = "gone"
        /\ \A j \in Services \ {i} : service'[j] = service[j] /\ leader'[j] = leader[j]
    <3>1. /\ service \in [Services -> ServiceRows]
          /\ leader \in [Services -> Leaders \cup {"none"}] /\ leader[i] \in Leaders \cup {"none"}
      BY DEF SessionType
    <3>2. /\ [status |-> "ended", owned |-> "settled"] \in ServiceRows
          /\ (IF leader[i] = "live" THEN "gone" ELSE leader[i]) \in Leaders \cup {"none"}
      BY <3>1 DEF ServiceRows, Leaders
    <3>3. QED
      BY <2>2, <3>1, <3>2, <1>21
  <2>4. SessionType'
    BY <2>2, <2>3 DEF SessionType, PlaceInv, Leaders, Services, Leaves
  <2>5. RowsInv'
    BY <2>2, <2>3, <2>4
       DEF RowsInv, PlaceInv, SessionType, ServiceRows, TaskRows, NoService, NoTask,
           Active, Outcomes
  <2>6. OwnerInv'
    BY <2>2, <2>3 DEF OwnerInv, SessionType, Leaders
  <2>7. PlaceInv'
    BY <2>2, <2>3, <2>4
       DEF PlaceInv, OwnerInv, RowsInv, SessionType, ServiceRows, TaskRows, NoService,
           NoTask, Active, Outcomes, Services, Leaves
  <2>8. \A l \in Leaves : TaskProgress(root[l], root'[l])
    BY <2>2, TaskSteps DEF SessionType
  <2>9. Progressed
    BY <2>1, <2>2, <2>3, <2>4, <2>8
       DEF Progressed, RowsInv, PlaceInv, OwnerInv, SessionType, ServiceRows, Active,
           NoService, Lost, Settling, Leaders
  <2>10. QED
    BY <2>4, <2>5, <2>6, <2>7, <2>9
<1>22. ASSUME NEW k \in Leaves, RecoverTask(k) PROVE Goal
  <2>1. UNCHANGED observer
    BY <1>22 DEF RecoverTask, Recovering
  <2>2. /\ owner # "live" /\ progress # "unpublished"
        /\ root[k].status # "none" /\ root[k].owned = "unresolved"
        /\ root' = [root EXCEPT ![k].owned = "settled",
                                ![k].status = IF root[k].status = "running" THEN "failed"
                                              ELSE root[k].status]
        /\ UNCHANGED <<pc, at, owner, progress, successor, service, leader>>
    BY <1>22 DEF RecoverTask, rows, Recovering
  <2>3. /\ root' \in [Leaves -> TaskRows]
        /\ root[k].status = "running" /\ root[k].owned = "unresolved"
        /\ root'[k].status = "failed" /\ root'[k].owned = "settled"
        /\ root'[k].capture = root[k].capture /\ root'[k].outcome = root[k].outcome
        /\ \A l \in Leaves \ {k} : root'[l] = root[l]
    BY <2>2
       DEF SessionType, RowsInv, OwnerInv, PlaceInv, ServiceRows, TaskRows, Active,
           Outcomes, Leaders, Services, Leaves, NoTask, NoService
  <2>4. SessionType'
    BY <2>2, <2>3 DEF SessionType, PlaceInv, Leaders, Services, Leaves
  <2>5. RowsInv'
    BY <2>2, <2>3, <2>4
       DEF RowsInv, PlaceInv, SessionType, ServiceRows, TaskRows, NoService, NoTask,
           Active, Outcomes
  <2>6. OwnerInv'
    BY <2>2, <2>3 DEF OwnerInv, SessionType, Leaders
  <2>7. PlaceInv'
    BY <2>2, <2>3, <2>4
       DEF PlaceInv, OwnerInv, RowsInv, SessionType, ServiceRows, TaskRows, NoService,
           NoTask, Active, Outcomes, Services, Leaves
  <2>8. \A l \in Leaves : TaskProgress(root[l], root'[l])
    BY <2>2, <2>3, TaskSteps
       DEF TaskProgress, Doomed, FailedTask, IncompleteTask, SuccessfulTask,
           SessionType, TaskRows, Outcomes, NoTask, PlaceInv
  <2>9. Progressed
    BY <2>1, <2>2, <2>3, <2>4, <2>8
       DEF Progressed, RowsInv, PlaceInv, OwnerInv, SessionType, ServiceRows, Active,
           NoService, Lost, Settling, Leaders
  <2>10. QED
    BY <2>4, <2>5, <2>6, <2>7, <2>9
<1>23. CASE Reuse
  <2>1. UNCHANGED observer
    BY <1>23 DEF Reuse
  <2>2. /\ UNCHANGED <<pc, at, progress, successor, service, root>>
        /\ \/ owner = "gone" /\ owner' = "reused" /\ UNCHANGED leader
           \/ \E i \in Services : /\ leader[i] = "gone" /\ UNCHANGED owner
                                  /\ leader' = [leader EXCEPT ![i] = "reused"]
    BY <1>23 DEF Reuse, rows
  <2>3. /\ leader' \in [Services -> Leaders \cup {"none"}]
        /\ owner' # owner => owner = "gone" /\ owner' = "reused"
        /\ \A i \in Services : leader'[i] # leader[i] => leader[i] = "gone" /\ leader'[i] = "reused"
    BY <2>2 DEF SessionType, Leaders
  <2>4. SessionType'
    BY <2>2, <2>3 DEF SessionType, PlaceInv, Leaders, Services, Leaves
  <2>5. RowsInv'
    BY <2>2, <2>3, <2>4
       DEF RowsInv, PlaceInv, SessionType, ServiceRows, TaskRows, NoService, NoTask,
           Active, Outcomes
  <2>6. OwnerInv'
    BY <2>2, <2>3 DEF OwnerInv, SessionType, Leaders
  <2>7. PlaceInv'
    BY <2>2, <2>3, <2>4
       DEF PlaceInv, OwnerInv, RowsInv, SessionType, ServiceRows, TaskRows, NoService,
           NoTask, Active, Outcomes, Services, Leaves
  <2>8. \A l \in Leaves : TaskProgress(root[l], root'[l])
    BY <2>2, TaskSteps DEF SessionType
  <2>9. Progressed
    BY <2>1, <2>2, <2>3, <2>4, <2>8
       DEF Progressed, RowsInv, PlaceInv, OwnerInv, SessionType, ServiceRows, Active,
           NoService, Lost, Settling, Leaders
  <2>10. QED
    BY <2>4, <2>5, <2>6, <2>7, <2>9
<1>24. ASSUME NEW i \in Services, Die(i) PROVE Goal
  <2>1. UNCHANGED observer
    BY <1>24 DEF Die
  <2>2. /\ UNCHANGED <<pc, at, owner, progress, successor, service, root>>
        /\ leader[i] = "live" /\ leader' = [leader EXCEPT ![i] = "gone"]
    BY <1>24 DEF Die, rows
  <2>3. /\ leader' \in [Services -> Leaders \cup {"none"}]
        /\ \A j \in Services : leader'[j] # leader[j] => leader[j] = "live" /\ leader'[j] = "gone"
    BY <1>24, <2>2 DEF SessionType, Leaders
  <2>4. SessionType'
    BY <2>2, <2>3 DEF SessionType, PlaceInv, Leaders, Services, Leaves
  <2>5. RowsInv'
    BY <2>2, <2>3, <2>4
       DEF RowsInv, PlaceInv, SessionType, ServiceRows, TaskRows, NoService, NoTask,
           Active, Outcomes
  <2>6. OwnerInv'
    BY <2>2, <2>3 DEF OwnerInv, SessionType, Leaders
  <2>7. PlaceInv'
    BY <2>2, <2>3, <2>4
       DEF PlaceInv, OwnerInv, RowsInv, SessionType, ServiceRows, TaskRows, NoService,
           NoTask, Active, Outcomes, Services, Leaves
  <2>8. \A l \in Leaves : TaskProgress(root[l], root'[l])
    BY <2>2, TaskSteps DEF SessionType
  <2>9. Progressed
    BY <2>1, <2>2, <2>3, <2>4, <2>8
       DEF Progressed, RowsInv, PlaceInv, OwnerInv, SessionType, ServiceRows, Active,
           NoService, Lost, Settling, Leaders
  <2>10. QED
    BY <2>4, <2>5, <2>6, <2>7, <2>9
<1>25. QED
  BY <1>1, <1>2, <1>3, <1>4, <1>5, <1>6, <1>7, <1>8, <1>9, <1>10, <1>11, <1>12, <1>13,
     <1>14, <1>15, <1>16, <1>17, <1>18, <1>19, <1>20, <1>21, <1>22, <1>23, <1>24
     DEF SessionStep, Drive, Recover

\* Steps of the observer leave the session as it is.
LEMMA SessionStays ==
  ASSUME SessionInv, UNCHANGED session
  PROVE  SessionInv' /\ (UNCHANGED observer => Progressed)
<1>1. UNCHANGED <<pc, at, progress, successor, service, root, owner, leader>>
  BY DEF session, rows
<1>2. SessionType' /\ RowsInv' /\ OwnerInv' /\ PlaceInv'
  BY <1>1 DEF SessionInv, SessionType, RowsInv, OwnerInv, PlaceInv
<1>3. \A l \in Leaves : TaskProgress(root[l], root'[l])
  BY <1>1 DEF TaskProgress
<1>4. QED
  BY <1>1, <1>2, <1>3 DEF SessionInv, Progressed

\* There is a least element in a set of naturals that is not empty.
LEMMA MinIsElement ==
  ASSUME NEW S \in SUBSET Nat, S # {}
  PROVE  Min(S) \in S
<1>1. \E i \in S : \A j \in S : <<j, i>> \notin OpToRel(<, Nat)
  BY NatLessThanWellFounded, WFMin
<1>2. ASSUME NEW i \in S, NEW j \in S, <<j, i>> \notin OpToRel(<, Nat)
      PROVE  i <= j
  BY <1>2 DEF OpToRel
<1>3. \E i \in S : \A j \in S : i <= j
  BY <1>1, <1>2
<1>4. QED
  BY <1>3, Zenon DEF Min

\* What the candidate or the samples say when a round is refused, and when it is not.
LEMMA ReasonIsFact ==
  ASSUME NEW c, NEW leaders, NEW reason, reason = Unavailable(c, leaders)
  PROVE  /\ reason = "ownerReplaced" => c.successor \/ leaders.owner = "reused"
         /\ reason = "ownerGone" => leaders.owner = "gone"
         /\ reason = "executionSettled" => c.progress # "executing"
         /\ reason \in {"taskFailed", "evidenceIncomplete"} => Doomed(c.task)
         /\ reason = "serviceSettled" =>
              \E i \in Recorded(c) : c.service[i].status \notin Active
         /\ reason = "serviceGone" => \E i \in Recorded(c) : leaders.service[i] = "gone"
         /\ reason = "serviceIdentityMismatch" =>
              \E i \in Recorded(c) : leaders.service[i] = "reused"
         /\ reason \in Reasons \cup {"none"}
         /\ reason = "none" =>
              /\ ~ c.successor
              /\ leaders.owner \notin Lost
              /\ c.progress = "executing"
              /\ ~ Doomed(c.task)
              /\ \A i \in Recorded(c) : c.service[i].status \in Active
              /\ (\A i \in Recorded(c) : leaders.service[i] \in Leaders) =>
                   \A i \in Recorded(c) : leaders.service[i] = "live"
<1> DEFINE lost == {i \in Recorded(c) : leaders.service[i] # "live"}
           facts == [
             ownerReplaced           |-> c.successor \/ leaders.owner = "reused",
             ownerGone               |-> leaders.owner = "gone",
             executionSettled        |-> c.progress # "executing",
             taskFailed              |-> FailedTask(c.task),
             evidenceIncomplete      |-> IncompleteTask(c.task),
             serviceSettled          |-> \E i \in Recorded(c) : c.service[i].status \notin Active,
             serviceGone             |-> lost # {} /\ leaders.service[Min(lost)] = "gone",
             serviceIdentityMismatch |-> lost # {} /\ leaders.service[Min(lost)] = "reused"]
           held == {n \in DOMAIN ReasonOrder : facts[ReasonOrder[n]]}
<1>1. reason = IF held = {} THEN "none" ELSE ReasonOrder[Min(held)]
  BY Zenon DEF Unavailable
<1>2. /\ DOMAIN ReasonOrder = 1..8
      /\ ReasonOrder[1] = "ownerReplaced" /\ ReasonOrder[2] = "ownerGone"
      /\ ReasonOrder[3] = "executionSettled" /\ ReasonOrder[4] = "taskFailed"
      /\ ReasonOrder[5] = "evidenceIncomplete" /\ ReasonOrder[6] = "serviceSettled"
      /\ ReasonOrder[7] = "serviceGone" /\ ReasonOrder[8] = "serviceIdentityMismatch"
  BY DEF ReasonOrder
<1>3. /\ facts["ownerReplaced"] <=> c.successor \/ leaders.owner = "reused"
      /\ facts["ownerGone"] <=> leaders.owner = "gone"
      /\ facts["executionSettled"] <=> c.progress # "executing"
      /\ facts["taskFailed"] <=> FailedTask(c.task)
      /\ facts["evidenceIncomplete"] <=> IncompleteTask(c.task)
      /\ facts["serviceSettled"] <=> \E i \in Recorded(c) : c.service[i].status \notin Active
      /\ facts["serviceGone"] <=> lost # {} /\ leaders.service[Min(lost)] = "gone"
      /\ facts["serviceIdentityMismatch"] <=> lost # {} /\ leaders.service[Min(lost)] = "reused"
  OBVIOUS
<1>4. lost \in SUBSET Nat /\ (lost # {} => Min(lost) \in lost)
  <2>1. lost \in SUBSET Nat
    BY ObservationAssumption DEF Recorded, Services
  <2> HIDE DEF lost
  <2>2. QED
    BY <2>1, MinIsElement
<1> HIDE DEF facts
<1>5. \A n \in 1..8 : n \in held <=> facts[ReasonOrder[n]]
  BY <1>2
<1>6. held \in SUBSET Nat /\ held \subseteq 1..8
  BY <1>2
<1> HIDE DEF held
<1>7. ASSUME held # {}
      PROVE  \E n \in 1..8 : reason = ReasonOrder[n] /\ facts[ReasonOrder[n]]
  <2>1. Min(held) \in held
    BY <1>6, <1>7, MinIsElement
  <2>2. QED
    BY <1>1, <1>5, <1>6, <1>7, <2>1
<1>8. ASSUME held = {}
      PROVE  \A n \in 1..8 : ~ facts[ReasonOrder[n]]
  BY <1>5, <1>8
<1>9. CASE held # {}
  <2>1. PICK n \in 1..8 : reason = ReasonOrder[n] /\ facts[ReasonOrder[n]]
    BY <1>7, <1>9
  <2>2. n \in {1, 2, 3, 4, 5, 6, 7, 8}
    OBVIOUS
  <2>3. \/ reason = "ownerReplaced" /\ facts["ownerReplaced"]
        \/ reason = "ownerGone" /\ facts["ownerGone"]
        \/ reason = "executionSettled" /\ facts["executionSettled"]
        \/ reason = "taskFailed" /\ facts["taskFailed"]
        \/ reason = "evidenceIncomplete" /\ facts["evidenceIncomplete"]
        \/ reason = "serviceSettled" /\ facts["serviceSettled"]
        \/ reason = "serviceGone" /\ facts["serviceGone"]
        \/ reason = "serviceIdentityMismatch" /\ facts["serviceIdentityMismatch"]
    <3>1. \/ reason = ReasonOrder[1] /\ facts[ReasonOrder[1]]
          \/ reason = ReasonOrder[2] /\ facts[ReasonOrder[2]]
          \/ reason = ReasonOrder[3] /\ facts[ReasonOrder[3]]
          \/ reason = ReasonOrder[4] /\ facts[ReasonOrder[4]]
          \/ reason = ReasonOrder[5] /\ facts[ReasonOrder[5]]
          \/ reason = ReasonOrder[6] /\ facts[ReasonOrder[6]]
          \/ reason = ReasonOrder[7] /\ facts[ReasonOrder[7]]
          \/ reason = ReasonOrder[8] /\ facts[ReasonOrder[8]]
      BY <2>1, <2>2
    <3>2. QED
      BY <1>2, <3>1
  <2>4. \/ reason = "ownerReplaced" /\ (c.successor \/ leaders.owner = "reused")
        \/ reason = "ownerGone" /\ leaders.owner = "gone"
        \/ reason = "executionSettled" /\ c.progress # "executing"
        \/ reason = "taskFailed" /\ FailedTask(c.task)
        \/ reason = "evidenceIncomplete" /\ IncompleteTask(c.task)
        \/ reason = "serviceSettled" /\ \E i \in Recorded(c) : c.service[i].status \notin Active
        \/ reason = "serviceGone" /\ \E i \in Recorded(c) : leaders.service[i] = "gone"
        \/ /\ reason = "serviceIdentityMismatch"
           /\ \E i \in Recorded(c) : leaders.service[i] = "reused"
    BY <1>3, <1>4, <2>3, Zenon
  <2>5. reason \in Reasons
    BY <1>2, <2>1, Zenon DEF Reasons
  <2>6. QED
    BY <2>4, <2>5 DEF Doomed
<1>10. CASE held = {}
  <2>1. reason = "none"
    BY <1>1, <1>10
  <2>2. /\ ~ facts["ownerReplaced"] /\ ~ facts["ownerGone"] /\ ~ facts["executionSettled"]
        /\ ~ facts["taskFailed"] /\ ~ facts["evidenceIncomplete"]
        /\ ~ facts["serviceSettled"] /\ ~ facts["serviceGone"]
        /\ ~ facts["serviceIdentityMismatch"]
    <3>1. \A n \in 1..8 : ~ facts[ReasonOrder[n]]
      BY <1>8, <1>10
    <3>2. /\ 1 \in 1..8 /\ 2 \in 1..8 /\ 3 \in 1..8 /\ 4 \in 1..8
          /\ 5 \in 1..8 /\ 6 \in 1..8 /\ 7 \in 1..8 /\ 8 \in 1..8
      OBVIOUS
    <3>3. QED
      BY <1>2, <3>1, <3>2, Zenon
  <2>3. /\ ~ (c.successor \/ leaders.owner = "reused") /\ leaders.owner # "gone"
        /\ c.progress = "executing" /\ ~ FailedTask(c.task) /\ ~ IncompleteTask(c.task)
        /\ \A i \in Recorded(c) : c.service[i].status \in Active
        /\ lost # {} => leaders.service[Min(lost)] \notin Lost
    BY <1>3, <2>2, Zenon DEF Lost
  <2>4. ASSUME \A i \in Recorded(c) : leaders.service[i] \in Leaders
        PROVE  \A i \in Recorded(c) : leaders.service[i] = "live"
    BY <1>4, <2>3, <2>4 DEF Leaders, Lost
  <2>5. QED
    BY <2>1, <2>3, <2>4 DEF Doomed, Lost
<1>11. QED
  BY <1>9, <1>10

\* What the program writes never contradicts itself.
LEMMA SessionIsConsistent == SessionInv => ~ Contradictory
<1> SUFFICES ASSUME SessionInv PROVE ~ Contradictory
  OBVIOUS
<1>1. RowsInv /\ SessionType
  BY DEF SessionInv
<1>2. \A i \in Services : ~ (service[i].owned = "settled" /\ service[i].status \in Active)
  BY <1>1 DEF RowsInv, Active
<1>3. ASSUME NEW l \in Leaves
      PROVE  /\ ~ (root[l].owned = "settled" /\ root[l].status = "running")
             /\ ~ (root[l].status = "succeeded" /\ root[l].capture = "pending")
             /\ ~ (root[l].status = "succeeded"
                     /\ root[l].outcome \notin {"none", "succeeded"})
  BY <1>1 DEF RowsInv, Outcomes
<1>4. ASSUME NEW l \in Leaves, root[l].status # "none" PROVE Recorded(Snapshot) = Services
  <2>1. Snapshot.service = service
    BY DEF Snapshot
  <2>2. \A i \in Services : service[i].status # "none"
    BY <1>1, <1>4 DEF RowsInv
  <2>3. QED
    BY <2>1, <2>2 DEF Recorded
<1>5. QED
  BY <1>2, <1>3, <1>4 DEF Contradictory

\* The session changes nothing that a round or an answer has claimed.
LEMMA SessionKeepsRound ==
  SessionInv /\ SessionInv' /\ RoundInv /\ Progressed => RoundInv'
<1> SUFFICES ASSUME SessionInv, SessionInv', RoundInv, Progressed PROVE RoundInv'
  OBVIOUS
<1> USE ObservationAssumption
<1>1. /\ ObserverType /\ PhaseInv /\ CandidateInv /\ SampleInv /\ VerdictInv /\ OverdueInv
      /\ SessionType /\ SessionType'
  BY DEF RoundInv, SessionInv
<1>2. UNCHANGED <<phase, candidate, sampled, verdict, confirmed, overdue>>
  BY DEF Progressed, observer
<1>3. /\ Doomed(root[Step]) => Doomed(root'[Step])
      /\ SuccessfulTask(root[Step]) => root'[Step] = root[Step]
  BY DEF Progressed, TaskProgress
<1>4. Recorded(candidate)' = Recorded(candidate) /\ Recorded(candidate) \subseteq Services
  BY <1>2 DEF Recorded
<1>5. ObserverType'
  BY <1>1, <1>2 DEF ObserverType
<1>6. PhaseInv'
  <2>1. Ready(candidate)' = Ready(candidate)
    BY <1>2 DEF Ready, SuccessfulTask
  <2>2. QED
    BY <1>1, <1>2, <1>4, <2>1 DEF PhaseInv, Progressed, NoSample
<1>7. CandidateInv'
  <2>1. /\ Doomed(root[Step])' <=> Doomed(root'[Step])
        /\ Doomed(candidate.task)' <=> Doomed(candidate.task)
        /\ SuccessfulTask(candidate.task)' <=> SuccessfulTask(candidate.task)
    BY <1>2 DEF Doomed, FailedTask, IncompleteTask, SuccessfulTask
  <2>2. ASSUME phase \in Rounds, SuccessfulTask(candidate.task)
        PROVE  root'[Step] = candidate.task
    BY <1>1, <1>3, <2>2 DEF CandidateInv
  <2>3. QED
    BY <1>1, <1>2, <1>3, <2>1, <2>2 DEF CandidateInv, Progressed
<1>8. SampleInv'
  BY <1>1, <1>2 DEF SampleInv, Progressed
<1>9. VerdictInv'
  <2>1. Doomed(root[Step])' <=> Doomed(root'[Step])
    BY DEF Doomed, FailedTask, IncompleteTask, SuccessfulTask
  <2>2. owner # "live" => owner \in Lost
    BY <1>1 DEF SessionType, Leaders, Lost
  <2>3. QED
    BY <1>1, <1>2, <1>3, <2>1, <2>2 DEF VerdictInv, Justified, Progressed, Lost
<1>10. OverdueInv'
  BY <1>1, <1>2, <1>4 DEF OverdueInv, Progressed, Lost, SessionType, Leaders
<1>11. QED
  BY <1>5, <1>6, <1>7, <1>8, <1>9, <1>10 DEF RoundInv

\* A justified answer ends the round.
LEMMA AnswerKeepsRound ==
  ASSUME SessionInv, UNCHANGED session, NEW answer, Answer(answer), Justified(answer),
         answer \in Reasons \cup {"absent", "elsewhere", "satisfied", "expired"}
  PROVE  RoundInv'
<1>1. /\ phase' = "done" /\ verdict' = answer /\ candidate' = NoCandidate
      /\ sampled' = NoSample /\ confirmed' = {} /\ overdue' = FALSE
  BY DEF Answer
<1>2. /\ NoService \in ServiceRows /\ NoTask \in TaskRows
  BY DEF NoService, ServiceRows, NoTask, TaskRows
<1>3. ObserverType'
  BY <1>1, <1>2 DEF ObserverType, NoCandidate, NoSample
<1>4. PhaseInv' /\ CandidateInv' /\ OverdueInv'
  BY <1>1 DEF PhaseInv, CandidateInv, OverdueInv, Rounds, Sampled
<1>5. SampleInv'
  BY <1>1 DEF SampleInv, NoSample, Lost
<1>6. VerdictInv'
  BY <1>1 DEF VerdictInv, Justified, session, rows, Doomed, FailedTask, IncompleteTask,
       SuccessfulTask
<1>7. QED
  BY <1>3, <1>4, <1>5, <1>6 DEF RoundInv

\* The steps of the observer.
LEMMA ObserverSteps == SessionInv /\ RoundInv /\ (Observe \/ Expire) => RoundInv'
<1> SUFFICES ASSUME SessionInv, RoundInv, Observe \/ Expire PROVE RoundInv'
  OBVIOUS
<1> USE ObservationAssumption
<1>1. /\ ObserverType /\ PhaseInv /\ CandidateInv /\ SampleInv /\ VerdictInv /\ OverdueInv
      /\ SessionType /\ RowsInv /\ OwnerInv
  BY DEF RoundInv, SessionInv
<1>2. UNCHANGED session
  BY DEF Observe, Expire, Select, Read, SampleOwner, SampleService, Decide, Confirm,
       Resample, Reading
<1>3. UNCHANGED <<pc, at, progress, successor, service, root, owner, leader>>
  BY <1>2 DEF session, rows
<1>4. \A answer \in {"absent", "elsewhere", "satisfied", "expired"} : Justified(answer)
  BY DEF Justified
<1>5. ASSUME NEW answer \in {"absent", "elsewhere", "satisfied", "expired"}, Answer(answer)
      PROVE  RoundInv'
  BY <1>2, <1>4, <1>5, AnswerKeepsRound
<1>6. ASSUME NEW answer \in Reasons, Justified(answer), Answer(answer) PROVE RoundInv'
  BY <1>2, <1>6, AnswerKeepsRound
<1>7. Recorded(candidate) \subseteq Services /\ Services \in SUBSET Nat
  BY DEF Recorded, Services
<1>8. ASSUME phase' \in {"read", "fresh", "resample"}, UNCHANGED <<candidate, sampled>>
      PROVE  /\ Recorded(candidate)' = Recorded(candidate)
             /\ Ready(candidate)' = Ready(candidate)
  BY <1>8 DEF Recorded, Ready, SuccessfulTask
<1>9. CASE Select
  <2>1. CASE \E answer \in {"absent", "elsewhere"} : Answer(answer)
    BY <1>5, <2>1
  <2>2. CASE /\ phase = "select" /\ phase' = "read" /\ progress # "unpublished"
             /\ UNCHANGED <<candidate, sampled, verdict, confirmed, overdue>>
    <3>1. ObserverType'
      BY <1>1, <2>2 DEF ObserverType, Rounds
    <3>2. PhaseInv'
      BY <1>1, <1>3, <2>2 DEF PhaseInv, Sampled, NoSample
    <3>3. CandidateInv'
      BY <2>2 DEF CandidateInv, Rounds
    <3>4. SampleInv'
      BY <1>1, <1>3, <2>2 DEF SampleInv
    <3>5. VerdictInv'
      BY <1>1, <1>3, <2>2 DEF PhaseInv, VerdictInv, Justified
    <3>6. OverdueInv'
      BY <1>1, <2>2 DEF PhaseInv, OverdueInv
    <3>7. QED
      BY <3>1, <3>2, <3>3, <3>4, <3>5, <3>6 DEF RoundInv
  <2>3. QED
    BY <1>9, <2>1, <2>2, Zenon DEF Select, Reading
<1>10. CASE Read
  <2>1. /\ phase = "read" /\ phase' = "owner" /\ candidate' = Snapshot /\ overdue' = Decided
        /\ UNCHANGED <<sampled, verdict, confirmed>>
    BY <1>10, SessionIsConsistent, Zenon DEF Read, Reading
  <2>2. /\ candidate'.progress = progress /\ candidate'.successor = successor
        /\ candidate'.service = service /\ candidate'.task = root[Step]
        /\ candidate' \in [progress : {"unpublished", "executing", "finalizing", "finalized"},
                           successor : BOOLEAN,
                           service : [Services -> ServiceRows],
                           task : TaskRows]
    BY <1>1, <2>1 DEF Snapshot, SessionType
  <2>3. sampled' = NoSample /\ verdict' = "none" /\ progress # "unpublished"
    BY <1>1, <2>1 DEF PhaseInv
  <2>4. /\ sampled'.owner = "none" /\ \A i \in Services : sampled'.service[i] = "none"
    BY <2>3 DEF NoSample
  <2>5. ObserverType'
    <3>1. Decided \in BOOLEAN
      BY DEF Decided
    <3>2. QED
      BY <1>1, <2>1, <2>2, <3>1 DEF ObserverType, Rounds
  <2>6. PhaseInv'
    BY <1>3, <2>1, <2>3 DEF PhaseInv, Sampled, NoSample
  <2>7. CandidateInv'
    <3>1. /\ root[Step].owned = "settled" <=> root[Step].status \in Outcomes
          /\ root[Step].status # "none" =>
               \A i \in Services : service[i].status \in {"ready", "ended"}
      BY <1>1 DEF RowsInv
    <3>2. QED
      BY <1>1, <1>3, <2>2, <2>3, <3>1 DEF CandidateInv
  <2>8. SampleInv'
    BY <2>4 DEF SampleInv, Lost
  <2>9. VerdictInv'
    BY <2>3 DEF VerdictInv, Justified
  <2>10. OverdueInv'
    <3>1. ASSUME NEW i \in Services, leader[i] \in Lost PROVE i \in Recorded(candidate')
      BY <1>1, <2>2, <3>1 DEF Recorded, RowsInv, Lost
    <3>2. QED
      BY <1>3, <2>1, <2>2, <2>4, <3>1 DEF OverdueInv, Decided, Lost, Settling
  <2>11. QED
    BY <2>5, <2>6, <2>7, <2>8, <2>9, <2>10 DEF RoundInv
<1>11. CASE SampleOwner
  <2>1. /\ phase = "owner" /\ sampled' = [sampled EXCEPT !.owner = owner]
        /\ phase' = IF Recorded(candidate) = {} THEN "decide" ELSE "service"
        /\ UNCHANGED <<candidate, verdict, confirmed, overdue>>
    BY <1>11 DEF SampleOwner, Reading
  <2>2. /\ sampled' \in [owner : Leaders \cup {"none"},
                         service : [Services -> Leaders \cup {"none"}]]
        /\ sampled'.owner = owner /\ owner \in Leaders
        /\ \A i \in Services : sampled'.service[i] = "none" /\ sampled.service[i] = "none"
    BY <1>1, <2>1 DEF ObserverType, PhaseInv, SessionType, NoSample
  <2>3. Recorded(candidate)' = Recorded(candidate)
    BY <2>1 DEF Recorded
  <2>4. ObserverType'
    BY <1>1, <2>1, <2>2 DEF ObserverType, Rounds
  <2>5. PhaseInv'
    BY <1>1, <1>3, <1>7, <2>1, <2>2, <2>3 DEF PhaseInv, Sampled, Leaders
  <2>6. CandidateInv'
    BY <1>1, <1>3, <2>1 DEF CandidateInv, Rounds, Doomed, FailedTask, IncompleteTask,
         SuccessfulTask
  <2>7. SampleInv'
    BY <1>3, <2>2 DEF SampleInv, Lost, Leaders
  <2>8. VerdictInv'
    BY <1>1, <2>1 DEF PhaseInv, VerdictInv, Justified
  <2>9. OverdueInv'
    BY <1>1, <1>3, <1>7, <2>1, <2>2, <2>3 DEF OverdueInv
  <2>10. QED
    BY <2>4, <2>5, <2>6, <2>7, <2>8, <2>9 DEF RoundInv
<1>12. CASE SampleService
  <2> DEFINE unsampled == {i \in Recorded(candidate) : sampled.service[i] = "none"}
  <2>1. unsampled # {} /\ unsampled \in SUBSET Nat /\ phase = "service"
    BY <1>1, <1>7, <1>12 DEF SampleService, Reading, PhaseInv
  <2>2. PICK i : i = Min(unsampled)
    OBVIOUS
  <2>3. i \in unsampled
    BY <2>1, <2>2, MinIsElement
  <2>4. i \in Services /\ i \in Recorded(candidate) /\ sampled.service[i] = "none"
    BY <1>7, <2>3
  <2>5. /\ sampled' = [sampled EXCEPT !.service[i] = leader[i]]
        /\ phase' = IF unsampled = {i} THEN "decide" ELSE "service"
        /\ confirmed' = IF leader[i] = "live" /\ SuccessfulTask(root[Step])
                          THEN confirmed \cup {i} ELSE confirmed
        /\ UNCHANGED <<candidate, verdict, overdue>>
    BY <1>12, <2>2, Zenon DEF SampleService
  <2>6. leader[i] \in Leaders
    BY <1>1, <2>1, <2>4 DEF SessionType, RowsInv, CandidateInv, Rounds, Recorded
  <2>7. /\ sampled' \in [owner : Leaders \cup {"none"},
                         service : [Services -> Leaders \cup {"none"}]]
        /\ sampled'.owner = sampled.owner /\ sampled'.service[i] = leader[i]
        /\ \A j \in Services \ {i} : sampled'.service[j] = sampled.service[j]
    BY <1>1, <2>4, <2>5, <2>6 DEF ObserverType
  <2>8. /\ unsampled = {i} =>
             phase' = "decide" /\ \A j \in Recorded(candidate) : sampled'.service[j] # "none"
        /\ unsampled # {i} =>
             phase' = "service" /\ \E j \in Recorded(candidate) : sampled'.service[j] = "none"
    BY <1>7, <2>3, <2>5, <2>6, <2>7 DEF Leaders
  <2> HIDE DEF unsampled
  <2>9. Recorded(candidate)' = Recorded(candidate)
    BY <2>5 DEF Recorded
  <2>10. ObserverType'
    BY <1>1, <2>4, <2>5, <2>7, <2>8 DEF ObserverType, Rounds
  <2>11. PhaseInv'
    BY <1>1, <1>3, <2>1, <2>5, <2>7, <2>8, <2>9 DEF PhaseInv, Sampled
  <2>12. CandidateInv'
    BY <1>1, <1>3, <2>1, <2>5, <2>8 DEF CandidateInv, Rounds, Doomed, FailedTask,
         IncompleteTask, SuccessfulTask
  <2>13. SampleInv'
    <3>1. SuccessfulTask(candidate.task) /\ leader[i] = "live" => i \in confirmed'
      BY <1>1, <2>1, <2>5 DEF CandidateInv, Rounds
    <3>2. confirmed \subseteq confirmed'
      BY <2>5
    <3>3. SuccessfulTask(candidate.task)' = SuccessfulTask(candidate.task)
      BY <2>5 DEF SuccessfulTask
    <3>4. QED
      BY <1>1, <1>3, <2>4, <2>7, <3>1, <3>2, <3>3 DEF SampleInv
  <2>14. VerdictInv'
    BY <1>1, <2>1, <2>5 DEF PhaseInv, VerdictInv, Justified
  <2>15. OverdueInv'
    BY <1>1, <1>3, <1>7, <2>4, <2>5, <2>7, <2>9 DEF OverdueInv, Lost
  <2>16. QED
    BY <2>10, <2>11, <2>12, <2>13, <2>14, <2>15 DEF RoundInv
<1>13. CASE Decide
  <2>1. PICK reason : reason = Unavailable(candidate, sampled)
    OBVIOUS
  <2>2. /\ phase = "decide"
        /\ \/ reason # "none" /\ Answer(reason)
           \/ /\ reason = "none" /\ Ready(candidate) /\ phase' = "fresh"
              /\ UNCHANGED <<candidate, sampled, verdict, confirmed, overdue>>
           \/ /\ phase' = "read" /\ candidate' = NoCandidate
              /\ sampled' = NoSample /\ confirmed' = {} /\ overdue' = FALSE
              /\ UNCHANGED verdict
    BY <1>13, <2>1, Zenon DEF Decide, Reading
  <2>3. CASE reason # "none" /\ Answer(reason)
    <3>1. reason \in Reasons
      BY <2>1, <2>3, ReasonIsFact
    <3>2. Justified(reason)
      <4>1. /\ candidate.successor => successor
            /\ candidate.progress # "unpublished"
            /\ candidate.progress \in {"unpublished", "executing"} \cup Settling
            /\ candidate.progress \in Settling => progress \in Settling
            /\ Doomed(candidate.task) => Doomed(root[Step])
            /\ \A i \in Recorded(candidate) :
                 candidate.service[i].status \notin Active => service[i].status = "ended"
        BY <1>1, <1>7, <2>2
           DEF CandidateInv, Rounds, ObserverType, Settling, Recorded, ServiceRows
      <4>2. /\ sampled.owner = "reused" => owner = "reused"
            /\ sampled.owner = "gone" => owner # "live"
            /\ \A i \in Recorded(candidate) :
                 /\ sampled.service[i] = "gone" => leader[i] \in Lost
                 /\ sampled.service[i] = "reused" => leader[i] = "reused"
        BY <1>1, <1>7 DEF SampleInv, Lost
      <4>3. reason # "corrupt"
        BY <3>1 DEF Reasons, ReasonOrder
      <4>4. /\ reason = "ownerReplaced" => candidate.successor \/ sampled.owner = "reused"
            /\ reason = "ownerGone" => sampled.owner = "gone"
            /\ reason = "executionSettled" => candidate.progress # "executing"
            /\ reason \in {"taskFailed", "evidenceIncomplete"} => Doomed(candidate.task)
            /\ reason = "serviceSettled" =>
                 \E i \in Recorded(candidate) : candidate.service[i].status \notin Active
            /\ reason = "serviceGone" => \E i \in Recorded(candidate) : sampled.service[i] = "gone"
            /\ reason = "serviceIdentityMismatch" =>
                 \E i \in Recorded(candidate) : sampled.service[i] = "reused"
        BY <2>1, ReasonIsFact, Zenon
      <4>5. QED
        BY <1>7, <4>1, <4>2, <4>3, <4>4 DEF Justified
    <3>3. QED
      BY <1>6, <2>3, <3>1, <3>2
  <2>4. CASE /\ reason = "none" /\ Ready(candidate) /\ phase' = "fresh"
             /\ UNCHANGED <<candidate, sampled, verdict, confirmed, overdue>>
    <3>1. Recorded(candidate) = Services
      BY <2>4 DEF Ready, Recorded
    <3>2. \A i \in Services : sampled.service[i] \in Leaders
      BY <1>1, <2>2, <3>1 DEF PhaseInv, Sampled, ObserverType
    <3>3. \A i \in Services : sampled.service[i] = "live"
      BY <2>1, <2>4, <3>1, <3>2, ReasonIsFact
    <3>4. Ready(candidate)' /\ Recorded(candidate)' = Services
      BY <1>8, <2>4, <3>1
    <3>5. ObserverType'
      BY <1>1, <2>4 DEF ObserverType, Rounds
    <3>6. PhaseInv'
      BY <1>1, <1>3, <2>2, <2>4, <3>2, <3>3, <3>4 DEF PhaseInv, Sampled, Leaders
    <3>7. CandidateInv'
      BY <1>1, <1>3, <2>2, <2>4 DEF CandidateInv, Rounds, Doomed, FailedTask,
           IncompleteTask, SuccessfulTask
    <3>8. SampleInv' /\ VerdictInv'
      BY <1>1, <1>3, <2>2, <2>4 DEF SampleInv, PhaseInv, VerdictInv, Justified,
           SuccessfulTask
    <3>9. OverdueInv'
      BY <1>1, <1>3, <2>4, <3>1, <3>4 DEF OverdueInv
    <3>10. QED
      BY <3>5, <3>6, <3>7, <3>8, <3>9 DEF RoundInv
  <2>5. CASE /\ phase' = "read" /\ candidate' = NoCandidate
             /\ sampled' = NoSample /\ confirmed' = {} /\ overdue' = FALSE
             /\ UNCHANGED verdict
    <3>1. NoService \in ServiceRows /\ NoTask \in TaskRows
      BY DEF NoService, ServiceRows, NoTask, TaskRows
    <3>2. ObserverType'
      BY <1>1, <2>5, <3>1 DEF ObserverType, NoCandidate, NoSample
    <3>3. PhaseInv'
      BY <1>1, <1>3, <2>2, <2>5 DEF PhaseInv, Sampled
    <3>4. CandidateInv' /\ OverdueInv'
      BY <2>5 DEF CandidateInv, OverdueInv, Rounds
    <3>5. SampleInv'
      BY <2>5 DEF SampleInv, NoSample, Lost
    <3>6. VerdictInv'
      BY <1>1, <2>2, <2>5 DEF PhaseInv, VerdictInv, Justified
    <3>7. QED
      BY <3>2, <3>3, <3>4, <3>5, <3>6 DEF RoundInv
  <2>6. QED
    BY <2>2, <2>3, <2>4, <2>5
<1>14. CASE Confirm
  <2>1. PICK reason : reason = Unavailable(Snapshot, sampled)
    OBVIOUS
  <2>2. phase = "fresh" /\ Ready(candidate)
    BY <1>1, <1>14 DEF Confirm, Reading, PhaseInv
  <2>3. /\ Snapshot.progress = progress /\ Snapshot.successor = successor
        /\ Snapshot.service = service /\ Snapshot.task = root[Step]
    BY DEF Snapshot
  <2>4. /\ Recorded(candidate) = Services /\ Recorded(Snapshot) = Services
        /\ root[Step] = candidate.task
        /\ \A i \in Services : service[i].status \in {"ready", "ended"}
    BY <1>1, <2>2, <2>3 DEF CandidateInv, Rounds, Ready, Recorded
  <2>5. /\ reason # "none" => Answer(reason)
        /\ reason = "none" =>
             IF \E i \in Services : service[i].status # "ready" THEN Answer("corrupt")
             ELSE phase' = "resample" /\ UNCHANGED <<candidate, sampled, verdict, confirmed,
                                                     overdue>>
    <3>1. ~ (\/ Contradictory
             \/ Recorded(Snapshot) # Recorded(candidate)
             \/ root[Step] # candidate.task)
      BY <2>4, SessionIsConsistent
    <3>2. QED
      BY <1>14, <2>1, <3>1, Zenon DEF Confirm
  <2>6. CASE reason # "none"
    <3>1. reason \in Reasons
      BY <2>1, <2>6, ReasonIsFact
    <3>2. Justified(reason)
      <4>1. progress # "unpublished"
        BY <1>1, <2>2 DEF PhaseInv
      <4>2. /\ sampled.owner = "reused" => owner = "reused"
            /\ sampled.owner = "gone" => owner # "live"
            /\ \A i \in Services :
                 /\ sampled.service[i] = "gone" => leader[i] \in Lost
                 /\ sampled.service[i] = "reused" => leader[i] = "reused"
        BY <1>1 DEF SampleInv, Lost
      <4>3. reason # "corrupt"
        BY <3>1 DEF Reasons, ReasonOrder
      <4>4. progress # "executing" => progress \in Settling
        BY <1>1, <4>1 DEF SessionType, Settling
      <4>5. \A i \in Services : service[i].status \notin Active => service[i].status = "ended"
        BY <2>4 DEF Active
      <4>6. /\ reason = "ownerReplaced" => Snapshot.successor \/ sampled.owner = "reused"
            /\ reason = "ownerGone" => sampled.owner = "gone"
            /\ reason = "executionSettled" => Snapshot.progress # "executing"
            /\ reason \in {"taskFailed", "evidenceIncomplete"} => Doomed(Snapshot.task)
            /\ reason = "serviceSettled" =>
                 \E i \in Recorded(Snapshot) : Snapshot.service[i].status \notin Active
            /\ reason = "serviceGone" => \E i \in Recorded(Snapshot) : sampled.service[i] = "gone"
            /\ reason = "serviceIdentityMismatch" =>
                 \E i \in Recorded(Snapshot) : sampled.service[i] = "reused"
        BY <2>1, ReasonIsFact, Zenon
      <4>7. QED
        BY <2>3, <2>4, <4>2, <4>3, <4>4, <4>5, <4>6 DEF Justified
    <3>3. QED
      BY <1>6, <2>5, <2>6, <3>1, <3>2
  <2>7. CASE reason = "none"
    <3>1. \A i \in Services : service[i].status = "ready"
      <4>1. \A i \in Recorded(Snapshot) : Snapshot.service[i].status \in Active
        BY <2>1, <2>7, ReasonIsFact, Zenon
      <4>2. QED
        BY <2>3, <2>4, <4>1 DEF Active
    <3>2. phase' = "resample" /\ UNCHANGED <<candidate, sampled, verdict, confirmed, overdue>>
      BY <2>5, <2>7, <3>1
    <3>3. Ready(candidate)' /\ Recorded(candidate)' = Recorded(candidate)
      BY <1>8, <2>2, <3>2
    <3>4. ObserverType'
      BY <1>1, <3>2 DEF ObserverType, Rounds
    <3>5. PhaseInv'
      BY <1>1, <1>3, <2>2, <3>2, <3>3 DEF PhaseInv, Sampled
    <3>6. CandidateInv'
      BY <1>1, <1>3, <2>2, <3>2 DEF CandidateInv, Rounds, Doomed, FailedTask,
           IncompleteTask, SuccessfulTask
    <3>7. SampleInv' /\ VerdictInv'
      BY <1>1, <1>3, <2>2, <3>2 DEF SampleInv, PhaseInv, VerdictInv, Justified,
           SuccessfulTask
    <3>8. OverdueInv'
      BY <1>1, <1>3, <3>2, <3>3 DEF OverdueInv
    <3>9. QED
      BY <3>4, <3>5, <3>6, <3>7, <3>8 DEF RoundInv
  <2>8. QED
    BY <2>6, <2>7
<1>15. CASE Resample
  <2>1. owner \in Leaders
    BY <1>1 DEF SessionType
  <2>2. /\ owner = "live" => Answer("satisfied")
        /\ owner = "gone" => Answer("ownerGone")
        /\ owner = "reused" => Answer("ownerReplaced")
    BY <1>15, <2>1 DEF Resample, Leaders
  <2>3. /\ owner = "gone" => Justified("ownerGone")
        /\ owner = "reused" => Justified("ownerReplaced")
    BY DEF Justified
  <2>4. "ownerGone" \in Reasons /\ "ownerReplaced" \in Reasons
    BY DEF Reasons, ReasonOrder
  <2>5. QED
    BY <1>5, <1>6, <2>1, <2>2, <2>3, <2>4 DEF Leaders
<1>16. CASE Expire
  BY <1>5, <1>16 DEF Expire
<1>17. QED
  BY <1>9, <1>10, <1>11, <1>12, <1>13, <1>14, <1>15, <1>16 DEF Observe

-----------------------------------------------------------------------------
(* The theorems.                                                           *)

\* The steps of an observation are those of the session and those of the observer.
LEMMA NextSteps ==
  ASSUME Next
  PROVE  SessionStep \/ Observe \/ Expire
  BY DEF Next, SessionStep

\* The invariant of the session and of the rounds over it holds in every behaviour.
THEOREM ObservationInvariance == Spec => []ObservationInv
<1>1. Init => ObservationInv
  <2> SUFFICES ASSUME Init PROVE ObservationInv
    OBVIOUS
  <2> USE ObservationAssumption
  <2>1. /\ NoService \in ServiceRows /\ NoTask \in TaskRows
        /\ NoService.status = "none" /\ NoService.owned = "unresolved"
        /\ NoTask.status = "none" /\ NoTask.owned = "unresolved"
    BY DEF NoService, ServiceRows, NoTask, TaskRows
  <2>2. /\ pc = "publish" /\ at = 1 /\ progress = "unpublished" /\ successor = FALSE
        /\ owner = "live" /\ phase = "select" /\ candidate = NoCandidate
        /\ sampled = NoSample /\ verdict = "none" /\ confirmed = {} /\ overdue = FALSE
        /\ service \in [Services -> ServiceRows] /\ root \in [Leaves -> TaskRows]
        /\ leader \in [Services -> Leaders \cup {"none"}]
        /\ \A i \in Services : service[i] = NoService /\ leader[i] = "none"
        /\ \A l \in Leaves : root[l] = NoTask
    BY <2>1 DEF Init
  <2>3. SessionType
    BY <2>2 DEF SessionType, Leaders
  <2>4. RowsInv
    BY <2>1, <2>2 DEF RowsInv, Outcomes
  <2>5. OwnerInv /\ PlaceInv
    BY <2>2 DEF OwnerInv, PlaceInv
  <2>6. ObserverType
    BY <2>1, <2>2 DEF ObserverType, NoCandidate, NoSample
  <2>7. PhaseInv /\ CandidateInv /\ VerdictInv /\ OverdueInv
    BY <2>2 DEF PhaseInv, CandidateInv, VerdictInv, Justified, OverdueInv, Sampled, Rounds
  <2>8. SampleInv
    BY <2>2 DEF SampleInv, NoSample, Lost
  <2>9. QED
    BY <2>3, <2>4, <2>5, <2>6, <2>7, <2>8 DEF ObservationInv, SessionInv, RoundInv
<1>2. ObservationInv /\ [Next]_vars => ObservationInv'
  <2> SUFFICES ASSUME ObservationInv, [Next]_vars PROVE ObservationInv'
    OBVIOUS
  <2>1. SessionInv /\ RoundInv
    BY DEF ObservationInv
  <2>2. CASE SessionStep
    BY <2>1, <2>2, SessionSteps, SessionKeepsRound DEF ObservationInv
  <2>3. CASE Observe \/ Expire
    <3>1. UNCHANGED session
      BY <2>3
         DEF Observe, Expire, Select, Read, SampleOwner, SampleService, Decide, Confirm,
           Resample, Reading
    <3>2. SessionInv'
      BY <2>1, <3>1, SessionStays
    <3>3. QED
      BY <2>1, <2>3, <3>2, ObserverSteps DEF ObservationInv
  <2>4. CASE UNCHANGED vars
    <3>1. UNCHANGED session /\ UNCHANGED observer
      BY <2>4 DEF vars
    <3>2. SessionInv' /\ Progressed
      BY <2>1, <3>1, SessionStays
    <3>3. QED
      BY <2>1, <3>2, SessionKeepsRound DEF ObservationInv
  <2>5. QED
    BY <2>2, <2>3, <2>4, NextSteps
<1>3. QED
  BY <1>1, <1>2, PTL DEF Spec

\* Every variable keeps its type.
THEOREM ObservationTypes == Spec => []TypeOK
<1>1. ObservationInv => TypeOK
  BY DEF ObservationInv, SessionInv, RoundInv, SessionType, ObserverType, Rounds, TypeOK
<1>2. QED
  BY <1>1, ObservationInvariance, PTL

\* A refusal names a fact of the session that no later step takes back.
THEOREM RefusalsAreFacts == Spec => []RefusalStands
<1>1. ObservationInv => RefusalStands
  <2> SUFFICES ASSUME ObservationInv PROVE RefusalStands
    OBVIOUS
  <2>1. Justified(verdict)
    BY DEF ObservationInv, RoundInv, VerdictInv
  <2>2. Doomed(root[Step]) => root[Step] # NoTask /\ ~ SuccessfulTask(root[Step])
    BY DEF Doomed, FailedTask, IncompleteTask, SuccessfulTask, NoTask
  <2>3. QED
    BY <2>1, <2>2 DEF Justified, RefusalStands, Settling, Lost, Active
<1>2. QED
  BY <1>1, ObservationInvariance, PTL

\* Nothing that the program writes is taken for corruption.
THEOREM HonestRunsAreBelieved == Spec => []HonestIsNotCorrupt
<1>1. ObservationInv => HonestIsNotCorrupt
  BY DEF ObservationInv, RoundInv, VerdictInv, Justified, HonestIsNotCorrupt
<1>2. QED
  BY <1>1, ObservationInvariance, PTL

\* A satisfied await is true of the session at the step that says so.
THEOREM SatisfactionIsTrue == Spec => SatisfiedIsTrue
<1> DEFINE True == verdict' = "satisfied" /\ verdict # "satisfied" =>
                     /\ owner = "live" /\ ~successor
                     /\ SuccessfulTask(root[Step])
                     /\ confirmed = Services
<1>1. ObservationInv /\ [Next]_vars => [True]_vars
  <2> SUFFICES ASSUME ObservationInv, Next, verdict' = "satisfied", verdict # "satisfied"
               PROVE  /\ owner = "live" /\ ~successor
                      /\ SuccessfulTask(root[Step])
                      /\ confirmed = Services
    OBVIOUS
  <2>1. /\ OwnerInv /\ ObserverType /\ PhaseInv /\ CandidateInv /\ SampleInv
        /\ owner \in Leaders
    BY DEF ObservationInv, SessionInv, SessionType, RoundInv
  <2>2. ~ SessionStep
    BY SessionSteps DEF ObservationInv, Progressed, observer
  <2>3. ~ Expire
    BY DEF Expire, Answer
  <2>4. ~ (Select \/ Read \/ SampleOwner \/ SampleService)
    BY DEF Select, Read, SampleOwner, SampleService, Answer
  <2>5. ~ (Decide \/ Confirm)
    <3>1. /\ Unavailable(candidate, sampled) # "satisfied"
          /\ Unavailable(Snapshot, sampled) # "satisfied"
      <4>1. \A c, leaders : Unavailable(c, leaders) \in Reasons \cup {"none"}
        BY ReasonIsFact
      <4>2. "satisfied" \notin Reasons \cup {"none"}
        BY DEF Reasons, ReasonOrder
      <4>3. QED
        BY <4>1, <4>2
    <3>2. QED
      BY <3>1 DEF Decide, Confirm, Answer
  <2>6. Resample
    BY <2>2, <2>3, <2>4, <2>5, NextSteps DEF Observe
  <2>7. phase = "resample" /\ owner = "live"
    BY <2>1, <2>6 DEF Resample, Reading, Answer, Leaders
  <2>8. SuccessfulTask(candidate.task) /\ root[Step] = candidate.task
    BY <2>1, <2>7 DEF PhaseInv, Ready, CandidateInv, Rounds
  <2>9. \A i \in Services : i \in confirmed
    BY <2>1, <2>7, <2>8 DEF PhaseInv, SampleInv
  <2>10. QED
    BY <2>1, <2>7, <2>8, <2>9 DEF OwnerInv, ObserverType
<1>2. QED
  BY <1>1, ObservationInvariance, PTL DEF Spec, SatisfiedIsTrue

\* A round whose question was decided before its snapshot ends in an answer.
THEOREM DecidedRoundsAnswer == Spec => DecidedRoundAnswers
<1>1. ObservationInv /\ [Next]_vars => [phase = "decide" /\ phase' = "read" => ~overdue]_vars
  <2> SUFFICES ASSUME ObservationInv, Next, phase = "decide", phase' = "read", overdue
               PROVE  FALSE
    OBVIOUS
  <2>1. /\ ObserverType /\ PhaseInv /\ CandidateInv /\ OverdueInv
    BY DEF ObservationInv, RoundInv
  <2>2. ~ SessionStep
    BY SessionSteps DEF ObservationInv, Progressed, observer
  <2>3. Decide
    BY <2>2, NextSteps
       DEF Observe, Expire, Select, Read, SampleOwner, SampleService, Confirm, Resample,
           Reading
  <2>4. PICK reason : reason = Unavailable(candidate, sampled)
    OBVIOUS
  <2>5. reason = "none" /\ ~ Ready(candidate)
    BY <2>3, <2>4, Zenon DEF Decide, Answer
  <2>6. \A i \in Recorded(candidate) : i \in Services /\ sampled.service[i] \in Leaders
    BY <2>1 DEF PhaseInv, ObserverType, Sampled, Recorded
  <2>7. /\ ~ candidate.successor
        /\ sampled.owner \notin Lost
        /\ candidate.progress = "executing"
        /\ ~ Doomed(candidate.task)
        /\ \A i \in Recorded(candidate) : candidate.service[i].status \in Active
        /\ \A i \in Recorded(candidate) : sampled.service[i] = "live"
    <3>1. /\ ~ candidate.successor
          /\ sampled.owner \notin Lost
          /\ candidate.progress = "executing"
          /\ ~ Doomed(candidate.task)
          /\ \A i \in Recorded(candidate) : candidate.service[i].status \in Active
          /\ (\A i \in Recorded(candidate) : sampled.service[i] \in Leaders) =>
               \A i \in Recorded(candidate) : sampled.service[i] = "live"
      BY <2>4, <2>5, ReasonIsFact, Zenon
    <3>2. QED
      BY <2>6, <3>1
  <2>8. sampled.owner = "live"
    BY <2>1, <2>7 DEF PhaseInv, ObserverType, Sampled, Leaders, Lost
  <2>9. \/ candidate.task.status \notin {"none", "running"}
        \/ candidate.task.capture # "pending"
    BY <2>1, <2>7, <2>8 DEF OverdueInv, Settling
  <2>10. SuccessfulTask(candidate.task)
    BY <2>1, <2>7, <2>9
       DEF CandidateInv, Rounds, ObserverType, TaskRows, Outcomes, Doomed, FailedTask,
           IncompleteTask
  <2>11. \A i \in Services : candidate.service[i].status = "ready"
    BY <2>1, <2>7, <2>10 DEF CandidateInv, Rounds, SuccessfulTask, Recorded, Active
  <2>12. QED
    BY <2>5, <2>10, <2>11 DEF Ready
<1>2. QED
  BY <1>1, ObservationInvariance, PTL DEF Spec, DecidedRoundAnswers

====
