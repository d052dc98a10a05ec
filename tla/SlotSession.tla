------------------------------ MODULE SlotSession ------------------------------
(***************************************************************************)
(* One slot of the nixfied runtime: the runtime commands that compete for  *)
(* it (run, down, clean), the slot's registry rows, the workload processes *)
(* a session releases and the application-data generation it uses.         *)
(*                                                                         *)
(* A command is a process.  It may be killed at any step; its flock on     *)
(* slot.lock goes with it, its registry rows, its workloads and the data   *)
(* stay, and the next holder recovers them before it does anything else.   *)
(* One action is one registry transaction or one effect on the host.       *)
(*                                                                         *)
(* Abstractions.                                                           *)
(*  - A run command creates at most one run row, under an identifier that  *)
(*    is never reused: the run is named by its command.                    *)
(*  - A data generation is named by the run that published it.             *)
(*  - A process key stands for a whole process tree: the leader, its group *)
(*    and its tracked descendants.                                         *)
(*  - A process row keeps what recovery and finalization distinguish: an   *)
(*    active status, a terminal status whose ownership is still            *)
(*    unresolved, or a settled one.                                        *)
(*  - Deletion of the data is an intent, an effect and a completion here;  *)
(*    GenerationCleanup takes it apart into its directory operations.      *)
(*  - The order in which teardown takes the started services is left open, *)
(*    and so is the order of recovery's process rows.                      *)
(***************************************************************************)

CONSTANTS
  Runs,        \* run commands, each with the one session it may create
  Downs,       \* down commands
  Cleans,      \* clean commands
  Purges,      \* the clean commands given --purge
  Persistent,  \* the runs whose manifest keeps application data
  Procs,       \* process keys
  Services,    \* the process keys of services; the others are invocations
  RunOf,       \* the run a process key belongs to
  None         \* no command, no process, no generation

Cmds == Runs \cup Downs \cup Cleans

ASSUME SlotAssumption ==
  /\ Runs \cap Downs = {}
  /\ Runs \cap Cleans = {}
  /\ Downs \cap Cleans = {}
  /\ Purges \subseteq Cleans
  /\ Persistent \subseteq Runs
  /\ Services \subseteq Procs
  /\ RunOf \in [Procs -> Runs]
  /\ None \notin Cmds \cup Procs

VARIABLES
  pc,         \* pc[c]: the step command c is about to take
  holder,     \* the command that holds slot.lock
  published,  \* runs with a row in the runs table
  outcome,    \* runs.execution_outcome ("unknown" is NULL)
  complete,   \* runs with finalization = 'complete'
  closed,     \* runs with sources = 'closed'
  sealed,     \* runs with output = 'sealed'
  row,        \* row[p]: the row of process key p
  captured,   \* process rows whose capture is no longer 'pending'
  os,         \* os[p]: the process tree itself
  survivors,  \* recovery: obligations found live by its first pass
  started,    \* session: services that became ready (RunSession.started)
  starting,   \* session: the released service whose checks are not passed yet
  cur,        \* the workload being launched, awaited or stopped; recovery:
              \* the survivor its policy terminated
  verdict,    \* session: the execution outcome finalization will record
  data,       \* generation of the marked application tree
  keep,       \* that marker says persistent
  pending,    \* generation of the pending cleanup row
  deleted,    \* generations with a completed cleanup row
  canceled    \* runs whose cancellation token is set

sessionVars == <<published, outcome, complete, closed, sealed>>
procVars    == <<row, captured, os>>
localVars   == <<survivors, started, starting, cur, verdict>>
dataVars    == <<data, keep, pending, deleted>>
vars == <<pc, holder, sessionVars, procVars, localVars, dataVars, canceled>>

Outcomes   == {"succeeded", "failed", "canceled", "interrupted"}
RecoverPCs == {"interrupt", "stop", "retain", "recovered"}
PreparePCs == {"prepare", "claim", "commit"}
SetupPCs   == RecoverPCs \cup PreparePCs \cup {"clean"}
WorkPCs    == {"launching", "permitting", "working", "containing", "settling"}
ExecPCs    == {"session"} \cup WorkPCs
StopPCs    == {"stopping", "stopped"}
FinalPCs   == {"settle", "teardown"} \cup StopPCs \cup {"retire", "record"}
OutputPCs  == {"sources", "seal", "shutdown"}
HeldPCs    == SetupPCs \cup ExecPCs \cup FinalPCs \cup OutputPCs \cup {"closing"}
PCs        == HeldPCs \cup {"idle", "done", "crashed"}

TypeOK ==
  /\ pc \in [Cmds -> PCs]
  /\ holder \in Cmds \cup {None}
  /\ published \subseteq Runs
  /\ outcome \in [Runs -> Outcomes \cup {"unknown"}]
  /\ complete \subseteq Runs
  /\ closed \subseteq Runs
  /\ sealed \subseteq Runs
  /\ row \in [Procs -> {"none", "active", "unsettled", "settled"}]
  /\ captured \subseteq Procs
  /\ os \in [Procs -> {"none", "parked", "permitted", "live", "gone"}]
  /\ survivors \subseteq Procs
  /\ started \subseteq Procs
  /\ starting \in Procs \cup {None}
  /\ cur \in Procs \cup {None}
  /\ verdict \in Outcomes \cup {"unknown"}
  /\ data \in Runs \cup {None}
  /\ keep \in BOOLEAN
  /\ pending \in Runs \cup {None}
  /\ deleted \subseteq Runs
  /\ canceled \subseteq Runs

Init ==
  /\ pc = [c \in Cmds |-> "idle"]
  /\ holder = None
  /\ published = {}
  /\ outcome = [r \in Runs |-> "unknown"]
  /\ complete = {}
  /\ closed = {}
  /\ sealed = {}
  /\ row = [p \in Procs |-> "none"]
  /\ captured = {}
  /\ os = [p \in Procs |-> "none"]
  /\ survivors = {}
  /\ started = {}
  /\ starting = None
  /\ cur = None
  /\ verdict = "unknown"
  /\ data = None
  /\ keep = FALSE
  /\ pending = None
  /\ deleted = {}
  /\ canceled = {}

-----------------------------------------------------------------------------
(* What the rows and the host say.                                         *)

\* Rows with ownership = 'unresolved': active ones and unsettled terminal ones.
Obligations == {p \in Procs : row[p] \in {"active", "unsettled"}}

\* A process tree that observed_liveness finds.
Alive(p) == os[p] \in {"parked", "permitted", "live"}

\* The gate of p has, or had, permission to execute the workload.
Released(p) == os[p] \in {"permitted", "live"}

Unfinished == published \ complete

\* The execution outcome a failed step of r leads to: canceled needs the token.
Failure(r) == {"failed"} \cup (IF r \in canceled THEN {"canceled"} ELSE {})

\* The holder c moves from one step to the next.
Step(c, from, to) ==
  /\ holder = c
  /\ pc[c] = from
  /\ pc' = [pc EXCEPT ![c] = to]
  /\ UNCHANGED <<holder, canceled>>

-----------------------------------------------------------------------------
(* Slot authority.                                                         *)

\* What a command knows goes when it ends.
Forget ==
  /\ survivors' = {}
  /\ started' = {}
  /\ starting' = None
  /\ cur' = None
  /\ verdict' = "unknown"

\* The flock is granted; a cancellation seen first refuses.
Acquire(c) ==
  /\ pc[c] = "idle"
  /\ holder = None
  /\ c \notin canceled
  /\ holder' = c
  /\ pc' = [pc EXCEPT ![c] = "interrupt"]
  /\ UNCHANGED <<sessionVars, procVars, localVars, dataVars, canceled>>

\* SLOT_BUSY of run and clean, the deadline of down, a canceled acquisition.
Refused(c) ==
  /\ pc[c] = "idle"
  /\ holder # None \/ c \in canceled
  /\ pc' = [pc EXCEPT ![c] = "done"]
  /\ UNCHANGED <<holder, sessionVars, procVars, localVars, dataVars, canceled>>

\* registry.close releases the slot guard.
Close(c) ==
  /\ holder = c
  /\ pc[c] = "closing"
  /\ holder' = None
  /\ pc' = [pc EXCEPT ![c] = "done"]
  /\ Forget
  /\ UNCHANGED <<sessionVars, procVars, dataVars, canceled>>

\* Any step before the run commit fails: the registry and the guard close.
Reject(c) ==
  /\ Step(c, pc[c], "closing")
  /\ pc[c] \in SetupPCs
  /\ UNCHANGED <<sessionVars, procVars, localVars, dataVars>>

\* The command is killed; the kernel drops its flock, workloads stay.
Crash(c) ==
  /\ pc[c] \in HeldPCs
  /\ pc' = [pc EXCEPT ![c] = "crashed"]
  /\ holder' = None
  /\ Forget
  /\ UNCHANGED <<sessionVars, procVars, dataVars, canceled>>

-----------------------------------------------------------------------------
(* Retention: deletion of a run-scoped generation, from recovery ("retain")*)
(* or from finalization ("retire"), and deletion by clean.                 *)

\* Mutant: retention keeps whatever tree it finds.
RetainAnything(c, from, to) ==
  /\ Step(c, from, to)
  /\ Obligations = {} /\ pending = None
  /\ UNCHANGED <<sessionVars, procVars, localVars, dataVars>>

\* Nothing to delete: no marked tree, or a persistent one.
RetainNothing(c, from, to) ==
  /\ Step(c, from, to)
  /\ Obligations = {}
  /\ pending = None
  /\ data = None \/ keep
  /\ UNCHANGED <<sessionVars, procVars, localVars, dataVars>>

\* Mutant: an intent without the settled-slot check.
IntentUnsettled(c, from, allowed) ==
  /\ Step(c, from, from)
  /\ pending = None /\ data # None /\ data \notin deleted /\ allowed
  /\ pending' = data
  /\ UNCHANGED <<sessionVars, procVars, localVars, data, keep, deleted>>

\* The pending row commits before any destructive effect.
RecordIntent(c, from, allowed) ==
  /\ Step(c, from, from)
  /\ Obligations = {}
  /\ pending = None
  /\ data # None
  /\ data \notin deleted
  /\ allowed
  /\ pending' = data
  /\ UNCHANGED <<sessionVars, procVars, localVars, data, keep, deleted>>

\* The pending deletion, fresh or resumed, removes the tree, marker last.
RemoveTree(c, from) ==
  /\ Step(c, from, from)
  /\ Obligations = {}
  /\ pending # None
  /\ data = pending
  /\ data' = None
  /\ keep' = FALSE
  /\ UNCHANGED <<sessionVars, procVars, localVars, pending, deleted>>

\* Its completion commits after the tree is gone.
CompleteDeletion(c, from, to) ==
  /\ Step(c, from, to)
  /\ Obligations = {}
  /\ pending # None
  /\ data = None
  /\ pending' = None
  /\ deleted' = deleted \cup {pending}
  /\ UNCHANGED <<sessionVars, procVars, localVars, data, keep>>

-----------------------------------------------------------------------------
(* recover_slot, run by every command that acquires the slot.              *)

\* Mutant: every unfinished session becomes interrupted.
RecordAllInterrupted(c) ==
  /\ Step(c, "interrupt", "stop")
  /\ outcome' = [r \in Runs |-> IF r \in Unfinished THEN "interrupted" ELSE outcome[r]]
  /\ UNCHANGED <<published, complete, closed, sealed, procVars, localVars, dataVars>>

RecordInterrupted(c) ==
  /\ Step(c, "interrupt", "stop")
  /\ outcome' = [r \in Runs |->
                   IF r \in published /\ outcome[r] = "unknown"
                     THEN "interrupted" ELSE outcome[r]]
  /\ UNCHANGED <<published, complete, closed, sealed, procVars, localVars, dataVars>>

\* Mutant: a row is settled without a look at its process tree.
SettleUnseen(c, p) ==
  /\ Step(c, "stop", "stop")
  /\ p \in Obligations \ survivors
  /\ row' = [row EXCEPT ![p] = "settled"]
  /\ UNCHANGED <<sessionVars, captured, os, localVars, dataVars>>

\* First pass: an obligation whose process tree is gone settles at once.
SettleGone(c, p) ==
  /\ Step(c, "stop", "stop")
  /\ p \in Obligations \ survivors
  /\ ~Alive(p)
  /\ row' = [row EXCEPT ![p] = "settled"]
  /\ UNCHANGED <<sessionVars, captured, os, localVars, dataVars>>

\* First pass: a live obligation is kept for the second pass.
NoteSurvivor(c, p) ==
  /\ Step(c, "stop", "stop")
  /\ p \in Obligations \ survivors
  /\ Alive(p)
  /\ survivors' = survivors \cup {p}
  /\ UNCHANGED <<sessionVars, procVars, started, starting, cur, verdict, dataVars>>

\* Second pass: the recorded policy terminates a survivor's process tree.
ContainSurvivor(c, p) ==
  /\ Step(c, "stop", "stop")
  /\ Obligations \subseteq survivors
  /\ cur = None
  /\ p \in survivors
  /\ os' = [os EXCEPT ![p] = "gone"]
  /\ cur' = p
  /\ UNCHANGED <<sessionVars, row, captured, survivors, started, starting, verdict, dataVars>>

SettleSurvivor(c) ==
  /\ Step(c, "stop", "stop")
  /\ cur \in survivors
  /\ row' = [row EXCEPT ![cur] = "settled"]
  /\ survivors' = survivors \ {cur}
  /\ cur' = None
  /\ UNCHANGED <<sessionVars, captured, os, started, starting, verdict, dataVars>>

\* Termination is not proved: a service row may become escaped, an error ends
\* the recovery.
SurvivorEscapes(c, p) ==
  /\ Step(c, "stop", "closing")
  /\ Obligations \subseteq survivors
  /\ cur = None
  /\ p \in survivors \cap Services
  /\ row' = [row EXCEPT ![p] = "unsettled"]
  /\ UNCHANGED <<sessionVars, captured, os, localVars, dataVars>>

StopDone(c) ==
  /\ Step(c, "stop", "retain")
  /\ Obligations = {}
  /\ UNCHANGED <<sessionVars, procVars, localVars, dataVars>>

AfterRecovery(c) ==
  IF c \in Runs THEN "prepare" ELSE IF c \in Cleans THEN "clean" ELSE "closing"

RecordRecovered(c) ==
  /\ Step(c, "recovered", AfterRecovery(c))
  /\ \A r \in Unfinished : outcome[r] # "unknown"
  /\ complete' = complete \cup Unfinished
  /\ UNCHANGED <<published, outcome, closed, sealed, procVars, localVars, dataVars>>

\* recover_slot up to its last transaction.
Recovering(c) ==
  \/ RecordInterrupted(c)
  \/ \E p \in Procs :
       \/ SettleGone(c, p)
       \/ NoteSurvivor(c, p)
       \/ ContainSurvivor(c, p)
       \/ SurvivorEscapes(c, p)
  \/ SettleSurvivor(c)
  \/ StopDone(c)
  \/ RetainNothing(c, "retain", "recovered")
  \/ RecordIntent(c, "retain", ~keep)
  \/ RemoveTree(c, "retain")
  \/ CompleteDeletion(c, "retain", "recovered")

-----------------------------------------------------------------------------
(* clean, after its recovery.                                              *)

CleanNothing(c) ==
  /\ Step(c, "clean", "closing")
  /\ Obligations = {}
  /\ pending = None
  /\ data = None
  /\ UNCHANGED <<sessionVars, procVars, localVars, dataVars>>

\* Persistent data needs the explicit purge.
Clean(c) ==
  \/ CleanNothing(c)
  \/ RecordIntent(c, "clean", ~keep \/ c \in Purges)
  \/ RemoveTree(c, "clean")
  \/ CompleteDeletion(c, "clean", "closing")

-----------------------------------------------------------------------------
(* A run command establishes its session.                                  *)

\* Mutant: the requested retention may be weaker than the recorded one.
PrepareWeaker(r) ==
  /\ Step(r, "prepare", "claim")
  /\ data' = IF data = None THEN r ELSE data
  /\ data \notin deleted
  /\ keep' = (r \in Persistent)
  /\ UNCHANGED <<sessionVars, procVars, localVars, pending, deleted>>

\* A fresh tree gets a new generation; an owned one keeps it, with the
\* requested retention, which may not be weaker than the recorded one.
PrepareState(r) ==
  /\ Step(r, "prepare", "claim")
  /\ IF data = None
       THEN data' = r
       ELSE /\ keep => r \in Persistent
            /\ data \notin deleted \cup {pending}
            /\ data' = data
  /\ keep' = (r \in Persistent)
  /\ UNCHANGED <<sessionVars, procVars, localVars, pending, deleted>>

\* The evidence directory and the control endpoint exist before the run row.
ClaimRunDir(r) ==
  /\ Step(r, "claim", "commit")
  /\ UNCHANGED <<sessionVars, procVars, localVars, dataVars>>

RecordRunCreated(r) ==
  /\ Step(r, "commit", "session")
  /\ r \notin published
  /\ published' = published \cup {r}
  /\ UNCHANGED <<outcome, complete, closed, sealed, procVars, localVars, dataVars>>

Establish(r) ==
  \/ PrepareState(r)
  \/ ClaimRunDir(r)
  \/ RecordRunCreated(r)

-----------------------------------------------------------------------------
(* One workload of the session: gate, registration, permission, work.      *)

\* The session fails.  A service still under its checks is contained first.
Unwind(r, from) ==
  /\ Step(r, from, IF starting = None THEN "settle" ELSE "containing")
  /\ cur' = starting
  /\ starting' = None

\* The gate is spawned; it has no permission to execute anything.  While a
\* service is under its checks the session launches only its probes.
Launch(r, p) ==
  /\ Step(r, "session", "launching")
  /\ RunOf[p] = r
  /\ os[p] = "none"
  /\ p \in Services => starting = None
  /\ r \notin canceled
  /\ os' = [os EXCEPT ![p] = "parked"]
  /\ cur' = p
  /\ UNCHANGED <<sessionVars, row, captured, survivors, started, starting, verdict, dataVars>>

\* The row commits, under an open source registration of the run; a service
\* also needs every other run's obligations settled.
Register(r) ==
  /\ Step(r, "launching", "permitting")
  /\ r \in published
  /\ r \notin closed
  /\ r \notin canceled
  /\ cur \in Services => \A p \in Obligations : RunOf[p] = r
  /\ row' = [row EXCEPT ![cur] = "active"]
  /\ UNCHANGED <<sessionVars, captured, os, localVars, dataVars>>

\* No row was committed: the inert gate is reaped, or proves unreapable.
LaunchFails(r) ==
  /\ Unwind(r, "launching")
  /\ os' \in {os, [os EXCEPT ![cur] = "gone"]}
  /\ verdict' \in Failure(r)
  /\ UNCHANGED <<sessionVars, row, captured, survivors, started, dataVars>>

\* The request bytes reach the gate.
Permit(r) ==
  /\ Step(r, "permitting", "working")
  /\ r \notin canceled
  /\ os[cur] = "parked"
  /\ os' = [os EXCEPT ![cur] = "permitted"]
  /\ UNCHANGED <<sessionVars, row, captured, localVars, dataVars>>

\* A registered gate is refused its permission: it is contained as a workload.
ReleaseFails(r) ==
  /\ Step(r, "permitting", "containing")
  /\ verdict' \in Failure(r)
  /\ UNCHANGED <<sessionVars, procVars, survivors, started, starting, cur, dataVars>>

\* A released service passed its startup grace; its check rounds begin.
ServiceStarted(r) ==
  /\ Step(r, "working", "session")
  /\ cur \in Services
  /\ os[cur] = "live"
  /\ r \notin canceled
  /\ starting' = cur
  /\ cur' = None
  /\ UNCHANGED <<sessionVars, procVars, survivors, started, verdict, dataVars>>

\* Readiness and health rounds committed; the service joins the session.
ServiceReady(r) ==
  /\ Step(r, "session", "session")
  /\ starting # None
  /\ os[starting] = "live"
  /\ r \notin canceled
  /\ started' = started \cup {starting}
  /\ starting' = None
  /\ UNCHANGED <<sessionVars, procVars, survivors, cur, verdict, dataVars>>

\* An invocation's leader exits by itself: expected exit, or a failure.
InvocationExits(r) ==
  /\ Step(r, "working", "containing")
  /\ cur \notin Services
  /\ os[cur] = "gone"
  /\ r \notin canceled
  /\ verdict' \in {"unknown", "failed"}
  /\ UNCHANGED <<sessionVars, procVars, survivors, started, starting, cur, dataVars>>

\* Timeout, a departed dependency, failed supervision.  A probe that timed out
\* only costs its round.
WorkFails(r) ==
  /\ Step(r, "working", "containing")
  /\ verdict' \in {"failed"} \cup (IF starting = None THEN {} ELSE {"unknown"})
  /\ UNCHANGED <<sessionVars, procVars, survivors, started, starting, cur, dataVars>>

\* Mutant: only the wait for a service polls the token.
ServiceCanceled(r) ==
  /\ Step(r, "working", "containing")
  /\ r \in canceled
  /\ cur \in Services
  /\ verdict' = "canceled"
  /\ UNCHANGED <<sessionVars, procVars, survivors, started, starting, cur, dataVars>>

\* Every wait of the session polls its cancellation token.
WorkCanceled(r) ==
  /\ Step(r, "working", "containing")
  /\ r \in canceled
  /\ verdict' = "canceled"
  /\ UNCHANGED <<sessionVars, procVars, survivors, started, starting, cur, dataVars>>

\* Containment of the workload, in the session or in its teardown.
Contain(r, from, to) ==
  /\ Step(r, from, to)
  /\ os' = [os EXCEPT ![cur] = "gone"]
  /\ UNCHANGED <<sessionVars, row, captured, localVars, dataVars>>

\* What a workload leaves that was not settled: a service row becomes escaped
\* or unresolved, an invocation row stays active, both with their capture
\* outcome; a transaction that fails leaves the row as it was.
EscapeRow(p) ==
  \E recorded, checked \in BOOLEAN :
    /\ row' = IF recorded /\ p \in Services THEN [row EXCEPT ![p] = "unsettled"] ELSE row
    /\ captured' = IF recorded /\ checked THEN captured \cup {p} ELSE captured

\* The outcome of a workload that did not settle: a task whose success was
\* observed keeps it when no continuation is left.
Observed ==
  IF verdict # "unknown" THEN {verdict}
  ELSE IF starting = None THEN {"failed", "succeeded"} ELSE {"failed"}

\* Containment ("containing") or the settlement after it ("settling") fails.
WorkloadUnsettled(r, from) ==
  /\ Unwind(r, from)
  /\ EscapeRow(cur)
  /\ verdict' \in Observed
  /\ UNCHANGED <<sessionVars, os, survivors, started, dataVars>>

\* Mutant: the terminal record leaves the capture outcome out.
SettleRowUncaptured(p) ==
  /\ row' = [row EXCEPT ![p] = "settled"]
  /\ UNCHANGED captured

\* The terminal record of a contained workload.
SettleRow(p) ==
  /\ row' = [row EXCEPT ![p] = "settled"]
  /\ captured' = captured \cup {p}

SettleDone(r) ==
  /\ Step(r, "settling", "session")
  /\ verdict = "unknown"
  /\ SettleRow(cur)
  /\ cur' = None
  /\ UNCHANGED <<sessionVars, os, survivors, started, starting, verdict, dataVars>>

SettleFailed(r) ==
  /\ Unwind(r, "settling")
  /\ verdict # "unknown"
  /\ SettleRow(cur)
  /\ UNCHANGED <<sessionVars, os, survivors, started, verdict, dataVars>>

\* The last root leaf finished.
SessionDone(r) ==
  /\ Step(r, "session", "settle")
  /\ starting = None
  /\ verdict' = "succeeded"
  /\ UNCHANGED <<sessionVars, procVars, survivors, started, starting, cur, dataVars>>

\* Acknowledgement, presenter, preflight, exhausted check rounds, a departed
\* service, a checkpoint or the token.
SessionFails(r) ==
  /\ Unwind(r, "session")
  /\ verdict' \in Failure(r)
  /\ UNCHANGED <<sessionVars, procVars, survivors, started, dataVars>>

Execute(r) ==
  \/ \E p \in Procs : Launch(r, p)
  \/ Register(r)
  \/ LaunchFails(r)
  \/ Permit(r)
  \/ ReleaseFails(r)
  \/ ServiceStarted(r)
  \/ ServiceReady(r)
  \/ InvocationExits(r)
  \/ WorkCanceled(r)
  \/ Contain(r, "containing", "settling")
  \/ WorkloadUnsettled(r, "containing")
  \/ WorkloadUnsettled(r, "settling")
  \/ SettleDone(r)
  \/ SettleFailed(r)
  \/ SessionDone(r)
  \/ SessionFails(r)

-----------------------------------------------------------------------------
(* RunSession::finalize.  A failed step is accumulated, never a way out.   *)

RecordOutcome(r) ==
  /\ Step(r, "settle", "teardown")
  /\ outcome' \in {outcome, [outcome EXCEPT ![r] = verdict]}
  /\ UNCHANGED <<published, complete, closed, sealed, procVars, localVars, dataVars>>

\* Exited services first, then the last started one; each is taken once.
StopService(r, p) ==
  /\ Step(r, "teardown", "stopping")
  /\ p \in started
  /\ started' = started \ {p}
  /\ cur' = p
  /\ UNCHANGED <<sessionVars, procVars, survivors, starting, verdict, dataVars>>

StopSettled(r) ==
  /\ Step(r, "stopped", "teardown")
  /\ SettleRow(cur)
  /\ cur' = None
  /\ UNCHANGED <<sessionVars, os, survivors, started, starting, verdict, dataVars>>

\* Its containment ("stopping") or its settlement ("stopped") fails.
StopUnsettled(r, from) ==
  /\ Step(r, from, "teardown")
  /\ EscapeRow(cur)
  /\ cur' = None
  /\ UNCHANGED <<sessionVars, os, survivors, started, starting, verdict, dataVars>>

TeardownDone(r) ==
  /\ Step(r, "teardown", "retire")
  /\ started = {}
  /\ UNCHANGED <<sessionVars, procVars, localVars, dataVars>>

\* Mutant: a refused retention does not keep finalization unfinished.
RetireIgnored(r) ==
  /\ Step(r, "retire", "record")
  /\ UNCHANGED <<sessionVars, procVars, localVars, dataVars>>

\* Retention refused or failed: finalization stays unfinished.
RetireFails(r) ==
  /\ Step(r, "retire", "sources")
  /\ UNCHANGED <<sessionVars, procVars, localVars, dataVars>>

\* Completion is refused while the execution outcome is unknown.
RecordComplete(r) ==
  /\ Step(r, "record", "sources")
  /\ \/ outcome[r] # "unknown" /\ complete' = complete \cup {r}
     \/ UNCHANGED complete
  /\ UNCHANGED <<published, outcome, closed, sealed, procVars, localVars, dataVars>>

CloseSources(r) ==
  /\ Step(r, "sources", "seal")
  /\ closed' \in {closed, closed \cup {r}}
  /\ UNCHANGED <<published, outcome, complete, sealed, procVars, localVars, dataVars>>

\* Every source of the run recorded a checked capture outcome.
CaptureChecked(r) ==
  \A p \in Procs : RunOf[p] = r /\ row[p] # "none" => p \in captured

SealOutput(r) ==
  /\ Step(r, "seal", "shutdown")
  /\ r \in closed
  /\ CaptureChecked(r)
  /\ sealed' = sealed \cup {r}
  /\ UNCHANGED <<published, outcome, complete, closed, procVars, localVars, dataVars>>

\* The summary, the diagnostics or the seal failed, or a source is unchecked.
LeaveUnsealed(r) ==
  /\ Step(r, "seal", "shutdown")
  /\ UNCHANGED <<sessionVars, procVars, localVars, dataVars>>

\* The control endpoint goes while the slot is still held.
ShutdownControl(r) ==
  /\ Step(r, "shutdown", "closing")
  /\ UNCHANGED <<sessionVars, procVars, localVars, dataVars>>

Finalize(r) ==
  \/ RecordOutcome(r)
  \/ \E p \in Procs : StopService(r, p)
  \/ Contain(r, "stopping", "stopped")
  \/ StopSettled(r)
  \/ StopUnsettled(r, "stopping")
  \/ StopUnsettled(r, "stopped")
  \/ TeardownDone(r)
  \/ RetainNothing(r, "retire", "record")
  \/ RecordIntent(r, "retire", ~keep)
  \/ RemoveTree(r, "retire")
  \/ CompleteDeletion(r, "retire", "record")
  \/ RetireFails(r)
  \/ RecordComplete(r)
  \/ CloseSources(r)
  \/ SealOutput(r)
  \/ LeaveUnsealed(r)
  \/ ShutdownControl(r)

-----------------------------------------------------------------------------
(* The host.                                                               *)

\* The permitted gate executes the workload; its owner may be gone.
Exec(p) ==
  /\ os[p] = "permitted"
  /\ os' = [os EXCEPT ![p] = "live"]
  /\ UNCHANGED <<pc, holder, sessionVars, row, captured, localVars, dataVars, canceled>>

\* A process tree ends by itself: a workload, a gate that cannot execute it, a
\* parked gate that times out or reads the end of its channel.
Exit(p) ==
  /\ Alive(p)
  /\ os' = [os EXCEPT ![p] = "gone"]
  /\ UNCHANGED <<pc, holder, sessionVars, row, captured, localVars, dataVars, canceled>>

\* A signal, or the control endpoint, sets the command's token.
Cancel(r) ==
  /\ pc[r] \notin {"done", "crashed"}
  /\ r \notin canceled
  /\ canceled' = canceled \cup {r}
  /\ UNCHANGED <<pc, holder, sessionVars, procVars, localVars, dataVars>>

-----------------------------------------------------------------------------
\* What a command does without waiting for its workload.
Work(c) ==
  \/ Acquire(c)
  \/ Recovering(c) \/ RecordRecovered(c) \/ Reject(c)
  \/ c \in Cleans /\ Clean(c)
  \/ c \in Runs /\ (Establish(c) \/ Execute(c) \/ Finalize(c))
  \/ Close(c)

Next ==
  \/ \E c \in Cmds : Work(c) \/ Refused(c) \/ Crash(c)
  \/ \E r \in Runs : WorkFails(r) \/ Cancel(r)
  \/ \E p \in Procs : Exec(p) \/ Exit(p)

Spec == Init /\ [][Next]_vars

\* A command that is not killed keeps running.  Nothing is assumed of its
\* workloads, of timeouts, or of a command that still waits for the slot.
FairSpec == Spec /\ \A c \in Cmds : WF_vars(pc[c] # "idle" /\ Work(c))

-----------------------------------------------------------------------------
(* What must hold.                                                         *)

\* A workload that may execute is an unresolved row of the registry, so that
\* a successor finds it whatever happened to its owner: registration precedes
\* permission (launch.rs), and no settlement precedes containment.
ReleasedIsRecorded == \A p \in Procs : Released(p) => p \in Obligations

\* At most one session of the slot is unfinished, although its owner may have
\* died and others wait: recover_slot completes the predecessors of a run
\* before record_run_created.
OneUnfinished == \A r, s \in Unfinished : r = s

\* A session claimed complete has a known outcome, owes nothing and runs
\* nothing, whether its owner or a successor claimed it.
CompleteIsSettled ==
  \A r \in complete :
    /\ outcome[r] # "unknown"
    /\ \A p \in Procs : RunOf[p] = r => p \notin Obligations /\ ~Released(p)

\* While a deletion of the application data is pending, no workload can use
\* the data and no session executes (require_settled_slot in cleanup.rs,
\* resume_pending before any new work).
DeletionIsQuiescent ==
  pending # None =>
    /\ Obligations = {}
    /\ \A p \in Procs : ~Released(p)
    /\ \A r \in Runs : pc[r] \notin ExecPCs

\* An executing session has its application tree, under the retention it asked
\* for, of a generation no cleanup names; run-scoped data is never a
\* predecessor's.
SessionOwnsItsData ==
  \A r \in Runs :
    pc[r] \in ExecPCs =>
      /\ data \in Runs \ deleted
      /\ keep = (r \in Persistent)
      /\ ~keep => data = r

\* Persistent data is under deletion only after a purge took the slot, also
\* when a later command resumes that deletion.
PersistentNeedsPurge ==
  keep /\ pending # None =>
    \E c \in Purges : pc[c] \in {"clean", "closing", "done", "crashed"}

\* Sealed output is closed and every source of the run is checked: no row may
\* join it later and no capture is pending (seal_output in session.rs).
SealedIsComplete ==
  \A r \in sealed :
    /\ r \in closed
    /\ \A p \in Procs : RunOf[p] = r /\ row[p] # "none" => p \in captured

\* An owner that completes its own finalization has a checked capture outcome
\* for each of its sources; a successor's recovery never has to invent one.
OwnerProvesCapture ==
  [][\A r \in complete' \ complete :
       holder = r => \A p \in Procs : RunOf[p] = r /\ row[p] # "none" => p \in captured]_vars

\* An execution outcome is written once.  "interrupted" comes from a successor
\* that holds the slot, any other outcome from the owner itself.
OutcomeWrittenOnce ==
  [][\A r \in Runs :
       outcome'[r] # outcome[r] =>
         /\ outcome[r] = "unknown"
         /\ (outcome'[r] = "interrupted") = (holder # r)]_vars

\* The data directory disappears only under a pending deletion, never while a
\* workload may use it, and it never changes its generation in place.
DataChangesAreOwned ==
  [][data' # data =>
       \/ data = None
       \/ data' = None /\ data = pending /\ Obligations = {}
            /\ \A p \in Procs : ~Released(p)]_vars

\* The slot's sessions keep the promises of SessionLedger.
Ledger == INSTANCE SessionLedger
            WITH owed <- Obligations, running <- {p \in Procs : Released(p)}
KeepsLedger == Ledger!Spec

\* Its application data keeps the promises of DataGeneration: no generation, no
\* refresh and no second intent overtakes a pending deletion, a deleted
\* generation never returns, retention never weakens (preparation.rs:
\* prepare_slot_state after recover_slot; cleanup.rs: apply_retention,
\* clean_marked_state).
Generation == INSTANCE DataGeneration WITH Generations <- Runs, Nothing <- None
KeepsGeneration == Generation!Spec

\* The slot is given up: by every down and clean, and by a run whose token is
\* set, whatever its workloads, its escapes and its failed transactions do.
AuthorityReleased ==
  \A c \in Cmds :
    (holder = c /\ (c \in Runs => c \in canceled)) ~> (holder # c)

=============================================================================
