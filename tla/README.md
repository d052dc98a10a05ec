# Verification of the nixfied runtime

nixfied compiles a project description to a manifest; its runtime executes the
manifest's tasks and services inside a *slot*, a place on the host with one
lock, one registry (SQLite), one application-data tree and one evidence
directory per session. What is hard about it is ownership: commands compete for
the slot, are killed at any point, and leave processes, rows and data behind
that the next command has to account for before it may do anything. This
directory holds TLA+ specifications of that core, TLC runs on small instances,
and TLAPS proofs for all instances.

Paths below are relative to `src/runtime/crates/nixfied-runtime/src/` unless
they start with `docs/`.

## Files

| file | role |
|---|---|
| `SlotSession.tla` | one slot: commands, lock, registry rows, workloads, data |
| `SlotSessionInvariant.tla` | its inductive invariant |
| `SessionLedger.tla` | abstract: what a slot promises about sessions and workloads |
| `DataGeneration.tla` | abstract: what a slot promises about application data |
| `SlotDown.tla` | `down` against the sessions of a slot, with the control endpoint |
| `GenerationCleanup.tla` | the application tree, one directory operation at a time |
| `SharedEnsure.tla` | launchers of `ensure` and `run --daemon`, their owners, the channel, the slot they compete for |
| `FirstPublication.tla` | abstract: which session an `ensure` names |
| `ServiceStart.tla` | starting services: startup locks, gate, check rounds, probes, ready commit, teardown |
| `SessionObservation.tla` | an await of a root task, against a session that runs, ends, dies or is recovered |
| `ExecutionPlan.tla` | validation, lowering, admission, the plan of a task and the walk of it |
| `CaptureRelay.tla` | the two threads that copy and redact a process's output, and their owner |
| `SlotProofs.tla` | the slot: inductive invariant, safety, action properties, `SessionLedger` and `DataGeneration` are implemented; what `down` may conclude |
| `GenerationCleanupProofs.tla` | deletion under interference; undisturbed, admission and the implementation of `DataGeneration` |
| `SharedEnsureProofs.tla` | certainty of launchers, lineage of registry files, the implementation of `FirstPublication` |
| `SessionObservationProofs.tla` | what an await may answer |
| `ServiceStartProofs.tla` | what starting, checking and tearing down services keeps |
| `ExecutionPlanProofs.tla` | what the algorithms of planning compute; refusals are deserved, admitted plans run, in order, on ports of their own |
| `CaptureRelayProofs.tla` | what the streaming redaction writes, for any secrets, output and reads; the reported outcome is true |
| `SequenceFacts.tla` | lemmas on numbers, recursive functions and joined sequences that the last two need |
| `MC*.tla`, `*.cfg` | instances for TLC |
| `PROJECT.json` | components, runs, mutants, definition-to-source map, hazards, theorems |

## Inventory

Each part: the state it keeps, its operations, what is hard, what makes it
correct, and where it is modelled.

**Slot authority** (`state/ownership.rs`, `registry/sqlite.rs`). State: `flock`
on `slot.lock`, held by at most one process and freed by the kernel with it.
Operations: acquire (polling, with cancellation or deadline), release with the
registry's close. Hard: contention, death at any point. Correct: one command
inside; everything a dead owner left is settled before new work. Modelled in
`SlotSession`; identity and ancestry checks of the directories are not.

**Session registry** (`registry/session.rs`, `schema.rs`, `status.rs`). State:
one row per run with execution outcome, finalization, source registration,
output. Operations: `record_run_created`, `record_execution_outcome`,
`record_finalization_complete`, `close_source_registration`, `seal_output`, and
the successor's `record_interrupted_sessions`, `record_recovered_sessions`.
Hard: each may fail or never happen, and a successor writes the same columns.
Correct: outcome written once; complete means settled; sealed means closed and
checked; one unfinished session. Modelled in `SlotSession`.

**Process rows** (`service/registry.rs`). State: a row per workload (invocation,
service, probe): status, ownership, capture, and for a service its endpoint rows
and start intent. Operations: registration, start intent, check-round commit,
observed exit, terminal settlement, escape evidence, settlement of escapes. Hard:
a row must exist before its process may execute and must stay until the process
is gone; a round is committed on evidence that was gathered before. Modelled in
`SlotSession` (registration, settlement, escape, capture), `ServiceStart`
(intents, rounds, probe rows, observed exits) and `SessionObservation` (the rows
as a reader decodes them).

**Predecessor recovery** (`control.rs: recover_slot`). No state of its own: it
interrupts unknown outcomes, takes two passes over the recorded processes,
applies retention, completes the predecessors. Hard: processes exit or execute
between its passes; it can die itself. Modelled in `SlotSession`.

**Session driver and finalization** (`main.rs: execute_owned,
RunSession::finalize`). State: services started, current workload, verdict.
Operations: setup, services with their probes, tasks, outcome, reverse teardown,
retention, record, closing of sources, seal, shutdown of control. Hard: every
step of finalization can fail, and the next one still runs. Modelled in
`SlotSession`; evidence files, presentation and diagnostics are not.

**Workload gate, containment, capture** (`launch.rs`, `spawn.rs`,
`service/process.rs`, `service/task.rs`, `service/output.rs`). State: a forked
gate parked on a channel, the process group, tracked descendants, capture
threads. Operations: spawn, permit, exec, observe, terminate, kill, drain. Hard:
owner death on either side of the permission; descendants that leave the group
or lose their parent before they are seen. Modelled as whole process trees in
`SlotSession`, as leader, descendant and probe processes in `ServiceStart`. The
bytes of the channel and its deadlines are not.

**Capture** (`redaction.rs`). State: per stream a pipe, a worker thread with its
undecided bytes, a mailbox for the deadline, a log file. Operations: create both
or neither, read, redact what is decided, write, finish; ask both to end, join,
drop. Hard: secrets arrive in pieces and overlap; the deadline comes at any
point of a worker's loop; a descendant keeps the streams open; writes fail half
way. Correct: a log file is always a beginning of the redacted whole; the
reported outcome is true; settling ends. Modelled in `CaptureRelay`.

**down and session control** (`control.rs`, `session_control.rs`). State:
selected session, FIFO endpoint with its receiver thread. Operations: select,
request, observe the handoff, acquire, recover. Hard: the selected session ends,
and another begins, at any point of that sequence. Modelled in `SlotDown`.

**Application data** (`state/cleanup.rs`, `marker.rs`, `tree.rs`,
`preparation.rs`, `filesystem.rs`). State: a directory tree with a state marker
(owner, data generation, retention); a row per deletion. Operations: evaluate,
publish, refresh; intent, removal of contents, marker and root, completion,
resumption. Hard: death between any two directory operations; other programs
moving, replacing or restoring the tree; reused inode numbers. Modelled in
`SlotSession` (intent, removal, completion) and `GenerationCleanup` (single
operations).

**Service readiness and endpoints** (`service/endpoint.rs`, `readiness.rs`,
`socket.rs`, port locks). State: startup locks on addresses, the listening
socket and its holder as the kernel shows them, a check round with its initial
witnesses, one probe at a time. Operations: lock, preflight bind, prepare, observe
the listeners, probe, watch, commit ready, retry, fail, release. Hard:
the service exits, another process takes its address, or the socket is replaced
at any point of a round, and an observation itself takes time; several runtimes
want one address. Correct: a service is ready only on evidence of one round,
whose listeners held from its first observation to its second; its addresses stay
guarded until then; a start comes to an end once it is past its preparation.
Modelled in `ServiceStart`.

**Background launch and shared ensure** (`background.rs`, `channel.rs`,
`control/ensure.rs`). State: a launcher and an owner process with a framed
channel; on each side a cursor, the watermark of the enrollment and the registry
history checked so far. Operations: enroll, spawn, deliver, reply, select the
reply; resume, read, try the lock, read again under it, publish, reject, notice
abandonment. Hard: abandonment races the owner's run row; several launchers want
one session; the reply may be lost; what was read before the lock is stale under
it. Correct: an ensure names the first session published since it enrolled or
the one current then; it starts another only while there is none; what it says
of its own session is true. Modelled in `SharedEnsure`.

**Observation** (`control/observation.rs`, `registry/observation.rs`). State: a
pinned registry, one candidate snapshot, the leaders sampled in this round.
Operations: select, read and decode, sample the owner and the services one at a
time, decide, confirm in a fresh snapshot, sample the owner again. Hard: the
session goes on in between, its owner dies between two commits of one task, a
successor recovers it. Correct: "satisfied" is true when it is said; a refusal
names a fact that no later step takes back; nothing the program writes is taken
for corruption; an answer comes as soon as there is one. Modelled in
`SessionObservation`.

**Execution lowering and planning** (`execution/lower.rs`, `plan.rs`,
`types.rs`, `slot.rs`, with `validation.rs` of the manifest crate). No state but
the plan the owner walks. Operations: validate, prove references, resolve
placeholder scopes, flatten composites, order services, prove cycles and
capacity, hand out ports, walk. Hard: admission and planning look at one graph
by different algorithms, and what lowering promises for declarations a run needs
of started services. Correct: only the impossible is refused, what is admitted
always runs, steps wait for whole subtrees, no port has two owners. Modelled in
`ExecutionPlan`.

The parts meet in few places: every command enters through the slot lock; only
the holder writes the registry; recovery precedes preparation (the `Recovered`
value); a workload gets its permission after its row; deletion refuses while a
row is unresolved. `down` talks to an owner only through the control endpoint
and through what it reads in the registry; a launcher talks to its owner through
their channel and checks what it hears against the registry.

## Not modelled

* Admission of secrets, inputs and tools, and the check of a closure's target and
  effects: reads of the environment and of one declaration each, before a slot is
  touched.
* The presenter, the grammar of templates, redaction of finished text and JSON
  (the scan that `CaptureRelay` models, over a whole) and the framing of
  `channel.rs`: text and I/O. `SharedEnsure` knows only whether a frame arrived
  whole.
* `inspect` and the cursors over output: `inspect` is one round of the steps of
  `SessionObservation` and decides nothing more.
* The accumulation of failures in `error.rs`: what is reported, not what is done.
  Where an error decides the next step, that step is an action.
* Most of the manifest crate (serde types, checks of one declaration), the
  `nixfied` command (dispatch), the Nix compiler, modules, adapters and installer
  (functional code, evaluated elsewhere), test fixtures.
* Power loss: `docs/known-gaps.md` claims process death only.

## The models and the code

### SlotSession

A command is a process with a program counter `pc[c]`; one action is one
registry transaction or one effect on the host. `holder` is the lock. A crash
(`Crash`) keeps rows, workloads and data and loses the lock and the command's
locals. Locals of the holder (`survivors, started, starting, cur, verdict`) are
single variables, because only the holder has any.

| `pc` | code |
|---|---|
| `interrupt, stop, retain, recovered` | the four calls of `recover_slot` |
| `prepare, claim, commit` | `prepare_slot_state`; `claim_run_dir` and the control endpoint; `record_run_created` |
| `session, launching, permitting, working, containing, settling` | `execute_owned` and one workload in it: gate spawned, row recorded, permission sent, awaited, contained, row settled |
| `settle, teardown, stopping, stopped, retire, record` | `RunSession::finalize` up to the finalization record |
| `sources, seal, shutdown, closing` | the rest of `finalize` and `Registry::close` |
| `clean` | `clean_marked_state` |

A process key stands for a process tree. `os[p]` is what it does (`parked` in
the gate, `permitted`, `live`, `gone`), `row[p]` what the registry says of it.
`Exec` and `Exit` are steps of the host and need nobody's consent, so a
permitted gate may execute long after its owner died. Errors of a transaction or
of containment are actions (`ReleaseFails`, `WorkloadUnsettled`, `StopUnsettled`,
`RetireFails`, `LeaveUnsealed`, `Reject`).

### SlotDown

Extends `SlotSession` with the local state of `down` (`phase, sel, seen,
unheard`) and the control endpoints (`reader`, `bytes`). Steps of sessions
change the endpoint where the code creates and removes it; the receiver sets the
session's token. Here a token has no other source, so that what `down` waits for
is its own doing.

### GenerationCleanup

One command at a time (that is what `SlotSession` shows) on one tree. `root` is
the inode at the tree's path, `marker[i]` and `files[i]` the contents of
directory `i`, `held` the descriptor of the command. Every `unlinkat`, the
rename of the marker, the directory reads that decide something and the two
registry commits are actions, in the order of `finish_deletion` and
`publish_slot_marker`. `Die` may come before each. `MoveAway`, `RemoveAll`,
`Place` and `DropFile` are other programs; `Place` may use any inode number that
no directory and no descriptor occupies, and may restore a backup of any marker
ever published. The model has the window between `evaluate_slot_marker` and
`publish_slot_marker`, in which a tree put in place is adopted unseen; the code
calls publication a post-decision commit, no guard, and nothing here claims
otherwise. Power loss is out: `docs/known-gaps.md` claims process death only.

### SharedEnsure

A launcher, the owner it spawns and the run that owner may publish carry one
name, since the run identity is allocated before the spawn. `launcher[l]` and
`owner[r]` are the program counters:

| `owner` | code |
|---|---|
| `receive` | `background::receive`, then admission in `run_shared_owner` or `run_session` |
| `resume, seek, try, guarded` | `resume_from_wire`; the loop of `acquire_shared`: read, try the lock, read under it |
| `acquire` | `run_placed`: an ordinary run, refused by a busy slot |
| `open, schema, recover, prepare, check, publish` | `Registry::open_or_create`; the setup of `execute_owned` up to `record_run_created` |
| `replying` | `acknowledge`, `selected` or `reject` |
| `session, finalize, close, linger` | execution, finalization, `Registry::close`, output after it |

The registry is its event sequence; `schema` tells the bootstrap file from the
complete one, and `hist` and `learned` are the launcher's and the owner's
`History`, advanced as `History::advance` does. An ordinary run in the foreground
competes with another request. `RemoveRegistry` is another program; it acts while
nobody holds the slot. A file that is made anew has a new inode or that of a
removed one (`Open`), and the code has nothing else to tell two files by but the
greatest sequence in them; so a reader can be deceived by a file with an old
inode and a log that is no shorter, and the properties say exactly how far it
cannot (`PinnedKeepsLineage`, `Deceived`). A busy read repeats
and is no step. What a signal to the launcher does depends on what it does at
that time, so it is `DaemonInterrupt` for `run --daemon` and `EnsureExpires` for
`ensure`, where budget and signal end in the same checkpoint.

A launcher that gives up after the whole frame was delivered does not kill its
owner: it closes the channel and reports the certainty it has (`told`). The
owner looks at the channel at the steps `Abandoned` lists and never between the
last look and the commit, so a session may be established for a launcher that is
gone; that is why the report says "uncertain", and `AbandonedOwnerEnds` speaks of
launchers gone before that look.

`FirstPublication` knows publications, their numbers, who asked when and what
was answered. It is what `docs/CONTRACT.md` promises of `ensure`, without
processes.

### ServiceStart

An owner is a runtime process that starts one service; `pc[o]` follows
`start_service_for_slot`, the rounds of `readiness.rs` and `teardown`:

| `pc` | code |
|---|---|
| `lock, bind, intent, prepare, spawn, register, release, launch` | startup locks, preflight, start intent, the preparation, gated launch with its row |
| `grace` | the readiness delay |
| `round, wait` | a check round begins; the wait before the next one |
| `list, look, sight, recheck` | `observe_with`: the candidates, the next candidate, its descriptors one by one, the same descriptors again after the kernel's dump |
| `probe, admit, watch, finish, record, credit` | the probes, one by one, between the two observations |
| `commit, write, unguard` | the last look at the service, the ready commit, the release of the locks |
| `stop, contain, capture, settle, drop` | teardown: choice of the policy, containment, capture, terminal row, locks |

An observation (`Look`) is as sequential as the code: candidates are listed,
verified, inspected and verified again one after the other, and of each the
sockets are read one by one and, after the kernel's dump, read again. Everything
else may happen between any two of these steps. That is the Linux path; the one of
macOS reads a descriptor once and is not modelled. Which listeners
held through the probes is kept in `steady`, a history variable that serves
`RoundIsFresh` only. A preparation is one step of its task, `PrepareEnds`, which
may never come; `PrepareCut` is the owner stopping it when it is canceled or at
its timeout (`Timed`), if it has one. The host moves on its own: gates execute, leaders and helpers exit, a helper leaves its group or loses
its parent, sockets close and are bound by the service, its helper or a stranger.
Owners in `Faulty` may fail at every checkpoint, transaction, inspection,
containment and capture; the others show what the code reaches when nothing
fails. `Strict` owners contain by process group, the others by what they track.

### SessionObservation

The session's owner goes through `execute_owned` at the grain of its commits, may
fail at every step that can and may die anywhere; the host kills leaders and
reuses pids; a successor recovers. The observer is a second process that reads:
`Select`, `Read` (one SQLite snapshot), `SampleOwner`, `SampleService` (one leader
per step), `Decide`, `Confirm`, `Resample`. The owner's side is coarser than
`SlotSession` (no lock, no data) and finer in what an observer can see (the
outcome of a task, its capture and its status are separate commits). Two history
variables, `confirmed` and `overdue`, serve the properties only.

### ExecutionPlan

One behaviour is one manifest: checks in the order of admission, the first that
fails refuses; then any task and any slot is planned and the plan is walked as
the owner does, where a missing dependency, an unbound placeholder or an
incoherent port is the step `broken`. The algorithms (`FirstReady`, `Emit`,
`CloseUnion`, `AssignPorts`) are written as the code computes them, with
recursive functions; the properties compare them with definitions of their own
(`Least`, `Circular`, `Impossible`, `MustFollow`), which say by quantifiers over
sets what a cycle, a closure or an order means. The depth-first search of
`prove_service_cycles` is the one algorithm stated by its result: it reports a
cycle exactly if some service is in its own closure.

### CaptureRelay

`worker[s]` is the place in the loop of `redact_stream_with_poll`: `poll` (the
deadline and the poll), `recheck` (the deadline again), `read` (read, redact,
write, or the end of the stream), and the three ways to end. `owner` goes
through `child_output`, then either `shutdown` (`asking`, `joining`) or `Drop`
(`dropping`). Bytes are two numbers and the token one symbol, because the scan
compares bytes and knows no more of them. `Scan` is the loop of the code as a
recursive function; `Replaced`, which the properties compare with, says by
quantifiers which secrets of the whole output count, with no chunks and no
order of scanning. The early join of `check` changes no result and is no step.

### Abstract specifications

`SessionLedger` and `DataGeneration` know no lock, recovery or crash.
`SlotSession` implements both; with `owed` mapped to the unresolved rows and
`running` to the process trees that may execute, and the data variables to
themselves. `GenerationCleanup` implements `DataGeneration` with the generation
read off the marker at the tree's path. So the two grains of the same data are
tied by one promise.

## Runs

| run | instance | shows |
|---|---|---|
| `session` | 2 runs, a service, 2 invocations | rows, processes and sessions agree; `SessionLedger` implemented |
| `session_data` | a run-scoped and a persistent run, a purging clean, 1 invocation | data is owned, authorised and never overtaken; `DataGeneration` implemented; the inductive invariant holds |
| `session_live` | 1 run, 1 down, a service, an invocation | a canceled run and a down give the slot up |
| `down` | 2 runs, 1 down, 1 invocation | success of `down` is proof of release; `down` returns without its deadline |
| `generation_crash` | 3 generations, 3 deaths, no interference | the runtime's own tree is never refused, deletions complete, `DataGeneration` implemented |
| `generation_tamper` | 2 generations, 3 inodes, 2 interferences, 1 death | only the intended tree is deleted; deleted data is not used again |
| `ensure` | 2 ensures with owners, 1 foreground run of another request, one registry file; the ensures are symmetric | reports are true, nobody takes the registry for corrupt, `FirstPublication` implemented |
| `ensure_live` | 1 ensure with a daemon launcher, or with 2 foreground runs; two registry files, the second under a new inode or the old one | a reply is not matched across files that inode or length tell apart; abandoned owners end unpublished; a seeking ensure is answered |
| `service_start` | 4 owners of which any one starts: one with an endpoint, a helper that listens and every failure; one found through its parents, its listener replaced; one without endpoints; one with two endpoints, held by leader and helper; preparations with and without a timeout; 2 rounds | no tree without a row, addresses stay guarded, verdicts are observed, a round that goes on had all its listeners through its probes, a start is decided |
| `session_observation` | 2 services, 2 root leaves, the first observed | answers are true and stay true, nothing honest is corrupt, the first round that can answer does |
| `execution_plan` | four families of manifests with up to 3 services, 4 tasks, 2 slots and 6 ports; every task in every slot | admission and planning agree with each other and with the definitions |
| `capture_relay` | 6 sets of secrets, outputs of up to 4 bytes, reads of up to 3; one stream long and the other empty, or a byte on each | log files are a beginning of the redacted output, the outcome is true, settling ends |

Why these bounds are enough to be interesting. Two runs are a predecessor and a
successor, and every hazard of recovery is between two; a third would recover
the second as the second does the first. A service and an invocation of one run
cover a failure while another workload is up. The second run's invocation shows
new work after recovery. A purge covers both modes of clean, because a standard
clean does a part of it. Two interferences are a replacement (away, and back
with something else, also with the same inode number), or one of them and a
foreign file; three deaths kill the original deletion, its resumption and
another resumption. Commands do not restart after `done` or `crashed`, so
`CHECK_DEADLOCK FALSE` is set for the slot's runs: it really stops there. In
`GenerationCleanup` commands keep coming, and deadlock is checked. The bounds in
guards are `MaxTampers`, `MaxFaults` and, in `Begin`, the generations left.

For the ensures: two of them and a run of another request are every pair of
parties that can meet (an ensure selects the other's session, or the other
request's, or wins itself), and three publications in one file are a first, a
later one and one before the enrollment. Launchers and runs do not start again,
so deadlock is not checked. `MaxFiles` bounds `RemoveRegistry`; two files are an
old and a new one, and one file, as in the run `ensure`, is the premise of
`NoFalseCorruption`. Symmetry is used in the run `ensure` only, which has no
liveness property. `Casts` says who may meet: everybody in `ensure`, and in
`ensure_live`, where the registry may be replaced, the ensure with one kind of
party at a time.

For the start of a service: each owner alone meets every interleaving with the
host and with a stranger on its addresses; a lock held by another runtime
(`Other`) stands for the second owner, whose steps between lock and release are
those of the first. `MaxAttempts` 2 is a round and its retry;
`MaxSockets` is 2, a listener and its replacement, for the second owner and 1
for the others. Two endpoints held by two processes are the least number for
which an observation establishes one after the other and meets both in different
processes. `Serves` says which process listens where: the helper for the first
owner, so that failures meet a listener that may stray, and one endpoint each for
the last, because the steps of an observation multiply the states; the proofs
take any. For the observation: two services make sampling
take several steps and one of them lost while the other lives; a second leaf is a
later task that fails after the observed one succeeded. The families of
manifests are free in one respect each: `Wirings` in what services need,
directly and by their preparations, `Nestings` in the dependencies of steps in
composites that may contain each other, `Placements` in windows that overlap,
touch, are exactly full or end at the last port (6 here, 65535 in the code),
`Scopes` in placeholders. Every refusal and the end of the walk are reached.
Their behaviours end, so deadlock is not checked.

For the capture: the sets of secrets have one that overlaps itself, one that is
the beginning of another, and pairs that overlap each other; four bytes are a
secret, its overlap with the next and one byte more, and the process writes byte
by byte, so reads cut them everywhere. The workers share nothing but the
deadline, hence one long stream at a time. A capture is settled once, so deadlock
is not checked.

Every property has a mutant of the code that breaks it (`PROJECT.json`); the
mutated operators stand before the ones they replace.

### Fairness

`FairSpec` of `SlotSession` asks for one thing: a command that has begun and is
not killed takes its own next step, which the operating system's scheduler
grants. Nothing is assumed of workloads (they may hang), of timeouts, of a
waiting acquisition, or of anybody being cancelled; hence liveness is stated for
canceled runs and for downs. `FairDownSpec` adds the receiver thread, which
polls, and the loop of `down`. Its deadline is not fair: the wait must end
without it. `FairSpec` of `GenerationCleanup` has the same fairness for the
command at work; that commands keep coming is a premise inside
`DeletionCompletes`, as the code cannot provide it. `FairSpec` of `SharedEnsure`:
an owner takes its next step (its polling loop included), the host delivers what
was written and closes a dead owner's channel, a launcher reads what is there.
Not fair: the end of a session unless it was canceled, the expiry of a budget,
the start of a command, any death, and the loss of a reply. `FairSpec` of
`ServiceStart`: an owner takes its next step, because each of its waits has a
deadline, but for two: a preparation has one only if its task does
(`docs/CONTRACT.md:96-105`), so its end is no step of the owner, and `StartDecides`
speaks of starts that are past it, canceled or timed; and nothing makes a session
end. The writes of a service's capture, to files, are taken to return
(`docs/CONTRACT.md:714-716` leaves them out of its bound). Nothing is assumed of
the service, its probes or its sockets. The
promptness of an await is an action property of `SessionObservation` and needs no
fairness: a round that starts on a decided question is the last one. `FairSpec`
of `CaptureRelay`: a worker looks at its deadline (its poll has a timeout of its
own), an owner that has begun to settle takes its next step, and time passes.
Nothing makes a process write, end, or close its streams, and nothing makes a
poll, a read or a write fail: a worker that a silent stream keeps in its poll is
freed by the deadline only. That a write to a log file returns is a premise
inside `CaptureSettles`, because the contract's bound leaves it out.

### Type correctness

Every state module has a `TypeOK`, the types of its variables. Those of
`SlotSession`, `GenerationCleanup` and `SharedEnsure` (`DownTypeOK` for
`SlotDown`) are conjuncts of the proved inductive invariants, and those of
`SessionObservation` and `ServiceStart` follow from theirs (`ObservationTypes`,
`ServiceTypes`). That of `CaptureRelay` is a conjunct of its invariant
(`RelayTypes`). `ExecutionPlan` is about one value, the manifest, whose type is
its assumption (`IsManifest`); its inductive invariant carries that and the types
of the plan and of the walk.

## Proofs

A theorem holds for every value of the constants that the assumption named in
its module allows, and for behaviours without any bound but those the model
itself names (`MaxFiles`, `MaxFaults`, `MaxTampers` are arbitrary
naturals here). No safety property below is inductive alone, since none says
what the one who acts knows at its step. Each module therefore has an inductive
invariant that does, in named conjuncts. TLC checked every one of them on the
instances of the runs before it was proved.

### The slot (`SlotProofs`)

For all sets of commands, processes and services and every `RunOf` that satisfy
`SlotAssumption`:

* `Invariance`: `Spec => []IInv`, and from it `TypeCorrect`,
  `WorkloadsAreRecorded`, `SessionsAreExclusive`, `CompletionIsProof`,
  `DeletionIsExclusive`, `SessionsOwnTheirData`, `PurgeIsExplicit`,
  `SealIsFinal`;
* `OutcomesAreFinal`, `OwnersProveCapture`, `DataIsOwned`: action properties;
* `SlotKeepsLedger`, `SlotKeepsGeneration`: the two refinements.

`SlotSessionInvariant` says who is inside (`LockInv`), what an arriving command
and recovery hold (`RecoveryInv`), which rows exist at which step (`RunsInv`),
which workload a step is about and how far it got (`CurInv`), that services are
the session's own obligations (`ServicesInv`), what rows say of processes and
runs (`RowsInv`), what recovery settled (`QuietInv`) and which data a step may
rely on (`DataInv`). Even type correctness needs `CurInv`: settlement writes the
row of `cur`, which must be a process key. There is one lemma per group of
actions, and under it one step per conjunct that the action can disturb. The
action properties use a lemma that says which actions write a variable
(`Writers`, `DataWriters`) and then look only at those; the refinements show
that each action is a step of the abstract specification or a stutter.

### `down` (`SlotProofs`)

* `DownInvariance`: `DownSpec => []DInv`, where `DInv` holds `IInv` of the slot;
* `SettlementIsProof`, `SilenceIsProof`: `SettledProvesRelease` and
  `UnheardMeansNoOwner`.

The steps of the slot are those of `SlotSession`, so the proof of `IInv` is cited
per step and not repeated; new is the wait that ends without the lock. `down`
concludes from what it does not see, so `DInv` adds when its selection was made
and who published since (`SeenInv`), which owners still answer (`EndpointInv`),
and how far the `down` is (`PhaseInv`).

### The application tree (`GenerationCleanupProofs`)

From `GenerationAssumption` and `NoneAssumption` (the absent marker is not a
marker), with any number of deaths and interferences:

* `CleanupInvariance`: `Spec => []CInv`, and from it `PayloadKeepsMarker` and
  `DeletionIsTrue`; `DeletionIsIntended`, an action property under `CInv`, about
  contents: `remove_root` removes an empty directory by name after a check, and
  a directory that somebody swaps in between, if it is empty, may go in its
  place;
* `QuietInvariance` and from it `OwnTreeStaysAdmitted`, whose property is itself
  about undisturbed trees;
* `CleanupKeepsGeneration`: `Spec /\ [](tampers = 0) => ImplementsGeneration`.

`CInv` says at each step which directory is held, what was read there and what
the pending row says of it. Interference between two steps may falsify each of
these, so they are stated of directories the runtime made; one that was taken
away under a held descriptor is empty for good (`DeadInv`). `QuietInv` ties every
state that a death can leave to the step that continues it. The hypothesis of the
refinement is the run's as well: an abstract generation does not describe a tree
that somebody else replaces.

### Shared ensure (`SharedEnsureProofs`)

From `EnsureAssumption` and `NoneAssumption` (the absent value is neither a
number nor a reply), in three layers:

* `EnsureInvariance` and `CertaintyHolds`: an owner holds the slot between its
  acquisition and its close (`GuardInv`), its process and its channel agree on
  what was published and written (`ChannelInv`), so a launcher is told nothing
  that its owner can still falsify (`LauncherInv`, `CertaintyIsTrue`);
* `LineageInvariance` and `LineageHolds`: a run is published under one inode
  (`RegistryInv`), and who carries a history has read files of its inode only,
  none of them with a longer log than the history knows (`ReadInv`, `AnswerInv`),
  although files are removed and made anew under any inode that was free. That it
  was one and the same file is not claimed, and does not hold;
* `IntactInvariance`, `ReadersAgree` and `EnsureKeepsPromise`, under
  `[][~ RemoveRegistry]_vars`: an unfinished session is the latest (`OrderInv`),
  no history is ahead of the registry (`PastInv`), that of an owner continues
  that of its ensure (`CursorInv`), and an answer names the first publication
  after the watermark (`FirstInv`). Every step under it is one of
  `FirstPublication` or a stutter.

The hypothesis is needed: a history of a removed file rightly contradicts the new
one. `OneFileStays` proves it from `MaxFiles = 1`, the bound of the run that
checks these two properties, so run and theorem are about the same behaviours.
The module also has lemmas about reading a log: the first publication after a
watermark, and what appending to the log changes of it.

### Observation (`SessionObservationProofs`)

From `ObservationAssumption`, for any number of services and leaves:

* `ObservationInvariance`, `ObservationTypes`;
* `RefusalsAreFacts`, `HonestRunsAreBelieved`: `RefusalStands` and
  `HonestIsNotCorrupt`;
* `SatisfactionIsTrue`, `DecidedRoundsAnswer`: the action properties
  `SatisfiedIsTrue` and `DecidedRoundAnswers`.

The session does not know of its observer. `SessionInv` is proved for it alone,
with one more fact about each of its steps, `Progressed`: nothing final is taken
back (a lost process, a settled run, an ended service, a success, and `Doomed`, a
task that was observed to fail or whose evidence is incomplete). `RoundInv` says
what the candidate, the samples and an answer still claim. The observer reads
them at different moments, and they stay true because each is a final fact.
`ReasonIsFact` opens the ordered list of reasons once, in both directions: what a
reason claims, and what holds when there is none.

### Starting services (`ServiceStartProofs`)

From `ServiceAssumption`, for any number of owners and addresses, with services
of any number of endpoints:

* `ServiceInvariance`, `ServiceTypes`;
* `TreesAreOwed`, `StartsAreGuarded`, `VerdictsAreObserved`: `TreeIsOwed`,
  `StartIsGuarded` and `VerdictIsObserved`;
* `RoundInvariance`, and from it `RoundsAreFresh`: the action property
  `RoundIsFresh`.

`SInv` is `TypeOK` and, of each owner, which steps have a child and a row that
owes it (`Launching`), what containment and capture proved of a tree that goes on
by itself (`Ending`), which locks are held (`Guarded`), which keys of the round
have a fresh success (`Checking`), where the probe, its row and its result are
(`Probing`), and the two invariants, owner by owner (`Owing`, `Settling`).
`TreeIsOwed` rests on `Ending`: a tree may fork and stray between the look that
contained it and the settlement, and what was proved must survive that.
`StartIsGuarded` rests on `Guarded` at every step of every owner, not only at
those the property names: a lock that is held is freed by nobody else. Owners
meet only at locks and sockets, so the proof has three layers: what a step leaves
of the other owners (`OthersInv`), what the host may do to any tree at any time
(`Hosted`), and one lemma per action of the owner that acts.

`RInv`, beside `SInv`, is about the listeners. `Scanning` says that whatever an
observation has in hand was there when it was met. `Witnessing` says that an
initial witness that did not hold all the time is `Lost` for good (its socket
closed, or its process left the group), since sockets are not numbered again and
a helper does not come back (`Ageing`); so what the second observation meets
again, read twice and verified on both sides, had held in between, however long
the observation takes and whatever it looks at before. That the first of two
endpoints still holds when the second is met is not claimed, and does not hold.

### Plans (`ExecutionPlanProofs`)

From `PlanAssumption`, which gives the shape of a manifest (`IsManifest`: finite
lists of services, tasks and windows, finite sets of endpoints) and nothing about
its names, which may be undeclared, circular or impossible; for any families of
manifests and any last port:

* `PlanInvariance`;
* `RefusalsAreDeserved`, `AdmittedAlwaysRuns`, `LeavesRunInOrder`,
  `PortsAreDisjoint`: `OnlyTheImpossibleIsRefused`, `AdmittedRuns`,
  `StepsInOrder` and `PortsBelongToOne`.

The program's steps are few; what has to be proved is what its algorithms
compute for every manifest. The library's induction theorems take an operator,
so the inductions are least counterexamples: `Induction` of `SequenceFacts` over
a set of numbers, `CallInduction` over the calls of the emission of leaves,
measured by the tasks a call has not visited. That a recursive function exists
is proved for each (`Iterates`, `EmitExists`, `LeadsExists`); after that only
its equation is used. On this rest:

* *The order.* `FirstReady` returns distinct items, each after what it needs, and
  stops short only where every item left still waits (`FirstReadyIsOrder`). If
  no item is in its own closure, that is never so: among those that wait, the
  one with the smallest set of items behind it waits for one with a smaller set
  (`AcyclicIsOrdered`).
* *The closure.* `CloseUnion` is the smallest closed set around its roots
  (`CloseUnionIsClosure`); so what a plan requires is closed, and what the
  planner orders is what admission looked at.
* *The ports.* A port is the start of the window plus the number of endpoints
  before it, hence increasing, and inside where admission counted that they fit
  (`PortsAreInOrder`). Windows are compared with their neighbours only;
  `WindowsAreApart` takes that to all pairs.
* *The leaves.* `Tree` says of the leaves of a call that each stands at its place
  in the nested tasks (`Placed`), waits for the steps that its step names
  (`Waiting`), that no step is left out (`Whole`), that paths differ and, where no
  steps wait for each other, that no leaves do. Each part is carried from the
  branches to the joined leaves by a lemma of its own (`JoinedPlaced` to
  `JoinedUnknotted`), then over all calls (`EmitsTree`).

`PInv` joins them: `Checked` is what the checks passed so far say of the
manifest, `Walked` how far the plan is and that it is the plan of a task in a
slot. It says that the step is never `broken`, which is `AdmittedRuns`. A refusal
is the opposite direction, from the result of a check to a fact about the graph:
a call that emits nothing has met a task on its own path (`EmptyIsCircular`,
`UnflattenedIsCircular`), a service that reaches itself is on a circle
(`ReachedIsCircular`), and what is counted for room is really needed
(`RequiredIsNeeded`). For the order of the leaves, a set that is closed under
"waits for" and reached from a leaf is compared with the leaves that come before
it (`NoneComesTooEarly`); `Whole` is needed there: a dependency that passes
through a step with no leaf in it would order nothing.

### Captured output (`CaptureRelayProofs`)

From `RelayAssumption`, by which secrets are sets of nonempty byte sequences,
outputs are byte sequences and a read takes at least one byte; for any number of
secrets, overlapping or not, any output, and any way of cutting it into reads:

* `RelayInvariance`, `RelayTypes`;
* `FilesAreRedacted`, `OutcomesAreTrue`: `RetainedIsRedacted` and
  `OutcomeIsTrue`.

`Replaced` says of the whole output where secrets start, with no chunks and no
order of scanning. Such places exist, since each is decided by the ones before
it (`StartsExist`). The proof cuts that definition at a place: `Beginning` is
what it makes of the first bytes, `Decided` says that no secret goes on there.
Then the scan of the code, whose recursive function exists by an induction
downwards (`ScanUnrolls`), is compared with it:

* *What a chunk shows.* A chunk lacks the bytes that were not read yet, and the
  longest secret at a place may need them. Up to its undecided start it shows the
  same secrets as the whole output (`ChunkShows`, `UndecidedStartIs`); this is
  what `undecided_start` is for.
* *What a scan adds.* Scanning from a decided place leads to a decided place and
  appends what is between them (`ScanAdds`), both for the bytes at hand
  (`AvailableAdds`) and for the tail at the end of the stream (`TailAdds`).

`RInv` has the types and four parts: a file is `Beginning` of the bytes it has
used, these end at a decided place, and a failed one is still a prefix
(`Retained`); a stream without a writer is complete, and its worker ends with
all of it (`Streamed`); what the owner has asked of the workers at its step, and
that none stops short without a deadline (`Asked`); and what it may conclude
once it joined (`Judged`). A failed write leaves a prefix of what was to be
appended, and a prefix of a prefix is one (`PrefixOfJoined`, `PrefixOfPrefix`),
so `RetainedIsRedacted` holds of partial files too.

### What is only model-checked

Liveness, under the fairness above: the prover has neither ENABLED nor fairness.
These are `AuthorityReleased`, `DownReturns`, `DeletionCompletes`,
`AbandonedOwnerEnds`, `EnsureIsAnswered`, `StartDecides` and `CaptureSettles`.
Every invariant, action property and refinement that a run checks is proved.

`PersistentNeedsPurge` and `SealedIsComplete` are conjuncts of `IInv`, which the
run `session_data` checks; their theorems are in `SlotProofs`.

## Plan

Modelling is complete for what the list under "Not modelled" leaves, and every
safety property is proved. What could come next is more of the program: the
admission of secrets, whose result `CaptureRelay` takes as given, and the report
of several failures.
