------------------------------ MODULE SlotProofs ------------------------------
(***************************************************************************)
(* Proofs about the slot for any number of commands and processes, and     *)
(* about down for any number of sessions and down commands.                *)
(*                                                                         *)
(* Every step of the slot preserves the types; with them every step        *)
(* preserves IInv.  The safety properties are conjuncts or consequences of *)
(* IInv; the action properties and the refinements of SessionLedger and of *)
(* DataGeneration hold of each step that starts and ends in it.            *)
(*                                                                         *)
(* The steps of the slot are those of SlotSession in SlotDown too, except  *)
(* that a waiting down may end without ever taking the slot; both preserve *)
(* IInv.  What down concludes rests on three facts that no single step     *)
(* shows: when its selection was made (SeenInv), which owners still answer *)
(* (EndpointInv), and how far the down is when it concludes (PhaseInv).    *)
(***************************************************************************)

EXTENDS SlotDown, SlotSessionInvariant, TLAPS

-----------------------------------------------------------------------------
(* Types.                                                                  *)

\* Retention and clean leave a generation, or nothing, in each of their places.
LEMMA RetentionTypes ==
  ASSUME TypeOK, NEW c \in Cmds, NEW from \in PCs, NEW to \in PCs, NEW allowed \in BOOLEAN,
         \/ RetainNothing(c, from, to)
         \/ RecordIntent(c, from, allowed)
         \/ RemoveTree(c, from)
         \/ CompleteDeletion(c, from, to)
  PROVE  TypeOK'
<1> USE DEF TypeOK, Step, sessionVars, procVars, localVars, dataVars
<1>1. CASE RetainNothing(c, from, to)
  BY <1>1 DEF RetainNothing
<1>2. CASE RecordIntent(c, from, allowed)
  BY <1>2 DEF RecordIntent
<1>3. CASE RemoveTree(c, from)
  BY <1>3 DEF RemoveTree
<1>4. CASE CompleteDeletion(c, from, to)
  BY <1>4 DEF CompleteDeletion
<1>5. QED
  BY <1>1, <1>2, <1>3, <1>4

\* No step leaves the types of the variables.  A settlement needs more than
\* the types to begin with: that it is about a process key (CurInv).
LEMMA TypeStep == IInv /\ [Next]_vars => TypeOK'
<1> SUFFICES ASSUME IInv, [Next]_vars PROVE TypeOK'
  OBVIOUS
<1>0. TypeOK /\ CurInv
  BY DEF IInv
<1> USE SlotAssumption
    DEF Step, Cmds, Outcomes, PCs, HeldPCs, SetupPCs, RecoverPCs, PreparePCs,
        ExecPCs, WorkPCs, FinalPCs, StopPCs, OutputPCs, sessionVars, procVars,
        localVars, dataVars, Unwind, SettleRow, EscapeRow, Failure, Observed
<1>1. CASE UNCHANGED vars
  BY <1>0, <1>1 DEF TypeOK, vars
<1>2. ASSUME NEW c \in Cmds,
             Acquire(c) \/ Refused(c) \/ Close(c) \/ Reject(c) \/ Crash(c)
      PROVE  TypeOK'
  BY <1>0, <1>2 DEF TypeOK, Acquire, Refused, Close, Reject, Crash, Forget
<1>3. ASSUME NEW c \in Cmds, Recovering(c) PROVE TypeOK'
  <2>1. CASE RecordInterrupted(c)
    BY <1>0, <2>1 DEF TypeOK, RecordInterrupted
  <2>2. ASSUME NEW p \in Procs,
               \/ SettleGone(c, p) \/ NoteSurvivor(c, p)
               \/ ContainSurvivor(c, p) \/ SurvivorEscapes(c, p)
        PROVE  TypeOK'
    BY <1>0, <2>2 DEF TypeOK, SettleGone, NoteSurvivor, ContainSurvivor, SurvivorEscapes
  <2>3. CASE SettleSurvivor(c) \/ StopDone(c)
    BY <1>0, <2>3 DEF TypeOK, SettleSurvivor, StopDone
  <2>4. CASE \/ RetainNothing(c, "retain", "recovered")
             \/ RecordIntent(c, "retain", ~keep)
             \/ RemoveTree(c, "retain")
             \/ CompleteDeletion(c, "retain", "recovered")
    BY <1>0, <2>4, RetentionTypes
  <2>5. QED
    BY <1>3, <2>1, <2>2, <2>3, <2>4 DEF Recovering
<1>4. ASSUME NEW c \in Cmds, RecordRecovered(c) PROVE TypeOK'
  BY <1>0, <1>4 DEF TypeOK, RecordRecovered, AfterRecovery, Unfinished
<1>5. ASSUME NEW c \in Cleans, Clean(c) PROVE TypeOK'
  <2>1. CASE CleanNothing(c)
    BY <1>0, <2>1 DEF TypeOK, CleanNothing
  <2>2. CASE \/ RecordIntent(c, "clean", ~keep \/ c \in Purges)
             \/ RemoveTree(c, "clean")
             \/ CompleteDeletion(c, "clean", "closing")
    BY <1>0, <2>2, RetentionTypes
  <2>3. QED
    BY <1>5, <2>1, <2>2 DEF Clean
<1>6. ASSUME NEW r \in Runs, Establish(r) PROVE TypeOK'
  <2>1. CASE PrepareState(r)
    BY <1>0, <2>1 DEF TypeOK, PrepareState
  <2>2. CASE ClaimRunDir(r) \/ RecordRunCreated(r)
    BY <1>0, <2>2 DEF TypeOK, ClaimRunDir, RecordRunCreated
  <2>3. QED
    BY <1>6, <2>1, <2>2 DEF Establish
<1>7. ASSUME NEW r \in Runs, Execute(r) \/ WorkFails(r) PROVE TypeOK'
  <2> USE DEF TypeOK
  <2>1. CASE \E p \in Procs : Launch(r, p)
    BY <1>0, <2>1 DEF Launch
  <2>2. CASE Register(r) \/ LaunchFails(r) \/ Permit(r) \/ ReleaseFails(r)
    BY <1>0, <2>2 DEF Register, LaunchFails, Permit, ReleaseFails
  <2>3. CASE ServiceStarted(r) \/ ServiceReady(r) \/ InvocationExits(r)
    BY <1>0, <2>3 DEF ServiceStarted, ServiceReady, InvocationExits
  <2>4. CASE WorkCanceled(r) \/ WorkFails(r) \/ Contain(r, "containing", "settling")
    BY <1>0, <2>4 DEF WorkCanceled, WorkFails, Contain
  <2>5. CASE WorkloadUnsettled(r, "containing") \/ WorkloadUnsettled(r, "settling")
    BY <1>0, <2>5 DEF CurInv, Obligations, WorkloadUnsettled
  <2>6. CASE SettleDone(r) \/ SettleFailed(r)
    BY <1>0, <2>6 DEF CurInv, Obligations, SettleDone, SettleFailed
  <2>7. CASE SessionDone(r) \/ SessionFails(r)
    BY <1>0, <2>7 DEF SessionDone, SessionFails
  <2>8. QED
    BY <1>7, <2>1, <2>2, <2>3, <2>4, <2>5, <2>6, <2>7 DEF Execute
<1>8. ASSUME NEW r \in Runs, Finalize(r) PROVE TypeOK'
  <2>1. CASE RecordOutcome(r) \/ TeardownDone(r) \/ \E p \in Procs : StopService(r, p)
    BY <1>0, <2>1 DEF TypeOK, RecordOutcome, TeardownDone, StopService
  <2>2. CASE Contain(r, "stopping", "stopped") \/ StopSettled(r)
    BY <1>0, <2>2 DEF CurInv, Obligations, TypeOK, Contain, StopSettled
  <2>3. CASE StopUnsettled(r, "stopping") \/ StopUnsettled(r, "stopped")
    BY <1>0, <2>3 DEF CurInv, Obligations, TypeOK, StopUnsettled
  <2>4. CASE \/ RetainNothing(r, "retire", "record")
             \/ RecordIntent(r, "retire", ~keep)
             \/ RemoveTree(r, "retire")
             \/ CompleteDeletion(r, "retire", "record")
    BY <1>0, <2>4, RetentionTypes
  <2>5. CASE RetireFails(r) \/ RecordComplete(r) \/ CloseSources(r)
    BY <1>0, <2>5 DEF TypeOK, RetireFails, RecordComplete, CloseSources
  <2>6. CASE SealOutput(r) \/ LeaveUnsealed(r) \/ ShutdownControl(r)
    BY <1>0, <2>6 DEF TypeOK, SealOutput, LeaveUnsealed, ShutdownControl
  <2>7. QED
    BY <1>8, <2>1, <2>2, <2>3, <2>4, <2>5, <2>6 DEF Finalize
<1>9. ASSUME NEW p \in Procs, Exec(p) \/ Exit(p) PROVE TypeOK'
  BY <1>0, <1>9 DEF TypeOK, Exec, Exit
<1>10. ASSUME NEW r \in Runs, Cancel(r) PROVE TypeOK'
  BY <1>0, <1>10 DEF TypeOK, Cancel
<1>11. QED
  BY <1>1, <1>2, <1>3, <1>4, <1>5, <1>6, <1>7, <1>8, <1>9, <1>10 DEF Next, Work

-----------------------------------------------------------------------------
(* The inductive invariant, one lemma for each part of the next-state      *)
(* relation.                                                               *)

\* The vocabulary every proof below reads: steps, sets of steps, row states.
USE SlotAssumption
    DEF TypeOK, Step, Cmds, PCs, HeldPCs, SetupPCs, RecoverPCs, PreparePCs, ExecPCs,
        WorkPCs, FinalPCs, StopPCs, OutputPCs, OwnerPCs, sessionVars, procVars,
        localVars, dataVars, Obligations, Unfinished, Released, Alive

\* Taking, losing and giving up the lock change nobody else's knowledge.
LEMMA AuthorityStep ==
  ASSUME NEW c \in Cmds, IInv, TypeOK',
         \/ Acquire(c)
         \/ Refused(c)
         \/ Close(c)
         \/ Reject(c)
         \/ Crash(c)
  PROVE  IInv'
\* Steps that preserve each conjunct by itself, given the lock.
<1> USE DEF IInv, LockInv, RecoveryInv, RunsInv, CurInv, ServicesInv, RowsInv,
        QuietInv, DataInv, ReleasedIsRecorded, OneUnfinished, SealedIsComplete,
        PersistentNeedsPurge
<1>1. CASE Acquire(c)
  BY <1>1 DEF Acquire, Forget
<1>2. CASE Refused(c)
  BY <1>2 DEF Refused
<1>3. CASE Close(c)
  BY <1>3 DEF Close, Forget
<1>4. CASE Reject(c)
  BY <1>4 DEF Reject
<1>5. CASE Crash(c)
  <2>1. LockInv' /\ RecoveryInv' /\ RunsInv' /\ CurInv'
    BY <1>5 DEF Crash, Forget
  <2>2. ServicesInv' /\ RowsInv'
    BY <1>5 DEF Crash, Forget
  <2>3. QuietInv'
    BY <1>5 DEF Crash, Forget
  <2>4. DataInv'
    <3>1. /\ pc' = [pc EXCEPT ![c] = "crashed"]
          /\ UNCHANGED <<row, data, keep, pending, deleted>>
      BY <1>5 DEF Crash, Forget
    <3>2. DataInv /\ pc \in [Cmds -> PCs]
      BY DEF TypeOK
    <3> HIDE DEF IInv, LockInv, RecoveryInv, RunsInv, CurInv, ServicesInv, RowsInv, QuietInv,
                 ReleasedIsRecorded, OneUnfinished, SealedIsComplete, PersistentNeedsPurge
    <3>3. QED
      BY <3>1, <3>2
  <2>5. /\ ReleasedIsRecorded' /\ OneUnfinished' /\ SealedIsComplete'
        /\ PersistentNeedsPurge'
    BY <1>5 DEF Crash, Forget
  <2>6. QED
    BY <2>1, <2>2, <2>3, <2>4, <2>5, Zenon
<1>6. QED
  BY <1>1, <1>2, <1>3, <1>4, <1>5

\* Recovery settles only what it saw gone and completes only quiet sessions.
LEMMA RecoveryStep ==
  ASSUME NEW c \in Cmds, IInv, TypeOK',
         \/ RecordInterrupted(c)
         \/ \E p \in Procs : SettleGone(c, p)
         \/ \E p \in Procs : NoteSurvivor(c, p)
         \/ \E p \in Procs : ContainSurvivor(c, p)
         \/ \E p \in Procs : SurvivorEscapes(c, p)
         \/ SettleSurvivor(c)
         \/ StopDone(c)
         \/ RetainNothing(c, "retain", "recovered")
         \/ RecordIntent(c, "retain", ~keep)
         \/ RemoveTree(c, "retain")
         \/ CompleteDeletion(c, "retain", "recovered")
         \/ RecordRecovered(c)
  PROVE  IInv'
\* Steps that need more than the conjunct they preserve.
<1>1. CASE \E p \in Procs : SurvivorEscapes(c, p)
  <2>1. RowsInv'
    BY <1>1 DEF IInv, LockInv, RecoveryInv, RowsInv, SurvivorEscapes
  <2>2. DataInv'
    BY <1>1 DEF IInv, LockInv, RecoveryInv, DataInv, SurvivorEscapes
  <2>3. SealedIsComplete'
    BY <1>1 DEF IInv, LockInv, RecoveryInv, SealedIsComplete, SurvivorEscapes
  <2>4. QED
    BY <1>1, <2>1, <2>2, <2>3 DEF IInv, LockInv, RecoveryInv, RunsInv, CurInv,
         ServicesInv, RowsInv, QuietInv, DataInv, ReleasedIsRecorded, OneUnfinished,
         SealedIsComplete, PersistentNeedsPurge, SurvivorEscapes
<1>2. CASE SettleSurvivor(c)
  <2>1. RowsInv'
    BY <1>2 DEF IInv, LockInv, RecoveryInv, RowsInv, SettleSurvivor
  <2>2. ReleasedIsRecorded'
    BY <1>2 DEF IInv, LockInv, RecoveryInv, ReleasedIsRecorded, SettleSurvivor
  <2>3. SealedIsComplete'
    BY <1>2 DEF IInv, LockInv, RecoveryInv, SealedIsComplete, SettleSurvivor
  <2>4. QED
    BY <1>2, <2>1, <2>2, <2>3 DEF IInv, LockInv, RecoveryInv, RunsInv, CurInv,
         ServicesInv, RowsInv, QuietInv, DataInv, ReleasedIsRecorded, OneUnfinished,
         SealedIsComplete, PersistentNeedsPurge, SettleSurvivor
<1>3. CASE RecordRecovered(c)
  <2>1. RowsInv'
    BY <1>3 DEF IInv, LockInv, RowsInv, QuietInv, RecordRecovered, AfterRecovery,
         Outcomes
  <2>2. QED
    BY <1>3, <2>1 DEF IInv, LockInv, RecoveryInv, RunsInv, CurInv, ServicesInv,
         RowsInv, QuietInv, DataInv, ReleasedIsRecorded, OneUnfinished,
         SealedIsComplete, PersistentNeedsPurge, RecordRecovered, AfterRecovery,
         Outcomes
\* Steps that preserve each conjunct by itself, given the lock.
<1> USE DEF IInv, LockInv, RecoveryInv, RunsInv, CurInv, ServicesInv, RowsInv,
        QuietInv, DataInv, ReleasedIsRecorded, OneUnfinished, SealedIsComplete,
        PersistentNeedsPurge
<1>4. CASE RecordInterrupted(c)
  BY <1>4 DEF RecordInterrupted
<1>5. CASE \E p \in Procs : SettleGone(c, p)
  BY <1>5 DEF SettleGone
<1>6. CASE \E p \in Procs : NoteSurvivor(c, p)
  BY <1>6 DEF NoteSurvivor
<1>7. CASE \E p \in Procs : ContainSurvivor(c, p)
  BY <1>7 DEF ContainSurvivor
<1>8. CASE StopDone(c)
  BY <1>8 DEF StopDone
<1>9. CASE RetainNothing(c, "retain", "recovered")
  BY <1>9 DEF RetainNothing
<1>10. CASE RecordIntent(c, "retain", ~keep)
  BY <1>10 DEF RecordIntent
<1>11. CASE RemoveTree(c, "retain")
  BY <1>11 DEF RemoveTree
<1>12. CASE CompleteDeletion(c, "retain", "recovered")
  BY <1>12 DEF CompleteDeletion
<1>13. QED
  BY <1>1, <1>2, <1>3, <1>4, <1>5, <1>6, <1>7, <1>8, <1>9, <1>10, <1>11, <1>12, Zenon

\* Clean deletes after its recovery, with nothing owed and nothing unfinished.
LEMMA CleanStep ==
  ASSUME NEW c \in Cleans, IInv, TypeOK',
         \/ CleanNothing(c)
         \/ RecordIntent(c, "clean", ~keep \/ c \in Purges)
         \/ RemoveTree(c, "clean")
         \/ CompleteDeletion(c, "clean", "closing")
  PROVE  IInv'
\* Steps that preserve each conjunct by itself, given the lock.
<1> USE DEF IInv, LockInv, RecoveryInv, RunsInv, CurInv, ServicesInv, RowsInv,
        QuietInv, DataInv, ReleasedIsRecorded, OneUnfinished, SealedIsComplete,
        PersistentNeedsPurge
<1>1. CASE CleanNothing(c)
  BY <1>1 DEF CleanNothing
<1>2. CASE RecordIntent(c, "clean", ~keep \/ c \in Purges)
  BY <1>2 DEF RecordIntent
<1>3. CASE RemoveTree(c, "clean")
  BY <1>3 DEF RemoveTree
<1>4. CASE CompleteDeletion(c, "clean", "closing")
  BY <1>4 DEF CompleteDeletion
<1>5. QED
  BY <1>1, <1>2, <1>3, <1>4

\* A run finds a recovered slot and makes the data and the only session its own.
LEMMA EstablishStep ==
  ASSUME NEW r \in Runs, IInv, TypeOK',
         \/ PrepareState(r)
         \/ ClaimRunDir(r)
         \/ RecordRunCreated(r)
  PROVE  IInv'
\* Steps that need more than the conjunct they preserve.
<1>1. CASE PrepareState(r)
  <2>1. PersistentNeedsPurge'
    BY <1>1 DEF IInv, LockInv, DataInv, PersistentNeedsPurge, PrepareState
  <2>2. QED
    BY <1>1, <2>1 DEF IInv, LockInv, RecoveryInv, RunsInv, CurInv, ServicesInv,
         RowsInv, QuietInv, DataInv, ReleasedIsRecorded, OneUnfinished,
         SealedIsComplete, PersistentNeedsPurge, PrepareState
<1>2. CASE RecordRunCreated(r)
  <2>1. ServicesInv'
    BY <1>2 DEF IInv, LockInv, RecoveryInv, ServicesInv, RecordRunCreated
  <2>2. OneUnfinished'
    BY <1>2 DEF IInv, LockInv, QuietInv, OneUnfinished, RecordRunCreated
  <2>3. QED
    BY <1>2, <2>1, <2>2 DEF IInv, LockInv, RecoveryInv, RunsInv, CurInv,
         ServicesInv, RowsInv, QuietInv, DataInv, ReleasedIsRecorded, OneUnfinished,
         SealedIsComplete, PersistentNeedsPurge, RecordRunCreated
\* Steps that preserve each conjunct by itself, given the lock.
<1> USE DEF IInv, LockInv, RecoveryInv, RunsInv, CurInv, ServicesInv, RowsInv,
        QuietInv, DataInv, ReleasedIsRecorded, OneUnfinished, SealedIsComplete,
        PersistentNeedsPurge
<1>3. CASE ClaimRunDir(r)
  <2>1. LockInv' /\ RecoveryInv' /\ RunsInv' /\ CurInv'
    BY <1>3 DEF ClaimRunDir
  <2>2. ServicesInv' /\ RowsInv'
    BY <1>3 DEF ClaimRunDir
  <2>3. QuietInv'
    BY <1>3 DEF ClaimRunDir
  <2>4. DataInv'
    <3>1. /\ pc[r] = "claim" /\ pc' = [pc EXCEPT ![r] = "commit"]
          /\ UNCHANGED <<row, data, keep, pending, deleted>>
      BY <1>3 DEF ClaimRunDir
    <3>2. DataInv /\ pc \in [Cmds -> PCs]
      BY DEF TypeOK
    <3> HIDE DEF IInv, LockInv, RecoveryInv, RunsInv, CurInv, ServicesInv, RowsInv, QuietInv,
                 ReleasedIsRecorded, OneUnfinished, SealedIsComplete, PersistentNeedsPurge
    <3>3. QED
      BY <3>1, <3>2
  <2>5. /\ ReleasedIsRecorded' /\ OneUnfinished' /\ SealedIsComplete'
        /\ PersistentNeedsPurge'
    BY <1>3 DEF ClaimRunDir
  <2>6. QED
    BY <2>1, <2>2, <2>3, <2>4, <2>5, Zenon
<1>4. QED
  BY <1>1, <1>2, <1>3

\* Registration comes before permission and containment before settlement.
LEMMA ExecuteStep ==
  ASSUME NEW r \in Runs, IInv, TypeOK',
         \/ \E p \in Procs : Launch(r, p)
         \/ Register(r)
         \/ LaunchFails(r)
         \/ Permit(r)
         \/ ReleaseFails(r)
         \/ ServiceStarted(r)
         \/ ServiceReady(r)
         \/ InvocationExits(r)
         \/ WorkCanceled(r)
         \/ WorkFails(r)
         \/ Contain(r, "containing", "settling")
         \/ WorkloadUnsettled(r, "containing")
         \/ WorkloadUnsettled(r, "settling")
         \/ SettleDone(r)
         \/ SettleFailed(r)
         \/ SessionDone(r)
         \/ SessionFails(r)
  PROVE  IInv'
\* Steps that need more than the conjunct they preserve.
<1>1. CASE \E p \in Procs : Launch(r, p)
  <2>1. CurInv'
    BY <1>1 DEF IInv, LockInv, CurInv, RowsInv, Launch
  <2>2. QED
    BY <1>1, <2>1 DEF IInv, LockInv, RecoveryInv, RunsInv, CurInv, ServicesInv,
         RowsInv, QuietInv, DataInv, ReleasedIsRecorded, OneUnfinished,
         SealedIsComplete, PersistentNeedsPurge, Launch
<1>2. CASE Register(r)
  <2>1. CurInv'
    BY <1>2 DEF IInv, LockInv, CurInv, ServicesInv, Register
  <2>2. SealedIsComplete'
    BY <1>2 DEF IInv, LockInv, CurInv, SealedIsComplete, Register
  <2>3. RowsInv'
    BY <1>2 DEF IInv, LockInv, RunsInv, CurInv, RowsInv, Register
  <2>4. QED
    BY <1>2, <2>1, <2>2, <2>3 DEF IInv, LockInv, RecoveryInv, RunsInv, CurInv,
         ServicesInv, RowsInv, QuietInv, DataInv, ReleasedIsRecorded, OneUnfinished,
         SealedIsComplete, PersistentNeedsPurge, Register
<1>3. CASE LaunchFails(r)
  <2>1. CurInv'
    BY <1>3 DEF IInv, LockInv, CurInv, ServicesInv, LaunchFails, Unwind, Failure,
         Outcomes
  <2>2. QED
    BY <1>3, <2>1 DEF IInv, LockInv, RecoveryInv, RunsInv, CurInv, ServicesInv,
         RowsInv, QuietInv, DataInv, ReleasedIsRecorded, OneUnfinished,
         SealedIsComplete, PersistentNeedsPurge, LaunchFails, Unwind, Failure,
         Outcomes
<1>4. CASE Permit(r)
  <2>1. ReleasedIsRecorded'
    BY <1>4 DEF IInv, LockInv, CurInv, ReleasedIsRecorded, Permit
  <2>2. QED
    BY <1>4, <2>1 DEF IInv, LockInv, RecoveryInv, RunsInv, CurInv, ServicesInv,
         RowsInv, QuietInv, DataInv, ReleasedIsRecorded, OneUnfinished,
         SealedIsComplete, PersistentNeedsPurge, Permit
<1>5. CASE ServiceStarted(r)
  <2>1. ServicesInv'
    BY <1>5 DEF IInv, LockInv, CurInv, ServicesInv, ServiceStarted
  <2>2. QED
    BY <1>5, <2>1 DEF IInv, LockInv, RecoveryInv, RunsInv, CurInv, ServicesInv,
         RowsInv, QuietInv, DataInv, ReleasedIsRecorded, OneUnfinished,
         SealedIsComplete, PersistentNeedsPurge, ServiceStarted
<1>6. CASE WorkloadUnsettled(r, "containing")
  <2>1. CurInv'
    BY <1>6 DEF IInv, LockInv, CurInv, ServicesInv, WorkloadUnsettled, Unwind,
         EscapeRow, Observed
  <2>2. RowsInv'
    BY <1>6 DEF IInv, LockInv, CurInv, RowsInv, WorkloadUnsettled, Unwind,
         EscapeRow, Observed
  <2>3. SealedIsComplete'
    BY <1>6 DEF IInv, LockInv, CurInv, SealedIsComplete, WorkloadUnsettled, Unwind,
         EscapeRow, Observed
  <2>4. QED
    BY <1>6, <2>1, <2>2, <2>3 DEF IInv, LockInv, RecoveryInv, RunsInv, CurInv,
         ServicesInv, RowsInv, QuietInv, DataInv, ReleasedIsRecorded, OneUnfinished,
         SealedIsComplete, PersistentNeedsPurge, WorkloadUnsettled, Unwind,
         EscapeRow, Observed
<1>7. CASE WorkloadUnsettled(r, "settling")
  <2>1. CurInv'
    BY <1>7 DEF IInv, LockInv, CurInv, ServicesInv, WorkloadUnsettled, Unwind,
         EscapeRow, Observed
  <2>2. RowsInv'
    BY <1>7 DEF IInv, LockInv, CurInv, RowsInv, WorkloadUnsettled, Unwind,
         EscapeRow, Observed
  <2>3. SealedIsComplete'
    BY <1>7 DEF IInv, LockInv, CurInv, SealedIsComplete, WorkloadUnsettled, Unwind,
         EscapeRow, Observed
  <2>4. QED
    BY <1>7, <2>1, <2>2, <2>3 DEF IInv, LockInv, RecoveryInv, RunsInv, CurInv,
         ServicesInv, RowsInv, QuietInv, DataInv, ReleasedIsRecorded, OneUnfinished,
         SealedIsComplete, PersistentNeedsPurge, WorkloadUnsettled, Unwind,
         EscapeRow, Observed
<1>8. CASE SettleDone(r)
  <2>1. ServicesInv'
    BY <1>8 DEF IInv, LockInv, CurInv, ServicesInv, SettleDone, SettleRow
  <2>2. RowsInv'
    BY <1>8 DEF IInv, LockInv, CurInv, RowsInv, SettleDone, SettleRow
  <2>3. ReleasedIsRecorded'
    BY <1>8 DEF IInv, LockInv, CurInv, ReleasedIsRecorded, SettleDone, SettleRow
  <2>4. QED
    BY <1>8, <2>1, <2>2, <2>3 DEF IInv, LockInv, RecoveryInv, RunsInv, CurInv,
         ServicesInv, RowsInv, QuietInv, DataInv, ReleasedIsRecorded, OneUnfinished,
         SealedIsComplete, PersistentNeedsPurge, SettleDone, SettleRow
<1>9. CASE SettleFailed(r)
  <2>1. CurInv'
    BY <1>9 DEF IInv, LockInv, CurInv, ServicesInv, SettleFailed, SettleRow, Unwind
  <2>2. ServicesInv'
    BY <1>9 DEF IInv, LockInv, CurInv, ServicesInv, SettleFailed, SettleRow, Unwind
  <2>3. RowsInv'
    BY <1>9 DEF IInv, LockInv, CurInv, RowsInv, SettleFailed, SettleRow, Unwind
  <2>4. ReleasedIsRecorded'
    BY <1>9 DEF IInv, LockInv, CurInv, ReleasedIsRecorded, SettleFailed, SettleRow,
         Unwind
  <2>5. QED
    BY <1>9, <2>1, <2>2, <2>3, <2>4 DEF IInv, LockInv, RecoveryInv, RunsInv, CurInv,
         ServicesInv, RowsInv, QuietInv, DataInv, ReleasedIsRecorded, OneUnfinished,
         SealedIsComplete, PersistentNeedsPurge, SettleFailed, SettleRow, Unwind
<1>10. CASE SessionFails(r)
  <2>1. CurInv'
    BY <1>10 DEF IInv, LockInv, CurInv, ServicesInv, SessionFails, Unwind, Failure
  <2>2. QED
    BY <1>10, <2>1 DEF IInv, LockInv, RecoveryInv, RunsInv, CurInv, ServicesInv,
         RowsInv, QuietInv, DataInv, ReleasedIsRecorded, OneUnfinished,
         SealedIsComplete, PersistentNeedsPurge, SessionFails, Unwind, Failure
\* Steps that preserve each conjunct by itself, given the lock.
<1> USE DEF IInv, LockInv, RecoveryInv, RunsInv, CurInv, ServicesInv, RowsInv,
        QuietInv, DataInv, ReleasedIsRecorded, OneUnfinished, SealedIsComplete,
        PersistentNeedsPurge
<1>11. CASE ReleaseFails(r)
  BY <1>11 DEF ReleaseFails, Failure
<1>12. CASE ServiceReady(r)
  BY <1>12 DEF ServiceReady
<1>13. CASE InvocationExits(r)
  BY <1>13 DEF InvocationExits
<1>14. CASE WorkCanceled(r)
  BY <1>14 DEF WorkCanceled
<1>15. CASE WorkFails(r)
  BY <1>15 DEF WorkFails
<1>16. CASE Contain(r, "containing", "settling")
  BY <1>16 DEF Contain
<1>17. CASE SessionDone(r)
  <2>1. LockInv' /\ RecoveryInv' /\ RunsInv' /\ CurInv'
    BY <1>17 DEF SessionDone
  <2>2. ServicesInv' /\ RowsInv'
    BY <1>17 DEF SessionDone
  <2>3. QuietInv'
    BY <1>17 DEF SessionDone
  <2>4. DataInv'
    <3>1. /\ pc[r] = "session" /\ pc' = [pc EXCEPT ![r] = "settle"]
          /\ UNCHANGED <<row, data, keep, pending, deleted>>
      BY <1>17 DEF SessionDone
    <3>2. DataInv /\ pc \in [Cmds -> PCs]
      BY DEF TypeOK
    <3> HIDE DEF IInv, LockInv, RecoveryInv, RunsInv, CurInv, ServicesInv, RowsInv, QuietInv,
                 ReleasedIsRecorded, OneUnfinished, SealedIsComplete, PersistentNeedsPurge
    <3>3. QED
      BY <3>1, <3>2
  <2>5. /\ ReleasedIsRecorded' /\ OneUnfinished' /\ SealedIsComplete'
        /\ PersistentNeedsPurge'
    BY <1>17 DEF SessionDone
  <2>6. QED
    BY <2>1, <2>2, <2>3, <2>4, <2>5, Zenon
<1>18. QED
  BY <1>1, <1>2, <1>3, <1>4, <1>5, <1>6, <1>7, <1>8, <1>9, <1>10, <1>11, <1>12,
     <1>13, <1>14, <1>15, <1>16, <1>17, Zenon

\* Finalization settles service by service and claims completion in a quiet slot.
LEMMA FinalizeStep ==
  ASSUME NEW r \in Runs, IInv, TypeOK',
         \/ RecordOutcome(r)
         \/ \E p \in Procs : StopService(r, p)
         \/ Contain(r, "stopping", "stopped")
         \/ StopSettled(r)
         \/ StopUnsettled(r, "stopping")
         \/ StopUnsettled(r, "stopped")
         \/ TeardownDone(r)
         \/ RetainNothing(r, "retire", "record")
         \/ RecordIntent(r, "retire", ~keep)
         \/ RemoveTree(r, "retire")
         \/ CompleteDeletion(r, "retire", "record")
         \/ RetireFails(r)
         \/ RecordComplete(r)
         \/ CloseSources(r)
         \/ SealOutput(r)
         \/ LeaveUnsealed(r)
         \/ ShutdownControl(r)
  PROVE  IInv'
\* Steps that need more than the conjunct they preserve.
<1>1. CASE \E p \in Procs : StopService(r, p)
  <2>1. CurInv'
    BY <1>1 DEF IInv, LockInv, CurInv, ServicesInv, StopService
  <2>2. QED
    BY <1>1, <2>1 DEF IInv, LockInv, RecoveryInv, RunsInv, CurInv, ServicesInv,
         RowsInv, QuietInv, DataInv, ReleasedIsRecorded, OneUnfinished,
         SealedIsComplete, PersistentNeedsPurge, StopService
<1>2. CASE StopSettled(r)
  <2>1. ServicesInv'
    BY <1>2 DEF IInv, LockInv, CurInv, ServicesInv, StopSettled, SettleRow
  <2>2. RowsInv'
    BY <1>2 DEF IInv, LockInv, CurInv, RowsInv, StopSettled, SettleRow
  <2>3. ReleasedIsRecorded'
    BY <1>2 DEF IInv, LockInv, CurInv, ReleasedIsRecorded, StopSettled, SettleRow
  <2>4. QED
    BY <1>2, <2>1, <2>2, <2>3 DEF IInv, LockInv, RecoveryInv, RunsInv, CurInv,
         ServicesInv, RowsInv, QuietInv, DataInv, ReleasedIsRecorded, OneUnfinished,
         SealedIsComplete, PersistentNeedsPurge, StopSettled, SettleRow
<1>3. CASE StopUnsettled(r, "stopping")
  <2>1. RowsInv'
    BY <1>3 DEF IInv, LockInv, CurInv, RowsInv, StopUnsettled, EscapeRow
  <2>2. SealedIsComplete'
    BY <1>3 DEF IInv, LockInv, CurInv, SealedIsComplete, StopUnsettled, EscapeRow
  <2>3. QED
    BY <1>3, <2>1, <2>2 DEF IInv, LockInv, RecoveryInv, RunsInv, CurInv,
         ServicesInv, RowsInv, QuietInv, DataInv, ReleasedIsRecorded, OneUnfinished,
         SealedIsComplete, PersistentNeedsPurge, StopUnsettled, EscapeRow
<1>4. CASE StopUnsettled(r, "stopped")
  <2>1. RowsInv'
    BY <1>4 DEF IInv, LockInv, CurInv, RowsInv, StopUnsettled, EscapeRow
  <2>2. SealedIsComplete'
    BY <1>4 DEF IInv, LockInv, CurInv, SealedIsComplete, StopUnsettled, EscapeRow
  <2>3. QED
    BY <1>4, <2>1, <2>2 DEF IInv, LockInv, RecoveryInv, RunsInv, CurInv,
         ServicesInv, RowsInv, QuietInv, DataInv, ReleasedIsRecorded, OneUnfinished,
         SealedIsComplete, PersistentNeedsPurge, StopUnsettled, EscapeRow
<1>5. CASE RecordComplete(r)
  <2>1. RowsInv'
    BY <1>5 DEF IInv, LockInv, RowsInv, QuietInv, RecordComplete
  <2>2. QED
    BY <1>5, <2>1 DEF IInv, LockInv, RecoveryInv, RunsInv, CurInv, ServicesInv,
         RowsInv, QuietInv, DataInv, ReleasedIsRecorded, OneUnfinished,
         SealedIsComplete, PersistentNeedsPurge, RecordComplete
\* Steps that preserve each conjunct by itself, given the lock.
<1> USE DEF IInv, LockInv, RecoveryInv, RunsInv, CurInv, ServicesInv, RowsInv,
        QuietInv, DataInv, ReleasedIsRecorded, OneUnfinished, SealedIsComplete,
        PersistentNeedsPurge
<1>6. CASE RecordOutcome(r)
  BY <1>6 DEF RecordOutcome
<1>7. CASE Contain(r, "stopping", "stopped")
  BY <1>7 DEF Contain
<1>8. CASE TeardownDone(r)
  BY <1>8 DEF TeardownDone
<1>9. CASE RetainNothing(r, "retire", "record")
  BY <1>9 DEF RetainNothing
<1>10. CASE RecordIntent(r, "retire", ~keep)
  BY <1>10 DEF RecordIntent
<1>11. CASE RemoveTree(r, "retire")
  BY <1>11 DEF RemoveTree
<1>12. CASE CompleteDeletion(r, "retire", "record")
  BY <1>12 DEF CompleteDeletion
<1>13. CASE RetireFails(r)
  BY <1>13 DEF RetireFails
<1>14. CASE CloseSources(r)
  BY <1>14 DEF CloseSources
<1>15. CASE SealOutput(r)
  BY <1>15 DEF SealOutput, CaptureChecked
<1>16. CASE LeaveUnsealed(r)
  BY <1>16 DEF LeaveUnsealed
<1>17. CASE ShutdownControl(r)
  BY <1>17 DEF ShutdownControl
<1>18. QED
  BY <1>1, <1>2, <1>3, <1>4, <1>5, <1>6, <1>7, <1>8, <1>9, <1>10, <1>11, <1>12,
     <1>13, <1>14, <1>15, <1>16, <1>17, Zenon

\* A process tree that executes was permitted; one that ends stays gone.
LEMMA OutsideStep ==
  ASSUME IInv, TypeOK',
         \/ \E p \in Procs : Exec(p) \/ Exit(p)
         \/ \E r \in Runs : Cancel(r)
         \/ UNCHANGED vars
  PROVE  IInv'
\* Steps that preserve each conjunct by itself, given the lock.
<1> USE DEF IInv, LockInv, RecoveryInv, RunsInv, CurInv, ServicesInv, RowsInv,
        QuietInv, DataInv, ReleasedIsRecorded, OneUnfinished, SealedIsComplete,
        PersistentNeedsPurge
<1>1. CASE \E p \in Procs : Exec(p)
  BY <1>1 DEF Exec
<1>2. CASE \E p \in Procs : Exit(p)
  BY <1>2 DEF Exit
<1>3. CASE \E r \in Runs : Cancel(r)
  BY <1>3 DEF Cancel
<1>4. CASE UNCHANGED vars
  BY <1>4 DEF vars
<1>5. QED
  BY <1>1, <1>2, <1>3, <1>4
-----------------------------------------------------------------------------
(* The safety properties.                                                  *)

\* No step leaves the inductive invariant.
LEMMA InvariantStep == IInv /\ [Next]_vars => IInv'
<1> SUFFICES ASSUME IInv, [Next]_vars PROVE IInv'
  OBVIOUS
<1>1. TypeOK'
  BY TypeStep DEF IInv
<1>2. ASSUME NEW c \in Cmds, Work(c) PROVE IInv'
  <2>1. CASE Acquire(c) \/ Reject(c) \/ Close(c)
    BY <1>1, <2>1, AuthorityStep
  <2>2. CASE Recovering(c) \/ RecordRecovered(c)
    BY <1>1, <2>2, RecoveryStep DEF Recovering
  <2>3. CASE c \in Cleans /\ Clean(c)
    BY <1>1, <2>3, CleanStep DEF Clean
  <2>4. CASE c \in Runs /\ Establish(c)
    BY <1>1, <2>4, EstablishStep DEF Establish
  <2>5. CASE c \in Runs /\ Execute(c)
    BY <1>1, <2>5, ExecuteStep DEF Execute
  <2>6. CASE c \in Runs /\ Finalize(c)
    BY <1>1, <2>6, FinalizeStep DEF Finalize
  <2>7. QED
    BY <1>2, <2>1, <2>2, <2>3, <2>4, <2>5, <2>6 DEF Work
<1>3. ASSUME NEW c \in Cmds, Refused(c) \/ Crash(c) PROVE IInv'
  BY <1>1, <1>3, AuthorityStep
<1>4. ASSUME NEW r \in Runs, WorkFails(r) PROVE IInv'
  BY <1>1, <1>4, ExecuteStep
<1>5. CASE \/ \E p \in Procs : Exec(p) \/ Exit(p)
           \/ \E r \in Runs : Cancel(r)
           \/ UNCHANGED vars
  BY <1>1, <1>5, OutsideStep
<1>6. QED
  BY <1>2, <1>3, <1>4, <1>5 DEF Next

\* It holds of an empty slot.
LEMMA InitialInvariant == Init => IInv
<1> SUFFICES ASSUME Init PROVE IInv
  OBVIOUS
<1>1. TypeOK
  BY DEF Init, Outcomes
<1>2. LockInv /\ RecoveryInv /\ RunsInv
  BY DEF Init, LockInv, RecoveryInv, RunsInv
<1>3. CurInv /\ ServicesInv /\ RowsInv
  BY DEF Init, CurInv, ServicesInv, RowsInv
<1>4. QuietInv /\ DataInv
  BY DEF Init, QuietInv, DataInv
<1>5. ReleasedIsRecorded /\ OneUnfinished /\ SealedIsComplete /\ PersistentNeedsPurge
  BY DEF Init, ReleasedIsRecorded, OneUnfinished, SealedIsComplete, PersistentNeedsPurge
<1>6. QED
  BY <1>1, <1>2, <1>3, <1>4, <1>5 DEF IInv

\* The inductive invariant holds in every behaviour of the slot.
THEOREM Invariance == Spec => []IInv
  BY InitialInvariant, InvariantStep, PTL DEF Spec

\* Every variable keeps its type in every behaviour of the slot.
THEOREM TypeCorrect == Spec => []TypeOK
<1>1. IInv => TypeOK
  BY DEF IInv
<1>2. QED
  BY <1>1, Invariance, PTL

\* Whatever crashes, a workload that may execute is an unresolved row, so the
\* next holder of the slot finds it.
THEOREM WorkloadsAreRecorded == Spec => []ReleasedIsRecorded
<1>1. IInv => ReleasedIsRecorded
  BY DEF IInv
<1>2. QED
  BY <1>1, Invariance, PTL

\* No two sessions of a slot are unfinished at once.
THEOREM SessionsAreExclusive == Spec => []OneUnfinished
<1>1. IInv => OneUnfinished
  BY DEF IInv
<1>2. QED
  BY <1>1, Invariance, PTL

\* A session that anybody claimed complete owes nothing, runs nothing and has
\* its outcome.
THEOREM CompletionIsProof == Spec => []CompleteIsSettled
<1>1. IInv => CompleteIsSettled
  <2>1. SUFFICES ASSUME IInv, NEW r \in Runs, r \in complete,
                        NEW p \in Procs, RunOf[p] = r
                 PROVE  p \notin Obligations /\ ~Released(p)
    BY DEF IInv, RunsInv, CompleteIsSettled
  <2>2. p \notin Obligations
    BY <2>1 DEF IInv, RowsInv
  <2>3. QED
    BY <2>1, <2>2 DEF IInv, ReleasedIsRecorded
<1>2. QED
  BY <1>1, Invariance, PTL

\* Data under deletion is used by nobody.
THEOREM DeletionIsExclusive == Spec => []DeletionIsQuiescent
<1>1. IInv => DeletionIsQuiescent
  BY DEF IInv, DataInv, ReleasedIsRecorded, DeletionIsQuiescent
<1>2. QED
  BY <1>1, Invariance, PTL

\* An executing session has data of its own retention, and run-scoped data of
\* no predecessor.
THEOREM SessionsOwnTheirData == Spec => []SessionOwnsItsData
<1>1. IInv => SessionOwnsItsData
  BY DEF IInv, DataInv, SessionOwnsItsData
<1>2. QED
  BY <1>1, Invariance, PTL

\* Only a purge ever puts persistent data under deletion.
THEOREM PurgeIsExplicit == Spec => []PersistentNeedsPurge
<1>1. IInv => PersistentNeedsPurge
  BY DEF IInv
<1>2. QED
  BY <1>1, Invariance, PTL

\* Sealed output has every source closed and checked, for ever.
THEOREM SealIsFinal == Spec => []SealedIsComplete
<1>1. IInv => SealedIsComplete
  BY DEF IInv
<1>2. QED
  BY <1>1, Invariance, PTL

-----------------------------------------------------------------------------
(* Which steps write what.                                                 *)

\* The writers of the execution outcomes, of the finalization records and of
\* the data directory.
LEMMA Writers ==
  ASSUME [Next]_vars
  PROVE  /\ \/ outcome' = outcome
            \/ \E c \in Cmds : RecordInterrupted(c)
            \/ \E r \in Runs : RecordOutcome(r)
         /\ \/ complete' = complete
            \/ \E c \in Cmds : RecordRecovered(c)
            \/ \E r \in Runs : RecordComplete(r)
         /\ \/ data' = data
            \/ \E r \in Runs : PrepareState(r)
            \/ \E c \in Cmds : RemoveTree(c, "retain") \/ RemoveTree(c, "clean")
            \/ \E r \in Runs : RemoveTree(r, "retire")
<1> USE DEF sessionVars, procVars, localVars, dataVars
<1>1. ASSUME NEW c \in Cmds,
             Acquire(c) \/ Refused(c) \/ Reject(c) \/ Close(c) \/ Crash(c)
      PROVE  UNCHANGED <<outcome, complete, data>>
  BY <1>1 DEF Acquire, Refused, Reject, Close, Crash
<1>2. ASSUME NEW c \in Cmds, Recovering(c)
      PROVE  /\ UNCHANGED complete
             /\ UNCHANGED outcome \/ RecordInterrupted(c)
             /\ UNCHANGED data \/ RemoveTree(c, "retain")
  BY <1>2 DEF Recovering, RecordInterrupted, SettleGone, NoteSurvivor, ContainSurvivor,
       SurvivorEscapes, SettleSurvivor, StopDone, RetainNothing, RecordIntent,
       RemoveTree, CompleteDeletion
<1>3. ASSUME NEW c \in Cmds, RecordRecovered(c)
      PROVE  UNCHANGED <<outcome, data>>
  BY <1>3 DEF RecordRecovered
<1>4. ASSUME NEW c \in Cleans, Clean(c)
      PROVE  UNCHANGED <<outcome, complete>> /\ (UNCHANGED data \/ RemoveTree(c, "clean"))
  BY <1>4 DEF Clean, CleanNothing, RecordIntent, RemoveTree, CompleteDeletion
<1>5. ASSUME NEW r \in Runs, Establish(r)
      PROVE  UNCHANGED <<outcome, complete>> /\ (UNCHANGED data \/ PrepareState(r))
  BY <1>5 DEF Establish, PrepareState, ClaimRunDir, RecordRunCreated
<1>6. ASSUME NEW r \in Runs, Execute(r) \/ WorkFails(r)
      PROVE  UNCHANGED <<outcome, complete, data>>
  BY <1>6 DEF Execute, Launch, Register, LaunchFails, Permit, ReleaseFails,
       ServiceStarted, ServiceReady, InvocationExits, WorkCanceled, WorkFails, Contain,
       WorkloadUnsettled, SettleDone, SettleFailed, SessionDone, SessionFails
<1>7. ASSUME NEW r \in Runs, Finalize(r)
      PROVE  /\ UNCHANGED outcome \/ RecordOutcome(r)
             /\ UNCHANGED complete \/ RecordComplete(r)
             /\ UNCHANGED data \/ RemoveTree(r, "retire")
  BY <1>7 DEF Finalize, RecordOutcome, StopService, Contain, StopSettled, StopUnsettled,
       TeardownDone, RetainNothing, RecordIntent, RemoveTree, CompleteDeletion,
       RetireFails, RecordComplete, CloseSources, SealOutput, LeaveUnsealed,
       ShutdownControl
<1>8. ASSUME NEW r \in Runs, Cancel(r) PROVE UNCHANGED <<outcome, complete, data>>
  BY <1>8 DEF Cancel
<1>9. ASSUME NEW p \in Procs, Exec(p) \/ Exit(p)
      PROVE  UNCHANGED <<outcome, complete, data>>
  BY <1>9 DEF Exec, Exit
<1>10. CASE UNCHANGED vars
  BY <1>10 DEF vars
<1>11. ASSUME NEW c \in Cmds, Work(c)
       PROVE  /\ UNCHANGED outcome \/ RecordInterrupted(c) \/ (c \in Runs /\ RecordOutcome(c))
              /\ UNCHANGED complete \/ RecordRecovered(c) \/ (c \in Runs /\ RecordComplete(c))
              /\ \/ UNCHANGED data
                 \/ RemoveTree(c, "retain") \/ RemoveTree(c, "clean")
                 \/ c \in Runs /\ (PrepareState(c) \/ RemoveTree(c, "retire"))
  BY <1>1, <1>2, <1>3, <1>4, <1>5, <1>6, <1>7, <1>11 DEF Work
<1>12. QED
  BY <1>1, <1>6, <1>8, <1>9, <1>10, <1>11 DEF Next

-----------------------------------------------------------------------------
(* The action properties.                                                  *)

USE SlotAssumption
    DEF TypeOK, Step, Cmds, PCs, HeldPCs, SetupPCs, RecoverPCs, PreparePCs, ExecPCs,
        WorkPCs, FinalPCs, StopPCs, OutputPCs, OwnerPCs, sessionVars, procVars,
        localVars, dataVars, Obligations, Unfinished, Released, Alive

\* An outcome is never overwritten; only a successor calls it interrupted.
THEOREM OutcomesAreFinal == Spec => OutcomeWrittenOnce
<1> DEFINE Once == \A r \in Runs :
                     outcome'[r] # outcome[r] =>
                       /\ outcome[r] = "unknown"
                       /\ (outcome'[r] = "interrupted") = (holder # r)
<1>1. IInv /\ [Next]_vars => Once
  <2>1. SUFFICES ASSUME IInv, [Next]_vars PROVE Once
    OBVIOUS
  <2>2. CASE outcome' = outcome
    BY <2>2
  <2>3. ASSUME NEW c \in Cmds, RecordInterrupted(c) PROVE Once
    BY <2>1, <2>3 DEF IInv, RunsInv, RecordInterrupted
  <2>4. ASSUME NEW r \in Runs, RecordOutcome(r) PROVE Once
    BY <2>1, <2>4 DEF IInv, RunsInv, RecordOutcome
  <2>5. QED
    BY <2>1, <2>2, <2>3, <2>4, Writers
<1>2. IInv /\ [Next]_vars => [Once]_vars
  BY <1>1
<1>3. QED
  BY <1>2, Invariance, PTL DEF Spec, OutcomeWrittenOnce

\* A session that its own owner completes has every capture checked.
THEOREM OwnersProveCapture == Spec => OwnerProvesCapture
<1> DEFINE Proved == \A r \in complete' \ complete :
                       holder = r => \A p \in Procs :
                                       RunOf[p] = r /\ row[p] # "none" => p \in captured
<1>1. IInv /\ [Next]_vars => Proved
  <2>1. SUFFICES ASSUME IInv, [Next]_vars PROVE Proved
    OBVIOUS
  <2>2. CASE complete' = complete
    BY <2>2
  <2>3. ASSUME NEW c \in Cmds, RecordRecovered(c) PROVE Proved
    BY <2>1, <2>3 DEF IInv, RunsInv, RecordRecovered
  <2>4. ASSUME NEW r \in Runs, RecordComplete(r) PROVE Proved
    BY <2>1, <2>4 DEF IInv, QuietInv, RowsInv, RecordComplete
  <2>5. QED
    BY <2>1, <2>2, <2>3, <2>4, Writers
<1>2. QED
  BY <1>1, Invariance, PTL DEF Spec, OwnerProvesCapture

\* The data directory goes only under its pending deletion, unused.
THEOREM DataIsOwned == Spec => DataChangesAreOwned
<1> DEFINE Owned == data' # data =>
                      \/ data = None
                      \/ data' = None /\ data = pending /\ Obligations = {}
                           /\ \A p \in Procs : ~Released(p)
<1>1. IInv /\ [Next]_vars => Owned
  <2>1. SUFFICES ASSUME IInv, [Next]_vars PROVE Owned
    OBVIOUS
  <2>2. ASSUME NEW r \in Runs, PrepareState(r) PROVE Owned
    BY <2>2 DEF PrepareState
  <2>3. ASSUME NEW c \in Cmds, NEW from \in PCs, RemoveTree(c, from) PROVE Owned
    BY <2>1, <2>3 DEF IInv, ReleasedIsRecorded, RemoveTree
  <2>4. QED
    BY <2>1, <2>2, <2>3, Writers
<1>2. QED
  BY <1>1, Invariance, PTL DEF Spec, DataChangesAreOwned

-----------------------------------------------------------------------------
(* Refinement: the steps of SessionLedger that a step of the slot takes.   *)

Running == {p \in Procs : Released(p)}

\* Steps that touch neither the run rows, the process rows nor the processes.
LEMMA LedgerStutters ==
  ASSUME UNCHANGED <<published, complete, row, os>>
  PROVE  UNCHANGED Ledger!ledgerVars
BY DEF Ledger!ledgerVars

\* A process tree that goes is a Stop if it might have executed anything.
LEMMA LedgerStop ==
  ASSUME TypeOK, NEW p \in Procs, os' = [os EXCEPT ![p] = "gone"],
         UNCHANGED <<published, complete, row>>
  PROVE  Ledger!Stop(p) \/ UNCHANGED Ledger!ledgerVars
<1>1. UNCHANGED Obligations /\ Running' = Running \ {p}
  BY DEF Running
<1>2. QED
  BY <1>1 DEF Running, Ledger!Stop, Ledger!ledgerVars

\* A settlement of a contained obligation is a Settle.
LEMMA LedgerSettle ==
  ASSUME TypeOK, NEW p \in Obligations, ~Released(p),
         row' = [row EXCEPT ![p] = "settled"], UNCHANGED <<published, complete, os>>
  PROVE  Ledger!Settle(p)
<1>1. UNCHANGED Running /\ Obligations' = Obligations \ {p}
  BY DEF Running
<1>2. QED
  BY <1>1 DEF Running, Ledger!Settle

\* An escape leaves the obligation what it is.
LEMMA LedgerEscape ==
  ASSUME TypeOK, NEW p \in Obligations,
         row' = row \/ row' = [row EXCEPT ![p] = "unsettled"],
         UNCHANGED <<published, complete, os>>
  PROVE  UNCHANGED Ledger!ledgerVars
<1>1. UNCHANGED Running /\ UNCHANGED Obligations
  BY DEF Running
<1>2. QED
  BY <1>1 DEF Running, Ledger!ledgerVars

\* A session is claimed complete with nothing owed and nothing running.
LEMMA LedgerComplete ==
  ASSUME IInv, Obligations = {}, NEW r \in Unfinished, complete' = complete \cup {r},
         UNCHANGED <<published, row, os>>
  PROVE  Ledger!Complete(r)
<1>1. UNCHANGED Running /\ UNCHANGED Obligations
  BY DEF Running
<1>2. Running = {} /\ Unfinished = {r}
  BY DEF IInv, ReleasedIsRecorded, OneUnfinished, Running
<1>3. QED
  BY <1>1, <1>2 DEF Running, Ledger!Complete, Ledger!Open

\* Recovery is a sequence of stops and settlements, then the completion.
LEMMA RecoveryLedger ==
  ASSUME IInv, NEW c \in Cmds, Recovering(c) \/ RecordRecovered(c)
  PROVE  [Ledger!Next]_(Ledger!ledgerVars)
<1>1. ASSUME NEW p \in Procs, SettleGone(c, p) PROVE Ledger!Settle(p)
  BY <1>1, LedgerSettle DEF IInv, SettleGone
<1>2. ASSUME NEW p \in Procs, ContainSurvivor(c, p)
      PROVE  Ledger!Stop(p) \/ UNCHANGED Ledger!ledgerVars
  BY <1>2, LedgerStop DEF IInv, ContainSurvivor
<1>3. ASSUME SettleSurvivor(c) PROVE \E p \in Procs : Ledger!Settle(p)
  <2>1. cur \in Obligations /\ os[cur] = "gone"
    BY <1>3 DEF IInv, RecoveryInv, SettleSurvivor
  <2>2. QED
    BY <1>3, <2>1, LedgerSettle DEF IInv, SettleSurvivor
<1>4. ASSUME NEW p \in Procs, SurvivorEscapes(c, p) PROVE UNCHANGED Ledger!ledgerVars
  BY <1>4, LedgerEscape DEF IInv, RecoveryInv, SurvivorEscapes
<1>5. ASSUME \/ \E p \in Procs : NoteSurvivor(c, p)
             \/ RecordInterrupted(c) \/ StopDone(c)
             \/ RetainNothing(c, "retain", "recovered") \/ RecordIntent(c, "retain", ~keep)
             \/ RemoveTree(c, "retain") \/ CompleteDeletion(c, "retain", "recovered")
      PROVE  UNCHANGED Ledger!ledgerVars
  BY <1>5, LedgerStutters DEF NoteSurvivor, RecordInterrupted, StopDone, RetainNothing,
       RecordIntent, RemoveTree, CompleteDeletion
<1>6. ASSUME RecordRecovered(c)
      PROVE  UNCHANGED Ledger!ledgerVars \/ \E r \in Runs : Ledger!Complete(r)
  <2>1. Obligations = {} /\ UNCHANGED <<published, row, os>>
    BY <1>6 DEF IInv, QuietInv, RecordRecovered
  <2>2. CASE Unfinished = {}
    BY <1>6, <2>1, <2>2, LedgerStutters DEF RecordRecovered
  <2>3. ASSUME NEW r \in Unfinished PROVE Ledger!Complete(r)
    <3>1. Unfinished = {r}
      BY DEF IInv, OneUnfinished
    <3>2. complete' = complete \cup {r}
      BY <1>6, <3>1 DEF RecordRecovered
    <3>3. QED
      BY <2>1, <3>2, LedgerComplete
  <2>4. QED
    BY <2>2, <2>3 DEF IInv
<1>7. QED
  BY <1>1, <1>2, <1>3, <1>4, <1>5, <1>6 DEF Recovering, Ledger!Next

\* Registration, permission and the end of a workload, in that order.
LEMMA ExecuteLedger ==
  ASSUME IInv, NEW r \in Runs, Execute(r) \/ WorkFails(r)
  PROVE  [Ledger!Next]_(Ledger!ledgerVars)
<1>1. ASSUME NEW p \in Procs, Launch(r, p) PROVE UNCHANGED Ledger!ledgerVars
  <2>1. UNCHANGED Running /\ UNCHANGED <<published, complete, Obligations>>
    BY <1>1 DEF IInv, Launch, Running
  <2>2. QED
    BY <2>1 DEF Running, Ledger!ledgerVars
<1>2. ASSUME Register(r) PROVE \E p \in Procs : Ledger!Owe(p)
  <2>1. cur \in Procs /\ RunOf[cur] = r /\ row[cur] = "none" /\ cur \notin Running
    BY <1>2 DEF IInv, CurInv, ReleasedIsRecorded, Register, Running
  <2>2. Unfinished = {r}
    BY <1>2 DEF IInv, RunsInv, OneUnfinished, Register
  <2>3. Obligations' = Obligations \cup {cur} /\ UNCHANGED <<published, complete, Running>>
    BY <1>2, <2>1 DEF IInv, Register, Running
  <2>4. QED
    BY <2>1, <2>2, <2>3 DEF Ledger!Owe, Ledger!Open, Running
<1>3. ASSUME Permit(r) PROVE \E p \in Procs : Ledger!Start(p)
  <2>1. cur \in Obligations
    BY <1>3 DEF IInv, CurInv, Permit
  <2>2. Running' = Running \cup {cur} /\ UNCHANGED <<published, complete, Obligations>>
    BY <1>3, <2>1 DEF IInv, Permit, Running
  <2>3. QED
    BY <2>1, <2>2 DEF Ledger!Start, Running
<1>4. ASSUME LaunchFails(r) \/ Contain(r, "containing", "settling")
      PROVE  UNCHANGED Ledger!ledgerVars \/ \E p \in Procs : Ledger!Stop(p)
  <2>1. cur \in Procs
    BY <1>4 DEF IInv, CurInv, LaunchFails, Unwind, Contain
  <2>2. CASE UNCHANGED <<published, complete, row, os>>
    BY <2>2, LedgerStutters
  <2>3. CASE os' = [os EXCEPT ![cur] = "gone"] /\ UNCHANGED <<published, complete, row>>
    BY <2>1, <2>3, LedgerStop DEF IInv
  <2>4. QED
    BY <1>4, <2>2, <2>3 DEF LaunchFails, Contain
<1>5. ASSUME SettleDone(r) \/ SettleFailed(r) PROVE \E p \in Procs : Ledger!Settle(p)
  <2>1. cur \in Obligations /\ os[cur] = "gone"
    BY <1>5 DEF IInv, CurInv, SettleDone, SettleFailed, Unwind
  <2>2. QED
    BY <1>5, <2>1, LedgerSettle DEF IInv, SettleDone, SettleFailed, SettleRow
<1>6. ASSUME WorkloadUnsettled(r, "containing") \/ WorkloadUnsettled(r, "settling")
      PROVE  UNCHANGED Ledger!ledgerVars
  <2>1. cur \in Obligations
    BY <1>6 DEF IInv, CurInv, WorkloadUnsettled, Unwind
  <2>2. QED
    BY <1>6, <2>1, LedgerEscape DEF IInv, WorkloadUnsettled, EscapeRow
<1>7. ASSUME \/ ReleaseFails(r) \/ ServiceStarted(r) \/ ServiceReady(r)
             \/ InvocationExits(r) \/ WorkCanceled(r) \/ WorkFails(r)
             \/ SessionDone(r) \/ SessionFails(r)
      PROVE  UNCHANGED Ledger!ledgerVars
  BY <1>7, LedgerStutters DEF ReleaseFails, ServiceStarted, ServiceReady, InvocationExits,
       WorkCanceled, WorkFails, SessionDone, SessionFails
<1>8. QED
  BY <1>1, <1>2, <1>3, <1>4, <1>5, <1>6, <1>7 DEF Execute, Ledger!Next

\* Teardown stops and settles the services; the record completes the session.
LEMMA FinalizeLedger ==
  ASSUME IInv, NEW r \in Runs, Finalize(r)
  PROVE  [Ledger!Next]_(Ledger!ledgerVars)
<1>1. ASSUME Contain(r, "stopping", "stopped")
      PROVE  UNCHANGED Ledger!ledgerVars \/ \E p \in Procs : Ledger!Stop(p)
  <2>1. cur \in Procs
    BY <1>1 DEF IInv, CurInv, Contain
  <2>2. QED
    BY <1>1, <2>1, LedgerStop DEF IInv, Contain
<1>2. ASSUME StopSettled(r) PROVE \E p \in Procs : Ledger!Settle(p)
  <2>1. cur \in Obligations /\ os[cur] = "gone"
    BY <1>2 DEF IInv, CurInv, StopSettled
  <2>2. QED
    BY <1>2, <2>1, LedgerSettle DEF IInv, StopSettled, SettleRow
<1>3. ASSUME StopUnsettled(r, "stopping") \/ StopUnsettled(r, "stopped")
      PROVE  UNCHANGED Ledger!ledgerVars
  <2>1. cur \in Obligations
    BY <1>3 DEF IInv, CurInv, StopUnsettled
  <2>2. QED
    BY <1>3, <2>1, LedgerEscape DEF IInv, StopUnsettled, EscapeRow
<1>4. ASSUME RecordComplete(r) PROVE UNCHANGED Ledger!ledgerVars \/ Ledger!Complete(r)
  <2>1. /\ Obligations = {} /\ r \in Unfinished
        /\ UNCHANGED <<published, row, os>>
    BY <1>4 DEF IInv, QuietInv, RunsInv, RecordComplete
  <2>2. CASE complete' = complete
    BY <2>1, <2>2, LedgerStutters
  <2>3. CASE complete' = complete \cup {r}
    BY <2>1, <2>3, LedgerComplete
  <2>4. QED
    BY <1>4, <2>2, <2>3 DEF RecordComplete
<1>5. ASSUME \/ RecordOutcome(r) \/ (\E p \in Procs : StopService(r, p)) \/ TeardownDone(r)
             \/ RetainNothing(r, "retire", "record") \/ RecordIntent(r, "retire", ~keep)
             \/ RemoveTree(r, "retire") \/ CompleteDeletion(r, "retire", "record")
             \/ RetireFails(r) \/ CloseSources(r) \/ SealOutput(r) \/ LeaveUnsealed(r)
             \/ ShutdownControl(r)
      PROVE  UNCHANGED Ledger!ledgerVars
  BY <1>5, LedgerStutters DEF RecordOutcome, StopService, TeardownDone, RetainNothing,
       RecordIntent, RemoveTree, CompleteDeletion, RetireFails, CloseSources, SealOutput,
       LeaveUnsealed, ShutdownControl
<1>6. QED
  BY <1>1, <1>2, <1>3, <1>4, <1>5 DEF Finalize, Ledger!Next

\* Everything else: locks, clean, the creation of a run, the host.
LEMMA OtherLedger ==
  ASSUME IInv,
         \/ \E c \in Cmds : \/ Acquire(c) \/ Refused(c) \/ Reject(c) \/ Close(c)
                            \/ Crash(c) \/ (c \in Cleans /\ Clean(c))
         \/ \E r \in Runs : Establish(r) \/ Cancel(r)
         \/ \E p \in Procs : Exec(p) \/ Exit(p)
         \/ UNCHANGED vars
  PROVE  [Ledger!Next]_(Ledger!ledgerVars)
<1>1. ASSUME NEW r \in Runs, RecordRunCreated(r) PROVE Ledger!Create(r)
  <2>1. Unfinished = {} /\ Obligations = {} /\ Running = {}
    BY <1>1 DEF IInv, QuietInv, ReleasedIsRecorded, RecordRunCreated, Running
  <2>2. UNCHANGED <<complete, Obligations, Running>>
    BY <1>1 DEF RecordRunCreated, Running
  <2>3. QED
    BY <1>1, <2>1, <2>2 DEF RecordRunCreated, Ledger!Create, Ledger!Open, Running
<1>2. ASSUME NEW p \in Procs, Exec(p) PROVE UNCHANGED Ledger!ledgerVars
  <2>1. UNCHANGED Running /\ UNCHANGED <<published, complete, Obligations>>
    BY <1>2 DEF IInv, Exec, Running
  <2>2. QED
    BY <2>1 DEF Running, Ledger!ledgerVars
<1>3. ASSUME NEW p \in Procs, Exit(p)
      PROVE  Ledger!Stop(p) \/ UNCHANGED Ledger!ledgerVars
  BY <1>3, LedgerStop DEF IInv, Exit
<1>4. ASSUME NEW c \in Cmds,
             \/ Acquire(c) \/ Refused(c) \/ Reject(c) \/ Close(c) \/ Crash(c)
             \/ c \in Cleans /\ Clean(c)
      PROVE  UNCHANGED Ledger!ledgerVars
  BY <1>4, LedgerStutters DEF Acquire, Refused, Reject, Close, Crash, Clean, CleanNothing,
       RecordIntent, RemoveTree, CompleteDeletion
<1>5. ASSUME NEW r \in Runs, PrepareState(r) \/ ClaimRunDir(r) \/ Cancel(r)
      PROVE  UNCHANGED Ledger!ledgerVars
  BY <1>5, LedgerStutters DEF PrepareState, ClaimRunDir, Cancel
<1>6. CASE UNCHANGED vars
  BY <1>6, LedgerStutters DEF vars
<1>7. QED
  BY <1>1, <1>2, <1>3, <1>4, <1>5, <1>6 DEF Establish, Ledger!Next

\* The slot implements the ledger: whatever is killed, refused or left
\* unsettled, its sessions are created, owed to and completed one at a time.
THEOREM SlotKeepsLedger == Spec => KeepsLedger
<1>1. Init => Ledger!Init
  BY DEF Init, Ledger!Init
<1>2. IInv /\ [Next]_vars => [Ledger!Next]_(Ledger!ledgerVars)
  <2>1. SUFFICES ASSUME IInv, [Next]_vars PROVE [Ledger!Next]_(Ledger!ledgerVars)
    OBVIOUS
  <2>2. ASSUME NEW c \in Cmds, Work(c) PROVE [Ledger!Next]_(Ledger!ledgerVars)
    BY <2>1, <2>2, RecoveryLedger, ExecuteLedger, FinalizeLedger, OtherLedger DEF Work
  <2>3. QED
    BY <2>1, <2>2, ExecuteLedger, OtherLedger DEF Next
<1>3. QED
  BY <1>1, <1>2, Invariance, PTL DEF Spec, KeepsLedger, Ledger!Spec

-----------------------------------------------------------------------------
(* SlotSession implements DataGeneration: whoever prepares, retains, cleans *)
(* or resumes, and wherever it is killed, the application data of the slot  *)
(* goes through one generation after the other.                             *)

\* The steps that touch the application data or its cleanup rows.
DataSteps(c) ==
  \/ c \in Runs /\ PrepareState(c)
  \/ \E from \in PCs : RecordIntent(c, from, ~keep) \/ RemoveTree(c, from)
  \/ c \in Cleans /\ RecordIntent(c, "clean", ~keep \/ c \in Purges)
  \/ \E from, to \in PCs : CompleteDeletion(c, from, to)

\* No other step does.
LEMMA DataWriters ==
  ASSUME [Next]_vars
  PROVE  UNCHANGED dataVars \/ \E c \in Cmds : DataSteps(c)
<1> USE DEF sessionVars, procVars, localVars
<1>1. ASSUME NEW c \in Cmds,
             Acquire(c) \/ Refused(c) \/ Reject(c) \/ Close(c) \/ Crash(c)
      PROVE  UNCHANGED dataVars
  BY <1>1 DEF Acquire, Refused, Reject, Close, Crash
<1>2. ASSUME NEW c \in Cmds, Recovering(c) \/ RecordRecovered(c)
      PROVE  UNCHANGED dataVars \/ DataSteps(c)
  <2>1. ASSUME RecordIntent(c, "retain", ~keep) \/ RemoveTree(c, "retain")
               \/ CompleteDeletion(c, "retain", "recovered")
        PROVE  DataSteps(c)
    BY <2>1 DEF DataSteps, PCs, HeldPCs, SetupPCs, RecoverPCs
  <2>2. QED
    BY <1>2, <2>1 DEF Recovering, RecordInterrupted, SettleGone, NoteSurvivor,
         ContainSurvivor, SurvivorEscapes, SettleSurvivor, StopDone, RetainNothing,
         RecordRecovered
<1>3. ASSUME NEW c \in Cleans, Clean(c) PROVE UNCHANGED dataVars \/ DataSteps(c)
  BY <1>3 DEF Clean, CleanNothing, DataSteps, PCs, HeldPCs, SetupPCs
<1>4. ASSUME NEW r \in Runs, Establish(r) PROVE UNCHANGED dataVars \/ DataSteps(r)
  BY <1>4 DEF Establish, ClaimRunDir, RecordRunCreated, DataSteps
<1>5. ASSUME NEW r \in Runs, Execute(r) \/ WorkFails(r) PROVE UNCHANGED dataVars
  BY <1>5 DEF Execute, Launch, Register, LaunchFails, Permit, ReleaseFails,
       ServiceStarted, ServiceReady, InvocationExits, WorkCanceled, WorkFails, Contain,
       WorkloadUnsettled, SettleDone, SettleFailed, SessionDone, SessionFails
<1>6. ASSUME NEW r \in Runs, Finalize(r) PROVE UNCHANGED dataVars \/ DataSteps(r)
  <2>1. ASSUME RecordIntent(r, "retire", ~keep) \/ RemoveTree(r, "retire")
               \/ CompleteDeletion(r, "retire", "record")
        PROVE  DataSteps(r)
    BY <2>1 DEF DataSteps, PCs, HeldPCs, FinalPCs
  <2>2. QED
    BY <1>6, <2>1 DEF Finalize, RecordOutcome, StopService, Contain, StopSettled,
         StopUnsettled, TeardownDone, RetainNothing, RetireFails, RecordComplete,
         CloseSources, SealOutput, LeaveUnsealed, ShutdownControl
<1>7. ASSUME NEW r \in Runs, Cancel(r) PROVE UNCHANGED dataVars
  BY <1>7 DEF Cancel
<1>8. ASSUME NEW p \in Procs, Exec(p) \/ Exit(p) PROVE UNCHANGED dataVars
  BY <1>8 DEF Exec, Exit
<1>9. CASE UNCHANGED vars
  BY <1>9 DEF vars, dataVars
<1>10. ASSUME NEW c \in Cmds, Work(c) PROVE UNCHANGED dataVars \/ DataSteps(c)
  BY <1>1, <1>2, <1>3, <1>4, <1>5, <1>6, <1>10 DEF Work
<1>11. Runs \subseteq Cmds
  BY DEF Cmds
<1>12. QED
  BY <1>1, <1>5, <1>7, <1>8, <1>9, <1>10, <1>11 DEF Next

USE SlotAssumption
    DEF TypeOK, Step, Cmds, PCs, HeldPCs, SetupPCs, RecoverPCs, PreparePCs, ExecPCs,
        WorkPCs, FinalPCs, StopPCs, OutputPCs, OwnerPCs, sessionVars, procVars,
        localVars, dataVars

\* Each of them is a step of DataGeneration.
LEMMA DataGenerationStep ==
  ASSUME IInv, NEW c \in Cmds, DataSteps(c)
  PROVE  [Generation!Next]_(Generation!vars)
<1>1. ASSUME c \in Runs, PrepareState(c) PROVE [Generation!Next]_(Generation!vars)
  <2>1. pending = None /\ c \notin deleted /\ UNCHANGED <<pending, deleted>>
    BY <1>1 DEF IInv, DataInv, PrepareState
  <2>2. CASE data = None
    <3>1. Generation!Publish(c)
      BY <1>1, <2>1, <2>2 DEF PrepareState, Generation!Publish
    <3>2. QED
      BY <1>1, <3>1 DEF Generation!Next
  <2>3. CASE data # None
    <3>1. data' = data
      BY <1>1, <2>3 DEF PrepareState
    <3>2. keep \in BOOLEAN /\ (keep => c \in Persistent) /\ keep' = (c \in Persistent)
      BY <1>1, <2>3 DEF IInv, PrepareState
    <3>3. keep' = keep \/ keep' = TRUE
      <4>1. CASE c \in Persistent
        BY <3>2, <4>1
      <4>2. CASE c \notin Persistent
        <5>1. keep = FALSE /\ keep' = FALSE
          BY <3>2, <4>2
        <5>2. QED
          BY <5>1
      <4>3. QED
        BY <4>1, <4>2
    <3>4. Generation!Promote \/ UNCHANGED Generation!vars
      BY <2>1, <2>3, <3>1, <3>3 DEF Generation!Promote, Generation!vars
    <3>5. QED
      BY <3>4 DEF Generation!Next
  <2>4. QED
    BY <2>2, <2>3
<1>2. ASSUME NEW from \in PCs, NEW allowed \in BOOLEAN, RecordIntent(c, from, allowed)
      PROVE  Generation!Intend
  BY <1>2 DEF RecordIntent, Generation!Intend
<1>3. ASSUME NEW from \in PCs, RemoveTree(c, from) PROVE Generation!Remove
  BY <1>3 DEF RemoveTree, Generation!Remove
<1>4. ASSUME NEW from \in PCs, NEW to \in PCs, CompleteDeletion(c, from, to)
      PROVE  Generation!Complete
  BY <1>4 DEF CompleteDeletion, Generation!Complete
<1>5. QED
  BY <1>1, <1>2, <1>3, <1>4 DEF DataSteps, Generation!Next

\* Generations of application data follow one another: none returns after its
\* deletion, none is published or refreshed while a deletion is pending.
THEOREM SlotKeepsGeneration == Spec => KeepsGeneration
<1>1. Init => Generation!Init
  BY DEF Init, Generation!Init
<1>2. IInv /\ [Next]_vars => [Generation!Next]_(Generation!vars)
  <2>1. UNCHANGED dataVars => UNCHANGED Generation!vars
    BY DEF Generation!vars
  <2>2. QED
    BY <2>1, DataWriters, DataGenerationStep
<1>3. QED
  BY <1>1, <1>2, Invariance, PTL DEF Spec, KeepsGeneration, Generation!Spec

-----------------------------------------------------------------------------
(* down.                                                                   *)

\* An owner that published its session has not shut its endpoint down.
AnsweringPCs == {"commit"} \cup OwnerPCs \cup OutputPCs

\* A down is idle until it asked; only the request makes it unheard.
PhaseInv ==
  \A d \in Downs :
    /\ phase[d] \in {"new", "selected"} => pc[d] = "idle" /\ d \notin unheard
    /\ phase[d] = "selected" \/ d \in unheard => sel[d] # None

EndpointInv == \A r \in Runs : pc[r] \in AnsweringPCs => r \in reader

\* Whoever published after the selection found every selected owner gone.
SeenInv ==
  \A d \in Downs :
    /\ seen[d] \subseteq published
    /\ sel[d] # None => sel[d] \in seen[d]
    /\ published \ seen[d] # {} => \A r \in seen[d] : pc[r] \in {"done", "crashed"}

DInv ==
  /\ IInv
  /\ DownTypeOK
  /\ PhaseInv
  /\ EndpointInv
  /\ SeenInv
  /\ UnheardMeansNoOwner
  /\ SettledProvesRelease

-----------------------------------------------------------------------------
(* What a step of one command may do.                                      *)

\* A command ends once, a closing one only ends, and an endpoint that must
\* answer was established by the step before the commit.
LEMMA CommandStep ==
  ASSUME IInv, NEW c \in Cmds,
         Work(c) \/ Refused(c) \/ Crash(c) \/ (c \in Runs /\ WorkFails(c))
  PROVE  /\ \A b \in Cmds \ {c} : pc'[b] = pc[b]
         /\ pc[c] \notin {"done", "crashed"}
         /\ pc[c] = "closing" => pc'[c] \in {"done", "crashed"}
         /\ c \in Runs /\ pc'[c] \in AnsweringPCs =>
              pc[c] \in AnsweringPCs \/ (pc[c] = "claim" /\ pc'[c] = "commit")
         /\ complete \subseteq complete'
         /\ published' = published \/ (c \in Runs /\ RecordRunCreated(c))
<1> USE DEF IInv, TypeOK, Step, PCs, HeldPCs, SetupPCs, RecoverPCs, PreparePCs, ExecPCs,
        WorkPCs, FinalPCs, StopPCs, OutputPCs, OwnerPCs, AnsweringPCs, sessionVars
<1>1. CASE Acquire(c) \/ Refused(c) \/ Close(c) \/ Reject(c) \/ Crash(c)
  BY <1>1 DEF Acquire, Refused, Close, Reject, Crash
<1>2. CASE RecordRecovered(c)
  BY <1>2, SlotAssumption DEF RecordRecovered, AfterRecovery
<1>3. CASE Recovering(c)
  BY <1>3 DEF Recovering, RecordInterrupted, SettleGone, NoteSurvivor, ContainSurvivor,
       SurvivorEscapes, SettleSurvivor, StopDone, RetainNothing, RecordIntent,
       RemoveTree, CompleteDeletion
<1>4. CASE c \in Cleans /\ Clean(c)
  BY <1>4 DEF Clean, CleanNothing, RecordIntent, RemoveTree, CompleteDeletion
<1>5. CASE c \in Runs /\ Establish(c)
  BY <1>5 DEF Establish, PrepareState, ClaimRunDir, RecordRunCreated
<1>6. CASE c \in Runs /\ (Execute(c) \/ WorkFails(c))
  BY <1>6 DEF Execute, Launch, Register, LaunchFails, Permit, ReleaseFails,
       ServiceStarted, ServiceReady, InvocationExits, WorkCanceled, WorkFails, Contain,
       WorkloadUnsettled, SettleDone, SettleFailed, SessionDone, SessionFails, Unwind
<1>7. CASE c \in Runs /\ Finalize(c)
  BY <1>7 DEF Finalize, RecordOutcome, StopService, Contain, StopSettled, StopUnsettled,
       TeardownDone, RetainNothing, RecordIntent, RemoveTree, CompleteDeletion,
       RetireFails, RecordComplete, CloseSources, SealOutput, LeaveUnsealed,
       ShutdownControl
<1>8. QED
  BY <1>1, <1>2, <1>3, <1>4, <1>5, <1>6, <1>7 DEF Work

\* Whoever holds the lock finds every other published session gone.
LEMMA OthersAreGone ==
  ASSUME IInv, NEW c \in Cmds, holder = c, NEW r \in published \ {c}
  PROVE  pc[r] \in {"done", "crashed"}
<1>1. r \in Runs /\ pc[r] \in PCs /\ pc[r] \notin HeldPCs
  BY DEF IInv, LockInv, TypeOK, Cmds
<1>2. pc[r] # "idle"
  BY <1>1 DEF IInv, RunsInv
<1>3. QED
  BY <1>1, <1>2 DEF PCs

-----------------------------------------------------------------------------
(* The inductive invariant.                                                *)

\* A down that observes the handoff ends as a refused command does.
LEMMA ObserveHandoffStep ==
  ASSUME IInv, NEW d \in Downs, ObserveHandoff(d)
  PROVE  IInv'
<1>1. TypeOK'
  BY SlotAssumption DEF IInv, TypeOK, ObserveHandoff, Cmds, PCs, sessionVars, procVars,
       localVars, dataVars
<1> USE SlotAssumption
    DEF IInv, TypeOK, ObserveHandoff, Cmds, PCs, HeldPCs, SetupPCs, RecoverPCs,
        PreparePCs, ExecPCs, WorkPCs, FinalPCs, StopPCs, OutputPCs, OwnerPCs,
        sessionVars, procVars, localVars, dataVars, Obligations, Unfinished, Released
<1>2. LockInv' /\ RecoveryInv' /\ RunsInv'
  BY DEF LockInv, RecoveryInv, RunsInv
<1>3. CurInv' /\ ServicesInv' /\ RowsInv'
  BY DEF CurInv, ServicesInv, RowsInv
<1>4. QuietInv' /\ DataInv'
  BY DEF QuietInv, DataInv
<1>5. ReleasedIsRecorded' /\ OneUnfinished' /\ SealedIsComplete' /\ PersistentNeedsPurge'
  BY DEF ReleasedIsRecorded, OneUnfinished, SealedIsComplete, PersistentNeedsPurge
<1>6. QED
  BY <1>1, <1>2, <1>3, <1>4, <1>5

\* Every other step, seen on the slot alone, is one of SlotSession.
LEMMA SlotStep == IInv /\ [DownNext]_allVars => IInv'
<1> SUFFICES ASSUME IInv, [DownNext]_allVars PROVE IInv'
  OBVIOUS
<1>1. CASE \E d \in Downs : ObserveHandoff(d)
  BY <1>1, ObserveHandoffStep
<1>2. ASSUME NEW c \in Cmds \ Downs, SessionStep(c) PROVE [Next]_vars
  BY <1>2 DEF SessionStep, Next
<1>3. ASSUME NEW r \in Runs, Receive(r) PROVE [Next]_vars
  BY <1>3 DEF Receive, Next
<1>4. ASSUME NEW d \in Downs, DownWork(d) \/ Expire(d) \/ Killed(d), ~ObserveHandoff(d)
      PROVE  [Next]_vars
  BY <1>4 DEF DownWork, Expire, Killed, Select, Request, Take, Recover, Recovered, Next,
       Work, Cmds
<1>5. ASSUME HostStep \/ UNCHANGED allVars PROVE [Next]_vars
  BY <1>5 DEF HostStep, Next, allVars
<1>6. QED
  BY <1>1, <1>2, <1>3, <1>4, <1>5, InvariantStep DEF DownNext

\* The step of a session: it may publish, and its endpoint follows its step.
LEMMA SessionKeeps ==
  ASSUME DInv, IInv', NEW c \in Cmds \ Downs, SessionStep(c)
  PROVE  DInv'
<1>1. /\ \A b \in Cmds \ {c} : pc'[b] = pc[b]
      /\ pc[c] \notin {"done", "crashed"}
      /\ pc[c] = "closing" => pc'[c] \in {"done", "crashed"}
      /\ c \in Runs /\ pc'[c] \in AnsweringPCs =>
           pc[c] \in AnsweringPCs \/ (pc[c] = "claim" /\ pc'[c] = "commit")
      /\ complete \subseteq complete'
      /\ published' = published \/ (c \in Runs /\ RecordRunCreated(c))
  BY CommandStep DEF DInv, SessionStep
<1>2. UNCHANGED downVars
  BY DEF SessionStep
<1>3. DownTypeOK'
  BY <1>2 DEF DInv, IInv, DownTypeOK, SessionStep, Endpoint, downVars
<1>4. PhaseInv'
  BY <1>1, <1>2 DEF DInv, PhaseInv, downVars, Cmds
<1>5. EndpointInv'
  <2>1. SUFFICES ASSUME NEW r \in Runs, pc'[r] \in AnsweringPCs PROVE r \in reader'
    BY DEF EndpointInv
  <2>2. pc'[r] \notin {"closing", "crashed"}
    BY <2>1 DEF AnsweringPCs, OwnerPCs, ExecPCs, WorkPCs, FinalPCs, StopPCs, OutputPCs
  <2>3. CASE r = c
    BY <1>1, <2>1, <2>2, <2>3 DEF DInv, EndpointInv, SessionStep, Endpoint
  <2>4. CASE r # c
    BY <1>1, <2>1, <2>4 DEF DInv, EndpointInv, SessionStep, Endpoint, Cmds
  <2>5. QED
    BY <2>3, <2>4
<1>6. SeenInv'
  <2>1. SUFFICES ASSUME NEW d \in Downs
                 PROVE  /\ seen[d] \subseteq published'
                        /\ sel[d] # None => sel[d] \in seen[d]
                        /\ published' \ seen[d] # {} =>
                             \A r \in seen[d] : pc'[r] \in {"done", "crashed"}
    BY <1>2 DEF SeenInv, downVars
  <2>2. seen[d] \subseteq published /\ (sel[d] # None => sel[d] \in seen[d])
    BY DEF DInv, SeenInv
  <2>3. ASSUME NEW r \in seen[d], pc[r] \in {"done", "crashed"}
        PROVE  pc'[r] \in {"done", "crashed"}
    BY <1>1, <2>2, <2>3 DEF DInv, IInv, TypeOK, Cmds
  <2>4. CASE published' = published
    BY <2>2, <2>3, <2>4 DEF DInv, SeenInv
  <2>5. CASE c \in Runs /\ RecordRunCreated(c)
    <3>1. holder = c /\ c \notin published /\ published' = published \cup {c}
      BY <2>5 DEF RecordRunCreated, Step
    <3>2. \A r \in seen[d] : pc[r] \in {"done", "crashed"}
      BY <2>2, <3>1, OthersAreGone DEF DInv
    <3>3. QED
      BY <2>2, <2>3, <3>1, <3>2
  <2>6. QED
    BY <1>1, <2>4, <2>5
<1>7. UnheardMeansNoOwner'
  <2>1. SUFFICES ASSUME NEW d \in unheard PROVE pc'[sel[d]] \in {"closing", "done", "crashed"}
    BY <1>2 DEF UnheardMeansNoOwner, downVars
  <2>2. sel[d] \in Cmds /\ pc[sel[d]] \in {"closing", "done", "crashed"}
    BY DEF DInv, PhaseInv, DownTypeOK, UnheardMeansNoOwner, Cmds
  <2>3. QED
    BY <1>1, <2>2
<1>8. SettledProvesRelease'
  <2>1. SUFFICES ASSUME NEW d \in Downs, phase[d] = "settled", sel[d] # None
                 PROVE  sel[d] \in complete' /\ pc'[sel[d]] \in {"done", "crashed"}
    BY <1>2 DEF SettledProvesRelease, downVars
  <2>2. /\ sel[d] \in complete /\ sel[d] \in Cmds
        /\ pc[sel[d]] \in {"done", "crashed"}
    BY <2>1 DEF DInv, DownTypeOK, SettledProvesRelease, Cmds
  <2>3. QED
    BY <1>1, <2>2
<1>9. QED
  BY <1>3, <1>4, <1>5, <1>6, <1>7, <1>8 DEF DInv

\* The step of a down: what it concludes, it concludes from SeenInv or with
\* the slot in its hands.
LEMMA DownKeeps ==
  ASSUME DInv, IInv', NEW d \in Downs, DownWork(d) \/ Expire(d) \/ Killed(d)
  PROVE  DInv'
<1> DEFINE Ends == {"done", "crashed"}
<1>1. /\ \A b \in Cmds \ {d} : pc'[b] = pc[b]
      /\ complete \subseteq complete'
      /\ UNCHANGED published
  <2>1. d \in Cmds /\ d \notin Runs
    BY SlotAssumption DEF Cmds
  <2>2. CASE ObserveHandoff(d) \/ Select(d) \/ Request(d)
    BY <2>2 DEF ObserveHandoff, Select, Request, vars, sessionVars, DInv, IInv, TypeOK
  <2>3. CASE Take(d) \/ Recover(d) \/ Recovered(d) \/ Expire(d) \/ Killed(d)
    BY <2>1, <2>3, CommandStep
       DEF DInv, Take, Recover, Recovered, Expire, Killed, Work
  <2>4. QED
    BY <2>2, <2>3 DEF DownWork
<1>2. \A r \in Runs : pc'[r] = pc[r]
  BY <1>1, SlotAssumption DEF Cmds
<1>3. DownTypeOK'
  <2> USE DEF DInv, IInv, DownTypeOK, Phases, endpointVars
  <2>1. CASE Select(d)
    BY <2>1 DEF Select, TypeOK, Unfinished
  <2>2. CASE Request(d)
    BY <2>2 DEF Request
  <2>3. CASE ObserveHandoff(d) \/ Take(d) \/ Recover(d) \/ Recovered(d)
    BY <2>3 DEF ObserveHandoff, Take, Recover, Recovered, downVars
  <2>4. CASE Expire(d) \/ Killed(d)
    BY <2>4 DEF Expire, Killed
  <2>5. QED
    BY <2>1, <2>2, <2>3, <2>4 DEF DownWork
<1>4. PhaseInv'
  <2> USE SlotAssumption DEF PhaseInv
  <2>1. pc[d] = pc'[d] \/ phase[d] \notin {"new", "selected"}
    BY DEF DInv, DownWork, Select, Request, ObserveHandoff, Take, Recover, Recovered,
       Expire, Killed, Recovering, RecordInterrupted, SettleGone, NoteSurvivor,
       ContainSurvivor, SurvivorEscapes, SettleSurvivor, StopDone, RetainNothing,
       RecordIntent, RemoveTree, CompleteDeletion, RecordRecovered, Reject, Close, Crash,
       Step, HeldPCs, SetupPCs, RecoverPCs, PreparePCs, ExecPCs, WorkPCs, FinalPCs,
       StopPCs, OutputPCs, vars
  <2>2. CASE Select(d)
    BY <1>1, <2>1, <2>2 DEF DInv, DownTypeOK, IInv, TypeOK, Select, vars, Unfinished, Cmds
  <2>3. CASE Request(d)
    BY <1>1, <2>1, <2>3 DEF DInv, DownTypeOK, Request, vars, Cmds
  <2>4. CASE ObserveHandoff(d) \/ Take(d) \/ Recover(d) \/ Recovered(d)
    BY <1>1, <2>1, <2>4
       DEF DInv, DownTypeOK, ObserveHandoff, Take, Recover, Recovered, downVars, Cmds
  <2>5. CASE Expire(d) \/ Killed(d)
    BY <1>1, <2>1, <2>5 DEF DInv, DownTypeOK, Expire, Killed, Cmds
  <2>6. QED
    BY <2>2, <2>3, <2>4, <2>5 DEF DownWork
<1>5. EndpointInv'
  <2>1. UNCHANGED reader
    BY DEF DownWork, Select, Request, ObserveHandoff, Take, Recover, Recovered, Expire,
       Killed, endpointVars
  <2>2. QED
    BY <1>2, <2>1 DEF DInv, EndpointInv
<1>6. SeenInv'
  <2>1. CASE Select(d)
    BY <1>1, <1>2, <2>1 DEF DInv, IInv, TypeOK, DownTypeOK, SeenInv, Select, Unfinished
  <2>2. CASE ~Select(d)
    <3>1. UNCHANGED <<sel, seen>>
      BY <2>2 DEF DownWork, Request, ObserveHandoff, Take, Recover, Recovered, Expire,
         Killed, downVars
    <3>2. QED
      BY <1>1, <1>2, <3>1 DEF DInv, DownTypeOK, SeenInv
  <2>3. QED
    BY <2>1, <2>2
<1>7. UnheardMeansNoOwner'
  <2>1. CASE Select(d)
    BY <1>2, <2>1 DEF DInv, DownTypeOK, PhaseInv, UnheardMeansNoOwner, Select
  <2>2. CASE Request(d)
    <3>1. sel[d] \in published /\ sel[d] \in Runs
      BY <2>2 DEF DInv, DownTypeOK, PhaseInv, SeenInv, Request
    <3>2. ASSUME sel[d] \notin reader PROVE pc[sel[d]] \in {"closing", "done", "crashed"}
      <4>1. pc[sel[d]] \in PCs /\ pc[sel[d]] \notin AnsweringPCs
        BY <3>1, <3>2 DEF DInv, IInv, TypeOK, EndpointInv, Cmds
      <4>2. pc[sel[d]] \notin {"idle"} \cup SetupPCs
        BY <3>1 DEF DInv, IInv, RunsInv
      <4>3. QED
        BY <4>1, <4>2 DEF PCs, HeldPCs, AnsweringPCs, OwnerPCs
    <3>3. QED
      BY <1>2, <2>2, <3>1, <3>2
         DEF DInv, DownTypeOK, PhaseInv, UnheardMeansNoOwner, Request
  <2>3. CASE ~Select(d) /\ ~Request(d)
    <3>1. UNCHANGED <<sel, unheard>>
      BY <2>3 DEF DownWork, ObserveHandoff, Take, Recover, Recovered, Expire, Killed,
         downVars
    <3>2. QED
      BY <1>2, <3>1 DEF DInv, DownTypeOK, PhaseInv, UnheardMeansNoOwner
  <2>4. QED
    BY <2>1, <2>2, <2>3
<1>8. SettledProvesRelease'
  <2>1. SUFFICES ASSUME NEW e \in Downs, phase'[e] = "settled", sel'[e] # None
                 PROVE  sel'[e] \in complete' /\ pc'[sel'[e]] \in Ends
    BY DEF SettledProvesRelease
  <2>2. CASE phase[e] = "settled" /\ sel'[e] = sel[e]
    BY <1>1, <1>2, <2>1, <2>2 DEF DInv, DownTypeOK, SettledProvesRelease
  <2>3. CASE e = d /\ ObserveHandoff(d)
    BY <1>1, <1>2, <2>1, <2>3
       DEF DInv, DownTypeOK, SeenInv, ObserveHandoff, HandedOff
  <2>4. CASE e = d /\ Recovered(d)
    <3>1. holder = d /\ sel[d] \in published /\ sel[d] \in Runs /\ UNCHANGED sel
      BY <2>1, <2>4 DEF DInv, DownTypeOK, SeenInv, Recovered, RecordRecovered, Step
    <3>2. pc[sel[d]] \in Ends
      BY <3>1, OthersAreGone, SlotAssumption DEF DInv, Cmds
    <3>3. sel[d] \in complete'
      BY <2>4, <3>1 DEF Recovered, RecordRecovered, Unfinished
    <3>4. QED
      BY <1>2, <2>4, <3>1, <3>2, <3>3
  <2>5. CASE ~(e = d /\ (ObserveHandoff(d) \/ Recovered(d)))
    <3>1. phase[e] = "settled" /\ sel'[e] = sel[e]
      BY <2>1, <2>5 DEF DInv, DownTypeOK, DownWork, Select, Request, ObserveHandoff, Take,
         Recover, Recovered, Expire, Killed, downVars
    <3>2. QED
      BY <2>2, <3>1
  <2>6. QED
    BY <2>3, <2>4, <2>5
<1>9. QED
  BY <1>3, <1>4, <1>5, <1>6, <1>7, <1>8 DEF DInv

\* A receiver, the host and a stuttering step touch nothing a down concludes from.
LEMMA OutsideKeeps ==
  ASSUME DInv, IInv', \/ \E r \in Runs : Receive(r)
                      \/ HostStep
                      \/ UNCHANGED allVars
  PROVE  DInv'
<1>1. UNCHANGED <<pc, published, complete, phase, sel, seen, unheard, reader>>
  BY DEF Receive, Cancel, HostStep, Exec, Exit, allVars, vars, downVars, endpointVars,
     sessionVars
<1>2. bytes' \subseteq bytes
  BY DEF Receive, HostStep, allVars, endpointVars
<1>3. DownTypeOK'
  BY <1>1, <1>2 DEF DInv, DownTypeOK, IInv
<1>4. QED
  BY <1>1, <1>3 DEF DInv, PhaseInv, EndpointInv, SeenInv, UnheardMeansNoOwner,
     SettledProvesRelease

\* The inductive invariant holds whatever sessions and downs do to each other.
THEOREM DownInvariance == DownSpec => []DInv
<1>1. Init => IInv
  BY InitialInvariant
<1>2. DownInit => DInv
  BY <1>1 DEF DownInit, Init, DInv, IInv, DownTypeOK, Phases, PhaseInv, EndpointInv,
     SeenInv, UnheardMeansNoOwner, SettledProvesRelease, AnsweringPCs, OwnerPCs, ExecPCs,
     WorkPCs, FinalPCs, StopPCs, OutputPCs, Cmds
<1>3. DInv /\ [DownNext]_allVars => DInv'
  <2>1. SUFFICES ASSUME DInv, [DownNext]_allVars PROVE DInv'
    OBVIOUS
  <2>2. IInv'
    BY <2>1, SlotStep DEF DInv
  <2>3. QED
    BY <2>1, <2>2, SessionKeeps, DownKeeps, OutsideKeeps DEF DownNext
<1>4. QED
  BY <1>2, <1>3, PTL DEF DownSpec

-----------------------------------------------------------------------------
(* What down may conclude.                                                 *)

\* A down that reports success has proof that the session it selected is
\* settled and that its owner released the slot.
THEOREM SettlementIsProof == DownSpec => []SettledProvesRelease
<1>1. DInv => SettledProvesRelease
  BY DEF DInv
<1>2. QED
  BY <1>1, DownInvariance, PTL

\* Silence at the control endpoint proves that the owner shut down or is gone.
THEOREM SilenceIsProof == DownSpec => []UnheardMeansNoOwner
<1>1. DInv => UnheardMeansNoOwner
  BY DEF DInv
<1>2. QED
  BY <1>1, DownInvariance, PTL

=============================================================================
