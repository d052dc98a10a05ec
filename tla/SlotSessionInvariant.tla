------------------------- MODULE SlotSessionInvariant -------------------------
(***************************************************************************)
(* The inductive invariant behind the safety properties of SlotSession.    *)
(* Each property alone says what the registry and the host look like; none *)
(* of them is inductive, because none says what the holder of the slot     *)
(* knows at its current step.  The conjuncts below say that: which process *)
(* key a step is about, what recovery has already settled, and which data  *)
(* a step may rely on.                                                     *)
(***************************************************************************)

EXTENDS SlotSession

\* From the run commit to the finalization record.
OwnerPCs == ExecPCs \cup FinalPCs

\* One command is inside, and it is the one that holds the lock.
LockInv == \A c \in Cmds : pc[c] \in HeldPCs <=> holder = c

\* A command starts with empty hands; recovery keeps what it found alive.
RecoveryInv ==
  /\ holder = None => cur = None /\ survivors = {} /\ started = {} /\ starting = None
  /\ \A c \in Cmds :
       /\ pc[c] = "interrupt" => cur = None /\ survivors = {}
       /\ pc[c] \in SetupPCs => started = {} /\ starting = None
       /\ pc[c] = "stop" =>
            /\ survivors \subseteq Obligations
            /\ cur # None => cur \in survivors /\ os[cur] = "gone"

\* A run row exists from its commit on; before it nothing names the run.
RunsInv ==
  /\ \A r \in Runs :
       /\ pc[r] \in {"idle"} \cup SetupPCs => r \notin published
       /\ pc[r] \in OwnerPCs => r \in Unfinished
       /\ pc[r] \in ExecPCs \cup {"settle"} => outcome[r] = "unknown"
       /\ r \notin published => outcome[r] = "unknown" /\ r \notin complete
       /\ r \in complete => outcome[r] # "unknown"
  /\ verdict # "interrupted"

\* The workload a step is about: registered before it is permitted, contained
\* before it is settled, and none of the services that run beside it.
CurInv ==
  \A r \in Runs :
    /\ pc[r] = "launching" =>
         /\ cur \in Procs /\ RunOf[cur] = r
         /\ row[cur] = "none" /\ os[cur] \in {"parked", "gone"}
    /\ pc[r] \in (WorkPCs \ {"launching"}) \cup StopPCs =>
         /\ cur \in Obligations /\ RunOf[cur] = r
         /\ cur \notin started /\ cur # starting
    /\ pc[r] \in {"settling", "stopped"} => os[cur] = "gone"

\* The services of a session are its own obligations until they are stopped.
ServicesInv ==
  \A r \in Runs :
    pc[r] \in OwnerPCs =>
      /\ \A p \in started : p \in Obligations /\ RunOf[p] = r
      /\ starting # None =>
           starting \in Obligations /\ RunOf[starting] = r /\ starting \notin started

\* What the process rows say about the process trees and about their runs.
RowsInv ==
  /\ \A p \in Procs :
       /\ os[p] = "none" => row[p] = "none"
       /\ row[p] # "none" => RunOf[p] \in published
       /\ p \in Obligations => RunOf[p] \in Unfinished
  /\ \A r \in Runs :
       pc[r] \in OwnerPCs =>
         \A p \in Procs : RunOf[p] = r /\ row[p] = "settled" => p \in captured

\* The steps that recovery, or settlement, made safe.
QuietInv ==
  \A c \in Cmds :
    /\ pc[c] \in {"retain", "recovered", "clean", "record"} \cup PreparePCs =>
         Obligations = {}
    /\ pc[c] \in {"clean"} \cup PreparePCs => Unfinished = {}

\* Which data a step may find.
DataInv ==
  /\ pending # None => Obligations = {}
  /\ \A c \in Cmds :
       /\ pc[c] \in {"recovered"} \cup PreparePCs \cup (OwnerPCs \ {"retire"}) => pending = None
       /\ pc[c] \in {"recovered", "prepare"} => data = None \/ keep
  /\ \A r \in Runs :
       /\ pc[r] \in {"idle", "prepare"} \cup RecoverPCs => r \notin {data, pending} \cup deleted
       /\ pc[r] \in {"claim", "commit"} \cup ExecPCs =>
            /\ data \in Runs \ deleted
            /\ keep = (r \in Persistent)
            /\ ~keep => data = r

\* The conjunction that every step preserves.
IInv ==
  /\ TypeOK
  /\ LockInv
  /\ RecoveryInv
  /\ RunsInv
  /\ CurInv
  /\ ServicesInv
  /\ RowsInv
  /\ QuietInv
  /\ DataInv
  /\ ReleasedIsRecorded
  /\ OneUnfinished
  /\ SealedIsComplete
  /\ PersistentNeedsPurge

=============================================================================
