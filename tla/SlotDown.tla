------------------------------- MODULE SlotDown -------------------------------
(***************************************************************************)
(* The down command against the sessions of its slot: it selects the       *)
(* unfinished session once, asks it to cancel through the session's        *)
(* control endpoint, and then waits until it has proof that the session    *)
(* released the slot: a later session was published, or the slot could be  *)
(* taken and recovered.                                                    *)
(*                                                                         *)
(* The sessions are those of SlotSession; here their token is set through  *)
(* the endpoint only.  A down that finds neither a registry nor a lock     *)
(* file returns at once and is left out.  Row ids grow with publication,   *)
(* so "published since the selection" is a difference of sets.             *)
(***************************************************************************)

EXTENDS SlotSession

VARIABLES
  phase,    \* phase[d]: how far down command d is
  sel,      \* sel[d]: the session it selected
  seen,     \* seen[d]: the sessions published when it selected
  unheard,  \* downs whose request found no reader
  reader,   \* sessions whose control endpoint has a live reader
  bytes     \* sessions with an unread request in their endpoint

downVars == <<phase, sel, seen, unheard>>
endpointVars == <<reader, bytes>>
allVars == <<vars, downVars, endpointVars>>

Phases == {"new", "selected", "waiting", "settled", "failed"}

DownTypeOK ==
  /\ TypeOK
  /\ phase \in [Downs -> Phases]
  /\ sel \in [Downs -> Runs \cup {None}]
  /\ seen \in [Downs -> SUBSET Runs]
  /\ unheard \subseteq Downs
  /\ reader \subseteq Runs
  /\ bytes \subseteq reader

DownInit ==
  /\ Init
  /\ phase = [d \in Downs |-> "new"]
  /\ sel = [d \in Downs |-> None]
  /\ seen = [d \in Downs |-> {}]
  /\ unheard = {}
  /\ reader = {}
  /\ bytes = {}

-----------------------------------------------------------------------------
(* The control endpoint of a session.                                      *)

\* Mutant: the endpoint is established by the first step after the run row.
EndpointLate(c) ==
  IF pc[c] = "session" THEN reader \cup ({c} \cap Runs)
  ELSE IF pc'[c] \in {"closing", "crashed"} THEN reader \ {c}
  ELSE reader

\* It is established with the evidence directory, and its reader goes with the
\* shutdown, with a failed setup or with the process.
Endpoint(c) ==
  IF c \in Runs /\ pc[c] = "claim" /\ pc'[c] = "commit" THEN reader \cup {c}
  ELSE IF pc'[c] \in {"closing", "crashed"} THEN reader \ {c}
  ELSE reader

\* A step of run or clean command c; bytes in a removed endpoint are lost.
SessionStep(c) ==
  /\ Work(c) \/ Refused(c) \/ Crash(c) \/ (c \in Runs /\ WorkFails(c))
  /\ reader' = Endpoint(c)
  /\ bytes' = bytes \cap reader'
  /\ UNCHANGED downVars

\* The receiver thread reads a byte and sets the session's token.
Receive(r) ==
  /\ r \in bytes
  /\ bytes' = bytes \ {r}
  /\ IF r \in canceled THEN UNCHANGED vars ELSE Cancel(r)
  /\ UNCHANGED <<downVars, reader>>

-----------------------------------------------------------------------------
(* The down command.                                                       *)

\* One coherent read: the newest unfinished session, or none, and the newest row.
Select(d) ==
  /\ phase[d] = "new"
  /\ \E r \in (IF Unfinished = {} THEN {None} ELSE Unfinished) :
       /\ sel' = [sel EXCEPT ![d] = r]
       /\ phase' = [phase EXCEPT ![d] = IF r = None THEN "waiting" ELSE "selected"]
  /\ seen' = [seen EXCEPT ![d] = published]
  /\ UNCHANGED <<vars, unheard, endpointVars>>

\* One byte, or the observation that nobody reads the endpoint.
Request(d) ==
  /\ phase[d] = "selected"
  /\ phase' = [phase EXCEPT ![d] = "waiting"]
  /\ IF sel[d] \in reader
       THEN bytes' = bytes \cup {sel[d]} /\ UNCHANGED unheard
       ELSE unheard' = unheard \cup {d} /\ UNCHANGED bytes
  /\ UNCHANGED <<vars, sel, seen, reader>>

\* Mutants: a completed finalization is taken for the handoff; a selection of
\* no session is never handed off.
FinalizationSeen(d) ==
  IF sel[d] = None THEN published \ seen[d] # {} ELSE sel[d] \in complete

HandedOffSelected(d) == sel[d] \in complete /\ published \ seen[d] # {}

\* A later session is published, and a selected one is completely finalized.
HandedOff(d) ==
  /\ published \ seen[d] # {}
  /\ sel[d] # None => sel[d] \in complete

ObserveHandoff(d) ==
  /\ phase[d] = "waiting"
  /\ pc[d] = "idle"
  /\ HandedOff(d)
  /\ phase' = [phase EXCEPT ![d] = "settled"]
  /\ pc' = [pc EXCEPT ![d] = "done"]
  /\ UNCHANGED <<holder, sessionVars, procVars, localVars, dataVars, canceled>>
  /\ UNCHANGED <<sel, seen, unheard, endpointVars>>

Take(d) ==
  /\ phase[d] = "waiting"
  /\ Acquire(d)
  /\ UNCHANGED <<downVars, endpointVars>>

\* Its deadline passed; it signals nothing.
Expire(d) ==
  /\ phase[d] = "waiting"
  /\ Refused(d)
  /\ phase' = [phase EXCEPT ![d] = "failed"]
  /\ UNCHANGED <<sel, seen, unheard, endpointVars>>

\* With the slot it recovers; a recovery that ends early is its failure.
Recover(d) ==
  /\ Recovering(d) \/ Reject(d) \/ Close(d)
  /\ phase' = IF pc'[d] = "closing" THEN [phase EXCEPT ![d] = "failed"] ELSE phase
  /\ UNCHANGED <<sel, seen, unheard, endpointVars>>

\* The recovery is complete; closing the registry may still fail.
Recovered(d) ==
  /\ RecordRecovered(d)
  /\ \E result \in {"settled", "failed"} : phase' = [phase EXCEPT ![d] = result]
  /\ UNCHANGED <<sel, seen, unheard, endpointVars>>

Killed(d) ==
  /\ Crash(d)
  /\ phase' = [phase EXCEPT ![d] = "failed"]
  /\ UNCHANGED <<sel, seen, unheard, endpointVars>>

-----------------------------------------------------------------------------
DownWork(d) ==
  Select(d) \/ Request(d) \/ ObserveHandoff(d) \/ Take(d) \/ Recover(d) \/ Recovered(d)

HostStep ==
  /\ \E p \in Procs : Exec(p) \/ Exit(p)
  /\ UNCHANGED <<downVars, endpointVars>>

DownNext ==
  \/ \E c \in Cmds \ Downs : SessionStep(c)
  \/ \E r \in Runs : Receive(r)
  \/ \E d \in Downs : DownWork(d) \/ Expire(d) \/ Killed(d)
  \/ HostStep

DownSpec == DownInit /\ [][DownNext]_allVars

\* Commands that are not killed keep running, receivers keep polling, and down
\* repeats its two observations.  Its deadline is not what ends its wait.
FairDownSpec ==
  /\ DownSpec
  /\ \A c \in Cmds \ Downs :
       WF_allVars(pc[c] # "idle" /\ Work(c) /\ SessionStep(c))
  /\ \A r \in Runs : WF_allVars(Receive(r))
  /\ \A d \in Downs : WF_allVars(DownWork(d))

-----------------------------------------------------------------------------
(* What must hold.                                                         *)

\* A down that reports success after selecting a session has proof that this
\* session is settled and that its owner released the slot.  Finalization
\* alone is no such proof (CONTRACT.md, control.rs session_handed_off).
SettledProvesRelease ==
  \A d \in Downs :
    phase[d] = "settled" /\ sel[d] # None =>
      /\ sel[d] \in complete
      /\ pc[sel[d]] \in {"done", "crashed"}

\* A request that finds no reader means that the selected owner is past its
\* shutdown or gone: the endpoint is established before the row is published.
UnheardMeansNoOwner ==
  \A d \in unheard : pc[sel[d]] \in {"closing", "done", "crashed"}

\* A waiting down comes to its end without its deadline: the session it asked
\* ends and releases the slot, or another one takes over and shows it.
DownReturns ==
  \A d \in Downs : (phase[d] = "waiting") ~> (phase[d] \in {"settled", "failed"})

=============================================================================
