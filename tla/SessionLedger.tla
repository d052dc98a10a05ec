----------------------------- MODULE SessionLedger -----------------------------
(***************************************************************************)
(* What a slot promises about its sessions, without locks, commands,       *)
(* recovery or crashes: a session is created only after every earlier one  *)
(* is complete and nothing is owed, a workload runs only while its session *)
(* owes it, and a session is complete only when nothing is owed any more.  *)
(***************************************************************************)

CONSTANTS
  Runs,   \* sessions
  Procs,  \* workloads
  RunOf   \* the session a workload belongs to

VARIABLES
  published,  \* sessions that were created
  complete,   \* sessions whose settlement is claimed
  owed,       \* workloads recorded and not settled
  running     \* workloads that may be executing

ledgerVars == <<published, complete, owed, running>>

Open == published \ complete

Init ==
  /\ published = {}
  /\ complete = {}
  /\ owed = {}
  /\ running = {}

Create(r) ==
  /\ Open = {}
  /\ owed = {}
  /\ running = {}
  /\ r \notin published
  /\ published' = published \cup {r}
  /\ UNCHANGED <<complete, owed, running>>

Owe(p) ==
  /\ Open = {RunOf[p]}
  /\ p \notin owed \cup running
  /\ owed' = owed \cup {p}
  /\ UNCHANGED <<published, complete, running>>

Start(p) ==
  /\ p \in owed
  /\ running' = running \cup {p}
  /\ UNCHANGED <<published, complete, owed>>

Stop(p) ==
  /\ p \in running
  /\ running' = running \ {p}
  /\ UNCHANGED <<published, complete, owed>>

Settle(p) ==
  /\ p \in owed \ running
  /\ owed' = owed \ {p}
  /\ UNCHANGED <<published, complete, running>>

Complete(r) ==
  /\ owed = {}
  /\ running = {}
  /\ Open = {r}
  /\ complete' = complete \cup {r}
  /\ UNCHANGED <<published, owed, running>>

Next ==
  \/ \E r \in Runs : Create(r) \/ Complete(r)
  \/ \E p \in Procs : Owe(p) \/ Start(p) \/ Stop(p) \/ Settle(p)

Spec == Init /\ [][Next]_ledgerVars

=============================================================================
