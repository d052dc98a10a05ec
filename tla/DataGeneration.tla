---------------------------- MODULE DataGeneration ----------------------------
(***************************************************************************)
(* What the runtime promises about the application data of a slot,         *)
(* whatever its commands and directory operations are: there is one        *)
(* generation at a time; it is deleted under a committed intent that no    *)
(* other intent, no new generation and no change of retention overtakes;   *)
(* once its deletion is complete it never comes back; and retention, while *)
(* a generation lasts, only gets stronger.                                 *)
(*                                                                         *)
(* SlotSession implements it among all commands and processes of the slot, *)
(* GenerationCleanup with its directory operations.                        *)
(***************************************************************************)

CONSTANTS
  Generations,
  Nothing  \* no generation

VARIABLES
  data,     \* the generation whose marker is in place
  keep,     \* that marker says persistent
  pending,  \* the generation with a pending deletion
  deleted   \* the generations whose deletion is complete

vars == <<data, keep, pending, deleted>>

Init ==
  /\ data = Nothing
  /\ keep = FALSE
  /\ pending = Nothing
  /\ deleted = {}

Publish(g) ==
  /\ data = Nothing /\ pending = Nothing
  /\ g \notin deleted
  /\ data' = g
  /\ keep' \in BOOLEAN
  /\ UNCHANGED <<pending, deleted>>

Promote ==
  /\ data # Nothing /\ pending = Nothing
  /\ keep' = TRUE
  /\ UNCHANGED <<data, pending, deleted>>

Intend ==
  /\ data # Nothing /\ pending = Nothing
  /\ data \notin deleted
  /\ pending' = data
  /\ UNCHANGED <<data, keep, deleted>>

Remove ==
  /\ pending # Nothing /\ data = pending
  /\ data' = Nothing
  /\ keep' = FALSE
  /\ UNCHANGED <<pending, deleted>>

Complete ==
  /\ pending # Nothing /\ data = Nothing
  /\ deleted' = deleted \cup {pending}
  /\ pending' = Nothing
  /\ UNCHANGED <<data, keep>>

Next == (\E g \in Generations : Publish(g)) \/ Promote \/ Intend \/ Remove \/ Complete

Spec == Init /\ [][Next]_vars

=============================================================================
