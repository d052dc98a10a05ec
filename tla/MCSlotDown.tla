------------------------------ MODULE MCSlotDown ------------------------------
(***************************************************************************)
(* SlotDown for TLC: two runs, the first with an invocation and run-scoped *)
(* data, the second without workloads and with persistent data.            *)
(***************************************************************************)

EXTENDS SlotDown

CONSTANTS r1, r2, d1, i1

MCPersistent == {r2} \cap Runs
MCRunOf      == [p \in Procs |-> r1]

=============================================================================
