---------------------------- MODULE MCSlotSession ----------------------------
(***************************************************************************)
(* SlotSession for TLC.  The first run command keeps run-scoped data, the  *)
(* second one persistent data; the first starts a service and an           *)
(* invocation, the second an invocation.                                   *)
(***************************************************************************)

EXTENDS SlotSessionInvariant

CONSTANTS r1, r2, d1, c1, s1, i1, i2

MCPersistent == {r2} \cap Runs
MCServices   == {s1} \cap Procs
MCRunOf      == [p \in Procs |-> IF p = i2 THEN r2 ELSE r1]

=============================================================================
