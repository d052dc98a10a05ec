------------------------- MODULE MCGenerationCleanup -------------------------
(***************************************************************************)
(* GenerationCleanup for TLC: one manifest whose data is run-scoped, one   *)
(* whose data is persistent.                                               *)
(***************************************************************************)

EXTENDS GenerationCleanup

CONSTANTS scoped, persistent

MCManifests == {scoped, persistent}
MCKeeping   == {persistent}

=============================================================================
