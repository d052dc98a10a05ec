----------------------------- MODULE MCSharedEnsure -----------------------------
(***************************************************************************)
(* Instances of SharedEnsure for TLC.                                      *)
(***************************************************************************)
EXTENDS SharedEnsure, TLC

CONSTANTS e1, e2, d1, f1, f2

\* Everybody asks for the same, except the foreground run.
MCRequest == [r \in Runs |-> IF r = f1 THEN "other" ELSE "same"]

\* Everybody at once.
MCAll == {Runs}

\* An ensure with another launcher, and one with runs that replace the registry.
MCPairs == {Launchers, Ensures \cup Foregrounds}

\* The two ensures ask for the same and are told apart by nothing else.
Interchangeable == Permutations({e1, e2})
================================================================================
