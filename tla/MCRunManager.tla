---------------------------- MODULE MCRunManager ----------------------------
(***************************************************************************)
(* Bounded instances of RunManager for TLC.                                *)
(***************************************************************************)
EXTENDS RunManager, TLC

\* Builds and connections are interchangeable in the safety runs.
Symmetric == Permutations(Feed)
=============================================================================
