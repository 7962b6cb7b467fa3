---------------------------- MODULE MCTaskStore ----------------------------
(***************************************************************************)
(* Model checking of TaskStore: two or three sessions on one task that is  *)
(* found just created, waiting for approval, or under test.                *)
(***************************************************************************)
EXTENDS TaskStore, TLC

Symmetric == Permutations(Writers)
=============================================================================
