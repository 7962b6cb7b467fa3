----------------------------- MODULE MCDispatch -----------------------------
(***************************************************************************)
(* The instance of Dispatch for TLC: a watcher, two issues of one          *)
(* repository with a webhook on each, and the repository's error rate.     *)
(***************************************************************************)
EXTENDS Dispatch, TLC

CONSTANT TheRepo
OneRepo == [i \in Issues |-> TheRepo]
(* One watcher and one delivery, or no watcher and two deliveries. *)
MCInit == Init /\ Cardinality({a \in Actors : step[a] = "idle"}) = 2
MCSpec == MCInit /\ [][Next]_vars

Symmetric == Permutations(Issues)
=============================================================================
