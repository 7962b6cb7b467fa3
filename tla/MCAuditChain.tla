---------------------------- MODULE MCAuditChain ----------------------------
(* Instances of AuditChain for TLC. *)
EXTENDS AuditChain, TLC

CONSTANTS v1, v2, v3, v4, v5

Symmetric == Permutations(Writers) \cup Permutations({v3, v4, v5})

Chain1 == <<<<"task_transitions", v1>>>>
Chain2 == Append(Chain1, <<"task_transitions", v2>>)

(* Two transitions chained before positions existed.                        *)
ChainedHistory ==
  {[table |-> "task_transitions", id |-> 1, value |-> v1, pos |-> NULL,
    prev |-> GENESIS_HASH, hash |-> Chain1],
   [table |-> "task_transitions", id |-> 2, value |-> v2, pos |-> NULL,
    prev |-> Chain1, hash |-> Chain2]}

(* A transition written before there was any chain.                         *)
UnchainedHistory ==
  {[table |-> "task_transitions", id |-> 1, value |-> v1, pos |-> NULL,
    prev |-> NULL, hash |-> NULL]}
=============================================================================
