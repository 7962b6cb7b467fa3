----------------------------- MODULE TaskStates -----------------------------
(***************************************************************************)
(* The life cycle of a bug_fix task: the states, the legal moves between   *)
(* them, and the state in which a failing run leaves a task.  A pure       *)
(* module: the tables of orchestrator/state_machine.py and the preference  *)
(* order of orchestrator/chain.py, used by every module about tasks.       *)
(***************************************************************************)

TaskState ==
  { "CREATED", "TRIAGING", "INVESTIGATING", "PLANNING_FIX", "CODING",
    "TESTING", "REVIEWING", "PR_CREATION", "WAITING_FOR_APPROVAL", "MERGED",
    "RESOLVED", "FAILED", "CANCELLED", "NEEDS_HUMAN_INPUT",
    "MERGED_INTO_EXISTING" }

TERMINAL_STATES ==
  { "RESOLVED", "FAILED", "MERGED_INTO_EXISTING", "CANCELLED",
    "NEEDS_HUMAN_INPUT" }

NonTerminal == TaskState \ TERMINAL_STATES

-----------------------------------------------------------------------------
(* The transition table, in the groups the code keeps it in. *)

SpecTable ==
  { <<"CREATED", "TRIAGING">>,
    <<"TRIAGING", "MERGED_INTO_EXISTING">>,
    <<"TRIAGING", "INVESTIGATING">>,
    <<"TRIAGING", "CANCELLED">>,
    <<"INVESTIGATING", "PLANNING_FIX">>,
    <<"INVESTIGATING", "NEEDS_HUMAN_INPUT">>,
    <<"PLANNING_FIX", "CODING">>,
    <<"CODING", "TESTING">>,
    <<"TESTING", "CODING">>,
    <<"TESTING", "FAILED">>,
    <<"TESTING", "REVIEWING">>,
    <<"REVIEWING", "CODING">>,
    <<"REVIEWING", "FAILED">>,
    <<"REVIEWING", "PR_CREATION">>,
    <<"PR_CREATION", "WAITING_FOR_APPROVAL">>,
    <<"PR_CREATION", "MERGED">>,
    <<"WAITING_FOR_APPROVAL", "MERGED">>,
    <<"WAITING_FOR_APPROVAL", "CANCELLED">>,
    <<"MERGED", "RESOLVED">> }

Cancellations == { <<s, "CANCELLED">> : s \in NonTerminal }

SystemAborts ==
  { <<"CODING", "NEEDS_HUMAN_INPUT">>,
    <<"PR_CREATION", "NEEDS_HUMAN_INPUT">>,
    <<"TRIAGING", "NEEDS_HUMAN_INPUT">> }

Reconciliations ==
  { <<"CODING", "PLANNING_FIX">>,
    <<"TESTING", "PLANNING_FIX">>,
    <<"TESTING", "NEEDS_HUMAN_INPUT">> }

TRANSITIONS == SpecTable \cup Cancellations \cup SystemAborts \cup Reconciliations

(* validate_transition(from, to) returns rather than raising. *)
CanMove(from, to) == <<from, to>> \in TRANSITIONS

(* Where a failing run leaves a task: the first legal edge among FAILED,   *)
(* NEEDS_HUMAN_INPUT, CANCELLED, and CANCELLED when none is.               *)
FailureState(s) ==
  CASE CanMove(s, "FAILED") -> "FAILED"
    [] ~CanMove(s, "FAILED") /\ CanMove(s, "NEEDS_HUMAN_INPUT") -> "NEEDS_HUMAN_INPUT"
    [] OTHER -> "CANCELLED"
=============================================================================
