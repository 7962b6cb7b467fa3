------------------------------ MODULE Lifecycle ------------------------------
(***************************************************************************)
(* What the store of tasks promises its callers (orchestrator/task.py,     *)
(* orchestrator/pause.py): a task is one atomic object.  A move starts     *)
(* from the state the task really has, is legal, and leaves its audit row  *)
(* and the caller's part of task_context in the same instant; a part once  *)
(* stored stays; after a pause each move that was under way ends at most   *)
(* once and no other begins.  There are no copies, versions, locks or      *)
(* retries here: TaskStore has them, and implements this.                  *)
(***************************************************************************)
EXTENDS Sequences, TaskStates

CONSTANTS
  Tasks,         \* the tasks of the database
  Writers,       \* the sessions that write them
  InitialStates  \* the states in which tasks are found

VARIABLES
  exists,    \* [Tasks -> BOOLEAN], create_task has inserted the row
  state,     \* [Tasks -> TaskState]
  notes,     \* [Tasks -> SUBSET Writers], whose part task_context holds
  history,   \* [Tasks -> sequence of moves], the audit rows
  paused,    \* the system is paused
  admitted   \* who may still end a move that began before the pause

vars == <<exists, state, notes, history, paused, admitted>>

Init ==
  /\ state \in [Tasks -> InitialStates]
  /\ exists = [t \in Tasks |-> state[t] # "CREATED"]
  /\ notes = [t \in Tasks |-> {}]
  /\ history = [t \in Tasks |-> << >>]
  /\ paused = FALSE
  /\ admitted = {}

Create(t) ==
  /\ ~exists[t]
  /\ exists' = [exists EXCEPT ![t] = TRUE]
  /\ UNCHANGED <<state, notes, history, paused, admitted>>

Note(t, w) ==
  /\ exists[t]
  /\ notes' = [notes EXCEPT ![t] = @ \cup {w}]
  /\ UNCHANGED <<exists, state, history, paused, admitted>>

Move(t, to, w) ==
  /\ exists[t]
  /\ CanMove(state[t], to)
  /\ paused => w \in admitted
  /\ state' = [state EXCEPT ![t] = to]
  /\ history' = [history EXCEPT ![t] =
                   Append(@, [from |-> state[t], to |-> to, by |-> w])]
  /\ \E part \in SUBSET {w} : notes' = [notes EXCEPT ![t] = @ \cup part]
  /\ admitted' = admitted \ {w}
  /\ UNCHANGED <<exists, paused>>

(* A move that was under way ends in an exception, or must begin again.    *)
Withdraw(w) ==
  /\ admitted' = admitted \ {w}
  /\ UNCHANGED <<exists, state, notes, history, paused>>

Pause ==
  /\ ~paused
  /\ paused' = TRUE
  /\ admitted' \in SUBSET Writers
  /\ UNCHANGED <<exists, state, notes, history>>

Unpause ==
  /\ paused
  /\ paused' = FALSE
  /\ admitted' = {}
  /\ UNCHANGED <<exists, state, notes, history>>

Next ==
  \/ \E t \in Tasks :
       \/ Create(t)
       \/ \E w \in Writers : Note(t, w) \/ \E to \in TaskState : Move(t, to, w)
  \/ \E w \in Writers : Withdraw(w)
  \/ Pause \/ Unpause

Spec == Init /\ [][Next]_vars
=============================================================================
