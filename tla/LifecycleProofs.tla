--------------------------- MODULE LifecycleProofs ---------------------------
(***************************************************************************)
(* TaskStore implements Lifecycle, for any tasks, sessions and bounds:     *)
(* the step in which a session commits is the atomic move or merge, every  *)
(* other step changes nothing a caller of the store could see.  It rests   *)
(* on the inductive invariant of TaskStoreProofs: that a writer which      *)
(* holds the row's lock knows the row's true state and context.            *)
(***************************************************************************)
EXTENDS TaskStoreProofs

-----------------------------------------------------------------------------
(* Both stores move by the one transition table.                            *)
LEMMA SameTables ==
  /\ Life!TaskState = TaskState
  /\ \A from, to : Life!CanMove(from, to) <=> CanMove(from, to)
BY DEF TaskState, CanMove, TRANSITIONS, SpecTable, Cancellations, SystemAborts, Reconciliations,
       NonTerminal, TERMINAL_STATES, Life!TaskState, Life!CanMove, Life!TRANSITIONS,
       Life!SpecTable, Life!Cancellations, Life!SystemAborts, Life!Reconciliations,
       Life!NonTerminal, Life!TERMINAL_STATES

(* Initial states map to initial states. *)
LEMMA InitMaps == Init => Life!Init
<1> SUFFICES ASSUME Init PROVE Life!Init
  OBVIOUS
<1> DEFINE state == [t \in Tasks |-> row[t].state]
<1>1. \A t \in Tasks : row[t].state = origin[t] /\ row[t].context = {}
                       /\ (row[t].version > 0 <=> origin[t] # "CREATED")
  BY DEF Init
<1>2. state \in [Tasks -> InitialStates]
  BY <1>1 DEF Init
<1>3. [t \in Tasks |-> row[t].version > 0] = [t \in Tasks |-> state[t] # "CREATED"]
  <2>1. \A t \in Tasks : (row[t].version > 0) = (state[t] # "CREATED")
    BY <1>1
  <2>2. QED
    BY <2>1, Zenon
<1>4. [t \in Tasks |-> row[t].context] = [t \in Tasks |-> {}]
  BY <1>1
<1>5. QED
  BY <1>2, <1>3, <1>4 DEF Init, Life!Init

-----------------------------------------------------------------------------
(* A step that leaves the rows, the trail, the pause and the admitted       *)
(* writers alone is a stutter of the abstract store.                        *)
LEMMA Unseen ==
  ASSUME UNCHANGED <<row, trail, paused, admitted>>
  PROVE  UNCHANGED Life!vars
BY DEF Life!vars

(* An exception is seen only in that the writer is no longer expected to    *)
(* end its move.                                                            *)
LEMMA RaiseWithdraws ==
  ASSUME NEW w \in Writers, Raise(w)
  PROVE  Life!Withdraw(w)
BY DEF Raise, dbVars, Life!Withdraw

(* The INSERT of create_task.                                               *)
LEMMA CreateTaskCreates ==
  ASSUME IInv, NEW w \in Writers, NEW t \in Tasks, CreateTask(w, t)
  PROVE  Life!Create(t)
<1>1. row \in [Tasks -> Rows] /\ row[t].version = 0
  BY DEF CreateTask, IInv, TypeOK
<1>2. /\ row'[t].version = 1 /\ row'[t].state = row[t].state
      /\ row'[t].context = row[t].context
      /\ \A u \in Tasks : u # t => row'[u] = row[u]
  BY <1>1 DEF CreateTask, Rows
<1>3. [u \in Tasks |-> row'[u].version > 0]
        = [[u \in Tasks |-> row[u].version > 0] EXCEPT ![t] = TRUE]
  <2>1. row'[t].version > 0
    BY <1>2
  <2>2. \A u \in Tasks : (row'[u].version > 0) = (IF u = t THEN TRUE ELSE row[u].version > 0)
    BY <1>2, <2>1, Zenon
  <2>3. QED
    BY <2>2, Zenon
<1>4. /\ [u \in Tasks |-> row'[u].state] = [u \in Tasks |-> row[u].state]
      /\ [u \in Tasks |-> row'[u].context] = [u \in Tasks |-> row[u].context]
  BY <1>2
<1>5. ~[u \in Tasks |-> row[u].version > 0][t]
  <2>1. ~(row[t].version > 0)
    BY <1>1
  <2>2. QED
    BY <2>1, Zenon
<1>6. trail' = trail /\ paused' = paused /\ admitted' = admitted
  BY DEF CreateTask, pauseVars
<1>7. QED
  BY <1>3, <1>4, <1>5, <1>6 DEF Life!Create

(* The plain commit of task_context, on the version it was read at: what    *)
(* is written back is what the row had and the writer's part.               *)
LEMMA SaveContextNotes ==
  ASSUME IInv, NEW w \in Writers, SaveContext(w)
  PROVE  Life!Note(Task(w), w)
<1> DEFINE t == Task(w)
<1>1. /\ t \in Tasks /\ row \in [Tasks -> Rows] /\ row[t].version \in Nat
      /\ row[t].version > 0
      /\ copy[w].version = row[t].version /\ copy[w].context = row[t].context
  <2>1. TypeOK /\ Acting(w) /\ rowLock[t] # w /\ copy[w].version = row[t].version
    BY NoOneAssumption DEF IInv, SaveContext, Acting, VersionMatches
  <2>2. CopyAgrees(w)
    BY <2>1 DEF IInv, CopiesAgree
  <2>3. QED
    BY <2>1, <2>2, TaskType DEF CopyAgrees, IInv, SessionsHaveRows, SaveContext, TypeOK
<1>2. /\ row'[t].state = row[t].state /\ row'[t].version = row[t].version + 1
      /\ row'[t].context = row[t].context \cup {w}
      /\ \A u \in Tasks : u # t => row'[u] = row[u]
  BY <1>1 DEF SaveContext, WithContext
<1>3. [u \in Tasks |-> row'[u].version > 0] = [u \in Tasks |-> row[u].version > 0]
  <2>1. \A u \in Tasks : (row'[u].version > 0) = (row[u].version > 0)
    BY <1>1, <1>2
  <2>2. QED
    BY <2>1, Zenon
<1>4. /\ [u \in Tasks |-> row'[u].state] = [u \in Tasks |-> row[u].state]
      /\ [u \in Tasks |-> row'[u].context]
           = [[u \in Tasks |-> row[u].context] EXCEPT ![t] = @ \cup {w}]
  BY <1>1, <1>2
<1>5. [u \in Tasks |-> row[u].version > 0][t]
  BY <1>1
<1>6. trail' = trail /\ paused' = paused /\ admitted' = admitted
  BY DEF SaveContext, pauseVars
<1>7. QED
  BY <1>3, <1>4, <1>5, <1>6 DEF Life!Note

(* The commit of transition: from the state the row has at that instant,    *)
(* because the writer has held its lock since it last saw it.               *)
LEMMA CommitMoves ==
  ASSUME IInv, NEW w \in Writers, Commit(w)
  PROVE  Life!Move(Task(w), call[w].to, w)
<1> DEFINE t == Task(w)
           edge == [from |-> row[t].state, to |-> call[w].to, by |-> w]
           part == IF call[w].dirty THEN {w} ELSE {}
<1>1. /\ t \in Tasks /\ row \in [Tasks -> Rows] /\ row[t].version \in Nat
      /\ row[t].version > 0 /\ trail \in [Tasks -> Seq(Edges)]
  BY TaskType DEF IInv, TypeOK, SessionsHaveRows, Commit
<1>2. /\ CanMove(copy[w].state, call[w].to)
      /\ copy[w].state = row[t].state
      /\ copy[w].version > 0
      /\ call[w].dirty => copy[w].context = row[t].context \cup {w}
  <2>1. rowLock[t] = w /\ Acting(w) /\ CanMove(copy[w].state, call[w].to)
    BY DEF IInv, Commit, LocksHeld, Acting, MovesAreLegal, PastGate
  <2>2. CopyAgrees(w)
    BY <2>1 DEF IInv, CopiesAgree
  <2>3. copy[w].version \in Nat
    BY TaskType DEF IInv
  <2>4. /\ copy[w].state = row[t].state /\ copy[w].version > row[t].version
        /\ row[t].context \subseteq copy[w].context
        /\ copy[w].context \subseteq row[t].context \cup {w}
        /\ call[w].dirty => w \in copy[w].context
    BY <2>1, <2>2 DEF CopyAgrees
  <2>5. QED
    BY <1>1, <2>1, <2>3, <2>4
<1>3. /\ row'[t].state = call[w].to /\ row'[t].version = copy[w].version
      /\ row'[t].context = row[t].context \cup part
      /\ \A u \in Tasks : u # t => row'[u] = row[u]
  BY <1>1, <1>2 DEF Commit
<1>4. trail' = [trail EXCEPT ![t] = Append(@, edge)]
  BY <1>2 DEF Commit
<1>5. [u \in Tasks |-> row'[u].version > 0] = [u \in Tasks |-> row[u].version > 0]
  <2>1. \A u \in Tasks : (row'[u].version > 0) = (row[u].version > 0)
    BY <1>1, <1>2, <1>3
  <2>2. QED
    BY <2>1, Zenon
<1>6. /\ [u \in Tasks |-> row'[u].state]
           = [[u \in Tasks |-> row[u].state] EXCEPT ![t] = call[w].to]
      /\ [u \in Tasks |-> row'[u].context]
           = [[u \in Tasks |-> row[u].context] EXCEPT ![t] = @ \cup part]
  BY <1>1, <1>3
<1>7. [u \in Tasks |-> row[u].version > 0][t] /\ [u \in Tasks |-> row[u].state][t] = row[t].state
  BY <1>1
<1>8. Life!CanMove([u \in Tasks |-> row[u].state][t], call[w].to)
  BY <1>2, <1>7, SameTables
<1>9. paused => w \in admitted
  BY DEF IInv, PauseDrains, PastGate, Commit
<1>10. paused' = paused /\ admitted' = admitted \ {w} /\ part \in SUBSET {w}
  BY DEF Commit
<1>11. QED
  BY <1>4, <1>5, <1>6, <1>7, <1>8, <1>9, <1>10 DEF Life!Move

(* A pause, its end, and the loss of a race that is tried again.            *)
LEMMA PausingMaps ==
  /\ Pause => Life!Pause
  /\ Unpause => Life!Unpause
<1>1. ASSUME Pause PROVE Life!Pause
  BY <1>1 DEF Pause, dbVars, Life!Pause
<1>2. ASSUME Unpause PROVE Life!Unpause
  BY <1>2 DEF Unpause, dbVars, Life!Unpause
<1>3. QED
  BY <1>1, <1>2

LEMMA LoseRaceWithdraws ==
  ASSUME NEW w \in Writers, LoseRace(w)
  PROVE  Life!Withdraw(w)
<1>1. CASE Raise(w)
  BY <1>1, RaiseWithdraws
<1>2. CASE ~Raise(w)
  BY <1>2 DEF LoseRace, dbVars, Life!Withdraw
<1>3. QED
  BY <1>1, <1>2

-----------------------------------------------------------------------------
(* Every step maps to a step or a stutter.                                  *)
LEMMA StepMaps == IInv /\ [Next]_vars => [Life!Next]_(Life!vars)
<1> SUFFICES ASSUME IInv, [Next]_vars PROVE Life!Next \/ UNCHANGED Life!vars
  OBVIOUS
<1>1. ASSUME NEW w \in Writers, Raise(w) \/ LoseRace(w) PROVE Life!Next
  BY <1>1, RaiseWithdraws, LoseRaceWithdraws DEF Life!Next
<1>2. ASSUME NEW w \in Writers, NEW t \in Tasks, CreateTask(w, t) PROVE Life!Next
  BY <1>2, CreateTaskCreates DEF Life!Next
<1>3. ASSUME NEW w \in Writers, SaveContext(w) PROVE Life!Next
  <2>1. Task(w) \in Tasks
    BY TaskType DEF IInv
  <2>2. QED
    BY <1>3, <2>1, SaveContextNotes DEF Life!Next
<1>4. ASSUME NEW w \in Writers, Commit(w) PROVE Life!Next
  <2>1. Task(w) \in Tasks /\ call[w].to \in TaskState
    BY TaskType DEF IInv, TypeOK, Calls
  <2>2. QED
    BY <1>4, <2>1, CommitMoves, SameTables DEF Life!Next
<1>5. ASSUME NEW w \in Writers,
             \/ \E t \in Tasks : OpenTask(w, t)
             \/ \E to \in TaskState, retry \in BOOLEAN, dirty \in BOOLEAN : Begin(w, to, retry, dirty)
             \/ FlushContext(w) \/ PassGate(w) \/ LockChain(w) \/ FlushState(w)
             \/ Reread(w) \/ Refresh(w)
      PROVE  UNCHANGED Life!vars
  BY <1>5, Unseen DEF OpenTask, Begin, FlushContext, PassGate, LockChain, FlushState, Reread,
                      Refresh, dbVars, pauseVars
<1>6. ASSUME NEW w \in Writers, Ask(w) PROVE Life!Next \/ UNCHANGED Life!vars
  BY <1>1, <1>2, <1>3, <1>5, <1>6, ExceptionsRaise, CallersBegin DEF Ask
<1>7. ASSUME NEW w \in Writers, Proceed(w) PROVE Life!Next \/ UNCHANGED Life!vars
  BY <1>1, <1>4, <1>5, <1>7, ExceptionsRaise DEF Proceed
<1>8. ASSUME NEW w \in Writers, Close(w) PROVE Life!Next
  BY <1>1, <1>8, ExceptionsRaise
<1>9. CASE Pause \/ Unpause
  BY <1>9, PausingMaps DEF Life!Next
<1>10. CASE UNCHANGED vars
  BY <1>10, Unseen DEF vars
<1>11. QED
  BY <1>6, <1>7, <1>8, <1>9, <1>10 DEF Next

(* The store of tasks implements the atomic one: a caller of transition,    *)
(* transition_with_retry, create_task or a plain commit cannot tell the     *)
(* versions, locks and retries from single atomic moves and merges.         *)
THEOREM Refinement == Spec => ImplementsLifecycle
BY Invariance, InitMaps, StepMaps, PTL DEF Spec, ImplementsLifecycle, Life!Spec
=============================================================================
