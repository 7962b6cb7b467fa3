--------------------------- MODULE TaskStoreProofs ---------------------------
(***************************************************************************)
(* Proofs about TaskStore for any tasks, writers and bounds: types, the    *)
(* honesty of the audit trail, the finality of terminal states, the        *)
(* preservation of task_context, the pause gate, and one audit row for     *)
(* each success.                                                           *)
(***************************************************************************)
EXTENDS TaskStore, FiniteSetTheorems, TLAPS

-----------------------------------------------------------------------------
(* The inductive invariant *)

(* The writers whose copy is meant to say what the row holds: not between   *)
(* transactions, when the copy is about to be read again.                   *)
Acting(w) == pc[w] \in {"open", "gate", "lock", "flush", "commit"}

(* The audit lock is held exactly from LockChain to the end of the          *)
(* transaction; a row's lock only by a writer in the middle of a call on    *)
(* that row that has flushed something.                                     *)
LocksHeld ==
  /\ \A w \in Writers : auditLock = w <=> pc[w] \in {"flush", "commit"}
  /\ \A t \in Tasks, w \in Writers :
       rowLock[t] = w => /\ Task(w) = t
                         /\ pc[w] \in {"gate", "lock", "flush", "commit"}
                         /\ pc[w] # "commit" => call[w].dirty
  /\ \A w \in Writers :
       \/ pc[w] = "commit"
       \/ pc[w] \in {"lock", "flush"} /\ call[w].dirty
       => rowLock[Task(w)] = w

(* A session exists only for a row that was inserted.                       *)
SessionsHaveRows == \A w \in Writers : pc[w] # "closed" => row[Task(w)].version > 0

(* A copy is at most as new as its row; at the row's version it says what   *)
(* the row says; under the row's lock it is ahead by its own changes only.  *)
CopyAgrees(w) ==
  IF rowLock[Task(w)] = w
  THEN /\ copy[w].state = row[Task(w)].state
       /\ row[Task(w)].context \subseteq copy[w].context
       /\ copy[w].context \subseteq row[Task(w)].context \cup {w}
       /\ copy[w].version > row[Task(w)].version
       /\ call[w].dirty => w \in copy[w].context
  ELSE /\ copy[w].version <= row[Task(w)].version
       /\ copy[w].version = row[Task(w)].version =>
            /\ copy[w].state = row[Task(w)].state
            /\ copy[w].context = row[Task(w)].context

CopiesAgree == \A w \in Writers : Acting(w) => CopyAgrees(w)

(* A writer past the gate asks for a legal move from the state it saw.      *)
MovesAreLegal == \A w \in Writers : pc[w] \in PastGate => CanMove(copy[w].state, call[w].to)

IInv ==
  /\ TypeOK
  /\ LocksHeld
  /\ SessionsHaveRows
  /\ CopiesAgree
  /\ MovesAreLegal
  /\ TrailLeadsToState
  /\ NoContextLost
  /\ PauseDrains

-----------------------------------------------------------------------------
(* Facts about the tables *)

(* No move leaves a terminal state.                                         *)
LEMMA TerminalHasNoExit ==
  ASSUME NEW s \in TERMINAL_STATES, NEW to
  PROVE  ~CanMove(s, to)
BY DEF CanMove, TRANSITIONS, SpecTable, Cancellations, SystemAborts, Reconciliations,
       NonTerminal, TERMINAL_STATES, TaskState

(* The failure handler and the API only ask for states that exist.          *)
LEMMA RequestedStates ==
  ASSUME NEW s
  PROVE  FailureState(s) \in TaskState /\ "CANCELLED" \in TaskState
         /\ "MERGED" \in TaskState /\ "CREATED" \in TaskState
BY DEF FailureState, TaskState

LEMMA UnloadedType == Unloaded \in Copies
BY TasksAssumption, RequestedStates DEF Unloaded, Copies

LEMMA NoCallType == NoCall \in Calls
BY RequestedStates DEF NoCall, Calls

(* What a session does to a copy or a row leaves a copy or a row.           *)
LEMMA RowTypes ==
  ASSUME NEW r \in Rows, NEW n \in Nat
  PROVE  [r EXCEPT !.version = n] \in Rows
BY DEF Rows

LEMMA RowAtVersion ==
  ASSUME NEW r \in Rows, NEW n
  PROVE  [r EXCEPT !.version = n] = [state |-> r.state, version |-> n, context |-> r.context]
BY DEF Rows

LEMMA LoadedType ==
  ASSUME TypeOK, NEW t \in Tasks
  PROVE  Loaded(t) \in Copies
BY DEF TypeOK, Rows, Loaded, Copies

LEMMA TaskType ==
  ASSUME TypeOK, NEW w \in Writers
  PROVE  /\ Task(w) \in Tasks
         /\ copy[w] \in Copies /\ copy[w].version \in Nat
         /\ copy[w].context \in SUBSET Writers /\ copy[w].state \in TaskState
         /\ row[Task(w)] \in Rows /\ row[Task(w)].version \in Nat
BY DEF TypeOK, Copies, Rows, Task

LEMMA FlushedTypes ==
  ASSUME TypeOK, NEW w \in Writers
  PROVE  WithContext(w) \in Copies /\ WithState(w) \in Copies
BY TaskType DEF WithContext, WithState, Copies

(* A step that touches neither a session nor its row leaves its copy right. *)
LEMMA CopyFrame ==
  ASSUME NEW v \in Writers, CopyAgrees(v), copy'[v] = copy[v], call'[v] = call[v],
         row'[copy[v].task] = row[copy[v].task],
         rowLock'[copy[v].task] = v <=> rowLock[copy[v].task] = v
  PROVE  CopyAgrees(v)'
BY DEF CopyAgrees, Task

(* A copy just read says what the row says.                                 *)
LEMMA FreshCopyAgrees ==
  ASSUME TypeOK, NEW v \in Writers, NEW t \in Tasks, copy'[v] = Loaded(t), row' = row,
         rowLock'[t] # v
  PROVE  CopyAgrees(v)'
<1>1. row[t] \in Rows /\ copy'[v].task = t /\ copy'[v].version = row[t].version
      /\ copy'[v].state = row[t].state /\ copy'[v].context = row[t].context
  BY DEF TypeOK, Loaded
<1>2. row[t].version <= row[t].version
  BY <1>1 DEF Rows
<1>3. QED
  BY <1>1, <1>2 DEF CopyAgrees, Task

(* The writers that hold a row are in a call on it.                         *)
LEMMA HoldersAreInCalls ==
  ASSUME LocksHeld, NEW w \in Writers, NEW t \in Tasks, rowLock[t] = w
  PROVE  /\ copy[w].task = t /\ pc[w] \in {"gate", "lock", "flush", "commit"}
         /\ pc[w] # "commit" => call[w].dirty
BY DEF LocksHeld, Task

(* The copies of all after a step of w that changes no row: those of the    *)
(* others stay right when it takes no lock of theirs, and gives none.       *)
LEMMA OthersCopiesAgree ==
  ASSUME TypeOK, CopiesAgree, NEW w \in Writers, row' = row,
         \A v \in Writers : v # w => copy'[v] = copy[v] /\ call'[v] = call[v] /\ pc'[v] = pc[v],
         \A v \in Writers, t \in Tasks : v # w => (rowLock'[t] = v <=> rowLock[t] = v),
         Acting(w)' => CopyAgrees(w)'
  PROVE  CopiesAgree'
<1> SUFFICES ASSUME NEW v \in Writers, Acting(v)', v # w
             PROVE  CopyAgrees(v)'
  BY DEF CopiesAgree
<1>1. CopyAgrees(v) /\ copy[v].task \in Tasks
  BY TaskType DEF CopiesAgree, Acting, Task
<1>2. QED
  BY <1>1, CopyFrame

-----------------------------------------------------------------------------
LEMMA InitInv == Init => IInv
<1> SUFFICES ASSUME Init PROVE IInv
  OBVIOUS
<1>1. TypeOK
  <2>1. row \in [Tasks -> Rows] /\ origin \in [Tasks -> TaskState]
    BY InitialStatesAssumption DEF Init, Rows
  <2>2. trail \in [Tasks -> Seq(Edges)]
    BY DEF Init
  <2>3. copy \in [Writers -> Copies] /\ call \in [Writers -> Calls]
    BY UnloadedType, NoCallType DEF Init
  <2>4. QED
    BY <2>1, <2>2, <2>3 DEF Init, TypeOK, Steps
<1>2. LocksHeld /\ SessionsHaveRows /\ CopiesAgree /\ MovesAreLegal
  BY NoOneAssumption
     DEF Init, LocksHeld, SessionsHaveRows, CopiesAgree, CopyAgrees, MovesAreLegal, Acting, PastGate
<1>3. TrailLeadsToState /\ NoContextLost /\ PauseDrains
  BY DEF Init, TrailLeadsToState, StateByTrail, NoContextLost, PauseDrains
<1>4. QED
  BY <1>1, <1>2, <1>3 DEF IInv
-----------------------------------------------------------------------------
(* A rolled-back transaction takes its locks with it. *)
LEMMA RaiseKeeps ==
  ASSUME IInv, NEW w \in Writers, Raise(w)
  PROVE  IInv'
<1> USE DEF IInv, TypeOK, Task, dbVars, lockVars, pauseVars, tellVars
<1>1. TypeOK'
  BY UnloadedType, NoCallType, NoOneAssumption DEF Raise, ReleaseLocks, Rows, Copies, Calls, Edges, Steps, Loaded
<1>2. LocksHeld'
  <2>1. (\A v \in Writers : auditLock = v <=> pc[v] \in {"flush", "commit"})'
    BY NoOneAssumption DEF Raise, ReleaseLocks, LocksHeld
  <2>2. (\A t \in Tasks, v \in Writers :
           rowLock[t] = v => /\ Task(v) = t
                             /\ pc[v] \in {"gate", "lock", "flush", "commit"}
                             /\ pc[v] # "commit" => call[v].dirty)'
    BY NoOneAssumption DEF Raise, ReleaseLocks, LocksHeld
  <2>3. (\A v \in Writers :
           \/ pc[v] = "commit"
           \/ pc[v] \in {"lock", "flush"} /\ call[v].dirty
           => rowLock[Task(v)] = v)'
    BY TaskType DEF Raise, ReleaseLocks, LocksHeld
  <2>4. QED
    BY <2>1, <2>2, <2>3 DEF LocksHeld
<1>3. SessionsHaveRows'
  BY UnloadedType, NoCallType, NoOneAssumption DEF Raise, ReleaseLocks, SessionsHaveRows, Loaded
<1>4. CopiesAgree'
  <2>1. pc'[w] = "closed" /\ row' = row
        /\ \A v \in Writers : v # w => copy'[v] = copy[v] /\ call'[v] = call[v] /\ pc'[v] = pc[v]
    BY DEF Raise
  <2>2. \A v \in Writers, t \in Tasks : v # w => (rowLock'[t] = v <=> rowLock[t] = v)
    BY NoOneAssumption DEF Raise, ReleaseLocks
  <2>3. ~Acting(w)'
    BY <2>1 DEF Acting
  <2>4. QED
    BY <2>1, <2>2, <2>3, OthersCopiesAgree
<1>5. MovesAreLegal'
  BY UnloadedType, NoCallType, NoOneAssumption DEF Raise, ReleaseLocks, MovesAreLegal, PastGate
<1>6. TrailLeadsToState'
  BY UnloadedType, NoCallType, NoOneAssumption DEF Raise, ReleaseLocks, TrailLeadsToState, StateByTrail
<1>7. NoContextLost'
  BY UnloadedType, NoCallType, NoOneAssumption DEF Raise, ReleaseLocks, NoContextLost, CopiesAgree, CopyAgrees, Acting
<1>8. PauseDrains'
  BY UnloadedType, NoCallType, NoOneAssumption DEF Raise, ReleaseLocks, PauseDrains, PastGate
<1>9. QED
  BY <1>1, <1>2, <1>3, <1>4, <1>5, <1>6, <1>7, <1>8 DEF IInv

(* An INSERT touches a row nobody had loaded: every session holds a row that exists. *)
LEMMA CreateTaskKeeps ==
  ASSUME IInv, NEW w \in Writers, NEW t \in Tasks, CreateTask(w, t)
  PROVE  IInv'
<1> USE DEF IInv, TypeOK, Task, dbVars, lockVars, pauseVars, tellVars
<1>1. TypeOK'
  <2>1. row' \in [Tasks -> Rows]
    <3>1. [row[t] EXCEPT !.version = 1] \in Rows
      BY RowTypes
    <3>2. row' = [row EXCEPT ![t] = [row[t] EXCEPT !.version = 1]]
      BY DEF CreateTask
    <3>3. QED
      BY <3>1, <3>2
  <2>2. copy' \in [Writers -> Copies]
    <3>1. [task |-> t, state |-> row[t].state, version |-> 1,
           context |-> row[t].context] \in Copies
      BY DEF Rows, Copies
    <3>2. QED
      BY <3>1 DEF CreateTask
  <2>3. QED
    BY <2>1, <2>2 DEF CreateTask, Steps
<1>2. LocksHeld'
  BY DEF CreateTask, LocksHeld
<1>3. SessionsHaveRows'
  BY DEF CreateTask, SessionsHaveRows, Loaded
<1>4. CopiesAgree'
  <2> SUFFICES ASSUME NEW v \in Writers, Acting(v)'
               PROVE  CopyAgrees(v)'
    BY DEF CopiesAgree
  <2>1. CASE v = w
    <3>1. copy'[w] = [task |-> t, state |-> row[t].state, version |-> 1,
                      context |-> row[t].context]
      BY DEF CreateTask, Loaded
    <3>2. row'[t] = [state |-> row[t].state, version |-> 1, context |-> row[t].context]
      <4>1. row \in [Tasks -> Rows] /\ row[t] \in Rows
        OBVIOUS
      <4>2. row' = [row EXCEPT ![t] = [row[t] EXCEPT !.version = 1]]
        BY DEF CreateTask
      <4>3. [row[t] EXCEPT !.version = 1]
              = [state |-> row[t].state, version |-> 1, context |-> row[t].context]
        BY <4>1, RowAtVersion
      <4> HIDE DEF IInv, TypeOK
      <4>4. QED
        BY <4>1, <4>2, <4>3
    <3>3. rowLock'[t] # w
      BY DEF CreateTask, LocksHeld
    <3>4. QED
      BY <2>1, <3>1, <3>2, <3>3 DEF CopyAgrees
  <2>2. CASE v # w
    <3>1. copy'[v] = copy[v] /\ pc'[v] = pc[v] /\ call'[v] = call[v] /\ rowLock' = rowLock
      BY <2>2 DEF CreateTask
    <3>2. copy[v].task # t
      <4>1. pc[v] # "closed"
        BY <3>1 DEF Acting
      <4>2. row[copy[v].task].version > 0
        BY <4>1 DEF SessionsHaveRows
      <4>3. QED
        BY <4>2 DEF CreateTask
    <3>3. row'[copy[v].task] = row[copy[v].task]
      BY <3>2, TaskType DEF CreateTask
    <3>4. QED
      BY <3>1, <3>3 DEF CopiesAgree, CopyAgrees, Acting
  <2>3. QED
    BY <2>1, <2>2
<1>5. MovesAreLegal'
  BY DEF CreateTask, MovesAreLegal, PastGate
<1>6. TrailLeadsToState'
  BY DEF CreateTask, TrailLeadsToState, StateByTrail
<1>7. NoContextLost'
  BY DEF CreateTask, NoContextLost, CopiesAgree, CopyAgrees, Acting
<1>8. PauseDrains'
  BY DEF CreateTask, PauseDrains, PastGate
<1>9. QED
  BY <1>1, <1>2, <1>3, <1>4, <1>5, <1>6, <1>7, <1>8 DEF IInv

(* A new session reads the committed row, so its copy agrees with it. *)
LEMMA OpenTaskKeeps ==
  ASSUME IInv, NEW w \in Writers, NEW t \in Tasks, OpenTask(w, t)
  PROVE  IInv'
<1> USE DEF IInv, TypeOK, Task, dbVars, lockVars, pauseVars, tellVars
<1>1. TypeOK'
  BY DEF OpenTask, Rows, Copies, Calls, Edges, Steps, Loaded
<1>2. LocksHeld'
  BY DEF OpenTask, LocksHeld
<1>3. SessionsHaveRows'
  BY DEF OpenTask, SessionsHaveRows, Loaded
<1>4. CopiesAgree'
  <2>1. /\ pc[w] = "closed" /\ row' = row /\ rowLock' = rowLock /\ copy'[w] = Loaded(t)
        /\ \A v \in Writers : v # w => copy'[v] = copy[v] /\ call'[v] = call[v] /\ pc'[v] = pc[v]
    BY DEF OpenTask
  <2>2. rowLock'[t] # w
    BY <2>1, HoldersAreInCalls
  <2>3. CopyAgrees(w)'
    BY <2>1, <2>2, FreshCopyAgrees
  <2>4. QED
    BY <2>1, <2>3, OthersCopiesAgree
<1>5. MovesAreLegal'
  BY DEF OpenTask, MovesAreLegal, PastGate
<1>6. TrailLeadsToState'
  BY DEF OpenTask, TrailLeadsToState, StateByTrail
<1>7. NoContextLost'
  BY DEF OpenTask, NoContextLost, CopiesAgree, CopyAgrees, Acting
<1>8. PauseDrains'
  BY DEF OpenTask, PauseDrains, PastGate
<1>9. QED
  BY <1>1, <1>2, <1>3, <1>4, <1>5, <1>6, <1>7, <1>8 DEF IInv

(* A merge of task_context at the version of the row leaves every other copy of that
   row behind, and keeps what the row already stored. *)
LEMMA SaveContextKeeps ==
  ASSUME IInv, NEW w \in Writers, SaveContext(w)
  PROVE  IInv'
<1> USE DEF IInv, TypeOK, Task, dbVars, lockVars, pauseVars, tellVars
<1> DEFINE t == Task(w)
<1>a. /\ t \in Tasks /\ copy[w].version = row[t].version /\ rowLock[t] = NoOne
      /\ \A v \in Writers : copy'[v].task = copy[v].task
  BY TaskType, NoOneAssumption DEF SaveContext, WithContext, VersionMatches, WithContext
<1>b. /\ row'[t] = [state |-> row[t].state, version |-> row[t].version + 1,
                    context |-> copy[w].context \cup {w}]
      /\ \A u \in Tasks : u # t => row'[u] = row[u]
  BY <1>a, TaskType DEF SaveContext, WithContext
<1>1. TypeOK'
  <2>1. row' \in [Tasks -> Rows]
    <3>1. [state |-> row[t].state, version |-> WithContext(w).version,
           context |-> WithContext(w).context] \in Rows
      BY FlushedTypes, TaskType DEF Rows, Copies
    <3>2. QED
      BY <3>1 DEF SaveContext
  <2>2. copy' \in [Writers -> Copies]
    BY FlushedTypes DEF SaveContext
  <2>3. saved' \in [Tasks -> SUBSET Writers] /\ started' \in [Writers -> Nat]
    BY <1>a DEF SaveContext
  <2>4. QED
    BY <2>1, <2>2, <2>3 DEF SaveContext
<1>2. LocksHeld'
  BY DEF SaveContext, WithContext, VersionMatches, LocksHeld
<1>3. SessionsHaveRows'
  <2> SUFFICES ASSUME NEW v \in Writers, pc'[v] # "closed"
               PROVE  row'[copy'[v].task].version > 0
    BY DEF SessionsHaveRows
  <2>1. copy'[v].task = copy[v].task /\ row[copy[v].task].version > 0
    BY <1>a DEF SaveContext, SessionsHaveRows
  <2>2. row[t].version \in Nat /\ copy[v].task \in Tasks
    BY TaskType
  <2>3. CASE copy[v].task = t
    BY <1>b, <2>1, <2>2, <2>3
  <2>4. CASE copy[v].task # t
    BY <1>b, <2>1, <2>2, <2>4
  <2>5. QED
    BY <2>3, <2>4
<1>4. CopiesAgree'
  <2> SUFFICES ASSUME NEW v \in Writers, Acting(v)'
               PROVE  CopyAgrees(v)'
    BY DEF CopiesAgree
  <2>1. /\ Acting(v) /\ CopyAgrees(v) /\ copy'[v].task = copy[v].task
        /\ rowLock' = rowLock /\ call' = call /\ copy[v].task \in Tasks
    BY <1>a, TaskType DEF SaveContext, Acting, CopiesAgree
  <2>2. CASE v = w
    <3>1. copy'[w] = WithContext(w) /\ rowLock'[t] # w
      BY <1>a, NoOneAssumption DEF SaveContext
    <3>2. copy[w].state = row[t].state
      BY <1>a, <2>1, <2>2, NoOneAssumption DEF CopyAgrees
    <3>3. QED
      BY <1>a, <1>b, <2>2, <3>1, <3>2, TaskType DEF CopyAgrees, WithContext
  <2>3. CASE v # w /\ copy[v].task = t
    <3>1. copy'[v] = copy[v] /\ rowLock'[t] # v
      BY <1>a, <2>1, <2>3, NoOneAssumption DEF SaveContext
    <3>2. copy[v].version <= row[t].version /\ row'[t].version = row[t].version + 1
      BY <1>a, <1>b, <2>1, <2>3, <3>1 DEF CopyAgrees
    <3>3. QED
      BY <2>1, <2>3, <3>1, <3>2, TaskType DEF CopyAgrees
  <2>4. CASE v # w /\ copy[v].task # t
    <3>1. copy'[v] = copy[v] /\ row'[copy[v].task] = row[copy[v].task]
      BY <1>b, <2>1, <2>4 DEF SaveContext
    <3>2. QED
      BY <2>1, <3>1 DEF CopyAgrees
  <2>5. QED
    BY <2>2, <2>3, <2>4
<1>5. MovesAreLegal'
  BY DEF SaveContext, WithContext, VersionMatches, MovesAreLegal, PastGate
<1>6. TrailLeadsToState'
  BY DEF SaveContext, WithContext, VersionMatches, TrailLeadsToState, StateByTrail
<1>7. NoContextLost'
  BY DEF SaveContext, WithContext, VersionMatches, NoContextLost, CopiesAgree, CopyAgrees, Acting
<1>8. PauseDrains'
  BY DEF SaveContext, WithContext, VersionMatches, PauseDrains, PastGate
<1>9. QED
  BY <1>1, <1>2, <1>3, <1>4, <1>5, <1>6, <1>7, <1>8 DEF IInv

(* Starting a call changes nothing that is shared. *)
LEMMA BeginKeeps ==
  ASSUME IInv, NEW w \in Writers, NEW to \in TaskState, NEW retry \in BOOLEAN, NEW dirty \in BOOLEAN, Begin(w, to, retry, dirty)
  PROVE  IInv'
<1> USE DEF IInv, TypeOK, Task, dbVars, lockVars, pauseVars, tellVars
<1>1. TypeOK'
  <2>1. [to |-> to, retry |-> retry, dirty |-> dirty,
         left |-> IF retry THEN MAX_OCC_RETRIES ELSE 1] \in Calls
    BY BoundsAssumption DEF Calls
  <2>2. QED
    BY <2>1 DEF Begin, Steps
<1>2. LocksHeld'
  BY BoundsAssumption DEF Begin, LocksHeld
<1>3. SessionsHaveRows'
  BY BoundsAssumption DEF Begin, SessionsHaveRows, Loaded
<1>4. CopiesAgree'
  <2>1. /\ pc[w] = "open" /\ row' = row /\ rowLock' = rowLock /\ copy' = copy
        /\ \A v \in Writers : v # w => call'[v] = call[v] /\ pc'[v] = pc[v]
    BY DEF Begin
  <2>2. CopyAgrees(w) /\ copy[w].task \in Tasks
    BY <2>1, TaskType DEF CopiesAgree, Acting
  <2>3. rowLock[copy[w].task] # w
    BY <2>1, <2>2, HoldersAreInCalls
  <2>4. CopyAgrees(w)'
    BY <2>1, <2>2, <2>3 DEF CopyAgrees
  <2>5. QED
    BY <2>1, <2>4, OthersCopiesAgree
<1>5. MovesAreLegal'
  BY BoundsAssumption DEF Begin, MovesAreLegal, PastGate
<1>6. TrailLeadsToState'
  BY BoundsAssumption DEF Begin, TrailLeadsToState, StateByTrail
<1>7. NoContextLost'
  BY BoundsAssumption DEF Begin, NoContextLost, CopiesAgree, CopyAgrees, Acting
<1>8. PauseDrains'
  BY BoundsAssumption DEF Begin, PauseDrains, PastGate
<1>9. QED
  BY <1>1, <1>2, <1>3, <1>4, <1>5, <1>6, <1>7, <1>8 DEF IInv

(* The flushed UPDATE puts the copy ahead of its row, under the lock of the row. *)
LEMMA FlushContextKeeps ==
  ASSUME IInv, NEW w \in Writers, FlushContext(w)
  PROVE  IInv'
<1> USE DEF IInv, TypeOK, Task, dbVars, lockVars, pauseVars, tellVars
<1>1. TypeOK'
  <2>1. copy' \in [Writers -> Copies]
    BY FlushedTypes DEF FlushContext
  <2>2. rowLock' \in [Tasks -> Writers \cup {NoOne}]
    BY DEF FlushContext
  <2>3. QED
    BY <2>1, <2>2 DEF FlushContext
<1>2. LocksHeld'
  BY NoOneAssumption DEF FlushContext, WithContext, VersionMatches, LocksHeld
<1>3. SessionsHaveRows'
  BY NoOneAssumption DEF FlushContext, WithContext, VersionMatches, SessionsHaveRows, Loaded
<1>4. CopiesAgree'
  <2>1. /\ pc[w] = "gate" /\ row' = row /\ call' = call /\ copy'[w] = WithContext(w)
        /\ \A v \in Writers : v # w => copy'[v] = copy[v] /\ pc'[v] = pc[v]
    BY DEF FlushContext
  <2>2. copy[w].task \in Tasks /\ rowLock[copy[w].task] = NoOne /\ rowLock'[copy[w].task] = w
    BY TaskType DEF FlushContext
  <2>3. \A v \in Writers, t \in Tasks : v # w => (rowLock'[t] = v <=> rowLock[t] = v)
    BY <2>2, NoOneAssumption DEF FlushContext
  <2>4. CopyAgrees(w) /\ rowLock[copy[w].task] # w
    BY <2>1, <2>2, NoOneAssumption DEF CopiesAgree, Acting
  <2>5. copy[w].version = row[copy[w].task].version
    BY <2>4 DEF FlushContext, VersionMatches
  <2>6. copy[w].state = row[copy[w].task].state /\ copy[w].context = row[copy[w].task].context
    BY <2>4, <2>5 DEF CopyAgrees
  <2>7. /\ copy'[w].task = copy[w].task /\ copy'[w].state = copy[w].state
        /\ copy'[w].version = copy[w].version + 1 /\ copy'[w].context = copy[w].context \cup {w}
    BY <2>1 DEF WithContext
  <2>8. CopyAgrees(w)'
    BY <2>1, <2>2, <2>5, <2>6, <2>7, TaskType DEF CopyAgrees
  <2>9. QED
    BY <2>1, <2>3, <2>8, OthersCopiesAgree
<1>5. MovesAreLegal'
  BY NoOneAssumption DEF FlushContext, WithContext, VersionMatches, MovesAreLegal, PastGate
<1>6. TrailLeadsToState'
  BY NoOneAssumption DEF FlushContext, WithContext, VersionMatches, TrailLeadsToState, StateByTrail
<1>7. NoContextLost'
  BY NoOneAssumption DEF FlushContext, WithContext, VersionMatches, NoContextLost, CopiesAgree, CopyAgrees, Acting
<1>8. PauseDrains'
  BY NoOneAssumption DEF FlushContext, WithContext, VersionMatches, PauseDrains, PastGate
<1>9. QED
  BY <1>1, <1>2, <1>3, <1>4, <1>5, <1>6, <1>7, <1>8 DEF IInv

(* Past the gate the move is legal from the state in the copy, and nobody is paused. *)
LEMMA PassGateKeeps ==
  ASSUME IInv, NEW w \in Writers, PassGate(w)
  PROVE  IInv'
<1> USE DEF IInv, TypeOK, Task, dbVars, lockVars, pauseVars, tellVars
<1>1. TypeOK'
  BY DEF PassGate, GateOpen, Rows, Copies, Calls, Edges, Steps, Loaded
<1>2. LocksHeld'
  BY DEF PassGate, GateOpen, LocksHeld
<1>3. SessionsHaveRows'
  BY DEF PassGate, GateOpen, SessionsHaveRows, Loaded
<1>4. CopiesAgree'
  <2>1. /\ pc[w] \in {"gate", "lock"} /\ row' = row /\ rowLock' = rowLock
        /\ copy' = copy /\ call' = call /\ \A v \in Writers : v # w => pc'[v] = pc[v]
    BY DEF PassGate, GateOpen
  <2>2. CopyAgrees(w)'
    BY <2>1, CopyFrame DEF CopiesAgree, Acting
  <2>3. QED
    BY <2>1, <2>2, OthersCopiesAgree
<1>5. MovesAreLegal'
  BY DEF PassGate, GateOpen, MovesAreLegal, PastGate
<1>6. TrailLeadsToState'
  BY DEF PassGate, GateOpen, TrailLeadsToState, StateByTrail
<1>7. NoContextLost'
  BY DEF PassGate, GateOpen, NoContextLost, CopiesAgree, CopyAgrees, Acting
<1>8. PauseDrains'
  BY DEF PassGate, GateOpen, PauseDrains, PastGate
<1>9. QED
  BY <1>1, <1>2, <1>3, <1>4, <1>5, <1>6, <1>7, <1>8 DEF IInv

(* The advisory lock of the chain has one holder. *)
LEMMA LockChainKeeps ==
  ASSUME IInv, NEW w \in Writers, LockChain(w)
  PROVE  IInv'
<1> USE DEF IInv, TypeOK, Task, dbVars, lockVars, pauseVars, tellVars
<1>1. TypeOK'
  BY NoOneAssumption DEF LockChain, Rows, Copies, Calls, Edges, Steps, Loaded
<1>2. LocksHeld'
  BY NoOneAssumption DEF LockChain, LocksHeld
<1>3. SessionsHaveRows'
  BY NoOneAssumption DEF LockChain, SessionsHaveRows, Loaded
<1>4. CopiesAgree'
  <2>1. /\ pc[w] \in {"gate", "lock"} /\ row' = row /\ rowLock' = rowLock
        /\ copy' = copy /\ call' = call /\ \A v \in Writers : v # w => pc'[v] = pc[v]
    BY DEF LockChain
  <2>2. CopyAgrees(w)'
    BY <2>1, CopyFrame DEF CopiesAgree, Acting
  <2>3. QED
    BY <2>1, <2>2, OthersCopiesAgree
<1>5. MovesAreLegal'
  BY NoOneAssumption DEF LockChain, MovesAreLegal, PastGate
<1>6. TrailLeadsToState'
  BY NoOneAssumption DEF LockChain, TrailLeadsToState, StateByTrail
<1>7. NoContextLost'
  BY NoOneAssumption DEF LockChain, NoContextLost, CopiesAgree, CopyAgrees, Acting
<1>8. PauseDrains'
  BY NoOneAssumption DEF LockChain, PauseDrains, PastGate
<1>9. QED
  BY <1>1, <1>2, <1>3, <1>4, <1>5, <1>6, <1>7, <1>8 DEF IInv

(* The UPDATE finds its row at the version of the copy, and locks it. *)
LEMMA FlushStateKeeps ==
  ASSUME IInv, NEW w \in Writers, FlushState(w)
  PROVE  IInv'
<1> USE DEF IInv, TypeOK, Task, dbVars, lockVars, pauseVars, tellVars
<1>1. TypeOK'
  <2>1. copy' \in [Writers -> Copies]
    BY FlushedTypes DEF FlushState
  <2>2. rowLock' \in [Tasks -> Writers \cup {NoOne}]
    BY DEF FlushState
  <2>3. QED
    BY <2>1, <2>2 DEF FlushState, Steps
<1>2. LocksHeld'
  <2>1. \A v \in Writers : copy'[v].task = copy[v].task
    BY DEF FlushState, WithState
  <2>2. (\A v \in Writers : auditLock = v <=> pc[v] \in {"flush", "commit"})'
    BY DEF FlushState, WithState, LocksHeld
  <2>3. (\A t \in Tasks, v \in Writers :
           rowLock[t] = v => /\ Task(v) = t
                             /\ pc[v] \in {"gate", "lock", "flush", "commit"}
                             /\ pc[v] # "commit" => call[v].dirty)'
    BY <2>1, TaskType, NoOneAssumption DEF FlushState, WithState, LocksHeld, RowFree
  <2>4. (\A v \in Writers :
           \/ pc[v] = "commit"
           \/ pc[v] \in {"lock", "flush"} /\ call[v].dirty
           => rowLock[Task(v)] = v)'
    BY <2>1, TaskType, NoOneAssumption DEF FlushState, WithState, LocksHeld, RowFree
  <2>5. QED
    BY <2>2, <2>3, <2>4 DEF LocksHeld
<1>3. SessionsHaveRows'
  BY NoOneAssumption DEF FlushState, WithState, RowFree, VersionMatches, SessionsHaveRows, Loaded
<1>4. CopiesAgree'
  <2>1. /\ pc[w] = "flush" /\ row' = row /\ call' = call /\ copy'[w] = WithState(w)
        /\ \A v \in Writers : v # w => copy'[v] = copy[v] /\ pc'[v] = pc[v]
    BY DEF FlushState
  <2>2. copy[w].task \in Tasks /\ rowLock[copy[w].task] \in {NoOne, w} /\ rowLock'[copy[w].task] = w
    BY TaskType DEF FlushState, RowFree
  <2>3. \A v \in Writers, t \in Tasks : v # w => (rowLock'[t] = v <=> rowLock[t] = v)
    BY <2>2, NoOneAssumption DEF FlushState
  <2>4. CopyAgrees(w) /\ (call[w].dirty => rowLock[copy[w].task] = w)
    BY <2>1 DEF CopiesAgree, Acting, LocksHeld
  <2>5. rowLock[copy[w].task] = w \/ copy[w].version = row[copy[w].task].version
    BY DEF FlushState, VersionMatches
  <2>6. /\ copy'[w].task = copy[w].task /\ copy'[w].state = copy[w].state
        /\ copy'[w].version = copy[w].version + 1 /\ copy'[w].context = copy[w].context
    BY <2>1 DEF WithState
  <2>7. copy[w].version \in Nat /\ row[copy[w].task].version \in Nat
    BY TaskType
  <2>8. CASE rowLock[copy[w].task] = w
    <3>1. copy'[w].version > row[copy[w].task].version
      BY <2>4, <2>6, <2>7, <2>8 DEF CopyAgrees
    <3>2. CopyAgrees(w)'
      BY <2>1, <2>2, <2>4, <2>6, <2>8, <3>1 DEF CopyAgrees
    <3>3. QED
      BY <2>1, <2>3, <3>2, OthersCopiesAgree
  <2>9. CASE rowLock[copy[w].task] # w
    <3>1. /\ copy[w].state = row[copy[w].task].state /\ copy[w].context = row[copy[w].task].context
          /\ copy[w].version = row[copy[w].task].version
      BY <2>4, <2>5, <2>9 DEF CopyAgrees
    <3>2. CopyAgrees(w)'
      BY <2>1, <2>2, <2>4, <2>6, <2>7, <2>9, <3>1 DEF CopyAgrees
    <3>3. QED
      BY <2>1, <2>3, <3>2, OthersCopiesAgree
  <2>10. QED
    BY <2>8, <2>9
<1>5. MovesAreLegal'
  BY NoOneAssumption DEF FlushState, WithState, RowFree, VersionMatches, MovesAreLegal, PastGate
<1>6. TrailLeadsToState'
  BY NoOneAssumption DEF FlushState, WithState, RowFree, VersionMatches, TrailLeadsToState, StateByTrail
<1>7. NoContextLost'
  BY NoOneAssumption DEF FlushState, WithState, RowFree, VersionMatches, NoContextLost, CopiesAgree, CopyAgrees, Acting
<1>8. PauseDrains'
  BY NoOneAssumption DEF FlushState, WithState, RowFree, VersionMatches, PauseDrains, PastGate
<1>9. QED
  BY <1>1, <1>2, <1>3, <1>4, <1>5, <1>6, <1>7, <1>8 DEF IInv

(* A lost race rolls back; the retry starts again in front of the gate. *)
LEMMA LoseRaceKeeps ==
  ASSUME IInv, NEW w \in Writers, LoseRace(w)
  PROVE  IInv'
<1> USE DEF IInv, TypeOK, Task, dbVars, lockVars, pauseVars, tellVars
<1>1. CASE call[w].left <= 1 /\ Raise(w)
  BY <1>1, RaiseKeeps
<1>2. ASSUME /\ pc[w] = "flush" /\ RowFree(w) /\ ~VersionMatches(w)
             /\ call[w].left > 1
             /\ pc' = [pc EXCEPT ![w] = "reread"]
             /\ call' = [call EXCEPT ![w].left = @ - 1]
             /\ admitted' = admitted \ {w}
             /\ ReleaseLocks(w)
             /\ UNCHANGED <<origin, dbVars, paused, pauses, copy, started, tellVars>>
      PROVE  IInv'
  <2>1. TypeOK'
    <3>1. [call[w] EXCEPT !.left = call[w].left - 1] \in Calls
      <4>1. call[w] \in [to : TaskState, retry : BOOLEAN, dirty : BOOLEAN, left : Nat]
        BY DEF Calls
      <4>2. call[w].left \in Nat /\ call[w].left - 1 \in Nat
        BY <1>2, <4>1
      <4>3. QED
        BY <4>1, <4>2 DEF Calls
    <3>2. call' = [call EXCEPT ![w] = [call[w] EXCEPT !.left = call[w].left - 1]]
      BY <1>2
    <3>3. QED
      BY <1>2, <3>1, <3>2 DEF Steps, ReleaseLocks
  <2>2. \A v \in Writers : call'[v].dirty = call[v].dirty /\ call'[v].to = call[v].to
    <3> SUFFICES ASSUME NEW v \in Writers
                 PROVE  call'[v].dirty = call[v].dirty /\ call'[v].to = call[v].to
      OBVIOUS
    <3>1. CASE v = w
      <4>1. call'[w] = [call[w] EXCEPT !.left = call[w].left - 1]
        BY <1>2
      <4>2. call[w] \in [to : TaskState, retry : BOOLEAN, dirty : BOOLEAN, left : Nat]
        BY DEF Calls
      <4>3. QED
        BY <3>1, <4>1, <4>2
    <3>2. CASE v # w
      BY <1>2, <3>2
    <3>3. QED
      BY <3>1, <3>2
  <2>3. LocksHeld'
    <3>1. (\A v \in Writers : auditLock = v <=> pc[v] \in {"flush", "commit"})'
      BY <1>2, NoOneAssumption DEF ReleaseLocks, LocksHeld
    <3>2. (\A t \in Tasks, v \in Writers :
             rowLock[t] = v => /\ Task(v) = t
                               /\ pc[v] \in {"gate", "lock", "flush", "commit"}
                               /\ pc[v] # "commit" => call[v].dirty)'
      BY <1>2, <2>2, NoOneAssumption DEF ReleaseLocks, LocksHeld
    <3>3. (\A v \in Writers :
             \/ pc[v] = "commit"
             \/ pc[v] \in {"lock", "flush"} /\ call[v].dirty
             => rowLock[Task(v)] = v)'
      BY <1>2, <2>2, TaskType DEF ReleaseLocks, LocksHeld
    <3>4. QED
      BY <3>1, <3>2, <3>3 DEF LocksHeld
  <2>4. SessionsHaveRows'
    BY <1>2 DEF SessionsHaveRows
  <2>5. CopiesAgree'
    <3> SUFFICES ASSUME NEW v \in Writers, Acting(v)'
                 PROVE  CopyAgrees(v)'
      BY DEF CopiesAgree
    <3>1. v # w /\ Acting(v) /\ copy' = copy /\ row' = row
      BY <1>2 DEF Acting
    <3>2. rowLock'[Task(v)] = v <=> rowLock[Task(v)] = v
      <4>1. Task(v) \in Tasks
        BY TaskType
      <4>2. \A t \in Tasks : rowLock'[t] = IF rowLock[t] = w THEN NoOne ELSE rowLock[t]
        BY <1>2 DEF ReleaseLocks
      <4>3. QED
        BY <3>1, <4>1, <4>2, NoOneAssumption
    <3>3. QED
      BY <2>2, <3>1, <3>2 DEF CopiesAgree, CopyAgrees
  <2>6. MovesAreLegal'
    BY <1>2, <2>2 DEF MovesAreLegal, PastGate
  <2>7. TrailLeadsToState' /\ NoContextLost'
    BY <1>2 DEF TrailLeadsToState, StateByTrail, NoContextLost
  <2>8. PauseDrains'
    BY <1>2 DEF PauseDrains, PastGate
  <2>9. QED
    BY <2>1, <2>3, <2>4, <2>5, <2>6, <2>7, <2>8 DEF IInv
<1>3. QED
  BY <1>1, <1>2 DEF LoseRace

(* The retry reads the row before it validates. *)
LEMMA RereadKeeps ==
  ASSUME IInv, NEW w \in Writers, Reread(w)
  PROVE  IInv'
<1> USE DEF IInv, TypeOK, Task, dbVars, lockVars, pauseVars, tellVars
<1>1. TypeOK'
  BY DEF Reread, Rows, Copies, Calls, Edges, Steps, Loaded
<1>2. LocksHeld'
  BY DEF Reread, LocksHeld
<1>3. SessionsHaveRows'
  BY DEF Reread, SessionsHaveRows, Loaded
<1>4. CopiesAgree'
  <2>1. /\ pc[w] = "reread" /\ row' = row /\ rowLock' = rowLock
        /\ copy'[w] = Loaded(copy[w].task)
        /\ \A v \in Writers : v # w => copy'[v] = copy[v] /\ call'[v] = call[v] /\ pc'[v] = pc[v]
    BY DEF Reread
  <2>2. copy[w].task \in Tasks /\ rowLock'[copy[w].task] # w
    BY <2>1, TaskType, HoldersAreInCalls
  <2>3. CopyAgrees(w)'
    BY <2>1, <2>2, FreshCopyAgrees
  <2>4. QED
    BY <2>1, <2>3, OthersCopiesAgree
<1>5. MovesAreLegal'
  BY DEF Reread, MovesAreLegal, PastGate
<1>6. TrailLeadsToState'
  BY DEF Reread, TrailLeadsToState, StateByTrail
<1>7. NoContextLost'
  BY DEF Reread, NoContextLost, CopiesAgree, CopyAgrees, Acting
<1>8. PauseDrains'
  BY DEF Reread, PauseDrains, PastGate
<1>9. QED
  BY <1>1, <1>2, <1>3, <1>4, <1>5, <1>6, <1>7, <1>8 DEF IInv

(* The commit moves the row and extends the trail by the same edge, from the state the
   row had: no one else could move it while its lock was held. *)
LEMMA CommitKeeps ==
  ASSUME IInv, NEW w \in Writers, Commit(w)
  PROVE  IInv'
<1> USE DEF IInv, TypeOK, Task, dbVars, lockVars, pauseVars, tellVars
<1> DEFINE t == Task(w)
           edge == [from |-> copy[w].state, to |-> call[w].to, by |-> w]
           ctx == IF call[w].dirty THEN copy[w].context ELSE row[t].context
<1>a. /\ t \in Tasks /\ rowLock[t] = w /\ edge \in Edges /\ trail[t] \in Seq(Edges)
      /\ copy[w].state = row[t].state /\ row[t].context \subseteq ctx
      /\ copy[w].version > row[t].version
      /\ CanMove(copy[w].state, call[w].to)
      /\ ctx \in SUBSET Writers
  <2>1. t \in Tasks /\ rowLock[t] = w /\ Acting(w) /\ CanMove(copy[w].state, call[w].to)
    BY TaskType DEF Commit, LocksHeld, Acting, MovesAreLegal, PastGate
  <2>2. CopyAgrees(w)
    BY <2>1 DEF CopiesAgree
  <2>3. edge \in Edges
    BY TaskType DEF Edges, Calls
  <2>4. ctx \in SUBSET Writers
    BY TaskType DEF Rows
  <2>5. QED
    BY <2>1, <2>2, <2>3, <2>4 DEF CopyAgrees
<1>b. /\ row'[t] = [state |-> call[w].to, version |-> copy[w].version, context |-> ctx]
      /\ \A u \in Tasks : u # t => row'[u] = row[u] /\ trail'[u] = trail[u]
      /\ trail'[t] = Append(trail[t], edge)
  BY <1>a DEF Commit
<1>c. /\ auditLock = w /\ auditLock' = NoOne
      /\ pc'[w] = "refresh" /\ \A v \in Writers : v # w => pc'[v] = pc[v]
      /\ copy' = copy /\ call' = call
      /\ rowLock' = [u \in Tasks |-> IF rowLock[u] = w THEN NoOne ELSE rowLock[u]]
  BY DEF Commit, ReleaseLocks, LocksHeld
<1>1. TypeOK'
  <2>1. row' \in [Tasks -> Rows]
    <3>1. [state |-> call[w].to, version |-> copy[w].version, context |-> ctx] \in Rows
      BY <1>a, TaskType DEF Rows, Calls
    <3>2. QED
      BY <3>1 DEF Commit
  <2>2. trail' \in [Tasks -> Seq(Edges)]
    BY <1>a DEF Commit
  <2>3. saved' \in [Tasks -> SUBSET Writers]
    BY <1>a DEF Commit
  <2>4. QED
    BY <1>c, <2>1, <2>2, <2>3 DEF Commit, Steps
<1>2. LocksHeld'
  <2>1. (\A v \in Writers : auditLock = v <=> pc[v] \in {"flush", "commit"})'
    BY <1>c, NoOneAssumption DEF LocksHeld
  <2>2. (\A u \in Tasks, v \in Writers :
           rowLock[u] = v => /\ Task(v) = u
                             /\ pc[v] \in {"gate", "lock", "flush", "commit"}
                             /\ pc[v] # "commit" => call[v].dirty)'
    BY <1>c, NoOneAssumption DEF LocksHeld
  <2>3. (\A v \in Writers :
           \/ pc[v] = "commit"
           \/ pc[v] \in {"lock", "flush"} /\ call[v].dirty
           => rowLock[Task(v)] = v)'
    BY <1>c, TaskType DEF LocksHeld
  <2>4. QED
    BY <2>1, <2>2, <2>3 DEF LocksHeld
<1>3. SessionsHaveRows'
  <2> SUFFICES ASSUME NEW v \in Writers, pc'[v] # "closed"
               PROVE  row'[copy'[v].task].version > 0
    BY DEF SessionsHaveRows
  <2>1. row[copy[v].task].version > 0 /\ row[t].version > 0
    BY <1>c DEF SessionsHaveRows, Commit
  <2>2. row[t].version \in Nat /\ copy[v].task \in Tasks /\ copy[w].version \in Nat
    BY TaskType
  <2>3. CASE copy[v].task = t
    BY <1>a, <1>b, <1>c, <2>1, <2>2, <2>3
  <2>4. CASE copy[v].task # t
    BY <1>b, <1>c, <2>1, <2>2, <2>4
  <2>5. QED
    BY <2>3, <2>4
<1>4. CopiesAgree'
  <2> SUFFICES ASSUME NEW v \in Writers, Acting(v)'
               PROVE  CopyAgrees(v)'
    BY DEF CopiesAgree
  <2>1. v # w /\ Acting(v) /\ CopyAgrees(v) /\ copy[v].task \in Tasks
    BY <1>c, TaskType DEF Acting, CopiesAgree
  <2>2. rowLock'[copy[v].task] = v <=> rowLock[copy[v].task] = v
    BY <1>c, <2>1, NoOneAssumption
  <2>3. CASE copy[v].task = t
    <3>1. rowLock[t] # v /\ copy[v].version <= row[t].version
      BY <1>a, <2>1, <2>3 DEF CopyAgrees
    <3>2. copy[v].version \in Nat /\ row[t].version \in Nat /\ copy[w].version \in Nat
      BY TaskType
    <3>3. row'[t].version = copy[w].version /\ copy[v].version < row'[t].version
      BY <1>a, <1>b, <3>1, <3>2
    <3>4. rowLock'[copy[v].task] # v
      BY <2>2, <2>3, <3>1
    <3>5. QED
      BY <1>c, <2>3, <3>2, <3>3, <3>4 DEF CopyAgrees
  <2>4. CASE copy[v].task # t
    BY <1>b, <1>c, <2>1, <2>2, <2>4 DEF CopyAgrees
  <2>5. QED
    BY <2>3, <2>4
<1>5. MovesAreLegal'
  BY <1>c DEF MovesAreLegal, PastGate
<1>6. TrailLeadsToState'
  <2> SUFFICES ASSUME NEW u \in Tasks
               PROVE  /\ \A n \in 1..Len(trail'[u]) :
                           /\ trail'[u][n].from = StateByTrail(u, n - 1)'
                           /\ CanMove(trail'[u][n].from, trail'[u][n].to)
                      /\ row'[u].state = StateByTrail(u, Len(trail[u]))'
    BY DEF TrailLeadsToState
  <2>1. origin' = origin
    BY DEF Commit
  <2>2. CASE u # t
    BY <1>b, <2>1, <2>2 DEF TrailLeadsToState, StateByTrail
  <2>3. CASE u = t
    <3>1. /\ Len(trail'[u]) = Len(trail[u]) + 1 /\ Len(trail[u]) \in Nat
          /\ trail'[u][Len(trail[u]) + 1] = edge
          /\ \A n \in 1..Len(trail[u]) : trail'[u][n] = trail[u][n]
      <4>1. trail'[u] = Append(trail[u], edge) /\ trail[u] \in Seq(Edges) /\ edge \in Edges
        BY <1>a, <1>b, <2>3
      <4> HIDE DEF edge, TypeOK, IInv
      <4>2. QED
        BY <4>1
    <3>2. \A n \in 0..Len(trail[u]) : StateByTrail(u, n)' = StateByTrail(u, n)
      <4> HIDE DEF edge, TypeOK, IInv
      <4>1. QED
        BY <2>1, <3>1 DEF StateByTrail
    <3>3. edge.from = StateByTrail(u, Len(trail[u]))
      BY <1>a, <2>3 DEF TrailLeadsToState
    <3>e. edge.to = call[w].to
      OBVIOUS
    <3>4. ASSUME NEW n \in 1..Len(trail'[u])
          PROVE  /\ trail'[u][n].from = StateByTrail(u, n - 1)'
                 /\ CanMove(trail'[u][n].from, trail'[u][n].to)
      <4>1. CASE n = Len(trail[u]) + 1
        <5>1. trail'[u][n] = edge /\ n - 1 = Len(trail[u])
          BY <3>1, <4>1
        <5>2. StateByTrail(u, n - 1)' = edge.from
          BY <3>1, <3>2, <3>3, <5>1
        <5>3. CanMove(edge.from, edge.to)
          BY <1>a
        <5>4. QED
          BY <5>1, <5>2, <5>3
      <4>2. CASE n \in 1..Len(trail[u])
        <5>1. /\ trail[u][n].from = StateByTrail(u, n - 1)
              /\ CanMove(trail[u][n].from, trail[u][n].to)
          BY <4>2 DEF TrailLeadsToState
        <5>2. n - 1 \in 0..Len(trail[u])
          BY <3>1, <4>2
        <5>3. QED
          BY <3>1, <3>2, <4>2, <5>1, <5>2
      <4>3. QED
        BY <3>1, <4>1, <4>2
    <3>5. row'[u].state = StateByTrail(u, Len(trail[u]))'
      <4>1. row'[u].state = edge.to
        BY <1>b, <2>3
      <4>2. StateByTrail(u, Len(trail[u]))' = edge.to
        BY <3>1 DEF StateByTrail
      <4>3. QED
        BY <4>1, <4>2
    <3>6. QED
      BY <3>4, <3>5
  <2>4. QED
    BY <2>2, <2>3
<1>7. NoContextLost'
  <2>1. saved'[t] \subseteq ctx
    <3>1. saved[t] \subseteq row[t].context
      BY <1>a DEF NoContextLost
    <3>2. call[w].dirty => w \in copy[w].context
      BY <1>a DEF CopiesAgree, CopyAgrees, Acting, Commit
    <3>3. QED
      BY <1>a, <3>1, <3>2 DEF Commit
  <2>2. \A u \in Tasks : u # t => saved'[u] = saved[u]
    BY <1>a DEF Commit
  <2>3. ASSUME NEW u \in Tasks
        PROVE  saved'[u] \subseteq row'[u].context
    <3>1. CASE u = t
      BY <1>b, <2>1, <3>1
    <3>2. CASE u # t
      BY <1>b, <2>2, <3>2 DEF NoContextLost
    <3>3. QED
      BY <3>1, <3>2
  <2>4. QED
    BY <2>3 DEF NoContextLost
<1>8. PauseDrains'
  BY <1>c DEF PauseDrains, PastGate, Commit
<1>9. QED
  BY <1>1, <1>2, <1>3, <1>4, <1>5, <1>6, <1>7, <1>8 DEF IInv

(* The refresh reads the row again. *)
LEMMA RefreshKeeps ==
  ASSUME IInv, NEW w \in Writers, Refresh(w)
  PROVE  IInv'
<1> USE DEF IInv, TypeOK, Task, dbVars, lockVars, pauseVars, tellVars
<1>1. TypeOK'
  <2>1. copy' \in [Writers -> Copies] /\ pc' \in [Writers -> Steps]
    BY DEF Refresh, Rows, Copies, Steps, Loaded
  <2>2. call' \in [Writers -> Calls]
    BY NoCallType DEF Refresh
  <2>3. succeeded' \in [Writers -> Nat]
    BY DEF Refresh
  <2>4. QED
    BY <2>1, <2>2, <2>3 DEF Refresh
<1>2. LocksHeld'
  BY NoCallType DEF Refresh, LocksHeld
<1>3. SessionsHaveRows'
  BY NoCallType DEF Refresh, SessionsHaveRows, Loaded
<1>4. CopiesAgree'
  <2>1. /\ pc[w] = "refresh" /\ row' = row /\ rowLock' = rowLock
        /\ copy'[w] = Loaded(copy[w].task)
        /\ \A v \in Writers : v # w => copy'[v] = copy[v] /\ call'[v] = call[v] /\ pc'[v] = pc[v]
    BY DEF Refresh
  <2>2. copy[w].task \in Tasks /\ rowLock'[copy[w].task] # w
    BY <2>1, TaskType, HoldersAreInCalls
  <2>3. CopyAgrees(w)'
    BY <2>1, <2>2, FreshCopyAgrees
  <2>4. QED
    BY <2>1, <2>3, OthersCopiesAgree
<1>5. MovesAreLegal'
  BY NoCallType DEF Refresh, MovesAreLegal, PastGate
<1>6. TrailLeadsToState'
  BY NoCallType DEF Refresh, TrailLeadsToState, StateByTrail
<1>7. NoContextLost'
  BY NoCallType DEF Refresh, NoContextLost, CopiesAgree, CopyAgrees, Acting
<1>8. PauseDrains'
  BY NoCallType DEF Refresh, PauseDrains, PastGate
<1>9. QED
  BY <1>1, <1>2, <1>3, <1>4, <1>5, <1>6, <1>7, <1>8 DEF IInv

(* Lifting a pause, or imposing one: the writers past the gate are the admitted ones. *)
LEMMA PausingKeeps ==
  ASSUME IInv, Pause \/ Unpause
  PROVE  IInv'
<1> USE DEF IInv, TypeOK, Task, dbVars, lockVars, pauseVars, tellVars
<1>1. TypeOK'
  <2>1. CASE Pause
    BY <2>1 DEF Pause
  <2>2. CASE Unpause
    BY <2>2 DEF Unpause
  <2>3. QED
    BY <2>1, <2>2
<1>2. LocksHeld' /\ SessionsHaveRows'
  BY DEF Pause, Unpause, LocksHeld, SessionsHaveRows
<1>3. CopiesAgree'
  BY DEF Pause, Unpause, CopiesAgree, CopyAgrees, Acting
<1>4. MovesAreLegal' /\ NoContextLost'
  BY DEF Pause, Unpause, MovesAreLegal, NoContextLost
<1>5. TrailLeadsToState'
  BY DEF Pause, Unpause, TrailLeadsToState, StateByTrail
<1>6. PauseDrains'
  BY DEF Pause, Unpause, PauseDrains
<1>7. QED
  BY <1>1, <1>2, <1>3, <1>4, <1>5, <1>6

(* The paths that end in an exception, whatever raised it. *)
LEMMA ExceptionsRaise ==
  ASSUME NEW w \in Writers,
         \/ SaveContextStale(w) \/ FlushContextStale(w) \/ RejectIllegal(w)
         \/ RereadIllegal(w) \/ AbortDeadlock(w) \/ Close(w)
  PROVE  Raise(w)
BY DEF SaveContextStale, FlushContextStale, RejectIllegal, RereadIllegal, AbortDeadlock, Close

(* Whoever asks for a transition begins a call of the same shape. *)
LEMMA CallersBegin ==
  ASSUME NEW w \in Writers, SystemCall(w) \/ HumanCall(w) \/ HandlerCall(w)
  PROVE  \E to \in TaskState, retry \in BOOLEAN, dirty \in BOOLEAN : Begin(w, to, retry, dirty)
BY RequestedStates DEF SystemCall, HumanCall, HandlerCall

LEMMA StepInv == IInv /\ [Next]_vars => IInv'
<1> SUFFICES ASSUME IInv, [Next]_vars PROVE IInv'
  OBVIOUS
<1>1. ASSUME NEW w \in Writers, Ask(w) PROVE IInv'
  <2>1. ASSUME NEW t \in Tasks, CreateTask(w, t) \/ OpenTask(w, t) PROVE IInv'
    BY <2>1, CreateTaskKeeps, OpenTaskKeeps
  <2>2. CASE SaveContext(w)
    BY <2>2, SaveContextKeeps
  <2>3. CASE SaveContextStale(w)
    BY <2>3, ExceptionsRaise, RaiseKeeps
  <2>4. CASE SystemCall(w) \/ HumanCall(w) \/ HandlerCall(w)
    BY <2>4, CallersBegin, BeginKeeps
  <2>5. QED
    BY <1>1, <2>1, <2>2, <2>3, <2>4 DEF Ask
<1>2. ASSUME NEW w \in Writers, Proceed(w) PROVE IInv'
  <2>1. CASE FlushContext(w) \/ PassGate(w) \/ LockChain(w) \/ FlushState(w)
    BY <2>1, FlushContextKeeps, PassGateKeeps, LockChainKeeps, FlushStateKeeps
  <2>2. CASE LoseRace(w) \/ Reread(w) \/ Commit(w) \/ Refresh(w)
    BY <2>2, LoseRaceKeeps, RereadKeeps, CommitKeeps, RefreshKeeps
  <2>3. CASE FlushContextStale(w) \/ RejectIllegal(w) \/ RereadIllegal(w) \/ AbortDeadlock(w)
    BY <2>3, ExceptionsRaise, RaiseKeeps
  <2>4. QED
    BY <1>2, <2>1, <2>2, <2>3 DEF Proceed
<1>3. ASSUME NEW w \in Writers, Close(w) PROVE IInv'
  BY <1>3, ExceptionsRaise, RaiseKeeps
<1>4. CASE Pause \/ Unpause
  BY <1>4, PausingKeeps
<1>5. CASE UNCHANGED vars
  BY <1>5 DEF vars, dbVars, IInv, TypeOK, LocksHeld, SessionsHaveRows, CopiesAgree, CopyAgrees,
              Acting, MovesAreLegal, TrailLeadsToState, StateByTrail, NoContextLost, PauseDrains, Task
<1>6. QED
  BY <1>1, <1>2, <1>3, <1>4, <1>5 DEF Next

-----------------------------------------------------------------------------
(* The strengthening holds in every reachable state. *)
THEOREM Invariance == Spec => []IInv
BY InitInv, StepInv, PTL DEF Spec

(* Every variable keeps its type. *)
THEOREM Typing == Spec => []TypeOK
<1>1. IInv => TypeOK
  BY DEF IInv
<1>2. QED
  BY Invariance, <1>1, PTL

(* However many sessions race on a task, with any number of retries, lost   *)
(* versions, crashes and aborted transactions, the committed task_transitions *)
(* rows are a path of legal moves that ends in the stored state.            *)
THEOREM TrailIsHonest == Spec => []TrailLeadsToState
<1>1. IInv => TrailLeadsToState
  BY DEF IInv
<1>2. QED
  BY Invariance, <1>1, PTL

(* A part of task_context that was stored is never overwritten by another   *)
(* session's merge.                                                         *)
THEOREM ContextIsKept == Spec => []NoContextLost
<1>1. IInv => NoContextLost
  BY DEF IInv
<1>2. QED
  BY Invariance, <1>1, PTL

(* A pause lets through only the writers that had passed the gate before.   *)
THEOREM PauseIsRespected == Spec => []PauseDrains
<1>1. IInv => PauseDrains
  BY DEF IInv
<1>2. QED
  BY Invariance, <1>1, PTL

(* Only Commit changes a state, and it does so by a legal move from the     *)
(* state the row really has.                                                *)
LEMMA StateMovesLegally ==
  ASSUME IInv, [Next]_vars, NEW t \in Tasks
  PROVE  row'[t].state = row[t].state \/ CanMove(row[t].state, row'[t].state)
<1> USE DEF dbVars
<1>1. ASSUME NEW w \in Writers, Commit(w)
      PROVE  row'[t].state = row[t].state \/ CanMove(row[t].state, row'[t].state)
  <2>1. CASE t = Task(w)
    <3>1. CanMove(copy[w].state, call[w].to)
      BY <1>1 DEF IInv, MovesAreLegal, PastGate, Commit
    <3>2. rowLock[t] = w /\ Acting(w)
      BY <1>1, <2>1 DEF IInv, LocksHeld, Commit, Acting
    <3>3. copy[w].state = row[t].state
      BY <2>1, <3>2 DEF IInv, CopiesAgree, CopyAgrees
    <3>4. row'[t].state = call[w].to
      BY <1>1, <2>1 DEF Commit, IInv, TypeOK
    <3>5. QED
      BY <3>1, <3>3, <3>4
  <2>2. CASE t # Task(w)
    BY <1>1, <2>2 DEF Commit, IInv, TypeOK
  <2>3. QED
    BY <2>1, <2>2
<1>2. ASSUME NEW w \in Writers, Raise(w)
      PROVE  row'[t].state = row[t].state
  BY <1>2 DEF Raise
<1>3. ASSUME NEW w \in Writers, NEW u \in Tasks, CreateTask(w, u)
      PROVE  row'[t].state = row[t].state
  BY <1>3 DEF CreateTask, IInv, TypeOK, Rows
<1>4. ASSUME NEW w \in Writers, SaveContext(w)
      PROVE  row'[t].state = row[t].state
  BY <1>4 DEF SaveContext, IInv, TypeOK
<1>5. ASSUME NEW w \in Writers, LoseRace(w)
      PROVE  row'[t].state = row[t].state
  BY <1>5 DEF LoseRace, Raise
<1>6. ASSUME NEW w \in Writers,
             \/ \E u \in Tasks : OpenTask(w, u)
             \/ \E to \in TaskState, retry \in BOOLEAN, dirty \in BOOLEAN : Begin(w, to, retry, dirty)
             \/ FlushContext(w) \/ PassGate(w) \/ LockChain(w) \/ FlushState(w)
             \/ Reread(w) \/ Refresh(w)
      PROVE  row'[t].state = row[t].state
  BY <1>6 DEF OpenTask, Begin, FlushContext, PassGate, LockChain, FlushState, Reread, Refresh
<1>7. CASE Pause \/ Unpause \/ UNCHANGED vars
  BY <1>7 DEF Pause, Unpause, vars
<1>8. ASSUME NEW w \in Writers, Ask(w)
      PROVE  row'[t].state = row[t].state \/ CanMove(row[t].state, row'[t].state)
  BY <1>2, <1>3, <1>4, <1>6, <1>8, ExceptionsRaise, CallersBegin DEF Ask
<1>9. ASSUME NEW w \in Writers, Proceed(w)
      PROVE  row'[t].state = row[t].state \/ CanMove(row[t].state, row'[t].state)
  BY <1>1, <1>2, <1>5, <1>6, <1>9, ExceptionsRaise DEF Proceed
<1>10. ASSUME NEW w \in Writers, Close(w)
       PROVE  row'[t].state = row[t].state
  BY <1>2, <1>10, ExceptionsRaise
<1>11. QED
  BY <1>7, <1>8, <1>9, <1>10 DEF Next

(* A task that reached a terminal state stays in it: no stale copy, no      *)
(* retry and no failure handler moves it again.                             *)
THEOREM TerminalStatesAreFinal == Spec => TerminalIsFinal
<1>1. IInv /\ [Next]_vars
      => [\A t \in Tasks : row[t].state \in TERMINAL_STATES => row'[t].state = row[t].state]_row
  BY StateMovesLegally, TerminalHasNoExit
<1>2. QED
  BY Invariance, <1>1, PTL DEF Spec, TerminalIsFinal

-----------------------------------------------------------------------------
(* The audit rows of a writer *)

(* A call whose answer is still to come, its row written or not.            *)
Untold(w) == IF pc[w] = "refresh" THEN 1 ELSE 0
Unwritten(w) == IF pc[w] \in InCall \ {"refresh"} THEN 1 ELSE 0

(* A row not yet told of is kept for the one call that wrote it, and a call *)
(* that has written none keeps its place among those asked for.             *)
Counted ==
  \A w \in Writers :
    /\ IsFiniteSet(RowsOf(w))
    /\ succeeded[w] + Untold(w) <= Cardinality(RowsOf(w))
    /\ Cardinality(RowsOf(w)) + Unwritten(w) <= asked[w]

LEMMA RowsOfMembers ==
  ASSUME NEW w, NEW e
  PROVE  e \in RowsOf(w) <=>
           \E t \in Tasks : \E n \in DOMAIN trail[t] : trail[t][n].by = w /\ e = <<t, n>>
<1>1. \A t \in Tasks : e \in {t} \X {n \in DOMAIN trail[t] : trail[t][n].by = w}
                       <=> \E n \in DOMAIN trail[t] : trail[t][n].by = w /\ e = <<t, n>>
  OBVIOUS
<1>2. QED
  BY <1>1 DEF RowsOf

(* Nothing but a commit writes an audit row, nothing but Begin asks for a   *)
(* transition, and nothing but a refresh tells its caller.                  *)
LEMMA OthersDoNotCount ==
  ASSUME TypeOK, [Next]_vars
  PROVE  \/ \E w \in Writers : Commit(w) \/ Refresh(w)
         \/ \E w \in Writers, to \in TaskState, retry \in BOOLEAN, dirty \in BOOLEAN :
              Begin(w, to, retry, dirty)
         \/ /\ UNCHANGED <<trail, asked, succeeded>>
            /\ \A w \in Writers : Untold(w)' <= Untold(w) /\ Unwritten(w)' <= Unwritten(w)
<1> USE DEF dbVars, tellVars, Untold, Unwritten
<1>1. CASE UNCHANGED vars
  BY <1>1 DEF vars
<1>2. CASE Pause \/ Unpause
  BY <1>2 DEF Pause, Unpause
<1>3. ASSUME NEW w \in Writers, Ask(w) \/ Proceed(w) \/ Close(w), ~Commit(w), ~Refresh(w),
             ~\E to \in TaskState, retry \in BOOLEAN, dirty \in BOOLEAN : Begin(w, to, retry, dirty)
      PROVE  /\ UNCHANGED <<trail, asked, succeeded>>
             /\ \A v \in Writers : Untold(v)' <= Untold(v) /\ Unwritten(v)' <= Unwritten(v)
  <2> USE DEF TypeOK, Steps, InCall
  <2>1. CASE Raise(w)
    <3>1. UNCHANGED <<trail, asked, succeeded>> /\ pc' = [pc EXCEPT ![w] = "closed"]
      BY <2>1 DEF Raise
    <3>2. QED
      BY <3>1
  <2>2. CASE ~Raise(w) /\ Ask(w)
    <3>1. ~SystemCall(w) /\ ~HumanCall(w) /\ ~HandlerCall(w)
      BY <1>3, CallersBegin
    <3>2. QED
      BY <2>2, <3>1 DEF Ask, CreateTask, OpenTask, SaveContext, SaveContextStale
  <2>3. CASE ~Raise(w) /\ Proceed(w)
    <3>1. FlushContext(w) \/ PassGate(w) \/ LockChain(w) \/ FlushState(w) \/ LoseRace(w) \/ Reread(w)
      BY <1>3, <2>3 DEF Proceed, FlushContextStale, RejectIllegal, RereadIllegal, AbortDeadlock
    <3>2. UNCHANGED <<trail, asked, succeeded>>
      BY <2>3, <3>1 DEF FlushContext, PassGate, LockChain, FlushState, LoseRace, Reread
    <3>3. /\ pc[w] \in InCall \ {"refresh"}
          /\ pc' = pc \/ \E s \in InCall \ {"refresh"} : pc' = [pc EXCEPT ![w] = s]
      <4>1. CASE FlushContext(w) \/ PassGate(w) \/ LockChain(w)
        BY <4>1 DEF FlushContext, PassGate, GateOpen, LockChain
      <4>2. CASE FlushState(w) \/ Reread(w)
        BY <4>2 DEF FlushState, Reread
      <4>3. CASE LoseRace(w)
        BY <2>3, <4>3 DEF LoseRace
      <4>4. QED
        BY <3>1, <4>1, <4>2, <4>3
    <3>4. QED
      BY <3>2, <3>3
  <2>4. QED
    BY <1>3, <2>1, <2>2, <2>3 DEF Close
<1>4. QED
  BY <1>1, <1>2, <1>3 DEF Next

(* A commit writes one row of its writer and none of another.               *)
LEMMA CommitWritesOne ==
  ASSUME TypeOK, NEW w \in Writers, Commit(w)
  PROVE  /\ \E e : e \notin RowsOf(w) /\ RowsOf(w)' = RowsOf(w) \cup {e}
         /\ \A v \in Writers \ {w} : RowsOf(v)' = RowsOf(v)
<1> DEFINE u == Task(w)
           edge == [from |-> copy[w].state, to |-> call[w].to, by |-> w]
           k == Len(trail[u]) + 1
<1>1. u \in Tasks /\ trail[u] \in Seq(Edges) /\ trail \in [Tasks -> Seq(Edges)]
  BY TaskType DEF TypeOK
<1>2. trail' = [trail EXCEPT ![u] = Append(@, edge)]
  BY DEF Commit
<1>3. edge.by = w
  OBVIOUS
<1> HIDE DEF u, edge
<1>4. /\ DOMAIN trail[u] = 1..Len(trail[u]) /\ Len(trail[u]) \in Nat
      /\ DOMAIN trail'[u] = 1..k /\ trail'[u][k] = edge
      /\ \A n \in 1..Len(trail[u]) : trail'[u][n] = trail[u][n]
      /\ k \notin 1..Len(trail[u]) /\ 1..k = (1..Len(trail[u])) \cup {k}
  BY <1>1, <1>2
<1>5. \A t \in Tasks \ {u} : trail'[t] = trail[t]
  BY <1>1, <1>2
<1> HIDE DEF k
<1>6. ASSUME NEW v, NEW t \in Tasks, NEW n
      PROVE  n \in DOMAIN trail'[t] /\ trail'[t][n].by = v
             <=> \/ n \in DOMAIN trail[t] /\ trail[t][n].by = v
                 \/ t = u /\ n = k /\ v = w
  <2>1. CASE t = u
    <3>1. CASE n = k
      BY <1>3, <1>4, <2>1, <3>1
    <3>2. CASE n # k
      BY <1>4, <2>1, <3>2
    <3>3. QED
      BY <3>1, <3>2
  <2>2. CASE t # u
    BY <1>5, <2>2
  <2>3. QED
    BY <2>1, <2>2
<1>7. ASSUME NEW v, NEW e
      PROVE  /\ e \in RowsOf(v)' <=>
                  \E t \in Tasks : \E n \in DOMAIN trail'[t] : trail'[t][n].by = v /\ e = <<t, n>>
             /\ e \in RowsOf(v) <=>
                  \E t \in Tasks : \E n \in DOMAIN trail[t] : trail[t][n].by = v /\ e = <<t, n>>
  <2>1. \A t \in Tasks : e \in {t} \X {n \in DOMAIN trail'[t] : trail'[t][n].by = v}
                         <=> \E n \in DOMAIN trail'[t] : trail'[t][n].by = v /\ e = <<t, n>>
    OBVIOUS
  <2>2. QED
    BY <2>1, RowsOfMembers DEF RowsOf
<1>8. ASSUME NEW v, NEW e
      PROVE  e \in RowsOf(v)' <=> e \in RowsOf(v) \/ (v = w /\ e = <<u, k>>)
  <2>1. ASSUME e \in RowsOf(v)' PROVE e \in RowsOf(v) \/ (v = w /\ e = <<u, k>>)
    <3>0. PICK t \in Tasks : \E n \in DOMAIN trail'[t] : trail'[t][n].by = v /\ e = <<t, n>>
      BY <1>7, <2>1
    <3>1. PICK n \in DOMAIN trail'[t] : trail'[t][n].by = v /\ e = <<t, n>>
      BY <3>0
    <3>2. (n \in DOMAIN trail[t] /\ trail[t][n].by = v) \/ (t = u /\ n = k /\ v = w)
      BY <1>6, <3>1
    <3>3. QED
      BY <1>7, <3>1, <3>2
  <2>2. ASSUME e \in RowsOf(v) PROVE e \in RowsOf(v)'
    <3>0. PICK t \in Tasks : \E n \in DOMAIN trail[t] : trail[t][n].by = v /\ e = <<t, n>>
      BY <1>7, <2>2
    <3>1. PICK n \in DOMAIN trail[t] : trail[t][n].by = v /\ e = <<t, n>>
      BY <3>0
    <3>2. n \in DOMAIN trail'[t] /\ trail'[t][n].by = v
      BY <1>6, <3>1
    <3>3. QED
      BY <1>7, <3>1, <3>2
  <2>3. ASSUME v = w, e = <<u, k>> PROVE e \in RowsOf(v)'
    <3>1. k \in DOMAIN trail'[u] /\ trail'[u][k].by = v
      BY <1>1, <1>6, <2>3
    <3>2. QED
      BY <1>1, <1>7, <2>3, <3>1
  <2>4. QED
    BY <2>1, <2>2, <2>3
<1>9. <<u, k>> \notin RowsOf(w)
  <2>1. ASSUME <<u, k>> \in RowsOf(w) PROVE FALSE
    <3>0. PICK t \in Tasks : \E n \in DOMAIN trail[t] : trail[t][n].by = w /\ <<u, k>> = <<t, n>>
      BY <1>7, <2>1
    <3>1. PICK n \in DOMAIN trail[t] : trail[t][n].by = w /\ <<u, k>> = <<t, n>>
      BY <3>0
    <3>2. k \in DOMAIN trail[u]
      BY <3>1
    <3>3. QED
      BY <1>4, <3>2
  <2>2. QED
    BY <2>1
<1>10. RowsOf(w)' = RowsOf(w) \cup {<<u, k>>}
  BY <1>8
<1>11. \A v \in Writers \ {w} : RowsOf(v)' = RowsOf(v)
  BY <1>8
<1>12. QED
  BY <1>9, <1>10, <1>11

LEMMA StepCounts == IInv /\ Counted /\ [Next]_vars => Counted'
<1> SUFFICES ASSUME IInv, Counted, [Next]_vars PROVE Counted'
  OBVIOUS
<1>a. /\ TypeOK
      /\ \A w \in Writers : /\ IsFiniteSet(RowsOf(w)) /\ Cardinality(RowsOf(w)) \in Nat
                            /\ succeeded[w] \in Nat /\ asked[w] \in Nat
                            /\ succeeded[w] + Untold(w) <= Cardinality(RowsOf(w))
                            /\ Cardinality(RowsOf(w)) + Unwritten(w) <= asked[w]
                            /\ Untold(w) \in 0..1 /\ Unwritten(w) \in 0..1
  BY FS_CardinalityType DEF IInv, TypeOK, Counted, Untold, Unwritten
<1>1. CASE /\ UNCHANGED <<trail, asked, succeeded>>
           /\ \A w \in Writers : Untold(w)' <= Untold(w) /\ Unwritten(w)' <= Unwritten(w)
  <2>1. \A w \in Writers : RowsOf(w)' = RowsOf(w)
    BY <1>1 DEF RowsOf
  <2>2. \A w \in Writers : Untold(w)' \in 0..1 /\ Unwritten(w)' \in 0..1
    BY DEF Untold, Unwritten
  <2>3. QED
    BY <1>a, <1>1, <2>1, <2>2 DEF Counted
<1>2. ASSUME NEW w \in Writers, Commit(w) PROVE Counted'
  <2>1. /\ UNCHANGED <<asked, succeeded>>
        /\ pc[w] = "commit" /\ pc' = [pc EXCEPT ![w] = "refresh"]
    BY <1>2 DEF Commit
  <2>2. PICK e : e \notin RowsOf(w) /\ RowsOf(w)' = RowsOf(w) \cup {e}
    BY <1>2, CommitWritesOne DEF IInv
  <2>3. /\ IsFiniteSet(RowsOf(w)')
        /\ Cardinality(RowsOf(w)') = Cardinality(RowsOf(w)) + 1
    BY <1>a, <2>2, FS_AddElement
  <2>4. /\ Untold(w) = 0 /\ Untold(w)' = 1
        /\ Unwritten(w) = 1 /\ Unwritten(w)' = 0
    BY <1>a, <2>1 DEF TypeOK, Untold, Unwritten, InCall, Steps
  <2>5. \A v \in Writers \ {w} : /\ RowsOf(v)' = RowsOf(v)
                                /\ Untold(v)' = Untold(v) /\ Unwritten(v)' = Unwritten(v)
    BY <1>2, <1>a, <2>1, CommitWritesOne DEF TypeOK, Untold, Unwritten
  <2>6. ASSUME NEW v \in Writers
        PROVE  /\ IsFiniteSet(RowsOf(v)')
               /\ succeeded'[v] + Untold(v)' <= Cardinality(RowsOf(v)')
               /\ Cardinality(RowsOf(v)') + Unwritten(v)' <= asked'[v]
    <3>1. CASE v = w
      BY <1>a, <2>1, <2>3, <2>4, <3>1
    <3>2. CASE v # w
      BY <1>a, <2>1, <2>5, <3>2
    <3>3. QED
      BY <3>1, <3>2
  <2>7. QED
    BY <2>6 DEF Counted
<1>3. ASSUME NEW w \in Writers, Refresh(w) PROVE Counted'
  <2>1. /\ UNCHANGED <<trail, asked>> /\ succeeded' = [succeeded EXCEPT ![w] = @ + 1]
        /\ pc[w] = "refresh" /\ pc' = [pc EXCEPT ![w] = "open"]
    BY <1>3 DEF Refresh, dbVars
  <2>2. Untold(w) = 1 /\ Untold(w)' = 0 /\ Unwritten(w) = 0 /\ Unwritten(w)' = 0
    BY <1>a, <2>1 DEF TypeOK, Untold, Unwritten, InCall, Steps
  <2>3. \A v \in Writers \ {w} : Untold(v)' = Untold(v) /\ Unwritten(v)' = Unwritten(v)
    BY <1>a, <2>1 DEF TypeOK, Untold, Unwritten
  <2>4. \A v \in Writers : RowsOf(v)' = RowsOf(v)
    BY <2>1 DEF RowsOf
  <2>5. succeeded'[w] = succeeded[w] + 1 /\ \A v \in Writers \ {w} : succeeded'[v] = succeeded[v]
    BY <1>a, <2>1 DEF TypeOK
  <2>6. ASSUME NEW v \in Writers
        PROVE  /\ succeeded'[v] + Untold(v)' <= Cardinality(RowsOf(v))
               /\ Cardinality(RowsOf(v)) + Unwritten(v)' <= asked[v]
    <3>1. CASE v = w
      BY <1>a, <2>2, <2>5, <3>1
    <3>2. CASE v # w
      BY <1>a, <2>3, <2>5, <3>2
    <3>3. QED
      BY <3>1, <3>2
  <2>7. QED
    BY <1>a, <2>1, <2>4, <2>6 DEF Counted
<1>4. ASSUME NEW w \in Writers, NEW to \in TaskState, NEW retry \in BOOLEAN,
             NEW dirty \in BOOLEAN, Begin(w, to, retry, dirty)
      PROVE  Counted'
  <2>1. /\ UNCHANGED <<trail, succeeded>> /\ asked' = [asked EXCEPT ![w] = @ + 1]
        /\ pc[w] = "open" /\ pc' = [pc EXCEPT ![w] = "gate"]
    BY <1>4 DEF Begin, dbVars
  <2>2. Untold(w)' = 0 /\ Unwritten(w)' = 1 /\ Unwritten(w) = 0 /\ Untold(w) = 0
    BY <1>a, <2>1 DEF TypeOK, Untold, Unwritten, InCall, Steps
  <2>3. \A v \in Writers \ {w} : Untold(v)' = Untold(v) /\ Unwritten(v)' = Unwritten(v)
    BY <1>a, <2>1 DEF TypeOK, Untold, Unwritten
  <2>4. \A v \in Writers : RowsOf(v)' = RowsOf(v)
    BY <2>1 DEF RowsOf
  <2>5. asked'[w] = asked[w] + 1 /\ \A v \in Writers \ {w} : asked'[v] = asked[v]
    BY <1>a, <2>1 DEF TypeOK
  <2>6. ASSUME NEW v \in Writers
        PROVE  /\ succeeded[v] + Untold(v)' <= Cardinality(RowsOf(v))
               /\ Cardinality(RowsOf(v)) + Unwritten(v)' <= asked'[v]
    <3>1. CASE v = w
      BY <1>a, <2>2, <2>5, <3>1
    <3>2. CASE v # w
      BY <1>a, <2>3, <2>5, <3>2
    <3>3. QED
      BY <3>1, <3>2
  <2>7. QED
    BY <1>a, <2>1, <2>4, <2>6 DEF Counted
<1>5. QED
  BY <1>a, <1>1, <1>2, <1>3, <1>4, OthersDoNotCount

LEMMA InitCounts == Init => Counted
<1> SUFFICES ASSUME Init, NEW w \in Writers
             PROVE  /\ IsFiniteSet(RowsOf(w))
                    /\ succeeded[w] + Untold(w) <= Cardinality(RowsOf(w))
                    /\ Cardinality(RowsOf(w)) + Unwritten(w) <= asked[w]
  BY DEF Counted
<1>1. \A t \in Tasks : DOMAIN trail[t] = {}
  BY DEF Init
<1>2. RowsOf(w) = {}
  BY <1>1, RowsOfMembers
<1>3. succeeded[w] = 0 /\ asked[w] = 0 /\ Untold(w) = 0 /\ Unwritten(w) = 0
  BY DEF Init, Untold, Unwritten, InCall
<1>4. QED
  BY <1>2, <1>3, FS_EmptySet

(* Whatever races, retries, deaths and answers lost after the commit there  *)
(* are, a writer finds a row for each transition it was told of, and no two *)
(* rows for one it asked for (task.py, transition): the only row it was not *)
(* told of is that of a call that raised after its commit.                  *)
THEOREM AtMostOneRowForEachCall == Spec => []AtMostOneRowPerCall
<1>1. Init => IInv /\ Counted
  BY InitInv, InitCounts
<1>2. IInv /\ Counted /\ [Next]_vars => (IInv /\ Counted)'
  BY StepInv, StepCounts
<1>3. IInv /\ Counted => AtMostOneRowPerCall
  <2> SUFFICES ASSUME IInv, Counted, NEW w \in Writers
               PROVE  succeeded[w] <= Cardinality(RowsOf(w)) /\ Cardinality(RowsOf(w)) <= asked[w]
    BY DEF AtMostOneRowPerCall
  <2>1. /\ Cardinality(RowsOf(w)) \in Nat /\ succeeded[w] \in Nat /\ asked[w] \in Nat
        /\ succeeded[w] + Untold(w) <= Cardinality(RowsOf(w))
        /\ Cardinality(RowsOf(w)) + Unwritten(w) <= asked[w]
        /\ Untold(w) \in 0..1 /\ Unwritten(w) \in 0..1
    BY FS_CardinalityType DEF IInv, TypeOK, Counted, Untold, Unwritten
  <2>2. QED
    BY <2>1
<1>4. QED
  BY <1>1, <1>2, <1>3, PTL DEF Spec

-----------------------------------------------------------------------------
(* Who waits for whom *)

(* The two ways to wait, and where the holder of the lock then is.          *)
LEMMA HoldersOfWaits ==
  ASSUME LocksHeld, NEW x \in Writers, NEW y \in Writers, TypeOK, WaitsFor(x, y)
  PROVE  \/ pc[x] = "lock" /\ auditLock = y /\ pc[y] \in {"flush", "commit"}
         \/ /\ pc[x] \in {"gate", "flush"} /\ rowLock[Task(x)] = y /\ y # x
            /\ Task(y) = Task(x)
            /\ pc[y] # "commit" => call[y].dirty
<1>1. Task(x) \in Tasks
  BY TaskType
<1>2. CASE pc[x] = "lock" /\ auditLock = y
  BY <1>2 DEF LocksHeld
<1>3. CASE pc[x] \in {"gate", "flush"} /\ rowLock[Task(x)] = y /\ y # x
  BY <1>1, <1>3, HoldersAreInCalls DEF Task
<1>4. QED
  BY <1>2, <1>3 DEF WaitsFor

(* Who is waited for and waits itself is at the flush of its row, under the *)
(* audit lock, or at the audit lock, with its row flushed already.          *)
LEMMA MiddleOfWaits ==
  ASSUME LocksHeld, TypeOK, NEW x \in Writers, NEW y \in Writers, NEW z \in Writers,
         WaitsFor(x, y), WaitsFor(y, z)
  PROVE  \/ /\ pc[y] = "flush" /\ auditLock = y /\ rowLock[Task(y)] = z
            /\ pc[z] # "commit" => call[z].dirty
         \/ pc[y] = "lock" /\ auditLock = z /\ rowLock[Task(y)] = y /\ call[y].dirty
<1>1. CASE pc[y] = "flush"
  <2>1. auditLock = y
    BY <1>1 DEF LocksHeld
  <2>2. QED
    BY <1>1, <2>1, HoldersOfWaits
<1>2. CASE pc[y] = "lock"
  <2>1. rowLock[Task(x)] = y /\ Task(y) = Task(x) /\ call[y].dirty
    BY <1>2, HoldersOfWaits
  <2>2. auditLock = z
    BY <1>2, HoldersOfWaits
  <2>3. QED
    BY <1>2, <2>1, <2>2
<1>3. CASE pc[y] \notin {"flush", "lock"}
  <2>1. rowLock[Task(y)] = z /\ z # y /\ pc[y] = "gate"
    BY <1>3, HoldersOfWaits
  <2>2. rowLock[Task(x)] = y /\ Task(y) = Task(x)
    BY <2>1, HoldersOfWaits
  <2>3. QED
    BY <2>1, <2>2
<1>4. QED
  BY <1>1, <1>2, <1>3

LEMMA WaitsEndInPairs ==
  ASSUME LocksHeld, TypeOK, NEW w \in Writers, NEW h \in Writers, NEW k \in Writers,
         NEW l \in Writers, NEW m \in Writers,
         WaitsFor(w, h), WaitsFor(h, k), WaitsFor(k, l), WaitsFor(l, m)
  PROVE  \/ WaitCycle(k, l) /\ call[l].dirty
         \/ WaitCycle(l, k) /\ call[k].dirty
<1>1. CASE pc[k] = "flush"
  <2>1. auditLock = k /\ rowLock[Task(k)] = l /\ (pc[l] # "commit" => call[l].dirty)
    BY <1>1, MiddleOfWaits
  <2>2. pc[l] = "lock"
    <3>1. pc[l] \in {"flush", "lock"} /\ (pc[l] = "flush" => auditLock = l)
      BY MiddleOfWaits
    <3>2. l # k
      BY <1>1, HoldersOfWaits
    <3>3. QED
      BY <2>1, <3>1, <3>2
  <2>3. QED
    BY <1>1, <2>1, <2>2 DEF WaitCycle
<1>2. CASE pc[k] = "lock"
  <2>1. auditLock = l /\ rowLock[Task(k)] = k /\ call[k].dirty
    BY <1>2, MiddleOfWaits
  <2>2. pc[h] = "flush" /\ auditLock = h /\ rowLock[Task(h)] = k
    <3>1. pc[h] # "lock"
      <4>1. ASSUME pc[h] = "lock" PROVE FALSE
        <5>1. auditLock = k
          BY <4>1, MiddleOfWaits
        <5>2. QED
          BY <1>2, <5>1 DEF LocksHeld
      <4>2. QED
        BY <4>1
    <3>2. QED
      BY <3>1, MiddleOfWaits
  <2>3. h = l
    BY <2>1, <2>2
  <2>4. QED
    BY <1>2, <2>1, <2>2, <2>3 DEF WaitCycle
<1>3. QED
  BY <1>1, <1>2, MiddleOfWaits

(* However many sessions there are, a deadlock is one pair of them, with    *)
(* the failure handler's early flush on one side (_lock_chain, and the      *)
(* handler of run_fix_and_persist): aborting a partner of each pair leaves  *)
(* nobody waiting in a circle.                                              *)
THEOREM DeadlocksAreOfHandlers == Spec => []CirclesArePairs
<1>1. IInv => CirclesArePairs
  <2>1. IInv => TypeOK /\ LocksHeld
    BY DEF IInv
  <2>2. QED
    BY <2>1, WaitsEndInPairs DEF CirclesArePairs
<1>2. QED
  BY Invariance, <1>1, PTL

-----------------------------------------------------------------------------
(* The measure of a call *)

(* The measure at each step of a call, before a step of the system ...      *)
LEMMA ToGoNow ==
  ASSUME NEW w \in Writers
  PROVE  /\ pc[w] = "reread" => ToGo(w) = 8 * call[w].left + 7
         /\ pc[w] = "gate" =>
              ToGo(w) = 8 * call[w].left + (IF rowLock[Task(w)] = w THEN 5 ELSE 6)
         /\ pc[w] = "lock" => ToGo(w) = 8 * call[w].left + 4
         /\ pc[w] = "flush" => ToGo(w) = 8 * call[w].left + 3
         /\ pc[w] = "commit" => ToGo(w) = 8 * call[w].left + 2
         /\ pc[w] = "refresh" => ToGo(w) = 8 * call[w].left + 1
         /\ pc[w] \in {"closed", "open"} => ToGo(w) = 0
BY DEF ToGo, StepsLeft, InCall, Steps

(* ... and after it.                                                        *)
LEMMA ToGoNext ==
  ASSUME NEW w \in Writers
  PROVE  /\ pc'[w] = "reread" => ToGo(w)' = 8 * call'[w].left + 7
         /\ pc'[w] = "gate" =>
              ToGo(w)' = 8 * call'[w].left + (IF rowLock'[Task(w)'] = w THEN 5 ELSE 6)
         /\ pc'[w] = "lock" => ToGo(w)' = 8 * call'[w].left + 4
         /\ pc'[w] = "flush" => ToGo(w)' = 8 * call'[w].left + 3
         /\ pc'[w] = "commit" => ToGo(w)' = 8 * call'[w].left + 2
         /\ pc'[w] = "refresh" => ToGo(w)' = 8 * call'[w].left + 1
         /\ pc'[w] \in {"closed", "open"} => ToGo(w)' = 0
BY DEF ToGo, StepsLeft, InCall, Steps

LEMMA ToGoType ==
  ASSUME TypeOK, NEW w \in Writers
  PROVE  /\ call[w].left \in Nat /\ ToGo(w) \in Nat
         /\ pc[w] \in InCall => ToGo(w) > 0
<1>1. call[w].left \in Nat /\ pc[w] \in Steps
  BY DEF TypeOK, Calls
<1>2. QED
  BY <1>1, ToGoNow DEF InCall, Steps

LEMMA ProceedsInCalls ==
  ASSUME NEW w \in Writers, Proceed(w)
  PROVE  pc[w] \in InCall
BY DEF Proceed, FlushContext, FlushContextStale, GateOpen, PassGate, RejectIllegal, LockChain,
       FlushState, LoseRace, Reread, RereadIllegal, Commit, Refresh, AbortDeadlock, WaitCycle,
       InCall, Steps

(* An exception ends the call.                                              *)
LEMMA RaiseEndsCall ==
  ASSUME TypeOK, NEW w \in Writers, Raise(w), pc[w] \in InCall
  PROVE  ToGo(w)' < ToGo(w)
<1>1. pc'[w] = "closed"
  BY DEF Raise, TypeOK
<1>2. ToGo(w)' = 0
  BY <1>1, ToGoNext
<1>3. QED
  BY <1>2, ToGoType

LEMMA ProceedLowers ==
  ASSUME TypeOK, LocksHeld, NEW w \in Writers, Proceed(w)
  PROVE  ToGo(w)' < ToGo(w)
<1>0. call[w].left \in Nat /\ Task(w) \in Tasks
  BY ToGoType, TaskType
<1>1. CASE FlushContext(w)
  <2>1. /\ pc[w] = "gate" /\ pc'[w] = "gate" /\ call'[w] = call[w]
        /\ rowLock[Task(w)] # w
    BY <1>1, NoOneAssumption DEF FlushContext
  <2>2. Task(w)' = Task(w) /\ rowLock'[Task(w)] = w
    BY <1>0, <1>1 DEF FlushContext, TypeOK, WithContext, Task
  <2>3. ToGo(w) = 8 * call[w].left + 6 /\ ToGo(w)' = 8 * call[w].left + 5
    BY <2>1, <2>2, ToGoNow, ToGoNext
  <2>4. QED
    BY <1>0, <2>3
<1>2. CASE PassGate(w) \/ LockChain(w) \/ FlushState(w)
  <2>1. /\ \/ pc[w] = "gate" /\ pc'[w] = "lock"
           \/ pc[w] = "lock" /\ pc'[w] = "flush"
           \/ pc[w] = "flush" /\ pc'[w] = "commit"
        /\ call'[w] = call[w]
    BY <1>2 DEF PassGate, GateOpen, LockChain, FlushState, TypeOK
  <2>2. QED
    BY <1>0, <2>1, ToGoNow, ToGoNext
<1>3. CASE LoseRace(w) /\ ~Raise(w)
  <2>1. pc[w] = "flush" /\ pc'[w] = "reread" /\ call[w].left > 1
    BY <1>3 DEF LoseRace, TypeOK
  <2>2. call'[w].left = call[w].left - 1
    BY <1>3 DEF LoseRace, TypeOK, Calls
  <2>3. ToGo(w) = 8 * call[w].left + 3 /\ ToGo(w)' = 8 * (call[w].left - 1) + 7
    BY <2>1, <2>2, ToGoNow, ToGoNext
  <2>4. QED
    BY <1>0, <2>3
<1>4. CASE Reread(w)
  <2>1. pc[w] = "reread" /\ pc'[w] = "gate" /\ call'[w] = call[w]
    BY <1>4 DEF Reread, TypeOK
  <2>2. ToGo(w) = 8 * call[w].left + 7
        /\ ToGo(w)' \in {8 * call[w].left + 5, 8 * call[w].left + 6}
    BY <2>1, ToGoNow, ToGoNext
  <2>3. QED
    BY <1>0, <2>2
<1>5. CASE Commit(w)
  <2>1. pc[w] = "commit" /\ pc'[w] = "refresh" /\ call'[w] = call[w]
    BY <1>5 DEF Commit, TypeOK
  <2>2. QED
    BY <1>0, <2>1, ToGoNow, ToGoNext
<1>6. CASE Refresh(w)
  <2>1. pc[w] = "refresh" /\ pc'[w] = "open"
    BY <1>6 DEF Refresh, TypeOK
  <2>2. QED
    BY <1>0, <2>1, ToGoNow, ToGoNext
<1>7. CASE Raise(w)
  BY <1>7, ProceedsInCalls, RaiseEndsCall
<1>8. QED
  BY <1>1, <1>2, <1>3, <1>4, <1>5, <1>6, <1>7, ExceptionsRaise DEF Proceed

(* What a step of v leaves alone of the call of another session.            *)
LEMMA StepsAreTheirOwn ==
  ASSUME TypeOK, NEW v \in Writers, NEW w \in Writers \ {v},
         Ask(v) \/ Proceed(v) \/ Close(v)
  PROVE  /\ pc'[w] = pc[w] /\ call'[w] = call[w] /\ copy'[w] = copy[w]
         /\ rowLock'[Task(w)] = w <=> rowLock[Task(w)] = w
<1>0. Task(w) \in Tasks /\ w # v
  BY TaskType
<1> USE <1>0, NoOneAssumption DEF TypeOK, lockVars
<1>1. CASE Raise(v)
  BY <1>1 DEF Raise, ReleaseLocks
<1>2. CASE ~Raise(v) /\ Ask(v)
  <2>1. ASSUME NEW t \in Tasks, CreateTask(v, t) \/ OpenTask(v, t)
        PROVE  /\ pc'[w] = pc[w] /\ call'[w] = call[w] /\ copy'[w] = copy[w]
               /\ rowLock' = rowLock
    BY <2>1 DEF CreateTask, OpenTask
  <2>2. ASSUME SaveContext(v)
        PROVE  /\ pc'[w] = pc[w] /\ call'[w] = call[w] /\ copy'[w] = copy[w]
               /\ rowLock' = rowLock
    BY <2>2 DEF SaveContext
  <2>3. ASSUME NEW to, NEW retry, NEW dirty, Begin(v, to, retry, dirty)
        PROVE  /\ pc'[w] = pc[w] /\ call'[w] = call[w] /\ copy'[w] = copy[w]
               /\ rowLock' = rowLock
    BY <2>3 DEF Begin
  <2> HIDE DEF TypeOK
  <2>4. QED
    BY <1>2, <2>1, <2>2, <2>3, ExceptionsRaise, CallersBegin DEF Ask
<1>3. CASE FlushContext(v) \/ FlushState(v)
  <2>1. /\ pc'[w] = pc[w] /\ call'[w] = call[w] /\ copy'[w] = copy[w]
        /\ rowLock' = [rowLock EXCEPT ![Task(v)] = v] /\ rowLock[Task(v)] \in {NoOne, v}
    BY <1>3 DEF FlushContext, FlushState, RowFree
  <2>2. rowLock'[Task(w)] = w <=> rowLock[Task(w)] = w
    <3>1. CASE Task(w) = Task(v)
      BY <2>1, <3>1
    <3>2. CASE Task(w) # Task(v)
      BY <2>1, <3>2
    <3>3. QED
      BY <3>1, <3>2
  <2>3. QED
    BY <2>1, <2>2
<1>4. CASE PassGate(v) \/ LockChain(v) \/ Reread(v) \/ Refresh(v)
  BY <1>4 DEF PassGate, LockChain, Reread, Refresh
<1>5. CASE (LoseRace(v) /\ ~Raise(v)) \/ Commit(v)
  BY <1>5 DEF LoseRace, Commit, ReleaseLocks
<1> HIDE DEF TypeOK
<1>6. QED
  BY <1>1, <1>2, <1>3, <1>4, <1>5, ExceptionsRaise DEF Proceed

LEMMA OthersKeepMeasure ==
  ASSUME NEW w \in Writers, pc'[w] = pc[w], call'[w] = call[w], copy'[w] = copy[w],
         rowLock'[Task(w)] = w <=> rowLock[Task(w)] = w
  PROVE  ToGo(w)' = ToGo(w)
<1>1. Task(w)' = Task(w)
  BY DEF Task
<1>2. StepsLeft(w)' = StepsLeft(w)
  BY <1>1 DEF StepsLeft
<1>3. QED
  BY <1>2 DEF ToGo

LEMMA CallsStep ==
  ASSUME IInv, TypeOK', [Next]_vars, NEW w \in Writers
  PROVE  /\ Proceed(w) => ToGo(w)' < ToGo(w)
         /\ pc[w] \in InCall => ToGo(w)' <= ToGo(w)
<1>1. TypeOK /\ LocksHeld
  BY DEF IInv
<1>2. ToGo(w) \in Nat /\ ToGo(w)' \in Nat
  <2>1. ToGo(w) \in Nat
    BY <1>1, ToGoType
  <2>2. call'[w].left \in Nat /\ pc'[w] \in Steps
    BY DEF TypeOK, Calls
  <2>3. ToGo(w)' \in Nat
    BY <2>2, ToGoNext DEF Steps
  <2>4. QED
    BY <2>1, <2>3
<1>3. CASE Proceed(w)
  <2>1. ToGo(w)' < ToGo(w)
    BY <1>1, <1>3, ProceedLowers
  <2>2. QED
    BY <1>2, <2>1
<1>4. CASE ~Proceed(w) /\ pc[w] \in InCall
  <2>1. ASSUME NEW v \in Writers \ {w}, Ask(v) \/ Proceed(v) \/ Close(v)
        PROVE  ToGo(w)' = ToGo(w)
    BY <1>1, <2>1, StepsAreTheirOwn, OthersKeepMeasure
  <2>2. ASSUME Close(w)
        PROVE  ToGo(w)' < ToGo(w)
    BY <1>1, <1>4, <2>2, ExceptionsRaise, RaiseEndsCall
  <2>3. ~Ask(w)
    BY <1>4 DEF Ask, CreateTask, OpenTask, SaveContext, SaveContextStale, SystemCall, HumanCall,
                HandlerCall, Begin, InCall
  <2>4. ASSUME Pause \/ Unpause \/ UNCHANGED vars
        PROVE  ToGo(w)' = ToGo(w)
    <3>1. UNCHANGED <<pc, call, copy, rowLock>>
      BY <2>4 DEF Pause, Unpause, vars, lockVars
    <3>2. QED
      BY <3>1, OthersKeepMeasure
  <2>5. ToGo(w)' < ToGo(w) \/ ToGo(w)' = ToGo(w)
    BY <1>4, <2>1, <2>2, <2>3, <2>4 DEF Next
  <2>6. ToGo(w)' <= ToGo(w)
    BY <1>2, <2>5
  <2>7. QED
    BY <1>4, <2>6
<1>5. QED
  BY <1>3, <1>4

(* For any number of sessions and attempts, each step of transition and of  *)
(* transition_with_retry lowers a natural number that no other session      *)
(* raises.                                                                  *)
THEOREM CallsRunDown == Spec => [](\A w \in Writers : ToGo(w) \in Nat) /\ CallsGoForward
<1>1. IInv => \A w \in Writers : ToGo(w) \in Nat
  BY ToGoType DEF IInv
<1>2. IInv /\ IInv' /\ [Next]_vars
      => [ \A w \in Writers :
             /\ Proceed(w) => ToGo(w)' < ToGo(w)
             /\ pc[w] \in InCall => ToGo(w)' <= ToGo(w) ]_vars
  BY CallsStep DEF IInv
<1>3. QED
  BY Invariance, <1>1, <1>2, PTL DEF Spec, CallsGoForward
=============================================================================
