------------------------------ MODULE TaskStore ------------------------------
(***************************************************************************)
(* The task rows of the database and every write to them: create_task,     *)
(* transition, transition_with_retry (orchestrator/task.py), the pause     *)
(* gate they start with (orchestrator/pause.py), the advisory lock of the  *)
(* audit chain they append under (audit/chain.py), and the plain commits   *)
(* of task_context the callers make.                                       *)
(*                                                                         *)
(* Writers are database sessions: a running chain, a request of the API,   *)
(* the failure handler of a background run, a polling watcher.  Each holds *)
(* a copy of one task that it read earlier and that others may overtake.   *)
(* A row is guarded by its version (SQLAlchemy's version_id_col): a write  *)
(* based on an older version fails with StaleDataError.  An UPDATE that    *)
(* was flushed and not committed holds PostgreSQL's lock of that row.      *)
(***************************************************************************)
EXTENDS Naturals, Sequences, FiniteSets, TaskStates

CONSTANTS
  Tasks,            \* the tasks of the database
  Writers,          \* the sessions that write task rows
  NoOne,            \* the value of a lock nobody holds
  InitialStates,    \* states in which a run of the model may find a task
  MAX_OCC_RETRIES,  \* attempts of transition_with_retry, 3 in the code
  MaxCalls,         \* bound of the model: writes one writer starts
  MaxPauses         \* bound of the model: times the system is paused

ASSUME TasksAssumption == Tasks # {}
ASSUME NoOneAssumption == NoOne \notin Writers
ASSUME InitialStatesAssumption == InitialStates \subseteq TaskState
ASSUME BoundsAssumption ==
  /\ MAX_OCC_RETRIES \in Nat \ {0}
  /\ MaxCalls \in Nat
  /\ MaxPauses \in Nat

VARIABLES
  origin,     \* the state each task has when the behaviour begins
  row,        \* the committed row of each task: state, version, context
  trail,      \* the committed task_transitions rows of each task, in order
  paused,     \* the durable flag of OrchestratorPause
  pc,         \* where each writer stands in its current call
  copy,       \* the task each writer has loaded, as it last saw it
  call,       \* the call each writer is making
  auditLock,  \* the holder of the audit chain's advisory lock
  rowLock,    \* the holder of each row's lock, by an UPDATE not yet committed
  \* History variables: what the callers were told, never read by the code.
  started,    \* calls each writer has started (bounded by MaxCalls)
  asked,      \* transitions each writer has asked for
  succeeded,  \* transitions each writer was told had happened
  saved,      \* writers told that their task_context was stored, per task
  pauses,     \* times the system was paused (bounded by MaxPauses)
  admitted    \* writers that were past the gate when the pause began

dbVars == <<row, trail>>
lockVars == <<auditLock, rowLock>>
pauseVars == <<paused, pauses, admitted>>
tellVars == <<asked, succeeded, saved>>
vars == <<origin, row, trail, paused, pc, copy, call, auditLock, rowLock,
          started, asked, succeeded, saved, pauses, admitted>>

(* A row has version 0 until create_task inserts it.                       *)
Rows == [state : TaskState, version : Nat, context : SUBSET Writers]

Copies == [task : Tasks, state : TaskState, version : Nat, context : SUBSET Writers]

(* The copy of a session that has loaded no task.                          *)
Unloaded == [task |-> CHOOSE t \in Tasks : TRUE, state |-> "CREATED",
             version |-> 0, context |-> {}]

Edges == [from : TaskState, to : TaskState, by : Writers]

(* A call: the state asked for, whether a lost race is retried, whether    *)
(* the caller has changed task_context without committing it, and how many *)
(* attempts are left.                                                      *)
Calls == [to : TaskState, retry : BOOLEAN, dirty : BOOLEAN, left : Nat]
NoCall == [to |-> "CREATED", retry |-> FALSE, dirty |-> FALSE, left |-> 0]

Steps == {"closed", "open", "gate", "lock", "flush", "commit", "refresh", "reread"}
PastGate == {"lock", "flush", "commit"}
InCall == Steps \ {"closed", "open"}

TypeOK ==
  /\ origin \in [Tasks -> TaskState]
  /\ row \in [Tasks -> Rows]
  /\ trail \in [Tasks -> Seq(Edges)]
  /\ paused \in BOOLEAN
  /\ pc \in [Writers -> Steps]
  /\ copy \in [Writers -> Copies]
  /\ call \in [Writers -> Calls]
  /\ auditLock \in Writers \cup {NoOne}
  /\ rowLock \in [Tasks -> Writers \cup {NoOne}]
  /\ started \in [Writers -> Nat]
  /\ asked \in [Writers -> Nat]
  /\ succeeded \in [Writers -> Nat]
  /\ saved \in [Tasks -> SUBSET Writers]
  /\ pauses \in Nat
  /\ admitted \in SUBSET Writers

Init ==
  /\ origin \in [Tasks -> InitialStates]
  /\ row = [t \in Tasks |-> [state |-> origin[t], context |-> {},
                             version |-> IF origin[t] = "CREATED" THEN 0 ELSE 1]]
  /\ trail = [t \in Tasks |-> << >>]
  /\ paused = FALSE
  /\ pc = [w \in Writers |-> "closed"]
  /\ copy = [w \in Writers |-> Unloaded]
  /\ call = [w \in Writers |-> NoCall]
  /\ auditLock = NoOne
  /\ rowLock = [t \in Tasks |-> NoOne]
  /\ started = [w \in Writers |-> 0]
  /\ asked = [w \in Writers |-> 0]
  /\ succeeded = [w \in Writers |-> 0]
  /\ saved = [t \in Tasks |-> {}]
  /\ pauses = 0
  /\ admitted = {}

-----------------------------------------------------------------------------
(* Sessions and rows *)

Task(w) == copy[w].task

(* Otherwise: the mapper has no version_id_col.                           *)
NoVersionCheck(w) == TRUE

(* The UPDATE of w finds its row at the version w last saw; w's own flushed *)
(* UPDATE has already moved the version w sees.                             *)
VersionMatches(w) ==
  rowLock[Task(w)] = w \/ row[Task(w)].version = copy[w].version

RowFree(w) == rowLock[Task(w)] \in {NoOne, w}

(* Otherwise: task_context is left expired when a row is read again.      *)
LoadedWithoutContext(t) ==
  [task |-> t, state |-> row[t].state, version |-> row[t].version]

(* What w reads of t: session.get, session.refresh, a populate_existing get. *)
Loaded(t) ==
  [task |-> t, state |-> row[t].state, version |-> row[t].version,
   context |-> row[t].context]

(* Otherwise: pg_advisory_lock, which outlives its transaction.           *)
KeepChainLock(w) ==
  /\ auditLock' = auditLock
  /\ rowLock' = [t \in Tasks |-> IF rowLock[t] = w THEN NoOne ELSE rowLock[t]]

(* The end of a transaction: its locks go, whoever held them.               *)
ReleaseLocks(w) ==
  /\ auditLock' = IF auditLock = w THEN NoOne ELSE auditLock
  /\ rowLock' = [t \in Tasks |-> IF rowLock[t] = w THEN NoOne ELSE rowLock[t]]

(* An exception nobody below the session's owner handles: the transaction   *)
(* rolls back, the session is gone, and nothing of the call is stored.      *)
Raise(w) ==
  /\ pc' = [pc EXCEPT ![w] = "closed"]
  /\ copy' = [copy EXCEPT ![w] = Unloaded]
  /\ call' = [call EXCEPT ![w] = NoCall]
  /\ admitted' = admitted \ {w}
  /\ ReleaseLocks(w)
  /\ UNCHANGED <<origin, dbVars, paused, pauses, started, tellVars>>

(* create_task: one INSERT, committed; the caller keeps the new object.     *)
CreateTask(w, t) ==
  /\ pc[w] = "closed"
  /\ row[t].version = 0
  /\ row' = [row EXCEPT ![t].version = 1]
  /\ copy' = [copy EXCEPT ![w] = [task |-> t, state |-> row[t].state, version |-> 1,
                                  context |-> row[t].context]]
  /\ pc' = [pc EXCEPT ![w] = "open"]
  /\ UNCHANGED <<origin, trail, pauseVars, call, lockVars, started, tellVars>>

(* get_task in a new session.                                               *)
OpenTask(w, t) ==
  /\ pc[w] = "closed"
  /\ row[t].version > 0
  /\ started[w] < MaxCalls
  /\ copy' = [copy EXCEPT ![w] = Loaded(t)]
  /\ pc' = [pc EXCEPT ![w] = "open"]
  /\ UNCHANGED <<origin, dbVars, pauseVars, call, lockVars, started, tellVars>>

(* The copy of w once an UPDATE of its task_context, or of its state alone, *)
(* has been flushed: the caller's part is merged into the context it read.  *)
WithContext(w) ==
  [task |-> Task(w), state |-> copy[w].state, version |-> copy[w].version + 1,
   context |-> copy[w].context \cup {w}]
WithState(w) ==
  [task |-> Task(w), state |-> copy[w].state, version |-> copy[w].version + 1,
   context |-> copy[w].context]

(* Otherwise: task_context written by a statement of its own, unguarded.  *)
SaveContextUnguarded(w) ==
  /\ pc[w] = "open"
  /\ started[w] < MaxCalls
  /\ rowLock[Task(w)] = NoOne
  /\ row' = [row EXCEPT ![Task(w)].context = WithContext(w).context,
                        ![Task(w)].version = @ + 1]
  /\ saved' = [saved EXCEPT ![Task(w)] = @ \cup {w}]
  /\ started' = [started EXCEPT ![w] = @ + 1]
  /\ UNCHANGED <<origin, trail, pauseVars, pc, copy, call, lockVars, asked, succeeded>>

(* A caller changes task_context on the copy it holds and commits it: the   *)
(* UPDATE is flushed and committed at once.  On a lost race StaleDataError  *)
(* leaves the caller.                                                       *)
SaveContext(w) ==
  /\ pc[w] = "open"
  /\ started[w] < MaxCalls
  /\ rowLock[Task(w)] = NoOne
  /\ VersionMatches(w)
  /\ row' = [row EXCEPT ![Task(w)] = [state |-> @.state,
                                      version |-> WithContext(w).version,
                                      context |-> WithContext(w).context]]
  /\ copy' = [copy EXCEPT ![w] = WithContext(w)]
  /\ saved' = [saved EXCEPT ![Task(w)] = @ \cup {w}]
  /\ started' = [started EXCEPT ![w] = @ + 1]
  /\ UNCHANGED <<origin, trail, pauseVars, pc, call, lockVars, asked, succeeded>>

SaveContextStale(w) ==
  /\ pc[w] = "open"
  /\ rowLock[Task(w)] = NoOne
  /\ ~VersionMatches(w)
  /\ Raise(w)

-----------------------------------------------------------------------------
(* The callers of transition *)

Begin(w, to, retry, dirty) ==
  /\ pc[w] = "open"
  /\ started[w] < MaxCalls
  /\ started' = [started EXCEPT ![w] = @ + 1]
  /\ asked' = [asked EXCEPT ![w] = @ + 1]
  /\ call' = [call EXCEPT ![w] = [to |-> to, retry |-> retry, dirty |-> dirty,
                                  left |-> IF retry THEN MAX_OCC_RETRIES ELSE 1]]
  /\ pc' = [pc EXCEPT ![w] = "gate"]
  /\ UNCHANGED <<origin, dbVars, pauseVars, copy, lockVars, succeeded, saved>>

(* The chain, the reconciler (retry) and the watcher (no retry) ask for the *)
(* next state of the task as they last saw it.                              *)
SystemCall(w) ==
  \E to \in TaskState, retry \in BOOLEAN :
    CanMove(copy[w].state, to) /\ Begin(w, to, retry, FALSE)

(* The cancel, approve and reject endpoints attempt the transition whatever *)
(* the task's state is, once.                                               *)
HumanCall(w) ==
  \E to \in {"CANCELLED", "MERGED"} : Begin(w, to, FALSE, FALSE)

(* The failure handler of run_fix_and_persist: on a task that is not        *)
(* terminal it sets task_context, commits nothing, and asks once for the    *)
(* failure state.                                                           *)
HandlerCall(w) ==
  /\ copy[w].state \in NonTerminal
  /\ Begin(w, FailureState(copy[w].state), FALSE, TRUE)

-----------------------------------------------------------------------------
(* transition, step by step: the suspension points are its database calls *)

(* The SELECT of the pause flag autoflushes a changed task_context: the row *)
(* is locked from here to the end of the transaction, through any pause.    *)
FlushContext(w) ==
  /\ pc[w] = "gate" /\ call[w].dirty
  /\ rowLock[Task(w)] = NoOne
  /\ VersionMatches(w)
  /\ rowLock' = [rowLock EXCEPT ![Task(w)] = w]
  /\ copy' = [copy EXCEPT ![w] = WithContext(w)]
  /\ UNCHANGED <<origin, dbVars, pauseVars, pc, call, auditLock, started, tellVars>>

(* That flush is outside transition's try block: StaleDataError escapes.    *)
FlushContextStale(w) ==
  /\ pc[w] = "gate" /\ call[w].dirty
  /\ rowLock[Task(w)] = NoOne
  /\ ~VersionMatches(w)
  /\ Raise(w)

GateOpen(w) ==
  /\ pc[w] = "gate"
  /\ call[w].dirty => rowLock[Task(w)] = w
  /\ ~paused

(* Not paused, and the move is legal from the state w last saw.             *)
PassGate(w) ==
  /\ GateOpen(w)
  /\ CanMove(copy[w].state, call[w].to)
  /\ pc' = [pc EXCEPT ![w] = "lock"]
  /\ UNCHANGED <<origin, dbVars, pauseVars, copy, call, lockVars, started, tellVars>>

RejectIllegal(w) ==
  /\ GateOpen(w)
  /\ ~CanMove(copy[w].state, call[w].to)
  /\ Raise(w)

(* Otherwise: the audit row is committed on its own, ahead of the state.  *)
LockChainAndLog(w) ==
  /\ pc[w] = "lock"
  /\ auditLock = NoOne
  /\ auditLock' = w
  /\ trail' = [trail EXCEPT ![Task(w)] = Append(@, [from |-> copy[w].state,
                                                  to |-> call[w].to, by |-> w])]
  /\ pc' = [pc EXCEPT ![w] = "flush"]
  /\ UNCHANGED <<origin, row, pauseVars, copy, call, rowLock, started, tellVars>>

(* append_chained: the advisory lock first ...                              *)
LockChain(w) ==
  /\ pc[w] = "lock"
  /\ auditLock = NoOne
  /\ auditLock' = w
  /\ pc' = [pc EXCEPT ![w] = "flush"]
  /\ UNCHANGED <<origin, dbVars, pauseVars, copy, call, rowLock, started, tellVars>>

(* ... then the read of the tip, which autoflushes the UPDATE of the task.  *)
FlushState(w) ==
  /\ pc[w] = "flush"
  /\ RowFree(w)
  /\ VersionMatches(w)
  /\ rowLock' = [rowLock EXCEPT ![Task(w)] = w]
  /\ copy' = [copy EXCEPT ![w] = WithState(w)]
  /\ pc' = [pc EXCEPT ![w] = "commit"]
  /\ UNCHANGED <<origin, dbVars, pauseVars, call, auditLock, started, tellVars>>

(* A lost race: rollback.  transition raises ConcurrentUpdateError, which   *)
(* transition_with_retry answers by reading again unless it was the last    *)
(* attempt.                                                                 *)
LoseRace(w) ==
  /\ pc[w] = "flush"
  /\ RowFree(w)
  /\ ~VersionMatches(w)
  /\ \/ /\ call[w].left > 1
        /\ pc' = [pc EXCEPT ![w] = "reread"]
        /\ call' = [call EXCEPT ![w].left = @ - 1]
        /\ admitted' = admitted \ {w}
        /\ ReleaseLocks(w)
        /\ UNCHANGED <<origin, dbVars, paused, pauses, copy, started, tellVars>>
     \/ /\ call[w].left <= 1
        /\ Raise(w)

(* Otherwise: the retry takes the new version and keeps the state it knew *)
(* ("retry until it sticks").                                               *)
RereadVersionOnly(w) ==
  /\ pc[w] = "reread"
  /\ copy' = [copy EXCEPT ![w].version = row[Task(w)].version]
  /\ pc' = [pc EXCEPT ![w] = "gate"]
  /\ UNCHANGED <<origin, dbVars, pauseVars, call, lockVars, started, tellVars>>

(* Otherwise: the retry goes straight back to the write, past the pause gate. *)
RereadPastGate(w) ==
  /\ pc[w] = "reread"
  /\ CanMove(row[Task(w)].state, call[w].to)
  /\ copy' = [copy EXCEPT ![w] = Loaded(Task(w))]
  /\ pc' = [pc EXCEPT ![w] = "lock"]
  /\ UNCHANGED <<origin, dbVars, pauseVars, call, lockVars, started, tellVars>>

(* The retry re-validates against the row as it is now.                     *)
Reread(w) ==
  /\ pc[w] = "reread"
  /\ CanMove(row[Task(w)].state, call[w].to)
  /\ copy' = [copy EXCEPT ![w] = Loaded(Task(w))]
  /\ pc' = [pc EXCEPT ![w] = "gate"]
  /\ UNCHANGED <<origin, dbVars, pauseVars, call, lockVars, started, tellVars>>

RereadIllegal(w) ==
  /\ pc[w] = "reread"
  /\ ~CanMove(row[Task(w)].state, call[w].to)
  /\ Raise(w)

(* The state, the pending context and the audit row become visible at once. *)
Commit(w) ==
  /\ pc[w] = "commit"
  /\ LET t == Task(w) IN
       /\ row' = [row EXCEPT ![t] = [state |-> call[w].to, version |-> copy[w].version,
                                     context |-> IF call[w].dirty THEN copy[w].context
                                                                  ELSE @.context]]
       /\ trail' = [trail EXCEPT ![t] = Append(@, [from |-> copy[w].state,
                                                   to |-> call[w].to, by |-> w])]
       /\ saved' = [saved EXCEPT ![t] = IF call[w].dirty THEN @ \cup {w} ELSE @]
  /\ ReleaseLocks(w)
  /\ pc' = [pc EXCEPT ![w] = "refresh"]
  /\ admitted' = admitted \ {w}
  /\ UNCHANGED <<origin, paused, pauses, copy, call, started, asked, succeeded>>

(* session.refresh after the commit: by now others may have moved the row.  *)
(* Only then does transition return; an exception of the refresh (Close)    *)
(* leaves a committed transition the caller is not told of.                 *)
Refresh(w) ==
  /\ pc[w] = "refresh"
  /\ succeeded' = [succeeded EXCEPT ![w] = @ + 1]
  /\ copy' = [copy EXCEPT ![w] = Loaded(Task(w))]
  /\ pc' = [pc EXCEPT ![w] = "open"]
  /\ call' = [call EXCEPT ![w] = NoCall]
  /\ UNCHANGED <<origin, dbVars, pauseVars, lockVars, started, asked, saved>>

-----------------------------------------------------------------------------
(* The environment *)

(* The process dies, a database call raises, or the owner closes the        *)
(* session: the server rolls the open transaction back.                     *)
Close(w) ==
  /\ pc[w] # "closed"
  /\ Raise(w)

(* w waits for the row, which h flushed before it came to wait for w.       *)
WaitCycle(w, h) ==
  /\ pc[w] = "flush" /\ rowLock[Task(w)] = h
  /\ pc[h] = "lock" /\ auditLock = w

(* PostgreSQL aborts one transaction of a cycle; the error is not a         *)
(* StaleDataError and nobody handles it.                                    *)
AbortDeadlock(w) ==
  /\ \E h \in Writers : h # w /\ (WaitCycle(w, h) \/ WaitCycle(h, w))
  /\ Raise(w)

(* set_paused, in either direction.                                         *)
Pause ==
  /\ ~paused
  /\ pauses < MaxPauses
  /\ paused' = TRUE
  /\ pauses' = pauses + 1
  /\ admitted' = {w \in Writers : pc[w] \in PastGate}
  /\ UNCHANGED <<origin, dbVars, pc, copy, call, lockVars, started, tellVars>>

Unpause ==
  /\ paused
  /\ paused' = FALSE
  /\ admitted' = {}
  /\ UNCHANGED <<origin, dbVars, pauses, pc, copy, call, lockVars, started, tellVars>>

-----------------------------------------------------------------------------
(* The steps that the event loop and the database take by themselves once a *)
(* call has begun.                                                          *)
Proceed(w) ==
  \/ FlushContext(w) \/ FlushContextStale(w)
  \/ PassGate(w) \/ RejectIllegal(w)
  \/ LockChain(w) \/ FlushState(w) \/ LoseRace(w)
  \/ Reread(w) \/ RereadIllegal(w)
  \/ Commit(w) \/ Refresh(w)
  \/ AbortDeadlock(w)

Ask(w) ==
  \/ \E t \in Tasks : CreateTask(w, t) \/ OpenTask(w, t)
  \/ SaveContext(w) \/ SaveContextStale(w)
  \/ SystemCall(w) \/ HumanCall(w) \/ HandlerCall(w)

Next ==
  \/ \E w \in Writers : Ask(w) \/ Proceed(w) \/ Close(w)
  \/ Pause \/ Unpause

Spec == Init /\ [][Next]_vars

(* Each call in progress is scheduled again: the event loop runs every      *)
(* ready coroutine and PostgreSQL grants locks in turn.  Somebody           *)
(* eventually lifts a pause.                                                *)
Fairness ==
  /\ \A w \in Writers : SF_vars(Proceed(w))
  /\ WF_vars(Unpause)

FairSpec == Spec /\ Fairness

-----------------------------------------------------------------------------
(* Properties *)

(* What the trail says a task's state is: where its last row leads, or the  *)
(* state it began with.                                                     *)
StateByTrail(t, n) == IF n = 0 THEN origin[t] ELSE trail[t][n].to

(* The committed audit trail of a task is an unbroken path of legal moves   *)
(* that ends in the state stored in its row, whatever sessions raced on it: *)
(* each row starts where the one before ended ("what keeps the trail        *)
(* honest", task.py).                                                       *)
TrailLeadsToState ==
  \A t \in Tasks :
    /\ \A n \in 1..Len(trail[t]) :
         /\ trail[t][n].from = StateByTrail(t, n - 1)
         /\ CanMove(trail[t][n].from, trail[t][n].to)
    /\ row[t].state = StateByTrail(t, Len(trail[t]))

(* The audit rows a writer has left, over all tasks.                        *)
RowsOf(w) == UNION { {t} \X {n \in DOMAIN trail[t] : trail[t][n].by = w} : t \in Tasks }

(* No transition a caller was told of is lost, and none it asked for is     *)
(* applied twice: lost races, retries, rollbacks, deaths and answers lost   *)
(* after the commit leave a writer at least one audit row for each success  *)
(* it saw and at most one for each transition it asked for.                 *)
AtMostOneRowPerCall ==
  \A w \in Writers :
    /\ succeeded[w] <= Cardinality(RowsOf(w))
    /\ Cardinality(RowsOf(w)) <= asked[w]

(* task_context is merged on a copy and written back whole; no writer that  *)
(* was told its part is stored ever loses it to another writer's merge.     *)
NoContextLost == \A t \in Tasks : saved[t] \subseteq row[t].context

(* Once a pause has begun, only transitions already past the gate still     *)
(* commit: no new transition starts, and a retry after a lost race waits    *)
(* like a new one.                                                          *)
PauseDrains == paused => {w \in Writers : pc[w] \in PastGate} \subseteq admitted

(* A task a human cancelled, or that ended in any other way, is never       *)
(* moved again by a writer that still holds an older copy of it.            *)
TerminalIsFinal ==
  [][\A t \in Tasks : row[t].state \in TERMINAL_STATES => row'[t].state = row[t].state]_row

(* Every call of transition or transition_with_retry ends, by success or by *)
(* an exception.                                                            *)
CallsEnd == \A w \in Writers : pc[w] \in InCall ~> pc[w] \notin InCall

(* How far a call is from its end: the attempts it has left, and what is    *)
(* left of this one.  A dirty call flushes its context once, at the gate.   *)
StepsLeft(w) ==
  CASE pc[w] = "reread" -> 7
    [] pc[w] = "gate" /\ rowLock[Task(w)] # w -> 6
    [] pc[w] = "gate" /\ rowLock[Task(w)] = w -> 5
    [] pc[w] = "lock" -> 4
    [] pc[w] = "flush" -> 3
    [] pc[w] = "commit" -> 2
    [] pc[w] = "refresh" -> 1

ToGo(w) == IF pc[w] \in InCall THEN 8 * call[w].left + StepsLeft(w) ELSE 0

(* Retries never go in circles: each step of a call takes it nearer to its  *)
(* end, and no other session's step, commit, pause or death sends it back.  *)
CallsGoForward ==
  [][\A w \in Writers :
       /\ Proceed(w) => ToGo(w)' < ToGo(w)
       /\ pc[w] \in InCall => ToGo(w)' <= ToGo(w)]_vars

(* w waits for h: for the audit lock, or for the row's lock that its flush  *)
(* needs.                                                                   *)
WaitsFor(w, h) ==
  \/ pc[w] = "lock" /\ auditLock = h
  \/ /\ pc[w] = "flush" \/ (pc[w] = "gate" /\ call[w].dirty)
     /\ rowLock[Task(w)] = h /\ h # w

(* Sessions wait for each other in pairs only: follow who waits for whom    *)
(* and within three steps there is one that does not wait, or a pair of     *)
(* which one is a failure handler.  So a victim of AbortDeadlock frees all, *)
(* and without the early flush of the handler there is no deadlock; with it *)
(* the audit lock is not the leaf that _lock_chain says it is.              *)
CirclesArePairs ==
  \A w, h \in Writers : WaitsFor(w, h) =>
    \A k \in Writers : WaitsFor(h, k) =>
      \A l \in Writers : WaitsFor(k, l) =>
        \/ WaitCycle(k, l) /\ call[l].dirty
        \/ WaitCycle(l, k) /\ call[k].dirty
        \/ \A m \in Writers : ~WaitsFor(l, m)

(* The atomic task of Lifecycle, read off the committed rows.               *)
Life == INSTANCE Lifecycle WITH
          exists  <- [t \in Tasks |-> row[t].version > 0],
          state   <- [t \in Tasks |-> row[t].state],
          notes   <- [t \in Tasks |-> row[t].context],
          history <- trail

(* Copies that age, versions, locks, retries, rollbacks and lost sessions    *)
(* never show: what transition and the plain commits leave in the database  *)
(* is what single atomic moves and merges would have left (task.py).        *)
ImplementsLifecycle == Life!Spec
=============================================================================
