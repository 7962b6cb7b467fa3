------------------------------ MODULE Dispatch ------------------------------
(***************************************************************************)
(* How an anomaly becomes a task and a task becomes a run: the polls of    *)
(* `amop watch` (cli/main.py, orchestrator/monitoring.py), the webhook's    *)
(* background jobs (api/routes/webhooks.py), triage (orchestrator/watch.py),*)
(* the breakers (safety/circuit_breakers.py), the slots and the file locks  *)
(* (orchestrator/concurrency.py).                                           *)
(*                                                                         *)
(* A watcher is a process that triages one alert after the other.  The API *)
(* is one process; its jobs, one per delivered issue, run side by side.    *)
(* The tasks are in the order of created_at.  What a run does is FixChain; *)
(* here it takes a slot, then locks, and ends.  The model is of one UTC day.*)
(***************************************************************************)
EXTENDS Naturals, Sequences, FiniteSets, FiniteSetsExt, TaskStates

CONSTANTS
  Watchers,      \* the processes of `amop watch`
  Repos,         \* the registered repositories that are ready
  Issues,        \* the issues on GitHub
  RepoOf,        \* the repository of each issue
  LogRepo,       \* AMOP_LOG_SOURCE_REPO, a repository, or none of them
  Files,         \* the keys of declared files, as numbers; 0 is the repository's own
  TasksPerDay,   \* MAX_COST_PER_DAY_USD / COST_ESTIMATE_PER_TASK_USD
  TasksPerHour,  \* MAX_TASKS_PER_HOUR
  PerRepoHour,   \* MAX_ANOMALIES_PER_HOUR_PER_REPO
  Streak,        \* FAILURE_STREAK_THRESHOLD
  GlobalSlots,   \* MAX_CONCURRENT_TASKS_GLOBAL
  RepoSlots,     \* MAX_CONCURRENT_TASKS_PER_REPO
  MaxAlerts,     \* bound of the model: alerts of one answer of the watcher's model
  MaxCrashes     \* bound of the model: deaths of processes

ASSUME DispatchAssumption ==
  /\ IsFiniteSet(Watchers) /\ IsFiniteSet(Issues) /\ Watchers \cap Issues = {}
  /\ RepoOf \in [Issues -> Repos]
  /\ Files \subseteq Nat \ {0}
  /\ {TasksPerDay, TasksPerHour, PerRepoHour, MaxAlerts, MaxCrashes} \subseteq Nat
  /\ {Streak, GlobalSlots, RepoSlots} \subseteq Nat \ {0}

(* A job is named after the issue of its delivery; THRESHOLD_INCIDENT, the *)
(* number -1 of a repository's error rate, after the repository.           *)
Api == "api"
Jobs == Issues
Actors == Watchers \cup Jobs
Incidents == Issues \cup Repos
RepoOfIncident(i) == IF i \in Repos THEN i ELSE RepoOf[i]
Processes == Watchers \cup {Api}
Home(a) == IF a \in Watchers THEN a ELSE Api

VARIABLES
  tasks,      \* the rows of tasks: incident, state, the task it was merged into
  hourAgo,    \* how many of them are older than an hour
  open,       \* the issues that are open on GitHub
  local,      \* the watcher was given a local clone
  received,   \* processed_events
  step,       \* where each actor stands
  since,      \* history: how many tasks there were when it began to look
  repo,       \* the repository a watcher polls
  unseen,     \* issues listed and not yet looked up
  candidates, \* issues looked up and found without an open task
  alerts,     \* the alerts that are left of the answer, the current one first
  mine,       \* the task in hand, or 0
  twin,       \* the open task that was found similar, or 0
  slots,      \* _active_global and _active_per_repo of each process
  wanted,     \* the lock keys the run has still to take
  held,       \* and those it holds
  crashes,    \* deaths of processes so far
  \* A history variable, never read by the code.
  overlapped  \* pairs of tasks that two actors had in hand at one time

actorVars == <<step, since, repo, unseen, candidates, alerts, mine, twin>>
runVars == <<slots, wanted, held>>
vars == <<tasks, hourAgo, open, local, received, actorVars, runVars, crashes, overlapped>>

Tasks == DOMAIN tasks
Keys == Files \cup {0}
Steps == { "idle", "look", "rate", "classify", "gate", "create", "created", "similar",
           "merge", "judge", "run", "lock", "work", "logs", "done" }
Running == {"run", "lock", "work"}

NoSlots == [all |-> 0, of |-> [r \in Repos |-> 0]]

(* Some of the watchers run, and some of the issues are open. *)
Init ==
  /\ tasks = << >> /\ hourAgo = 0 /\ local \in [Watchers -> BOOLEAN]
  /\ received = {}
  /\ \E active \in SUBSET Actors :
       step = [a \in Actors |-> IF a \in active THEN "idle" ELSE "done"]
  /\ open = {i \in Issues : step[i] = "idle"}
  /\ repo \in [Watchers -> Repos]
  /\ unseen = [a \in Actors |-> {}] /\ candidates = [a \in Actors |-> {}]
  /\ alerts = [a \in Actors |-> << >>]
  /\ mine = [a \in Actors |-> 0] /\ twin = [a \in Actors |-> 0]
  /\ slots = [p \in Processes |-> NoSlots]
  /\ wanted = [a \in Actors |-> {}] /\ held = [a \in Actors |-> {}]
  /\ crashes = 0
  /\ since = [a \in Actors |-> 0] /\ overlapped = {}

-----------------------------------------------------------------------------
(* What the queries see. *)

Open(t) == tasks[t].state \in NonTerminal
Recent == {t \in Tasks : t > hourAgo}
TasksOn(i) == {t \in Tasks : tasks[t].incident = i}

(* Otherwise: a task in triage does not count as open. *)
HasWorkedOnTask(i) == \E t \in TasksOn(i) : Open(t) /\ tasks[t].state # "TRIAGING"

(* Layer 1a: the incident has an open task. *)
HasOpenTask(i) == \E t \in TasksOn(i) : Open(t)

(* Every task, of a watcher or of a job, carries the same estimate. *)
CostAllows == Len(tasks) + 1 <= TasksPerDay

(* Otherwise: tasks that have ended are not counted. *)
HourAllowsOpen == Cardinality({t \in Recent : Open(t)}) < TasksPerHour

HourAllows == Cardinality(Recent) < TasksPerHour

(* Tasks of the log threshold have another source and are not counted. *)
AnomalyRateAllows(r) ==
  Cardinality({t \in Recent : tasks[t].incident \in Issues /\ RepoOf[tasks[t].incident] = r})
    < PerRepoHour

(* The newest tasks on the incident, the one in hand excluded, all failed. *)
StreakOver(others) ==
  LET newest == {t \in others : Cardinality({u \in others : u > t}) < Streak} IN
  Cardinality(newest) >= Streak /\ \A t \in newest : tasks[t].state = "FAILED"

(* Otherwise: the task in hand is one of the newest. *)
OnlyFailuresAndOwn(t) == StreakOver(TasksOn(tasks[t].incident))

OnlyFailures(t) == StreakOver(TasksOn(tasks[t].incident) \ {t})

(* Otherwise: the task in hand is not excluded. *)
AnyOpen(t) == {u \in Tasks : Open(u)}

(* Layer 1b: open tasks of any repository, but not the one in hand. *)
OtherOpen(t) == {u \in Tasks : u # t /\ Open(u)}

-----------------------------------------------------------------------------
(* The flow of one actor. *)

Goto(a, s) ==
  /\ step' = [step EXCEPT ![a] = s]
  /\ since' = [since EXCEPT ![a] =
                 IF s \in {"idle", "logs", "done"} THEN 0
                 ELSE IF step[a] \in {"idle", "logs"} THEN Len(tasks) ELSE @]

(* An alert of the logs is the last of a poll; a poll of the issues is     *)
(* followed by the check of the logs, whatever became of it.               *)
Rest(a) ==
  IF a \in Jobs THEN "done"
  ELSE IF alerts[a] # << >> /\ Head(alerts[a]) \in Repos THEN "idle" ELSE "logs"

LeaveWith(a, left) ==
  /\ alerts' = [alerts EXCEPT ![a] = left]
  /\ Goto(a, IF left = << >> THEN Rest(a) ELSE "gate")
  /\ mine' = [mine EXCEPT ![a] = 0] /\ twin' = [twin EXCEPT ![a] = 0]
  /\ UNCHANGED <<repo, unseen>>

(* triage_anomaly returns: the next alert; it raises: those left are lost. *)
NextAlert(a) == LeaveWith(a, Tail(alerts[a])) /\ UNCHANGED candidates
Abandon(a) == LeaveWith(a, << >>) /\ candidates' = [candidates EXCEPT ![a] = {}]

SetState(t, s) == tasks' = [tasks EXCEPT ![t].state = s]

(* _poll_once, for one of the watched repositories; the order of a cycle   *)
(* is left open.                                                           *)
Poll(w) ==
  /\ w \in Watchers /\ step[w] = "idle"
  /\ \E r \in Repos :
       /\ repo' = [repo EXCEPT ![w] = r]
       /\ unseen' = [unseen EXCEPT ![w] = {i \in open : RepoOf[i] = r}]
  /\ candidates' = [candidates EXCEPT ![w] = {}]
  /\ Goto(w, "look")
  /\ UNCHANGED <<tasks, hourAgo, open, local, received, alerts, mine, twin, runVars, crashes, overlapped>>

(* list_open_issues fails: the source is skipped for this cycle. *)
ListFails(w) ==
  /\ w \in Watchers /\ step[w] = "idle"
  /\ Goto(w, "logs")
  /\ UNCHANGED <<tasks, hourAgo, open, local, received, repo, unseen, candidates, alerts, mine, twin,
                 runVars, crashes, overlapped>>

(* A delivery is recorded before it is processed; its redelivery, which    *)
(* finds the row, is acknowledged and does nothing.                        *)
Deliver(i) ==
  /\ i \in open \ received
  /\ received' = received \cup {i}
  /\ unseen' = [unseen EXCEPT ![i] = {i}]
  /\ Goto(i, "look")
  /\ UNCHANGED <<tasks, hourAgo, open, local, repo, candidates, alerts, mine, twin, runVars, crashes, overlapped>>

LookUp(a) ==
  /\ step[a] = "look"
  /\ \E i \in unseen[a] :
       /\ unseen' = [unseen EXCEPT ![a] = @ \ {i}]
       /\ candidates' = [candidates EXCEPT ![a] = IF HasOpenTask(i) THEN @ ELSE @ \cup {i}]
       /\ Goto(a, IF unseen'[a] # {} THEN "look"
                  ELSE IF candidates'[a] = {} THEN Rest(a) ELSE "rate")
  /\ UNCHANGED <<tasks, hourAgo, open, local, received, repo, alerts, mine, twin, runVars, crashes,
                 overlapped>>

PolledRepo(a) == IF a \in Watchers THEN repo[a] ELSE RepoOf[a]

CheckAnomalyRate(a) ==
  /\ step[a] = "rate"
  /\ Goto(a, IF AnomalyRateAllows(PolledRepo(a)) THEN "classify" ELSE Rest(a))
  /\ UNCHANGED <<tasks, hourAgo, open, local, received, repo, unseen, candidates, alerts, mine, twin,
                 runVars, crashes, overlapped>>

(* The watcher's model answers with alerts, in any order and as many for   *)
(* one issue as it likes; those with an index out of range are skipped.     *)
(* No alert, and no valid answer, are the end of it.                        *)
Classify(a) ==
  /\ step[a] = "classify"
  /\ \E n \in 0..MaxAlerts : \E answer \in [1..n -> candidates[a]] :
       /\ alerts' = [alerts EXCEPT ![a] = answer]
       /\ Goto(a, IF n = 0 THEN Rest(a) ELSE "gate")
  /\ candidates' = [candidates EXCEPT ![a] = {}]
  /\ UNCHANGED <<tasks, hourAgo, open, local, received, repo, unseen, mine, twin, runVars, crashes, overlapped>>

(* check_log_threshold: the error rate is over the threshold, and not yet   *)
(* tracked.                                                                 *)
LogsBreach(w) ==
  /\ w \in Watchers /\ step[w] = "logs" /\ repo[w] = LogRepo
  /\ ~HasOpenTask(LogRepo)
  /\ alerts' = [alerts EXCEPT ![w] = <<LogRepo>>]
  /\ Goto(w, "gate")
  /\ UNCHANGED <<tasks, hourAgo, open, local, received, repo, unseen, candidates, mine, twin, runVars,
                 crashes, overlapped>>

LogsQuiet(w) ==
  /\ w \in Watchers /\ step[w] = "logs"
  /\ Goto(w, "idle")
  /\ UNCHANGED <<tasks, hourAgo, open, local, received, repo, unseen, candidates, alerts, mine, twin,
                 runVars, crashes, overlapped>>

-----------------------------------------------------------------------------
(* triage_anomaly. *)

CheckBreakers(a) ==
  /\ step[a] = "gate"
  /\ IF CostAllows /\ HourAllows
     THEN Goto(a, "create") /\ UNCHANGED <<repo, unseen, candidates, alerts, mine, twin>>
     ELSE NextAlert(a)
  /\ UNCHANGED <<tasks, hourAgo, open, local, received, runVars, crashes, overlapped>>

CreateTask(a) ==
  /\ step[a] = "create"
  /\ tasks' = Append(tasks, [incident |-> Head(alerts[a]), state |-> "CREATED", into |-> 0])
  /\ mine' = [mine EXCEPT ![a] = Len(tasks')]
  /\ overlapped' = overlapped \cup {{Len(tasks'), mine[b]} : b \in {c \in Actors : mine[c] # 0}}
  /\ Goto(a, "created")
  /\ UNCHANGED <<hourAgo, open, local, received, repo, unseen, candidates, alerts, twin, runVars, crashes>>

StartTriage(a) ==
  /\ step[a] = "created"
  /\ SetState(mine[a], "TRIAGING")
  /\ Goto(a, "similar")
  /\ UNCHANGED <<hourAgo, open, local, received, repo, unseen, candidates, alerts, mine, twin, runVars,
                 crashes, overlapped>>

(* The open tasks are read, then embedded and compared; what is similar is *)
(* the embedding's choice.                                                  *)
FindSimilar(a) ==
  /\ step[a] = "similar"
  /\ \/ \E t \in OtherOpen(mine[a]) : twin' = [twin EXCEPT ![a] = t] /\ Goto(a, "merge")
     \/ UNCHANGED twin /\ Goto(a, "judge")
  /\ UNCHANGED <<tasks, hourAgo, open, local, received, repo, unseen, candidates, alerts, mine, runVars,
                 crashes, overlapped>>

(* The embedding model fails: the task stays where it is. *)
EmbeddingFails(a) ==
  /\ step[a] = "similar" /\ OtherOpen(mine[a]) # {}
  /\ Abandon(a)
  /\ UNCHANGED <<tasks, hourAgo, open, local, received, runVars, crashes, overlapped>>

MergeIntoExisting(a) ==
  /\ step[a] = "merge"
  /\ tasks' = [tasks EXCEPT ![mine[a]].state = "MERGED_INTO_EXISTING", ![mine[a]].into = twin[a]]
  /\ NextAlert(a)
  /\ UNCHANGED <<hourAgo, open, local, received, runVars, crashes, overlapped>>

(* The failure streak, then the severity, then the local clone. *)
StreakTrips(a) ==
  /\ step[a] = "judge" /\ OnlyFailures(mine[a])
  /\ SetState(mine[a], "NEEDS_HUMAN_INPUT")
  /\ NextAlert(a)
  /\ UNCHANGED <<hourAgo, open, local, received, runVars, crashes, overlapped>>

BelowFloor(a) ==
  /\ step[a] = "judge" /\ ~OnlyFailures(mine[a])
  /\ SetState(mine[a], "CANCELLED")
  /\ NextAlert(a)
  /\ UNCHANGED <<hourAgo, open, local, received, runVars, crashes, overlapped>>

DetectOnly(a) ==
  /\ step[a] = "judge" /\ ~OnlyFailures(mine[a])
  /\ a \in Watchers /\ ~local[a]
  /\ NextAlert(a)
  /\ UNCHANGED <<tasks, hourAgo, open, local, received, runVars, crashes, overlapped>>

HandedToRun(a) ==
  /\ step[a] = "judge" /\ ~OnlyFailures(mine[a])
  /\ a \in Watchers => local[a]

-----------------------------------------------------------------------------
(* gated_by_task_slot, and the run. *)

RunRepo(a) == RepoOfIncident(tasks[mine[a]].incident)

(* Otherwise: the repository's limit is off by one. *)
SlotAlmostFree(p, r) == slots[p].all < GlobalSlots /\ slots[p].of[r] <= RepoSlots

SlotFree(p, r) == slots[p].all < GlobalSlots /\ slots[p].of[r] < RepoSlots

TakeSlot(a) ==
  /\ HandedToRun(a) /\ SlotFree(Home(a), RunRepo(a))
  /\ slots' = [slots EXCEPT ![Home(a)].all = @ + 1, ![Home(a)].of[RunRepo(a)] = @ + 1]
  /\ SetState(mine[a], "INVESTIGATING")
  /\ Goto(a, "run")
  /\ UNCHANGED <<hourAgo, open, local, received, repo, unseen, candidates, alerts, mine, twin, wanted, held,
                 crashes, overlapped>>

(* ConcurrencyLimitExceeded goes through triage_anomaly, and what is left   *)
(* of the answer with it; the task stays TRIAGING.                          *)
SlotRefused(a) ==
  /\ HandedToRun(a) /\ ~SlotFree(Home(a), RunRepo(a))
  /\ Abandon(a)
  /\ UNCHANGED <<tasks, hourAgo, open, local, received, runVars, crashes, overlapped>>

GiveSlotBack(a) ==
  slots' = [slots EXCEPT ![Home(a)].all = @ - 1, ![Home(a)].of[RunRepo(a)] = @ - 1]

(* file_lock_keys, or the repository's key when the plan declares no file. *)
Declare(a) ==
  /\ step[a] = "run"
  /\ \E files \in SUBSET Files : wanted' = [wanted EXCEPT ![a] = IF files = {} THEN {0} ELSE files]
  /\ Goto(a, "lock")
  /\ UNCHANGED <<tasks, hourAgo, open, local, received, repo, unseen, candidates, alerts, mine, twin, slots,
                 held, crashes, overlapped>>

(* The keys of one repository exclude each other across processes. *)
HoldersOf(r, k) == {b \in Actors : k \in held[b] /\ RunRepo(b) = r}
(* Otherwise: the keys in the order they were declared. *)
KeyAsDeclared(a) == IF a \in Watchers THEN Min(wanted[a]) ELSE Max(wanted[a])

NextKey(a) == Min(wanted[a])

TakeLock(a) ==
  /\ step[a] = "lock"
  /\ LET k == NextKey(a) IN
       /\ HoldersOf(RunRepo(a), k) = {}
       /\ wanted' = [wanted EXCEPT ![a] = @ \ {k}] /\ held' = [held EXCEPT ![a] = @ \cup {k}]
  /\ IF wanted'[a] = {} THEN Goto(a, "work") /\ SetState(mine[a], "CODING")
                        ELSE UNCHANGED <<step, since, tasks>>
  /\ UNCHANGED <<hourAgo, open, local, received, repo, unseen, candidates, alerts, mine, twin, slots, crashes,
                 overlapped>>

ReleaseLocks(a) == wanted' = [wanted EXCEPT ![a] = {}] /\ held' = [held EXCEPT ![a] = {}]

(* run_chain comes to an end, of itself or at a budget. *)
RunEnds(a) ==
  /\ \/ step[a] = "work" /\ \E s \in {"FAILED", "NEEDS_HUMAN_INPUT", "WAITING_FOR_APPROVAL"} :
                              SetState(mine[a], s)
     \/ step[a] = "run" /\ SetState(mine[a], "NEEDS_HUMAN_INPUT")
  /\ NextAlert(a) /\ GiveSlotBack(a) /\ ReleaseLocks(a)
  /\ UNCHANGED <<hourAgo, open, local, received, crashes, overlapped>>

(* Otherwise: the slot is given back only by a run that returns. *)
RunRaisesWithSlot(a) ==
  /\ step[a] \in {"run", "work"}
  /\ Abandon(a) /\ ReleaseLocks(a)
  /\ UNCHANGED <<tasks, hourAgo, open, local, received, slots, crashes, overlapped>>

(* A run that raises leaves its task as it is: nothing here handles it. *)
RunRaises(a) ==
  /\ step[a] \in {"run", "work"}
  /\ Abandon(a) /\ GiveSlotBack(a) /\ ReleaseLocks(a)
  /\ UNCHANGED <<tasks, hourAgo, open, local, received, crashes, overlapped>>

-----------------------------------------------------------------------------
HourPasses ==
  /\ hourAgo < Len(tasks)
  /\ hourAgo' = Len(tasks)
  /\ UNCHANGED <<tasks, open, local, received, actorVars, runVars, crashes, overlapped>>

(* A process dies with its counters; the server frees its locks.  A watcher *)
(* is started again; the jobs of the API are not: a redelivery is refused.  *)
Crash(p) ==
  LET dead == {a \in Actors : Home(a) = p /\ step[a] \notin {"idle", "done"}} IN
  /\ crashes < MaxCrashes /\ dead # {}
  /\ crashes' = crashes + 1
  /\ step' = [a \in Actors |-> IF a \notin dead THEN step[a] ELSE IF a \in Jobs THEN "done" ELSE "idle"]
  /\ unseen' = [a \in Actors |-> IF a \in dead THEN {} ELSE unseen[a]]
  /\ candidates' = [a \in Actors |-> IF a \in dead THEN {} ELSE candidates[a]]
  /\ alerts' = [a \in Actors |-> IF a \in dead THEN << >> ELSE alerts[a]]
  /\ mine' = [a \in Actors |-> IF a \in dead THEN 0 ELSE mine[a]]
  /\ twin' = [a \in Actors |-> IF a \in dead THEN 0 ELSE twin[a]]
  /\ since' = [a \in Actors |-> IF a \in dead THEN 0 ELSE since[a]]
  /\ slots' = [slots EXCEPT ![p] = NoSlots]
  /\ wanted' = [a \in Actors |-> IF a \in dead THEN {} ELSE wanted[a]]
  /\ held' = [a \in Actors |-> IF a \in dead THEN {} ELSE held[a]]
  /\ UNCHANGED <<tasks, hourAgo, open, local, received, repo, overlapped>>

Triage(a) ==
  \/ CheckBreakers(a) \/ CreateTask(a) \/ StartTriage(a) \/ FindSimilar(a) \/ EmbeddingFails(a)
  \/ MergeIntoExisting(a) \/ StreakTrips(a) \/ BelowFloor(a) \/ DetectOnly(a)

Run(a) ==
  TakeSlot(a) \/ SlotRefused(a) \/ Declare(a) \/ TakeLock(a) \/ RunEnds(a) \/ RunRaises(a)

Next ==
  \/ \E w \in Watchers : Poll(w) \/ ListFails(w) \/ LogsBreach(w) \/ LogsQuiet(w)
  \/ \E i \in Issues : Deliver(i)
  \/ \E a \in Actors : LookUp(a) \/ CheckAnomalyRate(a) \/ Classify(a) \/ Triage(a) \/ Run(a)
  \/ HourPasses
  \/ \E p \in Processes : Crash(p)

Spec == Init /\ [][Next]_vars

-----------------------------------------------------------------------------
(* Types of the state. *)
TypeOK ==
  /\ tasks \in Seq([incident : Incidents, state : TaskState, into : Nat])
  /\ hourAgo \in 0..Len(tasks) /\ open \subseteq Issues /\ local \in [Watchers -> BOOLEAN]
  /\ received \subseteq open /\ step \in [Actors -> Steps] /\ since \in [Actors -> 0..Len(tasks)]
  /\ repo \in [Watchers -> Repos]
  /\ unseen \in [Actors -> SUBSET Issues] /\ candidates \in [Actors -> SUBSET Issues]
  /\ alerts \in [Actors -> Seq(Incidents)]
  /\ mine \in [Actors -> 0..Len(tasks)] /\ twin \in [Actors -> 0..Len(tasks)]
  /\ slots \in [Processes -> [all : 0..GlobalSlots, of : [Repos -> 0..RepoSlots]]]
  /\ wanted \in [Actors -> SUBSET Keys] /\ held \in [Actors -> SUBSET Keys]
  /\ crashes \in 0..MaxCrashes
  /\ overlapped \subseteq SUBSET Tasks

(* The breakers count rows and the row comes later, so the caps are not    *)
(* exact: but they are passed by at most one task for every other actor     *)
(* that was between its check and its row (safety/circuit_breakers.py:103). *)
CapsOvershootByActorsOnly ==
  LET active == received \cup {w \in Watchers : step[w] # "done"}
      Within(made, cap) == made <= cap \/ made < cap + Cardinality(active) IN
    Within(Len(tasks), TasksPerDay) /\ Within(Cardinality(Recent), TasksPerHour)

(* Layer 1a (orchestrator/watch.py:82): an actor that makes a task for an  *)
(* incident that has an open one could not have seen it: it is younger than *)
(* the actor's own look, its own or another's (cli/main.py:563).            *)
DuplicatesAreUnseen ==
  \A a \in Actors : step[a] = "created" =>
    \A t \in TasksOn(tasks[mine[a]].incident) \ {mine[a]} : Open(t) => t > since[a]

(* Tasks merged into each other, so that nobody works on what they report, *)
(* come of triages that overlapped, each the other's open duplicate; never  *)
(* of one that took itself for its duplicate (orchestrator/watch.py:99).   *)
MergedInCirclesOnlyByOverlap ==
  \A circle \in SUBSET {t \in Tasks : tasks[t].into # 0} :
    circle # {} /\ (\A t \in circle : tasks[t].into \in circle)
      => \E t, u \in circle : t # u /\ {t, u} \in overlapped

(* More than the breaker's number of failures in a row on one incident need *)
(* another task on it beside one of them, its window moved or not yet        *)
(* filled: attempts in sequence are stopped (safety/circuit_breakers.py:193).*)
FailuresInARowAreStopped ==
  \A i \in Incidents : \A few \in SUBSET {t \in TasksOn(i) : tasks[t].state = "FAILED"} :
    /\ Cardinality(few) > Streak
    /\ \A t \in TasksOn(i) \ few : (\A u \in few : t < u) \/ (\A u \in few : t > u)
    => \E t \in few, u \in TasksOn(i) : {t, u} \in overlapped

(* The counters of a process are its runs, whether they end, raise or are   *)
(* refused, and no more runs than the limits (orchestrator/concurrency.py:213).*)
SlotsAreTheRuns ==
  \A p \in Processes :
    LET runs == {a \in Actors : Home(a) = p /\ step[a] \in Running} IN
      /\ slots[p].all = Cardinality(runs)
      /\ \A r \in Repos : slots[p].of[r] = Cardinality({a \in runs : RunRepo(a) = r})

(* Runs that wait for keys, of whatever processes, never wait in a circle:  *)
(* keys are taken in order (orchestrator/concurrency.py:103).                 *)
LockWaitsEnd ==
  \A waiting \in SUBSET {a \in Actors : step[a] = "lock"} :
    waiting # {} => \E a \in waiting : HoldersOf(RunRepo(a), NextKey(a)) \cap waiting = {}
=============================================================================
