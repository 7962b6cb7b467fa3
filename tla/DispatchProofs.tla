--------------------------- MODULE DispatchProofs ---------------------------
(***************************************************************************)
(* Proofs about Dispatch for any number of watchers, issues, repositories  *)
(* and files, and any limits: slots are the runs, waits for locks go in no *)
(* circle, and a duplicate is always one that its maker could not see;     *)
(* circles of merges and failures beyond the streak come of overlapping    *)
(* triages only, and the caps are passed by less than the actors at work.  *)
(***************************************************************************)
EXTENDS Dispatch, FiniteSetTheorems, WellFoundedInduction, SequenceTheorems, TLAPS

-----------------------------------------------------------------------------
(* What a step may read and what it keeps *)

Rows == [incident : Incidents, state : TaskState, into : Nat]

(* Where an actor has a task in hand, and where it has an alert.            *)
InHand == {"created", "similar", "merge", "judge"} \cup Running
Alerted == {"gate", "create"} \cup InHand

RowsInv ==
  /\ tasks \in Seq(Rows) /\ hourAgo \in 0..Len(tasks)
  /\ overlapped \subseteq SUBSET Tasks

LookInv ==
  /\ open \subseteq Issues /\ local \in [Watchers -> BOOLEAN] /\ received \subseteq open
  /\ step \in [Actors -> Steps] /\ since \in [Actors -> 0..Len(tasks)]
  /\ repo \in [Watchers -> Repos] /\ crashes \in 0..MaxCrashes
  /\ unseen \in [Actors -> SUBSET Issues] /\ candidates \in [Actors -> SUBSET Issues]
  /\ \A i \in open \ received : step[i] = "idle"

(* The task in hand is open, that of the current alert, and nobody else's.  *)
HandInv ==
  /\ alerts \in [Actors -> Seq(Incidents)]
  /\ mine \in [Actors -> 0..Len(tasks)] /\ twin \in [Actors -> 0..Len(tasks)]
  /\ \A a \in Actors :
       /\ step[a] \in InHand <=> mine[a] # 0
       /\ step[a] \in Alerted <=> alerts[a] # << >>
       /\ mine[a] # 0 => Open(mine[a]) /\ tasks[mine[a]].incident = Head(alerts[a])
  /\ \A a, b \in Actors : mine[a] = mine[b] /\ mine[a] # 0 => a = b

(* A run that waits has still something to take, and nothing above it.      *)
KeyInv ==
  /\ wanted \in [Actors -> SUBSET Keys] /\ held \in [Actors -> SUBSET Keys]
  /\ \A a \in Actors :
       /\ step[a] \notin {"lock", "work"} => held[a] = {}
       /\ step[a] = "lock" => wanted[a] # {} /\ \A h \in held[a], k \in wanted[a] : h < k

SlotInv ==
  /\ slots \in [Processes -> [all : 0..GlobalSlots, of : [Repos -> 0..RepoSlots]]]
  /\ SlotsAreTheRuns

DInv == RowsInv /\ LookInv /\ HandInv /\ KeyInv /\ SlotInv

LEMMA DInvTypes == DInv => TypeOK
BY DEF DInv, RowsInv, LookInv, HandInv, KeyInv, SlotInv, TypeOK, Rows

LEMMA ReposOfIncidents ==
  ASSUME NEW i \in Incidents
  PROVE  RepoOfIncident(i) \in Repos
BY DispatchAssumption DEF Incidents, RepoOfIncident

LEMMA Homes ==
  ASSUME NEW a \in Actors
  PROVE  Home(a) \in Processes
BY DEF Home, Processes

LEMMA ActorsAreFinite == IsFiniteSet(Actors)
BY DispatchAssumption, FS_Union DEF Actors, Jobs

(* What a step of an actor leaves to the others.                            *)
Only(a) ==
  \A b \in Actors \ {a} :
    /\ step'[b] = step[b] /\ since'[b] = since[b] /\ alerts'[b] = alerts[b]
    /\ mine'[b] = mine[b] /\ candidates'[b] = candidates[b]
    /\ wanted'[b] = wanted[b] /\ held'[b] = held[b]

(* No task comes or goes; only the one in hand changes, and not what it is  *)
(* about.                                                                   *)
RowsKept(a) ==
  /\ Len(tasks') = Len(tasks)
  /\ \A t \in 1..Len(tasks) :
       /\ tasks'[t].incident = tasks[t].incident
       /\ t # mine[a] => tasks'[t] = tasks[t]

-----------------------------------------------------------------------------
(* The kinds of steps of an actor *)

(* It looks for something to do.                                            *)
LookStep(a) ==
  /\ RowsKept(a) /\ step[a] \notin Alerted /\ step'[a] \in Steps \ Alerted
  /\ mine'[a] = mine[a] /\ alerts'[a] = alerts[a]

(* It gets alerts.                                                          *)
AlertStep(a) ==
  /\ RowsKept(a) /\ step[a] \notin Alerted /\ step'[a] = "gate"
  /\ mine'[a] = mine[a] /\ alerts'[a] \in Seq(Incidents) \ {<< >>}

GateStep(a) ==
  /\ RowsKept(a) /\ step[a] = "gate" /\ step'[a] = "create"
  /\ mine'[a] = mine[a] /\ alerts'[a] = alerts[a]

CreateStep(a) ==
  /\ step[a] = "create" /\ step'[a] = "created" /\ alerts'[a] = alerts[a]
  /\ tasks' = Append(tasks, [incident |-> Head(alerts[a]), state |-> "CREATED", into |-> 0])
  /\ mine'[a] = Len(tasks')

(* It goes on with the task in hand.                                        *)
HandStep(a) ==
  /\ RowsKept(a) /\ step[a] \in InHand /\ step'[a] \in InHand
  /\ mine'[a] = mine[a] /\ alerts'[a] = alerts[a]
  /\ tasks'[mine[a]].state \in NonTerminal

(* It is through with an alert, or with all of them.                        *)
LeaveStep(a) ==
  /\ RowsKept(a) /\ step[a] \in Alerted /\ step'[a] \in {"gate", "idle", "logs", "done"}
  /\ mine'[a] = 0 /\ alerts'[a] \in Seq(Incidents)
  /\ step'[a] = "gate" <=> alerts'[a] # << >>
  /\ \A n \in DOMAIN alerts'[a] : \E m \in DOMAIN alerts[a] : alerts'[a][n] = alerts[a][m]

ActorStep(a) ==
  \/ a \in Watchers /\ (Poll(a) \/ ListFails(a) \/ LogsBreach(a) \/ LogsQuiet(a))
  \/ a \in Issues /\ Deliver(a)
  \/ LookUp(a) \/ CheckAnomalyRate(a) \/ Classify(a) \/ Triage(a) \/ Run(a)

LEMMA StepsOfActors ==
  ASSUME Next
  PROVE  (\E a \in Actors : ActorStep(a)) \/ HourPasses \/ \E p \in Processes : Crash(p)
BY DEF Next, ActorStep, Actors, Jobs

LEMMA Untouched ==
  ASSUME NEW a \in Actors, tasks' = tasks
  PROVE  RowsKept(a)
BY DEF RowsKept

LEMMA RowSet ==
  ASSUME RowsInv, HandInv, NEW a \in Actors, mine[a] # 0, NEW s \in TaskState, SetState(mine[a], s)
  PROVE  /\ RowsKept(a) /\ tasks' \in Seq(Rows)
         /\ tasks'[mine[a]].state = s
<1>1. mine[a] \in 1..Len(tasks)
  BY DEF HandInv, RowsInv
<1>2. tasks[mine[a]] \in Rows
  BY <1>1, ElementOfSeq DEF RowsInv
<1>3. [tasks[mine[a]] EXCEPT !.state = s] \in Rows
  BY <1>2 DEF Rows
<1>4. /\ tasks' = [tasks EXCEPT ![mine[a]] = [tasks[mine[a]] EXCEPT !.state = s]]
  BY DEF SetState
<1>5. tasks' \in Seq(Rows) /\ Len(tasks') = Len(tasks)
  BY <1>1, <1>3, <1>4, ExceptSeq DEF RowsInv
<1>6. /\ tasks'[mine[a]] = [tasks[mine[a]] EXCEPT !.state = s]
      /\ \A t \in 1..Len(tasks) : t # mine[a] => tasks'[t] = tasks[t]
  BY <1>1, <1>4 DEF RowsInv
<1>7. [tasks[mine[a]] EXCEPT !.state = s].incident = tasks[mine[a]].incident
  BY <1>2 DEF Rows
<1>8. tasks'[mine[a]].state = s
  BY <1>2, <1>6 DEF Rows
<1>9. QED
  BY <1>5, <1>6, <1>7, <1>8 DEF RowsKept

LEMMA MineIsATask ==
  ASSUME RowsInv, HandInv, NEW a \in Actors, step[a] \in InHand
  PROVE  /\ mine[a] # 0 /\ mine[a] \in 1..Len(tasks) /\ alerts[a] # << >>
         /\ tasks[mine[a]] \in Rows /\ tasks[mine[a]].state \in NonTerminal
<1>1. mine[a] # 0 /\ mine[a] \in 0..Len(tasks) /\ Open(mine[a])
  BY DEF HandInv
<1>2. mine[a] \in 1..Len(tasks)
  BY <1>1 DEF RowsInv
<1>3. tasks[mine[a]] \in Rows
  BY <1>2, ElementOfSeq DEF RowsInv
<1>4. QED
  BY <1>1, <1>2, <1>3 DEF HandInv, Open, Alerted

LEMMA Leaving ==
  ASSUME LookInv, HandInv, NEW a \in Actors, step[a] \in Alerted, RowsKept(a),
         NEW left \in {Tail(alerts[a]), << >>}, LeaveWith(a, left)
  PROVE  LeaveStep(a)
<1>1. alerts[a] \in Seq(Incidents) /\ alerts[a] # << >>
  BY DEF HandInv
<1>2. /\ left \in Seq(Incidents)
      /\ \A n \in DOMAIN left : \E m \in DOMAIN alerts[a] : left[n] = alerts[a][m]
  <2>1. CASE left = << >>
    BY <2>1
  <2>2. CASE left = Tail(alerts[a])
    <3>1. left \in Seq(Incidents) /\ Len(left) = Len(alerts[a]) - 1
      BY <1>1, <2>2, HeadTailProperties
    <3>2. \A n \in 1..Len(left) : left[n] = alerts[a][n+1] /\ n+1 \in 1..Len(alerts[a])
      BY <1>1, <2>2, <3>1, HeadTailProperties, LenProperties
    <3>3. DOMAIN left = 1..Len(left) /\ DOMAIN alerts[a] = 1..Len(alerts[a])
      BY <1>1, <3>1, LenProperties
    <3>4. QED
      BY <3>1, <3>2, <3>3
  <2>3. QED
    BY <2>1, <2>2
<1>3. Rest(a) \in {"idle", "logs", "done"}
  BY DEF Rest
<1>4. alerts'[a] = left /\ mine'[a] = 0
  BY DEF LeaveWith, HandInv
<1>5. step'[a] = IF left = << >> THEN Rest(a) ELSE "gate"
  BY DEF LeaveWith, Goto, LookInv
<1>6. QED
  BY <1>2, <1>3, <1>4, <1>5 DEF LeaveStep

LEMMA OnlyOne ==
  ASSUME LookInv, HandInv, KeyInv, NEW a \in Actors, ActorStep(a)
  PROVE  Only(a)
<1> USE DEF LookInv, HandInv, KeyInv, Only
<1>1. CASE a \in Watchers /\ (Poll(a) \/ ListFails(a) \/ LogsBreach(a) \/ LogsQuiet(a))
  BY <1>1 DEF Poll, ListFails, LogsBreach, LogsQuiet, Goto, runVars
<1>2. CASE a \in Issues /\ Deliver(a)
  BY <1>2 DEF Deliver, Goto, runVars
<1>3. CASE LookUp(a) \/ CheckAnomalyRate(a) \/ Classify(a)
  BY <1>3 DEF LookUp, CheckAnomalyRate, Classify, Goto, runVars
<1>4. CASE CheckBreakers(a) \/ CreateTask(a) \/ StartTriage(a) \/ FindSimilar(a)
  BY <1>4 DEF CheckBreakers, CreateTask, StartTriage, FindSimilar, NextAlert, LeaveWith, Goto,
              runVars
<1>5. CASE EmbeddingFails(a) \/ MergeIntoExisting(a) \/ StreakTrips(a)
  BY <1>5 DEF EmbeddingFails, MergeIntoExisting, StreakTrips, Abandon, NextAlert, LeaveWith,
              Goto, runVars
<1>6. CASE BelowFloor(a) \/ DetectOnly(a) \/ SlotRefused(a)
  BY <1>6 DEF BelowFloor, DetectOnly, SlotRefused, Abandon, NextAlert, LeaveWith, Goto, runVars
<1>7. CASE TakeSlot(a) \/ Declare(a) \/ TakeLock(a)
  BY <1>7 DEF TakeSlot, Declare, TakeLock, Goto
<1>8. CASE RunEnds(a) \/ RunRaises(a)
  BY <1>8 DEF RunEnds, RunRaises, Abandon, NextAlert, LeaveWith, Goto, ReleaseLocks
<1>9. QED
  BY <1>1, <1>2, <1>3, <1>4, <1>5, <1>6, <1>7, <1>8 DEF ActorStep, Triage, Run

(* The looks and the gate.                                                  *)
LEMMA LookKinds ==
  ASSUME RowsInv, LookInv, HandInv, NEW a \in Actors,
         \/ a \in Watchers /\ (Poll(a) \/ ListFails(a) \/ LogsBreach(a) \/ LogsQuiet(a))
         \/ a \in Issues /\ Deliver(a)
         \/ LookUp(a) \/ CheckAnomalyRate(a) \/ Classify(a)
  PROVE  /\ tasks' = tasks /\ mine' = mine /\ twin' = twin /\ UNCHANGED runVars
         /\ LookStep(a) \/ AlertStep(a)
<1>1. /\ tasks' = tasks /\ mine' = mine /\ twin' = twin /\ UNCHANGED runVars
  BY DEF Poll, ListFails, LogsBreach, LogsQuiet, Deliver, LookUp, CheckAnomalyRate, Classify
<1>2. RowsKept(a)
  BY <1>1, Untouched
<1>3. Rest(a) \in {"idle", "logs", "done"}
  BY DEF Rest
<1> USE DEF Alerted, InHand, Running, Steps
<1>4. CASE a \in Watchers /\ (Poll(a) \/ ListFails(a) \/ LogsQuiet(a))
  BY <1>1, <1>2, <1>4 DEF Poll, ListFails, LogsQuiet, Goto, LookInv, LookStep
<1>5. CASE a \in Issues /\ Deliver(a)
  <2>1. step[a] = "idle"
    BY <1>5 DEF Deliver, LookInv
  <2>2. QED
    BY <1>1, <1>2, <1>5, <2>1 DEF Deliver, Goto, LookInv, LookStep
<1>6. CASE LookUp(a)
  <2>1. step[a] = "look" /\ alerts' = alerts /\ step'[a] \in {"look", "rate", Rest(a)}
    BY <1>6 DEF LookUp, Goto, LookInv
  <2>2. QED
    BY <1>1, <1>2, <1>3, <2>1 DEF LookStep
<1>7. CASE CheckAnomalyRate(a)
  BY <1>1, <1>2, <1>3, <1>7 DEF CheckAnomalyRate, Goto, LookInv, LookStep
<1>8. CASE Classify(a)
  <2>0. PICK n \in 0..MaxAlerts : \E answer \in [1..n -> candidates[a]] :
          /\ alerts' = [alerts EXCEPT ![a] = answer]
          /\ Goto(a, IF n = 0 THEN Rest(a) ELSE "gate")
    BY <1>8 DEF Classify
  <2>1. PICK answer \in [1..n -> candidates[a]] :
          /\ alerts' = [alerts EXCEPT ![a] = answer]
          /\ Goto(a, IF n = 0 THEN Rest(a) ELSE "gate")
    BY <2>0
  <2>2. answer \in Seq(Incidents) /\ Len(answer) = n
    <3>1. MaxAlerts \in Nat /\ candidates[a] \subseteq Issues
      BY DispatchAssumption DEF LookInv
    <3>2. n \in Nat /\ answer \in [1..n -> Incidents]
      BY <2>1, <3>1 DEF Incidents
    <3>3. QED
      BY <3>2, SeqDef
  <2>3. /\ alerts'[a] = answer /\ step[a] = "classify"
        /\ step'[a] = IF n = 0 THEN Rest(a) ELSE "gate"
    BY <1>8, <2>1 DEF Classify, Goto, LookInv, HandInv
  <2>4. CASE n = 0
    <3>1. answer = << >>
      BY <2>2, <2>4, EmptySeq
    <3>2. alerts[a] = << >>
      BY <2>3 DEF HandInv
    <3>3. QED
      BY <1>1, <1>2, <1>3, <2>3, <2>4, <3>1, <3>2 DEF LookStep
  <2>5. CASE n # 0
    BY <1>1, <1>2, <2>2, <2>3, <2>5 DEF AlertStep
  <2>6. QED
    BY <2>4, <2>5
<1>9. CASE a \in Watchers /\ LogsBreach(a)
  <2>1. LogRepo \in Incidents
    BY <1>9 DEF LogsBreach, LookInv, Incidents
  <2>2. alerts'[a] = <<LogRepo>> /\ step[a] = "logs" /\ step'[a] = "gate"
    BY <1>9 DEF LogsBreach, Goto, LookInv, HandInv
  <2>3. QED
    BY <1>1, <1>2, <2>1, <2>2 DEF AlertStep
<1>10. QED
  BY <1>1, <1>4, <1>5, <1>6, <1>7, <1>8, <1>9

KindOf(a) ==
  LookStep(a) \/ AlertStep(a) \/ GateStep(a) \/ CreateStep(a) \/ HandStep(a) \/ LeaveStep(a)

LEMMA StatesOfDispatch ==
  /\ NonTerminal \subseteq TaskState
  /\ {"CREATED", "TRIAGING", "INVESTIGATING", "CODING", "WAITING_FOR_APPROVAL"} \subseteq NonTerminal
  /\ {"FAILED", "NEEDS_HUMAN_INPUT", "CANCELLED", "MERGED_INTO_EXISTING"} \subseteq TaskState
BY DEF NonTerminal, TaskState, TERMINAL_STATES

LEMMA MergeIsARow ==
  ASSUME RowsInv, HandInv, NEW a \in Actors, MergeIntoExisting(a)
  PROVE  RowsKept(a) /\ tasks' \in Seq(Rows)
<1> DEFINE m == mine[a]
           row == [[tasks[m] EXCEPT !.state = "MERGED_INTO_EXISTING"] EXCEPT !.into = twin[a]]
<1>1. m \in 1..Len(tasks) /\ tasks[m] \in Rows
  BY MineIsATask DEF MergeIntoExisting, InHand
<1>2. twin[a] \in Nat
  BY DEF HandInv, RowsInv
<1>3. row \in Rows /\ row.incident = tasks[m].incident
  BY <1>1, <1>2, StatesOfDispatch DEF Rows
<1>4. tasks' = [tasks EXCEPT ![m] = row]
  BY <1>1 DEF MergeIntoExisting, RowsInv
<1> HIDE DEF row
<1>5. tasks' \in Seq(Rows) /\ Len(tasks') = Len(tasks)
  BY <1>1, <1>3, <1>4, ExceptSeq DEF RowsInv
<1>6. tasks'[m] = row /\ \A t \in 1..Len(tasks) : t # m => tasks'[t] = tasks[t]
  BY <1>1, <1>4 DEF RowsInv
<1>7. QED
  BY <1>3, <1>5, <1>6 DEF RowsKept

LEMMA TriageKinds ==
  ASSUME RowsInv, LookInv, HandInv, NEW a \in Actors, Triage(a)
  PROVE  KindOf(a) /\ tasks' \in Seq(Rows) /\ UNCHANGED runVars
<1> USE DEF KindOf
<1>0. UNCHANGED runVars
  BY DEF Triage, CheckBreakers, CreateTask, StartTriage, FindSimilar, EmbeddingFails,
         MergeIntoExisting, StreakTrips, BelowFloor, DetectOnly
<1>1. CASE CheckBreakers(a)
  <2>1. tasks' = tasks /\ RowsKept(a) /\ step[a] = "gate"
    BY <1>1, Untouched DEF CheckBreakers
  <2>2. CASE NextAlert(a)
    BY <1>0, <2>1, <2>2, Leaving DEF NextAlert, Alerted, RowsInv
  <2>3. CASE CostAllows /\ HourAllows
    BY <1>0, <1>1, <2>1, <2>3 DEF CheckBreakers, Goto, GateStep, LookInv, RowsInv
  <2>4. QED
    BY <1>1, <2>2, <2>3 DEF CheckBreakers
<1>2. CASE CreateTask(a)
  <2>1. alerts[a] # << >> /\ alerts[a] \in Seq(Incidents)
    BY <1>2 DEF CreateTask, HandInv, Alerted
  <2>2. [incident |-> Head(alerts[a]), state |-> "CREATED", into |-> 0] \in Rows
    BY <2>1, HeadTailProperties, StatesOfDispatch DEF Rows
  <2>3. tasks' \in Seq(Rows)
    BY <1>2, <2>2, AppendProperties DEF CreateTask, RowsInv
  <2>4. QED
    BY <1>0, <1>2, <2>3 DEF CreateTask, CreateStep, Goto, LookInv, HandInv
<1>3. CASE StartTriage(a)
  <2>1. RowsKept(a) /\ tasks' \in Seq(Rows) /\ tasks'[mine[a]].state = "TRIAGING"
    BY <1>3, MineIsATask, RowSet, StatesOfDispatch DEF StartTriage, InHand
  <2>2. QED
    BY <1>0, <1>3, <2>1, StatesOfDispatch DEF StartTriage, HandStep, Goto, LookInv, InHand
<1>4. CASE FindSimilar(a)
  <2>1. tasks' = tasks /\ RowsKept(a) /\ tasks'[mine[a]].state \in NonTerminal
    BY <1>4, MineIsATask, Untouched DEF FindSimilar, InHand
  <2>2. step[a] = "similar" /\ step'[a] \in {"merge", "judge"} /\ UNCHANGED <<mine, alerts>>
    BY <1>4 DEF FindSimilar, Goto, LookInv
  <2>3. QED
    BY <1>0, <2>1, <2>2 DEF HandStep, InHand, RowsInv
<1>5. CASE EmbeddingFails(a) \/ DetectOnly(a)
  <2>1. tasks' = tasks /\ RowsKept(a) /\ step[a] \in {"similar", "judge"}
    BY <1>5, Untouched DEF EmbeddingFails, DetectOnly
  <2>2. LeaveWith(a, Tail(alerts[a])) \/ LeaveWith(a, << >>)
    BY <1>5 DEF EmbeddingFails, DetectOnly, NextAlert, Abandon
  <2>3. QED
    BY <1>0, <2>1, <2>2, Leaving DEF Alerted, InHand, RowsInv
<1>6. CASE StreakTrips(a) \/ BelowFloor(a)
  <2>1. /\ step[a] = "judge" /\ LeaveWith(a, Tail(alerts[a]))
        /\ \E s \in {"NEEDS_HUMAN_INPUT", "CANCELLED"} : SetState(mine[a], s)
    BY <1>6 DEF StreakTrips, BelowFloor, NextAlert
  <2>2. RowsKept(a) /\ tasks' \in Seq(Rows)
    BY <2>1, MineIsATask, RowSet, StatesOfDispatch DEF InHand
  <2>3. QED
    BY <1>0, <2>1, <2>2, Leaving DEF Alerted, InHand
<1>7. CASE MergeIntoExisting(a)
  BY <1>0, <1>7, MergeIsARow, Leaving DEF MergeIntoExisting, NextAlert, Alerted, InHand
<1>8. QED
  BY <1>1, <1>2, <1>3, <1>4, <1>5, <1>6, <1>7 DEF Triage

LEMMA RunKinds ==
  ASSUME RowsInv, LookInv, HandInv, NEW a \in Actors, Run(a)
  PROVE  KindOf(a) /\ tasks' \in Seq(Rows)
<1> USE DEF KindOf
<1>1. CASE TakeSlot(a)
  <2>1. /\ step[a] = "judge" /\ RowsKept(a) /\ tasks' \in Seq(Rows)
        /\ tasks'[mine[a]].state = "INVESTIGATING"
    BY <1>1, MineIsATask, RowSet, StatesOfDispatch DEF TakeSlot, HandedToRun, InHand
  <2>2. QED
    BY <1>1, <2>1, StatesOfDispatch
       DEF TakeSlot, HandStep, Goto, LookInv, InHand, Running
<1>2. CASE SlotRefused(a)
  BY <1>2, Untouched, Leaving DEF SlotRefused, HandedToRun, Abandon, Alerted, InHand, RowsInv
<1>3. CASE Declare(a)
  <2>1. tasks' = tasks /\ RowsKept(a) /\ tasks'[mine[a]].state \in NonTerminal
    BY <1>3, MineIsATask, Untouched DEF Declare, InHand, Running
  <2>2. QED
    BY <1>3, <2>1 DEF Declare, HandStep, Goto, LookInv, InHand, Running, RowsInv
<1>4. CASE TakeLock(a)
  <2>1. step[a] = "lock" /\ step[a] \in InHand /\ UNCHANGED <<mine, alerts>>
    BY <1>4 DEF TakeLock, InHand, Running
  <2>2. CASE Goto(a, "work") /\ SetState(mine[a], "CODING")
    <3>1. RowsKept(a) /\ tasks' \in Seq(Rows) /\ tasks'[mine[a]].state = "CODING"
      BY <2>1, <2>2, MineIsATask, RowSet, StatesOfDispatch
    <3>2. QED
      BY <2>1, <2>2, <3>1, StatesOfDispatch DEF HandStep, Goto, LookInv, InHand, Running
  <2>3. CASE UNCHANGED <<step, since, tasks>>
    BY <2>1, <2>3, MineIsATask, Untouched DEF HandStep, RowsInv
  <2>4. QED
    BY <1>4, <2>2, <2>3 DEF TakeLock
<1>5. CASE RunEnds(a)
  <2>1. /\ step[a] \in {"work", "run"} /\ LeaveWith(a, Tail(alerts[a]))
        /\ \E s \in {"FAILED", "NEEDS_HUMAN_INPUT", "WAITING_FOR_APPROVAL"} :
             SetState(mine[a], s)
    BY <1>5 DEF RunEnds, NextAlert
  <2>2. RowsKept(a) /\ tasks' \in Seq(Rows)
    BY <2>1, MineIsATask, RowSet, StatesOfDispatch DEF InHand, Running
  <2>3. QED
    BY <2>1, <2>2, Leaving DEF Alerted, InHand, Running
<1>6. CASE RunRaises(a)
  BY <1>6, Untouched, Leaving DEF RunRaises, Abandon, Alerted, InHand, Running, RowsInv
<1>7. QED
  BY <1>1, <1>2, <1>3, <1>4, <1>5, <1>6 DEF Run

LEMMA Kinds ==
  ASSUME RowsInv, LookInv, HandInv, NEW a \in Actors, ActorStep(a)
  PROVE  KindOf(a) /\ tasks' \in Seq(Rows)
<1>1. CASE Triage(a) \/ Run(a)
  BY <1>1, TriageKinds, RunKinds
<1>2. CASE ~(Triage(a) \/ Run(a))
  BY <1>2, LookKinds DEF ActorStep, KindOf, RowsInv
<1>3. QED
  BY <1>1, <1>2

-----------------------------------------------------------------------------
(* Types, and who looks *)

LEMMA ActorFrame ==
  ASSUME NEW a \in Actors, ActorStep(a)
  PROVE  /\ UNCHANGED <<hourAgo, open, local, crashes>>
         /\ overlapped' = overlapped \/ CreateTask(a)
         /\ received' = received \/ (a \in Issues /\ Deliver(a))
<1>1. CASE a \in Watchers /\ (Poll(a) \/ ListFails(a) \/ LogsBreach(a) \/ LogsQuiet(a))
  BY <1>1 DEF Poll, ListFails, LogsBreach, LogsQuiet
<1>2. CASE a \in Issues /\ Deliver(a)
  <2>1. UNCHANGED <<hourAgo, open, local, crashes, overlapped>>
    BY <1>2 DEF Deliver
  <2>2. QED
    BY <1>2, <2>1
<1>3. CASE LookUp(a) \/ CheckAnomalyRate(a) \/ Classify(a)
  BY <1>3 DEF LookUp, CheckAnomalyRate, Classify
<1>4. CASE CreateTask(a)
  <2>1. UNCHANGED <<hourAgo, open, local, crashes, received>>
    BY <1>4 DEF CreateTask
  <2>2. QED
    BY <1>4, <2>1
<1>5. CASE Triage(a) /\ ~CreateTask(a)
  BY <1>5 DEF Triage, CheckBreakers, StartTriage, FindSimilar, EmbeddingFails,
              MergeIntoExisting, StreakTrips, BelowFloor, DetectOnly
<1>6. CASE Run(a)
  BY <1>6 DEF Run, TakeSlot, SlotRefused, Declare, TakeLock, RunEnds, RunRaises
<1>7. QED
  BY <1>1, <1>2, <1>3, <1>4, <1>5, <1>6 DEF ActorStep

LEMMA RowsGrow ==
  ASSUME RowsInv, NEW a \in Actors, KindOf(a), tasks' \in Seq(Rows)
  PROVE  /\ Len(tasks') \in Nat /\ Len(tasks) \in Nat
         /\ Len(tasks') = Len(tasks) \/ (CreateStep(a) /\ Len(tasks') = Len(tasks) + 1)
         /\ DOMAIN tasks = 1..Len(tasks) /\ DOMAIN tasks' = 1..Len(tasks')
<1>1. CASE CreateStep(a)
  BY <1>1, LenProperties, AppendProperties DEF CreateStep, RowsInv
<1>2. CASE RowsKept(a)
  BY <1>2, LenProperties DEF RowsKept, RowsInv
<1>3. QED
  BY <1>1, <1>2 DEF KindOf, LookStep, AlertStep, GateStep, HandStep, LeaveStep

LEMMA ActorKeepsRows ==
  ASSUME RowsInv, LookInv, HandInv, NEW a \in Actors, ActorStep(a)
  PROVE  RowsInv'
<1>1. KindOf(a) /\ tasks' \in Seq(Rows)
  BY Kinds
<1>2. hourAgo' \in 0..Len(tasks')
  BY <1>1, ActorFrame, RowsGrow DEF RowsInv
<1>3. Tasks \subseteq Tasks'
  BY <1>1, RowsGrow DEF Tasks
<1>4. overlapped' \subseteq SUBSET Tasks'
  <2>1. CASE overlapped' = overlapped
    BY <1>3, <2>1 DEF RowsInv
  <2>2. CASE CreateTask(a)
    <3>1. \A b \in Actors : mine[b] # 0 => mine[b] \in Tasks'
      BY <1>1, <1>3, RowsGrow DEF HandInv, Tasks
    <3>2. Len(tasks') \in Tasks'
      <4>1. tasks' = Append(tasks, [incident |-> Head(alerts[a]), state |-> "CREATED", into |-> 0])
        BY <2>2 DEF CreateTask
      <4>2. Len(tasks') = Len(tasks) + 1
        BY <4>1, AppendProperties DEF RowsInv
      <4>3. QED
        BY <1>1, <4>2, RowsGrow DEF Tasks
    <3>3. QED
      BY <1>3, <2>2, <3>1, <3>2 DEF CreateTask, RowsInv
  <2>3. QED
    BY <2>1, <2>2, ActorFrame
<1>5. QED
  BY <1>1, <1>2, <1>4 DEF RowsInv

LEMMA GoesSomewhere ==
  ASSUME NEW a \in Actors, ActorStep(a)
  PROVE  (UNCHANGED <<step, since>>) \/ \E s \in Steps : Goto(a, s)
<1>0. Rest(a) \in {"idle", "logs", "done"}
  BY DEF Rest
<1>1. CASE \/ a \in Watchers /\ (Poll(a) \/ ListFails(a) \/ LogsBreach(a) \/ LogsQuiet(a))
           \/ a \in Issues /\ Deliver(a)
           \/ LookUp(a) \/ CheckAnomalyRate(a) \/ Classify(a)
  BY <1>0, <1>1 DEF Poll, ListFails, LogsBreach, LogsQuiet, Deliver, LookUp,
                    CheckAnomalyRate, Classify, Steps
<1>2. CASE \E left : LeaveWith(a, left)
  BY <1>0, <1>2 DEF LeaveWith, Steps
<1>3. CASE Triage(a)
  BY <1>2, <1>3
     DEF Triage, CheckBreakers, CreateTask, StartTriage, FindSimilar, EmbeddingFails,
         MergeIntoExisting, StreakTrips, BelowFloor, DetectOnly, NextAlert, Abandon, Steps
<1>4. CASE Run(a)
  BY <1>2, <1>4
     DEF Run, TakeSlot, SlotRefused, Declare, TakeLock, RunEnds, RunRaises, NextAlert,
         Abandon, Steps
<1>5. QED
  BY <1>1, <1>3, <1>4 DEF ActorStep

LEMMA ActorKeepsLook ==
  ASSUME RowsInv, LookInv, HandInv, KeyInv, NEW a \in Actors, ActorStep(a)
  PROVE  LookInv'
<1>0. KindOf(a) /\ tasks' \in Seq(Rows) /\ Only(a)
  BY Kinds, OnlyOne
<1>1. /\ open' \subseteq Issues /\ local' \in [Watchers -> BOOLEAN] /\ crashes' \in 0..MaxCrashes
      /\ received \subseteq received' /\ received' \subseteq open'
  BY ActorFrame DEF LookInv, Deliver
<1>2. /\ step' \in [Actors -> Steps]
      /\ since' \in [Actors -> Nat] /\ \A b \in Actors : since'[b] \in 0..Len(tasks)
  <2> USE DEF LookInv
  <2>1. \/ UNCHANGED <<step, since>>
        \/ \E s \in Steps : Goto(a, s)
    BY GoesSomewhere
  <2>2. Len(tasks) \in Nat
    BY DEF RowsInv
  <2>3. QED
    BY <2>1, <2>2 DEF Goto
<1>3. since' \in [Actors -> 0..Len(tasks')]
  BY <1>0, <1>2, RowsGrow
<1>4. /\ repo' \in [Watchers -> Repos]
      /\ unseen' \in [Actors -> SUBSET Issues] /\ candidates' \in [Actors -> SUBSET Issues]
  <2> USE DEF LookInv
  <2>1. CASE \/ a \in Watchers /\ (ListFails(a) \/ LogsBreach(a) \/ LogsQuiet(a))
             \/ CheckAnomalyRate(a) \/ Classify(a)
    BY <2>1 DEF ListFails, LogsBreach, LogsQuiet, CheckAnomalyRate, Classify
  <2>2. CASE a \in Watchers /\ Poll(a)
    BY <2>2 DEF Poll
  <2>3. CASE a \in Issues /\ Deliver(a)
    BY <2>3 DEF Deliver
  <2>4. CASE LookUp(a)
    BY <2>4 DEF LookUp
  <2>5. CASE Triage(a)
    BY <2>5 DEF Triage, CheckBreakers, CreateTask, StartTriage, FindSimilar, EmbeddingFails,
                MergeIntoExisting, StreakTrips, BelowFloor, DetectOnly, NextAlert, Abandon, LeaveWith
  <2>6. CASE Run(a)
    BY <2>6 DEF Run, TakeSlot, SlotRefused, Declare, TakeLock, RunEnds, RunRaises, NextAlert,
                Abandon, LeaveWith
  <2>7. QED
    BY <2>1, <2>2, <2>3, <2>4, <2>5, <2>6 DEF ActorStep
<1>5. ASSUME NEW i \in open' \ received' PROVE step'[i] = "idle"
  <2>1. i \in open \ received /\ step[i] = "idle" /\ i \in Issues /\ i \in Actors
    BY <1>1, ActorFrame DEF LookInv, Actors, Jobs
  <2>2. i # a
    <3>1. SUFFICES ASSUME i = a PROVE FALSE
      OBVIOUS
    <3>2. a \notin Watchers /\ ~Deliver(a)
      BY <1>5, <2>1, <3>1, DispatchAssumption DEF Deliver
    <3>3. LookUp(a) \/ CheckAnomalyRate(a) \/ Classify(a) \/ Triage(a) \/ Run(a)
      BY <3>2 DEF ActorStep
    <3>4. QED
      BY <2>1, <3>1, <3>3
         DEF LookUp, CheckAnomalyRate, Classify, Triage, CheckBreakers, CreateTask, StartTriage,
             FindSimilar, EmbeddingFails, MergeIntoExisting, StreakTrips, BelowFloor,
             DetectOnly, Run, TakeSlot, SlotRefused, HandedToRun, Declare, TakeLock, RunEnds,
             RunRaises
  <2>3. QED
    BY <1>0, <2>1, <2>2 DEF Only
<1>6. QED
  BY <1>1, <1>2, <1>3, <1>4, <1>5 DEF LookInv

-----------------------------------------------------------------------------
(* The task in hand *)

LEMMA HandDomains ==
  ASSUME LookInv, HandInv, NEW a \in Actors, ActorStep(a), Len(tasks) \in Nat
  PROVE  /\ alerts' = [alerts EXCEPT ![a] = alerts'[a]]
         /\ mine' = [mine EXCEPT ![a] = mine'[a]]
         /\ twin' \in [Actors -> 0..Len(tasks)]
<1> USE DEF HandInv
<1>1. CASE a \in Watchers /\ (Poll(a) \/ ListFails(a) \/ LogsBreach(a) \/ LogsQuiet(a))
  BY <1>1 DEF Poll, ListFails, LogsBreach, LogsQuiet
<1>2. CASE \/ a \in Issues /\ Deliver(a)
           \/ LookUp(a) \/ CheckAnomalyRate(a) \/ Classify(a)
  BY <1>2 DEF Deliver, LookUp, CheckAnomalyRate, Classify
<1>0. ASSUME NEW left, LeaveWith(a, left)
      PROVE  /\ alerts' = [alerts EXCEPT ![a] = alerts'[a]]
             /\ mine' = [mine EXCEPT ![a] = mine'[a]]
             /\ twin' \in [Actors -> 0..Len(tasks)]
  BY <1>0 DEF LeaveWith
<1>3. CASE CheckBreakers(a) \/ CreateTask(a) \/ StartTriage(a)
  BY <1>3, <1>0 DEF CheckBreakers, CreateTask, StartTriage, NextAlert
<1>4. CASE FindSimilar(a)
  <2>1. twin' = twin \/ \E t \in Tasks : twin' = [twin EXCEPT ![a] = t]
    BY <1>4 DEF FindSimilar, OtherOpen
  <2>2. Tasks \subseteq 0..Len(tasks)
    BY <1>4 DEF Tasks
  <2>3. QED
    BY <1>4, <2>1, <2>2 DEF FindSimilar
<1>5. CASE \/ EmbeddingFails(a) \/ MergeIntoExisting(a) \/ StreakTrips(a) \/ BelowFloor(a)
           \/ DetectOnly(a)
  BY <1>5, <1>0 DEF EmbeddingFails, MergeIntoExisting, StreakTrips, BelowFloor, DetectOnly,
              NextAlert, Abandon
<1>6. CASE Run(a)
  BY <1>6, <1>0 DEF Run, TakeSlot, SlotRefused, Declare, TakeLock, RunEnds, RunRaises,
                    NextAlert, Abandon
<1>7. QED
  BY <1>1, <1>2, <1>3, <1>4, <1>5, <1>6 DEF ActorStep, Triage

(* Rows change only for the one who has them in hand.                       *)
LEMMA RowsOfOthers ==
  ASSUME RowsInv, NEW a \in Actors, KindOf(a), tasks' \in Seq(Rows), NEW t \in 1..Len(tasks)
  PROVE  tasks'[t].incident = tasks[t].incident /\ (t # mine[a] => tasks'[t] = tasks[t])
<1>1. CASE CreateStep(a)
  <2>1. tasks'[t] = tasks[t]
    BY <1>1, AppendProperties DEF CreateStep, RowsInv
  <2>2. QED
    BY <2>1
<1>2. CASE RowsKept(a)
  BY <1>2 DEF RowsKept
<1>3. QED
  BY <1>1, <1>2 DEF KindOf, LookStep, AlertStep, GateStep, HandStep, LeaveStep

LEMMA ActorKeepsHand ==
  ASSUME RowsInv, LookInv, HandInv, KeyInv, NEW a \in Actors, ActorStep(a)
  PROVE  HandInv'
<1>0. KindOf(a) /\ tasks' \in Seq(Rows) /\ Only(a) /\ RowsInv'
  BY Kinds, OnlyOne, ActorKeepsRows
<1>1. /\ Len(tasks) \in Nat /\ Len(tasks') \in Nat
      /\ Len(tasks') = Len(tasks) \/ (CreateStep(a) /\ Len(tasks') = Len(tasks) + 1)
  BY <1>0, RowsGrow
<1>2. /\ alerts' = [alerts EXCEPT ![a] = alerts'[a]] /\ mine' = [mine EXCEPT ![a] = mine'[a]]
      /\ twin' \in [Actors -> 0..Len(tasks)]
  BY <1>1, HandDomains
<1>3. /\ alerts'[a] \in Seq(Incidents)
      /\ mine'[a] \in {0, mine[a]} \/ (CreateStep(a) /\ mine'[a] = Len(tasks) + 1)
  BY <1>0, <1>1 DEF KindOf, LookStep, AlertStep, GateStep, CreateStep, HandStep, LeaveStep, HandInv
<1>4. /\ alerts' \in [Actors -> Seq(Incidents)] /\ mine' \in [Actors -> 0..Len(tasks')]
      /\ twin' \in [Actors -> 0..Len(tasks')]
  <2>0. 0..Len(tasks) \subseteq 0..Len(tasks')
    BY <1>1
  <2>1. mine'[a] \in 0..Len(tasks')
    <3>1. mine[a] \in 0..Len(tasks)
      BY DEF HandInv
    <3>2. CASE mine'[a] \in {0, mine[a]}
      BY <1>1, <2>0, <3>1, <3>2
    <3>3. CASE CreateStep(a)
      BY <1>1, <3>3 DEF CreateStep
    <3>4. QED
      BY <1>3, <3>2, <3>3
  <2>2. alerts' \in [Actors -> Seq(Incidents)]
    BY <1>2, <1>3 DEF HandInv
  <2>3. mine' \in [Actors -> 0..Len(tasks')]
    BY <1>2, <2>0, <2>1 DEF HandInv
  <2>4. QED
    BY <1>2, <2>0, <2>2, <2>3
<1>5. \A t \in 1..Len(tasks) :
        tasks'[t].incident = tasks[t].incident /\ (t # mine[a] => tasks'[t] = tasks[t])
  BY <1>0, RowsOfOthers
<1>6. ASSUME NEW b \in Actors, b # a
      PROVE  /\ step'[b] \in InHand <=> mine'[b] # 0
             /\ step'[b] \in Alerted <=> alerts'[b] # << >>
             /\ mine'[b] # 0 => /\ tasks'[mine'[b]].state \in NonTerminal
                                /\ tasks'[mine'[b]].incident = Head(alerts'[b])
             /\ mine'[b] = mine'[a] => mine'[b] = 0
  <2>1. step'[b] = step[b] /\ mine'[b] = mine[b] /\ alerts'[b] = alerts[b]
    BY <1>0, <1>6 DEF Only
  <2>2. mine[b] \in 0..Len(tasks) /\ (mine[b] = mine[a] => mine[b] = 0)
    BY <1>6 DEF HandInv
  <2>3. mine[b] # 0 => tasks'[mine[b]] = tasks[mine[b]]
    BY <1>1, <1>5, <2>2
  <2>4. mine'[b] = mine'[a] => mine'[b] = 0
    BY <1>1, <1>3, <2>1, <2>2
  <2>5. QED
    BY <2>1, <2>3, <2>4 DEF HandInv, Open
<1>7. /\ step'[a] \in InHand <=> mine'[a] # 0
      /\ step'[a] \in Alerted <=> alerts'[a] # << >>
      /\ mine'[a] # 0 => /\ tasks'[mine'[a]].state \in NonTerminal
                         /\ tasks'[mine'[a]].incident = Head(alerts'[a])
  <2> USE DEF Alerted, InHand, Running
  <2>0. /\ step[a] \in InHand <=> mine[a] # 0
        /\ step[a] \in Alerted <=> alerts[a] # << >>
        /\ mine[a] # 0 => /\ tasks[mine[a]].state \in NonTerminal
                          /\ tasks[mine[a]].incident = Head(alerts[a])
        /\ mine[a] \in 0..Len(tasks)
    BY DEF HandInv, Open
  <2>1. CASE LookStep(a) \/ AlertStep(a) \/ GateStep(a)
    BY <2>0, <2>1 DEF LookStep, AlertStep, GateStep
  <2>2. CASE CreateStep(a)
    <3>1. /\ tasks'[Len(tasks')] = [incident |-> Head(alerts[a]), state |-> "CREATED", into |-> 0]
          /\ Len(tasks') # 0
      BY <1>1, <2>2, AppendProperties DEF CreateStep, RowsInv
    <3>2. QED
      BY <2>0, <2>2, <3>1, StatesOfDispatch DEF CreateStep
  <2>3. CASE HandStep(a)
    <3>1. tasks'[mine[a]].incident = tasks[mine[a]].incident /\ mine[a] # 0
      BY <1>1, <1>5, <2>0, <2>3 DEF HandStep
    <3>2. QED
      BY <2>0, <2>3, <3>1 DEF HandStep
  <2>4. CASE LeaveStep(a)
    BY <2>0, <2>4 DEF LeaveStep
  <2>5. QED
    BY <1>0, <2>1, <2>2, <2>3, <2>4 DEF KindOf
<1>8. ASSUME NEW b \in Actors, NEW c \in Actors, mine'[b] = mine'[c], mine'[b] # 0
      PROVE  b = c
  <2>1. CASE b = a \/ c = a
    BY <1>6, <1>8, <2>1
  <2>2. CASE b # a /\ c # a
    BY <1>0, <1>8, <2>2 DEF Only, HandInv
  <2>3. QED
    BY <2>1, <2>2
<1>9. \A b \in Actors :
        /\ step'[b] \in InHand <=> mine'[b] # 0
        /\ step'[b] \in Alerted <=> alerts'[b] # << >>
        /\ mine'[b] # 0 => /\ tasks'[mine'[b]].state \in NonTerminal
                           /\ tasks'[mine'[b]].incident = Head(alerts'[b])
  BY <1>6, <1>7
<1>10. QED
  BY <1>4, <1>8, <1>9 DEF HandInv, Open

-----------------------------------------------------------------------------
(* Locks *)

LEMMA LeastOf ==
  ASSUME NEW S \in SUBSET Nat, S # {}
  PROVE  Min(S) \in S /\ \A k \in S : Min(S) <= k
<1>1. PICK m \in S : \A k \in S : ~(<<k, m>> \in OpToRel(<, Nat))
  BY NatLessThanWellFounded, WFMin
<1>2. \A k \in S : m <= k
  <2>1. ASSUME NEW k \in S, k < m PROVE <<k, m>> \in OpToRel(<, Nat)
    <3>1. <<k, m>> \in Nat \X Nat /\ <<k, m>>[1] < <<k, m>>[2]
      BY <2>1
    <3>2. QED
      BY <3>1, Zenon DEF OpToRel
  <2>2. \A k \in S : ~(k < m)
    BY <1>1, <2>1, Zenon
  <2>3. QED
    BY <2>2
<1>3. QED
  BY <1>2 DEF Min

LEMMA KeysAreNumbers == Keys \subseteq Nat /\ Files \subseteq Keys
BY DispatchAssumption DEF Keys

LEMMA NextKeyIsLeast ==
  ASSUME KeyInv, NEW a \in Actors, step[a] = "lock"
  PROVE  NextKey(a) \in wanted[a] /\ \A k \in wanted[a] : NextKey(a) <= k
<1>1. wanted[a] \in SUBSET Nat /\ wanted[a] # {}
  BY KeysAreNumbers DEF KeyInv
<1>2. QED
  BY <1>1, LeastOf DEF NextKey

(* One who neither waits for locks nor holds any, before and after.         *)
LEMMA KeysLeftAlone ==
  ASSUME KeyInv, NEW a \in Actors, UNCHANGED <<wanted, held>>, Only(a),
         step[a] \notin {"lock", "work"}, step'[a] \notin {"lock", "work"}
  PROVE  KeyInv'
BY DEF KeyInv, Only

LEMMA KeysReleased ==
  ASSUME KeyInv, NEW a \in Actors, ReleaseLocks(a), Only(a), step'[a] \notin {"lock", "work"}
  PROVE  KeyInv'
<1>1. held'[a] = {} /\ wanted'[a] = {}
  BY DEF ReleaseLocks, KeyInv
<1>2. wanted' \in [Actors -> SUBSET Keys] /\ held' \in [Actors -> SUBSET Keys]
  BY DEF ReleaseLocks, KeyInv
<1>3. QED
  BY <1>1, <1>2 DEF KeyInv, Only

LEMMA ActorKeepsKeys ==
  ASSUME RowsInv, LookInv, HandInv, KeyInv, NEW a \in Actors, ActorStep(a)
  PROVE  KeyInv'
<1>0. KindOf(a) /\ Only(a) /\ step' \in [Actors -> Steps]
  BY Kinds, OnlyOne, ActorKeepsLook DEF LookInv
<1>1. CASE \/ a \in Watchers /\ (Poll(a) \/ ListFails(a) \/ LogsBreach(a) \/ LogsQuiet(a))
           \/ a \in Issues /\ Deliver(a)
           \/ LookUp(a) \/ CheckAnomalyRate(a) \/ Classify(a)
  <2>1. UNCHANGED <<wanted, held>> /\ (LookStep(a) \/ AlertStep(a))
    BY <1>1, LookKinds DEF runVars
  <2>2. step[a] \notin {"lock", "work"} /\ step'[a] \notin {"lock", "work"}
    BY <2>1 DEF LookStep, AlertStep, Alerted, InHand, Running
  <2>3. QED
    BY <1>0, <2>1, <2>2, KeysLeftAlone
<1>2. CASE Triage(a)
  <2>1. UNCHANGED <<wanted, held>>
    BY <1>2, TriageKinds DEF runVars
  <2>2. step[a] \notin {"lock", "work"}
    BY <1>2 DEF Triage, CheckBreakers, CreateTask, StartTriage, FindSimilar, EmbeddingFails,
                MergeIntoExisting, StreakTrips, BelowFloor, DetectOnly
  <2>3. step'[a] \notin {"lock", "work"}
    <3>1. CASE StartTriage(a) \/ FindSimilar(a)
      BY <3>1 DEF StartTriage, FindSimilar, Goto, LookInv
    <3>2. CASE ~HandStep(a)
      BY <1>0, <3>2
         DEF KindOf, LookStep, AlertStep, GateStep, CreateStep, LeaveStep, Alerted, InHand, Running
    <3>3. CASE HandStep(a) /\ ~(StartTriage(a) \/ FindSimilar(a))
      <4>1. mine[a] # 0 /\ mine'[a] = mine[a] /\ step[a] \in InHand
        BY <3>3 DEF HandStep, HandInv
      <4>2. ~LeaveWith(a, Tail(alerts[a])) /\ ~LeaveWith(a, << >>)
        BY <4>1 DEF LeaveWith, HandInv
      <4>3. QED
        BY <1>2, <3>3, <4>1, <4>2
           DEF Triage, CheckBreakers, CreateTask, EmbeddingFails, MergeIntoExisting,
               StreakTrips, BelowFloor, DetectOnly, NextAlert, Abandon, InHand, Running
    <3>4. QED
      BY <3>1, <3>2, <3>3
  <2>4. QED
    BY <1>0, <2>1, <2>2, <2>3, KeysLeftAlone
<1>3. CASE TakeSlot(a)
  BY <1>0, <1>3, KeysLeftAlone DEF TakeSlot, HandedToRun, Goto, LookInv
<1>4. CASE SlotRefused(a)
  <2>1. step[a] = "judge" /\ LeaveStep(a) /\ UNCHANGED <<wanted, held>>
    BY <1>4, Untouched, Leaving
       DEF SlotRefused, HandedToRun, Abandon, Alerted, InHand, runVars
  <2>2. QED
    BY <1>0, <2>1, KeysLeftAlone DEF LeaveStep
<1>5. CASE Declare(a)
  <2>1. PICK files \in SUBSET Files :
          wanted' = [wanted EXCEPT ![a] = IF files = {} THEN {0} ELSE files]
    BY <1>5 DEF Declare
  <2>2. /\ held' = held /\ step[a] = "run" /\ step'[a] = "lock"
    BY <1>5 DEF Declare, Goto, LookInv
  <2>3. wanted' \in [Actors -> SUBSET Keys] /\ wanted'[a] # {}
    BY <2>1, KeysAreNumbers DEF KeyInv, Keys
  <2>4. held'[a] = {}
    BY <2>2 DEF KeyInv
  <2>5. QED
    BY <1>0, <2>2, <2>3, <2>4 DEF KeyInv, Only
<1>6. CASE TakeLock(a)
  <2> DEFINE k == NextKey(a)
  <2>1. /\ step[a] = "lock" /\ wanted' = [wanted EXCEPT ![a] = @ \ {k}]
        /\ held' = [held EXCEPT ![a] = @ \cup {k}]
        /\ step'[a] \in {"lock", "work"} /\ (step'[a] = "lock" => wanted'[a] # {})
    BY <1>6 DEF TakeLock, Goto, LookInv
  <2>2. k \in wanted[a] /\ k \in Keys /\ \A j \in wanted[a] : k <= j
    BY <2>1, NextKeyIsLeast DEF KeyInv
  <2> HIDE DEF k
  <2>3. wanted' \in [Actors -> SUBSET Keys] /\ held' \in [Actors -> SUBSET Keys]
    BY <2>1, <2>2 DEF KeyInv
  <2>4. \A h \in held'[a], j \in wanted'[a] : h < j
    <3>1. held'[a] = held[a] \cup {k} /\ wanted'[a] = wanted[a] \ {k}
      BY <2>1 DEF KeyInv
    <3>2. wanted[a] \subseteq Nat /\ k \in Nat
      BY <2>2, KeysAreNumbers DEF KeyInv
    <3>3. \A j \in wanted[a] \ {k} : k < j
      BY <2>2, <3>2
    <3>4. QED
      BY <2>1, <3>1, <3>3 DEF KeyInv
  <2>5. QED
    BY <1>0, <2>1, <2>3, <2>4 DEF KeyInv, Only
<1>7. CASE RunEnds(a) \/ RunRaises(a)
  <2>1. ReleaseLocks(a) /\ (LeaveWith(a, Tail(alerts[a])) \/ LeaveWith(a, << >>))
    BY <1>7 DEF RunEnds, RunRaises, NextAlert, Abandon
  <2>2. Rest(a) \notin {"lock", "work"}
    BY DEF Rest
  <2>3. step'[a] \notin {"lock", "work"}
    BY <2>1, <2>2 DEF LeaveWith, Goto, LookInv
  <2>4. QED
    BY <1>0, <2>1, <2>3, KeysReleased
<1>8. QED
  BY <1>1, <1>2, <1>3, <1>4, <1>5, <1>6, <1>7 DEF ActorStep, Run

(* The runs that wait hold keys below the ones they want, so the one that   *)
(* wants the highest waits for none of them.                                *)
LEMMA HighestWaitsForNone ==
  ASSUME KeyInv, NEW waiting \in SUBSET {a \in Actors : step[a] = "lock"}, waiting # {}
  PROVE  \E a \in waiting : HoldersOf(RunRepo(a), NextKey(a)) \cap waiting = {}
<1> DEFINE Above(a) == {b \in waiting : NextKey(a) < NextKey(b)}
           T == {Above(a) : a \in waiting}
<1>1. IsFiniteSet(waiting)
  BY ActorsAreFinite, FS_Subset
<1>2. T \subseteq FiniteSubsetsOf(waiting) /\ T # {}
  <2>1. \A a \in waiting : IsFiniteSet(Above(a))
    BY <1>1, FS_Subset
  <2>2. QED
    BY <2>1 DEF FiniteSubsetsOf
<1> HIDE DEF T
<1>3. PICK A \in T : \A B \in T : ~(<<B, A>> \in StrictSubsetOrdering(waiting))
  BY <1>2, FS_StrictSubsetOrderingWellFounded, WFMin
<1> USE DEF T
<1>4. PICK a \in waiting : A = Above(a)
  OBVIOUS
<1>5. \A b \in waiting : NextKey(b) \in Nat /\ NextKey(b) \in wanted[b]
  BY NextKeyIsLeast, KeysAreNumbers DEF KeyInv
<1>6. ASSUME NEW b \in waiting, NextKey(a) < NextKey(b) PROVE FALSE
  <2>1. Above(b) \subseteq Above(a) /\ b \in Above(a) /\ b \notin Above(b)
    BY <1>5, <1>6
  <2>2. <<Above(b), A>> \in StrictSubsetOrdering(waiting)
    BY <1>4, <2>1 DEF StrictSubsetOrdering
  <2>3. QED
    BY <1>3, <2>2
<1>7. ASSUME NEW b \in HoldersOf(RunRepo(a), NextKey(a)) \cap waiting PROVE FALSE
  <2>1. NextKey(a) \in held[b] /\ b \in waiting /\ step[b] = "lock"
    BY <1>7 DEF HoldersOf
  <2>2. NextKey(a) < NextKey(b)
    BY <1>5, <2>1 DEF KeyInv
  <2>3. QED
    BY <1>6, <2>1, <2>2
<1>8. QED
  BY <1>7

LEMMA KeysEndTheWaits == KeyInv => LockWaitsEnd
BY HighestWaitsForNone DEF LockWaitsEnd

-----------------------------------------------------------------------------
(* Slots *)

RunsOf(p) == {a \in Actors : Home(a) = p /\ step[a] \in Running}
RunsIn(p, r) == {a \in RunsOf(p) : RunRepo(a) = r}

LEMMA SlotsByRuns ==
  SlotsAreTheRuns <=>
    \A p \in Processes : /\ slots[p].all = Cardinality(RunsOf(p))
                         /\ \A r \in Repos : slots[p].of[r] = Cardinality(RunsIn(p, r))
BY DEF SlotsAreTheRuns, RunsOf, RunsIn

LEMMA SlotsByRunsNext ==
  SlotsAreTheRuns' <=>
    \A p \in Processes : /\ slots'[p].all = Cardinality(RunsOf(p)')
                         /\ \A r \in Repos : slots'[p].of[r] = Cardinality(RunsIn(p, r)')
BY DEF SlotsAreTheRuns, RunsOf, RunsIn

LEMMA RunsAreFinite ==
  ASSUME NEW p, NEW r
  PROVE  IsFiniteSet(RunsOf(p)) /\ IsFiniteSet(RunsIn(p, r))
<1>1. RunsOf(p) \in SUBSET Actors /\ RunsIn(p, r) \in SUBSET Actors
  BY DEF RunsOf, RunsIn
<1>2. QED
  BY <1>1, ActorsAreFinite, FS_Subset

LEMMA RepoKept ==
  ASSUME RowsInv, LookInv, HandInv, KeyInv, NEW a \in Actors, ActorStep(a),
         NEW b \in Actors, step[b] \in InHand, mine'[b] = mine[b]
  PROVE  RunRepo(b)' = RunRepo(b) /\ RunRepo(b) \in Repos
<1>1. mine[b] \in 1..Len(tasks) /\ tasks[mine[b]] \in Rows
  BY MineIsATask
<1>2. tasks'[mine[b]].incident = tasks[mine[b]].incident
  BY <1>1, Kinds, RowsOfOthers
<1>3. tasks[mine[b]].incident \in Incidents
  BY <1>1 DEF Rows
<1>4. QED
  BY <1>2, <1>3, ReposOfIncidents DEF RunRepo

LEMMA OthersRun ==
  ASSUME RowsInv, LookInv, HandInv, KeyInv, NEW a \in Actors, ActorStep(a),
         NEW b \in Actors \ {a}, step[b] \in Running
  PROVE  step'[b] \in Running /\ RunRepo(b)' = RunRepo(b)
<1>1. step'[b] = step[b] /\ mine'[b] = mine[b]
  BY OnlyOne DEF Only
<1>2. QED
  BY <1>1, RepoKept DEF InHand

(* The runs of others stay where they are.                                  *)
LEMMA RunsOfOthers ==
  ASSUME RowsInv, LookInv, HandInv, KeyInv, NEW a \in Actors, ActorStep(a), NEW p, NEW r
  PROVE  /\ RunsOf(p)' \ {a} = RunsOf(p) \ {a}
         /\ RunsIn(p, r)' \ {a} = RunsIn(p, r) \ {a}
<1>1. \A b \in Actors \ {a} : step'[b] = step[b]
  BY OnlyOne DEF Only
<1>2. RunsOf(p)' = {b \in Actors : Home(b) = p /\ step'[b] \in Running}
  BY DEF RunsOf
<1>3. RunsOf(p)' \ {a} = RunsOf(p) \ {a}
  BY <1>1, <1>2 DEF RunsOf
<1>4. \A b \in RunsOf(p) \ {a} : RunRepo(b)' = RunRepo(b)
  BY OthersRun DEF RunsOf
<1>5. RunsIn(p, r)' = {b \in RunsOf(p)' : RunRepo(b)' = r}
  BY DEF RunsIn
<1>6. QED
  BY <1>3, <1>4, <1>5 DEF RunsIn

LEMMA SlotsLeftAlone ==
  ASSUME RowsInv, LookInv, HandInv, KeyInv, SlotInv, NEW a \in Actors, ActorStep(a),
         slots' = slots, step[a] \in Running <=> step'[a] \in Running,
         step[a] \in Running => mine'[a] = mine[a]
  PROVE  SlotInv'
<1>1. step[a] \in Running => RunRepo(a)' = RunRepo(a)
  BY RepoKept DEF InHand
<1>2. ASSUME NEW p, NEW r
      PROVE  RunsOf(p)' = RunsOf(p) /\ RunsIn(p, r)' = RunsIn(p, r)
  <2>1. RunsOf(p)' \ {a} = RunsOf(p) \ {a} /\ RunsIn(p, r)' \ {a} = RunsIn(p, r) \ {a}
    BY RunsOfOthers
  <2>2. a \in RunsOf(p)' <=> a \in RunsOf(p)
    BY DEF RunsOf
  <2>3. a \in RunsIn(p, r)' <=> a \in RunsIn(p, r)
    BY <1>1, <2>2 DEF RunsIn, RunsOf
  <2>4. QED
    BY <2>1, <2>2, <2>3
<1>3. SlotsAreTheRuns'
  BY <1>2, SlotsByRuns, SlotsByRunsNext DEF SlotInv
<1>4. QED
  BY <1>3 DEF SlotInv

LEMMA SlotTaken ==
  ASSUME RowsInv, LookInv, HandInv, KeyInv, SlotInv, NEW a \in Actors, TakeSlot(a)
  PROVE  SlotInv'
<1> DEFINE h == Home(a)
           q == RunRepo(a)
<1>0. ActorStep(a)
  BY DEF ActorStep, Run
<1>1. /\ step[a] = "judge" /\ step'[a] = "run" /\ mine' = mine
      /\ slots[h].all < GlobalSlots /\ slots[h].of[q] < RepoSlots
      /\ slots' = [slots EXCEPT ![h].all = @ + 1, ![h].of[q] = @ + 1]
  BY DEF TakeSlot, HandedToRun, Goto, LookInv, SlotFree
<1>2. q \in Repos /\ RunRepo(a)' = q /\ h \in Processes
  BY <1>0, <1>1, RepoKept, Homes DEF InHand
<1> HIDE DEF h, q
<1>3. /\ slots' \in [Processes -> [all : 0..GlobalSlots, of : [Repos -> 0..RepoSlots]]]
      /\ slots'[h].all = slots[h].all + 1
      /\ \A r \in Repos : slots'[h].of[r] = IF r = q THEN slots[h].of[r] + 1 ELSE slots[h].of[r]
      /\ \A p \in Processes \ {h} : slots'[p] = slots[p]
  <2> DEFINE old == slots[h]
             new == [[old EXCEPT !.all = @ + 1] EXCEPT !.of[q] = @ + 1]
  <2>0. GlobalSlots \in Nat /\ RepoSlots \in Nat
    BY DispatchAssumption
  <2>1. old \in [all : 0..GlobalSlots, of : [Repos -> 0..RepoSlots]]
    BY <1>2 DEF SlotInv
  <2>2. old.of \in [Repos -> 0..RepoSlots] /\ old.all \in 0..GlobalSlots
    BY <2>1
  <2>3. new = [all |-> old.all + 1, of |-> [old.of EXCEPT ![q] = @ + 1]]
    <3>1. [old EXCEPT !.all = @ + 1] = [all |-> old.all + 1, of |-> old.of]
      BY <2>1
    <3>2. \A n, f : [[all |-> n, of |-> f] EXCEPT !.of[q] = @ + 1]
                     = [all |-> n, of |-> [f EXCEPT ![q] = @ + 1]]
      OBVIOUS
    <3>3. QED
      BY <3>1, <3>2
  <2>4. slots' = [slots EXCEPT ![h] = new]
    BY <1>1, <1>2 DEF SlotInv
  <2>5. old.all + 1 \in 0..GlobalSlots /\ old.of[q] + 1 \in 0..RepoSlots
    BY <1>1, <1>2, <2>0, <2>2
  <2>6. new \in [all : 0..GlobalSlots, of : [Repos -> 0..RepoSlots]]
    BY <1>2, <2>2, <2>3, <2>5
  <2>7. slots'[h] = new
    BY <1>2, <2>4 DEF SlotInv
  <2> HIDE DEF new
  <2>8. /\ slots' \in [Processes -> [all : 0..GlobalSlots, of : [Repos -> 0..RepoSlots]]]
        /\ \A p \in Processes \ {h} : slots'[p] = slots[p]
    BY <2>4, <2>6 DEF SlotInv
  <2>9. QED
    BY <1>2, <2>2, <2>3, <2>7, <2>8
<1>4. ASSUME NEW p \in Processes
      PROVE  /\ slots'[p].all = Cardinality(RunsOf(p)')
             /\ \A r \in Repos : slots'[p].of[r] = Cardinality(RunsIn(p, r)')
  <2>1. a \notin RunsOf(p) /\ (a \in RunsOf(p)' <=> p = h)
    BY <1>1 DEF RunsOf, Running, h
  <2>2. /\ slots[p].all = Cardinality(RunsOf(p))
        /\ \A r \in Repos : slots[p].of[r] = Cardinality(RunsIn(p, r))
    BY SlotsByRuns DEF SlotInv
  <2>3. RunsOf(p)' = IF p = h THEN RunsOf(p) \cup {a} ELSE RunsOf(p)
    BY <1>0, <2>1, RunsOfOthers
  <2>4. ASSUME NEW r \in Repos
        PROVE  RunsIn(p, r)' = IF p = h /\ r = q THEN RunsIn(p, r) \cup {a} ELSE RunsIn(p, r)
    <3>1. RunsIn(p, r)' \ {a} = RunsIn(p, r) \ {a}
      BY <1>0, RunsOfOthers
    <3>2. a \notin RunsIn(p, r) /\ (a \in RunsIn(p, r)' <=> p = h /\ r = q)
      BY <1>2, <2>1 DEF RunsIn
    <3>3. QED
      BY <3>1, <3>2
  <2>5. a \notin RunsOf(p) /\ \A r \in Repos : a \notin RunsIn(p, r)
    BY <2>1 DEF RunsIn
  <2>6. slots'[p].all = Cardinality(RunsOf(p)')
    <3>1. IsFiniteSet(RunsOf(p))
      BY RunsAreFinite
    <3>2. Cardinality(RunsOf(p) \cup {a}) = Cardinality(RunsOf(p)) + 1
      BY <2>5, <3>1, FS_AddElement
    <3>3. QED
      BY <1>3, <2>2, <2>3, <3>2
  <2>7. ASSUME NEW r \in Repos PROVE slots'[p].of[r] = Cardinality(RunsIn(p, r)')
    <3>1. IsFiniteSet(RunsIn(p, r))
      BY RunsAreFinite
    <3>2. Cardinality(RunsIn(p, r) \cup {a}) = Cardinality(RunsIn(p, r)) + 1
      BY <2>5, <3>1, FS_AddElement
    <3>3. CASE p = h /\ r = q
      <4>1. slots'[p].of[r] = slots[p].of[r] + 1
        BY <1>3, <3>3
      <4>2. RunsIn(p, r)' = RunsIn(p, r) \cup {a}
        BY <2>4, <3>3
      <4>3. QED
        BY <2>2, <3>2, <4>1, <4>2
    <3>4. CASE p # h \/ r # q
      <4>1. slots'[p].of[r] = slots[p].of[r]
        BY <1>3, <3>4
      <4>2. RunsIn(p, r)' = RunsIn(p, r)
        BY <2>4, <3>4
      <4>3. QED
        BY <2>2, <4>1, <4>2
    <3>5. QED
      BY <3>3, <3>4
  <2>8. QED
    BY <2>6, <2>7
<1>5. QED
  BY <1>3, <1>4, SlotsByRunsNext DEF SlotInv

LEMMA SlotGivenBack ==
  ASSUME RowsInv, LookInv, HandInv, KeyInv, SlotInv, NEW a \in Actors, ActorStep(a),
         step[a] \in Running, step'[a] \notin Running, GiveSlotBack(a)
  PROVE  SlotInv'
<1> DEFINE h == Home(a)
           q == RunRepo(a)
<1>1. slots' = [slots EXCEPT ![h].all = @ - 1, ![h].of[q] = @ - 1]
  BY DEF GiveSlotBack
<1>2. q \in Repos /\ h \in Processes
  <2>1. mine[a] \in 1..Len(tasks) /\ tasks[mine[a]] \in Rows
    BY MineIsATask DEF InHand
  <2>2. QED
    BY <2>1, ReposOfIncidents, Homes DEF RunRepo, Rows
<1>3. a \in RunsOf(h) /\ a \in RunsIn(h, q)
  BY DEF RunsOf, RunsIn
<1> HIDE DEF h, q
<1>4. /\ IsFiniteSet(RunsOf(h)) /\ IsFiniteSet(RunsIn(h, q))
      /\ slots[h].all = Cardinality(RunsOf(h)) /\ slots[h].of[q] = Cardinality(RunsIn(h, q))
  BY <1>2, RunsAreFinite, SlotsByRuns DEF SlotInv
<1>5. /\ Cardinality(RunsOf(h) \ {a}) = slots[h].all - 1
      /\ Cardinality(RunsIn(h, q) \ {a}) = slots[h].of[q] - 1
      /\ Cardinality(RunsOf(h) \ {a}) \in Nat /\ Cardinality(RunsIn(h, q) \ {a}) \in Nat
  BY <1>3, <1>4, FS_RemoveElement, FS_CardinalityType
<1>6. /\ slots' \in [Processes -> [all : 0..GlobalSlots, of : [Repos -> 0..RepoSlots]]]
      /\ slots'[h].all = slots[h].all - 1
      /\ \A r \in Repos : slots'[h].of[r] = IF r = q THEN slots[h].of[r] - 1 ELSE slots[h].of[r]
      /\ \A p \in Processes \ {h} : slots'[p] = slots[p]
  <2> DEFINE old == slots[h]
             new == [[old EXCEPT !.all = @ - 1] EXCEPT !.of[q] = @ - 1]
  <2>0. GlobalSlots \in Nat /\ RepoSlots \in Nat
    BY DispatchAssumption
  <2>1. old \in [all : 0..GlobalSlots, of : [Repos -> 0..RepoSlots]]
    BY <1>2 DEF SlotInv
  <2>2. old.of \in [Repos -> 0..RepoSlots] /\ old.all \in 0..GlobalSlots
    BY <2>1
  <2>3. new = [all |-> old.all - 1, of |-> [old.of EXCEPT ![q] = @ - 1]]
    <3>1. [old EXCEPT !.all = @ - 1] = [all |-> old.all - 1, of |-> old.of]
      BY <2>1
    <3>2. \A n, f : [[all |-> n, of |-> f] EXCEPT !.of[q] = @ - 1]
                     = [all |-> n, of |-> [f EXCEPT ![q] = @ - 1]]
      OBVIOUS
    <3>3. QED
      BY <3>1, <3>2
  <2>4. slots' = [slots EXCEPT ![h] = new]
    BY <1>1, <1>2 DEF SlotInv
  <2>5. old.all - 1 \in 0..GlobalSlots /\ old.of[q] - 1 \in 0..RepoSlots
    BY <1>2, <1>5, <2>0, <2>2
  <2>6. new \in [all : 0..GlobalSlots, of : [Repos -> 0..RepoSlots]]
    BY <1>2, <2>2, <2>3, <2>5
  <2>7. slots'[h] = new
    BY <1>2, <2>4 DEF SlotInv
  <2> HIDE DEF new
  <2>8. /\ slots' \in [Processes -> [all : 0..GlobalSlots, of : [Repos -> 0..RepoSlots]]]
        /\ \A p \in Processes \ {h} : slots'[p] = slots[p]
    BY <2>4, <2>6 DEF SlotInv
  <2>9. QED
    BY <1>2, <2>2, <2>3, <2>7, <2>8
<1>7. ASSUME NEW p \in Processes
      PROVE  /\ slots'[p].all = Cardinality(RunsOf(p)')
             /\ \A r \in Repos : slots'[p].of[r] = Cardinality(RunsIn(p, r)')
  <2>1. a \notin RunsOf(p)' /\ (a \in RunsOf(p) <=> p = h)
    BY DEF RunsOf, h
  <2>2. /\ slots[p].all = Cardinality(RunsOf(p))
        /\ \A r \in Repos : slots[p].of[r] = Cardinality(RunsIn(p, r))
    BY SlotsByRuns DEF SlotInv
  <2>3. RunsOf(p)' = IF p = h THEN RunsOf(p) \ {a} ELSE RunsOf(p)
    BY <2>1, RunsOfOthers
  <2>4. ASSUME NEW r \in Repos
        PROVE  RunsIn(p, r)' = IF p = h /\ r = q THEN RunsIn(p, r) \ {a} ELSE RunsIn(p, r)
    <3>1. RunsIn(p, r)' \ {a} = RunsIn(p, r) \ {a}
      BY RunsOfOthers
    <3>2. a \notin RunsIn(p, r)' /\ (a \in RunsIn(p, r) <=> p = h /\ r = q)
      BY <2>1 DEF RunsIn, q
    <3>3. QED
      BY <3>1, <3>2
  <2>5. slots'[p].all = Cardinality(RunsOf(p)')
    BY <1>5, <1>6, <2>2, <2>3
  <2>6. ASSUME NEW r \in Repos PROVE slots'[p].of[r] = Cardinality(RunsIn(p, r)')
    <3>1. CASE p = h /\ r = q
      <4>1. slots'[h].of[q] = slots[h].of[q] - 1
        BY <1>2, <1>6
      <4>2. RunsIn(p, r)' = RunsIn(h, q) \ {a}
        BY <2>4, <3>1
      <4>3. QED
        BY <1>5, <3>1, <4>1, <4>2
    <3>2. CASE ~(p = h /\ r = q)
      BY <1>6, <2>2, <2>4, <3>2
    <3>3. QED
      BY <3>1, <3>2
  <2>7. QED
    BY <2>5, <2>6
<1>8. QED
  BY <1>6, <1>7, SlotsByRunsNext DEF SlotInv

LEMMA ActorKeepsSlots ==
  ASSUME RowsInv, LookInv, HandInv, KeyInv, SlotInv, NEW a \in Actors, ActorStep(a)
  PROVE  SlotInv'
<1>0. KindOf(a)
  BY Kinds
<1>1. CASE \/ a \in Watchers /\ (Poll(a) \/ ListFails(a) \/ LogsBreach(a) \/ LogsQuiet(a))
           \/ a \in Issues /\ Deliver(a)
           \/ LookUp(a) \/ CheckAnomalyRate(a) \/ Classify(a)
  <2>1. slots' = slots /\ (LookStep(a) \/ AlertStep(a))
    BY <1>1, LookKinds DEF runVars
  <2>2. step[a] \notin Running /\ step'[a] \notin Running
    BY <2>1 DEF LookStep, AlertStep, Alerted, InHand, Running
  <2>3. QED
    BY <2>1, <2>2, SlotsLeftAlone
<1>2. CASE Triage(a)
  <2>1. slots' = slots
    BY <1>2, TriageKinds DEF runVars
  <2>2. step[a] \notin Running
    BY <1>2 DEF Triage, CheckBreakers, CreateTask, StartTriage, FindSimilar, EmbeddingFails,
                MergeIntoExisting, StreakTrips, BelowFloor, DetectOnly, Running
  <2>3. step'[a] \notin Running
    <3>1. CASE StartTriage(a) \/ FindSimilar(a) \/ CreateTask(a)
      BY <3>1 DEF StartTriage, FindSimilar, CreateTask, Goto, LookInv, Running
    <3>2. CASE CheckBreakers(a) /\ Goto(a, "create")
      BY <3>2 DEF Goto, LookInv, Running
    <3>3. CASE \E left : LeaveWith(a, left)
      <4>1. Rest(a) \notin Running
        BY DEF Rest, Running
      <4>2. QED
        BY <3>3, <4>1 DEF LeaveWith, Goto, LookInv, Running
    <3>4. QED
      BY <1>2, <3>1, <3>2, <3>3
         DEF Triage, CheckBreakers, EmbeddingFails, MergeIntoExisting, StreakTrips, BelowFloor,
             DetectOnly, NextAlert, Abandon
  <2>4. QED
    BY <2>1, <2>2, <2>3, SlotsLeftAlone
<1>3. CASE TakeSlot(a)
  BY <1>3, SlotTaken
<1>4. CASE SlotRefused(a)
  <2>1. step[a] = "judge" /\ LeaveStep(a) /\ slots' = slots
    BY <1>4, Untouched, Leaving
       DEF SlotRefused, HandedToRun, Abandon, Alerted, InHand, runVars
  <2>2. QED
    BY <2>1, SlotsLeftAlone DEF LeaveStep, Running
<1>5. CASE Declare(a) \/ TakeLock(a)
  <2>1. /\ slots' = slots /\ mine' = mine /\ step[a] \in Running /\ step'[a] \in Running
    BY <1>5 DEF Declare, TakeLock, Goto, LookInv, Running
  <2>2. QED
    BY <2>1, SlotsLeftAlone
<1>6. CASE RunEnds(a) \/ RunRaises(a)
  <2>1. /\ GiveSlotBack(a) /\ step[a] \in Running
        /\ LeaveWith(a, Tail(alerts[a])) \/ LeaveWith(a, << >>)
    BY <1>6 DEF RunEnds, RunRaises, NextAlert, Abandon, Running
  <2>2. Rest(a) \notin Running
    BY DEF Rest, Running
  <2>3. step'[a] \notin Running
    BY <2>1, <2>2 DEF LeaveWith, Goto, LookInv, Running
  <2>4. QED
    BY <2>1, <2>3, SlotGivenBack
<1>7. QED
  BY <1>1, <1>2, <1>3, <1>4, <1>5, <1>6 DEF ActorStep, Run

-----------------------------------------------------------------------------
(* Crashes, time, and the whole *)

LEMMA CrashKeepsDInv ==
  ASSUME DInv, NEW p \in Processes, Crash(p)
  PROVE  DInv'
<1> DEFINE dead == {a \in Actors : Home(a) = p /\ step[a] \notin {"idle", "done"}}
<1>0. /\ dead \subseteq Actors /\ crashes' = crashes + 1 /\ crashes < MaxCrashes
      /\ step' = [a \in Actors |-> IF a \notin dead THEN step[a]
                                   ELSE IF a \in Jobs THEN "done" ELSE "idle"]
      /\ unseen' = [a \in Actors |-> IF a \in dead THEN {} ELSE unseen[a]]
      /\ candidates' = [a \in Actors |-> IF a \in dead THEN {} ELSE candidates[a]]
      /\ alerts' = [a \in Actors |-> IF a \in dead THEN << >> ELSE alerts[a]]
      /\ mine' = [a \in Actors |-> IF a \in dead THEN 0 ELSE mine[a]]
      /\ twin' = [a \in Actors |-> IF a \in dead THEN 0 ELSE twin[a]]
      /\ since' = [a \in Actors |-> IF a \in dead THEN 0 ELSE since[a]]
      /\ slots' = [slots EXCEPT ![p] = NoSlots]
      /\ wanted' = [a \in Actors |-> IF a \in dead THEN {} ELSE wanted[a]]
      /\ held' = [a \in Actors |-> IF a \in dead THEN {} ELSE held[a]]
      /\ UNCHANGED <<tasks, hourAgo, open, local, received, repo, overlapped>>
  BY DEF Crash
<1>1. \A a \in dead : step[a] \notin {"idle", "done"} /\ Home(a) = p
  OBVIOUS
<1>2. \A a \in Actors \ dead : Home(a) = p => step[a] \in {"idle", "done"}
  OBVIOUS
<1> HIDE DEF dead
<1>3. Len(tasks) \in Nat /\ MaxCrashes \in Nat
  BY DispatchAssumption DEF DInv, RowsInv
<1>4. RowsInv'
  BY <1>0 DEF DInv, RowsInv, Tasks
<1>5. LookInv'
  <2>1. since' \in [Actors -> 0..Len(tasks')] /\ crashes' \in 0..MaxCrashes
    BY <1>0, <1>3 DEF DInv, LookInv
  <2>2. step' \in [Actors -> Steps]
    BY <1>0 DEF DInv, LookInv, Steps
  <2>3. \A i \in open \ received : step'[i] = "idle"
    <3>1. \A i \in open \ received : i \in Actors /\ step[i] = "idle" /\ i \notin dead
      BY <1>1 DEF DInv, LookInv, Actors, Jobs
    <3>2. QED
      BY <1>0, <3>1
  <2>4. QED
    BY <1>0, <2>1, <2>2, <2>3 DEF DInv, LookInv
<1>6. HandInv'
  <2>1. /\ mine' \in [Actors -> 0..Len(tasks')] /\ twin' \in [Actors -> 0..Len(tasks')]
    BY <1>0, <1>3 DEF DInv, HandInv
  <2>2. alerts' \in [Actors -> Seq(Incidents)]
    BY <1>0, EmptySeq DEF DInv, HandInv
  <2>3. ASSUME NEW a \in Actors
        PROVE  /\ step'[a] \in InHand <=> mine'[a] # 0
               /\ step'[a] \in Alerted <=> alerts'[a] # << >>
               /\ mine'[a] # 0 => /\ tasks[mine'[a]].state \in NonTerminal
                                  /\ tasks[mine'[a]].incident = Head(alerts'[a])
    <3>1. CASE a \in dead
      BY <1>0, <3>1 DEF InHand, Alerted, Running
    <3>2. CASE a \notin dead
      BY <1>0, <3>2 DEF DInv, HandInv, Open
    <3>3. QED
      BY <3>1, <3>2
  <2>4. \A a, b \in Actors : mine'[a] = mine'[b] /\ mine'[a] # 0 => a = b
    BY <1>0 DEF DInv, HandInv
  <2>5. QED
    BY <1>0, <2>1, <2>2, <2>3, <2>4 DEF HandInv, Open
<1>7. KeyInv'
  <2>1. wanted' \in [Actors -> SUBSET Keys] /\ held' \in [Actors -> SUBSET Keys]
    BY <1>0 DEF DInv, KeyInv
  <2>2. ASSUME NEW a \in Actors
        PROVE  /\ step'[a] \notin {"lock", "work"} => held'[a] = {}
               /\ step'[a] = "lock" =>
                    wanted'[a] # {} /\ \A h \in held'[a], k \in wanted'[a] : h < k
    <3>1. CASE a \in dead
      BY <1>0, <3>1
    <3>2. CASE a \notin dead
      BY <1>0, <3>2 DEF DInv, KeyInv
    <3>3. QED
      BY <3>1, <3>2
  <2>3. QED
    BY <2>1, <2>2 DEF KeyInv
<1>8. SlotInv'
  <2>0. NoSlots \in [all : 0..GlobalSlots, of : [Repos -> 0..RepoSlots]]
    BY DispatchAssumption DEF NoSlots
  <2>1. slots' \in [Processes -> [all : 0..GlobalSlots, of : [Repos -> 0..RepoSlots]]]
    BY <1>0, <2>0 DEF DInv, SlotInv
  <2>2. RunsOf(p)' = {} /\ \A r \in Repos : RunsIn(p, r)' = {}
    <3>1. \A a \in Actors : Home(a) = p => step'[a] \notin Running
      BY <1>0, <1>2 DEF Running
    <3>2. QED
      BY <3>1 DEF RunsOf, RunsIn
  <2>3. ASSUME NEW s \in Processes \ {p}
        PROVE  RunsOf(s)' = RunsOf(s) /\ \A r \in Repos : RunsIn(s, r)' = RunsIn(s, r)
    <3>1. \A a \in Actors : Home(a) = s => a \notin dead /\ step'[a] = step[a] /\ mine'[a] = mine[a]
      BY <1>0, <1>1
    <3>2. RunsOf(s)' = RunsOf(s)
      BY <3>1 DEF RunsOf
    <3>3. \A a \in RunsOf(s) : RunRepo(a)' = RunRepo(a)
      BY <1>0, <3>1 DEF RunsOf, RunRepo
    <3>4. QED
      BY <3>2, <3>3 DEF RunsIn
  <2>4. SlotsAreTheRuns'
    <3>1. slots'[p] = NoSlots /\ \A s \in Processes \ {p} : slots'[s] = slots[s]
      BY <1>0 DEF DInv, SlotInv
    <3>2. /\ slots'[p].all = Cardinality(RunsOf(p)')
          /\ \A r \in Repos : slots'[p].of[r] = Cardinality(RunsIn(p, r)')
      BY <2>2, <3>1, FS_EmptySet DEF NoSlots
    <3>3. ASSUME NEW s \in Processes \ {p}
          PROVE  /\ slots'[s].all = Cardinality(RunsOf(s)')
                 /\ \A r \in Repos : slots'[s].of[r] = Cardinality(RunsIn(s, r)')
      BY <2>3, <3>1, SlotsByRuns DEF DInv, SlotInv
    <3>4. QED
      BY <3>2, <3>3, SlotsByRunsNext
  <2>5. QED
    BY <2>1, <2>4 DEF SlotInv
<1>9. QED
  BY <1>4, <1>5, <1>6, <1>7, <1>8 DEF DInv

LEMMA InitDInv == Init => DInv
<1> SUFFICES ASSUME Init PROVE DInv
  OBVIOUS
<1>1. \A a \in Actors : step[a] \in {"idle", "done"}
  BY DEF Init
<1>2. tasks = << >> /\ Len(tasks) = 0 /\ Tasks = {}
  BY DEF Init, Tasks
<1>3. RowsInv
  BY <1>2, EmptySeq DEF Init, RowsInv
<1>4. LookInv
  <2>1. step \in [Actors -> Steps] /\ crashes \in 0..MaxCrashes
    BY DispatchAssumption DEF Init, Steps
  <2>2. QED
    BY <1>2, <2>1 DEF Init, LookInv
<1>5. HandInv
  <2>1. alerts \in [Actors -> Seq(Incidents)] /\ \A a \in Actors : alerts[a] = << >> /\ mine[a] = 0
    BY EmptySeq DEF Init
  <2>2. mine \in [Actors -> 0..Len(tasks)] /\ twin \in [Actors -> 0..Len(tasks)]
    BY <1>2 DEF Init
  <2>3. QED
    BY <1>1, <2>1, <2>2 DEF HandInv, InHand, Alerted, Running
<1>6. KeyInv
  BY <1>1 DEF Init, KeyInv
<1>7. SlotInv
  <2>1. slots \in [Processes -> [all : 0..GlobalSlots, of : [Repos -> 0..RepoSlots]]]
    BY DispatchAssumption DEF Init, NoSlots
  <2>2. \A q \in Processes : RunsOf(q) = {} /\ \A r \in Repos : RunsIn(q, r) = {}
    BY <1>1 DEF RunsOf, RunsIn, Running
  <2>3. SlotsAreTheRuns
    BY <2>2, FS_EmptySet, SlotsByRuns DEF Init, NoSlots
  <2>4. QED
    BY <2>1, <2>3 DEF SlotInv
<1>8. QED
  BY <1>3, <1>4, <1>5, <1>6, <1>7 DEF DInv

LEMMA StepKeepsDInv == DInv /\ [Next]_vars => DInv'
<1> SUFFICES ASSUME DInv, [Next]_vars PROVE DInv'
  OBVIOUS
<1>1. ASSUME NEW a \in Actors, ActorStep(a) PROVE DInv'
  BY <1>1, ActorKeepsRows, ActorKeepsLook, ActorKeepsHand, ActorKeepsKeys, ActorKeepsSlots
     DEF DInv
<1>2. CASE HourPasses
  <2>1. RowsInv'
    <3>1. Len(tasks) \in Nat
      BY DEF DInv, RowsInv
    <3>2. QED
      BY <1>2, <3>1 DEF HourPasses, DInv, RowsInv, Tasks
  <2>2. LookInv' /\ HandInv' /\ KeyInv'
    BY <1>2 DEF HourPasses, DInv, LookInv, HandInv, KeyInv, actorVars, runVars, Open
  <2>3. SlotInv'
    BY <1>2 DEF HourPasses, DInv, SlotInv, SlotsAreTheRuns, RunRepo, actorVars, runVars
  <2>4. QED
    BY <2>1, <2>2, <2>3 DEF DInv
<1>3. CASE UNCHANGED vars
  <2>1. RowsInv' /\ LookInv' /\ HandInv' /\ KeyInv'
    BY <1>3 DEF vars, DInv, RowsInv, LookInv, HandInv, KeyInv, actorVars, runVars, Open, Tasks
  <2>2. SlotInv'
    BY <1>3 DEF vars, DInv, SlotInv, SlotsAreTheRuns, RunRepo, actorVars, runVars
  <2>3. QED
    BY <2>1, <2>2 DEF DInv
<1>4. QED
  BY <1>1, <1>2, <1>3, StepsOfActors, CrashKeepsDInv

-----------------------------------------------------------------------------
(* Duplicates *)

Seeking(a, i) ==
  \/ step[a] \in {"look", "rate", "classify"} /\ i \in candidates[a]
  \/ \E n \in DOMAIN alerts[a] : alerts[a][n] = i

(* What an actor is about to make a task for had no open one when it began  *)
(* to look, and what has ended stays so; a job that has not begun has found *)
(* nothing.                                                                 *)
SeenInv ==
  \A a \in Actors :
    /\ a \in Issues /\ step[a] = "idle" => candidates[a] = {}
    /\ \A i : Seeking(a, i) =>
         \A t \in 1..Len(tasks) :
           tasks[t].incident = i /\ t <= since[a] => tasks[t].state \notin NonTerminal

LEMMA SinceKept ==
  ASSUME LookInv, HandInv, NEW a \in Actors, ActorStep(a), step[a] \notin {"idle", "logs", "done"}
  PROVE  since'[a] \in {0, since[a]}
<1>1. CASE UNCHANGED <<step, since>>
  BY <1>1
<1>2. CASE \E s \in Steps : Goto(a, s)
  BY <1>2 DEF Goto, LookInv
<1>3. QED
  BY <1>1, <1>2, GoesSomewhere

(* Whoever acts, tasks that have ended stay as they are.                    *)
LEMMA EndedStay ==
  ASSUME RowsInv, LookInv, HandInv, NEW a \in Actors, ActorStep(a),
         NEW n \in 0..Len(tasks), NEW t \in 1..Len(tasks'), t <= n,
         tasks[t].state \notin NonTerminal
  PROVE  tasks'[t] = tasks[t]
<1>1. KindOf(a) /\ tasks' \in Seq(Rows)
  BY Kinds
<1>2. Len(tasks) \in Nat /\ Len(tasks') \in Nat
  BY <1>1, RowsGrow
<1>3. t \in 1..Len(tasks)
  BY <1>2
<1>4. mine[a] # 0 => tasks[mine[a]].state \in NonTerminal
  BY DEF HandInv, Open
<1>5. t # mine[a]
  BY <1>2, <1>3, <1>4
<1>6. QED
  BY <1>1, <1>3, <1>5, RowsOfOthers

(* The actor sought no more than before, from no later on.                  *)
LEMMA SoughtBefore ==
  ASSUME DInv, SeenInv, NEW a \in Actors, ActorStep(a), NEW b \in Actors, NEW i,
         Seeking(b, i), since'[b] \in {0, since[b]}
  PROVE  \A t \in 1..Len(tasks') :
           tasks'[t].incident = i /\ t <= since'[b] => tasks'[t].state \notin NonTerminal
<1>1. KindOf(a) /\ tasks' \in Seq(Rows) /\ Len(tasks) \in Nat /\ Len(tasks') \in Nat
  BY Kinds, RowsGrow DEF DInv
<1>2. since[b] \in 0..Len(tasks)
  BY DEF DInv, LookInv
<1>3. ASSUME NEW t \in 1..Len(tasks'), tasks'[t].incident = i, t <= since'[b]
      PROVE  tasks'[t].state \notin NonTerminal
  <2>1. t <= since[b] /\ t \in 1..Len(tasks)
    BY <1>1, <1>2, <1>3
  <2>2. tasks[t].incident = i
    BY <1>1, <1>3, <2>1, RowsOfOthers DEF DInv
  <2>3. tasks[t].state \notin NonTerminal
    BY <2>1, <2>2 DEF SeenInv
  <2>4. tasks'[t] = tasks[t]
    BY <1>2, <2>1, <2>3, EndedStay DEF DInv
  <2>5. QED
    BY <2>3, <2>4
<1>4. QED
  BY <1>3

LEMMA NoneOpen ==
  ASSUME RowsInv, NEW i, ~HasOpenTask(i), NEW t \in 1..Len(tasks), tasks[t].incident = i
  PROVE  tasks[t].state \notin NonTerminal
<1>1. t \in TasksOn(i)
  BY DEF TasksOn, Tasks, RowsInv
<1>2. QED
  BY <1>1 DEF HasOpenTask, Open

LEMMA ActorKeepsSeen ==
  ASSUME DInv, SeenInv, NEW a \in Actors, ActorStep(a)
  PROVE  SeenInv'
<1>0. KindOf(a) /\ tasks' \in Seq(Rows) /\ Only(a) /\ Len(tasks) \in Nat /\ Len(tasks') \in Nat
  BY Kinds, OnlyOne, RowsGrow DEF DInv
<1>1. LookInv' /\ HandInv'
  BY ActorKeepsLook, ActorKeepsHand DEF DInv
<1>2. ASSUME a \in Issues, step'[a] = "idle" PROVE candidates'[a] = {}
  <2>1. a \notin Watchers /\ Rest(a) = "done"
    BY <1>2, DispatchAssumption DEF Rest, Jobs
  <2>2. \/ Deliver(a) \/ LookUp(a) \/ CheckAnomalyRate(a) \/ Classify(a) \/ Triage(a) \/ Run(a)
    BY <2>1 DEF ActorStep
  <2>3. CASE \E left : LeaveWith(a, left)
    BY <1>2, <2>1, <2>3 DEF LeaveWith, Goto, DInv, LookInv
  <2>4. CASE Deliver(a) \/ LookUp(a) \/ CheckAnomalyRate(a) \/ Classify(a)
    BY <1>2, <2>1, <2>4 DEF Deliver, LookUp, CheckAnomalyRate, Classify, Goto, DInv, LookInv
  <2>5. CASE Triage(a)
    BY <1>2, <2>1, <2>3, <2>5
       DEF Triage, CheckBreakers, CreateTask, StartTriage, FindSimilar, EmbeddingFails,
           MergeIntoExisting, StreakTrips, BelowFloor, DetectOnly, NextAlert, Abandon, Goto,
           DInv, LookInv
  <2>6. CASE Run(a)
    BY <1>2, <2>1, <2>3, <2>6
       DEF Run, TakeSlot, SlotRefused, Declare, TakeLock, RunEnds, RunRaises, NextAlert,
           Abandon, Goto, DInv, LookInv
  <2>7. QED
    BY <2>2, <2>4, <2>5, <2>6
<1>3. ASSUME NEW i, Seeking(a, i)'
      PROVE  \A t \in 1..Len(tasks') :
               tasks'[t].incident = i /\ t <= since'[a] => tasks'[t].state \notin NonTerminal
  <2>0. ASSUME since'[a] = 0
        PROVE  \A t \in 1..Len(tasks') : ~(t <= since'[a])
    BY <1>0, <2>0
  <2>1. CASE GateStep(a) \/ CreateStep(a) \/ HandStep(a) \/ LeaveStep(a)
    <3>1. /\ step[a] \in Alerted /\ step'[a] \notin {"look", "rate", "classify"}
          /\ \A n \in DOMAIN alerts'[a] : \E m \in DOMAIN alerts[a] : alerts'[a][n] = alerts[a][m]
      BY <2>1 DEF GateStep, CreateStep, HandStep, LeaveStep, Alerted, InHand, Running
    <3>2. Seeking(a, i)
      BY <1>3, <3>1 DEF Seeking
    <3>3. since'[a] \in {0, since[a]}
      BY <3>1, SinceKept DEF DInv, Alerted, InHand, Running
    <3>4. QED
      BY <3>2, <3>3, SoughtBefore
  <2>2. CASE \/ a \in Watchers /\ (Poll(a) \/ ListFails(a) \/ LogsBreach(a) \/ LogsQuiet(a))
             \/ a \in Issues /\ Deliver(a)
             \/ LookUp(a) \/ CheckAnomalyRate(a) \/ Classify(a)
    <3>0. tasks' = tasks /\ (LookStep(a) \/ AlertStep(a))
      BY <2>2, LookKinds DEF DInv
    <3>1. step[a] \notin Alerted /\ alerts[a] = << >>
      BY <3>0 DEF LookStep, AlertStep, DInv, HandInv
    <3>2. CASE a \in Watchers /\ Poll(a)
      <4>1. alerts'[a] = << >> /\ candidates'[a] = {}
        BY <3>1, <3>2 DEF Poll, DInv, LookInv
      <4>2. QED
        BY <1>3, <4>1 DEF Seeking
    <3>3. CASE a \in Issues /\ Deliver(a)
      <4>1. step[a] = "idle"
        BY <3>3 DEF Deliver, DInv, LookInv
      <4>2. alerts'[a] = << >> /\ candidates'[a] = {}
        BY <3>1, <3>3, <4>1 DEF Deliver, SeenInv
      <4>3. QED
        BY <1>3, <4>2 DEF Seeking
    <3>4. CASE a \in Watchers /\ (ListFails(a) \/ LogsQuiet(a))
      <4>1. since'[a] = 0
        BY <3>4 DEF ListFails, LogsQuiet, Goto, DInv, LookInv
      <4>2. QED
        BY <2>0, <4>1
    <3>5. CASE a \in Watchers /\ LogsBreach(a)
      <4>1. alerts'[a] = <<LogRepo>> /\ step'[a] = "gate" /\ ~HasOpenTask(LogRepo)
        BY <3>5 DEF LogsBreach, Goto, DInv, LookInv, HandInv
      <4>2. i = LogRepo
        BY <1>3, <4>1 DEF Seeking
      <4>3. \A t \in 1..Len(tasks) : tasks[t].incident = i => tasks[t].state \notin NonTerminal
        BY <4>1, <4>2, NoneOpen DEF DInv
      <4>4. QED
        BY <3>0, <4>3
    <3>6. CASE LookUp(a)
      <4>1. PICK j \in unseen[a] :
              candidates' = [candidates EXCEPT ![a] = IF HasOpenTask(j) THEN @ ELSE @ \cup {j}]
        BY <3>6 DEF LookUp
      <4>2. step[a] = "look" /\ alerts'[a] = << >>
        BY <3>1, <3>6 DEF LookUp
      <4>3. i \in candidates'[a]
        BY <1>3, <4>2 DEF Seeking
      <4>4. i \in candidates[a] \/ (i = j /\ ~HasOpenTask(j))
        BY <4>1, <4>3 DEF DInv, LookInv
      <4>5. CASE i \in candidates[a]
        <5>1. Seeking(a, i)
          BY <4>2, <4>5 DEF Seeking
        <5>2. QED
          BY <4>2, <5>1, SinceKept, SoughtBefore DEF DInv
      <4>6. CASE i = j /\ ~HasOpenTask(j)
        <5>1. \A t \in 1..Len(tasks) : tasks[t].incident = i => tasks[t].state \notin NonTerminal
          BY <4>6, NoneOpen DEF DInv
        <5>2. QED
          BY <3>0, <5>1
      <4>7. QED
        BY <4>4, <4>5, <4>6
    <3>7. CASE CheckAnomalyRate(a)
      <4>1. step[a] = "rate" /\ alerts'[a] = << >> /\ candidates' = candidates
        BY <3>1, <3>7 DEF CheckAnomalyRate
      <4>2. Seeking(a, i)
        BY <1>3, <4>1 DEF Seeking
      <4>3. QED
        BY <4>1, <4>2, SinceKept, SoughtBefore DEF DInv
    <3>8. CASE Classify(a)
      <4>1. step[a] = "classify" /\ candidates'[a] = {}
        BY <3>8 DEF Classify, DInv, LookInv
      <4>2. PICK n \in 0..MaxAlerts : \E answer \in [1..n -> candidates[a]] :
              alerts' = [alerts EXCEPT ![a] = answer]
        BY <3>8 DEF Classify
      <4>3. PICK answer \in [1..n -> candidates[a]] : alerts' = [alerts EXCEPT ![a] = answer]
        BY <4>2
      <4>4. alerts'[a] = answer
        BY <4>3 DEF DInv, HandInv
      <4>5. Seeking(a, i)
        BY <1>3, <4>1, <4>4 DEF Seeking
      <4>6. QED
        BY <4>1, <4>5, SinceKept, SoughtBefore DEF DInv
    <3>9. QED
      BY <2>2, <3>2, <3>3, <3>4, <3>5, <3>6, <3>7, <3>8
  <2>3. CASE Triage(a) \/ Run(a)
    <3>1. step[a] \in Alerted
      BY <2>3 DEF Triage, CheckBreakers, CreateTask, StartTriage, FindSimilar, EmbeddingFails,
                  MergeIntoExisting, StreakTrips, BelowFloor, DetectOnly, Run, TakeSlot,
                  SlotRefused, HandedToRun, Declare, TakeLock, RunEnds, RunRaises, Alerted,
                  InHand, Running
    <3>2. QED
      BY <1>0, <2>1, <3>1 DEF KindOf, LookStep, AlertStep
  <2>4. QED
    BY <2>2, <2>3 DEF ActorStep
<1>4. ASSUME NEW b \in Actors, b # a
      PROVE  /\ b \in Issues /\ step'[b] = "idle" => candidates'[b] = {}
             /\ \A i : Seeking(b, i)' =>
                  \A t \in 1..Len(tasks') :
                    tasks'[t].incident = i /\ t <= since'[b] => tasks'[t].state \notin NonTerminal
  <2>1. /\ step'[b] = step[b] /\ since'[b] = since[b] /\ alerts'[b] = alerts[b]
        /\ candidates'[b] = candidates[b]
    BY <1>0, <1>4 DEF Only
  <2>2. ASSUME NEW i, Seeking(b, i)' PROVE Seeking(b, i)
    BY <2>1, <2>2 DEF Seeking
  <2>3. QED
    BY <2>1, <2>2, SoughtBefore DEF SeenInv
<1>5. QED
  BY <1>2, <1>3, <1>4 DEF SeenInv

LEMMA CrashKeepsSeen ==
  ASSUME DInv, SeenInv, NEW p \in Processes, Crash(p)
  PROVE  SeenInv'
<1> DEFINE dead == {a \in Actors : Home(a) = p /\ step[a] \notin {"idle", "done"}}
<1>0. /\ step' = [a \in Actors |-> IF a \notin dead THEN step[a]
                                   ELSE IF a \in Jobs THEN "done" ELSE "idle"]
      /\ candidates' = [a \in Actors |-> IF a \in dead THEN {} ELSE candidates[a]]
      /\ alerts' = [a \in Actors |-> IF a \in dead THEN << >> ELSE alerts[a]]
      /\ since' = [a \in Actors |-> IF a \in dead THEN 0 ELSE since[a]]
      /\ tasks' = tasks
  BY DEF Crash
<1> HIDE DEF dead
<1>1. ASSUME NEW a \in Actors, a \in dead
      PROVE  candidates'[a] = {} /\ \A i : ~Seeking(a, i)'
  BY <1>0, <1>1 DEF Seeking
<1>2. ASSUME NEW a \in Actors, a \notin dead
      PROVE  /\ step'[a] = step[a] /\ candidates'[a] = candidates[a] /\ since'[a] = since[a]
             /\ \A i : Seeking(a, i)' => Seeking(a, i)
  BY <1>0, <1>2 DEF Seeking
<1>3. QED
  BY <1>0, <1>1, <1>2 DEF SeenInv

LEMMA StepKeepsSeen == DInv /\ SeenInv /\ [Next]_vars => SeenInv'
<1> SUFFICES ASSUME DInv, SeenInv, [Next]_vars PROVE SeenInv'
  OBVIOUS
<1>1. CASE HourPasses \/ UNCHANGED vars
  BY <1>1 DEF HourPasses, vars, actorVars, SeenInv, Seeking
<1>2. CASE \E a \in Actors : ActorStep(a)
  BY <1>2, ActorKeepsSeen
<1>3. CASE \E p \in Processes : Crash(p)
  BY <1>3, CrashKeepsSeen
<1>4. QED
  BY <1>1, <1>2, <1>3, StepsOfActors

LEMMA InitSeen == Init => SeenInv
BY DEF Init, SeenInv, Seeking

LEMMA SeenShowsDuplicates == DInv /\ SeenInv => DuplicatesAreUnseen
<1> SUFFICES ASSUME DInv, SeenInv, NEW a \in Actors, step[a] = "created",
                    NEW t \in TasksOn(tasks[mine[a]].incident), Open(t)
             PROVE  t > since[a]
  BY DEF DuplicatesAreUnseen
<1>1. /\ mine[a] # 0 /\ alerts[a] # << >> /\ alerts[a] \in Seq(Incidents)
      /\ tasks[mine[a]].incident = Head(alerts[a])
  BY DEF DInv, HandInv, InHand, Alerted
<1>2. Head(alerts[a]) = alerts[a][1] /\ 1 \in DOMAIN alerts[a]
  BY <1>1, LenProperties, EmptySeq
<1>3. Seeking(a, tasks[mine[a]].incident)
  BY <1>1, <1>2 DEF Seeking
<1>4. /\ t \in 1..Len(tasks) /\ tasks[t].incident = tasks[mine[a]].incident
      /\ tasks[t].state \in NonTerminal
  BY DEF TasksOn, Tasks, DInv, RowsInv, Open
<1>5. ~(t <= since[a])
  BY <1>3, <1>4 DEF SeenInv
<1>6. t \in Nat /\ since[a] \in Nat
  BY <1>4 DEF DInv, RowsInv, LookInv
<1>7. QED
  BY <1>5, <1>6

-----------------------------------------------------------------------------
(* Overlaps *)

(* A task that came while another was in hand has been noted as its overlap.*)
OverlapInv ==
  \A a \in Actors, t \in 1..Len(tasks) :
    mine[a] # 0 /\ mine[a] < t => {mine[a], t} \in overlapped

LEMMA OverlapsStay ==
  ASSUME NEW a \in Actors, ActorStep(a)
  PROVE  overlapped \subseteq overlapped'
BY ActorFrame DEF CreateTask

(* What becomes of the task in hand.                                        *)
LEMMA HandMoves ==
  ASSUME RowsInv, LookInv, HandInv, NEW a \in Actors, ActorStep(a)
  PROVE  mine'[a] \in {0, mine[a]} \/ CreateTask(a)
<1>1. KindOf(a)
  BY Kinds
<1>2. CASE CreateStep(a)
  <2>1. step[a] = "create" /\ step'[a] = "created"
    BY <1>2 DEF CreateStep
  <2>2. ~(LookStep(a) \/ AlertStep(a))
    BY <2>1 DEF LookStep, AlertStep, Alerted
  <2>3. Triage(a) \/ Run(a)
    BY <2>2, LookKinds DEF ActorStep
  <2>4. CreateTask(a) \/ CheckBreakers(a)
    BY <2>1, <2>3 DEF Triage, Run, StartTriage, FindSimilar, EmbeddingFails, MergeIntoExisting,
         StreakTrips, BelowFloor, DetectOnly, TakeSlot, SlotRefused, HandedToRun, Declare, TakeLock,
         RunEnds, RunRaises
  <2>5. ~CheckBreakers(a)
    BY <2>1 DEF CheckBreakers
  <2>6. QED
    BY <2>4, <2>5
<1>3. QED
  BY <1>1, <1>2 DEF KindOf, LookStep, AlertStep, GateStep, HandStep, LeaveStep

LEMMA ActorKeepsOverlaps ==
  ASSUME RowsInv, LookInv, HandInv, KeyInv, OverlapInv, NEW a \in Actors, ActorStep(a)
  PROVE  OverlapInv'
<1>1. KindOf(a) /\ tasks' \in Seq(Rows) /\ Only(a)
  BY Kinds, OnlyOne
<1>2. /\ Len(tasks') \in Nat /\ Len(tasks) \in Nat
      /\ Len(tasks') = Len(tasks) \/ (CreateStep(a) /\ Len(tasks') = Len(tasks) + 1)
  BY <1>1, RowsGrow
<1>3. \A b \in Actors : mine[b] \in 0..Len(tasks)
  BY DEF HandInv
<1> SUFFICES ASSUME NEW b \in Actors, NEW t \in 1..Len(tasks'), mine'[b] # 0, mine'[b] < t
             PROVE  {mine'[b], t} \in overlapped'
  BY DEF OverlapInv
<1>4. CASE CreateTask(a)
  <2>1. /\ tasks' = Append(tasks, [incident |-> Head(alerts[a]), state |-> "CREATED", into |-> 0])
        /\ mine' = [mine EXCEPT ![a] = Len(tasks')]
        /\ overlapped' = overlapped \cup {{Len(tasks'), mine[c]} : c \in {c \in Actors : mine[c] # 0}}
    BY <1>4 DEF CreateTask
  <2>2. Len(tasks') = Len(tasks) + 1
    BY <2>1, AppendProperties DEF RowsInv
  <2>3. mine'[a] = Len(tasks')
    BY <2>1 DEF HandInv
  <2>4. b # a
    BY <1>2, <2>3
  <2>5. mine'[b] = mine[b]
    BY <1>1, <2>4 DEF Only
  <2>6. CASE t = Len(tasks')
    BY <2>1, <2>5, <2>6
  <2>7. CASE t # Len(tasks')
    <3>1. t \in 1..Len(tasks)
      BY <1>2, <2>2, <2>7
    <3>2. QED
      BY <2>1, <2>5, <3>1 DEF OverlapInv
  <2>8. QED
    BY <2>6, <2>7
<1>5. CASE ~CreateTask(a)
  <2>1. ~CreateStep(a)
    <3>1. ASSUME CreateStep(a) PROVE FALSE
      <4>1. mine'[a] = Len(tasks) + 1 /\ mine[a] \in 0..Len(tasks)
        BY <1>2, <1>3, <3>1, AppendProperties DEF CreateStep, RowsInv
      <4>2. mine'[a] \in {0, mine[a]}
        BY <1>5, HandMoves
      <4>3. QED
        BY <1>2, <4>1, <4>2
    <3>2. QED
      BY <3>1
  <2>2. t \in 1..Len(tasks) /\ overlapped' = overlapped
    BY <1>2, <1>5, <2>1, ActorFrame
  <2>3. mine'[b] = mine[b]
    <3>1. CASE b = a
      BY <1>5, <3>1, HandMoves
    <3>2. CASE b # a
      BY <1>1, <3>2 DEF Only
    <3>3. QED
      BY <3>1, <3>2
  <2>4. QED
    BY <2>2, <2>3 DEF OverlapInv
<1>6. QED
  BY <1>4, <1>5

LEMMA CrashFrame ==
  ASSUME DInv, NEW p \in Processes, Crash(p)
  PROVE  /\ UNCHANGED <<tasks, hourAgo, open, local, received, overlapped>>
         /\ \A a \in Actors : \/ /\ step'[a] = step[a] /\ mine'[a] = mine[a]
                                 /\ twin'[a] = twin[a]
                              \/ /\ step[a] \notin {"idle", "done"} /\ mine'[a] = 0 /\ twin'[a] = 0
                                 /\ step'[a] = IF a \in Jobs THEN "done" ELSE "idle"
BY DEF Crash

LEMMA StepKeepsOverlaps == DInv /\ OverlapInv /\ [Next]_vars => OverlapInv'
<1> SUFFICES ASSUME DInv, OverlapInv, [Next]_vars PROVE OverlapInv'
  OBVIOUS
<1>1. CASE HourPasses \/ UNCHANGED vars
  BY <1>1 DEF HourPasses, vars, actorVars, OverlapInv
<1>2. CASE \E a \in Actors : ActorStep(a)
  BY <1>2, ActorKeepsOverlaps DEF DInv
<1>3. CASE \E p \in Processes : Crash(p)
  BY <1>3, CrashFrame DEF OverlapInv
<1>4. QED
  BY <1>1, <1>2, <1>3, StepsOfActors

-----------------------------------------------------------------------------
(* Merges *)

(* What a step of an actor writes into the row it has in hand.              *)
RowWritten(a) ==
  \/ tasks' = tasks
  \/ CreateTask(a)
  \/ MergeIntoExisting(a)
  \/ /\ step[a] \in InHand
     /\ \E s \in TaskState : SetState(mine[a], s) /\ (s = "FAILED" => step[a] \in Running)

LEMMA RowsAreWritten ==
  ASSUME RowsInv, LookInv, HandInv, NEW a \in Actors, ActorStep(a)
  PROVE  RowWritten(a)
<1> USE DEF RowWritten
<1>1. CASE ~(Triage(a) \/ Run(a))
  BY <1>1, LookKinds DEF ActorStep
<1>2. CASE Triage(a)
  <2>1. CASE CheckBreakers(a) \/ FindSimilar(a) \/ EmbeddingFails(a) \/ DetectOnly(a)
    BY <2>1 DEF CheckBreakers, FindSimilar, EmbeddingFails, DetectOnly
  <2>2. CASE StartTriage(a)
    <3>1. "TRIAGING" \in TaskState /\ SetState(mine[a], "TRIAGING") /\ step[a] \in InHand
      BY <2>2, StatesOfDispatch DEF StartTriage, InHand
    <3>2. QED
      BY <3>1
  <2>3. CASE StreakTrips(a)
    <3>1. /\ "NEEDS_HUMAN_INPUT" \in TaskState /\ SetState(mine[a], "NEEDS_HUMAN_INPUT")
          /\ step[a] \in InHand
      BY <2>3, StatesOfDispatch DEF StreakTrips, InHand
    <3>2. QED
      BY <3>1
  <2>4. CASE BelowFloor(a)
    <3>1. "CANCELLED" \in TaskState /\ SetState(mine[a], "CANCELLED") /\ step[a] \in InHand
      BY <2>4, StatesOfDispatch DEF BelowFloor, InHand
    <3>2. QED
      BY <3>1
  <2>5. QED
    BY <1>2, <2>1, <2>2, <2>3, <2>4 DEF Triage
<1>3. CASE Run(a)
  <2>1. CASE SlotRefused(a) \/ Declare(a) \/ RunRaises(a)
    BY <2>1 DEF SlotRefused, Declare, RunRaises
  <2>2. CASE TakeSlot(a)
    <3>1. "INVESTIGATING" \in TaskState /\ SetState(mine[a], "INVESTIGATING") /\ step[a] \in InHand
      BY <2>2, StatesOfDispatch DEF TakeSlot, HandedToRun, InHand
    <3>2. QED
      BY <3>1
  <2>3. CASE TakeLock(a)
    <3>1. tasks' = tasks \/ SetState(mine[a], "CODING")
      BY <2>3 DEF TakeLock
    <3>2. "CODING" \in TaskState /\ step[a] \in InHand
      BY <2>3, StatesOfDispatch DEF TakeLock, InHand, Running
    <3>3. QED
      BY <3>1, <3>2
  <2>4. CASE RunEnds(a)
    <3>1. /\ step[a] \in Running /\ step[a] \in InHand
          /\ \E s \in {"FAILED", "NEEDS_HUMAN_INPUT", "WAITING_FOR_APPROVAL"} : SetState(mine[a], s)
      BY <2>4 DEF RunEnds, InHand, Running
    <3>2. {"FAILED", "NEEDS_HUMAN_INPUT", "WAITING_FOR_APPROVAL"} \subseteq TaskState
      BY StatesOfDispatch
    <3>3. QED
      BY <3>1, <3>2
  <2>5. QED
    BY <1>3, <2>1, <2>2, <2>3, <2>4 DEF Run
<1>4. QED
  BY <1>1, <1>2, <1>3

(* Rows are merged by MergeIntoExisting alone, and into the twin.           *)
LEMMA IntoWritten ==
  ASSUME RowsInv, LookInv, HandInv, NEW a \in Actors, ActorStep(a), NEW t \in 1..Len(tasks)
  PROVE  \/ tasks'[t].into = tasks[t].into
         \/ MergeIntoExisting(a) /\ t = mine[a] /\ tasks'[t].into = twin[a]
<1>0. tasks[t] \in Rows /\ t \in DOMAIN tasks
  BY ElementOfSeq DEF RowsInv
<1>1. CASE tasks' = tasks
  BY <1>1
<1>2. CASE CreateTask(a)
  <2>1. tasks'[t] = tasks[t]
    BY <1>2, AppendProperties DEF CreateTask, RowsInv
  <2>2. QED
    BY <2>1
<1>3. CASE MergeIntoExisting(a)
  <2> DEFINE row == [[tasks[mine[a]] EXCEPT !.state = "MERGED_INTO_EXISTING"] EXCEPT !.into = twin[a]]
  <2>1. mine[a] \in 1..Len(tasks) /\ tasks[mine[a]] \in Rows
    BY <1>3, MineIsATask DEF MergeIntoExisting, InHand
  <2>2. row.into = twin[a]
    BY <2>1 DEF Rows
  <2>3. tasks' = [tasks EXCEPT ![mine[a]] = row]
    BY <1>3, <2>1 DEF MergeIntoExisting, RowsInv
  <2> HIDE DEF row
  <2>4. tasks'[t] = IF t = mine[a] THEN row ELSE tasks[t]
    BY <1>0, <2>3
  <2>5. QED
    BY <1>3, <2>2, <2>4
<1>4. ASSUME NEW s, SetState(mine[a], s)
      PROVE  tasks'[t].into = tasks[t].into
  <2>1. tasks'[t] = IF t = mine[a] THEN [tasks[t] EXCEPT !.state = s] ELSE tasks[t]
    BY <1>0, <1>4 DEF SetState
  <2>2. [tasks[t] EXCEPT !.state = s].into = tasks[t].into
    BY <1>0 DEF Rows
  <2>3. QED
    BY <2>1, <2>2
<1>5. QED
  BY <1>1, <1>2, <1>3, <1>4, RowsAreWritten DEF RowWritten

LEMMA TwinMoves ==
  ASSUME RowsInv, LookInv, HandInv, NEW a \in Actors, ActorStep(a)
  PROVE  /\ \A b \in Actors \ {a} : twin'[b] = twin[b]
         /\ \/ twin'[a] = 0
            \/ twin'[a] = twin[a] /\ (mine' = mine \/ CreateTask(a))
            \/ /\ mine' = mine /\ mine[a] # 0 /\ twin'[a] # mine[a]
<1> USE DEF HandInv
<1>0. ASSUME NEW left, LeaveWith(a, left)
      PROVE  twin'[a] = 0 /\ \A b \in Actors \ {a} : twin'[b] = twin[b]
  BY <1>0 DEF LeaveWith
<1>1. CASE ~(Triage(a) \/ Run(a))
  BY <1>1, LookKinds DEF ActorStep
<1>2. CASE CreateTask(a)
  BY <1>2 DEF CreateTask
<1>3. CASE FindSimilar(a)
  <2>1. mine[a] # 0
    BY <1>3, MineIsATask DEF FindSimilar, InHand
  <2>2. CASE twin' = twin
    BY <1>3, <2>2 DEF FindSimilar
  <2>3. CASE \E t \in OtherOpen(mine[a]) : twin' = [twin EXCEPT ![a] = t]
    BY <1>3, <2>1, <2>3 DEF FindSimilar, OtherOpen
  <2>4. QED
    BY <1>3, <2>2, <2>3 DEF FindSimilar
<1>4. CASE Triage(a) /\ ~CreateTask(a) /\ ~FindSimilar(a)
  BY <1>0, <1>4 DEF Triage, CheckBreakers, StartTriage, EmbeddingFails, MergeIntoExisting,
                    StreakTrips, BelowFloor, DetectOnly, NextAlert, Abandon
<1>5. CASE Run(a)
  BY <1>0, <1>5 DEF Run, TakeSlot, SlotRefused, Declare, TakeLock, RunEnds, RunRaises, NextAlert, Abandon
<1>6. QED
  BY <1>1, <1>2, <1>3, <1>4, <1>5

(* A twin is another task; and a task merged into a younger one overlapped  *)
(* with it.                                                                 *)
MergeInv ==
  /\ \A a \in Actors : twin[a] # 0 => mine[a] # 0 /\ twin[a] # mine[a]
  /\ \A t \in 1..Len(tasks) :
       /\ tasks[t].into # t
       /\ t < tasks[t].into => {t, tasks[t].into} \in overlapped

LEMMA ActorKeepsMerges ==
  ASSUME RowsInv, LookInv, HandInv, KeyInv, OverlapInv, MergeInv, NEW a \in Actors, ActorStep(a)
  PROVE  MergeInv'
<1>1. KindOf(a) /\ tasks' \in Seq(Rows) /\ Only(a)
  BY Kinds, OnlyOne
<1>2. /\ Len(tasks') \in Nat /\ Len(tasks) \in Nat
      /\ Len(tasks') = Len(tasks) \/ (CreateStep(a) /\ Len(tasks') = Len(tasks) + 1)
  BY <1>1, RowsGrow
<1>3. \A b \in Actors : mine[b] \in 0..Len(tasks) /\ twin[b] \in 0..Len(tasks)
  BY DEF HandInv
<1>4. ASSUME NEW b \in Actors, twin'[b] # 0 PROVE mine'[b] # 0 /\ twin'[b] # mine'[b]
  <2>1. CASE b # a
    BY <1>1, <1>4, <2>1, TwinMoves DEF Only, MergeInv
  <2>2. CASE b = a
    <3>1. CASE twin'[a] = twin[a] /\ mine' = mine
      BY <1>4, <2>2, <3>1 DEF MergeInv
    <3>2. CASE twin'[a] = twin[a] /\ CreateTask(a)
      <4>1. mine[a] = 0
        BY <3>2 DEF CreateTask, HandInv, InHand, Running
      <4>2. QED
        BY <1>4, <2>2, <3>2, <4>1 DEF MergeInv
    <3>3. CASE mine' = mine /\ mine[a] # 0 /\ twin'[a] # mine[a]
      BY <2>2, <3>3
    <3>4. QED
      BY <1>4, <2>2, <3>1, <3>2, <3>3, TwinMoves
  <2>3. QED
    BY <2>1, <2>2
<1>5. ASSUME NEW t \in 1..Len(tasks')
      PROVE  /\ tasks'[t].into # t
             /\ t < tasks'[t].into => {t, tasks'[t].into} \in overlapped'
  <2>1. CASE t \in 1..Len(tasks)
    <3>1. CASE tasks'[t].into = tasks[t].into
      BY <2>1, <3>1, OverlapsStay DEF MergeInv
    <3>2. CASE MergeIntoExisting(a) /\ t = mine[a] /\ tasks'[t].into = twin[a]
      <4>1. twin[a] # t
        BY <1>2, <2>1, <3>2 DEF MergeInv
      <4>2. ASSUME t < twin[a] PROVE {t, twin[a]} \in overlapped
        <5>1. twin[a] \in 1..Len(tasks) /\ mine[a] # 0
          BY <1>2, <1>3, <2>1, <3>2, <4>2
        <5>2. QED
          BY <3>2, <4>2, <5>1 DEF OverlapInv
      <4>3. QED
        BY <3>2, <4>1, <4>2, OverlapsStay
    <3>3. QED
      BY <2>1, <3>1, <3>2, IntoWritten
  <2>2. CASE t \notin 1..Len(tasks)
    <3>1. CreateStep(a) /\ t = Len(tasks) + 1
      BY <1>2, <2>2
    <3>2. tasks'[t] = [incident |-> Head(alerts[a]), state |-> "CREATED", into |-> 0]
      BY <3>1, AppendProperties DEF CreateStep, RowsInv
    <3>3. tasks'[t].into = 0
      BY <3>2
    <3>4. QED
      BY <1>2, <3>1, <3>3
  <2>3. QED
    BY <2>1, <2>2
<1>6. QED
  BY <1>4, <1>5 DEF MergeInv

LEMMA StepKeepsMerges == DInv /\ OverlapInv /\ MergeInv /\ [Next]_vars => MergeInv'
<1> SUFFICES ASSUME DInv, OverlapInv, MergeInv, [Next]_vars PROVE MergeInv'
  OBVIOUS
<1>1. CASE HourPasses \/ UNCHANGED vars
  BY <1>1 DEF HourPasses, vars, actorVars, MergeInv
<1>2. CASE \E a \in Actors : ActorStep(a)
  BY <1>2, ActorKeepsMerges DEF DInv
<1>3. CASE \E p \in Processes : Crash(p)
  BY <1>3, CrashFrame DEF MergeInv
<1>4. QED
  BY <1>1, <1>2, <1>3, StepsOfActors

(* In a circle the oldest is merged into a younger one.                     *)
LEMMA CirclesOverlap == DInv /\ MergeInv => MergedInCirclesOnlyByOverlap
<1> SUFFICES ASSUME DInv, MergeInv, NEW circle \in SUBSET {t \in Tasks : tasks[t].into # 0},
                    circle # {}, \A t \in circle : tasks[t].into \in circle
             PROVE  \E t, u \in circle : t # u /\ {t, u} \in overlapped
  BY DEF MergedInCirclesOnlyByOverlap
<1>1. circle \subseteq 1..Len(tasks) /\ circle \in SUBSET Nat
  BY DEF Tasks, DInv, RowsInv
<1>2. Min(circle) \in circle /\ \A t \in circle : Min(circle) <= t
  BY <1>1, LeastOf
<1> DEFINE m == Min(circle)
<1> HIDE DEF m
<1>3. m \in circle /\ tasks[m].into \in circle /\ m <= tasks[m].into
  BY <1>2 DEF m
<1>4. tasks[m].into # m /\ (m < tasks[m].into => {m, tasks[m].into} \in overlapped)
  BY <1>1, <1>3 DEF MergeInv
<1>5. m \in Nat /\ tasks[m].into \in Nat
  BY <1>1, <1>3
<1>6. m < tasks[m].into
  BY <1>3, <1>4, <1>5
<1>7. m # tasks[m].into /\ {m, tasks[m].into} \in overlapped
  BY <1>4, <1>6
<1>8. QED
  BY <1>3, <1>7, Zenon

-----------------------------------------------------------------------------
(* Failures in a row *)

LEMMA GreatestOf ==
  ASSUME NEW S \in SUBSET Nat, IsFiniteSet(S), S # {}
  PROVE  \E m \in S : \A k \in S : k <= m
<1> DEFINE Above(k) == {u \in S : u > k}
           T == {Above(k) : k \in S}
<1>1. T \subseteq FiniteSubsetsOf(S) /\ T # {}
  <2>1. \A k \in S : IsFiniteSet(Above(k)) /\ Above(k) \subseteq S
    BY FS_Subset
  <2>2. QED
    BY <2>1 DEF FiniteSubsetsOf
<1> HIDE DEF T
<1>2. PICK least \in T : \A R \in T : ~(<<R, least>> \in StrictSubsetOrdering(S))
  BY <1>1, FS_StrictSubsetOrderingWellFounded, WFMin
<1>3. PICK m \in S : least = Above(m)
  BY <1>2 DEF T
<1>4. ASSUME NEW k \in S, k > m PROVE FALSE
  <2>1. Above(k) \subseteq Above(m)
    <3>1. \A u \in S : u \in Nat
      OBVIOUS
    <3>2. \A u \in S : u > k => u > m
      BY <1>4, <3>1
    <3>3. QED
      BY <3>2
  <2>2. k \in Above(m) /\ k \notin Above(k)
    BY <1>4
  <2>3. Above(k) \in T
    BY DEF T
  <2>4. <<Above(k), least>> \in StrictSubsetOrdering(S)
    BY <1>3, <2>1, <2>2 DEF StrictSubsetOrdering
  <2>5. QED
    BY <1>2, <2>3, <2>4
<1>5. \A k \in S : k <= m
  BY <1>4
<1>6. QED
  BY <1>5

Newest(S) == {t \in S : Cardinality({u \in S : u > t}) < Streak}

LEMMA StreakByNewest ==
  ASSUME NEW S
  PROVE  /\ StreakOver(S) <=> /\ Cardinality(Newest(S)) >= Streak
                              /\ \A t \in Newest(S) : tasks[t].state = "FAILED"
BY DEF StreakOver, Newest

(* Of a set that has as many, the newest are as many as the streak.         *)
LEMMA NewestAreEnough ==
  ASSUME NEW S \in SUBSET Nat, IsFiniteSet(S), Cardinality(S) >= Streak
  PROVE  Cardinality(Newest(S)) >= Streak
<1>1. Newest(S) \in SUBSET S /\ IsFiniteSet(Newest(S)) /\ Streak \in Nat
  BY FS_Subset, DispatchAssumption DEF Newest
<1>2. Cardinality(Newest(S)) \in Nat
  BY <1>1, FS_CardinalityType
<1> SUFFICES ASSUME Cardinality(Newest(S)) < Streak PROVE FALSE
  BY <1>1, <1>2
<1>3. S \ Newest(S) # {}
  <2>1. ASSUME S \ Newest(S) = {} PROVE FALSE
    <3>1. Newest(S) = S
      BY <1>1, <2>1
    <3>2. QED
      BY <1>1, <1>2, <3>1
  <2>2. QED
    BY <2>1
<1>4. S \ Newest(S) \in SUBSET Nat /\ IsFiniteSet(S \ Newest(S))
  BY FS_Difference
<1>5. PICK m \in S \ Newest(S) : \A k \in S \ Newest(S) : k <= m
  BY <1>3, <1>4, GreatestOf
<1> DEFINE above == {u \in S : u > m}
<1>6. above \subseteq Newest(S)
  <2>1. ASSUME NEW u \in S, u > m, u \notin Newest(S) PROVE FALSE
    <3>1. u <= m /\ u \in Nat /\ m \in Nat
      BY <1>5, <2>1
    <3>2. QED
      BY <2>1, <3>1
  <2>2. QED
    BY <2>1
<1>7. Cardinality(above) <= Cardinality(Newest(S)) /\ Cardinality(above) \in Nat
  BY <1>1, <1>6, FS_Subset, FS_CardinalityType
<1>8. Cardinality(above) < Streak
  BY <1>1, <1>2, <1>7
<1>9. QED
  BY <1>5, <1>8 DEF Newest

(* The older tasks on the incident of a task; a task that went past the     *)
(* breaker; a task that no other on its incident overlapped.                *)
Older(t) == {u \in TasksOn(tasks[t].incident) : u < t}
Passed(t) == tasks[t].state = "FAILED" \/ \E a \in Actors : mine[a] = t /\ step[a] \in Running
Alone(t) == \A u \in TasksOn(tasks[t].incident) : {t, u} \notin overlapped

(* What went past the breaker alone has no streak of failures before it.    *)
StreakInv == \A t \in 1..Len(tasks) : Passed(t) /\ Alone(t) => ~StreakOver(Older(t))

LEMMA FailedByItsHolder ==
  ASSUME RowsInv, LookInv, HandInv, NEW a \in Actors, ActorStep(a), NEW t \in 1..Len(tasks),
         tasks'[t].state = "FAILED"
  PROVE  tasks[t].state = "FAILED" \/ (t = mine[a] /\ step[a] \in Running)
<1>0. tasks[t] \in Rows /\ t \in DOMAIN tasks
  BY ElementOfSeq DEF RowsInv
<1>1. CASE tasks' = tasks
  BY <1>1
<1>2. CASE CreateTask(a)
  <2>1. tasks'[t] = tasks[t]
    BY <1>2, AppendProperties DEF CreateTask, RowsInv
  <2>2. QED
    BY <2>1
<1>3. CASE MergeIntoExisting(a)
  <2> DEFINE row == [[tasks[mine[a]] EXCEPT !.state = "MERGED_INTO_EXISTING"] EXCEPT !.into = twin[a]]
  <2>1. mine[a] \in 1..Len(tasks) /\ tasks[mine[a]] \in Rows
    BY <1>3, MineIsATask DEF MergeIntoExisting, InHand
  <2>2. row.state = "MERGED_INTO_EXISTING"
    BY <2>1 DEF Rows
  <2>3. tasks' = [tasks EXCEPT ![mine[a]] = row]
    BY <1>3, <2>1 DEF MergeIntoExisting, RowsInv
  <2> HIDE DEF row
  <2>4. tasks'[t] = IF t = mine[a] THEN row ELSE tasks[t]
    BY <1>0, <2>3
  <2>5. QED
    BY <2>2, <2>4
<1>4. ASSUME step[a] \in InHand, NEW s \in TaskState, SetState(mine[a], s),
             s = "FAILED" => step[a] \in Running
      PROVE  tasks[t].state = "FAILED" \/ (t = mine[a] /\ step[a] \in Running)
  <2>1. CASE t = mine[a]
    <3>1. mine[a] # 0
      BY <1>4, MineIsATask
    <3>2. tasks'[t].state = s
      BY <1>4, <2>1, <3>1, RowSet
    <3>3. QED
      BY <1>4, <2>1, <3>2
  <2>2. CASE t # mine[a]
    <3>1. tasks'[t] = tasks[t]
      BY <1>0, <1>4, <2>2 DEF SetState
    <3>2. QED
      BY <3>1
  <2>3. QED
    BY <2>1, <2>2
<1>5. QED
  BY <1>1, <1>2, <1>3, <1>4, RowsAreWritten DEF RowWritten

(* A run begins at TakeSlot, the breaker's answer in hand.                  *)
LEMMA RunsBegin ==
  ASSUME RowsInv, LookInv, HandInv, KeyInv, NEW a \in Actors, ActorStep(a), step'[a] \in Running
  PROVE  step[a] \in Running \/ (TakeSlot(a) /\ ~OnlyFailures(mine[a]))
<1> USE DEF Running
<1>1. Rest(a) \notin Running
  BY DEF Rest
<1>2. ASSUME NEW left, LeaveWith(a, left) PROVE FALSE
  BY <1>1, <1>2 DEF LeaveWith, Goto, LookInv
<1>3. Triage(a) \/ Run(a)
  <2>1. ASSUME ~(Triage(a) \/ Run(a)) PROVE FALSE
    <3>1. LookStep(a) \/ AlertStep(a)
      BY <2>1, LookKinds DEF ActorStep
    <3>2. QED
      BY <3>1 DEF LookStep, AlertStep, Alerted, InHand
  <2>2. QED
    BY <2>1
<1>4. CASE Triage(a)
  BY <1>2, <1>4 DEF Triage, CheckBreakers, CreateTask, StartTriage, FindSimilar, EmbeddingFails,
    MergeIntoExisting, StreakTrips, BelowFloor, DetectOnly, NextAlert, Abandon, Goto, LookInv
<1>5. CASE Run(a)
  BY <1>2, <1>5 DEF Run, TakeSlot, HandedToRun, SlotRefused, Declare, TakeLock, RunEnds, RunRaises,
    NextAlert, Abandon
<1>6. QED
  BY <1>3, <1>4, <1>5

(* What a step leaves of the tasks: those there are stay on their incidents.*)
LEMMA TasksOnKept ==
  ASSUME RowsInv, LookInv, HandInv, NEW a \in Actors, ActorStep(a), NEW t \in 1..Len(tasks)
  PROVE  /\ Older(t)' = Older(t)
         /\ TasksOn(tasks[t].incident) \subseteq TasksOn(tasks[t].incident)'
<1>1. KindOf(a) /\ tasks' \in Seq(Rows)
  BY Kinds
<1>2. /\ Len(tasks') \in Nat /\ Len(tasks) \in Nat /\ Len(tasks) <= Len(tasks')
      /\ Tasks = 1..Len(tasks) /\ Tasks' = 1..Len(tasks')
  BY <1>1, RowsGrow DEF Tasks
<1>3. \A u \in 1..Len(tasks) : tasks'[u].incident = tasks[u].incident
  BY <1>1, RowsOfOthers
<1>4. TasksOn(tasks[t].incident) \subseteq TasksOn(tasks[t].incident)'
  BY <1>2, <1>3 DEF TasksOn
<1>5. ASSUME NEW u
      PROVE  u \in Older(t)' <=> u \in Older(t)
  <2>1. u \in Older(t)' <=> u \in 1..Len(tasks') /\ tasks'[u].incident = tasks'[t].incident /\ u < t
    BY <1>2 DEF Older, TasksOn
  <2>2. u \in Older(t) <=> u \in 1..Len(tasks) /\ tasks[u].incident = tasks[t].incident /\ u < t
    BY <1>2 DEF Older, TasksOn
  <2>3. u \in 1..Len(tasks') /\ u < t <=> u \in 1..Len(tasks) /\ u < t
    BY <1>2
  <2>4. QED
    BY <1>3, <2>1, <2>2, <2>3
<1>6. QED
  BY <1>4, <1>5

LEMMA ActorKeepsStreak ==
  ASSUME RowsInv, LookInv, HandInv, KeyInv, OverlapInv, StreakInv, NEW a \in Actors, ActorStep(a)
  PROVE  StreakInv'
<1>1. KindOf(a) /\ tasks' \in Seq(Rows) /\ Only(a) /\ HandInv'
  BY Kinds, OnlyOne, ActorKeepsHand
<1>2. /\ Len(tasks') \in Nat /\ Len(tasks) \in Nat
      /\ Len(tasks') = Len(tasks) \/ (CreateStep(a) /\ Len(tasks') = Len(tasks) + 1)
  BY <1>1, RowsGrow
<1>3. \A b \in Actors : mine[b] \in 0..Len(tasks)
  BY DEF HandInv
<1> SUFFICES ASSUME NEW t \in 1..Len(tasks'), Passed(t)', Alone(t)'
             PROVE  ~StreakOver(Older(t))'
  BY DEF StreakInv
<1>4. t \in 1..Len(tasks)
  <2>1. ASSUME t \notin 1..Len(tasks) PROVE FALSE
    <3>1. CreateStep(a) /\ t = Len(tasks')
      BY <1>2, <2>1
    <3>2. /\ tasks'[t] = [incident |-> Head(alerts[a]), state |-> "CREATED", into |-> 0]
          /\ mine'[a] = t /\ step'[a] = "created" /\ t # 0
      BY <1>2, <3>1, AppendProperties DEF CreateStep, RowsInv
    <3>3. tasks'[t].state # "FAILED"
      BY <3>2
    <3>4. PICK b \in Actors : mine'[b] = t /\ step'[b] \in Running
      BY <3>3 DEF Passed
    <3>5. b = a
      BY <1>1, <3>2, <3>4 DEF HandInv
    <3>6. QED
      BY <3>2, <3>4, <3>5 DEF Running
  <2>2. QED
    BY <2>1
<1>5. Older(t)' = Older(t) /\ TasksOn(tasks[t].incident) \subseteq TasksOn(tasks[t].incident)'
  BY <1>4, TasksOnKept
<1>6. Alone(t)
  <2>1. \A u \in TasksOn(tasks[t].incident)' : {t, u} \notin overlapped'
    BY DEF Alone
  <2>2. \A u \in TasksOn(tasks[t].incident) : {t, u} \notin overlapped
    BY <1>5, <2>1, OverlapsStay
  <2>3. QED
    BY <2>2 DEF Alone
<1>7. Older(t) \subseteq TasksOn(tasks[t].incident) /\ Older(t) \in SUBSET (1..Len(tasks))
      /\ \A u \in Older(t) : u < t
  BY DEF Older, TasksOn, Tasks, RowsInv
<1>8. mine[a] \notin Older(t)
  <2>1. ASSUME mine[a] \in Older(t) PROVE FALSE
    <3>1. mine[a] # 0 /\ mine[a] < t /\ mine[a] \in TasksOn(tasks[t].incident)
      BY <1>7, <2>1
    <3>2. {mine[a], t} \in overlapped
      BY <1>4, <3>1 DEF OverlapInv
    <3>3. {t, mine[a]} \notin overlapped
      BY <1>6, <3>1 DEF Alone
    <3>4. {t, mine[a]} = {mine[a], t}
      OBVIOUS
    <3>5. QED
      BY <3>2, <3>3, <3>4
  <2>2. QED
    BY <2>1
<1>9. ~StreakOver(Older(t))
  <2>1. CASE Passed(t)
    BY <1>4, <1>6, <2>1 DEF StreakInv
  <2>2. CASE ~Passed(t)
    <3>1. tasks[t].state # "FAILED" /\ \A b \in Actors : mine[b] = t => step[b] \notin Running
      BY <2>2 DEF Passed
    <3>2. tasks'[t].state # "FAILED"
      BY <1>4, <3>1, FailedByItsHolder
    <3>3. PICK b \in Actors : mine'[b] = t /\ step'[b] \in Running
      BY <3>2 DEF Passed
    <3>4. b = a
      BY <1>1, <3>1, <3>3 DEF Only
    <3>5. step[a] \in Running => mine'[a] = mine[a]
      <4>1. ASSUME step[a] \in Running, mine'[a] # mine[a] PROVE FALSE
        <5>1. ~CreateStep(a)
          BY <4>1 DEF CreateStep, Running
        <5>2. LeaveStep(a)
          BY <1>1, <4>1, <5>1 DEF KindOf, LookStep, AlertStep, GateStep, HandStep
        <5>3. QED
          BY <3>3, <3>4, <5>2 DEF LeaveStep, Running
      <4>2. QED
        BY <4>1
    <3>6. TakeSlot(a) /\ ~OnlyFailures(mine[a])
      BY <3>1, <3>3, <3>4, <3>5, RunsBegin
    <3>7. mine[a] = t
      BY <3>3, <3>4, <3>6 DEF TakeSlot
    <3>8. TasksOn(tasks[t].incident) \ {t} = Older(t)
      <4>1. ASSUME NEW u \in TasksOn(tasks[t].incident) \ {t} PROVE u < t
        <5>1. u \in 1..Len(tasks) /\ {t, u} \notin overlapped
          BY <1>6, <4>1 DEF Alone, TasksOn, Tasks, RowsInv
        <5>2. ~(t < u)
          BY <1>4, <3>7, <5>1 DEF OverlapInv
        <5>3. QED
          BY <1>2, <1>4, <4>1, <5>1, <5>2
      <4>2. QED
        BY <1>2, <1>4, <1>7, <4>1 DEF Older
    <3>9. QED
      BY <3>6, <3>7, <3>8 DEF OnlyFailures
  <2>3. QED
    BY <2>1, <2>2
<1>10. ASSUME StreakOver(Older(t))' PROVE FALSE
  <2> DEFINE S == Older(t)
  <2>1. Cardinality(Newest(S)') >= Streak /\ \A u \in Newest(S)' : tasks'[u].state = "FAILED"
    BY <1>10 DEF StreakOver, Newest
  <2>2. Newest(S)' = Newest(S)
    BY <1>5 DEF Newest
  <2>3. Cardinality(Newest(S)) >= Streak /\ \A u \in Newest(S) : tasks'[u].state = "FAILED"
    BY <2>1, <2>2
  <2>4. ASSUME NEW u \in Newest(S) PROVE tasks[u].state = "FAILED"
    <3>1. u \in 1..Len(tasks) /\ u # mine[a]
      BY <1>7, <1>8, <2>4 DEF Newest
    <3>2. QED
      BY <2>3, <3>1, FailedByItsHolder
  <2>5. StreakOver(S)
    BY <2>3, <2>4, StreakByNewest
  <2>6. QED
    BY <1>9, <2>5
<1>11. QED
  BY <1>10

LEMMA StepKeepsStreak == DInv /\ OverlapInv /\ StreakInv /\ [Next]_vars => StreakInv'
<1> SUFFICES ASSUME DInv, OverlapInv, StreakInv, [Next]_vars PROVE StreakInv'
  OBVIOUS
<1>1. ASSUME UNCHANGED <<tasks, overlapped>>,
             \A a \in Actors : step'[a] \in Running => step'[a] = step[a] /\ mine'[a] = mine[a]
      PROVE  StreakInv'
  <2> SUFFICES ASSUME NEW t \in 1..Len(tasks), Passed(t)', Alone(t)'
               PROVE  ~StreakOver(Older(t))'
    BY <1>1 DEF StreakInv
  <2>1. Passed(t)
    BY <1>1 DEF Passed
  <2>2. Alone(t)
    BY <1>1 DEF Alone, TasksOn, Tasks
  <2>3. ~StreakOver(Older(t))
    BY <2>1, <2>2 DEF StreakInv
  <2>4. Older(t)' = Older(t)
    BY <1>1 DEF Older, TasksOn, Tasks
  <2>5. QED
    BY <1>1, <2>3, <2>4 DEF StreakOver
<1>2. CASE HourPasses \/ UNCHANGED vars
  <2>1. UNCHANGED <<tasks, overlapped, step, mine>>
    BY <1>2 DEF HourPasses, vars, actorVars
  <2>2. QED
    BY <1>1, <2>1
<1>3. CASE \E a \in Actors : ActorStep(a)
  BY <1>3, ActorKeepsStreak DEF DInv
<1>4. CASE \E p \in Processes : Crash(p)
  <2>1. UNCHANGED <<tasks, overlapped>>
    BY <1>4, CrashFrame
  <2>2. \A a \in Actors : step'[a] \in Running => step'[a] = step[a] /\ mine'[a] = mine[a]
    BY <1>4, CrashFrame DEF Running
  <2>3. QED
    BY <1>1, <2>1, <2>2
<1>5. QED
  BY <1>2, <1>3, <1>4, StepsOfActors

LEMMA StreaksEnd == DInv /\ StreakInv => FailuresInARowAreStopped
<1> SUFFICES ASSUME DInv, StreakInv, NEW i \in Incidents,
                    NEW few \in SUBSET {t \in TasksOn(i) : tasks[t].state = "FAILED"},
                    Cardinality(few) > Streak,
                    \A t \in TasksOn(i) \ few : (\A u \in few : t < u) \/ (\A u \in few : t > u),
                    ~\E t \in few, u \in TasksOn(i) : {t, u} \in overlapped
             PROVE  FALSE
  BY DEF FailuresInARowAreStopped
<1>1. TasksOn(i) \subseteq 1..Len(tasks) /\ Len(tasks) \in Nat /\ Streak \in Nat
  BY DispatchAssumption DEF TasksOn, Tasks, DInv, RowsInv
<1>2. few \in SUBSET Nat /\ few \in SUBSET (1..Len(tasks)) /\ few \subseteq TasksOn(i)
  BY <1>1
<1>0. IsFiniteSet(1..Len(tasks))
  <2>1. 1 \in Int /\ Len(tasks) \in Int
    BY <1>1
  <2>2. QED
    BY <2>1, FS_Interval
<1>3. IsFiniteSet(few) /\ Cardinality(few) \in Nat
  BY <1>0, <1>2, FS_Subset, FS_CardinalityType
<1>4. few # {}
  BY <1>1, <1>3, FS_EmptySet
<1>5. PICK m \in few : \A k \in few : k <= m
  BY <1>2, <1>3, <1>4, GreatestOf
<1>6. m \in 1..Len(tasks) /\ tasks[m].state = "FAILED" /\ tasks[m].incident = i
  BY <1>2, <1>5 DEF TasksOn
<1> DEFINE S == Older(m)
           rest == few \ {m}
<1>7. S = {u \in TasksOn(i) : u < m} /\ S \in SUBSET (1..Len(tasks)) /\ S \in SUBSET Nat
  BY <1>1, <1>6 DEF Older
<1>8. IsFiniteSet(S)
  BY <1>0, <1>7, FS_Subset
<1>9. ~StreakOver(S)
  <2>1. Passed(m)
    BY <1>6 DEF Passed
  <2>2. Alone(m)
    BY <1>5, <1>6 DEF Alone
  <2>3. QED
    BY <1>6, <2>1, <2>2 DEF StreakInv
<1> HIDE DEF S
<1>10. rest \subseteq S
  <2>1. ASSUME NEW u \in rest PROVE u \in TasksOn(i) /\ u < m
    <3>1. u <= m /\ u # m /\ u \in Nat /\ m \in Nat
      BY <1>2, <1>5, <2>1
    <3>2. QED
      BY <1>2, <2>1, <3>1
  <2>2. QED
    BY <1>7, <2>1
<1>11. IsFiniteSet(rest) /\ Cardinality(rest) = Cardinality(few) - 1
  BY <1>3, <1>5, FS_RemoveElement
<1>12. Cardinality(rest) >= Streak
  BY <1>1, <1>3, <1>11
<1>13. Cardinality(S) >= Streak /\ Cardinality(S) \in Nat
  BY <1>1, <1>3, <1>8, <1>10, <1>11, <1>12, FS_Subset, FS_CardinalityType
<1>14. Cardinality(Newest(S)) >= Streak
  BY <1>7, <1>8, <1>13, NewestAreEnough
<1>15. ASSUME NEW t \in Newest(S) PROVE tasks[t].state = "FAILED"
  <2> SUFFICES ASSUME t \notin few PROVE FALSE
    OBVIOUS
  <2>1. t \in S /\ Cardinality({u \in S : u > t}) < Streak
    BY <1>15 DEF Newest
  <2>2. t \in TasksOn(i) \ few /\ t < m /\ t \in Nat /\ m \in Nat
    BY <1>6, <1>7, <2>1
  <2>3. \A u \in few : t < u
    <3>1. CASE \A u \in few : t < u
      BY <3>1
    <3>2. CASE \A u \in few : t > u
      BY <1>5, <2>2, <3>2
    <3>3. QED
      BY <2>2, <3>1, <3>2
  <2>4. rest \subseteq {u \in S : u > t}
    <3>1. ASSUME NEW u \in rest PROVE u \in S /\ u > t
      <4>1. t < u /\ u \in Nat
        BY <1>2, <2>3, <3>1
      <4>2. QED
        BY <1>10, <2>2, <3>1, <4>1
    <3>2. QED
      BY <3>1
  <2> DEFINE above == {u \in S : u > t}
  <2>5. IsFiniteSet(above)
    BY <1>8, FS_Subset
  <2>6. Cardinality(rest) <= Cardinality(above) /\ Cardinality(above) \in Nat
    BY <2>4, <2>5, FS_Subset, FS_CardinalityType
  <2>7. QED
    BY <1>1, <1>3, <1>11, <1>12, <2>1, <2>6
<1>16. QED
  BY <1>9, <1>14, <1>15, StreakByNewest

-----------------------------------------------------------------------------
(* Caps *)

(* Who has passed its check and not made its task, and who may.             *)
Pending == {a \in Actors : step[a] = "create"}
Active == received \cup {w \in Watchers : step[w] # "done"}

(* The tasks there are and those to come.                                   *)
Bounded(made, cap, pending, active) == made + pending <= cap \/ made + pending < cap + active

(* A job that has not been delivered has not begun.                         *)
CapsInv ==
  /\ \A i \in Issues \ received : step[i] \in {"idle", "done"}
  /\ Bounded(Len(tasks), TasksPerDay, Cardinality(Pending), Cardinality(Active))
  /\ Bounded(Len(tasks) - hourAgo, TasksPerHour, Cardinality(Pending), Cardinality(Active))

LEMMA RecentByNumber ==
  ASSUME RowsInv
  PROVE  Cardinality(Recent) = Len(tasks) - hourAgo /\ Len(tasks) \in Nat /\ hourAgo \in 0..Len(tasks)
<1>1. Len(tasks) \in Nat /\ hourAgo \in 0..Len(tasks) /\ DOMAIN tasks = 1..Len(tasks)
  BY DEF RowsInv
<1>2. Recent = hourAgo+1 .. Len(tasks)
  BY <1>1 DEF Recent, Tasks
<1>3. Cardinality(hourAgo+1 .. Len(tasks)) = IF hourAgo+1 > Len(tasks) THEN 0 ELSE Len(tasks) - (hourAgo+1) + 1
  <2>1. hourAgo+1 \in Int /\ Len(tasks) \in Int
    BY <1>1
  <2>2. QED
    BY <2>1, FS_Interval
<1>4. QED
  BY <1>1, <1>2, <1>3

LEMMA PendingAreActive ==
  ASSUME LookInv, CapsInv
  PROVE  /\ Pending \subseteq Active
         /\ IsFiniteSet(Pending) /\ IsFiniteSet(Active)
         /\ Cardinality(Pending) \in Nat /\ Cardinality(Active) \in Nat
         /\ Cardinality(Pending) <= Cardinality(Active)
<1>1. Pending \subseteq Active
  BY DEF Pending, Active, CapsInv, Actors, Jobs
<1>2. Pending \in SUBSET Actors /\ Active \in SUBSET Actors
  BY DEF Pending, Active, LookInv, Actors, Jobs
<1>3. IsFiniteSet(Pending) /\ IsFiniteSet(Active)
  BY <1>2, ActorsAreFinite, FS_Subset
<1>4. QED
  BY <1>1, <1>3, FS_Subset, FS_CardinalityType

LEMMA CapsAreKept == DInv /\ CapsInv => CapsOvershootByActorsOnly
<1> SUFFICES ASSUME DInv, CapsInv PROVE CapsOvershootByActorsOnly
  OBVIOUS
<1>1. /\ Cardinality(Recent) = Len(tasks) - hourAgo /\ Len(tasks) \in Nat
      /\ hourAgo \in 0..Len(tasks)
  BY RecentByNumber DEF DInv
<1>2. Cardinality(Pending) \in Nat /\ Cardinality(Active) \in Nat
  BY PendingAreActive DEF DInv
<1>3. TasksPerDay \in Nat /\ TasksPerHour \in Nat
  BY DispatchAssumption
<1>4. ASSUME NEW made \in Nat, NEW cap \in Nat,
             Bounded(made, cap, Cardinality(Pending), Cardinality(Active))
      PROVE  made <= cap \/ made < cap + Cardinality(Active)
  BY <1>2, <1>4 DEF Bounded
<1>5. Len(tasks) - hourAgo \in Nat
  BY <1>1
<1>6. /\ Len(tasks) <= TasksPerDay \/ Len(tasks) < TasksPerDay + Cardinality(Active)
      /\ \/ Cardinality(Recent) <= TasksPerHour
         \/ Cardinality(Recent) < TasksPerHour + Cardinality(Active)
  BY <1>1, <1>3, <1>4, <1>5 DEF CapsInv
<1>7. QED
  BY <1>6 DEF CapsOvershootByActorsOnly, Active

(* A job that does something has been delivered.                            *)
LEMMA JobsBegin ==
  ASSUME LookInv, NEW a \in Actors, ActorStep(a), step[a] \in {"idle", "done"}, a \notin Watchers
  PROVE  a \in received'
<1>1. CASE Deliver(a)
  BY <1>1 DEF Deliver
<1>2. CASE ~Deliver(a)
  <2>1. LookUp(a) \/ CheckAnomalyRate(a) \/ Classify(a) \/ Triage(a) \/ Run(a)
    BY <1>2 DEF ActorStep
  <2>2. QED
    BY <2>1
       DEF LookUp, CheckAnomalyRate, Classify, Triage, CheckBreakers, CreateTask, StartTriage,
           FindSimilar, EmbeddingFails, MergeIntoExisting, StreakTrips, BelowFloor,
           DetectOnly, Run, TakeSlot, SlotRefused, HandedToRun, Declare, TakeLock, RunEnds,
           RunRaises
<1>3. QED
  BY <1>1, <1>2

LEMMA WatchersGoOn ==
  ASSUME LookInv, HandInv, NEW a \in Watchers, ActorStep(a)
  PROVE  step'[a] # "done" \/ step[a] = "done"
<1>0. Rest(a) \in {"idle", "logs"} /\ a \in Actors
  BY DispatchAssumption DEF Rest, Jobs, Actors
<1>1. CASE UNCHANGED <<step, since>>
  BY <1>1
<1>2. ASSUME NEW s, Goto(a, s), s # "done" PROVE step'[a] # "done"
  BY <1>0, <1>2 DEF Goto, LookInv
<1>3. ASSUME NEW left, LeaveWith(a, left) PROVE step'[a] # "done"
  <2>1. (IF left = << >> THEN Rest(a) ELSE "gate") # "done"
    BY <1>0
  <2>2. QED
    BY <1>2, <1>3, <2>1 DEF LeaveWith
<1>4. CASE Poll(a) \/ ListFails(a) \/ LogsBreach(a) \/ LogsQuiet(a) \/ (a \in Issues /\ Deliver(a))
  BY <1>2, <1>4 DEF Poll, ListFails, LogsBreach, LogsQuiet, Deliver
<1>5. CASE LookUp(a) \/ CheckAnomalyRate(a) \/ Classify(a)
  <2>1. \E s \in {"look", "rate", "classify", "gate", Rest(a)} : Goto(a, s)
    BY <1>5 DEF LookUp, CheckAnomalyRate, Classify
  <2>2. QED
    BY <1>0, <1>2, <2>1
<1>6. CASE Triage(a)
  BY <1>2, <1>3, <1>6
     DEF Triage, CheckBreakers, CreateTask, StartTriage, FindSimilar, EmbeddingFails,
         MergeIntoExisting, StreakTrips, BelowFloor, DetectOnly, NextAlert, Abandon
<1>7. CASE Run(a)
  BY <1>1, <1>2, <1>3, <1>7
     DEF Run, TakeSlot, SlotRefused, Declare, TakeLock, RunEnds, RunRaises, NextAlert, Abandon
<1>8. QED
  BY <1>4, <1>5, <1>6, <1>7 DEF ActorStep

(* Only the breakers let an actor pass, and they have counted.              *)
LEMMA GateOpens ==
  ASSUME RowsInv, LookInv, HandInv, NEW a \in Actors, ActorStep(a), step'[a] = "create"
  PROVE  CostAllows /\ HourAllows /\ tasks' = tasks
<1>1. KindOf(a)
  BY Kinds
<1>2. step[a] = "gate"
  BY <1>1 DEF KindOf, LookStep, AlertStep, GateStep, CreateStep, HandStep, LeaveStep, Alerted,
              InHand, Running
<1>3. Triage(a) \/ Run(a)
  <2>1. ASSUME ~(Triage(a) \/ Run(a)) PROVE FALSE
    <3>1. LookStep(a) \/ AlertStep(a)
      BY <2>1, LookKinds DEF ActorStep
    <3>2. QED
      BY <1>2, <3>1 DEF LookStep, AlertStep, Alerted
  <2>2. QED
    BY <2>1
<1>4. CheckBreakers(a)
  BY <1>2, <1>3 DEF Triage, CreateTask, StartTriage, FindSimilar, EmbeddingFails, MergeIntoExisting,
    StreakTrips, BelowFloor, DetectOnly, Run, TakeSlot, SlotRefused, HandedToRun, Declare, TakeLock,
    RunEnds, RunRaises, InHand, Running
<1>5. CASE CostAllows /\ HourAllows
  BY <1>4, <1>5 DEF CheckBreakers
<1>6. CASE NextAlert(a)
  <2>1. Rest(a) # "create"
    BY DEF Rest
  <2>2. step'[a] # "create"
    BY <1>6, <2>1 DEF NextAlert, LeaveWith, Goto, LookInv
  <2>3. QED
    BY <2>2
<1>7. QED
  BY <1>4, <1>5, <1>6 DEF CheckBreakers

LEMMA ActorKeepsCaps ==
  ASSUME RowsInv, LookInv, HandInv, KeyInv, CapsInv, NEW a \in Actors, ActorStep(a)
  PROVE  CapsInv'
<1>1. KindOf(a) /\ tasks' \in Seq(Rows) /\ Only(a) /\ LookInv' /\ RowsInv'
  BY Kinds, OnlyOne, ActorKeepsLook, ActorKeepsRows
<1>2. received \subseteq received' /\ hourAgo' = hourAgo
  BY ActorFrame DEF Deliver
<1>3. \A i \in Issues \ received' : step'[i] \in {"idle", "done"}
  <2> SUFFICES ASSUME NEW i \in Issues \ received' PROVE step'[i] \in {"idle", "done"}
    OBVIOUS
  <2>1. i \in Actors /\ step[i] \in {"idle", "done"} /\ i \notin Watchers
    BY <1>2, DispatchAssumption DEF CapsInv, Actors, Jobs
  <2>2. i # a
    BY <2>1, JobsBegin
  <2>3. QED
    BY <1>1, <2>1, <2>2 DEF Only
<1>4. Active \subseteq Active'
  <2>1. ASSUME NEW w \in Watchers, step[w] # "done" PROVE step'[w] # "done"
    <3>1. CASE w = a
      BY <2>1, <3>1, WatchersGoOn
    <3>2. CASE w # a
      <4>1. w \in Actors
        BY DEF Actors
      <4>2. QED
        BY <1>1, <2>1, <3>2, <4>1 DEF Only
    <3>3. QED
      BY <3>1, <3>2
  <2>2. QED
    BY <1>2, <2>1 DEF Active
<1>5. /\ IsFiniteSet(Pending) /\ IsFiniteSet(Active)
      /\ Cardinality(Pending) \in Nat /\ Cardinality(Active) \in Nat
      /\ Cardinality(Pending) <= Cardinality(Active)
  BY PendingAreActive
<1>6. IsFiniteSet(Active') /\ Cardinality(Active') \in Nat
  <2>1. Active' \in SUBSET Actors
    BY <1>1 DEF Active, LookInv, Actors, Jobs
  <2>2. QED
    BY <2>1, ActorsAreFinite, FS_Subset, FS_CardinalityType
<1>7. Cardinality(Active) <= Cardinality(Active')
  BY <1>4, <1>6, FS_Subset
<1>8. Pending' \ {a} = Pending \ {a}
  BY <1>1 DEF Pending, Only
<1>9. IsFiniteSet(Pending') /\ Cardinality(Pending') \in Nat
  <2>1. Pending' \in SUBSET Actors
    BY DEF Pending
  <2>2. QED
    BY <2>1, ActorsAreFinite, FS_Subset, FS_CardinalityType
<1>10. /\ Cardinality(Recent) = Len(tasks) - hourAgo /\ Len(tasks) \in Nat
       /\ hourAgo \in 0..Len(tasks) /\ TasksPerDay \in Nat /\ TasksPerHour \in Nat
  BY RecentByNumber, DispatchAssumption
<1>11. Len(tasks) - hourAgo \in Nat
  BY <1>10
<1> DEFINE p == Cardinality(Pending)
           p2 == Cardinality(Pending')
           n == Cardinality(Active)
           n2 == Cardinality(Active')
           made == Len(tasks)
           made2 == Len(tasks')
<1>12. /\ p \in Nat /\ p2 \in Nat /\ n \in Nat /\ n2 \in Nat /\ p <= n /\ n <= n2
       /\ made \in Nat /\ hourAgo \in 0..made
  BY <1>5, <1>6, <1>7, <1>9, <1>10
<1>13. Bounded(made, TasksPerDay, p, n) /\ Bounded(made - hourAgo, TasksPerHour, p, n)
  BY DEF CapsInv
<1>14. SUFFICES Bounded(made2, TasksPerDay, p2, n2) /\ Bounded(made2 - hourAgo, TasksPerHour, p2, n2)
  BY <1>2, <1>3 DEF CapsInv
<1>15. CASE step'[a] = "create"
  <2>1. made + 1 <= TasksPerDay /\ made - hourAgo < TasksPerHour /\ made2 = made
    BY <1>10, <1>15, GateOpens DEF CostAllows, HourAllows
  <2>2. Pending' \subseteq Active'
    BY <1>3 DEF Pending, Active, Actors, Jobs
  <2>3. p2 <= n2
    BY <1>6, <2>2, FS_Subset
  <2> HIDE DEF p, p2, n, n2, made, made2
  <2>4. made2 + p2 < TasksPerDay + n2 /\ made2 - hourAgo + p2 < TasksPerHour + n2
    BY <1>10, <1>12, <2>1, <2>3
  <2>5. QED
    BY <2>4 DEF Bounded
<1>16. CASE CreateStep(a)
  <2>1. made2 = made + 1
    BY <1>16, AppendProperties DEF CreateStep, RowsInv
  <2>2. a \in Pending /\ a \notin Pending'
    BY <1>16 DEF CreateStep, Pending
  <2>3. Pending' = Pending \ {a}
    BY <1>8, <2>2
  <2>4. p2 = p - 1
    BY <1>5, <2>2, <2>3, FS_RemoveElement
  <2> HIDE DEF p, p2, n, n2, made, made2
  <2>5. made2 + p2 <= made + p /\ made2 - hourAgo + p2 <= made - hourAgo + p
        /\ made2 \in Nat /\ made2 - hourAgo \in Nat
    BY <1>12, <2>1, <2>4
  <2>6. made - hourAgo \in Nat
    BY <1>12
  <2>7. QED
    BY <1>10, <1>12, <1>13, <2>5, <2>6 DEF Bounded
<1>17. CASE step'[a] # "create" /\ ~CreateStep(a)
  <2>1. made2 = made
    BY <1>1, <1>17, RowsGrow
  <2>2. Pending' \subseteq Pending
    BY <1>8, <1>17 DEF Pending
  <2>3. p2 <= p
    BY <1>5, <2>2, FS_Subset
  <2> HIDE DEF p, p2, n, n2, made, made2
  <2>5. made2 + p2 <= made + p /\ made2 - hourAgo + p2 <= made - hourAgo + p
        /\ made2 \in Nat /\ made2 - hourAgo \in Nat
    BY <1>12, <2>1, <2>3
  <2>6. made - hourAgo \in Nat
    BY <1>12
  <2>7. QED
    BY <1>10, <1>12, <1>13, <2>5, <2>6 DEF Bounded
<1>18. QED
  BY <1>15, <1>16, <1>17

LEMMA StepKeepsCaps == DInv /\ CapsInv /\ [Next]_vars => CapsInv'
<1> SUFFICES ASSUME DInv, CapsInv, [Next]_vars PROVE CapsInv'
  OBVIOUS
<1>1. CASE HourPasses
  <2>1. /\ UNCHANGED <<tasks, received, step>> /\ hourAgo' = Len(tasks)
    BY <1>1 DEF HourPasses, actorVars
  <2>2. Pending' = Pending /\ Active' = Active
    BY <2>1 DEF Pending, Active
  <2>3. /\ Cardinality(Pending) \in Nat /\ Cardinality(Active) \in Nat
        /\ Cardinality(Pending) <= Cardinality(Active)
    BY PendingAreActive DEF DInv
  <2>4. Len(tasks) \in Nat /\ hourAgo \in 0..Len(tasks) /\ TasksPerHour \in Nat
    BY RecentByNumber, DispatchAssumption DEF DInv
  <2>5. Bounded(Len(tasks) - hourAgo, TasksPerHour, Cardinality(Pending), Cardinality(Active))
    BY DEF CapsInv
  <2>6. Bounded(Len(tasks) - Len(tasks), TasksPerHour, Cardinality(Pending), Cardinality(Active))
    BY <2>3, <2>4, <2>5 DEF Bounded
  <2>7. QED
    BY <2>1, <2>2, <2>6 DEF CapsInv
<1>2. CASE UNCHANGED vars
  BY <1>2 DEF vars, actorVars, CapsInv, Pending, Active
<1>3. CASE \E a \in Actors : ActorStep(a)
  BY <1>3, ActorKeepsCaps DEF DInv
<1>4. CASE \E p \in Processes : Crash(p)
  <2>1. /\ UNCHANGED <<tasks, hourAgo, received>>
        /\ \A a \in Actors : step'[a] = step[a] \/ (/\ step[a] \notin {"idle", "done"}
                                                    /\ step'[a] = IF a \in Jobs THEN "done" ELSE "idle")
    BY <1>4, CrashFrame
  <2>2. \A i \in Issues \ received : step'[i] \in {"idle", "done"}
    BY <2>1 DEF CapsInv, Actors, Jobs
  <2>3. Pending' \subseteq Pending
    BY <2>1 DEF Pending
  <2>4. Active' = Active
    <3>1. ASSUME NEW w \in Watchers PROVE step'[w] # "done" <=> step[w] # "done"
      <4>1. w \in Actors /\ w \notin Jobs
        BY DispatchAssumption DEF Actors, Jobs
      <4>2. QED
        BY <2>1, <4>1
    <3>2. QED
      BY <2>1, <3>1 DEF Active
  <2>5. /\ Cardinality(Pending) \in Nat /\ Cardinality(Active) \in Nat /\ IsFiniteSet(Pending)
    BY PendingAreActive DEF DInv
  <2>6. Cardinality(Pending') \in Nat /\ Cardinality(Pending') <= Cardinality(Pending)
    BY <2>3, <2>5, FS_Subset, FS_CardinalityType
  <2>7. /\ Len(tasks) \in Nat /\ hourAgo \in 0..Len(tasks)
        /\ TasksPerHour \in Nat /\ TasksPerDay \in Nat
    BY RecentByNumber, DispatchAssumption DEF DInv
  <2>8. ASSUME NEW made \in Nat, NEW cap \in Nat,
               Bounded(made, cap, Cardinality(Pending), Cardinality(Active))
        PROVE  Bounded(made, cap, Cardinality(Pending'), Cardinality(Active))
    BY <2>5, <2>6, <2>8 DEF Bounded
  <2>9. Len(tasks) - hourAgo \in Nat
    BY <2>7
  <2>10. /\ Bounded(Len(tasks), TasksPerDay, Cardinality(Pending'), Cardinality(Active))
         /\ Bounded(Len(tasks) - hourAgo, TasksPerHour, Cardinality(Pending'), Cardinality(Active))
    BY <2>7, <2>8, <2>9 DEF CapsInv
  <2>11. QED
    BY <2>1, <2>2, <2>4, <2>10 DEF CapsInv
<1>5. QED
  BY <1>1, <1>2, <1>3, <1>4, StepsOfActors

LEMMA InitHistories == Init => OverlapInv /\ MergeInv /\ StreakInv /\ CapsInv
<1> SUFFICES ASSUME Init PROVE OverlapInv /\ MergeInv /\ StreakInv /\ CapsInv
  OBVIOUS
<1>1. tasks = << >> /\ Len(tasks) = 0 /\ hourAgo = 0 /\ 1..Len(tasks) = {}
  BY EmptySeq DEF Init
<1>2. /\ \A a \in Actors : step[a] \in {"idle", "done"} /\ twin[a] = 0
      /\ received = {}
  BY DEF Init
<1>3. OverlapInv /\ MergeInv /\ StreakInv
  BY <1>1, <1>2 DEF OverlapInv, MergeInv, StreakInv
<1>4. Pending = {} /\ Cardinality(Pending) = 0
  BY <1>2, FS_EmptySet DEF Pending
<1>5. \A i \in Issues \ received : step[i] \in {"idle", "done"}
  BY <1>2 DEF Actors, Jobs
<1>6. TasksPerHour \in Nat /\ TasksPerDay \in Nat
  BY DispatchAssumption
<1>7. QED
  BY <1>1, <1>3, <1>4, <1>5, <1>6 DEF CapsInv, Bounded

-----------------------------------------------------------------------------
(* The theorems *)

(* The invariant holds however many actors look, triage, run and die.       *)
THEOREM DispatchInvariance == Spec => []DInv
BY InitDInv, StepKeepsDInv, PTL DEF Spec

(* Rows, actors, slots and locks keep their types.                          *)
THEOREM DispatchTyping == Spec => []TypeOK
BY DispatchInvariance, DInvTypes, PTL

(* The counters of a process (orchestrator/concurrency.py:213) are its runs *)
(* at any time, and stay within the limits: none is leaked by a run that    *)
(* raises or is refused, and none is given back twice.                      *)
THEOREM SlotsCountTheRuns == Spec => []SlotsAreTheRuns
<1>1. DInv => SlotsAreTheRuns
  BY DEF DInv, SlotInv
<1>2. QED
  BY <1>1, DispatchInvariance, PTL

(* Runs of any number of processes that wait for keys do not wait in a      *)
(* circle: each takes its keys in order (orchestrator/concurrency.py:103).  *)
THEOREM WaitsEnd == Spec => []LockWaitsEnd
<1>1. DInv => LockWaitsEnd
  BY KeysEndTheWaits DEF DInv
<1>2. QED
  BY <1>1, DispatchInvariance, PTL

(* An open duplicate of a new task is one that its maker could not see: it  *)
(* came after the look at the open ones (orchestrator/watch.py:82), whoever *)
(* made it and however the two overlapped.                                  *)
THEOREM DuplicatesComeLater == Spec => []DuplicatesAreUnseen
<1>1. Init => DInv /\ SeenInv
  BY InitDInv, InitSeen
<1>2. DInv /\ SeenInv /\ [Next]_vars => (DInv /\ SeenInv)'
  BY StepKeepsDInv, StepKeepsSeen
<1>3. QED
  BY <1>1, <1>2, SeenShowsDuplicates, PTL DEF Spec

(* Triages that run at once (orchestrator/watch.py:99) are the only way for *)
(* tasks to be merged into each other in a circle that nobody works on,     *)
(* however long the circle: its oldest task was in hand when the one it was *)
(* merged into came.                                                        *)
THEOREM CirclesComeOfOverlaps == Spec => []MergedInCirclesOnlyByOverlap
<1>1. Init => DInv /\ OverlapInv /\ MergeInv
  BY InitDInv, InitHistories
<1>2. DInv /\ OverlapInv /\ MergeInv /\ [Next]_vars => (DInv /\ OverlapInv /\ MergeInv)'
  BY StepKeepsDInv, StepKeepsOverlaps, StepKeepsMerges
<1>3. QED
  BY <1>1, <1>2, CirclesOverlap, PTL DEF Spec

(* The failure streak breaker (safety/circuit_breakers.py:193) stops every  *)
(* attempt in sequence: more failures in a row than its number mean that    *)
(* one of them overlapped with another task on the incident.                *)
THEOREM StreaksAreStopped == Spec => []FailuresInARowAreStopped
<1>1. Init => DInv /\ OverlapInv /\ StreakInv
  BY InitDInv, InitHistories
<1>2. DInv /\ OverlapInv /\ StreakInv /\ [Next]_vars => (DInv /\ OverlapInv /\ StreakInv)'
  BY StepKeepsDInv, StepKeepsOverlaps, StepKeepsStreak
<1>3. QED
  BY <1>1, <1>2, StreaksEnd, PTL DEF Spec

(* The caps per day and per hour are checked before the row is written      *)
(* (safety/circuit_breakers.py:103), and are passed by fewer tasks than     *)
(* there are watchers and deliveries: each has at most one task unwritten.  *)
THEOREM CapsHoldButForActors == Spec => []CapsOvershootByActorsOnly
<1>1. Init => DInv /\ CapsInv
  BY InitDInv, InitHistories
<1>2. DInv /\ CapsInv /\ [Next]_vars => (DInv /\ CapsInv)'
  BY StepKeepsDInv, StepKeepsCaps
<1>3. QED
  BY <1>1, <1>2, CapsAreKept, PTL DEF Spec
=============================================================================
