---------------------------- MODULE FixChainProofs ----------------------------
(***************************************************************************)
(* Proofs about FixChain for any budgets, files and reports: what is       *)
(* proposed was tested, approved, squashed, small and within the cited     *)
(* files; the loop is bounded; the recorded commit exists; locks and tasks *)
(* are not left behind.                                                    *)
(***************************************************************************)
EXTENDS FixChain, TLAPS

-----------------------------------------------------------------------------
(* The inductive invariant, by what a step of the run may rely on *)

Before == {"setup", "triage", "investigate", "examine", "report", "plan", "lock"}
InTheLoop == {"coding", "record", "cap", "testing", "tested", "review"}
Proposing == {"squash", "resquash", "open", "note", "wait"}
Left == {"failed", "returned", "escaped", "handling", "ended", "lost", "dead"}

Settled == TERMINAL_STATES \cup {"WAITING_FOR_APPROVAL", "MERGED"}

(* From the plan on the report cites a file; a resume has such a report.    *)
HasScope ==
  /\ step \in {"lock", "enter"} \cup InTheLoop \cup Proposing => cites # {}
  /\ caller = "resume" =>
       cites # {} /\ step \notin {"investigate", "examine", "report", "plan"}

(* The tree under review is the tree that passed.                           *)
TestedIsReviewed ==
  /\ step = "tested" /\ allPassed => passedTree = head.tree
  /\ step = "review" => allPassed /\ passedTree = head.tree

(* The tree on its way into the pull request is the one that was approved.  *)
ApprovedIsProposed ==
  /\ step \in {"squash", "resquash", "open"} =>
       /\ approvedTree = head.tree /\ passedTree = head.tree
       /\ touched \subseteq Declared(cites)
  /\ step = "resquash" => head.squashed /\ head.tree > 0
  /\ step = "open" /\ head.tree > 0 => head.squashed /\ recorded = head
  /\ step \in {"note", "wait"} => pr = recorded
  /\ pr # NoCommit => step \in {"note", "wait"} \cup Left

(* Until the squash the recorded commit is one of the working history, and  *)
(* after it the task is in no state that a resume starts from.              *)
RecordFollowsHead ==
  /\ step \in Before \cup {"enter"} \cup InTheLoop =>
       /\ ~head.squashed
       /\ recorded = NoCommit \/ (~recorded.squashed /\ recorded.tree <= head.tree)
  /\ step \in Proposing => state \notin {"CODING", "TESTING"}
  /\ state = "WAITING_FOR_APPROVAL" => step \in Left

(* Each entry into the loop after the first is paid for by one budget.      *)
EntriesArePaid ==
  /\ step \in Before => codings = 0 /\ noop_attempts = 0
  /\ step = "enter" =>
       /\ codings <= fix_iterations + review_cycles + noop_attempts
       /\ noop_attempts < MAX_NOOP_ATTEMPTS
  /\ step \in InTheLoop =>
       /\ codings <= fix_iterations + review_cycles + noop_attempts + 1
       /\ noop_attempts < MAX_NOOP_ATTEMPTS

(* The locks, from their acquisition to the finally clause.                 *)
LocksAreHeld == step \in {"enter"} \cup InTheLoop \cup Proposing => holding

(* What the failure handler has read is the row, until somebody moves it.   *)
HandlerKnows ==
  /\ step = "returned" => state \in Settled
  /\ step = "handling" /\ overtaken => state \in {"CANCELLED", "MERGED"}
  /\ step = "handling" /\ ~overtaken => state = handlerSaw

FInv ==
  /\ TypeOK
  /\ HasScope /\ TestedIsReviewed /\ ApprovedIsProposed /\ RecordFollowsHead
  /\ EntriesArePaid /\ LocksAreHeld /\ HandlerKnows
  /\ OnlyReviewedWorkIsProposed /\ BudgetsBoundTheLoop /\ RecordedCommitExists
  /\ NoTaskLeftWorking /\ LocksCoverTheWork

-----------------------------------------------------------------------------
(* Facts about the tables and the checks *)

(* No move leaves a terminal state.                                         *)
LEMMA EndedHasNoExit ==
  ASSUME NEW s \in TERMINAL_STATES, NEW to
  PROVE  ~CanMove(s, to)
BY DEF CanMove, TRANSITIONS, SpecTable, Cancellations, SystemAborts, Reconciliations,
       NonTerminal, TERMINAL_STATES, TaskState

(* A failure ends the task.                                                 *)
LEMMA FailuresEnd ==
  ASSUME NEW s
  PROVE  FailureState(s) \in TERMINAL_STATES /\ FailureState(s) \in TaskState
         /\ FailureState(s) # "WAITING_FOR_APPROVAL"
BY DEF FailureState, TERMINAL_STATES, TaskState

LEMMA StatesAreKnown ==
  /\ {"CREATED", "TRIAGING", "INVESTIGATING", "PLANNING_FIX", "CODING", "TESTING", "REVIEWING",
      "PR_CREATION", "WAITING_FOR_APPROVAL", "MERGED", "FAILED", "CANCELLED",
      "NEEDS_HUMAN_INPUT"} \subseteq TaskState
  /\ {"FAILED", "CANCELLED", "NEEDS_HUMAN_INPUT"} \subseteq TERMINAL_STATES
BY DEF TaskState, TERMINAL_STATES

(* A report that goes on to a plan cites something.                         *)
LEMMA PlansCite ==
  ASSUME NEW c, NEW confident
  PROVE  /\ route_after_investigation(c, confident) \in {"PLANNING_FIX", "NEEDS_HUMAN_INPUT"}
         /\ route_after_investigation(c, confident) = "PLANNING_FIX" => c # {}
BY DEF route_after_investigation, has_no_citations

(* An approval, the reviewer's or an override, holds of a diff within the   *)
(* cited files.                                                             *)
LEMMA ApprovedInScope ==
  ASSUME NEW verdict, NEW changed, NEW c, NEW passed, c # {},
         enforce_review_checks(verdict, changed, c, passed)
  PROVE  changed \subseteq Declared(c)
BY DEF enforce_review_checks, Overridden, out_of_scope_files

LEMMA DeclaredIsCited ==
  ASSUME NEW c
  PROVE  Declared(c) \subseteq {x.file : x \in c}
BY DEF Declared

-----------------------------------------------------------------------------
LEMMA FixInit == Init => FInv
<1> SUFFICES ASSUME Init PROVE FInv
  OBVIOUS
<1>a. /\ head \in Commits /\ ~head.squashed /\ recorded \in Commits
      /\ recorded = NoCommit \/ recorded = head
  <2>1. Baseline \in Commits /\ NoCommit \in Commits /\ ~Baseline.squashed
    BY BudgetsAssumption DEF Commits, NoCommit, Baseline
  <2>2. CASE head = Baseline /\ recorded = NoCommit
    BY <2>1, <2>2
  <2>3. CASE head \in {[tree |-> t, squashed |-> FALSE] : t \in 0..(MaxTrees - 1)}
             /\ recorded = head
    <3>1. PICK t \in 0..(MaxTrees - 1) : head = [tree |-> t, squashed |-> FALSE]
      BY <2>3
    <3>2. t \in 0..MaxTrees
      BY BudgetsAssumption
    <3>3. head \in Commits /\ ~head.squashed
      BY <3>1, <3>2 DEF Commits
    <3>4. QED
      BY <2>3, <3>3
  <2>4. QED
    BY <2>2, <2>3 DEF Init, Fresh, Resumed
<1>b. /\ state \in {"CREATED", "TRIAGING", "CODING", "TESTING"}
      /\ caller \in Callers /\ cites \in Reports \cup {{}} /\ touched \subseteq Files
      /\ over \in BOOLEAN
  BY DEF Init, Fresh, Resumed, Callers
<1>1. TypeOK
  <2>1. 0 \in 0..MAX_FIX_ITERATIONS /\ 0 \in 0..MAX_REVIEW_CYCLES /\ 0 \in 0..MAX_NOOP_ATTEMPTS
        /\ 0 \in 0..MaxTrees /\ 0 \in 0..(LoopBound + 1)
    BY BudgetsAssumption DEF LoopBound
  <2>2. NoCommit \in Commits
    BY <2>1 DEF NoCommit, Commits
  <2>3. QED
    BY <1>a, <1>b, <2>1, <2>2, StatesAreKnown DEF Init, TypeOK, Steps
<1>2. HasScope
  BY PlansCite DEF Init, Fresh, Resumed, HasScope, InTheLoop, Proposing
<1>3. RecordFollowsHead /\ RecordedCommitExists
  <2>1. recorded # NoCommit => recorded.tree <= head.tree /\ ~recorded.squashed
    BY <1>a, BudgetsAssumption DEF Commits
  <2>2. step = "setup"
    BY DEF Init
  <2>3. QED
    BY <1>a, <1>b, <2>1, <2>2 DEF RecordFollowsHead, RecordedCommitExists, Proposing
<1>4. TestedIsReviewed /\ ApprovedIsProposed /\ EntriesArePaid /\ LocksAreHeld /\ HandlerKnows
  BY DEF Init, TestedIsReviewed, ApprovedIsProposed, EntriesArePaid, LocksAreHeld, HandlerKnows,
         Before, InTheLoop, Proposing
<1>5. OnlyReviewedWorkIsProposed /\ BudgetsBoundTheLoop /\ NoTaskLeftWorking /\ LocksCoverTheWork
  BY BudgetsAssumption DEF Init, OnlyReviewedWorkIsProposed, BudgetsBoundTheLoop, LoopBound,
     NoTaskLeftWorking, LocksCoverTheWork
<1>6. QED
  BY <1>1, <1>2, <1>3, <1>4, <1>5 DEF FInv

-----------------------------------------------------------------------------
(* A move goes on, or leaves the chain without having touched the row.      *)
LEMMA MoveOutcomes ==
  ASSUME NEW to, NEW next, Move(to, next)
  PROVE  \/ state' = to /\ step' = next /\ overtaken' = FALSE
         \/ state' = state /\ step' = "escaped" /\ overtaken' = overtaken
BY DEF Move

LEMMA TripKeeps ==
  ASSUME FInv, SetUp \/ Triage \/ Investigate \/ PersistReport
  PROVE  FInv'
<1> USE DEF given, counters, attempt, git, history, Continue, CommitContext
<1>1. /\ step \in Before \ {"lock"}
      /\ step' \in (Before \ {"setup", "examine"}) \cup {"escaped", "examine"}
      /\ caller = "resume" => step' \in {"triage", "lock", "escaped"}
      /\ step' = "lock" => caller = "resume"
      /\ state' \in {state, "TRIAGING", "INVESTIGATING", "PLANNING_FIX"}
      /\ overtaken' \in BOOLEAN
      /\ UNCHANGED <<given, counters, attempt, git, recorded, holding, pr, handlerSaw, history>>
  BY DEF FInv, TypeOK, HasScope, SetUp, Triage, Investigate, PersistReport, Move, Before
<1>2. TypeOK'
  BY <1>1, StatesAreKnown DEF FInv, TypeOK, Before, Steps
<1>3. HasScope' /\ TestedIsReviewed' /\ EntriesArePaid' /\ LocksAreHeld'
  BY <1>1 DEF FInv, HasScope, TestedIsReviewed, EntriesArePaid, LocksAreHeld, Before, InTheLoop,
              Proposing
<1>4. ApprovedIsProposed' /\ OnlyReviewedWorkIsProposed'
  BY <1>1 DEF FInv, ApprovedIsProposed, OnlyReviewedWorkIsProposed, Before, Proposing, Left
<1>5. RecordFollowsHead' /\ RecordedCommitExists'
  BY <1>1 DEF FInv, RecordFollowsHead, RecordedCommitExists, Before, InTheLoop, Proposing, Left
<1>6. HandlerKnows' /\ BudgetsBoundTheLoop' /\ NoTaskLeftWorking' /\ LocksCoverTheWork'
  BY <1>1 DEF FInv, HandlerKnows, BudgetsBoundTheLoop, LoopBound, NoTaskLeftWorking, LocksCoverTheWork,
              Before
<1>7. QED
  BY <1>2, <1>3, <1>4, <1>5, <1>6 DEF FInv

LEMMA ReportKeeps ==
  ASSUME FInv, Examine \/ RouteReport
  PROVE  FInv'
<1> USE DEF given, counters, attempt, git, history, Continue
<1>1. /\ step \in {"examine", "plan"} /\ caller # "resume"
      /\ step' \in {"report", "failed", "lock", "returned", "escaped"}
      /\ step' = "lock" => cites' # {}
      /\ step' = "returned" => state' = "NEEDS_HUMAN_INPUT"
      /\ state' \in {state, "PLANNING_FIX", "NEEDS_HUMAN_INPUT"}
      /\ overtaken' \in BOOLEAN /\ cites' \in Reports \cup {{}}
      /\ UNCHANGED <<caller, counters, attempt, git, recorded, holding, pr, handlerSaw, history>>
  <2>1. CASE Examine
    BY <2>1 DEF FInv, TypeOK, HasScope, Examine
  <2>2. CASE RouteReport
    <3>1. PICK confident \in BOOLEAN :
            LET to == route_after_investigation(cites, confident)
            IN  Move(to, IF to = "PLANNING_FIX" THEN "lock" ELSE "returned")
      BY <2>2 DEF RouteReport
    <3> DEFINE to == route_after_investigation(cites, confident)
    <3>2. to \in {"PLANNING_FIX", "NEEDS_HUMAN_INPUT"} /\ (to = "PLANNING_FIX" => cites # {})
      BY PlansCite
    <3>3. \/ state' = to /\ step' = (IF to = "PLANNING_FIX" THEN "lock" ELSE "returned")
             /\ overtaken' = FALSE
          \/ state' = state /\ step' = "escaped" /\ overtaken' = overtaken
      BY <3>1, MoveOutcomes
    <3> HIDE DEF to
    <3>4. QED
      BY <2>2, <3>2, <3>3 DEF RouteReport, FInv, TypeOK, HasScope
  <2>3. QED
    BY <2>1, <2>2
<1>2. TypeOK'
  BY <1>1, StatesAreKnown DEF FInv, TypeOK, Steps
<1>3. HasScope' /\ TestedIsReviewed' /\ EntriesArePaid' /\ LocksAreHeld'
  BY <1>1 DEF FInv, HasScope, TestedIsReviewed, EntriesArePaid, LocksAreHeld, Before, InTheLoop,
              Proposing
<1>4. ApprovedIsProposed' /\ OnlyReviewedWorkIsProposed'
  BY <1>1 DEF FInv, ApprovedIsProposed, OnlyReviewedWorkIsProposed, Proposing, Left
<1>5. RecordFollowsHead' /\ RecordedCommitExists'
  BY <1>1 DEF FInv, RecordFollowsHead, RecordedCommitExists, Before, InTheLoop, Proposing, Left
<1>6. HandlerKnows' /\ BudgetsBoundTheLoop' /\ NoTaskLeftWorking' /\ LocksCoverTheWork'
  BY <1>1, StatesAreKnown DEF FInv, HandlerKnows, BudgetsBoundTheLoop, LoopBound,
     NoTaskLeftWorking, LocksCoverTheWork, Settled
<1>7. QED
  BY <1>2, <1>3, <1>4, <1>5, <1>6 DEF FInv

LEMMA LockKeeps ==
  ASSUME FInv, AcquireLocks
  PROVE  FInv'
<1> USE DEF given, counters, attempt, git, history, Continue
<1>1. /\ step = "lock" /\ step' = "enter" /\ holding' = TRUE
      /\ UNCHANGED <<given, state, overtaken, counters, attempt, git, recorded, pr, handlerSaw,
                     history>>
  BY DEF AcquireLocks
<1>2. TypeOK'
  BY <1>1 DEF FInv, TypeOK, Steps
<1>3. HasScope' /\ TestedIsReviewed' /\ LocksAreHeld'
  BY <1>1 DEF FInv, HasScope, TestedIsReviewed, LocksAreHeld, InTheLoop, Proposing
<1>4. EntriesArePaid'
  BY <1>1, BudgetsAssumption DEF FInv, TypeOK, EntriesArePaid, Before, InTheLoop
<1>5. ApprovedIsProposed' /\ OnlyReviewedWorkIsProposed'
  BY <1>1 DEF FInv, ApprovedIsProposed, OnlyReviewedWorkIsProposed, Proposing, Left
<1>6. RecordFollowsHead' /\ RecordedCommitExists'
  BY <1>1 DEF FInv, RecordFollowsHead, RecordedCommitExists, Before, InTheLoop, Proposing, Left
<1>7. HandlerKnows' /\ BudgetsBoundTheLoop' /\ NoTaskLeftWorking' /\ LocksCoverTheWork'
  BY <1>1 DEF FInv, HandlerKnows, BudgetsBoundTheLoop, LoopBound, NoTaskLeftWorking,
              LocksCoverTheWork
<1>8. QED
  BY <1>2, <1>3, <1>4, <1>5, <1>6, <1>7 DEF FInv

-----------------------------------------------------------------------------
(* The loop *)

LEMMA EnterKeeps ==
  ASSUME FInv, EnterCoding
  PROVE  FInv'
<1> USE DEF given, counters, attempt, git, history
<1>1. /\ step = "enter"
      /\ \/ state' = "CODING" /\ step' = "coding" /\ overtaken' = FALSE
         \/ state' = state /\ step' = "escaped" /\ overtaken' = overtaken
      /\ edited' = FALSE /\ codings' \in {codings, codings + 1}
      /\ UNCHANGED <<given, counters, agentOk, allPassed, git, recorded, holding, pr, handlerSaw,
                     passedTree, approvedTree>>
  BY MoveOutcomes DEF EnterCoding
<1>2. codings' <= LoopBound /\ codings' <= fix_iterations + review_cycles + noop_attempts + 1
      /\ codings' \in 0..(LoopBound + 1)
  BY <1>1, BudgetsAssumption DEF FInv, TypeOK, EntriesArePaid, LoopBound
<1>3. TypeOK'
  BY <1>1, <1>2, StatesAreKnown DEF FInv, TypeOK, Steps, LoopBound
<1>4. HasScope' /\ TestedIsReviewed' /\ LocksAreHeld'
  BY <1>1 DEF FInv, HasScope, TestedIsReviewed, LocksAreHeld, InTheLoop, Proposing
<1>5. EntriesArePaid'
  BY <1>1, <1>2 DEF FInv, EntriesArePaid, Before, InTheLoop
<1>6. ApprovedIsProposed' /\ OnlyReviewedWorkIsProposed'
  BY <1>1 DEF FInv, ApprovedIsProposed, OnlyReviewedWorkIsProposed, Proposing, Left
<1>7. RecordFollowsHead' /\ RecordedCommitExists'
  BY <1>1 DEF FInv, RecordFollowsHead, RecordedCommitExists, Before, InTheLoop, Proposing, Left
<1>8. BudgetsBoundTheLoop'
  BY <1>2 DEF BudgetsBoundTheLoop, LoopBound
<1>9. HandlerKnows' /\ NoTaskLeftWorking' /\ LocksCoverTheWork'
  BY <1>1 DEF FInv, LocksAreHeld, HandlerKnows, NoTaskLeftWorking, LocksCoverTheWork
<1>10. QED
  BY <1>3, <1>4, <1>5, <1>6, <1>7, <1>8, <1>9 DEF FInv

LEMMA EditKeeps ==
  ASSUME FInv, EditFile
  PROVE  FInv'
<1> USE DEF given, counters, attempt, git, history
<1>1. /\ step = "coding" /\ edited' = TRUE
      /\ UNCHANGED <<given, state, overtaken, step, counters, agentOk, allPassed, recorded,
                     holding, pr, handlerSaw, history>>
  BY DEF EditFile
<1>2. /\ head' \in Commits /\ ~head'.squashed /\ head.tree <= head'.tree
      /\ over' \in BOOLEAN /\ touched' \subseteq Files
  <2>1. head.tree \in 0..MaxTrees /\ ~head.squashed
    BY <1>1 DEF FInv, TypeOK, Commits, RecordFollowsHead, InTheLoop
  <2>2. CASE UNCHANGED git
    BY <2>1, <2>2, BudgetsAssumption DEF FInv, TypeOK
  <2>3. CASE head.tree < MaxTrees /\ head' = [tree |-> head.tree + 1, squashed |-> FALSE]
             /\ (\E f \in Files : touched' \in {touched \cup {f}, touched \ {f}})
             /\ over' \in BOOLEAN
    <3>1. head.tree + 1 \in 0..MaxTrees
      BY <2>1, <2>3, BudgetsAssumption
    <3>2. head' \in Commits /\ ~head'.squashed /\ head.tree <= head'.tree
      BY <2>1, <2>3, <3>1, BudgetsAssumption DEF Commits
    <3>3. touched' \subseteq Files
      BY <2>3 DEF FInv, TypeOK
    <3>4. QED
      BY <2>3, <3>2, <3>3
  <2>4. QED
    BY <2>2, <2>3 DEF EditFile
<1>3. TypeOK'
  BY <1>1, <1>2 DEF FInv, TypeOK
<1>4. HasScope' /\ TestedIsReviewed' /\ LocksAreHeld' /\ EntriesArePaid'
  BY <1>1 DEF FInv, HasScope, TestedIsReviewed, LocksAreHeld, EntriesArePaid
<1>5. ApprovedIsProposed' /\ OnlyReviewedWorkIsProposed'
  BY <1>1 DEF FInv, ApprovedIsProposed, OnlyReviewedWorkIsProposed, Proposing, Left
<1>6. RecordFollowsHead' /\ RecordedCommitExists'
  <2>1. recorded = NoCommit \/ (~recorded.squashed /\ recorded.tree <= head.tree)
    BY <1>1 DEF FInv, RecordFollowsHead, InTheLoop
  <2>2. head.tree \in Nat /\ head'.tree \in Nat /\ recorded.tree \in Nat
    BY <1>2, BudgetsAssumption DEF FInv, TypeOK, Commits
  <2>3. recorded = NoCommit \/ (~recorded.squashed /\ recorded.tree <= head'.tree)
    BY <1>2, <2>1, <2>2
  <2>4. QED
    BY <1>1, <1>2, <2>3 DEF FInv, RecordFollowsHead, RecordedCommitExists, InTheLoop, Proposing,
                            Left
<1>7. HandlerKnows' /\ BudgetsBoundTheLoop' /\ NoTaskLeftWorking' /\ LocksCoverTheWork'
  BY <1>1 DEF FInv, HandlerKnows, BudgetsBoundTheLoop, LoopBound, NoTaskLeftWorking,
              LocksCoverTheWork
<1>8. QED
  BY <1>3, <1>4, <1>5, <1>6, <1>7 DEF FInv

(* The steps of an attempt that change nothing but the run's own place, the *)
(* coder's report, the record of the commit and the suite's result.         *)
LEMMA AttemptKeeps ==
  ASSUME FInv, EndCoding \/ RecordCommit \/ EnterTesting \/ RunTests
  PROVE  FInv'
<1> USE DEF given, counters, attempt, git, history, Continue
<1>1. /\ step \in {"coding", "record", "cap", "testing"}
      /\ step' \in {"record", "cap", "testing", "tested", "returned", "escaped"}
      /\ step' = "returned" => state' = "NEEDS_HUMAN_INPUT"
      /\ state' \in {state, "NEEDS_HUMAN_INPUT", "TESTING"}
      /\ overtaken' \in BOOLEAN /\ agentOk' \in BOOLEAN /\ allPassed' \in BOOLEAN
      /\ recorded' \in {recorded, head}
      /\ passedTree' \in {passedTree, head.tree}
      /\ step' = "tested" /\ allPassed' => passedTree' = head.tree
      /\ UNCHANGED <<given, counters, edited, git, holding, pr, handlerSaw, approvedTree, codings>>
  <2>1. CASE EndCoding
    BY <2>1 DEF FInv, TypeOK, EndCoding
  <2>2. CASE RecordCommit
    BY <2>2 DEF FInv, TypeOK, RecordCommit, CommitContext
  <2>3. CASE EnterTesting
    <3>1. \/ /\ state' \in {"NEEDS_HUMAN_INPUT", "TESTING"} /\ overtaken' = FALSE
             /\ step' = IF state' = "TESTING" THEN "testing" ELSE "returned"
          \/ state' = state /\ step' = "escaped" /\ overtaken' = overtaken
      BY <2>3, MoveOutcomes DEF EnterTesting
    <3>2. QED
      BY <2>3, <3>1 DEF FInv, TypeOK, EnterTesting
  <2>4. CASE RunTests
    BY <2>4 DEF FInv, TypeOK, RunTests
  <2>5. QED
    BY <2>1, <2>2, <2>3, <2>4
<1>2. TypeOK'
  <2>1. head.tree \in 0..MaxTrees
    BY DEF FInv, TypeOK, Commits
  <2>2. QED
    BY <1>1, <2>1, StatesAreKnown DEF FInv, TypeOK, Steps
<1>3. HasScope' /\ TestedIsReviewed' /\ EntriesArePaid' /\ LocksAreHeld'
  BY <1>1 DEF FInv, HasScope, TestedIsReviewed, EntriesArePaid, LocksAreHeld, Before, InTheLoop,
              Proposing
<1>4. ApprovedIsProposed' /\ OnlyReviewedWorkIsProposed'
  BY <1>1 DEF FInv, ApprovedIsProposed, OnlyReviewedWorkIsProposed, Proposing, Left
<1>5. RecordFollowsHead' /\ RecordedCommitExists'
  <2>1. head.tree <= head.tree /\ ~head.squashed
    BY <1>1, BudgetsAssumption DEF FInv, TypeOK, Commits, RecordFollowsHead, InTheLoop
  <2>2. recorded' = NoCommit \/ (~recorded'.squashed /\ recorded'.tree <= head.tree)
    BY <1>1, <2>1 DEF FInv, RecordFollowsHead, InTheLoop
  <2>3. QED
    BY <1>1, <2>1, <2>2, StatesAreKnown
       DEF FInv, RecordFollowsHead, RecordedCommitExists, Before, InTheLoop, Proposing, Left
<1>6. HandlerKnows' /\ BudgetsBoundTheLoop' /\ NoTaskLeftWorking' /\ LocksCoverTheWork'
  BY <1>1, StatesAreKnown DEF FInv, HandlerKnows, BudgetsBoundTheLoop, LoopBound,
     NoTaskLeftWorking, LocksAreHeld, LocksCoverTheWork, Settled, InTheLoop
<1>7. QED
  BY <1>2, <1>3, <1>4, <1>5, <1>6 DEF FInv

(* Where the suite's result or a rejection sends the attempt.               *)
LEMMA RoutesKeep ==
  ASSUME FInv, NoOpPassed \/ NoOpDiscarded \/ RouteTests \/ Reject \/ ReviewFails
  PROVE  FInv'
<1> USE DEF given, counters, attempt, git, history, Continue
<1> DEFINE spent == fix_iterations + review_cycles + noop_attempts
<1>1. /\ step \in {"tested", "review"}
      /\ step' \in {"review", "returned", "enter", "failed", "escaped"}
      /\ step' = "returned" => state' \in {"NEEDS_HUMAN_INPUT", "FAILED"}
      /\ step' = "review" => step = "tested" /\ allPassed
      /\ state' \in {state, "NEEDS_HUMAN_INPUT", "FAILED", "REVIEWING"}
      /\ overtaken' \in BOOLEAN
      /\ UNCHANGED <<given, attempt, git, recorded, holding, pr, handlerSaw, history>>
  BY MoveOutcomes DEF FInv, TypeOK, NoOpPassed, NoOpDiscarded, RouteTests, Reject, ReviewFails
<1>2. /\ fix_iterations' \in 0..MAX_FIX_ITERATIONS
      /\ review_cycles' \in 0..MAX_REVIEW_CYCLES
      /\ noop_attempts' \in 0..MAX_NOOP_ATTEMPTS
      /\ step' = "enter" => spent' = spent + 1 /\ noop_attempts' < MAX_NOOP_ATTEMPTS
      /\ step' = "review" => spent' = spent /\ noop_attempts' = noop_attempts
  <2>1. /\ fix_iterations \in 0..MAX_FIX_ITERATIONS
        /\ review_cycles \in 0..MAX_REVIEW_CYCLES
        /\ noop_attempts \in 0..MAX_NOOP_ATTEMPTS /\ noop_attempts < MAX_NOOP_ATTEMPTS
    BY <1>1 DEF FInv, TypeOK, EntriesArePaid, InTheLoop
  <2>2. CASE NoOpPassed \/ ReviewFails
    BY <2>1, <2>2, MoveOutcomes DEF NoOpPassed, ReviewFails
  <2>3. CASE NoOpDiscarded
    <3>1. /\ noop_attempts' = noop_attempts + 1
          /\ UNCHANGED <<fix_iterations, review_cycles>>
          /\ step' = "enter" => noop_attempts' < MAX_NOOP_ATTEMPTS
          /\ step' # "review"
      <4>1. noop_attempts' = noop_attempts + 1 /\ UNCHANGED <<fix_iterations, review_cycles>>
        BY <2>3 DEF NoOpDiscarded
      <4>2. CASE noop_attempts' >= MAX_NOOP_ATTEMPTS
        <5>1. Move("FAILED", "returned")
          BY <2>3, <4>2 DEF NoOpDiscarded
        <5>2. step' \in {"returned", "escaped"}
          BY <5>1, MoveOutcomes
        <5>3. QED
          BY <4>1, <5>2
      <4>3. CASE ~(noop_attempts' >= MAX_NOOP_ATTEMPTS)
        <5>1. step' = "enter"
          BY <2>3, <4>3 DEF NoOpDiscarded
        <5>2. noop_attempts' < MAX_NOOP_ATTEMPTS
          BY <2>1, <4>1, <4>3, BudgetsAssumption
        <5>3. QED
          BY <4>1, <5>1, <5>2
      <4>4. QED
        BY <4>2, <4>3
    <3>2. QED
      BY <2>1, <3>1, BudgetsAssumption
  <2>4. CASE RouteTests
    <3>1. /\ UNCHANGED <<noop_attempts, review_cycles>>
          /\ \/ UNCHANGED fix_iterations /\ step' # "enter"
             \/ /\ fix_iterations < MAX_FIX_ITERATIONS /\ fix_iterations' = fix_iterations + 1
                /\ step' # "review"
      BY <2>4, MoveOutcomes DEF RouteTests
    <3>2. QED
      BY <2>1, <3>1, BudgetsAssumption
  <2>5. CASE Reject
    <3>1. /\ UNCHANGED <<noop_attempts, fix_iterations>>
          /\ \/ UNCHANGED review_cycles /\ step' # "enter"
             \/ /\ review_cycles < MAX_REVIEW_CYCLES /\ review_cycles' = review_cycles + 1
                /\ step' # "review"
      BY <2>5, MoveOutcomes DEF Reject
    <3>2. QED
      BY <2>1, <3>1, BudgetsAssumption
  <2>6. QED
    BY <2>2, <2>3, <2>4, <2>5
<1>3. EntriesArePaid'
  <2>1. codings \in Nat /\ spent \in Nat /\ codings <= spent + 1 /\ codings' = codings
        /\ noop_attempts < MAX_NOOP_ATTEMPTS
    BY <1>1, BudgetsAssumption DEF FInv, TypeOK, EntriesArePaid, InTheLoop, LoopBound
  <2>2. step' = "enter" => codings' <= spent' /\ noop_attempts' < MAX_NOOP_ATTEMPTS
    BY <1>2, <2>1
  <2>3. step' = "review" => codings' <= spent' + 1 /\ noop_attempts' < MAX_NOOP_ATTEMPTS
    BY <1>2, <2>1
  <2>4. QED
    BY <1>1, <2>2, <2>3 DEF EntriesArePaid, Before, InTheLoop
<1>4. TypeOK'
  BY <1>1, <1>2, StatesAreKnown DEF FInv, TypeOK, Steps
<1>5. HasScope' /\ TestedIsReviewed' /\ LocksAreHeld'
  BY <1>1 DEF FInv, HasScope, TestedIsReviewed, LocksAreHeld, InTheLoop, Proposing
<1>6. ApprovedIsProposed' /\ OnlyReviewedWorkIsProposed'
  BY <1>1 DEF FInv, ApprovedIsProposed, OnlyReviewedWorkIsProposed, Proposing, Left
<1>7. RecordFollowsHead' /\ RecordedCommitExists'
  BY <1>1 DEF FInv, RecordFollowsHead, RecordedCommitExists, Before, InTheLoop, Proposing, Left
<1>8. HandlerKnows' /\ BudgetsBoundTheLoop' /\ NoTaskLeftWorking' /\ LocksCoverTheWork'
  BY <1>1, StatesAreKnown DEF FInv, HandlerKnows, BudgetsBoundTheLoop, LoopBound,
     NoTaskLeftWorking, LocksAreHeld, LocksCoverTheWork, Settled, InTheLoop
<1>9. QED
  BY <1>3, <1>4, <1>5, <1>6, <1>7, <1>8 DEF FInv

LEMMA ApproveKeeps ==
  ASSUME FInv, Approve
  PROVE  FInv'
<1> USE DEF given, counters, attempt, git, history
<1>1. /\ step = "review"
      /\ \/ state' = "PR_CREATION" /\ step' = "squash" /\ overtaken' = FALSE
         \/ state' = state /\ step' = "escaped" /\ overtaken' = overtaken
      /\ approvedTree' = head.tree
      /\ UNCHANGED <<given, counters, attempt, git, recorded, holding, pr, handlerSaw,
                     passedTree, codings>>
  BY MoveOutcomes DEF Approve
<1>2. touched \subseteq Declared(cites)
  <2>1. PICK verdict \in HandedOff : Approved(verdict)
    BY DEF Approve
  <2>2. cites # {}
    BY <1>1 DEF FInv, HasScope, InTheLoop
  <2>3. QED
    BY <2>1, <2>2, ApprovedInScope DEF Approved
<1>3. TypeOK'
  <2>1. head.tree \in 0..MaxTrees
    BY DEF FInv, TypeOK, Commits
  <2>2. QED
    BY <1>1, <2>1, StatesAreKnown DEF FInv, TypeOK, Steps
<1>4. HasScope' /\ TestedIsReviewed' /\ EntriesArePaid' /\ LocksAreHeld'
  BY <1>1 DEF FInv, HasScope, TestedIsReviewed, EntriesArePaid, LocksAreHeld, Before, InTheLoop,
              Proposing
<1>5. ApprovedIsProposed' /\ OnlyReviewedWorkIsProposed'
  BY <1>1, <1>2 DEF FInv, ApprovedIsProposed, OnlyReviewedWorkIsProposed, TestedIsReviewed,
                    Proposing, Left
<1>6. RecordFollowsHead' /\ RecordedCommitExists'
  BY <1>1 DEF FInv, RecordFollowsHead, RecordedCommitExists, Before, InTheLoop, Proposing, Left
<1>7. HandlerKnows' /\ BudgetsBoundTheLoop' /\ NoTaskLeftWorking' /\ LocksCoverTheWork'
  BY <1>1 DEF FInv, HandlerKnows, BudgetsBoundTheLoop, LoopBound, NoTaskLeftWorking,
              LocksAreHeld, LocksCoverTheWork, InTheLoop
<1>8. QED
  BY <1>3, <1>4, <1>5, <1>6, <1>7 DEF FInv

-----------------------------------------------------------------------------
(* The pull request *)

LEMMA SquashKeeps ==
  ASSUME FInv, Squash \/ RecordSquash
  PROVE  FInv'
<1> USE DEF given, counters, attempt, git, history, Continue
<1>1. /\ step \in {"squash", "resquash"} /\ step' \in {"resquash", "open", "escaped"}
      /\ UNCHANGED <<given, state, counters, attempt, over, touched, holding, pr, handlerSaw,
                     history>>
      /\ overtaken' \in BOOLEAN
  BY DEF FInv, TypeOK, Squash, RecordSquash, CommitContext
<1>2. /\ approvedTree = head.tree /\ passedTree = head.tree /\ touched \subseteq Declared(cites)
      /\ pr = NoCommit /\ state \notin {"CODING", "TESTING", "WAITING_FOR_APPROVAL"}
  BY <1>1 DEF FInv, ApprovedIsProposed, RecordFollowsHead, Proposing, Left
<1>3. /\ head' \in Commits /\ recorded' \in Commits
      /\ step' # "escaped" => head'.tree = head.tree
      /\ step' = "resquash" => head'.squashed /\ head'.tree > 0
      /\ step' = "open" /\ head'.tree > 0 => head'.squashed /\ recorded' = head'
  <2>1. head \in Commits /\ recorded \in Commits /\ Baseline \in Commits
    BY BudgetsAssumption DEF FInv, TypeOK, Commits, Baseline
  <2>2. CASE Squash
    <3>1. /\ recorded' = recorded
          /\ \/ head.tree > 0 /\ head' = [head EXCEPT !.squashed = TRUE] /\ step' = "resquash"
             \/ head.tree = 0 /\ head' = head /\ step' = "open"
             \/ head' \in {head, Baseline} /\ step' = "escaped"
      BY <2>2 DEF Squash
    <3>2. [head EXCEPT !.squashed = TRUE] \in Commits
          /\ [head EXCEPT !.squashed = TRUE].tree = head.tree
          /\ [head EXCEPT !.squashed = TRUE].squashed
      BY <2>1 DEF Commits
    <3>3. ~(head.tree = 0 /\ head.tree > 0)
      OBVIOUS
    <3>4. QED
      BY <2>1, <3>1, <3>2, <3>3
  <2>3. CASE RecordSquash
    BY <2>1, <2>3 DEF RecordSquash, CommitContext, FInv, ApprovedIsProposed
  <2>4. QED
    BY <2>2, <2>3
<1>4. TypeOK'
  BY <1>1, <1>3 DEF FInv, TypeOK, Steps
<1>5. HasScope' /\ TestedIsReviewed' /\ EntriesArePaid' /\ LocksAreHeld'
  BY <1>1 DEF FInv, HasScope, TestedIsReviewed, EntriesArePaid, LocksAreHeld, Before, InTheLoop,
              Proposing
<1>6. ApprovedIsProposed' /\ OnlyReviewedWorkIsProposed'
  BY <1>1, <1>2, <1>3 DEF ApprovedIsProposed, OnlyReviewedWorkIsProposed, Proposing, Left
<1>7. RecordFollowsHead' /\ RecordedCommitExists'
  BY <1>1, <1>2 DEF RecordFollowsHead, RecordedCommitExists, Before, InTheLoop, Proposing, Left
<1>8. HandlerKnows' /\ BudgetsBoundTheLoop' /\ NoTaskLeftWorking' /\ LocksCoverTheWork'
  BY <1>1 DEF FInv, HandlerKnows, BudgetsBoundTheLoop, LoopBound, NoTaskLeftWorking,
              LocksAreHeld, LocksCoverTheWork, Proposing
<1>9. QED
  BY <1>4, <1>5, <1>6, <1>7, <1>8 DEF FInv

LEMMA ProposalKeeps ==
  ASSUME FInv, OpenPullRequest \/ NotePullRequest \/ WaitForApproval
  PROVE  FInv'
<1> USE DEF given, counters, attempt, git, history, Continue
<1>1. /\ step \in {"open", "note", "wait"} /\ step' \in {"note", "wait", "returned", "escaped"}
      /\ state' \in {state, "NEEDS_HUMAN_INPUT", "WAITING_FOR_APPROVAL"}
      /\ step' = "returned" => state' \in {"NEEDS_HUMAN_INPUT", "WAITING_FOR_APPROVAL"}
      /\ state' = "WAITING_FOR_APPROVAL" /\ state # state' => step = "wait" /\ step' = "returned"
      /\ step' # "returned" => state' = state
      /\ step' = "wait" => step = "note"
      /\ UNCHANGED <<given, counters, attempt, git, recorded, holding, handlerSaw, history>>
      /\ overtaken' \in BOOLEAN
  BY MoveOutcomes DEF FInv, TypeOK, OpenPullRequest, NotePullRequest, WaitForApproval
<1>2. \/ pr' = pr /\ step' # "note"
      \/ pr' = head /\ step = "open" /\ step' = "note" /\ ~over /\ head.tree > 0
  BY MoveOutcomes DEF OpenPullRequest, NotePullRequest, WaitForApproval
<1>3. state \notin {"CODING", "TESTING", "WAITING_FOR_APPROVAL"}
  BY <1>1 DEF FInv, RecordFollowsHead, Proposing, Left
<1>4. TypeOK'
  BY <1>1, <1>2, StatesAreKnown DEF FInv, TypeOK, Steps, TaskState
<1>5. HasScope' /\ TestedIsReviewed' /\ EntriesArePaid' /\ LocksAreHeld'
  BY <1>1 DEF FInv, HasScope, TestedIsReviewed, EntriesArePaid, LocksAreHeld, Before, InTheLoop,
              Proposing
<1>6. ApprovedIsProposed'
  BY <1>1, <1>2 DEF FInv, ApprovedIsProposed, Left
<1>7. OnlyReviewedWorkIsProposed'
  <2>1. CASE pr' = pr
    BY <1>1, <2>1 DEF FInv, OnlyReviewedWorkIsProposed
  <2>2. CASE pr' = head /\ step = "open" /\ ~over /\ head.tree > 0
    BY <1>1, <2>2, DeclaredIsCited DEF FInv, ApprovedIsProposed, OnlyReviewedWorkIsProposed
  <2>3. QED
    BY <1>2, <2>1, <2>2
<1>8. RecordFollowsHead' /\ RecordedCommitExists'
  BY <1>1, <1>2, <1>3 DEF FInv, ApprovedIsProposed, RecordFollowsHead, RecordedCommitExists,
                          Before, InTheLoop, Proposing, Left
<1>9. HandlerKnows' /\ BudgetsBoundTheLoop' /\ NoTaskLeftWorking' /\ LocksCoverTheWork'
  BY <1>1, StatesAreKnown DEF FInv, HandlerKnows, BudgetsBoundTheLoop, LoopBound,
     NoTaskLeftWorking, LocksCoverTheWork, Settled
<1>10. QED
  BY <1>4, <1>5, <1>6, <1>7, <1>8, <1>9 DEF FInv

-----------------------------------------------------------------------------
(* The ends *)

(* What leaves the chain disturbs nothing that the run has made.            *)
LEMMA EndsKeep ==
  ASSUME FInv,
         EndOnFailure \/ Return \/ Escape \/ HandlerGivesUp \/ HandlerMoves \/ HandlerFails \/ Crash
  PROVE  FInv'
<1> USE DEF given, counters, attempt, git, history, Continue, Raised
<1>1. /\ step' \in {"returned", "escaped", "handling", "ended", "lost", "dead"}
      /\ state' = state \/ (state' \in TERMINAL_STATES /\ state' # "WAITING_FOR_APPROVAL"
                            /\ state' \in TaskState)
      /\ overtaken' \in BOOLEAN /\ handlerSaw' \in {handlerSaw, state}
      /\ step' \in {"handling", "ended", "lost", "dead"} => holding' = FALSE
      /\ holding' \in BOOLEAN
      /\ UNCHANGED <<given, counters, attempt, git, recorded, pr, history>>
  <2>1. CASE EndOnFailure
    BY <2>1, MoveOutcomes, FailuresEnd DEF FInv, TypeOK, EndOnFailure
  <2>2. CASE Return \/ Escape \/ Crash
    BY <2>2 DEF FInv, TypeOK, Return, Escape, Crash
  <2>3. CASE HandlerGivesUp \/ HandlerMoves \/ HandlerFails
    BY <2>3, FailuresEnd DEF FInv, TypeOK, LocksCoverTheWork,
                             HandlerGivesUp, HandlerMoves, HandlerFails
  <2>4. QED
    BY <2>1, <2>2, <2>3
<1>2. \/ step' = "returned" /\ state' \in Settled
      \/ step' = "escaped" /\ step = "failed"
      \/ step' = "handling" /\ handlerSaw' = state' /\ overtaken' = FALSE
      \/ step' = "ended" /\ (caller = "api" => state' \in Settled)
      \/ step' \in {"lost", "dead"}
  <2>1. CASE EndOnFailure
    BY <2>1, MoveOutcomes, FailuresEnd DEF EndOnFailure, Settled
  <2>2. CASE Return
    BY <2>2 DEF FInv, Return, HandlerKnows
  <2>3. CASE Escape \/ Crash
    BY <2>3 DEF Escape, Crash
  <2>4. CASE HandlerGivesUp
    BY <2>4, StatesAreKnown DEF FInv, TypeOK, HandlerGivesUp, HandlerKnows, Settled
  <2>5. CASE HandlerMoves
    BY <2>5, FailuresEnd DEF HandlerMoves, Settled
  <2>6. CASE HandlerFails
    BY <2>6 DEF HandlerFails
  <2>7. QED
    BY <2>1, <2>2, <2>3, <2>4, <2>5, <2>6
<1>3. TypeOK'
  BY <1>1 DEF FInv, TypeOK, Steps
<1>4. HasScope' /\ TestedIsReviewed' /\ EntriesArePaid' /\ LocksAreHeld'
  BY <1>1 DEF FInv, HasScope, TestedIsReviewed, EntriesArePaid, LocksAreHeld, Before, InTheLoop,
              Proposing
<1>5. ApprovedIsProposed' /\ OnlyReviewedWorkIsProposed'
  BY <1>1 DEF FInv, ApprovedIsProposed, OnlyReviewedWorkIsProposed, Left
<1>6. RecordFollowsHead' /\ RecordedCommitExists'
  <2>1. state' \in {"CODING", "TESTING", "WAITING_FOR_APPROVAL"} => state' = state
    BY <1>1 DEF TERMINAL_STATES
  <2>2. QED
    BY <1>1, <2>1 DEF FInv, RecordFollowsHead, RecordedCommitExists, Before, InTheLoop, Proposing,
                      Left
<1>7. HandlerKnows' /\ NoTaskLeftWorking'
  BY <1>1, <1>2 DEF HandlerKnows, NoTaskLeftWorking, Settled
<1>8. BudgetsBoundTheLoop' /\ LocksCoverTheWork'
  BY <1>1 DEF FInv, BudgetsBoundTheLoop, LoopBound, LocksCoverTheWork
<1>9. QED
  BY <1>3, <1>4, <1>5, <1>6, <1>7, <1>8 DEF FInv

LEMMA HumansKeep ==
  ASSUME FInv, HumanMoves
  PROVE  FInv'
<1> USE DEF given, counters, attempt, git, history
<1>1. /\ state' \in {"CANCELLED", "MERGED"} /\ overtaken' = TRUE
      /\ UNCHANGED <<given, step, counters, attempt, git, recorded, holding, pr, handlerSaw,
                     history>>
  BY DEF HumanMoves
<1>2. TypeOK'
  BY <1>1, StatesAreKnown DEF FInv, TypeOK
<1>3. HasScope' /\ TestedIsReviewed' /\ EntriesArePaid' /\ LocksAreHeld'
  BY <1>1 DEF FInv, HasScope, TestedIsReviewed, EntriesArePaid, LocksAreHeld
<1>4. ApprovedIsProposed' /\ OnlyReviewedWorkIsProposed'
  BY <1>1 DEF FInv, ApprovedIsProposed, OnlyReviewedWorkIsProposed
<1>5. RecordFollowsHead' /\ RecordedCommitExists'
  BY <1>1 DEF FInv, RecordFollowsHead, RecordedCommitExists
<1>6. HandlerKnows' /\ BudgetsBoundTheLoop' /\ NoTaskLeftWorking' /\ LocksCoverTheWork'
  BY <1>1, StatesAreKnown DEF FInv, HandlerKnows, BudgetsBoundTheLoop, LoopBound,
     NoTaskLeftWorking, LocksCoverTheWork, Settled
<1>7. QED
  BY <1>2, <1>3, <1>4, <1>5, <1>6 DEF FInv

LEMMA StutterKeeps ==
  ASSUME FInv, UNCHANGED vars
  PROVE  FInv'
BY DEF vars, given, counters, attempt, git, history, FInv, TypeOK, HasScope, TestedIsReviewed,
   ApprovedIsProposed, RecordFollowsHead, EntriesArePaid, LocksAreHeld, HandlerKnows,
   OnlyReviewedWorkIsProposed, BudgetsBoundTheLoop, LoopBound, RecordedCommitExists,
   NoTaskLeftWorking, LocksCoverTheWork

-----------------------------------------------------------------------------
LEMMA FixStep == FInv /\ [Next]_vars => FInv'
<1> SUFFICES ASSUME FInv, [Next]_vars PROVE FInv'
  OBVIOUS
<1>1. CASE SetUp \/ Triage \/ Investigate \/ PersistReport
  BY <1>1, TripKeeps
<1>2. CASE Examine \/ RouteReport
  BY <1>2, ReportKeeps
<1>3. CASE AcquireLocks
  BY <1>3, LockKeeps
<1>4. CASE EnterCoding
  BY <1>4, EnterKeeps
<1>5. CASE EditFile
  BY <1>5, EditKeeps
<1>6. CASE EndCoding \/ RecordCommit \/ EnterTesting \/ RunTests
  BY <1>6, AttemptKeeps
<1>7. CASE NoOpPassed \/ NoOpDiscarded \/ RouteTests \/ Reject \/ ReviewFails
  BY <1>7, RoutesKeep
<1>8. CASE Approve
  BY <1>8, ApproveKeeps
<1>9. CASE Squash \/ RecordSquash
  BY <1>9, SquashKeeps
<1>10. CASE OpenPullRequest \/ NotePullRequest \/ WaitForApproval
  BY <1>10, ProposalKeeps
<1>11. CASE \/ EndOnFailure \/ Return \/ Escape
            \/ HandlerGivesUp \/ HandlerMoves \/ HandlerFails \/ Crash
  BY <1>11, EndsKeep
<1>12. CASE HumanMoves
  BY <1>12, HumansKeep
<1>13. CASE UNCHANGED vars
  BY <1>13, StutterKeeps
<1>14. QED
  BY <1>1, <1>2, <1>3, <1>4, <1>5, <1>6, <1>7, <1>8, <1>9, <1>10, <1>11, <1>12, <1>13
     DEF Next, RunStep

(* The inductive invariant of a run.                                        *)
THEOREM RunInvariance == Spec => []FInv
<1>1. Init => FInv
  BY FixInit
<1>2. FInv /\ [Next]_vars => FInv'
  BY FixStep
<1>3. QED
  BY <1>1, <1>2, PTL DEF Spec

(* Every variable of a run stays in its type (run_chain's counters within   *)
(* their budgets among them).                                               *)
THEOREM RunTyping == Spec => []TypeOK
BY RunInvariance, PTL DEF FInv

(* Whatever the verdicts, overrides, retries and resumption, the open pull  *)
(* request holds what was tested and approved, squashed, within the cap and *)
(* the cited files (enforce_review_checks, create_pull_request).            *)
THEOREM ProposalsAreReviewedWork == Spec => []OnlyReviewedWorkIsProposed
BY RunInvariance, PTL DEF FInv

(* For any three budgets, the entries into coding stay within their sum.    *)
THEOREM LoopIsBounded == Spec => []BudgetsBoundTheLoop
BY RunInvariance, PTL DEF FInv

(* The recorded commit is the proposed one, or still on the branch.         *)
THEOREM RecordsAreTruthful == Spec => []RecordedCommitExists
BY RunInvariance, PTL DEF FInv

(* run_fix_and_persist leaves no task in a working state, whatever the run  *)
(* raises, unless its failure handler raises as well.                       *)
THEOREM NoneLeftWorking == Spec => []NoTaskLeftWorking
BY RunInvariance, PTL DEF FInv

(* The locks of the affected files span the work and outlive no run.        *)
THEOREM WorkIsLocked == Spec => []LocksCoverTheWork
BY RunInvariance, PTL DEF FInv

-----------------------------------------------------------------------------
(* A stage is entered by a move only, and no move leaves a terminal state.  *)
LEMMA EndedMovesNowhere ==
  ASSUME NEW to, NEW next, state \in TERMINAL_STATES, Move(to, next)
  PROVE  step' = "escaped"
BY EndedHasNoExit DEF Move

LEMMA EndedStep ==
  ASSUME Next, step' # step, state \in TERMINAL_STATES
  PROVE  step' \notin Stages
<1> USE EndedMovesNowhere DEF Stages, Continue, CommitContext
<1>1. CASE SetUp \/ Triage \/ Investigate
  <2>1. state # "CREATED"
    BY DEF TERMINAL_STATES
  <2>2. QED
    BY <1>1, <2>1 DEF SetUp, Triage, Investigate
<1>2. CASE Examine \/ PersistReport \/ AcquireLocks \/ EndCoding \/ RecordCommit \/ RunTests
  BY <1>2 DEF Examine, PersistReport, AcquireLocks, EndCoding, RecordCommit, RunTests
<1>3. CASE RouteReport \/ EnterCoding \/ EnterTesting
  BY <1>3 DEF RouteReport, EnterCoding, EnterTesting
<1>4. CASE NoOpPassed \/ NoOpDiscarded \/ RouteTests
  BY <1>4 DEF NoOpPassed, NoOpDiscarded, RouteTests
<1>5. CASE Approve \/ Reject \/ ReviewFails
  BY <1>5 DEF Approve, Reject, ReviewFails
<1>6. CASE Squash \/ RecordSquash \/ OpenPullRequest \/ NotePullRequest \/ WaitForApproval
  BY <1>6 DEF Squash, RecordSquash, OpenPullRequest, NotePullRequest, WaitForApproval
<1>7. CASE \/ EndOnFailure \/ Return \/ Escape
           \/ HandlerGivesUp \/ HandlerMoves \/ HandlerFails \/ Crash
  BY <1>7 DEF EndOnFailure, Return, Escape, Raised, HandlerGivesUp,
              HandlerMoves, HandlerFails, Crash
<1>8. CASE EditFile \/ HumanMoves
  BY <1>8 DEF EditFile, HumanMoves
<1>9. QED
  BY <1>1, <1>2, <1>3, <1>4, <1>5, <1>6, <1>7, <1>8 DEF Next, RunStep

(* Once a human has cancelled the task, the chain enters no further stage   *)
(* (go in run_chain raises on the illegal move).                            *)
THEOREM CancelStopsTheChain == Spec => EndedTaskEntersNoStage
<1>1. [Next]_vars => [step' # step /\ state \in TERMINAL_STATES => step' \notin Stages]_vars
  BY EndedStep
<1>2. QED
  BY <1>1, PTL DEF Spec, EndedTaskEntersNoStage

-----------------------------------------------------------------------------
(* The size cap *)

(* From the check before the tests to the review an oversized diff is not   *)
(* the work of a successful turn.                                           *)
CapInv ==
  /\ over => touched # {}
  /\ step \in {"testing", "tested"} /\ over => ~(edited /\ agentOk)
  /\ OnlyFailedTurnsSlipTheCap

LEMMA CapInit == Init => CapInv
BY DEF Init, Fresh, Resumed, CapInv, OnlyFailedTurnsSlipTheCap

(* The steps that lead neither to the tests nor to the review.              *)
LEMMA OtherStepsAvoidReview ==
  ASSUME Next, ~EnterTesting, ~RunTests, ~NoOpPassed, ~RouteTests, ~EditFile, ~HumanMoves
  PROVE  step' \notin {"testing", "tested", "review"} /\ UNCHANGED <<over, touched>>
<1> USE MoveOutcomes DEF Continue, CommitContext, git
<1>1. CASE SetUp \/ Triage \/ Investigate \/ Examine \/ PersistReport \/ AcquireLocks
  BY <1>1 DEF SetUp, Triage, Investigate, Examine, PersistReport, AcquireLocks
<1>2. CASE RouteReport \/ EnterCoding \/ EndCoding \/ RecordCommit
  BY <1>2 DEF RouteReport, EnterCoding, EndCoding, RecordCommit
<1>3. CASE NoOpDiscarded \/ Approve \/ Reject \/ ReviewFails
  BY <1>3 DEF NoOpDiscarded, Approve, Reject, ReviewFails
<1>4. CASE Squash \/ RecordSquash \/ OpenPullRequest \/ NotePullRequest \/ WaitForApproval
  BY <1>4 DEF Squash, RecordSquash, OpenPullRequest, NotePullRequest, WaitForApproval
<1>5. CASE \/ EndOnFailure \/ Return \/ Escape
           \/ HandlerGivesUp \/ HandlerMoves \/ HandlerFails \/ Crash
  BY <1>5 DEF EndOnFailure, Return, Escape, Raised, HandlerGivesUp,
              HandlerMoves, HandlerFails, Crash
<1>6. QED
  BY <1>1, <1>2, <1>3, <1>4, <1>5 DEF Next, RunStep

LEMMA CapStep == CapInv /\ [Next]_vars => CapInv'
<1> SUFFICES ASSUME CapInv, [Next]_vars PROVE CapInv'
  OBVIOUS
<1> USE MoveOutcomes DEF CapInv, OnlyFailedTurnsSlipTheCap, Continue, attempt, git
<1>1. CASE EnterTesting
  <2>1. step = "cap" /\ UNCHANGED <<over, touched, edited, agentOk>>
    BY <1>1 DEF EnterTesting
  <2>2. CASE Success /\ over
    <3>1. step' \in {"returned", "escaped"}
      BY <1>1, <2>2 DEF EnterTesting
    <3>2. QED
      BY <2>1, <3>1
  <2>3. CASE ~(Success /\ over)
    <3>1. step' \in {"testing", "escaped"}
      BY <1>1, <2>3 DEF EnterTesting
    <3>2. QED
      BY <2>1, <2>3, <3>1 DEF Success
  <2>4. QED
    BY <2>2, <2>3
<1>2. CASE RunTests
  <2>1. /\ step = "testing" /\ step' \in {"tested", "escaped"}
        /\ UNCHANGED <<over, touched, edited, agentOk>>
    BY <1>2 DEF RunTests
  <2>2. QED
    BY <2>1
<1>3. CASE NoOpPassed
  <2>1. /\ over => step' \in {"returned", "escaped"}
        /\ step' \in {"returned", "review", "escaped"}
        /\ UNCHANGED <<over, touched, edited, agentOk>>
    BY <1>3 DEF NoOpPassed
  <2>2. QED
    BY <2>1
<1>4. CASE RouteTests
  <2>1. /\ step = "tested" /\ edited
        /\ step' \in {"review", "enter", "returned", "escaped"}
        /\ UNCHANGED <<over, touched, edited, agentOk>>
    BY <1>4 DEF RouteTests
  <2>2. QED
    BY <2>1
<1>5. CASE EditFile
  <2>1. step = "coding" /\ step' = step /\ (over' => touched' # {})
    BY <1>5 DEF EditFile
  <2>2. QED
    BY <2>1
<1>6. CASE HumanMoves \/ UNCHANGED vars
  BY <1>6 DEF HumanMoves, vars
<1>7. CASE Next /\ ~EnterTesting /\ ~RunTests /\ ~NoOpPassed /\ ~RouteTests /\ ~EditFile
           /\ ~HumanMoves
  BY <1>7, OtherStepsAvoidReview
<1>8. QED
  BY <1>1, <1>2, <1>3, <1>4, <1>5, <1>6, <1>7

(* The diff of a no-op attempt or of a success is never reviewed oversized  *)
(* (apply_size_cap_if_over and its two callers in run_chain).               *)
THEOREM CapHoldsBesideFailedTurns == Spec => []OnlyFailedTurnsSlipTheCap
<1>1. CapInv => OnlyFailedTurnsSlipTheCap
  BY DEF CapInv
<1>2. QED
  BY CapInit, CapStep, <1>1, PTL DEF Spec

-----------------------------------------------------------------------------
(* The measure of a run *)

LEMMA Distances ==
  /\ Distance["setup"] = 24 /\ Distance["triage"] = 23 /\ Distance["investigate"] = 22
  /\ Distance["examine"] = 21 /\ Distance["report"] = 20 /\ Distance["plan"] = 19
  /\ Distance["lock"] = 18 /\ Distance["enter"] = 17 /\ Distance["coding"] = 16
  /\ Distance["record"] = 15 /\ Distance["cap"] = 14 /\ Distance["testing"] = 13
  /\ Distance["tested"] = 12 /\ Distance["review"] = 11 /\ Distance["squash"] = 10
  /\ Distance["resquash"] = 9 /\ Distance["open"] = 8 /\ Distance["note"] = 7
  /\ Distance["wait"] = 6 /\ Distance["failed"] = 5 /\ Distance["returned"] = 4
  /\ Distance["escaped"] = 3 /\ Distance["handling"] = 2 /\ Distance["ended"] = 1
  /\ Distance["lost"] = 1 /\ Distance["dead"] = 0
BY DEF Distance

LEMMA DistanceType ==
  ASSUME NEW s \in Steps
  PROVE  Distance[s] \in 0..24
BY Distances DEF Steps

LEMMA RoundsType ==
  ASSUME NEW f \in 0..MAX_FIX_ITERATIONS, NEW r \in 0..MAX_REVIEW_CYCLES,
         NEW n \in 0..MAX_NOOP_ATTEMPTS
  PROVE  (MAX_FIX_ITERATIONS - f) + (MAX_REVIEW_CYCLES - r) + (MAX_NOOP_ATTEMPTS - n) \in Nat
BY BudgetsAssumption

(* Within its type the measure is a natural number.                         *)
LEMMA RemainingType == TypeOK => RoundsLeft \in Nat /\ Remaining \in Nat
<1> SUFFICES ASSUME TypeOK PROVE RoundsLeft \in Nat /\ Remaining \in Nat
  OBVIOUS
<1>1. Distance[step] \in 0..24
  BY DistanceType DEF TypeOK
<1>2. RoundsLeft \in Nat
  BY RoundsType DEF TypeOK, RoundsLeft
<1>3. QED
  BY <1>1, <1>2 DEF Remaining

(* A step that spends no budget goes on; one that spends one goes back to   *)
(* no further than the head of the loop.                                    *)
LEMMA ForwardStep ==
  ASSUME TypeOK, TypeOK', UNCHANGED counters, Distance[step'] < Distance[step]
  PROVE  Remaining' < Remaining
<1>1. RoundsLeft' = RoundsLeft
  BY DEF counters, RoundsLeft
<1>2. RoundsLeft \in Nat /\ Distance[step] \in 0..24 /\ Distance[step'] \in 0..24
  BY RemainingType, DistanceType DEF TypeOK
<1>3. QED
  BY <1>1, <1>2 DEF Remaining, Distance

LEMMA PaidStep ==
  ASSUME TypeOK, TypeOK', RoundsLeft' = RoundsLeft - 1
  PROVE  Remaining' < Remaining
<1>1. RoundsLeft \in Nat /\ Distance[step] \in 0..24 /\ Distance[step'] \in 0..24
  BY RemainingType, DistanceType DEF TypeOK
<1>2. QED
  BY <1>1 DEF Remaining, Distance

(* The stages that stand one after another.                                 *)
LEMMA StagesGoForward ==
  ASSUME RunStep, ~NoOpDiscarded, ~RouteTests, ~Reject
  PROVE  Distance[step'] < Distance[step] /\ UNCHANGED counters
<1> USE MoveOutcomes DEF Continue, CommitContext, counters
<1>1. CASE SetUp \/ Triage \/ Investigate
  <2>1. /\ \/ step = "setup" /\ step' \in {"triage", "escaped"}
           \/ step = "triage" /\ step' \in {"lock", "investigate", "escaped"}
           \/ step = "investigate" /\ step' \in {"examine", "escaped"}
        /\ UNCHANGED counters
    BY <1>1 DEF SetUp, Triage, Investigate
  <2>2. QED
    BY <2>1, Distances
<1>2. CASE Examine \/ PersistReport \/ AcquireLocks
  <2>1. /\ \/ step = "examine" /\ step' \in {"report", "failed"}
           \/ step = "report" /\ step' \in {"plan", "escaped"}
           \/ step = "lock" /\ step' = "enter"
        /\ UNCHANGED counters
    BY <1>2 DEF Examine, PersistReport, AcquireLocks
  <2>2. QED
    BY <2>1, Distances
<1>3. CASE RouteReport
  <2>1. step = "plan" /\ step' \in {"lock", "returned", "escaped"} /\ UNCHANGED counters
    BY <1>3 DEF RouteReport
  <2>2. QED
    BY <2>1, Distances
<1>4. CASE EnterCoding \/ EndCoding \/ RecordCommit
  <2>1. /\ \/ step = "enter" /\ step' \in {"coding", "escaped"}
           \/ step = "coding" /\ step' \in {"record", "escaped"}
           \/ step = "record" /\ step' \in {"cap", "escaped"}
        /\ UNCHANGED counters
    BY <1>4 DEF EnterCoding, EndCoding, RecordCommit
  <2>2. QED
    BY <2>1, Distances
<1>5. CASE EnterTesting \/ RunTests \/ NoOpPassed
  <2>1. /\ \/ step = "cap" /\ step' \in {"testing", "returned", "escaped"}
           \/ step = "testing" /\ step' \in {"tested", "escaped"}
           \/ step = "tested" /\ step' \in {"review", "returned", "escaped"}
        /\ UNCHANGED counters
    BY <1>5 DEF EnterTesting, RunTests, NoOpPassed
  <2>2. QED
    BY <2>1, Distances
<1>6. CASE Approve \/ ReviewFails
  <2>1. step = "review" /\ step' \in {"squash", "failed", "escaped"} /\ UNCHANGED counters
    <3>1. CASE Approve
      BY <3>1 DEF Approve
    <3>2. CASE ReviewFails
      BY <3>2 DEF ReviewFails
    <3>3. QED
      BY <1>6, <3>1, <3>2
  <2>2. QED
    BY <2>1, Distances
<1>7. CASE Squash \/ RecordSquash \/ OpenPullRequest \/ NotePullRequest \/ WaitForApproval
  <2>1. /\ \/ step = "squash" /\ step' \in {"resquash", "open", "escaped"}
           \/ step = "resquash" /\ step' \in {"open", "escaped"}
           \/ step = "open" /\ step' \in {"note", "returned", "escaped"}
           \/ step = "note" /\ step' \in {"wait", "escaped"}
           \/ step = "wait" /\ step' \in {"returned", "escaped"}
        /\ UNCHANGED counters
    BY <1>7 DEF Squash, RecordSquash, OpenPullRequest, NotePullRequest, WaitForApproval
  <2>2. QED
    BY <2>1, Distances
<1>8. CASE EndOnFailure \/ Return \/ Escape \/ HandlerGivesUp \/ HandlerMoves \/ HandlerFails
  <2>1. /\ \/ step = "failed" /\ step' \in {"returned", "escaped"}
           \/ step \in {"returned", "escaped"} /\ step' \in {"handling", "ended"}
           \/ step = "handling" /\ step' \in {"ended", "lost"}
        /\ UNCHANGED counters
    BY <1>8 DEF EndOnFailure, Return, Escape, Raised, HandlerGivesUp, HandlerMoves, HandlerFails
  <2>2. QED
    BY <2>1, Distances
<1>9. QED
  BY <1>1, <1>2, <1>3, <1>4, <1>5, <1>6, <1>7, <1>8 DEF RunStep

(* The three ways back to the head of the loop, and the ends that the same  *)
(* answers lead to when the budget is spent.                                *)
LEMMA LoopsArePaid ==
  ASSUME TypeOK, NoOpDiscarded \/ RouteTests \/ Reject
  PROVE  \/ RoundsLeft' = RoundsLeft - 1
         \/ UNCHANGED counters /\ Distance[step'] < Distance[step]
<1> USE MoveOutcomes, Distances, BudgetsAssumption DEF Continue, counters, TypeOK, RoundsLeft
<1>1. CASE NoOpDiscarded
  <2>1. noop_attempts' = noop_attempts + 1 /\ UNCHANGED <<fix_iterations, review_cycles>>
    BY <1>1 DEF NoOpDiscarded
  <2>2. QED
    BY <2>1
<1>2. CASE RouteTests
  <2>1. UNCHANGED <<review_cycles, noop_attempts>>
    BY <1>2 DEF RouteTests
  <2>2. \/ fix_iterations' = fix_iterations + 1
        \/ /\ fix_iterations' = fix_iterations
           /\ step = "tested" /\ step' \in {"review", "returned", "escaped"}
    BY <1>2 DEF RouteTests
  <2>3. QED
    BY <2>1, <2>2
<1>3. CASE Reject
  <2>1. UNCHANGED <<fix_iterations, noop_attempts>>
    BY <1>3 DEF Reject
  <2>2. \/ review_cycles' = review_cycles + 1
        \/ /\ review_cycles' = review_cycles
           /\ step = "review" /\ step' \in {"returned", "escaped"}
    BY <1>3 DEF Reject
  <2>3. QED
    BY <2>1, <2>2
<1>4. QED
  BY <1>1, <1>2, <1>3

LEMMA RunLowersMeasure ==
  ASSUME FInv, FInv', RunStep
  PROVE  Remaining' < Remaining
<1>1. TypeOK /\ TypeOK'
  BY DEF FInv
<1>2. CASE ~NoOpDiscarded /\ ~RouteTests /\ ~Reject
  BY <1>1, <1>2, StagesGoForward, ForwardStep
<1>3. CASE NoOpDiscarded \/ RouteTests \/ Reject
  BY <1>1, <1>3, LoopsArePaid, ForwardStep, PaidStep
<1>4. QED
  BY <1>2, <1>3

LEMMA MeasureStep ==
  ASSUME FInv, FInv', [Next]_vars
  PROVE  Remaining' <= Remaining /\ (RunStep => Remaining' < Remaining)
<1>1. Remaining \in Nat /\ Remaining' \in Nat
  <2>1. TypeOK /\ TypeOK'
    BY DEF FInv
  <2>2. step' \in Steps
    BY <2>1 DEF TypeOK
  <2>3. Distance[step'] \in 0..24
    BY <2>2, DistanceType
  <2>4. RoundsLeft' \in Nat
    <3>1. /\ fix_iterations' \in 0..MAX_FIX_ITERATIONS
          /\ review_cycles' \in 0..MAX_REVIEW_CYCLES
          /\ noop_attempts' \in 0..MAX_NOOP_ATTEMPTS
      BY <2>1 DEF TypeOK
    <3>2. QED
      BY <3>1, RoundsType DEF RoundsLeft
  <2>5. Remaining' = 25 * RoundsLeft' + Distance[step']
    BY DEF Remaining, Distance
  <2>6. Remaining' \in Nat
    BY <2>3, <2>4, <2>5
  <2>7. QED
    BY <2>1, <2>6, RemainingType
<1>2. CASE RunStep
  BY <1>1, <1>2, RunLowersMeasure
<1>3. CASE ~RunStep /\ Crash
  <2>1. step # "dead" /\ step' = "dead" /\ UNCHANGED counters
    BY <1>3 DEF Crash
  <2>2. Distance[step'] < Distance[step]
    BY <2>1, Distances DEF FInv, TypeOK, Steps
  <2>3. QED
    BY <1>1, <1>3, <2>1, <2>2, ForwardStep DEF FInv
<1>4. CASE ~RunStep /\ (EditFile \/ HumanMoves \/ UNCHANGED vars)
  <2>1. UNCHANGED <<step, counters>>
    BY <1>4 DEF EditFile, HumanMoves, vars
  <2>2. Remaining' = Remaining
    BY <2>1 DEF Remaining, RoundsLeft, counters, Distance
  <2>3. QED
    BY <1>1, <1>4, <2>2
<1>5. QED
  BY <1>2, <1>3, <1>4 DEF Next

(* For any budgets, every step of a run (run_fix, run_chain and what        *)
(* follows them) lowers a natural number that nobody else raises: a run     *)
(* takes no more than Remaining steps before it ends.                       *)
THEOREM RunsRunDown == Spec => [](Remaining \in Nat) /\ RunGoesForward
<1>1. FInv => Remaining \in Nat
  BY RemainingType DEF FInv
<1>2. FInv /\ FInv' /\ [Next]_vars
      => [ /\ Remaining' <= Remaining
           /\ RunStep => Remaining' < Remaining ]_vars
  BY MeasureStep
<1>3. QED
  BY RunInvariance, <1>1, <1>2, PTL DEF Spec, RunGoesForward
=============================================================================
