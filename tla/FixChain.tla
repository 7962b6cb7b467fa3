------------------------------ MODULE FixChain ------------------------------
(***************************************************************************)
(* One run of a bug fix: run_fix or resume_fix, and the run_chain inside   *)
(* (orchestrator/chain.py), from an accepted task to a pull request, with  *)
(* the humans who may cancel, approve or reject the task meanwhile, the    *)
(* exceptions that leave the chain, and a crash.  Its callers differ in    *)
(* what they do with the result: the API's background job and the CLI      *)
(* persist it, the watcher does not, and only the background job           *)
(* (run_fix_and_persist) catches what the run raises.                      *)
(*                                                                         *)
(* A step is the code between two awaits that others can interleave with.  *)
(* TaskStore models one transition in detail; here it is a single step:    *)
(* transition_with_retry succeeds exactly when the move is legal from the  *)
(* state the row really has.  A plain commit of task_context fails when    *)
(* anybody has written the row since the chain read it.                    *)
(***************************************************************************)
EXTENDS Naturals, TaskStates, ReviewGate

CONSTANTS
  Reports,    \* what an investigator may cite
  MAX_FIX_ITERATIONS, MAX_REVIEW_CYCLES, MAX_NOOP_ATTEMPTS,
  MaxTrees    \* bound of the model: times the coder changes the working tree

ASSUME BudgetsAssumption ==
  /\ MAX_FIX_ITERATIONS \in Nat /\ MAX_REVIEW_CYCLES \in Nat
  /\ MAX_NOOP_ATTEMPTS \in Nat \ {0} /\ MaxTrees \in Nat
  /\ \A cites \in Reports : cites \subseteq Citations

VARIABLES
  caller,          \* who started the run
  cites,           \* the files that the root cause cites
  state,           \* tasks.state
  overtaken,       \* someone else has written the row since the chain read it
  step,            \* where the run stands
  fix_iterations, review_cycles, noop_attempts,   \* run_chain's counters
  edited,          \* this coding attempt made a mutating tool call
  agentOk,         \* the coder's own verdict on this attempt
  allPassed,       \* the last ground-truth test run
  head,            \* the commit at the tip of the working branch
  over,            \* the diff from the baseline exceeds the size cap
  touched,         \* the files it touches
  recorded,        \* task_context's commit_sha
  holding,         \* the run holds the locks of the affected files
  pr,              \* the head of the open pull request
  handlerSaw,      \* the state the failure handler has read
  \* History variables, never read by the code.
  passedTree,      \* the last tree the suite passed on
  approvedTree,    \* the last tree the reviewer's verdict approved
  codings          \* entries into CODING, counted to one above LoopBound

Callers == {"api", "cli", "watcher", "resume"}
counters == <<fix_iterations, review_cycles, noop_attempts>>
attempt == <<edited, agentOk, allPassed>>
git == <<head, over, touched>>
given == <<caller, cites>>
history == <<passedTree, approvedTree, codings>>
vars == <<given, state, overtaken, step, counters, attempt, git, recorded, holding, pr,
          handlerSaw, history>>

LoopBound == MAX_FIX_ITERATIONS + MAX_REVIEW_CYCLES + MAX_NOOP_ATTEMPTS

(* A commit: the tree it holds, and whether it replaced the working history.*)
(* NoCommit also stands for a commit that was lost with its checkout.       *)
Commits == [tree : 0..MaxTrees, squashed : BOOLEAN]
NoCommit == [tree |-> 0, squashed |-> TRUE]
Baseline == [tree |-> 0, squashed |-> FALSE]

Steps ==
  { "setup", "triage", "investigate", "examine", "report", "plan", "lock", "enter",
    "coding", "record", "cap", "testing", "tested", "review", "squash", "resquash",
    "open", "note", "wait", "failed", "returned", "escaped", "handling", "ended", "lost",
    "dead" }

(* A new task has a new checkout.  A task stranded in CODING or TESTING has *)
(* the commits that reconcile found and recorded, or a clean checkout, and  *)
(* the report that once sent it there.                                      *)
Fresh ==
  /\ caller \in {"api", "cli", "watcher"}
  /\ state = IF caller = "watcher" THEN "TRIAGING" ELSE "CREATED"
  /\ cites = {}
  /\ head = Baseline /\ over = FALSE /\ touched = {} /\ recorded = NoCommit

Resumed ==
  /\ caller = "resume"
  /\ state \in {"CODING", "TESTING"}
  /\ cites \in {r \in Reports : route_after_investigation(r, TRUE) = "PLANNING_FIX"}
  /\ \/ head = Baseline /\ over = FALSE /\ touched = {} /\ recorded = NoCommit
     \/ /\ head \in {[tree |-> t, squashed |-> FALSE] : t \in 0..(MaxTrees - 1)}
        /\ touched \in SUBSET Files /\ (touched # {} => head.tree > 0)
        /\ over \in BOOLEAN /\ (over => touched # {})
        /\ recorded = head

Init ==
  /\ Fresh \/ Resumed
  /\ overtaken = FALSE
  /\ step = "setup"
  /\ fix_iterations = 0 /\ review_cycles = 0 /\ noop_attempts = 0
  /\ edited = FALSE /\ agentOk = FALSE /\ allPassed = FALSE
  /\ holding = FALSE
  /\ pr = NoCommit
  /\ handlerSaw = state
  /\ passedTree = 0 /\ approvedTree = 0 /\ codings = 0

TypeOK ==
  /\ caller \in Callers /\ state \in TaskState /\ handlerSaw \in TaskState
  /\ overtaken \in BOOLEAN /\ step \in Steps
  /\ fix_iterations \in 0..MAX_FIX_ITERATIONS
  /\ review_cycles \in 0..MAX_REVIEW_CYCLES
  /\ noop_attempts \in 0..MAX_NOOP_ATTEMPTS
  /\ edited \in BOOLEAN /\ agentOk \in BOOLEAN /\ allPassed \in BOOLEAN
  /\ head \in Commits /\ recorded \in Commits /\ pr \in Commits
  /\ over \in BOOLEAN /\ holding \in BOOLEAN
  /\ cites \in Reports \cup {{}} /\ touched \subseteq Files
  /\ passedTree \in 0..MaxTrees /\ approvedTree \in 0..MaxTrees
  /\ codings \in 0..(LoopBound + 1)

-----------------------------------------------------------------------------
(* Database writes of the chain *)

(* Otherwise: the retry after a lost race writes without validating again. *)
MoveBlindly(to, next) ==
  /\ state' = to /\ step' = next /\ overtaken' = FALSE

(* go: an illegal move (a human has cancelled) leaves the chain.            *)
Move(to, next) ==
  \/ /\ CanMove(state, to)
     /\ state' = to /\ step' = next /\ overtaken' = FALSE
  \/ /\ ~CanMove(state, to)
     /\ step' = "escaped"
     /\ UNCHANGED <<state, overtaken>>

(* Otherwise: the commit is tried again with the version it knew.           *)
CommitAgain(next) ==
  /\ step' = IF overtaken THEN step ELSE next
  /\ UNCHANGED <<state, overtaken>>

(* A commit of task_context; StaleDataError leaves the chain.               *)
CommitContext(next) ==
  /\ step' = IF overtaken THEN "escaped" ELSE next
  /\ UNCHANGED <<state, overtaken>>

Continue(next) == step' = next /\ UNCHANGED <<state, overtaken>>

-----------------------------------------------------------------------------
(* From the report to the plan *)

(* The concurrency slot, the copy of the repository, the container, the     *)
(* branch, the index: whatever fails here is outside run_chain.             *)
SetUp ==
  /\ step = "setup"
  /\ \E next \in {"triage", "escaped"} : Continue(next)
  /\ UNCHANGED <<given, counters, attempt, git, recorded, holding, pr, handlerSaw, history>>

(* A task of the watcher comes here in TRIAGING already.  A resumed task    *)
(* has its report, and takes the one edge out of where it was stranded.     *)
Triage ==
  /\ step = "triage"
  /\ CASE caller = "resume" -> Move("PLANNING_FIX", "lock")
       [] caller # "resume" /\ state = "CREATED" -> Move("TRIAGING", "investigate")
       [] OTHER -> Continue("investigate")
  /\ UNCHANGED <<given, counters, attempt, git, recorded, holding, pr, handlerSaw, history>>

Investigate ==
  /\ step = "investigate"
  /\ Move("INVESTIGATING", "examine")
  /\ UNCHANGED <<given, counters, attempt, git, recorded, holding, pr, handlerSaw, history>>

(* The investigator hands off a report, or not.                             *)
Examine ==
  /\ step = "examine"
  /\ \/ Continue("report") /\ cites' \in Reports
     \/ Continue("failed") /\ cites' = cites
  /\ UNCHANGED <<caller, counters, attempt, git, recorded, holding, pr, handlerSaw, history>>

PersistReport ==
  /\ step = "report"
  /\ CommitContext("plan")
  /\ UNCHANGED <<given, counters, attempt, git, recorded, holding, pr, handlerSaw, history>>

(* A report with no confidence behind it, without a file, or with one that  *)
(* is not there goes to a human.                                            *)
RouteReport ==
  /\ step = "plan"
  /\ \E confident \in BOOLEAN :
       LET to == route_after_investigation(cites, confident)
       IN  Move(to, IF to = "PLANNING_FIX" THEN "lock" ELSE "returned")
  /\ UNCHANGED <<given, counters, attempt, git, recorded, holding, pr, handlerSaw, history>>

AcquireLocks ==
  /\ step = "lock"
  /\ holding' = TRUE
  /\ Continue("enter")
  /\ UNCHANGED <<given, counters, attempt, git, recorded, pr, handlerSaw, history>>

-----------------------------------------------------------------------------
(* The loop of coding, testing and review *)

EnterCoding ==
  /\ step = "enter"
  /\ Move("CODING", "coding")
  /\ edited' = FALSE
  /\ codings' = IF CanMove(state, "CODING") /\ codings <= LoopBound
                THEN codings + 1 ELSE codings
  /\ UNCHANGED <<given, counters, agentOk, allPassed, git, recorded, holding, pr, handlerSaw,
                 passedTree, approvedTree>>

(* A mutating tool call of the coder, committed at once (micro_commit)      *)
(* unless it left the tree as it was.                                       *)
EditFile ==
  /\ step = "coding"
  /\ \/ /\ head.tree < MaxTrees
        /\ head' = [tree |-> head.tree + 1, squashed |-> FALSE]
        /\ \E f \in Files : touched' \in {touched \cup {f}, touched \ {f}}
        /\ over' \in BOOLEAN /\ (over' => touched' # {})
     \/ UNCHANGED git
  /\ edited' = TRUE
  /\ UNCHANGED <<given, state, overtaken, step, counters, agentOk, allPassed, recorded, holding,
                 pr, handlerSaw, history>>

(* The coder ends its turn; a failed turn goes on to the tests.  A git      *)
(* command that fails leaves the chain.                                     *)
EndCoding ==
  /\ step = "coding"
  /\ agentOk' \in BOOLEAN
  /\ \E next \in {"record", "escaped"} : Continue(next)
  /\ UNCHANGED <<given, counters, edited, allPassed, git, recorded, holding, pr, handlerSaw, history>>

RecordCommit ==
  /\ step = "record"
  /\ CommitContext("cap")
  /\ recorded' = IF overtaken THEN recorded ELSE head
  /\ UNCHANGED <<given, counters, attempt, git, holding, pr, handlerSaw, history>>

(* status = "success": an edit of this attempt, by a turn that succeeded,   *)
(* and a diff to show.                                                      *)
Success == edited /\ agentOk /\ touched # {}

(* Only a "success" is held to the size cap here.                           *)
EnterTesting ==
  /\ step = "cap"
  /\ IF Success /\ over THEN Move("NEEDS_HUMAN_INPUT", "returned")
                        ELSE Move("TESTING", "testing")
  /\ UNCHANGED <<given, counters, attempt, git, recorded, holding, pr, handlerSaw, history>>

(* The orchestrator's own run of the suite; the tester only explains it.    *)
RunTests ==
  /\ step = "testing"
  /\ allPassed' \in BOOLEAN
  /\ passedTree' = IF allPassed' THEN head.tree ELSE passedTree
  /\ \E next \in {"tested", "escaped"} : Continue(next)
  /\ UNCHANGED <<given, counters, edited, agentOk, git, recorded, holding, pr, handlerSaw,
                 approvedTree, codings>>

(* A no-op attempt whose tests pass takes the size cap here, late.          *)
NoOpPassed ==
  /\ step = "tested" /\ ~edited /\ allPassed
  /\ IF over THEN Move("NEEDS_HUMAN_INPUT", "returned") ELSE Move("REVIEWING", "review")
  /\ UNCHANGED <<given, counters, attempt, git, recorded, holding, pr, handlerSaw, history>>

(* Any other no-op attempt is discarded, within a budget of its own.        *)
NoOpDiscarded ==
  /\ step = "tested" /\ ~edited /\ ~allPassed
  /\ noop_attempts' = noop_attempts + 1
  /\ IF noop_attempts' >= MAX_NOOP_ATTEMPTS THEN Move("FAILED", "returned")
                                            ELSE Continue("enter")
  /\ UNCHANGED <<given, fix_iterations, review_cycles, attempt, git, recorded, holding, pr,
                 handlerSaw, history>>

(* Otherwise: one test run more than the budget allows.                   *)
RouteTestsOffByOne ==
  /\ step = "tested" /\ edited
  /\ \/ /\ allPassed
        /\ Move("REVIEWING", "review")
        /\ UNCHANGED fix_iterations
     \/ /\ ~allPassed /\ fix_iterations <= MAX_FIX_ITERATIONS
        /\ fix_iterations' = fix_iterations + 1
        /\ Continue("enter")
     \/ /\ ~allPassed /\ fix_iterations > MAX_FIX_ITERATIONS
        /\ Move("FAILED", "returned")
        /\ UNCHANGED fix_iterations
  /\ UNCHANGED <<given, review_cycles, noop_attempts, attempt, git, recorded, holding, pr,
                 handlerSaw, history>>

(* route_after_testing on an attempt that edited something.                 *)
RouteTests ==
  /\ step = "tested" /\ edited
  /\ \/ /\ allPassed
        /\ Move("REVIEWING", "review")
        /\ UNCHANGED fix_iterations
     \/ /\ ~allPassed /\ fix_iterations < MAX_FIX_ITERATIONS
        /\ fix_iterations' = fix_iterations + 1
        /\ Continue("enter")
     \/ /\ ~allPassed /\ fix_iterations >= MAX_FIX_ITERATIONS
        /\ Move("FAILED", "returned")
        /\ UNCHANGED fix_iterations
  /\ UNCHANGED <<given, review_cycles, noop_attempts, attempt, git, recorded, holding, pr,
                 handlerSaw, history>>

(* The reviewer's verdict, with what came of running its counterexample.     *)
Statuses == {verify_counterexample(claim) : claim \in Claims}

Approved(verdict) == enforce_review_checks(verdict, touched, cites, allPassed)

(* An approval has no counterexample.                                       *)
HandedOff ==
  {v \in Verdicts : v.counterexample \in IF v.approved THEN {"none"} ELSE Statuses}

Approve ==
  /\ step = "review"
  /\ \E verdict \in HandedOff : Approved(verdict)
  /\ approvedTree' = head.tree
  /\ Move("PR_CREATION", "squash")
  /\ UNCHANGED <<given, counters, attempt, git, recorded, holding, pr, handlerSaw, passedTree, codings>>

(* Otherwise: a rejection that the budget allows is not counted.          *)
RejectUncounted ==
  /\ step = "review"
  /\ \E verdict \in HandedOff : ~Approved(verdict)
  /\ IF review_cycles < MAX_REVIEW_CYCLES THEN Continue("enter") ELSE Move("FAILED", "returned")
  /\ UNCHANGED <<given, counters, attempt, git, recorded, holding, pr, handlerSaw, history>>

Reject ==
  /\ step = "review"
  /\ \E verdict \in HandedOff : ~Approved(verdict)
  /\ \/ /\ review_cycles < MAX_REVIEW_CYCLES
        /\ review_cycles' = review_cycles + 1
        /\ Continue("enter")
     \/ /\ review_cycles >= MAX_REVIEW_CYCLES
        /\ Move("FAILED", "returned")
        /\ UNCHANGED review_cycles
  /\ UNCHANGED <<given, fix_iterations, noop_attempts, attempt, git, recorded, holding, pr,
                 handlerSaw, history>>

(* The reviewer fails or hands nothing valid off, or the counterexample     *)
(* could not be run.                                                        *)
ReviewFails ==
  /\ step = "review"
  /\ \E next \in {"failed", "escaped"} : Continue(next)
  /\ UNCHANGED <<given, counters, attempt, git, recorded, holding, pr, handlerSaw, history>>

-----------------------------------------------------------------------------
(* The pull request *)

(* squash_wip_commits: one commit in place of the working history.  Without *)
(* anything to commit, or when git fails halfway, the branch is back at the *)
(* baseline.                                                                *)
Squash ==
  /\ step = "squash"
  /\ \/ /\ head.tree > 0 /\ touched # {}
        /\ head' = [head EXCEPT !.squashed = TRUE]
        /\ Continue("resquash")
     \/ head.tree = 0 /\ head' = head /\ Continue("open")
     \/ head' \in {head, Baseline} /\ Continue("escaped")
  /\ UNCHANGED <<given, counters, attempt, over, touched, recorded, holding, pr, handlerSaw, history>>

(* Otherwise: the squashed commit is not recorded.                        *)
KeepOldCommit ==
  /\ step = "resquash"
  /\ CommitContext("open")
  /\ UNCHANGED <<given, counters, attempt, git, recorded, holding, pr, handlerSaw, history>>

RecordSquash ==
  /\ step = "resquash"
  /\ CommitContext("open")
  /\ recorded' = IF overtaken THEN recorded ELSE head
  /\ UNCHANGED <<given, counters, attempt, git, holding, pr, handlerSaw, history>>

(* create_pull_request: its gates on the diff, the push, GitHub's answer,   *)
(* which is no for a branch without commits.                                *)
OpenPullRequest ==
  /\ step = "open"
  /\ \/ /\ ~over /\ head.tree > 0
        /\ pr' = head /\ Continue("note")
     \/ Move("NEEDS_HUMAN_INPUT", "returned") /\ UNCHANGED pr
  /\ UNCHANGED <<given, counters, attempt, git, recorded, holding, handlerSaw, history>>

(* The pull_requests row.  Its failure is swallowed, and leaves a session   *)
(* that must be rolled back before its next statement, the one in go.       *)
NotePullRequest ==
  /\ step = "note"
  /\ \E next \in {"wait", "escaped"} : Continue(next)
  /\ UNCHANGED <<given, counters, attempt, git, recorded, holding, pr, handlerSaw, history>>

WaitForApproval ==
  /\ step = "wait"
  /\ Move("WAITING_FOR_APPROVAL", "returned")
  /\ UNCHANGED <<given, counters, attempt, git, recorded, holding, pr, handlerSaw, history>>

-----------------------------------------------------------------------------
(* The ends of a run *)

(* except _ChainFailure: the state is the one the chain last saw, and moves *)
(* only if the row still allows it.                                         *)
EndOnFailure ==
  /\ step = "failed"
  /\ Move(FailureState(state), "returned")
  /\ UNCHANGED <<given, counters, attempt, git, recorded, holding, pr, handlerSaw, history>>

(* What follows an exception out of run_fix.                                *)
Raised ==
  /\ step' = IF caller = "api" THEN "handling" ELSE "ended"
  /\ handlerSaw' = state
  /\ overtaken' = FALSE

(* The finally clauses release the locks and the container.  Then the       *)
(* caller persists the result: a commit of task_context like the others.    *)
(* Before that the teardown may raise, or the incident memory may fail and  *)
(* leave a session that persisting cannot use.                              *)
Return ==
  /\ step = "returned"
  /\ holding' = FALSE
  /\ \/ /\ overtaken => caller = "watcher"
        /\ step' = "ended"
        /\ UNCHANGED <<overtaken, handlerSaw>>
     \/ Raised
  /\ UNCHANGED <<given, state, counters, attempt, git, recorded, pr, history>>

(* Otherwise: the locks are released by the paths that return only.       *)
EscapeHolding ==
  /\ step = "escaped"
  /\ Raised
  /\ UNCHANGED <<given, state, counters, attempt, git, recorded, holding, pr, history>>

(* Otherwise: nobody catches what the background job raises.              *)
EscapeUnhandled ==
  /\ step = "escaped"
  /\ holding' = FALSE
  /\ step' = "ended"
  /\ UNCHANGED <<given, state, overtaken, counters, attempt, git, recorded, pr, handlerSaw, history>>

Escape ==
  /\ step = "escaped"
  /\ holding' = FALSE
  /\ Raised
  /\ UNCHANGED <<given, state, counters, attempt, git, recorded, pr, history>>

(* The handler leaves a terminal task alone, and loses any race.            *)
HandlerGivesUp ==
  /\ step = "handling"
  /\ handlerSaw \in TERMINAL_STATES \/ overtaken
  /\ Continue("ended")
  /\ UNCHANGED <<given, counters, attempt, git, recorded, holding, pr, handlerSaw, history>>

HandlerMoves ==
  /\ step = "handling"
  /\ handlerSaw \in NonTerminal /\ ~overtaken
  /\ state' = FailureState(handlerSaw)
  /\ step' = "ended"
  /\ UNCHANGED <<given, overtaken, counters, attempt, git, recorded, holding, pr, handlerSaw, history>>

(* The handler's own look-up, transition or commit raises: that is logged   *)
(* and nothing else, and the task keeps whatever state it was in.           *)
HandlerFails ==
  /\ step = "handling"
  /\ Continue("lost")
  /\ UNCHANGED <<given, counters, attempt, git, recorded, holding, pr, handlerSaw, history>>

(* The process dies; its connection's locks go with it.                     *)
Crash ==
  /\ step \notin {"ended", "lost", "dead"}
  /\ step' = "dead"
  /\ holding' = FALSE
  /\ UNCHANGED <<given, state, overtaken, counters, attempt, git, recorded, pr, handlerSaw, history>>

(* The cancel, reject and approve endpoints: whatever the table allows.     *)
HumanMoves ==
  /\ \E to \in {"CANCELLED", "MERGED"} : CanMove(state, to) /\ state' = to
  /\ overtaken' = TRUE
  /\ UNCHANGED <<given, step, counters, attempt, git, recorded, holding, pr, handlerSaw, history>>

-----------------------------------------------------------------------------
RunStep ==
  \/ SetUp \/ Triage \/ Investigate \/ Examine \/ PersistReport \/ RouteReport
  \/ AcquireLocks \/ EnterCoding \/ EndCoding \/ RecordCommit \/ EnterTesting
  \/ RunTests \/ NoOpPassed \/ NoOpDiscarded \/ RouteTests
  \/ Approve \/ Reject \/ ReviewFails
  \/ Squash \/ RecordSquash \/ OpenPullRequest \/ NotePullRequest \/ WaitForApproval
  \/ EndOnFailure \/ Return \/ Escape \/ HandlerGivesUp \/ HandlerMoves
  \/ HandlerFails

Next == RunStep \/ EditFile \/ Crash \/ HumanMoves

Spec == Init /\ [][Next]_vars

(* Agents, tools and containers answer or time out, so the run goes on.     *)
FairSpec == Spec /\ WF_vars(RunStep)

-----------------------------------------------------------------------------
(* Properties *)

(* The open pull request holds the very tree that passed the suite and that *)
(* was approved in the end, squashed, within the size cap, and changes only *)
(* files that the root cause had named: by whatever verdicts, overrides,    *)
(* retries or resumption it came about.                                     *)
OnlyReviewedWorkIsProposed ==
  pr # NoCommit =>
    /\ pr.tree = passedTree /\ pr.tree = approvedTree
    /\ pr.squashed
    /\ ~over
    /\ touched \subseteq {c.file : c \in cites}

(* Three budgets bound one loop: whatever the order of failed tests, no-op  *)
(* attempts and rejections, the coder is sent out no more often than this.  *)
BudgetsBoundTheLoop ==
  codings <= LoopBound

(* A task that waits for approval records the very commit its pull request  *)
(* holds; one that a crash strands in the loop records a commit its branch  *)
(* still has, however often the coder was sent back.                        *)
RecordedCommitExists ==
  /\ state = "WAITING_FOR_APPROVAL" => recorded = pr
  /\ state \in {"CODING", "TESTING"} /\ recorded # NoCommit
     => recorded.tree <= head.tree /\ ~recorded.squashed /\ ~head.squashed

(* A background run that ended, by any path, leaves its task where nothing  *)
(* more is expected of it, never in a working state; only a run whose       *)
(* handler could not record the failure either ("lost") may.                *)
NoTaskLeftWorking ==
  step = "ended" /\ caller = "api"
  => state \in TERMINAL_STATES \cup {"WAITING_FOR_APPROVAL", "MERGED"}

(* From the first edit to the end of the review the run holds the locks of  *)
(* its files, and no ended run holds any.                                   *)
LocksCoverTheWork ==
  /\ step \in {"coding", "record", "cap", "testing", "tested", "review", "squash", "open"}
     => holding
  /\ step \in {"handling", "ended", "lost", "dead"} => ~holding

Stages == {"examine", "lock", "coding", "testing", "review", "squash"}

(* Once the task has ended, by a human's cancel above all, the chain enters *)
(* no further stage.                                                        *)
EndedTaskEntersNoStage ==
  [][step' # step /\ state \in TERMINAL_STATES => step' \notin Stages]_vars

(* How far each step is from the end of the run, in the order in which the  *)
(* code takes them; only the loop goes back, and pays for it with one of    *)
(* its budgets.                                                             *)
Distance ==
  [ setup |-> 24, triage |-> 23, investigate |-> 22, examine |-> 21, report |-> 20, plan |-> 19,
    lock |-> 18, enter |-> 17, coding |-> 16, record |-> 15, cap |-> 14, testing |-> 13,
    tested |-> 12, review |-> 11, squash |-> 10, resquash |-> 9, open |-> 8, note |-> 7,
    wait |-> 6, failed |-> 5, returned |-> 4, escaped |-> 3, handling |-> 2, ended |-> 1,
    lost |-> 1, dead |-> 0 ]

RoundsLeft ==
  (MAX_FIX_ITERATIONS - fix_iterations) + (MAX_REVIEW_CYCLES - review_cycles)
    + (MAX_NOOP_ATTEMPTS - noop_attempts)

Remaining == 25 * RoundsLeft + Distance[step]

(* No circle of stages is free: whatever tests, reviewers, humans and       *)
(* failures do, each step of the run takes it nearer to its end, and        *)
(* nobody else's step, an edit of the coder or a human's move, takes it     *)
(* back.                                                                    *)
RunGoesForward ==
  [][/\ Remaining' <= Remaining
     /\ RunStep => Remaining' < Remaining]_vars

(* What slips the size cap before the review is the diff of a coder turn    *)
(* that edited and then failed, and nothing else: the no-op attempt that    *)
(* inherits a large diff and the success are both stopped.                  *)
OnlyFailedTurnsSlipTheCap ==
  step = "review" /\ over => edited /\ ~agentOk

(* Every run ends, in its handler perhaps, unless its process dies.         *)
RunEnds == <>(step \in {"ended", "lost", "dead"})

(* Nothing that fails after the chain has finished, such as the incident    *)
(* memory, "must never turn a finished task into a failed one": a task whose*)
(* pull request waits for approval is not cancelled by the handler.         *)
FinishedWorkStands ==
  [][HandlerMoves => handlerSaw # "WAITING_FOR_APPROVAL"]_vars
=============================================================================
