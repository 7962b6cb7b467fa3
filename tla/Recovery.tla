------------------------------ MODULE Recovery ------------------------------
(***************************************************************************)
(* What survives a crash, and what a resume makes of it: the scratch       *)
(* directory of one task with its git repository (sandbox/repo.py), the    *)
(* containers on it (sandbox/manager.py), reconcile (orchestrator/         *)
(* reconcile.py), resume_fix beside or after the first run (orchestrator/  *)
(* chain.py), and the two sweeps (orchestrator/cleanup.py).                *)
(*                                                                         *)
(* Run 1 may be run_fix; the others are `amop resume`, each a process of   *)
(* its own.  The stages between are those of FixChain, cut down to the ones *)
(* that touch the directory.  A content is a number, 0 for the source that *)
(* was copied; a commit is the log of contents that leads to it.           *)
(***************************************************************************)
EXTENDS Naturals, Sequences, TaskStates

CONSTANTS
  NumRuns,     \* one, and the resumes
  Cloned,      \* the source has a history of its own, so its baseline is one commit
  MaxRounds,   \* the budgets of FixChain, as one: returns to CODING of a run
  MaxEdits     \* bound of the model: contents written, by agents or humans

ASSUME BoundsAssumption ==
  NumRuns \in Nat \ {0} /\ Cloned \in BOOLEAN /\ MaxRounds \in Nat /\ MaxEdits \in Nat

Runs == 1..NumRuns

VARIABLES
  state,        \* tasks.state
  known,        \* task_context has a repo
  reported,     \* task_context has a root_cause_report
  recorded,     \* task_context's commit_sha
  overtaken,    \* the row has been written since the run last read it
  copy,         \* the context as a resume has read it, and what it makes of it
  step,         \* where each run stands
  rounds,       \* times a run was sent back to CODING
  fresh,        \* the run starts from a new checkout
  lock,         \* the run that holds the lock of the declared files, or 0
  there,        \* the scratch directory exists
  epoch,        \* times the source has been copied to it
  git,          \* the repository in the directory
  box,          \* the container of each run: the epoch of its mount, 0 if there is none
  pushedToBase, \* the content pushed to the base branch of the remote
  pulls,        \* the pull requests opened: their commits, in order
  \* History variables, never read by the code.
  edits,        \* contents written so far
  made,         \* contents committed on the working branch of this checkout
  seen,         \* the contents that passed the suite, and those a review approved
  strayed       \* "base": a run was cut off on the base branch; "copy": the source
                \* was copied over a directory that was there; "early": a run goes
                \* on in a directory that has no branch yet

row == <<state, known, reported, recorded>>
runVars == <<overtaken, copy, step, rounds, fresh>>
dirVars == <<there, epoch, git>>
remote == <<pushedToBase, pulls>>
history == <<edits, made, seen, strayed>>
vars == <<row, runVars, lock, dirVars, box, remote, history>>

(* micro_commit, commit_all, squash_wip_commits, and anybody else. *)
Authors == {"bot", "agent", "squash", "human"}
Logs == Seq([tree : 0..MaxEdits, by : Authors])
Commits == [at : Nat, log : Logs]
NoCommit == [at |-> 0, log |-> <<[tree |-> 0, by |-> "none"]>>]

(* The context a resume holds: its commit_sha, then the head it adopts; its *)
(* report; whether reconcile lets it go on.                                 *)
NoCopy == [commit |-> NoCommit, reported |-> FALSE, resumable |-> FALSE]

(* ready: a repository, which a cloned source brings along, on its base     *)
(* branch; branched: with the branch of the task, which leaves the base     *)
(* branch at base; intact: sound, or still to be made of a whole copy of the*)
(* source; home: the branch a run went to the base branch from.             *)
NoGit == [ready |-> FALSE, branched |-> FALSE, intact |-> TRUE,
          work |-> << >>, main |-> << >>, base |-> << >>,
          onBase |-> TRUE, home |-> "work", tree |-> 0, staged |-> 0]
NewCopy == [NoGit EXCEPT !.ready = Cloned]
EmptyDir == [NoGit EXCEPT !.intact = FALSE]
NoBox == 0

Steps ==
  { "idle", "materialize", "container", "baseline", "branch", "lead", "report", "plan",
    "look", "inspect", "adopt", "leave", "resume", "lock", "enter", "coding",
    "record", "cap", "testing", "onbase", "red", "passed", "review", "squash",
    "squashing", "resquash", "open", "finish", "returned", "escaped", "teardown",
    "ended", "dead" }
Over == {"ended", "dead"}
InLoop == {"coding", "record", "cap", "testing", "red", "passed", "review", "squash"}

Locked == InLoop \cup {"enter", "onbase", "squashing", "resquash", "open", "finish",
                      "returned", "escaped"}

TypeOK ==
  /\ state \in TaskState /\ known \in BOOLEAN /\ reported \in BOOLEAN
  /\ recorded \in Commits \cup {NoCommit}
  /\ overtaken \in [Runs -> BOOLEAN] /\ fresh \in [Runs -> BOOLEAN]
  /\ copy \in [Runs -> [commit : Commits \cup {NoCommit}, reported : BOOLEAN,
                       resumable : BOOLEAN]]
  /\ step \in [Runs -> Steps] /\ rounds \in [Runs -> 0..MaxRounds]
  /\ lock \in Runs \cup {0}
  /\ there \in BOOLEAN /\ epoch \in Nat
  /\ git \in [ready : BOOLEAN, branched : BOOLEAN, intact : BOOLEAN,
              work : Logs, main : Logs, base : Logs,
              onBase : BOOLEAN, home : {"work", "main"}, tree : 0..MaxEdits, staged : 0..MaxEdits]
  /\ box \in [Runs -> Nat]
  /\ pushedToBase \in 0..MaxEdits
  /\ pulls \in Seq(Commits)
  /\ edits \in 0..MaxEdits /\ made \in SUBSET (0..MaxEdits)
  /\ seen \in [passed : SUBSET (0..MaxEdits), approved : SUBSET (0..MaxEdits)]
  /\ strayed \in SUBSET {"base", "copy", "early"}

(* A task `amop fix` has just created; one whose first run raised in CODING *)
(* and took the directory with it; one that names no repository.            *)
JustCreated == state = "CREATED" /\ known /\ ~reported /\ recorded = NoCommit /\ epoch = 0

LeftBehind ==
  /\ state = "CODING" /\ known /\ reported /\ epoch = 1 /\ MaxEdits > 0
  /\ recorded \in {NoCommit, [at |-> 1, log |-> <<[tree |-> 1, by |-> "bot"]>>]}

NeverRun == state = "CODING" /\ ~known /\ ~reported /\ recorded = NoCommit /\ epoch = 0

Init ==
  /\ state \in {"CREATED", "CODING"} /\ known \in BOOLEAN /\ reported \in BOOLEAN
  /\ epoch \in {0, 1}
  /\ recorded \in {NoCommit, [at |-> 1, log |-> <<[tree |-> 1, by |-> "bot"]>>]}
  /\ JustCreated \/ LeftBehind \/ NeverRun
  /\ overtaken = [r \in Runs |-> FALSE]
  /\ copy = [r \in Runs |-> NoCopy] /\ rounds = [r \in Runs |-> 0]
  /\ step = [r \in Runs |-> IF r = 1 /\ state = "CREATED" THEN "materialize" ELSE "idle"]
  /\ fresh = [r \in Runs |-> TRUE]
  /\ lock = 0
  /\ there = FALSE /\ git = NoGit
  /\ box = [r \in Runs |-> NoBox]
  /\ pushedToBase = 0 /\ pulls = << >>
  /\ edits = epoch /\ made = {} /\ seen = [passed |-> {}, approved |-> {}]
  /\ strayed = {}

-----------------------------------------------------------------------------
(* The repository *)

Tip == IF git.onBase THEN git.main ELSE git.work
Content(log) == IF log = << >> THEN 0 ELSE log[Len(log)].tree
HasChanges == git.tree # Content(Tip)

(* A commit is named after the checkout it was made in; the baseline of a   *)
(* clone is the same commit in each.                                        *)
CommitAt(log) == [at |-> IF log = << >> /\ Cloned THEN 0 ELSE epoch, log |-> log]
CommitExists(c) == c.at = epoch \/ c = CommitAt(<< >>)
IsAncestor(a, b) == Len(a) <= Len(b) /\ SubSeq(b, 1, Len(a)) = a

(* Otherwise: the identity of commit_all is not known.                    *)
AdvancedByBotOnly(since) ==
  \A n \in (Len(since) + 1)..Len(Tip) : Tip[n].by \in {"bot", "squash"}

(* Every commit after since has one of the two identities AMOP commits with.*)
AdvancedByAmopOnly(since) ==
  \A n \in (Len(since) + 1)..Len(Tip) : Tip[n].by # "human"

(* The container of r is alive and its mount is the directory of now: rmtree *)
(* empties what a running container sees.                                   *)
Usable(r) == there /\ epoch > 0 /\ box[r] = epoch
GitWorks(r) == Usable(r) /\ git.ready /\ git.intact

(* checkout of the base branch from a clean tree.                           *)
OnBase == [git EXCEPT !.onBase = TRUE, !.tree = Content(git.main)]

WithHead(g, log) ==
  IF g.onBase THEN [g EXCEPT !.main = log] ELSE [g EXCEPT !.work = log]

(* Otherwise: each commit amends the last.                                *)
AmendTree(tree, by) ==
  [WithHead(git, <<[tree |-> tree, by |-> by]>>) EXCEPT !.tree = tree]

(* add -A and commit, on whatever branch HEAD is.                           *)
CommitTree(tree, by) ==
  [WithHead(git, Append(Tip, [tree |-> tree, by |-> by])) EXCEPT !.tree = tree]

(* commit_all: whatever no edit has committed.                              *)
CommitAll == IF HasChanges THEN CommitTree(git.tree, "agent") ELSE git

-----------------------------------------------------------------------------
(* Steps and moves *)

Goto(r, next) == step' = [step EXCEPT ![r] = next]

(* Whoever else holds a copy of the row holds an old one now.               *)
Written(r) ==
  overtaken' = [s \in Runs |-> s # r /\ step[s] \notin Over \cup {"idle"}]

StrayedIf(onBase) == IF onBase THEN strayed \cup {"base"} ELSE strayed

Quietly(r, next) == Goto(r, next) /\ UNCHANGED <<row, overtaken>>

(* Otherwise: the reread of transition_with_retry validates nothing.      *)
MoveBlindly(r, to, next, refused) ==
  /\ state' = to /\ Goto(r, next) /\ Written(r)
  /\ UNCHANGED <<known, reported, recorded>>

(* transition_with_retry, as TaskStore has it.                              *)
Move(r, to, next, refused) ==
  \/ /\ CanMove(state, to)
     /\ state' = to /\ Goto(r, next) /\ Written(r)
     /\ UNCHANGED <<known, reported, recorded>>
  \/ /\ ~CanMove(state, to)
     /\ Quietly(r, refused)

(* A commit of task_context with a new commit_sha; StaleDataError otherwise.*)
Record(r, commit, next, refused) ==
  IF overtaken[r]
  THEN Quietly(r, refused)
  ELSE /\ recorded' = commit /\ Goto(r, next) /\ Written(r)
       /\ UNCHANGED <<state, known, reported>>

-----------------------------------------------------------------------------
(* A new checkout *)

(* materialize: the source is copied to the directory of the task, over     *)
(* what is there, the source's own .git included.                           *)
Materialize(r) ==
  /\ step[r] = "materialize"
  /\ there' = TRUE
  /\ IF there
     THEN /\ git' = [git EXCEPT !.tree = 0, !.intact = @ \/ ~git.ready,
                         !.ready = @ \/ Cloned, !.onBase = @ \/ Cloned]
          /\ strayed' = strayed \cup {"copy"} \cup (IF Cloned THEN {"base"} ELSE {})
          /\ UNCHANGED <<epoch, made>>
     ELSE /\ epoch' = epoch + 1 /\ git' = NewCopy /\ made' = {}
          /\ UNCHANGED strayed
  /\ Quietly(r, "container")
  /\ UNCHANGED <<copy, rounds, fresh, lock, box, remote, edits, seen>>

(* SandboxManager.create makes the directory, empty, if it is gone.         *)
StartBox(r) ==
  /\ there' = TRUE
  /\ IF there THEN UNCHANGED <<epoch, git, made>>
              ELSE epoch' = epoch + 1 /\ git' = EmptyDir /\ made' = {}
  /\ box' = [box EXCEPT ![r] = epoch']

(* A resume that kept the directory goes on in what is there now.           *)
GoesOnEarly(r) == ~fresh[r] /\ there /\ ~git.branched

(* A failure here is before the try block: nothing is torn down.            *)
CreateContainer(r) ==
  /\ step[r] = "container"
  /\ \/ /\ StartBox(r) /\ Quietly(r, IF fresh[r] THEN "baseline" ELSE "resume")
        /\ strayed' = IF GoesOnEarly(r) THEN strayed \cup {"early"} ELSE strayed
     \/ Quietly(r, "ended") /\ UNCHANGED <<there, epoch, git, made, box, strayed>>
  /\ UNCHANGED <<copy, rounds, fresh, lock, remote, edits, seen>>

(* init_baseline: the base branch is checked out, of the repository that is *)
(* there or of a new one, and gets a commit of what it has not.  It cannot  *)
(* be from a changed branch, nor in a container that is gone.               *)
InitBaseline(r) ==
  /\ step[r] = "baseline"
  /\ IF Usable(r) /\ git.intact /\ (git.onBase \/ ~HasChanges)
     THEN /\ git' = [IF git.onBase /\ HasChanges THEN CommitTree(git.tree, "agent") ELSE OnBase
                       EXCEPT !.ready = TRUE]
          /\ strayed' = StrayedIf(git.branched)
          /\ Quietly(r, "branch")
     ELSE /\ Quietly(r, "escaped")
          /\ UNCHANGED <<git, strayed>>
  /\ UNCHANGED <<copy, rounds, fresh, lock, there, epoch, box, remote, edits, made, seen>>

(* Otherwise: HEAD stays on the base branch.                                *)
BranchNotCheckedOut ==
  [git EXCEPT !.branched = TRUE, !.work = git.main, !.base = git.main]

(* checkout -b, from the base branch.                                       *)
NewBranch ==
  [git EXCEPT !.branched = TRUE, !.work = git.main, !.base = git.main,
              !.onBase = FALSE, !.home = "work"]

(* create_branch, which fails if the branch is there.                       *)
CreateBranch(r) ==
  /\ step[r] = "branch"
  /\ IF GitWorks(r) /\ ~git.branched
     THEN git' = NewBranch /\ Quietly(r, IF copy[r].resumable THEN "resume" ELSE "lead")
     ELSE UNCHANGED git /\ Quietly(r, "escaped")
  /\ UNCHANGED <<copy, rounds, fresh, lock, there, epoch, box, remote, history>>

(* TRIAGING and INVESTIGATING of the first run.                             *)
Investigate(r) ==
  /\ step[r] = "lead"
  /\ IF state = "CREATED" THEN Move(r, "TRIAGING", "lead", "escaped")
                          ELSE Move(r, "INVESTIGATING", "report", "escaped")
  /\ UNCHANGED <<copy, rounds, fresh, lock, dirVars, box, remote, history>>

PersistReport(r) ==
  /\ step[r] = "report"
  /\ IF overtaken[r]
     THEN Quietly(r, "escaped")
     ELSE /\ reported' = TRUE /\ Goto(r, "plan") /\ Written(r)
          /\ UNCHANGED <<state, known, recorded>>
  /\ UNCHANGED <<copy, rounds, fresh, lock, dirVars, box, remote, history>>

(* The first run from its report, a resume from the report it recovered.    *)
Plan(r) ==
  /\ step[r] \in {"plan", "resume"}
  /\ Move(r, "PLANNING_FIX", "lock", "escaped")
  /\ UNCHANGED <<copy, rounds, fresh, lock, dirVars, box, remote, history>>

-----------------------------------------------------------------------------
(* reconcile *)

(* `amop resume`, of a task in any state.                                   *)
AskResume(r) ==
  /\ step[r] = "idle"
  /\ \A s \in 1..(r - 1) : step[s] # "idle"
  /\ step' = [step EXCEPT ![r] = "look"]
  /\ overtaken' = [overtaken EXCEPT ![r] = FALSE]
  /\ copy' = [copy EXCEPT ![r] =
                [commit |-> recorded, reported |-> reported, resumable |-> FALSE]]
  /\ UNCHANGED <<row, rounds, fresh, lock, dirVars, box, remote, history>>

(* No repository recorded, or nothing left and no report to start from.     *)
NothingToResume(r) ==
  /\ step[r] = "look"
  /\ ~known \/ (~there /\ ~copy[r].reported)
  /\ Move(r, "NEEDS_HUMAN_INPUT", "ended", "ended")
  /\ UNCHANGED <<copy, rounds, fresh, lock, dirVars, box, remote, history>>

(* Case C: the report is all there is.                                      *)
StartOver(r) ==
  /\ step[r] = "look" /\ known /\ ~there /\ copy[r].reported
  /\ copy' = [copy EXCEPT ![r] = [NoCopy EXCEPT !.resumable = TRUE]]
  /\ Quietly(r, "materialize")
  /\ UNCHANGED <<rounds, fresh, lock, dirVars, box, remote, history>>

(* A container to look into the directory with.                             *)
LookIntoDirectory(r) ==
  /\ step[r] = "look" /\ known /\ there
  /\ \/ StartBox(r) /\ Quietly(r, "inspect")
     \/ Quietly(r, "ended") /\ UNCHANGED <<there, epoch, git, made, box>>
  /\ UNCHANGED <<copy, rounds, fresh, lock, remote, edits, seen, strayed>>

Same(r) == copy[r].commit = CommitAt(Tip)

Verdict(r) ==
  IF ~GitWorks(r) THEN "F"
  ELSE IF Same(r) THEN "equal"
  ELSE IF copy[r].commit = NoCommit THEN "A"
  ELSE IF ~CommitExists(copy[r].commit) THEN "B"
  ELSE IF IsAncestor(copy[r].commit.log, Tip) /\ AdvancedByAmopOnly(copy[r].commit.log)
  THEN "A" ELSE "D"

(* An exec in a container that is gone raises.                              *)
InspectFails(r) ==
  /\ step[r] = "inspect" /\ box[r] = NoBox
  /\ Quietly(r, "leave")
  /\ UNCHANGED <<copy, rounds, fresh, lock, dirVars, box, remote, history>>

LeaveToHuman(r) ==
  /\ step[r] = "inspect" /\ box[r] # NoBox
  /\ Verdict(r) \in {"D", "F"} \/ ~copy[r].reported
  /\ Move(r, "NEEDS_HUMAN_INPUT", "leave", "leave")
  /\ UNCHANGED <<copy, rounds, fresh, lock, dirVars, box, remote, history>>

Inspect(r) ==
  /\ step[r] = "inspect" /\ box[r] # NoBox
  /\ Verdict(r) \in {"equal", "A", "B"} /\ copy[r].reported
  /\ copy' = [copy EXCEPT ![r] = [commit |-> CommitAt(Tip), reported |-> TRUE,
                                  resumable |-> Verdict(r) = "equal"]]
  /\ fresh' = [fresh EXCEPT ![r] = FALSE]
  /\ Quietly(r, IF Verdict(r) = "equal" THEN "leave" ELSE "adopt")
  /\ UNCHANGED <<rounds, lock, dirVars, box, remote, history>>

(* _adopt_head: git wins.  The orphaned pull request is looked up after it, *)
(* at best effort.                                                          *)
Adopt(r) ==
  /\ step[r] = "adopt"
  /\ Record(r, copy[r].commit, "leave", "leave")
  /\ copy' = [copy EXCEPT ![r].resumable = ~overtaken[r]]
  /\ UNCHANGED <<rounds, fresh, lock, dirVars, box, remote, history>>

(* destroy without the directory, and on to the run if there is to be one.  *)
LeaveReconcile(r) ==
  /\ step[r] = "leave"
  /\ box' = [box EXCEPT ![r] = NoBox]
  /\ copy' = [copy EXCEPT ![r] = [NoCopy EXCEPT !.resumable = copy[r].resumable]]
  /\ Quietly(r, IF copy[r].resumable THEN "container" ELSE "ended")
  /\ UNCHANGED <<rounds, fresh, lock, dirVars, remote, history>>

-----------------------------------------------------------------------------
(* The loop of coding, testing and review *)

(* Otherwise: nobody waits for the lock.                                  *)
BargeIn(r) ==
  /\ step[r] = "lock"
  /\ lock' = r
  /\ Quietly(r, "enter")
  /\ UNCHANGED <<copy, rounds, fresh, dirVars, box, remote, history>>

(* repo_file_lock: the runs of one task lock the same files, the report's.  *)
AcquireLock(r) ==
  /\ step[r] = "lock" /\ lock = 0
  /\ lock' = r
  /\ Quietly(r, "enter")
  /\ UNCHANGED <<copy, rounds, fresh, dirVars, box, remote, history>>

EnterCoding(r) ==
  /\ step[r] = "enter"
  /\ Move(r, "CODING", "coding", "escaped")
  /\ UNCHANGED <<copy, rounds, fresh, lock, dirVars, box, remote, history>>

(* A mutating tool call, committed at once; a commit that fails is only a   *)
(* warning.                                                                 *)
EditFile(r) ==
  /\ step[r] = "coding" /\ GitWorks(r) /\ edits < MaxEdits
  /\ edits' = edits + 1
  /\ \/ git' = CommitTree(edits', "bot") /\ made' = made \cup {edits'}
     \/ git' = [git EXCEPT !.tree = edits'] /\ UNCHANGED made
  /\ UNCHANGED <<row, runVars, lock, there, epoch, box, remote, seen, strayed>>

(* The end of the coder's turn: commit_all takes what no edit committed.    *)
EndCoding(r) ==
  /\ step[r] = "coding"
  /\ \/ /\ GitWorks(r)
        /\ git' = CommitAll
        /\ made' = IF HasChanges THEN made \cup {git.tree} ELSE made
        /\ Quietly(r, "record")
     \/ Quietly(r, "escaped") /\ UNCHANGED <<git, made>>
  /\ UNCHANGED <<copy, rounds, fresh, lock, there, epoch, box, remote, edits, seen, strayed>>

(* current_sha and the write of it; the size cap of FixChain is left out.   *)
RecordCommit(r) ==
  /\ step[r] = "record"
  /\ IF GitWorks(r) THEN Record(r, CommitAt(Tip), "cap", "escaped")
                    ELSE Quietly(r, "escaped")
  /\ UNCHANGED <<copy, rounds, fresh, lock, dirVars, box, remote, history>>

EnterTesting(r) ==
  /\ step[r] = "cap"
  /\ Move(r, "TESTING", "testing", "escaped")
  /\ UNCHANGED <<copy, rounds, fresh, lock, dirVars, box, remote, history>>

(* The orchestrator's own run of the suite: green; red, with nothing worth  *)
(* another run; or red, and off to the base branch to run the failures there*)
RunTests(r) ==
  /\ step[r] = "testing"
  /\ \/ /\ GitWorks(r)
        /\ seen' = [seen EXCEPT !.passed = @ \cup {git.tree}]
        /\ Quietly(r, "passed") /\ UNCHANGED git
     \/ Quietly(r, "red") /\ UNCHANGED <<git, seen>>
     \/ /\ GitWorks(r)
        /\ git' = [OnBase EXCEPT !.home = IF git.onBase THEN "main" ELSE "work"]
        /\ Quietly(r, "onbase") /\ UNCHANGED seen
  /\ UNCHANGED <<copy, rounds, fresh, lock, there, epoch, box, remote, edits, made, strayed>>

(* The finally clause checks out the branch the run came from.  What failed *)
(* on the base branch too is a remark, no verdict.                          *)
BackFromBase(r) ==
  /\ step[r] = "onbase"
  /\ IF GitWorks(r)
     THEN /\ git' = [git EXCEPT !.onBase = git.home = "main",
                       !.tree = Content(IF git.home = "main" THEN git.main ELSE git.work)]
          /\ Quietly(r, "red") /\ UNCHANGED strayed
     ELSE Quietly(r, "escaped") /\ strayed' = StrayedIf(git.onBase) /\ UNCHANGED git
  /\ UNCHANGED <<copy, rounds, fresh, lock, there, epoch, box, remote, edits, made, seen>>

(* Otherwise: one round more than the budgets allow.                      *)
TryOnceMore(r) ==
  /\ rounds[r] <= MaxRounds
  /\ rounds' = [rounds EXCEPT ![r] = @ + 1]
  /\ Quietly(r, "enter")

(* Back to CODING, within the budgets.                                      *)
TryAgain(r) ==
  /\ rounds[r] < MaxRounds
  /\ rounds' = [rounds EXCEPT ![r] = @ + 1]
  /\ Quietly(r, "enter")

GiveUp(r) == Move(r, "FAILED", "returned", "escaped") /\ UNCHANGED rounds

RouteRed(r) ==
  /\ step[r] = "red"
  /\ TryAgain(r) \/ GiveUp(r)
  /\ UNCHANGED <<copy, fresh, lock, dirVars, box, remote, history>>

EnterReview(r) ==
  /\ step[r] = "passed"
  /\ Move(r, "REVIEWING", "review", "escaped")
  /\ UNCHANGED <<copy, rounds, fresh, lock, dirVars, box, remote, history>>

(* The verdict is on the diff from the base branch: none at all on the base *)
(* branch itself.                                                           *)
Approve(r) ==
  /\ step[r] = "review" /\ GitWorks(r)
  /\ seen' = [seen EXCEPT !.approved = @ \cup {IF git.onBase THEN 0 ELSE git.tree}]
  /\ Move(r, "PR_CREATION", "squash", "escaped")
  /\ UNCHANGED <<copy, rounds, fresh, lock, dirVars, box, remote, edits, made, strayed>>

Reject(r) ==
  /\ step[r] = "review"
  /\ TryAgain(r) \/ GiveUp(r)
  /\ UNCHANGED <<copy, fresh, lock, dirVars, box, remote, history>>

-----------------------------------------------------------------------------
(* The pull request *)

(* squash_wip_commits: reset --soft to the merge base, then one commit of   *)
(* what is staged.  A source's own .git copied over it has nothing staged.  *)
ResetToBase(r) ==
  /\ step[r] = "squash"
  /\ IF ~GitWorks(r)
     THEN UNCHANGED <<git, made>> /\ Quietly(r, "escaped")
     ELSE IF git.onBase \/ git.work = git.base
     THEN UNCHANGED <<git, made>> /\ Quietly(r, "open")
     ELSE /\ git' = [git EXCEPT !.work = git.base, !.staged = Content(Tip)]
          /\ made' = {Content(Tip)}
          /\ Quietly(r, "squashing")
  /\ UNCHANGED <<copy, rounds, fresh, lock, there, epoch, box, remote, edits, seen, strayed>>

CommitSquash(r) ==
  /\ step[r] = "squashing"
  /\ IF GitWorks(r) /\ ~git.onBase
     THEN /\ git' = [git EXCEPT !.work = Append(git.base, [tree |-> git.staged, by |-> "squash"]),
                              !.staged = 0]
          /\ Quietly(r, "resquash")
     ELSE UNCHANGED git /\ Quietly(r, "escaped")
  /\ UNCHANGED <<copy, rounds, fresh, lock, there, epoch, box, remote, history>>

RecordSquash(r) ==
  /\ step[r] = "resquash"
  /\ Record(r, CommitAt(Tip), "open", "escaped")
  /\ UNCHANGED <<copy, rounds, fresh, lock, dirVars, box, remote, history>>

(* push_to_remote of the branch the run is on, when that is the base branch.*)
PushBase(r) == git.onBase /\ GitWorks(r) /\ pushedToBase' = Content(git.main)

(* The gates, the push from the host, GitHub's answer.  A pull request of   *)
(* the base branch into itself is refused, after the push.                  *)
Open(r) ==
  /\ step[r] = "open"
  /\ \/ /\ GitWorks(r) /\ ~git.onBase
        /\ pulls' = Append(pulls, CommitAt(Tip))
        /\ Quietly(r, "finish") /\ UNCHANGED pushedToBase
     \/ /\ Move(r, "NEEDS_HUMAN_INPUT", "returned", "escaped")
        /\ \/ UNCHANGED pushedToBase
           \/ PushBase(r)
        /\ UNCHANGED pulls
  /\ UNCHANGED <<copy, rounds, fresh, lock, dirVars, box, history>>

WaitForApproval(r) ==
  /\ step[r] = "finish"
  /\ Move(r, "WAITING_FOR_APPROVAL", "returned", "escaped")
  /\ UNCHANGED <<copy, rounds, fresh, lock, dirVars, box, remote, history>>

-----------------------------------------------------------------------------
(* The ends of a run *)

(* Otherwise: what raises keeps its locks.                                *)
LeaveLocked(r) ==
  /\ step[r] \in {"returned", "escaped"}
  /\ lock' = IF lock = r /\ step[r] = "returned" THEN 0 ELSE lock
  /\ Quietly(r, "teardown")
  /\ UNCHANGED <<copy, rounds, fresh, dirVars, box, remote, history>>

LeaveChain(r) ==
  /\ step[r] \in {"returned", "escaped"}
  /\ lock' = IF lock = r THEN 0 ELSE lock
  /\ Quietly(r, "teardown")
  /\ UNCHANGED <<copy, rounds, fresh, dirVars, box, remote, history>>

(* destroy: the run's container, and the directory of the task, whoever else*)
(* is in it.                                                                *)
TearDown(r) ==
  /\ step[r] = "teardown"
  /\ box' = [box EXCEPT ![r] = NoBox]
  /\ there' = FALSE /\ git' = NoGit /\ made' = {}
  /\ Quietly(r, "ended")
  /\ UNCHANGED <<copy, rounds, fresh, lock, epoch, remote, edits, seen, strayed>>

(* The process dies: its locks go, its container and the directory stay, in *)
(* the middle of a git command perhaps.                                     *)
Crash(r) ==
  /\ step[r] \notin Over \cup {"idle"}
  /\ Goto(r, "dead")
  /\ lock' = IF lock = r THEN 0 ELSE lock
  /\ strayed' = StrayedIf(step[r] = "onbase" /\ git.onBase)
  /\ \E sound \in {TRUE} \cup {step[r] # "coding"} :
       git' = [git EXCEPT !.intact = @ /\ sound]
  /\ UNCHANGED <<row, overtaken, copy, rounds, fresh, there, epoch, box, remote, edits, made, seen>>

-----------------------------------------------------------------------------
(* Humans and sweeps *)

Cancel ==
  /\ CanMove(state, "CANCELLED")
  /\ state' = "CANCELLED"
  /\ overtaken' = [r \in Runs |-> step[r] \notin Over \cup {"idle"}]
  /\ UNCHANGED <<known, reported, recorded, copy, step, rounds, fresh, lock, dirVars, box, remote, history>>

(* A human commits in what a crash left.                                    *)
HumanCommit ==
  /\ there /\ git.ready /\ git.intact /\ edits < MaxEdits
  /\ \A r \in Runs : step[r] \in Over \cup {"idle"}
  /\ edits' = edits + 1 /\ made' = made \cup {edits'}
  /\ git' = CommitTree(edits', "human")
  /\ UNCHANGED <<row, runVars, lock, there, epoch, box, remote, seen, strayed>>

(* Its task is over, or it is older than MAX_LIFETIME_SECONDS, as any may   *)
(* be, in use or not.                                                       *)
OrphanContainers == {r \in Runs : box[r] # NoBox}

ReapContainer(r) ==
  /\ r \in OrphanContainers
  /\ box' = [box EXCEPT ![r] = NoBox]
  /\ UNCHANGED <<row, runVars, lock, dirVars, remote, history>>

StaleScratchDir == there /\ state \in TERMINAL_STATES

ReapScratchDir ==
  /\ StaleScratchDir
  /\ there' = FALSE /\ git' = NoGit /\ made' = {}
  /\ UNCHANGED <<row, runVars, lock, epoch, box, remote, edits, seen, strayed>>

-----------------------------------------------------------------------------
Reconcile(r) ==
  \/ NothingToResume(r) \/ StartOver(r) \/ LookIntoDirectory(r)
  \/ InspectFails(r) \/ LeaveToHuman(r) \/ Inspect(r) \/ Adopt(r) \/ LeaveReconcile(r)

RunStep(r) ==
  \/ Materialize(r) \/ CreateContainer(r) \/ InitBaseline(r) \/ CreateBranch(r)
  \/ Investigate(r) \/ PersistReport(r) \/ Plan(r) \/ Reconcile(r)
  \/ AcquireLock(r) \/ EnterCoding(r) \/ EndCoding(r) \/ RecordCommit(r)
  \/ EnterTesting(r) \/ RunTests(r) \/ BackFromBase(r) \/ RouteRed(r)
  \/ EnterReview(r) \/ Approve(r) \/ Reject(r)
  \/ ResetToBase(r) \/ CommitSquash(r) \/ RecordSquash(r) \/ Open(r) \/ WaitForApproval(r)
  \/ LeaveChain(r) \/ TearDown(r)

Next ==
  \/ \E r \in Runs : RunStep(r) \/ AskResume(r) \/ EditFile(r) \/ Crash(r)
                     \/ ReapContainer(r)
  \/ Cancel \/ HumanCommit \/ ReapScratchDir

Spec == Init /\ [][Next]_vars

-----------------------------------------------------------------------------
(* Properties *)

(* Whatever died, was resumed beside the first run or was swept away, each  *)
(* open pull request holds a content that passed the suite and that a review*)
(* approved, in one squashed commit.  Not so after two resumes that start   *)
(* over at once, the second of which copies the source over the directory   *)
(* the first works in: the suite then runs on what is not the commit.  Nor  *)
(* where a run goes on in a directory in which another has yet to make the  *)
(* branch, which then starts from the commits of the first.                 *)
ProposalsAreReviewed ==
  strayed \cap {"copy", "early"} = {} =>
  \A n \in DOMAIN pulls :
    /\ Content(pulls[n].log) \in seen.passed \cap seen.approved
    /\ Len(pulls[n].log) <= 1 /\ \A m \in DOMAIN pulls[n].log : pulls[n].log[m].by = "squash"

(* One task, one pull request, however many runs it takes or has at once.   *)
OneProposal == Len(pulls) <= 1

(* A run that works in the directory has every content committed there in   *)
(* the history of its branch: a resume drops nothing that survived.  Not    *)
(* so after a crash on the base branch, which reconcile does not notice, a  *)
(* copy of the source over the directory, or a start before its branch was  *)
(* made.                                                                    *)
WorkIsOnTheBranch ==
  \A r \in Runs : step[r] \in InLoop \ {"squash"} /\ lock = r /\ GitWorks(r) /\ strayed = {}
    => made \subseteq {Tip[n].tree : n \in DOMAIN Tip}

(* reconcile reports interference only when there was some, or when AMOP was*)
(* its own: a crash on the base branch, commits made there beside those of  *)
(* the task, or a crash around a squash.                                    *)
ForeignVerdictHasCause ==
  \A r \in Runs : step[r] = "inspect" /\ Verdict(r) = "D" =>
    \/ \E n \in DOMAIN Tip : Tip[n].by = "human"
    \/ git.onBase
    \/ \E n \in DOMAIN Tip : Tip[n].by = "squash"
    \/ git.work = git.base \/ git.main # git.base

(* No commit reaches the remote's base branch, unless a crash left the      *)
(* directory on its own base branch, the source was copied over it, or a run*)
(* goes on in a directory that a crash, or another run, has left without a  *)
(* branch (init_baseline, create_branch, reconcile, push_to_remote).        *)
BaseIsNotPushed == strayed = {} => pushedToBase = 0

(* What run_chain assumes of the repository it is handed, by run_fix as by  *)
(* resume_fix: it stands on the working branch.  Not so after a crash, or   *)
(* while another run is, between materialize and create_branch.             *)
ChainStartsOnTheBranch ==
  \A r \in Runs : step[r] \in {"lead", "resume"} /\ GitWorks(r) => git.branched /\ ~git.onBase

(* Whoever waits for the lock waits for a run that is still at work, and no *)
(* two are at work on one branch.                                           *)
LockIsHeldByTheLiving ==
  /\ lock # 0 => step[lock] \in Locked
  /\ \A r \in Runs : step[r] \in Locked \ {"returned", "escaped"} => lock = r
=============================================================================
