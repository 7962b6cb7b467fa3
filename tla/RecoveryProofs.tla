---------------------------- MODULE RecoveryProofs ----------------------------
(***************************************************************************)
(* Proofs about Recovery for any number of runs and resumes of one task,   *)
(* any number of rounds and of edits: its types, who holds the lock, that  *)
(* the task gets one pull request and what it holds, when a base branch    *)
(* can be pushed, that work survives on its branch, and what a verdict of  *)
(* interference rests on.                                                  *)
(***************************************************************************)
EXTENDS Recovery, SequenceTheorems, TLAPS

Contents == 0..MaxEdits

Gits == [ready : BOOLEAN, branched : BOOLEAN, intact : BOOLEAN, work : Logs, main : Logs,
         base : Logs, onBase : BOOLEAN, home : {"work", "main"}, tree : Contents,
         staged : Contents]

Strays == SUBSET {"base", "copy", "early"}

Copies == [commit : Commits \cup {NoCommit}, reported : BOOLEAN, resumable : BOOLEAN]

RowTypeOK ==
  /\ state \in TaskState /\ known \in BOOLEAN /\ reported \in BOOLEAN
  /\ recorded \in Commits \cup {NoCommit}

StepTypeOK ==
  /\ overtaken \in [Runs -> BOOLEAN]
  /\ step \in [Runs -> Steps]

RunTypeOK ==
  /\ copy \in [Runs -> Copies]
  /\ rounds \in [Runs -> 0..MaxRounds]
  /\ fresh \in [Runs -> BOOLEAN]
  /\ lock \in Runs \cup {0}

DirTypeOK ==
  /\ there \in BOOLEAN /\ epoch \in Nat /\ git \in Gits
  /\ box \in [Runs -> Nat]

HistoryTypeOK ==
  /\ pushedToBase \in Contents
  /\ pulls \in Seq(Commits)
  /\ edits \in Contents /\ made \in SUBSET Contents
  /\ seen \in [passed : SUBSET Contents, approved : SUBSET Contents]
  /\ strayed \in Strays

-----------------------------------------------------------------------------
(* Facts about logs, commits and the repository *)

LEMMA TypeParts ==
  TypeOK <=> RowTypeOK /\ StepTypeOK /\ RunTypeOK /\ DirTypeOK /\ HistoryTypeOK
BY DEF TypeOK, RowTypeOK, StepTypeOK, RunTypeOK, DirTypeOK, HistoryTypeOK, Gits, Copies,
       Contents, Strays

LEMMA TypePartsNext ==
  RowTypeOK' /\ StepTypeOK' /\ RunTypeOK' /\ DirTypeOK' /\ HistoryTypeOK' => TypeOK'
BY DEF TypeOK, RowTypeOK, StepTypeOK, RunTypeOK, DirTypeOK, HistoryTypeOK, Gits, Copies,
       Contents, Strays

LEMMA EmptyIsALog == << >> \in Logs
BY DEF Logs

LEMMA ContentOfLog ==
  ASSUME NEW log \in Logs
  PROVE  Content(log) \in Contents
<1>1. MaxEdits \in Nat
  BY BoundsAssumption
<1>2. CASE log = << >>
  BY <1>1, <1>2 DEF Content, Contents
<1>3. CASE log # << >>
  <2>1. log \in Seq([tree : 0..MaxEdits, by : Authors])
    BY DEF Logs
  <2>2. Len(log) \in 1..Len(log)
    BY <1>3, <2>1, EmptySeq, LenProperties
  <2>3. log[Len(log)] \in [tree : 0..MaxEdits, by : Authors]
    BY <2>1, <2>2, ElementOfSeq
  <2>4. QED
    BY <1>3, <2>3 DEF Content, Contents
<1>4. QED
  BY <1>2, <1>3

LEMMA CommitOfLog ==
  ASSUME NEW log \in Logs, epoch \in Nat
  PROVE  CommitAt(log) \in Commits
BY DEF CommitAt, Commits

LEMMA TipIsALog ==
  ASSUME git \in Gits
  PROVE  Tip \in Logs
BY DEF Tip, Gits

LEMMA EmptyGits == NoGit \in Gits /\ EmptyDir \in Gits /\ NewCopy \in Gits
<1>1. NoGit \in Gits
  BY BoundsAssumption, EmptyIsALog DEF NoGit, Gits, Contents
<1>2. EmptyDir \in Gits
  BY <1>1 DEF EmptyDir, Gits
<1>3. NewCopy \in Gits
  BY <1>1, BoundsAssumption DEF NewCopy, Gits
<1>4. QED
  BY <1>1, <1>2, <1>3

LEMMA CommitKeepsGit ==
  ASSUME git \in Gits, NEW tree \in Contents, NEW by \in Authors
  PROVE  CommitTree(tree, by) \in Gits
<1>1. Append(Tip, [tree |-> tree, by |-> by]) \in Logs
  BY TipIsALog DEF Logs, Contents
<1>2. QED
  BY <1>1 DEF CommitTree, WithHead, Gits

LEMMA CommitAllKeepsGit ==
  ASSUME git \in Gits
  PROVE  CommitAll \in Gits
<1>1. git.tree \in Contents
  BY DEF Gits
<1>2. "agent" \in Authors
  BY DEF Authors
<1>3. QED
  BY <1>1, <1>2, CommitKeepsGit DEF CommitAll

LEMMA OnBaseKeepsGit ==
  ASSUME git \in Gits
  PROVE  OnBase \in Gits
<1>1. Content(git.main) \in Contents
  BY ContentOfLog DEF Gits
<1>2. QED
  BY <1>1 DEF OnBase, Gits

-----------------------------------------------------------------------------
(* Steps and moves keep the row and the places of the runs *)

LEMMA StepNames ==
  /\ "idle" \in Steps /\ "materialize" \in Steps /\ "container" \in Steps
  /\ "baseline" \in Steps /\ "branch" \in Steps /\ "lead" \in Steps /\ "report" \in Steps
  /\ "plan" \in Steps /\ "look" \in Steps /\ "inspect" \in Steps
  /\ "adopt" \in Steps /\ "leave" \in Steps /\ "resume" \in Steps
  /\ "lock" \in Steps /\ "enter" \in Steps /\ "coding" \in Steps
  /\ "record" \in Steps /\ "cap" \in Steps /\ "testing" \in Steps
  /\ "onbase" \in Steps /\ "red" \in Steps /\ "passed" \in Steps
  /\ "review" \in Steps /\ "squash" \in Steps /\ "squashing" \in Steps
  /\ "resquash" \in Steps /\ "open" \in Steps /\ "finish" \in Steps
  /\ "returned" \in Steps /\ "escaped" \in Steps /\ "teardown" \in Steps
  /\ "ended" \in Steps /\ "dead" \in Steps
BY DEF Steps

LEMMA StateNames ==
  /\ "CREATED" \in TaskState /\ "TRIAGING" \in TaskState /\ "INVESTIGATING" \in TaskState
  /\ "PLANNING_FIX" \in TaskState /\ "CODING" \in TaskState /\ "TESTING" \in TaskState
  /\ "REVIEWING" \in TaskState /\ "PR_CREATION" \in TaskState /\ "WAITING_FOR_APPROVAL" \in TaskState
  /\ "MERGED" \in TaskState /\ "RESOLVED" \in TaskState /\ "FAILED" \in TaskState
  /\ "CANCELLED" \in TaskState /\ "NEEDS_HUMAN_INPUT" \in TaskState /\ "MERGED_INTO_EXISTING" \in TaskState
BY DEF TaskState

LEMMA GotoTypes ==
  ASSUME StepTypeOK, NEW r \in Runs, NEW next \in Steps, Goto(r, next)
  PROVE  step' \in [Runs -> Steps]
BY DEF StepTypeOK, Goto

LEMMA WrittenTypes ==
  ASSUME NEW r \in Runs, Written(r)
  PROVE  overtaken' \in [Runs -> BOOLEAN]
BY DEF Written

LEMMA QuietlyTypes ==
  ASSUME RowTypeOK, StepTypeOK, NEW r \in Runs, NEW next \in Steps, Quietly(r, next)
  PROVE  RowTypeOK' /\ StepTypeOK'
BY GotoTypes DEF Quietly, RowTypeOK, StepTypeOK, row

LEMMA MoveTypes ==
  ASSUME RowTypeOK, StepTypeOK, NEW r \in Runs, NEW to \in TaskState,
         NEW next \in Steps, NEW refused \in Steps, Move(r, to, next, refused)
  PROVE  RowTypeOK' /\ StepTypeOK'
<1>1. CASE Quietly(r, refused)
  BY <1>1, QuietlyTypes
<1>2. CASE /\ state' = to /\ Goto(r, next) /\ Written(r)
           /\ UNCHANGED <<known, reported, recorded>>
  BY <1>2, GotoTypes, WrittenTypes DEF RowTypeOK, StepTypeOK
<1>3. QED
  BY <1>1, <1>2 DEF Move

LEMMA RecordTypes ==
  ASSUME RowTypeOK, StepTypeOK, NEW r \in Runs, NEW commit \in Commits \cup {NoCommit},
         NEW next \in Steps, NEW refused \in Steps, Record(r, commit, next, refused)
  PROVE  RowTypeOK' /\ StepTypeOK'
<1>1. CASE Quietly(r, refused)
  BY <1>1, QuietlyTypes
<1>2. CASE /\ recorded' = commit /\ Goto(r, next) /\ Written(r)
           /\ UNCHANGED <<state, known, reported>>
  BY <1>2, GotoTypes, WrittenTypes DEF RowTypeOK, StepTypeOK
<1>3. QED
  BY <1>1, <1>2 DEF Record

(* What a step of a run leaves alone keeps its type.                        *)
LEMMA RestIsLeftAlone ==
  ASSUME TypeOK, UNCHANGED <<copy, rounds, fresh, lock, dirVars, box, remote, history>>
  PROVE  RunTypeOK' /\ DirTypeOK' /\ HistoryTypeOK'
BY TypeParts DEF RunTypeOK, DirTypeOK, HistoryTypeOK, dirVars, remote, history

LEMMA CreatingABox ==
  ASSUME DirTypeOK, made \in SUBSET Contents, NEW r \in Runs, StartBox(r)
  PROVE  DirTypeOK' /\ made' \in SUBSET Contents
BY EmptyGits DEF StartBox, DirTypeOK

-----------------------------------------------------------------------------
(* Type correctness, by group of actions *)

LEMMA InitTypes == Init => TypeOK
<1> SUFFICES ASSUME Init PROVE TypeOK
  OBVIOUS
<1>0. MaxEdits \in Nat /\ MaxRounds \in Nat /\ NumRuns \in Nat
  BY BoundsAssumption
<1>1. RowTypeOK
  <2>1. CASE recorded = NoCommit
    BY <2>1 DEF Init, RowTypeOK, TaskState, NonTerminal
  <2>2. CASE recorded # NoCommit
    <3>1. MaxEdits > 0 /\ recorded = [at |-> 1, log |-> <<[tree |-> 1, by |-> "bot"]>>]
      BY <2>2 DEF Init, JustCreated, LeftBehind, NeverRun
    <3>2. <<[tree |-> 1, by |-> "bot"]>> \in Logs
      BY <3>1, <1>0 DEF Logs, Authors
    <3>3. recorded \in Commits
      BY <3>1, <3>2 DEF Commits
    <3>4. QED
      BY <3>3 DEF Init, RowTypeOK, TaskState, NonTerminal
  <2>3. QED
    BY <2>1, <2>2
<1>2. StepTypeOK
  BY DEF Init, StepTypeOK, Steps
<1>3. RunTypeOK
  BY <1>0 DEF Init, RunTypeOK, NoCopy, Copies
<1>4. DirTypeOK
  <2>1. there = FALSE /\ git = NoGit /\ box = [r \in Runs |-> NoBox]
    BY DEF Init
  <2>2. epoch \in {0, 1}
    BY DEF Init
  <2>3. box \in [Runs -> Nat]
    BY <2>1 DEF NoBox
  <2>4. there \in BOOLEAN
    BY <2>1
  <2>5. epoch \in Nat
    BY <2>2
  <2>6. git \in Gits
    BY <2>1, EmptyGits
  <2>7. QED
    BY <2>3, <2>4, <2>5, <2>6 DEF DirTypeOK
<1>5. HistoryTypeOK
  <2>1. epoch \in {0, 1} /\ (epoch = 1 => MaxEdits > 0)
    BY DEF Init, JustCreated, LeftBehind, NeverRun
  <2>2. epoch \in Contents
    BY <2>1, <1>0 DEF Contents
  <2>3. QED
    BY <2>2, <1>0 DEF Init, HistoryTypeOK, Contents, Strays
<1>6. QED
  BY <1>1, <1>2, <1>3, <1>4, <1>5, TypeParts

(* The row and the step move, and nothing else.                             *)
LEMMA MovesKeepTypes ==
  ASSUME TypeOK, NEW r \in Runs,
         \/ Investigate(r) \/ PersistReport(r) \/ Plan(r) \/ NothingToResume(r)
         \/ InspectFails(r) \/ LeaveToHuman(r) \/ EnterCoding(r) \/ RecordCommit(r)
         \/ EnterTesting(r) \/ EnterReview(r) \/ RecordSquash(r) \/ WaitForApproval(r)
  PROVE  TypeOK'
<1> USE StepNames, StateNames
<1>0. RowTypeOK /\ StepTypeOK /\ DirTypeOK /\ RunTypeOK
  BY TypeParts
<1>1. UNCHANGED <<copy, rounds, fresh, lock, dirVars, box, remote, history>>
  BY DEF Investigate, PersistReport, Plan, NothingToResume, InspectFails, LeaveToHuman,
         EnterCoding, RecordCommit, EnterTesting, EnterReview, RecordSquash, WaitForApproval
<1>2. RowTypeOK' /\ StepTypeOK'
  <2>1. CASE Investigate(r)
    <3>1. CASE state = "CREATED"
      <4>1. Move(r, "TRIAGING", "lead", "escaped")
        BY <2>1, <3>1 DEF Investigate
      <4>2. QED
        BY <1>0, <4>1, MoveTypes
    <3>2. CASE state # "CREATED"
      <4>1. Move(r, "INVESTIGATING", "report", "escaped")
        BY <2>1, <3>2 DEF Investigate
      <4>2. QED
        BY <1>0, <4>1, MoveTypes
    <3>3. QED
      BY <3>1, <3>2
  <2>2. CASE PersistReport(r)
    <3>1. CASE overtaken[r]
      BY <1>0, <2>2, <3>1, QuietlyTypes DEF PersistReport
    <3>2. CASE ~overtaken[r]
      BY <1>0, <2>2, <3>2, GotoTypes, WrittenTypes DEF PersistReport, RowTypeOK, StepTypeOK
    <3>3. QED
      BY <3>1, <3>2
  <2>3. CASE Plan(r)
    BY <1>0, <2>3, MoveTypes DEF Plan
  <2>4. CASE NothingToResume(r)
    BY <1>0, <2>4, MoveTypes DEF NothingToResume
  <2>5. CASE LeaveToHuman(r)
    BY <1>0, <2>5, MoveTypes DEF LeaveToHuman
  <2>6. CASE InspectFails(r)
    BY <1>0, <2>6, QuietlyTypes DEF InspectFails
  <2>7. CASE EnterCoding(r)
    BY <1>0, <2>7, MoveTypes DEF EnterCoding
  <2>8. CASE EnterTesting(r)
    BY <1>0, <2>8, MoveTypes DEF EnterTesting
  <2>9. CASE EnterReview(r)
    BY <1>0, <2>9, MoveTypes DEF EnterReview
  <2>10. CASE WaitForApproval(r)
    BY <1>0, <2>10, MoveTypes DEF WaitForApproval
  <2>11. CASE RecordCommit(r) \/ RecordSquash(r)
    <3>1. CommitAt(Tip) \in Commits
      BY <1>0, TipIsALog, CommitOfLog DEF DirTypeOK
    <3>2. QED
      BY <1>0, <2>11, <3>1, RecordTypes, QuietlyTypes DEF RecordCommit, RecordSquash
  <2>12. QED
    BY <2>1, <2>2, <2>3, <2>4, <2>5, <2>6, <2>7, <2>8, <2>9, <2>10, <2>11
<1>3. QED
  BY <1>1, <1>2, RestIsLeftAlone, TypePartsNext

(* What a run holds for itself: its copy, its rounds, its lock.             *)
LEMMA OwnStepsKeepTypes ==
  ASSUME TypeOK, NEW r \in Runs,
         \/ AskResume(r) \/ StartOver(r) \/ Inspect(r) \/ Adopt(r) \/ LeaveReconcile(r)
         \/ AcquireLock(r) \/ RouteRed(r) \/ Reject(r) \/ LeaveChain(r)
  PROVE  TypeOK'
<1> USE StepNames, StateNames
<1>0. RowTypeOK /\ StepTypeOK /\ DirTypeOK /\ RunTypeOK /\ HistoryTypeOK
  BY TypeParts
<1>1. UNCHANGED <<dirVars, remote, history>>
  BY DEF AskResume, StartOver, Inspect, Adopt, LeaveReconcile, AcquireLock, RouteRed,
         Reject, LeaveChain
<1>2. CASE AskResume(r)
  <2>1. RowTypeOK' /\ StepTypeOK'
    BY <1>0, <1>2 DEF AskResume, RowTypeOK, StepTypeOK, row
  <2>2. copy' \in [Runs -> Copies]
    BY <1>0, <1>2 DEF AskResume, RowTypeOK, RunTypeOK, Copies
  <2>3. RunTypeOK' /\ DirTypeOK' /\ HistoryTypeOK'
    BY <1>0, <1>2, <2>2 DEF AskResume, RunTypeOK, DirTypeOK, HistoryTypeOK, dirVars, remote,
         history
  <2>4. QED
    BY <2>1, <2>3, TypePartsNext
<1>3. CASE StartOver(r)
  <2>1. RowTypeOK' /\ StepTypeOK'
    BY <1>0, <1>3, QuietlyTypes DEF StartOver
  <2>2. [NoCopy EXCEPT !.resumable = TRUE] \in Copies
    BY DEF NoCopy, Copies
  <2>3. RunTypeOK' /\ DirTypeOK' /\ HistoryTypeOK'
    BY <1>0, <1>3, <2>2 DEF StartOver, RunTypeOK, DirTypeOK, HistoryTypeOK, dirVars, remote,
         history
  <2>4. QED
    BY <2>1, <2>3, TypePartsNext
<1>4. CASE Inspect(r)
  <2>1. RowTypeOK' /\ StepTypeOK'
    BY <1>0, <1>4, QuietlyTypes DEF Inspect
  <2>2. CommitAt(Tip) \in Commits
    BY <1>0, TipIsALog, CommitOfLog DEF DirTypeOK
  <2>3. copy[r] \in Copies
    BY <1>0 DEF RunTypeOK
  <2>5. copy' \in [Runs -> Copies]
    BY <1>0, <1>4, <2>2 DEF Inspect, RunTypeOK, Copies
  <2>6. RunTypeOK' /\ DirTypeOK' /\ HistoryTypeOK'
    BY <1>0, <1>4, <2>5 DEF Inspect, RunTypeOK, DirTypeOK, HistoryTypeOK, dirVars, remote,
         history
  <2>7. QED
    BY <2>1, <2>6, TypePartsNext
<1>5. CASE Adopt(r)
  <2>1. copy[r] \in Copies
    BY <1>0 DEF RunTypeOK
  <2>2. copy[r].commit \in Commits \cup {NoCommit}
    BY <2>1 DEF Copies
  <2>3. RowTypeOK' /\ StepTypeOK'
    BY <1>0, <1>5, <2>2, RecordTypes DEF Adopt
  <2>4. copy' \in [Runs -> Copies]
    BY <1>0, <1>5, <2>1 DEF Adopt, RunTypeOK, StepTypeOK, Copies
  <2>5. RunTypeOK' /\ DirTypeOK' /\ HistoryTypeOK'
    BY <1>0, <1>5, <2>4 DEF Adopt, RunTypeOK, DirTypeOK, HistoryTypeOK, dirVars, remote,
         history
  <2>6. QED
    BY <2>3, <2>5, TypePartsNext
<1>6. CASE LeaveReconcile(r)
  <2>1. RowTypeOK' /\ StepTypeOK'
    BY <1>0, <1>6, QuietlyTypes DEF LeaveReconcile
  <2>2. [NoCopy EXCEPT !.resumable = copy[r].resumable] \in Copies
    BY <1>0 DEF NoCopy, Copies, RunTypeOK
  <2>3. box' \in [Runs -> Nat]
    BY <1>0, <1>6 DEF LeaveReconcile, DirTypeOK, NoBox
  <2>4. RunTypeOK' /\ DirTypeOK' /\ HistoryTypeOK'
    BY <1>0, <1>6, <2>2, <2>3 DEF LeaveReconcile, RunTypeOK, DirTypeOK, HistoryTypeOK,
         dirVars, remote, history
  <2>5. QED
    BY <2>1, <2>4, TypePartsNext
<1>7. CASE AcquireLock(r) \/ LeaveChain(r)
  <2>1. RowTypeOK' /\ StepTypeOK'
    BY <1>0, <1>7, QuietlyTypes DEF AcquireLock, LeaveChain
  <2>2. RunTypeOK' /\ DirTypeOK' /\ HistoryTypeOK'
    BY <1>0, <1>7 DEF AcquireLock, LeaveChain, RunTypeOK, DirTypeOK, HistoryTypeOK,
         dirVars, remote, history
  <2>3. QED
    BY <2>1, <2>2, TypePartsNext
<1>8. CASE RouteRed(r) \/ Reject(r)
  <2>1. CASE TryAgain(r)
    <3>1. RowTypeOK' /\ StepTypeOK'
      BY <1>0, <2>1, QuietlyTypes DEF TryAgain
    <3>2. rounds' \in [Runs -> 0..MaxRounds]
      BY <1>0, <2>1, BoundsAssumption DEF TryAgain, RunTypeOK
    <3>3. RunTypeOK' /\ DirTypeOK' /\ HistoryTypeOK'
      BY <1>0, <1>8, <3>2 DEF RouteRed, Reject, RunTypeOK, DirTypeOK, HistoryTypeOK,
           dirVars, remote, history
    <3>4. QED
      BY <3>1, <3>3, TypePartsNext
  <2>2. CASE GiveUp(r)
    <3>1. RowTypeOK' /\ StepTypeOK'
      BY <1>0, <2>2, MoveTypes DEF GiveUp
    <3>2. RunTypeOK' /\ DirTypeOK' /\ HistoryTypeOK'
      BY <1>0, <1>8, <2>2 DEF GiveUp, RouteRed, Reject, RunTypeOK, DirTypeOK, HistoryTypeOK,
           dirVars, remote, history
    <3>3. QED
      BY <3>1, <3>2, TypePartsNext
  <2>3. QED
    BY <1>8, <2>1, <2>2 DEF RouteRed, Reject
<1>9. QED
  BY <1>2, <1>3, <1>4, <1>5, <1>6, <1>7, <1>8

(* What a run keeps for itself while it works in the directory.             *)
LEMMA OwnIsLeftAlone ==
  ASSUME TypeOK, UNCHANGED <<copy, rounds, fresh, lock>>
  PROVE  RunTypeOK'
BY TypeParts DEF RunTypeOK

LEMMA NumbersAreContents == 0 \in Contents /\ 0 \in Nat
BY BoundsAssumption DEF Contents

(* The directory and the container.                                         *)
LEMMA CheckoutKeepsTypes ==
  ASSUME TypeOK, NEW r \in Runs,
         \/ Materialize(r) \/ CreateContainer(r) \/ LookIntoDirectory(r) \/ InitBaseline(r)
         \/ CreateBranch(r)
  PROVE  TypeOK'
<1> USE StepNames, StateNames
<1>0. RowTypeOK /\ StepTypeOK /\ DirTypeOK /\ RunTypeOK /\ HistoryTypeOK
  BY TypeParts
<1>1. RunTypeOK'
  BY OwnIsLeftAlone DEF Materialize, CreateContainer, LookIntoDirectory, InitBaseline, CreateBranch
<1>2. git \in Gits /\ there \in BOOLEAN /\ epoch \in Nat /\ box \in [Runs -> Nat]
  BY <1>0 DEF DirTypeOK
<1>3. made \in SUBSET Contents /\ strayed \in Strays
  BY <1>0 DEF HistoryTypeOK
<1>4. CASE Materialize(r)
  <2>1. RowTypeOK' /\ StepTypeOK'
    BY <1>0, <1>4, QuietlyTypes DEF Materialize
  <2>2. git' \in Gits
    <3>1. CASE there
      <4> DEFINE sound == git.intact \/ ~git.ready
                 found == git.ready \/ Cloned
                 onBase == git.onBase \/ Cloned
      <4>1. sound \in BOOLEAN /\ found \in BOOLEAN /\ onBase \in BOOLEAN
        OBVIOUS
      <4>2. git' = [git EXCEPT !.tree = 0, !.intact = sound, !.ready = found, !.onBase = onBase]
        BY <1>2, <1>4, <3>1 DEF Materialize, Gits
      <4> HIDE DEF sound, found, onBase
      <4>3. QED
        BY <1>2, <4>1, <4>2, NumbersAreContents DEF Gits
    <3>2. CASE ~there
      BY <1>4, <3>2, EmptyGits DEF Materialize
    <3>3. QED
      BY <3>1, <3>2
  <2>3. DirTypeOK'
    BY <1>2, <1>4, <2>2 DEF Materialize, DirTypeOK
  <2>4. strayed' \in Strays /\ made' \in SUBSET Contents
    BY <1>3, <1>4 DEF Materialize, Strays
  <2>5. HistoryTypeOK'
    BY <1>0, <1>4, <2>4 DEF Materialize, HistoryTypeOK, remote
  <2>6. QED
    BY <1>1, <2>1, <2>3, <2>5, TypePartsNext
<1>5. CASE CreateContainer(r) \/ LookIntoDirectory(r)
  <2>1. RowTypeOK' /\ StepTypeOK'
    <3>1. CASE CreateContainer(r)
      <4>1. \/ Quietly(r, "baseline") \/ Quietly(r, "resume") \/ Quietly(r, "ended")
        BY <3>1 DEF CreateContainer
      <4>2. QED
        BY <1>0, <4>1, QuietlyTypes
    <3>2. CASE LookIntoDirectory(r)
      BY <1>0, <3>2, QuietlyTypes DEF LookIntoDirectory
    <3>3. QED
      BY <1>5, <3>1, <3>2
  <2>2. StartBox(r) \/ UNCHANGED <<there, epoch, git, made, box>>
    BY <1>5 DEF CreateContainer, LookIntoDirectory
  <2>3. DirTypeOK' /\ made' \in SUBSET Contents
    <3>1. CASE StartBox(r)
      BY <1>0, <1>3, <3>1, CreatingABox
    <3>2. CASE UNCHANGED <<there, epoch, git, made, box>>
      BY <1>0, <1>3, <3>2 DEF DirTypeOK
    <3>3. QED
      BY <2>2, <3>1, <3>2
  <2>4. strayed' \in Strays
    BY <1>3, <1>5 DEF CreateContainer, LookIntoDirectory, Strays
  <2>5. HistoryTypeOK'
    BY <1>0, <1>5, <2>3, <2>4 DEF CreateContainer, LookIntoDirectory, HistoryTypeOK, remote
  <2>6. QED
    BY <1>1, <2>1, <2>3, <2>5, TypePartsNext
<1>6. CASE InitBaseline(r)
  <2>1. RowTypeOK' /\ StepTypeOK'
    <3>1. Quietly(r, "branch") \/ Quietly(r, "escaped")
      BY <1>6 DEF InitBaseline
    <3>2. QED
      BY <1>0, <3>1, QuietlyTypes
  <2>2. \A g \in Gits : [g EXCEPT !.ready = TRUE] \in Gits
    BY DEF Gits
  <2>3. OnBase \in Gits /\ CommitTree(git.tree, "agent") \in Gits
    BY <1>2, OnBaseKeepsGit, CommitKeepsGit DEF Authors, Gits
  <2>4. \/ git' = [OnBase EXCEPT !.ready = TRUE]
        \/ git' = [CommitTree(git.tree, "agent") EXCEPT !.ready = TRUE]
        \/ git' = git
    BY <1>6 DEF InitBaseline
  <2>5. git' \in Gits
    BY <1>2, <2>2, <2>3, <2>4
  <2>6. DirTypeOK'
    BY <1>2, <1>6, <2>5 DEF InitBaseline, DirTypeOK
  <2>7. strayed' \in Strays
    BY <1>3, <1>6 DEF InitBaseline, StrayedIf, Strays
  <2>8. HistoryTypeOK'
    BY <1>0, <1>6, <2>7 DEF InitBaseline, HistoryTypeOK, remote
  <2>9. QED
    BY <1>1, <2>1, <2>6, <2>8, TypePartsNext
<1>7. CASE CreateBranch(r)
  <2>1. RowTypeOK' /\ StepTypeOK'
    <3>1. Quietly(r, "resume") \/ Quietly(r, "lead") \/ Quietly(r, "escaped")
      BY <1>7 DEF CreateBranch
    <3>2. QED
      BY <1>0, <3>1, QuietlyTypes
  <2>2. NewBranch \in Gits
    BY <1>2 DEF NewBranch, Gits
  <2>3. DirTypeOK' /\ HistoryTypeOK'
    BY <1>0, <1>2, <1>7, <2>2 DEF CreateBranch, DirTypeOK, HistoryTypeOK, remote, history
  <2>4. QED
    BY <1>1, <2>1, <2>3, TypePartsNext
<1>8. QED
  BY <1>4, <1>5, <1>6, <1>7

(* The work in the directory up to the verdict.                             *)
LEMMA WorkKeepsTypes ==
  ASSUME TypeOK, NEW r \in Runs,
         EditFile(r) \/ EndCoding(r) \/ RunTests(r) \/ BackFromBase(r) \/ Approve(r)
  PROVE  TypeOK'
<1> USE StepNames, StateNames
<1>0. RowTypeOK /\ StepTypeOK /\ DirTypeOK /\ RunTypeOK /\ HistoryTypeOK
  BY TypeParts
<1>1. RunTypeOK'
  BY OwnIsLeftAlone DEF EditFile, EndCoding, RunTests, BackFromBase, Approve, runVars
<1>2. git \in Gits /\ there \in BOOLEAN /\ epoch \in Nat /\ box \in [Runs -> Nat]
  BY <1>0 DEF DirTypeOK
<1>3. /\ made \in SUBSET Contents /\ strayed \in Strays /\ edits \in Contents
      /\ seen \in [passed : SUBSET Contents, approved : SUBSET Contents]
  BY <1>0 DEF HistoryTypeOK
<1>4. git.tree \in Contents
  BY <1>2 DEF Gits
<1>5. CASE EditFile(r)
  <2>1. RowTypeOK' /\ StepTypeOK'
    BY <1>0, <1>5 DEF EditFile, row, runVars, RowTypeOK, StepTypeOK
  <2>2. edits' \in Contents
    BY <1>3, <1>5, BoundsAssumption DEF EditFile, Contents
  <2>3. made' \in SUBSET Contents
    BY <1>3, <1>5, <2>2 DEF EditFile
  <2>4. "bot" \in Authors
    BY DEF Authors
  <2>5. edits + 1 \in Contents
    BY <1>5, <2>2 DEF EditFile
  <2>6. CommitTree(edits + 1, "bot") \in Gits
    BY <1>2, <2>4, <2>5, CommitKeepsGit
  <2>7. [git EXCEPT !.tree = edits + 1] \in Gits
    BY <1>2, <2>5 DEF Gits
  <2>8. git' \in {CommitTree(edits + 1, "bot"), [git EXCEPT !.tree = edits + 1]}
    BY <1>5 DEF EditFile, CommitTree, WithHead
  <2>9. DirTypeOK'
    BY <1>2, <1>5, <2>6, <2>7, <2>8 DEF EditFile, DirTypeOK
  <2>10. HistoryTypeOK'
    BY <1>0, <1>5, <2>2, <2>3 DEF EditFile, HistoryTypeOK, remote
  <2>11. QED
    BY <1>1, <2>1, <2>9, <2>10, TypePartsNext
<1>6. CASE EndCoding(r)
  <2>1. RowTypeOK' /\ StepTypeOK'
    BY <1>0, <1>6, QuietlyTypes DEF EndCoding
  <2>2. git' \in Gits
    BY <1>2, <1>6, CommitAllKeepsGit DEF EndCoding
  <2>3. made' \in SUBSET Contents
    BY <1>3, <1>4, <1>6 DEF EndCoding
  <2>4. DirTypeOK'
    BY <1>2, <1>6, <2>2 DEF EndCoding, DirTypeOK
  <2>5. HistoryTypeOK'
    BY <1>0, <1>6, <2>3 DEF EndCoding, HistoryTypeOK, remote
  <2>6. QED
    BY <1>1, <2>1, <2>4, <2>5, TypePartsNext
<1>7. CASE RunTests(r)
  <2>1. RowTypeOK' /\ StepTypeOK'
    BY <1>0, <1>7, QuietlyTypes DEF RunTests
  <2>2. seen' \in [passed : SUBSET Contents, approved : SUBSET Contents]
    <3>1. [seen EXCEPT !.passed = @ \cup {git.tree}]
            \in [passed : SUBSET Contents, approved : SUBSET Contents]
      BY <1>3, <1>4
    <3>2. QED
      BY <1>3, <1>7, <3>1 DEF RunTests
  <2>3. \A home \in {"work", "main"} : [OnBase EXCEPT !.home = home] \in Gits
    BY <1>2, OnBaseKeepsGit DEF Gits
  <2>4. git' = git \/ \E home \in {"work", "main"} : git' = [OnBase EXCEPT !.home = home]
    BY <1>7 DEF RunTests
  <2>5. DirTypeOK'
    BY <1>2, <1>7, <2>3, <2>4 DEF RunTests, DirTypeOK
  <2>6. HistoryTypeOK'
    BY <1>0, <1>7, <2>2 DEF RunTests, HistoryTypeOK, remote
  <2>7. QED
    BY <1>1, <2>1, <2>5, <2>6, TypePartsNext
<1>8. CASE BackFromBase(r)
  <2>1. RowTypeOK' /\ StepTypeOK'
    BY <1>0, <1>8, QuietlyTypes DEF BackFromBase
  <2>2. git.main \in Logs /\ git.work \in Logs
    BY <1>2 DEF Gits
  <2>3. Content(git.main) \in Contents /\ Content(git.work) \in Contents
    BY <2>2, ContentOfLog
  <2>4. git' \in Gits
    <3>1. CASE GitWorks(r)
      BY <1>2, <1>8, <2>3, <3>1 DEF BackFromBase, Gits
    <3>2. CASE ~GitWorks(r)
      BY <1>2, <1>8, <3>2 DEF BackFromBase
    <3>3. QED
      BY <3>1, <3>2
  <2>5. strayed' \in Strays
    BY <1>3, <1>8 DEF BackFromBase, StrayedIf, Strays
  <2>6. DirTypeOK'
    BY <1>2, <1>8, <2>4 DEF BackFromBase, DirTypeOK
  <2>7. HistoryTypeOK'
    BY <1>0, <1>8, <2>5 DEF BackFromBase, HistoryTypeOK, remote
  <2>8. QED
    BY <1>1, <2>1, <2>6, <2>7, TypePartsNext
<1>9. CASE Approve(r)
  <2>2. RowTypeOK' /\ StepTypeOK'
    BY <1>0, <1>9, MoveTypes DEF Approve
  <2>3. DirTypeOK'
    BY <1>0, <1>9 DEF Approve, DirTypeOK, dirVars
  <2>4. \A tree \in Contents : [seen EXCEPT !.approved = @ \cup {tree}]
          \in [passed : SUBSET Contents, approved : SUBSET Contents]
    BY <1>3
  <2>5. seen' \in [passed : SUBSET Contents, approved : SUBSET Contents]
    BY <1>4, <1>9, <2>4, NumbersAreContents DEF Approve
  <2>6. HistoryTypeOK'
    BY <1>0, <1>9, <2>5 DEF Approve, HistoryTypeOK, remote
  <2>7. QED
    BY <1>1, <2>2, <2>3, <2>6, TypePartsNext
<1>10. QED
  BY <1>5, <1>6, <1>7, <1>8, <1>9

(* The squash, the push and the pull request.                               *)
LEMMA DeliveryKeepsTypes ==
  ASSUME TypeOK, NEW r \in Runs, ResetToBase(r) \/ CommitSquash(r) \/ Open(r)
  PROVE  TypeOK'
<1> USE StepNames, StateNames
<1>0. RowTypeOK /\ StepTypeOK /\ DirTypeOK /\ RunTypeOK /\ HistoryTypeOK
  BY TypeParts
<1>1. RunTypeOK'
  BY OwnIsLeftAlone DEF ResetToBase, CommitSquash, Open
<1>2. git \in Gits /\ there \in BOOLEAN /\ epoch \in Nat /\ box \in [Runs -> Nat]
  BY <1>0 DEF DirTypeOK
<1>3. Tip \in Logs /\ Content(Tip) \in Contents
  BY <1>2, TipIsALog, ContentOfLog
<1>4. CASE ResetToBase(r)
  <2>1. RowTypeOK' /\ StepTypeOK'
    <3>1. Quietly(r, "escaped") \/ Quietly(r, "open") \/ Quietly(r, "squashing")
      BY <1>4 DEF ResetToBase
    <3>2. QED
      BY <1>0, <3>1, QuietlyTypes
  <2>2. [git EXCEPT !.work = git.base, !.staged = Content(Tip)] \in Gits
    BY <1>2, <1>3 DEF Gits
  <2>3. /\ git' \in {git, [git EXCEPT !.work = git.base, !.staged = Content(Tip)]}
        /\ made' \in {made, {Content(Tip)}}
    BY <1>4 DEF ResetToBase
  <2>4. DirTypeOK'
    BY <1>2, <1>4, <2>2, <2>3 DEF ResetToBase, DirTypeOK
  <2>5. made' \in SUBSET Contents
    BY <1>0, <1>3, <2>3 DEF HistoryTypeOK
  <2>6. HistoryTypeOK'
    BY <1>0, <1>4, <2>5 DEF ResetToBase, HistoryTypeOK, remote
  <2>7. QED
    BY <1>1, <2>1, <2>4, <2>6, TypePartsNext
<1>5. CASE CommitSquash(r)
  <2>1. RowTypeOK' /\ StepTypeOK'
    <3>1. Quietly(r, "escaped") \/ Quietly(r, "resquash")
      BY <1>5 DEF CommitSquash
    <3>2. QED
      BY <1>0, <3>1, QuietlyTypes
  <2>2. git.staged \in Contents /\ git.base \in Logs
    BY <1>2 DEF Gits
  <2>3. Append(git.base, [tree |-> git.staged, by |-> "squash"]) \in Logs
    BY <2>2 DEF Logs, Authors, Contents
  <2>4. git' \in Gits
    BY <1>2, <1>5, <2>3, NumbersAreContents DEF CommitSquash, Gits
  <2>5. DirTypeOK' /\ HistoryTypeOK'
    BY <1>0, <1>2, <1>5, <2>4 DEF CommitSquash, DirTypeOK, HistoryTypeOK, remote, history
  <2>6. QED
    BY <1>1, <2>1, <2>5, TypePartsNext
<1>6. CASE Open(r)
  <2>2. Quietly(r, "finish") \/ Move(r, "NEEDS_HUMAN_INPUT", "returned", "escaped")
    BY <1>6 DEF Open
  <2>3. RowTypeOK' /\ StepTypeOK'
    BY <1>0, <2>2, QuietlyTypes, MoveTypes
  <2>4. CommitAt(Tip) \in Commits
    BY <1>2, <1>3, CommitOfLog
  <2>5. pulls' \in Seq(Commits)
    BY <1>0, <1>6, <2>4 DEF Open, HistoryTypeOK
  <2>6. Content(git.main) \in Contents
    BY <1>2, ContentOfLog DEF Gits
  <2>7. pushedToBase' \in Contents
    BY <1>0, <1>6, <2>6 DEF Open, PushBase, HistoryTypeOK
  <2>8. DirTypeOK' /\ HistoryTypeOK'
    BY <1>0, <1>6, <2>5, <2>7 DEF Open, DirTypeOK, HistoryTypeOK, dirVars, history
  <2>9. QED
    BY <1>1, <2>3, <2>8, TypePartsNext
<1>7. QED
  BY <1>4, <1>5, <1>6

(* The ends of a run, humans and sweeps.                                    *)
LEMMA EndsKeepTypes ==
  ASSUME TypeOK,
         \/ \E r \in Runs : TearDown(r) \/ Crash(r) \/ ReapContainer(r)
         \/ Cancel \/ HumanCommit \/ ReapScratchDir
  PROVE  TypeOK'
<1> USE StepNames, StateNames
<1>0. RowTypeOK /\ StepTypeOK /\ DirTypeOK /\ RunTypeOK /\ HistoryTypeOK
  BY TypeParts
<1>2. git \in Gits /\ there \in BOOLEAN /\ epoch \in Nat /\ box \in [Runs -> Nat]
  BY <1>0 DEF DirTypeOK
<1>3. ASSUME NEW r \in Runs, TearDown(r) PROVE TypeOK'
  <2>1. RowTypeOK' /\ StepTypeOK'
    BY <1>0, <1>3, QuietlyTypes DEF TearDown
  <2>2. RunTypeOK'
    BY <1>3, OwnIsLeftAlone DEF TearDown
  <2>3. box' \in [Runs -> Nat]
    BY <1>2, <1>3 DEF TearDown, NoBox
  <2>4. there' \in BOOLEAN /\ git' \in Gits /\ epoch' \in Nat
    BY <1>2, <1>3, EmptyGits DEF TearDown
  <2>5. DirTypeOK' /\ HistoryTypeOK'
    BY <1>0, <1>3, <2>3, <2>4 DEF TearDown, DirTypeOK, HistoryTypeOK, remote
  <2>6. QED
    BY <2>1, <2>2, <2>5, TypePartsNext
<1>4. ASSUME NEW r \in Runs, Crash(r) PROVE TypeOK'
  <2>1. RowTypeOK' /\ StepTypeOK'
    BY <1>0, <1>4, GotoTypes DEF Crash, RowTypeOK, StepTypeOK, row
  <2>2. RunTypeOK'
    BY <1>0, <1>4 DEF Crash, RunTypeOK
  <2>3. \A sound \in BOOLEAN : [git EXCEPT !.intact = @ /\ sound] \in Gits
    BY <1>2 DEF Gits
  <2>4. git' \in Gits
    BY <1>4, <2>3 DEF Crash
  <2>5. strayed' \in Strays
    BY <1>0, <1>4 DEF Crash, StrayedIf, HistoryTypeOK, Strays
  <2>6. DirTypeOK' /\ HistoryTypeOK'
    BY <1>0, <1>4, <2>4, <2>5 DEF Crash, DirTypeOK, HistoryTypeOK, remote
  <2>7. QED
    BY <2>1, <2>2, <2>6, TypePartsNext
<1>5. ASSUME NEW r \in Runs, ReapContainer(r) PROVE TypeOK'
  <2>1. box' \in [Runs -> Nat]
    BY <1>2, <1>5 DEF ReapContainer, NoBox
  <2>2. RowTypeOK' /\ StepTypeOK' /\ RunTypeOK' /\ DirTypeOK' /\ HistoryTypeOK'
    BY <1>0, <1>5, <2>1 DEF ReapContainer, RowTypeOK, StepTypeOK, RunTypeOK, DirTypeOK,
         HistoryTypeOK, row, runVars, dirVars, remote, history
  <2>3. QED
    BY <2>2, TypePartsNext
<1>6. CASE Cancel
  <2>1. RowTypeOK' /\ StepTypeOK'
    BY <1>0, <1>6 DEF Cancel, RowTypeOK, StepTypeOK, TaskState
  <2>2. RunTypeOK' /\ DirTypeOK' /\ HistoryTypeOK'
    BY <1>6, RestIsLeftAlone DEF Cancel
  <2>3. QED
    BY <2>1, <2>2, TypePartsNext
<1>7. CASE HumanCommit
  <2>1. edits' \in Contents /\ edits + 1 \in Contents
    BY <1>0, <1>7, BoundsAssumption DEF HumanCommit, HistoryTypeOK, Contents
  <2>2. CommitTree(edits + 1, "human") \in Gits
    BY <1>2, <2>1, CommitKeepsGit DEF Authors
  <2>3. git' = CommitTree(edits + 1, "human")
    BY <1>7 DEF HumanCommit, CommitTree, WithHead
  <2>4. RowTypeOK' /\ StepTypeOK' /\ RunTypeOK' /\ DirTypeOK' /\ HistoryTypeOK'
    BY <1>0, <1>2, <1>7, <2>1, <2>2, <2>3 DEF HumanCommit, RowTypeOK, StepTypeOK, RunTypeOK,
         DirTypeOK, HistoryTypeOK, row, runVars, remote
  <2>5. QED
    BY <2>4, TypePartsNext
<1>8. CASE ReapScratchDir
  <2>1. there' \in BOOLEAN /\ git' \in Gits /\ made' \in SUBSET Contents
    BY <1>8, EmptyGits DEF ReapScratchDir
  <2>2. RowTypeOK' /\ StepTypeOK' /\ RunTypeOK' /\ DirTypeOK' /\ HistoryTypeOK'
    BY <1>0, <1>8, <2>1 DEF ReapScratchDir, RowTypeOK, StepTypeOK, RunTypeOK, DirTypeOK,
         HistoryTypeOK, row, runVars, remote
  <2>3. QED
    BY <2>2, TypePartsNext
<1>9. QED
  BY <1>3, <1>4, <1>5, <1>6, <1>7, <1>8

(* Row, runs, directory and remote keep their types, whoever crashes when.  *)
LEMMA StepKeepsTypes == TypeOK /\ [Next]_vars => TypeOK'
<1> SUFFICES ASSUME TypeOK, [Next]_vars PROVE TypeOK'
  OBVIOUS
<1>1. ASSUME NEW r \in Runs, RunStep(r) PROVE TypeOK'
  BY <1>1, MovesKeepTypes, OwnStepsKeepTypes, CheckoutKeepsTypes, WorkKeepsTypes,
     DeliveryKeepsTypes, EndsKeepTypes DEF RunStep, Reconcile
<1>2. ASSUME NEW r \in Runs, AskResume(r) \/ EditFile(r) \/ Crash(r) \/ ReapContainer(r)
      PROVE  TypeOK'
  BY <1>2, OwnStepsKeepTypes, WorkKeepsTypes, EndsKeepTypes
<1>3. CASE Cancel \/ HumanCommit \/ ReapScratchDir
  BY <1>3, EndsKeepTypes
<1>4. CASE UNCHANGED vars
  BY <1>4 DEF TypeOK, vars, row, runVars, dirVars, remote, history
<1>5. QED
  BY <1>1, <1>2, <1>3, <1>4 DEF Next

(* Row, runs, directory and remote keep their types through every crash, for *)
(* any number of runs, edits and rounds.                                     *)
THEOREM RecoveryTyping == Spec => []TypeOK
BY InitTypes, StepKeepsTypes, PTL DEF Spec

-----------------------------------------------------------------------------
(* The lock *)

(* Where a run holds the lock, and where it may hold it.                    *)
Working == Locked \ {"returned", "escaped"}

(* A step outside the lock, which may end in a run that lets nothing go.    *)
Outside(r) ==
  /\ step[r] \notin Working
  /\ step[r] \notin {"returned", "escaped"}
  /\ \E next \in Steps \ Working : Goto(r, next)
  /\ UNCHANGED lock

(* A step under the lock, up to its end.                                    *)
Inside(r) ==
  /\ step[r] \in Working
  /\ \E next \in Locked : Goto(r, next)
  /\ UNCHANGED lock

LEMMA MoveGoes ==
  ASSUME NEW r, NEW to, NEW next, NEW refused, Move(r, to, next, refused)
  PROVE  Goto(r, next) \/ Goto(r, refused)
BY DEF Move, Quietly

LEMMA RecordGoes ==
  ASSUME NEW r, NEW commit, NEW next, NEW refused, Record(r, commit, next, refused)
  PROVE  Goto(r, next) \/ Goto(r, refused)
BY DEF Record, Quietly

LEMMA OutsideSteps ==
  ASSUME NEW r \in Runs,
         \/ Materialize(r) \/ CreateContainer(r) \/ InitBaseline(r) \/ CreateBranch(r)
         \/ Investigate(r) \/ PersistReport(r) \/ Plan(r) \/ Reconcile(r)
         \/ TearDown(r) \/ AskResume(r)
  PROVE  Outside(r)
<1> USE DEF Steps, Working, Locked, InLoop
<1>1. CASE Materialize(r)
  BY <1>1 DEF Materialize, Quietly, Outside
<1>2. CASE CreateContainer(r)
  BY <1>2 DEF CreateContainer, Quietly, Outside
<1>3. CASE InitBaseline(r)
  BY <1>3 DEF InitBaseline, Quietly, Outside
<1>4. CASE Investigate(r)
  <2>1. Goto(r, "lead") \/ Goto(r, "report") \/ Goto(r, "escaped")
    BY <1>4 DEF Investigate, Move, Quietly
  <2>2. QED
    BY <1>4, <2>1 DEF Investigate, Outside
<1>5. CASE PersistReport(r)
  BY <1>5 DEF PersistReport, Quietly, Outside
<1>6. CASE Plan(r)
  <2>1. Goto(r, "lock") \/ Goto(r, "escaped")
    BY <1>6, MoveGoes DEF Plan
  <2>2. QED
    BY <1>6, <2>1 DEF Plan, Outside
<1>7. CASE Reconcile(r)
  <2>1. step[r] \in {"look", "inspect", "adopt", "leave"}
    BY <1>7 DEF Reconcile, NothingToResume, StartOver, LookIntoDirectory, InspectFails,
           LeaveToHuman, Inspect, Adopt, LeaveReconcile
  <2>2. UNCHANGED lock
    BY <1>7 DEF Reconcile, NothingToResume, StartOver, LookIntoDirectory, InspectFails,
           LeaveToHuman, Inspect, Adopt, LeaveReconcile
  <2>3. \/ Goto(r, "ended") \/ Goto(r, "materialize") \/ Goto(r, "inspect")
        \/ Goto(r, "leave") \/ Goto(r, "adopt") \/ Goto(r, "container")
    <3>1. CASE NothingToResume(r) \/ LeaveToHuman(r) \/ Adopt(r)
      BY <3>1 DEF NothingToResume, LeaveToHuman, Adopt, Move, Record, Quietly
    <3>2. CASE \/ StartOver(r) \/ LookIntoDirectory(r) \/ InspectFails(r) \/ Inspect(r)
               \/ LeaveReconcile(r)
      BY <3>2 DEF StartOver, LookIntoDirectory, InspectFails, Inspect, LeaveReconcile, Quietly
    <3>3. QED
      BY <1>7, <3>1, <3>2 DEF Reconcile
  <2>4. QED
    BY <2>1, <2>2, <2>3 DEF Outside
<1>8. CASE TearDown(r)
  BY <1>8 DEF TearDown, Quietly, Outside
<1>9. CASE AskResume(r)
  BY <1>9 DEF AskResume, Goto, Outside
<1>10. CASE CreateBranch(r)
  BY <1>10 DEF CreateBranch, Quietly, Outside
<1>11. QED
  BY <1>1, <1>2, <1>3, <1>4, <1>5, <1>6, <1>7, <1>8, <1>9, <1>10

LEMMA InsideSteps ==
  ASSUME NEW r \in Runs,
         \/ EnterCoding(r) \/ EndCoding(r) \/ RecordCommit(r) \/ EnterTesting(r)
         \/ RunTests(r) \/ BackFromBase(r) \/ RouteRed(r) \/ EnterReview(r) \/ Approve(r)
         \/ Reject(r) \/ ResetToBase(r) \/ CommitSquash(r) \/ RecordSquash(r) \/ Open(r)
         \/ WaitForApproval(r)
  PROVE  Inside(r)
<1> USE DEF Working, Locked, InLoop
<1>1. step[r] \in Working /\ UNCHANGED lock
  BY DEF EnterCoding, EndCoding, RecordCommit, EnterTesting, RunTests, BackFromBase, RouteRed,
         EnterReview, Approve, Reject, ResetToBase, CommitSquash, RecordSquash, Open,
         WaitForApproval
<1>2. \/ Goto(r, "enter") \/ Goto(r, "coding") \/ Goto(r, "record") \/ Goto(r, "cap")
      \/ Goto(r, "testing") \/ Goto(r, "onbase") \/ Goto(r, "red") \/ Goto(r, "passed")
      \/ Goto(r, "review") \/ Goto(r, "squash") \/ Goto(r, "squashing") \/ Goto(r, "resquash")
      \/ Goto(r, "open") \/ Goto(r, "finish") \/ Goto(r, "returned") \/ Goto(r, "escaped")
  <2>1. CASE EnterCoding(r) \/ EnterTesting(r) \/ EnterReview(r) \/ Approve(r) \/ WaitForApproval(r)
    BY <2>1 DEF EnterCoding, EnterTesting, EnterReview, Approve, WaitForApproval, Move, Quietly
  <2>2. CASE EndCoding(r) \/ RunTests(r) \/ BackFromBase(r)
    BY <2>2 DEF EndCoding, RunTests, BackFromBase, Quietly
  <2>3. CASE RecordCommit(r) \/ RecordSquash(r)
    BY <2>3 DEF RecordCommit, RecordSquash, Record, Quietly
  <2>4. CASE RouteRed(r) \/ Reject(r)
    BY <2>4 DEF RouteRed, Reject, TryAgain, GiveUp, Move, Quietly
  <2>5. CASE ResetToBase(r) \/ CommitSquash(r) \/ Open(r)
    BY <2>5 DEF ResetToBase, CommitSquash, Open, Move, Quietly
  <2>6. QED
    BY <2>1, <2>2, <2>3, <2>4, <2>5
<1>3. QED
  BY <1>1, <1>2 DEF Inside

(* What any step does to the places of the runs and to the lock.            *)
LEMMA StepsAndTheLock ==
  ASSUME TypeOK, [Next]_vars
  PROVE  \/ UNCHANGED <<step, lock>>
         \/ \E r \in Runs :
              Outside(r) \/ Inside(r) \/ AcquireLock(r) \/ LeaveChain(r) \/ Crash(r)
<1>1. ASSUME NEW r \in Runs, RunStep(r)
      PROVE  Outside(r) \/ Inside(r) \/ AcquireLock(r) \/ LeaveChain(r)
  BY <1>1, OutsideSteps, InsideSteps DEF RunStep
<1>2. ASSUME NEW r \in Runs, AskResume(r) PROVE Outside(r)
  BY <1>2, OutsideSteps
<1>3. ASSUME NEW r \in Runs, EditFile(r) \/ ReapContainer(r) PROVE UNCHANGED <<step, lock>>
  BY <1>3 DEF EditFile, ReapContainer, runVars
<1>4. CASE Cancel \/ HumanCommit \/ ReapScratchDir
  BY <1>4 DEF Cancel, HumanCommit, ReapScratchDir, runVars
<1>5. CASE UNCHANGED vars
  BY <1>5 DEF vars, runVars
<1>6. QED
  BY <1>1, <1>2, <1>3, <1>4, <1>5 DEF Next

LEMMA StepKeepsLock ==
  TypeOK /\ LockIsHeldByTheLiving /\ [Next]_vars => LockIsHeldByTheLiving'
<1> SUFFICES ASSUME TypeOK, LockIsHeldByTheLiving, [Next]_vars
             PROVE  LockIsHeldByTheLiving'
  OBVIOUS
<1>0. step \in [Runs -> Steps] /\ lock \in Runs \cup {0} /\ 0 \notin Runs
  BY DEF TypeOK, Runs
<1>1. CASE UNCHANGED <<step, lock>>
  BY <1>1 DEF LockIsHeldByTheLiving
<1>2. ASSUME NEW r \in Runs, Outside(r) PROVE LockIsHeldByTheLiving'
  BY <1>0, <1>2 DEF Outside, Goto, LockIsHeldByTheLiving, Working
<1>3. ASSUME NEW r \in Runs, Inside(r) PROVE LockIsHeldByTheLiving'
  BY <1>0, <1>3 DEF Inside, Goto, LockIsHeldByTheLiving, Working
<1>4. ASSUME NEW r \in Runs, AcquireLock(r) PROVE LockIsHeldByTheLiving'
  BY <1>0, <1>4 DEF AcquireLock, Quietly, Goto, LockIsHeldByTheLiving, Locked
<1>5. ASSUME NEW r \in Runs, LeaveChain(r) PROVE LockIsHeldByTheLiving'
  BY <1>0, <1>5 DEF LeaveChain, Quietly, Goto, LockIsHeldByTheLiving, Locked, InLoop
<1>6. ASSUME NEW r \in Runs, Crash(r) PROVE LockIsHeldByTheLiving'
  BY <1>0, <1>6 DEF Crash, Goto, LockIsHeldByTheLiving, Locked, InLoop
<1>7. QED
  BY <1>1, <1>2, <1>3, <1>4, <1>5, <1>6, StepsAndTheLock

LEMMA InitLock == Init => LockIsHeldByTheLiving
BY DEF Init, LockIsHeldByTheLiving, Locked, InLoop

(* Whoever waits for the lock of a task's files waits for a run that is at  *)
(* work or on its way out, which will let it go: a process that dies takes  *)
(* its locks along.  And only the holder works in the loop, however many    *)
(* resumes there are.                                                       *)
THEOREM LockIsAlive == Spec => []LockIsHeldByTheLiving
BY InitTypes, StepKeepsTypes, InitLock, StepKeepsLock, PTL DEF Spec

-----------------------------------------------------------------------------
(* One pull request *)

(* Where a task may be once its change is on the way out.  No move of the   *)
(* table leads from here back to work.                                      *)
Delivered == {"PR_CREATION", "WAITING_FOR_APPROVAL", "MERGED", "RESOLVED", "CANCELLED",
              "NEEDS_HUMAN_INPUT"}

Delivering == {"squash", "squashing", "resquash", "open", "finish"}

DeliveryInv ==
  /\ \A r \in Runs : step[r] \in Delivering => state \in Delivered
  /\ pulls # << >> =>
       /\ state \in Delivered
       /\ \A r \in Runs : step[r] \notin Working \ {"enter", "finish"}
  /\ OneProposal

LEMMA DeliveredForGood ==
  ASSUME NEW s \in Delivered, NEW t, CanMove(s, t)
  PROVE  t \in Delivered
BY DEF Delivered, CanMove, TRANSITIONS, SpecTable, Cancellations, SystemAborts,
       Reconciliations, NonTerminal, TERMINAL_STATES, TaskState

(* Every change of the state is a legal move.                               *)
LEMMA StateMoves ==
  ASSUME [Next]_vars
  PROVE  state' = state \/ CanMove(state, state')
<1>1. ASSUME NEW r \in Runs, RunStep(r) PROVE state' = state \/ CanMove(state, state')
  <2>1. CASE \/ Materialize(r) \/ CreateContainer(r) \/ InitBaseline(r) \/ CreateBranch(r)
             \/ PersistReport(r)
    BY <2>1 DEF Materialize, CreateContainer, InitBaseline, CreateBranch, PersistReport, Quietly,
           row
  <2>2. CASE \/ Investigate(r) \/ Plan(r) \/ EnterCoding(r) \/ EnterTesting(r)
             \/ EnterReview(r) \/ Approve(r) \/ WaitForApproval(r)
    BY <2>2 DEF Investigate, Plan, EnterCoding, EnterTesting, EnterReview, Approve,
           WaitForApproval, Move, Quietly, row
  <2>3. CASE Reconcile(r)
    <3>1. CASE NothingToResume(r) \/ LeaveToHuman(r) \/ Adopt(r)
      BY <3>1 DEF NothingToResume, LeaveToHuman, Adopt, Move, Record, Quietly, row
    <3>2. CASE \/ StartOver(r) \/ LookIntoDirectory(r) \/ InspectFails(r) \/ Inspect(r)
               \/ LeaveReconcile(r)
      BY <3>2 DEF StartOver, LookIntoDirectory, InspectFails, Inspect, LeaveReconcile,
             Quietly, row
    <3>3. QED
      BY <2>3, <3>1, <3>2 DEF Reconcile
  <2>4. CASE \/ AcquireLock(r) \/ EndCoding(r) \/ RunTests(r) \/ BackFromBase(r)
             \/ LeaveChain(r) \/ TearDown(r)
    BY <2>4 DEF AcquireLock, EndCoding, RunTests, BackFromBase, LeaveChain, TearDown, Quietly,
           row
  <2>5. CASE RecordCommit(r) \/ RecordSquash(r)
    BY <2>5 DEF RecordCommit, RecordSquash, Record, Quietly, row
  <2>6. CASE RouteRed(r) \/ Reject(r)
    BY <2>6 DEF RouteRed, Reject, TryAgain, GiveUp, Move, Quietly, row
  <2>7. CASE ResetToBase(r) \/ CommitSquash(r) \/ Open(r)
    BY <2>7 DEF ResetToBase, CommitSquash, Open, Move, Quietly, row
  <2>8. QED
    BY <1>1, <2>1, <2>2, <2>3, <2>4, <2>5, <2>6, <2>7 DEF RunStep
<1>2. ASSUME NEW r \in Runs, AskResume(r) \/ EditFile(r) \/ Crash(r) \/ ReapContainer(r)
      PROVE  state' = state
  BY <1>2 DEF AskResume, EditFile, Crash, ReapContainer, row
<1>3. CASE Cancel \/ HumanCommit \/ ReapScratchDir
  BY <1>3 DEF Cancel, HumanCommit, ReapScratchDir, row
<1>4. CASE UNCHANGED vars
  BY <1>4 DEF vars, row
<1>5. QED
  BY <1>1, <1>2, <1>3, <1>4 DEF Next

(* Only Open adds to the pull requests.                                     *)
LEMMA PullsAreOpened ==
  ASSUME [Next]_vars
  PROVE  pulls' = pulls \/ \E r \in Runs : Open(r)
<1>1. ASSUME NEW r \in Runs, RunStep(r) PROVE pulls' = pulls \/ Open(r)
  BY <1>1 DEF RunStep, Materialize, CreateContainer, InitBaseline, CreateBranch, PersistReport,
         Investigate,
         Plan, Reconcile, NothingToResume, StartOver, LookIntoDirectory, InspectFails,
         LeaveToHuman, Inspect, Adopt, LeaveReconcile, AcquireLock, EnterCoding, EndCoding,
         RecordCommit, EnterTesting, RunTests, BackFromBase, RouteRed, EnterReview, Approve,
         Reject, ResetToBase, CommitSquash, RecordSquash, WaitForApproval, LeaveChain,
         TearDown, remote
<1>2. ASSUME NEW r \in Runs, AskResume(r) \/ EditFile(r) \/ Crash(r) \/ ReapContainer(r)
      PROVE  pulls' = pulls
  BY <1>2 DEF AskResume, EditFile, Crash, ReapContainer, remote
<1>3. CASE Cancel \/ HumanCommit \/ ReapScratchDir
  BY <1>3 DEF Cancel, HumanCommit, ReapScratchDir, remote
<1>4. CASE UNCHANGED vars
  BY <1>4 DEF vars, remote
<1>5. QED
  BY <1>1, <1>2, <1>3, <1>4 DEF Next

Busy == Working \ {"enter", "finish"}

LEMMA PlacesEnteredInside ==
  ASSUME step \in [Runs -> Steps], NEW r \in Runs,
         \/ EnterCoding(r) \/ EndCoding(r) \/ RecordCommit(r) \/ EnterTesting(r)
         \/ RunTests(r) \/ BackFromBase(r) \/ RouteRed(r) \/ EnterReview(r) \/ Approve(r)
         \/ Reject(r) \/ ResetToBase(r) \/ CommitSquash(r) \/ RecordSquash(r) \/ Open(r)
         \/ WaitForApproval(r)
  PROVE  /\ step'[r] \in Delivering => step[r] \in Delivering \/ state' = "PR_CREATION"
         /\ step'[r] \in Busy => step[r] \in Busy \/ CanMove(state, "CODING")
<1> USE DEF Busy, Working, Locked, InLoop, Delivering
<1>1. CASE EnterCoding(r)
  BY <1>1 DEF EnterCoding, Move, Quietly, Goto
<1>2. CASE Approve(r)
  BY <1>2 DEF Approve, Move, Quietly, Goto
<1>3. CASE \/ ResetToBase(r) \/ CommitSquash(r) \/ RecordSquash(r) \/ Open(r)
           \/ WaitForApproval(r)
  <2>1. step[r] \in Delivering
    BY <1>3 DEF ResetToBase, CommitSquash, RecordSquash, Open, WaitForApproval
  <2>2. step[r] = "finish" => step'[r] \in {"returned", "escaped"}
    BY <1>3 DEF ResetToBase, CommitSquash, RecordSquash, Open, WaitForApproval, Move, Quietly, Goto
  <2>3. QED
    BY <2>1, <2>2
<1>4. CASE \/ EndCoding(r) \/ RecordCommit(r) \/ EnterTesting(r) \/ RunTests(r)
           \/ BackFromBase(r) \/ RouteRed(r) \/ EnterReview(r) \/ Reject(r)
  <2>1. step[r] \in Busy
    BY <1>4 DEF EndCoding, RecordCommit, EnterTesting, RunTests, BackFromBase, RouteRed,
           EnterReview, Reject
  <2>2. CASE EndCoding(r) \/ RunTests(r) \/ BackFromBase(r)
    BY <2>1, <2>2 DEF EndCoding, RunTests, BackFromBase, Quietly, Goto
  <2>3. CASE RecordCommit(r) \/ EnterTesting(r) \/ EnterReview(r)
    BY <2>1, <2>3 DEF RecordCommit, Record, EnterTesting, EnterReview, Move, Quietly, Goto
  <2>4. CASE RouteRed(r) \/ Reject(r)
    BY <2>1, <2>4 DEF RouteRed, Reject, TryAgain, GiveUp, Move, Quietly, Goto
  <2>5. QED
    BY <1>4, <2>2, <2>3, <2>4
<1>5. QED
  BY <1>1, <1>2, <1>3, <1>4

(* Onto the way out only by an approval, into the loop only by a legal move *)
(* to CODING.                                                               *)
LEMMA PlacesEntered ==
  ASSUME TypeOK, [Next]_vars, NEW s \in Runs
  PROVE  /\ step'[s] \in Delivering => step[s] \in Delivering \/ state' = "PR_CREATION"
         /\ step'[s] \in Busy => step[s] \in Busy \/ CanMove(state, "CODING")
<1>0. step \in [Runs -> Steps]
  BY DEF TypeOK
<1>1. CASE UNCHANGED <<step, lock>>
  BY <1>1
<1>2. ASSUME NEW r \in Runs, Outside(r) \/ AcquireLock(r) \/ LeaveChain(r) \/ Crash(r)
      PROVE  /\ step'[s] \in Delivering => step[s] \in Delivering
             /\ step'[s] \in Busy => step[s] \in Busy
  <2>1. PICK next \in (Steps \ Working) \cup {"enter"} : Goto(r, next)
    BY <1>2 DEF Outside, AcquireLock, LeaveChain, Crash, Quietly, Steps, Working, Locked, InLoop
  <2>2. next \notin Delivering /\ next \notin Busy
    BY DEF Delivering, Busy, Working, Locked, InLoop
  <2>3. QED
    BY <1>0, <2>1, <2>2 DEF Goto
<1>3. ASSUME NEW r \in Runs, RunStep(r) \/ AskResume(r)
      PROVE  \/ Outside(r) \/ AcquireLock(r) \/ LeaveChain(r)
             \/ /\ step'[s] \in Delivering => step[s] \in Delivering \/ state' = "PR_CREATION"
                /\ step'[s] \in Busy => step[s] \in Busy \/ CanMove(state, "CODING")
  <2>1. CASE \/ EnterCoding(r) \/ EndCoding(r) \/ RecordCommit(r) \/ EnterTesting(r)
             \/ RunTests(r) \/ BackFromBase(r) \/ RouteRed(r) \/ EnterReview(r) \/ Approve(r)
             \/ Reject(r) \/ ResetToBase(r) \/ CommitSquash(r) \/ RecordSquash(r) \/ Open(r)
             \/ WaitForApproval(r)
    <3>1. CASE s = r
      BY <1>0, <2>1, <3>1, PlacesEnteredInside
    <3>2. CASE s # r
      <4>1. Inside(r)
        BY <2>1, InsideSteps
      <4>2. QED
        BY <1>0, <3>2, <4>1 DEF Inside, Goto
    <3>3. QED
      BY <3>1, <3>2
  <2>2. CASE AcquireLock(r) \/ LeaveChain(r)
    BY <2>2
  <2>3. CASE \/ Materialize(r) \/ CreateContainer(r) \/ InitBaseline(r) \/ CreateBranch(r)
             \/ Investigate(r) \/ PersistReport(r) \/ Plan(r) \/ Reconcile(r)
             \/ TearDown(r) \/ AskResume(r)
    BY <2>3, OutsideSteps
  <2>4. QED
    BY <1>3, <2>1, <2>2, <2>3 DEF RunStep
<1>4. ASSUME NEW r \in Runs, EditFile(r) \/ ReapContainer(r) PROVE UNCHANGED step
  BY <1>4 DEF EditFile, ReapContainer, runVars
<1>5. CASE Cancel \/ HumanCommit \/ ReapScratchDir
  BY <1>5 DEF Cancel, HumanCommit, ReapScratchDir, runVars
<1>6. CASE UNCHANGED vars
  BY <1>6 DEF vars, runVars
<1>7. QED
  BY <1>2, <1>3, <1>4, <1>5, <1>6 DEF Next

LEMMA InitDelivery == Init => DeliveryInv
<1> SUFFICES ASSUME Init PROVE DeliveryInv
  OBVIOUS
<1>1. pulls = << >> /\ \A r \in Runs : step[r] \in {"materialize", "idle"}
  BY DEF Init
<1>2. Len(pulls) = 0
  BY <1>1
<1>3. QED
  BY <1>1, <1>2 DEF DeliveryInv, OneProposal, Delivering

LEMMA StepKeepsDelivery ==
  TypeOK /\ LockIsHeldByTheLiving /\ DeliveryInv /\ [Next]_vars => DeliveryInv'
<1> SUFFICES ASSUME TypeOK, LockIsHeldByTheLiving, DeliveryInv, [Next]_vars
             PROVE  DeliveryInv'
  OBVIOUS
<1>0. step \in [Runs -> Steps] /\ pulls \in Seq(Commits) /\ state \in TaskState
  BY DEF TypeOK
<1>1. state \in Delivered => state' \in Delivered
  BY DeliveredForGood, StateMoves
<1>2. \A r \in Runs : step'[r] \in Delivering => state' \in Delivered
  BY <1>1, PlacesEntered DEF DeliveryInv, Delivered
<1>3. CASE pulls' = pulls
  <2>1. ASSUME pulls # << >>, NEW r \in Runs PROVE step'[r] \notin Busy
    <3>1. state \in Delivered /\ step[r] \notin Busy
      BY <2>1 DEF DeliveryInv, Busy
    <3>2. ~CanMove(state, "CODING")
      BY <3>1, DeliveredForGood DEF Delivered
    <3>3. QED
      BY <3>1, <3>2, PlacesEntered
  <2>2. OneProposal'
    BY <1>3 DEF DeliveryInv, OneProposal
  <2>3. QED
    BY <1>1, <1>2, <1>3, <2>1, <2>2 DEF DeliveryInv, Busy
<1>4. ASSUME NEW r \in Runs, Open(r), pulls' # pulls PROVE DeliveryInv'
  <2>1. step[r] = "open" /\ pulls' = Append(pulls, CommitAt(Tip)) /\ Goto(r, "finish")
    BY <1>4 DEF Open, Quietly
  <2>2. step[r] \in Busy /\ step[r] \in Delivering
    BY <2>1 DEF Busy, Working, Locked, InLoop, Delivering
  <2>3. pulls = << >> /\ state \in Delivered
    BY <2>2 DEF DeliveryInv, Busy
  <2>4. Len(pulls') = 1
    BY <2>1, <2>3
  <2>5. \A s \in Runs : s # r => step[s] \notin Working
    BY <2>2 DEF LockIsHeldByTheLiving, Busy, Working
  <2>6. \A s \in Runs : step'[s] \notin Busy
    BY <1>0, <2>1, <2>5 DEF Goto, Busy
  <2>7. QED
    BY <1>1, <1>2, <2>3, <2>4, <2>6 DEF DeliveryInv, OneProposal, Busy
<1>5. QED
  BY <1>3, <1>4, PullsAreOpened

(* One task gets one pull request, however many runs and resumes it has at  *)
(* once or after crashes: whoever comes to the lock after the first one is  *)
(* opened finds the task where no move leads back to CODING.                *)
THEOREM OnePullRequest == Spec => []OneProposal
<1>1. Init => TypeOK /\ LockIsHeldByTheLiving /\ DeliveryInv
  BY InitTypes, InitLock, InitDelivery
<1>2. TypeOK /\ LockIsHeldByTheLiving /\ DeliveryInv /\ [Next]_vars
        => (TypeOK /\ LockIsHeldByTheLiving /\ DeliveryInv)'
  BY StepKeepsTypes, StepKeepsLock, StepKeepsDelivery
<1>3. DeliveryInv => OneProposal
  BY DEF DeliveryInv
<1>4. QED
  BY <1>1, <1>2, <1>3, PTL DEF Spec

-----------------------------------------------------------------------------
(* What a step does to the directory and its history *)

(* Where a run works on a tree that is not yet approved.                    *)
Editing == (InLoop \ {"squash"}) \cup {"onbase"}

(* The change is out of the loop, and no move leads back.                   *)
GoneOut == state \in Delivered /\ \A r \in Runs : step[r] \notin Editing

(* From the way out nobody gets back into the loop.                         *)
LEMMA OutOfTheLoop ==
  ASSUME TypeOK, [Next]_vars, NEW s \in Runs, step[s] \in {"squash", "squashing", "resquash", "open"}
  PROVE  step'[s] \notin Editing
<1> USE DEF Editing, InLoop
<1>0. step \in [Runs -> Steps]
  BY DEF TypeOK
<1>1. step[s] \notin Editing
  OBVIOUS
<1>2. ASSUME NEW r \in Runs, \E next : Goto(r, next), r # s PROVE step'[s] = step[s]
  BY <1>0, <1>2 DEF Goto
<1>3. ASSUME NEW r \in Runs, Outside(r) PROVE step'[s] \notin Editing
  <2>1. r # s
    BY <1>3 DEF Outside, Working, Locked
  <2>2. QED
    BY <1>1, <1>2, <1>3, <2>1 DEF Outside
<1>4. ASSUME NEW r \in Runs, ResetToBase(r) \/ CommitSquash(r) \/ RecordSquash(r) \/ Open(r)
      PROVE  step'[s] \notin Editing
  <2>1. \/ Goto(r, "squashing") \/ Goto(r, "resquash") \/ Goto(r, "open") \/ Goto(r, "finish")
        \/ Goto(r, "returned") \/ Goto(r, "escaped")
    BY <1>4 DEF ResetToBase, CommitSquash, RecordSquash, Record, Open, Move, Quietly
  <2>2. QED
    BY <1>0, <1>1, <2>1 DEF Goto
<1>5. ASSUME NEW r \in Runs,
             \/ EnterCoding(r) \/ EndCoding(r) \/ RecordCommit(r) \/ EnterTesting(r)
             \/ RunTests(r) \/ BackFromBase(r) \/ RouteRed(r) \/ EnterReview(r) \/ Approve(r)
             \/ Reject(r) \/ WaitForApproval(r)
      PROVE  step'[s] \notin Editing
  <2>1. Inside(r)
    BY <1>5, InsideSteps
  <2>2. r # s
    BY <1>5 DEF EnterCoding, EndCoding, RecordCommit, EnterTesting, RunTests, BackFromBase,
           RouteRed, EnterReview, Approve, Reject, WaitForApproval
  <2>3. QED
    BY <1>1, <1>2, <2>1, <2>2 DEF Inside
<1>6. ASSUME NEW r \in Runs, AcquireLock(r) \/ LeaveChain(r) \/ Crash(r)
      PROVE  step'[s] \notin Editing
  <2>1. Goto(r, "enter") \/ Goto(r, "teardown") \/ Goto(r, "dead")
    BY <1>6 DEF AcquireLock, LeaveChain, Crash, Quietly
  <2>2. QED
    BY <1>0, <1>1, <2>1 DEF Goto
<1>7. ASSUME NEW r \in Runs, RunStep(r) \/ AskResume(r) PROVE step'[s] \notin Editing
  BY <1>7, <1>3, <1>4, <1>5, <1>6, OutsideSteps DEF RunStep
<1>8. ASSUME NEW r \in Runs, EditFile(r) \/ ReapContainer(r) PROVE UNCHANGED step
  BY <1>8 DEF EditFile, ReapContainer, runVars
<1>9. CASE Cancel \/ HumanCommit \/ ReapScratchDir \/ UNCHANGED vars
  BY <1>1, <1>9 DEF Cancel, HumanCommit, ReapScratchDir, vars, runVars
<1>10. QED
  BY <1>1, <1>6, <1>7, <1>8, <1>9 DEF Next

LEMMA GoneForGood ==
  ASSUME TypeOK, [Next]_vars, GoneOut
  PROVE  GoneOut'
<1>1. state' \in Delivered
  BY DeliveredForGood, StateMoves DEF GoneOut
<1>2. ~CanMove(state, "CODING")
  BY DeliveredForGood DEF GoneOut, Delivered
<1>3. ASSUME NEW s \in Runs PROVE step'[s] \notin Editing
  <2>1. Editing \subseteq Busy
    BY DEF Editing, Busy, Working, Locked, InLoop
  <2>2. CASE step[s] \in Busy
    <3>1. step[s] \in {"squash", "squashing", "resquash", "open"}
      BY <2>2 DEF GoneOut, Editing, Busy, Working, Locked, InLoop
    <3>2. QED
      BY <3>1, OutOfTheLoop
  <2>3. CASE step[s] \notin Busy
    BY <1>2, <2>1, <2>3, PlacesEntered
  <2>4. QED
    BY <2>2, <2>3
<1>4. QED
  BY <1>1, <1>3 DEF GoneOut

(* What passed, what was approved and what went astray stays so.            *)
HistoryGrows ==
  /\ strayed \subseteq strayed'
  /\ seen.passed \subseteq seen'.passed /\ seen.approved \subseteq seen'.approved

LEMMA StepsKeepHistory ==
  ASSUME TypeOK, [Next]_vars
  PROVE  HistoryGrows
<1>0. seen \in [passed : SUBSET Contents, approved : SUBSET Contents]
  BY TypeParts DEF HistoryTypeOK
<1>1. ASSUME NEW r \in Runs, RunTests(r) PROVE HistoryGrows
  BY <1>0, <1>1 DEF RunTests, HistoryGrows
<1>2. ASSUME NEW r \in Runs, Approve(r) PROVE HistoryGrows
  BY <1>0, <1>2 DEF Approve, HistoryGrows
<1>3. ASSUME NEW r \in Runs, RunStep(r) PROVE HistoryGrows
  <2>1. CASE \/ Materialize(r) \/ CreateContainer(r) \/ InitBaseline(r) \/ BackFromBase(r)
             \/ EndCoding(r) \/ ResetToBase(r) \/ TearDown(r)
    BY <2>1 DEF Materialize, CreateContainer, InitBaseline, BackFromBase, EndCoding,
           ResetToBase, TearDown, StrayedIf, HistoryGrows
  <2>2. CASE Reconcile(r)
    BY <2>2 DEF Reconcile, NothingToResume, StartOver, LookIntoDirectory, InspectFails,
           LeaveToHuman, Inspect, Adopt, LeaveReconcile, history, HistoryGrows
  <2>3. CASE \/ CreateBranch(r) \/ Investigate(r) \/ PersistReport(r) \/ Plan(r)
             \/ AcquireLock(r) \/ EnterCoding(r) \/ RecordCommit(r) \/ EnterTesting(r)
             \/ RouteRed(r) \/ EnterReview(r) \/ Reject(r) \/ CommitSquash(r)
             \/ RecordSquash(r) \/ Open(r) \/ WaitForApproval(r) \/ LeaveChain(r)
    BY <2>3 DEF CreateBranch, Investigate, PersistReport, Plan, AcquireLock, EnterCoding,
           RecordCommit, EnterTesting, RouteRed, EnterReview, Reject, CommitSquash,
           RecordSquash, Open, WaitForApproval, LeaveChain, history, HistoryGrows
  <2>4. QED
    BY <1>1, <1>2, <1>3, <2>1, <2>2, <2>3 DEF RunStep
<1>4. ASSUME NEW r \in Runs, AskResume(r) \/ EditFile(r) \/ Crash(r) \/ ReapContainer(r)
      PROVE  HistoryGrows
  BY <1>4 DEF AskResume, EditFile, Crash, ReapContainer, StrayedIf, history, HistoryGrows
<1>5. CASE Cancel \/ HumanCommit \/ ReapScratchDir \/ UNCHANGED vars
  BY <1>5 DEF Cancel, HumanCommit, ReapScratchDir, vars, history, HistoryGrows
<1>6. QED
  BY <1>3, <1>4, <1>5 DEF Next

(* The directory is the same, its branches are: files, index, HEAD may not  *)
(* be.  HEAD leaves the base branch for the task's only with a test run.    *)
BackOnWork == \E r \in Runs : step[r] = "onbase" /\ Usable(r) /\ git.home # "main"

SameLogs ==
  /\ UNCHANGED <<there, epoch, made>>
  /\ git'.work = git.work /\ git'.main = git.main /\ git'.base = git.base
  /\ git'.branched = git.branched
  /\ git.ready => git'.ready
  /\ git'.ready => git.ready \/ there
  /\ git.onBase => git'.onBase \/ BackOnWork
  /\ git'.home \in {git.home, "main"} \/ ~git.onBase

NewDir ==
  /\ ~there /\ there' /\ epoch' = epoch + 1
  /\ git' \in {NewCopy, EmptyDir} /\ made' = {}

DirGone == ~there' /\ epoch' = epoch /\ git' = NoGit /\ made' = {}

(* The commit of init_baseline, and the branch that is made of it.          *)
Baselined(r) ==
  /\ step[r] = "baseline" /\ there /\ git.onBase
  /\ UNCHANGED <<there, epoch, made>>
  /\ git' = [CommitTree(git.tree, "agent") EXCEPT !.ready = TRUE]
  /\ strayed' = StrayedIf(git.branched)

BranchMade(r) ==
  /\ step[r] = "branch" /\ git.ready /\ ~git.branched
  /\ UNCHANGED <<there, epoch, made>> /\ git' = NewBranch

Committed(tree, by) ==
  /\ git.ready /\ UNCHANGED <<there, epoch>>
  /\ git' = CommitTree(tree, by) /\ made' = made \cup {tree}

(* Half a squash, and the other half.                                       *)
Uncommitted(r) ==
  /\ step[r] = "squash" /\ git.ready /\ ~git.onBase /\ Goto(r, "squashing")
  /\ UNCHANGED <<there, epoch>>
  /\ git' = [git EXCEPT !.work = git.base, !.staged = Content(git.work)]
  /\ made' = {Content(git.work)}

Squashed(r) ==
  /\ step[r] = "squashing" /\ git.ready /\ ~git.onBase
  /\ UNCHANGED <<there, epoch, made>>
  /\ git' = [git EXCEPT !.work = Append(git.base, [tree |-> git.staged, by |-> "squash"]),
                        !.staged = 0]

(* Enough for a directory to have the same branches.                        *)
LEMMA NoLogsTouched ==
  ASSUME UNCHANGED <<there, epoch, made>>,
         git'.work = git.work, git'.main = git.main, git'.base = git.base,
         git'.branched = git.branched, git'.ready = git.ready, git'.onBase = git.onBase,
         git'.home = git.home
  PROVE  SameLogs
BY DEF SameLogs

LEMMA BoxSteps ==
  ASSUME git \in Gits, NEW r \in Runs, StartBox(r)
  PROVE  SameLogs \/ NewDir
BY NoLogsTouched DEF StartBox, NewDir

LEMMA OuterRepoSteps ==
  ASSUME TypeOK, NEW r \in Runs,
         \/ Materialize(r) \/ CreateContainer(r) \/ InitBaseline(r) \/ CreateBranch(r)
         \/ Reconcile(r) \/ TearDown(r) \/ Crash(r)
  PROVE  SameLogs \/ NewDir \/ DirGone \/ Baselined(r) \/ BranchMade(r)
<1>0. git \in Gits
  BY TypeParts DEF DirTypeOK
<1>1. CASE Materialize(r)
  <2>1. CASE there
    <3> DEFINE found == git.ready \/ Cloned
               onBase == git.onBase \/ Cloned
    <3>1. /\ git'.work = git.work /\ git'.main = git.main /\ git'.base = git.base
          /\ git'.branched = git.branched /\ git'.home = git.home
      BY <1>0, <1>1, <2>1 DEF Materialize, Gits
    <3>2. git'.ready = found /\ git'.onBase = onBase
      BY <1>0, <1>1, <2>1 DEF Materialize, Gits
    <3>3. (git.ready => git'.ready) /\ (git.onBase => git'.onBase)
      BY <3>2
    <3>4. QED
      BY <1>1, <2>1, <3>1, <3>3 DEF Materialize, SameLogs
  <2>2. CASE ~there
    BY <1>1, <2>2 DEF Materialize, NewDir
  <2>3. QED
    BY <2>1, <2>2
<1>2. CASE CreateContainer(r) \/ LookIntoDirectory(r)
  <2>1. CASE StartBox(r)
    BY <1>0, <2>1, BoxSteps
  <2>2. CASE UNCHANGED <<there, epoch, git, made>>
    BY <2>2, NoLogsTouched
  <2>3. QED
    BY <1>2, <2>1, <2>2 DEF CreateContainer, LookIntoDirectory
<1>3. CASE InitBaseline(r)
  <2>1. UNCHANGED <<there, epoch, made>> /\ step[r] = "baseline"
    BY <1>3 DEF InitBaseline
  <2>2. CASE git' = git
    BY <2>1, <2>2, NoLogsTouched
  <2>3. CASE there /\ git' = [OnBase EXCEPT !.ready = TRUE]
    <3>1. /\ git'.work = git.work /\ git'.main = git.main /\ git'.base = git.base
          /\ git'.branched = git.branched /\ git'.home = git.home
          /\ git'.ready /\ git'.onBase
      BY <1>0, <2>3 DEF Gits, OnBase
    <3>2. QED
      BY <2>1, <2>3, <3>1 DEF SameLogs
  <2>4. CASE /\ there /\ git.onBase /\ strayed' = StrayedIf(git.branched)
             /\ git' = [CommitTree(git.tree, "agent") EXCEPT !.ready = TRUE]
    BY <2>1, <2>4 DEF Baselined
  <2>5. QED
    BY <1>3, <2>2, <2>3, <2>4 DEF InitBaseline, Usable
<1>4. CASE CreateBranch(r)
  <2>1. UNCHANGED <<there, epoch, made>> /\ step[r] = "branch"
    BY <1>4 DEF CreateBranch, history
  <2>2. CASE git' = git
    BY <2>1, <2>2, NoLogsTouched
  <2>3. CASE GitWorks(r) /\ ~git.branched /\ git' = NewBranch
    BY <2>1, <2>3 DEF BranchMade, GitWorks
  <2>4. QED
    BY <1>4, <2>2, <2>3 DEF CreateBranch
<1>5. CASE Reconcile(r)
  <2>1. CASE LookIntoDirectory(r)
    BY <1>2, <2>1
  <2>2. CASE ~LookIntoDirectory(r)
    <3>1. UNCHANGED <<there, epoch, git, made>>
      BY <1>5, <2>2 DEF Reconcile, NothingToResume, StartOver, InspectFails, LeaveToHuman,
             Inspect, Adopt, LeaveReconcile, dirVars, history
    <3>2. QED
      BY <3>1, NoLogsTouched
  <2>3. QED
    BY <2>1, <2>2
<1>6. CASE TearDown(r)
  BY <1>6 DEF TearDown, DirGone
<1>7. CASE Crash(r)
  <2>1. PICK sound \in BOOLEAN : git' = [git EXCEPT !.intact = @ /\ sound]
    BY <1>7 DEF Crash
  <2>2. /\ git'.work = git.work /\ git'.main = git.main /\ git'.base = git.base
        /\ git'.branched = git.branched /\ git'.ready = git.ready
        /\ git'.onBase = git.onBase /\ git'.home = git.home
    BY <1>0, <2>1 DEF Gits
  <2>3. QED
    BY <1>7, <2>2, NoLogsTouched DEF Crash
<1>8. QED
  BY <1>1, <1>2, <1>3, <1>4, <1>5, <1>6, <1>7

LEMMA InnerRepoSteps ==
  ASSUME TypeOK, NEW r \in Runs,
         \/ EditFile(r) \/ EndCoding(r) \/ RunTests(r) \/ BackFromBase(r)
         \/ ResetToBase(r) \/ CommitSquash(r)
  PROVE  \/ SameLogs \/ Uncommitted(r) \/ Squashed(r)
         \/ /\ step[r] = "coding"
            /\ \E tree \in Contents, by \in {"bot", "agent"} : Committed(tree, by)
<1>0. git \in Gits
  BY TypeParts DEF DirTypeOK
<1>1. CASE EditFile(r)
  <2>1. edits' \in Contents /\ git.ready /\ step[r] = "coding" /\ UNCHANGED <<there, epoch>>
    BY <1>1, BoundsAssumption, TypeParts DEF EditFile, GitWorks, Contents, HistoryTypeOK
  <2>2. CASE git' = CommitTree(edits', "bot") /\ made' = made \cup {edits'}
    BY <2>1, <2>2 DEF Committed
  <2>3. CASE git' = [git EXCEPT !.tree = edits'] /\ UNCHANGED made
    <3>1. /\ git'.work = git.work /\ git'.main = git.main /\ git'.base = git.base
          /\ git'.branched = git.branched /\ git'.ready = git.ready
          /\ git'.onBase = git.onBase /\ git'.home = git.home
      BY <1>0, <2>3 DEF Gits
    <3>2. QED
      BY <2>1, <2>3, <3>1, NoLogsTouched
  <2>4. QED
    BY <1>1, <2>2, <2>3 DEF EditFile
<1>2. CASE EndCoding(r)
  <2>1. step[r] = "coding" /\ UNCHANGED <<there, epoch>>
    BY <1>2 DEF EndCoding
  <2>2. CASE GitWorks(r) /\ HasChanges /\ git' = CommitAll /\ made' = made \cup {git.tree}
    <3>1. git' = CommitTree(git.tree, "agent") /\ git.tree \in Contents /\ git.ready
      BY <1>0, <2>2 DEF CommitAll, Gits, GitWorks
    <3>2. QED
      BY <2>1, <2>2, <3>1 DEF Committed
  <2>3. CASE UNCHANGED <<git, made>>
    BY <2>1, <2>3, NoLogsTouched
  <2>4. QED
    BY <1>2, <2>2, <2>3 DEF EndCoding, CommitAll
<1>3. CASE RunTests(r)
  <2>1. UNCHANGED <<there, epoch, made>>
    BY <1>3 DEF RunTests
  <2>2. CASE git' = git
    BY <2>1, <2>2, NoLogsTouched
  <2>3. CASE git' = [OnBase EXCEPT !.home = IF git.onBase THEN "main" ELSE "work"]
    <3>1. /\ git'.work = git.work /\ git'.main = git.main /\ git'.base = git.base
          /\ git'.branched = git.branched /\ git'.ready = git.ready /\ git'.onBase
          /\ git.onBase => git'.home = "main"
      BY <1>0, <2>3 DEF OnBase, Gits
    <3>2. QED
      BY <2>1, <3>1 DEF SameLogs
  <2>4. QED
    BY <1>3, <2>2, <2>3 DEF RunTests
<1>4. CASE BackFromBase(r)
  <2>1. UNCHANGED <<there, epoch, made>> /\ step[r] = "onbase"
    BY <1>4 DEF BackFromBase
  <2>2. CASE git' = git
    BY <2>1, <2>2, NoLogsTouched
  <2>3. CASE GitWorks(r)
    <3>1. /\ git'.work = git.work /\ git'.main = git.main /\ git'.base = git.base
          /\ git'.branched = git.branched /\ git'.ready = git.ready /\ git'.home = git.home
          /\ git'.onBase = (git.home = "main")
      BY <1>0, <1>4, <2>3 DEF BackFromBase, Gits
    <3>2. QED
      BY <2>1, <2>3, <3>1 DEF SameLogs, BackOnWork, GitWorks
  <2>4. QED
    BY <1>4, <2>2, <2>3 DEF BackFromBase
<1>5. CASE ResetToBase(r)
  <2>1. CASE UNCHANGED <<git, made>>
    BY <1>5, <2>1, NoLogsTouched DEF ResetToBase
  <2>2. CASE GitWorks(r) /\ ~git.onBase /\ git.work # git.base
    BY <1>5, <2>2 DEF ResetToBase, Uncommitted, GitWorks, Tip, Quietly
  <2>3. QED
    BY <1>5, <2>1, <2>2 DEF ResetToBase
<1>6. CASE CommitSquash(r)
  <2>1. CASE UNCHANGED git
    BY <1>6, <2>1, NoLogsTouched DEF CommitSquash, history
  <2>2. CASE GitWorks(r) /\ ~git.onBase
    BY <1>6, <2>2 DEF CommitSquash, Squashed, GitWorks, history
  <2>3. QED
    BY <1>6, <2>1, <2>2 DEF CommitSquash
<1>7. QED
  BY <1>1, <1>2, <1>3, <1>4, <1>5, <1>6

(* All that a step does to the directory: nothing to its branches, a new    *)
(* one, none any more, its baseline or its branch made, a commit by a run in*)
(* CODING or by a human while none is at work, or one half of a squash.     *)
LEMMA RepoSteps ==
  ASSUME TypeOK, [Next]_vars
  PROVE  \/ SameLogs \/ NewDir \/ DirGone
         \/ \E r \in Runs : \/ Baselined(r) \/ BranchMade(r) \/ Uncommitted(r) \/ Squashed(r)
         \/ \E r \in Runs : /\ step[r] = "coding"
                            /\ \E tree \in Contents, by \in {"bot", "agent"} : Committed(tree, by)
         \/ HumanCommit /\ \E tree \in Contents : Committed(tree, "human")
<1>1. ASSUME NEW r \in Runs,
             \/ Investigate(r) \/ PersistReport(r) \/ Plan(r) \/ AcquireLock(r)
             \/ EnterCoding(r) \/ RecordCommit(r) \/ EnterTesting(r) \/ RouteRed(r)
             \/ EnterReview(r) \/ Approve(r) \/ Reject(r) \/ RecordSquash(r) \/ Open(r)
             \/ WaitForApproval(r) \/ LeaveChain(r) \/ AskResume(r) \/ ReapContainer(r)
      PROVE  SameLogs
  <2>1. UNCHANGED <<there, epoch, git, made>>
    BY <1>1 DEF Investigate, PersistReport, Plan, AcquireLock, EnterCoding, RecordCommit,
           EnterTesting, RouteRed, EnterReview, Approve, Reject, RecordSquash, Open,
           WaitForApproval, LeaveChain, AskResume, ReapContainer, dirVars, history
  <2>2. QED
    BY <2>1, NoLogsTouched
<1>2. CASE HumanCommit
  <2>1. edits' \in Contents
    BY <1>2, BoundsAssumption, TypeParts DEF HumanCommit, Contents, HistoryTypeOK
  <2>2. Committed(edits', "human")
    BY <1>2 DEF HumanCommit, Committed
  <2>3. QED
    BY <1>2, <2>1, <2>2
<1>3. CASE ReapScratchDir
  BY <1>3 DEF ReapScratchDir, DirGone
<1>4. CASE Cancel \/ UNCHANGED vars
  <2>1. UNCHANGED <<there, epoch, git, made>>
    BY <1>4 DEF Cancel, vars, dirVars, history
  <2>2. QED
    BY <2>1, NoLogsTouched
<1>5. ASSUME NEW r \in Runs, RunStep(r) \/ EditFile(r) \/ Crash(r)
      PROVE  \/ SameLogs \/ NewDir \/ DirGone
             \/ Baselined(r) \/ BranchMade(r) \/ Uncommitted(r) \/ Squashed(r)
             \/ /\ step[r] = "coding"
                /\ \E tree \in Contents, by \in {"bot", "agent"} : Committed(tree, by)
  BY <1>1, <1>5, OuterRepoSteps, InnerRepoSteps DEF RunStep
<1>6. QED
  BY <1>1, <1>2, <1>3, <1>4, <1>5 DEF Next

(* What a commit, a new branch and the two halves of a squash leave of the  *)
(* branches.                                                                *)
LEMMA CommitLogs ==
  ASSUME git \in Gits, NEW tree, NEW by, git' = CommitTree(tree, by)
  PROVE  /\ git'.ready = git.ready /\ git'.onBase = git.onBase /\ git'.home = git.home
         /\ git'.branched = git.branched /\ git'.base = git.base
         /\ git.onBase => /\ git'.work = git.work
                          /\ git'.main = Append(git.main, [tree |-> tree, by |-> by])
         /\ ~git.onBase => /\ git'.main = git.main
                           /\ git'.work = Append(git.work, [tree |-> tree, by |-> by])
BY DEF CommitTree, WithHead, Tip, Gits

LEMMA BaselineLogs ==
  ASSUME git \in Gits, NEW r, Baselined(r)
  PROVE  /\ git'.ready /\ git'.onBase /\ git'.home = git.home
         /\ git'.branched = git.branched /\ git'.base = git.base /\ git'.work = git.work
         /\ git'.main = Append(git.main, [tree |-> git.tree, by |-> "agent"])
         /\ git'.tree = git.tree
BY DEF Baselined, CommitTree, WithHead, Tip, Gits

LEMMA BranchLogs ==
  ASSUME git \in Gits, git' = NewBranch
  PROVE  /\ git'.ready = git.ready /\ git'.onBase = FALSE /\ git'.home = "work"
         /\ git'.branched /\ git'.base = git.main /\ git'.work = git.main
         /\ git'.main = git.main /\ git'.tree = git.tree
BY DEF NewBranch, Gits

LEMMA SquashLogs ==
  ASSUME git \in Gits, NEW r, Uncommitted(r) \/ Squashed(r)
  PROVE  /\ git'.ready = git.ready /\ git'.onBase = git.onBase /\ git'.home = git.home
         /\ git'.branched = git.branched /\ git'.base = git.base
         /\ git'.main = git.main
         /\ Uncommitted(r) => git'.work = git.base
         /\ Squashed(r) => git'.work = Append(git.base, [tree |-> git.staged, by |-> "squash"])
BY DEF Uncommitted, Squashed, Gits

(* A directory without commits of its own, nor a branch.                    *)
Blank(g) ==
  /\ g.work = << >> /\ g.main = << >> /\ g.base = << >>
  /\ g.branched = FALSE /\ g.onBase = TRUE /\ g.home = "work" /\ g.tree = 0

LEMMA EmptyLogs ==
  /\ Blank(NoGit) /\ Blank(EmptyDir) /\ Blank(NewCopy)
  /\ NoGit.ready = FALSE /\ EmptyDir.ready = FALSE /\ EmptyDir.intact = FALSE
BY DEF NoGit, EmptyDir, NewCopy, Blank

-----------------------------------------------------------------------------
(* Mounts and branches *)

(* No mount is of a checkout to come.                                       *)
BoxInv == \A r \in Runs : box[r] <= epoch

LEMMA InitBoxes == Init => BoxInv
BY DEF Init, BoxInv, NoBox

(* A container is made of the directory of now, before any work in it, or   *)
(* goes.                                                                    *)
LEMMA BoxMoves ==
  ASSUME TypeOK, [Next]_vars
  PROVE  \/ box' = box
         \/ \E r \in Runs : box' = [box EXCEPT ![r] = NoBox]
         \/ \E r \in Runs : /\ box' = [box EXCEPT ![r] = epoch']
                            /\ CreateContainer(r) \/ LookIntoDirectory(r)
                            /\ \E next \in {"baseline", "resume", "inspect"} : Goto(r, next)
<1>1. ASSUME NEW r \in Runs, LeaveReconcile(r) \/ TearDown(r) \/ ReapContainer(r)
      PROVE  box' = [box EXCEPT ![r] = NoBox]
  BY <1>1 DEF LeaveReconcile, TearDown, ReapContainer
<1>2. ASSUME NEW r \in Runs, CreateContainer(r) \/ LookIntoDirectory(r)
      PROVE  \/ box' = box
             \/ /\ box' = [box EXCEPT ![r] = epoch']
                /\ \E next \in {"baseline", "resume", "inspect"} : Goto(r, next)
  BY <1>2 DEF CreateContainer, LookIntoDirectory, StartBox, Quietly
<1>3. ASSUME NEW r \in Runs, RunStep(r), ~LeaveReconcile(r), ~TearDown(r), ~CreateContainer(r),
             ~LookIntoDirectory(r)
      PROVE  box' = box
  BY <1>3 DEF RunStep, Reconcile, Materialize, InitBaseline, CreateBranch, Investigate,
         PersistReport, Plan, NothingToResume, StartOver, InspectFails, LeaveToHuman, Inspect,
         Adopt, AcquireLock, EnterCoding, EndCoding, RecordCommit, EnterTesting, RunTests,
         BackFromBase, RouteRed, EnterReview, Approve, Reject, ResetToBase, CommitSquash,
         RecordSquash, Open, WaitForApproval, LeaveChain
<1>4. ASSUME NEW r \in Runs, AskResume(r) \/ EditFile(r) \/ Crash(r) PROVE box' = box
  BY <1>4 DEF AskResume, EditFile, Crash
<1>5. CASE Cancel \/ HumanCommit \/ ReapScratchDir \/ UNCHANGED vars
  BY <1>5 DEF Cancel, HumanCommit, ReapScratchDir, vars
<1>6. QED
  BY <1>1, <1>2, <1>3, <1>4, <1>5 DEF Next, RunStep, Reconcile

(* A directory is never that of an earlier copy.                            *)
LEMMA EpochGrows ==
  ASSUME TypeOK, [Next]_vars
  PROVE  epoch' \in Nat /\ epoch <= epoch' /\ (there' /\ ~there => epoch' = epoch + 1)
<1>0. epoch \in Nat /\ git \in Gits
  BY TypeParts DEF DirTypeOK
<1>1. \/ UNCHANGED <<there, epoch>>
      \/ ~there' /\ epoch' = epoch
      \/ ~there /\ epoch' = epoch + 1
  <2>1. (\E r \in Runs : Baselined(r) \/ BranchMade(r) \/ Uncommitted(r) \/ Squashed(r))
          => UNCHANGED <<there, epoch>>
    BY DEF Baselined, BranchMade, Uncommitted, Squashed
  <2>2. (\E tree, by : Committed(tree, by)) => UNCHANGED <<there, epoch>>
    BY DEF Committed
  <2>3. SameLogs => UNCHANGED <<there, epoch>>
    BY DEF SameLogs
  <2>4. QED
    BY <2>1, <2>2, <2>3, RepoSteps DEF NewDir, DirGone
<1>2. QED
  BY <1>0, <1>1

LEMMA StepKeepsBoxes ==
  TypeOK /\ BoxInv /\ [Next]_vars => BoxInv'
<1> SUFFICES ASSUME TypeOK, BoxInv, [Next]_vars PROVE BoxInv'
  OBVIOUS
<1>0. box \in [Runs -> Nat] /\ epoch \in Nat
  BY TypeParts DEF DirTypeOK
<1>1. epoch' \in Nat /\ epoch <= epoch'
  BY EpochGrows
<1>2. CASE box' = box
  BY <1>0, <1>1, <1>2 DEF BoxInv
<1>3. ASSUME NEW r \in Runs, NEW n \in 0..epoch', box' = [box EXCEPT ![r] = n] PROVE BoxInv'
  BY <1>0, <1>1, <1>3 DEF BoxInv
<1>4. NoBox \in 0..epoch' /\ epoch' \in 0..epoch'
  BY <1>1 DEF NoBox
<1>5. QED
  BY <1>2, <1>3, <1>4, BoxMoves

(* A run that works, or waits to, came to its directory by an earlier step. *)
Started == {"resume", "lead", "report", "plan", "lock"} \cup Working

(* Who is at work in the directory of after a step was so before.           *)
LEMMA MountsLast ==
  ASSUME TypeOK, BoxInv, [Next]_vars, NEW s \in Runs, Usable(s)',
         step'[s] \notin {"baseline", "resume", "inspect"}
  PROVE  Usable(s) /\ UNCHANGED <<there, epoch>>
<1>0. /\ box \in [Runs -> Nat] /\ epoch \in Nat /\ step \in [Runs -> Steps]
      /\ there \in BOOLEAN
  BY TypeParts DEF DirTypeOK, StepTypeOK
<1>1. box'[s] \in {box[s], 0}
  <2>1. ASSUME NEW r \in Runs, NEW next \in {"baseline", "resume", "inspect"}, Goto(r, next)
        PROVE  r # s
    BY <1>0, <2>1 DEF Goto
  <2>2. CASE \E r \in Runs : box' = [box EXCEPT ![r] = NoBox]
    BY <1>0, <2>2 DEF NoBox
  <2>3. CASE \E r \in Runs : r # s /\ box' = [box EXCEPT ![r] = epoch']
    BY <1>0, <2>3
  <2>4. CASE \E r \in Runs : /\ box' = [box EXCEPT ![r] = epoch']
                            /\ \E next \in {"baseline", "resume", "inspect"} : Goto(r, next)
    BY <2>1, <2>3, <2>4
  <2>5. QED
    BY <2>2, <2>4, BoxMoves
<1>2. epoch' > 0 /\ there' /\ box'[s] = epoch' /\ epoch' \in Nat
  BY EpochGrows DEF Usable
<1>3. box[s] = epoch' /\ box[s] <= epoch
  BY <1>1, <1>2 DEF BoxInv
<1>4. epoch' = epoch
  BY <1>0, <1>2, <1>3, EpochGrows
<1>5. there
  BY <1>0, <1>2, <1>4, EpochGrows
<1>6. there' = there
  <2>1. there' \in BOOLEAN
    BY StepKeepsTypes DEF TypeOK
  <2>2. QED
    BY <1>0, <1>2, <1>5, <2>1
<1>7. QED
  BY <1>2, <1>3, <1>4, <1>5, <1>6 DEF Usable

(* Onto the base branch for a test: with a note of where HEAD was.          *)
LEMMA StandingOnBase ==
  ASSUME TypeOK, [Next]_vars, NEW s \in Runs, step'[s] = "onbase", step[s] # "onbase"
  PROVE  git'.home = IF git.onBase THEN "main" ELSE "work"
<1>0. step \in [Runs -> Steps] /\ git \in Gits
  BY TypeParts DEF StepTypeOK, DirTypeOK
<1>1. ASSUME NEW r \in Runs, \E next \in Steps \ {"onbase"} : Goto(r, next) PROVE FALSE
  BY <1>0, <1>1 DEF Goto
<1>2. ASSUME NEW r \in Runs, Outside(r) \/ AcquireLock(r) \/ LeaveChain(r) \/ Crash(r)
      PROVE  FALSE
  <2>1. \E next \in Steps \ {"onbase"} : Goto(r, next)
    BY <1>2, StepNames DEF Outside, AcquireLock, LeaveChain, Crash, Quietly, Working, Locked,
       InLoop
  <2>2. QED
    BY <1>1, <2>1
<1>3. ASSUME NEW r \in Runs, RunTests(r)
      PROVE  git'.home = IF git.onBase THEN "main" ELSE "work"
  <2>1. CASE Quietly(r, "passed") \/ Quietly(r, "red")
    BY <1>1, <2>1, StepNames DEF Quietly
  <2>2. CASE git' = [OnBase EXCEPT !.home = IF git.onBase THEN "main" ELSE "work"]
    BY <1>0, <2>2, OnBaseKeepsGit DEF Gits
  <2>3. QED
    BY <1>3, <2>1, <2>2 DEF RunTests
<1>4. ASSUME NEW r \in Runs,
             \/ EnterCoding(r) \/ EndCoding(r) \/ RecordCommit(r) \/ EnterTesting(r)
             \/ BackFromBase(r) \/ RouteRed(r) \/ EnterReview(r) \/ Approve(r)
             \/ Reject(r) \/ ResetToBase(r) \/ CommitSquash(r) \/ RecordSquash(r) \/ Open(r)
             \/ WaitForApproval(r)
      PROVE  FALSE
  <2>1. CASE \/ EnterCoding(r) \/ EnterTesting(r) \/ EnterReview(r) \/ Approve(r)
             \/ WaitForApproval(r) \/ Open(r)
    BY <1>1, <2>1, StepNames DEF EnterCoding, EnterTesting, EnterReview, Approve,
       WaitForApproval, Open, Move, Quietly
  <2>2. CASE EndCoding(r) \/ BackFromBase(r) \/ ResetToBase(r) \/ CommitSquash(r)
    BY <1>1, <2>2, StepNames DEF EndCoding, BackFromBase, ResetToBase, CommitSquash, Quietly
  <2>3. CASE RecordCommit(r) \/ RecordSquash(r)
    BY <1>1, <2>3, StepNames DEF RecordCommit, RecordSquash, Record, Quietly
  <2>4. CASE RouteRed(r) \/ Reject(r)
    BY <1>1, <2>4, StepNames DEF RouteRed, Reject, TryAgain, GiveUp, Move, Quietly
  <2>5. QED
    BY <1>4, <2>1, <2>2, <2>3, <2>4
<1>5. ASSUME NEW r \in Runs, RunStep(r) \/ AskResume(r) \/ Crash(r)
      PROVE  git'.home = IF git.onBase THEN "main" ELSE "work"
  BY <1>2, <1>3, <1>4, <1>5, OutsideSteps DEF RunStep
<1>6. ASSUME NEW r \in Runs, EditFile(r) \/ ReapContainer(r) PROVE FALSE
  BY <1>6 DEF EditFile, ReapContainer, runVars
<1>7. CASE Cancel \/ HumanCommit \/ ReapScratchDir \/ UNCHANGED vars
  BY <1>7 DEF Cancel, HumanCommit, ReapScratchDir, vars, runVars
<1>8. QED
  BY <1>5, <1>6, <1>7 DEF Next

(* Where there is no repository there is no history, and where there is no  *)
(* branch of the task HEAD is on the base branch.                           *)
LogsInv ==
  /\ ~there => ~git.ready
  /\ ~git.ready => git.main = << >> /\ made = {} /\ ~git.branched
  /\ ~git.branched => git.work = << >> /\ git.base = << >> /\ git.onBase
  /\ ~git.branched => \A r \in Runs : step[r] = "onbase" /\ Usable(r) => git.home = "main"

LEMMA InitLogs == Init => LogsInv
BY EmptyLogs DEF Init, LogsInv, Blank, Usable

LEMMA StepKeepsLogs ==
  TypeOK /\ BoxInv /\ LogsInv /\ [Next]_vars => LogsInv'
<1> SUFFICES ASSUME TypeOK, BoxInv, LogsInv, [Next]_vars PROVE LogsInv'
  OBVIOUS
<1>0. git \in Gits
  BY TypeParts DEF DirTypeOK
<1>1. ASSUME git.onBase, git'.home \in {git.home, "main"}, ~git.branched,
             NEW r \in Runs, step'[r] = "onbase", Usable(r)'
      PROVE  git'.home = "main"
  <2>1. Usable(r)
    BY <1>1, MountsLast
  <2>2. CASE step[r] = "onbase"
    BY <1>1, <2>1, <2>2 DEF LogsInv
  <2>3. CASE step[r] # "onbase"
    BY <1>1, <2>3, StandingOnBase
  <2>4. QED
    BY <2>2, <2>3
<1>2. CASE SameLogs
  <2>1. ~git.branched => git'.onBase
    BY <1>2 DEF SameLogs, LogsInv, BackOnWork
  <2>2. QED
    BY <1>1, <1>2, <2>1 DEF SameLogs, LogsInv
<1>3. CASE NewDir \/ DirGone
  <2>1. Blank(git')
    BY <1>3, EmptyLogs DEF NewDir, DirGone
  <2>2. ASSUME NEW r \in Runs, step'[r] = "onbase", Usable(r)' PROVE FALSE
    <3>1. there /\ there' = there /\ epoch' = epoch
      BY <2>2, MountsLast DEF Usable
    <3>2. QED
      BY <1>3, <3>1 DEF NewDir, DirGone
  <2>3. there' \/ git'.ready = FALSE
    BY <1>3, EmptyLogs DEF NewDir, DirGone
  <2>4. made' = {}
    BY <1>3 DEF NewDir, DirGone
  <2>5. QED
    BY <2>1, <2>2, <2>3, <2>4 DEF LogsInv, Blank
<1>4. ASSUME NEW r \in Runs, Uncommitted(r) \/ Squashed(r) PROVE LogsInv'
  <2>1. git.ready /\ there' = there /\ git.branched
    BY <1>4 DEF Uncommitted, Squashed, LogsInv
  <2>2. QED
    BY <1>0, <1>4, <2>1, SquashLogs DEF LogsInv
<1>5. ASSUME NEW tree, NEW by, Committed(tree, by) PROVE LogsInv'
  <2>1. git.ready /\ there' = there /\ git' = CommitTree(tree, by)
    BY <1>5 DEF Committed
  <2>2. /\ git'.ready = git.ready /\ git'.onBase = git.onBase /\ git'.home = git.home
        /\ git'.branched = git.branched /\ git'.base = git.base
        /\ git.onBase => git'.work = git.work
    BY <1>0, <2>1, CommitLogs
  <2>3. QED
    BY <1>1, <2>1, <2>2 DEF LogsInv
<1>6. ASSUME NEW r \in Runs, Baselined(r) PROVE LogsInv'
  <2>1. there /\ there' = there /\ git.onBase
    BY <1>6 DEF Baselined
  <2>2. QED
    BY <1>0, <1>1, <1>6, <2>1, BaselineLogs DEF LogsInv
<1>7. ASSUME NEW r \in Runs, BranchMade(r) PROVE LogsInv'
  <2>1. there' = there /\ git.ready /\ git' = NewBranch
    BY <1>7 DEF BranchMade
  <2>2. QED
    BY <1>0, <2>1, BranchLogs DEF LogsInv
<1>8. QED
  BY <1>2, <1>3, <1>4, <1>5, <1>6, <1>7, RepoSteps

-----------------------------------------------------------------------------
(* Runs that start in a new checkout *)

(* A resume that reconcile lets go on in the directory is no fresh start.   *)
FreshInv ==
  \A r \in Runs :
    /\ step[r] \in {"look", "inspect"} => ~copy[r].resumable
    /\ step[r] = "adopt" => ~fresh[r]
    /\ step[r] = "leave" /\ copy[r].resumable => ~fresh[r]

LEMMA InitFresh == Init => FreshInv
BY DEF Init, FreshInv

(* A run changes nothing of what another one has read.                      *)
LEMMA FreshFrame ==
  ASSUME FreshInv, NEW r \in Runs,
         \A s \in Runs : s # r => step'[s] = step[s] /\ copy'[s] = copy[s] /\ fresh'[s] = fresh[s],
         step'[r] \in {"look", "inspect"} => ~copy'[r].resumable,
         step'[r] = "adopt" => ~fresh'[r],
         step'[r] = "leave" /\ copy'[r].resumable => ~fresh'[r]
  PROVE  FreshInv'
BY DEF FreshInv

LEMMA StepKeepsFresh ==
  TypeOK /\ FreshInv /\ [Next]_vars => FreshInv'
<1> SUFFICES ASSUME TypeOK, FreshInv, [Next]_vars PROVE FreshInv'
  OBVIOUS
<1>0. /\ step \in [Runs -> Steps] /\ copy \in [Runs -> Copies] /\ fresh \in [Runs -> BOOLEAN]
  BY TypeParts DEF StepTypeOK, RunTypeOK
<1>1. ASSUME NEW r \in Runs, UNCHANGED <<copy, fresh>>,
             \E next \in Steps \ {"look", "inspect", "adopt", "leave"} : Goto(r, next)
      PROVE  FreshInv'
  BY <1>0, <1>1, FreshFrame DEF Goto
<1>2. ASSUME NEW r \in Runs, UNCHANGED <<copy, fresh>>, Goto(r, "leave"),
             step[r] \in {"look", "inspect"}
      PROVE  FreshInv'
  BY <1>0, <1>2, FreshFrame DEF Goto, FreshInv
<1>3. ASSUME NEW r \in Runs, Reconcile(r) PROVE FreshInv'
  <2>1. CASE NothingToResume(r)
    BY <1>1, <2>1, StepNames DEF NothingToResume, Move, Quietly
  <2>2. CASE InspectFails(r) \/ LeaveToHuman(r)
    BY <1>2, <2>2 DEF InspectFails, LeaveToHuman, Move, Quietly
  <2>3. CASE LookIntoDirectory(r)
    <3>1. CASE Quietly(r, "ended")
      BY <1>1, <2>3, <3>1, StepNames DEF LookIntoDirectory, Quietly
    <3>2. CASE Quietly(r, "inspect")
      <4>1. step[r] = "look" /\ UNCHANGED <<copy, fresh>> /\ Goto(r, "inspect")
        BY <2>3, <3>2 DEF LookIntoDirectory, Quietly
      <4>2. QED
        BY <1>0, <4>1, FreshFrame DEF Goto, FreshInv
    <3>3. QED
      BY <2>3, <3>1, <3>2 DEF LookIntoDirectory
  <2>4. CASE StartOver(r)
    <3>1. /\ Goto(r, "materialize") /\ UNCHANGED fresh
          /\ copy' = [copy EXCEPT ![r] = [NoCopy EXCEPT !.resumable = TRUE]]
      BY <2>4 DEF StartOver, Quietly
    <3>2. QED
      BY <1>0, <3>1, FreshFrame DEF Goto
  <2>5. CASE Inspect(r)
    <3>1. /\ Goto(r, "leave") \/ Goto(r, "adopt")
          /\ fresh' = [fresh EXCEPT ![r] = FALSE]
          /\ \E new : copy' = [copy EXCEPT ![r] = new]
      BY <2>5 DEF Inspect, Quietly
    <3>2. QED
      BY <1>0, <3>1, FreshFrame DEF Goto
  <2>6. CASE Adopt(r)
    <3>1. /\ Goto(r, "leave") /\ UNCHANGED fresh /\ step[r] = "adopt"
          /\ copy' = [copy EXCEPT ![r].resumable = ~overtaken[r]]
      BY <2>6 DEF Adopt, Record, Quietly
    <3>2. QED
      BY <1>0, <3>1, FreshFrame DEF Goto, FreshInv
  <2>7. CASE LeaveReconcile(r)
    <3>1. /\ Goto(r, "container") \/ Goto(r, "ended")
          /\ UNCHANGED fresh
          /\ \E new : copy' = [copy EXCEPT ![r] = new]
      BY <2>7 DEF LeaveReconcile, Quietly
    <3>2. QED
      BY <1>0, <3>1, FreshFrame DEF Goto
  <2>8. QED
    BY <1>3, <2>1, <2>2, <2>3, <2>4, <2>5, <2>6, <2>7 DEF Reconcile
<1>4. ASSUME NEW r \in Runs, AskResume(r) PROVE FreshInv'
  <2>1. /\ step' = [step EXCEPT ![r] = "look"] /\ UNCHANGED fresh
        /\ copy' = [copy EXCEPT ![r] =
                      [commit |-> recorded, reported |-> reported, resumable |-> FALSE]]
    BY <1>4 DEF AskResume
  <2>2. QED
    BY <1>0, <2>1, FreshFrame
<1>5. ASSUME NEW r \in Runs, Inside(r), UNCHANGED <<copy, fresh>> PROVE FreshInv'
  <2>1. Locked \subseteq Steps \ {"look", "inspect", "adopt", "leave"}
    BY DEF Locked, InLoop, Steps
  <2>2. QED
    BY <1>1, <1>5, <2>1 DEF Inside
<1>6. ASSUME NEW r \in Runs, RunStep(r) PROVE FreshInv'
  <2>1. CASE \/ EnterCoding(r) \/ EndCoding(r) \/ RecordCommit(r) \/ EnterTesting(r)
             \/ RunTests(r) \/ BackFromBase(r) \/ RouteRed(r) \/ EnterReview(r) \/ Approve(r)
             \/ Reject(r) \/ ResetToBase(r) \/ CommitSquash(r) \/ RecordSquash(r) \/ Open(r)
             \/ WaitForApproval(r)
    <3>1. UNCHANGED <<copy, fresh>>
      BY <2>1 DEF EnterCoding, EndCoding, RecordCommit, EnterTesting, RunTests, BackFromBase,
         RouteRed, EnterReview, Approve, Reject, ResetToBase, CommitSquash, RecordSquash, Open,
         WaitForApproval
    <3>2. QED
      BY <1>5, <2>1, <3>1, InsideSteps
  <2>2. CASE \/ Materialize(r) \/ CreateContainer(r) \/ InitBaseline(r) \/ CreateBranch(r)
             \/ AcquireLock(r) \/ LeaveChain(r) \/ TearDown(r)
    BY <1>1, <2>2, StepNames DEF Materialize, CreateContainer, InitBaseline, CreateBranch,
       AcquireLock, LeaveChain, TearDown, Quietly
  <2>3. CASE Investigate(r) \/ PersistReport(r) \/ Plan(r)
    BY <1>1, <2>3, StepNames DEF Investigate, PersistReport, Plan, Move, Quietly
  <2>4. QED
    BY <1>3, <1>6, <2>1, <2>2, <2>3 DEF RunStep
<1>7. ASSUME NEW r \in Runs, Crash(r) PROVE FreshInv'
  BY <1>1, <1>7, StepNames DEF Crash
<1>8. CASE \/ \E r \in Runs : EditFile(r) \/ ReapContainer(r)
           \/ Cancel \/ HumanCommit \/ ReapScratchDir \/ UNCHANGED vars
  <2>1. UNCHANGED <<step, copy, fresh>>
    BY <1>8 DEF EditFile, ReapContainer, Cancel, HumanCommit, ReapScratchDir, vars, runVars
  <2>2. QED
    BY <2>1 DEF FreshInv
<1>9. QED
  BY <1>4, <1>6, <1>7, <1>8 DEF Next

(* Where a run makes a directory of its own of what it copied.              *)
Founding(s) == step[s] \in {"baseline", "branch"} \/ (step[s] = "container" /\ fresh[s])

(* Until the branch of the task is made nobody works in the directory, and  *)
(* its baseline is the copy: whoever then makes the branch makes it of that.*)
EarlyInv ==
  strayed \cap {"copy", "early"} = {} =>
    /\ git.base = << >>
    /\ there /\ git.intact /\ ~git.branched =>
         /\ \A s \in Runs : Usable(s) => step[s] \notin Started
         /\ git.main = << >> => git.tree = 0
         /\ git.main # << >> => \A s \in Runs : ~Founding(s)

LEMMA InitEarly == Init => EarlyInv
BY EmptyLogs DEF Init, EarlyInv, Blank

LEMMA StepNamesStarted ==
  /\ Working \subseteq Started /\ Started \subseteq Steps
  /\ "materialize" \notin Started /\ "container" \notin Started /\ "baseline" \notin Started
  /\ "branch" \notin Started /\ "look" \notin Started /\ "inspect" \notin Started
  /\ "adopt" \notin Started /\ "leave" \notin Started /\ "idle" \notin Started
  /\ "returned" \notin Started /\ "escaped" \notin Started /\ "teardown" \notin Started
  /\ "ended" \notin Started /\ "dead" \notin Started
BY DEF Started, Working, Locked, InLoop, Steps

(* Nobody else comes to work in the directory, nor to make one of it.       *)
LEMMA EarlyFrame ==
  ASSUME EarlyInv, strayed \subseteq strayed', UNCHANGED <<there, epoch>>,
         git'.branched = git.branched, git'.base = git.base, git'.main = git.main,
         git'.tree = git.tree, git'.intact => git.intact,
         \A s \in Runs : Usable(s)' /\ step'[s] \in Started => Usable(s) /\ step[s] \in Started,
         \A s \in Runs : Founding(s)' => Founding(s)
  PROVE  EarlyInv'
BY DEF EarlyInv

(* The same, of a step that only goes on.                                   *)
LEMMA EarlyGoes ==
  ASSUME TypeOK, EarlyInv, strayed \subseteq strayed', UNCHANGED <<there, epoch>>,
         git'.branched = git.branched, git'.base = git.base, git'.main = git.main,
         git'.tree = git.tree, git'.intact => git.intact,
         NEW r \in Runs, NEW next \in Steps, Goto(r, next),
         box' = box \/ box' = [box EXCEPT ![r] = NoBox],
         fresh' = fresh \/ fresh' = [fresh EXCEPT ![r] = FALSE],
         next \in Started => step[r] \in Started,
         next \notin {"baseline", "branch"}, next = "container" => ~fresh[r]
  PROVE  EarlyInv'
<1>0. /\ step \in [Runs -> Steps] /\ box \in [Runs -> Nat] /\ fresh \in [Runs -> BOOLEAN]
  BY TypeParts DEF StepTypeOK, DirTypeOK, RunTypeOK
<1>1. \A s \in Runs : Usable(s)' => Usable(s)
  BY <1>0 DEF Usable, NoBox
<1>2. \A s \in Runs : step'[s] \in Started => step[s] \in Started
  BY <1>0 DEF Goto
<1>3. \A s \in Runs : Founding(s)' => Founding(s)
  BY <1>0 DEF Founding, Goto
<1>4. QED
  BY <1>1, <1>2, <1>3, EarlyFrame

(* Once the branch is there, it stays where it left the base branch.        *)
LEMMA EarlyOnce ==
  ASSUME EarlyInv, strayed \subseteq strayed', git'.branched, git'.base = git.base
  PROVE  EarlyInv'
BY DEF EarlyInv

LEMMA EarlyGone ==
  ASSUME ~there' \/ git'.intact = FALSE, git'.base = << >>
  PROVE  EarlyInv'
BY DEF EarlyInv

LEMMA CheckoutAndEarly ==
  ASSUME TypeOK, BoxInv, LogsInv, EarlyInv, strayed \subseteq strayed', NEW r \in Runs,
         Materialize(r) \/ CreateContainer(r) \/ LookIntoDirectory(r)
  PROVE  EarlyInv'
<1>0. /\ step \in [Runs -> Steps] /\ box \in [Runs -> Nat] /\ fresh \in [Runs -> BOOLEAN]
      /\ epoch \in Nat
  BY TypeParts DEF StepTypeOK, DirTypeOK, RunTypeOK
<1>1. CASE Materialize(r)
  <2>1. CASE there
    BY <1>1, <2>1 DEF Materialize, EarlyInv
  <2>2. CASE ~there
    <3>1. git' = NewCopy /\ epoch' = epoch + 1 /\ box' = box
      BY <1>1, <2>2 DEF Materialize
    <3>2. Blank(git')
      BY <3>1, EmptyLogs
    <3>3. \A s \in Runs : ~Usable(s)'
      BY <1>0, <3>1 DEF Usable, BoxInv
    <3>4. QED
      BY <3>2, <3>3 DEF EarlyInv, Blank
  <2>3. QED
    BY <2>1, <2>2
<1>2. CASE CreateContainer(r) \/ LookIntoDirectory(r)
  <2>1. CASE StartBox(r) /\ ~there
    <3>1. git' = EmptyDir
      BY <2>1 DEF StartBox
    <3>2. QED
      BY <3>1, EmptyLogs, EarlyGone DEF Blank
  <2>2. CASE /\ CreateContainer(r) /\ StartBox(r) /\ there
             /\ Quietly(r, IF fresh[r] THEN "baseline" ELSE "resume")
             /\ strayed' = IF GoesOnEarly(r) THEN strayed \cup {"early"} ELSE strayed
    <3>1. /\ UNCHANGED <<there, epoch, git, fresh>> /\ box' = [box EXCEPT ![r] = epoch]
          /\ Goto(r, IF fresh[r] THEN "baseline" ELSE "resume") /\ step[r] = "container"
          /\ GoesOnEarly(r) => "early" \in strayed'
      BY <2>2 DEF CreateContainer, StartBox, Quietly
    <3>2. CASE GoesOnEarly(r)
      BY <3>1, <3>2 DEF EarlyInv
    <3>3. CASE ~fresh[r] /\ git.branched
      BY <3>1, <3>3, EarlyOnce
    <3>4. CASE fresh[r]
      <4>1. \A s \in Runs : step'[s] \in Started => step[s] \in Started /\ s # r
        BY <1>0, <3>1, <3>4, StepNamesStarted DEF Goto
      <4>2. \A s \in Runs : s # r /\ Usable(s)' => Usable(s)
        BY <1>0, <3>1 DEF Usable
      <4>3. \A s \in Runs : Founding(s)' => Founding(s)
        BY <1>0, <3>1, <3>4 DEF Goto, Founding
      <4>4. QED
        BY <3>1, <4>1, <4>2, <4>3, EarlyFrame
    <3>5. QED
      BY <1>0, <2>2, <3>2, <3>3, <3>4 DEF GoesOnEarly
  <2>3. CASE LookIntoDirectory(r) /\ StartBox(r) /\ there
    <3>1. /\ UNCHANGED <<there, epoch, git, fresh>> /\ box' = [box EXCEPT ![r] = epoch]
          /\ Goto(r, "inspect") \/ Goto(r, "ended")
      BY <2>3 DEF LookIntoDirectory, StartBox, Quietly
    <3>2. \A s \in Runs : step'[s] \in Started => step[s] \in Started /\ s # r
      BY <1>0, <3>1, StepNamesStarted DEF Goto
    <3>3. \A s \in Runs : s # r /\ Usable(s)' => Usable(s)
      BY <1>0, <3>1 DEF Usable
    <3>4. \A s \in Runs : Founding(s)' => Founding(s)
      BY <1>0, <3>1 DEF Goto, Founding
    <3>5. QED
      BY <3>1, <3>2, <3>3, <3>4, EarlyFrame
  <2>4. CASE UNCHANGED <<there, epoch, git, box>> /\ Quietly(r, "ended")
    <3>1. UNCHANGED fresh
      BY <1>2 DEF CreateContainer, LookIntoDirectory
    <3>2. QED
      BY <2>4, <3>1, EarlyGoes, StepNames, StepNamesStarted DEF Quietly
  <2>5. QED
    BY <1>2, <2>1, <2>2, <2>3, <2>4 DEF CreateContainer, LookIntoDirectory
<1>3. QED
  BY <1>1, <1>2

(* The baseline is that of the copy, and so is the branch that is made of it.*)
LEMMA FoundingAndEarly ==
  ASSUME TypeOK, LogsInv, EarlyInv, strayed \subseteq strayed', NEW r \in Runs,
         InitBaseline(r) \/ CreateBranch(r)
  PROVE  EarlyInv'
<1>0. step \in [Runs -> Steps] /\ git \in Gits
  BY TypeParts DEF StepTypeOK, DirTypeOK
<1>1. UNCHANGED <<there, epoch, box, fresh>>
  BY DEF InitBaseline, CreateBranch
<1>2. CASE git' = git /\ Quietly(r, "escaped")
  BY <1>1, <1>2, EarlyGoes, StepNames, StepNamesStarted DEF Quietly
<1>3. Founding(r)
  BY DEF InitBaseline, CreateBranch, Founding
<1>4. ASSUME strayed \cap {"copy", "early"} = {}, Usable(r), git.intact, ~git.branched
      PROVE  git.main = << >> /\ git.tree = 0 /\ git.onBase
  BY <1>3, <1>4 DEF EarlyInv, LogsInv, Usable
<1>5. CASE CreateBranch(r) /\ GitWorks(r) /\ ~git.branched /\ git' = NewBranch
  <2>1. git'.branched /\ git'.base = git.main
    BY <1>0, <1>5, BranchLogs
  <2>2. QED
    BY <1>4, <1>5, <2>1 DEF EarlyInv, GitWorks
<1>6. CASE InitBaseline(r) /\ Usable(r) /\ git.intact /\ git'.ready /\ Quietly(r, "branch")
  <2>1. git'.branched = git.branched /\ git'.base = git.base
    BY <1>0, <1>6 DEF InitBaseline, OnBase, CommitTree, WithHead, Quietly, Gits
  <2>2. CASE git.branched
    BY <2>1, <2>2, EarlyOnce
  <2>3. CASE ~git.branched /\ strayed \cap {"copy", "early"} = {}
    <3>1. git.main = << >> /\ git.tree = 0 /\ git.onBase
      BY <1>4, <1>6, <2>3
    <3>2. ~HasChanges
      BY <3>1 DEF HasChanges, Tip, Content
    <3>3. git'.main = << >> /\ git'.tree = 0
      BY <1>0, <1>6, <3>1, <3>2 DEF InitBaseline, OnBase, Gits, Content
    <3>4. \A s \in Runs : Usable(s)' /\ step'[s] \in Started => Usable(s) /\ step[s] \in Started
      BY <1>0, <1>1, <1>6, StepNamesStarted DEF Usable, Quietly, Goto
    <3>5. there /\ (\A s \in Runs : Usable(s) => step[s] \notin Started) /\ git.base = << >>
      BY <1>6, <2>3 DEF EarlyInv, Usable
    <3>6. QED
      BY <2>1, <3>3, <3>4, <3>5 DEF EarlyInv
  <2>4. CASE strayed \cap {"copy", "early"} # {}
    BY <2>4 DEF EarlyInv
  <2>5. QED
    BY <2>2, <2>3, <2>4
<1>7. QED
  <2>1. CASE CreateBranch(r)
    BY <1>2, <1>5, <2>1 DEF CreateBranch
  <2>2. CASE InitBaseline(r) /\ Usable(r) /\ git.intact /\ (git.onBase \/ ~HasChanges)
    <3>1. git'.ready
      BY <1>0, <2>2 DEF InitBaseline, OnBase, CommitTree, WithHead, Gits
    <3>2. QED
      BY <1>6, <2>2, <3>1 DEF InitBaseline
  <2>3. CASE InitBaseline(r) /\ ~(Usable(r) /\ git.intact /\ (git.onBase \/ ~HasChanges))
    BY <1>2, <2>3 DEF InitBaseline
  <2>4. QED
    BY <2>1, <2>2, <2>3

(* Who works in the directory works on a branch of the task.                *)
LEMMA WorkersHaveABranch ==
  ASSUME EarlyInv, strayed \cap {"copy", "early"} = {}, NEW r \in Runs, step[r] \in Started,
         GitWorks(r)
  PROVE  git.branched
BY DEF EarlyInv, GitWorks, Usable

LEMMA WorkAndEarly ==
  ASSUME TypeOK, LogsInv, EarlyInv, strayed \subseteq strayed', NEW r \in Runs,
         \/ EndCoding(r) \/ RunTests(r) \/ BackFromBase(r) \/ ResetToBase(r) \/ CommitSquash(r)
         \/ EditFile(r)
  PROVE  EarlyInv'
<1>0. git \in Gits
  BY TypeParts DEF DirTypeOK
<1>1. step[r] \in Started
  BY DEF EndCoding, RunTests, BackFromBase, ResetToBase, CommitSquash, EditFile, Started,
     Working, Locked, InLoop
<1>2. CASE GitWorks(r)
  <2>1. git'.branched = git.branched /\ git'.base = git.base
    <3>1. \/ SameLogs \/ Uncommitted(r) \/ Squashed(r)
          \/ \E tree, by : git' = CommitTree(tree, by)
      BY InnerRepoSteps DEF Committed
    <3>2. QED
      BY <1>0, <3>1, SquashLogs, CommitLogs DEF SameLogs
  <2>2. QED
    BY <1>1, <1>2, <2>1, WorkersHaveABranch, EarlyOnce DEF EarlyInv
<1>3. CASE ~GitWorks(r)
  <2>1. ~EditFile(r)
    BY <1>3 DEF EditFile
  <2>2. UNCHANGED <<there, epoch, git, box, fresh>>
    BY <1>3, <2>1 DEF EndCoding, RunTests, BackFromBase, ResetToBase, CommitSquash
  <2>3. Goto(r, "escaped") \/ Goto(r, "red")
    BY <1>3, <2>1 DEF EndCoding, RunTests, BackFromBase, ResetToBase, CommitSquash, Quietly
  <2>4. QED
    BY <1>1, <2>2, <2>3, EarlyGoes, StepNames
<1>4. QED
  BY <1>2, <1>3

LEMMA EndsAndEarly ==
  ASSUME TypeOK, LogsInv, EarlyInv, strayed \subseteq strayed',
         \/ \E r \in Runs : TearDown(r) \/ Crash(r)
         \/ HumanCommit \/ ReapScratchDir
  PROVE  EarlyInv'
<1>0. step \in [Runs -> Steps] /\ git \in Gits
  BY TypeParts DEF StepTypeOK, DirTypeOK
<1>1. CASE ReapScratchDir \/ \E r \in Runs : TearDown(r)
  BY <1>1, EarlyGone, EmptyLogs DEF ReapScratchDir, TearDown, Blank
<1>2. ASSUME NEW r \in Runs, Crash(r) PROVE EarlyInv'
  <2>1. PICK sound \in BOOLEAN : git' = [git EXCEPT !.intact = @ /\ sound]
    BY <1>2 DEF Crash
  <2>2. /\ git'.branched = git.branched /\ git'.base = git.base /\ git'.main = git.main
        /\ git'.tree = git.tree
    BY <1>0, <2>1 DEF Gits
  <2>3. git'.intact => git.intact
    BY <1>0, <2>1 DEF Gits
  <2>4. UNCHANGED <<there, epoch, box, fresh>> /\ Goto(r, "dead")
    BY <1>2 DEF Crash
  <2>5. QED
    BY <2>2, <2>3, <2>4, EarlyGoes, StepNames, StepNamesStarted
<1>3. CASE HumanCommit
  <2>1. /\ UNCHANGED <<there, epoch, box, fresh, step>> /\ there /\ git.intact
        /\ \A s \in Runs : step[s] \in Over \cup {"idle"}
        /\ git' = CommitTree(edits', "human")
    BY <1>3 DEF HumanCommit, runVars
  <2>2. /\ git'.branched = git.branched /\ git'.base = git.base
        /\ git.onBase => git'.main = Append(git.main, [tree |-> edits', by |-> "human"])
    BY <1>0, <2>1, CommitLogs
  <2>3. CASE git.branched
    BY <2>2, <2>3, EarlyOnce
  <2>4. CASE ~git.branched
    <3>1. git'.main # << >>
      <4>1. git.main \in Seq([tree : 0..MaxEdits, by : Authors])
        BY <1>0 DEF Gits, Logs
      <4>2. git.onBase
        BY <2>4 DEF LogsInv
      <4>3. QED
        BY <2>2, <4>1, <4>2
    <3>2. \A s \in Runs : step'[s] \notin Started /\ ~Founding(s)'
      BY <2>1, StepNamesStarted DEF Over, Founding
    <3>3. QED
      BY <2>2, <3>1, <3>2 DEF EarlyInv
  <2>5. QED
    BY <2>3, <2>4
<1>4. QED
  BY <1>1, <1>2, <1>3

LEMMA StepKeepsEarly ==
  TypeOK /\ BoxInv /\ LogsInv /\ FreshInv /\ EarlyInv /\ [Next]_vars => EarlyInv'
<1> SUFFICES ASSUME TypeOK, BoxInv, LogsInv, FreshInv, EarlyInv, [Next]_vars PROVE EarlyInv'
  OBVIOUS
<1>0. strayed \subseteq strayed' /\ step \in [Runs -> Steps]
  BY StepsKeepHistory, TypeParts DEF HistoryGrows, StepTypeOK
<1>1. ASSUME NEW r \in Runs, NEW next \in Steps, Goto(r, next),
             UNCHANGED <<there, epoch, git, fresh>>,
             box' = box \/ box' = [box EXCEPT ![r] = NoBox],
             next \in Started => step[r] \in Started,
             next \notin {"baseline", "branch"}, next = "container" => ~fresh[r]
      PROVE  EarlyInv'
  BY <1>0, <1>1, EarlyGoes
<1>2. ASSUME NEW r \in Runs, Reconcile(r) PROVE EarlyInv'
  <2>1. CASE LookIntoDirectory(r)
    BY <1>0, <2>1, CheckoutAndEarly
  <2>2. CASE NothingToResume(r) \/ LeaveToHuman(r)
    BY <1>1, <2>2, StepNames, StepNamesStarted DEF NothingToResume, LeaveToHuman, Move, Quietly,
       dirVars
  <2>3. CASE StartOver(r) \/ InspectFails(r)
    BY <1>1, <2>3, StepNames, StepNamesStarted DEF StartOver, InspectFails, Quietly, dirVars
  <2>4. CASE Inspect(r)
    <3>1. /\ UNCHANGED <<there, epoch, git, box>> /\ fresh' = [fresh EXCEPT ![r] = FALSE]
          /\ Goto(r, "leave") \/ Goto(r, "adopt")
      BY <2>4 DEF Inspect, Quietly, dirVars
    <3>2. QED
      BY <1>0, <3>1, EarlyGoes, StepNames, StepNamesStarted
  <2>5. CASE Adopt(r)
    BY <1>1, <2>5, StepNames, StepNamesStarted DEF Adopt, Record, Quietly, dirVars
  <2>6. CASE LeaveReconcile(r)
    <3>1. /\ UNCHANGED <<there, epoch, git, fresh>> /\ box' = [box EXCEPT ![r] = NoBox]
          /\ Goto(r, IF copy[r].resumable THEN "container" ELSE "ended")
          /\ copy[r].resumable => ~fresh[r]
      BY <2>6 DEF LeaveReconcile, Quietly, dirVars, FreshInv
    <3>2. QED
      BY <1>1, <3>1, StepNames, StepNamesStarted
  <2>7. QED
    BY <1>2, <2>1, <2>2, <2>3, <2>4, <2>5, <2>6 DEF Reconcile
<1>3. ASSUME NEW r \in Runs, Inside(r), UNCHANGED <<there, epoch, git, box, fresh>>
      PROVE  EarlyInv'
  <2>1. PICK next \in Locked : Goto(r, next)
    BY <1>3 DEF Inside
  <2>2. next \in Steps /\ step[r] \in Started /\ next \notin {"baseline", "branch", "container"}
    BY <1>3, <2>1 DEF Inside, Steps, Started, Locked, InLoop
  <2>3. QED
    BY <1>1, <1>3, <2>1, <2>2
<1>4. ASSUME NEW r \in Runs, RunStep(r) PROVE EarlyInv'
  <2>1. CASE Materialize(r) \/ CreateContainer(r)
    BY <1>0, <2>1, CheckoutAndEarly
  <2>2. CASE InitBaseline(r) \/ CreateBranch(r)
    BY <1>0, <2>2, FoundingAndEarly
  <2>3. CASE \/ EndCoding(r) \/ RunTests(r) \/ BackFromBase(r) \/ ResetToBase(r)
             \/ CommitSquash(r)
    BY <1>0, <2>3, WorkAndEarly
  <2>4. CASE TearDown(r)
    BY <1>0, <2>4, EndsAndEarly
  <2>5. CASE \/ EnterCoding(r) \/ RecordCommit(r) \/ EnterTesting(r) \/ RouteRed(r)
             \/ EnterReview(r) \/ Approve(r) \/ Reject(r) \/ RecordSquash(r) \/ Open(r)
             \/ WaitForApproval(r)
    <3>1. UNCHANGED <<there, epoch, git, box, fresh>>
      BY <2>5 DEF EnterCoding, RecordCommit, EnterTesting, RouteRed, EnterReview, Approve,
         Reject, RecordSquash, Open, WaitForApproval, dirVars
    <3>2. QED
      BY <1>3, <2>5, <3>1, InsideSteps
  <2>6. CASE AcquireLock(r) \/ LeaveChain(r)
    <3>1. UNCHANGED <<there, epoch, git, box, fresh>>
      BY <2>6 DEF AcquireLock, LeaveChain, dirVars
    <3>2. CASE AcquireLock(r)
      <4>1. Goto(r, "enter") /\ step[r] \in Started
        BY <3>2 DEF AcquireLock, Quietly, Started
      <4>2. QED
        BY <1>1, <3>1, <4>1, StepNames
    <3>3. CASE LeaveChain(r)
      BY <1>1, <3>1, <3>3, StepNames, StepNamesStarted DEF LeaveChain, Quietly
    <3>4. QED
      BY <2>6, <3>2, <3>3
  <2>7. CASE Investigate(r) \/ PersistReport(r) \/ Plan(r)
    <3>1. UNCHANGED <<there, epoch, git, box, fresh>>
      BY <2>7 DEF Investigate, PersistReport, Plan, dirVars
    <3>2. step[r] \in Started
      BY <2>7 DEF Investigate, PersistReport, Plan, Started
    <3>3. \E next \in {"lead", "report", "plan", "lock", "escaped"} : Goto(r, next)
      BY <2>7 DEF Investigate, PersistReport, Plan, Move, Quietly
    <3>4. QED
      BY <1>1, <3>1, <3>2, <3>3, StepNames
  <2>8. QED
    BY <1>2, <1>4, <2>1, <2>2, <2>3, <2>4, <2>5, <2>6, <2>7 DEF RunStep
<1>5. ASSUME NEW r \in Runs, AskResume(r) PROVE EarlyInv'
  <2>1. UNCHANGED <<there, epoch, git, box, fresh>> /\ Goto(r, "look")
    BY <1>5 DEF AskResume, Goto, dirVars
  <2>2. QED
    BY <1>1, <2>1, StepNames, StepNamesStarted
<1>6. ASSUME NEW r \in Runs, EditFile(r) PROVE EarlyInv'
  BY <1>0, <1>6, WorkAndEarly
<1>7. CASE HumanCommit \/ ReapScratchDir \/ \E r \in Runs : Crash(r)
  BY <1>0, <1>7, EndsAndEarly
<1>8. ASSUME NEW r \in Runs, ReapContainer(r) PROVE EarlyInv'
  <2>1. /\ UNCHANGED <<there, epoch, git, fresh, step>> /\ box' = [box EXCEPT ![r] = NoBox]
    BY <1>8 DEF ReapContainer, runVars, dirVars
  <2>2. Goto(r, step[r])
    BY <1>0, <2>1 DEF Goto
  <2>3. \A s \in Runs : Usable(s)' => Usable(s)
    <3>1. box \in [Runs -> Nat]
      BY TypeParts DEF DirTypeOK
    <3>2. QED
      BY <2>1, <3>1 DEF Usable, NoBox
  <2>4. \A s \in Runs : Founding(s)' => Founding(s)
    BY <2>1 DEF Founding
  <2>5. QED
    BY <1>0, <2>1, <2>3, <2>4, EarlyFrame
<1>9. CASE Cancel \/ UNCHANGED vars
  <2>1. UNCHANGED <<there, epoch, git, fresh, step, box>>
    BY <1>9 DEF Cancel, vars, runVars, dirVars
  <2>2. QED
    BY <1>0, <2>1, EarlyFrame DEF Usable, Founding
<1>10. QED
  BY <1>4, <1>5, <1>6, <1>7, <1>8, <1>9 DEF Next
-----------------------------------------------------------------------------
(* The base branch *)

(* While nothing went astray the task's branch is left for the base branch  *)
(* by a run that tests there, which comes back to it.                       *)
BaseInv ==
  strayed = {} =>
    /\ pushedToBase = 0 /\ git.home = "work"
    /\ git.branched /\ git.onBase => \E r \in Runs : step[r] = "onbase"

LEMMA InitBase == Init => BaseInv
BY EmptyLogs DEF Init, BaseInv, Blank

(* A step that leaves no run on the base branch and does not put one there. *)
LEMMA NobodyElseOnBase ==
  ASSUME step \in [Runs -> Steps], LockIsHeldByTheLiving, NEW r \in Runs,
         step[r] \in Working \ {"onbase"}
  PROVE  \A s \in Runs : step[s] # "onbase"
BY DEF LockIsHeldByTheLiving, Working, Locked

(* While nobody is at the base branch, a repository with a branch of the    *)
(* task stands on it.                                                       *)
LEMMA HeadIsOnWork ==
  ASSUME BaseInv, git.branched, strayed = {}, \A s \in Runs : step[s] # "onbase"
  PROVE  ~git.onBase
BY DEF BaseInv

(* HEAD does not change branches, and no run leaves the base branch.        *)
LEMMA BaseFrame ==
  ASSUME BaseInv, pushedToBase' = pushedToBase, strayed' = {} => strayed = {},
         git'.branched = git.branched, git'.onBase = git.onBase, git'.home = git.home,
         \A s \in Runs : step[s] = "onbase" => step'[s] = "onbase"
  PROVE  BaseInv'
BY DEF BaseInv

(* No branch of the task, or HEAD on it.                                    *)
LEMMA BaseAnew ==
  ASSUME BaseInv, pushedToBase' = pushedToBase, strayed' = {} => strayed = {},
         git'.home = "work", ~git'.branched \/ ~git'.onBase
  PROVE  BaseInv'
BY DEF BaseInv

LEMMA CheckoutAndBase ==
  ASSUME TypeOK, BaseInv, strayed \subseteq strayed', NEW r \in Runs,
         \/ Materialize(r) \/ CreateContainer(r) \/ LookIntoDirectory(r) \/ InitBaseline(r)
         \/ CreateBranch(r)
  PROVE  BaseInv'
<1>0. step \in [Runs -> Steps] /\ git \in Gits
  BY TypeParts DEF StepTypeOK, DirTypeOK
<1>1. \A s \in Runs : step[s] = "onbase" => step'[s] = "onbase"
  BY <1>0 DEF Materialize, CreateContainer, LookIntoDirectory, InitBaseline, CreateBranch,
     Quietly, Goto
<1>2. pushedToBase' = pushedToBase /\ (strayed' = {} => strayed = {})
  BY DEF Materialize, CreateContainer, LookIntoDirectory, InitBaseline, CreateBranch, remote
<1>3. CASE git' = git
  BY <1>1, <1>2, <1>3, BaseFrame
<1>4. CASE git' \in {NewCopy, EmptyDir}
  BY <1>2, <1>4, BaseAnew, EmptyLogs DEF Blank
<1>5. CASE git' = NewBranch
  BY <1>0, <1>2, <1>5, BaseAnew, BranchLogs
<1>6. CASE Materialize(r)
  BY <1>4, <1>6 DEF Materialize, BaseInv
<1>7. CASE CreateContainer(r) \/ LookIntoDirectory(r)
  BY <1>3, <1>4, <1>7 DEF CreateContainer, LookIntoDirectory, StartBox
<1>8. CASE CreateBranch(r)
  BY <1>3, <1>5, <1>8 DEF CreateBranch
<1>9. CASE InitBaseline(r)
  <2>1. CASE git' # git /\ ~git.branched
    <3>1. git'.branched = git.branched /\ git'.home = git.home
      BY <1>0, <1>9, <2>1 DEF InitBaseline, OnBase, CommitTree, WithHead, Gits
    <3>2. QED
      BY <1>2, <2>1, <3>1 DEF BaseInv
  <2>2. CASE git' # git /\ git.branched
    <3>1. strayed' = strayed \cup {"base"}
      BY <1>9, <2>2 DEF InitBaseline, StrayedIf
    <3>2. QED
      BY <3>1 DEF BaseInv
  <2>3. QED
    BY <1>3, <2>1, <2>2
<1>10. QED
  BY <1>6, <1>7, <1>8, <1>9

LEMMA WorkAndBase ==
  ASSUME TypeOK, LockIsHeldByTheLiving, EarlyInv, BaseInv, strayed \subseteq strayed',
         NEW r \in Runs,
         \/ EndCoding(r) \/ RunTests(r) \/ BackFromBase(r) \/ ResetToBase(r) \/ CommitSquash(r)
         \/ EditFile(r)
  PROVE  BaseInv'
<1>0. step \in [Runs -> Steps] /\ git \in Gits
  BY TypeParts DEF StepTypeOK, DirTypeOK
<1>1. pushedToBase' = pushedToBase /\ (strayed' = {} => strayed = {})
  BY DEF EndCoding, RunTests, BackFromBase, ResetToBase, CommitSquash, EditFile, remote
<1>2. ASSUME ~BackFromBase(r) PROVE \A s \in Runs : step[s] # "onbase"
  <2>1. step[r] \in Working \ {"onbase"}
    BY <1>2 DEF EndCoding, RunTests, ResetToBase, CommitSquash, EditFile, Working, Locked, InLoop
  <2>2. QED
    BY <1>0, <2>1, NobodyElseOnBase
<1>3. CASE EndCoding(r) \/ ResetToBase(r) \/ CommitSquash(r) \/ EditFile(r)
  <2>1. \A s \in Runs : step[s] # "onbase"
    <3>1. step[r] # "onbase"
      BY <1>3 DEF EndCoding, ResetToBase, CommitSquash, EditFile
    <3>2. QED
      BY <1>2, <3>1 DEF BackFromBase
  <2>2. git'.branched = git.branched /\ git'.onBase = git.onBase /\ git'.home = git.home
    BY <1>0, <1>3 DEF EndCoding, CommitAll, CommitTree, WithHead, ResetToBase, CommitSquash,
         EditFile, Gits
  <2>3. QED
    BY <1>1, <2>1, <2>2, BaseFrame
<1>4. CASE RunTests(r)
  <2>1. (\A s \in Runs : step[s] # "onbase") /\ step[r] = "testing"
    BY <1>2, <1>4 DEF RunTests, BackFromBase
  <2>2. CASE git' = git
    BY <1>1, <2>1, <2>2, BaseFrame
  <2>3. CASE /\ GitWorks(r) /\ Quietly(r, "onbase")
             /\ git' = [OnBase EXCEPT !.home = IF git.onBase THEN "main" ELSE "work"]
    <3>1. step'[r] = "onbase"
      BY <1>0, <2>3 DEF Quietly, Goto
    <3>2. git'.home = IF git.onBase THEN "main" ELSE "work"
      BY <1>0, <2>3, OnBaseKeepsGit DEF Gits
    <3>3. strayed = {} => ~git.onBase
      <4>1. step[r] \in Started
        BY <2>1 DEF Started, Working, Locked, InLoop
      <4>2. QED
        BY <2>1, <2>3, <4>1, HeadIsOnWork, WorkersHaveABranch
    <3>4. QED
      BY <1>1, <3>1, <3>2, <3>3 DEF BaseInv
  <2>4. QED
    BY <1>4, <2>2, <2>3 DEF RunTests
<1>5. CASE BackFromBase(r)
  <2>1. CASE GitWorks(r)
    <3>1. git'.onBase = (git.home = "main") /\ git'.home = git.home
      BY <1>0, <1>5, <2>1 DEF BackFromBase, Gits
    <3>2. QED
      BY <1>1, <3>1 DEF BaseInv
  <2>2. CASE ~GitWorks(r)
    <3>1. git' = git /\ (git.onBase => strayed' = strayed \cup {"base"})
      BY <1>5, <2>2 DEF BackFromBase, StrayedIf
    <3>2. QED
      BY <1>1, <3>1 DEF BaseInv
  <2>3. QED
    BY <2>1, <2>2
<1>6. QED
  BY <1>3, <1>4, <1>5

(* The only push to the base branch is that of a run that stands on it.     *)
LEMMA OpenAndBase ==
  ASSUME TypeOK, LockIsHeldByTheLiving, EarlyInv, BaseInv, NEW r \in Runs, Open(r)
  PROVE  BaseInv'
<1>0. step \in [Runs -> Steps]
  BY TypeParts DEF StepTypeOK
<1>1. step[r] \in Working \ {"onbase"} /\ step[r] \in Started
  BY DEF Open, Started, Working, Locked, InLoop
<1>2. \A s \in Runs : step[s] # "onbase"
  BY <1>0, <1>1, NobodyElseOnBase
<1>3. git' = git /\ strayed' = strayed
  BY DEF Open, dirVars, history
<1>4. strayed = {} => pushedToBase' = pushedToBase
  <2>1. strayed = {} /\ GitWorks(r) => ~git.onBase
    BY <1>1, <1>2, HeadIsOnWork, WorkersHaveABranch
  <2>2. QED
    BY <2>1 DEF Open, PushBase
<1>5. QED
  BY <1>2, <1>3, <1>4 DEF BaseInv

LEMMA EndsAndBase ==
  ASSUME TypeOK, LockIsHeldByTheLiving, BaseInv, strayed \subseteq strayed',
         \/ \E r \in Runs : TearDown(r) \/ Crash(r)
         \/ HumanCommit \/ ReapScratchDir
  PROVE  BaseInv'
<1>0. step \in [Runs -> Steps] /\ git \in Gits
  BY TypeParts DEF StepTypeOK, DirTypeOK
<1>1. CASE ReapScratchDir \/ \E r \in Runs : TearDown(r)
  <2>1. git' = NoGit /\ UNCHANGED <<pushedToBase, strayed>>
    BY <1>1 DEF ReapScratchDir, TearDown, remote
  <2>2. QED
    BY <2>1, BaseAnew, EmptyLogs DEF Blank
<1>2. CASE HumanCommit
  <2>1. git'.branched = git.branched /\ git'.onBase = git.onBase /\ git'.home = git.home
    BY <1>0, <1>2, CommitLogs DEF HumanCommit
  <2>2. UNCHANGED <<step, pushedToBase, strayed>>
    BY <1>2 DEF HumanCommit, runVars, remote
  <2>3. QED
    BY <2>1, <2>2, BaseFrame
<1>3. ASSUME NEW r \in Runs, Crash(r) PROVE BaseInv'
  <2>1. git'.branched = git.branched /\ git'.onBase = git.onBase /\ git'.home = git.home
    BY <1>0, <1>3 DEF Crash, Gits
  <2>2. pushedToBase' = pushedToBase /\ (strayed' = {} => strayed = {})
    BY <1>3 DEF Crash, remote
  <2>3. \A s \in Runs : s # r => step'[s] = step[s]
    BY <1>0, <1>3 DEF Crash, Goto
  <2>4. CASE step[r] = "onbase" /\ git.onBase
    <3>1. strayed' = strayed \cup {"base"}
      BY <1>3, <2>4 DEF Crash, StrayedIf
    <3>2. QED
      BY <3>1 DEF BaseInv
  <2>5. CASE step[r] # "onbase"
    BY <2>1, <2>2, <2>3, <2>5, BaseFrame
  <2>6. CASE ~git.onBase
    BY <2>1, <2>2, <2>6 DEF BaseInv
  <2>7. QED
    BY <2>4, <2>5, <2>6
<1>4. QED
  BY <1>1, <1>2, <1>3

LEMMA StepKeepsBase ==
  TypeOK /\ LockIsHeldByTheLiving /\ EarlyInv /\ BaseInv /\ [Next]_vars => BaseInv'
<1> SUFFICES ASSUME TypeOK, LockIsHeldByTheLiving, EarlyInv, BaseInv, [Next]_vars
             PROVE  BaseInv'
  OBVIOUS
<1>0. step \in [Runs -> Steps] /\ strayed \subseteq strayed'
  BY TypeParts, StepsKeepHistory DEF StepTypeOK, HistoryGrows
<1>1. ASSUME NEW r \in Runs, RunStep(r) PROVE BaseInv'
  <2>1. CASE \/ Materialize(r) \/ CreateContainer(r) \/ LookIntoDirectory(r) \/ InitBaseline(r)
             \/ CreateBranch(r)
    BY <1>0, <2>1, CheckoutAndBase
  <2>2. CASE \/ EndCoding(r) \/ RunTests(r) \/ BackFromBase(r) \/ ResetToBase(r)
             \/ CommitSquash(r)
    BY <1>0, <2>2, WorkAndBase
  <2>3. CASE Open(r)
    BY <2>3, OpenAndBase
  <2>4. CASE TearDown(r)
    BY <1>0, <2>4, EndsAndBase
  <2>5. ASSUME \/ Investigate(r) \/ PersistReport(r) \/ Plan(r) \/ NothingToResume(r)
               \/ StartOver(r) \/ InspectFails(r) \/ LeaveToHuman(r) \/ Inspect(r) \/ Adopt(r)
               \/ LeaveReconcile(r) \/ AcquireLock(r) \/ EnterCoding(r) \/ RecordCommit(r)
               \/ EnterTesting(r) \/ RouteRed(r) \/ EnterReview(r) \/ Approve(r) \/ Reject(r)
               \/ RecordSquash(r) \/ WaitForApproval(r) \/ LeaveChain(r)
        PROVE  BaseInv'
    <3>1. UNCHANGED <<git, pushedToBase, strayed>>
      BY <2>5 DEF Investigate, PersistReport, Plan, NothingToResume, StartOver, InspectFails,
             LeaveToHuman, Inspect, Adopt, LeaveReconcile, AcquireLock, EnterCoding,
             RecordCommit, EnterTesting, RouteRed, EnterReview, Approve, Reject, RecordSquash,
             WaitForApproval, LeaveChain, dirVars, remote, history
    <3>2. step[r] # "onbase"
      BY <2>5 DEF Investigate, PersistReport, Plan, NothingToResume, StartOver, InspectFails,
             LeaveToHuman, Inspect, Adopt, LeaveReconcile, AcquireLock, EnterCoding,
             RecordCommit, EnterTesting, RouteRed, EnterReview, Approve, Reject, RecordSquash,
             WaitForApproval, LeaveChain
    <3>3. \A s \in Runs : s # r => step'[s] = step[s]
      <4>1. Outside(r) \/ Inside(r) \/ AcquireLock(r) \/ LeaveChain(r)
        BY <1>1, OutsideSteps, InsideSteps DEF RunStep
      <4>2. QED
        BY <1>0, <4>1 DEF Outside, Inside, AcquireLock, LeaveChain, Quietly, Goto
    <3>4. QED
      BY <1>0, <3>1, <3>2, <3>3, BaseFrame
  <2>6. QED
    BY <1>1, <2>1, <2>2, <2>3, <2>4, <2>5 DEF RunStep, Reconcile
<1>2. ASSUME NEW r \in Runs, AskResume(r) PROVE BaseInv'
  <2>1. UNCHANGED <<git, pushedToBase, strayed>>
    BY <1>2 DEF AskResume, dirVars, remote, history
  <2>2. \A s \in Runs : step[s] = "onbase" => step'[s] = "onbase"
    BY <1>0, <1>2 DEF AskResume
  <2>3. QED
    BY <1>0, <2>1, <2>2, BaseFrame
<1>3. ASSUME NEW r \in Runs, EditFile(r) PROVE BaseInv'
  BY <1>0, <1>3, WorkAndBase
<1>4. ASSUME NEW r \in Runs, Crash(r) PROVE BaseInv'
  BY <1>0, <1>4, EndsAndBase
<1>5. CASE Cancel \/ \E r \in Runs : ReapContainer(r)
  <2>1. UNCHANGED <<git, pushedToBase, strayed, step>>
    BY <1>5 DEF Cancel, ReapContainer, runVars, dirVars, remote, history
  <2>2. QED
    BY <1>0, <2>1, BaseFrame
<1>6. CASE HumanCommit \/ ReapScratchDir
  BY <1>0, <1>6, EndsAndBase
<1>7. CASE UNCHANGED vars
  <2>1. UNCHANGED <<git, pushedToBase, strayed, step>>
    BY <1>7 DEF vars, runVars, dirVars, remote, history
  <2>2. QED
    BY <1>0, <2>1, BaseFrame
<1>8. QED
  BY <1>1, <1>2, <1>3, <1>4, <1>5, <1>6, <1>7 DEF Next

(* Everything known of the directory while nothing went astray.             *)
Standing == TypeOK /\ LockIsHeldByTheLiving /\ BoxInv /\ LogsInv /\ FreshInv /\ EarlyInv /\ BaseInv

LEMMA InitStanding == Init => Standing
BY InitTypes, InitLock, InitBoxes, InitLogs, InitFresh, InitEarly, InitBase DEF Standing

LEMMA StepKeepsStanding == Standing /\ [Next]_vars => Standing'
<1> SUFFICES ASSUME Standing, [Next]_vars PROVE Standing'
  OBVIOUS
<1>1. TypeOK' /\ LockIsHeldByTheLiving' /\ BoxInv'
  BY StepKeepsTypes, StepKeepsLock, StepKeepsBoxes DEF Standing
<1>2. LogsInv' /\ FreshInv' /\ EarlyInv'
  BY StepKeepsLogs, StepKeepsFresh, StepKeepsEarly DEF Standing
<1>3. BaseInv'
  BY StepKeepsBase DEF Standing
<1>4. QED
  BY <1>1, <1>2, <1>3 DEF Standing

(* What a review has not seen is never pushed to the base branch of the     *)
(* remote, through the baseline, the branch and every stage of any number of*)
(* runs: unless a crash or a failed command left the directory on its base  *)
(* branch, the source was copied over it, or a run went on in it before it  *)
(* had a branch (chain.py:1633-1636, reconcile.py:282, repo.py:105-158).    *)
THEOREM BaseStaysUnpushed == Spec => []BaseIsNotPushed
<1>1. Standing => BaseIsNotPushed
  BY DEF Standing, BaseInv, BaseIsNotPushed
<1>2. QED
  BY <1>1, InitStanding, StepKeepsStanding, PTL DEF Spec

-----------------------------------------------------------------------------
(* Work survives *)

Trees(log) == {log[n].tree : n \in DOMAIN log}

LEMMA TreesGrow ==
  ASSUME NEW log \in Logs, NEW tree, NEW by
  PROVE  Trees(log) \cup {tree} \subseteq Trees(Append(log, [tree |-> tree, by |-> by]))
<1> DEFINE longer == Append(log, [tree |-> tree, by |-> by])
<1>1. log \in Seq([tree : 0..MaxEdits, by : Authors])
  BY DEF Logs
<1>2. Len(log) \in Nat /\ DOMAIN log = 1..Len(log)
  BY <1>1
<1>3. DOMAIN longer = 1..(Len(log) + 1)
  BY <1>1
<1>4. \A n \in 1..Len(log) : longer[n] = log[n]
  BY <1>1
<1>5. longer[Len(log) + 1] = [tree |-> tree, by |-> by]
  BY <1>1
<1> HIDE DEF longer
<1>6. Len(log) + 1 \in DOMAIN longer /\ DOMAIN log \subseteq DOMAIN longer
  BY <1>2, <1>3
<1>7. tree \in Trees(longer)
  BY <1>5, <1>6 DEF Trees
<1>8. Trees(log) \subseteq Trees(longer)
  BY <1>2, <1>4, <1>6 DEF Trees
<1>9. QED
  BY <1>7, <1>8 DEF longer

(* The branch that the commits of the task go to: the base branch until     *)
(* there is one of its own.                                                 *)
Line == IF git.branched THEN git.work ELSE git.main

LEMMA LineIsALog ==
  ASSUME git \in Gits
  PROVE  Line \in Logs
BY DEF Line, Gits

(* Whatever was committed in this checkout is still in the branch, until a  *)
(* squash folds it into one commit.                                         *)
WorkInv == strayed = {} => made \subseteq Trees(Line) \/ GoneOut

LEMMA InitWork == Init => WorkInv
BY DEF Init, WorkInv

LEMMA StepKeepsWork ==
  Standing /\ DeliveryInv /\ WorkInv /\ [Next]_vars => WorkInv'
<1> SUFFICES ASSUME Standing, DeliveryInv, WorkInv, [Next]_vars, strayed' = {}, ~GoneOut'
             PROVE  made' \subseteq Trees(Line')
  BY DEF WorkInv, Trees
<1>0. /\ TypeOK /\ LockIsHeldByTheLiving /\ LogsInv /\ EarlyInv /\ BaseInv
      /\ git \in Gits /\ Line \in Logs /\ step \in [Runs -> Steps]
  BY TypeParts, LineIsALog DEF Standing, DirTypeOK, StepTypeOK
<1>1. strayed = {}
  BY <1>0, StepsKeepHistory DEF HistoryGrows
<1>2. made \subseteq Trees(Line)
  BY <1>0, <1>1, GoneForGood DEF WorkInv
<1>3. CASE SameLogs
  <2>1. Line' = Line
    BY <1>3 DEF SameLogs, Line
  <2>2. QED
    BY <1>2, <1>3, <2>1 DEF SameLogs
<1>4. CASE NewDir \/ DirGone
  BY <1>4 DEF NewDir, DirGone
<1>5. ASSUME NEW r \in Runs, Uncommitted(r) \/ Squashed(r) PROVE FALSE
  <2>1. step[r] \in Delivering /\ step[r] \in Working \ {"onbase"}
    BY <1>5 DEF Uncommitted, Squashed, Delivering, Working, Locked, InLoop
  <2>2. \A s \in Runs : s # r => step[s] \notin Editing
    BY <1>0, <2>1 DEF LockIsHeldByTheLiving, Working, Locked, Editing, InLoop
  <2>3. step[r] \notin Editing
    BY <1>5 DEF Uncommitted, Squashed, Editing, InLoop
  <2>4. GoneOut
    BY <2>1, <2>2, <2>3 DEF DeliveryInv, GoneOut
  <2>5. QED
    BY <1>0, <2>4, GoneForGood
<1>6. ASSUME NEW tree, NEW by, Committed(tree, by), \A s \in Runs : step[s] # "onbase"
      PROVE  made' \subseteq Trees(Line')
  <2>1. git' = CommitTree(tree, by) /\ made' = made \cup {tree}
    BY <1>6 DEF Committed
  <2>2. git.branched => ~git.onBase
    BY <1>0, <1>1, <1>6, HeadIsOnWork
  <2>3. ~git.branched => git.onBase
    BY <1>0 DEF LogsInv
  <2>4. Line' = Append(Line, [tree |-> tree, by |-> by])
    BY <1>0, <2>1, <2>2, <2>3, CommitLogs DEF Line
  <2>5. QED
    BY <1>0, <1>2, <2>1, <2>4, TreesGrow
<1>7. ASSUME NEW r \in Runs, Baselined(r) PROVE made' \subseteq Trees(Line')
  <2>1. ~git.branched /\ made' = made
    BY <1>7 DEF Baselined, StrayedIf
  <2>2. Line' = Append(Line, [tree |-> git.tree, by |-> "agent"])
    BY <1>0, <1>7, <2>1, BaselineLogs DEF Line
  <2>3. QED
    BY <1>0, <1>2, <2>1, <2>2, TreesGrow
<1>8. ASSUME NEW r \in Runs, BranchMade(r) PROVE made' \subseteq Trees(Line')
  <2>1. ~git.branched /\ git' = NewBranch /\ made' = made
    BY <1>8 DEF BranchMade
  <2>2. Line' = Line
    BY <1>0, <2>1, BranchLogs DEF Line
  <2>3. QED
    BY <1>2, <2>1, <2>2
<1>9. ASSUME NEW r \in Runs, step[r] = "coding" PROVE \A s \in Runs : step[s] # "onbase"
  <2>1. step[r] \in Working \ {"onbase"}
    BY <1>9 DEF Working, Locked, InLoop
  <2>2. QED
    BY <1>0, <2>1, NobodyElseOnBase
<1>10. HumanCommit => \A s \in Runs : step[s] # "onbase"
  BY DEF HumanCommit, Over
<1>11. QED
  BY <1>0, <1>3, <1>4, <1>5, <1>6, <1>7, <1>8, <1>9, <1>10, RepoSteps

(* A run in the loop finds in its branch everything that was committed in   *)
(* this checkout, by earlier runs, by a resume's predecessor or by a human, *)
(* whatever crashed in between: reconcile drops no work (reconcile.py:302). *)
THEOREM WorkStaysOnTheBranch == Spec => []WorkIsOnTheBranch
<1> DEFINE Everything == Standing /\ DeliveryInv /\ WorkInv
<1>1. Init => Everything
  BY InitStanding, InitDelivery, InitWork
<1>2. Everything /\ [Next]_vars => Everything'
  BY StepKeepsStanding, StepKeepsDelivery, StepKeepsWork DEF Standing
<1>3. Everything => WorkIsOnTheBranch
  <2> SUFFICES ASSUME Everything, NEW r \in Runs, step[r] \in InLoop \ {"squash"}, lock = r,
                      GitWorks(r), strayed = {}
               PROVE  made \subseteq {Tip[n].tree : n \in DOMAIN Tip}
    BY DEF WorkIsOnTheBranch
  <2>0. /\ TypeOK /\ LockIsHeldByTheLiving /\ EarlyInv /\ BaseInv /\ WorkInv
    BY DEF Standing
  <2>1. /\ step[r] \in Editing /\ step[r] \in Working \ {"onbase"} /\ step[r] \in Started
        /\ step \in [Runs -> Steps]
    BY <2>0, TypeParts DEF Editing, Started, Working, Locked, InLoop, StepTypeOK
  <2>2. \A s \in Runs : step[s] # "onbase"
    BY <2>0, <2>1, NobodyElseOnBase
  <2>3. git.branched
    BY <2>0, <2>1, WorkersHaveABranch
  <2>4. ~git.onBase
    BY <2>0, <2>2, <2>3, HeadIsOnWork
  <2>5. ~GoneOut
    BY <2>1 DEF GoneOut
  <2>6. Tip = Line
    BY <2>3, <2>4 DEF Tip, Line
  <2>7. QED
    BY <2>0, <2>5, <2>6 DEF WorkInv, Trees
<1>4. QED
  BY <1>1, <1>2, <1>3, PTL DEF Spec

-----------------------------------------------------------------------------
(* What a verdict of interference rests on *)

LEMMA EmptyIsAncestor ==
  ASSUME NEW b \in Logs
  PROVE  IsAncestor(<< >>, b)
<1>1. SubSeq(b, 1, 0) = << >>
  BY SubSeqEmpty
<1>2. Len(b) \in Nat
  BY DEF Logs
<1>3. Len(<< >>) = 0
  OBVIOUS
<1>4. QED
  BY <1>1, <1>2, <1>3 DEF IsAncestor

LEMMA AncestorOfItself ==
  ASSUME NEW a \in Logs
  PROVE  IsAncestor(a, a)
<1>1. a \in Seq([tree : 0..MaxEdits, by : Authors])
  BY DEF Logs
<1>2. SubSeq(a, 1, Len(a)) = a /\ Len(a) \in Nat
  BY <1>1, SubSeqFull
<1>3. QED
  BY <1>2 DEF IsAncestor

LEMMA AncestorOfLonger ==
  ASSUME NEW a \in Logs, NEW b \in Logs, NEW e \in [tree : 0..MaxEdits, by : Authors],
         IsAncestor(a, b)
  PROVE  IsAncestor(a, Append(b, e))
<1> DEFINE Entry == [tree : 0..MaxEdits, by : Authors]
           longer == Append(b, e)
<1>1. a \in Seq(Entry) /\ b \in Seq(Entry)
  BY DEF Logs
<1>2. /\ longer \in Seq(Entry) /\ Len(longer) = Len(b) + 1
      /\ \A i \in 1..Len(b) : longer[i] = b[i]
  BY <1>1, AppendProperties
<1>3. Len(a) \in Nat /\ Len(b) \in Nat /\ Len(a) <= Len(b) /\ SubSeq(b, 1, Len(a)) = a
  BY <1>1 DEF IsAncestor
<1> DEFINE part == SubSeq(longer, 1, Len(a))
           first == SubSeq(b, 1, Len(a))
<1> HIDE DEF longer, Entry
<1>4. 1 \in Int /\ Len(a) \in Int /\ Len(a) - 1 + 1 = Len(a)
  BY <1>3
<1>5. \A i \in 1..Len(a) : i \in 1..Len(b) /\ i \in 1..Len(longer) /\ 1 + i - 1 = i
  BY <1>2, <1>3
<1>6. /\ part \in Seq(Entry) /\ Len(part) = Len(a)
      /\ \A i \in 1..Len(a) : part[i] = longer[i]
  <2>1. \A i \in 1..Len(a) : longer[i] \in Entry
    BY <1>2, <1>5, ElementOfSeq
  <2>2. /\ part \in Seq(Entry) /\ Len(part) = IF 1 <= Len(a) THEN Len(a) - 1 + 1 ELSE 0
        /\ \A i \in 1..(Len(a) - 1 + 1) : part[i] = longer[1 + i - 1]
    BY <1>4, <2>1, SubSeqProperties
  <2> HIDE DEF part
  <2>3. QED
    BY <1>3, <1>4, <1>5, <2>2
<1>7. \A i \in 1..Len(a) : first[i] = b[i]
  <2>1. \A i \in 1..Len(a) : b[i] \in Entry
    BY <1>1, <1>5, ElementOfSeq
  <2>2. \A i \in 1..(Len(a) - 1 + 1) : first[i] = b[1 + i - 1]
    BY <1>4, <2>1, SubSeqProperties
  <2> HIDE DEF first
  <2>3. QED
    BY <1>4, <1>5, <2>2
<1>8. first = a
  BY <1>3
<1> HIDE DEF part, first
<1>9. \A i \in 1..Len(a) : part[i] = a[i]
  BY <1>2, <1>5, <1>6, <1>7, <1>8
<1>10. part = a
  BY <1>1, <1>6, <1>9, SeqEqual
<1>11. QED
  BY <1>2, <1>3, <1>10 DEF IsAncestor, longer, part

LEMMA LogsAppended ==
  ASSUME NEW log \in Logs, NEW tree \in Contents, NEW by \in Authors
  PROVE  /\ DOMAIN log \subseteq DOMAIN Append(log, [tree |-> tree, by |-> by])
         /\ \A n \in DOMAIN log : Append(log, [tree |-> tree, by |-> by])[n] = log[n]
         /\ Len(log) + 1 \in DOMAIN Append(log, [tree |-> tree, by |-> by])
         /\ Append(log, [tree |-> tree, by |-> by])[Len(log) + 1].by = by
         /\ Append(log, [tree |-> tree, by |-> by]) # << >>
<1>1. log \in Seq([tree : 0..MaxEdits, by : Authors])
  BY DEF Logs
<1>2. [tree |-> tree, by |-> by] \in [tree : 0..MaxEdits, by : Authors]
  BY DEF Contents
<1> DEFINE e == [tree |-> tree, by |-> by]
<1>3. e.by = by
  OBVIOUS
<1> HIDE DEF e
<1>4. e \in [tree : 0..MaxEdits, by : Authors]
  BY <1>2 DEF e
<1>5. /\ Len(Append(log, e)) = Len(log) + 1 /\ Append(log, e) # << >>
      /\ \A i \in 1..Len(log) : Append(log, e)[i] = log[i]
      /\ Append(log, e)[Len(log) + 1] = e
      /\ Append(log, e) \in Seq([tree : 0..MaxEdits, by : Authors])
  BY <1>1, <1>4, AppendProperties
<1>6. Len(log) \in Nat /\ DOMAIN log = 1..Len(log) /\ DOMAIN Append(log, e) = 1..(Len(log) + 1)
  BY <1>1, <1>5
<1>7. QED
  BY <1>3, <1>5, <1>6 DEF e

(* The branch starts where it left the base branch, which only grows.       *)
ForkInv == Len(git.base) <= Len(git.main) /\ IsAncestor(git.base, git.work)

LEMMA BlankFork ==
  ASSUME NEW g, Blank(g)
  PROVE  Len(g.base) <= Len(g.main) /\ IsAncestor(g.base, g.work)
<1>1. g.base = << >> /\ g.main = << >> /\ g.work = << >>
  BY DEF Blank
<1>2. IsAncestor(<< >>, << >>) /\ Len(<< >>) <= Len(<< >>)
  BY EmptyIsALog, EmptyIsAncestor
<1>3. QED
  BY <1>1, <1>2

LEMMA InitFork == Init => ForkInv
BY EmptyLogs, BlankFork DEF Init, ForkInv

LEMMA LongerLog ==
  ASSUME NEW log \in Logs, NEW tree \in Contents, NEW by \in Authors
  PROVE  /\ Len(Append(log, [tree |-> tree, by |-> by])) = Len(log) + 1 /\ Len(log) \in Nat
         /\ [tree |-> tree, by |-> by] \in [tree : 0..MaxEdits, by : Authors]
<1>1. log \in Seq([tree : 0..MaxEdits, by : Authors])
  BY DEF Logs
<1>2. [tree |-> tree, by |-> by] \in [tree : 0..MaxEdits, by : Authors]
  BY DEF Contents
<1>3. QED
  BY <1>1, <1>2, AppendProperties

LEMMA StepKeepsFork ==
  Standing /\ ForkInv /\ [Next]_vars => ForkInv'
<1> SUFFICES ASSUME Standing, ForkInv, [Next]_vars
             PROVE  Len(git'.base) <= Len(git'.main) /\ IsAncestor(git'.base, git'.work)
  BY DEF ForkInv, IsAncestor
<1>0. /\ TypeOK /\ git \in Gits /\ git.work \in Logs /\ git.main \in Logs /\ git.base \in Logs
      /\ git.tree \in Contents /\ git.staged \in Contents
  BY TypeParts DEF Standing, DirTypeOK, Gits
<1>1. {"bot", "agent", "squash", "human"} \subseteq Authors
  BY DEF Authors
<1>2. CASE SameLogs
  BY <1>2 DEF SameLogs, ForkInv
<1>3. CASE NewDir \/ DirGone
  <2>1. Blank(git')
    BY <1>3, EmptyLogs DEF NewDir, DirGone
  <2>2. PICK g : g = git'
    OBVIOUS
  <2>3. QED
    BY <2>1, <2>2, BlankFork
<1>4. ASSUME NEW r \in Runs, Uncommitted(r) \/ Squashed(r)
      PROVE  Len(git'.base) <= Len(git'.main) /\ IsAncestor(git'.base, git'.work)
  <2>1. git'.base = git.base /\ git'.main = git.main
    BY <1>0, <1>4, SquashLogs
  <2>2. \/ git'.work = git.base
        \/ git'.work = Append(git.base, [tree |-> git.staged, by |-> "squash"])
    BY <1>0, <1>4, SquashLogs
  <2>3. IsAncestor(git.base, git.base)
    BY <1>0, AncestorOfItself
  <2>4. IsAncestor(git.base, Append(git.base, [tree |-> git.staged, by |-> "squash"]))
    <3>1. [tree |-> git.staged, by |-> "squash"] \in [tree : 0..MaxEdits, by : Authors]
      BY <1>0, <1>1, LongerLog
    <3>2. QED
      BY <1>0, <2>3, <3>1, AncestorOfLonger
  <2>5. QED
    BY <2>1, <2>2, <2>3, <2>4 DEF ForkInv
<1>5. ASSUME NEW tree \in Contents, NEW by \in Authors, git'.base = git.base,
             \/ /\ git'.main = Append(git.main, [tree |-> tree, by |-> by])
                /\ git'.work = git.work
             \/ /\ git'.main = git.main
                /\ git'.work = Append(git.work, [tree |-> tree, by |-> by])
      PROVE  Len(git'.base) <= Len(git'.main) /\ IsAncestor(git'.base, git'.work)
  <2>1. CASE git'.work = git.work /\ git'.main = Append(git.main, [tree |-> tree, by |-> by])
    <3>1. Len(git'.main) = Len(git.main) + 1 /\ Len(git.main) \in Nat
      BY <1>0, <2>1, LongerLog
    <3>2. Len(git.base) \in Nat
      BY <1>0 DEF Logs
    <3>3. QED
      BY <1>5, <2>1, <3>1, <3>2 DEF ForkInv
  <2>2. CASE git'.main = git.main /\ git'.work = Append(git.work, [tree |-> tree, by |-> by])
    <3>1. [tree |-> tree, by |-> by] \in [tree : 0..MaxEdits, by : Authors]
      BY <1>0, LongerLog
    <3>2. IsAncestor(git.base, Append(git.work, [tree |-> tree, by |-> by]))
      BY <1>0, <3>1, AncestorOfLonger DEF ForkInv
    <3>3. QED
      BY <1>5, <2>2, <3>2 DEF ForkInv
  <2>3. QED
    BY <1>5, <2>1, <2>2
<1>6. ASSUME NEW tree \in Contents, NEW by \in Authors, Committed(tree, by)
      PROVE  Len(git'.base) <= Len(git'.main) /\ IsAncestor(git'.base, git'.work)
  BY <1>0, <1>5, <1>6, CommitLogs DEF Committed
<1>7. ASSUME NEW r \in Runs, Baselined(r)
      PROVE  Len(git'.base) <= Len(git'.main) /\ IsAncestor(git'.base, git'.work)
  BY <1>0, <1>1, <1>5, <1>7, BaselineLogs
<1>8. ASSUME NEW r \in Runs, BranchMade(r)
      PROVE  Len(git'.base) <= Len(git'.main) /\ IsAncestor(git'.base, git'.work)
  <2>1. git'.base = git.main /\ git'.main = git.main /\ git'.work = git.main
    BY <1>0, <1>8, BranchLogs DEF BranchMade
  <2>2. IsAncestor(git.main, git.main) /\ Len(git.main) \in Nat
    <3>1. git.main \in Logs
      BY <1>0 DEF Gits
    <3>2. IsAncestor(git.main, git.main)
      BY <3>1, AncestorOfItself
    <3>3. Len(git.main) \in Nat
      BY <3>1 DEF Logs
    <3>4. QED
      BY <3>2, <3>3
  <2>3. Len(git'.base) <= Len(git'.main)
    BY <2>1, <2>2
  <2>4. IsAncestor(git'.base, git'.work)
    BY <2>1, <2>2
  <2>5. QED
    BY <2>3, <2>4
<1>9. QED
  BY <1>0, <1>1, <1>2, <1>3, <1>4, <1>6, <1>7, <1>8, RepoSteps

(* The branch has been taken back, or somebody has added to it, in a way    *)
(* that shows: commits on the base branch since the branch left it, a       *)
(* human's commit, a squash or the first half of one.                       *)
Rewritten ==
  \/ git.branched /\ git.main # git.base
  \/ \E n \in DOMAIN Line : Line[n].by \in {"squash", "human"}
  \/ git.branched /\ git.work = git.base /\ GoneOut

(* A commit recorded in this checkout is still in its branch.               *)
Kept(c) ==
  /\ c.at <= epoch
  /\ c # NoCommit /\ c.at = epoch /\ there => IsAncestor(c.log, Line) \/ Rewritten

CopiesInv == Kept(recorded) /\ \A r \in Runs : Kept(copy[r].commit)

LEMMA NoCommitIsKept ==
  ASSUME epoch \in Nat
  PROVE  Kept(NoCommit)
BY DEF Kept, NoCommit

LEMMA InitCopies == Init => CopiesInv
<1> SUFFICES ASSUME Init PROVE CopiesInv
  OBVIOUS
<1>1. ~there /\ epoch \in {0, 1}
  BY DEF Init
<1>2. recorded = NoCommit \/ (recorded.at = 1 /\ epoch = 1)
  BY DEF Init, JustCreated, LeftBehind, NeverRun
<1>3. \A r \in Runs : copy[r].commit = NoCommit
  BY DEF Init, NoCopy
<1>4. Kept(NoCommit)
  BY <1>1, NoCommitIsKept
<1>5. Kept(recorded)
  BY <1>1, <1>2, <1>4 DEF Kept
<1>6. QED
  BY <1>3, <1>4, <1>5 DEF CopiesInv

(* Another commit on the line hides none that is there.                     *)
LEMMA LineGrows ==
  ASSUME git \in Gits, NEW c \in Commits, NEW tree \in Contents, NEW by \in Authors,
         Line' = Append(Line, [tree |-> tree, by |-> by]),
         \/ IsAncestor(c.log, Line)
         \/ by = "human"
         \/ \E n \in DOMAIN Line : Line[n].by \in {"squash", "human"}
  PROVE  IsAncestor(c.log, Line') \/ Rewritten'
<1>0. Line \in Logs /\ c.log \in Logs
  BY LineIsALog DEF Commits
<1>1. CASE IsAncestor(c.log, Line)
  <2>1. [tree |-> tree, by |-> by] \in [tree : 0..MaxEdits, by : Authors]
    BY DEF Contents
  <2>2. IsAncestor(c.log, Append(Line, [tree |-> tree, by |-> by]))
    BY <1>0, <1>1, <2>1, AncestorOfLonger
  <2>3. QED
    BY <2>2
<1>2. CASE \E n \in DOMAIN Line' : Line'[n].by \in {"squash", "human"}
  BY <1>2 DEF Rewritten
<1>3. CASE by = "human"
  BY <1>0, <1>2, <1>3, LogsAppended
<1>4. CASE \E n \in DOMAIN Line : Line[n].by \in {"squash", "human"}
  BY <1>0, <1>2, <1>4, LogsAppended
<1>5. QED
  BY <1>1, <1>3, <1>4

(* No step loses a recorded commit without a trace.                         *)
LEMMA StepKeepsCommits ==
  ASSUME Standing, DeliveryInv, ForkInv, [Next]_vars,
         NEW c \in Commits \cup {NoCommit}, Kept(c)
  PROVE  Kept(c)'
<1>0. /\ TypeOK /\ LockIsHeldByTheLiving /\ LogsInv
      /\ git \in Gits /\ git.work \in Logs /\ git.main \in Logs /\ git.base \in Logs
      /\ git.tree \in Contents /\ git.staged \in Contents
      /\ epoch \in Nat /\ c.at \in Nat
  BY TypeParts DEF Standing, DirTypeOK, Gits, Commits, NoCommit
<1>1. CASE SameLogs
  <2>1. Line' = Line
    BY <1>1 DEF SameLogs, Line
  <2>2. Rewritten => Rewritten'
    BY <1>0, <1>1, <2>1, GoneForGood DEF SameLogs, Rewritten
  <2>3. QED
    BY <1>1, <2>1, <2>2 DEF SameLogs, Kept
<1>2. CASE NewDir
  BY <1>0, <1>2 DEF NewDir, Kept
<1>3. CASE DirGone
  BY <1>3 DEF DirGone, Kept
<1> SUFFICES ASSUME c # NoCommit, c.at = epoch, there, IsAncestor(c.log, Line) \/ Rewritten,
                    UNCHANGED <<there, epoch>>
             PROVE  IsAncestor(c.log, Line') \/ Rewritten'
  <2>1. ASSUME ~SameLogs, ~NewDir, ~DirGone PROVE UNCHANGED <<there, epoch>>
    <3>1. (\E r \in Runs : Baselined(r) \/ BranchMade(r) \/ Uncommitted(r) \/ Squashed(r))
            => UNCHANGED <<there, epoch>>
      BY DEF Baselined, BranchMade, Uncommitted, Squashed
    <3>2. (\E tree, by : Committed(tree, by)) => UNCHANGED <<there, epoch>>
      BY DEF Committed
    <3>3. QED
      BY <1>0, <2>1, <3>1, <3>2, RepoSteps
  <2>2. QED
    BY <1>1, <1>2, <1>3, <2>1 DEF Kept
<1>4. ASSUME NEW r \in Runs, Squashed(r) PROVE Rewritten'
  <2>1. git'.work = Append(git.base, [tree |-> git.staged, by |-> "squash"])
    BY <1>0, <1>4, SquashLogs
  <2>2. "squash" \in Authors
    BY DEF Authors
  <2>3. Len(git.base) + 1 \in DOMAIN git'.work /\ git'.work[Len(git.base) + 1].by = "squash"
    BY <1>0, <2>1, <2>2, LogsAppended
  <2>4. Line' = git'.work
    BY <1>0, <1>4, SquashLogs DEF Line, LogsInv, Squashed
  <2>5. QED
    BY <2>3, <2>4 DEF Rewritten
<1>5. ASSUME NEW r \in Runs, Uncommitted(r) PROVE Rewritten'
  <2>1. git'.work = git.base /\ git'.base = git.base /\ git'.branched
    BY <1>0, <1>5, SquashLogs DEF LogsInv, Uncommitted
  <2>2. step[r] \in Delivering /\ step[r] \in Working \ {"onbase"} /\ step[r] \notin Editing
    BY <1>5 DEF Uncommitted, Delivering, Working, Locked, InLoop, Editing
  <2>3. \A s \in Runs : s # r => step[s] \notin Editing
    BY <1>0, <2>2 DEF LockIsHeldByTheLiving, Working, Locked, Editing, InLoop
  <2>4. GoneOut
    BY <2>2, <2>3 DEF DeliveryInv, GoneOut
  <2>5. QED
    BY <1>0, <2>1, <2>4, GoneForGood DEF Rewritten
<1>6. ASSUME NEW tree \in Contents, NEW by \in Authors, git.branched, git'.branched,
             git'.base = git.base, git'.main = Append(git.main, [tree |-> tree, by |-> by])
      PROVE  Rewritten'
  <2>1. Len(git'.main) = Len(git.main) + 1 /\ Len(git.main) \in Nat
    BY <1>0, <1>6, LongerLog
  <2>2. Len(git.base) \in Nat /\ Len(git.base) <= Len(git.main)
    BY <1>0 DEF Logs, ForkInv
  <2>3. git'.main # git'.base
    BY <1>6, <2>1, <2>2
  <2>4. QED
    BY <1>6, <2>3 DEF Rewritten
<1>7. ASSUME NEW tree \in Contents, NEW by \in Authors, Committed(tree, by),
             by # "human" => ~GoneOut
      PROVE  IsAncestor(c.log, Line') \/ Rewritten'
  <2>0. git' = CommitTree(tree, by) /\ c \in Commits
    BY <1>7 DEF Committed
  <2>1. CASE git.branched /\ git.onBase
    BY <1>0, <1>6, <2>0, <2>1, CommitLogs
  <2>2. CASE git.branched /\ ~git.onBase
    <3>1. /\ git'.main = git.main /\ git'.base = git.base /\ git'.branched
          /\ git'.work = Append(git.work, [tree |-> tree, by |-> by])
      BY <1>0, <2>0, <2>2, CommitLogs
    <3>2. Line' = Append(Line, [tree |-> tree, by |-> by])
      BY <2>2, <3>1 DEF Line
    <3>3. CASE git.main # git.base
      BY <3>1, <3>3 DEF Rewritten
    <3>4. CASE git.main = git.base
      <4>1. \/ IsAncestor(c.log, Line)
            \/ by = "human"
            \/ \E n \in DOMAIN Line : Line[n].by \in {"squash", "human"}
        BY <1>7, <3>4 DEF Rewritten
      <4>2. QED
        BY <1>0, <2>0, <3>2, <4>1, LineGrows
    <3>5. QED
      BY <3>3, <3>4
  <2>3. CASE ~git.branched
    <3>1. git'.main = Append(git.main, [tree |-> tree, by |-> by]) /\ ~git'.branched
      BY <1>0, <2>0, <2>3, CommitLogs DEF LogsInv
    <3>2. Line' = Append(Line, [tree |-> tree, by |-> by])
      BY <2>3, <3>1 DEF Line
    <3>3. QED
      BY <1>0, <2>0, <2>3, <3>2, LineGrows DEF Rewritten
  <2>4. QED
    BY <2>1, <2>2, <2>3
<1>8. ASSUME NEW r \in Runs, Baselined(r) PROVE IsAncestor(c.log, Line') \/ Rewritten'
  <2>0. /\ "agent" \in Authors /\ c \in Commits
        /\ git'.main = Append(git.main, [tree |-> git.tree, by |-> "agent"])
        /\ git'.branched = git.branched /\ git'.base = git.base
    BY <1>0, <1>8, BaselineLogs DEF Authors
  <2>1. CASE git.branched
    BY <1>0, <1>6, <2>0, <2>1
  <2>2. CASE ~git.branched
    <3>1. Line' = Append(Line, [tree |-> git.tree, by |-> "agent"])
      BY <2>0, <2>2 DEF Line
    <3>2. QED
      BY <1>0, <2>0, <2>2, <3>1, LineGrows DEF Rewritten
  <2>3. QED
    BY <2>1, <2>2
<1>9. ASSUME NEW r \in Runs, BranchMade(r) PROVE IsAncestor(c.log, Line') \/ Rewritten'
  <2>1. ~git.branched /\ Line' = Line
    BY <1>0, <1>9, BranchLogs DEF BranchMade, Line
  <2>2. QED
    BY <2>1 DEF Rewritten
<1>10. ASSUME NEW r \in Runs, step[r] = "coding" PROVE ~GoneOut
  BY <1>10 DEF GoneOut, Editing, InLoop
<1>11. {"bot", "agent", "human"} \subseteq Authors
  BY DEF Authors
<1>12. CASE SameLogs
  <2>1. Line' = Line
    BY <1>12 DEF SameLogs, Line
  <2>2. QED
    BY <1>0, <1>12, <2>1, GoneForGood DEF SameLogs, Rewritten
<1>13. CASE NewDir \/ DirGone
  BY <1>0, <1>13 DEF NewDir, DirGone
<1>14. QED
  BY <1>0, <1>4, <1>5, <1>7, <1>8, <1>9, <1>10, <1>11, <1>12, <1>13, RepoSteps

(* Where a commit in the row or in a copy may come from.                    *)
FromBefore(c) ==
  \/ c = recorded \/ c = NoCommit
  \/ \E s \in Runs : c = copy[s].commit
  \/ c = CommitAt(Tip) /\ UNCHANGED dirVars

LEMMA CommitsComeFrom ==
  ASSUME TypeOK, [Next]_vars
  PROVE  FromBefore(recorded') /\ \A s \in Runs : FromBefore(copy'[s].commit)
<1>0. copy \in [Runs -> Copies]
  BY TypeParts DEF RunTypeOK
<1>1. CASE recorded' = recorded /\ copy' = copy
  BY <1>1 DEF FromBefore
<1>2. ASSUME NEW r \in Runs, RecordCommit(r) \/ RecordSquash(r)
      PROVE  FromBefore(recorded') /\ copy' = copy
  BY <1>2 DEF RecordCommit, RecordSquash, Record, Quietly, row, FromBefore
<1>3. ASSUME NEW r \in Runs, Adopt(r)
      PROVE  FromBefore(recorded') /\ \A s \in Runs : FromBefore(copy'[s].commit)
  <2>1. copy' = [copy EXCEPT ![r].resumable = ~overtaken[r]]
    BY <1>3 DEF Adopt
  <2>2. \A s \in Runs : copy'[s].commit = copy[s].commit
    BY <1>0, <2>1 DEF Copies
  <2>3. recorded' = recorded \/ recorded' = copy[r].commit
    BY <1>3 DEF Adopt, Record, Quietly, row
  <2>4. QED
    BY <2>2, <2>3 DEF FromBefore
<1>4. ASSUME NEW r \in Runs, AskResume(r)
      PROVE  FromBefore(recorded') /\ \A s \in Runs : FromBefore(copy'[s].commit)
  <2>1. copy' = [copy EXCEPT ![r] =
                   [commit |-> recorded, reported |-> reported, resumable |-> FALSE]]
    BY <1>4 DEF AskResume
  <2>2. \A s \in Runs : copy'[s].commit = IF s = r THEN recorded ELSE copy[s].commit
    BY <1>0, <2>1 DEF Copies
  <2>3. QED
    BY <1>4, <2>2 DEF AskResume, row, FromBefore
<1>5. ASSUME NEW r \in Runs, StartOver(r) \/ LeaveReconcile(r)
      PROVE  FromBefore(recorded') /\ \A s \in Runs : FromBefore(copy'[s].commit)
  <2>1. PICK b \in BOOLEAN : copy' = [copy EXCEPT ![r] = [NoCopy EXCEPT !.resumable = b]]
    BY <1>0, <1>5 DEF StartOver, LeaveReconcile, Copies
  <2>2. \A s \in Runs : copy'[s].commit = IF s = r THEN NoCommit ELSE copy[s].commit
    BY <1>0, <2>1 DEF Copies, NoCopy
  <2>3. QED
    BY <1>5, <2>2 DEF StartOver, LeaveReconcile, Quietly, row, FromBefore
<1>6. ASSUME NEW r \in Runs, Inspect(r)
      PROVE  FromBefore(recorded') /\ \A s \in Runs : FromBefore(copy'[s].commit)
  <2>1. PICK b : copy' = [copy EXCEPT ![r] = [commit |-> CommitAt(Tip), reported |-> TRUE,
                                             resumable |-> b]]
    BY <1>6 DEF Inspect
  <2>2. \A s \in Runs : copy'[s].commit = IF s = r THEN CommitAt(Tip) ELSE copy[s].commit
    BY <1>0, <2>1 DEF Copies
  <2>3. QED
    BY <1>6, <2>2 DEF Inspect, Quietly, row, FromBefore
<1>7. ASSUME NEW r \in Runs, RunStep(r), ~RecordCommit(r), ~RecordSquash(r), ~Adopt(r),
             ~StartOver(r), ~LeaveReconcile(r), ~Inspect(r)
      PROVE  recorded' = recorded /\ copy' = copy
  <2>1. CASE \/ Materialize(r) \/ CreateContainer(r) \/ InitBaseline(r) \/ CreateBranch(r)
             \/ PersistReport(r) \/ AcquireLock(r) \/ EndCoding(r) \/ RunTests(r) \/ BackFromBase(r)
             \/ LeaveChain(r) \/ TearDown(r) \/ LookIntoDirectory(r) \/ InspectFails(r)
    BY <2>1 DEF Materialize, CreateContainer, InitBaseline, CreateBranch, PersistReport,
           AcquireLock, EndCoding, RunTests, BackFromBase, LeaveChain, TearDown, LookIntoDirectory,
           InspectFails, Quietly, row
  <2>2. CASE \/ Investigate(r) \/ Plan(r) \/ EnterCoding(r) \/ EnterTesting(r)
             \/ EnterReview(r) \/ Approve(r) \/ WaitForApproval(r) \/ NothingToResume(r)
             \/ LeaveToHuman(r)
    BY <2>2 DEF Investigate, Plan, EnterCoding, EnterTesting, EnterReview, Approve,
           WaitForApproval, NothingToResume, LeaveToHuman, Move, Quietly, row
  <2>3. CASE RouteRed(r) \/ Reject(r)
    BY <2>3 DEF RouteRed, Reject, TryAgain, GiveUp, Move, Quietly, row
  <2>4. CASE ResetToBase(r) \/ CommitSquash(r) \/ Open(r)
    BY <2>4 DEF ResetToBase, CommitSquash, Open, Move, Quietly, row
  <2>5. QED
    BY <1>7, <2>1, <2>2, <2>3, <2>4 DEF RunStep, Reconcile
<1>8. ASSUME NEW r \in Runs, EditFile(r) \/ Crash(r) \/ ReapContainer(r)
      PROVE  recorded' = recorded /\ copy' = copy
  BY <1>8 DEF EditFile, Crash, ReapContainer, row, runVars
<1>9. CASE Cancel \/ HumanCommit \/ ReapScratchDir \/ UNCHANGED vars
  BY <1>1, <1>9 DEF Cancel, HumanCommit, ReapScratchDir, vars, row, runVars
<1>10. QED
  BY <1>1, <1>2, <1>3, <1>4, <1>5, <1>6, <1>7, <1>8, <1>9 DEF Next, RunStep, FromBefore

LEMMA TipIsKept ==
  ASSUME TypeOK, LogsInv, ForkInv, NEW c, c = CommitAt(Tip)
  PROVE  Kept(c)
<1>0. /\ git \in Gits /\ git.work \in Logs /\ git.main \in Logs /\ epoch \in Nat
      /\ Line \in Logs
  BY TypeParts, LineIsALog DEF DirTypeOK, Gits
<1>1. c.log = Tip /\ c.at <= epoch
  BY <1>0 DEF CommitAt
<1>2. CASE Tip = Line
  BY <1>0, <1>1, <1>2, AncestorOfItself DEF Kept
<1>3. CASE git.branched /\ git.onBase /\ git.main = git.base
  BY <1>1, <1>3 DEF Tip, Line, Kept, ForkInv
<1>4. CASE git.branched /\ git.main # git.base
  BY <1>1, <1>4 DEF Kept, Rewritten
<1>5. QED
  BY <1>2, <1>3, <1>4 DEF Tip, Line, LogsInv

LEMMA StepKeepsCopies ==
  Standing /\ DeliveryInv /\ ForkInv /\ CopiesInv /\ [Next]_vars => CopiesInv'
<1> SUFFICES ASSUME Standing, DeliveryInv, ForkInv, CopiesInv, [Next]_vars
             PROVE  CopiesInv'
  OBVIOUS
<1>0. TypeOK /\ LogsInv /\ epoch \in Nat /\ Tip \in Logs
  BY TypeParts, TipIsALog DEF Standing, DirTypeOK
<1>1. ASSUME NEW c, FromBefore(c) PROVE c \in Commits \cup {NoCommit} /\ Kept(c)
  <2>1. CASE c = recorded
    BY <1>0, <2>1, TypeParts DEF CopiesInv, RowTypeOK
  <2>2. CASE c = NoCommit
    BY <1>0, <2>2, NoCommitIsKept
  <2>3. ASSUME NEW s \in Runs, c = copy[s].commit PROVE c \in Commits \cup {NoCommit} /\ Kept(c)
    BY <1>0, <2>3, TypeParts DEF CopiesInv, RunTypeOK, Copies
  <2>4. CASE c = CommitAt(Tip)
    BY <1>0, <2>4, TipIsKept, CommitOfLog
  <2>5. QED
    BY <1>1, <2>1, <2>2, <2>3, <2>4 DEF FromBefore
<1>2. ASSUME NEW c \in Commits \cup {NoCommit}, Kept(c) PROVE Kept(c)'
  BY <1>2, StepKeepsCommits
<1>3. Kept(recorded)'
  <2>1. PICK c : c = recorded'
    OBVIOUS
  <2>2. Kept(c)'
    BY <1>0, <2>1, <1>1, <1>2, CommitsComeFrom
  <2>3. QED
    BY <2>1, <2>2 DEF Kept, Rewritten, GoneOut
<1>4. ASSUME NEW r \in Runs PROVE Kept(copy[r].commit)'
  <2>1. PICK c : c = copy'[r].commit
    OBVIOUS
  <2>2. Kept(c)'
    BY <1>0, <2>1, <1>1, <1>2, CommitsComeFrom
  <2>3. QED
    BY <2>1, <2>2 DEF Kept, Rewritten, GoneOut
<1>5. QED
  BY <1>3, <1>4 DEF CopiesInv

(* When reconcile (reconcile.py:325) takes the branch for overwritten by    *)
(* somebody else, a human did commit there, or AMOP left it on the base     *)
(* branch, committed there beside it, or was amid a squash: it never        *)
(* mistakes its own edits, adopted heads, the baseline the branch was made  *)
(* of or a copy of another checkout for interference.                       *)
THEOREM VerdictsHaveCause == Spec => []ForeignVerdictHasCause
<1> DEFINE Everything == Standing /\ DeliveryInv /\ ForkInv /\ CopiesInv
<1>1. Init => Everything
  BY InitStanding, InitDelivery, InitFork, InitCopies
<1>2. Everything /\ [Next]_vars => Everything'
  <2>1. Standing => TypeOK /\ LockIsHeldByTheLiving
    BY DEF Standing
  <2>2. QED
    BY <2>1, StepKeepsStanding, StepKeepsDelivery, StepKeepsFork, StepKeepsCopies
<1>3. Everything => ForeignVerdictHasCause
  <2> SUFFICES ASSUME Everything, NEW r \in Runs, Verdict(r) = "D", ~git.onBase,
                      \A n \in DOMAIN Tip : Tip[n].by \notin {"human", "squash"},
                      git.work # git.base, git.main = git.base
               PROVE  FALSE
    BY DEF ForeignVerdictHasCause
  <2> DEFINE c == copy[r].commit
  <2>0. /\ Tip = git.work /\ git.work \in Logs /\ git.branched /\ Line = Tip
        /\ c \in Commits \cup {NoCommit}
    BY TypeParts DEF Standing, Tip, Line, LogsInv, DirTypeOK, Gits, RunTypeOK, Copies
  <2>1. /\ GitWorks(r) /\ c # NoCommit /\ CommitExists(c)
        /\ ~(IsAncestor(c.log, Tip) /\ AdvancedByAmopOnly(c.log))
    BY DEF Verdict
  <2>2. c.log \in Logs
    BY <2>0, <2>1 DEF Commits
  <2>3. AdvancedByAmopOnly(c.log)
    <3>1. Len(c.log) \in Nat /\ Len(Tip) \in Nat /\ DOMAIN Tip = 1..Len(Tip)
      BY <2>0, <2>2 DEF Logs
    <3>2. (Len(c.log) + 1)..Len(Tip) \subseteq DOMAIN Tip
      BY <3>1, SMT
    <3>3. QED
      BY <3>2 DEF AdvancedByAmopOnly
  <2>4. CASE c.at = epoch
    <3>1. there
      BY <2>1 DEF GitWorks, Usable
    <3>2. ~Rewritten
      BY <2>0 DEF Rewritten
    <3>3. IsAncestor(c.log, Tip)
      BY <2>0, <2>1, <2>4, <3>1, <3>2 DEF CopiesInv, Kept
    <3>4. QED
      BY <2>1, <2>3, <3>3
  <2>5. CASE c = CommitAt(<< >>)
    <3>1. c.log = << >>
      BY <2>5 DEF CommitAt
    <3>2. QED
      BY <2>0, <2>1, <2>3, <3>1, EmptyIsAncestor
  <2>6. QED
    BY <2>1, <2>4, <2>5 DEF CommitExists
<1>4. QED
  BY <1>1, <1>2, <1>3, PTL DEF Spec

-----------------------------------------------------------------------------
(* What is proposed was reviewed *)

(* From the end of the coder's turn to the squash everything is committed;  *)
(* then what is staged, and at last the one commit, is what was reviewed.   *)
Checked == {"record", "cap", "testing", "passed", "review", "squash"}
Sealed == {"resquash", "open"}
Claimed == Checked \cup {"squashing"} \cup Sealed

Reviewed == seen.passed \cap seen.approved

OneSquash(log) ==
  /\ Content(log) \in Reviewed
  /\ Len(log) <= 1 /\ \A m \in DOMAIN log : log[m].by = "squash"

Vouched(r) ==
  /\ step[r] \in Checked => git.tree = Content(git.work)
  /\ step[r] \in {"passed", "review", "squash"} => git.tree \in seen.passed
  /\ step[r] = "squash" => git.tree \in seen.approved
  /\ step[r] = "squashing" => git.staged \in Reviewed
  /\ step[r] \in Sealed => OneSquash(git.work)

(* The directory a run has mounted holds what the run vouches for.          *)
Holds(r) ==
  step[r] \in Claimed /\ Usable(r) => git.ready /\ (~git.onBase => Vouched(r))

ReviewInv ==
  strayed \cap {"copy", "early"} = {} =>
    /\ \A n \in DOMAIN pulls : OneSquash(pulls[n].log)
    /\ \A r \in Runs : Holds(r)

LEMMA InitReview == Init => ReviewInv
BY DEF Init, ReviewInv, Holds, Claimed, Checked, Sealed

LEMMA ContentAppended ==
  ASSUME NEW log \in Logs, NEW tree \in Contents, NEW by \in Authors
  PROVE  Content(Append(log, [tree |-> tree, by |-> by])) = tree
<1>1. log \in Seq([tree : 0..MaxEdits, by : Authors])
  BY DEF Logs
<1> DEFINE e == [tree |-> tree, by |-> by]
<1>2. e.tree = tree
  OBVIOUS
<1>3. e \in [tree : 0..MaxEdits, by : Authors]
  BY DEF Contents
<1> HIDE DEF e
<1>4. /\ Len(Append(log, e)) = Len(log) + 1 /\ Append(log, e) # << >>
      /\ Append(log, e)[Len(log) + 1] = e
  BY <1>1, <1>3, AppendProperties
<1>5. Len(log) + 1 \in Nat /\ Len(Append(log, e)) = Len(log) + 1
  BY <1>1, <1>4
<1>6. QED
  BY <1>2, <1>4, <1>5 DEF Content, e

LEMMA SealsLast ==
  ASSUME HistoryGrows, NEW log, OneSquash(log)
  PROVE  OneSquash(log)'
BY DEF HistoryGrows, OneSquash, Reviewed, Content

(* A step that leaves run and directory where they are.                     *)
LEMMA ReviewFrame ==
  ASSUME HistoryGrows, NEW r \in Runs, Holds(r), step'[r] = step[r], Usable(r)' => Usable(r),
         git'.ready = git.ready, git'.onBase = git.onBase, git'.work = git.work,
         git'.tree = git.tree, git'.staged = git.staged
  PROVE  Holds(r)'
<1> SUFFICES ASSUME step[r] \in Claimed, Usable(r), ~git.onBase, Vouched(r), git.ready
             PROVE  Vouched(r)'
  BY DEF Holds
<1>1. Content(git.work)' = Content(git.work)
  BY DEF Content
<1>2. seen.passed \subseteq seen'.passed /\ Reviewed \subseteq Reviewed'
      /\ seen.approved \subseteq seen'.approved
  BY DEF HistoryGrows, Reviewed
<1>3. step[r] \in Sealed => OneSquash(git.work)'
  <2>1. ASSUME OneSquash(git.work) PROVE OneSquash(git.work)'
    BY <2>1, <1>1, <1>2 DEF OneSquash
  <2>2. QED
    BY <2>1 DEF Vouched
<1>4. QED
  BY <1>1, <1>2, <1>3 DEF Vouched

(* The steps on the way from the coder's turn to the pull request.          *)
LEMMA OwnStepsHold ==
  ASSUME TypeOK, HistoryGrows, git.base = << >>, NEW r \in Runs, Holds(r),
         \/ EndCoding(r) \/ RecordCommit(r) \/ EnterTesting(r) \/ RunTests(r) \/ EnterReview(r)
         \/ Approve(r) \/ ResetToBase(r) \/ CommitSquash(r) \/ RecordSquash(r)
  PROVE  Holds(r)'
<1> SUFFICES ASSUME step'[r] \in Claimed, Usable(r)'
             PROVE  git'.ready /\ (~git'.onBase => Vouched(r)')
  BY DEF Holds
<1> USE DEF Claimed, Checked, Sealed
<1>0. /\ step \in [Runs -> Steps] /\ git \in Gits /\ git.work \in Logs /\ git.tree \in Contents
      /\ seen \in [passed : SUBSET Contents, approved : SUBSET Contents]
  BY TypeParts DEF StepTypeOK, DirTypeOK, HistoryTypeOK, Gits
<1>1. Usable(r)
  BY DEF EndCoding, RecordCommit, EnterTesting, RunTests, EnterReview, Approve, ResetToBase,
         CommitSquash, RecordSquash, Usable, dirVars
<1>2. seen.passed \subseteq seen'.passed /\ Reviewed \subseteq Reviewed'
      /\ seen.approved \subseteq seen'.approved
  BY DEF HistoryGrows, Reviewed
<1>3. CASE EndCoding(r)
  <2>1. GitWorks(r) /\ git' = CommitAll /\ step'[r] = "record"
    BY <1>0, <1>3 DEF EndCoding, Quietly, Goto
  <2>2. CASE HasChanges
    <3>1. git' = CommitTree(git.tree, "agent")
      BY <2>1, <2>2 DEF CommitAll
    <3>2. git'.tree = git.tree
      BY <1>0, <3>1 DEF CommitTree, WithHead, Gits
    <3>3. git'.ready = git.ready /\ git'.onBase = git.onBase
      BY <1>0, <3>1, CommitLogs
    <3>4. ~git.onBase => git'.work = Append(git.work, [tree |-> git.tree, by |-> "agent"])
      BY <1>0, <3>1, CommitLogs
    <3>5. "agent" \in Authors
      BY DEF Authors
    <3>6. ~git.onBase => Content(git'.work) = git.tree
      <4>1. Content(Append(git.work, [tree |-> git.tree, by |-> "agent"])) = git.tree
        BY <1>0, <3>5, ContentAppended
      <4>2. SUFFICES ASSUME ~git.onBase PROVE Content(git'.work) = git.tree
        OBVIOUS
      <4>3. git'.work = Append(git.work, [tree |-> git.tree, by |-> "agent"])
        BY <3>4, <4>2
      <4>4. QED
        BY <4>1, <4>3
    <3>7. Content(git.work)' = Content(git'.work)
      BY DEF Content
    <3>8. ~git.onBase => Vouched(r)'
      BY <2>1, <3>2, <3>6, <3>7 DEF Vouched
    <3>9. QED
      BY <2>1, <3>3, <3>8 DEF GitWorks
  <2>3. CASE ~HasChanges
    <3>1. git' = git
      BY <2>1, <2>3 DEF CommitAll
    <3>2. QED
      BY <2>1, <2>3, <3>1 DEF Vouched, GitWorks, HasChanges, Tip, Content
  <2>4. QED
    BY <2>2, <2>3
<1>4. CASE RecordCommit(r) \/ EnterTesting(r) \/ EnterReview(r)
  <2>1. git' = git
    BY <1>4 DEF RecordCommit, EnterTesting, EnterReview, dirVars
  <2>2. /\ step[r] \in {"record", "cap", "passed"}
        /\ step'[r] \in {"cap", "testing", "review"}
        /\ step'[r] = "review" => step[r] = "passed"
    BY <1>0, <1>4 DEF RecordCommit, EnterTesting, EnterReview, Record, Move, Quietly, Goto
  <2>3. QED
    BY <1>1, <1>2, <2>1, <2>2 DEF Holds, Vouched, Content
<1>5. CASE RunTests(r)
  <2>1. /\ step[r] = "testing" /\ step'[r] = "passed" /\ git' = git
        /\ seen' = [seen EXCEPT !.passed = @ \cup {git.tree}]
    BY <1>0, <1>5 DEF RunTests, Quietly, Goto
  <2>2. git.tree \in seen'.passed
    BY <1>0, <2>1
  <2>3. QED
    BY <1>1, <2>1, <2>2 DEF Holds, Vouched, Content
<1>6. CASE Approve(r)
  <2>1. /\ step[r] = "review" /\ step'[r] = "squash" /\ git' = git
        /\ seen' = [seen EXCEPT !.approved = @ \cup {IF git.onBase THEN 0 ELSE git.tree}]
    BY <1>0, <1>6 DEF Approve, Move, Quietly, Goto, dirVars
  <2>2. ~git.onBase => git.tree \in seen'.approved
    BY <1>0, <2>1
  <2>3. QED
    BY <1>1, <1>2, <2>1, <2>2 DEF Holds, Vouched, Content
<1>7. CASE ResetToBase(r)
  <2>1. step[r] = "squash" /\ git.ready /\ (~git.onBase => Vouched(r))
    BY <1>1, <1>7 DEF ResetToBase, Holds
  <2>2. CASE git' = git /\ step'[r] = "open" /\ (git.onBase \/ git.work = git.base)
    <3>1. ~git.onBase => /\ Content(git.work) \in Reviewed
                         /\ Len(git.work) = 0 /\ DOMAIN git.work = {}
      BY <2>1, <2>2 DEF Vouched, Reviewed
    <3>2. ~git.onBase => OneSquash(git.work)'
      BY <1>2, <2>2, <3>1 DEF OneSquash, Content
    <3>3. QED
      BY <2>1, <2>2, <3>2 DEF Vouched
  <2>3. CASE Uncommitted(r)
    <3>1. /\ git'.ready = git.ready /\ git'.staged = Content(git.work) /\ step'[r] = "squashing"
          /\ ~git.onBase
      BY <1>0, <2>3 DEF Uncommitted, Gits, Goto
    <3>2. git'.staged \in Reviewed
      BY <2>1, <3>1 DEF Vouched, Reviewed
    <3>3. QED
      BY <1>2, <2>1, <3>1, <3>2 DEF Vouched
  <2>4. QED
    BY <1>0, <1>7, <2>2, <2>3 DEF ResetToBase, Uncommitted, GitWorks, Tip, Quietly, Goto
<1>8. CASE CommitSquash(r)
  <2>1. Squashed(r) /\ step'[r] = "resquash"
    BY <1>0, <1>8 DEF CommitSquash, Squashed, GitWorks, Quietly, Goto, history
  <2>2. step[r] = "squashing" /\ git.ready /\ ~git.onBase /\ git.staged \in Reviewed
    BY <1>1, <2>1 DEF Squashed, Holds, Vouched
  <2>3. git'.ready = git.ready /\ git'.work = <<[tree |-> git.staged, by |-> "squash"]>>
    <3>1. git'.ready = git.ready
          /\ git'.work = Append(git.base, [tree |-> git.staged, by |-> "squash"])
      BY <1>0, <2>1, SquashLogs
    <3>2. QED
      BY <3>1
  <2>4. /\ Len(git'.work) = 1 /\ git'.work[1].tree = git.staged /\ git'.work # << >>
        /\ \A m \in DOMAIN git'.work : git'.work[m].by = "squash"
    BY <2>3
  <2>5. OneSquash(git.work)'
    BY <1>2, <2>2, <2>4 DEF OneSquash, Content
  <2>6. QED
    BY <2>1, <2>2, <2>3, <2>5 DEF Vouched
<1>9. CASE RecordSquash(r)
  <2>1. git' = git /\ step[r] = "resquash" /\ step'[r] = "open"
    BY <1>0, <1>9 DEF RecordSquash, Record, Quietly, Goto, dirVars
  <2>2. ~git.onBase => OneSquash(git.work)
    BY <1>1, <2>1 DEF Holds, Vouched
  <2>3. OneSquash(git.work) => OneSquash(git.work)'
    BY <1>2, <2>1 DEF OneSquash, Content
  <2>4. QED
    BY <1>1, <2>1, <2>2, <2>3 DEF Holds, Vouched
<1>10. QED
  BY <1>3, <1>4, <1>5, <1>6, <1>7, <1>8, <1>9

(* The other steps of a run lead nowhere where it vouches for anything.     *)
LEMMA OwnStepsElsewhere ==
  ASSUME TypeOK, NEW r \in Runs,
         \/ Outside(r) \/ AcquireLock(r) \/ EnterCoding(r) \/ BackFromBase(r) \/ RouteRed(r)
         \/ Reject(r) \/ Open(r) \/ WaitForApproval(r) \/ LeaveChain(r) \/ Crash(r)
  PROVE  step'[r] \notin Claimed
<1> USE DEF Claimed, Checked, Sealed
<1>0. step \in [Runs -> Steps]
  BY TypeParts DEF StepTypeOK
<1>1. CASE Outside(r)
  BY <1>0, <1>1 DEF Outside, Goto, Working, Locked, InLoop
<1>2. CASE AcquireLock(r) \/ BackFromBase(r) \/ LeaveChain(r) \/ Crash(r)
  BY <1>0, <1>2 DEF AcquireLock, BackFromBase, LeaveChain, Crash, Quietly, Goto
<1>3. CASE EnterCoding(r) \/ Open(r) \/ WaitForApproval(r)
  BY <1>0, <1>3 DEF EnterCoding, Open, WaitForApproval, Move, Quietly, Goto
<1>4. CASE RouteRed(r) \/ Reject(r)
  BY <1>0, <1>4 DEF RouteRed, Reject, TryAgain, GiveUp, Move, Quietly, Goto
<1>5. QED
  BY <1>1, <1>2, <1>3, <1>4

(* What somebody else does while a run vouches for its directory.           *)
LEMMA OthersHold ==
  ASSUME Standing, HistoryGrows, NEW r \in Runs, Holds(r),
         strayed' \cap {"copy", "early"} = {}, step[r] \in Claimed, NEW s \in Runs, s # r,
         RunStep(s) \/ AskResume(s) \/ EditFile(s) \/ Crash(s)
  PROVE  Holds(r)'
<1>0. /\ step \in [Runs -> Steps] /\ git \in Gits /\ box \in [Runs -> Nat] /\ epoch \in Nat
      /\ there \in BOOLEAN /\ TypeOK /\ BoxInv
  BY TypeParts DEF StepTypeOK, DirTypeOK, Standing
<1>1. step[s] \notin Working
  BY DEF Standing, LockIsHeldByTheLiving, Working, Locked, InLoop, Claimed, Checked, Sealed
<1>2. Outside(s) \/ AcquireLock(s) \/ LeaveChain(s) \/ Crash(s)
  <2>1. ~Inside(s) /\ ~EditFile(s)
    BY <1>1 DEF Inside, EditFile, Working, Locked, InLoop
  <2>2. QED
    BY <2>1, OutsideSteps, InsideSteps DEF RunStep
<1>3. step'[r] = step[r]
  BY <1>0, <1>2 DEF Outside, AcquireLock, LeaveChain, Crash, Quietly, Goto
<1>4. CASE ~there' \/ box'[r] # epoch'
  BY <1>4 DEF Holds, Usable
<1>5. ASSUME there' = there, epoch' = epoch, box'[r] = box[r],
             git'.ready = git.ready, git'.onBase = git.onBase, git'.work = git.work,
             git'.tree = git.tree, git'.staged = git.staged
      PROVE  Holds(r)'
  BY <1>3, <1>5, ReviewFrame DEF Usable
<1>6. CASE ~there /\ epoch' = epoch + 1 /\ box'[r] = box[r]
  <2>1. box[r] # epoch + 1
    BY <1>0 DEF BoxInv
  <2>2. QED
    BY <1>4, <1>6, <2>1
<1>7. CASE Materialize(s)
  <2>1. ~there
    BY <1>7 DEF Materialize
  <2>2. QED
    BY <1>6, <1>7, <2>1 DEF Materialize
<1>8. CASE CreateContainer(s) \/ LookIntoDirectory(s)
  <2>1. CASE StartBox(s)
    <3>1. box'[r] = box[r]
      BY <1>0, <2>1 DEF StartBox
    <3>2. QED
      BY <1>5, <1>6, <2>1, <3>1 DEF StartBox
  <2>2. CASE UNCHANGED <<there, epoch, git, box>>
    BY <1>5, <2>2
  <2>3. QED
    BY <1>8, <2>1, <2>2 DEF CreateContainer, LookIntoDirectory
<1>9. CASE InitBaseline(s)
  <2>1. UNCHANGED <<there, epoch, box>>
    BY <1>9 DEF InitBaseline
  <2>2. Usable(r)' => Usable(r)
    BY <2>1 DEF Usable
  <2>3. CASE git' = [IF git.onBase /\ HasChanges THEN CommitTree(git.tree, "agent") ELSE OnBase
                       EXCEPT !.ready = TRUE]
    <3>1. git'.onBase = TRUE /\ git'.ready = TRUE
      BY <1>0, <2>3 DEF OnBase, CommitTree, WithHead, Gits
    <3>2. QED
      BY <1>3, <2>2, <3>1 DEF Holds
  <2>4. CASE git' = git
    BY <1>5, <2>1, <2>4
  <2>5. QED
    BY <1>9, <2>3, <2>4 DEF InitBaseline
<1>10. CASE CreateBranch(s)
  <2>1. UNCHANGED <<there, epoch, box>>
    BY <1>10 DEF CreateBranch
  <2>2. CASE GitWorks(s) /\ ~git.branched
    <3>1. step[r] \in Started
      BY DEF Started, Working, Locked, InLoop, Claimed, Checked, Sealed
    <3>2. strayed \cap {"copy", "early"} = {}
      BY DEF HistoryGrows
    <3>3. there /\ git.intact /\ EarlyInv
      BY <2>2 DEF GitWorks, Usable, Standing
    <3>4. ~Usable(r)
      BY <2>2, <3>1, <3>2, <3>3 DEF EarlyInv
    <3>5. QED
      BY <2>1, <3>4 DEF Holds, Usable
  <2>3. CASE git' = git
    BY <1>5, <2>1, <2>3
  <2>4. QED
    BY <1>10, <2>2, <2>3 DEF CreateBranch
<1>11. CASE TearDown(s)
  BY <1>4, <1>11 DEF TearDown
<1>12. CASE Crash(s)
  <2>1. UNCHANGED <<there, epoch, box>>
    BY <1>12 DEF Crash
  <2>2. /\ git'.ready = git.ready /\ git'.onBase = git.onBase /\ git'.work = git.work
        /\ git'.tree = git.tree /\ git'.staged = git.staged
    BY <1>0, <1>12 DEF Crash, Gits
  <2>3. QED
    BY <1>5, <2>1, <2>2
<1>13. CASE \/ Investigate(s) \/ PersistReport(s) \/ Plan(s) \/ NothingToResume(s)
            \/ StartOver(s) \/ InspectFails(s) \/ LeaveToHuman(s) \/ Inspect(s) \/ Adopt(s)
            \/ LeaveReconcile(s) \/ AcquireLock(s) \/ LeaveChain(s) \/ AskResume(s)
  <2>1. UNCHANGED <<there, epoch, git>> /\ (box' = box \/ box' = [box EXCEPT ![s] = NoBox])
    BY <1>13 DEF Investigate, PersistReport, Plan, NothingToResume, StartOver, InspectFails,
           LeaveToHuman, Inspect, Adopt, LeaveReconcile, AcquireLock, LeaveChain, AskResume,
           dirVars
  <2>2. box'[r] = box[r]
    BY <1>0, <2>1
  <2>3. QED
    BY <1>5, <2>1, <2>2
<1>14. \/ Materialize(s) \/ CreateContainer(s) \/ LookIntoDirectory(s) \/ InitBaseline(s)
       \/ CreateBranch(s) \/ TearDown(s) \/ Crash(s)
       \/ Investigate(s) \/ PersistReport(s) \/ Plan(s) \/ NothingToResume(s)
       \/ StartOver(s) \/ InspectFails(s) \/ LeaveToHuman(s) \/ Inspect(s) \/ Adopt(s)
       \/ LeaveReconcile(s) \/ AcquireLock(s) \/ LeaveChain(s) \/ AskResume(s)
  <2>1. ~Inside(s) /\ ~EditFile(s)
    BY <1>1 DEF Inside, EditFile, Working, Locked, InLoop
  <2>2. QED
    BY <2>1, InsideSteps DEF RunStep, Reconcile
<1>15. QED
  BY <1>7, <1>8, <1>9, <1>10, <1>11, <1>12, <1>13, <1>14

LEMMA StepKeepsReview ==
  Standing /\ ReviewInv /\ [Next]_vars => ReviewInv'
<1> SUFFICES ASSUME Standing, ReviewInv, [Next]_vars,
                    strayed' \cap {"copy", "early"} = {}
             PROVE  /\ \A n \in DOMAIN pulls' : OneSquash(pulls[n].log)'
                    /\ \A r \in Runs : Holds(r)'
  BY DEF ReviewInv
<1>0. /\ step \in [Runs -> Steps] /\ git \in Gits /\ box \in [Runs -> Nat] /\ epoch \in Nat
      /\ pulls \in Seq(Commits) /\ TypeOK
  BY TypeParts DEF StepTypeOK, DirTypeOK, HistoryTypeOK, Standing
<1>1. HistoryGrows /\ strayed \cap {"copy", "early"} = {} /\ git.base = << >>
  <2>1. HistoryGrows /\ strayed \cap {"copy", "early"} = {}
    BY <1>0, StepsKeepHistory DEF HistoryGrows
  <2>2. QED
    BY <2>1 DEF Standing, EarlyInv
<1>2. /\ \A n \in DOMAIN pulls : OneSquash(pulls[n].log)
      /\ \A r \in Runs : Holds(r)
  BY <1>1 DEF ReviewInv
<1>3. ASSUME NEW r \in Runs PROVE Holds(r)'
  <2>1. CASE step[r] \notin Claimed /\ step'[r] = step[r]
    BY <2>1 DEF Holds
  <2>2. CASE UNCHANGED <<step, there, epoch, git, box>>
    BY <1>1, <1>2, <2>2, ReviewFrame DEF Usable
  <2>3. ASSUME NEW s \in Runs, RunStep(s) \/ AskResume(s) \/ EditFile(s) \/ Crash(s)
        PROVE  Holds(r)'
    <3>1. CASE s # r /\ step[r] \in Claimed
      BY <1>1, <1>2, <2>3, <3>1, OthersHold
    <3>2. CASE s # r /\ step[r] \notin Claimed
      <4>1. EditFile(s) \/ Outside(s) \/ Inside(s) \/ AcquireLock(s) \/ LeaveChain(s) \/ Crash(s)
        BY <2>3, OutsideSteps, InsideSteps DEF RunStep
      <4>2. step'[r] = step[r]
        BY <1>0, <3>2, <4>1 DEF EditFile, Outside, Inside, AcquireLock, LeaveChain, Crash, Quietly,
             Goto, runVars
      <4>3. QED
        BY <2>1, <3>2, <4>2
    <3>3. CASE s = r /\ EditFile(r)
      <4>1. step[r] = "coding" /\ step' = step
        BY <3>3 DEF EditFile, runVars
      <4>2. QED
        BY <2>1, <4>1 DEF Claimed, Checked, Sealed
    <3>4. CASE s = r /\ ~EditFile(r)
      <4>1. CASE \/ EndCoding(r) \/ RecordCommit(r) \/ EnterTesting(r) \/ RunTests(r)
                 \/ EnterReview(r) \/ Approve(r) \/ ResetToBase(r) \/ CommitSquash(r)
                 \/ RecordSquash(r)
        BY <1>0, <1>1, <1>2, <4>1, OwnStepsHold
      <4>2. CASE \/ Outside(r) \/ AcquireLock(r) \/ EnterCoding(r) \/ BackFromBase(r)
                 \/ RouteRed(r) \/ Reject(r) \/ Open(r) \/ WaitForApproval(r)
                 \/ LeaveChain(r) \/ Crash(r)
        BY <1>0, <4>2, OwnStepsElsewhere DEF Holds
      <4>3. QED
        BY <2>3, <3>4, <4>1, <4>2, OutsideSteps DEF RunStep
    <3>5. QED
      BY <3>1, <3>2, <3>3, <3>4
  <2>4. ASSUME NEW s \in Runs, ReapContainer(s) PROVE Holds(r)'
    <3>1. UNCHANGED <<step, there, epoch, git>> /\ box' = [box EXCEPT ![s] = 0]
      BY <2>4 DEF ReapContainer, runVars, dirVars, NoBox
    <3>2. CASE s = r
      <4>1. ~Usable(r)'
        BY <1>0, <3>1, <3>2 DEF Usable
      <4>2. QED
        BY <4>1 DEF Holds
    <3>3. CASE s # r
      <4>1. Usable(r)' => Usable(r)
        BY <1>0, <3>1, <3>3 DEF Usable
      <4>2. QED
        BY <1>1, <1>2, <3>1, <4>1, ReviewFrame
    <3>4. QED
      BY <3>2, <3>3
  <2>5. CASE Cancel \/ UNCHANGED vars
    BY <2>2, <2>5 DEF Cancel, vars, dirVars, runVars
  <2>6. CASE HumanCommit
    <3>1. step' = step /\ step[r] \notin Claimed
      BY <2>6 DEF HumanCommit, Over, Claimed, Checked, Sealed, runVars
    <3>2. QED
      BY <2>1, <3>1
  <2>7. CASE ReapScratchDir
    BY <2>7 DEF ReapScratchDir, Holds, Usable
  <2>8. QED
    BY <2>3, <2>4, <2>5, <2>6, <2>7 DEF Next
<1>4. ASSUME NEW log, OneSquash(log) PROVE OneSquash(log)'
  BY <1>1, <1>4, SealsLast
<1>5. ASSUME NEW n \in DOMAIN pulls' PROVE OneSquash(pulls[n].log)'
  <2>1. CASE pulls' = pulls
    <3>1. PICK log : log = pulls[n].log
      OBVIOUS
    <3>2. OneSquash(log)'
      BY <1>2, <1>4, <1>5, <2>1, <3>1
    <3>3. QED
      BY <2>1, <3>1, <3>2 DEF OneSquash, Reviewed, Content
  <2>2. ASSUME NEW r \in Runs, Open(r), pulls' # pulls PROVE OneSquash(pulls[n].log)'
    <3>1. step[r] = "open" /\ GitWorks(r) /\ ~git.onBase /\ pulls' = Append(pulls, CommitAt(git.work))
      BY <2>2 DEF Open, Tip
    <3>2. OneSquash(git.work)
      BY <1>2, <3>1 DEF Holds, Vouched, GitWorks, Claimed, Sealed
    <3>3. PICK log : log = pulls'[n].log
      OBVIOUS
    <3>4. CASE n \in DOMAIN pulls
      <4>1. pulls'[n] = pulls[n]
        BY <1>0, <3>1, <3>4
      <4>2. OneSquash(log)
        BY <1>2, <3>3, <3>4, <4>1
      <4>3. QED
        BY <1>4, <3>3, <4>2 DEF OneSquash, Reviewed, Content
    <3>5. CASE n \notin DOMAIN pulls
      <4>1. pulls'[n] = CommitAt(git.work)
        BY <1>0, <1>5, <3>1, <3>5
      <4>2. log = git.work
        BY <3>3, <4>1 DEF CommitAt
      <4>3. OneSquash(log)
        BY <3>2, <4>2
      <4>4. QED
        BY <1>4, <3>3, <4>3 DEF OneSquash, Reviewed, Content
    <3>6. QED
      BY <3>4, <3>5
  <2>3. QED
    BY <2>1, <2>2, PullsAreOpened
<1>6. QED
  BY <1>3, <1>5

(* However many runs and resumes there are, and whichever of them dies or   *)
(* is swept away: a pull request holds in one squashed commit what passed   *)
(* the suite and what a review approved, unless the source was copied over  *)
(* a directory that a run was in (repo.py:83), or a run went on in one that *)
(* had no branch yet (chain.py:1633).                                       *)
THEOREM PullsHoldReviewedWork == Spec => []ProposalsAreReviewed
<1> DEFINE Everything == Standing /\ ReviewInv
<1>1. Init => Everything
  BY InitStanding, InitReview
<1>2. Everything /\ [Next]_vars => Everything'
  BY StepKeepsStanding, StepKeepsReview
<1>3. Everything => ProposalsAreReviewed
  BY DEF ReviewInv, ProposalsAreReviewed, OneSquash, Reviewed
<1>4. QED
  BY <1>1, <1>2, <1>3, PTL DEF Spec
=============================================================================
