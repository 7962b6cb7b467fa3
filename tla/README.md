# Formal models of AMOP

AMOP turns bug reports into reviewed pull requests: a chain of agents
investigates, edits, tests and reviews in a container, and an orchestrator
written in Python decides every step, records it in PostgreSQL and waits for a
human before anything is merged. This directory holds TLA+ models of the
orchestrator, the TLC runs that check them, and proofs for TLAPS. The models are
translated from the source under `src/amop`; agents, GitHub, Docker and the model
providers are choices among the outcomes the code distinguishes.

## The system

| Part | State it keeps | Operations | What makes it correct |
| --- | --- | --- | --- |
| State machine (`orchestrator/state_machine.py`) | none, a table | `validate_transition` | the table itself; where a failure may lead |
| Task store (`orchestrator/task.py`, `database/models.py`) | `tasks` with a version, `task_transitions` | `create_task`, `transition`, `transition_with_retry`, commits of `task_context` | the trail explains the state; no lost update; ended tasks stay ended; calls end; all in all an atomic store |
| Pause (`orchestrator/pause.py`) | one row | `set_paused`, the gate in `transition` | nothing new starts during a pause |
| Audit chain (`audit/`) | hashes and positions over two tables, one sequence, one lock | append, verify, backfill | one chain, in commit order; verification neither lies nor cries wolf |
| Fix chain (`orchestrator/chain.py`, `counterexample.py`) | three counters, the working branch, locks | `run_fix`, `run_chain`, `run_fix_and_persist`, `resume_fix` | only reviewed, tested, small work within the cited files is proposed; it ends; no task or lock is left behind |
| Recovery (`orchestrator/reconcile.py`, `cleanup.py`, `sandbox/repo.py`) | the scratch directory, its repository, containers, the recorded commit | `reconcile`, commits, squash, checkouts, push, sweeps | no work lost or wrongly adopted; one task, one pull request |
| Dispatch (`orchestrator/watch.py`, `concurrency.py`, `safety/circuit_breakers.py`, `api/routes/webhooks.py`, `cli/main.py`) | open tasks, slots of a process, advisory locks | poll, deliver, triage, count, merge, take a slot and locks | an issue gets one live task; caps overshoot by a known amount; no circle of waiting |
| Budget (`models/cost.py`, `models/router.py`, `audit/actions.py`) | a counter per day, costs in the audit rows | check, record, reconcile, fall back | the counter is the rows; overspend is bounded |
| Agents and tools (`agents/base.py`, `tools/registry.py`, `safety/`, `sandbox/tools.py`) | iterations, what was read, the files, threads still at work | the loop, the gate, read, patch, write, micro-commit | nothing unpermitted is edited, nothing is edited unseen or left uncommitted, patches land where they say |
| Interfaces (`api/`, `cli/`, `interfaces/`) | none | requests of humans | only what the state machine allows |
| Memory, index, evaluation, reports | stored text and vectors | queries | data, not protocol |

They interact through four channels. The chain, the API, the watcher, the bot
and the reconciler all write the same task rows, each from a copy its session
read earlier (`expire_on_commit=False`), so every write may be overtaken.
All audit rows, those of transitions and those of tool calls, are appended under
one advisory lock to one hash chain, and the same transaction counts what a
model call has cost. A run holds advisory locks of files, a slot, a container
and a directory over many awaits, any of which may raise, be overtaken by a
human's decision, or be the last thing the process does. And the directory
outlives the process: a resume starts from what a crash has left in it.

What is hard to test is listed line by line under `hazards` in `PROJECT.json`,
each with the properties that would catch it.

## Modules

Pure modules:

- **TaskStates**: states, transition table, `FailureState`.
- **ReviewGate**: what the orchestrator makes of the models' words: where a report
  leads, which files a diff may touch, what a counterexample is worth, whether a
  verdict stands or is overridden.
- **Patch**: what part of a file a read has shown and what it is credited with, which
  lines a diff claims, what `patch_file` checks, and where `git apply` puts it (external,
  from its manual: the search starts at the second number of the header). A read is cut by
  its characters (`Chars` per line, and those of the numbers), to a number of lines; a
  line of `NoteLines` begins with `[NOTE:`, as the notices do by which a cut is told. A
  diff is one hunk, and `also` are the files that further sections of it rename.

Abstract specification:

- **Lifecycle**: a store of tasks in which every call is one atomic step: create a
  task, note something in its context, move it along the table, withdraw, pause.

Components:

- **TaskStore** extends TaskStates: sessions, rows, the gate, locks, retries. A
  step of the model is the code between two database calls. `copy[w]` is the
  ORM object in session `w`, `row[t]` the committed row. `transition` is
  PassGate, LockChain, FlushState, Commit, Refresh, the last of which may raise after
  the commit, with a row the caller is never told of; LoseRace and Reread are the
  retry; FlushContext is the autoflush of a changed `task_context` by the pause
  query. Close is any end of a session, a crash included; several processes and
  several coroutines look alike, because they meet only in the database.
  `ImplementsLifecycle` maps the committed rows to Lifecycle; a commit is the
  abstract move, everything else a stutter, and what passed the gate before a
  pause is `admitted` there.
- **AuditChain**: rows of both tables, the sequence, the lock, one verifier. SHA-256
  is taken to be injective: a hash is the sequence of contents it covers.
- **FixChain** extends TaskStates and ReviewGate: one run, from set-up to the end of
  its handler, for each of its callers: the API's background job, the CLI, the
  watcher and a resume. TaskStore's transition is one step here: it succeeds if and
  only if the move is legal from the row as it really is, and `overtaken` says that a
  plain commit of `task_context` would find a newer version. `ended` is a run whose
  handler got through, `lost` one whose handler failed as well (`HandlerFails`,
  `chain.py:1762`), `dead` one that crashed. A commit in git is the
  number of the tree it holds and whether it is the squash; `touched` are the files
  of the diff from the baseline, `cites` the citations of the report.
- **Recovery** extends TaskStates: one task and its scratch directory, run 1 and the
  resumes after or beside it, each a process. FixChain's stages are cut down to
  those that touch the directory; git is modelled in detail: both branches as logs of
  contents and authors, the branch checked out, the index, the working tree, the
  squash in its two halves, the base branch checked out for the re-run. Copying the
  source, `init_baseline` and `create_branch` are three steps; a cloned source (`Cloned`)
  brings its repository along, so between them there is one that works and has no branch
  of the task (`ready` without `branched`). `Verdict` is `reconcile` with its cases A to
  D and F, for what it cannot read. `strayed` remembers three things that happened:
  a run was cut off on the base branch (`base`), the source was copied over a directory
  that was there (`copy`), a run went on in a directory without a branch (`early`).
- **Dispatch** extends TaskStates: the processes of `amop watch` and the API with its
  background jobs; polls, deliveries, candidates, triage, breakers, slots, locks.
  A run is a slot, locks and an end. The tasks are a sequence in the order of
  `created_at`; `hourAgo` of them have left the window.
- **Budget**: callers between check, answer and record; reconcilers between their SUM
  and their overwrite. `price` tells a local model, a paid one whose name the check
  sees, and one wrapped in FallbackLLM. The check sees an estimate; each attempt of the
  call may be charged up to `Miss` more, and each that fails (`Retry`, `Raise`) may be
  charged without ever having a row. `billed` is what the providers charge, `unrecorded`
  what of it has no row.
- **AgentRun** extends Patch and Budget: the loop, the gate and the tools. One agent,
  the Coder, works on one file that a path names in two spellings; `credit` is the
  pair of tables that remember its reads, `shown` what those reads really showed,
  `late` the edit whose call was cancelled but whose thread runs on, `strays` the files
  that further sections of a diff have edited.

Proofs: **TaskStoreProofs**, **LifecycleProofs** (extends TaskStoreProofs),
**BudgetProofs**, **AgentRunProofs** (extends AgentRun and BudgetProofs),
**FixChainProofs**, **RecoveryProofs**, **AuditChainProofs**, **DispatchProofs**. For TLC
only: **MCTaskStore**, **MCAuditChain**, **MCFixChain**, **MCRecovery**, **MCDispatch**, **MCAgentRun** (values, symmetry sets,
legacy histories, the two situations of AgentRun).

Operators whose comment begins with "Otherwise" stand just before the definition
they would replace. No run uses them; each is a plausible mistake, and the property
that names it in `PROJECT.json` fails once it is put in place.

## Runs

| Run | Question | Result |
| --- | --- | --- |
| `task_store` | Do trail, row, pause and what callers asked for and were told agree under races of three sessions, is every call one atomic move to an observer, and who can deadlock with whom? | holds |
| `task_store_live` | Does every call end? | holds |
| `audit_chain` | One chain in commit order, and honest reports, under appends, failures, a backfill of positions and one edit? | holds |
| `audit_verify` | Does a verification beside appends call an untouched chain broken? | yes |
| `audit_backfill` | Does the chain verify after a backfill of unchained rows? | not if a row was appended before it |
| `fix_chain` | Only reviewed work proposed, by whatever reports, verdicts and overrides; budgets, recorded commit, locks, cancellation, a failing failure handler, termination and its measure? | holds, with the exception the properties name |
| `fix_chain_finished` | Is finished work safe from later failures? | no: the handler cancels it |
| `recovery` | What do crashes, resumes after or beside a run, sweeps and a human's commit do to the work and the pull request? | holds, with the exceptions the properties name |
| `recovery_base` | Is a chain, first or resumed, always handed a working branch, as `run_chain` and `resume_fix` say? | no: not between `materialize` and `create_branch` of a cloned source |
| `dispatch` | How far do caps overshoot, which duplicates slip through, do slots and locks stay sound, when actors overlap and die? | holds, with the exceptions the properties name |
| `agent_run` | Are reads, edits, commits and spend what the tables say, with a late edit, a second spelling, lines of any length, retries that are charged for and lost records? | holds, with the exceptions the properties name |
| `agent_run_credit` | Is every line that a read is credited with in its answer? | no: not in a cut answer of few long lines, nor in one that looks cut |

The runs that end in a violation are the `findings` of `PROJECT.json`.

Some properties state how far a promise really goes, and name the exception in
their own formula: `ForeignVerdictHasCause` lists AMOP's own doings that `reconcile`
takes for interference; `BaseIsNotPushed` and `WorkIsOnTheBranch` speak of the time before
any of `strayed` has happened, `ProposalsAreReviewed` of that before `copy` or `early`;
`NoTaskLeftWorking` leaves out runs that are `lost` or crashed;
`OverspendIsBounded` counts the estimate's shortfall and what has no row on top;
`CreditIsWithinScope` lets a credit run past what was shown by the default scope, and
`EditsAreAccountedFor` a permitted patch edit further files.
`CirclesArePairs` says which deadlocks there are: a pair with the failure handler's early
flush on one side is the only one, so the victim that PostgreSQL picks (AbortDeadlock)
always resolves it.
The next section lists these exceptions.

### Bounds

`task_store`: one task and three sessions, one call each, suffice for every pairwise
race and for a third party between a lost race and its retry; tasks share only
the audit lock and the pause. `task_store_live` gives two sessions two calls, so a
session meets another before and after its own call. Two attempts stand for
`MAX_OCC_RETRIES` (3): the first is retried, the last is not.

`audit_chain`: three positions let two appends commit around one that rolls back;
the legacy histories hold one and two rows; one edit is enough to show in the links.

`fix_chain` uses the code's budgets (4, 2, 2); three new trees tell an old, a tested
and a newer commit apart, and edits that change nothing are unbounded, so every
budget is reached. Two files and four reports tell nothing cited, one file cited
plainly, one in a spelling that is not normalised, and a missing one apart.

`recovery`: two runs (a first and a resume, or two resumes of a task left in
CODING), one return to coding each, two contents ever written, any number of crashes,
which end a run for good. Two contents tell what was there from what came later. The
source is cloned, which adds the window before `create_branch`; the theorems are about
sources of both kinds.

`dispatch`: one repository with two issues; at most two of the watcher and two
webhook jobs are active, which gives every pair of kinds; one crash; small limits
(2 tasks a day, 1 an hour, streak 1, 2 slots of which 1 for the repository), so that
each limit is reached by two tasks. One answer of the model raises up to two alerts.

`agent_run` starts in one of two situations: a Coder alone on a free model that reads
and patches a file of up to three lines (every one-hunk diff of at most two lines at
any two positions, some with a further section) with one late edit; or two agents on paid
providers with two reconciliations and one lost record. The two do not influence each
other: the Coder's file and the counter share no variable but the loop's. A line is 1
character or 6, and begins with `[NOTE:` when it is long; a read is cut above 7
characters to 2 lines and noticed above 2, so that reads are cut with fewer lines than the
scope, because of their numbers only, and not at all. With Cap 3, estimates of 1, a
`Miss` of 1 and one retry per provider (`MAX_TRANSIENT_RETRIES` is 2 in the code), one
call or two reach the cap. `MaxEstimate`, `Miss`, `MaxLost` and `MaxReconciles` are bounds
of the model; the theorems hold for any. `billed` and `unrecorded` enter no guard, and only
their difference the bound: the VIEW `Counted` keeps that difference. `agent_run_credit`
has the same constants.

Deadlock is not checked anywhere: sessions end, positions and calls run out, runs
finish. `LockWaitsEnd`, `CirclesArePairs` and the liveness properties ask for what a
deadlock would break.

### Fairness

`task_store_live` assumes strong fairness of each call in progress (the event loop
runs every ready coroutine, PostgreSQL grants locks in turn and breaks a deadlock)
and that somebody lifts a pause; without the last the gate waits for ever, by
design. `fix_chain` assumes weak fairness of the run itself: agents have iteration
limits, commands and model calls have timeouts. It takes the file locks for granted;
that waiting for them goes in no circle is `LockWaitsEnd` of `dispatch`. The other
runs check safety and assume no fairness.

## Known deviations

Where the code does less than its comments say, or something a reader would not
expect, the model follows the code. Besides the findings:

Task store.
- The docstring of `_lock_chain` says "Deadlock-free by construction ... a LEAF lock.
  Nothing is acquired while holding it" (`audit/chain.py:276-281`). The tip read after it
  autoflushes the UPDATE of the task, which takes the row's lock; the failure handler
  (`chain.py:1751-1755`) has that row locked before it asks for the audit lock, because
  the pause query autoflushes the `task_context` it has just set. Two sessions can wait
  for each other (`WaitCycle`, which AbortDeadlock needs to fire).

Recovery.
- `_rerun_on_base` (`chain.py:1387`) says it never leaves the sandbox on the base branch.
  A crash there does, `reconcile` does not look at the branch, and a resume then
  edits, commits and pushes the base branch itself.
- The same happens after a crash between `materialize` and `create_branch`
  (`chain.py:1617-1636`, `chain.py:1839-1842`) when the source was a clone, or when
  a resume comes while a run is there (run `recovery_base`). A run whose branch is made
  only then makes it of the other's commits.
- `reconcile.py:325-330` calls a commit that the head does not descend from external
  "by construction". AMOP's own squash (recorded a step later), half a squash and the
  base checkout look the same, and the task goes to a human.
- `amop resume` checks neither the task's state nor whether a run is alive. A second
  resume that starts over copies the source into the directory the first works in
  (`repo.py:83`), and a resume that raises removes the directory for both.
- The reaper takes a container older than `MAX_LIFETIME_SECONDS` whether in use or not.

Dispatch.
- A tripped streak breaker leaves a task in NEEDS_HUMAN_INPUT, which is not FAILED and
  so ends the streak: retries are not blocked "regardless" (`circuit_breakers.py:251`),
  the count just starts anew.
- An issue below the severity floor, merged or tripped ends its task, so the next poll
  makes another. A refused slot leaves a task in TRIAGING for good, which then hides
  the issue from every later poll.
- Two overlapping triages can merge into each other, and nobody works on either.
- Two alerts of one answer about one issue make two tasks (`cli/main.py:563`).
- A delivery is recorded before it is processed, so a crash loses it.
- A run without declared files locks the repository's own key, others the keys of their
  files: the two do not exclude each other (`concurrency.py:166`). Resumed runs all
  share the slot key of "None" (`concurrency.py:262`).

Fix chain.
- "A diff must never reach REVIEWING uncapped regardless of which path got it there"
  (`chain.py:538-541`), but the check before the tests is made for a success only (line
  805) and the one after them for a no-op only (line 836): the oversized edit of a coder
  turn that then failed is reviewed when the suite passes. The cap before the pull
  request still stops it.
- A report whose citation resolves but is not in git's spelling makes every edit out of
  scope: the chain rejects until its budget is spent.
- An edit that ends where it began leaves the squash nothing to commit: the run raises
  and the task is cancelled (`repo.py:252`).
- The failure handler has a failure path of its own (`chain.py:1762-1765`): its reload,
  transition or commit raises, that is logged, and the task stays in its working state.
- A no-op attempt with a passing suite on a fresh task reaches REVIEWING with an empty
  diff. A verified counterexample binds one review; after a no-op turn the same tree may
  be approved. A call with no expectation that raises counts as refuted, not as
  unavailable (`counterexample.py:478`).

Budget and agents.
- FallbackLLM has neither `model` nor `max_tokens`, so the check rates its calls at zero
  (`base.py:151-155`, against `cost.py:190-195`).
- For a model with a price the estimate may fall short as well: it takes four characters
  for a token (`cost.py:170`), no account of cache writes, which cost 1.25 times the input
  (`cost.py:93-95`), and a `max_tokens` that OpenAI is not sent (`openai.py:105-112`). By how
  much is `Miss`, about which nothing is assumed: a single caller passes the cap by it,
  against `cost.py:193-195` ("the cap can never be defeated by an unexpectedly long
  completion").
- One call is up to three attempts at a provider, "every attempt here is a billed call"
  (`claude.py:44-46`); a fallback adds those of the second provider. Only the last one is
  recorded, and nothing if it raises.
- A lost audit transaction loses its cost for good: reconciliation sums the rows
  (`actions.py:171-173` says it will catch up).
- Read credit is kept by the spelling of a path, and a late edit leaves it standing. An
  answer that starts with `[NOTE:` is taken for a cut one (`tools.py:860`) and credited with
  60 lines from where it began: a whole long file behind its notice (too little), a cut one
  of fewer but longer lines (too much, run `agent_run_credit`), or a file that begins
  like that.
- `_normalize_diff_headers` rewrites the first two headers of a diff only
  (`tools.py:496-505`), and neither the format nor the content check looks at another
  section: `git apply` edits the file it names, a protected one too, which the gate has not
  seen, though the tool's description says that "the path in them is ignored -- only the
  'path' argument matters" (`tools.py:955-956`). `also` models such sections as renames. One with a hunk
  of its own is refused in most cases, because its headers count as lines of the hunk before
  (`tools.py:541-542` lets pass those that fall behind the end of the file), and edits
  otherwise just so. A path outside the directory git refuses, with the whole diff.
- The numbered check of `patch_file` passes diffs without trailing context, with two
  different positions or beyond the end; `git apply` may put them on equal lines elsewhere.
- A timed-out edit still lands, without a commit. Second chances after malformed output
  do not count as iterations.

## Proofs

Everything below holds for all values of the constants, under the named
assumptions of the modules: bounds are numbers, the lock value `NoOne` is no session,
there is a task, `Missing` is no file, reports cite citations, `NoEdit` is no edit,
the callers are a finite non-empty set, a call may cost something, NULL is neither
a number nor a hash, audited calls have some content, watchers and issues are
finitely many and different things, and what stands for text is text (`TextConstants`:
files are sequences of lines with so many characters each, diffs are hunks, the
arguments of reads are numbers).

`TaskStoreProofs`: type correctness, `TrailLeadsToState`, `NoContextLost`,
`PauseDrains`, `TerminalIsFinal`. None of them is inductive alone. `IInv` adds what
the code relies on without saying so: a writer that holds the row lock has seen the
current version and no other copy can match it afterwards; a copy at the current
version shows the current state and context (so a guarded write overwrites only
what its writer has read); a writer past its flush has validated its move; and a
writer past the gate during a pause was admitted before it. `Invariance` shows
Init => IInv and, action by action, that IInv is preserved; the rest follows.
`AtMostOneRowPerCall` counts: `Counted` ties the successes a writer was told of, and the
transitions it asked for, to the cardinality of the finite set of its audit rows, which only
its own commit enlarges, by the one new position of the trail. An answer lost after the
commit leaves a row without a success, a rollback a request without a row.
`CirclesArePairs` follows from IInv's clause on locks (`LocksHeld`): a session that waits
and is waited for is either at the flush of its row, under the audit lock, or at the audit
lock, with its own row flushed (`MiddleOfWaits`), and there is only one audit lock.
`CallsGoForward` gives a call the measure `ToGo` (attempts left, then steps left): every
step of the call lowers it (`ProceedLowers`), every step of another session leaves it
(`StepsAreTheirOwn`), and it is a natural number.

`LifecycleProofs`: `Refinement`, Spec => `ImplementsLifecycle`. Under IInv a commit is
one abstract Move, Create, Note or Withdraw, PassGate and the pause change what is
admitted, and everything else (locks, flushes, retries, lost sessions) stutters.

`BudgetProofs`: `BInv` says what is due and by whom, that the overlooked part of an open
reconciliation is exactly what was recorded since its SUM, and (`Committed`) that what is
recorded and what the calls on their way may still add stays within the bound. What a call
may add is its estimate and `Miss`, or any amount where the price is not known; it is put
there by a Dispatch that has just seen room for the estimate, and every other step moves or
lowers it. The sum over the callers, which no induction available here reaches, is counted
as a finite set of units, pairs of a caller and a number up to its share, which a dispatch
adds and the end of a call takes away (`UnitsOfOneMore`, `UnitsOfOthers`). From BInv follow
`CounterIsTheRows` and `RecordedSpend`: the rows pass the cap by one call of each other
caller at most, by the shortfall of one estimate, and by what overwrites put back.
`OverspendIsBounded` is about what was charged, recorded or not: `Ledger` says that the
charges are the rows, the unrecorded and the units due.

`AgentRunProofs`: `AgentsKeepTheBudget` (AgentRun's steps are Budget's or leave it
alone), with it `CounterIsTheRows` and `OverspendIsBounded` carry over; `EditsAreAccountedFor` from `EInv`,
which says that an edit under way or late has passed the gate, and that a file
that differs from the last commit is known to.
`AgentTyping` types the loop, the file and the credits; with it `CreditIsWithinScope` is
inductive: a read is credited with what it showed or with its first
SCOPED_READ_DEFAULT_LINES (`ScopeOfReads`), whatever the lengths of lines and the limits,
and an edit either forgets the read, or marks it (`ScopeAfterEdits`).
`NumberedPatchLandsWhereClaimed` is about
a single `git apply`, but rests on `CheckHolds`: the lines that the numbered check compared
still agree with the file unless an edit came late, and then no place is nearer than the
one named.

`FixChainProofs`: every invariant of the `fix_chain` run, `EndedTaskEntersNoStage`,
`RunGoesForward` and `BudgetsBoundTheLoop`.
`FInv` adds, stage by stage, what a step may rely on: from the plan on something is
cited (otherwise the scope check is void); the tree under review is the one that
passed; the tree on its way out is the one approved, within the cited files;
until the squash the recorded commit is an ancestor of the branch, and after it
the task is in no state a resume starts from; each entry into coding after the
first is paid for by one of three budgets; locks span the work; what the handler has
read is the row until somebody moves it. `RunGoesForward` rests on the types alone: the
stages stand in one order (`StagesGoForward`), and the three ways back to the head of the
loop each take one round from `RoundsLeft` (`LoopsArePaid`), which outweighs the distance
gained; so `Remaining` is a natural number that each step of the run lowers.
`OnlyFailedTurnsSlipTheCap` says how far the size cap reaches: an oversized diff is
reviewed only behind a turn that edited and then failed. It is inductive with what `EnterTesting` leaves true until the routes from the tests (`CapInv`).

`RecoveryProofs`, for any number of runs, edits, rounds and crashes:
- `LockIsHeldByTheLiving`, from the order of the program points: a lock is taken on
  entering the loop and left in `finish` or with the process.
- `OneProposal`. `DeliveryInv` adds that once a run is on its way out the task is in a
  state from which no move of the table leads back to CODING (`DeliveredForGood`, over
  the whole table), and that after a pull request was opened no other run is in the
  loop: whoever gets the lock next fails its move.
- `Standing` collects what the other theorems rest on. `BoxInv`: no mount is of a checkout
  still to come. `LogsInv`: where there is no repository there is no history, and where
  there is no branch of the task HEAD is on the base branch. `FreshInv`: a resume that
  `reconcile` lets go on in the directory is no fresh start. `EarlyInv`: until a directory
  has its branch nobody works in it, and whoever then makes the branch makes it of the bare
  copy, unless `copy` or `early` happened. `RepoSteps` sorts the steps by what they do to
  directory and history: nothing, a new directory, none, the baseline, the branch, a commit,
  and the two halves of a squash.
- `BaseIsNotPushed`. `BaseInv` says that a directory with a branch that is on its base
  branch is that of a run that is testing there, unless something has strayed; with the
  lock it follows that nobody else can commit or push meanwhile, with `EarlyInv` that
  nobody works in one without a branch.
- `WorkIsOnTheBranch`. By `WorkInv` everything committed in a checkout is in its branch
  until the change is out of the loop for good (`GoneOut`); only then a squash takes commits
  back. That a commit meets the branch and not the base needs `BaseInv` and the lock.
- `ForeignVerdictHasCause`. `CopiesInv` says of the recorded commit and of every copy of it
  in a run's memory that it is an ancestor of the branch of its own checkout, unless that
  branch was rewritten in a way that shows (`Rewritten`). `ForkInv`: the branch starts where
  it left the base branch, which only grows.
- `ProposalsAreReviewed`. `ReviewInv` says, step by step from the end of the coder's turn
  to the pull request, what a run can vouch for of the directory it has mounted: all is
  committed, the tree has passed, it is approved, what is staged is what was reviewed, the
  branch is one squash of it. A run whose directory is gone or another vouches for nothing and
  can commit nothing (`MountsLast`); on the base branch it vouches for nothing, and opens
  nothing. What others do meanwhile preserves it (`OthersHold`), but for the copy of the
  source over the directory and the branch made under a run at work, which the property
  excludes. Pull requests of earlier runs keep their log, and what was seen to pass or
  approved stays so (`HistoryGrows`).

`AuditChainProofs`, for any writers, values and length: `ChainIsLinear` and
`OrderIsStable`. `AInv` says that keys are unique and every row has its place in the
order, that a writer past the lock holds it, that the row it is about to insert comes
after all others and, while nobody has edited, is linked to the last one. That a
finite chain has a last row follows from the well-foundedness of strict subsets;
that a backfill keeps every link, from its positions being in the order of the rows.
The theorems assume `HistoryIsAChain`, which says of the rows that were there before:
all chained, no two with the same key, the links intact. Without it the claim is
false, as the run `audit_backfill` shows.
`IntactIsHonest` speaks of the verifier, which reads the tables at different moments:
`RecordInv` says that every stored row, and every row read, carries the key and hashes of
a row that was written, that its link is the hash of the row it was written behind, and
that nothing was said twice. From an intact link follows the row before, altered or
not. It assumes in addition `HistoryRepeatsNothing`: no two rows of one table in the
history say the same (each has its timestamp).

`DispatchProofs`, for any watchers, issues, repositories, files, limits and crashes:
- `SlotsAreTheRuns`: every step of an actor is of one of six kinds (look, alert, gate,
  create, go on, leave), of which only TakeSlot, RunEnds, RunRaises and a crash change
  who runs; that a count is given back for what was taken needs `HandInv`: the task in
  hand keeps its incident and is in nobody else's hand.
- `LockWaitsEnd`: `KeyInv` says that a waiting run wants only keys above those it holds;
  of finitely many waiting runs one wants the highest key, and no other can hold it.
- `DuplicatesAreUnseen`: `SeenInv` says that an incident an actor still carries had no
  open task before it began to look, and tasks that have ended stay so, because only
  the one who has an open task in hand changes it.
- `MergedInCirclesOnlyByOverlap`: `MergeInv` says that a task merged into a later one
  overlapped it, because the later one came while the merger had the earlier in hand
  (`OverlapInv`); in a circle of any length the oldest task is merged into a later one.
- `FailuresInARowAreStopped`: `StreakInv` says that a task that failed or is running, and
  overlaps with none on its incident, had no full streak of failures before it. What came
  earlier and overlaps with nothing has ended and stays as it is; of more than `Streak`
  failures in a row the latest would have had a full streak before it.
- `CapsOvershootByActorsOnly`: `CapsInv` counts the tasks made together with the actors
  past the check. The sum passes a cap only while it is below cap + actors at work: whoever
  passed the check last saw a number below the cap, and everyone else adds one at most.

Five of these theorems state properties that no run lists: `TerminalIsFinal` (which the
checked `ImplementsLifecycle` contains), `CallsGoForward` and `BudgetsBoundTheLoop` (the
counterparts of the checked `CallsEnd` and `RunGoesForward`), `OnlyFailedTurnsSlipTheCap`,
`RecordedSpendIsBounded` (which `OverspendIsBounded` goes beyond).
They hold for all values of the constants, so a small instance would add nothing.

Only model-checked: `CallsEnd` and `RunEnds`, which are liveness. The part of them that
does not speak of fairness is proved: a call and a run take boundedly many steps, whatever
their budgets (`CallsRunDown`, `RunsRunDown`). What is left to TLC is that a call or run
that has not ended can always take its next step, which speaks of ENABLED.

## Not modelled

Data: prompts, embeddings, rendering, redaction, the wording of briefs and pull
requests. Tools that search, list, run a shell, tests or benchmarks, with the parsing
of their output; diffs of several hunks in one file; bytes as opposed to characters; the patterns of the blacklist and of the
secret scan; approvals and the rate limiter of the gate. The turn of the UTC day,
which resets the counter and the window of the daily breaker; the budget scopes
of single tasks. The kill protocol of a command in a container. `optimize.py` and
`deps.py` (linear runs of the same parts), the model providers, the incident memory,
the code index, the evaluation and the reports. Components that are
queries over one row or one service are listed in `PROJECT.json` with the reason.
In Recovery: a source that is cloned from anything but its base branch, and a copy of the
source that a crash has cut short. Database outages between arbitrary statements are modelled where the code
answers them (Raise, Rollback, LoseCall, `escaped`), not as a state of their own.

Composition goes by abstraction, not by product: FixChain and Recovery take from
TaskStore that a transition is one legal move (which `Refinement` proves), Dispatch
takes from FixChain that a run ends or dies, AgentRun contains Budget and Patch.

## Plan

1. TaskStates, TaskStore, AuditChain, FixChain and the proofs about TaskStore (done).
2. Recovery, Dispatch, Budget, Patch, AgentRun, ReviewGate (done).
3. Lifecycle and the refinement; proofs about Budget, AgentRun, FixChain, Recovery,
   AuditChain and Dispatch (done).
4. Proofs of what counts and of what reports say: one row per success, caps, streaks and
   circles, intact reports, read credits and numbered patches; of what survives a crash:
   work on its branch, verdicts of interference, reviewed proposals; of what is charged,
   of the measures that end calls and runs, and of who can deadlock with whom (done).
5. Then: the rate limiter and approvals of the gate, the kill protocol of a command,
   runs of `optimize.py` as a second client of Lifecycle, several hunks and the headers
   of further sections with hunks of their own in Patch.
