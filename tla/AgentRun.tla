------------------------------ MODULE AgentRun ------------------------------
(***************************************************************************)
(* The agents at work: the bounded loop of model calls and tool calls      *)
(* (src/amop/agents/base.py), the gate in front of every tool              *)
(* (tools/registry.py, safety/), and the tools that read and edit the      *)
(* working directory (sandbox/tools.py).                                   *)
(*                                                                         *)
(* All agents share the daily budget of Budget.  One of them, the Coder,   *)
(* works on one file of its task's directory, which a path can name in two *)
(* spellings ("plain" for a.py, "dotted" for ./a.py); the others work on   *)
(* other tasks, and appear here through the budget and the gate.  A tool   *)
(* call that takes too long is cancelled, but what it has handed to a      *)
(* thread runs on: the edit may land at any later moment, without a commit *)
(* and without the book-keeping of the tool.                               *)
(***************************************************************************)
EXTENDS Patch, Budget

CONSTANTS
    Coder,            \* the agent with the edit tools
    NoFile,           \* the content of a file that does not exist
    NoEdit,           \* no edit is under way
    InitialFiles,     \* what the file may hold at first
    Contents,         \* what the Coder may write
    Diffs,            \* the diffs it may produce
    ReadArgs,         \* its choices of <<start_line, end_line>>
    LOOP_LIMIT,       \* BaseAgent.loop_limit
    MaxAttempts,      \* the chain's turns of the Coder
    MaxTimeouts       \* bound: tool calls that take too long

ASSUME AgentConstants ==
    /\ Coder \in Callers
    /\ LOOP_LIMIT \in Nat \ {0}
    /\ MaxAttempts \in Nat \ {0}
    /\ MaxTimeouts \in Nat

\* Files, and the two sides of a diff, are sequences of lines; a header has two
\* line numbers; a model may ask for any line.
IsText(text) == text \in Seq(DOMAIN Chars)

ASSUME TextConstants ==
    /\ \A c \in InitialFiles \cup Contents : IsText(c)
    /\ \A d \in Diffs :
        /\ d.start \in Nat /\ d.new \in Nat
        /\ d.also \subseteq {"protected", "outside"}
        /\ IsText(OldSide(d)) /\ IsText(NewSide(d))
    /\ ReadArgs \subseteq Int \X Int

VARIABLES
    mode,       \* the Coder's permission mode in this repository
    pc,         \* [Callers -> where the loop is]
    iteration,  \* [Callers -> 1 .. LOOP_LIMIT]
    retry,      \* [Callers -> what the call under way is a second chance for]
    attempts,   \* turns the Coder has begun
    file,       \* the file in the working directory
    credit,     \* coder_read_tracking and coder_read_numbered, by spelling
    edit,       \* the edit that passed its checks and is under way
    late,       \* an edit whose call was cancelled, but not its thread
    timeouts,
    committed,  \* the file in the last commit
    loose,      \* a commit failed, or an edit came late, since
    \* what the code does not know
    shown,      \* [Spellings -> the lines the read behind the credit showed]
    changed,    \* [Spellings -> what has changed the file since that read]
    edited,     \* the paths that were edited
    strays      \* those that further sections of a patch have edited

loopVars == <<mode, pc, iteration, retry, attempts>>
fileVars == <<file, credit, edit, late, timeouts, committed, loose, shown,
              changed, edited, strays>>
vars == <<budgetVars, loopVars, fileVars>>

Spellings == {"plain", "dotted"}
Paths == Spellings \cup {"protected", "outside"}
Mutating == {"write_file", "patch_file"}
Tools == Mutating \cup {"read_file", "run_tests"}

\* resolve_mode_from: the most specific level that names a mode wins, and one
\* that names none of the system's modes is ignored.
Modes == {"observer", "suggestor"}
ResolveMode(global, repo, agent) ==
    IF agent \in Modes THEN agent ELSE IF repo \in Modes THEN repo ELSE global

\* The tools the agent's class lists.
AllowedTools(a) == IF a = Coder THEN Tools ELSE {"read_file", "run_tests"}

\* The flag of an entry that was popped stays in coder_read_numbered, where
\* nothing reads it before the next read of that path sets it.
NoCredit == [lo |-> 1, hi |-> 0, numbered |-> FALSE]

Credits == [lo : Nat, hi : Nat, numbered : BOOLEAN]

\* What an edit under way is: the call, whether its read showed numbers, and
\* whether a late edit has come in between.
Edits ==
    [kind : {"patch"}, path : Paths, with : Diffs, strict : BOOLEAN,
     moved : BOOLEAN]
    \cup [kind : {"write"}, path : Paths, with : Contents, strict : {FALSE},
          moved : BOOLEAN]

ASSUME NoEditAssumption == NoEdit \notin Edits

TypeOK ==
    /\ BudgetTypeOK
    /\ mode \in Modes
    /\ pc \in [Callers -> {"model", "parse", "tool", "edit", "commit", "ended"}]
    /\ \A a \in Callers : stage[a] # "idle" => pc[a] = "model"
    /\ iteration \in [Callers -> 1 .. LOOP_LIMIT]
    /\ retry \in [Callers -> {"no", "json", "schema"}]
    /\ attempts \in 1 .. MaxAttempts
    /\ credit \in [Spellings -> Credits]
    /\ edit = NoEdit <=> pc[Coder] \notin {"edit", "commit"}
    /\ edit \in Edits \cup {NoEdit}
    /\ late \in Edits \cup {NoEdit}
    /\ timeouts \in 0 .. MaxTimeouts
    /\ loose \in BOOLEAN
    /\ changed \in [Spellings -> {"no", "own", "other"}]
    /\ edited \subseteq Paths /\ strays \subseteq Paths

Init ==
    /\ BudgetInit
    /\ mode \in {ResolveMode(g, r, a) :
                    g \in Modes, r, a \in Modes \cup {"unset", "unknown"}}
    /\ pc \in [Callers -> {"model", "ended"}]
    /\ iteration \in [Callers -> 1 .. LOOP_LIMIT]
    /\ retry = [a \in Callers |-> "no"]
    /\ attempts \in 1 .. MaxAttempts
    /\ file \in InitialFiles \cup {NoFile}
    /\ committed = file
    /\ loose = FALSE
    /\ credit = [p \in Spellings |-> NoCredit]
    /\ shown = [p \in Spellings |-> {}]
    /\ changed = [p \in Spellings |-> "no"]
    /\ edit = NoEdit /\ late = NoEdit /\ timeouts = 0
    /\ edited = {} /\ strays = {}

-----------------------------------------------------------------------------
(* The loop.                                                               *)

End(a) ==
    /\ pc' = [pc EXCEPT ![a] = "ended"]
    /\ UNCHANGED <<mode, iteration, retry, attempts>>

\* A second model call in the same iteration.
TryAgain(a, why) ==
    /\ retry' = [retry EXCEPT ![a] = why]
    /\ pc' = [pc EXCEPT ![a] = "model"]
    /\ UNCHANGED <<mode, iteration, attempts>>

\* Otherwise: the limit compared after the increment.
NextIterationOneMore(a) ==
    IF iteration[a] > LOOP_LIMIT
    THEN End(a)
    ELSE /\ iteration' = [iteration EXCEPT ![a] = @ + 1]
         /\ retry' = [retry EXCEPT ![a] = "no"]
         /\ pc' = [pc EXCEPT ![a] = "model"]
         /\ UNCHANGED <<mode, attempts>>

\* The tool has answered; the answer goes into the next model call, if the
\* limit allows one.
NextIteration(a) ==
    IF iteration[a] = LOOP_LIMIT
    THEN End(a)
    ELSE /\ iteration' = [iteration EXCEPT ![a] = @ + 1]
         /\ retry' = [retry EXCEPT ![a] = "no"]
         /\ pc' = [pc EXCEPT ![a] = "model"]
         /\ UNCHANGED <<mode, attempts>>

\* _complete_and_record: the check, the call, the record.
CompleteAndRecord(a) ==
    /\ pc[a] = "model"
    /\ \/ /\ \/ \E estimate \in Estimates(a) : Dispatch(a, estimate)
             \/ \E cost \in Costs(a) :
                  \/ Retry(a, cost)
                  \/ \E reported \in Reported(cost) : Answer(a, cost, reported)
          /\ UNCHANGED loopVars
       \/ /\ \/ \E estimate \in Estimates(a) : Refuse(a, estimate)
             \/ \E cost \in Costs(a) : Raise(a, cost)
          /\ End(a)
       \/ /\ RecordCall(a) \/ LoseCall(a)
          /\ pc' = [pc EXCEPT ![a] = "parse"]
          /\ UNCHANGED <<mode, iteration, retry, attempts>>
    /\ UNCHANGED fileVars

\* The answer is no JSON of the protocol: one more chance, except for an
\* answer that already was one.
Malformed(a) ==
    /\ pc[a] = "parse"
    /\ IF retry[a] = "no" THEN TryAgain(a, "json") ELSE End(a)
    /\ UNCHANGED <<budgetVars, fileVars>>

FinalAnswer(a) ==
    /\ pc[a] = "parse"
    /\ End(a)
    /\ UNCHANGED <<budgetVars, fileVars>>

\* A final answer that does not match the schema of the handoff.
SchemaMiss(a) ==
    /\ pc[a] = "parse"
    /\ IF retry[a] = "schema" THEN End(a) ELSE TryAgain(a, "schema")
    /\ UNCHANGED <<budgetVars, fileVars>>

\* A tool call; where a final answer was asked for again, it is a failure.
ToolCall(a) ==
    /\ pc[a] = "parse"
    /\ IF retry[a] = "schema"
       THEN End(a)
       ELSE /\ pc' = [pc EXCEPT ![a] = "tool"]
            /\ UNCHANGED <<mode, iteration, retry, attempts>>
    /\ UNCHANGED <<budgetVars, fileVars>>

\* CoderAgent.run, called again by the chain: a new conversation, and no read
\* of an earlier one counts.
NextAttempt ==
    /\ pc[Coder] = "ended"
    /\ attempts < MaxAttempts
    /\ attempts' = attempts + 1
    /\ pc' = [pc EXCEPT ![Coder] = "model"]
    /\ iteration' = [iteration EXCEPT ![Coder] = 1]
    /\ retry' = [retry EXCEPT ![Coder] = "no"]
    /\ credit' = [p \in Spellings |-> NoCredit]
    /\ shown' = [p \in Spellings |-> {}]
    /\ changed' = [p \in Spellings |-> "no"]
    /\ UNCHANGED <<mode, budgetVars, file, edit, late, timeouts, committed,
                   loose, edited, strays>>

-----------------------------------------------------------------------------
(* The gate.                                                               *)

\* A path that is protected infrastructure.
ProtectedPath(p) == p = "protected"

\* evaluate, and the allowlist before it; the order decides on the reason only.
Permitted(a, tool, p) ==
    /\ tool \in AllowedTools(a)
    /\ p # "outside"
    /\ tool \in Mutating => mode # "observer" /\ ~ ProtectedPath(p)

\* A call that is refused, or a tool that changes nothing here: an unknown
\* name, bad arguments, run_tests, a read of another file.
Answered(a) ==
    /\ pc[a] = "tool"
    /\ NextIteration(a)
    /\ UNCHANGED <<budgetVars, fileVars>>

-----------------------------------------------------------------------------
(* The tools of the Coder.  A refusal by the tool itself is Answered.      *)

CallsTool(tool, p) == pc[Coder] = "tool" /\ Permitted(Coder, tool, p)

\* read_file with _track_read.
ReadFile(p, first, last, numbered) ==
    /\ CallsTool("read_file", p)
    /\ file # NoFile
    /\ RangeIsValid(file, first, last)
    /\ LET range == EffectiveRange(file, first, last, numbered)
       IN  credit' = [credit EXCEPT ![p] =
                        [lo |-> range.lo, hi |-> range.hi, numbered |->
                            ShownNumbered(file, first, last, numbered)]]
    /\ shown' = [shown EXCEPT ![p] = ShownLines(file, first, last, numbered)]
    /\ changed' = [changed EXCEPT ![p] = "no"]
    /\ NextIteration(Coder)
    /\ UNCHANGED <<budgetVars, file, edit, late, timeouts, committed, loose,
                   edited, strays>>

\* An unscoped read of the whole file, without numbers.
WholeUnnumbered(read) ==
    read.lo = 1 /\ read.hi = Unbounded /\ ~ read.numbered

\* The checks of patch_file that need no file, and those that do.
PatchIsSound(p, diff) ==
    /\ ~ FormatDefect(diff)
    /\ ReadCoversTarget(credit[p], DiffTargetRange(diff))
    /\ ~ WholeUnnumbered(credit[p])
    /\ file # NoFile
    /\ ~ ContentDefect(diff, file, credit[p].numbered)

BeginPatch(p, diff) ==
    /\ CallsTool("patch_file", p)
    /\ PatchIsSound(p, diff)
    /\ edit' = [kind |-> "patch", path |-> p, with |-> diff,
                strict |-> credit[p].numbered, moved |-> FALSE]
    /\ pc' = [pc EXCEPT ![Coder] = "edit"]
    /\ UNCHANGED <<mode, iteration, retry, attempts, budgetVars, file, credit,
                   late, timeouts, committed, loose, shown, changed,
                   edited, strays>>

\* SUSPICIOUS_SHRINK: less than a fifth of what is there.
Shrinks(content) ==
    /\ file # NoFile
    /\ 5 * Size(content, DOMAIN content) < Size(file, DOMAIN file)

BeginWrite(p, content) ==
    /\ CallsTool("write_file", p)
    /\ ~ (p \in Spellings /\ Shrinks(content))
    /\ edit' = [kind |-> "write", path |-> p, with |-> content,
                strict |-> FALSE, moved |-> FALSE]
    /\ pc' = [pc EXCEPT ![Coder] = "edit"]
    /\ UNCHANGED <<mode, iteration, retry, attempts, budgetVars, file, credit,
                   late, timeouts, committed, loose, shown, changed,
                   edited, strays>>

\* The files that further sections of a patch name.
Further(e) == IF e.kind = "patch" THEN e.with.also ELSE {}

\* What an edit makes of the file; the empty set when git refuses it, with
\* everything in it.
Outcomes(e) ==
    IF e.kind = "write" THEN {e.with}
    ELSE IF file = NoFile \/ "outside" \in Further(e) THEN {}
    ELSE {Spliced(file, p, e.with) : p \in Landings(e.with, file)}

\* Whoever has read the file and is not among ps has read another version.
Outdated(ps) ==
    [q \in Spellings |->
        IF q \notin ps /\ credit[q] # NoCredit THEN "other" ELSE changed[q]]

\* git apply, or the write, in the sandbox.
Apply ==
    /\ pc[Coder] = "edit"
    /\ file' \in Outcomes(edit)
    /\ changed' = Outdated({edit.path})
    /\ edited' = edited \cup {edit.path}
    /\ strays' = strays \cup Further(edit)
    /\ pc' = [pc EXCEPT ![Coder] = "commit"]
    /\ UNCHANGED <<mode, iteration, retry, attempts, budgetVars, credit, edit,
                   late, timeouts, committed, loose, shown>>

\* PATCH_CONFLICT, or an exception of the sandbox: nothing has changed, and
\* the read still counts.
Conflict ==
    /\ pc[Coder] = "edit"
    /\ edit' = NoEdit
    /\ NextIteration(Coder)
    /\ UNCHANGED <<budgetVars, file, credit, late, timeouts, committed, loose,
                   shown, changed,
                   edited, strays>>

\* The read of an edited path is forgotten.
Forget(p) == [credit EXCEPT ![p] = NoCredit]

\* Otherwise: the commit left to commit_all at the end of the turn.
CommitEditLater ==
    /\ pc[Coder] = "commit"
    /\ UNCHANGED <<committed, loose>>
    /\ credit' = Forget(edit.path)
    /\ changed' = [changed EXCEPT ![edit.path] = "no"]
    /\ shown' = [shown EXCEPT ![edit.path] = {}]
    /\ edit' = NoEdit
    /\ NextIteration(Coder)
    /\ UNCHANGED <<budgetVars, file, late, timeouts, edited, strays>>

\* _micro_commit_after_edit, which may fail with a warning, and the rest of
\* the tool.
CommitEdit ==
    /\ pc[Coder] = "commit"
    /\ \/ committed' = file /\ loose' = FALSE
       \/ committed' = committed /\ loose' = TRUE
    /\ credit' = Forget(edit.path)
    /\ IF credit'[edit.path] = NoCredit
       THEN /\ changed' = [changed EXCEPT ![edit.path] = "no"]
            /\ shown' = [shown EXCEPT ![edit.path] = {}]
       ELSE /\ changed' = [changed EXCEPT ![edit.path] = "own"]
            /\ UNCHANGED shown
    /\ edit' = NoEdit
    /\ NextIteration(Coder)
    /\ UNCHANGED <<budgetVars, file, late, timeouts, edited, strays>>

\* wait_for cancels the tool.  What the thread was about to do it may still
\* do; if the edit was done, the commit may be done as well, or not.
TimeOut ==
    /\ timeouts < MaxTimeouts
    /\ timeouts' = timeouts + 1
    /\ \/ /\ pc[Coder] = "edit"
          /\ late' \in {edit, NoEdit}
          /\ UNCHANGED <<committed, loose, changed>>
       \/ /\ pc[Coder] = "commit"
          /\ \/ committed' = file /\ loose' = FALSE
             \/ committed' = committed /\ loose' = TRUE
          /\ changed' = Outdated({})
          /\ UNCHANGED late
    /\ edit' = NoEdit
    /\ NextIteration(Coder)
    /\ UNCHANGED <<budgetVars, file, credit, shown, edited, strays>>

\* The thread of a cancelled edit gets there, or it fails.
LandLate ==
    /\ late # NoEdit
    /\ late' = NoEdit
    /\ \/ /\ file' \in Outcomes(late)
          /\ changed' = Outdated({})
          /\ loose' = TRUE
          /\ edited' = edited \cup {late.path}
          /\ strays' = strays \cup Further(late)
          /\ edit' = IF edit = NoEdit THEN NoEdit
                     ELSE [edit EXCEPT !.moved = TRUE]
       \/ UNCHANGED <<file, changed, loose, edited, strays, edit>>
    /\ UNCHANGED <<budgetVars, loopVars, credit, timeouts, committed, shown>>

-----------------------------------------------------------------------------
Loop(a) ==
    \/ CompleteAndRecord(a)
    \/ Malformed(a)
    \/ FinalAnswer(a)
    \/ SchemaMiss(a)
    \/ ToolCall(a)
    \/ Answered(a)

CoderTools ==
    \/ \E p \in Spellings, r \in ReadArgs, n \in BOOLEAN :
        ReadFile(p, r[1], r[2], n)
    \/ \E p \in Spellings, d \in Diffs : BeginPatch(p, d)
    \/ \E p \in Paths, c \in Contents : BeginWrite(p, c)
    \/ Apply
    \/ Conflict
    \/ CommitEdit
    \/ TimeOut

Next ==
    \/ \E a \in Callers : Loop(a)
    \/ CoderTools
    \/ NextAttempt
    \/ LandLate
    \/ Reconcile /\ UNCHANGED <<loopVars, fileVars>>

Spec == Init /\ [][Next]_vars

-----------------------------------------------------------------------------
\* The lines of the file that a read is credited with.
Credited(p) == credit[p].lo .. Least(credit[p].hi, Len(file))

\* A read whose credit counts, and that the file has not changed since.
Current(p) ==
    /\ credit[p] # NoCredit
    /\ pc[Coder] = "commit" => p # edit.path
    /\ changed[p] = "no"

(* Crediting the "requested-but-not-actually-shown range would defeat the   *)
(* entire point of a FRESH-read requirement": every line of the file in the *)
(* credited range was in the answer of that read                            *)
(* (read_file_effective_range).                                             *)
CreditIsTruthful ==
    \A p \in Spellings : Current(p) => Credited(p) \subseteq shown[p]

(* What patch_file takes the Coder to have seen and it was not shown is     *)
(* among the first lines, as many as a cut answer may have, from where the  *)
(* read began; and the Coder has not edited the file under this spelling    *)
(* since.  A change under the other spelling, or by an edit that came late, *)
(* the table does not notice (_track_read, read_file_effective_range, the   *)
(* pops).                                                                   *)
CreditIsWithinScope ==
    \A p \in Spellings :
        /\ credit[p] # NoCredit /\ (pc[Coder] = "commit" => p # edit.path)
             => changed[p] # "own"
        /\ Current(p) =>
             Credited(p) \subseteq shown[p] \cup
                 (credit[p].lo .. credit[p].lo + SCOPED_READ_DEFAULT_LINES - 1)

(* After a read that showed line numbers, a patch changes the lines that    *)
(* its header names, if the two positions in the header agree, context      *)
(* follows the change, the lines exist, and no late edit came between the   *)
(* check and git apply.  In each of the other cases git may put it on equal *)
(* lines elsewhere (_check_content_fidelity with position_trustworthy).     *)
NumberedPatchLandsWhereClaimed ==
    [][ Apply /\ edit.kind = "patch" /\ edit.strict /\ ~ edit.moved
            /\ Anchored(edit.with, file)
          => file' = Spliced(file, edit.with.start, edit.with) ]_vars

(* No call for a path outside the directory or a protected one edits        *)
(* anything, nothing outside the directory is edited, and nothing at all in *)
(* a repository whose mode is observer, by a late edit neither.  What more  *)
(* a patch edits, the gate has not seen (_normalize_diff_headers rewrites   *)
(* the first header only).                                                  *)
EditsArePermitted ==
    /\ edited \subseteq Spellings
    /\ "outside" \notin strays
    /\ edited = {} => strays = {}
    /\ mode = "observer" => edited = {}

(* Between two tool calls the file is what the last commit holds, unless a  *)
(* commit failed or an edit came late: a crash loses nothing else           *)
(* (_micro_commit_after_edit).                                              *)
EditsAreCommitted == pc[Coder] # "commit" => file = committed \/ loose

EditsAreAccountedFor == EditsArePermitted /\ EditsAreCommitted
=============================================================================
