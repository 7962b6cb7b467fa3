---------------------------- MODULE AgentRunProofs ----------------------------
(***************************************************************************)
(* Proofs about AgentRun for any agents, files, diffs and bounds.  Its     *)
(* agents use the budget only as Budget says, so that what BudgetProofs    *)
(* shows holds of them; and no edit escapes the gate or the commits.       *)
(***************************************************************************)
EXTENDS AgentRun, BudgetProofs

-----------------------------------------------------------------------------
(* The agents as callers of the budget *)

(* The steps of the loop that do not call a model.                          *)
LEMMA OtherStepsOfTheLoop ==
  ASSUME NEW a \in Callers,
         Malformed(a) \/ FinalAnswer(a) \/ SchemaMiss(a) \/ ToolCall(a) \/ Answered(a)
  PROVE  UNCHANGED <<budgetVars, fileVars>>
BY DEF Malformed, FinalAnswer, SchemaMiss, ToolCall, Answered

LEMMA ModelCallsAreBudgeted ==
  ASSUME NEW a \in Callers, CompleteAndRecord(a)
  PROVE  BudgetNext
BY DEF CompleteAndRecord, BudgetNext

LEMMA ToolsCostNothing ==
  ASSUME CoderTools \/ NextAttempt \/ LandLate
  PROVE  UNCHANGED budgetVars
BY DEF CoderTools, NextAttempt, LandLate, ReadFile, BeginPatch, BeginWrite, Apply, Conflict,
       CommitEdit, TimeOut

LEMMA StepsAreBudgeted == [Next]_vars => [BudgetNext]_budgetVars
<1> SUFFICES ASSUME [Next]_vars PROVE BudgetNext \/ UNCHANGED budgetVars
  OBVIOUS
<1>1. ASSUME NEW a \in Callers, Loop(a) PROVE BudgetNext \/ UNCHANGED budgetVars
  BY <1>1, OtherStepsOfTheLoop, ModelCallsAreBudgeted DEF Loop
<1>2. CASE CoderTools \/ NextAttempt \/ LandLate
  BY <1>2, ToolsCostNothing
<1>3. CASE Reconcile
  BY <1>3 DEF BudgetNext
<1>4. CASE UNCHANGED vars
  BY <1>4 DEF vars
<1>5. QED
  BY <1>1, <1>2, <1>3, <1>4 DEF Next

(* The agents' loops with their tools are callers of the budget: whatever   *)
(* is shown of Budget holds of them (_complete_and_record).                 *)
THEOREM AgentsKeepTheBudget == Spec => BudgetSpec
<1>1. Init => BudgetInit
  BY DEF Init
<1>2. QED
  BY <1>1, StepsAreBudgeted, PTL DEF Spec, BudgetSpec

(* With agents at work, the counter is the sum of the audit rows less what  *)
(* the last overwrite put back (record_spend, reconcile_budget).            *)
THEOREM CounterFollowsTheAgents == Spec => []CounterIsTheRows
BY AgentsKeepTheBudget, CounterFollowsRows, PTL

(* However many agents call models at once, what they are charged exceeds   *)
(* the cap by a call of each other agent at most, by what the estimate of   *)
(* one fell short, and by what has no row or a reconciliation put back      *)
(* (check_budget_before_dispatch, _post_with_bounded_retry).                *)
THEOREM OverspendOfTheAgents == Spec => []OverspendIsBounded
BY AgentsKeepTheBudget, Overspend, PTL

-----------------------------------------------------------------------------
(* The edits *)

(* A read was with line numbers or without.                                 *)
FlagsKnown == DOMAIN credit = Spellings /\ \A p \in Spellings : credit[p].numbered \in BOOLEAN

LEMMA FlagsInit == Init => FlagsKnown
<1>1. NoCredit.numbered \in BOOLEAN
  BY DEF NoCredit
<1>2. Init => credit = [p \in Spellings |-> NoCredit]
  BY DEF Init
<1>3. QED
  BY <1>1, <1>2 DEF FlagsKnown

LEMMA FlagsStep == FlagsKnown /\ [Next]_vars => FlagsKnown'
<1> SUFFICES ASSUME FlagsKnown, [Next]_vars PROVE FlagsKnown'
  OBVIOUS
<1>1. ASSUME NEW a \in Callers, Loop(a) PROVE credit' = credit
  BY <1>1, OtherStepsOfTheLoop DEF Loop, CompleteAndRecord, fileVars
<1>2. ASSUME NEW p \in Spellings, NEW r \in ReadArgs, NEW n \in BOOLEAN,
             ReadFile(p, r[1], r[2], n)
      PROVE  FlagsKnown'
  <2>1. ShownNumbered(file, r[1], r[2], n) \in BOOLEAN
    BY DEF ShownNumbered
  <2>2. \E c : credit' = [credit EXCEPT ![p] = c] /\ c.numbered \in BOOLEAN
    <3> DEFINE range == EffectiveRange(file, r[1], r[2], n)
               c == [lo |-> range.lo, hi |-> range.hi,
                     numbered |-> ShownNumbered(file, r[1], r[2], n)]
    <3>1. credit' = [credit EXCEPT ![p] = c]
      BY <1>2 DEF ReadFile
    <3>2. c.numbered \in BOOLEAN
      BY <2>1
    <3>3. QED
      BY <3>1, <3>2
  <2>3. QED
    BY <2>2 DEF FlagsKnown
<1>3. ASSUME NEW p, credit' = Forget(p) PROVE FlagsKnown'
  BY <1>3 DEF Forget, NoCredit, FlagsKnown
<1>4. CASE NextAttempt
  BY <1>4 DEF NextAttempt, NoCredit, FlagsKnown
<1>5. CASE \/ \E p \in Spellings, d \in Diffs : BeginPatch(p, d)
           \/ \E p \in Paths, c \in Contents : BeginWrite(p, c)
           \/ Apply \/ Conflict \/ TimeOut \/ LandLate
  BY <1>5 DEF BeginPatch, BeginWrite, Apply, Conflict, TimeOut, LandLate, FlagsKnown
<1>6. CASE CommitEdit
  BY <1>3, <1>6 DEF CommitEdit
<1>7. CASE UNCHANGED <<loopVars, fileVars>>
  BY <1>7 DEF fileVars, FlagsKnown
<1>8. CASE CoderTools
  BY <1>2, <1>5, <1>6, <1>8 DEF CoderTools
<1>9. QED
  BY <1>1, <1>4, <1>5, <1>7, <1>8 DEF Next, vars, FlagsKnown

(* What is under way has passed the gate.                                   *)
PassedTheGate(e) ==
    e # NoEdit => e \in Edits /\ e.path \in Spellings /\ mode # "observer"

EInv ==
    /\ DOMAIN pc = Callers
    /\ PassedTheGate(edit) /\ PassedTheGate(late)
    /\ EditsAreAccountedFor
    /\ pc[Coder] \in {"edit", "commit"} => edit # NoEdit

(* Where the end of an iteration leaves the loop.                           *)
LEMMA IterationEnds ==
  ASSUME NEW a \in Callers, NextIteration(a), DOMAIN pc = Callers
  PROVE  /\ DOMAIN pc' = Callers /\ mode' = mode
         /\ pc'[a] \notin {"edit", "commit"}
         /\ \A b \in Callers \ {a} : pc'[b] = pc[b]
<1>1. pc' = [pc EXCEPT ![a] = "ended"] \/ pc' = [pc EXCEPT ![a] = "model"]
  BY DEF NextIteration, End
<1>2. mode' = mode
  BY DEF NextIteration, End
<1>3. QED
  BY <1>1, <1>2

LEMMA EditsInit == Init => EInv
<1> SUFFICES ASSUME Init PROVE EInv
  OBVIOUS
<1>1. DOMAIN pc = Callers /\ pc[Coder] \notin {"edit", "commit"}
  BY AgentConstants DEF Init
<1>2. QED
  BY <1>1 DEF Init, EInv, PassedTheGate, EditsAreAccountedFor, EditsArePermitted, EditsAreCommitted

(* The loop of any agent leaves the file and its commits alone, and no      *)
(* other agent's loop moves the Coder.                                      *)
LEMMA LoopKeepsEdits ==
  ASSUME EInv, NEW a \in Callers, Loop(a)
  PROVE  EInv'
<1>1. UNCHANGED fileVars /\ mode' = mode
  <2>1. UNCHANGED fileVars
    BY OtherStepsOfTheLoop DEF Loop, CompleteAndRecord
  <2>2. mode' = mode
    BY DEF Loop, CompleteAndRecord, Malformed, FinalAnswer, SchemaMiss, ToolCall, Answered,
           NextIteration, End, TryAgain, loopVars
  <2>3. QED
    BY <2>1, <2>2
<1>2. \/ pc' = pc
      \/ \E s \in {"model", "parse", "tool", "ended"} : pc' = [pc EXCEPT ![a] = s]
  <2>1. CASE CompleteAndRecord(a)
    BY <2>1 DEF CompleteAndRecord, End, loopVars
  <2>2. CASE Malformed(a) \/ FinalAnswer(a) \/ SchemaMiss(a) \/ ToolCall(a)
    BY <2>2 DEF Malformed, FinalAnswer, SchemaMiss, ToolCall, End, TryAgain
  <2>3. CASE Answered(a)
    BY <2>3 DEF Answered, NextIteration, End
  <2>4. QED
    BY <2>1, <2>2, <2>3 DEF Loop
<1>3. pc[a] \notin {"edit", "commit"}
  BY DEF Loop, CompleteAndRecord, Malformed, FinalAnswer, SchemaMiss, ToolCall, Answered
<1>4. /\ DOMAIN pc' = Callers
      /\ pc'[Coder] \in {"edit", "commit"} => pc[Coder] = pc'[Coder]
      /\ pc'[Coder] # "commit" => pc[Coder] # "commit"
  BY <1>2, <1>3, AgentConstants DEF EInv
<1>5. QED
  BY <1>1, <1>4 DEF fileVars, EInv, PassedTheGate, EditsAreAccountedFor, EditsArePermitted,
                    EditsAreCommitted

(* Reads, and the next turn of the Coder.                                   *)
LEMMA ReadingKeepsEdits ==
  ASSUME EInv,
         \/ \E p \in Spellings, r \in ReadArgs, n \in BOOLEAN : ReadFile(p, r[1], r[2], n)
         \/ NextAttempt
  PROVE  EInv'
<1>1. /\ UNCHANGED <<file, edit, late, committed, loose, edited, strays, mode>>
      /\ DOMAIN pc' = Callers /\ pc'[Coder] \notin {"edit", "commit"} /\ pc[Coder] # "commit"
  <2>1. ASSUME NEW p \in Spellings, NEW r \in ReadArgs, NEW n \in BOOLEAN,
               ReadFile(p, r[1], r[2], n)
        PROVE  /\ UNCHANGED <<file, edit, late, committed, loose, edited, strays, mode>>
               /\ DOMAIN pc' = Callers /\ pc'[Coder] \notin {"edit", "commit"} /\ pc[Coder] # "commit"
    BY <2>1, IterationEnds, AgentConstants DEF ReadFile, CallsTool, EInv
  <2>2. CASE NextAttempt
    BY <2>2, AgentConstants DEF NextAttempt, EInv
  <2>3. QED
    BY <2>1, <2>2
<1>2. QED
  BY <1>1 DEF EInv, PassedTheGate, EditsAreAccountedFor, EditsArePermitted, EditsAreCommitted

(* An edit begins behind the gate: its path is in the directory and not     *)
(* protected, and the repository's mode is not observer.                    *)
LEMMA BeginningKeepsEdits ==
  ASSUME EInv, FlagsKnown,
         \/ \E p \in Spellings, d \in Diffs : BeginPatch(p, d)
         \/ \E p \in Paths, c \in Contents : BeginWrite(p, c)
  PROVE  EInv'
<1>1. /\ UNCHANGED <<file, late, committed, loose, edited, strays, mode>>
      /\ DOMAIN pc' = Callers /\ pc[Coder] = "tool" /\ pc'[Coder] = "edit"
      /\ mode # "observer" /\ edit'.path \in Spellings /\ edit' \in Edits
  <2>1. ASSUME NEW p \in Paths, CallsTool("patch_file", p) \/ CallsTool("write_file", p)
        PROVE  p \in Spellings /\ mode # "observer" /\ pc[Coder] = "tool"
    BY <2>1 DEF CallsTool, Permitted, Mutating, ProtectedPath, Paths
  <2>2. ASSUME NEW p \in Spellings, NEW d \in Diffs, BeginPatch(p, d)
        PROVE  /\ CallsTool("patch_file", p) /\ edit'.path = p /\ edit' \in Edits
               /\ pc' = [pc EXCEPT ![Coder] = "edit"]
               /\ UNCHANGED <<file, late, committed, loose, edited, strays, mode>>
    <3>1. credit[p].numbered \in BOOLEAN /\ p \in Paths
      BY DEF FlagsKnown, Paths
    <3>2. QED
      BY <2>2, <3>1 DEF BeginPatch, Edits
  <2>3. ASSUME NEW p \in Paths, NEW c \in Contents, BeginWrite(p, c)
        PROVE  /\ CallsTool("write_file", p) /\ edit'.path = p /\ edit' \in Edits
               /\ pc' = [pc EXCEPT ![Coder] = "edit"]
               /\ UNCHANGED <<file, late, committed, loose, edited, strays, mode>>
    BY <2>3 DEF BeginWrite, Edits
  <2>4. Spellings \subseteq Paths
    BY DEF Paths
  <2>5. QED
    BY <2>1, <2>2, <2>3, <2>4, AgentConstants DEF EInv
<1>2. edit' # NoEdit
  BY <1>1, NoEditAssumption
<1>3. QED
  BY <1>1, <1>2 DEF EInv, PassedTheGate, EditsAreAccountedFor, EditsArePermitted, EditsAreCommitted

(* The edit, its refusal, its commit, and its cancellation.                 *)
LEMMA EditingKeepsEdits ==
  ASSUME EInv, Apply \/ Conflict \/ CommitEdit \/ TimeOut
  PROVE  EInv'
<1> USE DEF EInv, PassedTheGate, EditsAreAccountedFor, EditsArePermitted, EditsAreCommitted
<1>1. CASE Apply
  <2>1. /\ DOMAIN pc' = Callers /\ pc'[Coder] = "commit" /\ edit # NoEdit
        /\ edited' = edited \cup {edit.path} /\ strays' = strays \cup Further(edit)
        /\ UNCHANGED <<edit, late, mode>> /\ Outcomes(edit) # {}
    BY <1>1, AgentConstants DEF Apply
  <2>2. "outside" \notin Further(edit)
    BY <2>1 DEF Outcomes, Further
  <2>3. QED
    BY <2>1, <2>2
<1>2. CASE Conflict
  <2>1. /\ DOMAIN pc' = Callers /\ pc'[Coder] \notin {"edit", "commit"} /\ pc[Coder] = "edit"
        /\ edit' = NoEdit
        /\ UNCHANGED <<file, late, mode, committed, loose, edited, strays>>
    BY <1>2, IterationEnds, AgentConstants DEF Conflict
  <2>2. QED
    BY <2>1
<1>3. CASE CommitEdit
  <2>1. /\ DOMAIN pc' = Callers /\ pc'[Coder] \notin {"edit", "commit"}
        /\ edit' = NoEdit
        /\ UNCHANGED <<file, late, mode, edited, strays>>
        /\ committed' = file \/ loose'
    BY <1>3, IterationEnds, AgentConstants DEF CommitEdit
  <2>2. QED
    BY <2>1
<1>4. CASE TimeOut
  <2>1. /\ DOMAIN pc' = Callers /\ pc'[Coder] \notin {"edit", "commit"}
        /\ edit' = NoEdit /\ late' \in {late, edit, NoEdit}
        /\ UNCHANGED <<file, mode, edited, strays>>
    BY <1>4, IterationEnds, AgentConstants DEF TimeOut
  <2>2. file = committed' \/ loose'
    BY <1>4 DEF TimeOut
  <2>3. QED
    BY <2>1, <2>2
<1>5. QED
  BY <1>1, <1>2, <1>3, <1>4

(* The thread of a cancelled edit: it had passed the gate, and what it      *)
(* writes is known to be without a commit.                                  *)
LEMMA LateKeepsEdits ==
  ASSUME EInv, LandLate
  PROVE  EInv'
<1> USE DEF EInv, PassedTheGate, EditsAreAccountedFor, EditsArePermitted, EditsAreCommitted
<1>1. /\ pc' = pc /\ mode' = mode /\ late' = NoEdit /\ committed' = committed
      /\ late # NoEdit
      /\ (file' = file /\ loose' = loose) \/ loose' = TRUE
      /\ \/ edited' = edited /\ strays' = strays
         \/ /\ edited' = edited \cup {late.path} /\ strays' = strays \cup Further(late)
            /\ "outside" \notin Further(late)
  <2>1. Outcomes(late) # {} => "outside" \notin Further(late)
    BY DEF Outcomes, Further
  <2>2. QED
    BY <2>1 DEF LandLate, loopVars
<1>2. edit' = edit \/ (edit # NoEdit /\ edit' = [edit EXCEPT !.moved = TRUE])
  BY DEF LandLate
<1>3. CASE edit # NoEdit /\ edit' = [edit EXCEPT !.moved = TRUE]
  <2>1. edit \in Edits
    BY <1>3
  <2>2. edit' \in Edits /\ edit'.path = edit.path
    BY <1>3, <2>1 DEF Edits
  <2>3. edit' # NoEdit
    BY <2>2, NoEditAssumption
  <2>4. QED
    BY <1>1, <1>3, <2>2, <2>3
<1>4. CASE edit' = edit
  BY <1>1, <1>4
<1>5. QED
  BY <1>2, <1>3, <1>4

LEMMA EditsStep == EInv /\ FlagsKnown /\ [Next]_vars => EInv'
<1> SUFFICES ASSUME EInv, FlagsKnown, [Next]_vars PROVE EInv'
  OBVIOUS
<1>1. ASSUME NEW a \in Callers, Loop(a) PROVE EInv'
  BY <1>1, LoopKeepsEdits
<1>2. CASE CoderTools
  BY <1>2, ReadingKeepsEdits, BeginningKeepsEdits, EditingKeepsEdits DEF CoderTools
<1>3. CASE NextAttempt
  BY <1>3, ReadingKeepsEdits
<1>4. CASE LandLate
  BY <1>4, LateKeepsEdits
<1>5. CASE UNCHANGED <<loopVars, fileVars>>
  BY <1>5 DEF loopVars, fileVars, EInv, PassedTheGate, EditsAreAccountedFor, EditsArePermitted,
              EditsAreCommitted
<1>6. QED
  BY <1>1, <1>2, <1>3, <1>4, <1>5 DEF Next, vars

(* No call for a protected path or one outside the directory edits          *)
(* anything, nothing is edited outside it or in an observed repository, not *)
(* even by a thread whose call was cancelled; and an edit without a commit  *)
(* is a known loss (evaluate, _micro_commit_after_edit).                    *)
THEOREM EditsStayAccountedFor == Spec => []EditsAreAccountedFor
<1>1. EInv => EditsAreAccountedFor
  BY DEF EInv
<1>2. QED
  BY FlagsInit, FlagsStep, EditsInit, EditsStep, <1>1, PTL DEF Spec

-----------------------------------------------------------------------------
(* What a read shows, and where a patch lands *)

LEMMA TextFacts ==
  ASSUME NEW text, IsText(text)
  PROVE  Len(text) \in Nat /\ DOMAIN text = 1 .. Len(text)
BY DEF IsText

(* A read is credited with lines from 1 on, and with no line of the file    *)
(* that it did not show beyond the first so many.                           *)
LEMMA ReadsAreCredited ==
  ASSUME NEW content, IsText(content), NEW first \in Int, NEW last \in Int,
         NEW numbered \in BOOLEAN, RangeIsValid(content, first, last)
  PROVE  LET range == EffectiveRange(content, first, last, numbered)
         IN  /\ range.lo \in Nat /\ range.hi \in Nat /\ range.lo >= 1
             /\ (range.lo .. Least(range.hi, Len(content)))
                    \subseteq ShownLines(content, first, last, numbered)
                        \cup (range.lo .. range.lo + SCOPED_READ_DEFAULT_LINES - 1)
<1> DEFINE range == EffectiveRange(content, first, last, numbered)
           lo == Greatest(1, first)
           wanted == LastWanted(content, last)
           LooksCut == \/ Truncated(content, first, last, numbered)
                       \/ Noticed(content, first, last, numbered)
                       \/ LooksLikeANotice(content, first, numbered)
<1>1. Len(content) \in Nat
  BY TextFacts
<1>2. lo \in Nat /\ lo >= 1 /\ wanted \in Int
  BY <1>1 DEF Greatest, LastWanted, Least
<1>3. CASE LooksCut
  <2>1. range = [lo |-> lo, hi |-> lo + SCOPED_READ_DEFAULT_LINES - 1]
    BY <1>3 DEF EffectiveRange
  <2>2. range.lo = lo /\ range.hi = lo + SCOPED_READ_DEFAULT_LINES - 1 /\ range.hi \in Nat
    BY <1>2, <2>1, ReadLimits
  <2>3. Least(range.hi, Len(content)) <= range.hi /\ Least(range.hi, Len(content)) \in Int
    BY <1>1, <2>2 DEF Least
  <2>4. QED
    BY <1>2, <2>2, <2>3
<1>4. CASE ~ LooksCut
  <2>1. range = [lo |-> lo, hi |-> IF last = 0 THEN Unbounded ELSE last]
    BY <1>4 DEF EffectiveRange
  <2>2. ShownLines(content, first, last, numbered) = lo .. wanted
    BY <1>4 DEF ShownLines
  <2>3. last # 0 => lo <= wanted
    BY DEF RangeIsValid, WholeFile
  <2>4. range.lo = lo /\ range.hi \in Nat /\ Least(range.hi, Len(content)) <= wanted
    BY <1>1, <1>2, <2>1, <2>3, ReadLimits DEF LastWanted, Least
  <2>5. Least(range.hi, Len(content)) \in Int
    BY <1>1, <2>4 DEF Least
  <2>6. QED
    BY <1>2, <2>2, <2>4, <2>5
<1>5. QED
  BY <1>3, <1>4, <1>2

(* What a patch leaves is a text.                                           *)
LEMMA PatchedIsText ==
  ASSUME NEW content, IsText(content), NEW diff \in Diffs,
         NEW p \in Landings(diff, content)
  PROVE  IsText(Spliced(content, p, diff))
<1> DEFINE old == OldSide(diff)
           new == NewSide(diff)
           a == SubSeq(content, 1, p - 1)
           b == SubSeq(content, p + Len(old), Len(content))
           S == DOMAIN Chars
<1>1. IsText(old) /\ IsText(new)
  BY TextConstants
<1>2. p \in 1 .. Len(content) + 1 /\ p + Len(old) - 1 <= Len(content)
  BY DEF Landings, Candidates, MatchesAt
<1>3. Len(content) \in Nat /\ Len(old) \in Nat
  BY <1>1, TextFacts
<1>4. content \in Seq(S) /\ new \in Seq(S)
  BY <1>1 DEF IsText
<1>5. a \in Seq(S) /\ b \in Seq(S)
  BY <1>2, <1>3, <1>4
<1>6. Spliced(content, p, diff) \in Seq(S)
  BY <1>4, <1>5 DEF Spliced
<1>7. QED
  BY <1>6 DEF IsText

(* A diff that passed the check line by line, and that is anchored, lands   *)
(* on the lines that its header names and nowhere else.                     *)
LEMMA AnchoredLandsThere ==
  ASSUME NEW content, IsText(content), NEW diff \in Diffs, diff.start >= 1,
         ~ ContextMismatch(diff, content), Anchored(diff, content)
  PROVE  Landings(diff, content) \subseteq {diff.start}
<1> DEFINE old == OldSide(diff)
<1>1. diff.start \in Nat /\ IsText(old)
  BY TextConstants
<1>2. Len(content) \in Nat /\ DOMAIN content = 1 .. Len(content)
      /\ Len(old) \in Nat /\ DOMAIN old = 1 .. Len(old)
  BY <1>1, TextFacts
<1>3. diff.new = diff.start /\ EndsInContext(diff) /\ diff.start + Len(old) - 1 <= Len(content)
  BY DEF Anchored
<1>4. MatchesAt(old, content, diff.start)
  <2>1. ASSUME NEW i \in DOMAIN old PROVE content[diff.start + i - 1] = old[i]
    <3>1. diff.start + i - 1 \in DOMAIN content
      BY <1>1, <1>2, <1>3
    <3>2. QED
      BY <3>1 DEF ContextMismatch
  <2>2. QED
    BY <1>3, <2>1 DEF MatchesAt
<1>5. diff.start \in Candidates(diff, content)
  <2>1. diff.start \in 1 .. Len(content) + 1 /\ (diff.start <= 1 => diff.start = 1)
    BY <1>1, <1>2, <1>3
  <2>2. QED
    BY <1>3, <1>4, <2>1 DEF Candidates
<1>6. ASSUME NEW p \in Landings(diff, content) PROVE p = diff.start
  <2>1. p \in 1 .. Len(content) + 1
    BY DEF Landings, Candidates
  <2>2. Distance(p, diff.new) <= Distance(diff.start, diff.new)
    BY <1>5 DEF Landings
  <2>3. QED
    BY <1>1, <1>2, <1>3, <2>1, <2>2 DEF Distance
<1>7. QED
  BY <1>6

-----------------------------------------------------------------------------
(* Types *)

PcValues == {"model", "parse", "tool", "edit", "commit", "ended"}

(* The loops: their counters stay within the limits, and an agent that has  *)
(* a model call under way is at its model call.                             *)
LoopsOK ==
    /\ mode \in Modes
    /\ pc \in [Callers -> PcValues]
    /\ \A a \in Callers : stage[a] # "idle" => pc[a] = "model"
    /\ iteration \in [Callers -> 1 .. LOOP_LIMIT]
    /\ retry \in [Callers -> {"no", "json", "schema"}]
    /\ attempts \in 1 .. MaxAttempts

(* The files: texts, what reads were credited with, and what is under way.  *)
FilesOK ==
    /\ file # NoFile => IsText(file)
    /\ credit \in [Spellings -> Credits]
    /\ \A p \in Spellings : credit[p].lo >= 1
    /\ edit = NoEdit <=> pc[Coder] \notin {"edit", "commit"}
    /\ edit \in Edits \cup {NoEdit}
    /\ late \in Edits \cup {NoEdit}
    /\ timeouts \in 0 .. MaxTimeouts
    /\ loose \in BOOLEAN
    /\ DOMAIN shown = Spellings
    /\ changed \in [Spellings -> {"no", "own", "other"}]
    /\ edited \subseteq Paths /\ strays \subseteq Paths

LEMMA TypesTogether == BudgetTypeOK /\ LoopsOK /\ FilesOK => TypeOK
BY DEF LoopsOK, FilesOK, TypeOK, PcValues

LEMMA NoCreditIsCredit == NoCredit \in Credits /\ NoCredit.lo = 1
BY DEF NoCredit, Credits

LEMMA TypesInit == Init => LoopsOK /\ FilesOK
<1> SUFFICES ASSUME Init PROVE LoopsOK /\ FilesOK
  OBVIOUS
<1>1. mode \in Modes
  BY DEF Init, ResolveMode, Modes
<1>2. LoopsOK
  <2>1. stage = [c \in Callers |-> "idle"]
    BY DEF Init, BudgetInit
  <2>2. QED
    BY <1>1, <2>1 DEF Init, LoopsOK, PcValues
<1>3. FilesOK
  <2>1. pc[Coder] \notin {"edit", "commit"}
    BY AgentConstants DEF Init
  <2>2. file # NoFile => IsText(file)
    BY TextConstants DEF Init
  <2>3. credit = [p \in Spellings |-> NoCredit]
    BY DEF Init
  <2>4. timeouts \in 0 .. MaxTimeouts
    BY AgentConstants DEF Init
  <2>5. credit \in [Spellings -> Credits] /\ \A p \in Spellings : credit[p].lo >= 1
    BY <2>3, NoCreditIsCredit
  <2>6. /\ edit = NoEdit /\ late = NoEdit /\ loose = FALSE
        /\ edited = {} /\ strays = {}
        /\ DOMAIN shown = Spellings /\ changed = [p \in Spellings |-> "no"]
    BY DEF Init
  <2>7. QED
    BY <2>1, <2>2, <2>4, <2>5, <2>6 DEF FilesOK
<1>4. QED
  BY <1>2, <1>3

(* The end of an iteration: the next model call, or the end of the run.     *)
LEMMA IterationTypes ==
  ASSUME LoopsOK, NEW a \in Callers, NextIteration(a), pc[a] # "model",
         stage' = stage
  PROVE  LoopsOK' /\ pc'[a] \in {"model", "ended"}
<1> USE DEF LoopsOK, PcValues
<1>1. CASE iteration[a] = LOOP_LIMIT
  BY <1>1 DEF NextIteration, End
<1>2. CASE iteration[a] # LOOP_LIMIT
  <2>1. /\ iteration' = [iteration EXCEPT ![a] = @ + 1]
        /\ retry' = [retry EXCEPT ![a] = "no"]
        /\ pc' = [pc EXCEPT ![a] = "model"]
        /\ UNCHANGED <<mode, attempts>>
    BY <1>2 DEF NextIteration
  <2>2. iteration[a] + 1 \in 1 .. LOOP_LIMIT
    BY <1>2, AgentConstants
  <2>3. QED
    BY <2>1, <2>2
<1>3. QED
  BY <1>1, <1>2

(* The steps of an agent's own loop.                                        *)
LEMMA CallTypes ==
  ASSUME LoopsOK, BudgetTypeOK, NEW a \in Callers, CompleteAndRecord(a)
  PROVE  LoopsOK'
<1> USE DEF LoopsOK, PcValues, BudgetTypeOK
<1>1. CASE /\ \/ \E estimate \in Estimates(a) : Dispatch(a, estimate)
              \/ \E cost \in Costs(a) :
                    \/ Retry(a, cost)
                    \/ \E reported \in Reported(cost) : Answer(a, cost, reported)
           /\ UNCHANGED loopVars
  <2>1. pc[a] = "model"
    BY DEF CompleteAndRecord
  <2>2. stage' = stage \/ \E s : stage' = [stage EXCEPT ![a] = s]
    BY <1>1 DEF Dispatch, Retry, Answer
  <2>3. QED
    BY <1>1, <2>1, <2>2 DEF loopVars
<1>2. CASE /\ \/ \E estimate \in Estimates(a) : Refuse(a, estimate)
              \/ \E cost \in Costs(a) : Raise(a, cost)
           /\ End(a)
  <2>1. stage' = [stage EXCEPT ![a] = "idle"]
    BY <1>2 DEF Refuse, Raise, HangUp, budgetVars
  <2>2. QED
    BY <1>2, <2>1 DEF End
<1>3. CASE /\ RecordCall(a) \/ LoseCall(a)
           /\ pc' = [pc EXCEPT ![a] = "parse"]
           /\ UNCHANGED <<mode, iteration, retry, attempts>>
  <2>1. stage' = [stage EXCEPT ![a] = "idle"]
    BY <1>3 DEF RecordCall, LoseCall, HangUp
  <2>2. QED
    BY <1>3, <2>1
<1>4. QED
  BY <1>1, <1>2, <1>3 DEF CompleteAndRecord

LEMMA LoopTypes ==
  ASSUME LoopsOK, BudgetTypeOK, NEW a \in Callers, Loop(a)
  PROVE  LoopsOK'
<1>1. CASE CompleteAndRecord(a)
  BY <1>1, CallTypes
<1>2. CASE Malformed(a) \/ FinalAnswer(a) \/ SchemaMiss(a) \/ ToolCall(a)
  <2>1. stage' = stage /\ pc[a] = "parse"
    BY <1>2 DEF Malformed, FinalAnswer, SchemaMiss, ToolCall, budgetVars
  <2>2. /\ UNCHANGED <<mode, iteration, attempts>>
        /\ \E s \in PcValues : pc' = [pc EXCEPT ![a] = s]
        /\ retry' = retry \/ \E w \in {"json", "schema"} : retry' = [retry EXCEPT ![a] = w]
    BY <1>2 DEF Malformed, FinalAnswer, SchemaMiss, ToolCall, End, TryAgain, PcValues
  <2>3. QED
    BY <2>1, <2>2 DEF LoopsOK, PcValues
<1>3. CASE Answered(a)
  <2>1. stage' = stage /\ pc[a] = "tool" /\ NextIteration(a)
    BY <1>3 DEF Answered, budgetVars
  <2>2. QED
    BY <2>1, IterationTypes
<1>4. QED
  BY <1>1, <1>2, <1>3 DEF Loop

(* The Coder's tools and its next turn.                                     *)
LEMMA ToolTypes ==
  ASSUME LoopsOK, CoderTools \/ NextAttempt \/ LandLate
  PROVE  LoopsOK'
<1>1. stage' = stage
  BY ToolsCostNothing DEF budgetVars
<1>2. ASSUME NextIteration(Coder), pc[Coder] \in {"tool", "edit", "commit"} PROVE LoopsOK'
  BY <1>1, <1>2, IterationTypes, AgentConstants
<1>3. CASE \E p \in Spellings, r \in ReadArgs, n \in BOOLEAN : ReadFile(p, r[1], r[2], n)
  BY <1>2, <1>3 DEF ReadFile, CallsTool
<1>4. CASE Conflict \/ CommitEdit \/ TimeOut
  BY <1>2, <1>4 DEF Conflict, CommitEdit, TimeOut
<1>5. CASE \/ \E p \in Spellings, d \in Diffs : BeginPatch(p, d)
           \/ \E p \in Paths, c \in Contents : BeginWrite(p, c)
           \/ Apply
  <2>1. /\ pc[Coder] # "model" /\ UNCHANGED <<mode, iteration, retry, attempts>>
        /\ \E s \in PcValues : pc' = [pc EXCEPT ![Coder] = s]
    BY <1>5 DEF BeginPatch, BeginWrite, Apply, CallsTool, PcValues
  <2>2. QED
    BY <1>1, <2>1, AgentConstants DEF LoopsOK
<1>6. CASE NextAttempt
  <2>1. attempts + 1 \in 1 .. MaxAttempts /\ 1 \in 1 .. LOOP_LIMIT
    BY <1>6, AgentConstants DEF NextAttempt, LoopsOK
  <2>2. QED
    BY <1>1, <1>6, <2>1, AgentConstants DEF NextAttempt, LoopsOK, PcValues
<1>7. CASE LandLate
  BY <1>1, <1>7 DEF LandLate, loopVars, LoopsOK
<1>8. QED
  BY <1>3, <1>4, <1>5, <1>6, <1>7 DEF CoderTools

LEMMA LoopsStep == LoopsOK /\ BudgetTypeOK /\ [Next]_vars => LoopsOK'
<1> SUFFICES ASSUME LoopsOK, BudgetTypeOK, [Next]_vars PROVE LoopsOK'
  OBVIOUS
<1>1. CASE Reconcile /\ UNCHANGED <<loopVars, fileVars>>
  BY <1>1 DEF Reconcile, ReadRows, Overwrite, GiveUp, loopVars, LoopsOK
<1>2. CASE UNCHANGED vars
  BY <1>2 DEF vars, loopVars, budgetVars, LoopsOK
<1>3. QED
  BY <1>1, <1>2, LoopTypes, ToolTypes DEF Next

(* What an edit makes of the file is a text.                                *)
LEMMA OutcomesAreTexts ==
  ASSUME file # NoFile => IsText(file), NEW e \in Edits, NEW f \in Outcomes(e)
  PROVE  IsText(f)
<1>1. CASE e.kind = "write"
  <2>1. e.with \in Contents
    BY <1>1 DEF Edits
  <2>2. QED
    BY <1>1, <2>1, TextConstants DEF Outcomes
<1>2. CASE e.kind # "write"
  <2>1. e.with \in Diffs
    BY <1>2 DEF Edits
  <2>2. file # NoFile /\ f \in {Spliced(file, p, e.with) : p \in Landings(e.with, file)}
    BY <1>2 DEF Outcomes
  <2>3. QED
    BY <2>1, <2>2, PatchedIsText
<1>3. QED
  BY <1>1, <1>2

(* Where the end of an iteration leaves what FilesOK says of the loop.      *)
LEMMA ReadTypes ==
  ASSUME LoopsOK, FilesOK, NEW p \in Spellings, NEW r \in ReadArgs, NEW n \in BOOLEAN,
         ReadFile(p, r[1], r[2], n)
  PROVE  FilesOK'
<1>1. IsText(file) /\ RangeIsValid(file, r[1], r[2])
  BY DEF ReadFile, FilesOK
<1>2. r[1] \in Int /\ r[2] \in Int
  BY TextConstants
<1> DEFINE range == EffectiveRange(file, r[1], r[2], n)
           c == [lo |-> range.lo, hi |-> range.hi,
                 numbered |-> ShownNumbered(file, r[1], r[2], n)]
<1>3. range.lo \in Nat /\ range.hi \in Nat /\ range.lo >= 1
  BY <1>1, <1>2, ReadsAreCredited
<1>4. ShownNumbered(file, r[1], r[2], n) \in BOOLEAN
  BY DEF ShownNumbered
<1>5. c \in Credits /\ c.lo >= 1
  BY <1>3, <1>4 DEF Credits
<1>6. credit' = [credit EXCEPT ![p] = c]
  BY DEF ReadFile
<1>7. credit' \in [Spellings -> Credits] /\ \A q \in Spellings : credit'[q].lo >= 1
  <2> HIDE DEF c
  <2>1. QED
    BY <1>5, <1>6 DEF FilesOK
<1>8. pc[Coder] \notin {"edit", "commit"} /\ pc'[Coder] \notin {"edit", "commit"}
  BY IterationEnds, AgentConstants DEF ReadFile, CallsTool, LoopsOK
<1>9. /\ UNCHANGED <<file, edit, late, timeouts, loose, edited, strays>>
      /\ DOMAIN shown' = Spellings
      /\ changed' \in [Spellings -> {"no", "own", "other"}]
  BY DEF ReadFile, FilesOK
<1>10. QED
  BY <1>7, <1>8, <1>9 DEF FilesOK

LEMMA BeginTypes ==
  ASSUME LoopsOK, FilesOK,
         \/ \E p \in Spellings, d \in Diffs : BeginPatch(p, d)
         \/ \E p \in Paths, c \in Contents : BeginWrite(p, c)
  PROVE  FilesOK'
<1>1. /\ UNCHANGED <<file, credit, late, timeouts, loose, shown, changed, edited,
                  strays>>
      /\ pc'[Coder] = "edit"
  BY AgentConstants DEF BeginPatch, BeginWrite, LoopsOK
<1>2. edit' \in Edits
  <2>1. ASSUME NEW p \in Spellings, NEW d \in Diffs, BeginPatch(p, d) PROVE edit' \in Edits
    <3>1. credit[p].numbered \in BOOLEAN /\ p \in Paths
      BY DEF FilesOK, Credits, Paths
    <3>2. QED
      BY <2>1, <3>1 DEF BeginPatch, Edits
  <2>2. ASSUME NEW p \in Paths, NEW c \in Contents, BeginWrite(p, c) PROVE edit' \in Edits
    BY <2>2 DEF BeginWrite, Edits
  <2>3. QED
    BY <2>1, <2>2
<1>3. edit' # NoEdit
  BY <1>2, NoEditAssumption
<1>4. QED
  BY <1>1, <1>2, <1>3 DEF FilesOK

(* The table of what has changed behind a read.                             *)
LEMMA OutdatedTypes ==
  ASSUME FilesOK, NEW ps
  PROVE  Outdated(ps) \in [Spellings -> {"no", "own", "other"}]
BY DEF Outdated, FilesOK

LEMMA ForgetTypes ==
  ASSUME FilesOK, NEW p
  PROVE  /\ Forget(p) \in [Spellings -> Credits]
         /\ \A q \in Spellings : Forget(p)[q].lo >= 1
<1>1. \A q \in Spellings : Forget(p)[q] \in {credit[q], NoCredit}
  BY DEF Forget, FilesOK
<1>2. DOMAIN Forget(p) = Spellings /\ Forget(p) = [q \in Spellings |-> Forget(p)[q]]
  BY DEF Forget, FilesOK
<1>3. \A q \in Spellings : Forget(p)[q] \in Credits /\ Forget(p)[q].lo >= 1
  BY <1>1, NoCreditIsCredit DEF FilesOK
<1>4. QED
  BY <1>2, <1>3

LEMMA FurtherPaths ==
  ASSUME NEW e \in Edits
  PROVE  Further(e) \subseteq Paths
<1>1. CASE e.kind = "patch"
  <2>1. e.with \in Diffs
    BY <1>1 DEF Edits
  <2>2. QED
    BY <1>1, <2>1, TextConstants DEF Further, Paths
<1>2. CASE e.kind # "patch"
  BY <1>2 DEF Further
<1>3. QED
  BY <1>1, <1>2

LEMMA EditTypes ==
  ASSUME LoopsOK, FilesOK, Apply \/ Conflict \/ CommitEdit \/ TimeOut
  PROVE  FilesOK'
<1>1. CASE Apply
  <2>1. /\ pc[Coder] = "edit" /\ pc'[Coder] = "commit" /\ file' \in Outcomes(edit)
        /\ changed' = Outdated({edit.path}) /\ edited' = edited \cup {edit.path}
        /\ strays' = strays \cup Further(edit)
        /\ UNCHANGED <<credit, edit, late, timeouts, loose, shown>>
    BY <1>1, AgentConstants DEF Apply, LoopsOK
  <2>2. edit \in Edits
    BY <2>1 DEF FilesOK
  <2>3. IsText(file')
    BY <2>1, <2>2, OutcomesAreTexts DEF FilesOK
  <2>4. edit.path \in Paths /\ Further(edit) \subseteq Paths
    BY <2>2, FurtherPaths DEF Edits
  <2>5. QED
    BY <2>1, <2>2, <2>3, <2>4, OutdatedTypes DEF FilesOK
<1>2. ASSUME NextIteration(Coder), pc[Coder] \in {"edit", "commit"}, edit' = NoEdit
      PROVE  edit' = NoEdit <=> pc'[Coder] \notin {"edit", "commit"}
  BY <1>2, IterationEnds, AgentConstants DEF LoopsOK
<1>3. CASE Conflict
  BY <1>2, <1>3 DEF Conflict, FilesOK
<1>4. CASE CommitEdit
  <2>1. /\ UNCHANGED <<file, late, timeouts, edited, strays>> /\ loose' \in BOOLEAN
        /\ credit' = Forget(edit.path) /\ edit' = NoEdit
        /\ edit' = NoEdit <=> pc'[Coder] \notin {"edit", "commit"}
    BY <1>2, <1>4 DEF CommitEdit
  <2>2. /\ changed' \in [Spellings -> {"no", "own", "other"}]
        /\ DOMAIN shown' = Spellings
    BY <1>4 DEF CommitEdit, FilesOK
  <2>3. QED
    BY <2>1, <2>2, ForgetTypes DEF FilesOK
<1>5. CASE TimeOut
  <2>1. /\ UNCHANGED <<file, credit, shown, edited, strays>> /\ edit' = NoEdit
        /\ edit' = NoEdit <=> pc'[Coder] \notin {"edit", "commit"}
        /\ late' \in {late, edit, NoEdit} /\ loose' \in {loose, TRUE, FALSE}
        /\ changed' \in {changed, Outdated({})}
    BY <1>2, <1>5 DEF TimeOut
  <2>2. timeouts' \in 0 .. MaxTimeouts
    BY <1>5, AgentConstants DEF TimeOut, FilesOK
  <2>3. QED
    BY <2>1, <2>2, OutdatedTypes DEF FilesOK
<1>6. QED
  BY <1>1, <1>3, <1>4, <1>5

LEMMA LateTypes ==
  ASSUME LoopsOK, FilesOK, LandLate
  PROVE  FilesOK'
<1>1. /\ late \in Edits /\ late' = NoEdit /\ pc' = pc
      /\ UNCHANGED <<credit, timeouts, shown>>
  BY DEF LandLate, loopVars, FilesOK
<1>2. CASE UNCHANGED <<file, changed, loose, edited, strays, edit>>
  BY <1>1, <1>2 DEF FilesOK
<1>3. CASE /\ file' \in Outcomes(late) /\ changed' = Outdated({}) /\ loose' = TRUE
           /\ edited' = edited \cup {late.path} /\ strays' = strays \cup Further(late)
           /\ edit' = IF edit = NoEdit THEN NoEdit ELSE [edit EXCEPT !.moved = TRUE]
  <2>1. IsText(file')
    BY <1>1, <1>3, OutcomesAreTexts DEF FilesOK
  <2>2. late.path \in Paths /\ Further(late) \subseteq Paths
    BY <1>1, FurtherPaths DEF Edits
  <2>3. edit # NoEdit => edit' \in Edits
    BY <1>3 DEF FilesOK, Edits
  <2>4. edit' \in Edits \cup {NoEdit} /\ (edit' = NoEdit <=> edit = NoEdit)
    BY <1>3, <2>3, NoEditAssumption
  <2>5. QED
    BY <1>1, <1>3, <2>1, <2>2, <2>4, OutdatedTypes DEF FilesOK
<1>4. QED
  BY <1>2, <1>3 DEF LandLate

(* No other agent's loop moves the Coder, and its own leaves the tools only *)
(* for a model call or the end.                                             *)
LEMMA LoopLeavesTools ==
  ASSUME LoopsOK, NEW a \in Callers, Loop(a)
  PROVE  /\ UNCHANGED fileVars
         /\ pc'[Coder] \in {"edit", "commit"} <=> pc[Coder] \in {"edit", "commit"}
         /\ pc'[Coder] \in {"edit", "commit"} => pc'[Coder] = pc[Coder]
<1>1. UNCHANGED fileVars
  BY OtherStepsOfTheLoop DEF Loop, CompleteAndRecord
<1>2. \/ pc' = pc
      \/ \E s \in {"model", "parse", "tool", "ended"} : pc' = [pc EXCEPT ![a] = s]
  <2>1. CASE CompleteAndRecord(a)
    BY <2>1 DEF CompleteAndRecord, End, loopVars
  <2>2. CASE Malformed(a) \/ FinalAnswer(a) \/ SchemaMiss(a) \/ ToolCall(a)
    BY <2>2 DEF Malformed, FinalAnswer, SchemaMiss, ToolCall, End, TryAgain
  <2>3. CASE Answered(a)
    BY <2>3 DEF Answered, NextIteration, End
  <2>4. QED
    BY <2>1, <2>2, <2>3 DEF Loop
<1>3. pc[a] \notin {"edit", "commit"}
  BY DEF Loop, CompleteAndRecord, Malformed, FinalAnswer, SchemaMiss, ToolCall, Answered
<1>4. QED
  BY <1>1, <1>2, <1>3, AgentConstants DEF LoopsOK

LEMMA FilesStep == LoopsOK /\ FilesOK /\ [Next]_vars => FilesOK'
<1> SUFFICES ASSUME LoopsOK, FilesOK, [Next]_vars PROVE FilesOK'
  OBVIOUS
<1>1. ASSUME NEW a \in Callers, Loop(a) PROVE FilesOK'
  BY <1>1, LoopLeavesTools DEF fileVars, FilesOK
<1>2. CASE NextAttempt
  <2>1. /\ pc[Coder] \notin {"edit", "commit"} /\ pc'[Coder] \notin {"edit", "commit"}
        /\ credit' = [p \in Spellings |-> NoCredit]
        /\ DOMAIN shown' = Spellings /\ changed' = [p \in Spellings |-> "no"]
        /\ UNCHANGED <<file, edit, late, timeouts, loose, edited, strays>>
    BY <1>2, AgentConstants DEF NextAttempt, LoopsOK
  <2>2. credit' \in [Spellings -> Credits] /\ \A p \in Spellings : credit'[p].lo >= 1
    BY <2>1, NoCreditIsCredit
  <2>3. QED
    BY <2>1, <2>2 DEF FilesOK
<1>3. CASE UNCHANGED <<loopVars, fileVars>>
  BY <1>3 DEF loopVars, fileVars, FilesOK
<1>4. CASE CoderTools
  BY <1>4, ReadTypes, BeginTypes, EditTypes DEF CoderTools
<1>5. QED
  BY <1>1, <1>2, <1>3, <1>4, LateTypes DEF Next, vars

(* The loops and the files keep their shape.                                *)
LEMMA AgentShape == Spec => [](LoopsOK /\ FilesOK)
<1>1. Spec => []BudgetTypeOK
  <2>1. BInv => BudgetTypeOK
    BY DEF BInv
  <2>2. QED
    BY AgentsKeepTheBudget, BudgetInvariance, <2>1, PTL
<1>2. QED
  BY <1>1, TypesInit, LoopsStep, FilesStep, PTL DEF Spec

(* Every agent stays within its iterations and turns and is where its model *)
(* call is while one is under way; the Coder's edits, credits and marks are *)
(* what the tools write (BaseAgent.run, _track_read, patch_file).           *)
THEOREM AgentTyping == Spec => []TypeOK
<1>1. BInv => BudgetTypeOK
  BY DEF BInv
<1>2. QED
  BY <1>1, AgentsKeepTheBudget, BudgetInvariance, AgentShape, TypesTogether, PTL

-----------------------------------------------------------------------------
(* What the Coder was shown *)

LEMMA ScopeInit == Init => CreditIsWithinScope
BY DEF Init, CreditIsWithinScope, Current

LEMMA ScopeOfReads ==
  ASSUME LoopsOK, FilesOK, CreditIsWithinScope,
         NEW p \in Spellings, NEW r \in ReadArgs, NEW n \in BOOLEAN,
         ReadFile(p, r[1], r[2], n)
  PROVE  CreditIsWithinScope'
<1> DEFINE range == EffectiveRange(file, r[1], r[2], n)
           Credit == [lo |-> range.lo, hi |-> range.hi, numbered |->
                            ShownNumbered(file, r[1], r[2], n)]
<1>1. (range.lo .. Least(range.hi, Len(file)))
        \subseteq ShownLines(file, r[1], r[2], n)
            \cup (range.lo .. range.lo + SCOPED_READ_DEFAULT_LINES - 1)
  <2>1. IsText(file) /\ RangeIsValid(file, r[1], r[2])
    BY DEF ReadFile, FilesOK
  <2>2. r[1] \in Int /\ r[2] \in Int
    BY TextConstants
  <2>3. QED
    BY <2>1, <2>2, ReadsAreCredited
<1>2. /\ shown' = [shown EXCEPT ![p] = ShownLines(file, r[1], r[2], n)]
      /\ changed' = [changed EXCEPT ![p] = "no"]
      /\ credit' = [credit EXCEPT ![p] = Credit]
      /\ UNCHANGED <<file, edit>>
  BY DEF ReadFile
<1>3. pc[Coder] # "commit"
  BY DEF ReadFile, CallsTool
<1>4. /\ credit'[p].lo = range.lo /\ credit'[p].hi = range.hi
      /\ shown'[p] = ShownLines(file, r[1], r[2], n) /\ changed'[p] = "no"
      /\ \A q \in Spellings \ {p} :
            credit'[q] = credit[q] /\ shown'[q] = shown[q] /\ changed'[q] = changed[q]
  BY <1>2 DEF FilesOK
<1>5. QED
  BY <1>1, <1>2, <1>3, <1>4 DEF CreditIsWithinScope, Current, Credited

(* An edit makes every other read outdated; its own is forgotten with the   *)
(* commit, and a cancelled commit leaves it outdated as well.               *)
LEMMA ScopeAfterEdits ==
  ASSUME LoopsOK, FilesOK, CreditIsWithinScope, Apply \/ Conflict \/ CommitEdit \/ TimeOut
  PROVE  CreditIsWithinScope'
<1> DEFINE Told(q) ==
        /\ changed'[q] # "own"
        /\ changed'[q] = "no" =>
            (credit'[q].lo .. Least(credit'[q].hi, Len(file')))
                \subseteq shown'[q] \cup
                    (credit'[q].lo .. credit'[q].lo + SCOPED_READ_DEFAULT_LINES - 1)
<1> SUFFICES ASSUME NEW q \in Spellings,
                    credit'[q] # NoCredit, pc'[Coder] = "commit" => q # edit'.path
             PROVE  Told(q)
  BY DEF CreditIsWithinScope, Current, Credited
<1>1. CASE Apply
  <2>1. /\ changed'[q] = IF q \notin {edit.path} /\ credit[q] # NoCredit THEN "other" ELSE changed[q]
        /\ pc'[Coder] = "commit" /\ UNCHANGED <<credit, edit>>
    BY <1>1, AgentConstants DEF Apply, Outdated, LoopsOK
  <2>2. QED
    BY <2>1
<1>2. ASSUME UNCHANGED <<credit, shown, file>>, changed'[q] \in {changed[q], "other"}, pc[Coder] = "edit"
      PROVE  Told(q)
  BY <1>2 DEF CreditIsWithinScope, Current, Credited
<1>3. CASE Conflict
  BY <1>2, <1>3 DEF Conflict
<1>4. CASE TimeOut /\ pc[Coder] = "edit"
  BY <1>2, <1>4 DEF TimeOut
<1>5. CASE TimeOut /\ pc[Coder] = "commit"
  <2>1. credit' = credit /\ changed'[q] = IF q \notin {} /\ credit[q] # NoCredit THEN "other" ELSE changed[q]
    BY <1>5 DEF TimeOut, Outdated
  <2>2. QED
    BY <2>1
<1>6. CASE CommitEdit
  <2>1. /\ pc[Coder] = "commit" /\ credit' = Forget(edit.path) /\ file' = file
    BY <1>6 DEF CommitEdit
  <2>2. q # edit.path
    BY <2>1 DEF Forget, FilesOK
  <2>3. changed'[q] = changed[q] /\ shown'[q] = shown[q] /\ credit'[q] = credit[q]
    BY <1>6, <2>1, <2>2 DEF CommitEdit, Forget, FilesOK
  <2>4. QED
    BY <2>1, <2>2, <2>3 DEF CreditIsWithinScope, Current, Credited
<1>7. TimeOut => pc[Coder] \in {"edit", "commit"}
  BY DEF TimeOut
<1>8. QED
  BY <1>1, <1>3, <1>4, <1>5, <1>6, <1>7

LEMMA ScopeStep ==
  ASSUME LoopsOK, FilesOK, CreditIsWithinScope, [Next]_vars
  PROVE  CreditIsWithinScope'
<1>1. ASSUME NEW a \in Callers, Loop(a) PROVE CreditIsWithinScope'
  BY <1>1, LoopLeavesTools DEF fileVars, CreditIsWithinScope, Current, Credited
<1>2. CASE \/ \E p \in Spellings, d \in Diffs : BeginPatch(p, d)
           \/ \E p \in Paths, c \in Contents : BeginWrite(p, c)
  <2>1. /\ UNCHANGED <<credit, changed, shown, file>> /\ pc[Coder] = "tool" /\ pc'[Coder] = "edit"
    BY <1>2, AgentConstants DEF BeginPatch, BeginWrite, CallsTool, LoopsOK
  <2>2. QED
    BY <2>1 DEF CreditIsWithinScope, Current, Credited
<1>3. CASE NextAttempt
  BY <1>3 DEF NextAttempt, CreditIsWithinScope, Current, Credited
<1>4. CASE LandLate
  <2>1. /\ UNCHANGED <<credit, shown, pc>>
        /\ edit' \in {edit, [edit EXCEPT !.moved = TRUE]} /\ (edit = NoEdit => edit' = edit)
    BY <1>4 DEF LandLate, loopVars
  <2>2. pc[Coder] = "commit" => edit'.path = edit.path
    BY <2>1 DEF FilesOK, Edits
  <2>3. CASE UNCHANGED <<file, changed>>
    BY <2>1, <2>2, <2>3 DEF CreditIsWithinScope, Current, Credited
  <2>4. CASE changed' = Outdated({})
    <3>1. \A q \in Spellings :
            changed'[q] = IF q \notin {} /\ credit[q] # NoCredit THEN "other" ELSE changed[q]
      BY <2>4 DEF Outdated
    <3>2. QED
      BY <2>1, <3>1 DEF CreditIsWithinScope, Current, Credited
  <2>5. QED
    BY <1>4, <2>3, <2>4 DEF LandLate
<1>5. CASE UNCHANGED <<loopVars, fileVars>>
  BY <1>5 DEF loopVars, fileVars, CreditIsWithinScope, Current, Credited
<1>6. CASE CoderTools
  BY <1>2, <1>6, ScopeOfReads, ScopeAfterEdits DEF CoderTools
<1>7. QED
  BY <1>1, <1>3, <1>4, <1>5, <1>6 DEF Next, vars

(* For every file, every limit and every length of line, patch_file takes   *)
(* the Coder to have seen no line that the answer of its read left out,     *)
(* beyond the first few from where the read began, nor a file that it has   *)
(* itself changed since (_track_read, read_file_effective_range).           *)
THEOREM CreditsStayWithinScope == Spec => []CreditIsWithinScope
<1>1. Spec => [](LoopsOK /\ FilesOK)
  BY AgentShape
<1>2. LoopsOK /\ FilesOK /\ CreditIsWithinScope /\ [Next]_vars => CreditIsWithinScope'
  BY ScopeStep
<1>3. QED
  BY <1>1, <1>2, ScopeInit, PTL DEF Spec

-----------------------------------------------------------------------------
(* Where a patch of the Coder lands *)

(* A patch that was checked against the numbers of its read, and whose file *)
(* no late edit has touched since, still agrees with the file.              *)
CheckHolds ==
    pc[Coder] = "edit" /\ edit.kind = "patch" /\ edit.strict /\ ~ edit.moved =>
        /\ file # NoFile
        /\ edit.with.start >= 1
        /\ ~ ContextMismatch(edit.with, file)

LEMMA CheckInit == Init => CheckHolds
<1>1. Init => pc[Coder] # "edit"
  BY AgentConstants DEF Init
<1>2. QED
  BY <1>1 DEF CheckHolds

LEMMA CheckBegins ==
  ASSUME LoopsOK, FilesOK, NEW p \in Spellings, NEW d \in Diffs, BeginPatch(p, d)
  PROVE  CheckHolds'
<1>1. /\ edit'.with = d /\ edit'.strict = credit[p].numbered /\ file' = file
      /\ PatchIsSound(p, d)
  BY DEF BeginPatch
<1>2. d.start \in Nat /\ credit[p].lo >= 1 /\ credit[p].lo \in Nat
  BY TextConstants DEF FilesOK, Credits
<1>3. file # NoFile /\ d.start >= 1
  <2>1. credit[p].lo <= DiffTargetRange(d).lo
    BY <1>1 DEF PatchIsSound, ReadCoversTarget
  <2>2. DiffTargetRange(d).lo = d.start
    BY DEF DiffTargetRange
  <2>3. QED
    BY <1>1, <1>2, <2>1, <2>2 DEF PatchIsSound
<1>4. credit[p].numbered => ~ ContextMismatch(d, file)
  BY <1>1 DEF PatchIsSound, ContentDefect
<1>5. QED
  BY <1>1, <1>3, <1>4 DEF CheckHolds

LEMMA CheckStep ==
  ASSUME LoopsOK, FilesOK, CheckHolds, [Next]_vars
  PROVE  CheckHolds'
<1>1. ASSUME UNCHANGED <<file, edit>>, pc'[Coder] = "edit" => pc[Coder] = "edit" PROVE CheckHolds'
  BY <1>1 DEF CheckHolds
<1>2. ASSUME NEW a \in Callers, Loop(a) PROVE CheckHolds'
  BY <1>1, <1>2, LoopLeavesTools DEF fileVars
<1>3. ASSUME NEW p \in Paths, NEW c \in Contents, BeginWrite(p, c) PROVE CheckHolds'
  BY <1>3 DEF BeginWrite, CheckHolds
<1>4. ASSUME NextIteration(Coder) PROVE CheckHolds'
  <2>1. pc'[Coder] # "edit"
    BY <1>4, IterationEnds, AgentConstants DEF LoopsOK
  <2>2. QED
    BY <2>1 DEF CheckHolds
<1>5. CASE \/ \E p \in Spellings, r \in ReadArgs, n \in BOOLEAN : ReadFile(p, r[1], r[2], n)
           \/ Conflict \/ CommitEdit \/ TimeOut
  BY <1>4, <1>5 DEF ReadFile, Conflict, CommitEdit, TimeOut
<1>6. CASE Apply \/ NextAttempt
  <2>1. pc'[Coder] # "edit"
    BY <1>6, AgentConstants DEF Apply, NextAttempt, LoopsOK
  <2>2. QED
    BY <2>1 DEF CheckHolds
<1>7. CASE LandLate
  <2>1. pc' = pc /\ (edit = NoEdit <=> pc[Coder] \notin {"edit", "commit"})
    BY <1>7 DEF LandLate, loopVars, FilesOK
  <2>2. CASE UNCHANGED <<file, edit>>
    BY <1>1, <2>1, <2>2
  <2>3. CASE edit' = IF edit = NoEdit THEN NoEdit ELSE [edit EXCEPT !.moved = TRUE]
    <3>1. pc[Coder] = "edit" => edit'.moved
      BY <2>1, <2>3 DEF FilesOK, Edits
    <3>2. QED
      BY <2>1, <3>1 DEF CheckHolds
  <2>4. QED
    BY <1>7, <2>2, <2>3 DEF LandLate
<1>8. CASE UNCHANGED <<loopVars, fileVars>>
  BY <1>1, <1>8 DEF loopVars, fileVars
<1>9. CASE CoderTools
  BY <1>3, <1>5, <1>6, <1>9, CheckBegins DEF CoderTools
<1>10. QED
  BY <1>2, <1>6, <1>7, <1>8, <1>9 DEF Next, vars

(* A patch written from a numbered read changes the lines that its header   *)
(* names: the check line by line still holds when git looks for the place,  *)
(* and git finds no nearer one (patch_file, _check_content_fidelity).       *)
THEOREM NumberedPatchesLand == Spec => NumberedPatchLandsWhereClaimed
<1> DEFINE Lands ==
        Apply /\ edit.kind = "patch" /\ edit.strict /\ ~ edit.moved /\ Anchored(edit.with, file)
            => file' = Spliced(file, edit.with.start, edit.with)
<1>1. ASSUME FilesOK, CheckHolds PROVE Lands
  <2> SUFFICES ASSUME Apply, edit.kind = "patch", edit.strict, ~ edit.moved,
                      Anchored(edit.with, file)
               PROVE  file' = Spliced(file, edit.with.start, edit.with)
    OBVIOUS
  <2>1. edit \in Edits /\ pc[Coder] = "edit" /\ file' \in Outcomes(edit)
    BY <1>1 DEF Apply, FilesOK
  <2>2. edit.with \in Diffs
    BY <2>1 DEF Edits
  <2>3. /\ file # NoFile /\ IsText(file) /\ edit.with.start >= 1
        /\ ~ ContextMismatch(edit.with, file)
    BY <1>1, <2>1 DEF CheckHolds, FilesOK
  <2>4. Landings(edit.with, file) \subseteq {edit.with.start}
    BY <2>2, <2>3, AnchoredLandsThere
  <2>5. file' \in {Spliced(file, p, edit.with) : p \in Landings(edit.with, file)}
    BY <2>1, <2>3 DEF Outcomes
  <2>6. QED
    BY <2>4, <2>5
<1>2. Spec => [](LoopsOK /\ FilesOK)
  BY AgentShape
<1>3. LoopsOK /\ FilesOK /\ CheckHolds /\ [Next]_vars => CheckHolds'
  BY CheckStep
<1>4. FilesOK /\ CheckHolds => Lands
  BY <1>1
<1>5. Spec => []CheckHolds
  BY <1>2, <1>3, CheckInit, PTL DEF Spec
<1>6. QED
  BY <1>2, <1>4, <1>5, PTL DEF NumberedPatchLandsWhereClaimed
=============================================================================
