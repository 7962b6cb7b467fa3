----------------------------- MODULE ReviewGate -----------------------------
(***************************************************************************)
(* What the orchestrator checks of the models' words (the pure functions   *)
(* of orchestrator/chain.py, orchestrator/counterexample.py): the files a  *)
(* root cause cites, the files a diff touches, and the reviewer's verdict  *)
(* with the counterexample that is to ground it.                           *)
(***************************************************************************)
EXTENDS Naturals

CONSTANTS
  Files,     \* the files of the repository
  Missing    \* a path that resolves to no file of it

ASSUME MissingIsNoFile == Missing \notin Files

-----------------------------------------------------------------------------
(* The report *)

(* A cited path: the file it resolves to, and whether normalize_repo_path   *)
(* turns it into the name that git gives that file.  It strips a leading    *)
(* /workspace/ or ./, and leaves, say, src/../a.py as it is.                *)
Citations == [file : Files \cup {Missing}, plain : BOOLEAN]

missing_cited_files(cites) == {c \in cites : c.file \notin Files}

has_no_citations(cites) == cites = {}

route_after_investigation(cites, confident) ==
  IF missing_cited_files(cites) # {} \/ has_no_citations(cites) \/ ~confident
  THEN "NEEDS_HUMAN_INPUT" ELSE "PLANNING_FIX"

-----------------------------------------------------------------------------
(* The diff *)

(* The files whose edit the report covers, by name.                         *)
Declared(cites) == {c.file : c \in {x \in cites : x.plain}}

(* With nothing cited there is nothing to check against.                    *)
out_of_scope_files(changed, cites) ==
  IF cites = {} THEN {} ELSE changed \ Declared(cites)

-----------------------------------------------------------------------------
(* The counterexample: some calls, what the reviewer claims of each, and    *)
(* what happens when it is run; and perhaps a relation between the values.  *)

Calls ==
  [claimed : {"nothing", "value", "raise"},
   happened : {"value", "other value", "raise", "other raise"}]

Relations == {"absent", "holds", "fails", "invalid"}

(* "unusable": malformed, or the runner failed, or what is named is not     *)
(* there.                                                                   *)
Claims ==
  [kind : {"absent", "unusable"}, calls : {{}}, relation : {"absent"}]
  \cup [kind : {"run"}, calls : SUBSET Calls \ {{}}, relation : Relations]

(* parse_claim: something that can turn out false.                          *)
Checkable(claim) ==
  claim.relation # "absent" \/ \E c \in claim.calls : c.claimed # "nothing"

Raises(c) == c.happened \in {"raise", "other raise"}

(* A call that raised contradicts any claim but that very exception, even   *)
(* when nothing was claimed of it.                                          *)
Contradicted(c) ==
  \/ c.claimed = "raise" /\ c.happened # "raise"
  \/ c.claimed # "raise" /\ Raises(c)
  \/ c.claimed = "value" /\ c.happened # "value"

verify_counterexample(claim) ==
  CASE claim.kind = "absent" -> "none"
    [] claim.kind = "unusable" -> "unavailable"
    [] claim.kind = "run" /\ ~Checkable(claim) -> "unavailable"
    [] claim.kind = "run" /\ Checkable(claim) ->
         IF \E c \in claim.calls : Contradicted(c) THEN "refuted"
         ELSE IF claim.relation \in {"absent", "holds", "fails"}
                 /\ ~(claim.relation # "absent" /\ \E c \in claim.calls : Raises(c))
              THEN IF claim.relation = "fails" THEN "refuted" ELSE "verified"
              ELSE "unavailable"

CounterexampleStatus == {"none", "verified", "refuted", "unavailable"}

-----------------------------------------------------------------------------
(* The verdict *)

Verdicts ==
  [approved : BOOLEAN, symptom : BOOLEAN, counterexample : CounterexampleStatus]

(* A rejection that nothing executed grounds does not stand, when the suite *)
(* passes and the diff stays in the cited files.                            *)
Overridden(verdict, changed, cites, passed) ==
  /\ passed
  /\ cites # {}
  /\ out_of_scope_files(changed, cites) = {}
  /\ verdict.counterexample # "verified"

(* Otherwise: the verdict is taken as it is.                                *)
ReviewersWord(verdict, changed, cites, passed) == verdict.approved

(* enforce_review_checks: whether the change is approved in the end.        *)
enforce_review_checks(verdict, changed, cites, passed) ==
  IF verdict.approved
  THEN out_of_scope_files(changed, cites) = {} /\ verdict.symptom
  ELSE Overridden(verdict, changed, cites, passed)
=============================================================================
