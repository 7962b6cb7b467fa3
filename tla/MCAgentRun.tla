----------------------------- MODULE MCAgentRun -----------------------------
(***************************************************************************)
(* Model checking of AgentRun in two situations.  Editing: a Coder on a    *)
(* free local model, alone, with a file of up to three lines.  Spending:   *)
(* two agents on paid providers, in a repository where nothing is edited.  *)
(***************************************************************************)
EXTENDS AgentRun

Lines == {"a", "b"}

Files == {<<"a", "b", "a">>, <<"a", "a">>}

NewContents == {<<>>, <<"a">>, <<"b", "a">>}

(* A short line, and a long one that begins like a notice: a part that is   *)
(* cut may be one line long, the numbers may make the difference, and a     *)
(* file may be cut, noticed, neither, or look like it.                      *)
LineLengths == [x \in Lines |-> IF x = "a" THEN 1 ELSE 6]

WholeOrPart == {<<0, 0>>, <<1, 2>>, <<2, 2>>}

L(m, x) == [mark |-> m, text |-> x]

Bodies ==
    {<<L("minus", x)>> : x \in Lines}
    \cup {<<L("plus", "b"), L("context", x)>> : x \in Lines}
    \cup {<<L("minus", x), L("context", y)>> : x, y \in Lines}
    \cup {<<L("none", "a")>>}

SomeDiffs ==
    [start : 1 .. 3, new : 1 .. 3, body : Bodies, also : {{}}]
    \cup [start : {1, 2}, new : {1}, body : {<<L("minus", "a"), L("context", "b")>>},
          also : {{"protected"}, {"outside"}}]

Editing ==
    /\ \A a \in Callers :
        /\ price[a] = "free"
        /\ pc[a] = "model" <=> a = Coder
    /\ iteration[Coder] = IF attempts = MaxAttempts THEN 1 ELSE LOOP_LIMIT
    /\ \A a \in Callers \ {Coder} : iteration[a] = 1
    /\ begun = MaxReconciles
    /\ losses = MaxLost

Spending ==
    /\ \A a \in Callers : price[a] # "free" /\ pc[a] = "model"
    /\ file = NoFile
    /\ mode = "observer"
    /\ attempts = MaxAttempts
    /\ \A a \in Callers : iteration[a] = LOOP_LIMIT
    /\ begun = 0 /\ losses = 0

(* Charges without a row enter no guard, and the bound on the overspend as  *)
(* a difference only: states that agree on that difference are one state.   *)
Counted ==
    <<price, spent, rows, stage, due, tries, open, sum, begun, room,
      billed - unrecorded, losses, during, behind, slip, loopVars, fileVars>>

MCInit == Init /\ (Editing \/ Spending)
MCSpec == MCInit /\ [][Next]_vars
=============================================================================
