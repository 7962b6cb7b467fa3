----------------------------- MODULE MCFixChain -----------------------------
(***************************************************************************)
(* The instance of FixChain for TLC: the budgets are the code's own, and   *)
(* the repository has two files.                                           *)
(***************************************************************************)
EXTENDS FixChain

CONSTANTS a, b

Cite(f, spelledPlainly) == [file |-> f, plain |-> spelledPlainly]

SomeReports ==
  { {}, {Cite(a, TRUE)}, {Cite(a, FALSE)}, {Cite(a, TRUE), Cite(Missing, TRUE)} }
=============================================================================
