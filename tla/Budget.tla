------------------------------- MODULE Budget -------------------------------
(***************************************************************************)
(* The daily model budget (src/amop/models/cost.py, audit/actions.py).     *)
(*                                                                         *)
(* Before a model call the spend of the day so far plus an estimate of the *)
(* call is compared with the cap. Nothing is locked: callers between their *)
(* check and their record do not see each other. One call is up to three   *)
(* attempts at each provider (models/claude.py, models/openai.py), any of  *)
(* which may be charged for; only the answer, which ends the call, has a   *)
(* cost that the code learns. That is recorded in one transaction, as an   *)
(* audit row and as an increment of the counter; when the transaction      *)
(* fails, nothing is recorded and the run goes on. From time to time, and  *)
(* at every start of a process, the counter is overwritten with the sum of *)
(* the rows, which was read in a statement before.                         *)
(*                                                                         *)
(* The charge of an attempt may exceed the estimate: writes to the prompt  *)
(* cache cost more than the input price it takes, it counts the input by   *)
(* its length, and OpenAI is not sent the limit of output it assumes.      *)
(*                                                                         *)
(* One day, one scope ("global"; the counters of the tasks are written in  *)
(* the same transactions and read by nobody), costs in whole units.        *)
(***************************************************************************)
EXTENDS Integers, FiniteSets

CONSTANTS
    Callers,          \* the agents that call models
    Reconcilers,      \* the processes that reconcile the counter
    Cap,              \* MAX_COST_PER_DAY_USD
    MaxEstimate,      \* the most that max_plausible_cost_usd comes to
    Miss,             \* by how much an attempt can cost more than estimated
    MAX_TRANSIENT_RETRIES, \* further attempts at one provider, 2 in the code
    MaxLost,          \* bound: audit transactions that fail
    MaxReconciles     \* bound: reconciliations that start

ASSUME BudgetConstants ==
    /\ IsFiniteSet(Callers) /\ Callers # {}
    /\ Cap \in Nat
    /\ MaxEstimate \in Nat \ {0}
    /\ Miss \in Nat
    /\ MAX_TRANSIENT_RETRIES \in Nat
    /\ MaxLost \in Nat
    /\ MaxReconciles \in Nat

VARIABLES
    price,       \* [Callers -> kind of provider], see Prices
    spent,       \* budgets.spent_usd, what the check reads
    rows,        \* the sum of agent_actions.estimated_cost_usd
    stage,       \* [Callers -> "idle" | "sent" | "answered"]
    due,         \* [Callers -> cost of the answer that is not recorded yet]
    tries,       \* [Callers -> attempts of the call that have failed]
    open,        \* reconcilers between their SUM and their overwrite
    sum,         \* [Reconcilers -> the SUM they have read]
    begun,       \* how many reconciliations have started
    \* what the code does not know
    room,        \* [Callers -> the most an attempt of this call can cost]
    billed,      \* what the provider has charged
    unrecorded,  \* what of it will have no row
    losses,      \* how many transactions failed
    during,      \* [Reconcilers -> what was recorded since they read]
    behind,      \* by how much the last overwrite put the counter back
    slip         \* the most it ever did

budgetVars == <<price, spent, rows, stage, due, tries, open, sum, begun, room,
                billed, unrecorded, losses, during, behind, slip>>

\* "free": a local model, without a rate.  "named": a paid provider, whose
\* model name the check can look up.  "wrapped": a paid provider inside
\* FallbackLLM, which has no attribute `model`: the check asks for the rate of
\* the model "unknown" and gets zero, while the answer is recorded under the
\* name of the model that gave it, the local one when the provider failed.  A
\* paid model that has no rate is one of these whose usage is not reported.
Prices == {"free", "named", "wrapped"}

\* The most that one attempt costs, whatever was estimated.
MaxCall == MaxEstimate + Miss

\* max_plausible_cost_usd.
Estimates(c) == IF price[c] = "named" THEN 1 .. MaxEstimate ELSE {0}

MostOf(c, estimate) ==
    CASE price[c] = "free"    -> 0
      [] price[c] = "named"   -> estimate + Miss
      [] price[c] = "wrapped" -> MaxCall

\* How many attempts of a call may fail with another to follow: FallbackLLM
\* has the attempts of its second provider behind those of the first.
MostRetries(c) ==
    CASE price[c] = "free"    -> 0
      [] price[c] = "named"   -> MAX_TRANSIENT_RETRIES
      [] price[c] = "wrapped" -> 2 * MAX_TRANSIENT_RETRIES + 1

\* What an attempt is charged.
Costs(c) == 0 .. room[c]

\* What the answer says it cost: a provider need not report its usage.
Reported(cost) == {cost, 0}

BudgetTypeOK ==
    /\ price \in [Callers -> Prices]
    /\ spent \in Nat /\ rows \in Nat /\ billed \in Nat
    /\ unrecorded \in Nat /\ behind \in Nat /\ slip \in Nat
    /\ stage \in [Callers -> {"idle", "sent", "answered"}]
    /\ due \in [Callers -> 0 .. MaxCall]
    /\ room \in [Callers -> 0 .. MaxCall]
    /\ tries \in [Callers -> 0 .. 2 * MAX_TRANSIENT_RETRIES + 1]
    /\ open \subseteq Reconcilers
    /\ sum \in [Reconcilers -> Nat]
    /\ during \in [Reconcilers -> Nat]
    /\ begun \in 0 .. MaxReconciles
    /\ losses \in 0 .. MaxLost

BudgetInit ==
    /\ price \in [Callers -> Prices]
    /\ spent = 0 /\ rows = 0 /\ billed = 0
    /\ unrecorded = 0 /\ behind = 0 /\ slip = 0
    /\ losses \in 0 .. MaxLost
    /\ stage = [c \in Callers |-> "idle"]
    /\ due = [c \in Callers |-> 0]
    /\ room = [c \in Callers |-> 0]
    /\ tries = [c \in Callers |-> 0]
    /\ open = {}
    /\ begun \in 0 .. MaxReconciles
    /\ sum = [r \in Reconcilers |-> 0]
    /\ during = [r \in Reconcilers |-> 0]

-----------------------------------------------------------------------------
\* Otherwise: only what is spent already counts.
ExceedsWhenSpent(estimate) == spent > Cap

\* check_budget_before_dispatch: the projected spend is above the cap.
Exceeds(estimate) == spent + estimate > Cap

\* The check passes and the request goes out.
Dispatch(c, estimate) ==
    /\ stage[c] = "idle"
    /\ ~ Exceeds(estimate)
    /\ stage' = [stage EXCEPT ![c] = "sent"]
    /\ room' = [room EXCEPT ![c] = MostOf(c, estimate)]
    /\ UNCHANGED <<price, spent, rows, due, tries, open, sum, begun, billed,
                   unrecorded, losses, during, behind, slip>>

\* BudgetExceededError.
Refuse(c, estimate) ==
    /\ stage[c] = "idle"
    /\ Exceeds(estimate)
    /\ UNCHANGED budgetVars

\* The provider answers and charges for it.
Answer(c, cost, reported) ==
    /\ stage[c] = "sent"
    /\ stage' = [stage EXCEPT ![c] = "answered"]
    /\ due' = [due EXCEPT ![c] = reported]
    /\ billed' = billed + cost
    /\ unrecorded' = unrecorded + (cost - reported)
    /\ UNCHANGED <<price, spent, rows, tries, open, sum, begun, room, losses,
                   during, behind, slip>>

\* A time-out, a lost connection or a transient status: another attempt,
\* though this one may have been charged for.
Retry(c, cost) ==
    /\ stage[c] = "sent"
    /\ tries[c] < MostRetries(c)
    /\ tries' = [tries EXCEPT ![c] = @ + 1]
    /\ billed' = billed + cost
    /\ unrecorded' = unrecorded + cost
    /\ UNCHANGED <<price, spent, rows, stage, due, open, sum, begun, room, losses,
                   during, behind, slip>>

\* The call is over.
HangUp(c) ==
    /\ stage' = [stage EXCEPT ![c] = "idle"]
    /\ due' = [due EXCEPT ![c] = 0]
    /\ room' = [room EXCEPT ![c] = 0]
    /\ tries' = [tries EXCEPT ![c] = 0]

\* complete() raises: a key is missing, a status is final, the attempts are
\* used up, or the fallback failed as well.
Raise(c, cost) ==
    /\ stage[c] = "sent"
    /\ HangUp(c)
    /\ billed' = billed + cost
    /\ unrecorded' = unrecorded + cost
    /\ UNCHANGED <<price, spent, rows, open, sum, begun, losses, during, behind,
                   slip>>

\* record_model_call: the row and the increment, in one transaction.
RecordCall(c) ==
    /\ stage[c] = "answered"
    /\ HangUp(c)
    /\ rows' = rows + due[c]
    /\ spent' = spent + due[c]
    /\ during' = [r \in Reconcilers |->
                    IF r \in open THEN during[r] + due[c] ELSE during[r]]
    /\ UNCHANGED <<price, open, sum, begun, billed, unrecorded, losses, behind,
                   slip>>

\* The transaction fails and is only logged.
LoseCall(c) ==
    /\ stage[c] = "answered"
    /\ losses < MaxLost
    /\ losses' = losses + 1
    /\ HangUp(c)
    /\ unrecorded' = unrecorded + due[c]
    /\ UNCHANGED <<price, spent, rows, open, sum, begun, billed, during, behind,
                   slip>>

\* reconcile_budget, its SELECT.
ReadRows(r) ==
    /\ r \notin open
    /\ begun < MaxReconciles
    /\ begun' = begun + 1
    /\ open' = open \cup {r}
    /\ sum' = [sum EXCEPT ![r] = rows]
    /\ UNCHANGED <<price, spent, rows, stage, due, tries, room, billed,
                   unrecorded, losses, during, behind, slip>>

\* Otherwise: an accumulation.
AddSum(total) == spent + total

\* An overwrite, not an increment: the rows are the truth.
TakeSum(total) == total

\* reconcile_budget, its INSERT ... ON CONFLICT DO UPDATE SET spent_usd = sum.
Overwrite(r) ==
    /\ r \in open
    /\ open' = open \ {r}
    /\ spent' = TakeSum(sum[r])
    /\ behind' = during[r]
    /\ slip' = IF during[r] > slip THEN during[r] ELSE slip
    /\ sum' = [sum EXCEPT ![r] = 0]
    /\ during' = [during EXCEPT ![r] = 0]
    /\ UNCHANGED <<price, rows, stage, due, tries, begun, room, billed,
                   unrecorded, losses>>

\* The reconciliation raises; the loop logs it and waits for the next hour.
GiveUp(r) ==
    /\ r \in open
    /\ open' = open \ {r}
    /\ sum' = [sum EXCEPT ![r] = 0]
    /\ during' = [during EXCEPT ![r] = 0]
    /\ UNCHANGED <<price, spent, rows, stage, due, tries, begun, room, billed,
                   unrecorded, losses, behind, slip>>

Reconcile ==
    \E r \in Reconcilers : ReadRows(r) \/ Overwrite(r) \/ GiveUp(r)

-----------------------------------------------------------------------------
(* Callers of any kind, one call after the other.                          *)

BudgetNext ==
    \/ \E c \in Callers :
        \/ \E estimate \in Estimates(c) : Dispatch(c, estimate) \/ Refuse(c, estimate)
        \/ \E cost \in Costs(c) :
            \/ \E reported \in Reported(cost) : Answer(c, cost, reported)
            \/ Retry(c, cost)
            \/ Raise(c, cost)
        \/ RecordCall(c)
        \/ LoseCall(c)
    \/ Reconcile

BudgetSpec == BudgetInit /\ [][BudgetNext]_budgetVars

-----------------------------------------------------------------------------
(* The counter is the sum of the audit rows, less exactly what was recorded *)
(* while the reconciliation that wrote it last was between its two          *)
(* statements: neither a failed transaction nor concurrent callers make it  *)
(* drift in any other way (reconcile_budget, record_spend).                 *)
CounterIsTheRows ==
    /\ spent + behind = rows
    /\ \A r \in open : sum[r] + during[r] = rows

(* What the estimate of the check before a call may fall short by.          *)
Shortfall == IF \E c \in Callers : price[c] = "wrapped" THEN MaxCall ELSE Miss

(* What the providers charge exceeds the cap by at most one call of each    *)
(* caller but one, which passed the check beside the last one (the bounded  *)
(* overshoot of check_budget_before_dispatch), and by what the estimate of  *)
(* the last one fell short.  What has no row comes on top, as nothing       *)
(* counts it: attempts that failed, usage that was not reported, and        *)
(* transactions that failed; and so does what a reconciliation put back.    *)
OverspendIsBounded ==
    LET others == Cardinality(Callers) - 1
    IN  billed <= Cap + MaxCall * others + Shortfall + unrecorded + slip
=============================================================================
