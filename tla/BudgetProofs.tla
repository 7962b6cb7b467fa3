----------------------------- MODULE BudgetProofs -----------------------------
(***************************************************************************)
(* Proofs about Budget for any number of callers and reconcilers, any cap, *)
(* estimates, shortfalls and number of attempts: the counter differs from  *)
(* the audit rows by what the last overwrite put back, and what is charged *)
(* exceeds the cap by a bounded number of calls and by what has no row.    *)
(* What calls may still cost, and what is due, are sums over the callers;  *)
(* they are counted as sets of units, one by one.                          *)
(***************************************************************************)
EXTENDS Budget, FiniteSetTheorems, TLAPS

-----------------------------------------------------------------------------
(* The inductive invariant *)

(* A reconciler that is not between its two statements has missed nothing.  *)
IdleReconcilers == \A r \in Reconcilers \ open : during[r] = 0

(* One element for every unit that d gives to a caller.                     *)
Units(d) == {u \in Callers \X (1 .. MaxCall) : u[2] <= d[u[1]]}

(* What is due is an answer's, within what the call under way may cost; no  *)
(* other call may cost anything.  An overwrite that put the counter back is *)
(* remembered.                                                              *)
CallsAreKnown ==
    /\ \A c \in Callers :
        /\ due[c] <= room[c]
        /\ stage[c] = "idle" => room[c] = 0
        /\ stage[c] # "answered" => due[c] = 0
    /\ behind <= slip

Others == MaxCall * (Cardinality(Callers) - 1)

(* What is recorded and what the calls on their way may still add.  It      *)
(* grows in Dispatch only, where the check has just looked.                 *)
Committed == rows + Cardinality(Units(room)) <= Cap + Others + Shortfall + slip

BInv ==
    /\ BudgetTypeOK
    /\ CounterIsTheRows
    /\ IdleReconcilers
    /\ CallsAreKnown
    /\ Committed

-----------------------------------------------------------------------------
(* Facts about the numbers *)

LEMMA MaxCallType ==
  /\ MaxCall \in Nat /\ MaxEstimate \in Nat /\ Miss \in Nat /\ Cap \in Nat
  /\ MaxCall = MaxEstimate + Miss
BY BudgetConstants DEF MaxCall

LEMMA BoundsType == Others \in Nat /\ Shortfall \in Nat /\ Miss <= Shortfall
<1>1. Cardinality(Callers) \in Nat /\ Cardinality(Callers) # 0
  BY FS_CardinalityType, FS_EmptySet, BudgetConstants
<1>2. Cardinality(Callers) - 1 \in Nat
  BY <1>1
<1>3. Others \in Nat
  BY <1>2, MaxCallType DEF Others
<1>4. QED
  BY <1>3, MaxCallType DEF Shortfall

LEMMA IntervalCounts ==
  ASSUME NEW n \in Nat
  PROVE  IsFiniteSet(1 .. n) /\ Cardinality(1 .. n) = n
<1>1. IsFiniteSet(1 .. n) /\ Cardinality(1 .. n) = IF 1 > n THEN 0 ELSE n - 1 + 1
  BY FS_Interval
<1>2. QED
  BY <1>1

LEMMA UnitsAreFinite ==
  ASSUME NEW d
  PROVE  IsFiniteSet(Units(d)) /\ Cardinality(Units(d)) \in Nat
<1>1. IsFiniteSet(Callers \X (1 .. MaxCall))
  BY MaxCallType, BudgetConstants, IntervalCounts, FS_Product
<1>2. Units(d) \subseteq Callers \X (1 .. MaxCall)
  BY DEF Units
<1>3. QED
  BY <1>1, <1>2, FS_Subset, FS_CardinalityType

(* What one caller more is given adds up.                                   *)
LEMMA UnitsOfOneMore ==
  ASSUME NEW d \in [Callers -> 0 .. MaxCall], NEW c \in Callers, d[c] = 0,
         NEW n \in 0 .. MaxCall
  PROVE  Cardinality(Units([d EXCEPT ![c] = n])) = Cardinality(Units(d)) + n
<1> DEFINE e == [d EXCEPT ![c] = n]
           own == {c} \X (1 .. n)
<1>0. n \in Nat /\ MaxCall \in Nat /\ n <= MaxCall
  BY MaxCallType
<1>1. Units(e) = Units(d) \cup own
  <2>1. ASSUME NEW u \in Units(e) PROVE u \in Units(d) \cup own
    <3>1. PICK x \in Callers, k \in 1 .. MaxCall : u = <<x, k>> /\ k <= e[x]
      BY <2>1 DEF Units
    <3>2. CASE x = c
      <4>1. k \in 1 .. n
        BY <1>0, <3>1, <3>2
      <4>2. QED
        BY <3>1, <3>2, <4>1
    <3>3. CASE x # c
      BY <3>1, <3>3 DEF Units
    <3>4. QED
      BY <3>2, <3>3
  <2>2. ASSUME NEW u \in Units(d) PROVE u \in Units(e)
    <3>1. PICK x \in Callers, k \in 1 .. MaxCall : u = <<x, k>> /\ k <= d[x]
      BY <2>2 DEF Units
    <3>2. x # c
      BY <1>0, <3>1
    <3>3. QED
      BY <3>1, <3>2 DEF Units
  <2>3. ASSUME NEW u \in own PROVE u \in Units(e)
    <3>1. PICK k \in 1 .. n : u = <<c, k>>
      BY <2>3
    <3>2. k \in 1 .. MaxCall /\ k <= e[c]
      BY <1>0, <3>1
    <3>3. QED
      BY <3>1, <3>2 DEF Units
  <2>4. QED
    BY <2>1, <2>2, <2>3
<1>2. Units(d) \cap own = {}
  BY <1>0 DEF Units
<1>3. IsFiniteSet(own) /\ Cardinality(own) = n
  <2>1. /\ IsFiniteSet({c}) /\ Cardinality({c}) = 1
        /\ IsFiniteSet(1 .. n) /\ Cardinality(1 .. n) = n
    BY <1>0, FS_Singleton, IntervalCounts
  <2>2. IsFiniteSet(own) /\ Cardinality(own) = Cardinality({c}) * Cardinality(1 .. n)
    BY <2>1, FS_Product
  <2>3. QED
    BY <1>0, <2>1, <2>2
<1>4. Cardinality(Units(d) \cup own) = Cardinality(Units(d)) + Cardinality(own)
                                         - Cardinality(Units(d) \cap own)
  BY <1>3, UnitsAreFinite, FS_Union
<1>5. Cardinality(Units(d) \cap own) = 0
  BY <1>2, FS_EmptySet
<1>6. Cardinality(Units(d)) \in Nat
  BY UnitsAreFinite
<1>7. Cardinality(Units(e)) = Cardinality(Units(d)) + Cardinality(own)
                                - Cardinality(Units(d) \cap own)
  BY <1>1, <1>4, Zenon
<1>8. Cardinality(Units(e)) = Cardinality(Units(d)) + n - 0
  BY <1>3, <1>5, <1>7, Zenon
<1>9. QED
  BY <1>0, <1>6, <1>8

(* More for each caller is more in all.                                     *)
LEMMA UnitsAreMonotone ==
  ASSUME NEW d \in [Callers -> 0 .. MaxCall], NEW e \in [Callers -> 0 .. MaxCall],
         \A c \in Callers : d[c] <= e[c]
  PROVE  Cardinality(Units(d)) <= Cardinality(Units(e))
<1>1. Units(d) \subseteq Units(e)
  <2> SUFFICES ASSUME NEW x \in Callers, NEW k \in 1 .. MaxCall, k <= d[x]
               PROVE  k <= e[x]
    BY DEF Units
  <2>1. d[x] \in Nat /\ e[x] \in Nat /\ d[x] <= e[x] /\ k \in Nat
    BY MaxCallType
  <2>2. QED
    BY <2>1
<1>2. QED
  BY <1>1, UnitsAreFinite, FS_Subset

(* All but one have at most MaxCall each.                                   *)
LEMMA UnitsOfOthers ==
  ASSUME NEW d \in [Callers -> 0 .. MaxCall], NEW c \in Callers, d[c] = 0
  PROVE  Cardinality(Units(d)) <= Others
<1> DEFINE most == (Callers \ {c}) \X (1 .. MaxCall)
<1>1. Units(d) \subseteq most
  <2> SUFFICES ASSUME NEW x \in Callers, NEW k \in 1 .. MaxCall, k <= d[x]
               PROVE  x # c
    BY DEF Units
  <2>1. k \in Nat /\ k >= 1
    OBVIOUS
  <2>2. QED
    BY <2>1
<1>2. IsFiniteSet(Callers \ {c}) /\ Cardinality(Callers \ {c}) = Cardinality(Callers) - 1
  BY FS_RemoveElement, BudgetConstants
<1>3. IsFiniteSet(1 .. MaxCall) /\ Cardinality(1 .. MaxCall) = MaxCall
  BY MaxCallType, IntervalCounts
<1>4. IsFiniteSet(most) /\ Cardinality(most) = (Cardinality(Callers) - 1) * MaxCall
  <2>1. IsFiniteSet(most) /\ Cardinality(most) = Cardinality(Callers \ {c}) * Cardinality(1 .. MaxCall)
    BY <1>2, <1>3, FS_Product
  <2>2. QED
    BY <1>2, <1>3, <2>1
<1>5. Cardinality(Units(d)) <= Cardinality(most)
  BY <1>1, <1>4, FS_Subset
<1>6. (Cardinality(Callers) - 1) * MaxCall = Others
  <2>1. Cardinality(Callers) - 1 \in Int
    BY BudgetConstants, FS_CardinalityType
  <2>2. QED
    BY <2>1, MaxCallType DEF Others
<1>7. QED
  BY <1>4, <1>5, <1>6

(* A function with a new value for one caller.                              *)
LEMMA OneChanged ==
  ASSUME NEW d \in [Callers -> 0 .. MaxCall], NEW c \in Callers, NEW n \in 0 .. MaxCall,
         d[c] = 0
  PROVE  /\ [d EXCEPT ![c] = n] \in [Callers -> 0 .. MaxCall]
         /\ Cardinality(Units(d)) \in Nat
         /\ Cardinality(Units([d EXCEPT ![c] = n])) = Cardinality(Units(d)) + n
BY UnitsOfOneMore, UnitsAreFinite

LEMMA OneCleared ==
  ASSUME NEW d \in [Callers -> 0 .. MaxCall], NEW c \in Callers
  PROVE  /\ [d EXCEPT ![c] = 0] \in [Callers -> 0 .. MaxCall]
         /\ Cardinality(Units([d EXCEPT ![c] = 0])) \in Nat
         /\ Cardinality(Units(d)) = Cardinality(Units([d EXCEPT ![c] = 0])) + d[c]
<1> DEFINE e == [d EXCEPT ![c] = 0]
<1>1. e \in [Callers -> 0 .. MaxCall] /\ e[c] = 0 /\ d[c] \in 0 .. MaxCall
  BY MaxCallType
<1>2. [e EXCEPT ![c] = d[c]] = d
  OBVIOUS
<1> HIDE DEF e
<1>3. Cardinality(Units([e EXCEPT ![c] = d[c]])) = Cardinality(Units(e)) + d[c]
  BY <1>1, UnitsOfOneMore
<1>4. QED
  BY <1>1, <1>2, <1>3, UnitsAreFinite DEF e

-----------------------------------------------------------------------------
LEMMA BudgetInitInv == BudgetInit => BInv
<1> SUFFICES ASSUME BudgetInit PROVE BInv
  OBVIOUS
<1>1. BudgetTypeOK
  BY MaxCallType, BudgetConstants DEF BudgetInit, BudgetTypeOK
<1>2. CounterIsTheRows /\ IdleReconcilers /\ CallsAreKnown
  BY DEF BudgetInit, CounterIsTheRows, IdleReconcilers, CallsAreKnown
<1>3. Units(room) = {}
  BY MaxCallType DEF BudgetInit, Units
<1>4. Committed
  BY <1>3, BoundsType, MaxCallType, FS_EmptySet DEF BudgetInit, Committed
<1>5. QED
  BY <1>1, <1>2, <1>4 DEF BInv

-----------------------------------------------------------------------------
(* The check passes: what is recorded is below the cap by the estimate of   *)
(* this call, up to what an overwrite has put back; the call may cost what  *)
(* the estimate fell short by on top; and the other callers are on their    *)
(* way with one call each at most.                                          *)
LEMMA DispatchKeeps ==
  ASSUME BInv, NEW c \in Callers, NEW estimate \in Estimates(c), Dispatch(c, estimate)
  PROVE  BInv'
<1> USE DEF BInv
<1> DEFINE n == MostOf(c, estimate)
<1>1. /\ estimate \in Nat /\ n \in 0 .. MaxCall /\ n \in Nat
      /\ n <= estimate + Shortfall
  <2>1. CASE price[c] = "free"
    <3>1. estimate = 0 /\ n = 0
      BY <2>1 DEF Estimates, MostOf
    <3>2. QED
      BY <3>1, MaxCallType, BoundsType
  <2>2. CASE price[c] = "named"
    <3>1. estimate \in 1 .. MaxEstimate /\ n = estimate + Miss
      BY <2>2 DEF Estimates, MostOf
    <3> HIDE DEF n
    <3>2. QED
      BY <3>1, MaxCallType, BoundsType
  <2>3. CASE price[c] = "wrapped"
    <3>1. estimate = 0 /\ n = MaxCall
      BY <2>3 DEF Estimates, MostOf
    <3>2. Shortfall = MaxCall
      BY <2>3 DEF Shortfall
    <3>3. QED
      BY <3>1, <3>2, MaxCallType
  <2>4. price[c] \in Prices
    BY DEF BudgetTypeOK
  <2>5. QED
    BY <2>1, <2>2, <2>3, <2>4 DEF Prices
<1>2. /\ room \in [Callers -> 0 .. MaxCall] /\ room[c] = 0
      /\ room' = [room EXCEPT ![c] = n] /\ stage[c] = "idle"
      /\ stage' = [stage EXCEPT ![c] = "sent"]
      /\ spent + estimate <= Cap
  <2>1. /\ room \in [Callers -> 0 .. MaxCall] /\ stage[c] = "idle"
        /\ room' = [room EXCEPT ![c] = n]
        /\ stage' = [stage EXCEPT ![c] = "sent"]
    BY DEF Dispatch, BudgetTypeOK
  <2>2. room[c] = 0
    BY <2>1 DEF CallsAreKnown
  <2>3. spent + estimate <= Cap
    BY <1>1, MaxCallType DEF Dispatch, Exceeds, BudgetTypeOK
  <2>4. QED
    BY <2>1, <2>2, <2>3
<1> HIDE DEF n
<1>3. room' \in [Callers -> 0 .. MaxCall]
  BY <1>1, <1>2, OneChanged
<1>4. BudgetTypeOK' /\ CounterIsTheRows' /\ IdleReconcilers'
  BY <1>3 DEF Dispatch, BudgetTypeOK, CounterIsTheRows, IdleReconcilers
<1>5. CallsAreKnown'
  BY <1>1, <1>2 DEF Dispatch, CallsAreKnown, BudgetTypeOK
<1>6. Shortfall' = Shortfall /\ rows' = rows /\ slip' = slip
  BY DEF Dispatch, Shortfall
<1>7. Cardinality(Units(room')) = Cardinality(Units(room)) + n
  <2>1. Cardinality(Units([room EXCEPT ![c] = n])) = Cardinality(Units(room)) + n
    BY <1>1, <1>2, UnitsOfOneMore
  <2>2. QED
    BY <1>2, <2>1, Zenon
<1>8. Cardinality(Units(room)) <= Others /\ Cardinality(Units(room)) \in Nat
  BY <1>2, UnitsOfOthers, UnitsAreFinite
<1>9. rows <= Cap - estimate + slip
  BY <1>1, <1>2, MaxCallType DEF CounterIsTheRows, CallsAreKnown, BudgetTypeOK
<1>10. rows' + Cardinality(Units(room')) <= Cap + Others + Shortfall' + slip'
  BY <1>1, <1>6, <1>7, <1>8, <1>9, BoundsType, MaxCallType DEF BudgetTypeOK
<1>11. QED
  BY <1>4, <1>5, <1>10 DEF Committed, Units

(* An attempt is charged within what the call may cost.                     *)
LEMMA CostsAreBounded ==
  ASSUME BInv, NEW c \in Callers, NEW cost \in Costs(c)
  PROVE  /\ room[c] \in Nat /\ cost \in 0 .. MaxCall /\ cost \in Nat /\ cost <= room[c]
         /\ \A reported \in Reported(cost) :
              /\ reported \in 0 .. MaxCall /\ reported \in Nat /\ reported <= room[c]
              /\ cost - reported \in Nat
<1>1. room[c] \in 0 .. MaxCall /\ MaxCall \in Nat
  BY MaxCallType DEF BInv, BudgetTypeOK
<1>2. cost \in 0 .. room[c]
  BY DEF Costs
<1>3. QED
  BY <1>1, <1>2 DEF Reported

LEMMA AnswerKeeps ==
  ASSUME BInv, NEW c \in Callers, NEW cost \in Costs(c), NEW reported \in Reported(cost),
         Answer(c, cost, reported)
  PROVE  BInv'
<1> USE DEF BInv
<1>1. /\ reported \in 0 .. MaxCall /\ reported <= room[c] /\ cost \in Nat
      /\ cost - reported \in Nat
  BY CostsAreBounded
<1>2. BudgetTypeOK'
  <2>1. due' \in [Callers -> 0 .. MaxCall] /\ stage' \in [Callers -> {"idle", "sent", "answered"}]
    BY <1>1 DEF Answer, BudgetTypeOK
  <2>2. billed' \in Nat /\ unrecorded' \in Nat
    BY <1>1 DEF Answer, BudgetTypeOK
  <2>3. QED
    BY <2>1, <2>2 DEF Answer, BudgetTypeOK
<1>3. CounterIsTheRows' /\ IdleReconcilers'
  BY DEF Answer, CounterIsTheRows, IdleReconcilers
<1>4. CallsAreKnown'
  BY <1>1 DEF Answer, BudgetTypeOK, CallsAreKnown
<1>5. UNCHANGED <<rows, room, slip>> /\ Shortfall' = Shortfall
  BY DEF Answer, Shortfall
<1>6. QED
  BY <1>2, <1>3, <1>4, <1>5 DEF Committed, Units

(* A failed attempt adds to what is charged and has no row.                 *)
LEMMA RetryKeeps ==
  ASSUME BInv, NEW c \in Callers, NEW cost \in Costs(c), Retry(c, cost)
  PROVE  BInv'
<1> USE DEF BInv
<1>1. tries' \in [Callers -> 0 .. 2 * MAX_TRANSIENT_RETRIES + 1]
  <2>1. /\ tries \in [Callers -> 0 .. 2 * MAX_TRANSIENT_RETRIES + 1]
        /\ MostRetries(c) \in Nat /\ MostRetries(c) <= 2 * MAX_TRANSIENT_RETRIES + 1
        /\ MAX_TRANSIENT_RETRIES \in Nat
    BY BudgetConstants DEF BudgetTypeOK, MostRetries, Prices
  <2>2. tries[c] \in Nat /\ tries[c] < MostRetries(c)
    BY <2>1 DEF Retry
  <2>3. tries[c] + 1 \in 0 .. 2 * MAX_TRANSIENT_RETRIES + 1
    BY <2>1, <2>2
  <2>4. tries' = [tries EXCEPT ![c] = tries[c] + 1]
    BY DEF Retry
  <2>5. QED
    BY <2>1, <2>3, <2>4
<1>2. billed' \in Nat /\ unrecorded' \in Nat
  BY CostsAreBounded DEF Retry, BudgetTypeOK
<1>3. BudgetTypeOK'
  BY <1>1, <1>2 DEF Retry, BudgetTypeOK
<1>4. CounterIsTheRows' /\ IdleReconcilers' /\ CallsAreKnown'
  BY DEF Retry, CounterIsTheRows, IdleReconcilers, CallsAreKnown
<1>5. UNCHANGED <<rows, room, slip>> /\ Shortfall' = Shortfall
  BY DEF Retry, Shortfall
<1>6. QED
  BY <1>3, <1>4, <1>5 DEF Committed, Units

(* The end of a call gives up its room; a record takes of it, into the      *)
(* counter and the rows, what the answer cost.                              *)
LEMMA EndingKeeps ==
  ASSUME BInv, NEW c \in Callers,
         (\E cost \in Costs(c) : Raise(c, cost)) \/ RecordCall(c) \/ LoseCall(c)
  PROVE  BInv'
<1> USE DEF BInv
<1>1. /\ HangUp(c) /\ price' = price /\ slip' = slip /\ behind' = behind
      /\ UNCHANGED <<open, sum, begun>>
  BY DEF Raise, RecordCall, LoseCall
<1>2. /\ rows' \in Nat /\ rows' <= rows + due[c] /\ due[c] \in Nat /\ rows \in Nat
      /\ room[c] \in Nat /\ due[c] <= room[c] /\ spent' \in Nat
  BY MaxCallType DEF Raise, RecordCall, LoseCall, BudgetTypeOK, CallsAreKnown
<1>3. BudgetTypeOK'
  <2>1. /\ stage' \in [Callers -> {"idle", "sent", "answered"}]
        /\ due' \in [Callers -> 0 .. MaxCall] /\ room' \in [Callers -> 0 .. MaxCall]
    BY <1>1, OneCleared DEF HangUp, BudgetTypeOK
  <2>2. tries' \in [Callers -> 0 .. 2 * MAX_TRANSIENT_RETRIES + 1]
    BY <1>1, BudgetConstants DEF HangUp, BudgetTypeOK
  <2>3. /\ billed' \in Nat /\ unrecorded' \in Nat /\ losses' \in 0 .. MaxLost
        /\ during' \in [Reconcilers -> Nat]
    <3>1. ASSUME NEW cost \in Costs(c), Raise(c, cost)
          PROVE  /\ billed' \in Nat /\ unrecorded' \in Nat /\ losses' \in 0 .. MaxLost
                 /\ during' \in [Reconcilers -> Nat]
      BY <3>1, CostsAreBounded DEF Raise, BudgetTypeOK
    <3>2. CASE RecordCall(c)
      BY <1>2, <3>2 DEF RecordCall, BudgetTypeOK
    <3>3. CASE LoseCall(c)
      BY <1>2, <3>3, BudgetConstants DEF LoseCall, BudgetTypeOK
    <3>4. QED
      BY <3>1, <3>2, <3>3
  <2>4. QED
    BY <1>1, <1>2, <2>1, <2>2, <2>3 DEF BudgetTypeOK
<1>4. CounterIsTheRows' /\ IdleReconcilers'
  <2>1. CASE RecordCall(c)
    <3>1. spent' + behind' = rows'
      BY <1>2, <2>1 DEF RecordCall, CounterIsTheRows, BudgetTypeOK
    <3>2. \A r \in open' : sum'[r] + during'[r] = rows'
      <4> SUFFICES ASSUME NEW r \in open PROVE sum[r] + during'[r] = rows'
        BY <2>1 DEF RecordCall
      <4>1. r \in Reconcilers /\ sum[r] \in Nat /\ during[r] \in Nat
        BY DEF BudgetTypeOK
      <4>2. during'[r] = during[r] + due[c] /\ rows' = rows + due[c]
        BY <2>1, <4>1 DEF RecordCall
      <4>3. QED
        BY <1>2, <4>1, <4>2 DEF CounterIsTheRows
    <3>3. IdleReconcilers'
      BY <2>1 DEF RecordCall, IdleReconcilers
    <3>4. QED
      BY <3>1, <3>2, <3>3 DEF CounterIsTheRows
  <2>2. CASE (\E cost \in Costs(c) : Raise(c, cost)) \/ LoseCall(c)
    BY <2>2 DEF Raise, LoseCall, CounterIsTheRows, IdleReconcilers
  <2>3. QED
    BY <2>1, <2>2
<1>5. CallsAreKnown'
  BY <1>1 DEF HangUp, CallsAreKnown, BudgetTypeOK
<1>6. Shortfall' = Shortfall
  BY <1>1 DEF Shortfall
<1>7. /\ Cardinality(Units(room')) \in Nat
      /\ Cardinality(Units(room)) = Cardinality(Units(room')) + room[c]
  BY <1>1, OneCleared DEF HangUp, BudgetTypeOK
<1>8. rows' + Cardinality(Units(room')) <= Cap + Others + Shortfall' + slip'
  BY <1>1, <1>2, <1>6, <1>7, BoundsType, MaxCallType DEF Committed, BudgetTypeOK
<1>9. QED
  BY <1>3, <1>4, <1>5, <1>8 DEF Committed, Units

(* The overwrite puts the counter back by exactly what was recorded since   *)
(* the sum was read.                                                        *)
LEMMA ReconcileKeeps ==
  ASSUME BInv, NEW r \in Reconcilers, ReadRows(r) \/ Overwrite(r) \/ GiveUp(r)
  PROVE  BInv'
<1> USE DEF BInv
<1>1. /\ room' = room /\ Shortfall' = Shortfall /\ rows' = rows
      /\ slip' \in Nat /\ slip <= slip'
  BY DEF ReadRows, Overwrite, GiveUp, Shortfall, BudgetTypeOK
<1>2. BudgetTypeOK'
  <2>1. CASE ReadRows(r)
    BY <2>1, BudgetConstants DEF ReadRows, BudgetTypeOK
  <2>2. CASE Overwrite(r) \/ GiveUp(r)
    BY <2>2 DEF Overwrite, GiveUp, TakeSum, BudgetTypeOK
  <2>3. QED
    BY <2>1, <2>2
<1>3. CounterIsTheRows'
  <2>1. CASE ReadRows(r)
    BY <2>1 DEF ReadRows, CounterIsTheRows, IdleReconcilers, BudgetTypeOK
  <2>2. CASE Overwrite(r)
    BY <2>2 DEF Overwrite, TakeSum, CounterIsTheRows, BudgetTypeOK
  <2>3. CASE GiveUp(r)
    BY <2>3 DEF GiveUp, CounterIsTheRows, BudgetTypeOK
  <2>4. QED
    BY <2>1, <2>2, <2>3
<1>4. IdleReconcilers'
  BY DEF ReadRows, Overwrite, GiveUp, IdleReconcilers, BudgetTypeOK
<1>5. CallsAreKnown'
  BY DEF ReadRows, Overwrite, GiveUp, CallsAreKnown, BudgetTypeOK
<1>6. rows' + Cardinality(Units(room')) <= Cap + Others + Shortfall' + slip'
  <2>1. Cardinality(Units(room)) \in Nat
    BY UnitsAreFinite
  <2>2. QED
    BY <1>1, <2>1, BoundsType, MaxCallType DEF Committed, BudgetTypeOK
<1>7. QED
  BY <1>2, <1>3, <1>4, <1>5, <1>6 DEF Committed, Units

LEMMA BudgetStepInv == BInv /\ [BudgetNext]_budgetVars => BInv'
<1> SUFFICES ASSUME BInv, [BudgetNext]_budgetVars PROVE BInv'
  OBVIOUS
<1>1. ASSUME NEW c \in Callers, NEW estimate \in Estimates(c), Dispatch(c, estimate) PROVE BInv'
  BY <1>1, DispatchKeeps
<1>2. ASSUME NEW c \in Callers, NEW cost \in Costs(c),
             (\E reported \in Reported(cost) : Answer(c, cost, reported)) \/ Retry(c, cost)
      PROVE  BInv'
  BY <1>2, AnswerKeeps, RetryKeeps
<1>3. ASSUME NEW c \in Callers,
             (\E cost \in Costs(c) : Raise(c, cost)) \/ RecordCall(c) \/ LoseCall(c)
      PROVE  BInv'
  BY <1>3, EndingKeeps
<1>4. CASE Reconcile
  BY <1>4, ReconcileKeeps DEF Reconcile
<1>5. CASE UNCHANGED budgetVars
  <2>1. BudgetTypeOK' /\ CounterIsTheRows' /\ IdleReconcilers' /\ CallsAreKnown'
    BY <1>5 DEF BInv, budgetVars, BudgetTypeOK, CounterIsTheRows, IdleReconcilers, CallsAreKnown
  <2>2. room' = room /\ Shortfall' = Shortfall /\ rows' = rows /\ slip' = slip
    BY <1>5 DEF budgetVars, Shortfall
  <2>3. QED
    BY <2>1, <2>2 DEF BInv, Committed, Units
<1>6. QED
  BY <1>1, <1>2, <1>3, <1>4, <1>5 DEF BudgetNext, Refuse

-----------------------------------------------------------------------------
(* The strengthening holds in every reachable state: what is recorded and   *)
(* what the calls on their way may still cost, each within its estimate and *)
(* the shortfall, is bounded together (check_budget_before_dispatch).       *)
THEOREM BudgetInvariance == BudgetSpec => []BInv
BY BudgetInitInv, BudgetStepInv, PTL DEF BudgetSpec

(* Whatever calls run at once, fail, or are recorded while a reconciliation *)
(* is between its statements, the counter is the sum of the audit rows less *)
(* what the last overwrite put back (record_spend, reconcile_budget).       *)
THEOREM CounterFollowsRows == BudgetSpec => []CounterIsTheRows
<1>1. BInv => CounterIsTheRows
  BY DEF BInv
<1>2. QED
  BY BudgetInvariance, <1>1, PTL

(* What the audit rows add up to exceeds the cap by one call of each other  *)
(* caller at most, by what the estimate of the last one fell short, and by  *)
(* what overwrites put back (check_budget_before_dispatch).                 *)
RecordedSpendIsBounded == rows <= Cap + Others + Shortfall + slip

(* The recorded spend is so bounded in every state of the budget.           *)
THEOREM RecordedSpend == BudgetSpec => []RecordedSpendIsBounded
<1>1. BInv => RecordedSpendIsBounded
  <2> SUFFICES ASSUME BInv PROVE RecordedSpendIsBounded
    OBVIOUS
  <2>1. Cardinality(Units(room)) \in Nat
    BY UnitsAreFinite
  <2>2. QED
    BY <2>1, BoundsType, MaxCallType DEF BInv, Committed, BudgetTypeOK, RecordedSpendIsBounded
<1>2. QED
  BY BudgetInvariance, <1>1, PTL

-----------------------------------------------------------------------------
(* What was billed *)

(* What was charged is recorded, without a row for good, or due.            *)
Ledger == billed = rows + unrecorded + Cardinality(Units(due))

LEMMA InitLedger == BudgetInit => Ledger
<1> SUFFICES ASSUME BudgetInit PROVE Ledger
  OBVIOUS
<1>1. Units(due) = {}
  BY MaxCallType DEF BudgetInit, Units
<1>2. QED
  BY <1>1, FS_EmptySet DEF BudgetInit, Ledger

(* Every step moves what it moves from one column of the ledger to another, *)
(* or charges it.                                                           *)
LEMMA StepKeepsLedger ==
  BInv /\ Ledger /\ [BudgetNext]_budgetVars => Ledger'
<1> SUFFICES ASSUME BInv, Ledger, [BudgetNext]_budgetVars PROVE Ledger'
  OBVIOUS
<1>0. /\ due \in [Callers -> 0 .. MaxCall] /\ MaxCall \in Nat
      /\ rows \in Nat /\ unrecorded \in Nat /\ billed \in Nat
      /\ Cardinality(Units(due)) \in Nat
      /\ \A c \in Callers : stage[c] # "answered" => due[c] = 0
  BY MaxCallType, UnitsAreFinite DEF BInv, BudgetTypeOK, CallsAreKnown
<1>1. ASSUME billed' = rows' + unrecorded' + Cardinality(Units(due')) PROVE Ledger'
  BY <1>1 DEF Ledger, Units
<1>2. ASSUME NEW c \in Callers, NEW cost \in Costs(c), NEW reported \in Reported(cost),
             Answer(c, cost, reported)
      PROVE  Ledger'
  <2>1. reported \in 0 .. MaxCall /\ reported \in Nat /\ cost \in Nat
    BY CostsAreBounded
  <2>2. /\ due[c] = 0 /\ due' = [due EXCEPT ![c] = reported] /\ billed' = billed + cost
        /\ rows' = rows /\ unrecorded' = unrecorded + (cost - reported)
    BY <1>0, <1>2 DEF Answer
  <2>3. Cardinality(Units(due')) = Cardinality(Units(due)) + reported
    <3>1. Cardinality(Units([due EXCEPT ![c] = reported]))
            = Cardinality(Units(due)) + reported
      BY <1>0, <2>1, <2>2, UnitsOfOneMore
    <3>2. QED
      BY <2>2, <3>1, Zenon
  <2>4. QED
    BY <1>0, <1>1, <2>1, <2>2, <2>3 DEF Ledger
<1>3. ASSUME NEW c \in Callers, NEW cost \in Costs(c), Retry(c, cost) PROVE Ledger'
  <2>1. cost \in Nat
    BY CostsAreBounded
  <2>2. /\ due' = due /\ rows' = rows
        /\ billed' = billed + cost /\ unrecorded' = unrecorded + cost
    BY <1>3 DEF Retry
  <2>3. QED
    BY <1>0, <1>1, <2>1, <2>2 DEF Ledger
<1>4. ASSUME NEW c \in Callers, NEW cost \in Costs(c), Raise(c, cost) PROVE Ledger'
  <2>1. cost \in Nat /\ due[c] = 0
    BY <1>0, <1>4, CostsAreBounded DEF Raise
  <2>2. /\ due' = [due EXCEPT ![c] = 0] /\ rows' = rows
        /\ billed' = billed + cost /\ unrecorded' = unrecorded + cost
    BY <1>4 DEF Raise, HangUp
  <2>3. due' = due
    BY <1>0, <2>1, <2>2
  <2>4. QED
    BY <1>0, <1>1, <2>1, <2>2, <2>3 DEF Ledger
<1>5. ASSUME NEW c \in Callers, RecordCall(c) \/ LoseCall(c) PROVE Ledger'
  <2>1. due' = [due EXCEPT ![c] = 0] /\ due[c] \in Nat
    BY <1>0, <1>5 DEF RecordCall, LoseCall, HangUp
  <2>2. /\ Cardinality(Units(due')) \in Nat
        /\ Cardinality(Units(due)) = Cardinality(Units(due')) + due[c]
    BY <1>0, <2>1, OneCleared
  <2>3. /\ rows' + unrecorded' = rows + unrecorded + due[c] /\ billed' = billed
        /\ rows' \in Nat /\ unrecorded' \in Nat
    BY <1>0, <1>5, <2>1 DEF RecordCall, LoseCall
  <2>4. QED
    BY <1>0, <1>1, <2>2, <2>3 DEF Ledger
<1>6. ASSUME NEW c \in Callers, NEW estimate \in Estimates(c), Dispatch(c, estimate)
      PROVE  Ledger'
  BY <1>6 DEF Dispatch, Ledger, Units
<1>7. CASE Reconcile \/ UNCHANGED budgetVars
  <2>1. UNCHANGED <<due, billed, rows, unrecorded>>
    <3>1. ASSUME NEW r \in Reconcilers, ReadRows(r) \/ Overwrite(r) \/ GiveUp(r)
          PROVE  UNCHANGED <<due, billed, rows, unrecorded>>
      BY <3>1 DEF ReadRows, Overwrite, GiveUp
    <3>2. CASE UNCHANGED budgetVars
      BY <3>2 DEF budgetVars
    <3>3. QED
      BY <1>7, <3>1, <3>2 DEF Reconcile
  <2>2. QED
    BY <2>1 DEF Ledger, Units
<1>8. QED
  BY <1>2, <1>3, <1>4, <1>5, <1>6, <1>7 DEF BudgetNext, Refuse

(* What the providers charge exceeds the cap by one call of each caller but *)
(* one, by what the estimate of that one fell short, by what has no row,    *)
(* failed attempts above all, by what a reconciliation put back, and by     *)
(* nothing else, for any number of callers and attempts                     *)
(* (check_budget_before_dispatch, record_spend, _post_with_bounded_retry).  *)
THEOREM Overspend == BudgetSpec => []OverspendIsBounded
<1>1. BudgetInit => BInv /\ Ledger
  BY BudgetInitInv, InitLedger
<1>2. (BInv /\ Ledger) /\ [BudgetNext]_budgetVars => (BInv /\ Ledger)'
  BY BudgetStepInv, StepKeepsLedger
<1>3. BInv /\ Ledger => OverspendIsBounded
  <2> SUFFICES ASSUME BInv, Ledger PROVE OverspendIsBounded
    OBVIOUS
  <2>1. billed = rows + unrecorded + Cardinality(Units(due))
    BY DEF Ledger
  <2>2. rows + Cardinality(Units(room)) <= Cap + Others + Shortfall + slip
    BY DEF BInv, Committed
  <2>3. Cardinality(Units(due)) <= Cardinality(Units(room))
    BY UnitsAreMonotone DEF BInv, BudgetTypeOK, CallsAreKnown
  <2>4. /\ Cardinality(Units(due)) \in Nat /\ Cardinality(Units(room)) \in Nat
        /\ rows \in Nat /\ unrecorded \in Nat /\ slip \in Nat
    BY UnitsAreFinite DEF BInv, BudgetTypeOK
  <2>5. billed <= Cap + Others + Shortfall + unrecorded + slip
    BY <2>1, <2>2, <2>3, <2>4, BoundsType, MaxCallType
  <2>6. QED
    BY <2>5 DEF OverspendIsBounded, Others
<1>4. QED
  BY <1>1, <1>2, <1>3, PTL DEF BudgetSpec
=============================================================================
