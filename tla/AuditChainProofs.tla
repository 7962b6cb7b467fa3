--------------------------- MODULE AuditChainProofs ---------------------------
(***************************************************************************)
(* Proofs about AuditChain for any number of writers, any values and any   *)
(* history of chained rows: the chain is linear, and its order is that of  *)
(* the commits.  A history with rows that were never chained is left out:  *)
(* the model's audit_backfill run shows that a backfill breaks the links.  *)
(***************************************************************************)
EXTENDS AuditChain, FiniteSetTheorems, WellFoundedInduction, TLAPS

(* What is there when the model starts: rows of the earlier code, each      *)
(* chained, or none.                                                        *)
HistoryIsAChain ==
  /\ \A r \in Legacy : r.hash # NULL
  /\ \A r, s \in Legacy : Key(r) = Key(s) => r = s
  /\ Intact(Legacy)

-----------------------------------------------------------------------------
(* The order of the rows *)

Comparable(S) == \A r, s \in S : r = s \/ Before(r, s) \/ Before(s, r)

LEMMA BeforeIsStrict ==
  ASSUME NEW r \in AuditRows, NEW s \in AuditRows, Before(r, s)
  PROVE  ~Before(s, r)
BY NullAssumption DEF AuditRows, Before, Tables

LEMMA BeforeIsIrreflexive ==
  ASSUME NEW r \in AuditRows
  PROVE  ~Before(r, r)
BY NullAssumption DEF AuditRows, Before, Tables

LEMMA BeforeIsTransitive ==
  ASSUME NEW r \in AuditRows, NEW s \in AuditRows, NEW t \in AuditRows,
         Before(r, s), Before(s, t)
  PROVE  Before(r, t)
<1>1. CASE r.pos = NULL
  <2>1. CASE t.pos = NULL
    BY <1>1, <2>1, NullAssumption DEF AuditRows, Before, Tables
  <2>2. CASE t.pos # NULL
    BY <1>1, <2>2 DEF Before
  <2>3. QED
    BY <2>1, <2>2
<1>2. CASE r.pos # NULL
  BY <1>2, NullAssumption DEF AuditRows, Before, Tables
<1>3. QED
  BY <1>1, <1>2

LEMMA LastIsUnique ==
  ASSUME NEW S \in SUBSET AuditRows, NEW q, IsLast(q, S)
  PROVE  Last(S) = q /\ q \in S
<1>1. \A p : IsLast(p, S) => p = q
  BY BeforeIsStrict DEF IsLast
<1>2. QED
  BY <1>1 DEF Last, IsLast

(* Among finitely many rows, one has the fewest rows after it.              *)
LEMMA LastExists ==
  ASSUME NEW S \in SUBSET AuditRows, IsFiniteSet(S), S # {}, Comparable(S)
  PROVE  \E q \in S : IsLast(q, S)
<1> DEFINE After(r) == {q \in S : Before(r, q)}
           T == {After(r) : r \in S}
<1>1. T \subseteq FiniteSubsetsOf(S)
  <2>1. \A r \in S : IsFiniteSet(After(r))
    BY FS_Subset
  <2>2. QED
    BY <2>1 DEF FiniteSubsetsOf
<1>2. T # {}
  OBVIOUS
<1> HIDE DEF T
<1>3. PICK A \in T : \A B \in T : ~(<<B, A>> \in StrictSubsetOrdering(S))
  BY <1>1, <1>2, FS_StrictSubsetOrderingWellFounded, WFMin
<1> USE DEF T
<1>4. PICK q \in S : A = After(q)
  OBVIOUS
<1>5. ASSUME NEW r \in S, r # q, ~Before(r, q) PROVE FALSE
  <2>1. Before(q, r)
    BY <1>5 DEF Comparable
  <2>2. After(r) \subseteq After(q)
    BY <2>1, BeforeIsTransitive
  <2>3. r \in After(q) /\ r \notin After(r)
    BY <2>1, BeforeIsIrreflexive
  <2>4. <<After(r), A>> \in StrictSubsetOrdering(S)
    BY <1>4, <2>2, <2>3 DEF StrictSubsetOrdering
  <2>5. QED
    BY <1>3, <2>4
<1>6. QED
  BY <1>5 DEF IsLast

(* The last of the rows is after all others and before any that comes after *)
(* them all; hashes are those of the rows.                                  *)
LEMMA HashOfLastIsAHash ==
  ASSUME NEW S \in SUBSET AuditRows, IsFiniteSet(S), Comparable(S),
         \A r \in S : r.hash # NULL
  PROVE  HashOfLast(S) \in Hashes
<1>1. CASE S = {}
  BY <1>1 DEF HashOfLast, GENESIS_HASH, Hashes
<1>2. CASE S # {}
  <2>1. PICK q \in S : IsLast(q, S)
    BY <1>2, LastExists
  <2>2. Last(S) = q
    BY <2>1, LastIsUnique
  <2>3. q.hash \in Hashes
    BY DEF AuditRows
  <2>4. QED
    BY <1>2, <2>2, <2>3 DEF HashOfLast
<1>3. QED
  BY <1>1, <1>2

LEMMA ComputedHash ==
  ASSUME NEW prev \in Hashes, NEW r \in AuditRows
  PROVE  compute_row_hash(prev, r) \in Hashes
BY DEF compute_row_hash, Hashes, Contents, AuditRows

LEMMA ComputedIsNotNull == \A h \in Hashes : h # NULL
BY NullAssumption

-----------------------------------------------------------------------------
(* The inductive invariant *)

Size == Cardinality(Legacy)

(* The stored rows, edited or not: each is chained; keys and positions are  *)
(* unique and within what was drawn; before the backfill, positions are     *)
(* those of the sequence.                                                   *)
RowsInv ==
  /\ rows \subseteq AuditRows /\ IsFiniteSet(rows)
  /\ seq \in Nat
  /\ \A r \in rows : r.hash # NULL /\ r.id <= Size + seq
  /\ \A r, s \in rows : Key(r) = Key(s) => r = s
  /\ \A r \in rows : r.pos # NULL => r.pos <= seq
  /\ \A r, s \in rows : r.pos # NULL /\ r.pos = s.pos => r = s
  /\ (\E r \in rows : r.pos = NULL) => \A r \in rows : r.pos # NULL => r.pos > 0

(* A writer past the lock holds it, and what it is about to insert comes    *)
(* after every row.                                                         *)
WritersInv ==
  /\ lock \in Writers \cup {NoOne}
  /\ pc \in [Writers -> {"idle", "lock", "tip", "position", "insert"}]
  /\ pending \in [Writers -> AuditRows]
  /\ \A w \in Writers :
       /\ pc[w] \in {"tip", "position", "insert"} => lock = w
       /\ pc[w] \in {"position", "insert"} => pending[w].prev \in Hashes
       /\ pc[w] = "insert" =>
            /\ pending[w].pos = seq /\ pending[w].id = Size + seq
            /\ seq > 0
            /\ pending[w].hash = compute_row_hash(pending[w].prev, pending[w])
            /\ \A r \in rows : (r.pos # NULL => r.pos < seq) /\ r.id < Size + seq

(* What nobody has edited is linked.                                        *)
LinkedInv ==
  edits = 0 =>
    /\ Intact(rows)
    /\ \A w \in Writers :
         pc[w] \in {"position", "insert"} => pending[w].prev = HashOfLast(rows)

VerifierInv ==
  /\ vpc \in {"idle", "reading", "done"}
  /\ seen \subseteq AuditRows
  /\ edits \in Nat
  /\ \A e \in written : e.row[1] \in Tables /\ e.value \in Values

AInv == RowsInv /\ WritersInv /\ LinkedInv /\ VerifierInv

LEMMA AInvTypes == AInv => TypeOK
BY DEF AInv, RowsInv, WritersInv, VerifierInv, TypeOK

LEMMA SizeIsNat == Size \in Nat /\ IsFiniteSet(Legacy)
BY LegacyAssumption, FS_CardinalityType DEF Size

LEMMA RowsAreComparable ==
  ASSUME RowsInv
  PROVE  Comparable(rows) /\ Chained(rows) = rows
<1>1. \A r \in rows : r \in AuditRows
  BY DEF RowsInv
<1>2. ASSUME NEW r \in rows, NEW s \in rows, r # s PROVE Before(r, s) \/ Before(s, r)
  <2>1. Key(r) # Key(s) /\ (r.pos # NULL => r.pos # s.pos)
    BY <1>2 DEF RowsInv
  <2>2. r \in AuditRows /\ s \in AuditRows
    BY <1>1
  <2>3. r.table # s.table \/ r.id # s.id
    BY <2>1 DEF Key
  <2>4. CASE r.pos = NULL /\ s.pos = NULL
    BY <2>2, <2>3, <2>4 DEF AuditRows, Before, Tables
  <2>5. CASE ~(r.pos = NULL /\ s.pos = NULL)
    BY <2>1, <2>2, <2>5, NullAssumption DEF AuditRows, Before
  <2>6. QED
    BY <2>4, <2>5
<1>3. Chained(rows) = rows
  BY DEF RowsInv, Chained
<1>4. QED
  BY <1>2, <1>3 DEF Comparable

LEMMA NoRowIsARow == NoRow \in AuditRows
BY ValuesAssumption DEF NoRow, AuditRows, Tables

LEMMA EntriesAreTyped ==
  ASSUME NEW S \in SUBSET AuditRows
  PROVE  \A e \in Entries(S) : e.row[1] \in Tables /\ e.value \in Values
<1> SUFFICES ASSUME NEW r \in Chained(S)
             PROVE  Entry(r, S).row[1] \in Tables /\ Entry(r, S).value \in Values
  BY DEF Entries
<1>1. r \in AuditRows
  BY DEF Chained
<1>2. Entry(r, S).row = <<r.table, r.id>> /\ Entry(r, S).value = r.value
  BY DEF Entry, Key
<1>3. QED
  BY <1>1, <1>2 DEF AuditRows

LEMMA InitAInv == HistoryIsAChain /\ Init => AInv
<1> SUFFICES ASSUME HistoryIsAChain, Init PROVE AInv
  OBVIOUS
<1>1. RowsInv
  <2>1. rows = Legacy /\ seq = 0
    BY DEF Init
  <2>2. \A r \in Legacy : r \in AuditRows /\ r.pos = NULL /\ r.id \in 1..Size
    BY LegacyAssumption DEF Size
  <2>3. QED
    BY <2>1, <2>2, SizeIsNat DEF HistoryIsAChain, RowsInv
<1>2. WritersInv
  BY NoRowIsARow DEF Init, WritersInv
<1>3. LinkedInv
  BY DEF Init, LinkedInv, HistoryIsAChain
<1>4. VerifierInv
  <2>1. \A e \in Entries(Legacy) : e.row[1] \in Tables /\ e.value \in Values
    BY LegacyAssumption, EntriesAreTyped
  <2>2. QED
    BY <2>1 DEF Init, VerifierInv
<1>5. QED
  BY <1>1, <1>2, <1>3, <1>4 DEF AInv

-----------------------------------------------------------------------------
(* Appends *)

(* A row that comes after all others is linked to the last of them.         *)
LEMMA AppendKeepsLinks ==
  ASSUME RowsInv, Intact(rows), NEW x \in AuditRows,
         \A r \in rows : Before(r, x),
         x.prev = HashOfLast(rows), x.hash = compute_row_hash(x.prev, x), x.hash # NULL
  PROVE  Intact(rows \cup {x})
<1>1. Chained(rows) = rows /\ Chained(rows \cup {x}) = rows \cup {x}
  BY RowsAreComparable DEF Chained
<1>2. ASSUME NEW r \in rows
      PROVE  EarlierThan(r, rows \cup {x}) = EarlierThan(r, rows)
  BY BeforeIsStrict DEF EarlierThan, RowsInv
<1>3. EarlierThan(x, rows \cup {x}) = rows
  BY BeforeIsIrreflexive DEF EarlierThan
<1>4. QED
  BY <1>1, <1>2, <1>3 DEF Intact

LEMMA InsertIsLast ==
  ASSUME AInv, NEW w \in Writers, pc[w] = "insert"
  PROVE  /\ pending[w] \in AuditRows /\ pending[w].hash # NULL
         /\ \A r \in rows : Before(r, pending[w]) /\ Key(r) # Key(pending[w])
<1>1. pending[w] \in AuditRows
  BY DEF AInv, WritersInv
<1>2. pending[w].hash # NULL
  BY <1>1, ComputedHash, ComputedIsNotNull DEF AInv, WritersInv
<1>3. ASSUME NEW r \in rows PROVE Before(r, pending[w]) /\ Key(r) # Key(pending[w])
  <2>1. /\ pending[w].pos = seq /\ pending[w].id = Size + seq /\ seq \in Nat
        /\ (r.pos # NULL => r.pos < seq) /\ r.id < Size + seq /\ r \in AuditRows
    BY DEF AInv, WritersInv, RowsInv
  <2>2. pending[w].pos # NULL
    BY <2>1, NullAssumption
  <2>3. Before(r, pending[w])
    BY <2>1, <2>2 DEF Before
  <2>4. r.id # pending[w].id
    BY <2>1, SizeIsNat DEF AuditRows
  <2>5. QED
    BY <2>3, <2>4 DEF Key
<1>4. QED
  BY <1>1, <1>2, <1>3

LEMMA CommitKeepsAInv ==
  ASSUME AInv, NEW w \in Writers, CommitAppend(w)
  PROVE  AInv'
<1> DEFINE x == pending[w]
<1>0. /\ rows' = rows \cup {x} /\ seq' = seq /\ edits' = edits /\ pc[w] = "insert"
      /\ lock' = IF lock = w THEN NoOne ELSE lock
      /\ pc' = [pc EXCEPT ![w] = "idle"] /\ pending' = [pending EXCEPT ![w] = NoRow]
      /\ vpc' = vpc /\ seen' = seen
  BY DEF CommitAppend, EndAppend, verifierVars
<1>1. /\ x \in AuditRows /\ x.hash # NULL
      /\ \A r \in rows : Before(r, x) /\ Key(r) # Key(x)
  BY <1>0, InsertIsLast
<1>2. /\ x.pos = seq /\ x.id = Size + seq /\ seq > 0 /\ seq \in Nat /\ lock = w
      /\ x.hash = compute_row_hash(x.prev, x)
      /\ \A r \in rows : (r.pos # NULL => r.pos < seq) /\ r.id < Size + seq
  BY <1>0 DEF AInv, WritersInv, RowsInv
<1>3. IsFiniteSet(rows')
  BY <1>0, FS_AddElement DEF AInv, RowsInv
<1>4. x.pos # NULL /\ x.pos <= seq /\ x.id <= Size + seq
  BY <1>2, SizeIsNat, NullAssumption
<1>5. \A r \in rows : r.pos # x.pos
  BY <1>2, <1>4 DEF AInv, RowsInv, AuditRows
<1>6. RowsInv'
  <2>1. rows' \subseteq AuditRows /\ seq' \in Nat
    BY <1>0, <1>1, <1>2 DEF AInv, RowsInv
  <2>2. \A r \in rows' : r.hash # NULL /\ r.id <= Size + seq' /\ (r.pos # NULL => r.pos <= seq')
    BY <1>0, <1>1, <1>4 DEF AInv, RowsInv
  <2>3. \A r, s \in rows' : Key(r) = Key(s) => r = s
    BY <1>0, <1>1 DEF AInv, RowsInv
  <2>4. \A r, s \in rows' : r.pos # NULL /\ r.pos = s.pos => r = s
    BY <1>0, <1>5 DEF AInv, RowsInv
  <2>5. (\E r \in rows' : r.pos = NULL) => \A r \in rows' : r.pos # NULL => r.pos > 0
    BY <1>0, <1>2, <1>4 DEF AInv, RowsInv
  <2>6. QED
    BY <1>3, <2>1, <2>2, <2>3, <2>4, <2>5 DEF RowsInv, Size, Key
<1>7. \A v \in Writers : pc'[v] \notin {"tip", "position", "insert"}
  BY <1>0, <1>2 DEF AInv, WritersInv
<1>8. WritersInv'
  BY <1>0, <1>7, NoRowIsARow DEF AInv, WritersInv
<1>9. LinkedInv'
  <2> SUFFICES ASSUME edits = 0 PROVE Intact(rows')
    BY <1>0, <1>7 DEF LinkedInv
  <2>1. Intact(rows) /\ x.prev = HashOfLast(rows)
    BY <1>0 DEF AInv, LinkedInv
  <2>2. Intact(rows \cup {x})
    BY <1>1, <1>2, <2>1, AppendKeepsLinks DEF AInv
  <2>3. QED
    BY <1>0, <2>2
<1>10. VerifierInv'
  <2>1. written' = written \cup {[row |-> Key(x), value |-> x.value, after |-> follows[w]]}
    BY DEF CommitAppend
  <2>2. Key(x)[1] \in Tables /\ x.value \in Values
    BY <1>1 DEF Key, AuditRows
  <2>3. \A e \in written' : e.row[1] \in Tables /\ e.value \in Values
    BY <2>1, <2>2 DEF AInv, VerifierInv
  <2>4. QED
    BY <1>0, <2>3 DEF AInv, VerifierInv
<1>11. QED
  BY <1>6, <1>8, <1>9, <1>10 DEF AInv

(* The steps before the commit, and a rollback, leave the rows alone.       *)
LEMMA RowsLeftAlone ==
  ASSUME RowsInv, UNCHANGED rows, seq' \in {seq, seq + 1}
  PROVE  RowsInv'
<1>1. seq' \in Nat /\ seq <= seq' /\ seq \in Nat
  BY DEF RowsInv
<1>2. \A r \in rows : r.id \in Nat /\ r.pos \in Int \cup {NULL}
  BY DEF RowsInv, AuditRows
<1>3. \A r \in rows : r.id <= Size + seq' /\ (r.pos # NULL => r.pos <= seq')
  BY <1>1, <1>2, SizeIsNat DEF RowsInv
<1>4. QED
  BY <1>1, <1>3 DEF RowsInv, Size, Key

LEMMA VerifierLeftAlone ==
  ASSUME VerifierInv, UNCHANGED <<verifierVars, written, edits>>
  PROVE  VerifierInv'
BY DEF VerifierInv, verifierVars

LEMMA BeforeInsertKeepsAInv ==
  ASSUME AInv, NEW w \in Writers, StartAppend(w) \/ LockChain(w) \/ ReadTip(w) \/ Rollback(w)
  PROVE  AInv'
<1>0. rows' = rows /\ seq' = seq /\ edits' = edits
  BY DEF StartAppend, LockChain, ReadTip, Rollback
<1>1. RowsInv'
  BY <1>0, RowsLeftAlone DEF AInv
<1>2. VerifierInv'
  BY VerifierLeftAlone DEF AInv, StartAppend, LockChain, ReadTip, Rollback
<1>3. CASE StartAppend(w)
  <2>1. PICK t \in Tables, v \in Values :
          pending' = [pending EXCEPT ![w] = [NoRow EXCEPT !.table = t, !.value = v]]
    BY <1>3 DEF StartAppend
  <2>2. [NoRow EXCEPT !.table = t, !.value = v] \in AuditRows
    BY NoRowIsARow DEF AuditRows
  <2>3. pc' = [pc EXCEPT ![w] = "lock"] /\ lock' = lock /\ pc[w] = "idle"
    BY <1>3 DEF StartAppend
  <2>4. WritersInv'
    BY <1>0, <2>1, <2>2, <2>3 DEF AInv, WritersInv, Size
  <2>5. LinkedInv'
    BY <1>0, <2>1, <2>3 DEF AInv, LinkedInv, WritersInv
  <2>6. QED
    BY <1>1, <1>2, <2>4, <2>5 DEF AInv
<1>4. CASE LockChain(w)
  <2>1. /\ pc' = [pc EXCEPT ![w] = "tip"] /\ lock' = w /\ lock = NoOne /\ pc[w] = "lock"
        /\ pending' = pending
    BY <1>4 DEF LockChain
  <2>2. \A v \in Writers : pc[v] \notin {"tip", "position", "insert"}
    BY <2>1, NullAssumption DEF AInv, WritersInv
  <2>3. WritersInv'
    BY <1>0, <2>1, <2>2 DEF AInv, WritersInv, Size
  <2>4. LinkedInv'
    BY <1>0, <2>1, <2>2 DEF AInv, LinkedInv, WritersInv
  <2>5. QED
    BY <1>1, <1>2, <2>3, <2>4 DEF AInv
<1>5. CASE ReadTip(w)
  <2>1. /\ pc' = [pc EXCEPT ![w] = "position"] /\ lock' = lock /\ pc[w] = "tip"
        /\ pending' = [pending EXCEPT ![w].prev = CurrentTip(rows)]
    BY <1>5 DEF ReadTip
  <2>2. Comparable(rows) /\ Chained(rows) = rows
    BY RowsAreComparable DEF AInv
  <2>3. CurrentTip(rows) = HashOfLast(rows) /\ HashOfLast(rows) \in Hashes
    BY <2>2, HashOfLastIsAHash DEF CurrentTip, AInv, RowsInv
  <2>4. pending[w] \in AuditRows
    BY DEF AInv, WritersInv
  <2>5. /\ [pending[w] EXCEPT !.prev = HashOfLast(rows)] \in AuditRows
        /\ [pending[w] EXCEPT !.prev = HashOfLast(rows)].prev = HashOfLast(rows)
    BY <2>3, <2>4 DEF AuditRows
  <2>6. pending' = [pending EXCEPT ![w] = [pending[w] EXCEPT !.prev = HashOfLast(rows)]]
    BY <2>1, <2>3
  <2>7. \A v \in Writers : v # w => pc[v] \notin {"tip", "position", "insert"}
    BY <2>1 DEF AInv, WritersInv
  <2>8. pending' \in [Writers -> AuditRows] /\ pending'[w].prev = HashOfLast(rows)
    BY <2>5, <2>6 DEF AInv, WritersInv
  <2>9. pc' \in [Writers -> {"idle", "lock", "tip", "position", "insert"}] /\ pc'[w] = "position"
        /\ \A v \in Writers : v # w => pc'[v] \notin {"tip", "position", "insert"}
    BY <2>1, <2>7 DEF AInv, WritersInv
  <2>10. WritersInv'
    BY <1>0, <2>1, <2>3, <2>8, <2>9 DEF AInv, WritersInv, Size
  <2>11. LinkedInv'
    BY <1>0, <2>8, <2>9 DEF AInv, LinkedInv
  <2>12. QED
    BY <1>1, <1>2, <2>10, <2>11 DEF AInv
<1>6. CASE Rollback(w)
  <2>1. /\ pc' = [pc EXCEPT ![w] = "idle"] /\ pending' = [pending EXCEPT ![w] = NoRow]
        /\ lock' = IF lock = w THEN NoOne ELSE lock
    BY <1>6 DEF Rollback, EndAppend
  <2>2. WritersInv'
    BY <1>0, <2>1, NoRowIsARow DEF AInv, WritersInv, Size
  <2>3. LinkedInv'
    BY <1>0, <2>1 DEF AInv, LinkedInv, WritersInv
  <2>4. QED
    BY <1>1, <1>2, <2>2, <2>3 DEF AInv
<1>7. QED
  BY <1>3, <1>4, <1>5, <1>6

LEMMA DrawKeepsAInv ==
  ASSUME AInv, NEW w \in Writers, DrawPosition(w)
  PROVE  AInv'
<1> DEFINE x == [pending[w] EXCEPT !.pos = seq + 1, !.id = Size + seq + 1,
                                   !.hash = compute_row_hash(pending[w].prev, pending[w])]
<1>0. /\ rows' = rows /\ seq' = seq + 1 /\ edits' = edits /\ lock' = lock
      /\ pc[w] = "position" /\ pc' = [pc EXCEPT ![w] = "insert"]
      /\ pending' = [pending EXCEPT ![w] = x]
  BY DEF DrawPosition, Size
<1>1. RowsInv'
  BY <1>0, RowsLeftAlone DEF AInv
<1>2. VerifierInv'
  BY VerifierLeftAlone DEF AInv, DrawPosition
<1>3. seq \in Nat /\ pending[w] \in AuditRows /\ pending[w].prev \in Hashes /\ lock = w
  BY <1>0 DEF AInv, RowsInv, WritersInv
<1>4. compute_row_hash(pending[w].prev, pending[w]) \in Hashes
  BY <1>3, ComputedHash
<1>5. /\ x \in AuditRows /\ x.pos = seq + 1 /\ x.id = Size + seq + 1
      /\ x.hash = compute_row_hash(pending[w].prev, pending[w])
      /\ x.prev = pending[w].prev /\ x.table = pending[w].table /\ x.value = pending[w].value
  <2>1. seq + 1 \in Int /\ Size + seq + 1 \in Nat
    BY <1>3, SizeIsNat
  <2>2. QED
    BY <1>3, <1>4, <2>1 DEF AuditRows
<1> HIDE DEF x
<1>6. x.hash = compute_row_hash(x.prev, x)
  BY <1>5 DEF compute_row_hash
<1>7. \A r \in rows : (r.pos # NULL => r.pos < seq + 1) /\ r.id < Size + (seq + 1)
  <2>1. \A r \in rows : r.id \in Nat /\ r.pos \in Int \cup {NULL}
    BY DEF AInv, RowsInv, AuditRows
  <2>2. QED
    BY <1>3, <2>1, SizeIsNat DEF AInv, RowsInv
<1>8. \A v \in Writers : v # w => pc[v] \notin {"tip", "position", "insert"}
  BY <1>3 DEF AInv, WritersInv
<1>9. /\ pc' \in [Writers -> {"idle", "lock", "tip", "position", "insert"}]
      /\ pc'[w] = "insert" /\ pending'[w] = x /\ pending' \in [Writers -> AuditRows]
      /\ \A v \in Writers : v # w => pc'[v] \notin {"tip", "position", "insert"}
  BY <1>0, <1>5, <1>8 DEF AInv, WritersInv
<1>10. seq + 1 > 0 /\ Size + seq + 1 = Size + (seq + 1)
  BY <1>3, SizeIsNat
<1>11. WritersInv'
  BY <1>0, <1>3, <1>5, <1>6, <1>7, <1>9, <1>10 DEF AInv, WritersInv, Size
<1>12. LinkedInv'
  BY <1>0, <1>5, <1>9 DEF AInv, LinkedInv
<1>13. QED
  BY <1>1, <1>2, <1>11, <1>12 DEF AInv

(* A verification reads and changes nothing else.                           *)
LEMMA VerifyKeepsAInv ==
  ASSUME AInv, ReadTransitions \/ ReadActions
  PROVE  AInv'
<1>1. UNCHANGED <<rows, seq, lock, pc, pending, written, edits>>
  BY DEF ReadTransitions, ReadActions, writerVars
<1>2. vpc' \in {"reading", "done"} /\ seen' \subseteq seen \cup rows
  BY DEF ReadTransitions, ReadActions, RowsOf
<1>3. RowsInv' /\ WritersInv' /\ LinkedInv'
  BY <1>1 DEF AInv, RowsInv, WritersInv, LinkedInv, Size, Key
<1>4. VerifierInv'
  BY <1>1, <1>2 DEF AInv, VerifierInv, RowsInv
<1>5. QED
  BY <1>3, <1>4 DEF AInv

-----------------------------------------------------------------------------
(* Edits behind the application's back *)

(* An edit leaves rows with keys and positions that were there before.      *)
LEMMA EditFrame ==
  ASSUME AInv, Edit,
         rows' \subseteq AuditRows, IsFiniteSet(rows'),
         \A q \in rows' : q.hash # NULL
         /\ (\E p \in rows : p.id = q.id) /\ (\E p \in rows : p.pos = q.pos),
         \A p, q \in rows' : Key(p) = Key(q) => p = q,
         \A p, q \in rows' : p.pos # NULL /\ p.pos = q.pos => p = q
  PROVE  AInv'
<1>1. UNCHANGED <<seq, lock, pc, pending, vpc, seen, written>> /\ edits' = edits + 1
  BY DEF Edit, writerVars, verifierVars
<1>2. edits' \in Nat /\ edits' # 0
  BY <1>1 DEF AInv, VerifierInv
<1>3. RowsInv'
  <2>1. \A q \in rows' : q.id <= Size + seq /\ (q.pos # NULL => q.pos <= seq)
    BY DEF AInv, RowsInv
  <2>2. (\E q \in rows' : q.pos = NULL) => \A q \in rows' : q.pos # NULL => q.pos > 0
    BY DEF AInv, RowsInv
  <2>3. seq' \in Nat
    BY <1>1 DEF AInv, RowsInv
  <2>4. QED
    BY <1>1, <2>1, <2>2, <2>3 DEF RowsInv, Size, Key
<1>4. WritersInv'
  <2>1. ASSUME NEW w \in Writers, pc[w] = "insert"
        PROVE  \A q \in rows' : (q.pos # NULL => q.pos < seq) /\ q.id < Size + seq
    BY <2>1 DEF AInv, WritersInv
  <2>2. QED
    BY <1>1, <2>1 DEF AInv, WritersInv, Size
<1>5. LinkedInv'
  BY <1>2 DEF LinkedInv
<1>6. VerifierInv'
  BY <1>1, <1>2 DEF AInv, VerifierInv
<1>7. QED
  BY <1>3, <1>4, <1>5, <1>6 DEF AInv

LEMMA TamperKeepsAInv ==
  ASSUME AInv, Tamper
  PROVE  AInv'
<1>0. /\ rows \subseteq AuditRows /\ IsFiniteSet(rows)
      /\ \A q \in rows : q.hash # NULL
      /\ \A p, q \in rows : Key(p) = Key(q) => p = q
      /\ \A p, q \in rows : p.pos # NULL /\ p.pos = q.pos => p = q
  BY DEF AInv, RowsInv
<1>1. CASE rows' \subseteq rows /\ Edit
  <2>1. IsFiniteSet(rows')
    BY <1>0, <1>1, FS_Subset
  <2>2. QED
    BY <1>0, <1>1, <2>1, EditFrame
<1>2. ASSUME NEW r \in rows, AlterRow(r) PROVE AInv'
  <2>1. PICK v \in Values : rows' = (rows \ {r}) \cup {[r EXCEPT !.value = v]}
    BY <1>2 DEF AlterRow
  <2> DEFINE x == [r EXCEPT !.value = v]
  <2>2. /\ x \in AuditRows /\ x.id = r.id /\ x.pos = r.pos /\ x.hash = r.hash
        /\ x.table = r.table
    BY <1>0 DEF AuditRows
  <2>3. Key(x) = Key(r)
    BY <2>2 DEF Key
  <2>4. IsFiniteSet(rows')
    <3>1. IsFiniteSet(rows \ {r})
      BY <1>0, FS_Subset
    <3>2. QED
      BY <2>1, <3>1, FS_AddElement
  <2> HIDE DEF x
  <2>5. rows' = (rows \ {r}) \cup {x}
    BY <2>1 DEF x
  <2>6. Edit
    BY <1>2 DEF AlterRow
  <2>7. \A p, q \in rows' : Key(p) = Key(q) => p = q
    BY <1>0, <2>3, <2>5
  <2>8. \A p, q \in rows' : p.pos # NULL /\ p.pos = q.pos => p = q
    BY <1>0, <2>2, <2>5
  <2>9. \A q \in rows' : q.hash # NULL /\ q \in AuditRows
          /\ (\E p \in rows : p.id = q.id) /\ (\E p \in rows : p.pos = q.pos)
    BY <1>0, <2>2, <2>5
  <2>10. QED
    BY <2>4, <2>6, <2>7, <2>8, <2>9, EditFrame
<1>3. ASSUME NEW r \in rows, NEW s \in rows, SwapRows(r, s) PROVE AInv'
  <2> DEFINE x == [r EXCEPT !.pos = s.pos]
             y == [s EXCEPT !.pos = r.pos]
  <2>1. rows' = (rows \ {r, s}) \cup {x, y} /\ r # s /\ Edit
    BY <1>3 DEF SwapRows
  <2>2. /\ x \in AuditRows /\ x.id = r.id /\ x.pos = s.pos /\ x.hash = r.hash
        /\ x.table = r.table
        /\ y \in AuditRows /\ y.id = s.id /\ y.pos = r.pos /\ y.hash = s.hash
        /\ y.table = s.table
    BY <1>0 DEF AuditRows
  <2>3. Key(x) = Key(r) /\ Key(y) = Key(s)
    BY <2>2 DEF Key
  <2> HIDE DEF x, y
  <2>4. IsFiniteSet(rows')
    <3>1. IsFiniteSet(rows \ {r, s})
      BY <1>0, FS_Subset
    <3>2. IsFiniteSet(((rows \ {r, s}) \cup {x}) \cup {y})
      BY <3>1, FS_AddElement
    <3>3. rows' = ((rows \ {r, s}) \cup {x}) \cup {y}
      BY <2>1
    <3>4. QED
      BY <3>2, <3>3
  <2>5. \A p, q \in rows' : Key(p) = Key(q) => p = q
    BY <1>0, <2>1, <2>3
  <2>6. \A p, q \in rows' : p.pos # NULL /\ p.pos = q.pos => p = q
    BY <1>0, <2>1, <2>2
  <2>7. \A q \in rows' : q.hash # NULL /\ q \in AuditRows
          /\ (\E p \in rows : p.id = q.id) /\ (\E p \in rows : p.pos = q.pos)
    BY <1>0, <2>1, <2>2
  <2>8. QED
    BY <2>1, <2>4, <2>5, <2>6, <2>7, EditFrame
<1>4. ASSUME NEW r \in rows, DeleteRow(r) PROVE rows' \subseteq rows /\ Edit
  BY <1>4 DEF DeleteRow
<1>5. ASSUME NEW t \in Tables, DeleteTable(t) PROVE rows' \subseteq rows /\ Edit
  BY <1>5 DEF DeleteTable
<1>6. QED
  BY <1>1, <1>2, <1>3, <1>4, <1>5 DEF Tamper

-----------------------------------------------------------------------------
(* The backfill of positions *)

(* A row of a chained history and what the backfill makes of it.            *)
Placed(r) == [r EXCEPT !.pos = IF r.pos = NULL THEN BackfilledPosition(r, rows) ELSE r.pos]

LEMMA HashesAreKept ==
  ASSUME RowsInv
  PROVE  BackfilledHashes(rows) = [r \in rows |-> [prev |-> r.prev, hash |-> r.hash]]
<1>1. \A r \in rows : r.hash # NULL
  BY DEF RowsInv
<1>2. QED
  BY <1>1 DEF BackfilledHashes

LEMMA PlacedRow ==
  ASSUME RowsInv, NEW r \in rows
  PROVE  /\ r.pos = NULL => BackfilledPosition(r, rows) \in Int
         /\ Placed(r) \in AuditRows
         /\ Placed(r).pos = IF r.pos = NULL THEN BackfilledPosition(r, rows) ELSE r.pos
         /\ Placed(r).id = r.id /\ Placed(r).table = r.table /\ Placed(r).value = r.value
         /\ Placed(r).prev = r.prev /\ Placed(r).hash = r.hash
<1>1. r \in AuditRows /\ r.hash # NULL /\ IsFiniteSet(rows)
  BY DEF RowsInv
<1>2. IsFiniteSet({q \in ChainedLegacy(rows) : q = r \/ Before(r, q)})
  <2>1. {q \in ChainedLegacy(rows) : q = r \/ Before(r, q)} \subseteq rows
    BY DEF ChainedLegacy, Chained
  <2>2. QED
    BY <1>1, <2>1, FS_Subset
<1>3. BackfilledPosition(r, rows) \in Int
  BY <1>1, <1>2, FS_CardinalityType DEF BackfilledPosition
<1>4. QED
  BY <1>1, <1>3 DEF Placed, AuditRows

LEMMA BackfillPlacesRows ==
  ASSUME RowsInv
  PROVE  /\ Backfilled(rows) = {Placed(r) : r \in rows}
         /\ Unplaced(rows) = {}
<1> DEFINE New(r) == [r EXCEPT
             !.pos = IF r.pos = NULL THEN BackfilledPosition(r, rows) ELSE r.pos,
             !.prev = BackfilledHashes(rows)[r].prev, !.hash = BackfilledHashes(rows)[r].hash]
<1>1. ASSUME NEW r \in rows PROVE New(r) = Placed(r)
  <2>1. BackfilledHashes(rows)[r].prev = r.prev /\ BackfilledHashes(rows)[r].hash = r.hash
    BY HashesAreKept
  <2>2. r \in AuditRows
    BY DEF RowsInv
  <2>3. QED
    BY <2>1, <2>2 DEF Placed, AuditRows
<1>2. Backfilled(rows) = {New(r) : r \in rows}
  BY Zenon DEF Backfilled
<1>3. Backfilled(rows) = {Placed(r) : r \in rows}
  <2> HIDE DEF New
  <2>1. QED
    BY <1>1, <1>2
<1>4. Unplaced(rows) = {}
  BY DEF Unplaced, RowsInv
<1>5. QED
  BY <1>3, <1>4

LEMMA RanksAreOrdered ==
  ASSUME RowsInv, NEW r \in rows, r.pos = NULL
  PROVE  /\ BackfilledPosition(r, rows) < 0
         /\ \A s \in rows : s.pos = NULL /\ Before(r, s) =>
              BackfilledPosition(r, rows) < BackfilledPosition(s, rows)
<1> DEFINE Rank(t) == {q \in ChainedLegacy(rows) : q = t \/ Before(t, q)}
<1>1. \A t \in rows : BackfilledPosition(t, rows) = 0 - Cardinality(Rank(t))
  BY DEF BackfilledPosition, RowsInv
<1>2. \A t \in rows : IsFiniteSet(Rank(t)) /\ Cardinality(Rank(t)) \in Nat
  <2>1. \A t \in rows : Rank(t) \subseteq rows
    BY DEF ChainedLegacy, Chained
  <2>2. QED
    BY <2>1, FS_Subset, FS_CardinalityType DEF RowsInv
<1>3. \A t \in rows : t.pos = NULL => t \in Rank(t)
  BY DEF RowsInv, ChainedLegacy, Chained
<1>4. Cardinality(Rank(r)) # 0
  BY <1>2, <1>3, FS_EmptySet
<1>5. ASSUME NEW s \in rows, s.pos = NULL, Before(r, s)
      PROVE  Cardinality(Rank(s)) < Cardinality(Rank(r))
  <2>1. \A q \in rows : q \in AuditRows
    BY DEF RowsInv
  <2>2. Rank(s) \subseteq Rank(r)
    BY <1>5, <2>1, BeforeIsTransitive DEF ChainedLegacy, Chained
  <2>3. r \in Rank(r) /\ r \notin Rank(s)
    BY <1>3, <1>5, <2>1, BeforeIsStrict, BeforeIsIrreflexive
  <2>4. Cardinality(Rank(s)) <= Cardinality(Rank(r)) /\ Cardinality(Rank(s)) # Cardinality(Rank(r))
    BY <1>2, <2>2, <2>3, FS_Subset
  <2>5. QED
    BY <1>2, <2>4
<1> HIDE DEF Rank
<1>6. QED
  BY <1>1, <1>2, <1>4, <1>5

(* The positions of the backfill are in the order of the rows.              *)
LEMMA BackfillOrdersPositions ==
  ASSUME RowsInv, \E r \in rows : r.pos = NULL, NEW p \in rows, NEW q \in rows, Before(p, q)
  PROVE  /\ Placed(p).pos \in Int /\ Placed(q).pos \in Int
         /\ Placed(p).pos < Placed(q).pos
<1>1. p \in AuditRows /\ q \in AuditRows
  BY DEF RowsInv
<1>2. Placed(p).pos \in Int /\ Placed(q).pos \in Int
  BY <1>1, PlacedRow DEF AuditRows
<1>3. p.pos # NULL => q.pos # NULL
  BY DEF Before
<1>4. q.pos # NULL => q.pos > 0
  BY DEF RowsInv
<1>5. CASE p.pos # NULL
  <2>1. p # q
    BY <1>1, BeforeIsIrreflexive
  <2>2. p.pos # q.pos
    BY <1>5, <2>1 DEF RowsInv
  <2>3. p.pos < q.pos
    BY <1>5, <2>2 DEF Before
  <2>4. QED
    BY <1>2, <1>3, <1>5, <2>3, PlacedRow
<1>6. CASE p.pos = NULL /\ q.pos # NULL
  <2>1. Placed(p).pos < 0 /\ Placed(q).pos > 0
    BY <1>4, <1>6, PlacedRow, RanksAreOrdered
  <2>2. QED
    BY <1>2, <2>1
<1>7. CASE p.pos = NULL /\ q.pos = NULL
  BY <1>2, <1>7, PlacedRow, RanksAreOrdered
<1>8. QED
  BY <1>5, <1>6, <1>7

(* The backfill moves no row past another.                                  *)
LEMMA BackfillKeepsOrder ==
  ASSUME RowsInv, \E r \in rows : r.pos = NULL, NEW r \in rows, NEW s \in rows
  PROVE  Before(r, s) <=> Before(Placed(r), Placed(s))
<1>1. ASSUME NEW p \in rows, NEW q \in rows, Before(p, q)
      PROVE  Before(Placed(p), Placed(q))
  <2>1. /\ Placed(p).pos \in Int /\ Placed(q).pos \in Int
        /\ Placed(p).pos < Placed(q).pos
    BY <1>1, BackfillOrdersPositions
  <2>2. Placed(p).pos # NULL /\ Placed(q).pos # NULL
    BY <2>1, NullAssumption
  <2>3. QED
    BY <2>1, <2>2 DEF Before
<1>2. ASSUME Before(Placed(r), Placed(s)) PROVE Before(r, s)
  <2>1. r = s \/ Before(r, s) \/ Before(s, r)
    BY RowsAreComparable DEF Comparable
  <2>2. Placed(r) \in AuditRows /\ Placed(s) \in AuditRows
    BY PlacedRow
  <2>3. r # s
    BY <1>2, <2>2, BeforeIsIrreflexive
  <2>4. ~Before(s, r)
    BY <1>1, <1>2, <2>2, BeforeIsStrict
  <2>5. QED
    BY <2>1, <2>3, <2>4
<1>3. QED
  BY <1>1, <1>2

LEMMA BackfillKeepsHashOfLast ==
  ASSUME RowsInv, \E r \in rows : r.pos = NULL, NEW S \in SUBSET rows
  PROVE  HashOfLast({Placed(r) : r \in S}) = HashOfLast(S)
<1>1. CASE S = {}
  BY <1>1 DEF HashOfLast
<1>2. CASE S # {}
  <2>1. S \in SUBSET AuditRows /\ IsFiniteSet(S) /\ Comparable(S)
    BY RowsAreComparable, FS_Subset DEF RowsInv, Comparable
  <2>2. PICK q \in S : IsLast(q, S)
    BY <1>2, <2>1, LastExists
  <2>3. {Placed(r) : r \in S} \in SUBSET AuditRows
    BY PlacedRow
  <2>4. IsLast(Placed(q), {Placed(r) : r \in S})
    BY <2>2, BackfillKeepsOrder DEF IsLast
  <2>5. Last(S) = q /\ Last({Placed(r) : r \in S}) = Placed(q)
    BY <2>1, <2>2, <2>3, <2>4, LastIsUnique
  <2>6. Placed(q).hash = q.hash
    BY PlacedRow
  <2>7. QED
    BY <1>2, <2>5, <2>6 DEF HashOfLast
<1>3. QED
  BY <1>1, <1>2

LEMMA BackfillKeepsLinks ==
  ASSUME RowsInv, \E r \in rows : r.pos = NULL, Intact(rows)
  PROVE  Intact(Backfilled(rows))
<1>1. Backfilled(rows) = {Placed(r) : r \in rows}
  BY BackfillPlacesRows
<1>2. Chained(rows) = rows /\ Chained(Backfilled(rows)) = Backfilled(rows)
  BY <1>1, RowsAreComparable, PlacedRow DEF Chained, RowsInv
<1>3. ASSUME NEW r \in rows
      PROVE  /\ Placed(r).prev = HashOfLast(EarlierThan(Placed(r), Backfilled(rows)))
             /\ Placed(r).hash = compute_row_hash(Placed(r).prev, Placed(r))
  <2>1. EarlierThan(Placed(r), Backfilled(rows)) = {Placed(q) : q \in EarlierThan(r, rows)}
    BY <1>1, BackfillKeepsOrder DEF EarlierThan
  <2>2. HashOfLast({Placed(q) : q \in EarlierThan(r, rows)}) = HashOfLast(EarlierThan(r, rows))
    BY BackfillKeepsHashOfLast DEF EarlierThan
  <2>3. /\ Placed(r).prev = r.prev /\ Placed(r).hash = r.hash /\ Placed(r).table = r.table
        /\ Placed(r).value = r.value
    BY PlacedRow
  <2>4. r.prev = HashOfLast(EarlierThan(r, rows)) /\ r.hash = compute_row_hash(r.prev, r)
    BY <1>2 DEF Intact
  <2>5. QED
    BY <2>1, <2>2, <2>3, <2>4 DEF compute_row_hash
<1>4. QED
  BY <1>1, <1>2, <1>3 DEF Intact

LEMMA BackfillKeepsAInv ==
  ASSUME AInv, Backfill
  PROVE  AInv'
<1>0. /\ RowsInv /\ lock = NoOne /\ \E r \in rows : r.pos = NULL
      /\ rows' = Backfilled(rows) /\ seq' = seq + Cardinality(Unplaced(rows))
      /\ UNCHANGED <<lock, pc, pending, vpc, seen, edits>>
  BY DEF AInv, Backfill, writerVars, verifierVars
<1>1. rows' = {Placed(r) : r \in rows} /\ Unplaced(rows) = {}
  BY <1>0, BackfillPlacesRows
<1>2. seq' = seq /\ seq \in Nat
  BY <1>0, <1>1, FS_EmptySet DEF RowsInv
<1>3. IsFiniteSet(rows')
  <2> DEFINE f == [r \in rows |-> Placed(r)]
  <2>1. f \in Surjection(rows, rows')
    BY <1>1 DEF Surjection
  <2>2. QED
    BY <1>0, <2>1, FS_Surjection DEF RowsInv
<1>4. \A r \in rows : /\ Placed(r) \in AuditRows /\ Placed(r).hash # NULL
                      /\ Placed(r).id = r.id /\ Key(Placed(r)) = Key(r)
                      /\ Placed(r).pos <= seq /\ Placed(r).pos # NULL
  <2> SUFFICES ASSUME NEW r \in rows
               PROVE  /\ Placed(r) \in AuditRows /\ Placed(r).hash # NULL
                      /\ Placed(r).id = r.id /\ Key(Placed(r)) = Key(r)
                      /\ Placed(r).pos <= seq /\ Placed(r).pos # NULL
    OBVIOUS
  <2>1. Placed(r) \in AuditRows /\ Placed(r).id = r.id /\ Key(Placed(r)) = Key(r)
        /\ Placed(r).hash # NULL
    BY <1>0, PlacedRow DEF Key, RowsInv
  <2>2. CASE r.pos = NULL
    <3>1. Placed(r).pos \in Int /\ Placed(r).pos < 0
      BY <1>0, <2>2, PlacedRow, RanksAreOrdered
    <3>2. QED
      BY <1>2, <2>1, <3>1, NullAssumption
  <2>3. CASE r.pos # NULL
    BY <1>0, <2>1, <2>3, PlacedRow DEF RowsInv
  <2>4. QED
    BY <2>2, <2>3
<1>5. ASSUME NEW r \in rows, NEW s \in rows, Placed(r).pos = Placed(s).pos PROVE r = s
  <2>1. \A p, q \in rows : Before(p, q) => Placed(p).pos # Placed(q).pos
    BY <1>0, BackfillOrdersPositions
  <2>2. QED
    BY <1>0, <1>5, <2>1, RowsAreComparable DEF Comparable
<1>6. RowsInv'
  <2>1. \A p, q \in rows' : Key(p) = Key(q) => p = q
    BY <1>0, <1>1, <1>4 DEF RowsInv
  <2>2. \A p, q \in rows' : p.pos = q.pos => p = q
    BY <1>1, <1>5
  <2>3. \A p \in rows' : /\ p \in AuditRows /\ p.hash # NULL /\ p.id <= Size + seq
                         /\ p.pos # NULL /\ p.pos <= seq
    BY <1>0, <1>1, <1>4 DEF RowsInv
  <2>4. QED
    BY <1>2, <1>3, <2>1, <2>2, <2>3 DEF RowsInv, Size, Key
<1>7. \A w \in Writers : pc[w] \notin {"tip", "position", "insert"}
  BY <1>0, NullAssumption DEF AInv, WritersInv
<1>8. WritersInv'
  BY <1>0, <1>7 DEF AInv, WritersInv
<1>9. LinkedInv'
  <2>1. edits = 0 => Intact(rows')
    BY <1>0, BackfillKeepsLinks DEF AInv, LinkedInv
  <2>2. QED
    BY <1>0, <1>7, <2>1 DEF LinkedInv
<1>10. VerifierInv'
  <2>1. written' = written
    BY <1>1 DEF Backfill
  <2>2. QED
    BY <1>0, <2>1 DEF AInv, VerifierInv
<1>11. QED
  BY <1>6, <1>8, <1>9, <1>10 DEF AInv

-----------------------------------------------------------------------------
(* The theorems *)

LEMMA StepKeepsAInv == AInv /\ [Next]_vars => AInv'
<1> SUFFICES ASSUME AInv, [Next]_vars PROVE AInv'
  OBVIOUS
<1>1. ASSUME NEW w \in Writers, AppendStep(w) PROVE AInv'
  BY <1>1, BeforeInsertKeepsAInv, DrawKeepsAInv, CommitKeepsAInv DEF AppendStep
<1>2. CASE Backfill
  BY <1>2, BackfillKeepsAInv
<1>3. CASE ReadTransitions \/ ReadActions
  BY <1>3, VerifyKeepsAInv
<1>4. CASE Tamper
  BY <1>4, TamperKeepsAInv
<1>5. CASE UNCHANGED vars
  BY <1>5 DEF vars, writerVars, verifierVars, AInv, RowsInv, WritersInv, LinkedInv,
         VerifierInv, Size, Key
<1>6. QED
  BY <1>1, <1>2, <1>3, <1>4, <1>5 DEF Next

(* Any history of chained rows under the invariant, whoever appends, fails, *)
(* backfills, verifies or edits.                                            *)
THEOREM ChainInvariance == HistoryIsAChain /\ Spec => []AInv
<1>1. AInv /\ [Next]_vars => AInv'
  BY StepKeepsAInv
<1>2. QED
  BY <1>1, InitAInv, PTL DEF Spec

(* Rows, locks and what is about to be inserted have their types.           *)
THEOREM ChainTyping == HistoryIsAChain /\ Spec => []TypeOK
BY ChainInvariance, AInvTypes, PTL

(* As long as nobody edits stored rows, the rows of both tables form one    *)
(* chain from genesis: no two appends link to the same tip, a failed append *)
(* or a position drawn for nothing leaves no hole in it, and a backfill     *)
(* leaves the links of the rows it places.                                  *)
THEOREM ChainStaysLinear == HistoryIsAChain /\ Spec => []ChainIsLinear
<1>1. AInv => ChainIsLinear
  BY DEF AInv, LinkedInv, ChainIsLinear
<1>2. QED
  BY <1>1, ChainInvariance, PTL

LEMMA StepKeepsOrder ==
  ASSUME AInv, [Next]_vars, edits' = edits
  PROVE  /\ \A r, s \in rows : Before(r, s) =>
              \E p, q \in rows' : Key(p) = Key(r) /\ Key(q) = Key(s) /\ Before(p, q)
         /\ \A r \in rows' : (\A q \in rows : Key(q) # Key(r)) => IsLast(r, rows')
<1>1. CASE rows' = rows
  BY <1>1
<1>2. ASSUME NEW w \in Writers, CommitAppend(w)
      PROVE  /\ \A r, s \in rows : Before(r, s) =>
                  \E p, q \in rows' : Key(p) = Key(r) /\ Key(q) = Key(s) /\ Before(p, q)
             /\ \A r \in rows' : (\A q \in rows : Key(q) # Key(r)) => IsLast(r, rows')
  <2>1. rows' = rows \cup {pending[w]} /\ pc[w] = "insert"
    BY <1>2 DEF CommitAppend
  <2>2. IsLast(pending[w], rows')
    BY <2>1, InsertIsLast DEF IsLast
  <2>3. QED
    BY <2>1, <2>2
<1>3. ASSUME Backfill
      PROVE  /\ \A r, s \in rows : Before(r, s) =>
                  \E p, q \in rows' : Key(p) = Key(r) /\ Key(q) = Key(s) /\ Before(p, q)
             /\ \A r \in rows' : (\A q \in rows : Key(q) # Key(r)) => IsLast(r, rows')
  <2>1. RowsInv /\ (\E r \in rows : r.pos = NULL) /\ rows' = Backfilled(rows)
    BY <1>3 DEF Backfill, AInv
  <2>2. rows' = {Placed(r) : r \in rows}
    BY <2>1, BackfillPlacesRows
  <2>3. \A r \in rows : Key(Placed(r)) = Key(r)
    BY <2>1, PlacedRow DEF Key
  <2>4. \A r, s \in rows : Before(r, s) => Before(Placed(r), Placed(s))
    BY <2>1, BackfillKeepsOrder
  <2>5. QED
    BY <2>2, <2>3, <2>4
<1>4. ~Tamper
  <2>1. edits \in Nat
    BY DEF AInv, VerifierInv
  <2>2. Tamper => edits' = edits + 1
    BY DEF Tamper, AlterRow, DeleteRow, SwapRows, DeleteTable, Edit
  <2>3. QED
    BY <2>1, <2>2
<1>5. ASSUME NEW w \in Writers, AppendStep(w) PROVE rows' = rows \/ CommitAppend(w)
  BY <1>5 DEF AppendStep, StartAppend, LockChain, ReadTip, DrawPosition, Rollback
<1>6. CASE ReadTransitions \/ ReadActions \/ UNCHANGED vars
  BY <1>1, <1>6 DEF ReadTransitions, ReadActions, vars
<1>7. QED
  BY <1>1, <1>2, <1>3, <1>4, <1>5, <1>6 DEF Next

(* The order of the chain is that of the commits: a step of the application *)
(* moves no row past another and adds rows at the end only, whatever was    *)
(* drawn from the sequence meanwhile.                                       *)
THEOREM OrderStaysStable == HistoryIsAChain /\ Spec => OrderIsStable
<1>1. AInv /\ [Next]_vars =>
        [edits' = edits =>
           /\ \A r, s \in rows : Before(r, s) =>
                \E p, q \in rows' : Key(p) = Key(r) /\ Key(q) = Key(s) /\ Before(p, q)
           /\ \A r \in rows' : (\A q \in rows : Key(q) # Key(r)) => IsLast(r, rows')]_rows
  BY StepKeepsOrder
<1>2. QED
  BY <1>1, ChainInvariance, PTL DEF Spec, OrderIsStable

-----------------------------------------------------------------------------
(* What a report of verify_chain is worth *)

(* No two rows of the history say the same: each has its timestamp.         *)
HistoryRepeatsNothing ==
  \A r, s \in Legacy : r.table = s.table /\ r.value = s.value => r = s

Says(e) == <<e.row[1], e.value>>

(* h is the hash of the row with key k as it was written; it ends in what   *)
(* that row said then.                                                      *)
HashOf(W, k, h) ==
  \/ k = NULL /\ h = GENESIS_HASH
  \/ \E f \in W, g \in Hashes : k = f.row /\ h = Append(g, Says(f))

(* A row's key and hashes are those it was written with.                    *)
OnRecord(W, r) ==
  \E e \in W :
    /\ e.row = Key(r)
    /\ r.prev \in Hashes
    /\ r.hash = Append(r.prev, Says(e))
    /\ HashOf(W, e.after, r.prev)

(* Nothing written says the same as something else: neither two rows nor a  *)
(* row and what a writer is about to insert.                                *)
NothingSaidTwice ==
  /\ \A e, f \in written : Says(e) = Says(f) => e.row = f.row
  /\ \A w \in Writers : pc[w] # "idle" =>
       /\ \A e \in written : e.value # pending[w].value
       /\ \A v \in Writers \ {w} : pc[v] # "idle" => pending[v].value # pending[w].value

(* What a verification has read is, of each table, one state of it.         *)
SeenInv ==
  /\ seen \subseteq AuditRows /\ IsFiniteSet(seen)
  /\ \A r \in seen : r.hash # NULL
  /\ vpc # "done" => \A r \in seen : r.table = "task_transitions"
  /\ \A r, s \in seen : r.table = s.table /\ r # s =>
       r.id # s.id /\ (r.pos # NULL => r.pos # s.pos)

(* What is written down has the form of an entry.                           *)
WellWritten == \A e \in written : e = [row |-> e.row, value |-> e.value, after |-> e.after]

RecordInv ==
  /\ DOMAIN follows = Writers
  /\ WellWritten
  /\ \A r \in rows \cup seen : OnRecord(written, r)
  /\ NothingSaidTwice
  /\ \A w \in Writers :
       pc[w] \in {"position", "insert"} => HashOf(written, follows[w], pending[w].prev)
  /\ SeenInv

LEMMA AppendIsInjective ==
  ASSUME NEW S, NEW s \in Seq(S), NEW t \in Seq(S), NEW a \in S, NEW b \in S,
         Append(s, a) = Append(t, b)
  PROVE  s = t /\ a = b
<1>1. Len(s) = Len(t)
  <2>1. Len(Append(s, a)) = Len(s) + 1 /\ Len(Append(t, b)) = Len(t) + 1
    OBVIOUS
  <2>2. QED
    BY <2>1
<1>2. a = b
  <2>1. Append(s, a)[Len(s) + 1] = a /\ Append(t, b)[Len(t) + 1] = b
    OBVIOUS
  <2>2. QED
    BY <1>1, <2>1
<1>3. ASSUME NEW i \in 1 .. Len(s) PROVE s[i] = t[i]
  <2>1. Append(s, a)[i] = s[i]
    OBVIOUS
  <2>2. Append(t, b)[i] = t[i]
    BY <1>1
  <2>3. QED
    BY <2>1, <2>2
<1>4. s = t
  BY <1>1, <1>3
<1>5. QED
  BY <1>2, <1>4

LEMMA AppendIsNotEmpty ==
  ASSUME NEW S, NEW s \in Seq(S), NEW a \in S
  PROVE  Append(s, a) # << >>
<1>1. Len(Append(s, a)) = Len(s) + 1 /\ Len(<< >>) = 0 /\ Len(s) \in Nat
  OBVIOUS
<1>2. QED
  BY <1>1

LEMMA SaysIsContent ==
  ASSUME AInv, NEW e \in written
  PROVE  Says(e) \in Contents
BY DEF AInv, VerifierInv, Says, Contents

(* The last of rows on record: its hash is what the next row links to.      *)
LEMMA LastOnRecord ==
  ASSUME NEW S \in SUBSET AuditRows, IsFiniteSet(S), Comparable(S),
         \A r \in S : OnRecord(written, r)
  PROVE  HashOf(written, KeyOfLast(S), HashOfLast(S))
<1>1. CASE S = {}
  BY <1>1 DEF KeyOfLast, HashOfLast, HashOf
<1>2. CASE S # {}
  <2>1. PICK q \in S : IsLast(q, S)
    BY <1>2, LastExists
  <2>2. Last(S) = q
    BY <2>1, LastIsUnique
  <2>3. OnRecord(written, q)
    OBVIOUS
  <2>4. KeyOfLast(S) = Key(q) /\ HashOfLast(S) = q.hash
    BY <1>2, <2>2 DEF KeyOfLast, HashOfLast
  <2>5. QED
    BY <2>3, <2>4 DEF OnRecord, HashOf
<1>3. QED
  BY <1>1, <1>2

(* What is written stays written.                                           *)
LEMMA RecordsStay ==
  ASSUME written \subseteq written'
  PROVE  /\ \A k, h : HashOf(written, k, h) => HashOf(written', k, h)
         /\ \A r : OnRecord(written, r) => OnRecord(written', r)
<1>1. ASSUME NEW k, NEW h, HashOf(written, k, h) PROVE HashOf(written', k, h)
  BY <1>1 DEF HashOf
<1>2. ASSUME NEW r, OnRecord(written, r) PROVE OnRecord(written', r)
  <2>1. PICK e \in written : /\ e.row = Key(r)
                             /\ r.prev \in Hashes
                             /\ r.hash = Append(r.prev, Says(e))
                             /\ HashOf(written, e.after, r.prev)
    BY <1>2 DEF OnRecord
  <2>2. HashOf(written', e.after, r.prev)
    BY <1>1, <2>1
  <2>3. QED
    BY <2>1, <2>2 DEF OnRecord, Key, Says
<1>3. QED
  BY <1>1, <1>2

LEMMA InitRecords == HistoryIsAChain /\ HistoryRepeatsNothing /\ Init => RecordInv
<1> SUFFICES ASSUME HistoryIsAChain, HistoryRepeatsNothing, Init PROVE RecordInv
  OBVIOUS
<1>0. /\ rows = Legacy /\ written = Entries(Legacy) /\ seen = {} /\ vpc = "idle"
      /\ pc = [w \in Writers |-> "idle"] /\ DOMAIN follows = Writers
  BY DEF Init
<1>1. AInv
  BY InitAInv
<1>2. Chained(Legacy) = Legacy /\ Comparable(Legacy) /\ IsFiniteSet(Legacy) /\ Legacy \subseteq AuditRows
  BY <1>0, <1>1, RowsAreComparable DEF AInv, RowsInv
<1>3. ASSUME NEW r \in Legacy
      PROVE  /\ Entry(r, Legacy) \in written
             /\ Entry(r, Legacy).row = Key(r) /\ Says(Entry(r, Legacy)) = <<r.table, r.value>>
             /\ Entry(r, Legacy).after = KeyOfLast(EarlierThan(r, Legacy))
  BY <1>0, <1>2 DEF Entries, Entry, Key, Says
<1>4. ASSUME NEW r \in Legacy
      PROVE  /\ r.prev = HashOfLast(EarlierThan(r, Legacy)) /\ r.prev \in Hashes
             /\ r.hash = Append(r.prev, <<r.table, r.value>>)
  <2>1. r.prev = HashOfLast(EarlierThan(r, Legacy)) /\ r.hash = compute_row_hash(r.prev, r)
    BY <1>2 DEF HistoryIsAChain, Intact
  <2>2. EarlierThan(r, Legacy) \subseteq Legacy
    BY DEF EarlierThan
  <2>3. HashOfLast(EarlierThan(r, Legacy)) \in Hashes
    BY <1>2, <2>2, HashOfLastIsAHash, FS_Subset DEF Comparable, HistoryIsAChain
  <2>4. QED
    BY <2>1, <2>3 DEF compute_row_hash
<1>5. ASSUME NEW r \in Legacy PROVE HashOf(written, KeyOfLast(EarlierThan(r, Legacy)), r.prev)
  <2> DEFINE E == EarlierThan(r, Legacy)
  <2>1. CASE E = {}
    BY <1>4, <2>1 DEF KeyOfLast, HashOfLast, HashOf
  <2>2. CASE E # {}
    <3>1. E \subseteq Legacy
      BY DEF EarlierThan
    <3>2. E \in SUBSET AuditRows /\ IsFiniteSet(E) /\ Comparable(E)
      BY <1>2, <3>1, FS_Subset DEF Comparable
    <3>3. PICK q \in E : IsLast(q, E)
      BY <2>2, <3>2, LastExists
    <3>4. KeyOfLast(E) = Key(q) /\ r.prev = q.hash
      BY <1>4, <2>2, <3>2, <3>3, LastIsUnique DEF KeyOfLast, HashOfLast
    <3>5. q \in Legacy
      BY <3>1
    <3>6. /\ Entry(q, Legacy) \in written /\ Entry(q, Legacy).row = Key(q)
          /\ q.prev \in Hashes /\ q.hash = Append(q.prev, Says(Entry(q, Legacy)))
      BY <1>3, <1>4, <3>5
    <3>7. QED
      BY <3>4, <3>6 DEF HashOf
  <2>3. QED
    BY <2>1, <2>2
<1>6. ASSUME NEW r \in Legacy PROVE OnRecord(written, r)
  <2>1. /\ Entry(r, Legacy) \in written /\ Entry(r, Legacy).row = Key(r)
        /\ r.prev \in Hashes /\ r.hash = Append(r.prev, Says(Entry(r, Legacy)))
        /\ HashOf(written, Entry(r, Legacy).after, r.prev)
    BY <1>3, <1>4, <1>5
  <2>2. QED
    BY <2>1 DEF OnRecord
<1>7. NothingSaidTwice
  <2>1. ASSUME NEW e \in written, NEW f \in written, Says(e) = Says(f) PROVE e.row = f.row
    <3>1. PICK r \in Legacy : e = Entry(r, Legacy)
      BY <1>0, <1>2 DEF Entries
    <3>2. PICK s \in Legacy : f = Entry(s, Legacy)
      BY <1>0, <1>2 DEF Entries
    <3>3. <<r.table, r.value>> = <<s.table, s.value>>
      BY <1>3, <2>1, <3>1, <3>2
    <3>4. r = s
      BY <3>3 DEF HistoryRepeatsNothing
    <3>5. QED
      BY <3>1, <3>2, <3>4
  <2>2. QED
    BY <1>0, <2>1 DEF NothingSaidTwice
<1>8. SeenInv
  BY <1>0, FS_EmptySet DEF SeenInv
<1>9. WellWritten
  BY <1>0, <1>2 DEF Entries, Entry, WellWritten
<1>10. QED
  BY <1>0, <1>6, <1>7, <1>8, <1>9 DEF RecordInv

(* A step that writes nothing and moves no writer.                          *)
LEMMA RecordsLeftAlone ==
  ASSUME RecordInv, UNCHANGED <<pc, pending, follows, written>>,
         \A r \in rows' \cup seen' : \E q \in rows \cup seen :
            /\ Key(r) = Key(q) /\ r.prev = q.prev /\ r.hash = q.hash,
         SeenInv'
  PROVE  RecordInv'
<1>1. ASSUME NEW r \in rows' \cup seen' PROVE OnRecord(written', r)
  <2>1. PICK q \in rows \cup seen : Key(r) = Key(q) /\ r.prev = q.prev /\ r.hash = q.hash
    OBVIOUS
  <2>2. OnRecord(written, q)
    BY DEF RecordInv
  <2>3. OnRecord(written, r)
    BY <2>1, <2>2 DEF OnRecord
  <2>4. QED
    BY <2>3, RecordsStay
<1>2. NothingSaidTwice'
  BY DEF RecordInv, NothingSaidTwice, Says
<1>3. ASSUME NEW w \in Writers, pc'[w] \in {"position", "insert"}
      PROVE  HashOf(written', follows[w], pending[w].prev)
  BY <1>3, RecordsStay DEF RecordInv
<1>4. \A w \in Writers :
        pc'[w] \in {"position", "insert"} => HashOf(written', follows'[w], pending'[w].prev)
  BY <1>3
<1>5. QED
  BY <1>1, <1>2, <1>4 DEF RecordInv, WellWritten

(* What a writer is about to say.                                           *)
LEMMA StartKeepsRecords ==
  ASSUME AInv, RecordInv, NEW w \in Writers, StartAppend(w)
  PROVE  RecordInv'
<1>1. PICK t \in Tables, v \in Values \ Said :
        pending' = [pending EXCEPT ![w] = [NoRow EXCEPT !.table = t, !.value = v]]
  BY DEF StartAppend
<1>2. [NoRow EXCEPT !.table = t, !.value = v].value = v
  BY NoRowIsARow DEF AuditRows
<1>3. /\ UNCHANGED <<rows, seen, vpc, written, follows>> /\ pc[w] = "idle"
      /\ pc' = [pc EXCEPT ![w] = "lock"]
  BY DEF StartAppend, verifierVars
<1>4. /\ pc'[w] = "lock" /\ pending'[w].value = v
      /\ \A u \in Writers \ {w} : pc'[u] = pc[u] /\ pending'[u] = pending[u]
  BY <1>1, <1>2, <1>3 DEF AInv, WritersInv
<1>5. /\ \A e \in written : e.value # v
      /\ \A u \in Writers : pc[u] # "idle" => pending[u].value # v
  BY <1>1 DEF Said
<1>6. NothingSaidTwice'
  BY <1>3, <1>4, <1>5 DEF RecordInv, NothingSaidTwice, Says
<1>7. \A u \in Writers :
        pc'[u] \in {"position", "insert"} => HashOf(written', follows'[u], pending'[u].prev)
  BY <1>3, <1>4, RecordsStay DEF RecordInv
<1>8. SeenInv'
  BY <1>3 DEF RecordInv, SeenInv
<1>9. \A r \in rows' \cup seen' : OnRecord(written', r)
  BY <1>3, RecordsStay DEF RecordInv
<1>10. DOMAIN follows' = Writers
  BY <1>3 DEF RecordInv
<1>11. QED
  BY <1>3, <1>6, <1>7, <1>8, <1>9, <1>10 DEF RecordInv, WellWritten

(* A writer on its way to its insert keeps what it is about to say; the tip *)
(* it reads is the hash of the row that is the last one then.               *)
LEMMA WayKeepsRecords ==
  ASSUME AInv, RecordInv, NEW w \in Writers, LockChain(w) \/ ReadTip(w) \/ DrawPosition(w)
  PROVE  RecordInv'
<1>1. /\ UNCHANGED <<rows, seen, vpc, written>> /\ pc[w] # "idle" /\ pc'[w] # "idle"
      /\ \A u \in Writers \ {w} :
            pc'[u] = pc[u] /\ pending'[u] = pending[u] /\ follows'[u] = follows[u]
  <2>1. /\ pc \in [Writers -> {"idle", "lock", "tip", "position", "insert"}]
        /\ DOMAIN pending = Writers /\ DOMAIN follows = Writers
    BY DEF AInv, WritersInv, RecordInv
  <2>2. CASE LockChain(w)
    BY <2>1, <2>2 DEF LockChain, verifierVars
  <2>3. CASE ReadTip(w)
    BY <2>1, <2>3 DEF ReadTip, verifierVars
  <2>4. CASE DrawPosition(w)
    BY <2>1, <2>4 DEF DrawPosition, verifierVars
  <2>5. QED
    BY <2>2, <2>3, <2>4
<1>2. pending'[w].value = pending[w].value
  <2>1. pending[w] \in AuditRows /\ pending \in [Writers -> AuditRows]
    BY DEF AInv, WritersInv
  <2>2. CASE LockChain(w)
    BY <2>2 DEF LockChain
  <2>3. CASE ReadTip(w)
    BY <2>1, <2>3 DEF ReadTip, AuditRows
  <2>4. CASE DrawPosition(w)
    <3>1. pending'[w] = [pending[w] EXCEPT !.pos = seq + 1, !.id = Cardinality(Legacy) + seq + 1,
                                           !.hash = compute_row_hash(pending[w].prev, pending[w])]
      BY <2>1, <2>4 DEF DrawPosition
    <3>2. QED
      BY <2>1, <3>1 DEF AuditRows
  <2>5. QED
    BY <2>2, <2>3, <2>4
<1>3. pc'[w] \in {"position", "insert"} => HashOf(written, follows'[w], pending'[w].prev)
  <2>1. pending[w] \in AuditRows /\ pending \in [Writers -> AuditRows]
    BY DEF AInv, WritersInv
  <2>2. CASE LockChain(w)
    BY <2>2 DEF LockChain, AInv, WritersInv
  <2>3. CASE ReadTip(w)
    <3>1. Chained(rows) = rows /\ Comparable(rows) /\ IsFiniteSet(rows) /\ rows \subseteq AuditRows
      BY RowsAreComparable DEF AInv, RowsInv
    <3>2. pending'[w].prev = HashOfLast(rows)
      BY <2>1, <2>3, <3>1 DEF ReadTip, AuditRows, CurrentTip
    <3>3. DOMAIN follows = Writers
      BY DEF RecordInv
    <3>4. follows'[w] = KeyOfLast(rows)
      BY <2>3, <3>1, <3>3 DEF ReadTip
    <3>5. HashOf(written, KeyOfLast(rows), HashOfLast(rows))
      BY <3>1, LastOnRecord DEF RecordInv
    <3>6. QED
      BY <3>2, <3>4, <3>5
  <2>4. CASE DrawPosition(w)
    <3>1. pending'[w] = [pending[w] EXCEPT !.pos = seq + 1, !.id = Cardinality(Legacy) + seq + 1,
                                           !.hash = compute_row_hash(pending[w].prev, pending[w])]
      BY <2>1, <2>4 DEF DrawPosition
    <3>2. pending'[w].prev = pending[w].prev
      BY <2>1, <3>1 DEF AuditRows
    <3>3. follows' = follows /\ pc[w] = "position"
      BY <2>4 DEF DrawPosition
    <3>4. QED
      BY <3>2, <3>3 DEF RecordInv
  <2>5. QED
    BY <2>2, <2>3, <2>4
<1>4. NothingSaidTwice'
  BY <1>1, <1>2 DEF RecordInv, NothingSaidTwice, Says
<1>5. \A u \in Writers :
        pc'[u] \in {"position", "insert"} => HashOf(written, follows'[u], pending'[u].prev)
  BY <1>1, <1>3 DEF RecordInv
<1>6. \A u \in Writers :
        pc'[u] \in {"position", "insert"} => HashOf(written', follows'[u], pending'[u].prev)
  <2>1. \A k, h : HashOf(written, k, h) => HashOf(written', k, h)
    BY <1>1, RecordsStay
  <2>2. QED
    BY <1>5, <2>1
<1>7. SeenInv'
  BY <1>1 DEF RecordInv, SeenInv
<1>8. \A r \in rows' \cup seen' : OnRecord(written', r)
  BY <1>1, RecordsStay DEF RecordInv
<1>9. DOMAIN follows' = Writers
  BY DEF LockChain, ReadTip, DrawPosition, RecordInv
<1>10. QED
  BY <1>1, <1>4, <1>6, <1>7, <1>8, <1>9 DEF RecordInv, WellWritten

(* A writer that has ended, with its row or without it.                     *)
LEMMA EndsKeepsRecords ==
  ASSUME AInv, RecordInv, NEW w \in Writers, CommitAppend(w) \/ Rollback(w)
  PROVE  RecordInv'
<1>1. /\ pc' = [pc EXCEPT ![w] = "idle"] /\ pending' = [pending EXCEPT ![w] = NoRow]
      /\ follows' = [follows EXCEPT ![w] = NULL] /\ UNCHANGED <<seen, vpc>>
  BY DEF CommitAppend, Rollback, EndAppend, verifierVars
<1>2. /\ pc'[w] = "idle" /\ DOMAIN follows' = Writers
      /\ \A u \in Writers \ {w} :
            pc'[u] = pc[u] /\ pending'[u] = pending[u] /\ follows'[u] = follows[u]
  BY <1>1 DEF AInv, WritersInv, RecordInv
<1>3. SeenInv'
  BY <1>1 DEF RecordInv, SeenInv
<1>4. ASSUME written \subseteq written'
      PROVE  /\ \A u \in Writers :
                  pc'[u] \in {"position", "insert"} => HashOf(written', follows'[u], pending'[u].prev)
             /\ \A r \in rows \cup seen : OnRecord(written', r)
  <2>1. \A u \in Writers :
          pc'[u] \in {"position", "insert"} => HashOf(written, follows'[u], pending'[u].prev)
    BY <1>2 DEF RecordInv
  <2>2. \A k, h : HashOf(written, k, h) => HashOf(written', k, h)
    BY <1>4, RecordsStay
  <2>3. \A r \in rows \cup seen : OnRecord(written', r)
    BY <1>4, RecordsStay DEF RecordInv
  <2>4. QED
    BY <2>1, <2>2, <2>3 
<1>5. CASE Rollback(w)
  <2>1. rows' = rows /\ written' = written
    BY <1>5 DEF Rollback
  <2>2. NothingSaidTwice'
    BY <1>2, <2>1 DEF RecordInv, NothingSaidTwice, Says
  <2>3. QED
    BY <1>1, <1>2, <1>3, <1>4, <2>1, <2>2 DEF RecordInv, WellWritten
<1>6. CASE CommitAppend(w)
  <2> DEFINE x == pending[w]
             e == [row |-> Key(x), value |-> x.value, after |-> follows[w]]
  <2>1. rows' = rows \cup {x} /\ written' = written \cup {e} /\ pc[w] = "insert"
    BY <1>6 DEF CommitAppend
  <2>2. Says(e) = <<x.table, x.value>> /\ e.row = Key(x) /\ e.after = follows[w]
    BY DEF Says, Key
  <2>3. /\ x.prev \in Hashes /\ x.hash = Append(x.prev, <<x.table, x.value>>)
        /\ HashOf(written, follows[w], x.prev)
    BY <2>1 DEF AInv, WritersInv, RecordInv, compute_row_hash
  <2>4. HashOf(written', follows[w], x.prev)
    <3>1. written \subseteq written'
      BY <2>1
    <3>2. \A k, h : HashOf(written, k, h) => HashOf(written', k, h)
      BY <3>1, RecordsStay
    <3>3. QED
      BY <2>3, <3>2
  <2>5. OnRecord(written', x)
    BY <2>1, <2>2, <2>3, <2>4 DEF OnRecord
  <2>6. NothingSaidTwice'
    <3>1. \A f \in written : f.value # x.value
      BY <2>1 DEF RecordInv, NothingSaidTwice
    <3>2. \A f \in written : Says(f) # Says(e)
      BY <2>2, <3>1 DEF Says
    <3>3. \A f, g \in written' : Says(f) = Says(g) => f.row = g.row
      BY <2>1, <3>2 DEF RecordInv, NothingSaidTwice
    <3>4. \A u \in Writers \ {w} : pc[u] # "idle" => pending[u].value # x.value
      BY <2>1 DEF RecordInv, NothingSaidTwice
    <3>5. \A u \in Writers : pc'[u] # "idle" =>
            /\ \A f \in written' : f.value # pending'[u].value
            /\ \A v \in Writers \ {u} : pc'[v] # "idle" => pending'[v].value # pending'[u].value
      BY <1>2, <2>1, <3>4 DEF RecordInv, NothingSaidTwice
    <3>6. QED
      BY <3>3, <3>5 DEF NothingSaidTwice, Says
  <2>7. WellWritten'
    BY <2>1 DEF RecordInv, WellWritten
  <2>8. QED
    BY <1>1, <1>2, <1>3, <1>4, <2>1, <2>5, <2>6, <2>7 DEF RecordInv
<1>7. QED
  BY <1>5, <1>6

(* Each table is read at one moment, and has no two rows in one place then. *)
LEMMA VerifyKeepsRecords ==
  ASSUME AInv, RecordInv, ReadTransitions \/ ReadActions
  PROVE  RecordInv'
<1>1. UNCHANGED <<rows, pc, pending, follows, written>>
  BY DEF ReadTransitions, ReadActions, writerVars
<1>2. /\ rows \subseteq AuditRows /\ IsFiniteSet(rows) /\ \A r \in rows : r.hash # NULL
      /\ \A r, s \in rows : r.table = s.table /\ r # s =>
            r.id # s.id /\ (r.pos # NULL => r.pos # s.pos)
  BY DEF AInv, RowsInv, Key
<1>3. SeenInv'
  <2>1. CASE ReadTransitions
    <3>1. seen' = {r \in rows : r.table = "task_transitions"} /\ vpc' = "reading"
      BY <2>1 DEF ReadTransitions, RowsOf
    <3>2. IsFiniteSet(seen')
      BY <1>2, <3>1, FS_Subset
    <3>3. QED
      BY <1>2, <3>1, <3>2 DEF SeenInv
  <2>2. CASE ReadActions
    <3>1. /\ seen' = seen \cup {r \in rows : r.table = "agent_actions"}
          /\ vpc = "reading" /\ vpc' = "done"
      BY <2>2 DEF ReadActions, RowsOf
    <3>2. IsFiniteSet(seen')
      <4>1. IsFiniteSet({r \in rows : r.table = "agent_actions"})
        BY <1>2, FS_Subset
      <4>2. QED
        BY <3>1, <4>1, FS_Union DEF RecordInv, SeenInv
    <3>3. \A r \in seen : r.table = "task_transitions"
      BY <3>1 DEF RecordInv, SeenInv
    <3>4. \A r, s \in seen' : r.table = s.table /\ r # s =>
            r.id # s.id /\ (r.pos # NULL => r.pos # s.pos)
      BY <1>2, <3>1, <3>3 DEF RecordInv, SeenInv
    <3>5. QED
      BY <1>2, <3>1, <3>2, <3>4 DEF RecordInv, SeenInv
  <2>3. QED
    BY <2>1, <2>2
<1>4. seen' \subseteq rows \cup seen
  BY DEF ReadTransitions, ReadActions, RowsOf
<1>5. QED
  BY <1>1, <1>3, <1>4, RecordsLeftAlone

(* An edit changes what a row says or where it stands, never its hashes.    *)
LEMMA TamperKeepsRecords ==
  ASSUME AInv, RecordInv, Tamper
  PROVE  RecordInv'
<1>1. UNCHANGED <<pc, pending, follows, written, seen, vpc>>
  BY DEF Tamper, AlterRow, DeleteRow, SwapRows, DeleteTable, Edit, writerVars, verifierVars
<1>2. \A r \in rows : r \in AuditRows
  BY DEF AInv, RowsInv
<1>3. \A x \in rows' : \E q \in rows : Key(x) = Key(q) /\ x.prev = q.prev /\ x.hash = q.hash
  <2>1. ASSUME NEW r \in rows, AlterRow(r)
        PROVE  \A x \in rows' : \E q \in rows : Key(x) = Key(q) /\ x.prev = q.prev /\ x.hash = q.hash
    <3>1. PICK v \in Values : rows' = (rows \ {r}) \cup {[r EXCEPT !.value = v]}
      BY <2>1 DEF AlterRow
    <3>2. LET x == [r EXCEPT !.value = v]
          IN  Key(x) = Key(r) /\ x.prev = r.prev /\ x.hash = r.hash
      BY <1>2 DEF AuditRows, Key
    <3>3. QED
      BY <3>1, <3>2
  <2>2. ASSUME NEW r \in rows, NEW s \in rows, SwapRows(r, s)
        PROVE  \A x \in rows' : \E q \in rows : Key(x) = Key(q) /\ x.prev = q.prev /\ x.hash = q.hash
    <3> DEFINE x == [r EXCEPT !.pos = s.pos]
               y == [s EXCEPT !.pos = r.pos]
    <3>1. rows' = (rows \ {r, s}) \cup {x, y}
      BY <2>2 DEF SwapRows
    <3>2. /\ Key(x) = Key(r) /\ x.prev = r.prev /\ x.hash = r.hash
          /\ Key(y) = Key(s) /\ y.prev = s.prev /\ y.hash = s.hash
      BY <1>2 DEF AuditRows, Key
    <3> HIDE DEF x, y
    <3>3. QED
      BY <3>1, <3>2
  <2>3. ASSUME NEW r \in rows, DeleteRow(r) PROVE rows' \subseteq rows
    BY <2>3 DEF DeleteRow
  <2>4. ASSUME NEW t \in Tables, DeleteTable(t) PROVE rows' \subseteq rows
    BY <2>4 DEF DeleteTable
  <2>5. QED
    BY <2>1, <2>2, <2>3, <2>4 DEF Tamper
<1>4. SeenInv'
  BY <1>1 DEF RecordInv, SeenInv
<1>5. QED
  BY <1>1, <1>3, <1>4, RecordsLeftAlone

LEMMA BackfillKeepsRecords ==
  ASSUME AInv, RecordInv, Backfill
  PROVE  RecordInv'
<1>1. /\ RowsInv /\ rows' = Backfilled(rows)
      /\ UNCHANGED <<pc, pending, follows, seen, vpc>>
  BY DEF AInv, Backfill, writerVars, verifierVars
<1>2. rows' = {Placed(r) : r \in rows} /\ Unplaced(rows) = {}
  BY <1>1, BackfillPlacesRows
<1>3. written' = written
  BY <1>2 DEF Backfill
<1>4. \A r \in rows : Key(Placed(r)) = Key(r) /\ Placed(r).prev = r.prev /\ Placed(r).hash = r.hash
  BY <1>1, PlacedRow DEF Key
<1>5. SeenInv'
  BY <1>1 DEF RecordInv, SeenInv
<1>6. QED
  BY <1>1, <1>2, <1>3, <1>4, <1>5, RecordsLeftAlone

LEMMA StepKeepsRecords == AInv /\ RecordInv /\ [Next]_vars => RecordInv'
<1> SUFFICES ASSUME AInv, RecordInv, [Next]_vars PROVE RecordInv'
  OBVIOUS
<1>1. ASSUME NEW w \in Writers, AppendStep(w) PROVE RecordInv'
  BY <1>1, StartKeepsRecords, WayKeepsRecords, EndsKeepsRecords DEF AppendStep
<1>2. CASE UNCHANGED vars
  <2>1. UNCHANGED <<rows, pc, pending, follows, written, seen, vpc>>
    BY <1>2 DEF vars, writerVars, verifierVars
  <2>2. SeenInv'
    BY <2>1 DEF RecordInv, SeenInv
  <2>3. QED
    BY <2>1, <2>2, RecordsLeftAlone
<1>3. QED
  BY <1>1, <1>2, VerifyKeepsRecords, TamperKeepsRecords, BackfillKeepsRecords DEF Next

(* Rows of a chain that verifies say what was written, and each follows the *)
(* row it followed then: its hash leaves no other choice for either.        *)
LEMMA IntactRowsAreHonest ==
  ASSUME AInv, RecordInv, Intact(seen), NEW r \in Chained(seen)
  PROVE  Entry(r, seen) \in written
<1> DEFINE E == EarlierThan(r, Chained(seen))
<1>1. Chained(seen) = seen /\ seen \subseteq AuditRows /\ IsFiniteSet(seen)
  BY DEF RecordInv, SeenInv, Chained
<1>2. Comparable(seen)
  <2> SUFFICES ASSUME NEW p \in seen, NEW q \in seen, p # q PROVE Before(p, q) \/ Before(q, p)
    BY DEF Comparable
  <2>1. p \in AuditRows /\ q \in AuditRows
    BY <1>1
  <2>2. CASE p.table = q.table
    <3>1. p.id # q.id /\ (p.pos # NULL => p.pos # q.pos)
      BY <2>2 DEF RecordInv, SeenInv
    <3>2. CASE p.pos = NULL /\ q.pos = NULL
      BY <2>1, <3>1, <3>2 DEF AuditRows, Before
    <3>3. CASE ~(p.pos = NULL /\ q.pos = NULL)
      BY <2>1, <3>1, <3>3, NullAssumption DEF AuditRows, Before
    <3>4. QED
      BY <3>2, <3>3
  <2>3. CASE p.table # q.table
    <3>1. \/ p.table = "task_transitions" /\ q.table = "agent_actions"
          \/ q.table = "task_transitions" /\ p.table = "agent_actions"
      BY <2>1, <2>3 DEF AuditRows, Tables
    <3>2. CASE p.pos = NULL /\ q.pos = NULL
      BY <2>1, <3>1, <3>2 DEF AuditRows, Before
    <3>3. CASE ~(p.pos = NULL /\ q.pos = NULL)
      BY <2>1, <3>1, <3>3, NullAssumption DEF AuditRows, Before
    <3>4. QED
      BY <3>2, <3>3
  <2>4. QED
    BY <2>2, <2>3
<1>3. r.prev = HashOfLast(E) /\ r.hash = compute_row_hash(r.prev, r) /\ r \in seen
  BY <1>1 DEF Intact
<1>4. OnRecord(written, r)
  BY <1>3 DEF RecordInv
<1>5. PICK e \in written : /\ e.row = Key(r)
                           /\ r.prev \in Hashes
                           /\ r.hash = Append(r.prev, Says(e))
                           /\ HashOf(written, e.after, r.prev)
  BY <1>4 DEF OnRecord
<1>6. e.value = r.value
  <2>1. Append(r.prev, Says(e)) = Append(r.prev, <<r.table, r.value>>)
    BY <1>3, <1>5 DEF compute_row_hash
  <2>2. Says(e) \in Contents /\ <<r.table, r.value>> \in Contents
    BY <1>1, <1>3, SaysIsContent DEF Contents, AuditRows
  <2>3. r.prev \in Seq(Contents)
    BY <1>5 DEF Hashes
  <2>4. Says(e) = <<r.table, r.value>>
    BY <2>1, <2>2, <2>3, AppendIsInjective
  <2>5. QED
    BY <2>4 DEF Says
<1>7. e.after = KeyOfLast(E)
  <2>1. CASE E = {}
    <3>1. r.prev = << >> /\ KeyOfLast(E) = NULL
      BY <1>3, <2>1 DEF HashOfLast, KeyOfLast, GENESIS_HASH
    <3>2. ASSUME NEW f \in written, NEW g \in Hashes PROVE Append(g, Says(f)) # << >>
      BY SaysIsContent, AppendIsNotEmpty DEF Hashes
    <3>3. QED
      BY <1>5, <3>1, <3>2 DEF HashOf
  <2>2. CASE E # {}
    <3>1. E \subseteq seen
      BY <1>1 DEF EarlierThan
    <3>2. E \in SUBSET AuditRows /\ IsFiniteSet(E) /\ Comparable(E)
      BY <1>1, <1>2, <3>1, FS_Subset DEF Comparable
    <3>3. PICK q \in E : IsLast(q, E)
      BY <2>2, <3>2, LastExists
    <3>4. KeyOfLast(E) = Key(q) /\ r.prev = q.hash
      BY <1>3, <2>2, <3>2, <3>3, LastIsUnique DEF KeyOfLast, HashOfLast
    <3>5. OnRecord(written, q)
      BY <3>1 DEF RecordInv
    <3>6. PICK f \in written : /\ f.row = Key(q)
                               /\ q.prev \in Hashes
                               /\ q.hash = Append(q.prev, Says(f))
      BY <3>5 DEF OnRecord
    <3>7. q.hash # << >>
      BY <3>6, SaysIsContent, AppendIsNotEmpty DEF Hashes
    <3>8. PICK f2 \in written, g \in Hashes : e.after = f2.row /\ r.prev = Append(g, Says(f2))
      BY <1>5, <3>4, <3>7 DEF HashOf, GENESIS_HASH
    <3>9. Says(f) = Says(f2)
      BY <3>4, <3>6, <3>8, SaysIsContent, AppendIsInjective DEF Hashes
    <3>10. f.row = f2.row
      BY <3>9 DEF RecordInv, NothingSaidTwice
    <3>11. QED
      BY <3>4, <3>6, <3>8, <3>10
  <2>3. QED
    BY <2>1, <2>2
<1>8. Entry(r, seen) = [row |-> Key(r), value |-> r.value, after |-> KeyOfLast(E)]
  BY DEF Entry
<1>9. e = [row |-> e.row, value |-> e.value, after |-> e.after]
  BY DEF RecordInv, WellWritten
<1>10. QED
  BY <1>5, <1>6, <1>7, <1>8, <1>9

(* An INTACT report is honest, whatever was appended, backfilled, altered,  *)
(* removed, moved or lost before or while the two tables were read: every   *)
(* row it covers says what it said when it was written, and follows the row *)
(* it followed then (verify_chain).                                         *)
THEOREM IntactReportsAreHonest ==
  HistoryIsAChain /\ HistoryRepeatsNothing /\ Spec => []IntactIsHonest
<1>1. AInv /\ RecordInv => IntactIsHonest
  BY IntactRowsAreHonest DEF IntactIsHonest, Entries
<1>2. AInv /\ RecordInv /\ [Next]_vars => RecordInv'
  BY StepKeepsRecords
<1>3. QED
  BY <1>1, <1>2, ChainInvariance, InitRecords, PTL DEF Spec
=============================================================================
