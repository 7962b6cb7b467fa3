----------------------------- MODULE AuditChain -----------------------------
(***************************************************************************)
(* The hash chain over task_transitions and agent_actions (audit/chain.py, *)
(* audit/actions.py): appends under one advisory lock, verify_chain,       *)
(* backfill_chain, and the edits of stored rows the chain exists to show.  *)
(*                                                                         *)
(* A hash covers a row's content and the hash before it.  SHA-256 is taken *)
(* to be injective, so a hash is modelled as the sequence of contents it   *)
(* covers: compute_row_hash appends to it, GENESIS_HASH is the empty one.  *)
(***************************************************************************)
EXTENDS Integers, Sequences, FiniteSets

CONSTANTS
  Writers,    \* the sessions that append audit rows
  NoOne,      \* the value of the lock when nobody holds it
  Values,     \* what a row can say, its task and timestamp included
  NULL,       \* an SQL NULL
  Legacy,     \* the rows written before the shared positions existed
  MaxSeq,     \* bound of the model: positions drawn from the sequence
  MaxEdits    \* bound of the model: edits of stored rows

Tables == {"task_transitions", "agent_actions"}

(* The content of a row: its serialization names the fields of its table.   *)
Contents == Tables \X Values
Hashes == Seq(Contents)
GENESIS_HASH == << >>

(* id is the row's primary key.  Of the keys of new rows only their being   *)
(* fresh matters.                                                           *)
AuditRows == [table : Tables, id : Nat, value : Values, pos : Int \cup {NULL},
              prev : Hashes \cup {NULL}, hash : Hashes \cup {NULL}]

ASSUME NullAssumption == NULL \notin Int \cup Hashes /\ NoOne \notin Writers
ASSUME ValuesAssumption == Values # {}
ASSUME LegacyAssumption ==
  /\ Legacy \subseteq AuditRows
  /\ IsFiniteSet(Legacy)
  /\ \A r \in Legacy : r.pos = NULL /\ r.id \in 1..Cardinality(Legacy)
ASSUME BoundsAssumption == MaxSeq \in Nat /\ MaxEdits \in Nat

VARIABLES
  rows,     \* the committed rows of both tables
  seq,      \* audit_chain_pos_seq: the last position drawn, committed or not
  lock,     \* the holder of the chain's advisory lock
  pc,       \* where each writer stands in its append
  pending,  \* the row each writer is about to insert
  vpc,      \* where the running verification stands
  seen,     \* the rows it has read
  \* History variables, never read by the code.
  follows,  \* the row each writer found at the tip
  written,  \* every chained row as it was written, and the row it followed
  edits     \* edits made behind the application's back

writerVars == <<lock, pc, pending>>
verifierVars == <<vpc, seen>>
vars == <<rows, seq, writerVars, verifierVars, follows, written, edits>>

-----------------------------------------------------------------------------
(* Order and hashes *)

(* _all_rows_in_chain_order: rows without a position first, by id, then by  *)
(* position; the sort is stable, so in a tie transitions come first.        *)
Before(r, s) ==
  \/ r.pos = NULL /\ s.pos # NULL
  \/ r.pos = NULL /\ s.pos = NULL /\ r.id < s.id
  \/ r.pos # NULL /\ s.pos # NULL /\ r.pos < s.pos
  \/ /\ r.pos = s.pos /\ (r.pos = NULL => r.id = s.id)
     /\ r.table = "task_transitions" /\ s.table = "agent_actions"

Chained(S) == {r \in S : r.hash # NULL}
IsLast(r, S) == r \in S /\ \A q \in S \ {r} : Before(q, r)
Last(S) == CHOOSE r \in S : IsLast(r, S)
EarlierThan(r, S) == {q \in S : Before(q, r)}

(* Otherwise: the hash covers the row alone.                              *)
HashWithoutLink(prev, r) == <<r.table, r.value>>

compute_row_hash(prev, r) == Append(prev, <<r.table, r.value>>)

(* The hash of the row that comes last in S.                                *)
HashOfLast(S) == IF S = {} THEN GENESIS_HASH ELSE Last(S).hash

(* Otherwise: only rows with a position count, as before the fix the comment *)
(* in _current_tip_hash describes.                                          *)
TipOfPositioned(S) == HashOfLast({r \in Chained(S) : r.pos # NULL})

CurrentTip(S) == HashOfLast(Chained(S))

(* Otherwise: verification follows the links and recomputes nothing.      *)
LinksOnly(S) ==
  \A r \in Chained(S) : r.prev = HashOfLast(EarlierThan(r, Chained(S)))

(* verify_chain on the rows S: the walk from genesis finds no divergence.   *)
Intact(S) ==
  \A r \in Chained(S) :
    /\ r.prev = HashOfLast(EarlierThan(r, Chained(S)))
    /\ r.hash = compute_row_hash(r.prev, r)

Key(r) == <<r.table, r.id>>
KeyOfLast(S) == IF S = {} THEN NULL ELSE Key(Last(S))

(* What is on record about r as it stands in S: what it says, after which.  *)
Entry(r, S) == [row |-> Key(r), value |-> r.value,
                after |-> KeyOfLast(EarlierThan(r, Chained(S)))]
Entries(S) == {Entry(r, S) : r \in Chained(S)}

-----------------------------------------------------------------------------
NoRow == [table |-> "agent_actions", id |-> 0, value |-> CHOOSE v \in Values : TRUE,
          pos |-> NULL, prev |-> NULL, hash |-> NULL]

Init ==
  /\ rows = Legacy
  /\ seq = 0
  /\ lock = NoOne
  /\ pc = [w \in Writers |-> "idle"]
  /\ pending = [w \in Writers |-> NoRow]
  /\ vpc = "idle" /\ seen = {}
  /\ follows = [w \in Writers |-> NULL]
  /\ written = Entries(Legacy)
  /\ edits = 0

TypeOK ==
  /\ rows \subseteq AuditRows
  /\ seq \in Nat
  /\ lock \in Writers \cup {NoOne}
  /\ pc \in [Writers -> {"idle", "lock", "tip", "position", "insert"}]
  /\ pending \in [Writers -> AuditRows]
  /\ vpc \in {"idle", "reading", "done"}
  /\ seen \subseteq AuditRows
  /\ edits \in Nat
  /\ \A e \in written : e.row[1] \in Tables /\ e.value \in Values

-----------------------------------------------------------------------------
(* append_chained, one database call at a time *)

(* transition or record_action builds the row and calls append_chained.  No *)
(* two rows say the same: their timestamps differ.                          *)
Said == {e.value : e \in written} \cup {pending[w].value : w \in {x \in Writers : pc[x] # "idle"}}

StartAppend(w) ==
  /\ pc[w] = "idle"
  /\ \E t \in Tables, v \in Values \ Said :
       pending' = [pending EXCEPT ![w] = [NoRow EXCEPT !.table = t, !.value = v]]
  /\ pc' = [pc EXCEPT ![w] = "lock"]
  /\ UNCHANGED <<rows, seq, lock, verifierVars, follows, written, edits>>

LockChain(w) ==
  /\ pc[w] = "lock"
  /\ lock = NoOne
  /\ lock' = w
  /\ pc' = [pc EXCEPT ![w] = "tip"]
  /\ UNCHANGED <<rows, seq, pending, verifierVars, follows, written, edits>>

(* One query per table, each a snapshot of its own; under the lock nobody   *)
(* else commits between them.                                               *)
ReadTip(w) ==
  /\ pc[w] = "tip"
  /\ pending' = [pending EXCEPT ![w].prev = CurrentTip(rows)]
  /\ follows' = [follows EXCEPT ![w] = KeyOfLast(Chained(rows))]
  /\ pc' = [pc EXCEPT ![w] = "position"]
  /\ UNCHANGED <<rows, seq, lock, verifierVars, written, edits>>

(* nextval is not transactional: a position drawn is gone.                  *)
DrawPosition(w) ==
  /\ pc[w] = "position"
  /\ seq < MaxSeq
  /\ seq' = seq + 1
  /\ pending' = [pending EXCEPT ![w] =
       [@ EXCEPT !.pos = seq + 1, !.id = Cardinality(Legacy) + seq + 1,
                 !.hash = compute_row_hash(pending[w].prev, pending[w])]]
  /\ pc' = [pc EXCEPT ![w] = "insert"]
  /\ UNCHANGED <<rows, lock, verifierVars, follows, written, edits>>

EndAppend(w) ==
  /\ lock' = IF lock = w THEN NoOne ELSE lock
  /\ pending' = [pending EXCEPT ![w] = NoRow]
  /\ follows' = [follows EXCEPT ![w] = NULL]
  /\ pc' = [pc EXCEPT ![w] = "idle"]

(* The caller's commit: the row appears and the lock goes, at once.         *)
CommitAppend(w) ==
  /\ pc[w] = "insert"
  /\ rows' = rows \cup {pending[w]}
  /\ written' = written \cup {[row |-> Key(pending[w]), value |-> pending[w].value,
                                after |-> follows[w]]}
  /\ EndAppend(w)
  /\ UNCHANGED <<seq, verifierVars, edits>>

(* A failed or abandoned append, or a crash: record_action swallows the     *)
(* error, transition passes it on; no row is left either way.               *)
Rollback(w) ==
  /\ pc[w] # "idle"
  /\ EndAppend(w)
  /\ UNCHANGED <<rows, seq, verifierVars, written, edits>>

-----------------------------------------------------------------------------
(* backfill_chain *)

Unplaced(S) == {r \in S : r.hash = NULL}
ChainedLegacy(S) == {r \in Chained(S) : r.pos = NULL}

(* Otherwise: legacy rows take the next positions of the sequence, as in the *)
(* earlier version the comment in backfill_chain describes.                 *)
PositionFromSequence(r, S) ==
  seq + Cardinality({q \in S : q.pos = NULL /\ (q = r \/ Before(q, r))})

(* Chained rows without a position count up to -1, in their order; rows not *)
(* yet chained draw from the sequence, in theirs.                           *)
BackfilledPosition(r, S) ==
  IF r.hash # NULL
  THEN 0 - Cardinality({q \in ChainedLegacy(S) : q = r \/ Before(r, q)})
  ELSE seq + Cardinality({q \in Unplaced(S) : q = r \/ Before(q, r)})

(* A row not yet chained continues from whatever row precedes it.           *)
BackfilledHashes(S) ==
  LET prevOf(h, r) == LET E == EarlierThan(r, S) IN IF E = {} THEN GENESIS_HASH ELSE h[Last(E)]
      h[r \in S] == IF r.hash # NULL THEN r.hash ELSE compute_row_hash(prevOf(h, r), r)
  IN [r \in S |-> [prev |-> IF r.hash # NULL THEN r.prev ELSE prevOf(h, r), hash |-> h[r]]]

Backfilled(S) ==
  LET h == BackfilledHashes(S) IN
  {[r EXCEPT !.pos = IF r.pos = NULL THEN BackfilledPosition(r, S) ELSE r.pos,
             !.prev = h[r].prev, !.hash = h[r].hash] : r \in S}

(* One transaction under the lock, so one step.                             *)
Backfill ==
  /\ lock = NoOne
  /\ \E r \in rows : r.pos = NULL
  /\ rows' = Backfilled(rows)
  /\ seq' = seq + Cardinality(Unplaced(rows))
  /\ written' = written \cup
       {Entry(r, rows') : r \in {s \in rows' : \E q \in Unplaced(rows) : Key(q) = Key(s)}}
  /\ UNCHANGED <<writerVars, verifierVars, follows, edits>>

-----------------------------------------------------------------------------
(* verify_chain takes no lock and reads one table after the other *)

RowsOf(t) == {r \in rows : r.table = t}

ReadTransitions ==
  /\ vpc \in {"idle", "done"}
  /\ seen' = RowsOf("task_transitions")
  /\ vpc' = "reading"
  /\ UNCHANGED <<rows, seq, writerVars, follows, written, edits>>

ReadActions ==
  /\ vpc = "reading"
  /\ seen' = seen \cup RowsOf("agent_actions")
  /\ vpc' = "done"
  /\ UNCHANGED <<rows, seq, writerVars, follows, written, edits>>

-----------------------------------------------------------------------------
(* Someone with access to the database alters stored rows *)

Edit ==
  /\ edits < MaxEdits
  /\ edits' = edits + 1
  /\ UNCHANGED <<seq, writerVars, verifierVars, follows, written>>

AlterRow(r) ==
  /\ \E v \in Values \ {r.value} : rows' = (rows \ {r}) \cup {[r EXCEPT !.value = v]}
  /\ Edit

DeleteRow(r) == rows' = rows \ {r} /\ Edit

SwapRows(r, s) ==
  /\ r # s
  /\ rows' = (rows \ {r, s}) \cup {[r EXCEPT !.pos = s.pos], [s EXCEPT !.pos = r.pos]}
  /\ Edit

DeleteTable(t) ==
  /\ RowsOf(t) # {}
  /\ rows' = rows \ RowsOf(t)
  /\ Edit

Tamper ==
  \/ \E r \in rows : AlterRow(r) \/ DeleteRow(r)
  \/ \E r, s \in rows : SwapRows(r, s)
  \/ \E t \in Tables : DeleteTable(t)

-----------------------------------------------------------------------------
AppendStep(w) ==
  \/ StartAppend(w) \/ LockChain(w) \/ ReadTip(w) \/ DrawPosition(w)
  \/ CommitAppend(w) \/ Rollback(w)

Next ==
  \/ \E w \in Writers : AppendStep(w)
  \/ Backfill
  \/ ReadTransitions \/ ReadActions
  \/ Tamper

Spec == Init /\ [][Next]_vars

-----------------------------------------------------------------------------
(* Properties *)

(* However appends, failed appends, crashes and a backfill interleave, the  *)
(* committed rows of both tables form one chain from genesis that verifies, *)
(* as long as nobody edits them: it never forks and gaps do no harm.        *)
ChainIsLinear == edits = 0 => Intact(rows)

(* An INTACT report is honest.  Each row it covers says what it said when   *)
(* it was written, and follows the row it followed then: no row between two *)
(* survivors was altered, removed, moved, or lost with its whole table.     *)
IntactIsHonest ==
  vpc = "done" /\ Intact(seen) => Entries(seen) \subseteq written

(* Chain order is commit order.  A step of the application adds rows at the *)
(* end only, and never moves a row past another, whatever was drawn from    *)
(* the sequence meanwhile; a backfill keeps history before what is newer.   *)
OrderIsStable ==
  [][edits' = edits =>
       /\ \A r, s \in rows : Before(r, s) =>
            \E p, q \in rows' : Key(p) = Key(r) /\ Key(q) = Key(s) /\ Before(p, q)
       /\ \A r \in rows' : (\A q \in rows : Key(q) # Key(r)) => IsLast(r, rows')]_rows

(* Once every row is chained, by a backfill or from the start, the chain    *)
(* verifies: what the tests of backfill_chain assert.                       *)
BackfilledChainVerifies ==
  edits = 0 /\ (\A r \in rows : r.hash # NULL) => Intact(rows)

(* "the chain was broken, reordered, or rows were deleted at this point"    *)
(* (verify_chain) is never said of a chain nobody touched.                  *)
NoFalseAlarm == vpc = "done" /\ edits = 0 => Intact(seen)
=============================================================================
