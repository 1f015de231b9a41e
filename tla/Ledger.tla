------------------------------- MODULE Ledger -------------------------------
(***************************************************************************)
(* The append-only ledger of packages/ledger: concurrent callers of         *)
(* Ledger.write, each running write_primitive inside its own database       *)
(* transaction (db.session_scope), against the shared `ledger` table.       *)
(*                                                                         *)
(* A row keeps what the hash chain and the unique constraints tell apart:   *)
(* its company, its sequence number, its PEVR kind, its timestamp, its own  *)
(* hash and its prev_hash.  A fresh entry_id (uuid4) is part of the hashed  *)
(* body, so no two rows ever have the same hash: a hash is a fresh natural  *)
(* number, and Genesis is the hash of nothing.                              *)
(***************************************************************************)
EXTENDS Integers, Sequences, FiniteSets

CONSTANTS
  Companies,   \* tenants; every company has a hash chain of its own
  Writers,     \* concurrent callers of Ledger.write
  Times,       \* timestamps a caller may pass, past ones included
  RowLocks,    \* TRUE on Postgres (SELECT .. FOR UPDATE), FALSE on SQLite
  MaxHash      \* bound on the number of rows ever inserted

ASSUME CompaniesAssumption == Companies # {}
ASSUME TimesAssumption == Times \subseteq Nat /\ Times # {}
ASSUME RowLocksAssumption == RowLocks \in BOOLEAN
ASSUME MaxHashAssumption == MaxHash \in Nat

VARIABLES
  table,       \* committed rows of the `ledger` table
  pc,          \* where each writer is in write_primitive
  co,          \* the company it writes to
  now,         \* the timestamp of its four rows
  seq,         \* sequence number of the last row of the chain it extends
  prev_hash,   \* hash of that row
  passed,      \* its verify_fn's verdict, TRUE until verify has run
  pending,     \* its inserted, uncommitted rows
  rowlock,     \* the row its transaction holds FOR UPDATE, by hash
  nextHash,    \* next fresh hash
  results      \* hashes of the WriteResults returned to callers

vars == <<table, pc, co, now, seq, prev_hash, passed, pending, rowlock, nextHash, results>>

Genesis == 0
NoLock == -1

Kinds == {"propose", "execute", "verify", "resolve"}
Hashes == 1 .. MaxHash

Row == [company : Companies, seq : Nat \ {0}, kind : Kinds, ts : Times,
        passed : BOOLEAN, prev : Nat, hash : Nat \ {0}]

Rows(c) == {r \in table : r.company = c}

(* The row SELECT .. ORDER BY seq DESC LIMIT 1 finds in the statement's     *)
(* snapshot.                                                               *)
IsTail(r, c) == r \in Rows(c) /\ \A q \in Rows(c) : q.seq <= r.seq

(* The order in which write_primitive appends the rows of a cycle.          *)
CycleOrder == <<"propose", "execute", "verify", "resolve">>

NextPc == [propose |-> "execute", execute |-> "verify",
           verify |-> "resolve", resolve |-> "commit"]

AnyCompany == CHOOSE c \in Companies : TRUE
AnyTime == CHOOSE t \in Times : TRUE

Init ==
  /\ table = {}
  /\ pc = [w \in Writers |-> "idle"]
  /\ co = [w \in Writers |-> AnyCompany]
  /\ now = [w \in Writers |-> AnyTime]
  /\ seq = [w \in Writers |-> 0]
  /\ prev_hash = [w \in Writers |-> Genesis]
  /\ passed = [w \in Writers |-> TRUE]
  /\ pending = [w \in Writers |-> {}]
  /\ rowlock = [w \in Writers |-> NoLock]
  /\ nextHash = 1
  /\ results = {}

(* Bound: a new cycle starts only while every running one can still insert  *)
(* its four rows below MaxHash.                                            *)
RoomForCycle ==
  nextHash + 4 * Cardinality({w \in Writers : pc[w] # "idle"}) + 3 <= MaxHash

-----------------------------------------------------------------------------
(* Ledger.write opens a session and _tail runs its SELECT.  An empty ledger *)
(* has no row to lock: (0, GENESIS_PREV_HASH).  Otherwise the statement     *)
(* settles on the tail row of its snapshot; on Postgres it then has to lock *)
(* that row before it returns.                                             *)
TailEmpty(w, c, t) ==
  /\ pc[w] = "idle" /\ RoomForCycle
  /\ Rows(c) = {}
  /\ pc' = [pc EXCEPT ![w] = "propose"]
  /\ co' = [co EXCEPT ![w] = c]
  /\ now' = [now EXCEPT ![w] = t]
  /\ UNCHANGED <<table, seq, prev_hash, passed, pending, rowlock, nextHash, results>>

TailFound(w, c, t) ==
  /\ pc[w] = "idle" /\ RoomForCycle
  /\ \E r \in Rows(c) :
       /\ IsTail(r, c)
       /\ seq' = [seq EXCEPT ![w] = r.seq]
       /\ prev_hash' = [prev_hash EXCEPT ![w] = r.hash]
  /\ pc' = [pc EXCEPT ![w] = IF RowLocks THEN "lock" ELSE "propose"]
  /\ co' = [co EXCEPT ![w] = c]
  /\ now' = [now EXCEPT ![w] = t]
  /\ UNCHANGED <<table, passed, pending, rowlock, nextHash, results>>

(* FOR UPDATE waits until no other transaction holds the row.  The row is   *)
(* never updated, so under READ COMMITTED the waiting statement returns the *)
(* row it had chosen, even when a longer chain was committed meanwhile.     *)
LockTail(w) ==
  /\ pc[w] = "lock"
  /\ \A v \in Writers \ {w} : rowlock[v] # prev_hash[w]
  /\ rowlock' = [rowlock EXCEPT ![w] = prev_hash[w]]
  /\ pc' = [pc EXCEPT ![w] = "propose"]
  /\ UNCHANGED <<table, co, now, seq, prev_hash, passed, pending, nextHash, results>>

(* The unique index on (company_id, seq).                                   *)
Taken(c, n) == \E r \in table : r.company = c /\ r.seq = n

(* An INSERT waits for another transaction's uncommitted row with its key;  *)
(* SQLite has one writing transaction at a time.                            *)
InsertWaits(w) ==
  \E v \in Writers \ {w} : \E r \in pending[v] :
     RowLocks => r.company = co[w] /\ r.seq = seq[w] + 1

(* Fault: the last row of a cycle takes a timestamp of its own.             *)
NewRowOwnTime(w, ok) ==
  [company |-> co[w], seq |-> seq[w] + 1, kind |-> pc[w],
   ts |-> IF pc[w] = "resolve" THEN AnyTime ELSE now[w],
   passed |-> ok, prev |-> prev_hash[w], hash |-> nextHash]

(* _append: one INSERT of the next row of the PEVR cycle, chained to the    *)
(* row before it; ok is the verdict carried by a verify row.                *)
NewRow(w, ok) ==
  [company |-> co[w], seq |-> seq[w] + 1, kind |-> pc[w], ts |-> now[w],
   passed |-> ok, prev |-> prev_hash[w], hash |-> nextHash]

Insert(w, ok) ==
  /\ pending' = [pending EXCEPT ![w] = @ \cup {NewRow(w, ok)}]
  /\ seq' = [seq EXCEPT ![w] = @ + 1]
  /\ prev_hash' = [prev_hash EXCEPT ![w] = nextHash]
  /\ passed' = [passed EXCEPT ![w] = ok]
  /\ pc' = [pc EXCEPT ![w] = NextPc[@]]
  /\ nextHash' = nextHash + 1
  /\ UNCHANGED <<table, co, now, rowlock, results>>

(* Fault: the unique index on (company_id, seq) is missing.                 *)
AppendRowNoIndex(w, ok) ==
  /\ pc[w] \in Kinds
  /\ passed[w]
  /\ pc[w] # "verify" => ok
  /\ ~InsertWaits(w)
  /\ Insert(w, ok)

(* Fault: the cycle is resolved although verify_fn said passed=False.       *)
AppendRowUnverified(w, ok) ==
  /\ pc[w] \in Kinds
  /\ pc[w] # "verify" => ok
  /\ ~InsertWaits(w)
  /\ ~Taken(co[w], seq[w] + 1)
  /\ Insert(w, ok)

AppendRow(w, ok) ==
  /\ pc[w] \in Kinds
  /\ passed[w]
  /\ pc[w] # "verify" => ok
  /\ ~InsertWaits(w)
  /\ ~Taken(co[w], seq[w] + 1)
  /\ Insert(w, ok)

(* Fault: the transaction ends but its row lock is kept.                    *)
CloseKeepsLock(w) ==
  /\ pc' = [pc EXCEPT ![w] = "idle"]
  /\ co' = [co EXCEPT ![w] = AnyCompany]
  /\ now' = [now EXCEPT ![w] = AnyTime]
  /\ seq' = [seq EXCEPT ![w] = 0]
  /\ prev_hash' = [prev_hash EXCEPT ![w] = Genesis]
  /\ passed' = [passed EXCEPT ![w] = TRUE]
  /\ pending' = [pending EXCEPT ![w] = {}]
  /\ UNCHANGED <<rowlock, nextHash>>

(* session_scope's rollback: uncommitted rows and the row lock are gone.    *)
Close(w) ==
  /\ pc' = [pc EXCEPT ![w] = "idle"]
  /\ co' = [co EXCEPT ![w] = AnyCompany]
  /\ now' = [now EXCEPT ![w] = AnyTime]
  /\ seq' = [seq EXCEPT ![w] = 0]
  /\ prev_hash' = [prev_hash EXCEPT ![w] = Genesis]
  /\ passed' = [passed EXCEPT ![w] = TRUE]
  /\ pending' = [pending EXCEPT ![w] = {}]
  /\ rowlock' = [rowlock EXCEPT ![w] = NoLock]
  /\ UNCHANGED nextHash

(* The INSERT meets a committed row with its key: IntegrityError escapes    *)
(* Ledger.write, which never retries.                                       *)
Conflict(w) ==
  /\ pc[w] \in Kinds
  /\ passed[w]
  /\ ~InsertWaits(w)
  /\ Taken(co[w], seq[w] + 1)
  /\ Close(w)
  /\ UNCHANGED <<table, results>>

(* Fault: VerifyFailed is swallowed and a WriteResult returned.             *)
ReturnUnverified(w) ==
  /\ pc[w] = "resolve"
  /\ ~passed[w]
  /\ results' = results \cup {{r.hash : r \in pending[w]}}
  /\ Close(w)
  /\ UNCHANGED table

(* verify_fn said passed=False: VerifyFailed is raised once the verify row  *)
(* is inserted.                                                             *)
RaiseVerifyFailed(w) ==
  /\ pc[w] = "resolve"
  /\ ~passed[w]
  /\ Close(w)
  /\ UNCHANGED <<table, results>>

(* Fault: autocommit: an aborted write leaves its rows behind.              *)
AbortKeepsRows(w) ==
  /\ pc[w] # "idle"
  /\ table' = table \cup pending[w]
  /\ Close(w)
  /\ UNCHANGED results

(* execute_fn, verify_fn or resolve_fn raised, the connection was lost, or  *)
(* the process died: the transaction never commits.                         *)
Abort(w) ==
  /\ pc[w] # "idle"
  /\ Close(w)
  /\ UNCHANGED <<table, results>>

(* session.commit(), then the WriteResult with the four hashes.             *)
Commit(w) ==
  /\ pc[w] = "commit"
  /\ table' = table \cup pending[w]
  /\ results' = results \cup {{r.hash : r \in pending[w]}}
  /\ Close(w)

Progress(w) ==
  \/ LockTail(w) \/ Conflict(w) \/ RaiseVerifyFailed(w) \/ Commit(w)
  \/ \E ok \in BOOLEAN : AppendRow(w, ok)

Next ==
  \E w \in Writers :
    \/ \E c \in Companies, t \in Times : TailEmpty(w, c, t) \/ TailFound(w, c, t)
    \/ Progress(w)
    \/ Abort(w)

Spec == Init /\ [][Next]_vars

(* A call that has started keeps running, and a statement that waits for a  *)
(* row lock or a unique key is queued by the database: transactions that    *)
(* come and go cannot overtake it for ever, hence strong fairness.  Nothing *)
(* obliges a caller to start a write.                                       *)
Fairness == \A w \in Writers : SF_vars(Progress(w))
FairSpec == Spec /\ Fairness

-----------------------------------------------------------------------------
Pcs == Kinds \cup {"idle", "lock", "commit"}

(* Type correctness of the database state and of every writer's locals.     *)
TypeOK ==
  /\ table \subseteq Row
  /\ pc \in [Writers -> Pcs]
  /\ co \in [Writers -> Companies]
  /\ now \in [Writers -> Times]
  /\ seq \in [Writers -> Nat]
  /\ prev_hash \in [Writers -> Nat]
  /\ passed \in [Writers -> BOOLEAN]
  /\ pending \in [Writers -> SUBSET Row]
  /\ rowlock \in [Writers -> Nat \cup {NoLock}]
  /\ nextHash \in Nat \ {0}
  /\ results \subseteq SUBSET (Nat \ {0})

(* The kind a row of sequence number n has: cycles are never interleaved.   *)
KindAt(n) == CycleOrder[IF n % 4 = 0 THEN 4 ELSE n % 4]

UniqueSeq ==
  \A r, q \in table : r.company = q.company /\ r.seq = q.seq => r = q

Linked(r, q) == q.company = r.company /\ q.seq + 1 = r.seq /\ q.hash = r.prev

(* However writers interleave, collide, fail verification or die, each      *)
(* company's committed rows form one unforked chain without a gap: every    *)
(* row but the first is chained to the row one below it.                    *)
ChainIntact ==
  /\ UniqueSeq
  /\ \A r \in table : \A n \in 1 .. r.seq : Taken(r.company, n)
  /\ \A r \in table :
       \/ r.seq = 1 /\ r.prev = Genesis
       \/ \E q \in table : Linked(r, q)

(* "appends exactly four hash-chained ledger entries inside a single DB     *)
(* transaction": readers never see part of a cycle, two cycles interleaved, *)
(* or a cycle whose verify step did not pass.                               *)
CyclesComplete ==
  \A r \in table :
     /\ r.kind = KindAt(r.seq)
     /\ r.passed
     /\ r.kind # "resolve" => \E q \in table : Linked(q, r) /\ q.ts = r.ts

(* A WriteResult's four hashes are in the table for good, and a call that   *)
(* raised left nothing there.                                               *)
ResultsMatchTable == UNION results = {r.hash : r \in table}

(* A commit only extends one company's chain past its current tail.         *)
ExtendsTail ==
  /\ table \subseteq table'
  /\ \A r \in table' \ table : \A q \in table : q.company = r.company => q.seq < r.seq
  /\ \A r, q \in table' \ table : r.company = q.company
AppendOnly == [][ExtendsTail]_vars

(* Waiting for the tail row's lock or for a colliding insert never lasts    *)
(* for ever: every started write commits or raises.                         *)
WritesEnd == \A w \in Writers : pc[w] # "idle" ~> pc[w] = "idle"

(* What _tail's docstring promises on Postgres: the row a writer holds FOR  *)
(* UPDATE when it starts appending is the company's most recent entry.      *)
LockedRowIsTail ==
  \A w \in Writers :
    pc[w] = "propose" /\ rowlock[w] # NoLock => ~Taken(co[w], seq[w] + 1)

-----------------------------------------------------------------------------
(***************************************************************************)
(* The read side: fetch_entries, verify_chain and the timestamp-bounded     *)
(* read that replay folds; and the view of the committed rows as one atomic *)
(* log per company.                                                         *)
(***************************************************************************)

(* Rows with a smaller sequence number come first (equal ones, which the    *)
(* unique index excludes, in the order they were written).                  *)
Before(q, r) == q.seq < r.seq \/ (q.seq = r.seq /\ q.hash < r.hash)

(* SELECT .. ORDER BY seq ASC: the selected rows, each where its rank says. *)
by_seq(rows) ==
  [i \in 1 .. Cardinality(rows) |->
     CHOOSE r \in rows : Cardinality({q \in rows : Before(q, r)}) = i - 1]

(* fetch_entries(session, company_id).                                      *)
fetch(c) == by_seq(Rows(c))

(* fetch_entries(.., until_ts): WHERE ts <= until_ts.                       *)
fetch_until(c, until) == by_seq({r \in Rows(c) : r.ts <= until})

(* verify_chain(entries): the 1-based index of the first entry whose        *)
(* prev_hash is not the running chain head, 0 when there is none.           *)
Broken(rows, i) ==
  rows[i].prev # (IF i = 1 THEN Genesis ELSE rows[i - 1].hash)

broken_at(rows) ==
  LET bad == {i \in 1 .. Len(rows) : Broken(rows, i)}
  IN  IF bad = {} THEN 0 ELSE CHOOSE i \in bad : \A j \in bad : i <= j

(* `make verify` can run at any moment: verify_company_chain never reports  *)
(* a break, whatever transactions are in flight.                            *)
VerifyReportOk == \A c \in Companies : broken_at(fetch(c)) = 0

(* replay(until_ts) never folds part of a PEVR cycle: a cycle's four rows   *)
(* share one timestamp, so the filter keeps or drops all of them.           *)
ReplayWholeCycles ==
  \A c \in Companies, t \in Times :
    LET rows == fetch_until(c, t)
    IN  \A i \in 1 .. Len(rows) :
          /\ rows[i].kind = KindAt(i)
          /\ rows[i].kind # "propose" => rows[i].prev = rows[i - 1].hash

(* What a reader of the whole table sees of a row.                          *)
Entry(r) == [kind |-> r.kind, ts |-> r.ts, hash |-> r.hash, prev |-> r.prev]

Log == [c \in Companies |-> [i \in 1 .. Len(fetch(c)) |-> Entry(fetch(c)[i])]]

Atomic == INSTANCE AtomicLedger WITH log <- Log

(* Ledger.write is atomic: every step of the transactional implementation   *)
(* is one whole write of AtomicLedger or changes nothing a reader sees.     *)
WriteIsAtomic == Atomic!Spec
=============================================================================
