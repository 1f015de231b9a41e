---------------------------- MODULE LedgerProofs ----------------------------
(***************************************************************************)
(* Proofs, for any set of companies and writers and on both back ends, that *)
(* the ledger keeps one unforked, gapless chain of whole PEVR cycles per    *)
(* company, that a WriteResult never lies, and that commits only extend the *)
(* tail; and about what readers see: a fetch returns row number n at        *)
(* position n, verify never reports a break, a replay up to any time folds  *)
(* whole cycles, and the transactional writes implement AtomicLedger.       *)
(***************************************************************************)
EXTENDS Ledger, FiniteSetTheorems, FunctionTheorems, SequenceTheorems, TLAPS

(***************************************************************************)
(* The inductive invariant.  ChainIntact alone is not inductive: a commit   *)
(* is safe because of what every open transaction holds.                    *)
(***************************************************************************)

(* What a transaction can read: committed rows and its own.                 *)
Visible(w) == table \cup pending[w]

SameKey(r, q) == r.company = q.company /\ r.seq = q.seq

(* (company, seq) is unique over committed and uncommitted rows alike: the  *)
(* index makes a colliding INSERT wait or fail before any commit.           *)
KeysDisjoint ==
  /\ \A w \in Writers : \A r \in pending[w], q \in table : ~SameKey(r, q)
  /\ \A w, v \in Writers : \A r \in pending[w], q \in pending[v] :
       SameKey(r, q) => w = v /\ r = q

(* The chain a writer extends exists, down to its first row.                *)
HeadKnown(w) ==
  /\ \/ seq[w] = 0 /\ prev_hash[w] = Genesis
     \/ \E r \in Visible(w) : /\ r.company = co[w]
                              /\ r.seq = seq[w]
                              /\ r.hash = prev_hash[w]
  /\ \A n \in 1 .. seq[w] : \E r \in Visible(w) : r.company = co[w] /\ r.seq = n

(* Its own rows are linked upwards and downwards and carry the right kinds. *)
PendingLinked(w) ==
  \A r \in pending[w] :
    /\ r.company = co[w] /\ r.ts = now[w] /\ r.seq <= seq[w]
    /\ r.kind = KindAt(r.seq)
    /\ passed[w] => r.passed
    /\ \/ r.seq = 1 /\ r.prev = Genesis
       \/ \E q \in Visible(w) : Linked(r, q)
    /\ r.seq < seq[w] => \E q \in pending[w] : Linked(q, r) /\ q.ts = r.ts

(* Control agrees with the position in the cycle.                           *)
ControlOK(w) ==
  /\ pc[w] = "idle" => seq[w] = 0 /\ prev_hash[w] = Genesis
  /\ pc[w] \in {"idle", "lock", "propose"} => pending[w] = {} /\ passed[w]
  /\ pc[w] = "lock" => KindAt(seq[w] + 1) = "propose"
  /\ pc[w] \in Kinds => pc[w] = KindAt(seq[w] + 1)
  /\ pc[w] = "commit" => KindAt(seq[w]) = "resolve" /\ passed[w]

TxInv == \A w \in Writers : HeadKnown(w) /\ PendingLinked(w) /\ ControlOK(w)

IInv == /\ TypeOK
        /\ ChainIntact
        /\ CyclesComplete
        /\ KeysDisjoint
        /\ TxInv

-----------------------------------------------------------------------------
(* The kinds of consecutive rows follow the order of write_primitive.       *)
LEMMA KindSteps ==
  ASSUME NEW n \in Nat
  PROVE  /\ KindAt(n) \in Kinds
         /\ KindAt(n) # "resolve" => NextPc[KindAt(n)] = KindAt(n + 1)
         /\ KindAt(n) = "resolve" => /\ NextPc[KindAt(n)] = "commit"
                                     /\ KindAt(n + 1) = "propose"
         /\ KindAt(n) = "propose" <=> n % 4 = 1
<1>1. n % 4 \in 0 .. 3 /\ (n + 1) % 4 = (IF n % 4 = 3 THEN 0 ELSE (n % 4) + 1)
  OBVIOUS
<1>2. CASE n % 4 = 0 BY <1>1, <1>2 DEF KindAt, CycleOrder, NextPc, Kinds
<1>3. CASE n % 4 = 1 BY <1>1, <1>3 DEF KindAt, CycleOrder, NextPc, Kinds
<1>4. CASE n % 4 = 2 BY <1>1, <1>4 DEF KindAt, CycleOrder, NextPc, Kinds
<1>5. CASE n % 4 = 3 BY <1>1, <1>5 DEF KindAt, CycleOrder, NextPc, Kinds
<1> QED BY <1>1, <1>2, <1>3, <1>4, <1>5

(* The defaults of a closed writer are a company and a timestamp.           *)
LEMMA Defaults == AnyCompany \in Companies /\ AnyTime \in Times
BY CompaniesAssumption, TimesAssumption DEF AnyCompany, AnyTime

(* Every state the database starts from satisfies the invariant.            *)
LEMMA InitIInv == Init => IInv
<1> SUFFICES ASSUME Init PROVE IInv OBVIOUS
<1>1. TypeOK BY Defaults DEF Init, TypeOK, Pcs, Genesis, NoLock
<1>2. ChainIntact /\ CyclesComplete
  BY DEF Init, ChainIntact, UniqueSeq, CyclesComplete
<1>3. KeysDisjoint BY DEF Init, KeysDisjoint
<1>4. TxInv
  BY DEF Init, TxInv, HeadKnown, PendingLinked, ControlOK, Kinds
<1> QED BY <1>1, <1>2, <1>3, <1>4 DEF IInv

(* A transaction that ends without a commit takes only its own rows along.  *)
LEMMA CloseIInv ==
  ASSUME IInv, NEW w \in Writers, Close(w), UNCHANGED <<table, results>>
  PROVE  IInv'
<1> USE DEF IInv
<1>1. TypeOK'
  BY Defaults DEF TypeOK, Close, Pcs, Genesis, NoLock
<1>2. ChainIntact' /\ CyclesComplete'
  BY DEF ChainIntact, UniqueSeq, CyclesComplete, Linked, Taken
<1>3. \A v \in Writers : pending'[v] \subseteq pending[v]
  BY DEF Close, TypeOK
<1>4. KeysDisjoint' BY <1>3 DEF KeysDisjoint, SameKey
<1>5. TxInv'
  <2> SUFFICES ASSUME NEW v \in Writers
               PROVE  (HeadKnown(v) /\ PendingLinked(v) /\ ControlOK(v))'
    BY DEF TxInv
  <2>1. CASE v = w
    BY <2>1 DEF Close, TypeOK, HeadKnown, PendingLinked, ControlOK, Kinds
  <2>2. CASE v # w
    <3>1. /\ pc'[v] = pc[v] /\ co'[v] = co[v] /\ now'[v] = now[v]
          /\ seq'[v] = seq[v] /\ prev_hash'[v] = prev_hash[v]
          /\ passed'[v] = passed[v] /\ pending'[v] = pending[v]
      BY <2>2 DEF Close, TypeOK
    <3> QED BY <3>1 DEF TxInv, HeadKnown, PendingLinked, ControlOK, Visible, Linked
  <2> QED BY <2>1, <2>2
<1> QED BY <1>1, <1>2, <1>4, <1>5

(* Reading the tail fixes a committed row, complete cycles below it.        *)
LEMMA TailIInv ==
  ASSUME IInv, NEW w \in Writers, NEW c \in Companies, NEW t \in Times,
         TailEmpty(w, c, t) \/ TailFound(w, c, t)
  PROVE  IInv'
<1> USE DEF IInv
<1>0. /\ pc[w] = "idle" /\ pending[w] = {} /\ passed[w]
      /\ seq[w] = 0 /\ prev_hash[w] = Genesis
  BY DEF TailEmpty, TailFound, TxInv, ControlOK
<1>1. /\ UNCHANGED <<table, passed, pending, rowlock, nextHash, results>>
      /\ co' = [co EXCEPT ![w] = c] /\ now' = [now EXCEPT ![w] = t]
  BY DEF TailEmpty, TailFound
<1>2. ChainIntact' /\ CyclesComplete' /\ KeysDisjoint'
  BY <1>1 DEF ChainIntact, UniqueSeq, CyclesComplete, Linked, Taken, KeysDisjoint, SameKey
<1>3. /\ pc' = [pc EXCEPT ![w] = pc'[w]] /\ pc'[w] \in {"lock", "propose"}
      /\ seq' = [seq EXCEPT ![w] = seq'[w]] /\ seq'[w] \in Nat
      /\ prev_hash' = [prev_hash EXCEPT ![w] = prev_hash'[w]] /\ prev_hash'[w] \in Nat
      /\ \/ seq'[w] = 0 /\ prev_hash'[w] = Genesis
         \/ \E r \in table : /\ r.company = c /\ r.seq = seq'[w]
                             /\ r.hash = prev_hash'[w] /\ r.kind = "resolve"
  <2>1. CASE TailEmpty(w, c, t)
    BY <2>1, <1>0 DEF TailEmpty, TypeOK, Genesis
  <2>2. CASE TailFound(w, c, t)
    <3>1. PICK r \in Rows(c) : /\ IsTail(r, c)
                               /\ seq' = [seq EXCEPT ![w] = r.seq]
                               /\ prev_hash' = [prev_hash EXCEPT ![w] = r.hash]
      BY <2>2 DEF TailFound
    <3>2. r \in table /\ r.company = c /\ r \in Row
      BY <3>1 DEF Rows, TypeOK
    <3>3. r.kind = "resolve"
      <4> SUFFICES ASSUME r.kind # "resolve" PROVE FALSE OBVIOUS
      <4>1. PICK q \in table : Linked(q, r)
        BY <3>2 DEF CyclesComplete
      <4>2. q \in Rows(c) /\ q \in Row /\ r.seq + 1 = q.seq
        BY <3>2, <4>1 DEF Rows, Linked, TypeOK
      <4> QED BY <3>1, <3>2, <4>2 DEF IsTail, Row
    <3>4. seq'[w] = r.seq /\ prev_hash'[w] = r.hash
      BY <3>1 DEF TypeOK
    <3> QED BY <2>2, <3>1, <3>2, <3>3, <3>4 DEF TailFound, TypeOK, Row
  <2> QED BY <2>1, <2>2
<1>4. TypeOK'
  BY <1>1, <1>3 DEF TypeOK, Pcs, Kinds
<1>5. KindAt(seq'[w] + 1) = "propose"
  <2>1. CASE seq'[w] = 0
    BY <2>1 DEF KindAt, CycleOrder
  <2>2. CASE \E r \in table : r.seq = seq'[w] /\ r.kind = "resolve"
    <3>1. KindAt(seq'[w]) = "resolve"
      BY <2>2 DEF CyclesComplete
    <3> QED BY <3>1, <1>3, KindSteps
  <2> QED BY <1>3, <2>1, <2>2
<1>6. TxInv'
  <2> SUFFICES ASSUME NEW v \in Writers
               PROVE  (HeadKnown(v) /\ PendingLinked(v) /\ ControlOK(v))'
    BY DEF TxInv
  <2>1. CASE v = w
    <3>1. /\ co'[v] = c /\ pending'[v] = {} /\ passed'[v]
          /\ pc'[v] \in {"lock", "propose"}
      BY <2>1, <1>0, <1>1, <1>3 DEF TypeOK
    <3>2. ControlOK(v)'
      BY <2>1, <3>1, <1>5 DEF ControlOK, Kinds
    <3>3. PendingLinked(v)'
      BY <3>1 DEF PendingLinked
    <3>4. HeadKnown(v)'
      <4>1. CASE seq'[w] = 0 /\ prev_hash'[w] = Genesis
        BY <4>1, <2>1 DEF HeadKnown
      <4>2. CASE \E r \in table : /\ r.company = c /\ r.seq = seq'[w]
                                  /\ r.hash = prev_hash'[w]
        BY <4>2, <2>1, <3>1, <1>1 DEF HeadKnown, Visible, ChainIntact, Taken
      <4> QED BY <1>3, <4>1, <4>2
    <3> QED BY <3>2, <3>3, <3>4
  <2>2. CASE v # w
    <3>1. /\ pc'[v] = pc[v] /\ co'[v] = co[v] /\ now'[v] = now[v]
          /\ seq'[v] = seq[v] /\ prev_hash'[v] = prev_hash[v]
          /\ passed'[v] = passed[v] /\ pending'[v] = pending[v]
      BY <2>2, <1>1, <1>3 DEF TypeOK
    <3> QED BY <3>1, <1>1 DEF TxInv, HeadKnown, PendingLinked, ControlOK, Visible, Linked
  <2> QED BY <2>1, <2>2
<1> QED BY <1>2, <1>4, <1>6

(* Being granted the row lock changes nothing the chain depends on.         *)
LEMMA LockIInv ==
  ASSUME IInv, NEW w \in Writers, LockTail(w)
  PROVE  IInv'
<1> USE DEF IInv
<1>1. TypeOK' BY DEF TypeOK, LockTail, Pcs, Kinds
<1>2. ChainIntact' /\ CyclesComplete' /\ KeysDisjoint'
  BY DEF LockTail, ChainIntact, UniqueSeq, CyclesComplete, Linked, Taken, KeysDisjoint, SameKey
<1>3. TxInv'
  <2> SUFFICES ASSUME NEW v \in Writers
               PROVE  (HeadKnown(v) /\ PendingLinked(v) /\ ControlOK(v))'
    BY DEF TxInv
  <2>1. HeadKnown(v)' /\ PendingLinked(v)'
    BY DEF LockTail, TxInv, HeadKnown, PendingLinked, Visible, Linked
  <2>2. ControlOK(v)'
    BY DEF LockTail, TypeOK, TxInv, ControlOK, Kinds
  <2> QED BY <2>1, <2>2
<1> QED BY <1>1, <1>2, <1>3

(* The key of the row a transaction is about to insert is free everywhere.  *)
LEMMA NewKeyFree ==
  ASSUME IInv, NEW w \in Writers, NEW ok \in BOOLEAN, AppendRow(w, ok)
  PROVE  /\ \A q \in table : ~SameKey(NewRow(w, ok), q)
         /\ \A v \in Writers : \A q \in pending[v] : ~SameKey(NewRow(w, ok), q)
<1> USE DEF IInv
<1>1. \A q \in table : ~SameKey(NewRow(w, ok), q)
  BY DEF AppendRow, Insert, Taken, SameKey, NewRow
<1>2. \A q \in pending[w] : ~SameKey(NewRow(w, ok), q)
  BY DEF TxInv, PendingLinked, SameKey, NewRow, TypeOK, Row
<1>3. ASSUME NEW v \in Writers, v # w, NEW q \in pending[v]
      PROVE  ~SameKey(NewRow(w, ok), q)
  BY <1>3 DEF AppendRow, Insert, InsertWaits, SameKey, NewRow
<1> QED BY <1>1, <1>2, <1>3

(* One INSERT extends the transaction's own chain by one row.               *)
LEMMA AppendIInv ==
  ASSUME IInv, NEW w \in Writers, NEW ok \in BOOLEAN, AppendRow(w, ok)
  PROVE  IInv'
<1> USE DEF IInv
<1> DEFINE new == NewRow(w, ok)
<1>0. /\ UNCHANGED <<table, co, now, rowlock, results>>
      /\ pc[w] \in Kinds /\ passed[w] /\ (pc[w] # "verify" => ok)
  BY DEF AppendRow, Insert
<1>1. /\ pc' = [pc EXCEPT ![w] = NextPc[pc[w]]]
      /\ seq' = [seq EXCEPT ![w] = seq[w] + 1]
      /\ prev_hash' = [prev_hash EXCEPT ![w] = nextHash]
      /\ passed' = [passed EXCEPT ![w] = ok]
      /\ pending' = [pending EXCEPT ![w] = pending[w] \cup {new}]
      /\ nextHash' = nextHash + 1
  BY DEF AppendRow, Insert
<1>2. /\ pc'[w] = NextPc[pc[w]] /\ seq'[w] = seq[w] + 1
      /\ prev_hash'[w] = nextHash /\ passed'[w] = ok
      /\ pending'[w] = pending[w] \cup {new}
      /\ co'[w] = co[w] /\ now'[w] = now[w]
  BY <1>0, <1>1 DEF TypeOK
<1>3. /\ new.company = co[w] /\ new.seq = seq[w] + 1 /\ new.kind = pc[w]
      /\ new.ts = now[w] /\ new.passed = ok /\ new.prev = prev_hash[w]
      /\ new.hash = nextHash /\ new \in Row
  BY <1>0 DEF NewRow, Row, TypeOK
<1>4. TypeOK'
  <2>1. NextPc[pc[w]] \in Pcs
    BY <1>0 DEF NextPc, Kinds, Pcs
  <2> QED BY <2>1, <1>0, <1>1, <1>3 DEF TypeOK
<1>5. ChainIntact' /\ CyclesComplete'
  BY <1>0 DEF ChainIntact, UniqueSeq, CyclesComplete, Linked, Taken
<1>6. \A v \in Writers : v # w =>
        /\ pc'[v] = pc[v] /\ co'[v] = co[v] /\ now'[v] = now[v]
        /\ seq'[v] = seq[v] /\ prev_hash'[v] = prev_hash[v]
        /\ passed'[v] = passed[v] /\ pending'[v] = pending[v]
  BY <1>0, <1>1 DEF TypeOK
<1>7. KeysDisjoint'
  <2>1. \A v \in Writers : \A q \in pending'[v] :
          q \in pending[v] \/ (v = w /\ q = new)
    BY <1>2, <1>6
  <2>2. /\ \A q \in table : ~SameKey(new, q)
        /\ \A v \in Writers : \A q \in pending[v] : ~SameKey(new, q) /\ ~SameKey(q, new)
    BY NewKeyFree DEF SameKey
  <2>3. \A v \in Writers : \A r \in pending'[v], q \in table' : ~SameKey(r, q)
    BY <1>0, <2>1, <2>2 DEF KeysDisjoint
  <2>4. \A u, v \in Writers : \A r \in pending'[u], q \in pending'[v] :
          SameKey(r, q) => u = v /\ r = q
    BY <2>1, <2>2 DEF KeysDisjoint
  <2> QED BY <2>3, <2>4 DEF KeysDisjoint, SameKey
<1>8. TxInv'
  <2> SUFFICES ASSUME NEW v \in Writers
               PROVE  (HeadKnown(v) /\ PendingLinked(v) /\ ControlOK(v))'
    BY DEF TxInv
  <2>1. CASE v = w
    <3>0. HeadKnown(w) /\ PendingLinked(w) /\ ControlOK(w) /\ seq[w] \in Nat
      BY DEF TxInv, TypeOK
    <3>1. Visible(w)' = Visible(w) \cup {new}
      BY <1>0, <1>2 DEF Visible
    <3>2. HeadKnown(w)'
      <4>1. \E r \in Visible(w)' : r.company = co'[w] /\ r.seq = seq'[w] /\ r.hash = prev_hash'[w]
        BY <3>1, <1>2, <1>3
      <4>2. \A n \in 1 .. seq'[w] : \E r \in Visible(w)' : r.company = co'[w] /\ r.seq = n
        <5> SUFFICES ASSUME NEW n \in 1 .. seq'[w]
                     PROVE  \E r \in Visible(w)' : r.company = co'[w] /\ r.seq = n
          OBVIOUS
        <5>1. CASE n = seq[w] + 1 BY <5>1, <3>1, <1>2, <1>3
        <5>2. CASE n \in 1 .. seq[w] BY <5>2, <3>0, <3>1, <1>2 DEF HeadKnown
        <5> QED BY <5>1, <5>2, <3>0, <1>2
      <4> QED BY <4>1, <4>2 DEF HeadKnown
    <3>3. pc[w] = KindAt(seq[w] + 1)
      BY <3>0, <1>0 DEF ControlOK
    <3>4. ControlOK(w)'
      <4>1. CASE pc[w] = "resolve"
        <5>1. pc'[w] = "commit" BY <4>1, <1>2 DEF NextPc
        <5>2. KindAt(seq'[w]) = "resolve" BY <4>1, <3>3, <1>2
        <5>3. passed'[w]
          <6>1. ok BY <4>1, <1>0
          <6> QED BY <6>1, <1>2, Zenon
        <5> QED BY <5>1, <5>2, <5>3 DEF ControlOK, Kinds
      <4>2. CASE pc[w] # "resolve"
        <5>1. pc'[w] = KindAt(seq'[w] + 1)
          BY <4>2, <3>0, <3>3, <1>2, KindSteps
        <5>2. pc'[w] \in {"execute", "verify", "resolve"}
          BY <4>2, <1>0, <1>2 DEF NextPc, Kinds
        <5> QED BY <5>1, <5>2 DEF ControlOK, Kinds
      <4> QED BY <4>1, <4>2
    <3>5. PendingLinked(w)'
      <4> SUFFICES ASSUME NEW r \in pending'[w]
                   PROVE  /\ r.company = co'[w] /\ r.ts = now'[w] /\ r.seq <= seq'[w]
                          /\ r.kind = KindAt(r.seq)
                          /\ passed'[w] => r.passed
                          /\ \/ r.seq = 1 /\ r.prev = Genesis
                             \/ \E q \in Visible(w)' : Linked(r, q)
                          /\ r.seq < seq'[w] => \E q \in pending'[w] : Linked(q, r) /\ q.ts = r.ts
        BY DEF PendingLinked, Linked
      <4>1. CASE r = new
        <5>1. \/ r.seq = 1 /\ r.prev = Genesis
              \/ \E q \in Visible(w)' : Linked(r, q)
          BY <4>1, <1>3, <3>0, <3>1 DEF HeadKnown, Linked
        <5> QED BY <4>1, <5>1, <1>2, <1>3, <3>0, <3>3
      <4>2. CASE r \in pending[w]
        <5>1. /\ r.company = co[w] /\ r.ts = now[w] /\ r.seq <= seq[w] /\ r.kind = KindAt(r.seq)
              /\ r.passed /\ r.seq \in Nat
          BY <4>2, <3>0, <1>0 DEF PendingLinked, TypeOK, Row
        <5>2. \/ r.seq = 1 /\ r.prev = Genesis
              \/ \E q \in Visible(w)' : Linked(r, q)
          BY <4>2, <3>0, <3>1 DEF PendingLinked
        <5>3. CASE r.seq = seq[w]
          <6>1. new.prev = r.hash
            <7>1. PICK q \in Visible(w) : q.company = co[w] /\ q.seq = seq[w] /\ q.hash = prev_hash[w]
              BY <4>2, <5>1, <5>3, <3>0 DEF HeadKnown, Visible, TypeOK, Row
            <7>2. SameKey(r, q) BY <5>1, <5>3, <7>1 DEF SameKey
            <7>3. q = r BY <4>2, <7>1, <7>2 DEF Visible, KeysDisjoint
            <7> QED BY <7>1, <7>3, <1>3
          <6> QED BY <5>1, <5>2, <5>3, <6>1, <1>2, <1>3, <3>0 DEF Linked
        <5>4. CASE r.seq < seq[w]
          BY <4>2, <5>1, <5>2, <5>4, <1>2, <3>0 DEF PendingLinked
        <5> QED BY <5>1, <5>3, <5>4, <3>0
      <4> QED BY <4>1, <4>2, <1>2
    <3> QED BY <2>1, <3>2, <3>4, <3>5
  <2>2. CASE v # w
    BY <2>2, <1>0, <1>6 DEF TxInv, HeadKnown, PendingLinked, ControlOK, Visible, Linked
  <2> QED BY <2>1, <2>2
<1> QED BY <1>4, <1>5, <1>7, <1>8

(* Committing moves one transaction's complete, linked cycle into the table. *)
LEMMA CommitIInv ==
  ASSUME IInv, NEW w \in Writers, Commit(w)
  PROVE  IInv' /\ ExtendsTail
<1> USE DEF IInv
<1>0. /\ pc[w] = "commit" /\ Close(w) /\ table' = table \cup pending[w]
      /\ results' = results \cup {{r.hash : r \in pending[w]}}
  BY DEF Commit
<1>1. /\ HeadKnown(w) /\ PendingLinked(w) /\ passed[w] /\ seq[w] \in Nat
      /\ KindAt(seq[w]) = "resolve" /\ pending[w] \subseteq Row
      /\ \A r \in table : r.seq \in Nat
      /\ \A r \in pending[w] : r.seq \in Nat
  BY <1>0 DEF TxInv, ControlOK, TypeOK, Row
<1>2. TypeOK'
  <2>1. {r.hash : r \in pending[w]} \subseteq Nat \ {0}
    BY <1>1 DEF Row
  <2>2. table' \subseteq Row /\ results' \subseteq SUBSET (Nat \ {0})
    BY <2>1, <1>0, <1>1 DEF TypeOK
  <2> QED BY <2>2, <1>0, Defaults DEF TypeOK, Close, Pcs, Genesis, NoLock
<1>3. ChainIntact'
  <2>1. UniqueSeq'
    BY <1>0 DEF ChainIntact, UniqueSeq, KeysDisjoint, SameKey
  <2>2. \A r \in table' : \A n \in 1 .. r.seq : Taken(r.company, n)'
    <3> SUFFICES ASSUME NEW r \in table', NEW n \in 1 .. r.seq
                 PROVE  \E q \in table' : q.company = r.company /\ q.seq = n
      BY DEF Taken
    <3>1. CASE r \in table BY <3>1, <1>0 DEF ChainIntact, Taken
    <3>2. CASE r \in pending[w]
      <4>1. r.company = co[w] /\ n \in 1 .. seq[w]
        BY <3>2, <1>1 DEF PendingLinked
      <4> QED BY <4>1, <1>0, <1>1 DEF HeadKnown, Visible
    <3> QED BY <3>1, <3>2, <1>0
  <2>3. \A r \in table' : \/ r.seq = 1 /\ r.prev = Genesis
                          \/ \E q \in table' : Linked(r, q)
    BY <1>0, <1>1 DEF ChainIntact, PendingLinked, Visible
  <2> QED BY <2>1, <2>2, <2>3 DEF ChainIntact, Linked
<1>4. CyclesComplete'
  <2> SUFFICES ASSUME NEW r \in table'
               PROVE  /\ r.kind = KindAt(r.seq)
                      /\ r.passed
                      /\ r.kind # "resolve" => \E q \in table' : Linked(q, r) /\ q.ts = r.ts
    BY DEF CyclesComplete, Linked
  <2>1. CASE r \in table BY <2>1, <1>0 DEF CyclesComplete
  <2>2. CASE r \in pending[w]
    <3>1. /\ r.kind = KindAt(r.seq) /\ r.passed /\ r.seq <= seq[w]
          /\ r.seq < seq[w] => \E q \in pending[w] : Linked(q, r) /\ q.ts = r.ts
      BY <2>2, <1>1 DEF PendingLinked
    <3>2. r.kind # "resolve" => r.seq < seq[w]
      BY <3>1, <2>2, <1>1
    <3> QED BY <3>1, <3>2, <1>0
  <2> QED BY <2>1, <2>2, <1>0
<1>5. /\ pending'[w] = {} /\ seq'[w] = 0 /\ prev_hash'[w] = Genesis
      /\ pc'[w] = "idle" /\ passed'[w] = TRUE
      /\ \A v \in Writers : v # w =>
           /\ pc'[v] = pc[v] /\ co'[v] = co[v] /\ now'[v] = now[v]
           /\ seq'[v] = seq[v] /\ prev_hash'[v] = prev_hash[v]
           /\ passed'[v] = passed[v] /\ pending'[v] = pending[v]
  BY <1>0 DEF Close, TypeOK
<1>6. KeysDisjoint'
  <2>1. \A v \in Writers : \A r \in pending'[v] : v # w /\ r \in pending[v]
    BY <1>5
  <2>2. \A v \in Writers : \A r \in pending'[v], q \in table' : ~SameKey(r, q)
    BY <2>1, <1>0 DEF KeysDisjoint
  <2>3. \A u, v \in Writers : \A r \in pending'[u], q \in pending'[v] :
          SameKey(r, q) => u = v /\ r = q
    BY <2>1 DEF KeysDisjoint
  <2> QED BY <2>2, <2>3 DEF KeysDisjoint, SameKey
<1>7. TxInv'
  <2> SUFFICES ASSUME NEW v \in Writers
               PROVE  (HeadKnown(v) /\ PendingLinked(v) /\ ControlOK(v))'
    BY DEF TxInv
  <2>1. CASE v = w
    BY <2>1, <1>5 DEF HeadKnown, PendingLinked, ControlOK, Kinds
  <2>2. CASE v # w
    <3>1. HeadKnown(v) /\ PendingLinked(v) /\ ControlOK(v) BY DEF TxInv
    <3>2. Visible(v) \subseteq Visible(v)'
      BY <2>2, <1>0, <1>5 DEF Visible
    <3> QED BY <2>2, <3>1, <3>2, <1>5 DEF HeadKnown, PendingLinked, ControlOK, Linked
  <2> QED BY <2>1, <2>2
<1>8. ExtendsTail
  <2>1. table \subseteq table' BY <1>0
  <2>2. \A r, q \in table' \ table : r.company = q.company
    BY <1>0, <1>1 DEF PendingLinked
  <2>3. ASSUME NEW r \in table' \ table, NEW q \in table, q.company = r.company
        PROVE  q.seq < r.seq
    <3>1. r \in pending[w] /\ r.seq \in Nat \ {0} /\ q.seq \in Nat
      BY <1>0, <1>1 DEF Row
    <3>2. CASE q.seq >= r.seq
      <4>1. Taken(r.company, r.seq)
        BY <2>3, <3>1, <3>2 DEF ChainIntact
      <4> QED BY <4>1, <3>1 DEF Taken, KeysDisjoint, SameKey
    <3> QED BY <3>1, <3>2
  <2> QED BY <2>1, <2>2, <2>3 DEF ExtendsTail
<1> QED BY <1>2, <1>3, <1>4, <1>6, <1>7, <1>8

(* The inductive step: one case per action of Next.                         *)
LEMMA NextIInv == IInv /\ [Next]_vars => IInv' /\ [ExtendsTail]_vars
<1> SUFFICES ASSUME IInv, [Next]_vars PROVE IInv' /\ [ExtendsTail]_vars
  OBVIOUS
<1>1. CASE UNCHANGED vars
  BY <1>1 DEF vars, IInv, TypeOK, ChainIntact, UniqueSeq, Taken, Linked,
     CyclesComplete, KeysDisjoint, SameKey, TxInv, HeadKnown, PendingLinked,
     ControlOK, Visible
<1>2. CASE Next
  <2>0. UNCHANGED table => ExtendsTail BY DEF ExtendsTail
  <2>1. PICK w \in Writers :
          \/ \E c \in Companies, t \in Times : TailEmpty(w, c, t) \/ TailFound(w, c, t)
          \/ Progress(w)
          \/ Abort(w)
    BY <1>2 DEF Next
  <2>2. CASE \E c \in Companies, t \in Times : TailEmpty(w, c, t) \/ TailFound(w, c, t)
    <3>1. UNCHANGED table BY <2>2 DEF TailEmpty, TailFound
    <3> QED BY <2>0, <2>2, <3>1, TailIInv
  <2>3. CASE LockTail(w)
    BY <2>0, <2>3, LockIInv DEF LockTail
  <2>4. CASE \E ok \in BOOLEAN : AppendRow(w, ok)
    <3>1. UNCHANGED table BY <2>4 DEF AppendRow, Insert
    <3> QED BY <2>0, <2>4, <3>1, AppendIInv
  <2>5. CASE Conflict(w) \/ RaiseVerifyFailed(w) \/ Abort(w)
    <3>1. Close(w) /\ UNCHANGED <<table, results>>
      BY <2>5 DEF Conflict, RaiseVerifyFailed, Abort
    <3> QED BY <2>0, <3>1, CloseIInv
  <2>6. CASE Commit(w)
    BY <2>6, CommitIInv
  <2> QED BY <2>1, <2>2, <2>3, <2>4, <2>5, <2>6 DEF Progress
<1> QED BY <1>1, <1>2

(* Every reachable state of the ledger satisfies the inductive invariant.   *)
THEOREM Inductive == Spec => []IInv
<1>1. Init => IInv BY InitIInv
<1>2. IInv /\ [Next]_vars => IInv' BY NextIInv
<1> QED BY <1>1, <1>2, PTL DEF Spec

(* Type correctness, for any companies, writers and timestamps.             *)
THEOREM TypeCorrect == Spec => []TypeOK
<1>1. IInv => TypeOK BY DEF IInv
<1> QED BY <1>1, Inductive, PTL

(* However many writers race, on Postgres or on SQLite, write_primitive     *)
(* never forks a company's hash chain and never leaves a gap in it.         *)
THEOREM ChainNeverForks == Spec => []ChainIntact
<1>1. IInv => ChainIntact BY DEF IInv
<1> QED BY <1>1, Inductive, PTL

(* write_primitive is all or nothing: committed rows are whole, verified    *)
(* propose/execute/verify/resolve cycles, never interleaved.                *)
THEOREM CyclesAreAtomic == Spec => []CyclesComplete
<1>1. IInv => CyclesComplete BY DEF IInv
<1> QED BY <1>1, Inductive, PTL

(* The ledger is append-only: no step removes or rewrites a row, and new    *)
(* rows come after every row their company already has.                     *)
THEOREM LedgerAppendOnly == Spec => AppendOnly
<1>1. IInv /\ [Next]_vars => [ExtendsTail]_vars BY NextIInv
<1> QED BY <1>1, Inductive, PTL DEF Spec, AppendOnly

(* A returned WriteResult names rows that are in the table, and every row   *)
(* in the table was returned to the caller that wrote it.                   *)
THEOREM ResultsNeverLie == Spec => []ResultsMatchTable
<1>1. Init => ResultsMatchTable BY DEF Init, ResultsMatchTable
<1>2. ResultsMatchTable /\ [Next]_vars => ResultsMatchTable'
  <2> SUFFICES ASSUME ResultsMatchTable, [Next]_vars PROVE ResultsMatchTable'
    OBVIOUS
  <2>1. CASE \E w \in Writers : Commit(w)
    <3>1. PICK w \in Writers :
            /\ table' = table \cup pending[w]
            /\ results' = results \cup {{r.hash : r \in pending[w]}}
      BY <2>1 DEF Commit
    <3>2. UNION results' = (UNION results) \cup {r.hash : r \in pending[w]}
      BY <3>1
    <3>3. {r.hash : r \in table'} = {r.hash : r \in table} \cup {r.hash : r \in pending[w]}
      BY <3>1
    <3> QED BY <3>2, <3>3 DEF ResultsMatchTable
  <2>2. CASE ~\E w \in Writers : Commit(w)
    <3>1. UNCHANGED <<table, results>>
      BY <2>2 DEF Next, Progress, TailEmpty, TailFound, LockTail, AppendRow, Insert,
         Conflict, RaiseVerifyFailed, Abort, vars
    <3> QED BY <3>1 DEF ResultsMatchTable
  <2> QED BY <2>1, <2>2
<1> QED BY <1>1, <1>2, PTL DEF Spec

-----------------------------------------------------------------------------
(***************************************************************************)
(* Sets of rows with one row per sequence number, and their ranks.          *)
(***************************************************************************)
Keyed(S) == S \subseteq Row /\ \A r, q \in S : r.seq = q.seq => r = q

Seqs(S) == {r.seq : r \in S}

Below(S, r) == {q \in S : Before(q, r)}

Rank(S, r) == Cardinality(Below(S, r))

(* The sequence numbers count the rows.                                     *)
LEMMA KeyedCount ==
  ASSUME NEW S, Keyed(S), NEW a \in Int, NEW b \in Int, Seqs(S) = a .. b
  PROVE  IsFiniteSet(S) /\ Cardinality(S) = (IF a > b THEN 0 ELSE b - a + 1)
<1> DEFINE f == [r \in S |-> r.seq]
<1>1. f \in [S -> a .. b] BY DEF Seqs
<1>2. \A r, q \in S : f[r] = f[q] => r = q BY DEF Keyed
<1>3. \A n \in a .. b : \E r \in S : f[r] = n BY DEF Seqs
<1>4. f \in Bijection(S, a .. b) BY <1>1, <1>2, <1>3, Fun_IsBij
<1>5. ExistsBijection(a .. b, S) BY <1>4, Fun_ExistsBijSymmetric DEF ExistsBijection
<1> QED BY <1>5, FS_Interval, FS_Bijection

(* Without equal sequence numbers the tie-break of Before never decides.    *)
LEMMA BelowIs ==
  ASSUME NEW S, Keyed(S), NEW r \in S
  PROVE  Below(S, r) = {q \in S : q.seq < r.seq}
<1>1. \A q \in S : q.seq = r.seq => q = r BY DEF Keyed
<1>2. r.hash \in Nat BY DEF Keyed, Row
<1>3. \A q \in S : Before(q, r) <=> q.seq < r.seq BY <1>1, <1>2 DEF Before
<1> QED BY <1>3 DEF Below

(* Ranks follow sequence numbers.                                           *)
LEMMA RanksRise ==
  ASSUME NEW S, Keyed(S), IsFiniteSet(S), NEW r \in S
  PROVE  /\ Rank(S, r) \in 0 .. Cardinality(S) - 1
         /\ \A q \in S : r.seq < q.seq => Rank(S, r) < Rank(S, q)
<1>1. Below(S, r) \subseteq S \ {r} /\ r.seq \in Nat BY BelowIs DEF Keyed, Row
<1>2. IsFiniteSet(S \ {r}) /\ Cardinality(S \ {r}) = Cardinality(S) - 1
  BY FS_RemoveElement
<1>3. /\ IsFiniteSet(Below(S, r)) /\ Rank(S, r) \in Nat
      /\ Rank(S, r) <= Cardinality(S) - 1
  BY <1>1, <1>2, FS_Subset, FS_CardinalityType DEF Rank
<1>4. ASSUME NEW q \in S, r.seq < q.seq PROVE Rank(S, r) < Rank(S, q)
  <2>1. Below(S, r) \cup {r} \subseteq Below(S, q)
    <3>1. \A p \in S : p.seq \in Nat BY DEF Keyed, Row
    <3> QED BY <1>4, <3>1, BelowIs
  <2>2. IsFiniteSet(Below(S, q)) BY FS_Subset DEF Below
  <2>3. Cardinality(Below(S, r) \cup {r}) = Rank(S, r) + 1
    BY <1>1, <1>3, FS_AddElement DEF Rank
  <2>4. Rank(S, q) \in Nat /\ Rank(S, r) + 1 <= Rank(S, q)
    BY <2>1, <2>2, <2>3, FS_Subset, FS_CardinalityType DEF Rank
  <2> QED BY <1>3, <2>4
<1>5. Cardinality(S) \in Nat BY FS_CardinalityType
<1> QED BY <1>3, <1>4, <1>5

(* A query returns every selected row, at the position of its rank.         *)
LEMMA BySeq ==
  ASSUME NEW S, Keyed(S), IsFiniteSet(S)
  PROVE  /\ by_seq(S) \in Seq(S) /\ Len(by_seq(S)) = Cardinality(S)
         /\ \A i \in 1 .. Cardinality(S) :
              by_seq(S)[i] \in S /\ Rank(S, by_seq(S)[i]) = i - 1
         /\ \A r \in S : by_seq(S)[Rank(S, r) + 1] = r
<1> DEFINE n == Cardinality(S)
<1>0. n \in Nat BY FS_CardinalityType
<1>1. ASSUME NEW r \in S, NEW q \in S, Rank(S, r) = Rank(S, q) PROVE r = q
  <2>1. r.seq \in Nat /\ q.seq \in Nat /\ Rank(S, r) \in Int /\ Rank(S, q) \in Int
    BY RanksRise DEF Keyed, Row
  <2>2. ~(r.seq < q.seq) /\ ~(q.seq < r.seq) BY <1>1, <2>1, RanksRise
  <2> QED BY <2>1, <2>2 DEF Keyed
<1>2. \A i \in 1 .. n : \E r \in S : Rank(S, r) = i - 1
  <2> DEFINE f == [r \in S |-> Rank(S, r) + 1]
  <2>1. f \in [S -> 1 .. n] BY <1>0, RanksRise
  <2>2. \A r, q \in S : f[r] = f[q] => r = q
    <3>1. \A r \in S : Rank(S, r) \in Int BY RanksRise
    <3> QED BY <1>1, <3>1
  <2>3. f \in Injection(S, 1 .. n) BY <2>1, <2>2, Fun_IsInj
  <2>4. IsFiniteSet(1 .. n) /\ Cardinality(1 .. n) = n BY <1>0, FS_Interval
  <2>5. f \in Surjection(S, 1 .. n) BY <2>3, <2>4, FS_Injection
  <2>6. \A i \in 1 .. n : \E r \in S : f[r] = i BY <2>5 DEF Surjection
  <2>7. \A r \in S : Rank(S, r) \in Int BY RanksRise
  <2> QED BY <2>6, <2>7, <1>0
<1>3. by_seq(S) = [i \in 1 .. n |-> CHOOSE r \in S : Rank(S, r) = i - 1]
  BY DEF by_seq, Rank, Below
<1>4. \A i \in 1 .. n : by_seq(S)[i] \in S /\ Rank(S, by_seq(S)[i]) = i - 1
  BY <1>2, <1>3
<1>5. by_seq(S) \in [1 .. n -> S] BY <1>3, <1>4
<1>6. by_seq(S) \in Seq(S) /\ Len(by_seq(S)) = n BY <1>0, <1>5
<1>7. ASSUME NEW r \in S PROVE by_seq(S)[Rank(S, r) + 1] = r
  <2>1. Rank(S, r) \in Int /\ Rank(S, r) + 1 \in 1 .. n BY <1>0, RanksRise
  <2> QED BY <1>1, <1>4, <2>1
<1> QED BY <1>4, <1>6, <1>7

-----------------------------------------------------------------------------
(***************************************************************************)
(* The inductive invariant about readers, on top of LedgerProofs' IInv.     *)
(***************************************************************************)

(* The committed rows of a company are numbered from 1 without a gap.       *)
Tall(c, n) == Seqs(Rows(c)) = 1 .. n

(* Rows of its cycle a writer has inserted.                                 *)
Inserted == [idle |-> 0, lock |-> 0, propose |-> 0, execute |-> 1,
             verify |-> 2, resolve |-> 3, commit |-> 4]

(* They carry the last sequence numbers up to the one it stands at.         *)
Block(w) == Seqs(pending[w]) = seq[w] - Inserted[pc[w]] + 1 .. seq[w]

AllRows == table \cup UNION {pending[w] : w \in Writers}

(* A hash is used once, in one transaction or another.                      *)
HashesFresh ==
  \A r \in AllRows : r.hash < nextHash /\ \A q \in AllRows : r.hash = q.hash => r = q

ReadInv ==
  /\ \A c \in Companies : \E n \in Nat : Tall(c, n)
  /\ \A w \in Writers : Block(w)
  /\ HashesFresh

LEMMA InitReadInv == Init => ReadInv
<1> SUFFICES ASSUME Init PROVE ReadInv OBVIOUS
<1>1. ASSUME NEW c \in Companies PROVE Tall(c, 0)
  BY DEF Init, Tall, Seqs, Rows
<1>2. ASSUME NEW w \in Writers PROVE Block(w)
  <2>1. pending[w] = {} /\ seq[w] = 0 /\ Inserted[pc[w]] = 0 BY DEF Init, Inserted
  <2>2. Seqs(pending[w]) = {} BY <2>1 DEF Seqs
  <2> QED BY <2>1, <2>2 DEF Block
<1>3. HashesFresh BY DEF Init, HashesFresh, AllRows
<1> QED BY <1>1, <1>2, <1>3 DEF ReadInv

(* A step that leaves the table, inserts nothing and drops only its own     *)
(* transaction's rows.                                                      *)
LEMMA QuietReadInv ==
  ASSUME TypeOK, ReadInv, NEW w \in Writers,
         UNCHANGED <<table, nextHash>>,
         \A v \in Writers \ {w} : UNCHANGED <<pending[v], seq[v], pc[v]>>,
         pending'[w] \subseteq pending[w], Block(w)'
  PROVE  ReadInv'
<1>1. ASSUME NEW c \in Companies PROVE \E n \in Nat : Tall(c, n)'
  BY DEF ReadInv, Tall, Rows, Seqs
<1>2. ASSUME NEW v \in Writers PROVE Block(v)'
  BY DEF ReadInv, Block
<1>3. AllRows' \subseteq AllRows
  <2>1. \A v \in Writers : pending'[v] \subseteq pending[v] OBVIOUS
  <2> QED BY <2>1 DEF AllRows
<1>4. HashesFresh' BY <1>3 DEF ReadInv, HashesFresh
<1> QED BY <1>1, <1>2, <1>4 DEF ReadInv

LEMMA CloseReadInv ==
  ASSUME TypeOK, ReadInv, NEW w \in Writers, Close(w), UNCHANGED table
  PROVE  ReadInv'
<1>1. /\ pending'[w] = {} /\ seq'[w] = 0 /\ pc'[w] = "idle" /\ nextHash' = nextHash
      /\ \A v \in Writers \ {w} : UNCHANGED <<pending[v], seq[v], pc[v]>>
  BY DEF Close, TypeOK
<1>2. Block(w)'
  <2>1. Seqs(pending'[w]) = {} BY <1>1 DEF Seqs
  <2> QED BY <1>1, <2>1 DEF Block, Inserted
<1> QED BY <1>1, <1>2, QuietReadInv

LEMMA TailReadInv ==
  ASSUME IInv, ReadInv, NEW w \in Writers, NEW c \in Companies, NEW t \in Times,
         TailEmpty(w, c, t) \/ TailFound(w, c, t) \/ LockTail(w)
  PROVE  ReadInv'
<1>0. TypeOK /\ pending[w] = {}
  BY DEF IInv, TxInv, ControlOK, TailEmpty, TailFound, LockTail
<1>1. /\ UNCHANGED <<table, nextHash, pending>> /\ pc'[w] \in {"lock", "propose"}
      /\ \A v \in Writers \ {w} : UNCHANGED <<seq[v], pc[v]>>
      /\ seq'[w] \in Nat
  <2>1. \A r \in table : r.seq \in Nat BY <1>0 DEF TypeOK, Row
  <2> QED BY <1>0, <2>1 DEF TailEmpty, TailFound, LockTail, TypeOK, Rows
<1>2. Block(w)'
  <2>1. Seqs(pending'[w]) = {} BY <1>0, <1>1 DEF Seqs
  <2>2. Inserted[pc'[w]] = 0 BY <1>1 DEF Inserted
  <2> QED BY <1>1, <2>1, <2>2 DEF Block
<1> QED BY <1>0, <1>1, <1>2, QuietReadInv

(* One INSERT: the next number, a fresh hash.                               *)
LEMMA AppendReadInv ==
  ASSUME TypeOK, ReadInv, NEW w \in Writers, NEW ok \in BOOLEAN, AppendRow(w, ok)
  PROVE  ReadInv'
<1> DEFINE new == NewRow(w, ok)
<1>1. /\ UNCHANGED table /\ pc[w] \in Kinds /\ nextHash' = nextHash + 1
      /\ pending'[w] = pending[w] \cup {new} /\ seq'[w] = seq[w] + 1 /\ pc'[w] = NextPc[pc[w]]
      /\ \A v \in Writers \ {w} : UNCHANGED <<pending[v], seq[v], pc[v]>>
  BY DEF AppendRow, Insert, TypeOK
<1>2. new.seq = seq[w] + 1 /\ new.hash = nextHash /\ seq[w] \in Nat /\ nextHash \in Nat
  BY DEF NewRow, TypeOK
<1>3. ASSUME NEW c \in Companies PROVE \E n \in Nat : Tall(c, n)'
  BY <1>1 DEF ReadInv, Tall, Rows, Seqs
<1>4. ASSUME NEW v \in Writers PROVE Block(v)'
  <2>1. CASE v # w BY <1>1, <2>1 DEF ReadInv, Block
  <2>2. CASE v = w
    <3>1. Inserted[pc'[w]] = Inserted[pc[w]] + 1 /\ Inserted[pc[w]] \in Nat
      BY <1>1 DEF Inserted, NextPc, Kinds
    <3>2. Seqs(pending'[w]) = Seqs(pending[w]) \cup {seq[w] + 1} BY <1>1, <1>2 DEF Seqs
    <3>3. Seqs(pending[w]) = seq[w] - Inserted[pc[w]] + 1 .. seq[w]
      BY DEF ReadInv, Block
    <3>4. \A s, k \in Nat : (s - k + 1 .. s) \cup {s + 1} = (s + 1) - (k + 1) + 1 .. s + 1
      OBVIOUS
    <3>5. Seqs(pending'[w]) = (seq[w] + 1) - (Inserted[pc[w]] + 1) + 1 .. seq[w] + 1
      BY <1>2, <3>1, <3>2, <3>3, <3>4
    <3>6. Seqs(pending'[w]) = seq'[w] - Inserted[pc'[w]] + 1 .. seq'[w]
      BY <1>1, <3>1, <3>5
    <3> QED BY <2>2, <3>6 DEF Block, Seqs
  <2> QED BY <2>1, <2>2
<1>5. HashesFresh'
  <2>1. AllRows' \subseteq AllRows \cup {new} BY <1>1 DEF AllRows
  <2>2. \A r \in AllRows : r.hash \in Nat BY DEF AllRows, TypeOK, Row
  <2> QED BY <1>1, <1>2, <2>1, <2>2 DEF ReadInv, HashesFresh
<1> QED BY <1>3, <1>4, <1>5 DEF ReadInv

(* A commit makes the company's chain as tall as the writer stands.         *)
LEMMA CommitReadInv ==
  ASSUME IInv, ReadInv, NEW w \in Writers, Commit(w)
  PROVE  ReadInv'
<1>0. TypeOK /\ HeadKnown(w) /\ PendingLinked(w) /\ seq[w] \in Nat
  BY DEF IInv, TypeOK, TxInv
<1>1. /\ table' = table \cup pending[w] /\ nextHash' = nextHash
      /\ pending'[w] = {} /\ seq'[w] = 0 /\ pc'[w] = "idle"
      /\ \A v \in Writers \ {w} : UNCHANGED <<pending[v], seq[v], pc[v]>>
  BY <1>0 DEF Commit, Close, TypeOK
<1>2. ASSUME NEW c \in Companies PROVE \E n \in Nat : Tall(c, n)'
  <2>1. PICK n \in Nat : Tall(c, n) BY DEF ReadInv
  <2>2. CASE c # co[w]
    <3>1. Rows(c)' = Rows(c) BY <1>0, <1>1, <2>2 DEF Rows, PendingLinked
    <3> QED BY <2>1, <3>1 DEF Tall, Seqs
  <2>3. CASE c = co[w]
    <3> DEFINE m == IF seq[w] > n THEN seq[w] ELSE n
    <3>1. Rows(c)' = Rows(c) \cup pending[w] BY <1>0, <1>1, <2>3 DEF Rows, PendingLinked
    <3>2. \A r \in pending[w] : r.seq \in 1 .. seq[w]
      BY <1>0 DEF PendingLinked, TypeOK, Row
    <3>3. Seqs(Rows(c)') \subseteq 1 .. m
      BY <1>0, <2>1, <3>1, <3>2 DEF Tall, Seqs
    <3>4. ASSUME NEW k \in 1 .. m PROVE k \in Seqs(Rows(c)')
      <4>1. CASE k <= n
        <5>1. k \in 1 .. n BY <4>1
        <5> QED BY <2>1, <3>1, <5>1 DEF Tall, Seqs
      <4>2. CASE k > n
        <5>1. k \in 1 .. seq[w] BY <1>0, <4>2
        <5>2. PICK r \in Visible(w) : r.company = co[w] /\ r.seq = k
          BY <1>0, <5>1 DEF HeadKnown
        <5>3. r \in Rows(c)' BY <1>1, <2>3, <5>2 DEF Visible, Rows
        <5> QED BY <5>2, <5>3 DEF Seqs
      <4> QED BY <4>1, <4>2
    <3>5. m \in Nat BY <1>0
    <3>6. Seqs(Rows(c)') = 1 .. m BY <3>3, <3>4
    <3>7. PICK k \in Nat : Seqs(Rows(c)') = 1 .. k BY <3>5, <3>6
    <3> QED BY <3>7 DEF Tall, Seqs
  <2> QED BY <2>2, <2>3
<1>3. ASSUME NEW v \in Writers PROVE Block(v)'
  <2>1. CASE v # w BY <1>1, <2>1 DEF ReadInv, Block
  <2>2. CASE v = w
    <3>1. Seqs(pending'[w]) = {} BY <1>1 DEF Seqs
    <3>2. Inserted[pc'[w]] = 0 BY <1>1 DEF Inserted
    <3>3. Seqs(pending'[w]) = seq'[w] - Inserted[pc'[w]] + 1 .. seq'[w]
      BY <1>1, <3>1, <3>2
    <3> QED BY <2>2, <3>3 DEF Block, Seqs
  <2> QED BY <2>1, <2>2
<1>4. AllRows' \subseteq AllRows BY <1>1 DEF AllRows
<1>5. HashesFresh' BY <1>1, <1>4 DEF ReadInv, HashesFresh
<1> QED BY <1>2, <1>3, <1>5 DEF ReadInv

LEMMA NextReadInv == ASSUME IInv, ReadInv, [Next]_vars PROVE ReadInv'
<1>0. TypeOK BY DEF IInv
<1>1. CASE UNCHANGED vars
  BY <1>1 DEF vars, ReadInv, Tall, Rows, Seqs, Block, HashesFresh, AllRows
<1>2. CASE Next
  <2>1. PICK w \in Writers :
          \/ \E c \in Companies, t \in Times : TailEmpty(w, c, t) \/ TailFound(w, c, t)
          \/ Progress(w)
          \/ Abort(w)
    BY <1>2 DEF Next
  <2>2. CASE \E c \in Companies, t \in Times : TailEmpty(w, c, t) \/ TailFound(w, c, t)
    BY <2>2, TailReadInv
  <2>3. CASE LockTail(w) BY <2>3, Defaults, TailReadInv
  <2>4. CASE \E ok \in BOOLEAN : AppendRow(w, ok) BY <1>0, <2>4, AppendReadInv
  <2>5. CASE Conflict(w) \/ RaiseVerifyFailed(w) \/ Abort(w)
    BY <1>0, <2>5, CloseReadInv DEF Conflict, RaiseVerifyFailed, Abort
  <2>6. CASE Commit(w) BY <2>6, CommitReadInv
  <2> QED BY <2>1, <2>2, <2>3, <2>4, <2>5, <2>6 DEF Progress
<1> QED BY <1>1, <1>2

(* Gapless numbering, whole blocks and unique hashes in every state.        *)
THEOREM ReadsInductive == Spec => [](IInv /\ ReadInv)
BY InitIInv, NextIInv, InitReadInv, NextReadInv, PTL DEF Spec

-----------------------------------------------------------------------------
(***************************************************************************)
(* fetch_entries returns entry number n at position n.                      *)
(***************************************************************************)
LEMMA FetchIs ==
  ASSUME IInv, NEW c \in Companies, NEW n \in Nat, Tall(c, n)
  PROVE  /\ Len(fetch(c)) = n
         /\ \A i \in 1 .. n : fetch(c)[i] \in Rows(c) /\ fetch(c)[i].seq = i
         /\ \A r \in Rows(c) : r.seq \in 1 .. n /\ fetch(c)[r.seq] = r
<1> DEFINE S == Rows(c)
<1>1. Keyed(S) BY DEF IInv, TypeOK, ChainIntact, UniqueSeq, Keyed, Rows
<1>2. Seqs(S) = 1 .. n BY DEF Tall
<1>3. IsFiniteSet(S) /\ Cardinality(S) = n BY <1>1, <1>2, KeyedCount
<1>4. ASSUME NEW r \in S PROVE r.seq \in 1 .. n /\ Rank(S, r) = r.seq - 1
  <2>1. r.seq \in 1 .. n BY <1>2 DEF Seqs
  <2>2. Below(S, r) = {q \in S : q.seq < r.seq} BY <1>1, BelowIs
  <2>3. Keyed(Below(S, r)) BY <1>1 DEF Keyed, Below
  <2>4. Seqs(Below(S, r)) = 1 .. r.seq - 1
    <3>1. ASSUME NEW k \in 1 .. r.seq - 1 PROVE k \in Seqs(Below(S, r))
      <4>0. k \in Seqs(S) BY <1>2, <2>1
      <4>1. PICK q \in S : q.seq = k BY <4>0 DEF Seqs
      <4> QED BY <2>1, <2>2, <4>1 DEF Seqs
    <3>2. \A q \in S : q.seq \in 1 .. n BY <1>2 DEF Seqs
    <3> QED BY <2>1, <2>2, <3>1, <3>2 DEF Seqs
  <2>5. Rank(S, r) = (IF 1 > r.seq - 1 THEN 0 ELSE (r.seq - 1) - 1 + 1)
    BY <2>1, <2>3, <2>4, KeyedCount DEF Rank
  <2> QED BY <2>1, <2>5
<1>5. /\ Len(by_seq(S)) = n
      /\ \A i \in 1 .. n : by_seq(S)[i] \in S /\ Rank(S, by_seq(S)[i]) = i - 1
      /\ \A r \in S : by_seq(S)[Rank(S, r) + 1] = r
  BY <1>1, <1>3, BySeq
<1>6. fetch(c) = by_seq(S) BY DEF fetch
<1>7. \A i \in 1 .. n : by_seq(S)[i].seq = i BY <1>4, <1>5
<1>8. ASSUME NEW r \in S PROVE by_seq(S)[r.seq] = r
  <2>1. Rank(S, r) + 1 = r.seq BY <1>4
  <2> QED BY <1>5, <2>1
<1> QED BY <1>4, <1>5, <1>6, <1>7, <1>8

(* Each fetched row is chained to the one returned before it.               *)
LEMMA FetchLinked ==
  ASSUME IInv, NEW c \in Companies, NEW n \in Nat, Tall(c, n), NEW i \in 1 .. n
  PROVE  fetch(c)[i].prev = IF i = 1 THEN Genesis ELSE fetch(c)[i - 1].hash
<1> DEFINE r == fetch(c)[i]
<1>1. r \in table /\ r.company = c /\ r.seq = i BY FetchIs DEF Rows
<1>2. CASE r.seq = 1 /\ r.prev = Genesis BY <1>1, <1>2
<1>3. CASE \E q \in table : Linked(r, q)
  <2>1. PICK q \in table : Linked(r, q) BY <1>3
  <2>2. q \in Rows(c) /\ q.seq + 1 = i /\ q.hash = r.prev BY <1>1, <2>1 DEF Linked, Rows
  <2>3. q.seq \in 1 .. n /\ fetch(c)[q.seq] = q BY <2>2, FetchIs
  <2>4. q.seq = i - 1 /\ i # 1 BY <2>2, <2>3
  <2> QED BY <2>2, <2>3, <2>4
<1> QED BY <1>1, <1>2, <1>3 DEF IInv, ChainIntact

(* verify_chain, run at any moment, reports no break: whatever transactions *)
(* are in flight, the committed rows of a company hash up to its head.      *)
THEOREM VerifyNeverBreaks == Spec => []VerifyReportOk
<1>1. ASSUME IInv, ReadInv PROVE VerifyReportOk
  <2> SUFFICES ASSUME NEW c \in Companies PROVE broken_at(fetch(c)) = 0
    BY DEF VerifyReportOk
  <2>1. PICK n \in Nat : Tall(c, n) BY <1>1 DEF ReadInv
  <2>2. Len(fetch(c)) = n BY <1>1, <2>1, FetchIs
  <2>3. \A i \in 1 .. Len(fetch(c)) : ~Broken(fetch(c), i)
    BY <1>1, <2>1, <2>2, FetchLinked DEF Broken
  <2> QED BY <2>3 DEF broken_at
<1> QED BY <1>1, ReadsInductive, PTL

-----------------------------------------------------------------------------
(***************************************************************************)
(* A replay bounded in time folds whole cycles.                             *)
(***************************************************************************)
Less(T, a) == {b \in T : b < a}

(* A set of numbers made of blocks 4k+1 .. 4k+4: in front of a member are   *)
(* whole blocks and what precedes it in its own.                            *)
Blocks(T) ==
  /\ T \subseteq Nat \ {0} /\ IsFiniteSet(T)
  /\ \A m \in T : m % 4 # 0 => m + 1 \in T
  /\ \A m \in T : m % 4 # 1 => m - 1 \in T

LEMMA NextCounts ==
  ASSUME NEW T, Blocks(T), NEW a \in T, a % 4 # 1
  PROVE  /\ Cardinality(Less(T, a - 1)) \in Nat
         /\ Cardinality(Less(T, a)) = Cardinality(Less(T, a - 1)) + 1
<1>1. a - 1 \in T /\ a \in Nat /\ \A b \in T : b \in Nat BY DEF Blocks
<1>2. Less(T, a) = Less(T, a - 1) \cup {a - 1}
  <2>1. \A b \in T : b < a <=> (b < a - 1 \/ b = a - 1) BY <1>1
  <2> QED BY <1>1, <2>1 DEF Less
<1>3. a - 1 \notin Less(T, a - 1) BY <1>1 DEF Less
<1>4. IsFiniteSet(Less(T, a - 1)) BY FS_Subset DEF Blocks, Less
<1> QED BY <1>2, <1>3, <1>4, FS_AddElement, FS_CardinalityType

LEMMA FirstCounts ==
  ASSUME NEW T, Blocks(T), NEW a \in T, a % 4 = 1
  PROVE  \E k \in Nat : Cardinality(Less(T, a)) = k * 4
<1> DEFINE D == {b \in T : b < a /\ b % 4 = 1}
           P == D \X (0 .. 3)
           f == [p \in P |-> p[1] + p[2]]
<1>0. a \in Nat /\ \A b \in T : b \in Nat \ {0} BY DEF Blocks
<1>1. ASSUME NEW d \in D, NEW k \in 0 .. 3 PROVE d + k \in Less(T, a)
  <2>1. d \in T /\ d \in Nat /\ d < a /\ d % 4 = 1 BY <1>0
  <2>2. d + 4 <= a BY <1>0, <2>1
  <2>3. d + 1 \in T BY <2>1 DEF Blocks
  <2>4. d + 2 \in T
    <3>1. (d + 1) % 4 # 0 /\ d + 1 + 1 = d + 2 BY <2>1
    <3> QED BY <2>3, <3>1 DEF Blocks
  <2>5. d + 3 \in T
    <3>1. (d + 2) % 4 # 0 /\ d + 2 + 1 = d + 3 BY <2>1
    <3> QED BY <2>4, <3>1 DEF Blocks
  <2>6. d + k \in T
    <3>1. k = 0 \/ k = 1 \/ k = 2 \/ k = 3 OBVIOUS
    <3> QED BY <2>1, <2>3, <2>4, <2>5, <3>1
  <2> QED BY <1>0, <2>1, <2>2, <2>6 DEF Less
<1>2. f \in [P -> Less(T, a)] BY <1>1
<1>3. ASSUME NEW p \in P, NEW q \in P, f[p] = f[q] PROVE p = q
  <2>1. /\ p[1] \in Nat /\ q[1] \in Nat /\ p[1] % 4 = 1 /\ q[1] % 4 = 1
        /\ p[2] \in 0 .. 3 /\ q[2] \in 0 .. 3
    BY <1>0
  <2>2. p[1] + p[2] = q[1] + q[2] BY <1>3
  <2>3. p[1] = q[1] /\ p[2] = q[2] BY <2>1, <2>2
  <2> QED BY <2>3
<1>4. ASSUME NEW b \in Less(T, a) PROVE \E p \in P : f[p] = b
  <2>1. b \in T /\ b \in Nat \ {0} /\ b < a BY <1>0 DEF Less
  <2>2. CASE b % 4 = 1
    <3>1. <<b, 0>> \in P BY <2>1, <2>2
    <3> QED BY <2>1, <3>1
  <2>3. CASE b % 4 = 2
    <3>1. b - 1 \in T /\ b - 1 < a /\ (b - 1) % 4 = 1 BY <1>0, <2>1, <2>3 DEF Blocks
    <3>2. <<b - 1, 1>> \in P BY <3>1
    <3> QED BY <2>1, <3>2
  <2>4. CASE b % 4 = 3
    <3>1. b - 1 \in T /\ (b - 1) % 4 # 1 /\ b - 1 - 1 = b - 2 BY <2>1, <2>4 DEF Blocks
    <3>2. b - 2 \in T /\ b - 2 < a /\ (b - 2) % 4 = 1
      BY <1>0, <2>1, <2>4, <3>1 DEF Blocks
    <3>3. <<b - 2, 2>> \in P BY <3>2
    <3> QED BY <2>1, <3>3
  <2>5. CASE b % 4 = 0
    <3>1. b - 1 \in T /\ (b - 1) % 4 # 1 /\ b - 1 - 1 = b - 2 BY <2>1, <2>5 DEF Blocks
    <3>2. b - 2 \in T /\ (b - 2) % 4 # 1 /\ b - 2 - 1 = b - 3
      BY <2>1, <2>5, <3>1 DEF Blocks
    <3>3. b - 3 \in T /\ b - 3 < a /\ (b - 3) % 4 = 1
      BY <1>0, <2>1, <2>5, <3>2 DEF Blocks
    <3>4. <<b - 3, 3>> \in P BY <3>3
    <3> QED BY <2>1, <3>4
  <2> QED BY <2>1, <2>2, <2>3, <2>4, <2>5
<1>5. f \in Bijection(P, Less(T, a)) BY <1>2, <1>3, <1>4, Fun_IsBij
<1>6. IsFiniteSet(D) /\ Cardinality(D) \in Nat
  BY FS_Subset, FS_CardinalityType DEF Blocks
<1>7. IsFiniteSet(0 .. 3) /\ Cardinality(0 .. 3) = 4
  <2>1. 0 \in Int /\ 3 \in Int OBVIOUS
  <2>2. IsFiniteSet(0 .. 3) /\ Cardinality(0 .. 3) = (IF 0 > 3 THEN 0 ELSE 3 - 0 + 1)
    BY <2>1, FS_Interval
  <2> QED BY <2>2
<1>8. IsFiniteSet(P) /\ Cardinality(P) = Cardinality(D) * 4
  BY <1>6, <1>7, FS_Product
<1>9. Cardinality(Less(T, a)) = Cardinality(P)
  BY <1>5, <1>8, FS_Bijection DEF ExistsBijection
<1> QED BY <1>6, <1>8, <1>9

LEMMA BlockCounts ==
  ASSUME NEW T, Blocks(T), NEW a \in T
  PROVE  /\ Cardinality(Less(T, a)) \in Nat
         /\ Cardinality(Less(T, a)) % 4 = (a - 1) % 4
<1> DEFINE R(x) == Cardinality(Less(T, x))
<1>0. \A b \in T : b \in Nat \ {0} BY DEF Blocks
<1>1. ASSUME NEW b \in T, b % 4 = 1 PROVE R(b) \in Nat /\ R(b) % 4 = 0
  <2>1. PICK k \in Nat : R(b) = k * 4 BY <1>1, FirstCounts
  <2> QED BY <2>1
<1>2. ASSUME NEW b \in T, b % 4 = 2 PROVE R(b) \in Nat /\ R(b) % 4 = 1
  <2>1. b - 1 \in T /\ (b - 1) % 4 = 1 BY <1>0, <1>2 DEF Blocks
  <2>2. R(b - 1) \in Nat /\ R(b - 1) % 4 = 0 BY <1>1, <2>1
  <2>3. R(b) = R(b - 1) + 1 BY <1>2, NextCounts
  <2> QED BY <2>2, <2>3
<1>3. ASSUME NEW b \in T, b % 4 = 3 PROVE R(b) \in Nat /\ R(b) % 4 = 2
  <2>1. b - 1 \in T /\ (b - 1) % 4 = 2 BY <1>0, <1>3 DEF Blocks
  <2>2. R(b - 1) \in Nat /\ R(b - 1) % 4 = 1 BY <1>2, <2>1
  <2>3. R(b) = R(b - 1) + 1 BY <1>3, NextCounts
  <2> QED BY <2>2, <2>3
<1>4. ASSUME NEW b \in T, b % 4 = 0 PROVE R(b) \in Nat /\ R(b) % 4 = 3
  <2>1. b - 1 \in T /\ (b - 1) % 4 = 3 BY <1>0, <1>4 DEF Blocks
  <2>2. R(b - 1) \in Nat /\ R(b - 1) % 4 = 2 BY <1>3, <2>1
  <2>3. R(b) = R(b - 1) + 1 BY <1>4, NextCounts
  <2> QED BY <2>2, <2>3
<1>5. a \in Nat \ {0} BY <1>0
<1>6. a % 4 = 0 \/ a % 4 = 1 \/ a % 4 = 2 \/ a % 4 = 3 BY <1>5
<1>7. R(a) \in Nat /\ R(a) % 4 = (a - 1) % 4
  <2>1. CASE a % 4 = 0 BY <1>4, <1>5, <2>1
  <2>2. CASE a % 4 = 1 BY <1>1, <1>5, <2>2
  <2>3. CASE a % 4 = 2 BY <1>2, <1>5, <2>3
  <2>4. CASE a % 4 = 3 BY <1>3, <1>5, <2>4
  <2> QED BY <1>6, <2>1, <2>2, <2>3, <2>4
<1> QED BY <1>7

(* The rank of a row is a count of sequence numbers.                        *)
LEMMA RankCounts ==
  ASSUME NEW S, Keyed(S), IsFiniteSet(S), NEW r \in S
  PROVE  Rank(S, r) = Cardinality(Less(Seqs(S), r.seq)) /\ IsFiniteSet(Seqs(S))
<1> DEFINE B == Below(S, r)
           f == [q \in B |-> q.seq]
           g == [q \in S |-> q.seq]
<1>1. B = {q \in S : q.seq < r.seq} BY BelowIs
<1>2. f \in [B -> Less(Seqs(S), r.seq)] BY <1>1 DEF Less, Seqs
<1>3. \A p, q \in B : f[p] = f[q] => p = q BY <1>1 DEF Keyed
<1>4. \A n \in Less(Seqs(S), r.seq) : \E q \in B : f[q] = n BY <1>1 DEF Less, Seqs
<1>5. f \in Bijection(B, Less(Seqs(S), r.seq)) BY <1>2, <1>3, <1>4, Fun_IsBij
<1>6. IsFiniteSet(B) BY <1>1, FS_Subset
<1>7. Cardinality(B) = Cardinality(Less(Seqs(S), r.seq))
  BY <1>5, <1>6, FS_Bijection DEF ExistsBijection
<1>8. g \in Surjection(S, Seqs(S))
  <2>1. g \in [S -> Seqs(S)] /\ \A n \in Seqs(S) : \E q \in S : g[q] = n BY DEF Seqs
  <2> QED BY <2>1, Fun_IsSurj
<1>9. IsFiniteSet(Seqs(S)) BY <1>8, FS_Surjection
<1> QED BY <1>7, <1>9 DEF Rank

(* The kind of a row depends on its place in a block of four.               *)
LEMMA KindRepeats ==
  ASSUME NEW m \in Nat, NEW n \in Nat, m % 4 = n % 4
  PROVE  KindAt(m) = KindAt(n)
BY DEF KindAt

(* A time filter keeps or drops a whole cycle.                              *)
LEMMA FilterIsBlocks ==
  ASSUME IInv, NEW c \in Companies, NEW n \in Nat, Tall(c, n), NEW t \in Times
  PROVE  Keyed({r \in Rows(c) : r.ts <= t}) /\ Blocks(Seqs({r \in Rows(c) : r.ts <= t}))
<1> DEFINE S == {r \in Rows(c) : r.ts <= t}
<1>1. Keyed(Rows(c)) BY DEF IInv, TypeOK, ChainIntact, UniqueSeq, Keyed, Rows
<1>2. IsFiniteSet(Rows(c)) BY <1>1, KeyedCount DEF Tall
<1>3. Keyed(S) BY <1>1 DEF Keyed
<1>4. IsFiniteSet(S) BY <1>2, FS_Subset
<1>5. IsFiniteSet(Seqs(S))
  <2>1. CASE S = {}
    <3>1. Seqs(S) = {} BY <2>1 DEF Seqs
    <3> QED BY <3>1, FS_EmptySet
  <2>2. CASE S # {} BY <2>2, <1>3, <1>4, RankCounts
  <2> QED BY <2>1, <2>2
<1>6. \A r \in Rows(c) : r \in table /\ r \in Row /\ r.company = c /\ r.seq \in Nat \ {0}
  BY DEF IInv, TypeOK, Rows, Row
<1>7. ASSUME NEW r \in S, r.seq % 4 # 0 PROVE r.seq + 1 \in Seqs(S)
  <2>1. r.kind = KindAt(r.seq) BY <1>6 DEF IInv, CyclesComplete
  <2>2. r.kind # "resolve"
    <3>1. r.seq % 4 \in {1, 2, 3} BY <1>6, <1>7
    <3> QED BY <2>1, <3>1 DEF KindAt, CycleOrder
  <2>3. PICK q \in table : Linked(q, r) /\ q.ts = r.ts
    BY <2>2, <1>6 DEF IInv, CyclesComplete
  <2>4. q \in S /\ q.seq = r.seq + 1 BY <2>3, <1>6 DEF Linked, Rows
  <2> QED BY <2>4 DEF Seqs
<1>8. ASSUME NEW r \in S, r.seq % 4 # 1 PROVE r.seq - 1 \in Seqs(S)
  <2>1. r.seq # 1 BY <1>8
  <2>2. PICK p \in table : Linked(r, p) BY <2>1, <1>6 DEF IInv, ChainIntact
  <2>3. p \in Rows(c) /\ p.seq + 1 = r.seq BY <2>2, <1>6 DEF Linked, Rows
  <2>4. p.kind # "resolve"
    <3>1. p.kind = KindAt(p.seq) BY <2>3, <1>6 DEF IInv, CyclesComplete
    <3>2. p.seq \in Nat /\ p.seq % 4 # 0 BY <2>3, <1>6, <1>8
    <3>3. p.seq % 4 \in {1, 2, 3} BY <3>2
    <3> QED BY <3>1, <3>3 DEF KindAt, CycleOrder
  <2>5. PICK q \in table : Linked(q, p) /\ q.ts = p.ts
    BY <2>3, <2>4, <1>6 DEF IInv, CyclesComplete
  <2>6. q.company = r.company /\ q.seq = r.seq
    BY <2>3, <2>5, <1>6 DEF Linked
  <2>7. q = r BY <2>6, <1>6 DEF IInv, ChainIntact, UniqueSeq
  <2>8. p \in S /\ p.seq = r.seq - 1 BY <2>3, <2>5, <2>7, <1>6
  <2> QED BY <2>8 DEF Seqs
<1>9. Seqs(S) \subseteq Nat \ {0} BY <1>6 DEF Seqs
<1>10. \A m \in Seqs(S) : m % 4 # 0 => m + 1 \in Seqs(S) BY <1>7 DEF Seqs
<1>11. \A m \in Seqs(S) : m % 4 # 1 => m - 1 \in Seqs(S) BY <1>8 DEF Seqs
<1> QED BY <1>3, <1>5, <1>9, <1>10, <1>11 DEF Blocks

(* replay(until_ts) never folds part of a PEVR cycle, whatever times the    *)
(* callers of Ledger.write passed.                                          *)
THEOREM ReplaySeesWholeCycles == Spec => []ReplayWholeCycles
<1>1. ASSUME IInv, ReadInv PROVE ReplayWholeCycles
  <2> SUFFICES ASSUME NEW c \in Companies, NEW t \in Times,
                      NEW i \in 1 .. Len(fetch_until(c, t))
               PROVE  LET rows == fetch_until(c, t)
                      IN  /\ rows[i].kind = KindAt(i)
                          /\ rows[i].kind # "propose" => rows[i].prev = rows[i - 1].hash
    BY DEF ReplayWholeCycles
  <2> DEFINE S == {r \in Rows(c) : r.ts <= t}
             T == Seqs(S)
             rows == by_seq(S)
             r == rows[i]
             a == r.seq
  <2>1. PICK n \in Nat : Tall(c, n) BY <1>1 DEF ReadInv
  <2>2. Keyed(S) /\ Blocks(T) BY <1>1, <2>1, FilterIsBlocks
  <2>3. IsFiniteSet(S)
    <3>1. Keyed(Rows(c)) BY <1>1 DEF IInv, TypeOK, ChainIntact, UniqueSeq, Keyed, Rows
    <3>2. IsFiniteSet(Rows(c)) BY <2>1, <3>1, KeyedCount DEF Tall
    <3> QED BY <3>2, FS_Subset
  <2>4. fetch_until(c, t) = rows BY DEF fetch_until
  <2>5. i \in 1 .. Cardinality(S) /\ i \in Nat /\ r \in S /\ Rank(S, r) = i - 1
    BY <2>2, <2>3, <2>4, BySeq, FS_CardinalityType
  <2>6. a \in T /\ a \in Nat \ {0} /\ r \in Rows(c) /\ r \in table
    BY <1>1, <2>5 DEF Seqs, IInv, TypeOK, Row, Rows
  <2>7. Cardinality(Less(T, a)) = i - 1 BY <2>2, <2>3, <2>5, RankCounts
  <2>8. (i - 1) % 4 = (a - 1) % 4 BY <2>2, <2>6, <2>7, BlockCounts
  <2>9. i % 4 = a % 4
    <3>1. \A m \in Nat \ {0} : m % 4 = (IF (m - 1) % 4 = 3 THEN 0 ELSE ((m - 1) % 4) + 1)
      OBVIOUS
    <3>2. i \in Nat \ {0} BY <2>5
    <3> HIDE DEF a
    <3> QED BY <2>6, <2>8, <3>1, <3>2
  <2>10. r.kind = KindAt(a) /\ KindAt(a) = KindAt(i)
    BY <1>1, <2>5, <2>6, <2>9, KindRepeats DEF IInv, CyclesComplete
  <2>11. ASSUME r.kind # "propose" PROVE r.prev = rows[i - 1].hash
    <3>1. a % 4 # 1 BY <2>6, <2>10, <2>11, KindSteps
    <3>2. a - 1 \in T BY <2>2, <2>6, <3>1 DEF Blocks
    <3>3. PICK p \in S : p.seq = a - 1 BY <3>2 DEF Seqs
    <3>4. Rank(S, p) = Cardinality(Less(T, a - 1)) BY <2>2, <2>3, <3>3, RankCounts
    <3>5. Rank(S, p) + 1 = i - 1
      BY <2>2, <2>5, <2>6, <2>7, <3>1, <3>4, NextCounts
    <3>6. rows[i - 1] = p BY <2>2, <2>3, <3>5, BySeq
    <3>7. a # 1 BY <3>1
    <3>8. PICK q \in table : Linked(r, q)
      BY <1>1, <2>6, <3>7 DEF IInv, ChainIntact
    <3>9. q = p
      <4>1. q \in Rows(c) /\ q.seq + 1 = a /\ q.seq \in Nat
        BY <1>1, <2>6, <3>8 DEF Linked, Rows, IInv, TypeOK, Row
      <4>2. q.seq = p.seq /\ q.company = p.company BY <2>6, <3>3, <4>1 DEF Rows
      <4> QED BY <1>1, <4>1, <4>2 DEF IInv, ChainIntact, UniqueSeq, Rows
    <3> QED BY <3>6, <3>8, <3>9 DEF Linked
  <2> QED BY <2>4, <2>10, <2>11
<1> QED BY <1>1, ReadsInductive, PTL

-----------------------------------------------------------------------------
(***************************************************************************)
(* The transactional ledger implements AtomicLedger under the mapping Log.   *)
(***************************************************************************)
(* What Log shows of a company's chain of n rows.                           *)
Mirror ==
  \A c \in Companies, n \in Nat : Tall(c, n) =>
    /\ Log[c] = [i \in 1 .. n |-> Log[c][i]] /\ Len(Log[c]) = n
    /\ \A i \in 1 .. n : \E r \in Rows(c) : r.seq = i /\ Log[c][i] = Entry(r)
    /\ \A r \in Rows(c) : Log[c][r.seq] = Entry(r)
    /\ \A i \in 1 .. n :
         Log[c][i].prev = IF i = 1 THEN Genesis ELSE Log[c][i - 1].hash

LEMMA MirrorHolds == ASSUME IInv PROVE Mirror
<1> SUFFICES ASSUME NEW c \in Companies, NEW n \in Nat, Tall(c, n)
             PROVE  /\ Log[c] = [i \in 1 .. n |-> Log[c][i]] /\ Len(Log[c]) = n
                    /\ \A i \in 1 .. n : \E r \in Rows(c) : r.seq = i /\ Log[c][i] = Entry(r)
                    /\ \A r \in Rows(c) : Log[c][r.seq] = Entry(r)
                    /\ \A i \in 1 .. n :
                         Log[c][i].prev = IF i = 1 THEN Genesis ELSE Log[c][i - 1].hash
  BY DEF Mirror
<1>1. /\ Len(fetch(c)) = n
      /\ \A i \in 1 .. n : fetch(c)[i] \in Rows(c) /\ fetch(c)[i].seq = i
      /\ \A r \in Rows(c) : r.seq \in 1 .. n /\ fetch(c)[r.seq] = r
  BY FetchIs
<1>2. Log[c] = [i \in 1 .. n |-> Entry(fetch(c)[i])] BY <1>1 DEF Log
<1>3. Len(Log[c]) = n /\ \A i \in 1 .. n : Log[c][i] = Entry(fetch(c)[i]) BY <1>2
<1>4. Log[c] = [i \in 1 .. n |-> Log[c][i]] BY <1>2
<1>5. \A r \in Rows(c) : Log[c][r.seq] = Entry(r) BY <1>1, <1>3
<1>6. ASSUME NEW i \in 1 .. n
      PROVE  Log[c][i].prev = IF i = 1 THEN Genesis ELSE Log[c][i - 1].hash
  <2>1. fetch(c)[i].prev = IF i = 1 THEN Genesis ELSE fetch(c)[i - 1].hash
    BY FetchLinked
  <2>2. \A r : Entry(r).prev = r.prev /\ Entry(r).hash = r.hash BY DEF Entry
  <2>3. Log[c][i].prev = fetch(c)[i].prev BY <1>3, <2>2
  <2>4. CASE i = 1 BY <2>1, <2>3, <2>4
  <2>5. CASE i # 1
    <3>1. i - 1 \in 1 .. n BY <2>5
    <3>2. Log[c][i - 1].hash = fetch(c)[i - 1].hash BY <1>3, <2>2, <3>1
    <3> QED BY <2>1, <2>3, <2>5, <3>2
  <2> QED BY <2>4, <2>5
<1> QED BY <1>1, <1>3, <1>4, <1>5, <1>6

LEMMA EmptyLog == Init => Atomic!Init
<1> SUFFICES ASSUME Init PROVE Atomic!Init OBVIOUS
<1>1. ASSUME NEW c \in Companies PROVE Log[c] = <<>>
  <2>1. Tall(c, 0) BY DEF Init, Tall, Seqs, Rows
  <2>2. Log[c] = [i \in 1 .. 0 |-> Log[c][i]] BY <2>1, InitIInv, MirrorHolds DEF Mirror
  <2> QED BY <2>2
<1>2. Log = [c \in Companies |-> Log[c]] BY DEF Log
<1> QED BY <1>1, <1>2 DEF Atomic!Init

(* Only a commit changes what readers see.                                  *)
LEMMA LogOfTable == ASSUME UNCHANGED table PROVE UNCHANGED Log
BY DEF Log, fetch, Rows

(* The rows a commit adds are the next four of one company's chain.         *)
LEMMA CommitBlock ==
  ASSUME IInv, ReadInv, ReadInv', NEW w \in Writers, Commit(w),
         NEW c \in Companies, c = co[w]
  PROVE  \E n \in Nat :
           /\ Tall(c, n) /\ Tall(c, n + 4)'
           /\ Seqs(pending[w]) = n + 1 .. n + 4 /\ n % 4 = 0
           /\ Rows(c)' = Rows(c) \cup pending[w]
           /\ \A d \in Companies \ {c} : Rows(d)' = Rows(d)
<1> DEFINE s == seq[w]
<1>0. /\ TypeOK /\ PendingLinked(w) /\ ControlOK(w) /\ s \in Nat
      /\ pc[w] = "commit" /\ table' = table \cup pending[w]
  BY DEF IInv, TypeOK, TxInv, Commit
<1>1. PICK n \in Nat : Tall(c, n) BY DEF ReadInv
<1>2. PICK m \in Nat : Tall(c, m)' BY DEF ReadInv
<1>3. /\ Rows(c)' = Rows(c) \cup pending[w]
      /\ \A d \in Companies \ {c} : Rows(d)' = Rows(d)
  BY <1>0 DEF PendingLinked, Rows
<1>4. Seqs(pending[w]) = s - 3 .. s
  <2>1. Block(w) /\ Inserted[pc[w]] = 4 BY <1>0 DEF ReadInv, Inserted
  <2> QED BY <1>0, <2>1 DEF Block
<1>5. 1 .. m = (1 .. n) \cup (s - 3 .. s)
  <2>1. Seqs(Rows(c)') = Seqs(Rows(c)) \cup Seqs(pending[w]) BY <1>3 DEF Seqs
  <2>2. Seqs(Rows(c)') = 1 .. m BY <1>2 DEF Tall, Seqs
  <2> QED BY <1>1, <1>4, <2>1, <2>2 DEF Tall
<1>6. ASSUME NEW k \in 1 .. n PROVE k \notin s - 3 .. s
  <2> SUFFICES ASSUME k \in s - 3 .. s PROVE FALSE OBVIOUS
  <2>1. k \in Seqs(Rows(c)) /\ k \in Seqs(pending[w]) BY <1>1, <1>4 DEF Tall
  <2>2. PICK q \in Rows(c), r \in pending[w] : q.seq = k /\ r.seq = k BY <2>1 DEF Seqs
  <2>3. SameKey(r, q) /\ q \in table BY <1>0, <2>2 DEF SameKey, Rows, PendingLinked
  <2> QED BY <2>2, <2>3 DEF IInv, KeysDisjoint
<1>7. s - 3 = n + 1 /\ m = n + 4
  <2>1. s - 3 \in 1 .. m /\ s \in 1 .. m
    <3>1. s - 3 \in s - 3 .. s /\ s \in s - 3 .. s BY <1>0
    <3> QED BY <1>5, <3>1
  <2>2. s - 3 > n
    <3>1. s - 3 \in s - 3 .. s BY <1>0
    <3> QED BY <1>0, <1>6, <2>1, <3>1
  <2>3. s - 3 <= n + 1
    <3> SUFFICES ASSUME s - 3 > n + 1 PROVE FALSE BY <1>0
    <3>1. s - 4 \in 1 .. m BY <1>0, <2>1
    <3>2. s - 4 \notin 1 .. n /\ s - 4 \notin s - 3 .. s BY <1>0
    <3> QED BY <1>5, <3>1, <3>2
  <2>4. m <= s
    <3>1. m \in (1 .. n) \cup (s - 3 .. s) BY <1>5, <2>1
    <3> QED BY <1>0, <2>2, <3>1
  <2> QED BY <1>0, <2>1, <2>2, <2>3, <2>4
<1>8. n % 4 = 0
  <2>1. KindAt(s) = "resolve" /\ s = n + 4 BY <1>0, <1>7 DEF ControlOK
  <2>2. s % 4 = 0
    <3>1. s % 4 \in 0 .. 3 BY <1>0
    <3> QED BY <2>1, <3>1 DEF KindAt, CycleOrder
  <2> QED BY <2>1, <2>2
<1>9. Seqs(pending[w]) = n + 1 .. n + 4
  <2>1. s = n + 4 BY <1>0, <1>7
  <2> QED BY <1>4, <1>7, <2>1
<1>10. Tall(c, n + 4)'
  <2>1. Seqs(Rows(c)') = 1 .. m BY <1>2 DEF Tall, Seqs
  <2>2. Seqs(Rows(c)') = 1 .. n + 4 BY <1>7, <2>1
  <2> QED BY <2>2 DEF Tall, Seqs
<1> QED BY <1>1, <1>3, <1>8, <1>9, <1>10

LEMMA IsSeq ==
  ASSUME NEW X, NEW k \in Nat, NEW f \in [1 .. k -> X]
  PROVE  f \in Seq(X) /\ Len(f) = k
OBVIOUS

LEMMA LogShowsRows ==
  ASSUME ReadInv, Mirror, NEW d \in Companies, NEW j \in 1 .. Len(Log[d])
  PROVE  \E q \in Rows(d) : Log[d][j] = Entry(q)
<1>1. PICK k \in Nat : Tall(d, k) BY DEF ReadInv
<1>2. /\ Len(Log[d]) = k
      /\ \A i \in 1 .. k : \E q \in Rows(d) : q.seq = i /\ Log[d][i] = Entry(q)
  BY <1>1 DEF Mirror
<1>3. PICK q \in Rows(d) : q.seq = j /\ Log[d][j] = Entry(q) BY <1>2
<1> QED BY <1>3

(* A commit is one AtomicLedger write.                                      *)
LEMMA CommitWrites ==
  ASSUME IInv, ReadInv, Mirror, ReadInv', Mirror', NEW w \in Writers, Commit(w)
  PROVE  Atomic!Next
<1>0. co[w] \in Companies /\ now[w] \in Times /\ pending[w] \subseteq Row
  BY DEF IInv, TypeOK
<1>1. PICK c \in Companies : c = co[w] BY <1>0
<1>2. PICK n \in Nat :
        /\ Tall(c, n) /\ Tall(c, n + 4)'
        /\ Seqs(pending[w]) = n + 1 .. n + 4 /\ n % 4 = 0
        /\ Rows(c)' = Rows(c) \cup pending[w]
        /\ \A d \in Companies \ {c} : Rows(d)' = Rows(d)
  BY <1>1, CommitBlock
<1> DEFINE L == Log[c]
           M == Log'[c]
           h == [i \in 1 .. 4 |-> M[n + i].hash]
           E == Atomic!Entries(c, h, now[w])
<1>3. /\ L = [i \in 1 .. n |-> L[i]] /\ Len(L) = n
      /\ \A i \in 1 .. n : \E r \in Rows(c) : r.seq = i /\ L[i] = Entry(r)
  BY <1>2 DEF Mirror
<1>4. /\ M = [i \in 1 .. n + 4 |-> M[i]] /\ Len(M) = n + 4
      /\ \A r \in Rows(c)' : M[r.seq] = Entry(r)
      /\ \A i \in 1 .. n + 4 : M[i].prev = IF i = 1 THEN Genesis ELSE M[i - 1].hash
  BY <1>2 DEF Mirror, Entry
<1>5. \A i \in 1 .. n : M[i] = L[i] BY <1>2, <1>3, <1>4
<1>6. ASSUME NEW i \in 1 .. 4
      PROVE  \E r \in pending[w] : r.seq = n + i /\ M[n + i] = Entry(r)
  <2>1. n + i \in Seqs(pending[w]) BY <1>2
  <2>2. PICK r \in pending[w] : r.seq = n + i BY <2>1 DEF Seqs
  <2> QED BY <1>2, <1>4, <2>2
<1>7. ASSUME NEW i \in 1 .. 4 PROVE M[n + i] = E[i]
  <2>1. PICK r \in pending[w] : r.seq = n + i /\ M[n + i] = Entry(r) BY <1>6
  <2>2. r.kind = KindAt(n + i) /\ r.ts = now[w]
    BY <2>1 DEF IInv, TxInv, PendingLinked
  <2>3. KindAt(n + i) = Atomic!Cycle[i]
    <3>1. i = 1 \/ i = 2 \/ i = 3 \/ i = 4 OBVIOUS
    <3>2. (n + 1) % 4 = 1 /\ (n + 2) % 4 = 2 /\ (n + 3) % 4 = 3 /\ (n + 4) % 4 = 0
      BY <1>2
    <3> QED BY <3>1, <3>2 DEF KindAt, CycleOrder, Atomic!Cycle
  <2>4. M[n + i].prev = IF i = 1 THEN Atomic!ChainHead(c) ELSE h[i - 1]
    <3>1. n + i \in 1 .. n + 4 OBVIOUS
    <3>2. M[n + i].prev = IF n + i = 1 THEN Genesis ELSE M[n + i - 1].hash
      BY <1>4, <3>1
    <3>3. CASE i = 1
      <4>1. CASE n = 0
        <5>1. L = <<>> BY <1>3, <4>1
        <5> QED BY <3>2, <3>3, <4>1, <5>1 DEF Atomic!ChainHead, Genesis
      <4>2. CASE n # 0
        <5>1. L # <<>> /\ n \in 1 .. n /\ n + i - 1 = n BY <1>3, <3>3, <4>2
        <5>2. M[n] = L[n] BY <1>5, <5>1
        <5> QED BY <1>3, <3>2, <3>3, <4>2, <5>1, <5>2 DEF Atomic!ChainHead
      <4> QED BY <4>1, <4>2
    <3>4. CASE i # 1
      <4>1. i - 1 \in 1 .. 4 /\ n + (i - 1) = n + i - 1 /\ n + i # 1 BY <3>4
      <4> QED BY <3>2, <3>4, <4>1
    <3> QED BY <3>3, <3>4
  <2>5. Entry(r) = [kind |-> r.kind, ts |-> r.ts, hash |-> r.hash, prev |-> r.prev]
    BY DEF Entry
  <2>6. E[i] = [kind |-> Atomic!Cycle[i], ts |-> now[w], hash |-> h[i],
                prev |-> IF i = 1 THEN Atomic!ChainHead(c) ELSE h[i - 1]]
    BY DEF Atomic!Entries
  <2>7. h[i] = r.hash /\ M[n + i].prev = r.prev BY <2>1, <2>5
  <2> HIDE DEF h, E, M
  <2> QED BY <2>1, <2>2, <2>3, <2>4, <2>5, <2>6, <2>7
<1>8. M = L \o E
  <2> DEFINE X == {M[i] : i \in 1 .. n + 4}
  <2>1. M \in Seq(X)
    <3>1. M \in [1 .. n + 4 -> X] /\ n + 4 \in Nat BY <1>4
    <3> HIDE DEF M, X
    <3> QED BY <3>1, IsSeq
  <2>2. L \in Seq(X)
    <3>1. \A i \in 1 .. n : L[i] \in X BY <1>5
    <3>2. L \in [1 .. n -> X] BY <1>3, <3>1
    <3> QED BY <3>2
  <2>3. E \in Seq(X) /\ Len(E) = 4
    <3>1. \A i \in 1 .. 4 : E[i] \in X
      <4>1. \A i \in 1 .. 4 : n + i \in 1 .. n + 4 OBVIOUS
      <4> QED BY <1>7, <4>1
    <3>2. E = [i \in 1 .. 4 |-> E[i]] BY DEF Atomic!Entries
    <3>3. E \in [1 .. 4 -> X] /\ 4 \in Nat BY <3>1, <3>2
    <3> HIDE DEF E, X
    <3> QED BY <3>3, IsSeq
  <2> HIDE DEF X, E, M, L
  <2>4. /\ L \o E \in Seq(X) /\ Len(L \o E) = n + 4
        /\ \A i \in 1 .. n + 4 : (L \o E)[i] = IF i <= n THEN L[i] ELSE E[i - n]
    <3>1. Len(L) = n /\ Len(E) = 4 BY <1>3, <2>3
    <3>2. /\ L \o E \in Seq(X) /\ Len(L \o E) = Len(L) + Len(E)
          /\ \A i \in 1 .. Len(L) + Len(E) :
               (L \o E)[i] = IF i <= Len(L) THEN L[i] ELSE E[i - Len(L)]
      BY <2>2, <2>3, ConcatProperties
    <3> QED BY <3>1, <3>2
  <2>5. ASSUME NEW i \in 1 .. n + 4 PROVE M[i] = (L \o E)[i]
    <3>1. CASE i <= n
      <4>1. i \in 1 .. n BY <3>1
      <4> QED BY <1>5, <2>4, <4>1
    <3>2. CASE ~(i <= n)
      <4>1. i - n \in 1 .. 4 /\ n + (i - n) = i BY <3>2
      <4>2. M[n + (i - n)] = E[i - n] BY <1>7, <4>1
      <4> QED BY <2>4, <3>2, <4>1, <4>2
    <3> QED BY <3>1, <3>2
  <2> QED BY <1>4, <2>1, <2>4, <2>5, SeqEqual
<1>9. Log' = [Log EXCEPT ![c] = @ \o E]
  <2>1. \A d \in Companies \ {c} : Log'[d] = Log[d] BY <1>2 DEF Log, fetch
  <2>2. Log = [d \in Companies |-> Log[d]] /\ Log' = [d \in Companies |-> Log'[d]]
    BY DEF Log
  <2> HIDE DEF E
  <2> QED BY <1>8, <2>1, <2>2
<1>10. ASSUME NEW i \in 1 .. 4 PROVE h[i] \in Nat \ (Atomic!Used \cup {0})
  <2>1. PICK r \in pending[w] : r.seq = n + i /\ M[n + i] = Entry(r) BY <1>6
  <2>2. h[i] = r.hash /\ r.hash \in Nat \ {0} /\ r \in AllRows
    BY <1>0, <2>1 DEF Entry, Row, AllRows
  <2>3. ASSUME r.hash \in Atomic!Used PROVE FALSE
    <3>1. PICK d \in Companies : \E j \in 1 .. Len(Log[d]) : Log[d][j].hash = r.hash
      BY <2>3 DEF Atomic!Used
    <3>2. PICK j \in 1 .. Len(Log[d]) : Log[d][j].hash = r.hash BY <3>1
    <3>3. PICK q \in Rows(d) : Log[d][j] = Entry(q) BY LogShowsRows
    <3>4. q \in table /\ q \in AllRows /\ q.hash = r.hash
      BY <3>2, <3>3 DEF Entry, Rows, AllRows
    <3>5. q = r BY <2>2, <3>4 DEF ReadInv, HashesFresh
    <3> QED BY <3>4, <3>5 DEF IInv, KeysDisjoint, SameKey
  <2> QED BY <2>2, <2>3
<1>11. ASSUME NEW i \in 1 .. 4, NEW j \in 1 .. 4, i # j PROVE h[i] # h[j]
  <2>1. PICK r \in pending[w] : r.seq = n + i /\ M[n + i] = Entry(r) BY <1>6
  <2>2. PICK q \in pending[w] : q.seq = n + j /\ M[n + j] = Entry(q) BY <1>6
  <2>3. r # q BY <1>11, <2>1, <2>2
  <2>4. r \in AllRows /\ q \in AllRows BY <2>1, <2>2 DEF AllRows
  <2>5. r.hash # q.hash BY <2>3, <2>4 DEF ReadInv, HashesFresh
  <2> QED BY <2>1, <2>2, <2>5 DEF Entry
<1>12. Atomic!Appended(c) = h BY <1>3 DEF Atomic!Appended
<1>13. Atomic!Write(c, h, now[w])
  <2> HIDE DEF h
  <2> QED BY <1>9, <1>10, <1>11 DEF Atomic!Write
<1>14. Len(Log'[c]) = Len(Log[c]) + 4 BY <1>3, <1>4
<1> QED BY <1>0, <1>12, <1>13, <1>14 DEF Atomic!Next

LEMMA StepIsWrite ==
  IInv /\ ReadInv /\ Mirror /\ ReadInv' /\ Mirror' /\ [Next]_vars => [Atomic!Next]_Log
<1> SUFFICES ASSUME IInv, ReadInv, Mirror, ReadInv', Mirror', [Next]_vars
             PROVE  [Atomic!Next]_Log
  OBVIOUS
<1>1. CASE \E w \in Writers : Commit(w) BY <1>1, CommitWrites
<1>2. CASE ~\E w \in Writers : Commit(w)
  <2>1. UNCHANGED table
    BY <1>2 DEF Next, Progress, TailEmpty, TailFound, LockTail, AppendRow, Insert,
       Conflict, RaiseVerifyFailed, Abort, vars
  <2> QED BY <2>1, LogOfTable
<1> QED BY <1>1, <1>2

(* Ledger.write is atomic: for any number of writers, on both back ends,    *)
(* what a reader sees of the transactional ledger is always one whole write *)
(* of AtomicLedger after another.                                           *)
THEOREM WritesAreAtomic == Spec => WriteIsAtomic
<1>1. IInv => Mirror BY MirrorHolds
<1> QED BY <1>1, EmptyLog, StepIsWrite, ReadsInductive, PTL
       DEF Spec, WriteIsAtomic, Atomic!Spec
=============================================================================
