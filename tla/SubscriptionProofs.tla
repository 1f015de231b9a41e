------------------------- MODULE SubscriptionProofs -------------------------
(***************************************************************************)
(* Proofs about what the agent gateway promises its agents.                 *)
(*                                                                          *)
(* Subscriptions, for any subscriptions, filters, queue sizes, numbers of   *)
(* events, failed writes, restarts and streaming calls: a row is recorded   *)
(* as delivered once, a revoked subscription is served at most once more,   *)
(* and resuming a stream loses nothing.  AgentGateway, for any agents,      *)
(* grants and tools: whoever was revoked stays out.  AgentMetadata, for any *)
(* updates and reverts: a revert restores.  Compounding, for any inputs:    *)
(* nothing is promoted twice.  TenantGate, for any limits and tenants: no   *)
(* span of time holds more calls than a limit allows, and every call the    *)
(* quota let pass is reported once.                                         *)
(***************************************************************************)
EXTENDS Subscriptions, AgentGateway, AgentMetadata, Compounding, TenantGate,
        SequenceTheorems, FiniteSetTheorems, WellFoundedInduction, TLAPS

(***************************************************************************)
(* The inductive invariant.                                                 *)
(***************************************************************************)

(* Whatever is queued, received or dropped is a row of the ledger.          *)
RowsKnown ==
  /\ \A i \in 1 .. Len(ledger) : ledger[i].trig \in 0 .. Len(ledger)
  /\ queue \in [Stream -> Seq(1 .. Len(ledger))]
  /\ old \in [Stream -> Seq(1 .. Len(ledger))]
  /\ got \in [Stream -> SUBSET (1 .. Len(ledger))]
  /\ dropped \in [Stream -> SUBSET (1 .. Len(ledger))]

CreatedOnce == \A s \in Subs : \A i, j \in Executed("created", s) : i = j

(* What fire knows at each of its awaits of the subscriptions it has still  *)
(* to serve: they were created and, once the delivered index was read, the  *)
(* row at hand has not been delivered to them.                              *)
FireKnows ==
  /\ pc # "idle" => pos > 0
  /\ pc \in {"idle", "active"} => todo = {}
  /\ pc = "record" => todo # {}
  /\ \A s \in todo : Executed("created", s) # {}
  /\ pc \in {"loop", "record"} => \A s \in todo : pos \notin Delivered(s)

(* A call made after the revocation was the only one: the subscription is   *)
(* not to be served any more.                                               *)
StrayOnce ==
  \A s \in Subs :
    stray[s] # 0 =>
      /\ stray[s] = 1 /\ Executed("revoked", s) # {}
      /\ s \in todo => pc = "record" /\ s = Newest

(* The queue of a subscription is dropped only after its revocation.        *)
ClearedRevoked == \A s \in Subs : rv[s] = "clear" => Executed("revoked", s) # {}

(* Between the push and its record the event waits or has been taken.       *)
PushedWaits ==
  \A s \in Stream :
    pc = "record" /\ s = Newest /\ Executed("revoked", s) = {} =>
      pos \in got[s] \/ \E i \in 1 .. Len(queue[s]) : queue[s][i] = pos

(* A streaming call is of a subscription that was created.                  *)
CallsKnow == \A s \in Stream : con[s] # "off" => Executed("created", s) # {}

Base == TypeOK /\ RowsKnown /\ CreatedOnce /\ FireKnows

IInv ==
  /\ Base /\ DeliveredOnce /\ StrayOnce
  /\ ClearedRevoked /\ PushedWaits /\ CallsKnow /\ ResumeLosesNothing

-----------------------------------------------------------------------------
(***************************************************************************)
(* Numbers: non-empty sets of them have a least and, when they are bounded, *)
(* a largest element.                                                       *)
(***************************************************************************)
LEMMA Least == ASSUME NEW T \in SUBSET Nat, T # {} PROVE \E x \in T : \A y \in T : x <= y
<1> DEFINE R == {xy \in Nat \X Nat : xy[1] < xy[2]}
<1>1. PICK x \in T : \A y \in T : ~ (<<y, x>> \in R)
  <2>1. IsWellFoundedOn(R, Nat) BY NatLessThanWellFounded DEF OpToRel
  <2> HIDE DEF R
  <2> QED BY <2>1, WFMin
<1>2. ASSUME NEW y \in T PROVE x <= y
  <2>1. <<y, x>> \in Nat \X Nat /\ x \in Nat /\ y \in Nat OBVIOUS
  <2>2. ~ (y < x) BY <1>1, <2>1
  <2> QED BY <2>1, <2>2
<1> QED BY <1>2

LEMMA Largest ==
  ASSUME NEW n \in Nat, NEW T \in SUBSET (0 .. n), T # {}
  PROVE  \E x \in T : \A y \in T : y <= x
<1> DEFINE D == {n - x : x \in T}
<1>0. \A x \in T : x \in Nat /\ x <= n OBVIOUS
<1>1. D \in SUBSET Nat /\ D # {}
  <2>1. \A x \in T : n - x \in Nat BY <1>0
  <2> QED BY <2>1
<1>2. PICK d \in D : \A e \in D : d <= e
  <2> HIDE DEF D
  <2> QED BY <1>1, Least
<1>3. PICK x \in T : d = n - x BY <1>2
<1>4. \A y \in T : n - x <= n - y BY <1>2, <1>3
<1> QED BY <1>0, <1>4

-----------------------------------------------------------------------------
(***************************************************************************)
(* Rows: what a commit adds to the ledger and to what is read off it.       *)
(***************************************************************************)
RowType == [kind : {"propose", "execute"}, tool : Meta \cup {"event"},
            sub : Subs \cup {NoSub}, trig : Nat,
            status : {"none", "delivered", "failed"}]

Outcome == {"none", "delivered", "failed"}

(* Commit of a cycle whose fields have their types.                         *)
Typed(tool, sub, trig, st) ==
  /\ tool \in Meta \cup {"event"} /\ sub \in Subs \cup {NoSub}
  /\ trig \in Nat /\ st \in Outcome

LEMMA CommitRows ==
  ASSUME ledger \in Seq(RowType), NEW tool, NEW sub, NEW trig, NEW st,
         Typed(tool, sub, trig, st), Commit(tool, sub, trig, st)
  PROVE  /\ ledger' \in Seq(RowType) /\ Len(ledger') = Len(ledger) + 2
         /\ \A i \in 1 .. Len(ledger) : ledger'[i] = ledger[i]
         /\ ledger'[Len(ledger) + 1].kind = "propose"
         /\ ledger'[Len(ledger) + 1].trig = trig
         /\ LET r == ledger'[Len(ledger) + 2] IN
              /\ r.kind = "execute" /\ r.tool = tool /\ r.sub = sub
              /\ r.trig = trig /\ r.status = st
<1> DEFINE c == Cycle(tool, sub, trig, st)
<1>1. c \in Seq(RowType) /\ Len(c) = 2
  <2>1. c \in [1 .. 2 -> RowType] BY DEF Cycle, Typed, RowType, Outcome
  <2> QED BY <2>1 DEF Cycle
<1>2. ledger' = ledger \o c BY DEF Commit
<1>3. c[1].kind = "propose" /\ c[1].trig = trig BY DEF Cycle
<1>4. /\ c[2].kind = "execute" /\ c[2].tool = tool /\ c[2].sub = sub
      /\ c[2].trig = trig /\ c[2].status = st
  BY DEF Cycle
<1> HIDE DEF c
<1>5. /\ ledger' \in Seq(RowType) /\ Len(ledger') = Len(ledger) + 2
      /\ \A i \in 1 .. Len(ledger) + 2 :
           ledger'[i] = IF i <= Len(ledger) THEN ledger[i] ELSE c[i - Len(ledger)]
  <2>1. /\ ledger \o c \in Seq(RowType) /\ Len(ledger \o c) = Len(ledger) + 2
        /\ \A i \in 1 .. Len(ledger) + 2 :
             (ledger \o c)[i] = IF i <= Len(ledger) THEN ledger[i] ELSE c[i - Len(ledger)]
    <3>1. /\ ledger \o c \in Seq(RowType) /\ Len(ledger \o c) = Len(ledger) + Len(c)
          /\ \A i \in 1 .. Len(ledger) + Len(c) :
               (ledger \o c)[i] = IF i <= Len(ledger) THEN ledger[i] ELSE c[i - Len(ledger)]
      <4>1. ledger \in Seq(RowType) /\ c \in Seq(RowType) BY <1>1
      <4> QED BY <4>1, ConcatProperties, Zenon
    <3> QED BY <1>1, <3>1, Zenon
  <2> QED BY <1>2, <2>1
<1>6. \A i \in 1 .. Len(ledger) : ledger'[i] = ledger[i] BY <1>5
<1>7. ledger'[Len(ledger) + 1] = c[1] /\ ledger'[Len(ledger) + 2] = c[2]
  <2>1. Len(ledger) \in Nat OBVIOUS
  <2> QED BY <1>5, <2>1
<1> QED BY <1>3, <1>4, <1>5, <1>6, <1>7

LEMMA ExecutedGrows ==
  ASSUME ledger \in Seq(RowType), NEW tool, NEW sub, NEW trig, NEW st,
         Typed(tool, sub, trig, st), Commit(tool, sub, trig, st), NEW t, NEW s
  PROVE  Executed(t, s)' =
           Executed(t, s) \cup (IF t = tool /\ s = sub THEN {Len(ledger) + 2} ELSE {})
<1>1. Len(ledger) \in Nat BY DEF Typed
<1>2. \A i : i \in 1 .. Len(ledger) + 2 <=>
        i \in 1 .. Len(ledger) \/ i = Len(ledger) + 1 \/ i = Len(ledger) + 2
  BY <1>1
<1> QED BY <1>1, <1>2, CommitRows DEF Executed

LEMMA OthersKept ==
  ASSUME ledger \in Seq(RowType), NEW tool, NEW sub, NEW trig, NEW st,
         Typed(tool, sub, trig, st), Commit(tool, sub, trig, st), NEW t, NEW s,
         t # tool \/ s # sub
  PROVE  Executed(t, s)' = Executed(t, s)
<1>1. Executed(t, s)' = Executed(t, s) \cup
        (IF t = tool /\ s = sub THEN {Len(ledger) + 2} ELSE {})
  BY ExecutedGrows
<1> QED BY <1>1

LEMMA DeliveredGrows ==
  ASSUME ledger \in Seq(RowType), NEW tool, NEW sub, NEW trig, NEW st,
         Typed(tool, sub, trig, st), Commit(tool, sub, trig, st), NEW s
  PROVE  Delivered(s)' =
           Delivered(s) \cup (IF tool = "delivered" /\ s = sub THEN {trig} ELSE {})
<1>1. \A i \in Executed("delivered", s) : ledger'[i] = ledger[i]
  BY CommitRows DEF Executed
<1>2. ledger'[Len(ledger) + 2].trig = trig BY CommitRows
<1>3. Delivered(s)' = {ledger'[i].trig : i \in Executed("delivered", s)'} BY DEF Delivered
<1> QED BY <1>1, <1>2, <1>3, ExecutedGrows DEF Delivered

LEMMA ReadsKept ==
  ASSUME UNCHANGED ledger, NEW t, NEW s
  PROVE  Executed(t, s)' = Executed(t, s) /\ Delivered(s)' = Delivered(s)
BY DEF Executed, Delivered

-----------------------------------------------------------------------------
(***************************************************************************)
(* Newest: the created rows of different subscriptions differ, so one of    *)
(* them is the newest, and stays it while rows are added.                   *)
(***************************************************************************)
LEMMA Typing == TypeOK => ledger \in Seq(RowType) /\ Len(ledger) \in Nat
BY DEF TypeOK, RowType

LEMMA ExecutedRows ==
  ASSUME NEW t, NEW s PROVE Executed(t, s) \subseteq 1 .. Len(ledger)
BY DEF Executed

(* s is the newest of those that are left to serve.                         *)
Latest(s) ==
  /\ s \in todo
  /\ \A t \in todo : \A i \in Executed("created", t) :
       \E j \in Executed("created", s) : j >= i

OneNewest == todo # {} => Latest(Newest) /\ \A s : Latest(s) => s = Newest

LEMMA NewestIs == Base => OneNewest
<1> SUFFICES ASSUME Base, todo # {} PROVE OneNewest BY DEF OneNewest
<1>0. Len(ledger) \in Nat /\ todo \subseteq Subs BY Typing DEF Base, TypeOK
<1>1. \E s \in todo : Latest(s)
  <2> DEFINE T == {i \in 0 .. Len(ledger) : \E s \in todo : i \in Executed("created", s)}
  <2>0. PICK s0 \in todo : TRUE OBVIOUS
  <2>1. PICK i0 \in Executed("created", s0) : TRUE BY <2>0 DEF Base, FireKnows
  <2>2. i0 \in T BY <1>0, <2>0, <2>1, ExecutedRows
  <2>3. PICK x \in T : \A y \in T : y <= x
    <3>1. T \in SUBSET (0 .. Len(ledger)) /\ T # {} BY <2>2
    <3> HIDE DEF T
    <3> QED BY <1>0, <3>1, Largest
  <2>4. PICK s \in todo : x \in Executed("created", s) BY <2>3
  <2>5. ASSUME NEW t \in todo, NEW i \in Executed("created", t) PROVE x >= i
    <3>1. i \in T BY <1>0, <2>5, ExecutedRows
    <3>2. i \in Nat /\ x \in Nat BY <3>1, <2>3, <1>0
    <3> QED BY <2>3, <3>1, <3>2
  <2> QED BY <2>4, <2>5 DEF Latest
<1>2. Latest(Newest)
  <2>1. \E s \in todo : \A t \in todo : \A i \in Executed("created", t) :
          \E j \in Executed("created", s) : j >= i
    BY <1>1 DEF Latest
  <2> QED BY <2>1 DEF Newest, Latest
<1>3. ASSUME NEW s, NEW t, Latest(s), Latest(t) PROVE s = t
  <2>1. s \in todo /\ t \in todo /\ s \in Subs /\ t \in Subs BY <1>0, <1>3 DEF Latest
  <2>2. PICK i \in Executed("created", s) : TRUE BY <2>1 DEF Base, FireKnows
  <2>3. PICK j \in Executed("created", t) : j >= i BY <1>3, <2>1, <2>2 DEF Latest
  <2>4. PICK k \in Executed("created", s) : k >= j BY <1>3, <2>1, <2>3 DEF Latest
  <2>5. k = i BY <2>1, <2>2, <2>4 DEF Base, CreatedOnce
  <2>6. i \in Nat /\ j \in Nat BY <1>0, <2>2, <2>3, ExecutedRows
  <2>7. i = j BY <2>3, <2>4, <2>5, <2>6
  <2>8. ledger[i].sub = s /\ ledger[i].sub = t BY <2>2, <2>3, <2>7 DEF Executed
  <2> QED BY <2>8
<1> QED BY <1>2, <1>3 DEF OneNewest

LEMMA NewestIsNext == Base' => OneNewest'
BY NewestIs, PTL

LEMMA NewestStays ==
  ASSUME Base, Base', todo' = todo, todo # {},
         \A s \in todo : Executed("created", s)' = Executed("created", s)
  PROVE  Newest' = Newest
<1>1. Latest(Newest) BY NewestIs DEF OneNewest
<1>2. todo' # {} => \A s : Latest(s)' => s = Newest' BY NewestIsNext DEF OneNewest
<1>3. ASSUME NEW s, Latest(s) PROVE Latest(s)' BY <1>3 DEF Latest
<1> QED BY <1>1, <1>2, <1>3

-----------------------------------------------------------------------------
(***************************************************************************)
(* Types, and what fire knows.                                              *)
(***************************************************************************)
LEMMA SeqWidens ==
  ASSUME NEW S, NEW T, S \subseteq T, NEW s \in Seq(S) PROVE s \in Seq(T)
<1>1. Len(s) \in Nat /\ s \in [1 .. Len(s) -> S] BY LenProperties
<1>2. s \in [1 .. Len(s) -> T] BY <1>1
<1> QED BY <1>1, <1>2

(* TypeOK, cut along the actions' footprints.                               *)
FireType ==
  /\ pos \in 0 .. Len(ledger) /\ todo \subseteq Subs
  /\ pc \in {"idle", "active", "index", "loop", "record"} /\ status \in Outcome

CallType ==
  /\ rv \in [Subs -> {"none", "write", "clear"}]
  /\ con \in [Stream -> {"off", "replay", "live", "hung"}] /\ since \in [Stream -> Nat]

CountType == stray \in [Subs -> Nat] /\ faults \in Nat

Capped == \A s \in Stream : Len(queue[s]) <= MaxQueue

Parts ==
  ledger \in Seq(RowType) /\ FireType /\ CallType /\ CountType /\ Capped

LEMMA TypeParts == RowsKnown => (TypeOK <=> Parts)
<1> SUFFICES ASSUME RowsKnown PROVE TypeOK <=> Parts OBVIOUS
<1>1. ASSUME NEW q \in [Stream -> Seq(1 .. Len(ledger))]
      PROVE  q \in [Stream -> Seq(Nat \ {0})]
  <2>1. 1 .. Len(ledger) \subseteq Nat \ {0} OBVIOUS
  <2>2. \A s \in Stream : q[s] \in Seq(Nat \ {0}) BY <2>1, SeqWidens
  <2> QED BY <2>2
<1>2. {queue, old} \subseteq [Stream -> Seq(Nat \ {0})] BY <1>1 DEF RowsKnown
<1>3. got \in [Stream -> SUBSET Nat] /\ dropped \in [Stream -> SUBSET Nat]
  <2>1. 1 .. Len(ledger) \subseteq Nat OBVIOUS
  <2> QED BY <2>1 DEF RowsKnown
<1> QED
  BY <1>2, <1>3 DEF TypeOK, Parts, RowType, Outcome, FireType, CallType, CountType, Capped

LEMMA TypePartsNext == RowsKnown' => (TypeOK' <=> Parts')
BY TypeParts, PTL

(* A commit moves nothing that points into the ledger.                      *)
LEMMA CommitKeeps ==
  ASSUME Base, NEW tool, NEW sub, NEW trig, NEW st,
         Typed(tool, sub, trig, st), Commit(tool, sub, trig, st),
         trig <= Len(ledger), UNCHANGED <<queue, old, got, dropped>>,
         tool = "created" => Executed("created", sub) = {}
  PROVE  RowsKnown' /\ CreatedOnce'
<1>1. /\ ledger \in Seq(RowType) /\ Len(ledger) \in Nat /\ Len(ledger') = Len(ledger) + 2
      /\ ledger' \in Seq(RowType)
  BY Typing, CommitRows DEF Base
<1>2. \A i \in 1 .. Len(ledger') : ledger'[i].trig \in 0 .. Len(ledger')
  <2>1. \A i \in 1 .. Len(ledger') :
          i \in 1 .. Len(ledger) \/ i = Len(ledger) + 1 \/ i = Len(ledger) + 2
    BY <1>1
  <2>2. trig \in 0 .. Len(ledger') BY <1>1 DEF Typed
  <2>3. \A i \in 1 .. Len(ledger) : ledger'[i].trig \in 0 .. Len(ledger')
    <3>1. \A i \in 1 .. Len(ledger) : ledger'[i] = ledger[i] BY <1>1, CommitRows
    <3>2. \A i \in 1 .. Len(ledger) : ledger[i].trig \in 0 .. Len(ledger)
      BY DEF Base, RowsKnown
    <3> QED BY <1>1, <3>1, <3>2
  <2>4. ledger'[Len(ledger) + 1].trig = trig /\ ledger'[Len(ledger) + 2].trig = trig
    BY <1>1, CommitRows
  <2> QED BY <2>1, <2>2, <2>3, <2>4
<1>3. 1 .. Len(ledger) \subseteq 1 .. Len(ledger') BY <1>1
<1>4. ASSUME NEW q \in [Stream -> Seq(1 .. Len(ledger))]
      PROVE  q \in [Stream -> Seq(1 .. Len(ledger'))]
  <2>1. \A s \in Stream : q[s] \in Seq(1 .. Len(ledger')) BY <1>3, SeqWidens
  <2> QED BY <2>1
<1>5. RowsKnown' BY <1>2, <1>3, <1>4 DEF Base, RowsKnown
<1>6. ASSUME NEW s \in Subs, NEW i \in Executed("created", s)', NEW j \in Executed("created", s)'
      PROVE  i = j
  BY <1>1, <1>6, ExecutedGrows DEF Base, CreatedOnce
<1> QED BY <1>5, <1>6 DEF CreatedOnce

(* A cycle of another component, a creation, a revocation.                  *)
LEMMA OtherCommits ==
  ASSUME Base, NEW tool \in {"event", "created", "revoked"}, NEW sub \in Subs \cup {NoSub},
         Commit(tool, sub, 0, "none"),
         tool = "created" => Executed("created", sub) = {},
         UNCHANGED <<queue, old, fire, streams, stray, faults>>,
         rv' \in [Subs -> {"none", "write", "clear"}]
  PROVE  Base'
<1>0. Typed(tool, sub, 0, "none") BY DEF Typed, Meta, Outcome
<1>1. ledger \in Seq(RowType) /\ Len(ledger) \in Nat BY Typing DEF Base
<1>2. ledger' \in Seq(RowType) /\ Len(ledger') = Len(ledger) + 2 BY <1>0, <1>1, CommitRows
<1>3. RowsKnown' /\ CreatedOnce'
  <2>1. 0 <= Len(ledger) /\ UNCHANGED <<queue, old, got, dropped>> BY <1>1 DEF streams
  <2> QED BY <1>0, <2>1, CommitKeeps
<1>4. Parts BY TypeParts DEF Base
<1>5. Parts' BY <1>1, <1>2, <1>4 DEF Parts, FireType, CallType, CountType, Capped, fire, streams
<1>6. ASSUME NEW s \in Subs
      PROVE  Delivered(s)' = Delivered(s) /\ Executed("created", s) \subseteq Executed("created", s)'
  <2>1. tool # "delivered" OBVIOUS
  <2>2. Delivered(s)' = Delivered(s) \cup (IF tool = "delivered" /\ s = sub THEN {0} ELSE {})
    BY <1>0, <1>1, DeliveredGrows
  <2>3. Executed("created", s)' = Executed("created", s) \cup
          (IF "created" = tool /\ s = sub THEN {Len(ledger) + 2} ELSE {})
    BY <1>0, <1>1, ExecutedGrows
  <2> QED BY <2>1, <2>2, <2>3
<1>7. FireKnows'
  <2>1. todo \subseteq Subs BY DEF Base, TypeOK
  <2>2. UNCHANGED <<pc, todo, pos>> BY DEF fire
  <2> QED BY <1>6, <2>1, <2>2 DEF Base, FireKnows
<1> QED BY <1>3, <1>5, <1>7, TypePartsNext DEF Base

(* The record of a delivery.                                                *)
LEMMA RecordBase == ASSUME Base, Record PROVE Base'
<1>1. ledger \in Seq(RowType) /\ Len(ledger) \in Nat BY Typing DEF Base
<1>2. Parts BY TypeParts DEF Base
<1>3. todo # {} /\ todo \subseteq Subs BY DEF Base, TypeOK, FireKnows, Record
<1>4. Newest \in todo BY <1>3, NewestIs DEF OneNewest, Latest
<1>5. Typed("delivered", Newest, pos, status) /\ pos <= Len(ledger)
  BY <1>1, <1>2, <1>3, <1>4 DEF Parts, FireType, Typed, Meta
<1>6. Commit("delivered", Newest, pos, status) /\ todo' = todo \ {Newest} /\ pc' = "loop"
  BY DEF Record
<1>7. UNCHANGED <<queue, old, pos, status, rv, con, since, got, dropped, stray, faults>>
  BY DEF Record, streams
<1>8. ledger' \in Seq(RowType) /\ Len(ledger') = Len(ledger) + 2
  BY <1>1, <1>5, <1>6, CommitRows
<1>9. RowsKnown' /\ CreatedOnce'
  <2>1. UNCHANGED <<queue, old, got, dropped>> BY <1>7
  <2> QED BY <1>5, <1>6, <2>1, CommitKeeps
<1>10. Parts'
  BY <1>1, <1>2, <1>6, <1>7, <1>8 DEF Parts, FireType, CallType, CountType, Capped
<1>11. ASSUME NEW s \in todo'
       PROVE  /\ Delivered(s)' = Delivered(s)
              /\ Executed("created", s) \subseteq Executed("created", s)'
  <2>1. s # Newest BY <1>6, <1>11
  <2>2. Delivered(s)' = Delivered(s) \cup
          (IF "delivered" = "delivered" /\ s = Newest THEN {pos} ELSE {})
    BY <1>1, <1>5, <1>6, DeliveredGrows
  <2>3. Executed("created", s)' = Executed("created", s)
    <3>1. "created" # "delivered" OBVIOUS
    <3> QED BY <1>1, <1>5, <1>6, <3>1, OthersKept
  <2> QED BY <2>1, <2>2, <2>3
<1>12. FireKnows'
  BY <1>6, <1>7, <1>11 DEF Base, FireKnows, Record
<1> QED BY <1>9, <1>10, <1>12, TypePartsNext DEF Base

(***************************************************************************)
(* Steps that write no row.                                                 *)
(***************************************************************************)
RowsTyped ==
  /\ queue \in [Stream -> Seq(1 .. Len(ledger))] /\ old \in [Stream -> Seq(1 .. Len(ledger))]
  /\ got \in [Stream -> SUBSET (1 .. Len(ledger))]
  /\ dropped \in [Stream -> SUBSET (1 .. Len(ledger))]

LEMMA BaseHas ==
  Base => Parts /\ RowsTyped /\ FireKnows /\ Len(ledger) \in Nat /\ todo \subseteq Subs
BY Typing, TypeParts DEF Base, TypeOK, RowsKnown, RowsTyped

LEMMA QuietBase ==
  ASSUME Base, UNCHANGED ledger, RowsTyped', FireType', CallType', CountType', Capped', FireKnows'
  PROVE  Base'
<1>1. RowsKnown' BY DEF Base, RowsKnown, RowsTyped
<1>2. CreatedOnce' BY ReadsKept DEF Base, CreatedOnce
<1>3. Parts' BY BaseHas DEF Parts
<1> QED BY <1>1, <1>2, <1>3, TypePartsNext DEF Base

(* Steps of the tools.                                                      *)
LEMMA CallsBase ==
  ASSUME Base, UNCHANGED <<ledger, fire, stray, faults>>, RowsTyped', CallType', Capped'
  PROVE  Base'
<1>1. Parts /\ FireKnows BY BaseHas
<1>2. FireType' /\ CountType' BY <1>1 DEF Parts, FireType, CountType, fire
<1>3. FireKnows' BY <1>1, ReadsKept DEF FireKnows, fire
<1> QED BY <1>2, <1>3, QuietBase

(* Steps of fire.                                                           *)
LEMMA FireBase ==
  ASSUME Base, UNCHANGED <<ledger, rv, con, since>>, RowsTyped', Capped',
         FireType', CountType', FireKnows'
  PROVE  Base'
<1>1. Parts BY BaseHas
<1>2. CallType' BY <1>1 DEF Parts, CallType
<1> QED BY <1>2, QuietBase

LEMMA TailOf ==
  ASSUME NEW S, NEW q \in Seq(S), q # <<>>
  PROVE  /\ Head(q) \in S /\ Tail(q) \in Seq(S) /\ Len(Tail(q)) = Len(q) - 1
         /\ Len(q) \in Nat \ {0} /\ Head(q) = q[1]
         /\ \A i \in 1 .. Len(Tail(q)) : Tail(q)[i] = q[i + 1]
BY HeadTailProperties, EmptySeq, LenProperties

LEMMA LastGotIs == ASSUME Base, NEW s \in Stream PROVE LastGot(s) \in Nat
<1> DEFINE T == got[s] \cup {0}
<1>1. T \in SUBSET (0 .. Len(ledger)) /\ T # {} /\ Len(ledger) \in Nat
  BY BaseHas DEF RowsTyped
<1>2. \E n \in T : \A k \in T : k <= n
  <2> HIDE DEF T
  <2> QED BY <1>1, Largest
<1>3. \E n \in T : \A k \in got[s] : k <= n BY <1>2
<1>4. LastGot(s) \in T BY <1>3 DEF LastGot
<1> QED BY <1>1, <1>4

LEMMA RevokeCheckBase == ASSUME Base, NEW s \in Subs, RevokeCheck(s) PROVE Base'
<1> USE BaseHas DEF RevokeCheck, streams
<1>1. RowsTyped' BY DEF RowsTyped
<1>2. CallType' /\ Capped' BY DEF Parts, CallType, Capped
<1> QED BY <1>1, <1>2, CallsBase

LEMMA RevokeClearBase == ASSUME Base, NEW s \in Subs, RevokeClear(s) PROVE Base'
<1>0. Parts /\ RowsTyped /\ MaxQueue \in Nat BY BaseHas, BoundsAssumption
<1>1. RowsTyped'
  <2>1. <<>> \in Seq(1 .. Len(ledger)) BY EmptySeq
  <2>2. queue' \in [Stream -> Seq(1 .. Len(ledger))] BY <1>0, <2>1 DEF RowsTyped, RevokeClear
  <2>3. old' \in [Stream -> Seq(1 .. Len(ledger))] BY <1>0 DEF RowsTyped, RevokeClear
  <2> QED BY <1>0, <2>2, <2>3 DEF RowsTyped, RevokeClear
<1>2. CallType' BY <1>0 DEF Parts, CallType, RevokeClear
<1>3. Capped'
  <2>1. Len(<<>>) = 0 BY EmptySeq
  <2>2. \A t \in Stream : queue'[t] = IF t = s THEN <<>> ELSE queue[t] BY DEF RevokeClear
  <2> QED BY <1>0, <2>1, <2>2 DEF Parts, Capped
<1> QED BY <1>1, <1>2, <1>3, CallsBase DEF RevokeClear

LEMMA ConnectBase == ASSUME Base, NEW s \in Stream, Connect(s) PROVE Base'
<1>0. Parts /\ RowsTyped /\ LastGot(s) \in Nat BY BaseHas, LastGotIs
<1>1. RowsTyped'
  <2>1. dropped' \in [Stream -> SUBSET (1 .. Len(ledger))] BY <1>0 DEF RowsTyped, Connect
  <2> QED BY <1>0, <2>1 DEF RowsTyped, Connect
<1>2. CallType' /\ Capped'
  <2>1. since' \in [Stream -> Nat] BY <1>0 DEF Parts, CallType, Connect
  <2>2. con' \in [Stream -> {"off", "replay", "live", "hung"}]
    BY <1>0 DEF Parts, CallType, Connect
  <2> QED BY <1>0, <2>1, <2>2 DEF Parts, CallType, Capped, Connect
<1> QED BY <1>1, <1>2, CallsBase DEF Connect

LEMMA DeliveredKnown ==
  ASSUME Base, NEW s PROVE Delivered(s) \subseteq 0 .. Len(ledger)
BY ExecutedRows DEF Base, RowsKnown, Delivered

LEMMA ReplayBase == ASSUME Base, NEW s \in Stream, Replay(s) PROVE Base'
<1>0. Parts /\ RowsTyped /\ Len(ledger) \in Nat BY BaseHas
<1>1. RowsTyped'
  <2>1. {n \in Delivered(s) : n > since[s]} \subseteq 1 .. Len(ledger)
    <3>1. since[s] \in Nat BY <1>0 DEF Parts, CallType
    <3> QED BY <1>0, <3>1, DeliveredKnown
  <2>2. got' \in [Stream -> SUBSET (1 .. Len(ledger))]
    BY <1>0, <2>1 DEF RowsTyped, Replay
  <2> QED BY <1>0, <2>2 DEF RowsTyped, Replay
<1>2. CallType' /\ Capped' BY <1>0 DEF Parts, CallType, Capped, Replay
<1> QED BY <1>1, <1>2, CallsBase DEF Replay

LEMMA TakeBase == ASSUME Base, NEW s \in Stream, Take(s) PROVE Base'
<1>0. Parts /\ RowsTyped /\ Len(ledger) \in Nat /\ MaxQueue \in Nat
  BY BaseHas, BoundsAssumption
<1>1. /\ Head(queue[s]) \in 1 .. Len(ledger) /\ Tail(queue[s]) \in Seq(1 .. Len(ledger))
      /\ Len(Tail(queue[s])) = Len(queue[s]) - 1 /\ Len(queue[s]) \in Nat \ {0}
  <2>1. queue[s] \in Seq(1 .. Len(ledger)) /\ queue[s] # <<>>
    BY <1>0 DEF RowsTyped, Take
  <2> QED BY <2>1, TailOf
<1>2. RowsTyped'
  <2>1. queue' \in [Stream -> Seq(1 .. Len(ledger))] BY <1>0, <1>1 DEF RowsTyped, Take
  <2>2. got' \in [Stream -> SUBSET (1 .. Len(ledger))] BY <1>0, <1>1 DEF RowsTyped, Take
  <2> QED BY <1>0, <2>1, <2>2 DEF RowsTyped, Take
<1>3. CallType' BY <1>0 DEF Parts, CallType, Take
<1>4. Capped'
  <2>1. \A t \in Stream : queue'[t] = IF t = s THEN Tail(queue[s]) ELSE queue[t]
    BY <1>0 DEF RowsTyped, Take
  <2>2. Len(Tail(queue[s])) <= MaxQueue BY <1>0, <1>1 DEF Parts, Capped
  <2> QED BY <1>0, <2>1, <2>2 DEF Parts, Capped
<1> QED BY <1>2, <1>3, <1>4, CallsBase DEF Take

LEMMA TakeOldBase == ASSUME Base, NEW s \in Stream, TakeOld(s) PROVE Base'
<1>0. Parts /\ RowsTyped BY BaseHas
<1>1. Head(old[s]) \in 1 .. Len(ledger) /\ Tail(old[s]) \in Seq(1 .. Len(ledger))
  <2>1. old[s] \in Seq(1 .. Len(ledger)) /\ old[s] # <<>> BY <1>0 DEF RowsTyped, TakeOld
  <2> QED BY <2>1, TailOf
<1>2. RowsTyped'
  <2>1. old' \in [Stream -> Seq(1 .. Len(ledger))] BY <1>0, <1>1 DEF RowsTyped, TakeOld
  <2>2. got' \in [Stream -> SUBSET (1 .. Len(ledger))] BY <1>0, <1>1 DEF RowsTyped, TakeOld
  <2> QED BY <1>0, <2>1, <2>2 DEF RowsTyped, TakeOld
<1>3. CallType' /\ Capped' BY <1>0 DEF Parts, CallType, Capped, TakeOld
<1> QED BY <1>2, <1>3, CallsBase DEF TakeOld

LEMMA DisconnectBase == ASSUME Base, NEW s \in Stream, Disconnect(s) PROVE Base'
<1>0. Parts /\ RowsTyped BY BaseHas
<1>1. RowsTyped'
  <2>1. <<>> \in Seq(1 .. Len(ledger)) BY EmptySeq
  <2>2. old' \in [Stream -> Seq(1 .. Len(ledger))] BY <1>0, <2>1 DEF RowsTyped, Disconnect
  <2> QED BY <1>0, <2>2 DEF RowsTyped, Disconnect
<1>2. CallType' /\ Capped' BY <1>0 DEF Parts, CallType, Capped, Disconnect
<1> QED BY <1>1, <1>2, CallsBase DEF Disconnect

(* Steps of fire that touch no queue.                                       *)
LEMMA ThinkBase ==
  ASSUME Base, UNCHANGED <<ledger, queue, old, rv, streams>>,
         FireType', CountType', FireKnows'
  PROVE  Base'
<1>1. RowsTyped' /\ Capped' BY BaseHas DEF RowsTyped, Parts, Capped, streams
<1> QED BY <1>1, FireBase DEF streams

LEMMA DispatchBase ==
  ASSUME Base, NEW i \in 1 .. Len(ledger), Dispatch(i) PROVE Base'
<1>0. Parts /\ FireKnows /\ Len(ledger) \in Nat BY BaseHas
<1>1. FireType' /\ CountType' BY <1>0 DEF Parts, FireType, CountType, Dispatch
<1>2. FireKnows' BY <1>0 DEF FireKnows, Dispatch
<1> QED BY <1>1, <1>2, ThinkBase DEF Dispatch

LEMMA ReadActiveBase == ASSUME Base, ReadActive PROVE Base'
<1>0. Parts /\ FireKnows BY BaseHas
<1>1. todo' \subseteq active_subscriptions BY DEF ReadActive
<1>2. FireType' /\ CountType'
  BY <1>0, <1>1 DEF Parts, FireType, CountType, ReadActive, active_subscriptions
<1>3. FireKnows'
  <2>1. \A s \in todo' : Executed("created", s)' # {}
    BY <1>1, ReadsKept DEF ReadActive, active_subscriptions
  <2>2. pc' \in {"idle", "index"} /\ pos' = pos /\ pos > 0
    BY <1>0 DEF ReadActive, FireKnows
  <2>3. pc' = "idle" => todo' = {} BY <1>1 DEF ReadActive
  <2> QED BY <2>1, <2>2, <2>3 DEF FireKnows
<1> QED BY <1>2, <1>3, ThinkBase DEF ReadActive

LEMMA ReadIndexBase == ASSUME Base, ReadIndex PROVE Base'
<1>0. Parts /\ FireKnows BY BaseHas
<1>1. FireType' /\ CountType' BY <1>0 DEF Parts, FireType, CountType, ReadIndex
<1>2. FireKnows' BY <1>0, ReadsKept DEF FireKnows, ReadIndex
<1> QED BY <1>1, <1>2, ThinkBase DEF ReadIndex

LEMMA StrayTyped ==
  ASSUME Base, NEW s, CountStray(s) PROVE stray' \in [Subs -> Nat]
<1>1. stray \in [Subs -> Nat] BY BaseHas DEF Parts, CountType
<1>2. [stray EXCEPT ![s] = @ + 1] \in [Subs -> Nat]
  <2>1. \A t \in Subs : stray[t] \in Nat /\ stray[t] + 1 \in Nat BY <1>1
  <2> QED BY <1>1, <2>1
<1> QED BY <1>1, <1>2 DEF CountStray

LEMMA PostBase ==
  ASSUME Base, NEW st \in {"delivered", "failed"}, PostWebhook(st) PROVE Base'
<1>0. Parts /\ FireKnows BY BaseHas
<1>1. stray' \in [Subs -> Nat] BY StrayTyped DEF PostWebhook
<1>2. FireType' /\ CountType'
  BY <1>0, <1>1 DEF Parts, FireType, CountType, PostWebhook, Outcome
<1>3. FireKnows' BY <1>0, ReadsKept DEF FireKnows, PostWebhook
<1> QED BY <1>2, <1>3, ThinkBase DEF PostWebhook

LEMMA RecordFailsBase == ASSUME Base, RecordFails PROVE Base'
<1>0. Parts /\ FireKnows BY BaseHas
<1>1. FireType' /\ CountType' BY <1>0 DEF Parts, FireType, CountType, RecordFails
<1>2. FireKnows' BY <1>0, ReadsKept DEF FireKnows, RecordFails
<1> QED BY <1>1, <1>2, ThinkBase DEF RecordFails

LEMMA FireEndsBase == ASSUME Base, FireEnds PROVE Base'
<1>0. Parts /\ FireKnows BY BaseHas
<1>1. FireType' /\ CountType' BY <1>0 DEF Parts, FireType, CountType, FireEnds
<1>2. FireKnows' BY <1>0, ReadsKept DEF FireKnows, FireEnds
<1> QED BY <1>1, <1>2, ThinkBase DEF FireEnds

LEMMA RewindBase == ASSUME Base, Rewind PROVE Base'
<1>0. Parts /\ FireKnows /\ Len(ledger) \in Nat BY BaseHas
<1>1. FireType' /\ CountType' BY <1>0 DEF Parts, FireType, CountType, Rewind
<1>2. FireKnows' BY <1>0, ReadsKept DEF FireKnows, Rewind
<1> QED BY <1>1, <1>2, ThinkBase DEF Rewind

LEMMA RestartBase == ASSUME Base, Restart PROVE Base'
<1>0. Parts /\ RowsTyped /\ Len(ledger) \in Nat /\ MaxQueue \in Nat
  BY BaseHas, BoundsAssumption
<1>1. <<>> \in Seq(1 .. Len(ledger)) /\ Len(<<>>) = 0 BY EmptySeq
<1>2. RowsTyped' BY <1>0, <1>1 DEF RowsTyped, Restart
<1>3. Capped' BY <1>0, <1>1 DEF Capped, Restart
<1>4. FireType' /\ CountType' BY <1>0 DEF Parts, FireType, CountType, Restart, Outcome
<1>5. CallType' BY <1>0 DEF Parts, CallType, Restart
<1>6. FireKnows' BY DEF FireKnows, Restart
<1> QED BY <1>2, <1>3, <1>4, <1>5, <1>6, QuietBase DEF Restart

(* What push leaves in the queue it pushes to.                              *)
LEMMA PushedTo ==
  ASSUME Base, NEW s \in Stream, push(s), pos \in 1 .. Len(ledger)
  PROVE  /\ queue' \in [Stream -> Seq(1 .. Len(ledger))]
         /\ dropped' \in [Stream -> SUBSET (1 .. Len(ledger))]
         /\ \A t \in Stream \ {s} : queue'[t] = queue[t] /\ dropped'[t] = dropped[t]
         /\ Len(queue'[s]) \in 1 .. MaxQueue
         /\ dropped[s] \subseteq dropped'[s]
         /\ queue'[s][Len(queue'[s])] = pos
         /\ \A i \in 1 .. Len(queue[s]) :
              \/ queue[s][i] \in dropped'[s]
              \/ \E j \in 1 .. Len(queue'[s]) : queue'[s][j] = queue[s][i]
<1>0. /\ RowsTyped /\ Len(ledger) \in Nat /\ MaxQueue \in Nat \ {0}
      /\ queue[s] \in Seq(1 .. Len(ledger)) /\ Len(queue[s]) <= MaxQueue
      /\ Len(queue[s]) \in Nat
  <2>1. Parts /\ RowsTyped /\ Len(ledger) \in Nat BY BaseHas
  <2>2. queue[s] \in Seq(1 .. Len(ledger)) BY <2>1 DEF RowsTyped
  <2>3. Len(queue[s]) \in Nat BY <2>2, LenProperties
  <2> QED BY <2>1, <2>2, <2>3, BoundsAssumption DEF Parts, Capped
<1>1. CASE Len(queue[s]) < MaxQueue
  <2> DEFINE q == Append(queue[s], pos)
  <2>1. /\ q \in Seq(1 .. Len(ledger)) /\ Len(q) = Len(queue[s]) + 1
        /\ \A i \in 1 .. Len(queue[s]) : q[i] = queue[s][i]
        /\ q[Len(queue[s]) + 1] = pos
    BY <1>0, AppendProperties
  <2>2. queue' = [queue EXCEPT ![s] = q] /\ dropped' = dropped BY <1>1 DEF push
  <2> HIDE DEF q
  <2>3. queue' \in [Stream -> Seq(1 .. Len(ledger))] BY <1>0, <2>1, <2>2 DEF RowsTyped
  <2>4. queue'[s] = q /\ \A t \in Stream \ {s} : queue'[t] = queue[t]
    BY <1>0, <2>2 DEF RowsTyped
  <2>5. \A i \in 1 .. Len(queue[s]) : i \in 1 .. Len(q) BY <1>0, <2>1
  <2> QED BY <1>0, <1>1, <2>1, <2>2, <2>3, <2>4, <2>5 DEF RowsTyped
<1>2. CASE ~ (Len(queue[s]) < MaxQueue)
  <2> DEFINE h == Tail(queue[s])
             q == Append(h, pos)
  <2>0. queue[s] # <<>> BY <1>0, <1>2, EmptySeq
  <2>1. /\ Head(queue[s]) \in 1 .. Len(ledger) /\ h \in Seq(1 .. Len(ledger))
        /\ Len(h) = Len(queue[s]) - 1 /\ Head(queue[s]) = queue[s][1]
        /\ \A i \in 1 .. Len(h) : h[i] = queue[s][i + 1]
    BY <1>0, <2>0, TailOf
  <2> HIDE DEF h
  <2>2. /\ q \in Seq(1 .. Len(ledger)) /\ Len(q) = Len(h) + 1
        /\ \A i \in 1 .. Len(h) : q[i] = h[i]
        /\ q[Len(h) + 1] = pos
    BY <2>1, AppendProperties
  <2>3. /\ queue' = [queue EXCEPT ![s] = q]
        /\ dropped' = [dropped EXCEPT ![s] = @ \cup {Head(queue[s])}]
    BY <1>2 DEF push, h
  <2> HIDE DEF q
  <2>4. /\ queue' \in [Stream -> Seq(1 .. Len(ledger))]
        /\ dropped' \in [Stream -> SUBSET (1 .. Len(ledger))]
    BY <1>0, <2>1, <2>2, <2>3 DEF RowsTyped
  <2>5. /\ queue'[s] = q /\ dropped'[s] = dropped[s] \cup {Head(queue[s])}
        /\ \A t \in Stream \ {s} : queue'[t] = queue[t] /\ dropped'[t] = dropped[t]
    BY <1>0, <2>3 DEF RowsTyped
  <2>6. ASSUME NEW i \in 1 .. Len(queue[s])
        PROVE  \/ queue[s][i] \in dropped'[s]
               \/ \E j \in 1 .. Len(queue'[s]) : queue'[s][j] = queue[s][i]
    <3>1. CASE i = 1 BY <2>1, <2>5, <3>1
    <3>2. CASE i # 1
      <4>1. i - 1 \in 1 .. Len(h) /\ i - 1 \in 1 .. Len(q) /\ (i - 1) + 1 = i
        <5> DEFINE m == Len(queue[s])
        <5>1. m \in Nat /\ i \in 1 .. m /\ Len(h) = m - 1 /\ Len(q) = m
          BY <1>0, <2>1, <2>2
        <5> HIDE DEF m
        <5> QED BY <3>2, <5>1
      <4>2. q[i - 1] = queue[s][i] BY <2>1, <2>2, <4>1
      <4> QED BY <2>5, <4>1, <4>2
    <3> QED BY <3>1, <3>2
  <2>7. Len(q) = MaxQueue BY <1>0, <1>2, <2>1, <2>2
  <2>8. q[Len(q)] = pos BY <1>0, <2>1, <2>2
  <2> QED BY <1>0, <2>4, <2>5, <2>6, <2>7, <2>8
<1> QED BY <1>1, <1>2

LEMMA PushStreamBase == ASSUME Base, PushStream PROVE Base'
<1>0. Parts /\ RowsTyped /\ FireKnows /\ Len(ledger) \in Nat BY BaseHas
<1>1. pos \in 1 .. Len(ledger) /\ Newest \in Stream /\ push(Newest)
  BY <1>0 DEF Parts, FireType, FireKnows, PushStream
<1>2. RowsTyped' BY <1>0, <1>1, PushedTo DEF RowsTyped, PushStream
<1>3. Capped'
  <2>1. Len(queue'[Newest]) <= MaxQueue
    BY <1>1, PushedTo, BoundsAssumption
  <2>2. \A t \in Stream \ {Newest} : queue'[t] = queue[t] BY <1>1, PushedTo
  <2> QED BY <1>0, <2>1, <2>2 DEF Parts, Capped
<1>4. stray' \in [Subs -> Nat] BY StrayTyped DEF PushStream
<1>5. FireType' /\ CountType'
  BY <1>0, <1>4 DEF Parts, FireType, CountType, PushStream, Outcome
<1>6. FireKnows' BY <1>0, ReadsKept DEF FireKnows, PushStream
<1> QED BY <1>2, <1>3, <1>5, <1>6, FireBase DEF PushStream

LEMMA BaseStep == ASSUME Base, Next PROVE Base'
<1>1. CASE Event
  <2>1. Commit("event", NoSub, 0, "none") /\ rv' \in [Subs -> {"none", "write", "clear"}]
    BY <1>1, BaseHas DEF Event, Parts, CallType
  <2> QED BY <1>1, <2>1, OtherCommits DEF Event
<1>2. ASSUME NEW s \in Subs, Agent(s) PROVE Base'
  <2>1. CASE create_subscription(s)
    <3>1. Commit("created", s, 0, "none") /\ rv' \in [Subs -> {"none", "write", "clear"}]
      BY <2>1, BaseHas DEF create_subscription, Parts, CallType
    <3> QED BY <2>1, <3>1, OtherCommits DEF create_subscription
  <2>2. CASE RevokeWrite(s)
    <3>1. Commit("revoked", s, 0, "none") /\ rv' \in [Subs -> {"none", "write", "clear"}]
      BY <2>2, BaseHas DEF RevokeWrite, Parts, CallType
    <3> QED BY <2>2, <3>1, OtherCommits DEF RevokeWrite
  <2> QED BY <1>2, <2>1, <2>2, RevokeCheckBase, RevokeClearBase DEF Agent
<1>3. CASE Dispatcher
  BY <1>3, DispatchBase, ReadActiveBase, ReadIndexBase, PushStreamBase, PostBase,
     RecordBase, RecordFailsBase, FireEndsBase DEF Dispatcher
<1>4. ASSUME NEW s \in Stream, Subscriber(s) PROVE Base'
  BY <1>4, ConnectBase, ReplayBase, TakeBase, TakeOldBase, DisconnectBase DEF Subscriber
<1> QED BY <1>1, <1>2, <1>3, <1>4, RewindBase, RestartBase DEF Next

-----------------------------------------------------------------------------
(***************************************************************************)
(* Commits: what each can change of what is read off the ledger.            *)
(***************************************************************************)

(* The cycle an action writes, if it writes one.                            *)
Writes(tool, sub, trig, st) ==
  Typed(tool, sub, trig, st) /\ Commit(tool, sub, trig, st)

(* Every step writes nothing, a cycle that records no delivery, or one that *)
(* does: the row at hand, to the newest subscription.                       *)
Others ==
  \/ UNCHANGED ledger
  \/ \E tool \in {"event", "created", "revoked"}, s \in Subs \cup {NoSub} :
       /\ Writes(tool, s, 0, "none")
       /\ tool = "created" => Executed("created", s) = {}
       /\ UNCHANGED <<queue, old, fire, streams, stray, faults>>

LEMMA StepWrites == ASSUME Base, Next PROVE Others \/ Record
<1> USE DEF Typed, Meta, Outcome
<1>1. CASE Event
  <2>1. Writes("event", NoSub, 0, "none") BY <1>1 DEF Event, Writes
  <2>2. /\ "event" # "created"
        /\ UNCHANGED <<queue, old, fire, streams, stray, faults>> BY <1>1 DEF Event
  <2> QED BY <2>1, <2>2 DEF Others
<1>2. ASSUME NEW s \in Subs, Agent(s) PROVE Others
  <2>1. CASE create_subscription(s)
    <3>1. /\ Writes("created", s, 0, "none") /\ Executed("created", s) = {}
          /\ UNCHANGED <<queue, old, fire, streams, stray, faults>>
      BY <2>1 DEF create_subscription, Writes
    <3> QED BY <3>1 DEF Others
  <2>2. CASE RevokeWrite(s)
    <3>1. /\ Writes("revoked", s, 0, "none") /\ "revoked" # "created"
          /\ UNCHANGED <<queue, old, fire, streams, stray, faults>>
      BY <2>2 DEF RevokeWrite, Writes
    <3> QED BY <3>1 DEF Others
  <2>3. CASE RevokeCheck(s) \/ RevokeClear(s)
    BY <2>3 DEF RevokeCheck, RevokeClear, Others
  <2> QED BY <1>2, <2>1, <2>2, <2>3 DEF Agent
<1>3. CASE Dispatcher /\ ~ Record
  <2>1. ASSUME NEW i \in 1 .. Len(ledger), Dispatch(i) PROVE UNCHANGED ledger
    BY <2>1 DEF Dispatch
  <2>2. ASSUME NEW st \in {"delivered", "failed"}, PostWebhook(st) PROVE UNCHANGED ledger
    BY <2>2 DEF PostWebhook
  <2>3. ReadActive \/ ReadIndex \/ PushStream \/ RecordFails \/ FireEnds => UNCHANGED ledger
    BY DEF ReadActive, ReadIndex, PushStream, RecordFails, FireEnds
  <2> QED BY <1>3, <2>1, <2>2, <2>3 DEF Dispatcher, Others
<1>4. ASSUME NEW s \in Stream, Subscriber(s) PROVE UNCHANGED ledger
  BY <1>4 DEF Subscriber, Connect, Replay, Take, TakeOld, Disconnect
<1>5. Rewind \/ Restart => UNCHANGED ledger BY DEF Rewind, Restart
<1> QED BY <1>1, <1>2, <1>3, <1>4, <1>5 DEF Next, Others

(* Writes that record no delivery leave deliveries alone, and take nothing  *)
(* away: what was created or revoked remains so.                            *)
LEMMA OthersRead ==
  ASSUME Base, Others, NEW s
  PROVE  /\ Executed("delivered", s)' = Executed("delivered", s)
         /\ Delivered(s)' = Delivered(s)
         /\ Executed("revoked", s) \subseteq Executed("revoked", s)'
         /\ Executed("created", s) \subseteq Executed("created", s)'
         /\ Executed("created", s) # {} => Executed("created", s)' = Executed("created", s)
         /\ \A i \in Executed("delivered", s) : ledger'[i] = ledger[i]
<1>0. ledger \in Seq(RowType) /\ Len(ledger) \in Nat BY Typing DEF Base
<1>1. CASE UNCHANGED ledger BY <1>1, ReadsKept
<1>2. ASSUME NEW tool \in {"event", "created", "revoked"}, NEW t \in Subs \cup {NoSub},
             Writes(tool, t, 0, "none"), tool = "created" => Executed("created", t) = {}
      PROVE  /\ Executed("delivered", s)' = Executed("delivered", s)
             /\ Delivered(s)' = Delivered(s)
             /\ Executed("revoked", s) \subseteq Executed("revoked", s)'
             /\ Executed("created", s) \subseteq Executed("created", s)'
             /\ Executed("created", s) # {} => Executed("created", s)' = Executed("created", s)
             /\ \A i \in Executed("delivered", s) : ledger'[i] = ledger[i]
  <2>0. Typed(tool, t, 0, "none") /\ Commit(tool, t, 0, "none") /\ tool # "delivered"
    BY <1>2 DEF Writes
  <2>1. \A k : Executed(k, s)' = Executed(k, s) \cup
                 (IF k = tool /\ s = t THEN {Len(ledger) + 2} ELSE {})
    BY <1>0, <2>0, ExecutedGrows
  <2>2. Delivered(s)' = Delivered(s) \cup (IF tool = "delivered" /\ s = t THEN {0} ELSE {})
    BY <1>0, <2>0, DeliveredGrows
  <2>3. \A i \in 1 .. Len(ledger) : ledger'[i] = ledger[i] BY <1>0, <2>0, CommitRows
  <2>4. \A k : Executed(k, s) \subseteq Executed(k, s)' BY <2>1
  <2>5. Executed("delivered", s)' = Executed("delivered", s) BY <2>0, <2>1
  <2>6. Executed("created", s) # {} => Executed("created", s)' = Executed("created", s)
    BY <1>2, <2>1
  <2> QED BY <2>0, <2>2, <2>3, <2>4, <2>5, <2>6, ExecutedRows
<1> QED BY <1>1, <1>2 DEF Others

(* The record of a delivery, too, takes nothing away, and adds one row.     *)
LEMMA RecordReads ==
  ASSUME Base, Record, NEW s
  PROVE  /\ pos \notin Delivered(Newest) /\ Newest \in todo
         /\ Executed("delivered", s)' =
              Executed("delivered", s) \cup (IF s = Newest THEN {Len(ledger) + 2} ELSE {})
         /\ Delivered(s)' = Delivered(s) \cup (IF s = Newest THEN {pos} ELSE {})
         /\ Executed("revoked", s)' = Executed("revoked", s)
         /\ Executed("created", s)' = Executed("created", s)
         /\ \A i \in Executed("delivered", s) : ledger'[i] = ledger[i]
         /\ ledger'[Len(ledger) + 2].trig = pos
<1>0. ledger \in Seq(RowType) /\ Len(ledger) \in Nat BY Typing DEF Base
<1>1. Parts /\ FireKnows /\ todo \subseteq Subs BY BaseHas
<1>2. Newest \in todo BY <1>1, NewestIs DEF OneNewest, Latest, FireKnows, Record
<1>3. Typed("delivered", Newest, pos, status) /\ Commit("delivered", Newest, pos, status)
  BY <1>0, <1>1, <1>2 DEF Parts, FireType, Typed, Meta, Record
<1>4. pos \notin Delivered(Newest) BY <1>1, <1>2 DEF FireKnows, Record
<1>5. \A k : Executed(k, s)' = Executed(k, s) \cup
               (IF k = "delivered" /\ s = Newest THEN {Len(ledger) + 2} ELSE {})
  BY <1>0, <1>3, ExecutedGrows
<1>6. Delivered(s)' = Delivered(s) \cup
        (IF "delivered" = "delivered" /\ s = Newest THEN {pos} ELSE {})
  BY <1>0, <1>3, DeliveredGrows
<1>7. /\ \A i \in 1 .. Len(ledger) : ledger'[i] = ledger[i]
      /\ ledger'[Len(ledger) + 2].trig = pos
  BY <1>0, <1>3, CommitRows
<1>8. Executed("revoked", s)' = Executed("revoked", s) BY <1>5
<1>9. Executed("created", s)' = Executed("created", s) BY <1>5
<1>10. Executed("delivered", s)' =
         Executed("delivered", s) \cup (IF s = Newest THEN {Len(ledger) + 2} ELSE {})
  BY <1>5
<1> QED BY <1>2, <1>4, <1>6, <1>7, <1>8, <1>9, <1>10, ExecutedRows

-----------------------------------------------------------------------------
(***************************************************************************)
(* A row is recorded as delivered to a subscription once.                   *)
(***************************************************************************)
LEMMA OnceStep == ASSUME Base, DeliveredOnce, Next PROVE DeliveredOnce'
<1>1. CASE Others
  BY <1>1, OthersRead DEF DeliveredOnce
<1>2. CASE Record
  <2> SUFFICES ASSUME NEW s \in Subs, NEW i \in Executed("delivered", s)',
                      NEW j \in Executed("delivered", s)', ledger'[i].trig = ledger'[j].trig
               PROVE  i = j
    BY DEF DeliveredOnce
  <2> DEFINE n == Len(ledger) + 2
  <2>1. /\ \A k \in Executed("delivered", s)' : k \in Executed("delivered", s) \/ k = n
        /\ s # Newest => \A k \in Executed("delivered", s)' : k \in Executed("delivered", s)
        /\ \A k \in Executed("delivered", s) : ledger'[k] = ledger[k]
        /\ ledger'[n].trig = pos /\ pos \notin Delivered(Newest)
    BY <1>2, RecordReads
  <2> HIDE DEF n
  <2>2. s = Newest => \A k \in Executed("delivered", s) : ledger[k].trig # pos
    BY <2>1 DEF Delivered
  <2>3. CASE i \in Executed("delivered", s) /\ j \in Executed("delivered", s)
    BY <2>1, <2>3 DEF DeliveredOnce
  <2>4. CASE s = Newest /\ i = n /\ j # n
    <3>1. j \in Executed("delivered", s) /\ ledger'[j] = ledger[j] BY <2>1, <2>4
    <3> QED BY <2>1, <2>2, <2>4, <3>1
  <2>5. CASE s = Newest /\ j = n /\ i # n
    <3>1. i \in Executed("delivered", s) /\ ledger'[i] = ledger[i] BY <2>1, <2>5
    <3> QED BY <2>1, <2>2, <2>5, <3>1
  <2> QED BY <2>1, <2>3, <2>4, <2>5
<1> QED BY <1>1, <1>2, StepWrites

-----------------------------------------------------------------------------
(***************************************************************************)
(* A revoked subscription is served at most once more.                      *)
(***************************************************************************)

(* While fire and the calls it made are left alone, the subscription being  *)
(* served stays the newest.                                                 *)
LEMMA OthersNewest ==
  ASSUME Base, Base', Others, todo' = todo, todo # {} PROVE Newest' = Newest
<1>1. \A s \in todo : Executed("created", s) # {} BY BaseHas DEF FireKnows
<1>2. \A s \in todo : Executed("created", s)' = Executed("created", s)
  BY <1>1, OthersRead
<1> QED BY <1>2, NewestStays

LEMMA StrayKept ==
  ASSUME Base, Base', Others, StrayOnce, UNCHANGED <<pc, todo, stray>> PROVE StrayOnce'
<1> SUFFICES ASSUME NEW s \in Subs, stray'[s] # 0
             PROVE  /\ stray'[s] = 1 /\ Executed("revoked", s)' # {}
                    /\ s \in todo' => pc' = "record" /\ s = Newest'
  BY DEF StrayOnce
<1>1. stray[s] = 1 /\ Executed("revoked", s) # {} BY DEF StrayOnce
<1>2. s \in todo => pc = "record" /\ s = Newest BY DEF StrayOnce
<1>3. Executed("revoked", s)' # {} BY <1>1, OthersRead
<1>4. todo # {} => Newest' = Newest BY OthersNewest
<1> QED BY <1>1, <1>2, <1>3, <1>4

(* Whoever is left to serve after the step, nothing was sent to since its   *)
(* revocation.                                                              *)
LEMMA StrayFresh ==
  ASSUME StrayOnce, UNCHANGED stray,
         \A s \in Subs : Executed("revoked", s)' = Executed("revoked", s),
         \A s \in todo' : stray[s] = 0
  PROVE  StrayOnce'
BY DEF StrayOnce

LEMMA StrayServed ==
  ASSUME Base, StrayOnce, pc = "loop", todo # {}, CountStray(Newest),
         UNCHANGED <<ledger, todo>>, pc' = "record"
  PROVE  StrayOnce'
<1>0. stray \in [Subs -> Nat] /\ todo \subseteq Subs BY BaseHas DEF Parts, CountType
<1>1. Newest \in todo BY NewestIs DEF OneNewest, Latest
<1>2. Newest' = Newest BY DEF Newest, Executed
<1>3. \A s \in todo : stray[s] = 0 BY <1>0 DEF StrayOnce
<1>4. \A s \in Subs : Executed("revoked", s)' = Executed("revoked", s) BY ReadsKept
<1>5. \A s \in Subs : s # Newest => stray'[s] = stray[s] BY <1>0 DEF CountStray
<1>6. CASE Executed("revoked", Newest) = {}
  <2>1. stray' = stray BY <1>6 DEF CountStray
  <2> QED BY <1>3, <1>4, <2>1, StrayFresh
<1>7. CASE Executed("revoked", Newest) # {}
  <2>1. stray'[Newest] = 1 BY <1>0, <1>1, <1>3, <1>7 DEF CountStray
  <2> SUFFICES ASSUME NEW s \in Subs, stray'[s] # 0
               PROVE  /\ stray'[s] = 1 /\ Executed("revoked", s)' # {}
                      /\ s \in todo' => pc' = "record" /\ s = Newest'
    BY DEF StrayOnce
  <2>2. CASE s = Newest BY <1>2, <1>4, <1>7, <2>1, <2>2
  <2>3. CASE s # Newest BY <1>3, <1>4, <1>5, <2>3 DEF StrayOnce
  <2> QED BY <2>2, <2>3
<1> QED BY <1>6, <1>7

LEMMA StrayStep == ASSUME Base, Base', StrayOnce, Next PROVE StrayOnce'
<1>0. todo \subseteq Subs /\ FireKnows /\ Parts BY BaseHas
<1>1. ASSUME UNCHANGED ledger PROVE \A s \in Subs : Executed("revoked", s)' = Executed("revoked", s)
  BY <1>1, ReadsKept
<1>2. CASE Event \/ \E s \in Subs : Agent(s)
  <2>1. UNCHANGED <<pc, todo, stray>>
    BY <1>2 DEF Event, Agent, create_subscription, RevokeCheck, RevokeWrite, RevokeClear, fire
  <2>2. Others
    <3>1. ~ Record
      <4>1. Record => todo' # todo BY <1>0, NewestIs DEF Record, OneNewest, Latest, FireKnows
      <4> QED BY <2>1, <4>1
    <3> QED BY <1>2, <3>1, StepWrites DEF Next
  <2> QED BY <2>1, <2>2, StrayKept
<1>3. CASE \E s \in Stream : Subscriber(s)
  <2>1. UNCHANGED <<ledger, pc, todo, stray>>
    BY <1>3 DEF Subscriber, Connect, Replay, Take, TakeOld, Disconnect, fire
  <2> QED BY <2>1, StrayKept DEF Others
<1>4. CASE \E i \in 1 .. Len(ledger) : Dispatch(i)
  <2>1. UNCHANGED <<ledger, todo, stray>> /\ todo = {} BY <1>0, <1>4 DEF Dispatch, FireKnows
  <2> QED BY <1>1, <2>1, StrayFresh
<1>5. CASE ReadActive
  <2>1. UNCHANGED <<ledger, stray>> BY <1>5 DEF ReadActive
  <2>2. \A s \in todo' : s \in Subs /\ Executed("revoked", s) = {}
    BY <1>5 DEF ReadActive, active_subscriptions
  <2>3. \A s \in todo' : stray[s] = 0 BY <2>2 DEF StrayOnce
  <2> QED BY <1>1, <2>1, <2>3, StrayFresh
<1>6. CASE ReadIndex
  <2>1. UNCHANGED <<ledger, stray>> /\ todo' \subseteq todo /\ pc # "record"
    BY <1>6 DEF ReadIndex
  <2>2. \A s \in todo' : stray[s] = 0 BY <1>0, <2>1 DEF StrayOnce
  <2> QED BY <1>1, <2>1, <2>2, StrayFresh
<1>7. CASE PushStream BY <1>7, StrayServed DEF PushStream
<1>8. CASE \E st \in {"delivered", "failed"} : PostWebhook(st)
  BY <1>8, StrayServed DEF PostWebhook
<1>9. CASE Record
  <2>1. \A s \in Subs : Executed("revoked", s)' = Executed("revoked", s) BY <1>9, RecordReads
  <2>2. \A s \in todo' : stray[s] = 0 BY <1>0, <1>9 DEF StrayOnce, Record
  <2> QED BY <1>9, <2>1, <2>2, StrayFresh DEF Record
<1>10. CASE RecordFails
  <2>1. UNCHANGED <<ledger, stray>> /\ todo' = todo \ {Newest} BY <1>10 DEF RecordFails
  <2>2. \A s \in todo' : stray[s] = 0 BY <1>0, <2>1 DEF StrayOnce
  <2> QED BY <1>1, <2>1, <2>2, StrayFresh
<1>11. CASE FireEnds \/ Rewind \/ Restart
  <2>1. UNCHANGED <<ledger, stray>> /\ todo' = {}
    BY <1>0, <1>11 DEF FireEnds, Rewind, Restart, FireKnows
  <2> QED BY <1>1, <2>1, StrayFresh
<1> QED BY <1>2, <1>3, <1>4, <1>5, <1>6, <1>7, <1>8, <1>9, <1>10, <1>11 DEF Next, Dispatcher

-----------------------------------------------------------------------------
(***************************************************************************)
(* What the calls rest on: a queue is dropped after its revocation, and a   *)
(* stream was created.                                                      *)
(***************************************************************************)
LEMMA ReadsGrow ==
  ASSUME Base, Next, NEW s
  PROVE  /\ Executed("revoked", s) \subseteq Executed("revoked", s)'
         /\ Executed("created", s) \subseteq Executed("created", s)'
<1>1. Others \/ Record BY StepWrites
<1> QED BY <1>1, OthersRead, RecordReads

LEMMA ClearedStep == ASSUME Base, ClearedRevoked, Next PROVE ClearedRevoked'
<1> SUFFICES ASSUME NEW s \in Subs, rv'[s] = "clear" PROVE Executed("revoked", s)' # {}
  BY DEF ClearedRevoked
<1>0. rv \in [Subs -> {"none", "write", "clear"}] BY BaseHas DEF Parts, CallType
<1>1. CASE rv[s] = "clear" BY <1>1, ReadsGrow DEF ClearedRevoked
<1>2. CASE rv[s] # "clear"
  <2>1. RevokeWrite(s)
    <3>1. ~ (Event \/ Dispatcher \/ Rewind \/ Restart \/ \E t \in Stream : Subscriber(t))
      BY <1>2 DEF Event, Dispatcher, Dispatch, ReadActive, ReadIndex, PushStream, PostWebhook,
         Record, RecordFails, FireEnds, Rewind, Restart, Subscriber, Connect, Replay, Take,
         TakeOld, Disconnect
    <3>2. PICK t \in Subs : Agent(t) BY <3>1 DEF Next
    <3> QED
      BY <1>0, <1>2, <3>2 DEF Agent, create_subscription, RevokeCheck, RevokeWrite, RevokeClear
  <2>2. Typed("revoked", s, 0, "none") BY DEF Typed, Meta, Outcome
  <2>3. Executed("revoked", s)' = Executed("revoked", s) \cup
          (IF "revoked" = "revoked" /\ s = s THEN {Len(ledger) + 2} ELSE {})
    <3>1. ledger \in Seq(RowType) /\ Commit("revoked", s, 0, "none")
      BY <2>1, Typing DEF Base, RevokeWrite
    <3> QED BY <2>2, <3>1, ExecutedGrows
  <2> QED BY <2>3
<1> QED BY <1>1, <1>2

LEMMA CallsStep == ASSUME Base, CallsKnow, Next PROVE CallsKnow'
<1> SUFFICES ASSUME NEW s \in Stream, con'[s] # "off" PROVE Executed("created", s)' # {}
  BY DEF CallsKnow
<1>0. con \in [Stream -> {"off", "replay", "live", "hung"}] BY BaseHas DEF Parts, CallType
<1>1. CASE con[s] # "off" BY <1>1, ReadsGrow DEF CallsKnow
<1>2. CASE con[s] = "off"
  <2>1. Connect(s)
    <3>1. ~ (Event \/ Dispatcher \/ Rewind)
      BY <1>2 DEF Event, Dispatcher, Dispatch, ReadActive, ReadIndex, PushStream, PostWebhook,
         Record, RecordFails, FireEnds, Rewind, streams
    <3>2. ~ Restart BY DEF Restart
    <3>3. ~ \E t \in Subs : Agent(t)
      BY <1>2 DEF Agent, create_subscription, RevokeCheck, RevokeWrite, RevokeClear, streams
    <3>4. PICK t \in Stream : Subscriber(t) BY <3>1, <3>2, <3>3 DEF Next
    <3> QED
      BY <1>0, <1>2, <3>4 DEF Subscriber, Connect, Replay, Take, TakeOld, Disconnect
  <2>2. Executed("created", s) # {} BY <2>1 DEF Connect, active_subscriptions
  <2> QED BY <2>2, ReadsGrow
<1> QED BY <1>1, <1>2

-----------------------------------------------------------------------------
(***************************************************************************)
(* Pushed events: between the push and its record an event waits in the     *)
(* queue or was received.                                                   *)
(***************************************************************************)
Waits(s, n) == \E i \in 1 .. Len(queue[s]) : queue[s][i] = n

(* A row that was received or waits, still does after a step that is        *)
(* neither a push, which may drop it, nor the end of the queue.             *)
LEMMA TakenWaits ==
  ASSUME Base, NEW s \in Stream, Take(s), NEW t \in Stream, NEW n
  PROVE  /\ got[t] \subseteq got'[t]
         /\ Waits(t, n) => n \in got'[t] \/ Waits(t, n)'
<1>0. RowsTyped BY BaseHas
<1>1. /\ Head(queue[s]) = queue[s][1] /\ Len(queue[s]) \in Nat \ {0}
      /\ Len(Tail(queue[s])) = Len(queue[s]) - 1
      /\ \A i \in 1 .. Len(Tail(queue[s])) : Tail(queue[s])[i] = queue[s][i + 1]
  <2>1. queue[s] \in Seq(1 .. Len(ledger)) /\ queue[s] # <<>> BY <1>0 DEF RowsTyped, Take
  <2> QED BY <2>1, TailOf
<1>2. /\ queue' = [queue EXCEPT ![s] = Tail(@)]
      /\ got' = [got EXCEPT ![s] = @ \cup {Head(queue[s])}]
  BY DEF Take
<1>3. CASE t # s BY <1>0, <1>2, <1>3 DEF RowsTyped, Waits
<1>4. CASE t = s
  <2>1. queue'[s] = Tail(queue[s]) /\ got'[s] = got[s] \cup {Head(queue[s])}
    BY <1>0, <1>2 DEF RowsTyped
  <2>2. ASSUME NEW i \in 1 .. Len(queue[s]), queue[s][i] = n
        PROVE  n \in got'[s] \/ Waits(s, n)'
    <3>1. CASE i = 1 BY <1>1, <2>1, <2>2, <3>1
    <3>2. CASE i # 1
      <4>1. i - 1 \in 1 .. Len(Tail(queue[s])) /\ (i - 1) + 1 = i
        <5> DEFINE m == Len(queue[s])
        <5>1. m \in Nat /\ i \in 1 .. m /\ Len(Tail(queue[s])) = m - 1 BY <1>1
        <5> HIDE DEF m
        <5> QED BY <3>2, <5>1
      <4>2. Tail(queue[s])[i - 1] = n BY <1>1, <2>2, <4>1
      <4> QED BY <2>1, <4>1, <4>2 DEF Waits
    <3> QED BY <3>1, <3>2
  <2> QED BY <1>4, <2>1, <2>2 DEF Waits
<1> QED BY <1>3, <1>4

LEMMA WaitsStep ==
  ASSUME Base, ClearedRevoked, Next, ~ PushStream, ~ Restart,
         NEW s \in Stream, NEW n, Executed("revoked", s)' = {}
  PROVE  /\ got[s] \subseteq got'[s]
         /\ Waits(s, n) => n \in got'[s] \/ Waits(s, n)'
<1>0. RowsTyped BY BaseHas
<1>1. Executed("revoked", s) = {} BY ReadsGrow
<1>2. CASE Event \/ Dispatcher \/ Rewind
  <2>1. UNCHANGED <<queue, got>>
    BY <1>2 DEF Event, Dispatcher, Dispatch, ReadActive, ReadIndex, PostWebhook,
       Record, RecordFails, FireEnds, Rewind, streams
  <2> QED BY <2>1 DEF Waits
<1>3. ASSUME NEW t \in Subs, Agent(t)
      PROVE  got[s] \subseteq got'[s] /\ (Waits(s, n) => Waits(s, n)')
  <2>1. CASE RevokeClear(t)
    <3>1. Executed("revoked", t) # {} BY <2>1 DEF RevokeClear, ClearedRevoked
    <3>2. s # t /\ got' = got /\ queue'[s] = queue[s] BY <1>1, <2>1, <3>1 DEF RevokeClear
    <3> QED BY <3>2 DEF Waits
  <2>2. CASE ~ RevokeClear(t)
    <3>1. UNCHANGED <<queue, got>>
      BY <1>3, <2>2 DEF Agent, create_subscription, RevokeCheck, RevokeWrite, streams
    <3> QED BY <3>1 DEF Waits
  <2> QED BY <2>1, <2>2
<1>4. ASSUME NEW t \in Stream, Subscriber(t)
      PROVE  got[s] \subseteq got'[s] /\ (Waits(s, n) => n \in got'[s] \/ Waits(s, n)')
  <2>1. CASE Take(t) BY <2>1, TakenWaits
  <2>2. CASE ~ Take(t)
    <3>1. UNCHANGED queue BY <1>4, <2>2 DEF Subscriber, Connect, Replay, TakeOld, Disconnect
    <3>2. got[s] \subseteq got'[s]
      BY <1>0, <1>4, <2>2 DEF RowsTyped, Subscriber, Connect, Replay, TakeOld, Disconnect
    <3> QED BY <3>1, <3>2 DEF Waits
  <2> QED BY <2>1, <2>2
<1> QED BY <1>2, <1>3, <1>4 DEF Next

(* While an event is being recorded, other calls leave fire alone.          *)
LEMMA RecordLeft ==
  ASSUME Base, Next, pc' = "record"
  PROVE  \/ PushStream \/ \E st \in {"delivered", "failed"} : PostWebhook(st)
         \/ UNCHANGED fire /\ Others /\ ~ PushStream /\ ~ Restart
<1>1. CASE Dispatcher
  BY <1>1 DEF Dispatcher, Dispatch, ReadActive, ReadIndex, Record, RecordFails, FireEnds
<1>2. ~ Rewind /\ ~ Restart BY DEF Rewind, Restart
<1>3. ~ Record BY DEF Record
<1>4. CASE Event \/ \E s \in Subs : Agent(s)
  <2>1. UNCHANGED fire
    BY <1>4 DEF Event, Agent, create_subscription, RevokeCheck, RevokeWrite, RevokeClear
  <2> QED BY <1>2, <1>3, <2>1, StepWrites
<1>5. CASE \E s \in Stream : Subscriber(s)
  <2>1. UNCHANGED fire BY <1>5 DEF Subscriber, Connect, Replay, Take, TakeOld, Disconnect
  <2> QED BY <1>2, <1>3, <2>1, StepWrites
<1> QED BY <1>1, <1>2, <1>4, <1>5 DEF Next

LEMMA PushedStep ==
  ASSUME Base, Base', ClearedRevoked, PushedWaits, Next PROVE PushedWaits'
<1> SUFFICES ASSUME NEW s \in Stream, pc' = "record", s = Newest', Executed("revoked", s)' = {}
             PROVE  pos' \in got'[s] \/ Waits(s, pos)'
  BY DEF PushedWaits, Waits
<1>1. CASE PushStream
  <2>1. Newest' = Newest BY <1>1 DEF PushStream, Newest, Executed
  <2>2. pos \in 1 .. Len(ledger)
    <3>1. Parts /\ FireKnows /\ Len(ledger) \in Nat BY BaseHas
    <3> QED BY <1>1, <3>1 DEF Parts, FireType, FireKnows, PushStream
  <2>3. /\ Len(queue'[s]) \in 1 .. MaxQueue /\ queue'[s][Len(queue'[s])] = pos
    BY <1>1, <2>1, <2>2, PushedTo DEF PushStream
  <2>4. Len(queue'[s]) \in 1 .. Len(queue'[s]) BY <2>3, BoundsAssumption
  <2>5. pos' = pos BY <1>1 DEF PushStream
  <2> QED BY <2>3, <2>4, <2>5 DEF Waits
<1>2. CASE \E st \in {"delivered", "failed"} : PostWebhook(st)
  <2>1. Newest' = Newest /\ Newest \notin Stream BY <1>2 DEF PostWebhook, Newest, Executed
  <2> QED BY <2>1
<1>3. CASE UNCHANGED fire /\ Others /\ ~ PushStream /\ ~ Restart
  <2>1. UNCHANGED <<pos, pc, todo>> BY <1>3 DEF fire
  <2>2. todo # {} BY <2>1, BaseHas DEF FireKnows
  <2>3. Newest' = Newest BY <1>3, <2>1, <2>2, OthersNewest
  <2>4. Executed("revoked", s) = {} BY ReadsGrow
  <2>5. pos \in got[s] \/ Waits(s, pos) BY <2>1, <2>3, <2>4 DEF PushedWaits, Waits
  <2>6. /\ got[s] \subseteq got'[s]
        /\ Waits(s, pos) => pos \in got'[s] \/ \E i \in 1 .. Len(queue'[s]) : queue'[s][i] = pos
    <3>1. \A n : Waits(s, n) => n \in got'[s] \/ Waits(s, n)' BY <1>3, WaitsStep
    <3>2. got[s] \subseteq got'[s] BY <1>3, WaitsStep
    <3> QED BY <3>1, <3>2 DEF Waits
  <2>7. Waits(s, pos)' <=> \E i \in 1 .. Len(queue'[s]) : queue'[s][i] = pos BY <2>1 DEF Waits
  <2> QED BY <2>1, <2>5, <2>6, <2>7
<1> QED BY <1>1, <1>2, <1>3, RecordLeft

-----------------------------------------------------------------------------
(***************************************************************************)
(* Resuming a stream loses nothing.                                         *)
(***************************************************************************)

(* What was delivered past since_seq has reached the call.                  *)
Reached(s, n) == n <= since[s] \/ n \in got[s] \cup dropped[s] \/ Waits(s, n)

LEMMA ResumeMeans ==
  ResumeLosesNothing <=>
    \A s \in Stream : s \in active_subscriptions /\ con[s] = "live" /\ since[s] > 0 =>
      \A n \in Delivered(s) : Reached(s, n)
BY DEF ResumeLosesNothing, Reached, Waits

LEMMA ResumeMeansNext ==
  ResumeLosesNothing' <=>
    (\A s \in Stream : s \in active_subscriptions /\ con[s] = "live" /\ since[s] > 0 =>
      \A n \in Delivered(s) : Reached(s, n))'
BY ResumeMeans, PTL

(* A call that tails after the step was tailing before it, unless it has    *)
(* just connected or replayed.                                              *)
LEMMA LiveBefore ==
  ASSUME Base, Next, ~ Restart, NEW s \in Stream, ~ Connect(s), ~ Replay(s), con'[s] = "live"
  PROVE  /\ con[s] = "live" /\ since'[s] = since[s]
         /\ PushStream \/ dropped'[s] = dropped[s]
<1>0. /\ con \in [Stream -> {"off", "replay", "live", "hung"}]
      /\ since \in [Stream -> Nat] /\ RowsTyped
  BY BaseHas DEF Parts, CallType
<1>1. CASE Event \/ Dispatcher \/ Rewind
  BY <1>1 DEF Event, Dispatcher, Dispatch, ReadActive, ReadIndex, PushStream, PostWebhook,
     Record, RecordFails, FireEnds, Rewind, streams
<1>2. CASE \E t \in Subs : Agent(t)
  BY <1>2 DEF Agent, create_subscription, RevokeCheck, RevokeWrite, RevokeClear, streams
<1>3. CASE \E t \in Stream : Subscriber(t)
  BY <1>0, <1>3 DEF RowsTyped, Subscriber, Connect, Replay, Take, TakeOld, Disconnect
<1> QED BY <1>1, <1>2, <1>3 DEF Next

LEMMA PushReaches ==
  ASSUME Base, PushStream, NEW s \in Stream, NEW n, Reached(s, n) PROVE Reached(s, n)'
<1>0. pos \in 1 .. Len(ledger) /\ Newest \in Stream /\ push(Newest) /\ UNCHANGED <<since, got>>
  <2>1. Parts /\ FireKnows /\ Len(ledger) \in Nat BY BaseHas
  <2> QED BY <2>1 DEF Parts, FireType, FireKnows, PushStream
<1>1. CASE s # Newest
  <2>1. queue'[s] = queue[s] /\ dropped'[s] = dropped[s] BY <1>0, <1>1, PushedTo
  <2> QED BY <1>0, <2>1 DEF Reached, Waits
<1>2. CASE s = Newest
  <2>1. /\ dropped[s] \subseteq dropped'[s]
        /\ \A i \in 1 .. Len(queue[s]) :
             queue[s][i] \in dropped'[s] \/ \E j \in 1 .. Len(queue'[s]) : queue'[s][j] = queue[s][i]
    BY <1>0, <1>2, PushedTo
  <2> QED BY <1>0, <2>1 DEF Reached, Waits
<1> QED BY <1>1, <1>2

LEMMA ResumeStep ==
  ASSUME Base, Base', ClearedRevoked, PushedWaits, CallsKnow, ResumeLosesNothing, Next
  PROVE  ResumeLosesNothing'
<1> SUFFICES ASSUME NEW s \in Stream, s \in active_subscriptions', con'[s] = "live",
                    since'[s] > 0, NEW n \in Delivered(s)'
             PROVE  Reached(s, n)'
  BY ResumeMeansNext
<1>0. /\ s \in Subs /\ con \in [Stream -> {"off", "replay", "live", "hung"}]
      /\ since \in [Stream -> Nat] /\ RowsTyped
  BY BaseHas, SubsAssumption DEF Parts, CallType
<1>1. ~ Restart BY DEF Restart
<1>2. ~ Connect(s) BY <1>0, LastGotIs DEF Connect
<1>3. CASE Replay(s)
  <2>1. got'[s] = got[s] \cup {k \in Delivered(s) : k > since[s]} /\ since' = since
    BY <1>0, <1>3 DEF RowsTyped, Replay
  <2>2. Delivered(s)' = Delivered(s) BY <1>3, ReadsKept DEF Replay
  <2>3. n \in Int /\ since[s] \in Int BY <1>0, <2>2, DeliveredKnown
  <2> QED BY <2>1, <2>2, <2>3 DEF Reached
<1>4. CASE ~ Replay(s)
  <2>1. /\ con[s] = "live" /\ since'[s] = since[s]
        /\ PushStream \/ dropped'[s] = dropped[s]
    BY <1>1, <1>2, <1>4, LiveBefore
  <2>2. Executed("revoked", s)' = {} BY DEF active_subscriptions
  <2>3. s \in active_subscriptions
    BY <1>0, <2>1, <2>2, ReadsGrow DEF CallsKnow, active_subscriptions
  <2>4. \A k \in Delivered(s) : Reached(s, k) BY <2>1, <2>3, ResumeMeans
  <2>5. CASE PushStream
    <3>1. Delivered(s)' = Delivered(s) BY <2>5, ReadsKept DEF PushStream
    <3> QED BY <2>4, <2>5, <3>1, PushReaches
  <2>6. CASE ~ PushStream /\ n \in Delivered(s)
    <3>1. got[s] \subseteq got'[s] /\ (Waits(s, n) => n \in got'[s] \/ Waits(s, n)')
      BY <1>1, <2>2, <2>6, WaitsStep
    <3> QED BY <2>1, <2>4, <2>6, <3>1 DEF Reached
  <2>7. CASE n \notin Delivered(s)
    <3>1. Record BY <2>7, StepWrites, OthersRead
    <3>2. n = pos /\ s = Newest BY <2>7, <3>1, RecordReads
    <3>3. pos \in got[s] \/ Waits(s, pos)
      BY <2>2, <3>1, <3>2, ReadsGrow DEF PushedWaits, Waits, Record
    <3>4. UNCHANGED <<queue, got, pos>> BY <3>1 DEF Record, streams
    <3> QED BY <3>2, <3>3, <3>4 DEF Reached, Waits
  <2> QED BY <2>5, <2>6, <2>7
<1> QED BY <1>3, <1>4

-----------------------------------------------------------------------------
(***************************************************************************)
(* The theorems.                                                            *)
(***************************************************************************)
LEMMA BaseInit == Init => Base
<1> SUFFICES ASSUME Init PROVE Base OBVIOUS
<1>0. /\ Len(ledger) = 0 /\ ledger = <<>> /\ MaxQueue \in Nat
      /\ \A S : <<>> \in Seq(S)
  BY EmptySeq, BoundsAssumption DEF Init
<1>1. \A t, s : Executed(t, s) = {} BY <1>0 DEF Executed
<1>2. RowsKnown BY <1>0 DEF Init, RowsKnown
<1>3. Parts
  <2>1. FireType BY <1>0 DEF Init, FireType, Outcome
  <2>2. CallType /\ CountType BY DEF Init, CallType, CountType
  <2>3. Capped BY <1>0 DEF Init, Capped
  <2> QED BY <1>0, <2>1, <2>2, <2>3 DEF Parts
<1>4. CreatedOnce BY <1>1 DEF CreatedOnce
<1>5. FireKnows BY DEF Init, FireKnows
<1> QED BY <1>2, <1>3, <1>4, <1>5, TypeParts DEF Base

LEMMA InitHolds == Init => IInv
<1> SUFFICES ASSUME Init PROVE IInv OBVIOUS
<1>1. \A t, s : Executed(t, s) = {}
  <2>1. Len(ledger) = 0 BY EmptySeq DEF Init
  <2> QED BY <2>1 DEF Executed
<1>2. DeliveredOnce BY <1>1 DEF DeliveredOnce
<1>3. StrayOnce /\ ClearedRevoked /\ PushedWaits /\ CallsKnow
  BY DEF Init, StrayOnce, ClearedRevoked, PushedWaits, CallsKnow
<1>4. ResumeLosesNothing BY DEF Init, ResumeLosesNothing
<1> QED BY <1>2, <1>3, <1>4, BaseInit DEF IInv

LEMMA NextKeeps == IInv /\ Next => IInv'
<1> SUFFICES ASSUME IInv, Next PROVE IInv' OBVIOUS
<1>1. Base /\ Base' BY BaseStep DEF IInv
<1> QED
  BY <1>1, OnceStep, StrayStep, ClearedStep, PushedStep, CallsStep, ResumeStep DEF IInv

LEMMA StutterKeeps == IInv /\ UNCHANGED vars => IInv'
<1> SUFFICES ASSUME IInv, UNCHANGED vars PROVE IInv' OBVIOUS
<1> USE DEF vars, fire, streams
<1>1. \A t, s : Executed(t, s)' = Executed(t, s) /\ Delivered(s)' = Delivered(s)
  BY ReadsKept
<1>2. Base'
  <2>1. RowsTyped' /\ CallType' /\ Capped' BY BaseHas DEF IInv, Parts, RowsTyped, CallType, Capped
  <2> QED BY <2>1, CallsBase DEF IInv
<1>3. Newest' = Newest /\ active_subscriptions' = active_subscriptions
  BY DEF Newest, active_subscriptions, Executed
<1>4. DeliveredOnce' BY <1>1 DEF IInv, DeliveredOnce
<1>5. StrayOnce' BY <1>1, <1>3 DEF IInv, StrayOnce
<1>6. ClearedRevoked' /\ CallsKnow' BY <1>1 DEF IInv, ClearedRevoked, CallsKnow
<1>7. PushedWaits' BY <1>1, <1>3 DEF IInv, PushedWaits
<1>8. ResumeLosesNothing' BY <1>1, <1>3 DEF IInv, ResumeLosesNothing
<1> QED BY <1>2, <1>4, <1>5, <1>6, <1>7, <1>8 DEF IInv

(* The inductive invariant holds in every reachable state.                  *)
THEOREM SubscriptionsInductive == Spec => []IInv
<1>1. IInv /\ [Next]_vars => IInv' BY NextKeeps, StutterKeeps
<1> QED BY InitHolds, <1>1, PTL DEF Spec

(* The dispatcher, the tools and the registry keep their types, and no      *)
(* queue of StreamRegistry exceeds its maxsize.                             *)
THEOREM SubscriptionType == Spec => []TypeOK
<1>1. IInv => TypeOK BY DEF IInv, Base
<1> QED BY SubscriptionsInductive, <1>1, PTL

(* However fire, the tools, streaming calls, failed writes, rewinds and     *)
(* restarts interleave: a row is recorded as delivered to a subscription    *)
(* once, a revoked subscription is served at most once more, and a stream   *)
(* that resumes from since_seq has received, queued or overflowed all that  *)
(* was delivered since.                                                     *)
THEOREM SubscriptionsAlwaysStand == Spec => []SubscriptionsStand
<1>1. IInv => SubscriptionsStand
  <2> SUFFICES ASSUME IInv PROVE SubscriptionsStand OBVIOUS
  <2>1. stray \in [Subs -> Nat] BY BaseHas DEF IInv, Parts, CountType
  <2>2. RevokeTakesEffect BY <2>1 DEF IInv, StrayOnce, RevokeTakesEffect
  <2> QED BY <2>2 DEF IInv, SubscriptionsStand
<1> QED BY SubscriptionsInductive, <1>1, PTL

-----------------------------------------------------------------------------
(***************************************************************************)
(* The gateway: what an agent may do ends with its revocation, and the      *)
(* ledger tells how each of its calls ended.                                *)
(***************************************************************************)
PlanSteps == {"token", "audit", "credential", "correction", "outcome", "gap", "consumed", "backend"}

GatewayRow ==
  [kind : {"registered"}, agent : Agents]
  \cup [kind : {"grant"}, agent : Agents, grant : Granted, status : {"active", "revoked"}]
  \cup [kind : (PlanSteps \ Silent) \cup {"denied"}, agent : Agents, call : CallIds]

Unstarted == [pc |-> "idle"]

Revocation ==
  [pc : {"write", "done", "failed"}, agent : Agents, todo : SUBSET Nat, at : Nat, end : Nat]

ToolCall ==
  [pc : {"access", "cost", "deny", "work", "answered", "refused", "failed"},
   agent : Agents, tool : ToolSet, start : Nat, step : Nat]

GatewayType ==
  /\ grantRows \in Seq(GatewayRow)
  /\ reg \in [Agents -> Seq(Granted)]
  /\ revoke \in [RevokeIds -> {Unstarted} \cup Revocation]
  /\ call \in [CallIds -> {Unstarted} \cup ToolCall]
  /\ projected \in Nat
  /\ gatewayFaults \in 0 .. MaxGatewayFaults

(* A revocation knows every grant that was active when it scanned: it has   *)
(* still to revoke it, or a newer row of the same grant follows it.         *)
Revokes(rows, q) ==
  q.pc \in {"write", "done"} =>
    /\ q.at <= q.end /\ q.end <= Len(rows)
    /\ q.todo \subseteq Rows(rows, "grant", q.agent)
    /\ q.pc = "done" => q.todo = {}
    /\ \A i \in Rows(rows, "grant", q.agent) :
         i <= q.at /\ rows[i].status = "active" /\ i \notin q.todo =>
           \E j \in Rows(rows, "grant", q.agent) :
             i < j /\ j <= q.end /\ SameGrant(rows[i], rows[j])

(* A call past the access gate was let through by a grant nothing had       *)
(* revoked when it started.                                                 *)
LetThrough(rows, p) ==
  /\ p.pc \in {"access", "cost", "work", "answered"} => p.start <= Len(rows)
  /\ p.pc \in {"cost", "work", "answered"} =>
       \E i \in Rows(rows, "grant", p.agent) :
         /\ rows[i].status = "active"
         /\ \A j \in Rows(rows, "grant", p.agent) :
              SameGrant(rows[i], rows[j]) => j <= i \/ p.start < j

TrailOf(rows, c) ==
  {i \in 1 .. Len(rows) : rows[i].kind \notin {"registered", "grant"} /\ rows[i].call = c}

Tells(rows, c, kinds) ==
  /\ {rows[i].kind : i \in TrailOf(rows, c)} = kinds
  /\ \A i, j \in TrailOf(rows, c) : rows[i].kind = rows[j].kind => i = j

(* The cycles of a plan before one of its steps.                            *)
Before(tool, step) == {Plan(tool)[k] : k \in 1 .. (step - 1)} \ Silent

(* A call has left the cycles of the steps it has taken, each once.         *)
Leaves(rows, c, p) ==
  /\ p.pc \in {"idle", "access", "cost", "deny"} => TrailOf(rows, c) = {}
  /\ p.pc \in {"access", "cost"} => p.step = 1
  /\ p.pc = "work" => p.step \in 1 .. Len(Plan(p.tool))
  /\ p.pc = "answered" => p.step = Len(Plan(p.tool)) + 1
  /\ p.pc \in {"work", "answered"} => Tells(rows, c, Before(p.tool, p.step))
  /\ p.pc = "refused" => Tells(rows, c, {"denied"})

GatewayInv ==
  /\ GatewayType
  /\ \A r \in RevokeIds : Revokes(grantRows, revoke[r])
  /\ \A c \in CallIds : LetThrough(grantRows, call[c]) /\ Leaves(grantRows, c, call[c])

-----------------------------------------------------------------------------
(* What a plan is: distinct steps, none of which a registration writes.     *)
PlanIs(plan) ==
  /\ Len(plan) \in 1 .. 3
  /\ \A k \in 1 .. Len(plan) : plan[k] \in PlanSteps
  /\ \A k, l \in 1 .. Len(plan) : plan[k] = plan[l] => k = l

LEMMA PlansAre == ASSUME NEW tool \in ToolSet PROVE PlanIs(Plan(tool))
<1>1. \/ Plan(tool) = lake_query \/ Plan(tool) = suggest_correction
      \/ Plan(tool) = record_outcome \/ Plan(tool) = semantic_gap
      \/ Plan(tool) = consume \/ Plan(tool) = <<"backend", "audit">>
  BY ToolsAssumption, Zenon
  DEF Plan, Tools, LakeReads, SemanticReads, DecisionTools, ProcessTools, ProductReads
<1>2. PlanIs(lake_query) BY DEF PlanIs, lake_query, PlanSteps
<1>3. PlanIs(suggest_correction) BY DEF PlanIs, suggest_correction, PlanSteps
<1>4. PlanIs(record_outcome) BY DEF PlanIs, record_outcome, PlanSteps
<1>5. PlanIs(semantic_gap) BY DEF PlanIs, semantic_gap, PlanSteps
<1>6. PlanIs(consume) BY DEF PlanIs, consume, PlanSteps
<1>7. PlanIs(<<"backend", "audit">>) BY DEF PlanIs, PlanSteps
<1> QED BY <1>1, <1>2, <1>3, <1>4, <1>5, <1>6, <1>7

LEMMA RowAdded ==
  ASSUME NEW rows \in Seq(GatewayRow), NEW row \in GatewayRow
  PROVE  /\ Append(rows, row) \in Seq(GatewayRow)
         /\ Len(rows) \in Nat /\ Len(Append(rows, row)) = Len(rows) + 1
         /\ \A i \in 1 .. Len(rows) : Append(rows, row)[i] = rows[i]
         /\ Append(rows, row)[Len(rows) + 1] = row
  OBVIOUS

(* The rows of an agent's grants after a row is added.                      *)
LEMMA GrantsAfter ==
  ASSUME NEW rows \in Seq(GatewayRow), NEW row \in GatewayRow, NEW a
  PROVE  LET after == Append(rows, row) IN
         /\ Rows(rows, "grant", a) \subseteq Rows(after, "grant", a)
         /\ \A i \in Rows(after, "grant", a) :
              i \in Rows(rows, "grant", a) \/ i = Len(rows) + 1
         /\ row.kind = "grant" /\ row.agent = a =>
              Len(rows) + 1 \in Rows(after, "grant", a)
         /\ \A i \in Rows(rows, "grant", a) : i \in 1 .. Len(rows) /\ after[i] = rows[i]
<1> DEFINE after == Append(rows, row)
<1>1. /\ Len(rows) \in Nat /\ Len(after) = Len(rows) + 1 /\ after[Len(rows) + 1] = row
      /\ \A i \in 1 .. Len(rows) : after[i] = rows[i]
  BY RowAdded
<1> HIDE DEF after
<1>2. \A i \in 1 .. Len(after) : i \in 1 .. Len(rows) \/ i = Len(rows) + 1 BY <1>1
<1>3. Len(rows) + 1 \in 1 .. Len(after) /\ 1 .. Len(rows) \subseteq 1 .. Len(after) BY <1>1
<1>4. /\ Rows(rows, "grant", a) \subseteq Rows(after, "grant", a)
      /\ \A i \in Rows(after, "grant", a) : i \in Rows(rows, "grant", a) \/ i = Len(rows) + 1
      /\ row.kind = "grant" /\ row.agent = a => Len(rows) + 1 \in Rows(after, "grant", a)
      /\ \A i \in Rows(rows, "grant", a) : i \in 1 .. Len(rows) /\ after[i] = rows[i]
  BY <1>1, <1>2, <1>3 DEF Rows
<1> QED BY <1>4 DEF after

LEMMA RevokesGoOn ==
  ASSUME NEW rows \in Seq(GatewayRow), NEW row \in GatewayRow,
         NEW q \in {Unstarted} \cup Revocation, Revokes(rows, q)
  PROVE  Revokes(Append(rows, row), q)
<1> DEFINE after == Append(rows, row)
<1>1. CASE q.pc \in {"write", "done"}
  <2>1. q \in Revocation BY <1>1 DEF Unstarted
  <2>2. q.at \in Nat /\ q.end \in Nat BY <2>1 DEF Revocation
  <2>3. Len(rows) \in Nat /\ Len(after) = Len(rows) + 1 BY RowAdded
  <2>4. /\ Rows(rows, "grant", q.agent) \subseteq Rows(after, "grant", q.agent)
        /\ \A i \in Rows(after, "grant", q.agent) :
             i \in Rows(rows, "grant", q.agent) \/ i = Len(rows) + 1
        /\ \A i \in Rows(rows, "grant", q.agent) : i \in 1 .. Len(rows) /\ after[i] = rows[i]
    BY GrantsAfter
  <2> HIDE DEF after
  <2>5. q.at <= q.end /\ q.end <= Len(after) /\ q.at < Len(rows) + 1
    BY <1>1, <2>2, <2>3 DEF Revokes
  <2>6. /\ q.todo \subseteq Rows(after, "grant", q.agent)
        /\ q.pc = "done" => q.todo = {}
    BY <1>1, <2>4 DEF Revokes
  <2>7. ASSUME NEW i \in Rows(after, "grant", q.agent), i <= q.at,
               after[i].status = "active", i \notin q.todo
        PROVE  \E j \in Rows(after, "grant", q.agent) :
                 i < j /\ j <= q.end /\ SameGrant(after[i], after[j])
    <3>1. i \in Rows(rows, "grant", q.agent) BY <2>2, <2>3, <2>4, <2>5, <2>7
    <3>2. PICK j \in Rows(rows, "grant", q.agent) :
            i < j /\ j <= q.end /\ SameGrant(rows[i], rows[j])
      BY <1>1, <2>4, <2>7, <3>1 DEF Revokes
    <3> QED BY <2>4, <3>1, <3>2
  <2> QED BY <2>5, <2>6, <2>7 DEF after, Revokes
<1>2. CASE q.pc \notin {"write", "done"} BY <1>2 DEF Revokes
<1> QED BY <1>1, <1>2

LEMMA LetThroughGoesOn ==
  ASSUME NEW rows \in Seq(GatewayRow), NEW row \in GatewayRow,
         NEW p \in {Unstarted} \cup ToolCall, LetThrough(rows, p)
  PROVE  LetThrough(Append(rows, row), p)
<1> DEFINE after == Append(rows, row)
<1>1. Len(rows) \in Nat /\ Len(after) = Len(rows) + 1 BY RowAdded
<1>2. /\ Rows(rows, "grant", p.agent) \subseteq Rows(after, "grant", p.agent)
      /\ \A i \in Rows(after, "grant", p.agent) :
           i \in Rows(rows, "grant", p.agent) \/ i = Len(rows) + 1
      /\ \A i \in Rows(rows, "grant", p.agent) : i \in 1 .. Len(rows) /\ after[i] = rows[i]
  BY GrantsAfter
<1> HIDE DEF after
<1>3. ASSUME p.pc \in {"access", "cost", "work", "answered"}
      PROVE  p.start <= Len(after) /\ p.start < Len(rows) + 1
  <2>1. p.start \in Nat BY <1>3 DEF ToolCall, Unstarted
  <2> QED BY <1>1, <1>3, <2>1 DEF LetThrough
<1>4. ASSUME p.pc \in {"cost", "work", "answered"}
      PROVE  \E i \in Rows(after, "grant", p.agent) :
               /\ after[i].status = "active"
               /\ \A j \in Rows(after, "grant", p.agent) :
                    SameGrant(after[i], after[j]) => j <= i \/ p.start < j
  <2>1. PICK i \in Rows(rows, "grant", p.agent) :
          /\ rows[i].status = "active"
          /\ \A j \in Rows(rows, "grant", p.agent) :
               SameGrant(rows[i], rows[j]) => j <= i \/ p.start < j
    BY <1>4 DEF LetThrough
  <2>2. i \in Rows(after, "grant", p.agent) /\ after[i].status = "active" BY <1>2, <2>1
  <2>3. \A j \in Rows(after, "grant", p.agent) :
          SameGrant(after[i], after[j]) => j <= i \/ p.start < j
    BY <1>2, <1>3, <1>4, <2>1
  <2> QED BY <2>2, <2>3
<1> QED BY <1>3, <1>4 DEF after, LetThrough

(* A row of anyone else leaves a call's trail as it is, a row of its own is *)
(* added to it.                                                             *)
LEMMA TrailAfter ==
  ASSUME NEW rows \in Seq(GatewayRow), NEW row \in GatewayRow, NEW c \in CallIds
  PROVE  LET own == IF row.kind \notin {"registered", "grant"} /\ row.call = c
                    THEN {Len(rows) + 1} ELSE {}
         IN /\ TrailOf(Append(rows, row), c) = TrailOf(rows, c) \cup own
            /\ Append(rows, row)[Len(rows) + 1] = row
            /\ \A i \in TrailOf(rows, c) : Append(rows, row)[i] = rows[i]
<1> DEFINE after == Append(rows, row)
           own == row.kind \notin {"registered", "grant"} /\ row.call = c
<1>1. /\ Len(rows) \in Nat /\ Len(after) = Len(rows) + 1 /\ after[Len(rows) + 1] = row
      /\ \A i \in 1 .. Len(rows) : after[i] = rows[i]
  BY RowAdded
<1> HIDE DEF after
<1>2. 1 .. Len(after) = (1 .. Len(rows)) \cup {Len(rows) + 1} BY <1>1
<1>3. \A i : i \in TrailOf(after, c) <=>
               i \in TrailOf(rows, c) \/ (i = Len(rows) + 1 /\ own)
  BY <1>1, <1>2 DEF TrailOf
<1>4. TrailOf(after, c) = TrailOf(rows, c) \cup (IF own THEN {Len(rows) + 1} ELSE {})
  <2>1. CASE own BY <1>3, <2>1
  <2>2. CASE ~own BY <1>3, <2>2
  <2> QED BY <2>1, <2>2
<1>5. \A i \in TrailOf(rows, c) : after[i] = rows[i] BY <1>1 DEF TrailOf
<1> QED BY <1>1, <1>4, <1>5 DEF after

LEMMA OtherTrail ==
  ASSUME NEW rows \in Seq(GatewayRow), NEW row \in GatewayRow, NEW c \in CallIds,
         row.kind \in {"registered", "grant"} \/ row.call # c
  PROVE  /\ TrailOf(Append(rows, row), c) = TrailOf(rows, c)
         /\ \A i \in TrailOf(rows, c) : Append(rows, row)[i] = rows[i]
<1> DEFINE own == IF row.kind \notin {"registered", "grant"} /\ row.call = c
                  THEN {Len(rows) + 1} ELSE {}
<1>1. own = {} OBVIOUS
<1> HIDE DEF own
<1>2. TrailOf(Append(rows, row), c) = TrailOf(rows, c) \cup own BY TrailAfter DEF own
<1>3. \A i \in TrailOf(rows, c) : Append(rows, row)[i] = rows[i]
  BY RowAdded DEF TrailOf
<1> QED BY <1>1, <1>2, <1>3

LEMMA LeavesGoesOn ==
  ASSUME NEW rows \in Seq(GatewayRow), NEW row \in GatewayRow, NEW c \in CallIds, NEW p, Leaves(rows, c, p),
         row.kind \in {"registered", "grant"} \/ row.call # c
  PROVE  Leaves(Append(rows, row), c, p)
<1> DEFINE after == Append(rows, row)
<1>1. TrailOf(after, c) = TrailOf(rows, c) /\ \A i \in TrailOf(rows, c) : after[i] = rows[i]
  BY OtherTrail
<1> HIDE DEF after
<1>2. \A kinds : Tells(rows, c, kinds) => Tells(after, c, kinds) BY <1>1 DEF Tells
<1> QED BY <1>1, <1>2 DEF after, Leaves

(* A call writes a cycle it has not written before.                         *)
LEMMA TellsMore ==
  ASSUME NEW rows \in Seq(GatewayRow), NEW row \in GatewayRow, NEW c \in CallIds, NEW kinds,
         row.kind \notin {"registered", "grant"}, row.call = c,
         Tells(rows, c, kinds), row.kind \notin kinds
  PROVE  Tells(Append(rows, row), c, kinds \cup {row.kind})
<1> DEFINE after == Append(rows, row)
<1>1. /\ TrailOf(after, c) = TrailOf(rows, c) \cup {Len(rows) + 1}
      /\ after[Len(rows) + 1] = row
      /\ \A i \in TrailOf(rows, c) : after[i] = rows[i]
  BY TrailAfter
<1> HIDE DEF after
<1>2. \A i \in TrailOf(rows, c) : rows[i].kind \in kinds /\ rows[i].kind # row.kind BY DEF Tells
<1>3. {after[i].kind : i \in TrailOf(after, c)} = kinds \cup {row.kind}
  BY <1>1 DEF Tells
<1>4. \A i, j \in TrailOf(after, c) : after[i].kind = after[j].kind => i = j
  BY <1>1, <1>2 DEF Tells
<1> QED BY <1>3, <1>4 DEF after, Tells

-----------------------------------------------------------------------------
LEMMA GatewayCommits ==
  ASSUME GatewayInv, NEW row \in GatewayRow, CommitRow(row)
  PROVE  /\ grantRows' \in Seq(GatewayRow)
         /\ \A r \in RevokeIds : Revokes(grantRows', revoke[r])
         /\ \A c \in CallIds : LetThrough(grantRows', call[c])
         /\ \A c \in CallIds :
              row.kind \in {"registered", "grant"} \/ row.call # c => Leaves(grantRows', c, call[c])
<1>1. grantRows \in Seq(GatewayRow) /\ grantRows' = Append(grantRows, row)
  BY DEF GatewayInv, GatewayType, CommitRow
<1>2. grantRows' \in Seq(GatewayRow) BY <1>1, RowAdded
<1>3. ASSUME NEW r \in RevokeIds PROVE Revokes(grantRows', revoke[r])
  <2>1. revoke[r] \in {Unstarted} \cup Revocation /\ Revokes(grantRows, revoke[r])
    BY DEF GatewayInv, GatewayType
  <2> QED BY <1>1, <2>1, RevokesGoOn
<1>4. ASSUME NEW c \in CallIds PROVE LetThrough(grantRows', call[c])
  <2>1. call[c] \in {Unstarted} \cup ToolCall /\ LetThrough(grantRows, call[c])
    BY DEF GatewayInv, GatewayType
  <2> QED BY <1>1, <2>1, LetThroughGoesOn
<1>5. ASSUME NEW c \in CallIds, row.kind \in {"registered", "grant"} \/ row.call # c
      PROVE  Leaves(grantRows', c, call[c])
  <2>1. Leaves(grantRows, c, call[c]) BY DEF GatewayInv
  <2> QED BY <1>1, <1>5, <2>1, LeavesGoesOn
<1> QED BY <1>2, <1>3, <1>4, <1>5

(* A step of one revocation, which writes at most a grant's row.            *)
LEMMA RevocationStep ==
  ASSUME GatewayInv, NEW r \in RevokeIds, NEW q \in Revocation,
         revoke' = [revoke EXCEPT ![r] = q], Revokes(grantRows', q),
         UNCHANGED <<reg, call, projected>>, gatewayFaults' \in 0 .. MaxGatewayFaults,
         UNCHANGED grantRows \/ \E row \in GatewayRow : row.kind = "grant" /\ CommitRow(row)
  PROVE  GatewayInv'
<1>1. /\ grantRows' \in Seq(GatewayRow)
      /\ \A u \in RevokeIds : Revokes(grantRows', revoke[u])
      /\ \A c \in CallIds : LetThrough(grantRows', call[c]) /\ Leaves(grantRows', c, call[c])
  <2>1. CASE UNCHANGED grantRows BY <2>1 DEF GatewayInv, GatewayType
  <2>2. CASE \E row \in GatewayRow : row.kind = "grant" /\ CommitRow(row)
    BY <2>2, GatewayCommits
  <2> QED BY <2>1, <2>2
<1>2. revoke \in [RevokeIds -> {Unstarted} \cup Revocation] BY DEF GatewayInv, GatewayType
<1>3. revoke' \in [RevokeIds -> {Unstarted} \cup Revocation] BY <1>2
<1>4. GatewayType' BY <1>1, <1>3 DEF GatewayInv, GatewayType
<1>5. \A u \in RevokeIds : Revokes(grantRows', revoke'[u])
  <2> TAKE u \in RevokeIds
  <2>1. CASE u = r BY <1>2, <2>1
  <2>2. CASE u # r BY <1>1, <1>2, <2>2
  <2> QED BY <2>1, <2>2
<1>6. call' = call OBVIOUS
<1> QED BY <1>1, <1>4, <1>5, <1>6 DEF GatewayInv

(* A step of one call, which writes at most a cycle of its own.             *)
LEMMA ToolCallStep ==
  ASSUME GatewayInv, NEW c \in CallIds, NEW p \in ToolCall,
         call' = [call EXCEPT ![c] = p], LetThrough(grantRows', p), Leaves(grantRows', c, p),
         UNCHANGED <<reg, revoke, projected>>, gatewayFaults' \in 0 .. MaxGatewayFaults,
         UNCHANGED grantRows \/ \E row \in GatewayRow : row.call = c /\ CommitRow(row)
  PROVE  GatewayInv'
<1>1. /\ grantRows' \in Seq(GatewayRow)
      /\ \A r \in RevokeIds : Revokes(grantRows', revoke[r])
      /\ \A u \in CallIds : LetThrough(grantRows', call[u])
      /\ \A u \in CallIds : u # c => Leaves(grantRows', u, call[u])
  <2>1. CASE UNCHANGED grantRows BY <2>1 DEF GatewayInv, GatewayType
  <2>2. CASE \E row \in GatewayRow : row.call = c /\ CommitRow(row)
    BY <2>2, GatewayCommits
  <2> QED BY <2>1, <2>2
<1>2. call \in [CallIds -> {Unstarted} \cup ToolCall] BY DEF GatewayInv, GatewayType
<1>3. call' \in [CallIds -> {Unstarted} \cup ToolCall] BY <1>2
<1>4. GatewayType' BY <1>1, <1>3 DEF GatewayInv, GatewayType
<1>5. \A u \in CallIds : LetThrough(grantRows', call'[u]) /\ Leaves(grantRows', u, call'[u])
  <2> TAKE u \in CallIds
  <2>1. CASE u = c BY <1>2, <2>1
  <2>2. CASE u # c BY <1>1, <1>2, <2>2
  <2> QED BY <2>1, <2>2
<1>6. revoke' = revoke OBVIOUS
<1> QED BY <1>1, <1>4, <1>5, <1>6 DEF GatewayInv

(* A step of a registration.                                                *)
LEMMA RegistrationStep ==
  ASSUME GatewayInv, reg' \in [Agents -> Seq(Granted)], UNCHANGED <<revoke, call, projected>>,
         gatewayFaults' \in 0 .. MaxGatewayFaults,
         \/ UNCHANGED grantRows
         \/ \E row \in GatewayRow : row.kind \in {"registered", "grant"} /\ CommitRow(row)
  PROVE  GatewayInv'
<1>1. /\ grantRows' \in Seq(GatewayRow)
      /\ \A r \in RevokeIds : Revokes(grantRows', revoke[r])
      /\ \A u \in CallIds : LetThrough(grantRows', call[u]) /\ Leaves(grantRows', u, call[u])
  <2>1. CASE UNCHANGED grantRows BY <2>1 DEF GatewayInv, GatewayType
  <2>2. CASE \E row \in GatewayRow : row.kind \in {"registered", "grant"} /\ CommitRow(row)
    BY <2>2, GatewayCommits
  <2> QED BY <2>1, <2>2
<1>2. GatewayType' BY <1>1 DEF GatewayInv, GatewayType
<1>3. revoke' = revoke /\ call' = call OBVIOUS
<1> QED BY <1>1, <1>2, <1>3 DEF GatewayInv

LEMMA GatewayFaultCounted ==
  ASSUME GatewayInv PROVE Fault => gatewayFaults' \in 0 .. MaxGatewayFaults
BY BoundAssumption DEF GatewayInv, GatewayType, Fault

-----------------------------------------------------------------------------
LEMMA RegisterKeeps ==
  ASSUME GatewayInv, NEW a \in Agents,
         (\E request \in Requests : register_agent(a, request)) \/ RegisterGrant(a) \/ RegisterFails(a)
  PROVE  GatewayInv'
<1>0. reg \in [Agents -> Seq(Granted)] /\ gatewayFaults \in 0 .. MaxGatewayFaults
  BY DEF GatewayInv, GatewayType
<1>1. ASSUME NEW request \in Requests, register_agent(a, request) PROVE GatewayInv'
  <2> DEFINE row == [kind |-> "registered", agent |-> a]
  <2>1. row \in GatewayRow /\ row.kind = "registered" BY DEF GatewayRow
  <2>2. CommitRow(row) BY <1>1 DEF register_agent
  <2> HIDE DEF row
  <2>3. request \in Seq(Granted) BY RequestsAssumption
  <2>4. reg' \in [Agents -> Seq(Granted)] BY <1>0, <1>1, <2>3 DEF register_agent
  <2>5. UNCHANGED <<revoke, call, projected>> /\ gatewayFaults' = gatewayFaults
    BY <1>1 DEF register_agent
  <2> QED BY <1>0, <2>1, <2>2, <2>4, <2>5, RegistrationStep
<1>2. CASE RegisterGrant(a)
  <2>1. reg[a] \in Seq(Granted) /\ reg[a] # <<>> BY <1>0, <1>2 DEF RegisterGrant
  <2>2. Head(reg[a]) \in Granted /\ Tail(reg[a]) \in Seq(Granted) BY <2>1, HeadTailProperties
  <2> DEFINE row == GrantRow(a, Head(reg[a]), "active")
  <2>3. row \in GatewayRow /\ row.kind = "grant" BY <2>2 DEF GatewayRow, GrantRow
  <2>4. CommitRow(row) BY <1>2 DEF RegisterGrant
  <2> HIDE DEF row
  <2>5. reg' = [reg EXCEPT ![a] = Tail(reg[a])] BY <1>2 DEF RegisterGrant
  <2>6. reg' \in [Agents -> Seq(Granted)] BY <1>0, <2>2, <2>5
  <2>7. UNCHANGED <<revoke, call, projected>> /\ gatewayFaults' = gatewayFaults
    BY <1>2 DEF RegisterGrant
  <2> QED BY <1>0, <2>3, <2>4, <2>6, <2>7, RegistrationStep
<1>3. CASE RegisterFails(a)
  <2>1. <<>> \in Seq(Granted) BY EmptySeq
  <2>2. reg' \in [Agents -> Seq(Granted)] BY <1>0, <1>3, <2>1 DEF RegisterFails
  <2>3. UNCHANGED <<grantRows, revoke, call, projected>> /\ gatewayFaults' \in 0 .. MaxGatewayFaults
    BY <1>3, GatewayFaultCounted DEF RegisterFails
  <2> QED BY <2>2, <2>3, RegistrationStep
<1> QED BY <1>1, <1>2, <1>3

(* Whatever an agent may do when revoke_agent scans is found.               *)
LEMMA RevokeScanKeeps ==
  ASSUME GatewayInv, NEW r \in RevokeIds, NEW a \in Agents, RevokeScan(r, a) PROVE GatewayInv'
<1>0. grantRows \in Seq(GatewayRow) /\ gatewayFaults \in 0 .. MaxGatewayFaults
  BY DEF GatewayInv, GatewayType
<1> DEFINE found == ActiveGrants(grantRows, a)
<1> DEFINE step == IF found = {} THEN "done" ELSE "write"
<1> DEFINE q == [pc |-> step, agent |-> a, todo |-> found,
                 at |-> Len(grantRows), end |-> Len(grantRows)]
<1>1. revoke' = [revoke EXCEPT ![r] = q] BY DEF RevokeScan
<1>2. UNCHANGED <<grantRows, reg, call, projected, gatewayFaults>> BY DEF RevokeScan
<1>3. Len(grantRows) \in Nat BY <1>0
<1>4. /\ found \subseteq Rows(grantRows, "grant", a)
      /\ \A i \in Rows(grantRows, "grant", a) : i \in 1 .. Len(grantRows)
  BY DEF ActiveGrants, Rows
<1>5. \A i \in Rows(grantRows, "grant", a) :
        grantRows[i].status = "active" /\ i \notin found =>
          \E j \in Rows(grantRows, "grant", a) :
            i < j /\ j <= Len(grantRows) /\ SameGrant(grantRows[i], grantRows[j])
  <2> SUFFICES ASSUME NEW i \in Rows(grantRows, "grant", a),
                      grantRows[i].status = "active", i \notin found
               PROVE  \E j \in Rows(grantRows, "grant", a) :
                        i < j /\ j <= Len(grantRows) /\ SameGrant(grantRows[i], grantRows[j])
    OBVIOUS
  <2>1. PICK j \in Rows(grantRows, "grant", a) : SameGrant(grantRows[i], grantRows[j]) /\ ~(j <= i)
    BY DEF ActiveGrants
  <2>2. i < j /\ j <= Len(grantRows) BY <1>3, <1>4, <2>1
  <2> QED BY <2>1, <2>2
<1>6. step \in {"write", "done"} /\ (step = "done" => found = {}) OBVIOUS
<1>7. found \in SUBSET Nat BY <1>3, <1>4
<1> HIDE DEF found, step
<1>8. q \in Revocation BY <1>3, <1>6, <1>7 DEF Revocation
<1>9. /\ q.pc = step /\ q.agent = a /\ q.todo = found
      /\ q.at = Len(grantRows) /\ q.end = Len(grantRows)
  OBVIOUS
<1> HIDE DEF q
<1>10. Revokes(grantRows, q) BY <1>3, <1>4, <1>5, <1>6, <1>9 DEF Revokes
<1> QED BY <1>0, <1>1, <1>2, <1>8, <1>10, RevocationStep

LEMMA RevokeGrantKeeps ==
  ASSUME GatewayInv, NEW r \in RevokeIds, RevokeGrant(r) PROVE GatewayInv'
<1>0. /\ grantRows \in Seq(GatewayRow) /\ gatewayFaults \in 0 .. MaxGatewayFaults
      /\ revoke[r] \in {Unstarted} \cup Revocation /\ Revokes(grantRows, revoke[r])
  BY DEF GatewayInv, GatewayType
<1>1. revoke[r].pc = "write" BY DEF RevokeGrant
<1>2. revoke[r] \in Revocation BY <1>0, <1>1 DEF Unstarted
<1> DEFINE o == revoke[r]
<1>3. /\ o.agent \in Agents /\ o.todo \in SUBSET Nat /\ o.at \in Nat /\ o.end \in Nat
  BY <1>2 DEF Revocation
<1>4. PICK i \in o.todo :
        /\ CommitRow(GrantRow(o.agent, grantRows[i].grant, "revoked"))
        /\ revoke' = [revoke EXCEPT ![r] =
             [o EXCEPT !.todo = o.todo \ {i},
                       !.pc = IF o.todo \ {i} = {} THEN "done" ELSE "write",
                       !.end = Len(grantRows) + 1]]
  BY DEF RevokeGrant
<1>5. UNCHANGED <<reg, call, projected, gatewayFaults>> BY DEF RevokeGrant
<1> DEFINE rest == o.todo \ {i}
<1> DEFINE step == IF rest = {} THEN "done" ELSE "write"
<1> DEFINE q == [o EXCEPT !.todo = rest, !.pc = step, !.end = Len(grantRows) + 1]
<1> DEFINE row == GrantRow(o.agent, grantRows[i].grant, "revoked")
<1>6. revoke' = [revoke EXCEPT ![r] = q] /\ CommitRow(row) BY <1>4
<1>7. /\ o.at <= o.end /\ o.end <= Len(grantRows)
      /\ o.todo \subseteq Rows(grantRows, "grant", o.agent)
      /\ \A k \in Rows(grantRows, "grant", o.agent) :
           k <= o.at /\ grantRows[k].status = "active" /\ k \notin o.todo =>
             \E j \in Rows(grantRows, "grant", o.agent) :
               k < j /\ j <= o.end /\ SameGrant(grantRows[k], grantRows[j])
  BY <1>0, <1>1, Zenon DEF Revokes
<1>8. i \in Rows(grantRows, "grant", o.agent) BY <1>7
<1>9. i \in 1 .. Len(grantRows) /\ grantRows[i].kind = "grant" /\ grantRows[i].agent = o.agent
  BY <1>8 DEF Rows
<1>10. grantRows[i].grant \in Granted
  <2>1. grantRows[i] \in GatewayRow BY <1>0, <1>9
  <2> QED BY <1>9, <2>1 DEF GatewayRow, PlanSteps
<1>11. row \in GatewayRow BY <1>3, <1>10 DEF GatewayRow, GrantRow
<1>12. row.kind = "grant" /\ row.agent = o.agent /\ row.grant = grantRows[i].grant
  BY DEF GrantRow
<1>13. rest \in SUBSET Nat /\ rest \subseteq o.todo /\ step \in {"write", "done"}
       /\ (step = "done" => rest = {}) /\ i \notin rest /\ \A k \in o.todo : k \in rest \/ k = i
  BY <1>3
<1>14. Len(grantRows) \in Nat BY <1>0
<1> DEFINE last == Len(grantRows) + 1
<1> HIDE DEF row, rest, step
<1>15. q \in Revocation
  <2>1. o \in Revocation /\ last \in Nat BY <1>2, <1>14
  <2> HIDE DEF o, last
  <2>2. [o EXCEPT !.todo = rest, !.pc = step, !.end = last] \in Revocation
    BY <1>13, <2>1 DEF Revocation
  <2> QED BY <2>2 DEF last
<1>16. /\ q.pc = step /\ q.agent = o.agent /\ q.todo = rest
       /\ q.at = o.at /\ q.end = Len(grantRows) + 1
  BY <1>2 DEF Revocation
<1> HIDE DEF q, o
<1>17. grantRows' = Append(grantRows, row) BY <1>6 DEF CommitRow
<1>18. /\ Len(grantRows') = Len(grantRows) + 1 /\ grantRows'[Len(grantRows) + 1] = row
  BY <1>0, <1>11, <1>17, RowAdded
<1>19. /\ Rows(grantRows, "grant", o.agent) \subseteq Rows(grantRows', "grant", o.agent)
       /\ \A k \in Rows(grantRows', "grant", o.agent) :
            k \in Rows(grantRows, "grant", o.agent) \/ k = Len(grantRows) + 1
       /\ Len(grantRows) + 1 \in Rows(grantRows', "grant", o.agent)
       /\ \A k \in Rows(grantRows, "grant", o.agent) :
            k \in 1 .. Len(grantRows) /\ grantRows'[k] = grantRows[k]
  BY <1>0, <1>11, <1>12, <1>17, GrantsAfter
<1>20. SameGrant(grantRows'[i], row) BY <1>8, <1>9, <1>12, <1>19 DEF SameGrant
<1>21. ASSUME NEW k \in Rows(grantRows', "grant", o.agent), k <= o.at,
              grantRows'[k].status = "active", k \notin rest
       PROVE  \E j \in Rows(grantRows', "grant", o.agent) :
                k < j /\ j <= q.end /\ SameGrant(grantRows'[k], grantRows'[j])
  <2>1. k \in Rows(grantRows, "grant", o.agent) BY <1>3, <1>7, <1>14, <1>19, <1>21
  <2>2. CASE k = i BY <1>9, <1>14, <1>16, <1>18, <1>19, <1>20, <2>2
  <2>3. CASE k # i
    <3>1. k \notin o.todo /\ grantRows[k].status = "active"
      BY <1>13, <1>19, <1>21, <2>1, <2>3
    <3>2. PICK j \in Rows(grantRows, "grant", o.agent) :
            k < j /\ j <= o.end /\ SameGrant(grantRows[k], grantRows[j])
      BY <1>7, <1>21, <2>1, <3>1
    <3>3. j <= q.end BY <1>14, <1>16, <1>19, <3>2
    <3> QED BY <1>19, <2>1, <3>2, <3>3
  <2> QED BY <2>2, <2>3
<1>22. Revokes(grantRows', q)
  <2>1. q.at <= q.end /\ q.end <= Len(grantRows') BY <1>3, <1>7, <1>14, <1>16, <1>18
  <2>2. q.todo \subseteq Rows(grantRows', "grant", q.agent) /\ (q.pc = "done" => q.todo = {})
    BY <1>7, <1>13, <1>16, <1>19
  <2> QED BY <1>16, <1>21, <2>1, <2>2 DEF Revokes
<1> QED BY <1>0, <1>5, <1>6, <1>11, <1>12, <1>15, <1>22, RevocationStep

LEMMA RevokeFailsKeeps ==
  ASSUME GatewayInv, NEW r \in RevokeIds, RevokeFails(r) PROVE GatewayInv'
<1>1. revoke[r] \in {Unstarted} \cup Revocation /\ revoke[r].pc = "write"
  BY DEF GatewayInv, GatewayType, RevokeFails
<1>2. revoke[r] \in Revocation BY <1>1 DEF Unstarted
<1> DEFINE q == [revoke[r] EXCEPT !.pc = "failed"]
<1>3. q \in Revocation /\ q.pc = "failed" BY <1>2 DEF Revocation
<1>4. revoke' = [revoke EXCEPT ![r] = q] BY DEF RevokeFails
<1> HIDE DEF q
<1>5. Revokes(grantRows', q) BY <1>3 DEF Revokes
<1>6. UNCHANGED <<grantRows, reg, call, projected>> /\ gatewayFaults' \in 0 .. MaxGatewayFaults
  BY GatewayFaultCounted DEF RevokeFails
<1> QED BY <1>3, <1>4, <1>5, <1>6, RevocationStep

-----------------------------------------------------------------------------
LEMMA CallStartKeeps ==
  ASSUME GatewayInv, NEW c \in CallIds, NEW a \in Agents, NEW tool \in ToolSet,
         CallStart(c, a, tool)
  PROVE  GatewayInv'
<1>0. /\ grantRows \in Seq(GatewayRow) /\ gatewayFaults \in 0 .. MaxGatewayFaults
      /\ Leaves(grantRows, c, call[c]) /\ call[c].pc = "idle"
  BY DEF GatewayInv, GatewayType, CallStart
<1> DEFINE p == [pc |-> "access", agent |-> a, tool |-> tool, start |-> Len(grantRows), step |-> 1]
<1>1. call' = [call EXCEPT ![c] = p] /\ UNCHANGED <<grantRows, reg, revoke, projected, gatewayFaults>>
  BY DEF CallStart
<1>2. Len(grantRows) \in Nat BY <1>0
<1>3. p \in ToolCall /\ p.pc = "access" /\ p.step = 1 /\ p.start = Len(grantRows)
  BY <1>2 DEF ToolCall
<1> HIDE DEF p
<1>4. LetThrough(grantRows', p) BY <1>1, <1>2, <1>3 DEF LetThrough
<1>5. Leaves(grantRows', c, p) BY <1>0, <1>1, <1>3 DEF Leaves
<1> QED BY <1>0, <1>1, <1>3, <1>4, <1>5, ToolCallStep

(* What a call at a step is.                                                *)
LEMMA CallAt ==
  ASSUME GatewayInv, NEW c \in CallIds, call[c].pc # "idle"
  PROVE  /\ call[c] \in ToolCall
         /\ grantRows \in Seq(GatewayRow) /\ gatewayFaults \in 0 .. MaxGatewayFaults
         /\ LetThrough(grantRows, call[c]) /\ Leaves(grantRows, c, call[c])
BY DEF GatewayInv, GatewayType, Unstarted

LEMMA CallGoes ==
  ASSUME NEW c \in CallIds, call[c] \in ToolCall,
         NEW next \in {"access", "cost", "deny", "work", "answered", "refused", "failed"},
         Goes(c, next)
  PROVE  \E p \in ToolCall :
           /\ call' = [call EXCEPT ![c] = p]
           /\ p.pc = next /\ p.agent = call[c].agent /\ p.tool = call[c].tool
           /\ p.start = call[c].start /\ p.step = call[c].step
<1> DEFINE p == [call[c] EXCEPT !.pc = next]
<1>1. call' = [call EXCEPT ![c] = p] BY DEF Goes
<1>2. /\ p \in ToolCall
      /\ p.pc = next /\ p.agent = call[c].agent /\ p.tool = call[c].tool
      /\ p.start = call[c].start /\ p.step = call[c].step
  BY DEF ToolCall
<1> HIDE DEF p
<1> QED BY <1>1, <1>2

(* Nothing has revoked the grant that lets a call through.                  *)
LEMMA GateAccessKeeps ==
  ASSUME GatewayInv, NEW c \in CallIds, GateAccess(c) PROVE GatewayInv'
<1>0. call[c].pc = "access" /\ UNCHANGED <<grantRows, reg, revoke, projected, gatewayFaults>>
  BY DEF GateAccess
<1>1. /\ call[c] \in ToolCall
      /\ grantRows \in Seq(GatewayRow) /\ gatewayFaults \in 0 .. MaxGatewayFaults
      /\ Leaves(grantRows, c, call[c]) /\ LetThrough(grantRows, call[c])
  BY <1>0, CallAt
<1>2. TrailOf(grantRows, c) = {} /\ call[c].step = 1 BY <1>0, <1>1 DEF Leaves
<1>3. CASE HasAccess(call[c].agent) /\ Goes(c, "cost")
  <2>1. PICK p \in ToolCall :
          /\ call' = [call EXCEPT ![c] = p]
          /\ p.pc = "cost" /\ p.agent = call[c].agent /\ p.tool = call[c].tool
          /\ p.start = call[c].start /\ p.step = call[c].step
    BY <1>1, <1>3, CallGoes
  <2>2. Leaves(grantRows', c, p) BY <1>0, <1>2, <2>1 DEF Leaves
  <2>3. PICK i \in Rows(grantRows, "grant", p.agent) :
          /\ grantRows[i].status = "active"
          /\ \A j \in Rows(grantRows, "grant", p.agent) :
               SameGrant(grantRows[i], grantRows[j]) => j <= i
    BY <1>3, <2>1 DEF HasAccess, list_active_grants, ActiveGrants
  <2>4. p.start <= Len(grantRows) BY <1>0, <1>1, <2>1 DEF LetThrough
  <2>5. LetThrough(grantRows', p) BY <1>0, <2>3, <2>4 DEF LetThrough
  <2> QED BY <1>0, <1>1, <2>1, <2>2, <2>5, ToolCallStep
<1>4. CASE Goes(c, "deny")
  <2>1. PICK p \in ToolCall :
          /\ call' = [call EXCEPT ![c] = p]
          /\ p.pc = "deny" /\ p.agent = call[c].agent /\ p.tool = call[c].tool
          /\ p.start = call[c].start /\ p.step = call[c].step
    BY <1>1, <1>4, CallGoes
  <2>2. Leaves(grantRows', c, p) BY <1>0, <1>2, <2>1 DEF Leaves
  <2>3. LetThrough(grantRows', p) BY <2>1 DEF LetThrough
  <2> QED BY <1>0, <1>1, <2>1, <2>2, <2>3, ToolCallStep
<1> QED BY <1>3, <1>4 DEF GateAccess

LEMMA GateCostKeeps ==
  ASSUME GatewayInv, NEW c \in CallIds, GateCost(c) PROVE GatewayInv'
<1>0. call[c].pc = "cost" /\ UNCHANGED <<grantRows, reg, revoke, projected, gatewayFaults>>
  BY DEF GateCost
<1>1. /\ call[c] \in ToolCall
      /\ grantRows \in Seq(GatewayRow) /\ gatewayFaults \in 0 .. MaxGatewayFaults
      /\ Leaves(grantRows, c, call[c]) /\ LetThrough(grantRows, call[c])
  BY <1>0, CallAt
<1>2. TrailOf(grantRows, c) = {} /\ call[c].step = 1 BY <1>0, <1>1 DEF Leaves
<1>3. CASE Goes(c, "work")
  <2>1. PICK p \in ToolCall :
          /\ call' = [call EXCEPT ![c] = p]
          /\ p.pc = "work" /\ p.agent = call[c].agent /\ p.tool = call[c].tool
          /\ p.start = call[c].start /\ p.step = call[c].step
    BY <1>1, <1>3, CallGoes
  <2>2. p.tool \in ToolSet BY <2>1 DEF ToolCall
  <2>3. 1 \in 1 .. Len(Plan(p.tool))
    <3>1. PlanIs(Plan(p.tool)) BY <2>2, PlansAre
    <3> QED BY <3>1 DEF PlanIs
  <2>4. Before(p.tool, 1) = {} BY DEF Before
  <2>5. Tells(grantRows, c, {}) BY <1>2 DEF Tells
  <2>6. Leaves(grantRows', c, p) BY <1>0, <1>2, <2>1, <2>3, <2>4, <2>5 DEF Leaves
  <2>7. LetThrough(grantRows', p) BY <1>0, <1>1, <2>1 DEF LetThrough
  <2> QED BY <1>0, <1>1, <2>1, <2>6, <2>7, ToolCallStep
<1>4. CASE Goes(c, "deny")
  <2>1. PICK p \in ToolCall :
          /\ call' = [call EXCEPT ![c] = p]
          /\ p.pc = "deny" /\ p.agent = call[c].agent /\ p.tool = call[c].tool
          /\ p.start = call[c].start /\ p.step = call[c].step
    BY <1>1, <1>4, CallGoes
  <2>2. Leaves(grantRows', c, p) BY <1>0, <1>2, <2>1 DEF Leaves
  <2>3. LetThrough(grantRows', p) BY <2>1 DEF LetThrough
  <2> QED BY <1>0, <1>1, <2>1, <2>2, <2>3, ToolCallStep
<1> QED BY <1>3, <1>4 DEF GateCost

LEMMA CallRowTyped ==
  ASSUME NEW c \in CallIds, call[c] \in ToolCall, NEW kind \in (PlanSteps \ Silent) \cup {"denied"}
  PROVE  /\ CallRow(c, kind) \in GatewayRow
         /\ CallRow(c, kind).kind = kind /\ CallRow(c, kind).call = c
         /\ kind \notin {"registered", "grant"}
<1>1. call[c].agent \in Agents BY DEF ToolCall
<1>2. kind \notin {"registered", "grant"} BY DEF PlanSteps
<1> QED BY <1>1, <1>2 DEF CallRow, GatewayRow

LEMMA DenyKeeps == ASSUME GatewayInv, NEW c \in CallIds, Deny(c) PROVE GatewayInv'
<1>0. /\ call[c].pc = "deny" /\ Goes(c, "refused")
      /\ UNCHANGED <<reg, revoke, projected, gatewayFaults>>
  BY DEF Deny
<1>1. /\ call[c] \in ToolCall
      /\ grantRows \in Seq(GatewayRow) /\ gatewayFaults \in 0 .. MaxGatewayFaults
      /\ Leaves(grantRows, c, call[c])
  BY <1>0, CallAt
<1> DEFINE row == CallRow(c, "denied")
<1>2. CommitRow(row) BY DEF Deny
<1>3. row \in GatewayRow /\ row.kind = "denied" /\ row.call = c
      /\ row.kind \notin {"registered", "grant"}
  BY <1>1, CallRowTyped
<1> HIDE DEF row
<1>4. PICK p \in ToolCall :
        /\ call' = [call EXCEPT ![c] = p]
        /\ p.pc = "refused" /\ p.agent = call[c].agent /\ p.tool = call[c].tool
        /\ p.start = call[c].start /\ p.step = call[c].step
  BY <1>0, <1>1, CallGoes
<1>5. Tells(grantRows, c, {}) BY <1>0, <1>1 DEF Leaves, Tells
<1>6. grantRows' = Append(grantRows, row) BY <1>2 DEF CommitRow
<1>7. Tells(grantRows', c, {} \cup {row.kind}) BY <1>1, <1>3, <1>5, <1>6, TellsMore
<1>8. {} \cup {row.kind} = {"denied"} BY <1>3
<1>9. Leaves(grantRows', c, p) BY <1>4, <1>7, <1>8 DEF Leaves
<1>10. LetThrough(grantRows', p) BY <1>4 DEF LetThrough
<1> QED BY <1>0, <1>1, <1>2, <1>3, <1>4, <1>9, <1>10, ToolCallStep

(* The cycles before the next step: one more, unless the step is silent.    *)
LEMMA BeforeNext ==
  ASSUME NEW tool \in ToolSet, NEW step \in 1 .. Len(Plan(tool))
  PROVE  LET kind == Plan(tool)[step] IN
         /\ kind \in PlanSteps
         /\ kind \notin Before(tool, step)
         /\ kind \in Silent => Before(tool, step + 1) = Before(tool, step)
         /\ kind \notin Silent => Before(tool, step + 1) = Before(tool, step) \cup {kind}
<1> DEFINE plan == Plan(tool)
<1>1. PlanIs(plan) BY PlansAre
<1> HIDE DEF plan
<1>2. Len(plan) \in Nat BY <1>1 DEF PlanIs
<1> SUFFICES ASSUME step \in 1 .. Len(plan)
             PROVE  LET kind == plan[step]
                        past == {plan[k] : k \in 1 .. (step - 1)} \ Silent
                        next == {plan[k] : k \in 1 .. ((step + 1) - 1)} \ Silent
                    IN  /\ kind \in PlanSteps
                        /\ kind \notin past
                        /\ kind \in Silent => next = past
                        /\ kind \notin Silent => next = past \cup {kind}
  BY DEF Before, plan
<1>3. plan[step] \in PlanSteps BY <1>1 DEF PlanIs
<1>4. \A k \in 1 .. (step - 1) : plan[k] # plan[step] BY <1>1, <1>2 DEF PlanIs
<1>5. 1 .. ((step + 1) - 1) = (1 .. (step - 1)) \cup {step} BY <1>2
<1>6. {plan[k] : k \in 1 .. ((step + 1) - 1)} = {plan[k] : k \in 1 .. (step - 1)} \cup {plan[step]}
  BY <1>5
<1> QED BY <1>3, <1>4, <1>6

LEMMA WorkKeeps == ASSUME GatewayInv, NEW c \in CallIds, Work(c) PROVE GatewayInv'
<1>0. call[c].pc = "work" /\ UNCHANGED <<reg, revoke, projected, gatewayFaults>> BY DEF Work
<1>1. /\ call[c] \in ToolCall
      /\ grantRows \in Seq(GatewayRow) /\ gatewayFaults \in 0 .. MaxGatewayFaults
      /\ Leaves(grantRows, c, call[c]) /\ LetThrough(grantRows, call[c])
  BY <1>0, CallAt
<1> DEFINE o == call[c]
<1> DEFINE kind == Plan(o.tool)[o.step]
<1> DEFINE pc2 == IF DoneAt(c) THEN "answered" ELSE "work"
<1> DEFINE p == [o EXCEPT !.step = o.step + 1, !.pc = pc2]
<1>2. o.tool \in ToolSet /\ o.step \in 1 .. Len(Plan(o.tool)) /\ Tells(grantRows, c, Before(o.tool, o.step))
  BY <1>0, <1>1 DEF Leaves, ToolCall
<1>3. call' = [call EXCEPT ![c] = p] BY DEF Work
<1>4. IF kind \in Silent THEN UNCHANGED grantRows ELSE CommitRow(CallRow(c, kind)) BY DEF Work
<1>5. Len(Plan(o.tool)) \in Nat BY <1>2, PlansAre DEF PlanIs
<1>6. o.step \in Nat BY <1>2, <1>5
<1>7. /\ pc2 = "answered" => o.step = Len(Plan(o.tool))
      /\ pc2 = "work" => o.step + 1 \in 1 .. Len(Plan(o.tool))
      /\ pc2 \in {"work", "answered"}
  BY <1>2, <1>5 DEF DoneAt
<1>8. /\ kind \in PlanSteps
      /\ kind \notin Before(o.tool, o.step)
      /\ kind \in Silent => Before(o.tool, o.step + 1) = Before(o.tool, o.step)
      /\ kind \notin Silent => Before(o.tool, o.step + 1) = Before(o.tool, o.step) \cup {kind}
  BY <1>2, BeforeNext
<1> DEFINE step2 == o.step + 1
<1> HIDE DEF pc2
<1>9. /\ p \in ToolCall
      /\ p.pc = pc2 /\ p.agent = o.agent /\ p.tool = o.tool
      /\ p.start = o.start /\ p.step = o.step + 1
  <2>1. step2 \in Nat BY <1>6
  <2>2. o \in ToolCall BY <1>1
  <2> HIDE DEF o, step2
  <2>3. [o EXCEPT !.step = step2, !.pc = pc2] \in ToolCall BY <1>7, <2>1, <2>2 DEF ToolCall
  <2>4. LET q == [o EXCEPT !.step = step2, !.pc = pc2] IN
        q.pc = pc2 /\ q.agent = o.agent /\ q.tool = o.tool /\ q.start = o.start /\ q.step = step2
    BY <2>2 DEF ToolCall
  <2> QED BY <2>3, <2>4 DEF step2
<1> HIDE DEF p, kind
<1>10. CASE kind \in Silent
  <2>1. UNCHANGED grantRows BY <1>4, <1>10
  <2>2. Tells(grantRows', c, Before(p.tool, p.step)) BY <1>2, <1>8, <1>9, <1>10, <2>1
  <2>3. Leaves(grantRows', c, p) BY <1>7, <1>9, <2>2 DEF Leaves
  <2>4. LetThrough(grantRows', p) BY <1>0, <1>1, <1>7, <1>9, <2>1 DEF LetThrough
  <2> QED BY <1>0, <1>1, <1>3, <1>9, <2>1, <2>3, <2>4, ToolCallStep
<1>11. CASE kind \notin Silent
  <2> DEFINE row == CallRow(c, kind)
  <2>1. CommitRow(row) BY <1>4, <1>11
  <2>2. kind \in (PlanSteps \ Silent) \cup {"denied"} BY <1>8, <1>11
  <2>3. row \in GatewayRow /\ row.kind = kind /\ row.call = c
        /\ row.kind \notin {"registered", "grant"}
    BY <1>1, <2>2, CallRowTyped
  <2> HIDE DEF row
  <2>4. grantRows' = Append(grantRows, row) BY <2>1 DEF CommitRow
  <2>5. Tells(grantRows', c, Before(o.tool, o.step) \cup {row.kind})
    BY <1>1, <1>2, <1>8, <2>3, <2>4, TellsMore
  <2>6. Tells(grantRows', c, Before(p.tool, p.step)) BY <1>8, <1>9, <1>11, <2>3, <2>5
  <2>7. Leaves(grantRows', c, p) BY <1>7, <1>9, <2>6 DEF Leaves
  <2>8. LetThrough(grantRows', o) BY <1>1, <2>3, <2>4, LetThroughGoesOn
  <2>9. LetThrough(grantRows', p) BY <1>0, <1>7, <1>9, <2>8 DEF LetThrough
  <2> QED BY <1>0, <1>1, <1>3, <1>9, <2>1, <2>3, <2>7, <2>9, ToolCallStep
<1> QED BY <1>10, <1>11

LEMMA CallFailsKeeps == ASSUME GatewayInv, NEW c \in CallIds, CallFails(c) PROVE GatewayInv'
<1>0. /\ call[c].pc \in {"deny", "work"} /\ Goes(c, "failed")
      /\ UNCHANGED <<grantRows, reg, revoke, projected>> /\ gatewayFaults' \in 0 .. MaxGatewayFaults
  BY GatewayFaultCounted DEF CallFails
<1>1. call[c] \in ToolCall BY <1>0, CallAt
<1>2. PICK p \in ToolCall :
        /\ call' = [call EXCEPT ![c] = p]
        /\ p.pc = "failed" /\ p.agent = call[c].agent /\ p.tool = call[c].tool
        /\ p.start = call[c].start /\ p.step = call[c].step
  BY <1>0, <1>1, CallGoes
<1>3. Leaves(grantRows', c, p) /\ LetThrough(grantRows', p) BY <1>2 DEF Leaves, LetThrough
<1> QED BY <1>0, <1>2, <1>3, ToolCallStep

LEMMA RebuildKeeps == ASSUME GatewayInv, Rebuild PROVE GatewayInv'
<1>1. /\ grantRows' = grantRows /\ reg' = reg /\ revoke' = revoke /\ call' = call
      /\ gatewayFaults' = gatewayFaults /\ projected' = Len(grantRows)
  BY DEF Rebuild
<1>2. projected' \in Nat BY <1>1 DEF GatewayInv, GatewayType
<1> QED BY <1>1, <1>2 DEF GatewayInv, GatewayType

LEMMA GatewayInitHolds == GatewayInit => GatewayInv
<1> SUFFICES ASSUME GatewayInit PROVE GatewayInv OBVIOUS
<1>1. grantRows \in Seq(GatewayRow) /\ <<>> \in Seq(Granted) BY EmptySeq DEF GatewayInit
<1>2. reg \in [Agents -> Seq(Granted)] BY <1>1 DEF GatewayInit
<1>3. GatewayType BY <1>1, <1>2, BoundAssumption DEF GatewayInit, GatewayType, Unstarted
<1>4. \A r \in RevokeIds : Revokes(grantRows, revoke[r]) BY DEF GatewayInit, Revokes
<1>5. \A c \in CallIds : call[c].pc = "idle" BY DEF GatewayInit
<1>6. Len(grantRows) = 0 BY DEF GatewayInit
<1>7. \A c \in CallIds : TrailOf(grantRows, c) = {} BY <1>6 DEF TrailOf
<1>8. \A c \in CallIds : LetThrough(grantRows, call[c]) BY <1>5 DEF LetThrough
<1>9. \A c \in CallIds : Leaves(grantRows, c, call[c]) BY <1>5, <1>7 DEF Leaves
<1> QED BY <1>3, <1>4, <1>8, <1>9 DEF GatewayInv

LEMMA GatewayKeeps == GatewayInv /\ [GatewayNext]_gatewayVars => GatewayInv'
<1> SUFFICES ASSUME GatewayInv, [GatewayNext]_gatewayVars PROVE GatewayInv' OBVIOUS
<1>1. CASE Admin BY <1>1, RegisterKeeps, RevokeScanKeeps, RevokeGrantKeeps, RevokeFailsKeeps DEF Admin
<1>2. CASE AgentCalls
  BY <1>2, CallStartKeeps, GateAccessKeeps, GateCostKeeps, DenyKeeps, WorkKeeps, CallFailsKeeps
  DEF AgentCalls
<1>3. CASE Rebuild BY <1>3, RebuildKeeps
<1>4. CASE UNCHANGED gatewayVars BY <1>4 DEF gatewayVars, GatewayInv, GatewayType
<1> QED BY <1>1, <1>2, <1>3, <1>4 DEF GatewayNext

(* The inductive invariant holds in every reachable state, with or without  *)
(* the fairness of the rebuild.                                             *)
THEOREM GatewayInductive == GatewaySpec => []GatewayInv
BY GatewayInitHolds, GatewayKeeps, PTL DEF GatewaySpec

(* Registrations, revocations, calls and rebuilds keep their types.         *)
THEOREM GatewayTypes == GatewaySpec => []GatewayType
<1>1. GatewayInv => GatewayType BY DEF GatewayInv
<1> QED BY GatewayInductive, <1>1, PTL

(* A call that started after a finished revocation was let through by a     *)
(* grant written since the revocation scanned the ledger.                   *)
LEMMA RevokedOut == GatewayInv => RevokedStaysOut
<1> SUFFICES ASSUME GatewayInv, NEW r \in RevokeIds, NEW c \in CallIds,
                    revoke[r].pc = "done", call[c].pc \in {"work", "answered"},
                    call[c].agent = revoke[r].agent, call[c].start >= revoke[r].end
             PROVE  \E i \in Rows(grantRows, "grant", call[c].agent) :
                      i > revoke[r].at /\ grantRows[i].status = "active"
  BY DEF RevokedStaysOut
<1>1. LetThrough(grantRows, call[c]) /\ Revokes(grantRows, revoke[r]) BY DEF GatewayInv
<1>2. call[c] \in ToolCall BY CallAt
<1>3. revoke[r] \in Revocation BY DEF GatewayInv, GatewayType, Unstarted
<1>4. call[c].start \in Nat /\ revoke[r].at \in Nat /\ revoke[r].end \in Nat
  BY <1>2, <1>3 DEF ToolCall, Revocation
<1>5. PICK i \in Rows(grantRows, "grant", call[c].agent) :
        /\ grantRows[i].status = "active"
        /\ \A j \in Rows(grantRows, "grant", call[c].agent) :
             SameGrant(grantRows[i], grantRows[j]) => j <= i \/ call[c].start < j
  BY <1>1 DEF LetThrough
<1>6. \A j \in Rows(grantRows, "grant", call[c].agent) : j \in Int BY DEF Rows
<1>7. ASSUME i <= revoke[r].at PROVE FALSE
  <2>1. \E j \in Rows(grantRows, "grant", call[c].agent) :
          i < j /\ j <= revoke[r].end /\ SameGrant(grantRows[i], grantRows[j])
    BY <1>1, <1>5, <1>7 DEF Revokes
  <2> QED BY <1>4, <1>5, <1>6, <2>1
<1> QED BY <1>4, <1>5, <1>6, <1>7

LEMMA TrailTold == GatewayInv => TrailTellsOutcome
<1> SUFFICES ASSUME GatewayInv, NEW c \in CallIds
             PROVE  /\ call[c].pc = "answered" => LeavesExactly(c, Cycles(call[c].tool))
                    /\ call[c].pc = "refused" => LeavesExactly(c, {"denied"})
  BY DEF TrailTellsOutcome
<1>1. Leaves(grantRows, c, call[c]) BY DEF GatewayInv
<1>2. \A kinds : Tells(grantRows, c, kinds) => LeavesExactly(c, kinds)
  BY DEF Tells, LeavesExactly, TrailOf, CallRows
<1>3. ASSUME call[c].pc = "answered" PROVE LeavesExactly(c, Cycles(call[c].tool))
  <2>1. call[c].tool \in ToolSet BY <1>3, CallAt DEF ToolCall
  <2>2. Len(Plan(call[c].tool)) \in Nat BY <2>1, PlansAre DEF PlanIs
  <2>3. (Len(Plan(call[c].tool)) + 1) - 1 = Len(Plan(call[c].tool)) BY <2>2
  <2>4. Before(call[c].tool, Len(Plan(call[c].tool)) + 1) = Cycles(call[c].tool)
    BY <2>3 DEF Before, Cycles
  <2>5. Tells(grantRows, c, Before(call[c].tool, Len(Plan(call[c].tool)) + 1))
    BY <1>1, <1>3 DEF Leaves
  <2> QED BY <1>2, <2>4, <2>5
<1>4. call[c].pc = "refused" => LeavesExactly(c, {"denied"}) BY <1>1, <1>2 DEF Leaves
<1> QED BY <1>3, <1>4

(* However registrations, revocations, failed writes and concurrent tool    *)
(* calls interleave: a call started after a finished revoke_agent gets past *)
(* the gates only by a grant written since its scan, and the ledger holds   *)
(* the cycles of an answered call's plan once each, a refused call's denial *)
(* and nothing else.                                                        *)
THEOREM GrantsAlwaysStand == GatewaySpec => []GrantsStand
<1>1. GatewayInv => GrantsStand BY RevokedOut, TrailTold DEF GrantsStand
<1> QED BY GatewayInductive, <1>1, PTL

-----------------------------------------------------------------------------
(***************************************************************************)
(* Agents' metadata: a revert restores what was there before.               *)
(***************************************************************************)
MetadataRowSet ==
  [kind : {"registered"}, agent : Named, name : Names]
  \cup [kind : {"metadata"}, agent : Named, name : Names \cup {NoText},
        desc : Descriptions \cup {NoText, ""}, from : Nat]

Text == [name : Names, desc : Descriptions \cup {NoText, ""}]

Revert == [pc : {"write"}, agent : Named, head : Nat \ {0}, prior : Text]

MetadataType ==
  /\ metadataRows \in Seq(MetadataRowSet)
  /\ revert \in [RevertIds -> {Unstarted, [pc |-> "done"]} \cup Revert]

(* An agent is registered once, before anything else is told about it.      *)
NamedFirst ==
  \A a \in Named :
    /\ \A i, j \in RowsAbout(metadataRows, "registered", a) : i = j
    /\ \A i \in RowsAbout(metadataRows, "metadata", a) :
         \E r \in RowsAbout(metadataRows, "registered", a) : r < i

(* What a revert is to restore is what its update found.                    *)
PriorKept ==
  \A v \in RevertIds :
    revert[v].pc = "write" =>
      /\ revert[v].head \in RowsAbout(metadataRows, "metadata", revert[v].agent)
      /\ revert[v].prior =
           fold_metadata(SubSeq(metadataRows, 1, revert[v].head - 1), revert[v].agent, 0)

(* A revert's row stands after the update it reverts.                       *)
FromEarlier ==
  \A i \in 1 .. Len(metadataRows) :
    metadataRows[i].kind = "metadata" => metadataRows[i].from < i

MetadataInv == MetadataType /\ NamedFirst /\ PriorKept /\ FromEarlier /\ RevertRestores

-----------------------------------------------------------------------------
LEMMA LastIs ==
  ASSUME NEW S \in SUBSET Nat, NEW n \in S, \A i \in S : i <= n
  PROVE  LastOf(S) = n
<1>1. \A x \in S : (\A j \in S : j <= x) => x = n BY Z3
<1> QED BY <1>1 DEF LastOf

LEMMA LastAmong ==
  ASSUME NEW n \in Nat, NEW S \in SUBSET (1 .. n), S # {}
  PROVE  LastOf(S) \in S /\ \A i \in S : i <= LastOf(S)
<1>1. S \in SUBSET (0 .. n) OBVIOUS
<1>2. \E m \in S : \A i \in S : i <= m BY <1>1, Largest
<1> QED BY <1>2 DEF LastOf

(* The metadata as the first n rows leave it.                               *)
TextAt(rows, a, n) ==
  LET m == fold_metadata(SubSeq(rows, 1, n), a, 0) IN
  [m EXCEPT !.desc = IF @ = NoText THEN "" ELSE @]

(* What a fold finds.                                                       *)
NamedRows(rows, a, skip) ==
  {i \in RowsAbout(rows, "registered", a) \cup (RowsAbout(rows, "metadata", a) \ {skip}) :
     rows[i].name # NoText}

ToldRows(rows, a, skip) ==
  {i \in RowsAbout(rows, "metadata", a) \ {skip} : rows[i].desc # NoText}

LEMMA FoldIs ==
  ASSUME NEW rows, NEW a, NEW skip
  PROVE  fold_metadata(rows, a, skip) =
           [name |-> rows[LastOf(NamedRows(rows, a, skip))].name,
            desc |-> IF ToldRows(rows, a, skip) = {} THEN NoText
                     ELSE rows[LastOf(ToldRows(rows, a, skip))].desc]
BY DEF fold_metadata, NamedRows, ToldRows

(* A fold that finds the same rows gives the same.                          *)
LEMMA SameFold ==
  ASSUME NEW rows, NEW others, NEW a, NEW skip, NEW leave, NEW n \in Nat,
         NamedRows(rows, a, skip) \subseteq 1 .. n,
         NamedRows(rows, a, skip) # {},
         NamedRows(others, a, leave) = NamedRows(rows, a, skip),
         ToldRows(others, a, leave) = ToldRows(rows, a, skip),
         ToldRows(rows, a, skip) \subseteq 1 .. n,
         \A i \in 1 .. n : rows[i] = others[i]
  PROVE  fold_metadata(rows, a, skip) = fold_metadata(others, a, leave)
<1>1. LastOf(NamedRows(rows, a, skip)) \in 1 .. n BY LastAmong
<1>2. ToldRows(rows, a, skip) # {} => LastOf(ToldRows(rows, a, skip)) \in 1 .. n BY LastAmong
<1> QED BY <1>1, <1>2, FoldIs

LEMMA PrefixIs ==
  ASSUME NEW rows \in Seq(MetadataRowSet), NEW n \in 0 .. Len(rows)
  PROVE  /\ SubSeq(rows, 1, n) \in Seq(MetadataRowSet)
         /\ Len(SubSeq(rows, 1, n)) = n
         /\ \A i \in 1 .. n : SubSeq(rows, 1, n)[i] = rows[i]
<1>1. Len(rows) \in Nat /\ \A i \in 1 .. Len(rows) : rows[i] \in MetadataRowSet BY LenProperties
<1>2. Len(SubSeq(rows, 1, n)) = n /\ \A i \in 1 .. n : SubSeq(rows, 1, n)[i] = rows[i] BY <1>1
<1>3. SubSeq(rows, 1, n) \in Seq(MetadataRowSet) BY <1>1
<1> QED BY <1>2, <1>3

LEMMA PrefixStays ==
  ASSUME NEW rows \in Seq(MetadataRowSet), NEW row \in MetadataRowSet, NEW n \in 0 .. Len(rows)
  PROVE  SubSeq(Append(rows, row), 1, n) = SubSeq(rows, 1, n)
<1>1. Len(rows) \in Nat BY LenProperties
<1>2. SubSeq(Append(rows, row), 1, n) = [i \in 1 .. n |-> Append(rows, row)[i]] BY <1>1
<1>3. SubSeq(rows, 1, n) = [i \in 1 .. n |-> rows[i]] BY <1>1
<1>4. \A i \in 1 .. n : Append(rows, row)[i] = rows[i] BY <1>1
<1> QED BY <1>2, <1>3, <1>4

LEMMA MetadataCommit ==
  ASSUME MetadataType, NEW row \in MetadataRowSet, CommitMetadata(row)
  PROVE  /\ metadataRows \in Seq(MetadataRowSet) /\ Len(metadataRows) \in Nat
         /\ metadataRows' = Append(metadataRows, row)
         /\ metadataRows' \in Seq(MetadataRowSet)
         /\ Len(metadataRows') = Len(metadataRows) + 1
         /\ metadataRows'[Len(metadataRows) + 1] = row
         /\ \A i \in 1 .. Len(metadataRows) : metadataRows'[i] = metadataRows[i]
<1>1. metadataRows \in Seq(MetadataRowSet) /\ metadataRows' = Append(metadataRows, row)
  BY DEF MetadataType, CommitMetadata
<1> QED BY <1>1, AppendProperties

LEMMA AboutAfter ==
  ASSUME MetadataType, NEW row \in MetadataRowSet, CommitMetadata(row), NEW kind, NEW a
  PROVE  /\ RowsAbout(metadataRows, kind, a) \subseteq RowsAbout(metadataRows', kind, a)
         /\ \A i \in RowsAbout(metadataRows', kind, a) :
              \/ i \in RowsAbout(metadataRows, kind, a)
              \/ i = Len(metadataRows) + 1 /\ row.kind = kind /\ row.agent = a
         /\ row.kind = kind /\ row.agent = a =>
              Len(metadataRows) + 1 \in RowsAbout(metadataRows', kind, a)
         /\ RowsAbout(metadataRows, kind, a) \subseteq 1 .. Len(metadataRows)
BY MetadataCommit DEF RowsAbout

LEMMA FoldStays ==
  ASSUME MetadataType, NEW row \in MetadataRowSet, CommitMetadata(row),
         NEW a, NEW n \in 0 .. Len(metadataRows)
  PROVE  /\ SubSeq(metadataRows', 1, n) = SubSeq(metadataRows, 1, n)
         /\ TextAt(metadataRows', a, n) = TextAt(metadataRows, a, n)
<1>1. SubSeq(metadataRows', 1, n) = SubSeq(metadataRows, 1, n)
  BY PrefixStays DEF MetadataType, CommitMetadata
<1> QED BY <1>1 DEF TextAt

RestoresAt(rows, a, i) ==
  rows[i].from # 0 => TextAt(rows, a, i) = TextAt(rows, a, rows[i].from - 1)

LEMMA RestoresEach ==
  /\ RevertRestores <=> \A a \in Named : \A i \in RowsAbout(metadataRows, "metadata", a) :
                          RestoresAt(metadataRows, a, i)
  /\ RevertRestores' <=> \A a \in Named : \A i \in RowsAbout(metadataRows', "metadata", a) :
                           RestoresAt(metadataRows', a, i)
BY Zenon DEF RevertRestores, MetadataAt, TextAt, RestoresAt

(* A row keeps what holds of the rows before it, of the reverts under way   *)
(* and of the reverts written.                                              *)
LEMMA MetadataGoesOn ==
  ASSUME MetadataInv, NEW row \in MetadataRowSet, CommitMetadata(row),
         \A v \in RevertIds : revert'[v] = revert[v] \/ revert'[v].pc = "done",
         revert' \in [RevertIds -> {Unstarted, [pc |-> "done"]} \cup Revert],
         row.kind = "registered" => RowsAbout(metadataRows, "registered", row.agent) = {},
         row.kind = "metadata" =>
           /\ RowsAbout(metadataRows, "registered", row.agent) # {}
           /\ row.from <= Len(metadataRows)
           /\ RestoresAt(metadataRows', row.agent, Len(metadataRows) + 1)
  PROVE  MetadataInv'
<1>0. MetadataType /\ NamedFirst /\ PriorKept /\ FromEarlier /\ RevertRestores BY DEF MetadataInv
<1> DEFINE n == Len(metadataRows)
<1>1. /\ n \in Nat /\ metadataRows' \in Seq(MetadataRowSet) /\ Len(metadataRows') = n + 1
      /\ metadataRows'[n + 1] = row /\ \A i \in 1 .. n : metadataRows'[i] = metadataRows[i]
  BY <1>0, MetadataCommit
<1>2. MetadataType' BY <1>1 DEF MetadataType
<1>3. NamedFirst'
  <2> SUFFICES ASSUME NEW a \in Named
               PROVE  /\ \A i, j \in RowsAbout(metadataRows', "registered", a) : i = j
                      /\ \A i \in RowsAbout(metadataRows', "metadata", a) :
                           \E r \in RowsAbout(metadataRows', "registered", a) : r < i
    BY DEF NamedFirst
  <2>1. \A i, j \in RowsAbout(metadataRows, "registered", a) : i = j
    BY <1>0 DEF NamedFirst
  <2>2. \A i, j \in RowsAbout(metadataRows', "registered", a) : i = j
    BY <1>0, <2>1, AboutAfter
  <2>3. ASSUME NEW i \in RowsAbout(metadataRows', "metadata", a)
        PROVE  \E r \in RowsAbout(metadataRows', "registered", a) : r < i
    <3>1. CASE i \in RowsAbout(metadataRows, "metadata", a)
      BY <1>0, <3>1, AboutAfter DEF NamedFirst
    <3>2. CASE i = n + 1 /\ row.kind = "metadata" /\ row.agent = a
      <4>1. PICK r \in RowsAbout(metadataRows, "registered", a) : TRUE BY <3>2
      <4>2. r \in RowsAbout(metadataRows', "registered", a) /\ r \in 1 .. n
        BY <1>0, AboutAfter
      <4> QED BY <1>1, <3>2, <4>2
    <3> QED BY <1>0, <2>3, <3>1, <3>2, AboutAfter
  <2> QED BY <2>2, <2>3
<1>4. PriorKept'
  <2> SUFFICES ASSUME NEW v \in RevertIds, revert'[v].pc = "write"
               PROVE  /\ revert'[v].head \in RowsAbout(metadataRows', "metadata", revert'[v].agent)
                      /\ revert'[v].prior =
                           fold_metadata(SubSeq(metadataRows', 1, revert'[v].head - 1),
                                         revert'[v].agent, 0)
    BY DEF PriorKept
  <2>1. revert'[v] = revert[v] OBVIOUS
  <2>2. revert[v] \in Revert BY <1>0, <2>1 DEF MetadataType, Unstarted
  <2>3. revert[v].head \in Nat \ {0} BY <2>2 DEF Revert
  <2>4. /\ revert[v].head \in RowsAbout(metadataRows, "metadata", revert[v].agent)
        /\ revert[v].prior =
             fold_metadata(SubSeq(metadataRows, 1, revert[v].head - 1), revert[v].agent, 0)
    BY <1>0, <2>1 DEF PriorKept
  <2>5. revert[v].head - 1 \in 0 .. n BY <1>1, <2>3, <2>4 DEF RowsAbout
  <2>6. SubSeq(metadataRows', 1, revert[v].head - 1) = SubSeq(metadataRows, 1, revert[v].head - 1)
    BY <1>0, <2>5, FoldStays
  <2>7. revert[v].head \in RowsAbout(metadataRows', "metadata", revert[v].agent)
    BY <1>0, <2>4, AboutAfter
  <2> QED BY <2>1, <2>4, <2>6, <2>7
<1>5. FromEarlier'
  <2>1. row.kind = "metadata" => row.from \in Nat BY DEF MetadataRowSet
  <2>2. \A i \in 1 .. n + 1 : i \in 1 .. n \/ i = n + 1 BY <1>1
  <2>3. \A i \in 1 .. n : metadataRows[i].kind = "metadata" => metadataRows[i].from < i
    BY <1>0 DEF FromEarlier
  <2>4. row.kind = "metadata" => row.from < n + 1 BY <1>1, <2>1
  <2> HIDE DEF n
  <2>5. \A i \in 1 .. n + 1 : metadataRows'[i].kind = "metadata" => metadataRows'[i].from < i
    BY <1>1, <2>2, <2>3, <2>4
  <2> QED BY <1>1, <2>5 DEF FromEarlier
<1>6. RevertRestores'
  <2> SUFFICES ASSUME NEW a \in Named, NEW i \in RowsAbout(metadataRows', "metadata", a)
               PROVE  RestoresAt(metadataRows', a, i)
    BY RestoresEach
  <2>1. CASE i \in RowsAbout(metadataRows, "metadata", a)
    <3>1. i \in 1 .. n /\ metadataRows[i].kind = "metadata" /\ metadataRows'[i] = metadataRows[i]
      BY <1>1, <2>1 DEF RowsAbout
    <3>2. metadataRows[i] \in MetadataRowSet BY <1>0, <3>1 DEF MetadataType
    <3>3. metadataRows[i].from \in Nat BY <3>1, <3>2 DEF MetadataRowSet
    <3>4. metadataRows[i].from # 0 => metadataRows[i].from - 1 \in 0 .. n
      BY <1>0, <1>1, <3>1, <3>3 DEF FromEarlier
    <3>5. RestoresAt(metadataRows, a, i) BY <1>0, <2>1, RestoresEach
    <3>6. TextAt(metadataRows', a, i) = TextAt(metadataRows, a, i)
      BY <1>0, <1>1, <3>1, FoldStays
    <3>7. metadataRows[i].from # 0 =>
            TextAt(metadataRows', a, metadataRows[i].from - 1)
              = TextAt(metadataRows, a, metadataRows[i].from - 1)
      BY <1>0, <3>4, FoldStays
    <3> QED BY <3>1, <3>5, <3>6, <3>7 DEF RestoresAt
  <2>2. CASE i = n + 1 /\ row.kind = "metadata" /\ row.agent = a
    BY <2>2
  <2> QED BY <1>0, <2>1, <2>2, AboutAfter
<1> QED BY <1>2, <1>3, <1>4, <1>5, <1>6 DEF MetadataInv

(* Of a registered agent a fold finds a name, and a description if any.     *)
LEMMA FoldFinds ==
  ASSUME NEW rows \in Seq(MetadataRowSet), NEW a \in Named, NEW skip,
         RowsAbout(rows, "registered", a) # {}
  PROVE  /\ fold_metadata(rows, a, skip) \in Text
         /\ NamedRows(rows, a, skip) # {}
         /\ NamedRows(rows, a, skip) \subseteq 1 .. Len(rows)
         /\ ToldRows(rows, a, skip) \subseteq 1 .. Len(rows)
<1>1. Len(rows) \in Nat /\ \A i \in 1 .. Len(rows) : rows[i] \in MetadataRowSet BY LenProperties
<1>2. NoText \notin Names BY NoValue
<1>3. \A i \in RowsAbout(rows, "registered", a) : i \in 1 .. Len(rows) /\ rows[i].name \in Names
  BY <1>1 DEF RowsAbout, MetadataRowSet
<1>4. \A i \in RowsAbout(rows, "metadata", a) :
        /\ i \in 1 .. Len(rows) /\ rows[i].name \in Names \cup {NoText}
        /\ rows[i].desc \in Descriptions \cup {NoText, ""}
  BY <1>1 DEF RowsAbout, MetadataRowSet
<1> DEFINE N == NamedRows(rows, a, skip)
           T == ToldRows(rows, a, skip)
<1>5. N # {} /\ N \subseteq 1 .. Len(rows) /\ \A i \in N : rows[i].name \in Names
  BY <1>2, <1>3, <1>4 DEF NamedRows
<1>6. T \subseteq 1 .. Len(rows) /\ \A i \in T : rows[i].desc \in Descriptions \cup {NoText, ""}
  BY <1>4 DEF ToldRows
<1> HIDE DEF N, T
<1>7. LastOf(N) \in N BY <1>1, <1>5, LastAmong
<1>8. T # {} => LastOf(T) \in T BY <1>1, <1>6, LastAmong
<1>9. fold_metadata(rows, a, skip) =
        [name |-> rows[LastOf(N)].name, desc |-> IF T = {} THEN NoText ELSE rows[LastOf(T)].desc]
  BY FoldIs DEF N, T
<1> DEFINE name == rows[LastOf(N)].name
           desc == IF T = {} THEN NoText ELSE rows[LastOf(T)].desc
<1>10. fold_metadata(rows, a, skip) \in Text
  <2>1. name \in Names BY <1>5, <1>7
  <2>2. desc \in Descriptions \cup {NoText, ""} BY <1>6, <1>8
  <2>3. fold_metadata(rows, a, skip) = [name |-> name, desc |-> desc] BY <1>9
  <2> HIDE DEF name, desc
  <2>4. [name |-> name, desc |-> desc] \in Text BY <2>1, <2>2 DEF Text
  <2> QED BY <2>3, <2>4
<1> QED BY <1>5, <1>6, <1>10 DEF N, T

LEMMA RegisterNamedKeeps ==
  ASSUME MetadataInv, NEW a \in Named, NEW n \in Names, RegisterNamed(a, n) PROVE MetadataInv'
<1> DEFINE row == [kind |-> "registered", agent |-> a, name |-> n]
<1>1. row \in MetadataRowSet /\ row.kind = "registered" /\ row.agent = a BY DEF MetadataRowSet
<1>2. CommitMetadata(row) /\ revert' = revert BY DEF RegisterNamed
<1>3. RowsAbout(metadataRows, "registered", a) = {} BY DEF RegisterNamed, Known
<1> HIDE DEF row
<1>4. revert' \in [RevertIds -> {Unstarted, [pc |-> "done"]} \cup Revert]
  BY <1>2 DEF MetadataInv, MetadataType
<1> QED BY <1>1, <1>2, <1>3, <1>4, MetadataGoesOn

LEMMA UpdateKeeps ==
  ASSUME MetadataInv, NEW a \in Named, NEW n \in Names \cup {NoText},
         NEW d \in Descriptions \cup {NoText}, update_agent_metadata(a, n, d)
  PROVE  MetadataInv'
<1> DEFINE row == MetadataRow(a, n, d, 0)
<1>1. row \in MetadataRowSet /\ row.kind = "metadata" /\ row.agent = a /\ row.from = 0
  BY DEF MetadataRow, MetadataRowSet
<1>2. CommitMetadata(row) /\ revert' = revert BY DEF update_agent_metadata
<1>3. RowsAbout(metadataRows, "registered", a) # {} BY DEF update_agent_metadata, Known
<1> HIDE DEF row
<1>4. revert' \in [RevertIds -> {Unstarted, [pc |-> "done"]} \cup Revert]
  BY <1>2 DEF MetadataInv, MetadataType
<1>5. metadataRows'[Len(metadataRows) + 1] = row /\ Len(metadataRows) \in Nat
  BY <1>1, <1>2, MetadataCommit DEF MetadataInv
<1>6. RestoresAt(metadataRows', row.agent, Len(metadataRows) + 1) BY <1>1, <1>5 DEF RestoresAt
<1>7. RowsAbout(metadataRows, "registered", row.agent) # {} /\ row.from <= Len(metadataRows)
  BY <1>1, <1>3, <1>5
<1> QED BY <1>7, <1>1, <1>2, <1>3, <1>4, <1>5, <1>6, MetadataGoesOn

(* What revert_agent_metadata folds is what the update it reverts found.    *)
LEMMA PriorFound ==
  ASSUME MetadataInv, NEW a \in Named, RowsAbout(metadataRows, "metadata", a) # {}
  PROVE  LET head == LastOf(RowsAbout(metadataRows, "metadata", a)) IN
         /\ head \in RowsAbout(metadataRows, "metadata", a)
         /\ head \in 1 .. Len(metadataRows)
         /\ prior_metadata(metadataRows, a) \in Text
         /\ prior_metadata(metadataRows, a) = fold_metadata(SubSeq(metadataRows, 1, head - 1), a, 0)
<1> DEFINE updates == RowsAbout(metadataRows, "metadata", a)
           regs == RowsAbout(metadataRows, "registered", a)
<1> DEFINE head == LastOf(updates)
<1>1. /\ metadataRows \in Seq(MetadataRowSet) /\ Len(metadataRows) \in Nat
      /\ \A i, j \in regs : i = j
      /\ \A i \in updates : \E r \in regs : r < i
  BY LenProperties DEF MetadataInv, MetadataType, NamedFirst
<1>2. updates \subseteq 1 .. Len(metadataRows) /\ regs \subseteq 1 .. Len(metadataRows)
  BY DEF RowsAbout
<1>3. head \in updates /\ \A i \in updates : i <= head BY <1>1, <1>2, LastAmong
<1>4. PICK r \in regs : r < head BY <1>1, <1>3
<1>5. PICK n \in 0 .. Len(metadataRows) : n = head - 1 BY <1>1, <1>2, <1>3
<1> DEFINE pre == SubSeq(metadataRows, 1, n)
<1>6. /\ pre \in Seq(MetadataRowSet) /\ Len(pre) = n
      /\ \A i \in 1 .. n : pre[i] = metadataRows[i]
  BY <1>1, PrefixIs
<1> HIDE DEF pre, head
<1>7. RowsAbout(pre, "registered", a) = regs
  <2>1. \A i \in regs : i \in 1 .. n BY <1>1, <1>2, <1>3, <1>4, <1>5
  <2>2. 1 .. n \subseteq 1 .. Len(metadataRows) BY <1>1
  <2> QED BY <1>6, <2>1, <2>2 DEF RowsAbout
<1>8. RowsAbout(pre, "metadata", a) \ {0} = updates \ {head}
  <2>1. \A i \in updates : i # head => i \in 1 .. n BY <1>1, <1>2, <1>3, <1>5
  <2>2. 1 .. n \subseteq 1 .. Len(metadataRows) /\ head \notin 1 .. n /\ 0 \notin 1 .. n
    BY <1>1, <1>5, <1>2, <1>3
  <2> QED BY <1>6, <2>1, <2>2 DEF RowsAbout
<1>9. regs \cup (updates \ {head}) \subseteq 1 .. n
  BY <1>6, <1>7, <1>8 DEF RowsAbout
<1>10. /\ NamedRows(pre, a, 0) = NamedRows(metadataRows, a, head)
       /\ ToldRows(pre, a, 0) = ToldRows(metadataRows, a, head)
       /\ NamedRows(metadataRows, a, head) \subseteq 1 .. n
       /\ ToldRows(metadataRows, a, head) \subseteq 1 .. n
  BY <1>6, <1>7, <1>8, <1>9 DEF NamedRows, ToldRows
<1>11. /\ fold_metadata(metadataRows, a, head) \in Text
       /\ NamedRows(metadataRows, a, head) # {}
  BY <1>1, <1>4, FoldFinds
<1>12. \A i \in 1 .. n : metadataRows[i] = pre[i] BY <1>6
<1>13. n \in Nat BY <1>1
<1>14. fold_metadata(metadataRows, a, head) = fold_metadata(pre, a, 0)
  BY <1>10, <1>11, <1>12, <1>13, SameFold
<1>15. prior_metadata(metadataRows, a) = fold_metadata(metadataRows, a, head)
  BY DEF prior_metadata, head
<1> QED BY <1>2, <1>3, <1>5, <1>11, <1>14, <1>15 DEF head, pre

LEMMA RevertFetchKeeps ==
  ASSUME MetadataInv, NEW v \in RevertIds, NEW a \in Named, RevertFetch(v, a) PROVE MetadataInv'
<1> DEFINE head == LastOf(RowsAbout(metadataRows, "metadata", a))
           prior == prior_metadata(metadataRows, a)
<1> DEFINE q == [pc |-> "write", agent |-> a, head |-> head, prior |-> prior]
<1>1. revert' = [revert EXCEPT ![v] = q] /\ metadataRows' = metadataRows BY DEF RevertFetch
<1>2. RowsAbout(metadataRows, "metadata", a) # {} BY DEF RevertFetch
<1>3. /\ head \in RowsAbout(metadataRows, "metadata", a)
      /\ head \in 1 .. Len(metadataRows) /\ prior \in Text
      /\ prior = fold_metadata(SubSeq(metadataRows, 1, head - 1), a, 0)
  BY <1>2, PriorFound
<1>4. MetadataType /\ PriorKept BY DEF MetadataInv
<1>5. Len(metadataRows) \in Nat BY <1>4, LenProperties DEF MetadataType
<1>6. head \in Nat \ {0} BY <1>3, <1>5
<1> HIDE DEF head, prior
<1>7. q \in Revert BY <1>3, <1>6 DEF Revert
<1>8. q.agent = a /\ q.head = head /\ q.prior = prior OBVIOUS
<1> HIDE DEF q
<1>9. MetadataType' BY <1>1, <1>4, <1>7 DEF MetadataType
<1>10. \A u \in RevertIds : revert'[u] = IF u = v THEN q ELSE revert[u]
  BY <1>1, <1>4 DEF MetadataType
<1>11. PriorKept'
  <2> SUFFICES ASSUME NEW u \in RevertIds, revert'[u].pc = "write"
               PROVE  /\ revert'[u].head \in RowsAbout(metadataRows, "metadata", revert'[u].agent)
                      /\ revert'[u].prior =
                           fold_metadata(SubSeq(metadataRows, 1, revert'[u].head - 1),
                                         revert'[u].agent, 0)
    BY <1>1 DEF PriorKept
  <2>1. CASE u = v BY <1>3, <1>8, <1>10, <2>1
  <2>2. CASE u # v BY <1>4, <1>10, <2>2 DEF PriorKept
  <2> QED BY <2>1, <2>2
<1> QED BY <1>1, <1>9, <1>11, RestoresEach
        DEF MetadataInv, NamedFirst, FromEarlier

(* A revert sets both fields, so it alone says what is read from then on.   *)
LEMMA RevertWriteKeeps ==
  ASSUME MetadataInv, NEW v \in RevertIds, RevertWrite(v) PROVE MetadataInv'
<1>0. MetadataType /\ NamedFirst /\ PriorKept BY DEF MetadataInv
<1> DEFINE o == revert[v]
<1>1. o.pc = "write" BY DEF RevertWrite
<1>2. o \in Revert BY <1>0, <1>1 DEF MetadataType, Unstarted
<1>3. o.agent \in Named /\ o.head \in Nat \ {0} /\ o.prior \in Text BY <1>2 DEF Revert
<1>4. /\ o.head \in RowsAbout(metadataRows, "metadata", o.agent)
      /\ o.head <= Len(metadataRows)
      /\ o.prior = fold_metadata(SubSeq(metadataRows, 1, o.head - 1), o.agent, 0)
  <2>1. /\ o.head \in RowsAbout(metadataRows, "metadata", o.agent)
        /\ o.prior = fold_metadata(SubSeq(metadataRows, 1, o.head - 1), o.agent, 0)
    BY <1>0, <1>1 DEF PriorKept
  <2>2. Len(metadataRows) \in Nat BY <1>0, LenProperties DEF MetadataType
  <2>3. o.head \in 1 .. Len(metadataRows) BY <2>1 DEF RowsAbout
  <2> QED BY <2>1, <2>2, <2>3
<1> DEFINE d == IF o.prior.desc = NoText THEN "" ELSE o.prior.desc
<1> DEFINE row == MetadataRow(o.agent, o.prior.name, d, o.head)
<1>5. CommitMetadata(row) /\ revert' = [revert EXCEPT ![v] = [pc |-> "done"]]
  BY DEF RevertWrite
<1>6. o.prior.name \in Names /\ o.prior.desc \in Descriptions \cup {NoText, ""}
      /\ o.prior = [name |-> o.prior.name, desc |-> o.prior.desc]
  BY <1>3 DEF Text
<1>7. d \in Descriptions \cup {NoText, ""} /\ d # NoText BY <1>6 DEF NoText
<1>8. o.prior.name # NoText BY <1>6, NoValue
<1> HIDE DEF d
<1>9. row \in MetadataRowSet BY <1>3, <1>6, <1>7 DEF MetadataRow, MetadataRowSet
<1>10. /\ row.kind = "metadata" /\ row.agent = o.agent /\ row.name = o.prior.name
       /\ row.desc = d /\ row.from = o.head
  BY DEF MetadataRow
<1> HIDE DEF row
<1> DEFINE n == Len(metadataRows) + 1
<1>11. /\ metadataRows \in Seq(MetadataRowSet) /\ Len(metadataRows) \in Nat
       /\ metadataRows' \in Seq(MetadataRowSet) /\ Len(metadataRows') = n
       /\ metadataRows'[n] = row
  BY <1>0, <1>5, <1>9, MetadataCommit
<1>12. RowsAbout(metadataRows, "registered", o.agent) # {}
  BY <1>0, <1>3, <1>4 DEF NamedFirst
<1>13. TextAt(metadataRows', o.agent, o.head - 1) = [name |-> o.prior.name, desc |-> d]
  <2>1. o.head - 1 \in 0 .. Len(metadataRows) BY <1>3, <1>4, <1>11
  <2>2. SubSeq(metadataRows', 1, o.head - 1) = SubSeq(metadataRows, 1, o.head - 1)
    BY <1>0, <1>5, <1>9, <2>1, FoldStays
  <2>3. TextAt(metadataRows', o.agent, o.head - 1)
          = [o.prior EXCEPT !.desc = IF o.prior.desc = NoText THEN "" ELSE o.prior.desc]
    BY <1>4, <2>2 DEF TextAt
  <2>4. TextAt(metadataRows', o.agent, o.head - 1) = [o.prior EXCEPT !.desc = d]
    BY <2>3 DEF d
  <2> QED BY <1>6, <2>4
<1>14. TextAt(metadataRows', o.agent, n) = [name |-> o.prior.name, desc |-> d]
  <2> DEFINE rows == SubSeq(metadataRows', 1, n)
  <2>1. /\ n \in 0 .. Len(metadataRows') /\ n \in Nat /\ n \in 1 .. n BY <1>11
  <2>2. Len(rows) = n /\ rows[n] = row BY <1>11, <2>1, PrefixIs
  <2> HIDE DEF rows, n
  <2>3. n \in RowsAbout(rows, "metadata", o.agent) \ {0} BY <1>10, <2>1, <2>2 DEF RowsAbout
  <2>4. n \in NamedRows(rows, o.agent, 0) /\ NamedRows(rows, o.agent, 0) \subseteq 1 .. n
    BY <1>8, <1>10, <2>2, <2>3 DEF NamedRows, RowsAbout
  <2>5. n \in ToldRows(rows, o.agent, 0) /\ ToldRows(rows, o.agent, 0) \subseteq 1 .. n
    BY <1>7, <1>10, <2>2, <2>3 DEF ToldRows, RowsAbout
  <2>6. LastOf(NamedRows(rows, o.agent, 0)) = n
    <3>1. NamedRows(rows, o.agent, 0) \in SUBSET Nat BY <2>1, <2>4
    <3> QED BY <2>1, <2>4, <3>1, LastIs
  <2>7. LastOf(ToldRows(rows, o.agent, 0)) = n
    <3>1. ToldRows(rows, o.agent, 0) \in SUBSET Nat BY <2>1, <2>5
    <3> QED BY <2>1, <2>5, <3>1, LastIs
  <2>8. fold_metadata(rows, o.agent, 0) = [name |-> o.prior.name, desc |-> d]
    BY <1>10, <2>2, <2>5, <2>6, <2>7, FoldIs
  <2>9. TextAt(metadataRows', o.agent, n)
          = [fold_metadata(rows, o.agent, 0) EXCEPT !.desc =
               IF fold_metadata(rows, o.agent, 0).desc = NoText
               THEN "" ELSE fold_metadata(rows, o.agent, 0).desc]
    BY Zenon DEF TextAt, rows
  <2>10. fold_metadata(rows, o.agent, 0).desc = d BY <2>8
  <2> QED BY <1>7, <2>8, <2>9, <2>10
<1>15. RestoresAt(metadataRows', row.agent, Len(metadataRows) + 1)
  BY <1>10, <1>11, <1>13, <1>14 DEF RestoresAt
<1>16. /\ revert' \in [RevertIds -> {Unstarted, [pc |-> "done"]} \cup Revert]
       /\ \A u \in RevertIds : revert'[u] = revert[u] \/ revert'[u].pc = "done"
  BY <1>0, <1>5 DEF MetadataType
<1>17. RowsAbout(metadataRows, "registered", row.agent) # {} /\ row.from <= Len(metadataRows)
  BY <1>4, <1>10, <1>12
<1> QED BY <1>5, <1>9, <1>10, <1>15, <1>16, <1>17, MetadataGoesOn

LEMMA MetadataInitHolds == MetadataInit => MetadataInv
<1> SUFFICES ASSUME MetadataInit PROVE MetadataInv OBVIOUS
<1>1. metadataRows = <<>> /\ Len(metadataRows) = 0 BY DEF MetadataInit
<1>2. \A kind, a : RowsAbout(metadataRows, kind, a) = {} BY <1>1 DEF RowsAbout
<1>3. revert = [v \in RevertIds |-> Unstarted] BY DEF MetadataInit, Unstarted
<1>4. MetadataType BY <1>1, <1>3 DEF MetadataType
<1>5. NamedFirst BY <1>2 DEF NamedFirst
<1>6. PriorKept BY <1>3 DEF PriorKept, Unstarted
<1>7. FromEarlier BY <1>1 DEF FromEarlier
<1>8. RevertRestores BY <1>2 DEF RevertRestores
<1> QED BY <1>4, <1>5, <1>6, <1>7, <1>8 DEF MetadataInv

LEMMA MetadataKeeps == MetadataInv /\ [MetadataNext]_metadataVars => MetadataInv'
<1> SUFFICES ASSUME MetadataInv, [MetadataNext]_metadataVars PROVE MetadataInv' OBVIOUS
<1>1. ASSUME NEW a \in Named, NEW n \in Names, RegisterNamed(a, n) PROVE MetadataInv'
  BY <1>1, RegisterNamedKeeps
<1>2. ASSUME NEW a \in Named, NEW n \in Names \cup {NoText},
             NEW d \in Descriptions \cup {NoText}, update_agent_metadata(a, n, d)
      PROVE  MetadataInv'
  BY <1>2, UpdateKeeps
<1>3. ASSUME NEW v \in RevertIds, NEW a \in Named, RevertFetch(v, a) PROVE MetadataInv'
  BY <1>3, RevertFetchKeeps
<1>4. ASSUME NEW v \in RevertIds, RevertWrite(v) PROVE MetadataInv'
  BY <1>4, RevertWriteKeeps
<1>5. CASE UNCHANGED metadataVars
  <2>1. metadataRows' = metadataRows /\ revert' = revert BY <1>5 DEF metadataVars
  <2> QED BY <2>1, RestoresEach
          DEF MetadataInv, MetadataType, NamedFirst, PriorKept, FromEarlier
<1> QED BY <1>1, <1>2, <1>3, <1>4, <1>5 DEF MetadataNext

(* Whatever rows are folded, in whatever order admins update, rename and    *)
(* revert, a revert leaves each field as it stood before the update it       *)
(* reverts (update_agent_metadata, revert_agent_metadata).                  *)
THEOREM RevertsAlwaysRestore == MetadataSpec => []RevertRestores
<1>1. MetadataInit => MetadataInv BY MetadataInitHolds
<1>2. MetadataInv /\ [MetadataNext]_metadataVars => MetadataInv' BY MetadataKeeps
<1>3. MetadataInv => RevertRestores BY DEF MetadataInv
<1> QED BY <1>1, <1>2, <1>3, PTL DEF MetadataSpec

(***************************************************************************)
(* Compounding: each axis promotes a thing once.                            *)
(***************************************************************************)
(* While a promotion is being written, no row promotes the same yet; an       *)
(* outcome without a query is not looked up.                                *)
PickFresh ==
  stage = "write" =>
    \E x \in Axes :
      /\ pick = [kind |-> Promotion[x], key |-> pick.key, from |-> pick.from]
      /\ \/ x = "product" /\ pick.key = ""
         \/ \A i \in Kinds(Promotion[x]) : entries[i].key # pick.key

CompoundingInv ==
  /\ inputs \in Inputs
  /\ entries \in Seq({entries[i] : i \in DOMAIN entries})
  /\ axes \in Seq(Axes)
  /\ stage # "idle" => axes # <<>>
  /\ PickFresh
  /\ PromotedOnce

LEMMA PromotionsApart ==
  ASSUME NEW x \in Axes, NEW y \in Axes, Promotion[x] = Promotion[y] PROVE x = y
BY DEF Axes, Promotion

(* A sequence is one of its own rows.                                       *)
LEMMA Ranged ==
  ASSUME NEW S, NEW t \in Seq(S)
  PROVE  t \in Seq({t[i] : i \in DOMAIN t})
<1>1. Len(t) \in Nat /\ t \in [1 .. Len(t) -> S] /\ DOMAIN t = 1 .. Len(t) BY LenProperties
<1>2. ASSUME NEW n \in Nat, NEW U, t \in [1 .. n -> U] PROVE t \in Seq(U) BY <1>2
<1>3. t \in [1 .. Len(t) -> {t[i] : i \in DOMAIN t}] BY <1>1
<1> QED BY <1>1, <1>2, <1>3

LEMMA EntryAdded ==
  ASSUME CompoundingInv, NEW e, CommitEntry(e)
  PROVE  /\ entries' \in Seq({entries'[i] : i \in DOMAIN entries'})
         /\ Len(entries) \in Nat /\ Len(entries') = Len(entries) + 1
         /\ \A i \in 1 .. Len(entries) : entries'[i] = entries[i]
         /\ entries'[Len(entries) + 1] = e
<1> DEFINE R == {entries[i] : i \in DOMAIN entries}
           S == R \cup {e}
<1>1. entries \in Seq(R) /\ entries' = Append(entries, e) BY DEF CompoundingInv, CommitEntry
<1>2. entries \in Seq(S) /\ Len(entries) \in Nat BY <1>1, SeqMonotonic, LenProperties
<1>3. e \in S OBVIOUS
<1> HIDE DEF S
<1>4. /\ entries' \in Seq(S) /\ Len(entries') = Len(entries) + 1
      /\ \A i \in 1 .. Len(entries) : entries'[i] = entries[i]
      /\ entries'[Len(entries) + 1] = e
  BY <1>1, <1>2, <1>3, AppendProperties
<1>5. entries' \in Seq({entries'[i] : i \in DOMAIN entries'}) BY <1>4, Ranged
<1> QED BY <1>2, <1>4, <1>5

LEMMA KindsAfter ==
  ASSUME CompoundingInv, NEW e, CommitEntry(e), NEW kind
  PROVE  /\ Kinds(kind) \subseteq 1 .. Len(entries)
         /\ \A i \in Kinds(kind) : entries'[i] = entries[i]
         /\ e.kind # kind => Kinds(kind)' = Kinds(kind)
         /\ e.kind = kind => Kinds(kind)' = Kinds(kind) \cup {Len(entries) + 1}
<1>1. /\ Len(entries) \in Nat /\ Len(entries') = Len(entries) + 1
      /\ \A i \in 1 .. Len(entries) : entries'[i] = entries[i]
      /\ entries'[Len(entries) + 1] = e
  BY EntryAdded
<1>2. \A i : i \in 1 .. Len(entries') <=> i \in 1 .. Len(entries) \/ i = Len(entries) + 1 BY <1>1
<1> QED BY <1>1, <1>2 DEF Kinds

(* What a row carries keeps its value when it is dated.                     *)
LEMMA DatedKeeps ==
  ASSUME NEW row, NEW f, f \in DOMAIN row, f # "day" PROVE Dated(row)[f] = row[f]
BY DEF Dated

LEMMA WriteKeeps == ASSUME CompoundingInv, Write PROVE CompoundingInv'
<1>0. /\ inputs \in Inputs /\ axes \in Seq(Axes) /\ (stage # "idle" => axes # <<>>)
      /\ PickFresh /\ PromotedOnce
  BY DEF CompoundingInv
<1>1. PICK row \in inputs : CommitEntry(Dated(row)) BY DEF Write
<1>2. /\ inputs' = inputs /\ axes' = axes /\ stage' = stage /\ pick' = pick
  BY DEF Write, fireVars
<1>3. "kind" \in DOMAIN row /\ \A x \in Axes : row.kind # Promotion[x]
  BY <1>0, CompoundingInputs
<1> DEFINE e == Dated(row)
<1>4. e.kind = row.kind BY <1>3, DatedKeeps
<1> HIDE DEF e
<1>5. CommitEntry(e) BY <1>1 DEF e
<1>6. \A x \in Axes : /\ Kinds(Promotion[x])' = Kinds(Promotion[x])
                     /\ \A i \in Kinds(Promotion[x]) : entries'[i] = entries[i]
  BY <1>3, <1>4, <1>5, KindsAfter
<1>7. PromotedOnce' BY <1>0, <1>6 DEF PromotedOnce
<1>8. PickFresh' BY <1>0, <1>2, <1>6 DEF PickFresh
<1>9. entries' \in Seq({entries'[i] : i \in DOMAIN entries'}) BY <1>5, EntryAdded
<1> QED BY <1>0, <1>2, <1>7, <1>8, <1>9 DEF CompoundingInv

LEMMA PromoteKeeps == ASSUME CompoundingInv, Promote PROVE CompoundingInv'
<1>0. /\ inputs \in Inputs /\ axes \in Seq(Axes) /\ (stage # "idle" => axes # <<>>)
      /\ PickFresh /\ PromotedOnce
  BY DEF CompoundingInv
<1>1. /\ stage = "write" /\ CommitEntry(Dated(pick)) /\ stage' = "check"
      /\ inputs' = inputs /\ axes' = axes
  BY DEF Promote
<1>2. PICK y \in Axes :
        /\ pick = [kind |-> Promotion[y], key |-> pick.key, from |-> pick.from]
        /\ \/ y = "product" /\ pick.key = ""
           \/ \A i \in Kinds(Promotion[y]) : entries[i].key # pick.key
  BY <1>0, <1>1 DEF PickFresh
<1> DEFINE e == Dated(pick)
           n == Len(entries) + 1
<1>3. "kind" \in DOMAIN pick /\ "key" \in DOMAIN pick /\ pick.kind = Promotion[y]
  <2>1. ASSUME NEW p, NEW key, NEW from, p = [kind |-> Promotion[y], key |-> key, from |-> from]
        PROVE  "kind" \in DOMAIN p /\ "key" \in DOMAIN p /\ p.kind = Promotion[y]
    BY <2>1
  <2> QED BY <1>2, <2>1
<1>4. e.kind = Promotion[y] /\ e.key = pick.key BY <1>3, DatedKeeps
<1> HIDE DEF e
<1>5. CommitEntry(e) BY <1>1 DEF e
<1>6. /\ entries' \in Seq({entries'[i] : i \in DOMAIN entries'}) /\ entries'[n] = e
  BY <1>5, EntryAdded
<1>7. PromotedOnce'
  <2> SUFFICES ASSUME NEW x \in Axes, NEW i \in Kinds(Promotion[x])', NEW j \in Kinds(Promotion[x])',
                      entries'[i].key = entries'[j].key,
                      x = "product" => entries'[i].key # ""
               PROVE  i = j
    BY DEF PromotedOnce
  <2>1. \A k \in Kinds(Promotion[x]) : entries'[k] = entries[k] BY <1>5, KindsAfter
  <2>2. CASE x # y
    <3>1. e.kind # Promotion[x] BY <1>4, <2>2, PromotionsApart
    <3>2. i \in Kinds(Promotion[x]) /\ j \in Kinds(Promotion[x]) BY <1>5, <3>1, KindsAfter
    <3> QED BY <1>0, <2>1, <3>2 DEF PromotedOnce
  <2>3. CASE x = y
    <3>1. Kinds(Promotion[x])' = Kinds(Promotion[x]) \cup {n} BY <1>4, <1>5, <2>3, KindsAfter
    <3>2. CASE i \in Kinds(Promotion[x]) /\ j \in Kinds(Promotion[x])
      BY <1>0, <2>1, <3>2 DEF PromotedOnce
    <3>3. ASSUME NEW k \in Kinds(Promotion[x]), entries'[k].key = e.key,
                 x = "product" => e.key # ""
          PROVE  FALSE
      BY <1>2, <1>4, <2>1, <2>3, <3>3
    <3>4. CASE i = n /\ j \in Kinds(Promotion[x]) BY <1>6, <3>3, <3>4
    <3>5. CASE i \in Kinds(Promotion[x]) /\ j = n BY <1>6, <3>3, <3>5
    <3> QED BY <3>1, <3>2, <3>4, <3>5
  <2> QED BY <2>2, <2>3
<1>8. PickFresh' BY <1>1 DEF PickFresh
<1> QED BY <1>0, <1>1, <1>6, <1>7, <1>8 DEF CompoundingInv

LEMMA SameKinds == ASSUME entries' = entries, NEW kind PROVE Kinds(kind)' = Kinds(kind)
BY DEF Kinds

LEMMA SamePromotions == ASSUME PromotedOnce, entries' = entries PROVE PromotedOnce'
BY SameKinds DEF PromotedOnce

LEMMA CheckKeeps == ASSUME CompoundingInv, NEW C, Check(C) PROVE CompoundingInv'
<1>0. /\ axes \in Seq(Axes) /\ axes # <<>> /\ PickFresh /\ PromotedOnce
      /\ inputs \in Inputs /\ entries \in Seq({entries[i] : i \in DOMAIN entries})
  BY DEF CompoundingInv, Check
<1>1. PICK x \in Axes : x = Head(axes) BY <1>0
<1>2. PICK key : key = KeyOf(x, C) OBVIOUS
<1>3. /\ inputs' = inputs /\ axes' = axes /\ entries' = entries /\ stage = "check"
      /\ IF already_promoted(x, key)
         THEN stage' = stage /\ pick' = pick
         ELSE stage' = "write" /\ pick' = [kind |-> Promotion[x], key |-> key, from |-> C]
  BY <1>1, <1>2 DEF Check
<1>4. PickFresh'
  <2>1. CASE already_promoted(x, key) BY <1>3, <2>1 DEF PickFresh
  <2>2. CASE ~already_promoted(x, key)
    <3>1. pick' = [kind |-> Promotion[x], key |-> key, from |-> C] BY <1>3, <2>2
    <3>2. pick'.key = key /\ pick'.from = C BY <3>1
    <3>3. \/ x = "product" /\ key = ""
          \/ \A i \in Kinds(Promotion[x]) : entries[i].key # key
      BY <2>2 DEF already_promoted
    <3>4. Kinds(Promotion[x])' = Kinds(Promotion[x]) BY <1>3, SameKinds
    <3> QED BY <1>3, <3>1, <3>2, <3>3, <3>4 DEF PickFresh
  <2> QED BY <2>1, <2>2
<1>5. PromotedOnce' BY <1>0, <1>3, SamePromotions
<1>6. entries' \in Seq({entries'[i] : i \in DOMAIN entries'}) BY <1>0, <1>3, Zenon
<1> QED BY <1>0, <1>3, <1>4, <1>5, <1>6 DEF CompoundingInv

LEMMA SourcesAreAxes == ASSUME NEW row PROVE Sources(row) \in Seq(Axes)
<1>1. /\ <<"template", "product", "bad">> \in Seq(Axes)
      /\ <<"recommend">> \in Seq(Axes) /\ <<"gap">> \in Seq(Axes)
  BY DEF Axes
<1>2. <<>> \in Seq(Axes) OBVIOUS
<1> QED BY <1>1, <1>2 DEF Sources

(* The runner's other steps leave the rows alone and write nothing new.     *)
LEMMA RunnerKeeps ==
  ASSUME CompoundingInv, inputs' = inputs, entries' = entries,
         stage' # "write" \/ (stage' = stage /\ pick' = pick),
         axes' \in Seq(Axes), stage' # "idle" => axes' # <<>>
  PROVE  CompoundingInv'
<1>0. /\ PickFresh /\ PromotedOnce
      /\ inputs \in Inputs /\ entries \in Seq({entries[i] : i \in DOMAIN entries})
  BY DEF CompoundingInv
<1>1. PickFresh'
  <2>1. CASE stage' # "write" BY <2>1 DEF PickFresh
  <2>2. CASE stage' = stage /\ pick' = pick BY <1>0, <2>2, SameKinds DEF PickFresh
  <2> QED BY <2>1, <2>2
<1>2. PromotedOnce' BY <1>0, SamePromotions
<1>3. entries' \in Seq({entries'[i] : i \in DOMAIN entries'}) BY <1>0, Zenon
<1> QED BY <1>0, <1>1, <1>2, <1>3 DEF CompoundingInv

LEMMA CompoundingKeeps == CompoundingInv /\ [CompoundingNext]_compoundingVars => CompoundingInv'
<1> SUFFICES ASSUME CompoundingInv, [CompoundingNext]_compoundingVars PROVE CompoundingInv' OBVIOUS
<1>0. axes \in Seq(Axes) /\ (stage # "idle" => axes # <<>>) BY DEF CompoundingInv
<1>1. CASE Write BY <1>1, WriteKeeps
<1>2. CASE Tomorrow \/ UNCHANGED compoundingVars
  BY <1>0, <1>2, RunnerKeeps DEF Tomorrow, compoundingVars, fireVars
<1>3. CASE TakeEntry
  BY <1>0, <1>3, SourcesAreAxes, RunnerKeeps DEF TakeEntry, fireVars
<1>4. CASE Debounced
  <2>1. axes # <<>> /\ axes' = Tail(axes) /\ stage' = "idle" BY <1>4 DEF Debounced, fireVars
  <2>2. axes' \in Seq(Axes) BY <1>0, <2>1
  <2> QED BY <1>4, <2>1, <2>2, RunnerKeeps DEF Debounced
<1>5. CASE Fire BY <1>0, <1>5, RunnerKeeps DEF Fire
<1>6. ASSUME NEW C \in clusters, Check(C) PROVE CompoundingInv' BY <1>6, CheckKeeps
<1>7. CASE Promote BY <1>7, PromoteKeeps
<1>8. CASE Done \/ WriteFails
  <2>1. EndFire /\ stage # "idle" BY <1>8 DEF Done, WriteFails
  <2>2. axes' = Tail(axes) /\ axes # <<>> /\ stage' = "idle" BY <1>0, <2>1 DEF EndFire
  <2>3. axes' \in Seq(Axes) BY <1>0, <2>2
  <2> QED BY <2>1, <2>2, <2>3, RunnerKeeps DEF EndFire
<1>9. CASE RestartRunner BY <1>9, RunnerKeeps DEF RestartRunner
<1> QED BY <1>1, <1>2, <1>3, <1>4, <1>5, <1>6, <1>7, <1>8, <1>9 DEF CompoundingNext

LEMMA CompoundingAtFirst == CompoundingInit => CompoundingInv
<1> SUFFICES ASSUME CompoundingInit PROVE CompoundingInv OBVIOUS
<1>1. entries = <<>> /\ axes = <<>> /\ stage = "idle" /\ inputs \in Inputs BY DEF CompoundingInit
<1>2. PickFresh BY <1>1 DEF PickFresh
<1>3. \A kind : Kinds(kind) = {} BY <1>1 DEF Kinds
<1>4. PromotedOnce BY <1>3 DEF PromotedOnce
<1> QED BY <1>1, <1>2, <1>4 DEF CompoundingInv

(* Whatever others write, however embeddings cluster and whenever the runner *)
(* restarts and replays the ledger, an axis promotes a key once: what the      *)
(* fire looked up before its write still holds when it writes                *)
(* (already_promoted, Compounding.fire).                                    *)
THEOREM EachPromotedOnce == CompoundingSpec => []PromotedOnce
<1>1. CompoundingInit => CompoundingInv BY CompoundingAtFirst
<1>2. CompoundingInv /\ [CompoundingNext]_compoundingVars => CompoundingInv' BY CompoundingKeeps
<1>3. CompoundingInv => PromotedOnce BY DEF CompoundingInv
<1> QED BY <1>1, <1>2, <1>3, PTL DEF CompoundingSpec

(***************************************************************************)
(* The tenant gate: limits hold in every window, and every call is counted  *)
(* once.                                                                    *)
(***************************************************************************)
ServedRow == [tenant : Tenants, at : Nat, boot : Nat, passed : SUBSET {"rate", "quota"}]

GateCall == [id : Nat, at : Nat]

WindowState == [calls : SUBSET Nat, since : Nat \cup {-1}]

ReportSet ==
  [tenant : Tenants, calls : SUBSET Nat, start : Nat, end : Nat,
   reason : {"count_threshold", "time_threshold", "quota_exhausted"}, id : Nat]

InTime(sn, boots, clock) ==
  /\ \A i \in 1 .. Len(sn) : sn[i].at <= clock /\ sn[i].boot <= boots
  /\ \A i, j \in 1 .. Len(sn) : i <= j => sn[i].at <= sn[j].at

From(sn, S, i, span) ==
  {j \in S : sn[j].boot = sn[i].boot /\ j >= i /\ sn[j].at - sn[i].at <= span}

Within(sn, limit, span, S) == \A i \in S : Cardinality(From(sn, S, i, span)) <= limit

(* A bucket has kept every call of this process it may still have to count   *)
(* of those, S, it has let pass, and let no more pass than its limit.        *)
Bucket(calls, sn, S, boots, clock, limit, span) ==
  /\ calls \in SUBSET GateCall /\ IsFiniteSet(calls)
  /\ \A i \in S :
       sn[i].boot = boots /\ sn[i].at >= clock - span => [id |-> i, at |-> sn[i].at] \in calls
  /\ Within(sn, limit, span, S)

Mine(t) == {r \in reported \cup reports : r.tenant = t}

(* What a tenant's reports and its open window say of the calls, Q, that the *)
(* quota has let pass.                                                      *)
Accounts(lost, mine, w, Q, clock) ==
  /\ w.since # -1 => w.since <= clock
  /\ w.calls \subseteq Q
  /\ \A r \in mine : /\ r.calls \subseteq Q /\ r.start <= r.end /\ r.end <= clock
                     /\ w.since # -1 => r.end <= w.since
  /\ lost = 0 => (UNION {r.calls : r \in mine}) \cup w.calls = Q
  /\ \A r \in mine : r.calls \cap w.calls = {}
  /\ \A r, q \in mine :
       \/ r = q
       \/ r.calls \cap q.calls = {} /\ (r.end <= q.start \/ q.end <= r.start)

GateType ==
  /\ now \in Nat /\ boot \in Nat /\ gate_faults \in Nat
  /\ served \in Seq(ServedRow)
  /\ recent \in [Tenants -> SUBSET GateCall] /\ consumed \in [Tenants -> SUBSET GateCall]
  /\ window \in [Tenants -> WindowState]
  /\ reports \subseteq ReportSet /\ reported \subseteq ReportSet

BucketsHold ==
  \A t \in Tenants :
    /\ Bucket(recent[t], served, Passed(t, "rate"), boot, now, Rate, RateWindow)
    /\ Bucket(consumed[t], served, Passed(t, "quota"), boot, now, Quota, QuotaWindow)

TenantsTold ==
  \A t \in Tenants : Accounts(gate_faults, Mine(t), window[t], Passed(t, "quota"), now)

GateInv ==
  /\ GateType /\ InTime(served, boot, now)
  /\ BucketsHold /\ TenantsTold

LEMMA GateBounds ==
  /\ Rate \in Nat \ {0} /\ Quota \in Nat \ {0} /\ CountThreshold \in Nat \ {0}
  /\ RateWindow \in Nat /\ QuotaWindow \in Nat /\ TimeThreshold \in Nat
BY LimitsAssumption

-----------------------------------------------------------------------------
(* A call more.                                                             *)
LEMMA ServedGrows ==
  ASSUME NEW sn \in Seq(ServedRow), NEW row \in ServedRow, NEW tn, tn = Append(sn, row)
  PROVE  /\ Len(sn) \in Nat /\ tn \in Seq(ServedRow) /\ Len(tn) = Len(sn) + 1
         /\ \A i \in 1 .. Len(sn) : tn[i] = sn[i] /\ sn[i] \in ServedRow
         /\ tn[Len(sn) + 1] = row
BY AppendProperties, LenProperties, ElementOfSeq

LEMMA FromIsFinite ==
  ASSUME NEW sn \in Seq(ServedRow), NEW S \in SUBSET (1 .. Len(sn)), NEW i, NEW span
  PROVE  IsFiniteSet(From(sn, S, i, span)) /\ From(sn, S, i, span) \subseteq S
<1>1. Len(sn) \in Nat BY LenProperties
<1>2. IsFiniteSet(1 .. Len(sn)) BY <1>1, FS_Interval
<1>3. From(sn, S, i, span) \in SUBSET (1 .. Len(sn)) BY DEF From
<1> QED BY <1>2, <1>3, FS_Subset DEF From

(* The calls that a new one has to share its window with are in the bucket. *)
LEMMA SharedAreKept ==
  ASSUME NEW sn \in Seq(ServedRow), NEW S \in SUBSET (1 .. Len(sn)), NEW boots \in Nat,
         NEW clock \in Nat, NEW limit, NEW span \in Nat, NEW calls, InTime(sn, boots, clock),
         Bucket(calls, sn, S, boots, clock, limit, span), NEW i \in S, sn[i].boot = boots,
         clock - sn[i].at <= span
  PROVE  LET kept == {c \in calls : c.at >= clock - span} IN
         IsFiniteSet(kept) /\ Cardinality(From(sn, S, i, span)) <= Cardinality(kept)
<1> DEFINE kept == {c \in calls : c.at >= clock - span}
           D == From(sn, S, i, span)
           f == [j \in D |-> [id |-> j, at |-> sn[j].at]]
<1>1. Len(sn) \in Nat /\ \A j \in S : j \in 1 .. Len(sn) /\ sn[j] \in ServedRow
  BY LenProperties, ElementOfSeq
<1>2. \A j \in S : sn[j].at \in Nat /\ sn[j].boot \in Nat BY <1>1 DEF ServedRow
<1>3. calls \in SUBSET GateCall /\ IsFiniteSet(calls)
      /\ \A j \in S : sn[j].boot = boots /\ sn[j].at >= clock - span => [id |-> j, at |-> sn[j].at] \in calls
  BY DEF Bucket
<1>4. kept \in SUBSET calls OBVIOUS
<1>5. IsFiniteSet(kept) BY <1>3, <1>4, FS_Subset
<1>6. ASSUME NEW j \in D PROVE f[j] \in kept
  <2>1. j \in S /\ sn[j].boot = boots /\ j >= i BY DEF From
  <2>2. sn[i].at <= sn[j].at BY <1>1, <2>1 DEF InTime
  <2>3. sn[j].at >= clock - span BY <1>2, <2>1, <2>2
  <2> QED BY <1>3, <2>1, <2>3
<1>7. f \in [D -> kept] BY <1>6
<1>8. \A j, k \in D : f[j] = f[k] => j = k
  <2>1. \A j \in D : f[j].id = j OBVIOUS
  <2> QED BY <2>1, Zenon
<1> HIDE DEF kept, D, f
<1>9. f \in Injection(D, kept) BY <1>7, <1>8 DEF Injection, IsInjective
<1>10. Cardinality(D) <= Cardinality(kept) BY <1>5, <1>9, FS_Injection
<1> QED BY <1>5, <1>10 DEF kept, D

LEMMA BucketPasses ==
  ASSUME NEW sn \in Seq(ServedRow), NEW S \in SUBSET (1 .. Len(sn)), NEW boots \in Nat,
         NEW clock \in Nat, NEW limit \in Nat \ {0}, NEW span \in Nat, NEW calls,
         InTime(sn, boots, clock), Bucket(calls, sn, S, boots, clock, limit, span),
         NEW row \in ServedRow, row.boot = boots, row.at = clock,
         Cardinality({c \in calls : c.at >= clock - span}) < limit,
         NEW tn, tn = Append(sn, row)
  PROVE  Bucket({c \in calls : c.at >= clock - span} \cup {[id |-> Len(sn) + 1, at |-> clock]},
                tn, S \cup {Len(sn) + 1}, boots, clock, limit, span)
<1> DEFINE kept == {c \in calls : c.at >= clock - span}
           n == Len(sn) + 1
           new == [id |-> n, at |-> clock]
<1>1. /\ Len(sn) \in Nat /\ tn[n] = row
      /\ \A i \in 1 .. Len(sn) : tn[i] = sn[i] /\ sn[i] \in ServedRow
  BY ServedGrows
<1>2. \A i \in S : /\ i \in 1 .. Len(sn) /\ i < n /\ tn[i] = sn[i]
                   /\ sn[i].at \in Nat /\ sn[i].boot \in Nat /\ sn[i].at <= clock
  BY <1>1 DEF ServedRow, InTime
<1>3. /\ calls \in SUBSET GateCall /\ IsFiniteSet(calls) /\ Within(sn, limit, span, S)
      /\ \A i \in S : sn[i].boot = boots /\ sn[i].at >= clock - span => [id |-> i, at |-> sn[i].at] \in calls
  BY DEF Bucket
<1>4. kept \cup {new} \in SUBSET GateCall BY <1>1, <1>3 DEF GateCall
<1>5. IsFiniteSet(kept \cup {new})
  <2>1. kept \in SUBSET calls OBVIOUS
  <2>2. IsFiniteSet(kept) BY <1>3, <2>1, FS_Subset
  <2> QED BY <2>2, FS_AddElement
<1>6. \A i \in S \cup {n} :
        tn[i].boot = boots /\ tn[i].at >= clock - span => [id |-> i, at |-> tn[i].at] \in kept \cup {new}
  <2>1. ASSUME NEW i \in S, tn[i].boot = boots, tn[i].at >= clock - span
        PROVE  [id |-> i, at |-> tn[i].at] \in kept
    BY <1>2, <1>3, <2>1
  <2>2. [id |-> n, at |-> tn[n].at] = new BY <1>1
  <2> QED BY <2>1, <2>2
<1> HIDE DEF kept, new
<1>7. ASSUME NEW i \in S \cup {n} PROVE Cardinality(From(tn, S \cup {n}, i, span)) <= limit
  <2>0. n \in Nat /\ n \notin S /\ tn[n].boot = boots /\ tn[n].at = clock BY <1>1, <1>2
  <2>1. CASE i = n
    <3>1. \A j \in S : ~(j >= i) BY <1>1, <1>2, <2>1
    <3>2. tn[n].at - tn[n].at <= span BY <2>0
    <3>3. \A j : j \in From(tn, S \cup {n}, i, span) <=> j = n
      <4>1. n \in From(tn, S \cup {n}, n, span)
        <5>1. n >= n BY <2>0
        <5> HIDE DEF n
        <5> QED BY <3>2, <5>1 DEF From
      <4>2. \A j \in From(tn, S \cup {n}, i, span) : j \in S \cup {n} /\ j >= i BY DEF From
      <4> QED BY <2>1, <3>1, <4>1, <4>2
    <3>4. From(tn, S \cup {n}, i, span) = {n} BY <3>3
    <3>5. Cardinality(From(tn, S \cup {n}, i, span)) = 1 BY <3>4, FS_Singleton, Zenon
    <3> QED BY <3>5
  <2>2. CASE i \in S /\ sn[i].boot = boots /\ clock - sn[i].at <= span
    <3>1. From(tn, S \cup {n}, i, span) = From(sn, S, i, span) \cup {n}
      <4>1. tn[n].boot = tn[i].boot /\ n >= i /\ tn[n].at - tn[i].at <= span
        BY <1>2, <2>0, <2>2
      <4>2. \A j \in S : tn[j] = sn[j] BY <1>2
      <4> QED BY <2>2, <4>1, <4>2 DEF From
    <3>2. IsFiniteSet(kept) /\ Cardinality(From(sn, S, i, span)) <= Cardinality(kept)
      <4>1. IsFiniteSet({c \in calls : c.at >= clock - span})
            /\ Cardinality(From(sn, S, i, span)) <= Cardinality({c \in calls : c.at >= clock - span})
        <5>1. i \in S /\ sn[i].boot = boots /\ clock - sn[i].at <= span BY <2>2
        <5> HIDE DEF n
        <5> QED BY <5>1, SharedAreKept
      <4> QED BY <4>1 DEF kept
    <3>3. Cardinality(kept) < limit BY DEF kept
    <3>4. IsFiniteSet(From(sn, S, i, span)) BY FromIsFinite
    <3>5. Cardinality(kept) \in Nat /\ Cardinality(From(sn, S, i, span)) \in Nat
      BY <3>2, <3>4, FS_CardinalityType
    <3>6. n \notin From(sn, S, i, span) BY <1>2 DEF From
    <3>7. Cardinality(From(sn, S, i, span) \cup {n}) = Cardinality(From(sn, S, i, span)) + 1
      BY <3>4, <3>6, FS_AddElement
    <3>8. Cardinality(From(sn, S, i, span)) + 1 <= limit BY <3>2, <3>3, <3>5
    <3> QED BY <3>1, <3>7, <3>8
  <2>3. CASE i \in S /\ ~(sn[i].boot = boots /\ clock - sn[i].at <= span)
    <3>1. From(tn, S \cup {n}, i, span) = From(sn, S, i, span) BY <1>1, <1>2, <2>3 DEF From
    <3> QED BY <1>3, <2>3, <3>1 DEF Within
  <2> QED BY <2>1, <2>2, <2>3
<1>8. Within(tn, limit, span, S \cup {n}) BY <1>7 DEF Within
<1> HIDE DEF n
<1>9. Bucket(kept \cup {new}, tn, S \cup {n}, boots, clock, limit, span)
  BY <1>4, <1>5, <1>6, <1>8 DEF Bucket
<1> QED BY <1>9 DEF kept, new, n

LEMMA BucketDenies ==
  ASSUME NEW sn \in Seq(ServedRow), NEW S \in SUBSET (1 .. Len(sn)), NEW boots, NEW clock \in Nat,
         NEW limit, NEW span \in Nat, NEW calls, Bucket(calls, sn, S, boots, clock, limit, span),
         NEW row \in ServedRow, NEW tn, tn = Append(sn, row),
         NEW left, left = calls \/ left = {c \in calls : c.at >= clock - span}
  PROVE  Bucket(left, tn, S, boots, clock, limit, span)
<1>0. \A i \in 1 .. Len(sn) : tn[i] = sn[i] /\ sn[i] \in ServedRow BY ServedGrows
<1>1. \A i \in S : tn[i] = sn[i] /\ sn[i].at \in Nat BY <1>0 DEF ServedRow
<1>2. /\ calls \in SUBSET GateCall /\ IsFiniteSet(calls) /\ Within(sn, limit, span, S)
      /\ \A i \in S : sn[i].boot = boots /\ sn[i].at >= clock - span => [id |-> i, at |-> sn[i].at] \in calls
  BY DEF Bucket
<1>3. left \in SUBSET calls OBVIOUS
<1>4. IsFiniteSet(left) /\ left \in SUBSET GateCall BY <1>2, <1>3, FS_Subset
<1>5. \A i \in S : tn[i].boot = boots /\ tn[i].at >= clock - span => [id |-> i, at |-> tn[i].at] \in left
  BY <1>1, <1>2
<1>6. \A i \in S : From(tn, S, i, span) = From(sn, S, i, span) BY <1>1 DEF From
<1>7. Within(tn, limit, span, S) BY <1>2, <1>6 DEF Within
<1> QED BY <1>4, <1>5, <1>7 DEF Bucket

LEMMA BucketLater ==
  ASSUME NEW sn \in Seq(ServedRow), NEW S \in SUBSET (1 .. Len(sn)), NEW boots, NEW clock \in Nat,
         NEW limit, NEW span \in Nat, NEW calls, Bucket(calls, sn, S, boots, clock, limit, span),
         NEW later \in Nat, later >= clock
  PROVE  Bucket(calls, sn, S, boots, later, limit, span)
<1>0. \A i \in 1 .. Len(sn) : sn[i] \in ServedRow BY ElementOfSeq
<1>1. \A i \in S : sn[i].at \in Nat BY <1>0 DEF ServedRow
<1>2. /\ calls \in SUBSET GateCall /\ IsFiniteSet(calls) /\ Within(sn, limit, span, S)
      /\ \A i \in S : sn[i].boot = boots /\ sn[i].at >= clock - span => [id |-> i, at |-> sn[i].at] \in calls
  BY DEF Bucket
<1>3. \A i \in S : sn[i].at >= later - span => sn[i].at >= clock - span BY <1>1
<1>4. \A i \in S : sn[i].boot = boots /\ sn[i].at >= later - span => [id |-> i, at |-> sn[i].at] \in calls
  BY <1>2, <1>3
<1> QED BY <1>2, <1>4 DEF Bucket

LEMMA BucketEmptied ==
  ASSUME NEW sn \in Seq(ServedRow), NEW S \in SUBSET (1 .. Len(sn)), NEW boots \in Nat,
         NEW clock \in Nat, NEW limit, NEW span \in Nat, NEW calls,
         Bucket(calls, sn, S, boots, clock, limit, span), InTime(sn, boots, clock)
  PROVE  Bucket({}, sn, S, boots + 1, clock, limit, span)
<1>0. \A i \in 1 .. Len(sn) : sn[i] \in ServedRow BY ElementOfSeq
<1>1. \A i \in S : sn[i].boot \in Nat /\ sn[i].boot <= boots BY <1>0 DEF ServedRow, InTime
<1>2. IsFiniteSet({}) BY FS_EmptySet
<1>3. Within(sn, limit, span, S) BY DEF Bucket
<1>4. \A i \in S : sn[i].boot # boots + 1 BY <1>1
<1> QED BY <1>2, <1>3, <1>4 DEF Bucket

-----------------------------------------------------------------------------
LEMMA UnionsOfCalls ==
  ASSUME NEW mine, NEW r
  PROVE  \A i : i \in UNION {x.calls : x \in mine \cup {r}} <=>
                i \in UNION {x.calls : x \in mine} \/ i \in r.calls
<1> SUFFICES ASSUME NEW i
             PROVE  i \in UNION {x.calls : x \in mine \cup {r}} <=>
                    i \in UNION {x.calls : x \in mine} \/ i \in r.calls
  OBVIOUS
<1>1. i \in UNION {x.calls : x \in mine \cup {r}} <=> \E x \in mine \cup {r} : i \in x.calls OBVIOUS
<1>2. i \in UNION {x.calls : x \in mine} <=> \E x \in mine : i \in x.calls OBVIOUS
<1> QED BY <1>1, <1>2

(* The reports: more calls, none or one, are counted and reported ...       *)
LEMMA AccountsReported ==
  ASSUME NEW lost, NEW mine \in SUBSET ReportSet, NEW w \in WindowState, NEW Q \in SUBSET Nat,
         NEW clock \in Nat, Accounts(lost, mine, w, Q, clock),
         NEW more \in SUBSET Nat, more \cap Q = {},
         NEW r \in ReportSet, r.calls = w.calls \cup more,
         r.start = IF w.since = -1 THEN clock ELSE w.since, r.end = clock
  PROVE  Accounts(lost, mine \cup {r}, [calls |-> {}, since |-> clock], Q \cup more, clock)
<1>0. /\ w.since # -1 => w.since <= clock
      /\ w.calls \subseteq Q
      /\ \A x \in mine : /\ x.calls \subseteq Q /\ x.start <= x.end /\ x.end <= clock
                         /\ w.since # -1 => x.end <= w.since
      /\ lost = 0 => (UNION {x.calls : x \in mine}) \cup w.calls = Q
      /\ \A x \in mine : x.calls \cap w.calls = {}
      /\ \A x, q \in mine :
           \/ x = q
           \/ x.calls \cap q.calls = {} /\ (x.end <= q.start \/ q.end <= x.start)
  BY DEF Accounts
<1> DEFINE v == [calls |-> {}, since |-> clock]
<1>1. v.calls = {} /\ v.since = clock /\ v.since # -1 OBVIOUS
<1>2. w.since \in Nat \cup {-1} BY DEF WindowState
<1>3. r.start <= r.end /\ r.start \in Nat BY <1>0, <1>2
<1>4. \A x \in mine : x.end \in Nat /\ x.start \in Nat BY DEF ReportSet
<1>5. \A x \in mine : x.end <= r.start BY <1>0, <1>2, <1>4
<1>6. \A x \in mine : x.calls \cap r.calls = {} BY <1>0
<1>7. lost = 0 => (UNION {x.calls : x \in mine \cup {r}}) \cup v.calls = Q \cup more
  <2>1. \A i : i \in UNION {x.calls : x \in mine \cup {r}} <=>
               i \in UNION {x.calls : x \in mine} \/ i \in r.calls
    BY UnionsOfCalls
  <2>2. \A i : i \in r.calls <=> i \in w.calls \/ i \in more OBVIOUS
  <2> HIDE DEF v
  <2>3. ASSUME lost = 0
        PROVE  \A i : i \in (UNION {x.calls : x \in mine \cup {r}}) \cup v.calls <=> i \in Q \cup more
    <3>1. \A i : i \in UNION {x.calls : x \in mine} \/ i \in w.calls <=> i \in Q BY <1>0, <2>3
    <3> QED BY <1>1, <2>1, <2>2, <3>1
  <2> QED BY <2>3
<1> HIDE DEF v
<1>8. \A x \in mine \cup {r} :
        /\ x.calls \subseteq Q \cup more /\ x.start <= x.end /\ x.end <= clock
        /\ v.since # -1 => x.end <= v.since
  BY <1>0, <1>1, <1>3
<1>9. \A x, q \in mine \cup {r} :
        \/ x = q
        \/ x.calls \cap q.calls = {} /\ (x.end <= q.start \/ q.end <= x.start)
  BY <1>0, <1>5, <1>6
<1>10. Accounts(lost, mine \cup {r}, v, Q \cup more, clock)
  BY <1>1, <1>7, <1>8, <1>9 DEF Accounts
<1> QED BY <1>10 DEF v

(* ... or counted.                                                          *)
LEMMA AccountsCounted ==
  ASSUME NEW lost, NEW mine \in SUBSET ReportSet, NEW w \in WindowState, NEW Q \in SUBSET Nat,
         NEW clock \in Nat, Accounts(lost, mine, w, Q, clock),
         NEW more \in SUBSET Nat, more \cap Q = {},
         NEW v, v = [calls |-> w.calls \cup more, since |-> IF w.since = -1 THEN clock ELSE w.since]
  PROVE  Accounts(lost, mine, v, Q \cup more, clock)
<1>0. /\ w.since # -1 => w.since <= clock
      /\ w.calls \subseteq Q
      /\ \A x \in mine : /\ x.calls \subseteq Q /\ x.start <= x.end /\ x.end <= clock
                         /\ w.since # -1 => x.end <= w.since
      /\ lost = 0 => (UNION {x.calls : x \in mine}) \cup w.calls = Q
      /\ \A x \in mine : x.calls \cap w.calls = {}
      /\ \A x, q \in mine :
           \/ x = q
           \/ x.calls \cap q.calls = {} /\ (x.end <= q.start \/ q.end <= x.start)
  BY DEF Accounts
<1>1. v.calls = w.calls \cup more /\ v.since = IF w.since = -1 THEN clock ELSE w.since OBVIOUS
<1>2. w.since \in Nat \cup {-1} BY DEF WindowState
<1>3. v.since <= clock BY <1>0, <1>1, <1>2
<1>4. \A x \in mine : x.calls \subseteq Q \cup more /\ x.end <= v.since BY <1>0, <1>1
<1>5. \A x \in mine : x.calls \cap v.calls = {} BY <1>0, <1>1
<1>6. ASSUME lost = 0 PROVE (UNION {x.calls : x \in mine}) \cup v.calls = Q \cup more
  <2> DEFINE before == UNION {x.calls : x \in mine}
  <2>1. before \cup w.calls = Q BY <1>0, <1>6
  <2> HIDE DEF before
  <2>2. before \cup v.calls = Q \cup more BY <1>1, <2>1
  <2> QED BY <2>2 DEF before
<1> QED BY <1>0, <1>1, <1>3, <1>4, <1>5, <1>6 DEF Accounts

(* Time passes, a report is written or lost, or the process starts anew.    *)
LEMMA AccountsLater ==
  ASSUME NEW lost, NEW mine \in SUBSET ReportSet, NEW w \in WindowState, NEW Q,
         NEW clock \in Nat, Accounts(lost, mine, w, Q, clock),
         NEW later \in Nat, later >= clock, NEW v, v = w \/ v = NotOpen, NEW left \in SUBSET mine,
         NEW worse, worse = 0 => lost = 0 /\ left = mine /\ v = w
  PROVE  Accounts(worse, left, v, Q, later)
<1>0. /\ w.since # -1 => w.since <= clock
      /\ w.calls \subseteq Q
      /\ \A x \in mine : /\ x.calls \subseteq Q /\ x.start <= x.end /\ x.end <= clock
                         /\ w.since # -1 => x.end <= w.since
      /\ lost = 0 => (UNION {x.calls : x \in mine}) \cup w.calls = Q
      /\ \A x \in mine : x.calls \cap w.calls = {}
      /\ \A x, q \in mine :
           \/ x = q
           \/ x.calls \cap q.calls = {} /\ (x.end <= q.start \/ q.end <= x.start)
  BY DEF Accounts
<1>1. v.calls \subseteq w.calls /\ (v.since # -1 => v.since = w.since) BY DEF NotOpen
<1>2. w.since \in Nat \cup {-1} BY DEF WindowState
<1>3. \A x \in left : x \in mine /\ x.end \in Nat BY DEF ReportSet
<1>4. v.since # -1 => v.since <= later BY <1>0, <1>1, <1>2
<1>5. \A x \in left : /\ x.calls \subseteq Q /\ x.start <= x.end /\ x.end <= later
                      /\ v.since # -1 => x.end <= v.since
  BY <1>0, <1>1, <1>3
<1>6. worse = 0 => (UNION {x.calls : x \in left}) \cup v.calls = Q BY <1>0
<1>7. v.calls \subseteq Q /\ \A x \in left : x.calls \cap v.calls = {} BY <1>0, <1>1, <1>3
<1>8. \A x, q \in left :
        \/ x = q
        \/ x.calls \cap q.calls = {} /\ (x.end <= q.start \/ q.end <= x.start)
  BY <1>0, <1>3
<1> QED BY <1>4, <1>5, <1>6, <1>7, <1>8 DEF Accounts

-----------------------------------------------------------------------------
LEMMA RowSeen ==
  ASSUME GateInv, NEW t \in Tenants, NEW passed \in SUBSET {"rate", "quota"}, Seen(t, passed),
         NEW row, row = [tenant |-> t, at |-> now, boot |-> boot, passed |-> passed]
  PROVE  /\ now \in Nat /\ boot \in Nat /\ InTime(served, boot, now)
         /\ row \in ServedRow /\ served' = Append(served, row) /\ row.tenant = t
         /\ row.passed = passed /\ row.at = now /\ row.boot = boot
         /\ served \in Seq(ServedRow) /\ served' \in Seq(ServedRow)
         /\ Len(served) \in Nat /\ Len(served') = Len(served) + 1
         /\ \A i \in 1 .. Len(served) : served'[i] = served[i] /\ served[i] \in ServedRow
         /\ served'[Len(served) + 1] = row
         /\ \A i : i \in 1 .. Len(served') <=> i \in 1 .. Len(served) \/ i = Len(served) + 1
<1>0. now \in Nat /\ boot \in Nat /\ served \in Seq(ServedRow) /\ InTime(served, boot, now)
  BY DEF GateInv, GateType
<1>1. row \in ServedRow BY <1>0 DEF ServedRow
<1>2. served' = Append(served, row) BY DEF Seen
<1>3. row.tenant = t /\ row.passed = passed /\ row.at = now /\ row.boot = boot OBVIOUS
<1>4. /\ Len(served) \in Nat /\ served' \in Seq(ServedRow) /\ Len(served') = Len(served) + 1
      /\ \A i \in 1 .. Len(served) : served'[i] = served[i] /\ served[i] \in ServedRow
      /\ served'[Len(served) + 1] = row
  BY <1>0, <1>1, <1>2, ServedGrows
<1>5. \A i : i \in 1 .. Len(served') <=> i \in 1 .. Len(served) \/ i = Len(served) + 1 BY <1>4
<1> QED BY <1>0, <1>1, <1>2, <1>3, <1>4, <1>5

LEMMA PassedAfter ==
  ASSUME GateInv, NEW t \in Tenants, NEW passed \in SUBSET {"rate", "quota"}, Seen(t, passed),
         NEW u, NEW what
  PROVE  /\ Passed(u, what) \in SUBSET Nat /\ ThisCall \notin Passed(u, what)
         /\ u = t /\ what \in passed => Passed(u, what)' = Passed(u, what) \cup {ThisCall}
         /\ u # t \/ what \notin passed => Passed(u, what)' = Passed(u, what)
<1>1. PICK row : row = [tenant |-> t, at |-> now, boot |-> boot, passed |-> passed] OBVIOUS
<1>2. /\ row.tenant = t /\ row.passed = passed /\ Len(served) \in Nat
      /\ \A i \in 1 .. Len(served) : served'[i] = served[i]
      /\ served'[Len(served) + 1] = row
      /\ \A i : i \in 1 .. Len(served') <=> i \in 1 .. Len(served) \/ i = Len(served) + 1
  BY <1>1, RowSeen
<1>3. Passed(u, what) \in SUBSET (1 .. Len(served)) BY DEF Passed
<1>4. Passed(u, what) \in SUBSET Nat /\ ThisCall \notin Passed(u, what)
  BY <1>2, <1>3 DEF ThisCall
<1>5. \A i : i \in Passed(u, what)' <=>
               i \in Passed(u, what) \/ (i = ThisCall /\ u = t /\ what \in passed)
  BY <1>2 DEF Passed, ThisCall
<1> QED BY <1>4, <1>5

LEMMA StillInTime ==
  ASSUME GateInv, NEW t \in Tenants, NEW passed \in SUBSET {"rate", "quota"}, Seen(t, passed),
         now' = now, boot' = boot
  PROVE  InTime(served, boot, now)'
<1>1. PICK row : row = [tenant |-> t, at |-> now, boot |-> boot, passed |-> passed] OBVIOUS
<1>2. /\ now \in Nat /\ boot \in Nat /\ InTime(served, boot, now) /\ Len(served) \in Nat
      /\ row.at = now /\ row.boot = boot
      /\ \A i \in 1 .. Len(served) : served'[i] = served[i]
      /\ served'[Len(served) + 1] = row
      /\ \A i : i \in 1 .. Len(served') <=> i \in 1 .. Len(served) \/ i = Len(served) + 1
  BY <1>1, RowSeen
<1>3. \A i \in 1 .. Len(served) : served[i].at <= now /\ served[i].boot <= boot
  BY <1>2 DEF InTime
<1>4. \A i \in 1 .. Len(served') : served'[i].at <= now /\ served'[i].boot <= boot
  BY <1>2, <1>3
<1>5. \A i, j \in 1 .. Len(served) : i <= j => served[i].at <= served[j].at BY <1>2 DEF InTime
<1>6. ASSUME NEW i \in 1 .. Len(served'), NEW j \in 1 .. Len(served'), i <= j
      PROVE  served'[i].at <= served'[j].at
  <2>1. CASE j = Len(served) + 1 BY <1>2, <1>4, <2>1
  <2>2. CASE j # Len(served) + 1
    <3>1. j \in 1 .. Len(served) /\ i \in 1 .. Len(served) BY <1>2, <1>6, <2>2
    <3> QED BY <1>2, <1>5, <1>6, <3>1
  <2> QED BY <2>1, <2>2
<1> QED BY <1>4, <1>6 DEF InTime

LEMMA GateParts ==
  ASSUME GateInv, NEW t \in Tenants
  PROVE  /\ now \in Nat /\ boot \in Nat /\ gate_faults \in Nat
         /\ served \in Seq(ServedRow) /\ InTime(served, boot, now)
         /\ Passed(t, "rate") \in SUBSET (1 .. Len(served))
         /\ Passed(t, "quota") \in SUBSET (1 .. Len(served)) /\ Passed(t, "quota") \in SUBSET Nat
         /\ Mine(t) \in SUBSET ReportSet /\ window[t] \in WindowState
         /\ Bucket(recent[t], served, Passed(t, "rate"), boot, now, Rate, RateWindow)
         /\ Bucket(consumed[t], served, Passed(t, "quota"), boot, now, Quota, QuotaWindow)
         /\ Accounts(gate_faults, Mine(t), window[t], Passed(t, "quota"), now)
<1>1. /\ now \in Nat /\ boot \in Nat /\ gate_faults \in Nat
      /\ served \in Seq(ServedRow) /\ InTime(served, boot, now)
  BY DEF GateInv, GateType
<1>2. Len(served) \in Nat BY <1>1, LenProperties
<1>3. /\ Passed(t, "rate") \in SUBSET (1 .. Len(served))
      /\ Passed(t, "quota") \in SUBSET (1 .. Len(served)) /\ Passed(t, "quota") \in SUBSET Nat
  BY <1>2 DEF Passed
<1>4. Mine(t) \in SUBSET ReportSet /\ window[t] \in WindowState BY DEF GateInv, GateType, Mine
<1>5. /\ Bucket(recent[t], served, Passed(t, "rate"), boot, now, Rate, RateWindow)
      /\ Bucket(consumed[t], served, Passed(t, "quota"), boot, now, Quota, QuotaWindow)
      /\ Accounts(gate_faults, Mine(t), window[t], Passed(t, "quota"), now)
  BY DEF GateInv, BucketsHold, TenantsTold
<1> QED BY <1>1, <1>3, <1>4, <1>5

(* Report: a report of the tenant's more, and an open window anew.          *)
LEMMA ReportAdds ==
  ASSUME GateInv, NEW t \in Tenants, NEW calls \in SUBSET Nat,
         NEW reason \in {"count_threshold", "time_threshold", "quota_exhausted"},
         Report(t, calls, reason), reported' = reported
  PROVE  \E r \in ReportSet :
           /\ r.calls = calls /\ r.end = now
           /\ r.start = IF window[t].since = -1 THEN now ELSE window[t].since
           /\ reports' \subseteq ReportSet /\ window' \in [Tenants -> WindowState]
           /\ Mine(t)' = Mine(t) \cup {r} /\ window'[t] = [calls |-> {}, since |-> now]
           /\ \A u \in Tenants : u # t => Mine(u)' = Mine(u) /\ window'[u] = window[u]
<1>0. /\ now \in Nat /\ served \in Seq(ServedRow) /\ window \in [Tenants -> WindowState]
      /\ reports \subseteq ReportSet
  BY DEF GateInv, GateType
<1>1. PICK r : r = [tenant |-> t, calls |-> calls, start |-> Since(t), end |-> now,
                    reason |-> reason, id |-> ThisCall]
  OBVIOUS
<1>2. Len(served) \in Nat BY <1>0, LenProperties
<1>3. window[t].since \in Nat \cup {-1} BY <1>0 DEF WindowState
<1>4. Since(t) \in Nat BY <1>0, <1>3 DEF Since
<1>5. ThisCall \in Nat BY <1>2 DEF ThisCall
<1>6. r \in ReportSet BY <1>0, <1>1, <1>4, <1>5 DEF ReportSet
<1>7. /\ r.tenant = t /\ r.calls = calls /\ r.end = now
      /\ r.start = IF window[t].since = -1 THEN now ELSE window[t].since
  BY <1>1 DEF Since
<1>8. reports' = reports \cup {r} /\ window' = [window EXCEPT ![t] = [calls |-> {}, since |-> now]]
  BY <1>1 DEF Report
<1>9. [calls |-> {}, since |-> now] \in WindowState BY <1>0 DEF WindowState
<1>10. /\ window' \in [Tenants -> WindowState] /\ window'[t] = [calls |-> {}, since |-> now]
       /\ \A u \in Tenants : u # t => window'[u] = window[u]
  BY <1>0, <1>8, <1>9
<1>11. Mine(t)' = Mine(t) \cup {r} BY <1>7, <1>8 DEF Mine
<1>12. \A u \in Tenants : u # t => Mine(u)' = Mine(u) BY <1>7, <1>8 DEF Mine
<1> QED BY <1>0, <1>6, <1>7, <1>8, <1>10, <1>11, <1>12

(* A tenant whose buckets, window and reports a request leaves alone.       *)
LEMMA LeftAlone ==
  ASSUME GateInv, NEW t \in Tenants, NEW passed \in SUBSET {"rate", "quota"}, Seen(t, passed),
         now' = now, boot' = boot, NEW u \in Tenants
  PROVE  /\ /\ u # t \/ "rate" \notin passed
            /\ recent'[u] = recent[u] \/ recent'[u] = InWindow(recent[u], RateWindow)
            => Bucket(recent[u], served, Passed(u, "rate"), boot, now, Rate, RateWindow)'
         /\ /\ u # t \/ "quota" \notin passed
            /\ consumed'[u] = consumed[u] \/ consumed'[u] = InWindow(consumed[u], QuotaWindow)
            => Bucket(consumed[u], served, Passed(u, "quota"), boot, now, Quota, QuotaWindow)'
         /\ /\ u # t \/ "quota" \notin passed
            /\ Mine(u)' = Mine(u) /\ window'[u] = window[u] /\ gate_faults' = gate_faults
            => Accounts(gate_faults, Mine(u), window[u], Passed(u, "quota"), now)'
<1>0. PICK row : row = [tenant |-> t, at |-> now, boot |-> boot, passed |-> passed] OBVIOUS
<1>1. /\ now \in Nat /\ boot \in Nat /\ served \in Seq(ServedRow)
      /\ Passed(u, "rate") \in SUBSET (1 .. Len(served))
      /\ Passed(u, "quota") \in SUBSET (1 .. Len(served))
      /\ Bucket(recent[u], served, Passed(u, "rate"), boot, now, Rate, RateWindow)
      /\ Bucket(consumed[u], served, Passed(u, "quota"), boot, now, Quota, QuotaWindow)
      /\ Accounts(gate_faults, Mine(u), window[u], Passed(u, "quota"), now)
  BY GateParts
<1>2. row \in ServedRow /\ served' = Append(served, row) BY <1>0, RowSeen
<1>3. /\ u # t \/ "rate" \notin passed => Passed(u, "rate")' = Passed(u, "rate")
      /\ u # t \/ "quota" \notin passed => Passed(u, "quota")' = Passed(u, "quota")
  BY PassedAfter
<1>4. Rate \in Nat \ {0} /\ Quota \in Nat \ {0} /\ RateWindow \in Nat /\ QuotaWindow \in Nat
  BY GateBounds
<1>5. ASSUME u # t \/ "rate" \notin passed,
             recent'[u] = recent[u] \/ recent'[u] = InWindow(recent[u], RateWindow)
      PROVE  Bucket(recent[u], served, Passed(u, "rate"), boot, now, Rate, RateWindow)'
  <2>1. Passed(u, "rate")' = Passed(u, "rate") BY <1>3, <1>5
  <2>2. Bucket(recent'[u], served', Passed(u, "rate"), boot, now, Rate, RateWindow)
    BY <1>1, <1>2, <1>4, <1>5, BucketDenies DEF InWindow
  <2> QED BY <2>1, <2>2
<1>6. ASSUME u # t \/ "quota" \notin passed,
             consumed'[u] = consumed[u] \/ consumed'[u] = InWindow(consumed[u], QuotaWindow)
      PROVE  Bucket(consumed[u], served, Passed(u, "quota"), boot, now, Quota, QuotaWindow)'
  <2>1. Passed(u, "quota")' = Passed(u, "quota") BY <1>3, <1>6
  <2>2. Bucket(consumed'[u], served', Passed(u, "quota"), boot, now, Quota, QuotaWindow)
    BY <1>1, <1>2, <1>4, <1>6, BucketDenies DEF InWindow
  <2> QED BY <2>1, <2>2
<1>7. ASSUME u # t \/ "quota" \notin passed, Mine(u)' = Mine(u), window'[u] = window[u],
             gate_faults' = gate_faults
      PROVE  Accounts(gate_faults, Mine(u), window[u], Passed(u, "quota"), now)'
  <2>1. Passed(u, "quota")' = Passed(u, "quota") BY <1>3, <1>7
  <2> QED BY <1>1, <1>7, <2>1
<1> QED BY <1>5, <1>6, <1>7

(* A bucket that lets a call pass.                                          *)
LEMMA LetPass ==
  ASSUME GateInv, NEW t \in Tenants, NEW passed \in SUBSET {"rate", "quota"}, Seen(t, passed),
         now' = now, boot' = boot
  PROVE  /\ /\ "rate" \in passed /\ Cardinality(InWindow(recent[t], RateWindow)) < Rate
            /\ recent'[t] = Counted(recent[t], RateWindow)
            => Bucket(recent[t], served, Passed(t, "rate"), boot, now, Rate, RateWindow)'
         /\ /\ "quota" \in passed /\ Cardinality(InWindow(consumed[t], QuotaWindow)) < Quota
            /\ consumed'[t] = Counted(consumed[t], QuotaWindow)
            => Bucket(consumed[t], served, Passed(t, "quota"), boot, now, Quota, QuotaWindow)'
<1>1. PICK row : row = [tenant |-> t, at |-> now, boot |-> boot, passed |-> passed] OBVIOUS
<1>2. /\ now \in Nat /\ boot \in Nat /\ served \in Seq(ServedRow) /\ InTime(served, boot, now)
      /\ Passed(t, "rate") \in SUBSET (1 .. Len(served))
      /\ Passed(t, "quota") \in SUBSET (1 .. Len(served))
      /\ Bucket(recent[t], served, Passed(t, "rate"), boot, now, Rate, RateWindow)
      /\ Bucket(consumed[t], served, Passed(t, "quota"), boot, now, Quota, QuotaWindow)
  BY GateParts
<1>3. row \in ServedRow /\ served' = Append(served, row) BY <1>1, RowSeen
<1>4. /\ "rate" \in passed => Passed(t, "rate")' = Passed(t, "rate") \cup {Len(served) + 1}
      /\ "quota" \in passed => Passed(t, "quota")' = Passed(t, "quota") \cup {Len(served) + 1}
  BY PassedAfter DEF ThisCall
<1>5. row.boot = boot /\ row.at = now BY <1>1
<1>6. Rate \in Nat \ {0} /\ Quota \in Nat \ {0} /\ RateWindow \in Nat /\ QuotaWindow \in Nat
  BY GateBounds
<1>7. ASSUME "rate" \in passed, Cardinality(InWindow(recent[t], RateWindow)) < Rate,
             recent'[t] = Counted(recent[t], RateWindow)
      PROVE  Bucket(recent[t], served, Passed(t, "rate"), boot, now, Rate, RateWindow)'
  <2>1. Bucket(Counted(recent[t], RateWindow), served', Passed(t, "rate") \cup {Len(served) + 1},
               boot, now, Rate, RateWindow)
    <3>1. Counted(recent[t], RateWindow) =
            {c \in recent[t] : c.at >= now - RateWindow} \cup {[id |-> Len(served) + 1, at |-> now]}
      BY DEF Counted, InWindow, ThisCall
    <3>2. Cardinality({c \in recent[t] : c.at >= now - RateWindow}) < Rate BY <1>7 DEF InWindow
    <3>3. PICK S : S = Passed(t, "rate") OBVIOUS
    <3>4. PICK clock, boots, sn, tn : clock = now /\ boots = boot /\ sn = served /\ tn = served' OBVIOUS
    <3>5. PICK calls : calls = recent[t] OBVIOUS
    <3>6. /\ sn \in Seq(ServedRow) /\ S \in SUBSET (1 .. Len(sn)) /\ boots \in Nat /\ clock \in Nat
          /\ InTime(sn, boots, clock) /\ Bucket(calls, sn, S, boots, clock, Rate, RateWindow)
          /\ tn = Append(sn, row) /\ row.boot = boots /\ row.at = clock
          /\ Cardinality({c \in calls : c.at >= clock - RateWindow}) < Rate
      BY <1>2, <1>3, <1>5, <3>2, <3>3, <3>4, <3>5
    <3>7. Rate \in Nat \ {0} /\ RateWindow \in Nat /\ row \in ServedRow BY <1>3, <1>6
    <3>8. Bucket({c \in calls : c.at >= clock - RateWindow} \cup {[id |-> Len(sn) + 1, at |-> clock]},
                 tn, S \cup {Len(sn) + 1}, boots, clock, Rate, RateWindow)
      BY <3>6, <3>7, BucketPasses
    <3> QED BY <3>1, <3>3, <3>4, <3>5, <3>8
  <2>2. Passed(t, "rate")' = Passed(t, "rate") \cup {Len(served) + 1} BY <1>4, <1>7
  <2> QED BY <1>7, <2>1, <2>2
<1>8. ASSUME "quota" \in passed, Cardinality(InWindow(consumed[t], QuotaWindow)) < Quota,
             consumed'[t] = Counted(consumed[t], QuotaWindow)
      PROVE  Bucket(consumed[t], served, Passed(t, "quota"), boot, now, Quota, QuotaWindow)'
  <2>1. Bucket(Counted(consumed[t], QuotaWindow), served', Passed(t, "quota") \cup {Len(served) + 1},
               boot, now, Quota, QuotaWindow)
    <3>1. Counted(consumed[t], QuotaWindow) =
            {c \in consumed[t] : c.at >= now - QuotaWindow} \cup {[id |-> Len(served) + 1, at |-> now]}
      BY DEF Counted, InWindow, ThisCall
    <3>2. Cardinality({c \in consumed[t] : c.at >= now - QuotaWindow}) < Quota BY <1>8 DEF InWindow
    <3>3. PICK S : S = Passed(t, "quota") OBVIOUS
    <3>4. PICK clock, boots, sn, tn : clock = now /\ boots = boot /\ sn = served /\ tn = served' OBVIOUS
    <3>5. PICK calls : calls = consumed[t] OBVIOUS
    <3>6. /\ sn \in Seq(ServedRow) /\ S \in SUBSET (1 .. Len(sn)) /\ boots \in Nat /\ clock \in Nat
          /\ InTime(sn, boots, clock) /\ Bucket(calls, sn, S, boots, clock, Quota, QuotaWindow)
          /\ tn = Append(sn, row) /\ row.boot = boots /\ row.at = clock
          /\ Cardinality({c \in calls : c.at >= clock - QuotaWindow}) < Quota
      BY <1>2, <1>3, <1>5, <3>2, <3>3, <3>4, <3>5
    <3>7. Quota \in Nat \ {0} /\ QuotaWindow \in Nat /\ row \in ServedRow BY <1>3, <1>6
    <3>8. Bucket({c \in calls : c.at >= clock - QuotaWindow} \cup {[id |-> Len(sn) + 1, at |-> clock]},
                 tn, S \cup {Len(sn) + 1}, boots, clock, Quota, QuotaWindow)
      BY <3>6, <3>7, BucketPasses
    <3> QED BY <3>1, <3>3, <3>4, <3>5, <3>8
  <2>2. Passed(t, "quota")' = Passed(t, "quota") \cup {Len(served) + 1} BY <1>4, <1>8
  <2> QED BY <1>8, <2>1, <2>2
<1> QED BY <1>7, <1>8

(* A call is served: what it leaves of its tenant, and of the others.       *)
LEMMA CallServed ==
  ASSUME GateInv, NEW t \in Tenants, NEW passed \in SUBSET {"rate", "quota"}, Seen(t, passed),
         now' = now, boot' = boot, gate_faults' = gate_faults, reported' = reported,
         recent' \in [Tenants -> SUBSET GateCall], consumed' \in [Tenants -> SUBSET GateCall],
         window' \in [Tenants -> WindowState], reports' \subseteq ReportSet,
         \A u \in Tenants :
           u # t => /\ recent'[u] = recent[u] /\ consumed'[u] = consumed[u]
                    /\ window'[u] = window[u] /\ Mine(u)' = Mine(u),
         Bucket(recent[t], served, Passed(t, "rate"), boot, now, Rate, RateWindow)',
         Bucket(consumed[t], served, Passed(t, "quota"), boot, now, Quota, QuotaWindow)',
         Accounts(gate_faults, Mine(t), window[t], Passed(t, "quota"), now)'
  PROVE  GateInv'
<1>1. served' \in Seq(ServedRow)
  <2>1. PICK row : row = [tenant |-> t, at |-> now, boot |-> boot, passed |-> passed] OBVIOUS
  <2> QED BY <2>1, RowSeen
<1>2. GateType' BY <1>1 DEF GateInv, GateType
<1>3. InTime(served, boot, now)' BY StillInTime
<1>4. ASSUME NEW u \in Tenants
      PROVE  /\ Bucket(recent[u], served, Passed(u, "rate"), boot, now, Rate, RateWindow)'
             /\ Bucket(consumed[u], served, Passed(u, "quota"), boot, now, Quota, QuotaWindow)'
             /\ Accounts(gate_faults, Mine(u), window[u], Passed(u, "quota"), now)'
  <2>1. CASE u = t BY <2>1
  <2>2. CASE u # t BY <2>2, LeftAlone
  <2> QED BY <2>1, <2>2
<1>5. BucketsHold' BY <1>4 DEF BucketsHold
<1>6. TenantsTold' BY <1>4 DEF TenantsTold
<1> QED BY <1>2, <1>3, <1>5, <1>6 DEF GateInv

LEMMA CallsInBuckets ==
  ASSUME GateInv, NEW t \in Tenants
  PROVE  /\ recent \in [Tenants -> SUBSET GateCall] /\ consumed \in [Tenants -> SUBSET GateCall]
         /\ InWindow(recent[t], RateWindow) \in SUBSET GateCall
         /\ InWindow(consumed[t], QuotaWindow) \in SUBSET GateCall
         /\ Counted(recent[t], RateWindow) \in SUBSET GateCall
         /\ Counted(consumed[t], QuotaWindow) \in SUBSET GateCall
<1>1. /\ recent \in [Tenants -> SUBSET GateCall] /\ consumed \in [Tenants -> SUBSET GateCall]
      /\ served \in Seq(ServedRow) /\ now \in Nat
  BY DEF GateInv, GateType
<1>2. ThisCall \in Nat BY <1>1, LenProperties DEF ThisCall
<1>3. [id |-> ThisCall, at |-> now] \in GateCall BY <1>1, <1>2 DEF GateCall
<1> QED BY <1>1, <1>3 DEF InWindow, Counted

LEMMA GateDenies ==
  ASSUME GateInv, NEW t \in Tenants, Request(t), Unresolved(t) \/ RateLimited(t)
  PROVE  GateInv'
<1>1. /\ now' = now /\ boot' = boot /\ gate_faults' = gate_faults /\ reported' = reported
  BY DEF Request
<1>2. Seen(t, {}) /\ consumed' = consumed /\ window' = window /\ reports' = reports
  BY DEF Unresolved, RateLimited
<1>3. /\ recent \in [Tenants -> SUBSET GateCall] /\ consumed \in [Tenants -> SUBSET GateCall]
      /\ InWindow(recent[t], RateWindow) \in SUBSET GateCall
  BY CallsInBuckets
<1>4. recent' = recent \/ recent' = [recent EXCEPT ![t] = InWindow(recent[t], RateWindow)]
  BY DEF Unresolved, RateLimited
<1>5. /\ recent' \in [Tenants -> SUBSET GateCall]
      /\ recent'[t] = recent[t] \/ recent'[t] = InWindow(recent[t], RateWindow)
      /\ \A u \in Tenants : u # t => recent'[u] = recent[u]
  BY <1>3, <1>4
<1>6. \A u \in Tenants : Mine(u)' = Mine(u) BY <1>1, <1>2 DEF Mine
<1>7. window' \in [Tenants -> WindowState] /\ reports' \subseteq ReportSet
  BY <1>2 DEF GateInv, GateType
<1>8. /\ Bucket(recent[t], served, Passed(t, "rate"), boot, now, Rate, RateWindow)'
      /\ Bucket(consumed[t], served, Passed(t, "quota"), boot, now, Quota, QuotaWindow)'
      /\ Accounts(gate_faults, Mine(t), window[t], Passed(t, "quota"), now)'
  BY <1>1, <1>2, <1>5, <1>6, LeftAlone
<1> QED BY <1>1, <1>2, <1>3, <1>5, <1>6, <1>7, <1>8, CallServed

LEMMA QuotaDenies ==
  ASSUME GateInv, NEW t \in Tenants, Request(t), QuotaExceeded(t)
  PROVE  GateInv'
<1>1. now' = now /\ boot' = boot /\ gate_faults' = gate_faults /\ reported' = reported
  BY DEF Request
<1>2. /\ Seen(t, {"rate"}) /\ Report(t, window[t].calls, "quota_exhausted")
      /\ Cardinality(InWindow(recent[t], RateWindow)) < Rate
      /\ recent' = [recent EXCEPT ![t] = Counted(recent[t], RateWindow)]
      /\ consumed' = [consumed EXCEPT ![t] = InWindow(consumed[t], QuotaWindow)]
  BY DEF QuotaExceeded, PassRate
<1>3. /\ recent \in [Tenants -> SUBSET GateCall] /\ consumed \in [Tenants -> SUBSET GateCall]
      /\ InWindow(consumed[t], QuotaWindow) \in SUBSET GateCall
      /\ Counted(recent[t], RateWindow) \in SUBSET GateCall
  BY CallsInBuckets
<1>4. /\ recent' \in [Tenants -> SUBSET GateCall] /\ consumed' \in [Tenants -> SUBSET GateCall]
      /\ recent'[t] = Counted(recent[t], RateWindow)
      /\ consumed'[t] = InWindow(consumed[t], QuotaWindow)
      /\ \A u \in Tenants : u # t => recent'[u] = recent[u] /\ consumed'[u] = consumed[u]
  BY <1>2, <1>3
<1>5. window[t] \in WindowState /\ Mine(t) \in SUBSET ReportSet /\ now \in Nat
      /\ Passed(t, "quota") \in SUBSET Nat
      /\ Accounts(gate_faults, Mine(t), window[t], Passed(t, "quota"), now)
  BY GateParts
<1>6. window[t].calls \in SUBSET Nat BY <1>5 DEF WindowState
<1>7. PICK r \in ReportSet :
        /\ r.calls = window[t].calls /\ r.end = now
        /\ r.start = IF window[t].since = -1 THEN now ELSE window[t].since
        /\ reports' \subseteq ReportSet /\ window' \in [Tenants -> WindowState]
        /\ Mine(t)' = Mine(t) \cup {r} /\ window'[t] = [calls |-> {}, since |-> now]
        /\ \A u \in Tenants : u # t => Mine(u)' = Mine(u) /\ window'[u] = window[u]
  BY <1>1, <1>2, <1>6, ReportAdds
<1>8. Bucket(recent[t], served, Passed(t, "rate"), boot, now, Rate, RateWindow)'
  BY <1>1, <1>2, <1>4, LetPass
<1>9. Bucket(consumed[t], served, Passed(t, "quota"), boot, now, Quota, QuotaWindow)'
  BY <1>1, <1>2, <1>4, LeftAlone
<1>10. Accounts(gate_faults, Mine(t), window[t], Passed(t, "quota"), now)'
  <2>1. Passed(t, "quota")' = Passed(t, "quota") BY <1>2, PassedAfter
  <2>2. r.calls = window[t].calls \cup {} BY <1>7
  <2>3. PICK lost, mine, w, Q, clock :
          lost = gate_faults /\ mine = Mine(t) /\ w = window[t] /\ Q = Passed(t, "quota") /\ clock = now
    OBVIOUS
  <2>4. {} \in SUBSET Nat /\ {} \cap Q = {} OBVIOUS
  <2>5. Accounts(lost, mine \cup {r}, [calls |-> {}, since |-> clock], Q \cup {}, clock)
    BY <1>5, <1>7, <2>2, <2>3, <2>4, AccountsReported
  <2> QED BY <1>1, <1>7, <2>1, <2>3, <2>5
<1> QED BY <1>1, <1>2, <1>4, <1>7, <1>8, <1>9, <1>10, CallServed

LEMMA CallAdmitted ==
  ASSUME GateInv, NEW t \in Tenants, Request(t), Admitted(t)
  PROVE  GateInv'
<1>1. now' = now /\ boot' = boot /\ gate_faults' = gate_faults /\ reported' = reported
  BY DEF Request
<1>2. /\ Seen(t, {"rate", "quota"}) /\ TickAndCheckCadence(t)
      /\ Cardinality(InWindow(recent[t], RateWindow)) < Rate
      /\ Cardinality(InWindow(consumed[t], QuotaWindow)) < Quota
      /\ recent' = [recent EXCEPT ![t] = Counted(recent[t], RateWindow)]
      /\ consumed' = [consumed EXCEPT ![t] = Counted(consumed[t], QuotaWindow)]
  BY DEF Admitted, PassRate
<1>3. /\ recent \in [Tenants -> SUBSET GateCall] /\ consumed \in [Tenants -> SUBSET GateCall]
      /\ Counted(consumed[t], QuotaWindow) \in SUBSET GateCall
      /\ Counted(recent[t], RateWindow) \in SUBSET GateCall
  BY CallsInBuckets
<1>4. /\ recent' \in [Tenants -> SUBSET GateCall] /\ consumed' \in [Tenants -> SUBSET GateCall]
      /\ recent'[t] = Counted(recent[t], RateWindow)
      /\ consumed'[t] = Counted(consumed[t], QuotaWindow)
      /\ \A u \in Tenants : u # t => recent'[u] = recent[u] /\ consumed'[u] = consumed[u]
  BY <1>2, <1>3
<1>5. /\ window[t] \in WindowState /\ Mine(t) \in SUBSET ReportSet /\ now \in Nat
      /\ Passed(t, "quota") \in SUBSET Nat /\ served \in Seq(ServedRow)
      /\ Accounts(gate_faults, Mine(t), window[t], Passed(t, "quota"), now)
  BY GateParts
<1>6. ThisCall \in Nat BY <1>5, LenProperties DEF ThisCall
<1>7. PICK calls : calls = window[t].calls \cup {ThisCall} OBVIOUS
<1>8. calls \in SUBSET Nat BY <1>5, <1>6, <1>7 DEF WindowState
<1>9. /\ Passed(t, "quota")' = Passed(t, "quota") \cup {ThisCall}
      /\ ThisCall \notin Passed(t, "quota")
  BY <1>2, PassedAfter
<1>10. Bucket(recent[t], served, Passed(t, "rate"), boot, now, Rate, RateWindow)'
  BY <1>1, <1>2, <1>4, LetPass
<1>11. Bucket(consumed[t], served, Passed(t, "quota"), boot, now, Quota, QuotaWindow)'
  BY <1>1, <1>2, <1>4, LetPass
<1>12. PICK lost, mine, w, Q, clock, more :
         /\ lost = gate_faults /\ mine = Mine(t) /\ w = window[t] /\ Q = Passed(t, "quota")
         /\ clock = now /\ more = {ThisCall}
  OBVIOUS
<1>13. /\ mine \in SUBSET ReportSet /\ w \in WindowState /\ Q \in SUBSET Nat /\ clock \in Nat
       /\ Accounts(lost, mine, w, Q, clock) /\ more \in SUBSET Nat /\ more \cap Q = {}
       /\ calls = w.calls \cup more
  BY <1>5, <1>6, <1>7, <1>9, <1>12
<1>14. CASE \E reason \in {"count_threshold", "time_threshold"} : Report(t, calls, reason)
  <2>1. PICK r \in ReportSet :
          /\ r.calls = calls /\ r.end = now
          /\ r.start = IF window[t].since = -1 THEN now ELSE window[t].since
          /\ reports' \subseteq ReportSet /\ window' \in [Tenants -> WindowState]
          /\ Mine(t)' = Mine(t) \cup {r} /\ window'[t] = [calls |-> {}, since |-> now]
          /\ \A u \in Tenants : u # t => Mine(u)' = Mine(u) /\ window'[u] = window[u]
    BY <1>1, <1>8, <1>14, ReportAdds
  <2>2. /\ r.calls = w.calls \cup more /\ r.end = clock
        /\ r.start = IF w.since = -1 THEN clock ELSE w.since
    BY <1>12, <1>13, <2>1
  <2>3. Accounts(lost, mine \cup {r}, [calls |-> {}, since |-> clock], Q \cup more, clock)
    BY <1>13, <2>2, AccountsReported
  <2>4. Accounts(gate_faults, Mine(t), window[t], Passed(t, "quota"), now)'
    BY <1>1, <1>9, <1>12, <2>1, <2>3
  <2> QED BY <1>1, <1>2, <1>4, <1>10, <1>11, <2>1, <2>4, CallServed
<1>15. CASE /\ window' = [window EXCEPT ![t] = [calls |-> calls, since |-> Since(t)]]
            /\ reports' = reports
  <2>1. /\ window \in [Tenants -> WindowState] /\ reports \subseteq ReportSet
    BY DEF GateInv, GateType
  <2>2. PICK v : v = [calls |-> calls, since |-> Since(t)] OBVIOUS
  <2>3. Since(t) = IF w.since = -1 THEN clock ELSE w.since BY <1>12 DEF Since
  <2>4. v = [calls |-> w.calls \cup more, since |-> IF w.since = -1 THEN clock ELSE w.since]
    BY <1>13, <2>2, <2>3
  <2>5. v \in WindowState BY <1>8, <1>13, <2>2, <2>3 DEF WindowState
  <2>6. /\ window' \in [Tenants -> WindowState] /\ window'[t] = v
        /\ \A u \in Tenants : u # t => window'[u] = window[u]
    BY <1>15, <2>1, <2>2, <2>5
  <2>7. \A u \in Tenants : Mine(u)' = Mine(u) BY <1>1, <1>15 DEF Mine
  <2>8. Accounts(lost, mine, v, Q \cup more, clock) BY <1>13, <2>4, AccountsCounted
  <2>9. Accounts(gate_faults, Mine(t), window[t], Passed(t, "quota"), now)'
    BY <1>1, <1>9, <1>12, <2>6, <2>7, <2>8
  <2>10. reports' \subseteq ReportSet BY <1>15, <2>1
  <2> QED BY <1>1, <1>2, <1>4, <1>10, <1>11, <2>6, <2>7, <2>9, <2>10, CallServed
<1>16. \/ \E reason \in {"count_threshold", "time_threshold"} : Report(t, calls, reason)
       \/ /\ window' = [window EXCEPT ![t] = [calls |-> calls, since |-> Since(t)]]
          /\ reports' = reports
  BY <1>2, <1>7 DEF TickAndCheckCadence
<1> QED BY <1>14, <1>15, <1>16

-----------------------------------------------------------------------------
LEMMA GateTicks == ASSUME GateInv, Tick PROVE GateInv'
<1>1. now' = now + 1 /\ UNCHANGED <<recent, consumed, window, reports, reported, gate_faults, served, boot>>
  BY DEF Tick
<1>2. now \in Nat /\ served \in Seq(ServedRow) BY DEF GateInv, GateType
<1>3. now' \in Nat /\ now' >= now BY <1>1, <1>2
<1>4. GateType' BY <1>1, <1>3 DEF GateInv, GateType
<1>5. InTime(served, boot, now)'
  <2>0. \A i \in 1 .. Len(served) : served[i] \in ServedRow BY <1>2, ElementOfSeq
  <2>1. \A i \in 1 .. Len(served) : served[i].at \in Nat BY <2>0 DEF ServedRow
  <2> QED BY <1>1, <1>2, <1>3, <2>1 DEF GateInv, InTime
<1>6. ASSUME NEW t \in Tenants
      PROVE  /\ Bucket(recent[t], served, Passed(t, "rate"), boot, now, Rate, RateWindow)'
             /\ Bucket(consumed[t], served, Passed(t, "quota"), boot, now, Quota, QuotaWindow)'
             /\ Accounts(gate_faults, Mine(t), window[t], Passed(t, "quota"), now)'
  <2>1. /\ Passed(t, "rate") \in SUBSET (1 .. Len(served))
        /\ Passed(t, "quota") \in SUBSET (1 .. Len(served))
        /\ Mine(t) \in SUBSET ReportSet /\ window[t] \in WindowState
        /\ Bucket(recent[t], served, Passed(t, "rate"), boot, now, Rate, RateWindow)
        /\ Bucket(consumed[t], served, Passed(t, "quota"), boot, now, Quota, QuotaWindow)
        /\ Accounts(gate_faults, Mine(t), window[t], Passed(t, "quota"), now)
    BY GateParts
  <2>2. /\ Passed(t, "rate")' = Passed(t, "rate") /\ Passed(t, "quota")' = Passed(t, "quota")
        /\ Mine(t)' = Mine(t)
    BY <1>1 DEF Passed, Mine
  <2>3. RateWindow \in Nat /\ QuotaWindow \in Nat BY GateBounds
  <2>4. Bucket(recent[t], served, Passed(t, "rate"), boot, now', Rate, RateWindow)
    BY <1>2, <1>3, <2>1, <2>3, BucketLater
  <2>5. Bucket(consumed[t], served, Passed(t, "quota"), boot, now', Quota, QuotaWindow)
    BY <1>2, <1>3, <2>1, <2>3, BucketLater
  <2>6. Accounts(gate_faults, Mine(t), window[t], Passed(t, "quota"), now')
    BY <1>2, <1>3, <2>1, AccountsLater
  <2> QED BY <1>1, <2>2, <2>4, <2>5, <2>6
<1>7. BucketsHold' BY <1>6 DEF BucketsHold
<1>8. TenantsTold' BY <1>6 DEF TenantsTold
<1> QED BY <1>4, <1>5, <1>7, <1>8 DEF GateInv

(* Reports change hands, or are lost.                                       *)
LEMMA ReportsMove ==
  ASSUME GateInv, UNCHANGED <<now, recent, consumed, window, served, boot>>,
         reports' \subseteq reports, reported' \subseteq reported \cup reports,
         gate_faults' \in Nat,
         gate_faults' = 0 => gate_faults = 0 /\ \A t \in Tenants : Mine(t)' = Mine(t)
  PROVE  GateInv'
<1>1. GateType' BY DEF GateInv, GateType
<1>2. InTime(served, boot, now)' BY DEF GateInv, InTime
<1>3. \A t \in Tenants :
        Passed(t, "rate")' = Passed(t, "rate") /\ Passed(t, "quota")' = Passed(t, "quota")
  BY DEF Passed
<1>4. BucketsHold'
  <2>1. ASSUME NEW t \in Tenants
        PROVE  /\ Bucket(recent[t], served, Passed(t, "rate"), boot, now, Rate, RateWindow)'
               /\ Bucket(consumed[t], served, Passed(t, "quota"), boot, now, Quota, QuotaWindow)'
    BY <1>3, GateParts
  <2> QED BY <2>1 DEF BucketsHold
<1>5. ASSUME NEW t \in Tenants
      PROVE  Accounts(gate_faults, Mine(t), window[t], Passed(t, "quota"), now)'
  <2>1. /\ now \in Nat /\ Mine(t) \in SUBSET ReportSet /\ window[t] \in WindowState
        /\ Accounts(gate_faults, Mine(t), window[t], Passed(t, "quota"), now)
    BY GateParts
  <2>2. Mine(t)' \in SUBSET Mine(t) BY DEF Mine
  <2>3. PICK left, worse : left = Mine(t)' /\ worse = gate_faults' OBVIOUS
  <2>4. worse = 0 => gate_faults = 0 /\ left = Mine(t) BY <2>3
  <2>5. now >= now BY <2>1
  <2>6. Accounts(worse, left, window[t], Passed(t, "quota"), now)
    BY <2>1, <2>2, <2>3, <2>4, <2>5, AccountsLater
  <2> QED BY <1>3, <2>3, <2>6
<1>6. TenantsTold' BY <1>5 DEF TenantsTold
<1> QED BY <1>1, <1>2, <1>4, <1>6 DEF GateInv

LEMMA GateRestarts == ASSUME GateInv, RestartGate PROVE GateInv'
<1>1. /\ boot' = boot + 1 /\ gate_faults' = gate_faults + 1 /\ reports' = {}
      /\ now' = now /\ served' = served /\ reported' = reported
      /\ recent' = [t \in Tenants |-> {}] /\ consumed' = [t \in Tenants |-> {}]
      /\ window' = [t \in Tenants |-> NotOpen]
  BY DEF RestartGate, GateFault
<1>2. /\ now \in Nat /\ boot \in Nat /\ gate_faults \in Nat /\ served \in Seq(ServedRow)
      /\ InTime(served, boot, now)
  BY DEF GateInv, GateType
<1>3. gate_faults' \in Nat /\ gate_faults' # 0 /\ boot' \in Nat BY <1>1, <1>2
<1>4. NotOpen \in WindowState BY DEF NotOpen, WindowState
<1>5. GateType'
  <2>1. recent' \in [Tenants -> SUBSET GateCall] /\ consumed' \in [Tenants -> SUBSET GateCall] BY <1>1
  <2>2. window' \in [Tenants -> WindowState] BY <1>1, <1>4
  <2> QED BY <1>1, <1>2, <1>3, <2>1, <2>2 DEF GateInv, GateType
<1>6. InTime(served, boot, now)'
  <2>0. \A i \in 1 .. Len(served) : served[i] \in ServedRow BY <1>2, ElementOfSeq
  <2>1. \A i \in 1 .. Len(served) : served[i].boot \in Nat BY <2>0 DEF ServedRow
  <2> QED BY <1>1, <1>2, <2>1 DEF InTime
<1>7. ASSUME NEW t \in Tenants
      PROVE  /\ Bucket(recent[t], served, Passed(t, "rate"), boot, now, Rate, RateWindow)'
             /\ Bucket(consumed[t], served, Passed(t, "quota"), boot, now, Quota, QuotaWindow)'
             /\ Accounts(gate_faults, Mine(t), window[t], Passed(t, "quota"), now)'
  <2>1. /\ Passed(t, "rate") \in SUBSET (1 .. Len(served))
        /\ Passed(t, "quota") \in SUBSET (1 .. Len(served))
        /\ Mine(t) \in SUBSET ReportSet /\ window[t] \in WindowState
        /\ Bucket(recent[t], served, Passed(t, "rate"), boot, now, Rate, RateWindow)
        /\ Bucket(consumed[t], served, Passed(t, "quota"), boot, now, Quota, QuotaWindow)
        /\ Accounts(gate_faults, Mine(t), window[t], Passed(t, "quota"), now)
    BY GateParts
  <2>2. /\ Passed(t, "rate")' = Passed(t, "rate") /\ Passed(t, "quota")' = Passed(t, "quota")
        /\ Mine(t)' \in SUBSET Mine(t) /\ recent'[t] = {} /\ consumed'[t] = {}
        /\ window'[t] = NotOpen
    BY <1>1 DEF Passed, Mine
  <2>3. RateWindow \in Nat /\ QuotaWindow \in Nat BY GateBounds
  <2>4. Bucket({}, served, Passed(t, "rate"), boot + 1, now, Rate, RateWindow)
    BY <1>2, <2>1, <2>3, BucketEmptied
  <2>5. Bucket({}, served, Passed(t, "quota"), boot + 1, now, Quota, QuotaWindow)
    BY <1>2, <2>1, <2>3, BucketEmptied
  <2>6. PICK left, worse, v : left = Mine(t)' /\ worse = gate_faults' /\ v = NotOpen OBVIOUS
  <2>7. worse # 0 /\ now >= now BY <1>2, <1>3, <2>6
  <2>8. Accounts(worse, left, v, Passed(t, "quota"), now)
    BY <1>2, <2>1, <2>2, <2>6, <2>7, AccountsLater
  <2> QED BY <1>1, <2>2, <2>4, <2>5, <2>6, <2>8
<1>8. BucketsHold' BY <1>7 DEF BucketsHold
<1>9. TenantsTold' BY <1>7 DEF TenantsTold
<1> QED BY <1>5, <1>6, <1>8, <1>9 DEF GateInv

LEMMA GateKeeps == GateInv /\ [GateNext]_gateVars => GateInv'
<1> SUFFICES ASSUME GateInv, [GateNext]_gateVars PROVE GateInv' OBVIOUS
<1>0. gate_faults \in Nat BY DEF GateInv, GateType
<1>1. CASE Tick BY <1>1, GateTicks
<1>2. CASE RestartGate BY <1>2, GateRestarts
<1>3. ASSUME NEW t \in Tenants, register_tenant(t) \/ revoke_tenant(t) PROVE GateInv'
  <2>1. UNCHANGED <<now, recent, consumed, window, reports, reported, gate_faults, served, boot>>
    BY <1>3 DEF register_tenant, revoke_tenant
  <2>2. \A u \in Tenants : Mine(u)' = Mine(u) BY <2>1 DEF Mine
  <2> QED BY <1>0, <2>1, <2>2, ReportsMove
<1>4. ASSUME NEW t \in Tenants, Request(t) PROVE GateInv'
  <2>1. CASE Unresolved(t) \/ RateLimited(t) BY <1>4, <2>1, GateDenies
  <2>2. CASE QuotaExceeded(t) BY <1>4, <2>2, QuotaDenies
  <2>3. CASE Admitted(t) BY <1>4, <2>3, CallAdmitted
  <2> QED BY <1>4, <2>1, <2>2, <2>3 DEF Request
<1>5. ASSUME NEW r \in reports, WriteReport(r) PROVE GateInv'
  <2>1. \A u \in Tenants : Mine(u)' = Mine(u) BY <1>5 DEF Mine, WriteReport
  <2> QED BY <1>0, <1>5, <2>1, ReportsMove DEF WriteReport
<1>6. ASSUME NEW r \in reports, ReportFails(r) PROVE GateInv'
  <2>1. gate_faults' \in Nat /\ gate_faults' # 0 BY <1>0, <1>6 DEF ReportFails, GateFault
  <2> QED BY <1>6, <2>1, ReportsMove DEF ReportFails
<1>7. CASE UNCHANGED gateVars
  <2>1. UNCHANGED <<now, recent, consumed, window, reports, reported, gate_faults, served, boot>>
    BY <1>7 DEF gateVars
  <2>2. \A u \in Tenants : Mine(u)' = Mine(u) BY <2>1 DEF Mine
  <2> QED BY <1>0, <2>1, <2>2, ReportsMove
<1> QED BY <1>1, <1>2, <1>3, <1>4, <1>5, <1>6, <1>7 DEF GateNext

LEMMA GateAtFirst == GateInit => GateInv
<1> SUFFICES ASSUME GateInit PROVE GateInv OBVIOUS
<1>1. /\ now = 0 /\ gate_faults = 0 /\ boot = 0 /\ served = <<>> /\ reports = {} /\ reported = {}
      /\ recent = [t \in Tenants |-> {}] /\ consumed = [t \in Tenants |-> {}]
      /\ window = [t \in Tenants |-> NotOpen]
  BY DEF GateInit
<1>2. NotOpen \in WindowState BY DEF NotOpen, WindowState
<1>3. Len(served) = 0 /\ served \in Seq(ServedRow) BY <1>1, EmptySeq
<1>4. GateType
  <2>1. recent \in [Tenants -> SUBSET GateCall] /\ consumed \in [Tenants -> SUBSET GateCall] BY <1>1
  <2>2. window \in [Tenants -> WindowState] BY <1>1, <1>2
  <2> QED BY <1>1, <1>3, <2>1, <2>2 DEF GateType
<1>5. InTime(served, boot, now) BY <1>3 DEF InTime
<1>6. \A t \in Tenants : Passed(t, "rate") = {} /\ Passed(t, "quota") = {} /\ Mine(t) = {}
  BY <1>1, <1>3 DEF Passed, Mine
<1>7. IsFiniteSet({}) BY FS_EmptySet
<1>8. BucketsHold BY <1>1, <1>6, <1>7 DEF BucketsHold, Bucket, Within
<1>9. TenantsTold
  <2>1. \A clock, lost : Accounts(lost, {}, NotOpen, {}, clock) BY DEF Accounts, NotOpen
  <2> QED BY <1>1, <1>6, <2>1 DEF TenantsTold
<1> QED BY <1>4, <1>5, <1>8, <1>9 DEF GateInv

LEMMA GateStands == GateInv => QuotasStand
<1> SUFFICES ASSUME GateInv PROVE QuotasStand OBVIOUS
<1>1. ASSUME NEW t \in Tenants
      PROVE  /\ AtMost(Rate, RateWindow, Passed(t, "rate"))
             /\ AtMost(Quota, QuotaWindow, Passed(t, "quota"))
  <2>1. /\ Within(served, Rate, RateWindow, Passed(t, "rate"))
        /\ Within(served, Quota, QuotaWindow, Passed(t, "quota"))
    BY GateParts DEF Bucket
  <2> QED BY <2>1 DEF AtMost, Within, From
<1>2. LimitsHold BY <1>1 DEF LimitsHold
<1>3. ASSUME NEW t \in Tenants
      PROVE  LET mine == {r \in reported \cup reports : r.tenant = t} IN
             /\ gate_faults = 0 =>
                  (UNION {r.calls : r \in mine}) \cup window[t].calls = Passed(t, "quota")
             /\ \A r \in mine : r.calls \cap window[t].calls = {}
             /\ \A r, q \in mine :
                  \/ r = q
                  \/ r.calls \cap q.calls = {} /\ (r.end <= q.start \/ q.end <= r.start)
  <2>1. Accounts(gate_faults, Mine(t), window[t], Passed(t, "quota"), now) BY GateParts
  <2> QED BY <2>1 DEF Accounts, Mine
<1>4. QuotaAudited BY <1>3 DEF QuotaAudited
<1> QED BY <1>2, <1>4 DEF QuotasStand

(* For any limits and windows, any number of tenants, calls and restarts:   *)
(* no span of time holds more of a tenant's calls than a limit allows, and    *)
(* every call the quota let pass is reported once or still to be reported     *)
(* (InMemoryRateLimiter, InMemoryQuotaTracker, LedgerQuotaTracker).         *)
THEOREM QuotasAlwaysStand == GateSpec => []QuotasStand
<1>1. GateInit => GateInv BY GateAtFirst
<1>2. GateInv /\ [GateNext]_gateVars => GateInv' BY GateKeeps
<1>3. GateInv => QuotasStand BY GateStands
<1> QED BY <1>1, <1>2, <1>3, PTL DEF GateSpec
=============================================================================
