-------------------------- MODULE ReactivityProofs --------------------------
(***************************************************************************)
(* Proofs about the runner and the registry of the reactivities: Reactivities *)
(* for any number of reactivities, owners, caps, events, admin calls, days,   *)
(* wipes, failures and restarts, and Lifecycle, whose admins overlap, for any *)
(* reactivities, boot states, admins, calls and restarts.                    *)
(***************************************************************************)
EXTENDS Reactivities, Lifecycle, SequenceTheorems, TLAPS

(* The condition that let an entry through still holds when it is charged.  *)
Room ==
  pc \in {"fire", "act", "charge"} =>
    \A k \in KeysOf(Head(queue)) : budget[cur][k] < Limit[k]

(* The one act that may not be charged yet.                                 *)
Owes(r, k) == pc \in {"act", "charge"} /\ r = cur /\ k \in KeysOf(Head(queue))

(* Without failures every act of the day but that one has been charged.     *)
Accounted ==
  count.faults = 0 =>
    \A r \in Reactivities, k \in Keys :
      today[r][k] <= budget[r][k] + (IF Owes(r, k) THEN 1 ELSE 0)

IInv == TypeOK /\ Room /\ BudgetRespected /\ Accounted

LedgerType == ledger \in Seq(EntryType) /\ nextId \in Nat \ {0}

RegType ==
  /\ state \in [Reactivities -> States]
  /\ budget \in [Reactivities -> [Keys -> Nat]]
  /\ cool \subseteq Reactivities \X Owners

RunType ==
  /\ last_seq \in Nat /\ last_hash \in Nat
  /\ pc \in {"idle", "dispatch", "fire", "act", "charge", "log"}
  /\ queue \in Seq(EntryType)
  /\ cur \in Reactivities
  /\ pc \in {"fire", "act", "charge", "log"} => queue # <<>>

HistType ==
  /\ sent \in [Reactivities -> Seq(Nat \ {0})]
  /\ today \in [Reactivities -> [Keys -> Nat]]
  /\ stray \in [Reactivities -> Nat]
  /\ late \subseteq Nat /\ done \subseteq Nat

CallType ==
  /\ adm = NoCall \/ adm \in [r : Reactivities, to : States]
  /\ count \in [{"events", "admin", "wipes", "faults", "days"} -> Nat]

(* TypeOK, cut along the actions' footprints.                               *)
LEMMA TypeParts == TypeOK <=> LedgerType /\ RegType /\ RunType /\ HistType /\ CallType
BY DEF TypeOK, LedgerType, RegType, RunType, HistType, CallType

-----------------------------------------------------------------------------
(* The whole module starts empty.                                           *)
LEMMA InitIInv == Init => IInv
<1> SUFFICES ASSUME Init PROVE IInv OBVIOUS
<1> USE NAssumption, RegistrationAssumption, LimitAssumption DEF Init
<1>1. Zero \in [Reactivities -> [Keys -> Nat]] BY DEF Zero
<1>2. LedgerType /\ RegType BY <1>1 DEF LedgerType, RegType
<1>3. 1 \in Reactivities BY DEF Reactivities
<1>4. RunType BY <1>3 DEF RunType, NoHash
<1>5. HistType BY <1>1 DEF HistType
<1>6. CallType BY DEF CallType
<1>7. Room BY DEF Room
<1>8. BudgetRespected BY DEF BudgetRespected, Zero
<1>9. Accounted BY DEF Accounted, Zero, Owes
<1> QED BY <1>2, <1>4, <1>5, <1>6, <1>7, <1>8, <1>9, TypeParts DEF IInv

(* Every committed entry is well-formed.                                    *)
LEMMA CommitType ==
  ASSUME TypeOK,
         NEW kind \in Kinds, NEW owner \in Owners \cup {NoOwner},
         NEW ev \in Nat, NEW re \in Nat, NEW src \in Nat,
         Commit(Entry(kind, owner, ev, re, src))
  PROVE  LedgerType'
<1>1. Entry(kind, owner, ev, re, src) \in EntryType
  BY DEF TypeOK, EntryType, Entry
<1> QED BY <1>1 DEF Commit, TypeOK, LedgerType

(* What a fetch returns are entries.                                        *)
LEMMA LedgerRows ==
  ASSUME TypeOK
  PROVE  /\ Len(ledger) \in Nat
         /\ \A i \in Nat : 1 <= i /\ i <= Len(ledger) => ledger[i] \in EntryType
<1>1. ledger \in Seq(EntryType) BY DEF TypeOK
<1>2. Len(ledger) \in Nat BY <1>1
<1>3. ASSUME NEW i \in Nat, 1 <= i, i <= Len(ledger) PROVE ledger[i] \in EntryType
  <2>1. i \in 1 .. Len(ledger) BY <1>2, <1>3
  <2> QED BY <1>1, <2>1, ElementOfSeq
<1> QED BY <1>2, <1>3

(* The row under dispatch is an entry.                                      *)
LEMMA HeadType ==
  ASSUME TypeOK, queue # <<>>
  PROVE  Head(queue) \in EntryType /\ Tail(queue) \in Seq(EntryType)
BY HeadTailProperties DEF TypeOK

(* Moving on to the next binding or row keeps the loop's types.             *)
LEMMA NextBindingType ==
  ASSUME TypeOK, queue # <<>>, NextBinding, UNCHANGED <<cursor, sent, today, stray, late>>
  PROVE  RunType' /\ HistType'
<1>1. Head(queue).ev \in Nat /\ Tail(queue) \in Seq(EntryType)
  BY HeadType DEF EntryType
<1>2. cur' \in Reactivities
  BY NAssumption DEF NextBinding, TypeOK, Reactivities
<1>3. queue' \in Seq(EntryType) /\ done' \subseteq Nat /\ pc' = "dispatch"
  BY <1>1 DEF NextBinding, TypeOK
<1> QED BY <1>2, <1>3 DEF TypeOK, RunType, HistType, cursor

(* One more act or charge keeps a counter table a table of naturals.        *)
LEMMA Plus1Type ==
  ASSUME NEW f \in [Reactivities -> [Keys -> Nat]], NEW r \in Reactivities, NEW e
  PROVE  Plus1(f, r, e) \in [Reactivities -> [Keys -> Nat]]
BY DEF Plus1

-----------------------------------------------------------------------------
BudgetInv == Room /\ BudgetRespected /\ Accounted

(* The parts of the next state's invariant, put together.                   *)
LEMMA Assemble ==
  ASSUME LedgerType', RegType', RunType', HistType', CallType', BudgetInv'
  PROVE  IInv'
BY DEF IInv, TypeOK, BudgetInv, LedgerType, RegType, RunType, HistType, CallType

(* Steps that leave the loop and its counters alone.                        *)
LEMMA QuietBudget ==
  ASSUME IInv, UNCHANGED <<budget, today, pc, queue, cur>>, count'.faults = count.faults
  PROVE  BudgetInv'
<1>1. \A e : KeysOf(e)' = KeysOf(e) BY DEF KeysOf
<1> QED BY <1>1 DEF IInv, BudgetInv, Room, BudgetRespected, Accounted, Owes

(* Steps that end with no entry let through and nothing owed.               *)
LEMMA LoopBudget ==
  ASSUME IInv, UNCHANGED <<budget, today>>, pc' \in {"idle", "dispatch"},
         \/ count'.faults # 0
         \/ pc \notin {"act", "charge"} /\ count'.faults = count.faults
  PROVE  BudgetInv'
<1>1. Room' BY DEF Room
<1>2. BudgetRespected' BY DEF IInv, BudgetRespected
<1>3. Accounted'
  <2> SUFFICES ASSUME count'.faults = 0, NEW r \in Reactivities, NEW k \in Keys
               PROVE  today'[r][k] <= budget'[r][k] + (IF Owes(r, k)' THEN 1 ELSE 0)
    BY DEF Accounted
  <2>1. ~Owes(r, k) /\ ~Owes(r, k)' BY DEF Owes
  <2>2. today[r][k] <= budget[r][k] + 0 BY <2>1 DEF IInv, Accounted
  <2> QED BY <2>1, <2>2
<1> QED BY <1>1, <1>2, <1>3 DEF BudgetInv

(* Admin calls, other components' writes, time and tenant resets.           *)
LEMMA AdminIInv == ASSUME IInv, Admin PROVE IInv'
<1>0. TypeOK BY DEF IInv
<1>1. ASSUME NEW r \in Reactivities, Propose(r) PROVE IInv'
  <2>1. BudgetInv' BY <1>0, <1>1, QuietBudget DEF Propose, Use, hist, regs, TypeOK
  <2>2. LedgerType'
    BY <1>0, <1>1, CommitType DEF Propose, Kinds, Reactivities
  <2>3. RegType' /\ RunType' /\ HistType'
    BY <1>0, <1>1 DEF Propose, hist, regs, cursor, TypeOK, RegType, RunType, HistType
  <2>4. CallType' BY <1>0, <1>1 DEF Propose, Use, TypeOK, CallType
  <2> QED BY <2>1, <2>2, <2>3, <2>4, Assemble
<1>2. ASSUME NEW r \in Reactivities, NEW to \in {"active", "disabled"}, WriteLifecycle(r, to)
      PROVE  IInv'
  <2>1. BudgetInv' BY <1>0, <1>2, QuietBudget DEF WriteLifecycle, Use, hist, regs, TypeOK
  <2>2. LedgerType'
    BY <1>0, <1>2, CommitType DEF WriteLifecycle, Kinds, Reactivities
  <2>3. RegType' /\ RunType' /\ HistType'
    BY <1>0, <1>2 DEF WriteLifecycle, hist, regs, cursor, TypeOK, RegType, RunType, HistType
  <2>4. CallType'
    BY <1>0, <1>2 DEF WriteLifecycle, Use, TypeOK, CallType, States
  <2> QED BY <2>1, <2>2, <2>3, <2>4, Assemble
<1>3. ASSUME FlipState PROVE IInv'
  <2>1. BudgetInv' BY <1>3, QuietBudget DEF FlipState, hist
  <2>2. LedgerType' /\ RegType' /\ RunType' /\ HistType' /\ CallType'
    BY <1>0, <1>3 DEF FlipState, hist, cursor, TypeOK, LedgerType, RegType, RunType, HistType, CallType
  <2> QED BY <2>1, <2>2, Assemble
<1> QED BY <1>1, <1>2, <1>3 DEF Admin

LEMMA EnvironmentIInv == ASSUME IInv, Environment PROVE IInv'
<1>0. TypeOK BY DEF IInv
<1>z. Zero \in [Reactivities -> [Keys -> Nat]] BY DEF Zero
<1>1. ASSUME NEW o \in Owners, Event(o) PROVE IInv'
  <2>1. BudgetInv' BY <1>0, <1>1, QuietBudget DEF Event, Use, regs, TypeOK
  <2>2. LedgerType'
    <3>1. count.events + 1 \in Nat BY <1>0 DEF TypeOK
    <3> QED BY <1>0, <1>1, <3>1, CommitType DEF Event, Kinds
  <2>3. RegType' /\ RunType'
    BY <1>0, <1>1 DEF Event, regs, cursor, TypeOK, RegType, RunType
  <2>4. count.events + 1 \in Nat BY <1>0 DEF TypeOK
  <2>5. HistType' BY <1>0, <1>1, <2>4 DEF Event, TypeOK, HistType
  <2>6. CallType' BY <1>0, <1>1 DEF Event, Use, TypeOK, CallType
  <2> QED BY <2>1, <2>2, <2>3, <2>5, <2>6, Assemble
<1>2. ASSUME Midnight PROVE IInv'
  <2>1. LedgerType' /\ RegType' /\ RunType' /\ HistType' /\ CallType'
    BY <1>0, <1>2, <1>z
    DEF Midnight, Use, cursor, TypeOK, LedgerType, RegType, RunType, HistType, CallType
  <2>2. Room'
    <3> SUFFICES ASSUME pc \in {"fire", "act", "charge"}, NEW k \in KeysOf(Head(queue))
                 PROVE  0 < Limit[k]
      BY <1>0, <1>2 DEF Midnight, Room, KeysOf, Keys, Zero, TypeOK
    <3>1. k \in Keys BY DEF KeysOf, Keys
    <3>2. budget[cur][k] \in Nat /\ Limit[k] \in Nat
      BY <1>0, <3>1, LimitAssumption DEF TypeOK
    <3> QED BY <3>2 DEF IInv, Room
  <2>3. BudgetRespected'
    BY <1>2, LimitAssumption DEF Midnight, BudgetRespected, Zero
  <2>4. Accounted'
    BY <1>2 DEF Midnight, Accounted, Zero
  <2> QED BY <2>1, <2>2, <2>3, <2>4, Assemble DEF BudgetInv
<1>3. ASSUME NEW p \in cool, Expire(p) PROVE IInv'
  <2>1. BudgetInv' BY <1>3, QuietBudget DEF Expire, hist
  <2>2. LedgerType' /\ RegType' /\ RunType' /\ HistType' /\ CallType'
    BY <1>0, <1>3
    DEF Expire, hist, cursor, TypeOK, LedgerType, RegType, RunType, HistType, CallType
  <2> QED BY <2>1, <2>2, Assemble
<1>4. ASSUME Wipe PROVE IInv'
  <2>1. BudgetInv' BY <1>0, <1>4, QuietBudget DEF Wipe, Use, hist, regs, TypeOK
  <2>2. LedgerType' /\ RegType' /\ RunType' /\ HistType' /\ CallType'
    BY <1>0, <1>4
    DEF Wipe, Use, hist, regs, cursor, TypeOK, LedgerType, RegType, RunType, HistType, CallType
  <2> QED BY <2>1, <2>2, Assemble
<1>5. ASSUME Restart PROVE IInv'
  <2>1. 1 \in Reactivities BY NAssumption DEF Reactivities
  <2>2. LedgerType' /\ RegType' /\ RunType'
    BY <1>0, <1>5, <1>z, <2>1, RegistrationAssumption
    DEF Restart, TypeOK, NoHash, LedgerType, RegType, RunType
  <2>5. HistType' BY <1>0, <1>5 DEF Restart, TypeOK, HistType
  <2>6. CallType' BY <1>0, <1>5 DEF Restart, Use, TypeOK, CallType
  <2>3. count'.faults # 0 BY <1>0, <1>5 DEF Restart, Use, TypeOK
  <2>4. BudgetInv'
    BY <1>5, <2>3, LimitAssumption DEF Restart, BudgetInv, Room, BudgetRespected, Accounted, Zero
  <2> QED BY <2>2, <2>4, <2>5, <2>6, Assemble
<1> QED BY <1>1, <1>2, <1>3, <1>4, <1>5 DEF Environment

(* The poll: fetching at its beginning and at its end.                      *)
LEMMA FetchIInv ==
  ASSUME IInv, FetchEmpty \/ FetchRows \/ PostFetch \/ CycleRaises
  PROVE  IInv'
<1>0. TypeOK BY DEF IInv
<1>1. CASE FetchEmpty
  <2>1. BudgetInv' BY <1>1, LoopBudget DEF FetchEmpty, regs, hist
  <2>2. LedgerType' /\ RegType' /\ RunType' /\ HistType' /\ CallType'
    BY <1>0, <1>1
    DEF FetchEmpty, regs, hist, NoHash, TypeOK, LedgerType, RegType, RunType, HistType, CallType
  <2> QED BY <2>1, <2>2, Assemble
<1>2. CASE FetchRows
  <2>1. BudgetInv' BY <1>2, LoopBudget DEF FetchRows, regs, hist
  <2>2. LedgerType' /\ RegType' /\ HistType' /\ CallType'
    BY <1>0, <1>2
    DEF FetchRows, regs, hist, TypeOK, LedgerType, RegType, HistType, CallType
  <2>3. last_seq' \in Nat /\ last_hash' \in Nat
    BY <1>0, <1>2 DEF FetchRows, TypeOK, NoHash
  <2>4. queue' = SubSeq(ledger, last_seq' + 1, Len(ledger)) BY <1>2 DEF FetchRows
  <2>5. \A m \in Nat : \A i \in m + 1 .. Len(ledger) : ledger[i] \in EntryType
    <3> SUFFICES ASSUME NEW m \in Nat, NEW i \in m + 1 .. Len(ledger)
                 PROVE  ledger[i] \in EntryType
      OBVIOUS
    <3>1. Len(ledger) \in Nat BY <1>0, LedgerRows
    <3>2. i \in Nat /\ 1 <= i /\ i <= Len(ledger) BY <3>1
    <3> QED BY <1>0, <3>2, LedgerRows
  <2>6. Len(ledger) \in Int BY <1>0, LedgerRows
  <2>7. queue' \in Seq(EntryType) BY <2>3, <2>4, <2>5, <2>6, SubSeqProperties
  <2>8. 1 \in Reactivities BY NAssumption DEF Reactivities
  <2>9. RunType' BY <1>2, <2>3, <2>7, <2>8 DEF FetchRows, RunType
  <2> QED BY <2>1, <2>2, <2>9, Assemble
<1>3. CASE PostFetch
  <2>1. BudgetInv' BY <1>3, LoopBudget DEF PostFetch, regs, hist
  <2>2. LedgerType' /\ RegType' /\ HistType' /\ CallType'
    BY <1>0, <1>3
    DEF PostFetch, regs, hist, TypeOK, LedgerType, RegType, HistType, CallType
  <2>3. ledger # <<>> => Len(ledger) \in Nat /\ ledger[Len(ledger)].id \in Nat
    <3>1. CASE ledger = <<>> BY <3>1
    <3>2. CASE ledger # <<>>
      <4>1. Len(ledger) \in Nat \ {0} BY <1>0, <3>2, EmptySeq DEF TypeOK
      <4>2. ledger[Len(ledger)] \in EntryType
        BY <1>0, <4>1, LedgerRows
      <4> QED BY <4>1, <4>2 DEF EntryType
    <3> QED BY <3>1, <3>2
  <2>4. RunType' BY <1>0, <1>3, <2>3 DEF PostFetch, TypeOK, RunType
  <2> QED BY <2>1, <2>2, <2>4, Assemble
<1>4. CASE CycleRaises
  <2>1. count'.faults # 0 BY <1>0, <1>4 DEF CycleRaises, Use, TypeOK
  <2>2. BudgetInv' BY <1>4, <2>1, LoopBudget DEF CycleRaises, regs, hist
  <2>3. 1 \in Reactivities BY NAssumption DEF Reactivities
  <2>4. LedgerType' /\ RegType' /\ RunType' /\ HistType'
    BY <1>0, <1>4, <2>3
    DEF CycleRaises, regs, cursor, hist, TypeOK, LedgerType, RegType, RunType, HistType
  <2>5. CallType' BY <1>0, <1>4 DEF CycleRaises, Use, TypeOK, CallType
  <2> QED BY <2>2, <2>4, <2>5, Assemble
<1> QED BY <1>1, <1>2, <1>3, <1>4

(* Steps after which dispatch goes on to the next binding.                  *)
LEMMA MoveOnIInv ==
  ASSUME IInv, Skip \/ Decline \/ LogFire \/ ActRaises
  PROVE  IInv'
<1>0. TypeOK /\ queue # <<>> BY DEF IInv, TypeOK, Skip, Decline, LogFire, ActRaises
<1>1. NextBinding /\ UNCHANGED <<regs, cursor, adm, sent, today, stray, late>>
  BY DEF Skip, Decline, LogFire, ActRaises
<1>2. RunType' /\ HistType' BY <1>0, <1>1, NextBindingType
<1>3. RegType' BY <1>0, <1>1 DEF regs, TypeOK, RegType
<1>4. LedgerType'
  <2>1. CASE LogFire
    <3>1. Head(queue).id \in Nat BY <1>0, HeadType DEF EntryType
    <3>2. cur \in Nat BY <1>0 DEF TypeOK, Reactivities
    <3> QED BY <1>0, <2>1, <3>1, <3>2, CommitType DEF LogFire, Kinds
  <2>2. CASE Skip \/ Decline \/ ActRaises
    BY <1>0, <2>2 DEF Skip, Decline, ActRaises, TypeOK, LedgerType
  <2> QED BY <2>1, <2>2
<1>5. CallType'
  <2>1. CASE ActRaises BY <1>0, <1>1, <2>1 DEF ActRaises, Use, TypeOK, CallType
  <2>2. CASE Skip \/ Decline \/ LogFire
    BY <1>0, <1>1, <2>2 DEF Skip, Decline, LogFire, TypeOK, CallType
  <2> QED BY <2>1, <2>2
<1>6. \/ count'.faults # 0
      \/ pc \notin {"act", "charge"} /\ count'.faults = count.faults
  BY <1>0 DEF Skip, Decline, LogFire, ActRaises, Use, TypeOK
<1>7. BudgetInv' BY <1>1, <1>6, LoopBudget DEF NextBinding, regs
<1> QED BY <1>2, <1>3, <1>4, <1>5, <1>7, Assemble

(* The steps of one fire: match, act, write, charge.                        *)
LEMMA FireIInv ==
  ASSUME IInv, Match \/ Act \/ ActWrite \/ Charge
  PROVE  IInv'
<1>0. TypeOK /\ queue # <<>> /\ cur \in Reactivities
  BY DEF IInv, TypeOK, Match, Act, ActWrite, Charge
<1> DEFINE e == Head(queue)
<1>e. e \in EntryType /\ e.id \in Nat \ {0}
  BY <1>0, HeadType DEF EntryType
<1>k. KeysOf(e) \subseteq Keys BY DEF KeysOf, Keys
<1>q. UNCHANGED <<queue, cur, count>> /\ e' = e
  BY DEF Match, Act, ActWrite, Charge
<1>b. \A r \in Reactivities, k \in Keys :
        budget[r][k] \in Nat /\ today[r][k] \in Nat /\ Limit[k] \in Nat
  BY <1>0, LimitAssumption DEF TypeOK
<1>1. CASE Match
  <2>1. LedgerType' /\ RegType' /\ HistType' /\ CallType'
    BY <1>0, <1>1
    DEF Match, regs, hist, TypeOK, LedgerType, RegType, HistType, CallType
  <2>2. RunType' BY <1>0, <1>1 DEF Match, cursor, TypeOK, RunType
  <2>3. Room' BY <1>1 DEF Match, Room, Eligible, DailyBudget, regs, KeysOf
  <2>4. BudgetRespected' BY <1>1 DEF IInv, Match, BudgetRespected, regs
  <2>5. Accounted' BY <1>1 DEF IInv, Match, Accounted, Owes, regs, hist
  <2> QED BY <2>1, <2>2, <2>3, <2>4, <2>5, Assemble DEF BudgetInv
<1>2. CASE Act
  <2>1. LedgerType' /\ RegType' /\ CallType'
    BY <1>0, <1>2 DEF Act, regs, TypeOK, LedgerType, RegType, CallType
  <2>2. RunType' BY <1>0, <1>2 DEF Act, cursor, TypeOK, RunType
  <2>3. HistType'
    <3>1. today' \in [Reactivities -> [Keys -> Nat]]
      BY <1>0, <1>2, Plus1Type DEF Act, TypeOK
    <3>2. sent' \in [Reactivities -> Seq(Nat \ {0})]
      BY <1>0, <1>2, <1>e DEF Act, TypeOK
    <3>3. stray' \in [Reactivities -> Nat] BY <1>0, <1>2 DEF Act, TypeOK
    <3> QED BY <1>0, <1>2, <3>1, <3>2, <3>3 DEF Act, TypeOK, HistType
  <2>4. Room' BY <1>2 DEF IInv, Act, Room, regs, KeysOf
  <2>5. BudgetRespected' BY <1>2 DEF IInv, Act, BudgetRespected, regs
  <2>6. Accounted'
    <3> SUFFICES ASSUME count.faults = 0, NEW r \in Reactivities, NEW k \in Keys
                 PROVE  today'[r][k] <= budget[r][k] + (IF Owes(r, k)' THEN 1 ELSE 0)
      BY <1>2 DEF Act, Accounted, regs
    <3>1. today[r][k] <= budget[r][k]
      BY <1>2, <1>b DEF IInv, Accounted, Owes, Act
    <3>2. Owes(r, k)' <=> r = cur /\ k \in KeysOf(e)
      BY <1>2 DEF Act, Owes, KeysOf
    <3>3. today'[r][k] = IF r = cur /\ k \in KeysOf(e) THEN today[r][k] + 1 ELSE today[r][k]
      BY <1>0, <1>2 DEF Act, Plus1, TypeOK
    <3> QED BY <3>1, <3>2, <3>3, <1>b
  <2> QED BY <2>1, <2>2, <2>3, <2>4, <2>5, <2>6, Assemble DEF BudgetInv
<1>3. CASE ActWrite
  <2>1. cur \in Nat BY <1>0 DEF Reactivities
  <2>2. LedgerType' BY <1>0, <1>3, <1>e, <2>1, CommitType DEF ActWrite, Kinds
  <2>3. RegType' /\ RunType' /\ HistType' /\ CallType'
    BY <1>0, <1>3
    DEF ActWrite, regs, cursor, hist, TypeOK, RegType, RunType, HistType, CallType
  <2>4. Room' BY <1>3 DEF IInv, ActWrite, Room, regs, KeysOf
  <2>5. BudgetRespected' BY <1>3 DEF IInv, ActWrite, BudgetRespected, regs
  <2>6. Accounted'
    <3>1. \A r, k : Owes(r, k)' <=> Owes(r, k) BY <1>3 DEF ActWrite, Owes, KeysOf
    <3> QED BY <1>3, <3>1 DEF IInv, ActWrite, Accounted, regs, hist
  <2> QED BY <2>2, <2>3, <2>4, <2>5, <2>6, Assemble DEF BudgetInv
<1>4. CASE Charge
  <2>1. LedgerType' /\ HistType' /\ CallType'
    BY <1>0, <1>4 DEF Charge, hist, TypeOK, LedgerType, HistType, CallType
  <2>2. RunType' BY <1>0, <1>4 DEF Charge, cursor, TypeOK, RunType
  <2>3. RegType'
    <3>1. budget' \in [Reactivities -> [Keys -> Nat]]
      BY <1>0, <1>4, Plus1Type DEF Charge, TypeOK
    <3>2. cool' \subseteq Reactivities \X Owners
      BY <1>0, <1>4 DEF Charge, TypeOK
    <3> QED BY <1>0, <1>4, <3>1, <3>2 DEF Charge, TypeOK, RegType
  <2>4. ASSUME NEW r \in Reactivities, NEW k \in Keys
        PROVE  budget'[r][k] = IF r = cur /\ k \in KeysOf(e) THEN budget[r][k] + 1 ELSE budget[r][k]
    BY <1>0, <1>4 DEF Charge, Plus1, TypeOK
  <2>5. Room' BY <1>4 DEF Charge, Room
  <2>6. BudgetRespected'
    <3> SUFFICES ASSUME NEW r \in Reactivities, NEW k \in Keys
                 PROVE  budget'[r][k] <= Limit[k]
      BY DEF BudgetRespected
    <3>1. r = cur /\ k \in KeysOf(e) => budget[r][k] < Limit[k]
      BY <1>4 DEF IInv, Charge, Room
    <3>2. budget[r][k] <= Limit[k] BY DEF IInv, BudgetRespected
    <3> QED BY <1>b, <2>4, <3>1, <3>2
  <2>7. Accounted'
    <3> SUFFICES ASSUME count.faults = 0, NEW r \in Reactivities, NEW k \in Keys
                 PROVE  today[r][k] <= budget'[r][k] + (IF Owes(r, k)' THEN 1 ELSE 0)
      BY <1>4 DEF Charge, Accounted, hist
    <3>1. Owes(r, k) <=> r = cur /\ k \in KeysOf(e) BY <1>4 DEF Charge, Owes
    <3>2. today[r][k] <= budget[r][k] + (IF Owes(r, k) THEN 1 ELSE 0)
      BY DEF IInv, Accounted
    <3>3. ~Owes(r, k)' BY <1>4 DEF Charge, Owes
    <3> QED BY <1>b, <2>4, <3>1, <3>2, <3>3
  <2> QED BY <2>1, <2>2, <2>3, <2>5, <2>6, <2>7, Assemble DEF BudgetInv
<1> QED BY <1>1, <1>2, <1>3, <1>4

-----------------------------------------------------------------------------
(* Every step of registry, runner, admin and environment keeps IInv.        *)
LEMMA NextIInv == ASSUME IInv, [Next]_vars PROVE IInv'
<1>1. CASE UNCHANGED vars
  <2>1. LedgerType' /\ RegType' /\ RunType' /\ HistType' /\ CallType'
    BY <1>1 DEF IInv, vars, regs, cursor, hist, TypeOK, LedgerType, RegType, RunType, HistType, CallType
  <2>2. BudgetInv' BY <1>1, QuietBudget DEF vars, regs, hist
  <2> QED BY <2>1, <2>2, Assemble
<1>2. CASE Next
  BY <1>2, AdminIInv, EnvironmentIInv, FetchIInv, MoveOnIInv, FireIInv
  DEF Next, Runner, Raises
<1> QED BY <1>1, <1>2

(* The inductive invariant holds in every reachable state.                  *)
THEOREM Inductive == Spec => []IInv
BY InitIInv, NextIInv, PTL DEF Spec

(* Registry memory, cursor and loop state keep their types, and the loop    *)
(* never fires without a row under dispatch.                                *)
THEOREM TypeCorrect == Spec => []TypeOK
<1>1. IInv => TypeOK BY DEF IInv
<1> QED BY <1>1, Inductive, PTL

(* DailyBudget's caps hold for the counters although check and charge are   *)
(* steps apart.                                                             *)
THEOREM BudgetsHold == Spec => []BudgetRespected
<1>1. IInv => BudgetRespected BY DEF IInv
<1> QED BY <1>1, Inductive, PTL

(* And they hold for what the reactivities really do, on any day of a       *)
(* process without failed writes.                                           *)
THEOREM ActsStayWithinBudget == Spec => []ActsWithinBudget
<1>1. IInv => ActsWithinBudget
  <2> SUFFICES ASSUME IInv, count.faults = 0, NEW r \in Reactivities, NEW k \in Keys
               PROVE  today[r][k] <= Limit[k]
    BY DEF ActsWithinBudget
  <2>1. budget[r][k] \in Nat /\ today[r][k] \in Nat /\ Limit[k] \in Nat
    BY LimitAssumption DEF IInv, TypeOK
  <2>2. today[r][k] <= budget[r][k] + (IF Owes(r, k) THEN 1 ELSE 0)
    BY DEF IInv, Accounted
  <2>3. CASE Owes(r, k)
    <3>1. budget[r][k] < Limit[k] BY <2>3 DEF IInv, Room, Owes
    <3> QED BY <2>1, <2>2, <2>3, <3>1
  <2>4. CASE ~Owes(r, k)
    <3>1. budget[r][k] <= Limit[k] BY DEF IInv, BudgetRespected
    <3> QED BY <2>1, <2>2, <2>4, <3>1
  <2> QED BY <2>3, <2>4
<1> QED BY <1>1, Inductive, PTL

-----------------------------------------------------------------------------
(* ActsOnce: hashes are drawn in ledger order, so it is enough that the     *)
(* runner never goes back.  What it will fetch next is younger than all r   *)
(* acted on, whether the cursor stands or a reset was detected; while it    *)
(* dispatches, the row at the head is the youngest r may have acted on.     *)
Rising(drawn) ==
  /\ \A p \in 1 .. Len(drawn) : drawn[p].id < nextId
  /\ \A p, q \in 1 .. Len(drawn) : p < q => drawn[p].id < drawn[q].id

Fresh == Rising(ledger) /\ Rising(queue)

InOrder(r) ==
  /\ \A i \in 1 .. Len(sent[r]) : sent[r][i] < nextId
  /\ \A i, j \in 1 .. Len(sent[r]) : i < j => sent[r][i] < sent[r][j]

(* Dispatch has not yet let r act on the row at the head.                   *)
Waiting(r) == r > cur \/ (r = cur /\ pc \in {"dispatch", "fire"})

Fetchable(p) == reset_detected \/ p > last_seq

Ahead(r) ==
  pc = "idle" =>
    \A p \in 1 .. Len(ledger) :
      Fetchable(p) => \A i \in 1 .. Len(sent[r]) : sent[r][i] < ledger[p].id

Behind(r) ==
  pc # "idle" /\ queue # <<>> =>
    \A i \in 1 .. Len(sent[r]) :
      sent[r][i] <= queue[1].id /\ (Waiting(r) => sent[r][i] < queue[1].id)

OnceInv == count.faults = 0 => \A r \in Reactivities : InOrder(r) /\ Ahead(r) /\ Behind(r)

(* A committed row gets a hash younger than all before it.                  *)
Grows == \E e : e.id = nextId /\ Commit(e)

LedgerMoves ==
  \/ UNCHANGED <<ledger, nextId>>
  \/ ledger' = <<>> /\ nextId' = nextId
  \/ Grows

QueueMoves == queue' = queue \/ queue' = <<>> \/ (queue # <<>> /\ queue' = Tail(queue))

(* Ids are naturals.                                                        *)
LEMMA IdTypes ==
  ASSUME TypeOK
  PROVE  /\ nextId \in Nat
         /\ Len(ledger) \in Nat /\ \A p \in 1 .. Len(ledger) : ledger[p].id \in Nat
         /\ Len(queue) \in Nat /\ \A p \in 1 .. Len(queue) : queue[p].id \in Nat
         /\ \A r \in Reactivities :
              Len(sent[r]) \in Nat /\ \A i \in 1 .. Len(sent[r]) : sent[r][i] \in Nat
<1>1. ledger \in Seq(EntryType) /\ queue \in Seq(EntryType) /\ nextId \in Nat BY DEF TypeOK
<1>2. \A e \in EntryType : e.id \in Nat BY DEF EntryType
<1>3. ASSUME NEW r \in Reactivities
      PROVE  Len(sent[r]) \in Nat /\ \A i \in 1 .. Len(sent[r]) : sent[r][i] \in Nat
  <2>1. sent[r] \in Seq(Nat \ {0}) BY DEF TypeOK
  <2> QED BY <2>1
<1>4. \A p \in 1 .. Len(ledger) : ledger[p] \in EntryType BY <1>1
<1>5. \A p \in 1 .. Len(queue) : queue[p] \in EntryType BY <1>1
<1> QED BY <1>1, <1>2, <1>3, <1>4, <1>5

(* What an appended row changes.                                            *)
LEMMA GrowsBy ==
  ASSUME TypeOK, Grows
  PROVE  /\ nextId' = nextId + 1 /\ Len(ledger') = Len(ledger) + 1
         /\ \A p \in 1 .. Len(ledger) : ledger'[p] = ledger[p]
         /\ ledger'[Len(ledger) + 1].id = nextId
<1>1. PICK e : e.id = nextId /\ Commit(e) BY DEF Grows
<1>2. ledger \in Seq(EntryType) /\ ledger' = Append(ledger, e) BY <1>1 DEF TypeOK, Commit
<1>3. ledger \in Seq(EntryType \cup {e}) BY <1>2
<1>4. /\ Len(ledger') = Len(ledger) + 1
      /\ \A p \in 1 .. Len(ledger) : ledger'[p] = ledger[p]
      /\ ledger'[Len(ledger) + 1] = e
  BY <1>2, <1>3, AppendProperties
<1> QED BY <1>1, <1>4 DEF Commit

LEMMA LedgerRises == ASSUME TypeOK, Rising(ledger), LedgerMoves PROVE Rising(ledger)'
<1>1. CASE UNCHANGED <<ledger, nextId>> BY <1>1 DEF Rising
<1>2. CASE ledger' = <<>> BY <1>2 DEF Rising
<1>3. CASE Grows
  <2>1. ASSUME NEW p \in 1 .. Len(ledger') PROVE p \in 1 .. Len(ledger) \/ p = Len(ledger) + 1
    BY <1>3, GrowsBy, IdTypes
  <2>2. /\ nextId' = nextId + 1
        /\ \A p \in 1 .. Len(ledger) : ledger'[p] = ledger[p]
        /\ ledger'[Len(ledger) + 1].id = nextId
    BY <1>3, GrowsBy
  <2>3. /\ nextId \in Nat /\ Len(ledger) \in Nat
        /\ \A p \in 1 .. Len(ledger) : ledger[p].id \in Nat
    BY IdTypes
  <2>4. ASSUME NEW p \in 1 .. Len(ledger') PROVE ledger'[p].id < nextId'
    BY <2>1, <2>2, <2>3 DEF Rising
  <2>5. ASSUME NEW p \in 1 .. Len(ledger'), NEW q \in 1 .. Len(ledger'), p < q
        PROVE  ledger'[p].id < ledger'[q].id
    <3>1. p \in 1 .. Len(ledger) BY <2>1, <2>3, <2>5
    <3>2. CASE q \in 1 .. Len(ledger) BY <2>2, <2>5, <3>1, <3>2 DEF Rising
    <3>3. CASE q = Len(ledger) + 1 BY <2>2, <3>1, <3>3 DEF Rising
    <3> QED BY <2>1, <3>2, <3>3
  <2> QED BY <2>4, <2>5 DEF Rising
<1> QED BY <1>1, <1>2, <1>3 DEF LedgerMoves

(* The tail of the queue, row by row.                                       *)
LEMMA TailRows ==
  ASSUME TypeOK, queue # <<>>
  PROVE  /\ Len(Tail(queue)) = Len(queue) - 1 /\ Len(queue) >= 1
         /\ \A p \in 1 .. Len(Tail(queue)) : Tail(queue)[p] = queue[p + 1]
<1>1. queue \in Seq(EntryType) BY DEF TypeOK
<1>2. Len(queue) \in Nat /\ Len(queue) # 0 BY <1>1, EmptySeq
<1> QED BY <1>1, <1>2, HeadTailProperties

LEMMA QueueRises ==
  ASSUME TypeOK, Rising(queue), QueueMoves, nextId' \in {nextId, nextId + 1}
  PROVE  Rising(queue)'
<1>1. CASE queue' = queue BY <1>1, IdTypes DEF Rising
<1>2. CASE queue' = <<>> BY <1>2 DEF Rising
<1>3. CASE queue # <<>> /\ queue' = Tail(queue)
  <2>1. \A p \in 1 .. Len(queue') : p + 1 \in 1 .. Len(queue) /\ queue'[p] = queue[p + 1]
    BY <1>3, TailRows, IdTypes
  <2>2. \A p \in 1 .. Len(queue') : queue'[p].id < nextId'
    BY <2>1, IdTypes DEF Rising
  <2>3. \A p, q \in 1 .. Len(queue') : p < q => queue'[p].id < queue'[q].id
    BY <2>1, IdTypes, <1>3, TailRows DEF Rising
  <2> QED BY <2>2, <2>3 DEF Rising
<1> QED BY <1>1, <1>2, <1>3 DEF QueueMoves

LEMMA TakesIsGrows ==
  ASSUME NEW kind, NEW owner, NEW ev, NEW re, NEW src,
         Commit(Entry(kind, owner, ev, re, src))
  PROVE  Grows
BY DEF Grows, Entry

(* Apart from the first fetch, a step appends, wipes or leaves the ledger   *)
(* and keeps, clears or shortens the queue.                                 *)
LEMMA Shapes ==
  ASSUME TypeOK, [Next]_vars
  PROVE  FetchRows \/ (LedgerMoves /\ QueueMoves)
<1>1. CASE UNCHANGED vars BY <1>1 DEF vars, LedgerMoves, QueueMoves
<1>2. CASE Admin
  <2>1. \A r \in Reactivities : Propose(r) => Grows BY TakesIsGrows DEF Propose
  <2>2. \A r \in Reactivities : \A to : WriteLifecycle(r, to) => Grows
    BY TakesIsGrows DEF WriteLifecycle
  <2> QED
    BY <1>2, <2>1, <2>2 DEF Admin, Propose, WriteLifecycle, FlipState, LedgerMoves, QueueMoves
<1>3. CASE Environment
  <2>1. \A o \in Owners : Event(o) => Grows BY TakesIsGrows DEF Event
  <2> QED
    BY <1>3, <2>1
    DEF Environment, Event, Midnight, Expire, Wipe, Restart, LedgerMoves, QueueMoves
<1>4. CASE ActWrite \/ LogFire
  <2>1. Grows BY <1>4, TakesIsGrows DEF ActWrite, LogFire
  <2>2. QueueMoves
    BY <1>4 DEF ActWrite, LogFire, NextBinding, TypeOK, QueueMoves
  <2> QED BY <2>1, <2>2 DEF LedgerMoves
<1>5. CASE FetchEmpty \/ Skip \/ Match \/ Decline \/ Act \/ Charge \/ PostFetch \/ Raises
  <2>1. LedgerMoves
    BY <1>5 DEF FetchEmpty, Skip, Match, Decline, Act, Charge, PostFetch, Raises, ActRaises,
                CycleRaises, LedgerMoves
  <2>2. QueueMoves
    BY <1>5 DEF FetchEmpty, Skip, Match, Decline, Act, Charge, PostFetch, Raises, ActRaises,
                CycleRaises, NextBinding, TypeOK, QueueMoves
  <2> QED BY <2>1, <2>2
<1> QED BY <1>1, <1>2, <1>3, <1>4, <1>5 DEF Next, Runner

(* The rows a fetch returns, numbered as in the ledger.                     *)
LEMMA FetchedRows ==
  ASSUME TypeOK, FetchRows
  PROVE  /\ last_seq' \in Nat /\ last_seq' = (IF reset_detected THEN 0 ELSE last_seq)
         /\ queue' \in Seq(EntryType)
         /\ \A p \in 1 .. Len(queue') :
              /\ last_seq' + p \in 1 .. Len(ledger)
              /\ queue'[p] = ledger[last_seq' + p]
<1>1. last_seq' \in Nat /\ last_seq' = (IF reset_detected THEN 0 ELSE last_seq)
  BY DEF FetchRows, TypeOK
<1>2. queue' = SubSeq(ledger, last_seq' + 1, Len(ledger)) BY DEF FetchRows
<1>3. ledger \in Seq(EntryType) /\ Len(ledger) \in Nat BY LedgerRows DEF TypeOK
<1>4. \A i \in last_seq' + 1 .. Len(ledger) : ledger[i] \in EntryType
  <2>1. \A i \in last_seq' + 1 .. Len(ledger) : i \in 1 .. Len(ledger) BY <1>1, <1>3
  <2> QED BY <1>3, <2>1
<1>5. Len(queue') = (IF last_seq' + 1 <= Len(ledger) THEN Len(ledger) - last_seq' ELSE 0)
  BY <1>1, <1>2, <1>3, <1>4, SubSeqProperties
<1>6. \A p \in 1 .. Len(ledger) - (last_seq' + 1) + 1 : queue'[p] = ledger[last_seq' + 1 + p - 1]
  BY <1>1, <1>2, <1>3, <1>4, SubSeqProperties
<1>7. ASSUME NEW p \in 1 .. Len(queue')
      PROVE  last_seq' + p \in 1 .. Len(ledger) /\ queue'[p] = ledger[last_seq' + p]
  <2>1. p \in 1 .. Len(ledger) - (last_seq' + 1) + 1 /\ p \in Nat /\ p >= 1 BY <1>1, <1>3, <1>5
  <2>2. last_seq' + 1 + p - 1 = last_seq' + p BY <1>1, <2>1
  <2>3. last_seq' + p \in 1 .. Len(ledger) BY <1>1, <1>3, <2>1
  <2> QED BY <1>6, <2>1, <2>2, <2>3
<1>8. queue' \in Seq(EntryType) BY <1>1, <1>2, <1>3, <1>4, SubSeqProperties
<1> QED BY <1>1, <1>7, <1>8

LEMMA FreshStep == ASSUME TypeOK, Fresh, [Next]_vars PROVE Fresh'
<1>1. CASE FetchRows
  <2>1. nextId' = nextId /\ ledger' = ledger BY <1>1 DEF FetchRows
  <2>2. \A p \in 1 .. Len(queue') : queue'[p].id < nextId'
    BY <1>1, <2>1, FetchedRows DEF Fresh, Rising
  <2>3. ASSUME NEW p \in 1 .. Len(queue'), NEW q \in 1 .. Len(queue'), p < q
        PROVE  queue'[p].id < queue'[q].id
    <3>1. last_seq' + p < last_seq' + q BY <1>1, <2>3, FetchedRows
    <3> QED BY <1>1, <3>1, FetchedRows DEF Fresh, Rising
  <2> QED BY <2>1, <2>2, <2>3 DEF Fresh, Rising
<1>2. CASE LedgerMoves /\ QueueMoves
  <2>1. nextId' \in {nextId, nextId + 1} BY <1>2 DEF LedgerMoves, Grows, Commit
  <2> QED BY <1>2, <2>1, LedgerRises, QueueRises DEF Fresh
<1> QED BY <1>1, <1>2, Shapes

-----------------------------------------------------------------------------
(* Steps outside the loop: rows come or go, nothing is sent or fetched.  A  *)
(* reset is never first detected by a new row, and an emptied ledger has    *)
(* nothing to fetch.                                                        *)
LEMMA QuietOnce ==
  ASSUME TypeOK, OnceInv, count'.faults = count.faults,
         UNCHANGED <<sent, pc, queue, cur, cursor>>, LedgerMoves
  PROVE  OnceInv'
<1> SUFFICES ASSUME count.faults = 0, NEW r \in Reactivities
             PROVE  InOrder(r)' /\ Ahead(r)' /\ Behind(r)'
  BY DEF OnceInv
<1>0. InOrder(r) /\ Ahead(r) /\ Behind(r) BY DEF OnceInv
<1>1. nextId' \in {nextId, nextId + 1} BY DEF LedgerMoves, Grows, Commit
<1>2. InOrder(r)' BY <1>0, <1>1, IdTypes DEF InOrder
<1>3. Behind(r)' BY <1>0 DEF Behind, Waiting
<1>4. Ahead(r)'
  <2>1. CASE UNCHANGED <<ledger, nextId>>
    BY <1>0, <2>1 DEF Ahead, Fetchable, reset_detected, cursor
  <2>2. CASE ledger' = <<>> BY <2>2 DEF Ahead
  <2>3. CASE Grows
    <3> SUFFICES ASSUME pc = "idle", NEW p \in 1 .. Len(ledger'), Fetchable(p)',
                        NEW i \in 1 .. Len(sent[r])
                 PROVE  sent[r][i] < ledger'[p].id
      BY DEF Ahead
    <3>1. /\ Len(ledger') = Len(ledger) + 1 /\ Len(ledger) \in Nat
          /\ \A q \in 1 .. Len(ledger) : ledger'[q] = ledger[q]
          /\ ledger'[Len(ledger) + 1].id = nextId
      BY <2>3, GrowsBy, IdTypes
    <3>2. CASE p = Len(ledger) + 1 BY <1>0, <3>1, <3>2 DEF InOrder
    <3>3. CASE p # Len(ledger) + 1
      <4>1. p \in 1 .. Len(ledger) BY <3>1, <3>3
      <4>2. last_seq \in Nat /\ UNCHANGED <<last_seq, last_hash>> BY DEF TypeOK, cursor
      <4>3. reset_detected' => reset_detected
        BY <3>1, <4>2 DEF reset_detected
      <4>4. Fetchable(p) BY <4>2, <4>3 DEF Fetchable
      <4>5. sent[r][i] < ledger[p].id BY <1>0, <4>1, <4>4 DEF Ahead
      <4> QED BY <3>1, <4>1, <4>5
    <3> QED BY <3>2, <3>3
  <2> QED BY <2>1, <2>2, <2>3 DEF LedgerMoves
<1> QED BY <1>2, <1>3, <1>4

(* The poll.  The rows fetched are those Ahead speaks of; once the cursor   *)
(* stands at the tail there is nothing to fetch.                            *)
LEMMA PollOnce ==
  ASSUME TypeOK, Fresh, OnceInv, FetchEmpty \/ FetchRows \/ PostFetch
  PROVE  OnceInv'
<1> SUFFICES ASSUME count.faults = 0, NEW r \in Reactivities
             PROVE  InOrder(r)' /\ Ahead(r)' /\ Behind(r)'
  BY DEF OnceInv, FetchEmpty, FetchRows, PostFetch
<1>0. InOrder(r) /\ Ahead(r) BY DEF OnceInv
<1>1. UNCHANGED <<ledger, nextId, sent>> BY DEF FetchEmpty, FetchRows, PostFetch, hist
<1>2. InOrder(r)' BY <1>0, <1>1 DEF InOrder
<1>3. CASE FetchEmpty
  BY <1>2, <1>3 DEF FetchEmpty, Ahead, Behind
<1>4. CASE FetchRows
  <2>1. Ahead(r)' BY <1>4 DEF FetchRows, Ahead
  <2>2. ASSUME queue' # <<>>, NEW i \in 1 .. Len(sent[r]) PROVE sent[r][i] < queue'[1].id
    <3>1. queue' \in Seq(EntryType) BY <1>4, FetchedRows
    <3>2. 1 \in 1 .. Len(queue') BY <2>2, <3>1, EmptySeq
    <3>3. /\ last_seq' + 1 \in 1 .. Len(ledger) /\ queue'[1] = ledger[last_seq' + 1]
          /\ last_seq' = (IF reset_detected THEN 0 ELSE last_seq)
      BY <1>4, <3>2, FetchedRows
    <3>4. Fetchable(last_seq' + 1) BY <3>3, <1>4, FetchedRows DEF Fetchable
    <3>5. pc = "idle" BY <1>4 DEF FetchRows
    <3> QED BY <1>0, <2>2, <3>3, <3>4, <3>5 DEF Ahead
  <2>3. Behind(r)'
    <3> SUFFICES ASSUME queue' # <<>>, NEW i \in 1 .. Len(sent[r])
                 PROVE  sent[r][i] <= queue'[1].id /\ sent[r][i] < queue'[1].id
      BY <1>1 DEF Behind
    <3>1. sent[r][i] < queue'[1].id BY <2>2
    <3>2. sent[r][i] \in Nat BY IdTypes
    <3>3. queue'[1].id \in Nat
      <4>1. 1 \in 1 .. Len(queue') BY <1>4, FetchedRows, EmptySeq
      <4> QED BY <1>4, <4>1, FetchedRows, IdTypes
    <3> QED BY <3>1, <3>2, <3>3
  <2> QED BY <1>2, <2>1, <2>3
<1>5. CASE PostFetch
  <2>1. Behind(r)' BY <1>5 DEF PostFetch, Behind
  <2>2. Ahead(r)'
    <3>1. CASE ledger = <<>> BY <1>1, <3>1 DEF Ahead
    <3>2. CASE ledger # <<>>
      <4>1. last_seq' = Len(ledger) /\ last_hash' = ledger[Len(ledger)].id
        BY <1>5, <3>2 DEF PostFetch
      <4>2. ~reset_detected' BY <1>1, <4>1, IdTypes DEF reset_detected
      <4> QED BY <1>1, <4>1, <4>2, IdTypes DEF Ahead, Fetchable
    <3> QED BY <3>1, <3>2
  <2> QED BY <1>2, <2>1, <2>2
<1> QED BY <1>3, <1>4, <1>5

(* The loop moves on: to a later binding, which has not acted on the head,  *)
(* or to a younger row.                                                     *)
LEMMA LoopOnce ==
  ASSUME TypeOK, Fresh, OnceInv, pc # "idle", pc' # "idle", count'.faults = count.faults,
         UNCHANGED sent, LedgerMoves, queue # <<>>,
         \/ NextBinding
         \/ UNCHANGED <<queue, cur>> /\ (pc' \in {"dispatch", "fire"} => pc \in {"dispatch", "fire"})
  PROVE  OnceInv'
<1> SUFFICES ASSUME count.faults = 0, NEW r \in Reactivities
             PROVE  InOrder(r)' /\ Ahead(r)' /\ Behind(r)'
  BY DEF OnceInv
<1>0. InOrder(r) /\ Behind(r) BY DEF OnceInv
<1>1. nextId' \in {nextId, nextId + 1} BY DEF LedgerMoves, Grows, Commit
<1>2. InOrder(r)' BY <1>0, <1>1, IdTypes DEF InOrder
<1>3. Ahead(r)' BY DEF Ahead
<1>4. r \in Nat /\ cur \in Nat BY DEF TypeOK, Reactivities
<1>5. CASE queue' = queue
  <2>1. Waiting(r)' => Waiting(r)
    <3>1. CASE NextBinding
      <4>1. Tail(queue) # queue
        <5>1. Len(Tail(queue)) = Len(queue) - 1 /\ Len(queue) \in Nat BY TailRows, IdTypes
        <5>2. \A n \in Nat : n - 1 # n OBVIOUS
        <5> QED BY <5>1, <5>2
      <4>2. cur' = cur + 1 BY <1>5, <3>1, <4>1 DEF NextBinding
      <4> QED BY <1>4, <4>2 DEF Waiting
    <3>2. CASE /\ UNCHANGED <<queue, cur>>
               /\ pc' \in {"dispatch", "fire"} => pc \in {"dispatch", "fire"}
      BY <3>2 DEF Waiting
    <3> QED BY <3>1, <3>2
  <2> QED BY <1>0, <1>2, <1>3, <1>5, <2>1 DEF Behind
<1>6. CASE queue' = Tail(queue)
  <2> SUFFICES ASSUME queue' # <<>>, NEW i \in 1 .. Len(sent[r])
               PROVE  sent[r][i] <= queue'[1].id /\ sent[r][i] < queue'[1].id
    BY <1>2, <1>3 DEF Behind
  <2>1. queue' \in Seq(EntryType) BY <1>6, HeadType
  <2>2. 1 \in 1 .. Len(queue') BY <2>1, EmptySeq
  <2>3. queue'[1] = queue[2] /\ 1 \in 1 .. Len(queue) /\ 2 \in 1 .. Len(queue)
    <3>1. Len(queue') = Len(queue) - 1 /\ Len(queue) \in Nat BY <1>6, TailRows, IdTypes
    <3>2. queue'[1] = queue[1 + 1] BY <1>6, <2>2, TailRows
    <3> QED BY <2>2, <3>1, <3>2
  <2>4. queue[1].id < queue[2].id BY <2>3 DEF Fresh, Rising
  <2>5. sent[r][i] <= queue[1].id BY <1>0 DEF Behind
  <2>6. sent[r][i] \in Nat /\ queue[1].id \in Nat /\ queue[2].id \in Nat BY <2>3, IdTypes
  <2> QED BY <2>3, <2>4, <2>5, <2>6
<1> QED BY <1>5, <1>6 DEF NextBinding

(* The act itself: the head is younger than all r acted on.                 *)
LEMMA ActOnce ==
  ASSUME TypeOK, Fresh, OnceInv, Act, queue # <<>>
  PROVE  OnceInv'
<1> SUFFICES ASSUME count.faults = 0, NEW r \in Reactivities
             PROVE  InOrder(r)' /\ Ahead(r)' /\ Behind(r)'
  BY DEF OnceInv, Act
<1>0. InOrder(r) /\ Behind(r) BY DEF OnceInv
<1>1. /\ UNCHANGED <<nextId, queue, cur>> /\ pc = "fire" /\ pc' = "act"
      /\ cur \in Reactivities /\ sent \in [Reactivities -> Seq(Nat \ {0})]
  BY DEF Act, TypeOK
<1>2. Ahead(r)' BY <1>1 DEF Ahead
<1>3. 1 \in 1 .. Len(queue) /\ Head(queue) = queue[1] /\ queue[1].id \in Nat \ {0}
  <2>1. queue \in Seq(EntryType) BY DEF TypeOK
  <2>2. 1 \in 1 .. Len(queue) /\ Head(queue) = queue[1] BY <2>1, EmptySeq
  <2>3. queue[1] \in EntryType BY <2>1, <2>2
  <2> QED BY <2>2, <2>3 DEF EntryType
<1>4. queue[1].id < nextId BY <1>3 DEF Fresh, Rising
<1>5. CASE r # cur
  <2>1. sent'[r] = sent[r] BY <1>5, <1>1 DEF Act
  <2>2. InOrder(r)' BY <1>0, <1>1, <2>1 DEF InOrder
  <2>3. Waiting(r)' => Waiting(r) BY <1>1, <1>5 DEF Waiting
  <2> QED BY <1>0, <1>1, <1>2, <2>1, <2>2, <2>3 DEF Behind
<1>6. CASE r = cur
  <2>1. sent'[r] = Append(sent[r], queue[1].id) /\ sent[r] \in Seq(Nat \ {0})
    BY <1>1, <1>3, <1>6 DEF Act
  <2>2. /\ Len(sent'[r]) = Len(sent[r]) + 1 /\ Len(sent[r]) \in Nat
        /\ \A i \in 1 .. Len(sent[r]) : sent'[r][i] = sent[r][i]
        /\ sent'[r][Len(sent[r]) + 1] = queue[1].id
    BY <1>3, <2>1, AppendProperties
  <2>3. \A i \in 1 .. Len(sent[r]) : sent[r][i] < queue[1].id /\ sent[r][i] \in Nat
    BY <1>0, <1>1, <1>6, IdTypes DEF Behind, Waiting
  <2>4. \A i \in 1 .. Len(sent'[r]) : i \in 1 .. Len(sent[r]) \/ i = Len(sent[r]) + 1
    BY <2>2
  <2>5. \A i \in 1 .. Len(sent'[r]) : sent'[r][i] < nextId
    BY <1>0, <1>4, <2>2, <2>4 DEF InOrder
  <2>6. ASSUME NEW i \in 1 .. Len(sent'[r]), NEW j \in 1 .. Len(sent'[r]), i < j
        PROVE  sent'[r][i] < sent'[r][j]
    <3>1. i \in 1 .. Len(sent[r]) BY <2>2, <2>4, <2>6
    <3>2. CASE j \in 1 .. Len(sent[r]) BY <1>0, <2>2, <2>6, <3>1, <3>2 DEF InOrder
    <3>3. CASE j = Len(sent[r]) + 1 BY <2>2, <2>3, <3>1, <3>3
    <3> QED BY <2>4, <3>2, <3>3
  <2>7. InOrder(r)' BY <1>1, <2>5, <2>6 DEF InOrder
  <2>8. Behind(r)'
    <3>1. ~Waiting(r)' BY <1>1, <1>6 DEF Waiting, Reactivities
    <3>2. ASSUME NEW i \in 1 .. Len(sent'[r]) PROVE sent'[r][i] <= queue[1].id
      <4>1. CASE i \in 1 .. Len(sent[r]) BY <1>3, <2>2, <2>3, <4>1
      <4>2. CASE i = Len(sent[r]) + 1 BY <1>3, <2>2, <4>2
      <4> QED BY <2>4, <4>1, <4>2
    <3> QED BY <1>1, <3>1, <3>2 DEF Behind
  <2> QED BY <1>2, <2>7, <2>8
<1> QED BY <1>5, <1>6

(* A failure or a restart ends the claim.                                   *)
LEMMA FaultOnce ==
  ASSUME TypeOK, Raises \/ Restart
  PROVE  OnceInv'
<1>1. count'.faults = count.faults + 1 /\ count.faults \in Nat
  BY DEF Raises, ActRaises, CycleRaises, Restart, Use, TypeOK
<1> QED BY <1>1 DEF OnceInv

LEMMA OnceStep == ASSUME TypeOK, Fresh, OnceInv, [Next]_vars PROVE OnceInv'
<1>0. count \in [{"events", "admin", "wipes", "faults", "days"} -> Nat] BY DEF TypeOK
<1>q. pc \in {"fire", "act", "charge", "log"} => queue # <<>> BY DEF TypeOK
<1>1. FetchRows \/ LedgerMoves BY Shapes
<1>2. CASE UNCHANGED vars
  BY <1>2, QuietOnce DEF vars, hist, LedgerMoves
<1>3. CASE Admin
  <2>1. UNCHANGED <<sent, pc, queue, cur, cursor>> /\ count'.faults = count.faults
    BY <1>0, <1>3 DEF Admin, Propose, WriteLifecycle, FlipState, Use, hist, cursor
  <2>2. LedgerMoves
    BY <1>3, TakesIsGrows DEF Admin, Propose, WriteLifecycle, FlipState, LedgerMoves
  <2> QED BY <2>1, <2>2, QuietOnce
<1>4. CASE Environment
  <2>1. CASE Restart BY <2>1, FaultOnce
  <2>2. CASE ~Restart
    <3>1. UNCHANGED <<sent, pc, queue, cur, cursor>> /\ count'.faults = count.faults
      BY <1>0, <1>4, <2>2 DEF Environment, Event, Midnight, Expire, Wipe, Use, hist, cursor
    <3>2. LedgerMoves
      BY <1>4, <2>2, TakesIsGrows DEF Environment, Event, Midnight, Expire, Wipe, LedgerMoves
    <3> QED BY <3>1, <3>2, QuietOnce
  <2> QED BY <2>1, <2>2
<1>5. CASE FetchEmpty \/ FetchRows \/ PostFetch BY <1>5, PollOnce
<1>6. CASE Act BY <1>6, <1>q, ActOnce DEF Act
<1>7. CASE Raises BY <1>7, FaultOnce
<1>8. CASE Skip \/ Decline \/ LogFire
  <2>1. LedgerMoves
    BY <1>8, TakesIsGrows DEF Skip, Decline, LogFire, LedgerMoves
  <2>2. /\ pc # "idle" /\ pc' # "idle" /\ count'.faults = count.faults
        /\ UNCHANGED sent /\ queue # <<>> /\ NextBinding
    BY <1>8, <1>q DEF Skip, Decline, LogFire, NextBinding
  <2> QED BY <2>1, <2>2, LoopOnce
<1>9. CASE Match \/ ActWrite \/ Charge
  <2>1. LedgerMoves
    BY <1>9, TakesIsGrows DEF Match, ActWrite, Charge, LedgerMoves
  <2>2. /\ pc # "idle" /\ pc' # "idle" /\ count'.faults = count.faults
        /\ UNCHANGED <<sent, queue, cur>> /\ queue # <<>>
        /\ pc' \in {"dispatch", "fire"} => pc \in {"dispatch", "fire"}
    BY <1>9, <1>q DEF Match, ActWrite, Charge, hist
  <2> QED BY <2>1, <2>2, LoopOnce
<1> QED BY <1>2, <1>3, <1>4, <1>5, <1>6, <1>7, <1>8, <1>9 DEF Next, Runner

(* A hash is acted on at most once by each reactivity, although cycles are  *)
(* re-read after every reset the runner detects: its history is increasing. *)
THEOREM ActsOnceHolds == Spec => []ActsOnce
<1> DEFINE I == Fresh /\ OnceInv
<1>1. Init => I
  <2> SUFFICES ASSUME Init PROVE I OBVIOUS
  <2>1. Fresh BY DEF Init, Fresh, Rising
  <2>2. OnceInv BY DEF Init, OnceInv, InOrder, Ahead, Behind
  <2> QED BY <2>1, <2>2
<1>2. TypeOK /\ I /\ [Next]_vars => I' BY FreshStep, OnceStep
<1>3. TypeOK /\ I => ActsOnce
  <2> SUFFICES ASSUME TypeOK, OnceInv, count.faults = 0, NEW r \in Reactivities,
                      NEW i \in 1 .. Len(sent[r]), NEW j \in 1 .. Len(sent[r]),
                      sent[r][i] = sent[r][j]
               PROVE  i = j
    BY DEF ActsOnce
  <2>1. InOrder(r) BY DEF OnceInv
  <2>2. /\ i \in Nat /\ j \in Nat /\ sent[r][i] \in Nat
        /\ i < j => sent[r][i] < sent[r][j]
        /\ j < i => sent[r][j] < sent[r][i]
    BY <2>1, IdTypes DEF InOrder
  <2> QED BY <2>2
<1>4. Spec => [](TypeOK /\ I) BY <1>1, <1>2, TypeCorrect, PTL DEF Spec
<1> QED BY <1>3, <1>4, PTL

-----------------------------------------------------------------------------
(* DisableTakesEffect: an act of a disabled reactivity is the end of a fire *)
(* that was under way, and no other begins before the next confirm.         *)
StrayInv ==
  \A r \in Reactivities :
    stray[r] # 0 => stray[r] = 1 /\ state[r] = "disabled" /\ ~(pc = "fire" /\ cur = r)

LEMMA StrayStep == ASSUME TypeOK, StrayInv, [Next]_vars PROVE StrayInv'
<1>0. /\ state \in [Reactivities -> States] /\ stray \in [Reactivities -> Nat]
      /\ cur \in Reactivities
  BY DEF TypeOK
<1>1. CASE Act
  <2>1. pc = "fire" /\ pc' = "act" /\ UNCHANGED <<state, cur>> BY <1>1 DEF Act, regs
  <2>2. stray[cur] = 0 BY <1>0, <2>1 DEF StrayInv
  <2>3. \A r \in Reactivities :
          stray'[r] = IF r = cur /\ state[r] = "disabled" THEN 1 ELSE stray[r]
    BY <1>0, <1>1, <2>2 DEF Act
  <2> QED BY <1>0, <2>1, <2>3 DEF StrayInv
<1>2. CASE FlipState
  <2>1. UNCHANGED <<pc, cur>> BY <1>2 DEF FlipState
  <2>2. \A r \in Reactivities :
          stray'[r] = 0 \/ (stray'[r] = stray[r] /\ state'[r] = state[r])
    BY <1>0, <1>2 DEF FlipState
  <2> QED BY <2>1, <2>2 DEF StrayInv
<1>3. CASE Restart BY <1>3 DEF Restart, StrayInv
<1>4. CASE Match
  <2>1. stray' = stray /\ state' = state /\ cur' = cur /\ state[cur] = "active"
    BY <1>4 DEF Match, Eligible, regs, hist
  <2> QED BY <2>1 DEF StrayInv
<1>5. CASE /\ UNCHANGED <<stray, state>>
           /\ pc' # "fire" \/ UNCHANGED <<pc, cur>>
  BY <1>5 DEF StrayInv
<1> QED
  BY <1>1, <1>2, <1>3, <1>4, <1>5
  DEF Next, Admin, Environment, Runner, Raises, Propose, WriteLifecycle, Event, Midnight, Expire,
      Wipe, FetchEmpty, FetchRows, Skip, Decline, NextBinding, ActWrite, ActRaises, Charge,
      LogFire, CycleRaises, PostFetch, vars, regs, hist

(* A disabled reactivity acts at most once more: on the entry it was busy   *)
(* with when disable() flipped its state.                                   *)
THEOREM DisablesTakeEffect == Spec => []DisableTakesEffect
<1>1. Init => StrayInv BY DEF Init, StrayInv
<1>2. TypeOK /\ StrayInv => DisableTakesEffect
  <2> SUFFICES ASSUME TypeOK, StrayInv, NEW r \in Reactivities PROVE stray[r] <= 1
    BY DEF DisableTakesEffect
  <2>1. stray[r] \in Nat BY DEF TypeOK
  <2> QED BY <2>1 DEF StrayInv
<1>3. Spec => [](TypeOK /\ StrayInv) BY <1>1, StrayStep, TypeCorrect, PTL DEF Spec
<1> QED BY <1>2, <1>3, PTL

-----------------------------------------------------------------------------
(***************************************************************************)
(* Lifecycle: the state dispatch acts on is on record, and unless two        *)
(* decisions on it overlapped it is the last one.                           *)
(***************************************************************************)
RowType == [op : {"propose", "confirm", "disable"}, id : Ids \cup Unregistered]

DecisionCallType == [op : {"confirm", "disable"}, id : Ids, step : {"write", "flip"}]

(* A call that is to flip its binding has committed its decision.           *)
Committed ==
  \A a \in Admins : call[a] # NoDecision /\ call[a].step = "flip" =>
    \E i \in Decided(call[a].id) : rows[i].op = call[a].op

(* Unless decisions on id overlapped, one call at most is to flip it, and   *)
(* its decision is the last: it will be in effect.                          *)
InFlight ==
  \A id \in Ids : restarts = 0 /\ id \notin overlapped =>
    /\ \A a, b \in Flipping(id) : a = b
    /\ \A a \in Flipping(id) : \E i \in Decided(id) : Final(id, i) /\ rows[i].op = call[a].op

RegistryIInv == RegistryTypeOK /\ StateOnRecord /\ DecisionInEffect /\ Committed /\ InFlight

-----------------------------------------------------------------------------
(***************************************************************************)
(* What a row adds to the decisions.                                        *)
(***************************************************************************)
LEMMA CallOf ==
  ASSUME RegistryTypeOK, NEW a \in Admins, call[a] # NoDecision
  PROVE  /\ call[a] \in DecisionCallType /\ call[a].id \in Ids
         /\ call[a].op \in {"confirm", "disable"} /\ call[a].step \in {"write", "flip"}
BY DEF RegistryTypeOK, DecisionCallType

LEMMA CallTyped ==
  RegistryTypeOK <=> /\ rows \in Seq(RowType) /\ record_state \in [Ids -> RecordStates]
             /\ call \in [Admins -> DecisionCallType \cup {NoDecision}]
             /\ result \in [Admins -> {"none", "ok", "error"}] /\ overlapped \subseteq Ids
             /\ calls \in 0 .. MaxCalls /\ restarts \in 0 .. MaxRestarts
BY DEF RegistryTypeOK, RowType, DecisionCallType

LEMMA RowAdded ==
  ASSUME RegistryTypeOK, NEW row \in RowType, rows' = Append(rows, row), NEW id
  PROVE  /\ rows' \in Seq(RowType) /\ Len(rows) \in Nat
         /\ Decided(id)' = Decided(id) \cup
              (IF row.id = id /\ row.op # "propose" THEN {Len(rows) + 1} ELSE {})
         /\ \A i \in Decided(id) : rows'[i] = rows[i] /\ i < Len(rows) + 1
         /\ rows'[Len(rows) + 1] = row
<1>1. rows \in Seq(RowType) BY CallTyped
<1>2. /\ Append(rows, row) \in Seq(RowType) /\ Len(Append(rows, row)) = Len(rows) + 1
      /\ \A i \in 1 .. Len(rows) : Append(rows, row)[i] = rows[i]
      /\ Append(rows, row)[Len(rows) + 1] = row
  BY <1>1, AppendProperties
<1>3. Len(rows) \in Nat BY <1>1, LenProperties
<1>4. /\ rows' \in Seq(RowType) /\ Len(rows') = Len(rows) + 1
      /\ \A i \in 1 .. Len(rows) : rows'[i] = rows[i] /\ i < Len(rows) + 1
      /\ rows'[Len(rows) + 1] = row
  BY <1>2, <1>3
<1>5. \A i : i \in 1 .. Len(rows') <=> i \in 1 .. Len(rows) \/ i = Len(rows) + 1
  BY <1>3, <1>4
<1> QED BY <1>3, <1>4, <1>5 DEF Decided

LEMMA RowsKept == ASSUME UNCHANGED rows, NEW id PROVE Decided(id)' = Decided(id)
BY DEF Decided

(* A row that decides nothing on id leaves its decisions as they are.       *)
Same(id) == Decided(id)' = Decided(id) /\ \A i \in Decided(id) : rows'[i] = rows[i]

LEMMA RowsSame ==
  ASSUME RegistryTypeOK, NEW row \in RowType, rows' = Append(rows, row), NEW id,
         row.id # id \/ row.op = "propose"
  PROVE  Same(id)
BY RowAdded DEF Same

-----------------------------------------------------------------------------
(***************************************************************************)
(* Types.                                                                   *)
(***************************************************************************)
LEMMA TypeStep == RegistryTypeOK /\ [RegistryNext]_registryVars => RegistryTypeOK'
<1> SUFFICES ASSUME RegistryTypeOK, [RegistryNext]_registryVars PROVE RegistryTypeOK' OBVIOUS
<1>0. /\ rows \in Seq(RowType) /\ record_state \in [Ids -> RecordStates]
      /\ call \in [Admins -> DecisionCallType \cup {NoDecision}]
      /\ result \in [Admins -> {"none", "ok", "error"}] /\ overlapped \subseteq Ids
      /\ calls \in 0 .. MaxCalls /\ restarts \in 0 .. MaxRestarts
      /\ MaxCalls \in Nat /\ MaxRestarts \in Nat
  BY CallTyped, CallsAssumption
<1> DEFINE Goal == /\ rows' \in Seq(RowType) /\ record_state' \in [Ids -> RecordStates]
                   /\ call' \in [Admins -> DecisionCallType \cup {NoDecision}]
                   /\ result' \in [Admins -> {"none", "ok", "error"}] /\ overlapped' \subseteq Ids
                   /\ calls' \in 0 .. MaxCalls /\ restarts' \in 0 .. MaxRestarts
<1>1. ASSUME NEW a \in Admins, NEW id \in Ids, NEW op \in {"confirm", "disable"}, Call(a, op, id)
      PROVE  Goal
  <2>1. [op |-> op, id |-> id, step |-> "write"] \in DecisionCallType BY DEF DecisionCallType
  <2>2. calls' \in 0 .. MaxCalls BY <1>0, <1>1 DEF Call, Begin
  <2> QED BY <1>0, <1>1, <2>1, <2>2 DEF Call
<1>2. ASSUME NEW a \in Admins, NEW id \in Unregistered, CallUnknown(a, id) PROVE Goal
  BY <1>0, <1>2 DEF CallUnknown, Begin
<1>3. ASSUME NEW a \in Admins, NEW id \in Ids \cup Unregistered, Proposal(a, id) PROVE Goal
  <2>1. [op |-> "propose", id |-> id] \in RowType BY DEF RowType
  <2>2. rows' \in Seq(RowType) BY <1>3, <2>1, RowAdded DEF Proposal
  <2> QED BY <1>0, <1>3, <2>2 DEF Proposal, Begin
<1>4. ASSUME NEW a \in Admins, CommitDecision(a) PROVE Goal
  <2>1. call[a] \in DecisionCallType /\ call[a].id \in Ids /\ call[a].op \in {"confirm", "disable"}
    BY <1>4, CallOf DEF CommitDecision
  <2>2. [op |-> call[a].op, id |-> call[a].id] \in RowType BY <2>1 DEF RowType
  <2>3. rows' \in Seq(RowType) BY <1>4, <2>2, RowAdded DEF CommitDecision
  <2>4. [call[a] EXCEPT !.step = "flip"] \in DecisionCallType BY <2>1 DEF DecisionCallType
  <2>5. call' = [call EXCEPT ![a] = [call[a] EXCEPT !.step = "flip"]] BY <1>4 DEF CommitDecision
  <2> QED BY <1>0, <1>4, <2>1, <2>3, <2>4, <2>5 DEF CommitDecision
<1>5. ASSUME NEW a \in Admins, Raise(a) PROVE Goal BY <1>0, <1>5 DEF Raise
<1>6. ASSUME NEW a \in Admins, Flip(a) PROVE Goal
  <2>1. call[a].id \in Ids /\ Target(call[a].op) \in RecordStates
    BY <1>6, CallOf DEF Flip, Target, RecordStates
  <2> QED BY <1>0, <1>6, <2>1 DEF Flip
<1>7. ASSUME Reboot PROVE Goal BY <1>0, <1>7, InitialAssumption DEF Reboot
<1>8. ASSUME UNCHANGED registryVars PROVE Goal BY <1>0, <1>8 DEF registryVars
<1>9. Goal
  <2> HIDE DEF Goal
  <2> QED BY <1>1, <1>2, <1>3, <1>4, <1>5, <1>6, <1>7, <1>8 DEF RegistryNext
<1>10. RegistryTypeOK' <=> Goal BY DEF RegistryTypeOK, RowType, DecisionCallType
<1> QED BY <1>9, <1>10

-----------------------------------------------------------------------------
(***************************************************************************)
(* Every state is on record.                                                *)
(***************************************************************************)
LEMMA Writes ==
  ASSUME RegistryTypeOK, [RegistryNext]_registryVars
  PROVE  UNCHANGED rows \/ \E row \in RowType : rows' = Append(rows, row)
<1>1. ASSUME NEW a \in Admins, NEW id \in Ids \cup Unregistered, Proposal(a, id)
      PROVE  \E row \in RowType : rows' = Append(rows, row)
  <2>1. [op |-> "propose", id |-> id] \in RowType BY DEF RowType
  <2> QED BY <1>1, <2>1 DEF Proposal
<1>2. ASSUME NEW a \in Admins, CommitDecision(a) PROVE \E row \in RowType : rows' = Append(rows, row)
  <2>1. [op |-> call[a].op, id |-> call[a].id] \in RowType BY <1>2, CallOf DEF RowType, CommitDecision
  <2> QED BY <1>2, <2>1 DEF CommitDecision
<1>3. ASSUME NEW a \in Admins
      PROVE  /\ \A id, op : Call(a, op, id) => UNCHANGED rows
             /\ \A id : CallUnknown(a, id) => UNCHANGED rows
             /\ Raise(a) \/ Flip(a) => UNCHANGED rows
  BY DEF Call, CallUnknown, Raise, Flip
<1>4. Reboot \/ UNCHANGED registryVars => UNCHANGED rows BY DEF Reboot, registryVars
<1> QED BY <1>1, <1>2, <1>3, <1>4 DEF RegistryNext

(* What was decided stays decided.                                          *)
LEMMA DecidedStays ==
  ASSUME RegistryTypeOK, [RegistryNext]_registryVars, NEW id, NEW i \in Decided(id)
  PROVE  i \in Decided(id)' /\ rows'[i] = rows[i]
<1>1. CASE UNCHANGED rows BY <1>1, RowsKept
<1>2. CASE \E row \in RowType : rows' = Append(rows, row) BY <1>2, RowAdded
<1> QED BY <1>1, <1>2, Writes

LEMMA CommitAdds ==
  ASSUME RegistryTypeOK, NEW a \in Admins, CommitDecision(a), NEW id
  PROVE  /\ Len(rows) \in Nat
         /\ id = call[a].id =>
              /\ Decided(id)' = Decided(id) \cup {Len(rows) + 1}
              /\ rows'[Len(rows) + 1].op = call[a].op
              /\ \A i \in Decided(id) : i < Len(rows) + 1
         /\ id # call[a].id => Same(id)
<1> DEFINE row == [op |-> call[a].op, id |-> call[a].id]
<1>1. /\ row \in RowType /\ row.op = call[a].op /\ row.id = call[a].id /\ row.op # "propose"
      /\ rows' = Append(rows, row)
  BY CallOf DEF RowType, CommitDecision
<1> HIDE DEF row
<1>2. id # call[a].id => Same(id) BY <1>1, RowsSame
<1>3. id = call[a].id => Decided(id)' = Decided(id) \cup {Len(rows) + 1}
  BY <1>1, RowAdded
<1> QED BY <1>1, <1>2, <1>3, RowAdded

(* How a step changes what an admin waits for.                              *)
LEMMA CallStep ==
  ASSUME RegistryTypeOK, [RegistryNext]_registryVars, NEW a \in Admins, call'[a] # NoDecision, call'[a].step = "flip"
  PROVE  \/ CommitDecision(a) /\ call'[a].id = call[a].id /\ call'[a].op = call[a].op
         \/ call'[a] = call[a] /\ ~ CommitDecision(a)
<1>0. call \in [Admins -> DecisionCallType \cup {NoDecision}] BY CallTyped
<1>1. CASE CommitDecision(a)
  BY <1>0, <1>1, CallOf DEF CommitDecision, DecisionCallType
<1>2. CASE call'[a] # call[a] /\ ~ CommitDecision(a)
  <2>1. ASSUME NEW b \in Admins, NEW id \in Ids, NEW op \in {"confirm", "disable"},
               Call(b, op, id)
        PROVE  FALSE
    BY <1>0, <1>2, <2>1 DEF Call
  <2>2. ASSUME NEW b \in Admins, CommitDecision(b) PROVE FALSE BY <1>0, <1>2, <2>2 DEF CommitDecision
  <2>3. ASSUME NEW b \in Admins, Raise(b) \/ Flip(b) PROVE FALSE
    BY <1>0, <1>2, <2>3 DEF Raise, Flip
  <2>4. ASSUME NEW b \in Admins PROVE \A id : ~ CallUnknown(b, id) /\ ~ Proposal(b, id)
    BY <1>2 DEF CallUnknown, Proposal
  <2>5. ~ Reboot /\ ~ UNCHANGED registryVars BY <1>2 DEF Reboot, registryVars
  <2> QED BY <2>1, <2>2, <2>3, <2>4, <2>5 DEF RegistryNext
<1> QED BY <1>1, <1>2

LEMMA CommittedStep ==
  ASSUME RegistryTypeOK, Committed, [RegistryNext]_registryVars PROVE Committed'
<1> SUFFICES ASSUME NEW a \in Admins, call'[a] # NoDecision, call'[a].step = "flip",
                    NEW id, id = call'[a].id
             PROVE  \E i \in Decided(id)' : rows'[i].op = call'[a].op
  BY DEF Committed, Decided
<1>1. CASE CommitDecision(a) BY <1>1, CallStep, CommitAdds
<1>2. CASE ~ CommitDecision(a)
  <2>1. call'[a] = call[a] BY <1>2, CallStep
  <2>2. PICK i \in Decided(id) : rows[i].op = call[a].op BY <2>1 DEF Committed
  <2> QED BY <2>1, <2>2, DecidedStays
<1> QED BY <1>1, <1>2

LEMMA StateStep ==
  ASSUME RegistryTypeOK, [RegistryNext]_registryVars
  PROVE  \/ UNCHANGED record_state \/ Reboot \/ \E a \in Admins : Flip(a)
BY DEF RegistryNext, Call, CallUnknown, Proposal, CommitDecision, Raise, registryVars

LEMMA OnRecordStep ==
  ASSUME RegistryTypeOK, StateOnRecord, Committed, [RegistryNext]_registryVars PROVE StateOnRecord'
<1> SUFFICES ASSUME NEW id \in Ids
             PROVE  \/ record_state'[id] = BootState[id]
                    \/ \E i \in Decided(id)' : record_state'[id] = Target(rows'[i].op)
  BY DEF StateOnRecord
<1>0. record_state \in [Ids -> RecordStates] BY CallTyped
<1>1. CASE record_state'[id] = record_state[id] BY <1>1, DecidedStays DEF StateOnRecord
<1>2. CASE Reboot BY <1>2 DEF Reboot
<1>3. ASSUME NEW a \in Admins, Flip(a), record_state'[id] # record_state[id]
      PROVE  \E i \in Decided(id)' : record_state'[id] = Target(rows'[i].op)
  <2>1. id = call[a].id /\ record_state'[id] = Target(call[a].op) BY <1>0, <1>3 DEF Flip
  <2>2. PICK i \in Decided(id) : rows[i].op = call[a].op BY <1>3, <2>1 DEF Committed, Flip
  <2> QED BY <2>1, <2>2, DecidedStays
<1> QED BY <1>1, <1>2, <1>3, StateStep

-----------------------------------------------------------------------------
(***************************************************************************)
(* A decision is in effect once nobody is to flip the binding.              *)
(***************************************************************************)

(* For id the step is somebody else's business.                             *)
Apart(id) ==
  /\ Same(id) /\ record_state'[id] = record_state[id]
  /\ Flipping(id)' = Flipping(id) /\ \A b \in Flipping(id) : call'[b] = call[b]

LEMMA QuietCall ==
  ASSUME NEW a \in Admins, rows' = rows, NEW id,
         a \notin Flipping(id), a \notin Flipping(id)',
         \A b \in Admins \ {a} : call'[b] = call[b]
  PROVE  /\ Same(id) /\ Flipping(id)' = Flipping(id)
         /\ \A b \in Flipping(id) : call'[b] = call[b]
<1>1. \A b \in Admins \ {a} : b \in Flipping(id)' <=> b \in Flipping(id) BY DEF Flipping
<1>2. Flipping(id) \subseteq Admins /\ Flipping(id)' \subseteq Admins BY DEF Flipping
<1>3. Same(id) BY RowsKept DEF Same
<1> QED BY <1>1, <1>2, <1>3

LEMMA OtherStep ==
  ASSUME RegistryTypeOK, [RegistryNext]_registryVars, ~ Reboot, NEW id \in Ids,
         \A a \in Admins : CommitDecision(a) \/ Flip(a) => call[a].id # id
  PROVE  Apart(id)
<1>0. /\ call \in [Admins -> DecisionCallType \cup {NoDecision}] /\ record_state \in [Ids -> RecordStates]
  BY CallTyped
<1>1. ASSUME NEW a \in Admins, NEW k \in Ids, NEW op \in {"confirm", "disable"}, Call(a, op, k)
      PROVE  Apart(id)
  <2>1. /\ call[a] = NoDecision /\ call'[a].step = "write"
        /\ \A b \in Admins \ {a} : call'[b] = call[b]
    BY <1>0, <1>1 DEF Call, Begin
  <2>2. a \notin Flipping(id) /\ a \notin Flipping(id)' BY <2>1 DEF Flipping
  <2>3. rows' = rows /\ record_state' = record_state BY <1>1 DEF Call
  <2> QED BY <2>1, <2>2, <2>3, QuietCall DEF Apart
<1>2. ASSUME UNCHANGED <<rows, record_state, call>> PROVE Apart(id)
  BY <1>2, RowsKept DEF Apart, Same, Flipping
<1>3. ASSUME NEW a \in Admins, NEW k \in Ids \cup Unregistered, Proposal(a, k)
      PROVE  Apart(id)
  <2> DEFINE row == [op |-> "propose", id |-> k]
  <2>1. row \in RowType /\ row.op = "propose" /\ rows' = Append(rows, row)
    BY <1>3 DEF Proposal, RowType
  <2> HIDE DEF row
  <2>2. Same(id) BY <2>1, RowsSame
  <2> QED BY <1>3, <2>2 DEF Apart, Proposal, Flipping
<1>4. ASSUME NEW a \in Admins, CommitDecision(a) PROVE Apart(id)
  <2>1. call[a].id # id /\ call[a] \in DecisionCallType BY <1>4, CallOf DEF CommitDecision
  <2>2. call'[a].id = call[a].id BY <1>0, <1>4, <2>1 DEF CommitDecision, DecisionCallType
  <2>3. \A b \in Admins \ {a} : call'[b] = call[b] BY <1>0, <1>4 DEF CommitDecision
  <2>4. a \notin Flipping(id) /\ a \notin Flipping(id)' BY <2>1, <2>2 DEF Flipping
  <2>5. \A b \in Admins \ {a} : b \in Flipping(id)' <=> b \in Flipping(id)
    BY <2>3 DEF Flipping
  <2>6. Flipping(id) \subseteq Admins /\ Flipping(id)' \subseteq Admins BY DEF Flipping
  <2>7. Same(id) /\ record_state' = record_state BY <1>4, <2>1, CommitAdds DEF CommitDecision
  <2> QED BY <2>3, <2>4, <2>5, <2>6, <2>7 DEF Apart
<1>5. ASSUME NEW a \in Admins, Raise(a) PROVE Apart(id)
  <2>1. /\ call[a].step # "flip" /\ call'[a] = NoDecision
        /\ \A b \in Admins \ {a} : call'[b] = call[b]
    BY <1>0, <1>5 DEF Raise
  <2>2. a \notin Flipping(id) /\ a \notin Flipping(id)' BY <2>1 DEF Flipping
  <2>3. rows' = rows /\ record_state' = record_state BY <1>5 DEF Raise
  <2> QED BY <2>1, <2>2, <2>3, QuietCall DEF Apart
<1>6. ASSUME NEW a \in Admins, Flip(a) PROVE Apart(id)
  <2>1. call[a].id # id /\ call'[a] = NoDecision /\ \A b \in Admins \ {a} : call'[b] = call[b]
    BY <1>0, <1>6 DEF Flip
  <2>2. a \notin Flipping(id) /\ a \notin Flipping(id)' BY <2>1 DEF Flipping
  <2>3. record_state'[id] = record_state[id] /\ rows' = rows BY <1>0, <1>6, <2>1 DEF Flip
  <2> QED BY <2>1, <2>2, <2>3, QuietCall DEF Apart
<1>7. ASSUME NEW a \in Admins, NEW k, CallUnknown(a, k) PROVE UNCHANGED <<rows, record_state, call>>
  BY <1>7 DEF CallUnknown
<1> QED BY <1>1, <1>2, <1>3, <1>4, <1>5, <1>6, <1>7 DEF RegistryNext, registryVars

LEMMA FinalKept ==
  ASSUME NEW id, Same(id), NEW i, Final(id, i) PROVE Final(id, i)' /\ rows'[i] = rows[i]
BY DEF Same, Final

(* The bookkeeping of overlaps and restarts only grows.                     *)
LEMMA History ==
  ASSUME RegistryTypeOK, [RegistryNext]_registryVars, restarts' = 0
  PROVE  ~ Reboot /\ restarts = 0 /\ overlapped \subseteq overlapped'
<1>1. restarts \in Nat BY CallTyped, CallsAssumption
<1>2. ~ Reboot BY <1>1 DEF Reboot
<1> QED
  BY <1>2 DEF RegistryNext, Call, CallUnknown, Proposal, CommitDecision, Raise, Flip, registryVars

LEMMA EffectStep ==
  ASSUME RegistryTypeOK, InFlight, DecisionInEffect, [RegistryNext]_registryVars
  PROVE  InFlight' /\ DecisionInEffect'
<1> DEFINE Settled(id) ==
             Flipping(id) = {} =>
               \/ Decided(id) = {} /\ record_state[id] = BootState[id]
               \/ \E i \in Decided(id) : Final(id, i) /\ record_state[id] = Target(rows[i].op)
           Alone(id) ==
             /\ \A a, b \in Flipping(id) : a = b
             /\ \A a \in Flipping(id) :
                  \E i \in Decided(id) : Final(id, i) /\ rows[i].op = call[a].op
<1> SUFFICES ASSUME NEW id \in Ids, restarts' = 0, id \notin overlapped'
             PROVE  Settled(id)' /\ Alone(id)'
  BY DEF InFlight, DecisionInEffect
<1>0. /\ call \in [Admins -> DecisionCallType \cup {NoDecision}] /\ record_state \in [Ids -> RecordStates]
      /\ ~ Reboot /\ restarts = 0 /\ id \notin overlapped
  BY CallTyped, History
<1>1. Settled(id) /\ Alone(id) BY <1>0 DEF InFlight, DecisionInEffect
<1>2. ASSUME NEW a \in Admins, CommitDecision(a), call[a].id = id PROVE Settled(id)' /\ Alone(id)'
  <2>1. Flipping(id) = {} BY <1>2 DEF CommitDecision
  <2>2. \A b \in Admins \ {a} : call'[b] = call[b] BY <1>0, <1>2 DEF CommitDecision
  <2>3. /\ call'[a] # NoDecision /\ call'[a].id = id /\ call'[a].step = "flip"
        /\ call'[a].op = call[a].op
    BY <1>0, <1>2, CallOf DEF CommitDecision, DecisionCallType, NoDecision
  <2>4. Flipping(id)' = {a} BY <2>1, <2>2, <2>3 DEF Flipping
  <2>0. PICK n : n = Len(rows) + 1 OBVIOUS
  <2>5. /\ Decided(id)' = Decided(id) \cup {n} /\ rows'[n].op = call[a].op
        /\ \A i \in Decided(id) : i < n
    BY <1>2, <2>0, CommitAdds
  <2>6. n \in Nat /\ Decided(id) \subseteq Nat
    <3>1. Len(rows) \in Nat BY <1>2, CommitAdds
    <3> QED BY <2>0, <3>1 DEF Decided
  <2>7. Final(id, n)' BY <2>5, <2>6 DEF Final
  <2> QED BY <2>3, <2>4, <2>5, <2>7
<1>3. ASSUME NEW a \in Admins, Flip(a), call[a].id = id PROVE Settled(id)' /\ Alone(id)'
  <2>1. a \in Flipping(id) BY <1>3 DEF Flip, Flipping
  <2>2. \A b \in Admins \ {a} : call'[b] = call[b] BY <1>0, <1>3 DEF Flip
  <2>3. call'[a] = NoDecision BY <1>0, <1>3 DEF Flip
  <2>4. Flipping(id)' = {} BY <1>1, <2>1, <2>2, <2>3 DEF Flipping
  <2>5. PICK i \in Decided(id) : Final(id, i) /\ rows[i].op = call[a].op BY <1>1, <2>1
  <2>6. record_state'[id] = Target(call[a].op) /\ rows' = rows BY <1>0, <1>3 DEF Flip
  <2>7. Same(id) BY <2>6, RowsKept DEF Same
  <2>8. i \in Decided(id)' /\ Final(id, i)' /\ rows'[i].op = call[a].op
    BY <2>5, <2>7, FinalKept DEF Same
  <2> QED BY <2>4, <2>6, <2>8
<1>4. CASE \A a \in Admins : CommitDecision(a) \/ Flip(a) => call[a].id # id
  <2>1. Apart(id) BY <1>0, <1>4, OtherStep
  <2>2. Same(id) /\ record_state'[id] = record_state[id] /\ Flipping(id)' = Flipping(id)
    BY <2>1 DEF Apart
  <2>3. \A b \in Flipping(id) : call'[b] = call[b] BY <2>1 DEF Apart
  <2>4. \A i : Final(id, i) => Final(id, i)' /\ rows'[i] = rows[i] BY <2>2, FinalKept
  <2>5. Decided(id)' = Decided(id) BY <2>2 DEF Same
  <2> QED BY <1>1, <2>2, <2>3, <2>4, <2>5
<1> QED BY <1>2, <1>3, <1>4

-----------------------------------------------------------------------------
(***************************************************************************)
(* The theorems.                                                            *)
(***************************************************************************)
LEMMA InitHolds == RegistryInit => RegistryIInv
<1> SUFFICES ASSUME RegistryInit PROVE RegistryIInv OBVIOUS
<1>1. Len(rows) = 0 /\ rows \in Seq(RowType) BY EmptySeq DEF RegistryInit
<1>2. \A id : Decided(id) = {} BY <1>1 DEF Decided
<1>3. \A id : Flipping(id) = {} BY DEF RegistryInit, Flipping
<1>4. RegistryTypeOK BY <1>1, CallTyped, InitialAssumption, CallsAssumption DEF RegistryInit
<1>5. StateOnRecord /\ DecisionInEffect BY <1>2 DEF RegistryInit, StateOnRecord, DecisionInEffect
<1>6. Committed BY DEF RegistryInit, Committed
<1>7. InFlight BY <1>3 DEF InFlight
<1> QED BY <1>4, <1>5, <1>6, <1>7 DEF RegistryIInv

LEMMA NextKeeps == RegistryIInv /\ [RegistryNext]_registryVars => RegistryIInv'
BY TypeStep, OnRecordStep, CommittedStep, EffectStep DEF RegistryIInv

THEOREM RegistryInductive == RegistrySpec => []RegistryIInv
BY InitHolds, NextKeeps, PTL DEF RegistrySpec

(* Bindings, rows and calls keep their types, for any numbers of them.      *)
THEOREM RegistryType == RegistrySpec => []RegistryTypeOK
<1>1. RegistryIInv => RegistryTypeOK BY DEF RegistryIInv
<1> QED BY RegistryInductive, <1>1, PTL

(* confirm and disable, however they interleave, fail or are cut off by a   *)
(* restart, leave every binding in a state that is on record, and in the    *)
(* state of the last decision unless two decisions overlapped.              *)
THEOREM RegistryAlwaysStands == RegistrySpec => []RegistryStands
<1>1. RegistryIInv => RegistryStands BY DEF RegistryIInv, RegistryStands
<1> QED BY RegistryInductive, <1>1, PTL
=============================================================================
