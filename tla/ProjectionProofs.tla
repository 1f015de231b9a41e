-------------------------- MODULE ProjectionProofs --------------------------
(***************************************************************************)
(* Proofs about ProjectionRunner as worm-core runs it, one run_once at a    *)
(* time, for any number of writes, wipes, failures and restarts; and about  *)
(* the clock-tick emitters, for any emitters with distinct cadences.        *)
(***************************************************************************)
EXTENDS ProjectionRunner, ClockTicks, FiniteSetTheorems, SequenceTheorems, TLAPS

(* cli.py starts one run_forever task, which awaits every run_once.         *)
OneTask == \A s, t \in Tasks : s = t

(* The ledger ends exactly at the row a (seq, hash) pair names.             *)
Matches(n, h) == n > 0 /\ Len(ledger) = n /\ ledger[n] = h

(* No stored hash can be reused by a later write.                           *)
HashesOld ==
  /\ \A i \in 1 .. Len(ledger) : ledger[i] < nextHash
  /\ last_hash < nextHash
  /\ \A t \in Tasks : seen[t].hash < nextHash

(* A cursor past 0 always has a hash to compare.                            *)
CursorHashed == last_seq > 0 => last_hash # NoHash

(* What each point of run_once knows about the ledger, the tables and the   *)
(* cursor.                                                                  *)
TaskInv(t) ==
  /\ pc[t] # "advance" => (Matches(last_seq, last_hash) => tables = ledger)
  /\ pc[t] = "persist" => (Matches(seen[t].seq, seen[t].hash) => proj[t] = ledger)
  /\ pc[t] = "advance" => (Matches(seen[t].seq, seen[t].hash) => tables = ledger)
  /\ pc[t] # "idle" => last_seq <= seen[t].seq
  /\ seen[t].seq > 0 => seen[t].hash # NoHash
  /\ seen[t].seq = 0 => seen[t] = NoRows

IInv ==
  /\ TypeOK
  /\ HashesOld
  /\ CursorHashed
  /\ \A t \in Tasks : TaskInv(t)

-----------------------------------------------------------------------------
(* The runner starts with an empty cursor over an empty tenant.             *)
LEMMA InitIInv == Init => IInv
<1> SUFFICES ASSUME Init PROVE IInv OBVIOUS
<1>1. TypeOK BY DEF Init, TypeOK, Tails, NoRows, NoHash
<1>2. HashesOld /\ CursorHashed
  BY DEF Init, HashesOld, CursorHashed, NoRows, NoHash
<1>3. ASSUME NEW t \in Tasks PROVE TaskInv(t)
  <2>1. seen[t] = NoRows /\ NoRows.seq = 0 /\ pc[t] = "idle" /\ last_seq = 0
    BY DEF Init, NoRows
  <2>2. ~(NoRows.seq > 0) /\ ~(last_seq > 0) BY <2>1
  <2> QED BY <2>1, <2>2 DEF TaskInv, Matches
<1> QED BY <1>1, <1>2, <1>3 DEF IInv

(* A write or a wipe can only make cursor and ledger disagree.              *)
LEMMA EnvIInv == ASSUME IInv, Write \/ Wipe PROVE IInv'
<1> USE DEF IInv
<1>0. UNCHANGED <<tables, last_seq, last_hash, pc, seen, proj>>
  BY DEF Write, Wipe
<1>1. \A n, h \in Nat : h < nextHash /\ Matches(n, h)' => FALSE
  <2>1. CASE Write
    <3>1. Len(ledger') = Len(ledger) + 1 /\ ledger'[Len(ledger')] = nextHash
      BY <2>1 DEF Write, TypeOK
    <3> QED BY <3>1 DEF Matches, TypeOK
  <2>2. CASE Wipe BY <2>2 DEF Wipe, Matches
  <2> QED BY <2>1, <2>2
<1>2. TypeOK'
  <2>1. CASE Write
    <3>1. ledger' \in Seq(Nat \ {0}) /\ nextHash' \in Nat \ {0}
      BY <2>1 DEF Write, TypeOK
    <3> QED BY <3>1, <1>0, <2>1 DEF Write, TypeOK
  <2>2. CASE Wipe
    BY <1>0, <2>2 DEF Wipe, TypeOK
  <2> QED BY <2>1, <2>2
<1>3. HashesOld' /\ CursorHashed'
  <2>1. CASE Write
    <3>1. /\ nextHash' = nextHash + 1
          /\ \A i \in 1 .. Len(ledger') : ledger'[i] = nextHash \/ (i \in 1 .. Len(ledger) /\ ledger'[i] = ledger[i])
      BY <2>1 DEF Write, TypeOK
    <3>2. \A i \in 1 .. Len(ledger') : ledger'[i] < nextHash'
      BY <3>1 DEF HashesOld, TypeOK
    <3>3. last_hash' < nextHash' /\ \A t \in Tasks : seen'[t].hash < nextHash'
      BY <1>0, <3>1 DEF HashesOld, TypeOK, Tails
    <3> QED BY <1>0, <3>2, <3>3 DEF HashesOld, CursorHashed
  <2>2. CASE Wipe BY <1>0, <2>2 DEF Wipe, HashesOld, CursorHashed
  <2> QED BY <2>1, <2>2
<1>4. \A t \in Tasks : TaskInv(t)'
  <2> SUFFICES ASSUME NEW t \in Tasks PROVE TaskInv(t)' OBVIOUS
  <2>1. ~Matches(last_seq, last_hash)' /\ ~Matches(seen[t].seq, seen[t].hash)'
    BY <1>0, <1>1 DEF TypeOK, Tails, HashesOld, Matches
  <2> QED BY <2>1, <1>0 DEF TaskInv
<1> QED BY <1>2, <1>3, <1>4

(* A restart forgets the cursor and keeps the tables.                       *)
LEMMA RestartIInv == ASSUME IInv, Restart PROVE IInv'
<1> USE DEF IInv
<1>1. TypeOK' BY DEF Restart, TypeOK, NoHash
<1>2. HashesOld' /\ CursorHashed'
  BY DEF Restart, HashesOld, CursorHashed, NoHash, TypeOK
<1>3. \A t \in Tasks : TaskInv(t)'
  BY DEF Restart, TaskInv, Matches, TypeOK
<1> QED BY <1>1, <1>2, <1>3

(* Every step of run_once keeps the invariant when no other call overlaps.  *)
LEMMA TaskIInv ==
  ASSUME OneTask, IInv, NEW t \in Tasks, Step(t) \/ Fail(t)
  PROVE  IInv' /\ (last_seq' < last_seq => last_seq' = 0 /\ CursorGone)
<1> USE DEF IInv
<1>0. \A s \in Tasks : s = t BY DEF OneTask
<1>1. CASE FetchEmpty(t)
  <2>1. TypeOK' BY <1>1 DEF FetchEmpty, TypeOK, env, NoRows, NoHash, Tails
  <2>2. HashesOld' /\ CursorHashed'
    BY <1>1 DEF FetchEmpty, HashesOld, CursorHashed, TypeOK, env, NoRows, NoHash, Tails
  <2>3. TaskInv(t)'
    BY <1>1 DEF FetchEmpty, TaskInv, Matches, TypeOK, env, NoRows, NoHash, Tails
  <2>4. CursorGone BY <1>1 DEF FetchEmpty, CursorGone, TypeOK
  <2> QED BY <1>0, <1>1, <2>1, <2>2, <2>3, <2>4 DEF FetchEmpty
<1>2. CASE FetchRows(t)
  <2>0. /\ Len(ledger) \in Nat \ {0} /\ ledger[Len(ledger)] \in Nat \ {0}
        /\ seen'[t] = [seq |-> Len(ledger), hash |-> ledger[Len(ledger)]]
        /\ pc'[t] = "build" /\ UNCHANGED <<env, tables, proj>>
        /\ \/ reset_detected /\ last_seq' = 0 /\ last_hash' = NoHash
           \/ ~reset_detected /\ UNCHANGED <<last_seq, last_hash>>
    BY <1>2 DEF FetchRows, TypeOK, TailOf
  <2>1. TypeOK'
    BY <1>0, <1>2, <2>0 DEF FetchRows, TypeOK, env, NoHash, Tails
  <2>2. HashesOld' /\ CursorHashed'
    BY <1>0, <2>0 DEF HashesOld, CursorHashed, TypeOK, env, NoHash
  <2>3. last_seq' <= Len(ledger)
    BY <2>0 DEF reset_detected, TypeOK
  <2>4. pc[t] = "idle" BY <1>2 DEF FetchRows
  <2>5. TaskInv(t)'
    BY <2>0, <2>3, <2>4 DEF TaskInv, Matches, TypeOK, env, NoHash
  <2>6. reset_detected => CursorGone
    BY DEF reset_detected, CursorGone
  <2> QED BY <1>0, <2>0, <2>1, <2>2, <2>5, <2>6 DEF TypeOK
<1>3. CASE Build(t)
  <2>1. TypeOK' /\ HashesOld' /\ CursorHashed'
    BY <1>3 DEF Build, TypeOK, HashesOld, CursorHashed, env
  <2>2. TaskInv(t)'
    BY <1>3 DEF Build, TaskInv, Matches, TypeOK, env
  <2> QED BY <1>0, <1>3, <2>1, <2>2 DEF Build, TypeOK
<1>4. CASE Persist(t)
  <2>1. TypeOK' /\ HashesOld' /\ CursorHashed'
    BY <1>4 DEF Persist, TypeOK, HashesOld, CursorHashed, env
  <2>2. TaskInv(t)'
    BY <1>4 DEF Persist, TaskInv, Matches, TypeOK, env, NoRows, NoHash, Tails
  <2> QED BY <1>0, <1>4, <2>1, <2>2 DEF Persist, TypeOK
<1>5. CASE Advance(t)
  <2>1. TypeOK' /\ HashesOld' /\ CursorHashed'
    BY <1>5 DEF Advance, TypeOK, HashesOld, CursorHashed, TaskInv, env, Tails
  <2>2. TaskInv(t)'
    BY <1>5 DEF Advance, TaskInv, Matches, TypeOK, env
  <2>3. last_seq <= seen[t].seq /\ last_seq' = seen[t].seq
    BY <1>5 DEF Advance, TaskInv
  <2>4. ~(last_seq' < last_seq)
    BY <2>3 DEF TypeOK, Tails
  <2> QED BY <1>0, <2>1, <2>2, <2>4
<1>6. CASE Fail(t)
  <2>1. TypeOK' /\ HashesOld' /\ CursorHashed'
    BY <1>6 DEF Fail, TypeOK, HashesOld, CursorHashed
  <2>2. TaskInv(t)'
    BY <1>6 DEF Fail, TaskInv, Matches, TypeOK
  <2> QED BY <1>0, <1>6, <2>1, <2>2 DEF Fail, TypeOK
<1> QED BY <1>1, <1>2, <1>3, <1>4, <1>5, <1>6 DEF Step

(* What a step may do to the cursor.                                        *)
CursorStep == last_seq' < last_seq /\ faults' = faults => last_seq' = 0 /\ CursorGone

(* The inductive step over all actions.                                     *)
LEMMA NextIInv == ASSUME OneTask, IInv, [Next]_vars PROVE IInv' /\ [CursorStep]_vars
<1>1. CASE UNCHANGED vars
  BY <1>1 DEF vars, IInv, TypeOK, HashesOld, CursorHashed, TaskInv, Matches
<1>2. CASE Write \/ Wipe
  <2>1. last_seq' = last_seq /\ last_seq \in Nat
    BY <1>2 DEF Write, Wipe, IInv, TypeOK
  <2>2. CursorStep BY <2>1 DEF CursorStep
  <2> QED BY <1>2, <2>2, EnvIInv
<1>3. CASE Restart
  <2>1. faults' # faults
    BY <1>3 DEF Restart, IInv, TypeOK
  <2> QED BY <1>3, <2>1, RestartIInv DEF CursorStep
<1>4. CASE \E t \in Tasks : Step(t) \/ Fail(t)
  BY <1>4, TaskIInv DEF CursorStep
<1> QED BY <1>1, <1>2, <1>3, <1>4 DEF Next

(* The invariant, for one run_once at a time.                               *)
THEOREM Inductive == ASSUME OneTask PROVE Spec => []IInv
<1>1. Init => IInv BY InitIInv
<1>2. IInv /\ [Next]_vars => IInv' BY NextIInv, OneTask
<1> QED BY <1>1, <1>2, PTL DEF Spec

(* Type correctness of the runner's state.                                  *)
THEOREM TypeCorrect == ASSUME OneTask PROVE Spec => []TypeOK
<1>1. IInv => TypeOK BY DEF IInv
<1>2. Spec => []IInv BY Inductive, OneTask
<1> QED BY <1>1, <1>2, PTL

(* run_once never skips a ledger whose fold is not in the tables, whatever  *)
(* was written, wiped, re-seeded or lost between its reads and its persist. *)
THEOREM NeverSkipsStale == ASSUME OneTask PROVE Spec => []SkipOnlyWhenFresh
<1>1. IInv => SkipOnlyWhenFresh
  <2> SUFFICES ASSUME IInv, \A t \in Tasks : pc[t] = "idle", ledger # <<>>, UpToDate
               PROVE  tables = ledger
    BY DEF SkipOnlyWhenFresh
  <2>1. PICK t \in Tasks : TRUE BY TasksAssumption
  <2>2. Matches(last_seq, last_hash)
    BY DEF IInv, TypeOK, CursorHashed, UpToDate, reset_detected, Matches
  <2> QED BY <2>1, <2>2 DEF IInv, TaskInv
<1>2. Spec => []IInv BY Inductive, OneTask
<1> QED BY <1>1, <1>2, PTL

(* The cursor rewinds only to 0 and only when its row left the ledger.      *)
THEOREM CursorRewindsOnReset == ASSUME OneTask PROVE Spec => CursorMonotone
<1>1. IInv /\ [Next]_vars => [CursorStep]_vars BY NextIInv, OneTask
<1>2. Spec => []IInv BY Inductive, OneTask
<1> QED BY <1>1, <1>2, PTL DEF Spec, CursorMonotone, CursorStep

-----------------------------------------------------------------------------
(***************************************************************************)
(* ClockTicks: any number of emitters, one per cadence, that count in one    *)
(* transaction and write in a later one.  What a daemon has counted is still  *)
(* the number of its cadence's ticks when it writes, since nobody else ticks  *)
(* in its cadence and a fault makes it count again.                         *)
(***************************************************************************)
CountsStand ==
  \A e \in Emitters : timer_at[e] = "counted" => sequence_number[e] = next_number(e)

(* A daemon counts only while it may tick again.                            *)
OneMoreFits == \A e \in Emitters : timer_at[e] = "counted" => emitted[e] < MaxTicks

EmittersInv ==
  EmittersTypeOK /\ OneMoreFits /\ TicksNumbered /\ (tickWipes = 0 => CountsStand)

TickType == [tick_interval_s : Cadences, number : Nat]

LEMMA EmittersTyped ==
  ASSUME EmittersTypeOK
  PROVE  /\ ticked \in Seq(TickType) /\ Len(ticked) \in Nat
         /\ timer_at \in [Emitters -> {"asleep", "counted"}]
         /\ sequence_number \in [Emitters -> Nat]
         /\ emitted \in [Emitters -> 0 .. MaxTicks]
         /\ tickFaults \in 0 .. MaxTickFaults /\ tickWipes \in 0 .. MaxTickWipes
         /\ MaxTicks \in Nat /\ MaxTickFaults \in Nat /\ MaxTickWipes \in Nat
BY TicksAssumption DEF EmittersTypeOK, TickType

LEMMA EmittersTypedBack ==
  ASSUME ticked \in Seq(TickType), timer_at \in [Emitters -> {"asleep", "counted"}],
         sequence_number \in [Emitters -> Nat], emitted \in [Emitters -> 0 .. MaxTicks],
         tickFaults \in 0 .. MaxTickFaults, tickWipes \in 0 .. MaxTickWipes
  PROVE  EmittersTypeOK
BY DEF EmittersTypeOK, TickType

(* What tick_once counts is a number.                                       *)
LEMMA MatchCounts ==
  ASSUME EmittersTypeOK, NEW s
  PROVE  Cardinality(Match(s)) \in Nat
<1>1. Len(ticked) \in Nat BY EmittersTyped
<1>2. IsFiniteSet(1 .. Len(ticked)) BY <1>1, FS_Interval
<1>3. Match(s) \subseteq 1 .. Len(ticked) BY DEF Match
<1> QED BY <1>2, <1>3, FS_Subset, FS_CardinalityType

(* The ticks of its cadence before a tick, read off the rows alone.         *)
Before(i) == {j \in 1 .. Len(ticked) : ticked[j].tick_interval_s = ticked[i].tick_interval_s /\ j < i}

NumbersStand == \A i \in 1 .. Len(ticked) : ticked[i].number = Cardinality(Before(i))

LEMMA NumberedBefore ==
  /\ TicksNumbered <=> (tickWipes = 0 => NumbersStand)
  /\ TicksNumbered' <=> (tickWipes' = 0 => NumbersStand')
<1>1. \A i : {j \in Match(ticked[i].tick_interval_s) : j < i} = Before(i) BY DEF Match, Before
<1>2. \A i : {j \in {k \in 1 .. Len(ticked') : ticked'[k].tick_interval_s = ticked'[i].tick_interval_s} : j < i}
              = Before(i)'
  BY DEF Before
<1>3. TicksNumbered <=> (tickWipes = 0 => NumbersStand) BY <1>1 DEF TicksNumbered, NumbersStand
<1>4. TicksNumbered' <=> (tickWipes' = 0 => NumbersStand')
  BY <1>2 DEF TicksNumbered, NumbersStand, Match
<1> QED BY <1>3, <1>4

LEMMA EmittersStart == EmittersInit => EmittersInv
<1> SUFFICES ASSUME EmittersInit PROVE EmittersInv OBVIOUS
<1>1. ticked \in Seq(TickType) /\ Len(ticked) = 0 BY DEF EmittersInit
<1>2. EmittersTypeOK
  <2>1. 0 \in 0 .. MaxTicks /\ 0 \in 0 .. MaxTickFaults /\ 0 \in 0 .. MaxTickWipes /\ 0 \in Nat
    BY TicksAssumption
  <2> QED BY <1>1, <2>1, EmittersTypedBack DEF EmittersInit
<1>3. TicksNumbered BY <1>1 DEF TicksNumbered
<1>4. CountsStand /\ OneMoreFits BY DEF EmittersInit, CountsStand, OneMoreFits
<1> QED BY <1>2, <1>3, <1>4 DEF EmittersInv

(* Rows that stay give the counts they gave.                                 *)
LEMMA RowsStay ==
  ASSUME UNCHANGED ticked
  PROVE  /\ \A s : Match(s)' = Match(s)
         /\ (TicksNumbered /\ tickWipes' = tickWipes) => TicksNumbered'
         /\ \A e \in Emitters : next_number(e)' = next_number(e)
<1>1. \A s : Match(s)' = Match(s) BY DEF Match
<1>2. \A e \in Emitters : next_number(e)' = next_number(e) BY <1>1 DEF next_number
<1>3. (TicksNumbered /\ tickWipes' = tickWipes) => TicksNumbered'
  BY <1>1 DEF TicksNumbered
<1> QED BY <1>1, <1>2, <1>3

LEMMA CountStep == ASSUME EmittersInv, NEW e \in Emitters, Count(e) PROVE EmittersInv'
<1>0. EmittersTypeOK BY DEF EmittersInv
<1>1. UNCHANGED <<ticked, emitted, tickFaults, tickWipes>> BY DEF Count
<1>2. next_number(e) \in Nat BY <1>0, MatchCounts DEF next_number
<1>3. EmittersTypeOK'
  <2>1. timer_at' \in [Emitters -> {"asleep", "counted"}] BY <1>0, EmittersTyped DEF Count
  <2>2. sequence_number' \in [Emitters -> Nat] BY <1>0, <1>2, EmittersTyped DEF Count
  <2> QED BY <1>0, <1>1, <2>1, <2>2 DEF EmittersTypeOK
<1>4. TicksNumbered' BY <1>1, RowsStay DEF EmittersInv
<1>5. tickWipes' = 0 => CountsStand'
  <2> SUFFICES ASSUME tickWipes = 0, NEW f \in Emitters, timer_at'[f] = "counted"
               PROVE  sequence_number'[f] = next_number(f)'
    BY <1>1 DEF CountsStand
  <2>1. next_number(f)' = next_number(f) BY <1>1, RowsStay
  <2>2. CASE f = e
    <3>1. sequence_number'[f] = next_number(e) BY <1>0, <2>2, EmittersTyped DEF Count
    <3> QED BY <2>1, <2>2, <3>1
  <2>3. CASE f # e
    <3>1. sequence_number'[f] = sequence_number[f] /\ timer_at[f] = "counted"
      BY <1>0, <2>3, EmittersTyped DEF Count
    <3> QED BY <2>1, <3>1 DEF EmittersInv, CountsStand
  <2> QED BY <2>2, <2>3
<1>6. OneMoreFits' BY <1>0, EmittersTyped DEF Count, EmittersInv, OneMoreFits
<1> QED BY <1>3, <1>4, <1>5, <1>6 DEF EmittersInv

(* The tick that is appended carries the number of its cadence's ticks, and  *)
(* no other cadence has one more.                                           *)
LEMMA TickStep == ASSUME EmittersInv, NEW e \in Emitters, Tick(e) PROVE EmittersInv'
<1> DEFINE tick == [tick_interval_s |-> Cadence[e], number |-> sequence_number[e]]
<1>0. EmittersTypeOK BY DEF EmittersInv
<1>n. PICK n \in Nat : n = Len(ticked) BY <1>0, EmittersTyped
<1>1. /\ timer_at[e] = "counted" /\ ticked' = Append(ticked, tick)
      /\ timer_at' = [timer_at EXCEPT ![e] = "asleep"]
      /\ emitted' = [emitted EXCEPT ![e] = @ + 1]
      /\ UNCHANGED <<sequence_number, tickFaults, tickWipes>>
  BY DEF Tick
<1>2. tick \in TickType /\ tick.tick_interval_s = Cadence[e] /\ tick.number = sequence_number[e]
  BY <1>0, EmittersTyped DEF TickType, Cadences
<1>3. /\ ticked \in Seq(TickType) /\ n \in Nat
      /\ ticked' \in Seq(TickType) /\ Len(ticked') = n + 1
      /\ \A i \in 1 .. n : ticked'[i] = ticked[i]
      /\ ticked'[n + 1] = tick
  <2> HIDE DEF tick
  <2>1. ticked \in Seq(TickType) BY <1>0, EmittersTyped
  <2> QED BY <1>1, <1>2, <1>n, <2>1, AppendProperties
<1> HIDE DEF tick
<1>4. \A s : Match(s)' = Match(s) \cup IF s = Cadence[e] THEN {n + 1} ELSE {}
  <2> TAKE s
  <2>1. \A i : i \in Match(s)' <=> i \in 1 .. n + 1 /\ ticked'[i].tick_interval_s = s
    BY <1>3 DEF Match
  <2>2. \A i : i \in Match(s) <=> i \in 1 .. n /\ ticked[i].tick_interval_s = s
    BY <1>n DEF Match
  <2>3. \A i : i \in 1 .. n + 1 <=> i \in 1 .. n \/ i = n + 1 BY <1>3
  <2>4. ticked'[n + 1].tick_interval_s = Cadence[e] BY <1>2, <1>3
  <2>5. ~(n + 1 \in 1 .. n) BY <1>3
  <2>6. \A i : i \in Match(s)' <=> i \in Match(s) \/ (i = n + 1 /\ s = Cadence[e])
    BY <1>3, <2>1, <2>2, <2>3, <2>4, <2>5
  <2> QED BY <2>6
<1>5. \A i \in 1 .. n : Before(i)' = Before(i)
  BY <1>3, <1>n DEF Before
<1>6. Before(n + 1)' = Match(Cadence[e])
  <2>1. \A j : j \in Before(n + 1)' <=> j \in 1 .. n + 1 /\ ticked'[j].tick_interval_s = Cadence[e] /\ j < n + 1
    BY <1>2, <1>3 DEF Before
  <2>2. \A j : j \in 1 .. n + 1 /\ j < n + 1 <=> j \in 1 .. n BY <1>3
  <2>3. \A j : j \in Match(Cadence[e]) <=> j \in 1 .. n /\ ticked[j].tick_interval_s = Cadence[e]
    BY <1>n DEF Match
  <2>4. \A j : j \in Before(n + 1)' <=> j \in Match(Cadence[e]) BY <1>3, <2>1, <2>2, <2>3
  <2> QED BY <2>4
<1>7. EmittersTypeOK'
  <2>1. timer_at' \in [Emitters -> {"asleep", "counted"}] BY <1>0, <1>1, EmittersTyped
  <2>2. emitted' \in [Emitters -> 0 .. MaxTicks]
    <3>1. emitted[e] + 1 \in 0 .. MaxTicks BY <1>0, <1>1, EmittersTyped DEF EmittersInv, OneMoreFits
    <3> QED BY <1>0, <1>1, <3>1, EmittersTyped
  <2> QED BY <1>0, <1>1, <1>3, <2>1, <2>2 DEF EmittersTypeOK, TickType
<1>8. OneMoreFits' BY <1>0, <1>1, EmittersTyped DEF EmittersInv, OneMoreFits
<1>10. CASE tickWipes # 0
  BY <1>1, <1>7, <1>8, <1>10 DEF EmittersInv, TicksNumbered
<1>9. CASE tickWipes = 0
  <2>1. TicksNumbered'
    <3>1. ASSUME NEW i \in 1 .. n PROVE ticked'[i].number = Cardinality(Before(i)')
      <4>1. ticked[i].number = Cardinality(Before(i))
        BY <1>9, <1>n, NumberedBefore DEF EmittersInv, NumbersStand
      <4> QED BY <1>3, <1>5, <4>1
    <3>2. ticked'[n + 1].number = Cardinality(Before(n + 1)')
      <4>1. sequence_number[e] = Cardinality(Match(Cadence[e]))
        BY <1>1, <1>9 DEF EmittersInv, CountsStand, next_number
      <4> QED BY <1>2, <1>3, <1>6, <4>1
    <3>3. \A i \in 1 .. Len(ticked') : ticked'[i].number = Cardinality(Before(i)')
      <4>1. \A i : i \in 1 .. Len(ticked') => i \in 1 .. n \/ i = n + 1 BY <1>3
      <4> QED BY <3>1, <3>2, <4>1
    <3>4. NumbersStand' BY <3>3 DEF NumbersStand
    <3> QED BY <3>4, NumberedBefore
  <2>2. CountsStand'
    <3> SUFFICES ASSUME NEW f \in Emitters, timer_at'[f] = "counted"
                 PROVE  sequence_number'[f] = next_number(f)'
      BY DEF CountsStand
    <3>1. f # e /\ timer_at[f] = "counted" BY <1>0, <1>1, EmittersTyped
    <3>2. Cadence[f] # Cadence[e] BY <3>1, CadenceAssumption
    <3>3. Match(Cadence[f])' = Match(Cadence[f]) BY <1>4, <3>2
    <3> QED BY <1>1, <1>9, <3>1, <3>3 DEF EmittersInv, CountsStand, next_number
  <2> QED BY <1>7, <1>8, <2>1, <2>2 DEF EmittersInv
<1> QED BY <1>9, <1>10

(* Daemons that fail or die sleep, and count before they write again; a wipe *)
(* takes the rows away and the property says nothing any more.               *)
LEMMA DisturbedStep ==
  ASSUME EmittersInv, EmittersRestart \/ WipeTicks \/ \E e \in Emitters : Raise(e)
  PROVE  EmittersInv'
<1>0. EmittersTypeOK BY DEF EmittersInv
<1>1. CASE WipeTicks
  <2>1. tickWipes' = tickWipes + 1 /\ tickWipes' # 0 /\ tickWipes' \in 0 .. MaxTickWipes
    BY <1>0, <1>1, EmittersTyped DEF WipeTicks
  <2>2. ticked' \in Seq(TickType) BY <1>1 DEF WipeTicks
  <2>3. EmittersTypeOK'
    BY <1>0, <1>1, <2>1, <2>2 DEF EmittersTypeOK, TickType, WipeTicks
  <2>4. OneMoreFits' BY <1>1 DEF WipeTicks, EmittersInv, OneMoreFits
  <2> QED BY <2>1, <2>3, <2>4 DEF EmittersInv, TicksNumbered
<1>2. CASE EmittersRestart \/ \E e \in Emitters : Raise(e)
  <2>1. UNCHANGED <<ticked, tickWipes, emitted>> /\ tickFaults < MaxTickFaults /\ tickFaults' = tickFaults + 1
    BY <1>2 DEF EmittersRestart, Raise
  <2>2. tickFaults' \in 0 .. MaxTickFaults BY <1>0, <2>1, EmittersTyped
  <2>3. /\ timer_at' \in [Emitters -> {"asleep", "counted"}] /\ sequence_number' \in [Emitters -> Nat]
        /\ \A f \in Emitters : timer_at'[f] = "counted" =>
             timer_at[f] = "counted" /\ sequence_number'[f] = sequence_number[f]
    <3>1. CASE EmittersRestart
      <4>1. \A f \in Emitters : timer_at'[f] = "asleep" BY <3>1 DEF EmittersRestart
      <4> QED BY <3>1, <4>1 DEF EmittersRestart
    <3>2. ASSUME NEW e \in Emitters, Raise(e)
          PROVE  /\ timer_at' \in [Emitters -> {"asleep", "counted"}] /\ sequence_number' \in [Emitters -> Nat]
                 /\ \A f \in Emitters : timer_at'[f] = "counted" =>
                      timer_at[f] = "counted" /\ sequence_number'[f] = sequence_number[f]
      BY <1>0, <3>2, EmittersTyped DEF Raise
    <3> QED BY <1>2, <3>1, <3>2
  <2>4. EmittersTypeOK' BY <1>0, <2>1, <2>2, <2>3 DEF EmittersTypeOK
  <2>5. TicksNumbered' BY <2>1, RowsStay DEF EmittersInv
  <2>6. tickWipes' = 0 => CountsStand'
    BY <2>1, <2>3, RowsStay DEF EmittersInv, CountsStand
  <2>7. OneMoreFits' BY <2>1, <2>3 DEF EmittersInv, OneMoreFits
  <2> QED BY <2>4, <2>5, <2>6, <2>7 DEF EmittersInv
<1> QED BY <1>1, <1>2

LEMMA EmittersStep == ASSUME EmittersInv, [EmittersNext]_ticksVars PROVE EmittersInv'
<1>1. CASE UNCHANGED ticksVars
  <2>1. UNCHANGED <<ticked, timer_at, sequence_number, emitted, tickFaults, tickWipes>>
    BY <1>1 DEF ticksVars
  <2>2. EmittersTypeOK' BY <2>1 DEF EmittersInv, EmittersTypeOK
  <2>3. TicksNumbered' BY <2>1, RowsStay DEF EmittersInv
  <2>4. tickWipes' = 0 => CountsStand' BY <2>1, RowsStay DEF EmittersInv, CountsStand
  <2>5. OneMoreFits' BY <2>1 DEF EmittersInv, OneMoreFits
  <2> QED BY <2>2, <2>3, <2>4, <2>5 DEF EmittersInv
<1>2. CASE EmittersNext
  BY <1>2, CountStep, TickStep, DisturbedStep DEF EmittersNext
<1> QED BY <1>1, <1>2

(* Daemons, rows and their numbers keep their types (clock_tick_emitter.py). *)
THEOREM EmittersType == EmittersSpec => []EmittersTypeOK
<1>1. EmittersInv => EmittersTypeOK BY DEF EmittersInv
<1> QED BY <1>1, EmittersStart, EmittersStep, PTL DEF EmittersSpec

(* However many cadences tick into the ledger, whatever fails and however    *)
(* often the process restarts, the ticks of a cadence are numbered from 0    *)
(* without a gap while nobody deletes them (_next_sequence_number).          *)
THEOREM TicksStayNumbered == EmittersSpec => []TicksNumbered
<1>1. EmittersInv => TicksNumbered BY DEF EmittersInv
<1> QED BY <1>1, EmittersStart, EmittersStep, PTL DEF EmittersSpec
=============================================================================
