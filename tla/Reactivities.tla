---------------------------- MODULE Reactivities ----------------------------
(***************************************************************************)
(* packages/reactivities: ReactivityRunner.run_once walks the ledger rows   *)
(* after its cursor and hands each to ReactivityRegistry.dispatch, which    *)
(* tries every registered Reactivity in registration order: state, then     *)
(* predicate and condition, then fire, then the bookkeeping of _on_fire.    *)
(* Meanwhile other components write to the ledger, an admin confirms and    *)
(* disables reactivities over HTTP, days pass, writes fail, the tenant is   *)
(* wiped and the process restarts.                                          *)
(*                                                                         *)
(* The ledger is the sequence of its committed cycles (module Ledger shows  *)
(* there is one unforked sequence of whole cycles).  Predicates match the   *)
(* execute row of a cycle, so one entry stands for its four rows and a      *)
(* cursor counts cycles.  id is the hash of a cycle's last row.             *)
(***************************************************************************)
EXTENDS Integers, Sequences, FiniteSets

CONSTANTS
  N,           \* registered reactivities, numbered in registration order
  Watch,       \* Watch[r]: the entry kinds r's predicate matches
  Gated,       \* reactivities with a NotRecentlyFired condition
  InitialState,\* InitialState[r]: the state register() gives r at boot
  Owners,      \* owner ids that occur in entries
  Tenant,      \* key of the per-tenant budget axis
  Limit,       \* Limit[k]: DailyBudget's cap for budget key k
  MaxEvents, MaxAdmin, MaxWipes, MaxFaults, MaxDays   \* bounds

Reactivities == 1 .. N
Keys == Owners \cup {Tenant}
Kinds == {"event", "action", "fired", "admin"}
States == {"proposed", "active", "disabled"}

ASSUME NAssumption == N \in Nat \ {0}
ASSUME RegistrationAssumption ==
  /\ Watch \in [Reactivities -> SUBSET Kinds]
  /\ Gated \subseteq Reactivities
  /\ InitialState \in [Reactivities -> States]
ASSUME LimitAssumption == Limit \in [Keys -> Nat]
ASSUME BoundsAssumption ==
  {MaxEvents, MaxAdmin, MaxWipes, MaxFaults, MaxDays} \subseteq Nat

VARIABLES
  ledger,      \* committed cycles of the tenant, oldest first
  nextId,      \* next fresh hash
  state,       \* binding.record.state
  budget,      \* _mem_budgets of the current day, by reactivity and key
  cool,        \* pairs (reactivity, owner) fired within the novelty window
  last_seq, last_hash,   \* the runner's cursor
  pc,          \* where run_once is
  queue,       \* fetched rows still to dispatch; the first is being dispatched
  cur,         \* the binding dispatch is at
  adm,         \* the confirm or disable call in flight
  sent,        \* history: sent[r], the entries r's fire acted on, in order
  today,       \* history: acts since midnight, by reactivity and key
  stray,       \* history: stray[r], acts of r since it was disabled
  late,        \* history: events committed while run_once was running
  done,        \* history: events dispatch has returned for
  count        \* how much of each bound is used up

regs == <<state, budget, cool>>
cursor == <<last_seq, last_hash>>
hist == <<sent, today, stray, late, done>>
vars == <<ledger, nextId, regs, cursor, pc, queue, cur, adm, hist, count>>

NoHash == 0
NoOwner == "none"
NoCall == [r |-> 0, to |-> "none"]

Zero == [r \in Reactivities |-> [k \in Keys |-> 0]]

Init ==
  /\ ledger = <<>> /\ nextId = 1
  /\ state = InitialState
  /\ budget = Zero /\ cool = {}
  /\ last_seq = 0 /\ last_hash = NoHash
  /\ pc = "idle" /\ queue = <<>> /\ cur = 1
  /\ adm = NoCall
  /\ sent = [r \in Reactivities |-> <<>>]
  /\ today = Zero /\ stray = [r \in Reactivities |-> 0]
  /\ late = {} /\ done = {}
  /\ count = [events |-> 0, admin |-> 0, wipes |-> 0, faults |-> 0, days |-> 0]

-----------------------------------------------------------------------------
(* A committed cycle: what a predicate, a budget and /trace look at.  src   *)
(* is the entry a "fired" row says its reactivity re fired on; ev numbers   *)
(* the events, 0 for other entries.                                         *)
Entry(kind, owner, ev, re, src) ==
  [id |-> nextId, kind |-> kind, owner |-> owner, ev |-> ev, re |-> re, src |-> src]

Commit(e) == ledger' = Append(ledger, e) /\ nextId' = nextId + 1

Use(bound) == count' = [count EXCEPT ![bound] = @ + 1]

(* Another component (a channel adapter, the clock-tick emitter, ...)       *)
(* commits an entry.                                                        *)
Event(o) ==
  /\ count.events < MaxEvents
  /\ Commit(Entry("event", o, count.events + 1, 0, 0))
  /\ late' = IF pc = "idle" THEN late ELSE late \cup {count.events + 1}
  /\ Use("events")
  /\ UNCHANGED <<regs, cursor, pc, queue, cur, adm, sent, today, stray, done>>

(* propose(): only records the proposal.                                    *)
Propose(r) ==
  /\ count.admin < MaxAdmin
  /\ Commit(Entry("admin", NoOwner, 0, r, 0))
  /\ Use("admin")
  /\ UNCHANGED <<regs, cursor, pc, queue, cur, adm, hist>>

(* confirm() and disable(): the ledger write, from any state of the         *)
(* binding ...                                                              *)
WriteLifecycle(r, to) ==
  /\ count.admin < MaxAdmin
  /\ adm = NoCall
  /\ Commit(Entry("admin", NoOwner, 0, r, 0))
  /\ adm' = [r |-> r, to |-> to]
  /\ Use("admin")
  /\ UNCHANGED <<regs, cursor, pc, queue, cur, hist>>

(* ... and, after that await, the flip of the in-memory state.              *)
FlipState ==
  /\ adm # NoCall
  /\ state' = [state EXCEPT ![adm.r] = adm.to]
  /\ adm' = NoCall
  /\ stray' = [stray EXCEPT ![adm.r] = 0]
  /\ UNCHANGED <<ledger, nextId, budget, cool, cursor, pc, queue, cur, sent, today, late, done, count>>

(* UTC midnight: counters are keyed by day, so the new day's are missing.   *)
Midnight ==
  /\ count.days < MaxDays
  /\ budget' = Zero /\ today' = Zero
  /\ Use("days")
  /\ UNCHANGED <<ledger, nextId, state, cool, cursor, pc, queue, cur, adm, sent, stray, late, done>>

(* The novelty window of one pair has passed.                               *)
Expire(p) ==
  /\ p \in cool
  /\ cool' = cool \ {p}
  /\ UNCHANGED <<ledger, nextId, state, budget, cursor, pc, queue, cur, adm, hist, count>>

(* seed.py's _reset_tenant deletes the tenant's ledger rows.                *)
Wipe ==
  /\ count.wipes < MaxWipes /\ ledger # <<>>
  /\ ledger' = <<>>
  /\ Use("wipes")
  /\ UNCHANGED <<nextId, regs, cursor, pc, queue, cur, adm, hist>>

-----------------------------------------------------------------------------
(* Fault: the hash at the cursor is not compared.                           *)
reset_by_length == Len(ledger) < last_seq

(* A wipe and re-seed left a shorter ledger, or another row at the cursor.  *)
reset_detected ==
  \/ Len(ledger) < last_seq
  \/ /\ last_seq > 0 /\ last_hash # NoHash
     /\ last_seq <= Len(ledger) /\ ledger[last_seq].id # last_hash

(* run_once on an empty ledger rewinds the cursor and returns.              *)
FetchEmpty ==
  /\ pc = "idle" /\ ledger = <<>> /\ last_seq # 0
  /\ last_seq' = 0 /\ last_hash' = NoHash
  /\ UNCHANGED <<ledger, nextId, regs, pc, queue, cur, adm, hist, count>>

(* The first fetch: the rows after the (possibly rewound) cursor.           *)
FetchRows ==
  LET cycle_cursor == IF reset_detected THEN 0 ELSE last_seq
  IN
  /\ pc = "idle" /\ ledger # <<>>
  /\ last_seq' = cycle_cursor
  /\ last_hash' = IF reset_detected THEN NoHash ELSE last_hash
  /\ queue' = SubSeq(ledger, cycle_cursor + 1, Len(ledger))
  /\ cur' = 1
  /\ pc' = "dispatch"
  /\ UNCHANGED <<ledger, nextId, regs, adm, hist, count>>

(* dispatch goes on to the next binding, run_once to the next row.          *)
NextBinding ==
  /\ pc' = "dispatch"
  /\ IF cur < N
       THEN cur' = cur + 1 /\ UNCHANGED <<queue, done>>
       ELSE /\ cur' = 1
            /\ queue' = Tail(queue)
            /\ done' = done \cup {Head(queue).ev}

(* The axes an entry is charged to: its owner, if it names one, and the     *)
(* tenant.                                                                  *)
KeysOf(e) == ({e.owner} \cap Owners) \cup {Tenant}

(* Fault: the cap is compared with > instead of >=.                         *)
DailyBudgetOff(r, e) == \A k \in KeysOf(e) : budget[r][k] <= Limit[k]

(* DailyBudget.allows, NotRecentlyFired.allows.                             *)
DailyBudget(r, e) == \A k \in KeysOf(e) : budget[r][k] < Limit[k]
NotRecentlyFired(r, e) == r \in Gated => <<r, e.owner>> \notin cool

(* Fault: dispatch does not look at binding.record.state.                   *)
EligibleAnyState(r, e) ==
  /\ e.kind \in Watch[r]
  /\ DailyBudget(r, e)
  /\ NotRecentlyFired(r, e)

Eligible(r, e) ==
  /\ state[r] = "active"
  /\ e.kind \in Watch[r]
  /\ DailyBudget(r, e)
  /\ NotRecentlyFired(r, e)

Skip ==
  /\ pc = "dispatch" /\ queue # <<>>
  /\ ~Eligible(cur, Head(queue))
  /\ NextBinding
  /\ UNCHANGED <<ledger, nextId, regs, cursor, adm, sent, today, stray, late, count>>

(* State, predicate and condition let the entry through.  Predicates await  *)
(* model calls and ledger reads, so the world moves on before fire acts.    *)
Match ==
  /\ pc = "dispatch" /\ queue # <<>>
  /\ Eligible(cur, Head(queue))
  /\ pc' = "fire"
  /\ UNCHANGED <<ledger, nextId, regs, cursor, queue, cur, adm, hist, count>>

(* fire returns fired=False (no topic, no owner, ...), or the predicate,    *)
(* the condition or fire raises before it acts: dispatch logs and goes on.  *)
Decline ==
  /\ pc = "fire"
  /\ NextBinding
  /\ UNCHANGED <<ledger, nextId, regs, cursor, adm, sent, today, stray, late, count>>

Plus1(f, r, e) ==
  [f EXCEPT ![r] = [k \in Keys |-> IF k \in KeysOf(e) THEN f[r][k] + 1 ELSE f[r][k]]]

(* fire acts on the world: it sends a DM, pushes a notification, ...  A     *)
(* send that fails is logged and fire goes on, so an attempt is an act.     *)
Act ==
  /\ pc = "fire"
  /\ sent' = [sent EXCEPT ![cur] = Append(@, Head(queue).id)]
  /\ today' = Plus1(today, cur, Head(queue))
  /\ stray' = IF state[cur] = "disabled" THEN [stray EXCEPT ![cur] = @ + 1] ELSE stray
  /\ pc' = "act"
  /\ UNCHANGED <<ledger, nextId, regs, cursor, queue, cur, adm, late, done, count>>

(* fire's own ledger.write.                                                 *)
ActWrite ==
  /\ pc = "act"
  /\ Commit(Entry("action", NoOwner, 0, cur, Head(queue).id))
  /\ pc' = "charge"
  /\ UNCHANGED <<regs, cursor, queue, cur, adm, hist, count>>

(* It raised, and dispatch catches it, or the payload was rejected after    *)
(* the send and fire returns fired=False: nothing is charged.               *)
ActRaises ==
  /\ pc = "act" /\ count.faults < MaxFaults
  /\ NextBinding
  /\ Use("faults")
  /\ UNCHANGED <<ledger, nextId, regs, cursor, adm, sent, today, stray, late>>

(* _on_fire, up to its await of the ledger: budgets and novelty.            *)
Charge ==
  /\ pc = "charge"
  /\ budget' = Plus1(budget, cur, Head(queue))
  /\ cool' = cool \cup (({cur} \cap Gated) \X ({Head(queue).owner} \cap Owners))
  /\ pc' = "log"
  /\ UNCHANGED <<ledger, nextId, state, cursor, queue, cur, adm, hist, count>>

(* emit_reactivity_fired ends _on_fire ...                                  *)
LogFire ==
  /\ pc = "log"
  /\ Commit(Entry("fired", NoOwner, 0, cur, Head(queue).id))
  /\ NextBinding
  /\ UNCHANGED <<regs, cursor, adm, sent, today, stray, late, count>>

(* ... or raises, outside dispatch's try: run_once is abandoned with the    *)
(* cursor where the cycle began.  The closing fetch can raise too.          *)
CycleRaises ==
  /\ count.faults < MaxFaults
  /\ pc = "log" \/ (pc = "dispatch" /\ queue = <<>>)
  /\ pc' = "idle" /\ queue' = <<>> /\ cur' = 1
  /\ Use("faults")
  /\ UNCHANGED <<ledger, nextId, regs, cursor, adm, hist>>

(* Fault: the cursor is not advanced.                                       *)
PostFetchStays ==
  /\ pc = "dispatch" /\ queue = <<>>
  /\ pc' = "idle"
  /\ UNCHANGED <<ledger, nextId, regs, cursor, queue, cur, adm, hist, count>>

(* The closing fetch moves the cursor to the tail the ledger has now.       *)
PostFetch ==
  /\ pc = "dispatch" /\ queue = <<>>
  /\ last_seq' = IF ledger = <<>> THEN last_seq ELSE Len(ledger)
  /\ last_hash' = IF ledger = <<>> THEN last_hash ELSE ledger[Len(ledger)].id
  /\ pc' = "idle"
  /\ UNCHANGED <<ledger, nextId, regs, queue, cur, adm, hist, count>>

(* The process dies and boots again: cursor, states, budgets and novelty    *)
(* lived in memory only.                                                    *)
Restart ==
  /\ count.faults < MaxFaults
  /\ state' = InitialState /\ budget' = Zero /\ cool' = {}
  /\ last_seq' = 0 /\ last_hash' = NoHash
  /\ pc' = "idle" /\ queue' = <<>> /\ cur' = 1
  /\ adm' = NoCall
  /\ stray' = [r \in Reactivities |-> 0]
  /\ Use("faults")
  /\ UNCHANGED <<ledger, nextId, sent, today, late, done>>

-----------------------------------------------------------------------------
Admin ==
  \/ \E r \in Reactivities :
       \/ Propose(r)
       \/ \E to \in {"active", "disabled"} : WriteLifecycle(r, to)
  \/ FlipState

Environment ==
  \/ \E o \in Owners : Event(o)
  \/ Midnight
  \/ \E p \in cool : Expire(p)
  \/ Wipe
  \/ Restart

Runner ==
  \/ FetchEmpty \/ FetchRows \/ Skip \/ Match \/ Decline \/ Act
  \/ ActWrite \/ Charge \/ LogFire \/ PostFetch

Raises == ActRaises \/ CycleRaises

Next == Admin \/ Environment \/ Runner \/ Raises

Spec == Init /\ [][Next]_vars

(* run_forever polls for ever and survives every exception but a cancel.    *)
FairSpec == Spec /\ WF_vars(Runner)

-----------------------------------------------------------------------------
EntryType ==
  [id : Nat \ {0}, kind : Kinds, owner : Owners \cup {NoOwner},
   ev : Nat, re : Nat, src : Nat]

(* Types of the ledger, of the registry's memory and of run_once's locals.  *)
TypeOK ==
  /\ ledger \in Seq(EntryType) /\ nextId \in Nat \ {0}
  /\ state \in [Reactivities -> States]
  /\ budget \in [Reactivities -> [Keys -> Nat]]
  /\ cool \subseteq Reactivities \X Owners
  /\ last_seq \in Nat /\ last_hash \in Nat
  /\ pc \in {"idle", "dispatch", "fire", "act", "charge", "log"}
  /\ queue \in Seq(EntryType)
  /\ cur \in Reactivities
  /\ pc \in {"fire", "act", "charge", "log"} => queue # <<>>
  /\ adm = NoCall \/ adm \in [r : Reactivities, to : States]
  /\ sent \in [Reactivities -> Seq(Nat \ {0})]
  /\ today \in [Reactivities -> [Keys -> Nat]]
  /\ stray \in [Reactivities -> Nat]
  /\ late \subseteq Nat /\ done \subseteq Nat
  /\ count \in [{"events", "admin", "wipes", "faults", "days"} -> Nat]

(* No counter ever passes its cap, although a fire is charged long after    *)
(* the condition that allowed it was evaluated, maybe on another day.       *)
BudgetRespected ==
  \A r \in Reactivities, k \in Keys : budget[r][k] <= Limit[k]

(* What the caps are for: as long as no write fails and the process lives,  *)
(* no reactivity acts more often in a day than any of its caps allows,      *)
(* midnight between check, act and charge included.                         *)
ActsWithinBudget ==
  count.faults = 0 => \A r \in Reactivities, k \in Keys : today[r][k] <= Limit[k]

(* As long as no write fails and the process lives, a reactivity acts at    *)
(* most once on an entry, however the tenant is wiped and re-seeded under   *)
(* the cursor.                                                              *)
ActsOnce ==
  count.faults = 0 =>
    \A r \in Reactivities : \A i, j \in 1 .. Len(sent[r]) : sent[r][i] = sent[r][j] => i = j

(* dispatch reads a binding's state before it awaits predicate, condition   *)
(* and fire, so a disabled reactivity may still act, but only once: on the  *)
(* entry it was busy with when disable() flipped its state.                 *)
DisableTakesEffect == \A r \in Reactivities : stray[r] <= 1

Times(r, id) == Cardinality({i \in 1 .. Len(sent[r]) : sent[r][i] = id})

LoggedFires(r, id) ==
  Cardinality({i \in 1 .. Len(ledger) :
                 ledger[i].kind = "fired" /\ ledger[i].re = r /\ ledger[i].src = id})

(* A reactivity_fired row never claims a fire that did not go as far as     *)
(* acting on that entry: _on_fire runs only after result.fired.             *)
FiredRowsTrue ==
  \A i \in 1 .. Len(ledger) :
    ledger[i].kind = "fired" =>
      LoggedFires(ledger[i].re, ledger[i].src) <= Times(ledger[i].re, ledger[i].src)

InLedger(n) == \E i \in 1 .. Len(ledger) : ledger[i].ev = n

(* An event committed while the runner sleeps is dispatched, whatever       *)
(* fails, restarts or is reset, unless it is wiped before.                  *)
QuietEventsDispatched ==
  \A n \in 1 .. MaxEvents :
    InLedger(n) /\ n \notin late ~> n \in done \/ ~InLedger(n)

-----------------------------------------------------------------------------
(* runner.py: the Runner "reads new ledger entries since its cursor, hands  *)
(* each one to the registry's dispatch".                                    *)
EveryEventDispatched ==
  \A n \in 1 .. MaxEvents : InLedger(n) ~> n \in done \/ ~InLedger(n)

(* registry.py: "The state is rehydrated from the ledger on registry        *)
(* construction so a worm-core restart picks up where the previous run left *)
(* off": a disabled reactivity is active again only by a confirm.           *)
DisableSurvives ==
  [][\A r \in Reactivities :
       state[r] = "disabled" /\ state'[r] = "active" => adm = [r |-> r, to |-> "active"]]_vars

(* runner.py: "re-firing a reactivity on the same entry would write a       *)
(* second emit_reactivity_fired row ... visible, not silent".               *)
RefireVisible ==
  pc = "idle" =>
    \A r \in Reactivities : \A i \in 1 .. Len(sent[r]) :
      Times(r, sent[r][i]) > 1 => LoggedFires(r, sent[r][i]) > 1

-----------------------------------------------------------------------------
(* Instances for TLC. Two reactivities watch events; the second also        *)
(* watches what the first one writes and waits for an admin.                *)
WatchBoth == <<{"event"}, {"event", "action"}>>
OneProposed == <<"active", "proposed">>

(* Every cap can be reached: ana's own, and the tenant's by ana and bob.    *)
SmallLimits == [k \in Keys |-> IF k = "ana" THEN 1 ELSE 2]

(* At most Few admin calls, wipes, faults and midnights in one behaviour.   *)
CONSTANT Few
Disturbed == count.admin + count.wipes + count.faults + count.days
FewSpec == Init /\ [][Next /\ Disturbed' <= Few]_vars /\ WF_vars(Runner)
=============================================================================
