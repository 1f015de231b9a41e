----------------------------- MODULE ClockTicks -----------------------------
(***************************************************************************)
(* packages/reactivities, clock_tick_emitter.py: one ClockTickEmitter per   *)
(* cadence sleeps, counts the tick rows its cadence already has in the      *)
(* ledger and, in a later transaction, writes the next one with that count  *)
(* as its number.  The Periodic predicate of predicates.py picks out of the *)
(* ledger the ticks of one cadence.  Ledger calls raise, the process dies   *)
(* and boots again, and the seed script wipes the tenant.  Two emitters     *)
(* have different cadences: there is one per company, and several would     *)
(* be made by passing different values of tick_interval_s.                  *)
(***************************************************************************)
EXTENDS Naturals, Sequences, FiniteSets

CONSTANTS
  Emitters,      \* emitter daemons
  Cadence,       \* Cadence[e]: tick_interval_s of e
  MaxTicks,      \* bound: ticks each daemon emits
  MaxTickFaults, \* bound: ledger calls that raise and process deaths
  MaxTickWipes   \* bound: tenant wipes

ASSUME CadenceAssumption ==
  /\ Cadence \in [Emitters -> Nat \ {0}]
  /\ \A e, f \in Emitters : Cadence[e] = Cadence[f] => e = f
ASSUME TicksAssumption == {MaxTicks, MaxTickFaults, MaxTickWipes} \subseteq Nat

VARIABLES
  ticked,        \* the tick cycles in the ledger, oldest first
  timer_at,      \* timer_at[e]: "asleep" in run_forever's sleep, "counted" between
                 \* _next_sequence_number and the write
  sequence_number,  \* sequence_number[e]: the local of tick_once
  emitted,       \* emitted[e]: ticks e has committed
  tickFaults, tickWipes

ticksVars == <<ticked, timer_at, sequence_number, emitted, tickFaults, tickWipes>>

Cadences == {Cadence[e] : e \in Emitters}

EmittersInit ==
  /\ ticked = <<>>
  /\ timer_at = [e \in Emitters |-> "asleep"]
  /\ sequence_number = [e \in Emitters |-> 0]
  /\ emitted = [e \in Emitters |-> 0]
  /\ tickFaults = 0 /\ tickWipes = 0

(* Periodic.match: the tick rows a reactivity with every_seconds sees.      *)
Match(every_seconds) == {i \in 1 .. Len(ticked) : ticked[i].tick_interval_s = every_seconds}

(* Fault: ticks of every cadence are counted.                               *)
next_number_any(e) == Len(ticked)

(* The rows counted are those Periodic of the same cadence matches.         *)
next_number(e) == Cardinality(Match(Cadence[e]))

(* The sleep ends and tick_once counts.                                     *)
Count(e) ==
  /\ timer_at[e] = "asleep" /\ emitted[e] < MaxTicks
  /\ timer_at' = [timer_at EXCEPT ![e] = "counted"]
  /\ sequence_number' = [sequence_number EXCEPT ![e] = next_number(e)]
  /\ UNCHANGED <<ticked, emitted, tickFaults, tickWipes>>

(* tick_once's write; then run_forever sleeps again.                        *)
Tick(e) ==
  /\ timer_at[e] = "counted"
  /\ ticked' = Append(ticked, [tick_interval_s |-> Cadence[e], number |-> sequence_number[e]])
  /\ timer_at' = [timer_at EXCEPT ![e] = "asleep"]
  /\ emitted' = [emitted EXCEPT ![e] = @ + 1]
  /\ UNCHANGED <<sequence_number, tickFaults, tickWipes>>

(* The count or the write raises: run_forever logs it and sleeps again.     *)
Raise(e) ==
  /\ tickFaults < MaxTickFaults
  /\ timer_at' = [timer_at EXCEPT ![e] = "asleep"]
  /\ tickFaults' = tickFaults + 1
  /\ UNCHANGED <<ticked, sequence_number, emitted, tickWipes>>

(* The process dies and boots again: every daemon starts with a sleep.      *)
EmittersRestart ==
  /\ tickFaults < MaxTickFaults
  /\ timer_at' = [e \in Emitters |-> "asleep"]
  /\ sequence_number' = [e \in Emitters |-> 0]
  /\ tickFaults' = tickFaults + 1
  /\ UNCHANGED <<ticked, emitted, tickWipes>>

(* seed.py's _reset_tenant deletes the tenant's rows.                       *)
WipeTicks ==
  /\ tickWipes < MaxTickWipes
  /\ ticked' = <<>>
  /\ tickWipes' = tickWipes + 1
  /\ UNCHANGED <<timer_at, sequence_number, emitted, tickFaults>>

EmittersNext ==
  \/ \E e \in Emitters : Count(e) \/ Tick(e) \/ Raise(e)
  \/ EmittersRestart
  \/ WipeTicks

(* run_forever loops for ever: a sleep ends, and an awaited call returns or *)
(* raises.                                                                  *)
EmittersSpec ==
  /\ EmittersInit /\ [][EmittersNext]_ticksVars
  /\ \A e \in Emitters : WF_ticksVars(Count(e)) /\ WF_ticksVars(Tick(e))

-----------------------------------------------------------------------------
(* Types of the tick rows and of the daemons' locals.                       *)
EmittersTypeOK ==
  /\ ticked \in Seq([tick_interval_s : Cadences, number : Nat])
  /\ timer_at \in [Emitters -> {"asleep", "counted"}]
  /\ sequence_number \in [Emitters -> Nat]
  /\ emitted \in [Emitters -> 0 .. MaxTicks]
  /\ tickFaults \in 0 .. MaxTickFaults /\ tickWipes \in 0 .. MaxTickWipes

(* clock_tick_emitter.py: a tick's number "advances monotonically per       *)
(* company per cadence", from 0 and without a gap, whatever the other       *)
(* cadences write in between, and over failed calls and restarts, as long  *)
(* as nobody deletes the ledger under the daemons.                          *)
TicksNumbered ==
  tickWipes = 0 =>
    \A i \in 1 .. Len(ticked) :
      ticked[i].number = Cardinality({j \in Match(ticked[i].tick_interval_s) : j < i})

(* "a transient ledger failure does not crash the daemon": every daemon     *)
(* goes on to its next tick.                                                *)
KeepsTicking == \A e \in Emitters : <>(emitted[e] = MaxTicks)

(* "Each call computes its own sequence_number from the ledger so           *)
(* out-of-order or recovered ticks remain monotonic."                       *)
TicksMonotonic ==
  \A s \in Cadences : \A i, j \in Match(s) : i < j => ticked[i].number < ticked[j].number
=============================================================================
