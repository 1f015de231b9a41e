----------------------------- MODULE Lifecycle ------------------------------
(***************************************************************************)
(* packages/reactivities, registry.py: the lifecycle of the registered      *)
(* reactivities under concurrent admin calls.  propose only writes to the   *)
(* ledger; confirm and disable write to the ledger and, when that await is  *)
(* over, set the state of the in-memory binding, which is all that dispatch *)
(* looks at.  A ledger write may raise, and the process may restart: the    *)
(* bindings are then as register() makes them.                              *)
(***************************************************************************)
EXTENDS Naturals, Sequences

CONSTANTS
  Ids,             \* registered reactivities
  Unregistered,    \* ids an admin may name that have no binding
  Admins,          \* people whose calls may be in flight at the same time
  BootState,       \* the state register() is given at boot
  MaxCalls, MaxRestarts    \* bounds

RecordStates == {"proposed", "active", "disabled"}
ASSUME InitialAssumption == BootState \in [Ids -> RecordStates]
ASSUME CallsAssumption == {MaxCalls, MaxRestarts} \subseteq Nat

VARIABLES
  rows,         \* lifecycle cycles in the ledger, oldest first
  record_state, \* binding.record.state
  call,         \* call[a]: what admin a is waiting for
  result,       \* result[a]: how a's last call ended
  overlapped,   \* history: ids with two decisions between commit and flip
  calls, restarts

registryVars == <<rows, record_state, call, result, overlapped, calls, restarts>>

NoDecision == [op |-> "none"]

RegistryInit ==
  /\ rows = <<>>
  /\ record_state = BootState
  /\ call = [a \in Admins |-> NoDecision]
  /\ result = [a \in Admins |-> "none"]
  /\ overlapped = {}
  /\ calls = 0 /\ restarts = 0

(* Admins whose decision on id is committed and not yet in memory.          *)
Flipping(id) == {a \in Admins : call[a] # NoDecision /\ call[a].id = id /\ call[a].step = "flip"}

(* The state a committed call leaves its binding in.                        *)
Target(op) == IF op = "confirm" THEN "active" ELSE "disabled"

Begin(a) == call[a] = NoDecision /\ calls < MaxCalls /\ calls' = calls + 1

(* confirm() or disable() finds the binding and awaits its ledger write.    *)
Call(a, op, id) ==
  /\ Begin(a)
  /\ id \in Ids
  /\ call' = [call EXCEPT ![a] = [op |-> op, id |-> id, step |-> "write"]]
  /\ UNCHANGED <<rows, record_state, result, overlapped, restarts>>

(* "cannot confirm unregistered reactivity"; nothing is written.            *)
CallUnknown(a, id) ==
  /\ Begin(a)
  /\ id \in Unregistered
  /\ result' = [result EXCEPT ![a] = "error"]
  /\ UNCHANGED <<rows, record_state, call, overlapped, restarts>>

(* propose() records a spec, registered or not, and changes no state.       *)
Proposal(a, id) ==
  /\ Begin(a)
  /\ rows' = Append(rows, [op |-> "propose", id |-> id])
  /\ result' = [result EXCEPT ![a] = "ok"]
  /\ UNCHANGED <<record_state, call, overlapped, restarts>>

(* Fault: the binding is flipped before the write is awaited.               *)
CommitFlipsFirst(a) ==
  /\ call[a] # NoDecision /\ call[a].step = "write"
  /\ record_state' = [record_state EXCEPT ![call[a].id] = Target(call[a].op)]
  /\ call' = [call EXCEPT ![a].step = "flip"]
  /\ UNCHANGED <<rows, result, overlapped, calls, restarts>>

(* The four-row cycle commits ...                                           *)
CommitDecision(a) ==
  /\ call[a] # NoDecision /\ call[a].step = "write"
  /\ rows' = Append(rows, [op |-> call[a].op, id |-> call[a].id])
  /\ call' = [call EXCEPT ![a].step = "flip"]
  /\ overlapped' = IF Flipping(call[a].id) = {} THEN overlapped ELSE overlapped \cup {call[a].id}
  /\ UNCHANGED <<record_state, result, calls, restarts>>

(* ... or raises, and the call with it.                                     *)
Raise(a) ==
  /\ call[a] # NoDecision /\ call[a].step = "write"
  /\ call' = [call EXCEPT ![a] = NoDecision]
  /\ result' = [result EXCEPT ![a] = "error"]
  /\ UNCHANGED <<rows, record_state, overlapped, calls, restarts>>

(* After the await: binding.record.state, whatever it was.                  *)
Flip(a) ==
  /\ call[a] # NoDecision /\ call[a].step = "flip"
  /\ record_state' = [record_state EXCEPT ![call[a].id] = Target(call[a].op)]
  /\ call' = [call EXCEPT ![a] = NoDecision]
  /\ result' = [result EXCEPT ![a] = "ok"]
  /\ UNCHANGED <<rows, overlapped, calls, restarts>>

(* The process dies; boot registers the same reactivities again.            *)
Reboot ==
  /\ restarts < MaxRestarts
  /\ record_state' = BootState
  /\ call' = [a \in Admins |-> NoDecision]
  /\ restarts' = restarts + 1
  /\ UNCHANGED <<rows, result, overlapped, calls>>

RegistryNext ==
  \/ \E a \in Admins :
       \/ \E id \in Ids, op \in {"confirm", "disable"} : Call(a, op, id)
       \/ \E id \in Unregistered : CallUnknown(a, id)
       \/ \E id \in Ids \cup Unregistered : Proposal(a, id)
       \/ CommitDecision(a) \/ Raise(a) \/ Flip(a)
  \/ Reboot

RegistrySpec == RegistryInit /\ [][RegistryNext]_registryVars

-----------------------------------------------------------------------------
(* The ledger's decisions on id.                                            *)
Decided(id) == {i \in 1 .. Len(rows) : rows[i].id = id /\ rows[i].op # "propose"}

(* Types of the rows, the bindings and the calls in flight.                 *)
RegistryTypeOK ==
  /\ rows \in Seq([op : {"propose", "confirm", "disable"}, id : Ids \cup Unregistered])
  /\ record_state \in [Ids -> RecordStates]
  /\ call \in [Admins -> [op : {"confirm", "disable"}, id : Ids, step : {"write", "flip"}]
                          \cup {NoDecision}]
  /\ result \in [Admins -> {"none", "ok", "error"}]
  /\ overlapped \subseteq Ids
  /\ calls \in 0 .. MaxCalls /\ restarts \in 0 .. MaxRestarts

(* Every state dispatch acts on is one the audit trail accounts for: the    *)
(* state at boot, or a decision in the ledger, however calls interleave,    *)
(* fail or are cut off by a restart.                                        *)
StateOnRecord ==
  \A id \in Ids :
    \/ record_state[id] = BootState[id]
    \/ \E i \in Decided(id) : record_state[id] = Target(rows[i].op)

(* The last of the decisions on id.                                         *)
Final(id, i) == i \in Decided(id) /\ \A j \in Decided(id) : j <= i

(* A call that returned is in effect: with no call on a reactivity waiting  *)
(* to flip it, its state is the last decision in the ledger, unless two     *)
(* decisions on it were between commit and flip at the same time.           *)
DecisionInEffect ==
  \A id \in Ids :
    restarts = 0 /\ id \notin overlapped /\ Flipping(id) = {} =>
      \/ Decided(id) = {} /\ record_state[id] = BootState[id]
      \/ \E i \in Decided(id) : Final(id, i) /\ record_state[id] = Target(rows[i].op)

(* The registry and the audit trail agree on every binding.                 *)
RegistryStands == StateOnRecord /\ DecisionInEffect

(* "The state machine moves proposed -> active -> disabled": a disabled     *)
(* reactivity is never active again in the same process.                    *)
OneWay ==
  [][\A id \in Ids : record_state[id] = "disabled" /\ restarts' = restarts => record_state'[id] = "disabled"]_registryVars
=============================================================================
