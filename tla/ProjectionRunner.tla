-------------------------- MODULE ProjectionRunner --------------------------
(***************************************************************************)
(* worm-core's ProjectionRunner: run_once polls one tenant's ledger, folds  *)
(* it with build_projections and replaces the projection_* tables with      *)
(* persist_projections, while other processes write to the ledger, the      *)
(* simulation harness wipes it, transactions fail and the process restarts. *)
(*                                                                         *)
(* The ledger is the sequence of its committed PEVR cycles, each named by   *)
(* the hash of its last row (modules Ledger and LedgerProofs justify one    *)
(* unforked sequence of whole cycles); sequence numbers count cycles.  The  *)
(* fold is deterministic, so a projection is identified with the ledger     *)
(* contents it was folded from.                                             *)
(***************************************************************************)
EXTENDS Integers, Sequences

CONSTANTS
  Tasks,      \* concurrent run_once calls on one runner (worm-core: one)
  MaxHash,    \* bound on the number of cycles ever written
  MaxWipes,   \* bound on tenant resets
  MaxFaults   \* bound on failed transactions and process restarts

ASSUME TasksAssumption == Tasks # {}
ASSUME BoundsAssumption ==
  MaxHash \in Nat /\ MaxWipes \in Nat /\ MaxFaults \in Nat

VARIABLES
  ledger,     \* committed cycles of the tenant, oldest first
  nextHash,   \* next fresh hash
  tables,     \* what the projection_* tables were folded from
  last_seq,   \* self._last_seq
  last_hash,  \* self._last_hash, NoHash for None
  pc,         \* where each run_once call is
  seen,       \* max_seq and its hash as fetched; seq 0 for an empty ledger
  proj,       \* the Projections each call has built
  wipes, faults

env == <<ledger, nextHash, wipes, faults>>
vars == <<ledger, nextHash, tables, last_seq, last_hash, pc, seen, proj, wipes, faults>>

NoHash == 0
NoRows == [seq |-> 0, hash |-> NoHash]

TailOf(rows) ==
  IF rows = <<>> THEN NoRows ELSE [seq |-> Len(rows), hash |-> rows[Len(rows)]]

Init ==
  /\ ledger = <<>> /\ nextHash = 1
  /\ tables = <<>>
  /\ last_seq = 0 /\ last_hash = NoHash
  /\ pc = [t \in Tasks |-> "idle"]
  /\ seen = [t \in Tasks |-> NoRows]
  /\ proj = [t \in Tasks |-> <<>>]
  /\ wipes = 0 /\ faults = 0

-----------------------------------------------------------------------------
(* Another component commits a cycle (Ledger!Commit).                       *)
Write ==
  /\ nextHash <= MaxHash
  /\ ledger' = Append(ledger, nextHash)
  /\ nextHash' = nextHash + 1
  /\ UNCHANGED <<tables, last_seq, last_hash, pc, seen, proj, wipes, faults>>

(* seed.py's _reset_tenant: DELETE FROM ledger WHERE company_id = :cid.     *)
Wipe ==
  /\ wipes < MaxWipes /\ ledger # <<>>
  /\ ledger' = <<>>
  /\ wipes' = wipes + 1
  /\ UNCHANGED <<nextHash, tables, last_seq, last_hash, pc, seen, proj, faults>>

-----------------------------------------------------------------------------
(* Fault: the hash at the cursor is not compared.                           *)
reset_by_length == Len(ledger) < last_seq

(* A wipe and re-seed left a shorter ledger, or another row at the cursor.  *)
reset_detected ==
  \/ Len(ledger) < last_seq
  \/ /\ last_seq > 0 /\ last_hash # NoHash
     /\ last_seq <= Len(ledger) /\ ledger[last_seq] # last_hash

UpToDate == ~reset_detected /\ Len(ledger) = last_seq

(* run_once up to its first await after the fetch.  It returns at once when *)
(* the ledger is empty and the cursor 0, or when there is nothing new.      *)
FetchEmpty(t) ==
  /\ pc[t] = "idle"
  /\ ledger = <<>> /\ last_seq # 0
  /\ last_seq' = 0 /\ last_hash' = NoHash
  /\ seen' = [seen EXCEPT ![t] = NoRows]
  /\ pc' = [pc EXCEPT ![t] = "build"]
  /\ UNCHANGED <<env, tables, proj>>

FetchRows(t) ==
  /\ pc[t] = "idle"
  /\ ledger # <<>> /\ ~UpToDate
  /\ last_seq' = IF reset_detected THEN 0 ELSE last_seq
  /\ last_hash' = IF reset_detected THEN NoHash ELSE last_hash
  /\ seen' = [seen EXCEPT ![t] = TailOf(ledger)]
  /\ pc' = [pc EXCEPT ![t] = "build"]
  /\ UNCHANGED <<env, tables, proj>>

(* build_projections reads the ledger again, in a session of its own.       *)
Build(t) ==
  /\ pc[t] = "build"
  /\ proj' = [proj EXCEPT ![t] = ledger]
  /\ pc' = [pc EXCEPT ![t] = "persist"]
  /\ UNCHANGED <<env, tables, last_seq, last_hash, seen>>

(* persist_projections: delete and insert in one transaction.  Clearing an  *)
(* empty tenant ends the call.                                              *)
Persist(t) ==
  /\ pc[t] = "persist"
  /\ tables' = proj[t]
  /\ pc' = [pc EXCEPT ![t] = IF seen[t] = NoRows THEN "idle" ELSE "advance"]
  /\ UNCHANGED <<env, last_seq, last_hash, seen, proj>>

(* Fault: the cursor moves to the tail the ledger has by now.               *)
AdvanceToTail(t) ==
  /\ pc[t] = "advance"
  /\ last_seq' = TailOf(ledger).seq /\ last_hash' = TailOf(ledger).hash
  /\ pc' = [pc EXCEPT ![t] = "idle"]
  /\ UNCHANGED <<env, tables, seen, proj>>

(* The cursor moves to the tail of the first fetch.                         *)
Advance(t) ==
  /\ pc[t] = "advance"
  /\ last_seq' = seen[t].seq /\ last_hash' = seen[t].hash
  /\ pc' = [pc EXCEPT ![t] = "idle"]
  /\ UNCHANGED <<env, tables, seen, proj>>

(* build_projections or persist_projections raised: run_forever logs it and *)
(* polls again; the transaction is rolled back.                             *)
Fail(t) ==
  /\ faults < MaxFaults
  /\ pc[t] \in {"build", "persist"}
  /\ pc' = [pc EXCEPT ![t] = "idle"]
  /\ faults' = faults + 1
  /\ UNCHANGED <<ledger, nextHash, tables, last_seq, last_hash, seen, proj, wipes>>

(* The process dies and boots again: the cursor lived in memory only.       *)
Restart ==
  /\ faults < MaxFaults
  /\ last_seq' = 0 /\ last_hash' = NoHash
  /\ pc' = [t \in Tasks |-> "idle"]
  /\ faults' = faults + 1
  /\ UNCHANGED <<ledger, nextHash, tables, seen, proj, wipes>>

Step(t) == FetchEmpty(t) \/ FetchRows(t) \/ Build(t) \/ Persist(t) \/ Advance(t)

Next == Write \/ Wipe \/ Restart \/ \E t \in Tasks : Step(t) \/ Fail(t)

Spec == Init /\ [][Next]_vars

(* run_forever polls for ever and survives every exception but a cancel.    *)
Fairness == \A t \in Tasks : WF_vars(Step(t))
FairSpec == Spec /\ Fairness

-----------------------------------------------------------------------------
Tails == [seq : Nat, hash : Nat]

(* Types of the runner's state and of the tenant's tables.                  *)
TypeOK ==
  /\ ledger \in Seq(Nat \ {0}) /\ nextHash \in Nat \ {0}
  /\ tables \in Seq(Nat \ {0})
  /\ last_seq \in Nat /\ last_hash \in Nat
  /\ pc \in [Tasks -> {"idle", "build", "persist", "advance"}]
  /\ seen \in [Tasks -> Tails]
  /\ proj \in [Tasks -> Seq(Nat \ {0})]
  /\ wipes \in Nat /\ faults \in Nat

(* The cursor never hides a change: whenever the next run_once would return *)
(* 0 on a non-empty ledger, the tables already are the fold of that ledger, *)
(* even if it was written to or wiped and re-seeded between the fetch, the  *)
(* fold and the persist.                                                    *)
SkipOnlyWhenFresh ==
  (\A t \in Tasks : pc[t] = "idle") /\ ledger # <<>> /\ UpToDate => tables = ledger

(* Once writes, wipes and faults stop, the tables of a non-empty tenant     *)
(* become the fold of its ledger and stay so.                               *)
EventuallyFresh == <>[](ledger # <<>> => tables = ledger)

(* The cursor goes back only to 0, and only when the row it points at is    *)
(* gone from the ledger or the process restarted (test invariant C3: it     *)
(* "never decreases ... except via a detected tenant reset").               *)
CursorGone == last_seq > Len(ledger) \/ ledger[last_seq] # last_hash
CursorMonotone ==
  [][last_seq' < last_seq /\ faults' = faults => last_seq' = 0 /\ CursorGone]_vars

(* run_once's comment on an empty ledger: "Either way, rewind the cursor    *)
(* and clear projections."                                                  *)
EventuallyCleared == <>[](ledger = <<>> => tables = <<>>)
=============================================================================
