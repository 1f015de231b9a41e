----------------------------- MODULE Embeddings ------------------------------
(***************************************************************************)
(* The embeddings of recorded outcomes: stamped on the ledger's row when the *)
(* embedding service answered, folded into a table that every rebuild writes  *)
(* anew, filled in afterwards by the backfill command (one company's or all   *)
(* companies', with the usual model or with another one), and read by the     *)
(* gather that looks for outcomes close to a new one.  An embedding is the    *)
(* name of its model; vectors and their distances are left out.               *)
(***************************************************************************)
EXTENDS Integers, Sequences, SequencesExt

CONSTANTS
  Companies,
  Runs,         \* backfill commands, each a process of its own
  Usual,        \* the model the service is configured with
  Other,        \* --target-model
  MaxCount,     \* --max-count
  TopK,         \* topk_limit of the gather
  MaxRows,      \* bound on a company's ledger
  MaxFaults     \* bound on failed requests, updates and queries

None == "none"
Entry == "entry"  \* a row of the ledger that is not about an outcome

BoundsAssumption ==
  /\ MaxCount \in Nat \ {0} /\ TopK \in Nat \ {0}
  /\ MaxRows \in Nat /\ MaxFaults \in Nat
  /\ Usual \notin {None, Entry} /\ Other \notin {None, Entry}

VARIABLES
  ledger,   \* by company: Entry, or the embedding an outcome was recorded with
  table,    \* by company: the embeddings in projection_query_outcomes
  built,    \* by company: rows of the ledger the table was built from
  reading,  \* by company: rows a rebuild has read and not yet written, or 0
  run,      \* what each backfill command is doing
  faults

vars == <<ledger, table, built, reading, run, faults>>

Idle == [pc |-> "idle"]

Init ==
  /\ ledger = [c \in Companies |-> <<>>]
  /\ table = [c \in Companies |-> <<>>]
  /\ built = [c \in Companies |-> 0]
  /\ reading = [c \in Companies |-> 0]
  /\ run = [r \in Runs |-> Idle]
  /\ faults = 0

-----------------------------------------------------------------------------
(* lake_query_record_outcome: the embedding is None when the service is off *)
(* or does not answer; the outcome is recorded all the same.  Other entries *)
(* arrive as well.                                                          *)
Record(c, e) ==
  /\ Len(ledger[c]) < MaxRows
  /\ ledger' = [ledger EXCEPT ![c] = Append(@, e)]
  /\ UNCHANGED <<table, built, reading, run, faults>>

(* A rebuild, due whenever the ledger has grown, reads it, then deletes the *)
(* company's rows and inserts the folded ones, each with the embedding of   *)
(* the ledger.                                                              *)
RebuildRead(c) ==
  /\ reading[c] = 0
  /\ Len(ledger[c]) > built[c]
  /\ reading' = [reading EXCEPT ![c] = Len(ledger[c])]
  /\ UNCHANGED <<ledger, table, built, run, faults>>

Outcomes(c, n) == SelectSeq(SubSeq(ledger[c], 1, n), LAMBDA e : e # Entry)

persist_projections(c) ==
  /\ reading[c] # 0
  /\ table' = [table EXCEPT ![c] = Outcomes(c, reading[c])]
  /\ built' = [built EXCEPT ![c] = reading[c]]
  /\ reading' = [reading EXCEPT ![c] = 0]
  /\ UNCHANGED <<ledger, run, faults>>

-----------------------------------------------------------------------------
(* The companies the table knows, one after another.                        *)
discover_active_tenants == SetToSeq({c \in Companies : table[c] # <<>>})

Begin(r, companies, target) ==
  /\ run[r].pc = "idle" /\ companies # <<>>
  /\ run' = [run EXCEPT ![r] =
       [pc |-> "find", companies |-> companies, target |-> target, rows |-> <<>>]]
  /\ UNCHANGED <<ledger, table, built, reading, faults>>

(* main: --all-tenants or one company; target is the model of a cross-model *)
(* run, None otherwise.                                                     *)
StartAll(r) == Begin(r, discover_active_tenants, None)

Start(r, c, target) == Begin(r, <<c>>, target)

CompanyDone(state) ==
  IF Len(state.companies) = 1 THEN Idle
  ELSE [state EXCEPT !.pc = "find", !.companies = Tail(@), !.rows = <<>>]

RowDone(state) ==
  IF Len(state.rows) = 1 THEN CompanyDone(state)
  ELSE [state EXCEPT !.rows = Tail(@)]

Shorter(a, b) == IF a < b THEN a ELSE b

(* Fault: the cap counts from zero.                                         *)
FindOneLess(c) ==
  [i \in 1 .. Shorter(MaxCount, Len(table[c])) - 1 |-> [id |-> i, was |-> table[c][i]]]

(* The oldest rows up to the cap, whether they have an embedding or not, as *)
(* they are now.                                                            *)
find_candidate_rows(c) ==
  [i \in 1 .. Shorter(MaxCount, Len(table[c])) |-> [id |-> i, was |-> table[c][i]]]

Find(r) ==
  /\ run[r].pc = "find"
  /\ LET rows == find_candidate_rows(Head(run[r].companies)) IN
     run' = [run EXCEPT ![r] =
       IF rows = <<>> THEN CompanyDone(run[r])
       ELSE [run[r] EXCEPT !.pc = "embed", !.rows = rows]]
  /\ UNCHANGED <<ledger, table, built, reading, faults>>

(* A row with an embedding is left alone, unless the run is cross-model and *)
(* the embedding is of another model.                                       *)
Skipped(r) ==
  LET was == Head(run[r].rows).was IN
  was # None /\ run[r].target \in {None, was}

Skip(r) ==
  /\ run[r].pc = "embed" /\ Skipped(r)
  /\ run' = [run EXCEPT ![r] = RowDone(@)]
  /\ UNCHANGED <<ledger, table, built, reading, faults>>

ModelOf(r) == IF run[r].target = None THEN Usual ELSE run[r].target

(* The row is embedded and updated by its id, whatever has happened to it   *)
(* since it was read; a row that is not there any more is not an error.     *)
update_embedding(r) ==
  LET c == Head(run[r].companies)
      id == Head(run[r].rows).id
  IN table' = [table EXCEPT ![c] =
       IF id \in DOMAIN @ THEN [@ EXCEPT ![id] = ModelOf(r)] ELSE @]

Embed(r) ==
  /\ run[r].pc = "embed" /\ ~Skipped(r)
  /\ update_embedding(r)
  /\ run' = [run EXCEPT ![r] = RowDone(@)]
  /\ UNCHANGED <<ledger, built, reading, faults>>

Fault ==
  /\ faults < MaxFaults
  /\ faults' = faults + 1

(* The service or the update fails: on with the next row.                   *)
EmbedFails(r) ==
  /\ Fault
  /\ run[r].pc = "embed" /\ ~Skipped(r)
  /\ run' = [run EXCEPT ![r] = RowDone(@)]
  /\ UNCHANGED <<ledger, table, built, reading>>

(* The query fails: on with the next company.                               *)
FindFails(r) ==
  /\ Fault
  /\ run[r].pc = "find"
  /\ run' = [run EXCEPT ![r] = CompanyDone(@)]
  /\ UNCHANGED <<ledger, table, built, reading>>

Die(r) ==
  /\ Fault
  /\ run[r].pc # "idle"
  /\ run' = [run EXCEPT ![r] = Idle]
  /\ UNCHANGED <<ledger, table, built, reading>>

-----------------------------------------------------------------------------
(* recent_outcomes: for an outcome with an embedding, only rows with one.   *)
recent_outcomes(c, e) ==
  LET rows == {i \in DOMAIN table[c] : e = None \/ table[c][i] # None}
  IN {i \in rows : Len(SelectSeq(SetToSeq(rows), LAMBDA j : j < i)) < TopK}

Rebuild(c) == RebuildRead(c) \/ persist_projections(c)

Progress(r) == Find(r) \/ Skip(r) \/ Embed(r)

Next ==
  \/ \E c \in Companies :
       \/ \E e \in {Entry, None, Usual} : Record(c, e)
       \/ RebuildRead(c) \/ persist_projections(c)
  \/ \E r \in Runs :
       \/ StartAll(r)
       \/ \E c \in Companies, target \in {None, Other} : Start(r, c, target)
       \/ Find(r) \/ Skip(r) \/ Embed(r)
       \/ EmbedFails(r) \/ FindFails(r) \/ Die(r)

Spec == Init /\ [][Next]_vars

(* Rebuilds go on, and a command that was started runs; nobody has to start *)
(* one.                                                                      *)
FairSpec ==
  /\ Spec
  /\ \A c \in Companies : WF_vars(Rebuild(c))
  /\ \A r \in Runs : WF_vars(Progress(r))

-----------------------------------------------------------------------------
(* Every outcome of the ledger can be gathered by an embedded one.          *)
AllGathered ==
  \A c \in Companies :
    recent_outcomes(c, Usual) = DOMAIN Outcomes(c, Len(ledger[c]))

(* "The next run picks up where this one left off": when the backfill is    *)
(* run again and again and the ledger is quiet at last, every outcome gets   *)
(* an embedding and keeps it, over failed requests, rebuilds that take the    *)
(* embeddings away, runs that overlap or die.                                *)
EventuallyEmbedded ==
  []<><<\E r \in Runs : StartAll(r)>>_vars => <>[]AllGathered
=============================================================================
