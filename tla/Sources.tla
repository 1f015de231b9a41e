------------------------------ MODULE Sources ------------------------------
(***************************************************************************)
(* Where a company's data comes from. Flows of the worm-core service put a    *)
(* source on record with a SourceBuilder, which keeps the stage of every       *)
(* proposal in the memory of the process, and describe what lies at its        *)
(* address in layers. Each step of a flow ends in a cycle of the ledger, and    *)
(* flows overlap between cycles. A row of the ledger stands for a cycle.       *)
(***************************************************************************)
EXTENDS Integers, Sequences, FiniteSets, FiniteSetsExt, SequencesExt, TLC

CONSTANTS
  Handlers,        \* tasks of the process that run a flow
  Flows,           \* flows that are started
  Correlations,    \* correlation ids
  Chosen,          \* those of them that callers choose themselves
  Files,           \* what may lie at an address: [header, rows]
  Persons, Times,
  LakeTables,      \* tables the catalog of a lake names
  RowLimit,        \* rows of a file that are read
  LinkWindow, MaxRows, MaxFaults

BoundsAssumption ==
  /\ {LakeTables, RowLimit, LinkWindow, MaxRows, MaxFaults} \subseteq Nat
  /\ Chosen \subseteq Correlations

VARIABLES
  ledger,   \* committed rows, oldest first
  stage,    \* stage[cid]: [at, sid], in memory
  known,    \* columns of the sources described so far, in memory
  task,     \* what each handler still has to do
  faults

vars == <<ledger, stage, known, task, faults>>

Idle == [flow |-> "none"]

Init ==
  /\ ledger = <<>> /\ stage = <<>> /\ known = <<>> /\ faults = 0
  /\ task = [h \in Handlers |-> Idle]

Of(tool) == SelectSeq(ledger, LAMBDA x : x.tool = tool)

-----------------------------------------------------------------------------
(* What lies at an address: a header of names, each hinting at money, a date,  *)
(* a person or at nothing, and rows of cells of a class each, some rows short. *)

Nothing == [header |-> <<>>, rows |-> <<>>]

profile_bronze(file) ==
  [header |-> file.header, rows |-> SubSeq(file.rows, 1, Min({RowLimit, Len(file.rows)}))]

cells(p, i) ==
  LET long == SelectSeq(p.rows, LAMBDA r : i <= Len(r)) IN [k \in DOMAIN long |-> long[k][i]]

infer_type(hint, classes) ==
  IF classes # {} /\ classes \subseteq {"int"} THEN "int"
  ELSE IF classes # {} /\ classes \subseteq {"int", "float"} THEN "float"
  ELSE IF hint = "date" \/ (classes # {} /\ classes \subseteq {"date"}) THEN "date"
  ELSE "string"

infer_columns(p) ==
  [i \in DOMAIN p.header |->
     LET c == cells(p, i)
     IN [name |-> p.header[i].name, hint |-> p.header[i].hint,
         type |-> infer_type(p.header[i].hint, Range(c) \ {"empty"}),
         nullable |-> "empty" \in Range(c),
         class |-> IF p.header[i].hint = "person" THEN "pii" ELSE "internal"]]

NoGold == [kind |-> "none", of |-> "none", over |-> 0]

(* A sum and a mean are over the cells that are numbers.                     *)
numbers(p, i) == Len(SelectSeq(cells(p, i), LAMBDA c : c \in {"int", "float"}))

derive_gold(p, columns) ==
  LET numeric == {i \in DOMAIN columns : columns[i].type \in {"int", "float"}}
      money == {i \in numeric : columns[i].hint = "money"}
      first(S) == CHOOSE i \in S : \A j \in S : i <= j
      Gold(kind, i) == [kind |-> kind, of |-> columns[i].name, over |-> numbers(p, i)]
  IN IF columns = <<>>
     THEN IF p.rows = <<>> THEN NoGold
          ELSE [kind |-> "aggregate", of |-> "rows", over |-> Len(p.rows)]
     ELSE IF money # {}
     THEN Gold(IF \E i \in DOMAIN columns : columns[i].type = "date" THEN "kpi" ELSE "aggregate",
               first(money))
     ELSE IF numeric # {} THEN Gold("aggregate", first(numeric))
     ELSE Gold("aggregate", 1)

Names(columns) == {columns[i].name : i \in DOMAIN columns}

find_join_candidates(columns) == {s \in DOMAIN known : known[s] \cap Names(columns) # {}}

-----------------------------------------------------------------------------
(* The steps of a flow. A lake is discovered by a command of its own, whose    *)
(* builder knows only its own proposals; a candidate is promoted, and the      *)
(* local lake provisioned, with a builder made for the request.              *)

Build == <<"confirm", "ack", "connect", "measure", "profile">>
Layers == <<"bronze", "silver">>

Repeat(s, k) == FlattenSeq([i \in 1 .. k |-> s])

DashboardFormFlow == <<"propose">> \o Build
CredentialInDmFlow == <<"propose">> \o Build
credential_in_dm_with_offer_link == CredentialInDmFlow \o <<"link">> \o Layers
cascade_after_propose == Layers
DropAndProfileFlow == <<"propose">> \o cascade_after_propose
on_proactive_mention == <<"propose", "offer">>
LakeDiscoveryFlow == Repeat(<<"propose">>, LakeTables) \o <<"summary">>
discover_lake == LakeDiscoveryFlow \o Repeat(Layers, LakeTables)
post_source_candidate_promote == <<"propose", "promoted">>
provision_local_lake == <<"propose", "confirm", "connect", "profile">>
run_default_local_cascade == Layers
on_confirmation == <<"confirm", "connect", "measure", "profile">>
Retried == <<"propose">>

Steps ==
  "form" :> DashboardFormFlow @@ "dm" :> credential_in_dm_with_offer_link
  @@ "drop" :> DropAndProfileFlow @@ "mention" :> on_proactive_mention
  @@ "lake" :> discover_lake @@ "promote" :> post_source_candidate_promote
  @@ "local" :> provision_local_lake @@ "fixture" :> run_default_local_cascade
  @@ "confirmation" :> on_confirmation @@ "retried" :> Retried

-----------------------------------------------------------------------------
(* The stage a call of the builder asserts before it writes.                 *)
Required == "confirm" :> "proposed" @@ "connect" :> "confirmed" @@ "profile" :> "connected"

Reached == "confirm" :> "confirmed" @@ "connect" :> "connected" @@ "profile" :> "profiled"

assert_stage(memory, cid, step) ==
  step \in DOMAIN Required => cid \in DOMAIN memory /\ memory[cid].at = Required[step]

(* A step that raises. The full sequence records that it was aborted, and only *)
(* it; a promotion goes on without the source it was to propose; the command   *)
(* that discovers a lake goes on with the next table.                        *)
Raised(t, memory) ==
  LET step == Head(t.todo)
      later == {i \in DOMAIN t.todo : i > 1 /\ t.todo[i] = "bronze"}
  IN CASE t.flow \in {"form", "dm"} /\ step \in Range(Build) ->
            [t EXCEPT !.todo = <<"abort">>, !.of = memory[t.cid].sid]
       [] t.flow = "promote" /\ step = "propose" -> [t EXCEPT !.todo = <<"promoted">>, !.of = 0]
       [] t.flow = "lake" /\ step \in {"bronze", "silver", "gold", "kpi"} /\ later # {} ->
            LET i == CHOOSE k \in later : \A j \in later : k <= j
            IN [t EXCEPT !.todo = SubSeq(t.todo, i, Len(t.todo)), !.cids = Tail(t.cids)]
       [] OTHER -> Idle

(* The next step is begun as soon as the one before has returned: the stage    *)
(* is asserted, and the source the call is about looked up, before it awaits.  *)
Begin(t, memory) ==
  IF t = Idle \/ t.todo = <<>> THEN Idle
  ELSE LET step == Head(t.todo)
           cid == IF t.flow = "lake" /\ step = "bronze" THEN Head(t.cids) ELSE t.cid
       IN IF ~ assert_stage(memory, cid, step) THEN Raised(t, memory)
          ELSE [t EXCEPT !.cid = cid, !.of = IF cid \in DOMAIN memory THEN memory[cid].sid ELSE @]

Go(h, todo, memory) == task' = [task EXCEPT ![h] = Begin([@ EXCEPT !.todo = todo], memory)]

At(h, step) == task[h] # Idle /\ Head(task[h].todo) = step

write(row) ==
  /\ Len(ledger) < MaxRows
  /\ ledger' = Append(ledger, row)

Rest(h) == Tail(task[h].todo)

-----------------------------------------------------------------------------
Used ==
  {ledger[i].cid : i \in {k \in DOMAIN ledger : ledger[k].tool = "proposed"}}
  \cup UNION {{task[h].cid} : h \in {k \in Handlers : task[k] # Idle}}
  \cup DOMAIN stage

(* An id nobody has used yet.                                               *)
Fresh == CHOOSE cid \in Correlations \ (Used \cup Chosen) : TRUE

CanBegin == Correlations \ (Used \cup Chosen) # {}

(* Proposals that wait for somebody to confirm them.                        *)
Waiting(cid) ==
  cid \in DOMAIN stage /\ ledger[stage[cid].sid].by \in {"drop", "mention"}

(* A caller that chooses the id is answered at once when it is known.        *)
Start(h, flow, cid, p, t) ==
  /\ task[h] = Idle
  /\ CASE flow = "retried" -> cid \in Chosen \ DOMAIN stage
       [] flow = "confirmation" -> Waiting(cid)
       [] OTHER -> CanBegin /\ cid = Fresh
  /\ LET begun == [flow |-> flow, todo |-> Steps[flow], cid |-> cid, of |-> 0, person |-> p,
                   ts |-> t, cids |-> <<>>, file |-> Nothing, joins |-> {}]
     IN task' = [task EXCEPT ![h] = Begin(begun, stage)]
  /\ UNCHANGED <<ledger, stage, known, faults>>

(* A source gets its id when it is proposed; here the id is its row. The next  *)
(* table of a lake is proposed under an id of its own.                       *)
propose(h) ==
  /\ At(h, "propose")
  /\ LET t == task[h]
         sid == Len(ledger) + 1
         more == t.flow = "lake" /\ Len(t.todo) > 1 /\ t.todo[2] = "propose"
     IN /\ write([tool |-> "proposed", sid |-> sid, cid |-> t.cid, by |-> t.flow,
                  domain |-> "suggested", class |-> "internal"])
        /\ stage' = (t.cid :> [at |-> "proposed", sid |-> sid]) @@ stage
        /\ more => CanBegin
        /\ task' = [task EXCEPT ![h] =
             Begin([t EXCEPT !.todo = Tail(@), !.cid = IF more THEN Fresh ELSE @,
                             !.cids = Append(@, t.cid)], stage')]
  /\ UNCHANGED <<known, faults>>

BuilderRow(h, step) ==
  [tool |-> Reached[step], sid |-> task[h].of, cid |-> task[h].cid,
   domain |-> "chosen", class |-> "confidential"]

Record(h, step) ==
  /\ At(h, step)
  /\ write(BuilderRow(h, step))
  /\ stage' = [stage EXCEPT ![task[h].cid].at = Reached[step]]
  /\ Go(h, Rest(h), stage')
  /\ UNCHANGED <<known, faults>>

confirm(h) == Record(h, "confirm")
connect(h) == Record(h, "connect")
profile(h) == Record(h, "profile")

(* A connection is registered and a source measured outside the service.     *)
Answered(h) ==
  /\ At(h, "ack") \/ At(h, "measure")
  /\ Go(h, Rest(h), stage)
  /\ UNCHANGED <<ledger, stage, known, faults>>

abort(h) ==
  /\ At(h, "abort")
  /\ write([tool |-> "aborted", cid |-> task[h].cid])
  /\ stage' = [stage EXCEPT ![task[h].cid].at = "aborted"]
  /\ task' = [task EXCEPT ![h] = Idle]
  /\ UNCHANGED <<known, faults>>

-----------------------------------------------------------------------------
(* What lies at the address is read when the layers are begun: of a path, not  *)
(* of a database. Joins are looked for once the first layer is recorded.      *)
write_bronze(h, file) ==
  /\ At(h, "bronze")
  /\ task[h].flow \in {"lake", "dm"} => file = Nothing
  /\ LET p == profile_bronze(file)
         sid == IF task[h].flow = "fixture" THEN Len(ledger) + 1 ELSE task[h].of
     IN /\ write([tool |-> "bronzed", sid |-> sid, rows |-> Len(p.rows), cols |-> Len(p.header)])
        /\ task' = [task EXCEPT ![h] =
             [@ EXCEPT !.todo = Tail(@), !.file = p, !.of = sid,
                       !.joins = find_join_candidates(infer_columns(p))]]
  /\ UNCHANGED <<stage, known, faults>>

(* Fault: what a KPI is made of is recorded after it.                        *)
KpiFirst(gold) == IF gold.kind = "kpi" THEN <<"kpi", "gold">> ELSE <<"gold">>

GoldSteps(gold) ==
  IF gold = NoGold THEN <<>> ELSE IF gold.kind = "kpi" THEN <<"gold", "kpi">> ELSE <<"gold">>

write_silver(h) ==
  /\ At(h, "silver")
  /\ LET t == task[h]
         columns == infer_columns(t.file)
     IN /\ write([tool |-> "silvered", sid |-> t.of, columns |-> columns, joins |-> t.joins])
        /\ known' = (t.of :> Names(columns)) @@ known
        /\ LET todo == GoldSteps(derive_gold(t.file, columns)) \o Tail(t.todo)
           IN task' = [task EXCEPT ![h] =
                IF todo # <<>> /\ Head(todo) = "bronze"
                THEN Begin([t EXCEPT !.todo = todo, !.cids = Tail(@)], stage)
                ELSE IF todo = <<>> THEN Idle ELSE [t EXCEPT !.todo = todo]]
  /\ UNCHANGED <<stage, faults>>

Past(t) ==
  IF Tail(t.todo) = <<>> THEN Idle
  ELSE IF t.todo[2] = "bronze" THEN Begin([t EXCEPT !.todo = Tail(@), !.cids = Tail(@)], stage)
  ELSE [t EXCEPT !.todo = Tail(@)]

write_gold(h) ==
  /\ At(h, "gold")
  /\ LET t == task[h]
     IN /\ write([tool |-> "golded", sid |-> t.of]
                 @@ [gold |-> derive_gold(t.file, infer_columns(t.file))])
        /\ task' = [task EXCEPT ![h] = Past(t)]
  /\ UNCHANGED <<stage, known, faults>>

write_kpi_proposal(h) ==
  /\ At(h, "kpi")
  /\ LET t == task[h]
     IN /\ write([tool |-> "kpi", sources |-> {t.of},
                  of |-> derive_gold(t.file, infer_columns(t.file)).of])
        /\ task' = [task EXCEPT ![h] = Past(t)]
  /\ UNCHANGED <<stage, known, faults>>

-----------------------------------------------------------------------------
emit_proactive_offer_entry(h) ==
  /\ At(h, "offer")
  /\ write([tool |-> "offer", to |-> task[h].person, ts |-> task[h].ts])
  /\ task' = [task EXCEPT ![h] = Idle]
  /\ UNCHANGED <<stage, known, faults>>

(* The offer a credential answers: the latest made to the same person within   *)
(* the window, looked up before the link is written.                         *)
find_recent_proactive_offer(p, ts) ==
  {i \in DOMAIN ledger : /\ ledger[i].tool = "offer" /\ ledger[i].to = p
                         /\ ts - LinkWindow <= ledger[i].ts /\ ledger[i].ts <= ts}

link_credential_to_proactive_offer(h) ==
  /\ At(h, "link")
  /\ LET t == task[h]
         offers == find_recent_proactive_offer(t.person, t.ts)
         best == CHOOSE i \in offers : \A j \in offers :
                   ledger[i].ts > ledger[j].ts \/ (ledger[i].ts = ledger[j].ts /\ i <= j)
     IN IF offers = {}
        THEN task' = [task EXCEPT ![h].todo = Tail(@)]
        ELSE task' = [task EXCEPT ![h] =
               [@ EXCEPT !.todo = <<"linked">> \o Tail(@), !.joins = {best}]]
  /\ UNCHANGED <<ledger, stage, known, faults>>

WriteLink(h) ==
  /\ At(h, "linked")
  /\ write([tool |-> "linked", cid |-> task[h].cid, to |-> task[h].person,
            offer |-> CHOOSE i \in task[h].joins : TRUE, ts |-> task[h].ts])
  /\ task' = [task EXCEPT ![h].todo = Tail(@)]
  /\ UNCHANGED <<stage, known, faults>>

WriteSummary(h) ==
  /\ At(h, "summary")
  /\ write([tool |-> "lake", seen |-> LakeTables, proposed |-> Len(task[h].cids)])
  /\ Go(h, Rest(h), stage)
  /\ UNCHANGED <<stage, known, faults>>

promote_source_candidate(h) ==
  /\ At(h, "promoted")
  /\ write([tool |-> "promoted", cid |-> IF task[h].of = 0 THEN "none" ELSE task[h].cid])
  /\ task' = [task EXCEPT ![h] = Idle]
  /\ UNCHANGED <<stage, known, faults>>

-----------------------------------------------------------------------------
Fail == faults < MaxFaults /\ faults' = faults + 1

(* A write, a connection or a measurement fails.                            *)
StepFails(h) ==
  /\ task[h] # Idle /\ Fail
  /\ task' = [task EXCEPT ![h] = Begin(Raised(task[h], stage), stage)]
  /\ UNCHANGED <<ledger, stage, known>>

(* The process is restarted: nobody knows what was proposed or confirmed.    *)
Restart ==
  /\ Fail
  /\ stage' = <<>> /\ known' = <<>>
  /\ task' = [h \in Handlers |-> Idle]
  /\ UNCHANGED ledger

Step(h) ==
  \/ propose(h) \/ confirm(h) \/ Answered(h) \/ connect(h) \/ profile(h) \/ abort(h)
  \/ \E file \in Files \cup {Nothing} : write_bronze(h, file)
  \/ write_silver(h) \/ write_gold(h) \/ write_kpi_proposal(h)
  \/ emit_proactive_offer_entry(h) \/ link_credential_to_proactive_offer(h) \/ WriteLink(h)
  \/ WriteSummary(h) \/ promote_source_candidate(h)
  \/ StepFails(h)

Next ==
  \/ \E h \in Handlers :
       \/ Step(h)
       \/ \E flow \in Flows, cid \in Correlations, p \in Persons, t \in Times :
            Start(h, flow, cid, p, t)
  \/ Restart

Spec == Init /\ [][Next]_vars

-----------------------------------------------------------------------------
(* Six readers of these rows, each written on its own.                       *)

StageTools == {"confirmed", "connected", "profiled"}

(* The table the projection builds.                                         *)
apply_source(t, x) ==
  IF x.tool = "proposed"
  THEN (x.sid :> [status |-> "proposed", domain |-> "none", class |-> x.class]) @@ t
  ELSE IF x.tool = "confirmed" /\ x.sid \in DOMAIN t
  THEN [t EXCEPT ![x.sid] = [status |-> "confirmed", domain |-> x.domain, class |-> x.class]]
  ELSE IF x.tool \in StageTools /\ x.sid \in DOMAIN t THEN [t EXCEPT ![x.sid].status = x.tool]
  ELSE t

sources_table == FoldLeft(apply_source, <<>>, ledger)

(* What external agents are told.                                           *)
fold_source(t, x) ==
  CASE x.tool = "proposed" ->
         (x.sid :> [status |-> "proposed", domain |-> "none", class |-> x.class]) @@ t
    [] x.tool = "confirmed" /\ x.sid \in DOMAIN t ->
         [t EXCEPT ![x.sid].status = "confirmed", ![x.sid].domain = x.domain, ![x.sid].class = x.class]
    [] x.tool \in {"connected", "profiled"} /\ x.sid \in DOMAIN t -> [t EXCEPT ![x.sid].status = x.tool]
    [] OTHER -> t

fold_sources == FoldLeft(fold_source, <<>>, ledger)

(* The governed resources.                                                  *)
project_resource(t, x) ==
  CASE x.tool = "proposed" -> (x.sid :> [domain |-> "none", class |-> x.class]) @@ t
    [] x.tool = "confirmed" /\ x.sid \in DOMAIN t ->
         [t EXCEPT ![x.sid] = [domain |-> x.domain, class |-> x.class]]
    [] OTHER -> t

project_resources == FoldLeft(project_resource, <<>>, ledger)

(* What is related to a topic: the first proposal of a source counts.        *)
extract_source(t, x) ==
  IF x.tool = "proposed" THEN t @@ (x.sid :> [status |-> "proposed", domain |-> "none"])
  ELSE IF x.tool \in StageTools /\ x.sid \in DOMAIN t
  THEN [t EXCEPT ![x.sid] =
         [status |-> x.tool, domain |-> IF x.tool = "confirmed" THEN x.domain ELSE @.domain]]
  ELSE t

extract_sources == FoldLeft(extract_source, <<>>, ledger)

(* The sources lake maintenance looks at; a suggested domain is good enough.  *)
connected_source(t, x) ==
  IF x.tool = "proposed"
  THEN (x.sid :> [state |-> "proposed", domain |-> x.domain, class |-> x.class]) @@ t
  ELSE IF x.tool = "confirmed" /\ x.sid \in DOMAIN t
  THEN [t EXCEPT ![x.sid] = [state |-> "confirmed", domain |-> x.domain, class |-> x.class]]
  ELSE IF x.tool \in StageTools /\ x.sid \in DOMAIN t THEN [t EXCEPT ![x.sid].state = x.tool]
  ELSE t

list_connected_sources ==
  LET t == FoldLeft(connected_source, <<>>, ledger)
      S == {s \in DOMAIN t : t[s].state \in {"connected", "profiled"}}
  IN [s \in S |-> [domain |-> t[s].domain, class |-> t[s].class]]

(* The sources a handle is made for: connected once is connected.            *)
get_handle == {x.sid : x \in Range(Of("connected"))}

-----------------------------------------------------------------------------
Rows == DOMAIN ledger

Earlier(i, tool, sid) == {j \in 1 .. i - 1 : ledger[j].tool = tool /\ ledger[j].sid = sid}

Before == "confirmed" :> "proposed" @@ "connected" :> "confirmed" @@ "profiled" :> "connected"

(* However calls overlap, fail and are made again, a source reaches a stage    *)
(* after the one before it and nothing follows an abort (source_builder.py).  *)
StagesInOrder ==
  \A i \in Rows :
    ledger[i].tool \in StageTools =>
      /\ \E j \in Earlier(i, Before[ledger[i].tool], ledger[i].sid) : ledger[j].cid = ledger[i].cid
      /\ \A j \in 1 .. i - 1 : ledger[j].tool = "aborted" => ledger[j].cid # ledger[i].cid

(* A sequence that has ended has profiled its source or recorded the abort,    *)
(* unless a second thing went wrong or the process died (source_builder.py).  *)
EndsAreTold ==
  \A cid \in DOMAIN stage :
    LET by == ledger[stage[cid].sid].by
    IN (by \in {"form", "dm"} /\ faults <= 1 /\ \A h \in Handlers : task[h] # Idle => task[h].cid # cid)
       => stage[cid].at \in {"profiled", "aborted"}

(* A layer rests on the one below it, a KPI on the gold of its source, and a   *)
(* join on two sources described with a column in common (medallion.py).      *)
LayersInOrder ==
  \A i \in Rows :
    LET x == ledger[i]
    IN /\ x.tool = "silvered" =>
            /\ Earlier(i, "bronzed", x.sid) # {}
            /\ \A s \in x.joins : \E j \in Earlier(i, "silvered", s) :
                 s # x.sid /\ Names(ledger[j].columns) \cap Names(x.columns) # {}
       /\ x.tool = "golded" => Earlier(i, "silvered", x.sid) # {}
       /\ x.tool = "kpi" => \E s \in x.sources, j \in 1 .. i - 1 :
            /\ ledger[j].tool = "golded" /\ ledger[j].sid = s
            /\ ledger[j].gold.kind = "kpi" /\ ledger[j].gold.of = x.of

(* A row that speaks of other rows follows them: an offer to the same person   *)
(* that was made before, the proposal of a promotion, the tables of a lake.    *)
RowsRest ==
  \A i \in Rows :
    LET x == ledger[i]
        sources == {j \in 1 .. i - 1 : ledger[j].tool = "proposed"}
    IN /\ x.tool = "linked" => /\ x.offer < i /\ ledger[x.offer].to = x.to
                               /\ x.ts - LinkWindow <= ledger[x.offer].ts /\ ledger[x.offer].ts <= x.ts
                               /\ \E j \in sources : ledger[j].cid = x.cid
       /\ x.tool = "promoted" => x.cid = "none" \/ \E j \in sources : ledger[j].cid = x.cid
       /\ x.tool = "lake" => x.proposed = x.seen
                             /\ Cardinality({j \in sources : ledger[j].by = "lake"}) >= x.seen

(* The readers tell the same of every source (builder.py, read_tools.py,       *)
(* governance/projections.py, resource_aggregator.py, readers).              *)
ReadersTell ==
  LET T == sources_table
  IN /\ fold_sources = T
     /\ project_resources = [s \in DOMAIN T |-> [domain |-> T[s].domain, class |-> T[s].class]]
     /\ extract_sources = [s \in DOMAIN T |-> [domain |-> T[s].domain, status |-> T[s].status]]
     /\ list_connected_sources = [s \in {q \in DOMAIN T : T[q].status \in {"connected", "profiled"}} |->
                                   [domain |-> T[s].domain, class |-> T[s].class]]
     /\ DOMAIN list_connected_sources \subseteq get_handle
     /\ get_handle \subseteq DOMAIN T

(* What is on record of sources is so, whatever flows overlap or fail.        *)
SourcesStand == StagesInOrder /\ EndsAreTold /\ LayersInOrder /\ RowsRest /\ ReadersTell

(* A caller that chooses an id and proposes twice has proposed one source.    *)
ProposedOnce ==
  \A i, j \in Rows : (ledger[i].tool = "proposed" /\ ledger[j].tool = "proposed"
                      /\ ledger[i].cid = ledger[j].cid) => i = j
=============================================================================
