------------------------------- MODULE Views -------------------------------
(***************************************************************************)
(* The tables and lists that are made of the ledger by folding it: the tables *)
(* of the projection, which are also kept in the database; what external       *)
(* agents are told; what is gathered around a topic; what lake maintenance     *)
(* reads; and the KPIs that are replayed. Each fold is written on its own and   *)
(* the rows of a ledger come in any order that its writers allow.             *)
(***************************************************************************)
EXTENDS Integers, Sequences, FiniteSets, FiniteSetsExt, SequencesExt, TLC

CONSTANTS
  Events,      \* what may be recorded: [what, id, val, refs]
  Companies, Times, MaxRows,
  Cap,         \* how many of a kind are told around a topic, or of messages
  MaxPersists

BoundsAssumption == {MaxRows, Cap, MaxPersists} \subseteq Nat

VARIABLES
  ledger,      \* [company, what, id, val, refs, ts, seq]
  tables,      \* what the database holds: [company, table, key, row]
  persisted    \* how much of the ledger each company's tables were made of

vars == <<ledger, tables, persisted>>

Init == ledger = <<>> /\ tables = {} /\ persisted = [c \in Companies |-> <<0, 0>>]

(* The steps of a credential say which entry they follow.                    *)
Record(c, e, t) ==
  /\ Len(ledger) < MaxRows
  /\ LET prior == {i \in DOMAIN ledger : ledger[i].what = "credential" /\ ledger[i].id = e.id}
     IN ledger' = Append(ledger,
          e @@ [company |-> c, ts |-> t, seq |-> Len(ledger) + 1,
                prior |-> IF e.what = "credential" /\ e.val # "propose" /\ prior # {} THEN Max(prior) ELSE 0])
  /\ UNCHANGED <<tables, persisted>>

Of(rows, what) == SelectSeq(rows, LAMBDA x : x.what = what)

Company(rows, c) == SelectSeq(rows, LAMBDA x : x.company = c)

(* A later row on a key replaces the value, and keeps the place, of the first. *)
Fold(apply(_, _), rows) == FoldLeft(apply, <<>>, rows)

Keys(rows) == {rows[i].id : i \in DOMAIN rows}

FirstSeen(rows, id) == Min({i \in DOMAIN rows : rows[i].id = id})

LastSeen(rows, id) == Max({i \in DOMAIN rows : rows[i].id = id})

-----------------------------------------------------------------------------
(* The projection.                                                           *)

data_product(t, x) ==
  CASE x.what = "product_proposed" -> (x.id :> [status |-> "proposed", hash |-> "none", run |-> 0]) @@ t
    [] x.what = "product_generated" /\ x.id \in DOMAIN t ->
         [t EXCEPT ![x.id] = [status |-> "generated", hash |-> x.val, run |-> x.seq]]
    [] x.what = "product_archived" /\ x.id \in DOMAIN t -> [t EXCEPT ![x.id].status = "archived"]
    [] OTHER -> t

data_product_runs(rows) ==
  {[run |-> x.seq, of |-> x.id, hash |-> x.val] : x \in Range(Of(rows, "product_generated"))}

notebook(t, x) ==
  CASE x.what = "notebook_proposed" ->
         (x.id :> [status |-> "proposed", owner |-> x.val, version |-> "none", run |-> 0]) @@ t
    [] x.what = "notebook_run" /\ x.id \in DOMAIN t ->
         [t EXCEPT ![x.id].status = "run", ![x.id].run = x.seq]
    [] x.what = "notebook_published" /\ x.id \in DOMAIN t ->
         [t EXCEPT ![x.id].status = "published", ![x.id].version = x.val, ![x.id].owner = Head(x.refs)]
    [] x.what = "notebook_archived" /\ x.id \in DOMAIN t -> [t EXCEPT ![x.id].status = "archived"]
    [] OTHER -> t

notebook_runs(rows) == {[run |-> x.seq, of |-> x.id] : x \in Range(Of(rows, "notebook_run"))}

(* One install for each platform; a mode is chosen, and a setup completed, for *)
(* the installs there are; a new one keeps what its platform had.             *)
install(t, x) ==
  LET All(f(_)) == [k \in DOMAIN t |-> f(t[k])]
  IN CASE x.what = "install_completed" ->
            (x.id :> [by |-> x.val, status |-> "active",
                      mode |-> IF x.id \in DOMAIN t THEN t[x.id].mode ELSE "none",
                      done |-> IF x.id \in DOMAIN t THEN t[x.id].done ELSE 0]) @@ t
       [] x.what = "install_revoked" -> All(LAMBDA r : IF r.by = x.val THEN [r EXCEPT !.status = "revoked"] ELSE r)
       [] x.what = "setup_mode_chosen" -> All(LAMBDA r : [r EXCEPT !.mode = x.val])
       [] x.what = "setup_completed" -> All(LAMBDA r : [r EXCEPT !.done = x.seq])
       [] OTHER -> t

setup_step_advanced(p, x) ==
  IF x.what # "setup_step_advanced" THEN p
  ELSE [current |-> x.id,
        completed |-> IF x.id \in Range(p.completed) THEN p.completed ELSE Append(p.completed, x.id)]

setup_progress(rows) == FoldLeft(setup_step_advanced, [current |-> "none", completed |-> <<>>], rows)

topic(t, x) ==
  CASE x.what # "topic" -> t
    [] x.id \in DOMAIN t -> [t EXCEPT ![x.id].label = x.val, ![x.id].last = x.ts]
    [] OTHER -> (x.id :> [label |-> x.val, first |-> x.ts, last |-> x.ts]) @@ t

person(t, x) ==
  CASE x.what = "person_proposed" -> (x.id :> "proposed") @@ t
    [] x.what \in {"person_confirmed", "person_archived"} /\ x.id \in DOMAIN t ->
         [t EXCEPT ![x.id] = IF x.what = "person_confirmed" THEN "active" ELSE "archived"]
    [] OTHER -> t

(* Revoking a role ends the first grant of it that has not ended.             *)
role(t, x) ==
  LET open == {g \in DOMAIN t : t[g].to = x.id /\ t[g].role = x.val /\ t[g].ended = 0}
  IN CASE x.what = "role_assigned" -> (x.seq :> [to |-> x.id, role |-> x.val, ended |-> 0]) @@ t
       [] x.what = "role_revoked" /\ open # {} -> [t EXCEPT ![Min(open)].ended = x.seq]
       [] OTHER -> t

kpi_node(t, x) == IF x.what = "kpi_node" THEN (x.id :> [name |-> x.val]) @@ t ELSE t

(* Fault: a step that follows another starts a row of its own.                *)
credentialAnew(s, x) ==
  IF x.what # "credential" THEN s
  ELSE [row |-> (x.seq :> x.seq) @@ s.row, status |-> (x.seq :> x.val) @@ s.status]

(* The steps of a credential are threaded to the row of the first of them.     *)
credential(s, x) ==
  IF x.what # "credential" THEN s
  ELSE LET row == IF x.prior \in DOMAIN s.row THEN s.row[x.prior] ELSE x.seq
       IN [row |-> (x.seq :> row) @@ s.row, status |-> (row :> x.val) @@ s.status]

credentials(rows) == FoldLeft(credential, [row |-> <<>>, status |-> <<>>], rows).status

build_projections(rows) ==
  [data_products |-> Fold(data_product, rows), notebooks |-> Fold(notebook, rows),
   installs |-> Fold(install, rows), topics |-> Fold(topic, rows), kpi_nodes |-> Fold(kpi_node, rows)]

of_company(c, P) ==
  UNION {{[company |-> c, table |-> n, key |-> k, row |-> P[n][k]] : k \in DOMAIN P[n]} : n \in DOMAIN P}

wiped(T, c) == {r \in T : r.company # c}

(* The rows of the company go and those of the fold come, in one transaction.  *)
persist_projections(T, c, P) == wiped(T, c) \cup of_company(c, P)

Persist(c) ==
  /\ persisted[c][2] < MaxPersists /\ persisted[c][1] < Len(ledger)
  /\ tables' = persist_projections(tables, c, build_projections(Company(ledger, c)))
  /\ persisted' = [persisted EXCEPT ![c] = <<Len(ledger), @[2] + 1>>]
  /\ UNCHANGED ledger

Next == \E c \in Companies : Persist(c) \/ \E e \in Events, t \in Times : Record(c, e, t)

Spec == Init /\ [][Next]_vars

-----------------------------------------------------------------------------
(* What external agents are told.                                            *)

fold_kpi(t, x) ==
  CASE x.what = "kpi_node" -> (x.id :> [name |-> x.val, sources |-> "none"]) @@ t
    [] x.what = "kpi_proposed" -> (x.id :> [name |-> x.val, sources |-> x.refs]) @@ t
    [] OTHER -> t

fold_decisions(rows) == LET all == Of(rows, "decision") IN [i \in DOMAIN all |-> [id |-> all[i].id, text |-> all[i].val]]

fold_process(t, x) == IF x.what = "process" THEN (x.id :> x.val) @@ t ELSE t

fold_recurring_question(t, x) == IF x.what = "question" THEN (x.id :> x.val) @@ t ELSE t

fold_system_map(rows) ==
  [nodes |-> Keys(Of(rows, "system_node")),
   edges |-> UNION {{<<x.id, y>> : y \in Range(x.refs)} : x \in Range(Of(rows, "system_node"))}]

fold_data_product(t, x) ==
  CASE x.what = "product_proposed" -> (x.id :> [status |-> "proposed", hash |-> "none"]) @@ t
    [] x.what = "product_generated" /\ x.id \in DOMAIN t ->
         [t EXCEPT ![x.id].status = "generated", ![x.id].hash = x.val]
    [] x.what = "product_archived" /\ x.id \in DOMAIN t -> [t EXCEPT ![x.id].status = "archived"]
    [] OTHER -> t

fold_notebook(t, x) ==
  CASE x.what = "notebook_proposed" -> (x.id :> [status |-> "proposed", owner |-> x.val, version |-> "none"]) @@ t
    [] x.what = "notebook_run" /\ x.id \in DOMAIN t -> [t EXCEPT ![x.id].status = x.val]
    [] x.what = "notebook_published" /\ x.id \in DOMAIN t ->
         [t EXCEPT ![x.id] = [status |-> "published", owner |-> Head(x.refs), version |-> x.val]]
    [] x.what = "notebook_archived" /\ x.id \in DOMAIN t -> [t EXCEPT ![x.id].status = "archived"]
    [] OTHER -> t

Least(a, b) == IF a <= b THEN a ELSE b

(* Later messages first; of a time, the one that was recorded first.          *)
Latest(rows) ==
  [n \in 1 .. Len(rows) |-> rows[CHOOSE i \in DOMAIN rows : Cardinality({j \in DOMAIN rows :
     rows[j].ts > rows[i].ts \/ (rows[j].ts = rows[i].ts /\ j < i)}) = n - 1]]

fold_conversations(rows, since) ==
  LET said == Latest(SelectSeq(rows, LAMBDA x : x.what = "chat" /\ x.ts >= since))
  IN SubSeq(said, 1, Least(Cap, Len(said)))

fold_person(t, x) ==
  CASE x.what = "person_proposed" -> (x.id :> "proposed") @@ t
    [] x.what = "person_confirmed" /\ x.id \in DOMAIN t -> [t EXCEPT ![x.id] = "active"]
    [] x.what = "person_archived" /\ x.id \in DOMAIN t -> [t EXCEPT ![x.id] = "archived"]
    [] OTHER -> t

(* Grants are told with the person, whenever either was recorded.             *)
fold_grants(rows, p) == {x.val : x \in {y \in Range(Of(rows, "role_assigned")) : y.id = p}}

fold_audit_trail(rows, id) == SelectSeq(rows, LAMBDA x : x.id = id)

-----------------------------------------------------------------------------
(* Around a topic: what was seen last of each kind.                          *)

extract(rows, what) ==
  LET of == Of(rows, what)
      S == Keys(of)
  IN {[id |-> k, val |-> of[LastSeen(of, k)].val] : k \in {i \in S :
        Cardinality({j \in S : FirstSeen(of, j) > FirstSeen(of, i)}) < Cap}}

extract_kpis(rows) ==
  LET of == SelectSeq(rows, LAMBDA x : x.what \in {"kpi_node", "kpi_proposed"})
  IN {[id |-> k, val |-> of[LastSeen(of, k)].val] : k \in {i \in Keys(of) :
        Cardinality({j \in Keys(of) : FirstSeen(of, j) > FirstSeen(of, i)}) < Cap}}

extract_decisions(rows) == extract(rows, "decision")

extract_processes(rows) == extract(rows, "process")

extract_data_products(rows) == extract(rows, "product_proposed")

(* Lake maintenance: KPIs without a source, and what was said lately.         *)
list_kpi_nodes_without_source(rows) ==
  LET of == Of(rows, "kpi_proposed")
  IN {k \in Keys(of) : of[LastSeen(of, k)].refs = <<>>}

list_recent_conversations(rows, since) ==
  LET said == Latest(SelectSeq(Of(rows, "chat"), LAMBDA x : x.ts >= since))
  IN SubSeq(said, 1, Least(Cap, Len(said)))

-----------------------------------------------------------------------------
(* KPIs as they are replayed: rows are merged, and the value is the gold that   *)
(* was computed last of any source of the KPI.                               *)

merge_kpi(t, x) ==
  LET old == IF x.id \in DOMAIN t THEN t[x.id] ELSE [name |-> "none", sources |-> <<>>, by |-> {}]
  IN CASE x.what = "kpi_node" -> (x.id :> [old EXCEPT !.name = x.val, !.by = @ \cup {x.seq}]) @@ t
       [] x.what = "kpi_proposed" ->
            (x.id :> [name |-> IF old.name = "none" THEN x.val ELSE old.name,
                      sources |-> IF x.refs = <<>> THEN old.sources ELSE x.refs,
                      by |-> old.by \cup {x.seq}]) @@ t
       [] OTHER -> t

gold_artifacts(rows) ==
  LET of == Of(rows, "golded")
  IN {[place |-> FirstSeen(of, k), at |-> of[LastSeen(of, k)].ts, seq |-> of[LastSeen(of, k)].seq,
       val |-> of[LastSeen(of, k)].val, source |-> Head(of[LastSeen(of, k)].refs)] : k \in Keys(of)}

fold_kpis(rows) ==
  LET t == Fold(merge_kpi, rows)
      of(k) == {g \in gold_artifacts(rows) : g.source \in Range(t[k].sources)}
      last(k) == CHOOSE g \in of(k) : \A o \in of(k) : o.at < g.at \/ (o.at = g.at /\ o.place <= g.place)
  IN [k \in DOMAIN t |->
        IF of(k) = {} THEN [name |-> t[k].name, value |-> "none", by |-> t[k].by, sources |-> t[k].sources]
        ELSE [name |-> t[k].name, value |-> last(k).val, by |-> t[k].by \cup {last(k).seq},
              sources |-> t[k].sources]]

-----------------------------------------------------------------------------
(* Products and notebooks have one status, hash and version in every view;     *)
(* what a row names is a run that is listed.                                 *)
ProductsAgree(rows) ==
  LET P == build_projections(rows)
      told == Fold(fold_data_product, rows)
      books == Fold(fold_notebook, rows)
  IN /\ [k \in DOMAIN told |-> told[k]] = [k \in DOMAIN P.data_products |->
          [status |-> P.data_products[k].status, hash |-> P.data_products[k].hash]]
     /\ \A k \in DOMAIN P.data_products : P.data_products[k].run > 0 =>
          [run |-> P.data_products[k].run, of |-> k, hash |-> P.data_products[k].hash] \in data_product_runs(rows)
     /\ DOMAIN books = DOMAIN P.notebooks
     /\ \A k \in DOMAIN books :
          LET b == books[k]
              n == P.notebooks[k]
          IN /\ b.owner = n.owner /\ b.version = n.version
             /\ b.status = n.status \/ (n.status = "run" /\ b.status \in {"ok", "error"})
             /\ n.run > 0 => [run |-> n.run, of |-> k] \in notebook_runs(rows)
     /\ \A x \in extract_data_products(rows) : x.id \in DOMAIN told

(* What is told around a topic is the latest there is of what is listed, and    *)
(* all of it while there is room.                                            *)
TopicsAgree(rows) ==
  LET D == extract_decisions(rows)
      Q == extract_processes(rows)
      decided == fold_decisions(rows)
      maps == Fold(fold_process, rows)
      kpis == Fold(fold_kpi, rows)
      K == extract_kpis(rows)
  IN /\ Cardinality(D) = Least(Cap, Cardinality(Keys(Of(rows, "decision"))))
     /\ \A x \in D : \E i \in DOMAIN decided :
          /\ decided[i] = [id |-> x.id, text |-> x.val]
          /\ \A j \in DOMAIN decided : j > i => decided[j].id # x.id
     /\ Cardinality(Q) = Least(Cap, Cardinality(DOMAIN maps))
     /\ \A x \in Q : maps[x.id] = x.val
     /\ Cardinality(K) = Least(Cap, Cardinality(DOMAIN kpis))
     /\ \A x \in K : kpis[x.id].name = x.val

(* The views of KPIs know the same ones, and the projection those that are      *)
(* nodes; a value rests on rows of the ledger and is the last computed.        *)
KpisAgree(rows) ==
  LET told == Fold(fold_kpi, rows)
      replayed == fold_kpis(rows)
      nodes == Fold(kpi_node, rows)
  IN /\ DOMAIN told = DOMAIN replayed /\ DOMAIN nodes \subseteq DOMAIN told
     /\ list_kpi_nodes_without_source(rows) \subseteq DOMAIN told
     /\ \A k \in DOMAIN nodes : replayed[k].name # "none"
     /\ \A k \in DOMAIN replayed : replayed[k].value # "none" =>
          \E i \in replayed[k].by :
            /\ ledger[i].what = "golded" /\ ledger[i].val = replayed[k].value
            /\ Head(ledger[i].refs) \in Range(replayed[k].sources)
            /\ \A j \in DOMAIN rows : (rows[j].what = "golded" /\ rows[j].ts > ledger[i].ts
                 /\ Head(rows[j].refs) \in Range(replayed[k].sources)) =>
                 \E n \in DOMAIN rows : n > j /\ rows[n].what = "golded" /\ rows[n].id = rows[j].id

(* Messages are told the same to agents and to lake maintenance, the latest     *)
(* ones, newest first.                                                       *)
TalkAgrees(rows) ==
  \A since \in Times :
    LET told == fold_conversations(rows, since)
    IN /\ told = list_recent_conversations(rows, since)
       /\ \A i, j \in DOMAIN told : i < j => told[i].ts >= told[j].ts
       /\ Len(told) = Cap => \A x \in Range(Of(rows, "chat")) : x \in Range(told) \/ x.ts <= Last(told).ts

(* A setup has each step once, in the order they were first reached; an install *)
(* of a platform is the last, with what was chosen since the first; a topic     *)
(* keeps when it was first seen; a credential has one row, at its last step.    *)
SetupStands(rows) ==
  LET s == setup_progress(rows)
      of == Of(rows, "setup_step_advanced")
      C == credentials(rows)
      I == Fold(install, rows)
      T == Fold(topic, rows)
  IN /\ Range(s.completed) = Keys(of) /\ Len(s.completed) = Cardinality(Keys(of))
     /\ \A i, j \in DOMAIN s.completed : i < j => FirstSeen(of, s.completed[i]) < FirstSeen(of, s.completed[j])
     /\ \A k \in DOMAIN I :
          LET done == Of(rows, "install_completed")
              modes == {i \in DOMAIN rows : rows[i].what = "setup_mode_chosen"
                        /\ \E j \in 1 .. i : rows[j].what = "install_completed" /\ rows[j].id = k}
          IN /\ I[k].by = done[LastSeen(done, k)].val
             /\ I[k].mode = IF modes = {} THEN "none" ELSE rows[Max(modes)].val
     /\ \A k \in DOMAIN T : LET all == Of(rows, "topic")
                            IN T[k].first = all[FirstSeen(all, k)].ts /\ T[k].label = all[LastSeen(all, k)].val
     /\ \A i \in DOMAIN rows : (rows[i].what = "credential" /\ rows[i].prior = 0) =>
          LET chain == {j \in DOMAIN rows : rows[j].what = "credential" /\ rows[j].id = rows[i].id /\ j >= i}
              next == {j \in chain : j > i /\ rows[j].prior = 0}
          IN next = {} => rows[i].seq \in DOMAIN C /\ C[rows[i].seq] = rows[Max(chain)].val

(* Agents are told the persons of the projection and every role they have; a    *)
(* question as it was last asked, a map whose edges start at its nodes; and the *)
(* audit trail of a thing is all that was recorded of it, in that order.        *)
AgentsTold(rows) ==
  LET told == Fold(fold_person, rows)
      roles == Fold(role, rows)
      asked == Fold(fold_recurring_question, rows)
      map == fold_system_map(rows)
  IN /\ told = Fold(person, rows)
     /\ \A g \in DOMAIN roles : roles[g].ended = 0 => roles[g].role \in fold_grants(rows, roles[g].to)
     /\ \A e \in map.edges : e[1] \in map.nodes
     /\ \A q \in DOMAIN asked :
          LET trail == fold_audit_trail(rows, q)
          IN \E i \in DOMAIN trail : /\ trail[i].what = "question" /\ trail[i].val = asked[q]
                                    /\ \A j \in DOMAIN trail : j > i => trail[j].what # "question"
     /\ \A p \in DOMAIN told :
          LET trail == fold_audit_trail(rows, p)
          IN told[p] # "proposed" => \E i \in DOMAIN trail : trail[i].what \in
               (IF told[p] = "active" THEN {"person_confirmed"} ELSE {"person_archived"})
             /\ \A j \in DOMAIN trail : j > i => trail[j].what \notin
                  {"person_proposed", "person_confirmed", "person_archived"}

(* The tables of a company are its fold when they were last made, whatever was  *)
(* recorded or made for another since; no key is there twice.                 *)
TablesStand ==
  /\ \A c \in Companies :
       LET P == build_projections(Company(SubSeq(ledger, 1, persisted[c][1]), c))
       IN {<<r.table, r.key, r.row>> : r \in {q \in tables : q.company = c}}
            = UNION {{<<n, k, P[n][k]>> : k \in DOMAIN P[n]} : n \in DOMAIN P}
  /\ \A q, r \in tables : (q.company = r.company /\ q.table = r.table /\ q.key = r.key) => q = r

(* The views agree on every ledger (builder.py, read_tools.py, kpis.py,        *)
(* resource_aggregator.py, source_candidate_readers.py).                      *)
ViewsAgree ==
  /\ \A c \in Companies :
       LET rows == Company(ledger, c)
       IN ProductsAgree(rows) /\ TopicsAgree(rows) /\ KpisAgree(rows) /\ TalkAgrees(rows)
          /\ SetupStands(rows) /\ AgentsTold(rows)
  /\ TablesStand
=============================================================================
