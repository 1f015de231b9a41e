---------------------------- MODULE LakeDiscovery ----------------------------
(***************************************************************************)
(* The lake axes of the agent gateway: one Compounding reactivity for each   *)
(* family of module LakeReview. The runner hands an axis an entry; the axis  *)
(* gathers triggers from it, passes over those its idempotency filter finds  *)
(* in the last Window of the ledger, asks its inference service about the    *)
(* others and writes one cycle for each proposal.                            *)
(***************************************************************************)
EXTENDS LakeReview

CONSTANTS
  Axes,       \* axes whose service and readers are wired
  Guessed,    \* kinds a strategy finds without a confirmed type
  Window,     \* propose_window_seconds
  MaxTime, MaxEvents, MaxAborts  \* bounds

ASSUME AxesAssumption == Axes \subseteq Families
ASSUME GuessedAssumption == Guessed \subseteq Kinds
ASSUME WindowAssumption == {Window, MaxTime, MaxEvents, MaxAborts} \subseteq Nat

VARIABLES
  now,
  seen,     \* latest proposal of each subject: seen[i] = 0 when there is none
  queue,    \* entries the runner has not handled
  fired,    \* axes that have handled the head of the queue
  fire,     \* the axis in flight: triggers left, the one in hand, its proposals
  events, aborts,
  inferred, \* history: axes, triggers and when they were last completed
  skipped,  \* history: triggers passed over that were not inferred in the window
  repeated  \* history: subjects proposed again within the window

fireVars == <<now, seen, queue, fired, fire, events, aborts, inferred, skipped, repeated>>
vars == <<reviewVars, fireVars>>

Ready == [axis |-> "none", todo |-> {}, trigger |-> {}, emits |-> {}]
Tick == [kind |-> "tick", source |-> "none", changes |-> {}]

Init ==
  /\ ReviewInit
  /\ now = 1 /\ seen = [i \in Ids |-> 0]
  /\ queue = <<>> /\ fired = {} /\ fire = Ready
  /\ events = 0 /\ aborts = 0
  /\ inferred = {} /\ skipped = {} /\ repeated = {}

-----------------------------------------------------------------------------
(* The entries the axes match. A connected source interests two axes only.  *)

Arrives(e) ==
  /\ events < MaxEvents
  /\ queue' = Append(queue, e)
  /\ events' = events + 1
  /\ UNCHANGED <<reviewVars, now, seen, fired, fire, aborts, inferred, skipped, repeated>>

SourceConnected(s) == Arrives([kind |-> "connected", source |-> s, changes |-> {}])
ExternalCatalogImported(s, changes) ==
  Arrives([kind |-> "imported", source |-> s, changes |-> changes])
ClockTick == Arrives(Tick)

-----------------------------------------------------------------------------
(* The pipeline every axis runs. A trigger is passed over when the filter    *)
(* finds it; otherwise the service proposes any of what the axis may infer   *)
(* from it, an empty answer included, and each proposal is a cycle.          *)

InWindow(i) == seen[i] # 0 /\ seen[i] >= now - Window

Completed(axis, t) ==
  inferred' = {r \in inferred : <<r[1], r[2]>> # <<axis, t>>} \cup {<<axis, t, now>>}
FreshlyInferred(axis, t) ==
  \E r \in inferred : r[1] = axis /\ r[2] = t /\ r[3] >= now - Window

Gathers(axis, kinds, quality_filter(_), gather_fn(_)) ==
  /\ fire = Ready /\ queue # <<>> /\ axis \notin fired
  /\ Head(queue).kind \in kinds
  /\ fired' = fired \cup {axis}
  /\ fire' = IF quality_filter(Head(queue))
             THEN [axis |-> axis, todo |-> gather_fn(Head(queue)), trigger |-> {}, emits |-> {}]
             ELSE Ready
  /\ UNCHANGED <<reviewVars, now, seen, queue, events, aborts, inferred, skipped, repeated>>

PassesOver(axis, idempotency_filter(_)) ==
  /\ fire.axis = axis /\ fire.emits = {}
  /\ \E t \in fire.todo :
       /\ idempotency_filter(t)
       /\ fire' = [fire EXCEPT !.todo = @ \ {t}]
       /\ skipped' = IF FreshlyInferred(axis, t) THEN skipped ELSE skipped \cup {<<axis, t>>}
  /\ UNCHANGED <<reviewVars, now, seen, queue, fired, events, aborts, inferred, repeated>>

Infers(axis, idempotency_filter(_), promotion_action(_)) ==
  /\ fire.axis = axis /\ fire.emits = {}
  /\ \E t \in fire.todo :
       /\ ~idempotency_filter(t)
       /\ \E found \in SUBSET promotion_action(t) :
            /\ fire' = [fire EXCEPT !.todo = @ \ {t}, !.trigger = t, !.emits = found]
            /\ IF found = {} THEN Completed(axis, t) ELSE UNCHANGED inferred
  /\ UNCHANGED <<reviewVars, now, seen, queue, fired, events, aborts, skipped, repeated>>

Emits(axis, emit(_)) ==
  /\ fire.axis = axis
  /\ \E x \in fire.emits :
       /\ emit(<<axis, x>>)
       /\ seen' = [seen EXCEPT ![<<axis, x>>] = now]
       /\ fire' = [fire EXCEPT !.emits = @ \ {x}]
       /\ repeated' = IF InWindow(<<axis, x>>) THEN repeated \cup {<<axis, x>>} ELSE repeated
       /\ IF fire.emits = {x} THEN Completed(axis, fire.trigger) ELSE UNCHANGED inferred
  /\ UNCHANGED <<link, sources, promoting, reviews, answered, linked>>
  /\ UNCHANGED <<now, queue, fired, events, aborts, skipped>>

Compounding(axis, kinds, quality_filter(_), gather_fn(_), idempotency_filter(_),
            promotion_action(_), emit(_)) ==
  /\ axis \in Axes
  /\ \/ Gathers(axis, kinds, quality_filter, gather_fn)
     \/ PassesOver(axis, idempotency_filter)
     \/ Infers(axis, idempotency_filter, promotion_action)
     \/ Emits(axis, emit)

-----------------------------------------------------------------------------
(* The axes.                                                                *)

list_tables_for_source(s) == {c \in Columns : c.source = s}
lineage_quality_filter(e) == list_tables_for_source(e.source) # {}
list_candidate_targets(s) == {c \in Columns : c.source # s}

Recent(i) == InWindow(i)
RecentAbout(f, P(_)) == \E i \in Of(f) : Recent(i) /\ P(i[2])

lineage_gather(e) == {e.source}

(* Either end of a recent edge makes its source one that was inferred.      *)
lineage_idempotency_filter(s) ==
  RecentAbout("lineage_edge", LAMBDA x : s \in {x[1].source, x[2].source})
lineage_promotion_action(s) == list_tables_for_source(s) \X list_candidate_targets(s)
emit_lineage_edge_proposed(i) == lineage_edge_proposed(i) /\ ReadProposal(i)
make_lineage_discovery_reactivity ==
  Compounding("lineage_edge", {"connected", "imported"}, lineage_quality_filter,
              lineage_gather, lineage_idempotency_filter, lineage_promotion_action,
              emit_lineage_edge_proposed)

(* Fault: the reader takes a proposed type for a confirmed one.             *)
AnyTypeOf(c) ==
  {k \in Kinds : /\ <<"semantic_type", <<c, k>>>> \in Ids
                 /\ view[<<"semantic_type", <<c, k>>>>] \in {"proposed", "confirmed"}}

(* A strategy that reads the confirmed types of a column and one that does   *)
(* not.                                                                      *)
list_confirmed_types_for_table_column(c) ==
  {k \in Kinds : /\ <<"semantic_type", <<c, k>>>> \in Ids
                 /\ view[<<"semantic_type", <<c, k>>>>] = "confirmed"}

Typed(c) == {c} \X (Guessed \cup list_confirmed_types_for_table_column(c))

quality_gather(e) == {e.source}
quality_idempotency_filter(s) == RecentAbout("quality_check", LAMBDA x : x[1].source = s)
quality_promotion_action(s) == UNION {Typed(c) : c \in list_tables_for_source(s)}
emit_quality_check_proposed(i) == quality_check_proposed(i) /\ ReadProposal(i)
make_quality_discovery_reactivity ==
  Compounding("quality_check", {"connected", "imported"}, lineage_quality_filter,
              quality_gather, quality_idempotency_filter, quality_promotion_action,
              emit_quality_check_proposed)

(* Column changes come with the entry; the filter does not look at their     *)
(* table, and neither does the reader of the confirmed edges.                *)
schema_impact_gather(e) == e.changes
schema_impact_idempotency_filter(t) ==
  RecentAbout("schema_impact", LAMBDA x : /\ x[1].source = t[1].source
                                          /\ x[1].column = t[1].column
                                          /\ x[2] = t[2])
list_confirmed_edges_for_source_column(c) ==
  {b \in Columns : \E a \in Columns :
     /\ <<"lineage_edge", <<a, b>>>> \in Ids
     /\ view[<<"lineage_edge", <<a, b>>>>] = "confirmed"
     /\ a.source = c.source /\ a.column = c.column}
schema_impact_promotion_action(t) ==
  {<<t[1], t[2], b>> : b \in {t[1]} \cup list_confirmed_edges_for_source_column(t[1])}
emit_schema_impact_proposed(i) == schema_impact_proposed(i) /\ ReadProposal(i)
make_schema_impact_discovery_reactivity ==
  Compounding("schema_impact", {"imported"}, lineage_quality_filter,
              schema_impact_gather, schema_impact_idempotency_filter,
              schema_impact_promotion_action, emit_schema_impact_proposed)

fingerprint_gather(e) == list_tables_for_source(e.source)
fingerprint_idempotency_filter(c) == RecentAbout("semantic_type", LAMBDA x : x[1] = c)
fingerprint_promotion_action(c) == {c} \X Kinds
emit_semantic_type_proposed(i) == semantic_type_proposed(i) /\ ReadProposal(i)
make_fingerprint_discovery_reactivity ==
  Compounding("semantic_type", {"imported"}, lineage_quality_filter,
              fingerprint_gather, fingerprint_idempotency_filter,
              fingerprint_promotion_action, emit_semantic_type_proposed)

column_classification_gather(e) == list_tables_for_source(e.source)

column_classification_idempotency_filter(c) ==
  RecentAbout("column_classification", LAMBDA x : x[1] = c)
column_classification_promotion_action(c) == Typed(c)
emit_column_classification_proposed(i) ==
  column_classification_proposed(i) /\ ReadProposal(i)
make_column_classification_discovery_reactivity ==
  Compounding("column_classification", {"imported"}, lineage_quality_filter,
              column_classification_gather, column_classification_idempotency_filter,
              column_classification_promotion_action,
              emit_column_classification_proposed)

entity_stitch_gather(e) ==
  {{a, b} : a \in list_tables_for_source(e.source), b \in list_candidate_targets(e.source)}
entity_stitch_idempotency_filter(p) == RecentAbout("entity_stitch", LAMBDA x : x = p)
entity_stitch_promotion_action(p) == {p}
emit_entity_stitch_proposed(i) == entity_stitch_proposed(i) /\ ReadProposal(i)
make_entity_stitch_discovery_reactivity ==
  Compounding("entity_stitch", {"imported"}, lineage_quality_filter,
              entity_stitch_gather, entity_stitch_idempotency_filter,
              entity_stitch_promotion_action, emit_entity_stitch_proposed)

(* Two axes have no filter: a subject proposed again folds onto its row.     *)
Unfiltered(t) == FALSE

source_candidate_quality_filter(e) == TRUE
source_candidate_gather(e) == {"tick"}
source_candidate_promotion_action(t) == Candidates
emit_source_candidate_proposed(i) == source_candidate_proposed(i) /\ ReadProposal(i)
make_source_candidate_discovery_reactivity ==
  Compounding("source_candidate", {"tick"}, source_candidate_quality_filter,
              source_candidate_gather, Unfiltered, source_candidate_promotion_action,
              emit_source_candidate_proposed)

catalog_drift_gather(e) == {e.source}
catalog_drift_promotion_action(s) == list_tables_for_source(s) \X Kinds
emit_catalog_drift_proposed(i) == catalog_drift_proposed(i) /\ ReadProposal(i)
make_catalog_drift_discovery_reactivity ==
  Compounding("catalog_drift", {"imported"}, lineage_quality_filter,
              catalog_drift_gather, Unfiltered, catalog_drift_promotion_action,
              emit_catalog_drift_proposed)

-----------------------------------------------------------------------------
(* The runner: one axis at a time, one entry at a time. An axis that raises  *)
(* loses what it had not written.                                            *)

EndFire ==
  /\ fire # Ready /\ fire.todo = {} /\ fire.emits = {}
  /\ fire' = Ready
  /\ UNCHANGED <<reviewVars, now, seen, queue, fired, events, aborts, inferred, skipped, repeated>>

FireRaises ==
  /\ fire # Ready /\ aborts < MaxAborts
  /\ fire' = Ready /\ aborts' = aborts + 1
  /\ UNCHANGED <<reviewVars, now, seen, queue, fired, events, inferred, skipped, repeated>>

Interested(e) ==
  {f \in Axes : CASE f \in {"lineage_edge", "quality_check"} -> e.kind # "tick"
                  [] f = "source_candidate" -> e.kind = "tick"
                  [] OTHER -> e.kind = "imported"}

NextEntry ==
  /\ fire = Ready /\ queue # <<>> /\ Interested(Head(queue)) \subseteq fired
  /\ queue' = Tail(queue) /\ fired' = {}
  /\ UNCHANGED <<reviewVars, now, seen, fire, events, aborts, inferred, skipped, repeated>>

TimePasses ==
  /\ now < MaxTime
  /\ now' = now + 1
  /\ UNCHANGED <<reviewVars, seen, queue, fired, fire, events, aborts, inferred, skipped, repeated>>

Admin == AdminStep /\ UNCHANGED fireVars

(* The column changes an import may carry, where an axis looks at them.     *)
ColumnChanges(s) ==
  IF "schema_impact" \in Axes THEN SUBSET (list_tables_for_source(s) \X Kinds) ELSE {{}}

Next ==
  \/ \E s \in {c.source : c \in Columns} :
       \/ SourceConnected(s)
       \/ \E changes \in ColumnChanges(s) : ExternalCatalogImported(s, changes)
  \/ ClockTick
  \/ make_lineage_discovery_reactivity
  \/ make_quality_discovery_reactivity
  \/ make_schema_impact_discovery_reactivity
  \/ make_fingerprint_discovery_reactivity
  \/ make_column_classification_discovery_reactivity
  \/ make_entity_stitch_discovery_reactivity
  \/ make_source_candidate_discovery_reactivity
  \/ make_catalog_drift_discovery_reactivity
  \/ EndFire \/ FireRaises \/ NextEntry \/ TimePasses
  \/ Admin

Spec == Init /\ [][Next]_vars

-----------------------------------------------------------------------------
TypeOK ==
  /\ ReviewTypeOK
  /\ now \in 1 .. MaxTime /\ seen \in [Ids -> 0 .. MaxTime]
  /\ Len(queue) <= MaxEvents /\ fired \subseteq Axes
  /\ fire = Ready \/ fire.axis \in fired
  /\ {<<fire.axis, x>> : x \in fire.emits} \subseteq Ids

(* A trigger an idempotency filter passes over was inferred in full within  *)
(* the window: the filters save a repetition and never lose a proposal.     *)
NothingSkipped == skipped = {}

(* No subject of an axis with a filter is proposed twice within a window,   *)
(* however long the service takes between the filter and the write.         *)
ProposedOnce == {i[1] : i \in repeated} \subseteq {"source_candidate", "catalog_drift"}

(* A check or a classification no other strategy finds rests on a type an   *)
(* admin decided about (the strategies behind ConfirmedSemanticTypeReader). *)
RestsOnVerdict ==
  \A i \in {j \in Ids : j[1] \in {"quality_check", "column_classification"}} :
    rows[i] # "none" /\ i[2][2] \notin Guessed
    => rows[<<"semantic_type", i[2]>>] \in Settled
=============================================================================
