----------------------------- MODULE LakeServices -----------------------------
(***************************************************************************)
(* The inference services of the lake axes: which strategies the environment  *)
(* switches on, and how a service merges what they propose. The axis of a     *)
(* behaviour and the world it asks about are chosen at the start; a restart    *)
(* reads other settings and the service is asked again.                      *)
(***************************************************************************)
EXTENDS LakeStrategies

CONSTANTS
  Axes,    \* services asked
  Worlds   \* Worlds[axis]: what the service may be asked about

VARIABLES axis, world, env, answer

vars == <<axis, world, env, answer>>

NotAsked == [asked |-> FALSE]

-----------------------------------------------------------------------------
(* Proposals with one id become one: the surest of them, the first one when   *)
(* they are as sure, with the evidence of all strategies.                    *)

(* Fault: the proposal of the latest strategy wins.                         *)
latest_merge_winner(p, q) == q

default_merge_winner(p, q) == IF p.confidence >= q.confidence THEN p ELSE q

default_cluster_merge(cluster) ==
  LET winner == FoldLeft(default_merge_winner, Head(cluster), Tail(cluster))
      strategies == {p.strategy : p \in Range(cluster)}
  IN [winner EXCEPT
        !.strategy = IF Cardinality(strategies) > 1 THEN "composite" ELSE @,
        !.evidence = FoldLeft(LAMBDA e, p : p.evidence @@ e, <<>>, cluster)]

(* An impact without an edge takes the first edge anybody knows.            *)
merge_schema_impact_cluster(cluster) ==
  LET merged == default_cluster_merge(cluster)
      edges == SelectSeq(cluster, LAMBDA p : p.upstream # "")
  IN IF merged.upstream = "" /\ edges # <<>>
     THEN [merged EXCEPT !.upstream = Head(edges).upstream] ELSE merged

Merge(cluster) ==
  IF axis = "schema_impact" THEN merge_schema_impact_cluster(cluster)
  ELSE default_cluster_merge(cluster)

LakeLoopComposite(proposals, min_confidence) ==
  LET merged == {Merge(SelectSeq(proposals, LAMBDA p : p.id = i)) :
                   i \in {p.id : p \in Range(proposals)}}
  IN {p \in merged : p.confidence >= min_confidence}

-----------------------------------------------------------------------------
(* Each axis: the switches its settings have; the strategies its service is   *)
(* built with; what composing its reactivity adds to them; and what the given *)
(* strategies propose, in the order they are asked. A strategy that reads     *)
(* samples, snapshots or the columns beside one is given a reader that knows  *)
(* none, and only the sampler is ever replaced by one that knows some.       *)

Given(name, given, proposals) == IF name \in given THEN proposals ELSE <<>>

(* Samples are read with the credentials of the source's owner.             *)
build_credential_broker_for_sampler(e) == "credentials" \in e
build_active_sampler(e) ==
  IF "sampler_activation" \in e /\ build_credential_broker_for_sampler(e)
  THEN {"sampler"} ELSE {}

lineage_switches == {"sample_overlap", "sampler_activation", "credentials"}
build_lineage(e) == {"naming"} \cup (e \cap {"sample_overlap"})
compose_lineage(e) ==
  build_lineage(e) \cup {"dbt_manifest"} \cup build_active_sampler(e)
infer_edges(given, w) ==
  Given("naming", given, NamingHeuristicStrategy(w))
  \o Given("dbt_manifest", given, DbtManifestStrategy(w))
  \o Given("sample_overlap", given, Given("sampler", given, SampleOverlapStrategy(w)))

quality_switches == {"historical_stats", "semantic_type", "stats_reader"}
build_quality(e) == {"schema_pattern"} \cup (e \cap {"historical_stats"})
compose_quality(e) ==
  build_quality(e) \cup {"dbt_tests"} \cup (e \cap {"semantic_type", "stats_reader"})
propose_checks(given, w) ==
  Given("dbt_tests", given, DbtTestsStrategy(w))
  \o Given("schema_pattern", given, SchemaPatternStrategy(w))
  \o Given("historical_stats", given, Given("stats_reader", given, HistoricalStatsStrategy(w)))
  \o Given("semantic_type", given, SemanticTypeQualityCheckStrategy(w))

schema_impact_switches ==
  {"naming_lineage", "dbt_test", "governance", "semantic_type", "acknowledged_drift"}
build_schema_impact(e) ==
  {"lineage_edge", "type_coercion"} \cup (e \cap {"naming_lineage"})
compose_schema_impact(e) ==
  build_schema_impact(e)
  \cup (e \cap {"dbt_test", "governance", "semantic_type", "acknowledged_drift"})
propose_impacts(given, w) ==
  Given("lineage_edge", given, LineageEdgeImpactStrategy(w, "naming_lineage" \in given))
  \o Given("dbt_test", given, DbtTestImpactStrategy(w))
  \o Given("type_coercion", given, TypeCoercionImpactStrategy(w))
  \o Given("governance", given, GovernanceClassificationImpactStrategy(w))
  \o Given("semantic_type", given, SemanticTypeImpactStrategy(w))
  \o Given("acknowledged_drift", given, AcknowledgedDriftImpactStrategy(w))

fingerprint_switches ==
  {"value_pattern", "distribution", "sampler_activation", "credentials", "stats_reader"}
build_fingerprint(e) == {"column_name"} \cup (e \cap {"value_pattern", "distribution"})
compose_fingerprint(e) ==
  build_fingerprint(e) \cup build_active_sampler(e) \cup (e \cap {"stats_reader"})
propose_types(given, w) ==
  Given("column_name", given, ColumnNameFingerprintStrategy(w))
  \o Given("value_pattern", given, Given("sampler", given, ValuePatternFingerprintStrategy(w)))
  \o Given("distribution", given, Given("stats_reader", given, DistributionFingerprintStrategy(w)))

column_classification_switches == {"semantic_type", "domain_default"}
build_column_classification(e) ==
  {"naming_pattern"} \cup (e \cap {"semantic_type", "domain_default"})
compose_column_classification(e) == build_column_classification(e)
propose_classifications(given, w) ==
  Given("semantic_type", given, SemanticTypeClassificationStrategy(w))
  \o Given("naming_pattern", given, NamingPatternClassificationStrategy(w))
  \o Given("domain_default", given, DomainDefaultClassificationStrategy(w))

entity_stitch_switches ==
  {"semantic_type_anchor", "sample_overlap", "sampler_activation", "credentials", "columns_lookup"}
build_entity_stitch(e) ==
  {"name_match", "schema_shape"} \cup (e \cap {"semantic_type_anchor", "sample_overlap"})
compose_entity_stitch(e) ==
  build_entity_stitch(e) \cup build_active_sampler(e) \cup (e \cap {"columns_lookup"})
propose_stitches(given, w) ==
  Given("name_match", given, NameMatchEntityStrategy(w, "semantic_type_anchor" \in given))
  \o Given("sample_overlap", given, Given("sampler", given, SampleOverlapEntityStrategy(w)))
  \o Given("schema_shape", given, Given("columns_lookup", given, SchemaShapeEntityStrategy(w)))

source_candidate_switches == {"kpi_gap", "channel_mention", "complementarity"}
build_source_candidate(e) == e \cap source_candidate_switches
compose_source_candidate(e) == build_source_candidate(e)
propose_candidates(given, w) ==
  Given("kpi_gap", given, KpiGapAcquisitionStrategy(w))
  \o Given("channel_mention", given, ChannelMentionAcquisitionStrategy(w))
  \o Given("complementarity", given, ComplementaritySourceStrategy(w))

catalog_drift_switches == {"table_set", "column_set", "column_type"}
build_catalog_drift(e) == e \cap catalog_drift_switches
compose_catalog_drift(e) == build_catalog_drift(e)
propose_drifts(given, w) ==
  Given("table_set", given, TableSetDriftStrategy(w))
  \o Given("column_set", given, ColumnSetDriftStrategy(w))
  \o Given("column_type", given, ColumnTypeDriftStrategy(w))

Proposals(e, w) ==
  CASE axis = "lineage" -> infer_edges(compose_lineage(e), w)
    [] axis = "quality" -> propose_checks(compose_quality(e), w)
    [] axis = "schema_impact" -> propose_impacts(compose_schema_impact(e), w)
    [] axis = "fingerprint" -> propose_types(compose_fingerprint(e), w)
    [] axis = "column_classification" ->
         propose_classifications(compose_column_classification(e), w)
    [] axis = "entity_stitch" -> propose_stitches(compose_entity_stitch(e), w)
    [] axis = "source_candidate" -> propose_candidates(compose_source_candidate(e), w)
    [] axis = "catalog_drift" -> propose_drifts(compose_catalog_drift(e), w)

Switches(a) ==
  CASE a = "lineage" -> lineage_switches
    [] a = "quality" -> quality_switches
    [] a = "schema_impact" -> schema_impact_switches
    [] a = "fingerprint" -> fingerprint_switches
    [] a = "column_classification" -> column_classification_switches
    [] a = "entity_stitch" -> entity_stitch_switches
    [] a = "source_candidate" -> source_candidate_switches
    [] a = "catalog_drift" -> catalog_drift_switches

(* What a service drops by default; the services of the other axes drop      *)
(* nothing.                                                                  *)
MinConfidence(a) ==
  CASE a \in {"column_classification", "entity_stitch"} -> 6000
    [] a = "source_candidate" -> 4000
    [] a = "catalog_drift" -> 7000
    [] OTHER -> 0

Service(e, w) ==
  IF "discovery" \in e THEN LakeLoopComposite(Proposals(e, w), MinConfidence(axis)) ELSE {}

-----------------------------------------------------------------------------
Environments(a) == SUBSET (Switches(a) \cup {"discovery"})

Init ==
  /\ axis \in Axes
  /\ world \in Worlds[axis]
  /\ env \in Environments(axis)
  /\ answer = NotAsked

propose ==
  /\ answer = NotAsked
  /\ answer' = [asked |-> TRUE, proposals |-> Service(env, world)]
  /\ UNCHANGED <<axis, world, env>>

Restart ==
  /\ answer # NotAsked
  /\ answer' = NotAsked
  /\ env' \in Environments(axis)
  /\ UNCHANGED <<axis, world>>

Next == propose \/ Restart

Spec == Init /\ [][Next]_vars

-----------------------------------------------------------------------------
Answered == answer # NotAsked /\ "discovery" \in env

Covers(proposals, p) ==
  \E q \in proposals :
    q.id = p.id /\ q.confidence >= p.confidence /\ DOMAIN p.evidence \subseteq DOMAIN q.evidence

(* Every proposal of a strategy that is sure enough is in the answer under   *)
(* its id, at least as sure and with its strategy's evidence; an answer has   *)
(* one proposal of each id; and a strategy switched on takes nothing away    *)
(* from what the others would have answered (lake_loop/composite.py).       *)
StrategiesAddUp ==
  Answered =>
    /\ \A p \in Range(Proposals(env, world)) :
         p.confidence >= MinConfidence(axis) => Covers(answer.proposals, p)
    /\ \A p, q \in answer.proposals : p.id = q.id => p = q
    /\ \A less \in SUBSET env : \A p \in Service(less, world) : Covers(answer.proposals, p)

Apply(tables, d) ==
  LET t == d[1]
      c == d[2]
      put(type) == [tables EXCEPT ![t] = (c :> type) @@ @]
  IN CASE d[3] = "table_added" -> (t :> world.current[t]) @@ tables
       [] d[3] = "table_removed" -> [x \in DOMAIN tables \ {t} |-> tables[x]]
       [] d[3] = "column_added" -> put(world.current[t][c])
       [] d[3] = "column_removed" ->
            [tables EXCEPT ![t] = [x \in DOMAIN @ \ {c} |-> @[x]]]
       [] d[3] = "column_type_changed" -> put(d[5])

Type(tables, t, c) ==
  IF t \in DOMAIN tables /\ c \in DOMAIN tables[t] THEN tables[t][c] ELSE "none"

(* A type one of the snapshots does not know stays as it was.               *)
Reached(tables) ==
  /\ DOMAIN tables = DOMAIN world.current
  /\ \A t \in DOMAIN tables :
       /\ DOMAIN tables[t] = DOMAIN world.current[t]
       /\ \A c \in DOMAIN tables[t] :
            LET was == Type(world.baseline, t, c)
                is == Type(world.current, t, c)
            IN tables[t][c] = IF was # "none" /\ "" \in {was, is} THEN was ELSE is

(* With its three strategies on, the drifts lead from the baseline to the     *)
(* current snapshot, whatever order they are looked at in, and a type that    *)
(* one of the snapshots does not know is left alone                          *)
(* (catalog_drift/strategies.py).                                           *)
DriftsExplain ==
  Answered /\ axis = "catalog_drift" /\ Switches(axis) \subseteq env =>
    IF world.baseline = NoBaseline THEN answer.proposals = {}
    ELSE LET ids == SetToSeq({p.id : p \in answer.proposals})
         IN /\ Reached(FoldLeft(Apply, world.baseline, ids))
            /\ Reached(FoldRight(LAMBDA d, s : Apply(s, d), ids, world.baseline))

Turned(w) == [w EXCEPT !.a = w.b, !.b = w.a]

(* Which of two columns is looked at first changes neither how alike their    *)
(* names are nor how sure a stitch of them is; and the distance that stops    *)
(* at a cap is the distance, up to that cap (entity_stitch/strategies.py,    *)
(* lineage/strategies.py).                                                   *)
PairsCompareAlike ==
  Answered /\ axis = "entity_stitch" =>
    LET a == world.a.column
        b == world.b.column
        sure(proposals) == {<<p.id, p.confidence>> : p \in proposals}
    IN /\ score(a, b) = score(b, a)
       /\ Min({edit_distance(a, b, 3), 3}) = Min({levenshtein(a, b), 3})
       /\ sure(Service(env, Turned(world))) = sure(answer.proposals)

(* A change of a column that anybody confirmed as regulated is an impact on   *)
(* that column graded critical, however many other levels were confirmed for *)
(* it or its namesakes (schema_impact/strategies.py).                        *)
RegulatedIsCritical ==
  Answered /\ axis = "schema_impact" /\ "governance" \in env =>
    LET own == {r.level : r \in {x \in Range(world.levels) : x.table = world.change.table}}
        graded(grade) == \E p \in answer.proposals :
          /\ p.id[4] = Itself(world)
          /\ "governance_classification" \in DOMAIN p.evidence
          /\ p.evidence["governance_classification"] = grade
    IN /\ ("regulated" \in own) <=> graded("critical")
       /\ (own \cap {"pii", "confidential"} # {} /\ "regulated" \notin own) <=> graded("high")

(* A classification that rests on confirmed types names the surest of them.  *)
SurestTypeNamed ==
  Answered /\ axis = "column_classification" =>
    \A p \in answer.proposals : p.upstream # "" =>
      LET means == {r \in Range(world.types[world.column]) :
                      SEMANTIC_TYPE_TO_CLASSIFICATION(r.type)[1] = p.says}
      IN \E r \in means : r.id = p.upstream /\ \A x \in means : x.confidence <= r.confidence

(* The proposals of an axis say what its tables show: drifts lead from one   *)
(* snapshot to the other, pairs compare alike from both sides, and what is    *)
(* regulated is critical.                                                   *)
AxesTellTables == DriftsExplain /\ PairsCompareAlike /\ RegulatedIsCritical

(* What a composite service answers: all that its strategies are sure of,   *)
(* and what each of them says of the tables (lake_loop/composite.py).       *)
StrategiesStand == StrategiesAddUp /\ AxesTellTables
=============================================================================
