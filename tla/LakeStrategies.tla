---------------------------- MODULE LakeStrategies ----------------------------
(***************************************************************************)
(* What the strategies of the lake axes propose. A strategy looks at a world  *)
(* w (the tables, what is known of them, what an admin confirmed) and answers *)
(* with a sequence of proposals; two with the same id are about one thing.    *)
(* Confidences are in ten-thousandths, names of columns sequences of letters, *)
(* and what a bank of regular expressions finds in a text is a constant.      *)
(***************************************************************************)
EXTENDS Integers, Sequences, SequencesExt, FiniteSetsExt, TLC

CONSTANTS
  StopNames,    \* StopNames[s]: names the strategy s ignores
  IdNames,      \* names that are or end in id
  TimeNames,    \* names that end in _at, _ts or _time
  NamedTypes,   \* NamedTypes[n]: <<type, confidence>> found in the name n, in order
  NamedLevels,  \* NamedLevels[n]: <<level, confidence>> found in the name n
  ValueTypes,   \* <<values that match, type, confidence>>, in order
  KpiKinds      \* KpiKinds[k]: <<kind, confidence>> for the KPI k, the fallback included

Each(s, F(_)) == FlattenSeq([i \in DOMAIN s |-> F(s[i])])
When(found, p) == IF found THEN <<p>> ELSE <<>>
Larger(a, b) == IF a > b THEN a ELSE b

Proposal(id, says, upstream, confidence, strategy, evidence) ==
  [id |-> id, says |-> says, upstream |-> upstream, confidence |-> confidence,
   strategy |-> strategy, evidence |-> strategy :> evidence]

-----------------------------------------------------------------------------
(* Lineage: edges from the columns of one table to those of others.         *)

Edge(from, to, confidence, strategy, evidence) ==
  Proposal(<<from, to>>, "edge", "", confidence, strategy, evidence)

(* One row of the table of edit distances, from the row above it.           *)
NextRow(a, row, i, letter) ==
  FoldLeftDomain(LAMBDA r, j :
      Append(r, Min({row[j + 1] + 1, r[j] + 1, row[j] + (IF a[j] = letter THEN 0 ELSE 1)})),
    <<i>>, a)

levenshtein(a, b) ==
  Last(FoldLeftDomain(LAMBDA row, i : NextRow(a, row, i, b[i]),
                      [j \in 1 .. Len(a) + 1 |-> j - 1], b))

AllOver(row, cap) == Min(Range(row)) >= cap

(* Longer names than the cap allows, and rows that have all passed it, end   *)
(* the computation at the cap.                                               *)
edit_distance(x, y, cap) ==
  LET a == IF Len(x) > Len(y) THEN y ELSE x
      b == IF Len(x) > Len(y) THEN x ELSE y
      stopped == [row |-> <<>>, over |-> TRUE]
      step(s, i) == IF s.over THEN stopped
                    ELSE LET r == NextRow(a, s.row, i, b[i])
                         IN IF AllOver(r, cap) THEN stopped ELSE [row |-> r, over |-> FALSE]
      end == FoldLeftDomain(step, [row |-> [j \in 1 .. Len(a) + 1 |-> j - 1], over |-> FALSE], b)
  IN CASE x = y -> 0
       [] x # y /\ Len(b) - Len(a) >= cap -> cap
       [] OTHER -> IF end.over THEN cap ELSE Last(end.row)

Affix(a, b) == IsPrefix(a, b) \/ IsPrefix(b, a) \/ IsSuffix(a, b) \/ IsSuffix(b, a)

score(a, b) ==
  LET plain == {a, b} \cap StopNames["naming_heuristic"] = {}
      long == Len(a) >= 3 /\ Len(b) >= 3
  IN CASE plain /\ a = b -> 8500
       [] plain /\ a # b /\ long /\ edit_distance(a, b, 3) <= 2 -> 7000
       [] plain /\ a # b /\ long /\ edit_distance(a, b, 3) > 2 /\ Affix(a, b) -> 6000
       [] OTHER -> 0

NamingHeuristicStrategy(w) ==
  Each(w.targets, LAMBDA t : Each(w.columns[w.table], LAMBDA s : Each(w.columns[t], LAMBDA c :
    When(t # w.table /\ score(s, c) > 0,
         Edge(<<w.table, s>>, <<t, c>>, score(s, c), "naming_heuristic", <<s, c>>)))))

jaccard(a, b) ==
  IF a = {} \/ b = {} THEN 0
  ELSE (10000 * Cardinality(a \cap b)) \div Cardinality(a \cup b)

jaccard_to_confidence(j) == Min({9500, 5500 + ((j - 5000) * 8) \div 10})

SampleOverlapStrategy(w) ==
  Each(SelectSeq(w.targets, LAMBDA t : t # w.table), LAMBDA t :
    Each(w.columns[t], LAMBDA c : Each(w.columns[w.table], LAMBDA s :
      LET a == w.samples[<<w.table, s>>]
          b == w.samples[<<t, c>>]
      IN When(/\ {w.table, t} \cap w.huge = {}
              /\ Cardinality(a) >= w.richness
              /\ jaccard(a, b) >= 5000,
              Edge(<<w.table, s>>, <<t, c>>, jaccard_to_confidence(jaccard(a, b)),
                   "sample_overlap", jaccard(a, b))))))

(* A dbt model depends on the models and sources it refers to, as a whole.  *)
DbtManifestStrategy(w) ==
  Each(w.refs, LAMBDA up :
    When(w.source_kind = "dbt" /\ up # w.table /\ up \in Range(w.targets),
         Edge(<<up, <<>>>>, <<w.table, <<>>>>, 9900, "dbt_manifest", up)))

-----------------------------------------------------------------------------
(* Quality checks of one table, for a column or (<<>>) for the whole.       *)

Check(w, column, kind, config, confidence, strategy, upstream, evidence) ==
  Proposal(<<w.table, kind, column, config>>, kind, upstream, confidence, strategy, evidence)

SchemaPatternStrategy(w) ==
  Each(SelectSeq(w.columns[w.table], LAMBDA c : c \notin StopNames["schema_pattern"]), LAMBDA c :
    LET m == w.meta[c]
        check(kind, config, confidence) ==
          Check(w, c, kind, config, confidence, "schema_pattern", "", kind)
    IN When(m.nullable = "no" /\ m.nulls > 0, check("not_null", {}, 8500))
       \o When(c \in IdNames /\ m.distinct # 1, check("unique", {}, 8000))
       \o When(c \in TimeNames \/ m.type = "time", check("freshness", 24, 7000))
       \o When(m.distinct \in 1 .. 10, check("enum_membership", {}, 6500)))

normalize_dbt_config(kind, config) ==
  CASE kind = "enum_membership" -> config
    [] kind = "freshness" -> IF config = {} THEN 24 ELSE Max(config)
    [] kind = "row_count_range" -> config
    [] OTHER -> {}

DBT_TEST_MAP ==
  ("not_null" :> <<"not_null", 9900>>) @@ ("unique" :> <<"unique", 9900>>)
  @@ ("accepted_values" :> <<"enum_membership", 9900>>)
  @@ ("dbt_utils.row_count" :> <<"row_count_range", 9500>>)
  @@ ("dbt_utils.test_freshness" :> <<"freshness", 9500>>)

DbtTestsStrategy(w) ==
  Each(SelectSeq(w.tests, LAMBDA t : w.source_kind = "dbt" /\ t.name \in DOMAIN DBT_TEST_MAP),
    LAMBDA t : LET kind == DBT_TEST_MAP[t.name][1]
               IN <<Check(w, t.column, kind, normalize_dbt_config(kind, t.config),
                          DBT_TEST_MAP[t.name][2], "dbt_tests", "", t.name)>>)

(* Three snapshots bound the rows and the age, and show which columns keep   *)
(* to their values. A number that is not known is -1.                        *)
HistoricalStatsStrategy(w) ==
  LET known(s) == SelectSeq(s, LAMBDA x : x >= 0)
      rows == known([i \in DOMAIN w.stats |-> w.stats[i].rows])
      ages == known([i \in DOMAIN w.stats |-> w.stats[i].age])
      lists(c) == SelectSeq(w.stats, LAMBDA s : c \in DOMAIN s.values)
      check(c, kind, config, confidence) ==
        Check(w, c, kind, config, confidence, "historical_stats", "", config)
  IN When(Len(rows) >= 3,
          check(<<>>, "row_count_range",
                <<(Min(Range(rows)) * 8) \div 10, (Max(Range(rows)) * 12) \div 10>>, 7500))
     \o When(Len(ages) >= 3,
             check(<<>>, "freshness", Larger((Max(Range(ages)) * 3) \div 2, 1), 7500))
     \o Each(w.columns[w.table], LAMBDA c :
          LET l == lists(c)
          IN When(/\ Len(l) >= 3 /\ l[1].values[c] # {}
                  /\ \A i \in DOMAIN l : l[i].values[c] = l[1].values[c],
                  check(c, "enum_membership", l[1].values[c], 8000)))

SEMANTIC_TYPE_TO_CHECK_KINDS(type) ==
  CASE type \in {"email", "pii_ssn", "pii_credit_card", "uuid_v4", "uuid_v7", "business_id"} ->
         <<"not_null", "unique">>
    [] type \in {"pii_name", "phone_e164", "phone_us", "pii_address"} -> <<"not_null">>
    [] OTHER -> <<>>

(* w.types[c] are the confirmed types of the column c of the table.         *)
SemanticTypeQualityCheckStrategy(w) ==
  Each(w.columns[w.table], LAMBDA c : Each(w.types[c], LAMBDA r :
    Each(SEMANTIC_TYPE_TO_CHECK_KINDS(r.type), LAMBDA kind :
      <<Check(w, c, kind, {}, 8500, "semantic_type", r.id, r.id)>>)))

-----------------------------------------------------------------------------
(* Semantic types of one column.                                            *)

TypeOf(w, type, confidence, strategy, evidence) ==
  Proposal(<<w.table, w.column, type>>, type, "", confidence, strategy, evidence)

ColumnNameFingerprintStrategy(w) ==
  IF w.column \in StopNames["column_name"] THEN <<>>
  ELSE Each(NamedTypes[w.column], LAMBDA p : <<TypeOf(w, p[1], p[2], "column_name", p)>>)

ValuePatternFingerprintStrategy(w) ==
  LET values == w.samples[<<w.table, w.column>>]
  IN Each(ValueTypes, LAMBDA p :
       When(values # {} /\ Cardinality(values \cap p[1]) * 10 >= Cardinality(values) * 9,
            TypeOf(w, p[2], p[3], "value_pattern", p[2])))

(* The latest snapshot alone, when it knows the column.                     *)
DistributionFingerprintStrategy(w) ==
  IF w.stats = <<>> \/ w.column \notin DOMAIN Last(w.stats).shape THEN <<>>
  ELSE LET s == Last(w.stats).shape[w.column]
           rows == Last(w.stats).rows
           type(t, confidence) == TypeOf(w, t, confidence, "distribution", s)
       IN When(/\ rows > 0 /\ s.distinct >= 0
               /\ s.distinct * 100 >= rows * 99 /\ s.length \in 32 .. 36,
               type("uuid_v4", 8000))
          \o When(s.number = "float" /\ s.min >= 0 /\ s.max <= 1, type("metric_rate", 7000))
          \o When(/\ s.number = "int" /\ s.min >= 0
                  /\ s.median > 0 /\ s.mean * 2 > s.median * 3,
                  type("metric_count", 6500))

-----------------------------------------------------------------------------
(* Classifications of one column.                                           *)

Level(w, level, upstream, confidence, strategy, evidence) ==
  Proposal(<<w.table, w.column, level, strategy>>, level, upstream, confidence, strategy, evidence)

SEMANTIC_TYPE_TO_CLASSIFICATION(type) ==
  CASE type \in {"pii_credit_card", "pii_ssn"} -> <<"regulated", 9500>>
    [] type \in {"pii_name", "pii_address"} -> <<"pii", 9500>>
    [] type \in {"email", "phone_e164", "phone_us"} -> <<"pii", 9000>>
    [] type \in {"metric_count", "metric_amount", "metric_rate"} -> <<"internal", 7000>>
    [] type \in {"uuid_v4", "uuid_v7", "business_id"} -> <<"internal", 6000>>
    [] type \in {"country_iso", "language_iso", "currency_iso"} -> <<"public", 8500>>
    [] type \in {"iso_date", "iso_datetime", "unix_timestamp"} -> <<"internal", 5000>>
    [] OTHER -> <<"none", 0>>

(* Of the types that mean one level, a later one replaces the one held when  *)
(* it is surer than what the level of the one held is worth.                 *)
SemanticTypeClassificationStrategy(w) ==
  LET level(r) == SEMANTIC_TYPE_TO_CLASSIFICATION(r.type)[1]
      worth(r) == SEMANTIC_TYPE_TO_CLASSIFICATION(r.type)[2]
      hold(held, r) == IF \/ level(r) = "none"
                          \/ level(r) \in DOMAIN held /\ r.confidence <= worth(held[level(r)])
                       THEN held
                       ELSE (level(r) :> r) @@ held
      held == FoldLeft(hold, <<>>, w.types[w.column])
  IN Each(SetToSeq(DOMAIN held), LAMBDA l :
       <<Level(w, l, held[l].id, worth(held[l]), "semantic_type", held[l].id)>>)

NamingPatternClassificationStrategy(w) ==
  Each(NamedLevels[w.column], LAMBDA p : <<Level(w, p[1], "", p[2], "naming_pattern", p)>>)

(* The domains registered under a pack, in order of their ids.              *)
get_classification_default_for_table(w) == IF w.pack THEN w.domains ELSE <<>>

DomainDefaultClassificationStrategy(w) ==
  LET found == get_classification_default_for_table(w)
  IN When(found # <<>>,
          Level(w, Head(found).level, "", 6000, "domain_default", Head(found).id))

-----------------------------------------------------------------------------
(* Stitches of two columns a and b, records [source, table, column], in no   *)
(* order: the pair may be gathered either way round.                         *)

Stitch(w, kind, upstream, confidence, strategy, evidence) ==
  Proposal({w.a, w.b}, kind, upstream, confidence, strategy, evidence)

entity_kind_for_semantic_type(type) ==
  CASE type \in {"email", "phone_e164", "phone_us", "pii_name", "pii_address", "pii_ssn",
                 "pii_credit_card"} -> "person"
    [] type = "business_id" -> "organization"
    [] type = "metric_amount" -> "transaction"
    [] OTHER -> "other"

(* The surest record of each type of a that b has too, in order of a's.     *)
shared_semantic_types(types_a, types_b) ==
  LET keep(out, r) ==
        LET at == SelectInSeq(out, LAMBDA o : o.type = r.type)
        IN CASE at = 0 -> Append(out, r)
             [] at # 0 /\ r.confidence > out[at].confidence -> [out EXCEPT ![at] = r]
             [] OTHER -> out
  IN SelectSeq(FoldLeft(keep, <<>>, types_a),
               LAMBDA r : \E i \in DOMAIN types_b : types_b[i].type = r.type)

normalized_levenshtein_similarity(a, b) ==
  LET longest == Larger(Len(a), Len(b))
  IN 10000 - (10000 * levenshtein(a, b)) \div longest

NameMatchEntityStrategy(w, use_anchor) ==
  LET anchors == IF use_anchor THEN shared_semantic_types(w.types[w.a], w.types[w.b]) ELSE <<>>
      near == normalized_levenshtein_similarity(w.a.column, w.b.column)
  IN IF w.a = w.b THEN <<>>
     ELSE Each(anchors, LAMBDA r :
            <<Stitch(w, entity_kind_for_semantic_type(r.type), r.id, 9000, "name_match", r.id)>>)
          \o When(near >= 7000,
                  Stitch(w, "other", "", 6000 + (near - 7000) \div 2, "name_match", near))

SampleOverlapEntityStrategy(w) ==
  LET j == jaccard(w.samples[w.a], w.samples[w.b])
  IN When(j >= 5000, Stitch(w, "other", "", 5000 + ((j - 5000) * 7) \div 10, "sample_overlap", j))

(* The service composes this strategy with a lookup that knows no columns.  *)
SchemaShapeEntityStrategy(w) ==
  LET a == w.siblings[w.a.table]
      b == w.siblings[w.b.table]
      j == jaccard(a, b)
  IN When(/\ a # {} /\ b # {}
          /\ Cardinality(a) - Cardinality(b) \in -2 .. 2
          /\ j >= 5000 /\ w.a.column = w.b.column,
          Stitch(w, "other", "", 5000 + (j - 5000) \div 2, "schema_shape", j))

-----------------------------------------------------------------------------
(* Impacts of one change of a column. The readers know the source and the    *)
(* column's name: an edge of another table of the source comes along.        *)

Impact(w, kind, to, upstream, confidence, strategy, evidence) ==
  Proposal(<<w.change.table, w.change.column, w.change.kind, to>>, kind, upstream,
           confidence, strategy, evidence)
Itself(w) == <<w.change.table, w.change.column>>

IMPACT_KIND_FOR_CHANGE(kind) ==
  CASE kind = "column_dropped" -> "tgt_column_orphaned"
    [] kind = "column_type_changed" -> "tgt_column_type_mismatch"
    [] kind = "column_added" -> "tgt_column_unaware"

IMPACT_FACTOR(kind) ==
  CASE kind = "column_dropped" -> 90 [] kind = "column_type_changed" -> 85
    [] kind = "column_added" -> 50

LineageEdgeImpactStrategy(w, include_naming) ==
  Each(SelectSeq(w.edges, LAMBDA e : /\ include_naming \/ e.strategy = "dbt_manifest"
                                     /\ e.confidence >= 8500),
    LAMBDA e : <<Impact(w, IMPACT_KIND_FOR_CHANGE(w.change.kind), e.to, e.id,
                        (e.confidence * IMPACT_FACTOR(w.change.kind)) \div 100,
                        "lineage_edge", e.id)>>)

DBT_TEST_PROFILES ==
  ("not_null" :> 9500) @@ ("unique" :> 9500) @@ ("accepted_values" :> 8500)
  @@ ("relationships" :> 9000)

DbtTestImpactStrategy(w) ==
  LET factor == CASE w.change.kind = "column_dropped" -> 100
                  [] w.change.kind = "column_type_changed" -> 85
                  [] OTHER -> 0
  IN Each(SelectSeq(w.tests, LAMBDA t : /\ factor > 0 /\ t.name \in DOMAIN DBT_TEST_PROFILES
                                        /\ t.column \in {<<>>, w.change.column}),
       LAMBDA t : <<Impact(w, "dbt_test_breakage", Itself(w), "",
                           (DBT_TEST_PROFILES[t.name] * factor) \div 100, "dbt_test", t.name)>>)

type_transition_confidence(old, new) ==
  CASE <<old, new>> \in {<<"int", "varchar">>, <<"numeric", "varchar">>, <<"bool", "varchar">>} -> 8500
    [] <<old, new>> = <<"int", "numeric">> -> 9000
    [] <<old, new>> = <<"timestamp", "varchar">> -> 8000
    [] <<old, new>> \in {<<"varchar", "timestamp">>, <<"varchar", "bool">>} -> 6500
    [] OTHER -> 7000

TypeCoercionImpactStrategy(w) ==
  IF w.change.kind # "column_type_changed" THEN <<>>
  ELSE Each(w.edges, LAMBDA e :
         <<Impact(w, "type_coercion_required", e.to, e.id,
                  type_transition_confidence(w.change.old, w.change.new), "type_coercion", e.id)>>)

SEVERITY_RANK(level) ==
  CASE level = "regulated" -> 3 [] level \in {"pii", "confidential"} -> 2
    [] level = "internal" -> 1 [] OTHER -> 0

GOVERNANCE_PROFILES ==
  ("regulated" :> <<"critical", 9500>>) @@ ("pii" :> <<"high", 9000>>)
  @@ ("confidential" :> <<"high", 9000>>)

(* Fault: the first level that was confirmed counts, not the severest.      *)
FirstLevel(w) ==
  LET own == SelectSeq(w.levels, LAMBDA r : r.table = w.change.table)
  IN IF own = <<>> THEN <<>> ELSE <<Head(own).level>>

(* The severest level confirmed for the column of this table.               *)
severest(w) ==
  LET own == SelectSeq(w.levels, LAMBDA r : r.table = w.change.table)
      sorted == SortSeq(own, LAMBDA r, s : SEVERITY_RANK(r.level) > SEVERITY_RANK(s.level))
  IN IF own = <<>> THEN <<>> ELSE <<Head(sorted).level>>

GovernanceClassificationImpactStrategy(w) ==
  Each(SelectSeq(severest(w), LAMBDA l : l \in DOMAIN GOVERNANCE_PROFILES), LAMBDA l :
    <<Impact(w, IMPACT_KIND_FOR_CHANGE(w.change.kind), Itself(w), "",
             GOVERNANCE_PROFILES[l][2], "governance_classification", GOVERNANCE_PROFILES[l][1])>>)

SemanticTypeImpactStrategy(w) ==
  LET records == w.types[w.change.column]
  IN When(records # <<>>,
          Impact(w, IMPACT_KIND_FOR_CHANGE(w.change.kind), Itself(w), "", 9000,
                 "semantic_type", Head(records).id))

AcknowledgedDriftImpactStrategy(w) ==
  When(w.drifts # <<>>,
       Impact(w, IMPACT_KIND_FOR_CHANGE(w.change.kind), Itself(w), "", 9200,
              "acknowledged_drift", Head(w.drifts)))

-----------------------------------------------------------------------------
(* Drifts between two snapshots of a source: functions from tables to        *)
(* functions from columns to types. A type that is not known is "".          *)

NoBaseline == [none |-> TRUE]

Drift(table, column, kind, before, after, confidence, strategy) ==
  Proposal(<<table, column, kind, before, after>>, kind, "", confidence, strategy, kind)

TableSetDriftStrategy(w) ==
  IF w.baseline = NoBaseline THEN <<>>
  ELSE LET now == DOMAIN w.current
           then == DOMAIN w.baseline
       IN Each(SetToSeq(now \ then), LAMBDA t :
            <<Drift(t, <<>>, "table_added", "", t, 9000, "table_set")>>)
          \o Each(SetToSeq(then \ now), LAMBDA t :
               <<Drift(t, <<>>, "table_removed", t, "", 9000, "table_set")>>)

InBoth(w) == SetToSeq(DOMAIN w.current \cap DOMAIN w.baseline)

ColumnSetDriftStrategy(w) ==
  IF w.baseline = NoBaseline THEN <<>>
  ELSE Each(InBoth(w), LAMBDA t :
         LET now == DOMAIN w.current[t]
             then == DOMAIN w.baseline[t]
         IN Each(SetToSeq(now \ then), LAMBDA c :
              <<Drift(t, c, "column_added", "", c, 8500, "column_set")>>)
            \o Each(SetToSeq(then \ now), LAMBDA c :
                 <<Drift(t, c, "column_removed", c, "", 8500, "column_set")>>))

ColumnTypeDriftStrategy(w) ==
  IF w.baseline = NoBaseline THEN <<>>
  ELSE Each(InBoth(w), LAMBDA t :
         Each(SetToSeq(DOMAIN w.current[t] \cap DOMAIN w.baseline[t]), LAMBDA c :
           When(/\ "" \notin {w.baseline[t][c], w.current[t][c]}
                /\ w.baseline[t][c] # w.current[t][c],
                Drift(t, c, "column_type_changed", w.baseline[t][c], w.current[t][c], 8000,
                      "column_type"))))

-----------------------------------------------------------------------------
(* Sources worth connecting.                                                *)

Candidate(kind, about, confidence, strategy, evidence) ==
  Proposal(<<kind, about, strategy>>, kind, "", confidence, strategy, evidence)

KpiGapAcquisitionStrategy(w) ==
  Each(SelectSeq(w.kpis, LAMBDA k : ~k.sourced), LAMBDA k :
    <<Candidate(KpiKinds[k.name][1], k.name, KpiKinds[k.name][2], "kpi_gap", k.id)>>)

(* Mentions of one kind in the messages that may be read count together.    *)
ChannelMentionAcquisitionStrategy(w) ==
  LET read == SelectSeq(w.chats, LAMBDA m : m.level \notin {"pii", "regulated"})
      of(kind) == {i \in DOMAIN read : \E x \in read[i].mentions : x[1] = kind}
      kinds == UNION {{x[1] : x \in read[i].mentions} : i \in DOMAIN read}
      sure(kind) == \E i \in of(kind) : <<kind, "high">> \in read[i].mentions
  IN Each(SetToSeq(kinds), LAMBDA k :
       <<Candidate(k, k, IF sure(k) THEN 7500 ELSE 5500, "channel_mention", of(k))>>)

(* A portfolio all of one side, or without a file source.                   *)
ComplementaritySourceStrategy(w) ==
  LET kinds == {s.kind : s \in Range(w.connected)}
      domains == {s.domain : s \in Range(w.connected)} \ {""}
      allIn(tokens) == domains # {} /\ domains \subseteq tokens
      gap(kind, about, confidence) == Candidate(kind, about, confidence, "complementarity", kinds)
  IN When(allIn({"sales", "revenue"}) /\ kinds \cap {"hubspot", "gsheets"} = {},
          gap("hubspot", "marketing-gap", 5500))
     \o When(allIn({"finance", "ops"}) /\ kinds \cap {"postgres", "mcp:notion"} = {},
             gap("postgres", "product-gap", 5500))
     \o When(Len(w.connected) >= 3 /\ kinds \cap {"csv_local", "s3_csv", "http_csv"} = {},
             gap("csv_local", "file-drop-gap", 4500))
=============================================================================
