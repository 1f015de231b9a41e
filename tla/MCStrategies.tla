----------------------------- MODULE MCStrategies -----------------------------
(***************************************************************************)
(* The inference services asked about small worlds: names of a few letters    *)
(* that are equal, near, one the end of another or unlike; columns whose      *)
(* samples agree in part; confirmed types and levels that compete; a change   *)
(* of each kind; and snapshots of which each knows something the other does   *)
(* not.                                                                      *)
(***************************************************************************)
EXTENDS LakeServices

Id     == <<"i", "d">>
Email  == <<"m", "a", "i", "l">>
Mails  == <<"m", "a", "i", "l", "s">>
UMail  == <<"u", "_", "m", "a", "i", "l">>
Liam   == <<"l", "i", "a", "m">>
Amlis  == <<"a", "m", "l", "i", "s">>
SeenAt == <<"t", "_", "a", "t">>
Names  == {Id, Email, Mails, UMail, Liam, Amlis, SeenAt}

MCStopNames == [s \in {"naming_heuristic", "schema_pattern", "column_name"} |-> {Id}]
MCIdNames   == {Id}
MCTimeNames == {SeenAt}
MCNamedTypes == [n \in Names |->
  IF n \in {Email, Mails} THEN <<<<"email", 9000>>, <<"business_id", 7000>>>> ELSE <<>>]
MCNamedLevels == [n \in Names |->
  IF n \in {Email, Mails} THEN <<<<"pii", 8500>>, <<"internal", 5500>>>> ELSE <<>>]
MCValueTypes == <<<<{"x@y", "z@y"}, "email", 9000>>, <<{"7", "8"}, "metric_count", 6500>>>>
MCKpiKinds == [k \in {"revenue", "other"} |->
  IF k = "revenue" THEN <<"postgres", 7000>> ELSE <<"gsheets", 4000>>]

MCAxes == {"lineage", "quality", "schema_impact", "fingerprint", "column_classification",
           "entity_stitch", "source_candidate", "catalog_drift"}

-----------------------------------------------------------------------------
MCSamples == [p \in {"t", "u"} \X Names |->
  IF p[2] = Id THEN {"1"}
  ELSE IF p[1] = "t" THEN {"x@y", "z@y", "q"} ELSE {"x@y", "z@y"}]

LineageWorlds ==
  {[table |-> "t", targets |-> <<"t", "u">>, columns |-> ("t" :> <<x, Id>>) @@ ("u" :> <<y, Id>>),
    samples |-> MCSamples, huge |-> h, richness |-> 2, refs |-> <<"u">>, source_kind |-> k] :
     x \in {Email}, y \in {Email, Mails, UMail, Liam}, h \in {{}, {"u"}}, k \in {"dbt", "postgres"}}

Snapshot(rows, values) ==
  [rows |-> rows, age |-> rows, values |-> (Email :> values),
   shape |-> (Email :> [distinct |-> 9, length |-> 34, number |-> "int", min |-> 0, max |-> 1,
                        mean |-> 8, median |-> 4])]
MCStats == <<Snapshot(9, {"a"}), Snapshot(7, {"a"}), Snapshot(9, {"a"})>>

QualityWorlds ==
  {[table |-> "t", columns |-> ("t" :> <<Email, Id, SeenAt>>), source_kind |-> k, stats |-> s,
    meta |-> [c \in {Email, Id, SeenAt} |->
                [type |-> IF c = SeenAt THEN "time" ELSE "varchar", nullable |-> "no",
                 nulls |-> n, distinct |-> n]],
    tests |-> <<[name |-> "not_null", column |-> Email, config |-> {}],
                [name |-> "accepted_values", column |-> Email, config |-> {"a"}],
                [name |-> "dbt_utils.test_freshness", column |-> <<>>, config |-> {6, 12}],
                [name |-> "dbt_utils.row_count", column |-> <<>>, config |-> <<1, 9>>],
                [name |-> "relationships", column |-> Email, config |-> {}]>>,
    types |-> [c \in {Email, Id, SeenAt} |->
                 IF c = Email THEN <<[id |-> "y1", type |-> "email", confidence |-> 9000]>>
                 ELSE <<>>]] :
     k \in {"dbt", "postgres"}, s \in {<<>>, MCStats, Tail(MCStats)}, n \in {0, 2}}

FingerprintWorlds ==
  {[table |-> "t", column |-> c, samples |-> [p \in {<<"t", c>>} |-> v], stats |-> s] :
     c \in {Email, Id}, v \in {{}, {"x@y", "z@y"}, {"x@y", "7"}}, s \in {<<>>, MCStats}}

Confirmed(id, type, confidence) == [id |-> id, type |-> type, confidence |-> confidence]
MCTypes == {
  <<>>,
  <<Confirmed("y1", "email", 8000), Confirmed("y2", "pii_name", 9800)>>,
  <<Confirmed("y1", "pii_name", 9600), Confirmed("y2", "email", 9700),
    Confirmed("y3", "email", 9600)>>,
  <<Confirmed("y1", "business_id", 9000), Confirmed("y2", "email", 9000),
    Confirmed("y3", "uuid_v4", 9900)>>}

ClassificationWorlds ==
  {[table |-> "t", column |-> c, types |-> (c :> t), pack |-> p,
    domains |-> <<[id |-> "d1", level |-> l], [id |-> "d2", level |-> "public"]>>] :
     c \in {Email, Id}, t \in MCTypes, p \in BOOLEAN, l \in {"pii", "internal"}}

Col(table, column) == [source |-> "s", table |-> table, column |-> column]
StitchWorlds ==
  {[a |-> Col("t", p[1]), b |-> Col("u", p[2]),
    samples |-> (Col("t", p[1]) :> {"1", "2", "3"}) @@ (Col("u", p[2]) :> v),
    siblings |-> ("t" :> {"p", "q"}) @@ ("u" :> g),
    types |-> (Col("t", p[1]) :> t) @@ (Col("u", p[2]) :> <<Confirmed("y9", "email", 7000)>>)] :
     p \in {<<Email, Email>>, <<Email, Mails>>, <<Mails, Email>>, <<Email, UMail>>,
            <<Liam, Email>>, <<Amlis, Mails>>, <<Id, UMail>>, <<SeenAt, Liam>>},
     v \in {{}, {"1", "2"}}, g \in {{}, {"p", "q", "r"}}, t \in {<<>>, <<Confirmed("y1", "email", 9000)>>}}

Confirm(table, level) == [table |-> table, level |-> level]
ImpactWorlds ==
  {[change |-> [table |-> "t", column |-> Email, kind |-> k[1], old |-> k[2], new |-> k[3]],
    edges |-> <<[id |-> "e1", to |-> <<"u", Email>>, confidence |-> 9900, strategy |-> "dbt_manifest"],
                [id |-> "e2", to |-> <<"u", Email>>, confidence |-> 9000, strategy |-> "naming_heuristic"],
                [id |-> "e3", to |-> <<"v", Mails>>, confidence |-> 7000, strategy |-> "naming_heuristic"]>>,
    tests |-> <<[name |-> "unique", column |-> Email], [name |-> "accepted_values", column |-> <<>>],
                [name |-> "not_null", column |-> Mails]>>,
    levels |-> l, types |-> (Email :> t), drifts |-> d] :
     k \in {<<"column_dropped", "varchar", "">>, <<"column_added", "", "varchar">>,
            <<"column_type_changed", "int", "varchar">>},
     l \in {<<Confirm("t", "public"), Confirm("t", "pii"), Confirm("t", "regulated")>>,
            <<Confirm("u", "regulated"), Confirm("t", "confidential")>>,
            <<Confirm("t", "internal")>>},
     t \in {<<>>, <<Confirmed("y1", "email", 9000)>>}, d \in {<<>>, <<"d1">>}}

CandidateWorlds ==
  {[kpis |-> <<[id |-> "k1", name |-> "revenue", sourced |-> FALSE],
               [id |-> "k2", name |-> "other", sourced |-> s]>>,
    chats |-> <<[mentions |-> {<<"hubspot", "low">>}, level |-> "internal"],
                [mentions |-> {<<"hubspot", "high">>, <<"gsheets", "low">>}, level |-> l]>>,
    connected |-> [i \in 1 .. 3 |-> [kind |-> c[i], domain |-> c[4]]]] :
     s \in BOOLEAN, l \in {"public", "pii"},
     c \in {<<"postgres", "postgres", "s3_csv", "sales">>, <<"hubspot", "gsheets", "hubspot", "ops">>,
            <<"postgres", "postgres", "postgres", "">>}}

Schemas == {
  "t" :> ((Email :> "varchar") @@ (Id :> "int")),
  ("t" :> ((Email :> "") @@ (Id :> "bigint") @@ (Liam :> "int"))) @@ ("u" :> (Id :> "int")),
  ("u" :> (Id :> "varchar")) @@ ("v" :> (Id :> ""))}

DriftWorlds == {[current |-> c, baseline |-> b] : c \in Schemas, b \in Schemas \cup {NoBaseline}}

MCWorlds == [a \in MCAxes |->
  CASE a = "lineage" -> LineageWorlds
    [] a = "quality" -> QualityWorlds
    [] a = "schema_impact" -> ImpactWorlds
    [] a = "fingerprint" -> FingerprintWorlds
    [] a = "column_classification" -> ClassificationWorlds
    [] a = "entity_stitch" -> StitchWorlds
    [] a = "source_candidate" -> CandidateWorlds
    [] a = "catalog_drift" -> DriftWorlds]
=============================================================================
