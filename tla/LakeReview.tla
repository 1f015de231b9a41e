----------------------------- MODULE LakeReview ------------------------------
(***************************************************************************)
(* What the lake axes propose and what admins decide about it. Eight        *)
(* families of proposals share one life cycle: the worm proposes a subject,  *)
(* an admin confirms (promotes, acknowledges) or rejects it, and two folds   *)
(* of the ledger tell the outcome: the projection of builder.py, behind the  *)
(* dashboard, and the ledger-walking readers of worm-core, behind the        *)
(* strategies that use what another family settled.                          *)
(*                                                                          *)
(* A cycle is one step (module Ledger). A subject is <<family, about>>.      *)
(***************************************************************************)
EXTENDS Integers, FiniteSets, Sequences

CONSTANTS
  Columns,    \* records of source, table and column
  Kinds,      \* kinds of a change, a check, a type, a level, a drift
  Candidates, \* source candidates
  Admins,     \* concurrent requests
  Families,   \* the families in use
  MaxReviews, \* bound on admin requests
  NoSource    \* no downstream source

ASSUME ReviewsAssumption == MaxReviews \in Nat
ASSUME NoSourceAssumption == NoSource \notin Nat

VARIABLES
  rows,      \* projection: the state of each subject
  view,      \* the readers' fold of the same entries
  link,      \* projection: downstream_source_proposed_id
  sources,   \* source_proposed cycles written for a candidate
  promoting, \* promotions in flight
  reviews,   \* requests so far
  answered,  \* history: what the last answered review of a subject said
  linked     \* history: candidates whose promotion answered with a source

reviewVars == <<rows, view, link, sources, promoting, reviews, answered, linked>>

Subjects(f) ==
  CASE f = "lineage_edge" -> {e \in Columns \X Columns : e[1].source # e[2].source}
    [] f = "schema_impact" -> Columns \X Kinds \X Columns
    [] f = "entity_stitch" -> {{e[1], e[2]} : e \in {x \in Columns \X Columns :
                                                       x[1].source # x[2].source}}
    [] f = "source_candidate" -> Candidates
    [] f \in {"quality_check", "semantic_type", "column_classification", "catalog_drift"} ->
         Columns \X Kinds

(* A subject has a row, or its absence, from the first.                     *)
Ids == DOMAIN rows
Of(f) == {i \in Ids : i[1] = f}
Read == {"lineage_edge", "semantic_type", "column_classification", "catalog_drift"}
Settled == {"confirmed", "promoted", "acknowledged", "rejected"}
Free == [of |-> <<>>, source |-> NoSource]

ReviewInit ==
  /\ rows = [i \in UNION {{f} \X Subjects(f) : f \in Families} |-> "none"] /\ view = rows
  /\ link = [i \in Ids |-> NoSource] /\ sources = [i \in Ids |-> 0]
  /\ promoting = [a \in Admins |-> Free]
  /\ reviews = 0
  /\ answered = [i \in Ids |-> "none"] /\ linked = {}

-----------------------------------------------------------------------------
(* The projection.                                                          *)

(* Fault: a proposal that comes again opens the row again.                  *)
ReopensRow(i) == rows' = [rows EXCEPT ![i] = "proposed"]

(* A proposal makes the row or refreshes it, whatever was decided.          *)
MakeRow(i) == rows' = [rows EXCEPT ![i] = IF @ = "none" THEN "proposed" ELSE @]

(* A decision about a row that is not there is skipped.                     *)
SetRow(i, s) == rows' = [rows EXCEPT ![i] = IF @ = "none" THEN @ ELSE s]

lineage_edge_proposed(i) == MakeRow(i)
lineage_edge_confirmed(i) == SetRow(i, "confirmed")
lineage_edge_rejected(i) == SetRow(i, "rejected")

quality_check_proposed(i) == MakeRow(i)
quality_check_confirmed(i) == SetRow(i, "confirmed")
quality_check_rejected(i) == SetRow(i, "rejected")

schema_impact_proposed(i) == MakeRow(i)
schema_impact_confirmed(i) == SetRow(i, "confirmed")
schema_impact_rejected(i) == SetRow(i, "rejected")

semantic_type_proposed(i) == MakeRow(i)
semantic_type_confirmed(i) == SetRow(i, "confirmed")
semantic_type_rejected(i) == SetRow(i, "rejected")

column_classification_proposed(i) == MakeRow(i)
column_classification_confirmed(i) == SetRow(i, "confirmed")
column_classification_rejected(i) == SetRow(i, "rejected")

entity_stitch_proposed(i) == MakeRow(i)
entity_stitch_confirmed(i) == SetRow(i, "confirmed")
entity_stitch_rejected(i) == SetRow(i, "rejected")

catalog_drift_proposed(i) == MakeRow(i)
catalog_drift_acknowledged(i) == SetRow(i, "acknowledged")
catalog_drift_rejected(i) == SetRow(i, "rejected")

source_candidate_proposed(i) == MakeRow(i)
source_candidate_rejected(i) == SetRow(i, "rejected")

(* A promotion whose source could not be proposed leaves the link alone.    *)
source_candidate_promoted(i, s) ==
  /\ SetRow(i, "promoted")
  /\ link' = [link EXCEPT ![i] = IF rows[i] = "none" \/ s = NoSource THEN @ ELSE s]

-----------------------------------------------------------------------------
(* The readers, which fold the same entries as they walk the ledger.        *)

Seeds(i) == view' = [view EXCEPT ![i] = IF @ = "none" THEN "proposed" ELSE @]

Flips(i, s) == view' = [view EXCEPT ![i] = IF @ = "none" THEN @ ELSE s]

(* Fault: a proposal that comes again overwrites the state, as the drift    *)
(* reader does.                                                             *)
OverwritesState(i) == view' = [view EXCEPT ![i] = "proposed"]

LineageEdgeReader(i) == Seeds(i)
ConfirmedSemanticTypeReader(i) == Seeds(i)
ConfirmedClassificationReader(i) == Seeds(i)

(* A proposal that comes again is a new drift to this reader alone.         *)
AcknowledgedDriftReader(i) == view' = [view EXCEPT ![i] = "proposed"]

(* No reader walks the entries of the other families.                       *)
ReadProposal(i) ==
  CASE i[1] = "lineage_edge" -> LineageEdgeReader(i)
    [] i[1] = "semantic_type" -> ConfirmedSemanticTypeReader(i)
    [] i[1] = "column_classification" -> ConfirmedClassificationReader(i)
    [] i[1] = "catalog_drift" -> AcknowledgedDriftReader(i)
    [] OTHER -> UNCHANGED view

-----------------------------------------------------------------------------
(* The admin's requests. A handler looks for a proposal in the ledger, and   *)
(* answers 404 when there is none; entries are never removed, so what it     *)
(* found still holds when it writes.                                         *)

proposed_exists(i) == rows[i] # "none"

Review(i, s) ==
  /\ reviews < MaxReviews
  /\ proposed_exists(i)
  /\ Flips(i, s)
  /\ answered' = [answered EXCEPT ![i] = s]
  /\ reviews' = reviews + 1
  /\ UNCHANGED <<sources, promoting, linked>>

confirm_lineage_edge(i) == lineage_edge_confirmed(i) /\ UNCHANGED link
reject_lineage_edge(i) == lineage_edge_rejected(i) /\ UNCHANGED link
post_lineage_edge_confirm(i) == Review(i, "confirmed") /\ confirm_lineage_edge(i)
post_lineage_edge_reject(i) == Review(i, "rejected") /\ reject_lineage_edge(i)

confirm_quality_check(i) == quality_check_confirmed(i) /\ UNCHANGED link
reject_quality_check(i) == quality_check_rejected(i) /\ UNCHANGED link
post_quality_check_confirm(i) == Review(i, "confirmed") /\ confirm_quality_check(i)
post_quality_check_reject(i) == Review(i, "rejected") /\ reject_quality_check(i)

confirm_schema_impact(i) == schema_impact_confirmed(i) /\ UNCHANGED link
reject_schema_impact(i) == schema_impact_rejected(i) /\ UNCHANGED link
post_schema_impact_confirm(i) == Review(i, "confirmed") /\ confirm_schema_impact(i)
post_schema_impact_reject(i) == Review(i, "rejected") /\ reject_schema_impact(i)

confirm_semantic_type(i) == semantic_type_confirmed(i) /\ UNCHANGED link
reject_semantic_type(i) == semantic_type_rejected(i) /\ UNCHANGED link
post_semantic_type_confirm(i) == Review(i, "confirmed") /\ confirm_semantic_type(i)
post_semantic_type_reject(i) == Review(i, "rejected") /\ reject_semantic_type(i)

confirm_column_classification(i) == column_classification_confirmed(i) /\ UNCHANGED link
reject_column_classification(i) == column_classification_rejected(i) /\ UNCHANGED link
post_column_classification_confirm(i) == Review(i, "confirmed") /\ confirm_column_classification(i)
post_column_classification_reject(i) == Review(i, "rejected") /\ reject_column_classification(i)

confirm_entity_stitch(i) == entity_stitch_confirmed(i) /\ UNCHANGED link
reject_entity_stitch(i) == entity_stitch_rejected(i) /\ UNCHANGED link
post_entity_stitch_confirm(i) == Review(i, "confirmed") /\ confirm_entity_stitch(i)
post_entity_stitch_reject(i) == Review(i, "rejected") /\ reject_entity_stitch(i)

acknowledge_catalog_drift(i) == catalog_drift_acknowledged(i) /\ UNCHANGED link
reject_catalog_drift(i) == catalog_drift_rejected(i) /\ UNCHANGED link
post_catalog_drift_acknowledge(i) == Review(i, "acknowledged") /\ acknowledge_catalog_drift(i)
post_catalog_drift_reject(i) == Review(i, "rejected") /\ reject_catalog_drift(i)

reject_source_candidate(i) == source_candidate_rejected(i) /\ UNCHANGED link
post_source_candidate_reject(i) == Review(i, "rejected") /\ reject_source_candidate(i)

(* A promotion proposes the source, or fails to, and then writes the         *)
(* promotion; the two are separate cycles.                                   *)
post_source_candidate_promote(a, i) ==
  /\ promoting[a] = Free /\ reviews < MaxReviews
  /\ proposed_exists(i)
  /\ \/ /\ sources' = [sources EXCEPT ![i] = @ + 1]
        /\ promoting' = [promoting EXCEPT ![a] = [of |-> i, source |-> sources[i]]]
     \/ /\ promoting' = [promoting EXCEPT ![a] = [of |-> i, source |-> NoSource]]
        /\ UNCHANGED sources
  /\ reviews' = reviews + 1
  /\ UNCHANGED <<rows, view, link, answered, linked>>

promote_source_candidate(a) ==
  LET p == promoting[a] IN
  /\ p # Free
  /\ source_candidate_promoted(p.of, p.source)
  /\ Flips(p.of, "promoted")
  /\ answered' = [answered EXCEPT ![p.of] = "promoted"]
  /\ linked' = IF p.source = NoSource THEN linked ELSE linked \cup {p.of}
  /\ promoting' = [promoting EXCEPT ![a] = Free]
  /\ UNCHANGED <<sources, reviews>>

(* The request dies between the two cycles.                                 *)
PromotionDies(a) ==
  /\ promoting[a] # Free
  /\ promoting' = [promoting EXCEPT ![a] = Free]
  /\ UNCHANGED <<rows, view, link, sources, reviews, answered, linked>>

AdminStep ==
  \/ \E i \in Of("lineage_edge") : post_lineage_edge_confirm(i) \/ post_lineage_edge_reject(i)
  \/ \E i \in Of("quality_check") : post_quality_check_confirm(i) \/ post_quality_check_reject(i)
  \/ \E i \in Of("schema_impact") : post_schema_impact_confirm(i) \/ post_schema_impact_reject(i)
  \/ \E i \in Of("semantic_type") : post_semantic_type_confirm(i) \/ post_semantic_type_reject(i)
  \/ \E i \in Of("column_classification") : post_column_classification_confirm(i) \/ post_column_classification_reject(i)
  \/ \E i \in Of("entity_stitch") : post_entity_stitch_confirm(i) \/ post_entity_stitch_reject(i)
  \/ \E i \in Of("catalog_drift") : post_catalog_drift_acknowledge(i) \/ post_catalog_drift_reject(i)
  \/ \E i \in Of("source_candidate") : post_source_candidate_reject(i)
  \/ \E a \in Admins :
       \/ \E i \in Of("source_candidate") : post_source_candidate_promote(a, i)
       \/ promote_source_candidate(a)
       \/ PromotionDies(a)

-----------------------------------------------------------------------------
ReviewTypeOK ==
  /\ {rows[i] : i \in Ids} \cup {view[i] : i \in Ids} \cup {answered[i] : i \in Ids}
       \subseteq Settled \cup {"none", "proposed"}
  /\ \A i \in Ids : link[i] \in 0 .. sources[i] - 1 \cup {NoSource}
  /\ \A a \in Admins : promoting[a] = Free \/ promoting[a].of \in Of("source_candidate")
  /\ reviews \in 0 .. MaxReviews
  /\ linked \subseteq Of("source_candidate")

(* The dashboard shows the verdict the last admin was told was recorded,    *)
(* however often the worm proposes the subject again (post_*_confirm and    *)
(* post_*_reject against the folds of builder.py).                          *)
AnswerStands == \A i \in Ids : answered[i] # "none" => rows[i] = answered[i]

(* "Walking the ledger yields the same result as querying the projection"   *)
(* (the readers of worm-core): no strategy acts on a verdict the dashboard  *)
(* does not show, and none misses one it shows; the reader of drifts alone   *)
(* may still wait for the verdict on a drift that was proposed again.        *)
ReadersAgree ==
  \A i \in {j \in Ids : j[1] \in Read} :
    \/ view[i] = rows[i]
    \/ i[1] = "catalog_drift" /\ rows[i] # "none" /\ view[i] = "proposed"

(* A candidate whose promotion answered with a downstream source keeps a    *)
(* link to one, whatever promotions fail after it.                          *)
DownstreamKept == \A i \in linked : link[i] # NoSource
=============================================================================
