----------------------------- MODULE LakeProofs -----------------------------
(***************************************************************************)
(* Proofs about LakeReview and LakeDiscovery, for any columns, kinds,        *)
(* candidates, admins, families and axes: what the dashboard shows is the    *)
(* last verdict, the readers of the ledger agree with it, and what rests on  *)
(* a type rests on one an admin decided about.                              *)
(***************************************************************************)
EXTENDS LakeDiscovery, TLAPS

RowStates == Settled \cup {"none", "proposed"}

(* The axes whose strategies read confirmed types.                          *)
Resting == {"quality_check", "column_classification"}

(* What a proposal of these axes may say.                                   *)
Rests(x) ==
  x[2] \notin Guessed =>
    <<"semantic_type", x>> \in Ids /\ rows[<<"semantic_type", x>>] \in Settled

Maps ==
  /\ rows \in [Ids -> RowStates] /\ view \in [Ids -> RowStates] /\ answered \in [Ids -> RowStates]
  /\ DOMAIN promoting = Admins
  /\ DOMAIN fire = {"axis", "todo", "trigger", "emits"}

(* A promotion in flight is of a candidate that was proposed.               *)
PromotesProposed ==
  \A a \in Admins : promoting[a] # Free =>
    promoting[a].of \in Ids /\ rows[promoting[a].of] # "none"

(* An axis that read confirmed types while one of them may be rejected       *)
(* holds proposals that rest on a type decided about.                       *)
FireRests == fire.axis \in Resting => \A x \in fire.emits : Rests(x)

RowsRest == \A i \in Ids : i[1] \in Resting /\ rows[i] # "none" => Rests(i[2])

IInv == Maps /\ PromotesProposed /\ FireRests /\ RowsRest /\ AnswerStands /\ ReadersAgree

-----------------------------------------------------------------------------
(* What is settled stays settled and what is there stays there.             *)
Onward ==
  \A i \in Ids : /\ rows[i] # "none" => rows'[i] # "none"
                 /\ rows[i] \in Settled => rows'[i] \in Settled

(* A proposal of i, as the projection and the readers fold it.              *)
LEMMA ProposalKeeps ==
  ASSUME IInv, NEW i, MakeRow(i), ReadProposal(i), UNCHANGED answered
  PROVE  /\ rows' \in [Ids -> RowStates] /\ view' \in [Ids -> RowStates] /\ Ids' = Ids
         /\ Onward /\ \A j \in Ids : j # i => rows'[j] = rows[j]
         /\ AnswerStands' /\ ReadersAgree'
<1>1. /\ rows \in [Ids -> RowStates] /\ view \in [Ids -> RowStates]
      /\ AnswerStands /\ ReadersAgree
  BY DEF IInv, Maps
<1>2. rows' = [rows EXCEPT ![i] = IF rows[i] = "none" THEN "proposed" ELSE rows[i]]
  BY DEF MakeRow
<1>3. /\ rows' \in [Ids -> RowStates] /\ Ids' = Ids
      /\ \A j \in Ids : j # i => rows'[j] = rows[j]
      /\ \A j \in Ids : rows'[j] = (IF rows[j] = "none" /\ j = i THEN "proposed" ELSE rows[j])
  BY <1>1, <1>2 DEF RowStates, Settled, Ids
<1>4. \/ i[1] \in Read \ {"catalog_drift"}
         /\ view' = [view EXCEPT ![i] = IF view[i] = "none" THEN "proposed" ELSE view[i]]
      \/ i[1] = "catalog_drift" /\ view' = [view EXCEPT ![i] = "proposed"]
      \/ i[1] \notin Read /\ view' = view
  BY DEF ReadProposal, LineageEdgeReader, ConfirmedSemanticTypeReader,
         ConfirmedClassificationReader, AcknowledgedDriftReader, Seeds, Read
<1>5. view' \in [Ids -> RowStates] /\ \A j \in Ids : j # i => view'[j] = view[j]
  BY <1>1, <1>4 DEF RowStates, Settled
<1>6. Onward BY <1>3 DEF Onward, Settled
<1>7. AnswerStands' BY <1>1, <1>3 DEF AnswerStands
<1>8. ReadersAgree'
  <2> SUFFICES ASSUME NEW j \in Ids, j[1] \in Read
               PROVE  \/ view'[j] = rows'[j]
                      \/ j[1] = "catalog_drift" /\ rows'[j] # "none" /\ view'[j] = "proposed"
    BY <1>3 DEF ReadersAgree
  <2>1. \/ view[j] = rows[j]
        \/ j[1] = "catalog_drift" /\ rows[j] # "none" /\ view[j] = "proposed"
    BY <1>1 DEF ReadersAgree
  <2>2. CASE j # i BY <2>1, <2>2, <1>3, <1>5
  <2>3. CASE j = i /\ j[1] # "catalog_drift"
    <3>1. view'[j] = IF view[j] = "none" THEN "proposed" ELSE view[j] BY <2>3, <1>1, <1>4
    <3> QED BY <3>1, <2>1, <2>3, <1>3
  <2>4. CASE j = i /\ j[1] = "catalog_drift"
    <3>1. view'[j] = "proposed" BY <2>4, <1>1, <1>4 DEF Read
    <3> QED BY <3>1, <2>4, <1>3
  <2> QED BY <2>2, <2>3, <2>4
<1> QED BY <1>3, <1>5, <1>6, <1>7, <1>8

(* A decision about i.                                                      *)
LEMMA DecisionKeeps ==
  ASSUME IInv, NEW i \in Ids, rows[i] # "none", NEW s \in Settled, SetRow(i, s), Flips(i, s),
         answered' = [answered EXCEPT ![i] = s]
  PROVE  /\ rows' \in [Ids -> RowStates] /\ view' \in [Ids -> RowStates]
         /\ answered' \in [Ids -> RowStates] /\ Ids' = Ids
         /\ Onward /\ \A j \in Ids : rows[j] = "none" => rows'[j] = "none"
         /\ AnswerStands' /\ ReadersAgree'
<1>1. /\ rows \in [Ids -> RowStates] /\ view \in [Ids -> RowStates] /\ answered \in [Ids -> RowStates]
      /\ AnswerStands /\ ReadersAgree /\ s # "none"
  BY DEF IInv, Maps, Settled
<1>2. rows' = [rows EXCEPT ![i] = s] BY DEF SetRow
<1>3. view' = [view EXCEPT ![i] = IF view[i] = "none" THEN view[i] ELSE s] BY DEF Flips
<1>4. /\ rows' \in [Ids -> RowStates] /\ Ids' = Ids /\ answered' \in [Ids -> RowStates]
      /\ \A j \in Ids : rows'[j] = IF j = i THEN s ELSE rows[j]
      /\ \A j \in Ids : answered'[j] = IF j = i THEN s ELSE answered[j]
  BY <1>1, <1>2 DEF RowStates, Ids
<1>5. /\ view' \in [Ids -> RowStates] /\ \A j \in Ids : j # i => view'[j] = view[j]
      /\ view[i] # "none" => view'[i] = s
  BY <1>1, <1>3 DEF RowStates
<1>6. Onward /\ \A j \in Ids : rows[j] = "none" => rows'[j] = "none" BY <1>1, <1>4 DEF Onward
<1>7. AnswerStands' BY <1>1, <1>4 DEF AnswerStands
<1>8. ReadersAgree' BY <1>1, <1>4, <1>5 DEF ReadersAgree
<1> QED BY <1>4, <1>5, <1>6, <1>7, <1>8

(* Where rows only move on, what rests on a verdict still does.              *)
LEMMA StillRests ==
  ASSUME Ids' = Ids, Onward, NEW x, Rests(x)
  PROVE  Rests(x)'
BY DEF Onward, Rests

-----------------------------------------------------------------------------
(***************************************************************************)
(* The steps of an axis, of which there are three kinds for this proof.      *)
(***************************************************************************)
FireFields == {"axis", "todo", "trigger", "emits"}
Quiet == UNCHANGED <<rows, view, answered, promoting>>

AxisStep(axis) ==
  \/ Quiet /\ DOMAIN fire' = FireFields /\ fire'.emits = {}
  \/ /\ Quiet /\ DOMAIN fire' = FireFields /\ fire'.axis = axis
     /\ axis \in Resting => \A x \in fire'.emits : Rests(x)
  \/ /\ fire.axis = axis /\ UNCHANGED <<answered, promoting>>
     /\ \E x \in fire.emits :
          /\ MakeRow(<<axis, x>>) /\ ReadProposal(<<axis, x>>)
          /\ fire' = [fire EXCEPT !.emits = @ \ {x}]

LEMMA AxisStepKeeps ==
  ASSUME IInv, NEW axis, AxisStep(axis)
  PROVE  IInv'
<1>1. CASE Quiet /\ DOMAIN fire' = FireFields /\ fire'.emits = {}
  BY <1>1 DEF IInv, Quiet, Maps, PromotesProposed, FireRests, RowsRest, AnswerStands, ReadersAgree,
              FireFields, Ids, Rests
<1>2. CASE /\ Quiet /\ DOMAIN fire' = FireFields /\ fire'.axis = axis
           /\ axis \in Resting => \A x \in fire'.emits : Rests(x)
  BY <1>2 DEF IInv, Quiet, Maps, PromotesProposed, FireRests, RowsRest, AnswerStands, ReadersAgree,
              FireFields, Ids, Rests
<1>3. ASSUME fire.axis = axis, UNCHANGED <<answered, promoting>>, NEW x \in fire.emits,
             MakeRow(<<axis, x>>), ReadProposal(<<axis, x>>),
             fire' = [fire EXCEPT !.emits = @ \ {x}]
      PROVE  IInv'
  <2>1. PICK i : i = <<axis, x>> OBVIOUS
  <2>2. i[1] = axis /\ i[2] = x BY <2>1
  <2>3. /\ rows' \in [Ids -> RowStates] /\ view' \in [Ids -> RowStates] /\ Ids' = Ids
        /\ Onward /\ \A j \in Ids : j # i => rows'[j] = rows[j]
        /\ AnswerStands' /\ ReadersAgree'
    BY <1>3, <2>1, ProposalKeeps
  <2>4. /\ DOMAIN fire' = FireFields /\ fire'.axis = axis /\ fire'.emits \subseteq fire.emits
    BY <1>3 DEF IInv, Maps, FireFields
  <2>5. Maps' BY <1>3, <2>3, <2>4 DEF IInv, Maps, FireFields
  <2>6. PromotesProposed' BY <1>3, <2>3 DEF IInv, PromotesProposed, Onward
  <2>7. axis \in Resting => \A y \in fire.emits : Rests(y)' /\ Rests(y)
    BY <1>3, <2>3, StillRests DEF IInv, FireRests
  <2>8. FireRests' BY <2>4, <2>7 DEF FireRests
  <2>9. RowsRest'
    <3> SUFFICES ASSUME NEW j \in Ids, j[1] \in Resting, rows'[j] # "none" PROVE Rests(j[2])'
      BY <2>3 DEF RowsRest
    <3>1. CASE j = i BY <1>3, <2>2, <2>7, <3>1
    <3>2. CASE j # i
      <4>1. Rests(j[2]) BY <2>3, <3>2 DEF IInv, RowsRest
      <4> QED BY <2>3, <4>1, StillRests
    <3> QED BY <3>1, <3>2
  <2> QED BY <2>3, <2>5, <2>6, <2>8, <2>9 DEF IInv
<1> QED BY <1>1, <1>2, <1>3 DEF AxisStep

(* What a strategy finds by a confirmed type rests on it: the reader agrees   *)
(* with the dashboard.                                                      *)
LEMMA ConfirmedRests ==
  ASSUME IInv, NEW c, NEW x \in Typed(c)
  PROVE  Rests(x)
<1>1. PICK k : x = <<c, k>> /\ (k \in Guessed \/ k \in list_confirmed_types_for_table_column(c))
  BY DEF Typed
<1>2. CASE k \in Guessed BY <1>1, <1>2 DEF Rests
<1>3. CASE k \in list_confirmed_types_for_table_column(c)
  <2>1. PICK i : i = <<"semantic_type", x>> OBVIOUS
  <2>2. i \in Ids /\ view[i] = "confirmed" /\ i[1] = "semantic_type"
    BY <1>1, <1>3, <2>1 DEF list_confirmed_types_for_table_column
  <2>3. view[i] = rows[i] BY <2>2 DEF IInv, ReadersAgree, Read
  <2> QED BY <2>1, <2>2, <2>3 DEF Rests, Settled
<1> QED BY <1>1, <1>2, <1>3

LEMMA LineageSteps ==
  ASSUME IInv, make_lineage_discovery_reactivity
  PROVE  AxisStep("lineage_edge")
<1> DEFINE axis == "lineage_edge"
<1>0. DOMAIN fire = FireFields /\ axis \notin Resting BY DEF IInv, Maps, FireFields, Resting
<1>1. CASE Gathers(axis, {"connected", "imported"}, lineage_quality_filter, lineage_gather)
  BY <1>0, <1>1 DEF Gathers, Ready, AxisStep, Quiet, reviewVars, FireFields
<1>2. CASE PassesOver(axis, lineage_idempotency_filter)
  BY <1>0, <1>2 DEF PassesOver, AxisStep, Quiet, reviewVars, FireFields
<1>3. CASE Infers(axis, lineage_idempotency_filter,
                  lineage_promotion_action)
  BY <1>0, <1>3 DEF Infers, AxisStep, Quiet, reviewVars, FireFields
<1>4. CASE Emits(axis, emit_lineage_edge_proposed)
  BY <1>0, <1>4 DEF Emits, emit_lineage_edge_proposed, lineage_edge_proposed, AxisStep
<1> QED BY <1>1, <1>2, <1>3, <1>4 DEF make_lineage_discovery_reactivity, Compounding

LEMMA QualitySteps ==
  ASSUME IInv, make_quality_discovery_reactivity
  PROVE  AxisStep("quality_check")
<1> DEFINE axis == "quality_check"
<1>0. DOMAIN fire = FireFields BY DEF IInv, Maps, FireFields
<1>1. CASE Gathers(axis, {"connected", "imported"}, lineage_quality_filter, quality_gather)
  BY <1>0, <1>1 DEF Gathers, Ready, AxisStep, Quiet, reviewVars, FireFields
<1>2. CASE PassesOver(axis, quality_idempotency_filter)
  BY <1>0, <1>2 DEF PassesOver, AxisStep, Quiet, reviewVars, FireFields
<1>3. CASE Infers(axis, quality_idempotency_filter,
                  quality_promotion_action)
  <2>1. ASSUME NEW t, NEW x \in quality_promotion_action(t) PROVE Rests(x)
    BY <2>1, ConfirmedRests DEF quality_promotion_action
  <2>2. PICK t : \E found \in SUBSET quality_promotion_action(t) :
          fire.axis = axis /\ fire' = [fire EXCEPT !.todo = @ \ {t}, !.trigger = t, !.emits = found]
    BY <1>3 DEF Infers
  <2>3. Quiet BY <1>3 DEF Infers, Quiet, reviewVars
  <2> QED BY <1>0, <2>1, <2>2, <2>3 DEF AxisStep, FireFields
<1>4. CASE Emits(axis, emit_quality_check_proposed)
  BY <1>0, <1>4 DEF Emits, emit_quality_check_proposed, quality_check_proposed, AxisStep
<1> QED BY <1>1, <1>2, <1>3, <1>4 DEF make_quality_discovery_reactivity, Compounding

LEMMA ImpactSteps ==
  ASSUME IInv, make_schema_impact_discovery_reactivity
  PROVE  AxisStep("schema_impact")
<1> DEFINE axis == "schema_impact"
<1>0. DOMAIN fire = FireFields /\ axis \notin Resting BY DEF IInv, Maps, FireFields, Resting
<1>1. CASE Gathers(axis, {"imported"}, lineage_quality_filter, schema_impact_gather)
  BY <1>0, <1>1 DEF Gathers, Ready, AxisStep, Quiet, reviewVars, FireFields
<1>2. CASE PassesOver(axis, schema_impact_idempotency_filter)
  BY <1>0, <1>2 DEF PassesOver, AxisStep, Quiet, reviewVars, FireFields
<1>3. CASE Infers(axis, schema_impact_idempotency_filter,
                  schema_impact_promotion_action)
  BY <1>0, <1>3 DEF Infers, AxisStep, Quiet, reviewVars, FireFields
<1>4. CASE Emits(axis, emit_schema_impact_proposed)
  BY <1>0, <1>4 DEF Emits, emit_schema_impact_proposed, schema_impact_proposed, AxisStep
<1> QED BY <1>1, <1>2, <1>3, <1>4 DEF make_schema_impact_discovery_reactivity, Compounding

LEMMA FingerprintSteps ==
  ASSUME IInv, make_fingerprint_discovery_reactivity
  PROVE  AxisStep("semantic_type")
<1> DEFINE axis == "semantic_type"
<1>0. DOMAIN fire = FireFields /\ axis \notin Resting BY DEF IInv, Maps, FireFields, Resting
<1>1. CASE Gathers(axis, {"imported"}, lineage_quality_filter, fingerprint_gather)
  BY <1>0, <1>1 DEF Gathers, Ready, AxisStep, Quiet, reviewVars, FireFields
<1>2. CASE PassesOver(axis, fingerprint_idempotency_filter)
  BY <1>0, <1>2 DEF PassesOver, AxisStep, Quiet, reviewVars, FireFields
<1>3. CASE Infers(axis, fingerprint_idempotency_filter,
                  fingerprint_promotion_action)
  BY <1>0, <1>3 DEF Infers, AxisStep, Quiet, reviewVars, FireFields
<1>4. CASE Emits(axis, emit_semantic_type_proposed)
  BY <1>0, <1>4 DEF Emits, emit_semantic_type_proposed, semantic_type_proposed, AxisStep
<1> QED BY <1>1, <1>2, <1>3, <1>4 DEF make_fingerprint_discovery_reactivity, Compounding

LEMMA ClassificationSteps ==
  ASSUME IInv, make_column_classification_discovery_reactivity
  PROVE  AxisStep("column_classification")
<1> DEFINE axis == "column_classification"
<1>0. DOMAIN fire = FireFields BY DEF IInv, Maps, FireFields
<1>1. CASE Gathers(axis, {"imported"}, lineage_quality_filter, column_classification_gather)
  BY <1>0, <1>1 DEF Gathers, Ready, AxisStep, Quiet, reviewVars, FireFields
<1>2. CASE PassesOver(axis, column_classification_idempotency_filter)
  BY <1>0, <1>2 DEF PassesOver, AxisStep, Quiet, reviewVars, FireFields
<1>3. CASE Infers(axis, column_classification_idempotency_filter,
                  column_classification_promotion_action)
  <2>1. ASSUME NEW t, NEW x \in column_classification_promotion_action(t) PROVE Rests(x)
    BY <2>1, ConfirmedRests DEF column_classification_promotion_action
  <2>2. PICK t : \E found \in SUBSET column_classification_promotion_action(t) :
          fire.axis = axis /\ fire' = [fire EXCEPT !.todo = @ \ {t}, !.trigger = t, !.emits = found]
    BY <1>3 DEF Infers
  <2>3. Quiet BY <1>3 DEF Infers, Quiet, reviewVars
  <2> QED BY <1>0, <2>1, <2>2, <2>3 DEF AxisStep, FireFields
<1>4. CASE Emits(axis, emit_column_classification_proposed)
  BY <1>0, <1>4 DEF Emits, emit_column_classification_proposed, column_classification_proposed, AxisStep
<1> QED BY <1>1, <1>2, <1>3, <1>4 DEF make_column_classification_discovery_reactivity, Compounding

LEMMA StitchSteps ==
  ASSUME IInv, make_entity_stitch_discovery_reactivity
  PROVE  AxisStep("entity_stitch")
<1> DEFINE axis == "entity_stitch"
<1>0. DOMAIN fire = FireFields /\ axis \notin Resting BY DEF IInv, Maps, FireFields, Resting
<1>1. CASE Gathers(axis, {"imported"}, lineage_quality_filter, entity_stitch_gather)
  BY <1>0, <1>1 DEF Gathers, Ready, AxisStep, Quiet, reviewVars, FireFields
<1>2. CASE PassesOver(axis, entity_stitch_idempotency_filter)
  BY <1>0, <1>2 DEF PassesOver, AxisStep, Quiet, reviewVars, FireFields
<1>3. CASE Infers(axis, entity_stitch_idempotency_filter,
                  entity_stitch_promotion_action)
  BY <1>0, <1>3 DEF Infers, AxisStep, Quiet, reviewVars, FireFields
<1>4. CASE Emits(axis, emit_entity_stitch_proposed)
  BY <1>0, <1>4 DEF Emits, emit_entity_stitch_proposed, entity_stitch_proposed, AxisStep
<1> QED BY <1>1, <1>2, <1>3, <1>4 DEF make_entity_stitch_discovery_reactivity, Compounding

LEMMA CandidateSteps ==
  ASSUME IInv, make_source_candidate_discovery_reactivity
  PROVE  AxisStep("source_candidate")
<1> DEFINE axis == "source_candidate"
<1>0. DOMAIN fire = FireFields /\ axis \notin Resting BY DEF IInv, Maps, FireFields, Resting
<1>1. CASE Gathers(axis, {"tick"}, source_candidate_quality_filter, source_candidate_gather)
  BY <1>0, <1>1 DEF Gathers, Ready, AxisStep, Quiet, reviewVars, FireFields
<1>2. CASE PassesOver(axis, Unfiltered)
  BY <1>0, <1>2 DEF PassesOver, AxisStep, Quiet, reviewVars, FireFields
<1>3. CASE Infers(axis, Unfiltered,
                  source_candidate_promotion_action)
  BY <1>0, <1>3 DEF Infers, AxisStep, Quiet, reviewVars, FireFields
<1>4. CASE Emits(axis, emit_source_candidate_proposed)
  BY <1>0, <1>4 DEF Emits, emit_source_candidate_proposed, source_candidate_proposed, AxisStep
<1> QED BY <1>1, <1>2, <1>3, <1>4 DEF make_source_candidate_discovery_reactivity, Compounding

LEMMA DriftSteps ==
  ASSUME IInv, make_catalog_drift_discovery_reactivity
  PROVE  AxisStep("catalog_drift")
<1> DEFINE axis == "catalog_drift"
<1>0. DOMAIN fire = FireFields /\ axis \notin Resting BY DEF IInv, Maps, FireFields, Resting
<1>1. CASE Gathers(axis, {"imported"}, lineage_quality_filter, catalog_drift_gather)
  BY <1>0, <1>1 DEF Gathers, Ready, AxisStep, Quiet, reviewVars, FireFields
<1>2. CASE PassesOver(axis, Unfiltered)
  BY <1>0, <1>2 DEF PassesOver, AxisStep, Quiet, reviewVars, FireFields
<1>3. CASE Infers(axis, Unfiltered,
                  catalog_drift_promotion_action)
  BY <1>0, <1>3 DEF Infers, AxisStep, Quiet, reviewVars, FireFields
<1>4. CASE Emits(axis, emit_catalog_drift_proposed)
  BY <1>0, <1>4 DEF Emits, emit_catalog_drift_proposed, catalog_drift_proposed, AxisStep
<1> QED BY <1>1, <1>2, <1>3, <1>4 DEF make_catalog_drift_discovery_reactivity, Compounding

-----------------------------------------------------------------------------
(***************************************************************************)
(* The requests of admins.                                                  *)
(***************************************************************************)
LEMMA DecisionIInv ==
  ASSUME IInv, NEW i \in Ids, rows[i] # "none", NEW s \in Settled, SetRow(i, s), Flips(i, s),
         answered' = [answered EXCEPT ![i] = s], UNCHANGED fire, DOMAIN promoting' = Admins,
         \A a \in Admins : promoting'[a] = promoting[a] \/ promoting'[a] = Free
  PROVE  IInv'
<1>1. /\ rows' \in [Ids -> RowStates] /\ view' \in [Ids -> RowStates]
      /\ answered' \in [Ids -> RowStates] /\ Ids' = Ids
      /\ Onward /\ \A j \in Ids : rows[j] = "none" => rows'[j] = "none"
      /\ AnswerStands' /\ ReadersAgree'
  BY DecisionKeeps
<1>2. \A x : Rests(x) => Rests(x)' BY <1>1, StillRests
<1>3. Maps' BY <1>1 DEF IInv, Maps
<1>4. PromotesProposed' BY <1>1 DEF IInv, PromotesProposed, Onward
<1>5. FireRests' BY <1>2 DEF IInv, FireRests
<1>6. RowsRest' BY <1>1, <1>2 DEF IInv, RowsRest
<1> QED BY <1>1, <1>3, <1>4, <1>5, <1>6 DEF IInv

(* The sixteen handlers are of one kind.                                    *)
LEMMA Reviews ==
  ASSUME AdminStep
  PROVE  \/ \E i \in Ids, s \in Settled : Review(i, s) /\ SetRow(i, s)
         \/ \E a \in Admins :
              \/ \E i \in Ids : post_source_candidate_promote(a, i)
              \/ promote_source_candidate(a) \/ PromotionDies(a)
<1>1. \A f : Of(f) \subseteq Ids BY DEF Of
<1>2. {"confirmed", "rejected", "acknowledged"} \subseteq Settled BY DEF Settled
<1>3. ASSUME NEW i \in Of("lineage_edge"), post_lineage_edge_confirm(i) \/ post_lineage_edge_reject(i)
      PROVE  \E s \in Settled : Review(i, s) /\ SetRow(i, s)
  BY <1>2, <1>3 DEF post_lineage_edge_confirm, confirm_lineage_edge, lineage_edge_confirmed,
                    post_lineage_edge_reject, reject_lineage_edge, lineage_edge_rejected
<1>4. ASSUME NEW i \in Of("quality_check"), post_quality_check_confirm(i) \/ post_quality_check_reject(i)
      PROVE  \E s \in Settled : Review(i, s) /\ SetRow(i, s)
  BY <1>2, <1>4 DEF post_quality_check_confirm, confirm_quality_check, quality_check_confirmed,
                    post_quality_check_reject, reject_quality_check, quality_check_rejected
<1>5. ASSUME NEW i \in Of("schema_impact"), post_schema_impact_confirm(i) \/ post_schema_impact_reject(i)
      PROVE  \E s \in Settled : Review(i, s) /\ SetRow(i, s)
  BY <1>2, <1>5 DEF post_schema_impact_confirm, confirm_schema_impact, schema_impact_confirmed,
                    post_schema_impact_reject, reject_schema_impact, schema_impact_rejected
<1>6. ASSUME NEW i \in Of("semantic_type"), post_semantic_type_confirm(i) \/ post_semantic_type_reject(i)
      PROVE  \E s \in Settled : Review(i, s) /\ SetRow(i, s)
  BY <1>2, <1>6 DEF post_semantic_type_confirm, confirm_semantic_type, semantic_type_confirmed,
                    post_semantic_type_reject, reject_semantic_type, semantic_type_rejected
<1>7. ASSUME NEW i \in Of("column_classification"),
             post_column_classification_confirm(i) \/ post_column_classification_reject(i)
      PROVE  \E s \in Settled : Review(i, s) /\ SetRow(i, s)
  BY <1>2, <1>7 DEF post_column_classification_confirm, confirm_column_classification,
                    column_classification_confirmed, post_column_classification_reject,
                    reject_column_classification, column_classification_rejected
<1>8. ASSUME NEW i \in Of("entity_stitch"), post_entity_stitch_confirm(i) \/ post_entity_stitch_reject(i)
      PROVE  \E s \in Settled : Review(i, s) /\ SetRow(i, s)
  BY <1>2, <1>8 DEF post_entity_stitch_confirm, confirm_entity_stitch, entity_stitch_confirmed,
                    post_entity_stitch_reject, reject_entity_stitch, entity_stitch_rejected
<1>9. ASSUME NEW i \in Of("catalog_drift"),
             post_catalog_drift_acknowledge(i) \/ post_catalog_drift_reject(i)
      PROVE  \E s \in Settled : Review(i, s) /\ SetRow(i, s)
  BY <1>2, <1>9 DEF post_catalog_drift_acknowledge, acknowledge_catalog_drift,
                    catalog_drift_acknowledged, post_catalog_drift_reject, reject_catalog_drift,
                    catalog_drift_rejected
<1>10. ASSUME NEW i \in Of("source_candidate"), post_source_candidate_reject(i)
       PROVE  \E s \in Settled : Review(i, s) /\ SetRow(i, s)
  BY <1>2, <1>10 DEF post_source_candidate_reject, reject_source_candidate, source_candidate_rejected
<1> QED BY <1>1, <1>3, <1>4, <1>5, <1>6, <1>7, <1>8, <1>9, <1>10 DEF AdminStep

LEMMA AdminKeeps ==
  ASSUME IInv, AdminStep, UNCHANGED fire
  PROVE  IInv'
<1>1. ASSUME NEW i \in Ids, NEW s \in Settled, Review(i, s), SetRow(i, s) PROVE IInv'
  <2>1. /\ rows[i] # "none" /\ Flips(i, s) /\ answered' = [answered EXCEPT ![i] = s]
        /\ promoting' = promoting
    BY <1>1 DEF Review, proposed_exists
  <2>2. DOMAIN promoting' = Admins BY <2>1 DEF IInv, Maps
  <2> QED BY <1>1, <2>1, <2>2, DecisionIInv
<1>2. ASSUME NEW a \in Admins, NEW i \in Ids, post_source_candidate_promote(a, i) PROVE IInv'
  <2>1. /\ rows[i] # "none" /\ UNCHANGED <<rows, view, answered>>
        /\ \E s : promoting' = [promoting EXCEPT ![a] = [of |-> i, source |-> s]]
    BY <1>2 DEF post_source_candidate_promote, proposed_exists
  <2>2. Ids' = Ids BY <2>1 DEF Ids
  <2>3. Maps' BY <2>1, <2>2 DEF IInv, Maps
  <2>4. PromotesProposed' BY <1>2, <2>1, <2>2 DEF IInv, Maps, PromotesProposed
  <2>5. FireRests' /\ RowsRest' BY <2>1, <2>2 DEF IInv, FireRests, RowsRest, Rests
  <2>6. AnswerStands' /\ ReadersAgree' BY <2>1, <2>2 DEF IInv, AnswerStands, ReadersAgree
  <2> QED BY <2>3, <2>4, <2>5, <2>6 DEF IInv
<1>3. ASSUME NEW a \in Admins, promote_source_candidate(a) PROVE IInv'
  <2>1. PICK i : i = promoting[a].of OBVIOUS
  <2>2. i \in Ids /\ rows[i] # "none"
    BY <1>3, <2>1 DEF promote_source_candidate, IInv, PromotesProposed
  <2>3. /\ SetRow(i, "promoted") /\ Flips(i, "promoted")
        /\ answered' = [answered EXCEPT ![i] = "promoted"]
        /\ promoting' = [promoting EXCEPT ![a] = Free]
    BY <1>3, <2>1 DEF promote_source_candidate, source_candidate_promoted
  <2>4. /\ DOMAIN promoting' = Admins
        /\ \A b \in Admins : promoting'[b] = promoting[b] \/ promoting'[b] = Free
    BY <2>3 DEF IInv, Maps
  <2>5. "promoted" \in Settled BY DEF Settled
  <2> QED BY <2>2, <2>3, <2>4, <2>5, DecisionIInv
<1>4. ASSUME NEW a \in Admins, PromotionDies(a) PROVE IInv'
  <2>1. UNCHANGED <<rows, view, answered>> /\ promoting' = [promoting EXCEPT ![a] = Free]
    BY <1>4 DEF PromotionDies
  <2>2. Ids' = Ids BY <2>1 DEF Ids
  <2>3. Maps' BY <2>1, <2>2 DEF IInv, Maps
  <2>4. PromotesProposed' BY <2>1, <2>2 DEF IInv, Maps, PromotesProposed
  <2>5. FireRests' /\ RowsRest' BY <2>1, <2>2 DEF IInv, FireRests, RowsRest, Rests
  <2>6. AnswerStands' /\ ReadersAgree' BY <2>1, <2>2 DEF IInv, AnswerStands, ReadersAgree
  <2> QED BY <2>3, <2>4, <2>5, <2>6 DEF IInv
<1> QED BY <1>1, <1>2, <1>3, <1>4, Reviews

-----------------------------------------------------------------------------
(***************************************************************************)
(* Every step.                                                              *)
(***************************************************************************)
LEMMA AtFirst == Init => IInv
<1> SUFFICES ASSUME Init PROVE IInv OBVIOUS
<1>1. /\ \A i \in Ids : rows[i] = "none" /\ answered[i] = "none"
      /\ view = rows /\ answered = [i \in Ids |-> "none"] /\ rows = [i \in Ids |-> "none"]
      /\ promoting = [a \in Admins |-> Free] /\ fire = Ready
  BY DEF Init, ReviewInit, Ids
<1>2. Maps BY <1>1 DEF Maps, RowStates, Ready
<1>3. PromotesProposed BY <1>1 DEF PromotesProposed
<1>4. FireRests BY <1>1 DEF FireRests, Ready
<1>5. RowsRest /\ AnswerStands /\ ReadersAgree BY <1>1 DEF RowsRest, AnswerStands, ReadersAgree
<1> QED BY <1>2, <1>3, <1>4, <1>5 DEF IInv

(* Where rows, verdicts and promotions stay, the axis may only rest.         *)
LEMMA QuietKeeps ==
  ASSUME IInv, Quiet, fire' = fire \/ fire' = Ready
  PROVE  IInv'
<1>1. CASE fire' = Ready
  <2>1. DOMAIN fire' = FireFields /\ fire'.emits = {} BY <1>1 DEF Ready, FireFields
  <2>2. AxisStep("none") BY <2>1 DEF AxisStep
  <2> QED BY <2>2, AxisStepKeeps
<1>2. CASE fire' = fire
  BY <1>2 DEF IInv, Quiet, Maps, PromotesProposed, FireRests, RowsRest, Rests, AnswerStands,
              ReadersAgree, Ids
<1> QED BY <1>1, <1>2

LEMMA EveryStep ==
  ASSUME IInv, [Next]_vars
  PROVE  IInv'
<1>1. ASSUME NEW e, Arrives(e) PROVE IInv' BY <1>1, QuietKeeps DEF Arrives, Quiet, reviewVars
<1>2. CASE EndFire \/ FireRaises \/ NextEntry \/ TimePasses
  BY <1>2, QuietKeeps DEF EndFire, FireRaises, NextEntry, TimePasses, Quiet, reviewVars
<1>3. CASE Admin BY <1>3, AdminKeeps DEF Admin, fireVars
<1>4. CASE UNCHANGED vars BY <1>4, QuietKeeps DEF vars, fireVars, reviewVars, Quiet
<1>5. CASE make_lineage_discovery_reactivity BY <1>5, LineageSteps, AxisStepKeeps
<1>6. CASE make_quality_discovery_reactivity BY <1>6, QualitySteps, AxisStepKeeps
<1>7. CASE make_schema_impact_discovery_reactivity BY <1>7, ImpactSteps, AxisStepKeeps
<1>8. CASE make_fingerprint_discovery_reactivity BY <1>8, FingerprintSteps, AxisStepKeeps
<1>9. CASE make_column_classification_discovery_reactivity
  BY <1>9, ClassificationSteps, AxisStepKeeps
<1>10. CASE make_entity_stitch_discovery_reactivity BY <1>10, StitchSteps, AxisStepKeeps
<1>11. CASE make_source_candidate_discovery_reactivity BY <1>11, CandidateSteps, AxisStepKeeps
<1>12. CASE make_catalog_drift_discovery_reactivity BY <1>12, DriftSteps, AxisStepKeeps
<1> QED
  BY <1>1, <1>2, <1>3, <1>4, <1>5, <1>6, <1>7, <1>8, <1>9, <1>10, <1>11, <1>12
  DEF Next, SourceConnected, ExternalCatalogImported, ClockTick

LEMMA Invariant == Spec => []IInv
BY AtFirst, EveryStep, PTL DEF Spec

(* However often the worm proposes a subject again and however requests and   *)
(* promotions interleave, fail or die, the dashboard shows the verdict that    *)
(* was answered last (post_*_confirm and _reject against builder.py's folds).  *)
THEOREM AnswersStand == Spec => []AnswerStands
<1>1. IInv => AnswerStands BY DEF IInv
<1> QED BY <1>1, Invariant, PTL

(* The readers of worm-core, which walk the ledger, agree with the projection *)
(* about every family they read, but for a drift that was proposed again.     *)
THEOREM ReadersAlwaysAgree == Spec => []ReadersAgree
<1>1. IInv => ReadersAgree BY DEF IInv
<1> QED BY <1>1, Invariant, PTL

(* A check or a classification that only a confirmed type suggests rests on   *)
(* a type an admin decided about, even if it is rejected while the axis runs.  *)
THEOREM ChecksRestOnVerdicts == Spec => []RestsOnVerdict
<1>1. IInv => RestsOnVerdict BY DEF IInv, RowsRest, Rests, Resting, RestsOnVerdict
<1> QED BY <1>1, Invariant, PTL
=============================================================================
