------------------------------- MODULE MCLake -------------------------------
(* The lake maintainer in three instances: source candidates with two       *)
(* admins, the families that propose a column's type, and those that        *)
(* propose edges between two sources.                                       *)
EXTENDS LakeDiscovery

VARIABLE part   \* the component that was started

(* Sources a and b, with a column of the same name.                         *)
Column(s, t, c) == [source |-> s, table |-> t, column |-> c]
OneColumn == {Column("a", "t", "id")}
TwoSources == {Column("a", "t", "id"), Column("b", "u", "id")}

Promotion == INSTANCE LakeDiscovery WITH
  Columns <- OneColumn, Kinds <- {"k"}, Candidates <- {"x"},
  Admins <- {"ana", "bob"},
  Families <- {"source_candidate", "catalog_drift"},
  Axes <- {"source_candidate", "catalog_drift"}, Guessed <- {}, Window <- 1,
  MaxTime <- 2, MaxEvents <- 2, MaxReviews <- 3, MaxAborts <- 1

Edges == INSTANCE LakeDiscovery WITH
  Columns <- TwoSources, Kinds <- {"k"}, Candidates <- {}, Admins <- {},
  Families <- {"lineage_edge", "schema_impact", "entity_stitch"},
  Axes <- {"lineage_edge", "schema_impact", "entity_stitch"}, Guessed <- {},
  Window <- 0, MaxTime <- 1, MaxEvents <- 2, MaxReviews <- 2, MaxAborts <- 0

ASSUME InstancesAssumption ==
  /\ Promotion!ReviewsAssumption /\ Promotion!AxesAssumption /\ Promotion!WindowAssumption
  /\ Edges!AxesAssumption /\ Edges!WindowAssumption

StartOne ==
  /\ part \in {"candidates", "types", "edges"}
  /\ CASE part = "types" -> Init
       [] part = "edges" -> Edges!Init
       [] OTHER -> Promotion!Init

StepOne ==
  \/ part = "candidates" /\ Promotion!Next /\ UNCHANGED part
  \/ part = "types" /\ Next /\ UNCHANGED part
  \/ part = "edges" /\ Edges!Next /\ UNCHANGED part

allVars == <<part, vars>>

OneSpec == StartOne /\ [][StepOne]_allVars
=============================================================================
