----------------------------- MODULE MCWorkspace ----------------------------
(* What the worm-core service is filled with, what it makes, and what it    *)
(* reads of its ledger, in one run: TLC starts one of the components on one *)
(* of its instances, and the others stay as they are.                       *)
EXTENDS Integers, Sequences, TLC

VARIABLES
  part,   \* the component that was started
  held, turn_rows, pull, pull_faults, outcome_rows, table, built, reading,
  backfill, backfill_faults, art_rows, store, req, art_faults, read_rows,
  viewed_rows, tables, persisted

(* Cues that overlap, run backwards and begin before the meeting.            *)
Cue(i, w, f, t) == [id |-> i, who |-> w, from |-> f, to |-> t]
WhatWasSaid ==
  ("m1" :> <<Cue(1, "ana", 0 - 1, 2), Cue(2, "ana", 1, 1), Cue(3, "ana", 3, 4),
             Cue(4, "bo", 4, 5)>>
   @@ "m2" :> <<Cue(1, "ana", 0, 1), Cue(2, "ana", 3, 3), Cue(3, "ana", 4, 4)>>
   @@ "m3" :> <<>> @@ "m4" :> <<Cue(1, "ana", 0, 1)>>)
RecordedBy ==
  "m1" :> "readai" @@ "m2" :> "fireflies" @@ "m3" :> "readai" @@ "m4" :> "readai"

CellLists == {<<"code", "markdown">>, <<"code", "code">>}

(* What may be recorded, for the readings and for the views.                 *)
Read(w, r, v) == [what |-> w, ref |-> r, val |-> v]
Seen(w, i, v, s) == [what |-> w, id |-> i, val |-> v, refs |-> s]

KnowingEvents == {Read("gap", "g1", "none"), Read("gap_resolved", "g1",
   "none"), Read("chat", "none", "none"), Read("person_proposed", "p1",
   "worm"), Read("person_archived", "p1", "none"),
   Read("reactivity_proposed", "r1", "worm"), Read("reactivity_confirmed",
   "r1", "none")}

ScoreEvents == {Read("gate", "x", "none"), Read("resolved", "x", "keep"),
   Read("resolved", "x", "discard"), Read("experiment", "x", "team"),
   Read("fired", "r2", "none"), Read("weights", "none", 3)}

RampEvents == {Read("chat", "none", "none"), Read("trigger", "none",
   "below_floor"), Read("trigger", "none", "hit"), Read("kpi_node", "k",
   "none"), Read("kpi_node", "k", "s"), Read("mentioned", "c", "none"),
   Read("concept_confirmed", "c", "none"), Read("answered", "k", "none"),
   Read("memory", "none", "x"), Read("template", "t", "none")}

ProductEvents == {Seen("product_proposed", "p", "none", <<>>),
   Seen("product_generated", "p", "h1", <<>>), Seen("product_generated",
   "p", "h2", <<>>), Seen("product_archived", "p", "none", <<>>),
   Seen("notebook_proposed", "n", "ana", <<>>), Seen("notebook_run", "n",
   "ok", <<>>), Seen("notebook_published", "n", "v1", <<"bo">>),
   Seen("notebook_archived", "n", "none", <<>>)}

KpiEvents == {Seen("kpi_node", "k", "A", <<>>), Seen("kpi_proposed", "k",
   "B", <<>>), Seen("kpi_proposed", "k", "B", <<"s">>), Seen("golded", "g1",
   "10", <<"s">>), Seen("golded", "g2", "20", <<"s">>)}

DecisionEvents == {Seen("decision", "d", "x", <<>>), Seen("decision", "d",
   "y", <<>>), Seen("decision", "e", "x", <<>>), Seen("decision", "f", "x",
   <<>>), Seen("process", "q", "x", <<>>), Seen("process", "q", "y", <<>>),
   Seen("kpi_proposed", "k", "A", <<>>), Seen("kpi_node", "k", "B", <<>>)}

TalkEvents == {Seen("chat", "m1", "x", <<>>), Seen("chat", "m2", "x", <<>>)}

SetupEvents == {Seen("install_completed", "slack", "a", <<>>),
   Seen("install_completed", "slack", "b", <<>>), Seen("install_revoked",
   "none", "a", <<>>), Seen("setup_mode_chosen", "none", "bot", <<>>),
   Seen("setup_mode_chosen", "none", "form", <<>>), Seen("setup_completed",
   "none", "none", <<>>), Seen("setup_step_advanced", "s1", "none", <<>>),
   Seen("setup_step_advanced", "s2", "none", <<>>), Seen("topic", "t", "x",
   <<>>), Seen("topic", "t", "y", <<>>), Seen("credential", "c", "propose",
   <<>>), Seen("credential", "c", "execute", <<>>)}

PeopleEvents == {Seen("person_proposed", "ana", "x", <<>>),
   Seen("person_confirmed", "ana", "x", <<>>), Seen("person_archived",
   "ana", "x", <<>>), Seen("role_assigned", "ana", "admin", <<>>),
   Seen("role_revoked", "ana", "admin", <<>>), Seen("question", "q", "x",
   <<>>), Seen("question", "q", "y", <<>>), Seen("system_node", "n", "x",
   <<"m">>)}

PersistedEvents == {Seen("product_proposed", "p", "none", <<>>),
   Seen("product_archived", "p", "none", <<>>), Seen("topic", "t", "x",
   <<>>)}

Meetings == INSTANCE Transcripts WITH
  Runs <- {"r1", "r2"}, Meetings <- {"m1", "m2", "m3", "m4"},
  Provider <- RecordedBy, Files <- {"m2"}, Cues <- WhatWasSaid, Gap <- 1,
  PageSize <- 1, Limit <- 3, MaxFaults <- 1, ledger <- turn_rows,
  run <- pull, faults <- pull_faults

Vectors == INSTANCE Embeddings WITH
  Companies <- {"acme"}, Runs <- {"r1", "r2"}, Usual <- "nomic",
  Other <- "mxbai", MaxCount <- 2, TopK <- 2, MaxRows <- 2, MaxFaults <- 1,
  ledger <- outcome_rows, run <- backfill, faults <- backfill_faults

MadeProducts == INSTANCE Artifacts WITH
  Kinds <- {"report"}, Contents <- {"x", "y"}, Cells <- CellLists,
  MaxPuts <- 3, MaxFaults <- 1, Requests <- {"q1", "q2"}, Products <- {"p1"},
  Notebooks <- {}, MaxRows <- 3, ledger <- art_rows, faults <- art_faults

MadeNotebooks == INSTANCE Artifacts WITH
  Kinds <- {"report"}, Contents <- {"x", "y"}, Cells <- CellLists,
  MaxPuts <- 3, MaxFaults <- 1, Requests <- {"q1"}, Products <- {},
  Notebooks <- {"n1"}, MaxRows <- 4, ledger <- art_rows, faults <- art_faults

Knowings == INSTANCE Readings WITH
  Times <- {0, 1}, Window <- 1, Radius <- 1, Points <- 3, Full <- 3,
  Buckets <- 2, Recent <- 2, Events <- KnowingEvents, MaxRows <- 3,
  ledger <- read_rows

Scores == INSTANCE Readings WITH
  Times <- {0, 1}, Window <- 1, Radius <- 1, Points <- 3, Full <- 3,
  Buckets <- 2, Recent <- 2, Events <- ScoreEvents, MaxRows <- 3,
  ledger <- read_rows

Ramp == INSTANCE Readings WITH
  Times <- {0, 1}, Window <- 1, Radius <- 1, Points <- 3, Full <- 3,
  Buckets <- 2, Recent <- 2, Events <- RampEvents, MaxRows <- 3,
  ledger <- read_rows

ProductsSeen == INSTANCE Views WITH
  Cap <- 2, Events <- ProductEvents, Companies <- {"acme"}, Times <- {0},
  MaxRows <- 5, MaxPersists <- 0, ledger <- viewed_rows

KpisSeen == INSTANCE Views WITH
  Cap <- 2, Events <- KpiEvents, Companies <- {"acme"}, Times <- {0, 1},
  MaxRows <- 4, MaxPersists <- 0, ledger <- viewed_rows

DecisionsSeen == INSTANCE Views WITH
  Cap <- 2, Events <- DecisionEvents, Companies <- {"acme"}, Times <- {0},
  MaxRows <- 4, MaxPersists <- 0, ledger <- viewed_rows

TalkSeen == INSTANCE Views WITH
  Cap <- 2, Events <- TalkEvents, Companies <- {"acme"}, Times <- {0, 1, 2},
  MaxRows <- 4, MaxPersists <- 0, ledger <- viewed_rows

SetupSeen == INSTANCE Views WITH
  Cap <- 2, Events <- SetupEvents, Companies <- {"acme"}, Times <- {0},
  MaxRows <- 4, MaxPersists <- 0, ledger <- viewed_rows

PeopleSeen == INSTANCE Views WITH
  Cap <- 2, Events <- PeopleEvents, Companies <- {"acme"}, Times <- {0},
  MaxRows <- 4, MaxPersists <- 0, ledger <- viewed_rows

PersistedSeen == INSTANCE Views WITH
  Cap <- 2, Events <- PersistedEvents, Companies <- {"acme", "beta"},
  Times <- {0}, MaxRows <- 3, MaxPersists <- 2, ledger <- viewed_rows

ASSUME MeetingsAssumption == Meetings!BoundsAssumption /\ Vectors!BoundsAssumption
ASSUME ArtifactsAssumption == MadeProducts!BoundsAssumption /\ MadeNotebooks!BoundsAssumption
ASSUME ReadingsAssumption == Knowings!BoundsAssumption /\ ProductsSeen!BoundsAssumption

meetingsVars ==
  <<held, turn_rows, pull, pull_faults>>
vectorsVars ==
  <<outcome_rows, table, built, reading, backfill, backfill_faults>>
madeProductsVars ==
  <<art_rows, store, req, art_faults>>
knowingsVars ==
  <<read_rows>>
productsSeenVars ==
  <<viewed_rows, tables, persisted>>

StartOne ==
  /\ part \in {"transcripts", "embeddings", "products", "notebooks", "knowings", "scores", "ramp", "products_seen", "kpis_seen", "decisions_seen", "talk_seen", "setup_seen", "people_seen", "persisted_seen"}
  /\ Meetings!Init
  /\ Vectors!Init
  /\ CASE part = "notebooks" -> MadeNotebooks!Init
       [] OTHER -> MadeProducts!Init
  /\ CASE part = "scores" -> Scores!Init
       [] part = "ramp" -> Ramp!Init
       [] OTHER -> Knowings!Init
  /\ CASE part = "kpis_seen" -> KpisSeen!Init
       [] part = "decisions_seen" -> DecisionsSeen!Init
       [] part = "talk_seen" -> TalkSeen!Init
       [] part = "setup_seen" -> SetupSeen!Init
       [] part = "people_seen" -> PeopleSeen!Init
       [] part = "persisted_seen" -> PersistedSeen!Init
       [] OTHER -> ProductsSeen!Init

StepOne ==
  \/ /\ part = "transcripts" /\ Meetings!Next
     /\ UNCHANGED <<part, vectorsVars, madeProductsVars, knowingsVars, productsSeenVars>>
  \/ /\ part = "embeddings" /\ Vectors!Next
     /\ UNCHANGED <<part, meetingsVars, madeProductsVars, knowingsVars, productsSeenVars>>
  \/ /\ part = "products" /\ MadeProducts!Next
     /\ UNCHANGED <<part, meetingsVars, vectorsVars, knowingsVars, productsSeenVars>>
  \/ /\ part = "notebooks" /\ MadeNotebooks!Next
     /\ UNCHANGED <<part, meetingsVars, vectorsVars, knowingsVars, productsSeenVars>>
  \/ /\ part = "knowings" /\ Knowings!Next
     /\ UNCHANGED <<part, meetingsVars, vectorsVars, madeProductsVars, productsSeenVars>>
  \/ /\ part = "scores" /\ Scores!Next
     /\ UNCHANGED <<part, meetingsVars, vectorsVars, madeProductsVars, productsSeenVars>>
  \/ /\ part = "ramp" /\ Ramp!Next
     /\ UNCHANGED <<part, meetingsVars, vectorsVars, madeProductsVars, productsSeenVars>>
  \/ /\ part = "products_seen" /\ ProductsSeen!Next
     /\ UNCHANGED <<part, meetingsVars, vectorsVars, madeProductsVars, knowingsVars>>
  \/ /\ part = "kpis_seen" /\ KpisSeen!Next
     /\ UNCHANGED <<part, meetingsVars, vectorsVars, madeProductsVars, knowingsVars>>
  \/ /\ part = "decisions_seen" /\ DecisionsSeen!Next
     /\ UNCHANGED <<part, meetingsVars, vectorsVars, madeProductsVars, knowingsVars>>
  \/ /\ part = "talk_seen" /\ TalkSeen!Next
     /\ UNCHANGED <<part, meetingsVars, vectorsVars, madeProductsVars, knowingsVars>>
  \/ /\ part = "setup_seen" /\ SetupSeen!Next
     /\ UNCHANGED <<part, meetingsVars, vectorsVars, madeProductsVars, knowingsVars>>
  \/ /\ part = "people_seen" /\ PeopleSeen!Next
     /\ UNCHANGED <<part, meetingsVars, vectorsVars, madeProductsVars, knowingsVars>>
  \/ /\ part = "persisted_seen" /\ PersistedSeen!Next
     /\ UNCHANGED <<part, meetingsVars, vectorsVars, madeProductsVars, knowingsVars>>

allVars == <<part, meetingsVars, vectorsVars, madeProductsVars, knowingsVars, productsSeenVars>>

(* The fairness of each component, while it is the one that was started.    *)
OneSpec ==
  /\ StartOne /\ [][StepOne]_allVars
  /\ \A c \in {"acme"} : WF_allVars(/\ part = "embeddings" /\ Vectors!Rebuild(c)
                                     /\ UNCHANGED <<part, meetingsVars, madeProductsVars, knowingsVars, productsSeenVars>>)
  /\ \A r \in {"r1", "r2"} : WF_allVars(/\ part = "embeddings" /\ Vectors!Progress(r)
                                         /\ UNCHANGED <<part, meetingsVars, madeProductsVars, knowingsVars, productsSeenVars>>)

(* The transcripts in the ledger stand for what was said.                   *)
TranscriptsStand == Meetings!TranscriptsStand

(* "The next run picks up where this one left off": when the backfill is    *)
(* run again and again and the ledger is quiet at last, every outcome gets   *)
(* an embedding and keeps it, over failed requests, rebuilds that take the    *)
(* embeddings away, runs that overlap or die.                                *)
EventuallyEmbedded == part = "embeddings" => Vectors!EventuallyEmbedded

(* What is on record of products and notebooks is so, whatever requests       *)
(* overlap, die or are refused and whatever the disk does.                   *)
ArtifactsStand ==
  /\ part = "products" => MadeProducts!ArtifactsStand
  /\ part = "notebooks" => MadeNotebooks!ArtifactsStand

(* What is read of the ledger tells what is in it.                           *)
ReadingsStand ==
  /\ part = "knowings" => Knowings!ReadingsStand
  /\ part = "scores" => Scores!ReadingsStand
  /\ part = "ramp" => Ramp!ReadingsStand

(* The views agree on every ledger (builder.py, read_tools.py, kpis.py,        *)
(* resource_aggregator.py, source_candidate_readers.py).                      *)
ViewsAgree ==
  /\ part = "products_seen" => ProductsSeen!ViewsAgree
  /\ part = "kpis_seen" => KpisSeen!ViewsAgree
  /\ part = "decisions_seen" => DecisionsSeen!ViewsAgree
  /\ part = "talk_seen" => TalkSeen!ViewsAgree
  /\ part = "setup_seen" => SetupSeen!ViewsAgree
  /\ part = "people_seen" => PeopleSeen!ViewsAgree
  /\ part = "persisted_seen" => PersistedSeen!ViewsAgree
=============================================================================
