----------------------------- MODULE Compounding -----------------------------
(***************************************************************************)
(* The compounding reactivities of wormbase-agent-gateway: five axes over    *)
(* one pipeline, quality filter, gather, cluster, threshold, idempotency,    *)
(* promotion.  "template" turns alike high-quality outcomes into a query      *)
(* template, "product" one high-quality outcome into a proposed data product, *)
(* "bad" alike failures into a bad pattern, "gap" an old semantic gap into an *)
(* escalation, "recommend" the consumption by several agents into a           *)
(* recommendation.  The runner hands the rows over in order and one at a time;*)
(* agents and admins go on writing between any two ledger calls of a fire,    *)
(* and a restarted runner begins with the first row again.                    *)
(*                                                                          *)
(* A row stands for a cycle.  An intent stands for the pair of a domain and a *)
(* canonical question; Alike says which intents embed close to each other.    *)
(***************************************************************************)
EXTENDS Integers, Sequences, FiniteSets, TLC, SequencesExt

CONSTANTS
  Inputs,     \* what others may write: sets of rows without their day
  Alike,      \* pairs of intents whose embeddings are at least 0.85 alike
  Days,       \* days each axis looks back; for "gap", the days it waits
  Size,       \* how many of a cluster each axis asks for
  MaxEntries, MaxDay, MaxRestarts, MaxFailures

ASSUME CompoundingBounds == {MaxEntries, MaxDay, MaxRestarts, MaxFailures} \subseteq Nat

VARIABLES
  inputs,    \* the set of rows that others write
  entries,   \* committed rows, oldest first
  day,
  taken,     \* last row the runner has taken
  axes,      \* reactivities the row has still to be handed to
  stage,     \* the fire
  clusters,  \* those still to promote
  pick,      \* the promotion being written
  wrote,     \* whether the fire has promoted anything
  fired,     \* day of each axis' last fired row
  restarts, failures

fireVars == <<stage, clusters, pick, wrote>>
compoundingVars == <<inputs, entries, day, taken, axes, fireVars, fired, restarts, failures>>

Axes == {"template", "product", "bad", "gap", "recommend"}

Promotion ==
  [template |-> "template_promoted", product |-> "product_promoted", bad |-> "bad_promoted",
   gap |-> "gap_promoted", recommend |-> "recommend_promoted"]

(* Nobody but the reactivities writes promotions.                           *)
ASSUME CompoundingInputs ==
  \A rows \in Inputs : \A row \in rows :
    "kind" \in DOMAIN row /\ \A x \in Axes : row.kind # Promotion[x]

Nothing == [kind |-> "none"]

CommitEntry(row) ==
  /\ Len(entries) < MaxEntries
  /\ entries' = Append(entries, row)

CompoundingInit ==
  /\ inputs \in Inputs
  /\ entries = <<>> /\ day = 0 /\ taken = 0 /\ axes = <<>>
  /\ stage = "idle" /\ clusters = {} /\ pick = Nothing /\ wrote = FALSE
  /\ fired = [x \in Axes |-> -1]
  /\ restarts = 0 /\ failures = 0

Dated(row) == [f \in DOMAIN row \cup {"day"} |-> IF f = "day" THEN day ELSE row[f]]

-----------------------------------------------------------------------------
(* Others write what the behaviour began with: agents record outcomes and   *)
(* gaps and consume products; admins import metrics; the emitter ticks.     *)
Write ==
  /\ \E row \in inputs : CommitEntry(Dated(row))
  /\ UNCHANGED <<inputs, day, taken, axes, fireVars, fired, restarts, failures>>

Tomorrow ==
  /\ day < MaxDay
  /\ day' = day + 1
  /\ UNCHANGED <<inputs, entries, taken, axes, fireVars, fired, restarts, failures>>

-----------------------------------------------------------------------------
(* The source predicates, in the order the axes are registered.             *)
Sources(row) ==
  CASE row.kind = "outcome"  -> <<"template", "product", "bad">>
    [] row.kind = "consumed" -> <<"recommend">>
    [] row.kind = "tick"     -> <<"gap">>
    [] OTHER                 -> <<>>

(* quality_score is 1.0 for used and useful, 0.5 for useful alone, 0.2 for   *)
(* used alone and 0.0 otherwise.                                             *)
high_quality(row) == row.quality = "used_useful"
bad_outcome(row) == row.quality \in {"used", "none"}
agent_consumption(row) == row.surface \in {"mcp", "agent", "api"}

Quality(x, row) ==
  CASE x \in {"template", "product"} -> high_quality(row)
    [] x = "bad" -> bad_outcome(row)
    [] x = "recommend" -> agent_consumption(row)
    [] x = "gap" -> TRUE

Kinds(kind) == {i \in 1 .. Len(entries) : entries[i].kind = kind}

Recent(x, kind) == {i \in Kinds(kind) : entries[i].day >= day - Days[x]}

(* Gaps that have waited, by the target_kind of their propose row, less the  *)
(* imported and the escalated ones.                                          *)
unresolved_gaps ==
  {i \in Kinds("gap") :
     /\ entries[i].target_kind = "semantic_gap_proposed"
     /\ entries[i].day <= day - Days["gap"]
     /\ \A j \in Kinds("imported") : entries[j].gap # i
     /\ \A j \in Kinds("gap_promoted") : entries[j].key # i}

Grouped(S, Key(_)) == {{i \in S : Key(i) = k} : k \in {Key(i) : i \in S}}

Oldest(C) == CHOOSE i \in C : \A j \in C : i <= j

(* Each outcome, oldest first, joins the first cluster whose oldest member  *)
(* it is like.                                                               *)
Join(sofar, i) ==
  LET Near(C) == <<entries[Oldest(C)].intent, entries[i].intent>> \in Alike
      first == SelectInSeq(sofar, Near)
  IN IF first = 0 THEN Append(sofar, {i})
     ELSE [sofar EXCEPT ![first] = @ \cup {i}]

(* Without an embedding: by intent, each member checked against the filter.  *)
(* With one: by likeness, and whatever the quality.                          *)
OutcomeClusters(x) ==
  LET all == Recent(x, "outcome")
      embedded == {i \in all : entries[i].embedded}
      plain == {i \in all \ embedded : Quality(x, entries[i])}
  IN Range(FoldLeft(Join, <<>>, SetToSortSeq(embedded, <)))
       \cup Grouped(plain, LAMBDA i : entries[i].intent)

BigEnough(x, C) ==
  Cardinality(IF x = "recommend" THEN {entries[i].consumer : i \in C} ELSE C) >= Size[x]

gather(x, i) ==
  CASE x = "product" -> {{i}}
    [] x = "gap" -> {{g} : g \in unresolved_gaps}
    [] x = "recommend" ->
         Grouped({c \in Recent(x, "consumed") : agent_consumption(entries[c])},
                 LAMBDA c : entries[c].product)
    [] OTHER -> OutcomeClusters(x)

KeyOf(x, C) ==
  LET row == entries[Oldest(C)] IN
  CASE x \in {"template", "bad"} -> row.intent
    [] x = "product" -> row.query
    [] x = "recommend" -> row.product
    [] x = "gap" -> Oldest(C)

-----------------------------------------------------------------------------
TakeEntry ==
  /\ stage = "idle" /\ axes = <<>> /\ taken < Len(entries)
  /\ taken' = taken + 1
  /\ axes' = Sources(entries[taken + 1])
  /\ UNCHANGED <<inputs, entries, day, fireVars, fired, restarts, failures>>

(* NotRecentlyFired looks back an hour: a fire of today or       *)
(* yesterday may be that recent.                                            *)
(* The key "product" asks for is never the one it records.                   *)
Debounced ==
  /\ stage = "idle" /\ axes # <<>>
  /\ Head(axes) # "product"
  /\ fired[Head(axes)] # -1 /\ fired[Head(axes)] >= day - 1
  /\ axes' = Tail(axes)
  /\ UNCHANGED <<inputs, entries, day, taken, fireVars, fired, restarts, failures>>

Fire ==
  /\ stage = "idle" /\ axes # <<>>
  /\ LET x == Head(axes) IN
     /\ clusters' = IF Quality(x, entries[taken])
                    THEN {C \in gather(x, taken) : BigEnough(x, C)}
                    ELSE {}
     /\ stage' = "check"
  /\ pick' = Nothing /\ wrote' = FALSE
  /\ UNCHANGED <<inputs, entries, day, taken, axes, fired, restarts, failures>>

(* Fault: nothing is looked up before promoting.                            *)
NeverPromoted(x, key) == FALSE

(* An outcome without an agent_query_id is never found promoted.            *)
already_promoted(x, key) ==
  /\ x = "product" => key # ""
  /\ \E i \in Kinds(Promotion[x]) : entries[i].key = key

(* The key comes from the rows that were gathered; the ledger is read again. *)
Check(C) ==
  /\ stage = "check"
  /\ C \in clusters
  /\ clusters' = clusters \ {C}
  /\ LET x == Head(axes)
         key == KeyOf(x, C)
     IN IF already_promoted(x, key)
        THEN UNCHANGED <<stage, pick>>
        ELSE stage' = "write" /\ pick' = [kind |-> Promotion[x], key |-> key, from |-> C]
  /\ UNCHANGED <<inputs, entries, day, taken, axes, wrote, fired, restarts, failures>>

Promote ==
  /\ stage = "write"
  /\ CommitEntry(Dated(pick))
  /\ stage' = "check" /\ pick' = Nothing /\ wrote' = TRUE
  /\ UNCHANGED <<inputs, day, taken, axes, clusters, fired, restarts, failures>>

(* The fire ends with its last cluster, and is recorded when it promoted     *)
(* something; or with a write that raises: the runner logs that, and the row *)
(* goes to the next reactivity.                                              *)
EndFire ==
  /\ stage' = "idle" /\ clusters' = {} /\ pick' = Nothing /\ wrote' = FALSE
  /\ axes' = Tail(axes)
  /\ UNCHANGED <<inputs, entries, day, taken, restarts>>

Done ==
  /\ stage = "check" /\ clusters = {}
  /\ EndFire
  /\ fired' = IF wrote THEN [fired EXCEPT ![Head(axes)] = day] ELSE fired
  /\ UNCHANGED failures

WriteFails ==
  /\ stage = "write"
  /\ failures < MaxFailures
  /\ EndFire
  /\ failures' = failures + 1
  /\ UNCHANGED fired

(* The cursor of the runner is in memory.                                   *)
RestartRunner ==
  /\ restarts < MaxRestarts
  /\ restarts' = restarts + 1
  /\ taken' = 0 /\ axes' = <<>> /\ stage' = "idle"
  /\ clusters' = {} /\ pick' = Nothing /\ wrote' = FALSE
  /\ UNCHANGED <<inputs, entries, day, fired, failures>>

-----------------------------------------------------------------------------
CompoundingNext ==
  \/ Write \/ Tomorrow
  \/ TakeEntry \/ Debounced \/ Fire
  \/ \E C \in clusters : Check(C)
  \/ Promote \/ Done \/ WriteFails \/ RestartRunner

CompoundingSpec == CompoundingInit /\ [][CompoundingNext]_compoundingVars

-----------------------------------------------------------------------------
(* Each axis promotes a thing once, whatever is replayed after a restart and *)
(* however its clusters have shifted since: the lookup before a promotion    *)
(* finds the promotion that an earlier fire has left.                        *)
PromotedOnce ==
  \A x \in Axes : \A i, j \in Kinds(Promotion[x]) :
    /\ entries[i].key = entries[j].key
    /\ x = "product" => entries[i].key # ""
    => i = j
=============================================================================
