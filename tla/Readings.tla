------------------------------ MODULE Readings ------------------------------
(***************************************************************************)
(* What worm-core tells of a ledger it only reads: the first knowings of the *)
(* worm, its composite score over time, the keep rates of its experiments,    *)
(* the gauges and the axes of its knowledge. The ledger grows; rows carry a    *)
(* time of their own, which need not follow their order.                     *)
(***************************************************************************)
EXTENDS Integers, Sequences, FiniteSets, FiniteSetsExt, SequencesExt

CONSTANTS
  Events,       \* what is recorded: [what, ref, val]
  Times, MaxRows,
  Window,       \* how far back a score, a rate's day or a recency filter looks
  Radius,       \* messages told around the one that raised a gap
  Points,       \* points of a series
  Full,         \* recordings that make the ramp of a window full
  Buckets, Recent

BoundsAssumption ==
  /\ {MaxRows, Window, Radius, Points, Full, Buckets, Recent} \subseteq Nat
  /\ Full > 0 /\ Buckets > 0 /\ Points > 1

VARIABLE ledger   \* [what, ref, val, ts, seq, about]; a cycle takes four numbers

vars == <<ledger>>

Init == ledger = <<>>

Singles == {"gate"}

Width(what) == IF what \in Singles THEN 1 ELSE 4

(* The entry of a cycle that says what was done is its second.               *)
done(r) == r.seq + (IF r.what \in Singles THEN 0 ELSE 1)

Height(rows) ==
  IF rows = <<>> THEN 0 ELSE Last(rows).seq + Width(Last(rows).what) - 1

chat_rows_by_seq(rows) == {done(rows[i]) : i \in {k \in DOMAIN rows : rows[k].what = "chat"}}

(* A gap is about the message that raised it, the last one so far.           *)
Record(e, t) ==
  /\ Len(ledger) < MaxRows
  /\ LET chats == chat_rows_by_seq(ledger)
     IN ledger' = Append(ledger,
          [what |-> e.what, ref |-> e.ref, val |-> e.val, ts |-> t, seq |-> Height(ledger) + 1,
           about |-> IF e.what = "gap" /\ chats # {} THEN Max(chats) ELSE 0])

Next == \E e \in Events, t \in Times : Record(e, t)

Spec == Init /\ [][Next]_vars

Are(rows, what) == {i \in DOMAIN rows : rows[i].what = what}

-----------------------------------------------------------------------------
(* First knowings: gaps somebody has noticed, and the persons and reactivities *)
(* the worm itself has proposed, while nobody has settled them.              *)

confirmed_refs(rows) ==
  {rows[i].ref : i \in {k \in DOMAIN rows :
     rows[k].what \in {"person_confirmed", "reactivity_confirmed", "reactivity_disabled", "gap_resolved"}}}

archived_refs(rows) == {rows[i].ref : i \in Are(rows, "person_archived")}

is_worm_proposer(by) == by = "worm"

All == Max(Times)

within_window(t, now, recency) == recency = All \/ now - t <= recency

(* Fault: a resolution counts only until the gap is detected anew.           *)
gapsSince(rows) ==
  {i \in Are(rows, "gap") :
     /\ ~ \E j \in DOMAIN rows : j > i /\ rows[j].what = "gap_resolved" /\ rows[j].ref = rows[i].ref
     /\ ~ \E j \in Are(rows, "gap") : j < i /\ rows[j].ref = rows[i].ref
          /\ ~ \E k \in j .. i : rows[k].what = "gap_resolved" /\ rows[k].ref = rows[i].ref}

(* The first detection of each gap.                                         *)
gaps(rows) ==
  {i \in Are(rows, "gap") :
     /\ rows[i].ref \notin confirmed_refs(rows)
     /\ \A j \in Are(rows, "gap") : j < i => rows[j].ref # rows[i].ref}

(* The first proposal the worm made of each.                                *)
proposals(rows, what) ==
  LET worm == {i \in Are(rows, what) : is_worm_proposer(rows[i].val)}
  IN {i \in worm :
        /\ rows[i].ref \notin confirmed_refs(rows) \cup archived_refs(rows)
        /\ \A j \in worm : j < i => rows[j].ref # rows[i].ref}

(* What a proposal is called stands in the cycle that follows it closely.     *)
find_matching_execute(rows, i) ==
  LET near == {j \in Are(rows, rows[i].what) :
                 done(rows[j]) > rows[i].seq /\ done(rows[j]) <= rows[i].seq + 8}
  IN IF near = {} THEN "unnamed" ELSE rows[Min(near)].ref

knowing(rows, i) ==
  [what |-> rows[i].what, ref |-> rows[i].ref,
   seq |-> IF rows[i].what = "gap" THEN done(rows[i]) ELSE rows[i].seq,
   about |-> rows[i].about, by |-> rows[i].val,
   called |-> IF rows[i].what = "gap" THEN rows[i].ref ELSE find_matching_execute(rows, i)]

Kinds == {"gap", "person_proposed", "reactivity_proposed"}

compute_first_knowings(rows, kinds, recency, now) ==
  LET found == gaps(rows) \cup proposals(rows, "person_proposed")
               \cup proposals(rows, "reactivity_proposed")
      kept == {i \in found : rows[i].what \in kinds /\ within_window(rows[i].ts, now, recency)}
      S == {knowing(rows, i) : i \in kept}
  IN [n \in 1 .. Cardinality(S) |->
        CHOOSE k \in S : Cardinality({q \in S : q.seq > k.seq}) = n - 1]

(* The messages around the one a gap is about.                               *)
chatter_context(rows, anchor) ==
  LET sorted == SelectSeq(rows, LAMBDA r : r.what = "chat")
      at == {p \in DOMAIN sorted : done(sorted[p]) >= anchor}
      pos == Min(at)
  IN IF at = {} THEN {}
     ELSE {done(sorted[p]) : p \in Max({1, pos - Radius}) .. Min({Len(sorted), pos + Radius})}

-----------------------------------------------------------------------------
(* The composite score, in percent. A half is neutral.                       *)

Share(part, whole) == IF whole = 0 THEN 50 ELSE (100 * part) \div whole

(* Rows a score at a height sees, and those of them within its window.        *)
in_scope(rows, height) == {i \in DOMAIN rows : rows[i].seq <= height}

in_window(rows, height) ==
  LET last == Max(in_scope(rows, height))
  IN {i \in in_scope(rows, height) :
        done(rows[i]) <= height /\ rows[i].ts >= rows[last].ts - Window}

Which(rows, S, what) == {i \in S : rows[i].what = what}

gate_fire_precision(rows, S) ==
  LET verdict(o) == {rows[i].ref : i \in {k \in Which(rows, S, "resolved") : rows[k].val = o}}
      allowed == Which(rows, S, "gate")
      upheld == {i \in allowed : rows[i].ref \in verdict("keep")}
      rejected == {i \in allowed \ upheld : rows[i].ref \in verdict("discard")}
  IN Share(Cardinality(upheld), Cardinality(upheld \cup rejected))

propose_keep_ratio(rows, S) ==
  LET of(o) == {i \in Which(rows, S, "resolved") : rows[i].val = o}
  IN Share(Cardinality(of("keep")), Cardinality(of("keep") \cup of("discard")))

ramp_delta(rows, S) ==
  Min({100, (100 * Cardinality(Which(rows, S, "memory") \cup Which(rows, S, "kpi_proposed"))) \div Full})

reactivity_confirm_rate(rows, S) ==
  LET refs(what) == {rows[i].ref : i \in Which(rows, S, what)}
  IN Share(Cardinality(refs("reactivity_proposed") \cap refs("reactivity_confirmed")),
           Cardinality(refs("reactivity_proposed")))

fired(rows, S, rid) == Cardinality({i \in Which(rows, S, "fired") : rows[i].ref = rid})

top_contributor_reactivity(rows, S) ==
  LET rids == {rows[i].ref : i \in Which(rows, S, "fired")}
  IN IF rids = {} THEN "none" ELSE CHOOSE r \in rids : \A q \in rids : fired(rows, S, q) <= fired(rows, S, r)

(* What keeping proposals weighs against the rest, last recorded by then.      *)
resolve_weights(rows, height) ==
  LET seen == {i \in Are(rows, "weights") : done(rows[i]) <= height}
  IN IF seen = {} THEN 1 ELSE rows[Max(seen)].val

composite_score(rows, height) ==
  IF in_scope(rows, height) = {} THEN [score |-> 50, parts |-> <<50, 50, 50, 50>>]
  ELSE LET S == in_window(rows, height)
           w == resolve_weights(rows, height)
           parts == <<gate_fire_precision(rows, S), propose_keep_ratio(rows, S),
                      ramp_delta(rows, S), reactivity_confirm_rate(rows, S)>>
       IN [score |-> (parts[1] + w * parts[2] + parts[3] + parts[4]) \div (3 + w), parts |-> parts]

(* n / d to the nearest integer, halves to the even one.                     *)
rounded(n, d) ==
  LET q == n \div d
      r == 2 * (n % d)
  IN IF r < d THEN q ELSE IF r > d THEN q + 1 ELSE q + (q % 2)

(* The heights of a series: evenly spread, then the highest that are left.    *)
sampled(rows) ==
  LET hi == Height(rows)
      even == {rounded((Points - 1) + i * (hi - 1), Points - 1) : i \in 0 .. Points - 1}
      left == (1 .. hi) \ even
  IN even \cup {h \in left : Cardinality({g \in left : g > h}) < Points - Cardinality(even)}

composite_score_series(rows) ==
  [h \in sampled(rows) |-> composite_score(rows, h) @@
     [top |-> top_contributor_reactivity(rows, in_window(rows, h))]]

-----------------------------------------------------------------------------
(* Keep rates of a day, here a time: an experiment has the audience of the     *)
(* last proposal of it.                                                      *)

proposal_audience(rows, ref) ==
  LET all == {i \in Are(rows, "experiment") : rows[i].ref = ref}
  IN IF all = {} THEN "person" ELSE rows[Max(all)].val

keep_rate_for_window(rows, day, scope) ==
  LET of(o) == {i \in Are(rows, "resolved") :
                  rows[i].ts = day /\ rows[i].val = o /\ proposal_audience(rows, rows[i].ref) = scope}
  IN [kept |-> Cardinality(of("keep")), total |-> Cardinality(of("keep") \cup of("discard"))]

Scopes == {"person", "team", "company"}

-----------------------------------------------------------------------------
(* The gauges: how often an axis was fed, and when, over the last hour.       *)

matches_axis(what, axis) ==
  CASE axis = "conversational" -> what = "chat"
    [] axis = "relational" -> what \in {"kpi_proposed", "kpi_node"}
    [] axis = "ontology" -> what = "concept_confirmed"

Axes == {"conversational", "relational", "ontology"}

bucket_index(t, now) ==
  IF now < t THEN Buckets ELSE IF now - t >= Buckets THEN 0 ELSE Buckets - (now - t)

gauge(rows, axis, now) ==
  LET fed == SelectSeq(rows, LAMBDA r : matches_axis(r.what, axis))
      recent == SubSeq(fed, Max({1, Len(fed) - Recent + 1}), Len(fed))
  IN [count |-> Len(fed), last |-> IF fed = <<>> THEN 0 ELSE done(Last(fed)),
      sparkline |-> [b \in 1 .. Buckets |->
        Cardinality({i \in DOMAIN recent : bucket_index(recent[i].ts, now) = b})]]

-----------------------------------------------------------------------------
(* The axes of the knowledge ramp, in percent.                               *)

Refs(rows, what) == {rows[i].ref : i \in Are(rows, what)}

Of80(part, whole) == IF whole = 0 THEN 0 ELSE Min({100, (125 * part) \div whole})

ontology_axis(rows, after) ==
  LET relevant == {i \in Are(rows, "trigger") : rows[i].ts >= after}
  IN Of80(Cardinality({i \in relevant : rows[i].val # "below_floor"}), Cardinality(relevant))

schema_axis(rows) ==
  LET connected == Refs(rows, "connected")
  IN IF connected = {} THEN 0
     ELSE (100 * Cardinality(connected \cap Refs(rows, "profiled"))) \div Cardinality(connected)

business_definitions_axis(rows) ==
  Of80(Cardinality(Refs(rows, "concept_confirmed") \cap Refs(rows, "mentioned")),
       Cardinality(Refs(rows, "mentioned")))

kpi_relational_axis(rows) ==
  LET last(k) == rows[Max({i \in Are(rows, "kpi_node") : rows[i].ref = k})].val
      nodes == Refs(rows, "kpi_node")
  IN IF nodes = {} THEN 0
     ELSE (100 * Cardinality({k \in nodes : last(k) # "none"})) \div Cardinality(nodes)

conversational_axis(rows) ==
  Min({50, (50 * Cardinality(Are(rows, "chat"))) \div Full})
  + (IF Are(rows, "answered") = {} THEN 0 ELSE 50)

operational_axis(rows) == Min({100, (100 * Cardinality(Refs(rows, "template"))) \div 3})

(* The newest row, not the latest, says what time it is.                     *)
KnowledgeRamp(rows) ==
  LET now == IF rows = <<>> THEN 0 ELSE Last(rows).ts
  IN <<ontology_axis(rows, now - Window), schema_axis(rows), business_definitions_axis(rows),
       kpi_relational_axis(rows), conversational_axis(rows), operational_axis(rows)>>

write_snapshot(rows) ==
  Append(rows, [what |-> "memory", ref |-> "none", val |-> "ramp_snapshot",
                ts |-> IF rows = <<>> THEN 0 ELSE Last(rows).ts, seq |-> Height(rows) + 1, about |-> 0])

-----------------------------------------------------------------------------
Found(now) == compute_first_knowings(ledger, Kinds, All, now)

(* What is told is once in the list, by the first to notice it, is open, and    *)
(* all that is open is told; the newest comes first; a longer look back shows   *)
(* more, and messages told with it are neighbours of the one it is about        *)
(* (first_knowings.py).                                                      *)
KnowingsTell ==
  \A now \in Times :
    LET list == Found(now)
        settled == {r \in {ledger[i].ref : i \in DOMAIN ledger} :
                      \E i \in DOMAIN ledger : ledger[i].ref = r /\ ledger[i].what \in
                        {"person_confirmed", "reactivity_confirmed", "reactivity_disabled",
                         "gap_resolved", "person_archived"}}
        noticed == {<<ledger[i].what, ledger[i].ref>> : i \in {k \in DOMAIN ledger :
                      ledger[k].what = "gap" \/ (ledger[k].what \in Kinds /\ ledger[k].val = "worm")}}
    IN /\ {<<list[i].what, list[i].ref>> : i \in DOMAIN list} = {p \in noticed : p[2] \notin settled}
       /\ \A i, j \in DOMAIN list : i < j =>
            list[i].seq > list[j].seq /\ <<list[i].what, list[i].ref>> # <<list[j].what, list[j].ref>>
       /\ \A i \in DOMAIN list : list[i].called = list[i].ref
       /\ \A short, long \in 0 .. All :
            short <= long =>
              Range(compute_first_knowings(ledger, Kinds, short, now))
                \subseteq Range(compute_first_knowings(ledger, Kinds, long, now))
       /\ \A i \in DOMAIN list : list[i].about > 0 =>
            LET told == chatter_context(ledger, list[i].about)
                all == chat_rows_by_seq(ledger)
            IN /\ list[i].about \in told /\ Cardinality(told) <= 2 * Radius + 1
               /\ \A c \in all : (Min(told) <= c /\ c <= Max(told)) => c \in told

(* What was told of a height stays so whatever is recorded after it.          *)
PastPointsStay ==
  \A k \in DOMAIN ledger, h \in 1 .. Height(ledger) :
    h <= Height(SubSeq(ledger, 1, k))
      => composite_score(ledger, h) = composite_score(SubSeq(ledger, 1, k), h)

(* A series spans the ledger with as many points as there can be, each over     *)
(* rows that end at its height.                                              *)
SeriesSpans ==
  ledger # <<>> =>
    LET hi == Height(ledger)
        S == DOMAIN composite_score_series(ledger)
    IN /\ 1 \in S /\ hi \in S /\ S \subseteq 1 .. hi
       /\ Cardinality(S) = Min({Points, hi})
       /\ \A h \in S : LET p == composite_score_series(ledger)[h]
                       IN p.score >= Min(Range(p.parts)) /\ p.score <= Max(Range(p.parts))

(* Every resolution of a day counts in one scope.                            *)
RatesCount ==
  \A day \in Times :
    /\ MapThenSumSet(LAMBDA s : keep_rate_for_window(ledger, day, s).total, Scopes)
         = Cardinality({i \in Are(ledger, "resolved") : ledger[i].ts = day})
    /\ \A s \in Scopes : keep_rate_for_window(ledger, day, s).kept <= keep_rate_for_window(ledger, day, s).total

GaugesTell ==
  \A axis \in Axes, now \in Times :
    LET g == gauge(ledger, axis, now)
        shown == MapThenSumSet(LAMBDA b : g.sparkline[b], 1 .. Buckets)
        recent == {i \in DOMAIN ledger : matches_axis(ledger[i].what, axis) /\ now - ledger[i].ts < Buckets}
    IN /\ shown <= Recent /\ shown <= Cardinality(recent)
       /\ g.count <= Recent => shown = Cardinality(recent)
       /\ (g.last = 0) = (g.count = 0)

(* Recording what the axes were leaves them as they were.                    *)
SnapshotsAreNeutral ==
  LET axes == KnowledgeRamp(ledger)
  IN KnowledgeRamp(write_snapshot(ledger)) = axes /\ \A i \in DOMAIN axes : axes[i] \in 0 .. 100

(* Scores, rates, gauges and axes tell what the ledger says, now and later      *)
(* (composite_score.py, keep_rate.py, knowledge_ramp.py, ramp.py).            *)
ScoresStand == PastPointsStay /\ SeriesSpans /\ RatesCount /\ GaugesTell /\ SnapshotsAreNeutral

(* What is read of the ledger tells what is in it.                           *)
ReadingsStand == KnowingsTell /\ ScoresStand
=============================================================================
