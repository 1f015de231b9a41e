---------------------------- MODULE ResearchLoop ----------------------------
(***************************************************************************)
(* packages/wormbase-research-loop: the autoresearch loop.  An experiment   *)
(* is proposed, run and resolved; a kept one publishes a notebook and       *)
(* yields a lesson, which later proposals of the same scope read and stamp; *)
(* keep rates are published per day.  The ledger is the only shared state.  *)
(*                                                                         *)
(* Two ways of driving it: the four reactivities of reactivities.py, which  *)
(* the ReactivityRunner (module Reactivities) hands the ledger's rows, and  *)
(* the timer loops of loop.py, one per scope.  Every ledger call is an      *)
(* await, so the others run between any two of them.                        *)
(*                                                                         *)
(* One person with a position, one team; an audience is a scope.  A row is  *)
(* the execute row of its cycle.  An experiment id is what its uuid5 hashes:*)
(* the driver, the signal's seq or the cycle, and the candidate.            *)
(***************************************************************************)
EXTENDS Integers, Sequences, FiniteSets

CONSTANTS
  Candidates,      \* position_candidates of the person's position
  KeptCandidates,  \* those whose experiments hash to keep in _resolve
  Metric,          \* Metric[c]: headline_metric_id
  Round,           \* Round[n]: _pick_candidate of a timer loop's n-th cycle
  Drivers,         \* scopes whose timer loop runs
  Bound,           \* reactivities bound to the runner, of 1 to 4
  Hints,           \* scopes that signals name
  History,         \* rows of earlier processes, there at boot
  Budget,          \* Budget[s]: _budget_for_scope
  PerDay,          \* per_scope_daily_budget of the trigger
  Cool,            \* recently_fired_window_seconds, in units of time
  Day, Week,       \* a day and the seven-day look-back, in units of time
  MaxSignals, MaxCycles, MaxNow, MaxBack, MaxFaults, MaxRestarts   \* bounds

Scopes == {"person", "team", "company"}
Rank == [s \in Scopes |-> CASE s = "person" -> 0 [] s = "team" -> 1 [] OTHER -> 2]

CandidatesAssumption ==
  /\ KeptCandidates \subseteq Candidates /\ Drivers \subseteq Scopes /\ Hints \subseteq Scopes
  /\ Bound \subseteq 1 .. 4
TimeAssumption == Day \in Nat \ {0} /\ Week \in Nat /\ Cool \in Nat

VARIABLES
  rows,        \* execute rows of the tenant, oldest first
  now,         \* the clock
  job,         \* job[a]: the experiment or rows actor a is busy with
  cycle,       \* cycle_count of each timer loop
  cursor, pos, qend, re,   \* run_once: cursor, row and binding at hand, last row
  spent,       \* spent[d]: the trigger's charges on day d
  fired_at,    \* last fire of trigger, resolve and keep-rate, -1 for none
  gate,        \* history: gate[d], keep-rate fires recorded on day d
  count        \* how much of each bound is used up

runner == <<cursor, pos, qend, re>>
registry == <<spent, fired_at, gate>>
vars == <<rows, now, job, cycle, runner, registry, count>>

Actors == Drivers \cup {"runner"}
NoExp == <<"none", 0, "none">>
Idle == [step |-> "idle", x |-> NoExp, aud |-> "person", out |-> "none", t |-> 0, todo |-> <<>>]
Never == -1
DayOf(t) == t \div Day
Days == 0 .. DayOf(MaxNow)

Init ==
  /\ rows = History /\ now = 0
  /\ job = [a \in Actors |-> Idle]
  /\ cycle = [d \in Drivers |-> 0]
  /\ cursor = 0 /\ pos = 0 /\ qend = 0 /\ re = 1
  /\ spent = [d \in Days |-> 0]
  /\ fired_at = [r \in {1, 2, 4} |-> Never]
  /\ gate = [d \in Days |-> 0]
  /\ count = [signals |-> 0, back |-> 0, faults |-> 0, restarts |-> 0]

-----------------------------------------------------------------------------
Row(k, x, aud, out, t, v) == [k |-> k, x |-> x, aud |-> aud, out |-> out, ts |-> t, v |-> v]

Of(k, x) == {i \in 1 .. Len(rows) : rows[i].k = k /\ rows[i].x = x}

Maximum(S) == CHOOSE n \in S : \A k \in S : k <= n

Use(bound) == count' = [count EXCEPT ![bound] = @ + 1]

(* A ledger write; one that raises is logged by every caller here, which    *)
(* goes on as if it had succeeded.                                          *)
Write(row) ==
  \/ rows' = Append(rows, row) /\ UNCHANGED count
  \/ count.faults < MaxFaults /\ Use("faults") /\ UNCHANGED rows

Goto(a, step) == job' = [job EXCEPT ![a].step = step]

(* The audience an experiment was proposed for, from its latest proposed    *)
(* row, as the indexes over the ledger have it.                             *)
Audience(x) == rows[Maximum(Of("proposed", x))].aud

(* _latest_proposed_seq.                                                    *)
LatestProposed(x) == IF Of("proposed", x) = {} THEN 0 ELSE Maximum(Of("proposed", x))

-----------------------------------------------------------------------------
(* recent_lessons_for_scope: the latest lesson row of every kept experiment *)
(* of the scope, within the look-back.                                      *)
Recent(aud, t) ==
  {i \in 1 .. Len(rows) : rows[i].k = "lesson" /\ rows[i].aud = aud /\ rows[i].ts >= t - Week}

recent_lessons_for_scope(aud, t) ==
  {i \in Recent(aud, t) : \A j \in Recent(aud, t) : rows[j].x = rows[i].x => j <= i}

RECURSIVE Descending(_)
Descending(S) ==
  IF S = {} THEN <<>> ELSE <<Maximum(S)>> \o Descending(S \ {Maximum(S)})

(* mark_lessons_applied skips those that carry a stamp.                     *)
Unstamped(aud, t) == Descending({i \in recent_lessons_for_scope(aud, t) : rows[i].v = 0})

(* _emit_proposed: read the lessons, write the proposal ...                 *)
Propose(a) ==
  LET lessons == Unstamped(job[a].aud, job[a].t)
  IN
  /\ job[a].step = "propose"
  /\ Write(Row("proposed", job[a].x, job[a].aud, "none", job[a].t, 0))
  /\ job' = [job EXCEPT ![a].todo = lessons, ![a].step = IF lessons = <<>> THEN "run" ELSE "stamp"]
  /\ UNCHANGED <<now, cycle, runner, registry>>

(* ... and stamp them with its seq, one row each, unless the proposal       *)
(* itself was lost.                                                         *)
Stamp(a) ==
  LET lesson == rows[Head(job[a].todo)]
      rest == Tail(job[a].todo)
      seq == LatestProposed(job[a].x)
  IN
  /\ job[a].step = "stamp"
  /\ IF seq = 0
       THEN /\ job' = [job EXCEPT ![a].todo = <<>>, ![a].step = "run"]
            /\ UNCHANGED <<rows, count>>
       ELSE \/ /\ rows' = Append(rows, Row("lesson", lesson.x, lesson.aud, "none", job[a].t, seq))
               /\ job' = [job EXCEPT ![a].todo = rest, ![a].step = IF rest = <<>> THEN "run" ELSE "stamp"]
               /\ UNCHANGED count
            \/ /\ count.faults < MaxFaults /\ Use("faults")
               /\ job' = [job EXCEPT ![a].todo = <<>>, ![a].step = "run"]
               /\ UNCHANGED rows
  /\ UNCHANGED <<now, cycle, runner, registry>>

(* AutoresearchLoop._resolve hashes the experiment id.                      *)
Verdict(x) == IF x[3] \in KeptCandidates THEN "keep" ELSE "discard"

(* _emit_run.  The trigger resolves straight away; the timer loops ask for  *)
(* higher scopes first.                                                     *)
Run(a) ==
  /\ job[a].step = "run"
  /\ Write(Row("run", job[a].x, job[a].aud, "none", job[a].t, 0))
  /\ job' = [job EXCEPT ![a].step = IF a = "runner" THEN "resolve" ELSE "arbitrate",
                        ![a].out = Verdict(job[a].x)]
  /\ UNCHANGED <<now, cycle, runner, registry>>

(* _check_higher_scope_conflict: a keep of a higher scope on the metric.    *)
check_higher_scope_conflict(metric, aud, t) ==
  \E i \in 1 .. Len(rows) :
    /\ rows[i].k = "resolved" /\ rows[i].out = "keep" /\ rows[i].ts >= t - Week
    /\ Of("proposed", rows[i].x) # {}
    /\ Metric[rows[i].x[3]] = metric
    /\ Rank[Audience(rows[i].x)] > Rank[aud]

Arbitrate(a) ==
  /\ job[a].step = "arbitrate"
  /\ job' = [job EXCEPT
       ![a].out = IF check_higher_scope_conflict(Metric[job[a].x[3]], job[a].aud, job[a].t)
                    THEN "discard" ELSE Verdict(job[a].x),
       ![a].step = "resolve"]
  /\ UNCHANGED <<rows, now, cycle, runner, registry, count>>

(* Team and company loops publish no notebook; timer loops then learn.      *)
AfterResolve(a) ==
  IF job[a].out = "keep" /\ a \in {"runner", "person"} THEN "publish"
  ELSE IF a = "runner" THEN "charge" ELSE "learn"

(* _emit_resolved.                                                          *)
Resolve(a) ==
  /\ job[a].step = "resolve"
  /\ Write(Row("resolved", job[a].x, job[a].aud, job[a].out, job[a].t, 0))
  /\ Goto(a, AfterResolve(a))
  /\ UNCHANGED <<now, cycle, runner, registry>>

(* _publish_keep_notebook: its last row.                                    *)
Publish(a) ==
  /\ job[a].step = "publish"
  /\ Write(Row("notebook", job[a].x, job[a].aud, "none", job[a].t, 0))
  /\ Goto(a, IF a = "runner" THEN "charge" ELSE "learn")
  /\ UNCHANGED <<now, cycle, runner, registry>>

-----------------------------------------------------------------------------
KeptResolved(x) == {i \in Of("resolved", x) : rows[i].out = "keep"}

(* Fault: lessons are looked up by the row, not by the experiment.          *)
LearnableAgain(x) == KeptResolved(x) # {} /\ Of("proposed", x) # {}

(* Fault: any lesson at all counts as this experiment's.                    *)
LearnableFirst(x) ==
  KeptResolved(x) # {} /\ Of("proposed", x) # {} /\ \A i \in 1 .. Len(rows) : rows[i].k # "lesson"

(* A kept experiment without a lesson whose proposal is there to describe.  *)
Learnable(x) == KeptResolved(x) # {} /\ Of("proposed", x) # {} /\ Of("lesson", x) = {}

(* extract_lessons_for_kept: read once, then one row per keep, in order.    *)
Missing ==
  LET firsts == {i \in 1 .. Len(rows) : /\ rows[i].k = "resolved" /\ Learnable(rows[i].x)
                                        /\ \A j \in KeptResolved(rows[i].x) : i <= j}
      down == Descending(firsts)
  IN  [n \in 1 .. Len(down) |-> down[Len(down) + 1 - n]]

Finish(d) ==
  /\ job' = [job EXCEPT ![d] = Idle]
  /\ cycle' = [cycle EXCEPT ![d] = @ + 1]

Learn(d) ==
  /\ job[d].step = "learn"
  /\ IF Missing = <<>>
       THEN Finish(d)
       ELSE job' = [job EXCEPT ![d].todo = Missing, ![d].step = "lesson"] /\ UNCHANGED cycle
  /\ UNCHANGED <<rows, now, runner, registry, count>>

(* _write_lesson, with the resolution's time.                               *)
WriteLesson(a) ==
  LET kept == rows[Head(job[a].todo)]
  IN
  /\ job[a].step = "lesson"
  /\ Write(Row("lesson", kept.x, Audience(kept.x), "none", kept.ts, 0))
  /\ IF a = "runner"
       THEN Goto(a, "charge") /\ UNCHANGED cycle
       ELSE IF Len(job[a].todo) = 1
              THEN Finish(a)
              ELSE job' = [job EXCEPT ![a].todo = Tail(@)] /\ UNCHANGED cycle
  /\ UNCHANGED <<now, runner, registry>>

-----------------------------------------------------------------------------
(* The timer loops.                                                         *)

(* _audience_count_today: proposals for the audience in the last 24 hours.  *)
audience_count_today(s, t) ==
  Cardinality({i \in 1 .. Len(rows) :
                 rows[i].k = "proposed" /\ rows[i].aud = s /\ rows[i].ts >= t - Day})

(* The team and company loops look at their budget, the person loop at none.*)
Exhausted(d) == d # "person" /\ audience_count_today(d, now) >= Budget[d]

StartCycle(d) ==
  /\ job[d].step = "idle" /\ cycle[d] < MaxCycles
  /\ ~Exhausted(d)
  /\ job' = [job EXCEPT ![d] =
       [Idle EXCEPT !.step = IF d = "person" THEN "observe" ELSE "propose", !.t = now, !.aud = d,
                    !.x = <<d, cycle[d], Round[cycle[d]]>>]]
  /\ UNCHANGED <<rows, now, cycle, runner, registry, count>>

SkipCycle(d) ==
  /\ job[d].step = "idle" /\ cycle[d] < MaxCycles
  /\ Exhausted(d)
  /\ cycle' = [cycle EXCEPT ![d] = @ + 1]
  /\ UNCHANGED <<rows, now, job, runner, registry, count>>

(* _emit_metric_observation: a signal that names no person.                 *)
Observe(d) ==
  /\ job[d].step = "observe"
  /\ Write(Row("signal", NoExp, "company", "none", job[d].t, 0))
  /\ Goto(d, "propose")
  /\ UNCHANGED <<now, cycle, runner, registry>>

Timer(d) == StartCycle(d) \/ SkipCycle(d) \/ Observe(d) \/ Arbitrate(d) \/ Learn(d)

-----------------------------------------------------------------------------
(* The reactivities: 1 trigger, 2 resolve, 3 lesson, 4 keep rate.           *)

NotRecentlyFired(r, window) == fired_at[r] = Never \/ fired_at[r] < now - window

(* conditions.Periodic: a later bucket than that of the last fire.          *)
Periodic == fired_at[4] = Never \/ DayOf(now) > DayOf(fired_at[4])

(* Predicate and condition.  The lesson reactivity's cooldown reads a key   *)
(* that no fire is recorded under, so it never denies.                      *)
Eligible(r, row) ==
  r \in Bound /\
  CASE r = 1 -> /\ row.k \in {"signal", "lesson", "resolved"}
                /\ spent[DayOf(now)] < PerDay /\ NotRecentlyFired(1, Cool)
    [] r = 2 -> row.k = "run" /\ NotRecentlyFired(2, Cool)
    [] r = 3 -> row.k = "resolved" /\ row.out = "keep"
    [] r = 4 -> row.k = "resolved" /\ Periodic /\ NotRecentlyFired(4, Day)

Fetch ==
  /\ Bound # {} /\ job["runner"].step = "idle" /\ cursor < Len(rows)
  /\ pos' = cursor + 1 /\ qend' = Len(rows) /\ re' = 1
  /\ Goto("runner", "dispatch")
  /\ UNCHANGED <<rows, now, cycle, cursor, registry, count>>

NextBinding ==
  /\ job' = [job EXCEPT !["runner"] = [Idle EXCEPT !.step = "dispatch"]]
  /\ IF re < 4 THEN re' = re + 1 /\ UNCHANGED pos
               ELSE re' = 1 /\ pos' = pos + 1
  /\ UNCHANGED <<cursor, qend>>

Dispatching(r) == job["runner"].step = "dispatch" /\ pos <= qend /\ re = r

Begin(step, x, aud, todo) ==
  job' = [job EXCEPT !["runner"] =
           [step |-> step, x |-> x, aud |-> aud, out |-> "none", t |-> now, todo |-> todo]]

(* _resolve_scope: a signal's hint, the company for anything else; the      *)
(* candidate comes from hash() of a string, which differs from process to   *)
(* process.                                                                 *)
FireTrigger(c) ==
  /\ Dispatching(1) /\ Eligible(1, rows[pos])
  /\ Begin("propose", <<"trigger", pos, c>>,
           IF rows[pos].k = "signal" THEN rows[pos].aud ELSE "company", <<>>)
  /\ UNCHANGED <<rows, now, cycle, runner, registry, count>>

(* resolve_experiment: an existing resolution is taken as it is.            *)
FireResolve ==
  LET x == rows[pos].x
      first == rows[CHOOSE i \in Of("resolved", x) : \A j \in Of("resolved", x) : i <= j]
      known == Of("resolved", x) # {}
  IN
  /\ Dispatching(2) /\ Eligible(2, rows[pos])
  /\ Of("proposed", x) # {}
  /\ job' = [job EXCEPT !["runner"] =
       [step |-> IF ~known THEN "arbitrate" ELSE IF first.out = "keep" THEN "publish" ELSE "charge",
        x |-> x, aud |-> Audience(x), out |-> IF known THEN first.out ELSE "none",
        t |-> now, todo |-> <<>>]]
  /\ UNCHANGED <<rows, now, cycle, runner, registry, count>>

(* extract_lesson for the kept experiment of the row.                       *)
FireLesson ==
  LET x == rows[pos].x
  IN
  /\ Dispatching(3) /\ Eligible(3, rows[pos])
  /\ Learnable(x)
  /\ Begin("lesson", x, "person", <<CHOOSE i \in KeptResolved(x) : \A j \in KeptResolved(x) : i <= j>>)
  /\ UNCHANGED <<rows, now, cycle, runner, registry, count>>

(* keep_rate_for_window: resolutions of the scope on the day.               *)
Total(s, d) ==
  Cardinality({i \in 1 .. Len(rows) :
    /\ rows[i].k = "resolved" /\ DayOf(rows[i].ts) = d
    /\ s = IF Of("proposed", rows[i].x) = {} THEN "person" ELSE Audience(rows[i].x)})

(* publish_for_day(today): the rates of all scopes are computed first.      *)
FireKeepRate ==
  LET rate(s) == Row("rate", <<"day", DayOf(now), s>>, s, "none", now, Total(s, DayOf(now)))
  IN
  /\ Dispatching(4) /\ Eligible(4, rows[pos])
  /\ Begin("rate", NoExp, "person", <<rate("person"), rate("team"), rate("company")>>)
  /\ UNCHANGED <<rows, now, cycle, runner, registry, count>>

(* One scope: _already_published, or _emit_publication; the next scope.     *)
PublishRate ==
  LET rate == Head(job["runner"].todo)
      rest == Tail(job["runner"].todo)
  IN
  /\ job["runner"].step = "rate"
  /\ rows' = IF Of("rate", rate.x) = {} THEN Append(rows, rate) ELSE rows
  /\ job' = [job EXCEPT !["runner"].todo = rest,
                        !["runner"].step = IF rest = <<>> THEN "charge" ELSE "rate"]
  /\ UNCHANGED <<now, cycle, runner, registry, count>>

(* publish_for_day raises: the reactivity reports that it did not fire.     *)
PublishRateFails ==
  /\ job["runner"].step = "rate" /\ count.faults < MaxFaults
  /\ NextBinding
  /\ Use("faults")
  /\ UNCHANGED <<rows, now, cycle, registry>>

(* Predicate or condition deny, or fire has nothing to do.                  *)
Pass ==
  /\ job["runner"].step = "dispatch" /\ pos <= qend
  /\ ~Eligible(re, rows[pos]) \/ (re = 2 /\ Of("proposed", rows[pos].x) = {})
       \/ (re = 3 /\ ~Learnable(rows[pos].x))
  /\ NextBinding
  /\ UNCHANGED <<rows, now, cycle, registry, count>>

ResolveArbitrates == Arbitrate("runner")

(* _on_fire.                                                                *)
Charge ==
  /\ job["runner"].step = "charge"
  /\ spent' = IF re = 1 THEN [spent EXCEPT ![DayOf(now)] = @ + 1] ELSE spent
  /\ fired_at' = IF re = 3 THEN fired_at ELSE [fired_at EXCEPT ![re] = now]
  /\ gate' = IF re = 4 THEN [gate EXCEPT ![DayOf(now)] = @ + 1] ELSE gate
  /\ NextBinding
  /\ UNCHANGED <<rows, now, cycle, count>>

(* run_once ends: the cursor goes to the tail the ledger has now.           *)
PostFetch ==
  /\ job["runner"].step = "dispatch" /\ pos > qend
  /\ cursor' = Len(rows)
  /\ job' = [job EXCEPT !["runner"] = Idle]
  /\ UNCHANGED <<rows, now, cycle, pos, qend, re, registry, count>>

Runner ==
  \/ Fetch \/ Pass \/ FireResolve \/ FireLesson \/ FireKeepRate \/ PublishRate
  \/ ResolveArbitrates \/ Charge \/ PostFetch
  \/ \E c \in Candidates : FireTrigger(c)

-----------------------------------------------------------------------------
(* A gap, a metric or a chat message, from any other component.             *)
Signal(hint) ==
  /\ count.signals < MaxSignals
  /\ rows' = Append(rows, Row("signal", NoExp, hint, "none", now, 0))
  /\ Use("signals")
  /\ UNCHANGED <<now, job, cycle, runner, registry>>

Tick ==
  /\ now < MaxNow
  /\ now' = now + 1
  /\ UNCHANGED <<rows, job, cycle, runner, registry, count>>

(* The wall clock is set back while no poll is running.                     *)
StepBack ==
  /\ now > 0 /\ count.back < MaxBack /\ job["runner"].step = "idle"
  /\ now' = now - 1
  /\ Use("back")
  /\ UNCHANGED <<rows, job, cycle, runner, registry>>

Restart ==
  /\ count.restarts < MaxRestarts
  /\ job' = [a \in Actors |-> Idle]
  /\ cycle' = [d \in Drivers |-> 0]
  /\ cursor' = 0 /\ pos' = 0 /\ qend' = 0 /\ re' = 1
  /\ spent' = [d \in Days |-> 0]
  /\ fired_at' = [r \in {1, 2, 4} |-> Never]
  /\ gate' = [d \in Days |-> 0]
  /\ Use("restarts")
  /\ UNCHANGED <<rows, now>>

Step(a) == Propose(a) \/ Stamp(a) \/ Run(a) \/ Resolve(a) \/ Publish(a) \/ WriteLesson(a)

Next ==
  \/ \E a \in Actors : Step(a)
  \/ \E d \in Drivers : Timer(d)
  \/ Runner \/ PublishRateFails
  \/ \E h \in Hints : Signal(h)
  \/ Tick \/ StepBack \/ Restart

(* The runner and the loops poll for ever.                                  *)
Spec ==
  /\ Init /\ [][Next]_vars
  /\ WF_vars(Runner \/ Step("runner"))
  /\ \A d \in Drivers : WF_vars(Timer(d) \/ Step(d))

-----------------------------------------------------------------------------
Steps == {"idle", "dispatch", "observe", "propose", "stamp", "run", "arbitrate", "resolve",
          "publish", "learn", "lesson", "rate", "charge"}

(* The ledger rows, the actors and the runner's counters have their types;  *)
(* no process charges the trigger more often than its budget allows.        *)
TypeOK ==
  /\ \A i \in 1 .. Len(rows) :
       /\ rows[i].k \in {"signal", "proposed", "run", "resolved", "notebook", "lesson", "rate"}
       /\ rows[i].aud \in Scopes /\ rows[i].ts \in 0 .. MaxNow
       /\ rows[i].k = "resolved" => rows[i].out \in {"keep", "discard"}
  /\ \A a \in Actors : job[a].step \in Steps /\ job[a].t \in 0 .. MaxNow
  /\ now \in 0 .. MaxNow /\ cursor \in 0 .. Len(rows) /\ re \in 1 .. 4
  /\ cycle \in [Drivers -> 0 .. MaxCycles]
  /\ \A d \in Days : spent[d] \in 0 .. PerDay

(* An experiment has one lesson of its own: later lesson rows of it only    *)
(* carry the stamp of the proposal that read it (learn.py, "a lesson is     *)
(* only written once per prior_keep_id").                                   *)
LessonsOnce ==
  \A x \in {rows[i].x : i \in 1 .. Len(rows)} :
    Cardinality({i \in Of("lesson", x) : rows[i].v = 0}) <= 1

LatestStamp(x) == IF Of("lesson", x) = {} THEN 0 ELSE rows[Maximum(Of("lesson", x))].v

(* Once a lesson counts as applied by a proposal, no later row says it was  *)
(* another proposal, or none (mark_lessons_applied).                        *)
StampStands ==
  [][\A x \in {rows[i].x : i \in 1 .. Len(rows)} :
       LatestStamp(x) # 0 => LatestStamp(x)' = LatestStamp(x)]_vars

(* A day's keep rate of a scope is published once, whatever restarts and    *)
(* clocks do (_already_published).                                          *)
PublishedOnce ==
  \A x \in {rows[i].x : i \in 1 .. Len(rows)} : Cardinality(Of("rate", x)) <= 1

(* The keep-rate gate opens once per day of one process, also when the      *)
(* clock is set back over midnight (conditions.Periodic).                   *)
GateOncePerDay == \A d \in Days : gate[d] <= 1

(* A keep of a higher scope on a metric stands when a lower scope's run of  *)
(* that metric is written: the lower one is not kept (the arbitration rule  *)
(* at the head of loop.py; a keep whose proposal was lost has no scope).     *)
HigherScopeWins ==
  \A i, j, n \in 1 .. Len(rows) :
    /\ i < j /\ j < n
    /\ rows[i].k = "resolved" /\ rows[i].out = "keep"
    /\ \E p \in Of("proposed", rows[i].x) : p < j
    /\ rows[j].k = "run" /\ rows[n].k = "resolved" /\ rows[n].x = rows[j].x
    /\ Metric[rows[i].x[3]] = Metric[rows[j].x[3]]
    /\ Rank[rows[i].aud] > Rank[rows[j].aud] /\ rows[i].ts >= rows[j].ts - Week
    => rows[n].out = "discard"

(* The daily budget of a team or the company survives restarts: it is       *)
(* counted on the ledger.                                                   *)
CapSurvivesRestart ==
  \A d \in Scopes \ {"person"} : audience_count_today(d, now) <= Budget[d]

(* A person's experiments stay within the person's daily budget.            *)
PersonCap == audience_count_today("person", now) <= Budget["person"]

(* Every kept experiment is learned from.                                   *)
KeepLearned ==
  \A n \in 0 .. MaxCycles + MaxSignals, c \in KeptCandidates, a \in Drivers \cup {"trigger"} :
    LET x == <<a, n, c>>
    IN  (KeptResolved(x) # {} /\ Of("proposed", x) # {}) ~> (Of("lesson", x) # {})

(* A kept experiment's notebook is published once.                          *)
NotebookOnce == \A x \in {rows[i].x : i \in 1 .. Len(rows)} : Cardinality(Of("notebook", x)) <= 1

(* A published rate counts every resolution of its day.                     *)
KeepRateFinal ==
  \A i \in 1 .. Len(rows) :
    rows[i].k = "rate" /\ now >= (rows[i].x[2] + 1) * Day /\ (\A a \in Actors : job[a].step = "idle")
      => rows[i].v = Total(rows[i].aud, rows[i].x[2])

(* A signal leads to the same candidate whenever it is replayed.            *)
SignalOneCandidate ==
  \A i, j \in 1 .. Len(rows) :
    /\ rows[i].k = "proposed" /\ rows[j].k = "proposed"
    /\ rows[i].x[1] = "trigger" /\ rows[j].x[1] = "trigger" /\ rows[i].x[2] = rows[j].x[2]
    => rows[i].x[3] = rows[j].x[3]
=============================================================================
