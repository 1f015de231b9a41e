----------------------------- MODULE ChatIntake -----------------------------
(***************************************************************************)
(* From a message of a channel to what the worm does about it.  A message is *)
(* captured in the ledger; the poller, or the lurker that captured it, takes  *)
(* it through the three stages of the reactivity pipeline and dispatches a    *)
(* flow; the chat reactivities answer it; the gap poller proposes sources for  *)
(* missing metrics; and every clarifying question passes one gate.  A text is  *)
(* the set of the features that the patterns of the code look for.            *)
(***************************************************************************)
EXTENDS Integers, Sequences, FiniteSets, FiniteSetsExt, SequencesExt, TLC

CONSTANTS
  Messages,        \* [id, what, channel, has, live]; what: chat, file, gap or ask
  Talk,            \* how talkative the relevance gate takes each channel to be
  Clouded,         \* what the cloud classifier may answer: [type, sure]
  Pipes,           \* who runs the pipeline: the poller, the lurker's socket
  Callers,         \* who else asks: an agent, the contract, the digest
  DefaultChannel,  \* where missing metrics are asked about, or "none"
  Limit,           \* questions that the gate lets through in a day
  Budget,          \* daily_interjection_budget of a channel without a policy
  Cooldown, DigestWindow,   \* in days
  MaxDay, MaxRows, MaxFaults

BoundsAssumption ==
  /\ {Limit, Budget, Cooldown, DigestWindow, MaxDay, MaxRows, MaxFaults} \subseteq Nat
  /\ Pipes \subseteq {"poller", "lurker"} /\ Callers \subseteq {"agent", "contract", "digest"}

VARIABLES
  ledger,   \* [what, of, val, by, day]
  arrived,  \* the messages captured so far
  posts,    \* how many messages the adapter has posted to each channel
  day, up, faults,
  pipe,     \* each pipeline: [last, batch, step, interp, verdict]
  gap,      \* the gap poller: [last, batch, step, count, on]
  rx,       \* the reactivities: [at, row, plan, sent, count]
  asked,    \* each question of the dashboard: [step, reply]
  caller    \* each other caller: [step, channel, count, on]

vars == <<ledger, arrived, posts, day, up, faults, pipe, gap, rx, asked, caller>>

Message(id) == CHOOSE m \in Messages : m.id = id

Channels == {m.channel : m \in Messages}

Asks == {m.id : m \in {x \in Messages : x.what = "ask"}}

Unknown == [type |-> "other", sure |-> 0]

Silent == [react |-> FALSE, flow |-> "none"]

Idle(last) == [last |-> last, batch |-> <<>>, step |-> "stage", interp |-> Unknown, verdict |-> Silent]

NoGap(last) == [last |-> last, batch |-> <<>>, step |-> "look", count |-> 0, on |-> 0]

Quiet(at) == [at |-> at, row |-> [what |-> "none"], plan |-> <<>>, sent |-> FALSE, count |-> 0]

Free == [step |-> "idle", channel |-> "none", count |-> 0, on |-> 0]

(* build_worm_core, and the pollers that start at the tail of the ledger.    *)
Init ==
  /\ ledger = <<>> /\ arrived = {} /\ posts = [c \in Channels |-> 0]
  /\ day = 0 /\ up = TRUE /\ faults = 0
  /\ pipe = [p \in Pipes |-> Idle(0)] /\ gap = NoGap(0) /\ rx = Quiet(0)
  /\ asked = [a \in Asks |-> [step |-> "none", reply |-> 0]]
  /\ caller = [c \in Callers |-> Free]

-----------------------------------------------------------------------------
(* What a text means, and whether it is a reason to react.                   *)

(* The patterns are tried in this order; "archetype" and "concept" are       *)
(* aliases of the ontology, "start" a question word that opens the text.      *)
StubClassifier(has) ==
  LET concept == has \cap {"archetype", "concept"} # {}
      tried == << <<has = {}, "other", 0>>, <<"credential" \in has, "credential_offer", 95>>,
                  <<"file" \in has, "file_reference", 90>>,
                  <<{"archetype", "phrase"} \subseteq has, "data_mention", 84>>,
                  <<concept /\ "hint" \in has, "question", 86>>,
                  <<"archetype" \in has, "data_mention", 80>>, <<concept, "statement", 65>>,
                  <<"start" \in has, "question", 30>>, <<TRUE, "other", 10>> >>
      first == Min({i \in DOMAIN tried : tried[i][1]})
  IN [type |-> tried[first][2], sure |-> tried[first][3]]

(* The cloud is asked when the stub is unsure, and believed when it is surer. *)
SemanticClassifier(has) ==
  LET first == StubClassifier(has)
  IN IF first.sure >= 50 THEN {first}
     ELSE {first} \cup {c \in Clouded : c.sure > first.sure}

ConfidenceFloor == 30

SuggestFlow(interp) ==
  CASE interp.type = "credential_offer" -> "credential_offered_in_dm"
    [] interp.type = "file_reference" -> "drop_and_profile"
    [] interp.type = "data_mention" -> "mentioned_in_conversation"
    [] OTHER -> "none"

Threshold(talk) == IF talk = "proactive" THEN 75 ELSE 85

(* RulesBasedRelevanceGate.handle of a message of a channel or of a file: no  *)
(* row is ever synthesized as a direct message.                             *)
Relevance(m, interp) ==
  LET talk == Talk[m.channel]
      yes(flow) == [react |-> TRUE, flow |-> flow]
  IN CASE "worm" \in m.has -> yes(SuggestFlow(interp))
       [] "worm" \notin m.has /\ m.what = "file" -> yes("drop_and_profile")
       [] OTHER ->
            IF "keyword" \in m.has /\ talk # "lurker" /\ interp.type = "data_mention" /\ interp.sure >= 60
            THEN yes("mentioned_in_conversation")
            ELSE IF /\ talk # "lurker" /\ interp.sure >= Threshold(talk)
                    /\ interp.type \in {"question", "data_mention", "credential_offer", "file_reference"}
                 THEN yes(SuggestFlow(interp)) ELSE Silent

-----------------------------------------------------------------------------
(* Rows.                                                                     *)

Row(what, of, val, by) == [what |-> what, of |-> of, val |-> val, by |-> by, day |-> day]

Write(what, of, val, by) == Len(ledger) < MaxRows /\ ledger' = Append(ledger, Row(what, of, val, by))

(* The gate stamps its row with the time at which it counted.                *)
WriteOn(on, what, of, val, by) ==
  Len(ledger) < MaxRows /\ ledger' = Append(ledger, [Row(what, of, val, by) EXCEPT !.day = on])

(* However a row ends, the cursor is past it: the finally of the loop.       *)
PassOver(p) == [Idle(Max({p.last, Head(p.batch)[1]})) EXCEPT !.batch = Tail(p.batch)]

(* The adapters write the row; the socket of the lurker goes on to process it. *)
Capture(m) ==
  /\ m.id \notin arrived /\ m.what # "ask"
  /\ Write(m.what, m.id, "none", "adapter")
  /\ arrived' = arrived \cup {m.id}
  /\ UNCHANGED <<posts, day, up, faults, pipe, gap, rx, asked, caller>>

(* SlackLurker._handle_event: of a file it captures a message without text; a *)
(* row that cannot be written is logged, and the event processed all the same. *)
LurkerHears(m, written) ==
  /\ "lurker" \in Pipes /\ up /\ pipe["lurker"].batch = <<>>
  /\ m.id \notin arrived /\ m.what \in {"chat", "file"}
  /\ arrived' = arrived \cup {m.id}
  /\ IF written THEN Write("chat", m.id, "none", "lurker") /\ UNCHANGED faults
     ELSE faults < MaxFaults /\ faults' = faults + 1 /\ UNCHANGED ledger
  /\ pipe' = [pipe EXCEPT !["lurker"].batch = <<<<Len(ledger) + 1, m.what, m.id>>>>]
  /\ UNCHANGED <<posts, day, up, gap, rx, asked, caller>>

-----------------------------------------------------------------------------
(* chat_received_reactivity_poller, and the pipeline.                        *)

Fresh(last, kinds) ==
  SelectSeq([i \in 1..Len(ledger) |-> <<i, ledger[i].what, ledger[i].of>>],
            LAMBDA x : x[1] > last /\ x[2] \in kinds)

(* A ledger shorter than the cursor has been emptied: start over.            *)
Since(last) == IF Len(ledger) < last THEN 0 ELSE last

Poll ==
  /\ up /\ "poller" \in Pipes /\ pipe["poller"].batch = <<>>
  /\ LET from == Since(pipe["poller"].last)  rows == Fresh(from, {"chat", "file"})
     IN /\ rows # <<>> \/ from # pipe["poller"].last
        /\ pipe' = [pipe EXCEPT !["poller"].last = from, !["poller"].batch = rows]
  /\ UNCHANGED <<ledger, arrived, posts, day, up, faults, gap, rx, asked, caller>>

At(p, step) == up /\ p \in Pipes /\ pipe[p].batch # <<>> /\ pipe[p].step = step

(* The lurker captures a file as a message without text.                      *)
Heard(p) ==
  LET x == Head(pipe[p].batch)  m == Message(x[3])
  IN [m EXCEPT !.what = x[2],
               !.has = IF m.what = "file" /\ (p = "lurker" \/ x[2] = "chat") THEN {} ELSE @]

Trigger(p) ==
  /\ At(p, "stage")
  /\ Write("stage", Heard(p).id, "none", p)
  /\ pipe' = [pipe EXCEPT ![p].step = "sense"]

Interpret(p, interp) ==
  /\ At(p, "sense") /\ interp \in SemanticClassifier(Heard(p).has)
  /\ Write("sense", Heard(p).id, interp.sure, p)
  /\ pipe' = IF interp.sure < ConfidenceFloor THEN [pipe EXCEPT ![p] = PassOver(@)]
             ELSE [pipe EXCEPT ![p].step = "judge", ![p].interp = interp]

Judge(p) ==
  /\ At(p, "judge")
  /\ LET v == Relevance(Heard(p), pipe[p].interp)
     IN /\ Write("relevance", Heard(p).id, v.react, p)
        /\ pipe' = [pipe EXCEPT ![p].step = "log", ![p].verdict = v]

LogDecision(p) ==
  /\ At(p, "log")
  /\ LET v == pipe[p].verdict
     IN /\ Write("decision", Heard(p).id, IF v.react THEN v.flow ELSE "silent", p)
        /\ pipe' = IF v.react THEN [pipe EXCEPT ![p].step = "act"] ELSE [pipe EXCEPT ![p] = PassOver(@)]

(* make_chat_dispatcher takes a message whose text names a file for a file,  *)
(* the lurker's make_flow_dispatcher only a file; a file of a type that is not *)
(* allowed proposes nothing.                                                 *)
Drops(p) ==
  LET m == Heard(p)  v == pipe[p].verdict
  IN /\ IF p = "poller" THEN v.flow = "drop_and_profile" \/ m.what = "file"
        ELSE v.flow = "drop_and_profile" /\ m.what = "file"
     /\ ~(m.what = "file" /\ "odd" \in m.has)

(* on_proactive_mention knows the six remote archetypes.                     *)
Offers(p) ==
  /\ p = "poller" /\ ~Drops(p) /\ Heard(p).what = "chat"
  /\ pipe[p].verdict.flow = "mentioned_in_conversation" /\ "remote" \in Heard(p).has

(* A credential outside a direct message is refused: the error is swallowed.  *)
Dispatch(p) ==
  /\ At(p, "act")
  /\ IF Drops(p)
     THEN /\ Write("proposed", Heard(p).id, "drop_and_profile", p)
          /\ pipe' = IF p = "poller" THEN [pipe EXCEPT ![p].step = "cascade"] ELSE [pipe EXCEPT ![p] = PassOver(@)]
     ELSE IF Offers(p)
     THEN /\ Write("proposed", Heard(p).id, "mentioned_in_conversation", p)
          /\ pipe' = [pipe EXCEPT ![p].step = "offer"]
     ELSE pipe' = [pipe EXCEPT ![p] = PassOver(@)] /\ UNCHANGED ledger

Follow(p) ==
  \E step \in {"cascade", "offer"} :
    /\ At(p, step)
    /\ Write(step, Heard(p).id, "none", p)
    /\ pipe' = [pipe EXCEPT ![p] = PassOver(@)]

(* Any of the calls raises: the row is logged and passed over.               *)
GiveUp(p) ==
  /\ up /\ pipe[p].batch # <<>> /\ faults < MaxFaults
  /\ faults' = faults + 1 /\ pipe' = [pipe EXCEPT ![p] = PassOver(@)]
  /\ UNCHANGED <<ledger, arrived, posts, day, up, gap, rx, asked, caller>>

Process(p) ==
  /\ \/ Trigger(p) \/ Judge(p) \/ LogDecision(p) \/ Dispatch(p) \/ Follow(p)
     \/ \E x \in {StubClassifier(m.has) : m \in Messages} \cup Clouded \cup {Unknown} : Interpret(p, x)
  /\ UNCHANGED <<arrived, posts, day, up, faults, gap, rx, asked, caller>>

-----------------------------------------------------------------------------
(* InterjectionGate.allow: count the day's questions, then write one more or  *)
(* the refusal.                                                              *)

Asked(ch, on) == Cardinality({i \in DOMAIN ledger :
                   ledger[i].what = "clarify" /\ ledger[i].of = ch /\ ledger[i].day >= on})

(* Fault: one question more than the limit.                                  *)
AllowedAtLimit(count) == count <= Limit

Allowed(count) == count < Limit

Answer(ch, count, on, by) ==
  WriteOn(on, IF Allowed(count) THEN "clarify" ELSE "gate", ch, "none", by)

(* kpi_gap_triggered_poller, and KpiGapTriggeredFlow.propose_for_gap.        *)
GapPoll ==
  /\ up /\ gap.batch = <<>>
  /\ LET from == Since(gap.last)  rows == Fresh(from, {"gap"})
     IN /\ rows # <<>> \/ from # gap.last
        /\ gap' = [gap EXCEPT !.last = from, !.batch = rows]
  /\ UNCHANGED <<ledger, arrived, posts, day, up, faults, pipe, rx, asked, caller>>

GapDone == [NoGap(Max({gap.last, Head(gap.batch)[1]})) EXCEPT !.batch = Tail(gap.batch)]

GapAt(step) == up /\ gap.batch # <<>> /\ gap.step = step

(* A row without the name of a metric or a question is not dispatched.       *)
Metrics == Message(Head(gap.batch)[3]).has

HasRecentProposal(kpi) ==
  \E i \in DOMAIN ledger : /\ ledger[i].what = "proposed" /\ ledger[i].val = "kpi_gap"
                           /\ ledger[i].of = kpi /\ ledger[i].day >= day - Cooldown

GapLook ==
  /\ GapAt("look")
  /\ gap' = IF Metrics = {} \/ (\E k \in Metrics : HasRecentProposal(k)) \/ DefaultChannel = "none"
            THEN GapDone ELSE [gap EXCEPT !.step = "count"]
  /\ UNCHANGED ledger

GapCount ==
  /\ GapAt("count")
  /\ gap' = [gap EXCEPT !.step = "answer", !.count = Asked(DefaultChannel, day), !.on = day]
  /\ UNCHANGED ledger

GapAnswer ==
  /\ GapAt("answer")
  /\ Answer(DefaultChannel, gap.count, gap.on, "gap")
  /\ gap' = IF Allowed(gap.count) THEN [gap EXCEPT !.step = "propose"] ELSE GapDone

GapPropose ==
  /\ GapAt("propose")
  /\ \E k \in Metrics : Write("proposed", k, "kpi_gap", "gap")
  /\ gap' = GapDone

GapFails ==
  /\ up /\ gap.batch # <<>> /\ faults < MaxFaults
  /\ faults' = faults + 1 /\ gap' = GapDone
  /\ UNCHANGED <<ledger, arrived, posts, day, up, pipe, rx, asked, caller>>

FillGap ==
  /\ GapLook \/ GapCount \/ GapAnswer \/ GapPropose
  /\ UNCHANGED <<arrived, posts, day, up, faults, pipe, rx, asked, caller>>

-----------------------------------------------------------------------------
(* The other callers of the gate, and the digest.                            *)

(* StatefulInterjectionGateAdapter, on a call of a tool that clarifies.      *)
AgentCalls(c, ch) ==
  /\ c = "agent" /\ caller[c].step = "idle" /\ up
  /\ caller' = [caller EXCEPT ![c] = [Free EXCEPT !.step = "count", !.channel = ch]]
  /\ UNCHANGED ledger

(* Presence.should_speak of a message of a channel: only a responsive channel *)
(* that is not asked a question spends its budget; a mention never gets here.  *)
ShouldSpeak(c, m) ==
  /\ c = "contract" /\ caller[c].step = "idle" /\ up
  /\ m.what = "chat" /\ m.id \in arrived /\ "worm" \notin m.has
  /\ \E interp \in SemanticClassifier(m.has) :
       LET v == Relevance(m, interp)
       IN /\ Write("relevance", m.id, v.react, c)
          /\ caller' = IF v.react /\ Talk[m.channel] = "responsive" /\ interp.type # "question"
                       THEN [caller EXCEPT ![c] = [Free EXCEPT !.step = "count", !.channel = m.channel]]
                       ELSE caller

CallerCounts(c) ==
  /\ caller[c].step = "count" /\ up
  /\ caller' = [caller EXCEPT ![c].step = "answer", ![c].count = Asked(caller[c].channel, day), ![c].on = day]
  /\ UNCHANGED ledger

CallerAnswers(c) ==
  /\ caller[c].step = "answer" /\ up
  /\ Answer(caller[c].channel, caller[c].count, caller[c].on, c)
  /\ caller' = [caller EXCEPT ![c] = Free]

(* on_digest_tick.                                                           *)
DigestLook(c, ch) ==
  /\ c = "digest" /\ caller[c].step = "idle" /\ up /\ Talk[ch] # "lurker"
  /\ ~\E i \in DOMAIN ledger : /\ ledger[i].what = "digest" /\ ledger[i].of = ch
                               /\ ledger[i].day >= day - DigestWindow
  /\ caller' = [caller EXCEPT ![c] = [Free EXCEPT !.step = "digest", !.channel = ch, !.on = day]]
  /\ UNCHANGED ledger

DigestWrite(c) ==
  /\ caller[c].step = "digest" /\ up
  /\ WriteOn(caller[c].on, "digest", caller[c].channel, "none", c)
  /\ caller' = [caller EXCEPT ![c] = Free]

Call(c) ==
  /\ \/ CallerCounts(c) \/ CallerAnswers(c) \/ DigestWrite(c)
     \/ \E ch \in Channels : AgentCalls(c, ch) \/ DigestLook(c, ch)
     \/ \E m \in Messages : ShouldSpeak(c, m)
  /\ UNCHANGED <<arrived, posts, day, up, faults, pipe, gap, rx, asked>>

-----------------------------------------------------------------------------
(* The chat reactivities, offered one row after the other.                   *)

(* MentionsWorm, DataKeywordMatch and LiveOnly; ChatReceivedReactivity is     *)
(* wired without a classifier and does nothing.                              *)
Plan(row) ==
  LET m == Message(row.of)
      heard == row.what = "chat" /\ m.what # "file" /\ m.live
  IN (IF heard /\ "worm" \in m.has THEN <<"mention_send", "mention_say">> ELSE <<>>)
     \o (IF row.what = "clarify" THEN <<"tally", "snapshot">> ELSE <<>>)
     \o (IF heard /\ {"keyword", "remote"} \subseteq m.has
         THEN <<"propose", "offer", "source_send", "source_say">> ELSE <<>>)

OfferRow ==
  /\ up /\ rx.plan = <<>> /\ Since(rx.at) < Len(ledger)
  /\ LET row == ledger[Since(rx.at) + 1]
     IN rx' = [Quiet(Since(rx.at) + 1) EXCEPT !.row = row, !.plan = Plan(row)]
  /\ UNCHANGED <<ledger, posts>>

Doing(steps) == up /\ rx.plan # <<>> /\ Head(rx.plan) \in steps

Next1 == [rx EXCEPT !.plan = Tail(@)]

Channel(row) == IF row.what = "clarify" THEN row.of ELSE Message(row.of).channel

(* speak sends first; a send that raises is not raised again.                *)
Send(ok) ==
  /\ Doing({"mention_send", "source_send"})
  /\ posts' = IF ok THEN [posts EXCEPT ![Channel(rx.row)] = @ + 1] ELSE posts
  /\ rx' = [Next1 EXCEPT !.sent = ok]
  /\ UNCHANGED ledger

Say ==
  /\ Doing({"mention_say", "source_say"})
  /\ Write("reply", Channel(rx.row), IF rx.sent THEN "keep" ELSE "discard", "reactivity")
  /\ rx' = Next1 /\ UNCHANGED posts

SourceMentioned ==
  /\ \/ Doing({"propose"}) /\ Write("proposed", rx.row.of, "mentioned_in_conversation", "reactivity")
     \/ Doing({"offer"}) /\ Write("offer", rx.row.of, "none", "reactivity")
  /\ rx' = Next1 /\ UNCHANGED posts

(* InterjectionBudgetReactivity: the window is the day of the row.           *)
Tally ==
  /\ Doing({"tally"})
  /\ LET count == Asked(rx.row.of, rx.row.day)
     IN rx' = IF count < Budget THEN [rx EXCEPT !.plan = Tail(Tail(@))] ELSE [Next1 EXCEPT !.count = count]
  /\ UNCHANGED <<ledger, posts>>

Snapshot ==
  /\ Doing({"snapshot"})
  /\ WriteOn(rx.row.day, "policy", rx.row.of, rx.count, "reactivity")
  /\ rx' = Next1 /\ UNCHANGED posts

React ==
  /\ \/ OfferRow \/ Say \/ SourceMentioned \/ Tally \/ Snapshot
     \/ \E ok \in BOOLEAN : Send(ok)
  /\ UNCHANGED <<arrived, day, up, faults, pipe, gap, asked, caller>>

(* The reactivity raises, or the row it was offered is gone.                 *)
Quits ==
  /\ rx.plan # <<>> /\ faults < MaxFaults
  /\ faults' = faults + 1 /\ rx' = Quiet(rx.at)
  /\ UNCHANGED <<ledger, arrived, posts, day, up, pipe, gap, asked, caller>>

-----------------------------------------------------------------------------
(* ask_the_worm: capture the question, answer it in the app, and return the  *)
(* last reply there is.                                                      *)

ToAsk(a, step) == up /\ asked[a].step = step

AskCapture(a) ==
  /\ ToAsk(a, "none")
  /\ Write("chat", a, "none", "dashboard")
  /\ arrived' = arrived \cup {a} /\ asked' = [asked EXCEPT ![a].step = "captured"]
  /\ UNCHANGED <<posts, faults>>

AskSay(a) ==
  /\ ToAsk(a, "captured")
  /\ Write("reply", Message(a).channel, "keep", "dashboard")
  /\ posts' = [posts EXCEPT ![Message(a).channel] = @ + 1]
  /\ asked' = [asked EXCEPT ![a].step = "said"]
  /\ UNCHANGED <<arrived, faults>>

(* The reply takes longer than ten seconds.                                  *)
AskTimesOut(a) ==
  /\ ToAsk(a, "captured") /\ faults < MaxFaults
  /\ faults' = faults + 1 /\ asked' = [asked EXCEPT ![a].step = "answered"]
  /\ UNCHANGED <<ledger, arrived, posts>>

AskAnswer(a) ==
  /\ ToAsk(a, "said")
  /\ asked' = [asked EXCEPT ![a] = [step |-> "answered",
       reply |-> LET replies == {i \in DOMAIN ledger : ledger[i].what = "reply"}
                 IN IF replies = {} THEN 0 ELSE Max(replies)]]
  /\ UNCHANGED <<ledger, arrived, posts, faults>>

Ask(a) ==
  /\ AskCapture(a) \/ AskSay(a) \/ AskTimesOut(a) \/ AskAnswer(a)
  /\ UNCHANGED <<day, up, pipe, gap, rx, caller>>

-----------------------------------------------------------------------------
(* The day, and disturbances.                                                *)

Tick == day < MaxDay /\ day' = day + 1
        /\ UNCHANGED <<ledger, arrived, posts, up, faults, pipe, gap, rx, asked, caller>>

(* The ledger is emptied: demo resets do it.                                 *)
Wipe ==
  /\ ledger # <<>> /\ faults < MaxFaults
  /\ ledger' = <<>> /\ faults' = faults + 1
  /\ UNCHANGED <<arrived, posts, day, up, pipe, gap, rx, asked, caller>>

Crash ==
  /\ up /\ faults < MaxFaults
  /\ up' = FALSE /\ faults' = faults + 1
  /\ pipe' = [p \in Pipes |-> Idle(0)] /\ gap' = NoGap(0) /\ rx' = Quiet(0)
  /\ caller' = [c \in Callers |-> Free]
  /\ asked' = [a \in Asks |-> IF asked[a].step = "none" THEN asked[a] ELSE [step |-> "answered", reply |-> 0]]
  /\ UNCHANGED <<ledger, arrived, posts, day>>

(* What was committed while the worm was down is not replayed.               *)
Start ==
  /\ ~up /\ up' = TRUE
  /\ pipe' = [p \in Pipes |-> Idle(Len(ledger))] /\ gap' = NoGap(Len(ledger)) /\ rx' = Quiet(Len(ledger))
  /\ UNCHANGED <<ledger, arrived, posts, day, faults, asked, caller>>

Next ==
  \/ \E m \in Messages : Capture(m) \/ \E written \in BOOLEAN : LurkerHears(m, written)
  \/ Poll \/ \E p \in Pipes : Process(p) \/ GiveUp(p)
  \/ GapPoll \/ FillGap \/ GapFails
  \/ \E c \in Callers : Call(c)
  \/ React \/ Quits
  \/ \E a \in Asks : Ask(a)
  \/ Tick \/ Wipe \/ Crash \/ Start

Spec == Init /\ [][Next]_vars

-----------------------------------------------------------------------------
(* What must hold.                                                           *)

Written(what, of, by) ==
  {i \in DOMAIN ledger : ledger[i].what = what /\ ledger[i].of = of /\ ledger[i].by = by}

Captured(m) == {i \in DOMAIN ledger : ledger[i].what \in {"chat", "file"} /\ ledger[i].of = m.id}

(* The poller leaves no captured row behind unless something went wrong.     *)
NothingPassedOver ==
  (faults = 0 /\ "poller" \in Pipes) =>
    \A i \in 1..pipe["poller"].last :
      ledger[i].what \in {"chat", "file"} => Written("stage", ledger[i].of, "poller") # {}

(* A pipeline decides about a message once, through all its stages in order,  *)
(* and never about what the classifier was too unsure of.                    *)
DecidedInOrder ==
  \A m \in Messages, p \in Pipes :
    /\ \A what \in {"stage", "sense", "relevance", "decision"} : Cardinality(Written(what, m.id, p)) <= 1
    /\ Captured(m) # {} =>
         \A d \in Written("decision", m.id, p) :
           \E r \in Written("relevance", m.id, p), s \in Written("sense", m.id, p), t \in Written("stage", m.id, p) :
             /\ t < s /\ s < r /\ r < d /\ ledger[s].val >= ConfidenceFloor
             /\ \E c \in Captured(m) : c < t \/ p = "lurker"

(* A source is proposed at most once by each, and by a pipeline only after it *)
(* decided to react; what follows from a proposal comes after it.             *)
ProposedOnDecision ==
  \A m \in Messages :
    /\ \A by \in Pipes \cup {"reactivity"} : Cardinality(Written("proposed", m.id, by)) <= 1
    /\ Captured(m) # {} =>
         /\ \A p \in Pipes : \A i \in Written("proposed", m.id, p) :
              \E d \in Written("decision", m.id, p) : d < i /\ ledger[d].val # "silent"
         /\ \A by \in Pipes \cup {"reactivity"} : \A i \in Written("offer", m.id, by) \cup Written("cascade", m.id, by) :
              \E j \in Written("proposed", m.id, by) : j < i

(* A captured message goes through the pipeline once, in order, and only a    *)
(* decision of the pipeline makes it propose a source.                       *)
IntakeStands == NothingPassedOver /\ DecidedInOrder /\ ProposedOnDecision

Clarified(ch, d) == {i \in DOMAIN ledger :
                      ledger[i].what = "clarify" /\ ledger[i].of = ch /\ ledger[i].day = d}

(* The gate counts, then writes: each caller in flight may exceed the limit   *)
(* by the one question it is writing, and no caller by more.                  *)
BudgetKept ==
  \A ch \in Channels \cup {DefaultChannel}, d \in 0..MaxDay :
    Cardinality(Clarified(ch, d)) <= Limit + Cardinality(Callers \cap {"agent", "contract"})

(* A missing metric is asked about once in a cooldown, and each time with a   *)
(* question that the gate let through; so is the digest sent.                 *)
Spaced(rows, days) == \A i, j \in rows : i < j => ledger[j].day > ledger[i].day + days

GapsAsked ==
  /\ \A k \in UNION {m.has : m \in {x \in Messages : x.what = "gap"}} : Spaced(Written("proposed", k, "gap"), Cooldown)
  /\ faults = 0 => Cardinality({i \in DOMAIN ledger : ledger[i].what = "proposed" /\ ledger[i].by = "gap"})
                     <= Cardinality(Written("clarify", DefaultChannel, "gap"))
  /\ \A ch \in Channels : Spaced(Written("digest", ch, "digest"), DigestWindow)

(* A reply is kept in the record only if it was posted, and a snapshot of a   *)
(* channel's budget is written only when the day's questions have used it up. *)
RepliesPosted ==
  /\ \A ch \in Channels :
       Cardinality({i \in DOMAIN ledger : ledger[i].what = "reply" /\ ledger[i].of = ch /\ ledger[i].val = "keep"}) <= posts[ch]
  /\ faults = 0 => \A i \in DOMAIN ledger : ledger[i].what = "policy" =>
       Cardinality({j \in 1..(i - 1) : ledger[j].what = "clarify" /\ ledger[j].of = ledger[i].of
                                       /\ ledger[j].day >= ledger[i].day}) >= Budget

(* A question of the dashboard is given its own reply or a later one.         *)
AsksAnswered ==
  faults = 0 => \A a \in Asks : asked[a].step = "answered" =>
    \E i \in Written("reply", Message(a).channel, "dashboard") : i <= asked[a].reply

(* What the worm says stays within its budgets, and the record of it is true. *)
TalkStands == BudgetKept /\ GapsAsked /\ RepliesPosted /\ AsksAnswered

=============================================================================
