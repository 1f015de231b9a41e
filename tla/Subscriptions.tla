---------------------------- MODULE Subscriptions ----------------------------
(***************************************************************************)
(* Agent subscriptions of wormbase-agent-gateway: the SubscriptionDispatcher *)
(* reactivity, which the runner hands ledger rows one at a time, the MCP     *)
(* tools that create, revoke and stream subscriptions, and the in-memory     *)
(* queues of StreamRegistry between them.                                    *)
(*                                                                          *)
(* Of the four rows of a cycle the code tells the execute row from the       *)
(* others: a cycle has two rows here, "propose" standing for the three.      *)
(* Subscriptions are identified with their subscription_id; a row is         *)
(* identified with its sequence number.                                      *)
(***************************************************************************)
EXTENDS Integers, Sequences, FiniteSets

CONSTANTS
  Subs,        \* subscription ids
  Stream,      \* those with transport mcp_stream; the others use webhooks
  Unfiltered,  \* those whose filter names no kinds; the others want execute rows
  MaxQueue,    \* maxsize of a StreamRegistry queue
  MaxCycles,   \* bound on committed cycles
  MaxFaults    \* bound on failed writes and restarts

ASSUME SubsAssumption == Stream \subseteq Subs /\ Unfiltered \subseteq Subs
ASSUME BoundsAssumption == {MaxQueue, MaxCycles} \subseteq Nat \ {0} /\ MaxFaults \in Nat

VARIABLES
  ledger,      \* committed rows, oldest first
  queue,       \* StreamRegistry: undelivered events per subscription
  old,         \* the queue object a stream still reads after it was dropped
  pos,         \* last row the runner handed to the dispatcher
  pc,          \* where fire is
  todo,        \* subscriptions fire has still to serve
  status,      \* outcome of the transport call to be recorded
  rv,          \* where each revoke_subscription call is
  con, since,  \* each stream_subscription call, and its since_seq
  got,         \* history: rows each subscriber has received
  dropped,     \* history: rows overflow has dropped since it connected
  stray,       \* history: transport calls since the subscription was revoked
  faults

fire == <<pos, pc, todo, status>>
streams == <<con, since, got, dropped>>
vars == <<ledger, queue, old, fire, rv, streams, stray, faults>>

Meta == {"created", "revoked", "delivered"}
NoSub == "none"

Cycle(tool, sub, trig, st) ==
  [i \in 1 .. 2 |-> [kind |-> IF i = 1 THEN "propose" ELSE "execute",
                     tool |-> tool, sub |-> sub, trig |-> trig, status |-> st]]

Commit(tool, sub, trig, st) ==
  /\ Len(ledger) < 2 * MaxCycles
  /\ ledger' = ledger \o Cycle(tool, sub, trig, st)

(* Rows written by emit_agent_<tool>, execute rows only.                    *)
Executed(tool, s) ==
  {i \in 1 .. Len(ledger) :
     ledger[i].kind = "execute" /\ ledger[i].tool = tool /\ ledger[i].sub = s}

Init ==
  /\ ledger = <<>>
  /\ queue = [s \in Stream |-> <<>>]
  /\ old = [s \in Stream |-> <<>>]
  /\ pos = 0 /\ pc = "idle" /\ todo = {} /\ status = "none"
  /\ rv = [s \in Subs |-> "none"]
  /\ con = [s \in Stream |-> "off"]
  /\ since = [s \in Stream |-> 0]
  /\ got = [s \in Stream |-> {}]
  /\ dropped = [s \in Stream |-> {}]
  /\ stray = [s \in Subs |-> 0]
  /\ faults = 0

-----------------------------------------------------------------------------
(* LedgerSubscriptionReader: created minus revoked, read off the ledger.    *)
active_subscriptions ==
  {s \in Subs : Executed("created", s) # {} /\ Executed("revoked", s) = {}}

(* Any other component commits a cycle.                                     *)
Event ==
  /\ Commit("event", NoSub, 0, "none")
  /\ UNCHANGED <<queue, old, fire, rv, streams, stray, faults>>

create_subscription(s) ==
  /\ Executed("created", s) = {}
  /\ Commit("created", s, 0, "none")
  /\ UNCHANGED <<queue, old, fire, rv, streams, stray, faults>>

(* revoke_subscription: check that the caller's subscription is active,     *)
(* write the revocation, drop the queue.                                    *)
RevokeCheck(s) ==
  /\ rv[s] = "none" /\ s \in active_subscriptions
  /\ rv' = [rv EXCEPT ![s] = "write"]
  /\ UNCHANGED <<ledger, queue, old, fire, streams, stray, faults>>

RevokeWrite(s) ==
  /\ rv[s] = "write"
  /\ Commit("revoked", s, 0, "none")
  /\ rv' = [rv EXCEPT ![s] = "clear"]
  /\ UNCHANGED <<queue, old, fire, streams, stray, faults>>

(* A streaming call keeps the queue object it has; nobody pushes to it now. *)
RevokeClear(s) ==
  /\ rv[s] = "clear"
  /\ rv' = [rv EXCEPT ![s] = "none"]
  /\ queue' = [t \in Stream |-> IF t = s THEN <<>> ELSE queue[t]]
  /\ old' = [t \in Stream |-> IF t = s /\ con[t] = "live" THEN queue[t] ELSE old[t]]
  /\ con' = [t \in Stream |-> IF t = s /\ con[t] = "live" THEN "hung" ELSE con[t]]
  /\ UNCHANGED <<ledger, fire, since, got, dropped, stray, faults>>

-----------------------------------------------------------------------------
(* EntryKind.match for a tool kind: execute rows only.                      *)
EntryKind(row, kind) == row.kind = "execute" /\ row.tool = kind

(* The dispatcher's predicate, Not(EntryKind(..) | EntryKind(..) | ..).     *)
Watched(row) == ~ \E k \in Meta : EntryKind(row, k)

(* compile_filter on kinds, compared with the row's envelope kind.          *)
Passes(s, row) == s \in Unfiltered \/ row.kind = "execute"

(* The runner goes through the ledger in order (it may skip rows: module    *)
(* Reactivities) and hands the dispatcher the rows its predicate matches.   *)
Dispatch(i) ==
  /\ pc = "idle" /\ i > pos
  /\ Watched(ledger[i])
  /\ pos' = i
  /\ pc' = "active"
  /\ UNCHANGED <<ledger, queue, old, todo, status, rv, streams, stray, faults>>

ReadActive ==
  /\ pc = "active"
  /\ todo' = {s \in active_subscriptions : Passes(s, ledger[pos])}
  /\ pc' = IF active_subscriptions = {} THEN "idle" ELSE "index"
  /\ UNCHANGED <<ledger, queue, old, pos, status, rv, streams, stray, faults>>

Delivered(s) == {ledger[i].trig : i \in Executed("delivered", s)}

(* Fault: no idempotency check.                                             *)
ReadNoIndex ==
  /\ pc = "index"
  /\ pc' = "loop"
  /\ UNCHANGED <<ledger, queue, old, pos, todo, status, rv, streams, stray, faults>>

(* _build_delivered_index, another read of the ledger: what it lists is     *)
(* skipped.                                                                 *)
ReadIndex ==
  /\ pc = "index"
  /\ todo' = {s \in todo : pos \notin Delivered(s)}
  /\ pc' = "loop"
  /\ UNCHANGED <<ledger, queue, old, pos, status, rv, streams, stray, faults>>

(* Subscriptions are served newest first.                                   *)
Newest ==
  CHOOSE s \in todo : \A t \in todo :
    \A i \in Executed("created", t) : \E j \in Executed("created", s) : j >= i

CountStray(s) ==
  stray' = IF Executed("revoked", s) = {} THEN stray ELSE [stray EXCEPT ![s] = @ + 1]

(* StreamRegistry.push: a full queue loses its oldest event.                *)
push(s) ==
  IF Len(queue[s]) < MaxQueue
    THEN /\ queue' = [queue EXCEPT ![s] = Append(@, pos)]
         /\ UNCHANGED dropped
    ELSE /\ queue' = [queue EXCEPT ![s] = Append(Tail(@), pos)]
         /\ dropped' = [dropped EXCEPT ![s] = @ \cup {Head(queue[s])}]

(* _do_transport, before the ledger write.                                  *)
PushStream ==
  /\ pc = "loop" /\ todo # {} /\ Newest \in Stream
  /\ push(Newest)
  /\ status' = "delivered"
  /\ CountStray(Newest)
  /\ pc' = "record"
  /\ UNCHANGED <<ledger, old, pos, todo, rv, con, since, got, faults>>

(* Webhook: after its retries the POST was accepted, or not.                *)
PostWebhook(st) ==
  /\ pc = "loop" /\ todo # {} /\ Newest \notin Stream
  /\ status' = st
  /\ CountStray(Newest)
  /\ pc' = "record"
  /\ UNCHANGED <<ledger, queue, old, pos, todo, rv, streams, faults>>

(* agent_event_delivered is written whatever the outcome ...                *)
Record ==
  /\ pc = "record"
  /\ Commit("delivered", Newest, pos, status)
  /\ todo' = todo \ {Newest}
  /\ pc' = "loop"
  /\ UNCHANGED <<queue, old, pos, status, rv, streams, stray, faults>>

(* ... or its write raises, is logged and forgotten.                        *)
RecordFails ==
  /\ pc = "record" /\ faults < MaxFaults
  /\ todo' = todo \ {Newest}
  /\ pc' = "loop"
  /\ faults' = faults + 1
  /\ UNCHANGED <<ledger, queue, old, pos, status, rv, streams, stray>>

FireEnds ==
  /\ pc = "loop" /\ todo = {}
  /\ pc' = "idle"
  /\ UNCHANGED <<ledger, queue, old, pos, todo, status, rv, streams, stray, faults>>

-----------------------------------------------------------------------------
(* The largest row a subscriber has received, its since_seq; 0 for none.    *)
LastGot(s) == CHOOSE n \in got[s] \cup {0} : \A k \in got[s] : k <= n

(* stream_subscription: the ownership check, then replay if since_seq > 0.  *)
Connect(s) ==
  /\ con[s] = "off" /\ s \in active_subscriptions
  /\ since' = [since EXCEPT ![s] = LastGot(s)]
  /\ con' = [con EXCEPT ![s] = IF LastGot(s) > 0 THEN "replay" ELSE "live"]
  /\ dropped' = [dropped EXCEPT ![s] = {}]
  /\ UNCHANGED <<ledger, queue, old, fire, rv, got, stray, faults>>

(* _replay_delivered, from the ledger; the queue is left as it is.          *)
Replay(s) ==
  /\ con[s] = "replay"
  /\ got' = [got EXCEPT ![s] = @ \cup {n \in Delivered(s) : n > since[s]}]
  /\ con' = [con EXCEPT ![s] = "live"]
  /\ UNCHANGED <<ledger, queue, old, fire, rv, since, dropped, stray, faults>>

(* Live tail.                                                               *)
Take(s) ==
  /\ con[s] = "live" /\ queue[s] # <<>>
  /\ got' = [got EXCEPT ![s] = @ \cup {Head(queue[s])}]
  /\ queue' = [queue EXCEPT ![s] = Tail(@)]
  /\ UNCHANGED <<ledger, old, fire, rv, con, since, dropped, stray, faults>>

(* A call whose queue was dropped reads what is left in it, then hangs.     *)
TakeOld(s) ==
  /\ con[s] = "hung" /\ old[s] # <<>>
  /\ got' = [got EXCEPT ![s] = @ \cup {Head(old[s])}]
  /\ old' = [old EXCEPT ![s] = Tail(@)]
  /\ UNCHANGED <<ledger, queue, fire, rv, con, since, dropped, stray, faults>>

Disconnect(s) ==
  /\ con[s] # "off"
  /\ con' = [con EXCEPT ![s] = "off"]
  /\ old' = [old EXCEPT ![s] = <<>>]
  /\ UNCHANGED <<ledger, queue, fire, rv, since, got, dropped, stray, faults>>

(* The runner's poll raised, or found the tenant reset, between two fires:  *)
(* it starts over from its cursor, which may be as far back as 0.           *)
Rewind ==
  /\ pc = "idle" /\ faults < MaxFaults
  /\ pos' = 0
  /\ faults' = faults + 1
  /\ UNCHANGED <<ledger, queue, old, pc, todo, status, rv, streams, stray>>

(* The process dies and boots again: queues, calls and cursor are gone.     *)
Restart ==
  /\ faults < MaxFaults
  /\ queue' = [s \in Stream |-> <<>>]
  /\ old' = [s \in Stream |-> <<>>]
  /\ pos' = 0 /\ pc' = "idle" /\ todo' = {} /\ status' = "none"
  /\ rv' = [s \in Subs |-> "none"]
  /\ con' = [s \in Stream |-> "off"]
  /\ faults' = faults + 1
  /\ UNCHANGED <<ledger, since, got, dropped, stray>>

Dispatcher ==
  \/ \E i \in 1 .. Len(ledger) : Dispatch(i)
  \/ ReadActive \/ ReadIndex \/ PushStream
  \/ \E st \in {"delivered", "failed"} : PostWebhook(st)
  \/ Record \/ RecordFails \/ FireEnds

Agent(s) == create_subscription(s) \/ RevokeCheck(s) \/ RevokeWrite(s) \/ RevokeClear(s)

Subscriber(s) == Connect(s) \/ Replay(s) \/ Take(s) \/ TakeOld(s) \/ Disconnect(s)

Next ==
  \/ Event \/ Dispatcher \/ Rewind \/ Restart
  \/ \E s \in Subs : Agent(s)
  \/ \E s \in Stream : Subscriber(s)

Spec == Init /\ [][Next]_vars

-----------------------------------------------------------------------------
(* Types, and StreamRegistry's bound on every queue.                        *)
TypeOK ==
  /\ ledger \in Seq([kind : {"propose", "execute"}, tool : Meta \cup {"event"},
                     sub : Subs \cup {NoSub}, trig : Nat,
                     status : {"none", "delivered", "failed"}])
  /\ {queue, old} \subseteq [Stream -> Seq(Nat \ {0})]
  /\ \A s \in Stream : Len(queue[s]) <= MaxQueue
  /\ pos \in 0 .. Len(ledger)
  /\ pc \in {"idle", "active", "index", "loop", "record"}
  /\ todo \subseteq Subs
  /\ status \in {"none", "delivered", "failed"}
  /\ rv \in [Subs -> {"none", "write", "clear"}]
  /\ con \in [Stream -> {"off", "replay", "live", "hung"}]
  /\ since \in [Stream -> Nat]
  /\ got \in [Stream -> SUBSET Nat] /\ dropped \in [Stream -> SUBSET Nat]
  /\ stray \in [Subs -> Nat]
  /\ faults \in Nat

(* Idempotency key of the docstring: however often the runner starts over,  *)
(* the ledger records a delivery of a row to a subscription at most once.   *)
DeliveredOnce ==
  \A s \in Subs : \A i, j \in Executed("delivered", s) :
    ledger[i].trig = ledger[j].trig => i = j

(* fire works on a snapshot of the active subscriptions, so a revoked       *)
(* subscription may still be served, but at most once.                      *)
RevokeTakesEffect == \A s \in Subs : stray[s] <= 1

(* Resuming an active stream from since_seq loses nothing: whatever the     *)
(* ledger says was delivered past since_seq has been received, is queued,   *)
(* or was dropped by overflow during this very call, although the replay    *)
(* reads the ledger while deliveries are pushed before they are recorded.   *)
ResumeLosesNothing ==
  \A s \in Stream :
    s \in active_subscriptions /\ con[s] = "live" /\ since[s] > 0 =>
      \A n \in Delivered(s) :
        \/ n <= since[s] \/ n \in got[s] \cup dropped[s]
        \/ \E i \in 1 .. Len(queue[s]) : queue[s][i] = n

(* dispatcher.py: "subscription metadata writes never trigger a downstream  *)
(* fire".                                                                   *)
MetaNeverDelivered ==
  \A s \in Subs : \A n \in Delivered(s) : ledger[n].tool = "event"

(* transports.py: after exhausting its retries "the dispatcher records      *)
(* delivery_status=failed on the ledger and pauses the subscription": no    *)
(* row is delivered to a subscription after a failed one.                   *)
FailurePauses ==
  \A s \in Subs : \A i, j \in Executed("delivered", s) :
    ledger[i].status = "failed" => j <= i

(* A subscriber gets each row once, none for long after a revoke, and        *)
(* misses none by resuming.                                                 *)
SubscriptionsStand == DeliveredOnce /\ RevokeTakesEffect /\ ResumeLosesNothing
=============================================================================
