---------------------------- MODULE ChannelProofs ----------------------------
(***************************************************************************)
(* The channel side, for every value of its constants: the WhatsApp rate     *)
(* limiter, history syncs, the session tailer with its writer's windows, and *)
(* the log tailer with its handlers. Four parts, each with its own inductive *)
(* invariant; they share nothing.                                           *)
(*                                                                          *)
(* The token bucket keeps its promise for every capacity, period and number  *)
(* of concurrent sends, and a throttle session is audited once. RateBound    *)
(* speaks of two grants in the past and is not inductive. What every step    *)
(* keeps is GrantsPaid: for each grant, the tokens granted since and those   *)
(* in the bucket now are paid for by the full bucket and the time up to the  *)
(* last refill. AuditOncePerSession needs to know that the marker is set     *)
(* whenever no success has come since the last audit.                        *)
(***************************************************************************)
EXTENDS RateLimit, WhatsAppSync, SessionTail, LogCapture, SequenceTheorems,
        WellFoundedInduction, TLAPS

GrantsPaid ==
  \A i \in 1 .. Len(grants) :
    /\ grants[i] <= last_refill_at
    /\ Period * (Len(grants) - i + 1) + tokens <= Full + (last_refill_at - grants[i])

SessionMarked ==
  \A i \in 1 .. Len(events) :
    (events[i] = "audit" /\ \A k \in i + 1 .. Len(events) : events[k] # "ok") => session

IInv == TypeOK /\ GrantsPaid /\ RateBound /\ SessionMarked /\ AuditOncePerSession

-----------------------------------------------------------------------------
(* A full bucket is a natural number of units, at least one token.          *)
LEMMA FullFacts == Full \in Nat /\ Full >= Period /\ Period \in Nat /\ Period > 0
  <1>1. Capacity \in Nat /\ Capacity >= 1 /\ Period \in Nat /\ Period >= 1
    BY RateAssumption
  <1>2. Capacity * Period >= Period
    BY <1>1
  <1>3. QED BY <1>1, <1>2 DEF Full

(* _refill leaves at most a full bucket, no less than before, and adds no   *)
(* more than the time that passed.                                          *)
LEMMA RefillFacts ==
  ASSUME TypeOK
  PROVE  /\ Refilled \in 0 .. Full
         /\ Refilled <= tokens + (now - last_refill_at)
  BY FullFacts DEF TypeOK, Refilled

-----------------------------------------------------------------------------
(* The program counters of a call.                                          *)
Pcs == {"start", "waiting", "call", "backoff", "audit"} \cup Over

(* What TypeOK says of the calls and of the histories.                      *)
CallsOK ==
  /\ pc \in [Sends -> Pcs]
  /\ wake \in [Sends -> Nat] /\ deadline \in [Sends -> Nat]
  /\ attempt \in [Sends -> 0 .. MaxRetries]

(* TypeOK in the parts that the actions disturb.                            *)
LEMMA TypeParts ==
  TypeOK <=> /\ now \in Nat /\ tokens \in 0 .. Full /\ last_refill_at \in 0 .. now
             /\ CallsOK
             /\ session \in BOOLEAN
             /\ grants \in Seq(Nat)
             /\ events \in Seq({"ok", "audit"})
  BY DEF TypeOK, CallsOK, Pcs

(* The initial state satisfies the invariant.                               *)
LEMMA InitIInv == Init => IInv
  <1> SUFFICES ASSUME Init PROVE IInv OBVIOUS
  <1>1. now \in Nat /\ tokens \in 0 .. Full /\ last_refill_at \in 0 .. now
    BY FullFacts DEF Init
  <1>2. CallsOK
    BY BackoffAssumption DEF Init, CallsOK, Pcs
  <1>3a. session \in BOOLEAN
    BY DEF Init
  <1>3b. grants \in Seq(Nat) /\ events \in Seq({"ok", "audit"})
    BY DEF Init
  <1>4. TypeOK
    BY <1>1, <1>2, <1>3a, <1>3b, TypeParts
  <1>5. GrantsPaid /\ RateBound
    BY DEF Init, GrantsPaid, RateBound
  <1>6. SessionMarked /\ AuditOncePerSession
    BY DEF Init, SessionMarked, AuditOncePerSession
  <1>7. QED BY <1>4, <1>5, <1>6 DEF IInv

(* What a step that takes no token and records no event leaves alone.       *)
Quiet == UNCHANGED <<tokens, last_refill_at, session, grants, events>>

(* Such a step keeps the types when it keeps those of the calls.            *)
LEMMA QuietType ==
  ASSUME TypeOK, Quiet, now' = now, CallsOK' PROVE TypeOK'
  BY TypeParts DEF Quiet, TypeOK, CallsOK, Pcs

(* Every step keeps the types.                                              *)
LEMMA TypeStep == ASSUME TypeOK, [Next]_vars PROVE TypeOK'
  <1>0. CallsOK
    BY TypeParts
  <1>1. CASE Tick
    BY <1>1 DEF TypeOK, Tick, bucket, callers
  <1>2. ASSUME NEW s \in Sends, Take(s) PROVE TypeOK'
    <2>1. now' \in Nat /\ tokens' \in 0 .. Full /\ last_refill_at' \in 0 .. now'
      <3>1. Refilled \in 0 .. Full /\ now \in Nat /\ Full \in Nat /\ Period \in Nat
        BY FullFacts, RefillFacts DEF TypeOK
      <3>2. Refilled >= Period /\ tokens' = Refilled - Period /\ last_refill_at' = now
            /\ now' = now
        BY <1>2 DEF Take
      <3>3. QED BY <3>1, <3>2
    <2>2. CallsOK'
      BY <1>0, <1>2 DEF CallsOK, Take, Pcs
    <2>3. grants' \in Seq(Nat)
      BY <1>2 DEF Take, TypeOK
    <2>4. session' \in BOOLEAN /\ events' \in Seq({"ok", "audit"})
      BY <1>2 DEF Take, TypeOK
    <2>5. QED BY <2>1, <2>2, <2>3, <2>4 DEF TypeOK, CallsOK, Pcs
  <1>3. ASSUME NEW s \in Sends, Wait(s) PROVE TypeOK'
    <2> DEFINE d == Deadline(s)
               need == Period - Refilled
    <2>1. now' \in Nat /\ tokens' \in 0 .. Full /\ last_refill_at' \in 0 .. now'
      BY <1>3, FullFacts, RefillFacts DEF TypeOK, Wait
    <2>2. d \in Nat /\ need \in Nat /\ now \in Nat
      <3>1. now \in Nat /\ d \in Nat
        BY WaitAssumption DEF TypeOK, Deadline
      <3>2. Refilled \in 0 .. Full /\ Full \in Nat /\ Period \in Nat /\ Refilled < Period
        BY <1>3, FullFacts, RefillFacts DEF Wait
      <3>3. QED BY <3>1, <3>2
    <2>3. deadline' = [deadline EXCEPT ![s] = d] /\ attempt' = attempt
      BY <1>3 DEF Wait
    <2>4. CASE HasDeadline /\ d <= now
      <3>1. pc' = [pc EXCEPT ![s] = "timeout"] /\ wake' = wake
        BY <1>3, <2>4 DEF Wait
      <3>2. CallsOK'
        BY <1>0, <2>2, <2>3, <3>1 DEF CallsOK, Pcs, Over
      <3>3. QED BY <2>1, <3>2, <1>3 DEF Wait, TypeOK, CallsOK, Pcs
    <2>5. CASE ~(HasDeadline /\ d <= now)
      <3>1. PICK w \in Nat : wake' = [wake EXCEPT ![s] = w]
        <4>1. CASE HasDeadline /\ d - now < need
          <5>1. now + (d - now) \in Nat
            BY <2>2
          <5>2. wake' = [wake EXCEPT ![s] = now + (d - now)]
            BY <1>3, <2>5, <4>1 DEF Wait
          <5>3. QED BY <5>1, <5>2
        <4>2. CASE ~(HasDeadline /\ d - now < need)
          <5>1. now + need \in Nat
            BY <2>2
          <5>2. wake' = [wake EXCEPT ![s] = now + need]
            BY <1>3, <2>5, <4>2 DEF Wait
          <5>3. QED BY <5>1, <5>2
        <4>3. QED BY <4>1, <4>2
      <3>2. pc' = [pc EXCEPT ![s] = "waiting"]
        BY <1>3, <2>5 DEF Wait
      <3>3. CallsOK'
        BY <1>0, <2>2, <2>3, <3>1, <3>2 DEF CallsOK, Pcs
      <3>4. QED BY <2>1, <3>3, <1>3 DEF Wait, TypeOK, CallsOK, Pcs
    <2>6. QED BY <2>4, <2>5
  <1>4. ASSUME NEW s \in Sends, CallReturns(s) PROVE TypeOK'
    <2>1. UNCHANGED <<now, tokens, last_refill_at, grants>>
      BY <1>4 DEF CallReturns, bucket
    <2>2. CallsOK'
      BY <1>0, <1>4 DEF CallsOK, CallReturns, Pcs, Over
    <2>3. events' \in Seq({"ok", "audit"})
      BY <1>4 DEF CallReturns, TypeOK
    <2>4. session' \in BOOLEAN
      BY <1>4 DEF CallReturns
    <2>5. QED BY <2>1, <2>2, <2>3, <2>4 DEF TypeOK, CallsOK, Pcs
  <1>5. ASSUME NEW s \in Sends, CallRaises(s) PROVE TypeOK'
    BY <1>0, <1>5, QuietType DEF CallsOK, CallRaises, Pcs, Over, Quiet, bucket
  <1>6. ASSUME NEW s \in Sends, NEW j \in 0 .. Base \div 2, CallLimited(s, j) PROVE TypeOK'
    <2>1. Base \div 2 \in Int /\ j \in Nat
      BY BackoffAssumption
    <2>2. Delay(attempt[s]) \in Nat /\ now \in Nat
      BY <1>6, DelayAssumption DEF TypeOK
    <2>3. now + Delay(attempt[s]) + j \in Nat
      BY <2>1, <2>2
    <2>4. attempt[s] + 1 \in 0 .. MaxRetries
      BY <1>6, BackoffAssumption DEF TypeOK, CallLimited
    <2>5. CallsOK'
      BY <1>0, <1>6, <2>3, <2>4 DEF CallsOK, CallLimited, Pcs
    <2>6. Quiet /\ now' = now
      BY <1>6 DEF CallLimited, Quiet, bucket
    <2>7. QED BY <2>5, <2>6, QuietType
  <1>7. ASSUME NEW s \in Sends, Retry(s) PROVE TypeOK'
    BY <1>0, <1>7, QuietType DEF CallsOK, Retry, Pcs, Quiet, bucket
  <1>8. ASSUME NEW s \in Sends, Exhausted(s) PROVE TypeOK'
    <2>1. UNCHANGED <<now, tokens, last_refill_at, grants>>
      BY <1>8 DEF Exhausted, bucket
    <2>2. CallsOK'
      BY <1>0, <1>8 DEF CallsOK, Exhausted, Pcs, Over
    <2>3. events' = events \/ events' = Append(events, "audit")
      BY <1>8 DEF Exhausted
    <2>4. events' \in Seq({"ok", "audit"})
      <3>1. events \in Seq({"ok", "audit"}) /\ "audit" \in {"ok", "audit"}
        BY DEF TypeOK
      <3>2. QED BY <2>3, <3>1, AppendProperties
    <2>5. session' \in BOOLEAN
      BY <1>8 DEF Exhausted
    <2>6. QED BY <2>1, <2>2, <2>4, <2>5 DEF TypeOK, CallsOK, Pcs
  <1>9. ASSUME NEW s \in Sends, Audit(s) PROVE TypeOK'
    BY <1>0, <1>9, QuietType DEF CallsOK, Audit, Pcs, Over, Quiet, bucket
  <1>10. CASE UNCHANGED vars
    BY <1>10 DEF TypeOK, vars, bucket, callers
  <1>11. QED
    BY <1>1, <1>2, <1>3, <1>4, <1>5, <1>6, <1>7, <1>8, <1>9, <1>10 DEF Next, Attempt

-----------------------------------------------------------------------------
(* A granted token is paid for by the refill: taking one keeps GrantsPaid   *)
(* and RateBound.                                                           *)
LEMMA TakePays ==
  ASSUME TypeOK, GrantsPaid, RateBound, NEW s \in Sends, Take(s)
  PROVE  GrantsPaid' /\ RateBound'
  <1> DEFINE n == Len(grants)
  <1>1. /\ now \in Nat /\ last_refill_at \in Nat /\ last_refill_at <= now /\ tokens \in Nat
        /\ Full \in Nat /\ Period \in Nat /\ Refilled \in Nat /\ Refilled <= Full
        /\ Refilled <= tokens + (now - last_refill_at) /\ n \in Nat
    BY FullFacts, RefillFacts DEF TypeOK
  <1>2. /\ Refilled >= Period /\ tokens' = Refilled - Period /\ last_refill_at' = now
        /\ grants' = Append(grants, now)
    BY DEF Take
  <1>3. /\ grants \in Seq(Nat) /\ Len(grants') = n + 1 /\ grants'[n + 1] = now
        /\ \A i \in 1 .. n : grants'[i] = grants[i] /\ grants[i] \in Nat
    <2>1. grants \in Seq(Nat)
      BY DEF TypeOK
    <2>2. \A i \in 1 .. n : grants[i] \in Nat
      BY <2>1
    <2>3. QED BY <1>1, <1>2, <2>1, <2>2, AppendProperties
  <1>4. \A i \in 1 .. n + 1 : Period * (n + 1 - i + 1) = Period * (n - i + 1) + Period
    BY <1>1
  <1>5. ASSUME NEW i \in 1 .. n + 1
        PROVE  /\ grants'[i] \in Nat /\ grants'[i] <= now
               /\ Period * (n + 1 - i + 1) + tokens' <= Full + (now - grants'[i])
    <2>1. CASE i \in 1 .. n
      <3>1. /\ grants[i] <= last_refill_at /\ grants[i] \in Nat /\ grants'[i] = grants[i]
            /\ Period * (n - i + 1) + tokens <= Full + (last_refill_at - grants[i])
        BY <1>3, <2>1 DEF GrantsPaid
      <3>2. Period * (n - i + 1) \in Int
        BY <1>1, <2>1
      <3>3. QED BY <1>1, <1>2, <1>4, <3>1, <3>2
    <2>2. CASE i = n + 1
      <3>1. Period * (n + 1 - i + 1) = Period
        BY <1>1, <2>2
      <3>2. grants'[i] = now
        BY <1>3, <2>2
      <3>3. QED BY <1>1, <1>2, <3>1, <3>2
    <2>3. QED BY <1>1, <2>1, <2>2
  <1>6. GrantsPaid'
    BY <1>2, <1>3, <1>5 DEF GrantsPaid
  <1>7. ASSUME NEW i \in 1 .. n + 1, NEW j \in 1 .. n + 1, i <= j
        PROVE  Period * (j - i + 1) <= Full + (grants'[j] - grants'[i])
    <2>1. CASE j \in 1 .. n
      <3>1. i \in 1 .. n
        BY <1>1, <1>7, <2>1
      <3>2. QED BY <1>3, <1>7, <2>1, <3>1 DEF RateBound
    <2>2. CASE j = n + 1
      <3>1. /\ grants'[i] \in Nat /\ grants'[j] = now
            /\ Period * (j - i + 1) + tokens' <= Full + (now - grants'[i])
        BY <1>3, <1>5, <2>2
      <3>2. tokens' \in Nat /\ Period * (j - i + 1) \in Int
        BY <1>1, <1>2, <2>2
      <3>3. QED BY <1>1, <3>1, <3>2
    <2>3. QED BY <1>1, <2>1, <2>2
  <1>8. RateBound'
    BY <1>3, <1>7 DEF RateBound
  <1>9. QED BY <1>6, <1>8

(* A pass that finds no token moves refilled time into the bucket.          *)
LEMMA WaitPays ==
  ASSUME TypeOK, GrantsPaid, NEW s \in Sends, Wait(s) PROVE GrantsPaid'
  <1>1. /\ now \in Nat /\ last_refill_at \in Nat /\ last_refill_at <= now /\ tokens \in Nat
        /\ Full \in Nat /\ Period \in Nat /\ Refilled \in Nat
        /\ Refilled <= tokens + (now - last_refill_at) /\ Len(grants) \in Nat
    BY FullFacts, RefillFacts DEF TypeOK
  <1>2. tokens' = Refilled /\ last_refill_at' = now /\ grants' = grants
    BY DEF Wait
  <1>3. ASSUME NEW i \in 1 .. Len(grants)
        PROVE  /\ grants[i] <= now
               /\ Period * (Len(grants) - i + 1) + Refilled <= Full + (now - grants[i])
    <2>1. grants[i] \in Nat /\ Period * (Len(grants) - i + 1) \in Int
      BY <1>1 DEF TypeOK
    <2>2. /\ grants[i] <= last_refill_at
          /\ Period * (Len(grants) - i + 1) + tokens <= Full + (last_refill_at - grants[i])
      BY DEF GrantsPaid
    <2>3. QED BY <1>1, <2>1, <2>2
  <1>4. QED BY <1>2, <1>3 DEF GrantsPaid

(* Every step keeps the account of the grants.                              *)
LEMMA GrantsStep ==
  ASSUME TypeOK, GrantsPaid, RateBound, [Next]_vars PROVE GrantsPaid' /\ RateBound'
  <1>1. ASSUME NEW s \in Sends, Wait(s) PROVE GrantsPaid' /\ RateBound'
    BY <1>1, WaitPays DEF Wait, RateBound
  <1>2. CASE UNCHANGED <<tokens, last_refill_at, grants>>
    BY <1>2 DEF GrantsPaid, RateBound
  <1>3. CASE \E s \in Sends : Take(s) \/ Wait(s)
    BY <1>1, <1>3, TakePays
  <1>4. CASE Tick \/ UNCHANGED vars
    BY <1>2, <1>4 DEF Tick, vars, bucket
  <1>5. ASSUME NEW s \in Sends, Attempt(s), ~(Take(s) \/ Wait(s))
        PROVE  UNCHANGED <<tokens, last_refill_at, grants>>
    BY <1>5 DEF Attempt, CallReturns, CallRaises, CallLimited, Retry, Exhausted, Audit, bucket
  <1>6. QED BY <1>2, <1>3, <1>4, <1>5 DEF Next

-----------------------------------------------------------------------------
(* A success, an audit or neither: the marker is set exactly while a        *)
(* session has no success since its audit.                                  *)
LEMMA EventsStep ==
  ASSUME TypeOK, SessionMarked, AuditOncePerSession, [Next]_vars
  PROVE  SessionMarked' /\ AuditOncePerSession'
  <1> DEFINE n == Len(events)
  <1>0. n \in Nat /\ events \in Seq({"ok", "audit"})
    BY DEF TypeOK
  <1>1. CASE UNCHANGED <<session, events>>
    BY <1>1 DEF SessionMarked, AuditOncePerSession
  <1>2. ASSUME NEW s \in Sends, CallReturns(s) PROVE SessionMarked' /\ AuditOncePerSession'
    <2>1. /\ Len(events') = n + 1 /\ events'[n + 1] = "ok"
          /\ \A i \in 1 .. n : events'[i] = events[i]
      BY <1>0, <1>2, AppendProperties DEF CallReturns
    <2>2. SessionMarked'
      BY <1>0, <2>1 DEF SessionMarked
    <2>3. AuditOncePerSession'
      <3>1. ASSUME NEW i \in 1 .. n + 1, NEW j \in 1 .. n + 1, i < j,
                   events'[i] = "audit", events'[j] = "audit"
            PROVE  \E k \in i + 1 .. j - 1 : events'[k] = "ok"
        <4>1. i \in 1 .. n /\ j \in 1 .. n
          BY <1>0, <2>1, <3>1
        <4>2. PICK k \in i + 1 .. j - 1 : events[k] = "ok"
          BY <2>1, <3>1, <4>1 DEF AuditOncePerSession
        <4>3. k \in 1 .. n
          BY <1>0, <4>1, <4>2
        <4>4. QED BY <2>1, <4>2, <4>3
      <3>2. QED BY <2>1, <3>1 DEF AuditOncePerSession
    <2>4. QED BY <2>2, <2>3
  <1>3. ASSUME NEW s \in Sends, Exhausted(s) PROVE SessionMarked' /\ AuditOncePerSession'
    <2>1. SessionMarked'
      BY <1>3 DEF Exhausted, SessionMarked
    <2>2. CASE session
      <3>1. events' = events
        BY <1>3, <2>2 DEF Exhausted
      <3>2. QED BY <2>1, <3>1 DEF AuditOncePerSession
    <2>3. CASE ~session
      <3>1. events' = Append(events, "audit")
        BY <1>3, <2>3 DEF Exhausted
      <3>2. /\ Len(events') = n + 1 /\ \A i \in 1 .. n : events'[i] = events[i]
        BY <1>0, <3>1, AppendProperties
      <3>3. ASSUME NEW i \in 1 .. n + 1, NEW j \in 1 .. n + 1, i < j,
                   events'[i] = "audit", events'[j] = "audit"
            PROVE  \E k \in i + 1 .. j - 1 : events'[k] = "ok"
        <4>1. i \in 1 .. n /\ events[i] = "audit"
          BY <1>0, <3>2, <3>3
        <4>2. CASE j = n + 1
          <5>1. PICK k \in i + 1 .. n : events[k] = "ok"
            BY <2>3, <4>1 DEF SessionMarked
          <5>2. k \in 1 .. n /\ k \in i + 1 .. j - 1
            BY <1>0, <4>1, <4>2, <5>1
          <5>3. QED BY <3>2, <5>1, <5>2
        <4>3. CASE j \in 1 .. n
          <5>1. events[j] = "audit"
            BY <3>2, <3>3, <4>3
          <5>2. PICK k \in i + 1 .. j - 1 : events[k] = "ok"
            BY <3>3, <4>1, <4>3, <5>1 DEF AuditOncePerSession
          <5>3. k \in 1 .. n
            BY <1>0, <4>1, <4>3, <5>2
          <5>4. QED BY <3>2, <5>2, <5>3
        <4>4. QED BY <1>0, <4>2, <4>3
      <3>4. AuditOncePerSession'
        BY <3>2, <3>3 DEF AuditOncePerSession
      <3>5. QED BY <2>1, <3>4
    <2>4. QED BY <2>2, <2>3
  <1>4. CASE Tick \/ UNCHANGED vars
    BY <1>1, <1>4 DEF Tick, vars
  <1>5. ASSUME NEW s \in Sends, Attempt(s), ~(CallReturns(s) \/ Exhausted(s))
        PROVE  UNCHANGED <<session, events>>
    BY <1>5 DEF Attempt, Take, Wait, CallRaises, CallLimited, Retry, Audit
  <1>6. QED BY <1>1, <1>2, <1>3, <1>4, <1>5 DEF Next

-----------------------------------------------------------------------------
(* The inductive invariant holds in every state of every run of the calls.  *)
THEOREM RateLimitInvariant == Spec => []IInv
  <1>1. IInv /\ [Next]_vars => IInv'
    BY TypeStep, GrantsStep, EventsStep DEF IInv
  <1>2. QED BY <1>1, InitIInv, PTL DEF Spec

(* Types hold, so acquire never overdraws the bucket and _refill never      *)
(* overfills it, for every capacity and period.                             *)
THEOREM RateLimitType == Spec => []TypeOK
  <1>1. IInv => TypeOK BY DEF IInv
  <1>2. QED BY <1>1, RateLimitInvariant, PTL

(* TokenBucketRateLimiter never grants more in a window than a full bucket  *)
(* and the window's refill, whatever the number of racing calls.            *)
THEOREM RateLimitBound == Spec => []RateBound
  <1>1. IInv => RateBound BY DEF IInv
  <1>2. QED BY <1>1, RateLimitInvariant, PTL

(* _on_exhausted emits one audit per throttle session.                      *)
THEOREM RateLimitAudit == Spec => []AuditOncePerSession
  <1>1. IInv => AuditOncePerSession BY DEF IInv
  <1>2. QED BY <1>1, RateLimitInvariant, PTL
(* No window holds more grants than the bucket and its refill, and a        *)
(* throttle session leaves one audit, for every capacity, period and number *)
(* of racing sends (token_bucket.py, with_whatsapp_rate_limit).             *)
THEOREM RateLimitHolds == Spec => []SendsBounded
  <1>1. IInv => SendsBounded BY DEF IInv, SendsBounded
  <1>2. QED BY <1>1, RateLimitInvariant, PTL

-----------------------------------------------------------------------------
(***************************************************************************)
(* WhatsAppSync: any number of sessions, messages, callbacks, faults and     *)
(* timers.  A session is left before its row is composed and no later one    *)
(* takes its place, so what _complete_sync counts after its await stays the  *)
(* count of the session.                                                    *)
(***************************************************************************)
TaskType ==
  [pc : {"none", "sleep", "cancelling", "emit", "done", "fold", "installwrite"},
   sync : 0 .. MaxSyncs, status : {"none", "completed", "interrupted"}, count : Nat]

SyncRowType ==
  [kind : {"sync", "install"}, sync : 0 .. MaxSyncs, count : Nat,
   status : {"none", "completed", "interrupted"}]

Busy(t) == task[t].pc \in {"cancelling", "emit"}

(* Types, and that a session counts no message that did not arrive.          *)
SyncTypes ==
  /\ state \in {"IDLE", "SYNC_IN_PROGRESS", "LIVE"}
  /\ syncs \in 0 .. MaxSyncs /\ active \in 0 .. syncs
  /\ messages \in 0 .. MaxMessages /\ timer \in 0 .. messages
  /\ count \in [Syncs -> Nat] /\ \A s \in Syncs : count[s] <= messages
  /\ task \in [CallTasks -> TaskType]
  /\ callbacks_made \in 0 .. MaxCallbacks
  /\ ledger \in Seq(SyncRowType)
  /\ failed \subseteq Syncs /\ seen \in BOOLEAN /\ faults \in 0 .. MaxFaults

(* A task that completes knows a session that was started; once it has left  *)
(* it, the count it holds is final.                                         *)
TaskKnows(t) ==
  /\ Busy(t) => task[t].sync \in 1 .. syncs
  /\ task[t].pc = "emit" =>
       task[t].sync # active /\ task[t].count = count[task[t].sync]

RowsFinal ==
  \A i \in 1 .. Len(ledger) :
    ledger[i].kind = "sync" =>
      /\ ledger[i].sync \in 1 .. syncs /\ ledger[i].sync # active
      /\ ledger[i].count = count[ledger[i].sync]

SyncInv == SyncTypes /\ ActiveIffSyncing /\ (\A t \in CallTasks : TaskKnows(t)) /\ RowsFinal

LEMMA SyncBounds ==
  MaxSyncs \in Nat /\ MaxMessages \in Nat /\ MaxCallbacks \in Nat /\ MaxFaults \in Nat
BY SyncAssumption

LEMMA IdleTyped ==
  /\ Idle \in TaskType /\ Idle.pc = "none"
  /\ [Idle EXCEPT !.pc = "done"] \in TaskType /\ [Idle EXCEPT !.pc = "done"].pc = "done"
BY SyncBounds DEF Idle, TaskType

LEMMA SyncStart == SyncInit => SyncInv
<1> SUFFICES ASSUME SyncInit PROVE SyncInv OBVIOUS
<1>1. SyncTypes
  <2>1. 0 \in 0 .. MaxSyncs /\ 0 \in 0 .. MaxMessages /\ 0 \in 0 .. MaxCallbacks /\ 0 \in 0 .. MaxFaults
    BY SyncBounds
  <2>2. count \in [Syncs -> Nat] /\ \A s \in Syncs : count[s] <= messages BY DEF SyncInit
  <2>3. task \in [CallTasks -> TaskType] BY IdleTyped DEF SyncInit
  <2>4. /\ state \in {"IDLE", "SYNC_IN_PROGRESS", "LIVE"} /\ failed \subseteq Syncs /\ seen \in BOOLEAN
        /\ ledger \in Seq(SyncRowType)
    <3>1. ledger \in Seq(SyncRowType) BY DEF SyncInit
    <3>2. state = "IDLE" /\ failed = {} /\ seen = FALSE BY DEF SyncInit
    <3>3. seen \in BOOLEAN BY <3>2, Zenon
    <3> QED BY <3>1, <3>2, <3>3
  <2>5. /\ syncs = 0 /\ active = 0 /\ messages = 0 /\ timer = 0 /\ callbacks_made = 0 /\ faults = 0
    BY DEF SyncInit
  <2>6. active \in 0 .. syncs /\ timer \in 0 .. messages BY <2>5
  <2>7. /\ syncs \in 0 .. MaxSyncs /\ messages \in 0 .. MaxMessages
        /\ callbacks_made \in 0 .. MaxCallbacks /\ faults \in 0 .. MaxFaults
    BY <2>1, <2>5
  <2> QED BY <2>2, <2>3, <2>4, <2>6, <2>7 DEF SyncTypes
<1>2. ActiveIffSyncing BY DEF SyncInit, ActiveIffSyncing
<1>3. ASSUME NEW t \in CallTasks PROVE TaskKnows(t)
  <2>1. task[t].pc = "none" BY IdleTyped DEF SyncInit
  <2> QED BY <2>1 DEF TaskKnows, Busy
<1>4. RowsFinal BY DEF SyncInit, RowsFinal
<1> QED BY <1>1, <1>2, <1>3, <1>4 DEF SyncInv

(* What a step may do to the sessions, the tasks and the rows without        *)
(* disturbing what is final.                                                *)
SessionsGoOn ==
  /\ \/ active' \in {active, 0} /\ syncs' = syncs
     \/ active' = syncs + 1 /\ syncs' = syncs + 1
  /\ \A s \in 1 .. syncs : s # active' => count'[s] = count[s]

(* t' is as it was, is idle, or completes a session it has just read.        *)
TaskGoesOn(t) ==
  \/ task'[t] = task[t]
  \/ task'[t].pc \notin {"cancelling", "emit"}
  \/ /\ task'[t].sync \in 1 .. syncs
     /\ task'[t].pc = "emit" => active' = 0 /\ task'[t].count = count'[task'[t].sync]

RowGoesOn(i) ==
  \/ i \in 1 .. Len(ledger) /\ ledger'[i] = ledger[i]
  \/ ledger'[i].kind = "install"
  \/ /\ active' = active
     /\ \E t \in CallTasks :
          task[t].pc = "emit" /\ ledger'[i].sync = task[t].sync /\ ledger'[i].count = task[t].count

LEMMA FinalStays ==
  ASSUME SyncInv, SyncTypes', ActiveIffSyncing', SessionsGoOn,
         \A t \in CallTasks : TaskGoesOn(t),
         \A i \in 1 .. Len(ledger') : RowGoesOn(i)
  PROVE  SyncInv'
<1>0. syncs \in Nat /\ syncs' \in Nat /\ active \in Nat BY SyncBounds DEF SyncInv, SyncTypes
<1>1. \A s \in 1 .. syncs : s \in 1 .. syncs' /\ s # 0
  BY <1>0 DEF SessionsGoOn
<1>2. \A s \in 1 .. syncs : s # active => s # active' /\ count'[s] = count[s]
  BY <1>0 DEF SessionsGoOn
<1>3. ASSUME NEW t \in CallTasks PROVE TaskKnows(t)'
  <2>0. TaskGoesOn(t) /\ TaskKnows(t) BY DEF SyncInv
  <2>1. CASE task'[t] = task[t] BY <1>1, <1>2, <2>0, <2>1 DEF TaskKnows, Busy
  <2>2. CASE task'[t].pc \notin {"cancelling", "emit"} BY <2>2 DEF TaskKnows, Busy
  <2>3. CASE /\ task'[t].sync \in 1 .. syncs
             /\ task'[t].pc = "emit" => active' = 0 /\ task'[t].count = count'[task'[t].sync]
    BY <1>1, <2>3 DEF TaskKnows, Busy
  <2> QED BY <2>0, <2>1, <2>2, <2>3 DEF TaskGoesOn
<1>4. RowsFinal'
  <2> SUFFICES ASSUME NEW i \in 1 .. Len(ledger'), ledger'[i].kind = "sync"
               PROVE  /\ ledger'[i].sync \in 1 .. syncs' /\ ledger'[i].sync # active'
                      /\ ledger'[i].count = count'[ledger'[i].sync]
    BY DEF RowsFinal
  <2>1. CASE i \in 1 .. Len(ledger) /\ ledger'[i] = ledger[i]
    BY <1>1, <1>2, <2>1 DEF SyncInv, RowsFinal
  <2>2. ASSUME active' = active, NEW t \in CallTasks, task[t].pc = "emit",
               ledger'[i].sync = task[t].sync, ledger'[i].count = task[t].count
        PROVE  /\ ledger'[i].sync \in 1 .. syncs' /\ ledger'[i].sync # active'
               /\ ledger'[i].count = count'[ledger'[i].sync]
    <3>1. TaskKnows(t) BY DEF SyncInv
    <3> QED BY <1>1, <1>2, <2>2, <3>1 DEF TaskKnows, Busy
  <2> QED BY <2>1, <2>2 DEF RowGoesOn
<1> QED BY <1>3, <1>4 DEF SyncInv

(* Rows that stay.                                                          *)
LEMMA LedgerStays == ASSUME UNCHANGED ledger PROVE \A i \in 1 .. Len(ledger') : RowGoesOn(i)
BY DEF RowGoesOn

LEMMA LedgerGrows ==
  ASSUME SyncTypes, NEW row \in SyncRowType, ledger' = Append(ledger, row),
         \/ row.kind = "install"
         \/ /\ active' = active
            /\ \E t \in CallTasks : task[t].pc = "emit" /\ row.sync = task[t].sync /\ row.count = task[t].count
  PROVE  ledger' \in Seq(SyncRowType) /\ \A i \in 1 .. Len(ledger') : RowGoesOn(i)
<1>1. ledger \in Seq(SyncRowType) /\ Len(ledger) \in Nat BY DEF SyncTypes
<1>2. /\ ledger' \in Seq(SyncRowType) /\ Len(ledger') = Len(ledger) + 1
      /\ \A i \in 1 .. Len(ledger) : ledger'[i] = ledger[i]
      /\ ledger'[Len(ledger) + 1] = row
  BY <1>1, AppendProperties
<1>3. ASSUME NEW i \in 1 .. Len(ledger') PROVE RowGoesOn(i)
  <2>1. i \in 1 .. Len(ledger) \/ i = Len(ledger) + 1 BY <1>1, <1>2
  <2> QED BY <1>2, <2>1 DEF RowGoesOn
<1> QED BY <1>2, <1>3

(* Cancelling the quiet timer ends a sleeping task, and no other.            *)
LEMMA CancelledIs ==
  ASSUME SyncTypes
  PROVE  /\ Cancelled \in [CallTasks -> TaskType]
         /\ \A u \in CallTasks : Cancelled[u] = task[u] \/ Cancelled[u].pc = "done"
<1>1. ASSUME NEW u \in CallTasks
      PROVE  [task[u] EXCEPT !.pc = "done"] \in TaskType /\ [task[u] EXCEPT !.pc = "done"].pc = "done"
  <2>1. task[u] \in TaskType BY DEF SyncTypes
  <2> QED BY <2>1 DEF TaskType
<1> QED BY <1>1 DEF Cancelled, SyncTypes

LEMMA SyncDriver == Driver \in CallTasks /\ \A t \in Timers : t \in CallTasks
BY DEF CallTasks, Driver

(* A message is counted in the running session, which no row has told yet.   *)
LEMMA ClassifyKeeps == ASSUME SyncInv, Classify PROVE SyncInv'
<1>0. /\ SyncTypes /\ ActiveIffSyncing
      /\ messages \in Nat /\ syncs \in Nat /\ active \in 0 .. syncs /\ timer \in 0 .. messages
      /\ messages' = messages + 1 /\ messages' \in 0 .. MaxMessages
      /\ UNCHANGED <<callbacks_made, ledger, failed, seen, faults>>
  BY SyncBounds DEF SyncInv, SyncTypes, Classify
<1>1. CASE state = "LIVE"
  <2>1. UNCHANGED <<state, active, syncs, count, timer, task>> BY <1>1 DEF Classify, machine
  <2>2. SyncTypes'
    <3>1. \A s \in Syncs : count'[s] <= messages' BY <1>0, <2>1 DEF SyncTypes
    <3>2. timer' \in 0 .. messages' BY <1>0, <2>1
    <3> QED BY <1>0, <2>1, <3>1, <3>2 DEF SyncTypes
  <2>3. ActiveIffSyncing' BY <1>0, <2>1 DEF ActiveIffSyncing
  <2>4. SessionsGoOn BY <2>1 DEF SessionsGoOn
  <2>5. \A t \in CallTasks : TaskGoesOn(t) BY <2>1 DEF TaskGoesOn
  <2> QED BY <1>0, <2>2, <2>3, <2>4, <2>5, LedgerStays, FinalStays
<1>2. CASE state # "LIVE"
  <2>1. /\ count' = [count EXCEPT ![active'] = @ + 1] /\ timer' = messages + 1
        /\ task' = [Cancelled EXCEPT ![messages + 1].pc = "sleep"]
    BY <1>2 DEF Classify
  <2>2. /\ \/ active' = active /\ syncs' = syncs /\ state' = state
           \/ active' = syncs + 1 /\ syncs' = syncs + 1 /\ state' = "SYNC_IN_PROGRESS"
        /\ active' \in 0 .. syncs' /\ active' # 0 /\ syncs' \in 0 .. MaxSyncs
        /\ state' = "SYNC_IN_PROGRESS"
    <3>1. CASE state = "IDLE" BY <1>0, <1>2, <3>1, SyncBounds DEF Classify, StartSync, SyncTypes
    <3>2. CASE state = "SYNC_IN_PROGRESS"
      BY <1>0, <1>2, <3>2 DEF Classify, ActiveIffSyncing, SyncTypes
    <3> QED BY <1>0, <1>2, <3>1, <3>2 DEF SyncTypes
  <2>3. active' \in Syncs BY <1>0, <2>2, SyncBounds DEF Syncs
  <2>4. /\ count' \in [Syncs -> Nat] /\ \A s \in Syncs : count'[s] <= messages'
        /\ \A s \in Syncs : s # active' => count'[s] = count[s]
    <3>1. count \in [Syncs -> Nat] /\ \A s \in Syncs : count[s] <= messages BY <1>0 DEF SyncTypes
    <3> QED BY <1>0, <2>1, <2>3, <3>1
  <2>5. messages + 1 \in CallTasks BY <1>0 DEF CallTasks, Timers
  <2>6. task' \in [CallTasks -> TaskType] /\ \A t \in CallTasks : TaskGoesOn(t)
    <3>1. /\ Cancelled[messages + 1] \in TaskType
          /\ task' = [Cancelled EXCEPT ![messages + 1] = [Cancelled[messages + 1] EXCEPT !.pc = "sleep"]]
      BY <1>0, <2>1, <2>5, CancelledIs
    <3>2. /\ [Cancelled[messages + 1] EXCEPT !.pc = "sleep"] \in TaskType
          /\ [Cancelled[messages + 1] EXCEPT !.pc = "sleep"].pc = "sleep"
      BY <3>1 DEF TaskType
    <3>3. \A t \in CallTasks : task'[t] = Cancelled[t] \/ task'[t].pc = "sleep"
      BY <1>0, <3>1, <3>2, CancelledIs
    <3> QED BY <1>0, <3>1, <3>2, <3>3, CancelledIs DEF TaskGoesOn
  <2>7. SyncTypes'
    <3>1. timer' \in 0 .. messages' BY <1>0, <2>1
    <3> QED BY <1>0, <2>2, <2>4, <2>6, <3>1 DEF SyncTypes
  <2>8. ActiveIffSyncing' BY <2>2 DEF ActiveIffSyncing
  <2>9. SessionsGoOn
    <3>1. \A s \in 1 .. syncs : s \in Syncs BY <1>0, SyncBounds DEF Syncs, SyncTypes
    <3> QED BY <2>2, <2>4, <3>1 DEF SessionsGoOn
  <2> QED BY <1>0, <2>6, <2>7, <2>8, <2>9, LedgerStays, FinalStays
<1> QED BY <1>1, <1>2

(* The first half of _complete_sync, by the driver or by a timer.            *)
LEMMA BeginCompletes ==
  ASSUME SyncInv, state = "SYNC_IN_PROGRESS", NEW t \in CallTasks,
         NEW status \in {"completed", "interrupted"}, BeginComplete(t, status),
         UNCHANGED <<messages, ledger, failed, seen, faults>>,
         callbacks_made' \in 0 .. MaxCallbacks
  PROVE  SyncInv'
<1> DEFINE waits == t # Driver \/ Sleeping(timer)
           noted == [pc |-> IF waits THEN "cancelling" ELSE "emit", sync |-> active,
                     status |-> status, count |-> count[active]]
<1>0. /\ SyncTypes /\ ActiveIffSyncing /\ syncs \in Nat /\ active \in 1 .. syncs
      /\ active \in Syncs /\ active \in 0 .. MaxSyncs /\ count[active] \in Nat
  BY SyncBounds DEF SyncInv, SyncTypes, ActiveIffSyncing, Syncs
<1>1. /\ timer' = 0 /\ task' = [Cancelled EXCEPT ![t] = noted] /\ UNCHANGED <<syncs, count>>
      /\ IF waits THEN UNCHANGED <<state, active>> ELSE active' = 0 /\ state' = Left(status)
  BY DEF BeginComplete
<1>2. /\ noted \in TaskType /\ noted.sync = active /\ noted.count = count[active]
      /\ noted.pc = IF waits THEN "cancelling" ELSE "emit"
  BY <1>0 DEF TaskType
<1> HIDE DEF noted
<1>3. /\ task' \in [CallTasks -> TaskType] /\ task'[t] = noted
      /\ \A u \in CallTasks : u # t => task'[u] = Cancelled[u]
  BY <1>0, <1>1, <1>2, CancelledIs
<1>4. active' \in 0 .. syncs' /\ state' \in {"IDLE", "SYNC_IN_PROGRESS", "LIVE"}
      /\ active' \in {active, 0}
  BY <1>0, <1>1 DEF Left, SyncTypes
<1>5. SyncTypes'
  <2>1. timer' \in 0 .. messages' BY <1>0, <1>1, SyncBounds DEF SyncTypes
  <2> QED BY <1>0, <1>1, <1>3, <1>4, <2>1 DEF SyncTypes
<1>6. ActiveIffSyncing' BY <1>0, <1>1 DEF ActiveIffSyncing, Left
<1>7. SessionsGoOn BY <1>1, <1>4 DEF SessionsGoOn
<1>8. ASSUME NEW u \in CallTasks PROVE TaskGoesOn(u)
  <2>1. CASE u = t BY <1>0, <1>1, <1>2, <1>3, <2>1 DEF TaskGoesOn
  <2>2. CASE u # t BY <1>0, <1>3, <2>2, CancelledIs DEF TaskGoesOn
  <2> QED BY <2>1, <2>2
<1> QED BY <1>5, <1>6, <1>7, <1>8, LedgerStays, FinalStays

(* The second half: the session is left and its count read afresh.           *)
LEMMA ResumeKeeps == ASSUME SyncInv, NEW t \in CallTasks, Resume(t) PROVE SyncInv'
<1>0. /\ SyncTypes /\ syncs \in Nat /\ task[t] \in TaskType /\ task[t].pc = "cancelling"
      /\ task[t].sync \in 1 .. syncs /\ task[t].sync \in Syncs /\ count[task[t].sync] \in Nat
      /\ active' = 0 /\ state' = Left(task[t].status)
      /\ UNCHANGED <<syncs, count, timer, messages, callbacks_made, ledger, failed, seen, faults>>
  <2>1. TaskKnows(t) /\ task[t].pc = "cancelling" BY DEF SyncInv, Resume, At
  <2>2. task[t].sync \in 1 .. syncs BY <2>1 DEF TaskKnows, Busy
  <2> QED BY <2>1, <2>2, SyncBounds DEF SyncInv, SyncTypes, Resume, Syncs
<1> DEFINE told == [[task[t] EXCEPT !.pc = "emit"] EXCEPT !.count = count[task[t].sync]]
<1>1. task' = [task EXCEPT ![t] = told] BY <1>0 DEF Resume, SyncTypes, TaskType
<1>2. /\ told \in TaskType /\ told.sync = task[t].sync /\ told.count = count[task[t].sync]
  BY <1>0 DEF TaskType
<1> HIDE DEF told
<1>3. /\ task' \in [CallTasks -> TaskType] /\ task'[t] = told
      /\ \A u \in CallTasks : u # t => task'[u] = task[u]
  BY <1>0, <1>1, <1>2 DEF SyncTypes
<1>4. SyncTypes'
  <2>1. 0 \in 0 .. syncs BY <1>0
  <2> QED BY <1>0, <1>3, <2>1 DEF SyncTypes, Left
<1>5. ActiveIffSyncing' BY <1>0 DEF ActiveIffSyncing, Left
<1>6. SessionsGoOn BY <1>0 DEF SessionsGoOn
<1>7. ASSUME NEW u \in CallTasks PROVE TaskGoesOn(u) BY <1>0, <1>2, <1>3 DEF TaskGoesOn
<1> QED BY <1>0, <1>4, <1>5, <1>6, <1>7, LedgerStays, FinalStays

(* The emitter's row is the one noted, or there is none.                     *)
LEMMA EmitKeeps == ASSUME SyncInv, NEW t \in CallTasks, NEW ok \in BOOLEAN, EmitSync(t, ok) PROVE SyncInv'
<1> DEFINE row == [kind |-> "sync", sync |-> task[t].sync, count |-> task[t].count, status |-> task[t].status]
<1>0. /\ SyncTypes /\ ActiveIffSyncing /\ task[t] \in TaskType /\ task[t].pc = "emit"
      /\ UNCHANGED <<state, active, syncs, count, messages, callbacks_made, seen>>
      /\ task[t].sync \in Syncs
  <2>1. TaskKnows(t) /\ task[t].pc = "emit" BY DEF SyncInv, EmitSync, At
  <2>2. task[t].sync \in 1 .. syncs BY <2>1 DEF TaskKnows, Busy
  <2> QED BY <2>1, <2>2, SyncBounds DEF SyncInv, SyncTypes, EmitSync, Syncs
<1>1. /\ ledger' \in Seq(SyncRowType) /\ \A i \in 1 .. Len(ledger') : RowGoesOn(i)
      /\ failed' \subseteq Syncs /\ faults' \in 0 .. MaxFaults
  <2>1. CASE ok
    <3>1. ledger' = Append(ledger, row) /\ UNCHANGED <<failed, faults>> BY <2>1 DEF EmitSync
    <3>2. row \in SyncRowType /\ row.sync = task[t].sync /\ row.count = task[t].count
      BY <1>0 DEF SyncRowType, TaskType
    <3> HIDE DEF row
    <3>3. ledger' \in Seq(SyncRowType) /\ \A i \in 1 .. Len(ledger') : RowGoesOn(i)
      BY <1>0, <3>1, <3>2, LedgerGrows
    <3> QED BY <1>0, <3>1, <3>3 DEF SyncTypes
  <2>2. CASE ~ok
    <3>1. UNCHANGED ledger /\ faults < MaxFaults /\ faults' = faults + 1 /\ failed' = failed \cup {task[t].sync}
      BY <2>2 DEF EmitSync, Fault
    <3> QED BY <1>0, <3>1, LedgerStays, SyncBounds DEF SyncTypes
  <2> QED BY <2>1, <2>2
<1>2. /\ timer' \in 0 .. messages' /\ task' \in [CallTasks -> TaskType]
      /\ \A u \in CallTasks : task'[u] = task[u] \/ task'[u].pc \in {"none", "done"}
  <2>1. 0 \in 0 .. messages /\ timer \in 0 .. messages /\ messages' = messages
    BY <1>0, SyncBounds DEF SyncTypes
  <2>2. CASE task[t].status = "interrupted"
    <3>1. timer' = 0 /\ task' = [Cancelled EXCEPT ![t] = Idle] BY <2>2 DEF EmitSync
    <3> QED BY <1>0, <2>1, <3>1, CancelledIs, IdleTyped
  <2>3. CASE task[t].status # "interrupted"
    <3>1. PICK end \in TaskType : end.pc \in {"none", "done"} /\ timer' = timer /\ task' = [task EXCEPT ![t] = end]
      BY <2>3, IdleTyped DEF EmitSync
    <3> QED BY <1>0, <2>1, <3>1 DEF SyncTypes
  <2> QED BY <2>2, <2>3
<1>3. SyncTypes' BY <1>0, <1>1, <1>2 DEF SyncTypes
<1>4. ActiveIffSyncing' BY <1>0 DEF ActiveIffSyncing
<1>5. SessionsGoOn BY <1>0 DEF SessionsGoOn
<1>6. \A u \in CallTasks : TaskGoesOn(u) BY <1>2 DEF TaskGoesOn
<1> QED BY <1>1, <1>3, <1>4, <1>5, <1>6, FinalStays

(* on_connection_open: at most a new session.                               *)
LEMMA OpenKeeps ==
  ASSUME SyncInv, Opened, UNCHANGED <<messages, failed>>,
         callbacks_made' \in 0 .. MaxCallbacks, seen' \in BOOLEAN, faults' \in 0 .. MaxFaults,
         \/ UNCHANGED ledger
         \/ ledger' = Append(ledger, [kind |-> "install", sync |-> 0, count |-> 0, status |-> "none"])
  PROVE  SyncInv'
<1>0. /\ SyncTypes /\ ActiveIffSyncing /\ syncs \in Nat /\ active \in 0 .. syncs
      /\ task' = [task EXCEPT ![Driver] = Idle] /\ UNCHANGED <<count, timer>>
  BY SyncBounds DEF SyncInv, SyncTypes, Opened
<1>1. /\ \/ active' = active /\ syncs' = syncs /\ state' = state
         \/ active' = syncs + 1 /\ syncs' = syncs + 1 /\ state' = "SYNC_IN_PROGRESS"
      /\ syncs' \in 0 .. MaxSyncs /\ active' \in 0 .. syncs'
  <2>1. CASE state = "SYNC_IN_PROGRESS" BY <1>0, <2>1 DEF Opened, SyncTypes
  <2>2. CASE state # "SYNC_IN_PROGRESS" BY <1>0, <2>2, SyncBounds DEF Opened, StartSync, SyncTypes
  <2> QED BY <2>1, <2>2
<1>2. /\ task' \in [CallTasks -> TaskType] /\ task'[Driver] = Idle
      /\ \A u \in CallTasks : u # Driver => task'[u] = task[u]
  BY <1>0, SyncDriver, IdleTyped DEF SyncTypes
<1>3. ledger' \in Seq(SyncRowType) /\ \A i \in 1 .. Len(ledger') : RowGoesOn(i)
  <2>1. CASE UNCHANGED ledger BY <1>0, <2>1, LedgerStays DEF SyncTypes
  <2>2. CASE ledger' = Append(ledger, [kind |-> "install", sync |-> 0, count |-> 0, status |-> "none"])
    <3> DEFINE row == [kind |-> "install", sync |-> 0, count |-> 0, status |-> "none"]
    <3>1. row \in SyncRowType /\ row.kind = "install" BY SyncBounds DEF SyncRowType
    <3>2. ledger' = Append(ledger, row) BY <2>2
    <3> HIDE DEF row
    <3> QED BY <1>0, <3>1, <3>2, LedgerGrows
  <2> QED BY <2>1, <2>2
<1>4. SyncTypes'
  <2>1. state' \in {"IDLE", "SYNC_IN_PROGRESS", "LIVE"} BY <1>0, <1>1 DEF SyncTypes
  <2> QED BY <1>0, <1>1, <1>2, <1>3, <2>1 DEF SyncTypes
<1>5. ActiveIffSyncing' BY <1>0, <1>1 DEF ActiveIffSyncing
<1>6. SessionsGoOn BY <1>0, <1>1 DEF SessionsGoOn
<1>7. ASSUME NEW u \in CallTasks PROVE TaskGoesOn(u)
  <2>1. CASE u = Driver BY <1>2, <2>1, IdleTyped DEF TaskGoesOn
  <2>2. CASE u # Driver BY <1>2, <2>2 DEF TaskGoesOn
  <2> QED BY <2>1, <2>2
<1> QED BY <1>3, <1>4, <1>5, <1>6, <1>7, FinalStays

(* Steps that leave the machine as it is, or idle, and cancel at most the    *)
(* timer or move the driver on within the installation.                     *)
LEMMA QuietKeeps ==
  ASSUME SyncInv, UNCHANGED <<active, syncs, count, messages, ledger, failed>>,
         callbacks_made' \in 0 .. MaxCallbacks, seen' \in BOOLEAN, faults' \in 0 .. MaxFaults,
         state' = state \/ (state # "SYNC_IN_PROGRESS" /\ state' = "IDLE"), timer' \in {0, timer},
         task' \in [CallTasks -> TaskType],
         \A u \in CallTasks : task'[u] = task[u] \/ task'[u].pc \in {"done", "fold", "installwrite"}
  PROVE  SyncInv'
<1>0. SyncTypes /\ ActiveIffSyncing BY DEF SyncInv
<1>1. SyncTypes'
  <2>1. timer' \in 0 .. messages' BY <1>0, SyncBounds DEF SyncTypes
  <2>2. state' \in {"IDLE", "SYNC_IN_PROGRESS", "LIVE"} BY <1>0 DEF SyncTypes
  <2> QED BY <1>0, <2>1, <2>2 DEF SyncTypes
<1>2. ActiveIffSyncing' BY <1>0 DEF ActiveIffSyncing
<1>3. SessionsGoOn BY DEF SessionsGoOn
<1>4. \A u \in CallTasks : TaskGoesOn(u) BY DEF TaskGoesOn
<1> QED BY <1>1, <1>2, <1>3, <1>4, LedgerStays, FinalStays

LEMMA DriverMoves ==
  ASSUME SyncTypes, NEW step \in {"fold", "installwrite"}, DriverAt(step)
  PROVE  /\ UNCHANGED <<state, active, syncs, count, timer>>
         /\ task' \in [CallTasks -> TaskType]
         /\ \A u \in CallTasks : task'[u] = task[u] \/ task'[u].pc = step
<1>1. task[Driver] \in TaskType BY SyncDriver DEF SyncTypes
<1> DEFINE moved == [task[Driver] EXCEPT !.pc = step]
<1>2. moved \in TaskType /\ moved.pc = step BY <1>1 DEF TaskType
<1>3. task' = [task EXCEPT ![Driver] = moved] BY DEF DriverAt
<1> HIDE DEF moved
<1> QED BY <1>2, <1>3, SyncDriver DEF DriverAt, machine, SyncTypes

LEMMA TimerFiresKeeps == ASSUME SyncInv, NEW t \in Timers, TimerFires(t) PROVE SyncInv'
<1>0. SyncTypes /\ t \in CallTasks /\ UNCHANGED <<messages, callbacks_made, ledger, failed, seen, faults>>
  BY SyncDriver DEF SyncInv, TimerFires
<1>1. callbacks_made' \in 0 .. MaxCallbacks /\ seen' \in BOOLEAN /\ faults' \in 0 .. MaxFaults
  BY <1>0 DEF SyncTypes
<1>2. CASE state = "SYNC_IN_PROGRESS"
  BY <1>0, <1>1, <1>2, BeginCompletes DEF TimerFires
<1>3. CASE state # "SYNC_IN_PROGRESS"
  <2>1. task' = [task EXCEPT ![t].pc = "done"] /\ UNCHANGED <<state, active, syncs, count, timer>>
    BY <1>3 DEF TimerFires, machine
  <2>2. task[t] \in TaskType BY <1>0 DEF SyncTypes
  <2> DEFINE ended == [task[t] EXCEPT !.pc = "done"]
  <2>3. ended \in TaskType /\ ended.pc = "done" BY <2>2 DEF TaskType
  <2>4. task' = [task EXCEPT ![t] = ended] BY <2>1
  <2> HIDE DEF ended
  <2>5. /\ task' \in [CallTasks -> TaskType]
        /\ \A u \in CallTasks : task'[u] = task[u] \/ task'[u].pc = "done"
    BY <1>0, <2>3, <2>4 DEF SyncTypes
  <2> QED BY <1>0, <1>1, <2>1, <2>5, QuietKeeps
<1> QED BY <1>2, <1>3

LEMMA CallbackKeeps == ASSUME SyncInv, NEW cb \in Callbacks, Callback(cb) PROVE SyncInv'
<1>0. /\ SyncTypes /\ UNCHANGED <<messages, ledger, failed, seen, faults>>
      /\ callbacks_made' \in 0 .. MaxCallbacks /\ seen' \in BOOLEAN /\ faults' \in 0 .. MaxFaults
  BY SyncBounds DEF SyncInv, SyncTypes, Callback
<1>1. CASE cb = "open" /\ IF seen THEN Opened ELSE DriverAt("fold")
  <2>1. CASE seen BY <1>0, <1>1, <2>1, OpenKeeps
  <2>2. CASE ~seen
    <3>1. DriverAt("fold") BY <1>1, <2>2
    <3> QED BY <1>0, <3>1, DriverMoves, QuietKeeps
  <2> QED BY <2>1, <2>2
<1>2. CASE state = "SYNC_IN_PROGRESS" /\ \E status \in {"completed", "interrupted"} : BeginComplete(Driver, status)
  BY <1>0, <1>2, SyncDriver, BeginCompletes
<1>3. CASE /\ state # "SYNC_IN_PROGRESS" /\ state' = "IDLE" /\ timer' = 0 /\ task' = Cancelled
           /\ UNCHANGED <<active, syncs, count>>
  BY <1>0, <1>3, CancelledIs, QuietKeeps
<1>4. CASE timer' = 0 /\ task' = Cancelled /\ UNCHANGED <<state, active, syncs, count>>
  BY <1>0, <1>4, CancelledIs, QuietKeeps
<1> QED BY <1>1, <1>2, <1>3, <1>4 DEF Callback

LEMMA InstallKeeps ==
  ASSUME SyncInv, InstallFold \/ InstallFoldFails \/ \E o \in {"ok", "lost", "unacknowledged"} : InstallWrite(o)
  PROVE  SyncInv'
<1>0. SyncTypes /\ seen \in BOOLEAN /\ faults \in 0 .. MaxFaults /\ callbacks_made \in 0 .. MaxCallbacks
      /\ (Fault => faults' \in 0 .. MaxFaults)
  BY SyncBounds DEF SyncInv, SyncTypes, Fault
<1>1. CASE InstallFold
  <2>1. UNCHANGED <<messages, callbacks_made, ledger, failed, faults>> BY <1>1 DEF InstallFold
  <2>2. CASE Installed
    <3>1. seen' = TRUE /\ Opened BY <1>1, <2>2 DEF InstallFold
    <3>2. seen' \in BOOLEAN BY <3>1, Zenon
    <3> QED BY <1>0, <2>1, <3>1, <3>2, OpenKeeps
  <2>3. CASE ~Installed
    <3>1. seen' = seen /\ DriverAt("installwrite") BY <1>1, <2>3 DEF InstallFold
    <3> QED BY <1>0, <2>1, <3>1, DriverMoves, QuietKeeps
  <2> QED BY <2>2, <2>3
<1>2. CASE InstallFoldFails
  <2>1. /\ UNCHANGED <<messages, callbacks_made, ledger, failed>> /\ Fault
        /\ seen' = TRUE /\ Opened
    BY <1>2 DEF InstallFoldFails
  <2>2. seen' \in BOOLEAN BY <2>1, Zenon
  <2> QED BY <1>0, <2>1, <2>2, OpenKeeps
<1>3. ASSUME NEW o \in {"ok", "lost", "unacknowledged"}, InstallWrite(o) PROVE SyncInv'
  <2>1. Opened /\ UNCHANGED <<messages, callbacks_made, failed>> BY <1>3 DEF InstallWrite
  <2>2. /\ \/ UNCHANGED ledger
           \/ ledger' = Append(ledger, [kind |-> "install", sync |-> 0, count |-> 0, status |-> "none"])
    BY <1>3 DEF InstallWrite
  <2>3. seen' \in BOOLEAN /\ faults' \in 0 .. MaxFaults
    <3>1. CASE o = "ok"
      <4>1. seen' = TRUE /\ faults' = faults BY <1>3, <3>1 DEF InstallWrite
      <4>2. seen' \in BOOLEAN BY <4>1, Zenon
      <4> QED BY <1>0, <4>1, <4>2
    <3>2. CASE o # "ok"
      <4>1. seen' = seen /\ Fault BY <1>3, <3>2 DEF InstallWrite
      <4> QED BY <1>0, <4>1
    <3> QED BY <3>1, <3>2
  <2> QED BY <1>0, <2>1, <2>2, <2>3, OpenKeeps
<1> QED BY <1>1, <1>2, <1>3

(* A restart forgets the session that ran; what is in the ledger was final.  *)
LEMMA SyncRestarts == ASSUME SyncInv, Restart PROVE SyncInv'
<1>0. /\ SyncTypes /\ syncs \in Nat /\ state' = "IDLE" /\ active' = 0 /\ timer' = 0 /\ seen' = FALSE
      /\ task' = [t \in CallTasks |-> IF t \in 1 .. messages THEN [Idle EXCEPT !.pc = "done"] ELSE Idle]
      /\ failed' = failed \cup (1 .. syncs) /\ faults' \in 0 .. MaxFaults
      /\ UNCHANGED <<syncs, count, messages, callbacks_made, ledger>>
  BY SyncBounds DEF SyncInv, SyncTypes, Restart, Fault
<1>1. /\ task' \in [CallTasks -> TaskType] /\ \A u \in CallTasks : task'[u].pc \in {"none", "done"}
  BY <1>0, IdleTyped
<1>2. SyncTypes'
  <2>1. seen' \in BOOLEAN BY <1>0, Zenon
  <2>2. failed' \subseteq Syncs /\ timer' \in 0 .. messages' /\ active' \in 0 .. syncs'
    BY <1>0, SyncBounds DEF SyncTypes, Syncs
  <2> QED BY <1>0, <1>1, <2>1, <2>2 DEF SyncTypes
<1>3. ActiveIffSyncing' BY <1>0 DEF ActiveIffSyncing
<1>4. SessionsGoOn BY <1>0 DEF SessionsGoOn
<1>5. \A u \in CallTasks : TaskGoesOn(u) BY <1>1 DEF TaskGoesOn
<1> QED BY <1>0, <1>2, <1>3, <1>4, <1>5, LedgerStays, FinalStays

LEMMA SyncStep == ASSUME SyncInv, [SyncNext]_syncVars PROVE SyncInv'
<1>1. CASE UNCHANGED syncVars
  <2>1. UNCHANGED <<state, active, syncs, count, timer, messages, task, callbacks_made, ledger, failed, seen, faults>>
    BY <1>1 DEF syncVars, machine
  <2> QED BY <2>1 DEF SyncInv, SyncTypes, ActiveIffSyncing, TaskKnows, Busy, RowsFinal
<1>2. CASE DriverStep BY <1>2, SyncDriver, ResumeKeeps, EmitKeeps, InstallKeeps DEF DriverStep
<1>3. ASSUME NEW t \in Timers, TimerStep(t) PROVE SyncInv'
  BY <1>3, SyncDriver, ResumeKeeps, EmitKeeps, TimerFiresKeeps DEF TimerStep
<1> QED BY <1>1, <1>2, <1>3, ClassifyKeeps, CallbackKeeps, SyncRestarts DEF SyncNext

LEMMA SyncInvariant == SyncSpec => []SyncInv
BY SyncStart, SyncStep, PTL DEF SyncSpec

(* Variables keep their types, and no session counts a message that did not  *)
(* arrive (_WhatsAppSyncState).                                             *)
THEOREM SyncType == SyncSpec => []SyncTypeOK
<1>1. SyncInv => SyncTypeOK
  <2> SUFFICES ASSUME SyncInv PROVE SyncTypeOK OBVIOUS
  <2>0. SyncTypes /\ messages \in Nat BY SyncBounds DEF SyncInv, SyncTypes
  <2>1. count \in [Syncs -> 0 .. MaxMessages] /\ timer \in 0 .. MaxMessages
    BY <2>0, SyncBounds DEF SyncTypes
  <2>2. ASSUME NEW t \in CallTasks
        PROVE  /\ task[t].pc \in {"none", "sleep", "cancelling", "emit", "done", "fold", "installwrite"}
               /\ task[t].sync \in 0 .. MaxSyncs
               /\ task[t].status \in {"none", "completed", "interrupted"}
    <3>1. task[t] \in TaskType BY <2>0 DEF SyncTypes
    <3> QED BY <3>1 DEF TaskType
  <2> QED BY <2>0, <2>1, <2>2 DEF SyncTypes, SyncTypeOK
<1> QED BY <1>1, SyncInvariant, PTL

(* The assertion in _classify_message never fails: while a sync is in        *)
(* progress there is an active session, whoever is completing one.           *)
THEOREM SyncsKeepTheirSession == SyncSpec => []ActiveIffSyncing
<1>1. SyncInv => ActiveIffSyncing BY DEF SyncInv
<1> QED BY <1>1, SyncInvariant, PTL

(* A conversation_sync row counts every message stamped with its session,    *)
(* whichever tasks complete it and however the process restarts              *)
(* (_complete_sync).                                                        *)
THEOREM RowsAreComplete == SyncSpec => []RowsComplete
<1>1. SyncInv => RowsComplete BY DEF SyncInv, RowsFinal, RowsComplete
<1> QED BY <1>1, SyncInvariant, PTL

-----------------------------------------------------------------------------
(* The session tailer. What a step of the pump needs of the earlier ones is  *)
(* that the lines it is past are settled, that a remembered key is settled   *)
(* too (so a line may be dropped for it), and that a window holds the last   *)
(* insertions in order: a row's age tells where its key is, and a key that   *)
(* is not there has left it.                                                *)
Recent(kind) == IF kind = "sent" THEN sent ELSE received

CapOf(kind) == IF kind = "sent" THEN CapSent ELSE CapReceived

KindOf(key) == IF key[1] = "sent" THEN "sent" ELSE "received"

RowKinds == {"sent", "received"}

Reading == pump \in {"read", "handle", "write", "save"}

(* The pump stands at a whole line of the file it reads, and no offset is    *)
(* beyond the whole lines.                                                  *)
AtLine ==
  /\ \A s \in Sessions : disk[s] <= Complete(s) /\ offsets[s] <= Complete(s)
  /\ pump = "file" => cur \in Sessions
  /\ Reading => cur \in Sessions /\ at <= Complete(cur)
  /\ pump \in {"handle", "write", "save"} => at >= 1

(* The expected lines of file s up to the n-th are settled.                  *)
SettledTo(s, n) == \A m \in 1 .. n : Expected(s, m) => Settled(Key(s, file[s][m]))

LinesRead ==
  /\ pump \in {"read", "save"} => SettledTo(cur, at)
  /\ pump \in {"handle", "write"} => SettledTo(cur, at - 1)

LinesSettled ==
  /\ \A s \in Sessions : SettledTo(s, disk[s]) /\ SettledTo(s, offsets[s])
  /\ LinesRead

(* A remembered key is settled, or is the one about to be written.           *)
RecentSettled ==
  \A kind \in RowKinds : \A i \in 1 .. Len(Recent(kind)) :
    \/ Settled(Recent(kind)[i])
    \/ pump = "write" /\ Recent(kind)[i] = ThisKey

(* A window that has not turned over yet holds every insertion.              *)
WindowFills(kind) ==
  Len(Recent(kind)) = inserted[kind] \/ Len(Recent(kind)) = CapOf(kind)

(* The window for a kind of row holds the keys of this process's last        *)
(* insertions, each at the place its stamp tells.                            *)
WindowHolds(kind) ==
  \A i \in 1 .. Len(emitted) :
    LET row == emitted[i] age == inserted[kind] - row.stamp IN
    (row.epoch = epoch /\ KindOf(row.key) = kind) =>
      /\ row.stamp >= 1 /\ age >= 0
      /\ age < CapOf(kind) => Recent(kind)[Len(Recent(kind)) - age] = row.key

(* The key about to be written is the last one remembered, and no row of     *)
(* this process within its window has it.                                    *)
WriteIsNew ==
  \A kind \in RowKinds : (pump = "write" /\ kind = KindOf(ThisKey)) =>
    /\ inserted[kind] >= 1 /\ Recent(kind)[Len(Recent(kind))] = ThisKey
    /\ \A i \in 1 .. Len(emitted) :
         (emitted[i].epoch = epoch /\ emitted[i].key = ThisKey) =>
           inserted[kind] - emitted[i].stamp > CapOf(kind)

EpochsPast == \A i \in 1 .. Len(emitted) : emitted[i].epoch <= epoch

Windows ==
  /\ EpochsPast
  /\ \A kind \in RowKinds : WindowFills(kind)
  /\ pump # "down" => \A kind \in RowKinds : WindowHolds(kind)
  /\ WriteIsNew

SessionIInv ==
  SessionTypeOK /\ AtLine /\ LinesSettled /\ RecentSettled /\ Windows /\ DedupWindow

LEMMA TailBounds ==
  /\ NumSessions \in Nat /\ NumSessions >= 1 /\ MaxLines \in Nat
  /\ CapReceived \in Nat /\ CapReceived >= 1 /\ CapSent \in Nat /\ CapSent >= 1
BY CapAssumption

LEMMA KeysTyped ==
  ASSUME NEW s \in Sessions, NEW line \in Line
  PROVE  /\ Key(s, line) \in Keys
         /\ KindOf(Key(s, line)) = IF line.kind = "sent" THEN "sent" ELSE "received"
<1>1. Key(s, line) \in Keys BY DEF Keys
<1>2. Key(s, line)[1] = line.kind BY DEF Key
<1> QED BY <1>1, <1>2 DEF KindOf

(* A bounded dict keeps its newest entries in order.                        *)
LEMMA RememberTyped ==
  ASSUME NEW keys \in Seq(Keys), NEW cap \in Nat, cap >= 1, Len(keys) <= cap, NEW key \in Keys,
         NEW new, new = Remember(keys, cap, key)
  PROVE  new \in Seq(Keys) /\ Len(new) <= cap
<1>1. CASE Len(keys) = cap
  <2>1. Tail(keys) \in Seq(Keys) /\ Len(Tail(keys)) = Len(keys) - 1
    <3>1. keys # <<>> BY <1>1
    <3> QED BY <3>1, HeadTailProperties
  <2>2. new = Append(Tail(keys), key) BY <1>1 DEF Remember
  <2> QED BY <1>1, <2>1, <2>2
<1>2. CASE Len(keys) < cap
  <2>1. new = Append(keys, key) BY <1>2 DEF Remember
  <2> QED BY <1>2, <2>1
<1> QED BY <1>1, <1>2

LEMMA RememberShifts ==
  ASSUME NEW keys \in Seq(Keys), NEW cap \in Nat, cap >= 1, Len(keys) <= cap, NEW key \in Keys
  PROVE  LET new == Remember(keys, cap, key) IN
         /\ Len(new) = IF Len(keys) = cap THEN cap ELSE Len(keys) + 1
         /\ new[Len(new)] = key
         /\ \A age \in Nat : age + 1 < Len(new) =>
              new[Len(new) - (age + 1)] = keys[Len(keys) - age]
<1>1. PICK new : new = Remember(keys, cap, key) OBVIOUS
<1>2. /\ Len(new) = IF Len(keys) = cap THEN cap ELSE Len(keys) + 1
      /\ new[Len(new)] = key
      /\ \A age \in Nat : age + 1 < Len(new) =>
           new[Len(new) - (age + 1)] = keys[Len(keys) - age]
  <2>1. CASE Len(keys) = cap
    <3>1. /\ Tail(keys) \in Seq(Keys) /\ Len(Tail(keys)) = Len(keys) - 1
          /\ \A i \in 1 .. Len(keys) - 1 : Tail(keys)[i] = keys[i + 1]
      <4>1. keys # <<>> BY <2>1
      <4> QED BY <4>1, HeadTailProperties
    <3>2. new = Append(Tail(keys), key) BY <1>1, <2>1 DEF Remember
    <3> QED BY <2>1, <3>1, <3>2
  <2>2. CASE Len(keys) < cap
    <3>1. new = Append(keys, key) BY <1>1, <2>2 DEF Remember
    <3> QED BY <2>2, <3>1
  <2> QED BY <2>1, <2>2
<1> QED BY <1>1, <1>2

LEMMA RememberMembers ==
  ASSUME NEW keys \in Seq(Keys), NEW cap \in Nat, cap >= 1, Len(keys) <= cap, NEW key \in Keys,
         NEW i \in 1 .. Len(Remember(keys, cap, key))
  PROVE  \/ Remember(keys, cap, key)[i] = key
         \/ \E j \in 1 .. Len(keys) : Remember(keys, cap, key)[i] = keys[j]
<1>1. CASE Len(keys) = cap
  <2>1. /\ Tail(keys) \in Seq(Keys) /\ Len(Tail(keys)) = Len(keys) - 1
        /\ \A k \in 1 .. Len(keys) - 1 : Tail(keys)[k] = keys[k + 1]
    <3>1. keys # <<>> BY <1>1
    <3> QED BY <3>1, HeadTailProperties
  <2>2. Remember(keys, cap, key) = Append(Tail(keys), key) BY <1>1 DEF Remember
  <2>3. CASE i = Len(keys) BY <2>1, <2>2, <2>3
  <2>4. CASE i < Len(keys)
    <3>1. Remember(keys, cap, key)[i] = Tail(keys)[i] BY <2>1, <2>2, <2>4
    <3>2. Tail(keys)[i] = keys[i + 1] /\ i + 1 \in 1 .. Len(keys) BY <2>1, <2>4
    <3> QED BY <3>1, <3>2
  <2> QED BY <1>1, <2>1, <2>2, <2>3, <2>4
<1>2. CASE Len(keys) < cap
  <2>1. Remember(keys, cap, key) = Append(keys, key) BY <1>2 DEF Remember
  <2> QED BY <2>1
<1> QED BY <1>1, <1>2

LEMMA SessionStart == SessionInit => SessionIInv
<1> SUFFICES ASSUME SessionInit PROVE SessionIInv OBVIOUS
<1>1. SessionTypeOK
  <2>1. /\ file \in [Sessions -> Seq(Line)] /\ partial \in [Sessions -> BOOLEAN]
        /\ disk \in [Sessions -> Nat] /\ offsets \in [Sessions -> Nat]
        /\ \A s \in Sessions : Len(file[s]) = 0 /\ disk[s] = 0 /\ offsets[s] = 0
    BY DEF SessionInit
  <2>2. last \in [Sessions -> Names \cup {NoName}]
    BY DEF SessionInit
  <2>3. inserted \in [{"received", "sent"} -> Nat] /\ used \in [{"write", "crash", "disk"} -> Nat]
    BY DEF SessionInit
  <2>4. /\ received \in Seq(Keys) /\ sent \in Seq(Keys) /\ emitted \in Seq(Row_)
        /\ Len(received) = 0 /\ Len(sent) = 0
    BY DEF SessionInit
  <2>5. /\ cached \subseteq Sessions \X (1 .. MaxLines) /\ raised \subseteq Keys
        /\ signalled \in BOOLEAN /\ stop \in BOOLEAN
    BY Zenon DEF SessionInit
  <2>7. cur \in 1 .. NumSessions + 1 /\ at \in 0 .. MaxLines /\ epoch \in Nat /\ pump = "poll"
    BY TailBounds DEF SessionInit
  <2>6. \A s \in Sessions : /\ Len(file[s]) <= MaxLines
                            /\ disk[s] <= Len(file[s]) /\ offsets[s] <= Len(file[s])
    BY <2>1, TailBounds
  <2> QED BY <2>1, <2>2, <2>3, <2>4, <2>5, <2>6, <2>7, TailBounds DEF SessionTypeOK
<1>2. AtLine /\ LinesSettled /\ RecentSettled
  BY DEF SessionInit, AtLine, Complete, Reading, LinesSettled, LinesRead, SettledTo, RecentSettled, Recent, Sessions
<1>3. Windows /\ DedupWindow
  <2>1. emitted = <<>> /\ Len(emitted) = 0 /\ pump = "poll" BY DEF SessionInit
  <2>2. \A kind \in RowKinds : WindowFills(kind)
    BY DEF SessionInit, WindowFills, Recent, RowKinds
  <2> QED BY <2>1, <2>2 DEF Windows, EpochsPast, WindowHolds, WriteIsNew, DedupWindow
<1> QED BY <1>1, <1>2, <1>3 DEF SessionIInv

(* Files only grow.                                                         *)
FilesKept ==
  /\ \A s \in Sessions : /\ Len(file[s]) <= Len(file'[s]) /\ Complete(s) <= Complete(s)'
                         /\ \A n \in 1 .. Len(file[s]) : file'[s][n] = file[s][n]
  /\ file' \in [Sessions -> Seq(Line)] /\ partial' \in [Sessions -> BOOLEAN]
  /\ \A s \in Sessions : Len(file'[s]) <= MaxLines

LEMMA FilesGrow ==
  ASSUME SessionTypeOK, [SessionNext]_sessionVars
  PROVE  FilesKept
<1>1. ASSUME NEW t \in Sessions, NEW line \in Line, NEW whole \in BOOLEAN, Append_(t, line, whole)
      PROVE  FilesKept
  <2>1. /\ file' = [file EXCEPT ![t] = Append(file[t], line)]
        /\ partial' = [partial EXCEPT ![t] = ~whole]
        /\ Len(file[t]) < MaxLines /\ ~partial[t]
    BY <1>1 DEF Append_
  <2>2. file[t] \in Seq(Line) /\ file \in [Sessions -> Seq(Line)] /\ partial \in [Sessions -> BOOLEAN]
    BY DEF SessionTypeOK
  <2>3. /\ Append(file[t], line) \in Seq(Line) /\ Len(Append(file[t], line)) = Len(file[t]) + 1
        /\ \A n \in 1 .. Len(file[t]) : Append(file[t], line)[n] = file[t][n]
    BY <2>2
  <2>4. file' \in [Sessions -> Seq(Line)] /\ partial' \in [Sessions -> BOOLEAN]
    BY <2>1, <2>2, <2>3
  <2>5. ASSUME NEW s \in Sessions
        PROVE  /\ Len(file[s]) <= Len(file'[s]) /\ Len(file'[s]) <= MaxLines
               /\ \A n \in 1 .. Len(file[s]) : file'[s][n] = file[s][n]
    <3>1. CASE s = t BY <3>1, <2>1, <2>2, <2>3, TailBounds
    <3>2. CASE s # t
      <4>1. file'[s] = file[s] BY <3>2, <2>1, <2>2
      <4> QED BY <4>1 DEF SessionTypeOK
    <3> QED BY <3>1, <3>2
  <2>6. ASSUME NEW s \in Sessions PROVE Complete(s) <= Complete(s)'
    <3>1. CASE s = t
      <4>1. Len(file'[s]) = Len(file[s]) + 1 BY <3>1, <2>1, <2>2, <2>3
      <4> QED BY <3>1, <4>1, <2>1, <2>2 DEF Complete
    <3>2. CASE s # t
      <4>1. file'[s] = file[s] /\ partial'[s] = partial[s] BY <3>2, <2>1, <2>2
      <4> QED BY <4>1, <2>2 DEF Complete
    <3> QED BY <3>1, <3>2
  <2> QED BY <2>4, <2>5, <2>6 DEF FilesKept
<1>2. ASSUME NEW t \in Sessions, Flush(t)
      PROVE  FilesKept
  <2>1. partial' = [partial EXCEPT ![t] = FALSE] /\ UNCHANGED file
    BY <1>2 DEF Flush
  <2>2. file \in [Sessions -> Seq(Line)] /\ partial \in [Sessions -> BOOLEAN]
    BY DEF SessionTypeOK
  <2>3. \A s \in Sessions : Complete(s) <= Complete(s)' BY <2>1, <2>2 DEF Complete
  <2> QED BY <2>1, <2>2, <2>3 DEF SessionTypeOK, FilesKept
<1>3. CASE UNCHANGED <<file, partial>>
  BY <1>3 DEF SessionTypeOK, Complete, FilesKept
<1>4. \/ \E s \in Sessions, line \in Line, whole \in BOOLEAN : Append_(s, line, whole)
      \/ \E s \in Sessions : Flush(s)
      \/ UNCHANGED <<file, partial>>
  BY DEF SessionNext, Pump, CacheEnvelope, BeginScan, EndStream, OpenFile, ReadLine, Handle, WriteOk,
         WriteFails, Save, Crash, Start, Signal, sessionVars
<1> QED BY <1>1, <1>2, <1>3, <1>4

LEMMA WholeLines ==
  ASSUME NEW n \in Nat, NEW half \in BOOLEAN, NEW whole, whole = n - (IF half THEN 1 ELSE 0)
  PROVE  whole \in Int /\ whole <= n /\ whole \in {n, n - 1}
<1>1. CASE half BY <1>1
<1>2. CASE ~half BY <1>2
<1> QED BY <1>1, <1>2

(* The line the pump works on, and the row it would write for it.            *)
LEMMA LineFacts ==
  ASSUME SessionTypeOK, AtLine, pump \in {"handle", "write", "save"}
  PROVE  /\ cur \in Sessions /\ at \in 1 .. Len(file[cur]) /\ at <= Complete(cur)
         /\ ThisLine \in Line /\ ThisKey \in Keys
         /\ KindOf(ThisKey) = IF ThisLine.kind = "sent" THEN "sent" ELSE "received"
<1>1. cur \in Sessions /\ at <= Complete(cur) /\ at >= 1 BY DEF AtLine, Reading
<1>2. /\ file[cur] \in Seq(Line) /\ partial[cur] \in BOOLEAN /\ at \in Nat
      /\ Len(file[cur]) <= MaxLines
  BY <1>1, TailBounds DEF SessionTypeOK
<1>3. Len(file[cur]) \in Nat /\ Complete(cur) \in {Len(file[cur]), Len(file[cur]) - 1}
  <2>1. Complete(cur) = Len(file[cur]) - (IF partial[cur] THEN 1 ELSE 0) BY Zenon DEF Complete
  <2>2. Len(file[cur]) \in Nat /\ partial[cur] \in BOOLEAN BY <1>2
  <2> QED BY <2>1, <2>2, WholeLines
<1>4. at \in 1 .. Len(file[cur]) BY <1>1, <1>2, <1>3
<1>5. ThisLine \in Line BY <1>2, <1>4 DEF ThisLine
<1> QED BY <1>1, <1>4, <1>5, KeysTyped DEF ThisKey

LEMMA RowFacts ==
  ASSUME SessionTypeOK, AtLine, pump = "write"
  PROVE  /\ Row \in Row_ /\ Row.key = ThisKey /\ Row.epoch = epoch
         /\ Row.stamp = inserted[KindOf(ThisKey)]
<1>1. /\ ThisKey \in Keys /\ cur \in Sessions /\ at \in 1 .. MaxLines /\ epoch \in Nat
      /\ KindOf(ThisKey) = IF ThisLine.kind = "sent" THEN "sent" ELSE "received"
  <2>1. at \in 1 .. Len(file[cur]) /\ cur \in Sessions BY LineFacts
  <2>2. Len(file[cur]) <= MaxLines /\ Len(file[cur]) \in Nat /\ epoch \in Nat
    BY <2>1 DEF SessionTypeOK
  <2> QED BY <2>1, <2>2, LineFacts, TailBounds
<1>2. inserted[IF ThisLine.kind = "sent" THEN "sent" ELSE "received"] \in Nat
  BY DEF SessionTypeOK
<1>3. (IF ThisLine.kind = "sent" THEN last[cur] ELSE NoName) \in Names \cup {NoName}
  <2>1. last[cur] \in Names \cup {NoName} BY <1>1 DEF SessionTypeOK
  <2> QED BY <2>1
<1>4. Row \in Row_ BY <1>1, <1>2, <1>3, Zenon DEF Row, Row_
<1> QED BY <1>1, <1>4 DEF Row

LEMMA RowsGrow ==
  ASSUME SessionTypeOK, AtLine, [SessionNext]_sessionVars
  PROVE  /\ emitted' \in Seq(Row_) /\ raised' \subseteq Keys /\ raised \subseteq raised'
         /\ \/ UNCHANGED emitted
            \/ pump = "write" /\ emitted' = Append(emitted, Row)
         /\ \A key \in Keys : Settled(key) => Settled(key)'
<1>1. \/ UNCHANGED <<emitted, raised>>
      \/ pump = "write" /\ emitted' = Append(emitted, Row) /\ UNCHANGED raised
      \/ /\ pump = "write" /\ raised' = raised \cup {ThisKey}
         /\ emitted' = Append(emitted, Row) \/ UNCHANGED emitted
  BY DEF SessionNext, Pump, Append_, Flush, CacheEnvelope, BeginScan, EndStream, OpenFile, ReadLine,
         Handle, WriteOk, WriteFails, Save, Crash, Start, Signal, sessionVars
<1>2. emitted \in Seq(Row_) /\ raised \subseteq Keys BY DEF SessionTypeOK
<1>3. /\ emitted' \in Seq(Row_)
      /\ UNCHANGED emitted \/ (pump = "write" /\ emitted' = Append(emitted, Row))
  BY <1>1, <1>2, RowFacts
<1>4. raised' \subseteq Keys /\ raised \subseteq raised'
  BY <1>1, <1>2, LineFacts
<1>5. ASSUME NEW key \in Keys, Settled(key) PROVE Settled(key)'
  <2>1. CASE key \in raised BY <2>1, <1>4 DEF Settled
  <2>2. CASE Written(key)
    <3>1. PICK i \in 1 .. Len(emitted) : emitted[i].key = key BY <2>2 DEF Written
    <3>2. i \in 1 .. Len(emitted') /\ emitted'[i] = emitted[i]
      <4>1. CASE UNCHANGED emitted BY <4>1
      <4>2. CASE pump = "write" /\ emitted' = Append(emitted, Row)
        <5>1. Row \in Row_ BY <4>2, RowFacts
        <5> QED BY <4>2, <5>1, <1>2
      <4> QED BY <4>1, <4>2, <1>3
    <3> QED BY <3>1, <3>2 DEF Written, Settled
  <2> QED BY <1>5, <2>1, <2>2 DEF Settled
<1> QED BY <1>3, <1>4, <1>5

(* Where the pump stands, and the offsets.                                  *)
Placed ==
  /\ disk \in [Sessions -> Nat] /\ offsets \in [Sessions -> Nat]
  /\ pump \in {"poll", "file", "read", "handle", "write", "save", "down", "ended"}
  /\ cur \in 1 .. NumSessions + 1 /\ at \in 0 .. MaxLines
  /\ AtLine

LEMMA CompleteBounded ==
  ASSUME SessionTypeOK, NEW s \in Sessions
  PROVE  /\ Len(file[s]) \in Nat /\ Complete(s) \in Int
         /\ Complete(s) <= Len(file[s]) /\ Len(file[s]) <= MaxLines
<1>1. /\ file[s] \in Seq(Line) /\ Len(file[s]) \in Nat /\ Len(file[s]) <= MaxLines
      /\ partial[s] \in BOOLEAN
  BY DEF SessionTypeOK
<1>2. Complete(s) = Len(file[s]) - (IF partial[s] THEN 1 ELSE 0) BY Zenon DEF Complete
<1> QED BY <1>1, <1>2, WholeLines

LEMMA PlacedStep ==
  ASSUME SessionTypeOK, AtLine, [SessionNext]_sessionVars
  PROVE  Placed'
<1>0. /\ disk \in [Sessions -> Nat] /\ offsets \in [Sessions -> Nat]
      /\ cur \in 1 .. NumSessions + 1 /\ at \in 0 .. MaxLines
      /\ pump \in {"poll", "file", "read", "handle", "write", "save", "down", "ended"}
      /\ \A s \in Sessions : /\ disk[s] <= Complete(s) /\ offsets[s] <= Complete(s)
                             /\ Complete(s) <= Complete(s)' /\ Complete(s) \in Int
                             /\ Complete(s)' \in Int /\ Complete(s) <= MaxLines
  <2>1. ASSUME NEW s \in Sessions PROVE Complete(s)' \in Int
    <3>1. Len(file'[s]) \in Nat /\ partial'[s] \in BOOLEAN BY FilesGrow DEF FilesKept
    <3>2. Complete(s)' = Len(file'[s]) - (IF partial'[s] THEN 1 ELSE 0) BY Zenon DEF Complete
    <3> QED BY <3>1, <3>2, WholeLines
  <2>2. \A s \in Sessions : Complete(s) <= Complete(s)' BY FilesGrow DEF FilesKept
  <2>3. \A s \in Sessions : Complete(s) \in Int /\ Complete(s) <= MaxLines
    BY CompleteBounded, TailBounds
  <2> QED BY <2>1, <2>2, <2>3 DEF SessionTypeOK, AtLine
<1>1. CASE UNCHANGED <<disk, offsets, pump, cur, at>>
  BY <1>0, <1>1 DEF Placed, AtLine, Reading
<1>2. CASE BeginScan \/ EndStream
  <2>1. /\ UNCHANGED <<disk, offsets, at>>
        /\ (pump' = "file" /\ cur' = 1) \/ (pump' = "ended" /\ cur' = cur)
    <3>1. CASE BeginScan BY <3>1 DEF BeginScan
    <3>2. CASE EndStream BY <3>2 DEF EndStream
    <3> QED BY <1>2, <3>1, <3>2
  <2>2. 1 \in Sessions /\ 1 \in 1 .. NumSessions + 1 BY TailBounds DEF Sessions
  <2>3. /\ disk' \in [Sessions -> Nat] /\ offsets' \in [Sessions -> Nat] /\ at' \in 0 .. MaxLines
        /\ \A s \in Sessions : disk'[s] <= Complete(s)' /\ offsets'[s] <= Complete(s)'
    BY <1>0, <2>1
  <2>4. CASE pump' = "file" /\ cur' = 1
    BY <2>2, <2>3, <2>4 DEF Placed, AtLine, Reading
  <2>5. CASE pump' = "ended" /\ cur' = cur
    BY <1>0, <2>3, <2>5 DEF Placed, AtLine, Reading
  <2> QED BY <2>1, <2>4, <2>5
<1>10. ASSUME NextFile, UNCHANGED <<disk, offsets, at>>, cur \in Sessions PROVE Placed'
  <2>1. cur \in 1 .. NumSessions BY <1>10 DEF Sessions
  <2>2. cur' = cur + 1 /\ pump' = IF cur = NumSessions THEN "poll" ELSE "file"
    BY <1>10 DEF NextFile
  <2>3. CASE cur = NumSessions
    BY <1>0, <1>10, <2>1, <2>2, <2>3, TailBounds DEF Placed, AtLine, Reading
  <2>4. CASE cur # NumSessions
    <3>1. cur' \in Sessions BY <2>1, <2>2, <2>4, TailBounds DEF Sessions
    <3> QED BY <1>0, <1>10, <2>1, <2>2, <2>4, <3>1, TailBounds DEF Placed, AtLine, Reading
  <2> QED BY <2>3, <2>4
<1>3. CASE OpenFile
  <2>1. cur \in Sessions BY <1>3 DEF OpenFile, AtLine
  <2>2. /\ UNCHANGED <<disk, offsets>>
        /\ \/ NextFile /\ at' = at
           \/ pump' = "read" /\ at' = offsets[cur] /\ cur' = cur
    BY <1>3 DEF OpenFile
  <2>3. offsets[cur] \in Nat /\ offsets[cur] <= Complete(cur) BY <1>0, <2>1
  <2>4. CASE NextFile /\ at' = at
    BY <1>10, <2>1, <2>2, <2>4
  <2>5. CASE pump' = "read" /\ at' = offsets[cur] /\ cur' = cur
    BY <1>0, <2>1, <2>2, <2>3, <2>5, TailBounds DEF Placed, AtLine, Reading
  <2> QED BY <2>2, <2>4, <2>5
<1>4. CASE ReadLine
  <2>1. cur \in Sessions /\ at <= Complete(cur) BY <1>4 DEF ReadLine, AtLine, Reading
  <2>2. /\ UNCHANGED <<disk, offsets>>
        /\ \/ NextFile /\ at' = at
           \/ at # Complete(cur) /\ pump' \in {"read", "handle"} /\ at' = at + 1 /\ cur' = cur
    BY <1>4 DEF ReadLine
  <2>3. CASE NextFile /\ at' = at
    BY <1>10, <2>1, <2>2, <2>3
  <2>4. CASE at # Complete(cur) /\ pump' \in {"read", "handle"} /\ at' = at + 1 /\ cur' = cur
    BY <1>0, <2>1, <2>2, <2>4, TailBounds DEF Placed, AtLine, Reading
  <2> QED BY <2>2, <2>3, <2>4
<1>5. CASE Handle \/ WriteOk \/ \E committed \in BOOLEAN : WriteFails(committed)
  <2>1. /\ UNCHANGED <<disk, offsets, cur, at>> /\ pump \in {"handle", "write"}
        /\ pump' \in {"write", "save", "read"}
    BY <1>5 DEF Handle, WriteOk, WriteFails
  <2> QED BY <1>0, <2>1 DEF Placed, AtLine, Reading
<1>6. ASSUME NEW ok \in BOOLEAN, Save(ok) PROVE Placed'
  <2>1. /\ offsets' = [offsets EXCEPT ![cur] = at] /\ disk' \in {offsets', disk}
        /\ pump = "save" /\ pump' = "read" /\ UNCHANGED <<cur, at>>
    BY <1>6 DEF Save
  <2>2. cur \in Sessions /\ at \in Nat /\ at <= Complete(cur) BY <2>1, LineFacts, TailBounds
  <2>3. /\ offsets' \in [Sessions -> Nat] /\ disk' \in [Sessions -> Nat]
        /\ \A s \in Sessions : offsets'[s] <= Complete(s) /\ disk'[s] <= Complete(s)
    BY <1>0, <2>1, <2>2
  <2> QED BY <1>0, <2>1, <2>2, <2>3 DEF Placed, AtLine, Reading
<1>7. CASE Crash
  <2>1. /\ UNCHANGED disk /\ offsets' = [s \in Sessions |-> 0] /\ pump' = "down" /\ cur' = 1 /\ at' = 0
    BY <1>7 DEF Crash
  <2>2. \A s \in Sessions : 0 <= Complete(s)' BY <1>0
  <2> QED BY <1>0, <2>1, <2>2, TailBounds DEF Placed, AtLine, Reading
<1>8. ASSUME NEW readable \in BOOLEAN, Start(readable) PROVE Placed'
  <2>1. /\ offsets' \in {disk, [s \in Sessions |-> 0]} /\ disk' = offsets' /\ pump' = "poll"
        /\ UNCHANGED <<cur, at>>
    BY <1>8 DEF Start
  <2>2. \A s \in Sessions : 0 <= Complete(s)' BY <1>0
  <2>3. offsets' \in [Sessions -> Nat] /\ \A s \in Sessions : offsets'[s] <= Complete(s)'
    BY <1>0, <2>1, <2>2
  <2> QED BY <1>0, <2>1, <2>3 DEF Placed, AtLine, Reading
<1>9. \/ UNCHANGED <<disk, offsets, pump, cur, at>>
      \/ BeginScan \/ EndStream \/ OpenFile \/ ReadLine \/ Handle \/ WriteOk
      \/ \E committed \in BOOLEAN : WriteFails(committed)
      \/ \E ok \in BOOLEAN : Save(ok)
      \/ Crash \/ \E readable \in BOOLEAN : Start(readable)
  BY DEF SessionNext, Pump, Append_, Flush, CacheEnvelope, Signal, sessionVars, tail
<1> QED BY <1>1, <1>2, <1>3, <1>4, <1>5, <1>6, <1>7, <1>8, <1>9

LEMMA RecentTyped ==
  ASSUME SessionTypeOK, NEW kind \in RowKinds
  PROVE  /\ Recent(kind) \in Seq(Keys) /\ Len(Recent(kind)) <= CapOf(kind)
         /\ CapOf(kind) \in Nat /\ CapOf(kind) >= 1 /\ inserted[kind] \in Nat
<1>1. inserted[kind] \in Nat BY DEF SessionTypeOK, RowKinds
<1>2. CASE kind = "sent"
  BY <1>1, <1>2, TailBounds DEF Recent, CapOf, SessionTypeOK
<1>3. CASE kind = "received"
  BY <1>1, <1>3, TailBounds DEF Recent, CapOf, SessionTypeOK
<1> QED BY <1>2, <1>3 DEF RowKinds

(* The two ways a handler goes: the key was seen, or is remembered.          *)
LEMMA HandleCases ==
  ASSUME SessionTypeOK, AtLine, Handle, NEW kind \in RowKinds, kind = KindOf(ThisKey)
  PROVE  /\ pump = "handle"
         /\ \/ /\ pump' = "save" /\ UNCHANGED <<received, sent, inserted>>
               /\ (LogTail /\ ThisLine.kind = "slack") \/ Holds(Recent(kind), ThisKey)
            \/ /\ pump' = "write" /\ ~ Holds(Recent(kind), ThisKey)
               /\ Recent(kind)' = Remember(Recent(kind), CapOf(kind), ThisKey)
               /\ \A k \in RowKinds : k # kind => Recent(k)' = Recent(k)
               /\ inserted' = [inserted EXCEPT ![kind] = @ + 1]
<1>1. pump = "handle" BY DEF Handle
<1>2. kind = IF ThisLine.kind = "sent" THEN "sent" ELSE "received" BY <1>1, LineFacts
<1>3. Recent(kind) = IF kind = "sent" THEN sent ELSE received BY DEF Recent
<1>4. CASE (LogTail /\ ThisLine.kind = "slack") \/ Holds(Recent(kind), ThisKey)
  BY <1>1, <1>2, <1>3, <1>4, Zenon DEF Handle, dedup
<1>5. CASE ~ ((LogTail /\ ThisLine.kind = "slack") \/ Holds(Recent(kind), ThisKey))
  <2>1. /\ pump' = "write"
        /\ sent' = IF kind = "sent" THEN Remember(sent, CapSent, ThisKey) ELSE sent
        /\ received' = IF kind = "received"
                       THEN Remember(received, CapReceived, ThisKey) ELSE received
        /\ inserted' = [inserted EXCEPT ![kind] = @ + 1]
    BY <1>1, <1>2, <1>3, <1>5, Zenon DEF Handle
  <2>2. CASE kind = "sent"
    BY <1>1, <1>5, <2>1, <2>2 DEF Recent, CapOf, RowKinds
  <2>3. CASE kind = "received"
    BY <1>1, <1>5, <2>1, <2>3 DEF Recent, CapOf, RowKinds
  <2> QED BY <2>2, <2>3 DEF RowKinds
<1> QED BY <1>4, <1>5

LEMMA DedupTyped ==
  ASSUME SessionTypeOK, AtLine, [SessionNext]_sessionVars
  PROVE  /\ \A kind \in RowKinds :
              Recent(kind)' \in Seq(Keys) /\ Len(Recent(kind)') <= CapOf(kind)
         /\ inserted' \in [{"received", "sent"} -> Nat]
<1>1. CASE UNCHANGED <<received, sent, inserted>>
  <2>1. \A kind \in RowKinds : Recent(kind)' = Recent(kind) BY <1>1 DEF Recent
  <2> QED BY <1>1, <2>1, RecentTyped DEF SessionTypeOK
<1>2. CASE Crash
  <2>1. \A kind \in RowKinds : Recent(kind)' = <<>> BY <1>2 DEF Crash, Recent
  <2>2. \A kind \in RowKinds : CapOf(kind) >= 1 /\ CapOf(kind) \in Nat BY TailBounds DEF CapOf
  <2>3. inserted' \in [{"received", "sent"} -> Nat] BY <1>2 DEF Crash, SessionTypeOK
  <2>4. <<>> \in Seq(Keys) /\ Len(<<>>) = 0 OBVIOUS
  <2>5. ASSUME NEW kind \in RowKinds
        PROVE  Recent(kind)' \in Seq(Keys) /\ Len(Recent(kind)') <= CapOf(kind)
    <3>1. Recent(kind)' = <<>> BY <2>1
    <3>2. CapOf(kind) >= 1 /\ CapOf(kind) \in Nat BY <2>2
    <3>3. Len(Recent(kind)') = 0 BY <3>1
    <3> QED BY <2>4, <3>1, <3>2, <3>3
  <2> QED BY <2>3, <2>5
<1>3. CASE Handle
  <2>1. pump = "handle" BY <1>3 DEF Handle
  <2>2. PICK kind \in RowKinds : kind = KindOf(ThisKey) BY <2>1, LineFacts DEF RowKinds
  <2>3. CASE UNCHANGED <<received, sent, inserted>> BY <1>1, <2>3
  <2>4. CASE /\ Recent(kind)' = Remember(Recent(kind), CapOf(kind), ThisKey)
             /\ \A k \in RowKinds : k # kind => Recent(k)' = Recent(k)
             /\ inserted' = [inserted EXCEPT ![kind] = @ + 1]
    <3>1. ThisKey \in Keys BY <2>1, LineFacts
    <3>2. Recent(kind)' \in Seq(Keys) /\ Len(Recent(kind)') <= CapOf(kind)
      BY <2>4, <3>1, RecentTyped, RememberTyped
    <3>3. inserted' \in [{"received", "sent"} -> Nat]
      <4>1. inserted \in [{"received", "sent"} -> Nat] BY DEF SessionTypeOK
      <4>2. inserted[kind] + 1 \in Nat BY RecentTyped
      <4> QED BY <2>4, <4>1, <4>2
    <3> QED BY <2>4, <3>2, <3>3, RecentTyped
  <2> QED BY <1>3, <2>2, <2>3, <2>4, HandleCases
<1>4. UNCHANGED <<received, sent, inserted>> \/ Handle \/ Crash
  BY DEF SessionNext, Pump, Append_, Flush, CacheEnvelope, BeginScan, EndStream, OpenFile, ReadLine,
         WriteOk, WriteFails, Save, Start, Signal, sessionVars, dedup
<1> QED BY <1>1, <1>2, <1>3, <1>4

LEMMA SessionTypes ==
  ASSUME SessionTypeOK, AtLine, [SessionNext]_sessionVars
  PROVE  SessionTypeOK'
<1>1. /\ file' \in [Sessions -> Seq(Line)] /\ partial' \in [Sessions -> BOOLEAN]
      /\ \A s \in Sessions : Len(file'[s]) <= MaxLines /\ Complete(s)' <= Len(file'[s])
  <2>1. /\ file' \in [Sessions -> Seq(Line)] /\ partial' \in [Sessions -> BOOLEAN]
        /\ \A s \in Sessions : Len(file'[s]) <= MaxLines
    BY FilesGrow DEF FilesKept
  <2>2. ASSUME NEW s \in Sessions PROVE Complete(s)' <= Len(file'[s])
    <3>1. Len(file'[s]) \in Nat /\ partial'[s] \in BOOLEAN BY <2>1
    <3>2. Complete(s)' = Len(file'[s]) - (IF partial'[s] THEN 1 ELSE 0) BY Zenon DEF Complete
    <3> QED BY <3>1, <3>2, WholeLines
  <2> QED BY <2>1, <2>2
<1>2. cached' \subseteq Sessions \X (1 .. MaxLines)
  <2>1. cached \subseteq Sessions \X (1 .. MaxLines) BY DEF SessionTypeOK
  <2>2. UNCHANGED cached \/ \E s \in Sessions, n \in 1 .. MaxLines : cached' = cached \cup {<<s, n>>}
    BY DEF SessionNext, Pump, Append_, Flush, CacheEnvelope, BeginScan, EndStream, OpenFile, ReadLine,
           Handle, WriteOk, WriteFails, Save, Crash, Start, Signal, sessionVars
  <2> QED BY <2>1, <2>2
<1>3. /\ disk' \in [Sessions -> Nat] /\ offsets' \in [Sessions -> Nat]
      /\ pump' \in {"poll", "file", "read", "handle", "write", "save", "down", "ended"}
      /\ cur' \in 1 .. NumSessions + 1 /\ at' \in 0 .. MaxLines
      /\ \A s \in Sessions : disk'[s] <= Complete(s)' /\ offsets'[s] <= Complete(s)'
  BY PlacedStep DEF Placed, AtLine
<1>4. \A s \in Sessions : disk'[s] <= Len(file'[s]) /\ offsets'[s] <= Len(file'[s])
  <2> SUFFICES ASSUME NEW s \in Sessions
               PROVE  disk'[s] <= Len(file'[s]) /\ offsets'[s] <= Len(file'[s])
    OBVIOUS
  <2>1. Len(file'[s]) \in Nat BY <1>1
  <2>2. Complete(s)' \in Int
    <3>1. partial'[s] \in BOOLEAN BY <1>1
    <3>2. Complete(s)' = Len(file'[s]) - (IF partial'[s] THEN 1 ELSE 0) BY Zenon DEF Complete
    <3> QED BY <2>1, <3>1, <3>2, WholeLines
  <2>3. disk'[s] \in Nat /\ offsets'[s] \in Nat BY <1>3
  <2> QED BY <1>1, <1>3, <2>1, <2>2, <2>3
<1>5. last' \in [Sessions -> Names \cup {NoName}]
  <2>1. last \in [Sessions -> Names \cup {NoName}] BY DEF SessionTypeOK
  <2>2. CASE ReadLine /\ last' # last
    <3>1. /\ at # Complete(cur) /\ pump = "read"
          /\ last' = [last EXCEPT ![cur] = file[cur][at + 1].name]
      BY <2>2 DEF ReadLine
    <3>2. /\ cur \in Sessions /\ at <= Complete(cur) /\ at \in Nat
      BY <3>1, TailBounds DEF AtLine, Reading, SessionTypeOK
    <3>3. at + 1 \in 1 .. Len(file[cur]) BY <3>1, <3>2, CompleteBounded
    <3>4. file[cur][at + 1] \in Line BY <3>2, <3>3 DEF SessionTypeOK
    <3>5. file[cur][at + 1].name \in Names BY <3>4 DEF Line
    <3> QED BY <2>1, <3>1, <3>5
  <2>3. last' = last \/ last' = [s \in Sessions |-> NoName] \/ (ReadLine /\ last' # last)
    BY DEF SessionNext, Pump, Append_, Flush, CacheEnvelope, BeginScan, EndStream, OpenFile,
           Handle, WriteOk, WriteFails, Save, Crash, Start, Signal, sessionVars
  <2> QED BY <2>1, <2>2, <2>3
<1>6. epoch' \in Nat
  <2>1. epoch \in Nat BY DEF SessionTypeOK
  <2>2. epoch' \in {epoch, epoch + 1}
    BY DEF SessionNext, Pump, Append_, Flush, CacheEnvelope, BeginScan, EndStream, OpenFile, ReadLine,
           Handle, WriteOk, WriteFails, Save, Crash, Start, Signal, sessionVars
  <2> QED BY <2>1, <2>2
<1>7. signalled' \in BOOLEAN /\ stop' \in BOOLEAN
  <2>1. signalled \in BOOLEAN /\ stop \in BOOLEAN /\ LogTail \in BOOLEAN
    BY KindsAssumption DEF SessionTypeOK
  <2>2. \/ UNCHANGED <<signalled, stop>>
        \/ signalled' = TRUE /\ stop' = ~LogTail
        \/ signalled' = FALSE /\ stop' = FALSE
    BY DEF SessionNext, Pump, Append_, Flush, CacheEnvelope, BeginScan, EndStream, OpenFile, ReadLine,
           Handle, WriteOk, WriteFails, Save, Crash, Start, Signal, sessionVars
  <2> QED BY <2>1, <2>2, Zenon
<1>8. used' \in [{"write", "crash", "disk"} -> Nat]
  <2>1. used \in [{"write", "crash", "disk"} -> Nat] BY DEF SessionTypeOK
  <2>2. UNCHANGED used \/ \E f \in {"write", "crash", "disk"} : Use(f)
    BY DEF SessionNext, Pump, Append_, Flush, CacheEnvelope, BeginScan, EndStream, OpenFile, ReadLine,
           Handle, WriteOk, WriteFails, Save, Crash, Start, Signal, sessionVars
  <2>3. ASSUME NEW f \in {"write", "crash", "disk"}, Use(f) PROVE used' \in [{"write", "crash", "disk"} -> Nat]
    <3>1. used' = [used EXCEPT ![f] = @ + 1] BY <2>3 DEF Use
    <3>2. used[f] + 1 \in Nat BY <2>1
    <3> QED BY <2>1, <3>1, <3>2
  <2> QED BY <2>1, <2>2, <2>3
<1>9. /\ received' \in Seq(Keys) /\ Len(received') <= CapReceived
      /\ sent' \in Seq(Keys) /\ Len(sent') <= CapSent
      /\ inserted' \in [{"received", "sent"} -> Nat]
  BY DedupTyped DEF RowKinds, Recent, CapOf
<1> QED
  BY <1>1, <1>3, <1>2, <1>4, <1>5, <1>6, <1>7, <1>8, <1>9, RowsGrow DEF SessionTypeOK

(* What is settled up to a line stays so, whatever is appended or written.   *)
LEMMA LinesKept ==
  ASSUME SessionTypeOK, AtLine, [SessionNext]_sessionVars, NEW s \in Sessions, NEW n \in Int,
         n <= Complete(s), SettledTo(s, n)
  PROVE  SettledTo(s, n)'
<1>1. /\ Len(file[s]) \in Nat /\ n <= Len(file[s]) /\ file[s] \in Seq(Line)
      /\ \A m \in 1 .. Len(file[s]) : file'[s][m] = file[s][m]
  <2>1. Len(file[s]) \in Nat /\ Complete(s) \in Int /\ Complete(s) <= Len(file[s])
    BY CompleteBounded
  <2>2. \A m \in 1 .. Len(file[s]) : file'[s][m] = file[s][m] BY FilesGrow DEF FilesKept
  <2>3. file[s] \in Seq(Line) BY DEF SessionTypeOK
  <2> QED BY <2>1, <2>2, <2>3
<1>2. ASSUME NEW m \in 1 .. n, Expected(s, m)' PROVE Settled(Key(s, file[s][m]))'
  <2>1. m \in 1 .. Len(file[s]) /\ file'[s][m] = file[s][m] BY <1>1
  <2>2. Expected(s, m) BY <1>2, <2>1 DEF Expected
  <2>3. PICK key : key = Key(s, file[s][m]) OBVIOUS
  <2>4. Settled(key) BY <2>2, <2>3 DEF SettledTo
  <2>5. key \in Keys BY <1>1, <2>1, <2>3, KeysTyped
  <2>6. Settled(key)' BY <2>4, <2>5, RowsGrow
  <2>7. key = Key(s, file'[s][m]) BY <2>1, <2>3
  <2> QED BY <2>6, <2>7 DEF Settled, Written
<1> QED BY <1>2 DEF SettledTo

LEMMA SettledAfter ==
  ASSUME SessionTypeOK, AtLine, pump = "write", NEW key, key = ThisKey,
         \/ emitted' = Append(emitted, Row)
         \/ raised' = raised \cup {ThisKey}
  PROVE  Settled(key)'
<1>1. CASE emitted' = Append(emitted, Row)
  <2>1. Row \in Row_ /\ Row.key = key /\ emitted \in Seq(Row_) BY RowFacts DEF SessionTypeOK
  <2>2. emitted'[Len(emitted')] = Row /\ Len(emitted') \in 1 .. Len(emitted') BY <1>1, <2>1
  <2> QED BY <2>1, <2>2 DEF Settled, Written
<1>2. CASE raised' = raised \cup {ThisKey} BY <1>2 DEF Settled
<1> QED BY <1>1, <1>2

LEMMA LinesStep ==
  ASSUME SessionTypeOK, AtLine, LinesSettled, RecentSettled, [SessionNext]_sessionVars
  PROVE  LinesSettled'
<1>0. /\ disk \in [Sessions -> Nat] /\ offsets \in [Sessions -> Nat] /\ at \in Nat
      /\ \A s \in Sessions : /\ SettledTo(s, disk[s]) /\ SettledTo(s, offsets[s])
                             /\ disk[s] <= Complete(s) /\ offsets[s] <= Complete(s)
                             /\ Complete(s) \in Int
  <2>1. disk \in [Sessions -> Nat] /\ offsets \in [Sessions -> Nat] /\ at \in Nat
    BY TailBounds DEF SessionTypeOK
  <2>2. \A s \in Sessions : Complete(s) \in Int BY CompleteBounded
  <2> QED BY <2>1, <2>2 DEF LinesSettled, AtLine
<1>1. ASSUME NEW s \in Sessions, NEW n,
             \/ n \in {disk[s], offsets[s], 0}
             \/ s = cur /\ n = at /\ pump \in {"read", "save"}
             \/ s = cur /\ n = at - 1 /\ pump \in {"handle", "write"}
      PROVE  SettledTo(s, n)'
  <2>1. CASE n \in {disk[s], offsets[s]}
    <3>1. n \in Int /\ n <= Complete(s) /\ SettledTo(s, n) BY <1>0, <2>1
    <3> QED BY <3>1, LinesKept
  <2>2. CASE n = 0 BY <2>2 DEF SettledTo
  <2>3. CASE s = cur /\ n = at /\ pump \in {"read", "save"}
    <3>1. at <= Complete(cur) /\ SettledTo(cur, at) BY <2>3 DEF AtLine, Reading, LinesSettled, LinesRead
    <3>2. n \in Int /\ n <= Complete(s) /\ SettledTo(s, n) BY <1>0, <2>3, <3>1
    <3> QED BY <3>2, LinesKept
  <2>4. CASE s = cur /\ n = at - 1 /\ pump \in {"handle", "write"}
    <3>1. at <= Complete(cur) /\ SettledTo(cur, at - 1) BY <2>4 DEF AtLine, Reading, LinesSettled, LinesRead
    <3>2. n \in Int /\ n <= Complete(s) /\ SettledTo(s, n) BY <1>0, <2>4, <3>1
    <3> QED BY <3>2, LinesKept
  <2> QED BY <1>1, <2>1, <2>2, <2>3, <2>4
<1>2. ASSUME NEW s \in Sessions PROVE SettledTo(s, disk[s])' /\ SettledTo(s, offsets[s])'
  <2>1. PICK d, o : d = disk'[s] /\ o = offsets'[s] OBVIOUS
  <2>2. CASE \E ok \in BOOLEAN : Save(ok)
    <3>1. /\ pump = "save" /\ offsets' = [offsets EXCEPT ![cur] = at] /\ disk' \in {offsets', disk}
      BY <2>2 DEF Save
    <3>2. /\ o = offsets[s] \/ (s = cur /\ o = at)
          /\ d = o \/ d = disk[s]
      BY <1>0, <2>1, <3>1
    <3>3. SettledTo(s, d)' /\ SettledTo(s, o)' BY <1>1, <3>1, <3>2
    <3> QED BY <2>1, <3>3 DEF SettledTo
  <2>3. CASE ~ \E ok \in BOOLEAN : Save(ok)
    <3>1. \/ UNCHANGED <<disk, offsets>>
          \/ offsets' = [t \in Sessions |-> 0] /\ UNCHANGED disk
          \/ offsets' = disk /\ disk' = offsets'
          \/ offsets' = [t \in Sessions |-> 0] /\ disk' = offsets'
      BY <2>3 DEF SessionNext, Pump, Append_, Flush, CacheEnvelope, BeginScan, EndStream, OpenFile, ReadLine,
           Handle, WriteOk, WriteFails, Crash, Start, Signal, sessionVars
    <3>2. d \in {disk[s], offsets[s], 0} /\ o \in {disk[s], offsets[s], 0} BY <2>1, <3>1
    <3>3. SettledTo(s, d)' /\ SettledTo(s, o)' BY <1>1, <3>2
    <3> QED BY <2>1, <3>3 DEF SettledTo
  <2> QED BY <2>2, <2>3
<1>3. ASSUME UNCHANGED <<pump, cur, at>> PROVE LinesRead'
  <2>1. PICK c, n : c = cur /\ n = at OBVIOUS
  <2>2. Reading => cur \in Sessions BY DEF AtLine
  <2>3. pump \in {"read", "save"} => SettledTo(c, n)' BY <1>1, <2>1, <2>2 DEF Reading
  <2>4. PICK k : k = n - 1 OBVIOUS
  <2>5. pump \in {"handle", "write"} => SettledTo(c, k)' BY <1>1, <2>1, <2>2, <2>4 DEF Reading
  <2> QED BY <1>3, <2>1, <2>3, <2>4, <2>5 DEF LinesRead, SettledTo
<1>4. ASSUME pump' \in {"poll", "file", "down", "ended"} PROVE LinesRead'
  BY <1>4 DEF LinesRead
<1>5. ASSUME OpenFile /\ pump' = "read" PROVE LinesRead'
  <2>1. pump = "file" /\ at' = offsets[cur] /\ cur' = cur BY <1>5 DEF OpenFile, NextFile
  <2>2. PICK c, n : c = cur /\ n = offsets[cur] OBVIOUS
  <2>3. cur \in Sessions BY <2>1 DEF AtLine
  <2>4. SettledTo(c, n)' BY <1>1, <2>2, <2>3
  <2> QED BY <1>5, <2>1, <2>2, <2>4 DEF LinesRead, SettledTo
<1>6. ASSUME ReadLine /\ pump' \in {"read", "handle"} PROVE LinesRead'
  <2>1. /\ pump = "read" /\ at' = at + 1 /\ cur' = cur /\ UNCHANGED file
        /\ pump' = IF Parses(cur, at + 1) THEN "handle" ELSE "read"
    BY <1>6 DEF ReadLine, NextFile
  <2>2. PICK c, n : c = cur /\ n = at OBVIOUS
  <2>3. cur \in Sessions BY <2>1 DEF AtLine, Reading
  <2>4. SettledTo(c, n)' BY <1>1, <2>1, <2>2, <2>3
  <2>5. n \in Nat BY <1>0, <2>2
  <2>6. CASE pump' = "handle"
    <3>1. n = at' - 1 /\ c = cur' BY <2>1, <2>2, <2>5
    <3> QED BY <2>4, <2>6, <3>1 DEF LinesRead, SettledTo
  <2>7. CASE pump' = "read"
    <3>1. ~ Parses(c, n + 1) BY <2>1, <2>2, <2>7
    <3>2. ~ Expected(c, n + 1)' BY <2>1, <3>1 DEF Parses, Expected
    <3>3. SettledTo(c, n + 1)' BY <2>4, <2>5, <3>2 DEF SettledTo
    <3>4. n + 1 = at' /\ c = cur' BY <2>1, <2>2
    <3> QED BY <2>7, <3>3, <3>4 DEF LinesRead, SettledTo
  <2> QED BY <1>6, <2>6, <2>7
<1>7. ASSUME Handle \/ WriteOk \/ \E committed \in BOOLEAN : WriteFails(committed) PROVE LinesRead'
  <2>1. /\ pump \in {"handle", "write"} /\ UNCHANGED <<cur, at, file>>
        /\ pump' \in {"write", "save", "read"}
        /\ pump = "handle" => Handle
        /\ pump' = "write" => pump = "handle"
    BY <1>7 DEF Handle, WriteOk, WriteFails
  <2>2. PICK c, n, k, key : c = cur /\ n = at /\ k = at - 1 /\ key = ThisKey OBVIOUS
  <2>3. cur \in Sessions /\ n \in Nat /\ ThisKey \in Keys BY <1>0, <2>1, <2>2, LineFacts
  <2>4. SettledTo(c, k)' BY <1>1, <2>1, <2>2, <2>3
  <2>5. CASE pump' = "write" BY <2>1, <2>2, <2>4, <2>5 DEF LinesRead, SettledTo
  <2>6. CASE pump' \in {"read", "save"}
    <3>1. Expected(c, n)' => Settled(key)'
      <4>1. CASE pump = "write"
        <5>1. emitted' = Append(emitted, Row) \/ raised' = raised \cup {ThisKey}
          BY <1>7, <4>1 DEF Handle, WriteOk, WriteFails
        <5> QED BY <2>2, <4>1, <5>1, SettledAfter
      <4>2. CASE pump = "handle"
        <5>1. PICK kind \in RowKinds : kind = KindOf(ThisKey) BY <4>2, LineFacts DEF RowKinds
        <5>2. (LogTail /\ ThisLine.kind = "slack") \/ Holds(Recent(kind), ThisKey)
          BY <2>1, <2>6, <4>2, <5>1, HandleCases
        <5>3. CASE LogTail /\ ThisLine.kind = "slack"
          <6>1. file'[c][n].kind = "slack" BY <2>1, <2>2, <5>3 DEF ThisLine
          <6> QED BY <5>3, <6>1 DEF Expected
        <5>4. CASE Holds(Recent(kind), ThisKey)
          <6>1. Settled(key) BY <2>2, <4>2, <5>4 DEF Holds, RecentSettled
          <6> QED BY <2>2, <2>3, <6>1, RowsGrow
        <5> QED BY <5>2, <5>3, <5>4
      <4> QED BY <2>1, <4>1, <4>2
    <3>2. key = Key(c, file'[c][n]) BY <2>1, <2>2 DEF ThisKey, ThisLine
    <3>3. SettledTo(c, n)'
      <4>1. k = n - 1 BY <2>2
      <4>2. Expected(c, n)' => Settled(Key(c, file[c][n]))' BY <3>1, <3>2 DEF Settled, Written
      <4> QED BY <2>3, <2>4, <4>1, <4>2 DEF SettledTo
    <3> QED BY <2>1, <2>2, <2>6, <3>3 DEF LinesRead, SettledTo
  <2> QED BY <2>1, <2>5, <2>6
<1>8. ASSUME NEW ok \in BOOLEAN, Save(ok) PROVE LinesRead'
  <2>1. pump = "save" /\ pump' = "read" /\ UNCHANGED <<cur, at>> BY <1>8 DEF Save
  <2>2. PICK c, n : c = cur /\ n = at OBVIOUS
  <2>3. SettledTo(c, n)' BY <1>1, <2>1, <2>2, LineFacts
  <2> QED BY <2>1, <2>2, <2>3 DEF LinesRead, SettledTo
<1>9. \/ UNCHANGED <<pump, cur, at>>
      \/ pump' \in {"poll", "file", "down", "ended"}
      \/ OpenFile /\ pump' = "read"
      \/ ReadLine /\ pump' \in {"read", "handle"}
      \/ Handle \/ WriteOk \/ \E committed \in BOOLEAN : WriteFails(committed)
      \/ \E ok \in BOOLEAN : Save(ok)
  BY DEF SessionNext, Pump, Append_, Flush, CacheEnvelope, Signal, sessionVars, tail, BeginScan, EndStream,
         OpenFile, ReadLine, NextFile, Crash, Start
<1>10. LinesRead' BY <1>3, <1>4, <1>5, <1>6, <1>7, <1>8, <1>9
<1> QED BY <1>2, <1>10 DEF LinesSettled

(* The line under the pump stays what it is while the pump stays at it.      *)
LEMMA LineStays ==
  ASSUME SessionTypeOK, AtLine, [SessionNext]_sessionVars, pump \in {"handle", "write"},
         UNCHANGED <<cur, at>>
  PROVE  ThisLine' = ThisLine /\ ThisKey' = ThisKey
<1>1. cur \in Sessions /\ at \in 1 .. Len(file[cur]) BY LineFacts
<1>2. file'[cur][at] = file[cur][at] BY <1>1, FilesGrow DEF FilesKept
<1> QED BY <1>2 DEF ThisLine, ThisKey

LEMMA RecentStep ==
  ASSUME SessionTypeOK, AtLine, RecentSettled, [SessionNext]_sessionVars
  PROVE  RecentSettled'
<1> SUFFICES ASSUME NEW kind \in RowKinds, NEW i \in 1 .. Len(Recent(kind)')
             PROVE  \/ Settled(Recent(kind)[i])'
                    \/ pump' = "write" /\ Recent(kind)'[i] = ThisKey'
  BY DEF RecentSettled
<1> PICK key : key = Recent(kind)'[i] OBVIOUS
<1>0. Settled(key)' => Settled(Recent(kind)[i])' BY DEF Settled, Written
<1>1. ASSUME NEW j \in 1 .. Len(Recent(kind)), key = Recent(kind)[j], Settled(key)
      PROVE  Settled(key)'
  <2>1. key \in Keys BY <1>1, RecentTyped
  <2> QED BY <1>1, <2>1, RowsGrow
<1>2. CASE UNCHANGED <<received, sent, inserted>>
  <2>1. Recent(kind)' = Recent(kind) BY <1>2 DEF Recent
  <2>2. CASE Settled(key) BY <1>0, <1>1, <2>1, <2>2
  <2>3. CASE pump = "write" /\ key = ThisKey
    <3>1. \/ UNCHANGED <<pump, cur, at>>
          \/ emitted' = Append(emitted, Row) \/ raised' = raised \cup {ThisKey}
          \/ Crash
      BY <2>3 DEF SessionNext, Pump, Append_, Flush, CacheEnvelope, Signal, sessionVars, tail, BeginScan,
         EndStream, OpenFile, ReadLine, Handle, WriteOk, WriteFails, Save, Start
    <3>2. CASE UNCHANGED <<pump, cur, at>>
      BY <2>3, <3>2, LineStays
    <3>3. CASE emitted' = Append(emitted, Row) \/ raised' = raised \cup {ThisKey}
      BY <1>0, <2>3, <3>3, SettledAfter
    <3>4. CASE Crash
      <4>1. Recent(kind)' = <<>> BY <3>4 DEF Crash, Recent
      <4> QED BY <4>1
    <3> QED BY <3>1, <3>2, <3>3, <3>4
  <2> QED BY <2>1, <2>2, <2>3 DEF RecentSettled
<1>3. CASE Crash
  <2>1. Recent(kind)' = <<>> BY <1>3 DEF Crash, Recent
  <2> QED BY <2>1
<1>4. CASE Handle /\ ~ UNCHANGED <<received, sent, inserted>>
  <2>1. pump = "handle" /\ UNCHANGED <<cur, at>> BY <1>4 DEF Handle
  <2>2. PICK k \in RowKinds : k = KindOf(ThisKey) BY <2>1, LineFacts DEF RowKinds
  <2>3. /\ pump' = "write"
        /\ Recent(k)' = Remember(Recent(k), CapOf(k), ThisKey)
        /\ \A l \in RowKinds : l # k => Recent(l)' = Recent(l)
    BY <1>4, <2>2, HandleCases
  <2>4. ThisKey' = ThisKey /\ ThisKey \in Keys BY <2>1, LineStays, LineFacts
  <2>5. key = ThisKey \/ \E j \in 1 .. Len(Recent(kind)) : key = Recent(kind)[j]
    <3>1. CASE k = kind
      <4>1. \A m \in 1 .. Len(Recent(k)') :
              Recent(k)'[m] = ThisKey \/ \E j \in 1 .. Len(Recent(k)) : Recent(k)'[m] = Recent(k)[j]
        <5>1. PICK r, c, x : r = Recent(k) /\ c = CapOf(k) /\ x = ThisKey OBVIOUS
        <5>2. r \in Seq(Keys) /\ Len(r) <= c /\ c \in Nat /\ c >= 1 /\ x \in Keys
          BY <2>4, <5>1, RecentTyped
        <5>3. \A m \in 1 .. Len(Remember(r, c, x)) :
                Remember(r, c, x)[m] = x \/ \E j \in 1 .. Len(r) : Remember(r, c, x)[m] = r[j]
          BY <5>2, RememberMembers
        <5> QED BY <2>3, <5>1, <5>3
      <4> QED BY <3>1, <4>1
    <3>2. CASE k # kind BY <2>3, <3>2
    <3> QED BY <3>1, <3>2
  <2>6. CASE key = ThisKey BY <2>3, <2>4, <2>6
  <2>7. ASSUME NEW j \in 1 .. Len(Recent(kind)), key = Recent(kind)[j] PROVE Settled(key)'
    <3>1. Settled(key) BY <2>1, <2>7 DEF RecentSettled
    <3> QED BY <1>1, <2>7, <3>1
  <2> QED BY <1>0, <2>5, <2>6, <2>7
<1>5. UNCHANGED <<received, sent, inserted>> \/ Crash \/ Handle
  BY DEF SessionNext, Pump, Append_, Flush, CacheEnvelope, BeginScan, EndStream, OpenFile, ReadLine,
         WriteOk, WriteFails, Save, Start, Signal, sessionVars, dedup
<1> QED BY <1>2, <1>3, <1>4, <1>5

LEMMA RowTyped ==
  ASSUME SessionTypeOK, NEW i \in 1 .. Len(emitted)
  PROVE  /\ emitted[i].key \in Keys /\ emitted[i].stamp \in Nat /\ emitted[i].epoch \in Nat
         /\ KindOf(emitted[i].key) \in RowKinds
<1>1. emitted[i] \in Row_ BY DEF SessionTypeOK
<1>2. emitted[i].key \in Keys /\ emitted[i].stamp \in Nat /\ emitted[i].epoch \in Nat
  BY <1>1 DEF Row_
<1>3. KindOf(emitted[i].key) \in RowKinds BY DEF KindOf, RowKinds
<1> QED BY <1>2, <1>3

(* A new key is remembered: rows in the window grow older by one, and none   *)
(* of them has the new key.                                                 *)
LEMMA HandleWindows ==
  ASSUME SessionTypeOK, AtLine, Windows, Handle, ~ UNCHANGED <<received, sent, inserted>>
  PROVE  Windows'
<1>0. pump = "handle" /\ UNCHANGED <<cur, at, file, epoch, emitted>> BY DEF Handle
<1>1. PICK kind \in RowKinds : kind = KindOf(ThisKey) BY <1>0, LineFacts DEF RowKinds
<1>2. /\ pump' = "write" /\ ~ Holds(Recent(kind), ThisKey)
      /\ Recent(kind)' = Remember(Recent(kind), CapOf(kind), ThisKey)
      /\ \A k \in RowKinds : k # kind => Recent(k)' = Recent(k)
      /\ inserted' = [inserted EXCEPT ![kind] = @ + 1]
  BY <1>1, HandleCases
<1>3. PICK r, c, x, n, rr : /\ r = Recent(kind) /\ c = CapOf(kind) /\ x = ThisKey /\ n = inserted[kind]
                            /\ rr = Remember(r, c, x)
  OBVIOUS
<1>4. /\ r \in Seq(Keys) /\ Len(r) <= c /\ c \in Nat /\ c >= 1 /\ x \in Keys /\ n \in Nat
      /\ Len(r) \in Nat /\ (Len(r) = n \/ Len(r) = c)
  BY <1>0, <1>3, LineFacts, RecentTyped DEF Windows, WindowFills
<1>5. /\ Len(rr) = IF Len(r) = c THEN c ELSE Len(r) + 1
      /\ rr[Len(rr)] = x
      /\ \A age \in Nat : age + 1 < Len(rr) => rr[Len(rr) - (age + 1)] = r[Len(r) - age]
  <2>1. /\ r \in Seq(Keys) /\ Len(r) <= c /\ c \in Nat /\ c >= 1 /\ x \in Keys
        /\ rr = Remember(r, c, x)
    BY <1>3, <1>4
  <2>2. /\ Len(rr) = IF Len(r) = c THEN c ELSE Len(r) + 1
        /\ rr[Len(rr)] = x
        /\ \A age \in Nat : age + 1 < Len(rr) => rr[Len(rr) - (age + 1)] = r[Len(r) - age]
    BY <2>1, RememberShifts
  <2> QED BY <2>2
<1>6. /\ Recent(kind)' = rr /\ inserted'[kind] = n + 1
      /\ \A k \in RowKinds : k = kind => Recent(k)' = rr
      /\ \A k \in RowKinds : k # kind => inserted'[k] = inserted[k]
  <2>1. inserted \in [{"received", "sent"} -> Nat] BY DEF SessionTypeOK
  <2>2. \A k \in RowKinds : k = kind => Recent(k)' = Recent(kind)' BY DEF Recent
  <2> QED BY <1>2, <1>3, <2>1, <2>2 DEF RowKinds
<1>7. ASSUME NEW i \in 1 .. Len(emitted), emitted[i].epoch = epoch, KindOf(emitted[i].key) = kind,
             NEW age, age = n - emitted[i].stamp
      PROVE  /\ emitted[i].stamp >= 1 /\ age \in Nat
             /\ age + 1 < c => rr[Len(rr) - (age + 1)] = emitted[i].key
             /\ emitted[i].key = x => age + 1 > c
  <2>1. /\ emitted[i].stamp >= 1 /\ age >= 0 /\ emitted[i].stamp \in Nat
        /\ age < c => r[Len(r) - age] = emitted[i].key
    BY <1>0, <1>3, <1>7, RowTyped DEF Windows, WindowHolds
  <2>2. age \in Nat /\ age < n BY <1>4, <1>7, <2>1
  <2>3. ASSUME age + 1 < c PROVE rr[Len(rr) - (age + 1)] = emitted[i].key
    <3>1. age + 1 < Len(rr) BY <1>4, <1>5, <2>2, <2>3
    <3> QED BY <1>4, <1>5, <2>1, <2>2, <2>3, <3>1
  <2>4. ASSUME emitted[i].key = x PROVE age + 1 > c
    <3>1. CASE age >= c BY <1>4, <2>2, <3>1
    <3>2. CASE age < c
      <4>1. Len(r) - age \in 1 .. Len(r) BY <1>4, <2>2, <3>2
      <4>2. r[Len(r) - age] = x BY <2>1, <2>4, <3>2
      <4>3. Holds(r, x) BY <4>1, <4>2 DEF Holds
      <4> QED BY <1>2, <1>3, <4>3
    <3> QED BY <1>4, <2>2, <3>1, <3>2
  <2> QED BY <2>1, <2>2, <2>3, <2>4
<1>8. ThisKey' = x BY <1>0, <1>3 DEF ThisKey, ThisLine
<1>9. EpochsPast' BY <1>0 DEF Windows, EpochsPast
<1>10. ASSUME NEW k \in RowKinds PROVE WindowFills(k)'
  <2>1. CASE k = kind
    <3>1. Len(rr) = n + 1 \/ Len(rr) = c BY <1>4, <1>5
    <3>2. c = CapOf(kind)' BY <1>3 DEF CapOf
    <3> QED BY <1>6, <2>1, <3>1, <3>2 DEF WindowFills
  <2>2. CASE k # kind
    <3>1. Recent(k)' = Recent(k) /\ inserted'[k] = inserted[k] BY <1>2, <1>6, <2>2
    <3> QED BY <3>1 DEF Windows, WindowFills, CapOf
  <2> QED BY <2>1, <2>2
<1>11. ASSUME NEW k \in RowKinds PROVE WindowHolds(k)'
  <2>1. CASE k = kind
    <3>1. ASSUME NEW i \in 1 .. Len(emitted), emitted[i].epoch = epoch, KindOf(emitted[i].key) = kind
          PROVE  /\ emitted[i].stamp >= 1 /\ n + 1 - emitted[i].stamp >= 0
                 /\ n + 1 - emitted[i].stamp < c =>
                      rr[Len(rr) - (n + 1 - emitted[i].stamp)] = emitted[i].key
      <4>1. PICK age : age = n - emitted[i].stamp OBVIOUS
      <4>2. /\ emitted[i].stamp >= 1 /\ age \in Nat
            /\ age + 1 < c => rr[Len(rr) - (age + 1)] = emitted[i].key
        BY <1>7, <3>1, <4>1
      <4>3. n + 1 - emitted[i].stamp = age + 1 BY <1>4, <4>1, RowTyped
      <4> QED BY <4>2, <4>3
    <3>2. /\ Recent(k)' = rr /\ inserted'[k] = n + 1 /\ CapOf(k)' = c /\ emitted' = emitted
          /\ epoch' = epoch
      BY <1>0, <1>3, <1>6, <2>1 DEF CapOf
    <3>3. \A i \in 1 .. Len(emitted') : KindOf(emitted[i].key)' = KindOf(emitted[i].key)
      BY <1>0 DEF KindOf
    <3> SUFFICES ASSUME NEW i \in 1 .. Len(emitted), emitted'[i].epoch = epoch', KindOf(emitted[i].key)' = k
                 PROVE  LET age == inserted'[k] - emitted'[i].stamp IN
                        /\ emitted'[i].stamp >= 1 /\ age >= 0
                        /\ age < CapOf(k)' => Recent(k)'[Len(Recent(k)') - age] = emitted'[i].key
      BY <3>2 DEF WindowHolds
    <3>4. KindOf(emitted[i].key) = kind /\ emitted[i].epoch = epoch /\ emitted'[i] = emitted[i]
      BY <2>1, <3>2 DEF KindOf
    <3>5. PICK age : age = n + 1 - emitted[i].stamp OBVIOUS
    <3>6. /\ emitted[i].stamp >= 1 /\ age >= 0
          /\ age < c => rr[Len(rr) - age] = emitted[i].key
      BY <3>1, <3>4, <3>5
    <3>7. age = inserted'[k] - emitted'[i].stamp
      <4>1. inserted'[k] = n + 1 BY <3>2
      <4>2. emitted'[i].stamp = emitted[i].stamp BY <3>4
      <4>3. emitted[i].stamp \in Nat /\ n \in Nat BY <1>4, RowTyped
      <4> QED BY <3>5, <4>1, <4>2, <4>3
    <3> QED BY <3>2, <3>4, <3>6, <3>7
  <2>2. CASE k # kind
    <3>1. Recent(k)' = Recent(k) /\ inserted'[k] = inserted[k] BY <1>2, <1>6, <2>2
    <3>2. WindowHolds(k) BY <1>0 DEF Windows
    <3> QED BY <1>0, <3>1, <3>2 DEF WindowHolds, CapOf, KindOf
  <2> QED BY <2>1, <2>2
<1>12. WriteIsNew'
  <2>1. n + 1 >= 1 /\ rr[Len(rr)] = x BY <1>4, <1>5
  <2>2. ASSUME NEW i \in 1 .. Len(emitted), emitted[i].epoch = epoch, emitted[i].key = x
        PROVE  n + 1 - emitted[i].stamp > c
    <3>1. PICK age : age = n - emitted[i].stamp OBVIOUS
    <3>2. age \in Nat /\ age + 1 > c BY <1>1, <1>3, <1>7, <2>2, <3>1
    <3>3. n + 1 - emitted[i].stamp = age + 1 BY <1>4, <3>1, RowTyped
    <3> QED BY <3>2, <3>3
  <2>3. KindOf(ThisKey)' = kind BY <1>1, <1>3, <1>8 DEF KindOf
  <2>4. ASSUME NEW k \in RowKinds, k = KindOf(ThisKey)'
        PROVE  /\ inserted'[k] >= 1 /\ Recent(k)'[Len(Recent(k)')] = x
               /\ \A i \in 1 .. Len(emitted) : (emitted[i].epoch = epoch /\ emitted[i].key = x) =>
                    inserted'[k] - emitted[i].stamp > c
    <3>1. k = kind BY <2>3, <2>4
    <3>2. Recent(k)' = rr BY <1>6, <3>1 DEF Recent
    <3>3. inserted'[k] = n + 1 BY <1>6, <3>1
    <3>4. inserted'[k] >= 1 BY <2>1, <3>3
    <3>5. Recent(k)'[Len(Recent(k)')] = x BY <2>1, <3>2
    <3>6. ASSUME NEW i \in 1 .. Len(emitted), emitted[i].epoch = epoch, emitted[i].key = x
          PROVE  inserted'[k] - emitted[i].stamp > c
      BY <1>4, <2>2, <3>3, <3>6, RowTyped
    <3> QED BY <3>4, <3>5, <3>6
  <2>5. CapOf(kind)' = c BY <1>3 DEF CapOf
  <2> QED BY <1>0, <1>8, <2>3, <2>4, <2>5 DEF WriteIsNew
<1> QED BY <1>9, <1>10, <1>11, <1>12 DEF Windows

(* The row that is written has the key remembered last, and its stamp.       *)
LEMMA WriteWindows ==
  ASSUME SessionTypeOK, AtLine, Windows, DedupWindow, pump = "write", pump' \in {"read", "save"},
         UNCHANGED <<received, sent, inserted, epoch>>, emitted' = Append(emitted, Row)
  PROVE  Windows' /\ DedupWindow'
<1>0. PICK kind \in RowKinds : kind = KindOf(ThisKey) BY LineFacts DEF RowKinds
<1>1. PICK last_row : last_row = Row OBVIOUS
<1>2. /\ last_row \in Row_ /\ last_row.key = ThisKey /\ last_row.epoch = epoch
      /\ last_row.stamp = inserted[kind]
  BY <1>0, <1>1, RowFacts
<1>3. /\ emitted \in Seq(Row_) /\ Len(emitted) \in Nat /\ Len(emitted') = Len(emitted) + 1
      /\ emitted'[Len(emitted) + 1] = last_row
      /\ \A i \in 1 .. Len(emitted) : emitted'[i] = emitted[i]
  BY <1>1, <1>2 DEF SessionTypeOK
<1>4. /\ inserted[kind] >= 1 /\ Recent(kind)[Len(Recent(kind))] = ThisKey
      /\ \A i \in 1 .. Len(emitted) :
           (emitted[i].epoch = epoch /\ emitted[i].key = ThisKey) =>
             inserted[kind] - emitted[i].stamp > CapOf(kind)
  BY <1>0 DEF Windows, WriteIsNew
<1>5. \A k \in RowKinds : Recent(k)' = Recent(k) BY DEF Recent
<1>6. EpochsPast'
  <2> SUFFICES ASSUME NEW i \in 1 .. Len(emitted') PROVE emitted'[i].epoch <= epoch
    BY DEF EpochsPast
  <2>1. CASE i = Len(emitted) + 1 BY <1>2, <1>3, <2>1 DEF SessionTypeOK
  <2>2. CASE i # Len(emitted) + 1
    <3>1. i \in 1 .. Len(emitted) BY <1>3, <2>2
    <3> QED BY <1>3, <3>1 DEF Windows, EpochsPast
  <2> QED BY <2>1, <2>2
<1>7. ASSUME NEW k \in RowKinds PROVE WindowFills(k)'
  BY <1>5 DEF Windows, WindowFills, CapOf
<1>8. ASSUME NEW k \in RowKinds PROVE WindowHolds(k)'
  <2>1. PICK r, c, n : r = Recent(k) /\ c = CapOf(k) /\ n = inserted[k] OBVIOUS
  <2>2. Recent(k)' = r /\ CapOf(k)' = c /\ inserted'[k] = n BY <1>5, <2>1 DEF CapOf
  <2>3. ASSUME NEW i \in 1 .. Len(emitted'), emitted'[i].epoch = epoch, KindOf(emitted'[i].key) = k
        PROVE  /\ emitted'[i].stamp >= 1 /\ n - emitted'[i].stamp >= 0
               /\ n - emitted'[i].stamp < c => r[Len(r) - (n - emitted'[i].stamp)] = emitted'[i].key
    <3>1. CASE i \in 1 .. Len(emitted)
      <4>1. WindowHolds(k) BY DEF Windows
      <4> QED BY <1>3, <2>1, <2>3, <3>1, <4>1 DEF WindowHolds
    <3>2. CASE i = Len(emitted) + 1
      <4>1. emitted'[i] = last_row /\ k = kind BY <1>0, <1>2, <1>3, <2>3, <3>2
      <4>2. n \in Nat /\ Len(r) \in Nat /\ emitted'[i].stamp = n /\ n >= 1
        BY <1>2, <1>4, <2>1, <4>1, RecentTyped
      <4>3. r[Len(r)] = emitted'[i].key BY <1>2, <1>4, <2>1, <4>1
      <4>4. n - emitted'[i].stamp = 0 /\ Len(r) - (n - emitted'[i].stamp) = Len(r) BY <4>2
      <4> QED BY <4>2, <4>3, <4>4
    <3> QED BY <1>3, <3>1, <3>2
  <2> SUFFICES ASSUME NEW i \in 1 .. Len(emitted'), emitted'[i].epoch = epoch', KindOf(emitted'[i].key) = k
               PROVE  LET age == inserted'[k] - emitted'[i].stamp IN
                      /\ emitted'[i].stamp >= 1 /\ age >= 0
                      /\ age < CapOf(k)' => Recent(k)'[Len(Recent(k)') - age] = emitted'[i].key
    BY DEF WindowHolds, KindOf
  <2> QED BY <2>2, <2>3
<1>9. WriteIsNew' BY DEF WriteIsNew
<1>10. ASSUME NEW i \in 1 .. Len(emitted'), NEW j \in 1 .. Len(emitted'), i < j,
              emitted'[i].key = emitted'[j].key, emitted'[i].epoch = emitted'[j].epoch
       PROVE  emitted'[j].stamp - emitted'[i].stamp
                > IF emitted'[i].key[1] = "sent" THEN CapSent ELSE CapReceived
  <2>1. i \in 1 .. Len(emitted) BY <1>3, <1>10
  <2>2. CASE j \in 1 .. Len(emitted) BY <1>3, <1>10, <2>1, <2>2 DEF DedupWindow
  <2>3. CASE j = Len(emitted) + 1
    <3>1. emitted[i].epoch = epoch /\ emitted[i].key = ThisKey /\ emitted'[j].stamp = inserted[kind]
      BY <1>2, <1>3, <1>10, <2>1, <2>3
    <3>2. inserted[kind] - emitted[i].stamp > CapOf(kind) BY <1>4, <2>1, <3>1
    <3>3. CapOf(kind) = IF emitted'[i].key[1] = "sent" THEN CapSent ELSE CapReceived
      BY <1>0, <1>3, <2>1, <3>1 DEF CapOf, KindOf
    <3>4. emitted'[i].stamp = emitted[i].stamp BY <1>3, <2>1
    <3> QED BY <3>1, <3>2, <3>3, <3>4
  <2> QED BY <1>3, <2>2, <2>3
<1> QED BY <1>6, <1>7, <1>8, <1>9, <1>10 DEF Windows, DedupWindow

LEMMA WindowsStep ==
  ASSUME SessionTypeOK, AtLine, Windows, DedupWindow, [SessionNext]_sessionVars
  PROVE  Windows' /\ DedupWindow'
<1>1. ASSUME UNCHANGED <<received, sent, inserted, epoch, emitted>>,
             pump' = "write" => UNCHANGED <<pump, cur, at>>,
             pump = "down" => pump' = "down"
      PROVE  Windows' /\ DedupWindow'
  <2>1. \A k \in RowKinds : Recent(k)' = Recent(k) BY <1>1 DEF Recent
  <2>2. EpochsPast' /\ DedupWindow' BY <1>1 DEF Windows, EpochsPast, DedupWindow
  <2>3. \A k \in RowKinds : WindowFills(k)' BY <1>1, <2>1 DEF Windows, WindowFills, CapOf
  <2>4. ASSUME pump' # "down", NEW k \in RowKinds PROVE WindowHolds(k)'
    <3>1. WindowHolds(k) BY <1>1, <2>4 DEF Windows
    <3> QED BY <1>1, <2>1, <3>1 DEF WindowHolds, CapOf, KindOf
  <2>5. ASSUME pump' = "write" PROVE WriteIsNew'
    <3>1. pump = "write" /\ UNCHANGED <<cur, at>> BY <1>1, <2>5
    <3>2. ThisKey' = ThisKey BY <3>1, LineStays
    <3>3. \A k \in RowKinds : k = KindOf(ThisKey)' => k = KindOf(ThisKey) BY <3>2 DEF KindOf
    <3> QED BY <1>1, <2>1, <3>1, <3>2, <3>3 DEF Windows, WriteIsNew, CapOf
  <2>6. WriteIsNew' BY <2>5 DEF WriteIsNew
  <2> QED BY <2>2, <2>3, <2>4, <2>6 DEF Windows
<1>2. ASSUME Handle, ~ UNCHANGED <<received, sent, inserted>> PROVE Windows' /\ DedupWindow'
  <2>1. UNCHANGED emitted BY <1>2 DEF Handle
  <2> QED BY <1>2, <2>1, HandleWindows DEF DedupWindow
<1>3. ASSUME Handle, UNCHANGED <<received, sent, inserted>> PROVE Windows' /\ DedupWindow'
  <2>1. pump = "handle" BY <1>3 DEF Handle
  <2>2. PICK kind \in RowKinds : kind = KindOf(ThisKey) BY <2>1, LineFacts DEF RowKinds
  <2>3. pump' = "save" \/ inserted' = [inserted EXCEPT ![kind] = @ + 1]
    BY <1>3, <2>2, HandleCases
  <2>4. inserted' # [inserted EXCEPT ![kind] = @ + 1]
    <3>1. inserted[kind] \in Nat /\ kind \in DOMAIN inserted
      BY RecentTyped DEF SessionTypeOK, RowKinds
    <3>2. inserted' = inserted BY <1>3
    <3> QED BY <3>1, <3>2
  <2>5. UNCHANGED <<epoch, emitted>> BY <1>3 DEF Handle
  <2> QED BY <1>1, <1>3, <2>1, <2>3, <2>4, <2>5
<1>4. ASSUME WriteOk \/ \E committed \in BOOLEAN : WriteFails(committed) PROVE Windows' /\ DedupWindow'
  <2>1. /\ pump = "write" /\ pump' \in {"read", "save"}
        /\ UNCHANGED <<received, sent, inserted, epoch>>
        /\ UNCHANGED emitted \/ emitted' = Append(emitted, Row)
    BY <1>4 DEF WriteOk, WriteFails, dedup
  <2>2. CASE UNCHANGED emitted BY <1>1, <2>1, <2>2
  <2>3. CASE emitted' = Append(emitted, Row) BY <2>1, <2>3, WriteWindows
  <2> QED BY <2>1, <2>2, <2>3
<1>5. ASSUME Crash PROVE Windows' /\ DedupWindow'
  <2>1. /\ pump' = "down" /\ UNCHANGED <<epoch, emitted>> /\ received' = <<>> /\ sent' = <<>>
        /\ inserted' = [k \in DOMAIN inserted |-> 0]
    BY <1>5 DEF Crash
  <2>2. DOMAIN inserted = RowKinds BY DEF SessionTypeOK, RowKinds
  <2>3. ASSUME NEW k \in RowKinds PROVE WindowFills(k)'
    <3>1. Recent(k)' = <<>> BY <2>1 DEF Recent
    <3>2. inserted'[k] = 0 BY <2>1, <2>2
    <3> QED BY <3>1, <3>2 DEF WindowFills
  <2>4. EpochsPast' /\ DedupWindow' BY <2>1 DEF Windows, EpochsPast, DedupWindow
  <2> QED BY <2>1, <2>3, <2>4 DEF Windows, WriteIsNew
<1>6. ASSUME NEW readable \in BOOLEAN, Start(readable) PROVE Windows' /\ DedupWindow'
  <2>1. /\ pump' = "poll" /\ epoch' = epoch + 1 /\ UNCHANGED <<received, sent, inserted, emitted>>
    BY <1>6 DEF Start, dedup
  <2>2. ASSUME NEW i \in 1 .. Len(emitted)
        PROVE  emitted[i].epoch <= epoch' /\ emitted[i].epoch # epoch'
    <3>1. emitted[i].epoch \in Nat /\ epoch \in Nat BY RowTyped DEF SessionTypeOK
    <3>2. emitted[i].epoch <= epoch BY DEF Windows, EpochsPast
    <3> QED BY <2>1, <3>1, <3>2
  <2>3. EpochsPast' BY <2>1, <2>2 DEF EpochsPast
  <2>4. ASSUME NEW k \in RowKinds PROVE WindowFills(k)' /\ WindowHolds(k)'
    <3>1. Recent(k)' = Recent(k) BY <2>1 DEF Recent
    <3>2. WindowFills(k)' BY <2>1, <3>1 DEF Windows, WindowFills, CapOf
    <3>3. WindowHolds(k)' BY <2>1, <2>2 DEF WindowHolds
    <3> QED BY <3>2, <3>3
  <2> QED BY <2>1, <2>3, <2>4 DEF Windows, WriteIsNew, DedupWindow
<1>7. \/ /\ UNCHANGED <<received, sent, inserted, epoch, emitted>>
         /\ pump' = "write" => UNCHANGED <<pump, cur, at>>
         /\ pump = "down" => pump' = "down"
      \/ Handle \/ WriteOk \/ \E committed \in BOOLEAN : WriteFails(committed)
      \/ Crash \/ \E readable \in BOOLEAN : Start(readable)
  <2>1. CASE Pump
    BY <2>1 DEF Pump, BeginScan, EndStream, OpenFile, ReadLine, NextFile, Save, dedup
  <2>2. CASE ~Pump
    BY <2>2 DEF SessionNext, Append_, Flush, CacheEnvelope, Signal, sessionVars, tail, dedup
  <2> QED BY <2>1, <2>2
<1> QED BY <1>1, <1>2, <1>3, <1>4, <1>5, <1>6, <1>7

LEMMA SessionInvariant == SessionSpec => []SessionIInv
<1>1. SessionIInv /\ [SessionNext]_sessionVars => SessionIInv'
  <2> SUFFICES ASSUME SessionIInv, [SessionNext]_sessionVars PROVE SessionIInv' OBVIOUS
  <2>1. SessionTypeOK /\ AtLine /\ LinesSettled /\ RecentSettled /\ Windows /\ DedupWindow
    BY DEF SessionIInv
  <2>2. SessionTypeOK' BY <2>1, SessionTypes
  <2>3. AtLine' BY <2>1, PlacedStep DEF Placed
  <2>4. LinesSettled' BY <2>1, LinesStep
  <2>5. RecentSettled' BY <2>1, RecentStep
  <2>6. Windows' /\ DedupWindow' BY <2>1, WindowsStep
  <2> QED BY <2>2, <2>3, <2>4, <2>5, <2>6 DEF SessionIInv
<1> QED BY <1>1, SessionStart, PTL DEF SessionSpec

(* The session tailer's variables keep their types; no offset, in memory or  *)
(* in the state file, is beyond the end of its file, and the recent keys     *)
(* stay within their caps (Tailer, OffsetState, LedgerWriter).               *)
THEOREM SessionType == SessionSpec => []SessionTypeOK
<1>1. SessionIInv => SessionTypeOK BY DEF SessionIInv
<1> QED BY <1>1, SessionInvariant, PTL

(* No reply or message below the saved offset is lost, whatever crashed or   *)
(* could not be saved in between, and a process writes a key again only      *)
(* after its window has turned over (pump, OffsetState, LedgerWriter.emit).  *)
THEOREM SessionsAlwaysStand == SessionSpec => []SessionsStand
<1>1. SessionIInv => SessionsStand
  <2> SUFFICES ASSUME SessionIInv PROVE SessionsStand OBVIOUS
  <2>1. DedupWindow BY DEF SessionIInv
  <2>2. AtLeastOnce BY DEF SessionIInv, LinesSettled, SettledTo, AtLeastOnce
  <2> QED BY <2>1, <2>2 DEF SessionsStand
<1> QED BY <1>1, SessionInvariant, PTL

-----------------------------------------------------------------------------
(***************************************************************************)
(* The log tailer's handlers, for any channels, messages, days and failures. *)
(*                                                                          *)
(* CapturedOnce speaks of rows only. What every step keeps is that the       *)
(* handlers' memory covers the rows of this process: a Slack message on      *)
(* record is not beyond last_ts, or is gone, or is the one being handled; a  *)
(* WhatsApp message on record is in the recent keys, a file in emitted_files *)
(* unless a call for its channel has failed; and what a handler is about to  *)
(* write is not on record.                                                  *)
(***************************************************************************)
SlackSteps == {"fetch", "chat", "files"}
WhatsAppSteps == {"policy", "policywrite", "wafetch", "wachat"}

(* A handler works on a channel of its own platform; what it fetched was     *)
(* posted, and rows are of messages posted and of processes that have run.   *)
HandlerPlaced ==
  /\ logStep \in SlackSteps => chan \in Slack
  /\ logStep \in WhatsAppSteps => chan \in WhatsApp
  /\ logStep = "wachat" => msg.ts \in recent
  /\ msg.ts <= posts
  /\ \A i \in 1 .. Len(captured) : captured[i].epoch <= logEpoch /\ captured[i].ts <= posts

ThisEpoch(i, kind, c) ==
  captured[i].kind = kind /\ captured[i].chan = c /\ captured[i].epoch = logEpoch

Posted(c, ts) == \E m \in history[c] : m.ts = ts

(* A Slack message on record is not fetched as new again: _last_ts has       *)
(* reached it or is about to, or it was deleted.                             *)
SlackChatsKnown ==
  \A c \in Slack : \A i \in 1 .. Len(captured) : ThisEpoch(i, "chat", c) =>
    \/ captured[i].ts <= last_ts[c]
    \/ ~ Posted(c, captured[i].ts)
    \/ logStep = "files" /\ chan = c /\ msg.ts = captured[i].ts

WhatsAppChatsKnown ==
  \A c \in WhatsApp : \A i \in 1 .. Len(captured) :
    ThisEpoch(i, "chat", c) => captured[i].ts \in recent

FilesKnown ==
  \A c \in Slack : \A i \in 1 .. Len(captured) :
    (c \notin hiccup /\ ThisEpoch(i, "file", c)) => <<c, captured[i].ts>> \in emitted_files

(* What a handler is about to write is not on record.                        *)
PendingIsNew ==
  /\ logStep \in {"chat", "wachat"} =>
       \A i \in 1 .. Len(captured) : ThisEpoch(i, "chat", chan) => captured[i].ts # msg.ts
  /\ logStep = "policywrite" => \A i \in 1 .. Len(captured) : ~ DefaultPolicy(i, chan)

(* What the rows and the handlers' memory say together.                      *)
RowsKnown ==
  /\ HandlerPlaced /\ SlackChatsKnown /\ WhatsAppChatsKnown /\ FilesKnown
  /\ PendingIsNew /\ CapturedOnce

CaptureIInv == CaptureTypeOK /\ RowsKnown

LEMMA CaptureBounds ==
  /\ MaxPosts \in Nat /\ MaxLogLines \in Nat /\ MaxDays \in Nat /\ MaxDays >= 1
  /\ SeenCap \in Nat /\ SeenCap >= 1 /\ MaxLogFaults \in Nat
BY BoundsAssumption

LEMMA NoMsgIs == NoMsg.ts = 0 /\ NoMsg.who = "nobody" /\ NoMsg.file = FALSE
BY DEF NoMsg

(* What the platform answers is the channel's newest message.                *)
LEMMA LatestMessageIs ==
  ASSUME CaptureTypeOK, NEW c \in Channels, NEW m \in LatestMessage(c)
  PROVE  /\ m \in Message \cup {NoMsg} /\ m.ts \in Nat /\ m.ts <= posts
         /\ m # NoMsg => m \in Message /\ m \in history[c] /\ \A n \in history[c] : n.ts <= m.ts
<1>0. posts \in Nat /\ history[c] \subseteq Message /\ \A n \in history[c] : n.ts <= posts
  BY CaptureBounds DEF CaptureTypeOK
<1>1. CASE history[c] = {}
  <2>1. m = NoMsg BY <1>1 DEF LatestMessage
  <2> QED BY <1>0, <2>1, NoMsgIs
<1>2. CASE history[c] # {}
  <2>1. m \in history[c] /\ \A n \in history[c] : n.ts <= m.ts BY <1>2 DEF LatestMessage
  <2>2. m \in Message BY <1>0, <2>1
  <2>3. m.ts \in 1 .. MaxPosts BY <2>2 DEF Message
  <2> QED BY <1>0, <2>1, <2>2, <2>3, CaptureBounds
<1> QED BY <1>1, <1>2

LEMMA CapturedTyped ==
  ASSUME CaptureTypeOK, NEW i \in 1 .. Len(captured)
  PROVE  /\ captured[i] \in CaptureRow_ /\ captured[i].epoch \in Nat /\ captured[i].ts \in Nat
         /\ captured[i].chan \in Channels
<1>1. captured[i] \in CaptureRow_ BY DEF CaptureTypeOK
<1> QED BY <1>1, CaptureBounds DEF CaptureRow_

LEMMA MsgTyped ==
  ASSUME CaptureTypeOK
  PROVE  msg.ts \in 0 .. MaxPosts /\ msg.ts \in Nat /\ (msg.file => msg.ts \in 1 .. MaxPosts)
<1>1. CASE msg = NoMsg BY <1>1, NoMsgIs, CaptureBounds
<1>2. CASE msg \in Message BY <1>2, CaptureBounds DEF Message
<1> QED BY <1>1, <1>2 DEF CaptureTypeOK

(* A row written keeps CapturedOnce when nothing like it is on record.       *)
LEMMA OnceGrows ==
  ASSUME CaptureTypeOK, CapturedOnce, hiccup \subseteq hiccup', NEW row \in CaptureRow_,
         captured' = captured \/ captured' = Append(captured, row),
         (row.kind = "policy" /\ row.by = "adapter") =>
           \A i \in 1 .. Len(captured) : ~ DefaultPolicy(i, row.chan),
         (row.kind = "chat" \/ (row.kind = "file" /\ row.chan \notin hiccup')) =>
           \A i \in 1 .. Len(captured) :
             ~ (/\ captured[i].kind = row.kind /\ captured[i].chan = row.chan
                /\ captured[i].ts = row.ts /\ captured[i].epoch = row.epoch)
  PROVE  CapturedOnce'
<1>1. CASE captured' = captured
  BY <1>1 DEF CapturedOnce, DefaultPolicy, Same
<1>2. CASE captured' = Append(captured, row)
  <2>0. captured \in Seq(CaptureRow_) BY DEF CaptureTypeOK
  <2>1. /\ Len(captured') = Len(captured) + 1 /\ captured'[Len(captured')] = row
        /\ \A i \in 1 .. Len(captured) : captured'[i] = captured[i]
    BY <1>2, <2>0
  <2>2. ASSUME NEW c \in WhatsApp, NEW i \in 1 .. Len(captured'), NEW j \in 1 .. Len(captured'),
               DefaultPolicy(i, c)', DefaultPolicy(j, c)'
        PROVE  i = j
    <3>1. ASSUME NEW a \in 1 .. Len(captured), NEW b, b = Len(captured'),
                 DefaultPolicy(a, c)', DefaultPolicy(b, c)'
          PROVE  FALSE
      <4>1. row.kind = "policy" /\ row.by = "adapter" /\ row.chan = c
        BY <2>1, <3>1 DEF DefaultPolicy
      <4>2. DefaultPolicy(a, c) BY <2>1, <3>1 DEF DefaultPolicy
      <4> QED BY <4>1, <4>2
    <3>2. Len(captured) \in Nat BY <2>0
    <3>3. CASE i = Len(captured') \/ j = Len(captured')
      BY <2>1, <2>2, <3>1, <3>2, <3>3
    <3>4. CASE i \in 1 .. Len(captured) /\ j \in 1 .. Len(captured)
      <4>1. DefaultPolicy(i, c) /\ DefaultPolicy(j, c) BY <2>1, <2>2, <3>4 DEF DefaultPolicy
      <4> QED BY <3>4, <4>1 DEF CapturedOnce
    <3> QED BY <2>1, <3>2, <3>3, <3>4
  <2>3. ASSUME NEW i \in 1 .. Len(captured'), NEW j \in 1 .. Len(captured'), i < j, Same(i, j)'
        PROVE  \/ captured'[i].kind = "policy"
               \/ captured'[i].kind = "file" /\ captured'[i].chan \in hiccup'
    <3>1. Len(captured) \in Nat /\ i \in 1 .. Len(captured) /\ captured'[i] = captured[i]
      BY <2>0, <2>1, <2>3
    <3>2. CASE j \in 1 .. Len(captured)
      <4>1. Same(i, j) BY <2>1, <2>3, <3>1, <3>2 DEF Same
      <4> QED BY <2>3, <3>1, <3>2, <4>1 DEF CapturedOnce
    <3>3. CASE j = Len(captured')
      <4>1. /\ captured[i].kind = row.kind /\ captured[i].chan = row.chan
            /\ captured[i].ts = row.ts /\ captured[i].epoch = row.epoch
        BY <2>1, <2>3, <3>1, <3>3 DEF Same
      <4>2. captured[i].kind \in {"chat", "file", "policy"}
        BY <3>1, CapturedTyped DEF CaptureRow_
      <4>3. row.kind # "chat" /\ (row.kind = "file" => row.chan \in hiccup')
        BY <3>1, <4>1
      <4> QED BY <3>1, <4>1, <4>2, <4>3
    <3> QED BY <2>1, <3>1, <3>2, <3>3
  <2> QED BY <2>2, <2>3 DEF CapturedOnce
<1> QED BY <1>1, <1>2

-----------------------------------------------------------------------------
(* The types of the log tailer's variables, by who changes them.             *)
PlatformTypes ==
  /\ history \in [Channels -> SUBSET Message] /\ posts \in 0 .. MaxPosts
  /\ \A c \in Channels : \A m \in history[c] : m.ts <= posts

LogTypes ==
  /\ admits \in Seq(Channels) /\ log \in [Days -> Seq(1 .. Len(admits))]
  /\ made \subseteq Days /\ day \in Days /\ today \in Days
  /\ seenLines \in Seq(Nat) /\ Len(seenLines) = Len(admits)

ReaderTypes == fh \in 0 .. MaxDays /\ pos \in Nat /\ chan \in Channels

HandlerTypes ==
  /\ logStep \in {"idle"} \cup SlackSteps \cup WhatsAppSteps
  /\ msg \in Message \cup {NoMsg} /\ recent \subseteq 1 .. MaxPosts

MemoryTypes ==
  /\ last_ts \in [Slack -> 0 .. MaxPosts] /\ emitted_files \subseteq Slack \X (1 .. MaxPosts)
  /\ seen_channels \in Seq(Channels) /\ Len(seen_channels) <= SeenCap

RowTypes ==
  /\ captured \in Seq(CaptureRow_) /\ hiccup \subseteq Channels
  /\ logEpoch \in Nat /\ logFaults \in 0 .. MaxLogFaults

LEMMA CaptureTypeParts ==
  CaptureTypeOK <=> /\ PlatformTypes /\ LogTypes /\ ReaderTypes /\ HandlerTypes
                    /\ MemoryTypes /\ RowTypes
BY DEF CaptureTypeOK, PlatformTypes, LogTypes, ReaderTypes, HandlerTypes, MemoryTypes, RowTypes,
   SlackSteps, WhatsAppSteps

(* The newest of the files that exist.                                       *)
LEMMA Smallest == ASSUME NEW T \in SUBSET Nat, T # {} PROVE \E x \in T : \A y \in T : x <= y
<1> DEFINE R == {xy \in Nat \X Nat : xy[1] < xy[2]}
<1>1. PICK x \in T : \A y \in T : ~ (<<y, x>> \in R)
  <2>1. IsWellFoundedOn(R, Nat) BY NatLessThanWellFounded DEF OpToRel
  <2> HIDE DEF R
  <2> QED BY <2>1, WFMin
<1>2. ASSUME NEW y \in T PROVE x <= y
  <2>1. <<y, x>> \in Nat \X Nat /\ x \in Nat /\ y \in Nat OBVIOUS
  <2>2. ~ (y < x) BY <1>1, <2>1
  <2> QED BY <2>1, <2>2
<1> QED BY <1>2

LEMMA Newest == ASSUME CaptureTypeOK, made # {} PROVE Latest \in made /\ Latest \in Days
<1>1. made \subseteq Days /\ MaxDays \in Nat BY CaptureBounds DEF CaptureTypeOK
<1>2. \E d \in made : \A e \in made : e <= d
  <2> DEFINE Gaps == {MaxDays - d : d \in made}
  <2>1. \A d \in made : d \in Nat /\ MaxDays - d \in Nat BY <1>1 DEF Days
  <2>2. Gaps \in SUBSET Nat /\ Gaps # {} BY <2>1
  <2>3. PICK l \in Gaps : \A k \in Gaps : l <= k
    <3> HIDE DEF Gaps
    <3> QED BY <2>2, Smallest
  <2>4. PICK d \in made : l = MaxDays - d OBVIOUS
  <2>5. \A e \in made : MaxDays - d <= MaxDays - e BY <2>3, <2>4
  <2>6. \A e \in made : e <= d BY <1>1, <2>1, <2>5
  <2> QED BY <2>6
<1> QED BY <1>1, <1>2 DEF Latest

LEMMA PlatformTyped == ASSUME CaptureTypeOK, [CaptureNext]_captureVars PROVE PlatformTypes'
<1>0. PlatformTypes /\ MaxPosts \in Nat BY CaptureTypeParts, CaptureBounds
<1>1. ASSUME NEW c \in Channels, NEW who \in Senders, NEW f \in BOOLEAN, Post(c, who, f)
      PROVE  PlatformTypes'
  <2>1. PICK m : m = [ts |-> posts + 1, who |-> who, file |-> f] OBVIOUS
  <2>2. /\ posts' = posts + 1 /\ posts' \in 1 .. MaxPosts
        /\ history' = [history EXCEPT ![c] = @ \cup {m}]
    BY <1>0, <1>1, <2>1 DEF Post, PlatformTypes
  <2>3. m \in Message /\ m.ts <= posts' BY <1>0, <2>1, <2>2 DEF Message, PlatformTypes
  <2>4. history' \in [Channels -> SUBSET Message] BY <1>0, <2>2, <2>3 DEF PlatformTypes
  <2>5. ASSUME NEW b \in Channels, NEW n \in history'[b] PROVE n.ts <= posts'
    <3>1. n = m \/ n \in history[b] BY <1>0, <2>2 DEF PlatformTypes
    <3>2. CASE n = m BY <2>3, <3>2
    <3>3. CASE n \in history[b]
      <4>1. n \in Message /\ n.ts <= posts BY <1>0, <3>3 DEF PlatformTypes
      <4>2. n.ts \in Nat BY <4>1, <1>0 DEF Message
      <4> QED BY <1>0, <2>2, <4>1, <4>2 DEF PlatformTypes
    <3> QED BY <3>1, <3>2, <3>3
  <2> QED BY <2>2, <2>4, <2>5 DEF PlatformTypes
<1>2. ASSUME NEW c \in Channels, NEW m \in history[c], Delete(c, m) PROVE PlatformTypes'
  <2>1. posts' = posts /\ history' = [history EXCEPT ![c] = @ \ {m}] BY <1>2 DEF Delete
  <2>2. history' \in [Channels -> SUBSET Message] /\ \A b \in Channels : history'[b] \subseteq history[b]
    BY <1>0, <2>1 DEF PlatformTypes
  <2> QED BY <1>0, <2>1, <2>2 DEF PlatformTypes
<1>3. CASE UNCHANGED <<history, posts>>
  BY <1>0, <1>3 DEF PlatformTypes
<1>4. \/ \E c \in Channels, who \in Senders, f \in BOOLEAN : Post(c, who, f)
      \/ \E c \in Channels : \E m \in history[c] : Delete(c, m)
      \/ UNCHANGED <<history, posts>>
  BY DEF CaptureNext, Environment, Tailer, LogLine, Midnight, Truncate, OperatorPolicy, OpenAtEnd,
     Shrunk, ReadLogLine, SlackFetch, FetchFails, EnsurePolicy, FoldFails, WhatsAppFetch, SlackChat,
     SlackFiles, WritePolicy, WhatsAppChat, CaptureRestart, captureVars, world
<1> QED BY <1>1, <1>2, <1>3, <1>4

LEMMA LogTyped == ASSUME CaptureTypeOK, [CaptureNext]_captureVars PROVE LogTypes'
<1>0. LogTypes /\ MaxDays \in Nat BY CaptureTypeParts, CaptureBounds
<1>1. ASSUME NEW c \in Channels, LogLine(c) PROVE LogTypes'
  <2>1. /\ admits' = Append(admits, c) /\ made' = made \cup {day}
        /\ log' = [log EXCEPT ![day] = Append(@, Len(admits) + 1)]
        /\ seenLines' = Append(seenLines, 0) /\ UNCHANGED <<day, today>>
    BY <1>1 DEF LogLine
  <2>2. /\ admits' \in Seq(Channels) /\ Len(admits') = Len(admits) + 1 /\ Len(admits) \in Nat
        /\ seenLines' \in Seq(Nat) /\ Len(seenLines') = Len(seenLines) + 1
    BY <1>0, <2>1 DEF LogTypes
  <2>3. PICK wider : wider = 1 .. Len(admits') OBVIOUS
  <2>4. ASSUME NEW d \in Days PROVE log'[d] \in Seq(wider)
    <3>1. log[d] \in Seq(1 .. Len(admits)) BY <1>0 DEF LogTypes
    <3>2. log[d] \in Seq(wider) BY <2>2, <2>3, <3>1
    <3>3. Len(admits) + 1 \in wider BY <2>2, <2>3
    <3>4. Append(log[d], Len(admits) + 1) \in Seq(wider) BY <3>2, <3>3
    <3> QED BY <1>0, <2>1, <3>2, <3>4 DEF LogTypes
  <2>5. log' \in [Days -> Seq(1 .. Len(admits'))]
    <3>1. DOMAIN log' = Days /\ log' = [d \in Days |-> log'[d]] BY <1>0, <2>1 DEF LogTypes
    <3>2. log' \in [Days -> Seq(wider)] BY <2>4, <3>1
    <3> QED BY <2>3, <3>2
  <2> QED BY <1>0, <2>1, <2>2, <2>5 DEF LogTypes
<1>2. CASE Midnight
  BY <1>0, <1>2 DEF Midnight, LogTypes, Days, reader
<1>3. CASE Truncate
  <2>1. UNCHANGED <<admits, made, day, today, seenLines>> /\ log' = [log EXCEPT ![day] = <<>>]
    BY <1>3 DEF Truncate, reader
  <2> QED BY <1>0, <2>1 DEF LogTypes
<1>4. CASE ReadLogLine
  <2>1. /\ UNCHANGED <<admits, log, made, day, today>>
        /\ seenLines' = [seenLines EXCEPT ![log[fh][pos + 1]] = @ + 1]
    BY <1>4 DEF ReadLogLine, world
  <2>2. seenLines' \in Seq(Nat) /\ Len(seenLines') = Len(seenLines)
    <3>1. PICK id, n : id = log[fh][pos + 1] /\ n = Len(seenLines) OBVIOUS
    <3>2. n \in Nat /\ seenLines \in [1 .. n -> Nat] BY <1>0, <3>1 DEF LogTypes
    <3>3. seenLines' = [seenLines EXCEPT ![id] = @ + 1] BY <2>1, <3>1
    <3>4. seenLines' \in [1 .. n -> Nat]
      <4>1. ASSUME NEW k \in 1 .. n PROVE seenLines'[k] \in Nat
        <5>1. seenLines[k] \in Nat BY <3>2
        <5>2. seenLines'[k] = IF k = id THEN seenLines[k] + 1 ELSE seenLines[k] BY <3>2, <3>3
        <5> QED BY <5>1, <5>2
      <4>2. DOMAIN seenLines' = 1 .. n /\ seenLines' = [k \in 1 .. n |-> seenLines'[k]]
        BY <3>2, <3>3
      <4> QED BY <4>1, <4>2
    <3> QED BY <3>1, <3>2, <3>4
  <2> QED BY <1>0, <2>1, <2>2 DEF LogTypes
<1>5. CASE UNCHANGED <<admits, log, made, day, today, seenLines>>
  BY <1>0, <1>5 DEF LogTypes
<1>6. \/ \E c \in Channels : LogLine(c)
      \/ Midnight \/ Truncate \/ ReadLogLine
      \/ UNCHANGED <<admits, log, made, day, today, seenLines>>
  BY DEF CaptureNext, Environment, Tailer, Post, Delete, OperatorPolicy, OpenAtEnd,
     Shrunk, SlackFetch, FetchFails, EnsurePolicy, FoldFails, WhatsAppFetch, SlackChat,
     SlackFiles, WritePolicy, WhatsAppChat, CaptureRestart, captureVars, world, reader
<1> QED BY <1>1, <1>2, <1>3, <1>4, <1>5, <1>6

LEMMA ReaderTyped == ASSUME CaptureTypeOK, [CaptureNext]_captureVars PROVE ReaderTypes'
<1>0. ReaderTypes /\ LogTypes /\ MaxDays \in Nat BY CaptureTypeParts, CaptureBounds
<1>1. CASE OpenAtEnd
  <2>1. fh' = Latest /\ Latest # 0 /\ pos' = Len(log[Latest]) /\ chan' = chan BY <1>1 DEF OpenAtEnd
  <2>2. Latest \in Days
    <3>1. made # {} BY <2>1 DEF Latest
    <3> QED BY <3>1, Newest
  <2>3. Len(log[Latest]) \in Nat BY <1>0, <2>2 DEF LogTypes
  <2> QED BY <1>0, <2>1, <2>2, <2>3 DEF ReaderTypes, Days
<1>2. CASE Shrunk
  BY <1>0, <1>2 DEF Shrunk, ReaderTypes
<1>3. CASE ReadLogLine
  <2>1. PICK id : id = log[fh][pos + 1] OBVIOUS
  <2>2. /\ fh \in Days /\ pos + 1 \in 1 .. Len(log[fh]) /\ fh' = fh
        /\ pos' = pos + 1 /\ chan' = admits[id]
    BY <1>0, <1>3, <2>1 DEF ReadLogLine, ReaderTypes, LogTypes, Days
  <2>3. id \in 1 .. Len(admits) BY <1>0, <2>1, <2>2 DEF LogTypes
  <2>4. admits[id] \in Channels BY <1>0, <2>3 DEF LogTypes
  <2> QED BY <1>0, <2>2, <2>4 DEF ReaderTypes
<1>4. CASE CaptureRestart
  BY <1>0, <1>4 DEF CaptureRestart, ReaderTypes
<1>5. CASE UNCHANGED <<fh, pos, chan>>
  BY <1>0, <1>5 DEF ReaderTypes
<1>6. \/ OpenAtEnd \/ Shrunk \/ ReadLogLine \/ CaptureRestart \/ UNCHANGED <<fh, pos, chan>>
  BY DEF CaptureNext, Environment, Tailer, Post, LogLine, Delete, Midnight, Truncate, OperatorPolicy,
     SlackFetch, FetchFails, EnsurePolicy, FoldFails, WhatsAppFetch, SlackChat,
     SlackFiles, WritePolicy, WhatsAppChat, captureVars, reader
<1> QED BY <1>1, <1>2, <1>3, <1>4, <1>5, <1>6

LEMMA HandlerTyped == ASSUME CaptureTypeOK, [CaptureNext]_captureVars PROVE HandlerTypes'
<1>0. HandlerTypes /\ chan \in Channels BY CaptureTypeParts DEF ReaderTypes
<1>1. ASSUME SlackFetch \/ WhatsAppFetch PROVE HandlerTypes'
  <2>1. PICK m \in LatestMessage(chan) :
          /\ msg' = m /\ recent' \in {recent, recent \cup {m.ts}}
          /\ m = NoMsg => recent' = recent
          /\ logStep' \in {"idle"} \cup SlackSteps \cup WhatsAppSteps
    BY <1>1 DEF SlackFetch, WhatsAppFetch, SlackSteps, WhatsAppSteps
  <2>2. m \in Message \cup {NoMsg} BY <1>0, LatestMessageIs
  <2>3. m # NoMsg => m.ts \in 1 .. MaxPosts BY <2>2 DEF Message
  <2>4. recent' \subseteq 1 .. MaxPosts BY <1>0, <2>1, <2>3 DEF HandlerTypes
  <2> QED BY <2>1, <2>2, <2>4 DEF HandlerTypes
<1>2. CASE CaptureRestart
  BY <1>0, <1>2 DEF CaptureRestart, HandlerTypes
<1>3. CASE UNCHANGED <<msg, recent>> /\ logStep' \in {logStep, "idle"} \cup SlackSteps \cup WhatsAppSteps
  BY <1>0, <1>3 DEF HandlerTypes
<1>4. \/ SlackFetch \/ WhatsAppFetch \/ CaptureRestart
      \/ UNCHANGED <<msg, recent>> /\ logStep' \in {logStep, "idle"} \cup SlackSteps \cup WhatsAppSteps
  <2>1. CASE Environment
    BY <2>1 DEF Environment, Post, LogLine, Delete, Midnight, Truncate, OperatorPolicy, memory
  <2>2. CASE Tailer
    BY <2>2 DEF Tailer, OpenAtEnd, Shrunk, ReadLogLine, FetchFails, EnsurePolicy, FoldFails,
       SlackChat, SlackFiles, WritePolicy, WhatsAppChat, memory, SlackSteps, WhatsAppSteps
  <2> QED BY <2>1, <2>2 DEF CaptureNext, captureVars, memory
<1> QED BY <1>1, <1>2, <1>3, <1>4

LEMMA MarkSeenTyped ==
  ASSUME CaptureTypeOK, NEW c \in Channels, MarkSeen(c)
  PROVE  seen_channels' \in Seq(Channels) /\ Len(seen_channels') <= SeenCap
<1>1. /\ seen_channels \in Seq(Channels) /\ Len(seen_channels) <= SeenCap
      /\ SeenCap \in Nat /\ SeenCap >= 1
  BY CaptureBounds DEF CaptureTypeOK
<1>2. CASE Len(seen_channels) >= SeenCap
  <2>1. seen_channels # <<>> BY <1>1, <1>2
  <2>2. Tail(seen_channels) \in Seq(Channels) /\ Len(Tail(seen_channels)) = Len(seen_channels) - 1
    BY <1>1, <2>1, HeadTailProperties
  <2>3. seen_channels' = Append(Tail(seen_channels), c) BY <1>2 DEF MarkSeen
  <2> QED BY <1>1, <2>2, <2>3
<1>3. CASE ~ (Len(seen_channels) >= SeenCap)
  <2>1. seen_channels' = Append(seen_channels, c) BY <1>3 DEF MarkSeen
  <2> QED BY <1>1, <1>3, <2>1
<1> QED BY <1>2, <1>3

LEMMA MemoryTyped ==
  ASSUME CaptureTypeOK, HandlerPlaced, [CaptureNext]_captureVars PROVE MemoryTypes'
<1>0. MemoryTypes /\ chan \in Channels BY CaptureTypeParts DEF ReaderTypes
<1>1. CASE SlackFetch
  <2>1. PICK m \in LatestMessage(chan) :
          last_ts' = IF m.who = "bot" THEN [last_ts EXCEPT ![chan] = m.ts] ELSE last_ts
    BY <1>1 DEF SlackFetch
  <2>2. m.ts \in 0 .. MaxPosts
    <3>1. m.ts \in Nat /\ m.ts <= posts /\ posts \in 0 .. MaxPosts
      BY <1>0, LatestMessageIs DEF CaptureTypeOK
    <3> QED BY <3>1, CaptureBounds
  <2>3. last_ts' \in [Slack -> 0 .. MaxPosts] BY <1>0, <2>1, <2>2 DEF MemoryTypes
  <2>4. UNCHANGED <<emitted_files, seen_channels>> BY <1>1 DEF SlackFetch
  <2> QED BY <1>0, <2>3, <2>4 DEF MemoryTypes
<1>2. ASSUME NEW o \in Outcomes, SlackFiles(o) PROVE MemoryTypes'
  <2>1. chan \in Slack BY <1>2 DEF SlackFiles, HandlerPlaced, SlackSteps
  <2>2. /\ last_ts' = [last_ts EXCEPT ![chan] = IF msg.ts > @ THEN msg.ts ELSE @]
        /\ seen_channels' = seen_channels
        /\ \/ emitted_files' = emitted_files
           \/ msg.file /\ emitted_files' = emitted_files \cup {<<chan, msg.ts>>}
    BY <1>2 DEF SlackFiles
  <2>3. last_ts' \in [Slack -> 0 .. MaxPosts] BY <1>0, <2>1, <2>2, MsgTyped DEF MemoryTypes
  <2>4. emitted_files' \subseteq Slack \X (1 .. MaxPosts)
    <3>1. msg.file => <<chan, msg.ts>> \in Slack \X (1 .. MaxPosts) BY <2>1, MsgTyped
    <3> QED BY <1>0, <2>2, <3>1 DEF MemoryTypes
  <2> QED BY <1>0, <2>2, <2>3, <2>4 DEF MemoryTypes
<1>3. CASE MarkSeen(chan) /\ UNCHANGED <<last_ts, emitted_files>>
  BY <1>0, <1>3, MarkSeenTyped DEF MemoryTypes
<1>4. CASE CaptureRestart
  <2>1. last_ts' = [c \in Slack |-> 0] /\ emitted_files' = {} /\ seen_channels' = <<>>
    BY <1>4 DEF CaptureRestart
  <2>2. last_ts' \in [Slack -> 0 .. MaxPosts] BY <2>1, CaptureBounds
  <2>3. seen_channels' \in Seq(Channels) /\ Len(seen_channels') <= SeenCap BY <2>1, CaptureBounds
  <2> QED BY <2>1, <2>2, <2>3 DEF MemoryTypes
<1>5. CASE UNCHANGED <<last_ts, emitted_files, seen_channels>>
  BY <1>0, <1>5 DEF MemoryTypes
<1>6. \/ SlackFetch \/ \E o \in Outcomes : SlackFiles(o)
      \/ MarkSeen(chan) /\ UNCHANGED <<last_ts, emitted_files>>
      \/ CaptureRestart \/ UNCHANGED <<last_ts, emitted_files, seen_channels>>
  <2>1. CASE Environment
    BY <2>1 DEF Environment, Post, LogLine, Delete, Midnight, Truncate, OperatorPolicy, memory
  <2>2. CASE Tailer
    BY <2>2 DEF Tailer, OpenAtEnd, Shrunk, ReadLogLine, FetchFails, EnsurePolicy, FoldFails,
       SlackChat, WritePolicy, WhatsAppFetch, WhatsAppChat, memory
  <2> QED BY <2>1, <2>2 DEF CaptureNext, captureVars, memory
<1> QED BY <1>1, <1>2, <1>3, <1>4, <1>5, <1>6

(* What a step writes: at most one row.                                      *)
LEMMA WriteTyped ==
  ASSUME CaptureTypeOK, NEW row \in CaptureRow_, NEW o, Write(row, o), logEpoch' = logEpoch
  PROVE  /\ RowTypes'
         /\ captured' \in {captured, Append(captured, row)}
         /\ hiccup \subseteq hiccup' /\ (o = "ok" \/ chan \in hiccup')
         /\ o = "lost" => captured' = captured
<1>1. /\ captured \in Seq(CaptureRow_) /\ hiccup \subseteq Channels /\ chan \in Channels
      /\ logEpoch \in Nat /\ logFaults \in 0 .. MaxLogFaults /\ MaxLogFaults \in Nat
  BY CaptureBounds DEF CaptureTypeOK
<1>2. captured' \in {captured, Append(captured, row)} /\ (o = "lost" => captured' = captured)
  BY DEF Write
<1>3. \/ o = "ok" /\ UNCHANGED <<logFaults, hiccup>>
      \/ logFaults < MaxLogFaults /\ logFaults' = logFaults + 1 /\ hiccup' = hiccup \cup {chan}
  BY DEF Write, LogFault
<1>4. captured' \in Seq(CaptureRow_) BY <1>1, <1>2
<1>5. hiccup' \subseteq Channels /\ logFaults' \in 0 .. MaxLogFaults BY <1>1, <1>3
<1> QED BY <1>1, <1>2, <1>3, <1>4, <1>5 DEF RowTypes

LEMMA CaptureRowTyped ==
  ASSUME CaptureTypeOK
  PROVE  /\ \A kind \in {"chat", "file"} : CaptureRow(kind) \in CaptureRow_
         /\ [kind |-> "policy", chan |-> chan, ts |-> 0, by |-> "adapter", epoch |-> logEpoch]
              \in CaptureRow_
         /\ \A c \in Channels : [kind |-> "policy", chan |-> c, ts |-> 0, by |-> "operator",
                                 epoch |-> logEpoch] \in CaptureRow_
<1>1. chan \in Channels /\ logEpoch \in Nat /\ msg.ts \in 0 .. MaxPosts /\ 0 \in 0 .. MaxPosts
  BY MsgTyped, CaptureBounds DEF CaptureTypeOK
<1> QED BY <1>1 DEF CaptureRow, CaptureRow_

LEMMA RowsTyped == ASSUME CaptureTypeOK, [CaptureNext]_captureVars PROVE RowTypes'
<1>0. RowTypes /\ chan \in Channels /\ MaxLogFaults \in Nat
  BY CaptureTypeParts, CaptureBounds DEF ReaderTypes
<1>1. ASSUME NEW row \in CaptureRow_, NEW o, Write(row, o), logEpoch' = logEpoch PROVE RowTypes'
  BY <1>1, WriteTyped
<1>2. ASSUME NEW c \in Channels, OperatorPolicy(c) PROVE RowTypes'
  <2>1. PICK row \in CaptureRow_ : captured' = Append(captured, row)
    BY <1>2, CaptureRowTyped DEF OperatorPolicy
  <2>2. UNCHANGED <<hiccup, logEpoch, logFaults>> BY <1>2 DEF OperatorPolicy
  <2> QED BY <1>0, <2>1, <2>2 DEF RowTypes
<1>3. CASE LogFault /\ UNCHANGED captured /\ hiccup' \in {hiccup, hiccup \cup {chan}}
           /\ logEpoch' \in {logEpoch, logEpoch + 1}
  BY <1>0, <1>3 DEF RowTypes, LogFault
<1>4. CASE UNCHANGED <<captured, hiccup, logEpoch, logFaults>>
  BY <1>0, <1>4 DEF RowTypes
<1>5. \/ \E o \in Outcomes : SlackChat(o) \/ SlackFiles(o) \/ WritePolicy(o) \/ WhatsAppChat(o)
      \/ \E c \in Channels : OperatorPolicy(c)
      \/ LogFault /\ UNCHANGED captured /\ hiccup' \in {hiccup, hiccup \cup {chan}}
         /\ logEpoch' \in {logEpoch, logEpoch + 1}
      \/ UNCHANGED <<captured, hiccup, logEpoch, logFaults>>
  <2>1. CASE Environment
    <3>1. \A c \in Channels : OperatorPolicy(c) => c \in Channels OBVIOUS
    <3> QED BY <2>1, <3>1 DEF Environment, Post, LogLine, Delete, Midnight, Truncate
  <2>2. CASE Tailer
    BY <2>2 DEF Tailer, OpenAtEnd, Shrunk, ReadLogLine, SlackFetch, FetchFails, EnsurePolicy,
       FoldFails, WhatsAppFetch
  <2> QED BY <2>1, <2>2 DEF CaptureNext, captureVars, CaptureRestart
<1>6. ASSUME NEW o \in Outcomes, SlackChat(o) \/ SlackFiles(o) \/ WritePolicy(o) \/ WhatsAppChat(o)
      PROVE  RowTypes'
  <2>1. logEpoch' = logEpoch BY <1>6 DEF SlackChat, SlackFiles, WritePolicy, WhatsAppChat
  <2>2. CASE SlackChat(o) \/ WhatsAppChat(o)
    BY <1>1, <2>1, <2>2, CaptureRowTyped DEF SlackChat, WhatsAppChat
  <2>3. CASE WritePolicy(o)
    BY <1>1, <2>1, <2>3, CaptureRowTyped DEF WritePolicy
  <2>4. CASE SlackFiles(o)
    BY <1>1, <1>4, <2>1, <2>4, CaptureRowTyped DEF SlackFiles
  <2> QED BY <1>6, <2>2, <2>3, <2>4
<1> QED BY <1>2, <1>3, <1>4, <1>5, <1>6

LEMMA CaptureTypes ==
  ASSUME CaptureTypeOK, HandlerPlaced, [CaptureNext]_captureVars PROVE CaptureTypeOK'
<1>1. /\ PlatformTypes' /\ LogTypes' /\ ReaderTypes' /\ HandlerTypes' /\ MemoryTypes' /\ RowTypes'
  BY PlatformTyped, LogTyped, ReaderTyped, HandlerTyped, MemoryTyped, RowsTyped
<1> QED BY <1>1 DEF CaptureTypeOK, PlatformTypes, LogTypes, ReaderTypes, HandlerTypes, MemoryTypes,
     RowTypes, SlackSteps, WhatsAppSteps

-----------------------------------------------------------------------------
(* The handlers' steps, one by one. A step that touches neither the          *)
(* messages nor a handler nor the rows keeps everything.                     *)
LEMMA QuietKnown ==
  ASSUME RowsKnown, UNCHANGED <<history, posts, logStep, chan, msg, memory, captured, logEpoch>>,
         hiccup \subseteq hiccup'
  PROVE  RowsKnown'
<1>1. UNCHANGED <<last_ts, emitted_files, seen_channels, recent>> BY DEF memory
<1>2. HandlerPlaced' BY <1>1 DEF RowsKnown, HandlerPlaced
<1>3. SlackChatsKnown' BY <1>1 DEF RowsKnown, SlackChatsKnown, ThisEpoch, Posted
<1>4. WhatsAppChatsKnown' BY <1>1 DEF RowsKnown, WhatsAppChatsKnown, ThisEpoch
<1>5. FilesKnown' BY <1>1 DEF RowsKnown, FilesKnown, ThisEpoch
<1>6. PendingIsNew' BY DEF RowsKnown, PendingIsNew, ThisEpoch, DefaultPolicy
<1>7. CapturedOnce' BY DEF RowsKnown, CapturedOnce, DefaultPolicy, Same
<1> QED BY <1>2, <1>3, <1>4, <1>5, <1>6, <1>7 DEF RowsKnown

(* A message posted is none of those on record, and one deleted is gone.     *)
LEMMA PostKnown ==
  ASSUME CaptureIInv, NEW c \in Channels, NEW who \in Senders, NEW f \in BOOLEAN, Post(c, who, f)
  PROVE  RowsKnown'
<1>0. CaptureTypeOK /\ RowsKnown BY DEF CaptureIInv
<1>1. PICK m : m = [ts |-> posts + 1, who |-> who, file |-> f] OBVIOUS
<1>2. /\ posts' = posts + 1 /\ history' = [history EXCEPT ![c] = @ \cup {m}] /\ posts \in Nat
      /\ UNCHANGED <<logStep, chan, msg, memory, captured, hiccup, logEpoch>>
  BY <1>0, <1>1, CaptureBounds DEF Post, CaptureTypeOK
<1>3. UNCHANGED <<last_ts, emitted_files, seen_channels, recent>> BY <1>2 DEF memory
<1>4. HandlerPlaced'
  <2>1. msg.ts \in Nat BY <1>0, MsgTyped
  <2>2. \A i \in 1 .. Len(captured) : captured[i].ts \in Nat BY <1>0, CapturedTyped
  <2> QED BY <1>0, <1>2, <1>3, <2>1, <2>2 DEF RowsKnown, HandlerPlaced
<1>5. SlackChatsKnown'
  <2> SUFFICES ASSUME NEW b \in Slack, NEW i \in 1 .. Len(captured), ThisEpoch(i, "chat", b)
               PROVE  \/ captured[i].ts <= last_ts[b]
                      \/ ~ Posted(b, captured[i].ts)'
                      \/ logStep = "files" /\ chan = b /\ msg.ts = captured[i].ts
    BY <1>2, <1>3 DEF SlackChatsKnown, ThisEpoch
  <2>1. CASE Posted(b, captured[i].ts)
    BY <1>0, <2>1 DEF RowsKnown, SlackChatsKnown
  <2>2. CASE ~ Posted(b, captured[i].ts)
    <3>1. captured[i].ts \in Nat /\ captured[i].ts <= posts
      BY <1>0, CapturedTyped DEF RowsKnown, HandlerPlaced
    <3>2. m.ts = posts + 1 BY <1>1
    <3>3. \A n \in history'[b] : n = m \/ n \in history[b] BY <1>0, <1>2 DEF CaptureTypeOK, Channels
    <3> QED BY <1>2, <2>2, <3>1, <3>2, <3>3 DEF Posted
  <2> QED BY <2>1, <2>2
<1>6. WhatsAppChatsKnown' BY <1>0, <1>2, <1>3 DEF RowsKnown, WhatsAppChatsKnown, ThisEpoch
<1>7. FilesKnown' BY <1>0, <1>2, <1>3 DEF RowsKnown, FilesKnown, ThisEpoch
<1>8. PendingIsNew' BY <1>0, <1>2 DEF RowsKnown, PendingIsNew, ThisEpoch, DefaultPolicy
<1>9. CapturedOnce' BY <1>0, <1>2 DEF RowsKnown, CapturedOnce, DefaultPolicy, Same
<1> QED BY <1>4, <1>5, <1>6, <1>7, <1>8, <1>9 DEF RowsKnown

LEMMA DeleteKnown ==
  ASSUME CaptureIInv, NEW c \in Channels, NEW m \in history[c], Delete(c, m)
  PROVE  RowsKnown'
<1>0. CaptureTypeOK /\ RowsKnown BY DEF CaptureIInv
<1>1. /\ history' = [history EXCEPT ![c] = @ \ {m}]
      /\ UNCHANGED <<posts, logStep, chan, msg, memory, captured, hiccup, logEpoch>>
  BY DEF Delete
<1>2. UNCHANGED <<last_ts, emitted_files, seen_channels, recent>> BY <1>1 DEF memory
<1>3. \A b \in Channels : history'[b] \subseteq history[b] BY <1>0, <1>1 DEF CaptureTypeOK
<1>4. HandlerPlaced' BY <1>0, <1>1, <1>2 DEF RowsKnown, HandlerPlaced
<1>5. SlackChatsKnown'
  <2> SUFFICES ASSUME NEW b \in Slack, NEW i \in 1 .. Len(captured), ThisEpoch(i, "chat", b)
               PROVE  \/ captured[i].ts <= last_ts[b]
                      \/ ~ Posted(b, captured[i].ts)'
                      \/ logStep = "files" /\ chan = b /\ msg.ts = captured[i].ts
    BY <1>1, <1>2 DEF SlackChatsKnown, ThisEpoch
  <2>1. CASE Posted(b, captured[i].ts)
    BY <1>0, <2>1 DEF RowsKnown, SlackChatsKnown
  <2>2. CASE ~ Posted(b, captured[i].ts)
    BY <1>1, <1>3, <2>2 DEF Posted, Channels
  <2> QED BY <2>1, <2>2
<1>6. WhatsAppChatsKnown' BY <1>0, <1>1, <1>2 DEF RowsKnown, WhatsAppChatsKnown, ThisEpoch
<1>7. FilesKnown' BY <1>0, <1>1, <1>2 DEF RowsKnown, FilesKnown, ThisEpoch
<1>8. PendingIsNew' BY <1>0, <1>1 DEF RowsKnown, PendingIsNew, ThisEpoch, DefaultPolicy
<1>9. CapturedOnce' BY <1>0, <1>1 DEF RowsKnown, CapturedOnce, DefaultPolicy, Same
<1> QED BY <1>4, <1>5, <1>6, <1>7, <1>8, <1>9 DEF RowsKnown

(* A line read gives the handler of its platform the channel.                *)
LEMMA ReadKnown == ASSUME CaptureIInv, ReadLogLine PROVE RowsKnown'
<1>0. CaptureTypeOK /\ RowsKnown BY DEF CaptureIInv
<1>1. PICK id : id = log[fh][pos + 1] OBVIOUS
<1>2. /\ logStep = "idle" /\ chan' = admits[id] /\ logStep' = IF admits[id] \in Slack THEN "fetch" ELSE "policy"
      /\ UNCHANGED <<history, posts, msg, last_ts, emitted_files, seen_channels, recent, captured,
                     hiccup, logEpoch>>
  BY <1>1 DEF ReadLogLine, world, memory
<1>3. chan' \in Channels
  <2>1. CaptureTypeOK'
    BY <1>0, CaptureTypes DEF RowsKnown, CaptureNext, Tailer
  <2> QED BY <2>1 DEF CaptureTypeOK
<1>4. HandlerPlaced'
  BY <1>0, <1>2, <1>3 DEF RowsKnown, HandlerPlaced, SlackSteps, WhatsAppSteps, Channels
<1>5. SlackChatsKnown' BY <1>0, <1>2 DEF RowsKnown, SlackChatsKnown, ThisEpoch, Posted
<1>6. WhatsAppChatsKnown' BY <1>0, <1>2 DEF RowsKnown, WhatsAppChatsKnown, ThisEpoch
<1>7. FilesKnown' BY <1>0, <1>2 DEF RowsKnown, FilesKnown, ThisEpoch
<1>8. PendingIsNew' BY <1>2 DEF PendingIsNew
<1>9. CapturedOnce' BY <1>0, <1>2 DEF RowsKnown, CapturedOnce, DefaultPolicy, Same
<1> QED BY <1>4, <1>5, <1>6, <1>7, <1>8, <1>9 DEF RowsKnown

(* What Slack answers is new only if it is not on record.                    *)
LEMMA SlackFetchKnown == ASSUME CaptureIInv, SlackFetch PROVE RowsKnown'
<1>0. CaptureTypeOK /\ RowsKnown /\ logStep = "fetch" /\ chan \in Slack /\ chan \in Channels
  BY DEF CaptureIInv, SlackFetch, RowsKnown, HandlerPlaced, SlackSteps, CaptureTypeOK
<1>1. PICK m \in LatestMessage(chan) :
        /\ msg' = m
        /\ logStep' = IF m = NoMsg THEN "idle"
                      ELSE IF m.who # "bot" /\ m.ts > last_ts[chan] THEN "chat" ELSE "files"
        /\ last_ts' = IF m.who = "bot" THEN [last_ts EXCEPT ![chan] = m.ts] ELSE last_ts
  BY DEF SlackFetch
<1>2. UNCHANGED <<history, posts, chan, emitted_files, seen_channels, recent, captured, hiccup, logEpoch>>
  BY DEF SlackFetch, world
<1>3. /\ m.ts \in Nat /\ m.ts <= posts
      /\ m # NoMsg => m \in history[chan] /\ \A n \in history[chan] : n.ts <= m.ts
  BY <1>0, LatestMessageIs
<1>4. HandlerPlaced'
  BY <1>0, <1>1, <1>2, <1>3 DEF RowsKnown, HandlerPlaced, SlackSteps, WhatsAppSteps
<1>5. SlackChatsKnown'
  <2> SUFFICES ASSUME NEW b \in Slack, NEW i \in 1 .. Len(captured), ThisEpoch(i, "chat", b)
               PROVE  captured[i].ts <= last_ts'[b] \/ ~ Posted(b, captured[i].ts)
    BY <1>2 DEF SlackChatsKnown, ThisEpoch, Posted
  <2>1. captured[i].ts <= last_ts[b] \/ ~ Posted(b, captured[i].ts)
    BY <1>0 DEF RowsKnown, SlackChatsKnown
  <2>2. CASE last_ts' = last_ts BY <2>1, <2>2
  <2>3. CASE b # chan /\ last_ts' = [last_ts EXCEPT ![chan] = m.ts]
    <3>1. last_ts'[b] = last_ts[b] BY <1>0, <2>3 DEF CaptureTypeOK
    <3> QED BY <2>1, <3>1
  <2>4. CASE b = chan /\ m.who = "bot" /\ Posted(b, captured[i].ts)
    <3>1. m # NoMsg /\ last_ts'[b] = m.ts BY <1>0, <1>1, <2>4, NoMsgIs DEF CaptureTypeOK
    <3> QED BY <1>3, <2>4, <3>1 DEF Posted
  <2> QED BY <1>1, <2>2, <2>3, <2>4
<1>6. WhatsAppChatsKnown' BY <1>0, <1>2 DEF RowsKnown, WhatsAppChatsKnown, ThisEpoch
<1>7. FilesKnown' BY <1>0, <1>2 DEF RowsKnown, FilesKnown, ThisEpoch
<1>8. PendingIsNew'
  <2>1. ASSUME logStep' = "chat", NEW i \in 1 .. Len(captured), ThisEpoch(i, "chat", chan)
        PROVE  captured[i].ts # m.ts
    <3>1. m # NoMsg /\ m.ts > last_ts[chan] BY <1>1, <2>1
    <3>2. captured[i].ts <= last_ts[chan] \/ ~ Posted(chan, captured[i].ts)
      BY <1>0, <2>1 DEF RowsKnown, SlackChatsKnown
    <3>3. last_ts[chan] \in Nat BY <1>0, CaptureBounds DEF CaptureTypeOK
    <3> QED BY <1>3, <3>1, <3>2, <3>3 DEF Posted
  <2>2. logStep' \notin {"wachat", "policywrite"} BY <1>1
  <2> QED BY <1>1, <1>2, <2>1, <2>2 DEF PendingIsNew, ThisEpoch
<1>9. CapturedOnce' BY <1>0, <1>2 DEF RowsKnown, CapturedOnce, DefaultPolicy, Same
<1> QED BY <1>4, <1>5, <1>6, <1>7, <1>8, <1>9 DEF RowsKnown

(* A handler that gives up, or goes from the policy to the fetch.            *)
LEMMA MovesOn ==
  ASSUME RowsKnown, chan' = chan,
         UNCHANGED <<history, posts, msg, last_ts, emitted_files, recent, captured, logEpoch>>,
         hiccup \subseteq hiccup', logStep # "files",
         logStep' = "idle" \/ (logStep' \in WhatsAppSteps /\ chan \in WhatsApp),
         logStep' \notin {"wachat", "policywrite"}
  PROVE  RowsKnown'
<1>1. HandlerPlaced' BY DEF RowsKnown, HandlerPlaced, SlackSteps, WhatsAppSteps
<1>2. SlackChatsKnown' BY DEF RowsKnown, SlackChatsKnown, ThisEpoch, Posted
<1>3. WhatsAppChatsKnown' BY DEF RowsKnown, WhatsAppChatsKnown, ThisEpoch
<1>4. FilesKnown' BY DEF RowsKnown, FilesKnown, ThisEpoch
<1>5. PendingIsNew' BY DEF PendingIsNew, WhatsAppSteps
<1>6. CapturedOnce' BY DEF RowsKnown, CapturedOnce, DefaultPolicy, Same
<1> QED BY <1>1, <1>2, <1>3, <1>4, <1>5, <1>6 DEF RowsKnown

LEMMA EnsureKnown == ASSUME CaptureIInv, EnsurePolicy PROVE RowsKnown'
<1>0. RowsKnown /\ logStep = "policy" /\ chan \in WhatsApp
  BY DEF CaptureIInv, EnsurePolicy, RowsKnown, HandlerPlaced, WhatsAppSteps
<1>1. UNCHANGED <<history, posts, chan, msg, last_ts, emitted_files, recent, captured, hiccup, logEpoch>>
  BY DEF EnsurePolicy, world
<1>2. CASE logStep' = "wafetch" BY <1>0, <1>1, <1>2, MovesOn DEF WhatsAppSteps
<1>3. CASE logStep' = "policywrite" /\ ~ HasPolicy(chan)
  <2>1. HandlerPlaced' BY <1>0, <1>1, <1>3 DEF RowsKnown, HandlerPlaced, SlackSteps, WhatsAppSteps
  <2>2. SlackChatsKnown' BY <1>0, <1>1 DEF RowsKnown, SlackChatsKnown, ThisEpoch, Posted
  <2>3. WhatsAppChatsKnown' BY <1>0, <1>1 DEF RowsKnown, WhatsAppChatsKnown, ThisEpoch
  <2>4. FilesKnown' BY <1>0, <1>1 DEF RowsKnown, FilesKnown, ThisEpoch
  <2>5. PendingIsNew' BY <1>1, <1>3 DEF PendingIsNew, DefaultPolicy, HasPolicy
  <2>6. CapturedOnce' BY <1>0, <1>1 DEF RowsKnown, CapturedOnce, DefaultPolicy, Same
  <2> QED BY <2>1, <2>2, <2>3, <2>4, <2>5, <2>6 DEF RowsKnown
<1> QED BY <1>2, <1>3 DEF EnsurePolicy

LEMMA WhatsAppFetchKnown == ASSUME CaptureIInv, WhatsAppFetch PROVE RowsKnown'
<1>0. CaptureTypeOK /\ RowsKnown /\ logStep = "wafetch" /\ chan \in WhatsApp /\ chan \in Channels
  BY DEF CaptureIInv, WhatsAppFetch, RowsKnown, HandlerPlaced, WhatsAppSteps, CaptureTypeOK
<1>1. PICK m \in LatestMessage(chan) :
        /\ msg' = m
        /\ \/ logStep' = "idle" /\ recent' = recent
           \/ m.ts \notin recent /\ logStep' = "wachat" /\ recent' = recent \cup {m.ts}
  BY DEF WhatsAppFetch
<1>2. UNCHANGED <<history, posts, chan, last_ts, emitted_files, captured, hiccup, logEpoch>>
  BY DEF WhatsAppFetch, world
<1>3. m.ts \in Nat /\ m.ts <= posts BY <1>0, LatestMessageIs
<1>4. HandlerPlaced'
  BY <1>0, <1>1, <1>2, <1>3 DEF RowsKnown, HandlerPlaced, SlackSteps, WhatsAppSteps
<1>5. SlackChatsKnown' BY <1>0, <1>2 DEF RowsKnown, SlackChatsKnown, ThisEpoch, Posted
<1>6. WhatsAppChatsKnown' BY <1>0, <1>1, <1>2 DEF RowsKnown, WhatsAppChatsKnown, ThisEpoch
<1>7. FilesKnown' BY <1>0, <1>2 DEF RowsKnown, FilesKnown, ThisEpoch
<1>8. PendingIsNew'
  <2>1. ASSUME logStep' = "wachat", NEW i \in 1 .. Len(captured), ThisEpoch(i, "chat", chan)
        PROVE  captured[i].ts # m.ts
    <3>1. captured[i].ts \in recent BY <1>0, <2>1 DEF RowsKnown, WhatsAppChatsKnown
    <3> QED BY <1>1, <2>1, <3>1
  <2>2. logStep' \notin {"chat", "policywrite"} BY <1>1
  <2> QED BY <1>1, <1>2, <2>1, <2>2 DEF PendingIsNew, ThisEpoch
<1>9. CapturedOnce' BY <1>0, <1>2 DEF RowsKnown, CapturedOnce, DefaultPolicy, Same
<1> QED BY <1>4, <1>5, <1>6, <1>7, <1>8, <1>9 DEF RowsKnown

(* A row of the result is the one written or one that was there.             *)
LEMMA OldOrNew ==
  ASSUME CaptureTypeOK, NEW row \in CaptureRow_, captured' \in {captured, Append(captured, row)},
         NEW i \in 1 .. Len(captured')
  PROVE  \/ captured'[i] = row /\ captured' = Append(captured, row)
         \/ i \in 1 .. Len(captured) /\ captured'[i] = captured[i]
<1>1. captured \in Seq(CaptureRow_) BY DEF CaptureTypeOK
<1>2. CASE captured' = captured BY <1>2
<1>3. CASE captured' = Append(captured, row)
  <2>1. CASE i = Len(captured) + 1 BY <1>1, <1>3, <2>1
  <2>2. CASE i \in 1 .. Len(captured) BY <1>1, <1>3, <2>2
  <2> QED BY <1>1, <1>3, <2>1, <2>2
<1> QED BY <1>2, <1>3

(* A row of the message being handled, or a policy.                          *)
LEMMA WrittenPlaced ==
  ASSUME CaptureTypeOK, HandlerPlaced, NEW row \in CaptureRow_,
         captured' \in {captured, Append(captured, row)}, row.epoch = logEpoch,
         row.ts = msg.ts \/ row.ts = 0, UNCHANGED <<chan, msg, posts, recent, logEpoch>>,
         logStep' = "idle" \/ (logStep \in SlackSteps /\ logStep' \in SlackSteps)
           \/ (logStep \in WhatsAppSteps /\ logStep' \in WhatsAppSteps \ {"wachat"})
  PROVE  HandlerPlaced'
<1>1. logEpoch \in Nat /\ posts \in Nat BY CaptureBounds DEF CaptureTypeOK
<1>2. ASSUME NEW i \in 1 .. Len(captured')
      PROVE  captured'[i].epoch <= logEpoch' /\ captured'[i].ts <= posts'
  <2>1. CASE captured'[i] = row
    BY <1>1, <2>1 DEF HandlerPlaced
  <2>2. CASE i \in 1 .. Len(captured) /\ captured'[i] = captured[i]
    BY <2>2 DEF HandlerPlaced
  <2> QED BY <2>1, <2>2, OldOrNew
<1> QED BY <1>2 DEF HandlerPlaced, SlackSteps, WhatsAppSteps

LEMMA SlackChatKnown == ASSUME CaptureIInv, NEW o, SlackChat(o) PROVE RowsKnown'
<1>0. CaptureTypeOK /\ RowsKnown /\ logStep = "chat" /\ chan \in Slack
  BY DEF CaptureIInv, SlackChat, RowsKnown, HandlerPlaced, SlackSteps
<1>1. PICK row \in CaptureRow_ : row = CaptureRow("chat") BY <1>0, CaptureRowTyped
<1>2. row.kind = "chat" /\ row.chan = chan /\ row.ts = msg.ts /\ row.epoch = logEpoch
  BY <1>1 DEF CaptureRow
<1>3. /\ logStep' = "files"
      /\ UNCHANGED <<history, posts, chan, msg, last_ts, emitted_files, recent, logEpoch>>
  BY DEF SlackChat, world, memory
<1>4. Write(row, o) BY <1>1 DEF SlackChat
<1>5. captured' \in {captured, Append(captured, row)} /\ hiccup \subseteq hiccup'
  BY <1>0, <1>3, <1>4, WriteTyped
<1>6. \A i \in 1 .. Len(captured') :
        captured'[i] = row \/ (i \in 1 .. Len(captured) /\ captured'[i] = captured[i])
  BY <1>0, <1>5, OldOrNew
<1>7. HandlerPlaced'
  BY <1>0, <1>2, <1>3, <1>5, WrittenPlaced DEF RowsKnown, SlackSteps
<1>8. SlackChatsKnown'
  <2> SUFFICES ASSUME NEW b \in Slack, NEW i \in 1 .. Len(captured'), ThisEpoch(i, "chat", b)'
               PROVE  \/ captured'[i].ts <= last_ts[b]
                      \/ ~ Posted(b, captured'[i].ts)
                      \/ chan = b /\ msg.ts = captured'[i].ts
    BY <1>3 DEF SlackChatsKnown, Posted
  <2>1. CASE captured'[i] = row BY <1>2, <1>3, <2>1 DEF ThisEpoch
  <2>2. CASE i \in 1 .. Len(captured) /\ captured'[i] = captured[i]
    <3>1. ThisEpoch(i, "chat", b) BY <1>3, <2>2 DEF ThisEpoch
    <3> QED BY <1>0, <2>2, <3>1 DEF RowsKnown, SlackChatsKnown
  <2> QED BY <1>6, <2>1, <2>2
<1>9. WhatsAppChatsKnown'
  <2> SUFFICES ASSUME NEW b \in WhatsApp, NEW i \in 1 .. Len(captured'), ThisEpoch(i, "chat", b)'
               PROVE  captured'[i].ts \in recent
    BY <1>3 DEF WhatsAppChatsKnown
  <2>1. captured'[i] # row BY <1>0, <1>2, ChannelAssumption DEF ThisEpoch
  <2>2. i \in 1 .. Len(captured) /\ captured'[i] = captured[i] BY <1>6, <2>1
  <2>3. ThisEpoch(i, "chat", b) BY <1>3, <2>2 DEF ThisEpoch
  <2> QED BY <1>0, <2>2, <2>3 DEF RowsKnown, WhatsAppChatsKnown
<1>10. FilesKnown'
  <2> SUFFICES ASSUME NEW b \in Slack, NEW i \in 1 .. Len(captured'), b \notin hiccup',
                      ThisEpoch(i, "file", b)'
               PROVE  <<b, captured'[i].ts>> \in emitted_files
    BY <1>3 DEF FilesKnown
  <2>1. captured'[i] # row BY <1>2 DEF ThisEpoch
  <2>2. i \in 1 .. Len(captured) /\ captured'[i] = captured[i] BY <1>6, <2>1
  <2>3. ThisEpoch(i, "file", b) BY <1>3, <2>2 DEF ThisEpoch
  <2> QED BY <1>0, <1>5, <2>2, <2>3 DEF RowsKnown, FilesKnown
<1>11. PendingIsNew' BY <1>3 DEF PendingIsNew
<1>12. CapturedOnce'
  <2>1. \A i \in 1 .. Len(captured) :
          ~ (/\ captured[i].kind = row.kind /\ captured[i].chan = row.chan
             /\ captured[i].ts = row.ts /\ captured[i].epoch = row.epoch)
    BY <1>0, <1>2 DEF RowsKnown, PendingIsNew, ThisEpoch
  <2> QED BY <1>0, <1>2, <1>5, <2>1, OnceGrows DEF RowsKnown
<1> QED BY <1>7, <1>8, <1>9, <1>10, <1>11, <1>12 DEF RowsKnown

(* The end of a Slack admit: the file's row, if any, and last_ts.            *)
LEMMA SlackFilesKnown == ASSUME CaptureIInv, NEW o, SlackFiles(o) PROVE RowsKnown'
<1>0. /\ CaptureTypeOK /\ RowsKnown /\ logStep = "files" /\ chan \in Slack
      /\ msg.ts \in Nat /\ last_ts[chan] \in Nat
  <2>1. CaptureTypeOK /\ RowsKnown BY DEF CaptureIInv
  <2>2. logStep = "files" /\ chan \in Slack
    BY <2>1 DEF SlackFiles, RowsKnown, HandlerPlaced, SlackSteps
  <2>3. last_ts[chan] \in Nat BY <2>1, <2>2, CaptureBounds DEF CaptureTypeOK
  <2> QED BY <2>1, <2>2, <2>3, MsgTyped
<1>1. PICK row \in CaptureRow_ : row = CaptureRow("file") BY <1>0, CaptureRowTyped
<1>2. row.kind = "file" /\ row.chan = chan /\ row.ts = msg.ts /\ row.epoch = logEpoch
  BY <1>1 DEF CaptureRow
<1>3. /\ logStep' = "idle" /\ UNCHANGED <<history, posts, chan, msg, recent, logEpoch>>
      /\ last_ts' = [last_ts EXCEPT ![chan] = IF msg.ts > @ THEN msg.ts ELSE @]
  BY DEF SlackFiles, world
<1>4. \/ UNCHANGED <<captured, hiccup, emitted_files>>
      \/ /\ <<chan, msg.ts>> \notin emitted_files /\ Write(row, o)
         /\ emitted_files' = IF o = "ok" THEN emitted_files \cup {<<chan, msg.ts>>} ELSE emitted_files
  BY <1>1 DEF SlackFiles
<1>5. /\ captured' \in {captured, Append(captured, row)} /\ hiccup \subseteq hiccup'
      /\ emitted_files \subseteq emitted_files'
      /\ \/ captured' = captured
         \/ /\ <<chan, msg.ts>> \notin emitted_files
            /\ <<chan, msg.ts>> \in emitted_files' \/ chan \in hiccup'
  <2>1. CASE UNCHANGED <<captured, hiccup, emitted_files>> BY <2>1
  <2>2. CASE Write(row, o) /\ ~ UNCHANGED <<captured, hiccup, emitted_files>>
    <3>1. /\ captured' \in {captured, Append(captured, row)} /\ hiccup \subseteq hiccup'
          /\ o = "ok" \/ chan \in hiccup'
      BY <1>0, <1>3, <2>2, WriteTyped
    <3> QED BY <1>4, <2>2, <3>1
  <2> QED BY <1>4, <2>1, <2>2
<1>6. \A i \in 1 .. Len(captured') :
        captured'[i] = row \/ (i \in 1 .. Len(captured) /\ captured'[i] = captured[i])
  BY <1>0, <1>5, OldOrNew
<1>7. HandlerPlaced' BY <1>0, <1>2, <1>3, <1>5, WrittenPlaced DEF RowsKnown
<1>8. SlackChatsKnown'
  <2> SUFFICES ASSUME NEW b \in Slack, NEW i \in 1 .. Len(captured'), ThisEpoch(i, "chat", b)'
               PROVE  captured'[i].ts <= last_ts'[b] \/ ~ Posted(b, captured'[i].ts)
    BY <1>3 DEF SlackChatsKnown, Posted
  <2>1. captured'[i] # row BY <1>2 DEF ThisEpoch
  <2>2. i \in 1 .. Len(captured) /\ captured'[i] = captured[i] BY <1>6, <2>1
  <2>3. ThisEpoch(i, "chat", b) BY <1>3, <2>2 DEF ThisEpoch
  <2>4. \/ captured[i].ts <= last_ts[b] \/ ~ Posted(b, captured[i].ts)
        \/ chan = b /\ msg.ts = captured[i].ts
    BY <1>0, <2>2, <2>3 DEF RowsKnown, SlackChatsKnown
  <2>5. last_ts[b] \in Nat /\ last_ts'[b] \in Nat /\ last_ts[b] <= last_ts'[b]
        /\ (b = chan => msg.ts <= last_ts'[b])
    <3>1. last_ts \in [Slack -> 0 .. MaxPosts] BY <1>0 DEF CaptureTypeOK
    <3>2. last_ts'[b] = IF b = chan /\ msg.ts > last_ts[b] THEN msg.ts ELSE last_ts[b]
      BY <1>0, <1>3, <3>1
    <3> QED BY <1>0, <3>1, <3>2, CaptureBounds
  <2>6. captured[i].ts \in Nat BY <1>0, <2>2, CapturedTyped
  <2> QED BY <2>2, <2>4, <2>5, <2>6
<1>9. WhatsAppChatsKnown'
  <2> SUFFICES ASSUME NEW b \in WhatsApp, NEW i \in 1 .. Len(captured'), ThisEpoch(i, "chat", b)'
               PROVE  captured'[i].ts \in recent
    BY <1>3 DEF WhatsAppChatsKnown
  <2>1. captured'[i] # row BY <1>2 DEF ThisEpoch
  <2>2. i \in 1 .. Len(captured) /\ captured'[i] = captured[i] BY <1>6, <2>1
  <2>3. ThisEpoch(i, "chat", b) BY <1>3, <2>2 DEF ThisEpoch
  <2> QED BY <1>0, <2>2, <2>3 DEF RowsKnown, WhatsAppChatsKnown
<1>10. FilesKnown'
  <2> SUFFICES ASSUME NEW b \in Slack, NEW i \in 1 .. Len(captured'), b \notin hiccup',
                      ThisEpoch(i, "file", b)'
               PROVE  <<b, captured'[i].ts>> \in emitted_files'
    BY DEF FilesKnown
  <2>1. CASE i \in 1 .. Len(captured) /\ captured'[i] = captured[i]
    <3>1. ThisEpoch(i, "file", b) BY <1>3, <2>1 DEF ThisEpoch
    <3> QED BY <1>0, <1>5, <2>1, <3>1 DEF RowsKnown, FilesKnown
  <2>2. CASE captured'[i] = row /\ captured' # captured
    <3>1. b = chan BY <1>2, <2>2 DEF ThisEpoch
    <3> QED BY <1>2, <1>5, <2>2, <3>1
  <2> QED BY <1>6, <2>1, <2>2
<1>11. PendingIsNew' BY <1>3 DEF PendingIsNew
<1>12. CapturedOnce'
  <2>1. CASE captured' = captured
    BY <1>0, <1>5, <2>1 DEF RowsKnown, CapturedOnce, DefaultPolicy, Same
  <2>2. ASSUME captured' # captured, chan \notin hiccup', NEW i \in 1 .. Len(captured)
        PROVE  ~ (/\ captured[i].kind = "file" /\ captured[i].chan = chan
                  /\ captured[i].ts = msg.ts /\ captured[i].epoch = logEpoch)
    BY <1>0, <1>5, <2>2 DEF RowsKnown, FilesKnown, ThisEpoch
  <2>3. CASE captured' # captured
    <3>1. (row.kind = "chat" \/ (row.kind = "file" /\ row.chan \notin hiccup')) =>
            \A i \in 1 .. Len(captured) :
              ~ (/\ captured[i].kind = row.kind /\ captured[i].chan = row.chan
                 /\ captured[i].ts = row.ts /\ captured[i].epoch = row.epoch)
      BY <1>2, <2>2, <2>3
    <3> QED BY <1>0, <1>2, <1>5, <3>1, OnceGrows DEF RowsKnown
  <2> QED BY <2>1, <2>3
<1> QED BY <1>7, <1>8, <1>9, <1>10, <1>11, <1>12 DEF RowsKnown

(* A policy is neither a message nor a file.                                 *)
LEMMA PolicyKnown ==
  ASSUME CaptureIInv, NEW row \in CaptureRow_, captured' \in {captured, Append(captured, row)},
         row.kind = "policy", row.ts = 0, row.epoch = logEpoch, hiccup \subseteq hiccup',
         UNCHANGED <<history, posts, chan, msg, last_ts, emitted_files, recent, logEpoch>>,
         row.by = "adapter" => \A i \in 1 .. Len(captured) : ~ DefaultPolicy(i, row.chan),
         \/ row.by = "operator" /\ logStep' = logStep
         \/ logStep = "policywrite" /\ logStep' = "wafetch"
  PROVE  RowsKnown'
<1>0. CaptureTypeOK /\ RowsKnown BY DEF CaptureIInv
<1>1. \A i \in 1 .. Len(captured') :
        captured'[i] = row \/ (i \in 1 .. Len(captured) /\ captured'[i] = captured[i])
  BY <1>0, OldOrNew
<1>2. HandlerPlaced'
  <2>1. logEpoch \in Nat /\ posts \in Nat BY <1>0, CaptureBounds DEF CaptureTypeOK
  <2>2. ASSUME NEW i \in 1 .. Len(captured')
        PROVE  captured'[i].epoch <= logEpoch' /\ captured'[i].ts <= posts'
    BY <1>0, <1>1, <2>1 DEF RowsKnown, HandlerPlaced
  <2> QED BY <1>0, <2>2 DEF RowsKnown, HandlerPlaced, SlackSteps, WhatsAppSteps
<1>3. ASSUME NEW i \in 1 .. Len(captured'), NEW kind \in {"chat", "file"}, NEW c, ThisEpoch(i, kind, c)'
      PROVE  i \in 1 .. Len(captured) /\ captured'[i] = captured[i] /\ ThisEpoch(i, kind, c)
  <2>1. captured'[i] # row BY <1>3 DEF ThisEpoch
  <2>2. i \in 1 .. Len(captured) /\ captured'[i] = captured[i] BY <1>1, <2>1
  <2> QED BY <1>3, <2>2 DEF ThisEpoch
<1>4. SlackChatsKnown'
  <2> SUFFICES ASSUME NEW b \in Slack, NEW i \in 1 .. Len(captured'), ThisEpoch(i, "chat", b)'
               PROVE  \/ captured'[i].ts <= last_ts[b]
                      \/ ~ Posted(b, captured'[i].ts)
                      \/ logStep' = "files" /\ chan = b /\ msg.ts = captured'[i].ts
    BY DEF SlackChatsKnown, Posted
  <2>1. i \in 1 .. Len(captured) /\ captured'[i] = captured[i] /\ ThisEpoch(i, "chat", b)
    BY <1>3
  <2> QED BY <1>0, <2>1 DEF RowsKnown, SlackChatsKnown
<1>5. WhatsAppChatsKnown'
  <2> SUFFICES ASSUME NEW b \in WhatsApp, NEW i \in 1 .. Len(captured'), ThisEpoch(i, "chat", b)'
               PROVE  captured'[i].ts \in recent
    BY DEF WhatsAppChatsKnown
  <2>1. i \in 1 .. Len(captured) /\ captured'[i] = captured[i] /\ ThisEpoch(i, "chat", b)
    BY <1>3
  <2> QED BY <1>0, <2>1 DEF RowsKnown, WhatsAppChatsKnown
<1>6. FilesKnown'
  <2> SUFFICES ASSUME NEW b \in Slack, NEW i \in 1 .. Len(captured'), b \notin hiccup',
                      ThisEpoch(i, "file", b)'
               PROVE  <<b, captured'[i].ts>> \in emitted_files
    BY DEF FilesKnown
  <2>1. i \in 1 .. Len(captured) /\ captured'[i] = captured[i] /\ ThisEpoch(i, "file", b)
    BY <1>3
  <2> QED BY <1>0, <2>1 DEF RowsKnown, FilesKnown
<1>7. PendingIsNew'
  <2>1. CASE logStep' = "wafetch" BY <2>1 DEF PendingIsNew
  <2>2. CASE row.by = "operator" /\ logStep' = logStep
    <3>1. ASSUME logStep \in {"chat", "wachat"}, NEW i \in 1 .. Len(captured'),
                 ThisEpoch(i, "chat", chan)'
          PROVE  captured'[i].ts # msg.ts
      <4>1. PICK c : c = chan OBVIOUS
      <4>2. ThisEpoch(i, "chat", c)' BY <3>1, <4>1 DEF ThisEpoch
      <4>3. i \in 1 .. Len(captured) /\ captured'[i] = captured[i] /\ ThisEpoch(i, "chat", c)
        BY <1>3, <4>2
      <4> QED BY <1>0, <3>1, <4>1, <4>3 DEF RowsKnown, PendingIsNew
    <3>2. ASSUME logStep = "policywrite", NEW i \in 1 .. Len(captured')
          PROVE  ~ DefaultPolicy(i, chan)'
      <4>1. CASE captured'[i] = row BY <2>2, <4>1 DEF DefaultPolicy
      <4>2. CASE i \in 1 .. Len(captured) /\ captured'[i] = captured[i]
        BY <1>0, <3>2, <4>2 DEF RowsKnown, PendingIsNew, DefaultPolicy
      <4> QED BY <1>1, <4>1, <4>2
    <3> QED BY <2>2, <3>1, <3>2 DEF PendingIsNew, ThisEpoch, DefaultPolicy
  <2> QED BY <2>1, <2>2
<1>8. CapturedOnce' BY <1>0, OnceGrows DEF RowsKnown
<1> QED BY <1>2, <1>4, <1>5, <1>6, <1>7, <1>8 DEF RowsKnown

LEMMA WhatsAppChatKnown == ASSUME CaptureIInv, NEW o, WhatsAppChat(o) PROVE RowsKnown'
<1>0. CaptureTypeOK /\ RowsKnown /\ logStep = "wachat" /\ chan \in WhatsApp
  BY DEF CaptureIInv, WhatsAppChat, RowsKnown, HandlerPlaced, WhatsAppSteps
<1>1. PICK row \in CaptureRow_ : row = CaptureRow("chat") BY <1>0, CaptureRowTyped
<1>2. row.kind = "chat" /\ row.chan = chan /\ row.ts = msg.ts /\ row.epoch = logEpoch
  BY <1>1 DEF CaptureRow
<1>3. /\ logStep' = "idle"
      /\ UNCHANGED <<history, posts, chan, msg, last_ts, emitted_files, recent, logEpoch>>
  BY DEF WhatsAppChat, world, memory
<1>4. Write(row, o) BY <1>1 DEF WhatsAppChat
<1>5. captured' \in {captured, Append(captured, row)} /\ hiccup \subseteq hiccup'
  BY <1>0, <1>3, <1>4, WriteTyped
<1>6. \A i \in 1 .. Len(captured') :
        captured'[i] = row \/ (i \in 1 .. Len(captured) /\ captured'[i] = captured[i])
  BY <1>0, <1>5, OldOrNew
<1>7. HandlerPlaced' BY <1>0, <1>2, <1>3, <1>5, WrittenPlaced DEF RowsKnown
<1>8. SlackChatsKnown'
  <2> SUFFICES ASSUME NEW b \in Slack, NEW i \in 1 .. Len(captured'), ThisEpoch(i, "chat", b)'
               PROVE  captured'[i].ts <= last_ts[b] \/ ~ Posted(b, captured'[i].ts)
    BY <1>3 DEF SlackChatsKnown, Posted
  <2>1. captured'[i] # row BY <1>0, <1>2, ChannelAssumption DEF ThisEpoch
  <2>2. i \in 1 .. Len(captured) /\ captured'[i] = captured[i] BY <1>6, <2>1
  <2>3. ThisEpoch(i, "chat", b) BY <1>3, <2>2 DEF ThisEpoch
  <2> QED BY <1>0, <2>2, <2>3 DEF RowsKnown, SlackChatsKnown
<1>9. WhatsAppChatsKnown'
  <2> SUFFICES ASSUME NEW b \in WhatsApp, NEW i \in 1 .. Len(captured'), ThisEpoch(i, "chat", b)'
               PROVE  captured'[i].ts \in recent
    BY <1>3 DEF WhatsAppChatsKnown
  <2>1. CASE captured'[i] = row BY <1>0, <1>2, <2>1 DEF RowsKnown, HandlerPlaced
  <2>2. CASE i \in 1 .. Len(captured) /\ captured'[i] = captured[i]
    <3>1. ThisEpoch(i, "chat", b) BY <1>3, <2>2 DEF ThisEpoch
    <3> QED BY <1>0, <2>2, <3>1 DEF RowsKnown, WhatsAppChatsKnown
  <2> QED BY <1>6, <2>1, <2>2
<1>10. FilesKnown'
  <2> SUFFICES ASSUME NEW b \in Slack, NEW i \in 1 .. Len(captured'), b \notin hiccup',
                      ThisEpoch(i, "file", b)'
               PROVE  <<b, captured'[i].ts>> \in emitted_files
    BY <1>3 DEF FilesKnown
  <2>1. captured'[i] # row BY <1>2 DEF ThisEpoch
  <2>2. i \in 1 .. Len(captured) /\ captured'[i] = captured[i] BY <1>6, <2>1
  <2>3. ThisEpoch(i, "file", b) BY <1>3, <2>2 DEF ThisEpoch
  <2> QED BY <1>0, <1>5, <2>2, <2>3 DEF RowsKnown, FilesKnown
<1>11. PendingIsNew' BY <1>3 DEF PendingIsNew
<1>12. CapturedOnce'
  <2>1. \A i \in 1 .. Len(captured) :
          ~ (/\ captured[i].kind = row.kind /\ captured[i].chan = row.chan
             /\ captured[i].ts = row.ts /\ captured[i].epoch = row.epoch)
    BY <1>0, <1>2 DEF RowsKnown, PendingIsNew, ThisEpoch
  <2> QED BY <1>0, <1>2, <1>5, <2>1, OnceGrows DEF RowsKnown
<1> QED BY <1>7, <1>8, <1>9, <1>10, <1>11, <1>12 DEF RowsKnown

(* A new process has written nothing yet.                                    *)
LEMMA RestartKnown == ASSUME CaptureIInv, CaptureRestart PROVE RowsKnown'
<1>0. CaptureTypeOK /\ RowsKnown BY DEF CaptureIInv
<1>1. /\ logStep' = "idle" /\ logEpoch' = logEpoch + 1 /\ msg' = NoMsg
      /\ UNCHANGED <<history, posts, captured, hiccup>>
  BY DEF CaptureRestart, world
<1>2. /\ logEpoch \in Nat /\ posts \in Nat
      /\ \A i \in 1 .. Len(captured) : captured[i].epoch \in Nat /\ captured[i].epoch <= logEpoch
                                       /\ captured[i].ts <= posts
  BY <1>0, CaptureBounds, CapturedTyped DEF CaptureTypeOK, RowsKnown, HandlerPlaced
<1>3. HandlerPlaced' BY <1>1, <1>2, NoMsgIs DEF HandlerPlaced, SlackSteps, WhatsAppSteps
<1>4. \A i \in 1 .. Len(captured') : captured'[i].epoch # logEpoch' BY <1>1, <1>2
<1>5. SlackChatsKnown' BY <1>4 DEF SlackChatsKnown, ThisEpoch
<1>6. WhatsAppChatsKnown' BY <1>4 DEF WhatsAppChatsKnown, ThisEpoch
<1>7. FilesKnown' BY <1>4 DEF FilesKnown, ThisEpoch
<1>8. PendingIsNew' BY <1>1 DEF PendingIsNew
<1>9. CapturedOnce' BY <1>0, <1>1 DEF RowsKnown, CapturedOnce, DefaultPolicy, Same
<1> QED BY <1>3, <1>5, <1>6, <1>7, <1>8, <1>9 DEF RowsKnown

LEMMA CaptureStart == CaptureInit => CaptureIInv
<1> SUFFICES ASSUME CaptureInit PROVE CaptureIInv OBVIOUS
<1>1. PlatformTypes
  BY CaptureBounds DEF CaptureInit, PlatformTypes
<1>2. LogTypes
  BY CaptureBounds DEF CaptureInit, LogTypes, Days
<1>3. ReaderTypes /\ HandlerTypes
  BY CaptureBounds DEF CaptureInit, ReaderTypes, HandlerTypes
<1>4. MemoryTypes
  BY CaptureBounds DEF CaptureInit, MemoryTypes
<1>5. RowTypes
  BY CaptureBounds DEF CaptureInit, RowTypes
<1>6. Len(captured) = 0 /\ logStep = "idle" /\ msg.ts = 0 /\ posts = 0
  BY NoMsgIs DEF CaptureInit
<1>7. RowsKnown
  BY <1>6 DEF RowsKnown, HandlerPlaced, SlackChatsKnown, WhatsAppChatsKnown, FilesKnown, PendingIsNew,
     CapturedOnce, SlackSteps, WhatsAppSteps
<1> QED BY <1>1, <1>2, <1>3, <1>4, <1>5, <1>7, CaptureTypeParts DEF CaptureIInv

LEMMA CaptureStep == ASSUME CaptureIInv, [CaptureNext]_captureVars PROVE CaptureIInv'
<1>0. CaptureTypeOK /\ RowsKnown BY DEF CaptureIInv
<1>1. CaptureTypeOK' BY <1>0, CaptureTypes DEF RowsKnown
<1>2. ASSUME UNCHANGED <<history, posts, logStep, chan, msg, memory, captured, logEpoch>>, hiccup' = hiccup
      PROVE  RowsKnown'
  <2>1. hiccup \subseteq hiccup' BY <1>2
  <2> QED BY <1>0, <1>2, <2>1, QuietKnown
<1>3. ASSUME NEW c \in Channels, OperatorPolicy(c) PROVE RowsKnown'
  <2>1. PICK row \in CaptureRow_ :
          row = [kind |-> "policy", chan |-> c, ts |-> 0, by |-> "operator", epoch |-> logEpoch]
    BY <1>0, CaptureRowTyped
  <2>2. row.kind = "policy" /\ row.ts = 0 /\ row.epoch = logEpoch /\ row.by = "operator"
    BY <2>1
  <2>3. captured' = Append(captured, row)
    BY <1>3, <2>1 DEF OperatorPolicy
  <2>4. UNCHANGED <<history, posts, chan, msg, last_ts, emitted_files, recent, logEpoch, logStep, hiccup>>
    BY <1>3 DEF OperatorPolicy, world, memory
  <2> QED BY <2>2, <2>3, <2>4, PolicyKnown
<1>4. ASSUME NEW o \in Outcomes, WritePolicy(o) PROVE RowsKnown'
  <2>1. PICK row \in CaptureRow_ :
          row = [kind |-> "policy", chan |-> chan, ts |-> 0, by |-> "adapter", epoch |-> logEpoch]
    BY <1>0, CaptureRowTyped
  <2>2. row.kind = "policy" /\ row.ts = 0 /\ row.epoch = logEpoch /\ row.chan = chan
    BY <2>1
  <2>3. /\ Write(row, o) /\ logStep = "policywrite" /\ logStep' = "wafetch"
        /\ UNCHANGED <<history, posts, chan, msg, last_ts, emitted_files, recent, logEpoch>>
    BY <1>4, <2>1 DEF WritePolicy, world
  <2>4. captured' \in {captured, Append(captured, row)} /\ hiccup \subseteq hiccup'
    BY <1>0, <2>3, WriteTyped
  <2>5. \A i \in 1 .. Len(captured) : ~ DefaultPolicy(i, row.chan)
    BY <1>0, <2>2, <2>3 DEF RowsKnown, PendingIsNew
  <2> QED BY <2>2, <2>3, <2>4, <2>5, PolicyKnown
<1>5. ASSUME FetchFails \/ FoldFails PROVE RowsKnown'
  <2>1. /\ UNCHANGED <<history, posts, chan, msg, last_ts, emitted_files, recent, captured, logEpoch>>
        /\ hiccup \subseteq hiccup' /\ logStep \in {"fetch", "wafetch", "policy"}
        /\ logStep' = "idle" \/ (logStep = "policy" /\ logStep' = "wafetch")
    BY <1>5 DEF FetchFails, FoldFails, world, memory
  <2>2. /\ logStep # "files" /\ logStep' \notin {"wachat", "policywrite"}
        /\ logStep' = "idle" \/ (logStep' \in WhatsAppSteps /\ chan \in WhatsApp)
    BY <1>0, <2>1 DEF RowsKnown, HandlerPlaced, WhatsAppSteps
  <2> QED BY <1>0, <2>1, <2>2, MovesOn
<1>6. CASE Environment
  <2>1. ASSUME LogLine(chan) \/ Midnight \/ Truncate \/ \E c \in Channels : LogLine(c)
        PROVE  RowsKnown'
    BY <1>2, <2>1 DEF LogLine, Midnight, Truncate
  <2>2. ASSUME NEW c \in Channels, NEW who \in Senders, NEW f \in BOOLEAN, Post(c, who, f)
        PROVE  RowsKnown'
    BY <2>2, PostKnown
  <2>3. ASSUME NEW c \in Channels, NEW m \in history[c], Delete(c, m) PROVE RowsKnown'
    BY <2>3, DeleteKnown
  <2> QED BY <1>1, <1>3, <1>6, <2>1, <2>2, <2>3 DEF Environment, CaptureIInv
<1>7. CASE Tailer
  <2>1. ASSUME OpenAtEnd \/ Shrunk PROVE RowsKnown'
    BY <1>2, <2>1 DEF OpenAtEnd, Shrunk, world
  <2>2. ASSUME NEW o \in Outcomes, SlackChat(o) \/ SlackFiles(o) \/ WhatsAppChat(o)
        PROVE  RowsKnown'
    BY <2>2, SlackChatKnown, SlackFilesKnown, WhatsAppChatKnown
  <2>3. ASSUME ReadLogLine \/ SlackFetch \/ EnsurePolicy \/ WhatsAppFetch PROVE RowsKnown'
    BY <2>3, ReadKnown, SlackFetchKnown, EnsureKnown, WhatsAppFetchKnown
  <2> QED BY <1>1, <1>4, <1>5, <1>7, <2>1, <2>2, <2>3 DEF Tailer, CaptureIInv
<1>8. CASE UNCHANGED captureVars BY <1>1, <1>2, <1>8 DEF captureVars, world, CaptureIInv
<1> QED BY <1>1, <1>6, <1>7, <1>8, RestartKnown DEF CaptureIInv, CaptureNext

LEMMA CaptureInvariant == CaptureSpec => []CaptureIInv
BY CaptureStart, CaptureStep, PTL DEF CaptureSpec

(* The log tailer's variables keep their types: nothing is fetched, cached   *)
(* or recorded that was not posted, and the cache of channels known to have  *)
(* a policy stays within its cap (OpenClawLogTailer, GlobalLogCapture,       *)
(* WhatsAppLogCapture).                                                     *)
THEOREM CaptureType == CaptureSpec => []CaptureTypeOK
<1>1. CaptureIInv => CaptureTypeOK BY DEF CaptureIInv
<1> QED BY <1>1, CaptureInvariant, PTL

(* A process records a message once and a file once, whatever is deleted,    *)
(* rotated or truncated, unless a file's write committed and raised; and a   *)
(* channel gets one default policy over all restarts (on_channel_admit,      *)
(* _ensure_default_policy).                                                  *)
THEOREM CapturesAlwaysStand == CaptureSpec => []CapturedOnce
<1>1. CaptureIInv => CapturedOnce BY DEF CaptureIInv, RowsKnown
<1> QED BY <1>1, CaptureInvariant, PTL
=============================================================================
