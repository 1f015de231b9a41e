------------------------------ MODULE RateLimit ------------------------------
(***************************************************************************)
(* with_whatsapp_rate_limit: concurrent sends of one (tenant, bot) acquire a *)
(* token each from TokenBucketRateLimiter, run inside ExponentialBackoff,    *)
(* and share the marker of the persistent-throttle audit.                    *)
(*                                                                          *)
(* Time is in ticks. A token is Period units, the bucket gains one unit per *)
(* tick and holds Capacity tokens, so it fills up in Capacity * Period       *)
(* ticks: the minute of rate_per_min.                                        *)
(***************************************************************************)
EXTENDS Integers, Sequences, FiniteSets

CONSTANTS
  Sends,       \* calls of the wrapped function
  Capacity,    \* rate_per_min
  Period,      \* ticks in which the bucket gains a token
  HasDeadline, \* max_wait_s is given
  MaxWait,     \* max_wait_s in ticks
  MaxRetries,  \* retries of ExponentialBackoff
  Base,        \* base_s in ticks
  MaxIdle      \* bound on the ticks that pass while nobody sleeps

ASSUME RateAssumption == Capacity \in Nat \ {0} /\ Period \in Nat \ {0}
ASSUME BackoffAssumption == {MaxRetries, Base, MaxIdle} \subseteq Nat
(* The sleep before the n-th retry, without its jitter.                      *)
Delay(n) == Base * 2 ^ n

ASSUME DelayAssumption == \A n \in 0 .. MaxRetries : Delay(n) \in Nat
ASSUME WaitAssumption == HasDeadline \in BOOLEAN /\ MaxWait \in Nat

VARIABLES
  now,
  tokens, last_refill_at,   \* the bucket
  pc, wake, deadline, attempt,  \* the calls
  session,     \* the key is in _THROTTLE_SESSIONS
  grants,      \* history: when tokens were taken
  events       \* history: successes and audits, in order

bucket == <<tokens, last_refill_at>>
callers == <<pc, wake, deadline, attempt>>
vars == <<now, bucket, callers, session, grants, events>>

Full == Capacity * Period
Asleep == {"waiting", "backoff"}
Over == {"returned", "raised", "timeout"}

Init ==
  /\ now = 0 /\ tokens = Full /\ last_refill_at = 0
  /\ pc = [s \in Sends |-> "start"]
  /\ wake = [s \in Sends |-> 0] /\ deadline = [s \in Sends |-> 0]
  /\ attempt = [s \in Sends |-> 0]
  /\ session = FALSE /\ grants = <<>> /\ events = <<>>

-----------------------------------------------------------------------------
(* _refill.                                                                 *)
Refilled ==
  LET t == tokens + (now - last_refill_at) IN IF t > Full THEN Full ELSE t

(* The deadline of acquire is fixed before its loop.                        *)
Deadline(s) == IF pc[s] = "start" THEN now + MaxWait ELSE deadline[s]

InLoop(s) == pc[s] = "start" \/ (pc[s] = "waiting" /\ wake[s] <= now)

(* Fault: a token is taken without the time being noted.                    *)
TakeUnstamped(s) ==
  /\ InLoop(s) /\ Refilled >= Period
  /\ tokens' = Refilled - Period /\ last_refill_at' = last_refill_at
  /\ grants' = Append(grants, now)
  /\ pc' = [pc EXCEPT ![s] = "call"]
  /\ UNCHANGED <<now, wake, deadline, attempt, session, events>>

(* acquire, a pass of the loop under the bucket's lock that finds a token.  *)
Take(s) ==
  /\ InLoop(s) /\ Refilled >= Period
  /\ tokens' = Refilled - Period /\ last_refill_at' = now
  /\ grants' = Append(grants, now)
  /\ pc' = [pc EXCEPT ![s] = "call"]
  /\ UNCHANGED <<now, wake, deadline, attempt, session, events>>

(* A pass that finds none: sleep until one will be there, or the deadline.  *)
Wait(s) ==
  LET d == Deadline(s)
      need == Period - Refilled
  IN /\ InLoop(s) /\ Refilled < Period
     /\ tokens' = Refilled /\ last_refill_at' = now
     /\ deadline' = [deadline EXCEPT ![s] = d]
     /\ IF HasDeadline /\ d <= now
        THEN pc' = [pc EXCEPT ![s] = "timeout"] /\ wake' = wake
        ELSE /\ pc' = [pc EXCEPT ![s] = "waiting"]
             /\ wake' = [wake EXCEPT ![s] =
                  now + IF HasDeadline /\ d - now < need THEN d - now ELSE need]
     /\ UNCHANGED <<now, attempt, session, grants, events>>

-----------------------------------------------------------------------------
(* The wrapped call succeeds: the throttle has lifted.                      *)
CallReturns(s) ==
  /\ pc[s] = "call"
  /\ pc' = [pc EXCEPT ![s] = "returned"]
  /\ session' = FALSE
  /\ events' = Append(events, "ok")
  /\ UNCHANGED <<now, bucket, wake, deadline, attempt, grants>>

(* Any other error than RateLimitedError is not retried.                    *)
CallRaises(s) ==
  /\ pc[s] = "call"
  /\ pc' = [pc EXCEPT ![s] = "raised"]
  /\ UNCHANGED <<now, bucket, wake, deadline, attempt, session, grants, events>>

(* RateLimitedError: sleep base * 2^attempt and jitter, while retries are   *)
(* left.                                                                    *)
CallLimited(s, jitter) ==
  /\ pc[s] = "call" /\ attempt[s] < MaxRetries
  /\ pc' = [pc EXCEPT ![s] = "backoff"]
  /\ wake' = [wake EXCEPT ![s] = now + Delay(attempt[s]) + jitter]
  /\ attempt' = [attempt EXCEPT ![s] = @ + 1]
  /\ UNCHANGED <<now, bucket, deadline, session, grants, events>>

Retry(s) ==
  /\ pc[s] = "backoff" /\ wake[s] <= now
  /\ pc' = [pc EXCEPT ![s] = "call"]
  /\ UNCHANGED <<now, bucket, wake, deadline, attempt, session, grants, events>>

(* Retries exhausted: _on_exhausted marks the session, and the call that    *)
(* marked it emits the audit.                                               *)
Exhausted(s) ==
  /\ pc[s] = "call" /\ attempt[s] = MaxRetries
  /\ pc' = [pc EXCEPT ![s] = IF session THEN "raised" ELSE "audit"]
  /\ session' = TRUE
  /\ events' = IF session THEN events ELSE Append(events, "audit")
  /\ UNCHANGED <<now, bucket, wake, deadline, attempt, grants>>

(* policy_emitter returns or raises; the call raises either way.            *)
Audit(s) ==
  /\ pc[s] = "audit"
  /\ pc' = [pc EXCEPT ![s] = "raised"]
  /\ UNCHANGED <<now, bucket, wake, deadline, attempt, session, grants, events>>

Tick ==
  /\ now < MaxIdle \/ \E s \in Sends : pc[s] \in Asleep /\ wake[s] > now
  /\ now' = now + 1
  /\ UNCHANGED <<bucket, callers, session, grants, events>>

Attempt(s) ==
  \/ Take(s) \/ Wait(s) \/ CallReturns(s) \/ CallRaises(s) \/ Retry(s)
  \/ \E j \in 0 .. Base \div 2 : CallLimited(s, j)
  \/ Exhausted(s) \/ Audit(s)

Next == Tick \/ \E s \in Sends : Attempt(s)

Spec == Init /\ [][Next]_vars

(* Time passes, and the event loop runs every call that can run.            *)
FairSpec == Spec /\ WF_vars(Tick) /\ \A s \in Sends : WF_vars(Attempt(s))

-----------------------------------------------------------------------------
(* Every variable has its type; the bucket is never overdrawn or overfull.  *)
TypeOK ==
  /\ now \in Nat /\ tokens \in 0 .. Full /\ last_refill_at \in 0 .. now
  /\ pc \in [Sends -> {"start", "waiting", "call", "backoff", "audit"} \cup Over]
  /\ wake \in [Sends -> Nat] /\ deadline \in [Sends -> Nat]
  /\ attempt \in [Sends -> 0 .. MaxRetries]
  /\ session \in BOOLEAN
  /\ grants \in Seq(Nat)
  /\ events \in Seq({"ok", "audit"})

(* The bucket's promise: in any window that starts and ends with a grant,   *)
(* at most a full bucket and what was refilled in the window was granted,   *)
(* however many sends raced for the tokens and however late they woke.      *)
RateBound ==
  \A i, j \in 1 .. Len(grants) :
    i <= j => Period * (j - i + 1) <= Full + (grants[j] - grants[i])

(* One audit per throttle session: two audits have a success between them.  *)
AuditOncePerSession ==
  \A i, j \in 1 .. Len(events) :
    (i < j /\ events[i] = "audit" /\ events[j] = "audit")
      => \E k \in i + 1 .. j - 1 : events[k] = "ok"

(* acquire says of its wait that the next iteration succeeds immediately: a *)
(* call that slept until its token was due takes it.                        *)
NextIterationSucceeds ==
  [][\A s \in Sends : (pc[s] = "waiting" /\ ~HasDeadline) => wake'[s] = wake[s]]_vars

(* Every send returns, raises or times out in the end.                      *)
SendsEnd == \A s \in Sends : <>(pc[s] \in Over)

(* No window holds more grants than the bucket and its refill, and a         *)
(* throttle session leaves one audit (token_bucket.py).                      *)
SendsBounded == RateBound /\ AuditOncePerSession
=============================================================================
