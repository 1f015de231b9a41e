------------------------------ MODULE TenantGate ------------------------------
(***************************************************************************)
(* The gate in front of every MCP tool when one gateway serves several       *)
(* tenants: the slug of the request is resolved, then the sliding-window     *)
(* rate limit is checked, then the daily quota is consumed, and the ledger    *)
(* is told of the consumption by and by (LedgerQuotaTracker).  The three      *)
(* steps hold no await in asyncio's sense: a request passes them at once.     *)
(* What follows them, the write of a consumption row, interleaves, and its    *)
(* failure is logged and swallowed.  Everything but the rows is in memory.    *)
(***************************************************************************)
EXTENDS Integers, Sequences, FiniteSets

CONSTANTS
  Tenants,
  Rate, RateWindow,    \* calls per window of the rate limit
  Quota, QuotaWindow,  \* calls per window of the quota
  CountThreshold, TimeThreshold,  \* when consumption is reported
  MaxTime, MaxCalls,   \* bounds on the clock and on the requests
  MaxGateFaults        \* bound on failed writes and restarts

ASSUME LimitsAssumption ==
  /\ {Rate, Quota, CountThreshold} \subseteq Nat \ {0}
  /\ {RateWindow, QuotaWindow, TimeThreshold, MaxTime, MaxCalls, MaxGateFaults} \subseteq Nat

VARIABLES
  now,
  enabled,   \* registered tenants, and whether they are enabled
  recent,    \* per tenant, the calls the rate limit has let pass, and when
  consumed,  \* per tenant, the calls the quota has let pass, and when
  window,    \* per tenant, the calls counted since the last report, and since when
  reports,   \* reports being written
  reported,  \* reports in the ledger
  gate_faults,
  served,    \* history: the calls, with their time, boot and what let them pass
  boot       \* restarts so far

gateVars == <<now, enabled, recent, consumed, window, reports, reported, gate_faults, served, boot>>

NotOpen == [calls |-> {}, since |-> -1]

GateInit ==
  /\ now = 0
  /\ enabled = [t \in {} |-> TRUE]
  /\ recent = [t \in Tenants |-> {}]
  /\ consumed = [t \in Tenants |-> {}]
  /\ window = [t \in Tenants |-> NotOpen]
  /\ reports = {} /\ reported = {}
  /\ gate_faults = 0 /\ boot = 0
  /\ served = <<>>

Tick ==
  /\ now < MaxTime
  /\ now' = now + 1
  /\ UNCHANGED <<enabled, recent, consumed, window, reports, reported, gate_faults, served, boot>>

-----------------------------------------------------------------------------
(* InMemoryTenantRouter.register and revoke.                                *)
Put(t, on) == enabled' = [u \in DOMAIN enabled \cup {t} |-> IF u = t THEN on ELSE enabled[u]]

register_tenant(t) ==
  /\ Put(t, TRUE)
  /\ UNCHANGED <<now, recent, consumed, window, reports, reported, gate_faults, served, boot>>

revoke_tenant(t) ==
  /\ t \in DOMAIN enabled
  /\ Put(t, FALSE)
  /\ UNCHANGED <<now, recent, consumed, window, reports, reported, gate_faults, served, boot>>

-----------------------------------------------------------------------------
(* A call is known by its place in the order of all; a count is kept as the *)
(* set of the calls it counts.                                              *)
ThisCall == Len(served) + 1

(* Fault: the span is reckoned from its first call.                         *)
SinceFirst(calls, span) == IF \E c \in calls : c.at < now - span THEN {} ELSE calls

(* The calls a bucket still counts: those from just a window ago too.       *)
InWindow(calls, span) == {c \in calls : c.at >= now - span}

Counted(calls, span) == InWindow(calls, span) \cup {[id |-> ThisCall, at |-> now]}

Since(t) == IF window[t].since = -1 THEN now ELSE window[t].since

(* _emit_for_tenant takes the report and opens the next window at once; the *)
(* write comes later.                                                        *)
Report(t, calls, reason) ==
  /\ reports' = reports \cup
       {[tenant |-> t, calls |-> calls, start |-> Since(t), end |-> now, reason |-> reason,
         id |-> ThisCall]}
  /\ window' = [window EXCEPT ![t] = [calls |-> {}, since |-> now]]

(* _tick_and_check_cadence.                                                 *)
TickAndCheckCadence(t) ==
  LET calls == window[t].calls \cup {ThisCall}
  IN IF Cardinality(calls) >= CountThreshold THEN Report(t, calls, "count_threshold")
     ELSE IF now - Since(t) >= TimeThreshold THEN Report(t, calls, "time_threshold")
     ELSE /\ window' = [window EXCEPT ![t] = [calls |-> calls, since |-> Since(t)]]
          /\ UNCHANGED reports

Seen(t, passed) ==
  /\ Len(served) < MaxCalls
  /\ served' = Append(served, [tenant |-> t, at |-> now, boot |-> boot, passed |-> passed])

Admits(t) == t \in DOMAIN enabled /\ enabled[t]

(* A request is denied when its slug is unknown or revoked, or when the rate *)
(* limit or the quota is used up.  The slot of the rate limit stays taken     *)
(* when the quota denies.                                                    *)
Unresolved(t) ==
  /\ ~Admits(t)
  /\ Seen(t, {})
  /\ UNCHANGED <<recent, consumed, window, reports>>

RateLimited(t) ==
  /\ Admits(t)
  /\ Cardinality(InWindow(recent[t], RateWindow)) >= Rate
  /\ recent' = [recent EXCEPT ![t] = InWindow(recent[t], RateWindow)]
  /\ Seen(t, {})
  /\ UNCHANGED <<consumed, window, reports>>

PassRate(t) ==
  /\ Admits(t)
  /\ Cardinality(InWindow(recent[t], RateWindow)) < Rate
  /\ recent' = [recent EXCEPT ![t] = Counted(recent[t], RateWindow)]

QuotaExceeded(t) ==
  /\ PassRate(t)
  /\ Cardinality(InWindow(consumed[t], QuotaWindow)) >= Quota
  /\ consumed' = [consumed EXCEPT ![t] = InWindow(consumed[t], QuotaWindow)]
  /\ Seen(t, {"rate"})
  /\ Report(t, window[t].calls, "quota_exhausted")

Admitted(t) ==
  /\ PassRate(t)
  /\ Cardinality(InWindow(consumed[t], QuotaWindow)) < Quota
  /\ consumed' = [consumed EXCEPT ![t] = Counted(consumed[t], QuotaWindow)]
  /\ Seen(t, {"rate", "quota"})
  /\ TickAndCheckCadence(t)

Request(t) ==
  /\ Unresolved(t) \/ RateLimited(t) \/ QuotaExceeded(t) \/ Admitted(t)
  /\ UNCHANGED <<now, enabled, reported, gate_faults, boot>>

-----------------------------------------------------------------------------
WriteReport(r) ==
  /\ r \in reports
  /\ reports' = reports \ {r}
  /\ reported' = reported \cup {r}
  /\ UNCHANGED <<now, enabled, recent, consumed, window, gate_faults, served, boot>>

GateFault ==
  /\ gate_faults < MaxGateFaults
  /\ gate_faults' = gate_faults + 1

(* The emitter logs the failure; the count is not put back.                 *)
ReportFails(r) ==
  /\ r \in reports
  /\ GateFault
  /\ reports' = reports \ {r}
  /\ UNCHANGED <<now, enabled, recent, consumed, window, reported, served, boot>>

RestartGate ==
  /\ GateFault
  /\ boot' = boot + 1
  /\ enabled' = [t \in {} |-> TRUE]
  /\ recent' = [t \in Tenants |-> {}]
  /\ consumed' = [t \in Tenants |-> {}]
  /\ window' = [t \in Tenants |-> NotOpen]
  /\ reports' = {}
  /\ UNCHANGED <<now, reported, served>>

GateNext ==
  \/ Tick \/ RestartGate
  \/ \E t \in Tenants : register_tenant(t) \/ revoke_tenant(t) \/ Request(t)
  \/ \E r \in reports : WriteReport(r) \/ ReportFails(r)

GateSpec == GateInit /\ [][GateNext]_gateVars

-----------------------------------------------------------------------------
Passed(t, what) == {i \in 1 .. Len(served) : served[i].tenant = t /\ what \in served[i].passed}

AtMost(limit, span, S) ==
  \A i \in S :
    Cardinality({j \in S : served[j].boot = served[i].boot /\ j >= i
                           /\ served[j].at - served[i].at <= span}) <= limit

(* Between two restarts, no window of time, wherever it starts, holds more   *)
(* calls of a tenant than the rate limit or the quota allow, however calls   *)
(* of other tenants, denials, revocations and renewals fall in between.      *)
LimitsHold ==
  \A t \in Tenants :
    /\ AtMost(Rate, RateWindow, Passed(t, "rate"))
    /\ AtMost(Quota, QuotaWindow, Passed(t, "quota"))

(* The consumption that is reported adds up: no call is counted twice, and   *)
(* without failures every call the quota let pass is counted, in the ledger,  *)
(* in a report being written or in the open window; and no two reports of a   *)
(* tenant overlap.                                                          *)
QuotaAudited ==
  \A t \in Tenants :
    LET mine == {r \in reported \cup reports : r.tenant = t} IN
    /\ gate_faults = 0 =>
         (UNION {r.calls : r \in mine}) \cup window[t].calls = Passed(t, "quota")
    /\ \A r \in mine : r.calls \cap window[t].calls = {}
    /\ \A r, q \in mine :
         \/ r = q
         \/ r.calls \cap q.calls = {} /\ (r.end <= q.start \/ q.end <= r.start)

(* Tenants stay within their limits, and what they used is reported.         *)
QuotasStand == LimitsHold /\ QuotaAudited
=============================================================================
