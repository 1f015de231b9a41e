---------------------------- MODULE AgentGateway ----------------------------
(***************************************************************************)
(* External agents on the ledger: an admin registers an agent with its      *)
(* grants and revokes them (write_actions and their HTTP handlers); the      *)
(* agent calls the MCP tools, each behind the chain of governance gates and  *)
(* each leaving its audit trail; the projection builder folds what was       *)
(* registered.                                                               *)
(*                                                                          *)
(* A row stands for a cycle; a handler that writes several cycles writes     *)
(* them one at a time, and the ledger may refuse any of them.  A tool is     *)
(* known by its plan: the steps it takes once the gates have let it pass.    *)
(* The classification gate and the optional stateful gates depend on data    *)
(* that is not modelled: they may deny or let pass.                          *)
(***************************************************************************)
EXTENDS Integers, Sequences

CONSTANTS
  Agents,    \* agent ids, minted by registration
  Requests,  \* what a registration may ask for: sequences of grants
  ToolSet,   \* the tools called
  CallIds, RevokeIds,  \* requests served concurrently
  MaxRows,   \* bound on the ledger
  MaxGatewayFaults  \* bound on writes and backend steps that fail

DataGrants == {"domain.read", "resource.read", "resource.maintainer"}

(* Whatever a registration may ask for.                                     *)
Granted == UNION {{request[i] : i \in 1 .. Len(request)} : request \in Requests}

ASSUME BoundAssumption == MaxRows \in Nat /\ MaxGatewayFaults \in Nat
ASSUME RequestsAssumption == Requests \subseteq Seq(Granted)

VARIABLES
  grantRows,    \* committed rows, oldest first
  reg,       \* grants a registration has still to write
  revoke,    \* revoke_agent calls
  call,      \* MCP tool calls
  projected, \* rows covered by the last rebuild of the projections
  gatewayFaults

gatewayVars == <<grantRows, reg, revoke, call, projected, gatewayFaults>>

CommitRow(row) ==
  /\ Len(grantRows) < MaxRows
  /\ grantRows' = Append(grantRows, row)

Fault ==
  /\ gatewayFaults < MaxGatewayFaults
  /\ gatewayFaults' = gatewayFaults + 1

GatewayInit ==
  /\ grantRows = <<>>
  /\ reg = [a \in Agents |-> <<>>]
  /\ revoke = [r \in RevokeIds |-> [pc |-> "idle"]]
  /\ call = [c \in CallIds |-> [pc |-> "idle"]]
  /\ projected = 0
  /\ gatewayFaults = 0

Rows(rows, kind, a) ==
  {i \in 1 .. Len(rows) : rows[i].kind = kind /\ rows[i].agent = a}

Registered(a) == Rows(grantRows, "registered", a) # {}

-----------------------------------------------------------------------------
(* register_agent: the registration, then one cycle for each grant.         *)
GrantRow(a, g, st) == [kind |-> "grant", agent |-> a, grant |-> g, status |-> st]

register_agent(a, request) ==
  /\ ~Registered(a)
  /\ CommitRow([kind |-> "registered", agent |-> a])
  /\ reg' = [reg EXCEPT ![a] = request]
  /\ UNCHANGED <<revoke, call, projected, gatewayFaults>>

RegisterGrant(a) ==
  /\ reg[a] # <<>>
  /\ CommitRow(GrantRow(a, Head(reg[a]), "active"))
  /\ reg' = [reg EXCEPT ![a] = Tail(@)]
  /\ UNCHANGED <<revoke, call, projected, gatewayFaults>>

(* A refused write ends the registration; what it has written stays.        *)
RegisterFails(a) ==
  /\ reg[a] # <<>>
  /\ Fault
  /\ reg' = [reg EXCEPT ![a] = <<>>]
  /\ UNCHANGED <<grantRows, revoke, call, projected>>

-----------------------------------------------------------------------------
SameGrant(r, s) == r.agent = s.agent /\ r.grant.kind = s.grant.kind
                   /\ r.grant.target = s.grant.target

(* Fault: every active row counts, whatever was written after it.           *)
EverActive(rows, a) == {i \in Rows(rows, "grant", a) : rows[i].status = "active"}

(* Newest first, a grant's newest row decides: the active ones of a.        *)
ActiveGrants(rows, a) ==
  {i \in Rows(rows, "grant", a) :
     /\ rows[i].status = "active"
     /\ \A j \in Rows(rows, "grant", a) : SameGrant(rows[i], rows[j]) => j <= i}

list_active_grants(a) == {grantRows[i].grant : i \in ActiveGrants(grantRows, a)}

(* revoke_agent: one scan of the ledger, then one cycle per active grant,   *)
(* the newest first.                                                        *)
RevokeScan(r, a) ==
  /\ revoke[r].pc = "idle"
  /\ LET found == ActiveGrants(grantRows, a) IN
     revoke' = [revoke EXCEPT ![r] =
       [pc |-> IF found = {} THEN "done" ELSE "write",
        agent |-> a, todo |-> found, at |-> Len(grantRows), end |-> Len(grantRows)]]
  /\ UNCHANGED <<grantRows, reg, call, projected, gatewayFaults>>

RevokeGrant(r) ==
  /\ revoke[r].pc = "write"
  /\ \E i \in revoke[r].todo :
       LET rest == revoke[r].todo \ {i} IN
       /\ \A j \in rest : j < i
       /\ CommitRow(GrantRow(revoke[r].agent, grantRows[i].grant, "revoked"))
       /\ revoke' = [revoke EXCEPT ![r] =
            [@ EXCEPT !.todo = rest, !.pc = IF rest = {} THEN "done" ELSE "write",
                      !.end = Len(grantRows) + 1]]
  /\ UNCHANGED <<reg, call, projected, gatewayFaults>>

RevokeFails(r) ==
  /\ revoke[r].pc = "write"
  /\ Fault
  /\ revoke' = [revoke EXCEPT ![r] = [@ EXCEPT !.pc = "failed"]]
  /\ UNCHANGED <<grantRows, reg, call, projected>>

-----------------------------------------------------------------------------
LakeReads == {"lake.catalog.tables", "lake.semantic.metric", "lake.lineage"}
SemanticReads == {"lake.semantic.search", "lake.semantic.query_spec"}
DecisionTools == {"decisions.list", "decisions.get", "decisions.search"}
ProcessTools == {"processes.list", "processes.get"}
ProductReads == {"data_products.list", "data_products.get"}

(* What a tool does past the gates.  "backend" and "token" write nothing to *)
(* the ledger; every other step is a cycle of its own.                       *)
lake_query == <<"token", "audit", "credential">>
suggest_correction == <<"correction", "audit">>
record_outcome == <<"outcome">>
semantic_gap == <<"gap">>
consume == <<"audit", "consumed">>

Plan(tool) ==
  CASE tool = "lake.query"                    -> lake_query
    [] tool = "lake.query.suggest_correction" -> suggest_correction
    [] tool = "lake.query.record_outcome"     -> record_outcome
    [] tool = "lake.semantic.gap"             -> semantic_gap
    [] tool = "data_products.consume"         -> consume
    [] tool \in LakeReads \cup SemanticReads \cup DecisionTools \cup ProcessTools
                 \cup ProductReads           -> <<"backend", "audit">>

Silent == {"token", "backend"}

Tools == {"lake.query", "lake.query.suggest_correction", "lake.query.record_outcome",
          "lake.semantic.gap", "data_products.consume"}
         \cup LakeReads \cup SemanticReads \cup DecisionTools \cup ProcessTools \cup ProductReads

ASSUME ToolsAssumption == ToolSet \subseteq Tools

(* The cycles a tool leaves behind.                                         *)
Cycles(tool) == {Plan(tool)[k] : k \in 1 .. Len(Plan(tool))} \ Silent

CallStart(c, a, tool) ==
  /\ call[c].pc = "idle"
  /\ Registered(a)
  /\ call' = [call EXCEPT ![c] =
       [pc |-> "access", agent |-> a, tool |-> tool, start |-> Len(grantRows), step |-> 1]]
  /\ UNCHANGED <<grantRows, reg, revoke, projected, gatewayFaults>>

Goes(c, pc) == call' = [call EXCEPT ![c] = [@ EXCEPT !.pc = pc]]

(* AgentAccessGate, and the classification gate behind it.                  *)
HasAccess(a) == \E g \in list_active_grants(a) : g.kind \in DataGrants

GateAccess(c) ==
  /\ call[c].pc = "access"
  /\ \/ HasAccess(call[c].agent) /\ Goes(c, "cost")
     \/ Goes(c, "deny")
  /\ UNCHANGED <<grantRows, reg, revoke, projected, gatewayFaults>>

(* CostGate looks the grants up again; the stateful gates come after it.    *)
Exhausted(a) ==
  \E g \in list_active_grants(a) : g.kind = "model.access" /\ g.budget = 0

GateCost(c) ==
  /\ call[c].pc = "cost"
  /\ \/ ~Exhausted(call[c].agent) /\ Goes(c, "work")
     \/ Goes(c, "deny")
  /\ UNCHANGED <<grantRows, reg, revoke, projected, gatewayFaults>>

CallRow(c, kind) == [kind |-> kind, agent |-> call[c].agent, call |-> c]

(* The denial is an agent_query cycle of its own.                           *)
Deny(c) ==
  /\ call[c].pc = "deny"
  /\ CommitRow(CallRow(c, "denied"))
  /\ Goes(c, "refused")
  /\ UNCHANGED <<reg, revoke, projected, gatewayFaults>>

DoneAt(c) == call[c].step = Len(Plan(call[c].tool))

Work(c) ==
  /\ call[c].pc = "work"
  /\ LET step == Plan(call[c].tool)[call[c].step] IN
     IF step \in Silent THEN UNCHANGED grantRows ELSE CommitRow(CallRow(c, step))
  /\ call' = [call EXCEPT ![c] =
       [@ EXCEPT !.step = call[c].step + 1, !.pc = IF DoneAt(c) THEN "answered" ELSE "work"]]
  /\ UNCHANGED <<reg, revoke, projected, gatewayFaults>>

(* Any step may raise: the agent gets an error and no answer.               *)
CallFails(c) ==
  /\ call[c].pc \in {"deny", "work"}
  /\ Fault
  /\ Goes(c, "failed")
  /\ UNCHANGED <<grantRows, reg, revoke, projected>>

-----------------------------------------------------------------------------
(* The payload of a registration, and what the builder's fold indexes in it.*)
RegisteredFields == {"agent_id", "external_provider", "display_name", "registered_by"}
FoldReads == {"agent_id", "person_id", "external_provider", "display_name"}

(* The fold raises on a row that lacks a field: nothing is projected then.  *)
Rebuild ==
  /\ (\E a \in Agents : Registered(a)) => FoldReads \subseteq RegisteredFields
  /\ projected' = Len(grantRows)
  /\ UNCHANGED <<grantRows, reg, revoke, call, gatewayFaults>>

-----------------------------------------------------------------------------
Admin ==
  \/ \E a \in Agents, request \in Requests : register_agent(a, request)
  \/ \E a \in Agents : RegisterGrant(a) \/ RegisterFails(a)
  \/ \E r \in RevokeIds, a \in Agents : RevokeScan(r, a)
  \/ \E r \in RevokeIds : RevokeGrant(r) \/ RevokeFails(r)

AgentCalls ==
  \/ \E c \in CallIds, a \in Agents, t \in ToolSet : CallStart(c, a, t)
  \/ \E c \in CallIds :
       GateAccess(c) \/ GateCost(c) \/ Deny(c) \/ Work(c) \/ CallFails(c)

GatewayNext == Admin \/ AgentCalls \/ Rebuild

GatewaySpec == GatewayInit /\ [][GatewayNext]_gatewayVars /\ WF_gatewayVars(Rebuild)

-----------------------------------------------------------------------------
(* A finished revoke_agent ends the agent's access, as the projection and   *)
(* the gates see it: unless a registration still in flight wrote a grant     *)
(* after the scan, no call the agent starts later gets past the gates.       *)
RevokedStaysOut ==
  \A r \in RevokeIds, c \in CallIds :
    /\ revoke[r].pc = "done" /\ call[c].pc \in {"work", "answered"}
    /\ call[c].agent = revoke[r].agent /\ call[c].start >= revoke[r].end
    => \E i \in Rows(grantRows, "grant", call[c].agent) :
         i > revoke[r].at /\ grantRows[i].status = "active"

CallRows(c) ==
  {i \in 1 .. Len(grantRows) :
     grantRows[i].kind \notin {"registered", "grant"} /\ grantRows[i].call = c}

LeavesExactly(c, kinds) ==
  /\ {grantRows[i].kind : i \in CallRows(c)} = kinds
  /\ \A i, j \in CallRows(c) : grantRows[i].kind = grantRows[j].kind => i = j

(* The ledger tells how a call ended: an answer has left every cycle of its *)
(* tool behind exactly once and no denial, a refusal its denial and nothing  *)
(* else, and no call has both.                                               *)
TrailTellsOutcome ==
  \A c \in CallIds :
    /\ call[c].pc = "answered" => LeavesExactly(c, Cycles(call[c].tool))
    /\ call[c].pc = "refused" => LeavesExactly(c, {"denied"})

(* entries.py: the agent_id of a registration is "folded into                *)
(* projection_agents".                                                       *)
RegistrationsFolded ==
  \A a \in Agents :
    Registered(a) ~> (\E i \in Rows(grantRows, "registered", a) : i <= projected)

(* What an agent may do ends with its revocation, and what it did is told.   *)
GrantsStand == RevokedStaysOut /\ TrailTellsOutcome
=============================================================================
