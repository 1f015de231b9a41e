------------------------------ MODULE MCAgents ------------------------------
(* The agent gateway in one run: TLC starts the subscriptions, the grants   *)
(* and tools, the metadata of agents, the compounding reactivities over      *)
(* outcomes or over consumption, or the tenant gate, and the others stay as   *)
(* they are.                                                                *)
EXTENDS Subscriptions, AgentGateway, AgentMetadata, Compounding, TenantGate

VARIABLE part   \* the component that was started

(* An agent that reads a domain, alone or with a model budget of nothing.    *)
Grant(k, b) == [kind |-> k, target |-> "d1", budget |-> b]
GrantRequests ==
  {<<Grant("domain.read", 1)>>, <<Grant("domain.read", 1), Grant("model.access", 0)>>}

(* Good outcomes of one question, with and without an embedding, the query   *)
(* known or not; and a bad one whose embedding is close to theirs.           *)
Outcome(i, q, e, aq) ==
  [kind |-> "outcome", intent |-> i, quality |-> q, embedded |-> e, query |-> aq]
Outcomes ==
  {Outcome("p", "used_useful", FALSE, "q1"), Outcome("p", "used_useful", TRUE, ""),
   Outcome("r", "used", TRUE, "q1")}
Likeness == {"p", "r"} \X {"p", "r"}

(* Two agents and a person use a product; a gap waits.                       *)
Used(s, c) == [kind |-> "consumed", product |-> "d", surface |-> s, consumer |-> c]
Consumption ==
  {Used("mcp", "a"), Used("mcp", "b"), Used("web", "ana"), [kind |-> "tick"],
   [kind |-> "gap", target_kind |-> "none"]}

LookBack == [template |-> 1, product |-> 0, bad |-> 1, gap |-> 1, recommend |-> 1]
Threshold == [template |-> 2, product |-> 1, bad |-> 2, gap |-> 1, recommend |-> 2]

Mixes == {Outcomes, Consumption}

StartOne ==
  /\ part \in {"subscriptions", "grants", "metadata", "compounding", "tenants"}
  /\ Init /\ GatewayInit /\ MetadataInit /\ CompoundingInit /\ GateInit
  /\ part # "compounding" => inputs = Outcomes

StepOne ==
  \/ /\ part = "subscriptions" /\ Next
     /\ UNCHANGED <<part, gatewayVars, metadataVars, compoundingVars, gateVars>>
  \/ /\ part = "grants" /\ GatewayNext
     /\ UNCHANGED <<part, vars, metadataVars, compoundingVars, gateVars>>
  \/ /\ part = "metadata" /\ MetadataNext
     /\ UNCHANGED <<part, vars, gatewayVars, compoundingVars, gateVars>>
  \/ /\ part = "compounding" /\ CompoundingNext
     /\ UNCHANGED <<part, vars, gatewayVars, metadataVars, gateVars>>
  \/ /\ part = "tenants" /\ GateNext
     /\ UNCHANGED <<part, vars, gatewayVars, metadataVars, compoundingVars>>

allVars == <<part, vars, gatewayVars, metadataVars, compoundingVars, gateVars>>

OneSpec == StartOne /\ [][StepOne]_allVars

(* The grants and tools, with a projection builder that never stops trying.  *)
RebuildSpec ==
  /\ StartOne /\ part = "grants"
  /\ [][StepOne]_allVars /\ WF_allVars(
       /\ Rebuild
       /\ UNCHANGED <<part, vars, metadataVars, compoundingVars, gateVars>>)
=============================================================================
