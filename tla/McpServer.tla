------------------------------ MODULE McpServer ------------------------------
(***************************************************************************)
(* worm-core's own MCP server (mcp_server.py, mcp_tools/): what happens to a  *)
(* call between its bearer token and its audit row.  Every call reads the     *)
(* ledger for the caller's grants, reads it again for the caller's rate, does *)
(* its work with more reads or a write, and is then audited; other calls and  *)
(* other components write at each of those awaits.                           *)
(*                                                                          *)
(* Only execute rows are kept, without the fields no step looks at.          *)
(***************************************************************************)
EXTENDS Integers, Sequences, FiniteSets

CONSTANTS
  Persons, Roles, Domains,
  CallIds,     \* calls of one behaviour
  Tools,       \* the tools they may name
  Tokens,      \* persons whose token may be presented, "master" and "bad"
  Changes,     \* what other components may write
  History,     \* rows from before
  Ceiling,     \* rate_limit_per_min
  Window,      \* RATE_LIMIT_WINDOW_SECONDS, in steps of the clock
  MaxTime, MaxRows, MaxFaults    \* bounds

ASSUME McpAssumption ==
  /\ {Ceiling, Window, MaxTime, MaxRows, MaxFaults} \subseteq Nat
  /\ CallIds \cap {"other", "token", "dashboard"} = {}

(* The four roles of tenancy.py, and their order.                            *)
Level == [installer |-> 4, admin |-> 3, observer |-> 2, member |-> 1]

Outcomes == {"ok", "denied", "error"}

(* A role that is assigned, a domain that is granted and an outcome that is  *)
(* audited are of their kinds.                                              *)
Fits(r) ==
  /\ r.what = "assigned" => r.val \in Roles
  /\ r.what = "domain" => r.val \in Domains
  /\ r.what = "call" => r.val \in Outcomes

ASSUME RowsAssumption ==
  /\ "admin" \in Roles /\ Roles \subseteq DOMAIN Level
  /\ Len(History) <= MaxRows /\ History \in Seq({History[i] : i \in DOMAIN History})
  /\ \A i \in DOMAIN History : Fits(History[i]) /\ History[i].call \notin CallIds
  /\ \A r \in Changes : Fits(r)

VARIABLES
  ledger,   \* execute rows, oldest first
  now,      \* the clock
  call,     \* call[c]: where the call is and what it holds
  faults

vars == <<ledger, now, call, faults>>

WriteTools == {"propose_data_product", "propose_kpi", "confirm_proposal"}
AdminTools == WriteTools \cup {"read_audit_trail", "query_audit_trail"}
Anonymous == "none"
Row(what, of, by, val, c) ==
  [what |-> what, of |-> of, by |-> by, val |-> val, at |-> now, call |-> c]

Commit(r) == Len(ledger) < MaxRows /\ ledger' = Append(ledger, r)
Of(what, x) == {i \in DOMAIN ledger : ledger[i].what = what /\ ledger[i].of = x}

NotBegun ==
  [step |-> "none", tool |-> "none", token |-> "none", target |-> "none", signer |-> "none",
   caller |-> Anonymous, role |-> "none", domains |-> {}, outcome |-> "none", answer |-> {}, at |-> 0, begin |-> 0]

Init ==
  /\ ledger = History /\ now = 0 /\ faults = 0
  /\ call = [c \in CallIds |-> NotBegun]

-----------------------------------------------------------------------------
(* _person_exists_in_tenant: proposed, and never archived.                  *)
PersonExists(p) == Of("person", p) # {} /\ Of("archived", p) = {}

(* Fault: revocations are not looked at.                                    *)
EverAssigned(p) == {ledger[i].val : i \in Of("assigned", p)}

(* fold_role_grants: a revoked role stays revoked.                          *)
fold_role_grants(p) ==
  {ledger[i].val : i \in Of("assigned", p)} \ {ledger[i].val : i \in Of("revoked", p)}

tenancy_role_for(roles) ==
  IF roles = {} THEN "none"
  ELSE CHOOSE r \in roles : \A q \in roles : Level[q] <= Level[r]

(* Grants on a domain are never withdrawn; owners and contributors see it.   *)
domain_access_set(p) ==
  {ledger[i].val : i \in {j \in Of("domain", p) : ledger[j].by \in {"owner", "contributor"}}}

(* filter_rows_by_domain_access over the rows that have a domain.            *)
filter_rows(role, domains) ==
  LET items == {i \in DOMAIN ledger : ledger[i].what = "item"}
  IN CASE role \in {"admin", "installer", "observer"} -> items
       [] role = "member" -> {i \in items : ledger[i].val \in domains}
       [] OTHER -> {}

(* What check_rate_limit counts: answered and refused calls of the caller    *)
(* audited in the window before this call started.                          *)
Recent(c) ==
  {i \in DOMAIN ledger :
     /\ ledger[i].what = "call" /\ ledger[i].val \in {"ok", "denied"}
     /\ ledger[i].by = call[c].caller /\ ledger[i].at >= call[c].at - Window}

(* _find_proposal: the kind of what was proposed under that id.             *)
_find_proposal(x) ==
  {ledger[i].what : i \in {j \in DOMAIN ledger :
     ledger[j].what \in {"person", "source", "product", "kpi"} /\ ledger[j].of = x}}

(* fold_audit_trail: who confirmed x last, if anybody.                      *)
fold_audit_trail(x) ==
  LET confirms == Of("confirmed", x)
  IN {ledger[i].by : i \in {j \in confirms : \A k \in confirms : k <= j}}

-----------------------------------------------------------------------------
At(c, step) == call[c].step = step
Set(c, fields) ==
  call' = [call EXCEPT ![c] =
    [f \in DOMAIN @ |-> IF f \in DOMAIN fields THEN fields[f] ELSE @[f]]]
Audited(c, outcome) == Set(c, [step |-> "audit", outcome |-> outcome])

(* resolve_caller, before the first await: an unknown token belongs to nobody *)
(* and the master token to an administrator without a name.  query_ledger     *)
(* takes the master token only, resources and prompts look at none.           *)
Begin(c, tool, token, x, by) ==
  /\ At(c, "none")
  /\ LET open == tool \in {"resource", "prompt"}
         refused == ~open /\ (token = "bad" \/ (tool = "query_ledger" /\ token # "master"))
         step == IF refused THEN "audit"
                 ELSE IF open \/ tool = "query_ledger" THEN "work"
                 ELSE IF token = "master" THEN "limit" ELSE "authorize"
     IN Set(c, [step |-> step, tool |-> tool, token |-> token, target |-> x, signer |-> by,
                role |-> IF token = "master" THEN "admin" ELSE "none",
                outcome |-> IF refused THEN "denied" ELSE "none",
                at |-> now, begin |-> Len(ledger)])
  /\ UNCHANGED <<ledger, now, faults>>

(* authorize_caller: existence and grants from one read of the ledger.       *)
authorize_caller(c) ==
  /\ At(c, "authorize")
  /\ LET p == call[c].token
     IN IF PersonExists(p)
        THEN Set(c, [step |-> "limit", caller |-> p, domains |-> domain_access_set(p),
                     role |-> tenancy_role_for(fold_role_grants(p))])
        ELSE Audited(c, "denied")
  /\ UNCHANGED <<ledger, now, faults>>

(* check_rate_limit, and the role check of the tools for administrators.     *)
check_rate_limit(c) ==
  /\ At(c, "limit")
  /\ IF \/ Cardinality(Recent(c)) >= Ceiling
        \/ call[c].tool \in AdminTools /\ call[c].role \notin {"admin", "installer"}
     THEN Audited(c, "denied")
     ELSE Set(c, [step |-> "work"])
  /\ UNCHANGED <<ledger, now, faults>>

(* The tools that read once more and answer; a prompt is not audited.        *)
Answer(c) ==
  /\ At(c, "work") /\ call[c].tool \notin WriteTools
  /\ Set(c, [step |-> IF call[c].tool = "prompt" THEN "over" ELSE "audit", outcome |-> "ok",
             answer |-> CASE call[c].tool = "query" -> filter_rows(call[c].role, call[c].domains)
                          [] call[c].tool = "read_audit_trail" -> fold_audit_trail(call[c].target)
                          [] OTHER -> {}])
  /\ UNCHANGED <<ledger, now, faults>>

(* confirm_proposal looks the proposal up and, unless it is a person's, has   *)
(* nothing to write.                                                        *)
FindProposal(c) ==
  /\ At(c, "work") /\ call[c].tool = "confirm_proposal"
  /\ LET found == _find_proposal(call[c].target)
     IN IF found = {} \/ call[c].signer = "odd" THEN Audited(c, "error")
        ELSE IF "person" \in found THEN Set(c, [step |-> "write"])
        ELSE Audited(c, "ok")
  /\ UNCHANGED <<ledger, now, faults>>

Writes(c) ==
  \/ At(c, "work") /\ call[c].tool \in {"propose_data_product", "propose_kpi"}
  \/ At(c, "write")

Effect(c) ==
  CASE call[c].tool = "confirm_proposal" ->
         Row("confirmed", call[c].target, call[c].signer, "none", c)
    [] OTHER -> Row(IF call[c].tool = "propose_kpi" THEN "kpi" ELSE "product",
                    c, call[c].caller, "none", c)

(* The write of a write tool, which may raise.                              *)
Write(c) ==
  /\ Writes(c)
  /\ \/ Commit(Effect(c)) /\ Audited(c, "ok") /\ UNCHANGED faults
     \/ /\ faults < MaxFaults /\ faults' = faults + 1
        /\ Audited(c, "error") /\ UNCHANGED ledger
  /\ UNCHANGED now

(* A read of the ledger raises: only query_ledger audits that.               *)
FetchFails(c) ==
  /\ faults < MaxFaults /\ faults' = faults + 1
  /\ \/ At(c, "authorize") \/ At(c, "limit")
     \/ At(c, "work") /\ call[c].tool \notin WriteTools \ {"confirm_proposal"}
  /\ IF call[c].tool = "query_ledger" THEN Audited(c, "error") ELSE Set(c, [step |-> "lost"])
  /\ UNCHANGED <<ledger, now>>

(* audit: record_mcp_call, whose failure is logged and forgotten.            *)
audit(c) ==
  /\ At(c, "audit")
  /\ Set(c, [step |-> "over"])
  /\ \/ /\ Commit(Row("call", call[c].tool, call[c].caller, call[c].outcome, c))
        /\ UNCHANGED faults
     \/ faults < MaxFaults /\ faults' = faults + 1 /\ UNCHANGED ledger
  /\ UNCHANGED now

-----------------------------------------------------------------------------
(* The dashboard has a token issued: the row counts as a call of the person.  *)
post_mcp_tokens(p) ==
  /\ Commit(Row("call", "emit_mcp_token_issued", p, "ok", "token"))
  /\ UNCHANGED <<now, call, faults>>

(* The dashboard registers a server of a third party as a source.            *)
post_mcp_preset ==
  /\ Of("source", "preset") = {}
  /\ Commit(Row("source", "preset", Anonymous, "none", "dashboard"))
  /\ UNCHANGED <<now, call, faults>>

(* People, roles and items of other components.                             *)
Change ==
  /\ \E r \in Changes : Commit(Row(r.what, r.of, r.by, r.val, "other"))
  /\ UNCHANGED <<now, call, faults>>

Tick == now < MaxTime /\ now' = now + 1 /\ UNCHANGED <<ledger, call, faults>>

Targets(tool) == IF tool \in {"confirm_proposal", "read_audit_trail"}
                 THEN Persons \cup {"preset"} ELSE {"none"}
Signers(tool) == IF tool = "confirm_proposal" THEN Persons \cup {"odd"} ELSE {"none"}

Next ==
  \/ \E c \in CallIds :
       \/ \E tool \in Tools, token \in Tokens :
            \E x \in Targets(tool), by \in Signers(tool) : Begin(c, tool, token, x, by)
       \/ authorize_caller(c) \/ check_rate_limit(c) \/ Answer(c) \/ FindProposal(c)
       \/ Write(c) \/ FetchFails(c) \/ audit(c)
  \/ \E p \in Persons \cap Tokens : post_mcp_tokens(p)
  \/ ("confirm_proposal" \in Tools /\ post_mcp_preset) \/ Change \/ Tick

Spec == Init /\ [][Next]_vars

-----------------------------------------------------------------------------
TypeOK ==
  /\ now \in 0 .. MaxTime /\ Len(ledger) <= MaxRows /\ faults \in 0 .. MaxFaults
  /\ \A c \in CallIds :
       /\ call[c].step \in {"none", "authorize", "limit", "work", "write", "audit", "over", "lost"}
       /\ call[c].outcome \in {"none", "ok", "denied", "error"}
       /\ call[c].role \in Roles \cup {"none"} /\ call[c].domains \subseteq Domains

CallRows(c) == {i \in Of("call", call[c].tool) : ledger[i].call = c}
Effects(c) == {i \in DOMAIN ledger : ledger[i].call = c} \ CallRows(c)

(* A call leaves at most one audit row and one effect, the effect first and   *)
(* under an "ok"; without faults every call but a prompt leaves its row, and  *)
(* an "ok" of a write tool stands for an effect, but for the confirmation of   *)
(* what was no person when it began.                                        *)
AuditTells ==
  \A c \in CallIds :
    /\ Cardinality(CallRows(c)) <= 1 /\ Cardinality(Effects(c)) <= 1
    /\ \A i \in Effects(c), j \in CallRows(c) : i < j /\ ledger[j].val = "ok"
    /\ faults = 0 /\ At(c, "over") /\ call[c].tool # "prompt" => CallRows(c) # {}
    /\ \A j \in CallRows(c) :
         ledger[j].val = "ok" /\ call[c].tool \in WriteTools =>
           \/ Effects(c) # {}
           \/ /\ call[c].tool = "confirm_proposal"
              /\ \A i \in Of("person", call[c].target) : i > call[c].begin

(* What a call writes is written for the master token, or for a person who    *)
(* was an administrator, and had not been archived, at some moment between     *)
(* the beginning of the call and the write.                                  *)
WritersInForce ==
  \A c \in CallIds : \A i \in Effects(c) :
    \/ call[c].token = "master"
    \/ /\ \E a \in Of("assigned", call[c].token) :
            /\ a < i /\ ledger[a].val \in {"admin", "installer"}
            /\ \A r \in Of("revoked", call[c].token) :
                 ledger[r].val = ledger[a].val => r < a \/ r > call[c].begin
       /\ \A x \in Of("archived", call[c].token) : x > call[c].begin

(* A call that was answered had begun with fewer calls of that caller on      *)
(* record in its window than the limit.                                     *)
RateKept ==
  \A c \in CallIds :
    call[c].outcome = "ok" /\ call[c].tool \notin {"query_ledger", "resource", "prompt"} =>
      Cardinality({i \in 1 .. call[c].begin :
                     /\ ledger[i].what = "call" /\ ledger[i].by = call[c].caller
                     /\ ledger[i].val # "error" /\ ledger[i].at >= call[c].at - Window}) < Ceiling

(* A member is shown what lies in domains granted to it, and all of that      *)
(* which was there, with the grant, when it asked.                           *)
SeesItsDomains ==
  \A c \in CallIds :
    call[c].tool = "query" /\ call[c].outcome = "ok" /\ call[c].role = "member" =>
      LET granted(i) == {g \in Of("domain", call[c].token) :
                           ledger[g].val = ledger[i].val /\ ledger[g].by \in {"owner", "contributor"}}
      IN \A i \in {j \in DOMAIN ledger : ledger[j].what = "item"} :
           /\ i \in call[c].answer => granted(i) # {}
           /\ i <= call[c].begin /\ (\E g \in granted(i) : g <= call[c].begin) => i \in call[c].answer

(* An audit trail that was asked for after a person had been confirmed by     *)
(* call names that signer, or one whose confirmation came later.             *)
TrailNamesSigner ==
  \A c, d \in CallIds :
    /\ call[c].tool = "read_audit_trail" /\ call[c].outcome = "ok"
    /\ \E i \in Effects(d) : /\ ledger[i].what = "confirmed" /\ ledger[i].of = call[c].target
                             /\ i <= call[c].begin
    => call[c].answer # {}

(* A call's audit row, its effect, its caller's grants and its caller's rate   *)
(* agree, whatever is written between its reads (mcp_tools/).                *)
CallsStand ==
  AuditTells /\ WritersInForce /\ RateKept /\ SeesItsDomains /\ TrailNamesSigner
=============================================================================
