--------------------------- MODULE McpServerProofs ---------------------------
(***************************************************************************)
(* Proofs about McpServer, for any persons, calls, tools, tokens, writes of  *)
(* other components, limits and failures: a call leaves one effect and one   *)
(* audit row that tell the same, writes only under a role that was held, is  *)
(* answered only below its caller's rate, shows a member its domains, and a  *)
(* trail that is asked for after a confirmation names a signer.              *)
(***************************************************************************)
EXTENDS McpServer, SequenceTheorems, FiniteSetTheorems, WellFoundedInduction, TLAPS

(***************************************************************************)
(* The inductive invariant.                                                 *)
(***************************************************************************)
Fields == DOMAIN NotBegun

(* The rows form a sequence, each of its kind; a call keeps its fields.      *)
Base ==
  /\ ledger \in Seq({ledger[i] : i \in DOMAIN ledger}) /\ Len(ledger) <= MaxRows
  /\ \A i \in DOMAIN ledger : Fits(ledger[i])
  /\ now \in 0 .. MaxTime /\ faults \in 0 .. MaxFaults
  /\ DOMAIN call = CallIds
  /\ \A c \in CallIds : DOMAIN call[c] = Fields

(* Tools that no person's token and no rate limit stands before.             *)
Exempt == {"query_ledger", "resource", "prompt"}

(* A call that is past the gates, or past authorize_caller at least.         *)
Passed(c) == call[c].step \in {"work", "write"} \/ call[c].outcome = "ok"
Authorized(c) == call[c].step = "limit" \/ Passed(c)

Mine(c) == {i \in DOMAIN ledger : ledger[i].call = c}

(* Where a call is, what it knows of itself and what it has left behind.     *)
Progress(c) ==
  /\ call[c].step \in {"none", "authorize", "limit", "work", "write", "audit", "over", "lost"}
  /\ call[c].step \in {"audit", "over"} => call[c].outcome \in Outcomes
  /\ call[c].step \notin {"audit", "over"} => call[c].outcome = "none" /\ Mine(c) = {}
  /\ call[c].step = "write" => call[c].tool = "confirm_proposal"
  /\ call[c].step \in {"authorize", "limit"} => call[c].tool \notin Exempt
  /\ call[c].step = "authorize" => call[c].token # "master"
  /\ call[c].begin \in 0 .. Len(ledger)
  /\ call[c].step = "none" => call[c].answer = {}
  /\ call[c].step # "none" /\ call[c].token = "master" => call[c].role = "admin"
  /\ call[c].role \in Roles \cup {"none"} /\ call[c].domains \subseteq Domains

(* The rows of a call.                                                      *)
Trail(c) ==
  /\ call[c].step = "audit" => CallRows(c) = {}
  /\ \A i, j \in CallRows(c) : i = j
  /\ \A i, j \in Effects(c) : i = j
  /\ Effects(c) # {} => call[c].tool \in WriteTools /\ call[c].outcome = "ok"
  /\ \A i \in Effects(c), j \in CallRows(c) : i < j
  /\ \A j \in CallRows(c) : ledger[j].val = call[c].outcome
  /\ faults = 0 /\ call[c].step = "over" /\ call[c].tool # "prompt" => CallRows(c) # {}
  /\ call[c].outcome = "ok" /\ call[c].tool \in WriteTools =>
       \/ Effects(c) # {}
       \/ /\ call[c].tool = "confirm_proposal"
          /\ \A i \in Of("person", call[c].target) : i > call[c].begin

(* The grants of a caller were in force at some moment since the call began. *)
RoleHeld(c, role) ==
  \E a \in Of("assigned", call[c].token) :
    /\ ledger[a].val = role
    /\ \A r \in Of("revoked", call[c].token) : ledger[r].val = role => r > call[c].begin

GrantsHeld(c) ==
  /\ \A x \in Of("archived", call[c].token) : x > call[c].begin
  /\ call[c].role # "none" => RoleHeld(c, call[c].role)
  /\ \A v \in call[c].domains : \E g \in Of("domain", call[c].token) :
       ledger[g].val = v /\ ledger[g].by \in {"owner", "contributor"}
  /\ \A g \in Of("domain", call[c].token) :
       g <= call[c].begin /\ ledger[g].by \in {"owner", "contributor"} =>
         ledger[g].val \in call[c].domains

Holds(c) ==
  Authorized(c) /\ call[c].token # "master" /\ call[c].tool \notin Exempt => GrantsHeld(c)

(* Administrators' tools are past the gates for administrators only.         *)
AdminOnly(c) ==
  Passed(c) /\ call[c].tool \in AdminTools => call[c].role \in {"admin", "installer"}

(* What stood on record for the caller when the call began.                 *)
Before(c) ==
  {i \in 1 .. call[c].begin :
     /\ ledger[i].what = "call" /\ ledger[i].by = call[c].caller
     /\ ledger[i].val # "error" /\ ledger[i].at >= call[c].at - Window}

BelowCeiling(c) ==
  Passed(c) /\ call[c].tool \notin Exempt => Cardinality(Before(c)) < Ceiling

WriterInForce(c) ==
  \A i \in Effects(c) :
    \/ call[c].token = "master"
    \/ /\ \E a \in Of("assigned", call[c].token) :
            /\ a < i /\ ledger[a].val \in {"admin", "installer"}
            /\ \A r \in Of("revoked", call[c].token) :
                 ledger[r].val = ledger[a].val => r < a \/ r > call[c].begin
       /\ \A x \in Of("archived", call[c].token) : x > call[c].begin

(* The domains by which an answer was filtered.                              *)
Granted(c, i) ==
  {g \in Of("domain", call[c].token) :
     ledger[g].val = ledger[i].val /\ ledger[g].by \in {"owner", "contributor"}}

Sees(c) ==
  /\ call[c].tool = "query" => call[c].answer \subseteq DOMAIN ledger
  /\ call[c].tool = "query" /\ call[c].outcome = "ok" /\ call[c].role = "member" =>
       \A i \in {j \in DOMAIN ledger : ledger[j].what = "item"} :
         /\ i \in call[c].answer => Granted(c, i) # {}
         /\ i <= call[c].begin /\ (\E g \in Granted(c, i) : g <= call[c].begin) => i \in call[c].answer

NamesSigner(c) ==
  call[c].tool = "read_audit_trail" /\ call[c].outcome = "ok"
  /\ (\E i \in Of("confirmed", call[c].target) : i <= call[c].begin) => call[c].answer # {}

CallInv(c) ==
  /\ Progress(c) /\ Trail(c) /\ Holds(c) /\ AdminOnly(c) /\ BelowCeiling(c)
  /\ WriterInForce(c) /\ Sees(c) /\ NamesSigner(c)

IInv == Base /\ \A c \in CallIds : CallInv(c)

-----------------------------------------------------------------------------
(***************************************************************************)
(* Numbers, sequences and calls.                                            *)
(***************************************************************************)
LEMMA Least == ASSUME NEW T \in SUBSET Nat, T # {} PROVE \E x \in T : \A y \in T : x <= y
<1> DEFINE R == {xy \in Nat \X Nat : xy[1] < xy[2]}
<1>1. PICK x \in T : \A y \in T : ~ (<<y, x>> \in R)
  <2>1. IsWellFoundedOn(R, Nat) BY NatLessThanWellFounded DEF OpToRel
  <2> HIDE DEF R
  <2> QED BY <2>1, WFMin
<1>2. ASSUME NEW y \in T PROVE x <= y
  <2>1. <<y, x>> \in Nat \X Nat /\ x \in Nat /\ y \in Nat OBVIOUS
  <2>2. ~ (y < x) BY <1>1, <2>1
  <2> QED BY <2>1, <2>2
<1> QED BY <1>2

LEMMA Latest ==
  ASSUME NEW n \in Nat, NEW T \in SUBSET (1 .. n), T # {}
  PROVE  \E x \in T : \A y \in T : y <= x
<1> DEFINE D == {n - x : x \in T}
<1>0. \A x \in T : x \in Nat /\ x <= n OBVIOUS
<1>1. D \in SUBSET Nat /\ D # {}
  <2>1. \A x \in T : n - x \in Nat BY <1>0
  <2> QED BY <2>1
<1>2. PICK d \in D : \A e \in D : d <= e
  <2> HIDE DEF D
  <2> QED BY <1>1, Least
<1>3. PICK x \in T : d = n - x BY <1>2
<1>4. \A y \in T : n - x <= n - y BY <1>2, <1>3
<1> QED BY <1>0, <1>4

(* A sequence is one of its own rows.                                       *)
LEMMA Ranged ==
  ASSUME NEW S, NEW t \in Seq(S)
  PROVE  /\ Len(t) \in Nat /\ DOMAIN t = 1 .. Len(t)
         /\ t \in Seq({t[i] : i \in DOMAIN t})
<1>1. Len(t) \in Nat /\ t \in [1 .. Len(t) -> S] /\ DOMAIN t = 1 .. Len(t) BY LenProperties
<1>2. ASSUME NEW n \in Nat, NEW U, t \in [1 .. n -> U] PROVE t \in Seq(U) BY <1>2
<1>3. t \in [1 .. Len(t) -> {t[i] : i \in DOMAIN t}] BY <1>1
<1> QED BY <1>1, <1>2, <1>3

(* A sequence grown by one row.                                             *)
LEMMA Appended ==
  ASSUME NEW s, s \in Seq({s[i] : i \in DOMAIN s}), NEW r, NEW t, t = Append(s, r)
  PROVE  /\ Len(s) \in Nat /\ DOMAIN s = 1 .. Len(s)
         /\ t \in Seq({t[i] : i \in DOMAIN t})
         /\ Len(t) = Len(s) + 1 /\ DOMAIN t = 1 .. Len(s) + 1
         /\ \A i \in 1 .. Len(s) : t[i] = s[i]
         /\ t[Len(s) + 1] = r
<1> DEFINE R == {s[i] : i \in DOMAIN s}
           S == R \cup {r}
<1>1. s \in Seq(S) BY SeqMonotonic
<1>2. r \in S OBVIOUS
<1> HIDE DEF S
<1>3. /\ t \in Seq(S) /\ Len(t) = Len(s) + 1
      /\ \A i \in 1 .. Len(s) : t[i] = s[i]
      /\ t[Len(s) + 1] = r
  BY <1>1, <1>2, AppendProperties
<1> QED BY <1>1, <1>3, Ranged

(* What Set leaves of a call.                                               *)
LEMMA SetTo ==
  ASSUME DOMAIN call = CallIds, \A d \in CallIds : DOMAIN call[d] = Fields,
         NEW c \in CallIds, NEW fields, Set(c, fields)
  PROVE  /\ DOMAIN call' = CallIds /\ \A d \in CallIds : DOMAIN call'[d] = Fields
         /\ \A d \in CallIds : d # c => call'[d] = call[d]
         /\ call'[c] = [f \in Fields |-> IF f \in DOMAIN fields THEN fields[f] ELSE call[c][f]]
BY DEF Set

LEMMA FieldNames ==
  Fields = {"step", "tool", "token", "target", "signer", "caller", "role", "domains",
            "outcome", "answer", "at", "begin"}
BY DEF Fields, NotBegun

-----------------------------------------------------------------------------
(***************************************************************************)
(* What rows written later leave as it is.                                  *)
(***************************************************************************)

(* The ledger only grows.                                                   *)
Longer ==
  /\ Len(ledger) \in Nat /\ DOMAIN ledger = 1 .. Len(ledger)
  /\ Len(ledger') \in Nat /\ DOMAIN ledger' = 1 .. Len(ledger')
  /\ Len(ledger) <= Len(ledger')
  /\ \A i \in 1 .. Len(ledger) : ledger'[i] = ledger[i]

(* What it grows by is not the call's.                                      *)
ByOthers(c) == \A i \in 1 .. Len(ledger') : i > Len(ledger) => ledger'[i].call # c

LEMMA Commits ==
  ASSUME Base, NEW r, Fits(r), Commit(r)
  PROVE  /\ Longer /\ Len(ledger') = Len(ledger) + 1 /\ ledger'[Len(ledger) + 1] = r
         /\ ledger' \in Seq({ledger'[i] : i \in DOMAIN ledger'}) /\ Len(ledger') <= MaxRows
         /\ \A i \in DOMAIN ledger' : Fits(ledger'[i])
<1>0. MaxRows \in Nat BY McpAssumption
<1>1. /\ Len(ledger) \in Nat /\ DOMAIN ledger = 1 .. Len(ledger)
      /\ ledger' \in Seq({ledger'[i] : i \in DOMAIN ledger'})
      /\ Len(ledger') = Len(ledger) + 1 /\ DOMAIN ledger' = 1 .. Len(ledger) + 1
      /\ \A i \in 1 .. Len(ledger) : ledger'[i] = ledger[i]
      /\ ledger'[Len(ledger) + 1] = r
  <2>1. ledger \in Seq({ledger[i] : i \in DOMAIN ledger}) BY DEF Base
  <2>2. ledger' = Append(ledger, r) BY DEF Commit
  <2> QED BY <2>1, <2>2, Appended
<1>2. \A i \in DOMAIN ledger' : Fits(ledger'[i])
  <2>1. \A i \in 1 .. Len(ledger) : Fits(ledger[i]) BY <1>1 DEF Base
  <2>2. ASSUME NEW i \in 1 .. Len(ledger) + 1 PROVE Fits(ledger'[i])
    <3>1. i \in 1 .. Len(ledger) \/ i = Len(ledger) + 1 BY <1>1
    <3>2. CASE i \in 1 .. Len(ledger)
      <4>1. ledger'[i] = ledger[i] /\ Fits(ledger[i]) BY <3>2, <1>1, <2>1
      <4> QED BY <4>1
    <3>3. CASE i = Len(ledger) + 1 BY <3>3, <1>1
    <3> QED BY <3>1, <3>2, <3>3
  <2> QED BY <1>1, <2>2
<1>3. Longer BY <1>1 DEF Longer
<1>4. Len(ledger') <= MaxRows BY <1>0, <1>1 DEF Commit
<1> QED BY <1>1, <1>2, <1>3, <1>4

LEMMA Stays ==
  ASSUME Base, UNCHANGED ledger
  PROVE  /\ Longer /\ \A c : ByOthers(c)
         /\ ledger' \in Seq({ledger'[i] : i \in DOMAIN ledger'}) /\ Len(ledger') <= MaxRows
         /\ \A i \in DOMAIN ledger' : Fits(ledger'[i])
<1>1. Len(ledger) \in Nat /\ DOMAIN ledger = 1 .. Len(ledger)
  <2>1. ledger \in Seq({ledger[i] : i \in DOMAIN ledger}) BY DEF Base
  <2> QED BY <2>1, LenProperties
<1>2. \A i \in DOMAIN ledger' : Fits(ledger'[i]) BY DEF Base
<1> QED BY <1>1, <1>2 DEF Base, Longer, ByOthers

LEMMA SameRows ==
  ASSUME Longer, NEW c \in CallIds, ByOthers(c), call'[c].tool = call[c].tool
  PROVE  /\ Mine(c)' = Mine(c) /\ CallRows(c)' = CallRows(c) /\ Effects(c)' = Effects(c)
         /\ CallRows(c) \subseteq 1 .. Len(ledger) /\ Effects(c) \subseteq 1 .. Len(ledger)
         /\ \A i \in CallRows(c) \cup Effects(c) : ledger'[i] = ledger[i]
<1>1. Mine(c)' = Mine(c)
  BY DEF Longer, ByOthers, Mine
<1>2. CallRows(c)' = CallRows(c)
  BY DEF Longer, ByOthers, CallRows, Of
<1>3. Effects(c)' = Effects(c)
  BY <1>1, <1>2 DEF Effects, Mine
<1>4. CallRows(c) \subseteq 1 .. Len(ledger) /\ Effects(c) \subseteq 1 .. Len(ledger)
  BY DEF Longer, CallRows, Effects, Of
<1> QED BY <1>1, <1>2, <1>3, <1>4 DEF Longer

LEMMA GrantsStay ==
  ASSUME Longer, NEW c \in CallIds, call[c].begin \in 0 .. Len(ledger), GrantsHeld(c),
         call'[c].token = call[c].token, call'[c].begin = call[c].begin,
         call'[c].role = call[c].role, call'[c].domains = call[c].domains
  PROVE  GrantsHeld(c)'
<1>1. \A x \in Of("archived", call[c].token)' : x > call'[c].begin
  BY DEF Longer, GrantsHeld, Of
<1>2. call'[c].role # "none" => RoleHeld(c, call[c].role)'
  BY DEF Longer, GrantsHeld, RoleHeld, Of
<1>3. \A v \in call'[c].domains : \E g \in Of("domain", call[c].token)' :
        ledger'[g].val = v /\ ledger'[g].by \in {"owner", "contributor"}
  BY DEF Longer, GrantsHeld, Of
<1>4. \A g \in Of("domain", call[c].token)' :
        g <= call'[c].begin /\ ledger'[g].by \in {"owner", "contributor"} =>
          ledger'[g].val \in call'[c].domains
  BY DEF Longer, GrantsHeld, Of
<1> QED BY <1>1, <1>2, <1>3, <1>4 DEF GrantsHeld, RoleHeld

LEMMA BeforeStays ==
  ASSUME Longer, NEW c \in CallIds, call[c].begin \in 0 .. Len(ledger),
         call'[c].begin = call[c].begin, call'[c].caller = call[c].caller,
         call'[c].at = call[c].at
  PROVE  Before(c)' = Before(c)
BY DEF Longer, Before

LEMMA WriterStays ==
  ASSUME Longer, NEW c \in CallIds, call[c].begin \in 0 .. Len(ledger),
         Effects(c)' = Effects(c), WriterInForce(c), call'[c].token = call[c].token, call'[c].begin = call[c].begin
  PROVE  WriterInForce(c)'
<1> SUFFICES ASSUME NEW i \in Effects(c)', call'[c].token # "master"
             PROVE  /\ \E a \in Of("assigned", call[c].token)' :
                        /\ a < i /\ ledger'[a].val \in {"admin", "installer"}
                        /\ \A r \in Of("revoked", call[c].token)' :
                             ledger'[r].val = ledger'[a].val => r < a \/ r > call[c].begin
                    /\ \A x \in Of("archived", call[c].token)' : x > call[c].begin
  BY DEF WriterInForce, Of
<1>1. i \in Effects(c) OBVIOUS
<1>2. PICK a \in Of("assigned", call[c].token) :
        /\ a < i /\ ledger[a].val \in {"admin", "installer"}
        /\ \A r \in Of("revoked", call[c].token) :
             ledger[r].val = ledger[a].val => r < a \/ r > call[c].begin
  BY <1>1 DEF WriterInForce
<1>3. \A x \in Of("archived", call[c].token) : x > call[c].begin
  BY <1>1 DEF WriterInForce
<1>4. a \in Of("assigned", call[c].token)' /\ ledger'[a] = ledger[a] BY <1>2 DEF Longer, Of
<1>5. \A r \in Of("revoked", call[c].token)' :
        ledger'[r].val = ledger'[a].val => r < a \/ r > call[c].begin
  BY <1>2, <1>4 DEF Longer, Of
<1>6. \A x \in Of("archived", call[c].token)' : x > call[c].begin BY <1>3 DEF Longer, Of
<1> QED BY <1>2, <1>4, <1>5, <1>6

LEMMA SeesStay ==
  ASSUME Longer, NEW c \in CallIds, call[c].begin \in 0 .. Len(ledger), Sees(c),
         call'[c].tool = call[c].tool, call'[c].token = call[c].token,
         call'[c].begin = call[c].begin, call'[c].role = call[c].role,
         call'[c].answer = call[c].answer, call'[c].outcome = call[c].outcome
  PROVE  Sees(c)'
<1>1. call'[c].tool = "query" => call'[c].answer \subseteq DOMAIN ledger'
  BY DEF Longer, Sees
<1>2. ASSUME call'[c].tool = "query", call'[c].outcome = "ok", call'[c].role = "member",
             NEW i \in DOMAIN ledger', ledger'[i].what = "item"
      PROVE  /\ i \in call'[c].answer => Granted(c, i)' # {}
             /\ i <= call'[c].begin /\ (\E g \in Granted(c, i)' : g <= call'[c].begin)
                  => i \in call'[c].answer
  <2>1. call[c].answer \subseteq 1 .. Len(ledger) BY <1>2 DEF Sees, Longer
  <2>2. i \in 1 .. Len(ledger) =>
          /\ i \in call[c].answer => Granted(c, i) # {}
          /\ i <= call[c].begin /\ (\E g \in Granted(c, i) : g <= call[c].begin) => i \in call[c].answer
    BY <1>2 DEF Sees, Longer
  <2>3. i \in 1 .. Len(ledger) => Granted(c, i) \subseteq Granted(c, i)'
    BY DEF Longer, Granted, Of
  <2>4. i \in 1 .. Len(ledger) => \A g \in Granted(c, i)' : g <= call[c].begin => g \in Granted(c, i)
    BY DEF Longer, Granted, Of
  <2>5. i \in call'[c].answer => Granted(c, i)' # {} BY <2>1, <2>2, <2>3
  <2>6. i <= call'[c].begin => i \in 1 .. Len(ledger) BY DEF Longer
  <2> QED BY <2>2, <2>4, <2>5, <2>6
<1> QED BY <1>1, <1>2 DEF Sees

LEMMA SignerStays ==
  ASSUME Longer, NEW c \in CallIds, call[c].begin \in 0 .. Len(ledger), NamesSigner(c),
         call'[c].tool = call[c].tool, call'[c].target = call[c].target,
         call'[c].begin = call[c].begin,
         call'[c].answer = call[c].answer, call'[c].outcome = call[c].outcome
  PROVE  NamesSigner(c)'
BY DEF Longer, NamesSigner, Of

(* faults are counted and never forgotten.                                  *)
FaultsCount == faults \in Nat /\ faults' \in Nat /\ faults <= faults'

LEMMA TrailStays ==
  ASSUME Longer, NEW c \in CallIds, call[c].begin \in 0 .. Len(ledger), ByOthers(c),
         FaultsCount, Trail(c), call'[c] = call[c]
  PROVE  Trail(c)'
<1>1. /\ CallRows(c)' = CallRows(c) /\ Effects(c)' = Effects(c)
      /\ \A i \in CallRows(c) \cup Effects(c) : ledger'[i] = ledger[i]
  BY SameRows
<1>2. (\A i \in Of("person", call[c].target) : i > call[c].begin)
        => \A i \in Of("person", call[c].target)' : i > call[c].begin
  BY DEF Longer, Of
<1>3. faults' = 0 => faults = 0 BY DEF FaultsCount
<1>4. \A i \in CallRows(c)' : ledger'[i].val = call'[c].outcome BY <1>1 DEF Trail
<1>5. (faults = 0 /\ call[c].step = "over" /\ call[c].tool # "prompt" => CallRows(c) # {})'
  BY <1>1, <1>3 DEF Trail
<1>6. (call[c].outcome = "ok" /\ call[c].tool \in WriteTools =>
         \/ Effects(c) # {}
         \/ /\ call[c].tool = "confirm_proposal"
            /\ \A i \in Of("person", call[c].target) : i > call[c].begin)'
  BY <1>1, <1>2 DEF Trail, WriteTools, Of
<1> QED BY <1>1, <1>4, <1>5, <1>6 DEF Trail, WriteTools

LEMMA Untouched ==
  ASSUME Longer, NEW c \in CallIds, ByOthers(c), FaultsCount, call'[c] = call[c], CallInv(c)
  PROVE  CallInv(c)'
<1>1. call[c].begin \in 0 .. Len(ledger) BY DEF CallInv, Progress
<1>2. Progress(c)'
  <2>1. Mine(c)' = Mine(c) BY SameRows
  <2>2. call[c].begin \in 0 .. Len(ledger') BY <1>1 DEF Longer
  <2> QED BY <2>1, <2>2 DEF CallInv, Progress
<1>3. Trail(c)' BY <1>1, TrailStays DEF CallInv
<1>4. Holds(c)'
  <2>1. GrantsHeld(c) => GrantsHeld(c)' BY <1>1, GrantsStay
  <2> QED BY <2>1 DEF CallInv, Holds, Authorized, Passed
<1>5. AdminOnly(c)' BY DEF CallInv, AdminOnly, Passed
<1>6. BelowCeiling(c)'
  <2>1. Before(c)' = Before(c) BY <1>1, BeforeStays
  <2> QED BY <2>1 DEF CallInv, BelowCeiling, Passed
<1>7. WriterInForce(c)'
  <2>1. Effects(c)' = Effects(c) BY SameRows
  <2> QED BY <1>1, <2>1, WriterStays DEF CallInv
<1>8. Sees(c)' BY <1>1, SeesStay DEF CallInv
<1>9. NamesSigner(c)' BY <1>1, SignerStays DEF CallInv
<1> QED BY <1>2, <1>3, <1>4, <1>5, <1>6, <1>7, <1>8, <1>9 DEF CallInv

-----------------------------------------------------------------------------
(***************************************************************************)
(* The steps of a call.                                                     *)
(***************************************************************************)

(* What a call keeps from its beginning to its end.                         *)
SameAsked(c) ==
  /\ call'[c].tool = call[c].tool /\ call'[c].token = call[c].token
  /\ call'[c].target = call[c].target /\ call'[c].begin = call[c].begin
  /\ call'[c].at = call[c].at

SameCaller(c) ==
  /\ call'[c].caller = call[c].caller /\ call'[c].role = call[c].role
  /\ call'[c].domains = call[c].domains

LEMMA Moves ==
  ASSUME Base, NEW c \in CallIds, NEW step, Set(c, [step |-> step])
  PROVE  /\ call'[c].step = step /\ SameAsked(c) /\ SameCaller(c)
         /\ call'[c].outcome = call[c].outcome /\ call'[c].answer = call[c].answer
<1>1. call'[c] = [f \in Fields |-> IF f \in {"step"} THEN [step |-> step][f] ELSE call[c][f]]
  BY SetTo DEF Base
<1> QED BY <1>1, FieldNames DEF SameAsked, SameCaller

LEMMA Audits ==
  ASSUME Base, NEW c \in CallIds, NEW outcome, Audited(c, outcome)
  PROVE  /\ call'[c].step = "audit" /\ SameAsked(c) /\ SameCaller(c)
         /\ call'[c].outcome = outcome /\ call'[c].answer = call[c].answer
<1>1. call'[c] = [f \in Fields |-> IF f \in {"step", "outcome"}
                                   THEN [step |-> "audit", outcome |-> outcome][f] ELSE call[c][f]]
  BY SetTo DEF Base, Audited
<1> QED BY <1>1, FieldNames DEF SameAsked, SameCaller

(* A call that is audited with a refusal or an error has written nothing and *)
(* is owed nothing.                                                         *)
LEMMA Refused ==
  ASSUME Base, NEW c \in CallIds, CallInv(c), UNCHANGED ledger,
         call[c].step \in {"authorize", "limit", "work", "write"},
         \/ call'[c].step = "audit" /\ call'[c].outcome \in {"denied", "error"}
         \/ call'[c].step = "lost" /\ call'[c].outcome = "none",
         SameAsked(c), SameCaller(c), call'[c].answer = call[c].answer
  PROVE  CallInv(c)'
<1>1. Longer /\ ByOthers(c) BY Stays
<1>2. Mine(c) = {} /\ Mine(c)' = {} /\ call[c].begin \in 0 .. Len(ledger)
      /\ CallRows(c)' = {} /\ Effects(c)' = {}
  <2>1. Mine(c) = {} /\ CallRows(c) \subseteq Mine(c) /\ Effects(c) \subseteq Mine(c)
    BY DEF CallInv, Progress, CallRows, Effects, Mine, Of
  <2>2. Mine(c)' = Mine(c) /\ CallRows(c)' = CallRows(c) /\ Effects(c)' = Effects(c)
    BY <1>1, SameRows DEF SameAsked
  <2> QED BY <2>1, <2>2 DEF CallInv, Progress
<1>3. Progress(c)'
  BY <1>2 DEF CallInv, Progress, SameAsked, SameCaller, Outcomes
<1>4. Trail(c)' BY <1>2 DEF Trail
<1>5. Holds(c)' /\ AdminOnly(c)' /\ BelowCeiling(c)'
  BY DEF Holds, AdminOnly, BelowCeiling, Authorized, Passed
<1>6. WriterInForce(c)' BY <1>2 DEF WriterInForce
<1>7. Sees(c)' BY DEF CallInv, Sees, SameAsked
<1>8. NamesSigner(c)' BY DEF NamesSigner
<1> QED BY <1>3, <1>4, <1>5, <1>6, <1>7, <1>8 DEF CallInv

(* The beginning: nothing written, nothing held, nothing answered.           *)
LEMMA BeginStep ==
  ASSUME Base, NEW c \in CallIds, CallInv(c), NEW tool, NEW token, NEW x, NEW by,
         Begin(c, tool, token, x, by)
  PROVE  CallInv(c)'
<1> DEFINE open == tool \in {"resource", "prompt"}
           refused == ~open /\ (token = "bad" \/ (tool = "query_ledger" /\ token # "master"))
<1>1. PICK step :
        step = IF refused THEN "audit"
               ELSE IF open \/ tool = "query_ledger" THEN "work"
               ELSE IF token = "master" THEN "limit" ELSE "authorize"
  OBVIOUS
<1>2. /\ call'[c].step = step /\ call'[c].tool = tool /\ call'[c].token = token
      /\ call'[c].role = (IF token = "master" THEN "admin" ELSE "none")
      /\ call'[c].outcome = (IF refused THEN "denied" ELSE "none")
      /\ call'[c].begin = Len(ledger)
      /\ call'[c].domains = call[c].domains /\ call'[c].answer = call[c].answer
  <2> DEFINE fields == [step |-> step, tool |-> tool, token |-> token, target |-> x, signer |-> by,
                        role |-> IF token = "master" THEN "admin" ELSE "none",
                        outcome |-> IF refused THEN "denied" ELSE "none",
                        at |-> now, begin |-> Len(ledger)]
  <2>1. Set(c, fields) BY <1>1 DEF Begin
  <2>2. call'[c] = [f \in Fields |-> IF f \in DOMAIN fields THEN fields[f] ELSE call[c][f]]
    <3> HIDE DEF fields
    <3> QED BY <2>1, SetTo DEF Base
  <2>3. DOMAIN fields = {"step", "tool", "token", "target", "signer", "role", "outcome",
                         "at", "begin"}
    OBVIOUS
  <2> QED BY <2>2, <2>3, FieldNames
<1>3. /\ step \in {"audit", "work", "limit", "authorize"}
      /\ refused <=> step = "audit"
      /\ step = "work" => tool \in Exempt
      /\ step \in {"authorize", "limit"} => tool \notin Exempt
      /\ step = "authorize" => token # "master"
      /\ step = "limit" => token = "master"
  BY <1>1 DEF Exempt
<1>4. UNCHANGED <<ledger, now, faults>> /\ call[c].step = "none" BY DEF Begin, At
<1>5. Longer BY <1>4, Stays
<1>6. Mine(c)' = {} /\ CallRows(c)' = {} /\ Effects(c)' = {}
  <2>1. Mine(c) = {} BY <1>4 DEF CallInv, Progress
  <2> QED BY <2>1, <1>4 DEF CallRows, Effects, Mine, Of
<1>7. Progress(c)'
  <2>1. call'[c].begin \in 0 .. Len(ledger') BY <1>2, <1>4, <1>5 DEF Longer
  <2>2. call'[c].role \in Roles \cup {"none"} BY <1>2, RowsAssumption
  <2> HIDE DEF open, refused
  <2> QED BY <1>2, <1>3, <1>6, <2>1, <2>2 DEF CallInv, Progress, Outcomes
<1>8. Trail(c)' BY <1>2, <1>3, <1>6 DEF Trail
<1>9. Holds(c)' BY <1>2, <1>3 DEF Holds, Authorized, Passed
<1>10. AdminOnly(c)' BY <1>2, <1>3 DEF AdminOnly, AdminTools, WriteTools, Passed, Exempt
<1>11. BelowCeiling(c)' BY <1>2, <1>3 DEF BelowCeiling, Passed
<1>12. WriterInForce(c)' BY <1>6 DEF WriterInForce
<1>13. Sees(c)'
  <2>1. call'[c].answer = {} BY <1>2, <1>4 DEF CallInv, Progress
  <2> QED BY <1>2, <2>1 DEF Sees
<1>14. NamesSigner(c)' BY <1>2 DEF NamesSigner
<1> QED BY <1>7, <1>8, <1>9, <1>10, <1>11, <1>12, <1>13, <1>14 DEF CallInv

(* Of the roles a person holds the highest is one of them.                   *)
LEMMA HighestRole ==
  ASSUME NEW roles, roles \subseteq Roles, roles # {}
  PROVE  tenancy_role_for(roles) \in roles
<1>1. \A r \in roles : r \in {"installer", "admin", "observer", "member"}
  BY RowsAssumption DEF Level
<1>2. Level["installer"] = 4 /\ Level["admin"] = 3 /\ Level["observer"] = 2 /\ Level["member"] = 1
  BY DEF Level
<1>3. \E r \in roles : \A q \in roles : Level[q] <= Level[r]
  <2>1. CASE "installer" \in roles BY <2>1, <1>1, <1>2
  <2>2. CASE "installer" \notin roles /\ "admin" \in roles BY <2>2, <1>1, <1>2
  <2>3. CASE "installer" \notin roles /\ "admin" \notin roles /\ "observer" \in roles
    BY <2>3, <1>1, <1>2
  <2>4. CASE roles = {"member"} BY <2>4, <1>2
  <2>5. roles = {"member"} \/ "installer" \in roles \/ "admin" \in roles \/ "observer" \in roles
    BY <1>1
  <2> QED BY <2>1, <2>2, <2>3, <2>4, <2>5
<1> QED BY <1>3 DEF tenancy_role_for

(* What authorize_caller reads was in force when it read it.                 *)
LEMMA AuthorizeStep ==
  ASSUME Base, NEW c \in CallIds, CallInv(c), authorize_caller(c)
  PROVE  CallInv(c)'
<1>1. UNCHANGED <<ledger, now, faults>> /\ call[c].step = "authorize" BY DEF authorize_caller, At
<1>2. Longer /\ ByOthers(c) BY <1>1, Stays
<1>3. PICK p : p = call[c].token OBVIOUS
<1>4. CASE ~ PersonExists(p)
  <2>1. Audited(c, "denied") BY <1>3, <1>4 DEF authorize_caller
  <2> QED BY <1>1, <2>1, Audits, Refused
<1>5. CASE PersonExists(p)
  <2> DEFINE role == tenancy_role_for(fold_role_grants(p))
             domains == domain_access_set(p)
             fields == [step |-> "limit", caller |-> p, domains |-> domains, role |-> role]
  <2>1. Set(c, fields) BY <1>3, <1>5 DEF authorize_caller
  <2>2. /\ call'[c].step = "limit" /\ SameAsked(c) /\ call'[c].outcome = call[c].outcome
        /\ call'[c].answer = call[c].answer /\ call'[c].domains = domains /\ call'[c].role = role
    <3>1. call'[c] = [f \in Fields |-> IF f \in DOMAIN fields THEN fields[f] ELSE call[c][f]]
      <4> HIDE DEF fields
      <4> QED BY <2>1, SetTo DEF Base
    <3>2. DOMAIN fields = {"step", "caller", "domains", "role"} OBVIOUS
    <3> HIDE DEF role, domains
    <3> QED BY <3>1, <3>2, FieldNames DEF SameAsked
  <2>3. /\ fold_role_grants(p) \subseteq Roles /\ domains \subseteq Domains
    BY DEF Base, Fits, fold_role_grants, domain_access_set, Of
  <2>4. role = "none" \/ role \in fold_role_grants(p)
    <3>1. CASE fold_role_grants(p) = {} BY <3>1 DEF tenancy_role_for
    <3>2. CASE fold_role_grants(p) # {} BY <3>2, <2>3, HighestRole
    <3> QED BY <3>1, <3>2
  <2>5. GrantsHeld(c)'
    <3>1. \A w : Of(w, call[c].token)' = Of(w, p)
      BY <1>1, <1>3, <2>2 DEF Of, SameAsked
    <3>2. \A y \in Of("archived", p) : y > call'[c].begin BY <1>5 DEF PersonExists
    <3>3. call'[c].role # "none" =>
            \E a \in Of("assigned", p) : /\ ledger[a].val = call'[c].role
              /\ \A r \in Of("revoked", p) : ledger[r].val # call'[c].role
      BY <2>2, <2>4 DEF fold_role_grants
    <3>4. \A v \in call'[c].domains : \E g \in Of("domain", p) :
            ledger[g].val = v /\ ledger[g].by \in {"owner", "contributor"}
      BY <2>2 DEF domain_access_set
    <3>5. \A g \in Of("domain", p) :
            ledger[g].by \in {"owner", "contributor"} => ledger[g].val \in call'[c].domains
      BY <2>2 DEF domain_access_set
    <3> HIDE DEF role, domains
    <3> QED BY <1>1, <3>1, <3>2, <3>3, <3>4, <3>5 DEF GrantsHeld, RoleHeld
  <2> HIDE DEF role, domains
  <2>6. Mine(c) = {} /\ Mine(c)' = {} /\ CallRows(c)' = {} /\ Effects(c)' = {}
    <3>1. Mine(c) = {} BY <1>1 DEF CallInv, Progress
    <3> QED BY <3>1, <1>1 DEF CallRows, Effects, Mine, Of
  <2>7. call[c].outcome = "none" BY <1>1 DEF CallInv, Progress
  <2>8. Progress(c)'
    BY <1>1, <2>2, <2>3, <2>4, <2>6, <2>7 DEF CallInv, Progress, SameAsked
  <2>9. Trail(c)' BY <2>2, <2>6, <2>7 DEF Trail
  <2>10. Holds(c)' BY <2>5 DEF Holds
  <2>11. AdminOnly(c)' /\ BelowCeiling(c)'
    BY <2>2, <2>7 DEF AdminOnly, BelowCeiling, Passed
  <2>12. WriterInForce(c)' BY <2>6 DEF WriterInForce
  <2>13. Sees(c)' BY <1>1, <2>2, <2>7 DEF CallInv, Sees, SameAsked
  <2>14. NamesSigner(c)' BY <2>2, <2>7 DEF NamesSigner
  <2> QED BY <2>8, <2>9, <2>10, <2>11, <2>12, <2>13, <2>14 DEF CallInv
<1> QED BY <1>4, <1>5

(* Past the limit, fewer calls than the ceiling stood on record at the begin.*)
LEMMA LimitStep ==
  ASSUME Base, NEW c \in CallIds, CallInv(c), check_rate_limit(c)
  PROVE  CallInv(c)'
<1>1. UNCHANGED <<ledger, now, faults>> /\ call[c].step = "limit" BY DEF check_rate_limit, At
<1>2. Longer /\ ByOthers(c) BY <1>1, Stays
<1>3. CASE Audited(c, "denied") BY <1>1, <1>3, Audits, Refused
<1>4. CASE /\ Set(c, [step |-> "work"]) /\ ~ (Cardinality(Recent(c)) >= Ceiling)
           /\ call[c].tool \in AdminTools => call[c].role \in {"admin", "installer"}
  <2>1. /\ call'[c].step = "work" /\ SameAsked(c) /\ SameCaller(c)
        /\ call'[c].outcome = call[c].outcome /\ call'[c].answer = call[c].answer
    BY <1>4, Moves
  <2>2. /\ call[c].outcome = "none" /\ call[c].tool \notin Exempt
        /\ call[c].begin \in 0 .. Len(ledger)
    BY <1>1 DEF CallInv, Progress
  <2>3. Mine(c)' = {} /\ CallRows(c)' = {} /\ Effects(c)' = {}
    <3>1. Mine(c) = {} BY <1>1 DEF CallInv, Progress
    <3> QED BY <3>1, <1>1 DEF CallRows, Effects, Mine, Of
  <2>4. Progress(c)'
    BY <1>1, <2>1, <2>2, <2>3 DEF CallInv, Progress, SameAsked, SameCaller
  <2>5. Trail(c)' BY <2>1, <2>2, <2>3 DEF Trail
  <2>6. Holds(c)'
    <3>1. GrantsHeld(c) => GrantsHeld(c)'
      BY <1>2, <2>1, <2>2, GrantsStay DEF SameAsked, SameCaller
    <3> QED BY <1>1, <2>1, <3>1 DEF CallInv, Holds, Authorized, SameAsked
  <2>7. AdminOnly(c)' BY <1>4, <2>1 DEF AdminOnly, SameAsked, SameCaller
  <2>8. Cardinality(Before(c)) < Ceiling
    <3>1. DOMAIN ledger = 1 .. Len(ledger) /\ Len(ledger) \in Nat BY <1>2 DEF Longer
    <3>2. Before(c) \subseteq Recent(c)
      <4>1. ASSUME NEW i \in Before(c) PROVE i \in Recent(c)
        <5>1. /\ i \in DOMAIN ledger /\ ledger[i].what = "call" /\ ledger[i].by = call[c].caller
              /\ ledger[i].val # "error" /\ ledger[i].at >= call[c].at - Window
          BY <2>2, <3>1 DEF Before
        <5>2. ledger[i].val \in {"ok", "denied"} BY <5>1 DEF Base, Fits, Outcomes
        <5> QED BY <5>1, <5>2 DEF Recent
      <4> QED BY <4>1
    <3>3. IsFiniteSet(Recent(c))
      <4>1. IsFiniteSet(1 .. Len(ledger)) BY <3>1, FS_Interval
      <4>2. Recent(c) \subseteq 1 .. Len(ledger) BY <3>1 DEF Recent
      <4> QED BY <4>1, <4>2, FS_Subset
    <3>4. /\ Cardinality(Before(c)) \in Nat /\ Cardinality(Recent(c)) \in Nat
          /\ Cardinality(Before(c)) <= Cardinality(Recent(c))
      BY <3>2, <3>3, FS_Subset, FS_CardinalityType
    <3>5. Ceiling \in Nat BY McpAssumption
    <3> QED BY <1>4, <3>4, <3>5
  <2>9. BelowCeiling(c)'
    <3>1. Before(c)' = Before(c) BY <1>2, <2>1, <2>2, BeforeStays DEF SameAsked, SameCaller
    <3> QED BY <2>8, <3>1 DEF BelowCeiling
  <2>10. WriterInForce(c)' BY <2>3 DEF WriterInForce
  <2>11. Sees(c)' BY <1>1, <2>1, <2>2 DEF CallInv, Sees, SameAsked
  <2>12. NamesSigner(c)' BY <2>1, <2>2 DEF NamesSigner
  <2> QED BY <2>4, <2>5, <2>6, <2>7, <2>9, <2>10, <2>11, <2>12 DEF CallInv
<1> QED BY <1>3, <1>4 DEF check_rate_limit

(* What a call that stays past the gates keeps of what held there.           *)
LEMMA StillPast ==
  ASSUME Longer, NEW c \in CallIds, CallInv(c), Passed(c), SameAsked(c), SameCaller(c)
  PROVE  Holds(c)' /\ AdminOnly(c)' /\ BelowCeiling(c)'
<1>1. call[c].begin \in 0 .. Len(ledger) BY DEF CallInv, Progress
<1>2. Holds(c)'
  <2>1. GrantsHeld(c) => GrantsHeld(c)' BY <1>1, GrantsStay DEF SameAsked, SameCaller
  <2> QED BY <2>1 DEF CallInv, Holds, Authorized, SameAsked
<1>3. AdminOnly(c)' BY DEF CallInv, AdminOnly, SameAsked, SameCaller
<1>4. BelowCeiling(c)'
  <2>1. Before(c)' = Before(c) BY <1>1, BeforeStays DEF SameAsked, SameCaller
  <2> QED BY <2>1 DEF CallInv, BelowCeiling, SameAsked
<1> QED BY <1>2, <1>3, <1>4

(* The last confirmation of a person has somebody who signed it.             *)
LEMMA SomebodySigned ==
  ASSUME NEW n \in Nat, DOMAIN ledger = 1 .. n, NEW x, Of("confirmed", x) # {}
  PROVE  fold_audit_trail(x) # {}
<1>1. PICK j \in Of("confirmed", x) : \A k \in Of("confirmed", x) : k <= j
  <2>1. Of("confirmed", x) \in SUBSET (1 .. n) BY DEF Of
  <2> QED BY <2>1, Latest
<1>2. ledger[j].by \in fold_audit_trail(x) BY <1>1 DEF fold_audit_trail
<1> QED BY <1>2

(* An answer: a member's is filtered by the domains it holds, a trail names   *)
(* who signed.                                                              *)
LEMMA AnswerStep ==
  ASSUME Base, NEW c \in CallIds, CallInv(c), Answer(c)
  PROVE  CallInv(c)'
<1>1. UNCHANGED <<ledger, now, faults>> /\ call[c].step = "work" /\ call[c].tool \notin WriteTools
  BY DEF Answer, At
<1>2. Longer /\ ByOthers(c) BY <1>1, Stays
<1>3. PICK answer :
        answer = CASE call[c].tool = "query" -> filter_rows(call[c].role, call[c].domains)
                   [] call[c].tool = "read_audit_trail" -> fold_audit_trail(call[c].target)
                   [] OTHER -> {}
  OBVIOUS
<1>4. /\ call'[c].step = (IF call[c].tool = "prompt" THEN "over" ELSE "audit")
      /\ SameAsked(c) /\ SameCaller(c) /\ call'[c].outcome = "ok" /\ call'[c].answer = answer
  <2> DEFINE fields == [step |-> IF call[c].tool = "prompt" THEN "over" ELSE "audit",
                        outcome |-> "ok", answer |-> answer]
  <2>1. Set(c, fields) BY <1>3 DEF Answer
  <2>2. call'[c] = [f \in Fields |-> IF f \in DOMAIN fields THEN fields[f] ELSE call[c][f]]
    <3> HIDE DEF fields
    <3> QED BY <2>1, SetTo DEF Base
  <2>3. DOMAIN fields = {"step", "outcome", "answer"} OBVIOUS
  <2> QED BY <2>2, <2>3, FieldNames DEF SameAsked, SameCaller
<1>5. Mine(c)' = {} /\ CallRows(c)' = {} /\ Effects(c)' = {} /\ call[c].begin \in 0 .. Len(ledger)
  <2>1. Mine(c) = {} BY <1>1 DEF CallInv, Progress
  <2> QED BY <2>1, <1>1 DEF CallRows, Effects, Mine, Of, CallInv, Progress
<1>6. Progress(c)'
  <2>1. call'[c].begin \in 0 .. Len(ledger') BY <1>1, <1>4, <1>5 DEF SameAsked
  <2> QED BY <1>1, <1>4, <1>5, <2>1 DEF CallInv, Progress, SameAsked, SameCaller, Outcomes
<1>7. Trail(c)' BY <1>1, <1>4, <1>5 DEF Trail, SameAsked
<1>8. Holds(c)' /\ AdminOnly(c)' /\ BelowCeiling(c)'
  <2>1. Passed(c) BY <1>1 DEF Passed
  <2> QED BY <1>2, <1>4, <2>1, StillPast
<1>9. WriterInForce(c)' BY <1>5 DEF WriterInForce
<1>10. Sees(c)'
  <2>1. call[c].tool = "query" => answer = filter_rows(call[c].role, call[c].domains)
    BY <1>3
  <2>2. call[c].tool = "query" => answer \subseteq DOMAIN ledger BY <2>1 DEF filter_rows
  <2>3. ASSUME call[c].tool = "query", call[c].role = "member",
               NEW i \in DOMAIN ledger, ledger[i].what = "item"
        PROVE  /\ i \in answer => Granted(c, i) # {}
               /\ (\E g \in Granted(c, i) : g <= call[c].begin) => i \in answer
    <3>1. GrantsHeld(c)
      BY <1>1, <2>3 DEF CallInv, Progress, Holds, Authorized, Passed, Exempt
    <3>2. i \in answer <=> ledger[i].val \in call[c].domains
      BY <2>1, <2>3 DEF filter_rows
    <3> QED BY <2>3, <3>1, <3>2 DEF GrantsHeld, Granted, Of
  <2>4. \A i : Granted(c, i)' = Granted(c, i) BY <1>1, <1>4 DEF Granted, Of, SameAsked
  <2> QED BY <1>1, <1>4, <2>2, <2>3, <2>4 DEF Sees, SameAsked, SameCaller
<1>11. NamesSigner(c)'
  <2>1. PICK x : x = call[c].target OBVIOUS
  <2>2. Len(ledger) \in Nat /\ DOMAIN ledger = 1 .. Len(ledger) BY <1>2 DEF Longer
  <2>3. call[c].tool = "read_audit_trail" /\ Of("confirmed", x) # {} => answer # {}
    BY <1>3, <2>1, <2>2, SomebodySigned
  <2>4. Of("confirmed", call[c].target)' = Of("confirmed", x)
    BY <1>1, <1>4, <2>1 DEF Of, SameAsked
  <2> QED BY <1>4, <2>3, <2>4 DEF NamesSigner, SameAsked
<1> QED BY <1>6, <1>7, <1>8, <1>9, <1>10, <1>11 DEF CallInv

(* A confirmation that finds no person has nothing to write.                 *)
LEMMA FindStep ==
  ASSUME Base, NEW c \in CallIds, CallInv(c), FindProposal(c)
  PROVE  CallInv(c)'
<1>1. /\ UNCHANGED <<ledger, now, faults>> /\ call[c].step = "work"
      /\ call[c].tool = "confirm_proposal"
  BY DEF FindProposal, At
<1>2. Longer /\ ByOthers(c) BY <1>1, Stays
<1>3. Mine(c)' = {} /\ CallRows(c)' = {} /\ Effects(c)' = {} /\ call[c].begin \in 0 .. Len(ledger)
      /\ call[c].outcome = "none"
  <2>1. Mine(c) = {} BY <1>1 DEF CallInv, Progress
  <2> QED BY <2>1, <1>1 DEF CallRows, Effects, Mine, Of, CallInv, Progress
<1>4. Passed(c) BY <1>1 DEF Passed
<1>5. CASE Audited(c, "error") BY <1>1, <1>5, Audits, Refused
<1>6. CASE Set(c, [step |-> "write"])
  <2>1. /\ call'[c].step = "write" /\ SameAsked(c) /\ SameCaller(c)
        /\ call'[c].outcome = call[c].outcome /\ call'[c].answer = call[c].answer
    BY <1>6, Moves
  <2>2. Progress(c)'
    BY <1>1, <1>3, <2>1 DEF CallInv, Progress, SameAsked, SameCaller
  <2>3. Trail(c)' BY <1>3, <2>1 DEF Trail
  <2>4. WriterInForce(c)' BY <1>3 DEF WriterInForce
  <2>5. Sees(c)' BY <1>1, <2>1 DEF Sees, SameAsked
  <2>6. NamesSigner(c)' BY <1>3, <2>1 DEF NamesSigner
  <2> QED BY <1>2, <1>4, <2>1, <2>2, <2>3, <2>4, <2>5, <2>6, StillPast DEF CallInv
<1>7. CASE Audited(c, "ok") /\ "person" \notin _find_proposal(call[c].target)
  <2>1. /\ call'[c].step = "audit" /\ SameAsked(c) /\ SameCaller(c)
        /\ call'[c].outcome = "ok" /\ call'[c].answer = call[c].answer
    BY <1>7, Audits
  <2>2. Progress(c)'
    BY <1>1, <1>3, <2>1 DEF CallInv, Progress, SameAsked, SameCaller, Outcomes
  <2>3. Of("person", call[c].target) = {} BY <1>7 DEF _find_proposal, Of
  <2>4. Trail(c)' BY <1>1, <1>3, <2>1, <2>3 DEF Trail, SameAsked, Of
  <2>5. WriterInForce(c)' BY <1>3 DEF WriterInForce
  <2>6. Sees(c)' BY <1>1, <2>1 DEF Sees, SameAsked
  <2>7. NamesSigner(c)' BY <1>1, <2>1 DEF NamesSigner, SameAsked
  <2> QED BY <1>2, <1>4, <2>1, <2>2, <2>4, <2>5, <2>6, <2>7, StillPast DEF CallInv
<1> QED BY <1>5, <1>6, <1>7 DEF FindProposal

(* An effect: nothing of the call was there, and its role was held.          *)
LEMMA WriteStep ==
  ASSUME Base, NEW c \in CallIds, CallInv(c), Write(c)
  PROVE  CallInv(c)' /\ Longer /\ \A d \in CallIds : d # c => ByOthers(d)
<1>1. /\ call[c].step \in {"work", "write"} /\ call[c].tool \in WriteTools
      /\ call[c].outcome = "none" /\ call[c].begin \in 0 .. Len(ledger)
  BY DEF Write, Writes, At, WriteTools, CallInv, Progress
<1>2. Mine(c) = {} BY <1>1 DEF CallInv, Progress
<1>3. CASE Audited(c, "error") /\ UNCHANGED ledger
  <2>1. Longer /\ \A d : ByOthers(d) BY <1>3, Stays
  <2> QED BY <1>1, <1>3, <2>1, Audits, Refused
<1>4. CASE Commit(Effect(c)) /\ Audited(c, "ok")
  <2>1. PICK r : r = Effect(c) OBVIOUS
  <2>2. r.what \in {"confirmed", "kpi", "product"} /\ r.call = c BY <2>1 DEF Effect, Row
  <2>3. /\ Longer /\ Len(ledger') = Len(ledger) + 1 /\ ledger'[Len(ledger) + 1] = r
    <3>1. Fits(r) BY <2>2 DEF Fits
    <3> QED BY <1>4, <2>1, <3>1, Commits
  <2>4. \A d \in CallIds : d # c => ByOthers(d) BY <2>2, <2>3 DEF ByOthers, Longer
  <2>5. /\ call'[c].step = "audit" /\ SameAsked(c) /\ SameCaller(c)
        /\ call'[c].outcome = "ok" /\ call'[c].answer = call[c].answer
    BY <1>4, Audits
  <2>6. Mine(c)' = {Len(ledger) + 1} BY <1>2, <2>2, <2>3 DEF Mine, Longer
  <2>7. CallRows(c)' = {}
    <3>1. CallRows(c)' \subseteq Mine(c)' BY DEF CallRows, Mine, Of
    <3>2. ledger'[Len(ledger) + 1].what # "call" BY <2>2, <2>3
    <3>3. Len(ledger) + 1 \notin CallRows(c)' BY <3>2 DEF CallRows, Of
    <3> QED BY <2>6, <3>1, <3>3
  <2>8. Effects(c)' = {Len(ledger) + 1} BY <2>6, <2>7 DEF Effects, Mine
  <2>9. Progress(c)'
    <3>1. call'[c].begin \in 0 .. Len(ledger') BY <1>1, <2>3, <2>5 DEF Longer, SameAsked
    <3> QED BY <1>1, <2>5, <3>1 DEF CallInv, Progress, SameAsked, SameCaller, Outcomes
  <2>10. Trail(c)' BY <1>1, <2>5, <2>7, <2>8 DEF Trail, SameAsked
  <2>11. Holds(c)' /\ AdminOnly(c)' /\ BelowCeiling(c)'
    <3>1. Passed(c) BY <1>1 DEF Passed
    <3> QED BY <2>3, <2>5, <3>1, StillPast
  <2>12. WriterInForce(c)'
    <3>1. CASE call[c].token = "master" BY <2>5, <3>1 DEF WriterInForce, SameAsked
    <3>2. CASE call[c].token # "master"
      <4>1. call[c].role \in {"admin", "installer"}
        BY <1>1 DEF CallInv, AdminOnly, Passed, AdminTools
      <4>2. GrantsHeld(c)
        BY <1>1, <3>2 DEF CallInv, Holds, Authorized, Passed, Exempt, WriteTools
      <4>3. PICK a \in Of("assigned", call[c].token) :
              /\ ledger[a].val = call[c].role
              /\ \A q \in Of("revoked", call[c].token) :
                   ledger[q].val = call[c].role => q > call[c].begin
        BY <4>1, <4>2 DEF GrantsHeld, RoleHeld
      <4>4. a < Len(ledger) + 1 BY <2>3, <4>3 DEF Longer, Of
      <4>5. a \in Of("assigned", call[c].token)' /\ ledger'[a] = ledger[a]
        BY <2>3, <2>5, <4>3 DEF Longer, Of, SameAsked
      <4>6. \A q \in Of("revoked", call[c].token)' :
              ledger'[q].val = ledger'[a].val => q > call'[c].begin
        BY <1>1, <2>3, <2>5, <4>3, <4>5 DEF Longer, Of, SameAsked
      <4>7. \A x \in Of("archived", call[c].token)' : x > call'[c].begin
        BY <1>1, <2>3, <2>5, <4>2 DEF Longer, Of, SameAsked, GrantsHeld
      <4> QED BY <2>8, <4>1, <4>3, <4>4, <4>5, <4>6, <4>7 DEF WriterInForce
    <3> QED BY <3>1, <3>2
  <2>13. Sees(c)' BY <1>1, <2>5 DEF Sees, SameAsked, WriteTools
  <2>14. NamesSigner(c)' BY <1>1, <2>5 DEF NamesSigner, SameAsked, WriteTools
  <2> QED BY <2>3, <2>4, <2>9, <2>10, <2>11, <2>12, <2>13, <2>14 DEF CallInv
<1> QED BY <1>3, <1>4 DEF Write

LEMMA FailStep ==
  ASSUME Base, NEW c \in CallIds, CallInv(c), FetchFails(c)
  PROVE  CallInv(c)'
<1>1. UNCHANGED ledger /\ call[c].step \in {"authorize", "limit", "work"}
  BY DEF FetchFails, At
<1>2. CASE Audited(c, "error") BY <1>1, <1>2, Audits, Refused
<1>3. CASE Set(c, [step |-> "lost"])
  <2>1. call[c].outcome = "none" BY <1>1 DEF CallInv, Progress
  <2> QED BY <1>1, <1>3, <2>1, Moves, Refused
<1> QED BY <1>2, <1>3 DEF FetchFails

(* The audit row: the call's only one, after its effect, with its outcome.    *)
LEMMA AuditStep ==
  ASSUME Base, NEW c \in CallIds, CallInv(c), audit(c)
  PROVE  CallInv(c)' /\ Longer /\ \A d \in CallIds : d # c => ByOthers(d)
<1>1. /\ call[c].step = "audit" /\ call[c].outcome \in Outcomes
      /\ call[c].begin \in 0 .. Len(ledger) /\ CallRows(c) = {}
  BY DEF audit, At, CallInv, Progress, Trail
<1>2. /\ call'[c].step = "over" /\ SameAsked(c) /\ SameCaller(c)
      /\ call'[c].outcome = call[c].outcome /\ call'[c].answer = call[c].answer
  BY Moves DEF audit
<1>3. ASSUME Longer,
             \/ CallRows(c)' = {Len(ledger) + 1} /\ ledger'[Len(ledger) + 1].val = call[c].outcome
             \/ CallRows(c)' = {} /\ faults' # 0,
             Effects(c)' = Effects(c)
      PROVE  CallInv(c)'
  <2>1. Effects(c) \subseteq 1 .. Len(ledger) BY <1>3 DEF Effects, Longer
  <2>2. Progress(c)'
    <3>1. call'[c].begin \in 0 .. Len(ledger') BY <1>1, <1>2, <1>3 DEF Longer, SameAsked
    <3> QED BY <1>1, <1>2, <3>1 DEF CallInv, Progress, SameAsked, SameCaller
  <2>3. Trail(c)'
    <3>1. \A i \in Effects(c)', j \in CallRows(c)' : i < j BY <1>3, <2>1 DEF Longer
    <3>2. \A i, j \in CallRows(c)' : i = j BY <1>3
    <3>3. \A j \in CallRows(c)' : ledger'[j].val = call'[c].outcome BY <1>2, <1>3
    <3>4. faults' = 0 => CallRows(c)' # {} BY <1>3
    <3>5. (\A i \in Of("person", call[c].target) : i > call[c].begin)
            => \A i \in Of("person", call[c].target)' : i > call'[c].begin
      BY <1>1, <1>2, <1>3 DEF Longer, Of, SameAsked
    <3> QED BY <1>2, <1>3, <3>1, <3>2, <3>3, <3>4, <3>5 DEF CallInv, Trail, SameAsked
  <2>4. Holds(c)'
    <3>1. GrantsHeld(c) => GrantsHeld(c)' BY <1>1, <1>2, <1>3, GrantsStay DEF SameAsked, SameCaller
    <3> QED BY <1>1, <1>2, <3>1 DEF CallInv, Holds, Authorized, Passed, SameAsked
  <2>5. AdminOnly(c)' BY <1>1, <1>2 DEF CallInv, AdminOnly, Passed, SameAsked, SameCaller
  <2>6. BelowCeiling(c)'
    <3>1. Before(c)' = Before(c) BY <1>1, <1>2, <1>3, BeforeStays DEF SameAsked, SameCaller
    <3> QED BY <1>1, <1>2, <3>1 DEF CallInv, BelowCeiling, Passed, SameAsked
  <2>7. WriterInForce(c)' BY <1>1, <1>2, <1>3, WriterStays DEF CallInv, SameAsked
  <2>8. Sees(c)' BY <1>1, <1>2, <1>3, SeesStay DEF CallInv, SameAsked, SameCaller
  <2>9. NamesSigner(c)' BY <1>1, <1>2, <1>3, SignerStays DEF CallInv, SameAsked
  <2> QED BY <2>2, <2>3, <2>4, <2>5, <2>6, <2>7, <2>8, <2>9 DEF CallInv
<1>4. CASE faults < MaxFaults /\ faults' = faults + 1 /\ UNCHANGED ledger
  <2>1. Longer /\ \A d : ByOthers(d) BY <1>4, Stays
  <2>2. CallRows(c)' = {} /\ Effects(c)' = Effects(c) BY <1>1, <1>2, <2>1, SameRows DEF SameAsked
  <2>3. faults' # 0 BY <1>4, McpAssumption DEF Base
  <2> QED BY <1>3, <2>1, <2>2, <2>3
<1>5. CASE Commit(Row("call", call[c].tool, call[c].caller, call[c].outcome, c))
  <2>1. PICK r : r = Row("call", call[c].tool, call[c].caller, call[c].outcome, c) OBVIOUS
  <2>2. r.what = "call" /\ r.of = call[c].tool /\ r.val = call[c].outcome /\ r.call = c
    BY <2>1 DEF Row
  <2>3. Longer /\ Len(ledger') = Len(ledger) + 1 /\ ledger'[Len(ledger) + 1] = r
    <3>1. Fits(r) BY <1>1, <2>2 DEF Fits
    <3> QED BY <1>5, <2>1, <3>1, Commits
  <2>4. \A d \in CallIds : d # c => ByOthers(d) BY <2>2, <2>3 DEF ByOthers, Longer
  <2>5. CallRows(c)' = {Len(ledger) + 1}
    <3>1. Len(ledger) + 1 \in CallRows(c)'
      BY <1>2, <2>2, <2>3 DEF CallRows, Of, Longer, SameAsked
    <3>2. \A i \in CallRows(c)' : i \in 1 .. Len(ledger) => i \in CallRows(c)
      BY <1>2, <2>3 DEF CallRows, Of, Longer, SameAsked
    <3>3. \A i \in CallRows(c)' : i \in 1 .. Len(ledger) + 1 BY <2>3 DEF CallRows, Of, Longer
    <3> QED BY <1>1, <2>3, <3>1, <3>2, <3>3 DEF Longer
  <2>6. Effects(c)' = Effects(c)
    <3>1. \A i \in Effects(c)' : i \in 1 .. Len(ledger)
      BY <2>3, <2>5 DEF Effects, Longer
    <3>2. \A i \in 1 .. Len(ledger) : i \in CallRows(c)' <=> i \in CallRows(c)
      BY <1>2, <2>3 DEF CallRows, Of, Longer, SameAsked
    <3>3. \A i \in 1 .. Len(ledger) : i \in Effects(c)' <=> i \in Effects(c)
      BY <2>3, <3>2 DEF Effects, Longer
    <3>4. Effects(c) \subseteq 1 .. Len(ledger) BY <2>3 DEF Effects, Longer
    <3> QED BY <3>1, <3>3, <3>4
  <2> QED BY <1>3, <2>2, <2>3, <2>4, <2>5, <2>6
<1> QED BY <1>4, <1>5 DEF audit

-----------------------------------------------------------------------------
(***************************************************************************)
(* Every step.                                                              *)
(***************************************************************************)
RowsFit ==
  /\ ledger \in Seq({ledger[i] : i \in DOMAIN ledger}) /\ Len(ledger) <= MaxRows
  /\ \A i \in DOMAIN ledger : Fits(ledger[i])

(* A step of c is of no other call.                                         *)
Only(c) ==
  /\ DOMAIN call' = CallIds /\ \A d \in CallIds : DOMAIN call'[d] = Fields
  /\ \A d \in CallIds : d # c => call'[d] = call[d]

CallStep(c) ==
  \/ \E tool \in Tools, token \in Tokens :
       \E x \in Targets(tool), by \in Signers(tool) : Begin(c, tool, token, x, by)
  \/ authorize_caller(c) \/ check_rate_limit(c) \/ Answer(c) \/ FindProposal(c)
  \/ Write(c) \/ FetchFails(c) \/ audit(c)

LEMMA Sets ==
  ASSUME Base, NEW c \in CallIds, NEW fields, Set(c, fields)
  PROVE  Only(c)
BY SetTo DEF Base, Only

LEMMA AuditSets ==
  ASSUME Base, NEW c \in CallIds, NEW outcome, Audited(c, outcome)
  PROVE  Only(c)
<1>1. PICK fields : fields = [step |-> "audit", outcome |-> outcome] OBVIOUS
<1> QED BY <1>1, Sets DEF Audited

LEMMA StepsAreOfOne ==
  ASSUME Base, NEW c \in CallIds, CallStep(c)
  PROVE  Only(c)
<1>1. ASSUME NEW tool, NEW token, NEW x, NEW by, Begin(c, tool, token, x, by) PROVE Only(c)
  <2>1. PICK fields : Set(c, fields) BY <1>1 DEF Begin
  <2> QED BY <2>1, Sets
<1>2. CASE authorize_caller(c)
  <2>1. PICK p : p = call[c].token OBVIOUS
  <2>2. CASE PersonExists(p)
    <3>1. PICK fields : Set(c, fields) BY <1>2, <2>1, <2>2 DEF authorize_caller
    <3> QED BY <3>1, Sets
  <2>3. CASE ~ PersonExists(p) BY <1>2, <2>1, <2>3, AuditSets DEF authorize_caller
  <2> QED BY <2>2, <2>3
<1>3. CASE check_rate_limit(c)
  <2>1. Audited(c, "denied") \/ Set(c, [step |-> "work"]) BY <1>3 DEF check_rate_limit
  <2> QED BY <2>1, AuditSets, Sets
<1>4. CASE Answer(c)
  <2>1. PICK fields : Set(c, fields) BY <1>4 DEF Answer
  <2> QED BY <2>1, Sets
<1>5. CASE FindProposal(c)
  <2>1. Audited(c, "error") \/ Set(c, [step |-> "write"]) \/ Audited(c, "ok")
    BY <1>5 DEF FindProposal
  <2> QED BY <2>1, AuditSets, Sets
<1>6. CASE Write(c) BY <1>6, AuditSets DEF Write
<1>7. CASE FetchFails(c)
  <2>1. Audited(c, "error") \/ Set(c, [step |-> "lost"]) BY <1>7 DEF FetchFails
  <2> QED BY <2>1, AuditSets, Sets
<1>8. CASE audit(c) BY <1>8, Sets DEF audit
<1> QED BY <1>1, <1>2, <1>3, <1>4, <1>5, <1>6, <1>7, <1>8 DEF CallStep

(* What any step of a call does to the rows, the clock and the failures.     *)
LEMMA CallStepRows ==
  ASSUME Base, NEW c \in CallIds, CallInv(c), CallStep(c)
  PROVE  /\ RowsFit' /\ Longer /\ \A d \in CallIds : d # c => ByOthers(d)
         /\ now' = now /\ FaultsCount /\ faults' \in 0 .. MaxFaults
<1>0. MaxFaults \in Nat /\ faults \in 0 .. MaxFaults BY McpAssumption DEF Base
<1>1. CASE UNCHANGED ledger
  <2>1. RowsFit' /\ Longer /\ \A d \in CallIds : d # c => ByOthers(d)
    BY <1>1, Stays DEF RowsFit
  <2>2. now' = now /\ (faults' = faults \/ (faults < MaxFaults /\ faults' = faults + 1))
    BY DEF CallStep, Begin, authorize_caller, check_rate_limit, Answer, FindProposal, Write,
           FetchFails, audit
  <2> QED BY <1>0, <2>1, <2>2 DEF FaultsCount
<1>2. CASE Write(c) /\ Commit(Effect(c))
  <2>1. Longer /\ \A d \in CallIds : d # c => ByOthers(d) BY <1>2, WriteStep
  <2>2. PICK r : r = Effect(c) OBVIOUS
  <2>3. r.what \in {"confirmed", "kpi", "product"} BY <2>2 DEF Effect, Row
  <2>4. Fits(r) BY <2>3 DEF Fits
  <2>5. RowsFit' BY <1>2, <2>2, <2>4, Commits DEF RowsFit
  <2>6. now' = now /\ (faults' = faults \/ (faults < MaxFaults /\ faults' = faults + 1))
    BY <1>2 DEF Write
  <2> QED BY <1>0, <2>1, <2>5, <2>6 DEF FaultsCount
<1>3. CASE audit(c) /\ Commit(Row("call", call[c].tool, call[c].caller, call[c].outcome, c))
  <2>1. Longer /\ \A d \in CallIds : d # c => ByOthers(d) BY <1>3, AuditStep
  <2>2. PICK r : r = Row("call", call[c].tool, call[c].caller, call[c].outcome, c) OBVIOUS
  <2>3. r.what = "call" /\ r.val = call[c].outcome BY <2>2 DEF Row
  <2>4. call[c].outcome \in Outcomes BY <1>3 DEF audit, At, CallInv, Progress
  <2>5. Fits(r) BY <2>3, <2>4 DEF Fits
  <2>6. RowsFit' BY <1>3, <2>2, <2>5, Commits DEF RowsFit
  <2>7. now' = now /\ (faults' = faults \/ (faults < MaxFaults /\ faults' = faults + 1))
    BY <1>3 DEF audit
  <2> QED BY <1>0, <2>1, <2>6, <2>7 DEF FaultsCount
<1> QED
  BY <1>1, <1>2, <1>3 DEF CallStep, Begin, authorize_caller, check_rate_limit, Answer,
     FindProposal, Write, FetchFails, audit

LEMMA CallStepKeeps ==
  ASSUME Base, NEW c \in CallIds, CallInv(c), CallStep(c)
  PROVE  CallInv(c)'
BY BeginStep, AuthorizeStep, LimitStep, AnswerStep, FindStep, WriteStep, FailStep, AuditStep
   DEF CallStep

(* A row of another component.                                              *)
LEMMA Elsewhere ==
  ASSUME IInv, NEW r, Fits(r), Commit(r), r.call \notin CallIds, UNCHANGED <<now, call, faults>>
  PROVE  IInv'
<1>1. Longer /\ Len(ledger') = Len(ledger) + 1 /\ ledger'[Len(ledger) + 1] = r /\ RowsFit'
  BY Commits DEF IInv, RowsFit
<1>2. \A c \in CallIds : ByOthers(c) BY <1>1 DEF ByOthers, Longer
<1>3. FaultsCount BY McpAssumption DEF FaultsCount, IInv, Base
<1>4. \A c \in CallIds : CallInv(c)' BY <1>1, <1>2, <1>3, Untouched DEF IInv
<1> QED BY <1>1, <1>4 DEF IInv, Base, RowsFit

LEMMA EveryStep ==
  ASSUME IInv, [Next]_vars
  PROVE  IInv'
<1>1. ASSUME NEW c \in CallIds, CallStep(c) PROVE IInv'
  <2>1. Base /\ CallInv(c) BY DEF IInv
  <2>2. /\ RowsFit' /\ Longer /\ \A d \in CallIds : d # c => ByOthers(d)
        /\ now' = now /\ FaultsCount /\ faults' \in 0 .. MaxFaults
    BY <1>1, <2>1, CallStepRows
  <2>3. Only(c) BY <1>1, <2>1, StepsAreOfOne
  <2>4. Base' BY <2>1, <2>2, <2>3 DEF Base, RowsFit, Only
  <2>5. CallInv(c)' BY <1>1, <2>1, CallStepKeeps
  <2>6. ASSUME NEW d \in CallIds, d # c PROVE CallInv(d)'
    <3>1. CallInv(d) /\ ByOthers(d) /\ call'[d] = call[d] BY <2>2, <2>3, <2>6 DEF IInv, Only
    <3> QED BY <2>2, <3>1, Untouched
  <2> QED BY <2>4, <2>5, <2>6 DEF IInv
<1>2. ASSUME NEW p, post_mcp_tokens(p) PROVE IInv'
  <2>1. PICK r : r = Row("call", "emit_mcp_token_issued", p, "ok", "token") OBVIOUS
  <2>2. Fits(r) /\ r.call = "token" BY <2>1 DEF Fits, Row, Outcomes
  <2>3. r.call \notin CallIds BY <2>2, McpAssumption
  <2> QED BY <1>2, <2>1, <2>2, <2>3, Elsewhere DEF post_mcp_tokens
<1>3. CASE post_mcp_preset
  <2>1. PICK r : r = Row("source", "preset", Anonymous, "none", "dashboard") OBVIOUS
  <2>2. Fits(r) /\ r.call = "dashboard" BY <2>1 DEF Fits, Row
  <2>3. r.call \notin CallIds BY <2>2, McpAssumption
  <2> QED BY <1>3, <2>1, <2>2, <2>3, Elsewhere DEF post_mcp_preset
<1>4. CASE Change
  <2>1. PICK q \in Changes : Commit(Row(q.what, q.of, q.by, q.val, "other")) BY <1>4 DEF Change
  <2>2. PICK r : r = Row(q.what, q.of, q.by, q.val, "other") OBVIOUS
  <2>3. Fits(q) /\ r.what = q.what /\ r.val = q.val /\ r.call = "other"
    BY <2>2, RowsAssumption DEF Row
  <2>4. Fits(r) BY <2>3 DEF Fits
  <2>5. r.call \notin CallIds BY <2>3, McpAssumption
  <2> QED BY <1>4, <2>1, <2>2, <2>4, <2>5, Elsewhere DEF Change
<1>5. ASSUME UNCHANGED <<ledger, call, faults>>, now' \in 0 .. MaxTime PROVE IInv'
  <2>1. Longer /\ (\A c : ByOthers(c)) /\ RowsFit' BY <1>5, Stays DEF IInv, RowsFit
  <2>2. FaultsCount BY <1>5, McpAssumption DEF FaultsCount, IInv, Base
  <2>3. \A c \in CallIds : CallInv(c)' BY <1>5, <2>1, <2>2, Untouched DEF IInv
  <2> QED BY <1>5, <2>1, <2>3 DEF IInv, Base, RowsFit
<1>6. CASE Tick
  <2>1. now' \in 0 .. MaxTime BY <1>6, McpAssumption DEF Tick, IInv, Base
  <2> QED BY <1>5, <1>6, <2>1 DEF Tick
<1>7. CASE UNCHANGED vars
  <2>1. now' \in 0 .. MaxTime BY <1>7 DEF vars, IInv, Base
  <2> QED BY <1>5, <1>7, <2>1 DEF vars
<1> QED BY <1>1, <1>2, <1>3, <1>4, <1>6, <1>7 DEF Next, CallStep

LEMMA AtFirst == Init => IInv
<1> SUFFICES ASSUME Init PROVE IInv OBVIOUS
<1>1. /\ ledger = History /\ now = 0 /\ faults = 0 /\ call = [c \in CallIds |-> NotBegun]
  BY DEF Init
<1>2. Len(ledger) \in Nat /\ DOMAIN ledger = 1 .. Len(ledger)
  BY <1>1, RowsAssumption, LenProperties
<1>3. Base
  <2>1. \A i \in DOMAIN ledger : Fits(ledger[i]) BY <1>1, RowsAssumption
  <2>2. 0 \in 0 .. MaxTime /\ 0 \in 0 .. MaxFaults BY McpAssumption
  <2> QED BY <1>1, <2>1, <2>2, RowsAssumption DEF Base, Fields
<1>4. ASSUME NEW c \in CallIds PROVE CallInv(c)
  <2>1. /\ call[c].step = "none" /\ call[c].outcome = "none" /\ call[c].begin = 0
        /\ call[c].role = "none" /\ call[c].domains = {} /\ call[c].answer = {}
    BY <1>1 DEF NotBegun
  <2>2. Mine(c) = {} /\ CallRows(c) = {} /\ Effects(c) = {}
    BY <1>1, RowsAssumption DEF Mine, CallRows, Effects, Of
  <2>3. Progress(c) BY <1>2, <2>1, <2>2 DEF Progress
  <2>4. Trail(c) BY <2>1, <2>2 DEF Trail
  <2>5. Holds(c) /\ AdminOnly(c) /\ BelowCeiling(c)
    BY <2>1 DEF Holds, AdminOnly, BelowCeiling, Authorized, Passed
  <2>6. WriterInForce(c) BY <2>2 DEF WriterInForce
  <2>7. Sees(c) /\ NamesSigner(c) BY <2>1 DEF Sees, NamesSigner
  <2> QED BY <2>3, <2>4, <2>5, <2>6, <2>7 DEF CallInv
<1> QED BY <1>3, <1>4 DEF IInv

LEMMA Invariant == Spec => []IInv
BY AtFirst, EveryStep, PTL DEF Spec

-----------------------------------------------------------------------------
(***************************************************************************)
(* What the invariant says.                                                 *)
(***************************************************************************)
LEMMA AtMostOne ==
  ASSUME NEW S, \A i, j \in S : i = j
  PROVE  Cardinality(S) <= 1
<1>1. CASE S = {} BY <1>1, FS_EmptySet
<1>2. CASE S # {}
  <2>1. PICK x \in S : S = {x} BY <1>2
  <2> QED BY <2>1, FS_Singleton
<1> QED BY <1>1, <1>2

LEMMA InvTypes == IInv => TypeOK
<1> SUFFICES ASSUME IInv PROVE TypeOK OBVIOUS
<1>1. \A c \in CallIds : Progress(c) BY DEF IInv, CallInv
<1>2. \A c \in CallIds : call[c].outcome \in {"none", "ok", "denied", "error"}
  BY <1>1 DEF Progress, Outcomes
<1> QED BY <1>1, <1>2 DEF IInv, Base, TypeOK, Progress

LEMMA InvAudit == IInv => AuditTells
<1> SUFFICES ASSUME IInv, NEW c \in CallIds
             PROVE  /\ Cardinality(CallRows(c)) <= 1 /\ Cardinality(Effects(c)) <= 1
                    /\ \A i \in Effects(c), j \in CallRows(c) : i < j /\ ledger[j].val = "ok"
                    /\ faults = 0 /\ At(c, "over") /\ call[c].tool # "prompt" => CallRows(c) # {}
                    /\ \A j \in CallRows(c) :
                         ledger[j].val = "ok" /\ call[c].tool \in WriteTools =>
                           \/ Effects(c) # {}
                           \/ /\ call[c].tool = "confirm_proposal"
                              /\ \A i \in Of("person", call[c].target) : i > call[c].begin
  BY DEF AuditTells
<1>1. Trail(c) BY DEF IInv, CallInv
<1>2. Cardinality(CallRows(c)) <= 1 /\ Cardinality(Effects(c)) <= 1
  BY <1>1, AtMostOne DEF Trail
<1>3. \A i \in Effects(c), j \in CallRows(c) : i < j /\ ledger[j].val = "ok"
  BY <1>1 DEF Trail
<1>4. \A j \in CallRows(c) : ledger[j].val = call[c].outcome BY <1>1 DEF Trail
<1> QED BY <1>1, <1>2, <1>3, <1>4 DEF Trail, At

LEMMA InvWriters == IInv => WritersInForce
BY DEF IInv, CallInv, WriterInForce, WritersInForce

LEMMA InvRate == IInv => RateKept
<1> SUFFICES ASSUME IInv, NEW c \in CallIds, call[c].outcome = "ok",
                    call[c].tool \notin {"query_ledger", "resource", "prompt"}
             PROVE  Cardinality(Before(c)) < Ceiling
  BY DEF RateKept, Before
<1> QED BY DEF IInv, CallInv, BelowCeiling, Passed, Exempt

LEMMA InvDomains == IInv => SeesItsDomains
BY DEF IInv, CallInv, Sees, Granted, SeesItsDomains

LEMMA InvSigners == IInv => TrailNamesSigner
<1> SUFFICES ASSUME IInv, NEW c \in CallIds, NEW d \in CallIds,
                    call[c].tool = "read_audit_trail" /\ call[c].outcome = "ok",
                    NEW i \in Effects(d), ledger[i].what = "confirmed",
                    ledger[i].of = call[c].target, i <= call[c].begin
             PROVE  call[c].answer # {}
  BY DEF TrailNamesSigner
<1>1. i \in Of("confirmed", call[c].target) BY DEF Effects, Of
<1>2. NamesSigner(c) BY DEF IInv, CallInv
<1> QED BY <1>1, <1>2 DEF NamesSigner

(* Whatever is written between the awaits of a call, its step, outcome and    *)
(* role are of their kinds and the ledger, the clock and the failures stay     *)
(* within their bounds.                                                     *)
THEOREM TypeCorrect == Spec => []TypeOK
BY Invariant, InvTypes, PTL

(* A call leaves at most one audit row and at most one effect, the effect     *)
(* first and under an "ok"; an "ok" of a write tool stands for an effect      *)
(* unless no person was there to confirm (mcp_server.py: audit).             *)
THEOREM EffectsAudited == Spec => []AuditTells
BY Invariant, InvAudit, PTL

(* Nothing is written for a person who was not an administrator, or had been  *)
(* archived, all the while between the beginning of the call and the write.   *)
THEOREM WritersHeldTheirRole == Spec => []WritersInForce
BY Invariant, InvWriters, PTL

(* A call that is answered had begun below its caller's rate limit, whatever  *)
(* was audited while it waited (rate_limit.py: check_rate_limit).            *)
THEOREM CallersStayBelowCeiling == Spec => []RateKept
BY Invariant, InvRate, PTL

(* A member sees only domains granted to it, and all that lay in them when    *)
(* it asked (filter_rows_by_domain_access).                                 *)
THEOREM MembersSeeTheirDomains == Spec => []SeesItsDomains
BY Invariant, InvDomains, PTL

(* A trail that is asked for after a confirmation names somebody who signed.  *)
THEOREM TrailsNameSigners == Spec => []TrailNamesSigner
BY Invariant, InvSigners, PTL

(* All of it together: what mcp_server.py and its modules keep between the    *)
(* effect of a call, its audit row, the roles in force and the rate limit.   *)
THEOREM CallsAgree == Spec => []CallsStand
<1>1. IInv => CallsStand
  BY InvAudit, InvWriters, InvRate, InvDomains, InvSigners DEF CallsStand
<1> QED BY <1>1, Invariant, PTL
=============================================================================
