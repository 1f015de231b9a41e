------------------------------- MODULE People --------------------------------
(***************************************************************************)
(* The people of a tenant: admin requests of the HTTP API run write_actions, *)
(* each of whose writes appends one cycle to the ledger, and the identity    *)
(* reactivities propose people, positions and resource roles of their own.   *)
(*                                                                          *)
(* A cycle is one step (module Ledger). Instead of the rows themselves the   *)
(* state keeps what the code folds them to: the projection (persons, owner,  *)
(* grants), _current_identities_for_person (held), resolve_platform_id       *)
(* (bound), the review queue (pending) and the dedup sets of the             *)
(* reactivities (known, knownPos, knownRes).                                 *)
(***************************************************************************)
EXTENDS Integers, FiniteSets

CONSTANTS
  Persons,     \* person ids
  Idents,      \* (platform, platform_user_id) pairs
  Positions,   \* position slugs
  Roles,       \* grants by facet and role, "tenancy" among their facets
  Resources,   \* resource ids
  Admins,      \* concurrent requests
  Nobody, NoPosition,
  Silent,      \* WORMBASE_SILENT_MODE
  Ops,         \* handlers and reactivities that run
  MaxRequests, \* bound on requests and fires
  MaxAborts    \* bound on requests that die half-way

ASSUME NobodyAssumption == Nobody \notin Persons /\ NoPosition \notin Positions
ASSUME SilentAssumption == Silent \in BOOLEAN
ASSUME CountAssumption == {MaxRequests, MaxAborts} \subseteq Nat

VARIABLES
  persons,   \* projection: status and position of each person
  owner,     \* projection: person_identities
  grants,    \* projection: unrevoked grants
  held, bound, pending, known, knownPos, knownRes,  \* other folds
  req,       \* the requests in flight
  worm,      \* the reactivity in flight
  requests, aborts,
  unlinked,  \* history: identities unlinked by request or split
  owed,      \* history: merges that died and were not repeated
  proposedBy,  \* history: people the worm proposed, by identity
  raised     \* history: a request ended in AttributeError

identities == <<owner, held, bound, known>>
positions == <<pending, knownPos>>
projection == <<persons, identities, positions, grants, knownRes>>
history == <<unlinked, owed, proposedBy, raised>>
vars == <<projection, req, worm, requests, aborts, history>>

Facets == {"tenancy", "domain", "resource"}
Role == [facet : Facets, role : Roles]
None == [status |-> "none", position |-> NoPosition]
Idle == [pc |-> "idle", op |-> "none", from |-> Nobody, to |-> Nobody, todo |-> {},
         keep |-> {}, at |-> {}, start |-> {}, seed |-> FALSE, disturbed |-> FALSE]
WormIdle == [op |-> "idle", person |-> Nobody, about |-> Nobody]

Init ==
  /\ persons = [p \in Persons |-> None]
  /\ owner = [i \in Idents |-> Nobody] /\ bound = owner
  /\ grants = [p \in Persons |-> [g \in Role |-> 0]]
  /\ held = [p \in Persons |-> {}] /\ known = {} /\ knownPos = {} /\ knownRes = {}
  /\ pending = [p \in Persons |-> NoPosition]
  /\ req = [a \in Admins |-> Idle] /\ worm = WormIdle
  /\ requests = 0 /\ aborts = 0
  /\ unlinked = {} /\ owed = {} /\ proposedBy = [i \in Idents |-> {}] /\ raised = FALSE

Exists(p) == persons[p].status # "none"

-----------------------------------------------------------------------------
(* What each kind of cycle does to the folds.                               *)

(* Fault: a row for a linked identity is replaced.                          *)
LinkReplaces(p, i) ==
  /\ owner' = [owner EXCEPT ![i] = p]
  /\ held' = [held EXCEPT ![p] = @ \cup {i}]
  /\ bound' = bound
  /\ known' = known \cup {i}

(* The projection keeps the first row it saw for an identity, the resolver  *)
(* the latest.                                                              *)
Bind(p, i) ==
  /\ owner' = [owner EXCEPT ![i] = IF @ = Nobody THEN p ELSE @]
  /\ held' = [held EXCEPT ![p] = @ \cup {i}]
  /\ bound' = [bound EXCEPT ![i] = p]
  /\ known' = known \cup {i}

emit_person_proposed(p, i, x) ==
  /\ persons' = [persons EXCEPT ![p] = [status |-> "proposed", position |-> x]]
  /\ Bind(p, i)
  /\ knownPos' = IF x = NoPosition THEN knownPos ELSE knownPos \cup {p}
  /\ UNCHANGED <<pending, grants, knownRes>>

SetStatus(p, s) ==
  /\ persons' = IF Exists(p) THEN [persons EXCEPT ![p].status = s] ELSE persons
  /\ UNCHANGED <<identities, positions, grants, knownRes>>

emit_person_confirmed(p) == SetStatus(p, "active")
emit_person_archived(p) == SetStatus(p, "archived")

emit_identity_linked(p, i) ==
  /\ Bind(p, i)
  /\ UNCHANGED <<persons, positions, grants, knownRes>>

(* The projection and the resolver drop the identity whoever holds it.      *)
emit_identity_unlinked(p, i) ==
  /\ owner' = [owner EXCEPT ![i] = Nobody]
  /\ bound' = [bound EXCEPT ![i] = Nobody]
  /\ held' = [held EXCEPT ![p] = @ \ {i}]
  /\ UNCHANGED <<persons, known, positions, grants, knownRes>>

emit_position_proposed(p, x) ==
  /\ persons' = IF Exists(p) THEN [persons EXCEPT ![p].position = x] ELSE persons
  /\ pending' = [pending EXCEPT ![p] = x]
  /\ knownPos' = knownPos \cup {p}
  /\ UNCHANGED <<identities, grants, knownRes>>

emit_position_confirmed(p, x) ==
  /\ pending' = [pending EXCEPT ![p] = NoPosition]
  /\ UNCHANGED <<persons, identities, knownPos, grants, knownRes>>

emit_position_rejected(p, x) ==
  /\ persons' = IF persons[p].position = x
                THEN [persons EXCEPT ![p].position = NoPosition] ELSE persons
  /\ pending' = [pending EXCEPT ![p] = NoPosition]
  /\ UNCHANGED <<identities, knownPos, grants, knownRes>>

(* Every grant is a row of its own, also when the role is already held.     *)
emit_role_assigned(p, g) ==
  /\ grants' = [grants EXCEPT ![p][g] = @ + 1]
  /\ UNCHANGED <<persons, identities, positions, knownRes>>

emit_resource_role_assigned(p, r, g) ==
  /\ grants' = [grants EXCEPT ![p][g] = @ + 1]
  /\ knownRes' = knownRes \cup {<<p, r>>}
  /\ UNCHANGED <<persons, identities, positions>>

(* A revocation stamps one unrevoked grant.                                 *)
emit_role_revoked(p, g) ==
  /\ grants' = [grants EXCEPT ![p][g] = IF @ = 0 THEN 0 ELSE @ - 1]
  /\ UNCHANGED <<persons, identities, positions, knownRes>>

(* _pevr: in silent mode the write is recorded as suppressed and not made.  *)
pevr(write) == IF Silent THEN UNCHANGED projection ELSE write

-----------------------------------------------------------------------------
(* write_actions of one cycle, and the handlers that call them.             *)
propose_person(p, i, x) == ~Exists(p) /\ pevr(emit_person_proposed(p, i, x))
confirm_person(p) == pevr(emit_person_confirmed(p))
archive_person(p) == pevr(emit_person_archived(p))
link_identity(p, i) == pevr(emit_identity_linked(p, i))
unlink_identity(p, i) == pevr(emit_identity_unlinked(p, i))
propose_position(p, x) == pevr(emit_position_proposed(p, x))
confirm_position_proposal(p, x) == pevr(emit_position_confirmed(p, x))
reject_position_proposal(p, x) == pevr(emit_position_rejected(p, x))
grant_tenancy_role(p, r) == pevr(emit_role_assigned(p, [facet |-> "tenancy", role |-> r]))
grant_domain_role(p, r) == pevr(emit_role_assigned(p, [facet |-> "domain", role |-> r]))
grant_resource_role(p, id, r) ==
  pevr(emit_resource_role_assigned(p, id, [facet |-> "resource", role |-> r]))
propose_resource_role(p, id, r) ==
  pevr(emit_resource_role_assigned(p, id, [facet |-> "resource", role |-> r]))
revoke_tenancy_role(p, r) == pevr(emit_role_revoked(p, [facet |-> "tenancy", role |-> r]))

(* A request of a starts. Its writes disturb the requests in flight.        *)
Disturb(a, r) ==
  req' = [b \in Admins |-> IF b = a THEN r
                           ELSE [req[b] EXCEPT !.disturbed = req[b].pc # "idle"]]

Request(op, a) ==
  /\ op \in Ops /\ req[a].pc = "idle" /\ requests < MaxRequests
  /\ requests' = requests + 1

(* A request that is a single write.                                        *)
Single(op, a) ==
  Request(op, a) /\ Disturb(a, Idle) /\ UNCHANGED <<worm, aborts, owed, proposedBy, raised>>

(* Ids that are neither in use nor promised to a split in flight.           *)
Fresh == {p \in Persons : ~Exists(p) /\ \A b \in Admins : req[b].to # p}

post_people(a) ==
  \E p \in Fresh, i \in Idents, x \in Positions \cup {NoPosition} :
    Single("propose", a) /\ propose_person(p, i, x) /\ UNCHANGED unlinked

post_person_confirm(a) ==
  \E p \in Persons : Single("confirm", a) /\ confirm_person(p) /\ UNCHANGED unlinked

post_person_archive(a) ==
  \E p \in Persons : Single("archive", a) /\ archive_person(p) /\ UNCHANGED unlinked

post_person_identities(a) ==
  \E p \in Persons, i \in Idents :
    Single("link", a) /\ link_identity(p, i) /\ UNCHANGED unlinked

delete_person_identity(a) ==
  \E p \in Persons, i \in Idents :
    Single("unlink", a) /\ unlink_identity(p, i) /\ unlinked' = unlinked \cup {i}

post_person_position_confirm(a) ==
  \E p \in Persons, x \in Positions :
    Single("position", a) /\ confirm_position_proposal(p, x) /\ UNCHANGED unlinked

post_person_position_reject(a) ==
  \E p \in Persons, x \in Positions :
    Single("position", a) /\ reject_position_proposal(p, x) /\ UNCHANGED unlinked

post_person_roles(a) ==
  \E p \in Persons, r \in Roles :
    /\ Single("role", a) /\ UNCHANGED unlinked
    /\ \/ grant_tenancy_role(p, r) \/ grant_domain_role(p, r)
       \/ \E id \in Resources : grant_resource_role(p, id, r)

post_person_role_revoke(a) ==
  \E p \in Persons, r \in Roles :
    Single("role", a) /\ revoke_tenancy_role(p, r) /\ UNCHANGED unlinked

-----------------------------------------------------------------------------
(* Requests of several cycles. In silent mode the first write returns a     *)
(* result without entry_ids, and reading them raises.                       *)
After(a, r) ==
  /\ Disturb(a, IF Silent THEN Idle ELSE r)
  /\ raised' = (raised \/ Silent)
  /\ UNCHANGED <<worm, requests, aborts, proposedBy>>

InRequest(a, op, pc) == req[a].op = op /\ req[a].pc = pc

(* merge_persons: fold the mergee, then the keeper.                         *)
post_people_merge(a) ==
  \E k, m \in Persons :
    /\ k # m /\ Request("merge", a)
    /\ req' = [req EXCEPT ![a] = [Idle EXCEPT !.pc = "fold", !.op = "merge", !.from = m,
                                    !.to = k, !.todo = held[m], !.start = held[m]]]
    /\ UNCHANGED <<projection, worm, aborts, history>>

MergeFold(a) ==
  /\ InRequest(a, "merge", "fold")
  /\ req' = [req EXCEPT ![a].pc = "next", ![a].keep = held[req[a].to]]
  /\ UNCHANGED <<projection, worm, requests, aborts, history>>

(* Fault: an identity the keeper has stays with the mergee.                 *)
MergeUnlinkSkips(a) ==
  LET r == req[a] IN
  /\ InRequest(a, "merge", "next")
  /\ \E i \in r.todo :
       /\ IF i \in r.keep THEN UNCHANGED projection ELSE unlink_identity(r.from, i)
       /\ After(a, [r EXCEPT !.todo = @ \ {i}, !.at = {i} \ r.keep,
                             !.pc = IF i \in r.keep THEN "next" ELSE "link"])
  /\ UNCHANGED <<unlinked, owed>>

(* The next identity leaves the mergee; it is linked to the keeper unless   *)
(* the keeper had it.                                                       *)
MergeUnlink(a) ==
  LET r == req[a] IN
  /\ InRequest(a, "merge", "next")
  /\ \E i \in r.todo :
       /\ unlink_identity(r.from, i)
       /\ After(a, [r EXCEPT !.todo = @ \ {i}, !.at = {i} \ r.keep,
                             !.pc = IF i \in r.keep THEN "next" ELSE "link"])
  /\ UNCHANGED <<unlinked, owed>>

MergeLink(a) ==
  LET r == req[a] IN
  /\ InRequest(a, "merge", "link")
  /\ \E i \in r.at :
       /\ link_identity(r.to, i)
       /\ After(a, [r EXCEPT !.keep = @ \cup {i}, !.pc = "next"])
  /\ UNCHANGED <<unlinked, owed>>

MergeArchive(a) ==
  LET r == req[a] IN
  /\ InRequest(a, "merge", "next") /\ r.todo = {}
  /\ archive_person(r.from)
  /\ After(a, [r EXCEPT !.pc = "merged"])
  /\ owed' = owed \ {<<r.to, r.from>>}
  /\ UNCHANGED unlinked

(* split_person: propose the new person with one identity, unlink it from   *)
(* the source, then move the others.                                        *)
post_person_split(a) ==
  \E p \in Persons, q \in Fresh, s \in SUBSET Idents : \E seed \in s :
    /\ p # q /\ Request("split", a)
    /\ req' = [req EXCEPT ![a] = [Idle EXCEPT !.pc = "propose", !.op = "split", !.from = p,
                                    !.to = q, !.at = {seed}, !.todo = s \ {seed}, !.start = s,
                                    !.seed = TRUE]]
    /\ UNCHANGED <<projection, worm, aborts, history>>

SplitPropose(a) ==
  LET r == req[a] IN
  /\ InRequest(a, "split", "propose")
  /\ \E i \in r.at : propose_person(r.to, i, NoPosition)
  /\ After(a, [r EXCEPT !.pc = "unlink"])
  /\ UNCHANGED <<unlinked, owed>>

SplitUnlink(a) ==
  LET r == req[a] IN
  /\ InRequest(a, "split", "unlink")
  /\ \E i \in r.at :
       /\ unlink_identity(r.from, i)
       /\ unlinked' = unlinked \cup {i}
       /\ After(a, [r EXCEPT !.pc = IF r.seed THEN "next" ELSE "link", !.seed = FALSE])
  /\ UNCHANGED owed

SplitNext(a) ==
  LET r == req[a] IN
  /\ InRequest(a, "split", "next")
  /\ IF r.todo = {}
     THEN req' = [req EXCEPT ![a].pc = "split"]
     ELSE \E i \in r.todo :
            req' = [req EXCEPT ![a].at = {i}, ![a].todo = @ \ {i}, ![a].pc = "unlink"]
  /\ UNCHANGED <<projection, worm, requests, aborts, history>>

SplitLink(a) ==
  LET r == req[a] IN
  /\ InRequest(a, "split", "link")
  /\ \E i \in r.at : link_identity(r.to, i)
  /\ After(a, [r EXCEPT !.pc = "next"])
  /\ UNCHANGED <<unlinked, owed>>

(* bulk_confirm_persons: one cycle per distinct person.                     *)
post_people_bulk_confirm(a) ==
  \E s \in (SUBSET Persons) \ {{}} :
    /\ Request("bulk", a)
    /\ req' = [req EXCEPT ![a] = [Idle EXCEPT !.pc = "next", !.op = "bulk", !.todo = s]]
    /\ UNCHANGED <<projection, worm, aborts, history>>

BulkConfirm(a) ==
  LET r == req[a] IN
  /\ InRequest(a, "bulk", "next")
  /\ \E p \in r.todo :
       /\ confirm_person(p)
       /\ After(a, IF r.todo = {p} THEN Idle ELSE [r EXCEPT !.todo = @ \ {p}])
  /\ UNCHANGED <<unlinked, owed>>

(* The response is sent.                                                    *)
Respond(a) ==
  /\ req[a].pc \in {"merged", "split"}
  /\ req' = [req EXCEPT ![a] = Idle]
  /\ UNCHANGED <<projection, worm, requests, aborts, history>>

(* A request dies between two writes: a write raised, or the process died.  *)
Abort(a) ==
  /\ req[a].pc \notin {"idle", "merged", "split"} /\ aborts < MaxAborts
  /\ aborts' = aborts + 1
  /\ req' = [req EXCEPT ![a] = Idle]
  /\ owed' = IF req[a].op = "merge" THEN owed \cup {<<req[a].to, req[a].from>>} ELSE owed
  /\ UNCHANGED <<projection, worm, requests, unlinked, proposedBy, raised>>

-----------------------------------------------------------------------------
(* The reactivities fire one at a time: fold, then write.                   *)
Fire(op, person, about) ==
  /\ op \in Ops /\ worm.op = "idle" /\ requests < MaxRequests
  /\ requests' = requests + 1
  /\ worm' = [op |-> op, person |-> person, about |-> about]
  /\ UNCHANGED <<projection, req, aborts, history>>

UnknownPlatformId(i) == i \notin known /\ Fire("discover", Nobody, i)
PositionInference(p, x) == Exists(p) /\ p \notin knownPos /\ Fire("infer", p, x)
ResourceOwnership(p, id) ==
  Exists(p) /\ <<p, id>> \notin knownRes /\ Fire("own", p, id)

(* The write at the end of a fire; without one (the lookup finds nobody,    *)
(* the write raises) nothing is left behind.                                *)
WormWrites ==
  /\ worm.op # "idle"
  /\ \/ /\ worm.op = "discover"
        /\ \E p \in Fresh :
             /\ propose_person(p, worm.about, NoPosition)
             /\ proposedBy' = IF Silent THEN proposedBy
                              ELSE [proposedBy EXCEPT ![worm.about] = @ \cup {p}]
     \/ /\ worm.op = "infer" /\ propose_position(worm.person, worm.about)
        /\ UNCHANGED proposedBy
     \/ /\ worm.op = "own" /\ \E r \in Roles : propose_resource_role(worm.person, worm.about, r)
        /\ UNCHANGED proposedBy
  /\ worm' = WormIdle
  /\ Disturb(Nobody, Idle)
  /\ UNCHANGED <<requests, aborts, unlinked, owed, raised>>

WormDeclines ==
  /\ worm.op # "idle"
  /\ worm' = WormIdle
  /\ UNCHANGED <<projection, req, requests, aborts, history>>

Handler(a) ==
  \/ post_people(a) \/ post_person_confirm(a) \/ post_person_archive(a)
  \/ post_person_identities(a) \/ delete_person_identity(a)
  \/ post_person_position_confirm(a) \/ post_person_position_reject(a)
  \/ post_person_roles(a) \/ post_person_role_revoke(a)
  \/ post_people_merge(a) \/ MergeFold(a) \/ MergeUnlink(a) \/ MergeLink(a) \/ MergeArchive(a)
  \/ post_person_split(a) \/ SplitPropose(a) \/ SplitUnlink(a) \/ SplitNext(a) \/ SplitLink(a)
  \/ post_people_bulk_confirm(a) \/ BulkConfirm(a) \/ Respond(a) \/ Abort(a)

Reactivity ==
  \/ \E i \in Idents : UnknownPlatformId(i)
  \/ \E p \in Persons, x \in Positions : PositionInference(p, x)
  \/ \E p \in Persons, id \in Resources : ResourceOwnership(p, id)
  \/ WormWrites \/ WormDeclines

Next == (\E a \in Admins : Handler(a)) \/ Reactivity

Spec == Init /\ [][Next]_vars

-----------------------------------------------------------------------------
(* The folds, the requests in flight and the reactivity have their types.   *)
FoldsOK ==
  /\ persons \in [Persons -> [status : {"none", "proposed", "active", "archived"},
                              position : Positions \cup {NoPosition}]]
  /\ owner \in [Idents -> Persons \cup {Nobody}] /\ bound \in [Idents -> Persons \cup {Nobody}]
  /\ grants \in [Persons -> [Role -> Nat]]
  /\ held \in [Persons -> SUBSET Idents] /\ known \subseteq Idents
  /\ pending \in [Persons -> Positions \cup {NoPosition}]
  /\ knownPos \subseteq Persons /\ knownRes \subseteq Persons \X Resources

Requests ==
  [pc : {"idle", "fold", "next", "link", "propose", "unlink", "merged", "split"},
   op : {"none", "merge", "split", "bulk"}, from : Persons \cup {Nobody},
   to : Persons \cup {Nobody}, todo : SUBSET (Idents \cup Persons), keep : SUBSET Idents,
   at : SUBSET Idents, start : SUBSET Idents, seed : BOOLEAN, disturbed : BOOLEAN]

RequestOK(r) ==
  /\ r \in Requests
  /\ r.op \in {"merge", "split"} => r.from \in Persons /\ r.to \in Persons /\ r.todo \subseteq Idents
  /\ r.op = "bulk" => r.todo \subseteq Persons

RequestsOK ==
  /\ req \in [Admins -> Requests]
  /\ \A a \in Admins : RequestOK(req[a])

WormOK ==
  /\ worm.op = "discover" => worm.about \in Idents
  /\ worm.op = "infer" => worm.person \in Persons /\ worm.about \in Positions
  /\ worm.op = "own" => worm.person \in Persons /\ worm.about \in Resources

TypeOK == FoldsOK /\ RequestsOK /\ WormOK

(* The folds agree on who may hold an identity: the projection and the      *)
(* resolver know the same identities, each of them names a person to whom   *)
(* the audit fold says it is attached, and the worm knows it too.           *)
FoldsAgree ==
  \A i \in Idents :
    /\ (owner[i] = Nobody) <=> (bound[i] = Nobody)
    /\ owner[i] # Nobody => i \in held[owner[i]] /\ i \in held[bound[i]]
    /\ (\E p \in Persons : i \in held[p]) => i \in known

(* A merge that returns, undisturbed by other writes, has moved everything  *)
(* the mergee held to the keeper and left the mergee archived.              *)
MergeMovesAll ==
  \A a \in Admins :
    (req[a].pc = "merged" /\ ~req[a].disturbed) =>
      /\ held[req[a].from] = {} /\ req[a].start \subseteq held[req[a].to]
      /\ persons[req[a].from].status \in {"none", "archived"}

(* The worm proposes one person per identity, whatever the admins do        *)
(* between its fold and its write.                                          *)
DiscoveredOnce == \A i \in Idents : Cardinality(proposedBy[i]) <= 1

(* A proposal that waits for review is the one the projection shows.        *)
QueueMatchesProjection ==
  \A p \in Persons : (pending[p] # NoPosition /\ Exists(p)) => persons[p].position = pending[p]

(* split_person: the proposal links the seed to the new person. When the    *)
(* split returns undisturbed, the projection has every identity there.      *)
SplitMovesAll ==
  \A a \in Admins :
    (req[a].pc = "split" /\ ~req[a].disturbed) =>
      \A i \in req[a].start : owner[i] = req[a].to

(* merge_persons skips the link of an identity the keeper already has: it   *)
(* still has it in the projection afterwards.                               *)
MergeKeepsShared ==
  \A a \in Admins :
    (req[a].pc = "merged" /\ ~req[a].disturbed) =>
      \A i \in req[a].start : owner[i] = req[a].to

(* A merge that died can be repeated: once it has, no identity is left      *)
(* unattached unless it was unlinked on purpose.                            *)
MergeRetriable ==
  (owed = {} /\ \A a \in Admins : req[a].op = "none") =>
    \A i \in known \ unlinked : \E p \in Persons : i \in held[p]

(* I2: an identity that is attached belongs to a person who is not          *)
(* archived.                                                                *)
NoOrphans ==
  \A p \in Persons : persons[p].status = "archived" => held[p] = {}

(* Rejecting a position clears it and frees the reactivity's dedup gate.    *)
RejectReopens ==
  \A p \in Persons :
    (persons[p].status # "none" /\ persons[p].position = NoPosition) => p \notin knownPos

(* Silent mode never raises AttributeError.                                 *)
SilentNeverRaises == ~raised

(* A merge moves every identity of a person, and the worm discovers one      *)
(* person per identity (write_actions.py, reactivities/identity.py).         *)
IdentitiesStand == MergeMovesAll /\ DiscoveredOnce
=============================================================================
