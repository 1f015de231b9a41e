----------------------------- MODULE PeopleProofs ----------------------------
(***************************************************************************)
(* The folds of a tenant's people agree, whatever the admins and the worm   *)
(* do, in whatever order, and wherever a merge or a split dies.             *)
(*                                                                          *)
(* Every step writes at most one cycle (Written): the folds are followed    *)
(* through the cycles, the requests and the worm through the steps.         *)
(***************************************************************************)
EXTENDS People, FiniteSetTheorems, TLAPS

Inv == TypeOK /\ FoldsAgree

(* The cycles a step may write, with arguments of their types.              *)
Written ==
  \/ \E p \in Persons, i \in Idents, x \in Positions \cup {NoPosition} :
       emit_person_proposed(p, i, x)
  \/ \E p \in Persons : emit_person_confirmed(p) \/ emit_person_archived(p)
  \/ \E p \in Persons, i \in Idents :
       emit_identity_linked(p, i) \/ emit_identity_unlinked(p, i)
  \/ \E p \in Persons, x \in Positions :
       \/ emit_position_proposed(p, x) \/ emit_position_confirmed(p, x)
       \/ emit_position_rejected(p, x)
  \/ \E p \in Persons, g \in Role : emit_role_assigned(p, g) \/ emit_role_revoked(p, g)
  \/ \E p \in Persons, r \in Resources, g \in Role : emit_resource_role_assigned(p, r, g)
  \/ UNCHANGED projection

-----------------------------------------------------------------------------
(* A new attachment is known to every fold.                                 *)
LEMMA BindAgrees ==
  ASSUME FoldsOK, FoldsAgree, NEW p \in Persons, NEW i \in Idents, Bind(p, i)
  PROVE  /\ FoldsAgree'
         /\ owner' \in [Idents -> Persons \cup {Nobody}]
         /\ bound' \in [Idents -> Persons \cup {Nobody}]
         /\ held' \in [Persons -> SUBSET Idents] /\ known' \subseteq Idents
  BY NobodyAssumption, SMTT(30) DEF FoldsOK, FoldsAgree, Bind

(* A detached identity is dropped by the projection and the resolver alike. *)
LEMMA UnlinkAgrees ==
  ASSUME FoldsOK, FoldsAgree, NEW p \in Persons, NEW i \in Idents,
         emit_identity_unlinked(p, i)
  PROVE  FoldsOK' /\ FoldsAgree'
  BY NobodyAssumption, SMTT(30) DEF FoldsOK, FoldsAgree, emit_identity_unlinked, positions

LEMMA ProposeAgrees ==
  ASSUME FoldsOK, FoldsAgree, NEW p \in Persons, NEW i \in Idents,
         NEW x \in Positions \cup {NoPosition}, emit_person_proposed(p, i, x)
  PROVE  FoldsOK' /\ FoldsAgree'
  <1>1. Bind(p, i)
    BY DEF emit_person_proposed
  <1>2. persons' \in [Persons -> [status : {"none", "proposed", "active", "archived"},
                                  position : Positions \cup {NoPosition}]]
    BY DEF emit_person_proposed, FoldsOK
  <1>3. knownPos' \subseteq Persons
    BY DEF emit_person_proposed, FoldsOK
  <1> QED
    BY <1>1, <1>2, <1>3, BindAgrees DEF emit_person_proposed, FoldsOK

LEMMA LinkAgrees ==
  ASSUME FoldsOK, FoldsAgree, NEW p \in Persons, NEW i \in Idents,
         emit_identity_linked(p, i)
  PROVE  FoldsOK' /\ FoldsAgree'
  BY BindAgrees DEF emit_identity_linked, positions, FoldsOK

(* A cycle that touches neither links nor unlinks leaves the folds agreed.  *)
LEMMA Unattached ==
  ASSUME FoldsAgree, UNCHANGED identities PROVE FoldsAgree'
  BY DEF FoldsAgree, identities

LEMMA StatusOK ==
  ASSUME FoldsOK, NEW p \in Persons, NEW s \in {"active", "archived"}, SetStatus(p, s)
  PROVE  FoldsOK' /\ UNCHANGED identities
  <1>1. persons' \in [Persons -> [status : {"none", "proposed", "active", "archived"},
                                  position : Positions \cup {NoPosition}]]
    BY DEF SetStatus, FoldsOK
  <1> QED
    BY <1>1 DEF SetStatus, identities, positions, FoldsOK

LEMMA PositionOK ==
  ASSUME FoldsOK, NEW p \in Persons, NEW x \in Positions,
         \/ emit_position_proposed(p, x) \/ emit_position_confirmed(p, x)
         \/ emit_position_rejected(p, x)
  PROVE  FoldsOK' /\ UNCHANGED identities
  <1>1. persons' \in [Persons -> [status : {"none", "proposed", "active", "archived"},
                                  position : Positions \cup {NoPosition}]]
    BY DEF emit_position_proposed, emit_position_confirmed, emit_position_rejected, FoldsOK
  <1>2. pending' \in [Persons -> Positions \cup {NoPosition}] /\ knownPos' \subseteq Persons
    BY DEF emit_position_proposed, emit_position_confirmed, emit_position_rejected, FoldsOK
  <1>3. UNCHANGED <<identities, grants, knownRes>>
    BY DEF emit_position_proposed, emit_position_confirmed, emit_position_rejected, identities
  <1> QED
    BY <1>1, <1>2, <1>3 DEF identities, FoldsOK

LEMMA GrantOK ==
  ASSUME FoldsOK, NEW p \in Persons, NEW g \in Role,
         \/ emit_role_assigned(p, g) \/ emit_role_revoked(p, g)
         \/ \E r \in Resources : emit_resource_role_assigned(p, r, g)
  PROVE  FoldsOK' /\ UNCHANGED identities
  <1>1. grants' \in [Persons -> [Role -> Nat]]
    <2>1. \E n \in Nat : grants' = [grants EXCEPT ![p][g] = n]
      <3>1. grants[p][g] \in Nat
        BY DEF FoldsOK
      <3>2. grants[p][g] + 1 \in Nat
        BY <3>1
      <3>3. (IF grants[p][g] = 0 THEN 0 ELSE grants[p][g] - 1) \in Nat
        BY <3>1
      <3> QED
        BY <3>2, <3>3 DEF emit_role_assigned, emit_role_revoked, emit_resource_role_assigned
    <2> QED
      BY <2>1 DEF FoldsOK
  <1>2. knownRes' \subseteq Persons \X Resources
    BY DEF emit_role_assigned, emit_role_revoked, emit_resource_role_assigned, FoldsOK
  <1>3. UNCHANGED <<persons, identities, positions>>
    BY DEF emit_role_assigned, emit_role_revoked, emit_resource_role_assigned
  <1> QED
    BY <1>1, <1>2, <1>3 DEF identities, positions, FoldsOK

(* Whatever a step writes, the folds stay well typed and agreed.            *)
LEMMA WrittenAgrees ==
  ASSUME FoldsOK, FoldsAgree, Written PROVE FoldsOK' /\ FoldsAgree'
  <1>1. CASE \E p \in Persons, i \in Idents, x \in Positions \cup {NoPosition} :
               emit_person_proposed(p, i, x)
    BY <1>1, ProposeAgrees
  <1>2. CASE \E p \in Persons : emit_person_confirmed(p) \/ emit_person_archived(p)
    BY <1>2, StatusOK, Unattached DEF emit_person_confirmed, emit_person_archived
  <1>3. CASE \E p \in Persons, i \in Idents :
               emit_identity_linked(p, i) \/ emit_identity_unlinked(p, i)
    BY <1>3, LinkAgrees, UnlinkAgrees
  <1>4. CASE \E p \in Persons, x \in Positions :
               \/ emit_position_proposed(p, x) \/ emit_position_confirmed(p, x)
               \/ emit_position_rejected(p, x)
    BY <1>4, PositionOK, Unattached
  <1>5. CASE \E p \in Persons, g \in Role : emit_role_assigned(p, g) \/ emit_role_revoked(p, g)
    BY <1>5, GrantOK, Unattached
  <1>6. CASE \E p \in Persons, r \in Resources, g \in Role :
               emit_resource_role_assigned(p, r, g)
    BY <1>6, GrantOK, Unattached
  <1>7. CASE UNCHANGED projection
    BY <1>7 DEF projection, identities, positions, FoldsOK, FoldsAgree
  <1> QED
    BY <1>1, <1>2, <1>3, <1>4, <1>5, <1>6, <1>7 DEF Written

-----------------------------------------------------------------------------
(* A request that starts, goes on or ends leaves every request well typed.  *)
LEMMA RequestOKHere ==
  ASSUME RequestsOK, NEW a \in Admins, NEW r, RequestOK(r),
         \/ Disturb(a, r) \/ req' = [req EXCEPT ![a] = r]
  PROVE  RequestsOK'
  <1>1. CASE req' = [req EXCEPT ![a] = r]
    BY <1>1 DEF RequestsOK, RequestOK
  <1>2. CASE Disturb(a, r)
    <2>1. ASSUME NEW b \in Admins
          PROVE  RequestOK([req[b] EXCEPT !.disturbed = req[b].pc # "idle"])
      BY DEF RequestsOK, RequestOK, Requests
    <2>2. \A b \in Admins : RequestOK(req'[b])
      BY <1>2, <2>1 DEF Disturb
    <2>3. req' \in [Admins -> Requests]
      BY <1>2, <2>1 DEF Disturb, RequestOK
    <2> QED
      BY <2>2, <2>3 DEF RequestsOK, RequestOK
  <1> QED
    BY <1>1, <1>2

LEMMA IdleOK == RequestOK(Idle)
  BY DEF Idle, RequestOK, Requests

(* The cycles of the write actions, silent mode or not.                     *)
LEMMA PersonWrites ==
  ASSUME NEW p \in Persons, NEW i \in Idents, NEW x \in Positions \cup {NoPosition},
         \/ propose_person(p, i, x) \/ confirm_person(p) \/ archive_person(p)
         \/ link_identity(p, i) \/ unlink_identity(p, i)
  PROVE  Written
  BY DEF Written, propose_person, confirm_person, archive_person, link_identity,
         unlink_identity, pevr

LEMMA StatusWrites ==
  ASSUME NEW p \in Persons, confirm_person(p) \/ archive_person(p)
  PROVE  Written
  BY DEF Written, confirm_person, archive_person, pevr

LEMMA PositionWrites ==
  ASSUME NEW p \in Persons, NEW x \in Positions,
         \/ propose_position(p, x) \/ confirm_position_proposal(p, x)
         \/ reject_position_proposal(p, x)
  PROVE  Written
  BY DEF Written, propose_position, confirm_position_proposal, reject_position_proposal, pevr

LEMMA RoleWrites ==
  ASSUME NEW p \in Persons, NEW r \in Roles,
         \/ grant_tenancy_role(p, r) \/ grant_domain_role(p, r) \/ revoke_tenancy_role(p, r)
         \/ \E id \in Resources : grant_resource_role(p, id, r) \/ propose_resource_role(p, id, r)
  PROVE  Written
  <1>1. \A f \in Facets : [facet |-> f, role |-> r] \in Role
    BY DEF Role
  <1> QED
    BY <1>1 DEF Written, Facets, grant_tenancy_role, grant_domain_role, revoke_tenancy_role,
                grant_resource_role, propose_resource_role, pevr

-----------------------------------------------------------------------------
(* Requests of a single write.                                              *)
LEMMA SingleSteps ==
  ASSUME TypeOK, NEW a \in Admins,
         \/ post_people(a) \/ post_person_confirm(a) \/ post_person_archive(a)
         \/ post_person_identities(a) \/ delete_person_identity(a)
         \/ post_person_position_confirm(a) \/ post_person_position_reject(a)
         \/ post_person_roles(a) \/ post_person_role_revoke(a)
  PROVE  Written /\ RequestsOK' /\ WormOK'
  <1>1. Disturb(a, Idle) /\ UNCHANGED worm
    BY DEF post_people, post_person_confirm, post_person_archive, post_person_identities,
           delete_person_identity, post_person_position_confirm, post_person_position_reject,
           post_person_roles, post_person_role_revoke, Single
  <1>2. RequestsOK' /\ WormOK'
    BY <1>1, IdleOK, RequestOKHere DEF TypeOK, WormOK
  <1>3. CASE post_people(a)
    BY <1>3, <1>2, PersonWrites DEF post_people, Fresh
  <1>4. CASE post_person_confirm(a) \/ post_person_archive(a)
    BY <1>4, <1>2, StatusWrites DEF post_person_confirm, post_person_archive
  <1>5. CASE post_person_identities(a) \/ delete_person_identity(a)
    BY <1>5, <1>2, PersonWrites DEF post_person_identities, delete_person_identity
  <1>6. CASE post_person_position_confirm(a) \/ post_person_position_reject(a)
    BY <1>6, <1>2, PositionWrites DEF post_person_position_confirm, post_person_position_reject
  <1>7. CASE post_person_roles(a) \/ post_person_role_revoke(a)
    BY <1>7, <1>2, RoleWrites DEF post_person_roles, post_person_role_revoke
  <1> QED
    BY <1>2, <1>3, <1>4, <1>5, <1>6, <1>7

(* The start and the end of a request that is a sequence of writes.         *)
LEMMA EdgeSteps ==
  ASSUME TypeOK, NEW a \in Admins,
         \/ post_people_merge(a) \/ MergeFold(a) \/ post_person_split(a) \/ SplitNext(a)
         \/ post_people_bulk_confirm(a) \/ Respond(a) \/ Abort(a)
  PROVE  Written /\ RequestsOK' /\ WormOK'
  <1>1. UNCHANGED projection /\ UNCHANGED worm
    BY DEF post_people_merge, MergeFold, post_person_split, SplitNext,
           post_people_bulk_confirm, Respond, Abort, history
  <1>2. Written /\ WormOK'
    BY <1>1 DEF Written, WormOK, TypeOK
  <1>3. CASE post_people_merge(a)
    <2>1. PICK k, m \in Persons :
            req' = [req EXCEPT ![a] = [Idle EXCEPT !.pc = "fold", !.op = "merge", !.from = m,
                                         !.to = k, !.todo = held[m], !.start = held[m]]]
      BY <1>3 DEF post_people_merge
    <2>2. held[m] \subseteq Idents
      BY DEF TypeOK, FoldsOK
    <2>3. RequestOK([Idle EXCEPT !.pc = "fold", !.op = "merge", !.from = m,
                                 !.to = k, !.todo = held[m], !.start = held[m]])
      BY <2>2 DEF Idle, RequestOK, Requests
    <2> QED
      BY <2>1, <2>3, <1>2, RequestOKHere DEF TypeOK
  <1>4. CASE MergeFold(a)
    <2>1. RequestOK(req[a]) /\ req[a].op = "merge"
      BY <1>4 DEF TypeOK, RequestsOK, MergeFold, InRequest
    <2>2. held[req[a].to] \subseteq Idents
      BY <2>1 DEF TypeOK, FoldsOK, RequestOK
    <2>3. RequestOK([req[a] EXCEPT !.pc = "next", !.keep = held[req[a].to]])
      BY <2>1, <2>2 DEF RequestOK, Requests
    <2>4. req' = [req EXCEPT ![a] = [req[a] EXCEPT !.pc = "next", !.keep = held[req[a].to]]]
      BY <1>4 DEF MergeFold
    <2> QED
      BY <2>3, <2>4, <1>2, RequestOKHere DEF TypeOK
  <1>5. CASE post_person_split(a)
    <2>1. PICK p \in Persons, q \in Fresh, s \in SUBSET Idents, seed \in Idents :
            seed \in s /\ req' = [req EXCEPT ![a] = [Idle EXCEPT !.pc = "propose", !.op = "split", !.from = p,
                                         !.to = q, !.at = {seed}, !.todo = s \ {seed},
                                         !.start = s, !.seed = TRUE]]
      BY <1>5 DEF post_person_split
    <2>2. RequestOK([Idle EXCEPT !.pc = "propose", !.op = "split", !.from = p,
                                 !.to = q, !.at = {seed}, !.todo = s \ {seed},
                                 !.start = s, !.seed = TRUE])
      BY <2>1 DEF Idle, RequestOK, Requests, Fresh
    <2> QED
      BY <2>1, <2>2, <1>2, RequestOKHere DEF TypeOK
  <1>6. CASE SplitNext(a)
    <2>1. RequestOK(req[a]) /\ req[a].op = "split"
      BY <1>6 DEF TypeOK, RequestsOK, SplitNext, InRequest
    <2>2. CASE req[a].todo = {}
      <3>1. req' = [req EXCEPT ![a] = [req[a] EXCEPT !.pc = "split"]]
        BY <1>6, <2>2 DEF SplitNext
      <3>2. RequestOK([req[a] EXCEPT !.pc = "split"])
        BY <2>1 DEF RequestOK, Requests
      <3> QED
        BY <3>1, <3>2, <1>2, RequestOKHere DEF TypeOK
    <2>3. CASE req[a].todo # {}
      <3>1. PICK i \in req[a].todo :
              req' = [req EXCEPT ![a] = [req[a] EXCEPT !.at = {i}, !.todo = @ \ {i}, !.pc = "unlink"]]
        BY <1>6, <2>3 DEF SplitNext
      <3>2. RequestOK([req[a] EXCEPT !.at = {i}, !.todo = @ \ {i}, !.pc = "unlink"])
        BY <2>1, <3>1 DEF RequestOK, Requests
      <3> QED
        BY <3>1, <3>2, <1>2, RequestOKHere DEF TypeOK
    <2> QED
      BY <2>2, <2>3
  <1>7. CASE post_people_bulk_confirm(a)
    <2>1. PICK s \in SUBSET Persons :
            req' = [req EXCEPT ![a] = [Idle EXCEPT !.pc = "next", !.op = "bulk", !.todo = s]]
      BY <1>7 DEF post_people_bulk_confirm
    <2>2. RequestOK([Idle EXCEPT !.pc = "next", !.op = "bulk", !.todo = s])
      BY DEF Idle, RequestOK, Requests
    <2> QED
      BY <2>1, <2>2, <1>2, RequestOKHere DEF TypeOK
  <1>8. CASE Respond(a) \/ Abort(a)
    BY <1>8, IdleOK, <1>2, RequestOKHere DEF Respond, Abort, TypeOK
  <1> QED
    BY <1>3, <1>4, <1>5, <1>6, <1>7, <1>8

(* The request goes on as r, or ends because silent mode made it raise.     *)
LEMMA AfterOK ==
  ASSUME TypeOK, NEW a \in Admins, NEW r, RequestOK(r), After(a, r)
  PROVE  RequestsOK' /\ WormOK'
  <1>1. RequestOK(IF Silent THEN Idle ELSE r)
    BY IdleOK
  <1>2. RequestsOK'
    BY <1>1, RequestOKHere DEF After, TypeOK
  <1> QED
    BY <1>2 DEF After, WormOK, TypeOK

(* The writes of a merge, a split and a bulk confirmation.                  *)
LEMMA MoveSteps ==
  ASSUME TypeOK, NEW a \in Admins,
         \/ MergeUnlink(a) \/ MergeLink(a) \/ MergeArchive(a)
         \/ SplitPropose(a) \/ SplitUnlink(a) \/ SplitLink(a) \/ BulkConfirm(a)
  PROVE  Written /\ RequestsOK' /\ WormOK'
  <1> DEFINE r == req[a]
  <1>1. RequestOK(r)
    BY DEF TypeOK, RequestsOK
  <1>2. r \in Requests
    BY <1>1 DEF RequestOK
  <1>3. CASE MergeUnlink(a)
    <2>1. PICK i \in r.todo :
            /\ unlink_identity(r.from, i)
            /\ After(a, [r EXCEPT !.todo = @ \ {i}, !.at = {i} \ r.keep,
                                  !.pc = IF i \in r.keep THEN "next" ELSE "link"])
      BY <1>3 DEF MergeUnlink
    <2>2. r.op = "merge"
      BY <1>3 DEF MergeUnlink, InRequest
    <2>3. r.from \in Persons /\ i \in Idents
      BY <1>1, <2>1, <2>2 DEF RequestOK
    <2>4. RequestOK([r EXCEPT !.todo = @ \ {i}, !.at = {i} \ r.keep,
                              !.pc = IF i \in r.keep THEN "next" ELSE "link"])
      BY <1>1, <2>2, <2>3 DEF RequestOK, Requests
    <2> QED
      BY <2>1, <2>3, <2>4, AfterOK, PersonWrites
  <1>4. CASE MergeLink(a)
    <2>1. PICK i \in r.at :
            link_identity(r.to, i) /\ After(a, [r EXCEPT !.keep = @ \cup {i}, !.pc = "next"])
      BY <1>4 DEF MergeLink
    <2>2. r.op = "merge"
      BY <1>4 DEF MergeLink, InRequest
    <2>3. r.to \in Persons /\ i \in Idents
      BY <1>1, <2>1, <2>2 DEF RequestOK, Requests
    <2>4. RequestOK([r EXCEPT !.keep = @ \cup {i}, !.pc = "next"])
      BY <1>1, <2>2, <2>3 DEF RequestOK, Requests
    <2> QED
      BY <2>1, <2>3, <2>4, AfterOK, PersonWrites
  <1>5. CASE MergeArchive(a)
    <2>1. r.op = "merge" /\ archive_person(r.from) /\ After(a, [r EXCEPT !.pc = "merged"])
      BY <1>5 DEF MergeArchive, InRequest
    <2>2. r.from \in Persons /\ RequestOK([r EXCEPT !.pc = "merged"])
      BY <1>1, <2>1 DEF RequestOK, Requests
    <2> QED
      BY <2>1, <2>2, AfterOK, StatusWrites
  <1>6. CASE SplitPropose(a)
    <2>1. PICK i \in r.at : propose_person(r.to, i, NoPosition)
      BY <1>6 DEF SplitPropose
    <2>2. r.op = "split" /\ After(a, [r EXCEPT !.pc = "unlink"])
      BY <1>6 DEF SplitPropose, InRequest
    <2>3. r.to \in Persons /\ i \in Idents /\ RequestOK([r EXCEPT !.pc = "unlink"])
      BY <1>1, <2>1, <2>2 DEF RequestOK, Requests
    <2> QED
      BY <2>1, <2>2, <2>3, AfterOK, PersonWrites
  <1>7. CASE SplitUnlink(a)
    <2>1. PICK i \in r.at :
            /\ unlink_identity(r.from, i)
            /\ After(a, [r EXCEPT !.pc = IF r.seed THEN "next" ELSE "link", !.seed = FALSE])
      BY <1>7 DEF SplitUnlink
    <2>2. r.op = "split"
      BY <1>7 DEF SplitUnlink, InRequest
    <2>3. r.from \in Persons /\ i \in Idents
      BY <1>1, <2>1, <2>2 DEF RequestOK, Requests
    <2>4. RequestOK([r EXCEPT !.pc = IF r.seed THEN "next" ELSE "link", !.seed = FALSE])
      BY <1>1, <2>2 DEF RequestOK, Requests
    <2> QED
      BY <2>1, <2>3, <2>4, AfterOK, PersonWrites
  <1>8. CASE SplitLink(a)
    <2>1. PICK i \in r.at : link_identity(r.to, i)
      BY <1>8 DEF SplitLink
    <2>2. r.op = "split" /\ After(a, [r EXCEPT !.pc = "next"])
      BY <1>8 DEF SplitLink, InRequest
    <2>3. r.to \in Persons /\ i \in Idents /\ RequestOK([r EXCEPT !.pc = "next"])
      BY <1>1, <2>1, <2>2 DEF RequestOK, Requests
    <2> QED
      BY <2>1, <2>2, <2>3, AfterOK, PersonWrites
  <1>9. CASE BulkConfirm(a)
    <2>1. PICK p \in r.todo :
            /\ confirm_person(p)
            /\ After(a, IF r.todo = {p} THEN Idle ELSE [r EXCEPT !.todo = @ \ {p}])
      BY <1>9 DEF BulkConfirm
    <2>2. r.op = "bulk"
      BY <1>9 DEF BulkConfirm, InRequest
    <2>3. p \in Persons
      BY <1>1, <2>1, <2>2 DEF RequestOK
    <2>4. RequestOK([r EXCEPT !.todo = @ \ {p}])
      BY <1>1, <2>2 DEF RequestOK, Requests
    <2>5. RequestOK(IF r.todo = {p} THEN Idle ELSE [r EXCEPT !.todo = @ \ {p}])
      BY <2>4, IdleOK
    <2> QED
      BY <2>1, <2>3, <2>5, AfterOK, StatusWrites
  <1> QED
    BY <1>3, <1>4, <1>5, <1>6, <1>7, <1>8, <1>9

(* The reactivities.                                                        *)
LEMMA WormSteps ==
  ASSUME TypeOK, Reactivity PROVE Written /\ RequestsOK' /\ WormOK'
  <1>1. CASE \E i \in Idents : UnknownPlatformId(i)
    BY <1>1 DEF UnknownPlatformId, Fire, TypeOK, Written, RequestsOK, WormOK
  <1>2. CASE \E p \in Persons, x \in Positions : PositionInference(p, x)
    BY <1>2 DEF PositionInference, Fire, TypeOK, Written, RequestsOK, WormOK
  <1>3. CASE \E p \in Persons, id \in Resources : ResourceOwnership(p, id)
    BY <1>3 DEF ResourceOwnership, Fire, TypeOK, Written, RequestsOK, WormOK
  <1>4. CASE WormDeclines
    BY <1>4 DEF WormDeclines, WormIdle, TypeOK, Written, RequestsOK, WormOK
  <1>5. CASE WormWrites
    <2>1. WormOK'
      BY <1>5 DEF WormWrites, WormIdle, WormOK
    <2>2. RequestsOK'
      <3>1. Disturb(Nobody, Idle)
        BY <1>5 DEF WormWrites
      <3>2. ASSUME NEW b \in Admins
            PROVE  RequestOK([req[b] EXCEPT !.disturbed = req[b].pc # "idle"])
        BY DEF TypeOK, RequestsOK, RequestOK, Requests
      <3>3. \A b \in Admins : RequestOK(req'[b])
        BY <3>1, <3>2, IdleOK DEF Disturb
      <3>4. req' \in [Admins -> Requests]
        BY <3>1, <3>2, IdleOK DEF Disturb, RequestOK
      <3> QED
        BY <3>3, <3>4 DEF RequestsOK, RequestOK
    <2>3. CASE worm.op = "discover"
      BY <1>5, <2>1, <2>2, <2>3, PersonWrites DEF WormWrites, Fresh, TypeOK, WormOK
    <2>4. CASE worm.op = "infer"
      BY <1>5, <2>1, <2>2, <2>4, PositionWrites DEF WormWrites, TypeOK, WormOK
    <2>5. CASE worm.op = "own"
      BY <1>5, <2>1, <2>2, <2>5, RoleWrites DEF WormWrites, TypeOK, WormOK
    <2> QED
      BY <1>5, <2>1, <2>2, <2>3, <2>4, <2>5 DEF WormWrites
  <1> QED
    BY <1>1, <1>2, <1>3, <1>4, <1>5 DEF Reactivity

-----------------------------------------------------------------------------
(* Initially nobody holds anything and nothing is known.                    *)
LEMMA InitInv == Init => Inv
  <1> SUFFICES ASSUME Init PROVE Inv
    OBVIOUS
  <1>1. FoldsOK
    BY DEF Init, FoldsOK, None
  <1>2. RequestsOK
    BY IdleOK DEF Init, RequestsOK, RequestOK
  <1>3. WormOK
    BY DEF Init, WormOK, WormIdle
  <1>4. FoldsAgree
    BY DEF Init, FoldsAgree
  <1> QED
    BY <1>1, <1>2, <1>3, <1>4 DEF Inv, TypeOK

(* Every step keeps the types and the agreement.                            *)
LEMMA NextInv == Inv /\ [Next]_vars => Inv'
  <1> SUFFICES ASSUME Inv, [Next]_vars PROVE Inv'
    OBVIOUS
  <1>1. Written /\ RequestsOK' /\ WormOK'
    <2>1. CASE \E a \in Admins : Handler(a)
      BY <2>1, SingleSteps, EdgeSteps, MoveSteps DEF Handler, Inv
    <2>2. CASE Reactivity
      BY <2>2, WormSteps DEF Inv
    <2>3. CASE UNCHANGED vars
      BY <2>3 DEF vars, Written, Inv, TypeOK, RequestsOK, WormOK
    <2> QED
      BY <2>1, <2>2, <2>3 DEF Next
  <1> QED
    BY <1>1, WrittenAgrees DEF Inv, TypeOK

(* The projection, the resolver, the audit fold and the dedup set agree on  *)
(* every identity in every reachable state, for any number of people,       *)
(* identities, concurrent requests and requests that died half-way          *)
(* (builder.py, resolver.py, _current_identities_for_person,                *)
(* _rehydrate_known_set).                                                   *)
THEOREM PeopleFoldsAgree == Spec => []FoldsAgree
  <1>1. Inv => FoldsAgree
    BY DEF Inv
  <1> QED
    BY <1>1, InitInv, NextInv, PTL DEF Spec

(* The type invariant of People (write_actions and the folds keep every     *)
(* field in its type).                                                      *)
THEOREM PeopleType == Spec => []TypeOK
  <1>1. Inv => TypeOK
    BY DEF Inv
  <1> QED
    BY <1>1, InitInv, NextInv, PTL DEF Spec

-----------------------------------------------------------------------------
(***************************************************************************)
(* Merges.  MergeMovesAll speaks of a merge that has returned; what every   *)
(* step keeps is the account of one in flight: the identities still to move *)
(* are exactly the ones the mergee holds, the keeper set folded once is     *)
(* still the keeper's, and nothing that was to move is on neither side.     *)
(***************************************************************************)
MergeStands(r, h, ps) ==
  /\ r.pc = "merged" => r.op = "merge"
  /\ (r.op = "merge" /\ ~r.disturbed) =>
       /\ r.pc \in {"fold", "next", "link"} => r.from # r.to /\ h[r.from] = r.todo
       /\ r.pc = "fold" => r.start = r.todo
       /\ r.pc = "next" => r.keep = h[r.to] /\ r.start \subseteq h[r.to] \cup r.todo
       /\ r.pc = "link" => /\ r.keep = h[r.to]
                           /\ r.start \subseteq h[r.to] \cup r.todo \cup r.at
                           /\ \A i, j \in r.at : i = j
       /\ r.pc = "merged" => /\ h[r.from] = {} /\ r.start \subseteq h[r.to]
                             /\ ps[r.from].status \in {"none", "archived"}

MergesStand == \A a \in Admins : MergeStands(req[a], held, persons)

LEMMA IdleStands == \A h, ps : MergeStands(Idle, h, ps)
  BY DEF Idle, MergeStands

(* A write disturbs every other request in flight; a step that writes       *)
(* nothing touches no other request.                                        *)
LEMMA OthersStand ==
  ASSUME RequestsOK, MergesStand, NEW a, NEW r,
         a \in Admins => MergeStands(r, held', persons'),
         \/ Disturb(a, r)
         \/ req' = [req EXCEPT ![a] = r] /\ UNCHANGED projection
  PROVE  MergesStand'
  <1> SUFFICES ASSUME NEW b \in Admins PROVE MergeStands(req'[b], held', persons')
    BY DEF MergesStand
  <1>1. CASE b = a
    BY <1>1 DEF Disturb, RequestsOK
  <1>2. CASE b # a /\ Disturb(a, r)
    <2>1. req'[b] = [req[b] EXCEPT !.disturbed = req[b].pc # "idle"]
      BY <1>2 DEF Disturb
    <2>2. req[b] \in Requests /\ MergeStands(req[b], held, persons)
      BY DEF RequestsOK, MergesStand
    <2>3. /\ req'[b].pc = req[b].pc /\ req'[b].op = req[b].op
          /\ req'[b].disturbed <=> req[b].pc # "idle"
      BY <2>1, <2>2 DEF Requests
    <2> QED
      BY <2>2, <2>3 DEF MergeStands
  <1>3. CASE b # a /\ req' = [req EXCEPT ![a] = r] /\ UNCHANGED projection
    <2>1. req'[b] = req[b] /\ held' = held /\ persons' = persons
      BY <1>3 DEF RequestsOK, projection, identities
    <2> QED
      BY <2>1 DEF MergesStand
  <1> QED
    BY <1>1, <1>2, <1>3

(* A request that raises in silent mode, or goes on as r.                   *)
LEMMA AfterStands ==
  ASSUME RequestsOK, MergesStand, NEW a \in Admins, NEW r, After(a, r),
         ~Silent => MergeStands(r, held', persons')
  PROVE  MergesStand'
  <1>1. CASE Silent
    BY <1>1, IdleStands, OthersStand DEF After
  <1>2. CASE ~Silent
    BY <1>2, OthersStand DEF After
  <1> QED
    BY <1>1, <1>2

(* The steps of a merge.                                                    *)
LEMMA MergeSteps ==
  ASSUME TypeOK, MergesStand, NEW a \in Admins,
         \/ post_people_merge(a) \/ MergeFold(a) \/ MergeUnlink(a) \/ MergeLink(a)
         \/ MergeArchive(a)
  PROVE  MergesStand'
  <1>0. /\ RequestOK(req[a]) /\ RequestsOK /\ MergeStands(req[a], held, persons)
        /\ held \in [Persons -> SUBSET Idents]
    BY DEF TypeOK, FoldsOK, RequestsOK, MergesStand
  <1>1. CASE post_people_merge(a)
    <2>1. PICK k \in Persons, m \in Persons :
            /\ k # m /\ UNCHANGED projection
            /\ req' = [req EXCEPT ![a] = [Idle EXCEPT !.pc = "fold", !.op = "merge",
                         !.from = m, !.to = k, !.todo = held[m], !.start = held[m]]]
      BY <1>1 DEF post_people_merge
    <2>2. MergeStands([Idle EXCEPT !.pc = "fold", !.op = "merge", !.from = m, !.to = k,
                                   !.todo = held[m], !.start = held[m]], held', persons')
      BY <2>1 DEF Idle, MergeStands, projection, identities
    <2> QED
      BY <1>0, <2>1, <2>2, OthersStand
  <1>2. CASE MergeFold(a)
    <2>1. /\ req[a].op = "merge" /\ req[a].pc = "fold" /\ UNCHANGED projection
          /\ req' = [req EXCEPT ![a] = [req[a] EXCEPT !.pc = "next", !.keep = held[req[a].to]]]
      BY <1>2 DEF MergeFold, InRequest
    <2>2. MergeStands([req[a] EXCEPT !.pc = "next", !.keep = held[req[a].to]], held', persons')
      <3>1. req[a] \in Requests BY <1>0 DEF RequestOK
      <3>2. held' = held BY <2>1 DEF projection, identities
      <3> QED BY <1>0, <2>1, <3>1, <3>2 DEF MergeStands, Requests
    <2> QED
      BY <1>0, <2>1, <2>2, OthersStand
  <1>3. CASE MergeUnlink(a)
    <2> DEFINE r == req[a]
    <2>1. PICK i \in r.todo :
            /\ unlink_identity(r.from, i)
            /\ After(a, [r EXCEPT !.todo = @ \ {i}, !.at = {i} \ r.keep,
                                  !.pc = IF i \in r.keep THEN "next" ELSE "link"])
      BY <1>3 DEF MergeUnlink
    <2>2. r.op = "merge" /\ r.pc = "next" /\ r \in Requests /\ r.from \in Persons /\ r.to \in Persons
      BY <1>0, <1>3 DEF MergeUnlink, InRequest, RequestOK
    <2>3. ASSUME ~Silent
          PROVE  MergeStands([r EXCEPT !.todo = @ \ {i}, !.at = {i} \ r.keep,
                                       !.pc = IF i \in r.keep THEN "next" ELSE "link"],
                             held', persons')
      <3>1. held' = [held EXCEPT ![r.from] = @ \ {i}]
        BY <2>1, <2>3 DEF unlink_identity, pevr, emit_identity_unlinked
      <3>2. PICK q : q = [r EXCEPT !.todo = @ \ {i}, !.at = {i} \ r.keep,
                                   !.pc = IF i \in r.keep THEN "next" ELSE "link"]
        OBVIOUS
      <3>3. /\ q.op = "merge" /\ q.disturbed = r.disturbed /\ q.from = r.from /\ q.to = r.to
            /\ q.todo = r.todo \ {i} /\ q.at = {i} \ r.keep /\ q.keep = r.keep
            /\ q.start = r.start /\ q.pc = (IF i \in r.keep THEN "next" ELSE "link")
        BY <2>2, <3>2 DEF Requests
      <3>4. ASSUME ~r.disturbed
            PROVE  /\ r.from # r.to /\ held'[r.from] = q.todo /\ held'[r.to] = held[r.to]
                   /\ r.keep = held[r.to] /\ r.start \subseteq held[r.to] \cup r.todo
        BY <1>0, <2>2, <3>1, <3>3, <3>4 DEF MergeStands
      <3>5. CASE i \in r.keep
        BY <3>3, <3>4, <3>5 DEF MergeStands
      <3>6. CASE i \notin r.keep
        BY <3>3, <3>4, <3>6 DEF MergeStands
      <3> QED
        BY <3>2, <3>5, <3>6
    <2> QED
      BY <1>0, <2>1, <2>3, AfterStands
  <1>4. CASE MergeLink(a)
    <2> DEFINE r == req[a]
    <2>1. PICK i \in r.at :
            link_identity(r.to, i) /\ After(a, [r EXCEPT !.keep = @ \cup {i}, !.pc = "next"])
      BY <1>4 DEF MergeLink
    <2>2. r.op = "merge" /\ r.pc = "link" /\ r \in Requests /\ r.from \in Persons /\ r.to \in Persons
      BY <1>0, <1>4 DEF MergeLink, InRequest, RequestOK
    <2>3. ASSUME ~Silent
          PROVE  MergeStands([r EXCEPT !.keep = @ \cup {i}, !.pc = "next"], held', persons')
      <3>1. held' = [held EXCEPT ![r.to] = @ \cup {i}]
        BY <2>1, <2>3 DEF link_identity, pevr, emit_identity_linked, Bind
      <3>2. PICK q : q = [r EXCEPT !.keep = @ \cup {i}, !.pc = "next"]
        OBVIOUS
      <3>3. /\ q.op = "merge" /\ q.disturbed = r.disturbed /\ q.from = r.from /\ q.to = r.to
            /\ q.todo = r.todo /\ q.keep = r.keep \cup {i} /\ q.start = r.start /\ q.pc = "next"
        BY <2>2, <3>2 DEF Requests
      <3>4. ASSUME ~r.disturbed
            PROVE  /\ r.from # r.to /\ held'[r.from] = r.todo
                   /\ held'[r.to] = r.keep \cup {i}
                   /\ r.start \subseteq held'[r.to] \cup r.todo
        BY <1>0, <2>1, <2>2, <3>1, <3>4 DEF MergeStands
      <3> QED
        BY <3>2, <3>3, <3>4 DEF MergeStands
    <2> QED
      BY <1>0, <2>1, <2>3, AfterStands
  <1>5. CASE MergeArchive(a)
    <2> DEFINE r == req[a]
    <2>1. /\ r.op = "merge" /\ r.pc = "next" /\ r.todo = {} /\ archive_person(r.from)
          /\ After(a, [r EXCEPT !.pc = "merged"]) /\ r \in Requests /\ r.from \in Persons
      BY <1>0, <1>5 DEF MergeArchive, InRequest, RequestOK
    <2>2. ASSUME ~Silent PROVE MergeStands([r EXCEPT !.pc = "merged"], held', persons')
      <3>1. /\ held' = held
            /\ persons' = IF Exists(r.from) THEN [persons EXCEPT ![r.from].status = "archived"]
                          ELSE persons
        BY <2>1, <2>2 DEF archive_person, pevr, emit_person_archived, SetStatus, identities
      <3>2. persons'[r.from].status \in {"none", "archived"}
        BY <2>1, <3>1 DEF Exists, TypeOK, FoldsOK
      <3> QED
        BY <1>0, <2>1, <3>1, <3>2 DEF MergeStands, Requests
    <2> QED
      BY <1>0, <2>1, <2>2, AfterStands
  <1> QED
    BY <1>1, <1>2, <1>3, <1>4, <1>5

(* A request that is not a merge.                                           *)
LEMMA OtherStands ==
  ASSUME NEW r, r.op # "merge", r.pc # "merged"
  PROVE  \A h, ps : MergeStands(r, h, ps)
  BY DEF MergeStands

LEMMA OtherSteps ==
  ASSUME TypeOK, MergesStand, NEW a \in Admins,
         \/ post_person_split(a) \/ SplitPropose(a) \/ SplitUnlink(a) \/ SplitNext(a)
         \/ SplitLink(a) \/ post_people_bulk_confirm(a) \/ BulkConfirm(a)
         \/ Respond(a) \/ Abort(a)
  PROVE  MergesStand'
  <1> DEFINE r == req[a]
  <1>0. RequestsOK /\ r \in Requests
    BY DEF TypeOK, RequestsOK
  <1>1. CASE post_person_split(a)
    <2>1. PICK p \in Persons, q \in Fresh, s \in SUBSET Idents, seed \in Idents :
            /\ UNCHANGED projection
            /\ req' = [req EXCEPT ![a] = [Idle EXCEPT !.pc = "propose", !.op = "split",
                         !.from = p, !.to = q, !.at = {seed}, !.todo = s \ {seed},
                         !.start = s, !.seed = TRUE]]
      BY <1>1 DEF post_person_split
    <2>2. PICK t : t = [Idle EXCEPT !.pc = "propose", !.op = "split", !.from = p, !.to = q,
                          !.at = {seed}, !.todo = s \ {seed}, !.start = s, !.seed = TRUE]
      OBVIOUS
    <2>3. t.op # "merge" /\ t.pc # "merged"
      BY <2>2 DEF Idle
    <2> QED
      BY <1>0, <2>1, <2>2, <2>3, OtherStands, OthersStand
  <1>2. CASE SplitPropose(a)
    <2>1. PICK t : t = [r EXCEPT !.pc = "unlink"]
      OBVIOUS
    <2>2. After(a, t) /\ t.op # "merge" /\ t.pc # "merged"
      BY <1>0, <1>2, <2>1 DEF SplitPropose, InRequest, Requests
    <2> QED
      BY <1>0, <2>2, OtherStands, AfterStands
  <1>3. CASE SplitUnlink(a)
    <2>1. PICK t : t = [r EXCEPT !.pc = IF r.seed THEN "next" ELSE "link", !.seed = FALSE]
      OBVIOUS
    <2>2. After(a, t)
      BY <1>3, <2>1 DEF SplitUnlink
    <2>3. t.op # "merge" /\ t.pc # "merged"
      BY <1>0, <1>3, <2>1 DEF SplitUnlink, InRequest, Requests
    <2> QED
      BY <1>0, <2>2, <2>3, OtherStands, AfterStands
  <1>4. CASE SplitNext(a)
    <2>1. UNCHANGED projection /\ r.op = "split"
      BY <1>4 DEF SplitNext, InRequest
    <2>2. CASE r.todo = {}
      <3>1. PICK t : t = [r EXCEPT !.pc = "split"]
        OBVIOUS
      <3>2. req' = [req EXCEPT ![a] = t]
        BY <1>4, <2>2, <3>1 DEF SplitNext
      <3>3. t.op # "merge" /\ t.pc # "merged"
        BY <1>0, <2>1, <3>1 DEF Requests
      <3> QED
        BY <1>0, <2>1, <3>2, <3>3, OtherStands, OthersStand
    <2>3. CASE r.todo # {}
      <3>1. PICK i \in r.todo :
              req' = [req EXCEPT ![a] = [r EXCEPT !.at = {i}, !.todo = @ \ {i}, !.pc = "unlink"]]
        BY <1>4, <2>3 DEF SplitNext
      <3>2. PICK t : t = [r EXCEPT !.at = {i}, !.todo = @ \ {i}, !.pc = "unlink"]
        OBVIOUS
      <3>3. t.op # "merge" /\ t.pc # "merged"
        BY <1>0, <2>1, <3>2 DEF Requests
      <3> QED
        BY <1>0, <2>1, <3>1, <3>2, <3>3, OtherStands, OthersStand
    <2> QED
      BY <2>2, <2>3
  <1>5. CASE SplitLink(a)
    <2>1. PICK t : t = [r EXCEPT !.pc = "next"]
      OBVIOUS
    <2>2. After(a, t) /\ t.op # "merge" /\ t.pc # "merged"
      BY <1>0, <1>5, <2>1 DEF SplitLink, InRequest, Requests
    <2> QED
      BY <1>0, <2>2, OtherStands, AfterStands
  <1>6. CASE post_people_bulk_confirm(a)
    <2>1. PICK s \in SUBSET Persons :
            /\ UNCHANGED projection
            /\ req' = [req EXCEPT ![a] = [Idle EXCEPT !.pc = "next", !.op = "bulk", !.todo = s]]
      BY <1>6 DEF post_people_bulk_confirm
    <2>2. PICK t : t = [Idle EXCEPT !.pc = "next", !.op = "bulk", !.todo = s]
      OBVIOUS
    <2>3. t.op # "merge" /\ t.pc # "merged"
      BY <2>2 DEF Idle
    <2> QED
      BY <1>0, <2>1, <2>2, <2>3, OtherStands, OthersStand
  <1>7. CASE BulkConfirm(a)
    <2>1. PICK p \in r.todo : After(a, IF r.todo = {p} THEN Idle ELSE [r EXCEPT !.todo = @ \ {p}])
      BY <1>7 DEF BulkConfirm
    <2>2. PICK t : t = IF r.todo = {p} THEN Idle ELSE [r EXCEPT !.todo = @ \ {p}]
      OBVIOUS
    <2>3. t.op # "merge" /\ t.pc # "merged"
      BY <1>0, <1>7, <2>2 DEF BulkConfirm, InRequest, Requests, Idle
    <2> QED
      BY <1>0, <2>1, <2>2, <2>3, OtherStands, AfterStands
  <1>8. CASE Respond(a) \/ Abort(a)
    BY <1>0, <1>8, IdleStands, OthersStand DEF Respond, Abort
  <1> QED
    BY <1>1, <1>2, <1>3, <1>4, <1>5, <1>6, <1>7, <1>8

LEMMA MergesStep == ASSUME TypeOK, MergesStand, [Next]_vars PROVE MergesStand'
  <1>0. RequestsOK
    BY DEF TypeOK
  <1>1. CASE \E a \in Admins : Handler(a)
    <2>1. PICK a \in Admins : Handler(a)
      BY <1>1
    <2>2. CASE \/ post_people(a) \/ post_person_confirm(a) \/ post_person_archive(a)
               \/ post_person_identities(a) \/ delete_person_identity(a)
               \/ post_person_position_confirm(a) \/ post_person_position_reject(a)
               \/ post_person_roles(a) \/ post_person_role_revoke(a)
      <3>1. Disturb(a, Idle)
        BY <2>2 DEF post_people, post_person_confirm, post_person_archive,
           post_person_identities, delete_person_identity, post_person_position_confirm,
           post_person_position_reject, post_person_roles, post_person_role_revoke, Single
      <3> QED
        BY <1>0, <3>1, IdleStands, OthersStand
    <2> QED
      BY <2>1, <2>2, MergeSteps, OtherSteps DEF Handler
  <1>2. CASE Reactivity
    <2>1. CASE WormWrites
      <3>1. Disturb(Nobody, Idle)
        BY <2>1 DEF WormWrites
      <3> QED
        BY <1>0, <3>1, IdleStands, OthersStand
    <2>2. CASE ~WormWrites
      <3>1. UNCHANGED <<req, projection>>
        BY <1>2, <2>2 DEF Reactivity, UnknownPlatformId, PositionInference,
           ResourceOwnership, Fire, WormDeclines
      <3> QED
        BY <3>1 DEF MergesStand, projection, identities
    <2> QED
      BY <2>1, <2>2
  <1>3. CASE UNCHANGED vars
    BY <1>3 DEF vars, MergesStand, projection, identities
  <1> QED
    BY <1>1, <1>2, <1>3 DEF Next

-----------------------------------------------------------------------------
(***************************************************************************)
(* Discovery: an identity the worm proposed a person for is known from then *)
(* on, and a fire in flight is about one it has proposed nobody for.        *)
(***************************************************************************)
DiscoveryStands ==
  /\ proposedBy \in [Idents -> SUBSET Persons]
  /\ \A i \in Idents :
       proposedBy[i] = {} \/ (i \in known /\ \E p \in Persons : proposedBy[i] = {p})
  /\ worm.op = "discover" => proposedBy[worm.about] = {}

LEMMA KnownGrows == ASSUME Written PROVE known \subseteq known'
  BY DEF Written, emit_person_proposed, Bind, emit_person_confirmed, emit_person_archived,
     SetStatus, emit_identity_linked, emit_identity_unlinked, emit_position_proposed,
     emit_position_confirmed, emit_position_rejected, emit_role_assigned,
     emit_role_revoked, emit_resource_role_assigned, projection, identities

LEMMA DiscoveryStep ==
  ASSUME TypeOK, DiscoveryStands, Written, [Next]_vars PROVE DiscoveryStands'
  <1>0. known \subseteq known'
    BY KnownGrows
  <1>1. CASE UNCHANGED <<proposedBy, worm>>
    BY <1>0, <1>1 DEF DiscoveryStands
  <1>2. CASE \E a \in Admins : Handler(a)
    <2>1. UNCHANGED <<proposedBy, worm>>
      BY <1>2 DEF Handler, post_people, post_person_confirm, post_person_archive,
         post_person_identities, delete_person_identity, post_person_position_confirm,
         post_person_position_reject, post_person_roles, post_person_role_revoke, Single,
         post_people_merge, MergeFold, MergeUnlink, MergeLink, MergeArchive,
         post_person_split, SplitPropose, SplitUnlink, SplitNext, SplitLink,
         post_people_bulk_confirm, BulkConfirm, Respond, Abort, After, history
    <2> QED
      BY <1>1, <2>1
  <1>3. CASE \E i \in Idents : UnknownPlatformId(i)
    BY <1>3 DEF UnknownPlatformId, Fire, DiscoveryStands, projection, identities, history
  <1>4. CASE \/ \E p \in Persons, x \in Positions : PositionInference(p, x)
             \/ \E p \in Persons, id \in Resources : ResourceOwnership(p, id)
    <2>1. PICK p, about : Fire("infer", p, about) \/ Fire("own", p, about)
      BY <1>4 DEF PositionInference, ResourceOwnership
    <2>2. UNCHANGED proposedBy /\ worm'.op # "discover"
      BY <2>1 DEF Fire, history
    <2> QED
      BY <1>0, <2>2 DEF DiscoveryStands
  <1>5. CASE WormDeclines
    BY <1>0, <1>5 DEF WormDeclines, WormIdle, DiscoveryStands, history
  <1>6. CASE WormWrites
    <2>1. worm'.op = "idle"
      BY <1>6 DEF WormWrites, WormIdle
    <2>2. CASE UNCHANGED proposedBy
      BY <1>0, <2>1, <2>2 DEF DiscoveryStands
    <2>3. CASE ~UNCHANGED proposedBy
      <3>1. /\ worm.op = "discover" /\ ~Silent /\ worm.about \in Idents
            /\ \E p \in Fresh :
                 /\ propose_person(p, worm.about, NoPosition)
                 /\ proposedBy' = [proposedBy EXCEPT ![worm.about] = @ \cup {p}]
        BY <1>6, <2>3 DEF WormWrites, TypeOK, WormOK
      <3>2. PICK p \in Persons :
              /\ propose_person(p, worm.about, NoPosition)
              /\ proposedBy' = [proposedBy EXCEPT ![worm.about] = @ \cup {p}]
        BY <3>1 DEF Fresh
      <3>3. worm.about \in known'
        BY <3>1, <3>2 DEF propose_person, pevr, emit_person_proposed, Bind
      <3>4. proposedBy'[worm.about] = {p}
        BY <3>1, <3>2 DEF DiscoveryStands
      <3> QED
        BY <1>0, <2>1, <3>1, <3>2, <3>3, <3>4 DEF DiscoveryStands
    <2> QED
      BY <2>2, <2>3
  <1>7. CASE UNCHANGED vars
    BY <1>1, <1>7 DEF vars, history
  <1> QED
    BY <1>2, <1>3, <1>4, <1>5, <1>6, <1>7 DEF Next, Reactivity

-----------------------------------------------------------------------------
LEMMA NextWritten == ASSUME TypeOK, [Next]_vars PROVE Written
  <1>1. CASE \E a \in Admins : Handler(a)
    BY <1>1, SingleSteps, EdgeSteps, MoveSteps DEF Handler
  <1>2. CASE Reactivity
    BY <1>2, WormSteps
  <1>3. CASE UNCHANGED vars
    BY <1>3 DEF vars, Written
  <1> QED
    BY <1>1, <1>2, <1>3 DEF Next

LEMMA InitStands == Init => MergesStand /\ DiscoveryStands
  <1> SUFFICES ASSUME Init PROVE MergesStand /\ DiscoveryStands
    OBVIOUS
  <1>1. MergesStand
    BY IdleStands DEF Init, MergesStand
  <1>2. DiscoveryStands
    BY DEF Init, DiscoveryStands, WormIdle
  <1> QED
    BY <1>1, <1>2

LEMMA StandsShow == TypeOK /\ MergesStand /\ DiscoveryStands => IdentitiesStand
  <1> SUFFICES ASSUME TypeOK, MergesStand, DiscoveryStands PROVE IdentitiesStand
    OBVIOUS
  <1>1. MergeMovesAll
    BY DEF MergesStand, MergeStands, MergeMovesAll
  <1>2. DiscoveredOnce
    <2> SUFFICES ASSUME NEW i \in Idents PROVE Cardinality(proposedBy[i]) <= 1
      BY DEF DiscoveredOnce
    <2>1. CASE proposedBy[i] = {}
      BY <2>1, FS_EmptySet
    <2>2. CASE \E p \in Persons : proposedBy[i] = {p}
      <3>1. PICK p \in Persons : proposedBy[i] = {p}
        BY <2>2
      <3>2. Cardinality({p}) = 1
        BY FS_Singleton
      <3> QED
        BY <3>1, <3>2
    <2> QED
      BY <2>1, <2>2 DEF DiscoveryStands
  <1> QED
    BY <1>1, <1>2 DEF IdentitiesStand

(* A merge that returns undisturbed has moved everything, whatever other    *)
(* admins and the worm did before and whichever merges died; and however an *)
(* admin's writes fall between the worm's fold and its write, the worm      *)
(* proposes one person per identity (merge_persons, archive_person,         *)
(* UnknownPlatformIdReactivity.fire).                                       *)
THEOREM PeopleIdentitiesStand == Spec => []IdentitiesStand
  <1>1. Init => Inv /\ MergesStand /\ DiscoveryStands
    BY InitInv, InitStands
  <1>2. Inv /\ MergesStand /\ DiscoveryStands /\ [Next]_vars
          => (Inv /\ MergesStand /\ DiscoveryStands)'
    BY NextInv, NextWritten, MergesStep, DiscoveryStep DEF Inv
  <1>3. Inv /\ MergesStand /\ DiscoveryStands => IdentitiesStand
    BY StandsShow DEF Inv
  <1> QED
    BY <1>1, <1>2, <1>3, PTL DEF Spec
=============================================================================
