------------------------------ MODULE MCPeople -------------------------------
(* Three small instances of People in one run: every handler and reactivity *)
(* on a few requests, one of which dies; people who are merged while their  *)
(* identities move; and the reactivities that discover people and positions *)
(* while admins link, confirm and reject.                                   *)
EXTENDS People, TLC

VARIABLE setting

Merging(a) ==
  \/ post_people(a) \/ post_person_identities(a)
  \/ post_people_merge(a) \/ MergeFold(a) \/ MergeUnlink(a) \/ MergeLink(a)
  \/ MergeArchive(a) \/ Respond(a)

Discovering(a) ==
  \/ post_people(a) \/ post_person_identities(a) \/ delete_person_identity(a)
  \/ post_person_position_confirm(a) \/ post_person_position_reject(a)
  \/ post_person_roles(a) \/ post_person_role_revoke(a)

(* RequestLimit, and requests that die half-way, in each setting.               *)
RequestLimit == [everything |-> 3, merging |-> 4, discovering |-> 5]
AbortLimit == [everything |-> 1, merging |-> 0, discovering |-> 0]

SettingInit == Init /\ setting \in DOMAIN RequestLimit

SettingStep ==
  /\ \/ setting = "everything" /\ Next
     \/ setting = "merging" /\ \E a \in Admins : Merging(a)
     \/ /\ setting = "discovering"
        /\ (\E a \in Admins : Discovering(a)) \/ Reactivity
  /\ requests' <= RequestLimit[setting] /\ aborts' <= AbortLimit[setting]
  /\ UNCHANGED setting

SettingSpec == SettingInit /\ [][SettingStep]_<<vars, setting>>

Symmetry ==
  Permutations(Persons) \cup Permutations(Idents) \cup Permutations(Positions)
    \cup Permutations(Roles) \cup Permutations(Resources) \cup Permutations(Admins)
=============================================================================
