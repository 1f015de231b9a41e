\* Three people, two identities, two positions and two admins.
SPECIFICATION SettingSpec
CONSTANTS
  Persons = {p1, p2, p3}
  Idents = {i1, i2}
  Positions = {x1}
  Roles = {g1}
  Resources = {d1}
  Admins = {a1, a2}
  Nobody = Nobody
  NoPosition = NoPosition
  Silent = FALSE
  Ops = {"propose", "confirm", "archive", "link", "unlink", "position", "role", "merge", "split", "bulk", "discover", "infer", "own"}
  MaxRequests = 5
  MaxAborts = 1
SYMMETRY Symmetry
INVARIANTS
  FoldsAgree
  IdentitiesStand
CHECK_DEADLOCK FALSE
