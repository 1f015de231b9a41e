\* Flows that propose sources in four mixes; messages through the poller and the lurker; missing metrics, mentions, questions of the dashboard and digests; calls of the MCP server while roles change, at the rate limit, and while proposals are confirmed.
SPECIFICATION OneSpec
CONSTANTS
  Persons = {"ana"}
  Roles = {"installer", "admin", "observer", "member"}
  Domains = {"d"}
  CallIds = {"k1", "k2"}
  Tools = {"query_decisions", "query_ledger"}
  Tokens = {"ana", "bad"}
  Changes = {}
  History <- Member
  Ceiling = 2
  Window = 1
  MaxTime = 2
  MaxRows = 5
  MaxFaults = 1
INVARIANTS
  
  TalkStands
  CallsStand
CHECK_DEADLOCK FALSE
