\* One agent is registered and calls its tools.
SPECIFICATION RebuildSpec
CONSTANTS
  Subs = {"s1", "s2"}
  Stream = {"s1"}
  Unfiltered = {}
  MaxQueue = 1
  MaxCycles = 4
  MaxFaults = 1
  Agents = {"a1"}
  Requests <- GrantRequests
  ToolSet = {"lake.query", "data_products.consume", "decisions.list"}
  CallIds = {"c1", "c2"}
  RevokeIds = {"r1"}
  MaxRows = 6
  MaxGatewayFaults = 1
  Named = {"a1"}
  Names = {"n1", "n2"}
  Descriptions = {"", "x"}
  RevertIds = {"v1", "v2"}
  MaxMetadataRows = 5
  Inputs <- Mixes
  Alike <- Likeness
  Days <- LookBack
  Size <- Threshold
  MaxEntries = 4
  MaxDay = 2
  MaxRestarts = 1
  MaxFailures = 1
  Tenants = {"acme"}
  Rate = 2
  RateWindow = 1
  Quota = 3
  QuotaWindow = 2
  CountThreshold = 2
  TimeThreshold = 2
  MaxTime = 4
  MaxCalls = 5
  MaxGateFaults = 1
PROPERTIES
  RegistrationsFolded
CHECK_DEADLOCK FALSE
