\* Two kept experiments; a person and a company timer; two reactivities and two admins; three history syncs.
SPECIFICATION OneSpec
CONSTANTS
  Ids = {"chat", "code"}
  Unregistered = {"ghost"}
  Admins = {"ana", "bob"}
  BootState <- OneOfEach
  MaxCalls = 4
  MaxRestarts = 1
  MaxSyncs = 3
  MaxMessages = 3
  MaxCallbacks = 3
  Callbacks <- AllCallbacks
  MaxFaults = 2
INVARIANTS
  
  RegistryStands
  RowsComplete
CHECK_DEADLOCK FALSE
