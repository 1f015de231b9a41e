\* Two tenants, two concurrent writers, past and present timestamps.
SPECIFICATION FairSpec
CONSTANTS
  Companies = {"acme", "globex"}
  Writers = {"w1", "w2"}
  Times = {1, 2}
  RowLocks = TRUE
  MaxHash = 8
INVARIANTS
  ChainIntact
  CyclesComplete
  
  ReplayWholeCycles
PROPERTIES
  WriteIsAtomic
  
CHECK_DEADLOCK FALSE
