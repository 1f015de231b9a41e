SPECIFICATION FewSpec
CONSTANTS
  N = 2
  Watch <- WatchBoth
  Gated = {2}
  InitialState <- OneProposed
  Owners = {"ana"}
  Tenant = "tenant"
  Limit <- SmallLimits
  MaxEvents = 2
  MaxAdmin = 2
  MaxWipes = 1
  MaxFaults = 1
  MaxDays = 1
  Few = 2
INVARIANTS ActsOnce ActsWithinBudget DisableTakesEffect
PROPERTIES QuietEventsDispatched
CHECK_DEADLOCK FALSE
