\* One projection runner over a ledger that grows, is wiped twice and fails twice; two emitters; three history syncs; a person and a company timer.
SPECIFICATION OneSpec
CONSTANTS
  Tasks = {"poll"}
  MaxHash = 5
  MaxWipes = 2
  MaxFaults = 2
  Emitters = {"hourly", "daily"}
  Cadence <- TwoCadences
  MaxTicks = 3
  MaxTickFaults = 2
  MaxTickWipes = 1
INVARIANTS
  SkipOnlyWhenFresh
  TicksNumbered
PROPERTIES
  EventuallyFresh
  SyncRecorded
  
CHECK_DEADLOCK FALSE
