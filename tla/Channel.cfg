\* Three racing sends; one session file; one Slack and two WhatsApp channels.
SPECIFICATION OneSpec
CONSTANTS
  Sends = {1, 2, 3}
  Capacity = 2
  Period = 3
  HasDeadline = FALSE
  MaxWait = 2
  MaxRetries = 1
  Base = 1
  MaxIdle = 2
  NumSessions = 1
  Names = {"a", "b"}
  Kinds = {"slack", "sent"}
  LogTail = FALSE
  CapReceived = 1
  CapSent = 2
  MaxLines = 3
  MaxWriteFaults = 2
  MaxCrashes = 1
  MaxDiskFaults = 1
  Slack = {"s"}
  WhatsApp = {"v", "w"}
  SeenCap = 1
  Senders = {"user", "bot"}
  MaxPosts = 3
  MaxLogLines = 3
  MaxDays = 2
  MaxLogFaults = 2
INVARIANTS
  SendsBounded
  SessionsStand
  CapturedOnce
CHECK_DEADLOCK FALSE
