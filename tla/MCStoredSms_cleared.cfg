CONSTANTS
  NoSms = NoSms
  Console = "console"
  Sms <- MCAll
  Key <- MCKey
  Part <- MCPart
  Total <- MCTotal
  Undecodable <- MCNone
  MaxConcatParts = 2
  MaxConcatMessages = 1
  Indices <- MCIndices3
  ReadCapacity = 3
  DeleteCapacity = 2
  MaxConcatGroups = 1
  ClockMod = 4
  Capacity = 2
  MaxAttempts = 1
  BaseRetryDelay = 1
  MaxRetryDelay = 1
  AtCapacity = 2
  Clients <- MCConsole
  Direct <- MCNone
  LateAnswers = FALSE
  ModemFaults = FALSE
  ReportsEarly = FALSE
  SlowParts = FALSE
  MaxRestarts = 0
SPECIFICATION FairSpec
PROPERTIES QueuedLeavesSim StoredIsQueued
