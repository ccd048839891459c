CONSTANTS
  NoSms = NoSms
  Console = "console"
  Sms <- MCTwo
  Key <- MCKey
  Part <- MCPart
  Total <- MCTotal
  Undecodable <- MCNone
  MaxConcatParts = 2
  MaxConcatMessages = 1
  Indices <- MCIndices2
  ReadCapacity = 2
  DeleteCapacity = 2
  MaxConcatGroups = 1
  ClockMod = 4
  Capacity = 1
  MaxAttempts = 1
  BaseRetryDelay = 1
  MaxRetryDelay = 1
  AtCapacity = 2
  Clients <- MCNone
  Direct <- MCNone
  LateAnswers = TRUE
  ModemFaults = FALSE
  ReportsEarly = FALSE
  SlowParts = FALSE
  MaxRestarts = 0
SPECIFICATION Spec
INVARIANTS DeletedOnlyIfQueued
