CONSTANTS
  NoSms = NoSms
  Console = "console"
  Sms <- MCFour
  Key <- MCKey
  Part <- MCPart
  Total <- MCTotal
  Undecodable <- MCNone
  MaxConcatParts = 2
  MaxConcatMessages = 1
  Indices <- MCIndices3
  ReadCapacity = 2
  DeleteCapacity = 2
  MaxConcatGroups = 1
  ClockMod = 4
  Capacity = 1
  MaxAttempts = 1
  BaseRetryDelay = 1
  MaxRetryDelay = 1
  AtCapacity = 2
  Clients <- MCOneClient
  Direct <- MCDirectOther
  LateAnswers = FALSE
  ModemFaults = TRUE
  ReportsEarly = TRUE
  SlowParts = TRUE
  MaxRestarts = 1
SPECIFICATION Spec
INVARIANTS TypeOK DeletedOnlyIfQueued NeverQueuedTwice ReaderWaitsForItsCommand LoopSubmitIsTaken
