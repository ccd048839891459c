CONSTANTS
  ClockMod = 12
  MaxLoopGap = 2
  HistoryCap = 7
  PairWindow = 3
  CountMod = 3
  ReconnectInterval = 4
  MaxRequests = 2
  Fields <- MCFields
  Values = {"", "a", "hostname"}
  Empty = ""
  BadHostnames = {"a"}
  Requests <- MCRequests
  Fallback <- MCFallback
  Capacity = 3
  Messages = {"a", "b"}
  MaxWrites = 8
  StatusClockMod = 14
  StatusLoopGap = 1
  StaticSteps = 2
  DynamicSteps = 2
  PollInterval = 1
  StaticRetry = 3
  BetweenCommands = 1
  QueueRetry = 1
  CommandTime = 1
  MaxRefusals = 1
  MaxPdpContexts = 2
  Listings <- MCListings
  BareOk = FALSE
  Characters = {"at", " ", "!"}
  LineCapacity = 6
  CommandCapacity = 3
  MaxTyped = 6
  JsonCharacters <- MCJsonCharacters
  MaxLength = 2
  MaxValues = 2
  OutputSize = 14
  EscapedSize = 9
SPECIFICATION FairSpec
INVARIANTS TypeOK VerdictInTime PairIsReady SavedIsWhatRestartLoads FirstSaveIsAtomic RequestsMeanWhatTheySay ShowsTheLatest ContextsShownAsTold ConnectionShownAsTold ResultNamesItsCommand JsonIsWholeOrRefused
PROPERTIES NoHammering LinkComesBack StaticBecomesKnown DynamicGoesOn RunsWhatWasTyped
