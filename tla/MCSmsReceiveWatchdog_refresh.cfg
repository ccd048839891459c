CONSTANTS
  ClockMod = 24
  ConfigRefresh = 3
  StatusQuery = 1
  Retry = 1
  CommandTime = 1
  MaxLoopGap = 1
  MaxRefusals = 1
  HistoryCap = 16
SPECIFICATION FairSpec
INVARIANTS SettingsStayFresh
PROPERTIES EventuallyConfigured
