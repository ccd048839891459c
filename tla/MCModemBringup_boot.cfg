CONSTANTS
  ClockMod = 14
  StartupRetry = 1
  GuardRetry = 3
  CommandTime = 1
  MaxLoopGap = 2
  MaxRefusals = 1
  HistoryCap = 6
SPECIFICATION FairSpec
INVARIANTS GuardAfterStartup GuardRetriesInTime
PROPERTIES GuardStopsWhenDown StartupEnds GuardEnds
