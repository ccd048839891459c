CONSTANTS
  ClockMod = 28
  ConfigRefresh = 8
  StatusQuery = 2
  Retry = 1
  CommandTime = 1
  MaxLoopGap = 1
  MaxRefusals = 0
  HistoryCap = 7
SPECIFICATION Spec
INVARIANTS RecoveryIsPrompt
