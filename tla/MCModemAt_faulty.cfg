CONSTANTS
  cmgr = cmgr
  cereg = cereg
  NoCommand = NoCommand
  Commands <- MCCommands
  CeregQueries <- MCCeregQueries
  TimeoutMs <- MCTimeoutMs
  ClockMod = 4
  StartTimes <- MCStartTimes
  QueueCapacity = 2
  ResponseCapacity = 0
  MaxAccepted = 2
  MaxReports = 1
  MaxData = 0
  MaxLoopGap = 1
  LateAnswers = TRUE
  LossyUart = TRUE
SPECIFICATION FairSpec
INVARIANTS DeadlineIsExact
PROPERTIES EveryCommandCompletes
