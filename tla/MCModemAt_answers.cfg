CONSTANTS
  cmgr = cmgr
  cereg = cereg
  NoCommand = NoCommand
  Commands <- MCCommands
  CeregQueries <- MCCeregQueries
  TimeoutMs <- MCTimeoutMs
  ClockMod = 4
  StartTimes <- MCStartTimes
  QueueCapacity = 2
  ResponseCapacity = 2
  MaxAccepted = 3
  MaxReports = 1
  MaxData = 1
  MaxLoopGap = 1
  LateAnswers = FALSE
  LossyUart = FALSE
VIEW MCView
SPECIFICATION Spec
INVARIANTS AnswerBelongsToCommand UrcReachesSubscriber
PROPERTIES ImplementsAtQueue
