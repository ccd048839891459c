CONSTANTS
  ClockMod = 6
  Capacity = 3
  MaxAttempts = 2
  BaseRetryDelay = 1
  MaxRetryDelay = 2
  MaxArrivals = 3
  Refused <- MCRefused
  Unbuildable <- MCUnbuildable
  MaxPostTime = 1
  MaxFailures = 1
  MaxLoopGap = 1
SPECIFICATION FairSpec
INVARIANTS TypeOK NoSilentLoss
PROPERTIES ImplementsOutbox NoEarlyRetry EventuallyDelivered
