CONSTANTS
  MaxRetry = 3
  MaxCalls = 2
  MaxSleeps = 2
SPECIFICATION FairSpec
INVARIANTS TypeOK ConnectedIsEstablished NoTimeoutAfterReturn SleepsUndisturbed ReplyOrClosed
PROPERTY WaitsEnd
CHECK_DEADLOCK FALSE
