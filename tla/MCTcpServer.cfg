CONSTANTS
  MaxClients = 3
  MaxThreads = 2
  Fds = {4, 5, 6}
  FdSize = 4
  PoolSize = 2
  Buckets = 2
SPECIFICATION FairSpec
INVARIANTS AcceptStillValid WaitingIsRegistered OneUser ShutWhenIdle
PROPERTY ServedThenFreed
