CONSTANTS
  MaxClients = 2
  MaxThreads = 1
  Fds = {4, 5, 6}
  FdSize = 4
  PoolSize = 2
  Buckets = 2
SPECIFICATION Spec
INVARIANT StartResumes
