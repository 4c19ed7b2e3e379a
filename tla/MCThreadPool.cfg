\* Two workers, one client and three coroutines; ranges with up to two handles
\* and one null handle.  No symmetry: the run checks liveness too.
CONSTANTS
  Workers = {w1, w2}
  Clients = {c1}
  Handles = {h1, h2, h3}
  NoHandle = NoHandle
  MaxBatch = 2
  MaxNulls = 1
SPECIFICATION FairSpec
INVARIANTS TypeOK ExclusiveResume SizeAccounting NoLostWakeup DrainBeforeExit
PROPERTIES QueuedIsResumed ShutdownReturns
