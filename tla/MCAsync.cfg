\* Four tasks: finished inline, finished elsewhere, last, still to be started.
\* Three coroutines (a list worth reversing) and two set() calls at a time.
CONSTANTS
  Tasks = {t1, t2, t3, t4}
  Waiters = {a, b, c}
  Setters = {s, t}
  This = This
  Null = Null
SPECIFICATION AsyncSpec
INVARIANTS ResumedAfterAll ResumedOnce ReturnsAfterAll
PROPERTIES SyncWaitReturns KeepsPromise
