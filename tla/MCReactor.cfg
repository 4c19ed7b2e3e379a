CONSTANTS
  Others = {o1}
  Tasks = {k1, k2}
  Fds = {f1}
  Masks <- MCBothMask
  WakeFd = wake
SPECIFICATION FairSpec
INVARIANTS RunsOnce NoSleepOnWork MirrorsEpoll
PROPERTY RequestsTakenUp
