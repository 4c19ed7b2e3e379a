CONSTANTS
  Others = {o1}
  Tasks = {k1, k2}
  Fds = {}
  Masks <- MCBothMask
  WakeFd = wake
SPECIFICATION Spec
INVARIANT NoTaskDropped
