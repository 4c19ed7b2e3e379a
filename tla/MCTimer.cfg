\* Three events, one repeated, over seven instants of the clock: long enough for
\* the repeated event to be taken three times.  The clock stops at its bound.
CONSTANTS
  e1 = e1
  e2 = e2
  e3 = e3
  Events = {e1, e2, e3}
  Interval <- MCInterval
  Repeated = {e3}
  MaxTime = 7
SPECIFICATION Spec
INVARIANTS ArmedForEarliest Conserved
CHECK_DEADLOCK FALSE
