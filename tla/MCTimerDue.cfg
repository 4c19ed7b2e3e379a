\* Two one-shot events are enough: the first, deleted, blocks the second.
CONSTANTS
  e1 = e1
  e2 = e2
  e3 = e3
  Events = {e1, e2}
  Interval <- MCInterval
  Repeated = {}
  MaxTime = 5
SPECIFICATION PromptSpec
PROPERTY DueIsHanded
CHECK_DEADLOCK FALSE
