CONSTANTS
  x1 = x1  c1 = c1  e1 = e1  a1 = a1
  None = None
  Sources = {x1}
  Hooked = x1
  Computed = {c1}
  Effects = {e1}
  Subscribers = {a1}
  MaxEpoch = 2
  MaxStack = 2
SPECIFICATION Spec
INVARIANTS HeardInPairs CountedOnce StatsAgree NewsIsQueued
PROPERTY HooksAnnounce
CHECK_DEADLOCK FALSE
