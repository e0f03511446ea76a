CONSTANTS
  p1 = p1  l1 = l1  l2 = l2
  Plain = {p1}
  Listeners = {l1, l2}
  MayPanic = TRUE
  MaxValues = 3
  MaxStack = 6
SPECIFICATION Spec
CHECK_DEADLOCK FALSE
INVARIANTS EachValueOnce QueuedIsDue FirstInEmissionOrder
