CONSTANTS
  p1 = p1  l1 = l1  l2 = l2
  Plain = {p1}
  Listeners = {l1}
  MayPanic = FALSE
  MaxValues = 2
  MaxStack = 3
SPECIFICATION Spec
CHECK_DEADLOCK FALSE
INVARIANT InEmissionOrder
