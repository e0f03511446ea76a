CONSTANTS
  s1 = s1  m1 = m1  m2 = m2  t1 = t1
  None = None
  Signals = {s1}  Thunks = {t1}  Memos = {m1, m2}
  Input <- MCInput
  Fun <- MCFun
  Values = {0, 1, 2}
  MaxVersion = 2
  MaxStack = 4
SPECIFICATION Spec
INVARIANT CleanIsCurrent
CHECK_DEADLOCK FALSE
