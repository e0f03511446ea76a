CONSTANTS
  s1 = s1  s2 = s2   e1 = e1   None = None
  Scopes = {s1, s2}
  Effects = {e1}
  Catching = {s1}
  Kept = {s2}
  Env = {"panic", "drop", "unowned"}
  SweepAt = 1
  MaxCleanups = 2
  MaxStack = 3
SPECIFICATION Spec
CHECK_DEADLOCK FALSE
INVARIANTS AccountedOnce LiveIsOwned DisposedHoldNothing GaugesMatch ReportedAfterTeardown
PROPERTIES NoRunAfterDisposal TeardownIsABarrier
