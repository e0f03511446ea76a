CONSTANTS
  s1 = s1  m1 = m1  m2 = m2  m3 = m3  e1 = e1  None = None
  Signals = {s1}
  Thunks = {}
  Memos = {m1, m2}
  Effects = {e1}
  Reads <- MutualReads
  Writes <- ImpureWrites
  Guarded = {e1}
  Env = {"untracked", "cleanup_reads", "impure_compute", "nested_flush", "dispose", "dispose_running", "drop", "discard", "panic_compute", "panic_body", "panic_cleanup", "panic_compare"}
  MaxVersion = 2
SPECIFICATION Spec
CHECK_DEADLOCK FALSE
INVARIANTS LatchMatchesLane NoReentry
