CONSTANTS
  s1 = s1  s2 = s2  t1 = t1  m1 = m1  m2 = m2  e1 = e1  e2 = e2  None = None
  Signals = {s1}
  Thunks = {t1}
  Memos = {m1}
  Effects = {e1, e2}
  Reads <- ChainReads
  Writes <- FeedbackWrites
  Rank <- RankOf
  Guarded = {e2}
  Env = {"dispose","drop","panic_compute","panic_body","untracked"}
  MaxVersion = 2
SPECIFICATION Spec
CHECK_DEADLOCK FALSE
INVARIANTS Coherent NoTornReads NoStrandedEffect
PROPERTY WriteQueuesEffects
