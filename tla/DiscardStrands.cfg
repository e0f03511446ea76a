CONSTANTS
  s1 = s1  s2 = s2  t1 = t1  m1 = m1  m2 = m2  e1 = e1  e2 = e2  None = None
  Signals = {s1}
  Thunks = {}
  Memos = {m1}
  Effects = {e1}
  Reads <- OpenReads
  Writes <- FeedbackWrites
  Rank <- RankOf
  Guarded = {}
  Env = {"discard"}
  MaxVersion = 3
SPECIFICATION Spec
CHECK_DEADLOCK FALSE
PROPERTY WriteQueuesEffects
