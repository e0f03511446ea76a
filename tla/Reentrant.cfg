CONSTANTS
  s1 = s1  s2 = s2  t1 = t1  m1 = m1  m2 = m2  e1 = e1  e2 = e2  None = None
  Signals = {s1}
  Thunks = {}
  Memos = {m1}
  Effects = {e1, e2}
  Reads <- OpenReads
  Writes <- FeedbackWrites
  Rank <- RankOf
  Guarded = {}
  Env = {"nested_flush", "cleanup_reads", "panic_body", "panic_cleanup"}
  MaxVersion = 2
SPECIFICATION FairSpec
CHECK_DEADLOCK FALSE
PROPERTIES RunsAreJustified EffectsCatchUp
