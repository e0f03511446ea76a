CONSTANTS
  j1 = j1  j2 = j2  e1 = e1  e2 = e2  h1 = h1  None = None
  Jobs = {j1}
  Queued = {e1}
  Held = {h1}
  Feeds <- AllFeed
  Env = {"nested", "external", "subscriber", "spawn"}
  Panics = {"job", "body", "callback"}
  MaxRuns = 1
  MaxStack = 3
  MaxMicrotasks = 2
SPECIFICATION FairSpec
CHECK_DEADLOCK FALSE
INVARIANTS DepthMatches RunsAreBounded NoStalledJobs
PROPERTY DivergenceIsReal JobsRun FlushReturns
