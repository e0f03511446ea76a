CONSTANTS
  a = a  b = b  NoValue = NoValue
  Inputs = {a, b}
  MayPanic = TRUE
  MaxWrites = 4
SPECIFICATION FairSpec
CHECK_DEADLOCK FALSE
INVARIANTS LoadingMatches OneInFlight
PROPERTIES LatestWins Settles
