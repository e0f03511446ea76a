CONSTANTS
  r = r  q = q  s = s  g = g  e = e  m = m  v = v  w = w
  None = None
  Reactors = {r, q}
  Sources = {s, g, v, w}
  Computations = {g, e, m, v, w}
  Home <- MCHome
  Signal = s  Gate = g  Eff = e  Views = {v, w}
  Values = {0, 1}
  MaxEntered = 2
  MaxMade = 1
SPECIFICATION Spec
INVARIANTS EnteredIsDefault UntrackedMatches PreviousIsTold WatchIsOwed
PROPERTIES RecordsInnermost MapsStayHome
CHECK_DEADLOCK FALSE
