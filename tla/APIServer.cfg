\* Two requests, two workers alive at once, two calls of Close.
SPECIFICATION FairSpec
CONSTANTS
  r1 = r1  r2 = r2  w1 = w1  w2 = w2  c1 = c1  c2 = c2
  Requests = {r1, r2}
  Workers = {w1, w2}
  Closers = {c1, c2}
INVARIANTS TypeOK SingleFlight ClosedIsQuiet
PROPERTIES CloseReturns StaleReadsRefresh
