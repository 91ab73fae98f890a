\* Plain and refreshing reads, their background refreshes and an explicit refresh.
SPECIFICATION FairSpec
CONSTANTS
  c1 = c1  c2 = c2  w1 = w1  w2 = w2  f1 = f1  f2 = f2  r1 = r1
  narrow = narrow
  Nobody = Nobody  NoFile = NoFile  NoRoot = NoRoot
  Clients = {c1}
  Workers = {w1}
  Calls = {"read", "freshRead", "refresh"}
  Files = {f1, f2}
  Roots = {r1}
  Profiles = {narrow}
  RootOf <- OneRootOf
  RootsOf <- OneRootsOf
  RefreshInterval = 1
  LockTimeout = 1
  MaxVersion = 1
  MaxFaults = 1
INVARIANTS RefreshedReadsAreFresh
PROPERTIES CallsReturn ReadsBringIndexUpToDate BackgroundAttemptsAreThrottled
