\* An explicit refresh while a transcript of its root vanishes.
SPECIFICATION Spec
CONSTANTS
  c1 = c1  c2 = c2  w1 = w1  w2 = w2  f1 = f1  f2 = f2  r1 = r1
  narrow = narrow
  Nobody = Nobody  NoFile = NoFile  NoRoot = NoRoot
  Clients = {c1}
  Workers = {}
  Calls = {"refresh"}
  Files = {f1, f2}
  Roots = {r1}
  Profiles = {narrow}
  RootOf <- OneRootOf
  RootsOf <- OneRootsOf
  RefreshInterval = 1
  LockTimeout = 0
  MaxVersion = 1
  MaxFaults = 0
INVARIANT ExplicitRefreshIsFresh
