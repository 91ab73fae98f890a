\* Two waiting writers over one root.
SPECIFICATION Spec
CONSTANTS
  c1 = c1  c2 = c2  w1 = w1  w2 = w2  f1 = f1  f2 = f2  r1 = r1
  narrow = narrow
  Nobody = Nobody  NoFile = NoFile  NoRoot = NoRoot
  Clients = {c1, c2}
  Workers = {}
  Calls = {"refresh", "rebuild"}
  Files = {f1, f2}
  Roots = {r1}
  Profiles = {narrow}
  RootOf <- OneRootOf
  RootsOf <- OneRootsOf
  RefreshInterval = 1
  LockTimeout = 0
  MaxVersion = 2
  MaxFaults = 1
SYMMETRY Symmetry
INVARIANTS TypeOK SkippedFilesAreIndexed WalkedRootsAreFresh
PROPERTIES ContentNeverGoesBack ImplementsFreshIndex
