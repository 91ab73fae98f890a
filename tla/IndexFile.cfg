\* Two openers, every earlier schema, two faults.
SPECIFICATION FairSpec
CONSTANTS
  p1 = p1  p2 = p2
  Nobody = Nobody
  Procs = {p1, p2}
  Older = 6
  MaxFaults = 2
INVARIANTS CurrentIsWhole BootstrapServes
PROPERTIES IndexesAreKept ReadsEstablishIndex
