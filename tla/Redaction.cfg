\* Agents that append, a transcript that is removed, a fault, another writer and
\* an index that is replaced.
SPECIFICATION Spec
CONSTANTS
  p1 = p1  p2 = p2
  Gone = Gone  Nobody = Nobody  Redactor = Redactor  Writer = Writer
  Paths = {p1, p2}
  Kinds <- WrittenKinds
  MaxRuns = 2
  MaxRecords = 2
  MaxDeletes = 1
  MaxFaults = 1
  MaxDiscards = 1
SYMMETRY Symmetry
CHECK_DEADLOCK FALSE
INVARIANTS CleanReportIsClean PurgedSecretsStayOut ReplacedFilesAreVisited
PROPERTIES OnlySecretsChange
