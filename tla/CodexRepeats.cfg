\* A rollout of event records only, in which a text is said twice.
SPECIFICATION Spec
CONSTANTS
  k1 = k1  k2 = k2  s1 = s1
  Keys = {k1}
  Assistants = {k1}
  Sessions = {s1}
  None = None
  MaxLines = 3
INVARIANT EventOnlyRecordsAreKept
CHECK_DEADLOCK FALSE
