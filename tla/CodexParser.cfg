\* Two texts, one of the assistant, said repeatedly and logged in any form and order.
SPECIFICATION Spec
CONSTANTS
  k1 = k1  k2 = k2  s1 = s1
  Keys = {k1, k2}
  Assistants = {k1}
  Sessions = {s1}
  None = None
  MaxLines = 4
INVARIANTS TypeOK FirstFormDecides MirrorsAreOne NoTextIsLost
CHECK_DEADLOCK FALSE
