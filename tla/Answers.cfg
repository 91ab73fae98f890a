\* Searches, contexts and reads of tables of up to four messages.
CONSTANTS
  MinPreviewLength = 3
  None <- NoSession
  MaxRows = 4
  Messages <- MessageKinds
  Ids <- RowIds
  Requests <- RequestKinds
  Sides = {0, 1}
  Options <- OptionKinds
SPECIFICATION Spec
\* One request is answered, and nothing follows.
CHECK_DEADLOCK FALSE
INVARIANTS LimitIsHonest RelaxedOnlyWithoutStrict WindowsAreExact SpentWithinBudget SharesAreFair
