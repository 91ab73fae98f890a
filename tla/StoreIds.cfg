\* Reindexing a transcript whose record id another one held.
SPECIFICATION Spec
CONSTANTS
  A = A  B = B  Z = Z  None = None
  NoPath = None
  NoContent = NoContent
  Paths <- ThreePaths
  Rank <- WalkOrder
  PlainOf <- PlainSibling
  Contents <- SharedRecords
  MaxChanges = 4
PROPERTY PublicIdsAreStable
