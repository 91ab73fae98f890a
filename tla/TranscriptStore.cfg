\* Transcripts that share record ids, activities and child sessions, and two
\* representations of one.
SPECIFICATION Spec
CONSTANTS
  A = A  B = B  Z = Z  None = None
  NoPath = None
  NoContent = NoContent
  Paths <- ThreePaths
  Rank <- WalkOrder
  PlainOf <- PlainSibling
  Contents <- AllContents
  MaxChanges = 4
INVARIANTS TypeOK EveryRecordIsAMessage OneRepresentation OneActivityPerChild AttachedSessionsAreLinked
