\* Two transcripts that share sessions, replaced in any order.
SPECIFICATION Spec
CONSTANTS
  A = A  B = B
  NoTool = NoTool
  NoName = NoName
  NoText = ""
  Sessions = {"s", "t"}
  Tools = {"k", NoTool}
  Names = {"bash", "edit", NoName}
  Texts = {"one", "two", "three", "four", ""}
  Paths = {A, B}
  Contents <- Transcripts
  Window = 2
  MaxChanges = 4
INVARIANTS PairingIsCurrent SearchIsCurrent AnonymousCallsAnswerOnce
PROPERTY UpgradeKeepsAnswers
