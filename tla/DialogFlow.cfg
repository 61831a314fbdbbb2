SPECIFICATION FairSpec
CONSTANTS
  Names = {"document", "other", "bad"}
  GoodNames = {"document", "other"}
  DefaultName = "document"
  NoName = ""
  MaxEdits = 2
INVARIANTS
  TypeOK
  CleanMatchesFile
  ClosedOnPurpose
PROPERTIES
  WorkKept
  QuestionStands
  AnswerActs
  FieldFresh
  ExitTakesEffect
CHECK_DEADLOCK FALSE
