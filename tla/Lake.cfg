\* One column with two kinds; two sources; one candidate and two admins.
SPECIFICATION OneSpec
CONSTANTS
  Columns <- OneColumn
  Kinds = {"k", "l"}
  Candidates = {}
  Admins = {}
  Families = {"semantic_type", "column_classification", "quality_check"}
  Axes = {"semantic_type", "column_classification", "quality_check"}
  Guessed = {"k"}
  Window = 0
  MaxTime = 2
  MaxEvents = 2
  MaxReviews = 2
  MaxAborts = 0
  NoSource = NoSource
INVARIANTS
  AnswerStands
  
  RestsOnVerdict
CHECK_DEADLOCK FALSE
