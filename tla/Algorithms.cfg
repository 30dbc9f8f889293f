SPECIFICATION Spec
CONSTANTS
  MaxGap = 2
  Lookahead = 2
  MaxTopic = 2
  MaxPath = 2
  Slug <- SlugOf
  Tier <- Tiers
  Drawn <- DrawnTiers
INVARIANTS
  TextKept
  GraphsKept
  QuestionsShared
  ScoresFit
CHECK_DEADLOCK FALSE
