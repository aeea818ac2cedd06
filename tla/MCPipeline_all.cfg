SPECIFICATION PartSpec
SYMMETRY Alike
CONSTANTS
  s1 = s1
  s2 = s2
  s3 = s3
  Ids <- MCIds
  Scores <- MCScores
  Family <- MCFamily
  Budgets = {0, 1, 2}
  HoldDur = 1
  MaxBoost = 1
INVARIANTS AdmittedRightly WatchedIsPlanned OutcomesAddUp
PROPERTIES NoFlapping LentSafely
CHECK_DEADLOCK FALSE
