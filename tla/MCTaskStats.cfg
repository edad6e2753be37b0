SPECIFICATION Spec
CONSTANTS
  WordMax = 100
  MaxDuration = 4
  Target = 2
  MaxCount = 3
INVARIANTS
  TypeOK
  MeanInRange
  ResetHonoured
  MissesCounted
