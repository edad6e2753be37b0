SPECIFICATION Spec
CONSTANTS
  WordMax = 100
  MaxDuration = 2
  Target = 1
  MaxCount = 2
PROPERTY
  MeanSettles
