SPECIFICATION Spec
CONSTANTS
  Capacity = 4
  NBoxes = 2
  MaxFrames = 4
  MaxRaced = 4
  MaxHalts = 0
INVARIANT
  DrainSafeFromBothContexts
