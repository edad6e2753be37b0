SPECIFICATION Spec
CONSTANTS
  Capacity = 3
  NBoxes = 2
  MaxFrames = 6
  MaxRaced = 2
  MaxHalts = 1
INVARIANTS
  TypeOK
  FramesConserved
PROPERTIES
  InOrder
  QueueEmpties
