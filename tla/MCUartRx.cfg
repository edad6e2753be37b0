SPECIFICATION Spec
CHECK_DEADLOCK FALSE
CONSTANTS
  RingSize = 4
  FifoSize = 4
  MaxBytes = 10
  MaxOverruns = 2
INVARIANTS
  TypeOK
  BytesInOrder
  FifoNeverOverflows
  ShutdownTakesAll
PROPERTIES
  EverythingParsed
  NeverSilenced
