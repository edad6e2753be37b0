SPECIFICATION Spec
CONSTANTS
  RingSize = 3
  I2cRingSize = 2
  Budget = 3
  FramesPerBroadcast = 1
  MaxFrames = 3
  MaxLost = 2
  MaxI2c = 1
  MaxSuppressed = 1
INVARIANTS TypeOK FramesConserved DropsAccounted AdcSettled ShutdownDrains
PROPERTY WaitingPrinted
\* The CLI task parks for good after a shutdown.
CHECK_DEADLOCK FALSE
