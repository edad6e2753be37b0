SPECIFICATION Spec
CONSTANTS
  Value = {v0, v1}
  Default = v1
  Zero = v0
  Garbage = garbage
  Magic = magic
  NoMagic = nomagic
  Erased = erased
  None = none
  SeqModulus = 8
  MaxWrites = 2
  Faults = {"silent"}
INVARIANT
  FailedSaveChangesNothing
CHECK_DEADLOCK FALSE
