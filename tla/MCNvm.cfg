SPECIFICATION Spec
CONSTANTS
  Value = {v0, v1}
  Default = v1
  Zero = v0
  Garbage = garbage
  Magic = magic
  NoMagic = nomagic
  Erased = erased
  None = none
  SeqModulus = 8
  MaxWrites = 3
  Faults = {"reported", "silent", "torn"}
INVARIANTS
  TypeOK
  ValidSlotIsWhole
  ActiveIsNewest
PROPERTIES
  OtherSlotIntact
  ImplementsStore
CHECK_DEADLOCK FALSE
