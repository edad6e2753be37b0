SPECIFICATION FairSpec
CONSTANTS
  Address <- MCAddress
  Device <- MCDevice
  First = 1
  Last = 2
  Channel = {0, 1}
INVARIANTS TypeOK ShadowInStep
PROPERTIES OthersKept SuccessIsTrue ScanEnds
