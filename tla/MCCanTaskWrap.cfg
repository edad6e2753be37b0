SPECIFICATION Spec
CONSTANTS
  TickModulus = 24
  TaskPeriod = 2
  BroadcastPeriod = 5
  InitTimeout = 1
  HalLead = 1
  MaxWork = 1
INVARIANT
  OneHertz
