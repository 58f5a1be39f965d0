\* One device, nothing fails.
SPECIFICATION FairSpec
CONSTANTS
  Device = {d1}
  NoNode = NoNode
  Capacity = 2
  MaxEvents = 2
  SignalMayFail = FALSE
PROPERTY
  EveryEventReceived
\* The USB bus may stay quiet.
CHECK_DEADLOCK FALSE
