\* Two devices with their interfaces, events that overlap on their way from the
\* kernel to the tray, signals that may fail.
SPECIFICATION FairSpec
CONSTANTS
  Device = {d1, d2}
  NoNode = NoNode
  Capacity = 2
  MaxEvents = 4
  SignalMayFail = TRUE
INVARIANTS
  TypeOK
  WaitingAccountedFor
  RecvNeverBlocks
  TrayAccountedFor
PROPERTIES
  EachEventOnce
  KeepsUp
\* The USB bus may stay quiet.
CHECK_DEADLOCK FALSE
