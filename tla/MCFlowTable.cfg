SPECIFICATION Spec
CONSTANTS
  WINDOW_SIZE = 2
  Capacities = {0, 3}
  Events <- LruEvents
  MaxPackets = 6
CHECK_DEADLOCK FALSE
INVARIANTS
  TypeOK
  MapSlabAgree
  RecencyList
  WindowsExact
  PanicsOnlyWithoutRoom
  DirectionsFollowInitiator
PROPERTY ImplementsFlowCache
