SPECIFICATION MockSpec
CONSTANTS
  WINDOW_SIZE = 2
  Capacities = {16}
  Events <- Generated
  MaxPackets = 16
  flows = 3
CHECK_DEADLOCK FALSE
INVARIANT ActiveFlowsInPool
