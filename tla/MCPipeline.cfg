SPECIFICATION Spec
CONSTANTS
  Workers <- MCWorkers
  Flows <- MCFlows
  Route <- MCRoute
  Sources = {"mock", "zero", "pcap", "live"}
  Rooms = {0, 1}
  ProducerQueue = 1
  WorkerQueue = 1
  TrainingSamples = 2
  MaxPackets = 2
CHECK_DEADLOCK FALSE
INVARIANTS
  TypeOK
  Accounting
PROPERTIES
  WindowsSeeFlowInOrder
  VerdictsFollowFlowOrder
