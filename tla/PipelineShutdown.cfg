SPECIFICATION Spec
CONSTANTS
  Workers <- OneWorker
  Flows <- OneFlow
  Route <- OneRoute
  Sources = {"mock", "zero", "pcap", "live"}
  Rooms = {0, 1}
  ProducerQueue = 1
  WorkerQueue = 1
  TrainingSamples = 2
  MaxPackets = 3
CHECK_DEADLOCK FALSE
PROPERTY GracefulShutdown
