SPECIFICATION Spec
CONSTANTS
  WINDOW_SIZE = 3
  IPs = {10, 20}
  Packets <- MCPackets
  TotalBound = 7
INVARIANTS
  TypeOK
  AggregatesOfWindow
  MetricsDescribeWindow
PROPERTY ImplementsSlidingWindow
