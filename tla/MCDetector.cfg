SPECIFICATION Spec
CONSTANTS
  f1 = f1
  f2 = f2
  f3 = f3
  Features <- MCFeatures
  Space <- MCSpace
  Num = 1
  Den = 2
  MaxSamples = 4
INVARIANTS
  TypeOK
  ThresholdAtPercentile
CHECK_DEADLOCK FALSE
