SPECIFICATION Spec
CONSTANTS
  MaxEdits = 4
  MaxStarts = 2
  TrainingSamples <- MCTrainingSamples
INVARIANTS
  TypeOK
  WatcherUpToDate
  ModelUsedIsWhole
PROPERTIES
  CompleteModelKept
  EditsTakeEffect
CHECK_DEADLOCK FALSE
