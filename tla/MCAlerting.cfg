SPECIFICATION Spec
CONSTANTS
  Faults <- MCFaults
  MaxAlerts = 3
INVARIANTS
  TypeOK
  EachAlertReadOnce
  LostOnlyWithoutLogger
  LogBacksDatabase
PROPERTIES
  AlertsHandled
  AlertingStops
  DrainingAdvances
CHECK_DEADLOCK FALSE
