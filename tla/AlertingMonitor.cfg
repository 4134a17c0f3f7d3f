SPECIFICATION Spec
CONSTANTS
  Faults <- NoFaults
  MaxAlerts = 2
INVARIANTS
  EveryAlertLogged
CHECK_DEADLOCK FALSE
