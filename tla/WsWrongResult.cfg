CONSTANTS
  MaxSockets = 1
  MaxCommands = 2
  MaxRemounts = 0
SPECIFICATION Spec
CHECK_DEADLOCK FALSE
INVARIANT OwnResult
