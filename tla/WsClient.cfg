CONSTANTS
  MaxSockets = 4
  MaxCommands = 2
  MaxRemounts = 1
SPECIFICATION FairSpec
CHECK_DEADLOCK FALSE
INVARIANTS
  TypeOK
  SingleConnection
  StatusTruthful
  ExecutingTruthful
  PendingKept
PROPERTY Reconnects
