CONSTANTS
  Capacity = 1
  Cap = 1
  PipeSize = 1
  MaxSends = 2
  MaxLines = 2
  Requests = {"execute", "invalid execute", "ping", "garbage"}
SPECIFICATION Spec
CHECK_DEADLOCK FALSE
INVARIANTS
  TypeOK
  OutputComplete
  ReportedDead
  DirOutlivesChild
PROPERTIES
  ImplementsStream
CONSTRAINT Bounded
ACTION_CONSTRAINT AtOnce
