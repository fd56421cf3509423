CONSTANTS
  Capacity = 1
  Cap = 1
  PipeSize = 1
  MaxSends = 1
  MaxLines = 1
  Requests = {"execute"}
SPECIFICATION LingeringHelperSpec
CHECK_DEADLOCK FALSE
PROPERTY HardTimeout
