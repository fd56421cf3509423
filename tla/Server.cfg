CONSTANTS
  a = a
  b = b
  c1 = c1
  c2 = c2
  c3 = c3
  c4 = c4
  Conns <- MCConns
  Ips <- MCIps
  Source <- MCSource
  MaxPerIp = 2
  MaxDirs = 3
  MaxCrashes = 2
SPECIFICATION Spec
INVARIANTS
  TypeOK
  SlotsAreConnections
  InUseKept
  DiskAccounted
