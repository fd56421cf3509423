CONSTANTS
  a = a
  b = b
  t1 = t1
  t2 = t2
  t3 = t3
  t4 = t4
  t5 = t5
  Tasks <- MCTasks
  Ips <- MCIps
  Source <- MCSource
  MaxPerIp = 2
SPECIFICATION Spec
INVARIANTS
  LimiterInv
  SlotsBounded
PROPERTIES
  RefusedOnlyWhenFull
  ImplementsSlots
