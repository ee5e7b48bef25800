SPECIFICATION Spec
CONSTANTS
  eth0 = eth0
  lo = lo
  a1 = a1
  a2 = a2
  b = b
  Idx = eth0
  Links = {eth0, lo}
  Addrs = {a1, a2, b}
  Wanted = {a1, a2}
  PerDatagram = 2
  MaxAdded = 2
  MaxRemoved = 2
  MaxTable = 4
INVARIANTS TypeOK ReportedWasThere MissesExplained RepeatsExplained
CHECK_DEADLOCK FALSE
