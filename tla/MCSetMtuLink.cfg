SPECIFICATION Spec
CONSTANTS
  v4a = v4a
  v6a = v6a
  loop = loop
  Procs = {p1}
  Calls <- FlushCalls
  Changes = {"addr", "mtu"}
  Failures = {}
  BootLinks <- FlushLink
  Indexes = {1}
  Names = {"eth0"}
  V4 = {v4a}
  V6 = {v6a}
  Loopbacks = {}
  PrefixLens = {24}
  Mtus = {1500, 9000}
  MtuLimit = 9000
PROPERTY SetMtuSetsOnlyMtu
CHECK_DEADLOCK FALSE
