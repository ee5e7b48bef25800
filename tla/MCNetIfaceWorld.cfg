SPECIFICATION Spec
CONSTANTS
  v4a = v4a
  v6a = v6a
  loop = loop
  Procs = {p1}
  Calls <- WorldCalls
  Changes = {"addr", "link", "name", "mtu"}
  Failures <- MCFailures
  BootLinks <- TwoLinks
  Indexes = {1, 2}
  Names = {"eth0", "eth1"}
  V4 = {v4a}
  V6 = {}
  Loopbacks = {}
  PrefixLens = {24}
  Mtus = {1500, 9000}
  MtuLimit = 9000
INVARIANTS OkMeansAchieved OutcomeAccounts ReadsNamedLink
PROPERTY ChangesNamedLink
CHECK_DEADLOCK FALSE
