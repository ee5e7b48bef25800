SPECIFICATION Spec
CONSTANTS
  v4a = v4a
  v6a = v6a
  loop = loop
  Procs = {p1}
  Calls <- AllCalls
  Changes = {}
  Failures = {}
  BootLinks <- OneLink
  Indexes = {1}
  Names = {"eth0", "eth1"}
  V4 = {v4a, loop}
  V6 = {v6a}
  Loopbacks = {loop}
  PrefixLens = {0, 24, 32, 64}
  Mtus = {1500, 9000, 70000}
  MtuLimit = 9000
INVARIANTS Inductive TypeOK OutcomeAccounts UndisturbedCallsAreRight TextTellsApart
CHECK_DEADLOCK FALSE
