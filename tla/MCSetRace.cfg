SPECIFICATION Spec
CONSTANTS
  v4a = v4a
  v6a = v6a
  loop = loop
  Procs = {p1, p2}
  Calls <- RaceCalls
  Changes = {}
  Failures = {}
  BootLinks <- RaceLink
  Indexes = {1}
  Names = {"eth0"}
  V4 = {v4a, loop}
  V6 = {v6a}
  Loopbacks = {loop}
  PrefixLens = {24, 32, 64}
  Mtus = {1500, 9000}
  MtuLimit = 9000
INVARIANT SetIsIdempotent
CHECK_DEADLOCK FALSE
