SPECIFICATION FairProgram
CONSTANTS
  one = one
  two = two
  six = six
  Main = main
  Procs = {main}
  Interface = "eth0"
  One = one
  Two = two
  Six = six
  MaxRuns = 2
  Calls <- MCCalls
  Changes = {"link", "name"}
  Failures <- MCFailures
  BootLinks <- AnyBoot
  Indexes = {1}
  Names = {"eth0", "eth1"}
  V4 = {one, two}
  V6 = {six}
  Loopbacks = {}
  PrefixLens = {16, 24, 32, 64}
  Mtus = {1500, 8000}
  MtuLimit = 9000
INVARIANTS ProgramTypeOK Handled StepsTakenHold FailedRunProgressed
PROPERTY ProgramEnds
CHECK_DEADLOCK FALSE
