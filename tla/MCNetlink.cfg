SPECIFICATION FairSpec
CONSTANTS
  t1 = t1
  t2 = t2
  Threads <- MCThreads
  Tid <- MCTid
  FdLimit = 2
  ForeignPorts = {12}
  Errnos <- MCErrnos
  PerDatagram = 2
  MaxParts = 2
  MaxSession = 3
INVARIANTS TypeOK FdsAccounted PortClashes OutcomeHonest Inductive
PROPERTIES TransactionEnds UnwindingCompletes IsTransaction
CHECK_DEADLOCK FALSE
