SPECIFICATION FairSpec
CONSTANTS
  Loops = {"WaitFor", "RetryFor"}
  Timeout = 5
  Wait = 2
  RetryCounts <- MCRetryCounts
  Jumps <- MCJumps
  MaxJumps = 2
  MaxTime = 13
INVARIANTS TimeoutNotEarly SleepsInTime PollsBounded RetriesCounted Inductive
PROPERTIES LoopsEnd
CHECK_DEADLOCK FALSE
