SPECIFICATION Spec
CONSTANTS
  D = 3
  Letters = {2}
  N = 2
  MaxText = 6
INVARIANTS TypeOK PrintsWhatWasRead RoundTrip BytesKept
CHECK_DEADLOCK FALSE
