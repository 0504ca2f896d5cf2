SPECIFICATION FairSpec
CONSTANTS
  w1 = w1
  w2 = w2
  MaxHead = 2
  Workers = {w1, w2}
  MaxCopies = 2
  MaxFaults = 2
INVARIANTS
  AtMostOneModelCall
  StaleNeverCurrent
  DispatchTellsResult
PROPERTIES
  TerminalFinal
  QueuedServed
CHECK_DEADLOCK FALSE
