SPECIFICATION Spec
CONSTANTS
  w1 = w1
  w2 = w2
  MaxHead = 3
  Workers = {w1}
  MaxCopies = 1
  MaxFaults = 0
INVARIANTS
  SupersededByNewer
CHECK_DEADLOCK FALSE
