SPECIFICATION Spec
CONSTANTS
  t1 = t1
  t2 = t2
  h1 = h1
  w1 = w1
  w2 = w2
  NoTask = NoTask
  Probe = Probe
  Tasks = {t1, t2}
  Threads = {h1}
  Workers = {w1}
  CrashingWorkers = {w1}
  MaxCopies = 1
  Cancellable = {}
  ProbedThreads = {h1}
  ThreadOf <- OneThread
  TurnOf <- SameTurnOf
  WorkBudget = 1
  TerminalBudget = 1
  SafetyMargin = 1
  ProbeTTL = 1
  ReleaseFallback = FALSE
INVARIANTS
  LeaseCoversEnvelope
  OneAcceptedTurn
PROPERTIES
  LockLossJustified
SYMMETRY Symmetry
