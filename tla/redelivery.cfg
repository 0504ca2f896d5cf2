SPECIFICATION FairSpec
CONSTANTS
  t1 = t1
  t2 = t2
  h1 = h1
  w1 = w1
  w2 = w2
  NoTask = NoTask
  Probe = Probe
  Tasks = {t1}
  Threads = {h1}
  Workers = {w1, w2}
  CrashingWorkers = {w1}
  MaxCopies = 2
  Cancellable = {t1}
  ProbedThreads = {h1}
  ThreadOf <- OneThread
  TurnOf <- OwnTurnOf
  WorkBudget = 1
  TerminalBudget = 1
  SafetyMargin = 1
  ProbeTTL = 1
  ReleaseFallback = TRUE
INVARIANTS
  TypeOK
  OutcomeExclusive
  AssistantBound
  PublishedAgrees
PROPERTIES
  ImplementsOutcome
  AcceptedResolved
