SPECIFICATION Spec
CONSTANTS
  Copies = {c1, c2, c3}
  Commands = {cmd1, cmd2}
  ArgsHashes = {a1}
  NoRun = NoRun
  NoCopy = NoCopy
  NoDecision = NoDecision
INVARIANTS AtMostOnceDispatch AnswerFromRun StreamAgrees
PROPERTIES TerminalRunFinal ImplementsDispatch ReplayHonoursDecision
CHECK_DEADLOCK FALSE
