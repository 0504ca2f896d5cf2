SPECIFICATION Spec
CONSTANTS
  Providers = {local, groq, openai, broken, unset}
  Local = local
  NoModel = {unset}
  Invalid = {broken}
  MaxOrder = 3
INVARIANTS
  FirstOutputBinds
  RescueOrder
PROPERTIES
  DeadlineWins
CHECK_DEADLOCK FALSE
