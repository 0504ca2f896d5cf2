SPECIFICATION Spec
CONSTANTS
  Providers = {local, groq, openai}
  Local = local
  NoModel = {}
  Invalid = {}
  MaxOrder = 2
INVARIANT NoRescueAfterOutput
CHECK_DEADLOCK FALSE
