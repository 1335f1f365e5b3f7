SPECIFICATION MCSpec
CONSTANTS
  Apps = {a1}
  Handlers = {h1, h2}
  MaxProcs = 3
  MaxCalls = 2
  MaximumAttempts = 2
INVARIANTS Accounted RetryIsSafe
PROPERTY ProcessesEnd
CHECK_DEADLOCK FALSE
