CONSTANTS
  None = None
  App = "app"
  Process = {"app", "command"}
  Scheme = {balanced}
  Value = {0, 1}
  Override <- MCOverride
  Legacy = {}
  Racing = TRUE
  MaxChanges = 0
SPECIFICATION VibecodeSpec
INVARIANTS
  PolicySafe
