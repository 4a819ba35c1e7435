CONSTANTS
  None = None
  App = "app"
  Process = {"app"}
  Scheme = {balanced, saver}
  Value = {0, 1}
  Override <- MCOverride
  Legacy <- MCLegacy
  Racing = FALSE
  MaxChanges = 2
SPECIFICATION VibecodeSpec
INVARIANTS
  StatusTrue PolicySafe PolicyInForce RetryConverges
PROPERTIES
  OverrideIsWanted
  LegacyClearedWhenApplied
  SchemeIsUsers
