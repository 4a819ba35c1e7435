CONSTANTS
  None = None
  App = "app"
  Process = {"app", "command"}
  Scheme = {balanced, saver}
  Value = {0, 1}
  Override <- MCOverride
  Legacy = {}
  Racing = FALSE
  MaxChanges = 0
SPECIFICATION FairVibecodeSpec
PROPERTIES
  StaleStatusNoticed
  OverrideFollowsScheme
