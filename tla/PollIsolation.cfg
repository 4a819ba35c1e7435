CONSTANTS
  None = None
  Account = {stable, fingerprint}
  Persistent = {stable}
  Source = {"wham", "server"}
  Provider = {"Codex"}
  Optional = {"Codex"}
  Sources <- MCSources
  DefaultSource <- MCDefaultSource
  RetryAfter = {None}
  Debounce = 0
  Interval = 0
  MinRetryAfter = 1
  MaxRetryAfter = 2
  MaxFallback = 2
  LateReply = TRUE
  MaxOperations = 2
  MaxGeneration = 2
  MaxTime = 0
SPECIFICATION Spec
INVARIANTS
  NoForeignData
  TrueProvenance
  AlertsFollowAccount
  OffHoldsNothing
  MemoryOnlyStaysInMemory
  SingleFlight
  PendingIsCarried
PROPERTIES
  ObsoleteStaysObsolete
  Sessions
