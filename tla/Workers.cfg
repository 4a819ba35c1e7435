CONSTANTS
  None = None
  Account = {stable, fingerprint}
  Persistent = {stable}
  Source = {"oauth"}
  Provider = {"Claude"}
  Optional = {}
  Sources <- MCSources
  DefaultSource <- MCDefaultSource
  RetryAfter <- MCRetryAfter
  Debounce = 1
  Interval = 2
  MinRetryAfter = 1
  MaxRetryAfter = 2
  MaxFallback = 2
  LateReply = FALSE
  MaxOperations = 2
  MaxGeneration = 1
  MaxTime = 4
  Client = {"app", "measure"}
  MaxRuns = 1
  MaxFrames = 2
  MaxClicks = 4
  MaxStamp = 2
SPECIFICATION WorkersSpec
PROPERTIES
  SpacedRequests
  DurableCooldown
  ReadingEnds
  AskingEndsIt
CHECK_DEADLOCK FALSE
