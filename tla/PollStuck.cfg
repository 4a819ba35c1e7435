CONSTANTS
  None = None
  Account = {stable}
  Persistent = {stable}
  Source = {"oauth"}
  Provider = {"Claude"}
  Optional = {}
  Sources <- MCSources
  DefaultSource <- MCDefaultSource
  RetryAfter <- MCRetryAfter
  Debounce = 1
  Interval = 1
  MinRetryAfter = 1
  MaxRetryAfter = 2
  MaxFallback = 2
  LateReply = TRUE
  MaxOperations = 1
  MaxGeneration = 1
  MaxTime = 1
SPECIFICATION Spec
INVARIANT NeverStuckFetching
