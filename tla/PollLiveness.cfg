CONSTANTS
  None = None
  Account = {stable}
  Persistent = {stable}
  Source = {"oauth"}
  Provider = {"Claude"}
  Optional = {}
  Sources <- MCSources
  DefaultSource <- MCDefaultSource
  RetryAfter <- MCRetryAfter
  Debounce = 0
  Interval = 0
  MinRetryAfter = 1
  MaxRetryAfter = 2
  MaxFallback = 2
  LateReply = FALSE
  MaxOperations = 2
  MaxGeneration = 1
  MaxTime = 1
SPECIFICATION FairSpec
PROPERTIES
  PreparationEnds
  FetchEnds
