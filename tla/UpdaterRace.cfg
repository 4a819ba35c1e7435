\* One hand-over in which nothing fails and nobody dies.
CONSTANTS
    None = None
    Started = {p1, p2}
    MaxAttempts = 1
    MaxFaults = 0
    MaxDeaths = 0
SPECIFICATION RacedSpec
INVARIANT KnownGood
CHECK_DEADLOCK FALSE
