\* Two hand-overs, one failing operation, one death or power loss.
CONSTANTS
    None = None
    Started = {p1, p2}
    MaxAttempts = 2
    MaxFaults = 1
    MaxDeaths = 1
SPECIFICATION RacedSpec
INVARIANTS KnownGoodUnlessRaced RacesNeedWatchdog
PROPERTIES ServesOnlyCommitted RunsAgain
CHECK_DEADLOCK FALSE
