SPECIFICATION FairSpec
CONSTANTS
    Streams = {s1, s2}
    None = None
    Stale = 3
    PollEvery = 2
    BeatEvery = 1
    Tolerance = 2
    Recovery = 1
    Advances <- Ordinary
    Horizon = 5
    Drift = 0
    MaxGenerations = 1
CHECK_DEADLOCK FALSE
INVARIANTS
    StaleIsReported
PROPERTY StopEnds
