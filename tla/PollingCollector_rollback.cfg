SPECIFICATION Spec
CONSTANTS
    Streams = {s1}
    None = None
    Stale = 3
    PollEvery = 2
    BeatEvery = 1
    Tolerance = 2
    Recovery = 1
    Advances <- Corrected
    Horizon = 3
    Drift = 2
    MaxGenerations = 1
INVARIANT SmallRollbackIsSurvived
CHECK_DEADLOCK FALSE
