SPECIFICATION Spec
CONSTANTS
    Streams = {s1}
    None = None
    Stale = 3
    PollEvery = 2
    BeatEvery = 1
    Tolerance = 2
    Recovery = 1
    Advances <- Unruly
    Horizon = 3
    Drift = 1
    MaxGenerations = 1
CHECK_DEADLOCK FALSE
INVARIANTS
    PollInv
    EligibleChatIsCovered
    NeverRefused
PROPERTIES
    NoPollSpansAGap
    SnapshotsInOrder
