SPECIFICATION Spec
CONSTANTS
    Streams = {s1}
    Raids = {r1, r2}
    None = None
    MaxPages = 1
    QueueLimit = 1
    MaxGenerations = 1
    MaxSnapshots = 2
SYMMETRY RaidSymmetry
INVARIANT EnhancedInv
INVARIANT OneOwner
INVARIANT AttemptsAreHonest
INVARIANT CompleteIsWhole
INVARIANT NeverRefused
INVARIANT HealthyRestsOnComplete
INVARIANT CleanStopSettlesAll
CHECK_DEADLOCK FALSE
