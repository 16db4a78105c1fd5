SPECIFICATION FairSpec
CONSTANTS
    Streams = {s1}
    Raids = {r1}
    None = None
    MaxPages = 2
    QueueLimit = 1
    MaxGenerations = 1
    MaxSnapshots = 1
PROPERTY SnapshotEnds
PROPERTY ContextEnds
CHECK_DEADLOCK FALSE
