\* The standalone collector: raids and follows, one outage.
CONSTANTS
    PlainSources <- Plain2
    ChatSources <- None
    Standalone = TRUE
    MaxGaps = 1
SPECIFICATION FairSpec
INVARIANTS
    CloseFollowsStops
PROPERTIES
    LiveIsReported
CHECK_DEADLOCK FALSE
