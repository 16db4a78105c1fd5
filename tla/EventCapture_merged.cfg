\* The merged collector: chat and one plain source, two outages.
CONSTANTS
    PlainSources <- Plain1
    ChatSources <- Chat
    Standalone = FALSE
    MaxGaps = 2
SPECIFICATION Spec
INVARIANTS
    GoodHealthIsCovered
    OutageIsRecorded
    CaptureInv
    RevocationIsSticky
PROPERTIES
    GapsAreALedger
CHECK_DEADLOCK FALSE
