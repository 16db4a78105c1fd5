\* Two commands at a time, while the last run of the stream is closed.
CONSTANTS
    c1 = c1
    c2 = c2
    Commands = {c1, c2}
    None = None
    History <- MCHistory
    Cases <- MCCases
SPECIFICATION MCSpec
INVARIANTS
    PostInv
    PacketFollowsRow
PROPERTIES
    GateIsMonotone
    KeepsLedger
    LockIsFreed
