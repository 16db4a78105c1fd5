\* The merged collector with two interchangeable sources and two URLs.
CONSTANTS
    raids = raids
    follows = follows
    urlA = urlA
    urlB = urlB
    NoUrl = NoUrl
    Sources <- TwoSources
    Urls <- TwoUrls
    Sockets <- ThreeSockets
    MaxFrames = 2
    DrainLimit = 2
    External = TRUE
SPECIFICATION Spec
SYMMETRY SourcesAreAlike
INVARIANTS
    TokenWorkNeverOverlaps
    SocketsAreHeld
    ConfirmedIsSubscribed
    RecoveryInv
PROPERTIES
    KeepsLedger
