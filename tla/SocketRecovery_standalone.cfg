\* A standalone loop, whose drain meets its limit.
CONSTANTS
    raids = raids
    follows = follows
    urlA = urlA
    urlB = urlB
    NoUrl = NoUrl
    Sources <- OneSource
    Urls <- OneUrl
    Sockets <- ThreeSockets
    MaxFrames = 2
    DrainLimit = 1
    External = FALSE
SPECIFICATION FairSpec
PROPERTIES
    LossIsRetried
    StopEnds
