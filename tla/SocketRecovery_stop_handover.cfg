\* A stop in the middle of a handover.
CONSTANTS
    raids = raids
    follows = follows
    urlA = urlA
    urlB = urlB
    NoUrl = NoUrl
    Sources <- OneSource
    Urls <- OneUrl
    Sockets <- ThreeSockets
    MaxFrames = 1
    DrainLimit = 2
    External = TRUE
SPECIFICATION Spec
INVARIANT StopIsClean
