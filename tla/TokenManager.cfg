\* Four names for tokens: the pair in use and the one to be issued.
CONSTANTS
    Tokens = {t1, t2, t3, t4}
    None = None
SPECIFICATION FairSpec
INVARIANTS
    TokenInv
    SentIsConfirmed
    AppliedOnce
    RestartCanRefresh
PROPERTIES
    OperationsEnd
