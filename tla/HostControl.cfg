CONSTANTS
    r1 = r1
    r2 = r2
    c1 = c1
    c2 = c2
    NoCode = NoCode
    Requests <- MCRequests
    MayHang <- MCMayHang
    Codes <- MCCodes
    PAIRING_LIFETIME = 1
    MAX_PIPE_FAILURES = 3
SPECIFICATION FairSpec
INVARIANTS
    ControlTypeOK
    UnavailableExplained
PROPERTIES
    PipeFailuresEndService
    BusyEnds
    RecoveryIsShown
