CONSTANTS
    ip1 = ip1
    ip2 = ip2
    ip3 = ip3
    s1 = s1
    s2 = s2
    k1 = k1
    k2 = k2
    k3 = k3
    c1 = c1
    c2 = c2
    NoSource = NoSource
    NoCode = NoCode
    NoCredential = NoCredential
    Sources <- MCOneSource
    Sessions <- MCSessions
    Codes <- MCCodes
    Credentials <- MCCredentials
    PAIRING_LIFETIME = 1
    MAX_CONFIRMATION_FAILURES = 1
    MAX_PENDING_SESSIONS = 2
    MAX_PENDING_SESSIONS_PER_SOURCE = 2
    MAX_FAILURE_SOURCES = 2
    MinUptime = 0
    Horizon = 3
    ClockSteps <- MCNoClockStep
SPECIFICATION HostFairSpec
PROPERTIES
    CodeIsSingleUse
