\* The limits are those of pairing.rs; a lifetime is one step of the clock.
CONSTANTS
    ip1 = ip1
    s1 = s1
    s2 = s2
    s3 = s3
    s4 = s4
    s5 = s5
    s6 = s6
    k1 = k1
    c1 = c1
    NoSource = NoSource
    Sources <- MCSources
    Sessions <- MCSessions
    Codes <- MCCodes
    Credentials <- MCCredentials
    PAIRING_LIFETIME = 1
    MAX_CONFIRMATION_FAILURES = 5
    MAX_PENDING_SESSIONS = 128
    MAX_PENDING_SESSIONS_PER_SOURCE = 8
    MAX_FAILURE_SOURCES = 256
    MinUptime = 0
    Horizon = 3
SPECIFICATION Spec
SYMMETRY Symmetry
INVARIANTS
    FailuresLimited
