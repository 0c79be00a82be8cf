CONSTANTS
    n1 = n1
    k1 = k1
    k2 = k2
    h1 = h1
    h2 = h2
    h3 = h3
    Nonces <- MCNonces
    Credentials <- MCCredentials
    Handlers <- MCHandlers
    CLOCK_WINDOW = 1
    FAILURE_LIMIT = 2
    MaxTime = 2
SPECIFICATION Spec
SYMMETRY Symmetry
INVARIANTS
    TypeOK
    AcceptedStaysRecorded
    RecordedIsDurable
PROPERTIES
    AcceptedAgainOnlyLate
