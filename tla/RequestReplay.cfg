CONSTANTS
    n1 = n1
    k1 = k1
    k2 = k2
    h1 = h1
    h2 = h2
    h3 = h3
    Nonces <- MCNonces
    Credentials <- MCOneCredential
    Handlers <- MCOneHandler
    CLOCK_WINDOW = 1
    FAILURE_LIMIT = 1
    MaxTime = 3
SPECIFICATION Spec
INVARIANTS
    ShutdownAtMostOnce
