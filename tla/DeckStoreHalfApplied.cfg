CONSTANTS
    d1 = d1
    d2 = d2
    p1 = p1
    p2 = p2
    NoPairing = NoPairing
    NoTransaction = NoTransaction
    Devices <- MCOneDevice
    Pairings <- MCPairings
SPECIFICATION Spec
INVARIANTS
    NoHalfApplied
