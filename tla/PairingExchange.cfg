SPECIFICATION Spec
CONSTANTS
    Hosts = {h1, h2}
    Decks = {deck}
    Tools = {tool}
    Codes = {c1, c2}
    Exchanges = {x1, x2}
    Credentials = {k1, k2}
    Nonces = {n1, n2}
    NoCode = NoCode
    NoCredential = NoCredential
SYMMETRY Symmetry
INVARIANTS
    SavedWasIssued
    OneCredentialPerExchange
    AnswersAreOwn
    OnlyTheMeantPCStops
PROPERTIES
    PairedWithCurrentCode
