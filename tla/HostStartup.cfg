SPECIFICATION FairSpec
CONSTANTS
    Ids = {id1, id2}
    Codes = {c1, c2}
    NoCode = NoCode
    Configs <- MCConfigs
    MaxPort = 2
INVARIANTS
    FileHoldsIdentity
    HostIdNeverChanges
PROPERTIES
    ServiceComesUp
