\* One refresh and one action, under fairness.
CONSTANTS
    p1 = p1
    a1 = a1
    k1 = k1
    NoCredential = NoCredential
    Polls <- MCPolls
    Actions <- MCActions
    Credentials <- MCCredentials
    TRANSITION_TIMEOUT = 1
SPECIFICATION FairSpec
INVARIANTS
    PowerTypeOK
PROPERTIES
    WakeNotCutShort
    ShownIsOwn
    ActionsEnd
    TransientEnds
    OffIsShown
