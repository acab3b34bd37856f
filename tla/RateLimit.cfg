SPECIFICATION FairSpec
CONSTANTS
    Caller = {c1, c2, c3}
    Nobody = Nobody
    Limit = 3
    MaxLeaked = 1
INVARIANTS
    TypeOK
    NoOvercommit
    FewRejected
PROPERTIES
    CallerProceeds
