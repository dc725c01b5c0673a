SPECIFICATION FairSpec
CONSTANTS
    Daemons = {d1, d2}
    Clis = {}
    NoFile = NoFile
    Leftover = Leftover
    Nobody = Nobody
    IdleEnabled = TRUE
    GCEnabled = TRUE
INVARIANTS TypeOK LifeOrder NoSocketLeftBehind
PROPERTIES LeaseSpec OneIdlesOut OneUnreachableRetires OneShutsDown
