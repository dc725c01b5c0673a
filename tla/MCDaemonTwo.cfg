SPECIFICATION Spec
CONSTANTS
    Daemons = {d1, d2}
    Clis = {c1}
    NoFile = NoFile
    Leftover = Leftover
    Nobody = Nobody
    IdleEnabled = TRUE
    GCEnabled = TRUE
INVARIANT AtMostOneServing
