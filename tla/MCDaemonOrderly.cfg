SPECIFICATION OrderlySpec
CONSTANTS
    Daemons = {d1, d2, d3}
    Clis = {c1, c2}
    NoFile = NoFile
    Leftover = Leftover
    Nobody = Nobody
    IdleEnabled = TRUE
    GCEnabled = TRUE
SYMMETRY Symmetry
INVARIANTS Orderly AtMostOneServing
