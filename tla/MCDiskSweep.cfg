SPECIFICATION Spec
CONSTANTS
    s1 = s1
    s2 = s2
    daemon = daemon
    other = other
    a1 = a1
    a2 = a2
    c1 = c1
    Sweeps = {s1, s2}
    Procs = {daemon}
    Owner <- OneProcess
    NoProc = NoProc
    Ac = {a1}
    Cas = {c1}
    Ref <- MCRef
    Rank <- MCRank
    MaxAge = 1
    MaxNow = 2
    Absent = Absent
INVARIANTS TypeOK UsedSurvive NothingOldLeft BlobFirstOnlyIfOlder
SYMMETRY Symmetry
