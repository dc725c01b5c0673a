SPECIFICATION FairSpec
CONSTANTS
    Sweeps = {s1, s2}
    DryRuns = {s2}
    Units = {u1}
    Dirs = {d1, d2}
    MaxAge = 1
    MaxNow = 2
    Absent = Absent
INVARIANTS TypeOK UsedSurvive NothingOldLeft
PROPERTY TrashGoes
