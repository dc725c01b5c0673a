SPECIFICATION FairSpec
CONSTANTS
    s1 = s1
    s2 = s2
    s3 = s3
    daemon = daemon
    gc = gc
    Sweeps = {s1, s2}
    Procs = {daemon, gc}
    Owner <- TwoProcesses
    Readers = {r1}
    NoProc = NoProc
    Entries = {e1}
    MaxAge = 1
    MaxNow = 2
    Absent = Absent
PROPERTY OrphanCollected
