SPECIFICATION FairSpec
CONSTANTS
    s1 = s1
    s2 = s2
    s3 = s3
    daemon = daemon
    gc = gc
    Sweeps = {s1, s2, s3}
    Procs = {daemon, gc}
    Owner <- DaemonAndGc
    Readers = {r1}
    NoProc = NoProc
    Entries = {e1, e2}
    MaxAge = 1
    MaxNow = 2
    Absent = Absent
INVARIANTS TypeOK MarkerHasContents LockGivenBack
PROPERTIES KeptUnderLock TrashDrained
