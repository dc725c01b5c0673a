SPECIFICATION SerialSpec
CONSTANTS
    s1 = s1
    s2 = s2
    s3 = s3
    s4 = s4
    daemon = daemon
    gc = gc
    bazel = bazel
    Sweeps = {s1, s2, s3, s4}
    Procs = {daemon, gc, bazel}
    Owner <- MCOwner
    Readers = {r1, r2}
    NoProc = NoProc
INVARIANTS TypeOK NeverInParallel HeldThroughout NotKept
