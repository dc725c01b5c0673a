---------------------------- MODULE MCDiskSweep ----------------------------
EXTENDS DiskSweep, TLC

CONSTANTS s1, s2, daemon, other, a1, a2, c1

\* The two sweeps of a daemon, which its lock does not keep apart.
OneProcess == s1 :> daemon @@ s2 :> daemon
TwoProcesses == s1 :> daemon @@ s2 :> other
MCRef == a1 :> c1
\* The sweeps of one process are interchangeable.
Symmetry == Permutations(Sweeps)
MCRank == a1 :> 1 @@ c1 :> 2
=============================================================================
