---------------------------- MODULE MCTrashSweep ----------------------------
EXTENDS TrashSweep, TLC

\* No liveness property in the runs that use it.
Symmetry == Permutations(Sweeps) \union Permutations(Units) \union Permutations(Dirs)
=============================================================================
