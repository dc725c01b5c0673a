----------------------------- MODULE MCFileLock -----------------------------
EXTENDS FileLock, TLC

CONSTANTS s1, s2, s3, s4, daemon, gc, bazel

\* A daemon's first and its scheduled sweep, a `busybae gc`, Bazel's own GC.
MCOwner == s1 :> daemon @@ s2 :> daemon @@ s3 :> gc @@ s4 :> bazel
=============================================================================
