-------------------------- MODULE MCContentsSweep --------------------------
EXTENDS ContentsSweep, TLC

CONSTANTS s1, s2, s3, daemon, gc

\* A daemon and a `busybae gc`.
TwoProcesses == s1 :> daemon @@ s2 :> gc
\* The startup sweep and a scheduled sweep of a daemon.
OneDaemon == s1 :> daemon @@ s2 :> daemon
\* And both beside a `busybae gc`.
DaemonAndGc == OneDaemon @@ s3 :> gc
=============================================================================
