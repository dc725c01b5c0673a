------------------------------ MODULE FileLock ------------------------------
(***************************************************************************)
(* The lock file of one cache directory, as internal/gc/lock_unix.go and   *)
(* Bazel use it: a POSIX record lock, which belongs to a process and not   *)
(* to a descriptor, and which goes when the process closes any descriptor  *)
(* of the file.                                                            *)
(***************************************************************************)
CONSTANTS
    Sweeps,   \* goroutines that sweep the directory (Bazel's GC is one, too)
    Procs,    \* processes
    Owner,    \* Owner[s]: the process of sweep s
    Readers,  \* Bazel processes that take the lock shared while they build
    NoProc

ASSUME LockAssumption ==
    /\ Owner \in [Sweeps -> Procs]
    /\ NoProc \notin Procs

VARIABLES
    excl,     \* the process that holds the lock exclusively
    shared,   \* the readers that hold it shared
    lk        \* lk[s]: where s is in tryLockExclusive and unlock

lockVars == <<excl, shared, lk>>

TypeOK ==
    /\ excl \in Procs \union {NoProc}
    /\ shared \in SUBSET Readers
    /\ lk \in [Sweeps -> {"none", "opened", "locked", "closing"}]

Init ==
    /\ excl = NoProc
    /\ shared = {}
    /\ lk = [s \in Sweeps |-> "none"]

To(s, from, to) == lk[s] = from /\ lk' = [lk EXCEPT ![s] = to]

Release(p) == excl' = IF excl = p THEN NoProc ELSE excl

OpenFile(s) == To(s, "none", "opened") /\ UNCHANGED <<excl, shared>>

\* Mutant: readers do not matter.
GrantableOverReaders(p) == excl \in {NoProc, p}

\* F_SETLK succeeds as well when the process has the lock already.
Grantable(p) == excl \in {NoProc, p} /\ shared = {}

\* Mutant: the lock belongs to the open file, as with F_OFD_SETLK.
SetLkOfFile(s) ==
    /\ To(s, "opened", "locked")
    /\ Grantable(Owner[s])
    /\ excl' = s
    /\ UNCHANGED shared

SetLk(s) ==
    /\ To(s, "opened", "locked")
    /\ Grantable(Owner[s])
    /\ excl' = Owner[s]
    /\ UNCHANGED shared

\* Mutant: a failed attempt gives up the lock of whoever holds it.
SetLkFailsHard(s) ==
    /\ To(s, "opened", "none")
    /\ excl' = NoProc
    /\ UNCHANGED shared

\* errLockHeld, or another error of fcntl: the file is closed.
SetLkFails(s) ==
    /\ To(s, "opened", "none")
    /\ Release(Owner[s])
    /\ UNCHANGED shared

\* Mutant: the descriptor and its lock are left to the garbage collector.
UnlckNothing(s) == To(s, "locked", "closing") /\ UNCHANGED <<excl, shared>>

\* unlock() makes two calls, and each one releases what the process holds.
Unlck(s) == To(s, "locked", "closing") /\ Release(Owner[s]) /\ UNCHANGED shared
CloseFile(s) == To(s, "closing", "none") /\ Release(Owner[s]) /\ UNCHANGED shared

\* The end of a process, whatever its sweeps are at.
Die(p) ==
    /\ lk' = [s \in Sweeps |-> IF Owner[s] = p THEN "none" ELSE lk[s]]
    /\ Release(p)
    /\ UNCHANGED shared

ReadLock(r) ==
    /\ excl = NoProc /\ r \notin shared
    /\ shared' = shared \union {r}
    /\ UNCHANGED <<excl, lk>>

ReadUnlock(r) ==
    /\ r \in shared
    /\ shared' = shared \ {r}
    /\ UNCHANGED <<excl, lk>>

LockStep(s) == OpenFile(s) \/ SetLk(s) \/ SetLkFails(s) \/ Unlck(s) \/ CloseFile(s)

Next ==
    \/ \E s \in Sweeps : LockStep(s)
    \/ \E p \in Procs : Die(p)
    \/ \E r \in Readers : ReadLock(r) \/ ReadUnlock(r)

Spec == Init /\ [][Next]_lockVars

\* The sweeps of a process take turns, as those of one `busybae gc` do, and
\* those of a daemon whose first sweep is over before the first tick.
Alone(s) == \A t \in Sweeps \ {s} : Owner[t] = Owner[s] => lk[t] = "none"
SerialSpec == Init /\ [][Next /\ \A s \in Sweeps : OpenFile(s) => Alone(s)]_lockVars

-----------------------------------------------------------------------------

\* "... so a busybae sweep and Bazel's own idle-time GC never run in parallel"
\* (disk.go lines 21-22): two processes are never in the locked part at once,
\* nor one of them and a reader (contents.go lines 70-72).
NeverInParallel ==
    \A s \in Sweeps : lk[s] = "locked" =>
        /\ \A t \in Sweeps : lk[t] = "locked" => Owner[t] = Owner[s]
        /\ shared = {}

\* The lock is held for as long as a sweep relies on it, and the sweeps of a
\* process do not rely on it together.  With the types, inductive in SerialSpec.
HeldThroughout ==
    /\ \A s \in Sweeps : lk[s] = "locked" => excl = Owner[s]
    /\ \A s, t \in Sweeps :
          lk[s] # "none" /\ lk[t] # "none" /\ Owner[s] = Owner[t] => s = t
    /\ excl # NoProc => shared = {}

\* A lock nobody relies on is not kept: a sweep that ends, however it ends,
\* leaves the directory to the next one (unlock, line 44; the kernel's release).
NotKept == excl # NoProc => \E s \in Sweeps : Owner[s] = excl /\ lk[s] = "locked"
=============================================================================
