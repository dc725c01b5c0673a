--------------------------- MODULE ContentsSweep ---------------------------
(***************************************************************************)
(* SweepRepoContentsCache (internal/gc/contents.go) on one repository      *)
(* contents cache: sweeps of several processes, and builds that add and    *)
(* use entries, under the shared lock or not.                              *)
(*                                                                         *)
(* An entry is a directory <UUID>/ and its marker <UUID>.recorded_inputs,  *)
(* whose mtime tells when it was last used.  A UUID is never used again.   *)
(***************************************************************************)
EXTENDS Integers

CONSTANTS
    Sweeps, Procs, Owner, Readers, NoProc,   \* as in FileLock
    Entries,   \* UUIDs, those of entries still to come included
    MaxAge,    \* opts.MaxAge, in ticks of the clock
    MaxNow,    \* bound: the clock stops here
    Absent     \* the mtime of a marker that is not there

ASSUME ContentsAssumption ==
    /\ Owner \in [Sweeps -> Procs] /\ NoProc \notin Procs
    /\ MaxAge \in Nat \ {0} /\ MaxNow \in Nat /\ MaxAge <= MaxNow
    /\ Absent \notin Int

VARIABLES
    excl, shared, lk,   \* the lock <root>/gc_lock: FileLock
    dry,      \* dry[p]: p was started with --dry-run
    now,
    marker,   \* marker[e]: mtime of the marker
    dir,      \* dir[e]: where the directory is
    pc,       \* pc[s]: where sweep s is
    stopped,  \* stopped[s]: its context is done
    cutoff,   \* cutoff[s]
    todo,     \* todo[s]: listed, not looked at
    cur       \* cur[s]: the entry it is evicting, {} if none

lockVars == <<excl, shared, lk>>
cache == <<marker, dir>>
sweepVars == <<pc, stopped, cutoff, todo, cur>>
vars == <<dry, now, lockVars, cache, sweepVars>>

Lock == INSTANCE FileLock

Time == 0..MaxNow

TypeOK ==
    /\ Lock!TypeOK
    /\ dry \in [Procs -> BOOLEAN]
    /\ now \in Time
    /\ marker \in [Entries -> Time \union {Absent}]
    /\ dir \in [Entries -> {"none", "placed", "live", "trash", "gone"}]
    /\ pc \in [Sweeps -> {"idle", "lock", "loop", "marker", "rename", "drain", "close"}]
    /\ stopped \in [Sweeps -> BOOLEAN]
    /\ cutoff \in [Sweeps -> Int]
    /\ todo \in [Sweeps -> SUBSET Entries]
    /\ cur \in [Sweeps -> SUBSET Entries]

Init ==
    /\ Lock!Init
    /\ dry \in [Procs -> BOOLEAN]
    /\ now = MaxAge
    /\ marker \in [Entries -> (0..now) \union {Absent}]
    /\ dir = [e \in Entries |-> IF marker[e] = Absent THEN "none" ELSE "live"]
    /\ pc = [s \in Sweeps |-> "idle"]
    /\ stopped = [s \in Sweeps |-> FALSE]
    /\ cutoff = [s \in Sweeps |-> 0]
    /\ todo = [s \in Sweeps |-> {}]
    /\ cur = [s \in Sweeps |-> {}]

-----------------------------------------------------------------------------
(***************************************************************************)
(* Builds and the clock.                                                   *)
(***************************************************************************)

Tick ==
    /\ now < MaxNow
    /\ now' = now + 1
    /\ UNCHANGED <<dry, lockVars, cache, sweepVars>>

\* A build takes the lock shared while it reads the cache (lines 70-72) ...
LocksShared(r) == Lock!ReadLock(r) /\ UNCHANGED <<dry, cache, now, sweepVars>>
UnlocksShared(r) == Lock!ReadUnlock(r) /\ UNCHANGED <<dry, cache, now, sweepVars>>

\* ... "but not necessarily during a single fetch" (lines 186-188): none of its
\* steps asks for it.  A fetched repository: first the directory, then the marker.
Place(e) ==
    /\ dir[e] = "none" /\ marker[e] = Absent
    /\ dir' = [dir EXCEPT ![e] = "placed"]
    /\ UNCHANGED <<dry, lockVars, marker, now, sweepVars>>

Record(e) ==
    /\ dir[e] = "placed"
    /\ dir' = [dir EXCEPT ![e] = "live"]
    /\ marker' = [marker EXCEPT ![e] = now]
    /\ UNCHANGED <<dry, now, lockVars, sweepVars>>

\* A cache hit touches the marker and links the directory.
Hit(e) ==
    /\ marker[e] # Absent
    /\ marker' = [marker EXCEPT ![e] = now]
    /\ UNCHANGED <<dry, now, lockVars, dir, sweepVars>>

-----------------------------------------------------------------------------
(***************************************************************************)
(* SweepRepoContentsCache                                                  *)
(***************************************************************************)

Goto(s, from, to) == pc[s] = from /\ pc' = [pc EXCEPT ![s] = to]

Begin(s) ==
    /\ Goto(s, "idle", "lock")
    /\ Lock!OpenFile(s)
    /\ UNCHANGED <<dry, cache, now, stopped, cutoff, todo, cur>>

\* What the sweeps in ended know goes with them.
Clear(ended, to) ==
    /\ pc' = [s \in Sweeps |-> IF s \in ended THEN to ELSE pc[s]]
    /\ stopped' = [s \in Sweeps |-> s \notin ended /\ stopped[s]]
    /\ cutoff' = [s \in Sweeps |-> IF s \in ended THEN 0 ELSE cutoff[s]]
    /\ todo' = [s \in Sweeps |-> IF s \in ended THEN {} ELSE todo[s]]
    /\ cur' = [s \in Sweeps |-> IF s \in ended THEN {} ELSE cur[s]]
    /\ UNCHANGED <<dry, now>>

LockHeld(s) == pc[s] = "lock" /\ Lock!SetLkFails(s) /\ Clear({s}, "idle") /\ UNCHANGED cache

\* Mutant: the result of fcntl is ignored.
AcquireAnyway(s) ==
    /\ Goto(s, "lock", "loop")
    /\ Lock!To(s, "opened", "locked")
    /\ excl' = Owner[s]
    /\ cutoff' = [cutoff EXCEPT ![s] = now - MaxAge]
    /\ todo' = [todo EXCEPT ![s] = {e \in Entries : marker[e] # Absent}]
    /\ UNCHANGED <<dry, shared, cache, now, stopped, cur>>

\* Mutant: reserved names are taken for entries.
AcquireAll(s) ==
    /\ Goto(s, "lock", "loop")
    /\ Lock!SetLk(s)
    /\ cutoff' = [cutoff EXCEPT ![s] = now - MaxAge]
    /\ todo' = [todo EXCEPT ![s] = Entries \union {"_trash"}]
    /\ UNCHANGED <<dry, cache, now, stopped, cur>>

\* ReadDir lists the markers.  One that fails on a hash directory reads as an
\* empty one and is not counted.
Acquire(s) ==
    /\ Goto(s, "lock", "loop")
    /\ Lock!SetLk(s)
    /\ cutoff' = [cutoff EXCEPT ![s] = now - MaxAge]
    /\ \E listed \in {{}, {e \in Entries : marker[e] # Absent}} :
          todo' = [todo EXCEPT ![s] = listed]
    /\ UNCHANGED <<dry, cache, now, stopped, cur>>

\* The next marker: an old one is evicted.
Look(s, e) ==
    /\ pc[s] = "loop" /\ ~stopped[s]
    /\ e \in todo[s]
    /\ todo' = [todo EXCEPT ![s] = @ \ {e}]
    /\ IF ~dry[Owner[s]] /\ marker[e] # Absent /\ marker[e] <= cutoff[s]
       THEN /\ pc' = [pc EXCEPT ![s] = "marker"]
            /\ cur' = [cur EXCEPT ![s] = {e}]
       ELSE UNCHANGED <<pc, cur>>
    /\ UNCHANGED <<dry, lockVars, cache, now, stopped, cutoff>>

\* Mutant: the directory is moved first.
MoveFirst(s, e) ==
    /\ Goto(s, "marker", "rename")
    /\ e \in cur[s]
    /\ dir' = [dir EXCEPT ![e] = "trash"]
    /\ UNCHANGED <<dry, lockVars, marker, now, stopped, cutoff, todo, cur>>

\* The marker goes first ...
RemoveMarker(s, e) ==
    /\ Goto(s, "marker", IF marker[e] # Absent THEN "rename" ELSE "loop")
    /\ e \in cur[s]
    /\ marker' = [marker EXCEPT ![e] = Absent]
    /\ cur' = IF marker[e] # Absent THEN cur ELSE [cur EXCEPT ![s] = {}]
    /\ UNCHANGED <<dry, lockVars, dir, now, stopped, cutoff, todo>>

\* ... and then the directory, into _trash/.
Rename(s, e) ==
    /\ Goto(s, "rename", "loop")
    /\ e \in cur[s]
    /\ dir' = IF dir[e] = "live" THEN [dir EXCEPT ![e] = "trash"] ELSE dir
    /\ cur' = [cur EXCEPT ![s] = {}]
    /\ UNCHANGED <<dry, lockVars, marker, now, stopped, cutoff, todo>>

\* An error of either: on to the next marker.
EvictFails(s) ==
    /\ Goto(s, "marker", "loop") \/ Goto(s, "rename", "loop")
    /\ cur' = [cur EXCEPT ![s] = {}]
    /\ UNCHANGED <<dry, lockVars, cache, now, stopped, cutoff, todo>>

\* Mutant: only what this sweep has moved is emptied out of _trash/.
ListNoTrash(s) ==
    /\ Goto(s, "loop", "drain")
    /\ todo[s] = {}
    /\ UNCHANGED <<dry, lockVars, cache, now, stopped, cutoff, todo, cur>>

\* emptyDirContents lists _trash/, with what earlier sweeps left there ...
ListTrash(s) ==
    /\ Goto(s, "loop", "drain")
    /\ todo[s] = {}
    /\ todo' = [todo EXCEPT ![s] =
                   IF dry[Owner[s]] THEN {} ELSE {e \in Entries : dir[e] = "trash"}]
    /\ UNCHANGED <<dry, lockVars, cache, now, stopped, cutoff, cur>>

\* ... removes it, and stops at the first error.
Drain(s, e) ==
    /\ pc[s] = "drain" /\ e \in todo[s]
    /\ todo' = [todo EXCEPT ![s] = @ \ {e}]
    /\ dir' = [dir EXCEPT ![e] = "gone"]
    /\ UNCHANGED <<dry, lockVars, marker, now, pc, stopped, cutoff, cur>>

DrainFails(s) ==
    /\ pc[s] = "drain" /\ todo[s] # {}
    /\ todo' = [todo EXCEPT ![s] = {}]
    /\ UNCHANGED <<dry, lockVars, cache, now, pc, stopped, cutoff, cur>>

\* Mutant: the early return for a context that is done forgets the lock.
UnlockAtEnd(s) ==
    \/ /\ pc[s] = "drain" /\ todo[s] = {}
       /\ Lock!Unlck(s)
       /\ Clear({s}, "close")
       /\ UNCHANGED cache
    \/ /\ pc[s] = "loop" /\ todo[s] # {} /\ stopped[s]
       /\ Lock!To(s, "locked", "none")
       /\ Clear({s}, "idle")
       /\ UNCHANGED <<excl, shared, cache>>

\* At the end, or before the next marker when the context is done.
Unlock(s) ==
    /\ \/ pc[s] = "drain" /\ todo[s] = {}
       \/ pc[s] = "loop" /\ todo[s] # {} /\ stopped[s]
    /\ Lock!Unlck(s)
    /\ Clear({s}, "close")
    /\ UNCHANGED cache

Return(s) ==
    /\ Goto(s, "close", "idle")
    /\ Lock!CloseFile(s)
    /\ UNCHANGED <<dry, cache, now, stopped, cutoff, todo, cur>>

\* A signal, or the idle timeout for a scheduled sweep.
Stop(s) ==
    /\ pc[s] \in {"lock", "loop", "marker", "rename"} /\ ~stopped[s]
    /\ stopped' = [stopped EXCEPT ![s] = TRUE]
    /\ UNCHANGED <<dry, lockVars, cache, now, pc, cutoff, todo, cur>>

\* A crash, or a daemon that returns under its first sweep, for which nobody
\* waits.
Die(p) == Lock!Die(p) /\ Clear({s \in Sweeps : Owner[s] = p}, "idle") /\ UNCHANGED cache

BuildStep ==
    \/ \E r \in Readers : LocksShared(r) \/ UnlocksShared(r)
    \/ \E e \in Entries : Place(e) \/ Record(e) \/ Hit(e)

Progress(s) ==
    \/ Begin(s) \/ LockHeld(s) \/ ListTrash(s) \/ Unlock(s) \/ Return(s)
    \/ \E e \in Entries : Look(s, e) \/ RemoveMarker(s, e) \/ Rename(s, e) \/ Drain(s, e)

Trouble(s) == EvictFails(s) \/ DrainFails(s) \/ Stop(s)

Next ==
    \/ Tick
    \/ BuildStep
    \/ \E s \in Sweeps : Acquire(s) \/ Progress(s) \/ Trouble(s)
    \/ \E p \in Procs : Die(p)

Spec == Init /\ [][Next]_vars

\* The sweeps of a process take turns: see FileLock.
SerialSpec == Init /\ [][Next /\ \A s \in Sweeps : Begin(s) => Lock!Alone(s)]_vars

\* What may keep a sweep from its work.  (An end of the process before the
\* lock is taken or after it is given back is no different from a return.)
Fault ==
    \/ \E s \in Sweeps : Trouble(s)
    \/ \E p \in Procs :
          /\ Die(p)
          /\ \E s \in Sweeps : Owner[s] = p /\ pc[s] \in {"loop", "marker", "rename", "drain"}

\* A sweep that can take its next step takes it, and the next one begins with
\* the next tick.  Builds leave room: a sweep that comes again and again finds
\* the lock free again and again.  Faults come, but not for ever.
FairSpec ==
    /\ SerialSpec
    /\ \A s \in Sweeps : WF_vars(Progress(s)) /\ []<><<Acquire(s)>>_vars
    /\ <>[][~Fault]_vars

-----------------------------------------------------------------------------

\* Where an eviction is, and what is in _trash/: inductive with the types, and
\* MarkerHasContents follows.
EvictionOrder ==
    /\ \A e \in Entries : marker[e] # Absent => dir[e] = "live"
    /\ \A s \in Sweeps :
          /\ \A d, e \in cur[s] : d = e
          /\ pc[s] = "rename" =>
                \A e \in cur[s] : marker[e] = Absent /\ dir[e] \in {"live", "trash", "gone"}
          /\ pc[s] = "drain" => \A e \in todo[s] : dir[e] \in {"trash", "gone"}

\* Where a sweep is in the code is where it is in the use of the lock.
\* Inductive with the types.
Locked == {"loop", "marker", "rename", "drain"}

UnderLock ==
    \A s \in Sweeps : /\ pc[s] \in Locked <=> lk[s] = "locked"
                      /\ pc[s] = "lock" <=> lk[s] = "opened"

\* A process keeps the lock only while a sweep of its own is at the cache:
\* every way out of a sweep gives it up, the early ones and a crash included
\* (lines 81, 107 and 120), and overlapping sweeps do not take it for each other.
LockGivenBack ==
    excl # NoProc => \E s \in Sweeps : Owner[s] = excl /\ pc[s] \in Locked

\* "no Bazel process can observe a live marker whose contents dir is gone"
\* (lines 51-54): not even after a crash between the two steps of an eviction,
\* and not even when the lock does not keep two sweeps apart.
MarkerHasContents == \A e \in Entries : marker[e] # Absent => dir[e] = "live"

\* The lock is "shared while a build reads the cache" (lines 70-72): while a
\* build holds it no entry goes.  This takes sweeps of a process that take turns
\* (SerialSpec).
KeptUnderLock ==
    [][shared # {} => \A e \in Entries :
           marker[e] # Absent => marker'[e] # Absent /\ dir'[e] = "live"]_vars

\* What a sweep has moved to _trash/ is removed, by that sweep or a later one,
\* if there are sweeps that do not only report (lines 124-132).
TrashDrained ==
    (\E s \in Sweeps : ~dry[Owner[s]]) => \A e \in Entries : dir[e] = "trash" ~> dir[e] = "gone"

\* "an orphaned contents dir with no marker ... will be cleaned up as part of
\* the eventual full sweep" (lines 180-184).
OrphanCollected ==
    (\A p \in Procs : ~dry[p]) =>
        \A e \in Entries : (dir[e] = "live" /\ marker[e] = Absent) ~> dir[e] # "live"
=============================================================================
