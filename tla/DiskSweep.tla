----------------------------- MODULE DiskSweep -----------------------------
(***************************************************************************)
(* SweepDiskCache (internal/gc/disk.go) on one disk cache: the sweeps of   *)
(* several busybae processes, and of Bazel's own collector, which it       *)
(* mirrors, while builds write entries and touch those they use.           *)
(*                                                                         *)
(* An entry of ac/ refers to entries of cas/.  Whether an entry is old is  *)
(* a matter of its mtime and the clock, both small numbers here.  Sizes    *)
(* are left out: whatever changes a size sets the mtime, too.              *)
(***************************************************************************)
EXTENDS Integers

CONSTANTS
    Sweeps, Procs, Owner, NoProc,   \* as in FileLock
    Ac, Cas,   \* the entries that may exist, by directory
    Ref,       \* Ref[a]: the blob that a refers to
    Rank,      \* Rank[f]: f's place in the order of the paths
    MaxAge,    \* opts.MaxAge, in ticks of the clock
    MaxNow,    \* bound: the clock stops here
    Absent     \* the mtime of a file that is not there

Files == Ac \union Cas

ASSUME DiskAssumption ==
    /\ Owner \in [Sweeps -> Procs] /\ NoProc \notin Procs
    /\ Ac \intersect Cas = {} /\ Ref \in [Ac -> Cas]
    /\ Rank \in [Files -> Nat]
    /\ \A f, g \in Files : f # g => Rank[f] # Rank[g]
    /\ \A a \in Ac, c \in Cas : Rank[a] < Rank[c]
    /\ MaxAge \in Nat \ {0} /\ MaxNow \in Nat /\ MaxAge <= MaxNow
    /\ Absent \notin Nat

VARIABLES
    dry,      \* dry[p]: p was started with --dry-run
    excl, shared, lk,   \* the lock <root>/gc/lock: FileLock
    now,
    mtime,    \* mtime[f]
    pc,       \* pc[s]: where sweep s is
    stopped,  \* stopped[s]: its context is done
    cutoff,   \* cutoff[s]
    todo,     \* todo[s]: the files its walk has not come to
    cand,     \* cand[s]: candidates, with the mtime they were listed with
    gone,     \* gone[s]: those it has removed (stats.Removed counts them)
    errors,   \* errors[s]: stats.Errors > 0
    used      \* history: files a build used during s, see Use

lockVars == <<excl, shared, lk>>
cache == <<dry, now, mtime>>
sweepVars == <<pc, stopped, cutoff, todo, cand, gone, errors>>
vars == <<lockVars, cache, sweepVars, used>>

\* Builds do not lock a disk cache, so there are no readers.
Lock == INSTANCE FileLock WITH Readers <- {}

Time == 0..MaxNow
Candidate == [file : Files, at : Time]

TypeOK ==
    /\ dry \in [Procs -> BOOLEAN]
    /\ Lock!TypeOK
    /\ now \in Time
    /\ mtime \in [Files -> Time \union {Absent}]
    /\ pc \in [Sweeps -> {"idle", "lock", "scan", "delete", "remove", "done", "cut", "close"}]
    /\ stopped \in [Sweeps -> BOOLEAN]
    /\ cutoff \in [Sweeps -> Int]
    /\ todo \in [Sweeps -> SUBSET Files]
    /\ cand \in [Sweeps -> SUBSET Candidate]
    /\ gone \in [Sweeps -> SUBSET Candidate]
    /\ errors \in [Sweeps -> BOOLEAN]
    /\ used \in [Sweeps -> SUBSET Files]

Init ==
    /\ dry \in [Procs -> BOOLEAN]
    /\ Lock!Init
    /\ now = MaxAge
    /\ mtime \in [Files -> (0..now) \union {Absent}]
    /\ pc = [s \in Sweeps |-> "idle"]
    /\ stopped = [s \in Sweeps |-> FALSE]
    /\ cutoff = [s \in Sweeps |-> 0]
    /\ todo = [s \in Sweeps |-> {}]
    /\ cand = [s \in Sweeps |-> {}]
    /\ gone = [s \in Sweeps |-> {}]
    /\ errors = [s \in Sweeps |-> FALSE]
    /\ used = [s \in Sweeps |-> {}]

\* Mutant: sorted by descending path among equal mtimes.
PrecedesByBlob(c, d) == c.at < d.at \/ (c.at = d.at /\ Rank[c.file] >= Rank[d.file])

\* sort.Slice: by mtime, then by path.
Precedes(c, d) == c.at < d.at \/ (c.at = d.at /\ Rank[c.file] <= Rank[d.file])
IsNext(s, c) == c \in cand[s] /\ \A d \in cand[s] : Precedes(c, d)

-----------------------------------------------------------------------------
(***************************************************************************)
(* Builds and the clock.                                                   *)
(***************************************************************************)

Tick ==
    /\ now < MaxNow
    /\ now' = now + 1
    /\ UNCHANGED <<lockVars, dry, mtime, sweepVars, used>>

\* A build writes f, or touches it on a cache hit.  used[s] misses what is
\* used after s has looked at it for the last time.
Use(f) ==
    /\ mtime' = [mtime EXCEPT ![f] = now]
    /\ used' = [s \in Sweeps |->
                   IF \/ pc[s] \in {"scan", "delete"}
                      \/ pc[s] = "remove" /\ \E c \in cand[s] : IsNext(s, c) /\ c.file # f
                   THEN used[s] \union {f} ELSE used[s]]
    /\ UNCHANGED <<lockVars, dry, now, sweepVars>>

-----------------------------------------------------------------------------
(***************************************************************************)
(* SweepDiskCache                                                          *)
(***************************************************************************)

Goto(s, from, to) == pc[s] = from /\ pc' = [pc EXCEPT ![s] = to]

Begin(s) ==
    /\ Goto(s, "idle", "lock")
    /\ Lock!OpenFile(s)
    /\ UNCHANGED <<cache, stopped, cutoff, todo, cand, gone, errors, used>>

Acquire(s) ==
    /\ Goto(s, "lock", "scan")
    /\ Lock!SetLk(s)
    /\ cutoff' = [cutoff EXCEPT ![s] = now - MaxAge]
    /\ todo' = [todo EXCEPT ![s] = Files]
    /\ UNCHANGED <<cache, stopped, cand, gone, errors, used>>

\* What the sweeps in ended know goes with them.
Clear(ended, to) ==
    /\ pc' = [s \in Sweeps |-> IF s \in ended THEN to ELSE pc[s]]
    /\ stopped' = [s \in Sweeps |-> s \notin ended /\ stopped[s]]
    /\ cutoff' = [s \in Sweeps |-> IF s \in ended THEN 0 ELSE cutoff[s]]
    /\ todo' = [s \in Sweeps |-> IF s \in ended THEN {} ELSE todo[s]]
    /\ cand' = [s \in Sweeps |-> IF s \in ended THEN {} ELSE cand[s]]
    /\ gone' = [s \in Sweeps |-> IF s \in ended THEN {} ELSE gone[s]]
    /\ errors' = [s \in Sweeps |-> s \notin ended /\ errors[s]]
    /\ used' = [s \in Sweeps |-> IF s \in ended THEN {} ELSE used[s]]
    /\ UNCHANGED cache

LockHeld(s) == pc[s] = "lock" /\ Lock!SetLkFails(s) /\ Clear({s}, "idle")

Fail(s) == errors' = [errors EXCEPT ![s] = TRUE]

\* Mutant: a failed stat reads as the oldest of times.
OldOrAbsent(s, f) == mtime[f] = Absent \/ mtime[f] <= cutoff[s]

\* Mutant: an entry of exactly MaxAge is kept.
Older(s, f) == mtime[f] # Absent /\ mtime[f] < cutoff[s]

\* The walk comes to f: an old entry becomes a candidate.
Old(s, f) == mtime[f] # Absent /\ mtime[f] <= cutoff[s]

Visit(s, f) ==
    /\ pc[s] = "scan" /\ ~stopped[s]
    /\ f \in todo[s] /\ \A g \in todo[s] : Rank[f] <= Rank[g]
    /\ todo' = [todo EXCEPT ![s] = @ \ {f}]
    /\ \/ /\ cand' = IF Old(s, f)
                     THEN [cand EXCEPT ![s] = @ \union {[file |-> f, at |-> mtime[f]]}]
                     ELSE cand
          /\ UNCHANGED errors
       \/ Fail(s) /\ UNCHANGED cand
    /\ UNCHANGED <<lockVars, cache, pc, stopped, cutoff, gone, used>>

\* A walk that is cut short goes on to the loop with what it has.
WalkEnds(s) ==
    /\ Goto(s, "scan", "delete")
    /\ todo[s] = {} \/ stopped[s]
    /\ todo' = [todo EXCEPT ![s] = {}]
    /\ UNCHANGED <<lockVars, cache, stopped, cutoff, cand, gone, errors, used>>

Drop(s, c) == cand' = [cand EXCEPT ![s] = @ \ {c}]

DryRunReports(s, c) ==
    /\ dry[Owner[s]]
    /\ pc[s] = "delete" /\ ~stopped[s] /\ IsNext(s, c)
    /\ Drop(s, c)
    /\ UNCHANGED <<lockVars, cache, pc, stopped, cutoff, todo, gone, errors, used>>

\* Mutant: no second look.
NoRestat(s, c) ==
    /\ ~dry[Owner[s]]
    /\ pc[s] = "delete" /\ ~stopped[s] /\ IsNext(s, c)
    /\ pc' = [pc EXCEPT ![s] = "remove"]
    /\ UNCHANGED <<lockVars, cache, stopped, cutoff, todo, cand, gone, errors, used>>

\* Lstat: an entry that has changed or gone since the walk is left alone.
Restat(s, c) ==
    /\ ~dry[Owner[s]]
    /\ pc[s] = "delete" /\ ~stopped[s] /\ IsNext(s, c)
    /\ \/ /\ mtime[c.file] = c.at
          /\ pc' = [pc EXCEPT ![s] = "remove"]
          /\ UNCHANGED <<cand, errors>>
       \/ /\ mtime[c.file] # c.at
          /\ Drop(s, c)
          /\ UNCHANGED <<pc, errors>>
       \/ Fail(s) /\ Drop(s, c) /\ UNCHANGED pc
    /\ UNCHANGED <<lockVars, cache, stopped, cutoff, todo, gone, used>>

\* os.Remove takes what is there by now.
Remove(s, c) ==
    /\ Goto(s, "remove", "delete")
    /\ IsNext(s, c)
    /\ Drop(s, c)
    /\ \/ /\ mtime' = [mtime EXCEPT ![c.file] = Absent]
          /\ gone' = IF mtime[c.file] = Absent THEN gone ELSE [gone EXCEPT ![s] = @ \union {c}]
          /\ UNCHANGED errors
       \/ Fail(s) /\ UNCHANGED <<mtime, gone>>
    /\ UNCHANGED <<lockVars, dry, now, stopped, cutoff, todo, used>>

\* The loop sees the context before each candidate, and only then.
LoopEnds(s) ==
    /\ \/ cand[s] = {} /\ Goto(s, "delete", "done")
       \/ cand[s] # {} /\ stopped[s] /\ Goto(s, "delete", "cut")
    /\ UNCHANGED <<lockVars, cache, stopped, cutoff, todo, cand, gone, errors, used>>

Unlock(s) == pc[s] \in {"done", "cut"} /\ Lock!Unlck(s) /\ Clear({s}, "close")

Return(s) ==
    /\ Goto(s, "close", "idle")
    /\ Lock!CloseFile(s)
    /\ UNCHANGED <<cache, stopped, cutoff, todo, cand, gone, errors, used>>

\* A signal, or the idle timeout for a scheduled sweep.  After the loop
\* nobody looks at the context.
Stop(s) ==
    /\ pc[s] \in {"lock", "scan", "delete", "remove"} /\ ~stopped[s]
    /\ stopped' = [stopped EXCEPT ![s] = TRUE]
    /\ UNCHANGED <<lockVars, cache, pc, cutoff, todo, cand, gone, errors, used>>

\* A crash, or a daemon that returns under its first sweep, for which nobody
\* waits.
Die(p) == Lock!Die(p) /\ Clear({s \in Sweeps : Owner[s] = p}, "idle")

SweepStep(s) ==
    \/ Begin(s) \/ Acquire(s) \/ LockHeld(s) \/ WalkEnds(s) \/ LoopEnds(s)
    \/ Unlock(s) \/ Return(s) \/ Stop(s)
    \/ \E f \in Files : Visit(s, f)
    \/ \E c \in cand[s] : DryRunReports(s, c) \/ Restat(s, c) \/ Remove(s, c)

Next ==
    \/ Tick
    \/ \E f \in Files : Use(f)
    \/ \E s \in Sweeps : SweepStep(s)
    \/ \E p \in Procs : Die(p)

Spec == Init /\ [][Next]_vars

\* The sweeps of a process take turns: see FileLock.
SerialSpec == Init /\ [][Next /\ \A s \in Sweeps : Begin(s) => Lock!Alone(s)]_vars

-----------------------------------------------------------------------------

\* "Re-stat each candidate immediately before deleting" (lines 31-34): what a
\* build used while a sweep went on is not removed by it, unless it was used
\* between that look and the removal.
UsedSurvive ==
    \A s \in Sweeps : \A c \in cand[s] :
        pc[s] = "remove" /\ IsNext(s, c) => c.file \notin used[s]

\* A sweep that is neither stopped nor troubled by errors leaves nothing that
\* has not been used since its cutoff, whoever else swept and wrote meanwhile.
NothingOldLeft ==
    \A s \in Sweeps :
        pc[s] = "done" /\ ~dry[Owner[s]] /\ ~stopped[s] /\ ~errors[s] =>
            \A f \in Files : mtime[f] # Absent => mtime[f] > cutoff[s]

\* What the order of the candidates gives: while an entry of ac/ waits for its
\* turn, its blob is gone only if it was used longer ago (lines 116-124).
BlobFirstOnlyIfOlder ==
    \A s \in Sweeps : \A a \in cand[s], c \in gone[s] :
        a.file \in Ac /\ c.file = Ref[a.file] => c.at < a.at

\* Where a sweep is says what it has in hand.  What it may remove is older than
\* what a build has used since it began: a use sets the clock's time, which is
\* MaxAge past the cutoff at the least.  Inductive with the types.
SweepOrder ==
    \A s \in Sweeps :
        /\ pc[s] \in {"idle", "lock", "close"} => cand[s] = {} /\ used[s] = {}
        /\ pc[s] \in {"idle", "lock", "scan", "close"} => gone[s] = {}
        /\ pc[s] # "scan" => todo[s] = {}
        /\ pc[s] = "done" => cand[s] = {}
        /\ pc[s] \notin {"idle", "lock", "close"} => cutoff[s] + MaxAge <= now
        /\ \A c \in cand[s] : c.at <= cutoff[s]
        /\ \A f \in used[s] : mtime[f] # Absent => mtime[f] > cutoff[s]

\* What is old has not been visited, or waits for its turn as it is by now.
\* NothingOldLeft is the end of it.
OldToCome ==
    \A s \in Sweeps :
        pc[s] \in {"scan", "delete", "remove", "done"} /\ ~dry[Owner[s]]
                /\ ~stopped[s] /\ ~errors[s] =>
            \A f \in Files : mtime[f] # Absent =>
                \/ mtime[f] > cutoff[s]
                \/ f \in todo[s]
                \/ [file |-> f, at |-> mtime[f]] \in cand[s]

\* Where a sweep is in the code is where it is in the use of the lock.
UnderLock ==
    \A s \in Sweeps :
        lk[s] = CASE pc[s] = "idle"  -> "none"
                  [] pc[s] = "lock"  -> "opened"
                  [] pc[s] = "close" -> "closing"
                  [] OTHER           -> "locked"

\* One sweep at a time is at the cache, of all processes, Bazel's collector
\* among them (disk.go lines 21-22).  In SerialSpec only: see FileLock.
OneSweepsAtATime ==
    \A s, t \in Sweeps :
        pc[s] \notin {"idle", "lock", "close"} /\ pc[t] \notin {"idle", "lock", "close"} => s = t
=============================================================================
