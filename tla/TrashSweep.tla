----------------------------- MODULE TrashSweep -----------------------------
(***************************************************************************)
(* The two sweeps that take no lock and collect what they evict in a trash *)
(* directory of their own: SweepDownloadCache (internal/gc/download.go) on *)
(* the keys of a download cache, and SweepOutputBases (internal/gc/        *)
(* output.go) on the output bases of a user.  Several sweeps, of one       *)
(* process or of many, go over the same root while builds use it.          *)
(*                                                                         *)
(* A unit is a key directory <hash>/<key>/ or an output base.              *)
(***************************************************************************)
EXTENDS Integers, FiniteSets

CONSTANTS
    Sweeps,
    DryRuns,   \* those of a process that was given --dry-run
    Units,
    Dirs,      \* names for trash directories; bounds those there at once
    MaxAge,    \* opts.MaxAge, in ticks of the clock
    MaxNow,    \* bound: the clock stops here
    Absent     \* the time of a file that is not there

ASSUME TrashAssumption ==
    /\ MaxAge \in Nat \ {0} /\ MaxNow \in Nat /\ MaxAge <= MaxNow
    /\ Absent \notin Int
    /\ DryRuns \subseteq Sweeps /\ Units \intersect Dirs = {}

VARIABLES
    kind,     \* which of the two sweeps this root is for
    dry,      \* dry[s]: s only reports
    linksToo, \* opts.IncludeHardlinked
    now,
    there,    \* units in their place
    at,       \* at[u]: mtime of <key>/file, last activity of an output base
    writing,  \* keys with a tmp-* entry
    linked,   \* keys whose file has other links
    lost,     \* output bases whose workspace does not exist
    made,     \* the trash directories there are
    trash,    \* trash[d]: what is in d
    pc, cutoff,
    own,      \* own[s]: the trash directory s has made, {} if none
    doomed,   \* doomed[s]: the trash directories s is about to remove
    todo,     \* todo[s]: units listed, not looked at
    cur,      \* cur[s]: the unit s is at, {} if none
    flawed,   \* flawed[s]: history, some call of s has failed
    spared,   \* spared[s]: history, keys s has kept for what is in them
    used      \* used[s]: history, see Use

opts == <<kind, dry, linksToo>>
cache == <<there, at, writing, linked>>
world == <<now, cache, lost>>
litter == <<made, trash>>
local == <<cutoff, own, todo, cur, flawed, spared, used>>
vars == <<opts, world, litter, pc, doomed, local>>

Time == 0..MaxNow
Download == kind = "download"

TypeOK ==
    /\ kind \in {"download", "output"}
    /\ dry \in [Sweeps -> BOOLEAN] /\ linksToo \in BOOLEAN
    /\ now \in Time
    /\ at \in [Units -> Time \union {Absent}]
    /\ {there, writing, linked, lost} \subseteq SUBSET Units
    /\ made \subseteq Dirs /\ trash \in [Dirs -> SUBSET Units]
    /\ pc \in [Sweeps -> {"idle", "old", "loop", "look", "mkdir", "rename", "clean"}]
    /\ flawed \in [Sweeps -> BOOLEAN]
    /\ cutoff \in [Sweeps -> Int]
    /\ {own, doomed} \subseteq [Sweeps -> SUBSET Dirs]
    /\ {todo, cur, spared, used} \subseteq [Sweeps -> SUBSET Units]

Init ==
    /\ kind \in {"download", "output"}
    /\ dry \in [Sweeps -> BOOLEAN] /\ \A s \in Sweeps \ DryRuns : ~dry[s]
    /\ linksToo \in IF Download THEN BOOLEAN ELSE {FALSE}
    /\ now = MaxAge
    /\ there \in SUBSET Units
    /\ at \in [Units -> (0..now) \union {Absent}]
    /\ \A u \in Units : at[u] # Absent <=> u \in there
    /\ writing = {} /\ linked = {} /\ lost = {}
    /\ made = {} /\ trash = [d \in Dirs |-> {}]
    /\ pc = [s \in Sweeps |-> "idle"]
    /\ flawed = [s \in Sweeps |-> FALSE]
    /\ cutoff = [s \in Sweeps |-> 0]
    /\ own = [s \in Sweeps |-> {}] /\ doomed = [s \in Sweeps |-> {}]
    /\ todo = [s \in Sweeps |-> {}] /\ cur = [s \in Sweeps |-> {}]
    /\ spared = [s \in Sweeps |-> {}] /\ used = [s \in Sweeps |-> {}]

-----------------------------------------------------------------------------
(***************************************************************************)
(* Builds, workspaces and the clock.                                       *)
(***************************************************************************)

Tick ==
    /\ now < MaxNow
    /\ now' = now + 1
    /\ UNCHANGED <<opts, cache, lost, litter, pc, doomed, local>>

\* used[s] gathers what s has still to decide on.
Use(u) ==
    /\ there' = there \union {u}
    /\ at' = [at EXCEPT ![u] = now]
    /\ used' = [s \in Sweeps |->
                   IF u \in todo[s] \/ (pc[s] = "look" /\ u \in cur[s])
                   THEN used[s] \union {u} ELSE used[s]]

WriteBegins(u) ==
    /\ Download /\ u \notin writing
    /\ there' = there \union {u}
    /\ writing' = writing \union {u}
    /\ UNCHANGED <<opts, now, at, linked, lost, litter, pc, doomed, local>>

\* The tmp-* entry becomes the file.
WriteEnds(u) ==
    /\ Download /\ u \in writing
    /\ Use(u)
    /\ writing' = writing \ {u}
    /\ UNCHANGED <<opts, now, linked, lost, litter, pc, doomed, cutoff, own, todo, cur,
                   flawed, spared>>

\* A hit touches the file, and copies or links it.
Hit(u) ==
    /\ Download /\ at[u] # Absent
    /\ Use(u)
    /\ linked' \in {linked, linked \union {u}}
    /\ UNCHANGED <<opts, now, writing, lost, litter, pc, doomed, cutoff, own, todo, cur,
                   flawed, spared>>

LinkGoes(u) ==
    /\ u \in linked
    /\ linked' = linked \ {u}
    /\ UNCHANGED <<opts, now, there, at, writing, lost, litter, pc, doomed, local>>

\* Bazel runs in the workspace of u.
Build(u) ==
    /\ ~Download /\ u \notin lost
    /\ Use(u)
    /\ UNCHANGED <<opts, now, writing, linked, lost, litter, pc, doomed, cutoff, own, todo,
                   cur, flawed, spared>>

\* It is removed, or moved away, which undoes the use of its output base ...
WorkspaceGoes(u) ==
    /\ ~Download /\ u \in there \ lost
    /\ lost' = lost \union {u}
    /\ used' = [s \in Sweeps |-> used[s] \ {u}]
    /\ UNCHANGED <<opts, now, cache, litter, pc, doomed, cutoff, own, todo, cur, flawed,
                   spared>>

\* ... or comes back.
WorkspaceComes(u) ==
    /\ u \in lost
    /\ lost' = lost \ {u}
    /\ UNCHANGED <<opts, now, cache, litter, pc, doomed, local>>

-----------------------------------------------------------------------------
(***************************************************************************)
(* Trash directories (internal/gc/gc.go).                                  *)
(***************************************************************************)

Goto(s, from, to) == pc[s] = from /\ pc' = [pc EXCEPT ![s] = to]

\* Mutant: cleanupOldTrash is not called.
BeginBlind(s) ==
    /\ Goto(s, "idle", "old")
    /\ UNCHANGED <<opts, world, litter, doomed, local>>

\* cleanupOldTrash lists the trash directories of all sweeps, those under way
\* included, and removes them, in a dry run, too.
Begin(s) ==
    /\ Goto(s, "idle", "old")
    /\ doomed' = [doomed EXCEPT ![s] = made]
    /\ UNCHANGED <<opts, world, litter, local>>

\* os.RemoveAll, on old trash or in the deferred cleanup: the contents ...
Purge(s, d, u) ==
    /\ d \in doomed[s]
    /\ u \in trash[d]
    /\ trash' = [trash EXCEPT ![d] = @ \ {u}]
    /\ UNCHANGED <<opts, world, made, pc, doomed, local>>

\* ... and the directory, unless something has been moved there meanwhile.
Remove(s, d) ==
    /\ d \in doomed[s]
    /\ trash[d] = {}
    /\ made' = made \ {d}
    /\ doomed' = [doomed EXCEPT ![s] = @ \ {d}]
    /\ UNCHANGED <<opts, world, trash, pc, local>>

\* A failure is logged and swallowed.  (So is one of the listing.)
RemoveFails(s, d) ==
    /\ d \in doomed[s]
    /\ doomed' = [doomed EXCEPT ![s] = @ \ {d}]
    /\ UNCHANGED <<opts, world, litter, pc, local>>

\* Mutant: a trash directory is taken for a unit.
ListsAll == there \union made

\* Directories whose names are those of keys or of output bases.
Listed == there

\* A name nobody has, and nobody is about to remove.
Unused(d) == d \notin made /\ \A s \in Sweeps : d \notin own[s] \union doomed[s]

\* os.MkdirTemp, with the listing of the units; no directory in a dry run.
MakeTrash(s) ==
    /\ Goto(s, "old", "loop")
    /\ doomed[s] = {}
    /\ Download \/ there # {}
    /\ \/ dry[s] /\ UNCHANGED <<own, made>>
       \/ ~dry[s] /\ \E d \in Dirs :
             /\ Unused(d)
             /\ own' = [own EXCEPT ![s] = {d}]
             /\ made' = made \union {d}
    /\ cutoff' = [cutoff EXCEPT ![s] = now - MaxAge]
    /\ todo' = [todo EXCEPT ![s] = Listed]
    /\ UNCHANGED <<opts, world, trash, doomed, cur, flawed, spared, used>>

\* What s knows goes with it; its trash directory does not.
End(s) ==
    /\ pc' = [pc EXCEPT ![s] = "idle"]
    /\ cutoff' = [cutoff EXCEPT ![s] = 0]
    /\ own' = [own EXCEPT ![s] = {}]
    /\ doomed' = [doomed EXCEPT ![s] = {}]
    /\ todo' = [todo EXCEPT ![s] = {}]
    /\ cur' = [cur EXCEPT ![s] = {}]
    /\ flawed' = [flawed EXCEPT ![s] = FALSE]
    /\ spared' = [spared EXCEPT ![s] = {}]
    /\ used' = [used EXCEPT ![s] = {}]
    /\ UNCHANGED <<opts, world, litter>>

\* No trash directory can be made, or (of an output_user_root) nothing looks
\* like an output base.
GivesUp(s) == pc[s] = "old" /\ doomed[s] = {} /\ End(s)

-----------------------------------------------------------------------------
(***************************************************************************)
(* One unit: classifyDownloadKey or classifyOutputBase, then the rename.   *)
(***************************************************************************)

\* Mutant: Before for After.
Young(s, u) == at[u] > cutoff[s]

\* Mutant: a unit of exactly MaxAge is kept.
Older(s, u) == at[u] < cutoff[s]

Old(s, u) == at[u] <= cutoff[s]

Take(s, u, to) ==
    /\ pc[s] = "loop" /\ u \in todo[s]
    /\ todo' = [todo EXCEPT ![s] = @ \ {u}]
    /\ pc' = [pc EXCEPT ![s] = to]
    /\ cur' = IF to = "loop" THEN cur ELSE [cur EXCEPT ![s] = {u}]
    /\ used' = IF to = "loop" THEN [used EXCEPT ![s] = @ \ {u}] ELSE used
    /\ UNCHANGED <<opts, world, litter, doomed, cutoff, own>>

Then(s, u, from, to) ==
    /\ Goto(s, from, to)
    /\ u \in cur[s]
    /\ cur' = IF to = "loop" THEN [cur EXCEPT ![s] = {}] ELSE cur
    /\ used' = IF to = "loop" THEN [used EXCEPT ![s] = @ \ {u}] ELSE used
    /\ UNCHANGED <<opts, now, lost, doomed, cutoff, own, todo>>

Flaw(s) == flawed' = [flawed EXCEPT ![s] = TRUE]
Spare(s, u) == spared' = [spared EXCEPT ![s] = @ \union {u}]

\* Where an eviction goes on; a dry run only counts it.
Evict(s) == IF dry[s] THEN "loop" ELSE IF Download THEN "mkdir" ELSE "rename"

\* ReadDir of a key: what is being written is left alone.
KeyNames(s, u) ==
    /\ Download /\ u \in there
    /\ IF u \in writing \/ at[u] = Absent
       THEN Take(s, u, "loop") /\ Spare(s, u)
       ELSE Take(s, u, "look") /\ UNCHANGED spared
    /\ UNCHANGED flawed

\* Info of its file, which may have changed since.
KeyInfo(s, u) ==
    /\ Download /\ at[u] # Absent
    /\ \/ Old(s, u) /\ (u \in linked => linksToo)
          /\ Then(s, u, "look", Evict(s)) /\ UNCHANGED spared
       \/ Old(s, u) /\ u \in linked /\ ~linksToo
          /\ Then(s, u, "look", "loop") /\ Spare(s, u)
       \/ ~Old(s, u) /\ Then(s, u, "look", "loop") /\ UNCHANGED spared
    /\ UNCHANGED <<cache, litter, flawed>>

\* A workspace that does not exist decides; one that does, or that cannot be
\* told, does not.
BaseWorkspace(s, u) ==
    /\ ~Download
    /\ \/ u \in there /\ u \in lost /\ Take(s, u, Evict(s))
       \/ Take(s, u, "look")
    /\ UNCHANGED <<flawed, spared>>

BaseActivity(s, u) ==
    /\ ~Download /\ u \in there
    /\ Then(s, u, "look", IF Old(s, u) THEN Evict(s) ELSE "loop")
    /\ UNCHANGED <<cache, litter, flawed, spared>>

\* An error of either, such as a unit that has gone; a hash directory that
\* cannot be read is an error of each of its keys.
ClassifyFails(s, u) ==
    /\ \/ Download /\ Take(s, u, "loop")
       \/ Then(s, u, "look", "loop") /\ UNCHANGED <<cache, litter>>
    /\ Flaw(s)
    /\ UNCHANGED spared

\* os.MkdirAll of <trash>/<hash>: makes a trash directory that another sweep
\* has removed once more.
MkdirParent(s, u) ==
    /\ Then(s, u, "mkdir", "rename")
    /\ made' = made \union own[s]
    /\ UNCHANGED <<cache, trash, flawed, spared>>

\* os.Rename takes the unit as it is by now.
Rename(s, u) ==
    /\ Then(s, u, "rename", "loop")
    /\ u \in there /\ own[s] \subseteq made
    /\ trash' = [d \in Dirs |-> IF d \in own[s] THEN trash[d] \union {u} ELSE trash[d]]
    /\ there' = there \ {u}
    /\ at' = [at EXCEPT ![u] = Absent]
    /\ writing' = writing \ {u} /\ linked' = linked \ {u}
    /\ UNCHANGED <<made, flawed, spared>>

\* An error, or ENOENT because the unit or the trash directory has gone: a
\* concurrent update to the one sweep, nothing at all to the other.
MoveFails(s, u) ==
    /\ Then(s, u, "mkdir", "loop") \/ Then(s, u, "rename", "loop")
    /\ Flaw(s)
    /\ UNCHANGED <<cache, litter, spared>>

-----------------------------------------------------------------------------

\* The loops end after the last unit, or before any when the context is done
\* (a signal, or the idle timeout for a scheduled sweep), and the deferred
\* cleanup begins.
LoopEnds(s) ==
    /\ Goto(s, "loop", "clean")
    /\ doomed' = [doomed EXCEPT ![s] = own[s]]
    /\ cutoff' = [cutoff EXCEPT ![s] = 0]
    /\ todo' = [todo EXCEPT ![s] = {}]
    /\ flawed' = [flawed EXCEPT ![s] = FALSE]
    /\ spared' = [spared EXCEPT ![s] = {}]
    /\ used' = [used EXCEPT ![s] = {}]
    /\ UNCHANGED <<opts, world, litter, own, cur>>

Return(s) == pc[s] = "clean" /\ doomed[s] = {} /\ End(s)

\* A crash, or a daemon that returns under its first sweep.
Die(s) == pc[s] # "idle" /\ End(s)

WorldStep(u) ==
    \/ WriteBegins(u) \/ WriteEnds(u) \/ Hit(u) \/ LinkGoes(u)
    \/ Build(u) \/ WorkspaceGoes(u) \/ WorkspaceComes(u)

Progress(s) ==
    \/ Begin(s) \/ MakeTrash(s) \/ GivesUp(s) \/ LoopEnds(s) \/ Return(s)
    \/ \E d \in Dirs : Remove(s, d) \/ \E u \in Units : Purge(s, d, u)
    \/ \E u \in Units :
          \/ KeyNames(s, u) \/ KeyInfo(s, u) \/ BaseWorkspace(s, u) \/ BaseActivity(s, u)
          \/ ClassifyFails(s, u) \/ MkdirParent(s, u) \/ Rename(s, u) \/ MoveFails(s, u)

\* A step that leaves trash to nobody.  A RemoveAll that fails on the directory
\* of a live sweep, which that sweep fills meanwhile, does not.
Fault(s) ==
    \/ Die(s) /\ (doomed[s] # {} \/ own[s] \intersect made # {})
    \/ \E d \in made : RemoveFails(s, d) /\ \A t \in Sweeps \ {s} : d \notin own[t]

Next ==
    \/ Tick
    \/ \E u \in Units : WorldStep(u)
    \/ \E s \in Sweeps : Progress(s) \/ Die(s) \/ \E d \in Dirs : RemoveFails(s, d)

Spec == Init /\ [][Next]_vars

\* A sweep that can take its next step takes it, the next one comes, and faults
\* do not come for ever.
FairSpec ==
    /\ Spec
    /\ \A s \in Sweeps : WF_vars(Progress(s))
    /\ <>[][\A s \in Sweeps : ~Fault(s)]_vars

-----------------------------------------------------------------------------

\* What a build uses while a sweep goes on is not evicted by that sweep, unless
\* the use comes after the decision (classifyDownloadKey, classifyOutputBase),
\* or the workspace has gone since the use.
UsedSurvive ==
    \A s \in Sweeps : pc[s] \in {"mkdir", "rename"} => cur[s] \intersect used[s] = {}

\* A sweep that has gone through all units with no call failing leaves none
\* that was not used since its cutoff, but for keys in which it has seen a write
\* or a link.
NothingOldLeft ==
    \A s \in Sweeps : pc[s] = "loop" /\ todo[s] = {} /\ ~dry[s] /\ ~flawed[s] =>
        \A u \in there \ spared[s] : at[u] = Absent \/ at[u] > cutoff[s]

\* What is in a trash directory goes, whoever made it and whatever became of
\* its maker ("a leftover trash tree from a crashed sweep is easy to collect on
\* the next run", gc.go lines 32-33).
TrashGoes == \A d \in Dirs, u \in Units : u \in trash[d] ~> d \notin made

\* Where a sweep is says what it has in hand: one unit at a time, which it has
\* not still to come to.  What was used since the sweep began is young, unless
\* it has gone, and a workspace that is lost undoes the use.  Inductive with
\* the types.
SweepOrder ==
    /\ \A u \in Units : at[u] # Absent => u \in there
    /\ ~Download => \A u \in there : at[u] # Absent
    /\ \A s \in Sweeps :
          /\ pc[s] \in {"idle", "old", "loop", "clean"} => cur[s] = {}
          /\ pc[s] \in {"idle", "old", "clean"} => todo[s] = {} /\ used[s] = {}
          /\ pc[s] \in {"loop", "look", "mkdir", "rename"} => cutoff[s] + MaxAge <= now
          /\ \A u, v \in cur[s] : u = v
          /\ cur[s] \intersect todo[s] = {}
          /\ \A u \in used[s] : at[u] # Absent => at[u] > cutoff[s]
          /\ ~Download => used[s] \intersect lost = {}

\* What is old is still to come, or at hand.  NothingOldLeft is the end of it.
OldToCome ==
    \A s \in Sweeps :
        pc[s] \in {"loop", "look", "mkdir", "rename"} /\ ~dry[s] /\ ~flawed[s] =>
            \A u \in there \ spared[s] :
                at[u] = Absent \/ at[u] > cutoff[s] \/ u \in todo[s] \union cur[s]
=============================================================================
