# busybae in TLA+

busybae keeps Bazel's caches small. A shell wrapper pokes a background daemon
on every build; the daemon sweeps the cache directories of a workspace on a
timer and goes when nobody has poked it for a while. This directory holds TLA+
models of that program, the TLC configurations that check them on small
instances, and theorems about them that TLAPS has checked for every instance.
`PROJECT.json` lists the runs, the theorems, the hazards they are aimed at, the
lines of source each definition translates, and for each property a mutant of
the model that breaks it.

## The system

| component | state | operations | talks to |
|---|---|---|---|
| daemon (`internal/daemon/daemon.go`) | the socket path on disk; the listener, the time of the last poke, `runCtx`, the accept loop, the idle watchdog, the GC scheduler | `Run`, `listen`, `handleConn`, shutdown | other daemons, through the path and its socket; the sweeps, through `OnGC` |
| poke and spawn (`daemon.go`, `spawn.go`, `cmdPoke` in `main.go`) | one connection | `Poke`, `IsUnavailable`, `SpawnDetached` | the daemon |
| lock (`internal/gc/lock_unix.go`) | a fcntl record lock on a file of the cache | `tryLockExclusive`, the closure that unlocks | Bazel's collector and builds, other busybae processes |
| disk cache sweep (`disk.go`) | candidates of one sweep; the cache | walk, sort, re-stat, remove | builds, the lock |
| contents cache sweep (`contents.go`) | markers, directories, `_trash/` | marker first, rename, drain | builds, the lock |
| download cache sweep (`download.go`) | key directories, a trash directory of its own | classify, rename, remove the trash | builds, other sweeps' trash |
| output base sweep (`output.go`) | output bases, a trash directory of its own | classify by workspace and age, rename, remove the trash | builds, other sweeps' trash |
| commands (`main.go`) | flags; the directories a process has discovered, its targets, the key of its daemon | `poke`, `daemon`, `gc`, `dirs`, `install-wrapper` | all of the above |
| bazelrc loader (`internal/bazelrc`) | none; the files are the user's | load with imports and skip flags, extract cache directories | the commands |
| wrapper (`internal/wrapper`) | `tools/bazel` and its sibling, the downloaded binary and the parts beside it | install, first-run download, poke, exec | `poke`, through the binary it has installed |

What is hard about it:

* **Processes that share a path.** Daemons start, stop and crash at any moment,
  and all they share is a directory entry. A socket is removed by path, never by
  identity, and the check for a live daemon and the claim are separate calls.
* **Goroutines of one daemon.** Shutdown may begin in the watchdog, in a signal
  handler or in the main goroutine, and each of them closes the listener and
  cancels in its own order; a sweep may be under way; one sweep is not waited
  for at all.
* **A lock that belongs to a process.** Two sweeps of one process do not exclude
  each other, and either one's `close` drops the lock for both.
* **Files that change under a sweep.** Builds touch, write and link entries
  between a sweep's look and its removal, and a crash may come in between.
* **Trash of others.** Two of the sweeps take no lock, and each begins by removing
  the trash directories of all others, dead or alive.
* **Two readers of one configuration.** A poke and the daemon it spawns each read
  the `.bazelrc` files, from a command line that has been taken apart and put
  together again, and must come to the same socket; the files change meanwhile,
  and a reader that fails goes on with what it has.
* **First runs.** Builds of one workspace start together, and each may download and
  install the binary that the others are about to run, or die at it.

What makes each component correct is the list of properties below; the full list
of hazards, with the line each one bites at, is in `PROJECT.json`.

## Modules

| module | models | notes |
|---|---|---|
| `Daemon` | daemons and pokes at one socket path | one action per system call or per step another process can tell apart |
| `SocketLease` | what the daemons promise each other about the directory entry | abstract; `Daemon` implements it (`LeaseSpec`) |
| `FileLock` | `tryLockExclusive` and its unlock, by process, with Bazel's readers | the steps that the sweeps under a lock are made of |
| `DiskSweep` | `SweepDiskCache` with builds and other sweeps | its steps at the lock are those of an instance of `FileLock` |
| `ContentsSweep` | `SweepRepoContentsCache` with builds and other sweeps | the same |
| `TrashSweep` | `SweepDownloadCache` and `SweepOutputBases` with `cleanupOldTrash` and `makeTrash`, with builds and other sweeps | no lock |
| `Bazelrc` | the loader and the extraction: which lines a workspace loads, which directories they declare | operators only; `Config` extends it |
| `Config` | `poke` and `daemon` from the command line to the socket and the targets, with files that change | one action per reading of the files, and per call of `listen` |
| `Wrapper` | `Install` and the script `bazel.tmpl` | one action per command or call another process can tell apart; its cfg needs no MC module |
| `MC...` | model values and symmetry for TLC | one for each component that needs one |
| `DaemonProofs`, `FileLockProofs`, `DiskProofs`, `ContentsProofs`, `TrashProofs`, `BazelrcProofs`, `ConfigProofs`, `WrapperProofs` | theorems | each about the module it is named for |

Definitions marked "Mutant" stand next to the ones they break. Nothing in the
specifications uses them.

### Daemon

A slot of `Daemons` is a process; its variables are those of that process, and
it is reused after an exit or a crash, so the size of `Daemons` bounds the
processes alive at once and not how many there ever are. `run[d]` is the next
call of the main goroutine in `listen` and `Run`; `acc`, `wd` and `sched` are
the accept loop, the watchdog and the scheduler. `path` is the directory entry:
nothing, a file nobody listens behind (`Leftover`), or the socket of a process,
which may by now be somebody else's than the reader thinks.

A poke is `peer[c]` and `conn[c]`: queued in the listener's backlog, accepted,
answered, or reset. A caller that hangs up with its connection in the queue
leaves it there (`stray`): the daemon may accept it later, and it counts as a
poke. `net.Listen` is two steps, `bind` and `listen`, since a connect between
them is refused. `UnixListener.Close` unlinks the path and closes the socket; it
is one step, and does nothing the second time. The probe of `listen` and the
poke of `cmdPoke` share the handshake and differ in what an error means, as in
the code.

Time is `idle[d]`: the idle timeout has passed since the last poke. It may
become true whenever the watchdog waits for its tick and turns false when a
connection is accepted. Between the watchdog's load and its cancel anything may
happen.

Left out: a full backlog, a failed `MkdirAll` (the process fails before `Run`),
and the lines of the protocol, `PING` and `OK`, of which the model keeps whether
an answer came.

### FileLock

`excl` is the process the kernel thinks holds the lock, `lk[s]` what the
goroutine `s` thinks. `F_SETLK` succeeds when the process has the lock already,
and every close of a descriptor of the file gives the lock up. `Spec` lets the
sweeps of a process overlap, as `main.go:557` does with the startup sweep and
the first scheduled one (`NeverInParallel` then fails, and `contents_overlap` shows what
comes of it); in `SerialSpec` they take turns, as in `busybae gc` and
in a daemon whose startup sweep is over before the first tick.

### DiskSweep

A file is its mtime. `Rank` is the order of the paths, in which all of `ac/`
comes before all of `cas/`. The walk visits files in that order, each visit may
fail, and builds touch and write at any time. `cand[s]` is the set of candidates
with the mtimes they were listed with, taken in the order of `Precedes`. `gone`
and `errors` are the parts of `Stats` a property needs, and `used` is a history
variable. `--dry-run` is chosen for each process. Sizes are left out, because
whatever changes a size sets the mtime.

### ContentsSweep

An entry is its marker's mtime and the place of its directory: not there yet,
placed by a build that has not recorded it yet, live, in `_trash/`, or gone. A
build takes the lock shared and gives it back as it likes, and fetches (directory,
then marker) or hits (touches the marker) and links with the lock or without it:
`contents.go:186-188` says that a read of Bazel's does not always hold it. The part
of Bazel is external: it is taken from what `contents.go:25-56`, `70-72` and
`180-189` say Bazel does. One hash directory stands
for all, and its `ReadDir` may fail, which reads as empty. The early returns
after the lock (`ReadDir` of the root, `MkdirAll` of `_trash/`) are the case of
an empty listing and a drain that fails at once. The check for plausibility
(line 88) cannot fail after the lock file has been created, since that file is
itself one of the names it looks for.

`LockGivenBack` is about every way out of a sweep. It is not that the steps at the
lock are those of `FileLock`, which they are by their form, but that a sweep takes
each of them where it must. `KeptUnderLock` is what the lock is for; it fails when the
sweeps of one process overlap, which the other invariants survive (proved for `Spec`).

### TrashSweep

The two sweeps have the same frame: remove old trash, make a trash directory,
classify and rename unit by unit, remove the trash. `kind` says which of them a
root is for, and the actions that differ carry it as a guard: a key is looked at
in two calls (`KeyNames`, `KeyInfo`) and moved in two (`MkdirParent`, which makes
a trash directory that has been removed once more, and `Rename`); an output
base is judged by its workspace and then by its last activity. `RemoveAll`
removes the contents one by one (`Purge`) and then the directory, unless another
sweep has moved something there meanwhile (`Remove`, `RemoveFails`). The loops may
end early at any unit (`LoopEnds`), as the context is looked at before each. A
dry run does all of this except the trash directory of its own and the moves; it
removes old trash like any other, although its summary (`main.go:686`) says that
nothing was deleted. The checks for plausibility keep the sweeps off directories
that are something else, and the model starts from a real root.

### Bazelrc

A path is the sequence of its components, so that `%workspace%`, `~` and a relative
path are three first components and `filepath.Join` is concatenation. The files are
a function from paths to lines, and `LoadOne` a recursive function of the chain of
files being imported, which is also what the cycle check looks at. An outcome is a list of
entries or the kind of the error, because a `try-import` forgives one kind only,
however deep below it (`Bring`). `Load` loads every candidate before it knows which
ones the startup flags skip, as the code does, so a broken file fails the load even
when it is to be skipped. The second pass of the code reads the files again; here
both are one reading. `ExtractCacheDirs` keeps what is subtle about its errors: the
scan ends at a bad duration, the resolution at the first path that cannot be resolved,
and the directories come back as they are then.

Left out: tokens, quotes, comments and continuation lines, the form of a flag whose
value is the next token, extra files (`ExtraRCs`, which `main.go` never sets), and
the arithmetic of durations, of which a bad one remains (`Malformed`). `Readable` says
what is left of `Parse`: finitely many files, each unreadable or a list of lines with
lists of arguments. `Config` assumes it of its files (`FilesAssumption`).

`LoadsWhole` is the promise of the loader: whatever file contributes a line contributes
all of its lines, and what it imports is there.

### Config

`shell[s]` is a poke of the shell `s`; a shell runs the same command line again and
again, as a wrapper script does. `PokeDiscovers` reads the files and derives the
socket, `PokeAcked` or `PokeSpawns` follows, and the spawned process reads the
files of that moment (`DaemonReads`). It then looks at its path (`DaemonYields`,
`DaemonFindsStale`, `DaemonFindsNone`), removes what does not answer (`DaemonRemoves`)
and binds (`DaemonBinds`, `DaemonIsLate`), one call of `listen` after the other, with
anybody's steps in between. `Edit` moves the files on in their history (`Rcs`) at any time. The state of a path
is the subject of `Daemon`: here somebody listens behind it (`serving`) or nobody does. A
file with nobody behind it is not told from none, so a look at a path that is not
taken may have either outcome; and a daemon that loses its path is left out from then
on, since no dial gets to it. `listen(2)` and `chmod` are part of `DaemonBinds`. Processes
that agree in everything (shell, command line, step, what they have read) are one.
`asked`, `dialled`, `stale` and `cache` are there for the properties. A socket is
named by what its name is a hash of, so hashes do not collide. Not in the model: a
poke that fails with an error other than "nobody there", which spawns nothing and
may come back as any poke may; a spawn that fails (`DaemonFails` covers it); the
walk up from the working directory to a workspace (`Cwd` is its result).

Workspaces that share their directories share a daemon, which stays as it was started.
`ReachesOwnDirs` says what they can rely on: the caches among its targets are theirs.
They cannot rely on its sweeping output bases (`--sweep-output-base`), on its deleting
anything (`--dry-run`), or on its ages: these are those of whoever started it, and the
caches of a poker may stay unswept while such a daemon lives (hazards of `main.go:230`
and `524`).

### Wrapper

`at[b]` is the next command of a running script, and its slot is its process id,
which a later process may get again, with the parts that the dead one left under
`$bin.tmp.$$`. The first `mv` copies when it crosses file systems (`Copy`,
`Copied`); within one it is a rename, which is the case in which nobody looks in between.
The mode in the tarball may or may not be executable. A script that dies may have
left any part of the file with any mode, so the model takes the worst, torn and
executable. `mktemp`, `tar` and `mkdir -p` are part of the step after them. `Dies`
ends the script anywhere, by a signal or by `set -e`.

`Install` truncates the sibling, writes it and renames it, and a file is known by
the name it has now: a process that has the sibling open writes on where it
has been moved (`fd`). `--check` and `--dry-run` write nothing.

## Runs

| run | expectation | question |
|---|---|---|
| `daemon_orderly` | pass | one daemon at a time, when starts and stops do not overlap |
| `daemon_live` | pass | in every interleaving of two daemons, with signals, crashes and failed calls: `LifeOrder`, `NoSocketLeftBehind`, `SocketLease` is implemented; an idle daemon goes, a daemon out of reach goes, a daemon told to stop does |
| `two_serving` | violation | one daemon at a time, in general |
| `lock_serial` | pass | the lock keeps processes apart when the sweeps of each take turns |
| `disk_sweep` | pass | what is in use survives, what is old goes, the order of the deletions |
| `contents_sweep` | pass | a marker has its directory, the lock is given back on every way out, the trash is emptied; and, as the sweeps of each process take turns, no entry goes under a build's shared lock |
| `contents_overlap` | violation | no entry goes under a build's shared lock when the sweeps of a process overlap: the lock of a process is lost |
| `trash_sweep` | pass | what is in use survives, what is old goes, and all trash goes, although sweeps remove each other's |
| `contents_orphan` | violation | a directory that has lost its marker is collected |
| `config` | pass | the daemon a poke spawns is for the socket that was dialled and does what was asked; the caches that are a daemon's targets are those of whoever reaches it; a file is loaded whole; a swept directory is a declared one, or after a failed extraction what a line has for one; every shell that pokes gets served, while daemons look, remove and bind in between each other |
| `failed_discovery` | violation | a poke whose discovery fails goes by its workspace |
| `wrapper` | pass | `tools/bazel` and whatever runs at `$bin` are whole at any time, an installed binary is not disturbed, and it does get installed |

The violations are disagreements between a comment and the code, and each is
a finding in `PROJECT.json` with both lines. One of them is about a file that a build
needs: in `contents_overlap` the sweep at work has lost its lock to the close of another
sweep of its daemon, and takes an entry from under a build that holds the lock shared.
The disk cache's lock is lost the same way, but there two overlapping sweeps do what
one would (`disk_sweep` has both in one process). The others cost less: a second daemon is deaf
and idles out (`daemon_live` shows this), an orphaned directory costs space. After
`failed_discovery` two worktrees may share a daemon that neither has named; `PokedIsServed`
still holds.

Other disagreements that the models show and no run is spent on:

* The watchdog loads the time of the last poke, compares, and cancels without another
  look (`daemon.go:129-133`): a poke accepted in between is answered OK by a daemon
  that goes, though `daemon.go:6-7` says that each connection resets the timer.
* Candidates are sorted by mtime before path (`disk.go:119`), so a blob older than
  the `ac/` entry that refers to it goes first, and a sweep cut short there leaves the
  entry without it; `disk.go:25-26` says that entries go before blobs.
  `BlobFirstOnlyIfOlder` states what does hold.
* A file missing below a `try-import` is forgiven however deep it is, by
  `discover.go:212`; `discover.go:122-124` says that a missing nested import is an
  error. `WholeFiles` states what does hold.
* Two `install-wrapper` runs at once share the sibling they write to, so that
  `tools/bazel` may be empty for a while, or torn for good, although `wrapper.go:130`
  speaks of atomicity: `wrapper` with two elements in `Installers` shows it.
* A dry run removes old trash (`download.go:49`), and says that nothing was deleted.
* `forwardFlags` drops an option that is given at its default (`main.go:459`); an age so
  given was to overrule that of a `.bazelrc`, and in the spawned daemon no longer does,
  though `main.go:449-450` says that the daemon sees the same configuration. `AsAsked`
  states what does hold.
* A sweep of the contents cache looks at the age of a marker once. A build that holds no
  lock, as `contents.go:186-188` allows, and hits the marker after that (`Hit` between
  `Look` and `RemoveMarker`) has touched the marker and linked the directory, and the
  sweep evicts the entry all the same, since it does not look again before it removes
  (the disk sweep does). `contents.go:51-54` calls the worst case a cache miss.
* `gc.go:38-39` says that files older than now-`MaxAge` go; one of exactly `MaxAge` goes too
  (`disk.go:101` and its like in the other sweeps). `NothingOldLeft` counts it as old.

### Bounds

* Two daemons reach every conflict over the path: one comes, one goes, and a
  third process of the same slot may follow. Three daemons and two shells are
  affordable where `OrderlySpec` removes most interleavings. `daemon_live`
  has no shells, because a starting daemon's probe pokes as well as a shell does
  and a symmetric instance would be unsound there; it asks for one daemon, and
  all are alike. Its safety properties are proved with any set of shells.
* `lock_serial` has two sweeps in one process and one in each of two others, so
  that conflicts within a process and between processes both occur, and two
  readers.
* The disk cache has an entry and its blob, the smallest cache in which the order
  of deletions matters; ages run from fresh to one tick past `MaxAge`
  (`MaxNow = 2`, `MaxAge = 1`), so that every comparison with the cutoff occurs
  on both sides and on the boundary.
* The contents cache has two entries, which may be old, fresh or not there yet, one
  build, the two sweeps of a daemon, and a `busybae gc`, since a lock keeps processes apart.
  The violations need one entry.
* `trash_sweep` has two sweeps, the smallest number that can remove each other's
  trash, two trash directories, one for each (a third sweep's leftover is the case
  of a sweep that has crashed and come again), and one unit: the units of a
  sweep meet only in its trash. One of the sweeps may be a dry run. `Dirs` bounds
  the names in use at once; with none free a sweep gives up, as when `MkdirTemp`
  fails.
* `config` has two shells with different workspaces, one of them without a home
  directory, which is all that makes one reader of the files fail where the other
  does not, and three command lines: nothing given, an explicit socket with an age at
  its default, and the other's workspace. The files have a history of three versions, which
  starts at any of them: shared imports and a config, where the discovery of one shell fails;
  two contents caches beside one repository cache; and a bad duration, a file missing
  deep below and a file that imports itself. They change once (`MaxEdits`) while a poke or
  a spawned process is between its readings. Two processes are on their way at a time
  (`MaxSpawned`), enough for one to remove what another has bound, beside any number that
  serve.
* `wrapper` has two builds, whose slots are reused, of two versions, so that a first
  run meets a finished one, a dead one and one of another version, and one installer,
  which comes again and again.
* `MaxNow` is where the clock stops. The other unbounded things, process
  lifetimes, sweeps and pokes, come round as often as they like.

### Fairness

`Daemon!Fairness`: a process that can take its next step takes it; a call ends
by its deadline (`SetDeadline`, 500 ms or 5 s); time passes; a sweep comes to its
end, since all loops of the sweeps are over finite listings. The scheduler's
`select` chooses at random among its ready cases, so it does not choose the
ticker for ever when the context is done: strong fairness. Nobody has to poke,
signal or crash, and `accept` need not return an error while the listener is
open.

`ContentsSweep!FairSpec`: a sweep proceeds, finds the lock free again and again
(builds end), and faults (errors, cancellations, crashes in the middle) stop at
some time. The sweeps of a process take turns (`SerialSpec`). `contents_orphan` is violated
under this fairness, so the directory that stays is not the effect of a system
that stops.

`TrashSweep!FairSpec`: a sweep proceeds and the next one comes, and steps that
leave trash to nobody do not come for ever: a death with trash of its own or with
old trash listed, or a `RemoveAll` that fails on a directory no live sweep owns.
Harmless deaths, and failures on a directory that its sweep is filling, may go on
for ever. `Fault` is worded by what it leaves, because a return and a death after the
last removal are the same step, and so are a removal and a failure on a directory
that has gone; forbidding them by name would forbid progress.

`Config!Fairness`: each shell pokes again and again, each poke comes back (the dial
and the answer have a deadline), and if the processes a shell spawns from the present files keep coming,
one of them is not killed before it arrives: it finds a daemon there, or binds, or finds
that another has bound. Nothing is assumed of what others do to the path before and
after that. It is written with the state it is about, because `ENABLED` would have
TLC work out the directories again at every step.

`Wrapper!Fairness`: a script that can run its next command does, but for the download,
which has no deadline. `Installed` therefore assumes that verified tarballs keep coming
and that scripts do not go on dying half way for ever.

## Proofs

All of these hold for any sets of processes, sweeps, files and entries, under the
named assumptions of the modules: sets of processes that are disjoint where they
must be, model values that are none of the others, `MaxAge` positive.

* **`DaemonProofs`.** The inductive invariant is `TypeOK /\ LifeOrder`. `LifeOrder`
  says for each place in `listen` and `Run` what has become of the socket, of
  `runCtx` and of the goroutines. `NoSocketLeftBehind` is
  not inductive alone: that a daemon in `wait` leaves no socket needs to know
  that it has closed it before. From the invariant follow `TypeOK`, that
  property, and the refinement `Spec => LeaseSpec`: every step of a daemon
  is a step of `SocketLease` or a stutter; `PhaseMoves`, `PhasesStay`,
  `ClaimMoves` and `ClaimsStay` turn a step of one process into the step of the
  mapped functions.
* `StaysOrderly` proves `Orderly` for `OrderlySpec`, and `OneServesIfOrderly`
  `AtMostOneServing` from it. To the invariant `Orderly` adds who owns the path: the daemon that serves does, a start that is
  past its probe has made sure nobody does, and a probe of a serving
  daemon is never reset.
* **`FileLockProofs`.** `LockNotKept` needs the types alone and holds for overlapping
  sweeps. `HeldIfSerial` proves `HeldThroughout` for `SerialSpec`: what a goroutine
  thinks it holds, its process holds. It is inductive with the types, and
  `NoParallelIfSerial` (`NeverInParallel`) follows from it.
* **`DiskProofs`.** `UsedFilesSurvive`, `OldFilesGo` and `EntriesBeforeBlobs` need no lock
  and no order among the sweeps: they hold for `Spec`, with any number of overlapping
  sweeps and builds that touch any file at any time. What is inductive is `Inv`.
  `SweepOrder`, one part of it, says what a sweep has in hand where it is, and that
  what was used during a sweep is younger than the cutoff: a use sets the time of the clock,
  which is `MaxAge` past the cutoff at the least. So a second look that finds a
  candidate with the mtime it was listed with finds it unused (`UsedStep`), which needs
  `OneIsNext`: the order of the candidates is total. `OldToCome`, the other part, is
  `NothingOldLeft` on the way: what is old has not been visited, or waits as it is by
  now. A file rewritten while it waits is young then, so dropping it is right.
  `EntriesBeforeBlobs` rests on what is gone having been next (`Precedes`) at its time.
  `OneSweepsIfSerial` is about the lock: where a
  sweep is in the code is where it is in the use of the lock (`UnderLock`), and with
  `HeldThroughout` two sweeps of whatever processes are never at the cache at once.
* **`ContentsProofs`.** `MarkersHaveContents` rests on `EvictionOrder`,
  which says where an eviction is and what is in the trash; it does not mention
  the lock, and holds whether sweeps overlap or not. So does `LockIsGivenBack`: with
  `UnderLock`, which says that a sweep is at the cache just when it thinks that it has
  the lock, and `NotKept` of `FileLock`, a process with the lock has a sweep at the
  cache. `KeptIfSerial` takes `SerialSpec`: by `HeldThroughout` a sweep at the cache has
  the lock for its process, so nobody has it shared, and nobody else removes a marker or
  moves a directory. Of builds it assumes nothing, and of those that hold no
  lock it says nothing.
* **`TrashProofs`.** The same two properties of sweeps that take no lock and remove each
  other's trash, from a `SweepOrder` and an `OldToCome` of their own. `UsedUnitsSurvive`
  needs three things of `SweepOrder`: a sweep has one unit in hand, which it has not
  still to come to, so a use of it is after the decision; what was used is young;
  and what was used is not lost, since a workspace that goes undoes the use.
  `OldUnitsGo` needs of the other sweeps only that they take units away
  (`UnitEffect`): what becomes of anybody's trash directory is no concern of it,
  because a rename that fails counts as a failure.
* **`BazelrcProofs`.** `LastLineDeclares` says for any list of entries that a directory which
  is extracted without an error is the value of the last line in force, resolved against
  the file of that very line, or the contents cache derived from the repository
  cache. It rests on `MaxIsLast`, that a set of positions has a last one, from the
  well-foundedness of `<`. What discovery promises whatever it has read is `Complete`.
  `LoadingIsWhole` proves `LoadsWhole` for any `Readable` files, those included that
  import themselves, one another, or one file twice. The definitions are recursive, and the
  library's induction theorems cannot be instantiated, so the inductions are about sets:
  a set of numbers that has no least element is empty (`AllNumbers`), and a set that has
  the empty sequence and is closed under `Append` has every sequence (`AllSequences`).
  `LoadOneUnfolds` is the first of them: the recursion of `LoadOne` ends, because a chain that
  does not come to a file again leaves fewer files to come to (`FilesLeft`). `LinesFold`
  and `AmongFold` do the same for the folds, `FlattenKeeps` for `FlattenSeq`. The
  invariant of the recursion is `GoodOutcome`: what a chain of imports comes to has
  each of its files whole, a number of times over, with their imports there, and none of the
  files that are importing. That of the fold over the lines of one file is `SoFar`: this file
  has said what its lines up to here say, every other file is whole. It is kept by a line that is the file's own (`OwnLine`)
  and by an import (`ImportLine`); that an import never brings in the file under way
  again is the cycle check. `LoadWhole` carries it through the candidates and the skip flags.
  `DiscoveredIsDeclared` puts both halves together, and what a failed extraction returns
  with its error: each directory is still the value of a line in force, resolved or not
  (`FailedLineDeclares`).
* **`WrapperProofs`.** `InstallOrder` says what a script has done where it is: past the
  checksum it has its version's tarball, past the copy a whole part, past `chmod` one
  that can be run. A part is written by one script only (`PartStays`), so `bin` changes
  to the whole binary or not at all (`BinChanges`), which gives `BinWhole` and
  `BinStays`. `ScriptWhole` proves `OutWhole` under the assumption that there is at
  most one installer, from `InTurn`: the open file is the sibling and has been truncated.
* **`ConfigProofs`.** `forwardFlags` keeps the value of every option (`ValuesKept`), so
  the spawned daemon has the workspace, the discovery and the socket of its poke, and
  its settings but for the ages (`SettingsKept`). `DaemonsMeetTheirPokes` needs besides
  that what a poke dials, and what it has spawned, is `UpToDate` until an edit marks it.
  For these nothing is assumed of the files, the command lines or what discovery computes.
  That a process goes from one call of `listen` to the next, and that one which listens
  may lose its path at any time, changes none of this (`StepsMove`).
  `DaemonsReachOwnDirs` proves `ReachesOwnDirs`: a daemon is for the socket that its own
  discovery comes to, with the caches it has found as targets (`Known`, `TargetsAre`), and a
  key that is not a workspace has every directory
  in it (`KeyTells`), the download cache being derived from one of them, by `Complete`.
  `FilesStayWhole` and `DirsAreDeclared` prove `WholeFiles` and `DeclaredDirs` from the theorems of
  `BazelrcProofs`, whatever the versions of the files, under `FilesAssumption`.
  `PokesGetServed` proves a liveness property, `PokedIsServed`. `Config!Fairness` is written
  without `ENABLED`, so the temporal step is propositional, and the rest are facts about
  one step: without an edit a poke that has read the files is for the socket they come to, and
  ends only with a daemon there or one on its way (`SettledStep`); one that is on its way
  and arrives serves that socket or finds it taken (`ArrivedServes`). That the files are
  at last left alone is a hypothesis, `<>[][edits' = edits]_vars`. It holds in every
  behaviour, since there are at most `MaxEdits` edits, but that is an induction over temporal
  formulas, out of the prover's reach.

The invariants that the runs do not name (`SweepOrder`, `OldToCome`, `EvictionOrder`, `UnderLock`
and `OneSweepsAtATime` of the sweeps) were checked by TLC on the instances of the runs, the invariants of
the lock with `SerialSpec` and two processes, before they were proved.

Only model-checked: the liveness properties that rest on `WF_` and `SF_` (TLAPS does not
reason about `ENABLED`), that is `OneIdlesOut`, `OneUnreachableRetires`, `OneShutsDown`,
`TrashDrained`, `TrashGoes` and `Installed`; and every violation.

## Not modelled, and the plan

Every safety property that a run checks as a pass is proved. What is left, in this order:

1. `SocketLease`: what its promises mean for the directory entry, as theorems about the
   abstract specification, so that they carry over to `Daemon` by `LeaseSpec`.
2. The steps of `TrashGoes` and `TrashDrained` that are safety: whose trash a sweep that
   is under way has still to remove.

Left out for good: printing, logging, usage and `dirs`, which change nothing; tokens
and quotes of a `.bazelrc`, a matter of characters; `version`, strings set at link time; the stubs for systems
without fcntl; sizes and byte counts.
