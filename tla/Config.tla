------------------------------- MODULE Config -------------------------------
(***************************************************************************)
(* From a command line and the .bazelrc files to a daemon (main.go): which *)
(* socket `busybae poke` dials, what it hands to the daemon it spawns, and *)
(* what that daemon, which reads the files for itself, serves and sweeps.  *)
(*                                                                         *)
(* A command line is the function from the options given to their values.  *)
(* How a daemon lives and ends is the subject of Daemon.  Here a path has  *)
(* somebody behind it who listens, or it has not, and a daemon looks at    *)
(* its path, removes what it takes for stale, and binds, in separate       *)
(* steps.  Processes that agree in everything are one.  A socket is named  *)
(* by what its path is derived from, so the four bytes of hash in          *)
(* daemonKey never collide.                                                *)
(***************************************************************************)
EXTENDS Bazelrc, FiniteSets

CONSTANTS
    Shells,        \* the shells that run `busybae poke`, again and again
    Cwd,           \* Cwd[s]: the workspace above the directory s is in
    Home,          \* Home[s]: the home directory, NoPath if s does not know it
    CommandLines,  \* the command lines they may run it with
    Rcs,           \* Rcs[v]: the .bazelrc files there are; a history of them
    MaxEdits,      \* how often the files are changed, at most
    MaxSpawned     \* how many spawned processes are on their way, at most

ASSUME ConfigAssumption == MaxEdits \in Nat /\ MaxSpawned \in Nat \ {0}

ASSUME FilesAssumption ==
    /\ \A v \in DOMAIN Rcs : Readable(Rcs[v])
    /\ \A s \in Shells : Cwd[s] \in Seq(STRING) /\ Home[s] \in Seq(STRING)
    /\ \A given \in CommandLines :
          "workspace" \in DOMAIN given => given["workspace"] \in Seq(STRING)

VARIABLES
    version,   \* where in their history the .bazelrc files are
    edits,     \* how often they have been changed
    shell,     \* shell[s]: the poke s runs, and what it has worked out
    spawned,   \* the daemon processes that have not read the files yet
    starting,  \* those that have, each with the step it is about to take
    serving    \* the daemons behind their paths: a dial gets to them

vars == <<version, edits, shell, spawned, starting, serving>>

(***************************************************************************)
(* The options, and the configuration they come to.                        *)
(***************************************************************************)
Options == {"socket", "workspace", "log", "verbose", "dry-run", "include-hardlinked",
            "idle-timeout", "gc-interval", "sweep-output-base", "max-age",
            "max-age-repository-cache", "max-age-disk-cache",
            "max-age-repo-contents-cache", "max-age-output-base"}

Default == [o \in Options |->
    CASE o \in {"socket", "workspace", "log"} -> NoPath
      [] o \in {"verbose", "dry-run", "include-hardlinked", "sweep-output-base"} -> FALSE
      [] o = "idle-timeout" -> 30
      [] o = "gc-interval" -> 60
      [] o = "max-age" -> 7 * 24
      [] o = "max-age-output-base" -> 30 * 24
      [] OTHER -> 0]

Value(given, o) == IF o \in DOMAIN given THEN given[o] ELSE Default[o]

\* The flag set tells an option that is given from one that is not, even
\* where the value is the same.
applyBazelrcTTL(given, age) ==
    [o \in Options |->
        IF age > 0 /\ o \in {"max-age", "max-age-output-base"} \ DOMAIN given
        THEN age ELSE Value(given, o)]

maxAgeFor(g, specific) == IF g[specific] > 0 THEN g[specific] ELSE g["max-age"]

sweepTargets(g, cache) ==
    {t \in {[kind |-> "download_cache", path |-> cache.download,
             age |-> maxAgeFor(g, "max-age-repository-cache")],
            [kind |-> "disk_cache", path |-> cache.dir["disk_cache"],
             age |-> maxAgeFor(g, "max-age-disk-cache")],
            [kind |-> "repo_contents_cache", path |-> cache.dir["repo_contents_cache"],
             age |-> maxAgeFor(g, "max-age-repo-contents-cache")]} : t.path # NoPath}

runSweeps(g, cache) ==
    sweepTargets(g, cache)
    \union IF g["sweep-output-base"] /\ cache.dir["output_user_root"] # NoPath
           THEN {[kind |-> "output_base", path |-> cache.dir["output_user_root"],
                  age |-> g["max-age-output-base"]]}
           ELSE {}

resolveWorkspace(given, cwd) ==
    IF Value(given, "workspace") # NoPath THEN given["workspace"] ELSE cwd

\* Mutant: a key that leaves the contents cache out.
KeyWithoutContents(cache, workspace) ==
    IF \A name \in ToSet(DirFlags) : cache.dir[name] = NoPath
    THEN <<workspace>>
    ELSE [i \in {1, 2} |-> cache.dir[DirFlags[i]]]

daemonKey(cache, workspace) ==
    IF \A name \in ToSet(DirFlags) : cache.dir[name] = NoPath
    THEN <<workspace>>
    ELSE [i \in DOMAIN DirFlags |-> cache.dir[DirFlags[i]]]

NoSocket == <<>>

\* Mutant: no path unless one is given.
ExplicitSocket(explicit, key) ==
    IF explicit # NoPath THEN <<"explicit", explicit>> ELSE NoSocket

resolveSocket(explicit, key) ==
    IF explicit # NoPath THEN <<"explicit", explicit>> ELSE <<"keyed", key>>

\* What a daemon, or a one-shot sweep, makes of its command line.
Settings(given, cache) ==
    LET g == applyBazelrcTTL(given, cache.age)
    IN  [targets |-> runSweeps(g, cache), dryRun |-> g["dry-run"],
         hardlinked |-> g["include-hardlinked"], idle |-> g["idle-timeout"],
         interval |-> g["gc-interval"]]

Workspaces == {resolveWorkspace(x[1], Cwd[x[2]]) : x \in CommandLines \X Shells}
Homes == {Home[s] : s \in Shells}

\* Everything there is to find, so that it is worked out once.
Found == [v \in DOMAIN Rcs |-> [workspace \in Workspaces |-> [home \in Homes |->
             discoverDirs(Rcs[v], workspace, home)]]]

\* A spawned process has the directory and the environment of its shell.
Discover(given, s) == Found[version][resolveWorkspace(given, Cwd[s])][Home[s]]

Socket(given, s, cache) ==
    resolveSocket(Value(given, "socket"), daemonKey(cache, resolveWorkspace(given, Cwd[s])))

\* Mutants: an option that is forgotten.
WithoutDryRun(given) ==
    [o \in {p \in DOMAIN given \ {"dry-run"} : given[p] # Default[p]} |-> given[o]]
WithoutSocket(given) ==
    [o \in {p \in DOMAIN given \ {"socket"} : given[p] # Default[p]} |-> given[o]]
WithoutWorkspace(given) ==
    [o \in {p \in DOMAIN given \ {"workspace"} : given[p] # Default[p]} |-> given[o]]

\* The options that are not at their default.
forwardFlags(given) ==
    [o \in {p \in DOMAIN given : given[p] # Default[p]} |-> given[o]]

(***************************************************************************)
(* The processes.  stale says that the files have changed since the poke   *)
(* read them, and before the daemon serves; asked, dialled and cache are   *)
(* kept for the properties only.                                           *)
(***************************************************************************)
Init ==
    /\ version \in DOMAIN Rcs
    /\ edits = 0
    /\ shell \in [Shells -> [given : CommandLines, sock : {NoSocket},
                             failed : {FALSE}, stale : {FALSE}]]
    /\ spawned = {}
    /\ starting = {}
    /\ serving = {}

Taken(sock) == \E d \in serving : d.sock = sock

\* cmdPoke reads the files, and takes whatever discovery returns.
PokeDiscovers(s) ==
    /\ shell[s].sock = NoSocket
    /\ LET given == shell[s].given
           cache == Discover(given, s)
       IN  shell' = [shell EXCEPT ![s] = [given |-> given, sock |-> Socket(given, s, cache),
                                          failed |-> cache.err, stale |-> FALSE]]
    /\ UNCHANGED <<version, edits, spawned, starting, serving>>

PokeReturns(s) ==
    shell' = [shell EXCEPT ![s].sock = NoSocket, ![s].failed = FALSE, ![s].stale = FALSE]

\* A daemon is there.  It answers or, within 500 ms, it does not; either way
\* none is spawned, and it is left as it is whatever it was started with.
PokeAcked(s) ==
    /\ shell[s].sock # NoSocket /\ Taken(shell[s].sock)
    /\ PokeReturns(s)
    /\ UNCHANGED <<version, edits, spawned, starting, serving>>

\* The dial fails: a socket file without a listener is like no file.
PokeSpawns(s) ==
    /\ shell[s].sock # NoSocket /\ ~Taken(shell[s].sock)
    /\ Cardinality(spawned) + Cardinality(starting) < MaxSpawned
    /\ spawned' = spawned \union
           {[by |-> s, flags |-> forwardFlags(shell[s].given),
             asked |-> shell[s].given, dialled |-> shell[s].sock, stale |-> shell[s].stale]}
    /\ PokeReturns(s)
    /\ UNCHANGED <<version, edits, starting, serving>>

\* cmdDaemon reads the files again, works out what it serves and sweeps, and
\* lets go of its startup sweep before it has looked at the socket.
DaemonReads(p) ==
    /\ p \in spawned
    /\ spawned' = spawned \ {p}
    /\ LET cache == Discover(p.flags, p.by)
       IN  starting' = starting \union
               {<<"look", [sock |-> Socket(p.flags, p.by, cache), by |-> p.by,
                           conf |-> Settings(p.flags, cache), asked |-> p.asked,
                           dialled |-> p.dialled, stale |-> p.stale, cache |-> cache]>>}
    /\ UNCHANGED <<version, edits, shell, serving>>

\* Those that have read the files, whichever step they are about to take.
Launching == {x[2] : x \in starting}

\* Another daemon answers the probe.
DaemonYields(d) ==
    /\ <<"look", d>> \in starting /\ Taken(d.sock)
    /\ starting' = starting \ {<<"look", d>>}
    /\ UNCHANGED <<version, edits, shell, spawned, serving>>

\* A socket file is there and nobody answers: its daemon is dead, or slow.
DaemonFindsStale(d) ==
    /\ <<"look", d>> \in starting
    /\ starting' = (starting \ {<<"look", d>>}) \union {<<"clear", d>>}
    /\ UNCHANGED <<version, edits, shell, spawned, serving>>

\* The file it removes may by now be that of a daemon that serves, which no
\* dial gets to from then on.
DaemonRemoves(d) ==
    /\ <<"clear", d>> \in starting
    /\ starting' = (starting \ {<<"clear", d>>}) \union {<<"bind", d>>}
    /\ serving' = {e \in serving : e.sock # d.sock}
    /\ UNCHANGED <<version, edits, shell, spawned>>

DaemonFindsNone(d) ==
    /\ <<"look", d>> \in starting /\ ~Taken(d.sock)
    /\ starting' = (starting \ {<<"look", d>>}) \union {<<"bind", d>>}
    /\ UNCHANGED <<version, edits, shell, spawned, serving>>

DaemonBinds(d) ==
    /\ <<"bind", d>> \in starting /\ ~Taken(d.sock)
    /\ starting' = starting \ {<<"bind", d>>}
    /\ serving' = serving \union {d}
    /\ UNCHANGED <<version, edits, shell, spawned>>

\* Another daemon has bound the path since: EADDRINUSE.
DaemonIsLate(d) ==
    /\ <<"bind", d>> \in starting /\ Taken(d.sock)
    /\ starting' = starting \ {<<"bind", d>>}
    /\ UNCHANGED <<version, edits, shell, spawned, serving>>

\* A process fails, or is killed, before it serves.
DaemonFails ==
    /\ \/ \E p \in spawned : spawned' = spawned \ {p} /\ UNCHANGED starting
       \/ \E x \in starting : starting' = starting \ {x} /\ UNCHANGED spawned
    /\ UNCHANGED <<version, edits, shell, serving>>

\* It is idle for long enough, is signalled, or is killed; or another daemon,
\* which has lost the path to it, ends and removes the file once more.
DaemonEnds(d) ==
    /\ d \in serving
    /\ serving' = serving \ {d}
    /\ UNCHANGED <<version, edits, shell, spawned, starting>>

Edit ==
    /\ edits < MaxEdits
    /\ edits' = edits + 1
    /\ version' \in DOMAIN Rcs \intersect {version + 1}
    /\ shell' = [s \in Shells |-> [shell[s] EXCEPT !.stale = (shell[s].sock # NoSocket)]]
    /\ spawned' = {[p EXCEPT !.stale = TRUE] : p \in spawned}
    /\ starting' = {<<x[1], [x[2] EXCEPT !.stale = TRUE]>> : x \in starting}
    /\ UNCHANGED serving

Next ==
    \/ \E s \in Shells : PokeDiscovers(s) \/ PokeAcked(s) \/ PokeSpawns(s)
    \/ \E p \in spawned : DaemonReads(p)
    \/ \E d \in Launching : \/ DaemonYields(d) \/ DaemonFindsStale(d) \/ DaemonFindsNone(d)
                           \/ DaemonRemoves(d) \/ DaemonBinds(d) \/ DaemonIsLate(d)
    \/ DaemonFails
    \/ \E d \in serving : DaemonEnds(d)
    \/ Edit

Spec == Init /\ [][Next]_vars

\* What s has spawned since the last change of the files and does not serve
\* yet, and its arrival: it finds a daemon there, or becomes the one, whatever
\* it had to remove first.
Fresh(s) == {d \in Launching : d.by = s /\ ~d.stale}
OnTheWay(s) == Fresh(s) # {} \/ \E p \in spawned : p.by = s /\ ~p.stale
Arrives(s) == \E d \in Fresh(s) : DaemonYields(d) \/ DaemonBinds(d) \/ DaemonIsLate(d)

\* Each shell pokes again and again, each poke comes back (the dial has a
\* timeout), and if there are processes on their way again and again, one of
\* them is not killed before it arrives.  This is weak fairness of the steps
\* of a poke, and fairness of the steps of a daemon up to its arrival, in one
\* and without ENABLED.
Fairness ==
    \A s \in Shells :
        /\ []<>(shell[s].sock # NoSocket) /\ []<>(shell[s].sock = NoSocket)
        /\ <>[]~OnTheWay(s) \/ []<><<Arrives(s)>>_vars

FairSpec == Spec /\ Fairness

(***************************************************************************)
(* Properties.                                                             *)
(***************************************************************************)
\* Whoever sweeps: the startup sweep runs while its daemon looks and binds.
Daemons == Launching \union serving

TypeOK ==
    /\ version \in DOMAIN Rcs
    /\ edits \in 0..MaxEdits
    /\ \A s \in Shells : /\ shell[s].given \in CommandLines
                         /\ shell[s].failed \in BOOLEAN /\ shell[s].stale \in BOOLEAN
                         /\ shell[s].failed \/ shell[s].stale => shell[s].sock # NoSocket
    /\ \A p \in spawned : p.by \in Shells /\ p.asked \in CommandLines
    /\ \A x \in starting : x[1] \in {"look", "clear", "bind"}
    /\ \A d \in Daemons : d.by \in Shells /\ d.asked \in CommandLines /\ d.sock # NoSocket

\* What forwarding loses: an option given, at its default, that the flag set
\* then takes for one that is not given.
Shadowed(given, cache) ==
    cache.age > 0 /\ \E o \in {"max-age", "max-age-output-base"} \intersect DOMAIN given :
                         given[o] = Default[o]

Paths(targets) == {<<t.kind, t.path>> : t \in targets}
Ageless(conf) == [conf EXCEPT !.targets = Paths(conf.targets)]

\* A daemon spawned by a poke sweeps and idles as the command line of that
\* poke would have it, word for word the one-shot sweep of the same command
\* line, but for one loss of forwardFlags (main.go:459): an age given at its
\* default gives way to that of a .bazelrc.
AsAsked ==
    \A d \in Daemons :
        LET due == Settings(d.asked, d.cache)
        IN  /\ ~Shadowed(d.asked, d.cache) => d.conf = due
            /\ Ageless(d.conf) = Ageless(due)

\* The daemon a poke spawns is for the socket that poke has dialled, though
\* it works it out again by itself, unless the files have changed meanwhile
\* (cmdPoke, main.go:399, and cmdDaemon, main.go:543).
MeetsItsPoke == \A d \in Daemons : d.stale \/ d.sock = d.dialled

\* Whoever pokes a daemon by its directories pokes one that has the caches in
\* just these directories as its targets, and none else, whichever workspace
\* and command line it was started for (daemonKey, main.go:230): provided that
\* both could read their files.  Whether it sweeps the output bases as well, if
\* so under the poker's own output_user_root, whether it only reports, and the
\* ages are as whoever started it had them.
ReachesOwnDirs ==
    \A s \in Shells, d \in Daemons :
        LET given == shell[s].given
            cache == Discover(given, s)
            own == Paths(sweepTargets(applyBazelrcTTL(given, cache.age), cache))
            base == <<"output_base", cache.dir["output_user_root"]>>
        IN  /\ ~cache.err /\ ~d.cache.err
            /\ d.sock = <<"keyed", daemonKey(cache, resolveWorkspace(given, Cwd[s]))>>
            => Paths(d.conf.targets) \in {own, own \union {base}}

Loads == [v \in DOMAIN Rcs |-> [workspace \in Workspaces |-> [home \in Homes |->
             Load(Rcs[v], workspace, home)]]]

LoadOf(s) == Loads[version][resolveWorkspace(shell[s].given, Cwd[s])][Home[s]]

AllWhole == [v \in DOMAIN Rcs |-> [workspace \in Workspaces |-> [home \in Homes |->
                LoadsWhole(Rcs[v], workspace, home)]]]

\* A file that contributes a line contributes all of its lines, in their
\* order, and everything it imports: a file missing somewhere below a
\* try-import takes the whole of that import with it, never a part
\* (loadOne, discover.go:178).
WholeFiles ==
    \A s \in Shells :
        AllWhole[version][resolveWorkspace(shell[s].given, Cwd[s])][Home[s]]

\* A directory that is swept is one that a line of a file declares, taken
\* from the directory of that very file; or, after a failed extraction, with
\* which cmdDaemon goes on (main.go:520), as that line has it, unresolved
\* (ExtractCacheDirs, paths.go:64).
DeclaredDirs ==
    \A s \in Shells :
        LET workspace == resolveWorkspace(shell[s].given, Cwd[s])
            cache == Discover(shell[s].given, s)
            declaredIn(file, name) ==
                \E line \in ToSet(Rcs[version][file]) : \E arg \in ToSet(line.args) :
                    /\ arg.flag = name /\ arg.val \notin {NoValue, NoPath}
                    /\ \/ cache.dir[name] = Resolve(arg.val, Dir(file), workspace, Home[s])
                       \/ cache.err /\ cache.dir[name] = arg.val
        IN  \A name \in ToSet(DirFlags) :
                \/ cache.dir[name] = NoPath
                \/ \E e \in ToSet(LoadOf(s).entries) : declaredIn(e.source, name)
                \/ /\ ~cache.err /\ name = "repo_contents_cache"
                   /\ cache.dir[name] = Append(cache.dir["repository_cache"], "contents")

\* A poke whose discovery fails goes by the workspace (cmdPoke, main.go:397).
FailureGoesByWorkspace ==
    \A s \in Shells :
        shell[s].failed => shell[s].sock[1] = "explicit"
                        \/ shell[s].sock = <<"keyed", <<resolveWorkspace(shell[s].given, Cwd[s])>>>>

\* The socket that the present files come to.
Present(s) == Socket(shell[s].given, s, Discover(shell[s].given, s))

\* For every shell that goes on running builds a daemon serves its socket
\* time and again: the socket as its present files have it.
PokedIsServed ==
    \A s \in Shells :
        []<>Taken(Present(s))
=============================================================================
