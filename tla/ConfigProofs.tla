---------------------------- MODULE ConfigProofs ----------------------------
(***************************************************************************)
(* For any .bazelrc files, command lines and shells: what forwardFlags     *)
(* keeps, why the daemon a poke spawns meets that poke, whose directories  *)
(* a socket is for and what declares them, and that whoever pokes is       *)
(* served.  What discovery computes is the subject of BazelrcProofs.       *)
(***************************************************************************)
EXTENDS Config, BazelrcProofs, TLAPS

(***************************************************************************)
(* What forwardFlags keeps.                                                *)
(***************************************************************************)
\* Every option has the value it had.
LEMMA ValuesKept ==
    ASSUME NEW given, NEW o
    PROVE  Value(forwardFlags(given), o) = Value(given, o)
BY DEF Value, forwardFlags

\* So the workspace is the same,
LEMMA WorkspaceKept ==
    ASSUME NEW given, NEW cwd
    PROVE  resolveWorkspace(forwardFlags(given), cwd) = resolveWorkspace(given, cwd)
<1>1. Default["workspace"] = NoPath
  BY DEF Default, Options
<1>2. Value(forwardFlags(given), "workspace") = Value(given, "workspace")
  BY ValuesKept
<1>3. CASE Value(given, "workspace") # NoPath
  <2>1. "workspace" \in DOMAIN given /\ given["workspace"] # Default["workspace"]
    BY <1>1, <1>3 DEF Value
  <2>2. forwardFlags(given)["workspace"] = given["workspace"]
    BY <2>1 DEF forwardFlags
  <2> QED
    BY <1>2, <1>3, <2>2 DEF resolveWorkspace
<1>4. CASE Value(given, "workspace") = NoPath
  BY <1>2, <1>4 DEF resolveWorkspace
<1> QED
  BY <1>3, <1>4

\* what is discovered there,
LEMMA DiscoveryKept ==
    ASSUME NEW given, NEW s
    PROVE  Discover(forwardFlags(given), s) = Discover(given, s)
BY WorkspaceKept DEF Discover

\* and the socket that it comes to.
LEMMA SocketKept ==
    ASSUME NEW given, NEW s, NEW cache
    PROVE  Socket(forwardFlags(given), s, cache) = Socket(given, s, cache)
<1>1. Value(forwardFlags(given), "socket") = Value(given, "socket")
  BY ValuesKept
<1> QED
  BY <1>1, WorkspaceKept DEF Socket

\* A .bazelrc's age changes the two ages only.
LEMMA TTLKept ==
    ASSUME NEW given, NEW age, NEW o \in Options,
           \/ o \notin {"max-age", "max-age-output-base"}
           \/ ~(age > 0)
           \/ o \in DOMAIN given => given[o] # Default[o]
    PROVE  applyBazelrcTTL(forwardFlags(given), age)[o] = applyBazelrcTTL(given, age)[o]
<1>1. Value(forwardFlags(given), o) = Value(given, o)
  BY ValuesKept
<1>2. DOMAIN forwardFlags(given) = {p \in DOMAIN given : given[p] # Default[p]}
  BY DEF forwardFlags
<1> QED
  BY <1>1, <1>2 DEF applyBazelrcTTL

\* The targets but for their ages: the caches,
CachePaths(cache) ==
    {u \in {<<"download_cache", cache.download>>, <<"disk_cache", cache.dir["disk_cache"]>>,
            <<"repo_contents_cache", cache.dir["repo_contents_cache"]>>} : u[2] # NoPath}

\* and the output bases, which depend on one option only.
BasePaths(g, cache) ==
    IF g["sweep-output-base"] /\ cache.dir["output_user_root"] # NoPath
    THEN {<<"output_base", cache.dir["output_user_root"]>>} ELSE {}

\* The caches are targets whatever the options are.
LEMMA CachesAreTargets ==
    ASSUME NEW g, NEW cache
    PROVE  Paths(sweepTargets(g, cache)) = CachePaths(cache)
<1> DEFINE t1 == [kind |-> "download_cache", path |-> cache.download,
                  age |-> maxAgeFor(g, "max-age-repository-cache")]
           t2 == [kind |-> "disk_cache", path |-> cache.dir["disk_cache"],
                  age |-> maxAgeFor(g, "max-age-disk-cache")]
           t3 == [kind |-> "repo_contents_cache", path |-> cache.dir["repo_contents_cache"],
                  age |-> maxAgeFor(g, "max-age-repo-contents-cache")]
<1>1. /\ t1.kind = "download_cache" /\ t1.path = cache.download
      /\ t2.kind = "disk_cache" /\ t2.path = cache.dir["disk_cache"]
      /\ t3.kind = "repo_contents_cache" /\ t3.path = cache.dir["repo_contents_cache"]
  OBVIOUS
<1>2. sweepTargets(g, cache) = {t \in {t1, t2, t3} : t.path # NoPath}
  BY DEF sweepTargets
<1> HIDE DEF t1, t2, t3
<1>3. ASSUME NEW u \in Paths(sweepTargets(g, cache)) PROVE u \in CachePaths(cache)
  <2>1. PICK t \in {t1, t2, t3} : t.path # NoPath /\ u = <<t.kind, t.path>>
    BY <1>2 DEF Paths
  <2> QED
    BY <2>1, <1>1 DEF CachePaths
<1>4. ASSUME NEW u \in CachePaths(cache) PROVE u \in Paths(sweepTargets(g, cache))
  <2>1. PICK t \in {t1, t2, t3} : t.path # NoPath /\ u = <<t.kind, t.path>>
    BY <1>1 DEF CachePaths
  <2> QED
    BY <2>1, <1>2 DEF Paths
<1> QED
  BY <1>3, <1>4

\* All the targets.
LEMMA TargetsAre ==
    ASSUME NEW g, NEW cache
    PROVE  Paths(runSweeps(g, cache)) = CachePaths(cache) \union BasePaths(g, cache)
<1> DEFINE base == [kind |-> "output_base", path |-> cache.dir["output_user_root"],
                    age |-> g["max-age-output-base"]]
<1>1. base.kind = "output_base" /\ base.path = cache.dir["output_user_root"]
  OBVIOUS
<1>2. runSweeps(g, cache) = sweepTargets(g, cache) \union
          (IF g["sweep-output-base"] /\ cache.dir["output_user_root"] # NoPath
           THEN {base} ELSE {})
  BY DEF runSweeps
<1> HIDE DEF base
<1>3. Paths({base}) = {<<"output_base", cache.dir["output_user_root"]>>} /\ Paths({}) = {}
  BY <1>1 DEF Paths
<1>4. \A S, T : Paths(S \union T) = Paths(S) \union Paths(T)
  BY DEF Paths
<1>5. CASE g["sweep-output-base"] /\ cache.dir["output_user_root"] # NoPath
  BY <1>2, <1>3, <1>4, <1>5, CachesAreTargets DEF BasePaths
<1>6. CASE ~(g["sweep-output-base"] /\ cache.dir["output_user_root"] # NoPath)
  BY <1>2, <1>3, <1>4, <1>6, CachesAreTargets DEF BasePaths
<1> QED
  BY <1>5, <1>6

\* Settings that come from options that agree agree.
LEMMA SettingsKept ==
    ASSUME NEW given, NEW cache
    PROVE  /\ ~Shadowed(given, cache)
                  => Settings(forwardFlags(given), cache) = Settings(given, cache)
           /\ Ageless(Settings(forwardFlags(given), cache)) = Ageless(Settings(given, cache))
<1> DEFINE f == applyBazelrcTTL(forwardFlags(given), cache.age)
           g == applyBazelrcTTL(given, cache.age)
           Conf(h, targets) ==
               [targets |-> targets, dryRun |-> h["dry-run"],
                hardlinked |-> h["include-hardlinked"], idle |-> h["idle-timeout"],
                interval |-> h["gc-interval"]]
<1>1. ASSUME ~Shadowed(given, cache) PROVE f = g
  <2>1. ASSUME NEW o \in Options PROVE f[o] = g[o]
    BY <1>1, TTLKept DEF Shadowed
  <2>2. f = [o \in Options |-> f[o]] /\ g = [o \in Options |-> g[o]]
    BY DEF applyBazelrcTTL
  <2> HIDE DEF f, g
  <2> QED
    BY <2>1, <2>2
<1>2. /\ f["dry-run"] = g["dry-run"]
      /\ f["include-hardlinked"] = g["include-hardlinked"]
      /\ f["idle-timeout"] = g["idle-timeout"] /\ f["gc-interval"] = g["gc-interval"]
      /\ f["sweep-output-base"] = g["sweep-output-base"]
  BY TTLKept DEF Options
<1>3. /\ Settings(forwardFlags(given), cache) = Conf(f, runSweeps(f, cache))
      /\ Settings(given, cache) = Conf(g, runSweeps(g, cache))
  BY DEF Settings
<1> HIDE DEF f, g
<1>4. ASSUME NEW h, NEW targets
      PROVE  Ageless(Conf(h, targets)) = Conf(h, Paths(targets))
  BY DEF Ageless
<1>5. Paths(runSweeps(f, cache)) = Paths(runSweeps(g, cache))
  BY <1>2, TargetsAre DEF BasePaths
<1>6. \A targets : Conf(f, targets) = Conf(g, targets)
  BY <1>2
<1> HIDE DEF Conf
<1>7. Ageless(Settings(forwardFlags(given), cache)) = Ageless(Settings(given, cache))
  BY <1>3, <1>4, <1>5, <1>6
<1> QED
  BY <1>1, <1>3, <1>7

(***************************************************************************)
(* The processes.                                                          *)
(***************************************************************************)
\* A poke is a record of its four fields, a spawned process one of five, with
\* what its poke was run with, and a daemon one of seven.
Formed ==
    /\ shell = [s \in Shells |->
                   [given |-> shell[s].given, sock |-> shell[s].sock,
                    failed |-> shell[s].failed, stale |-> shell[s].stale]]
    /\ \A p \in spawned :
           /\ p = [by |-> p.by, flags |-> p.flags, asked |-> p.asked,
                   dialled |-> p.dialled, stale |-> p.stale]
           /\ p.by \in Shells /\ p.flags = forwardFlags(p.asked)
    /\ \A d \in Launching :
           /\ d = [sock |-> d.sock, by |-> d.by, conf |-> d.conf, asked |-> d.asked,
                   dialled |-> d.dialled, stale |-> d.stale, cache |-> d.cache]
           /\ d.by \in Shells

\* Unless the files have changed, a poke and what it has spawned are about the
\* socket that the present files come to.
UpToDate ==
    /\ \A s \in Shells :
           \/ shell[s].sock = NoSocket \/ shell[s].stale
           \/ shell[s].sock = Socket(shell[s].given, s, Discover(shell[s].given, s))
    /\ \A p \in spawned :
           p.stale \/ p.dialled = Socket(p.asked, p.by, Discover(p.asked, p.by))
    /\ \A d \in Launching :
           d.stale \/ d.sock = Socket(d.asked, d.by, Discover(d.asked, d.by))

Inv == Formed /\ UpToDate /\ AsAsked /\ MeetsItsPoke

\* In the beginning nothing has been read or spawned.
LEMMA InvInit == Init => Inv
<1> SUFFICES ASSUME Init PROVE Inv
  OBVIOUS
<1>1. shell \in [Shells -> [given : CommandLines, sock : {NoSocket},
                            failed : {FALSE}, stale : {FALSE}]]
  BY DEF Init
<1>2. spawned = {} /\ Launching = {} /\ Daemons = {}
  BY DEF Init, Launching, Daemons
<1>3. Formed
  BY <1>1, <1>2 DEF Formed
<1>4. UpToDate
  BY <1>1, <1>2 DEF UpToDate
<1>5. AsAsked /\ MeetsItsPoke
  BY <1>2 DEF AsAsked, MeetsItsPoke
<1> QED
  BY <1>3, <1>4, <1>5 DEF Inv

\* What the steps of a daemon that has read the files have in common, and its
\* end: processes go from step to step, and away, and nothing else changes.
Moves ==
    /\ UNCHANGED <<version, edits, shell>>
    /\ spawned' \subseteq spawned /\ Launching' \subseteq Launching
    /\ Daemons' \subseteq Daemons
    /\ \A x \in starting' : x \in starting \/ x[1] \in {"clear", "bind"}

\* Those steps do just that.
LEMMA StepsMove ==
    ASSUME \/ \E d \in Launching : \/ DaemonYields(d) \/ DaemonFindsStale(d) \/ DaemonFindsNone(d)
                                  \/ DaemonRemoves(d) \/ DaemonBinds(d) \/ DaemonIsLate(d)
           \/ DaemonFails
           \/ \E d \in serving : DaemonEnds(d)
    PROVE  Moves
<1>1. ASSUME NEW d \in Launching, NEW at, NEW to \in {"clear", "bind"},
             starting' = (starting \ {<<at, d>>}) \union {<<to, d>>},
             serving' \subseteq serving, UNCHANGED <<version, edits, shell, spawned>>
      PROVE  Moves
  <2>1. \A x \in starting' : x \in starting \/ x = <<to, d>>
    BY <1>1
  <2>2. <<to, d>>[1] = to /\ <<to, d>>[2] = d
    OBVIOUS
  <2>3. Launching' \subseteq Launching
    BY <2>1, <2>2 DEF Launching
  <2> QED
    BY <1>1, <2>1, <2>2, <2>3 DEF Moves, Daemons
<1>2. ASSUME starting' \subseteq starting, serving' \subseteq Daemons,
             UNCHANGED <<version, edits, shell>>, spawned' \subseteq spawned
      PROVE  Moves
  BY <1>2 DEF Moves, Daemons, Launching
<1>3. ASSUME NEW d \in Launching, DaemonFindsStale(d) \/ DaemonFindsNone(d) \/ DaemonRemoves(d)
      PROVE  Moves
  <2>1. CASE DaemonFindsStale(d)
    BY <1>1, <2>1 DEF DaemonFindsStale
  <2>2. CASE DaemonFindsNone(d)
    BY <1>1, <2>2 DEF DaemonFindsNone
  <2>3. CASE DaemonRemoves(d)
    BY <1>1, <2>3 DEF DaemonRemoves
  <2> QED
    BY <1>3, <2>1, <2>2, <2>3
<1>4. ASSUME NEW d \in Launching, DaemonYields(d) \/ DaemonBinds(d) \/ DaemonIsLate(d)
      PROVE  Moves
  BY <1>2, <1>4 DEF DaemonYields, DaemonBinds, DaemonIsLate, Daemons
<1>5. ASSUME DaemonFails PROVE Moves
  BY <1>2, <1>5 DEF DaemonFails, Daemons
<1>6. ASSUME NEW d \in serving, DaemonEnds(d) PROVE Moves
  BY <1>2, <1>6 DEF DaemonEnds, Daemons
<1> QED
  BY <1>3, <1>4, <1>5, <1>6

\* A step of a shell.
LEMMA PokeStep ==
    ASSUME Inv, NEW s \in Shells, PokeDiscovers(s) \/ PokeAcked(s) \/ PokeSpawns(s)
    PROVE  Inv'
<1>1. Launching' = Launching /\ Daemons' = Daemons /\ version' = version
  BY DEF PokeDiscovers, PokeAcked, PokeSpawns, Launching, Daemons
<1>2. AsAsked' /\ MeetsItsPoke'
  BY <1>1 DEF Inv, AsAsked, MeetsItsPoke
<1>3. ASSUME NEW given, NEW r PROVE Discover(given, r)' = Discover(given, r)
  BY <1>1 DEF Discover
<1>4. ASSUME NEW r \in Shells
      PROVE  shell[r] = [given |-> shell[r].given, sock |-> shell[r].sock,
                         failed |-> shell[r].failed, stale |-> shell[r].stale]
  BY DEF Inv, Formed
<1>5. CASE PokeDiscovers(s)
  <2> DEFINE c == Discover(shell[s].given, s)
         sock == Socket(shell[s].given, s, c)
         err == c.err
  <2>0. /\ shell[s].sock = NoSocket /\ spawned' = spawned
        /\ shell' = [shell EXCEPT ![s] = [given |-> shell[s].given, sock |-> sock,
                                          failed |-> err, stale |-> FALSE]]
    BY <1>5 DEF PokeDiscovers
  <2> HIDE DEF sock, err
  <2>2. Formed'
    BY <1>1, <2>0 DEF Inv, Formed
  <2>3. UpToDate'
    BY <1>1, <1>3, <2>0 DEF Inv, Formed, UpToDate, sock
  <2> QED
    BY <1>2, <2>2, <2>3 DEF Inv
<1>6. CASE PokeAcked(s) \/ PokeSpawns(s)
  <2>1. shell' = [shell EXCEPT ![s] =
              [given |-> shell[s].given, sock |-> NoSocket, failed |-> FALSE, stale |-> FALSE]]
    BY <1>4, <1>6 DEF PokeAcked, PokeSpawns, PokeReturns
  <2>2. spawned' = spawned \/
        /\ shell[s].sock # NoSocket
        /\ spawned' = spawned \union
              {[by |-> s, flags |-> forwardFlags(shell[s].given), asked |-> shell[s].given,
                dialled |-> shell[s].sock, stale |-> shell[s].stale]}
    BY <1>6 DEF PokeAcked, PokeSpawns
  <2>3. Formed'
    <3>1. shell' = [r \in Shells |->
                       [given |-> shell'[r].given, sock |-> shell'[r].sock,
                        failed |-> shell'[r].failed, stale |-> shell'[r].stale]]
      BY <2>1 DEF Inv, Formed
    <3>2. \A q \in spawned' :
              /\ q = [by |-> q.by, flags |-> q.flags, asked |-> q.asked,
                      dialled |-> q.dialled, stale |-> q.stale]
              /\ q.by \in Shells /\ q.flags = forwardFlags(q.asked)
      BY <2>2 DEF Inv, Formed
    <3> QED
      BY <1>1, <3>1, <3>2 DEF Inv, Formed
  <2>4. UpToDate'
    BY <1>1, <1>3, <2>1, <2>2 DEF Inv, Formed, UpToDate
  <2> QED
    BY <1>2, <2>3, <2>4 DEF Inv
<1> QED
  BY <1>5, <1>6

\* A daemon comes to the socket and the settings of its poke.
LEMMA ReadStep ==
    ASSUME Inv, NEW p \in spawned, DaemonReads(p)
    PROVE  Inv'
<1> DEFINE c == Discover(p.flags, p.by)
           sock == Socket(p.flags, p.by, c)
           conf == Settings(p.flags, c)
           d == [sock |-> sock, by |-> p.by, conf |-> conf, asked |-> p.asked,
                 dialled |-> p.dialled, stale |-> p.stale, cache |-> c]
<1>1. /\ starting' = starting \union {<<"look", d>>}
      /\ spawned' = spawned \ {p} /\ UNCHANGED <<version, shell, serving>>
  BY DEF DaemonReads
<1>2. p.flags = forwardFlags(p.asked) /\ p.by \in Shells
  BY DEF Inv, Formed
<1>3. c = Discover(p.asked, p.by) /\ sock = Socket(p.asked, p.by, c)
  BY <1>2, DiscoveryKept, SocketKept
<1>4. p.stale \/ sock = p.dialled
  BY <1>3 DEF Inv, UpToDate
<1>5. /\ ~Shadowed(p.asked, c) => conf = Settings(p.asked, c)
      /\ Ageless(conf) = Ageless(Settings(p.asked, c))
  BY <1>2, SettingsKept
<1>6. sock = Socket(p.asked, p.by, Discover(p.asked, p.by)) /\ c' = c
  BY <1>1, <1>3 DEF Discover
<1>7. ASSUME NEW given, NEW r PROVE Discover(given, r)' = Discover(given, r)
  BY <1>1 DEF Discover
<1> HIDE DEF c, sock, conf
<1>8. /\ d.sock = sock /\ d.by = p.by /\ d.conf = conf /\ d.asked = p.asked
      /\ d.dialled = p.dialled /\ d.stale = p.stale /\ d.cache = c
      /\ d = [sock |-> d.sock, by |-> d.by, conf |-> d.conf, asked |-> d.asked,
              dialled |-> d.dialled, stale |-> d.stale, cache |-> d.cache]
  OBVIOUS
<1> HIDE DEF d
<1>9. (\A e \in Launching' : e \in Launching \/ e = d) /\ (\A e \in Daemons' : e \in Daemons \/ e = d)
  BY <1>1 DEF Launching, Daemons
<1>10. Formed'
  BY <1>1, <1>2, <1>8, <1>9 DEF Inv, Formed
<1>11. UpToDate'
  BY <1>1, <1>6, <1>7, <1>8, <1>9 DEF Inv, UpToDate
<1>12. AsAsked'
  BY <1>5, <1>8, <1>9 DEF Inv, AsAsked
<1>13. MeetsItsPoke'
  BY <1>4, <1>8, <1>9 DEF Inv, MeetsItsPoke
<1> QED
  BY <1>10, <1>11, <1>12, <1>13 DEF Inv

\* What is on its way when the files change is marked, and otherwise as it was.
LEMMA EditMarks ==
    ASSUME Formed, Edit
    PROVE  /\ \A q \in spawned' :
                  /\ q = [by |-> q.by, flags |-> q.flags, asked |-> q.asked,
                          dialled |-> q.dialled, stale |-> q.stale]
                  /\ q.stale /\ q.by \in Shells /\ q.flags = forwardFlags(q.asked)
                  /\ \E p \in spawned : q.by = p.by /\ q.asked = p.asked
           /\ \A e \in Launching' :
                  /\ e = [sock |-> e.sock, by |-> e.by, conf |-> e.conf, asked |-> e.asked,
                          dialled |-> e.dialled, stale |-> e.stale, cache |-> e.cache]
                  /\ e.stale /\ e.by \in Shells
                  /\ \E d \in Launching : /\ e.sock = d.sock /\ e.by = d.by /\ e.conf = d.conf
                                          /\ e.asked = d.asked /\ e.cache = d.cache
<1>1. /\ spawned' = {[p EXCEPT !.stale = TRUE] : p \in spawned}
      /\ starting' = {<<x[1], [x[2] EXCEPT !.stale = TRUE]>> : x \in starting}
  BY DEF Edit
<1>2. ASSUME NEW q \in spawned'
      PROVE  /\ q = [by |-> q.by, flags |-> q.flags, asked |-> q.asked,
                     dialled |-> q.dialled, stale |-> q.stale]
             /\ q.stale /\ q.by \in Shells /\ q.flags = forwardFlags(q.asked)
             /\ \E p \in spawned : q.by = p.by /\ q.asked = p.asked
  <2>1. PICK p \in spawned : q = [p EXCEPT !.stale = TRUE]
    BY <1>1
  <2>2. /\ p = [by |-> p.by, flags |-> p.flags, asked |-> p.asked,
                dialled |-> p.dialled, stale |-> p.stale]
        /\ p.by \in Shells /\ p.flags = forwardFlags(p.asked)
    BY DEF Formed
  <2>3. q = [by |-> p.by, flags |-> p.flags, asked |-> p.asked,
             dialled |-> p.dialled, stale |-> TRUE]
    BY <2>1, <2>2
  <2> QED
    BY <2>2, <2>3
<1>3. ASSUME NEW e \in Launching'
      PROVE  /\ e = [sock |-> e.sock, by |-> e.by, conf |-> e.conf, asked |-> e.asked,
                     dialled |-> e.dialled, stale |-> e.stale, cache |-> e.cache]
             /\ e.stale /\ e.by \in Shells
             /\ \E d \in Launching : /\ e.sock = d.sock /\ e.by = d.by /\ e.conf = d.conf
                                     /\ e.asked = d.asked /\ e.cache = d.cache
  <2>1. PICK d \in Launching : e = [d EXCEPT !.stale = TRUE]
    BY <1>1 DEF Launching
  <2>2. /\ d = [sock |-> d.sock, by |-> d.by, conf |-> d.conf, asked |-> d.asked,
                dialled |-> d.dialled, stale |-> d.stale, cache |-> d.cache]
        /\ d.by \in Shells
    BY DEF Formed
  <2>3. e = [sock |-> d.sock, by |-> d.by, conf |-> d.conf, asked |-> d.asked,
             dialled |-> d.dialled, stale |-> TRUE, cache |-> d.cache]
    BY <2>1, <2>2
  <2> QED
    BY <2>2, <2>3
<1> QED
  BY <1>2, <1>3

\* Every step keeps the invariant.
LEMMA InvStep == Inv /\ [Next]_vars => Inv'
<1> SUFFICES ASSUME Inv, [Next]_vars PROVE Inv'
  OBVIOUS
<1>1. ASSUME Moves PROVE Inv'
  BY <1>1 DEF Moves, Inv, Formed, UpToDate, Discover, AsAsked, MeetsItsPoke
<1>2. CASE Edit
  <2>1. /\ serving' = serving
        /\ shell' = [s \in Shells |-> [shell[s] EXCEPT !.stale = (shell[s].sock # NoSocket)]]
    BY <1>2 DEF Edit
  <2>2. shell' = [s \in Shells |->
             [given |-> shell[s].given, sock |-> shell[s].sock, failed |-> shell[s].failed,
              stale |-> (shell[s].sock # NoSocket)]]
    BY <2>1 DEF Inv, Formed
  <2>3. \A s \in Shells :
            shell'[s].sock = NoSocket \/ shell'[s].stale
    BY <2>2
  <2>4. Formed' /\ UpToDate'
    BY <1>2, <2>2, <2>3, EditMarks DEF Inv, Formed, UpToDate
  <2>5. AsAsked'
    BY <1>2, <2>1, EditMarks DEF Inv, AsAsked, Daemons
  <2>6. MeetsItsPoke'
    BY <1>2, <2>1, EditMarks DEF Inv, MeetsItsPoke, Daemons
  <2> QED
    BY <2>4, <2>5, <2>6 DEF Inv
<1>3. CASE UNCHANGED vars
  <2>1. Moves
    BY <1>3 DEF vars, Moves, Launching, Daemons
  <2> QED
    BY <1>1, <2>1
<1> QED
  BY <1>1, <1>2, <1>3, PokeStep, ReadStep, StepsMove DEF Next

\* A daemon sweeps and idles as the command line of its poke would have it,
\* but for the ages that forwardFlags loses (main.go:451).
THEOREM DaemonsAsAsked == Spec => []AsAsked
  BY InvInit, InvStep, PTL DEF Spec, Inv

\* The daemon a poke spawns serves the socket which that poke has dialled,
\* unless the files have changed meanwhile (main.go:399, 542).
THEOREM DaemonsMeetTheirPokes == Spec => []MeetsItsPoke
  BY InvInit, InvStep, PTL DEF Spec, Inv

(***************************************************************************)
(* Whose directories a socket is for.                                      *)
(***************************************************************************)
\* A key that is not a workspace has every directory in it.
LEMMA KeyTells ==
    ASSUME NEW c, NEW e, Complete(c), Complete(e), ~c.err, ~e.err,
           NEW w, NEW x, daemonKey(c, w) = daemonKey(e, x)
    PROVE  c.dir = e.dir /\ c.download = e.download
<1> DEFINE None(f) == \A name \in ToSet(DirFlags) : f.dir[name] = NoPath
           All(f) == [i \in DOMAIN DirFlags |-> f.dir[DirFlags[i]]]
<1>1. DOMAIN DirFlags = {1, 2, 3, 4} /\ "repository_cache" \in ToSet(DirFlags)
  BY DEF DirFlags, ToSet
<1>2. ASSUME NEW f, NEW v PROVE daemonKey(f, v) = IF None(f) THEN <<v>> ELSE All(f)
  BY DEF daemonKey
<1>3. ASSUME NEW f, NEW v PROVE All(f) # <<v>>
  <2>1. DOMAIN All(f) = {1, 2, 3, 4} /\ DOMAIN <<v>> = {1}
    BY <1>1
  <2> QED
    BY <2>1
<1>4. \A name \in ToSet(DirFlags) : c.dir[name] = e.dir[name]
  <2>1. CASE None(c) /\ None(e)
    BY <2>1
  <2>2. CASE ~None(c) /\ ~None(e)
    <3>1. All(c) = All(e)
      BY <1>2, <2>2
    <3>2. \A i \in DOMAIN DirFlags : c.dir[DirFlags[i]] = e.dir[DirFlags[i]]
      BY <3>1
    <3> QED
      BY <3>2 DEF ToSet
  <2> QED
    BY <1>2, <1>3, <2>1, <2>2
<1>5. c.dir = e.dir
  BY <1>4 DEF Complete
<1> QED
  BY <1>5 DEF Complete

\* What a process of a shell discovers is what discovery makes of its files,
LEMMA DiscoverFinds ==
    ASSUME TypeOK, NEW given \in CommandLines, NEW s \in Shells
    PROVE  /\ version \in DOMAIN Rcs /\ Home[s] \in Homes
           /\ resolveWorkspace(given, Cwd[s]) \in Workspaces
           /\ Discover(given, s)
                  = discoverDirs(Rcs[version], resolveWorkspace(given, Cwd[s]), Home[s])
<1>1. resolveWorkspace(given, Cwd[s]) \in Workspaces
  <2>1. <<given, s>> \in CommandLines \X Shells
    OBVIOUS
  <2>2. resolveWorkspace(<<given, s>>[1], Cwd[<<given, s>>[2]]) \in Workspaces
    BY <2>1 DEF Workspaces
  <2> QED
    BY <2>2
<1>2. Home[s] \in Homes /\ version \in DOMAIN Rcs
  BY DEF Homes, TypeOK
<1>3. Discover(given, s) = discoverDirs(Rcs[version], resolveWorkspace(given, Cwd[s]), Home[s])
  BY <1>1, <1>2 DEF Discover, Found
<1> QED
  BY <1>1, <1>2, <1>3

\* so that is complete too.
LEMMA DiscoverCompletes ==
    ASSUME TypeOK, NEW given \in CommandLines, NEW s \in Shells
    PROVE  Complete(Discover(given, s))
BY DiscoverFinds, DiscoveryCompletes

\* Everyone has a socket.
LEMMA SocketIsOne ==
    ASSUME NEW given, NEW s, NEW cache PROVE Socket(given, s, cache) # NoSocket
BY DEF Socket, resolveSocket, NoSocket

\* A daemon is for the socket its own configuration comes to, and has the caches
\* it has found as targets, with or without the output bases.
Known ==
    \A d \in Daemons :
        /\ d.sock = Socket(d.asked, d.by, d.cache) /\ Complete(d.cache)
        /\ Paths(d.conf.targets) \in
               {CachePaths(d.cache),
                CachePaths(d.cache) \union {<<"output_base", d.cache.dir["output_user_root"]>>}}

OwnInv == Inv /\ TypeOK /\ Known

\* In the beginning nothing has been read or spawned.
LEMMA OwnInit == Init => OwnInv
<1> SUFFICES ASSUME Init PROVE OwnInv
  OBVIOUS
<1>1. shell \in [Shells -> [given : CommandLines, sock : {NoSocket},
                            failed : {FALSE}, stale : {FALSE}]]
  BY DEF Init
<1>2. ASSUME NEW s \in Shells
      PROVE  shell[s].given \in CommandLines /\ shell[s].failed = FALSE /\ shell[s].stale = FALSE
  BY <1>1
<1>3. Daemons = {}
  BY DEF Init, Launching, Daemons
<1>4. TypeOK
  <2>1. edits \in 0..MaxEdits
    BY ConfigAssumption DEF Init
  <2> QED
    BY <1>2, <1>3, <2>1 DEF Init, TypeOK
<1>5. Known
  BY <1>3 DEF Known
<1> QED
  BY <1>4, <1>5, InvInit DEF OwnInv

\* The poke of s changes its own record, and spawns at most one process.
LEMMA OwnPoke ==
    ASSUME OwnInv, NEW s \in Shells, PokeDiscovers(s) \/ PokeAcked(s) \/ PokeSpawns(s)
    PROVE  TypeOK' /\ Known'
<1>1. UNCHANGED <<starting, version, edits>> /\ Daemons' = Daemons
  BY DEF PokeDiscovers, PokeAcked, PokeSpawns, Launching, Daemons
<1>2. Known'
  BY <1>1 DEF OwnInv, Known
<1>3. ASSUME NEW r \in Shells
      PROVE  shell[r] = [given |-> shell[r].given, sock |-> shell[r].sock,
                         failed |-> shell[r].failed, stale |-> shell[r].stale]
  BY DEF OwnInv, Inv, Formed
<1>4. ASSUME NEW r \in Shells
      PROVE  /\ shell[r].given \in CommandLines
             /\ shell[r].failed \in BOOLEAN /\ shell[r].stale \in BOOLEAN
             /\ shell[r].failed \/ shell[r].stale => shell[r].sock # NoSocket
  BY DEF OwnInv, TypeOK
<1> DEFINE Good(x) == /\ x.given \in CommandLines
                      /\ x.failed \in BOOLEAN /\ x.stale \in BOOLEAN
                      /\ x.failed \/ x.stale => x.sock # NoSocket
<1>5. PICK x : shell' = [shell EXCEPT ![s] = x] /\ Good(x)
  <2>1. CASE PokeDiscovers(s)
    <3> DEFINE c == Discover(shell[s].given, s)
               sock == Socket(shell[s].given, s, c)
               err == c.err
               x == [given |-> shell[s].given, sock |-> sock, failed |-> err, stale |-> FALSE]
    <3>1. err \in BOOLEAN
      BY <1>4, DiscoverCompletes DEF OwnInv, Complete
    <3>2. sock # NoSocket
      BY SocketIsOne
    <3>3. shell' = [shell EXCEPT ![s] = x]
      BY <2>1 DEF PokeDiscovers
    <3> HIDE DEF err, sock
    <3>4. Good(x)
      BY <1>4, <3>1, <3>2
    <3> QED
      BY <3>3, <3>4
  <2>2. CASE PokeAcked(s) \/ PokeSpawns(s)
    <3> DEFINE x == [given |-> shell[s].given, sock |-> NoSocket,
                     failed |-> FALSE, stale |-> FALSE]
    <3>1. shell' = [shell EXCEPT ![s] = x]
      BY <1>3, <2>2 DEF PokeAcked, PokeSpawns, PokeReturns
    <3>2. Good(x)
      BY <1>4
    <3> QED
      BY <3>1, <3>2
  <2> QED
    BY <2>1, <2>2
<1>6. DOMAIN shell = Shells
  BY DEF OwnInv, Inv, Formed
<1>7. ASSUME NEW r \in Shells PROVE Good(shell'[r])
  BY <1>4, <1>5, <1>6
<1>8. \A p \in spawned' : p.by \in Shells /\ p.asked \in CommandLines
  <2>1. \A p \in spawned : p.by \in Shells /\ p.asked \in CommandLines
    BY DEF OwnInv, TypeOK
  <2>2. ASSUME PokeSpawns(s)
        PROVE  spawned' = spawned \union
                  {[by |-> s, flags |-> forwardFlags(shell[s].given), asked |-> shell[s].given,
                    dialled |-> shell[s].sock, stale |-> shell[s].stale]}
    BY <2>2 DEF PokeSpawns
  <2>3. ASSUME PokeDiscovers(s) \/ PokeAcked(s) PROVE spawned' = spawned
    BY <2>3 DEF PokeDiscovers, PokeAcked
  <2> QED
    BY <1>4, <2>1, <2>2, <2>3
<1> QED
  BY <1>1, <1>2, <1>7, <1>8 DEF OwnInv, TypeOK

\* A daemon finds its caches, and is for their socket.
LEMMA OwnRead ==
    ASSUME OwnInv, NEW p \in spawned, DaemonReads(p)
    PROVE  TypeOK' /\ Known'
<1> DEFINE c == Discover(p.flags, p.by)
           sock == Socket(p.flags, p.by, c)
           conf == Settings(p.flags, c)
           d == [sock |-> sock, by |-> p.by, conf |-> conf, asked |-> p.asked,
                 dialled |-> p.dialled, stale |-> p.stale, cache |-> c]
<1>1. /\ spawned' = spawned \ {p} /\ UNCHANGED <<shell, version, edits, serving>>
      /\ starting' = starting \union {<<"look", d>>}
  BY DEF DaemonReads
<1>2. p.flags = forwardFlags(p.asked) /\ p.by \in Shells /\ p.asked \in CommandLines
  BY DEF OwnInv, Inv, Formed, TypeOK
<1>3. c = Discover(p.asked, p.by) /\ sock = Socket(p.asked, p.by, c)
  BY <1>2, DiscoveryKept, SocketKept
<1>4. Complete(c) /\ sock # NoSocket
  BY <1>2, <1>3, DiscoverCompletes, SocketIsOne DEF OwnInv
<1> HIDE DEF c, sock
<1>5. Paths(conf.targets) \in
          {CachePaths(c), CachePaths(c) \union {<<"output_base", c.dir["output_user_root"]>>}}
  <2> DEFINE g == applyBazelrcTTL(p.flags, c.age)
  <2>1. conf.targets = runSweeps(g, c)
    BY DEF Settings
  <2> HIDE DEF g, conf
  <2> QED
    BY <2>1, TargetsAre DEF BasePaths
<1> HIDE DEF conf
<1>6. d.by = p.by /\ d.asked = p.asked /\ d.sock = sock /\ d.cache = c /\ d.conf = conf
  OBVIOUS
<1> HIDE DEF d
<1>7. \A e \in Daemons' : e \in Daemons \/ e = d
  BY <1>1 DEF Launching, Daemons
<1>8. Known'
  BY <1>3, <1>4, <1>5, <1>6, <1>7 DEF OwnInv, Known
<1>9. \A e \in Daemons' : e.by \in Shells /\ e.asked \in CommandLines /\ e.sock # NoSocket
  BY <1>2, <1>4, <1>6, <1>7 DEF OwnInv, TypeOK
<1>10. \A x \in starting' : x[1] \in {"look", "clear", "bind"}
  BY <1>1 DEF OwnInv, TypeOK
<1> QED
  BY <1>1, <1>8, <1>9, <1>10 DEF OwnInv, TypeOK

\* Every step keeps the invariant.
LEMMA OwnStep == OwnInv /\ [Next]_vars => OwnInv'
<1> SUFFICES ASSUME OwnInv, [Next]_vars PROVE TypeOK' /\ Known'
  BY InvStep DEF OwnInv
<1>1. ASSUME Moves PROVE TypeOK' /\ Known'
  BY <1>1 DEF Moves, OwnInv, TypeOK, Known
<1>2. CASE Edit
  <2>1. /\ serving' = serving
        /\ starting' = {<<x[1], [x[2] EXCEPT !.stale = TRUE]>> : x \in starting}
        /\ shell' = [s \in Shells |-> [shell[s] EXCEPT !.stale = (shell[s].sock # NoSocket)]]
        /\ edits < MaxEdits /\ edits' = edits + 1 /\ version' \in DOMAIN Rcs
    BY <1>2 DEF Edit
  <2>2. ASSUME NEW s \in Shells
        PROVE  /\ shell'[s].given = shell[s].given /\ shell'[s].failed = shell[s].failed
               /\ shell'[s].stale = (shell[s].sock # NoSocket) /\ shell'[s].sock = shell[s].sock
    <3>1. shell[s] = [given |-> shell[s].given, sock |-> shell[s].sock,
                      failed |-> shell[s].failed, stale |-> shell[s].stale]
      BY DEF OwnInv, Inv, Formed
    <3>2. shell'[s] = [given |-> shell[s].given, sock |-> shell[s].sock,
                       failed |-> shell[s].failed, stale |-> (shell[s].sock # NoSocket)]
      BY <2>1, <3>1
    <3> QED
      BY <3>2
  <2>3. \A q \in spawned' : q.by \in Shells /\ q.asked \in CommandLines
    BY <1>2, EditMarks DEF OwnInv, Inv, TypeOK
  <2>4. edits' \in 0..MaxEdits
    BY <2>1, ConfigAssumption DEF OwnInv, TypeOK
  <2>5. Known'
    BY <1>2, <2>1, EditMarks DEF OwnInv, Inv, Known, Daemons
  <2>6. \A s \in Shells : /\ shell'[s].given \in CommandLines
                          /\ shell'[s].failed \in BOOLEAN /\ shell'[s].stale \in BOOLEAN
                          /\ shell'[s].failed \/ shell'[s].stale => shell'[s].sock # NoSocket
    BY <2>2 DEF OwnInv, TypeOK
  <2>7. /\ \A d \in Daemons' : d.by \in Shells /\ d.asked \in CommandLines /\ d.sock # NoSocket
        /\ \A x \in starting' : x[1] \in {"look", "clear", "bind"}
        /\ version' \in DOMAIN Rcs
    BY <1>2, <2>1, EditMarks DEF OwnInv, Inv, TypeOK, Daemons
  <2>8. TypeOK'
    BY <2>3, <2>4, <2>6, <2>7 DEF TypeOK
  <2> QED
    BY <2>5, <2>8
<1>3. CASE UNCHANGED vars
  <2>1. Moves
    BY <1>3 DEF vars, Moves, Launching, Daemons
  <2> QED
    BY <1>1, <2>1
<1> QED
  BY <1>1, <1>2, <1>3, OwnPoke, OwnRead, StepsMove DEF OwnInv, Next

\* The variables hold values of their types, and every daemon has a socket.
THEOREM TypeCorrect == Spec => []TypeOK
  BY OwnInit, OwnStep, PTL DEF Spec, OwnInv

\* Whoever pokes a daemon by its directories pokes one whose targets are the
\* caches in just these directories, and the output bases below the poker's
\* own output_user_root if they are a target at all (daemonKey, main.go:230).
THEOREM DaemonsReachOwnDirs == Spec => []ReachesOwnDirs
<1>1. OwnInv => ReachesOwnDirs
  <2> SUFFICES ASSUME OwnInv, NEW s \in Shells, NEW d \in Daemons
               PROVE  LET given == shell[s].given
                          cache == Discover(given, s)
                          own == Paths(sweepTargets(applyBazelrcTTL(given, cache.age), cache))
                          base == <<"output_base", cache.dir["output_user_root"]>>
                      IN  /\ ~cache.err /\ ~d.cache.err
                          /\ d.sock = <<"keyed",
                                 daemonKey(cache, resolveWorkspace(given, Cwd[s]))>>
                          => Paths(d.conf.targets) \in {own, own \union {base}}
    BY DEF ReachesOwnDirs
  <2> DEFINE cache == Discover(shell[s].given, s)
             g == applyBazelrcTTL(shell[s].given, cache.age)
             key == daemonKey(cache, resolveWorkspace(shell[s].given, Cwd[s]))
             its == daemonKey(d.cache, resolveWorkspace(d.asked, Cwd[d.by]))
  <2>1. Complete(cache)
    BY DiscoverCompletes DEF OwnInv, TypeOK
  <2>2. d.sock = resolveSocket(Value(d.asked, "socket"), its) /\ Complete(d.cache)
    BY DEF OwnInv, Known, Socket
  <2>3. ASSUME NEW explicit, NEW k, NEW l, resolveSocket(explicit, l) = <<"keyed", k>>
        PROVE  l = k
    BY <2>3 DEF resolveSocket
  <2>4. d.sock = <<"keyed", key>> => key = its
    BY <2>2, <2>3
  <2>5. ~cache.err /\ ~d.cache.err /\ d.sock = <<"keyed", key>>
        => d.cache.dir = cache.dir /\ d.cache.download = cache.download
    BY <2>1, <2>2, <2>4, KeyTells
  <2>6. Paths(d.conf.targets) \in
            {CachePaths(d.cache),
             CachePaths(d.cache) \union {<<"output_base", d.cache.dir["output_user_root"]>>}}
    BY DEF OwnInv, Known
  <2>7. Paths(sweepTargets(g, cache)) = CachePaths(cache)
    BY CachesAreTargets
  <2> HIDE DEF cache, g, key
  <2>8. ~cache.err /\ ~d.cache.err /\ d.sock = <<"keyed", key>>
        => CachePaths(d.cache) = CachePaths(cache)
    BY <2>5 DEF CachePaths
  <2> QED
    BY <2>5, <2>6, <2>7, <2>8 DEF cache, g, key
<1> QED
  BY <1>1, OwnInit, OwnStep, PTL DEF Spec

\* The workspace of a command line is a path, given or not.
LEMMA WorkspaceIsPath ==
    ASSUME NEW given \in CommandLines, NEW s \in Shells
    PROVE  resolveWorkspace(given, Cwd[s]) \in Seq(STRING)
<1>1. Default["workspace"] = NoPath
  BY DEF Default, Options
<1>2. Value(given, "workspace") # NoPath => "workspace" \in DOMAIN given
  BY <1>1 DEF Value
<1> QED
  BY <1>2, FilesAssumption DEF resolveWorkspace

\* A file that contributes a line to what a shell loads contributes all of its
\* lines and everything it imports, in any version of the files, however they
\* import one another (loadOne, discover.go:178).
THEOREM FilesStayWhole == Spec => []WholeFiles
<1>1. TypeOK => WholeFiles
  <2> SUFFICES ASSUME TypeOK, NEW s \in Shells
               PROVE  AllWhole[version][resolveWorkspace(shell[s].given, Cwd[s])][Home[s]]
    BY DEF WholeFiles
  <2> DEFINE given == shell[s].given
             workspace == resolveWorkspace(given, Cwd[s])
  <2>1. given \in CommandLines
    BY DEF TypeOK
  <2> HIDE DEF given
  <2>2. version \in DOMAIN Rcs /\ workspace \in Workspaces /\ Home[s] \in Homes
    BY <2>1, DiscoverFinds
  <2>3. Readable(Rcs[version]) /\ workspace \in Seq(STRING) /\ Home[s] \in Seq(STRING)
    BY <2>1, <2>2, WorkspaceIsPath, FilesAssumption
  <2> HIDE DEF workspace
  <2>4. LoadsWhole(Rcs[version], workspace, Home[s])
    BY <2>3, LoadingIsWhole
  <2>5. AllWhole[version][workspace][Home[s]]
    BY <2>2, <2>4 DEF AllWhole
  <2> QED
    BY <2>5 DEF workspace, given
<1> QED
  BY <1>1, TypeCorrect, PTL

\* A directory a shell's daemon would sweep is one that a line of a file
\* declares, taken from that file's directory, or, after a failed extraction,
\* as that line has it (ExtractCacheDirs, paths.go:64, and main.go:520).
THEOREM DirsAreDeclared == Spec => []DeclaredDirs
<1>1. ASSUME TypeOK, NEW s \in Shells, NEW name \in ToSet(DirFlags)
      PROVE  LET cache == Discover(shell[s].given, s)
                 workspace == resolveWorkspace(shell[s].given, Cwd[s])
                 declaredIn(file) ==
                     \E line \in ToSet(Rcs[version][file]) : \E arg \in ToSet(line.args) :
                         /\ arg.flag = name /\ arg.val \notin {NoValue, NoPath}
                         /\ \/ cache.dir[name] = Resolve(arg.val, Dir(file), workspace, Home[s])
                            \/ cache.err /\ cache.dir[name] = arg.val
             IN  \/ cache.dir[name] = NoPath
                 \/ \E e \in ToSet(LoadOf(s).entries) : declaredIn(e.source)
                 \/ /\ ~cache.err /\ name = "repo_contents_cache"
                    /\ cache.dir[name] = Append(cache.dir["repository_cache"], "contents")
  <2> DEFINE given == shell[s].given
             workspace == resolveWorkspace(given, Cwd[s])
  <2>1. given \in CommandLines
    BY <1>1 DEF TypeOK
  <2>2. /\ version \in DOMAIN Rcs /\ workspace \in Workspaces /\ Home[s] \in Homes
        /\ Discover(given, s) = discoverDirs(Rcs[version], workspace, Home[s])
    BY <1>1, <2>1, DiscoverFinds
  <2>3. Readable(Rcs[version]) /\ workspace \in Seq(STRING) /\ Home[s] \in Seq(STRING)
    BY <1>1, <2>1, <2>2, WorkspaceIsPath, FilesAssumption
  <2>4. LoadOf(s) = Load(Rcs[version], workspace, Home[s])
    BY <2>2 DEF LoadOf, Loads
  <2> DEFINE files == Rcs[version]
             home == Home[s]
             declaredIn(file, cache) ==
                 \E line \in ToSet(files[file]) : \E arg \in ToSet(line.args) :
                     /\ arg.flag = name /\ arg.val \notin {NoValue, NoPath}
                     /\ \/ cache.dir[name] = Resolve(arg.val, Dir(file), workspace, home)
                        \/ cache.err /\ cache.dir[name] = arg.val
             Declared(cache, load) ==
                 \/ cache.dir[name] = NoPath
                 \/ \E e \in ToSet(load.entries) : declaredIn(e.source, cache)
                 \/ /\ ~cache.err /\ name = "repo_contents_cache"
                    /\ cache.dir[name] = Append(cache.dir["repository_cache"], "contents")
  <2> HIDE DEF workspace, files, home
  <2>5. Readable(files) /\ workspace \in Seq(STRING) /\ home \in Seq(STRING)
    BY <2>3 DEF files, home
  <2>6. Declared(discoverDirs(files, workspace, home), Load(files, workspace, home))
    BY <2>5, DiscoveredIsDeclared
  <2>7. Declared(Discover(given, s), LoadOf(s))
    BY <2>2, <2>4, <2>6 DEF files, home
  <2> QED
    BY <2>7 DEF workspace, files, home
<1>2. TypeOK => DeclaredDirs
  BY <1>1 DEF DeclaredDirs
<1> QED
  BY <1>2, TypeCorrect, PTL

(***************************************************************************)
(* Who pokes is served.                                                    *)
(***************************************************************************)
\* What is on its way for a shell has been asked for by its command line.
Asked ==
    /\ \A p \in spawned : p.asked = shell[p.by].given
    /\ \A d \in Launching : d.asked = shell[d.by].given

\* In the beginning nothing is on its way.
LEMMA AskedInit == Init => Asked
BY DEF Init, Asked, Launching

\* No step changes a command line.
LEMMA AskedStep == Inv /\ Asked /\ [Next]_vars => Asked'
<1> SUFFICES ASSUME Inv, Asked, [Next]_vars PROVE Asked'
  OBVIOUS
<1>1. /\ DOMAIN shell = Shells
      /\ \A s \in Shells : shell[s] = [given |-> shell[s].given, sock |-> shell[s].sock,
                                       failed |-> shell[s].failed, stale |-> shell[s].stale]
      /\ \A p \in spawned : p.by \in Shells /\ p.asked = shell[p.by].given
      /\ \A d \in Launching : d.by \in Shells /\ d.asked = shell[d.by].given
  BY DEF Inv, Formed, Asked
<1>2. ASSUME NEW r \in Shells, PokeDiscovers(r) \/ PokeAcked(r) \/ PokeSpawns(r) PROVE Asked'
  <2>1. ASSUME NEW s \in Shells PROVE shell'[s].given = shell[s].given
    BY <1>1, <1>2 DEF PokeDiscovers, PokeAcked, PokeSpawns, PokeReturns
  <2>2. Launching' = Launching
    BY <1>2 DEF PokeDiscovers, PokeAcked, PokeSpawns, Launching
  <2>3. ASSUME NEW q \in spawned' PROVE q.by \in Shells /\ q.asked = shell[q.by].given
    BY <1>1, <1>2 DEF PokeDiscovers, PokeAcked, PokeSpawns
  <2> QED
    BY <1>1, <2>1, <2>2, <2>3 DEF Asked
<1>3. ASSUME NEW p \in spawned, DaemonReads(p) PROVE Asked'
  <2> DEFINE d == [sock |-> Socket(p.flags, p.by, Discover(p.flags, p.by)), by |-> p.by,
                   conf |-> Settings(p.flags, Discover(p.flags, p.by)), asked |-> p.asked,
                   dialled |-> p.dialled, stale |-> p.stale,
                   cache |-> Discover(p.flags, p.by)]
  <2>1. starting' = starting \union {<<"look", d>>}
    BY <1>3 DEF DaemonReads
  <2>2. d.by = p.by /\ d.asked = p.asked
    OBVIOUS
  <2> HIDE DEF d
  <2>3. \A e \in Launching' : e \in Launching \/ e = d
    BY <2>1 DEF Launching
  <2>4. spawned' \subseteq spawned /\ shell' = shell
    BY <1>3 DEF DaemonReads
  <2> QED
    BY <1>1, <2>2, <2>3, <2>4 DEF Asked
<1>4. ASSUME Moves PROVE Asked'
  BY <1>4 DEF Moves, Asked
<1>5. CASE Edit
  <2>1. ASSUME NEW s \in Shells PROVE shell'[s].given = shell[s].given
    <3>1. shell'[s] = [shell[s] EXCEPT !.stale = (shell[s].sock # NoSocket)]
      BY <1>5 DEF Edit
    <3> QED
      BY <1>1, <3>1
  <2>2. \A q \in spawned' : \E p \in spawned : q.by = p.by /\ q.asked = p.asked
    BY <1>5, EditMarks DEF Inv
  <2>3. \A e \in Launching' : \E d \in Launching : e.by = d.by /\ e.asked = d.asked
    BY <1>5, EditMarks DEF Inv
  <2> QED
    BY <1>1, <2>1, <2>2, <2>3 DEF Asked
<1>6. CASE UNCHANGED vars
  BY <1>6 DEF vars, Asked, Launching
<1> QED
  BY <1>2, <1>3, <1>4, <1>5, <1>6, StepsMove DEF Next

\* Between two edits a poke that has read the files is about the socket they
\* come to, and does not end without a daemon there or on its way.
LEMMA SettledStep ==
    ASSUME Inv, TypeOK, [Next]_vars, [edits' = edits]_vars, NEW s \in Shells, ~shell[s].stale
    PROVE  /\ ~shell'[s].stale
           /\ shell[s].sock # NoSocket /\ ~Taken(Present(s)) =>
                  shell'[s].sock # NoSocket \/ OnTheWay(s)'
<1>1. /\ DOMAIN shell = Shells
      /\ shell[s] = [given |-> shell[s].given, sock |-> shell[s].sock,
                     failed |-> shell[s].failed, stale |-> shell[s].stale]
  BY DEF Inv, Formed
<1>2. shell[s].sock = NoSocket \/ shell[s].sock = Present(s)
  BY DEF Inv, UpToDate, Present
<1>3. ~Edit
  <2>1. edits \in Int
    BY ConfigAssumption DEF TypeOK
  <2>2. edits' = edits
    BY DEF vars
  <2> QED
    BY <2>1, <2>2 DEF Edit
<1>4. CASE shell' = shell
  BY <1>4
<1>5. ASSUME NEW r \in Shells, r # s, PokeDiscovers(r) \/ PokeAcked(r) \/ PokeSpawns(r)
      PROVE  shell'[s] = shell[s]
  BY <1>1, <1>5 DEF PokeDiscovers, PokeAcked, PokeSpawns, PokeReturns
<1>6. CASE PokeDiscovers(s)
  BY <1>1, <1>6 DEF PokeDiscovers
<1>7. CASE PokeAcked(s)
  <2>1. ~shell'[s].stale
    BY <1>1, <1>7 DEF PokeAcked, PokeReturns
  <2> QED
    BY <1>2, <1>7, <2>1 DEF PokeAcked
<1>8. CASE PokeSpawns(s)
  <2> DEFINE p == [by |-> s, flags |-> forwardFlags(shell[s].given), asked |-> shell[s].given,
                   dialled |-> shell[s].sock, stale |-> shell[s].stale]
  <2>1. ~shell'[s].stale
    BY <1>1, <1>8 DEF PokeSpawns, PokeReturns
  <2>2. p \in spawned' /\ p.by = s /\ ~p.stale
    BY <1>8 DEF PokeSpawns
  <2> HIDE DEF p
  <2>3. OnTheWay(s)'
    BY <2>2 DEF OnTheWay
  <2> QED
    BY <2>1, <2>3
<1>9. ASSUME Moves \/ \E p \in spawned : DaemonReads(p) PROVE shell' = shell
  BY <1>9 DEF Moves, DaemonReads
<1> QED
  BY <1>3, <1>4, <1>5, <1>6, <1>7, <1>8, <1>9, StepsMove DEF Next, vars

\* A process that has been spawned since, and arrives, serves that socket, or
\* finds it taken.
LEMMA ArrivedServes ==
    ASSUME Inv, Asked, NEW s \in Shells, Arrives(s)
    PROVE  Taken(Present(s))'
<1>1. PICK d \in Launching : /\ d.by = s /\ ~d.stale
                             /\ DaemonYields(d) \/ DaemonBinds(d) \/ DaemonIsLate(d)
  BY DEF Arrives, Fresh
<1>2. d.sock = Present(s)
  BY <1>1 DEF Inv, UpToDate, Asked, Present
<1>3. Present(s)' = Present(s)
  BY <1>1 DEF DaemonYields, DaemonBinds, DaemonIsLate, Present, Discover
<1>4. \E e \in serving' : e.sock = d.sock
  BY <1>1 DEF DaemonYields, DaemonBinds, DaemonIsLate, Taken
<1> QED
  BY <1>2, <1>3, <1>4 DEF Taken

\* A shell that goes on poking is served time and again on the socket its files
\* come to, if these at last stay as they are (as they do after MaxEdits edits):
\* while nobody serves that socket every poke spawns, and whichever process
\* arrives then is for it (cmdPoke, main.go:399).  Fairness is stated without
\* ENABLED, so the temporal step is propositional.
THEOREM PokesGetServed == FairSpec /\ <>[][edits' = edits]_vars => PokedIsServed
<1> DEFINE Fine == Inv /\ TypeOK /\ Asked
<1>1. Spec => []Fine
  <2>1. Init => OwnInv /\ Asked
    BY OwnInit, AskedInit
  <2>2. OwnInv /\ Asked /\ [Next]_vars => (OwnInv /\ Asked)'
    BY OwnStep, AskedStep DEF OwnInv
  <2>3. OwnInv /\ Asked => Fine
    BY DEF OwnInv
  <2> QED
    BY <2>1, <2>2, <2>3, PTL DEF Spec
<1>2. ASSUME NEW s \in Shells
      PROVE  /\ Spec
             /\ []<>(shell[s].sock # NoSocket) /\ []<>(shell[s].sock = NoSocket)
             /\ <>[]~OnTheWay(s) \/ []<><<Arrives(s)>>_vars
             /\ <>[][edits' = edits]_vars
             => []<>Taken(Present(s))
  <2> DEFINE Free == shell[s].sock = NoSocket
             Old == shell[s].stale
             Way == ~OnTheWay(s)
             Ok == Taken(Present(s))
  <2>1. Fine /\ Free => ~Old
    BY DEF TypeOK
  <2>2. Fine /\ [Next]_vars /\ [edits' = edits]_vars /\ ~Old => ~Old'
    BY SettledStep
  <2>3. Fine /\ [Next]_vars /\ [edits' = edits]_vars /\ ~Old /\ ~Free /\ ~Ok => ~Free' \/ ~Way'
    BY SettledStep
  <2>4. Fine /\ <<Arrives(s)>>_vars => Ok'
    BY ArrivedServes
  <2>5. Spec => [][Next]_vars
    BY PTL DEF Spec
  <2>6. (shell[s].sock # NoSocket) <=> ~Free
    OBVIOUS
  <2> HIDE DEF Fine, Free, Old, Way, Ok
  <2>7. [](Fine) /\ [][Next]_vars /\ []<>~Free /\ []<>Free /\ (<>[]Way \/ []<><<Arrives(s)>>_vars)
        /\ <>[][edits' = edits]_vars => []<>Ok
    BY <2>1, <2>2, <2>3, <2>4, PTL
  <2> QED
    BY <1>1, <2>5, <2>6, <2>7, PTL DEF Free, Way, Ok
<1> QED
  BY <1>2 DEF FairSpec, Fairness, PokedIsServed, Present
=============================================================================
