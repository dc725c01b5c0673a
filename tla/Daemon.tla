------------------------------- MODULE Daemon -------------------------------
(***************************************************************************)
(* The processes that meet at one socket path: `busybae poke` commands,    *)
(* and daemon processes that claim the path, serve pokes on it, idle out   *)
(* and give it up (internal/daemon/daemon.go, cmdPoke and cmdDaemon of     *)
(* main.go).                                                               *)
(*                                                                         *)
(* A process slot of Daemons is reused after its process is gone, so the   *)
(* size of Daemons bounds the daemons alive at once, not those ever        *)
(* started.  A socket is named by the process that bound it.               *)
(***************************************************************************)
EXTENDS FiniteSets

CONSTANTS
    Daemons,      \* daemon process slots
    Clis,         \* shells that run `busybae poke`, again and again
    NoFile,       \* nothing at the socket path
    Leftover,     \* a file nobody listens behind: a dead socket, a plain file
    Nobody,       \* the peer of a process that is in no call
    IdleEnabled,  \* IdleTimeout > 0
    GCEnabled     \* GCInterval > 0 and OnGC is set

Callers == Clis \union Daemons

ASSUME DaemonAssumption ==
    /\ Clis \intersect Daemons = {}
    /\ NoFile \notin Daemons /\ Leftover \notin Daemons /\ NoFile # Leftover
    /\ Nobody \notin Callers
    /\ IdleEnabled \in BOOLEAN /\ GCEnabled \in BOOLEAN

VARIABLES
    path,       \* what the directory entry at SocketPath refers to
    run,        \* run[d]: the next call of the main goroutine of d
    sock,       \* sock[d]: the socket d created
    stray,      \* stray[d]: unaccepted connections whose caller has hung up
    idle,       \* idle[d]: now - lastPoke >= IdleTimeout
    cancelled,  \* cancelled[d]: runCtx of d is done
    acc,        \* acc[d]: accept loop
    wd,         \* wd[d]: idle watchdog
    sched,      \* sched[d]: GC scheduler
    peer,       \* peer[c]: the daemon c is poking
    conn,       \* conn[c]: where that poke's connection is
    cli         \* cli[c]: where `busybae poke` is

server == <<stray, idle>>
routines == <<acc, wd, sched>>
calls == <<peer, conn>>
vars == <<path, run, sock, server, cancelled, routines, calls, cli>>

\* listen() up to its return, then Run from its first defer on.
Starting == {"stat", "probe", "probing", "remove", "bind", "listen", "chmod", "abort"}
Running == {"serve", "close", "wait"}
RunState == {"off"} \union Starting \union Running \union {"unlink", "done"}

TypeOK ==
    /\ path \in Daemons \union {NoFile, Leftover}
    /\ run \in [Daemons -> RunState]
    /\ sock \in [Daemons -> {"none", "bound", "open", "closed"}]
    /\ stray \in [Daemons -> BOOLEAN]
    /\ idle \in [Daemons -> BOOLEAN]
    /\ cancelled \in [Daemons -> BOOLEAN]
    /\ acc \in [Daemons -> {"loop", "done"}]
    /\ wd \in [Daemons -> {"tick", "expired", "close", "done"}]
    /\ sched \in [Daemons -> {"wait", "sweep", "done"}]
    /\ peer \in [Callers -> Daemons \union {Nobody}]
    /\ conn \in [Callers -> {"none", "queued", "accepted", "answered", "reset"}]
    /\ cli \in [Clis -> {"idle", "waiting", "spawning"}]

Init ==
    /\ path \in {NoFile, Leftover}
    /\ run = [d \in Daemons |-> "off"]
    /\ sock = [d \in Daemons |-> "none"]
    /\ stray = [d \in Daemons |-> FALSE]
    /\ idle = [d \in Daemons |-> FALSE]
    /\ cancelled = [d \in Daemons |-> FALSE]
    /\ acc = [d \in Daemons |-> "done"]
    /\ wd = [d \in Daemons |-> "done"]
    /\ sched = [d \in Daemons |-> "done"]
    /\ peer = [c \in Callers |-> Nobody]
    /\ conn = [c \in Callers |-> "none"]
    /\ cli = [c \in Clis |-> "idle"]

-----------------------------------------------------------------------------
(***************************************************************************)
(* Poke, the handshake that commands and starting daemons share.  A caller *)
(* that hangs up early leaves its connection in the queue: the daemon may  *)
(* still accept it, and then it counts as a poke all the same.             *)
(***************************************************************************)

\* Mutant: a file at the path is taken for a daemon.
FileExists == path # NoFile

\* A bound socket refuses connections until listen(2); so does a dead one.
Connectable == path \in Daemons /\ sock[path] = "open"

Dial(c) ==
    /\ Connectable
    /\ peer' = [peer EXCEPT ![c] = path]
    /\ conn' = [conn EXCEPT ![c] = "queued"]
    /\ UNCHANGED stray

HangUp(c) ==
    /\ peer' = [peer EXCEPT ![c] = Nobody]
    /\ conn' = [conn EXCEPT ![c] = "none"]
    /\ stray' = IF conn[c] = "queued" THEN [stray EXCEPT ![peer[c]] = TRUE] ELSE stray

\* The connection was reset, or its deadline passed with no answer.
PokeFails(c) == peer[c] # Nobody /\ conn[c] # "answered" /\ HangUp(c)

PokeAcked(c) == conn[c] = "answered" /\ HangUp(c)

\* d goes away under the connections whose state is in lost.
Reset(d, lost) ==
    [c \in Callers |-> IF peer[c] = d /\ conn[c] \in lost THEN "reset" ELSE conn[c]]

-----------------------------------------------------------------------------
(***************************************************************************)
(* cmdPoke                                                                 *)
(***************************************************************************)

CliDial(c) ==
    /\ cli[c] = "idle"
    /\ Dial(c)
    /\ cli' = [cli EXCEPT ![c] = "waiting"]
    /\ UNCHANGED <<path, run, sock, idle, cancelled, routines>>

\* A failed dial is what IsUnavailable calls unavailable.
CliDialFails(c) ==
    /\ cli[c] = "idle"
    /\ ~Connectable
    /\ cli' = [cli EXCEPT ![c] = "spawning"]
    /\ UNCHANGED <<path, run, sock, server, cancelled, routines, calls>>

\* After a connect, no error of the handshake is: the command reports it
\* and starts no daemon.
CliPokeReturns(c) ==
    /\ cli[c] = "waiting"
    /\ PokeAcked(c) \/ PokeFails(c)
    /\ cli' = [cli EXCEPT ![c] = "idle"]
    /\ UNCHANGED <<path, run, sock, idle, cancelled, routines>>

\* A new process, at the start of daemon.Run.
Begin(d) ==
    /\ run[d] = "off"
    /\ run' = [run EXCEPT ![d] = "stat"]
    /\ UNCHANGED <<path, sock, server, cancelled, routines, calls>>

CliSpawn(c) ==
    /\ cli[c] = "spawning"
    /\ cli' = [cli EXCEPT ![c] = "idle"]
    /\ \/ \E d \in Daemons : Begin(d)
       \* SpawnDetached returned an error, or the child failed before Run
       \/ UNCHANGED <<path, run, sock, server, cancelled, routines, calls>>

\* `busybae daemon` by hand.
Foreground(d) == Begin(d) /\ UNCHANGED cli

-----------------------------------------------------------------------------
(***************************************************************************)
(* listen: claim the path.                                                 *)
(***************************************************************************)

Goto(d, from, to) == run[d] = from /\ run' = [run EXCEPT ![d] = to]

Stat(d) ==
    /\ Goto(d, "stat", IF path = NoFile THEN "bind" ELSE "probe")
    /\ UNCHANGED <<path, sock, server, cancelled, routines, calls, cli>>

ProbeDial(d) ==
    /\ Goto(d, "probe", "probing")
    /\ Dial(d)
    /\ UNCHANGED <<path, sock, idle, cancelled, routines, cli>>

ProbeDialFails(d) ==
    /\ Goto(d, "probe", "remove")
    /\ ~Connectable
    /\ UNCHANGED <<path, sock, server, cancelled, routines, calls, cli>>

\* Mutant: the answer of the probe is not looked at.
ProbeIgnored(d) ==
    /\ Goto(d, "probing", "remove")
    /\ PokeAcked(d)
    /\ UNCHANGED <<path, sock, idle, cancelled, routines, cli>>

\* ErrAlreadyRunning
ProbeAcked(d) ==
    /\ Goto(d, "probing", "done")
    /\ PokeAcked(d)
    /\ UNCHANGED <<path, sock, idle, cancelled, routines, cli>>

\* Unlike in cmdPoke, every error of the handshake means "stale".
ProbeFails(d) ==
    /\ Goto(d, "probing", "remove")
    /\ PokeFails(d)
    /\ UNCHANGED <<path, sock, idle, cancelled, routines, cli>>

\* Whatever is at the path by now goes; nothing there is an error.
RemoveStale(d) ==
    /\ Goto(d, "remove", IF path = NoFile THEN "done" ELSE "bind")
    /\ path' = NoFile
    /\ UNCHANGED <<sock, server, cancelled, routines, calls, cli>>

\* net.Listen makes two calls, bind(2) and listen(2).
Bind(d) ==
    /\ Goto(d, "bind", "listen")
    /\ path = NoFile
    /\ path' = d
    /\ sock' = [sock EXCEPT ![d] = "bound"]
    /\ UNCHANGED <<server, cancelled, routines, calls, cli>>

\* EADDRINUSE
BindFails(d) ==
    /\ Goto(d, "bind", "done")
    /\ path # NoFile
    /\ UNCHANGED <<path, sock, server, cancelled, routines, calls, cli>>

Listen(d) ==
    /\ Goto(d, "listen", "chmod")
    /\ sock' = [sock EXCEPT ![d] = "open"]
    /\ UNCHANGED <<path, server, cancelled, routines, calls, cli>>

\* The mode is set on whatever is at the path.  Run then stores the time as
\* the last poke and starts its goroutines.
Chmod(d) ==
    /\ Goto(d, "chmod", "serve")
    /\ path # NoFile
    /\ acc' = [acc EXCEPT ![d] = "loop"]
    /\ wd' = [wd EXCEPT ![d] = IF IdleEnabled THEN "tick" ELSE "done"]
    /\ sched' = [sched EXCEPT ![d] = IF GCEnabled THEN "wait" ELSE "done"]
    /\ UNCHANGED <<path, sock, server, cancelled, calls, cli>>

ChmodFails(d) ==
    /\ Goto(d, "chmod", "abort")
    /\ path = NoFile
    /\ UNCHANGED <<path, sock, server, cancelled, routines, calls, cli>>

\* Mutant: SetUnlinkOnClose(false).
CloseKeepsFile(d) ==
    IF sock[d] = "open"
    THEN /\ sock' = [sock EXCEPT ![d] = "closed"]
         /\ conn' = Reset(d, {"queued"})
         /\ UNCHANGED <<path, stray>>
    ELSE UNCHANGED <<path, sock, stray, conn>>

\* UnixListener.Close: the first call unlinks the path, without asking whose
\* socket is there, and closes the socket; later calls do nothing.
CloseListener(d) ==
    IF sock[d] = "open"
    THEN /\ path' = NoFile
         /\ sock' = [sock EXCEPT ![d] = "closed"]
         /\ stray' = [stray EXCEPT ![d] = FALSE]
         /\ conn' = Reset(d, {"queued"})
    ELSE UNCHANGED <<path, sock, stray, conn>>

Abort(d) ==
    /\ Goto(d, "abort", "done")
    /\ CloseListener(d)
    /\ UNCHANGED <<idle, cancelled, routines, peer, cli>>

-----------------------------------------------------------------------------
(***************************************************************************)
(* The goroutines of Run.                                                  *)
(***************************************************************************)

\* The next connection may be a caller's or an abandoned one.
Accept(d) ==
    /\ acc[d] = "loop" /\ sock[d] = "open"
    /\ \/ \E c \in Callers :
             /\ peer[c] = d /\ conn[c] = "queued"
             /\ conn' = [conn EXCEPT ![c] = "accepted"]
             /\ UNCHANGED stray
       \/ /\ stray[d]
          /\ stray' = [stray EXCEPT ![d] = FALSE]
          /\ UNCHANGED conn
    /\ idle' = [idle EXCEPT ![d] = FALSE]
    /\ UNCHANGED <<path, run, sock, cancelled, routines, peer, cli>>

\* Accept returns an error: the listener was closed, or, with the listener
\* still open, a passing condition such as EMFILE.  The loop ends either way.
AcceptEnds(d) ==
    /\ acc[d] = "loop"
    /\ acc' = [acc EXCEPT ![d] = "done"]
    /\ UNCHANGED <<path, run, sock, server, cancelled, wd, sched, calls, cli>>

\* handleConn, a goroutine nobody waits for, answers OK.
Answer(c) ==
    /\ conn[c] = "accepted"
    /\ conn' = [conn EXCEPT ![c] = "answered"]
    /\ UNCHANGED <<path, run, sock, server, cancelled, routines, peer, cli>>

\* IdleTimeout has passed since the last poke; only the watchdog looks.
TimePasses(d) ==
    /\ wd[d] = "tick" /\ ~idle[d]
    /\ idle' = [idle EXCEPT ![d] = TRUE]
    /\ UNCHANGED <<path, run, sock, stray, cancelled, routines, calls, cli>>

Watchdog(d, from, to) == wd[d] = from /\ wd' = [wd EXCEPT ![d] = to]

\* A tick that loads lastPoke and finds it too old ...
WatchdogExpires(d) ==
    /\ Watchdog(d, "tick", "expired")
    /\ idle[d]
    /\ UNCHANGED <<path, run, sock, server, cancelled, acc, sched, calls, cli>>

\* Mutant: the watchdog closes the listener before it cancels.
CloseBeforeCancel(d) ==
    /\ Watchdog(d, "expired", "close")
    /\ CloseListener(d)
    /\ UNCHANGED <<run, idle, cancelled, acc, sched, peer, cli>>

\* Mutant: the watchdog only closes the listener.
NoCancel(d) ==
    /\ Watchdog(d, "expired", "close")
    /\ UNCHANGED <<path, run, sock, server, cancelled, acc, sched, calls, cli>>

\* ... and what it then does, whatever has been accepted since.
WatchdogCancels(d) ==
    /\ Watchdog(d, "expired", "close")
    /\ cancelled' = [cancelled EXCEPT ![d] = TRUE]
    /\ UNCHANGED <<path, run, sock, server, acc, sched, calls, cli>>

WatchdogCloses(d) ==
    /\ Watchdog(d, "close", "done")
    /\ CloseListener(d)
    /\ UNCHANGED <<run, idle, cancelled, acc, sched, peer, cli>>

\* Mutant: the watchdog stops with the accept loop.
StopsWithAccept(d) ==
    /\ Watchdog(d, "tick", "done")
    /\ cancelled[d] \/ acc[d] = "done"
    /\ UNCHANGED <<path, run, sock, server, cancelled, acc, sched, calls, cli>>

WatchdogStops(d) ==
    /\ Watchdog(d, "tick", "done")
    /\ cancelled[d]
    /\ UNCHANGED <<path, run, sock, server, cancelled, acc, sched, calls, cli>>

Scheduler(d, from, to) ==
    /\ sched[d] = from
    /\ sched' = [sched EXCEPT ![d] = to]
    /\ UNCHANGED <<path, run, sock, server, cancelled, acc, wd, calls, cli>>

\* The select may take a tick even when runCtx is done.
SweepBegins(d) == Scheduler(d, "wait", "sweep")
SweepEnds(d) == Scheduler(d, "sweep", "wait")
SchedulerStops(d) == cancelled[d] /\ Scheduler(d, "wait", "done")

-----------------------------------------------------------------------------
(***************************************************************************)
(* The end of a process.                                                   *)
(***************************************************************************)

\* SIGTERM or SIGINT, at any time: listen does not look at the context.
Signal(d) ==
    /\ run[d] # "off" /\ ~cancelled[d]
    /\ cancelled' = [cancelled EXCEPT ![d] = TRUE]
    /\ UNCHANGED <<path, run, sock, server, routines, calls, cli>>

MainWakes(d) ==
    /\ Goto(d, "serve", "close")
    /\ cancelled[d]
    /\ UNCHANGED <<path, sock, server, cancelled, routines, calls, cli>>

\* Mutant: Run waits for its goroutines with the listener open.
WaitWithoutClose(d) ==
    /\ Goto(d, "close", "wait")
    /\ UNCHANGED <<path, sock, server, cancelled, routines, calls, cli>>

MainCloses(d) ==
    /\ Goto(d, "close", "wait")
    /\ CloseListener(d)
    /\ UNCHANGED <<idle, cancelled, routines, peer, cli>>

Joined(d) == acc[d] = "done" /\ wd[d] = "done" /\ sched[d] = "done"

\* Mutant: the scheduler is missing from the wait group.
JoinsWithoutScheduler(d) ==
    /\ Goto(d, "wait", "unlink")
    /\ acc[d] = "done" /\ wd[d] = "done"
    /\ UNCHANGED <<path, sock, server, cancelled, routines, calls, cli>>

MainJoins(d) ==
    /\ Goto(d, "wait", "unlink")
    /\ Joined(d)
    /\ UNCHANGED <<path, sock, server, cancelled, routines, calls, cli>>

\* The deferred os.Remove: the path goes once more.
Unlink(d) ==
    /\ Goto(d, "unlink", "done")
    /\ path' = NoFile
    /\ UNCHANGED <<sock, server, cancelled, routines, calls, cli>>

\* The process is gone: a socket of its own still at the path is a dead
\* file from now on, and every unanswered connection to it is reset.
Gone(d) ==
    /\ path' = IF path = d THEN Leftover ELSE path
    /\ run' = [run EXCEPT ![d] = "off"]
    /\ sock' = [sock EXCEPT ![d] = "none"]
    /\ stray' = [x \in Daemons |->
                    x # d /\ (stray[x] \/ (peer[d] = x /\ conn[d] = "queued"))]
    /\ idle' = [idle EXCEPT ![d] = FALSE]
    /\ cancelled' = [cancelled EXCEPT ![d] = FALSE]
    /\ acc' = [acc EXCEPT ![d] = "done"]
    /\ wd' = [wd EXCEPT ![d] = "done"]
    /\ sched' = [sched EXCEPT ![d] = "done"]
    /\ peer' = [peer EXCEPT ![d] = Nobody]
    /\ conn' = [Reset(d, {"queued", "accepted"}) EXCEPT ![d] = "none"]
    /\ UNCHANGED cli

Exit(d) == run[d] = "done" /\ Gone(d)

\* SIGKILL, a panic, a power cut.
Crash(d) == run[d] # "off" /\ Gone(d)

-----------------------------------------------------------------------------

ListenStep(d) ==
    \/ Stat(d) \/ ProbeDial(d) \/ ProbeDialFails(d) \/ ProbeAcked(d) \/ ProbeFails(d)
    \/ RemoveStale(d) \/ Bind(d) \/ BindFails(d) \/ Listen(d)
    \/ Chmod(d) \/ ChmodFails(d) \/ Abort(d)

MainStep(d) == MainWakes(d) \/ MainCloses(d) \/ MainJoins(d) \/ Unlink(d) \/ Exit(d)

WatchdogStep(d) ==
    WatchdogExpires(d) \/ WatchdogCancels(d) \/ WatchdogCloses(d) \/ WatchdogStops(d)

Next ==
    \/ \E c \in Clis : CliDial(c) \/ CliDialFails(c) \/ CliPokeReturns(c) \/ CliSpawn(c)
    \/ \E d \in Daemons :
          \/ Foreground(d) \/ Signal(d) \/ Crash(d) \/ TimePasses(d)
          \/ ListenStep(d) \/ MainStep(d) \/ WatchdogStep(d)
          \/ SweepBegins(d) \/ SweepEnds(d) \/ SchedulerStops(d)
          \/ Accept(d) \/ AcceptEnds(d)
    \/ \E c \in Callers : Answer(c)

Spec == Init /\ [][Next]_vars

-----------------------------------------------------------------------------
(***************************************************************************)
(* Fairness: a process that can take its next step takes it, a call ends   *)
(* by its deadline at the latest, time passes, a sweep comes to its end.   *)
(* The scheduler's select picks at random among its ready cases, so it     *)
(* does not pick the ticker for ever: strong fairness.  Nobody has to run  *)
(* a command, to send a signal or to crash, accept(2) need not fail, and   *)
(* a queued connection need not be accepted: pokes may come too fast.      *)
(***************************************************************************)

Fairness ==
    /\ \A c \in Clis : WF_vars(CliPokeReturns(c))
    /\ \A d \in Daemons :
          /\ WF_vars(ListenStep(d) \/ MainStep(d)) /\ WF_vars(WatchdogStep(d))
          /\ WF_vars(TimePasses(d))
          /\ WF_vars(sock[d] # "open" /\ AcceptEnds(d))
          /\ WF_vars(SweepEnds(d)) /\ SF_vars(SchedulerStops(d))

FairSpec == Spec /\ Fairness

-----------------------------------------------------------------------------
(***************************************************************************)
(* Properties                                                              *)
(***************************************************************************)

\* While the path refers to a daemon's socket, that socket and its process
\* live: no way out of listen or Run leaves a dead socket of its own, only a
\* crash does (Close at lines 76, 134, 161 and 207, os.Remove at line 77).
NoSocketLeftBehind ==
    path \in Daemons => sock[path] \in {"bound", "open"} /\ run[path] \notin {"off", "done"}

\* How far the main goroutine is says what has become of its socket and of
\* its goroutines: the socket is gone before Run waits, and what the other
\* goroutines do is over before Run returns.  With the types, an inductive
\* invariant, from which the two properties above follow.
LifeOrder ==
    \A d \in Daemons :
        /\ run[d] \in {"off", "stat", "probe", "probing", "remove", "bind"} => sock[d] = "none"
        /\ run[d] = "listen" => sock[d] = "bound"
        /\ run[d] \in {"chmod", "abort"} => sock[d] = "open"
        /\ run[d] \in {"serve", "close"} => sock[d] \in {"open", "closed"}
        /\ run[d] \in {"wait", "unlink"} => sock[d] = "closed"
        /\ run[d] = "done" => sock[d] \in {"none", "closed"}
        /\ sock[d] \in {"none", "closed"} => path # d
        /\ run[d] \notin Running => Joined(d)
        /\ run[d] \in {"close", "wait", "unlink"} \/ wd[d] = "close" => cancelled[d]

Phase(d) ==
    CASE run[d] = "off" -> "off"
      [] run[d] \in Starting \ {"abort"} -> "starting"
      [] run[d] = "serve" /\ ~cancelled[d] -> "serving"
      [] OTHER -> "stopping"

\* The daemons implement SocketLease: in every interleaving a claim finds the
\* path free, a serving daemon touches nothing, a clean exit leaves nothing.
Lease == INSTANCE SocketLease WITH
    entry <- path,
    phase <- [d \in Daemons |-> Phase(d)],
    claimed <- [d \in Daemons |-> sock[d] # "none"]
LeaseSpec == Lease!Spec

Serving(d) == run[d] = "serve" /\ sock[d] = "open" /\ ~cancelled[d]

\* "Only one daemon can hold a given SocketPath at a time" (lines 54-57).
AtMostOneServing == \A d, e \in Daemons : Serving(d) /\ Serving(e) => d = e

\* The case that comment has in mind: no process starts or stops while
\* another does, and a daemon that was reached answers in time.
Moving(d) == Phase(d) \in {"starting", "stopping"} \/ wd[d] \in {"expired", "close"}
OneMoves == \A d, e \in Daemons : Moving(d) /\ Moving(e) => d = e
AnswersInTime == \A d \in Daemons : ProbeFails(d) => conn[d] = "reset"
OrderlySpec == Init /\ [][Next /\ OneMoves' /\ AnswersInTime]_vars

\* Why it holds then: the path is the serving daemon's, a start that is about
\* to take the path has made sure that nobody serves, and so has a probe that
\* was reset.  With Inv of DaemonProofs, inductive in OrderlySpec.
Orderly ==
    /\ OneMoves
    /\ \A d \in Daemons :
          /\ Phase(d) = "serving" => path = d /\ sock[d] = "open"
          /\ run[d] \in {"listen", "chmod"} => path = d
          /\ run[d] # "abort"
    /\ \A d, e \in Daemons :
          Phase(e) = "serving" =>
              /\ run[d] \notin {"remove", "bind", "close", "wait", "unlink"}
              /\ run[d] = "serve" => ~cancelled[d]
              /\ run[d] = "probing" => peer[d] = e /\ conn[d] # "reset"

\* A daemon past its idle timeout is poked again or goes (lines 13-14).
IdleOut(d) == idle[d] ~> run[d] = "off" \/ ~idle[d]

\* A daemon that no poke can reach, since its path was taken or its accept
\* loop ended on an error, does not stay for ever: the idle timeout takes it
\* although nothing else notices (lines 97-106 and 114-140).
UnreachableRetires(d) ==
    (run[d] = "serve" /\ (path # d \/ acc[d] = "done")) ~> run[d] = "off"

\* A daemon told to stop does, whatever its goroutines are at: the accept
\* loop is woken by the close of its listener, a sweep comes to its end
\* (lines 160-162).
ShutdownCompletes(d) == cancelled[d] ~> run[d] = "off"
=============================================================================
