---------------------------- MODULE DaemonProofs ----------------------------
EXTENDS Daemon, TLAPS

\* A hang-up changes only the call's own state and one queue.
LEMMA HangUpTypes ==
    ASSUME TypeOK, NEW c \in Callers, HangUp(c)
    PROVE  /\ peer' \in [Callers -> Daemons \union {Nobody}]
           /\ conn' \in [Callers -> {"none", "queued", "accepted", "answered", "reset"}]
           /\ stray' \in [Daemons -> BOOLEAN]
<1>1. CASE conn[c] = "queued"
  BY <1>1 DEF TypeOK, HangUp
<1>2. CASE conn[c] # "queued"
  BY <1>2 DEF TypeOK, HangUp
<1> QED
  BY <1>1, <1>2

\* So does the close of a listener.
LEMMA CloseListenerTypes ==
    ASSUME TypeOK, NEW d \in Daemons, CloseListener(d)
    PROVE  /\ path' \in Daemons \union {NoFile, Leftover}
           /\ sock' \in [Daemons -> {"none", "bound", "open", "closed"}]
           /\ stray' \in [Daemons -> BOOLEAN]
           /\ conn' \in [Callers -> {"none", "queued", "accepted", "answered", "reset"}]
<1>1. CASE sock[d] = "open"
  <2>1. /\ path' \in Daemons \union {NoFile, Leftover}
        /\ sock' \in [Daemons -> {"none", "bound", "open", "closed"}]
    BY <1>1 DEF TypeOK, CloseListener
  <2>2. stray' \in [Daemons -> BOOLEAN]
    BY <1>1 DEF TypeOK, CloseListener
  <2>3. conn' \in [Callers -> {"none", "queued", "accepted", "answered", "reset"}]
    BY <1>1 DEF TypeOK, CloseListener, Reset
  <2> QED
    BY <2>1, <2>2, <2>3
<1>2. CASE sock[d] # "open"
  BY <1>2 DEF TypeOK, CloseListener
<1> QED
  BY <1>1, <1>2

\* Every step keeps the types.
LEMMA TypeStep == TypeOK /\ [Next]_vars => TypeOK'
<1> SUFFICES ASSUME TypeOK, [Next]_vars PROVE TypeOK'
  OBVIOUS
<1> USE DaemonAssumption
    DEF TypeOK, Callers, RunState, Starting, Running, vars, server, routines, calls
<1>1. ASSUME NEW c \in Clis, CliDial(c) PROVE TypeOK'
  BY <1>1 DEF CliDial, Dial, Connectable
<1>2. ASSUME NEW c \in Clis, CliDialFails(c) PROVE TypeOK'
  BY <1>2 DEF CliDialFails
<1>3. ASSUME NEW c \in Clis, CliPokeReturns(c) PROVE TypeOK'
  BY <1>3, HangUpTypes DEF CliPokeReturns, PokeAcked, PokeFails
<1>4. ASSUME NEW c \in Clis, CliSpawn(c) PROVE TypeOK'
  BY <1>4 DEF CliSpawn, Begin
<1>5. ASSUME NEW d \in Daemons, Foreground(d) PROVE TypeOK'
  BY <1>5 DEF Foreground, Begin
<1>6. ASSUME NEW d \in Daemons, Stat(d) PROVE TypeOK'
  BY <1>6 DEF Stat, Goto
<1>7. ASSUME NEW d \in Daemons, ProbeDial(d) PROVE TypeOK'
  BY <1>7 DEF ProbeDial, Goto, Dial, Connectable
<1>8. ASSUME NEW d \in Daemons, ProbeDialFails(d) PROVE TypeOK'
  BY <1>8 DEF ProbeDialFails, Goto
<1>9. ASSUME NEW d \in Daemons, ProbeAcked(d) PROVE TypeOK'
  BY <1>9 DEF ProbeAcked, Goto, PokeAcked, HangUp
<1>10. ASSUME NEW d \in Daemons, ProbeFails(d) PROVE TypeOK'
  BY <1>10 DEF ProbeFails, Goto, PokeFails, HangUp
<1>11. ASSUME NEW d \in Daemons, RemoveStale(d) PROVE TypeOK'
  BY <1>11 DEF RemoveStale, Goto
<1>12. ASSUME NEW d \in Daemons, Bind(d) PROVE TypeOK'
  BY <1>12 DEF Bind, Goto
<1>13. ASSUME NEW d \in Daemons, BindFails(d) PROVE TypeOK'
  BY <1>13 DEF BindFails, Goto
<1>14. ASSUME NEW d \in Daemons, Listen(d) PROVE TypeOK'
  BY <1>14 DEF Listen, Goto
<1>15. ASSUME NEW d \in Daemons, Chmod(d) PROVE TypeOK'
  BY <1>15 DEF Chmod, Goto
<1>16. ASSUME NEW d \in Daemons, ChmodFails(d) PROVE TypeOK'
  BY <1>16 DEF ChmodFails, Goto
<1>17. ASSUME NEW d \in Daemons, Abort(d) PROVE TypeOK'
  BY <1>17, CloseListenerTypes DEF Abort, Goto
<1>18. ASSUME NEW d \in Daemons, MainWakes(d) PROVE TypeOK'
  BY <1>18 DEF MainWakes, Goto
<1>19. ASSUME NEW d \in Daemons, MainCloses(d) PROVE TypeOK'
  BY <1>19, CloseListenerTypes DEF MainCloses, Goto
<1>20. ASSUME NEW d \in Daemons, MainJoins(d) PROVE TypeOK'
  BY <1>20 DEF MainJoins, Goto, Joined
<1>21. ASSUME NEW d \in Daemons, Unlink(d) PROVE TypeOK'
  BY <1>21 DEF Unlink, Goto
<1>22. ASSUME NEW d \in Daemons, Exit(d) PROVE TypeOK'
  BY <1>22 DEF Exit, Gone, Reset
<1>23. ASSUME NEW d \in Daemons, Crash(d) PROVE TypeOK'
  BY <1>23 DEF Crash, Gone, Reset
<1>24. ASSUME NEW d \in Daemons, Signal(d) PROVE TypeOK'
  BY <1>24 DEF Signal
<1>25. ASSUME NEW d \in Daemons, TimePasses(d) PROVE TypeOK'
  BY <1>25 DEF TimePasses
<1>26. ASSUME NEW d \in Daemons, WatchdogExpires(d) PROVE TypeOK'
  BY <1>26 DEF WatchdogExpires, Watchdog
<1>27. ASSUME NEW d \in Daemons, WatchdogCancels(d) PROVE TypeOK'
  BY <1>27 DEF WatchdogCancels, Watchdog
<1>28. ASSUME NEW d \in Daemons, WatchdogCloses(d) PROVE TypeOK'
  BY <1>28, CloseListenerTypes DEF WatchdogCloses, Watchdog
<1>29. ASSUME NEW d \in Daemons, WatchdogStops(d) PROVE TypeOK'
  BY <1>29 DEF WatchdogStops, Watchdog
<1>30. ASSUME NEW d \in Daemons, SweepBegins(d) PROVE TypeOK'
  BY <1>30 DEF SweepBegins, Scheduler
<1>31. ASSUME NEW d \in Daemons, SweepEnds(d) PROVE TypeOK'
  BY <1>31 DEF SweepEnds, Scheduler
<1>32. ASSUME NEW d \in Daemons, SchedulerStops(d) PROVE TypeOK'
  BY <1>32 DEF SchedulerStops, Scheduler
<1>33. ASSUME NEW d \in Daemons, Accept(d) PROVE TypeOK'
  <2>1. conn' \in [Callers -> {"none", "queued", "accepted", "answered", "reset"}]
    BY <1>33 DEF Accept
  <2>2. stray' \in [Daemons -> BOOLEAN] /\ idle' \in [Daemons -> BOOLEAN]
    BY <1>33 DEF Accept
  <2> QED
    BY <1>33, <2>1, <2>2 DEF Accept
<1>34. ASSUME NEW d \in Daemons, AcceptEnds(d) PROVE TypeOK'
  BY <1>34 DEF AcceptEnds
<1>35. ASSUME NEW c \in Callers, Answer(c) PROVE TypeOK'
  BY <1>35 DEF Answer
<1>36. CASE UNCHANGED vars
  BY <1>36
<1> QED
  BY <1>1, <1>2, <1>3, <1>4, <1>5, <1>6, <1>7, <1>8, <1>9, <1>10, <1>11, <1>12, <1>13,
     <1>14, <1>15, <1>16, <1>17, <1>18, <1>19, <1>20, <1>21, <1>22, <1>23, <1>24, <1>25,
     <1>26, <1>27, <1>28, <1>29, <1>30, <1>31, <1>32, <1>33, <1>34, <1>35, <1>36
     DEF Next, ListenStep, MainStep, WatchdogStep

\* Every step keeps the main goroutine, its socket and its goroutines in order.
LEMMA LifeStep == TypeOK /\ LifeOrder /\ [Next]_vars => LifeOrder'
<1> SUFFICES ASSUME TypeOK, LifeOrder, [Next]_vars PROVE LifeOrder'
  OBVIOUS
<1> USE DaemonAssumption
    DEF TypeOK, LifeOrder, Joined, Callers, RunState, Starting, Running, vars, server,
        routines, calls
<1>1. ASSUME NEW c \in Clis, CliDial(c) PROVE LifeOrder'
  BY <1>1 DEF CliDial
<1>2. ASSUME NEW c \in Clis, CliDialFails(c) PROVE LifeOrder'
  BY <1>2 DEF CliDialFails
<1>3. ASSUME NEW c \in Clis, CliPokeReturns(c) PROVE LifeOrder'
  BY <1>3 DEF CliPokeReturns
<1>4. ASSUME NEW c \in Clis, CliSpawn(c) PROVE LifeOrder'
  BY <1>4 DEF CliSpawn, Begin
<1>5. ASSUME NEW d \in Daemons, Foreground(d) PROVE LifeOrder'
  BY <1>5 DEF Foreground, Begin
<1>6. ASSUME NEW d \in Daemons, Stat(d) PROVE LifeOrder'
  BY <1>6 DEF Stat, Goto
<1>7. ASSUME NEW d \in Daemons, ProbeDial(d) PROVE LifeOrder'
  BY <1>7 DEF ProbeDial, Goto
<1>8. ASSUME NEW d \in Daemons, ProbeDialFails(d) PROVE LifeOrder'
  BY <1>8 DEF ProbeDialFails, Goto
<1>9. ASSUME NEW d \in Daemons, ProbeAcked(d) PROVE LifeOrder'
  BY <1>9 DEF ProbeAcked, Goto
<1>10. ASSUME NEW d \in Daemons, ProbeFails(d) PROVE LifeOrder'
  BY <1>10 DEF ProbeFails, Goto
<1>11. ASSUME NEW d \in Daemons, RemoveStale(d) PROVE LifeOrder'
  BY <1>11 DEF RemoveStale, Goto
<1>12. ASSUME NEW d \in Daemons, Bind(d) PROVE LifeOrder'
  BY <1>12 DEF Bind, Goto
<1>13. ASSUME NEW d \in Daemons, BindFails(d) PROVE LifeOrder'
  BY <1>13 DEF BindFails, Goto
<1>14. ASSUME NEW d \in Daemons, Listen(d) PROVE LifeOrder'
  BY <1>14 DEF Listen, Goto
<1>15. ASSUME NEW d \in Daemons, Chmod(d) PROVE LifeOrder'
  BY <1>15 DEF Chmod, Goto
<1>16. ASSUME NEW d \in Daemons, ChmodFails(d) PROVE LifeOrder'
  BY <1>16 DEF ChmodFails, Goto
<1>17. ASSUME NEW d \in Daemons, Abort(d) PROVE LifeOrder'
  BY <1>17 DEF Abort, Goto, CloseListener
<1>18. ASSUME NEW d \in Daemons, MainWakes(d) PROVE LifeOrder'
  BY <1>18 DEF MainWakes, Goto
<1>19. ASSUME NEW d \in Daemons, MainCloses(d) PROVE LifeOrder'
  BY <1>19 DEF MainCloses, Goto, CloseListener
<1>20. ASSUME NEW d \in Daemons, MainJoins(d) PROVE LifeOrder'
  BY <1>20 DEF MainJoins, Goto
<1>21. ASSUME NEW d \in Daemons, Unlink(d) PROVE LifeOrder'
  BY <1>21 DEF Unlink, Goto
<1>22. ASSUME NEW d \in Daemons, Exit(d) PROVE LifeOrder'
  BY <1>22 DEF Exit, Gone
<1>23. ASSUME NEW d \in Daemons, Crash(d) PROVE LifeOrder'
  BY <1>23 DEF Crash, Gone
<1>24. ASSUME NEW d \in Daemons, Signal(d) PROVE LifeOrder'
  BY <1>24 DEF Signal
<1>25. ASSUME NEW d \in Daemons, TimePasses(d) PROVE LifeOrder'
  BY <1>25 DEF TimePasses
<1>26. ASSUME NEW d \in Daemons, WatchdogExpires(d) PROVE LifeOrder'
  BY <1>26 DEF WatchdogExpires, Watchdog
<1>27. ASSUME NEW d \in Daemons, WatchdogCancels(d) PROVE LifeOrder'
  BY <1>27 DEF WatchdogCancels, Watchdog
<1>28. ASSUME NEW d \in Daemons, WatchdogCloses(d) PROVE LifeOrder'
  BY <1>28 DEF WatchdogCloses, Watchdog, CloseListener
<1>29. ASSUME NEW d \in Daemons, WatchdogStops(d) PROVE LifeOrder'
  BY <1>29 DEF WatchdogStops, Watchdog
<1>30. ASSUME NEW d \in Daemons, SweepBegins(d) PROVE LifeOrder'
  BY <1>30 DEF SweepBegins, Scheduler
<1>31. ASSUME NEW d \in Daemons, SweepEnds(d) PROVE LifeOrder'
  BY <1>31 DEF SweepEnds, Scheduler
<1>32. ASSUME NEW d \in Daemons, SchedulerStops(d) PROVE LifeOrder'
  BY <1>32 DEF SchedulerStops, Scheduler
<1>33. ASSUME NEW d \in Daemons, Accept(d) PROVE LifeOrder'
  BY <1>33 DEF Accept
<1>34. ASSUME NEW d \in Daemons, AcceptEnds(d) PROVE LifeOrder'
  BY <1>34 DEF AcceptEnds
<1>35. ASSUME NEW c \in Callers, Answer(c) PROVE LifeOrder'
  BY <1>35 DEF Answer
<1>36. CASE UNCHANGED vars
  BY <1>36
<1> QED
  BY <1>1, <1>2, <1>3, <1>4, <1>5, <1>6, <1>7, <1>8, <1>9, <1>10, <1>11, <1>12,
     <1>13, <1>14, <1>15, <1>16, <1>17, <1>18, <1>19, <1>20, <1>21, <1>22, <1>23,
     <1>24, <1>25, <1>26, <1>27, <1>28, <1>29, <1>30, <1>31, <1>32, <1>33, <1>34,
     <1>35, <1>36
     DEF Next, ListenStep, MainStep, WatchdogStep

\* Inv is what all proofs about Daemon rest on.
Inv == TypeOK /\ LifeOrder

\* Inv holds before anything has started.
LEMMA InitInv == Init => Inv
  BY DaemonAssumption DEF Init, Inv, TypeOK, LifeOrder, Joined, RunState, Starting, Running, Callers

\* Every step of Daemon keeps Inv.
LEMMA NextInv == Inv /\ [Next]_vars => Inv'
  BY TypeStep, LifeStep DEF Inv

\* Inv is an invariant of Daemon.
THEOREM Invariance == Spec => []Inv
  BY InitInv, NextInv, PTL DEF Spec

\* The variables hold values of their types.
THEOREM TypeCorrect == Spec => []TypeOK
<1>1. Inv => TypeOK
  BY DEF Inv
<1> QED
  BY <1>1, Invariance, PTL

\* Where Run and listen are says what has become of the socket, the context and
\* the goroutines.
THEOREM LivesInOrder == Spec => []LifeOrder
<1>1. Inv => LifeOrder
  BY DEF Inv
<1> QED
  BY <1>1, Invariance, PTL

\* While the path refers to a daemon's socket, socket and process live.
THEOREM NothingLeftBehind == Spec => []NoSocketLeftBehind
<1>1. Inv => NoSocketLeftBehind
  BY DEF Inv, TypeOK, LifeOrder, NoSocketLeftBehind
<1> QED
  BY <1>1, Invariance, PTL

\* In an orderly run the path stays the serving daemon's.
LEMMA OrderlyStep ==
    Inv /\ Orderly /\ [Next /\ OneMoves' /\ AnswersInTime]_vars => Orderly'
<1> SUFFICES ASSUME Inv, Orderly, [Next /\ OneMoves' /\ AnswersInTime]_vars
             PROVE  Orderly'
  OBVIOUS
<1> USE DaemonAssumption
    DEF Inv, TypeOK, LifeOrder, Orderly, OneMoves, Moving, Phase, Joined, Callers, RunState,
        Starting, Running, vars, server, routines, calls
<1>1. ASSUME NEW c \in Clis, CliDial(c), OneMoves' PROVE Orderly'
  BY <1>1 DEF CliDial, Dial, Connectable
<1>2. ASSUME NEW c \in Clis, CliDialFails(c), OneMoves' PROVE Orderly'
  BY <1>2 DEF CliDialFails
<1>3. ASSUME NEW c \in Clis, CliPokeReturns(c), OneMoves' PROVE Orderly'
  BY <1>3 DEF CliPokeReturns, PokeAcked, PokeFails, HangUp
<1>4. ASSUME NEW c \in Clis, CliSpawn(c), OneMoves' PROVE Orderly'
  BY <1>4 DEF CliSpawn, Begin
<1>5. ASSUME NEW d \in Daemons, Foreground(d), OneMoves' PROVE Orderly'
  BY <1>5 DEF Foreground, Begin
<1>6. ASSUME NEW d \in Daemons, Stat(d), OneMoves' PROVE Orderly'
  BY <1>6 DEF Stat, Goto
<1>7. ASSUME NEW d \in Daemons, ProbeDial(d), OneMoves' PROVE Orderly'
  BY <1>7 DEF ProbeDial, Goto, Dial, Connectable
<1>8. ASSUME NEW d \in Daemons, ProbeDialFails(d), OneMoves' PROVE Orderly'
  BY <1>8 DEF ProbeDialFails, Goto, Connectable
<1>9. ASSUME NEW d \in Daemons, ProbeAcked(d), OneMoves' PROVE Orderly'
  BY <1>9 DEF ProbeAcked, Goto, PokeAcked, HangUp
<1>10. ASSUME NEW d \in Daemons, ProbeFails(d), OneMoves', AnswersInTime PROVE Orderly'
  <2>1. conn[d] = "reset"
    BY <1>10 DEF AnswersInTime
  <2> QED
    BY <1>10, <2>1 DEF ProbeFails, Goto, PokeFails, HangUp
<1>11. ASSUME NEW d \in Daemons, RemoveStale(d), OneMoves' PROVE Orderly'
  BY <1>11 DEF RemoveStale, Goto
<1>12. ASSUME NEW d \in Daemons, Bind(d), OneMoves' PROVE Orderly'
  BY <1>12 DEF Bind, Goto
<1>13. ASSUME NEW d \in Daemons, BindFails(d), OneMoves' PROVE Orderly'
  BY <1>13 DEF BindFails, Goto
<1>14. ASSUME NEW d \in Daemons, Listen(d), OneMoves' PROVE Orderly'
  BY <1>14 DEF Listen, Goto
<1>15. ASSUME NEW d \in Daemons, Chmod(d), OneMoves' PROVE Orderly'
  BY <1>15 DEF Chmod, Goto
<1>16. ASSUME NEW d \in Daemons, ChmodFails(d), OneMoves' PROVE Orderly'
  BY <1>16 DEF ChmodFails, Goto
<1>17. ASSUME NEW d \in Daemons, Abort(d), OneMoves' PROVE Orderly'
  BY <1>17 DEF Abort, Goto, CloseListener, Reset
<1>18. ASSUME NEW d \in Daemons, MainWakes(d), OneMoves' PROVE Orderly'
  BY <1>18 DEF MainWakes, Goto
<1>19. ASSUME NEW d \in Daemons, MainCloses(d), OneMoves' PROVE Orderly'
  BY <1>19 DEF MainCloses, Goto, CloseListener, Reset
<1>20. ASSUME NEW d \in Daemons, MainJoins(d), OneMoves' PROVE Orderly'
  BY <1>20 DEF MainJoins, Goto
<1>21. ASSUME NEW d \in Daemons, Unlink(d), OneMoves' PROVE Orderly'
  BY <1>21 DEF Unlink, Goto
<1>22. ASSUME NEW d \in Daemons, Exit(d), OneMoves' PROVE Orderly'
  BY <1>22 DEF Exit, Gone, Reset
<1>23. ASSUME NEW d \in Daemons, Crash(d), OneMoves' PROVE Orderly'
  BY <1>23 DEF Crash, Gone, Reset
<1>24. ASSUME NEW d \in Daemons, Signal(d), OneMoves' PROVE Orderly'
  BY <1>24 DEF Signal
<1>25. ASSUME NEW d \in Daemons, TimePasses(d), OneMoves' PROVE Orderly'
  BY <1>25 DEF TimePasses
<1>26. ASSUME NEW d \in Daemons, WatchdogExpires(d), OneMoves' PROVE Orderly'
  BY <1>26 DEF WatchdogExpires, Watchdog
<1>27. ASSUME NEW d \in Daemons, WatchdogCancels(d), OneMoves' PROVE Orderly'
  BY <1>27 DEF WatchdogCancels, Watchdog
<1>28. ASSUME NEW d \in Daemons, WatchdogCloses(d), OneMoves' PROVE Orderly'
  BY <1>28 DEF WatchdogCloses, Watchdog, CloseListener, Reset
<1>29. ASSUME NEW d \in Daemons, WatchdogStops(d), OneMoves' PROVE Orderly'
  BY <1>29 DEF WatchdogStops, Watchdog
<1>30. ASSUME NEW d \in Daemons, SweepBegins(d), OneMoves' PROVE Orderly'
  BY <1>30 DEF SweepBegins, Scheduler
<1>31. ASSUME NEW d \in Daemons, SweepEnds(d), OneMoves' PROVE Orderly'
  BY <1>31 DEF SweepEnds, Scheduler
<1>32. ASSUME NEW d \in Daemons, SchedulerStops(d), OneMoves' PROVE Orderly'
  BY <1>32 DEF SchedulerStops, Scheduler
<1>33. ASSUME NEW d \in Daemons, Accept(d), OneMoves' PROVE Orderly'
  BY <1>33 DEF Accept
<1>34. ASSUME NEW d \in Daemons, AcceptEnds(d), OneMoves' PROVE Orderly'
  BY <1>34 DEF AcceptEnds
<1>35. ASSUME NEW c \in Callers, Answer(c), OneMoves' PROVE Orderly'
  BY <1>35 DEF Answer
<1>36. CASE UNCHANGED vars
  BY <1>36
<1> QED
  BY <1>1, <1>2, <1>3, <1>4, <1>5, <1>6, <1>7, <1>8, <1>9, <1>10, <1>11, <1>12,
     <1>13, <1>14, <1>15, <1>16, <1>17, <1>18, <1>19, <1>20, <1>21, <1>22, <1>23,
     <1>24, <1>25, <1>26, <1>27, <1>28, <1>29, <1>30, <1>31, <1>32, <1>33, <1>34,
     <1>35, <1>36
     DEF Next, ListenStep, MainStep, WatchdogStep

\* Starts and stops that do not overlap, with daemons that answer in time, keep
\* the path with the one that serves.
THEOREM StaysOrderly == OrderlySpec => []Orderly
<1>1. Init => Inv /\ Orderly
  BY InitInv, DaemonAssumption DEF Init, Orderly, OneMoves, Moving, Phase, Starting
<1>2. Inv /\ Orderly /\ [Next /\ OneMoves' /\ AnswersInTime]_vars => (Inv /\ Orderly)'
  BY NextInv, OrderlyStep
<1> QED
  BY <1>1, <1>2, PTL DEF OrderlySpec

\* "Only one daemon can hold a given SocketPath at a time" is true when starts
\* and stops do not overlap and a reached daemon answers in time.
THEOREM OneServesIfOrderly == OrderlySpec => []AtMostOneServing
<1>1. Orderly => AtMostOneServing
  BY DEF Orderly, AtMostOneServing, Serving, Phase
<1> QED
  BY <1>1, StaysOrderly, PTL

\* How the mapped functions change when one process moves.
Others(d) == \A e \in Daemons \ {d} :
    Phase(e)' = Phase(e) /\ ((sock[e] # "none")' = (sock[e] # "none"))

\* A process that moves from one phase to another alone makes the lease's Move.
LEMMA PhaseMoves ==
    ASSUME NEW d \in Daemons, NEW from, NEW to,
           Phase(d) \in from, Phase(d)' = to, Others(d)
    PROVE  Lease!Move(d, from, to)
  BY DEF Lease!Move, Others

\* A step of d that keeps its phase keeps them all.
LEMMA PhasesStay ==
    ASSUME NEW d \in Daemons, Phase(d)' = Phase(d), Others(d)
    PROVE  [e \in Daemons |-> Phase(e)]' = [e \in Daemons |-> Phase(e)]
  BY DEF Others

\* A step of d that neither makes nor drops a socket keeps all claims.
LEMMA ClaimsStay ==
    ASSUME NEW d \in Daemons, (sock[d] # "none")' = (sock[d] # "none"), Others(d)
    PROVE  [e \in Daemons |-> sock[e] # "none"]' = [e \in Daemons |-> sock[e] # "none"]
  BY DEF Others

\* A step of d that makes or drops its socket changes its claim only.
LEMMA ClaimMoves ==
    ASSUME NEW d \in Daemons, NEW b \in BOOLEAN, (sock[d] # "none")' = b, Others(d)
    PROVE  [e \in Daemons |-> sock[e] # "none"]'
               = [[e \in Daemons |-> sock[e] # "none"] EXCEPT ![d] = b]
  BY DEF Others

\* Each step of a daemon is a step of the lease or leaves it alone.
LEMMA LeaseStep == Inv /\ [Next]_vars => [Lease!Next]_(Lease!vars)
<1> SUFFICES ASSUME Inv, [Next]_vars PROVE [Lease!Next]_(Lease!vars)
  OBVIOUS
<1> USE DaemonAssumption
    DEF vars, server, routines, calls, Lease!vars
<1>1. ASSUME NEW c \in Clis, CliDial(c) PROVE [Lease!Next]_(Lease!vars)
  BY <1>1 DEF CliDial, Inv, TypeOK, LifeOrder, Joined, Phase, RunState, Starting, Running
<1>2. ASSUME NEW c \in Clis, CliDialFails(c) PROVE [Lease!Next]_(Lease!vars)
  BY <1>2 DEF CliDialFails, Inv, TypeOK, LifeOrder, Joined, Phase, RunState, Starting, Running
<1>3. ASSUME NEW c \in Clis, CliPokeReturns(c) PROVE [Lease!Next]_(Lease!vars)
  BY <1>3 DEF CliPokeReturns, Inv, TypeOK, LifeOrder, Joined, Phase, RunState, Starting, Running
<1>4. ASSUME NEW c \in Clis, CliSpawn(c) PROVE [Lease!Next]_(Lease!vars)
  <2>1. ASSUME NEW d \in Daemons, Begin(d) PROVE [Lease!Next]_(Lease!vars)
    <3>1. /\ Phase(d) \in {"off"} /\ Phase(d)' = "starting" /\ Others(d)
          /\ path' = path /\ sock' = sock
      BY <2>1 DEF Begin, Others, Inv, TypeOK, LifeOrder, Joined, Phase, RunState, Starting,
             Running
    <3> QED
      BY <3>1, PhaseMoves, ClaimsStay DEF Lease!Next, Lease!Start
  <2>2. CASE UNCHANGED <<path, run, sock, cancelled>>
    BY <2>2 DEF Phase
  <2> QED
    BY <1>4, <2>1, <2>2 DEF CliSpawn
<1>5. ASSUME NEW d \in Daemons, Foreground(d) PROVE [Lease!Next]_(Lease!vars)
  <2>1. /\ Phase(d) \in {"off"} /\ Phase(d)' = "starting" /\ Others(d)
        /\ path' = path /\ sock' = sock
    BY <1>5 DEF Foreground, Begin, Others, Inv, TypeOK, LifeOrder, Joined, Phase, RunState,
           Starting, Running
  <2> QED
    BY <2>1, PhaseMoves, ClaimsStay DEF Lease!Next, Lease!Start
<1>6. ASSUME NEW d \in Daemons, Stat(d) PROVE [Lease!Next]_(Lease!vars)
  BY <1>6 DEF Stat, Goto, Inv, TypeOK, LifeOrder, Joined, Phase, RunState, Starting, Running
<1>7. ASSUME NEW d \in Daemons, ProbeDial(d) PROVE [Lease!Next]_(Lease!vars)
  BY <1>7 DEF ProbeDial, Goto, Inv, TypeOK, LifeOrder, Joined, Phase, RunState, Starting,
         Running
<1>8. ASSUME NEW d \in Daemons, ProbeDialFails(d) PROVE [Lease!Next]_(Lease!vars)
  BY <1>8 DEF ProbeDialFails, Goto, Inv, TypeOK, LifeOrder, Joined, Phase, RunState, Starting,
         Running
<1>9. ASSUME NEW d \in Daemons, ProbeAcked(d) PROVE [Lease!Next]_(Lease!vars)
  <2>1. /\ Phase(d) \in {"starting", "serving"} /\ Phase(d)' = "stopping" /\ Others(d)
        /\ path' = path /\ sock' = sock
    BY <1>9 DEF ProbeAcked, Goto, Others, Inv, TypeOK, LifeOrder, Joined, Phase, RunState,
           Starting, Running
  <2> QED
    BY <2>1, PhaseMoves, ClaimsStay DEF Lease!Next, Lease!Stop
<1>10. ASSUME NEW d \in Daemons, ProbeFails(d) PROVE [Lease!Next]_(Lease!vars)
  BY <1>10 DEF ProbeFails, Goto, Inv, TypeOK, LifeOrder, Joined, Phase, RunState, Starting,
         Running
<1>11. ASSUME NEW d \in Daemons, RemoveStale(d) PROVE [Lease!Next]_(Lease!vars)
  <2>1. Phase(d) = "starting" /\ Others(d) /\ sock' = sock /\ path' = NoFile
    BY <1>11 DEF RemoveStale, Goto, Others, Inv, TypeOK, LifeOrder, Joined, Phase, RunState,
           Starting, Running
  <2>2. CASE path = NoFile
    <3>1. Phase(d) \in {"starting", "serving"} /\ Phase(d)' = "stopping"
      BY <1>11, <2>2 DEF RemoveStale, Goto, Inv, TypeOK, LifeOrder, Joined, Phase, RunState,
             Starting, Running
    <3> QED
      BY <2>1, <2>2, <3>1, PhaseMoves, ClaimsStay DEF Lease!Next, Lease!Stop
  <2>3. CASE path # NoFile
    <3>1. Phase(d)' = Phase(d)
      BY <1>11, <2>3 DEF RemoveStale, Goto, Inv, TypeOK, LifeOrder, Joined, Phase, RunState,
             Starting, Running
    <3> QED
      BY <2>1, <3>1, PhasesStay, ClaimsStay DEF Lease!Next, Lease!Clear
  <2> QED
    BY <2>2, <2>3
<1>12. ASSUME NEW d \in Daemons, Bind(d) PROVE [Lease!Next]_(Lease!vars)
  <2>1. /\ Phase(d) = "starting" /\ Phase(d)' = Phase(d) /\ Others(d)
        /\ sock[d] = "none" /\ (sock[d] # "none")' = TRUE
        /\ path = NoFile /\ path' = d
    BY <1>12 DEF Bind, Goto, Others, Inv, TypeOK, LifeOrder, Joined, Phase, RunState, Starting,
           Running
  <2> QED
    BY <2>1, PhasesStay, ClaimMoves DEF Lease!Next, Lease!Claim
<1>13. ASSUME NEW d \in Daemons, BindFails(d) PROVE [Lease!Next]_(Lease!vars)
  <2>1. /\ Phase(d) \in {"starting", "serving"} /\ Phase(d)' = "stopping" /\ Others(d)
        /\ path' = path /\ sock' = sock
    BY <1>13 DEF BindFails, Goto, Others, Inv, TypeOK, LifeOrder, Joined, Phase, RunState,
           Starting, Running
  <2> QED
    BY <2>1, PhaseMoves, ClaimsStay DEF Lease!Next, Lease!Stop
<1>14. ASSUME NEW d \in Daemons, Listen(d) PROVE [Lease!Next]_(Lease!vars)
  BY <1>14 DEF Listen, Goto, Inv, TypeOK, LifeOrder, Joined, Phase, RunState, Starting, Running
<1>15. ASSUME NEW d \in Daemons, Chmod(d) PROVE [Lease!Next]_(Lease!vars)
  <2>1. /\ Phase(d) = "starting" /\ sock[d] # "none" /\ Others(d)
        /\ path' = path /\ sock' = sock
    BY <1>15 DEF Chmod, Goto, Others, Inv, TypeOK, LifeOrder, Joined, Phase, RunState,
           Starting, Running
  <2>2. Phase(d)' = IF cancelled[d] THEN "stopping" ELSE "serving"
    BY <1>15 DEF Chmod, Goto, Inv, TypeOK, LifeOrder, Joined, Phase, RunState, Starting, Running
  <2>3. CASE cancelled[d]
    BY <2>1, <2>2, <2>3, PhaseMoves, ClaimsStay DEF Lease!Next, Lease!Stop
  <2>4. CASE ~cancelled[d]
    <3>1. Phase(d) \in {"starting"} /\ Phase(d)' = "serving"
      BY <2>1, <2>2, <2>4
    <3>2. Lease!Move(d, {"starting"}, "serving")
      BY <2>1, <3>1, PhaseMoves
    <3>3. [e \in Daemons |-> sock[e] # "none"][d]
      BY <2>1
    <3> QED
      BY <2>1, <3>2, <3>3, ClaimsStay DEF Lease!Next, Lease!Serve
  <2> QED
    BY <2>3, <2>4
<1>16. ASSUME NEW d \in Daemons, ChmodFails(d) PROVE [Lease!Next]_(Lease!vars)
  <2>1. /\ Phase(d) \in {"starting", "serving"} /\ Phase(d)' = "stopping" /\ Others(d)
        /\ path' = path /\ sock' = sock
    BY <1>16 DEF ChmodFails, Goto, Others, Inv, TypeOK, LifeOrder, Joined, Phase, RunState,
           Starting, Running
  <2> QED
    BY <2>1, PhaseMoves, ClaimsStay DEF Lease!Next, Lease!Stop
<1>17. ASSUME NEW d \in Daemons, Abort(d) PROVE [Lease!Next]_(Lease!vars)
  <2>1. /\ Phase(d) = "stopping" /\ Phase(d)' = Phase(d) /\ Others(d)
        /\ (sock[d] # "none")' = (sock[d] # "none")
    BY <1>17 DEF Abort, Goto, CloseListener, Others, Inv, TypeOK, LifeOrder, Joined, Phase,
           RunState, Starting, Running
  <2>2. path' \in {path, NoFile}
    BY <1>17 DEF Abort, Goto, CloseListener
  <2> QED
    BY <2>1, <2>2, PhasesStay, ClaimsStay DEF Lease!Next, Lease!Clear
<1>18. ASSUME NEW d \in Daemons, MainWakes(d) PROVE [Lease!Next]_(Lease!vars)
  BY <1>18 DEF MainWakes, Goto, Inv, TypeOK, LifeOrder, Joined, Phase, RunState, Starting,
         Running
<1>19. ASSUME NEW d \in Daemons, MainCloses(d) PROVE [Lease!Next]_(Lease!vars)
  <2>1. /\ Phase(d) = "stopping" /\ Phase(d)' = Phase(d) /\ Others(d)
        /\ (sock[d] # "none")' = (sock[d] # "none")
    BY <1>19 DEF MainCloses, Goto, CloseListener, Others, Inv, TypeOK, LifeOrder, Joined,
           Phase, RunState, Starting, Running
  <2>2. path' \in {path, NoFile}
    BY <1>19 DEF MainCloses, Goto, CloseListener
  <2> QED
    BY <2>1, <2>2, PhasesStay, ClaimsStay DEF Lease!Next, Lease!Clear
<1>20. ASSUME NEW d \in Daemons, MainJoins(d) PROVE [Lease!Next]_(Lease!vars)
  BY <1>20 DEF MainJoins, Goto, Inv, TypeOK, LifeOrder, Joined, Phase, RunState, Starting,
         Running
<1>21. ASSUME NEW d \in Daemons, Unlink(d) PROVE [Lease!Next]_(Lease!vars)
  <2>1. /\ Phase(d) = "stopping" /\ Phase(d)' = Phase(d) /\ Others(d)
        /\ sock' = sock /\ path' = NoFile
    BY <1>21 DEF Unlink, Goto, Others, Inv, TypeOK, LifeOrder, Joined, Phase, RunState,
           Starting, Running
  <2> QED
    BY <2>1, PhasesStay, ClaimsStay DEF Lease!Next, Lease!Clear
<1>22. ASSUME NEW d \in Daemons, Exit(d) PROVE [Lease!Next]_(Lease!vars)
  <2>1. /\ Phase(d) \in {"stopping"} /\ Phase(d)' = "off" /\ Others(d)
        /\ (sock[d] # "none")' = FALSE
        /\ path # d /\ path' = path
    BY <1>22 DEF Exit, Gone, Others, Inv, TypeOK, LifeOrder, Joined, Phase, RunState, Starting,
           Running
  <2>2. Lease!Move(d, {"stopping"}, "off")
    BY <2>1, PhaseMoves
  <2>3. [e \in Daemons |-> sock[e] # "none"]'
            = [[e \in Daemons |-> sock[e] # "none"] EXCEPT ![d] = FALSE]
    BY <2>1, ClaimMoves
  <2> QED
    BY <2>2, <2>3, <2>1 DEF Lease!Next, Lease!Exit
<1>23. ASSUME NEW d \in Daemons, Crash(d) PROVE [Lease!Next]_(Lease!vars)
  <2>1. /\ Phase(d) \in {"starting", "serving", "stopping"}
        /\ Phase(d)' = "off" /\ Others(d)
        /\ (sock[d] # "none")' = FALSE
        /\ path' = IF path = d THEN Leftover ELSE path
    BY <1>23 DEF Crash, Gone, Others, Inv, TypeOK, LifeOrder, Joined, Phase, RunState,
           Starting, Running
  <2>2. Lease!Move(d, {"starting", "serving", "stopping"}, "off")
    BY <2>1, PhaseMoves
  <2>3. [e \in Daemons |-> sock[e] # "none"]'
            = [[e \in Daemons |-> sock[e] # "none"] EXCEPT ![d] = FALSE]
    BY <2>1, ClaimMoves
  <2> QED
    BY <2>2, <2>3, <2>1 DEF Lease!Next, Lease!Crash
<1>24. ASSUME NEW d \in Daemons, Signal(d) PROVE [Lease!Next]_(Lease!vars)
  <2>1. path' = path /\ sock' = sock /\ Others(d)
    BY <1>24 DEF Signal, Others, Inv, TypeOK, LifeOrder, Joined, Phase, RunState, Starting,
           Running
  <2>2. CASE run[d] = "serve"
    <3>1. Phase(d) \in {"starting", "serving"} /\ Phase(d)' = "stopping"
      BY <1>24, <2>2 DEF Signal, Inv, TypeOK, LifeOrder, Joined, Phase, RunState, Starting,
             Running
    <3> QED
      BY <2>1, <3>1, PhaseMoves, ClaimsStay DEF Lease!Next, Lease!Stop
  <2>3. CASE run[d] # "serve"
    <3>1. Phase(d)' = Phase(d)
      BY <1>24, <2>3 DEF Signal, Inv, TypeOK, LifeOrder, Joined, Phase, RunState, Starting,
             Running
    <3> QED
      BY <2>1, <3>1, PhasesStay, ClaimsStay
  <2> QED
    BY <2>2, <2>3
<1>25. ASSUME NEW d \in Daemons, TimePasses(d) PROVE [Lease!Next]_(Lease!vars)
  BY <1>25 DEF TimePasses, Inv, TypeOK, LifeOrder, Joined, Phase, RunState, Starting, Running
<1>26. ASSUME NEW d \in Daemons, WatchdogExpires(d) PROVE [Lease!Next]_(Lease!vars)
  BY <1>26 DEF WatchdogExpires, Watchdog, Inv, TypeOK, LifeOrder, Joined, Phase, RunState,
         Starting, Running
<1>27. ASSUME NEW d \in Daemons, WatchdogCancels(d) PROVE [Lease!Next]_(Lease!vars)
  BY <1>27 DEF WatchdogCancels, Watchdog, Inv, TypeOK, LifeOrder, Joined, Phase, RunState,
         Starting, Running
<1>28. ASSUME NEW d \in Daemons, WatchdogCloses(d) PROVE [Lease!Next]_(Lease!vars)
  <2>1. /\ Phase(d) = "stopping" /\ Phase(d)' = Phase(d) /\ Others(d)
        /\ (sock[d] # "none")' = (sock[d] # "none")
    BY <1>28 DEF WatchdogCloses, Watchdog, CloseListener, Others, Inv, TypeOK, LifeOrder,
           Joined, Phase, RunState, Starting, Running
  <2>2. path' \in {path, NoFile}
    BY <1>28 DEF WatchdogCloses, Watchdog, CloseListener
  <2> QED
    BY <2>1, <2>2, PhasesStay, ClaimsStay DEF Lease!Next, Lease!Clear
<1>29. ASSUME NEW d \in Daemons, WatchdogStops(d) PROVE [Lease!Next]_(Lease!vars)
  BY <1>29 DEF WatchdogStops, Watchdog, Inv, TypeOK, LifeOrder, Joined, Phase, RunState,
         Starting, Running
<1>30. ASSUME NEW d \in Daemons, SweepBegins(d) PROVE [Lease!Next]_(Lease!vars)
  BY <1>30 DEF SweepBegins, Scheduler, Inv, TypeOK, LifeOrder, Joined, Phase, RunState,
         Starting, Running
<1>31. ASSUME NEW d \in Daemons, SweepEnds(d) PROVE [Lease!Next]_(Lease!vars)
  BY <1>31 DEF SweepEnds, Scheduler, Inv, TypeOK, LifeOrder, Joined, Phase, RunState, Starting,
         Running
<1>32. ASSUME NEW d \in Daemons, SchedulerStops(d) PROVE [Lease!Next]_(Lease!vars)
  BY <1>32 DEF SchedulerStops, Scheduler, Inv, TypeOK, LifeOrder, Joined, Phase, RunState,
         Starting, Running
<1>33. ASSUME NEW d \in Daemons, Accept(d) PROVE [Lease!Next]_(Lease!vars)
  BY <1>33 DEF Accept, Inv, TypeOK, LifeOrder, Joined, Phase, RunState, Starting, Running
<1>34. ASSUME NEW d \in Daemons, AcceptEnds(d) PROVE [Lease!Next]_(Lease!vars)
  BY <1>34 DEF AcceptEnds, Inv, TypeOK, LifeOrder, Joined, Phase, RunState, Starting, Running
<1>35. ASSUME NEW c \in Callers, Answer(c) PROVE [Lease!Next]_(Lease!vars)
  BY <1>35 DEF Answer, Inv, TypeOK, LifeOrder, Joined, Phase, RunState, Starting, Running
<1>36. CASE UNCHANGED vars
  BY <1>36 DEF Phase
<1> QED
  BY <1>1, <1>2, <1>3, <1>4, <1>5, <1>6, <1>7, <1>8, <1>9, <1>10, <1>11, <1>12,
     <1>13, <1>14, <1>15, <1>16, <1>17, <1>18, <1>19, <1>20, <1>21, <1>22, <1>23,
     <1>24, <1>25, <1>26, <1>27, <1>28, <1>29, <1>30, <1>31, <1>32, <1>33, <1>34,
     <1>35, <1>36
     DEF Next, ListenStep, MainStep, WatchdogStep

\* The daemons implement the lease.
THEOREM Implements == Spec => LeaseSpec
<1>1. Init => Lease!Init
  <2> SUFFICES ASSUME Init PROVE Lease!Init
    OBVIOUS
  <2>1. \A d \in Daemons : Phase(d) = "off" /\ sock[d] = "none"
    BY DEF Init, Phase, Starting
  <2>2. /\ [d \in Daemons |-> Phase(d)] = [d \in Daemons |-> "off"]
        /\ [d \in Daemons |-> sock[d] # "none"] = [d \in Daemons |-> FALSE]
    BY <2>1
  <2> QED
    BY <2>2 DEF Init, Lease!Init
<1> QED
  BY <1>1, Invariance, LeaseStep, PTL DEF Spec, LeaseSpec, Lease!Spec
=============================================================================
