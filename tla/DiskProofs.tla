----------------------------- MODULE DiskProofs -----------------------------
(***************************************************************************)
(* For any disk cache, any sweeps of any processes, and builds that use    *)
(* any entry at any time: what a sweep spares, what it leaves, and in what *)
(* order it goes.                                                          *)
(***************************************************************************)
EXTENDS DiskSweep, TLAPS

(***************************************************************************)
(* Types.                                                                  *)
(***************************************************************************)
\* FileLock's own types, step by step.
LEMMA LockTypes ==
    ASSUME Lock!TypeOK, [Lock!Next]_lockVars
    PROVE  Lock!TypeOK'
<1> USE DiskAssumption DEF Lock!TypeOK, Lock!To, Lock!Release
<1>1. ASSUME NEW s \in Sweeps, Lock!LockStep(s) PROVE Lock!TypeOK'
  BY <1>1 DEF Lock!LockStep, Lock!OpenFile, Lock!SetLk, Lock!SetLkFails, Lock!Unlck,
              Lock!CloseFile
<1>2. ASSUME NEW p \in Procs, Lock!Die(p) PROVE Lock!TypeOK'
  BY <1>2 DEF Lock!Die
<1>3. CASE UNCHANGED lockVars
  BY <1>3 DEF lockVars
<1> QED
  BY <1>1, <1>2, <1>3 DEF Lock!Next

\* Every step of a sweep or a build is a step of the lock or leaves it alone.
LEMMA LockStepOf == [Next]_vars => [Lock!Next]_lockVars
<1> SUFFICES ASSUME [Next]_vars PROVE [Lock!Next]_lockVars
  OBVIOUS
<1>1. ASSUME NEW s \in Sweeps, SweepStep(s) PROVE [Lock!Next]_lockVars
  <2>1. ASSUME Begin(s) \/ Acquire(s) \/ LockHeld(s) \/ Unlock(s) \/ Return(s)
        PROVE  Lock!LockStep(s)
    BY <2>1 DEF Begin, Acquire, LockHeld, Unlock, Return, Lock!LockStep
  <2>2. ASSUME WalkEnds(s) \/ LoopEnds(s) \/ Stop(s) PROVE UNCHANGED lockVars
    BY <2>2 DEF WalkEnds, LoopEnds, Stop
  <2>3. ASSUME NEW f \in Files, Visit(s, f) PROVE UNCHANGED lockVars
    BY <2>3 DEF Visit
  <2>4. ASSUME NEW c \in cand[s], DryRunReports(s, c) \/ Restat(s, c) \/ Remove(s, c)
        PROVE  UNCHANGED lockVars
    BY <2>4 DEF DryRunReports, Restat, Remove
  <2> QED
    BY <1>1, <2>1, <2>2, <2>3, <2>4 DEF SweepStep, Lock!Next
<1>2. ASSUME NEW p \in Procs, Die(p) PROVE [Lock!Next]_lockVars
  BY <1>2 DEF Die, Lock!Next
<1>3. ASSUME NEW f \in Files, Use(f) PROVE UNCHANGED lockVars
  BY <1>3 DEF Use
<1>4. CASE Tick \/ UNCHANGED vars
  BY <1>4 DEF Tick, vars
<1> QED
  BY <1>1, <1>2, <1>3, <1>4 DEF Next

\* What a sweep that has ended knows is gone, and nothing else changes.
LEMMA ClearOf ==
    ASSUME TypeOK, NEW ended \in SUBSET Sweeps, NEW to \in {"idle", "close"}, Clear(ended, to)
    PROVE  /\ pc' = [s \in Sweeps |-> IF s \in ended THEN to ELSE pc[s]]
           /\ stopped' \in [Sweeps -> BOOLEAN] /\ errors' \in [Sweeps -> BOOLEAN]
           /\ cutoff' \in [Sweeps -> Int]
           /\ \A s \in Sweeps :
                 IF s \in ended
                 THEN /\ cutoff'[s] = 0 /\ todo'[s] = {} /\ cand'[s] = {} /\ gone'[s] = {}
                      /\ used'[s] = {}
                 ELSE /\ cutoff'[s] = cutoff[s] /\ todo'[s] = todo[s] /\ cand'[s] = cand[s]
                      /\ gone'[s] = gone[s] /\ used'[s] = used[s]
                      /\ stopped'[s] = stopped[s] /\ errors'[s] = errors[s]
           /\ UNCHANGED cache
<1> USE DEF TypeOK, Clear
<1>1. stopped' \in [Sweeps -> BOOLEAN]
  BY Zenon
<1>2. errors' \in [Sweeps -> BOOLEAN]
  BY Zenon
<1>3. cutoff' \in [Sweeps -> Int]
  OBVIOUS
<1>4. \A s \in Sweeps :
          /\ stopped'[s] = (s \notin ended /\ stopped[s])
          /\ errors'[s] = (s \notin ended /\ errors[s])
  BY Zenon
<1>5. \A s \in Sweeps : s \notin ended => stopped'[s] = stopped[s] /\ errors'[s] = errors[s]
  BY <1>4
<1>6. \A s \in Sweeps :
          IF s \in ended
          THEN /\ cutoff'[s] = 0 /\ todo'[s] = {} /\ cand'[s] = {} /\ gone'[s] = {}
               /\ used'[s] = {}
          ELSE /\ cutoff'[s] = cutoff[s] /\ todo'[s] = todo[s] /\ cand'[s] = cand[s]
               /\ gone'[s] = gone[s] /\ used'[s] = used[s]
  OBVIOUS
<1> QED
  BY <1>1, <1>2, <1>3, <1>5, <1>6

\* So the types stay as they are.
LEMMA ClearTypes ==
    ASSUME TypeOK, NEW ended \in SUBSET Sweeps, NEW to \in {"idle", "close"}, Clear(ended, to),
           Lock!TypeOK'
    PROVE  TypeOK'
<1>1. pc' \in [Sweeps -> {"idle", "lock", "scan", "delete", "remove", "done", "cut", "close"}]
  BY ClearOf DEF TypeOK
<1>2. todo' \in [Sweeps -> SUBSET Files] /\ cand' \in [Sweeps -> SUBSET Candidate]
  BY DEF TypeOK, Clear
<1>3. gone' \in [Sweeps -> SUBSET Candidate] /\ used' \in [Sweeps -> SUBSET Files]
  BY DEF TypeOK, Clear
<1> QED
  BY <1>1, <1>2, <1>3, ClearOf DEF TypeOK, cache

\* Every step keeps the types.
LEMMA TypeStep == TypeOK /\ [Next]_vars => TypeOK'
<1> SUFFICES ASSUME TypeOK, [Next]_vars PROVE TypeOK'
  OBVIOUS
<1>0. Lock!TypeOK'
  BY LockStepOf, LockTypes DEF TypeOK
<1>1. ASSUME NEW s \in Sweeps, LockHeld(s) \/ Unlock(s) PROVE TypeOK'
  BY <1>0, <1>1, ClearTypes DEF LockHeld, Unlock
<1>2. ASSUME NEW p \in Procs, Die(p) PROVE TypeOK'
  BY <1>0, <1>2, ClearTypes DEF Die
<1> USE <1>0, DiskAssumption DEF TypeOK, Time, cache, sweepVars, lockVars, Goto
<1>3. CASE Tick
  BY <1>3 DEF Tick
<1>4. ASSUME NEW f \in Files, Use(f) PROVE TypeOK'
  BY <1>4 DEF Use
<1>5. ASSUME NEW s \in Sweeps, Begin(s) \/ Return(s) PROVE TypeOK'
  BY <1>5 DEF Begin, Return
<1>6. ASSUME NEW s \in Sweeps, Acquire(s) PROVE TypeOK'
  BY <1>6 DEF Acquire
<1>7. ASSUME NEW s \in Sweeps, WalkEnds(s) \/ LoopEnds(s) \/ Stop(s) PROVE TypeOK'
  BY <1>7 DEF WalkEnds, LoopEnds, Stop
<1>8. ASSUME NEW s \in Sweeps, NEW f \in Files, Visit(s, f) PROVE TypeOK'
  <2>1. Old(s, f) => [file |-> f, at |-> mtime[f]] \in Candidate
    BY DEF Old, Candidate
  <2>2. todo' \in [Sweeps -> SUBSET Files]
    BY <1>8 DEF Visit
  <2>3. cand' \in [Sweeps -> SUBSET Candidate]
    BY <1>8, <2>1 DEF Visit
  <2>4. errors' \in [Sweeps -> BOOLEAN]
    BY <1>8 DEF Visit, Fail
  <2> QED
    BY <1>8, <2>2, <2>3, <2>4 DEF Visit
<1>9. ASSUME NEW s \in Sweeps, NEW c \in cand[s], DryRunReports(s, c) PROVE TypeOK'
  BY <1>9 DEF DryRunReports, Drop
<1>10. ASSUME NEW s \in Sweeps, NEW c \in cand[s], Restat(s, c) PROVE TypeOK'
  <2>1. errors' \in [Sweeps -> BOOLEAN] /\ cand' \in [Sweeps -> SUBSET Candidate]
    <3>1. \/ errors' = errors
          \/ errors' = [errors EXCEPT ![s] = TRUE]
      BY <1>10 DEF Restat, Fail
    <3>2. \/ cand' = cand
          \/ cand' = [cand EXCEPT ![s] = cand[s] \ {c}]
      BY <1>10 DEF Restat, Drop
    <3>3. errors' \in [Sweeps -> BOOLEAN]
      BY <3>1
    <3>4. cand' \in [Sweeps -> SUBSET Candidate]
      BY <3>2
    <3> QED
      BY <3>3, <3>4
  <2>2. pc' = pc \/ pc' = [pc EXCEPT ![s] = "remove"]
    BY <1>10 DEF Restat
  <2> QED
    BY <1>10, <2>1, <2>2 DEF Restat
<1>11. ASSUME NEW s \in Sweeps, NEW c \in cand[s], Remove(s, c) PROVE TypeOK'
  <2>1. errors' \in [Sweeps -> BOOLEAN] /\ cand' \in [Sweeps -> SUBSET Candidate]
    BY <1>11 DEF Remove, Drop, Fail
  <2>2. c.file \in Files
    BY DEF Candidate
  <2>3. /\ mtime' \in [Files -> (0..MaxNow) \union {Absent}]
        /\ gone' \in [Sweeps -> SUBSET Candidate]
    BY <1>11, <2>2 DEF Remove
  <2> QED
    BY <1>11, <2>1, <2>3 DEF Remove
<1>12. CASE UNCHANGED vars
  BY <1>12 DEF vars
<1> QED
  BY <1>1, <1>2, <1>3, <1>4, <1>5, <1>6, <1>7, <1>8, <1>9, <1>10, <1>11, <1>12
     DEF Next, SweepStep

\* The initial values have their types.
LEMMA TypeInit == Init => TypeOK
  BY DiskAssumption DEF Init, TypeOK, Time, Lock!Init, Lock!TypeOK

\* The variables hold values of their types.
THEOREM TypeCorrect == Spec => []TypeOK
  BY TypeInit, TypeStep, PTL DEF Spec

(***************************************************************************)
(* What a sweep has in hand.                                               *)
(***************************************************************************)
\* The order of the candidates is total: one of them is next.
LEMMA OneIsNext ==
    ASSUME TypeOK, NEW s \in Sweeps, NEW c, NEW d, IsNext(s, c), IsNext(s, d)
    PROVE  c = d
<1>1. c \in Candidate /\ d \in Candidate
  BY DEF IsNext, TypeOK
<1>2. Precedes(c, d) /\ Precedes(d, c)
  BY DEF IsNext
<1>3. c.at = d.at /\ c.file = d.file
  BY <1>1, <1>2, DiskAssumption DEF Precedes, Candidate, Time
<1> QED
  BY <1>1, <1>3 DEF Candidate

\* Every step keeps SweepOrder.
LEMMA OrderStep == TypeOK /\ SweepOrder /\ [Next]_vars => SweepOrder'
<1> SUFFICES ASSUME TypeOK, SweepOrder, [Next]_vars PROVE SweepOrder'
  OBVIOUS
<1>1. ASSUME NEW s \in Sweeps, LockHeld(s) \/ Unlock(s) PROVE SweepOrder'
  BY <1>1, ClearOf DEF LockHeld, Unlock, SweepOrder, cache
<1>2. ASSUME NEW p \in Procs, Die(p) PROVE SweepOrder'
  BY <1>2, ClearOf DEF Die, SweepOrder, cache
<1> USE DiskAssumption DEF TypeOK, SweepOrder, Time, cache, sweepVars, Goto
<1>3. CASE Tick
  BY <1>3 DEF Tick
<1>4. ASSUME NEW f \in Files, Use(f) PROVE SweepOrder'
  <2>1. ASSUME NEW s \in Sweeps, NEW g \in used'[s], mtime'[g] # Absent
        PROVE  mtime'[g] > cutoff[s]
    <3>1. CASE g = f
      BY <1>4, <2>1, <3>1 DEF Use
    <3>2. CASE g # f
      BY <1>4, <2>1, <3>2 DEF Use
    <3> QED
      BY <3>1, <3>2
  <2>2. \A s \in Sweeps : pc[s] \in {"idle", "lock", "close"} => used'[s] = {}
    BY <1>4 DEF Use
  <2> QED
    BY <1>4, <2>1, <2>2 DEF Use
<1>5. ASSUME NEW s \in Sweeps, Begin(s) \/ Return(s) PROVE SweepOrder'
  BY <1>5 DEF Begin, Return
<1>6. ASSUME NEW s \in Sweeps, Acquire(s) PROVE SweepOrder'
  BY <1>6 DEF Acquire
<1>7. ASSUME NEW s \in Sweeps, WalkEnds(s) \/ LoopEnds(s) \/ Stop(s) PROVE SweepOrder'
  BY <1>7 DEF WalkEnds, LoopEnds, Stop
<1>8. ASSUME NEW s \in Sweeps, NEW f \in Files, Visit(s, f) PROVE SweepOrder'
  BY <1>8 DEF Visit, Old
<1>9. ASSUME NEW s \in Sweeps, NEW c \in cand[s], DryRunReports(s, c) \/ Restat(s, c)
      PROVE  SweepOrder'
  <2>1. \A t \in Sweeps : cand'[t] \subseteq cand[t]
    BY <1>9 DEF DryRunReports, Restat, Drop
  <2>2. pc[s] = "delete" /\ (pc' = pc \/ pc' = [pc EXCEPT ![s] = "remove"])
    BY <1>9 DEF DryRunReports, Restat
  <2> QED
    BY <1>9, <2>1, <2>2 DEF DryRunReports, Restat
<1>10. ASSUME NEW s \in Sweeps, NEW c \in cand[s], Remove(s, c) PROVE SweepOrder'
  <2>1. \A t \in Sweeps : cand'[t] \subseteq cand[t]
    BY <1>10 DEF Remove, Drop
  <2>2. \A f \in Files : mtime'[f] \in {mtime[f], Absent}
    BY <1>10 DEF Remove
  <2>3. \A t \in Sweeps : pc[t] # "remove" => gone'[t] = gone[t]
    BY <1>10 DEF Remove
  <2> QED
    BY <1>10, <2>1, <2>2, <2>3 DEF Remove
<1>11. CASE UNCHANGED vars
  BY <1>11 DEF vars
<1> QED
  BY <1>1, <1>2, <1>3, <1>4, <1>5, <1>6, <1>7, <1>8, <1>9, <1>10, <1>11 DEF Next, SweepStep

\* A second look that finds a candidate as it was listed finds it unused, and
\* nothing between that look and the removal counts as a use in time.
LEMMA UsedStep == TypeOK /\ SweepOrder /\ UsedSurvive /\ [Next]_vars => UsedSurvive'
<1> SUFFICES ASSUME TypeOK, SweepOrder, UsedSurvive, [Next]_vars,
                    NEW s \in Sweeps, NEW c \in cand'[s], pc'[s] = "remove", IsNext(s, c)'
             PROVE  c.file \notin used'[s]
  BY DEF UsedSurvive
<1> DEFINE Same == pc'[s] = pc[s] /\ cand'[s] = cand[s] /\ used'[s] = used[s]
<1>0. Same => c.file \notin used'[s]
  BY DEF UsedSurvive, IsNext
<1>1. ASSUME NEW t \in Sweeps, LockHeld(t) \/ Unlock(t) PROVE Same
  BY <1>1, ClearOf DEF LockHeld, Unlock
<1>2. ASSUME NEW p \in Procs, Die(p) PROVE Same
  BY <1>2, ClearOf DEF Die
<1>3. ASSUME Tick \/ UNCHANGED vars PROVE Same
  BY <1>3 DEF Tick, vars, sweepVars
<1>4. ASSUME NEW f \in Files, Use(f) PROVE c.file \notin used'[s]
  <2>1. IsNext(s, c) /\ pc[s] = "remove" /\ c.file \notin used[s]
    BY <1>4 DEF Use, sweepVars, IsNext, UsedSurvive
  <2>2. \A d \in cand[s] : IsNext(s, d) => d = c
    BY <2>1, OneIsNext
  <2> QED
    BY <1>4, <2>1, <2>2 DEF Use, TypeOK
<1>5. ASSUME NEW t \in Sweeps,
             Begin(t) \/ Return(t) \/ Acquire(t) \/ WalkEnds(t) \/ LoopEnds(t) \/ Stop(t)
      PROVE  Same
  BY <1>5 DEF Begin, Return, Acquire, WalkEnds, LoopEnds, Stop, Goto, TypeOK
<1>6. ASSUME NEW t \in Sweeps, NEW f \in Files, Visit(t, f) PROVE Same
  BY <1>6 DEF Visit, TypeOK
<1>7. ASSUME NEW t \in Sweeps, NEW d \in cand[t], DryRunReports(t, d) \/ Remove(t, d)
      PROVE  Same
  BY <1>7 DEF DryRunReports, Remove, Drop, Goto, TypeOK
<1>8. ASSUME NEW t \in Sweeps, NEW d \in cand[t], Restat(t, d) PROVE c.file \notin used'[s]
  <2>1. CASE t # s
    <3>1. Same
      BY <1>8, <2>1 DEF Restat, Drop, TypeOK
    <3> QED
      BY <1>0, <3>1
  <2>2. CASE t = s
    <3>1. mtime[d.file] = d.at /\ cand' = cand /\ used' = used /\ IsNext(s, d)
      BY <1>8, <2>2 DEF Restat
    <3>2. c = d
      BY <3>1, OneIsNext DEF IsNext
    <3>3. d.file \in Files /\ d.at \in Time /\ d.at <= cutoff[s] /\ cutoff[s] \in Int
      BY <2>2 DEF TypeOK, Candidate, SweepOrder
    <3>4. d.file \notin used[s]
      BY <3>1, <3>3, DiskAssumption DEF SweepOrder, Time
    <3> QED
      BY <3>1, <3>2, <3>4
  <2> QED
    BY <2>1, <2>2
<1> QED
  BY <1>0, <1>1, <1>2, <1>3, <1>4, <1>5, <1>6, <1>7, <1>8 DEF Next, SweepStep

\* A candidate that is gone came before those that wait, and an entry comes
\* before its blob among files of one age.
LEMMA BlobStep ==
    TypeOK /\ SweepOrder /\ BlobFirstOnlyIfOlder /\ [Next]_vars => BlobFirstOnlyIfOlder'
<1> SUFFICES ASSUME TypeOK, SweepOrder, BlobFirstOnlyIfOlder, [Next]_vars,
                    NEW s \in Sweeps, NEW a \in cand'[s], NEW c \in gone'[s],
                    a.file \in Ac, c.file = Ref[a.file]
             PROVE  c.at < a.at
  BY DEF BlobFirstOnlyIfOlder
<1> DEFINE Fewer == cand'[s] \subseteq cand[s] /\ gone'[s] \subseteq gone[s]
<1>0. Fewer => c.at < a.at
  BY DEF BlobFirstOnlyIfOlder
<1>1. ASSUME NEW t \in Sweeps, LockHeld(t) \/ Unlock(t) PROVE Fewer
  BY <1>1, ClearOf DEF LockHeld, Unlock
<1>2. ASSUME NEW p \in Procs, Die(p) PROVE Fewer
  BY <1>2, ClearOf DEF Die
<1>3. ASSUME Tick \/ UNCHANGED vars PROVE Fewer
  BY <1>3 DEF Tick, vars, sweepVars
<1>4. ASSUME NEW f \in Files, Use(f) PROVE Fewer
  BY <1>4 DEF Use, sweepVars
<1>5. ASSUME NEW t \in Sweeps,
             Begin(t) \/ Return(t) \/ Acquire(t) \/ WalkEnds(t) \/ LoopEnds(t) \/ Stop(t)
      PROVE  Fewer
  BY <1>5 DEF Begin, Return, Acquire, WalkEnds, LoopEnds, Stop
<1>6. ASSUME NEW t \in Sweeps, NEW f \in Files, Visit(t, f) PROVE Fewer
  <2>1. t = s => gone'[s] = {}
    BY <1>6 DEF Visit, SweepOrder
  <2>2. t # s => Fewer
    BY <1>6 DEF Visit, TypeOK
  <2> QED
    BY <2>1, <2>2
<1>7. ASSUME NEW t \in Sweeps, NEW d \in cand[t], DryRunReports(t, d) \/ Restat(t, d)
      PROVE  Fewer
  BY <1>7 DEF DryRunReports, Restat, Drop, TypeOK
<1>8. ASSUME NEW t \in Sweeps, NEW d \in cand[t], Remove(t, d) PROVE c.at < a.at
  <2>1. CASE t # s \/ c \in gone[s]
    <3>1. a \in cand[s] /\ c \in gone[s]
      BY <1>8, <2>1 DEF Remove, Drop, TypeOK
    <3> QED
      BY <3>1 DEF BlobFirstOnlyIfOlder
  <2>2. CASE t = s /\ c \notin gone[s]
    <3>1. c = d /\ IsNext(s, c) /\ a \in cand[s]
      BY <1>8, <2>2 DEF Remove, Drop, TypeOK
    <3>2. Precedes(c, a) /\ c \in Candidate /\ a \in Candidate
      BY <3>1 DEF IsNext, TypeOK
    <3>3. Rank[a.file] < Rank[c.file] /\ Rank[a.file] \in Nat /\ Rank[c.file] \in Nat
      BY DiskAssumption DEF Files
    <3> QED
      BY <3>2, <3>3 DEF Precedes, Candidate, Time
  <2> QED
    BY <2>1, <2>2
<1> QED
  BY <1>0, <1>1, <1>2, <1>3, <1>4, <1>5, <1>6, <1>7, <1>8 DEF Next, SweepStep

\* A file that is old is looked at, unless the sweep has been stopped, has met
\* an error or only reports; what changes meanwhile is young, or gone.
LEMMA OldStep == TypeOK /\ SweepOrder /\ OldToCome /\ [Next]_vars => OldToCome'
<1> DEFINE Tried(s) == /\ pc[s] \in {"scan", "delete", "remove", "done"} /\ ~dry[Owner[s]]
                       /\ ~stopped[s] /\ ~errors[s]
           Due(s, f) == \/ mtime[f] = Absent \/ mtime[f] > cutoff[s]
                        \/ f \in todo[s] \/ [file |-> f, at |-> mtime[f]] \in cand[s]
<1>0. ASSUME NEW s \in Sweeps, OldToCome, Tried(s), NEW f \in Files PROVE Due(s, f)
  BY <1>0 DEF OldToCome
<1> SUFFICES ASSUME TypeOK, SweepOrder, OldToCome, [Next]_vars,
                    NEW s \in Sweeps, Tried(s)', NEW f \in Files
             PROVE  Due(s, f)'
  BY DEF OldToCome
<1> DEFINE Same == /\ pc[s] \in {"scan", "delete", "remove", "done"} /\ dry' = dry
                   /\ stopped'[s] = stopped[s] /\ errors'[s] = errors[s]
                   /\ cutoff'[s] = cutoff[s]
           Kept == mtime'[f] = mtime[f] /\ todo'[s] = todo[s] /\ cand'[s] = cand[s]
<1>a. Same => Due(s, f)
  BY <1>0
<1>b. Same /\ Kept => Due(s, f)'
  BY <1>a
<1>1. ASSUME NEW t \in Sweeps, LockHeld(t) \/ Unlock(t) PROVE Same /\ Kept
  BY <1>1, ClearOf DEF LockHeld, Unlock, cache
<1>2. ASSUME NEW p \in Procs, Die(p) PROVE Same /\ Kept
  BY <1>2, ClearOf DEF Die, cache
<1>3. ASSUME Tick \/ UNCHANGED vars PROVE Same /\ Kept
  BY <1>3 DEF Tick, vars, sweepVars, cache
<1>4. ASSUME NEW g \in Files, Use(g) PROVE Due(s, f)'
  <2>1. Same /\ todo'[s] = todo[s] /\ cand'[s] = cand[s]
    BY <1>4 DEF Use, sweepVars
  <2>2. cutoff[s] + MaxAge <= now
    BY <2>1 DEF SweepOrder
  <2>3. CASE g = f
    BY <1>4, <2>1, <2>2, <2>3, DiskAssumption DEF Use, TypeOK, Time
  <2>4. CASE g # f
    BY <1>4, <1>b, <2>1, <2>4 DEF Use, TypeOK
  <2> QED
    BY <2>3, <2>4
<1>5. ASSUME NEW t \in Sweeps, Begin(t) \/ Return(t) \/ Stop(t) PROVE Same /\ Kept
  BY <1>5 DEF Begin, Return, Stop, Goto, cache, TypeOK
<1>6. ASSUME NEW t \in Sweeps, Acquire(t) PROVE Due(s, f)'
  <2>1. t = s => f \in todo'[s]
    BY <1>6 DEF Acquire, TypeOK
  <2>2. t # s => Same /\ Kept
    BY <1>6 DEF Acquire, Goto, cache, TypeOK
  <2> QED
    BY <1>b, <2>1, <2>2
<1>7. ASSUME NEW t \in Sweeps, WalkEnds(t) PROVE Due(s, f)'
  <2>1. Same /\ mtime' = mtime /\ cand' = cand
    BY <1>7 DEF WalkEnds, Goto, cache, TypeOK
  <2>2. todo'[s] = todo[s]
    BY <1>7, <2>1 DEF WalkEnds, TypeOK
  <2> QED
    BY <1>b, <2>1, <2>2
<1>8. ASSUME NEW t \in Sweeps, LoopEnds(t) PROVE Same /\ Kept
  BY <1>8 DEF LoopEnds, Goto, cache, TypeOK
<1>9. ASSUME NEW t \in Sweeps, NEW g \in Files, Visit(t, g) PROVE Due(s, f)'
  <2>1. CASE t # s
    <3>1. Same /\ Kept
      BY <1>9, <2>1 DEF Visit, Fail, cache, TypeOK
    <3> QED
      BY <1>b, <3>1
  <2>2. CASE t = s
    <3>1. /\ todo'[s] = todo[s] \ {g} /\ mtime' = mtime /\ cutoff' = cutoff /\ errors' = errors
          /\ cand'[s] = IF Old(s, g) THEN cand[s] \union {[file |-> g, at |-> mtime[g]]}
                        ELSE cand[s]
      BY <1>9, <2>2 DEF Visit, Fail, cache, TypeOK
    <3>2. Same
      BY <1>9, <2>2, <3>1 DEF Visit, cache
    <3>3. CASE f # g
      BY <1>a, <3>1, <3>2, <3>3
    <3>4. CASE f = g
      <4>1. mtime[f] = Absent \/ mtime[f] \in Int
        BY DEF TypeOK, Time
      <4>2. cutoff[s] \in Int
        BY DEF TypeOK
      <4>3. Old(s, f) \/ mtime[f] = Absent \/ mtime[f] > cutoff[s]
        BY <4>1, <4>2 DEF Old
      <4> QED
        BY <3>1, <3>4, <4>3
    <3> QED
      BY <3>3, <3>4
  <2> QED
    BY <2>1, <2>2
<1>10. ASSUME NEW t \in Sweeps, NEW c \in cand[t], DryRunReports(t, c) PROVE Same /\ Kept
  BY <1>10 DEF DryRunReports, Drop, cache, TypeOK
<1>11. ASSUME NEW t \in Sweeps, NEW c \in cand[t], Restat(t, c) PROVE Due(s, f)'
  <2>1. Same /\ mtime' = mtime /\ todo' = todo
    BY <1>11 DEF Restat, Fail, Goto, cache, TypeOK
  <2>2. \/ cand'[s] = cand[s]
        \/ cand'[s] = cand[s] \ {c} /\ mtime[c.file] # c.at
    BY <1>11, <2>1 DEF Restat, Drop, Fail, TypeOK
  <2>3. c # [file |-> f, at |-> mtime[f]] \/ mtime[c.file] = c.at
    OBVIOUS
  <2> QED
    BY <1>a, <2>1, <2>2, <2>3
<1>12. ASSUME NEW t \in Sweeps, NEW c \in cand[t], Remove(t, c) PROVE Due(s, f)'
  <2>1. Same /\ todo' = todo
    BY <1>12 DEF Remove, Fail, Goto, cache, TypeOK
  <2>2. CASE mtime'[f] = Absent
    BY <2>2
  <2>3. CASE mtime'[f] # Absent
    <3>1. mtime'[f] = mtime[f]
      BY <1>12, <2>3 DEF Remove, TypeOK
    <3>2. t = s => c.file # f
      BY <1>12, <2>1, <2>3 DEF Remove, Fail, TypeOK
    <3>3. [file |-> f, at |-> mtime[f]] \in cand[s] => [file |-> f, at |-> mtime[f]] \in cand'[s]
      BY <1>12, <3>2 DEF Remove, Drop, TypeOK
    <3> QED
      BY <1>a, <2>1, <3>1, <3>3
  <2> QED
    BY <2>2, <2>3
<1> QED
  BY <1>b, <1>1, <1>2, <1>3, <1>4, <1>5, <1>6, <1>7, <1>8, <1>9, <1>10, <1>11, <1>12
     DEF Next, SweepStep

-----------------------------------------------------------------------------
(***************************************************************************)
(* The invariant, and what it is for.                                      *)
(***************************************************************************)
Inv == /\ TypeOK /\ SweepOrder
       /\ UsedSurvive /\ BlobFirstOnlyIfOlder /\ OldToCome

\* In the beginning no sweep has anything in hand.
LEMMA InvInit == Init => Inv
<1> SUFFICES ASSUME Init PROVE Inv
  OBVIOUS
<1>1. SweepOrder /\ UsedSurvive /\ BlobFirstOnlyIfOlder /\ OldToCome
  BY DEF Init, SweepOrder, UsedSurvive, BlobFirstOnlyIfOlder, OldToCome
<1> QED
  BY <1>1, TypeInit DEF Inv

\* Every step keeps the invariant.
LEMMA InvStep == Inv /\ [Next]_vars => Inv'
  BY TypeStep, OrderStep, UsedStep, BlobStep, OldStep DEF Inv

\* The invariant of every run of the sweeps.
THEOREM Invariance == Spec => []Inv
  BY InvInit, InvStep, PTL DEF Spec

\* A sweep removes nothing that a build has used since the sweep began, unless
\* the use came after the second look (disk.go:154).
THEOREM UsedFilesSurvive == Spec => []UsedSurvive
<1>1. Inv => UsedSurvive
  BY DEF Inv
<1> QED
  BY <1>1, Invariance, PTL

\* A sweep that is neither stopped nor troubled leaves nothing old, whoever
\* else sweeps, writes and touches meanwhile.
THEOREM OldFilesGo == Spec => []NothingOldLeft
<1>1. Inv => NothingOldLeft
  BY DEF Inv, OldToCome, SweepOrder, NothingOldLeft
<1> QED
  BY <1>1, Invariance, PTL

\* The order of the candidates takes an entry before a blob of its age
\* (disk.go:116).
THEOREM EntriesBeforeBlobs == Spec => []BlobFirstOnlyIfOlder
<1>1. Inv => BlobFirstOnlyIfOlder
  BY DEF Inv
<1> QED
  BY <1>1, Invariance, PTL

-----------------------------------------------------------------------------
(***************************************************************************)
(* The lock.                                                               *)
(***************************************************************************)
\* Every step keeps UnderLock.
LEMMA UnderLockStep == TypeOK /\ UnderLock /\ [Next]_vars => UnderLock'
<1> SUFFICES ASSUME TypeOK, UnderLock, [Next]_vars PROVE UnderLock'
  OBVIOUS
<1> USE DiskAssumption DEF TypeOK, Lock!TypeOK, UnderLock, Lock!To, lockVars, sweepVars, Goto
<1>1. ASSUME NEW s \in Sweeps, Begin(s) \/ Return(s) PROVE UnderLock'
  BY <1>1 DEF Begin, Return, Lock!OpenFile, Lock!CloseFile
<1>2. ASSUME NEW s \in Sweeps, Acquire(s) PROVE UnderLock'
  BY <1>2 DEF Acquire, Lock!SetLk
<1>3. ASSUME NEW s \in Sweeps, LockHeld(s) PROVE UnderLock'
  BY <1>3, ClearOf DEF LockHeld, Lock!SetLkFails
<1>4. ASSUME NEW s \in Sweeps, Unlock(s) PROVE UnderLock'
  BY <1>4, ClearOf DEF Unlock, Lock!Unlck
<1>5. ASSUME NEW p \in Procs, Die(p) PROVE UnderLock'
  BY <1>5, ClearOf DEF Die, Lock!Die
<1>6. ASSUME NEW s \in Sweeps, WalkEnds(s) \/ LoopEnds(s) \/ Stop(s) PROVE UnderLock'
  BY <1>6 DEF WalkEnds, LoopEnds, Stop
<1>7. ASSUME NEW s \in Sweeps, NEW f \in Files, Visit(s, f) PROVE UnderLock'
  BY <1>7 DEF Visit
<1>8. ASSUME NEW s \in Sweeps, NEW c \in cand[s], DryRunReports(s, c) PROVE UnderLock'
  BY <1>8 DEF DryRunReports
<1>9. ASSUME NEW s \in Sweeps, NEW c \in cand[s], Restat(s, c) \/ Remove(s, c)
      PROVE  UnderLock'
  <2>1. lk' = lk /\ pc[s] \in {"delete", "remove"}
    BY <1>9 DEF Restat, Remove
  <2>2. pc' = pc \/ \E x \in {"delete", "remove"} : pc' = [pc EXCEPT ![s] = x]
    BY <1>9 DEF Restat, Remove
  <2> QED
    BY <2>1, <2>2
<1>10. ASSUME NEW f \in Files, Use(f) PROVE UnderLock'
  BY <1>10 DEF Use
<1>11. CASE Tick \/ UNCHANGED vars
  BY <1>11 DEF Tick, vars
<1> QED
  BY <1>1, <1>2, <1>3, <1>4, <1>5, <1>6, <1>7, <1>8, <1>9, <1>10, <1>11 DEF Next, SweepStep

Serially == \A s \in Sweeps : Begin(s) => Lock!Alone(s)

\* The sweeps of a process that take turns hold the lock for as long as they
\* rely on it.
LEMMA HeldStep ==
    TypeOK /\ Lock!HeldThroughout /\ [Next /\ Serially]_vars => Lock!HeldThroughout'
<1> SUFFICES ASSUME TypeOK, Lock!HeldThroughout, [Next /\ Serially]_vars
             PROVE  Lock!HeldThroughout'
  OBVIOUS
<1> USE DiskAssumption
    DEF TypeOK, Lock!TypeOK, Lock!HeldThroughout, Lock!To, Lock!Release, lockVars
<1>1. ASSUME NEW s \in Sweeps, Begin(s), Lock!Alone(s) PROVE Lock!HeldThroughout'
  BY <1>1 DEF Begin, Lock!OpenFile, Lock!Alone
<1>2. ASSUME NEW s \in Sweeps, Acquire(s) PROVE Lock!HeldThroughout'
  BY <1>2 DEF Acquire, Lock!SetLk, Lock!Grantable
<1>3. ASSUME NEW s \in Sweeps, LockHeld(s) \/ Unlock(s) \/ Return(s)
      PROVE  Lock!HeldThroughout'
  BY <1>3 DEF LockHeld, Lock!SetLkFails, Unlock, Lock!Unlck, Return, Lock!CloseFile
<1>4. ASSUME NEW p \in Procs, Die(p) PROVE Lock!HeldThroughout'
  BY <1>4 DEF Die, Lock!Die
<1>5. ASSUME UNCHANGED lockVars PROVE Lock!HeldThroughout'
  BY <1>5
<1>6. ASSUME NEW s \in Sweeps,
             \/ WalkEnds(s) \/ LoopEnds(s) \/ Stop(s) \/ \E f \in Files : Visit(s, f)
             \/ \E c \in cand[s] : DryRunReports(s, c) \/ Restat(s, c) \/ Remove(s, c)
      PROVE  UNCHANGED lockVars
  BY <1>6 DEF WalkEnds, LoopEnds, Stop, Visit, DryRunReports, Restat, Remove
<1>7. ASSUME Tick \/ UNCHANGED vars \/ \E f \in Files : Use(f) PROVE UNCHANGED lockVars
  BY <1>7 DEF Tick, Use, vars
<1> QED
  BY <1>1, <1>2, <1>3, <1>4, <1>5, <1>6, <1>7 DEF Next, SweepStep, Serially

\* If the sweeps of each process take turns, one sweep at a time is at the
\* cache, of whatever process (disk.go:21).
THEOREM OneSweepsIfSerial == SerialSpec => []OneSweepsAtATime
<1> DEFINE IInv == TypeOK /\ UnderLock /\ Lock!HeldThroughout
<1>1. Init => IInv
  BY TypeInit DEF Init, UnderLock, Lock!Init, Lock!HeldThroughout
<1>2. IInv /\ [Next /\ Serially]_vars => IInv'
  <2>1. [Next /\ Serially]_vars => [Next]_vars
    OBVIOUS
  <2> QED
    BY <2>1, TypeStep, UnderLockStep, HeldStep
<1>3. IInv => OneSweepsAtATime
  <2> SUFFICES ASSUME IInv, NEW s \in Sweeps, NEW t \in Sweeps,
                      pc[s] \notin {"idle", "lock", "close"},
                      pc[t] \notin {"idle", "lock", "close"}
               PROVE  s = t
    BY DEF OneSweepsAtATime
  <2>1. lk[s] = "locked" /\ lk[t] = "locked"
    BY DEF UnderLock
  <2> QED
    BY <2>1 DEF Lock!HeldThroughout
<1> QED
  BY <1>1, <1>2, <1>3, PTL DEF SerialSpec, Serially
=============================================================================
