--------------------------- MODULE ContentsProofs ---------------------------
EXTENDS ContentsSweep, TLAPS

\* FileLock's own types, step by step.
LEMMA LockTypes ==
    ASSUME Lock!TypeOK, [Lock!Next]_lockVars
    PROVE  Lock!TypeOK'
<1> USE ContentsAssumption DEF Lock!TypeOK, Lock!To, Lock!Release
<1>1. ASSUME NEW s \in Sweeps, Lock!LockStep(s) PROVE Lock!TypeOK'
  BY <1>1 DEF Lock!LockStep, Lock!OpenFile, Lock!SetLk, Lock!SetLkFails, Lock!Unlck,
              Lock!CloseFile
<1>2. ASSUME NEW p \in Procs, Lock!Die(p) PROVE Lock!TypeOK'
  BY <1>2 DEF Lock!Die
<1>3. ASSUME NEW r \in Readers, Lock!ReadLock(r) \/ Lock!ReadUnlock(r) PROVE Lock!TypeOK'
  BY <1>3 DEF Lock!ReadLock, Lock!ReadUnlock
<1>4. CASE UNCHANGED lockVars
  BY <1>4 DEF lockVars
<1> QED
  BY <1>1, <1>2, <1>3, <1>4 DEF Lock!Next

\* Every step of a sweep or a build is a step of the lock or leaves it alone.
LEMMA LockStepOf == [Next]_vars => [Lock!Next]_lockVars
<1> SUFFICES ASSUME [Next]_vars PROVE [Lock!Next]_lockVars
  OBVIOUS
<1>1. ASSUME NEW s \in Sweeps, Acquire(s) \/ Progress(s) \/ Trouble(s)
      PROVE  [Lock!Next]_lockVars
  BY <1>1 DEF Acquire, Progress, Trouble, Begin, LockHeld, ListTrash, Unlock, Return, Look,
              RemoveMarker, Rename, Drain, EvictFails, DrainFails, Stop, lockVars,
              Lock!Next, Lock!LockStep
<1>2. ASSUME BuildStep PROVE [Lock!Next]_lockVars
  BY <1>2 DEF BuildStep, LocksShared, UnlocksShared, Place, Record, Hit, lockVars,
              Lock!Next
<1>3. ASSUME NEW p \in Procs, Die(p) PROVE [Lock!Next]_lockVars
  BY <1>3 DEF Die, Lock!Next
<1>4. CASE Tick \/ UNCHANGED vars
  BY <1>4 DEF Tick, vars, lockVars
<1> QED
  BY <1>1, <1>2, <1>3, <1>4 DEF Next

\* What Clear leaves of the sweeps' variables has their types.
LEMMA ClearTypes ==
    ASSUME TypeOK, NEW ended, NEW to \in {"idle", "close"}, Clear(ended, to)
    PROVE  /\ pc' \in [Sweeps -> {"idle", "lock", "loop", "marker", "rename", "drain", "close"}]
           /\ stopped' \in [Sweeps -> BOOLEAN]
           /\ cutoff' \in [Sweeps -> Int]
           /\ todo' \in [Sweeps -> SUBSET Entries]
           /\ cur' \in [Sweeps -> SUBSET Entries]
           /\ dry' = dry /\ now' = now
<1> USE DEF TypeOK, Clear
<1>1. pc' \in [Sweeps -> {"idle", "lock", "loop", "marker", "rename", "drain", "close"}]
  OBVIOUS
<1>2. stopped' \in [Sweeps -> BOOLEAN]
  BY Zenon
<1>3. cutoff' \in [Sweeps -> Int]
  OBVIOUS
<1>4. todo' \in [Sweeps -> SUBSET Entries] /\ cur' \in [Sweeps -> SUBSET Entries]
  OBVIOUS
<1> QED
  BY <1>1, <1>2, <1>3, <1>4

\* Every step keeps the types.
LEMMA TypeStep == TypeOK /\ [Next]_vars => TypeOK'
<1> SUFFICES ASSUME TypeOK, [Next]_vars PROVE TypeOK'
  OBVIOUS
<1>0. Lock!TypeOK'
  BY LockStepOf, LockTypes DEF TypeOK
<1> USE <1>0, ContentsAssumption DEF TypeOK, Time, cache, sweepVars, lockVars, Goto
<1>1. CASE Tick
  BY <1>1 DEF Tick
<1>2. ASSUME NEW r \in Readers, LocksShared(r) \/ UnlocksShared(r)
      PROVE  TypeOK'
  BY <1>2 DEF LocksShared, UnlocksShared
<1>3. ASSUME NEW e \in Entries, Place(e) PROVE TypeOK'
  BY <1>3 DEF Place
<1>4. ASSUME NEW e \in Entries, Record(e) PROVE TypeOK'
  BY <1>4 DEF Record
<1>5. ASSUME NEW e \in Entries, Hit(e) PROVE TypeOK'
  BY <1>5 DEF Hit
<1>6. ASSUME NEW s \in Sweeps, Begin(s) \/ Return(s) PROVE TypeOK'
  BY <1>6 DEF Begin, Return
<1>7. ASSUME NEW s \in Sweeps, Acquire(s) PROVE TypeOK'
  BY <1>7 DEF Acquire
<1>8. ASSUME NEW s \in Sweeps, LockHeld(s) PROVE TypeOK'
  BY <1>8, ClearTypes DEF LockHeld
<1>17. ASSUME NEW s \in Sweeps, Unlock(s) PROVE TypeOK'
  BY <1>17, ClearTypes DEF Unlock
<1>9. ASSUME NEW s \in Sweeps, NEW e \in Entries, Look(s, e) PROVE TypeOK'
  BY <1>9 DEF Look
<1>10. ASSUME NEW s \in Sweeps, NEW e \in Entries, RemoveMarker(s, e) PROVE TypeOK'
  BY <1>10 DEF RemoveMarker
<1>11. ASSUME NEW s \in Sweeps, NEW e \in Entries, Rename(s, e) PROVE TypeOK'
  BY <1>11 DEF Rename
<1>12. ASSUME NEW s \in Sweeps, NEW e \in Entries, Drain(s, e) PROVE TypeOK'
  BY <1>12 DEF Drain
<1>13. ASSUME NEW s \in Sweeps, ListTrash(s) PROVE TypeOK'
  BY <1>13 DEF ListTrash
<1>14. ASSUME NEW s \in Sweeps, Trouble(s) PROVE TypeOK'
  BY <1>14 DEF Trouble, EvictFails, DrainFails, Stop
<1>15. ASSUME NEW p \in Procs, Die(p) PROVE TypeOK'
  BY <1>15, ClearTypes DEF Die
<1>16. CASE UNCHANGED vars
  BY <1>16 DEF vars
<1> QED
  BY <1>1, <1>2, <1>3, <1>4, <1>5, <1>6, <1>7, <1>8, <1>9, <1>10, <1>11, <1>12, <1>13,
     <1>14, <1>15, <1>16, <1>17 DEF Next, BuildStep, Progress

\* The variables hold values of their types.
THEOREM TypeCorrect == Spec => []TypeOK
<1>1. Init => TypeOK
  BY ContentsAssumption DEF Init, TypeOK, Time, Lock!Init, Lock!TypeOK
<1> QED
  BY <1>1, TypeStep, PTL DEF Spec

-----------------------------------------------------------------------------

\* Every step keeps EvictionOrder, of whichever sweep and whoever has the lock.
LEMMA EvictionStep == TypeOK /\ EvictionOrder /\ [Next]_vars => EvictionOrder'
<1> SUFFICES ASSUME TypeOK, EvictionOrder, [Next]_vars PROVE EvictionOrder'
  OBVIOUS
<1> USE ContentsAssumption
    DEF TypeOK, Time, EvictionOrder, cache, sweepVars, lockVars, Goto
<1>1. ASSUME NEW r \in Readers, LocksShared(r) \/ UnlocksShared(r)
      PROVE  EvictionOrder'
  BY <1>1 DEF LocksShared, UnlocksShared
<1>2. ASSUME NEW e \in Entries, Place(e) PROVE EvictionOrder'
  \* e has no directory yet, so no eviction is at it
  BY <1>2 DEF Place
<1>3. ASSUME NEW e \in Entries, Record(e) PROVE EvictionOrder'
  BY <1>3 DEF Record
<1>4. ASSUME NEW e \in Entries, Hit(e) PROVE EvictionOrder'
  BY <1>4 DEF Hit
<1>5. ASSUME NEW s \in Sweeps, Begin(s) \/ Return(s) \/ Acquire(s) PROVE EvictionOrder'
  BY <1>5 DEF Begin, Return, Acquire
<1>6. ASSUME NEW s \in Sweeps, LockHeld(s) \/ Unlock(s) PROVE EvictionOrder'
  BY <1>6 DEF LockHeld, Unlock, Clear
<1>7. ASSUME NEW s \in Sweeps, NEW e \in Entries, Look(s, e) PROVE EvictionOrder'
  BY <1>7 DEF Look
<1>8. ASSUME NEW s \in Sweeps, NEW e \in Entries, RemoveMarker(s, e) PROVE EvictionOrder'
  <2>1. \A x \in Entries : marker'[x] # Absent => dir'[x] = "live"
    BY <1>8 DEF RemoveMarker
  <2>2. ASSUME NEW t \in Sweeps, pc'[t] = "rename", NEW x \in cur'[t]
        PROVE  marker'[x] = Absent /\ dir'[x] \in {"live", "trash", "gone"}
    <3>1. CASE t # s
      BY <1>8, <2>2, <3>1 DEF RemoveMarker
    <3>2. CASE t = s /\ x = e
      \* s goes on to the rename only if it has removed the marker itself
      BY <1>8, <2>2, <3>2 DEF RemoveMarker
    <3>3. CASE t = s /\ x # e
      \* but s is at one entry only
      BY <1>8, <2>2, <3>3 DEF RemoveMarker
    <3> QED
      BY <3>1, <3>2, <3>3
  <2>3. \A t \in Sweeps : pc'[t] = "drain" => \A x \in todo'[t] : dir'[x] \in {"trash", "gone"}
    BY <1>8 DEF RemoveMarker
  <2>4. \A t \in Sweeps : \A x, y \in cur'[t] : x = y
    BY <1>8 DEF RemoveMarker
  <2> QED
    BY <2>1, <2>2, <2>3, <2>4
<1>9. ASSUME NEW s \in Sweeps, NEW e \in Entries, Rename(s, e) PROVE EvictionOrder'
  BY <1>9 DEF Rename
<1>10. ASSUME NEW s \in Sweeps, NEW e \in Entries, Drain(s, e) PROVE EvictionOrder'
  BY <1>10 DEF Drain
<1>11. ASSUME NEW s \in Sweeps, ListTrash(s) PROVE EvictionOrder'
  BY <1>11 DEF ListTrash
<1>12. ASSUME NEW s \in Sweeps, Trouble(s) PROVE EvictionOrder'
  BY <1>12 DEF Trouble, EvictFails, DrainFails, Stop
<1>13. ASSUME NEW p \in Procs, Die(p) PROVE EvictionOrder'
  BY <1>13 DEF Die, Clear
<1>14. CASE Tick \/ UNCHANGED vars
  BY <1>14 DEF Tick, vars
<1> QED
  BY <1>1, <1>2, <1>3, <1>4, <1>5, <1>6, <1>7, <1>8, <1>9, <1>10, <1>11, <1>12, <1>13,
     <1>14 DEF Next, BuildStep, Progress

\* No crash, no failed call and no second sweep without the lock makes a marker
\* outlive its directory: the marker goes first and never comes back.
THEOREM MarkersHaveContents == Spec => []MarkerHasContents
<1>1. Init => EvictionOrder
  BY DEF Init, EvictionOrder
<1>2. EvictionOrder => MarkerHasContents
  BY DEF EvictionOrder, MarkerHasContents
<1> QED
  BY <1>1, <1>2, TypeCorrect, EvictionStep, PTL DEF Spec

-----------------------------------------------------------------------------

\* What FileLock needs of a step: one that opens the file does so alone.
Serially == \A s \in Sweeps : Begin(s) => Lock!Alone(s)

\* The sweeps of a process that take turns hold the lock for as long as they
\* rely on it.
LEMMA HeldStep ==
    TypeOK /\ Lock!HeldThroughout /\ [Next /\ Serially]_vars => Lock!HeldThroughout'
<1> SUFFICES ASSUME TypeOK, Lock!HeldThroughout, [Next /\ Serially]_vars
             PROVE  Lock!HeldThroughout'
  OBVIOUS
<1> USE ContentsAssumption
    DEF TypeOK, Lock!TypeOK, Lock!HeldThroughout, Lock!To, Lock!Release, lockVars
<1>1. ASSUME NEW s \in Sweeps, Begin(s), Lock!Alone(s) PROVE Lock!HeldThroughout'
  BY <1>1 DEF Begin, Lock!OpenFile, Lock!Alone
<1>2. ASSUME NEW s \in Sweeps, Acquire(s) PROVE Lock!HeldThroughout'
  BY <1>2 DEF Acquire, Lock!SetLk, Lock!Grantable
<1>3. ASSUME NEW s \in Sweeps, LockHeld(s) PROVE Lock!HeldThroughout'
  BY <1>3 DEF LockHeld, Lock!SetLkFails
<1>4. ASSUME NEW s \in Sweeps, Unlock(s) PROVE Lock!HeldThroughout'
  BY <1>4 DEF Unlock, Lock!Unlck
<1>5. ASSUME NEW s \in Sweeps, Return(s) PROVE Lock!HeldThroughout'
  BY <1>5 DEF Return, Lock!CloseFile
<1>6. ASSUME NEW p \in Procs, Die(p) PROVE Lock!HeldThroughout'
  BY <1>6 DEF Die, Lock!Die
<1>7. ASSUME NEW r \in Readers, LocksShared(r) \/ UnlocksShared(r)
      PROVE  Lock!HeldThroughout'
  BY <1>7 DEF LocksShared, UnlocksShared, Lock!ReadLock, Lock!ReadUnlock
<1>8. ASSUME NEW e \in Entries, Place(e) \/ Record(e) \/ Hit(e)
      PROVE  Lock!HeldThroughout'
  BY <1>8 DEF Place, Record, Hit
<1>9. ASSUME NEW s \in Sweeps, ListTrash(s) \/ Trouble(s) PROVE Lock!HeldThroughout'
  BY <1>9 DEF ListTrash, Trouble, EvictFails, DrainFails, Stop
<1>10. ASSUME NEW s \in Sweeps, NEW e \in Entries,
              Look(s, e) \/ RemoveMarker(s, e) \/ Rename(s, e) \/ Drain(s, e)
       PROVE  Lock!HeldThroughout'
  BY <1>10 DEF Look, RemoveMarker, Rename, Drain
<1>11. CASE Tick \/ UNCHANGED vars
  BY <1>11 DEF Tick, vars
<1> QED
  BY <1>1, <1>2, <1>3, <1>4, <1>5, <1>6, <1>7, <1>8, <1>9, <1>10, <1>11
     DEF Next, BuildStep, Progress, Serially

\* Where a sweep is and what it has of the lock go together, in any Spec.
LEMMA UnderLockStep == TypeOK /\ UnderLock /\ [Next]_vars => UnderLock'
<1> SUFFICES ASSUME TypeOK, UnderLock, [Next]_vars PROVE UnderLock'
  OBVIOUS
<1> USE ContentsAssumption
    DEF TypeOK, Lock!TypeOK, UnderLock, Locked, Lock!To, lockVars, cache, sweepVars,
        Goto
<1>1. ASSUME NEW s \in Sweeps, Begin(s) \/ Return(s) PROVE UnderLock'
  BY <1>1 DEF Begin, Return, Lock!OpenFile, Lock!CloseFile
<1>2. ASSUME NEW s \in Sweeps, Acquire(s) PROVE UnderLock'
  BY <1>2 DEF Acquire, Lock!SetLk
<1>3. ASSUME NEW s \in Sweeps, LockHeld(s) PROVE UnderLock'
  BY <1>3 DEF LockHeld, Lock!SetLkFails, Clear
<1>4. ASSUME NEW s \in Sweeps, Unlock(s) PROVE UnderLock'
  BY <1>4 DEF Unlock, Lock!Unlck, Clear
<1>5. ASSUME NEW p \in Procs, Die(p) PROVE UnderLock'
  BY <1>5 DEF Die, Lock!Die, Clear
<1>6. ASSUME NEW r \in Readers, LocksShared(r) \/ UnlocksShared(r)
      PROVE  UnderLock'
  BY <1>6 DEF LocksShared, UnlocksShared, Lock!ReadLock, Lock!ReadUnlock
<1>7. ASSUME NEW e \in Entries, Place(e) \/ Record(e) \/ Hit(e)
      PROVE  UnderLock'
  BY <1>7 DEF Place, Record, Hit
<1>8. ASSUME NEW s \in Sweeps, ListTrash(s) \/ Trouble(s) PROVE UnderLock'
  BY <1>8 DEF ListTrash, Trouble, EvictFails, DrainFails, Stop
<1>9. ASSUME NEW s \in Sweeps, NEW e \in Entries,
             Look(s, e) \/ RemoveMarker(s, e) \/ Rename(s, e) \/ Drain(s, e)
      PROVE  UnderLock'
  BY <1>9 DEF Look, RemoveMarker, Rename, Drain
<1>10. CASE Tick \/ UNCHANGED vars
  BY <1>10 DEF Tick, vars
<1> QED
  BY <1>1, <1>2, <1>3, <1>4, <1>5, <1>6, <1>7, <1>8, <1>9, <1>10
     DEF Next, BuildStep, Progress

\* The lock is kept for a sweep that is locked, or for nobody, in any Spec.
LEMMA NotKeptStep ==
    ASSUME Lock!TypeOK, Lock!NotKept, [Lock!Next]_lockVars
    PROVE  Lock!NotKept'
<1> USE ContentsAssumption DEF Lock!TypeOK, Lock!NotKept, Lock!To, Lock!Release
<1>1. ASSUME NEW s \in Sweeps, Lock!LockStep(s) PROVE Lock!NotKept'
  BY <1>1 DEF Lock!LockStep, Lock!OpenFile, Lock!SetLk, Lock!SetLkFails, Lock!Unlck,
              Lock!CloseFile
<1>2. ASSUME NEW p \in Procs, Lock!Die(p) PROVE Lock!NotKept'
  BY <1>2 DEF Lock!Die
<1>3. ASSUME NEW r \in Readers, Lock!ReadLock(r) \/ Lock!ReadUnlock(r) PROVE Lock!NotKept'
  BY <1>3 DEF Lock!ReadLock, Lock!ReadUnlock
<1>4. CASE UNCHANGED lockVars
  BY <1>4 DEF lockVars
<1> QED
  BY <1>1, <1>2, <1>3, <1>4 DEF Lock!Next

\* Every way out of a sweep gives the lock up: overlapping sweeps, failures,
\* stops and crashes included, a process has it only for a sweep at the cache.
THEOREM LockIsGivenBack == Spec => []LockGivenBack
<1> DEFINE IInv == TypeOK /\ UnderLock /\ Lock!NotKept
<1>1. Init => TypeOK
  BY ContentsAssumption DEF Init, TypeOK, Time, Lock!Init, Lock!TypeOK
<1>2. Init => UnderLock /\ Lock!NotKept
  BY DEF Init, UnderLock, Locked, Lock!Init, Lock!NotKept
<1>3. IInv /\ [Next]_vars => IInv'
  BY TypeStep, UnderLockStep, NotKeptStep, LockStepOf DEF TypeOK
<1>4. IInv => LockGivenBack
  BY DEF LockGivenBack, Lock!NotKept, UnderLock
<1> QED
  BY <1>1, <1>2, <1>3, <1>4, PTL DEF Spec

\* If the sweeps of each process take turns, no entry goes while a build has
\* the lock, whatever else reads and writes without it.
THEOREM KeptIfSerial == SerialSpec => KeptUnderLock
<1> DEFINE IInv == TypeOK /\ EvictionOrder /\ UnderLock /\ Lock!HeldThroughout
           Kept == shared # {} => \A e \in Entries :
                       marker[e] # Absent => marker'[e] # Absent /\ dir'[e] = "live"
<1>1. Init => TypeOK
  BY ContentsAssumption DEF Init, TypeOK, Time, Lock!Init, Lock!TypeOK
<1>2. Init => EvictionOrder /\ UnderLock /\ Lock!HeldThroughout
  BY DEF Init, EvictionOrder, UnderLock, Locked, Lock!Init, Lock!HeldThroughout
<1>3. IInv /\ [Next /\ Serially]_vars => IInv'
  <2>1. [Next /\ Serially]_vars => [Next]_vars
    OBVIOUS
  <2> QED
    BY <2>1, TypeStep, EvictionStep, UnderLockStep, HeldStep
<1>4. IInv /\ IInv' /\ [Next /\ Serially]_vars => [Kept]_vars
  <2> SUFFICES ASSUME IInv, IInv', Next, shared # {}, NEW x \in Entries, marker[x] # Absent
               PROVE  marker'[x] # Absent
    BY DEF EvictionOrder
  <2> USE DEF cache, sweepVars
  <2>1. ASSUME NEW s \in Sweeps, NEW e \in Entries, RemoveMarker(s, e) PROVE FALSE
    \* s has the lock, and so no build has
    <3>1. lk[s] = "locked"
      BY <2>1 DEF RemoveMarker, Goto, UnderLock, Locked
    <3> QED
      BY <3>1, ContentsAssumption DEF Lock!HeldThroughout
  <2>2. ASSUME NEW e \in Entries, Place(e) \/ Record(e) \/ Hit(e)
        PROVE  marker'[x] # Absent
    BY <2>2, ContentsAssumption DEF TypeOK, Time, Place, Record, Hit
  <2>3. ASSUME NEW r \in Readers, LocksShared(r) \/ UnlocksShared(r)
        PROVE  marker'[x] # Absent
    BY <2>3 DEF LocksShared, UnlocksShared
  <2>4. ASSUME NEW s \in Sweeps, NEW e \in Entries, Look(s, e) \/ Rename(s, e) \/ Drain(s, e)
        PROVE  marker'[x] # Absent
    BY <2>4 DEF Look, Rename, Drain
  <2>5. ASSUME NEW s \in Sweeps,
               \/ Begin(s) \/ Acquire(s) \/ LockHeld(s) \/ ListTrash(s) \/ Unlock(s)
               \/ Return(s) \/ Trouble(s)
        PROVE  marker'[x] # Absent
    BY <2>5 DEF Begin, Acquire, LockHeld, ListTrash, Unlock, Return, Trouble, EvictFails,
                DrainFails, Stop
  <2>6. ASSUME NEW p \in Procs, Die(p) PROVE marker'[x] # Absent
    BY <2>6 DEF Die
  <2>7. CASE Tick
    BY <2>7 DEF Tick
  <2> QED
    BY <2>1, <2>2, <2>3, <2>4, <2>5, <2>6, <2>7 DEF Next, BuildStep, Progress
<1> QED
  BY <1>1, <1>2, <1>3, <1>4, PTL DEF SerialSpec, Serially, KeptUnderLock
=============================================================================
