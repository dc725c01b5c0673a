--------------------------- MODULE FileLockProofs ---------------------------
EXTENDS FileLock, TLAPS

\* The initial values have their types.
LEMMA TypeInit == Init => TypeOK
  BY LockAssumption DEF Init, TypeOK

\* Every step keeps the types.
LEMMA TypeStep == TypeOK /\ [Next]_lockVars => TypeOK'
<1> SUFFICES ASSUME TypeOK, [Next]_lockVars PROVE TypeOK'
  OBVIOUS
<1> USE LockAssumption DEF TypeOK
<1>1. ASSUME NEW s \in Sweeps, LockStep(s) PROVE TypeOK'
  BY <1>1 DEF LockStep, OpenFile, SetLk, SetLkFails, Unlck, CloseFile, To, Release
<1>2. ASSUME NEW p \in Procs, Die(p) PROVE TypeOK'
  BY <1>2 DEF Die, Release
<1>3. ASSUME NEW r \in Readers, ReadLock(r) \/ ReadUnlock(r) PROVE TypeOK'
  BY <1>3 DEF ReadLock, ReadUnlock
<1>4. CASE UNCHANGED lockVars
  BY <1>4 DEF lockVars
<1> QED
  BY <1>1, <1>2, <1>3, <1>4 DEF Next

\* The variables hold values of their types.
THEOREM TypeCorrect == Spec => []TypeOK
  BY TypeInit, TypeStep, PTL DEF Spec

\* A lock is kept only for a sweep that relies on it, even when the sweeps of
\* a process overlap.
THEOREM LockNotKept == Spec => []NotKept
<1>1. Init => NotKept
  BY DEF Init, NotKept
<1>2. TypeOK /\ NotKept /\ [Next]_lockVars => NotKept'
  <2> SUFFICES ASSUME TypeOK, NotKept, [Next]_lockVars, excl' # NoProc
               PROVE  \E s \in Sweeps : (Owner[s] = excl /\ lk[s] = "locked")'
    BY DEF NotKept
  <2> USE LockAssumption DEF TypeOK, NotKept
  <2>1. ASSUME NEW s \in Sweeps, OpenFile(s) \/ SetLkFails(s) \/ CloseFile(s) \/ Unlck(s)
        PROVE  \E t \in Sweeps : (Owner[t] = excl /\ lk[t] = "locked")'
    BY <2>1 DEF OpenFile, SetLkFails, CloseFile, Unlck, To, Release
  <2>2. ASSUME NEW s \in Sweeps, SetLk(s)
        PROVE  \E t \in Sweeps : (Owner[t] = excl /\ lk[t] = "locked")'
    <3>1. (Owner[s] = excl /\ lk[s] = "locked")'
      BY <2>2 DEF SetLk, To
    <3> QED
      BY <3>1
  <2>3. ASSUME NEW p \in Procs, Die(p)
        PROVE  \E t \in Sweeps : (Owner[t] = excl /\ lk[t] = "locked")'
    BY <2>3 DEF Die, Release
  <2>4. ASSUME NEW r \in Readers, ReadLock(r) \/ ReadUnlock(r)
        PROVE  \E t \in Sweeps : (Owner[t] = excl /\ lk[t] = "locked")'
    BY <2>4 DEF ReadLock, ReadUnlock
  <2>5. CASE UNCHANGED lockVars
    BY <2>5 DEF lockVars
  <2> QED
    BY <2>1, <2>2, <2>3, <2>4, <2>5 DEF Next, LockStep
<1> QED
  BY <1>1, <1>2, TypeCorrect, PTL DEF Spec

\* Every step of sweeps that take turns keeps HeldThroughout.
LEMMA SerialStep ==
    TypeOK /\ HeldThroughout /\ [Next /\ \A s \in Sweeps : OpenFile(s) => Alone(s)]_lockVars
        => HeldThroughout'
<1> SUFFICES ASSUME TypeOK, HeldThroughout,
                    [Next /\ \A s \in Sweeps : OpenFile(s) => Alone(s)]_lockVars
             PROVE  HeldThroughout'
  OBVIOUS
<1> USE LockAssumption DEF TypeOK, HeldThroughout
<1>1. ASSUME NEW s \in Sweeps, OpenFile(s), Alone(s) PROVE HeldThroughout'
  BY <1>1 DEF OpenFile, To, Alone
<1>2. ASSUME NEW s \in Sweeps, SetLk(s) PROVE HeldThroughout'
  BY <1>2 DEF SetLk, To, Grantable
<1>3. ASSUME NEW s \in Sweeps, SetLkFails(s) PROVE HeldThroughout'
  BY <1>3 DEF SetLkFails, To, Release
<1>4. ASSUME NEW s \in Sweeps, Unlck(s) \/ CloseFile(s) PROVE HeldThroughout'
  BY <1>4 DEF Unlck, CloseFile, To, Release
<1>5. ASSUME NEW p \in Procs, Die(p) PROVE HeldThroughout'
  BY <1>5 DEF Die, Release
<1>6. ASSUME NEW r \in Readers, ReadLock(r) \/ ReadUnlock(r) PROVE HeldThroughout'
  BY <1>6 DEF ReadLock, ReadUnlock
<1>7. CASE UNCHANGED lockVars
  BY <1>7 DEF lockVars
<1> QED
  BY <1>1, <1>2, <1>3, <1>4, <1>5, <1>6, <1>7 DEF Next, LockStep

\* A sweep of a process that takes turns holds its lock for as long as it relies
\* on it: nobody closes the file meanwhile (lock_unix.go:44).
THEOREM HeldIfSerial == SerialSpec => []HeldThroughout
<1>1. Init => TypeOK /\ HeldThroughout
  BY TypeInit DEF Init, HeldThroughout
<1>2. /\ TypeOK /\ HeldThroughout
      /\ [Next /\ \A s \in Sweeps : OpenFile(s) => Alone(s)]_lockVars
      => (TypeOK /\ HeldThroughout)'
  BY TypeStep, SerialStep
<1> QED
  BY <1>1, <1>2, PTL DEF SerialSpec

\* Sweeps of one process that take turns keep every other process out.
THEOREM NoParallelIfSerial == SerialSpec => []NeverInParallel
<1>1. SerialSpec => []TypeOK
  <2>1. [Next /\ \A s \in Sweeps : OpenFile(s) => Alone(s)]_lockVars => [Next]_lockVars
    OBVIOUS
  <2> QED
    BY <2>1, TypeInit, TypeStep, PTL DEF SerialSpec
<1>2. TypeOK /\ HeldThroughout => NeverInParallel
  BY LockAssumption DEF TypeOK, HeldThroughout, NeverInParallel
<1> QED
  BY <1>1, <1>2, HeldIfSerial, PTL
=============================================================================
