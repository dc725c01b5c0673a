----------------------------- MODULE TrashProofs -----------------------------
(***************************************************************************)
(* For any units, any number of sweeps that take no lock and remove each   *)
(* other's trash, and builds that write, use and link at any time: what a  *)
(* sweep spares, what it leaves, and that no trash is lost sight of.       *)
(***************************************************************************)
EXTENDS TrashSweep, TLAPS

(***************************************************************************)
(* Types.                                                                  *)
(***************************************************************************)
Places == {"idle", "old", "loop", "look", "mkdir", "rename", "clean"}

\* Where a sweep goes through its units.
Working == {"loop", "look", "mkdir", "rename"}

\* TypeOK, one variable at a time.
LEMMA Types ==
    ASSUME TypeOK
    PROVE  /\ kind \in {"download", "output"}
           /\ dry \in [Sweeps -> BOOLEAN] /\ linksToo \in BOOLEAN /\ now \in Time
           /\ at \in [Units -> Time \union {Absent}]
           /\ there \in SUBSET Units /\ writing \in SUBSET Units
           /\ linked \in SUBSET Units /\ lost \in SUBSET Units
           /\ made \in SUBSET Dirs /\ trash \in [Dirs -> SUBSET Units]
           /\ pc \in [Sweeps -> Places]
           /\ flawed \in [Sweeps -> BOOLEAN] /\ cutoff \in [Sweeps -> Int]
           /\ own \in [Sweeps -> SUBSET Dirs] /\ doomed \in [Sweeps -> SUBSET Dirs]
           /\ todo \in [Sweeps -> SUBSET Units] /\ cur \in [Sweeps -> SUBSET Units]
           /\ spared \in [Sweeps -> SUBSET Units] /\ used \in [Sweeps -> SUBSET Units]
BY DEF TypeOK, Places

\* The parts of TypeOK that a step of a build or of the clock, of a sweep, and
\* of the trash directories change.
WorldTypes ==
    /\ now \in Time /\ at \in [Units -> Time \union {Absent}]
    /\ there \in SUBSET Units /\ writing \in SUBSET Units
    /\ linked \in SUBSET Units /\ lost \in SUBSET Units
TrashTypes ==
    /\ made \in SUBSET Dirs /\ trash \in [Dirs -> SUBSET Units]
    /\ own \in [Sweeps -> SUBSET Dirs] /\ doomed \in [Sweeps -> SUBSET Dirs]
SweepTypes ==
    /\ pc \in [Sweeps -> Places]
    /\ flawed \in [Sweeps -> BOOLEAN] /\ cutoff \in [Sweeps -> Int]
    /\ todo \in [Sweeps -> SUBSET Units] /\ cur \in [Sweeps -> SUBSET Units]
    /\ spared \in [Sweeps -> SUBSET Units] /\ used \in [Sweeps -> SUBSET Units]

LEMMA TypeParts ==
    ASSUME TypeOK, UNCHANGED opts, WorldTypes', TrashTypes', SweepTypes' PROVE TypeOK'
BY DEF TypeOK, opts, WorldTypes, TrashTypes, SweepTypes, Places

\* No step changes what a root, or a process, has been started with.
LEMMA OptsStay == [Next]_vars => UNCHANGED opts
<1> USE DEF opts
<1>1. ASSUME NEW u \in Units, WorldStep(u) PROVE UNCHANGED opts
  BY <1>1 DEF WorldStep, WriteBegins, WriteEnds, Hit, LinkGoes, Build, WorkspaceGoes,
              WorkspaceComes
<1>2. ASSUME NEW s \in Sweeps,
             \/ Begin(s) \/ MakeTrash(s) \/ GivesUp(s) \/ LoopEnds(s) \/ Return(s) \/ Die(s)
             \/ \E d \in Dirs : \/ Remove(s, d) \/ RemoveFails(s, d)
                                \/ \E u \in Units : Purge(s, d, u)
      PROVE  UNCHANGED opts
  BY <1>2 DEF Begin, MakeTrash, GivesUp, LoopEnds, Return, Die, End, Remove, RemoveFails, Purge
<1>3. ASSUME NEW s \in Sweeps, NEW u \in Units,
             \/ KeyNames(s, u) \/ KeyInfo(s, u) \/ BaseWorkspace(s, u) \/ BaseActivity(s, u)
             \/ ClassifyFails(s, u) \/ MkdirParent(s, u) \/ Rename(s, u) \/ MoveFails(s, u)
      PROVE  UNCHANGED opts
  BY <1>3 DEF KeyNames, KeyInfo, BaseWorkspace, BaseActivity, ClassifyFails, MkdirParent,
              Rename, MoveFails, Take, Then
<1> QED
  BY <1>1, <1>2, <1>3 DEF Next, Tick, Progress, vars

\* A sweep that has ended knows nothing any more.
LEMMA EndOf ==
    ASSUME TypeOK, NEW s \in Sweeps, End(s)
    PROVE  /\ SweepTypes' /\ TrashTypes' /\ pc'[s] = "idle" /\ todo'[s] = {} /\ cur'[s] = {}
           /\ used'[s] = {} /\ UNCHANGED <<world, made, trash>>
           /\ \A t \in Sweeps \ {s} :
                 /\ pc'[t] = pc[t] /\ cutoff'[t] = cutoff[t] /\ todo'[t] = todo[t]
                 /\ cur'[t] = cur[t] /\ flawed'[t] = flawed[t] /\ spared'[t] = spared[t]
                 /\ used'[t] = used[t] /\ own'[t] = own[t] /\ doomed'[t] = doomed[t]
<1>1. SweepTypes'
  BY Types DEF End, SweepTypes, Places
<1>2. TrashTypes'
  BY Types DEF End, TrashTypes, litter
<1> QED
  BY <1>1, <1>2, Types DEF End, litter

\* A step of a sweep to the unit u, or on with it.
LEMMA UnitStepOf ==
    ASSUME TypeOK, NEW s \in Sweeps, NEW u \in Units, NEW from, NEW to \in Places,
           Take(s, u, to) \/ Then(s, u, from, to)
    PROVE  /\ pc' = [pc EXCEPT ![s] = to] /\ todo' \in [Sweeps -> SUBSET Units]
           /\ cur' \in [Sweeps -> SUBSET Units] /\ used' \in [Sweeps -> SUBSET Units]
           /\ todo'[s] \subseteq todo[s] /\ used'[s] \subseteq used[s]
           /\ \A t \in Sweeps \ {s} :
                 pc'[t] = pc[t] /\ todo'[t] = todo[t] /\ cur'[t] = cur[t] /\ used'[t] = used[t]
           /\ UNCHANGED <<now, lost, doomed, cutoff, own>>
<1>1. CASE Take(s, u, to)
  <2>1. cur' = cur \/ cur' = [cur EXCEPT ![s] = {u}]
    BY <1>1 DEF Take
  <2>2. used' = used \/ used' = [used EXCEPT ![s] = @ \ {u}]
    BY <1>1 DEF Take
  <2> QED
    BY <1>1, <2>1, <2>2, Types DEF Take, world, litter
<1>2. CASE Then(s, u, from, to)
  <2>1. cur' = cur \/ cur' = [cur EXCEPT ![s] = {}]
    BY <1>2 DEF Then
  <2>2. used' = used \/ used' = [used EXCEPT ![s] = @ \ {u}]
    BY <1>2 DEF Then
  <2> QED
    BY <1>2, <2>1, <2>2, Types DEF Then, Goto
<1> QED
  BY <1>1, <1>2

UnitStep(s, u) ==
    \/ KeyNames(s, u) \/ KeyInfo(s, u) \/ BaseWorkspace(s, u) \/ BaseActivity(s, u)
    \/ ClassifyFails(s, u) \/ MkdirParent(s, u) \/ Rename(s, u) \/ MoveFails(s, u)

LEMMA UnitStepIs ==
    ASSUME NEW s \in Sweeps, NEW u \in Units, UnitStep(s, u)
    PROVE  \E from, to \in Working : Take(s, u, to) \/ Then(s, u, from, to)
<1> USE DEF Working
<1>1. Evict(s) \in Working
  BY DEF Evict
<1>2. ASSUME KeyNames(s, u) PROVE \E to \in Working : Take(s, u, to)
  BY <1>2 DEF KeyNames
<1>3. ASSUME KeyInfo(s, u) PROVE \E from, to \in Working : Then(s, u, from, to)
  BY <1>1, <1>3 DEF KeyInfo
<1>4. ASSUME BaseWorkspace(s, u) PROVE \E to \in Working : Take(s, u, to)
  BY <1>1, <1>4 DEF BaseWorkspace
<1>5. ASSUME BaseActivity(s, u) PROVE \E from, to \in Working : Then(s, u, from, to)
  BY <1>1, <1>5 DEF BaseActivity
<1>6. ASSUME ClassifyFails(s, u)
      PROVE  \E from, to \in Working : Take(s, u, to) \/ Then(s, u, from, to)
  BY <1>6 DEF ClassifyFails
<1>7. ASSUME MkdirParent(s, u) \/ Rename(s, u) \/ MoveFails(s, u)
      PROVE  \E from, to \in Working : Then(s, u, from, to)
  BY <1>7 DEF MkdirParent, Rename, MoveFails
<1> QED
  BY <1>2, <1>3, <1>4, <1>5, <1>6, <1>7 DEF UnitStep

\* What such a step changes of the cache, the trash and the histories.
LEMMA UnitEffect ==
    ASSUME TypeOK, NEW s \in Sweeps, NEW u \in Units, UnitStep(s, u)
    PROVE  /\ \/ UNCHANGED <<cache, made, trash>>
              \/ UNCHANGED <<cache, trash>> /\ made' = made \union own[s]
              \/ /\ pc[s] = "rename" /\ u \in cur[s] /\ own[s] \subseteq made
                 /\ made' = made
                 /\ trash' = [d \in Dirs |-> IF d \in own[s] THEN trash[d] \union {u} ELSE trash[d]]
                 /\ there' = there \ {u} /\ at' = [at EXCEPT ![u] = Absent]
                 /\ writing' = writing \ {u} /\ linked' = linked \ {u}
           /\ flawed' = flawed \/ Flaw(s)
           /\ spared' = spared \/ Spare(s, u)
<1>1. CASE KeyNames(s, u)
  BY <1>1 DEF KeyNames, Take, Spare, world, litter
<1>2. CASE KeyInfo(s, u)
  BY <1>2 DEF KeyInfo, Spare, litter
<1>3. CASE BaseWorkspace(s, u)
  BY <1>3 DEF BaseWorkspace, Take, world, litter
<1>4. CASE BaseActivity(s, u)
  BY <1>4 DEF BaseActivity, litter
<1>5. CASE ClassifyFails(s, u)
  BY <1>5 DEF ClassifyFails, Take, world, litter
<1>6. CASE MkdirParent(s, u)
  BY <1>6 DEF MkdirParent
<1>7. CASE Rename(s, u)
  BY <1>7 DEF Rename, Then, Goto
<1>8. CASE MoveFails(s, u)
  BY <1>8 DEF MoveFails, litter
<1> QED
  BY <1>1, <1>2, <1>3, <1>4, <1>5, <1>6, <1>7, <1>8 DEF UnitStep

\* The types after a step of a sweep that is at a unit.
LEMMA UnitTypes ==
    ASSUME TypeOK, NEW s \in Sweeps, NEW u \in Units, UnitStep(s, u)
    PROVE  WorldTypes' /\ TrashTypes' /\ SweepTypes'
<1> PICK from, to \in Working : Take(s, u, to) \/ Then(s, u, from, to)
  BY UnitStepIs
<1>0. to \in Places
  BY DEF Working, Places
<1>1. /\ pc' = [pc EXCEPT ![s] = to] /\ todo' \in [Sweeps -> SUBSET Units]
      /\ cur' \in [Sweeps -> SUBSET Units] /\ used' \in [Sweeps -> SUBSET Units]
      /\ UNCHANGED <<now, lost, doomed, cutoff, own>>
  BY <1>0, UnitStepOf
<1>2. flawed' \in [Sweeps -> BOOLEAN]
  BY UnitEffect, Types DEF Flaw
<1>3. spared' \in [Sweeps -> SUBSET Units]
  BY UnitEffect, Types DEF Spare
<1>4. SweepTypes'
  BY <1>0, <1>1, <1>2, <1>3, Types DEF SweepTypes
<1>5. WorldTypes'
  BY <1>1, UnitEffect, Types DEF WorldTypes, cache
<1>6. made' \in SUBSET Dirs /\ trash' \in [Dirs -> SUBSET Units]
  BY UnitEffect, Types
<1> QED
  BY <1>1, <1>4, <1>5, <1>6, Types DEF TrashTypes

\* Every step keeps the types.
LEMMA TypeStep == TypeOK /\ [Next]_vars => TypeOK'
<1> SUFFICES ASSUME TypeOK, [Next]_vars PROVE TypeOK'
  OBVIOUS
<1>0. UNCHANGED opts
  BY OptsStay
<1>1. ASSUME NEW s \in Sweeps, NEW u \in Units, UnitStep(s, u) PROVE TypeOK'
  BY <1>0, <1>1, UnitTypes, TypeParts
<1>2. ASSUME NEW s \in Sweeps, GivesUp(s) \/ Return(s) \/ Die(s) PROVE TypeOK'
  <2>1. End(s)
    BY <1>2 DEF GivesUp, Return, Die
  <2>2. WorldTypes'
    BY <2>1, Types DEF End, world, cache, WorldTypes
  <2> QED
    BY <1>0, <2>1, <2>2, EndOf, TypeParts
<1> USE TrashAssumption, Types DEF WorldTypes, TrashTypes, SweepTypes, Time
<1>3. CASE Tick
  <2>1. WorldTypes' /\ TrashTypes' /\ SweepTypes'
    BY <1>3 DEF Tick, cache, litter, local
  <2> QED
    BY <1>0, <2>1, TypeParts
<1>4. ASSUME NEW u \in Units, WorldStep(u) PROVE TypeOK'
  <2>1. WorldTypes'
    BY <1>4 DEF WorldStep, WriteBegins, WriteEnds, Hit, LinkGoes, Build, WorkspaceGoes,
                WorkspaceComes, Use, cache
  <2>2. TrashTypes' /\ UNCHANGED <<pc, flawed, cutoff, todo, cur, spared>>
    BY <1>4 DEF WorldStep, WriteBegins, WriteEnds, Hit, LinkGoes, Build, WorkspaceGoes,
                WorkspaceComes, litter, local
  <2>3. used' \in [Sweeps -> SUBSET Units]
    <3>1. CASE used' = used
      BY <3>1
    <3>2. CASE Use(u)
      BY <3>2 DEF Use
    <3>3. CASE used' = [s \in Sweeps |-> used[s] \ {u}]
      BY <3>3
    <3> QED
      BY <1>4, <3>1, <3>2, <3>3 DEF WorldStep, WriteBegins, WriteEnds, Hit, LinkGoes, Build,
                                    WorkspaceGoes, WorkspaceComes, local
  <2> QED
    BY <1>0, <2>1, <2>2, <2>3, TypeParts
<1>5. ASSUME NEW s \in Sweeps, Begin(s) PROVE TypeOK'
  <2>1. WorldTypes' /\ TrashTypes' /\ SweepTypes'
    BY <1>5 DEF Begin, Goto, Places, world, cache, litter, local
  <2> QED
    BY <1>0, <2>1, TypeParts
<1>6. ASSUME NEW s \in Sweeps, NEW d \in Dirs,
             Remove(s, d) \/ RemoveFails(s, d) \/ \E u \in Units : Purge(s, d, u)
      PROVE  TypeOK'
  <2>1. WorldTypes' /\ SweepTypes' /\ own' = own
    BY <1>6 DEF Remove, RemoveFails, Purge, world, cache, local
  <2>2. TrashTypes'
    BY <1>6, <2>1 DEF Remove, RemoveFails, Purge, litter
  <2> QED
    BY <1>0, <2>1, <2>2, TypeParts
<1>7. ASSUME NEW s \in Sweeps, MakeTrash(s) PROVE TypeOK'
  <2>1. WorldTypes' /\ SweepTypes'
    BY <1>7 DEF MakeTrash, Goto, Places, world, cache, Listed
  <2>2. TrashTypes'
    BY <1>7 DEF MakeTrash
  <2> QED
    BY <1>0, <2>1, <2>2, TypeParts
<1>8. ASSUME NEW s \in Sweeps, LoopEnds(s) PROVE TypeOK'
  <2>1. WorldTypes' /\ TrashTypes'
    BY <1>8 DEF LoopEnds, world, cache, litter
  <2>2. SweepTypes'
    BY <1>8 DEF LoopEnds, Goto, Places
  <2> QED
    BY <1>0, <2>1, <2>2, TypeParts
<1>9. CASE UNCHANGED vars
  BY <1>9 DEF vars, opts, world, cache, litter, local, TypeOK
<1> QED
  BY <1>1, <1>2, <1>3, <1>4, <1>5, <1>6, <1>7, <1>8, <1>9 DEF Next, Progress, UnitStep

\* The initial values have their types.
LEMMA TypeInit == Init => TypeOK
<1> SUFFICES ASSUME Init PROVE TypeOK
  OBVIOUS
<1> USE TrashAssumption DEF Init, Time
<1>1. linksToo \in BOOLEAN
  OBVIOUS
<1>2. WorldTypes
  BY DEF WorldTypes
<1>3. TrashTypes
  BY DEF TrashTypes
<1>4. SweepTypes
  BY DEF SweepTypes, Places
<1> QED
  BY <1>1, <1>2, <1>3, <1>4 DEF TypeOK, WorldTypes, TrashTypes, SweepTypes, Places

\* The variables hold values of their types.
THEOREM TypeCorrect == Spec => []TypeOK
  BY TypeInit, TypeStep, PTL DEF Spec

(***************************************************************************)
(* What a sweep has in hand.                                               *)
(***************************************************************************)
\* The two halves of SweepOrder: the cache itself, and one sweep on it.
CacheOrder ==
    /\ \A u \in Units : at[u] # Absent => u \in there
    /\ ~Download => \A u \in there : at[u] # Absent
OrderOf(s) ==
    /\ pc[s] \in {"idle", "old", "loop", "clean"} => cur[s] = {}
    /\ pc[s] \in {"idle", "old", "clean"} => todo[s] = {} /\ used[s] = {}
    /\ pc[s] \in Working => cutoff[s] + MaxAge <= now
    /\ \A u, v \in cur[s] : u = v
    /\ cur[s] \intersect todo[s] = {}
    /\ \A u \in used[s] : at[u] # Absent => at[u] > cutoff[s]
    /\ ~Download => used[s] \intersect lost = {}

LEMMA OrderParts == SweepOrder <=> CacheOrder /\ \A s \in Sweeps : OrderOf(s)
BY DEF SweepOrder, CacheOrder, OrderOf, Working

\* A sweep whose variables no step touches, but for what it has used, keeps its
\* order while units only go.
LEMMA OrderKept ==
    ASSUME TypeOK, NEW s \in Sweeps, OrderOf(s),
           UNCHANGED <<kind, lost, now>>,
           pc'[s] = pc[s], cutoff'[s] = cutoff[s], todo'[s] = todo[s], cur'[s] = cur[s],
           used'[s] \subseteq used[s], \A u \in Units : at'[u] \in {at[u], Absent}
    PROVE  OrderOf(s)'
BY Types DEF OrderOf, Download

\* A unit at a time: to the next one, on with the one at hand, or back.
LEMMA UnitOrder ==
    ASSUME TypeOK, CacheOrder, NEW s \in Sweeps, OrderOf(s), UNCHANGED kind,
           NEW u \in Units, UnitStep(s, u)
    PROVE  OrderOf(s)'
<1> PICK from, to \in Working : Take(s, u, to) \/ Then(s, u, from, to)
  BY UnitStepIs
<1>1. to \in Places
  BY DEF Working, Places
<1>2. /\ pc' = [pc EXCEPT ![s] = to] /\ todo'[s] \subseteq todo[s] /\ used'[s] \subseteq used[s]
      /\ UNCHANGED <<now, lost, cutoff>> /\ cur' \in [Sweeps -> SUBSET Units]
  BY <1>1, UnitStepOf
<1>3. pc'[s] = to
  BY <1>2, Types
<1>4. \A v \in Units : at'[v] \in {at[v], Absent}
  BY UnitEffect, Types DEF cache
<1>5. \A v \in used'[s] : at'[v] # Absent => at'[v] > cutoff'[s]
  BY <1>2, <1>4, Types DEF OrderOf
<1>6. pc[s] \in Working
  BY DEF Take, Then, Goto, Working
<1>7. CASE Take(s, u, to)
  <2>1. cur[s] = {} /\ todo'[s] = todo[s] \ {u}
    BY <1>7, Types DEF Take, OrderOf
  <2>2. CASE to = "loop"
    BY <1>2, <1>3, <1>5, <1>6, <1>7, <2>1, <2>2 DEF Take, OrderOf, Download
  <2>3. CASE to # "loop"
    <3>1. cur'[s] = {u}
      BY <1>7, <2>3, Types DEF Take
    <3> QED
      BY <1>2, <1>3, <1>5, <1>6, <2>1, <2>3, <3>1 DEF OrderOf, Working, Download
  <2> QED
    BY <2>2, <2>3
<1>8. CASE Then(s, u, from, to)
  <2>1. CASE to = "loop"
    <3>1. cur'[s] = {}
      BY <1>8, <2>1, Types DEF Then
    <3> QED
      BY <1>2, <1>3, <1>5, <1>6, <2>1, <3>1 DEF OrderOf, Download
  <2>2. CASE to # "loop"
    <3>1. cur' = cur
      BY <1>8, <2>2 DEF Then
    <3> QED
      BY <1>2, <1>3, <1>5, <1>6, <2>2, <3>1 DEF OrderOf, Working, Download
  <2> QED
    BY <2>1, <2>2
<1> QED
  BY <1>7, <1>8

\* A use makes its unit young, whatever the sweep.
LEMMA UseOrder ==
    ASSUME TypeOK, SweepOrder, UNCHANGED <<kind, now, lost, pc, cutoff, todo, cur>>,
           NEW u \in Units, Use(u), ~Download => u \notin lost
    PROVE  SweepOrder'
<1>1. CacheOrder'
  BY Types, TrashAssumption DEF SweepOrder, CacheOrder, Use, Download, Time
<1>2. ASSUME NEW s \in Sweeps PROVE OrderOf(s)'
  <2>0. OrderOf(s)
    BY OrderParts
  <2>1. used'[s] \subseteq used[s] \union {u}
    BY DEF Use
  <2>2. pc[s] \in {"idle", "old", "clean"} => used'[s] = {}
    BY <2>0 DEF Use, OrderOf
  <2>3. pc[s] \notin {"idle", "old", "clean"} => pc[s] \in Working
    BY Types DEF Places, Working
  <2>4. ASSUME NEW v \in used'[s], at'[v] # Absent PROVE at'[v] > cutoff[s]
    <3>1. cutoff[s] + MaxAge <= now
      BY <2>0, <2>2, <2>3, <2>4 DEF OrderOf
    <3>2. CASE v = u
      BY <3>1, <3>2, Types, TrashAssumption DEF Use, Time
    <3>3. CASE v # u
      BY <2>0, <2>1, <2>4, <3>3, Types DEF Use, OrderOf
    <3> QED
      BY <3>2, <3>3
  <2>5. ~Download => used'[s] \intersect lost = {}
    BY <2>0, <2>1 DEF OrderOf
  <2> QED
    BY <2>0, <2>2, <2>4, <2>5 DEF OrderOf, Download
<1> QED
  BY <1>1, <1>2 DEF SweepOrder, CacheOrder, OrderOf, Working, Download

\* Every step keeps SweepOrder.
LEMMA OrderStep == TypeOK /\ SweepOrder /\ [Next]_vars => SweepOrder'
<1> SUFFICES ASSUME TypeOK, SweepOrder, [Next]_vars PROVE SweepOrder'
  OBVIOUS
<1>0. UNCHANGED kind
  BY OptsStay DEF opts
<1>a. CacheOrder /\ \A s \in Sweeps : OrderOf(s)
  BY OrderParts
<1>b. (CacheOrder /\ \A s \in Sweeps : OrderOf(s))' => SweepOrder'
  BY DEF SweepOrder, CacheOrder, OrderOf, Working, Download
<1>c. UNCHANGED world => CacheOrder'
  BY <1>0, <1>a DEF CacheOrder, world, cache, Download
<1>1. ASSUME NEW s \in Sweeps, NEW u \in Units, UnitStep(s, u) PROVE SweepOrder'
  <2>1. CacheOrder'
    BY <1>0, <1>1, <1>a, UnitEffect, Types DEF CacheOrder, Download, cache
  <2>2. OrderOf(s)'
    BY <1>0, <1>1, <1>a, UnitOrder
  <2>3. PICK from, to \in Working : Take(s, u, to) \/ Then(s, u, from, to)
    BY <1>1, UnitStepIs
  <2>4. \A v \in Units : at'[v] \in {at[v], Absent}
    BY <1>1, UnitEffect, Types DEF cache
  <2>5. ASSUME NEW t \in Sweeps \ {s} PROVE OrderOf(t)'
    <3>1. to \in Places
      BY DEF Working, Places
    <3>2. /\ pc'[t] = pc[t] /\ todo'[t] = todo[t] /\ cur'[t] = cur[t] /\ used'[t] = used[t]
          /\ UNCHANGED <<now, lost, cutoff>>
      BY <2>3, <3>1, UnitStepOf
    <3> QED
      BY <1>0, <1>a, <2>4, <3>2, OrderKept
  <2> QED
    BY <1>b, <2>1, <2>2, <2>5
<1>2. ASSUME NEW s \in Sweeps, GivesUp(s) \/ Return(s) \/ Die(s) PROVE SweepOrder'
  <2>1. End(s)
    BY <1>2 DEF GivesUp, Return, Die
  <2>2. /\ pc'[s] = "idle" /\ todo'[s] = {} /\ cur'[s] = {} /\ used'[s] = {}
        /\ UNCHANGED world
    BY <2>1, EndOf
  <2>3. OrderOf(s)'
    BY <2>2 DEF OrderOf, Working
  <2>4. ASSUME NEW t \in Sweeps \ {s} PROVE OrderOf(t)'
    <3>1. /\ pc'[t] = pc[t] /\ cutoff'[t] = cutoff[t] /\ todo'[t] = todo[t]
          /\ cur'[t] = cur[t] /\ used'[t] = used[t]
      BY <2>1, EndOf
    <3> QED
      BY <1>0, <1>a, <2>2, <3>1 DEF OrderOf, Download, world, cache
  <2> QED
    BY <1>b, <1>c, <2>2, <2>3, <2>4
<1>3. CASE Tick
  <2>1. CacheOrder'
    BY <1>0, <1>3, <1>a DEF Tick, CacheOrder, cache, Download
  <2>2. ASSUME NEW s \in Sweeps PROVE OrderOf(s)'
    <3>1. now' = now + 1 /\ UNCHANGED <<lost, at, pc, cutoff, todo, cur, used>>
      BY <1>3 DEF Tick, cache, local
    <3>2. pc[s] \in Working => cutoff[s] + MaxAge <= now'
      BY <1>a, <3>1, Types, TrashAssumption DEF OrderOf, Time
    <3> QED
      BY <1>0, <1>a, <3>1, <3>2 DEF OrderOf, Download
  <2> QED
    BY <1>b, <2>1, <2>2
<1>4. ASSUME NEW u \in Units, WriteEnds(u) \/ Hit(u) \/ Build(u) PROVE SweepOrder'
  BY <1>0, <1>4, UseOrder DEF WriteEnds, Hit, Build
<1>5. ASSUME NEW u \in Units, WriteBegins(u) \/ LinkGoes(u) PROVE SweepOrder'
  <2>1. CacheOrder'
    BY <1>0, <1>5, <1>a DEF WriteBegins, LinkGoes, CacheOrder, Download
  <2>2. ASSUME NEW s \in Sweeps PROVE OrderOf(s)'
    BY <1>0, <1>5, <1>a DEF WriteBegins, LinkGoes, OrderOf, local, Download
  <2> QED
    BY <1>b, <2>1, <2>2
<1>6. ASSUME NEW u \in Units, WorkspaceGoes(u) \/ WorkspaceComes(u) PROVE SweepOrder'
  <2>1. CacheOrder'
    BY <1>0, <1>6, <1>a DEF WorkspaceGoes, WorkspaceComes, CacheOrder, Download, cache
  <2>2. ASSUME NEW s \in Sweeps PROVE OrderOf(s)'
    <3>1. CASE WorkspaceGoes(u)
      <4>1. used'[s] = used[s] \ {u} /\ lost' = lost \union {u}
        BY <3>1 DEF WorkspaceGoes
      <4> QED
        BY <1>0, <1>a, <3>1, <4>1 DEF WorkspaceGoes, OrderOf, cache, Download
    <3>2. CASE WorkspaceComes(u)
      BY <1>0, <1>a, <3>2 DEF WorkspaceComes, OrderOf, cache, local, Download
    <3> QED
      BY <1>6, <3>1, <3>2
  <2> QED
    BY <1>b, <2>1, <2>2
<1>7. ASSUME NEW s \in Sweeps,
             \/ Begin(s) \/ MakeTrash(s) \/ LoopEnds(s)
             \/ \E d \in Dirs : \/ Remove(s, d) \/ RemoveFails(s, d)
                                \/ \E u \in Units : Purge(s, d, u)
      PROVE  SweepOrder'
  <2>1. UNCHANGED world
    BY <1>7 DEF Begin, MakeTrash, LoopEnds, Remove, RemoveFails, Purge
  <2>2. ASSUME NEW t \in Sweeps PROVE OrderOf(t)'
    <3> USE Types DEF OrderOf, Download, world, cache
    <3>1. CASE Begin(s)
      BY <1>0, <1>a, <3>1 DEF Begin, Goto, local, Working
    <3>2. CASE MakeTrash(s)
      BY <1>0, <1>a, <3>2, TrashAssumption DEF MakeTrash, Goto, Working, Listed, Time
    <3>3. CASE LoopEnds(s)
      BY <1>0, <1>a, <3>3 DEF LoopEnds, Goto, Working
    <3>4. CASE \E d \in Dirs : \/ Remove(s, d) \/ RemoveFails(s, d)
                               \/ \E u \in Units : Purge(s, d, u)
      BY <1>0, <1>a, <3>4 DEF Remove, RemoveFails, Purge, local
    <3> QED
      BY <1>7, <3>1, <3>2, <3>3, <3>4
  <2> QED
    BY <1>b, <1>c, <2>1, <2>2
<1>8. CASE UNCHANGED vars
  BY <1>8 DEF vars, opts, world, cache, local, SweepOrder, Download
<1> QED
  BY <1>1, <1>2, <1>3, <1>4, <1>5, <1>6, <1>7, <1>8 DEF Next, WorldStep, Progress, UnitStep

\* A sweep that goes on with a unit has that unit in hand.
LEMMA InHand ==
    ASSUME TypeOK, SweepOrder, NEW s \in Sweeps, NEW u \in Units, NEW from, NEW to,
           Take(s, u, to) \/ Then(s, u, from, to)
    PROVE  /\ pc'[s] = to /\ pc[s] \in {"loop", from}
           /\ to # "loop" => cur'[s] = {u} /\ used' = used
<1>1. CASE Take(s, u, to)
  BY <1>1, Types DEF Take
<1>2. CASE Then(s, u, from, to)
  <2>1. to # "loop" => cur'[s] = {u} /\ used' = used
    BY <1>2 DEF Then, SweepOrder
  <2> QED
    BY <1>2, <2>1, Types DEF Then, Goto
<1> QED
  BY <1>1, <1>2

\* The other sweeps go on as they were.
LEMMA OthersStay ==
    ASSUME TypeOK, NEW s \in Sweeps, NEW t \in Sweeps \ {s}, NEW u \in Units, UnitStep(t, u)
    PROVE  /\ pc'[s] = pc[s] /\ todo'[s] = todo[s] /\ cur'[s] = cur[s] /\ used'[s] = used[s]
           /\ flawed'[s] = flawed[s] /\ spared'[s] = spared[s] /\ UNCHANGED cutoff
<1>1. PICK from, to \in Working : Take(t, u, to) \/ Then(t, u, from, to)
  BY UnitStepIs
<1>2. to \in Places
  BY DEF Working, Places
<1>3. flawed'[s] = flawed[s]
  BY UnitEffect, Types DEF Flaw
<1>4. spared'[s] = spared[s]
  BY UnitEffect, Types DEF Spare
<1> QED
  BY <1>1, <1>2, <1>3, <1>4, UnitStepOf

\* A unit that is found old is not one that was used, a workspace that is lost
\* undoes the use, and what is used later was decided on before.
LEMMA UsedStep == TypeOK /\ SweepOrder /\ UsedSurvive /\ [Next]_vars => UsedSurvive'
<1> SUFFICES ASSUME TypeOK, SweepOrder, UsedSurvive, [Next]_vars,
                    NEW s \in Sweeps, pc'[s] \in {"mkdir", "rename"}
             PROVE  cur'[s] \intersect used'[s] = {}
  BY DEF UsedSurvive
<1> DEFINE Same == pc'[s] = pc[s] /\ cur'[s] = cur[s] /\ used'[s] \subseteq used[s]
           Goal == cur'[s] \intersect used'[s] = {}
<1>0. Same => Goal
  BY DEF UsedSurvive
<1>1. ASSUME NEW t \in Sweeps \ {s}, NEW u \in Units, UnitStep(t, u) PROVE Same
  BY <1>1, OthersStay
<1>2. ASSUME NEW u \in Units, UnitStep(s, u) PROVE Goal
  <2>1. ASSUME u \notin used[s], NEW from, NEW to, Take(s, u, to) \/ Then(s, u, from, to)
        PROVE  Goal
    BY <2>1, InHand
  <2>2. CASE KeyNames(s, u)
    BY <2>2, InHand DEF KeyNames
  <2>3. CASE KeyInfo(s, u)
    <3>1. CASE Old(s, u)
      <4>1. at[u] # Absent /\ at[u] <= cutoff[s] /\ at[u] \in Int /\ cutoff[s] \in Int
        BY <2>3, <3>1, Types DEF KeyInfo, Old, Time
      <4>2. u \notin used[s]
        BY <4>1 DEF SweepOrder
      <4> QED
        BY <2>1, <2>3, <4>2 DEF KeyInfo
    <3>2. CASE ~Old(s, u)
      BY <2>3, <3>2, InHand DEF KeyInfo
    <3> QED
      BY <3>1, <3>2
  <2>4. CASE BaseWorkspace(s, u)
    <3>1. CASE u \in lost
      BY <2>1, <2>4, <3>1 DEF BaseWorkspace, SweepOrder
    <3>2. CASE u \notin lost
      BY <2>4, <3>2, InHand DEF BaseWorkspace
    <3> QED
      BY <3>1, <3>2
  <2>5. CASE BaseActivity(s, u)
    <3>1. CASE Old(s, u)
      <4>1. at[u] # Absent /\ at[u] <= cutoff[s] /\ at[u] \in Int /\ cutoff[s] \in Int
        BY <2>5, <3>1, Types DEF BaseActivity, Old, Time, SweepOrder
      <4>2. u \notin used[s]
        BY <4>1 DEF SweepOrder
      <4> QED
        BY <2>1, <2>5, <4>2 DEF BaseActivity
    <3>2. CASE ~Old(s, u)
      BY <2>5, <3>2, InHand DEF BaseActivity
    <3> QED
      BY <3>1, <3>2
  <2>6. CASE MkdirParent(s, u)
    <3>1. pc[s] = "mkdir" /\ u \in cur[s]
      BY <2>6 DEF MkdirParent, Then, Goto
    <3> QED
      BY <2>1, <2>6, <3>1 DEF MkdirParent, UsedSurvive
  <2>7. CASE ClassifyFails(s, u) \/ Rename(s, u) \/ MoveFails(s, u)
    BY <2>7, InHand DEF ClassifyFails, Rename, MoveFails
  <2> QED
    BY <1>2, <2>2, <2>3, <2>4, <2>5, <2>6, <2>7 DEF UnitStep
<1>3. ASSUME NEW t \in Sweeps, GivesUp(t) \/ Return(t) \/ Die(t) PROVE Same
  <2>1. End(t)
    BY <1>3 DEF GivesUp, Return, Die
  <2> QED
    BY <2>1, EndOf
<1>4. ASSUME NEW u \in Units, WriteEnds(u) \/ Hit(u) \/ Build(u) PROVE Goal
  <2>1. UNCHANGED <<pc, cur>> /\ Use(u)
    BY <1>4 DEF WriteEnds, Hit, Build
  <2>2. u \in cur[s] => used'[s] = used[s]
    BY <2>1 DEF Use, SweepOrder
  <2> QED
    BY <2>1, <2>2 DEF Use, UsedSurvive
<1>5. ASSUME NEW u \in Units,
             WriteBegins(u) \/ LinkGoes(u) \/ WorkspaceGoes(u) \/ WorkspaceComes(u)
      PROVE  Same
  BY <1>5 DEF WriteBegins, LinkGoes, WorkspaceGoes, WorkspaceComes, local
<1>6. ASSUME NEW t \in Sweeps,
             \/ Begin(t) \/ MakeTrash(t) \/ LoopEnds(t)
             \/ \E d \in Dirs : \/ Remove(t, d) \/ RemoveFails(t, d)
                                \/ \E u \in Units : Purge(t, d, u)
      PROVE  Same
  BY <1>6, Types DEF Begin, MakeTrash, LoopEnds, Goto, Remove, RemoveFails, Purge, local
<1>7. ASSUME Tick \/ UNCHANGED vars PROVE Same
  BY <1>7 DEF Tick, vars, local
<1> QED
  BY <1>0, <1>1, <1>2, <1>3, <1>4, <1>5, <1>6, <1>7 DEF Next, WorldStep, Progress, UnitStep

\* A unit that is old is come to; a sweep that keeps it has met an error, or
\* has seen it in use.
LEMMA OldStep == TypeOK /\ SweepOrder /\ OldToCome /\ [Next]_vars => OldToCome'
<1> DEFINE Tried(s) == pc[s] \in Working /\ ~dry[s] /\ ~flawed[s]
           Due(s, v) == \/ v \notin there \/ v \in spared[s]
                        \/ at[v] = Absent \/ at[v] > cutoff[s]
                        \/ v \in todo[s] \/ v \in cur[s]
<1>0. ASSUME NEW s \in Sweeps, OldToCome, Tried(s), NEW v \in Units PROVE Due(s, v)
  BY <1>0 DEF OldToCome, Working
<1> SUFFICES ASSUME TypeOK, SweepOrder, OldToCome, [Next]_vars,
                    NEW s \in Sweeps, Tried(s)', NEW v \in Units
             PROVE  Due(s, v)'
  BY TypeStep, Types DEF OldToCome, Working, TypeOK
<1> DEFINE Same == pc'[s] = pc[s] /\ cutoff'[s] = cutoff[s] /\ flawed'[s] = flawed[s]
           Kept == /\ spared'[s] = spared[s] /\ todo'[s] = todo[s] /\ cur'[s] = cur[s]
                   /\ v \in there' /\ at'[v] # Absent => v \in there /\ at'[v] = at[v]
<1>a. ~dry[s]
  BY OptsStay DEF opts
<1>b. Same => Due(s, v)
  BY <1>0, <1>a
<1>c. Same /\ Kept => Due(s, v)'
  BY <1>b
<1>1. ASSUME NEW t \in Sweeps \ {s}, NEW u \in Units, UnitStep(t, u) PROVE Same /\ Kept
  <2>1. v \in there' /\ at'[v] # Absent => v \in there /\ at'[v] = at[v]
    BY <1>1, UnitEffect, Types DEF cache
  <2> QED
    BY <1>1, <2>1, OthersStay
<1>2. ASSUME NEW u \in Units, UnitStep(s, u) PROVE Due(s, v)'
  <2>1. flawed'[s] = flawed[s]
    BY <1>2, UnitEffect, Types DEF Flaw
  <2>2. PICK from, to \in Working : Take(s, u, to) \/ Then(s, u, from, to)
    BY <1>2, UnitStepIs
  <2>3. pc[s] \in Working /\ cutoff' = cutoff
    BY <2>2 DEF Take, Then, Goto, Working
  <2>4. Due(s, v)
    BY <1>0, <1>a, <2>1, <2>3
  <2>5. spared[s] \subseteq spared'[s]
    BY <1>2, UnitEffect, Types DEF Spare
  <2>6. v \in there' /\ at'[v] # Absent => v \in there /\ at'[v] = at[v]
    BY <1>2, UnitEffect, Types DEF cache
  <2>7. CASE v # u
    <3>1. v \in todo[s] => v \in todo'[s]
      BY <2>2, <2>7, Types DEF Take, Then
    <3>2. v \in cur[s] => FALSE
      <4>1. Take(s, u, to) => cur[s] = {}
        BY DEF Take, SweepOrder
      <4>2. Then(s, u, from, to) => u \in cur[s]
        BY DEF Then
      <4> QED
        BY <2>2, <2>7, <4>1, <4>2 DEF SweepOrder
    <3> QED
      BY <2>3, <2>4, <2>5, <2>6, <3>1, <3>2
  <2>8. CASE v = u
    <3>1. ASSUME NEW x, NEW y, y # "loop", Take(s, u, y) \/ Then(s, u, x, y) PROVE Due(s, v)'
      BY <2>8, <3>1, InHand
    <3>2. Evict(s) # "loop"
      BY <1>a DEF Evict
    <3>3. CASE KeyNames(s, u)
      <4>1. CASE u \in writing \/ at[u] = Absent
        BY <2>8, <3>3, <4>1, Types DEF KeyNames, Spare
      <4>2. CASE ~(u \in writing \/ at[u] = Absent)
        BY <3>1, <3>3, <4>2 DEF KeyNames
      <4> QED
        BY <4>1, <4>2
    <3>4. ASSUME ~Old(s, u), UNCHANGED cache PROVE Due(s, v)'
      <4>1. at[u] = Absent \/ at[u] \in Int
        BY Types DEF Time
      <4>2. at[u] = Absent \/ at[u] > cutoff[s]
        BY <3>4, <4>1, Types DEF Old
      <4> QED
        BY <2>3, <2>8, <3>4, <4>2 DEF cache
    <3>5. CASE KeyInfo(s, u)
      <4>1. CASE Old(s, u) /\ (u \in linked => linksToo)
        BY <3>1, <3>2, <3>5, <4>1 DEF KeyInfo
      <4>2. CASE Old(s, u) /\ u \in linked /\ ~linksToo
        BY <2>8, <3>5, <4>2, Types DEF KeyInfo, Spare
      <4>3. CASE ~Old(s, u)
        BY <3>4, <3>5, <4>3 DEF KeyInfo
      <4> QED
        BY <4>1, <4>2, <4>3
    <3>6. CASE BaseWorkspace(s, u)
      BY <3>1, <3>2, <3>6 DEF BaseWorkspace
    <3>7. CASE BaseActivity(s, u)
      BY <3>1, <3>2, <3>4, <3>7 DEF BaseActivity
    <3>8. CASE ClassifyFails(s, u) \/ MoveFails(s, u)
      BY <3>8, Types DEF ClassifyFails, MoveFails, Flaw
    <3>9. CASE MkdirParent(s, u)
      BY <3>1, <3>9 DEF MkdirParent
    <3>10. CASE Rename(s, u)
      BY <2>8, <3>10 DEF Rename
    <3> QED
      BY <1>2, <3>3, <3>5, <3>6, <3>7, <3>8, <3>9, <3>10 DEF UnitStep
  <2> QED
    BY <2>7, <2>8
<1>3. ASSUME NEW t \in Sweeps, GivesUp(t) \/ Return(t) \/ Die(t) PROVE Same /\ Kept
  <2>1. End(t)
    BY <1>3 DEF GivesUp, Return, Die
  <2>2. t # s
    BY <2>1, EndOf DEF Working
  <2> QED
    BY <2>1, <2>2, EndOf DEF world, cache
<1>4. ASSUME NEW u \in Units, WriteEnds(u) \/ Hit(u) \/ Build(u) PROVE Due(s, v)'
  <2>1. Same /\ spared' = spared /\ todo' = todo /\ cur' = cur /\ Use(u)
    BY <1>4 DEF WriteEnds, Hit, Build
  <2>2. CASE v = u
    <3>1. cutoff[s] + MaxAge <= now
      BY <2>1 DEF SweepOrder, Working
    <3> QED
      BY <2>1, <2>2, <3>1, Types, TrashAssumption DEF Use, Time
  <2>3. CASE v # u
    <3>1. Kept
      BY <2>1, <2>3, Types DEF Use
    <3> QED
      BY <1>c, <2>1, <3>1
  <2> QED
    BY <2>2, <2>3
<1>5. ASSUME NEW u \in Units,
             WriteBegins(u) \/ LinkGoes(u) \/ WorkspaceGoes(u) \/ WorkspaceComes(u)
      PROVE  Same /\ Kept
  BY <1>5 DEF WriteBegins, LinkGoes, WorkspaceGoes, WorkspaceComes, local, cache, SweepOrder
<1>6. ASSUME NEW t \in Sweeps, MakeTrash(t) PROVE Due(s, v)'
  <2>1. CASE t = s
    BY <1>6, <2>1, Types DEF MakeTrash, Listed, world, cache
  <2>2. CASE t # s
    <3>1. Same /\ Kept
      BY <1>6, <2>2, Types DEF MakeTrash, Goto, world, cache
    <3> QED
      BY <1>c, <3>1
  <2> QED
    BY <2>1, <2>2
<1>7. ASSUME NEW t \in Sweeps,
             \/ Begin(t) \/ LoopEnds(t)
             \/ \E d \in Dirs : \/ Remove(t, d) \/ RemoveFails(t, d)
                                \/ \E u \in Units : Purge(t, d, u)
      PROVE  Same /\ Kept
  BY <1>7, Types DEF Begin, LoopEnds, Goto, Remove, RemoveFails, Purge, local, world, cache,
                     Working
<1>8. ASSUME Tick \/ UNCHANGED vars PROVE Same /\ Kept
  BY <1>8 DEF Tick, vars, local, world, cache
<1> QED
  BY <1>c, <1>1, <1>2, <1>3, <1>4, <1>5, <1>6, <1>7, <1>8
     DEF Next, WorldStep, Progress, UnitStep

-----------------------------------------------------------------------------
(***************************************************************************)
(* The invariant, and what it is for.                                      *)
(***************************************************************************)
Inv == /\ TypeOK /\ SweepOrder
       /\ UsedSurvive /\ OldToCome

\* In the beginning no sweep has anything in hand.
LEMMA InvInit == Init => Inv
<1> SUFFICES ASSUME Init PROVE Inv
  OBVIOUS
<1>1. SweepOrder /\ UsedSurvive /\ OldToCome
  BY DEF Init, SweepOrder, UsedSurvive, OldToCome
<1> QED
  BY <1>1, TypeInit DEF Inv

\* Every step keeps the invariant.
LEMMA InvStep == Inv /\ [Next]_vars => Inv'
  BY TypeStep, OrderStep, UsedStep, OldStep DEF Inv

\* The invariant of every run of the sweeps.
THEOREM Invariance == Spec => []Inv
  BY InvInit, InvStep, PTL DEF Spec

\* A sweep moves nothing to its trash that a build has used since the sweep
\* began, unless the use came after the decision or its workspace has gone
\* since (classifyDownloadKey, classifyOutputBase).
THEOREM UsedUnitsSurvive == Spec => []UsedSurvive
<1>1. Inv => UsedSurvive
  BY DEF Inv
<1> QED
  BY <1>1, Invariance, PTL

\* A sweep with no failure leaves nothing old but what it has seen in use,
\* whoever else sweeps, writes and links meanwhile.
THEOREM OldUnitsGo == Spec => []NothingOldLeft
<1>1. Inv => NothingOldLeft
  BY DEF Inv, OldToCome, SweepOrder, NothingOldLeft
<1> QED
  BY <1>1, Invariance, PTL
=============================================================================
