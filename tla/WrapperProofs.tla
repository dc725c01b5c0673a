---------------------------- MODULE WrapperProofs ----------------------------
(***************************************************************************)
(* For any versions and any builds: what can be run at $bin is whole and   *)
(* stays; and tools/bazel is whole if install-wrapper runs take turns.     *)
(***************************************************************************)
EXTENDS Wrapper, TLAPS

\* The initial values have their types.
LEMMA TypeInit == Init => TypeOK
<1>1. Init => InstallTyped
  BY WrapperAssumption DEF Init, InstallTyped, Content
<1>2. Init => BuildTyped
  BY WrapperAssumption DEF Init, BuildTyped, Content, File, NoFile
<1> QED
  BY <1>1, <1>2 DEF TypeOK

\* A step of install-wrapper keeps the types.
LEMMA TypeInstall ==
    ASSUME TypeOK, NEW i \in Installers,
           Render(i) \/ InstallStep(i) \/ WriteFails(i) \/ InstallFails(i)
    PROVE  TypeOK'
<1>1. BuildTyped'
  <2>1. UNCHANGED <<cache, script>>
    BY DEF Render, InstallStep, Open, Write, Rename, WriteFails, InstallFails
  <2> QED
    BY <2>1 DEF TypeOK, BuildTyped, cache, script
<1>2. InstallTyped'
  <2>0. InstallTyped
    BY DEF TypeOK
  <2> USE <2>0, WrapperAssumption DEF InstallTyped
  <2>1. CASE Render(i)
    BY <2>1 DEF Render
  <2>2. CASE Open(i)
    BY <2>2 DEF Open, Content
  <2>3. CASE Write(i)
    <3>1. plan[i] \in Versions
      BY <2>3 DEF Write
    <3>2. \A content \in Content : Written(content, plan[i]) \in Content
      BY <3>1 DEF Written, Content
    <3>3. out' \in Content /\ tmp' \in Content
      BY <2>3, <3>2 DEF Write, Put
    <3>4. plan' = plan
      BY <2>3 DEF Write
    <3>5. /\ inst' \in [Installers -> {"idle", "open", "write", "rename"}]
          /\ fd' \in [Installers -> {"none", "tmp", "out"}]
          /\ \A j \in Installers : /\ inst'[j] = "idle" <=> plan[j] = NoVersion
                                   /\ fd'[j] # "none" => inst'[j] = "write"
      BY <2>3 DEF Write
    <3> QED
      BY <3>3, <3>4, <3>5
  <2>4. CASE Rename(i)
    <3>1. fd[i] = "none"
      BY <2>4 DEF Rename
    <3>2. out' \in Content /\ tmp' \in Content
      BY <2>4 DEF Rename, Content
    <3>3. /\ plan' = [plan EXCEPT ![i] = NoVersion] /\ inst' = [inst EXCEPT ![i] = "idle"]
          /\ fd' = [j \in Installers |-> IF fd[j] = "tmp" THEN "out" ELSE "none"]
      BY <2>4 DEF Rename
    <3>4. \A j \in Installers : /\ inst'[j] = "idle" <=> plan'[j] = NoVersion
                                /\ fd'[j] # "none" => inst'[j] = "write"
      BY <3>1, <3>3
    <3> QED
      BY <3>2, <3>3, <3>4
  <2>5. CASE WriteFails(i)
    <3>1. out' \in Content /\ tmp' \in Content
      BY <2>5 DEF WriteFails, Put, Content
    <3> QED
      BY <2>5, <3>1 DEF WriteFails, Returns
  <2>6. CASE InstallFails(i)
    BY <2>6 DEF InstallFails, Returns
  <2> QED
    BY <2>1, <2>2, <2>3, <2>4, <2>5, <2>6 DEF InstallStep
<1> QED
  BY <1>1, <1>2 DEF TypeOK

\* A build reads the script only.
LEMMA BuildsReadOnly ==
    ASSUME NEW b \in Builds, Start(b) \/ ScriptStep(b) \/ Fetch(b) \/ Dies(b)
    PROVE  UNCHANGED install
BY DEF Start, ScriptStep, PassThrough, Check, Verify, Copy, Copied, Chmod, Publish, Hot, Fetch,
       Download, DownloadFails, Dies

\* A step of a build keeps the types.
LEMMA TypeBuild ==
    ASSUME TypeOK, NEW b \in Builds, Start(b) \/ ScriptStep(b) \/ Fetch(b) \/ Dies(b)
    PROVE  TypeOK'
<1>1. InstallTyped'
  BY BuildsReadOnly DEF TypeOK, InstallTyped, install
<1>2. BuildTyped'
  <2>0. BuildTyped
    BY DEF TypeOK
  <2> USE <2>0, WrapperAssumption DEF BuildTyped, cache, Goto
  <2>1. CASE Start(b)
    BY <2>1 DEF Start
  <2>2. CASE PassThrough(b) \/ Hot(b)
    BY <2>2 DEF PassThrough, Hot, Exec, Content
  <2>3. CASE Check(b) \/ Verify(b)
    BY <2>3 DEF Check, Verify
  <2>4. CASE Copy(b)
    BY <2>4 DEF Copy, Content, File
  <2>5. CASE Copied(b)
    BY <2>5 DEF Copied, File
  <2>6. CASE Chmod(b)
    <3>1. ver[b] \in Versions /\ part[ver[b]][b] \in File
      BY <2>6 DEF Chmod
    <3>2. \A f \in File : [f EXCEPT !.exec = TRUE] \in File
      BY DEF File
    <3>3. part' \in [Versions -> [Builds -> File]]
      BY <2>6, <3>1, <3>2 DEF Chmod
    <3> QED
      BY <2>6, <3>3 DEF Chmod
  <2>7. CASE Publish(b)
    <3>1. ver[b] \in Versions /\ NoFile \in File
      BY <2>7 DEF Publish, NoFile, File, Content
    <3> QED
      BY <2>7, <3>1 DEF Publish
  <2>8. CASE Fetch(b)
    BY <2>8 DEF Fetch, Download, DownloadFails, Content
  <2>9. CASE Dies(b)
    <3>1. ver[b] \in Versions /\ [content |-> Torn, exec |-> TRUE] \in File
      BY <2>9 DEF Dies, File, Content
    <3>2. part' \in [Versions -> [Builds -> File]]
      BY <2>9, <3>1 DEF Dies
    <3> QED
      BY <2>9, <3>2 DEF Dies, Exec, Content
  <2> QED
    BY <2>1, <2>2, <2>3, <2>4, <2>5, <2>6, <2>7, <2>8, <2>9 DEF ScriptStep
<1> QED
  BY <1>1, <1>2 DEF TypeOK

\* Every step keeps the types.
LEMMA TypeStep == TypeOK /\ [Next]_vars => TypeOK'
<1>1. CASE UNCHANGED vars
  BY <1>1 DEF vars, install, cache, script, TypeOK, InstallTyped, BuildTyped
<1> QED
  BY <1>1, TypeInstall, TypeBuild DEF Next

\* The variables hold values of their types.
THEOREM TypeCorrect == Spec => []TypeOK
  BY TypeInit, TypeStep, PTL DEF Spec

(***************************************************************************)
(* The binary.  What a script has past the checksum is its version; past   *)
(* the copy, so is its part, which nobody else writes to; and past chmod,  *)
(* its part can be run.                                                    *)
(***************************************************************************)
InstallOrder ==
    \A b \in Builds :
        /\ at[b] \in {"copy", "copying", "chmod", "rename"} => got[b] = ver[b]
        /\ at[b] \in {"chmod", "rename"} => part[ver[b]][b].content = ver[b]
        /\ at[b] = "rename" => part[ver[b]][b].exec

Inv == TypeOK /\ InstallOrder /\ BinWhole

\* A step of another build leaves the part of a script alone.
LEMMA PartStays ==
    ASSUME TypeOK, NEW b \in Builds, Start(b) \/ ScriptStep(b) \/ Fetch(b) \/ Dies(b),
           NEW c \in Builds, c # b
    PROVE  /\ at'[c] = at[c] /\ got'[c] = got[c] /\ ver'[c] = ver[c]
           /\ \A v \in Versions : part'[v][c] = part[v][c]
<1> USE DEF TypeOK, BuildTyped, cache, Goto
<1>1. CASE Start(b) \/ PassThrough(b) \/ Check(b) \/ Verify(b) \/ Hot(b) \/ Fetch(b)
  BY <1>1 DEF Start, PassThrough, Check, Verify, Hot, Exec, Fetch, Download, DownloadFails
<1>2. CASE Copy(b) \/ Copied(b) \/ Chmod(b)
  BY <1>2 DEF Copy, Copied, Chmod
<1>3. CASE Publish(b)
  BY <1>3 DEF Publish
<1>4. CASE Dies(b)
  BY <1>4 DEF Dies, Exec
<1> QED
  BY <1>1, <1>2, <1>3, <1>4 DEF ScriptStep

\* A step of a script keeps its own order.
LEMMA OrderOfBuild ==
    ASSUME TypeOK, InstallOrder,
           NEW b \in Builds, Start(b) \/ ScriptStep(b) \/ Fetch(b) \/ Dies(b)
    PROVE  /\ at'[b] \in {"copy", "copying", "chmod", "rename"} => got'[b] = ver'[b]
           /\ at'[b] \in {"chmod", "rename"} => part'[ver'[b]][b].content = ver'[b]
           /\ at'[b] = "rename" => part'[ver'[b]][b].exec
<1> USE DEF TypeOK, BuildTyped, InstallOrder, cache, Goto, File
<1>1. CASE Start(b) \/ PassThrough(b) \/ Check(b) \/ Hot(b) \/ Fetch(b)
  BY <1>1 DEF Start, PassThrough, Check, Hot, Exec, Fetch, Download, DownloadFails
<1>2. CASE Verify(b)
  BY <1>2 DEF Verify
<1>3. CASE Copy(b)
  BY <1>3 DEF Copy
<1>4. CASE Copied(b)
  BY <1>4 DEF Copied
<1>5. CASE Chmod(b)
  BY <1>5 DEF Chmod
<1>6. CASE Publish(b)
  BY <1>6 DEF Publish
<1>7. CASE Dies(b)
  BY <1>7 DEF Dies, Exec
<1> QED
  BY <1>1, <1>2, <1>3, <1>4, <1>5, <1>6, <1>7 DEF ScriptStep

\* Every step keeps the order of the commands.
LEMMA OrderStep == TypeOK /\ InstallOrder /\ [Next]_vars => InstallOrder'
<1> SUFFICES ASSUME TypeOK, InstallOrder, [Next]_vars PROVE InstallOrder'
  OBVIOUS
<1>1. ASSUME NEW b \in Builds, Start(b) \/ ScriptStep(b) \/ Fetch(b) \/ Dies(b)
      PROVE  InstallOrder'
  <2> SUFFICES ASSUME NEW c \in Builds
               PROVE  /\ at'[c] \in {"copy", "copying", "chmod", "rename"} => got'[c] = ver'[c]
                      /\ at'[c] \in {"chmod", "rename"} => part'[ver'[c]][c].content = ver'[c]
                      /\ at'[c] = "rename" => part'[ver'[c]][c].exec
    BY DEF InstallOrder
  <2>1. CASE c = b
    BY <1>1, <2>1, OrderOfBuild
  <2>2. CASE c # b
    <3>1. /\ at'[c] = at[c] /\ got'[c] = got[c] /\ ver'[c] = ver[c]
          /\ \A v \in Versions : part'[v][c] = part[v][c]
      BY <1>1, <2>2, PartStays
    <3>2. at[c] # "off" => ver[c] \in Versions
      BY DEF TypeOK, BuildTyped
    <3> QED
      BY <3>1, <3>2 DEF InstallOrder
  <2> QED
    BY <2>1, <2>2
<1>2. ASSUME NEW i \in Installers,
             Render(i) \/ InstallStep(i) \/ WriteFails(i) \/ InstallFails(i)
      PROVE  InstallOrder'
  BY <1>2 DEF InstallOrder, Render, InstallStep, Open, Write, Rename, WriteFails, InstallFails,
              cache, script
<1>3. CASE UNCHANGED vars
  BY <1>3 DEF vars, cache, script, InstallOrder
<1> QED
  BY <1>1, <1>2, <1>3 DEF Next

\* A step changes the file at $bin only where it publishes: the whole binary,
\* to be run.
LEMMA BinChanges ==
    ASSUME TypeOK, InstallOrder, [Next]_vars, NEW v \in Versions
    PROVE  bin'[v] = bin[v] \/ bin'[v] = [content |-> v, exec |-> TRUE]
<1> USE DEF install, cache, script
<1>1. ASSUME NEW b \in Builds, Publish(b)
      PROVE  bin'[v] = bin[v] \/ bin'[v] = [content |-> v, exec |-> TRUE]
  <2>1. CASE ver[b] = v
    <3>1. /\ bin'[v] = part[v][b] /\ part[v][b] \in File
          /\ part[v][b].content = v /\ part[v][b].exec
      BY <1>1, <2>1 DEF Publish, TypeOK, BuildTyped, InstallOrder
    <3> QED
      BY <3>1 DEF File
  <2>2. CASE ver[b] # v
    BY <1>1, <2>2 DEF Publish, TypeOK, BuildTyped
  <2> QED
    BY <2>1, <2>2
<1>2. ASSUME NEW b \in Builds, ~Publish(b), Start(b) \/ ScriptStep(b) \/ Fetch(b) \/ Dies(b)
      PROVE  bin' = bin
  BY <1>2 DEF Start, ScriptStep, PassThrough, Check, Verify, Copy, Copied, Chmod, Hot, Fetch,
              Download, DownloadFails, Dies
<1>3. ASSUME NEW i \in Installers,
             Render(i) \/ InstallStep(i) \/ WriteFails(i) \/ InstallFails(i)
      PROVE  bin' = bin
  BY <1>3 DEF Render, InstallStep, Open, Write, Rename, WriteFails, InstallFails
<1>4. CASE UNCHANGED vars
  BY <1>4 DEF vars
<1> QED
  BY <1>1, <1>2, <1>3, <1>4 DEF Next

\* The inductive invariant, and what a step does to a binary that can be run.
LEMMA InvHolds == Spec => []Inv
<1>1. Init => Inv
  BY TypeInit DEF Inv, Init, InstallOrder, BinWhole, Executable, NoFile
<1>2. Inv /\ [Next]_vars => Inv'
  <2> SUFFICES ASSUME Inv, [Next]_vars PROVE Inv'
    OBVIOUS
  <2>1. TypeOK' /\ InstallOrder'
    BY TypeStep, OrderStep DEF Inv
  <2>2. ASSUME NEW v \in Versions, bin'[v].exec PROVE bin'[v].content = v
    <3>1. bin'[v] = bin[v] \/ bin'[v] = [content |-> v, exec |-> TRUE]
      BY BinChanges DEF Inv
    <3>2. bin[v].exec => bin[v].content = v
      BY DEF Inv, BinWhole, Executable
    <3> QED
      BY <2>2, <3>1, <3>2
  <2> QED
    BY <2>1, <2>2 DEF Inv, BinWhole, Executable
<1> QED
  BY <1>1, <1>2, PTL DEF Spec

\* Whatever can be run at $bin is the whole binary of its version, for any
\* number of first runs, downloads and deaths (bazel.tmpl:76-82).
THEOREM BinariesWhole == Spec => []BinWhole
  BY InvHolds, PTL DEF Inv

\* An installed binary is never disturbed again (bazel.tmpl:82).
THEOREM BinariesStay == Spec => BinStays
<1>1. Inv /\ [Next]_vars
      => [\A v \in Versions : Executable(v) => bin'[v] = bin[v]]_vars
  <2> SUFFICES ASSUME Inv, [Next]_vars, NEW v \in Versions, Executable(v)
               PROVE  bin'[v] = bin[v]
    OBVIOUS
  <2>1. bin[v] \in File /\ bin[v].content = v /\ bin[v].exec
    BY DEF Inv, TypeOK, BuildTyped, BinWhole, Executable
  <2>2. bin[v] = [content |-> v, exec |-> TRUE]
    BY <2>1 DEF File
  <2> QED
    BY <2>2, BinChanges DEF Inv
<1> QED
  BY <1>1, InvHolds, PTL DEF Spec, BinStays

(***************************************************************************)
(* The script.                                                             *)
(***************************************************************************)
\* What a run of install-wrapper that is alone has written so far.
InTurn ==
    \A i \in Installers :
        /\ fd[i] # "out"
        /\ inst[i] = "write" => fd[i] = "tmp" /\ tmp = Empty
        /\ inst[i] = "rename" => tmp = plan[i]

\* tools/bazel is a whole script through every failure and crash of
\* install-wrapper, if there is only one at a time (wrapper.go:130).
THEOREM ScriptWhole ==
    ASSUME \A i, j \in Installers : i = j
    PROVE  Spec => []OutWhole
<1> DEFINE I == TypeOK /\ InTurn /\ OutWhole
<1>1. Init => I
  BY TypeInit DEF Init, InTurn, OutWhole
<1>2. I /\ [Next]_vars => I'
  <2> SUFFICES ASSUME TypeOK, InTurn, OutWhole, [Next]_vars PROVE (InTurn /\ OutWhole)'
    BY TypeStep
  <2> USE WrapperAssumption DEF TypeOK, InstallTyped, InTurn, OutWhole
  <2>1. ASSUME NEW i \in Installers, Render(i) PROVE (InTurn /\ OutWhole)'
    BY <2>1 DEF Render
  <2>2. ASSUME NEW i \in Installers, Open(i) PROVE (InTurn /\ OutWhole)'
    BY <2>2 DEF Open
  <2>3. ASSUME NEW i \in Installers, Write(i) PROVE (InTurn /\ OutWhole)'
    <3>1. /\ tmp = Empty /\ plan[i] \in Versions /\ fd[i] # "out"
          /\ plan' = plan /\ inst' = [inst EXCEPT ![i] = "rename"]
          /\ fd' = [fd EXCEPT ![i] = "none"]
      BY <2>3 DEF Write
    <3>2. Empty \in Content /\ Written(Empty, plan[i]) = plan[i]
      BY DEF Content, Written
    <3>3. out' = out /\ tmp' = plan[i]
      BY <2>3, <3>1, <3>2 DEF Write, Put
    <3> QED
      BY <3>1, <3>3
  <2>4. ASSUME NEW i \in Installers, Rename(i) PROVE (InTurn /\ OutWhole)'
    <3>1. tmp = plan[i] /\ plan[i] \in Versions /\ fd[i] = "none"
      BY <2>4 DEF Rename
    <3>2. \A j \in Installers : fd'[j] = "none" /\ inst'[j] = "idle"
      BY <2>4, <3>1 DEF Rename
    <3>3. out' \in Versions
      BY <2>4, <3>1 DEF Rename
    <3> QED
      BY <3>2, <3>3
  <2>5. ASSUME NEW i \in Installers, WriteFails(i) PROVE (InTurn /\ OutWhole)'
    BY <2>5 DEF WriteFails, Put, Returns
  <2>6. ASSUME NEW i \in Installers, InstallFails(i) PROVE (InTurn /\ OutWhole)'
    BY <2>6 DEF InstallFails, Returns
  <2>7. CASE UNCHANGED install
    BY <2>7 DEF install
  <2> QED
    BY <2>1, <2>2, <2>3, <2>4, <2>5, <2>6, <2>7, BuildsReadOnly DEF Next, InstallStep, vars
<1> QED
  BY <1>1, <1>2, PTL DEF Spec
=============================================================================
