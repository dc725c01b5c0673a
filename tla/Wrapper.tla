------------------------------ MODULE Wrapper ------------------------------
(***************************************************************************)
(* The wrapper script tools/bazel: `busybae install-wrapper` runs that     *)
(* write it (internal/wrapper/wrapper.go), and builds that run what is     *)
(* there (bazel.tmpl), the first of which download the pinned binary.      *)
(*                                                                         *)
(* A slot of Builds is a process id: it is used again when its process is  *)
(* gone.  All builds share one host's ids, one cache directory and one     *)
(* platform; a version stands for its script, its tarball, its binary.     *)
(***************************************************************************)
EXTENDS FiniteSets

CONSTANTS
    Versions,    \* the releases there are
    Builds,      \* process ids of scripts
    Installers,  \* processes that run install-wrapper; one slot: they take turns
    NoVersion,   \* that of a process that runs no script, or installs none
    Absent,      \* no file
    Empty,       \* a file just created or truncated
    Torn         \* part of a file, or a mixture of two

ASSUME WrapperAssumption ==
    /\ {Absent, Empty, Torn, NoVersion} \intersect Versions = {}
    /\ Absent # Empty /\ Absent # Torn /\ Empty # Torn

Content == Versions \union {Absent, Empty, Torn}

VARIABLES
    out,   \* the file tools/bazel
    tmp,   \* the file tools/bazel.tmp
    plan,  \* plan[i]: the version i installs
    inst,  \* inst[i]: the next call of Install in i
    fd,    \* fd[i]: the name that the file i has open goes by now
    bin,   \* bin[v]: the file $bin of version v, and whether it is executable
    part,  \* part[v][b]: the file $bin.tmp.$$ of the script b
    ver,   \* ver[b]: the version of the script b runs
    got,   \* got[b]: what b has downloaded
    at     \* at[b]: the next command of the script b

install == <<out, tmp, plan, inst, fd>>
cache == <<bin, part>>
script == <<ver, got, at>>
vars == <<install, cache, script>>

File == [content : Content, exec : BOOLEAN]
NoFile == [content |-> Absent, exec |-> FALSE]

\* The types, of what install-wrapper has and of what builds have.
InstallTyped ==
    /\ out \in Content /\ tmp \in Content
    /\ plan \in [Installers -> Versions \union {NoVersion}]
    /\ inst \in [Installers -> {"idle", "open", "write", "rename"}]
    /\ fd \in [Installers -> {"none", "tmp", "out"}]
    /\ \A i \in Installers :
           /\ inst[i] = "idle" <=> plan[i] = NoVersion
           /\ fd[i] # "none" => inst[i] = "write"

BuildTyped ==
    /\ bin \in [Versions -> File]
    /\ part \in [Versions -> [Builds -> File]]
    /\ ver \in [Builds -> Versions \union {NoVersion}]
    /\ got \in [Builds -> Content]
    /\ at \in [Builds -> {"off", "check", "download", "verify", "copy", "copying", "chmod",
                          "rename", "hot"}]
    /\ \A b \in Builds : at[b] = "off" <=> ver[b] = NoVersion

TypeOK == InstallTyped /\ BuildTyped

Init ==
    /\ out = Absent /\ tmp = Absent
    /\ plan = [i \in Installers |-> NoVersion]
    /\ inst = [i \in Installers |-> "idle"]
    /\ fd = [i \in Installers |-> "none"]
    /\ bin = [v \in Versions |-> NoFile]
    /\ part = [v \in Versions |-> [b \in Builds |-> NoFile]]
    /\ ver = [b \in Builds |-> NoVersion]
    /\ got = [b \in Builds |-> Absent]
    /\ at = [b \in Builds |-> "off"]

(***************************************************************************)
(* Install.                                                                *)
(***************************************************************************)
\* Mutant: a write that fails leaves the file open.
ReturnsOpen(i) ==
    /\ inst' = [inst EXCEPT ![i] = "idle"]
    /\ plan' = [plan EXCEPT ![i] = NoVersion]
    /\ UNCHANGED fd

Returns(i) ==
    /\ inst' = [inst EXCEPT ![i] = "idle"]
    /\ fd' = [fd EXCEPT ![i] = "none"]
    /\ plan' = [plan EXCEPT ![i] = NoVersion]

\* The checksums are there, the script is rendered.
Render(i) ==
    /\ inst[i] = "idle"
    /\ \E v \in Versions : plan' = [plan EXCEPT ![i] = v]
    /\ inst' = [inst EXCEPT ![i] = "open"]
    /\ UNCHANGED <<out, tmp, fd, cache, script>>

\* Mutant: the script is written in place.
OpenInPlace(i) ==
    /\ inst[i] = "open"
    /\ out' = Empty
    /\ fd' = [fd EXCEPT ![i] = "out"]
    /\ inst' = [inst EXCEPT ![i] = "write"]
    /\ UNCHANGED <<tmp, plan, cache, script>>

\* os.WriteFile truncates the file that is there, whoever has it open.
Open(i) ==
    /\ inst[i] = "open"
    /\ tmp' = Empty
    /\ fd' = [fd EXCEPT ![i] = "tmp"]
    /\ inst' = [inst EXCEPT ![i] = "write"]
    /\ UNCHANGED <<out, plan, cache, script>>

\* What a file holds after v has been written from its beginning.
Written(content, v) == IF content \in {Empty, v} THEN v ELSE Torn

\* The bytes go to the file that was opened, wherever it has moved.
Put(i, after) ==
    /\ tmp' = IF fd[i] = "tmp" THEN after[tmp] ELSE tmp
    /\ out' = IF fd[i] = "out" THEN after[out] ELSE out

Write(i) ==
    /\ inst[i] = "write"
    /\ Put(i, [content \in Content |-> Written(content, plan[i])])
    /\ fd' = [fd EXCEPT ![i] = "none"]
    /\ inst' = [inst EXCEPT ![i] = "rename"]
    /\ UNCHANGED <<plan, cache, script>>

\* The disk is full, or the process is killed: part of it is written.
WriteFails(i) ==
    /\ inst[i] = "write"
    /\ Put(i, [content \in Content |-> Torn])
    /\ Returns(i)
    /\ UNCHANGED <<cache, script>>

\* Whoever has the file open that was tools/bazel now has a file without name.
Rename(i) ==
    /\ inst[i] = "rename" /\ tmp # Absent
    /\ out' = tmp /\ tmp' = Absent
    /\ fd' = [j \in Installers |-> IF fd[j] = "tmp" THEN "out" ELSE "none"]
    /\ inst' = [inst EXCEPT ![i] = "idle"]
    /\ plan' = [plan EXCEPT ![i] = NoVersion]
    /\ UNCHANGED <<cache, script>>

\* A call fails, or the process is killed.
InstallFails(i) ==
    /\ inst[i] # "idle"
    /\ Returns(i)
    /\ UNCHANGED <<out, tmp, cache, script>>

(***************************************************************************)
(* The script.                                                             *)
(***************************************************************************)
Goto(b, label) == at' = [at EXCEPT ![b] = label]

\* bazelisk runs tools/bazel.
Start(b) ==
    /\ at[b] = "off" /\ out \in Versions
    /\ ver' = [ver EXCEPT ![b] = out]
    /\ Goto(b, "check")
    /\ UNCHANGED <<install, cache, got>>

\* exec: the build takes the process over.
Exec(b) ==
    /\ Goto(b, "off")
    /\ ver' = [ver EXCEPT ![b] = NoVersion] /\ got' = [got EXCEPT ![b] = Absent]

\* $CI, $BUSYBAE_DISABLE, an unknown platform.
PassThrough(b) ==
    /\ at[b] = "check"
    /\ Exec(b)
    /\ UNCHANGED <<install, cache>>

Executable(v) == bin[v].exec

Check(b) ==
    /\ at[b] = "check"
    /\ Goto(b, IF Executable(ver[b]) THEN "hot" ELSE "download")
    /\ UNCHANGED <<install, cache, ver, got>>

\* mktemp -d, and the tarball or something else that answers at its place.
Download(b) ==
    /\ at[b] = "download"
    /\ got' \in {[got EXCEPT ![b] = c] : c \in {ver[b], Torn}}
    /\ Goto(b, "verify")
    /\ UNCHANGED <<install, cache, ver>>

DownloadFails(b) ==
    /\ at[b] = "download"
    /\ Goto(b, "hot")
    /\ UNCHANGED <<install, cache, ver, got>>

\* Mutant: no checksum.
VerifyNothing(b) ==
    /\ at[b] = "verify"
    /\ Goto(b, "copy")
    /\ UNCHANGED <<install, cache, ver, got>>

Verify(b) ==
    /\ at[b] = "verify"
    /\ Goto(b, IF got[b] = ver[b] THEN "copy" ELSE "hot")
    /\ UNCHANGED <<install, cache, ver, got>>

\* tar and mkdir -p; the first mv then crosses file systems, and copies.
Copy(b) ==
    /\ at[b] = "copy"
    /\ part' = [part EXCEPT ![ver[b]][b] = [content |-> Torn, exec |-> FALSE]]
    /\ Goto(b, "copying")
    /\ UNCHANGED <<install, bin, ver, got>>

\* The copy has the mode that the file has in the tarball.
Copied(b) ==
    /\ at[b] = "copying"
    /\ \E mode \in BOOLEAN :
           part' = [part EXCEPT ![ver[b]][b] = [content |-> got[b], exec |-> mode]]
    /\ Goto(b, "chmod")
    /\ UNCHANGED <<install, bin, ver, got>>

\* Mutants: chmod is left out, or done after the rename.
ChmodNothing(b) ==
    /\ at[b] = "chmod"
    /\ Goto(b, "rename")
    /\ UNCHANGED <<install, cache, ver, got>>

ChmodBin(b) ==
    /\ at[b] = "chmod"
    /\ bin' = [bin EXCEPT ![ver[b]] = [content |-> got[b], exec |-> FALSE]]
    /\ part' = [part EXCEPT ![ver[b]][b].exec = TRUE]
    /\ Goto(b, "rename")
    /\ UNCHANGED <<install, ver, got>>

Chmod(b) ==
    /\ at[b] = "chmod"
    /\ part' = [part EXCEPT ![ver[b]][b].exec = TRUE]
    /\ Goto(b, "rename")
    /\ UNCHANGED <<install, bin, ver, got>>

Publish(b) ==
    /\ at[b] = "rename"
    /\ bin' = [bin EXCEPT ![ver[b]] = part[ver[b]][b]]
    /\ part' = [part EXCEPT ![ver[b]][b] = NoFile]
    /\ Goto(b, "hot")
    /\ UNCHANGED <<install, ver, got>>

\* The poke, if the binary can be run, is left to itself.
Hot(b) ==
    /\ at[b] = "hot"
    /\ Exec(b)
    /\ UNCHANGED <<install, cache>>

\* A command fails under set -e, or the script is killed: there is no build.
\* What it leaves at $bin.tmp.$$ counts as the worst that may be there.
\* (Before these commands and after them a script that is killed leaves no
\* more behind than one that is done.)
Dies(b) ==
    /\ at[b] \notin {"off", "check", "hot"}
    /\ part' = IF part[ver[b]][b] = NoFile THEN part
               ELSE [part EXCEPT ![ver[b]][b] = [content |-> Torn, exec |-> TRUE]]
    /\ Exec(b)
    /\ UNCHANGED <<install, bin>>

InstallStep(i) == Open(i) \/ Write(i) \/ Rename(i)
ScriptStep(b) ==
    \/ PassThrough(b) \/ Check(b) \/ Verify(b)
    \/ Copy(b) \/ Copied(b) \/ Chmod(b) \/ Publish(b) \/ Hot(b)
Fetch(b) == Download(b) \/ DownloadFails(b)

Next ==
    \/ \E i \in Installers : Render(i) \/ InstallStep(i) \/ WriteFails(i) \/ InstallFails(i)
    \/ \E b \in Builds : Start(b) \/ ScriptStep(b) \/ Fetch(b) \/ Dies(b)

Spec == Init /\ [][Next]_vars

\* A script that can go on does; how long a download takes is not its doing.
Fairness == \A b \in Builds : WF_vars(ScriptStep(b))

FairSpec == Spec /\ Fairness

(***************************************************************************)
(* Properties.                                                             *)
(***************************************************************************)
\* tools/bazel is a whole script at any time, through failures and crashes
\* of install-wrapper at any point, as long as its runs take turns: they
\* share the sibling they write to (Install, wrapper.go:129).
OutWhole == out \in Versions \union {Absent}

\* Whatever can be run at $bin is the whole verified binary of its version,
\* whoever else downloads, copies, dies or leaves parts there, and though the
\* first mv is no rename (bazel.tmpl:76).
BinWhole == \A v \in Versions : Executable(v) => bin[v].content = v

\* An installed binary is never disturbed again, not by a first run that comes
\* in late either: `"$bin" poke` finds it whatever moment it comes.
BinStays ==
    [][\A v \in Versions : Executable(v) => bin'[v] = bin[v]]_vars

\* If the tarball of v is downloaded again and again, and from some time on no
\* script dies half way, the binary is installed for good.
Installed ==
    \A v \in Versions :
        /\ []<>(\E b \in Builds : at[b] = "verify" /\ ver[b] = v /\ got[b] = v)
        /\ <>[][\A b \in Builds : ~Dies(b)]_vars
        => <>[]Executable(v)
=============================================================================
