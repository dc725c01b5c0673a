------------------------------ MODULE MCConfig ------------------------------
(***************************************************************************)
(* Two worktrees, a and b, the home directory h and a shared directory t.  *)
(* s1 works in a, s2 works in b and has no $HOME.                          *)
(***************************************************************************)
EXTENDS Config

CONSTANTS s1, s2

A == <<"a">>
B == <<"b">>
H == <<"h">>
T == <<"t">>

MCShells == {s1, s2}
MCCwd == (s1 :> A) @@ (s2 :> B)
MCHome == (s1 :> H) @@ (s2 :> NoPath)

Set(flag, val) == [flag |-> flag, val |-> val]
Bare(flag) == Set(flag, NoValue)
Line(cmd, args) == [cmd |-> cmd, config |-> NoConfig, args |-> args]
Under(config, args) == [cmd |-> "build", config |-> config, args |-> args]
Import(path) == Line("import", <<Set("path", path)>>)
TryImport(path) == Line("try-import", <<Set("path", path)>>)

Disk(path) == Line("build", <<Set("disk_cache", path)>>)
Repo(path) == Line("common", <<Set("repository_cache", path)>>)
Age(age) == Line("build", <<Set(TTL, age)>>)
Platform == Line("common", <<Bare("enable_platform_specific_config")>>)
RC(dir) == Append(dir, ".bazelrc")
Team == Append(T, "team.rc")
Local == Append(T, "local.rc")

\* Both worktrees import the team's file, one of them overrides a directory
\* under the config of its platform.
Shared ==
    (RC(A) :> <<Import(Team), Age(14)>>)
    @@ (RC(B) :> <<Import(Team), Platform,
                   Under(HostConfig, <<Set("disk_cache", <<"%workspace%", "disk">>)>>),
                   Under("other", <<Set("disk_cache", <<".", "other">>)>>)>>)
    @@ (Team :> <<Disk(<<"~", "disk">>), Repo(<<".", "repo">>)>>)

\* Two contents caches beside one repository cache; the system's file, which
\* ages nothing.
Split ==
    (RC(A) :> <<Repo(<<"d", "repo">>),
                Line("build", <<Set("repo_contents_cache", <<"d", "contents">>)>>)>>)
    @@ (RC(B) :> <<Repo(<<"d", "repo">>),
                   Line("build", <<Set("repo_contents_cache", <<"d", "other">>)>>)>>)
    @@ (SystemRC :> <<Age(0), Disk(<<"d", "disk">>)>>)

\* A file that is missing below a try-import, a home file skipped, an age that
\* Bazel reads and Go does not; a file that imports itself.
Deep ==
    (RC(A) :> <<TryImport(Team), Line("startup", <<Bare("nohome_rc")>>),
                Disk(<<".", "disk">>), Age(Malformed)>>)
    @@ (RC(B) :> <<Disk(<<".", "disk">>), TryImport(RC(B))>>)
    @@ (Team :> <<Disk(<<".", "disk">>), Import(Local), Repo(<<".", "repo">>)>>)
    @@ (RC(H) :> <<Disk(<<".", "home">>)>>)

\* The files as they change with time.
MCRcs == <<Shared, Split, Deep>>

MCCommandLines ==
    {<<>>,
     ("socket" :> <<"x.sock">>) @@ ("dry-run" :> TRUE) @@ ("max-age" :> Default["max-age"]),
     ("workspace" :> A) @@ ("max-age-disk-cache" :> 24) @@ ("sweep-output-base" :> TRUE)
         @@ ("idle-timeout" :> 5) @@ ("gc-interval" :> 60)}
=============================================================================
