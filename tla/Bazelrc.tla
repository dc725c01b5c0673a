------------------------------ MODULE Bazelrc ------------------------------
(***************************************************************************)
(* What busybae reads from the .bazelrc files (internal/bazelrc, and       *)
(* discoverDirs and activeConfigs of main.go): the files a workspace       *)
(* loads, the lines they come to, and the cache directories those declare. *)
(*                                                                         *)
(* A path is the sequence of its components, an absolute one from its      *)
(* root, any other from "%workspace%", "~" or "."; the empty path is the   *)
(* empty string.  The files there are form a function from their paths to  *)
(* their lines, or to Garbled.  A line is a record [cmd, config, args]; an *)
(* argument is a record [flag, val] whose val is NoValue if it has none,   *)
(* and the first argument of an import has the imported path for its val.  *)
(* Tokens and quoting, and a flag whose value is a token of its own, are   *)
(* left out.                                                               *)
(***************************************************************************)
EXTENDS SequencesExt, FiniteSets, Integers

CONSTANTS
    Garbled,     \* a file that cannot be read or tokenized
    NoValue,     \* the value of a flag given bare
    NoConfig,    \* the config of a line without a suffix
    HostConfig,  \* the config of this platform: "linux", "macos", ...
    Malformed    \* the value of a duration that cannot be parsed

NoPath == <<>>
SystemRC == <<"etc", "bazel.bazelrc">>

(***************************************************************************)
(* Paths.  workspace is never empty here, home is NoPath if not known.     *)
(***************************************************************************)
Dir(file) == Front(file)

Resolvable(raw, home) == raw # NoPath /\ (raw[1] = "~" => home # NoPath)

Resolve(raw, baseDir, workspace, home) ==
    CASE raw[1] = "%workspace%" -> workspace \o Tail(raw)
      [] raw[1] = "~"           -> home \o Tail(raw)
      [] raw[1] = "."           -> baseDir \o Tail(raw)
      [] OTHER                  -> raw

(***************************************************************************)
(* Arguments.  The last occurrence of a flag wins.                         *)
(***************************************************************************)
HasFlag(args, name) == \E i \in DOMAIN args : args[i] = [flag |-> name, val |-> NoValue]

Occurrences(args, name) ==
    {i \in DOMAIN args : args[i].flag = name /\ args[i].val # NoValue}

ExtractFlag(args, name) == args[Max(Occurrences(args, name))].val

(***************************************************************************)
(* Loading: the outcome is a list of entries, or the kind of the error.    *)
(***************************************************************************)
Loaded(entries) == [err |-> "none", entries |-> entries]
Failure(err) == [err |-> err, entries |-> <<>>]

Importing == {"import", "try-import"}

\* What Parse makes of the files, which are finitely many: lists of lines with
\* lists of arguments, of which the first of an import is a path.
Readable(files) ==
    /\ IsFiniteSet(DOMAIN files) /\ DOMAIN files \subseteq Seq(STRING)
    /\ \A file \in DOMAIN files : files[file] # Garbled =>
          /\ files[file] \in Seq(ToSet(files[file]))
          /\ \A line \in ToSet(files[file]) :
                /\ line.args \in Seq(ToSet(line.args))
                /\ line.cmd \in Importing /\ line.args # <<>> => line.args[1].val \in Seq(STRING)

\* chain is the file to load, after the files that are importing it.

\* Mutant: an entry belongs to the file the load began with.
EntryOfFirst(chain, line) ==
    [cmd |-> line.cmd, config |-> line.config, args |-> line.args, source |-> Head(chain)]

Entry(chain, line) ==
    [cmd |-> line.cmd, config |-> line.config, args |-> line.args, source |-> Last(chain)]

\* Mutant: what is missing is skipped, whichever import names it.
BringAny(cmd, out, sub) ==
    CASE sub.err = "none" -> Loaded(out.entries \o sub.entries)
      [] sub.err = "missing" -> out
      [] OTHER -> sub

\* A try-import forgives whatever is missing, however deep below it.
Bring(cmd, out, sub) ==
    CASE sub.err = "none" -> Loaded(out.entries \o sub.entries)
      [] cmd = "try-import" /\ sub.err = "missing" -> out
      [] OTHER -> sub

\* One more line of the file; load tells what an import brings.
Expand(chain, workspace, home, load, out, line) ==
    CASE out.err # "none" -> out
      [] out.err = "none" /\ line.cmd \notin Importing ->
             Loaded(Append(out.entries, Entry(chain, line)))
      [] OTHER ->
             IF line.args = <<>> \/ ~Resolvable(line.args[1].val, home) THEN Failure("usage")
             ELSE Bring(line.cmd, out, load[Append(chain,
                      Resolve(line.args[1].val, Dir(Last(chain)), workspace, home))])

LoadOne(files, workspace, home) ==
    LET load[chain \in Seq(Seq(STRING))] ==
        LET file == Last(chain) IN
        CASE file \in ToSet(Front(chain)) -> Failure("cycle")
          [] file \notin DOMAIN files     -> Failure("missing")
          [] files[file] = Garbled        -> Failure("parse")
          [] OTHER -> FoldLeft(LAMBDA out, line : Expand(chain, workspace, home, load, out, line),
                               Loaded(<<>>), files[file])
    IN  load

\* In the order of precedence, each with the startup flag that disables it.
Candidates(workspace, home) ==
    <<[path |-> SystemRC, off |-> "nosystem_rc"],
      [path |-> Append(workspace, ".bazelrc"), off |-> "noworkspace_rc"]>>
    \o IF home = NoPath THEN <<>>
       ELSE <<[path |-> Append(home, ".bazelrc"), off |-> "nohome_rc"]>>

\* The first pass loads every candidate there is, those to be skipped too; a
\* file that is not there comes to nothing.
Load(files, workspace, home) ==
    LET candidates == Candidates(workspace, home)
        loaded == [i \in DOMAIN candidates |->
                       IF candidates[i].path \in DOMAIN files
                       THEN LoadOne(files, workspace, home)[<<candidates[i].path>>]
                       ELSE Loaded(<<>>)]
        failed == {i \in DOMAIN candidates : loaded[i].err # "none"}
        startup == {e \in UNION {ToSet(loaded[i].entries) : i \in DOMAIN candidates} :
                       e.cmd = "startup"}
        skipped == {c.path : c \in {d \in ToSet(candidates) :
                                       \E e \in startup : HasFlag(e.args, d.off)}}
    IN  IF failed # {} THEN loaded[Min(failed)]
        ELSE Loaded(FlattenSeq([i \in DOMAIN candidates |->
                 IF candidates[i].path \in skipped THEN <<>> ELSE loaded[i].entries]))

(***************************************************************************)
(* What the entries declare.                                               *)
(***************************************************************************)
activeConfigs(entries) ==
    LET concerns(e) == /\ e.cmd \in {"build", "common"}
                       /\ \/ HasFlag(e.args, "enable_platform_specific_config")
                          \/ HasFlag(e.args, "noenable_platform_specific_config")
        last == SelectLastInSeq(entries, concerns)
    IN  IF last # 0 /\ ~HasFlag(entries[last].args, "noenable_platform_specific_config")
        THEN {HostConfig} ELSE {}

TTL == "experimental_disk_cache_gc_max_age"

\* The directories, in the order they are resolved in.
DirFlags == <<"repository_cache", "disk_cache", "repo_contents_cache", "output_user_root">>

\* An entry counts if it is in force, a startup flag only on a startup line.
Declares(e, name, active) ==
    /\ e.config \in {NoConfig} \union active
    /\ name = "output_user_root" => e.cmd = "startup"
    /\ Occurrences(e.args, name) # {}

\* A malformed duration ends the scan, a path that cannot be resolved the
\* resolution: what has been found by then is returned, as it is by then.
ExtractCacheDirs(entries, workspace, home, active) ==
    LET at(name) == {i \in DOMAIN entries : Declares(entries[i], name, active)}
        value(i, name) == ExtractFlag(entries[i].args, name)
        bad == {i \in at(TTL) : value(i, TTL) = Malformed}
        seen(name) == {i \in at(name) : \A b \in bad : i <= b}
        ages == at(TTL) \ {i \in at(TTL) : \E b \in bad : i >= b}
        raw == [name \in ToSet(DirFlags) |->
                    IF seen(name) = {} THEN NoPath ELSE value(Max(seen(name)), name)]
        stuck == {i \in DOMAIN DirFlags : /\ raw[DirFlags[i]] # NoPath
                                          /\ ~Resolvable(raw[DirFlags[i]], home)}
        err == bad # {} \/ stuck # {}
        done == {DirFlags[i] : i \in {j \in DOMAIN DirFlags :
                                         bad = {} /\ \A s \in stuck : j < s}}
        dir == [name \in ToSet(DirFlags) |->
                    IF name \notin done \/ raw[name] = NoPath THEN raw[name]
                    ELSE Resolve(raw[name], Dir(entries[Max(seen(name))].source), workspace, home)]
        repo == dir["repository_cache"]
    IN  [age |-> IF ages = {} THEN 0 ELSE value(Max(ages), TTL),
         err |-> err,
         download |-> IF err \/ repo = NoPath THEN NoPath ELSE Append(repo, "content_addressable"),
         dir |-> IF err \/ repo = NoPath \/ dir["repo_contents_cache"] # NoPath THEN dir
                 ELSE [dir EXCEPT !["repo_contents_cache"] = Append(repo, "contents")]]

\* A load that fails leaves nothing, an extraction that fails what it had.
discoverDirs(files, workspace, home) ==
    LET load == Load(files, workspace, home)
    IN  IF load.err # "none"
        THEN [dir |-> [name \in ToSet(DirFlags) |-> NoPath],
              download |-> NoPath, age |-> 0, err |-> TRUE]
        ELSE ExtractCacheDirs(load.entries, workspace, home, activeConfigs(load.entries))

(***************************************************************************)
(* What loading promises: a file that contributes a line contributes all   *)
(* of its lines, in their order, as often as it is imported, and whatever  *)
(* it imports is there.                                                    *)
(***************************************************************************)

\* The elements of s that are in T, in their order.
Among(s, T) == FoldLeft(LAMBDA out, x : IF x \in T THEN Append(out, x) ELSE out, <<>>, s)

\* What a file says by itself, without its imports.
Says(files, file) ==
    LET all == [i \in DOMAIN files[file] |-> Entry(<<file>>, files[file][i])]
    IN  Among(all, {e \in ToSet(all) : e.cmd \notin Importing})

\* s is t, any number of times over.
Repeats(s, t) ==
    Len(s) % Len(t) = 0 /\ \A i \in DOMAIN s : s[i] = t[((i - 1) % Len(t)) + 1]

LoadsWhole(files, workspace, home) ==
    LET entries == Load(files, workspace, home).entries
        sources == {e.source : e \in ToSet(entries)}
        target(file, line) == Resolve(line.args[1].val, Dir(file), workspace, home)
    IN  \A file \in sources :
            /\ Repeats(Among(entries, {e \in ToSet(entries) : e.source = file}), Says(files, file))
            /\ \A line \in ToSet(files[file]) : line.cmd = "import" =>
                   /\ target(file, line) \in DOMAIN files
                   /\ Says(files, target(file, line)) # <<>> => target(file, line) \in sources
=============================================================================
