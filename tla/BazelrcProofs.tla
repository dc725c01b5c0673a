---------------------------- MODULE BazelrcProofs ----------------------------
(***************************************************************************)
(* For any list of entries: which of them a directory comes from, and what *)
(* discovery promises whatever the files are.  For any files: what the     *)
(* list that Load makes of them is like.  LoadOne calls itself and         *)
(* FoldLeft hides a recursion, as FlattenSeq does: each is first shown to  *)
(* be its recursion (LoadOneUnfolds, LinesFold and AmongFold,              *)
(* FlattenKeeps), by inductions that are about sets of numbers, since < is *)
(* well-founded (AllNumbers).                                              *)
(***************************************************************************)
EXTENDS Bazelrc, WellFoundedInduction, FiniteSetTheorems, SequenceTheorems, TLAPS

\* A set of positions that is not empty has a last one.
LEMMA MaxIsLast ==
    ASSUME NEW n \in Nat, NEW S \in SUBSET (1..n), S # {}
    PROVE  Max(S) \in S /\ \A i \in S : i <= Max(S)
<1> DEFINE T == {n - i : i \in S}
<1>1. T \subseteq Nat /\ T # {}
  <2>1. \A i \in S : n - i \in Nat
    OBVIOUS
  <2> QED
    BY <2>1
<1>2. PICK x \in T : \A y \in T : ~(<<y, x>> \in OpToRel(<, Nat))
  BY <1>1, NatLessThanWellFounded, WFMin
<1>3. \A y \in T : ~(y < x)
  BY <1>1, <1>2 DEF OpToRel
<1>4. PICK i \in S : x = n - i
  BY <1>2
<1>5. ASSUME NEW j \in S PROVE i >= j
  <2>1. n - j \in T
    BY <1>5
  <2> QED
    BY <1>3, <1>4, <2>1
<1>6. \E m \in S : \A j \in S : m >= j
  BY <1>5
<1>7. Max(S) \in S /\ \A j \in S : Max(S) >= j
  BY <1>6 DEF Max
<1> QED
  BY <1>7

\* What holds of 0, and of n + 1 if of n, holds of every number: the set of
\* the others has no least element.
LEMMA AllNumbers ==
    ASSUME NEW T, 0 \in T, \A n \in Nat : n \in T => n + 1 \in T
    PROVE  Nat \subseteq T
<1> SUFFICES ASSUME Nat \ T # {} PROVE FALSE
  OBVIOUS
<1>1. PICK x \in Nat \ T : \A y \in Nat \ T : ~(<<y, x>> \in OpToRel(<, Nat))
  BY NatLessThanWellFounded, WFMin
<1>2. \A y \in Nat \ T : ~(y < x)
  BY <1>1 DEF OpToRel
<1>3. x # 0 /\ x - 1 \in Nat /\ x - 1 < x
  OBVIOUS
<1>4. x - 1 \in T
  BY <1>2, <1>3
<1> QED
  BY <1>3, <1>4

\* What holds of the empty sequence, and of s with one more element if of s,
\* holds of every sequence.
LEMMA AllSequences ==
    ASSUME NEW S, NEW T, <<>> \in T,
           \A s \in Seq(S), x \in S : s \in T => Append(s, x) \in T
    PROVE  Seq(S) \subseteq T
<1> DEFINE N == {n \in Nat : \A s \in Seq(S) : Len(s) = n => s \in T}
<1>1. 0 \in N
  BY EmptySeq
<1>2. ASSUME NEW n \in Nat, n \in N PROVE n + 1 \in N
  <2>1. ASSUME NEW s \in Seq(S), Len(s) = n + 1 PROVE s \in T
    <3>1. s # <<>>
      BY <2>1, EmptySeq
    <3>2. PICK f \in Seq(S), x \in S : s = Append(f, x)
      BY <3>1, SequenceEmptyOrAppend
    <3>3. Len(f) = n
      BY <2>1, <3>2, AppendProperties, LenProperties
    <3> QED
      BY <1>2, <3>2, <3>3
  <2> QED
    BY <2>1
<1>3. Nat \subseteq N
  <2> HIDE DEF N
  <2> QED
    BY <1>1, <1>2, AllNumbers
<1> QED
  BY <1>3, LenProperties

(***************************************************************************)
(* Which line a directory comes from.                                      *)
(***************************************************************************)
\* The last occurrence of a flag with a value wins (ExtractFlag).
LEMMA LastFlagWins ==
    ASSUME NEW m \in Nat, NEW args, DOMAIN args = 1..m, NEW name, Occurrences(args, name) # {}
    PROVE  \E i \in DOMAIN args :
               /\ args[i].flag = name /\ args[i].val # NoValue
               /\ ExtractFlag(args, name) = args[i].val
               /\ \A j \in DOMAIN args : args[j].flag = name /\ args[j].val # NoValue => j <= i
<1> DEFINE S == Occurrences(args, name)
<1>1. S \in SUBSET (1..m) /\ S # {}
  BY DEF Occurrences
<1>2. Max(S) \in S /\ \A i \in S : i <= Max(S)
  BY <1>1, MaxIsLast
<1> QED
  BY <1>2 DEF Occurrences, ExtractFlag

\* What discovery promises, whatever is in the files: all of the directories,
\* and a download cache below the repository cache.
Complete(cache) ==
    /\ cache.err \in BOOLEAN
    /\ cache.err \/
        /\ cache.dir = [name \in ToSet(DirFlags) |-> cache.dir[name]]
        /\ cache.download =
               LET repo == cache.dir["repository_cache"]
               IN  IF repo = NoPath THEN NoPath ELSE Append(repo, "content_addressable")

\* What an entry's line gives a directory: the last line in force decides, and
\* an empty path is none.
Own(entries, name, workspace, home, active) ==
    LET at == {i \in DOMAIN entries : Declares(entries[i], name, active)}
        raw == ExtractFlag(entries[Max(at)].args, name)
    IN  IF at = {} \/ raw = NoPath THEN NoPath
        ELSE Resolve(raw, Dir(entries[Max(at)].source), workspace, home)

\* What is extracted is that, but for a contents cache no line declares.
LEMMA Extracted ==
    ASSUME NEW entries, NEW workspace, NEW home, NEW active
    PROVE  LET cache == ExtractCacheDirs(entries, workspace, home, active)
               repo == cache.dir["repository_cache"]
           IN  /\ Complete(cache)
               /\ ~cache.err => \A name \in ToSet(DirFlags) :
                      \/ cache.dir[name] = Own(entries, name, workspace, home, active)
                      \/ /\ name = "repo_contents_cache" /\ repo # NoPath
                         /\ Own(entries, name, workspace, home, active) = NoPath
                         /\ cache.dir[name] = Append(repo, "contents")
<1> DEFINE at(name) == {i \in DOMAIN entries : Declares(entries[i], name, active)}
           value(i, name) == ExtractFlag(entries[i].args, name)
           bad == {i \in at(TTL) : value(i, TTL) = Malformed}
           seen(name) == {i \in at(name) : \A b \in bad : i <= b}
           ages == at(TTL) \ {i \in at(TTL) : \E b \in bad : i >= b}
           raw == [name \in ToSet(DirFlags) |->
                       IF seen(name) = {} THEN NoPath ELSE value(Max(seen(name)), name)]
           stuck == {i \in DOMAIN DirFlags : /\ raw[DirFlags[i]] # NoPath
                                             /\ ~Resolvable(raw[DirFlags[i]], home)}
           err == bad # {} \/ stuck # {}
           done == {DirFlags[i] : i \in {j \in DOMAIN DirFlags :
                                            bad = {} /\ \A s \in stuck : j < s}}
           Place(name) ==
               IF name \notin done \/ raw[name] = NoPath THEN raw[name]
               ELSE Resolve(raw[name], Dir(entries[Max(seen(name))].source), workspace, home)
           dir == [name \in ToSet(DirFlags) |-> Place(name)]
           repo == dir["repository_cache"]
           age == IF ages = {} THEN 0 ELSE value(Max(ages), TTL)
           all == IF err \/ repo = NoPath \/ dir["repo_contents_cache"] # NoPath THEN dir
                  ELSE [dir EXCEPT !["repo_contents_cache"] = Append(repo, "contents")]
           download == IF err \/ repo = NoPath THEN NoPath
                       ELSE Append(repo, "content_addressable")
           cache == [age |-> age, err |-> err, download |-> download, dir |-> all]
<1>1. ExtractCacheDirs(entries, workspace, home, active) = cache
  BY DEF ExtractCacheDirs
<1>2. err \in BOOLEAN
  OBVIOUS
<1>3. ASSUME ~err, NEW name \in ToSet(DirFlags)
      PROVE  Place(name) = Own(entries, name, workspace, home, active)
  <2>1. seen(name) = at(name) /\ name \in done
    BY <1>3 DEF ToSet
  <2>2. raw[name] = IF at(name) = {} THEN NoPath ELSE value(Max(at(name)), name)
    BY <2>1
  <2> HIDE DEF raw, seen, done, at
  <2>3. Place(name) = IF raw[name] = NoPath THEN NoPath
                      ELSE Resolve(raw[name], Dir(entries[Max(at(name))].source),
                                   workspace, home)
    BY <2>1
  <2> QED
    BY <2>2, <2>3 DEF Own, at
<1> HIDE DEF err, Place, age
<1>4. /\ all = [name \in ToSet(DirFlags) |-> all[name]]
      /\ all["repository_cache"] = repo
      /\ \A name \in ToSet(DirFlags) :
             \/ all[name] = Place(name)
             \/ /\ name = "repo_contents_cache" /\ repo # NoPath /\ Place(name) = NoPath
                /\ all[name] = Append(repo, "contents")
  <2>1. "repository_cache" \in ToSet(DirFlags)
    BY DEF DirFlags, ToSet
  <2> QED
    BY <2>1
<1>5. cache.err = err /\ cache.dir = all /\ cache.download = download
  OBVIOUS
<1>6. ~err => download = IF repo = NoPath THEN NoPath ELSE Append(repo, "content_addressable")
  OBVIOUS
<1> HIDE DEF all, download, cache, repo
<1>7. Complete(cache)
  BY <1>2, <1>4, <1>5, <1>6 DEF Complete
<1> QED
  BY <1>1, <1>3, <1>4, <1>5, <1>7

\* A load that fails leaves no directories at all.
LEMMA DiscoveryCompletes ==
    ASSUME NEW files, NEW workspace, NEW home
    PROVE  Complete(discoverDirs(files, workspace, home))
<1>1. Complete([dir |-> [name \in ToSet(DirFlags) |-> NoPath],
                download |-> NoPath, age |-> 0, err |-> TRUE])
  BY DEF Complete
<1> QED
  BY <1>1, Extracted DEF discoverDirs

\* A directory that is extracted is what the last line in force declares, taken
\* from the directory of the file that line is from; only a contents cache that
\* no line declares is taken from the repository cache (paths.go:64).
THEOREM LastLineDeclares ==
    ASSUME NEW n \in Nat, NEW entries, DOMAIN entries = 1..n,
           NEW workspace, NEW home, NEW active, NEW name \in ToSet(DirFlags),
           ~ExtractCacheDirs(entries, workspace, home, active).err
    PROVE  LET dir == ExtractCacheDirs(entries, workspace, home, active).dir
               declares(i) == Declares(entries[i], name, active)
           IN  \/ dir[name] = NoPath
               \/ \E i \in DOMAIN entries :
                      /\ declares(i) /\ \A j \in DOMAIN entries : declares(j) => j <= i
                      /\ ExtractFlag(entries[i].args, name) # NoPath
                      /\ dir[name] = Resolve(ExtractFlag(entries[i].args, name),
                                         Dir(entries[i].source), workspace, home)
               \/ /\ name = "repo_contents_cache"
                  /\ dir[name] = Append(dir["repository_cache"], "contents")
<1> DEFINE at == {i \in DOMAIN entries : Declares(entries[i], name, active)}
           own == Own(entries, name, workspace, home, active)
<1>1. CASE own = NoPath
  BY <1>1, Extracted
<1>2. CASE own # NoPath
  <2>1. /\ at # {} /\ ExtractFlag(entries[Max(at)].args, name) # NoPath
        /\ own = Resolve(ExtractFlag(entries[Max(at)].args, name),
                         Dir(entries[Max(at)].source), workspace, home)
    BY <1>2 DEF Own
  <2>2. Max(at) \in at /\ \A j \in at : j <= Max(at)
    BY <2>1, MaxIsLast
  <2>3. ExtractCacheDirs(entries, workspace, home, active).dir[name] = own
    BY <1>2, Extracted
  <2> QED
    BY <2>1, <2>2, <2>3
<1> QED
  BY <1>1, <1>2

\* After an error a directory is still one that a line in force declares, taken
\* from the directory of its file, or not yet: as it is written (paths.go:97,
\* 113-124).
LEMMA FailedLineDeclares ==
    ASSUME NEW n \in Nat, NEW entries, DOMAIN entries = 1..n,
           NEW workspace, NEW home, NEW active, NEW name \in ToSet(DirFlags),
           ExtractCacheDirs(entries, workspace, home, active).err
    PROVE  LET dir == ExtractCacheDirs(entries, workspace, home, active).dir
           IN  \/ dir[name] = NoPath
               \/ \E i \in DOMAIN entries :
                      /\ Declares(entries[i], name, active)
                      /\ ExtractFlag(entries[i].args, name) # NoPath
                      /\ \/ dir[name] = ExtractFlag(entries[i].args, name)
                         \/ dir[name] = Resolve(ExtractFlag(entries[i].args, name),
                                            Dir(entries[i].source), workspace, home)
<1> DEFINE at(x) == {i \in DOMAIN entries : Declares(entries[i], x, active)}
           value(i, x) == ExtractFlag(entries[i].args, x)
           bad == {i \in at(TTL) : value(i, TTL) = Malformed}
           seen(x) == {i \in at(x) : \A b \in bad : i <= b}
           ages == at(TTL) \ {i \in at(TTL) : \E b \in bad : i >= b}
           raw == [x \in ToSet(DirFlags) |->
                       IF seen(x) = {} THEN NoPath ELSE value(Max(seen(x)), x)]
           stuck == {i \in DOMAIN DirFlags : /\ raw[DirFlags[i]] # NoPath
                                             /\ ~Resolvable(raw[DirFlags[i]], home)}
           err == bad # {} \/ stuck # {}
           done == {DirFlags[i] : i \in {j \in DOMAIN DirFlags :
                                            bad = {} /\ \A s \in stuck : j < s}}
           Place(x) ==
               IF x \notin done \/ raw[x] = NoPath THEN raw[x]
               ELSE Resolve(raw[x], Dir(entries[Max(seen(x))].source), workspace, home)
           dir == [x \in ToSet(DirFlags) |-> Place(x)]
           repo == dir["repository_cache"]
           age == IF ages = {} THEN 0 ELSE value(Max(ages), TTL)
           all == IF err \/ repo = NoPath \/ dir["repo_contents_cache"] # NoPath THEN dir
                  ELSE [dir EXCEPT !["repo_contents_cache"] = Append(repo, "contents")]
           download == IF err \/ repo = NoPath THEN NoPath
                       ELSE Append(repo, "content_addressable")
           cache == [age |-> age, err |-> err, download |-> download, dir |-> all]
<1>1. ExtractCacheDirs(entries, workspace, home, active) = cache
  BY DEF ExtractCacheDirs
<1>2. CASE seen(name) = {}
  <2>1. raw[name] = NoPath
    BY <1>2
  <2> HIDE DEF raw, seen, done
  <2>2. Place(name) = NoPath
    BY <2>1
  <2> HIDE DEF Place, err, age, download
  <2>3. cache.err = err /\ (err => cache.dir[name] = Place(name))
    OBVIOUS
  <2> HIDE DEF cache
  <2> QED
    BY <1>1, <2>2, <2>3
<1>3. CASE seen(name) # {}
  <2> DEFINE i == Max(seen(name))
  <2>1. i \in seen(name)
    <3>1. seen(name) \in SUBSET (1..n)
      OBVIOUS
    <3> HIDE DEF seen
    <3> QED
      BY <1>3, <3>1, MaxIsLast
  <2>2. i \in DOMAIN entries /\ Declares(entries[i], name, active)
    BY <2>1
  <2>3. raw[name] = value(i, name)
    BY <1>3
  <2> HIDE DEF raw, seen, done
  <2>4. \/ Place(name) = raw[name]
        \/ /\ raw[name] # NoPath
           /\ Place(name) = Resolve(raw[name], Dir(entries[i].source), workspace, home)
    OBVIOUS
  <2> HIDE DEF Place, err, age, download, i
  <2>5. cache.err = err /\ (err => cache.dir[name] = Place(name))
    OBVIOUS
  <2> HIDE DEF cache
  <2> QED
    BY <1>1, <2>2, <2>3, <2>4, <2>5
<1> QED
  BY <1>2, <1>3

(***************************************************************************)
(* How FoldLeft goes through a sequence: from its first element to its     *)
(* last, which its definition by sets of positions does not say.           *)
(***************************************************************************)
\* What LoadOne makes of the lines of a file.
LinesLoad(chain, workspace, home, load, lines) ==
    FoldLeft(LAMBDA out, line : Expand(chain, workspace, home, load, out, line),
             Loaded(<<>>), lines)

\* FoldLeft goes through a sequence from its first element to its last: the
\* lines of a file ...
LinesOut(chain, workspace, home, load, lines, n, out) ==
    /\ out[0] = Loaded(<<>>)
    /\ \A k \in 1..n : out[k] = Expand(chain, workspace, home, load, out[k - 1], lines[k])
    /\ out[n] = LinesLoad(chain, workspace, home, load, lines)

\* ... so there are the outcomes after each of them.
LEMMA LinesFold ==
    ASSUME NEW chain, NEW workspace, NEW home, NEW load,
           NEW n \in Nat, NEW lines, DOMAIN lines = 1..n
    PROVE  \E out : LinesOut(chain, workspace, home, load, lines, n, out)
<1> DEFINE Next(it, s) == IF s = {} THEN Loaded(<<>>)
                          ELSE Expand(chain, workspace, home, load, it[s \ {Max(s)}], lines[Max(s)])
           T == {m \in Nat : \E it : it = [s \in SUBSET (1..m) |-> Next(it, s)]}
           iter == CHOOSE it : it = [s \in SUBSET (1..n) |-> Next(it, s)]
<1>1. LinesLoad(chain, workspace, home, load, lines) = iter[1..n]
  BY DEF LinesLoad, FoldLeft, MapThenFoldSet
<1>2. 0 \in T
  <2> DEFINE it == [s \in SUBSET (1..0) |-> Loaded(<<>>)]
  <2>1. \A s \in SUBSET (1..0) : s = {}
    OBVIOUS
  <2>2. it = [s \in SUBSET (1..0) |-> Next(it, s)]
    BY <2>1
  <2> QED
    BY <2>2
<1>3. ASSUME NEW m \in Nat, m \in T PROVE m + 1 \in T
  <2>1. PICK it : it = [s \in SUBSET (1..m) |-> Next(it, s)]
    BY <1>3
  <2> DEFINE more == [s \in SUBSET (1..(m + 1)) |->
                          IF s \in SUBSET (1..m) THEN it[s] ELSE Next(it, s)]
  <2>2. ASSUME NEW s \in SUBSET (1..(m + 1)) PROVE more[s] = Next(more, s)
    <3>1. CASE s = {}
      BY <2>1, <3>1
    <3>2. CASE s # {}
      <4> HIDE DEF more, Next
      <4>0. m + 1 \in Nat
        OBVIOUS
      <4>1. Max(s) \in s /\ \A i \in s : i <= Max(s)
        BY <3>2, <4>0, MaxIsLast
      <4>2. s \ {Max(s)} \in SUBSET (1..m)
        <5>1. ASSUME NEW i \in s, i # Max(s) PROVE i \in 1..m
          <6>1. i \in 1..(m + 1) /\ Max(s) \in 1..(m + 1)
            BY <4>1
          <6> QED
            BY <4>1, <5>1, <6>1
        <5> QED BY <5>1
      <4>3. more[s \ {Max(s)}] = it[s \ {Max(s)}]
        BY <4>2 DEF more
      <4>4. more[s] = Next(it, s)
        BY <2>1 DEF more
      <4>5. Next(it, s) = Next(more, s)
        BY <4>3 DEF Next
      <4> QED BY <4>4, <4>5
    <3> QED BY <3>1, <3>2
  <2>3. more = [s \in SUBSET (1..(m + 1)) |-> Next(more, s)]
    BY <2>2
  <2> HIDE DEF more, Next
  <2> QED
    BY <2>3
<1>4. n \in T
  <2> HIDE DEF T
  <2> QED BY <1>2, <1>3, AllNumbers
<1>5. iter = [s \in SUBSET (1..n) |-> Next(iter, s)]
  BY <1>4
<1> DEFINE out == [k \in 0..n |-> iter[1..k]]
<1>6. iter[1..0] = Loaded(<<>>)
  <2> HIDE DEF iter
  <2>1. 1..0 = {} /\ 1..0 \in SUBSET (1..n)
    OBVIOUS
  <2> QED
    BY <1>5, <2>1
<1>7. ASSUME NEW k \in 1..n
      PROVE  iter[1..k] = Expand(chain, workspace, home, load, iter[1..(k - 1)], lines[k])
  <2>1. 1..k \in SUBSET (1..n) /\ 1..k # {} /\ k \in 1..k
    <3> HIDE DEF iter, out, Next, T
    <3>1. k \in Nat /\ k >= 1 /\ k <= n
      OBVIOUS
    <3>2. k \in 1..k /\ \A i \in 1..k : i \in 1..n
      BY <3>1
    <3> QED
      BY <3>2
  <2>2. Max(1..k) = k
    <3> HIDE DEF iter, out, Next, T
    <3>1. k \in Nat
      OBVIOUS
    <3>2. Max(1..k) \in 1..k /\ k <= Max(1..k)
      BY <2>1, <3>1, MaxIsLast
    <3> QED
      BY <3>2
  <2>3. (1..k) \ {k} = 1..(k - 1)
    OBVIOUS
  <2>4. iter[1..k] = Next(iter, 1..k)
    BY <1>5, <2>1
  <2> HIDE DEF iter
  <2> QED
    BY <2>1, <2>2, <2>3, <2>4
<1> HIDE DEF iter
<1>8. out[0] = Loaded(<<>>) /\ out[n] = iter[1..n]
  BY <1>6
<1>9. \A k \in 1..n : out[k] = Expand(chain, workspace, home, load, out[k - 1], lines[k])
  BY <1>7
<1>10. LinesOut(chain, workspace, home, load, lines, n, out)
  BY <1>1, <1>8, <1>9 DEF LinesOut
<1> QED
  BY <1>10

(***************************************************************************)
(* The recursion of LoadOne.                                               *)
(***************************************************************************)
\* The files that are importing one another, and the one they import.
Chains == Seq(Seq(STRING))

\* A chain that is answered without a look at what others bring.
Answered(files, chain) ==
    \/ Last(chain) \in ToSet(Front(chain))
    \/ Last(chain) \notin DOMAIN files
    \/ files[Last(chain)] = Garbled

\* The right-hand side of LoadOne.
LoadStep(files, workspace, home, load, chain) ==
    CASE Last(chain) \in ToSet(Front(chain)) -> Failure("cycle")
      [] Last(chain) \notin DOMAIN files     -> Failure("missing")
      [] files[Last(chain)] = Garbled        -> Failure("parse")
      [] OTHER -> LinesLoad(chain, workspace, home, load, files[Last(chain)])

\* A file that is parsed is a list of lines.
LEMMA ParsedLines ==
    ASSUME NEW files, Readable(files), NEW file \in DOMAIN files, files[file] # Garbled
    PROVE  /\ Len(files[file]) \in Nat /\ DOMAIN files[file] = 1..Len(files[file])
           /\ \A i \in DOMAIN files[file] : files[file][i] \in ToSet(files[file])
<1>1. files[file] \in Seq(ToSet(files[file]))
  BY DEF Readable
<1> QED
  BY <1>1, LenProperties, ElementOfSeq

\* A path resolves to a path,
LEMMA Resolved ==
    ASSUME NEW raw \in Seq(STRING), NEW baseDir \in Seq(STRING), raw # NoPath,
           NEW workspace \in Seq(STRING), NEW home \in Seq(STRING)
    PROVE  Resolve(raw, baseDir, workspace, home) \in Seq(STRING)
<1>1. Tail(raw) \in Seq(STRING)
  BY HeadTailProperties DEF NoPath
<1> QED
  BY <1>1, ConcatProperties DEF Resolve

\* and so does what an import names.
LEMMA ImportResolved ==
    ASSUME NEW files, Readable(files), NEW file \in DOMAIN files, files[file] # Garbled,
           NEW workspace \in Seq(STRING), NEW home \in Seq(STRING),
           NEW line \in ToSet(files[file]), line.cmd \in Importing, line.args # <<>>,
           Resolvable(line.args[1].val, home)
    PROVE  Resolve(line.args[1].val, Dir(file), workspace, home) \in Seq(STRING)
<1>1. line.args[1].val \in Seq(STRING) /\ line.args[1].val # NoPath
  BY DEF Readable, Resolvable
<1>2. file \in Seq(STRING)
  BY DEF Readable
<1>3. Dir(file) \in Seq(STRING)
  BY <1>2, SubSeqProperties, LenProperties DEF Dir, Front
<1> QED
  BY <1>1, <1>3, Resolved

\* What a file comes to depends only on what its imports come to.
LEMMA LinesAgree ==
    ASSUME NEW files, Readable(files), NEW workspace \in Seq(STRING), NEW home \in Seq(STRING),
           NEW chain \in Chains, NEW load, NEW other,
           \A t \in Seq(STRING) : load[Append(chain, t)] = other[Append(chain, t)]
    PROVE  LoadStep(files, workspace, home, load, chain)
               = LoadStep(files, workspace, home, other, chain)
<1>1. CASE Answered(files, chain)
  BY <1>1 DEF Answered, LoadStep
<1>2. CASE ~Answered(files, chain)
  <2> DEFINE file == Last(chain)
             lines == files[file]
             n == Len(lines)
             All(g) == LinesLoad(chain, workspace, home, g, lines)
  <2>1. file \in DOMAIN files /\ lines # Garbled
    BY <1>2 DEF Answered
  <2>2. /\ n \in Nat /\ DOMAIN lines = 1..n
        /\ \A i \in DOMAIN lines : lines[i] \in ToSet(lines)
    BY <2>1, ParsedLines
  <2> HIDE DEF n
  <2>3. PICK out : LinesOut(chain, workspace, home, load, lines, n, out)
    BY <2>2, LinesFold
  <2>4. PICK oth : LinesOut(chain, workspace, home, other, lines, n, oth)
    BY <2>2, LinesFold
  <2>5. ASSUME NEW line \in ToSet(lines), NEW o
        PROVE  Expand(chain, workspace, home, load, o, line)
                   = Expand(chain, workspace, home, other, o, line)
    <3>1. CASE line.cmd \in Importing /\ line.args # <<>> /\ Resolvable(line.args[1].val, home)
      <4> DEFINE t == Resolve(line.args[1].val, Dir(file), workspace, home)
      <4>1. t \in Seq(STRING)
        BY <2>1, <3>1, ImportResolved
      <4>2. load[Append(chain, t)] = other[Append(chain, t)]
        BY <4>1
      <4> QED
        BY <4>2 DEF Expand
    <3> QED
      BY <3>1 DEF Expand
  <2> DEFINE T == {k \in Nat : k <= n => out[k] = oth[k]}
  <2>6. 0 \in T
    BY <2>3, <2>4 DEF LinesOut
  <2>7. ASSUME NEW k \in Nat, k \in T PROVE k + 1 \in T
    <3> SUFFICES ASSUME k + 1 <= n PROVE out[k + 1] = oth[k + 1]
      OBVIOUS
    <3>1. k + 1 \in 1..n /\ (k + 1) - 1 = k /\ k <= n
      BY <2>2
    <3>2. out[k] = oth[k]
      BY <2>7, <3>1
    <3>3. out[k + 1] = Expand(chain, workspace, home, load, out[k], lines[k + 1])
      BY <2>3, <3>1 DEF LinesOut
    <3>4. oth[k + 1] = Expand(chain, workspace, home, other, oth[k], lines[k + 1])
      BY <2>4, <3>1 DEF LinesOut
    <3>5. lines[k + 1] \in ToSet(lines)
      BY <2>2, <3>1
    <3> QED
      BY <2>5, <3>2, <3>3, <3>4, <3>5
  <2>8. n \in T
    <3> HIDE DEF T
    <3> QED
      BY <2>2, <2>6, <2>7, AllNumbers
  <2>9. All(load) = All(other)
    BY <2>2, <2>3, <2>4, <2>8 DEF LinesOut
  <2> QED
    BY <1>2, <2>9 DEF Answered, LoadStep
<1> QED
  BY <1>1, <1>2

\* A chain with one more file.
LEMMA Appended ==
    ASSUME NEW chain \in Chains, NEW t \in Seq(STRING)
    PROVE  /\ Append(chain, t) \in Chains
           /\ Last(Append(chain, t)) = t /\ Front(Append(chain, t)) = chain
           /\ ToSet(Append(chain, t)) = ToSet(chain) \union {t}
<1> DEFINE more == Append(chain, t)
           n == Len(chain)
<1>1. /\ more \in Chains /\ Len(more) = n + 1 /\ n \in Nat
      /\ more[n + 1] = t /\ \A i \in 1..n : more[i] = chain[i]
  BY AppendProperties, LenProperties DEF Chains
<1>2. DOMAIN chain = 1..n /\ DOMAIN more = 1..(n + 1)
  BY <1>1, LenProperties DEF Chains
<1>3. Last(more) = t
  BY <1>1 DEF Last
<1>4. Front(more) = chain
  <2>1. Front(more) = SubSeq(more, 1, n)
    BY <1>1 DEF Front
  <2> QED
    BY <1>1, <1>2, <2>1, SubSeqProperties, SeqEqual DEF Chains
<1>5. ToSet(more) = ToSet(chain) \union {t}
  <2>1. 1..(n + 1) = (1..n) \union {n + 1}
    BY <1>1
  <2> HIDE DEF more, n
  <2> QED
    BY <1>1, <1>2, <2>1 DEF ToSet
<1> QED
  BY <1>1, <1>3, <1>4, <1>5

\* An import that is looked at takes a file from those still to come.
FilesLeft(files, chain) == Cardinality(DOMAIN files \ ToSet(chain))

\* So there are fewer of them below every import.
LEMMA LeftShrinks ==
    ASSUME NEW files, Readable(files), NEW chain \in Chains
    PROVE  /\ FilesLeft(files, chain) \in Nat
           /\ \A t \in Seq(STRING) : ~Answered(files, Append(chain, t)) =>
                  FilesLeft(files, Append(chain, t)) < FilesLeft(files, chain)
<1>1. IsFiniteSet(DOMAIN files \ ToSet(chain))
  BY FS_Difference DEF Readable
<1>2. FilesLeft(files, chain) \in Nat
  BY <1>1, FS_CardinalityType DEF FilesLeft
<1>3. ASSUME NEW t \in Seq(STRING), ~Answered(files, Append(chain, t))
      PROVE  FilesLeft(files, Append(chain, t)) < FilesLeft(files, chain)
  <2> DEFINE R == DOMAIN files \ ToSet(chain)
             S == DOMAIN files \ ToSet(Append(chain, t))
  <2>1. t \in R /\ S = R \ {t}
    BY <1>3, Appended DEF Answered
  <2>2. S \in SUBSET R /\ S # R
    BY <2>1
  <2> HIDE DEF R, S
  <2>3. IsFiniteSet(S) /\ Cardinality(S) <= Cardinality(R) /\ Cardinality(S) # Cardinality(R)
    BY <1>1, <2>2, FS_Subset DEF R
  <2>4. Cardinality(S) \in Nat /\ Cardinality(R) \in Nat
    BY <1>1, <2>3, FS_CardinalityType DEF R
  <2> QED
    BY <2>3, <2>4 DEF FilesLeft, R, S
<1> QED
  BY <1>2, <1>3

\* The recursion of LoadOne comes to an end: imports that go on for ever come
\* to a file again, since there are finitely many.
THEOREM LoadOneUnfolds ==
    ASSUME NEW files, Readable(files), NEW workspace \in Seq(STRING), NEW home \in Seq(STRING)
    PROVE  LoadOne(files, workspace, home)
               = [chain \in Chains |->
                      LoadStep(files, workspace, home, LoadOne(files, workspace, home), chain)]
<1> DEFINE Step(g, chain) == LoadStep(files, workspace, home, g, chain)
           Short(n) == {chain \in Chains : Answered(files, chain) \/ FilesLeft(files, chain) < n}
           Agrees(g, n) == \A chain \in Short(n) : g[chain] = Step(g, chain)
           T == {n \in Nat : \E g : Agrees(g, n)}
<1>1. 0 \in T
  <2> DEFINE g == [chain \in Chains |-> Step(<<>>, chain)]
  <2>1. ASSUME NEW chain \in Short(0) PROVE Answered(files, chain)
    BY LeftShrinks
  <2>2. ASSUME NEW chain \in Short(0) PROVE g[chain] = Step(g, chain)
    <3> HIDE DEF Step
    <3>1. g[chain] = Step(<<>>, chain)
      OBVIOUS
    <3> HIDE DEF g
    <3>2. Step(<<>>, chain) = Step(g, chain)
      BY <2>1 DEF Step, LoadStep, Answered
    <3> QED
      BY <3>1, <3>2
  <2> HIDE DEF g
  <2> QED
    BY <2>2
<1>2. ASSUME NEW n \in Nat, n \in T PROVE n + 1 \in T
  <2>1. PICK g : Agrees(g, n)
    BY <1>2
  <2> DEFINE more == [chain \in Chains |-> IF chain \in Short(n) THEN g[chain] ELSE Step(g, chain)]
  <2>2. ASSUME NEW chain \in Short(n + 1) PROVE more[chain] = Step(more, chain)
    <3>1. chain \in Chains
      OBVIOUS
    <3>2. more[chain] = Step(g, chain)
      <4> HIDE DEF Step, Short
      <4> QED
        BY <2>1, <3>1
    <3>3. ASSUME ~Answered(files, chain), NEW t \in Seq(STRING)
          PROVE  g[Append(chain, t)] = more[Append(chain, t)]
      <4>1. Append(chain, t) \in Chains
        BY <3>1, Appended
      <4>2. Append(chain, t) \in Short(n)
        <5>1. CASE Answered(files, Append(chain, t))
          BY <4>1, <5>1
        <5>2. CASE ~Answered(files, Append(chain, t))
          <6>1. FilesLeft(files, chain) < n + 1 /\ FilesLeft(files, chain) \in Nat
            BY <3>1, <3>3, LeftShrinks
          <6>2. FilesLeft(files, Append(chain, t)) < FilesLeft(files, chain)
            BY <3>1, <5>2, LeftShrinks
          <6>3. FilesLeft(files, Append(chain, t)) \in Nat
            BY <4>1, LeftShrinks
          <6> QED
            BY <4>1, <6>1, <6>2, <6>3
        <5> QED
          BY <5>1, <5>2
      <4> HIDE DEF Short, Step
      <4> QED
        BY <4>1, <4>2
    <3> HIDE DEF more
    <3>4. Step(g, chain) = Step(more, chain)
      <4>1. CASE Answered(files, chain)
        BY <4>1 DEF LoadStep, Answered
      <4>2. CASE ~Answered(files, chain)
        BY <3>1, <3>3, <4>2, LinesAgree
      <4> QED
        BY <4>1, <4>2
    <3> HIDE DEF Step
    <3> QED
      BY <3>2, <3>4
  <2> HIDE DEF more, Short, Step
  <2>3. Agrees(more, n + 1)
    BY <2>2
  <2> HIDE DEF Agrees
  <2> QED
    BY <2>3
<1>3. \A n \in Nat : n \in T
  <2> HIDE DEF T
  <2> QED
    BY <1>1, <1>2, AllNumbers
<1>4. PICK n \in Nat : FilesLeft(files, <<>>) < n
  <2>1. <<>> \in Chains
    BY EmptySeq DEF Chains
  <2>2. FilesLeft(files, <<>>) + 1 \in Nat /\ FilesLeft(files, <<>>) < FilesLeft(files, <<>>) + 1
    BY <2>1, LeftShrinks
  <2> QED
    BY <2>2
<1>5. ASSUME NEW chain \in Chains PROVE chain \in Short(n)
  <2>1. DOMAIN files \ ToSet(chain) \in SUBSET (DOMAIN files \ ToSet(<<>>))
    BY DEF ToSet
  <2>2. IsFiniteSet(DOMAIN files \ ToSet(<<>>))
    BY FS_Difference DEF Readable
  <2>3. FilesLeft(files, chain) <= FilesLeft(files, <<>>)
    BY <2>1, <2>2, FS_Subset DEF FilesLeft
  <2>4. <<>> \in Chains
    BY EmptySeq DEF Chains
  <2>5. FilesLeft(files, chain) \in Nat /\ FilesLeft(files, <<>>) \in Nat
    BY <2>4, LeftShrinks
  <2> QED
    BY <1>4, <2>3, <2>5
<1>6. PICK g : Agrees(g, n)
  BY <1>3
<1> DEFINE all == [chain \in Chains |-> g[chain]]
<1>7. all = [chain \in Chains |-> Step(all, chain)]
  <2>1. ASSUME NEW chain \in Chains PROVE all[chain] = Step(all, chain)
    <3>1. g[chain] = Step(g, chain)
      <4> HIDE DEF Step, Short
      <4> QED
        BY <1>5, <1>6
    <3>2. \A t \in Seq(STRING) : g[Append(chain, t)] = all[Append(chain, t)]
      BY Appended
    <3>3. all[chain] = g[chain]
      OBVIOUS
    <3> HIDE DEF all
    <3>4. Step(g, chain) = Step(all, chain)
      BY <3>2, LinesAgree
    <3> HIDE DEF Step
    <3> QED
      BY <3>1, <3>3, <3>4
  <2> HIDE DEF Step
  <2> QED
    BY <2>1
<1> DEFINE load == CHOOSE h : h = [chain \in Chains |-> Step(h, chain)]
<1>8. load = [chain \in Chains |-> Step(load, chain)]
  <2> HIDE DEF all, Step
  <2> QED
    BY <1>7
<1>9. LoadOne(files, workspace, home) = load
  BY DEF LoadOne, LoadStep, LinesLoad, Chains
<1> HIDE DEF load
<1> QED
  BY <1>8, <1>9

(***************************************************************************)
(* The elements of a sequence that are in a set.                           *)
(***************************************************************************)
\* The elements among the first k, for every k.
AmongOut(s, T, n, out) ==
    /\ out[0] = <<>>
    /\ \A k \in 1..n : out[k] = IF s[k] \in T THEN Append(out[k - 1], s[k]) ELSE out[k - 1]
    /\ out[n] = Among(s, T)

\* ... and the elements of a sequence that are in T.
LEMMA AmongFold ==
    ASSUME NEW T, NEW n \in Nat, NEW s, DOMAIN s = 1..n
    PROVE  \E out : AmongOut(s, T, n, out)
<1> DEFINE Add(out, x) == IF x \in T THEN Append(out, x) ELSE out
           Next(it, S) == IF S = {} THEN <<>> ELSE Add(it[S \ {Max(S)}], s[Max(S)])
           M == {m \in Nat : \E it : it = [S \in SUBSET (1..m) |-> Next(it, S)]}
           iter == CHOOSE it : it = [S \in SUBSET (1..n) |-> Next(it, S)]
<1>1. Among(s, T) = iter[1..n]
  BY DEF Among, FoldLeft, MapThenFoldSet
<1> HIDE DEF Add
<1>2. 0 \in M
  <2> DEFINE it == [S \in SUBSET (1..0) |-> <<>>]
  <2>1. \A S \in SUBSET (1..0) : S = {}
    OBVIOUS
  <2>2. it = [S \in SUBSET (1..0) |-> Next(it, S)]
    BY <2>1
  <2> QED
    BY <2>2
<1>3. ASSUME NEW m \in Nat, m \in M PROVE m + 1 \in M
  <2>1. PICK it : it = [S \in SUBSET (1..m) |-> Next(it, S)]
    BY <1>3
  <2> DEFINE more == [S \in SUBSET (1..(m + 1)) |->
                          IF S \in SUBSET (1..m) THEN it[S] ELSE Next(it, S)]
  <2>2. ASSUME NEW S \in SUBSET (1..(m + 1)) PROVE more[S] = Next(more, S)
    <3>1. CASE S = {}
      BY <2>1, <3>1
    <3>2. CASE S # {}
      <4> HIDE DEF more, Next
      <4>1. m + 1 \in Nat
        OBVIOUS
      <4>2. Max(S) \in S /\ \A i \in S : i <= Max(S)
        BY <3>2, <4>1, MaxIsLast
      <4>3. S \ {Max(S)} \in SUBSET (1..m)
        <5>1. ASSUME NEW i \in S, i # Max(S) PROVE i \in 1..m
          <6>1. i \in 1..(m + 1) /\ Max(S) \in 1..(m + 1)
            BY <4>2
          <6> QED
            BY <4>2, <5>1, <6>1
        <5> QED
          BY <5>1
      <4>4. more[S \ {Max(S)}] = it[S \ {Max(S)}]
        BY <4>3 DEF more
      <4>5. more[S] = Next(it, S)
        BY <2>1 DEF more
      <4>6. Next(it, S) = Next(more, S)
        BY <4>4 DEF Next
      <4> QED
        BY <4>5, <4>6
    <3> QED
      BY <3>1, <3>2
  <2>3. more = [S \in SUBSET (1..(m + 1)) |-> Next(more, S)]
    BY <2>2
  <2> HIDE DEF more, Next
  <2> QED
    BY <2>3
<1>4. n \in M
  <2> HIDE DEF M
  <2> QED
    BY <1>2, <1>3, AllNumbers
<1>5. iter = [S \in SUBSET (1..n) |-> Next(iter, S)]
  BY <1>4
<1> DEFINE out == [k \in 0..n |-> iter[1..k]]
<1>6. iter[1..0] = <<>>
  <2> HIDE DEF iter
  <2>1. 1..0 = {} /\ 1..0 \in SUBSET (1..n)
    OBVIOUS
  <2> QED
    BY <1>5, <2>1
<1>7. ASSUME NEW k \in 1..n PROVE iter[1..k] = Add(iter[1..(k - 1)], s[k])
  <2> HIDE DEF iter
  <2>1. 1..k \in SUBSET (1..n) /\ 1..k # {} /\ k \in 1..k
    <3> HIDE DEF out, Next, M
    <3>1. k \in Nat /\ k >= 1 /\ k <= n
      OBVIOUS
    <3>2. k \in 1..k /\ \A i \in 1..k : i \in 1..n
      BY <3>1
    <3> QED
      BY <3>2
  <2>2. Max(1..k) = k
    <3>1. k \in Nat
      OBVIOUS
    <3>2. Max(1..k) \in 1..k /\ k <= Max(1..k)
      BY <2>1, <3>1, MaxIsLast
    <3> QED
      BY <3>2
  <2>3. (1..k) \ {k} = 1..(k - 1)
    OBVIOUS
  <2>4. iter[1..k] = Next(iter, 1..k)
    BY <1>5, <2>1
  <2> QED
    BY <2>1, <2>2, <2>3, <2>4
<1> HIDE DEF iter
<1>8. out[0] = <<>> /\ out[n] = Among(s, T)
  BY <1>1, <1>6
<1>9. \A k \in 1..n : out[k] = IF s[k] \in T THEN Append(out[k - 1], s[k]) ELSE out[k - 1]
  BY <1>7 DEF Add
<1>10. AmongOut(s, T, n, out)
  BY <1>8, <1>9 DEF AmongOut
<1> QED
  BY <1>10

\* Nothing is among nothing;
LEMMA AmongEmpty == \A T : Among(<<>>, T) = <<>>
<1> SUFFICES ASSUME NEW T PROVE Among(<<>>, T) = <<>>
  OBVIOUS
<1>1. PICK out : AmongOut(<<>>, T, 0, out)
  <2>1. DOMAIN <<>> = 1..0
    OBVIOUS
  <2> QED
    BY <2>1, AmongFold
<1> QED
  BY <1>1 DEF AmongOut

\* an element that is appended is there if it is in T.
LEMMA AmongAppend ==
    ASSUME NEW S, NEW s \in Seq(S), NEW x \in S, NEW T
    PROVE  Among(Append(s, x), T) = IF x \in T THEN Append(Among(s, T), x) ELSE Among(s, T)
<1> DEFINE n == Len(s)
           t == Append(s, x)
<1>1. /\ n \in Nat /\ DOMAIN s = 1..n /\ DOMAIN t = 1..(n + 1)
      /\ t[n + 1] = x /\ \A i \in 1..n : t[i] = s[i]
  BY AppendProperties, LenProperties
<1> HIDE DEF n, t
<1>2. PICK a : AmongOut(s, T, n, a)
  BY <1>1, AmongFold
<1>3. PICK b : AmongOut(t, T, n + 1, b)
  <2>1. n + 1 \in Nat
    BY <1>1
  <2> QED
    BY <1>1, <2>1, AmongFold
<1> DEFINE N == {k \in Nat : k <= n => a[k] = b[k]}
<1>4. 0 \in N
  BY <1>2, <1>3 DEF AmongOut
<1>5. ASSUME NEW k \in Nat, k \in N PROVE k + 1 \in N
  <2> SUFFICES ASSUME k + 1 <= n PROVE a[k + 1] = b[k + 1]
    OBVIOUS
  <2>1. k + 1 \in 1..n /\ k + 1 \in 1..(n + 1) /\ (k + 1) - 1 = k /\ k <= n
    BY <1>1
  <2>2. a[k] = b[k] /\ t[k + 1] = s[k + 1]
    BY <1>1, <1>5, <2>1
  <2>3. a[k + 1] = IF s[k + 1] \in T THEN Append(a[k], s[k + 1]) ELSE a[k]
    BY <1>2, <2>1 DEF AmongOut
  <2>4. b[k + 1] = IF t[k + 1] \in T THEN Append(b[k], t[k + 1]) ELSE b[k]
    BY <1>3, <2>1 DEF AmongOut
  <2> QED
    BY <2>2, <2>3, <2>4
<1>6. n \in N
  <2> HIDE DEF N
  <2> QED
    BY <1>1, <1>4, <1>5, AllNumbers
<1>7. a[n] = b[n]
  BY <1>1, <1>6
<1>8. b[n + 1] = IF t[n + 1] \in T THEN Append(b[n], t[n + 1]) ELSE b[n]
  <2>1. n + 1 \in 1..(n + 1) /\ (n + 1) - 1 = n
    BY <1>1
  <2> QED
    BY <1>3, <2>1 DEF AmongOut
<1> QED
  BY <1>1, <1>2, <1>3, <1>7, <1>8 DEF AmongOut, t

\* They are elements of the sequence, and in T;
LEMMA AmongType ==
    ASSUME NEW S, NEW T, NEW s \in Seq(S)
    PROVE  Among(s, T) \in Seq(S \intersect T)
<1> DEFINE D == {t \in Seq(S) : Among(t, T) \in Seq(S \intersect T)}
<1>1. <<>> \in D
  BY AmongEmpty, EmptySeq
<1>2. ASSUME NEW t \in Seq(S), NEW x \in S, t \in D PROVE Append(t, x) \in D
  <2> DEFINE a == Among(t, T)
             b == Among(Append(t, x), T)
  <2>1. Append(t, x) \in Seq(S)
    BY AppendProperties
  <2>2. b = IF x \in T THEN Append(a, x) ELSE a
    BY AmongAppend
  <2>3. a \in Seq(S \intersect T)
    BY <1>2
  <2> HIDE DEF a, b
  <2>4. x \in T => Append(a, x) \in Seq(S \intersect T)
    BY <2>3, AppendProperties
  <2>5. b \in Seq(S \intersect T)
    BY <2>2, <2>3, <2>4
  <2> QED
    BY <2>1, <2>5 DEF b
<1> HIDE DEF D
<1>3. Seq(S) \subseteq D
  BY <1>1, <1>2, AllSequences
<1> QED
  BY <1>3 DEF D

\* elements of the sequence above all.
LEMMA AmongSeq ==
    ASSUME NEW S, NEW T, NEW s \in Seq(S)
    PROVE  Among(s, T) \in Seq(S)
<1>1. Among(s, T) \in Seq(S \intersect T) /\ S \intersect T \subseteq S
  BY AmongType
<1>2. Seq(S \intersect T) \subseteq Seq(S)
  BY <1>1, SeqMonotonic
<1> QED
  BY <1>1, <1>2

\* Only the elements that there are matter.
LEMMA AmongSame ==
    ASSUME NEW S, NEW s \in Seq(S), NEW T, NEW U, S \intersect T = S \intersect U
    PROVE  Among(s, T) = Among(s, U)
<1> DEFINE D == {t \in Seq(S) : Among(t, T) = Among(t, U)}
<1>1. <<>> \in D
  BY AmongEmpty, EmptySeq
<1>2. ASSUME NEW t \in Seq(S), NEW x \in S, t \in D PROVE Append(t, x) \in D
  <2>1. x \in T <=> x \in U
    OBVIOUS
  <2>2. Among(Append(t, x), T) = IF x \in T THEN Append(Among(t, T), x) ELSE Among(t, T)
    BY AmongAppend
  <2>3. Among(Append(t, x), U) = IF x \in U THEN Append(Among(t, U), x) ELSE Among(t, U)
    BY AmongAppend
  <2>4. Append(t, x) \in Seq(S) /\ Among(t, T) = Among(t, U)
    BY <1>2, AppendProperties
  <2>5. Among(Append(t, x), T) = Among(Append(t, x), U)
    BY <2>1, <2>2, <2>3, <2>4
  <2> QED
    BY <2>4, <2>5
<1> HIDE DEF D
<1>3. Seq(S) \subseteq D
  BY <1>1, <1>2, AllSequences
<1> QED
  BY <1>3 DEF D

\* Those of the one sequence come before those of the next.
LEMMA AmongConcat ==
    ASSUME NEW S, NEW s \in Seq(S), NEW t \in Seq(S), NEW T
    PROVE  Among(s \o t, T) = Among(s, T) \o Among(t, T)
<1> DEFINE D == {u \in Seq(S) : Among(s \o u, T) = Among(s, T) \o Among(u, T)}
<1>1. \A u \in Seq(S) : Among(u, T) \in Seq(S)
  BY AmongSeq
<1>2. <<>> \in D
  BY <1>1, AmongEmpty, EmptySeq, ConcatEmptySeq
<1>3. ASSUME NEW u \in Seq(S), NEW x \in S, u \in D PROVE Append(u, x) \in D
  <2>1. s \o u \in Seq(S) /\ Append(u, x) \in Seq(S) /\ <<x>> \in Seq(S)
    BY ConcatProperties, AppendProperties
  <2>2. s \o Append(u, x) = Append(s \o u, x)
    BY <2>1, AppendIsConcat, ConcatAssociative
  <2>3. Among(s \o Append(u, x), T)
            = IF x \in T THEN Append(Among(s \o u, T), x) ELSE Among(s \o u, T)
    BY <2>1, <2>2, AmongAppend
  <2>4. Among(s \o u, T) = Among(s, T) \o Among(u, T)
    BY <1>3
  <2>5. Append(Among(s, T) \o Among(u, T), x) = Among(s, T) \o Append(Among(u, T), x)
    <3>1. Among(s, T) \in Seq(S) /\ Among(u, T) \in Seq(S)
      BY <1>1
    <3>2. Among(s, T) \o Among(u, T) \in Seq(S)
      BY <3>1, ConcatProperties
    <3>3. Append(Among(s, T) \o Among(u, T), x) = (Among(s, T) \o Among(u, T)) \o <<x>>
      BY <3>2, AppendIsConcat
    <3>4. Append(Among(u, T), x) = Among(u, T) \o <<x>>
      BY <3>1, AppendIsConcat
    <3>5. (Among(s, T) \o Among(u, T)) \o <<x>> = Among(s, T) \o (Among(u, T) \o <<x>>)
      BY <2>1, <3>1, ConcatAssociative
    <3> QED
      BY <3>3, <3>4, <3>5
  <2>6. Among(Append(u, x), T) = IF x \in T THEN Append(Among(u, T), x) ELSE Among(u, T)
    BY AmongAppend
  <2> QED
    BY <2>1, <2>3, <2>4, <2>5, <2>6
<1> HIDE DEF D
<1>4. Seq(S) \subseteq D
  BY <1>2, <1>3, AllSequences
<1> QED
  BY <1>4 DEF D

\* The elements of a sequence with one more,
LEMMA AppendMembers ==
    ASSUME NEW S, NEW s \in Seq(S), NEW x \in S
    PROVE  ToSet(Append(s, x)) = ToSet(s) \union {x}
<1> DEFINE n == Len(s)
<1>1. /\ n \in Nat /\ DOMAIN s = 1..n /\ DOMAIN Append(s, x) = 1..(n + 1)
      /\ Append(s, x)[n + 1] = x /\ \A i \in 1..n : Append(s, x)[i] = s[i]
  BY AppendProperties, LenProperties
<1>2. 1..(n + 1) = (1..n) \union {n + 1}
  BY <1>1
<1> HIDE DEF n
<1> QED
  BY <1>1, <1>2 DEF ToSet

\* Of what a sequence says, something is in it.
LEMMA AmongMembers ==
    ASSUME NEW S, NEW T, NEW s \in Seq(S)
    PROVE  /\ Among(s, T) # <<>> => \E x \in ToSet(s) : x \in T
           /\ \A x \in ToSet(s) : x \in T => Among(s, T) # <<>>
<1> DEFINE D == {t \in Seq(S) : /\ Among(t, T) # <<>> => \E x \in ToSet(t) : x \in T
                                /\ \A x \in ToSet(t) : x \in T => Among(t, T) # <<>>}
<1>1. <<>> \in D
  BY AmongEmpty, EmptySeq DEF ToSet
<1>2. ASSUME NEW t \in Seq(S), NEW x \in S, t \in D PROVE Append(t, x) \in D
  <2>1. ToSet(Append(t, x)) = ToSet(t) \union {x}
    BY AppendMembers
  <2>2. Among(t, T) \in Seq(S)
    BY AmongSeq
  <2>3. x \in T => Among(Append(t, x), T) # <<>>
    BY <2>2, AmongAppend, AppendProperties
  <2>4. x \notin T => Among(Append(t, x), T) = Among(t, T)
    BY AmongAppend
  <2> QED
    BY <1>2, <2>1, <2>3, <2>4, AppendProperties
<1> HIDE DEF D
<1>3. Seq(S) \subseteq D
  BY <1>1, <1>2, AllSequences
<1> QED
  BY <1>3 DEF D

\* and those of two sequences.
LEMMA ConcatMembers ==
    ASSUME NEW S, NEW s \in Seq(S), NEW t \in Seq(S)
    PROVE  ToSet(s \o t) = ToSet(s) \union ToSet(t)
<1> DEFINE m == Len(s)
           n == Len(t)
           u == s \o t
<1>1. m \in Nat /\ n \in Nat /\ DOMAIN s = 1..m /\ DOMAIN t = 1..n
  BY LenProperties
<1>2. u \in Seq(S) /\ Len(u) = m + n
      /\ \A i \in 1..(m + n) : u[i] = IF i <= m THEN s[i] ELSE t[i - m]
  BY ConcatProperties
<1>3. DOMAIN u = 1..(m + n)
  BY <1>2, LenProperties
<1> HIDE DEF m, n, u
<1>4. ASSUME NEW i \in 1..(m + n) PROVE u[i] \in ToSet(s) \union ToSet(t)
  <2>1. i <= m => i \in 1..m
    BY <1>1
  <2>2. ~(i <= m) => i - m \in 1..n
    BY <1>1
  <2> QED
    BY <1>1, <1>2, <2>1, <2>2 DEF ToSet
<1>5. ASSUME NEW i \in 1..m PROVE s[i] \in ToSet(u)
  <2>1. i \in 1..(m + n) /\ i <= m
    BY <1>1
  <2> QED
    BY <1>2, <1>3, <2>1 DEF ToSet
<1>6. ASSUME NEW i \in 1..n PROVE t[i] \in ToSet(u)
  <2>1. i + m \in 1..(m + n) /\ ~(i + m <= m) /\ (i + m) - m = i
    BY <1>1
  <2>2. u[i + m] = t[i]
    BY <1>2, <2>1
  <2> QED
    BY <1>3, <2>1, <2>2 DEF ToSet
<1> QED
  BY <1>1, <1>3, <1>4, <1>5, <1>6 DEF ToSet, u

\* A property of two sequences that their concatenation has is one of all in a list.
LEMMA FlattenKeeps ==
    ASSUME NEW T, \A s, t \in T : s \o t \in T,
           NEW S, NEW n \in Nat \ {0}, NEW seqs \in Seq(S), Len(seqs) = n,
           \A i \in 1..n : seqs[i] \in T
    PROVE  FlattenSeq(seqs) \in T
<1> DEFINE Step(g, i) == IF i = 1 THEN seqs[i] ELSE g[i - 1] \o seqs[i]
           N == {m \in Nat : \E g : g = [i \in 1..m |-> Step(g, i)]}
           flat == CHOOSE g : g = [i \in 1..n |-> Step(g, i)]
<1>1. FlattenSeq(seqs) = flat[n]
  BY DEF FlattenSeq
<1>2. 0 \in N
  <2> DEFINE g == [i \in 1..0 |-> seqs[i]]
  <2>1. g = [i \in 1..0 |-> Step(g, i)]
    OBVIOUS
  <2> QED
    BY <2>1
<1>3. ASSUME NEW m \in Nat, m \in N PROVE m + 1 \in N
  <2>1. PICK g : g = [i \in 1..m |-> Step(g, i)]
    BY <1>3
  <2> DEFINE more == [i \in 1..(m + 1) |-> IF i \in 1..m THEN g[i] ELSE Step(g, i)]
  <2>2. ASSUME NEW i \in 1..(m + 1) PROVE more[i] = Step(more, i)
    <3>1. i = 1 \/ i - 1 \in 1..m
      OBVIOUS
    <3>2. more[i] = Step(g, i)
      <4>1. i \in 1..m => g[i] = Step(g, i)
        BY <2>1
      <4> HIDE DEF Step
      <4> QED
        BY <4>1
    <3>3. i # 1 => more[i - 1] = g[i - 1]
      BY <3>1
    <3> HIDE DEF more
    <3> QED
      BY <3>2, <3>3
  <2>3. more = [i \in 1..(m + 1) |-> Step(more, i)]
    BY <2>2
  <2> HIDE DEF more, Step
  <2> QED
    BY <2>3
<1>4. n \in N
  <2> HIDE DEF N
  <2> QED
    BY <1>2, <1>3, AllNumbers
<1>5. flat = [i \in 1..n |-> Step(flat, i)]
  BY <1>4
<1> HIDE DEF flat
<1> DEFINE M == {i \in Nat : i \in 1..n => flat[i] \in T}
<1>6. 0 \in M
  OBVIOUS
<1>7. ASSUME NEW i \in Nat, i \in M PROVE i + 1 \in M
  <2> SUFFICES ASSUME i + 1 \in 1..n PROVE flat[i + 1] \in T
    OBVIOUS
  <2>1. flat[i + 1] = Step(flat, i + 1)
    BY <1>5
  <2>2. CASE i = 0
    BY <2>1, <2>2
  <2>3. CASE i # 0
    <3>1. i \in 1..n /\ (i + 1) - 1 = i /\ i + 1 # 1
      BY <2>3
    <3>2. flat[i + 1] = flat[i] \o seqs[i + 1]
      BY <2>1, <3>1
    <3>3. flat[i] \in T /\ seqs[i + 1] \in T
      BY <1>7, <3>1
    <3> QED
      BY <3>2, <3>3
  <2> QED
    BY <2>2, <2>3
<1>8. n \in M
  <2> HIDE DEF M
  <2> QED
    BY <1>6, <1>7, AllNumbers
<1> QED
  BY <1>1, <1>8

(***************************************************************************)
(* A sequence that is another one, any number of times over.               *)
(***************************************************************************)
\* A multiple of m added changes nothing modulo m.
LEMMA Turns ==
    ASSUME NEW m \in Nat \ {0}, NEW a \in Nat, NEW b \in Nat, a % m = 0
    PROVE  (a + b) % m = b % m
<1> DEFINE p == a \div m
           q == b \div m
           r == (a + b) \div m
           x == b % m
           y == (a + b) % m
<1>1. a = m * p + (a % m) /\ p \in Int
  BY SMTT(20)
<1>2. b = m * q + x /\ q \in Int /\ x \in 0..(m - 1)
  BY SMTT(20)
<1>3. a + b = m * r + y /\ r \in Int /\ y \in 0..(m - 1)
  BY SMTT(20)
<1>4. m * p + m * q + x = m * r + y
  BY <1>1, <1>2, <1>3
<1> DEFINE d == p + q - r
<1> HIDE DEF p, q, r, x, y
<1>5. d \in Int /\ m * d = y - x /\ y - x < m /\ y - x > -m
  BY <1>1, <1>2, <1>3, <1>4
<1> HIDE DEF d
<1>6. ~(d >= 1)
  <2> SUFFICES ASSUME d >= 1 PROVE FALSE
    OBVIOUS
  <2>1. m * d = m * (d - 1) + m
    BY <1>5
  <2>2. m * (d - 1) >= 0
    BY <1>5
  <2> QED
    BY <1>2, <1>3, <1>5, <2>1, <2>2
<1>7. ~(d <= -1)
  <2> SUFFICES ASSUME d <= -1 PROVE FALSE
    OBVIOUS
  <2>1. m * d = -(m * (-d - 1)) - m
    BY <1>5
  <2>2. m * (-d - 1) >= 0
    BY <1>5
  <2> QED
    BY <1>2, <1>3, <1>5, <2>1, <2>2
<1>8. d = 0
  BY <1>5, <1>6, <1>7
<1>9. y = x
  BY <1>2, <1>3, <1>5, <1>8
<1> QED
  BY <1>9 DEF x, y

\* Nor is anything taken from a number below m.
LEMMA Small ==
    ASSUME NEW m \in Nat \ {0}, NEW i \in 0..(m - 1)
    PROVE  i % m = i
BY SMTT(20)

\* s is t, any number of times over; nothing, if t is.
Whole(s, t) == IF t = <<>> THEN s = <<>> ELSE Repeats(s, t)

\* No times over,
LEMMA WholeNone ==
    ASSUME NEW S, NEW t \in Seq(S)
    PROVE  Whole(<<>>, t)
<1>1. CASE t # <<>>
  <2>1. Len(t) \in Nat \ {0} /\ Len(<<>>) = 0
    BY <1>1, EmptySeq
  <2>2. 0 % Len(t) = 0
    BY <2>1, Small
  <2> QED
    BY <1>1, <2>1, <2>2 DEF Whole, Repeats
<1> QED
  BY <1>1 DEF Whole

\* once,
LEMMA WholeOnce ==
    ASSUME NEW S, NEW t \in Seq(S)
    PROVE  Whole(t, t)
<1>1. CASE t # <<>>
  <2> DEFINE m == Len(t)
  <2>1. m \in Nat \ {0} /\ DOMAIN t = 1..m
    BY <1>1, EmptySeq, LenProperties
  <2> HIDE DEF m
  <2>2. m % m = 0
    <3>1. 0 % m = 0
      BY <2>1, Small
    <3>2. m % m = 0
      BY <2>1, SMTT(20)
    <3> QED
      BY <3>2
  <2>3. ASSUME NEW i \in DOMAIN t PROVE t[i] = t[((i - 1) % m) + 1]
    <3>1. i - 1 \in 0..(m - 1)
      BY <2>1
    <3>2. (i - 1) % m = i - 1
      BY <2>1, <3>1, Small
    <3>3. ((i - 1) % m) + 1 = i
      BY <2>1, <3>2
    <3> QED
      BY <3>3
  <2> QED
    BY <1>1, <2>2, <2>3 DEF Whole, Repeats, m
<1> QED
  BY <1>1 DEF Whole

\* and the sum of any two numbers of times.
LEMMA WholeTwice ==
    ASSUME NEW S, NEW t \in Seq(S), NEW r \in Seq(S), NEW s \in Seq(S), Whole(r, t), Whole(s, t)
    PROVE  Whole(r \o s, t)
<1>1. CASE t = <<>>
  <2>1. <<>> \o <<>> = <<>>
    BY ConcatEmptySeq, EmptySeq
  <2> QED
    BY <1>1, <2>1 DEF Whole
<1>2. CASE t # <<>>
  <2> DEFINE m == Len(t)
             a == Len(r)
             b == Len(s)
             u == r \o s
  <2>1. m \in Nat \ {0} /\ a \in Nat /\ b \in Nat /\ DOMAIN r = 1..a /\ DOMAIN s = 1..b
    BY <1>2, EmptySeq, LenProperties
  <2>2. /\ u \in Seq(S) /\ Len(u) = a + b
        /\ \A i \in 1..(a + b) : u[i] = IF i <= a THEN r[i] ELSE s[i - a]
    BY ConcatProperties
  <2>3. DOMAIN u = 1..(a + b)
    BY <2>2, LenProperties
  <2>4. /\ a % m = 0 /\ b % m = 0
        /\ \A i \in 1..a : r[i] = t[((i - 1) % m) + 1]
        /\ \A i \in 1..b : s[i] = t[((i - 1) % m) + 1]
    BY <1>2, <2>1 DEF Whole, Repeats
  <2> HIDE DEF m, a, b, u
  <2>5. (a + b) % m = 0
    BY <2>1, <2>4, Turns
  <2>6. ASSUME NEW i \in 1..(a + b) PROVE u[i] = t[((i - 1) % m) + 1]
    <3>1. CASE i <= a
      <4>1. i \in 1..a
        BY <2>1, <3>1
      <4> QED
        BY <2>2, <2>4, <3>1, <4>1
    <3>2. CASE ~(i <= a)
      <4>1. i - a \in 1..b /\ (i - a) - 1 \in Nat /\ a + ((i - a) - 1) = i - 1
        BY <2>1, <3>2
      <4>2. (a + ((i - a) - 1)) % m = ((i - a) - 1) % m
        BY <2>1, <2>4, <4>1, Turns
      <4>3. u[i] = s[i - a] /\ s[i - a] = t[(((i - a) - 1) % m) + 1]
        BY <2>2, <2>4, <3>2, <4>1
      <4> QED
        BY <4>1, <4>2, <4>3
    <3> QED
      BY <3>1, <3>2
  <2>7. Len(u) % m = 0 /\ \A i \in DOMAIN u : u[i] = t[((i - 1) % m) + 1]
    BY <2>2, <2>3, <2>5, <2>6
  <2> QED
    BY <1>2, <2>7 DEF Whole, Repeats, u, m
<1> QED
  BY <1>1, <1>2

(***************************************************************************)
(* What a file says, and what there is of it in an outcome.                *)
(***************************************************************************)
\* The files whose lines are looked at, the entries there may be, and those of
\* one file.
Parsed(files) == {file \in DOMAIN files : files[file] # Garbled}
AllEntries(files) ==
    UNION {{Entry(<<file>>, line) : line \in ToSet(files[file])} : file \in Parsed(files)}
EntriesFrom(files, file) == {e \in AllEntries(files) : e.source = file}

\* An entry is a line of the file it has for its source.
LEMMA EntryIsALine ==
    ASSUME NEW files, NEW e \in AllEntries(files)
    PROVE  /\ e.source \in Parsed(files)
           /\ \E line \in ToSet(files[e.source]) : e = Entry(<<e.source>>, line)
<1>1. PICK file \in Parsed(files) : \E line \in ToSet(files[file]) : e = Entry(<<file>>, line)
  BY DEF AllEntries
<1>2. e.source = file
  <2>1. Last(<<file>>) = file
    BY DEF Last
  <2> QED
    BY <1>1, <2>1 DEF Entry
<1> QED
  BY <1>1, <1>2

\* A line's entry is of the last file of the chain.
LEMMA EntryOf ==
    ASSUME NEW files, NEW chain, Last(chain) \in Parsed(files),
           NEW line \in ToSet(files[Last(chain)])
    PROVE  LET e == Entry(chain, line) IN
           /\ e = Entry(<<Last(chain)>>, line) /\ e \in AllEntries(files)
           /\ e.source = Last(chain) /\ e.cmd = line.cmd
<1>1. Last(<<Last(chain)>>) = Last(chain)
  BY DEF Last
<1>2. Entry(chain, line) = Entry(<<Last(chain)>>, line)
  BY <1>1 DEF Entry
<1>3. Entry(chain, line).source = Last(chain) /\ Entry(chain, line).cmd = line.cmd
  BY DEF Entry
<1>4. Entry(chain, line) \in AllEntries(files)
  BY <1>2 DEF AllEntries
<1> QED
  BY <1>2, <1>3, <1>4

\* What a file says, line by line.
SaysOut(files, file, n, said) ==
    /\ said[0] = <<>>
    /\ \A k \in 1..n : said[k] = IF files[file][k].cmd \notin Importing
                                 THEN Append(said[k - 1], Entry(<<file>>, files[file][k]))
                                 ELSE said[k - 1]
    /\ said[n] = Says(files, file)

\* There is such a sequence, and it is one of the entries there may be.
LEMMA SaysFold ==
    ASSUME NEW files, Readable(files), NEW file \in Parsed(files)
    PROVE  /\ \E said : SaysOut(files, file, Len(files[file]), said)
           /\ Says(files, file) \in Seq(AllEntries(files))
<1> DEFINE n == Len(files[file])
           all == [i \in DOMAIN files[file] |-> Entry(<<file>>, files[file][i])]
           T == {e \in ToSet(all) : e.cmd \notin Importing}
<1>1. /\ n \in Nat /\ DOMAIN files[file] = 1..n
      /\ \A i \in 1..n : files[file][i] \in ToSet(files[file])
  <2>1. file \in DOMAIN files /\ files[file] # Garbled
    BY DEF Parsed
  <2> QED
    BY <2>1, ParsedLines
<1>2. Last(<<file>>) = file
  BY DEF Last
<1>3. \A i \in 1..n : /\ all[i] = Entry(<<file>>, files[file][i]) /\ all[i] \in ToSet(all)
                      /\ all[i].cmd = files[file][i].cmd
                      /\ all[i] \in AllEntries(files)
  <2>1. ASSUME NEW i \in 1..n PROVE all[i] \in ToSet(all)
    BY <1>1 DEF ToSet
  <2>2. \A i \in 1..n : all[i] = Entry(<<file>>, files[file][i])
    BY <1>1
  <2>3. \A i \in 1..n : files[file][i] \in ToSet(files[file])
    BY <1>1
  <2> HIDE DEF all, n
  <2>4. \A i \in 1..n : Entry(<<file>>, files[file][i]).cmd = files[file][i].cmd
    BY DEF Entry
  <2>5. \A i \in 1..n : Entry(<<file>>, files[file][i]) \in AllEntries(files)
    BY <2>3 DEF AllEntries
  <2> QED
    BY <2>1, <2>2, <2>4, <2>5
<1>4. all \in Seq(AllEntries(files))
  <2>1. all = [i \in 1..n |-> all[i]]
    BY <1>1
  <2>2. \A i \in 1..n : all[i] \in AllEntries(files)
    BY <1>3
  <2>3. n \in Nat
    BY <1>1
  <2> HIDE DEF all, n
  <2>4. all \in [1..n -> AllEntries(files)]
    BY <2>1, <2>2
  <2> QED
    BY <2>3, <2>4
<1>5. DOMAIN all = 1..n
  BY <1>1
<1>6. Says(files, file) = Among(all, T)
  BY DEF Says
<1> HIDE DEF all, n
<1>7. PICK said : AmongOut(all, T, n, said)
  BY <1>1, <1>5, AmongFold
<1>8. \A k \in 1..n : all[k] \in T <=> files[file][k].cmd \notin Importing
  BY <1>3
<1>9. \A k \in 1..n : said[k] = IF files[file][k].cmd \notin Importing
                                THEN Append(said[k - 1], Entry(<<file>>, files[file][k]))
                                ELSE said[k - 1]
  BY <1>3, <1>7, <1>8 DEF AmongOut
<1>10. said[0] = <<>> /\ said[n] = Says(files, file)
  BY <1>6, <1>7 DEF AmongOut
<1>11. SaysOut(files, file, n, said)
  BY <1>9, <1>10 DEF SaysOut
<1>12. Among(all, T) \in Seq(AllEntries(files))
  BY <1>4, AmongSeq
<1> QED
  BY <1>6, <1>11, <1>12 DEF n

\* The files that contribute a line.
Sources(entries) == {e.source : e \in ToSet(entries)}

\* The file that the import on line i of a file names.
Target(files, workspace, home, file, i) ==
    Resolve(files[file][i].args[1].val, Dir(file), workspace, home)

\* A file that is there has brought its lines, if it has any of its own.
IsThere(files, t, entries) ==
    t \in DOMAIN files /\ (Says(files, t) # <<>> => t \in Sources(entries))

\* The imports of the first k lines are all there.
Brought(files, workspace, home, file, k, entries) ==
    \A i \in 1..k : files[file][i].cmd = "import" =>
        IsThere(files, Target(files, workspace, home, file, i), entries)

\* What holds of the outcome of any chain ...
GoodOutcome(files, workspace, home, chain, o) ==
    /\ o.err # "none" => o.entries = <<>>
    /\ o.entries \in Seq(AllEntries(files))
    /\ \A e \in ToSet(o.entries) :
           /\ e.source \notin ToSet(Front(chain))
           /\ Brought(files, workspace, home, e.source, Len(files[e.source]), o.entries)
    /\ \A f \in Parsed(files) : Whole(Among(o.entries, EntriesFrom(files, f)), Says(files, f))
    /\ o.err = "none" => IsThere(files, Last(chain), o.entries)

\* ... and of what there is of it when k lines have been read, by which the
\* file has said this much.
SoFar(files, workspace, home, chain, k, o, said) ==
    /\ o.err # "none" => o.entries = <<>>
    /\ o.entries \in Seq(AllEntries(files))
    /\ \A e \in ToSet(o.entries) :
           /\ e.source \notin ToSet(Front(chain))
           /\ e.source # Last(chain) =>
                  Brought(files, workspace, home, e.source, Len(files[e.source]), o.entries)
    /\ \A f \in Parsed(files) \ {Last(chain)} :
           Whole(Among(o.entries, EntriesFrom(files, f)), Says(files, f))
    /\ o.err = "none" =>
           /\ Among(o.entries, EntriesFrom(files, Last(chain))) = said
           /\ Brought(files, workspace, home, Last(chain), k, o.entries)

\* What one line may do.
LEMMA OneLine ==
    ASSUME NEW files, Readable(files), NEW workspace \in Seq(STRING), NEW home \in Seq(STRING),
           NEW chain, Last(chain) \in Parsed(files), NEW load, NEW o,
           NEW line \in ToSet(files[Last(chain)]),
           \A t \in Seq(STRING) : load[Append(chain, t)].err # "none" =>
                                      load[Append(chain, t)].entries = <<>>
    PROVE  LET r == Expand(chain, workspace, home, load, o, line)
               t == Resolve(line.args[1].val, Dir(Last(chain)), workspace, home)
           IN  \/ o.err # "none" /\ r = o
               \/ /\ o.err = "none" /\ line.cmd \notin Importing
                  /\ r = Loaded(Append(o.entries, Entry(chain, line)))
               \/ /\ o.err = "none" /\ line.cmd \in Importing
                  /\ t \in Seq(STRING) /\ load[Append(chain, t)].err = "none"
                  /\ r = Loaded(o.entries \o load[Append(chain, t)].entries)
               \/ o.err = "none" /\ line.cmd = "try-import" /\ r = o
               \/ r.err # "none" /\ r.entries = <<>>
<1> DEFINE r == Expand(chain, workspace, home, load, o, line)
           t == Resolve(line.args[1].val, Dir(Last(chain)), workspace, home)
           sub == load[Append(chain, t)]
<1>1. CASE o.err # "none"
  BY <1>1 DEF Expand
<1>2. CASE o.err = "none" /\ line.cmd \notin Importing
  BY <1>2 DEF Expand
<1>3. CASE o.err = "none" /\ line.cmd \in Importing
  <2>1. CASE line.args = <<>> \/ ~Resolvable(line.args[1].val, home)
    <3>1. r = Failure("usage")
      BY <1>3, <2>1 DEF Expand
    <3> QED
      BY <3>1 DEF Failure
  <2>2. CASE ~(line.args = <<>> \/ ~Resolvable(line.args[1].val, home))
    <3>1. r = Bring(line.cmd, o, sub)
      BY <1>3, <2>2 DEF Expand
    <3>2. t \in Seq(STRING)
      <4>1. Last(chain) \in DOMAIN files /\ files[Last(chain)] # Garbled
        BY DEF Parsed
      <4> QED
        BY <1>3, <2>2, <4>1, ImportResolved
    <3>3. sub.err # "none" => sub.entries = <<>>
      BY <3>2
    <3> HIDE DEF sub, t, r
    <3>4. CASE sub.err = "none"
      <4>1. r = Loaded(o.entries \o sub.entries)
        BY <3>1, <3>4 DEF Bring
      <4> QED
        BY <1>3, <3>2, <3>4, <4>1 DEF r, t, sub
    <3>5. CASE sub.err # "none" /\ line.cmd = "try-import" /\ sub.err = "missing"
      <4>1. r = o
        BY <3>1, <3>5 DEF Bring
      <4> QED
        BY <1>3, <3>5, <4>1 DEF r
    <3>6. CASE sub.err # "none" /\ ~(line.cmd = "try-import" /\ sub.err = "missing")
      <4>1. r = sub
        BY <3>1, <3>6 DEF Bring
      <4> QED
        BY <3>3, <3>6, <4>1 DEF r
    <3> QED
      BY <3>4, <3>5, <3>6
  <2> QED
    BY <2>1, <2>2
<1> QED
  BY <1>1, <1>2, <1>3

\* What is brought is so among more entries,
LEMMA BroughtInMore ==
    ASSUME NEW files, NEW workspace, NEW home, NEW file, NEW k, NEW a, NEW b,
           Sources(a) \subseteq Sources(b), Brought(files, workspace, home, file, k, a)
    PROVE  Brought(files, workspace, home, file, k, b)
BY DEF Brought, IsThere

\* and by the next line if that imports nothing that is not there.
LEMMA BroughtNext ==
    ASSUME NEW files, NEW workspace, NEW home, NEW file, NEW k \in Nat, NEW a,
           Brought(files, workspace, home, file, k, a),
           files[file][k + 1].cmd = "import" =>
               IsThere(files, Target(files, workspace, home, file, k + 1), a)
    PROVE  Brought(files, workspace, home, file, k + 1, a)
<1>1. \A i \in 1..(k + 1) : i \in 1..k \/ i = k + 1
  OBVIOUS
<1> QED
  BY <1>1 DEF Brought

\* A failure leaves no entries, of which everything holds.
LEMMA SoFarNothing ==
    ASSUME NEW files, Readable(files), NEW workspace, NEW home, NEW chain, NEW k, NEW o, NEW said,
           o.entries = <<>>, o.err # "none"
    PROVE  SoFar(files, workspace, home, chain, k, o, said)
<1>1. ToSet(o.entries) = {}
  BY DEF ToSet
<1>2. o.entries \in Seq(AllEntries(files))
  BY EmptySeq
<1>3. ASSUME NEW f \in Parsed(files)
      PROVE  Whole(Among(o.entries, EntriesFrom(files, f)), Says(files, f))
  BY AmongEmpty, SaysFold, WholeNone
<1> QED
  BY <1>1, <1>2, <1>3 DEF SoFar

\* A line of the file itself ...
LEMMA OwnLine ==
    ASSUME NEW files, Readable(files), NEW workspace, NEW home, NEW chain,
           Last(chain) \in Parsed(files), Last(chain) \notin ToSet(Front(chain)),
           NEW k \in Nat, NEW o, NEW said, SoFar(files, workspace, home, chain, k, o, said),
           o.err = "none", NEW line \in ToSet(files[Last(chain)]),
           files[Last(chain)][k + 1] = line, line.cmd \notin Importing
    PROVE  SoFar(files, workspace, home, chain, k + 1,
                 Loaded(Append(o.entries, Entry(chain, line))),
                 Append(said, Entry(<<Last(chain)>>, line)))
<1> DEFINE F == Last(chain)
           x == Entry(chain, line)
           all == Append(o.entries, x)
           r == Loaded(all)
<1>1. /\ x = Entry(<<F>>, line) /\ x \in AllEntries(files) /\ x.source = F
      /\ F \notin ToSet(Front(chain))
  BY EntryOf
<1>2. o.entries \in Seq(AllEntries(files))
  BY DEF SoFar
<1>3. r.err = "none" /\ r.entries = all
  BY DEF Loaded
<1> HIDE DEF x, r
<1>4. all \in Seq(AllEntries(files)) /\ all = o.entries \o <<x>> /\ <<x>> \in Seq(AllEntries(files))
  BY <1>1, <1>2, AppendProperties, AppendIsConcat
<1>5. ToSet(all) = ToSet(o.entries) \union {x}
  BY <1>1, <1>2, AppendMembers
<1>6. Sources(o.entries) \subseteq Sources(all)
  BY <1>5 DEF Sources
<1>7. ASSUME NEW f \in Parsed(files)
      PROVE  Among(all, EntriesFrom(files, f))
                 = IF f = F THEN Append(Among(o.entries, EntriesFrom(files, f)), x)
                   ELSE Among(o.entries, EntriesFrom(files, f))
  <2> DEFINE S == AllEntries(files)
             a == o.entries
             T == EntriesFrom(files, f)
  <2>1. x \in T <=> f = F
    BY <1>1 DEF EntriesFrom
  <2>2. a \in Seq(S) /\ x \in S
    BY <1>1, <1>2
  <2> HIDE DEF S, a, T
  <2>3. Among(Append(a, x), T) = IF x \in T THEN Append(Among(a, T), x) ELSE Among(a, T)
    BY <2>2, AmongAppend
  <2> QED
    BY <2>1, <2>3 DEF a, T
<1> HIDE DEF all, F
<1>8. ASSUME NEW e \in ToSet(all)
      PROVE  /\ e.source \notin ToSet(Front(chain))
             /\ e.source # Last(chain) =>
                    Brought(files, workspace, home, e.source, Len(files[e.source]), all)
  <2>1. CASE e = x
    BY <1>1, <2>1 DEF F
  <2>2. CASE e \in ToSet(o.entries)
    BY <1>6, <2>2, BroughtInMore DEF SoFar
  <2> QED
    BY <1>5, <1>8, <2>1, <2>2
<1>9. \A f \in Parsed(files) \ {Last(chain)} :
          Whole(Among(all, EntriesFrom(files, f)), Says(files, f))
  BY <1>7 DEF SoFar, F
<1>10. Among(all, EntriesFrom(files, Last(chain))) = Append(said, Entry(<<Last(chain)>>, line))
  BY <1>1, <1>7 DEF SoFar, F
<1>11. Brought(files, workspace, home, Last(chain), k + 1, all)
  <2>1. Brought(files, workspace, home, Last(chain), k, all)
    BY <1>6, BroughtInMore DEF SoFar
  <2> QED
    BY <2>1, BroughtNext DEF Importing
<1>12. SoFar(files, workspace, home, chain, k + 1, r, Append(said, Entry(<<Last(chain)>>, line)))
  BY <1>3, <1>4, <1>8, <1>9, <1>10, <1>11 DEF SoFar
<1> QED
  BY <1>12 DEF r, all, x

\* ... one that brings what a file comes to ...
LEMMA ImportLine ==
    ASSUME NEW files, Readable(files), NEW workspace, NEW home,
           NEW chain \in Chains, chain # <<>>, Last(chain) \in Parsed(files),
           NEW k \in Nat, NEW o, NEW said, SoFar(files, workspace, home, chain, k, o, said),
           o.err = "none", NEW t \in Seq(STRING), NEW sub,
           GoodOutcome(files, workspace, home, Append(chain, t), sub), sub.err = "none",
           t = Target(files, workspace, home, Last(chain), k + 1)
    PROVE  SoFar(files, workspace, home, chain, k + 1, Loaded(o.entries \o sub.entries), said)
<1> DEFINE S == AllEntries(files)
           all == o.entries \o sub.entries
           r == Loaded(all)
<1>1. o.entries \in Seq(S) /\ sub.entries \in Seq(S)
  BY DEF SoFar, GoodOutcome
<1>2. r.err = "none" /\ r.entries = all
  BY DEF Loaded
<1>3. all \in Seq(S) /\ ToSet(all) = ToSet(o.entries) \union ToSet(sub.entries)
  BY <1>1, ConcatProperties, ConcatMembers
<1>4. Last(Append(chain, t)) = t /\ Front(Append(chain, t)) = chain
  BY Appended
<1>5. Last(chain) \in ToSet(chain) /\ ToSet(Front(chain)) \subseteq ToSet(chain)
  <2>1. Len(chain) \in Nat \ {0} /\ DOMAIN chain = 1..Len(chain)
    BY EmptySeq, LenProperties DEF Chains
  <2>2. Len(chain) \in 1..Len(chain)
    BY <2>1
  <2>3. Last(chain) \in ToSet(chain)
    BY <2>1, <2>2 DEF Last, ToSet
  <2>4. Len(chain) - 1 \in Nat
    BY <2>1
  <2>5. Front(chain) = SubSeq(chain, 1, Len(chain) - 1)
    BY DEF Front
  <2>6. \A i \in 1..(Len(chain) - 1) : i \in 1..Len(chain) /\ chain[i] \in ToSet(chain)
    BY <2>1 DEF ToSet
  <2>7. Front(chain) \in Seq(ToSet(chain))
    BY <2>4, <2>5, <2>6, SubSeqProperties
  <2>8. \A i \in DOMAIN Front(chain) : Front(chain)[i] \in ToSet(chain)
    BY <2>7, LenProperties, ElementOfSeq
  <2>9. ToSet(Front(chain)) \subseteq ToSet(chain)
    BY <2>8 DEF ToSet
  <2> QED
    BY <2>3, <2>9
<1>6. /\ \A e \in ToSet(sub.entries) :
             /\ e.source \notin ToSet(chain)
             /\ Brought(files, workspace, home, e.source, Len(files[e.source]), sub.entries)
      /\ \A f \in Parsed(files) : Whole(Among(sub.entries, EntriesFrom(files, f)), Says(files, f))
      /\ IsThere(files, t, sub.entries)
  BY <1>4 DEF GoodOutcome
<1> HIDE DEF r
<1>7. Sources(o.entries) \subseteq Sources(all) /\ Sources(sub.entries) \subseteq Sources(all)
  BY <1>3 DEF Sources
<1>8. ASSUME NEW f \in Parsed(files)
      PROVE  Among(all, EntriesFrom(files, f))
                 = Among(o.entries, EntriesFrom(files, f))
                       \o Among(sub.entries, EntriesFrom(files, f))
  <2> DEFINE a == o.entries
             b == sub.entries
             T == EntriesFrom(files, f)
  <2>1. a \in Seq(S) /\ b \in Seq(S)
    BY <1>1
  <2> HIDE DEF S, a, b, T
  <2>2. Among(a \o b, T) = Among(a, T) \o Among(b, T)
    BY <2>1, AmongConcat
  <2> QED
    BY <2>2 DEF a, b, T
<1> HIDE DEF all
<1>9. ASSUME NEW e \in ToSet(all)
      PROVE  /\ e.source \notin ToSet(Front(chain))
             /\ e.source # Last(chain) =>
                    Brought(files, workspace, home, e.source, Len(files[e.source]), all)
  <2>1. CASE e \in ToSet(o.entries)
    BY <1>7, <2>1, BroughtInMore DEF SoFar
  <2>2. CASE e \in ToSet(sub.entries)
    BY <1>5, <1>6, <1>7, <2>2, BroughtInMore
  <2> QED
    BY <1>3, <1>9, <2>1, <2>2
<1>10. ASSUME NEW f \in Parsed(files) \ {Last(chain)}
       PROVE  Whole(Among(all, EntriesFrom(files, f)), Says(files, f))
  <2>1. /\ Among(o.entries, EntriesFrom(files, f)) \in Seq(S)
        /\ Among(sub.entries, EntriesFrom(files, f)) \in Seq(S)
    BY <1>1, AmongSeq
  <2>2. Says(files, f) \in Seq(S)
    BY SaysFold
  <2>3. Whole(Among(o.entries, EntriesFrom(files, f)), Says(files, f))
    BY DEF SoFar
  <2>4. Whole(Among(sub.entries, EntriesFrom(files, f)), Says(files, f))
    BY <1>6
  <2> HIDE DEF S
  <2> QED
    BY <1>8, <2>1, <2>2, <2>3, <2>4, WholeTwice
<1>11. Among(all, EntriesFrom(files, Last(chain))) = said
  <2>1. Among(sub.entries, EntriesFrom(files, Last(chain))) = <<>>
    BY <1>1, <1>5, <1>6, AmongMembers DEF EntriesFrom
  <2>2. Among(o.entries, EntriesFrom(files, Last(chain))) = said
    BY DEF SoFar
  <2>3. said \in Seq(S)
    BY <1>1, <2>2, AmongSeq
  <2> QED
    BY <1>8, <2>1, <2>2, <2>3, ConcatEmptySeq
<1>12. Brought(files, workspace, home, Last(chain), k + 1, all)
  <2>1. Brought(files, workspace, home, Last(chain), k, all)
    BY <1>7, BroughtInMore DEF SoFar
  <2>2. IsThere(files, t, all)
    BY <1>6, <1>7 DEF IsThere
  <2> QED
    BY <2>1, <2>2, BroughtNext
<1>13. SoFar(files, workspace, home, chain, k + 1, r, said)
  BY <1>2, <1>3, <1>9, <1>10, <1>11, <1>12 DEF SoFar
<1> QED
  BY <1>13 DEF r, all

\* ... and any line, what it imports being good: o is the outcome of k lines,
\* by which the file has said this much.
LEMMA LineKeeps ==
    ASSUME NEW files, Readable(files), NEW workspace \in Seq(STRING), NEW home \in Seq(STRING),
           NEW chain \in Chains, chain # <<>>, ~Answered(files, chain), NEW load,
           \A t \in Seq(STRING) :
               GoodOutcome(files, workspace, home, Append(chain, t), load[Append(chain, t)]),
           NEW k \in Nat, k + 1 <= Len(files[Last(chain)]),
           NEW o, NEW said, SoFar(files, workspace, home, chain, k, o, said)
    PROVE  LET line == files[Last(chain)][k + 1] IN
           SoFar(files, workspace, home, chain, k + 1,
                 Expand(chain, workspace, home, load, o, line),
                 IF line.cmd \notin Importing
                 THEN Append(said, Entry(<<Last(chain)>>, line)) ELSE said)
<1> DEFINE F == Last(chain)
           line == files[F][k + 1]
           r == Expand(chain, workspace, home, load, o, line)
           t == Resolve(line.args[1].val, Dir(F), workspace, home)
           sub == load[Append(chain, t)]
           more == IF line.cmd \notin Importing THEN Append(said, Entry(<<F>>, line)) ELSE said
<1>1. /\ F \in Parsed(files) /\ F \in DOMAIN files /\ files[F] # Garbled
      /\ F \notin ToSet(Front(chain))
  BY DEF Answered, Parsed
<1>2. line \in ToSet(files[F])
  <2>1. /\ Len(files[F]) \in Nat /\ DOMAIN files[F] = 1..Len(files[F])
        /\ \A i \in DOMAIN files[F] : files[F][i] \in ToSet(files[F])
    BY <1>1, ParsedLines
  <2>2. k + 1 \in 1..Len(files[F])
    BY <2>1
  <2> QED
    BY <2>1, <2>2
<1>3. \A u \in Seq(STRING) : load[Append(chain, u)].err # "none" =>
                                   load[Append(chain, u)].entries = <<>>
  BY DEF GoodOutcome
<1>4. \/ o.err # "none" /\ r = o
      \/ /\ o.err = "none" /\ line.cmd \notin Importing
         /\ r = Loaded(Append(o.entries, Entry(chain, line)))
      \/ /\ o.err = "none" /\ line.cmd \in Importing /\ t \in Seq(STRING) /\ sub.err = "none"
         /\ r = Loaded(o.entries \o sub.entries)
      \/ o.err = "none" /\ line.cmd = "try-import" /\ r = o
      \/ r.err # "none" /\ r.entries = <<>>
  BY <1>1, <1>2, <1>3, OneLine
<1>5. t = Target(files, workspace, home, F, k + 1)
  BY DEF Target
<1>6. files[F][k + 1] = line
  OBVIOUS
<1> HIDE DEF r, t, line
<1>7. CASE r.err # "none" /\ r.entries = <<>>
  <2>1. SoFar(files, workspace, home, chain, k + 1, r, more)
    BY <1>7, SoFarNothing
  <2> QED
    BY <2>1 DEF r, line
<1>8. CASE o.err # "none" /\ r = o
  BY <1>7, <1>8 DEF SoFar
<1>9. CASE /\ o.err = "none" /\ line.cmd \notin Importing
           /\ r = Loaded(Append(o.entries, Entry(chain, line)))
  <2>1. SoFar(files, workspace, home, chain, k + 1, r, Append(said, Entry(<<F>>, line)))
    BY <1>1, <1>2, <1>6, <1>9, OwnLine
  <2> QED
    BY <1>9, <2>1 DEF r, line
<1>10. CASE /\ o.err = "none" /\ line.cmd \in Importing /\ t \in Seq(STRING) /\ sub.err = "none"
            /\ r = Loaded(o.entries \o sub.entries)
  <2>1. GoodOutcome(files, workspace, home, Append(chain, t), sub)
    BY <1>10
  <2> HIDE DEF sub
  <2>2. SoFar(files, workspace, home, chain, k + 1, r, said)
    BY <1>1, <1>5, <1>10, <2>1, ImportLine
  <2> QED
    BY <1>10, <2>2 DEF r, line
<1>11. CASE o.err = "none" /\ line.cmd = "try-import" /\ r = o
  <2>1. Brought(files, workspace, home, F, k + 1, o.entries)
    <3>1. Brought(files, workspace, home, F, k, o.entries)
      BY <1>11 DEF SoFar
    <3> QED
      BY <1>6, <1>11, <3>1, BroughtNext
  <2>2. SoFar(files, workspace, home, chain, k + 1, o, said)
    BY <1>11, <2>1 DEF SoFar
  <2> QED
    BY <1>11, <2>2 DEF r, line, Importing
<1> QED
  BY <1>4, <1>7, <1>8, <1>9, <1>10, <1>11

(***************************************************************************)
(* What any chain comes to, and what Load does.                            *)
(***************************************************************************)
\* If what a chain's imports come to is good, so is what it comes to itself: by
\* induction over the lines of its last file.
LEMMA ChainKeeps ==
    ASSUME NEW files, Readable(files), NEW workspace \in Seq(STRING), NEW home \in Seq(STRING),
           NEW chain \in Chains, chain # <<>>, NEW load,
           ~Answered(files, chain) => \A t \in Seq(STRING) :
               GoodOutcome(files, workspace, home, Append(chain, t), load[Append(chain, t)])
    PROVE  GoodOutcome(files, workspace, home, chain, LoadStep(files, workspace, home, load, chain))
<1> DEFINE r == LoadStep(files, workspace, home, load, chain)
           F == Last(chain)
           lines == files[F]
           n == Len(lines)
           S == AllEntries(files)
<1>1. CASE Answered(files, chain)
  <2>1. r.err # "none" /\ r.entries = <<>>
    <3>1. r \in {Failure("cycle"), Failure("missing"), Failure("parse")}
      BY <1>1 DEF LoadStep, Answered
    <3> HIDE DEF r
    <3> QED
      BY <3>1 DEF Failure
  <2> HIDE DEF r
  <2>2. ToSet(r.entries) = {} /\ r.entries \in Seq(S)
    BY <2>1, EmptySeq DEF ToSet
  <2>3. ASSUME NEW f \in Parsed(files)
        PROVE  Whole(Among(r.entries, EntriesFrom(files, f)), Says(files, f))
    BY <2>1, AmongEmpty, SaysFold, WholeNone
  <2>4. GoodOutcome(files, workspace, home, chain, r)
    BY <2>1, <2>2, <2>3 DEF GoodOutcome
  <2> QED
    BY <2>4 DEF r
<1>2. CASE ~Answered(files, chain)
  <2>1. F \in Parsed(files) /\ F \in DOMAIN files /\ lines # Garbled /\ F \notin ToSet(Front(chain))
    BY <1>2 DEF Answered, Parsed
  <2>2. n \in Nat /\ DOMAIN lines = 1..n
    BY <2>1, ParsedLines
  <2>3. PICK out : LinesOut(chain, workspace, home, load, lines, n, out)
    <3> HIDE DEF n
    <3> QED
      BY <2>2, LinesFold
  <2>4. PICK said : SaysOut(files, F, n, said)
    BY <2>1, SaysFold
  <2> DEFINE T == {k \in Nat : k <= n => SoFar(files, workspace, home, chain, k, out[k], said[k])}
  <2>5. 0 \in T
    <3>1. out[0] = Loaded(<<>>) /\ said[0] = <<>>
      BY <2>3, <2>4 DEF LinesOut, SaysOut
    <3>2. out[0].err = "none" /\ out[0].entries = <<>>
      BY <3>1 DEF Loaded
    <3>3. ToSet(out[0].entries) = {} /\ out[0].entries \in Seq(S)
      BY <3>2, EmptySeq DEF ToSet
    <3>4. \A f \in Parsed(files) :
              Whole(Among(out[0].entries, EntriesFrom(files, f)), Says(files, f))
      BY <3>2, AmongEmpty, SaysFold, WholeNone
    <3>5. Among(out[0].entries, EntriesFrom(files, F)) = said[0]
      BY <3>1, <3>2, AmongEmpty
    <3>6. Brought(files, workspace, home, F, 0, out[0].entries)
      BY DEF Brought
    <3>7. SoFar(files, workspace, home, chain, 0, out[0], said[0])
      BY <3>2, <3>3, <3>4, <3>5, <3>6 DEF SoFar
    <3> QED
      BY <3>7
  <2>6. ASSUME NEW k \in Nat, k \in T PROVE k + 1 \in T
    <3> SUFFICES ASSUME k + 1 <= n
                 PROVE  SoFar(files, workspace, home, chain, k + 1, out[k + 1], said[k + 1])
      OBVIOUS
    <3>1. k + 1 \in 1..n /\ (k + 1) - 1 = k /\ k <= n
      BY <2>2
    <3>2. SoFar(files, workspace, home, chain, k, out[k], said[k])
      BY <2>6, <3>1
    <3>3. out[k + 1] = Expand(chain, workspace, home, load, out[k], lines[k + 1])
      BY <2>3, <3>1 DEF LinesOut
    <3>4. said[k + 1] = IF lines[k + 1].cmd \notin Importing
                        THEN Append(said[k], Entry(<<F>>, lines[k + 1])) ELSE said[k]
      BY <2>4, <3>1 DEF SaysOut
    <3>5. SoFar(files, workspace, home, chain, k + 1,
                Expand(chain, workspace, home, load, out[k], lines[k + 1]),
                IF lines[k + 1].cmd \notin Importing
                THEN Append(said[k], Entry(<<F>>, lines[k + 1])) ELSE said[k])
      BY <1>2, <3>2, LineKeeps
    <3> QED
      BY <3>3, <3>4, <3>5
  <2>7. n \in T
    <3> HIDE DEF T
    <3> QED
      BY <2>2, <2>5, <2>6, AllNumbers
  <2>8. SoFar(files, workspace, home, chain, n, out[n], said[n])
    BY <2>2, <2>7
  <2>9. out[n] = r
    BY <1>2, <2>3 DEF LinesOut, LoadStep, Answered
  <2>10. said[n] = Says(files, F)
    BY <2>4 DEF SaysOut
  <2> HIDE DEF r
  <2>11. SoFar(files, workspace, home, chain, n, r, Says(files, F))
    BY <2>8, <2>9, <2>10
  <2>12. r.err # "none" => r.entries = <<>> /\ ToSet(r.entries) = {}
    BY <2>11 DEF SoFar, ToSet
  <2>13. r.entries \in Seq(S)
    BY <2>11 DEF SoFar
  <2>14. ASSUME NEW e \in ToSet(r.entries)
         PROVE  /\ e.source \notin ToSet(Front(chain))
                /\ Brought(files, workspace, home, e.source, Len(files[e.source]), r.entries)
    BY <2>11, <2>12 DEF SoFar
  <2>15. ASSUME NEW f \in Parsed(files)
         PROVE  Whole(Among(r.entries, EntriesFrom(files, f)), Says(files, f))
    <3>1. Says(files, f) \in Seq(S)
      BY SaysFold
    <3>2. CASE f # F
      BY <2>11, <3>2 DEF SoFar
    <3>3. CASE f = F /\ r.err = "none"
      <4>1. Among(r.entries, EntriesFrom(files, f)) = Says(files, f)
        BY <2>11, <3>3 DEF SoFar
      <4> QED
        BY <3>1, <4>1, WholeOnce
    <3>4. CASE r.err # "none"
      BY <2>12, <3>1, <3>4, AmongEmpty, WholeNone
    <3> QED
      BY <3>2, <3>3, <3>4
  <2>16. ASSUME r.err = "none" PROVE IsThere(files, F, r.entries)
    <3>1. Among(r.entries, EntriesFrom(files, F)) = Says(files, F)
      BY <2>11, <2>16 DEF SoFar
    <3>2. Says(files, F) # <<>> => \E e \in ToSet(r.entries) : e \in EntriesFrom(files, F)
      BY <2>13, <3>1, AmongMembers
    <3> QED
      BY <2>1, <3>2 DEF IsThere, Sources, EntriesFrom
  <2>17. GoodOutcome(files, workspace, home, chain, r)
    BY <2>12, <2>13, <2>14, <2>15, <2>16 DEF GoodOutcome
  <2> QED
    BY <2>17 DEF r
<1> QED
  BY <1>1, <1>2

\* So it is for every chain, since imports come to an end.
LEMMA ChainGood ==
    ASSUME NEW files, Readable(files), NEW workspace \in Seq(STRING), NEW home \in Seq(STRING),
           NEW chain \in Chains, chain # <<>>
    PROVE  GoodOutcome(files, workspace, home, chain, LoadOne(files, workspace, home)[chain])
<1> DEFINE load == LoadOne(files, workspace, home)
           T == {n \in Nat : \A c \in Chains :
                    c # <<>> /\ (Answered(files, c) \/ FilesLeft(files, c) < n)
                        => GoodOutcome(files, workspace, home, c, load[c])}
<1>1. \A c \in Chains : load[c] = LoadStep(files, workspace, home, load, c)
  BY LoadOneUnfolds
<1> HIDE DEF load
<1>2. 0 \in T
  <2>1. ASSUME NEW c \in Chains, c # <<>>, Answered(files, c) \/ FilesLeft(files, c) < 0
        PROVE  GoodOutcome(files, workspace, home, c, load[c])
    <3>1. Answered(files, c)
      BY <2>1, LeftShrinks
    <3>2. GoodOutcome(files, workspace, home, c, LoadStep(files, workspace, home, load, c))
      BY <2>1, <3>1, ChainKeeps
    <3> QED
      BY <1>1, <3>2
  <2> QED
    BY <2>1
<1>3. ASSUME NEW n \in Nat, n \in T PROVE n + 1 \in T
  <2>1. ASSUME NEW c \in Chains, c # <<>>, Answered(files, c) \/ FilesLeft(files, c) < n + 1
        PROVE  GoodOutcome(files, workspace, home, c, load[c])
    <3>1. ASSUME ~Answered(files, c), NEW t \in Seq(STRING)
          PROVE  GoodOutcome(files, workspace, home, Append(c, t), load[Append(c, t)])
      <4>1. Append(c, t) \in Chains /\ Append(c, t) # <<>>
        <5>1. Append(c, t) \in Chains
          BY Appended
        <5>2. Append(c, t) # <<>>
          BY AppendProperties DEF Chains
        <5> QED
          BY <5>1, <5>2
      <4>2. ~Answered(files, Append(c, t)) => FilesLeft(files, Append(c, t)) < n
        <5>1. /\ FilesLeft(files, c) \in Nat /\ FilesLeft(files, Append(c, t)) \in Nat
              /\ FilesLeft(files, c) < n + 1
          BY <2>1, <3>1, <4>1, LeftShrinks
        <5>2. ~Answered(files, Append(c, t)) => FilesLeft(files, Append(c, t)) < FilesLeft(files, c)
          BY LeftShrinks
        <5> QED
          BY <5>1, <5>2
      <4> QED
        BY <1>3, <4>1, <4>2
    <3>2. GoodOutcome(files, workspace, home, c, LoadStep(files, workspace, home, load, c))
      BY <2>1, <3>1, ChainKeeps
    <3> QED
      BY <1>1, <3>2
  <2> QED
    BY <2>1
<1>4. PICK n \in Nat : FilesLeft(files, chain) < n
  <2>1. FilesLeft(files, chain) + 1 \in Nat /\ FilesLeft(files, chain) < FilesLeft(files, chain) + 1
    BY LeftShrinks
  <2> QED
    BY <2>1
<1>5. n \in T
  <2> HIDE DEF T
  <2> QED
    BY <1>2, <1>3, AllNumbers
<1>6. GoodOutcome(files, workspace, home, chain, load[chain])
  BY <1>4, <1>5
<1> QED
  BY <1>6 DEF load

\* Lists of entries in which every file is whole.
Wholes(files, workspace, home) ==
    {s \in Seq(AllEntries(files)) :
        /\ \A e \in ToSet(s) : Brought(files, workspace, home, e.source, Len(files[e.source]), s)
        /\ \A f \in Parsed(files) : Whole(Among(s, EntriesFrom(files, f)), Says(files, f))}

\* The empty list is one of them,
LEMMA WholesNone ==
    ASSUME NEW files, Readable(files), NEW workspace, NEW home
    PROVE  <<>> \in Wholes(files, workspace, home)
<1>1. ToSet(<<>>) = {} /\ <<>> \in Seq(AllEntries(files))
  BY EmptySeq DEF ToSet
<1>2. \A f \in Parsed(files) : Whole(Among(<<>>, EntriesFrom(files, f)), Says(files, f))
  BY AmongEmpty, SaysFold, WholeNone
<1> QED
  BY <1>1, <1>2 DEF Wholes

\* and so is one list after another.
LEMMA WholesTwice ==
    ASSUME NEW files, Readable(files), NEW workspace, NEW home,
           NEW r \in Wholes(files, workspace, home), NEW s \in Wholes(files, workspace, home)
    PROVE  r \o s \in Wholes(files, workspace, home)
<1> DEFINE S == AllEntries(files)
           u == r \o s
<1>1. r \in Seq(S) /\ s \in Seq(S)
  BY DEF Wholes
<1>2. u \in Seq(S) /\ ToSet(u) = ToSet(r) \union ToSet(s)
  BY <1>1, ConcatProperties, ConcatMembers
<1>3. ASSUME NEW f \in Parsed(files) PROVE Whole(Among(u, EntriesFrom(files, f)), Says(files, f))
  <2> DEFINE T == EntriesFrom(files, f)
             t == Says(files, f)
  <2>1. /\ Among(u, T) = Among(r, T) \o Among(s, T)
        /\ Among(r, T) \in Seq(S) /\ Among(s, T) \in Seq(S)
    <3> HIDE DEF S, T, t
    <3>1. Among(r \o s, T) = Among(r, T) \o Among(s, T)
      BY <1>1, AmongConcat
    <3>2. Among(r, T) \in Seq(S)
      BY <1>1, AmongSeq
    <3>3. Among(s, T) \in Seq(S)
      BY <1>1, AmongSeq
    <3> QED
      BY <3>1, <3>2, <3>3
  <2>2. t \in Seq(S)
    BY SaysFold
  <2>3. Whole(Among(r, T), t) /\ Whole(Among(s, T), t)
    BY DEF Wholes
  <2> HIDE DEF S, T, t, u
  <2>4. Whole(Among(u, T), t)
    BY <2>1, <2>2, <2>3, WholeTwice
  <2> QED
    BY <2>4 DEF T, t
<1> HIDE DEF u
<1>4. Sources(r) \subseteq Sources(u) /\ Sources(s) \subseteq Sources(u)
  BY <1>2 DEF Sources
<1>5. ASSUME NEW e \in ToSet(u)
      PROVE  Brought(files, workspace, home, e.source, Len(files[e.source]), u)
  <2>1. CASE e \in ToSet(r)
    BY <1>4, <2>1, BroughtInMore DEF Wholes
  <2>2. CASE e \in ToSet(s)
    BY <1>4, <2>2, BroughtInMore DEF Wholes
  <2> QED
    BY <1>2, <1>5, <2>1, <2>2
<1>6. u \in Wholes(files, workspace, home)
  BY <1>2, <1>3, <1>5 DEF Wholes
<1> QED
  BY <1>6 DEF u

\* The paths that are tried.
LEMMA CandidatesAre ==
    ASSUME NEW workspace, NEW home
    PROVE  \E n \in {2, 3} : DOMAIN Candidates(workspace, home) = 1..n
<1> DEFINE a == [path |-> SystemRC, off |-> "nosystem_rc"]
           b == [path |-> Append(workspace, ".bazelrc"), off |-> "noworkspace_rc"]
           c == [path |-> Append(home, ".bazelrc"), off |-> "nohome_rc"]
           S == {a, b, c}
           more == IF home = NoPath THEN <<>> ELSE <<c>>
<1>1. Candidates(workspace, home) = <<a, b>> \o more
  BY DEF Candidates
<1> HIDE DEF a, b, c
<1>2. <<a, b>> \in Seq(S) /\ Len(<<a, b>>) = 2
  <2>1. <<a, b>> = [i \in 1..2 |-> IF i = 1 THEN a ELSE b]
    OBVIOUS
  <2>2. [i \in 1..2 |-> IF i = 1 THEN a ELSE b] \in [1..2 -> S]
    OBVIOUS
  <2> QED
    BY <2>1, <2>2, SeqDef
<1>3. more \in Seq(S) /\ Len(more) \in {0, 1}
  <2>1. <<c>> \in Seq(S) /\ Len(<<c>>) = 1
    OBVIOUS
  <2> QED
    BY <2>1, EmptySeq
<1> HIDE DEF more, S
<1>4. /\ <<a, b>> \o more \in Seq(S)
      /\ Len(<<a, b>> \o more) = Len(<<a, b>>) + Len(more)
  BY <1>2, <1>3, ConcatProperties
<1>5. Len(<<a, b>> \o more) \in {2, 3}
  <2> DEFINE u == <<a, b>>
             n == Len(u \o more)
  <2>1. Len(u) = 2 /\ (Len(more) = 0 \/ Len(more) = 1) /\ n = Len(u) + Len(more)
    BY <1>2, <1>3, <1>4
  <2> HIDE DEF u, n
  <2>2. n = 2 \/ n = 3
    BY <2>1
  <2> QED
    BY <2>2 DEF n, u
<1>6. DOMAIN (<<a, b>> \o more) = 1..Len(<<a, b>> \o more)
  BY <1>4, LenProperties
<1> QED
  BY <1>1, <1>5, <1>6

\* What Load comes to: none of what it fails on, skips or concatenates breaks a
\* file up.
LEMMA LoadWhole ==
    ASSUME NEW files, Readable(files), NEW workspace \in Seq(STRING), NEW home \in Seq(STRING)
    PROVE  Load(files, workspace, home).entries \in Wholes(files, workspace, home)
<1> DEFINE candidates == Candidates(workspace, home)
           W == Wholes(files, workspace, home)
           One(i) == IF candidates[i].path \in DOMAIN files
                     THEN LoadOne(files, workspace, home)[<<candidates[i].path>>]
                     ELSE Loaded(<<>>)
           loaded == [i \in DOMAIN candidates |-> One(i)]
           failed == {i \in DOMAIN candidates : loaded[i].err # "none"}
           startup == {e \in UNION {ToSet(loaded[i].entries) : i \in DOMAIN candidates} :
                          e.cmd = "startup"}
           skipped == {c.path : c \in {d \in ToSet(candidates) :
                                          \E e \in startup : HasFlag(e.args, d.off)}}
           Kept(i) == IF candidates[i].path \in skipped THEN <<>> ELSE loaded[i].entries
           kept == [i \in DOMAIN candidates |-> Kept(i)]
           r == IF failed # {} THEN loaded[Min(failed)] ELSE Loaded(FlattenSeq(kept))
<1>1. Load(files, workspace, home) = r
  BY DEF Load
<1>2. PICK n \in {2, 3} : DOMAIN candidates = 1..n
  BY CandidatesAre
<1> HIDE DEF candidates
<1>3. ASSUME NEW i \in 1..n PROVE loaded[i].entries \in W
  <2>1. loaded[i] = One(i)
    BY <1>2
  <2>2. CASE candidates[i].path \in DOMAIN files
    <3> DEFINE c == <<candidates[i].path>>
    <3>1. c \in Chains /\ c # <<>>
      <4>1. candidates[i].path \in Seq(STRING)
        BY <2>2 DEF Readable
      <4> QED
        BY <4>1 DEF Chains
    <3> HIDE DEF c
    <3>2. GoodOutcome(files, workspace, home, c, LoadOne(files, workspace, home)[c])
      BY <3>1, ChainGood
    <3>3. LoadOne(files, workspace, home)[c].entries \in W
      BY <3>2 DEF GoodOutcome, Wholes
    <3> QED
      BY <2>1, <2>2, <3>3 DEF c
  <2>3. CASE candidates[i].path \notin DOMAIN files
    <3>1. One(i).entries = <<>>
      BY <2>3 DEF Loaded
    <3> HIDE DEF One, W
    <3> QED
      BY <2>1, <3>1, WholesNone DEF W
  <2> QED
    BY <2>2, <2>3
<1> HIDE DEF loaded
<1>4. CASE failed # {}
  <2>1. failed \in SUBSET (1..n)
    BY <1>2
  <2> HIDE DEF failed, W
  <2>2. Min(failed) \in failed
    <3>1. \A i \in failed : i = 1 \/ i = 2 \/ i = 3
      BY <2>1
    <3>2. \E i \in failed : \A j \in failed : i =< j
      <4>1. CASE 1 \in failed
        BY <3>1, <4>1
      <4>2. CASE 1 \notin failed /\ 2 \in failed
        BY <3>1, <4>2
      <4>3. CASE 1 \notin failed /\ 2 \notin failed
        BY <1>4, <3>1, <4>3
      <4> QED
        BY <4>1, <4>2, <4>3
    <3> QED
      BY <3>2 DEF Min
  <2>3. loaded[Min(failed)].entries \in W
    BY <1>3, <2>1, <2>2
  <2> QED
    BY <1>1, <1>4, <2>3 DEF W
<1>5. CASE failed = {}
  <2> HIDE DEF skipped, W
  <2>1. \A i \in 1..n : Kept(i) \in W
    BY <1>3, WholesNone DEF W
  <2> HIDE DEF Kept
  <2>2. kept = [i \in 1..n |-> Kept(i)]
    BY <1>2
  <2>3. kept \in Seq(W) /\ Len(kept) = n /\ \A i \in 1..n : kept[i] \in W
    BY <2>1, <2>2
  <2>4. n \in Nat \ {0}
    OBVIOUS
  <2>5. \A s, t \in W : s \o t \in W
    BY WholesTwice DEF W
  <2> HIDE DEF kept
  <2>6. FlattenSeq(kept) \in W
    BY <2>3, <2>4, <2>5, FlattenKeeps
  <2>7. r.entries = FlattenSeq(kept)
    BY <1>5 DEF Loaded
  <2> QED
    BY <1>1, <2>6, <2>7 DEF W
<1> QED
  BY <1>4, <1>5

\* Whatever the files import, one another and themselves too: a file that
\* contributes a line contributes all of its lines, in their order, a number of
\* times over, and whatever it imports is there (loadOne, discover.go:178).
THEOREM LoadingIsWhole ==
    ASSUME NEW files, Readable(files), NEW workspace \in Seq(STRING), NEW home \in Seq(STRING)
    PROVE  LoadsWhole(files, workspace, home)
<1> DEFINE entries == Load(files, workspace, home).entries
           S == AllEntries(files)
<1>1. entries \in Wholes(files, workspace, home)
  BY LoadWhole
<1> HIDE DEF entries
<1>2. entries \in Seq(S)
  BY <1>1 DEF Wholes
<1>3. \A e \in ToSet(entries) : e \in S
  BY <1>2, LenProperties, ElementOfSeq DEF ToSet
<1>4. entries \in Seq(ToSet(entries))
  <2>1. \A i \in 1..Len(entries) : entries[i] \in ToSet(entries)
    BY <1>2, LenProperties DEF ToSet
  <2> QED
    BY <1>2, <2>1, LenProperties
<1>5. ASSUME NEW file \in Sources(entries)
      PROVE  Repeats(Among(entries, {e \in ToSet(entries) : e.source = file}), Says(files, file))
  <2> DEFINE mine == {e \in ToSet(entries) : e.source = file}
  <2>1. PICK e \in ToSet(entries) : e.source = file
    BY DEF Sources
  <2>2. file \in Parsed(files) /\ e \in EntriesFrom(files, file)
    BY <1>3, <2>1, EntryIsALine DEF EntriesFrom
  <2>3. Among(entries, mine) = Among(entries, EntriesFrom(files, file))
    <3>1. ToSet(entries) \intersect mine = ToSet(entries) \intersect EntriesFrom(files, file)
      BY <1>3 DEF EntriesFrom
    <3> HIDE DEF mine
    <3> QED
      BY <1>4, <3>1, AmongSame
  <2>4. Among(entries, EntriesFrom(files, file)) # <<>>
    BY <1>2, <2>1, <2>2, AmongMembers
  <2>5. Whole(Among(entries, EntriesFrom(files, file)), Says(files, file))
    BY <1>1, <2>2 DEF Wholes
  <2> QED
    BY <2>3, <2>4, <2>5 DEF Whole
<1>6. ASSUME NEW file \in Sources(entries), NEW line \in ToSet(files[file]), line.cmd = "import"
      PROVE  IsThere(files, Resolve(line.args[1].val, Dir(file), workspace, home), entries)
  <2>1. PICK e \in ToSet(entries) : e.source = file
    BY DEF Sources
  <2>2. file \in DOMAIN files /\ files[file] # Garbled
    BY <1>3, <2>1, EntryIsALine DEF Parsed
  <2>3. DOMAIN files[file] = 1..Len(files[file])
    BY <2>2, ParsedLines
  <2>4. PICK i \in 1..Len(files[file]) : files[file][i] = line
    BY <2>3 DEF ToSet
  <2>5. Brought(files, workspace, home, file, Len(files[file]), entries)
    BY <1>1, <2>1 DEF Wholes
  <2>6. IsThere(files, Target(files, workspace, home, file, i), entries)
    BY <1>6, <2>4, <2>5 DEF Brought
  <2> QED
    BY <2>4, <2>6 DEF Target
<1> QED
  BY <1>5, <1>6 DEF LoadsWhole, IsThere, Sources, entries

\* A directory that is discovered is one that a line of a file declares, taken
\* from the directory of that very file, or, after an error, as it is written
\* (ExtractCacheDirs, paths.go:64).
THEOREM DiscoveredIsDeclared ==
    ASSUME NEW files, Readable(files), NEW workspace \in Seq(STRING), NEW home \in Seq(STRING),
           NEW name \in ToSet(DirFlags)
    PROVE  LET cache == discoverDirs(files, workspace, home)
               declaredIn(file) ==
                   \E line \in ToSet(files[file]) : \E arg \in ToSet(line.args) :
                       /\ arg.flag = name /\ arg.val \notin {NoValue, NoPath}
                       /\ \/ cache.dir[name] = Resolve(arg.val, Dir(file), workspace, home)
                          \/ cache.err /\ cache.dir[name] = arg.val
           IN  \/ cache.dir[name] = NoPath
               \/ \E e \in ToSet(Load(files, workspace, home).entries) : declaredIn(e.source)
               \/ /\ ~cache.err /\ name = "repo_contents_cache"
                  /\ cache.dir[name] = Append(cache.dir["repository_cache"], "contents")
<1> DEFINE load == Load(files, workspace, home)
           entries == load.entries
           active == activeConfigs(entries)
           cache == ExtractCacheDirs(entries, workspace, home, active)
           n == Len(entries)
           nowhere == [dir |-> [x \in ToSet(DirFlags) |-> NoPath],
                       download |-> NoPath, age |-> 0, err |-> TRUE]
<1>1. CASE load.err # "none"
  <2>1. discoverDirs(files, workspace, home) = nowhere
    BY <1>1 DEF discoverDirs
  <2>2. nowhere.dir[name] = NoPath
    OBVIOUS
  <2> QED
    BY <2>1, <2>2
<1>2. CASE load.err = "none"
  <2>1. discoverDirs(files, workspace, home) = cache
    BY <1>2 DEF discoverDirs
  <2>2. entries \in Seq(AllEntries(files))
    BY LoadWhole DEF Wholes
  <2>3. n \in Nat /\ DOMAIN entries = 1..n /\ \A i \in 1..n : entries[i] \in AllEntries(files)
    BY <2>2, LenProperties, ElementOfSeq
  <2> HIDE DEF entries, active, n
  <2>4. \/ cache.dir[name] = NoPath
        \/ \E i \in DOMAIN entries :
               /\ Declares(entries[i], name, active)
               /\ ExtractFlag(entries[i].args, name) # NoPath
               /\ \/ cache.dir[name] = Resolve(ExtractFlag(entries[i].args, name),
                                               Dir(entries[i].source), workspace, home)
                  \/ cache.err /\ cache.dir[name] = ExtractFlag(entries[i].args, name)
        \/ /\ ~cache.err /\ name = "repo_contents_cache"
           /\ cache.dir[name] = Append(cache.dir["repository_cache"], "contents")
    <3>1. CASE cache.err
      BY <2>3, <3>1, FailedLineDeclares
    <3>2. CASE ~cache.err
      BY <2>3, <3>2, LastLineDeclares
    <3> QED
      BY <3>1, <3>2
  <2> HIDE DEF cache
  <2>5. ASSUME NEW i \in DOMAIN entries, Declares(entries[i], name, active),
               ExtractFlag(entries[i].args, name) # NoPath
        PROVE  LET e == entries[i] IN
               /\ e \in ToSet(entries)
               /\ \E line \in ToSet(files[e.source]) : \E arg \in ToSet(line.args) :
                      /\ arg.flag = name /\ arg.val \notin {NoValue, NoPath}
                      /\ arg.val = ExtractFlag(e.args, name)
    <3> DEFINE e == entries[i]
    <3>1. e \in AllEntries(files) /\ e \in ToSet(entries)
      BY <2>3 DEF ToSet
    <3>2. e.source \in DOMAIN files /\ files[e.source] # Garbled
      BY <3>1, EntryIsALine DEF Parsed
    <3>3. PICK line \in ToSet(files[e.source]) : e = Entry(<<e.source>>, line)
      BY <3>1, EntryIsALine
    <3>4. e.args = line.args
      BY <3>3 DEF Entry
    <3>5. line.args \in Seq(ToSet(line.args))
      BY <3>2 DEF Readable
    <3>6. Len(line.args) \in Nat /\ DOMAIN line.args = 1..Len(line.args)
      BY <3>5, LenProperties
    <3>7. Occurrences(line.args, name) # {}
      BY <2>5, <3>4 DEF Declares
    <3> HIDE DEF e, load, nowhere
    <3>8. PICK j \in DOMAIN line.args :
              /\ line.args[j].flag = name /\ line.args[j].val # NoValue
              /\ ExtractFlag(line.args, name) = line.args[j].val
      <4> DEFINE args == line.args
      <4>1. Len(args) \in Nat /\ DOMAIN args = 1..Len(args) /\ Occurrences(args, name) # {}
        BY <3>6, <3>7
      <4> HIDE DEF args
      <4>2. \E j \in DOMAIN args :
                /\ args[j].flag = name /\ args[j].val # NoValue
                /\ ExtractFlag(args, name) = args[j].val
        BY <4>1, LastFlagWins
      <4> QED
        BY <4>2 DEF args
    <3>9. line.args[j] \in ToSet(line.args)
      BY DEF ToSet
    <3> QED
      BY <2>5, <3>1, <3>3, <3>4, <3>8, <3>9 DEF e
  <2>6. ASSUME NEW i \in DOMAIN entries, Declares(entries[i], name, active),
               ExtractFlag(entries[i].args, name) # NoPath,
               \/ cache.dir[name] = Resolve(ExtractFlag(entries[i].args, name),
                                            Dir(entries[i].source), workspace, home)
               \/ cache.err /\ cache.dir[name] = ExtractFlag(entries[i].args, name)
        PROVE  \E e \in ToSet(entries) : \E line \in ToSet(files[e.source]) :
                   \E arg \in ToSet(line.args) :
                       /\ arg.flag = name /\ arg.val \notin {NoValue, NoPath}
                       /\ \/ cache.dir[name] = Resolve(arg.val, Dir(e.source), workspace, home)
                          \/ cache.err /\ cache.dir[name] = arg.val
    BY <2>5, <2>6
  <2> QED
    BY <2>1, <2>4, <2>6 DEF entries
<1> QED
  BY <1>1, <1>2
=============================================================================
