----------------------------- MODULE GroupStages -----------------------------
(***************************************************************************)
(* What `fclones group` reports: the stages of `group_files` and the       *)
(* report's timestamp in src/fclones/src/group.rs, with hashing of chunks  *)
(* from src/fclones/src/hasher.rs, while other programs write to the files *)
(* and save new ones under their names.                                    *)
(*                                                                         *)
(* A stage hashes the runs of links of its groups one by one, in any       *)
(* order; the threads, permits and channel behind a stage are the subject  *)
(* of Rehash.tla.  One unit of a sequence stands for a block of data, and  *)
(* a hash is the set of chunks XORed into it: {} is the hash 0, the XOR of *)
(* two hashes their symmetric difference.                                  *)
(***************************************************************************)
EXTENDS Integers, Sequences, FiniteSetsExt, SequencesExt

CONSTANTS
  Entries,      \* what the walk yields: a path may be yielded twice
  Path,         \* Path[e]
  Blocks,       \* what a block of a file may hold
  Inodes,       \* numbers of files that exist or may be created
  Device,       \* Device[p]
  MinPrefix, MaxPrefix, SuffixLen, SuffixThreshold, \* per device
  Output(_),    \* what a transform command prints for some contents
  NoRoot, NoSize,
  Scenarios     \* a sequence of records: what the user asks for, on which files

VARIABLE scenario  \* index of the scenario of this behavior

Scenario == Scenarios[scenario]

\* The options of the search, from GroupConfig.
Root == Scenario.root                    \* Root[p]: the first isolated root p is under, or NoRoot
MaxPrefixSize == Scenario.maxPrefixSize  \* or NoSize
MaxSuffixSize == Scenario.maxSuffixSize  \* or NoSize
SkipContentHash == Scenario.skipContentHash
Transforming == Scenario.transforming    \* --transform is given
MatchLinks == Scenario.matchLinks
Unique == Scenario.unique
RfOver == Scenario.rfOver                \* 1 if --rf-over is not given
MinSize == Scenario.minSize              \* 1 if --min-size is not given
MaxSize == Scenario.maxSize              \* NoSize if --max-size is not given

\* The rest of the world.
Starts == Scenario.starts                \* the [at, data] the file system may start with
Contents == Scenario.contents            \* what other programs write
MaxChanges == Scenario.maxChanges        \* bound: how often other programs interfere
CanFail == Scenario.canFail              \* paths a read of which may fail

Stages == {"prefix", "suffix", "contents", "transform"}
Paths == {Path[e] : e \in Entries}
AllContents ==
  UNION {Scenarios[i].contents \cup UNION {{t.data[k] : k \in Inodes} : t \in Scenarios[i].starts} :
           i \in 1..Len(Scenarios)}

\* The walk ends, files are blocks in a row, and lengths in bytes are whole numbers.
\* All kinds of devices have the same shortest prefix; a prefix is at most as long
\* as a file of which a suffix is hashed, and a suffix shorter (device.rs:95-121).
ASSUME GroupAssumption ==
  /\ IsFiniteSet(Entries)
  /\ \A c \in AllContents : c \in Seq(Blocks) /\ Output(c) \in Seq(Blocks)
  /\ \A p, q \in Paths :
       /\ {MinPrefix[Device[p]], MaxPrefix[Device[p]], SuffixLen[Device[p]],
           SuffixThreshold[Device[p]]} \subseteq Nat
       /\ MinPrefix[Device[p]] = MinPrefix[Device[q]]
       /\ MaxPrefix[Device[p]] <= SuffixThreshold[Device[q]]
       /\ SuffixLen[Device[p]] < SuffixThreshold[Device[p]]
  /\ \A i \in 1..Len(Scenarios) :
       LET s == Scenarios[i]
       IN /\ \A t \in s.starts : t.at \in [Paths -> Inodes] /\ t.data \in [Inodes -> AllContents]
          /\ {s.maxPrefixSize, s.maxSuffixSize, s.minSize, s.maxSize, s.rfOver} \subseteq Nat
          /\ {s.transforming, s.matchLinks, s.unique, s.skipContentHash} \subseteq BOOLEAN

VARIABLES
  at,        \* file system: path -> inode
  data,      \* file system: inode -> contents
  changes,   \* changes made so far by other programs
  touched,   \* history: inodes written to, or replaced at one of their paths
  stage,
  info,      \* FileInfo by entry: recorded length and id
  groups,    \* output of the last complete stage
  passed,    \* groups the running stage does not hash
  todo,      \* runs of links the running stage has still to hash
  hashed,    \* messages [file, len, hash] of the running stage
  prefixLen, \* local variable of group_files
  lost,      \* entries left out because a read failed
  late       \* inodes modified after the report's timestamp

envVars == <<scenario, at, data, changes, touched, late>>
stageVars == <<passed, todo, hashed>>
vars == <<envVars, stage, info, groups, stageVars, prefixLen, lost>>

Nobody == [len |-> -1, id |-> 0]     \* not looked at yet
LeftOut == [len |-> -2, id |-> 0]    \* not collected by the scan

Init ==
  /\ scenario \in 1..Len(Scenarios)
  /\ \E s \in Starts : at = s.at /\ data = s.data
  /\ changes = 0
  /\ touched = {}
  /\ stage = "scan"
  /\ info = [e \in Entries |-> Nobody]
  /\ groups = {}
  /\ passed = {}
  /\ todo = {}
  /\ hashed = {}
  /\ prefixLen = 0
  /\ lost = {}
  /\ late = {}

-----------------------------------------------------------------------------
(* Other programs.                                                         *)

Touch(inos) ==
  /\ changes < MaxChanges
  /\ changes' = changes + 1
  /\ touched' = touched \cup inos
  /\ late' = IF stage = "reported" THEN late \cup inos ELSE late
  /\ UNCHANGED <<scenario, stage, info, groups, stageVars, prefixLen, lost>>

\* Overwrite the file in place.
Write(p, c) ==
  /\ c # data[at[p]]
  /\ data' = [data EXCEPT ![at[p]] = c]
  /\ Touch({at[p]})
  /\ UNCHANGED at

\* Write a new file and rename it to p.
Save(p, c) ==
  \E i \in Inodes :
    /\ \A q \in Paths : at[q] # i
    /\ i \notin touched
    /\ at' = [at EXCEPT ![p] = i]
    /\ data' = [data EXCEPT ![i] = c]
    /\ Touch({at[p], i})

-----------------------------------------------------------------------------
(* Which groups are worth keeping.                                         *)

\* Mutated form of SubgroupCount: links and roots are not looked at.
CountFiles(g) == Cardinality(g.files)

\* subgroup_count
SubgroupCount(g) ==
  LET rooted == {e \in g.files : Root[Path[e]] # NoRoot}
      others == g.files \ rooted
  IN Cardinality({Root[Path[e]] : e \in rooted})
       + (IF MatchLinks THEN Cardinality(others) ELSE Cardinality({info[e].id : e \in others}))

UniqueCount(g) == Cardinality({info[e].id : e \in g.files})

\* GroupConfig::rf_over
FilterRf == IF Transforming THEN 0 ELSE RfOver

Matches(g) == Unique \/ SubgroupCount(g) > FilterRf

MatchesStrictly(g) ==
  IF Unique THEN SubgroupCount(g) < 2 ELSE SubgroupCount(g) > FilterRf

Regroup(records) ==
  {[len |-> r.len, hash |-> r.hash,
    files |-> {s.file : s \in {t \in records : t.len = r.len /\ t.hash = r.hash}}] :
     r \in records}

FilesOf(gs) == UNION {g.files : g \in gs}

\* The largest value of a property among the devices in use; with no files it
\* is the default device's, and nothing is hashed then.
MaxOver(prop, es) ==
  IF es = {} THEN 0 ELSE Max({prop[Device[Path[e]]] : e \in es})

-----------------------------------------------------------------------------
(* Hashing.                                                                *)

Xor(h1, h2) == (h1 \ h2) \cup (h2 \ h1)

\* scan: at most len units from pos, fewer at the end of the file.
Read(s, pos, len) == SubSeq(s, pos + 1, Min({Len(s), pos + len}))

\* The position of the suffix is an unsigned difference.  It wraps around to
\* an offset that lseek refuses, and the file is left out.
Seekable(pos) == pos >= 0

\* The prefix to hash: all of a file no longer than prefix_len.
Prefix(e) == IF info[e].len <= prefixLen THEN prefixLen ELSE MinPrefix[Device[Path[e]]]

SuffixSize == IF MaxSuffixSize = NoSize THEN MaxOver(SuffixLen, FilesOf(groups))
              ELSE MaxSuffixSize

\* hash_fn of the running stage for file e of a group with hash old: the set of
\* its possible results, a length and a hash.
HashFn(e, old) ==
  LET s == data[at[Path[e]]]
      len == info[e].len
  IN CASE stage = "prefix" -> {[len |-> len, hash |-> {Read(s, 0, Prefix(e))}]}
       [] stage = "suffix" ->
            LET pos == len - SuffixSize
            IN IF Seekable(pos)
               THEN {[len |-> len, hash |-> Xor(old, {Read(s, pos, SuffixSize)})]}
               ELSE {}
       [] stage = "contents" -> {[len |-> len, hash |-> {Read(s, 0, len)}]}
       [] stage = "transform" ->
            LET out == Read(Output(s), 0, len)
            IN {[len |-> Len(out), hash |-> {out}]}

\* Mutated form of RunsOf: only one link of a file goes on.
RunsOfHeads(g) == {[old |-> g.hash, files |-> {CHOOSE e \in g.files : info[e].id = i}] :
                     i \in {info[e].id : e \in g.files}}

\* The files of a group with the same id: hashed once.
RunsOf(g) == {[old |-> g.hash, files |-> {e \in g.files : info[e].id = i}] :
                i \in {info[e].id : e \in g.files}}

-----------------------------------------------------------------------------
(* Stages.                                                                 *)

\* The filter of scan_files.
OfSize(len) == len >= MinSize /\ len <= MaxSize

\* scan_files for one entry of the walk: file_info_or_log_err, and the filter.
Stat(e) ==
  /\ stage = "scan"
  /\ info[e] = Nobody
  /\ LET i == at[Path[e]]
         len == Len(data[i])
     IN \/ /\ info' = [info EXCEPT ![e] = IF OfSize(len) THEN [len |-> len, id |-> i] ELSE LeftOut]
           /\ UNCHANGED lost
        \/ /\ Path[e] \in CanFail
           /\ info' = [info EXCEPT ![e] = LeftOut]
           /\ lost' = lost \cup {e}
  /\ UNCHANGED <<envVars, stage, groups, stageVars, prefixLen>>

\* The next stage, which hashes the chosen groups and passes the others; one that
\* hashes nothing is over at once.
Begin(s, gs, chosen) ==
  /\ stage' = s
  /\ groups' = gs
  /\ passed' = gs \ chosen
  /\ todo' = UNION {RunsOf(g) : g \in chosen}
  /\ hashed' = {}

Collected == {e \in Entries : info[e] # LeftOut}

\* group_transformed makes one group of all files.
Scanned == [len |-> 0, hash |-> {}, files |-> Collected]

\* group_by_size, or the deduplication and the single group of a transform.
GroupBySize ==
  /\ stage = "scan"
  /\ \A e \in Entries : info[e] # Nobody
  /\ stage' = "size"
  /\ groups' = IF Transforming THEN IF Collected = {} THEN {} ELSE {Scanned}
               ELSE {g \in Regroup({[file |-> e, len |-> info[e].len, hash |-> {}] :
                                      e \in Collected}) : Matches(g)}
  /\ UNCHANGED <<envVars, info, stageVars, prefixLen, lost>>

\* Mutated form of OnePerPath: every entry stays.
AllPerPath(files) == {files}

\* What deduplicate may leave of the files: one entry of those with the same
\* path and location, whichever thread of the walk came first.
OnePerPath(files) ==
  LET same(e, f) == Path[e] = Path[f] /\ info[e].id = info[f].id
  IN {kept \in SUBSET files :
        /\ \A e \in files : \E f \in kept : same(e, f)
        /\ \A e, f \in kept : e # f => ~same(e, f)}

Prunings(gs) ==
  {kept \in SUBSET FilesOf(gs) :
     \A g \in gs : kept \cap g.files \in OnePerPath(g.files)}

\* remove_same_files; group_files then fixes the prefix length.
RemoveSameFiles ==
  /\ stage = "size"
  /\ \E kept \in Prunings(groups) :
       LET gs == {g \in {[h EXCEPT !.files = @ \cap kept] : h \in groups} :
                    Transforming \/ Matches(g)}
       IN /\ prefixLen' = IF MaxPrefixSize = NoSize THEN MaxOver(MaxPrefix, FilesOf(gs))
                          ELSE MaxPrefixSize
          /\ IF Transforming THEN Begin("transform", gs, gs)
             ELSE Begin("prefix", gs, {g \in gs : UniqueCount(g) > 1})
  /\ UNCHANGED <<envVars, info, lost>>

\* Hash one file of a run and give its hash to all its links.  Only the hashed
\* link gets a length the hash function changed.
HashRun(r) ==
  /\ stage \in Stages
  /\ todo' = todo \ {r}
  /\ \E e \in r.files :
       \/ \E found \in HashFn(e, r.old) :
            /\ hashed' = hashed \cup
                 {[file |-> f, len |-> IF f = e THEN found.len ELSE info[f].len,
                   hash |-> found.hash] : f \in r.files}
            /\ UNCHANGED lost
       \/ /\ Path[e] \in CanFail \/ HashFn(e, r.old) = {}
          /\ lost' = lost \cup r.files
          /\ UNCHANGED hashed
  /\ UNCHANGED <<envVars, stage, info, groups, passed, prefixLen>>

\* What rehash returns: the files regrouped, with the groups that were passed.
Rehashed == passed \cup Regroup(hashed)

EndPrefix ==
  /\ stage = "prefix"
  /\ todo = {}
  /\ LET gs == {g \in Rehashed : Matches(g)}
         threshold == MaxOver(SuffixThreshold, FilesOf(gs))
     IN Begin("suffix", gs, {g \in gs : g.len >= threshold /\ UniqueCount(g) > 1})
  /\ UNCHANGED <<envVars, info, prefixLen, lost>>

Finish(gs) ==
  /\ stage' = "done"
  /\ groups' = gs
  /\ passed' = {}
  /\ hashed' = {}
  /\ UNCHANGED todo

\* Mutated form of WorthReading: a prefix and a suffix are thought enough.
WorthReadingShort(g) ==
  UniqueCount(g) > 1 /\ g.len >= prefixLen /\ g.len < MaxOver(SuffixThreshold, g.files)

\* pre_filter of group_by_contents: longer files have only a prefix hashed.
WorthReading(g) == UniqueCount(g) > 1 /\ g.len >= prefixLen

EndSuffix ==
  /\ stage = "suffix"
  /\ todo = {}
  /\ LET gs == {g \in Rehashed : Matches(g)}
     IN IF SkipContentHash THEN Finish(gs) ELSE Begin("contents", gs, {g \in gs : WorthReading(g)})
  /\ UNCHANGED <<envVars, info, prefixLen, lost>>

EndContents ==
  /\ stage = "contents"
  /\ todo = {}
  /\ Finish({g \in Rehashed : MatchesStrictly(g)})
  /\ UNCHANGED <<envVars, info, prefixLen, lost>>

EndTransform ==
  /\ stage = "transform"
  /\ todo = {}
  /\ Finish({g \in Rehashed : Matches(g)})
  /\ UNCHANGED <<envVars, info, prefixLen, lost>>

\* write_report takes the time that run_dedupe compares modification times to.
WriteReport ==
  /\ stage = "done"
  /\ stage' = "reported"
  /\ UNCHANGED <<envVars, info, groups, stageVars, prefixLen, lost>>

\* The process has ended; other programs may go on.
Reported == stage = "reported" /\ UNCHANGED vars

Others == \E p \in Paths, c \in Contents : Write(p, c) \/ Save(p, c)

Next ==
  \/ Others
  \/ \E e \in Entries : Stat(e)
  \/ GroupBySize
  \/ RemoveSameFiles
  \/ \E r \in todo : HashRun(r)
  \/ EndPrefix
  \/ EndSuffix
  \/ EndContents
  \/ EndTransform
  \/ WriteReport
  \/ Reported

Spec == Init /\ [][Next]_vars

-----------------------------------------------------------------------------
(* Properties.                                                             *)

\* Types, and the bookkeeping of a stage: no entry is in two groups, and in the
\* course of a stage an entry is passed, still to hash, hashed or lost.
TypeOK ==
  /\ at \in [Paths -> Inodes]
  /\ touched \cup late \subseteq Inodes
  /\ stage \in {"scan", "size", "done", "reported"} \cup Stages
  /\ \A e \in Entries : info[e] \in {Nobody, LeftOut} \/ (info[e].len \in Nat /\ info[e].id \in Inodes)
  /\ \A g \in groups \cup passed : g.len \in Nat /\ g.files \in (SUBSET Entries) \ {{}}
  /\ \A g, h \in groups : g # h => g.files \cap h.files = {}
  /\ prefixLen \in Nat
  /\ lost \subseteq Entries
  /\ stage \in Stages =>
       FilesOf(groups) \ lost =
         FilesOf(passed) \cup FilesOf(todo) \cup {m.file : m \in hashed}

Done == stage \in {"done", "reported"}

\* No program changed the file at p, or replaced it or one of its other links.
Stable(p) == at[p] \notin touched

Intact(p) == Stable(p) /\ \A e \in lost : Path[e] # p

\* The paths the search is about.
InScope == {p \in Paths : Len(data[at[p]]) \in MinSize..MaxSize}

\* What makes two files duplicates.
Sight(p) == IF Transforming THEN Output(data[at[p]]) ELSE data[at[p]]

PathsIn(g) == {Path[e] : e \in g.files}

ReplicasOf(ps) ==
  LET rooted == {p \in ps : Root[p] # NoRoot}
  IN Cardinality({Root[p] : p \in rooted})
       + (IF MatchLinks THEN Cardinality(ps \ rooted)
          ELSE Cardinality({at[p] : p \in ps \ rooted}))

Wanted(ps) == IF Unique THEN ReplicasOf(ps) < 2 ELSE ReplicasOf(ps) > RfOver

\* Files reported together have the same contents, whatever other programs do
\* meanwhile to other files: hashes of chunks, prefixes that stand for a whole
\* file, hashes copied to links and XORed suffixes never join two of them.
Identical ==
  Done => \A g \in groups : \A p, q \in PathsIn(g) :
            Stable(p) /\ Stable(q) => Sight(p) = Sight(q)

\* Enough replicas of some contents are reported, and together, whatever happens
\* to other files: no change or read error elsewhere hides or splits them.
DuplicatesReported ==
  Done /\ ~Unique =>
    \A p \in InScope :
      LET replicas == {q \in InScope : Intact(q) /\ Sight(q) = Sight(p)}
      IN Intact(p) /\ Wanted(replicas) =>
           \E g \in groups : replicas \subseteq PathsIn(g)

\* If nothing changes and no read fails, the report is exactly the classes of
\* files of the sizes asked for with equal contents, and the number of replicas.  Says
\* nothing of --transform, whose filter lets smaller classes through as well.
ResultExact ==
  Done /\ touched = {} /\ lost = {} /\ ~Transforming =>
    {PathsIn(g) : g \in groups} =
      {ps \in {{q \in InScope : Sight(q) = Sight(p)} : p \in InScope} : Wanted(ps)}

\* A path is not reported as a duplicate of itself, unless its file was replaced
\* between two visits of the walk.
PathOnce ==
  Done => \A g \in groups : \A e, f \in g.files :
            e # f /\ Path[e] = Path[f] => ~Stable(Path[e])

\* Every reported group has the number of replicas the user asked for.
ReportWanted ==
  Done => \A g \in groups :
    IF Unique THEN SubgroupCount(g) < 2 ELSE SubgroupCount(g) > RfOver

\* Only files that cannot be read, with their links, are left out.
ReadableKept ==
  \A e \in lost : \E f \in Entries : info[f].id = info[e].id /\ Path[f] \in CanFail

\* A group of files that are no longer identical is recognised by run_dedupe,
\* which looks for a modification after the report's timestamp or a new length.
ChangeNoticed ==
  stage = "reported" => \A g \in groups :
    \/ \A p, q \in PathsIn(g) : Sight(p) = Sight(q)
    \/ \E p \in PathsIn(g) : at[p] \in late \/ Len(data[at[p]]) # g.len

=============================================================================
