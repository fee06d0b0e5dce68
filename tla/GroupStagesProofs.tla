-------------------------- MODULE GroupStagesProofs ---------------------------
(***************************************************************************)
(* What `fclones group` reports, for any files, devices, options, changes  *)
(* by other programs and errors: files reported together are equal, equal  *)
(* files are reported, and together, and no path twice.                    *)
(***************************************************************************)
EXTENDS GroupStages, FiniteSetTheorems, SequenceTheorems, TLAPS

(***************************************************************************)
(* The strengthening that makes the properties inductive.                  *)
(***************************************************************************)

Hashes == SUBSET Seq(Blocks)
SomeEntries == (SUBSET Entries) \ {{}}
FileGroup == [len : Nat, hash : Hashes, files : SomeEntries]

Types ==
  /\ scenario \in 1..Len(Scenarios)
  /\ at \in [Paths -> Inodes]
  /\ data \in [Inodes -> AllContents]
  /\ touched \subseteq Inodes
  /\ late \subseteq Inodes
  /\ stage \in {"scan", "size", "done", "reported"} \cup Stages
  /\ info \in [Entries -> {Nobody, LeftOut} \cup [len : Nat, id : Inodes]]
  /\ groups \subseteq FileGroup
  /\ passed \subseteq FileGroup
  /\ todo \subseteq [old : Hashes, files : SomeEntries]
  /\ hashed \subseteq [file : Entries, len : Nat, hash : Hashes]
  /\ prefixLen \in Nat
  /\ lost \subseteq Entries

Seen(e) == info[e].len \in Nat

\* The file that was found has not been changed, and no path of it replaced.
Fresh(e) == info[e].id \notin touched

Body(e) == data[info[e].id]

\* What the scan noted is true as long as nobody touches the file, ...
InfoTrue ==
  \A e \in Entries : Seen(e) /\ (Fresh(e) \/ Stable(Path[e])) =>
    at[Path[e]] = info[e].id /\ info[e].len = Len(Body(e))

\* ... and it left out what was not asked for.
ScanTrue ==
  /\ stage # "scan" => \A e \in Entries : info[e] # Nobody
  /\ \A e \in Entries :
       /\ Seen(e) => OfSize(info[e].len)
       /\ info[e] = LeftOut /\ Intact(Path[e]) => Path[e] \notin InScope
  /\ stage \in {"scan", "size"} => \A e \in lost : info[e] = LeftOut

\* An entry is in one group, with its length unless that was replaced.
GroupsApart ==
  /\ stage = "scan" => groups = {}
  /\ \A g, h \in groups : g # h => g.files \cap h.files = {}
  /\ \A e \in FilesOf(groups) : Seen(e)
  /\ ~Transforming => \A g \in groups : \A e \in g.files : info[e].len = g.len

ModeKept ==
  /\ stage \in Stages => (Transforming <=> stage = "transform")
  /\ stage = "contents" => ~SkipContentHash

\* In a stage, what it does not pass is hashed or lost, once.
StageRuns ==
  stage \in Stages =>
    /\ passed \subseteq groups
    /\ \A r \in todo : \E g \in groups \ passed : r \in RunsOf(g)
    /\ \A m \in hashed : \E g \in groups \ passed : m.file \in g.files
    /\ \A m, n \in hashed : m.file = n.file => m = n
    /\ \A r \in todo, m \in hashed : m.file \notin r.files
    /\ FilesOf(groups) \ lost =
         FilesOf(passed) \cup FilesOf(todo) \cup {m.file : m \in hashed}

\* A hash found is the one of the file, and a length its own or the one found with it.
HashesTrue ==
  stage \in Stages =>
    \A m \in hashed :
      /\ ~Transforming => m.len = info[m.file].len
      /\ Fresh(m.file) =>
           \E g \in groups \ passed :
             /\ m.file \in g.files
             /\ \E found \in HashFn(m.file, g.hash) :
                  m.hash = found.hash /\ m.len \in {found.len, info[m.file].len}

\* Entries of one path come together, and only a file replaced between two visits
\* has two of them left.
OneEntry ==
  /\ stage = "size" => \A g, h \in groups : Transforming \/ g.len = h.len => g = h
  /\ stage \notin {"scan", "size"} =>
       \A e, f \in FilesOf(groups) : e # f /\ Path[e] = Path[f] => ~(Fresh(e) /\ Fresh(f))

-----------------------------------------------------------------------------
(* Files in one group are equal.                                           *)

\* The user's limits leave a prefix and a suffix of a file different chunks, or make
\* the whole file a third one.
ShortPrefix ==
  MaxPrefixSize = NoSize \/ \A p \in Paths : MaxPrefixSize <= SuffixThreshold[Device[p]]

ShortSuffix ==
  MaxSuffixSize = NoSize \/ \A p \in Paths : MaxSuffixSize < SuffixThreshold[Device[p]]

\* Every byte that makes two files different is read.
AllRead ==
  IF Transforming THEN \A c \in AllContents : Len(Output(c)) <= Len(c)
  ELSE ~SkipContentHash /\ (ShortPrefix \/ ShortSuffix)

Alike(g) ==
  \A e, f \in g.files : Fresh(e) /\ Fresh(f) =>
    IF Transforming THEN Output(Body(e)) = Output(Body(f)) ELSE Body(e) = Body(f)

PrefixBounded ==
  stage \notin {"scan", "size"} /\ ShortPrefix =>
    \A p \in Paths : prefixLen <= SuffixThreshold[Device[p]]

\* What is passed without a hash has one file.
OnePassed ==
  /\ stage = "prefix" => \A g \in passed : UniqueCount(g) <= 1
  /\ stage = "transform" => passed = {}

SuffixFollowsPrefix ==
  stage = "suffix" =>
    /\ \A g \in groups : g.len <= prefixLen => Alike(g)
    /\ \A g \in groups : UniqueCount(g) > 1 =>
         \A e \in g.files : Fresh(e) => g.hash = {Read(Body(e), 0, Prefix(e))}
    /\ \A g \in groups \ passed :
         g.len >= MaxOver(SuffixThreshold, FilesOf(groups)) /\ UniqueCount(g) > 1

WholeRead ==
  AllRead =>
    /\ stage = "contents" => \A g \in passed : Alike(g)
    /\ Done => \A g \in groups : Alike(g)

-----------------------------------------------------------------------------
(* Equal files are in one group.                                           *)

\* Lengths of files transformed stay what they were.
LengthsKept == Transforming => \A c \in AllContents : Len(Output(c)) = Len(c)

Replicas(p) == {q \in InScope : Intact(q) /\ Sight(q) = Sight(p)}

TogetherIn(gs) ==
  \A g \in gs : \A e \in g.files :
    Fresh(e) /\ Intact(Path[e]) => Replicas(Path[e]) \subseteq PathsIn(g)

Together == LengthsKept => TogetherIn(groups)

Placed(p, gs) == \E g \in gs : p \in PathsIn(g)

\* Only what the user did not ask for is dropped; a search for unique files drops
\* nothing before the end.
Kept ==
  LengthsKept /\ stage # "scan" /\ (Unique => ~Done) =>
    \A p \in InScope : Intact(p) /\ (Unique \/ Wanted(Replicas(p))) => Placed(p, groups)

\* The last stage is as strict as the user is.
Strict ==
  Done /\ ~Transforming /\ AllRead =>
    /\ \A g \in groups : MatchesStrictly(g)
    /\ touched = {} /\ lost = {} => \A p \in InScope : Wanted(Replicas(p)) => Placed(p, groups)

IInv ==
  /\ Types /\ InfoTrue /\ ScanTrue /\ GroupsApart /\ ModeKept
  /\ StageRuns /\ HashesTrue /\ OneEntry
  /\ PrefixBounded /\ OnePassed /\ SuffixFollowsPrefix /\ WholeRead
  /\ Together /\ Kept /\ Strict

-----------------------------------------------------------------------------
(* Reading.                                                                *)

LEMMA MinOfTwo ==
  ASSUME NEW m \in Int, NEW n \in Int
  PROVE  Min({m, n}) = IF m <= n THEN m ELSE n
BY DEF Min

\* At least as much as there is: the whole file.
LEMMA ReadAll ==
  ASSUME NEW s \in Seq(Blocks), NEW n \in Nat, Len(s) <= n
  PROVE  Read(s, 0, n) = s
<1>1. Min({Len(s), 0 + n}) = Len(s)
  BY MinOfTwo
<1> QED
  BY <1>1, SubSeqFull DEF Read

LEMMA ReadSome ==
  ASSUME NEW s \in Seq(Blocks), NEW pos \in Nat, NEW n \in Nat
  PROVE  /\ Read(s, pos, n) \in Seq(Blocks)
         /\ pos + n <= Len(s) => Len(Read(s, pos, n)) = n
<1> DEFINE end == Min({Len(s), pos + n})
<1>1. end \in Int /\ end <= Len(s) /\ (pos + n <= Len(s) => end = pos + n)
  BY MinOfTwo
<1> HIDE DEF end
<1>2. \A i \in (pos + 1)..end : s[i] \in Blocks
  BY <1>1
<1>3. /\ SubSeq(s, pos + 1, end) \in Seq(Blocks)
      /\ Len(SubSeq(s, pos + 1, end)) = IF pos + 1 <= end THEN end - (pos + 1) + 1 ELSE 0
  BY <1>1, <1>2, SubSeqProperties
<1>4. Read(s, pos, n) = SubSeq(s, pos + 1, end)
  BY DEF Read, end
<1> QED
  BY <1>1, <1>3, <1>4

-----------------------------------------------------------------------------
(* Counting.                                                               *)

LEMMA ImageCount ==
  ASSUME NEW S, IsFiniteSet(S), NEW f, NEW T, T = {f[x] : x \in S}
  PROVE  IsFiniteSet(T) /\ Cardinality(T) <= Cardinality(S)
<1> DEFINE g == [x \in S |-> f[x]]
<1>1. g \in Surjection(S, T)
  BY DEF Surjection
<1> QED
  BY <1>1, FS_Surjection

LEMMA PathsFinite == IsFiniteSet(Paths)
BY GroupAssumption, ImageCount DEF Paths

LEMMA SmallerCount ==
  ASSUME NEW S, NEW T, IsFiniteSet(T), S \subseteq T
  PROVE  /\ IsFiniteSet(S)
         /\ Cardinality(S) \in Nat /\ Cardinality(T) \in Nat
         /\ Cardinality(S) <= Cardinality(T)
BY FS_Subset, FS_CardinalityType

\* The counts that ReplicasOf compares.
LEMMA MoreReplicas ==
  ASSUME NEW ps, NEW qs \in SUBSET Paths, ps \subseteq qs
  PROVE  /\ ReplicasOf(ps) \in Nat /\ ReplicasOf(qs) \in Nat
         /\ ReplicasOf(ps) <= ReplicasOf(qs)
<1> DEFINE rooted(s) == {p \in s : Root[p] # NoRoot}
           roots(s) == {Root[p] : p \in rooted(s)}
           inodes(s) == {at[p] : p \in s \ rooted(s)}
<1>1. IsFiniteSet(qs)
  BY PathsFinite, SmallerCount
<1>2. IsFiniteSet(rooted(qs)) /\ IsFiniteSet(qs \ rooted(qs))
  BY <1>1, SmallerCount
<1>3. IsFiniteSet(roots(qs)) /\ IsFiniteSet(inodes(qs))
  BY <1>2, ImageCount
<1>4. roots(ps) \subseteq roots(qs) /\ inodes(ps) \subseteq inodes(qs)
      /\ ps \ rooted(ps) \subseteq qs \ rooted(qs)
  OBVIOUS
<1>5. /\ Cardinality(roots(ps)) \in Nat /\ Cardinality(roots(qs)) \in Nat
      /\ Cardinality(roots(ps)) <= Cardinality(roots(qs))
  BY <1>3, <1>4, SmallerCount
<1>6. /\ Cardinality(inodes(ps)) \in Nat /\ Cardinality(inodes(qs)) \in Nat
      /\ Cardinality(inodes(ps)) <= Cardinality(inodes(qs))
  BY <1>3, <1>4, SmallerCount
<1>7. /\ Cardinality(ps \ rooted(ps)) \in Nat /\ Cardinality(qs \ rooted(qs)) \in Nat
      /\ Cardinality(ps \ rooted(ps)) <= Cardinality(qs \ rooted(qs))
  BY <1>2, <1>4, SmallerCount
<1>8. \A s : ReplicasOf(s) = Cardinality(roots(s))
               + (IF MatchLinks THEN Cardinality(s \ rooted(s)) ELSE Cardinality(inodes(s)))
  BY DEF ReplicasOf
<1> QED
  <2> HIDE DEF rooted, roots, inodes
  <2> QED BY <1>5, <1>6, <1>7, <1>8

LEMMA SameReplicas ==
  ASSUME NEW ps, UNCHANGED scenario, \A p \in ps : at'[p] = at[p]
  PROVE  ReplicasOf(ps)' = ReplicasOf(ps)
BY DEF ReplicasOf, Root, MatchLinks, Scenario

-----------------------------------------------------------------------------
(* What steps have in common.                                              *)

LEMMA Options ==
  ASSUME Types
  PROVE  /\ {MaxPrefixSize, MaxSuffixSize, MinSize, MaxSize, RfOver} \subseteq Nat
         /\ {Transforming, MatchLinks, Unique, SkipContentHash} \subseteq BOOLEAN
         /\ Contents \subseteq AllContents
         /\ FilterRf \in Nat /\ FilterRf <= RfOver
<1>1. scenario \in 1..Len(Scenarios)
  BY DEF Types
<1>2. /\ {MaxPrefixSize, MaxSuffixSize, MinSize, MaxSize, RfOver} \subseteq Nat
      /\ {Transforming, MatchLinks, Unique, SkipContentHash} \subseteq BOOLEAN
  BY <1>1, GroupAssumption
  DEF Scenario, MaxPrefixSize, MaxSuffixSize, MinSize, MaxSize, RfOver,
      Transforming, MatchLinks, Unique, SkipContentHash
<1>3. Contents \subseteq AllContents
  BY <1>1 DEF Contents, AllContents, Scenario
<1> QED
  BY <1>2, <1>3 DEF FilterRf

\* Other programs leave a trace on what they change, and nothing comes back.
Drift ==
  /\ UNCHANGED scenario
  /\ touched \subseteq touched'
  /\ lost \subseteq lost'
  /\ \A p \in Paths : at'[p] \notin touched' \/ at[p] \notin touched' =>
       at'[p] = at[p] /\ data'[at[p]] = data[at[p]]

LEMMA OthersDrift ==
  ASSUME Types, Others
  PROVE  Drift /\ Types'
<1>1. PICK p \in Paths, c \in Contents : Write(p, c) \/ Save(p, c)
  BY DEF Others
<1>2. c \in AllContents
  BY Options
<1>3. CASE Write(p, c)
  <2>1. /\ data' = [data EXCEPT ![at[p]] = c] /\ at' = at
        /\ touched' = touched \cup {at[p]} /\ at[p] \in Inodes
    BY <1>3 DEF Write, Touch, Types
  <2>2. Drift
    BY <2>1, <1>3 DEF Drift, Write, Touch, Types
  <2>3. Types'
    BY <2>1, <1>2, <1>3 DEF Types, Write, Touch, stageVars, Stages
  <2> QED BY <2>2, <2>3
<1>4. CASE Save(p, c)
  <2>1. PICK i \in Inodes : /\ \A q \in Paths : at[q] # i
                            /\ at' = [at EXCEPT ![p] = i]
                            /\ data' = [data EXCEPT ![i] = c]
                            /\ Touch({at[p], i})
    BY <1>4 DEF Save
  <2>2. Drift
    BY <2>1 DEF Drift, Touch, Types
  <2>3. Types'
    BY <2>1, <1>2 DEF Types, Touch, stageVars, Stages
  <2> QED BY <2>2, <2>3
<1> QED
  BY <1>1, <1>3, <1>4

-----------------------------------------------------------------------------
(* Helpers of the stages.                                                  *)

\* A finite set of numbers has a largest one: a least set without one would have one.
LEMMA MaxExists ==
  ASSUME NEW S, S \subseteq Int, IsFiniteSet(S), S # {}
  PROVE  Max(S) \in S /\ \A x \in S : x <= Max(S)
<1> DEFINE Topped(U) == \E x \in U : \A y \in U : x >= y
           Topless == {U \in FiniteSubsetsOf(S) : U # {} /\ ~Topped(U)}
<1>1. Topless = {}
  <2> SUFFICES ASSUME Topless # {} PROVE FALSE
    OBVIOUS
  <2>1. PICK U \in Topless : \A V \in Topless : <<V, U>> \notin StrictSubsetOrdering(S)
    <3> HIDE DEF Topless
    <3>1. Topless \subseteq FiniteSubsetsOf(S)
      BY DEF Topless
    <3> QED
      BY <3>1, WFMin, FS_StrictSubsetOrderingWellFounded
  <2>2. /\ U \subseteq S /\ IsFiniteSet(U) /\ U # {}
        /\ ~Topped(U)
    BY <2>1 DEF FiniteSubsetsOf
  <2>3. PICK x \in U : TRUE
    BY <2>2
  <2>4. \A y \in U \ {x} : y \in Int /\ x \in Int
    BY <2>2
  <2>5. U \ {x} # {}
    BY <2>2, <2>3 DEF Topped
  <2>6. ~Topped(U \ {x})
    <3> SUFFICES ASSUME NEW m \in U \ {x}, \A y \in U \ {x} : m >= y PROVE FALSE
      BY DEF Topped
    <3>1. CASE x >= m
      <4>1. \A y \in U : x >= y
        BY <3>1, <2>4
      <4> QED BY <4>1, <2>2 DEF Topped
    <3>2. CASE m >= x
      <4>1. \A y \in U : m >= y
        BY <3>2
      <4> QED BY <4>1, <2>2 DEF Topped
    <3> QED BY <3>1, <3>2, <2>4
  <2>7. U \ {x} \in FiniteSubsetsOf(S)
    <3>1. IsFiniteSet(U \ {x})
      BY <2>2, FS_RemoveElement
    <3> QED BY <3>1, <2>2 DEF FiniteSubsetsOf
  <2>8. <<U \ {x}, U>> \in StrictSubsetOrdering(S)
    BY <2>2, <2>3 DEF StrictSubsetOrdering
  <2> QED BY <2>1, <2>5, <2>6, <2>7, <2>8
<1>2. Topped(S)
  BY <1>1 DEF FiniteSubsetsOf
<1>3. PICK m \in S : \A y \in S : m >= y
  BY <1>2
<1>4. Max(S) \in S /\ \A y \in S : Max(S) >= y
  BY <1>3 DEF Max
<1> QED
  BY <1>4

LEMMA MaxOverBounds ==
  ASSUME NEW prop, NEW es \in SUBSET Entries, \A p \in Paths : prop[Device[p]] \in Nat
  PROVE  /\ MaxOver(prop, es) \in Nat
         /\ \A e \in es : prop[Device[Path[e]]] <= MaxOver(prop, es)
         /\ es # {} => \E e \in es : MaxOver(prop, es) = prop[Device[Path[e]]]
<1>1. CASE es = {}
  BY <1>1 DEF MaxOver
<1>2. CASE es # {}
  <2> DEFINE f == [e \in es |-> prop[Device[Path[e]]]]
             values == {prop[Device[Path[e]]] : e \in es}
  <2>1. IsFiniteSet(es)
    BY GroupAssumption, SmallerCount
  <2>2. values = {f[e] : e \in es}
    OBVIOUS
  <2>3. IsFiniteSet(values)
    <3> HIDE DEF f, values
    <3> QED BY <2>1, <2>2, ImageCount
  <2>4. values \subseteq Int /\ values # {} /\ values \subseteq Nat
    BY <1>2 DEF Paths
  <2>5. Max(values) \in values /\ \A x \in values : x <= Max(values)
    <3> HIDE DEF values
    <3> QED BY <2>3, <2>4, MaxExists
  <2>6. MaxOver(prop, es) = Max(values)
    BY <1>2 DEF MaxOver
  <2> QED BY <2>4, <2>5, <2>6
<1> QED BY <1>1, <1>2

Messages == [file : Entries, len : Nat, hash : Hashes]

LEMMA RegroupParts ==
  ASSUME NEW R \in SUBSET Messages
  PROVE  /\ Regroup(R) \subseteq FileGroup
         /\ \A g \in Regroup(R) : \A e : e \in g.files <=>
              \E r \in R : r.file = e /\ r.len = g.len /\ r.hash = g.hash
         /\ \A r \in R : \E g \in Regroup(R) :
              r.len = g.len /\ r.hash = g.hash /\ r.file \in g.files
         /\ FilesOf(Regroup(R)) = {r.file : r \in R}
         /\ (\A r, s \in R : r.file = s.file => r = s) =>
              \A g, h \in Regroup(R) : g # h => g.files \cap h.files = {}
         /\ \A g, h \in Regroup(R) : g.len = h.len /\ g.hash = h.hash => g = h
<1> DEFINE Class(r) == [len |-> r.len, hash |-> r.hash,
      files |-> {s.file : s \in {t \in R : t.len = r.len /\ t.hash = r.hash}}]
<1>1. Regroup(R) = {Class(r) : r \in R}
  BY DEF Regroup
<1>2. \A r \in R : /\ Class(r).len = r.len /\ Class(r).hash = r.hash
                   /\ r.file \in Class(r).files /\ Class(r).files \subseteq Entries
                   /\ \A e : e \in Class(r).files <=>
                        \E s \in R : s.file = e /\ s.len = r.len /\ s.hash = r.hash
  BY DEF Messages
<1>3. \A r \in R : Class(r) \in FileGroup
  BY <1>2 DEF FileGroup, Messages, SomeEntries
<1>4. \A r, s \in R : r.len = s.len /\ r.hash = s.hash => Class(r) = Class(s)
  OBVIOUS
<1> HIDE DEF Class
<1>5. /\ Regroup(R) \subseteq FileGroup
      /\ \A g \in Regroup(R) : \A e : e \in g.files <=>
           \E r \in R : r.file = e /\ r.len = g.len /\ r.hash = g.hash
      /\ \A r \in R : \E g \in Regroup(R) :
           r.len = g.len /\ r.hash = g.hash /\ r.file \in g.files
  BY <1>1, <1>2, <1>3
<1>6. FilesOf(Regroup(R)) = {r.file : r \in R}
  BY <1>5 DEF FilesOf
<1>7. ASSUME \A r, s \in R : r.file = s.file => r = s,
             NEW g \in Regroup(R), NEW h \in Regroup(R), NEW e \in g.files, e \in h.files
      PROVE  g = h
  <2>1. PICK r \in R : g = Class(r)
    BY <1>1
  <2>2. PICK s \in R : h = Class(s)
    BY <1>1
  <2>3. r.len = s.len /\ r.hash = s.hash
    BY <1>2, <1>7, <2>1, <2>2
  <2> QED BY <1>4, <2>1, <2>2, <2>3
<1>8. \A g, h \in Regroup(R) : g.len = h.len /\ g.hash = h.hash => g = h
  BY <1>1, <1>2, <1>4
<1> QED BY <1>5, <1>6, <1>7, <1>8

LEMMA RunsParts ==
  ASSUME NEW g \in FileGroup
  PROVE  /\ RunsOf(g) \subseteq [old : Hashes, files : SomeEntries]
         /\ \A r \in RunsOf(g) : /\ r.old = g.hash /\ r.files \subseteq g.files
                                 /\ \A e, f \in r.files : info[e].id = info[f].id
         /\ \A r, s \in RunsOf(g) : r # s => r.files \cap s.files = {}
         /\ FilesOf(RunsOf(g)) = g.files
<1> DEFINE Run(i) == [old |-> g.hash, files |-> {e \in g.files : info[e].id = i}]
<1>1. RunsOf(g) = {Run(info[e].id) : e \in g.files}
  BY DEF RunsOf
<1>2. \A e \in g.files : /\ Run(info[e].id) \in [old : Hashes, files : SomeEntries]
                         /\ e \in Run(info[e].id).files
  BY DEF FileGroup, SomeEntries
<1>3. \A i : /\ Run(i).old = g.hash /\ Run(i).files \subseteq g.files
             /\ \A e \in Run(i).files : info[e].id = i
  OBVIOUS
<1> HIDE DEF Run
<1> QED
  BY <1>1, <1>2, <1>3 DEF FilesOf

LEMMA EntryPaths == \A e \in Entries : Path[e] \in Paths
BY DEF Paths

LEMMA SizesTyped ==
  ASSUME Types
  PROVE  /\ SuffixSize \in Nat
         /\ FilesOf(groups) \subseteq Entries
         /\ \A e \in Entries : Seen(e) => Prefix(e) \in Nat /\ info[e] \in [len : Nat, id : Inodes]
<1>1. FilesOf(groups) \subseteq Entries
  BY DEF FilesOf, Types, FileGroup, SomeEntries
<1>2. MaxOver(SuffixLen, FilesOf(groups)) \in Nat
  BY <1>1, MaxOverBounds, GroupAssumption
<1>3. SuffixSize \in Nat
  BY <1>2, Options DEF SuffixSize
<1>4. ASSUME NEW e \in Entries, Seen(e)
      PROVE  Prefix(e) \in Nat /\ info[e] \in [len : Nat, id : Inodes]
  <2>1. MinPrefix[Device[Path[e]]] \in Nat
    BY GroupAssumption, EntryPaths
  <2> QED
    BY <2>1, <1>4 DEF Prefix, Types, Seen, Nobody, LeftOut
<1> QED
  BY <1>1, <1>3, <1>4

\* The data of a file that was found are blocks, and so is what a transform prints.
LEMMA BodiesTyped ==
  ASSUME Types
  PROVE  /\ \A p \in Paths : at[p] \in Inodes /\ data[at[p]] \in AllContents
         /\ \A e \in Entries : Seen(e) => Body(e) \in AllContents
         /\ \A c \in AllContents : c \in Seq(Blocks) /\ Output(c) \in Seq(Blocks)
BY SizesTyped, GroupAssumption DEF Types, Body

LEMMA FoundTyped ==
  ASSUME Types, stage \in Stages, NEW e \in Entries, Seen(e), NEW old \in Hashes,
         NEW found \in HashFn(e, old)
  PROVE  /\ found.len \in Nat /\ found.hash \in Hashes
         /\ stage # "transform" => found.len = info[e].len
<1> DEFINE s == data[at[Path[e]]]
<1>1. /\ s \in Seq(Blocks) /\ Output(s) \in Seq(Blocks)
      /\ info[e].len \in Nat /\ Prefix(e) \in Nat /\ SuffixSize \in Nat
  BY BodiesTyped, SizesTyped, EntryPaths DEF Seen
<1>2. CASE stage = "prefix"
  <2>1. Read(s, 0, Prefix(e)) \in Seq(Blocks)
    BY <1>1, ReadSome
  <2> QED
    BY <1>1, <1>2, <2>1 DEF HashFn, Hashes
<1>3. CASE stage = "suffix"
  <2>1. CASE Seekable(info[e].len - SuffixSize)
    <3>0. info[e].len - SuffixSize \in Nat
      BY <1>1, <2>1 DEF Seekable
    <3>1. Read(s, info[e].len - SuffixSize, SuffixSize) \in Seq(Blocks)
      <4> HIDE DEF s
      <4> QED BY <1>1, <3>0, ReadSome
    <3>2. Xor(old, {Read(s, info[e].len - SuffixSize, SuffixSize)}) \in Hashes
      BY <3>1 DEF Xor, Hashes
    <3> QED
      BY <1>1, <1>3, <2>1, <3>2 DEF HashFn
  <2>2. CASE ~Seekable(info[e].len - SuffixSize)
    BY <1>3, <2>2 DEF HashFn
  <2> QED BY <2>1, <2>2
<1>4. CASE stage = "contents"
  <2>1. Read(s, 0, info[e].len) \in Seq(Blocks)
    BY <1>1, ReadSome
  <2> QED
    BY <1>1, <1>4, <2>1 DEF HashFn, Hashes
<1>5. CASE stage = "transform"
  <2>1. Read(Output(s), 0, info[e].len) \in Seq(Blocks)
    BY <1>1, ReadSome
  <2> QED
    BY <1>1, <1>5, <2>1 DEF HashFn, Hashes
<1> QED
  BY <1>2, <1>3, <1>4, <1>5 DEF Stages

\* The hash of a file nobody touched, in terms of its data.
LEMMA HashOfBody ==
  ASSUME InfoTrue, NEW e \in Entries, Seen(e), Fresh(e), NEW old
  PROVE  HashFn(e, old) =
           CASE stage = "prefix" -> {[len |-> info[e].len, hash |-> {Read(Body(e), 0, Prefix(e))}]}
             [] stage = "suffix" ->
                  IF Seekable(info[e].len - SuffixSize)
                  THEN {[len |-> info[e].len,
                         hash |-> Xor(old, {Read(Body(e), info[e].len - SuffixSize, SuffixSize)})]}
                  ELSE {}
             [] stage = "contents" ->
                  {[len |-> info[e].len, hash |-> {Read(Body(e), 0, info[e].len)}]}
             [] stage = "transform" ->
                  {[len |-> Len(Read(Output(Body(e)), 0, info[e].len)),
                    hash |-> {Read(Output(Body(e)), 0, info[e].len)}]}
<1>1. data[at[Path[e]]] = Body(e)
  BY DEF InfoTrue, Body
<1> QED
  BY <1>1 DEF HashFn

\* Equal files have equal hashes on any device.
LEMMA EqualHashes ==
  ASSUME InfoTrue, stage \in Stages,
         NEW e \in Entries, Seen(e), Fresh(e), NEW f \in Entries, Seen(f), Fresh(f), NEW old,
         info[e].len = info[f].len,
         IF stage = "transform" THEN Output(Body(e)) = Output(Body(f)) ELSE Body(e) = Body(f)
  PROVE  HashFn(e, old) = HashFn(f, old)
<1>1. Prefix(e) = Prefix(f)
  BY GroupAssumption, EntryPaths DEF Prefix
<1>2. CASE stage # "transform"
  <2>1. info[e].len = info[f].len /\ Body(e) = Body(f)
    BY <1>2
  <2>2. CASE stage = "prefix"
    BY <1>1, <2>1, <2>2, HashOfBody
  <2>3. CASE stage = "suffix"
    BY <2>1, <2>3, HashOfBody
  <2>4. CASE stage = "contents"
    BY <2>1, <2>4, HashOfBody
  <2> QED
    BY <1>2, <2>2, <2>3, <2>4 DEF Stages
<1>3. CASE stage = "transform"
  <2>1. info[e].len = info[f].len /\ Output(Body(e)) = Output(Body(f))
    BY <1>3
  <2> QED
    BY <1>3, <2>1, HashOfBody
<1> QED
  BY <1>2, <1>3

LEMMA OneHash ==
  ASSUME stage \in Stages, NEW e, NEW old,
         NEW r \in HashFn(e, old), NEW s \in HashFn(e, old)
  PROVE  r = s
<1>1. CASE stage = "suffix"
  BY <1>1 DEF HashFn
<1>2. CASE stage = "prefix"
  BY <1>2 DEF HashFn
<1>3. CASE stage = "contents"
  BY <1>3 DEF HashFn
<1>4. CASE stage = "transform"
  BY <1>4 DEF HashFn
<1> QED
  BY <1>1, <1>2, <1>3, <1>4 DEF Stages

-----------------------------------------------------------------------------
(* Types and drift of every step.                                          *)

LEMMA KnownRuns ==
  ASSUME Types, GroupsApart, StageRuns, stage \in Stages, NEW r \in todo
  PROVE  \E g \in groups \ passed :
           /\ r \in RunsOf(g) /\ r.old = g.hash
           /\ r.files \subseteq g.files /\ r.files \in SomeEntries
           /\ \A e \in r.files : Seen(e)
           /\ \A e, f \in r.files : info[e].id = info[f].id
<1>1. PICK g \in groups \ passed : r \in RunsOf(g)
  BY DEF StageRuns
<1>2. g \in FileGroup
  BY DEF Types
<1>3. /\ r.old = g.hash /\ r.files \subseteq g.files /\ r.files \in SomeEntries
      /\ \A e, f \in r.files : info[e].id = info[f].id
  BY <1>1, <1>2, RunsParts
<1> QED
  BY <1>1, <1>3 DEF GroupsApart, FilesOf

LEMMA RehashedTyped ==
  ASSUME Types
  PROVE  Rehashed \subseteq FileGroup /\ Regroup(hashed) \subseteq FileGroup
BY RegroupParts DEF Types, Rehashed, Messages

LEMMA BeginTyped ==
  ASSUME NEW s \in Stages, NEW gs \in SUBSET FileGroup, NEW chosen \in SUBSET gs, Begin(s, gs, chosen)
  PROVE  /\ stage' \in Stages /\ groups' \subseteq FileGroup /\ passed' \subseteq FileGroup
         /\ todo' \subseteq [old : Hashes, files : SomeEntries]
         /\ hashed' \subseteq [file : Entries, len : Nat, hash : Hashes]
<1>1. \A g \in chosen : RunsOf(g) \subseteq [old : Hashes, files : SomeEntries]
  BY RunsParts
<1> QED
  BY <1>1 DEF Begin

PrunedTo(gs, kept) == {[h EXCEPT !.files = @ \cap kept] : h \in gs}

LEMMA Pruned ==
  ASSUME NEW gs \in SUBSET FileGroup, NEW kept \in Prunings(gs)
  PROVE  /\ PrunedTo(gs, kept) \subseteq FileGroup
         /\ \A g \in PrunedTo(gs, kept) : \E h \in gs :
              /\ g.len = h.len /\ g.hash = h.hash /\ g.files = h.files \cap kept
              /\ \A e \in h.files : \E f \in g.files : Path[e] = Path[f] /\ info[e].id = info[f].id
              /\ \A e, f \in g.files : e # f => ~(Path[e] = Path[f] /\ info[e].id = info[f].id)
         /\ \A h \in gs : \E g \in PrunedTo(gs, kept) :
              /\ g.len = h.len /\ g.hash = h.hash /\ g.files = h.files \cap kept
              /\ \A e \in h.files : \E f \in g.files : Path[e] = Path[f] /\ info[e].id = info[f].id
<1> DEFINE cut(h) == [h EXCEPT !.files = @ \cap kept]
<1>1. ASSUME NEW h \in gs
      PROVE  /\ cut(h).len = h.len /\ cut(h).hash = h.hash /\ cut(h).files = h.files \cap kept
             /\ \A e \in h.files : \E f \in cut(h).files : Path[e] = Path[f] /\ info[e].id = info[f].id
             /\ \A e, f \in cut(h).files : e # f => ~(Path[e] = Path[f] /\ info[e].id = info[f].id)
             /\ cut(h) \in FileGroup
  <2>1. /\ cut(h).len = h.len /\ cut(h).hash = h.hash /\ cut(h).files = h.files \cap kept
        /\ h \in FileGroup
    BY DEF FileGroup
  <2>2. kept \cap h.files \in OnePerPath(h.files)
    BY DEF Prunings
  <2>3. /\ \A e \in h.files : \E f \in kept \cap h.files : Path[e] = Path[f] /\ info[e].id = info[f].id
        /\ \A e, f \in kept \cap h.files : e # f => ~(Path[e] = Path[f] /\ info[e].id = info[f].id)
    BY <2>2 DEF OnePerPath
  <2>4. h.files \cap kept \in SomeEntries
    BY <2>1, <2>3 DEF FileGroup, SomeEntries
  <2>5. cut(h) \in FileGroup
    BY <2>1, <2>4 DEF FileGroup
  <2> QED
    BY <2>1, <2>3, <2>5
<1>2. PrunedTo(gs, kept) = {cut(h) : h \in gs}
  BY DEF PrunedTo
<1> HIDE DEF cut
<1> QED
  BY <1>1, <1>2

LEMMA ScannedTyped ==
  ASSUME Types, GroupBySize
  PROVE  /\ groups' \subseteq FileGroup
         /\ Transforming => groups' = IF Collected = {} THEN {} ELSE {Scanned}
         /\ \A e \in Collected : Seen(e)
<1>1. \A e \in Collected : Seen(e) /\ info[e].len \in Nat
  BY DEF Types, GroupBySize, Collected, Seen
<1>2. CASE Transforming
  <2>1. Collected # {} => Scanned \in FileGroup
    BY DEF Scanned, FileGroup, SomeEntries, Hashes, Collected
  <2> QED
    BY <1>1, <1>2, <2>1 DEF GroupBySize
<1>3. CASE ~Transforming
  <2> DEFINE R == {[file |-> e, len |-> info[e].len, hash |-> {}] : e \in Collected}
  <2>1. R \subseteq Messages
    BY <1>1 DEF Messages, Hashes, Collected
  <2>2. groups' \subseteq Regroup(R)
    BY <1>3 DEF GroupBySize
  <2> HIDE DEF R
  <2> QED
    BY <1>1, <1>3, <2>1, <2>2, RegroupParts
<1> QED
  BY <1>2, <1>3

\* Steps of the process: the files stay, and no more is lost than becomes known.
LEMMA OwnDrift ==
  ASSUME UNCHANGED envVars, lost \subseteq lost'
  PROVE  Drift
BY DEF Drift, envVars

LEMMA NextTyped ==
  ASSUME Types, GroupsApart, StageRuns, [Next]_vars
  PROVE  Types' /\ Drift
<1> USE DEF Stages
<1>1. CASE Others
  BY <1>1, OthersDrift
<1>2. ASSUME NEW e \in Entries, Stat(e)
      PROVE  Types' /\ Drift
  <2>1. at[Path[e]] \in Inodes /\ Len(data[at[Path[e]]]) \in Nat
    BY BodiesTyped, EntryPaths
  <2>2. info' \in [Entries -> {Nobody, LeftOut} \cup [len : Nat, id : Inodes]]
    BY <1>2, <2>1 DEF Stat, Types
  <2> QED
    BY <1>2, <2>2, OwnDrift DEF Stat, Types, envVars, stageVars
<1>3. CASE GroupBySize
  BY <1>3, ScannedTyped, OwnDrift DEF GroupBySize, Types, envVars, stageVars
<1>4. CASE RemoveSameFiles
  <2>1. PICK kept \in Prunings(groups) :
          LET gs == {g \in PrunedTo(groups, kept) : Transforming \/ Matches(g)}
          IN /\ prefixLen' = IF MaxPrefixSize = NoSize THEN MaxOver(MaxPrefix, FilesOf(gs))
                             ELSE MaxPrefixSize
             /\ IF Transforming THEN Begin("transform", gs, gs)
                ELSE Begin("prefix", gs, {g \in gs : UniqueCount(g) > 1})
    BY <1>4 DEF RemoveSameFiles, PrunedTo
  <2> DEFINE gs == {g \in PrunedTo(groups, kept) : Transforming \/ Matches(g)}
  <2>2. gs \subseteq FileGroup
    BY Pruned DEF Types
  <2>3. FilesOf(gs) \subseteq Entries
    BY <2>2 DEF FilesOf, FileGroup, SomeEntries
  <2>4. prefixLen' \in Nat
    BY <2>1, <2>3, MaxOverBounds, GroupAssumption, Options
  <2>5. \E s \in Stages, chosen \in SUBSET gs : Begin(s, gs, chosen)
    BY <2>1
  <2>6. /\ stage' \in Stages /\ groups' \subseteq FileGroup /\ passed' \subseteq FileGroup
        /\ todo' \subseteq [old : Hashes, files : SomeEntries]
        /\ hashed' \subseteq [file : Entries, len : Nat, hash : Hashes]
    BY <2>2, <2>5, BeginTyped
  <2> QED
    BY <1>4, <2>4, <2>6, OwnDrift DEF RemoveSameFiles, Types, envVars
<1>5. ASSUME NEW r \in todo, HashRun(r)
      PROVE  Types' /\ Drift
  <2>1. stage \in Stages /\ UNCHANGED <<envVars, stage, info, groups, passed, prefixLen>>
    BY <1>5 DEF HashRun
  <2>2. r.files \in SomeEntries /\ r.old \in Hashes /\ \A e \in r.files : Seen(e)
    BY <2>1, KnownRuns DEF Types
  <2>3. PICK e \in r.files :
          \/ \E found \in HashFn(e, r.old) :
               /\ hashed' = hashed \cup
                    {[file |-> f, len |-> IF f = e THEN found.len ELSE info[f].len,
                      hash |-> found.hash] : f \in r.files}
               /\ UNCHANGED lost
          \/ /\ lost' = lost \cup r.files
             /\ UNCHANGED hashed
    BY <1>5 DEF HashRun
  <2>4. todo' \subseteq todo
    BY <1>5 DEF HashRun
  <2>5. hashed' \subseteq [file : Entries, len : Nat, hash : Hashes]
    BY <2>1, <2>2, <2>3, FoundTyped DEF Types, SomeEntries, Seen
  <2>6. lost \subseteq lost' /\ lost' \subseteq Entries
    BY <2>2, <2>3 DEF Types, SomeEntries
  <2> QED
    BY <2>1, <2>4, <2>5, <2>6, OwnDrift DEF Types, envVars
<1>6. CASE EndPrefix
  <2>1. \E gs \in SUBSET FileGroup : \E chosen \in SUBSET gs : Begin("suffix", gs, chosen)
    BY <1>6, RehashedTyped DEF EndPrefix
  <2> QED
    BY <1>6, <2>1, BeginTyped, OwnDrift DEF EndPrefix, Types, envVars
<1>7. CASE EndSuffix
  <2>1. CASE SkipContentHash
    BY <1>7, <2>1, RehashedTyped, OwnDrift DEF EndSuffix, Finish, Types, envVars
  <2>2. CASE ~SkipContentHash
    <3>1. \E gs \in SUBSET FileGroup : \E chosen \in SUBSET gs : Begin("contents", gs, chosen)
      BY <1>7, <2>2, RehashedTyped DEF EndSuffix
    <3> QED
      BY <1>7, <3>1, BeginTyped, OwnDrift DEF EndSuffix, Types, envVars
  <2> QED BY <2>1, <2>2
<1>8. CASE EndContents
  BY <1>8, RehashedTyped, OwnDrift DEF EndContents, Finish, Types, envVars
<1>9. CASE EndTransform
  BY <1>9, RehashedTyped, OwnDrift DEF EndTransform, Finish, Types, envVars
<1>10. CASE WriteReport
  BY <1>10, OwnDrift DEF WriteReport, Types, envVars, stageVars
<1>11. CASE UNCHANGED vars
  BY <1>11, OwnDrift DEF Types, vars, envVars, stageVars
<1> QED
  BY <1>1, <1>2, <1>3, <1>4, <1>5, <1>6, <1>7, <1>8, <1>9, <1>10, <1>11 DEF Next, Reported

-----------------------------------------------------------------------------
(* What a step leaves true of files that nobody touches.                   *)

LEMMA DriftPaths ==
  ASSUME Types, Drift, NEW p \in Paths
  PROVE  /\ Stable(p)' => /\ Stable(p) /\ at'[p] = at[p] /\ data'[at'[p]] = data[at[p]]
                          /\ Sight(p)' = Sight(p)
                          /\ (p \in InScope)' <=> p \in InScope
         /\ Intact(p)' => Intact(p)
<1>1. Stable(p)' => Stable(p) /\ at'[p] = at[p] /\ data'[at'[p]] = data[at[p]]
  BY DEF Stable, Drift
<1>2. Intact(p)' => Intact(p)
  BY <1>1 DEF Intact, Drift
<1> QED
  BY <1>1, <1>2 DEF Sight, InScope, Transforming, Scenario, MinSize, MaxSize, Drift

LEMMA DriftReplicas ==
  ASSUME Types, Drift, NEW p \in Paths, Intact(p)'
  PROVE  /\ Replicas(p)' \subseteq Replicas(p)
         /\ ~Unique /\ Wanted(Replicas(p))' => Wanted(Replicas(p))
<1>1. Replicas(p)' \subseteq Replicas(p)
  BY DriftPaths DEF Replicas, Intact, InScope
<1>2. PICK rs : rs = Replicas(p)'
  OBVIOUS
<1>3. \A q \in rs : at'[q] = at[q]
  BY <1>2, DriftPaths DEF Replicas, Intact, InScope
<1>4. ReplicasOf(rs)' = ReplicasOf(rs)
  BY <1>3, SameReplicas DEF Drift
<1>5. ReplicasOf(Replicas(p))' = ReplicasOf(rs)'
  BY <1>2 DEF ReplicasOf
<1>6. Replicas(p) \in SUBSET Paths
  BY DEF Replicas, InScope
<1>7. ReplicasOf(rs) \in Nat /\ ReplicasOf(Replicas(p)) \in Nat
      /\ ReplicasOf(rs) <= ReplicasOf(Replicas(p))
  BY <1>1, <1>2, <1>6, MoreReplicas
<1>8. RfOver' = RfOver /\ RfOver \in Nat /\ Unique' = Unique
  BY Options DEF Drift, RfOver, Unique, Scenario
<1> QED
  BY <1>1, <1>4, <1>5, <1>7, <1>8 DEF Wanted

LEMMA DriftEntries ==
  ASSUME Types, InfoTrue, Drift, NEW e \in Entries, info'[e] = info[e], Seen(e), Fresh(e)'
  PROVE  /\ Fresh(e) /\ Body(e)' = Body(e)
         /\ at'[Path[e]] = at[Path[e]] /\ at[Path[e]] = info[e].id /\ data'[at[Path[e]]] = Body(e)
<1>1. Fresh(e)
  BY DEF Fresh, Drift
<1>2. at[Path[e]] = info[e].id
  BY <1>1 DEF InfoTrue
<1> QED
  BY <1>1, <1>2, EntryPaths DEF Drift, Fresh, Body

\* Only the scan looks at files.
LEMMA InfoChanges ==
  ASSUME [Next]_vars
  PROVE  \/ UNCHANGED info
         \/ \E e \in Entries : Stat(e)
BY DEF Next, Others, Write, Save, Touch, GroupBySize, RemoveSameFiles, HashRun, EndPrefix,
   EndSuffix, EndContents, EndTransform, WriteReport, Reported, vars

LEMMA InfoKept ==
  ASSUME Types, GroupsApart, StageRuns, InfoTrue, [Next]_vars
  PROVE  InfoTrue'
<1>1. Types' /\ Drift
  BY NextTyped
<1>2. CASE UNCHANGED info
  <2> SUFFICES ASSUME NEW e \in Entries, Seen(e), Fresh(e)' \/ Stable(Path[e])'
               PROVE  at'[Path[e]] = info[e].id /\ info[e].len = Len(Body(e)')
    BY <1>2 DEF InfoTrue, Seen
  <2>1. CASE Fresh(e)'
    BY <1>1, <1>2, <2>1, DriftEntries DEF InfoTrue
  <2>2. CASE Stable(Path[e])'
    BY <1>1, <1>2, <2>2, DriftPaths, EntryPaths DEF InfoTrue, Body
  <2> QED BY <2>1, <2>2
<1>3. ASSUME NEW e \in Entries, Stat(e)
      PROVE  InfoTrue'
  <2>1. /\ \A f \in Entries \ {e} : info'[f] = info[f]
        /\ info'[e] \in {LeftOut, [len |-> Len(data[at[Path[e]]]), id |-> at[Path[e]]]}
        /\ UNCHANGED <<at, data, touched>>
    BY <1>3 DEF Stat, envVars, Types
  <2> SUFFICES ASSUME NEW f \in Entries, Seen(f)', Fresh(f)' \/ Stable(Path[f])'
               PROVE  at'[Path[f]] = info'[f].id /\ info'[f].len = Len(data'[info'[f].id])
    BY DEF InfoTrue, Body
  <2>2. CASE f = e
    BY <2>1, <2>2 DEF LeftOut, Seen
  <2>3. CASE f # e
    BY <2>1, <2>3 DEF InfoTrue, Seen, Fresh, Stable, Body
  <2> QED
    BY <2>2, <2>3
<1> QED
  BY <1>2, <1>3, InfoChanges

-----------------------------------------------------------------------------
(* The scan and the bookkeeping of the stages.                             *)

\* Steps of other programs, and those that only end something.
Idle ==
  /\ UNCHANGED <<info, groups, stageVars, prefixLen, lost>>
  /\ stage' = stage \/ (stage = "done" /\ stage' = "reported")

EndStage == EndPrefix \/ EndSuffix \/ EndContents \/ EndTransform

LEMMA StepKinds ==
  ASSUME [Next]_vars
  PROVE  \/ Idle
         \/ \E e \in Entries : Stat(e)
         \/ GroupBySize
         \/ RemoveSameFiles
         \/ \E r \in todo : HashRun(r)
         \/ EndStage
<1>1. Others => Idle
  BY DEF Others, Write, Save, Touch, Idle
<1>2. WriteReport => Idle
  BY DEF WriteReport, Idle
<1>3. UNCHANGED vars => Idle
  BY DEF vars, stageVars, Idle
<1> QED
  BY <1>1, <1>2, <1>3 DEF Next, EndStage, Reported

LEMMA ScanKept ==
  ASSUME Types, GroupsApart, StageRuns, ScanTrue, [Next]_vars
  PROVE  ScanTrue'
<1>1. Types' /\ Drift
  BY NextTyped
<1>2. /\ \A len : OfSize(len)' <=> OfSize(len)
      /\ \A e \in Entries : Intact(Path[e])' => Intact(Path[e])
      /\ \A e \in Entries : Intact(Path[e])' => (Path[e] \in InScope)' = (Path[e] \in InScope)
  BY <1>1, DriftPaths, EntryPaths DEF OfSize, MinSize, MaxSize, Scenario, Drift, Intact
<1> DEFINE Quiet == /\ UNCHANGED info
                    /\ UNCHANGED lost \/ stage' \notin {"scan", "size"}
                    /\ stage' # "scan" => \A e \in Entries : info[e] # Nobody
                    /\ stage' \in {"scan", "size"} => stage \in {"scan", "size"}
<1>3. CASE Quiet
  BY <1>2, <1>3 DEF ScanTrue, Seen
<1>4. ASSUME NEW e \in Entries, Stat(e)
      PROVE  ScanTrue'
  <2> DEFINE len == Len(data[at[Path[e]]])
  <2>1. /\ \A f \in Entries \ {e} : info'[f] = info[f]
        /\ \/ /\ info'[e] = IF OfSize(len) THEN [len |-> len, id |-> at[Path[e]]] ELSE LeftOut
              /\ UNCHANGED lost
           \/ info'[e] = LeftOut /\ lost' = lost \cup {e}
        /\ stage = "scan" /\ stage' = "scan" /\ UNCHANGED <<at, data, touched>>
    BY <1>4 DEF Stat, envVars, Types
  <2>2. (Path[e] \in InScope)' <=> OfSize(len)
    <3>1. len \in Nat /\ MinSize \in Nat /\ MaxSize \in Nat
      BY BodiesTyped, EntryPaths, Options
    <3>2. Path[e] \in InScope <=> len \in MinSize..MaxSize
      BY EntryPaths DEF InScope
    <3>3. (Path[e] \in InScope)' <=> Path[e] \in InScope
      BY <1>1, <2>1 DEF InScope, MinSize, MaxSize, Scenario, Drift
    <3> QED
      BY <3>1, <3>2, <3>3 DEF OfSize
  <2>3. /\ Seen(e)' => OfSize(info[e].len)'
        /\ info'[e] = LeftOut /\ Intact(Path[e])' => (Path[e] \notin InScope)'
    <3>1. CASE info'[e] = LeftOut /\ lost' = lost \cup {e}
      BY <3>1 DEF Intact, Seen, LeftOut
    <3>2. CASE info'[e] = IF OfSize(len) THEN [len |-> len, id |-> at[Path[e]]] ELSE LeftOut
      BY <1>2, <2>2, <3>2 DEF Seen, LeftOut
    <3> QED BY <2>1, <3>1, <3>2
  <2>4. \A f \in Entries \ {e} :
          /\ Seen(f)' => OfSize(info[f].len)'
          /\ info'[f] = LeftOut /\ Intact(Path[f])' => (Path[f] \notin InScope)'
    BY <1>2, <2>1 DEF ScanTrue, Seen
  <2>5. \A f \in lost' : info'[f] = LeftOut
    <3>1. Nobody # LeftOut
      BY DEF Nobody, LeftOut
    <3>2. e \notin lost /\ \A f \in lost : info[f] = LeftOut /\ f \in Entries
      BY <1>4, <2>1, <3>1 DEF ScanTrue, Types, Stat
    <3> QED BY <2>1, <3>2
  <2> QED
    BY <2>1, <2>3, <2>4, <2>5 DEF ScanTrue
<1>5. Idle => Quiet
  BY DEF Idle, ScanTrue
<1>6. GroupBySize => Quiet
  BY DEF GroupBySize
<1>7. RemoveSameFiles => Quiet
  BY DEF RemoveSameFiles, ScanTrue, Begin
<1>8. ASSUME NEW r \in todo, HashRun(r) PROVE Quiet
  BY <1>8 DEF HashRun, ScanTrue, Stages
<1>9. EndStage => Quiet
  BY DEF EndStage, EndPrefix, EndSuffix, EndContents, EndTransform, Begin, Finish, ScanTrue
<1> QED
  BY <1>3, <1>4, <1>5, <1>6, <1>7, <1>8, <1>9, StepKinds

\* What a stage returns: no file twice, and all but the lost ones.
LEMMA RehashedParts ==
  ASSUME Types, GroupsApart, ModeKept, StageRuns, HashesTrue, stage \in Stages, todo = {}
  PROVE  /\ Rehashed \subseteq FileGroup
         /\ \A g, h \in Rehashed : g # h => g.files \cap h.files = {}
         /\ FilesOf(Rehashed) = FilesOf(groups) \ lost
         /\ ~Transforming => \A g \in Rehashed : \A e \in g.files : info[e].len = g.len
<1>1. hashed \in SUBSET Messages
  BY DEF Types, Messages
<1>2. /\ passed \subseteq groups
      /\ \A m \in hashed : \E g \in groups \ passed : m.file \in g.files
      /\ \A m, n \in hashed : m.file = n.file => m = n
      /\ FilesOf(groups) \ lost = FilesOf(passed) \cup {m.file : m \in hashed}
  BY DEF StageRuns, FilesOf
<1>3. /\ \A g, h \in Regroup(hashed) : g # h => g.files \cap h.files = {}
      /\ FilesOf(Regroup(hashed)) = {m.file : m \in hashed}
      /\ \A g \in Regroup(hashed) : \A e \in g.files :
           \E m \in hashed : m.file = e /\ m.len = g.len /\ m.hash = g.hash
  BY <1>1, <1>2, RegroupParts
<1>4. \A g \in passed, h \in Regroup(hashed) : g.files \cap h.files = {}
  BY <1>2, <1>3 DEF GroupsApart
<1>5. \A g, h \in Rehashed : g # h => g.files \cap h.files = {}
  BY <1>2, <1>3, <1>4 DEF Rehashed, GroupsApart
<1>6. FilesOf(Rehashed) = FilesOf(groups) \ lost
  BY <1>2, <1>3 DEF Rehashed, FilesOf
<1>7. ~Transforming => \A g \in Rehashed : \A e \in g.files : info[e].len = g.len
  BY <1>2, <1>3 DEF Rehashed, GroupsApart, HashesTrue
<1> QED
  BY <1>5, <1>6, <1>7, RehashedTyped

\* Whatever a stage filters out, it hands on groups it returns.
LEMMA EndGroups ==
  ASSUME EndStage
  PROVE  /\ stage \in Stages /\ todo = {} /\ groups' \subseteq Rehashed
         /\ UNCHANGED <<envVars, info, prefixLen, lost>>
BY DEF EndStage, EndPrefix, EndSuffix, EndContents, EndTransform, Begin, Finish, Stages

LEMMA ModeStep ==
  ASSUME Types, GroupsApart, StageRuns, ModeKept, [Next]_vars
  PROVE  ModeKept'
<1>1. scenario' = scenario
  BY NextTyped DEF Drift
<1>2. (Transforming' <=> Transforming) /\ (SkipContentHash' <=> SkipContentHash)
  BY <1>1 DEF Transforming, SkipContentHash, Scenario
<1> USE <1>2 DEF ModeKept, Stages
<1>3. CASE Idle
  BY <1>3 DEF Idle
<1>4. ASSUME NEW e \in Entries, Stat(e) PROVE ModeKept'
  BY <1>4 DEF Stat
<1>5. CASE GroupBySize
  BY <1>5 DEF GroupBySize
<1>6. CASE RemoveSameFiles
  BY <1>6 DEF RemoveSameFiles, Begin
<1>7. ASSUME NEW r \in todo, HashRun(r) PROVE ModeKept'
  BY <1>7 DEF HashRun
<1>8. CASE EndStage
  BY <1>8 DEF EndStage, EndPrefix, EndSuffix, EndContents, EndTransform, Begin, Finish
<1> QED
  BY <1>3, <1>4, <1>5, <1>6, <1>7, <1>8, StepKinds

LEMMA ApartKept ==
  ASSUME Types, GroupsApart, ModeKept, StageRuns, HashesTrue, ScanTrue, [Next]_vars
  PROVE  GroupsApart'
<1>1. Transforming' <=> Transforming
  BY NextTyped DEF Drift, Transforming, Scenario
<1> DEFINE Quiet == UNCHANGED <<info, groups>> /\ (stage' = "scan" => stage = "scan")
<1>2. CASE Quiet
  BY <1>1, <1>2 DEF GroupsApart, FilesOf, Seen
<1>3. Idle => Quiet
  BY DEF Idle
<1>4. ASSUME NEW e \in Entries, Stat(e) PROVE GroupsApart'
  BY <1>4 DEF Stat, GroupsApart, FilesOf
<1>5. CASE GroupBySize
  <2>1. \A e \in Collected : Seen(e)
    BY <1>5, ScannedTyped
  <2>2. CASE Transforming
    <3>1. groups' \subseteq {Scanned} /\ Scanned.files = Collected
      BY <1>5, <2>2 DEF GroupBySize, Scanned
    <3> QED
      BY <1>1, <1>5, <2>1, <2>2, <3>1 DEF GroupsApart, GroupBySize, FilesOf, Seen
  <2>3. CASE ~Transforming
    <3> DEFINE R == {[file |-> e, len |-> info[e].len, hash |-> {}] : e \in Collected}
    <3>1. R \in SUBSET Messages
      BY <2>1 DEF Messages, Hashes, Collected, Seen
    <3>2. groups' \subseteq Regroup(R) /\ UNCHANGED info /\ stage' # "scan"
      BY <1>5, <2>3 DEF GroupBySize
    <3>3. /\ \A r, s \in R : r.file = s.file => r = s
          /\ \A r \in R : r.file \in Collected /\ r.len = info[r.file].len
      OBVIOUS
    <3> HIDE DEF R
    <3>4. /\ \A g, h \in Regroup(R) : g # h => g.files \cap h.files = {}
          /\ \A g \in Regroup(R) : \A e \in g.files : e \in Collected /\ info[e].len = g.len
      BY <3>1, <3>3, RegroupParts
    <3> QED
      BY <2>1, <3>2, <3>4 DEF GroupsApart, FilesOf, Seen
  <2> QED BY <2>2, <2>3
<1>6. CASE RemoveSameFiles
  <2>1. PICK kept \in Prunings(groups) : groups' \subseteq PrunedTo(groups, kept)
    BY <1>6 DEF RemoveSameFiles, PrunedTo, Begin
  <2>2. \A g \in groups' : \E h \in groups : /\ g.len = h.len /\ g.hash = h.hash
                                             /\ g.files = h.files \cap kept
    BY <2>1, Pruned DEF Types
  <2>3. UNCHANGED info /\ stage' # "scan" /\ groups' \subseteq FileGroup
    BY <1>6, <2>1, Pruned DEF RemoveSameFiles, Begin, Types
  <2>4. \A g, h \in groups' : g # h => g.files \cap h.files = {}
    <3> SUFFICES ASSUME NEW g \in groups', NEW h \in groups', NEW e \in g.files, e \in h.files
                 PROVE  g = h
      OBVIOUS
    <3>1. PICK g0 \in groups : g.len = g0.len /\ g.hash = g0.hash /\ g.files = g0.files \cap kept
      BY <2>2
    <3>2. PICK h0 \in groups : h.len = h0.len /\ h.hash = h0.hash /\ h.files = h0.files \cap kept
      BY <2>2
    <3>3. g0 = h0
      BY <3>1, <3>2 DEF GroupsApart
    <3>4. g.len = h.len /\ g.hash = h.hash /\ g.files = h.files
      BY <3>1, <3>2, <3>3
    <3>5. g \in FileGroup /\ h \in FileGroup
      BY <2>3
    <3> QED
      BY <3>4, <3>5 DEF FileGroup
  <2> QED
    BY <1>1, <2>2, <2>3, <2>4 DEF GroupsApart, FilesOf, Seen
<1>7. ASSUME NEW r \in todo, HashRun(r) PROVE Quiet
  BY <1>7 DEF HashRun
<1>8. CASE EndStage
  <2>1. groups' \subseteq Rehashed /\ UNCHANGED info /\ stage' # "scan"
    BY <1>8, EndGroups DEF EndStage, EndPrefix, EndSuffix, EndContents, EndTransform, Begin, Finish
  <2>2. /\ \A g, h \in Rehashed : g # h => g.files \cap h.files = {}
        /\ FilesOf(Rehashed) \subseteq FilesOf(groups)
        /\ ~Transforming => \A g \in Rehashed : \A e \in g.files : info[e].len = g.len
    BY <1>8, EndGroups, RehashedParts
  <2> QED
    BY <1>1, <2>1, <2>2 DEF GroupsApart, FilesOf, Seen
<1> QED
  BY <1>2, <1>3, <1>4, <1>5, <1>6, <1>7, <1>8, StepKinds

\* Two runs in one vector share no file.
LEMMA RunsApart ==
  ASSUME Types, GroupsApart, StageRuns, stage \in Stages,
         NEW r \in todo, NEW s \in todo, r # s
  PROVE  r.files \cap s.files = {}
<1>1. PICK g \in groups \ passed : r \in RunsOf(g) /\ r.files \subseteq g.files
  BY KnownRuns
<1>2. PICK h \in groups \ passed : s \in RunsOf(h) /\ s.files \subseteq h.files
  BY KnownRuns
<1>3. CASE g = h
  BY <1>1, <1>2, <1>3, RunsParts DEF Types
<1>4. CASE g # h
  BY <1>1, <1>2, <1>4 DEF GroupsApart
<1> QED BY <1>3, <1>4

\* A stage starts with all of its groups passed or to hash.
LEMMA BeginRuns ==
  ASSUME NEW s \in Stages, NEW gs \in SUBSET FileGroup, NEW chosen \in SUBSET gs,
         Begin(s, gs, chosen), UNCHANGED info, FilesOf(gs) \cap lost' = {}
  PROVE  StageRuns'
<1>1. /\ groups' = gs /\ passed' = gs \ chosen /\ hashed' = {}
      /\ todo' = UNION {RunsOf(g) : g \in chosen}
  BY DEF Begin
<1>2. \A g \in gs : RunsOf(g)' = RunsOf(g)
  BY DEF RunsOf
<1>3. \A r \in todo' : \E g \in groups' \ passed' : r \in RunsOf(g)'
  BY <1>1, <1>2
<1>4. FilesOf(todo') = FilesOf(chosen)
  <2>1. \A g \in chosen : FilesOf(RunsOf(g)) = g.files
    BY RunsParts
  <2> QED
    BY <1>1, <2>1 DEF FilesOf
<1>5. FilesOf(groups') \ lost' = FilesOf(passed') \cup FilesOf(todo') \cup {m.file : m \in hashed'}
  BY <1>1, <1>4 DEF FilesOf
<1> QED
  BY <1>1, <1>3, <1>5 DEF StageRuns, FilesOf

LEMMA RunsKept ==
  ASSUME Types, GroupsApart, ModeKept, StageRuns, HashesTrue, ScanTrue, [Next]_vars
  PROVE  StageRuns'
<1>1. CASE Idle
  <2>1. UNCHANGED <<info, groups, passed, todo, hashed, lost>> /\ (stage' \in Stages => stage' = stage)
    BY <1>1 DEF Idle, stageVars, Stages
  <2>2. \A g : RunsOf(g)' = RunsOf(g)
    BY <2>1 DEF RunsOf
  <2> QED
    BY <2>1, <2>2 DEF StageRuns, FilesOf
<1>2. ASSUME NEW e \in Entries, Stat(e) PROVE StageRuns'
  BY <1>2 DEF Stat, StageRuns, Stages
<1>3. CASE GroupBySize
  BY <1>3 DEF GroupBySize, StageRuns, Stages
<1>4. CASE RemoveSameFiles
  <2>1. PICK kept \in Prunings(groups) :
          \E s \in Stages, gs \in SUBSET PrunedTo(groups, kept) :
            \E chosen \in SUBSET gs : Begin(s, gs, chosen)
    BY <1>4 DEF RemoveSameFiles, PrunedTo, Stages
  <2>2. PICK s \in Stages, gs \in SUBSET PrunedTo(groups, kept) :
          \E chosen \in SUBSET gs : Begin(s, gs, chosen)
    BY <2>1
  <2>3. /\ gs \in SUBSET FileGroup
        /\ \A g \in gs : \E h \in groups : g.files \subseteq h.files
    BY Pruned DEF Types
  <2>4. UNCHANGED <<info, lost>> /\ stage = "size"
    BY <1>4 DEF RemoveSameFiles
  <2>5. FilesOf(gs) \cap lost = {}
    BY <2>3, <2>4 DEF FilesOf, GroupsApart, ScanTrue, Seen, LeftOut
  <2> QED
    BY <2>2, <2>3, <2>4, <2>5, BeginRuns
<1>5. ASSUME NEW r \in todo, HashRun(r) PROVE StageRuns'
  <2>1. /\ stage \in Stages /\ todo' = todo \ {r}
        /\ UNCHANGED <<stage, info, groups, passed>>
    BY <1>5 DEF HashRun
  <2>2. PICK g \in groups \ passed : r.files \subseteq g.files
    BY <2>1, KnownRuns
  <2>3. \/ /\ {m.file : m \in hashed'} = {m.file : m \in hashed} \cup r.files
           /\ \A m \in hashed' : m \in hashed \/ m.file \in r.files
           /\ \A m, n \in hashed' : m \notin hashed /\ n \notin hashed /\ m.file = n.file => m = n
           /\ UNCHANGED lost
        \/ lost' = lost \cup r.files /\ UNCHANGED hashed
    <3>1. PICK e \in r.files :
          \/ \E found \in HashFn(e, r.old) :
               /\ hashed' = hashed \cup
                    {[file |-> f, len |-> IF f = e THEN found.len ELSE info[f].len,
                      hash |-> found.hash] : f \in r.files}
               /\ UNCHANGED lost
          \/ /\ lost' = lost \cup r.files
             /\ UNCHANGED hashed
      BY <1>5 DEF HashRun
    <3>2. ASSUME NEW found \in HashFn(e, r.old),
                 hashed' = hashed \cup
                    {[file |-> f, len |-> IF f = e THEN found.len ELSE info[f].len,
                      hash |-> found.hash] : f \in r.files},
                 UNCHANGED lost
          PROVE  <2>3
      <4> DEFINE new == {[file |-> f, len |-> IF f = e THEN found.len ELSE info[f].len,
                          hash |-> found.hash] : f \in r.files}
      <4>1. /\ {m.file : m \in new} = r.files
            /\ \A m, n \in new : m.file = n.file => m = n
        <5> DEFINE message(f) == [file |-> f, len |-> IF f = e THEN found.len ELSE info[f].len,
                                  hash |-> found.hash]
        <5>1. new = {message(f) : f \in r.files} /\ \A f \in r.files : message(f).file = f
          OBVIOUS
        <5> HIDE DEF new, message
        <5> QED BY <5>1
      <4> HIDE DEF new
      <4> QED
        BY <3>2, <4>1 DEF new
    <3> QED
      BY <3>1, <3>2
  <2>4. /\ \A m \in hashed : m.file \notin r.files
        /\ \A s \in todo' : s.files \cap r.files = {}
        /\ \A m, n \in hashed : m.file = n.file => m = n
        /\ \A s \in todo, m \in hashed : m.file \notin s.files
    BY <2>1, RunsApart DEF StageRuns
  <2>5. /\ passed' \subseteq groups'
        /\ \A s \in todo' : \E h \in groups' \ passed' : s \in RunsOf(h)'
    <3>1. \A h : RunsOf(h)' = RunsOf(h)
      BY <2>1 DEF RunsOf
    <3> QED
      BY <2>1, <3>1 DEF StageRuns
  <2>6. \A m \in hashed' : \E h \in groups' \ passed' : m.file \in h.files
    BY <2>1, <2>2, <2>3 DEF StageRuns
  <2>7. /\ \A m, n \in hashed' : m.file = n.file => m = n
        /\ \A s \in todo', m \in hashed' : m.file \notin s.files
    BY <2>1, <2>3, <2>4
  <2>8. FilesOf(groups) \ lost' = FilesOf(passed) \cup FilesOf(todo') \cup {m.file : m \in hashed'}
    <3>1. FilesOf(groups) \ lost = FilesOf(passed) \cup FilesOf(todo) \cup {m.file : m \in hashed}
      BY <2>1 DEF StageRuns
    <3>2. FilesOf(todo) = FilesOf(todo') \cup r.files /\ FilesOf(todo') \cap r.files = {}
      BY <2>1, <2>4 DEF FilesOf
    <3>3. FilesOf(passed) \cap r.files = {} /\ {m.file : m \in hashed} \cap r.files = {}
      BY <2>1, <2>2, <2>4 DEF StageRuns, GroupsApart, FilesOf
    <3> QED
      BY <2>3, <3>1, <3>2, <3>3
  <2> QED
    BY <2>1, <2>5, <2>6, <2>7, <2>8 DEF StageRuns
<1>6. CASE EndStage
  <2>1. /\ UNCHANGED <<info, lost>>
        /\ FilesOf(Rehashed) \cap lost = {} /\ Rehashed \subseteq FileGroup
    BY <1>6, EndGroups, RehashedParts
  <2>2. CASE stage' \in Stages
    <3>1. \E s \in Stages, gs \in SUBSET Rehashed : \E chosen \in SUBSET gs : Begin(s, gs, chosen)
      BY <1>6, <2>2 DEF EndStage, EndPrefix, EndSuffix, EndContents, EndTransform, Finish, Stages
    <3>2. PICK s \in Stages, gs \in SUBSET Rehashed : \E chosen \in SUBSET gs : Begin(s, gs, chosen)
      BY <3>1
    <3>3. FilesOf(gs) \cap lost' = {} /\ gs \in SUBSET FileGroup
      BY <2>1 DEF FilesOf
    <3> QED
      BY <2>1, <3>2, <3>3, BeginRuns
  <2>3. CASE stage' \notin Stages
    BY <2>3 DEF StageRuns
  <2> QED BY <2>2, <2>3
<1> QED
  BY <1>1, <1>2, <1>3, <1>4, <1>5, <1>6, StepKinds

LEMMA HashFnDrift ==
  ASSUME Types, InfoTrue, Drift, UNCHANGED <<stage, info, groups, prefixLen>>,
         NEW e \in Entries, Seen(e), Fresh(e)'
  PROVE  \A old : HashFn(e, old)' = HashFn(e, old)
<1>1. data'[at'[Path[e]]] = data[at[Path[e]]]
  BY DriftEntries DEF Body
<1>2. Prefix(e)' = Prefix(e)
  BY DEF Prefix
<1>3. SuffixSize' = SuffixSize
  BY DEF SuffixSize, MaxSuffixSize, Scenario, Drift, FilesOf
<1> QED
  BY <1>1, <1>2, <1>3 DEF HashFn

LEMMA HashesKept ==
  ASSUME Types, GroupsApart, ModeKept, StageRuns, InfoTrue, HashesTrue, [Next]_vars
  PROVE  HashesTrue'
<1>1. Types' /\ Drift /\ (Transforming' <=> Transforming)
  BY NextTyped DEF Drift, Transforming, Scenario
<1>2. ASSUME NEW m \in hashed, stage \in Stages, UNCHANGED <<stage, info, groups, passed, prefixLen>>
      PROVE  /\ ~Transforming' => m.len = info'[m.file].len
             /\ Fresh(m.file)' =>
                  \E g \in groups' \ passed' :
                    /\ m.file \in g.files
                    /\ \E found \in HashFn(m.file, g.hash)' :
                         m.hash = found.hash /\ m.len \in {found.len, info'[m.file].len}
  <2>1. m.file \in Entries /\ Seen(m.file)
    BY <1>2 DEF Types, StageRuns, GroupsApart, FilesOf
  <2>2. ~Transforming' => m.len = info'[m.file].len
    BY <1>1, <1>2 DEF HashesTrue
  <2>3. ASSUME Fresh(m.file)'
        PROVE  \E g \in groups' \ passed' :
                 /\ m.file \in g.files
                 /\ \E found \in HashFn(m.file, g.hash)' :
                      m.hash = found.hash /\ m.len \in {found.len, info'[m.file].len}
    <3>1. Fresh(m.file)
      BY <1>1, <1>2, <2>1, <2>3, DriftEntries
    <3>2. PICK g \in groups \ passed :
            /\ m.file \in g.files
            /\ \E found \in HashFn(m.file, g.hash) :
                 m.hash = found.hash /\ m.len \in {found.len, info[m.file].len}
      BY <1>2, <3>1 DEF HashesTrue
    <3>3. HashFn(m.file, g.hash)' = HashFn(m.file, g.hash)
      BY <1>1, <1>2, <2>1, <2>3, HashFnDrift
    <3> QED
      BY <1>2, <3>2, <3>3
  <2> QED BY <2>2, <2>3
<1>3. CASE Idle
  <2>1. UNCHANGED <<info, groups, passed, hashed, prefixLen>> /\ (stage' \in Stages => stage' = stage)
    BY <1>3 DEF Idle, stageVars, Stages
  <2> QED
    BY <1>2, <2>1 DEF HashesTrue
<1>4. ASSUME NEW e \in Entries, Stat(e) PROVE HashesTrue'
  BY <1>4 DEF Stat, HashesTrue, Stages
<1>5. CASE GroupBySize
  BY <1>5 DEF GroupBySize, HashesTrue, Stages
<1>6. CASE RemoveSameFiles
  BY <1>6 DEF RemoveSameFiles, Begin, HashesTrue
<1>7. ASSUME NEW r \in todo, HashRun(r) PROVE HashesTrue'
  <2>1. /\ stage \in Stages
        /\ UNCHANGED <<envVars, stage, info, groups, passed, prefixLen>>
    BY <1>7 DEF HashRun
  <2>2. PICK g \in groups \ passed :
          /\ r.old = g.hash /\ r.files \subseteq g.files /\ r.files \in SomeEntries
          /\ \A e \in r.files : Seen(e)
          /\ \A e, f \in r.files : info[e].id = info[f].id
    BY <2>1, KnownRuns
  <2>3. \A m \in hashed :
          /\ ~Transforming' => m.len = info'[m.file].len
          /\ Fresh(m.file)' =>
               \E h \in groups' \ passed' :
                 /\ m.file \in h.files
                 /\ \E found \in HashFn(m.file, h.hash)' :
                      m.hash = found.hash /\ m.len \in {found.len, info'[m.file].len}
    BY <1>2, <2>1
  <2>4. CASE UNCHANGED hashed
    BY <2>3, <2>4 DEF HashesTrue
  <2>5. ASSUME NEW e \in r.files, NEW found \in HashFn(e, r.old),
               hashed' = hashed \cup
                    {[file |-> f, len |-> IF f = e THEN found.len ELSE info[f].len,
                      hash |-> found.hash] : f \in r.files}
        PROVE  HashesTrue'
    <3>1. e \in Entries /\ r.old \in Hashes
      BY <2>2 DEF SomeEntries, Types, FileGroup
    <3>2. ~Transforming => found.len = info[e].len
      BY <2>1, <2>2, <2>5, <3>1, FoundTyped DEF ModeKept
    <3>3. ASSUME NEW f \in r.files, Fresh(f)'
          PROVE  found \in HashFn(f, g.hash)'
      <4>1. f \in Entries /\ Seen(f) /\ Seen(e) /\ Fresh(e) /\ Fresh(f) /\ Body(e) = Body(f)
        BY <2>1, <2>2, <3>3 DEF SomeEntries, Fresh, envVars, Body
      <4>2. info[e].len = info[f].len
        BY <3>1, <4>1 DEF InfoTrue
      <4>3. HashFn(e, g.hash) = HashFn(f, g.hash)
        BY <2>1, <3>1, <4>1, <4>2, EqualHashes
      <4>4. HashFn(f, g.hash)' = HashFn(f, g.hash)
        BY <1>1, <2>1, <3>3, <4>1, HashFnDrift
      <4> QED
        BY <2>2, <2>5, <4>3, <4>4
    <3>4. ASSUME NEW m \in hashed', m \notin hashed
          PROVE  /\ m.file \in r.files /\ m.hash = found.hash
                 /\ m.len = IF m.file = e THEN found.len ELSE info[m.file].len
      BY <2>5, <3>4
    <3>5. ASSUME NEW m \in hashed', m \notin hashed
          PROVE  /\ ~Transforming' => m.len = info'[m.file].len
                 /\ Fresh(m.file)' =>
                      \E h \in groups' \ passed' :
                        /\ m.file \in h.files
                        /\ \E one \in HashFn(m.file, h.hash)' :
                             m.hash = one.hash /\ m.len \in {one.len, info'[m.file].len}
      <4>1. ~Transforming' => m.len = info'[m.file].len
        BY <1>1, <2>1, <3>2, <3>4, <3>5
      <4>2. m.file \in g.files /\ g \in groups' \ passed' /\ m.hash = found.hash
            /\ m.len \in {found.len, info'[m.file].len}
        BY <2>1, <2>2, <3>4, <3>5
      <4> QED
        BY <3>3, <3>4, <3>5, <4>1, <4>2
    <3> QED
      BY <2>3, <3>5 DEF HashesTrue
  <2> QED
    BY <1>7, <2>4, <2>5 DEF HashRun
<1>8. CASE EndStage
  BY <1>8 DEF EndStage, EndPrefix, EndSuffix, EndContents, EndTransform, Begin, Finish,
              HashesTrue, Stages
<1> QED
  BY <1>3, <1>4, <1>5, <1>6, <1>7, <1>8, StepKinds

LEMMA OneEntryKept ==
  ASSUME Types, GroupsApart, ModeKept, StageRuns, InfoTrue, HashesTrue, OneEntry, [Next]_vars
  PROVE  OneEntry'
<1>1. Types' /\ Drift /\ (Transforming' <=> Transforming)
  BY NextTyped DEF Drift, Transforming, Scenario
<1>2. \A e : info'[e] = info[e] /\ Fresh(e)' => Fresh(e)
  BY <1>1 DEF Drift, Fresh
<1> DEFINE Quiet == /\ UNCHANGED info /\ FilesOf(groups') \subseteq FilesOf(groups)
                    /\ stage \notin {"scan", "size"} /\ stage' \notin {"scan", "size"}
<1>3. CASE Quiet
  BY <1>2, <1>3 DEF OneEntry, FilesOf
<1>4. CASE Idle
  <2>1. CASE stage' = "size"
    BY <1>1, <1>4, <2>1 DEF Idle, OneEntry
  <2>2. CASE stage' # "size"
    BY <1>2, <1>4, <2>2 DEF Idle, OneEntry, FilesOf
  <2> QED BY <2>1, <2>2
<1>5. ASSUME NEW e \in Entries, Stat(e) PROVE OneEntry'
  BY <1>5 DEF Stat, OneEntry
<1>6. CASE GroupBySize
  <2>1. stage' = "size"
    BY <1>6 DEF GroupBySize
  <2>2. CASE Transforming
    <3>1. groups' \subseteq {Scanned}
      BY <1>6, <2>2 DEF GroupBySize
    <3> QED
      BY <2>1, <3>1 DEF OneEntry
  <2>3. CASE ~Transforming
    <3> DEFINE R == {[file |-> e, len |-> info[e].len, hash |-> {}] : e \in Collected}
    <3>1. groups' \subseteq Regroup(R)
      BY <1>6, <2>3 DEF GroupBySize
    <3>2. \A g, h \in Regroup(R) : g.len = h.len => g = h
      <4>1. R \in SUBSET Messages /\ \A r \in R : r.hash = {}
        BY <1>6, ScannedTyped DEF Messages, Hashes, Collected, Seen
      <4> HIDE DEF R
      <4>2. \A g \in Regroup(R) : g.hash = {}
        BY <4>1, RegroupParts DEF FileGroup, SomeEntries
      <4>3. \A g, h \in Regroup(R) : g.len = h.len /\ g.hash = h.hash => g = h
        BY <4>1, RegroupParts
      <4> QED BY <4>2, <4>3
    <3> QED
      BY <1>1, <2>1, <2>3, <3>1, <3>2 DEF OneEntry
  <2> QED BY <2>2, <2>3
<1>7. CASE RemoveSameFiles
  <2>1. PICK kept \in Prunings(groups) : groups' \subseteq PrunedTo(groups, kept)
    BY <1>7 DEF RemoveSameFiles, PrunedTo, Begin
  <2>2. UNCHANGED <<info, envVars>> /\ stage = "size" /\ stage' \notin {"scan", "size"}
    BY <1>7 DEF RemoveSameFiles, Begin
  <2>3. ASSUME NEW e \in FilesOf(groups'), NEW f \in FilesOf(groups'), Path[e] = Path[f],
               Fresh(e), Fresh(f)
        PROVE  e = f
    <3>1. PICK g \in groups', h \in groups' : e \in g.files /\ f \in h.files
      BY DEF FilesOf
    <3>2. PICK g0 \in groups : g.files = g0.files \cap kept
            /\ \A x, y \in g.files : x # y => ~(Path[x] = Path[y] /\ info[x].id = info[y].id)
      BY <2>1, Pruned DEF Types
    <3>3. PICK h0 \in groups : h.files = h0.files \cap kept
      BY <2>1, Pruned DEF Types
    <3>4. Seen(e) /\ Seen(f) /\ e \in Entries /\ f \in Entries
      BY <3>1, <3>2, <3>3, SizesTyped DEF GroupsApart, FilesOf
    <3>5. info[e].id = info[f].id /\ info[e].len = info[f].len
      BY <2>3, <3>4 DEF InfoTrue, Body
    <3>6. g0 = h0
      <4>1. ~Transforming => g0.len = h0.len
        BY <3>1, <3>2, <3>3, <3>5 DEF GroupsApart
      <4> QED
        BY <2>2, <4>1 DEF OneEntry
    <3> QED
      BY <2>3, <3>1, <3>2, <3>3, <3>5, <3>6
  <2> QED
    BY <2>2, <2>3 DEF OneEntry, Fresh, envVars, FilesOf
<1>8. ASSUME NEW r \in todo, HashRun(r) PROVE Quiet
  BY <1>8 DEF HashRun, Stages
<1>9. EndStage => Quiet
  <2> SUFFICES ASSUME EndStage PROVE Quiet
    OBVIOUS
  <2>1. groups' \subseteq Rehashed /\ FilesOf(Rehashed) \subseteq FilesOf(groups)
    BY EndGroups, RehashedParts
  <2>2. FilesOf(groups') \subseteq FilesOf(Rehashed)
    BY <2>1 DEF FilesOf
  <2> QED
    BY <2>1, <2>2, EndGroups
    DEF EndStage, EndPrefix, EndSuffix, EndContents, EndTransform, Begin, Finish
<1> QED
  BY <1>3, <1>4, <1>5, <1>6, <1>7, <1>8, <1>9, StepKinds

-----------------------------------------------------------------------------
(* Files in one group are equal.                                           *)

\* Links of one file are equal.
LEMMA OneFileAlike ==
  ASSUME Types, NEW g \in FileGroup, UniqueCount(g) <= 1
  PROVE  Alike(g)
<1> DEFINE ids == {info[e].id : e \in g.files}
           f == [e \in g.files |-> info[e].id]
<1>1. IsFiniteSet(g.files) /\ g.files # {}
  BY GroupAssumption, SmallerCount DEF FileGroup, SomeEntries
<1>2. ids = {f[e] : e \in g.files}
  OBVIOUS
<1>3. IsFiniteSet(ids)
  <2> HIDE DEF ids, f
  <2> QED BY <1>1, <1>2, ImageCount
<1>4. Cardinality(ids) = 1
  <2>1. Cardinality(ids) \in Nat /\ Cardinality(ids) # 0
    <3>1. ids # {}
      BY <1>1
    <3> HIDE DEF ids
    <3> QED
      BY <1>3, <3>1, FS_EmptySet, FS_CardinalityType
  <2>2. Cardinality(ids) <= 1
    BY DEF UniqueCount
  <2> QED BY <2>1, <2>2
<1>5. \E i : ids = {i}
  BY <1>3, <1>4, FS_Singleton
<1>6. \A d, e \in g.files : info[d].id = info[e].id
  BY <1>5
<1> QED
  BY <1>6 DEF Alike, Body

\* A prefix and a suffix shorter than the file are two chunks, and tell which is which.
LEMMA XorOfParts ==
  ASSUME NEW whole1, NEW whole2, NEW part1, NEW part2,
         Len(whole1) = Len(whole2), Len(part1) # Len(whole1), Len(part2) # Len(whole2),
         Xor({whole1}, {part1}) = Xor({whole2}, {part2})
  PROVE  whole1 = whole2
<1>1. whole1 # part1 /\ whole2 # part2 /\ whole1 # part2
  OBVIOUS
<1>2. whole1 \in Xor({whole1}, {part1}) /\ (\A x \in Xor({whole2}, {part2}) : x \in {whole2, part2})
  BY <1>1 DEF Xor
<1> QED
  BY <1>1, <1>2

\* What other programs do changes no file that stays fresh.
LEMMA AlikeDrift ==
  ASSUME Types, InfoTrue, GroupsApart, Drift, UNCHANGED <<info, groups>>, NEW g \in groups, Alike(g)
  PROVE  Alike(g)'
<1>1. Transforming' <=> Transforming
  BY DEF Drift, Transforming, Scenario
<1>2. \A e \in g.files : Fresh(e)' => Fresh(e) /\ Body(e)' = Body(e)
  BY DriftEntries DEF Types, GroupsApart, FilesOf, FileGroup, SomeEntries
<1> QED
  BY <1>1, <1>2 DEF Alike

LEMMA BoundsKept ==
  ASSUME Types, GroupsApart, StageRuns, PrefixBounded, [Next]_vars
  PROVE  PrefixBounded'
<1>1. Types' /\ Drift
  BY NextTyped
<1>2. UNCHANGED <<MaxPrefixSize, ShortPrefix, Transforming>>
  BY <1>1 DEF Drift, MaxPrefixSize, ShortPrefix, Scenario, Transforming
<1> DEFINE Quiet == /\ UNCHANGED prefixLen
                    /\ stage' \notin {"scan", "size"} => stage \notin {"scan", "size"}
<1>3. CASE Quiet
  BY <1>2, <1>3 DEF PrefixBounded
<1>4. CASE RemoveSameFiles
  <2>1. PICK kept \in Prunings(groups) :
          LET gs == {g \in PrunedTo(groups, kept) : Transforming \/ Matches(g)}
          IN prefixLen' = IF MaxPrefixSize = NoSize THEN MaxOver(MaxPrefix, FilesOf(gs))
                          ELSE MaxPrefixSize
    BY <1>4 DEF RemoveSameFiles, PrunedTo
  <2> DEFINE gs == {g \in PrunedTo(groups, kept) : Transforming \/ Matches(g)}
  <2>2. FilesOf(gs) \subseteq Entries
    BY Pruned DEF Types, FilesOf, FileGroup, SomeEntries
  <2>3. \A p \in Paths : SuffixThreshold[Device[p]] \in Nat
    BY GroupAssumption
  <2>4. CASE MaxPrefixSize = NoSize
    <3>1. prefixLen' = MaxOver(MaxPrefix, FilesOf(gs))
      BY <2>1, <2>4
    <3>2. \/ prefixLen' = 0
          \/ \E e \in Entries : prefixLen' = MaxPrefix[Device[Path[e]]]
      <4> HIDE DEF gs
      <4>1. FilesOf(gs) = {} => MaxOver(MaxPrefix, FilesOf(gs)) = 0
        BY DEF MaxOver
      <4> QED
        BY <2>2, <3>1, <4>1, MaxOverBounds, GroupAssumption
    <3> QED
      BY <2>3, <3>2, GroupAssumption, EntryPaths DEF PrefixBounded
  <2>5. CASE MaxPrefixSize # NoSize
    BY <1>2, <2>1, <2>5 DEF PrefixBounded, ShortPrefix
  <2> QED BY <2>4, <2>5
<1>5. Idle => Quiet
  BY DEF Idle
<1>6. ASSUME NEW e \in Entries, Stat(e) PROVE Quiet
  BY <1>6 DEF Stat
<1>7. GroupBySize => Quiet
  BY DEF GroupBySize
<1>8. ASSUME NEW r \in todo, HashRun(r) PROVE Quiet
  BY <1>8 DEF HashRun
<1>9. EndStage => Quiet
  BY EndGroups DEF Stages
<1> QED
  BY <1>3, <1>4, <1>5, <1>6, <1>7, <1>8, <1>9, StepKinds

LEMMA CountsTyped ==
  ASSUME NEW g \in FileGroup
  PROVE  UniqueCount(g) \in Nat
<1> DEFINE ids == {info[e].id : e \in g.files}
           f == [e \in g.files |-> info[e].id]
<1>1. IsFiniteSet(g.files) /\ ids = {f[e] : e \in g.files}
  BY GroupAssumption, SmallerCount DEF FileGroup, SomeEntries
<1>2. Cardinality(ids) \in Nat
  <2> HIDE DEF ids, f
  <2> QED BY <1>1, ImageCount, FS_CardinalityType
<1> QED
  BY <1>2 DEF UniqueCount

LEMMA OnePassedKept ==
  ASSUME Types, OnePassed, [Next]_vars
  PROVE  OnePassed'
<1>1. CASE UNCHANGED <<info, passed>> /\ stage' \in {stage, "scan", "size", "done", "reported"}
  BY <1>1 DEF OnePassed, UniqueCount
<1>2. CASE RemoveSameFiles
  <2>1. PICK kept \in Prunings(groups) :
          LET gs == {g \in PrunedTo(groups, kept) : Transforming \/ Matches(g)}
          IN IF Transforming THEN Begin("transform", gs, gs)
             ELSE Begin("prefix", gs, {g \in gs : UniqueCount(g) > 1})
    BY <1>2 DEF RemoveSameFiles, PrunedTo
  <2> DEFINE gs == {g \in PrunedTo(groups, kept) : Transforming \/ Matches(g)}
  <2>2. UNCHANGED info /\ gs \subseteq FileGroup
    BY <1>2, Pruned DEF RemoveSameFiles, Types
  <2>3. \A g \in gs : UniqueCount(g)' = UniqueCount(g) /\ UniqueCount(g) \in Nat
    BY <2>2, CountsTyped DEF UniqueCount
  <2> HIDE DEF gs
  <2>4. CASE Transforming
    BY <2>1, <2>4 DEF Begin, OnePassed, gs
  <2>5. CASE ~Transforming
    <3>1. stage' = "prefix" /\ passed' = gs \ {g \in gs : UniqueCount(g) > 1}
      BY <2>1, <2>5 DEF Begin, gs
    <3> QED
      BY <2>3, <3>1 DEF OnePassed
  <2> QED BY <2>4, <2>5
<1>3. CASE EndStage
  BY <1>3 DEF EndStage, EndPrefix, EndSuffix, EndContents, EndTransform, Begin, Finish, OnePassed
<1>4. Idle => UNCHANGED <<info, passed>> /\ stage' \in {stage, "scan", "size", "done", "reported"}
  BY DEF Idle, stageVars
<1>5. ASSUME NEW e \in Entries, Stat(e) PROVE OnePassed'
  BY <1>5 DEF Stat, OnePassed
<1>6. GroupBySize => OnePassed'
  BY DEF GroupBySize, OnePassed
<1>7. ASSUME NEW r \in todo, HashRun(r)
      PROVE  UNCHANGED <<info, passed>> /\ stage' \in {stage, "scan", "size", "done", "reported"}
  BY <1>7 DEF HashRun
<1> QED
  BY <1>1, <1>2, <1>3, <1>4, <1>5, <1>6, <1>7, StepKinds

\* The members of a new group, and the group each of them comes from.
LEMMA Members ==
  ASSUME Types, GroupsApart, StageRuns, HashesTrue, stage \in Stages,
         NEW g \in Regroup(hashed), NEW e \in g.files
  PROVE  /\ e \in Entries /\ Seen(e)
         /\ ~Transforming => g.len = info[e].len
         /\ Fresh(e) => \E h \in groups \ passed :
              /\ e \in h.files
              /\ ~Transforming => h.len = info[e].len
              /\ \E found \in HashFn(e, h.hash) :
                   g.hash = found.hash /\ g.len \in {found.len, info[e].len}
<1>1. PICK m \in hashed : m.file = e /\ m.len = g.len /\ m.hash = g.hash
  BY RegroupParts DEF Types, Messages
<1>2. e \in Entries /\ Seen(e)
  BY <1>1, SizesTyped DEF Types, StageRuns, GroupsApart, FilesOf
<1>3. ~Transforming => g.len = info[e].len
  BY <1>1 DEF HashesTrue
<1> QED
  BY <1>1, <1>2, <1>3 DEF HashesTrue, GroupsApart

LEMMA EqualPrefixes ==
  ASSUME Types, InfoTrue, GroupsApart, StageRuns, HashesTrue, ModeKept, OnePassed,
         stage = "prefix", NEW g \in Rehashed
  PROVE  /\ g.len <= prefixLen => Alike(g)
         /\ UniqueCount(g) > 1 => \A e \in g.files : Fresh(e) => g.hash = {Read(Body(e), 0, Prefix(e))}
<1>1. CASE g \in passed
  <2>1. g \in FileGroup /\ UniqueCount(g) <= 1 /\ UniqueCount(g) \in Nat
    BY <1>1, CountsTyped DEF Types, OnePassed
  <2> QED
    BY <2>1, OneFileAlike
<1>2. CASE g \in Regroup(hashed)
  <2>1. ~Transforming /\ stage \in Stages
    BY DEF ModeKept, Stages
  <2>2. ASSUME NEW e \in g.files, Fresh(e)
        PROVE  g.hash = {Read(Body(e), 0, Prefix(e))}
    <3>1. PICK h \in groups : \E found \in HashFn(e, h.hash) : g.hash = found.hash
      BY <1>2, <2>1, <2>2, Members
    <3>2. HashFn(e, h.hash) = {[len |-> info[e].len, hash |-> {Read(Body(e), 0, Prefix(e))}]}
      BY <1>2, <2>1, <2>2, Members, HashOfBody
    <3> QED
      BY <3>1, <3>2
  <2>3. ASSUME g.len <= prefixLen, NEW e \in g.files, Fresh(e)
        PROVE  Read(Body(e), 0, Prefix(e)) = Body(e)
    <3>1. e \in Entries /\ Seen(e) /\ g.len = info[e].len
      BY <1>2, <2>1, <2>3, Members
    <3>2. Prefix(e) = prefixLen /\ prefixLen \in Nat
      BY <2>3, <3>1 DEF Prefix, Types
    <3>3. Body(e) \in Seq(Blocks) /\ Len(Body(e)) <= prefixLen
      BY <2>3, <3>1, BodiesTyped DEF InfoTrue
    <3> QED
      BY <3>2, <3>3, ReadAll
  <2>4. ASSUME g.len <= prefixLen, NEW e \in g.files, NEW f \in g.files, Fresh(e), Fresh(f)
        PROVE  Body(e) = Body(f)
    BY <2>2, <2>3, <2>4
  <2> QED
    BY <2>1, <2>2, <2>4 DEF Alike
<1> QED
  BY <1>1, <1>2 DEF Rehashed

LEMMA PrefixesKept ==
  ASSUME Types, InfoTrue, GroupsApart, StageRuns, HashesTrue, ModeKept, OnePassed,
         SuffixFollowsPrefix, [Next]_vars
  PROVE  SuffixFollowsPrefix'
<1>1. Types' /\ Drift
  BY NextTyped
<1>2. ASSUME UNCHANGED <<stage, info, groups, passed, prefixLen>>
      PROVE  SuffixFollowsPrefix'
  <2> SUFFICES ASSUME stage = "suffix" PROVE SuffixFollowsPrefix'
    BY <1>2 DEF SuffixFollowsPrefix
  <2>1. \A g \in groups : Alike(g) => Alike(g)'
    BY <1>1, <1>2, AlikeDrift
  <2>2. \A g : UniqueCount(g)' = UniqueCount(g)
    BY <1>2 DEF UniqueCount
  <2>3. \A g \in groups : \A e \in g.files : Fresh(e)' =>
          Fresh(e) /\ Body(e)' = Body(e) /\ Prefix(e)' = Prefix(e)
    BY <1>1, <1>2, DriftEntries DEF Types, GroupsApart, FilesOf, FileGroup, SomeEntries, Prefix
  <2>4. MaxOver(SuffixThreshold, FilesOf(groups))' = MaxOver(SuffixThreshold, FilesOf(groups))
    BY <1>2 DEF FilesOf
  <2> QED
    BY <1>2, <2>1, <2>2, <2>3, <2>4 DEF SuffixFollowsPrefix
<1>3. CASE EndPrefix
  <2> DEFINE gs == {g \in Rehashed : Matches(g)}
             chosen == {g \in gs : g.len >= MaxOver(SuffixThreshold, FilesOf(gs)) /\ UniqueCount(g) > 1}
  <2>1. /\ stage = "prefix" /\ UNCHANGED <<envVars, info, prefixLen>>
        /\ groups' = gs /\ passed' = gs \ chosen
    BY <1>3 DEF EndPrefix, Begin
  <2>2. \A g : (Alike(g)' <=> Alike(g)) /\ UniqueCount(g)' = UniqueCount(g)
    BY <2>1 DEF Alike, UniqueCount, Fresh, Body, envVars, Transforming, Scenario
  <2>3. \A e : (Fresh(e)' <=> Fresh(e)) /\ Body(e)' = Body(e) /\ Prefix(e)' = Prefix(e)
    BY <2>1 DEF Fresh, Body, Prefix, envVars
  <2>4. \A g \in groups' : g.len <= prefixLen' => Alike(g)'
    BY <2>1, <2>2, EqualPrefixes
  <2>5. \A g \in groups' : UniqueCount(g)' > 1 =>
          \A e \in g.files : Fresh(e)' => g.hash = {Read(Body(e)', 0, Prefix(e)')}
    BY <2>1, <2>2, <2>3, EqualPrefixes
  <2>6. \A g \in groups' \ passed' :
          g.len >= MaxOver(SuffixThreshold, FilesOf(groups)') /\ UniqueCount(g)' > 1
    BY <2>1, <2>2 DEF FilesOf
  <2> QED
    BY <2>4, <2>5, <2>6 DEF SuffixFollowsPrefix, FilesOf, MaxOver
<1>4. CASE stage' # "suffix"
  BY <1>4 DEF SuffixFollowsPrefix
<1>5. Idle => UNCHANGED <<stage, info, groups, passed, prefixLen>> \/ stage' # "suffix"
  BY DEF Idle, stageVars
<1>6. ASSUME NEW e \in Entries, Stat(e) PROVE stage' # "suffix"
  BY <1>6 DEF Stat
<1>7. GroupBySize \/ RemoveSameFiles => stage' # "suffix"
  BY DEF GroupBySize, RemoveSameFiles, Begin
<1>8. ASSUME NEW r \in todo, HashRun(r) PROVE UNCHANGED <<stage, info, groups, passed, prefixLen>>
  BY <1>8 DEF HashRun
<1>9. EndStage => EndPrefix \/ stage' # "suffix"
  BY DEF EndStage, EndSuffix, EndContents, EndTransform, Begin, Finish
<1> QED
  BY <1>2, <1>3, <1>4, <1>5, <1>6, <1>7, <1>8, <1>9, StepKinds

\* Files whose prefix was the whole file are equal if the suffix changed the hash alike.
LEMMA EqualSuffixes ==
  ASSUME Types, InfoTrue, GroupsApart, StageRuns, HashesTrue, ModeKept, PrefixBounded,
         SuffixFollowsPrefix, stage = "suffix", AllRead, NEW g \in Rehashed, g.len < prefixLen
  PROVE  Alike(g)
<1>1. CASE g \in passed
  <2>1. g \in groups /\ g.len \in Nat /\ prefixLen \in Nat
    BY <1>1 DEF StageRuns, Stages, Types, FileGroup
  <2> QED
    BY <2>1 DEF SuffixFollowsPrefix
<1>2. CASE g \in Regroup(hashed)
  <2> DEFINE L == g.len
  <2>1. ~Transforming /\ stage \in Stages
    BY DEF ModeKept, Stages
  <2>2. L \in Nat /\ prefixLen \in Nat /\ SuffixSize \in Nat
    BY RehashedTyped, SizesTyped DEF Types, FileGroup
  <2>3. ASSUME NEW e \in g.files, Fresh(e)
        PROVE  /\ Len(Body(e)) = L
               /\ \E part : Len(part) # L /\ g.hash = Xor({Body(e)}, {part})
    <3>1. e \in Entries /\ Seen(e) /\ info[e].len = L
      BY <1>2, <2>1, Members
    <3>2. PICK h \in groups \ passed :
            /\ e \in h.files /\ h.len = L
            /\ \E found \in HashFn(e, h.hash) : g.hash = found.hash
      BY <1>2, <2>1, <2>3, <3>1, Members
    <3>3. Body(e) \in Seq(Blocks) /\ Len(Body(e)) = L
      BY <2>3, <3>1, BodiesTyped DEF InfoTrue
    <3>4. h.len >= MaxOver(SuffixThreshold, FilesOf(groups)) /\ UniqueCount(h) > 1
      BY <3>2 DEF SuffixFollowsPrefix
    <3>5. h.hash = {Body(e)}
      <4>1. Prefix(e) = prefixLen
        BY <2>2, <3>1 DEF Prefix
      <4>2. Read(Body(e), 0, Prefix(e)) = Body(e)
        BY <2>2, <3>3, <4>1, ReadAll
      <4> QED
        BY <2>3, <3>2, <3>4, <4>2 DEF SuffixFollowsPrefix
    <3>6. SuffixSize < L
      <4>1. FilesOf(groups) \subseteq Entries /\ e \in FilesOf(groups)
        BY <3>2, SizesTyped DEF FilesOf
      <4>2. \A p \in Paths : SuffixThreshold[Device[p]] \in Nat /\ SuffixLen[Device[p]] \in Nat
        BY GroupAssumption
      <4>3. /\ MaxOver(SuffixThreshold, FilesOf(groups)) \in Nat
            /\ \A d \in FilesOf(groups) :
                 SuffixThreshold[Device[Path[d]]] <= MaxOver(SuffixThreshold, FilesOf(groups))
        BY <4>1, <4>2, MaxOverBounds
      <4>4. SuffixThreshold[Device[Path[e]]] <= L
        BY <2>2, <3>1, <3>2, <3>4, <4>1, <4>2, <4>3, EntryPaths
      <4>5. CASE ShortPrefix
        BY <2>2, <3>1, <4>2, <4>4, <4>5, EntryPaths DEF PrefixBounded
      <4>6. CASE ShortSuffix /\ MaxSuffixSize # NoSize
        <5>1. SuffixSize = MaxSuffixSize
          BY <4>6 DEF SuffixSize
        <5> QED
          BY <2>2, <3>1, <4>2, <4>4, <4>6, <5>1, EntryPaths DEF ShortSuffix
      <4>7. CASE MaxSuffixSize = NoSize
        <5>1. SuffixSize = MaxOver(SuffixLen, FilesOf(groups))
          BY <4>7 DEF SuffixSize
        <5>2. PICK d \in FilesOf(groups) : SuffixSize = SuffixLen[Device[Path[d]]]
          BY <4>1, <4>2, <5>1, MaxOverBounds
        <5>3. SuffixLen[Device[Path[d]]] < SuffixThreshold[Device[Path[d]]]
          BY <4>1, GroupAssumption, EntryPaths
        <5>4. SuffixThreshold[Device[Path[d]]] <= MaxOver(SuffixThreshold, FilesOf(groups))
          BY <4>3
        <5> QED
          BY <2>2, <3>2, <3>4, <4>1, <4>2, <4>3, <5>2, <5>3, <5>4, EntryPaths
      <4> QED
        BY <2>1, <4>5, <4>6, <4>7 DEF AllRead
    <3> DEFINE suffix == Read(Body(e), L - SuffixSize, SuffixSize)
    <3>7. HashFn(e, h.hash) \subseteq {[len |-> L, hash |-> Xor(h.hash, {suffix})]}
      BY <2>3, <3>1, HashOfBody
    <3>8. Len(suffix) = SuffixSize
      <4>1. L - SuffixSize \in Nat /\ L - SuffixSize + SuffixSize <= Len(Body(e))
        BY <2>2, <3>3, <3>6
      <4> QED
        BY <2>2, <3>3, <4>1, ReadSome
    <3> HIDE DEF suffix
    <3>9. g.hash = Xor({Body(e)}, {suffix})
      BY <3>2, <3>5, <3>7
    <3> QED
      <4>1. Len(suffix) # L
        BY <2>2, <3>6, <3>8
      <4> QED BY <3>3, <3>9, <4>1
  <2> HIDE DEF L
  <2>4. ASSUME NEW e \in g.files, NEW f \in g.files, Fresh(e), Fresh(f)
        PROVE  Body(e) = Body(f)
    <3>1. PICK p : Len(p) # L /\ g.hash = Xor({Body(e)}, {p})
      BY <2>3, <2>4
    <3>2. PICK q : Len(q) # L /\ g.hash = Xor({Body(f)}, {q})
      BY <2>3, <2>4
    <3>3. Len(Body(e)) = L /\ Len(Body(f)) = L
      BY <2>3, <2>4
    <3> QED
      BY <3>1, <3>2, <3>3, XorOfParts
  <2> QED
    BY <2>1, <2>4 DEF Alike
<1> QED
  BY <1>1, <1>2 DEF Rehashed

\* In the last stage, everything that is hashed is hashed as a whole.
LEMMA EqualWholes ==
  ASSUME Types, InfoTrue, GroupsApart, StageRuns, HashesTrue, ModeKept, OnePassed,
         WholeRead, stage \in {"contents", "transform"}, AllRead, NEW g \in Rehashed
  PROVE  Alike(g)
<1>1. CASE g \in passed
  BY <1>1 DEF WholeRead, OnePassed
<1>2. CASE g \in Regroup(hashed) /\ stage = "contents"
  <2>1. ~Transforming /\ stage \in Stages
    BY <1>2 DEF ModeKept, Stages
  <2>2. ASSUME NEW e \in g.files, Fresh(e)
        PROVE  g.hash = {Body(e)}
    <3>1. e \in Entries /\ Seen(e)
      BY <1>2, <2>1, Members
    <3>2. PICK h \in groups : \E found \in HashFn(e, h.hash) : g.hash = found.hash
      BY <1>2, <2>1, <2>2, Members
    <3>3. HashFn(e, h.hash) = {[len |-> info[e].len, hash |-> {Read(Body(e), 0, info[e].len)}]}
      BY <1>2, <2>2, <3>1, HashOfBody
    <3>4. Body(e) \in Seq(Blocks) /\ Len(Body(e)) = info[e].len /\ info[e].len \in Nat
      BY <2>2, <3>1, BodiesTyped DEF InfoTrue, Seen
    <3> QED
      BY <3>2, <3>3, <3>4, ReadAll
  <2> QED
    BY <2>1, <2>2 DEF Alike
<1>3. CASE g \in Regroup(hashed) /\ stage = "transform"
  <2>1. Transforming /\ stage \in Stages
    BY <1>3 DEF ModeKept, Stages
  <2>2. ASSUME NEW e \in g.files, Fresh(e)
        PROVE  g.hash = {Output(Body(e))}
    <3>1. e \in Entries /\ Seen(e)
      BY <1>3, <2>1, Members
    <3>2. PICK h \in groups : \E found \in HashFn(e, h.hash) : g.hash = found.hash
      BY <1>3, <2>1, <2>2, Members
    <3>3. HashFn(e, h.hash) = {[len |-> Len(Read(Output(Body(e)), 0, info[e].len)),
                                hash |-> {Read(Output(Body(e)), 0, info[e].len)}]}
      BY <1>3, <2>2, <3>1, HashOfBody
    <3>4. /\ Body(e) \in AllContents /\ Output(Body(e)) \in Seq(Blocks)
          /\ Len(Body(e)) = info[e].len /\ info[e].len \in Nat
      BY <2>2, <3>1, BodiesTyped DEF InfoTrue, Seen
    <3>5. Len(Output(Body(e))) <= info[e].len
      BY <2>1, <3>4 DEF AllRead
    <3> QED
      BY <3>2, <3>3, <3>4, <3>5, ReadAll
  <2> QED
    BY <2>1, <2>2 DEF Alike
<1> QED
  BY <1>1, <1>2, <1>3 DEF Rehashed

LEMMA WholeKept ==
  ASSUME Types, InfoTrue, GroupsApart, StageRuns, HashesTrue, ModeKept, PrefixBounded, OnePassed,
         SuffixFollowsPrefix, WholeRead, [Next]_vars
  PROVE  WholeRead'
<1>1. Types' /\ Drift
  BY NextTyped
<1>2. AllRead' <=> AllRead
  BY <1>1 DEF AllRead, Transforming, SkipContentHash, ShortPrefix, ShortSuffix, MaxPrefixSize,
              MaxSuffixSize, Scenario, Drift
<1> SUFFICES ASSUME AllRead PROVE WholeRead'
  BY <1>2 DEF WholeRead
<1> DEFINE Quiet == /\ UNCHANGED <<info, groups, passed>>
                    /\ stage' = stage \/ (stage = "done" /\ stage' = "reported")
<1>3. CASE Quiet
  <2>1. \A g \in groups : Alike(g) => Alike(g)'
    BY <1>1, <1>3, AlikeDrift
  <2>2. stage = "contents" => passed \subseteq groups
    BY DEF StageRuns, Stages
  <2> QED
    BY <1>3, <2>1, <2>2 DEF WholeRead, Done
<1>4. CASE EndStage
  <2>0. /\ UNCHANGED <<envVars, info, prefixLen>> /\ groups' \subseteq Rehashed
        /\ stage \in Stages
    BY <1>4, EndGroups
  <2>1. \A g : Alike(g)' <=> Alike(g)
    BY <2>0 DEF Alike, Fresh, Body, envVars, Transforming, Scenario
  <2>2. CASE EndPrefix
    BY <2>2 DEF EndPrefix, Begin, WholeRead, Done
  <2>3. CASE EndSuffix
    <3>1. ~SkipContentHash
      BY <2>0, <2>3 DEF EndSuffix, ModeKept, AllRead
    <3> DEFINE gs == {g \in Rehashed : Matches(g)}
    <3>2. /\ stage = "suffix" /\ stage' = "contents"
          /\ passed' = gs \ {g \in gs : WorthReading(g)}
      BY <2>3, <3>1 DEF EndSuffix, Begin
    <3>3. ASSUME NEW g \in passed' PROVE Alike(g)
      <4>1. g \in Rehashed /\ ~WorthReading(g) /\ g \in FileGroup
        BY <3>2, RehashedTyped
      <4>2. CASE UniqueCount(g) <= 1
        BY <4>1, <4>2, OneFileAlike
      <4>3. CASE g.len < prefixLen
        BY <3>2, <4>1, <4>3, EqualSuffixes
      <4>4. UniqueCount(g) \in Nat /\ g.len \in Nat /\ prefixLen \in Nat
        BY <4>1, CountsTyped DEF FileGroup, Types
      <4> QED
        BY <4>1, <4>2, <4>3, <4>4 DEF WorthReading
    <3> QED
      BY <2>1, <3>2, <3>3 DEF WholeRead, Done
  <2>4. CASE EndContents \/ EndTransform
    <3>1. stage \in {"contents", "transform"} /\ stage' = "done"
      BY <2>4 DEF EndContents, EndTransform, Finish
    <3> QED
      BY <2>0, <2>1, <3>1, EqualWholes DEF WholeRead
  <2> QED BY <1>4, <2>2, <2>3, <2>4 DEF EndStage
<1>5. Idle => Quiet
  BY DEF Idle, stageVars
<1>6. ASSUME NEW e \in Entries, Stat(e) PROVE WholeRead'
  BY <1>6 DEF Stat, WholeRead, Done
<1>7. GroupBySize \/ RemoveSameFiles => WholeRead'
  BY DEF GroupBySize, RemoveSameFiles, Begin, WholeRead, Done
<1>8. ASSUME NEW r \in todo, HashRun(r) PROVE Quiet
  BY <1>8 DEF HashRun
<1> QED
  BY <1>3, <1>4, <1>5, <1>6, <1>7, <1>8, StepKinds

-----------------------------------------------------------------------------
(* Equal files are in one group.                                           *)

\* A file found and not touched is one the search is about, ...
LEMMA FoundInScope ==
  ASSUME Types, InfoTrue, ScanTrue, NEW e \in Entries, Seen(e), Fresh(e)
  PROVE  /\ Path[e] \in InScope /\ Stable(Path[e])
         /\ at[Path[e]] = info[e].id /\ data[at[Path[e]]] = Body(e)
         /\ info[e].len = Len(Body(e))
<1>1. at[Path[e]] = info[e].id /\ info[e].len = Len(Body(e))
  BY DEF InfoTrue
<1>2. info[e].len \in MinSize..MaxSize
  BY Options DEF ScanTrue, OfSize, Seen
<1> QED
  BY <1>1, <1>2, EntryPaths DEF InScope, Stable, Fresh, Body

\* ... and one the search is about was found.
LEMMA ScopeFound ==
  ASSUME Types, InfoTrue, ScanTrue, stage # "scan",
         NEW e \in Entries, Intact(Path[e]), Path[e] \in InScope
  PROVE  Seen(e) /\ Fresh(e) /\ e \in Collected
<1>1. info[e] # LeftOut /\ info[e] # Nobody
  BY DEF ScanTrue
<1>2. Seen(e)
  BY <1>1 DEF Types, Seen
<1> QED
  BY <1>1, <1>2 DEF InfoTrue, Intact, Stable, Fresh, Collected

\* The files of a group that are intact.
LEMMA IntactFresh ==
  ASSUME InfoTrue, NEW e \in Entries, Seen(e), Intact(Path[e])
  PROVE  Fresh(e) /\ e \notin lost
BY DEF InfoTrue, Intact, Stable, Fresh

LEMMA ReplicasTyped ==
  ASSUME NEW p \in Paths
  PROVE  /\ Replicas(p) \subseteq InScope /\ Replicas(p) \subseteq Paths
         /\ \A q \in Replicas(p) : Intact(q) /\ Sight(q) = Sight(p)
         /\ p \in InScope /\ Intact(p) => p \in Replicas(p)
         /\ \A q \in Paths : Sight(q) = Sight(p) => Replicas(q) = Replicas(p)
BY DEF Replicas, InScope

\* Replicas have one length.
LEMMA EqualLengths ==
  ASSUME Types, InfoTrue, ScanTrue, LengthsKept,
         NEW e \in Entries, Seen(e), Fresh(e), NEW f \in Entries, Seen(f), Fresh(f),
         Sight(Path[e]) = Sight(Path[f])
  PROVE  /\ info[e].len = info[f].len
         /\ IF Transforming THEN Output(Body(e)) = Output(Body(f)) ELSE Body(e) = Body(f)
<1>1. /\ data[at[Path[e]]] = Body(e) /\ info[e].len = Len(Body(e))
      /\ data[at[Path[f]]] = Body(f) /\ info[f].len = Len(Body(f))
  BY FoundInScope
<1>2. Body(e) \in AllContents /\ Body(f) \in AllContents
  BY BodiesTyped
<1>3. CASE Transforming
  BY <1>1, <1>2, <1>3 DEF LengthsKept, Sight
<1>4. CASE ~Transforming
  BY <1>1, <1>4 DEF Sight
<1> QED BY <1>3, <1>4

LEMMA SizesTogether ==
  ASSUME Types, InfoTrue, ScanTrue, GroupBySize, LengthsKept
  PROVE  LET R == {[file |-> e, len |-> info[e].len, hash |-> {}] : e \in Collected}
         IN TogetherIn(IF Transforming THEN {Scanned} ELSE Regroup(R))
<1>1. ASSUME NEW e \in Collected, Fresh(e), NEW q \in Replicas(Path[e])
      PROVE  \E f \in Collected : Path[f] = q /\ info[f].len = info[e].len
  <2>1. PICK f \in Entries : Path[f] = q
    BY ReplicasTyped, EntryPaths DEF Collected, Paths
  <2>2. e \in Entries /\ Seen(e)
    BY ScannedTyped DEF Collected
  <2>3. q \in InScope /\ Intact(q) /\ Sight(q) = Sight(Path[e])
    BY <2>2, ReplicasTyped, EntryPaths
  <2>4. info[f] # LeftOut /\ info[f] # Nobody
    BY <2>1, <2>3 DEF GroupBySize, ScanTrue
  <2>5. Seen(f) /\ f \in Collected
    BY <2>4 DEF Types, Seen, Collected
  <2>6. Fresh(f)
    BY <2>1, <2>3, <2>5, IntactFresh
  <2>7. info[f].len = info[e].len
    BY <1>1, <2>1, <2>2, <2>3, <2>5, <2>6, EqualLengths
  <2> QED BY <2>1, <2>5, <2>7
<1> DEFINE R == {[file |-> e, len |-> info[e].len, hash |-> {}] : e \in Collected}
<1>2. CASE Transforming
  BY <1>1, <1>2 DEF TogetherIn, Scanned, PathsIn
<1>3. CASE ~Transforming
  <2>1. /\ R \in SUBSET Messages
        /\ \A r \in R : r.file \in Collected /\ r.len = info[r.file].len /\ r.hash = {}
        /\ \A e \in Collected : \E r \in R : r.file = e /\ r.len = info[e].len /\ r.hash = {}
    <3>1. \A e \in Collected : e \in Entries /\ info[e].len \in Nat
      BY ScannedTyped DEF Collected, Seen
    <3>2. R \in SUBSET Messages
      BY <3>1 DEF Messages, Hashes
    <3>3. \A e \in Collected : [file |-> e, len |-> info[e].len, hash |-> {}] \in R
      OBVIOUS
    <3>4. \A r \in R : r.file \in Collected /\ r.len = info[r.file].len /\ r.hash = {}
      OBVIOUS
    <3> HIDE DEF R
    <3> QED BY <3>2, <3>3, <3>4
  <2> HIDE DEF R
  <2>2. ASSUME NEW g \in Regroup(R), NEW e \in g.files
        PROVE  e \in Collected /\ g.len = info[e].len /\ g.hash = {}
    BY <2>1, RegroupParts
  <2>3. ASSUME NEW g \in Regroup(R), NEW e \in g.files, NEW f \in Collected,
               info[f].len = info[e].len
        PROVE  f \in g.files
    <3>1. PICK r \in R : r.file = f /\ r.len = info[f].len /\ r.hash = {}
      BY <2>1
    <3>2. r.len = g.len /\ r.hash = g.hash
      BY <2>2, <2>3, <3>1
    <3> QED
      BY <2>1, <3>1, <3>2, RegroupParts
  <2>4. TogetherIn(Regroup(R))
    BY <1>1, <2>2, <2>3 DEF TogetherIn, PathsIn
  <2> QED BY <1>3, <2>4 DEF R
<1> QED BY <1>2, <1>3

LEMMA PrunedTogether ==
  ASSUME Types, TogetherIn(groups), NEW kept \in Prunings(groups)
  PROVE  TogetherIn(PrunedTo(groups, kept))
<1> SUFFICES ASSUME NEW g \in PrunedTo(groups, kept), NEW e \in g.files, Fresh(e), Intact(Path[e]),
                    NEW q \in Replicas(Path[e])
             PROVE  q \in PathsIn(g)
  BY DEF TogetherIn
<1>1. PICK h \in groups :
        /\ g.files = h.files \cap kept
        /\ \A d \in h.files : \E f \in g.files : Path[d] = Path[f]
  BY Pruned DEF Types
<1>2. q \in PathsIn(h)
  BY <1>1 DEF TogetherIn
<1> QED
  BY <1>1, <1>2 DEF PathsIn

LEMMA RehashedTogether ==
  ASSUME Types, InfoTrue, ScanTrue, GroupsApart, StageRuns, HashesTrue, ModeKept,
         LengthsKept, TogetherIn(groups), stage \in Stages, todo = {}
  PROVE  TogetherIn(Rehashed)
<1>1. passed \subseteq groups
  BY DEF StageRuns
<1> SUFFICES ASSUME NEW g \in Regroup(hashed), NEW e \in g.files, Fresh(e), Intact(Path[e]),
                    NEW q \in Replicas(Path[e])
             PROVE  q \in PathsIn(g)
  BY <1>1 DEF TogetherIn, Rehashed
<1>2. e \in Entries /\ Seen(e)
  BY Members
<1>3. PICK h \in groups \ passed :
        e \in h.files /\ \E found \in HashFn(e, h.hash) :
          g.hash = found.hash /\ g.len \in {found.len, info[e].len}
  BY Members
<1>4. PICK f \in h.files : Path[f] = q
  BY <1>3 DEF TogetherIn, PathsIn
<1>5. f \in Entries /\ Seen(f) /\ f \in FilesOf(groups)
  BY SizesTyped DEF GroupsApart, FilesOf
<1>6. Intact(q) /\ Sight(Path[f]) = Sight(Path[e])
  BY <1>2, <1>4, ReplicasTyped, EntryPaths
<1>7. Fresh(f) /\ f \notin lost
  BY <1>4, <1>5, <1>6, IntactFresh
<1>8. f \notin FilesOf(passed)
  BY <1>1 DEF GroupsApart, FilesOf
<1>9. PICK m \in hashed : m.file = f
  BY <1>5, <1>7, <1>8 DEF StageRuns, FilesOf
<1>10. PICK k \in groups \ passed :
         f \in k.files /\ \E found \in HashFn(f, k.hash) :
           m.hash = found.hash /\ m.len \in {found.len, info[f].len}
  BY <1>7, <1>9 DEF HashesTrue
<1>11. k = h
  BY <1>10 DEF GroupsApart
<1>12. /\ info[e].len = info[f].len
       /\ IF Transforming THEN Output(Body(e)) = Output(Body(f)) ELSE Body(e) = Body(f)
  BY <1>2, <1>5, <1>6, <1>7, EqualLengths
<1>13. HashFn(e, h.hash) = HashFn(f, h.hash)
  BY <1>2, <1>5, <1>7, <1>12, EqualHashes DEF ModeKept
<1>14. h.hash \in Hashes
  BY DEF Types, FileGroup
<1>15. ASSUME NEW found \in HashFn(e, h.hash)
       PROVE  found.len = info[e].len
  <2>1. CASE stage # "transform"
    BY <1>2, <1>14, <1>15, <2>1, FoundTyped
  <2>2. CASE stage = "transform"
    <3>1. found.len = Len(Read(Output(Body(e)), 0, info[e].len))
      BY <1>2, <1>15, <2>2, HashOfBody
    <3>2. /\ Body(e) \in AllContents /\ Output(Body(e)) \in Seq(Blocks)
          /\ info[e].len = Len(Body(e)) /\ info[e].len \in Nat
      BY <1>2, BodiesTyped, FoundInScope DEF Seen
    <3>3. Len(Output(Body(e))) = info[e].len
      BY <2>2, <3>2 DEF LengthsKept, ModeKept
    <3> QED
      BY <3>1, <3>2, <3>3, ReadAll
  <2> QED BY <2>1, <2>2
<1>16. m.hash = g.hash /\ m.len = g.len
  BY <1>2, <1>3, <1>10, <1>11, <1>12, <1>13, <1>15, OneHash
<1>17. f \in g.files
  BY <1>9, <1>16, RegroupParts DEF Types, Messages
<1> QED
  BY <1>4, <1>17 DEF PathsIn

-----------------------------------------------------------------------------
(* Only what the user did not ask for is dropped.                          *)

\* A group that holds all intact replicas is counted at least as high.
LEMMA Enough ==
  ASSUME Types, InfoTrue, NEW g \in FileGroup, \A e \in g.files : Seen(e),
         NEW p \in Paths, Replicas(p) \subseteq PathsIn(g)
  PROVE  /\ SubgroupCount(g) \in Nat
         /\ ReplicasOf(Replicas(p)) <= SubgroupCount(g)
<1> DEFINE rs == Replicas(p)
           rooted(s) == {q \in s : Root[q] # NoRoot}
           free == {e \in g.files : Root[Path[e]] = NoRoot}
           fixed == {e \in g.files : Root[Path[e]] # NoRoot}
           roots == {Root[Path[e]] : e \in fixed}
           ids == {info[e].id : e \in free}
           paths == {Path[e] : e \in free}
<1>1. g.files \subseteq Entries /\ IsFiniteSet(g.files)
  BY GroupAssumption, SmallerCount DEF FileGroup, SomeEntries
<1>2. IsFiniteSet(fixed) /\ IsFiniteSet(free)
  BY <1>1, SmallerCount
<1>3. IsFiniteSet(roots)
  <2> DEFINE f == [e \in fixed |-> Root[Path[e]]]
  <2>1. roots = {f[e] : e \in fixed}
    OBVIOUS
  <2> HIDE DEF f, roots, fixed
  <2> QED BY <1>2, <2>1, ImageCount
<1>4. IsFiniteSet(ids)
  <2> DEFINE f == [e \in free |-> info[e].id]
  <2>1. ids = {f[e] : e \in free}
    OBVIOUS
  <2> HIDE DEF f, ids, free
  <2> QED BY <1>2, <2>1, ImageCount
<1>5. IsFiniteSet(paths) /\ Cardinality(paths) <= Cardinality(free)
  <2>1. paths = {Path[e] : e \in free}
    OBVIOUS
  <2> HIDE DEF paths, free
  <2> QED BY <1>2, <2>1, ImageCount
<1>6. \A q \in rs : \E e \in g.files : Path[e] = q /\ info[e].id = at[q]
  <2> SUFFICES ASSUME NEW q \in rs PROVE \E e \in g.files : Path[e] = q /\ info[e].id = at[q]
    OBVIOUS
  <2>1. PICK e \in g.files : Path[e] = q
    BY DEF PathsIn
  <2>2. Stable(Path[e])
    BY <2>1, ReplicasTyped DEF Intact
  <2> QED
    BY <1>1, <2>1, <2>2 DEF InfoTrue
<1>7. /\ {Root[q] : q \in rooted(rs)} \subseteq roots
      /\ {at[q] : q \in rs \ rooted(rs)} \subseteq ids
      /\ rs \ rooted(rs) \subseteq paths
  BY <1>6
<1>8. /\ Cardinality({Root[q] : q \in rooted(rs)}) \in Nat /\ Cardinality(roots) \in Nat
      /\ Cardinality({Root[q] : q \in rooted(rs)}) <= Cardinality(roots)
  <2> DEFINE few == {Root[q] : q \in rooted(rs)}
  <2> HIDE DEF few, roots
  <2> QED BY <1>3, <1>7, SmallerCount DEF few
<1>9. /\ Cardinality({at[q] : q \in rs \ rooted(rs)}) \in Nat /\ Cardinality(ids) \in Nat
      /\ Cardinality({at[q] : q \in rs \ rooted(rs)}) <= Cardinality(ids)
  <2> DEFINE few == {at[q] : q \in rs \ rooted(rs)}
  <2> HIDE DEF few, ids
  <2> QED BY <1>4, <1>7, SmallerCount DEF few
<1>10. /\ Cardinality(rs \ rooted(rs)) \in Nat /\ Cardinality(free) \in Nat
       /\ Cardinality(rs \ rooted(rs)) <= Cardinality(free)
  <2> DEFINE few == rs \ rooted(rs)
  <2>1. Cardinality(few) \in Nat /\ Cardinality(paths) \in Nat /\ Cardinality(few) <= Cardinality(paths)
    <3> HIDE DEF few, paths
    <3> QED BY <1>5, <1>7, SmallerCount DEF few
  <2>2. Cardinality(free) \in Nat
    <3> HIDE DEF free
    <3> QED BY <1>2, FS_CardinalityType
  <2> HIDE DEF few, paths, free
  <2> QED BY <1>5, <2>1, <2>2 DEF few
<1>11. g.files \ fixed = free
  OBVIOUS
<1>12. SubgroupCount(g) = Cardinality(roots)
         + (IF MatchLinks THEN Cardinality(free) ELSE Cardinality(ids))
  BY <1>11 DEF SubgroupCount
<1>13. ReplicasOf(rs) = Cardinality({Root[q] : q \in rooted(rs)})
         + (IF MatchLinks THEN Cardinality(rs \ rooted(rs))
            ELSE Cardinality({at[q] : q \in rs \ rooted(rs)}))
  BY DEF ReplicasOf
<1> HIDE DEF rs, rooted, free, fixed, roots, ids, paths
<1>14. /\ SubgroupCount(g) \in Nat
       /\ ReplicasOf(rs) <= SubgroupCount(g)
  BY <1>8, <1>9, <1>10, <1>12, <1>13
<1> QED
  BY <1>14 DEF rs

\* A group of unchanged files is counted exactly.
LEMMA ExactCount ==
  ASSUME Types, NEW g \in FileGroup, \A e \in g.files : info[e].id = at[Path[e]],
         \A e, f \in g.files : e # f => Path[e] # Path[f]
  PROVE  SubgroupCount(g) = ReplicasOf(PathsIn(g))
<1> DEFINE ps == PathsIn(g)
           rooted == {q \in ps : Root[q] # NoRoot}
           fixed == {e \in g.files : Root[Path[e]] # NoRoot}
           free == {e \in g.files : Root[Path[e]] = NoRoot}
           paths == ps \ rooted
<1>1. g.files \ fixed = free
  OBVIOUS
<1>2. {Root[Path[e]] : e \in fixed} = {Root[q] : q \in rooted}
  BY DEF PathsIn
<1>3. {info[e].id : e \in free} = {at[q] : q \in paths}
  BY DEF PathsIn
<1>4. Cardinality(free) = Cardinality(paths)
  <2> DEFINE f == [e \in free |-> Path[e]]
  <2>1. f \in Injection(free, paths) /\ f \in Surjection(free, paths)
    BY DEF PathsIn, Injection, Surjection, IsInjective
  <2>2. IsFiniteSet(free)
    BY GroupAssumption, SmallerCount DEF FileGroup, SomeEntries
  <2> HIDE DEF f, free, paths
  <2> QED
    BY <2>1, <2>2, FS_Surjection
<1>5. SubgroupCount(g) = Cardinality({Root[Path[e]] : e \in fixed})
        + (IF MatchLinks THEN Cardinality(free) ELSE Cardinality({info[e].id : e \in free}))
  BY <1>1 DEF SubgroupCount
<1>6. ReplicasOf(ps) = Cardinality({Root[q] : q \in rooted})
        + (IF MatchLinks THEN Cardinality(paths) ELSE Cardinality({at[q] : q \in paths}))
  BY DEF ReplicasOf
<1> HIDE DEF ps, rooted, fixed, free, paths
<1>7. SubgroupCount(g) = ReplicasOf(ps)
  BY <1>2, <1>3, <1>4, <1>5, <1>6
<1> QED
  BY <1>7 DEF ps

\* What the user asked for passes the filter of every stage.
LEMMA WantedMatches ==
  ASSUME Types, InfoTrue, NEW gs \in SUBSET FileGroup, TogetherIn(gs),
         NEW g \in gs, \A e \in g.files : Seen(e),
         NEW p \in PathsIn(g), Intact(p), Unique \/ Wanted(Replicas(p))
  PROVE  Matches(g) /\ (~Unique => MatchesStrictly(g))
<1>1. PICK e \in g.files : Path[e] = p /\ e \in Entries /\ p \in Paths
  BY EntryPaths DEF PathsIn, FileGroup, SomeEntries
<1>2. Fresh(e)
  BY <1>1, IntactFresh
<1>3. Replicas(p) \subseteq PathsIn(g)
  BY <1>1, <1>2 DEF TogetherIn
<1>4. SubgroupCount(g) \in Nat /\ ReplicasOf(Replicas(p)) <= SubgroupCount(g)
  BY <1>1, <1>3, Enough
<1>5. ReplicasOf(Replicas(p)) \in Nat
  BY <1>1, MoreReplicas, ReplicasTyped
<1>6. ~Unique => SubgroupCount(g) > FilterRf
  BY <1>4, <1>5, Options DEF Wanted
<1> QED
  BY <1>6 DEF Matches, MatchesStrictly

LEMMA TogetherKept ==
  ASSUME Types, InfoTrue, ScanTrue, GroupsApart, StageRuns, HashesTrue, ModeKept, Together, [Next]_vars
  PROVE  Together'
<1>1. Types' /\ Drift
  BY NextTyped
<1>2. LengthsKept' <=> LengthsKept
  BY <1>1 DEF LengthsKept, Transforming, Scenario, Drift
<1> SUFFICES ASSUME LengthsKept PROVE Together'
  BY <1>2 DEF Together
<1>3. ASSUME NEW gs, TogetherIn(gs), gs \subseteq FileGroup, UNCHANGED info, groups' \subseteq gs
      PROVE  Together'
  <2>1. ASSUME NEW e \in Entries, Fresh(e)', Intact(Path[e])'
        PROVE  Fresh(e) /\ Intact(Path[e]) /\ Replicas(Path[e])' \subseteq Replicas(Path[e])
    BY <1>1, <1>3, <2>1, EntryPaths, DriftPaths, DriftReplicas DEF Fresh, Drift
  <2> QED
    BY <1>3, <2>1 DEF Together, TogetherIn, PathsIn, FileGroup, SomeEntries
<1>4. CASE Idle
  BY <1>3, <1>4 DEF Idle, Together, Types
<1>5. ASSUME NEW e \in Entries, Stat(e) PROVE Together'
  BY <1>5 DEF Stat, GroupsApart, Together, TogetherIn
<1>6. CASE GroupBySize
  <2> DEFINE R == {[file |-> e, len |-> info[e].len, hash |-> {}] : e \in Collected}
             gs == IF Transforming THEN {Scanned} ELSE Regroup(R)
  <2>1. TogetherIn(gs)
    BY <1>6, SizesTogether
  <2>2. groups' \subseteq gs /\ UNCHANGED info
    BY <1>6 DEF GroupBySize
  <2>3. groups' \subseteq FileGroup
    BY <1>6, ScannedTyped
  <2>4. TogetherIn(groups')
    BY <2>1, <2>2 DEF TogetherIn
  <2>5. PICK new : new = groups'
    OBVIOUS
  <2> HIDE DEF gs
  <2> QED BY <1>3, <2>2, <2>3, <2>4, <2>5
<1>7. CASE RemoveSameFiles
  <2>1. PICK kept \in Prunings(groups) : groups' \subseteq PrunedTo(groups, kept)
    BY <1>7 DEF RemoveSameFiles, PrunedTo, Begin
  <2>2. TogetherIn(PrunedTo(groups, kept)) /\ PrunedTo(groups, kept) \subseteq FileGroup
    BY PrunedTogether, Pruned DEF Together, Types
  <2> QED
    BY <1>3, <1>7, <2>1, <2>2 DEF RemoveSameFiles
<1>8. ASSUME NEW r \in todo, HashRun(r) PROVE Together'
  BY <1>3, <1>8 DEF HashRun, Together, Types
<1>9. CASE EndStage
  BY <1>3, <1>9, EndGroups, RehashedTogether, RehashedTyped DEF Together
<1> QED
  BY <1>4, <1>5, <1>6, <1>7, <1>8, <1>9, StepKinds

\* A file in a group is still in one that the stage returns, unless it was lost.
LEMMA PlacedAgain ==
  ASSUME Types, InfoTrue, GroupsApart, StageRuns, HashesTrue, ModeKept,
         stage \in Stages, todo = {}, NEW p \in Paths, Intact(p), Placed(p, groups)
  PROVE  \E g \in Rehashed : g \in FileGroup /\ p \in PathsIn(g) /\ \A e \in g.files : Seen(e)
<1>1. PICK h \in groups : \E e \in h.files : Path[e] = p
  BY DEF Placed, PathsIn
<1>0. PICK e \in h.files : Path[e] = p
  BY <1>1
<1>2. e \in FilesOf(groups) /\ e \in Entries /\ Seen(e)
  BY SizesTyped DEF FilesOf, GroupsApart
<1>3. e \notin lost
  BY <1>0, <1>2, IntactFresh
<1>4. PICK g \in Rehashed : e \in g.files
  BY <1>2, <1>3, RehashedParts DEF FilesOf
<1>5. FilesOf(Rehashed) \subseteq FilesOf(groups)
  BY RehashedParts
<1>6. \A d \in g.files : Seen(d)
  BY <1>5 DEF FilesOf, GroupsApart
<1> QED
  BY <1>0, <1>4, <1>6, RehashedTyped DEF PathsIn

LEMMA KeptKept ==
  ASSUME Types, InfoTrue, ScanTrue, GroupsApart, StageRuns, HashesTrue, ModeKept,
         Together, Kept, [Next]_vars
  PROVE  Kept'
<1>1. Types' /\ Drift
  BY NextTyped
<1>2. (LengthsKept' <=> LengthsKept) /\ (Unique' <=> Unique) /\ (Transforming' <=> Transforming)
      /\ Unique \in BOOLEAN
  BY <1>1, Options DEF LengthsKept, Transforming, Unique, Scenario, Drift
<1> SUFFICES ASSUME LengthsKept, stage' # "scan", Unique => ~Done',
                    NEW p \in Paths, p \in InScope', Intact(p)', Unique \/ Wanted(Replicas(p))'
             PROVE  Placed(p, groups')
  BY <1>2 DEF Kept, InScope, Placed, PathsIn
<1>3. p \in InScope /\ Intact(p) /\ (Unique \/ Wanted(Replicas(p)))
  BY <1>1, <1>2, DriftPaths, DriftReplicas DEF Intact
<1>4. stage # "scan" /\ (Unique => ~Done) => Placed(p, groups)
  BY <1>3 DEF Kept
<1> DEFINE Quiet == /\ UNCHANGED groups /\ stage # "scan"
                    /\ stage' = stage \/ (stage = "done" /\ stage' = "reported")
<1>5. CASE Quiet
  BY <1>4, <1>5 DEF Done
<1>6. CASE GroupBySize
  <2>1. PICK e \in Entries : Path[e] = p
    BY DEF Paths
  <2>2. info[e] # LeftOut /\ info[e] # Nobody
    BY <1>3, <1>6, <2>1 DEF ScanTrue, GroupBySize
  <2>3. Seen(e) /\ e \in Collected
    BY <2>2 DEF Types, Seen, Collected
  <2>4. CASE Transforming
    BY <1>6, <2>1, <2>3, <2>4 DEF GroupBySize, Placed, PathsIn, Scanned
  <2>5. CASE ~Transforming
    <3> DEFINE R == {[file |-> f, len |-> info[f].len, hash |-> {}] : f \in Collected}
    <3>1. \A f \in Collected : f \in Entries /\ info[f].len \in Nat /\ Seen(f)
      BY <1>6, ScannedTyped DEF Collected, Seen
    <3>2. R \in SUBSET Messages
      BY <3>1 DEF Messages, Hashes
    <3>3. \E r \in R : r.file = e
      <4>1. [file |-> e, len |-> info[e].len, hash |-> {}] \in R
        BY <2>3
      <4> HIDE DEF R
      <4> QED BY <4>1
    <3>4. \A r \in R : r.file \in Collected
      OBVIOUS
    <3>5. TogetherIn(Regroup(R))
      BY <1>6, <2>5, SizesTogether
    <3>6. groups' = {g \in Regroup(R) : Matches(g)}
      BY <1>6, <2>5 DEF GroupBySize
    <3> HIDE DEF R
    <3>7. PICK g \in Regroup(R) : e \in g.files
      BY <3>2, <3>3, RegroupParts
    <3>8. \A f \in g.files : Seen(f)
      BY <3>1, <3>2, <3>4, RegroupParts
    <3>9. p \in PathsIn(g)
      BY <2>1, <3>7 DEF PathsIn
    <3>10. Regroup(R) \in SUBSET FileGroup
      BY <3>2, RegroupParts
    <3>11. Matches(g)
      BY <1>3, <3>5, <3>8, <3>9, <3>10, WantedMatches
    <3> QED
      BY <3>6, <3>9, <3>11 DEF Placed
  <2> QED BY <2>4, <2>5
<1>7. CASE RemoveSameFiles
  <2>1. PICK kept \in Prunings(groups) :
          groups' = {g \in PrunedTo(groups, kept) : Transforming \/ Matches(g)}
    BY <1>7 DEF RemoveSameFiles, PrunedTo, Begin
  <2>2. PICK h \in groups : p \in PathsIn(h)
    BY <1>4, <1>7 DEF RemoveSameFiles, Done, Placed
  <2>3. PICK g \in PrunedTo(groups, kept) :
          /\ g.files = h.files \cap kept
          /\ \A e \in h.files : \E f \in g.files : Path[e] = Path[f]
    BY Pruned DEF Types
  <2>4. p \in PathsIn(g)
    BY <2>2, <2>3 DEF PathsIn
  <2>5. TogetherIn(PrunedTo(groups, kept)) /\ PrunedTo(groups, kept) \in SUBSET FileGroup
    BY PrunedTogether, Pruned DEF Together, Types
  <2>6. \A e \in g.files : Seen(e)
    BY <2>3 DEF GroupsApart, FilesOf
  <2>7. Matches(g)
    BY <1>3, <2>4, <2>5, <2>6, WantedMatches
  <2> QED
    BY <2>1, <2>4, <2>7 DEF Placed
<1>8. CASE EndStage
  <2>1. stage \in Stages /\ todo = {}
    BY <1>8, EndGroups
  <2>2. PICK g \in Rehashed : g \in FileGroup /\ p \in PathsIn(g) /\ \A e \in g.files : Seen(e)
    BY <1>3, <1>4, <2>1, PlacedAgain DEF Stages, Done
  <2>3. TogetherIn(Rehashed) /\ Rehashed \in SUBSET FileGroup
    BY <2>1, RehashedTogether, RehashedTyped DEF Together
  <2>4. Matches(g) /\ (~Unique => MatchesStrictly(g))
    BY <1>3, <2>2, <2>3, WantedMatches
  <2>5. \/ groups' = {k \in Rehashed : Matches(k)}
        \/ groups' = {k \in Rehashed : MatchesStrictly(k)} /\ stage' = "done"
    BY <1>8 DEF EndStage, EndPrefix, EndSuffix, EndContents, EndTransform, Begin, Finish
  <2> QED
    BY <1>2, <2>2, <2>4, <2>5 DEF Placed, Done
<1>9. ASSUME NEW e \in Entries, Stat(e) PROVE FALSE
  BY <1>9 DEF Stat
<1>10. Idle => Quiet
  BY DEF Idle
<1>11. ASSUME NEW r \in todo, HashRun(r) PROVE Quiet
  BY <1>11 DEF HashRun, Stages
<1> QED
  BY <1>5, <1>6, <1>7, <1>8, <1>9, <1>10, <1>11, StepKinds

\* Without changes, the last stage drops exactly what the user did not ask for.
LEMMA StrictKept ==
  ASSUME Types, InfoTrue, ScanTrue, GroupsApart, StageRuns, HashesTrue, ModeKept, OneEntry,
         OnePassed, WholeRead, Together, Kept, Strict, [Next]_vars
  PROVE  Strict'
<1>1. Types' /\ Drift /\ Kept'
  BY NextTyped, KeptKept
<1>2. /\ Transforming' <=> Transforming
      /\ AllRead' <=> AllRead
      /\ Unique' <=> Unique
      /\ FilterRf' = FilterRf
      /\ Unique \in BOOLEAN
  BY <1>1, Options
  DEF AllRead, Transforming, SkipContentHash, ShortPrefix, ShortSuffix, MaxPrefixSize,
      MaxSuffixSize, Scenario, Drift, Unique, FilterRf, RfOver
<1>3. \A g : UNCHANGED info => SubgroupCount(g)' = SubgroupCount(g)
  BY <1>1 DEF SubgroupCount, Drift, Root, MatchLinks, Scenario
<1> SUFFICES ASSUME Done', ~Transforming, AllRead PROVE Strict'
  BY <1>2 DEF Strict
<1>4. LengthsKept /\ LengthsKept'
  BY <1>2 DEF LengthsKept
<1>5. CASE Idle
  <2>1. UNCHANGED <<info, groups, lost>> /\ Done
    BY <1>5 DEF Idle, Done
  <2>2. \A g \in groups' : MatchesStrictly(g)'
    BY <1>2, <1>3, <2>1 DEF Strict, MatchesStrictly
  <2>3. ASSUME touched' = {}, lost' = {}, NEW p \in Paths, p \in InScope', Wanted(Replicas(p))'
        PROVE  Placed(p, groups')
    <3>1. touched = {} /\ lost = {}
      BY <1>1, <2>1, <2>3 DEF Drift
    <3>2. \A q \in Paths : Intact(q) /\ Intact(q)'
      BY <2>3, <3>1 DEF Intact, Stable
    <3>3. \A q \in Paths : /\ at'[q] = at[q] /\ Sight(q)' = Sight(q)
                           /\ (q \in InScope)' <=> q \in InScope
      BY <1>1, <3>2, DriftPaths DEF Intact
    <3>4. Replicas(p)' = Replicas(p)
      BY <3>2, <3>3 DEF Replicas, InScope
    <3>5. PICK rs : rs = Replicas(p)
      OBVIOUS
    <3>6. ReplicasOf(rs)' = ReplicasOf(rs)
      BY <1>1, <3>3, <3>5, SameReplicas, ReplicasTyped DEF Drift
    <3>7. ReplicasOf(Replicas(p))' = ReplicasOf(Replicas(p))
      <4>1. ReplicasOf(Replicas(p))' = ReplicasOf(rs)'
        BY <3>4, <3>5 DEF ReplicasOf
      <4> QED BY <3>5, <3>6, <4>1
    <3>8. RfOver' = RfOver
      BY <1>1 DEF Drift, RfOver, Scenario
    <3>9. Wanted(Replicas(p)) /\ p \in InScope
      BY <1>2, <2>3, <3>3, <3>7, <3>8 DEF Wanted
    <3> QED
      BY <2>1, <3>1, <3>9 DEF Strict, Placed, PathsIn
  <2> QED
    BY <1>2, <2>2, <2>3 DEF Strict, InScope
<1>6. CASE EndContents
  <2>1. /\ stage \in Stages /\ todo = {} /\ UNCHANGED <<envVars, info, lost>> /\ stage = "contents"
        /\ groups' = {g \in Rehashed : MatchesStrictly(g)}
    BY <1>6 DEF EndContents, Finish, Stages
  <2>2. \A g \in groups' : MatchesStrictly(g)'
    BY <1>2, <1>3, <2>1 DEF MatchesStrictly
  <2>3. ASSUME touched = {}, lost = {}, NEW p \in Paths, p \in InScope, Wanted(Replicas(p))
        PROVE  Placed(p, groups')
    <3>1. \A q \in Paths : Intact(q)
      BY <2>3 DEF Intact, Stable
    <3>2. Placed(p, groups)
      BY <1>4, <2>1, <2>3, <3>1 DEF Kept, Done
    <3>3. PICK g \in Rehashed : g \in FileGroup /\ p \in PathsIn(g) /\ \A e \in g.files : Seen(e)
      BY <2>1, <2>3, <3>1, <3>2, PlacedAgain
    <3>4. TogetherIn(Rehashed) /\ Rehashed \in SUBSET FileGroup
      BY <1>4, <2>1, RehashedTogether, RehashedTyped DEF Together
    <3>5. CASE ~Unique
      BY <2>1, <2>3, <3>1, <3>3, <3>4, <3>5, WantedMatches DEF Placed
    <3>6. CASE Unique
      <4>1. \A e \in g.files : /\ e \in Entries /\ Seen(e) /\ Fresh(e) /\ Path[e] \in InScope
                               /\ at[Path[e]] = info[e].id /\ data[at[Path[e]]] = Body(e)
        BY <2>3, <3>3, FoundInScope DEF Fresh, FileGroup, SomeEntries
      <4>2. Alike(g)
        BY <2>1, <3>3, EqualWholes
      <4>3. Replicas(p) = PathsIn(g)
        <5>1. PICK e \in g.files : Path[e] = p
          BY <3>3 DEF PathsIn
        <5>2. Replicas(p) \subseteq PathsIn(g)
          BY <3>1, <3>4, <4>1, <5>1, EntryPaths DEF TogetherIn
        <5>3. ASSUME NEW f \in g.files PROVE Path[f] \in Replicas(p)
          <6>1. Sight(Path[f]) = Sight(p)
            BY <4>1, <4>2, <5>1 DEF Alike, Sight
          <6> QED
            BY <3>1, <4>1, <6>1, EntryPaths DEF Replicas
        <5> QED
          BY <5>2, <5>3 DEF PathsIn
      <4>4. \A e, f \in g.files : e # f => Path[e] # Path[f]
        <5>1. g.files \subseteq FilesOf(groups)
          BY <2>1, RehashedParts DEF FilesOf
        <5> QED
          BY <2>1, <4>1, <5>1 DEF OneEntry
      <4>5. SubgroupCount(g) = ReplicasOf(Replicas(p))
        BY <3>3, <4>1, <4>3, <4>4, ExactCount
      <4>6. MatchesStrictly(g)
        BY <2>3, <3>6, <4>5 DEF MatchesStrictly, Wanted
      <4> QED
        BY <2>1, <3>3, <4>6 DEF Placed
    <3> QED BY <3>5, <3>6, <1>2
  <2>4. touched' = touched /\ lost' = lost /\ InScope' = InScope
        /\ \A p : Replicas(p)' = Replicas(p)
    BY <2>1 DEF envVars, InScope, MinSize, MaxSize, Scenario, Replicas, Intact, Stable, Sight, Transforming
  <2>5. \A p : Wanted(Replicas(p))' => Wanted(Replicas(p))
    BY <2>1, <2>4 DEF Wanted, ReplicasOf, Root, MatchLinks, Scenario, Unique, RfOver, envVars
  <2> QED
    BY <2>2, <2>3, <2>4, <2>5 DEF Strict, InScope
<1>7. CASE EndPrefix \/ EndSuffix \/ EndTransform
  BY <1>7 DEF EndPrefix, EndSuffix, EndTransform, Begin, Done, ModeKept, AllRead, Stages
<1>8. ASSUME NEW e \in Entries, Stat(e) PROVE FALSE
  BY <1>8 DEF Stat, Done
<1>9. ASSUME NEW r \in todo, HashRun(r) PROVE FALSE
  BY <1>9 DEF HashRun, Done, Stages
<1>10. CASE GroupBySize \/ RemoveSameFiles
  BY <1>10 DEF GroupBySize, RemoveSameFiles, Begin, Done
<1> QED
  BY <1>5, <1>6, <1>7, <1>8, <1>9, <1>10, StepKinds DEF EndStage

-----------------------------------------------------------------------------
(* The invariant, and what it says of the report.                          *)

LEMMA InitInv == Init => IInv
<1> SUFFICES ASSUME Init PROVE IInv
  OBVIOUS
<1>1. /\ stage = "scan" /\ groups = {} /\ passed = {} /\ todo = {} /\ hashed = {} /\ lost = {}
      /\ touched = {} /\ late = {} /\ prefixLen = 0 /\ info = [e \in Entries |-> Nobody]
      /\ scenario \in 1..Len(Scenarios)
  BY DEF Init
<1>2. at \in [Paths -> Inodes] /\ data \in [Inodes -> AllContents]
  BY GroupAssumption DEF Init, Starts, Scenario
<1>3. Types
  BY <1>1, <1>2 DEF Types
<1>4. \A e \in Entries : ~Seen(e) /\ info[e] # LeftOut
  BY <1>1 DEF Seen, Nobody, LeftOut
<1>5. InfoTrue /\ ScanTrue /\ GroupsApart
  BY <1>1, <1>4 DEF InfoTrue, ScanTrue, GroupsApart, FilesOf
<1>6. ModeKept /\ StageRuns /\ HashesTrue /\ OneEntry
  BY <1>1 DEF ModeKept, StageRuns, HashesTrue, OneEntry, Stages
<1>7. PrefixBounded /\ OnePassed /\ SuffixFollowsPrefix /\ WholeRead
  BY <1>1 DEF PrefixBounded, OnePassed, SuffixFollowsPrefix, WholeRead, Done
<1>8. Together /\ Kept /\ Strict
  BY <1>1 DEF Together, TogetherIn, Kept, Strict, Done
<1> QED
  BY <1>3, <1>5, <1>6, <1>7, <1>8 DEF IInv

LEMMA NextInv == IInv /\ [Next]_vars => IInv'
<1> SUFFICES ASSUME IInv, [Next]_vars PROVE IInv'
  OBVIOUS
<1> USE DEF IInv
<1>1. Types' /\ InfoTrue' /\ ScanTrue' /\ GroupsApart' /\ ModeKept'
  BY NextTyped, InfoKept, ScanKept, ApartKept, ModeStep
<1>2. StageRuns' /\ HashesTrue' /\ OneEntry'
  BY RunsKept, HashesKept, OneEntryKept
<1>3. PrefixBounded' /\ OnePassed' /\ SuffixFollowsPrefix' /\ WholeRead'
  BY BoundsKept, OnePassedKept, PrefixesKept, WholeKept
<1>4. Together' /\ Kept' /\ Strict'
  BY TogetherKept, KeptKept, StrictKept
<1> QED
  BY <1>1, <1>2, <1>3, <1>4

LEMMA Invariant == Spec => []IInv
BY InitInv, NextInv, PTL DEF Spec

\* Types, and the bookkeeping of the stages: groups share no entry, and what a stage
\* was given is passed, still to hash, hashed or lost to a read error.
THEOREM TypeCorrect == Spec => []TypeOK
<1>1. IInv => TypeOK
  BY DEF IInv, Types, GroupsApart, StageRuns, TypeOK, FileGroup, SomeEntries
<1> QED
  BY <1>1, Invariant, PTL

\* A path is not reported as a duplicate of itself, for any links, devices and
\* overlapping roots, unless its file was replaced between two visits of the walk.
THEOREM ReportsPathOnce == Spec => []PathOnce
<1>1. IInv => PathOnce
  <2> SUFFICES ASSUME IInv, Done, NEW g \in groups, NEW e \in g.files, NEW f \in g.files,
                      e # f, Path[e] = Path[f], Stable(Path[e])
               PROVE  FALSE
    BY DEF PathOnce
  <2>1. {e, f} \subseteq FilesOf(groups) /\ {e, f} \subseteq Entries
    BY DEF IInv, Types, FileGroup, SomeEntries, FilesOf
  <2>2. Fresh(e) /\ Fresh(f)
    BY <2>1 DEF IInv, GroupsApart, InfoTrue, Stable, Fresh
  <2> QED
    BY <2>1, <2>2 DEF IInv, OneEntry, Done
<1> QED
  BY <1>1, Invariant, PTL

\* Files reported together have equal contents (equal output of the command with
\* --transform), whatever other programs do to other files: wherever the limits the
\* user gives leave no byte unread.
THEOREM JoinsOnlyEqual == Spec => [](AllRead => Identical)
<1>1. IInv => (AllRead => Identical)
  <2> SUFFICES ASSUME IInv, AllRead, Done, NEW g \in groups, NEW p \in PathsIn(g),
                      NEW q \in PathsIn(g), Stable(p), Stable(q)
               PROVE  Sight(p) = Sight(q)
    BY DEF Identical
  <2>1. PICK e \in g.files : Path[e] = p
    BY DEF PathsIn
  <2>2. PICK f \in g.files : Path[f] = q
    BY DEF PathsIn
  <2>3. {e, f} \subseteq Entries /\ Seen(e) /\ Seen(f)
    BY DEF IInv, Types, FileGroup, SomeEntries, GroupsApart, FilesOf
  <2>4. Fresh(e) /\ Fresh(f) /\ at[p] = info[e].id /\ at[q] = info[f].id
    BY <2>1, <2>2, <2>3 DEF IInv, InfoTrue, Stable, Fresh
  <2>5. Alike(g)
    BY DEF IInv, WholeRead
  <2> QED
    BY <2>4, <2>5 DEF Alike, Sight, Body
<1> QED
  BY <1>1, Invariant, PTL

\* Enough replicas of some contents are reported, and together, whatever happens to
\* other files, for any options; with --transform if the command keeps lengths.
THEOREM ReportsDuplicates == Spec => [](LengthsKept => DuplicatesReported)
<1>1. IInv => (LengthsKept => DuplicatesReported)
  <2> SUFFICES ASSUME IInv, LengthsKept, Done, ~Unique, NEW p \in InScope,
                      Intact(p), Wanted(Replicas(p))
               PROVE  \E g \in groups : Replicas(p) \subseteq PathsIn(g)
    BY DEF DuplicatesReported, Replicas
  <2>1. PICK g \in groups : p \in PathsIn(g)
    BY DEF IInv, Kept, Placed, Done
  <2>2. PICK e \in g.files : Path[e] = p
    BY <2>1 DEF PathsIn
  <2>3. e \in Entries /\ Seen(e)
    BY DEF IInv, Types, FileGroup, SomeEntries, GroupsApart, FilesOf
  <2>4. Fresh(e)
    BY <2>2, <2>3, IntactFresh DEF IInv
  <2> QED
    BY <2>2, <2>4 DEF IInv, Together, TogetherIn
<1> QED
  BY <1>1, Invariant, PTL

\* If nothing changes and no read fails, the report is exactly the classes of equal
\* files of the sizes and with the number of replicas asked for: wherever no byte
\* stays unread.
THEOREM ReportsExactly == Spec => [](AllRead => ResultExact)
<1>1. IInv => (AllRead => ResultExact)
  <2> SUFFICES ASSUME IInv, AllRead, Done, touched = {}, lost = {}, ~Transforming
               PROVE  {PathsIn(g) : g \in groups} =
                        {ps \in {Replicas(p) : p \in InScope} : Wanted(ps)}
    <3>1. ASSUME touched = {}, lost = {}
          PROVE  \A p : Replicas(p) = {q \in InScope : Sight(q) = Sight(p)}
      BY <3>1 DEF Replicas, Intact, Stable
    <3> QED BY <3>1 DEF ResultExact
  <2>1. \A q \in Paths : Intact(q)
    BY DEF Intact, Stable
  <2>2. ASSUME NEW g \in groups
        PROVE  /\ Wanted(PathsIn(g))
               /\ \A p \in PathsIn(g) : p \in InScope /\ PathsIn(g) = Replicas(p)
               /\ PathsIn(g) # {}
    <3>1. g \in FileGroup /\ g.files \subseteq Entries /\ g.files # {} /\ MatchesStrictly(g)
      BY DEF IInv, Types, FileGroup, SomeEntries, Strict
    <3>2. \A e \in g.files : e \in Entries /\ Seen(e) /\ Fresh(e)
      BY <3>1 DEF IInv, GroupsApart, FilesOf, Fresh
    <3>3. \A e \in g.files : /\ Path[e] \in InScope /\ at[Path[e]] = info[e].id
                             /\ data[at[Path[e]]] = Body(e)
      BY <3>2, FoundInScope DEF IInv
    <3>4. \A e, f \in g.files : e # f => Path[e] # Path[f]
      BY <3>2 DEF IInv, OneEntry, FilesOf, Done
    <3>5. SubgroupCount(g) = ReplicasOf(PathsIn(g))
      BY <3>1, <3>3, <3>4, ExactCount DEF IInv
    <3>6. Wanted(PathsIn(g))
      BY <3>1, <3>5 DEF MatchesStrictly, Wanted, FilterRf
    <3>7. ASSUME NEW e \in g.files PROVE PathsIn(g) = Replicas(Path[e])
      <4>1. LengthsKept
        BY DEF LengthsKept
      <4>2. Replicas(Path[e]) \subseteq PathsIn(g)
        BY <2>1, <3>1, <3>2, <4>1, EntryPaths DEF IInv, Together, TogetherIn
      <4>3. Alike(g)
        BY DEF IInv, WholeRead
      <4>4. \A f \in g.files : Sight(Path[f]) = Sight(Path[e])
        BY <3>2, <3>3, <4>3 DEF Alike, Sight
      <4>5. \A f \in g.files : Path[f] \in Replicas(Path[e])
        BY <2>1, <3>1, <3>3, <4>4, EntryPaths DEF Replicas
      <4> QED
        BY <4>2, <4>5 DEF PathsIn
    <3>8. ASSUME NEW p \in PathsIn(g) PROVE p \in InScope /\ PathsIn(g) = Replicas(p)
      <4>1. PICK e \in g.files : Path[e] = p
        BY DEF PathsIn
      <4> QED
        BY <3>3, <3>7, <4>1
    <3> QED
      BY <3>1, <3>6, <3>8 DEF PathsIn
  <2>3. ASSUME NEW p \in InScope, Wanted(Replicas(p))
        PROVE  \E g \in groups : PathsIn(g) = Replicas(p)
    BY <2>2, <2>3 DEF IInv, Strict, Placed
  <2> QED
    BY <2>2, <2>3
<1> QED
  BY <1>1, Invariant, PTL

=============================================================================
