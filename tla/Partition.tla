------------------------------ MODULE Partition ------------------------------
(***************************************************************************)
(* Which files of a group of identical files are kept and which are        *)
(* dropped: `partition` of src/fclones/src/dedupe.rs with the subgrouping  *)
(* of src/fclones/src/group.rs and the priorities.                         *)
(*                                                                         *)
(* A group is a sequence of paths, in the order of the report.  What a     *)
(* glob matches and what a stat returns are given.                         *)
(***************************************************************************)
EXTENDS FileGroups

CONSTANTS
  Created,      \* Created[p]: birth time, or NoStamp
  Modified,     \* Modified[p]: also stands for the access and change times
  Nesting,      \* Nesting[p]: components of the path
  NoStamp,
  Scenarios     \* a sequence of records: what the user asks for, of which files

VARIABLE scenario  \* index of the scenario of this behavior

Scenario == Scenarios[scenario]

\* DedupeConfig, and what its patterns match.
Roots == Scenario.roots               \* isolated roots, in the order they were given
UnderRoot == Scenario.underRoot       \* UnderRoot[p]: the roots that are a prefix of p
MatchLinks == Scenario.matchLinks
RfOver == Scenario.rfOver             \* replicas to keep
Priority == Scenario.priority         \* the --priority options, in the order they were given
KeepMatched == Scenario.keepMatched   \* the paths that match a --keep-name or a --keep-path
NamePatterns == Scenario.namePatterns \* whether --name was given
PathPatterns == Scenario.pathPatterns \* whether --path was given
NameMatched == Scenario.nameMatched   \* the paths that match a --name
PathMatched == Scenario.pathMatched   \* the paths that match a --path

-----------------------------------------------------------------------------

SubGroups(files, id) ==
  FileSubGroups(files, Len(Roots),
                [p \in ToSet(files) |-> SelectInSeq(Roots, LAMBDA r : r \in UnderRoot[p])],
                [p \in ToSet(files) |-> IF MatchLinks THEN p ELSE id[p]])

-----------------------------------------------------------------------------

\* A stable sort by an integer key.
StableSort(s, key) ==
  LET place(i) == Cardinality({j \in 1..Len(s) :
                    key[s[j]] < key[s[i]] \/ (key[s[j]] = key[s[i]] /\ j <= i)})
  IN [k \in 1..Len(s) |-> s[CHOOSE i \in 1..Len(s) : place(i) = k]]

Priorities == {"top", "bottom", "newest", "oldest", "most-recent", "least-recent",
               "most-nested", "least-nested"}

Stamps(f, g) == {f[p] : p \in ToSet(g)}

\* The key a priority sorts subgroups by, ascending; the last are dropped.
SortKey(priority, g) ==
  CASE priority = "newest"       -> Min(Stamps(Created, g))
    [] priority = "oldest"       -> -Min(Stamps(Created, g))
    [] priority = "most-recent"  -> Max(Stamps(Modified, g))
    [] priority = "least-recent" -> -Max(Stamps(Modified, g))
    [] priority = "most-nested"  -> Max(Stamps(Nesting, g))
    [] priority = "least-nested" -> -Min(Stamps(Nesting, g))

\* sort_by_priority
SortBy(groups, priority) ==
  CASE priority = "top"    -> Reverse(groups)
    [] priority = "bottom" -> groups
    [] OTHER               -> StableSort(groups, [g \in ToSet(groups) |-> SortKey(priority, g)])

\* Mutated form of Prioritised: the first option is applied first.
FirstToLast(groups) == FoldLeft(SortBy, groups, Priority)

\* The last option is applied first.
Prioritised(groups) ==
  LET n == Len(Priority)
      sorted[k \in 0..n] == IF k = 0 THEN groups ELSE SortBy(sorted[k - 1], Priority[n + 1 - k])
  IN  sorted[n]

SortFails(files) ==
  /\ ToSet(Priority) \cap {"newest", "oldest"} # {}
  /\ \E p \in ToSet(files) : Created[p] = NoStamp

-----------------------------------------------------------------------------

ShouldKeep(p) == p \in KeepMatched

MayDrop(p) ==
  \/ ~NamePatterns /\ ~PathPatterns
  \/ p \in NameMatched
  \/ p \in PathMatched

\* Mutated form of MustRetain: a subgroup is kept if all its files match.
RetainIfAll(g) ==
  \/ \A p \in ToSet(g) : ShouldKeep(p)
  \/ \A p \in ToSet(g) : ~MayDrop(p)

\* should_keep is any and may_drop is all over the files of a subgroup.
MustRetain(g) ==
  \/ \E p \in ToSet(g) : ShouldKeep(p)
  \/ \E p \in ToSet(g) : ~MayDrop(p)

\* max(1, rf_over)
ToKeep == Max({1, RfOver})

\* Mutated form of Divide: retained files are counted, not retained subgroups.
DivideByFiles(groups) ==
  LET retain == Filtered(groups, {g \in ToSet(groups) : MustRetain(g)})
      others == Filtered(groups, {g \in ToSet(groups) : ~MustRetain(g)})
      missing == Min({Len(others), Max({0, ToKeep - Len(FlattenSeq(retain))})})
  IN [keep |-> FlattenSeq(retain \o SubSeq(others, 1, missing)),
      drop |-> FlattenSeq(SubSeq(others, missing + 1, Len(others)))]

Divide(groups) ==
  KeepAtLeast(ToKeep, Filtered(groups, {g \in ToSet(groups) : MustRetain(g)}),
                      Filtered(groups, {g \in ToSet(groups) : ~MustRetain(g)}))

\* Nothing to drop stands for a group that is rejected.
Partitioned(files, id) ==
  IF SortFails(files) THEN [keep |-> files, drop |-> <<>>]
  ELSE Divide(Prioritised(SubGroups(files, id)))

=============================================================================
