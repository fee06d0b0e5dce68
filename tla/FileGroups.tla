----------------------------- MODULE FileGroups ------------------------------
(***************************************************************************)
(* Groups of identical files and their subgroups: FileGroup, FileSubGroup  *)
(* and FileGroupFilter of src/fclones/src/group.rs, and the last step of   *)
(* `partition` of src/fclones/src/dedupe.rs.                               *)
(*                                                                         *)
(* The files of a group are a sequence of paths.  rootOf[p] is the number  *)
(* of the first isolated root that is a prefix of p, or 0.                 *)
(***************************************************************************)
EXTENDS Integers, Sequences, FiniteSetsExt, SequencesExt

\* The elements of s that are in T, in their order.  Of SelectSeq in the standard
\* module the provers know nothing.
Filtered(s, T) ==
  LET hits == {i \in 1..Len(s) : s[i] \in T}
      nth(k) == CHOOSE i \in hits : Cardinality({j \in hits : j <= i}) = k
  IN [k \in 1..Cardinality(hits) |-> s[nth(k)]]

\* FileSubGroup::group: one subgroup for each root, then one for each key, in
\* the order the keys appear.
FileSubGroups(files, rootCount, rootOf, key) ==
  LET rest == Filtered(files, {p \in ToSet(files) : rootOf[p] = 0})
      heads == {i \in 1..Len(rest) : \A j \in 1..(i - 1) : key[rest[j]] # key[rest[i]]}
      byRoot == [r \in 1..rootCount |-> Filtered(files, {p \in ToSet(files) : rootOf[p] = r})]
      byKey == [i \in 1..Len(rest) |->
                  IF i \in heads THEN Filtered(rest, {p \in ToSet(rest) : key[p] = key[rest[i]]})
                                 ELSE <<>>]
  IN Filtered(byRoot \o byKey, ToSet(byRoot \o byKey) \ {<<>>})

\* What partition keeps and drops of the subgroups: those to retain are filled
\* up to n from the head of the others.
KeepAtLeast(n, retain, others) ==
  LET missing == Min({Len(others), Max({0, n - Len(retain)})})
  IN [keep |-> FlattenSeq(retain \o SubSeq(others, 1, missing)),
      drop |-> FlattenSeq(SubSeq(others, missing + 1, Len(others)))]

-----------------------------------------------------------------------------
(* FileGroupFilter: [under, rf, rootCount, rootOf, key], where under tells *)
(* Underreplicated(rf) from Overreplicated(rf), and a key is the FileId if *)
(* group_by_id is set and the path if not.                                 *)

SubGroupsIn(files, filter) ==
  FileSubGroups(files, filter.rootCount, filter.rootOf, filter.key)

subgroup_count(files, filter) == Len(SubGroupsIn(files, filter))

matches(files, filter) == filter.under \/ subgroup_count(files, filter) > filter.rf

matches_strictly(files, filter) ==
  IF filter.under THEN subgroup_count(files, filter) < filter.rf
                  ELSE subgroup_count(files, filter) > filter.rf

missing_count(files, filter) ==
  IF filter.under THEN Max({0, filter.rf - subgroup_count(files, filter)}) ELSE 0

\* Mutated form of redundant_count: roots are not looked at.
RedundantFiles(files, filter) ==
  IF filter.under THEN 0 ELSE Max({0, Len(files) - Max({filter.rf, 1})})

\* Without roots the files are counted, not their subgroups.
redundant_count(files, filter) ==
  LET rf == Max({filter.rf, 1})
      groups == SubGroupsIn(files, filter)
  IN CASE filter.under -> 0
       [] ~filter.under /\ filter.rootCount = 0 -> Max({0, Len(files) - rf})
       [] OTHER -> Len(FlattenSeq(SubSeq(groups, Min({rf, Len(groups)}) + 1, Len(groups))))

\* sort_by_path, for files in the order of their paths: roots are kept together,
\* and links to one file.
sort_by_path(files, filter, id) ==
  IF filter.rootCount = 0 THEN files
  ELSE FlattenSeq(FileSubGroups(files, filter.rootCount, filter.rootOf, id))

=============================================================================
