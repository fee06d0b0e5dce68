------------------------------ MODULE Handover -------------------------------
(***************************************************************************)
(* A pipeline `fclones group ... | fclones remove ...`: run_group,         *)
(* run_dedupe and get_command_config of src/fclones/src/main.rs with       *)
(* write_report of src/fclones/src/group.rs and partition of               *)
(* src/fclones/src/dedupe.rs.                                              *)
(*                                                                         *)
(* The first process groups the files, takes the time and writes a report  *)
(* line by line; it may be killed, or fail to write, at any character.     *)
(* The second reads what is there, rebuilds the first one's configuration  *)
(* from the header, and decides group by group what to drop.  Meanwhile    *)
(* other programs modify files.  Grouping and deduplicating themselves are *)
(* single steps here; GroupStages.tla and Dedupe.tla are about those.      *)
(***************************************************************************)
EXTENDS GroupConfig, Report, FileGroups

CONSTANTS
  Characters,   \* of texts
  Cwd,          \* the working directory of both processes
  MaxTime,      \* bound of the clock
  MaxChanges,   \* bound: how many files other programs modify
  Scenarios     \* a sequence of records: the command lines, and the files

VARIABLE scenario  \* index of the scenario of this behavior

Scenario == Scenarios[scenario]

Words == Scenario.words        \* the command line of the first process
Format == Scenario.format      \* its --format
Own == Scenario.own            \* the options of the second: [rfOver, roots, matchLinks]
Classes == Scenario.classes    \* classes of files that are identical, as [len, files]:
                               \* the length hashed, and the paths in their order
Inode == Scenario.inode        \* Inode[p]
Length == Scenario.len         \* Length[p]: the length of the file
Files == DOMAIN Inode

Texts == Seq(Characters)
Path == Seq(Texts)

\* A path as std::path gives it: its names are not empty and have no separator,
\* the root and a dot are the first component or none.
IsPath(p) ==
  /\ p \in Path /\ p # <<>>
  /\ \A i \in 1..Len(p) : i # 1 => p[i] # Root /\ p[i] # CurDir
  /\ \A i \in 1..Len(p) : p[i] # Root => p[i] # <<>> /\ \A m \in 1..Len(p[i]) : p[i][m] # "/"

ASSUME TextsAssumption ==
  /\ SpecialChars \cup Control \cup {"n", "/", "."} \subseteq Characters
  /\ Failed \notin Texts \cup Seq(Texts) \cup [text : Texts, escaped : BOOLEAN]
  /\ Failed \notin [timestamp : Nat, command : Seq(Texts), baseDir : Path, redundant : Int, missing : Int]
  /\ Failed \notin [len : Nat, files : Seq(Path)]
  /\ Failed \notin [isolate : BOOLEAN, matchLinks : BOOLEAN, unique : BOOLEAN, transform : BOOLEAN,
                   rfOver : Int, rfUnder : Int, baseDir : Path, paths : Seq(Path)]
  /\ IsPath(Cwd) /\ Cwd[1] = Root

ASSUME ScenariosAssumption ==
  /\ Scenarios \in Seq(ToSet(Scenarios))
  /\ \A s \in ToSet(Scenarios) :
      /\ s.words \in Seq(Texts) /\ try_parse_from(s.words) # Failed
      /\ s.format \in {"default", "json", "fdupes", "csv"}
      /\ s.own \in [rfOver : Nat \cup {NoCount}, roots : Seq(Path), matchLinks : BOOLEAN]
      /\ (\A p \in DOMAIN s.inode : IsPath(p)) /\ s.len \in [DOMAIN s.inode -> Nat]
      /\ s.classes \in Seq([len : Nat, files : Seq(DOMAIN s.inode)])
      /\ \A c \in ToSet(s.classes) :
           /\ IsInjective(c.files)
           /\ try_parse_from(s.words).transform \/ \A p \in ToSet(c.files) : s.len[p] = c.len

ASSUME TimesAssumption == MaxTime \in Nat /\ MaxChanges \in Nat

\* Of each scenario, for TLC to evaluate once.
Configs == [s \in DOMAIN Scenarios |-> try_parse_from(Scenarios[s].words)]
ResolvedConfigs == [s \in DOMAIN Scenarios |-> resolve_base_dir(Configs[s], Cwd)]
Filters == [s \in DOMAIN Scenarios |-> group_filter(ResolvedConfigs[s], Scenarios[s].inode)]

Config == Configs[scenario]
Resolved == ResolvedConfigs[scenario]
Filter == Filters[scenario]

IsDir(p) == \E f \in Files : is_prefix_of(p, f) /\ p # f
Exists(p) == p \in Files \/ IsDir(p)

VARIABLES
  clock,
  changed,      \* changed[p]: when another program modified p, or 0
  stage,        \* of the first process
  found,        \* its groups
  now,          \* the time it took
  todo,         \* the lines it has still to write
  lines,        \* the lines it wrote
  reader,       \* stage of the second process
  header,       \* what it read: the header, ...
  config,       \* ... its own configuration after that, ...
  next,         \* ... the number of lines it consumed,
  read,         \* ... the groups
  decided       \* and what it keeps and drops of each

groupVars == <<stage, found, now, todo, lines>>
dedupeVars == <<reader, header, config, next, read, decided>>
vars == <<scenario, clock, changed, groupVars, dedupeVars>>

Nothing == <<>>

Init ==
  /\ scenario \in 1..Len(Scenarios)
  /\ clock = 0
  /\ changed = [p \in Files |-> 0]
  /\ stage = "start"
  /\ found = <<>>
  /\ now = 0
  /\ todo = <<>>
  /\ lines = <<>>
  /\ reader = "open"
  /\ header = Nothing
  /\ config = Nothing
  /\ next = 0
  /\ read = <<>>
  /\ decided = <<>>

-----------------------------------------------------------------------------
(* The world.                                                              *)

Tick ==
  /\ clock < MaxTime
  /\ clock' = clock + 1
  /\ UNCHANGED <<scenario, changed, groupVars, dedupeVars>>

\* Another program gives p other contents of the same length.  Dedupe.tla is about
\* what happens after the decision.
Modify(p) ==
  /\ clock > 0
  /\ Cardinality({q \in Files : changed[q] > 0}) < MaxChanges
  /\ \A i \in 1..Len(read) : p \notin ToSet(read[i].files)
  /\ changed' = [changed EXCEPT ![p] = clock]
  /\ UNCHANGED <<scenario, clock, groupVars, dedupeVars>>

-----------------------------------------------------------------------------
(* fclones group.                                                          *)

\* validate and check_input_paths_exist
Refuse ==
  /\ stage = "start"
  /\ ~Valid(Config) \/ \E r \in ToSet(input_paths(Resolved)) : ~Exists(canonicalize(r))
  /\ stage' = "failed"
  /\ UNCHANGED <<scenario, clock, changed, found, now, todo, lines, dedupeVars>>

\* The walk from the input paths.
Scanned(p) == \E r \in ToSet(input_paths(Resolved)) : is_prefix_of(canonicalize(r), p)

\* group_files: one that searches for the output of a transform does not have the
\* strict filter.
Group ==
  /\ stage = "start"
  /\ Valid(Config) /\ \A r \in ToSet(input_paths(Resolved)) : Exists(canonicalize(r))
  /\ LET same == [i \in DOMAIN Classes |->
                    [Classes[i] EXCEPT
                       !.files = Filtered(@, {p \in Files : Scanned(p) /\ changed[p] = 0})]]
         wanted(g) == /\ g.files # <<>>
                      /\ IF Config.transform THEN matches(g.files, Filter)
                         ELSE matches_strictly(g.files, Filter)
         groups == Filtered(same, {g \in ToSet(same) : wanted(g)})
     IN found' = [i \in DOMAIN groups |->
                    [groups[i] EXCEPT !.files = sort_by_path(@, Filter, Inode)]]
  /\ stage' = "grouped"
  /\ UNCHANGED <<scenario, clock, changed, now, todo, lines, dedupeVars>>

\* Mutated form of ReportHeader: the base directory is not resolved.
HeaderUnresolved(redundant, missing) ==
  [timestamp |-> clock, command |-> Words, baseDir |-> Config.baseDir,
   redundant |-> redundant, missing |-> missing]

ReportHeader(redundant, missing) ==
  [timestamp |-> clock, command |-> Words, baseDir |-> Resolved.baseDir,
   redundant |-> redundant, missing |-> missing]

Total(count) ==
  LET upTo[n \in 0..Len(count)] == IF n = 0 THEN 0 ELSE upTo[n - 1] + count[n]
  IN upTo[Len(count)]

Redundant(groups, filter) == Total([i \in 1..Len(groups) |-> redundant_count(groups[i].files, filter)])
Missing(groups, filter) == Total([i \in 1..Len(groups) |-> missing_count(groups[i].files, filter)])

\* write_report up to the first line.
BeginReport ==
  /\ stage = "grouped"
  /\ now' = clock
  /\ todo' = Written(Format, ReportHeader(Redundant(found, Filter), Missing(found, Filter)), found)
  /\ stage' = "writing"
  /\ UNCHANGED <<scenario, clock, changed, found, lines, dedupeVars>>

WriteLine ==
  /\ stage = "writing"
  /\ todo # <<>>
  /\ lines' = Append(lines, Head(todo))
  /\ todo' = Tail(todo)
  /\ UNCHANGED <<scenario, clock, changed, stage, found, now, dedupeVars>>

Complete ==
  /\ stage = "writing"
  /\ todo = <<>>
  /\ stage' = "complete"
  /\ UNCHANGED <<scenario, clock, changed, found, now, todo, lines, dedupeVars>>

\* Killed, or an error of the output, at the end of a line or within one.
Stop ==
  /\ stage \in {"start", "grouped", "writing"}
  /\ \/ UNCHANGED lines
     \/ stage = "writing" /\ todo # <<>> /\ \E cut \in CutLines(Head(todo)) : lines' = Append(lines, cut)
  /\ stage' = "failed"
  /\ UNCHANGED <<scenario, clock, changed, found, now, todo, dedupeVars>>

-----------------------------------------------------------------------------
(* fclones remove.                                                         *)

Ended == stage \in {"complete", "failed"}

\* A read blocks until there are so many lines, or no more.
Available(n) == Ended \/ Len(lines) >= n

Goto(at) == reader' = at

\* open_report looks at the first character.
OpenReport ==
  /\ reader = "open"
  /\ Available(1)
  /\ Goto(IF lines = <<>> \/ (lines # <<>> /\ FormatOf(lines) = "unknown") THEN "failed" ELSE "header")
  /\ UNCHANGED <<scenario, clock, changed, groupVars, header, config, next, read, decided>>

\* get_command_config
Previous(h) ==
  LET c == try_parse_from(h.command) IN IF c = Failed THEN Failed ELSE [c EXCEPT !.baseDir = h.baseDir]

\* Mutated form of Merged: the second process looks at its own options only.
OwnOnly(h) ==
  [rfOver |-> Own.rfOver, roots |-> Own.roots, matchLinks |-> Own.matchLinks,
   noCheckSize |-> Previous(h).transform, modifiedBefore |-> h.timestamp]

\* Mutated form of Merged: sizes are checked whatever the first process did.
CheckingSize(h) ==
  LET c == Previous(h) IN
  [rfOver |-> IF Own.rfOver = NoCount THEN rf_over(c) ELSE Own.rfOver,
   roots |-> IF Own.roots = <<>> /\ c.isolate THEN input_paths(c) ELSE Own.roots,
   matchLinks |-> Own.matchLinks \/ c.matchLinks,
   noCheckSize |-> FALSE,
   modifiedBefore |-> h.timestamp]

\* The options of the second process, completed by those of the first.
Merged(h) ==
  LET c == Previous(h) IN
  [rfOver |-> IF Own.rfOver = NoCount THEN rf_over(c) ELSE Own.rfOver,
   roots |-> IF Own.roots = <<>> /\ c.isolate THEN input_paths(c) ELSE Own.roots,
   matchLinks |-> Own.matchLinks \/ c.matchLinks,
   noCheckSize |-> c.transform,
   modifiedBefore |-> h.timestamp]

\* read_header, and the configuration.  A JSON report is read to its end first.
ReadHeader ==
  /\ reader = "header"
  /\ LET json == FormatOf(lines) = "json"
         h == IF json THEN JsonHeader(lines) ELSE read_header(lines)
         failed == h = Failed \/ (h # Failed /\ Previous(h) = Failed)
     IN /\ json => Ended
        /\ Available(Len(HeaderKinds))
        /\ header' = h
        /\ config' = IF failed THEN Nothing ELSE Merged(h)
        /\ next' = IF json THEN Len(HeaderKinds) + 1 ELSE Len(HeaderKinds)
        /\ Goto(IF failed THEN "failed" ELSE "groups")
  /\ UNCHANGED <<scenario, clock, changed, groupVars, read, decided>>

\* was_modified is FALSE for all of the files
Unmodified(files) == \A p \in ToSet(files) : changed[p] <= config.modifiedBefore

\* fetch_files_metadata and partition with the default priority and no patterns.
\* Nothing to drop stands for a group that is rejected.
Decision(g) ==
  LET files == Filtered(g.files, {p \in Files : config.noCheckSize \/ Length[p] = g.len})
      groups == FileSubGroups(files, Len(config.roots),
                              [p \in ToSet(files) |-> RootOf(config.roots, p)],
                              [p \in ToSet(files) |-> IF config.matchLinks THEN p ELSE Inode[p]])
  IN IF (\A p \in ToSet(g.files) : Exists(p)) /\ Unmodified(files)
       THEN KeepAtLeast(Max({1, config.rfOver}), <<>>, groups)
       ELSE [keep |-> g.files, drop |-> <<>>]

LinesLeft == SubSeq(lines, next + 1, Len(lines))

\* One group of the report.  An error, or the end, is the end of the list.
ReadGroup ==
  /\ reader = "groups"
  /\ Available(next + 1)
  /\ LinesLeft # <<>> /\ LinesLeft[1].kind = "group" => Available(next + 1 + LinesLeft[1].field.count)
  /\ LET g == IF FormatOf(lines) = "json" THEN JsonGroup(LinesLeft) ELSE next_group(LinesLeft)
     IN IF g \in {Failed, NoGroup}
          THEN /\ Goto(IF g = Failed THEN "failed" ELSE "done")
               /\ UNCHANGED <<next, read, decided>>
          ELSE /\ next' = next + 1 + Len(g.files)
               /\ read' = Append(read, g)
               /\ decided' = Append(decided, Decision(g))
               /\ UNCHANGED reader
  /\ UNCHANGED <<scenario, clock, changed, groupVars, header, config>>

\* Both processes have ended; other programs may go on.
Over == Ended /\ reader \in {"done", "failed"} /\ UNCHANGED vars

Pipeline ==
  \/ Refuse \/ Group \/ BeginReport \/ WriteLine \/ Complete
  \/ OpenReport \/ ReadHeader \/ ReadGroup

Next ==
  \/ Tick
  \/ \E p \in Files : Modify(p)
  \/ Pipeline
  \/ Stop
  \/ Over

Spec == Init /\ [][Next]_vars

-----------------------------------------------------------------------------
(* Properties.                                                             *)

\* What is written and not cut off comes back as it was: the groups read are the
\* first ones of those found, path by path.  Only the last path of a report that
\* was cut off may be another one, the path of a name cut short.
ReadsWhatWasFound ==
  \A i \in 1..Len(read) :
    \/ read[i] = found[i]
    \/ /\ stage = "failed" /\ next = Len(lines) /\ i = Len(read)
       /\ read[i].len = found[i].len
       /\ Front(read[i].files) = Front(found[i].files)
       /\ IsPrefix(TextOf(Last(read[i].files)), TextOf(Last(found[i].files)))

\* The second process works with the configuration of the first, whatever its
\* words and its directory, and has the time before its report.
SameConfig ==
  config # Nothing => Previous(header) = Resolved /\ header.timestamp <= now

\* The replicas of a class of files, as the first process counts them.
Replicas(files) == subgroup_count(files, Filter)

\* What `--rf-over` of the second process is, "assumed to be the same as the
\* `--rf-over` value in the earlier `fclones group` run" if it is not given.
WantedRf == IF Own.rfOver # NoCount THEN Own.rfOver ELSE RfOverGiven(Config)

\* The second process leaves the number of replicas the user asked for, counted
\* as the first process counts them: the same roots and the same links.
ReplicasLeft ==
  \A i \in 1..Len(decided) :
    decided[i].drop # <<>> =>
      Replicas(decided[i].keep) >= Min({WantedRf, Replicas(found[i].files)})

\* A file that was modified after the first process took its time keeps all its
\* group from being touched, however the time was written.
ModifiedLaterSkipped ==
  \A i \in 1..Len(decided) :
    decided[i].drop # <<>> =>
      \A p \in ToSet(decided[i].keep \o decided[i].drop) : changed[p] <= now

\* A complete report is read to its end.  If nothing changes and the search was
\* for redundant files, the second process drops as many as the first announced.
\* Not so for links, of which the announcement knows nothing without isolated
\* roots, and for a --rf-over of its own.
RedundantDropped ==
  stage = "complete" /\ reader \in {"done", "failed"} /\ Format \in {"default", "json"} =>
    /\ reader = "done"
    /\ ~Filter.under /\ (\A p \in Files : changed[p] = 0) /\ Own.rfOver = NoCount =>
         Len(FlattenSeq([i \in 1..Len(decided) |-> decided[i].drop])) = header.redundant

\* Only files that were found to be identical to a file that is kept are dropped.
\* Not so when the report was cut off within a name that starts with another one.
DroppedWereFound ==
  \A i \in 1..Len(decided) : ToSet(decided[i].drop) \subseteq ToSet(found[i].files)

=============================================================================
