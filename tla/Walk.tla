-------------------------------- MODULE Walk ---------------------------------
(***************************************************************************)
(* The parallel directory walk of fclones: `Walk::run` and the visit_      *)
(* functions of src/fclones/src/walk.rs.                                   *)
(*                                                                         *)
(* Every entry is visited by a task of a rayon scope; a directory spawns a *)
(* task for each of its entries, a link goes on to its target.  Tasks run  *)
(* in any order on any worker.  What they share is the set of visited      *)
(* paths, used when links are followed, and the consumer of the files.     *)
(*                                                                         *)
(* The tree does not change during the walk.  What the ignore files match  *)
(* is given by sets of paths; see Selector.tla for the other patterns.     *)
(***************************************************************************)
EXTENDS Selector, Bags

CONSTANTS
  Paths,        \* the entries of the file system
  PathOf,       \* PathOf[p]: the absolute path of p, see PathText.tla
  Kind,         \* Kind[p]: "file", "dir" or "link"
  Target,       \* Target[l]: what absolute() makes of the path in link l, or Dangling
  Dangling,
  Dev,          \* Dev[p]: the device stat(2) gives for p
  IgnoredBy,    \* IgnoredBy[d]: what the ignore file in d matches, anywhere
  Scenarios     \* a sequence of records: what is walked, and how

VARIABLE scenario  \* index of the scenario of this behavior

Scenario == Scenarios[scenario]
Entries == Scenario.entries       \* Entries[d]: the entries of directory d
Roots == Scenario.roots           \* the input paths, a sequence
CanFail == Scenario.canFail       \* the paths that may be unreadable

\* struct Walk
Depth == Scenario.depth
Hidden == Scenario.hidden
FollowLinks == Scenario.followLinks
ReportLinks == Scenario.reportLinks
NoIgnore == Scenario.noIgnore
OneFs == Scenario.oneFs

\* What the PathSelector accepts, as directories and as files
DirsSelected == [w \in DOMAIN Scenarios |->
                   {p \in Paths : matches_dir(Scenarios[w].selector, PathOf[p])}]
FilesSelected == [w \in DOMAIN Scenarios |->
                    {p \in Paths : matches_full_path(Scenarios[w].selector, PathOf[p])}]
DirSelected == DirsSelected[scenario]
FileSelected == FilesSelected[scenario]

HiddenNames == {p \in Paths : Head(Last(PathOf[p])) = "."}

Dirs == {p \in Paths : Kind[p] = "dir"}
Links == {p \in Paths : Kind[p] = "link"}

ASSUME TreeAssumption ==
  /\ IsFiniteSet(Paths)
  /\ \A p \in Paths : PathOf[p] # <<>> /\ \A i \in DOMAIN PathOf[p] : PathOf[p][i] # <<>>
  /\ Kind \in [Paths -> {"file", "dir", "link"}]
  /\ Target \in [Links -> Paths \cup {Dangling}]
  /\ IgnoredBy \in [Dirs -> SUBSET Paths]
  /\ DOMAIN Scenarios = 1..Len(Scenarios)
  /\ \A i \in 1..Len(Scenarios) :
       LET w == Scenarios[i]
       IN w.entries \in [Dirs -> SUBSET Paths] /\ w.roots \in Seq(Paths) /\ w.depth \in Nat

VARIABLES
  tasks,        \* bag of tasks [at, path, dev, level, ignore] not run yet
  visited,      \* WalkState::visited
  found,        \* bag of the paths given to the consumer
  unread        \* history: paths a stat, read_dir or read_link failed for

vars == <<scenario, tasks, visited, found, unread>>

Task(at, p, dev, level, ignore) ==
  [at |-> at, path |-> p, dev |-> dev, level |-> level, ignore |-> ignore]

RootTask(p) == Task("path", p, Dev[p], 0, {})

RootTasks == {RootTask(p) : p \in {q \in ToSet(Roots) : ~(Kind[q] = "dir" /\ Depth = 0)}}

Init ==
  /\ scenario \in 1..Len(Scenarios)
  /\ tasks = [t \in RootTasks |-> Cardinality({i \in 1..Len(Roots) : Roots[i] = t.path})]
  /\ visited = {}
  /\ found = EmptyBag
  /\ unread = {}

-----------------------------------------------------------------------------
(* Where a task goes.                                                      *)

\* The kind of what a link leads to after any number of links, or "none".
LeadsTo(l) ==
  LET next(p) == IF p \in Links THEN Target[p] ELSE p
      hop[n \in 0..Cardinality(Paths)] == IF n = 0 THEN Target[l] ELSE next(hop[n - 1])
      end == hop[Cardinality(Paths)]
  IN IF Dangling \in {Target[l], end} \/ end \in Links THEN "none" ELSE Kind[end]

Ignored(t) == ~NoIgnore /\ \E d \in t.ignore : t.path \in IgnoredBy[d]

\* The tests at the head of visit_entry, but for the visited set.
Shown(t) == (Hidden \/ t.path \notin HiddenNames) /\ ~Ignored(t)

\* visit_dir: whether the entries of the directory are read.
Descends(t, selected) ==
  /\ t.level <= Depth
  /\ t.path \in selected
  /\ OneFs => Dev[t.path] = t.dev

\* visit_link: whether the link is replaced by its target.
Follows(t) ==
  /\ FollowLinks
  /\ LeadsTo(t.path) # "none"
  /\ ~(ReportLinks /\ LeadsTo(t.path) = "file")
  /\ OneFs => Dev[Target[t.path]] = t.dev

\* The tasks a task gives rise to, with a set of selected directories: visit_path
\* goes on as visit_entry, a directory spawns its entries, a link continues with
\* its target.
Spawned(t, selected) ==
  CASE t.at = "path" ->
         IF t.path \in selected THEN {[t EXCEPT !.at = "entry"]} ELSE {}
    [] t.at = "entry" /\ Kind[t.path] = "dir" /\ Descends(t, selected) ->
         {Task("entry", p, t.dev, t.level + 1, t.ignore \cup {t.path}) : p \in Entries[t.path]}
    [] t.at = "entry" /\ Kind[t.path] = "link" /\ Follows(t) ->
         {Task("path", Target[t.path], t.dev, t.level, t.ignore)}
    [] OTHER -> {}

\* The files a task gives to the consumer, of a set of selected ones.
Emitted(t, selected) ==
  IF /\ t.at = "entry"
     /\ \/ Kind[t.path] = "file"
        \/ Kind[t.path] = "link" /\ ReportLinks /\ LeadsTo(t.path) = "file"
     /\ t.path \in selected
  THEN {t.path} ELSE {}

-----------------------------------------------------------------------------
(* Steps.                                                                  *)

\* Replace a task by others.
Finish(t, spawned) == tasks' = (tasks (-) SetToBag({t})) (+) SetToBag(spawned)

\* visit_path: a root or the target of a link.
VisitPath(t) ==
  /\ t.at = "path"
  /\ Finish(t, Spawned(t, DirSelected))
  /\ UNCHANGED <<scenario, visited, found, unread>>

\* Mutated form of Mark: the test and the insertion are lost.
MarkNothing(p) == UNCHANGED visited

\* Mutated form of Mark: a link takes the place of its target.
MarkTarget(p) == visited' = visited \cup (IF p \in Links THEN {p, Target[p]} ELSE {p})

\* visited.insert, when links are followed.
Mark(p) == visited' = IF FollowLinks THEN visited \cup {p} ELSE visited

AlreadyVisited(t) == FollowLinks /\ t.path \in visited

\* visit_entry returns early: the entry is hidden, or was visited before.
SkipEntry(t) ==
  /\ t.at = "entry"
  /\ \/ ~Hidden /\ t.path \in HiddenNames
     \/ AlreadyVisited(t)
  /\ Finish(t, {})
  /\ UNCHANGED <<scenario, visited, found, unread>>

\* Only now the entry is marked, and only then tested against ignore files.
VisitEntry(t) ==
  /\ t.at = "entry"
  /\ Hidden \/ t.path \notin HiddenNames
  /\ ~AlreadyVisited(t)
  /\ Mark(t.path)
  /\ IF Shown(t)
       THEN Finish(t, Spawned(t, DirSelected)) /\ found' = found (+) SetToBag(Emitted(t, FileSelected))
       ELSE Finish(t, {}) /\ UNCHANGED found
  /\ UNCHANGED <<scenario, unread>>

\* Whether visit_entry makes a call that may fail.
OpensEntry(t) ==
  \/ Kind[t.path] = "dir" /\ Descends(t, DirSelected)
  \/ Kind[t.path] = "link" /\ (FollowLinks \/ ReportLinks)

\* Nothing comes of the task.
GiveUp(t) == Finish(t, {})

\* A stat, a read_dir or a read_link fails: a warning, and nothing below.
Unreadable(t) ==
  /\ t.path \in CanFail
  /\ t.at = "entry" => Shown(t) /\ ~AlreadyVisited(t) /\ OpensEntry(t)
  /\ IF t.at = "entry" THEN Mark(t.path) ELSE UNCHANGED visited
  /\ unread' = unread \cup {t.path}
  /\ GiveUp(t)
  /\ UNCHANGED <<scenario, found>>

\* The scope ends when no task is left.
Done == tasks = EmptyBag

Next ==
  \/ \E t \in BagToSet(tasks) :
       VisitPath(t) \/ SkipEntry(t) \/ VisitEntry(t) \/ Unreadable(t)
  \/ Done /\ UNCHANGED vars

Spec == Init /\ [][Next]_vars

-----------------------------------------------------------------------------
(* Properties.                                                             *)

Tasks == [at : {"path", "entry"}, path : Paths, dev : {Dev[p] : p \in Paths},
          level : 0..(Depth + 1), ignore : SUBSET Dirs]

TypeOK ==
  /\ BagToSet(tasks) \subseteq Tasks
  /\ visited \subseteq Paths
  /\ BagToSet(found) \subseteq Paths
  /\ unread \subseteq CanFail

\* What the options say: a relative pattern starts in the base directory.
Meant(sel, p) ==
  IF IsAbsolute(p) THEN p ELSE [p EXCEPT !.glob = append_sep(TextOf(sel.baseDir)) \o @]

Matched(sel, patterns, text) == \E p \in patterns : MatchesText(Meant(sel, p), text)

FilesMeant == [w \in DOMAIN Scenarios |->
  LET sel == Scenarios[w].selector
  IN {p \in Paths :
        /\ sel.names = {} \/ \E n \in sel.names : MatchesText(n, NameOf(PathOf[p]))
        /\ sel.paths = {} \/ Matched(sel, sel.paths, TextOf(PathOf[p]))
        /\ ~Matched(sel, sel.excluded, TextOf(PathOf[p]))}]

\* Where an excluded pattern matches the whole path of a directory, what is below
\* is not wanted.  That an included pattern cannot match below is no reason.
DirsMeant == [w \in DOMAIN Scenarios |->
  LET sel == Scenarios[w].selector
  IN {p \in Paths : ~Matched(sel, sel.excluded, TextOf(PathOf[p]))
                     /\ ~Matched(sel, sel.excluded, append_sep(TextOf(PathOf[p])))}]

\* A task has come through one directory for each level, and through each link at
\* most once when links are followed.
LongestRoute == Depth + 2 + 2 * Cardinality(Links)

\* The tasks there would be without a visited set: every route from an input
\* path over directories and links that avoids some paths.
More(T, avoided) ==
  T \cup UNION {Spawned(t, DirsMeant[scenario]) :
                  t \in {u \in T : u.path \notin avoided /\ (u.at = "path" \/ Shown(u))}}

Routes(avoided) ==
  LET reach[n \in 0..LongestRoute] == IF n = 0 THEN RootTasks ELSE More(reach[n - 1], avoided)
  IN reach[LongestRoute]

WantedBut(avoided) ==
  UNION {Emitted(t, FilesMeant[scenario]) :
           t \in {u \in Routes(avoided) : Shown(u) /\ u.path \notin avoided}}

Wanted == WantedBut({})

\* Whatever order the tasks run in, the walk finds the files that some route
\* leads to, but for what only routes over unreadable paths lead to, and no
\* others: the visited set, filled in by whoever comes first, hides nothing that
\* another route would have shown, and no directory is left out that may hold a
\* file the patterns match.
FindsAllRoutes ==
  Done => /\ BagToSet(found) \subseteq Wanted
          /\ (IF unread = {} THEN Wanted ELSE WantedBut(unread)) \subseteq BagToSet(found)

\* Over cycles of links and roots inside of roots, a file is found once when
\* links are followed; deduplicate has to remove what is left otherwise.
FoundOnce == FollowLinks => \A p \in BagToSet(found) : found[p] = 1

\* Links that lead back up are cut: no directory is entered twice, so that the
\* walk ends although the depth is not limited by default.
CyclesCut == FollowLinks => \A t \in BagToSet(tasks) : t.level <= Cardinality(Dirs)

\* "1 descends into directories specified explicitly as input paths, but does
\* not descend into subdirectories": files are at most Depth levels down.
WithinDepth ==
  LET within[n \in 0..Depth] ==
        IF n = 0 THEN ToSet(Roots)
        ELSE within[n - 1] \cup UNION {Entries[d] : d \in within[n - 1] \cap Dirs}
  IN BagToSet(found) \subseteq within[Depth]

=============================================================================
