----------------------------- MODULE WalkProofs ------------------------------
(***************************************************************************)
(* The walk of any tree, with links that lead anywhere: tasks keep their   *)
(* types, the visited set, once links are followed, cuts every cycle and   *)
(* lets a file be found once, and the files found are those on the routes  *)
(* from the input paths, whatever the order of the tasks.                  *)
(***************************************************************************)
EXTENDS Walk, FiniteSetTheorems, WellFoundedInduction, TLAPS

(***************************************************************************)
(* Bags of tasks and of files.                                             *)
(***************************************************************************)

LEMMA BagSum ==
  ASSUME NEW B, NEW C
  PROVE  /\ BagToSet(B (+) C) = BagToSet(B) \cup BagToSet(C)
         /\ \A e \in BagToSet(B) \ BagToSet(C) : (B (+) C)[e] = B[e] + 0
         /\ \A e \in BagToSet(C) \ BagToSet(B) : (B (+) C)[e] = 0 + C[e]
BY DEF BagToSet, (+)

LEMMA BagRest ==
  ASSUME NEW B, NEW C
  PROVE  BagToSet(B (-) C) \subseteq BagToSet(B)
BY DEF BagToSet, (-)

(***************************************************************************)
(* Types.                                                                  *)
(***************************************************************************)

Typed == scenario \in 1..Len(Scenarios) /\ TypeOK

LEMMA ScenarioTyped ==
  ASSUME scenario \in 1..Len(Scenarios)
  PROVE  /\ Entries \in [Dirs -> SUBSET Paths]
         /\ ToSet(Roots) \subseteq Paths
         /\ Depth \in Nat
BY TreeAssumption DEF Scenario, Entries, Roots, Depth, ToSet

LEMMA FinishTasks ==
  ASSUME NEW t, NEW S, Finish(t, S)
  PROVE  BagToSet(tasks') \subseteq BagToSet(tasks) \cup S
<1>1. BagToSet(SetToBag(S)) = S
  BY DEF BagToSet, SetToBag
<1> QED
  BY <1>1, BagSum, BagRest DEF Finish

\* A link that is followed has a target.
LEMMA FollowedTarget ==
  ASSUME NEW t \in Tasks, Kind[t.path] = "link", Follows(t)
  PROVE  t.path \in Links /\ Target[t.path] \in Paths
<1>1. t.path \in Links
  BY DEF Tasks, Links
<1>2. Target[t.path] # Dangling
  BY DEF Follows, LeadsTo
<1> QED
  BY <1>1, <1>2, TreeAssumption

LEMMA SpawnedTyped ==
  ASSUME Typed, NEW t \in Tasks, NEW selected
  PROVE  Spawned(t, selected) \subseteq Tasks
<1>1. Depth \in Nat /\ Entries \in [Dirs -> SUBSET Paths]
  BY ScenarioTyped DEF Typed
<1>2. CASE t.at = "path"
  BY <1>2 DEF Spawned, Tasks
<1>3. CASE t.at = "entry" /\ Kind[t.path] = "dir" /\ Descends(t, selected)
  <2>1. t.path \in Dirs /\ t.level + 1 \in 0..(Depth + 1)
    BY <1>1, <1>3 DEF Tasks, Dirs, Descends
  <2>2. \A p \in Entries[t.path] :
          Task("entry", p, t.dev, t.level + 1, t.ignore \cup {t.path}) \in Tasks
    BY <1>1, <2>1 DEF Tasks, Task
  <2> QED
    BY <1>3, <2>2 DEF Spawned
<1>4. CASE t.at = "entry" /\ Kind[t.path] = "link" /\ Follows(t)
  BY <1>4, FollowedTarget DEF Spawned, Tasks, Task
<1> QED
  BY <1>2, <1>3, <1>4 DEF Spawned

LEMMA InitTyped == Init => Typed
<1> SUFFICES ASSUME Init PROVE Typed
  OBVIOUS
<1>1. Depth \in Nat /\ ToSet(Roots) \subseteq Paths
  BY ScenarioTyped DEF Init
<1>2. RootTasks \subseteq Tasks
  BY <1>1 DEF RootTasks, RootTask, Task, Tasks
<1>3. BagToSet(tasks) = RootTasks /\ BagToSet(found) = {}
  BY DEF Init, BagToSet, EmptyBag, SetToBag
<1> QED
  BY <1>2, <1>3 DEF Init, Typed, TypeOK

\* What a task finds is itself.
LEMMA EmitsItself ==
  ASSUME NEW t, NEW selected
  PROVE  Emitted(t, selected) \subseteq {t.path}
BY DEF Emitted

\* The entry of a task is visited, and was not before.
VisitsFirst(t) == ~AlreadyVisited(t) /\ Shown(t) /\ Mark(t.path)

\* A task makes place for others, and may find its file.
Takes(t, S) ==
  /\ Finish(t, S)
  /\ visited \subseteq visited'
  /\ t.at = "entry" /\ S # {} => VisitsFirst(t)
  /\ \/ UNCHANGED found
     \/ VisitsFirst(t) /\ found' = found (+) SetToBag(Emitted(t, FileSelected))

\* What a step does, whichever it is.
LEMMA Steps ==
  ASSUME Typed, [Next]_vars
  PROVE  /\ UNCHANGED scenario
         /\ visited' \subseteq Paths /\ unread' \subseteq CanFail
         /\ \/ UNCHANGED <<tasks, visited, found>>
            \/ \E t \in BagToSet(tasks) : \E S \in {{}, Spawned(t, DirSelected)} : Takes(t, S)
<1>1. CASE UNCHANGED vars
  BY <1>1 DEF vars, Typed, TypeOK
<1>2. ASSUME NEW t \in BagToSet(tasks), VisitPath(t) \/ SkipEntry(t) \/ VisitEntry(t) \/ Unreadable(t)
      PROVE  /\ UNCHANGED scenario
             /\ visited' \in {visited, visited \cup {t.path}} /\ unread' \subseteq unread \cup CanFail
             /\ \E S \in {{}, Spawned(t, DirSelected)} : Takes(t, S)
  <2> USE DEF Takes
  <2>1. CASE VisitPath(t)
    BY <2>1 DEF VisitPath
  <2>2. CASE SkipEntry(t)
    BY <2>2 DEF SkipEntry
  <2>3. CASE VisitEntry(t)
    BY <2>3 DEF VisitEntry, VisitsFirst, Mark
  <2>4. CASE Unreadable(t)
    BY <2>4 DEF Unreadable, GiveUp, Mark
  <2> QED
    BY <1>2, <2>1, <2>2, <2>3, <2>4
<1>3. \A t \in BagToSet(tasks) : t.path \in Paths
  BY DEF Typed, TypeOK, Tasks
<1> QED
  BY <1>1, <1>2, <1>3 DEF Next, Typed, TypeOK

LEMMA NextTyped == Typed /\ [Next]_vars => Typed'
<1> SUFFICES ASSUME Typed, [Next]_vars PROVE Typed'
  OBVIOUS
<1>1. /\ UNCHANGED scenario
      /\ visited' \subseteq Paths /\ unread' \subseteq CanFail
  BY Steps
<1>2. Tasks' = Tasks /\ CanFail' = CanFail
  BY <1>1 DEF Tasks, CanFail, Depth, Scenario
<1>3. ASSUME NEW t \in BagToSet(tasks), NEW S \in {{}, Spawned(t, DirSelected)}, Takes(t, S)
      PROVE  BagToSet(tasks') \subseteq Tasks /\ BagToSet(found') \subseteq Paths
  <2>1. BagToSet(tasks) \subseteq Tasks /\ S \subseteq Tasks /\ t.path \in Paths
    BY SpawnedTyped DEF Typed, TypeOK, Tasks
  <2>2. BagToSet(tasks') \subseteq Tasks
    BY <1>3, <2>1, FinishTasks DEF Takes
  <2>3. BagToSet(SetToBag(Emitted(t, FileSelected))) \subseteq Paths
    BY <2>1, EmitsItself DEF BagToSet, SetToBag
  <2>4. BagToSet(found') \subseteq Paths
    BY <1>3, <2>3, BagSum DEF Takes, Typed, TypeOK
  <2> QED
    BY <2>2, <2>4
<1>4. BagToSet(tasks') \subseteq Tasks /\ BagToSet(found') \subseteq Paths
  BY <1>3, Steps DEF Typed, TypeOK
<1> QED
  BY <1>1, <1>2, <1>4 DEF Typed, TypeOK

\* Tasks are of entries of the tree, no more than one level below the depth asked
\* for, whatever links lead to (walk.rs:182-365).
THEOREM TypeCorrect == Spec => []TypeOK
<1>1. Typed => TypeOK
  BY DEF Typed
<1> QED
  BY <1>1, InitTyped, NextTyped, PTL DEF Spec

-----------------------------------------------------------------------------
(***************************************************************************)
(* What the visited set is for.                                            *)
(***************************************************************************)

\* A file is found when its path is marked.
FoundMarked ==
  FollowLinks => BagToSet(found) \subseteq visited /\ \A p \in BagToSet(found) : found[p] = 1

LEMMA NextFoundMarked == Typed /\ FoundMarked /\ [Next]_vars => FoundMarked'
<1> SUFFICES ASSUME Typed, FoundMarked, [Next]_vars, FollowLinks
             PROVE  BagToSet(found') \subseteq visited' /\ \A p \in BagToSet(found') : found'[p] = 1
  BY Steps DEF FoundMarked, FollowLinks, Scenario
<1>1. CASE UNCHANGED <<visited, found>>
  BY <1>1 DEF FoundMarked
<1>2. ASSUME NEW t \in BagToSet(tasks), NEW S, Takes(t, S)
      PROVE  BagToSet(found') \subseteq visited' /\ \A p \in BagToSet(found') : found'[p] = 1
  <2>1. CASE UNCHANGED found
    BY <1>2, <2>1 DEF FoundMarked, Takes
  <2>2. CASE VisitsFirst(t) /\ found' = found (+) SetToBag(Emitted(t, FileSelected))
    <3> DEFINE E == SetToBag(Emitted(t, FileSelected))
    <3>1. BagToSet(E) \subseteq {t.path} /\ \A p \in BagToSet(E) : E[p] = 1
      BY EmitsItself DEF BagToSet, SetToBag
    <3>2. t.path \notin BagToSet(found) /\ visited' = visited \cup {t.path}
      BY <2>2 DEF VisitsFirst, AlreadyVisited, Mark, FoundMarked
    <3>3. found' = found (+) E
      BY <2>2
    <3> HIDE DEF E
    <3>4. /\ BagToSet(found') = BagToSet(found) \cup BagToSet(E)
          /\ \A p \in BagToSet(found) \ BagToSet(E) : found'[p] = found[p] + 0
          /\ \A p \in BagToSet(E) \ BagToSet(found) : found'[p] = 0 + E[p]
      BY <3>3, BagSum
    <3> QED
      BY <3>1, <3>2, <3>4 DEF FoundMarked
  <2> QED
    BY <1>2, <2>1, <2>2 DEF Takes
<1> QED
  BY <1>1, <1>2, Steps

\* Whatever the order of the tasks and however many links or input paths lead to a
\* file, it is found once when links are followed (walk.rs:287-291).
THEOREM FindsOnce == Spec => []FoundOnce
<1>1. Init => FoundMarked
  BY DEF Init, FoundMarked, EmptyBag, SetToBag, BagToSet
<1>2. FoundMarked => FoundOnce
  BY DEF FoundMarked, FoundOnce
<1> QED
  BY <1>1, <1>2, InitTyped, NextTyped, NextFoundMarked, PTL DEF Spec

\* The directories that a task has come through were all visited, each once.
CameThrough(t) ==
  /\ t.ignore \subseteq visited
  /\ t.level = Cardinality(t.ignore)

RoutesSimple == FollowLinks => \A t \in BagToSet(tasks) : CameThrough(t)

LEMMA SpawnedSimple ==
  ASSUME Typed, FollowLinks, NEW t \in Tasks, CameThrough(t), visited \subseteq visited',
         t.at = "entry" => VisitsFirst(t), NEW u \in Spawned(t, DirSelected)
  PROVE  u.ignore \subseteq visited' /\ u.level = Cardinality(u.ignore)
<1>1. IsFiniteSet(t.ignore)
  BY TreeAssumption, FS_Subset DEF Tasks, Dirs
<1>2. CASE t.at = "entry" /\ Kind[t.path] = "dir" /\ Descends(t, DirSelected)
  <2>1. u.level = t.level + 1 /\ u.ignore = t.ignore \cup {t.path}
    BY <1>2 DEF Spawned, Task
  <2>2. t.path \notin visited /\ visited' = visited \cup {t.path}
    BY <1>2 DEF VisitsFirst, AlreadyVisited, Mark
  <2>3. t.path \notin t.ignore
    BY <2>2 DEF CameThrough
  <2>4. Cardinality(t.ignore \cup {t.path}) = Cardinality(t.ignore) + 1
    BY <1>1, <2>3, FS_AddElement
  <2> QED
    BY <2>1, <2>2, <2>4 DEF CameThrough
<1>3. CASE ~(t.at = "entry" /\ Kind[t.path] = "dir" /\ Descends(t, DirSelected))
  <2>1. u.level = t.level /\ u.ignore = t.ignore
    BY <1>3 DEF Spawned, Task, Tasks
  <2> QED
    BY <2>1 DEF CameThrough
<1> QED
  BY <1>2, <1>3

LEMMA NextSimple == Typed /\ RoutesSimple /\ [Next]_vars => RoutesSimple'
<1> SUFFICES ASSUME Typed, RoutesSimple, [Next]_vars, FollowLinks, NEW u \in BagToSet(tasks')
             PROVE  CameThrough(u)'
  BY Steps DEF RoutesSimple, FollowLinks, Scenario
<1>1. CASE UNCHANGED <<tasks, visited>>
  BY <1>1 DEF RoutesSimple, CameThrough
<1>2. ASSUME NEW t \in BagToSet(tasks), NEW S \in {{}, Spawned(t, DirSelected)}, Takes(t, S)
      PROVE  CameThrough(u)'
  <2>1. u \in BagToSet(tasks) \/ u \in S
    BY <1>2, FinishTasks DEF Takes
  <2>2. CASE u \in BagToSet(tasks)
    BY <1>2, <2>2 DEF Takes, RoutesSimple, CameThrough
  <2>3. CASE u \in S
    <3>1. t \in Tasks /\ CameThrough(t) /\ u \in Spawned(t, DirSelected)
      BY <2>3 DEF Typed, TypeOK, RoutesSimple
    <3>2. visited \subseteq visited' /\ (t.at = "entry" => VisitsFirst(t))
      BY <1>2, <2>3 DEF Takes
    <3> QED
      BY <3>1, <3>2, SpawnedSimple DEF CameThrough
  <2> QED
    BY <2>1, <2>2, <2>3
<1> QED
  BY <1>1, <1>2, Steps

LEMMA InitSimple == Init => RoutesSimple
<1> SUFFICES ASSUME Init, NEW t \in BagToSet(tasks) PROVE CameThrough(t)
  BY DEF RoutesSimple
<1>1. t \in RootTasks
  BY DEF Init, BagToSet
<1>2. t.level = 0 /\ t.ignore = {}
  BY <1>1 DEF RootTasks, RootTask, Task
<1> QED
  BY <1>2, FS_EmptySet DEF CameThrough

\* Links to directories above, and input paths within each other, make no walk
\* endless: on its way to a task it enters each directory once (walk.rs:287-291).
THEOREM CutsCycles == Spec => []CyclesCut
<1>1. Typed /\ RoutesSimple => CyclesCut
  <2> SUFFICES ASSUME Typed, RoutesSimple, FollowLinks, NEW t \in BagToSet(tasks)
               PROVE  t.level <= Cardinality(Dirs)
    BY DEF CyclesCut
  <2>1. t.ignore \subseteq Dirs /\ t.level = Cardinality(t.ignore)
    BY DEF Typed, TypeOK, Tasks, RoutesSimple, CameThrough
  <2>2. IsFiniteSet(Dirs)
    BY TreeAssumption, FS_Subset DEF Dirs
  <2> QED
    BY <2>1, <2>2, FS_Subset
<1> QED
  BY <1>1, InitTyped, InitSimple, NextTyped, NextSimple, PTL DEF Spec

-----------------------------------------------------------------------------
(***************************************************************************)
(* Numbers.                                                                *)
(***************************************************************************)

\* Induction on numbers: a set without a least number is empty.
LEMMA LeastNumber ==
  ASSUME NEW S, S \subseteq Nat, S # {}
  PROVE  \E m \in S : \A k \in S : m <= k
<1>1. IsWellFoundedOn({ss \in Nat \X Nat : ss[1] < ss[2]}, Nat)
  BY NatLessThanWellFounded DEF OpToRel
<1>2. PICK m \in S : \A k \in S : ~(<<k, m>> \in {ss \in Nat \X Nat : ss[1] < ss[2]})
  BY <1>1, WFMin
<1>3. \A k \in S : ~(k < m)
  BY <1>2
<1> QED BY <1>3

\* The values that the steps 1 to n lead to, from b on.
Run(X, b, n, step, f) ==
  f \in [0..n -> X] /\ f[0] = b /\ \A k \in 1..n : f[k] = step[k][f[k - 1]]

LEMMA RunExists ==
  ASSUME NEW X, NEW b \in X, NEW n \in Nat, NEW step \in [1..n -> [X -> X]]
  PROVE  \E f : Run(X, b, n, step, f)
<1> USE DEF Run
<1> DEFINE Fits(f, m) == f \in [0..m -> X] /\ f[0] = b /\ \A k \in 1..m : f[k] = step[k][f[k - 1]]
           Bad == {m \in 0..n : ~\E f : Fits(f, m)}
<1> SUFFICES ASSUME Bad # {} PROVE FALSE
  <2>1. n \notin Bad => \E f : Fits(f, n)
    OBVIOUS
  <2> QED BY <2>1
<1>1. PICK m \in Bad : \A k \in Bad : m <= k
  <2> HIDE DEF Bad
  <2>1. Bad \subseteq Nat
    BY DEF Bad
  <2> QED BY <2>1, LeastNumber
<1>2. m # 0
  <2>1. Fits([k \in 0..0 |-> b], 0)
    OBVIOUS
  <2>2. 0 \notin Bad
    <3> HIDE DEF Fits
    <3> QED BY <2>1
  <2> HIDE DEF Bad
  <2> QED BY <1>1, <2>2
<1>3. PICK f : Fits(f, m - 1)
  BY <1>1, <1>2
<1> DEFINE longer == [k \in 0..m |-> IF k = m THEN step[m][f[m - 1]] ELSE f[k]]
<1>4. m \in 1..n
  BY <1>1, <1>2
<1>5. f[m - 1] \in X /\ step[m] \in [X -> X]
  BY <1>3, <1>4
<1>6. longer \in [0..m -> X] /\ longer[0] = b
  BY <1>3, <1>4, <1>5
<1>7. ASSUME NEW k \in 1..m PROVE longer[k] = step[k][longer[k - 1]]
  <2>1. longer[k - 1] = f[k - 1]
    BY <1>4
  <2>2. CASE k = m
    BY <2>1, <2>2
  <2>3. CASE k # m
    BY <1>3, <1>4, <2>1, <2>3
  <2> QED BY <2>2, <2>3
<1> QED
  <2>1. Fits(longer, m)
    BY <1>6, <1>7
  <2> HIDE DEF longer
  <2> QED BY <1>1, <2>1

\* What holds at 0 and at a number if below it holds up to n.
LEMMA Upward ==
  ASSUME NEW n \in Nat, NEW S, 0 \in S, \A k \in 1..n : k - 1 \in S => k \in S
  PROVE  \A k \in 0..n : k \in S
<1> DEFINE Bad == {k \in 0..n : k \notin S}
<1> SUFFICES ASSUME Bad # {} PROVE FALSE
  OBVIOUS
<1>1. Bad \subseteq Nat
  OBVIOUS
<1>2. PICK m \in Bad : \A k \in Bad : m <= k
  <2> HIDE DEF Bad
  <2> QED BY <1>1, LeastNumber
<1>3. m \in 1..n
  BY <1>2
<1>4. m - 1 \in 0..n /\ ~(m <= m - 1)
  BY <1>3
<1>5. m - 1 \in S
  BY <1>2, <1>4
<1> QED BY <1>2, <1>3, <1>5

-----------------------------------------------------------------------------
(***************************************************************************)
(* Every file the walk finds is on a route from an input path.             *)
(***************************************************************************)

\* The paths of tasks that do not come from a directory.
Elsewhere == ToSet(Roots) \cup {Target[l] : l \in Links}

Started(t) ==
  \/ t.path \in Elsewhere
  \/ t.at = "entry" /\ \E e \in t.ignore : t.path \in Entries[e]

StartedTasks == {t \in Tasks : Started(t)}

LEMMA SpawnedStarted ==
  ASSUME Typed, NEW t \in StartedTasks, NEW selected, NEW u \in Spawned(t, selected)
  PROVE  u \in StartedTasks
<1>1. t \in Tasks /\ u \in Tasks
  BY SpawnedTyped DEF StartedTasks
<1>2. CASE t.at = "path"
  <2>1. u.path = t.path /\ t.path \in Elsewhere
    BY <1>1, <1>2 DEF Spawned, StartedTasks, Started, Tasks
  <2> QED BY <1>1, <2>1 DEF StartedTasks, Started
<1>3. CASE t.at = "entry" /\ Kind[t.path] = "dir" /\ Descends(t, selected)
  <2>1. u.at = "entry" /\ u.path \in Entries[t.path] /\ t.path \in u.ignore
    BY <1>3 DEF Spawned, Task
  <2> QED BY <1>1, <2>1 DEF StartedTasks, Started
<1>4. CASE t.at = "entry" /\ Kind[t.path] = "link" /\ Follows(t)
  <2>1. t.path \in Links /\ u.path = Target[t.path]
    BY <1>1, <1>4, FollowedTarget DEF Spawned, Task
  <2> QED BY <1>1, <2>1 DEF StartedTasks, Started, Elsewhere
<1> QED BY <1>2, <1>3, <1>4 DEF Spawned

LEMMA RootsStarted == ASSUME Typed PROVE RootTasks \subseteq StartedTasks
<1>1. Depth \in Nat /\ ToSet(Roots) \subseteq Paths
  BY ScenarioTyped DEF Typed
<1>2. RootTasks \subseteq Tasks
  BY <1>1 DEF RootTasks, RootTask, Task, Tasks
<1>3. \A t \in RootTasks : t.path \in Elsewhere
  BY DEF RootTasks, RootTask, Task, Elsewhere
<1> QED BY <1>2, <1>3 DEF StartedTasks, Started

\* The tasks that n steps on a route lead to.
Reaches(avoided, f) ==
  f = [n \in 0..LongestRoute |-> IF n = 0 THEN RootTasks ELSE More(f[n - 1], avoided)]

Reach(avoided) == CHOOSE f : Reaches(avoided, f)

LEMMA LongestTyped ==
  ASSUME Typed
  PROVE  LongestRoute \in Nat /\ Cardinality(Links) \in Nat /\ IsFiniteSet(Links)
<1>1. IsFiniteSet(Links)
  BY TreeAssumption, FS_Subset DEF Links
<1>2. Cardinality(Links) \in Nat /\ Depth \in Nat
  BY <1>1, FS_CardinalityType, ScenarioTyped DEF Typed
<1> QED BY <1>1, <1>2 DEF LongestRoute

LEMMA RoutesAre ==
  ASSUME Typed, NEW avoided
  PROVE  /\ Reach(avoided) \in [0..LongestRoute -> SUBSET StartedTasks]
         /\ Reach(avoided)[0] = RootTasks
         /\ \A n \in 1..LongestRoute : Reach(avoided)[n] = More(Reach(avoided)[n - 1], avoided)
         /\ Routes(avoided) = Reach(avoided)[LongestRoute]
<1> DEFINE X == SUBSET StartedTasks
           step == [n \in 1..LongestRoute |-> [T \in X |-> More(T, avoided)]]
<1>1. LongestRoute \in Nat
  BY LongestTyped
<1>2. RootTasks \in X
  BY RootsStarted
<1>3. \A T \in X : More(T, avoided) \in X
  <2> SUFFICES ASSUME NEW T \in X, NEW u \in More(T, avoided) PROVE u \in StartedTasks
    OBVIOUS
  <2>1. u \in T \/ \E t \in T : u \in Spawned(t, DirsMeant[scenario])
    BY DEF More
  <2> QED BY <2>1, SpawnedStarted
<1>4. PICK f : Run(X, RootTasks, LongestRoute, step, f)
  <2>1. step \in [1..LongestRoute -> [X -> X]]
    BY <1>3
  <2> HIDE DEF step, X
  <2> QED BY <1>1, <1>2, <2>1, RunExists
<1>5. Reaches(avoided, f)
  <2>1. \A n \in 0..LongestRoute : f[n] = IF n = 0 THEN RootTasks ELSE More(f[n - 1], avoided)
    <3> SUFFICES ASSUME NEW n \in 0..LongestRoute, n # 0 PROVE f[n] = More(f[n - 1], avoided)
      BY <1>4 DEF Run
    <3>1. n \in 1..LongestRoute /\ n - 1 \in 0..LongestRoute
      BY <1>1
    <3>2. f[n] = step[n][f[n - 1]] /\ f[n - 1] \in X
      <4> HIDE DEF step, X
      <4> QED BY <1>4, <3>1 DEF Run
    <3> QED BY <3>1, <3>2
  <2>2. f = [n \in 0..LongestRoute |-> f[n]]
    <3> HIDE DEF step, X
    <3> QED BY <1>4 DEF Run
  <2> QED BY <2>1, <2>2 DEF Reaches
<1>6. Reaches(avoided, Reach(avoided))
  BY <1>5 DEF Reach
<1>7. \A n \in 0..LongestRoute : Reach(avoided)[n] \in X
  <2> DEFINE S == {n \in 0..LongestRoute : Reach(avoided)[n] \in X}
  <2>1. 0 \in S
    BY <1>1, <1>2, <1>6 DEF Reaches
  <2>2. ASSUME NEW n \in 1..LongestRoute, n - 1 \in S PROVE n \in S
    <3>1. Reach(avoided)[n] = More(Reach(avoided)[n - 1], avoided)
      BY <1>1, <1>6, <2>2 DEF Reaches
    <3>2. Reach(avoided)[n - 1] \in X
      BY <2>2
    <3> QED BY <1>3, <3>1, <3>2
  <2>3. \A n \in 0..LongestRoute : n \in S
    <3> HIDE DEF S
    <3> QED BY <1>1, <2>1, <2>2, Upward
  <2> QED BY <2>3
<1>8. Routes(avoided) = Reach(avoided)[LongestRoute]
  BY DEF Routes, Reach, Reaches
<1> QED BY <1>1, <1>6, <1>7, <1>8 DEF Reaches

\* A longer route leads to no less.
LEMMA ReachGrows ==
  ASSUME Typed, NEW avoided, NEW n \in 0..LongestRoute
  PROVE  Reach(avoided)[n] \subseteq Routes(avoided)
<1> DEFINE r == Reach(avoided)
           S == {k \in Nat : k + n <= LongestRoute => r[n] \subseteq r[k + n]}
<1>1. LongestRoute \in Nat
  BY LongestTyped
<1>2. \A k \in 1..LongestRoute : r[k - 1] \subseteq r[k]
  BY RoutesAre DEF More
<1>3. 0 \in S
  OBVIOUS
<1>4. ASSUME NEW k \in 1..(LongestRoute - n), k - 1 \in S PROVE k \in S
  <2>1. k + n \in 1..LongestRoute /\ (k - 1) + n = (k + n) - 1
    BY <1>1
  <2>2. r[k + n - 1] \subseteq r[k + n] /\ r[n] \subseteq r[(k - 1) + n]
    BY <1>1, <1>2, <1>4, <2>1
  <2> HIDE DEF r
  <2> QED BY <2>1, <2>2
<1>5. LongestRoute - n \in S
  <2>1. LongestRoute - n \in Nat
    BY <1>1
  <2> HIDE DEF S
  <2> QED BY <1>3, <1>4, <2>1, Upward
<1>6. (LongestRoute - n) + n = LongestRoute
  BY <1>1
<1> QED BY <1>1, <1>5, <1>6, RoutesAre

\* What a walk is asked for does not change.
LEMMA Unmoved ==
  ASSUME UNCHANGED scenario
  PROVE  /\ UNCHANGED <<Roots, Depth, FollowLinks, DirSelected, FileSelected, LongestRoute, Tasks,
                        RootTasks, Wanted>>
         /\ \A t, selected : /\ UNCHANGED Spawned(t, selected)
                             /\ UNCHANGED Emitted(t, selected)
                             /\ UNCHANGED Shown(t)
         /\ \A avoided : UNCHANGED <<Reach(avoided), WantedBut(avoided)>>
<1>1. /\ UNCHANGED <<Roots, Depth, FollowLinks, DirSelected, FileSelected, Entries, ReportLinks>>
      /\ UNCHANGED <<OneFs, Hidden, NoIgnore>>
  BY DEF Roots, Depth, FollowLinks, DirSelected, FileSelected, Entries, ReportLinks, OneFs, Hidden,
         NoIgnore, Scenario
<1>2. UNCHANGED <<LongestRoute, RootTasks, Tasks>>
  BY <1>1 DEF LongestRoute, RootTasks, Tasks
<1>3. ASSUME NEW t, NEW selected
      PROVE  UNCHANGED <<Spawned(t, selected), Emitted(t, selected), Shown(t)>>
  <2>1. UNCHANGED <<Descends(t, selected), Follows(t), Ignored(t)>>
    BY <1>1 DEF Descends, Follows, Ignored
  <2> QED BY <1>1, <2>1 DEF Spawned, Emitted, Shown
<1>4. ASSUME NEW T, NEW avoided PROVE UNCHANGED More(T, avoided)
  BY <1>3 DEF More
<1>5. ASSUME NEW avoided PROVE UNCHANGED <<Reach(avoided), Routes(avoided)>>
  BY <1>2, <1>4 DEF Reach, Reaches, Routes
<1>6. ASSUME NEW avoided PROVE UNCHANGED WantedBut(avoided)
  BY <1>3, <1>5 DEF WantedBut
<1> QED BY <1>1, <1>2, <1>3, <1>5, <1>6 DEF Wanted

\* What the patterns select is what they are meant to.
SelectsNoMore ==
  /\ DirSelected \subseteq DirsMeant[scenario]
  /\ FileSelected \subseteq FilesMeant[scenario]

\* The length of a route over some links to a task.
Length(t, L) == t.level + 2 * Cardinality(L) + IF t.at = "entry" THEN 1 ELSE 0

LEMMA LengthBound ==
  ASSUME Typed, NEW t \in Tasks, NEW L \in SUBSET Links
  PROVE  Length(t, L) \in 0..LongestRoute
<1>1. /\ LongestRoute \in Nat /\ Cardinality(Links) \in Nat /\ IsFiniteSet(Links)
      /\ LongestRoute = Depth + 2 + 2 * Cardinality(Links)
  BY LongestTyped DEF LongestRoute
<1>2. Cardinality(L) \in Nat /\ Cardinality(L) <= Cardinality(Links)
  BY <1>1, FS_Subset, FS_CardinalityType
<1>3. t.level \in 0..(Depth + 1) /\ Depth \in Nat
  BY ScenarioTyped DEF Tasks, Typed
<1> DEFINE c == Cardinality(L)  l == Cardinality(Links)  v == t.level
<1>4. c \in Nat /\ l \in Nat /\ c <= l /\ v \in 0..(Depth + 1) /\ LongestRoute = Depth + 2 + 2 * l
  BY <1>1, <1>2, <1>3
<1>5. Length(t, L) \in {v + 2 * c, v + 2 * c + 1}
  <2> HIDE DEF c, v
  <2>1. Length(t, L) = v + 2 * c + IF t.at = "entry" THEN 1 ELSE 0
    BY DEF Length, c, v
  <2> QED BY <1>4, <2>1
<1> HIDE DEF c, l, v
<1> QED BY <1>1, <1>3, <1>4, <1>5

\* The walk got to the task over a route, on which each link was visited.
OnRoute(t) == \E L \in SUBSET (Links \cap visited) : t \in Reach({})[Length(t, L)]

OnRoutes ==
  SelectsNoMore =>
    /\ \A t \in BagToSet(tasks) : OnRoute(t)
    /\ BagToSet(found) \subseteq Wanted

LEMMA SpawnedMore ==
  ASSUME NEW t, NEW small, NEW large, small \subseteq large
  PROVE  Spawned(t, small) \subseteq Spawned(t, large) /\ Emitted(t, small) \subseteq Emitted(t, large)
BY DEF Spawned, Emitted, Descends

LEMMA SpawnedOnRoute ==
  ASSUME Typed, SelectsNoMore, UNCHANGED scenario, visited \subseteq visited',
         NEW t \in Tasks, OnRoute(t), t.at = "entry" => VisitsFirst(t),
         NEW u \in Spawned(t, DirSelected)
  PROVE  OnRoute(u)'
<1>1. PICK L \in SUBSET (Links \cap visited) : t \in Reach({})[Length(t, L)]
  BY DEF OnRoute
<1>2. u \in Spawned(t, DirsMeant[scenario]) /\ u \in Tasks
  BY SpawnedMore, SpawnedTyped DEF SelectsNoMore
<1>3. ASSUME NEW M \in SUBSET (Links \cap visited'), Length(u, M) = Length(t, L) + 1
      PROVE  OnRoute(u)'
  <2>1. Length(u, M) \in 0..LongestRoute /\ Length(t, L) \in 0..LongestRoute /\ LongestRoute \in Nat
    BY <1>2, LengthBound, LongestTyped
  <2>2. Length(u, M) \in 1..LongestRoute /\ Length(u, M) - 1 = Length(t, L)
    BY <1>3, <2>1
  <2>3. Reach({})[Length(u, M)] = More(Reach({})[Length(t, L)], {})
    BY <2>2, RoutesAre
  <2>4. t.at = "path" \/ Shown(t)
    BY DEF Tasks, VisitsFirst
  <2>5. u \in Reach({})[Length(u, M)]
    BY <1>1, <1>2, <2>3, <2>4 DEF More
  <2>6. u \in Reach({})'[Length(u, M)]
    BY <2>5, Unmoved
  <2> QED BY <2>6 DEF OnRoute, Length
<1>4. /\ IsFiniteSet(L) /\ Cardinality(L) \in Nat /\ t.level \in Nat
      /\ L \in SUBSET (Links \cap visited')
  <2>1. Depth \in Nat /\ IsFiniteSet(Links)
    BY LongestTyped, ScenarioTyped DEF Typed
  <2> QED BY <2>1, FS_Subset, FS_CardinalityType DEF Tasks
<1>5. CASE t.at = "path"
  <2>1. u.level = t.level /\ u.at = "entry"
    BY <1>5 DEF Spawned, Tasks
  <2>2. Length(u, L) = Length(t, L) + 1
    BY <1>4, <1>5, <2>1 DEF Length
  <2> QED BY <1>3, <1>4, <2>2
<1>6. CASE t.at = "entry" /\ Kind[t.path] = "dir" /\ Descends(t, DirSelected)
  <2>1. u.level = t.level + 1 /\ u.at = "entry"
    BY <1>6 DEF Spawned, Task
  <2>2. Length(u, L) = Length(t, L) + 1
    BY <1>4, <1>6, <2>1 DEF Length
  <2> QED BY <1>3, <1>4, <2>2
<1>7. CASE t.at = "entry" /\ Kind[t.path] = "link" /\ Follows(t)
  <2>1. u.level = t.level /\ u.at = "path" /\ t.path \in Links
    BY <1>7, FollowedTarget DEF Spawned, Task
  <2>2. t.path \notin visited /\ visited' = visited \cup {t.path}
    BY <1>7 DEF VisitsFirst, AlreadyVisited, Mark, Follows
  <2>3. Cardinality(L \cup {t.path}) = Cardinality(L) + 1
    BY <1>4, <2>2, FS_AddElement
  <2>4. Length(u, L \cup {t.path}) = Length(t, L) + 1
    BY <1>4, <1>7, <2>1, <2>3 DEF Length
  <2>5. L \cup {t.path} \in SUBSET (Links \cap visited')
    BY <1>4, <2>1, <2>2
  <2> QED BY <1>3, <2>4, <2>5
<1> QED BY <1>5, <1>6, <1>7 DEF Spawned

LEMMA NextOnRoutes == Typed /\ OnRoutes /\ [Next]_vars => OnRoutes'
<1> SUFFICES ASSUME Typed, OnRoutes, [Next]_vars, SelectsNoMore'
             PROVE  (\A u \in BagToSet(tasks') : OnRoute(u)') /\ BagToSet(found') \subseteq Wanted'
  BY DEF OnRoutes
<1>1. UNCHANGED scenario /\ UNCHANGED Wanted /\ SelectsNoMore
  BY Steps, Unmoved DEF SelectsNoMore
<1>2. /\ \A u \in BagToSet(tasks) : u \in Tasks /\ OnRoute(u)
      /\ BagToSet(found) \subseteq Wanted
  BY <1>1 DEF OnRoutes, Typed, TypeOK
<1>3. ASSUME NEW u, OnRoute(u), visited \subseteq visited' PROVE OnRoute(u)'
  BY <1>1, <1>3, Unmoved DEF OnRoute, Length
<1>4. CASE UNCHANGED <<tasks, visited, found>>
  BY <1>1, <1>2, <1>3, <1>4
<1>5. ASSUME NEW t \in BagToSet(tasks), NEW S \in {{}, Spawned(t, DirSelected)}, Takes(t, S)
      PROVE  (\A u \in BagToSet(tasks') : OnRoute(u)') /\ BagToSet(found') \subseteq Wanted'
  <2>1. ASSUME NEW u \in BagToSet(tasks') PROVE OnRoute(u)'
    <3>1. u \in BagToSet(tasks) \/ u \in S
      BY <1>5, FinishTasks DEF Takes
    <3>2. visited \subseteq visited'
      BY <1>5 DEF Takes
    <3>3. CASE u \in BagToSet(tasks)
      BY <1>2, <1>3, <3>2, <3>3
    <3>4. CASE u \in S
      <4>1. u \in Spawned(t, DirSelected) /\ (t.at = "entry" => VisitsFirst(t))
        BY <1>5, <3>4 DEF Takes
      <4> QED BY <1>1, <1>2, <3>2, <4>1, SpawnedOnRoute
    <3> QED BY <3>1, <3>3, <3>4
  <2>2. CASE UNCHANGED found
    BY <1>1, <1>2, <2>1, <2>2
  <2>3. CASE VisitsFirst(t) /\ found' = found (+) SetToBag(Emitted(t, FileSelected))
    <3>1. BagToSet(SetToBag(Emitted(t, FileSelected))) = Emitted(t, FileSelected)
      BY DEF BagToSet, SetToBag
    <3>2. BagToSet(found') = BagToSet(found) \cup Emitted(t, FileSelected)
      BY <2>3, <3>1, BagSum
    <3>3. PICK L \in SUBSET (Links \cap visited) : t \in Reach({})[Length(t, L)]
      BY <1>2 DEF OnRoute
    <3>4. t \in Routes({})
      BY <1>2, <3>3, LengthBound, ReachGrows
    <3>5. Emitted(t, FileSelected) \subseteq Emitted(t, FilesMeant[scenario])
      BY <1>1, SpawnedMore DEF SelectsNoMore
    <3>6. Emitted(t, FileSelected) \subseteq Wanted
      BY <2>3, <3>4, <3>5 DEF Wanted, WantedBut, VisitsFirst
    <3> QED BY <1>1, <1>2, <2>1, <3>2, <3>6
  <2> QED BY <1>5, <2>2, <2>3 DEF Takes
<1> QED BY <1>4, <1>5, Steps

LEMMA InitOnRoutes == Init => OnRoutes
<1> SUFFICES ASSUME Init, Typed, NEW t \in BagToSet(tasks) PROVE OnRoute(t)
  BY InitTyped DEF OnRoutes, Init, EmptyBag, SetToBag, BagToSet
<1>1. t \in RootTasks
  BY DEF Init, BagToSet
<1>2. Length(t, {}) = 0
  BY <1>1, FS_EmptySet DEF RootTasks, RootTask, Task, Length
<1>3. t \in Reach({})[Length(t, {})]
  BY <1>1, <1>2, RoutesAre
<1> QED BY <1>3 DEF OnRoute

\* Where a pattern selects nothing else than what it is meant to, every file is on a
\* route from an input path, over directories and links that the options let the
\* walk enter, whatever other tasks do before (walk.rs:182-365).
THEOREM FindsNoOthers == Spec => [](SelectsNoMore => BagToSet(found) \subseteq Wanted)
<1>1. OnRoutes => (SelectsNoMore => BagToSet(found) \subseteq Wanted)
  BY DEF OnRoutes
<1> QED BY <1>1, InitTyped, InitOnRoutes, NextTyped, NextOnRoutes, PTL DEF Spec

-----------------------------------------------------------------------------
(***************************************************************************)
(* Every file on a route is found.                                         *)
(***************************************************************************)

\* Paths that hold no file that the patterns match, with all directories that
\* the patterns leave out.
LeftOut(lost) ==
  /\ (DirsMeant[scenario] \ DirSelected) \cap (Dirs \cup Elsewhere) \subseteq lost
  /\ \A d \in lost \cap Dirs : Entries[d] \subseteq lost
  /\ FollowLinks => \A l \in lost \cap Links : LeadsTo(l) # "none" => Target[l] \in lost
  /\ lost \cap FilesMeant[scenario] = {}

\* Files are selected as they are meant to, and so are the directories that hold some.
SelectsAsMeant ==
  /\ SelectsNoMore
  /\ FilesMeant[scenario] \subseteq FileSelected
  /\ \E lost \in SUBSET Paths : LeftOut(lost)

\* What the ignore files match can only be got at through their directory.
IgnoresOwn ==
  NoIgnore \/ \A d \in Dirs : \A p \in IgnoredBy[d] :
                p \notin Elsewhere /\ \A e \in Dirs : p \in Entries[e] => e = d

\* The task that comes first to an entry, over links or not, can do what any other could.
AnyRouteWillDo == FollowLinks => ~OneFs /\ Depth >= Cardinality(Dirs) /\ IgnoresOwn

LEMMA NextBag ==
  ASSUME IsABag(tasks), NEW t \in BagToSet(tasks), NEW S, Finish(t, S)
  PROVE  IsABag(tasks') /\ (BagToSet(tasks) \ {t}) \cup S \subseteq BagToSet(tasks')
<1> DEFINE rest == tasks (-) SetToBag({t})
<1>1. \A e \in DOMAIN tasks : tasks[e] \in Nat /\ tasks[e] > 0
  BY DEF IsABag
<1>2. /\ DOMAIN rest \subseteq DOMAIN tasks
      /\ \A e \in DOMAIN rest : rest[e] \in Nat /\ rest[e] > 0
      /\ DOMAIN tasks \ {t} \subseteq DOMAIN rest
  BY <1>1 DEF (-), SetToBag
<1>3. tasks' = rest (+) SetToBag(S)
  BY DEF Finish
<1> HIDE DEF rest
<1>4. /\ DOMAIN tasks' = DOMAIN rest \cup S
      /\ \A e \in DOMAIN tasks' : tasks'[e] \in Nat /\ tasks'[e] > 0
  BY <1>2, <1>3 DEF (+), SetToBag
<1>5. tasks' = [e \in DOMAIN tasks' |-> tasks'[e]]
  BY <1>3 DEF (+)
<1> QED BY <1>2, <1>4, <1>5 DEF IsABag, BagToSet

\* All that can come of a task: its path cannot be read, its entry is not shown or
\* was visited before, or the tasks it spawns are there and its file is found.
Outcome(t) ==
  /\ unread \subseteq unread' /\ BagToSet(found) \subseteq BagToSet(found')
  /\ visited' = IF FollowLinks /\ t.at = "entry" /\ (Hidden \/ t.path \notin HiddenNames)
                THEN visited \cup {t.path} ELSE visited
  /\ \/ t.path \in unread' /\ Finish(t, {})
     \/ t.at = "entry" /\ (~Shown(t) \/ AlreadyVisited(t)) /\ Finish(t, {})
     \/ /\ Finish(t, Spawned(t, DirSelected))
        /\ Emitted(t, FileSelected) \subseteq BagToSet(found')

LEMMA Outcomes ==
  ASSUME [Next]_vars
  PROVE  \/ UNCHANGED <<tasks, visited, found, unread>>
         \/ \E t \in BagToSet(tasks) : Outcome(t)
<1>1. CASE UNCHANGED vars
  BY <1>1 DEF vars
<1>2. ASSUME NEW t \in BagToSet(tasks), VisitPath(t) \/ SkipEntry(t) \/ VisitEntry(t) \/ Unreadable(t)
      PROVE  Outcome(t)
  <2> USE DEF Outcome
  <2>1. CASE VisitPath(t)
    <3>1. Emitted(t, FileSelected) = {}
      BY <2>1 DEF VisitPath, Emitted
    <3> QED BY <2>1, <3>1 DEF VisitPath
  <2>2. CASE SkipEntry(t)
    <3>1. ~Shown(t) \/ AlreadyVisited(t)
      BY <2>2 DEF SkipEntry, Shown
    <3>2. visited' = IF FollowLinks /\ t.at = "entry" /\ (Hidden \/ t.path \notin HiddenNames)
                     THEN visited \cup {t.path} ELSE visited
      BY <2>2 DEF SkipEntry, AlreadyVisited
    <3> QED BY <2>2, <3>1, <3>2 DEF SkipEntry
  <2>3. CASE VisitEntry(t)
    <3>1. visited' = IF FollowLinks /\ t.at = "entry" /\ (Hidden \/ t.path \notin HiddenNames)
                     THEN visited \cup {t.path} ELSE visited
      BY <2>3 DEF VisitEntry, Mark
    <3>2. BagToSet(SetToBag(Emitted(t, FileSelected))) = Emitted(t, FileSelected)
      BY DEF BagToSet, SetToBag
    <3>3. CASE Shown(t)
      <4>1. BagToSet(found') = BagToSet(found) \cup Emitted(t, FileSelected)
        BY <2>3, <3>2, <3>3, BagSum DEF VisitEntry
      <4> QED BY <2>3, <3>1, <3>3, <4>1 DEF VisitEntry
    <3> QED BY <2>3, <3>1, <3>3 DEF VisitEntry
  <2>4. CASE Unreadable(t)
    <3>1. visited' = IF FollowLinks /\ t.at = "entry" /\ (Hidden \/ t.path \notin HiddenNames)
                     THEN visited \cup {t.path} ELSE visited
      BY <2>4 DEF Unreadable, Mark, Shown
    <3> QED BY <2>4, <3>1 DEF Unreadable, GiveUp
  <2> QED BY <1>2, <2>1, <2>2, <2>3, <2>4
<1> QED BY <1>1, <1>2 DEF Next

Bagged == IsABag(tasks)

LEMMA NextBagged == Bagged /\ [Next]_vars => Bagged'
BY Outcomes, NextBag DEF Bagged, Outcome

\* Tasks have come from a directory that holds their path, or from elsewhere.
AllStarted == BagToSet(tasks) \subseteq StartedTasks

LEMMA NextAllStarted == Typed /\ AllStarted /\ [Next]_vars => AllStarted'
<1> SUFFICES ASSUME Typed, AllStarted, [Next]_vars PROVE BagToSet(tasks') \subseteq StartedTasks'
  BY DEF AllStarted
<1>1. StartedTasks' = StartedTasks
  <2>1. UNCHANGED scenario
    BY Steps
  <2>2. UNCHANGED <<Tasks, Roots, Entries>>
    BY <2>1, Unmoved DEF Entries, Scenario
  <2> QED BY <2>2 DEF StartedTasks, Started, Elsewhere
<1>2. ASSUME NEW t \in BagToSet(tasks), Outcome(t) PROVE BagToSet(tasks') \subseteq StartedTasks
  <2>1. Spawned(t, DirSelected) \subseteq StartedTasks
    BY SpawnedStarted DEF AllStarted
  <2> QED BY <1>2, <2>1, FinishTasks DEF Outcome, AllStarted
<1> QED BY <1>1, <1>2, Outcomes DEF AllStarted

\* On a route to a path that is not left out, nothing is left out.
LEMMA RouteKept ==
  ASSUME Typed, NEW lost \in SUBSET Paths, LeftOut(lost),
         NEW t \in StartedTasks, NEW u \in Spawned(t, DirsMeant[scenario]), u.path \notin lost
  PROVE  t.path \notin lost /\ u \in Spawned(t, DirSelected)
<1>1. t \in Tasks
  BY DEF StartedTasks
<1>2. CASE t.at = "path"
  <2>1. u.path = t.path /\ t.path \in DirsMeant[scenario] /\ t.path \in Elsewhere
    BY <1>1, <1>2 DEF Spawned, StartedTasks, Started, Tasks
  <2>2. t.path \in DirSelected
    BY <2>1 DEF LeftOut
  <2> QED BY <1>2, <2>1, <2>2 DEF Spawned
<1>3. CASE t.at = "entry" /\ Kind[t.path] = "dir" /\ Descends(t, DirsMeant[scenario])
  <2>1. t.path \in Dirs /\ u.path \in Entries[t.path]
    BY <1>1, <1>3 DEF Spawned, Task, Dirs, Tasks
  <2>2. t.path \notin lost
    BY <2>1 DEF LeftOut
  <2>3. t.path \in DirSelected
    BY <1>3, <2>1, <2>2 DEF LeftOut, Descends
  <2> QED BY <1>3, <2>2, <2>3 DEF Spawned, Descends
<1>4. CASE t.at = "entry" /\ Kind[t.path] = "link" /\ Follows(t)
  <2>1. t.path \in Links /\ u.path = Target[t.path] /\ FollowLinks /\ LeadsTo(t.path) # "none"
    BY <1>1, <1>4, FollowedTarget DEF Spawned, Task, Follows
  <2>2. t.path \notin lost
    BY <2>1 DEF LeftOut
  <2> QED BY <1>4, <2>2 DEF Spawned
<1> QED BY <1>2, <1>3, <1>4 DEF Spawned

(***************************************************************************)
(* Links are not followed: each route is walked to its end.                *)
(***************************************************************************)

\* From each of these tasks the walk gets to the file over others of them.
Brings(T, p) ==
  \A t \in T : /\ t.path \notin unread
               /\ t.at = "entry" => Shown(t)
               /\ p \in Emitted(t, FileSelected) \/ Spawned(t, DirSelected) \cap T # {}

Brought ==
  ~FollowLinks => \A T \in SUBSET Tasks, p \in Paths :
    Brings(T, p) /\ T \cap RootTasks # {} => p \in BagToSet(found) \/ T \cap BagToSet(tasks) # {}

LEMMA NextBrought == Typed /\ Bagged /\ Brought /\ [Next]_vars => Brought'
<1> SUFFICES ASSUME Typed, Bagged, Brought, [Next]_vars, ~FollowLinks',
                    NEW T \in SUBSET Tasks', NEW p \in Paths, Brings(T, p)', T \cap RootTasks' # {}
             PROVE  p \in BagToSet(found') \/ T \cap BagToSet(tasks') # {}
  BY DEF Brought
<1>1. /\ UNCHANGED <<FollowLinks, Tasks, RootTasks, DirSelected, FileSelected>>
      /\ \A t, selected : /\ UNCHANGED Spawned(t, selected)
                          /\ UNCHANGED Emitted(t, selected)
                          /\ UNCHANGED Shown(t)
  BY Steps, Unmoved
<1>2. \A t \in T : /\ t.path \notin unread'
                   /\ t.at = "entry" => Shown(t)
                   /\ p \in Emitted(t, FileSelected) \/ Spawned(t, DirSelected) \cap T # {}
  BY <1>1 DEF Brings
<1>3. CASE UNCHANGED <<tasks, visited, found, unread>>
  BY <1>1, <1>2, <1>3 DEF Brought, Brings
<1>4. ASSUME NEW t \in BagToSet(tasks), Outcome(t)
      PROVE  p \in BagToSet(found') \/ T \cap BagToSet(tasks') # {}
  <2>1. Brings(T, p)
    BY <1>2, <1>4 DEF Brings, Outcome
  <2>2. p \in BagToSet(found) \/ T \cap BagToSet(tasks) # {}
    BY <1>1, <2>1 DEF Brought
  <2>3. CASE p \in BagToSet(found)
    BY <1>4, <2>3 DEF Outcome
  <2>4. CASE t \in T
    <3>1. ~(t.path \in unread') /\ ~(t.at = "entry" /\ (~Shown(t) \/ AlreadyVisited(t)))
      BY <1>1, <1>2, <2>4 DEF AlreadyVisited
    <3>2. Finish(t, Spawned(t, DirSelected)) /\ Emitted(t, FileSelected) \subseteq BagToSet(found')
      BY <1>4, <3>1 DEF Outcome
    <3>3. Spawned(t, DirSelected) \subseteq BagToSet(tasks')
      BY <3>2, NextBag DEF Bagged
    <3> QED BY <1>2, <2>4, <3>2, <3>3
  <2>5. CASE t \notin T /\ T \cap BagToSet(tasks) # {}
    <3>1. BagToSet(tasks) \ {t} \subseteq BagToSet(tasks')
      BY <1>4, NextBag DEF Bagged, Outcome
    <3> QED BY <2>5, <3>1
  <2> QED BY <2>2, <2>3, <2>4, <2>5
<1> QED BY <1>3, <1>4, Outcomes

LEMMA AllBrought ==
  ASSUME Typed, Brought, ~FollowLinks, Done, SelectsAsMeant
  PROVE  WantedBut(unread) \subseteq BagToSet(found)
<1> SUFFICES ASSUME NEW p \in WantedBut(unread) PROVE p \in BagToSet(found)
  OBVIOUS
<1>1. PICK lost \in SUBSET Paths : LeftOut(lost)
  BY DEF SelectsAsMeant
<1>2. PICK u \in Routes(unread) :
        Shown(u) /\ u.path \notin unread /\ p \in Emitted(u, FilesMeant[scenario])
  BY DEF WantedBut
<1> DEFINE reach == Reach(unread)
           Rooted == \E R \in SUBSET Tasks : Brings(R, p) /\ R \cap RootTasks # {}
           S == {k \in 0..LongestRoute :
                   \A T \in SUBSET Tasks : \A v \in T \cap reach[k] :
                      Brings(T, p) /\ v.path \notin lost => Rooted}
<1>3. /\ LongestRoute \in Nat
      /\ reach \in [0..LongestRoute -> SUBSET StartedTasks] /\ reach[0] = RootTasks
      /\ \A n \in 1..LongestRoute : reach[n] = More(reach[n - 1], unread)
      /\ Routes(unread) = reach[LongestRoute]
  BY RoutesAre, LongestTyped
<1> HIDE DEF reach
<1>4. 0 \in S
  BY <1>3
<1>5. ASSUME NEW k \in 1..LongestRoute, k - 1 \in S PROVE k \in S
  <2> SUFFICES ASSUME NEW T \in SUBSET Tasks, NEW v \in T \cap reach[k], Brings(T, p), v.path \notin lost
               PROVE  Rooted
    BY <1>3
  <2>1. k - 1 \in 0..LongestRoute
    BY <1>3
  <2>2. \/ v \in reach[k - 1]
        \/ \E w \in reach[k - 1] : /\ w.path \notin unread /\ (w.at = "path" \/ Shown(w))
                                   /\ v \in Spawned(w, DirsMeant[scenario])
    BY <1>3 DEF More
  <2>3. CASE v \in reach[k - 1]
    BY <1>5, <2>3
  <2>4. ASSUME NEW w \in reach[k - 1], w.path \notin unread, w.at = "path" \/ Shown(w),
               v \in Spawned(w, DirsMeant[scenario])
        PROVE  Rooted
    <3>1. w \in StartedTasks
      BY <1>3, <2>1
    <3>2. w.path \notin lost /\ v \in Spawned(w, DirSelected)
      BY <1>1, <2>4, <3>1, RouteKept
    <3>3. Brings(T \cup {w}, p)
      <4>1. \A t \in T : /\ t.path \notin unread
                         /\ t.at = "entry" => Shown(t)
                         /\ p \in Emitted(t, FileSelected) \/ Spawned(t, DirSelected) \cap (T \cup {w}) # {}
        BY DEF Brings
      <4>2. w.at = "entry" => Shown(w)
        BY <2>4
      <4>3. Spawned(w, DirSelected) \cap (T \cup {w}) # {}
        BY <3>2
      <4> QED BY <2>4, <4>1, <4>2, <4>3 DEF Brings
    <3>4. T \cup {w} \in SUBSET Tasks
      BY <3>1 DEF StartedTasks
    <3> QED BY <1>5, <3>2, <3>3, <3>4
  <2> QED BY <2>2, <2>3, <2>4
<1>6. LongestRoute \in S
  <2> HIDE DEF S
  <2> QED BY <1>3, <1>4, <1>5, Upward
<1>7. p = u.path /\ p \in FilesMeant[scenario] /\ p \in Emitted(u, FileSelected)
  BY <1>2 DEF Emitted, SelectsAsMeant
<1>8. u \in Tasks /\ p \in Paths
  BY <1>2, <1>3, <1>7 DEF StartedTasks, Tasks
<1>9. Brings({u}, p)
  BY <1>2, <1>7 DEF Brings
<1>10. p \notin lost
  BY <1>1, <1>7 DEF LeftOut
<1>11. Rooted
  BY <1>2, <1>3, <1>6, <1>7, <1>8, <1>9, <1>10
<1>12. BagToSet(tasks) = {}
  BY DEF Done, EmptyBag, SetToBag, BagToSet
<1> QED BY <1>8, <1>11, <1>12 DEF Brought

(***************************************************************************)
(* Links are followed: what comes of an entry that was visited before has  *)
(* come of it, or will.                                                    *)
(***************************************************************************)

\* What the first task to an entry does, wherever it came from.
First(p) == Task("entry", p, Dev[p], 0, {})

IgnoredAnyhow(p) == ~NoIgnore /\ \E d \in Dirs : p \in IgnoredBy[d]

LEMMA AsFirst ==
  ASSUME Typed, FollowLinks, AnyRouteWillDo, NEW t \in StartedTasks, t.at = "entry", NEW selected
  PROVE  /\ \A u \in Spawned(t, selected) :
              \E v \in Spawned(First(t.path), selected) : v.at = u.at /\ v.path = u.path
         /\ t.level <= Depth =>
              \A u \in Spawned(First(t.path), selected) :
                \E v \in Spawned(t, selected) : v.at = u.at /\ v.path = u.path
         /\ Emitted(t, selected) = Emitted(First(t.path), selected)
         /\ Ignored(t) <=> IgnoredAnyhow(t.path)
<1> DEFINE q == First(t.path)
<1>1. q.at = "entry" /\ q.path = t.path /\ q.level = 0 /\ Depth \in Nat /\ t \in Tasks
  BY ScenarioTyped DEF First, Task, Typed, StartedTasks
<1>2. ~OneFs
  BY DEF AnyRouteWillDo
<1>3. /\ Descends(t, selected) => Descends(q, selected)
      /\ t.level <= Depth /\ Descends(q, selected) => Descends(t, selected)
      /\ Follows(t) <=> Follows(q)
  BY <1>1, <1>2 DEF Descends, Follows
<1>4. Emitted(t, selected) = Emitted(q, selected)
  BY <1>1 DEF Emitted
<1>5. Ignored(t) <=> IgnoredAnyhow(t.path)
  <2>1. t.ignore \subseteq Dirs
    BY <1>1 DEF Tasks
  <2>2. ASSUME ~NoIgnore, NEW d \in Dirs, t.path \in IgnoredBy[d] PROVE d \in t.ignore
    <3>1. t.path \notin Elsewhere /\ \A e \in Dirs : t.path \in Entries[e] => e = d
      BY <2>2 DEF AnyRouteWillDo, IgnoresOwn
    <3>2. PICK e \in t.ignore : t.path \in Entries[e]
      BY <3>1 DEF StartedTasks, Started
    <3> QED BY <2>1, <3>1, <3>2
  <2> QED BY <2>1, <2>2 DEF Ignored, IgnoredAnyhow
<1> HIDE DEF q
<1>6. ASSUME NEW a, NEW b, a.at = "entry", b.at = "entry", a.path = b.path,
             Descends(a, selected) => Descends(b, selected), Follows(a) => Follows(b),
             NEW u \in Spawned(a, selected)
      PROVE  \E v \in Spawned(b, selected) : v.at = u.at /\ v.path = u.path
  <2>1. CASE Kind[a.path] = "dir" /\ Descends(a, selected)
    <3>1. PICK p \in Entries[a.path] : u = Task("entry", p, a.dev, a.level + 1, a.ignore \cup {a.path})
      BY <1>6, <2>1 DEF Spawned
    <3>2. Task("entry", p, b.dev, b.level + 1, b.ignore \cup {b.path}) \in Spawned(b, selected)
      BY <1>6, <2>1, <3>1 DEF Spawned
    <3>3. u.at = "entry" /\ u.path = p
      BY <3>1 DEF Task
    <3>4. \A v : v = Task("entry", p, b.dev, b.level + 1, b.ignore \cup {b.path}) =>
                   v.at = "entry" /\ v.path = p
      BY DEF Task
    <3> QED BY <3>2, <3>3, <3>4
  <2>2. CASE Kind[a.path] = "link" /\ Follows(a)
    <3>1. u = Task("path", Target[a.path], a.dev, a.level, a.ignore)
      BY <1>6, <2>2 DEF Spawned
    <3>2. Task("path", Target[b.path], b.dev, b.level, b.ignore) \in Spawned(b, selected)
      BY <1>6, <2>2 DEF Spawned
    <3> QED BY <1>6, <3>1, <3>2 DEF Task
  <2> QED BY <1>6, <2>1, <2>2 DEF Spawned
<1>7. \A u \in Spawned(t, selected) : \E v \in Spawned(q, selected) : v.at = u.at /\ v.path = u.path
  BY <1>1, <1>3, <1>6
<1>8. t.level <= Depth =>
        \A u \in Spawned(q, selected) : \E v \in Spawned(t, selected) : v.at = u.at /\ v.path = u.path
  BY <1>1, <1>3, <1>6
<1> QED BY <1>4, <1>5, <1>7, <1>8 DEF q

\* The entry was visited, or a task waits to, or it is not for any to visit.
Dealt(p) ==
  \/ p \in visited
  \/ ~Hidden /\ p \in HiddenNames
  \/ \E t \in BagToSet(tasks) : t.at = "entry" /\ t.path = p

Met(at, p) ==
  \/ Dealt(p)
  \/ /\ at = "path"
     /\ \/ p \in unread \/ p \notin DirSelected
        \/ \E t \in BagToSet(tasks) : t.at = "path" /\ t.path = p

\* Nothing is missing of what is to come of the input paths and of the entries visited.
Closed ==
  FollowLinks /\ AnyRouteWillDo =>
    /\ \A t \in RootTasks : Met(t.at, t.path)
    /\ \A p \in visited \ unread :
         \/ IgnoredAnyhow(p)
         \/ /\ \A u \in Spawned(First(p), DirSelected) : Met(u.at, u.path)
            /\ Emitted(First(p), FileSelected) \subseteq BagToSet(found)

LEMMA StaysMet ==
  ASSUME Typed, Bagged, FollowLinks, UNCHANGED scenario, NEW t \in BagToSet(tasks), Outcome(t),
         NEW at, NEW p, Met(at, p)
  PROVE  Met(at, p)'
<1>1. BagToSet(tasks) \ {t} \subseteq BagToSet(tasks') /\ visited \subseteq visited'
      /\ unread \subseteq unread'
  BY NextBag DEF Bagged, Outcome
<1>2. UNCHANGED <<Hidden, DirSelected>>
  BY Unmoved DEF Hidden, Scenario
<1>3. CASE t.at = "entry" /\ t.path = p
  <2>1. p \in visited' \/ (~Hidden /\ p \in HiddenNames)
    BY <1>3 DEF Outcome
  <2> QED BY <1>2, <2>1 DEF Met, Dealt
<1>4. CASE t.at = "path" /\ t.path = p
  <2>1. CASE Dealt(p)
    <3>1. Dealt(p)'
      BY <1>1, <1>2, <1>4, <2>1 DEF Dealt
    <3> QED BY <3>1 DEF Met
  <2>2. CASE at = "path" /\ t.path \in unread'
    BY <1>4, <2>2 DEF Met
  <2>3. CASE at = "path" /\ Finish(t, Spawned(t, DirSelected))
    <3>1. CASE p \in DirSelected
      <4>1. [t EXCEPT !.at = "entry"] \in BagToSet(tasks')
        BY <1>4, <2>3, <3>1, NextBag DEF Spawned, Bagged
      <4>2. [t EXCEPT !.at = "entry"].at = "entry" /\ [t EXCEPT !.at = "entry"].path = p
        BY <1>4 DEF Typed, TypeOK, Tasks
      <4> QED BY <4>1, <4>2 DEF Met, Dealt
    <3>2. CASE p \notin DirSelected
      BY <1>2, <2>3, <3>2 DEF Met
    <3> QED BY <3>1, <3>2
  <2> QED BY <1>4, <2>1, <2>2, <2>3 DEF Outcome, Met
<1>5. CASE t.path # p \/ t.at \notin {"path", "entry"}
  BY <1>1, <1>2, <1>5 DEF Met, Dealt
<1> QED BY <1>3, <1>4, <1>5

LEMMA NextClosed ==
  Typed /\ Bagged /\ AllStarted /\ RoutesSimple /\ Closed /\ [Next]_vars => Closed'
<1> SUFFICES ASSUME Typed, Bagged, AllStarted, RoutesSimple, Closed, [Next]_vars,
                    FollowLinks', AnyRouteWillDo'
             PROVE  /\ \A u \in RootTasks' : Met(u.at, u.path)'
                    /\ \A p \in visited' \ unread' :
                         \/ IgnoredAnyhow(p)'
                         \/ /\ \A u \in Spawned(First(p), DirSelected)' : Met(u.at, u.path)'
                            /\ Emitted(First(p), FileSelected)' \subseteq BagToSet(found')
  BY DEF Closed
<1>1. /\ UNCHANGED <<FollowLinks, RootTasks, DirSelected, FileSelected, Depth, Hidden, scenario>>
      /\ \A t, selected : UNCHANGED Spawned(t, selected) /\ UNCHANGED Emitted(t, selected)
      /\ \A p : UNCHANGED First(p) /\ UNCHANGED IgnoredAnyhow(p)
      /\ AnyRouteWillDo
  BY Steps, Unmoved DEF Hidden, AnyRouteWillDo, OneFs, IgnoresOwn, NoIgnore, Elsewhere, Entries,
     Scenario, First, IgnoredAnyhow
<1>2. /\ \A u \in RootTasks : Met(u.at, u.path)
      /\ \A p \in visited \ unread :
           \/ IgnoredAnyhow(p)
           \/ /\ \A u \in Spawned(First(p), DirSelected) : Met(u.at, u.path)
              /\ Emitted(First(p), FileSelected) \subseteq BagToSet(found)
  BY <1>1 DEF Closed
<1>3. ASSUME NEW p, UNCHANGED First(p)
      PROVE  /\ Spawned(First(p), DirSelected)' = Spawned(First(p), DirSelected)
             /\ Emitted(First(p), FileSelected)' = Emitted(First(p), FileSelected)
  <2>1. UNCHANGED <<Entries, ReportLinks, OneFs>>
    BY <1>1 DEF Entries, ReportLinks, OneFs, Scenario
  <2>2. UNCHANGED <<Descends(First(p), DirSelected), Follows(First(p))>>
    BY <1>1, <1>3, <2>1 DEF Descends, Follows
  <2> QED BY <1>1, <1>3, <2>1, <2>2 DEF Spawned, Emitted
<1>4. CASE UNCHANGED <<tasks, visited, found, unread>>
  <2>1. \A at, p : Met(at, p) => Met(at, p)'
    BY <1>1, <1>4 DEF Met, Dealt
  <2> QED BY <1>1, <1>2, <1>3, <1>4, <2>1
<1>5. ASSUME NEW t \in BagToSet(tasks), Outcome(t)
      PROVE  /\ \A u \in RootTasks : Met(u.at, u.path)'
             /\ \A p \in visited' \ unread' :
                  \/ IgnoredAnyhow(p)
                  \/ /\ \A u \in Spawned(First(p), DirSelected) : Met(u.at, u.path)'
                     /\ Emitted(First(p), FileSelected) \subseteq BagToSet(found')
  <2>1. ASSUME NEW at, NEW p, Met(at, p) PROVE Met(at, p)'
    BY <1>1, <1>5, <2>1, StaysMet
  <2>2. ASSUME NEW p \in visited' \ unread', p \in visited
        PROVE  \/ IgnoredAnyhow(p)
               \/ /\ \A u \in Spawned(First(p), DirSelected) : Met(u.at, u.path)'
                  /\ Emitted(First(p), FileSelected) \subseteq BagToSet(found')
    <3>1. p \in visited \ unread /\ BagToSet(found) \subseteq BagToSet(found')
      BY <1>5, <2>2 DEF Outcome
    <3> QED BY <1>2, <2>1, <3>1
  <2>3. ASSUME NEW p \in visited' \ unread', p \notin visited, ~IgnoredAnyhow(p)
        PROVE  /\ \A u \in Spawned(First(p), DirSelected) : Met(u.at, u.path)'
               /\ Emitted(First(p), FileSelected) \subseteq BagToSet(found')
    <3>1. t.at = "entry" /\ t.path = p /\ (Hidden \/ p \notin HiddenNames)
      BY <1>5, <2>3 DEF Outcome
    <3>2. t \in StartedTasks /\ t \in Tasks /\ CameThrough(t)
      BY <1>1 DEF AllStarted, StartedTasks, RoutesSimple
    <3>3. t.level <= Depth
      <4>1. IsFiniteSet(Dirs) /\ t.ignore \subseteq Dirs
        BY <3>2, TreeAssumption, FS_Subset DEF Dirs, Tasks
      <4>2. Cardinality(t.ignore) <= Cardinality(Dirs) /\ Cardinality(Dirs) \in Nat
            /\ Cardinality(t.ignore) \in Nat
        BY <4>1, FS_Subset, FS_CardinalityType
      <4>3. t.level = Cardinality(t.ignore) /\ Depth \in Nat /\ Depth >= Cardinality(Dirs)
        BY <1>1, <3>2, ScenarioTyped DEF CameThrough, AnyRouteWillDo, Typed
      <4> QED BY <4>2, <4>3
    <3>4. Shown(t) /\ ~AlreadyVisited(t)
      BY <1>1, <2>3, <3>1, <3>2, AsFirst DEF Shown, AlreadyVisited
    <3>5. Finish(t, Spawned(t, DirSelected)) /\ Emitted(t, FileSelected) \subseteq BagToSet(found')
      BY <1>5, <2>3, <3>1, <3>4 DEF Outcome
    <3>6. Spawned(t, DirSelected) \subseteq BagToSet(tasks')
      BY <3>5, NextBag DEF Bagged
    <3>7. ASSUME NEW u \in Spawned(First(p), DirSelected) PROVE Met(u.at, u.path)'
      <4>1. PICK v \in Spawned(t, DirSelected) : v.at = u.at /\ v.path = u.path
        BY <1>1, <3>1, <3>2, <3>3, AsFirst
      <4>2. v \in BagToSet(tasks') /\ v \in Tasks
        BY <3>2, <3>6, SpawnedTyped
      <4>3. v.at \in {"path", "entry"}
        BY <4>2 DEF Tasks
      <4> QED BY <4>1, <4>2, <4>3 DEF Met, Dealt
    <3>8. Emitted(First(p), FileSelected) = Emitted(t, FileSelected)
      BY <1>1, <3>1, <3>2, AsFirst
    <3> QED BY <3>5, <3>7, <3>8
  <2> QED BY <1>2, <2>1, <2>2, <2>3
<1>6. CASE \E t \in BagToSet(tasks) : Outcome(t)
  <2>1. /\ \A u \in RootTasks : Met(u.at, u.path)'
        /\ \A p \in visited' \ unread' :
             \/ IgnoredAnyhow(p)
             \/ /\ \A u \in Spawned(First(p), DirSelected) : Met(u.at, u.path)'
                /\ Emitted(First(p), FileSelected) \subseteq BagToSet(found')
    BY <1>5, <1>6
  <2> QED BY <1>1, <1>3, <2>1
<1> QED BY <1>4, <1>6, Outcomes

LEMMA AllMet ==
  ASSUME Typed, Closed, FollowLinks, AnyRouteWillDo, Done, SelectsAsMeant
  PROVE  WantedBut(unread) \subseteq BagToSet(found)
<1> SUFFICES ASSUME NEW p \in WantedBut(unread) PROVE p \in BagToSet(found)
  OBVIOUS
<1>1. PICK lost \in SUBSET Paths : LeftOut(lost)
  BY DEF SelectsAsMeant
<1>2. PICK u \in Routes(unread) :
        Shown(u) /\ u.path \notin unread /\ p \in Emitted(u, FilesMeant[scenario])
  BY DEF WantedBut
<1> DEFINE reach == Reach(unread)
           S == {k \in 0..LongestRoute : \A v \in reach[k] : v.path \in lost \/ Met(v.at, v.path)}
<1>3. /\ LongestRoute \in Nat
      /\ reach \in [0..LongestRoute -> SUBSET StartedTasks] /\ reach[0] = RootTasks
      /\ \A n \in 1..LongestRoute : reach[n] = More(reach[n - 1], unread)
      /\ Routes(unread) = reach[LongestRoute]
  BY RoutesAre, LongestTyped
<1> HIDE DEF reach
<1>4. 0 \in S
  BY <1>3 DEF Closed
<1>5. BagToSet(tasks) = {}
  BY DEF Done, EmptyBag, SetToBag, BagToSet
<1>6. ASSUME NEW w \in StartedTasks, w.at = "entry", Met(w.at, w.path), Shown(w), w.path \notin unread
      PROVE  /\ \A v \in Spawned(w, DirSelected) : Met(v.at, v.path)
             /\ Emitted(w, FileSelected) \subseteq BagToSet(found)
  <2>1. w.path \in visited \ unread
    BY <1>5, <1>6 DEF Met, Dealt, Shown
  <2>2. ~IgnoredAnyhow(w.path)
    BY <1>6, AsFirst DEF Shown
  <2>3. /\ \A v \in Spawned(First(w.path), DirSelected) : Met(v.at, v.path)
        /\ Emitted(First(w.path), FileSelected) \subseteq BagToSet(found)
    BY <2>1, <2>2 DEF Closed
  <2>4. ASSUME NEW v \in Spawned(w, DirSelected) PROVE Met(v.at, v.path)
    <3>1. PICK f \in Spawned(First(w.path), DirSelected) : f.at = v.at /\ f.path = v.path
      BY <1>6, AsFirst
    <3> QED BY <2>3, <3>1
  <2> QED BY <1>6, <2>3, <2>4, AsFirst
<1>7. ASSUME NEW k \in 1..LongestRoute, k - 1 \in S PROVE k \in S
  <2> SUFFICES ASSUME NEW v \in reach[k], v.path \notin lost PROVE Met(v.at, v.path)
    BY <1>3
  <2>1. k - 1 \in 0..LongestRoute
    BY <1>3
  <2>2. \/ v \in reach[k - 1]
        \/ \E w \in reach[k - 1] : /\ w.path \notin unread /\ (w.at = "path" \/ Shown(w))
                                   /\ v \in Spawned(w, DirsMeant[scenario])
    BY <1>3 DEF More
  <2>3. CASE v \in reach[k - 1]
    BY <1>7, <2>3
  <2>4. ASSUME NEW w \in reach[k - 1], w.path \notin unread, w.at = "path" \/ Shown(w),
               v \in Spawned(w, DirsMeant[scenario])
        PROVE  Met(v.at, v.path)
    <3>1. w \in StartedTasks /\ w \in Tasks
      BY <1>3, <2>1 DEF StartedTasks
    <3>2. w.path \notin lost /\ v \in Spawned(w, DirSelected)
      BY <1>1, <2>4, <3>1, RouteKept
    <3>3. Met(w.at, w.path)
      BY <1>7, <3>2
    <3>4. CASE w.at = "path"
      <4>1. v.path = w.path /\ w.path \in DirSelected
        BY <3>1, <3>2, <3>4 DEF Spawned, Tasks
      <4>2. Dealt(w.path)
        BY <1>5, <2>4, <3>3, <4>1 DEF Met
      <4> QED BY <4>1, <4>2 DEF Met
    <3>5. CASE w.at = "entry"
      BY <1>6, <2>4, <3>1, <3>2, <3>3, <3>5
    <3> QED BY <3>1, <3>4, <3>5 DEF Tasks
  <2> QED BY <2>2, <2>3, <2>4
<1>8. LongestRoute \in S
  <2> HIDE DEF S
  <2> QED BY <1>3, <1>4, <1>7, Upward
<1>9. p = u.path /\ p \in FilesMeant[scenario] /\ p \in Emitted(u, FileSelected) /\ u.at = "entry"
  BY <1>2 DEF Emitted, SelectsAsMeant
<1>10. p \notin lost
  BY <1>1, <1>9 DEF LeftOut
<1>11. Met(u.at, u.path) /\ u \in StartedTasks
  BY <1>2, <1>3, <1>8, <1>9, <1>10
<1> QED BY <1>2, <1>6, <1>9, <1>11

\* The walk misses no file: once no task is left, the files found are those on the
\* routes from the input paths, but for what only routes over unreadable paths lead
\* to.  No order of the tasks lets an entry hide that was marked as visited by a task
\* that came over another route, and no directory is left out that holds a file the
\* patterns match (walk.rs:182-365, selector.rs:53-87).  Where links are followed, the depth
\* has to be larger than any route is long, as it is by default, the walk not limited
\* to a file system, and no ignore file may match what there are other routes to:
\* otherwise it matters which task comes first.
THEOREM FindsAll == Spec => [](SelectsAsMeant /\ AnyRouteWillDo => FindsAllRoutes)
<1> DEFINE Inv == Typed /\ Bagged /\ AllStarted /\ RoutesSimple /\ OnRoutes /\ Brought /\ Closed
<1>1. Init => Inv
  <2> SUFFICES ASSUME Init PROVE Inv
    OBVIOUS
  <2>1. Typed
    BY InitTyped
  <2>2. /\ BagToSet(tasks) = RootTasks /\ BagToSet(found) = {} /\ visited = {}
        /\ tasks = [t \in RootTasks |-> Cardinality({i \in 1..Len(Roots) : Roots[i] = t.path})]
    BY DEF Init, BagToSet, EmptyBag, SetToBag
  <2>3. Bagged
    <3>1. ASSUME NEW t \in RootTasks
          PROVE  Cardinality({i \in 1..Len(Roots) : Roots[i] = t.path}) \in {n \in Nat : n > 0}
      <4> DEFINE I == {i \in 1..Len(Roots) : Roots[i] = t.path}
      <4>1. Roots \in Seq(Paths)
        BY <2>1, TreeAssumption DEF Typed, Roots, Scenario
      <4>2. IsFiniteSet(I)
        BY <4>1, FS_Interval, FS_Subset
      <4>3. t.path \in ToSet(Roots)
        BY DEF RootTasks, RootTask, Task
      <4>4. I # {}
        BY <4>1, <4>3 DEF ToSet
      <4> HIDE DEF I
      <4>5. Cardinality(I) \in Nat /\ Cardinality(I) # 0
        BY <4>2, <4>4, FS_CardinalityType, FS_EmptySet
      <4> QED BY <4>5 DEF I
    <3> QED BY <2>2, <3>1 DEF Bagged, IsABag
  <2>4. AllStarted
    BY <2>1, <2>2, RootsStarted DEF AllStarted
  <2>5. RoutesSimple
    BY InitSimple
  <2>6. OnRoutes
    BY InitOnRoutes
  <2>7. Brought
    BY <2>2 DEF Brought
  <2>8. Closed
    <3>1. ASSUME NEW t \in RootTasks PROVE Met(t.at, t.path)
      <4>1. t.at = "path"
        BY DEF RootTasks, RootTask, Task
      <4> QED BY <2>2, <4>1 DEF Met
    <3> QED BY <2>2, <3>1 DEF Closed
  <2> QED BY <2>1, <2>3, <2>4, <2>5, <2>6, <2>7, <2>8
<1>2. Inv /\ [Next]_vars => Inv'
  BY NextTyped, NextBagged, NextAllStarted, NextSimple, NextOnRoutes, NextBrought, NextClosed
<1>3. Inv => (SelectsAsMeant /\ AnyRouteWillDo => FindsAllRoutes)
  <2> SUFFICES ASSUME Inv, SelectsAsMeant, AnyRouteWillDo, Done
               PROVE  /\ BagToSet(found) \subseteq Wanted
                      /\ (IF unread = {} THEN Wanted ELSE WantedBut(unread)) \subseteq BagToSet(found)
    BY DEF FindsAllRoutes
  <2>1. BagToSet(found) \subseteq Wanted
    BY DEF OnRoutes, SelectsAsMeant
  <2>2. WantedBut(unread) \subseteq BagToSet(found)
    BY AllMet, AllBrought
  <2>3. unread = {} => Wanted = WantedBut(unread)
    BY DEF Wanted
  <2> QED BY <2>1, <2>2, <2>3
<1> HIDE DEF Inv
<1> QED BY <1>1, <1>2, <1>3, PTL DEF Spec

\* No patterns for paths: names alone leave out no directory.
NamesOnly == Scenario.selector.paths = {} /\ Scenario.selector.excluded = {}

LEMMA NamesAsMeant == Typed /\ NamesOnly => SelectsAsMeant
<1> SUFFICES ASSUME Typed, NamesOnly PROVE SelectsAsMeant
  OBVIOUS
<1>1. scenario \in DOMAIN Scenarios
  BY TreeAssumption DEF Typed
<1>2. Scenario = Scenarios[scenario] /\ Scenario.selector.paths = {} /\ Scenario.selector.excluded = {}
  BY DEF Scenario, NamesOnly
<1>3. DirSelected = Paths /\ DirsMeant[scenario] = Paths
  BY <1>1, <1>2 DEF DirSelected, DirsSelected, DirsMeant, matches_dir, AbsPatterns, Matched
<1>4. FileSelected = FilesMeant[scenario]
  BY <1>1, <1>2 DEF FileSelected, FilesSelected, FilesMeant, matches_full_path, AbsPatterns, Matched
<1>5. LeftOut({})
  BY <1>3 DEF LeftOut
<1> QED BY <1>3, <1>4, <1>5 DEF SelectsAsMeant, SelectsNoMore

\* In particular, a walk without patterns for paths finds all files of its names.
THEOREM FindsAllNames == Spec => [](NamesOnly /\ AnyRouteWillDo => FindsAllRoutes)
<1>1. Typed /\ (SelectsAsMeant /\ AnyRouteWillDo => FindsAllRoutes)
        => (NamesOnly /\ AnyRouteWillDo => FindsAllRoutes)
  BY NamesAsMeant
<1> QED BY <1>1, InitTyped, NextTyped, FindsAll, PTL DEF Spec

=============================================================================
