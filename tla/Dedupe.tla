------------------------------- MODULE Dedupe --------------------------------
(***************************************************************************)
(* The second half of fclones: `dedupe` and `run_script` of                *)
(* src/fclones/src/dedupe.rs with the reflink of src/fclones/src/reflink.rs*)
(* and the lock of src/fclones/src/lock.rs.                                *)
(*                                                                         *)
(* Worker threads take a group of the report each, read the metadata of    *)
(* its files, divide them into files to keep and files to drop, and pass   *)
(* one command per dropped file on to workers again, so commands of one    *)
(* group and of others run interleaved, system call by system call.  Any   *)
(* call may fail.  A crash leaves what the last step left: the safety      *)
(* properties are invariants, so they speak of crashes as well.            *)
(*                                                                         *)
(* Other programs may rewrite a file at any time, hold advisory locks, and *)
(* create files in the directory to move to.  Only a write before the      *)
(* metadata of a group is read can be noticed: afterwards the group is     *)
(* overtaken, and nothing is promised of its contents.  A command is named *)
(* after the path it drops.                                                *)
(***************************************************************************)
EXTENDS Partition, FileSystem

CONSTANTS
  Paths,
  Length,       \* Length[c]: the length of contents c
  Device,       \* Device[p]
  SameMount,    \* the paths on the mount point of the directory to move to
  NewContents, Garbage, \* what others write; what a failed copy leaves
  Foreign,      \* what others keep where a file may be moved to
  MaxFaults     \* bound: how many calls may fail without a reason in the model

\* What the scenario says besides the options of Partition.
Dir0 == Scenario.dir0         \* Dir0[p]: the entry of p when the report was written
Data0 == Scenario.data0       \* Data0[i]: the contents of inode i then
Report == Scenario.report     \* a sequence of groups [files, len]
Ops == Scenario.ops           \* the operations to choose from
ShouldLock == Scenario.shouldLock   \* negation of --no-lock
NoCheckSize == Scenario.noCheckSize
DryRun == Scenario.dryRun     \* the commands are printed, see ShellScript.tla
Rewritable == Scenario.rewritable   \* the paths other programs may write to
Lockable == Scenario.lockable       \* the paths other programs may lock
LateLocks == Scenario.lateLocks     \* whether they may also do so once fclones tried to
Occupiable == Scenario.occupiable   \* the paths p of which they may create To(p)
LateFiles == Scenario.lateFiles     \* whether they may also do so once fclones looked there

Tmp(p) == <<"tmp", p>>      \* temp_file: a random name next to p
To(p) == <<"moved", p>>     \* move_target: a path of its own under the directory
Names == Paths \cup {Tmp(p) : p \in Paths} \cup {To(p) : p \in Paths}

VARIABLES
  recent,       \* inodes written after the report, before their group was divided
  overtaken,    \* indices of the groups that others wrote to later
  op,
  prepared,     \* indices of the groups that were divided
  target,       \* per path: the file retained in its place
  pc,           \* per path: the stage of its command; "idle" without one
  locked,       \* paths locked by other programs
  occupied,     \* paths p of which other programs created To(p)
  faults        \* calls that failed so far without a reason in the model

vars == <<scenario, dir, data, recent, overtaken, op, prepared, target, pc, locked, occupied, faults>>
worldVars == <<scenario, recent, overtaken, locked, occupied>>
planVars == <<op, prepared, target>>

Members(g) == ToSet(Report[g].files)
Idle == "idle"
Ended == {Idle, "done", "failed"}
LineStages == <<"lock", "line 2", "line 3">>   \* of a printed command
Stages == Ended \cup ToSet(LineStages) \cup { "unlink", "away", "link", "undo", "cleanup", "backup",
  "unbackup", "clone", "restore", "checkRename", "rename", "checkCopy", "copy", "unsource"}

Operations == {"remove", "softlink", "hardlink", "reflink", "move"}
EntriesTo(inodes) == {NoEntry} \cup {FileEntry(i) : i \in inodes} \cup {LinkEntry(p) : p \in Paths}

ASSUME ReportAssumption ==
  /\ MaxFaults \in Nat /\ Hops \in Nat
  /\ Created \in [Paths -> Int \cup {NoStamp}]
  /\ Modified \in [Paths -> Int] /\ Nesting \in [Paths -> Int]
  /\ \A p \in Paths : Tmp(p) \notin Paths /\ To(p) \notin Paths
  /\ \A i \in 1..Len(Scenarios) :
       LET s == Scenarios[i] IN
       /\ s.dir0 \in [Paths -> EntriesTo(Paths)]
       /\ s.report \in Seq([files : Seq(Paths), len : Nat])
       /\ s.ops \subseteq Operations
       /\ s.roots \in Seq(ToSet(s.roots))
       /\ s.priority \in Seq(Priorities)
       /\ s.rfOver \in Nat
       /\ \A g, h \in 1..Len(s.report) :
            g # h => ToSet(s.report[g].files) \cap ToSet(s.report[h].files) = {}

Init ==
  /\ scenario \in 1..Len(Scenarios)
  /\ dir = [n \in Names |-> IF n \in Paths THEN Dir0[n] ELSE NoEntry]
  /\ data = [i \in Names |-> IF i \in DOMAIN Data0 THEN Data0[i] ELSE Garbage]
  /\ recent = {}
  /\ overtaken = {}
  /\ op \in Ops
  /\ prepared = {}
  /\ target = [p \in Paths |-> p]
  /\ pc = [p \in Paths |-> Idle]
  /\ locked = {}
  /\ occupied = {}
  /\ faults = 0

-----------------------------------------------------------------------------
(* Other programs.                                                         *)

\* An in-place write, which the metadata of the group shows if it is not read yet.
Rewrite(p) ==
  /\ p \in Rewritable
  /\ Resolves(dir, p)
  /\ data' = [data EXCEPT ![InodeOf(dir, p)] = NewContents]
  /\ \E g \in 1..Len(Report) :
       /\ p \in Members(g)
       /\ recent' = IF g \in prepared THEN recent ELSE recent \cup {InodeOf(dir, p)}
       /\ overtaken' = IF g \in prepared THEN overtaken \cup {g} ELSE overtaken
  /\ UNCHANGED <<scenario, dir, planVars, pc, locked, occupied, faults>>

LockByOther(p) ==
  /\ p \in Lockable \ locked
  /\ IF LateLocks THEN dir[p] = Dir0[p] ELSE pc[p] \in {Idle, "lock"}
  /\ locked' = locked \cup {p}
  /\ UNCHANGED <<scenario, fsVars, recent, overtaken, planVars, pc, occupied, faults>>

\* A file where p is to be moved to.
Occupy(p) ==
  /\ p \in Occupiable \ occupied
  /\ ~Exists(To(p))
  /\ LateFiles \/ pc[p] \in {Idle, "lock", "checkRename", "checkCopy"}
  /\ Store(To(p), Foreign)
  /\ occupied' = occupied \cup {p}
  /\ UNCHANGED <<scenario, recent, overtaken, planVars, pc, locked, faults>>

-----------------------------------------------------------------------------
(* dedupe: from a group of the report to commands.                         *)

\* Mutated form of Selected: only the file that was modified is skipped.
SelectUnmodified(files) ==
  Filtered(files, {p \in ToSet(files) : InodeOf(dir, p) \notin recent})

\* The files partition divides: those of the recorded length, or none when one
\* of them was modified too late.  The stat follows links: all are files.
Selected(files) ==
  IF \E p \in ToSet(files) : InodeOf(dir, p) \in recent
    THEN <<>> ELSE files

\* Hard links and reflinks need a retained file on the same device.
PerDevice(files) ==
  IF op \in {"hardlink", "reflink"}
    THEN {Filtered(files, {p \in ToSet(files) : Device[p] = d}) : d \in {Device[p] : p \in ToSet(files)}}
    ELSE {files}

OfLength(files, len) ==
  Filtered(files, {p \in ToSet(files) : NoCheckSize \/ Length[data[InodeOf(dir, p)]] = len})

\* One worker handles a group: a stat that fails rejects it all.  The division
\* depends on the stats only, so they are one step: a write to a file after its own
\* stat is one after the division (but for two links of the file, whose stats are
\* taken for one).
Divided(g) ==
  LET files == Report[g].files
      id == [p \in Members(g) |-> InodeOf(dir, p)]
  IN IF \A p \in Members(g) : Resolves(dir, p)
       THEN {Partitioned(Selected(OfLength(part, Report[g].len)), id) : part \in PerDevice(files)}
       ELSE {}

Prepare(g) ==
  /\ g \notin prepared
  /\ prepared' = prepared \cup {g}
  /\ \E parts \in {Divided(g)} :
       LET dropped == UNION {ToSet(x.drop) : x \in parts}
           retained(p) == (CHOOSE x \in parts : p \in ToSet(x.drop)).keep[1]
       IN /\ target' = [p \in Paths |-> IF p \in dropped THEN retained(p) ELSE target[p]]
          /\ pc' = [p \in Paths |-> IF p \in dropped THEN "lock" ELSE pc[p]]
  /\ UNCHANGED <<fsVars, worldVars, op, faults>>

-----------------------------------------------------------------------------
(* execute: the calls of a command.                                        *)

Goto(p, stage) == pc' = [pc EXCEPT ![p] = stage]

\* A call fails for a reason in the model, or for one outside of it.
Fails(can) ==
  /\ can => faults < MaxFaults
  /\ faults' = IF can THEN faults + 1 ELSE faults

\* The call of stage `at`: the condition and the effect, and where to go on.
Call(p, at, can, Effect, then, otherwise) ==
  /\ pc[p] = at
  /\ \/ can /\ Effect /\ Goto(p, then) /\ UNCHANGED faults
     \/ Fails(can) /\ Goto(p, otherwise) /\ UNCHANGED fsVars
  /\ UNCHANGED <<worldVars, planVars>>

\* The call whose failure is only logged.
Attempt(p, at, can, Effect, then) == Call(p, at, can, Effect, then, then)

FirstCall(p) ==
  CASE op = "remove" -> "unlink"
    [] op \in {"softlink", "hardlink"} -> "away"
    [] op = "reflink" -> "backup"
    [] op = "move" -> IF p \in SameMount THEN "checkRename" ELSE "checkCopy"

\* Mutated form of Lock: no command looks at the result.
LockUnchecked(p) ==
  /\ ~DryRun
  /\ Attempt(p, "lock", ~(ShouldLock /\ p \in locked), UNCHANGED fsVars, FirstCall(p))

\* maybe_lock: `let _` drops the lock as soon as it was obtained; Move does not
\* look at the result.
Lock(p) ==
  LET busy == ShouldLock /\ p \in locked IN
  /\ ~DryRun
  /\ Call(p, "lock", ~busy, UNCHANGED fsVars, FirstCall(p),
          IF op = "move" \/ ~ShouldLock THEN FirstCall(p) ELSE "failed")

\* FsCommand::Remove
RemoveFile(p) == Call(p, "unlink", Exists(p), Unlink(p), "done", "failed")

\* Mutated form of MoveAway: the file is removed before the link is made.
RemoveAway(p) == Call(p, "away", Exists(p), Unlink(p), "link", "failed")

\* safe_remove moves the file away, ...
MoveAway(p) == Call(p, "away", Exists(p), Rename(p, Tmp(p)), "link", "failed")

\* Mutated form of MakeLink: the link points to the file that was moved away.
LinkToTmp(p) == Call(p, "link", ~Exists(p), Symlink(Tmp(p), p), "cleanup", "undo")

\* ... symlink does not look at its target, hardlink does ...
MakeLink(p) ==
  \/ /\ op = "softlink"
     /\ Call(p, "link", ~Exists(p), Symlink(target[p], p), "cleanup", "undo")
  \/ /\ op = "hardlink"
     /\ Call(p, "link", ~Exists(p) /\ Exists(target[p]), HardLink(target[p], p), "cleanup", "undo")

\* Mutated form of Undo: the error is returned at once.
NoUndo(p) == Attempt(p, "undo", TRUE, UNCHANGED fsVars, "failed")

\* ... the move is undone if that failed, also for reflinks ...
Undo(p) == Attempt(p, "undo", Exists(Tmp(p)), Rename(Tmp(p), p), "failed")

\* ... and the temporary file is removed if it succeeded.
Cleanup(p) ==
  Attempt(p, "cleanup", Exists(Tmp(p)), Unlink(Tmp(p)),
          IF op = "reflink" THEN "restore" ELSE "done")

\* linux_reflink clones the file to a temporary one; when it fails, an empty
\* temporary file may exist already.
Backup(p) ==
  \/ Call(p, "backup", Resolves(dir, p), Store(Tmp(p), data[InodeOf(dir, p)]), "clone", "unbackup")
  \/ /\ pc[p] = "backup"
     /\ Fails(TRUE)
     /\ Store(Tmp(p), Garbage)
     /\ Goto(p, "unbackup")
     /\ UNCHANGED <<worldVars, planVars>>

DropBackup(p) == Attempt(p, "unbackup", Exists(Tmp(p)), Unlink(Tmp(p)), "failed")

\* The retained file's data replaces that of the dropped file, in its inode.
CloneRetained(p) ==
  Call(p, "clone", Resolves(dir, target[p]), Store(p, data[InodeOf(dir, target[p])]),
       "cleanup", "undo")

\* The timestamps of the dropped file are set again.
RestoreTimes(p) == Call(p, "restore", Resolves(dir, p), UNCHANGED fsVars, "done", "failed")

\* move_rename, and move_copy when it fails; each checks that nothing is there
\* and makes the directories first.
CheckRename(p) ==
  Call(p, "checkRename", ~Resolves(dir, To(p)), UNCHANGED fsVars, "rename", "checkCopy")
RenameSource(p) == Call(p, "rename", Exists(p), Rename(p, To(p)), "done", "checkCopy")
CheckCopy(p) ==
  Call(p, "checkCopy", ~Resolves(dir, To(p)), UNCHANGED fsVars, "copy", "failed")

\* A copy that fails may leave part of the contents at the target.
Copy(p) ==
  \/ Call(p, "copy", Resolves(dir, p), Store(To(p), data[InodeOf(dir, p)]), "unsource", "failed")
  \/ /\ pc[p] = "copy"
     /\ Fails(TRUE)
     /\ Store(To(p), Garbage)
     /\ Goto(p, "failed")
     /\ UNCHANGED <<worldVars, planVars>>

RemoveSource(p) == Call(p, "unsource", Exists(p), Unlink(p), "done", "failed")

-----------------------------------------------------------------------------

Execute(p) ==
  \/ Lock(p) \/ RemoveFile(p)
  \/ MoveAway(p) \/ MakeLink(p) \/ Undo(p) \/ Cleanup(p)
  \/ Backup(p) \/ DropBackup(p) \/ CloneRetained(p) \/ RestoreTimes(p)
  \/ CheckRename(p) \/ RenameSource(p) \/ CheckCopy(p) \/ Copy(p) \/ RemoveSource(p)

AllDone == prepared = 1..Len(Report) /\ \A p \in Paths : pc[p] \in Ended

Others == \E p \in Paths : Rewrite(p) \/ LockByOther(p) \/ Occupy(p)

Next ==
  \/ \E g \in 1..Len(Report) : Prepare(g)
  \/ \E p \in Paths : Execute(p)
  \/ Others
  \/ (AllDone /\ UNCHANGED vars)

Spec == Init /\ [][Next]_vars

-----------------------------------------------------------------------------
(***************************************************************************)
(* Properties.                                                             *)
(***************************************************************************)

Dropped == {p \in Paths : pc[p] # Idle}
Original(p) == Data0[InodeOf(Dir0, p)]

\* The file of p is in no group that others wrote to once its metadata was read.
FileOf(p) == Dir0[EndOf(Dir0, p)]
Calm(p) == \A g \in overtaken : FileOf(p) \notin {FileOf(q) : q \in Members(g)}

TypeOK ==
  /\ scenario \in 1..Len(Scenarios)
  /\ dir \in [Names -> EntriesTo(Names)]
  /\ DOMAIN data = Names
  /\ recent \subseteq Names
  /\ overtaken \subseteq prepared
  /\ op \in Ops
  /\ prepared \subseteq 1..Len(Report)
  /\ target \in [Paths -> Paths]
  /\ pc \in [Paths -> Stages]
  /\ locked \cup occupied \subseteq Paths
  /\ faults \in 0..MaxFaults

\* Whatever was in a regular file is in some regular file: what was there when
\* the report was written, unless the group was overtaken, what another program wrote
\* before the group was divided, and what one put at the place of a file to be moved.
\* It holds at any moment, so also when fclones is killed there.
Stored == {data[dir[n].inode] : n \in {m \in Names : dir[m].kind = "file"}}

ContentsSurvive ==
  /\ \A p \in Paths :
       Calm(p) /\ Resolves(Dir0, p) /\ InodeOf(Dir0, p) \notin recent => Original(p) \in Stored
  /\ recent # {} => NewContents \in Stored
  /\ \A p \in occupied : Reads(To(p), Foreign)

\* Unless it is to be removed, what a path held can be read at the path, at its
\* temporary name or at the place it is moved to, whatever call fails.
PathsReadable ==
  op # "remove" =>
    \A p \in Dropped :
      Calm(p) => \E n \in {p, Tmp(p), To(p)} : Reads(n, Original(p))

\* No contents are lost at any step of any command, whatever fails, and wherever
\* fclones is killed: they exist, and where the user will look for them.  A write to
\* a group that is divided already harms no other group.
NothingLost == ContentsSurvive /\ PathsReadable

\* The same of groups that are overtaken: what other programs write is not dropped
\* with the file.  The code does not promise that.
LateWritesSurvive == recent # {} \/ overtaken # {} => NewContents \in Stored

\* "If the function fails, moves the file back to the original location": with
\* one failing call, a failed command leaves its path as it was, and it leaves
\* nothing next to it.
FailureUndone ==
  \A p \in Paths :
    pc[p] = "failed" /\ faults <= 1 =>
      /\ Calm(p) => Reads(p, Original(p))
      /\ ~Exists(Tmp(p)) /\ (op # "reflink" => dir[p] = Dir0[p])

\* "overwrite the existing file to preserve most metadata": a reflink that fails
\* leaves the file with the inode, and so the owner, mode and links, it had.
FailureKeepsInode ==
  \A p \in Paths : op = "reflink" /\ pc[p] = "failed" => dir[p] = Dir0[p]

\* A command that succeeded did what it says, and no later step undoes it.
DoneMeansDone ==
  \A p \in Paths : pc[p] = "done" =>
    /\ CASE op \in {"remove", "move"} -> ~Exists(p)
         [] op = "softlink" -> dir[p] = LinkEntry(target[p])
         [] op = "hardlink" -> dir[p] = dir[target[p]]
         [] op = "reflink"  -> ~DryRun => dir[p] = Dir0[p]
    /\ op # "remove" /\ Calm(p) => Reads(IF op = "move" THEN To(p) ELSE p, Original(p))

\* Commands do all of their work or none, while others run beside them.
AllOrNothing == FailureUndone /\ DoneMeansDone

\* "Keep at least n replicas untouched": links to one file are one replica, and
\* files under one root are one.  Nobody writes to files before they are
\* divided, or to the group after.
ReplicaOf(p) ==
  IF UnderRoot[p] # {} THEN <<"root", CHOOSE r \in UnderRoot[p] : TRUE>>
  ELSE IF MatchLinks THEN <<"path", p>> ELSE <<"inode", InodeOf(Dir0, p)>>

Untouched(p) == pc[p] = Idle /\ dir[p] = Dir0[p] /\ Reads(p, Original(p))

ReplicasKept ==
  recent = {} =>
    \A g \in (1..Len(Report)) \ overtaken :
      LET before == {ReplicaOf(p) : p \in Members(g)}
          after == {ReplicaOf(p) : p \in {q \in Members(g) : Untouched(q)}}
      IN Cardinality(after) >= Min({Max({1, RfOver}), Cardinality(before)})

\* "the files sharing the same root can be either all dropped or all retained",
\* and nothing under a keep pattern is ever dropped.
RootsWhole ==
  /\ \A g \in 1..Len(Report) : \A p, q \in Members(g) :
       UnderRoot[p] \cap UnderRoot[q] # {} => (p \in Dropped <=> q \in Dropped)
  /\ Dropped \cap KeepMatched = {}

\* A group of which a file was written after the report and before the metadata was
\* read, and kept its length, is skipped as a whole: nobody knows whether the others
\* are still its duplicates.  Whatever others write later does not change that.
RecentGroupsSkipped ==
  \A g \in 1..Len(Report) :
    (/\ Length[NewContents] = Report[g].len
     /\ \E p \in Members(g) : InodeOf(Dir0, p) \in recent) => Members(g) \cap Dropped = {}

\* "Symbolic links are not treated as duplicates of their targets, unless
\* `--match-links` is set."
LinksAreNoDuplicates ==
  ~MatchLinks =>
    \A p \in Dropped :
      Dir0[p].kind = "symlink" \/ Dir0[target[p]].kind = "symlink" =>
        EndOf(Dir0, p) # EndOf(Dir0, target[p])

\* dedupe never emits commands to remove a file which "was not matched by all
\* `drop_path` and `drop_name` patterns".
DroppedMatchAll ==
  \A p \in Dropped : /\ NamePatterns => p \in NameMatched
                     /\ PathPatterns => p \in PathMatched

FirstRank(g, p) ==
  LET place == CHOOSE i \in 1..Len(Report[g].files) : Report[g].files[i] = p
  IN CASE Priority[1] = "top"    -> -place
       [] Priority[1] = "bottom" -> place
       [] OTHER                  -> SortKey(Priority[1], <<p>>)

\* Unrelated files without patterns.
Plain(g) ==
  /\ Roots = <<>> /\ KeepMatched = {} /\ ~NamePatterns /\ ~PathPatterns
  /\ \A p, q \in Members(g) : p # q => InodeOf(Dir0, p) # InodeOf(Dir0, q)

\* "The priorities at the beginning of the argument list have precedence over
\* the priorities given at the end": what is dropped ranks, by the first option
\* that tells them apart, behind what is kept.
FirstPriorityDecides ==
  Priority # <<>> =>
    \A g \in prepared : Plain(g) =>
      \A p \in Members(g) \cap Dropped, q \in Members(g) \ Dropped :
        FirstRank(g, q) <= FirstRank(g, p)

\* Files are locked before an action is performed on them, unless --no-lock: a
\* file another program has locked is left alone.
LockedLeftAlone ==
  ShouldLock => \A p \in locked : dir[p] = Dir0[p] /\ (Calm(p) => Reads(p, Original(p)))

=============================================================================
