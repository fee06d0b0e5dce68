# A specification of fclones

fclones finds files with identical contents (`fclones group`), writes a report,
and removes, links, reflinks or moves the duplicates a report names
(`fclones remove | link | dedupe | move`). This directory holds TLA+ models of the
algorithms behind both halves, the TLC configurations that check them on small
instances, and TLAPS proofs of theorems about them: the semaphore, the hashing engine, the
grouping stages, the walk, the transforms, the hash cache, the deduplication with its choice of what to
drop, the printing of a script, and the report that the first half hands over to the second. `PROJECT.json` lists components, runs, mutants, findings, hazards and
theorems, and maps every definition to the lines it models. All source paths
below are relative to `src/fclones/src/`.

To check one run or one proof:

    tlc -workers 2 -config MCRehash.cfg MCRehash
    tlapm RehashProofs.tla

## 1. Inventory

### How a run goes

`fclones group`:

    input paths ── walk ──> files ── group_files: by size ─> by prefix ─> by suffix
                                        ─> by contents (or by transform) ──> report

The walk is a tree of racing rayon tasks. Each hashing stage of `group_files` is one
call of `rehash`, which has a thread and a pool per device, two semaphores and
a channel. A task of a stage asks the hasher for a hash; the hasher asks the hash cache
first, and with `--transform` starts an external program and hashes what it prints.

`fclones remove` and its siblings:

    report ── groups ──> partition (keep / drop) ──> commands ──> run_script (execute)
                                                            └───> log_script (--dry-run)

Groups are divided in parallel, and the commands of all groups run in parallel on a pool.
Each command is a handful of system calls with an undo when one fails; `--dry-run` prints
shell commands for the user to run instead. Between the two
halves anybody may change the files; the report's timestamp and the recorded
length are what `run_dedupe` has to notice it.

The two halves are two processes, often a pipeline. What the second one knows
of the first is the report: its command line in one quoted line, its base directory, the
time, and a path per line. `run_dedupe` parses the command line again and takes from it how
many replicas to keep, the isolated roots, and whether links are duplicates.

### Components

| Component | Code | State | Operations | Talks to | Module |
|---|---|---|---|---|---|
| Counting semaphore | `semaphore.rs`, `rlimit.rs` | count behind a mutex, waiters of a condvar, guards | acquire, release, access, access_owned, drop of a guard on any thread | rehash (tasks per device), the hasher (open files, process-wide) | `Semaphore` |
| Parallel hashing engine | `group.rs` `rehash` | vectors per device, queued tasks, permits, channel, senders, result map | launch, sort by location, cut into runs of links, spawn, hash, send, drop, collect | pools, semaphores, hash function of the stage | `Rehash` |
| Grouping stages | `group.rs` `group_files`, `write_report`; `hasher.rs`; `file.rs` | `FileInfo` (length, id), groups, their hashes, prefix length | scan, group by size, remove same files, four hashing stages, filters, timestamp | walk, rehash, file system, report | `GroupStages` |
| Directory walk | `walk.rs` | tasks, the set of visited paths, what the consumer got | visit_path, visit_entry, visit_file, visit_link, visit_dir | file system, selector, ignore files | `Walk` |
| Partition | `dedupe.rs` `partition`, priorities; `FileSubGroup` in `group.rs` | none (a function of one group and its metadata) | subgroup by root and id, sort by priorities, patterns, retain n | report, file metadata | `Partition` |
| Deduplication commands | `dedupe.rs`, `reflink.rs`, `lock.rs` | the file system; a stage per command; advisory locks | remove, soft link, hard link, reflink, move by rename, move by copy; undo | file system, other programs | `FileSystem`, `Dedupe` |
| Dry-run script | `dedupe.rs` `dedupe`, `log_script`; `main.rs` | report iterator under a mutex, channel, priority queue | pull, send, receive, print, fail | report reader, writer | `Script` |
| External transforms | `transform.rs`, `hasher.rs` | worker, child, stderr reaper, pipes, fifo, mutex of the child, temporary files | prepare, spawn, open, read, lock, wait, drop | operating system, the child | `Transform` |
| Hash cache | `cache.rs`, `hasher.rs` | tree of entries in memory and on disk, flusher thread | get, put, flush, close; crash, restart | file system, hasher | `HashCache` |
| Groups and their statistics | `group.rs` `FileGroup`, `FileSubGroup`, `FileGroupFilter` | none | subgroups by root and id, filters, redundant and missing counts, sorting | stages, partition, report | `FileGroups` |
| Report | `report.rs`, `group.rs` `write_report` | lines written, position of the reader | write a header and groups in four formats, read them in two, malformed lines | both halves | `Report`, `Handover` |
| Handover | `main.rs` `run_group`, `run_dedupe`; `config.rs` | configurations of both processes, the header, groups found, read and divided | validate, resolve, group, write, read, rebuild, divide | both halves | `GroupConfig`, `Handover` |
| Command line | `arg.rs`, `config.rs` | options | quote, join, split, parse; isolated roots, `rf_over`, base directory | handover | `Quoting`, `GroupConfig`; clap is external |
| Paths | `path.rs` | shared prefixes | from and to text, escape, join, resolve, prefix | everything | `PathText`; sharing and hashing are not modelled |
| Patterns, selectors | `pattern.rs`, `regex.rs`, `selector.rs` | none | translate a glob, fixed prefix, match a path, match a directory | walk | `Selector` |
| Shell commands | `dedupe.rs` `to_shell_str` | the file system; a line per command | print the lines of a command; the shell runs them | shell, file system | `ShellScript` |
| Devices and pools | `device.rs` | list of disks and mount points | device and mount point of a path, threads of a device | rehash, walk, move | `Devices`; discovery is not modelled |
| Progress, logging, errors | `progress.rs`, `phase.rs`, `log.rs`, `error.rs` | terminal | print | nothing reads it | not modelled |
| Test generator, packaging | `gen-test-files/`, `packaging/` | – | – | – | not part of the program |

### What is hard, and what has to be right

* **Semaphore.** `release` notifies after it has unlocked, guards cross threads.
  Permits are conserved; no wake-up is lost.
* **rehash.** The hash function's lifetime is transmuted to `'static`, and nothing joins
  the tasks: the call may only return when no task is left, and only the senders
  see to that. Files are moved between vectors, tasks, the channel and the map. Two
  semaphores are nested. No file is lost or sent twice, the limits hold, files of a
  device are read in the order of their location, links are read once, the call returns.
* **Stages.** Hashes of parts stand for hashes of files under conditions on lengths;
  the suffix hash is XORed into the prefix hash; a hash is copied to links; filters are
  relaxed for intermediate stages; other programs write meanwhile. Reported files
  are identical, duplicates are reported, and as many as the user asked for.
* **Walk.** Marking a path as visited is separate from the tests (depth, device, ignore
  files) that decide whether it is read. Every file a route leads to is found once, cycles
  end, what is unreadable hides nothing else.
* **Transforms.** Three actors, three pipes and a mutex: who waits for whom, and who
  cleans up. The call returns, the hash covers all output, nothing is left behind.
* **Cache.** Metadata is taken before the file is opened; hashes outlive the process and
  crashes. A hash from the cache is that of the file.
* **Partition.** Roots, links, priorities and patterns combine. Enough replicas stay.
* **Commands.** Each is several system calls, any of which fails, is interleaved with
  others, or is the last one before a crash. No contents are lost, failures are undone.
* **Script.** Results arrive in any order; errors come from both ends. The printed lines
  do to the file system what the commands would do, though nothing undoes a failed line.
* **Handover.** A report may be cut off anywhere, and its reader cannot always tell; names hold blanks, quotes, line ends and backslashes; time has milliseconds
  in the report and more on disk. What is read is what was found, the options are
  the first process's, what is dropped is what it announced.
* **Selection.** Directories are pruned by the fixed prefix of a translated pattern. No
  directory that holds a matching file is pruned.

## 2. Plan

The order is that of importance: first the engine everything goes through, then
what the program promises (duplicates are duplicates, deduplication loses nothing), then
the components around it. All steps are done.

| # | Modules | Composes / abstract specification | State of it |
|---|---|---|---|
| 1 | `CountingSemaphore`, `Semaphore`, `RehashProofs` | `Semaphore` implements `CountingSemaphore` | checked, proved |
| 2 | `HashGrouping`, `Rehash`, `RehashProofs` | `Rehash` implements `HashGrouping`; a semaphore in it is its count, which step 1 justifies | checked, safety and refinement proved |
| 3 | `GroupStages`, `GroupStagesProofs` | a stage is one call of what `HashGrouping` abstracts | checked, safety proved |
| 4 | `FileSystem`, `Partition`, `Dedupe`, `FileGroupsProofs`, `DedupeProofs` | `Dedupe` extends the other two | checked, safety proved |
| 5 | `Walk`, `WalkProofs` | | checked; found once, end of cycles and that the files found are those on the routes proved |
| 6 | `Transform`, `HasherProofs` | | checked, safety proved |
| 7 | `HashCache`, `HasherProofs` | | checked, safety proved |
| 8 | `Script`, `ScriptProofs` | a group gives a number of lines; `Dedupe` has the commands | checked, safety proved |
| 9 | `Quoting`, `PathText`, `GroupConfig`, `Report`, `FileGroups`, `Handover`, `HandoverProofs` | `Handover` composes the others into the pipeline, with `Group` for what `GroupStages` does in detail and `Decision` for `Partition` | checked, safety proved |
| 10 | `ShellScript`; `Selector`; `Devices` | `ShellScript` extends `Dedupe` and is checked against the same properties; `Walk` uses `Selector`; `Devices` computes constants of `Rehash` and `Dedupe` | checked |
| 11 | The proof modules of steps 1 to 9 | each extends the modules of its components; `DedupeProofs` and `HandoverProofs` share the lemmas of `FileGroupsProofs` | proved |

## 3. The modules

Every variable and action has a comment in its module that names what it stands for.
Every module has one type invariant. Actions are named after functions and statements
of the code. Definitions called "Mutated form of ..." are variants with a plausible bug:
each property is shown to fail when one replaces the definition it mutates
(`PROJECT.json` "mutants").

`GroupStages`, `Walk`, `Handover` and `Dedupe` with `Partition` describe programs with many options.
There, a **scenario** is a record of the options the user gives and of the files they are used
on; the constant `Scenarios` is a sequence of them, `Init` chooses one, and each option is an
operator named as in `config.rs` (`MatchLinks == Scenario.matchLinks`). One run
therefore covers several configurations with one set of properties, and the guards read as in
the code.

### Semaphore (abstract: CountingSemaphore)

A step is one critical section of the mutex or one call outside of it. `TakePermit` and
`WaitOnCondvar` are the two ways the `while *count <= 0` loop goes; `Release` is the
increment, `NotifyWaiter` and `NotifyNobody` the separate `notify_one`. A condition
variable may wake up spuriously. Guards are a number, not tied to a thread.

### Rehash (abstract: HashGrouping)

Three kinds of processes: the caller (`Launch`, `DropOwnSender`, `Receive`,
`Disconnected`, `Return`), a thread per device (`SortByLocation`, `Spawn`, `EndThread`) and
tasks on the device's pool (`Start` to `DropTaskSender`). `Spawn` takes a permit of the
device's semaphore, cuts a run of links off the vector and clones the sender. A task
is named after the first file of its run and takes the steps of the closure in order,
destructors included: result sent, device permit given back, open-files permit
given back, sender dropped. `Start` honours `spawn_fifo` and the size of the pool. The sort is
unstable: any order that respects locations. The result of the hash function is
any of `HashFn[f]`, a failure is possible for `CanFail`.

`HashGrouping` says what a caller can rely on: each file is settled once, with the key of
some link of it or, with links of it, as unreadable; the call returns when
all are settled and nothing moves afterwards.

### GroupStages

The whole of `group_files`, one stage after the other, with the hashing of chunks taken
from `hasher.rs`. A unit of a sequence is a block of data; a hash is the set of
chunks XORed into it, so that the XOR of two hashes is the symmetric difference and
equal chunks cancel, as 128-bit hashes do. Hash collisions are left out, which is the
assumption fclones makes. `Stat` is the scan of one entry: it may fail, and files out of
`minSize` to `maxSize` are left out by the length they have then. `HashRun` hashes the runs of links of a stage in any order,
which is what `Rehash` shows of the threads behind it. `Others` is the rest of
the world: it writes to a file or saves a new one under an old name, between any two
steps. Lengths that underflow wrap to a position no file has.

### Walk and Selector

The tasks of the rayon scope are a bag; any of them runs next. `VisitPath` has the
check and mark of the visited set (one step in the code, a concurrent set) and goes on to
what the path is; `VisitEntry` stands for `visit_entry` after the ignore files were
consulted; `Unreadable` for a failing stat, read_dir or read_link. The tree is constant.

`Selector` is `--name`, `--path` and `--exclude`: a glob of characters, `?`, `*` and `**` is
translated to a regular expression by `glob_to_regex`, patterns are made absolute by a
base directory whose special characters are escaped, and a directory is read if the fixed prefix of a pattern
leaves a chance for a file in it (`matches_partially`, `get_fixed_prefix`, which reads the
anchored expression character by character as the code does). What a path should match is defined
apart in `Walk` (`Meant`), without prefixes, by a match of whole paths; `FindsAllRoutes`
compares the walk with it.

### Partition, FileSystem, Dedupe

`Partition` translates `partition`: subgroups by root and file id, sorting by
priorities from last to first, keep and drop patterns, and the number of replicas to
retain. `FileSystem` has names, inodes and contents, and the system calls used on them; it
is external to the repository, modelled from how `dedupe.rs` and `reflink.rs` use it.
`Dedupe` extends both. `Prepare(g)` is what a worker does with a group up to its list of
commands; after that each command moves by itself, one system call per step (`Execute`), with its error
path: `undo`, `cleanup`, `restore`, `unsource`. A call fails if the file system says so, or
for no reason at all up to `MaxFaults` times. `Others` take locks, create files where
one is to be moved to (`Occupy`), and write to files whenever they like (`Rewrite`). The code can notice a write
only until it has read the metadata of the group (`fetch_files_metadata`, `dedupe.rs:934`); nothing protects the file from then
until its command ends (`execute`, `dedupe.rs:966`). A write before makes its file `recent`, one after makes
its group `overtaken`. The properties promise nothing of the contents of an overtaken group (`Calm`), as the code does not, but
all they say of other groups, of names and of what is dropped holds beside such writes; `LateWritesSurvive` says what the code
does not keep (scenario MCLateWrite). The stats of one group are one step: their result is all that counts, and a write
between two of them is one before or after it. A crash is not an action: every state is one a
crash can leave, and the invariants are about every state.

### ShellScript

`to_shell_str` gives the lines of a command, `mv`, `cp`, `ln` or `rm`, and `RunLine` runs one of them on the
file system of `Dedupe`, after the whole script was printed. A line that fails does not
stop the script: neither the lines nor the commands are joined by `&&`. Directories that the real commands
would create (`Unplaced`) do not exist. `ScriptSpec` contains `Next` of `Dedupe`, which prepares the commands
either way, so one run checks both kinds of execution against one set of properties.

### Transform

Worker, child and reaper as three processes; the pipes and the fifo as counters with a
capacity, since the properties are about how much is written and read and not about what.
`prepare` to `done` of the worker are the steps of `hash_transformed`, including
what the destructors do after an error. If `File::open` fails on the fifo (`transform.rs:375`), the call ends in
`abandoned` and not in `done`: copy and fifo are removed, but there is no `Execution` whose destructor would wait for the
program. It runs on, may be stuck in its own open of the fifo, or makes a file of that name in
the temporary directory, which goes with the directory when fclones ends. `NothingLeftBehind` allows this on that path alone.

### HashCache

A call of a worker takes the metadata, looks up the inode, opens the path, reads it in
two parts and stores a hash. Between any two steps files are written, paths are swapped,
the flusher flushes, the process crashes. The contents of a file are a version
number, and a hash is made of the versions its parts were read in, the command and the
mode it was computed with.

### Script

Threads share the report's iterator (`Pull`, `Leave`) and send results; the printing thread
receives, queues, prints in order, or fails. A group is the number of lines its commands take.

### Handover, with Quoting, PathText, GroupConfig, Report and FileGroups

`Quoting` has `quote`, `join` and `split` of `arg.rs`, the last as the automaton
it is, with a state per kind of quotes; a character of two bytes ("~") shows where the code
counts characters and slices bytes. `PathText` has texts and paths, `GroupConfig` the
options of `group`: which combinations are refused, the base directory, `rf_over`, the filter, the roots.
`Report` writes a report as a sequence of lines and reads what is left of it: a line that is cut off is
malformed unless the cut is within a path, which then is a shorter path. `FileGroups` is
`FileSubGroup::group`, the two filters, and `redundant_count` and `missing_count`; `Partition` uses it too.

`Handover` runs the two processes side by side. `Refuse`, `Group`, `BeginReport`, `WriteLine`, `Complete` and
`Stop` are the first; `OpenReport`, `ReadHeader` and `ReadGroup` the second, which reads as soon as there is
something to read (JSON: when it is complete). `Tick` and `Modify` are the clock and other programs. A
millisecond has `TicksPerMilli` ticks: the text report's time is rounded down to one.

### Devices

Which device and which mount point hold a path, and the threads of a device:
`get_by_path`, `get_mount_point`, `get_parallelism`. MCRehash and MCDedupe check by an
assumption that the constants `Threads`, `Device` and `SameMount` are what `Devices` computes from the
disks of the instance: two mount points of one disk, a deeper one on another disk.

## 4. The runs

`tlc` ends each passing run with no error in at most two minutes on two cores.

### Runs that pass

| Run | States | What it shows |
|---|---|---|
| MCSemaphore | 671 | Permits are conserved, no wake-up is lost, nobody sleeps for ever beside a free permit, and the code implements the counter |
| MCRehash | 93,350 | Files are conserved, no task outlives the call, the result is complete, open files and queued tasks are bounded, files start in the order of location, links end in one group, the call returns, and `HashGrouping` is implemented |
| MCGroupStages | 1,530,622 | `MCBusy`: with two changes by other programs and an unreadable file, reported stable files are identical, stable duplicates are reported together, and no path twice. `MCQuiet`: without interference the report is exactly the classes of identical files with enough replicas, for ten contents of no to five blocks. `MCUnique`: the same for files without a replica up to a size of three blocks, empty ones included, with an isolated root. `MCTransforming`: with `--match-links`, grouped files have the same output, and the other way round |
| MCWalk | 28,026 | `MCFollow`: with links followed over cycles and nested inputs, every route's file is found, once, and no directory is entered again. `MCReport`: links reported, depth 1, ignore files, unreadable directories and dangling links: only what is below an unreadable directory is hidden. `MCOneFs`: hidden and ignored files, one file system. `MCSelect`: `--path`, `--name` with `--ignore-case` and `--exclude`: every matching file is found, and no other |
| MCTransform | 15,560 | For programs that print no more than their input: the call returns, the hash covers all output of a program that succeeded, no copy or fifo is left behind, nor is the program unless the fifo could not be opened |
| MCHashCache | 2,310,000 | Over two runs with crashes and failing flushes, a hash from the cache is that of the file, no wrong one is stored, and none is lost silently |
| MCDedupe | 428,616 | `MCPlain`: all five operations, two failing calls, a crash anywhere and a program that writes before metadata is read and after: no contents are lost but those of groups written to afterwards, failures are undone, success means what it says. `MCFirstModified`: a group of which the file to be kept is written to at its length before is skipped, and one written to afterwards is not noticed. `MCRoots`: isolated roots are dropped whole or not, enough replicas stay untouched, files locked before are left alone. `MCPriorities`: of two priorities the first one decides. `MCTargets`: a move never replaces a file that was there when it looked. `MCDry`: the script, run by a shell line by line with failing lines wherever the file system refuses, has the same properties |
| MCScript | 3,642 | The script is in the order of the report, complete up to the malformed group or the error that was reported, and the command ends |
| MCHandover | 75,345 | Ten pipelines over names with blanks, quotes, line ends and backslashes, cut off anywhere, a file modified at any time: the groups read are those found, up to the path in which the report was cut; the configuration is that of the first process; enough replicas stay as the first process counts them; a file modified later than the report's time keeps its group from being touched; exactly as many files are dropped as were announced |

### Bounds, and why they are enough

* **MCSemaphore**: four threads on two permits. Permits run out, two threads wait
  at once, and one can barge in between an increment and its notification.
* **MCRehash**: two devices, one of them with a single thread and one task
  in flight (its thread blocks on the semaphore), the other with two threads (tasks overlap
  and finish out of order); one open-files permit for all, so tasks of different
  devices wait for each other; a file with two links that may fail or be read in two
  versions; a group of one that is not hashed. `TasksPerThread` is 1 instead of 8.
* **MCGroupStages**: three files and a link on two kinds of disk, a path that is found twice,
  blocks of two values. A prefix is one block, or up to three on the hard disk; a suffix
  likewise; the suffix stage starts at three and four blocks. Files of one to five blocks
  therefore fall on every side of every comparison of lengths. Two changes (`maxChanges`) are
  enough to write to a file and replace it; interference is left out in `MCQuiet`, where the
  property is about the exact result of many contents.
* **MCWalk**: one tree of three directories with links back to the root,
  sideways, to a file, across a mount point and to nowhere. `depth` is 4 where links are
  followed, more than the longest route without a cycle. The patterns match at two depths, exclude
  one file and have a sibling directory whose name starts with the selected one's, the case in which a prefix as a text
  and a prefix as a path differ; one letter has a capital.
* **MCTransform**: pipes hold one unit (`PipeSize`), so a second unit blocks its writer.
  Input and output are up to two units, stderr up to two, chat on stdout up to one; the
  programs that write more are the subject of MCTransformLong.
* **MCHashCache**: two paths, two inodes, two workers, two runs. The clock ends at
  2 (`MaxTime`), a file is written at most once (`MaxWrites`); the states are reduced by the
  symmetry of the workers, which is sound as no property here is temporal. The run
  assumes (`WritesApart`, `MovesAnytime = FALSE`) what the failing cache configurations drop.
* **MCDedupe**: a group with two links of one file, copies on this and another device, and
  a second group; a move by rename and by copy (`SameMount`). Two faults (`MaxFaults`) are a
  failing call and a failing undo. The target directory of a move can hold two files of others already. In `MCPlain` the file written to
  changes its length, in `MCFirstModified` it keeps it, and the write may come before, between and after all of the steps.
* **MCScript**: three threads and four groups, one without commands; any group, or
  none, is malformed.
* **MCHandover**: up to five files in two classes, in two directories whose names need quotes in
  the header and escapes in the report; names are of one or two characters, one the start of another.
  A count is at most 3 (`Counts`), a name of an option one word. Two ticks make a millisecond
  (`TicksPerMilli`), the clock ends at 2 (`MaxTime`): a modification falls before, within and
  after the millisecond of the report. One file is modified (`MaxChanges`); a second one
  could only make the second process skip more.

### Fairness

Fairness is given only to steps that the operating system or rayon will take by
themselves; nothing is assumed about who wins a permit or a lock.

* `Semaphore`: weak fairness of a thread's steps inside of acquire and release. Callers need
  not call, guards need not be dropped, nobody is woken spuriously.
* `Rehash`: weak fairness of the caller, each device thread and each task. Threads of the
  operating system run, a free rayon worker takes a queued task, reading a file ends.
* `Transform`: weak fairness of worker, child and reaper, not of the failing calls (`Interrupted`), which must not
  be what ends a wait. The program goes on unless a pipe
  or the fifo blocks it: fclones cannot end for a program that does not.
* `Script`: weak fairness of each thread and of the one that prints.
* `Walk`, `GroupStages`, `Dedupe`, `ShellScript`, `HashCache`, `Handover`: no fairness; only safety is claimed.

Deadlock is checked everywhere, with an explicit stuttering step for the end
(`Finished`, `Reported`, `Done`, `AllDone`, `Over`), except in the Transform, HashCache and Script
configurations: their systems stop, when the call has returned, when the
runs, writes and the clock are used up, or when the command has ended.
`Transform` and `Script` state as liveness that this is the only way to stop.

The type invariants of `Walk`, `Transform`, `HashCache`, `Script` and `Dedupe` are defined in their modules but
are not part of the runs, which are for properties that could fail. They hold; add `TypeOK` to a configuration to check one.

### Runs that fail: where code and documentation differ

Each of these runs checks one statement quoted from a comment or help text of the
repository, which the code does not keep. The quotes are in `PROJECT.json` under "findings".

| Run | Statement | What happens |
|---|---|---|
| MCGroupXor | Identical | `--max-prefix-size` is larger than `--max-suffix-size`: a file of the suffix's length (which reaches the threshold) is hashed whole as prefix and whole as suffix, and the XOR of the two is 0 whatever it contains. Different files of that length are grouped, and as they are shorter than the prefix they are not read again (`group.rs:1126`). In the trace the prefix has 4 blocks, suffix, threshold and files have 3; were the two sizes equal, the files would be read again |
| MCTransformNoCopy | OriginalKept | `--in-place --no-copy` removes the user's file when the call that hashed it returns, without any failure |
| MCHandoverRf | ReplicasLeft | After `group --rf-over 2 --transform`, the second process keeps one replica, since it takes `rf_over()`, which is 0 for a transform |

Eight more configurations are kept beside the runs. Each fails as the table
says, mostly with unusual options or an unlucky schedule, and reproduces a difference of the same kind.

| Configuration | Statement | Said at | What happens |
|---|---|---|---|
| MCTransformLong | Returns | `transform.rs:377` | A program that prints more than its input blocks on its pipe, while the call waits for its end |
| MCRehashTransform | LinksInOneGroup | `config.rs:181` | The transformed length reaches only the link that was hashed; the other goes to another group |
| MCGroupSuffixWrap | ReadableKept | `group.rs:1171` | The offset of a suffix longer than its file underflows, and the file is left out |
| MCGroupTruncated | Identical | `hasher.rs:301` | Only as many bytes of transformed output as the original had are hashed |
| MCWalkIgnoreCase | FindsAllRoutes | `config.rs:306` | The name of a directory is put in lower case before it is compared with the fixed prefix, the prefix is not: `S/**` prunes `s` |
| MCCacheMoves | HitFresh | `README.md:455` | A path renamed between stat and open stores the hash of another file |
| MCCacheMillis | HitFresh | `README.md:453` | Two writes in one millisecond look like one |
| MCCacheInPlace | HitFresh | `config.rs:235` | Hashes with and without `--in-place` share a tree |

(`README.md` is that of fclones, `src/fclones/README.md`.)

The modules of the runs also define scenarios that are in no run. Take the configuration in the first
column, replace its `Scenarios <-` by the scenario, and check the statement:

| Module | Scenario | Statement | Said at | What happens |
|---|---|---|---|---|
| MCGroupStages | MCOneChange | ChangeNoticed | `config.rs:658` | A file changed after its hashing and before the timestamp goes unnoticed |
| MCGroupStages | MCUniqueSkip | ReportWanted | `config.rs:262` | With `--skip-content-hash` the strict filter of `--unique` never runs |
| MCWalk | MCShallow | WithinDepth | `config.rs:161` | `--depth 1` reads subdirectories |
| MCWalk | MCShallowLinks | FindsAllRoutes | `config.rs:158` | A directory first reached too deep is marked and never read |
| MCWalk | MCMounted | FindsAllRoutes | `walk.rs:142` | The same with `--one-fs` and an input path that is a mount point |
| MCWalk | MCExclude | FindsAllRoutes | `pattern.rs:163` | An excluded path prunes directories whose names only start with it: the expression for a prefix has no anchor at its end |
| MCWalk | MCHyphen (with `PathOf <- MCPathOfHyphen`) | FindsAllRoutes | `regex.rs:52` | Once a character was escaped, `escape` stays set: the fixed prefix goes on through wildcards and prunes what they match |
| MCWalk | MCLiteral (with `PathOf <- MCPathOfLiteral`) | FindsAllRoutes | `regex.rs:52` | For the same reason the `$` at the end of the expression becomes part of the prefix: an input path or a link target that is a file is left out by the pattern that is its very name |
| MCWalk | MCWide (with `PathOf <- MCPathOfWide`) | FindsAllRoutes | `regex.rs:41` | The length of a prefix in bytes is used as one in characters |
| MCDedupe | MCLateLock | LockedLeftAlone | `dedupe.rs:120` | `let _ = ` drops the lock at once: a program that locks the file during the command has it changed all the same |
| MCDedupe | MCBottomFirst | FirstPriorityDecides | `dedupe.rs:855` | `top` and `bottom` do not decide as first priorities |
| MCDedupe | MCPatterns | DroppedMatchAll | `dedupe.rs:557` | `--name` and `--path` are alternatives |
| MCDedupe | MCLinks | LinksAreNoDuplicates | `config.rs:191` | The target of a link is dropped in favour of the link |
| MCDedupe | MCScenarios | FailureKeepsInode | `reflink.rs:84` | Undoing a failed reflink replaces the inode |
| MCDedupe | MCFarWrite | RecentGroupsSkipped | `config.rs:597` | A group divided by device is tested in parts |
| MCDedupe | MCLateFile | NothingLost | `dedupe.rs:181` | A file created at the target after the look is overwritten |
| MCDedupe | MCLateWrite | LateWritesSurvive | `dedupe.rs:966` | A file written to after the metadata of its group was read is dropped with what was written |
| MCDedupe | MCOverwriting | NothingLost | `dedupe.rs:181` | The script of a dry run does not look, so `mv` and `cp` overwrite |
| MCDedupe | MCNoDirectory | AllOrNothing | `dedupe.rs:388` | The script creates no directories; a copy to one that is missing fails and the source is removed all the same |
| MCDedupe | MCFailingLine | NothingLost | `dedupe.rs:388` | The line after a failed one is run: the temporary file is removed although no link was made |
| MCHandover | MCWide | RedundantDropped | `arg.rs:352` | `split` slices bytes at positions counted in characters |
| MCHandover | MCBaseDir | SameConfig | `report.rs:562` | The text report's base directory is written escaped and read as it is |
| MCHandover | MCBaseDirBlank | SameConfig | `report.rs:479` | The lines of the header are trimmed, so a base directory with a blank at its end comes back as another one |
| MCHandover | MCLinksUnmatched | RedundantDropped | `group.rs:404` | "Equivalent" to the general count, the fast path for groups without roots counts links as redundant files |
| MCHandover | MCTrailing | ReadsWhatWasFound | `report.rs:417` | A blank at the end of a name is trimmed |
| MCHandover | MCCut | DroppedWereFound | `report.rs:417` | A report cut off within a path is read as complete, and the shorter path may be another file |

The passing runs leave these situations out by their constants, never by a guard in a module: the
same modules are checked with them in these configurations.

Reading the code for the model also showed, without a property of its own:

* `canonicalize` is not applied to isolated roots, and roots given to the second process are
  not resolved against its directory (`config.rs`).
* A glob that ends in `$` is cut after the backslash by which the `$` was escaped; the expression for prefixes is then
  invalid, and `unwrap` panics (`pattern.rs:83`, `prefix_regex`). `Selector` leaves such globs out.
* An empty argument is lost when a command line is quoted and split again.
* A text report that ends at the border of two groups cannot be told from a complete one.
* `check_can_create_output_file` (`main.rs`) truncates the output before the search starts.
* `group --rf-under N | remove` drops replicas, although the header says that none is redundant.
* `Path::strip_prefix` returns "." for a path that is a proper prefix of the base.
* `get_mount_point` falls back to the deepest mount point of any disk where `get_by_path` falls back to
  the default device (`device.rs:276`), and panics if there is no disk at all; and the comment of
  `get_parallelism` promises 0 where the code takes the default of the kind of disk.

## 5. What is proved

The theorems hold for every value of the constants that the assumptions of the modules
allow, checked by TLAPS without gaps. A theorem of the form `H => (Spec => []P)` or `Spec => [](H => P)` needs a
hypothesis `H` on the constants or on the scenario; the runs meet it, and the failing configurations and scenarios of
section 4 show why it is there.

**Semaphore** (in `RehashProofs`), for any finite set of threads (`CallersAssumption`) and any positive number of
permits (`PermitsAssumption`):

* `SemaphoreTypeCorrect`, and `ConservesPermits`: `PermitsConserved` is inductive as it stands, since
  the guard of `TakePermit` reads the count it decrements.
* `LosesNoWakeup`: `NoLostWakeup` says that while someone waits there are at least as many
  threads on their way (before the test of the count, or between unlock and
  notification) as free permits. It is inductive together with the type invariant and
  `PermitsConserved`. The argument counts: a release adds one permit and one mover, a notification passes
  the role of the mover on to the woken thread, a thread that takes a permit removes both,
  and a thread that begins to wait saw no free permit. Three lemmas say what a step does to
  the number of movers.
* `ImplementsSemaphore`: the refinement of `CountingSemaphore`. Only `TakePermit` and `Release`
  are steps of it; all others stutter.

**Rehash**, for any finite set of files, any devices, locations, links, groups, results and
failures of the hash function (`DataAssumption`), and any positive limits
(`LimitAssumption`):

* `TypeCorrect`.
* `ConservesFiles`, `OutlivesNothing`, `ReturnsComplete`, from one inductive invariant

      IInv == TypeOK /\ Bookkeeping /\ FilesConserved

  None of the three is inductive alone: that the channel is empty when the last
  sender is dropped says nothing of files in tasks, unless a task that holds files
  owns a sender. `Bookkeeping` adds what the code relies on without saying so:
  `RanksDistinct` (the sort is an order), `VectorsFresh` (a file still in a vector has no task
  of its name), `HoldersLive` (only a live task holds files), `SendersMatch` (a task has a
  sender exactly from its spawn to its end, a device thread from its launch to its
  end), `MainProgress` (which senders may exist at each place of the caller) and
  `EndedEmpty` (a thread ends with an empty vector). The proof has a step per action;
  the actions that move files (`Receive`, `Spawn`, `HashFails`, `Send`) have a lemma each.

  `OutlivesNothing` is the justification of the `unsafe` transmute at `group.rs:646`: with
  no sender left there is no task. `ReturnsComplete` follows from conservation, once every
  place but the result is empty.

* `KeepsLimits`: permits and their holders add up, for the semaphore of every
  device and for the open files. It needs only `Bookkeeping`, which ties a task's place to the
  permit it owns, and lemmas on cardinalities of the sets of holders.
* `StartsInOrder`: from the inductive invariant `InOrder`. A queue of tasks is in order
  because the vector is (`RanksFollow`, once it is sorted), because `Spawn` takes its head,
  so that every task lies before what is still in the vector (`TasksAhead`), and because
  `spawn_fifo` starts the oldest one, so that tasks started lie before those queued
  (`StartedAhead`). `NotYetSorted` says that a thread has no task before its sort.
* `Implements`: the refinement of `HashGrouping`. `Receive` settles a file,
  `HashFails` drops a run, `Return` returns, all other steps stutter. The invariant
  `Keyed` says that a run consists of links of one file (`RunsLinked`), and that a hash in a task or a
  message is one of a link of it (`FoundHashed`, `MessagesKeyed`); `ResultComplete` gives
  the guard of `Return`.
* `KeepsLinksTogether`: needs `LinksPlaced`: links have the device, location and
  length of their file, no other file of a device has its location, and the hash function
  keeps lengths. Without the second part the sort may put another file between two links, which
  `rehash` cuts into two runs; without the last one it fails as `MCRehashTransform` shows.
  The invariant `Together` follows the links of a file from the vector (`LinksWait`) through one
  task (`OneTask`) to messages that are alike.

**Group stages**, for any files, paths, links, devices, contents, options and changes by other programs
(`GroupAssumption`: prefixes and suffixes fit below the thresholds of the device, as in `device.rs`):

* `TypeCorrect`, `ReportsPathOnce`, `JoinsOnlyEqual`, `ReportsDuplicates` and `ReportsExactly`, from one inductive
  invariant `IInv`. Its parts are the books of the pipeline: what a stage knows of a file is what the file
  was when it was scanned (`InfoTrue`, `ScanTrue`), groups share no entry (`GroupsApart`), what a stage was
  given is passed, still to hash, hashed or lost (`StageRuns`), a hash is that of the part it stands
  for (`HashesTrue`), and a path has one entry once links and overlapping inputs were removed (`OneEntry`).
* That equal hashes mean equal files is the difficult half (`OnePassed`, `SuffixFollowsPrefix`,
  `WholeRead`): a file that skips a stage is short enough to have been read by another one, and the hash of a suffix is
  XORed into that of a prefix, so the two must be of different lengths. Hence the hypothesis `AllRead` of `JoinsOnlyEqual` and
  `ReportsExactly`: the contents are hashed, and at least one of `--max-prefix-size` and `--max-suffix-size`
  stays below the threshold; a transform prints no more than it reads. MCGroupXor and
  MCGroupTruncated are what happens otherwise.
* That equal files stay together (`Together`, `Kept`, `Strict`) needs no such hypothesis, but a
  transform that keeps lengths (`LengthsKept`), as files are first grouped by the length they have on disk.
  `ReportsDuplicates` speaks of files nobody touches, while others are written to.

**Walk**, for any tree of directories, files and links (`TreeAssumption`), any scenarios, and ignore
files, errors and races of the tasks at will:

* `TypeCorrect`, and `FindsOnce`: the invariant `FoundMarked` adds that every file reported is marked
  as visited. A step that reports a file passed the test of `visit_entry`, so the file was not
  marked before: check and mark in one step are all it takes.
* `CutsCycles`: a task's level is the number of directories it came through, each of which was marked
  as visited (`RoutesSimple`). A directory that is read was not marked before, so it is a new one
  on the route, and the level is bounded by the number of directories.
* `FindsNoOthers`: each task is on a route, that is in `Reach({})[n]`, with an `n` that counts its level and the
  links on the way (`OnRoute`). The links were visited, each at its first time, so no route is longer than
  `LongestRoute`, the number of steps in `Routes`.
* `FindsAll`: `FindsAllRoutes`, under two hypotheses on what is asked for; both hold in the four
  walks of MCWalk, and each of the walks of section 4 for which `FindsAllRoutes` fails violates one of them.
  `SelectsAsMeant`: files are selected as the options say, and a directory is only left out if no
  file that is meant is below (`LeftOut`). `AnyRouteWillDo`, where links are followed: the depth is at least
  the number of directories, the walk is not kept on one file system, and what ignore files match has no
  route around them; otherwise the task that comes first decides. Without links followed,
  a set of tasks each of which leads to a file over another one of the set keeps a member among the
  tasks until the file is found (`Brought`). With links followed, tasks are skipped where
  the path was visited, and the invariant speaks of paths instead: all that comes of a visited and readable path
  was visited, or waits in a task, or is not selected (`Closed`, `Met`). At the end no task waits, and by
  induction along `Reach` every file of a route is found.
  `FindsAllNames`: without patterns for paths `SelectsAsMeant` holds, since no directory is left out, and
  only `AnyRouteWillDo` remains.

**Transform** (in `HasherProofs`), for any sizes of input, output, stderr and pipes, and any failing step:

* `TransformTypeCorrect`, `HashesAll`, `CleansUp` and `KeepsOriginal`. `Flow` says how far the three actors can be
  apart: which program exists (`ProgramKnown`), who holds which end of the fifo (`FifoHeld`), and that
  an output in place is read after the program (`InPlaceLater`). `Conserved` counts units: those hashed, those in the pipe
  and those to be written are the program's output, until the hash is complete. `FilesKnown` says which files
  there are: besides the user's, exactly those that `Drop` is going to remove. A program is left only where the fifo
  could not be opened (`OpensAnewLate`).
* `HashesAll` needs programs that print no more than their input: the code hashes at most
  that many bytes (`hasher.rs:301`, configuration MCGroupTruncated). `CleansUp` and `KeepsOriginal` need
  `NoCopy = FALSE`, which MCTransformNoCopy shows.

**Hash cache** (in `HasherProofs`), for any workers, paths, inodes, commands, runs and clock:

* `TypeCorrect`, and `ReportsLoss`, inductive with `IdleWhenDown`: only a
  running process has calls, so none can put a hash once the cache was closed.
* `KeepsHashesSound` needs `Steady`: no two writes of a file fall into one millisecond, no path is
  renamed during a call, and all runs agree on `--in-place`; MCCacheMillis, MCCacheMoves and
  MCCacheInPlace drop one each. The invariant `Sound` relates three places a hash may be in
  (the tree, the disk, a call between stat and put) to the file's time and version: a
  hash with the time the file has now is one of what the file is now. It speaks of entries
  that no lookup returns any more as well: their time is an earlier one, and stays so, as time only grows.

**Script**, for any report, malformed or not, any threads and any failing write (`ScriptAssumption`: the pool is not empty):

* `TypeCorrect`, `PrintsInOrder`, `PrintsAll`. The printing thread takes a result when its number is
  the next one: `Printed` says that what is written is the script up to that number. That nothing is left over at the end needs
  the way of a group: a group pulled is with a thread, in the channel, in the queue or printed
  (`NoneLost`), a thread leaves at the end of the report or at an error (`LeftAtEnd`), and the channel closes after the last
  thread. `Readable` says that nobody gets beyond the malformed group.

**Dedupe**, with `Partition` and `FileSystem`, for any paths, devices, contents, reports, options, numbers of failing calls, and any
interleaving of commands and other programs (`ReportAssumption`). `TypeCorrect` holds for any
report, also one with symbolic links: each entry leads to a file of the system, and the plan is about its paths.
The others are about reports that `group` writes (`Found`): a path is a file of its own or a hard link, files
reported together had equal contents, links are in one group, and no file appears at a move's target after
the look at it. `JoinsOnlyEqual` is why the second holds; the scenarios MCLinks and MCLateFile drop the others.

* `InvariantHolds`, `NoContentsLost`, `CommandsAllOrNothing`, `LocksRespected`, `LateGroupsSkipped`. The
  invariant is `IInv == TypeOK /\ (Found => Kept)`. `Placed` is its heart: for each stage of each command it says where
  the contents of its file are: at its path, at the temporary name, at the target, or behind the link that replaced it.
  That others do not spoil it follows from `Plan`: the file retained for a dropped one is in the same group and
  is no command's (`pc` is idle for ever), and temporary names and targets are one's own. `Waiting` and
  `Skipped` say that a group is left alone before it is divided, or if it was written to before. Writes come at any time, so what `Placed` says of
  contents is under `Calm`: others have not written to the group once it was divided. Such a write overtakes the group of its file; a file of
  another group is another inode, and keeps what `Placed` says of it (`KeptLate`), while where the names are, and what is idle, no write can change.
  A crash needs no proof of its own, as every state is one a crash can leave.
* `LocksRespected` excludes locks taken while a command runs (scenario MCLateLock) and moves, which ignore the
  result of locking. `LateGroupsSkipped` is about writes after the report and before the metadata of the group was read; with a
  later write of the same group or another one it still holds. It needs groups that are divided as a whole (`Whole`): hard links and reflinks
  divide a group by device, and test each part for itself (MCFarWrite).
* `KeepsReplicas`, `KeepsRootsWhole`, `KeyedPriorityDecides`. A second invariant, `Chosen`, says what is
  known of the files dropped from a group: none is under a keep pattern, enough replicas are not among them, a replica is
  dropped as a whole, and by the first priority they rank behind what stays. It follows from what `partition`
  returns, in lemmas on the operators, those of `FileGroups` in `FileGroupsProofs`: `FilteredIs` (what `Filtered` picks, in order), `SubGroupsAre` (each file is in one
  subgroup, with the files of its root or its id), `SortArranges` and `PrioritisedArranges` (sorting permutes, and the
  priority applied last decides), `KeepAtLeastIs` (what is dropped are whole subgroups, the last ones, and n stay), `PartitionedIs`. Replicas are counted
  by the roots if these are apart (`RootsApart`); of roots inside of each other, the code and the
  count may mean different ones. A first priority that is `top` or `bottom` reorders or keeps what later ones sorted,
  and does not decide (MCBottomFirst); alone it does, which the runs check.

**Handover**, with the modules it composes, for any files, characters, command lines, options of the second process, formats and
classes of identical files (`ScenariosAssumption`), wherever the first process stops, whatever is modified meanwhile, and however the
two processes run side by side:

* `Invariant`, from `IInv == Typed /\ Writes /\ Reading /\ Deciding`. `Writes`: the lines there are, are the first ones of the report
  of what was found, the last of them possibly cut off. `Reading`: what the second process knows is what such lines say
  (`Informed`), its position is at the end of a group (`Positioned`), and each group it has read is the one at that place, but for a path that
  was cut off (`GroupRead`). `Deciding`: a decision is that of the header's configuration and of the group as it was read, or keeps all of it. The reader
  is concurrent: it reads lines while others are written, so `Writes` has to say that a complete line never changes.
* `EscapedReturns`, `QuotesReturn`, `CommandReturns`, `PathReturns`, `CutReturns`, `FromPath`: what the recursive functions on texts compute, for texts of any
  length. Each is a function over 0..n, whose value at n a lemma relates to the first n characters (`Undone` for the decoder of stfu8, `Stands`
  for the automaton `split`, `Spells` and `Laid` for texts of paths); the lemma `Upward` carries such a relation from 0 to n by its
  least counterexample, as the library's induction theorems cannot be instantiated. `CommandReturns` says `split(join(words)) = words` for each word
  quoted the way `quote` chooses: bare, in single quotes, or in `$'...'` with escapes, which `split` first collects and then decodes.
* `ReadsBack`: `ReadsWhatWasFound`, if no name has blanks at an end that the text reader would trim (`TextNamesPlain`, scenario MCTrailing).
  What was cut off is a prefix of the escaped text, its decoding a prefix of the text, and its path one whose text is a prefix. `DroppedFound`: then,
  if the first process was not stopped, only files are dropped that it found in the group (MCCut is the other case).
* `ConfigHandedOver`: `SameConfig`, for text reports if the command line is `WordsQuotable` and the base directory is `BaseDirPlain`: it has no
  escapes, which the reader does not decode (scenario MCBaseDir), and no blank at its end, where `read_extract` trims the line (MCBaseDirBlank). `WordsQuotable` excludes empty arguments, which are lost, and words that need `$'...'` in a command line with characters of more than one byte, since
  `split` then slices at positions it counted in characters (MCWide). JSON reports need neither. The base directory comes back from its text since the
  first process resolves it before it writes it: `canonicalize` returns a path from the root without dots (`ResolvedIs`), which `PathReturns` needs.
* `ReplicasAreLeft`: `ReplicasLeft`, under the two hypotheses before and two more: the second process has no roots of its own and matches links only if the first did
  (`OwnAlike`), and the count it takes is one the first process looked at (`CountLookedAt`, MCHandoverRf). By `ConfigHandedOver` both
  processes then have the same roots and the same links; `n` subgroups of the files of a group that are kept as a whole are at least `n` subgroups of the
  files that are kept (`GroupsCounted`), which is what the first process counts.
* `ReadsToEnd`: of a report that was written to its end, in a format that is read, the second process reads every group, without a failure, and then stops.
  It needs `ReadFully`, a third invariant, and the only one that says what the readers accept; the others say what they make of what they accepted. A read
  that blocks has to ask for the lines of a whole group, so that the end of the lines there are is never taken for the end of the report.
  `FoundOf` says that a group found is never empty, which would read as the end of the list, and is of one class.
* `RedundantAreDropped`: `RedundantDropped`. `group` announces what `redundant_count` computes, `partition` drops what `KeepAtLeast` leaves over; the theorem
  says that the two sums are equal, group by group (`GroupDropped`, `DropsRedundant`). It takes that no file is left out for its length (the classes of
  `ScenariosAssumption` have the length of their files unless these are transformed), that the subgroups are the same (`SubGroupsAgree`), and that of
  files counted one by one each is a subgroup of its own (`EachAlone`): a file is reported once, and links are matched, or there are none,
  or there are isolated roots (`LinksCounted`, scenario MCLinksUnmatched). The other hypotheses are those of `ReadsBack`, `ConfigHandedOver` and `OwnAlike`.
* `ModifiedSkipped`: `ModifiedLaterSkipped`, without further hypotheses: the time in a text header is rounded down, so a file written in the same millisecond is too late as well.

What these proofs assume of the constants, TLC evaluates for the scenarios: `Failed`, which stands for an error, is none of the values an
operator returns otherwise (`TextsAssumption`); a class lists each of its files once, and has their length unless they are transformed (`ScenariosAssumption`).

For these lemmas the model has `Filtered` instead of `SelectSeq`, and recursive functions for the sorts and the automata: the provers know
nothing of `SelectSeq` and of folds, while a function over 0..n is proved about by its least counterexample.

**Only model-checked**: liveness under fairness (`Terminates`, `Returns`, `Ends`,
`NoSleepBesideFreePermit`), which is out of the prover's reach;
the shell's execution of a script (`ShellScript`); and what the matcher of `Selector` computes, a
hypothesis of `FindsAll`.

## 6. What is not modelled

* Device discovery, clap's parser, progress and logging. Of patterns, alternatives, sets of
  characters and the user's own regular expressions: they would need a second regular expression engine,
  while the pruning of directories, where the hazard is, only looks at the fixed prefix.
* `--stdin` paths: they reach the walk as other input paths do.
* Sharing of parents and hashes of paths: a data structure without behaviour of its own.
* Windows and macOS: `Dedupe`, `Transform` and `reflink` follow the Linux code.
* Directory creation for `move`, and the restoration of timestamps after a reflink: the state they
  change is not in `FileSystem`.
* The database below the hash cache: a map that is flushed as a whole.
* Changes of the directory tree during the walk, and the time at which a task reads an ignore file.
* Hash collisions, and files that are written while one read is going on (a read sees
  one version; `HashCache` reads in two parts).
* What ignore files and the patterns of the second process match: sets of paths in `Walk` and `Partition`.
* In `Handover`, the contents of other header lines, and files that appear or disappear during the pipeline.
