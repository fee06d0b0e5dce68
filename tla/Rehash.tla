------------------------------- MODULE Rehash --------------------------------
(***************************************************************************)
(* The concurrent hashing engine of fclones: `rehash` in                   *)
(* src/fclones/src/group.rs, run once per grouping stage.                  *)
(*                                                                         *)
(* The caller's thread launches one thread per device that has files and   *)
(* then collects hashed files from a channel until every sender is gone.   *)
(* A device thread sorts its files by location, cuts the order into runs   *)
(* of links to one file, and spawns one task per run on the device's pool, *)
(* taking a permit of the device's semaphore first.  A task takes a permit *)
(* of the global open-files semaphore, hashes the first file of its run    *)
(* and sends the whole run with that hash.  Nobody joins the tasks: the    *)
(* only thing that keeps rehash from returning while a task still uses the *)
(* caller's hash function is that the task owns a sender.                  *)
(*                                                                         *)
(* A task is named after the first file of its run.  The order of messages *)
(* in the channel is not kept: GroupMap's groups are sorted again by every *)
(* later stage.  A semaphore is its count (Semaphore.tla implements it).   *)
(***************************************************************************)
EXTENDS Integers, FiniteSets

CONSTANTS
  Files,        \* the files the stage starts from
  Devices,
  Id,           \* Id[f]: FileId, equal for hard links of one file
  Device,       \* Device[f]
  Location,     \* Location[f]: inode number or physical offset on the device
  Groups,       \* input: records [len, hash, files]
  ToHash,       \* the groups that satisfy group_pre_filter
  HashFn,       \* HashFn[f]: what hash_fn may return for f: records [len, hash]
  CanFail,      \* the files for which hash_fn may return None
  Threads,      \* Threads[d]: size of the device's pool
  TasksPerThread, \* 8 in the code
  OpenFiles,    \* permits of RLIMIT_OPEN_FILES
  MatchLinks,   \* negation of group_filter.group_by_id
  Replicas      \* rf of Replication::Overreplicated(rf)

Hashed == UNION {g.files : g \in ToHash}
Len == [f \in Hashed |-> (CHOOSE g \in ToHash : f \in g.files).len]
Orders(S) ==
  {r \in [S -> 1..Cardinality(S)] :
     \A f, g \in S : f # g => /\ r[f] # r[g]
                              /\ Location[f] < Location[g] => r[f] < r[g]}

Main == <<"main">>
OfDevice(d) == <<"device", d>>
OfTask(h) == <<"task", h>>
Owners == {Main} \cup {OfDevice(d) : d \in Devices} \cup {OfTask(h) : h \in Files}

ASSUME DataAssumption ==
  /\ IsFiniteSet(Files)
  /\ Groups \subseteq [len : Nat, hash : Nat, files : SUBSET Files]
  /\ ToHash \subseteq Groups
  /\ \A g1, g2 \in Groups : g1 # g2 => g1.files \cap g2.files = {}
  /\ Device \in [Files -> Devices]
  /\ Location \in [Files -> Nat]
  /\ HashFn \in [Files -> SUBSET [len : Nat, hash : Nat]]
  /\ CanFail \subseteq Files

ASSUME LimitAssumption ==
  /\ Threads \in [Devices -> Nat \ {0}]
  /\ TasksPerThread \in Nat \ {0}
  /\ OpenFiles \in Nat \ {0}

VARIABLES
  mainPc,       \* "launch", "collect", "join", "returned"
  devPc,        \* per device: "unlaunched", "sort", "spawn", "ended"
  rank,         \* per device: the order the sort produced
  todo,         \* per device: files still in the vector of its thread
  taskPc,       \* per task: "none", then the stages below
  held,         \* per task: files of the run not sent yet
  found,        \* per task: the length and hash the task computed
  devSem,       \* per device: count of the semaphore made by its thread
  openSem,      \* count of RLIMIT_OPEN_FILES
  senders,      \* live clones of tx, by owner
  channel,      \* messages [file, len, hash] sent and not received
  grouped,      \* messages received into hash_map
  failed,       \* files of runs for which hash_fn returned None
  result        \* what rehash returned

vars == <<mainPc, devPc, rank, todo, taskPc, held, found, devSem, openSem,
          senders, channel, grouped, failed, result>>
deviceVars == <<devPc, rank, todo>>
taskVars == <<taskPc, held, found>>
mainVars == <<mainPc, grouped, result>>

\* A task is queued, waits for an open-files permit, hashes, sends, gives the
\* device permit back, gives the open-files permit back, drops its sender.
Stages == {"queued", "open", "hash", "send", "release", "close", "detach"}
OnWorker == Stages \ {"queued"}
FileOpen == {"hash", "send", "release", "close"}
InFlight == {"queued", "open", "hash", "send", "release"}
TasksOf(d, S) == {h \in Files : Device[h] = d /\ taskPc[h] \in S}

TaskLimit(d) == TasksPerThread * Threads[d]

Init ==
  /\ mainPc = "launch"
  /\ devPc = [d \in Devices |-> "unlaunched"]
  /\ rank = [d \in Devices |-> <<>>]
  /\ todo = [d \in Devices |-> {f \in Hashed : Device[f] = d}]
  /\ taskPc = [f \in Files |-> "none"]
  /\ held = [f \in Files |-> {}]
  /\ found = [f \in Files |-> [len |-> 0, hash |-> 0]]
  /\ devSem = [d \in Devices |-> TaskLimit(d)]
  /\ openSem = OpenFiles
  /\ senders = {Main}
  /\ channel = {}
  /\ grouped = {}
  /\ failed = {}
  /\ result = {}

-----------------------------------------------------------------------------
(* The caller's thread.                                                    *)

\* Mutated form of CloneSender: the task works with the tx of its thread.
ShareSender(owner) == UNCHANGED senders

\* tx.clone() for a new owner.
CloneSender(owner) == senders' = senders \cup {owner}

\* Mutated form of DropSender: the sender outlives its owner.
LeakSender(owner) == UNCHANGED senders

\* The clone of tx that `owner` holds is dropped.
DropSender(owner) == senders' = senders \ {owner}

\* One iteration of the launching loop; a device without files gets no thread.
Launch(d) ==
  /\ mainPc = "launch"
  /\ devPc[d] = "unlaunched"
  /\ IF todo[d] = {}
       THEN /\ devPc' = [devPc EXCEPT ![d] = "ended"]
            /\ UNCHANGED senders
       ELSE /\ devPc' = [devPc EXCEPT ![d] = "sort"]
            /\ CloneSender(OfDevice(d))
  /\ UNCHANGED <<mainVars, taskVars, rank, todo, devSem, openSem, channel, failed>>

\* drop(tx), after which the channel can close.
DropOwnSender ==
  /\ mainPc = "launch"
  /\ \A d \in Devices : devPc[d] # "unlaunched"
  /\ mainPc' = "collect"
  /\ DropSender(Main)
  /\ UNCHANGED <<deviceVars, taskVars, devSem, openSem, channel, grouped,
                 failed, result>>

\* rx.recv() is Ok: the message goes to the group of its length and hash.
Receive ==
  /\ mainPc = "collect"
  /\ \E m \in channel :
       /\ channel' = channel \ {m}
       /\ grouped' = grouped \cup {m}
  /\ UNCHANGED <<mainPc, deviceVars, taskVars, devSem, openSem, senders,
                 failed, result>>

\* Mutated form of Disconnected: try_recv, which also fails on a channel that is
\* only empty for now.
EmptyForNow ==
  /\ mainPc = "collect"
  /\ channel = {}
  /\ mainPc' = "join"
  /\ UNCHANGED <<deviceVars, taskVars, devSem, openSem, senders, channel,
                 grouped, failed, result>>

\* rx.recv() is Err: the channel is empty and all its senders are gone.
Disconnected ==
  /\ mainPc = "collect"
  /\ channel = {}
  /\ senders = {}
  /\ mainPc' = "join"
  /\ UNCHANGED <<deviceVars, taskVars, devSem, openSem, senders, channel,
                 grouped, failed, result>>

\* FileSubGroup::group without isolated roots, as `matches` counts it.
ReplicaCount(S) ==
  IF MatchLinks THEN Cardinality(S) ELSE Cardinality({Id[f] : f \in S})

PostFilter(g) == ReplicaCount(g.files) > Replicas

HashedGroups ==
  {[len |-> m.len, hash |-> m.hash,
    files |-> {n.file : n \in {x \in grouped : x.len = m.len /\ x.hash = m.hash}}]
      : m \in grouped}

\* The scope joins the device threads (and no task); the map and the groups
\* that were not hashed make the result.
Return ==
  /\ mainPc = "join"
  /\ \A d \in Devices : devPc[d] = "ended"
  /\ mainPc' = "returned"
  /\ result' = {g \in HashedGroups \cup (Groups \ ToHash) : PostFilter(g)}
  /\ UNCHANGED <<deviceVars, taskVars, devSem, openSem, senders, channel,
                 grouped, failed>>

-----------------------------------------------------------------------------
(* A device thread.                                                        *)

\* par_sort_unstable_by_key: files at one location come in any order.
SortByLocation(d) ==
  /\ devPc[d] = "sort"
  /\ \E r \in Orders(todo[d]) : rank' = [rank EXCEPT ![d] = r]
  /\ devPc' = [devPc EXCEPT ![d] = "spawn"]
  /\ UNCHANGED <<mainVars, taskVars, todo, devSem, openSem, senders, channel,
                 failed>>

\* The file the sorted vector starts with.
IsFirst(d, h) == h \in todo[d] /\ \A g \in todo[d] : rank[d][h] <= rank[d][g]

\* Mutated form of RunOf: each file is a run of its own.
RunOfOne(d, h) == {h}

\* group_by(id): the longest run of links to one file at the head of the order.
RunOf(d, h) ==
  {f \in todo[d] : \A g \in todo[d] : rank[d][g] <= rank[d][f] => Id[g] = Id[h]}

\* Mutated form of TakeTaskPermit: the count is not tested.
TakeAnyPermit(d) == devSem' = [devSem EXCEPT ![d] = @ - 1]

\* semaphore.access_owned(): blocks the device thread, not a worker.
TakeTaskPermit(d) == devSem[d] > 0 /\ devSem' = [devSem EXCEPT ![d] = @ - 1]

\* Move the first run of the order into a task.
Spawn(d) ==
  /\ devPc[d] = "spawn"
  /\ TakeTaskPermit(d)
  /\ \E h \in todo[d] :
       /\ IsFirst(d, h)
       /\ todo' = [todo EXCEPT ![d] = @ \ RunOf(d, h)]
       /\ taskPc' = [taskPc EXCEPT ![h] = "queued"]
       /\ held' = [held EXCEPT ![h] = RunOf(d, h)]
       /\ CloneSender(OfTask(h))
  /\ UNCHANGED <<mainVars, devPc, rank, found, openSem, channel, failed>>

\* The loop is over; the thread's tx goes with its closure.
EndThread(d) ==
  /\ devPc[d] = "spawn"
  /\ todo[d] = {}
  /\ devPc' = [devPc EXCEPT ![d] = "ended"]
  /\ DropSender(OfDevice(d))
  /\ UNCHANGED <<mainVars, taskVars, rank, todo, devSem, openSem, channel,
                 failed>>

-----------------------------------------------------------------------------
(* A task on the device's pool.                                            *)

\* Mutated form of Start: spawn instead of spawn_fifo.
StartNewest(h) ==
  LET d == Device[h] IN
  /\ taskPc[h] = "queued"
  /\ \A g \in TasksOf(d, {"queued"}) : rank[d][h] >= rank[d][g]
  /\ Cardinality(TasksOf(d, OnWorker)) < Threads[d]
  /\ taskPc' = [taskPc EXCEPT ![h] = "open"]
  /\ UNCHANGED <<mainVars, deviceVars, held, found, devSem, openSem, senders,
                 channel, failed>>

\* A free worker takes the oldest queued task (spawn_fifo).
Start(h) ==
  LET d == Device[h] IN
  /\ taskPc[h] = "queued"
  /\ \A g \in TasksOf(d, {"queued"}) : rank[d][h] <= rank[d][g]
  /\ Cardinality(TasksOf(d, OnWorker)) < Threads[d]
  /\ taskPc' = [taskPc EXCEPT ![h] = "open"]
  /\ UNCHANGED <<mainVars, deviceVars, held, found, devSem, openSem, senders,
                 channel, failed>>

\* RLIMIT_OPEN_FILES.access_owned(), blocking the worker.
OpenFile(h) ==
  /\ taskPc[h] = "open"
  /\ openSem > 0
  /\ openSem' = openSem - 1
  /\ taskPc' = [taskPc EXCEPT ![h] = "hash"]
  /\ UNCHANGED <<mainVars, deviceVars, held, found, devSem, senders, channel,
                 failed>>

\* hash_fn returned Some for the first file of the run.
HashFirst(h) ==
  /\ taskPc[h] = "hash"
  /\ \E r \in HashFn[h] : found' = [found EXCEPT ![h] = r]
  /\ taskPc' = [taskPc EXCEPT ![h] = "send"]
  /\ UNCHANGED <<mainVars, deviceVars, held, devSem, openSem, senders, channel,
                 failed>>

\* hash_fn returned None: every link of the run is left out.
HashFails(h) ==
  /\ taskPc[h] = "hash"
  /\ h \in CanFail
  /\ failed' = failed \cup held[h]
  /\ held' = [held EXCEPT ![h] = {}]
  /\ taskPc' = [taskPc EXCEPT ![h] = "release"]
  /\ UNCHANGED <<mainVars, deviceVars, found, devSem, openSem, senders, channel>>

\* hash_fn was given the first FileInfo of the run to update; the other links
\* get the hash but keep the length they came with.
Message(f, h) ==
  [file |-> f, len |-> IF f = h THEN found[h].len ELSE Len[f],
   hash |-> found[h].hash]

\* Mutated form of Send: only the file that was hashed is sent.
SendFirstOnly(h) ==
  /\ taskPc[h] = "send"
  /\ channel' = channel \cup {Message(h, h)}
  /\ held' = [held EXCEPT ![h] = {}]
  /\ UNCHANGED <<mainVars, deviceVars, taskPc, found, devSem, openSem, senders,
                 failed>>

\* One iteration of the loop over the run.
Send(h) ==
  /\ taskPc[h] = "send"
  /\ \E f \in held[h] :
       /\ channel' = channel \cup {Message(f, h)}
       /\ held' = [held EXCEPT ![h] = @ \ {f}]
  /\ UNCHANGED <<mainVars, deviceVars, taskPc, found, devSem, openSem, senders,
                 failed>>

\* The loop over the run ends and drop(guard) gives the device permit back.
ReleaseTask(h) ==
  /\ taskPc[h] = "release" \/ (taskPc[h] = "send" /\ held[h] = {})
  /\ devSem' = [devSem EXCEPT ![Device[h]] = @ + 1]
  /\ taskPc' = [taskPc EXCEPT ![h] = "close"]
  /\ UNCHANGED <<mainVars, deviceVars, held, found, openSem, senders, channel,
                 failed>>

\* End of the closure's body: its local _open_files_guard is dropped ...
CloseFile(h) ==
  /\ taskPc[h] = "close"
  /\ openSem' = openSem + 1
  /\ taskPc' = [taskPc EXCEPT ![h] = "detach"]
  /\ UNCHANGED <<mainVars, deviceVars, held, found, devSem, senders, channel,
                 failed>>

\* ... and after the locals the captured tx.
DropTaskSender(h) ==
  /\ taskPc[h] = "detach"
  /\ DropSender(OfTask(h))
  /\ taskPc' = [taskPc EXCEPT ![h] = "none"]
  /\ UNCHANGED <<mainVars, deviceVars, held, found, devSem, openSem, channel,
                 failed>>

-----------------------------------------------------------------------------

MainStep ==
  (\E d \in Devices : Launch(d)) \/ DropOwnSender \/ Receive \/ Disconnected \/ Return

DeviceStep(d) == SortByLocation(d) \/ Spawn(d) \/ EndThread(d)

TaskStep(h) ==
  \/ Start(h) \/ OpenFile(h) \/ HashFirst(h) \/ HashFails(h)
  \/ Send(h) \/ ReleaseTask(h) \/ CloseFile(h) \/ DropTaskSender(h)

Finished == mainPc = "returned" /\ UNCHANGED vars

Next ==
  \/ MainStep
  \/ \E d \in Devices : DeviceStep(d)
  \/ \E h \in Files : TaskStep(h)
  \/ Finished

\* Threads of the operating system run, and a rayon worker takes a queued task
\* when it is free.  Nothing is assumed about who wins a contended permit.
Fairness ==
  /\ WF_vars(MainStep)
  /\ \A d \in Devices : WF_vars(DeviceStep(d))
  /\ \A h \in Files : WF_vars(TaskStep(h))

Spec == Init /\ [][Next]_vars /\ Fairness

-----------------------------------------------------------------------------
(* Properties.                                                             *)

Messages == [file : Files, len : Nat, hash : Nat]

TypeOK ==
  /\ mainPc \in {"launch", "collect", "join", "returned"}
  /\ devPc \in [Devices -> {"unlaunched", "sort", "spawn", "ended"}]
  /\ DOMAIN rank = Devices
  /\ todo \in [Devices -> SUBSET Hashed]
  /\ taskPc \in [Files -> Stages \cup {"none"}]
  /\ held \in [Files -> SUBSET Hashed]
  /\ found \in [Files -> [len : Nat, hash : Nat]]
  /\ devSem \in [Devices -> Nat]
  /\ openSem \in Nat
  /\ senders \subseteq Owners
  /\ channel \subseteq Messages
  /\ grouped \subseteq Messages
  /\ failed \subseteq Hashed

InTodo(f) == \E d \in Devices : f \in todo[d]
InTask(f) == \E h \in Files : f \in held[h]
InChannel(f) == \E m \in channel : m.file = f
InGroup(f) == \E m \in grouped : m.file = f

\* Every file handed to rehash is somewhere: still in its device's vector, in
\* a task, in the channel, in the map, or left out because it was unreadable.
NoFileLost ==
  \A f \in Hashed :
    InTodo(f) \/ InTask(f) \/ InChannel(f) \/ InGroup(f) \/ f \in failed

\* ... and nowhere twice: it is hashed by one task, sent once and never both
\* grouped and left out, however device threads and tasks interleave.
NoFileTwice ==
  \A f \in Hashed :
    /\ InTodo(f) => ~InTask(f) /\ ~InChannel(f) /\ ~InGroup(f) /\ f \notin failed
    /\ InTask(f) => ~InChannel(f) /\ ~InGroup(f) /\ f \notin failed
    /\ InChannel(f) => ~InGroup(f) /\ f \notin failed
    /\ InGroup(f) => f \notin failed
    /\ \A g, h \in Files : f \in held[g] /\ f \in held[h] => g = h
    /\ \A m, n \in channel \cup grouped : m.file = f /\ n.file = f => m = n

FilesConserved == NoFileLost /\ NoFileTwice

\* "we don't exit before all tasks are closed": the unsafe transmute of hash_fn
\* to 'static is sound only if no task exists once rehash has returned, though
\* nothing joins the tasks.
NoTaskOutlivesCall ==
  mainPc \in {"join", "returned"} => \A h \in Files : taskPc[h] = "none"

\* Every file is in a group or unreadable by the time the result is built: the
\* channel cannot close while a file is on its way.
ResultComplete ==
  mainPc = "returned" => \A f \in Hashed : InGroup(f) \/ f \in failed

\* "Limit the number of tasks spawned at once into the thread-pool" to 8 per
\* thread of the device's pool, and the files open at once to the permits of
\* RLIMIT_OPEN_FILES, over all devices and stages: a permit that is not in its
\* semaphore belongs to one task, on success, failure and exit alike.
LimitsHold ==
  /\ openSem >= 0
  /\ openSem + Cardinality({h \in Files : taskPc[h] \in FileOpen}) = OpenFiles
  /\ \A d \in Devices :
       /\ devSem[d] >= 0
       /\ devSem[d] + Cardinality(TasksOf(d, InFlight)) = TaskLimit(d)

\* "File hashes within a single device are computed in the order given by
\* their location": no started task lies behind a file not started yet.
StartsInLocationOrder ==
  \A h, g \in Hashed :
    /\ Device[h] = Device[g]
    /\ taskPc[h] \in OnWorker
    /\ g \in todo[Device[g]] \/ taskPc[g] = "queued"
    => Location[h] <= Location[g]

\* Each device's work ends, the channel closes and rehash returns.
Terminates == <>(mainPc = "returned")

\* rehash settles each file once and returns when all are settled.
FateOf(f) ==
  IF InGroup(f)
    THEN LET m == CHOOSE m \in grouped : m.file = f IN <<"key", m.len, m.hash>>
    ELSE IF f \in failed THEN <<"unreadable">> ELSE <<"unsettled">>

KeysOf == [f \in Hashed |->
             UNION {{<<"key", IF g = f THEN r.len ELSE Len[f], r.hash>> : r \in HashFn[g]}
                      : g \in {x \in Hashed : Id[x] = Id[f]}}]

Abstract == INSTANCE HashGrouping
  WITH Files <- Hashed, Keys <- KeysOf, Unsettled <- <<"unsettled">>,
       Unreadable <- <<"unreadable">>, fate <- [f \in Hashed |-> FateOf(f)],
       returned <- (mainPc = "returned")

ImplementsHashGrouping == Abstract!Spec

\* Links of one file that were all readable are in one group of the result.
LinksInOneGroup ==
  mainPc = "returned" =>
    \A m, n \in grouped :
      Id[m.file] = Id[n.file] => m.len = n.len /\ m.hash = n.hash

=============================================================================
