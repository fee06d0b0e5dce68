---------------------------- MODULE RehashProofs -----------------------------
(***************************************************************************)
(* rehash for any finite set of files, any devices, groups, links, pools   *)
(* and limits: no file is lost or handled twice, no task outlives the      *)
(* call and the result is complete.                                        *)
(***************************************************************************)
EXTENDS Rehash, Semaphore, FiniteSetTheorems, TLAPS

(***************************************************************************)
(* The strengthening that makes the properties inductive.                  *)
(***************************************************************************)

\* Once sorted, the files of a vector have distinct ranks.
RanksDistinct ==
  \A d \in Devices : devPc[d] = "spawn" =>
    \A f, g \in todo[d] :
      rank[d][f] \in Nat /\ (f # g => rank[d][f] # rank[d][g])

\* A thread's vector holds files of its device, and none of them heads a task.
VectorsFresh ==
  \A d \in Devices : \A f \in todo[d] :
    Device[f] = d /\ taskPc[f] = "none" /\ held[f] = {}

\* Only tasks that have not sent everything yet hold files.
HoldersLive ==
  \A h \in Files : held[h] # {} => taskPc[h] \in {"queued", "open", "hash", "send"}

\* A sender exists exactly as long as its owner is alive.
SendersMatch ==
  /\ Main \in senders <=> mainPc = "launch"
  /\ \A d \in Devices : OfDevice(d) \in senders <=> devPc[d] \in {"sort", "spawn"}
  /\ \A h \in Files : OfTask(h) \in senders <=> taskPc[h] # "none"

\* The main thread is past its launching loop, and past a closed channel.
MainProgress ==
  /\ mainPc # "launch" => \A d \in Devices : devPc[d] # "unlaunched"
  /\ mainPc \in {"join", "returned"} => senders = {} /\ channel = {}

\* A device thread ends with an empty vector.
EndedEmpty == \A d \in Devices : devPc[d] = "ended" => todo[d] = {}

-----------------------------------------------------------------------------

LEMMA OwnersDistinct ==
  ASSUME NEW d, NEW h
  PROVE  /\ Main # OfDevice(d)
         /\ Main # OfTask(h)
         /\ OfDevice(d) # OfTask(h)
         /\ \A e : OfDevice(d) = OfDevice(e) => d = e
         /\ \A g : OfTask(h) = OfTask(g) => h = g
BY DEF Main, OfDevice, OfTask

LEMMA HashedFiles == Hashed \subseteq Files
BY DataAssumption DEF Hashed

LEMMA LenType == \A f \in Hashed : Len[f] \in Nat
<1> SUFFICES ASSUME NEW f \in Hashed
             PROVE  Len[f] \in Nat
  OBVIOUS
<1>1. \E g \in ToHash : f \in g.files
  BY DEF Hashed
<1>2. (CHOOSE g \in ToHash : f \in g.files) \in ToHash
  BY <1>1
<1> QED
  BY <1>2, DataAssumption DEF Len

LEMMA NatAntisymmetric == \A x, y \in Nat : x <= y /\ y <= x => x = y
OBVIOUS

LEMMA LimitType == \A d \in Devices : TaskLimit(d) \in Nat
BY LimitAssumption DEF TaskLimit

LEMMA MessageType ==
  ASSUME TypeOK, NEW h \in Files, NEW f \in Hashed
  PROVE  Message(f, h) \in Messages
BY HashedFiles, LenType DEF TypeOK, Message, Messages

LEMMA OwnerTypes ==
  /\ Main \in Owners
  /\ \A d \in Devices : OfDevice(d) \in Owners
  /\ \A h \in Files : OfTask(h) \in Owners
BY DEF Owners

LEMMA InitType == Init => TypeOK
BY LimitType, LimitAssumption, HashedFiles, OwnerTypes DEF Init, TypeOK, Stages

LEMMA NextType == TypeOK /\ [Next]_vars => TypeOK'
<1> SUFFICES ASSUME TypeOK, [Next]_vars
             PROVE  TypeOK'
  OBVIOUS
<1> USE OwnerTypes DEF TypeOK, CloneSender, DropSender
<1>1. ASSUME NEW d \in Devices, Launch(d) PROVE TypeOK'
  BY <1>1 DEF Launch, mainVars, taskVars
<1>2. CASE DropOwnSender
  BY <1>2 DEF DropOwnSender, deviceVars, taskVars
<1>3. CASE Receive
  BY <1>3 DEF Receive, deviceVars, taskVars
<1>4. CASE Disconnected
  BY <1>4 DEF Disconnected, deviceVars, taskVars
<1>5. CASE Return
  BY <1>5 DEF Return, deviceVars, taskVars
<1>6. ASSUME NEW d \in Devices, SortByLocation(d) PROVE TypeOK'
  BY <1>6 DEF SortByLocation, mainVars, taskVars
<1>7. ASSUME NEW d \in Devices, Spawn(d) PROVE TypeOK'
  <2>1. PICK h \in todo[d] :
           /\ todo' = [todo EXCEPT ![d] = @ \ RunOf(d, h)]
           /\ taskPc' = [taskPc EXCEPT ![h] = "queued"]
           /\ held' = [held EXCEPT ![h] = RunOf(d, h)]
           /\ senders' = senders \cup {OfTask(h)}
    BY <1>7 DEF Spawn
  <2>2. RunOf(d, h) \in SUBSET Hashed /\ h \in Files
    BY HashedFiles DEF RunOf
  <2>3. devSem' \in [Devices -> Nat]
    BY <1>7 DEF Spawn, TakeTaskPermit
  <2>4. UNCHANGED <<mainPc, grouped, devPc, rank, found, openSem, channel, failed>>
    BY <1>7 DEF Spawn, mainVars
  <2>5. /\ todo' \in [Devices -> SUBSET Hashed]
        /\ held' \in [Files -> SUBSET Hashed]
        /\ taskPc' \in [Files -> Stages \cup {"none"}]
    BY <2>1, <2>2 DEF Stages
  <2>6. senders' \subseteq Owners
    BY <2>1, <2>2
  <2> QED
    BY <2>3, <2>4, <2>5, <2>6
<1>8. ASSUME NEW d \in Devices, EndThread(d) PROVE TypeOK'
  BY <1>8 DEF EndThread, mainVars, taskVars
<1>9. ASSUME NEW h \in Files, Start(h) PROVE TypeOK'
  BY <1>9 DEF Start, mainVars, deviceVars, Stages
<1>10. ASSUME NEW h \in Files, OpenFile(h) PROVE TypeOK'
  BY <1>10 DEF OpenFile, mainVars, deviceVars, Stages
<1>11. ASSUME NEW h \in Files, HashFirst(h) PROVE TypeOK'
  <2>1. PICK r \in HashFn[h] : found' = [found EXCEPT ![h] = r]
    BY <1>11 DEF HashFirst
  <2>2. r \in [len : Nat, hash : Nat]
    BY DataAssumption
  <2>3. found' \in [Files -> [len : Nat, hash : Nat]]
    BY <2>1, <2>2
  <2> QED
    BY <1>11, <2>3 DEF HashFirst, mainVars, deviceVars, Stages
<1>12. ASSUME NEW h \in Files, HashFails(h) PROVE TypeOK'
  BY <1>12 DEF HashFails, mainVars, deviceVars, Stages
<1>13. ASSUME NEW h \in Files, Send(h) PROVE TypeOK'
  <2>1. PICK f \in held[h] : /\ channel' = channel \cup {Message(f, h)}
                             /\ held' = [held EXCEPT ![h] = @ \ {f}]
    BY <1>13 DEF Send
  <2>2. Message(f, h) \in Messages
    BY MessageType
  <2> QED
    BY <1>13, <2>1, <2>2 DEF Send, mainVars, deviceVars
<1>14. ASSUME NEW h \in Files, ReleaseTask(h) PROVE TypeOK'
  <2>1. Device[h] \in Devices
    BY DataAssumption
  <2> QED
    BY <1>14, <2>1 DEF ReleaseTask, mainVars, deviceVars, Stages
<1>15. ASSUME NEW h \in Files, CloseFile(h) PROVE TypeOK'
  BY <1>15 DEF CloseFile, mainVars, deviceVars, Stages
<1>16. ASSUME NEW h \in Files, DropTaskSender(h) PROVE TypeOK'
  BY <1>16 DEF DropTaskSender, mainVars, deviceVars, Stages
<1>17. CASE Finished \/ UNCHANGED vars
  BY <1>17 DEF Finished, vars
<1> QED
  BY <1>1, <1>2, <1>3, <1>4, <1>5, <1>6, <1>7, <1>8, <1>9, <1>10, <1>11, <1>12,
     <1>13, <1>14, <1>15, <1>16, <1>17
  DEF Next, MainStep, DeviceStep, TaskStep

\* The state of rehash (group.rs:563-686) keeps its shape: every file is at one
\* stage, every permit and sender is counted by a natural number.
THEOREM TypeCorrect == Spec => []TypeOK
BY InitType, NextType, PTL DEF Spec

-----------------------------------------------------------------------------
(***************************************************************************)
(* Bookkeeping: what each action leaves of VectorsFresh, HoldersLive,      *)
(* SendersMatch, MainProgress and EndedEmpty.                              *)
(***************************************************************************)

Bookkeeping ==
  RanksDistinct /\ VectorsFresh /\ HoldersLive /\ SendersMatch /\ MainProgress /\ EndedEmpty

LEMMA InitBookkeeping == Init => Bookkeeping
BY HashedFiles
DEF Init, Bookkeeping, RanksDistinct, VectorsFresh, HoldersLive, SendersMatch, MainProgress,
    EndedEmpty, Main, OfDevice, OfTask

LEMMA NextBookkeeping == TypeOK /\ Bookkeeping /\ [Next]_vars => Bookkeeping'
<1> SUFFICES ASSUME TypeOK, Bookkeeping, [Next]_vars
             PROVE  Bookkeeping'
  OBVIOUS
<1> USE OwnersDistinct, HashedFiles
    DEF TypeOK, Bookkeeping, RanksDistinct, VectorsFresh, HoldersLive, SendersMatch,
        MainProgress, EndedEmpty, DropSender, CloneSender
<1>1. ASSUME NEW d \in Devices, Launch(d) PROVE Bookkeeping'
  <2>1. RanksDistinct' /\ VectorsFresh' /\ HoldersLive'
    BY <1>1 DEF Launch, mainVars, taskVars
  <2>2. SendersMatch'
    BY <1>1 DEF Launch, mainVars, taskVars
  <2>3. MainProgress' /\ EndedEmpty'
    BY <1>1 DEF Launch, mainVars, taskVars
  <2> QED
    BY <2>1, <2>2, <2>3
<1>2. CASE DropOwnSender
  BY <1>2 DEF DropOwnSender, deviceVars, taskVars
<1>3. CASE Receive
  BY <1>3 DEF Receive, deviceVars, taskVars
<1>4. CASE Disconnected
  BY <1>4 DEF Disconnected, deviceVars, taskVars
<1>5. CASE Return
  BY <1>5 DEF Return, deviceVars, taskVars
<1>6. ASSUME NEW d \in Devices, SortByLocation(d) PROVE Bookkeeping'
  <2>1. PICK r \in Orders(todo[d]) : rank' = [rank EXCEPT ![d] = r]
    BY <1>6 DEF SortByLocation
  <2>2. IsFiniteSet(todo[d])
    BY DataAssumption, FS_Subset
  <2>3. Cardinality(todo[d]) \in Nat
    BY <2>2, FS_CardinalityType
  <2>4. \A f, g \in todo[d] : r[f] \in Nat /\ (f # g => r[f] # r[g])
    BY <2>1, <2>3 DEF Orders
  <2>5. RanksDistinct'
    BY <1>6, <2>1, <2>4 DEF SortByLocation
  <2> QED
    BY <1>6, <2>5 DEF SortByLocation, mainVars, taskVars
<1>7. ASSUME NEW d \in Devices, Spawn(d) PROVE Bookkeeping'
  <2>1. PICK h \in todo[d] :
           /\ IsFirst(d, h)
           /\ todo' = [todo EXCEPT ![d] = @ \ RunOf(d, h)]
           /\ taskPc' = [taskPc EXCEPT ![h] = "queued"]
           /\ held' = [held EXCEPT ![h] = RunOf(d, h)]
           /\ senders' = senders \cup {OfTask(h)}
    BY <1>7 DEF Spawn
  <2>2. UNCHANGED <<mainPc, devPc, channel>> /\ devPc[d] = "spawn"
    BY <1>7 DEF Spawn, mainVars
  <2>3. mainPc \notin {"join", "returned"}
    BY <2>2
  <2>4. h \in Files /\ h \in RunOf(d, h) /\ Device[h] = d
    <3>a. \A f, g \in todo[d] : rank[d][f] \in Nat /\ (f # g => rank[d][f] # rank[d][g])
      BY <2>2
    <3>b. \A g \in todo[d] : rank[d][h] <= rank[d][g]
      BY <2>1 DEF IsFirst
    <3>1. ASSUME NEW g \in todo[d], rank[d][g] <= rank[d][h]
          PROVE  g = h
      <4>1. rank[d][g] \in Nat /\ rank[d][h] \in Nat /\ rank[d][h] <= rank[d][g]
        BY <3>a, <3>b, <2>1
      <4>2. rank[d][g] = rank[d][h]
        BY <3>1, <4>1, NatAntisymmetric, Zenon
      <4> QED
        BY <3>a, <4>2, <2>1
    <3> QED
      BY <3>1 DEF RunOf
  <2>5. RanksDistinct' /\ VectorsFresh'
    BY <1>7, <2>1, <2>4 DEF Spawn
  <2>6. HoldersLive'
    BY <2>1, <2>4
  <2>7. SendersMatch'
    BY <2>1, <2>2, <2>4
  <2>8. MainProgress' /\ EndedEmpty'
    BY <2>1, <2>2, <2>3
  <2> QED
    BY <2>5, <2>6, <2>7, <2>8
<1>8. ASSUME NEW d \in Devices, EndThread(d) PROVE Bookkeeping'
  BY <1>8 DEF EndThread, mainVars, taskVars
<1>9. ASSUME NEW h \in Files, Start(h) PROVE Bookkeeping'
  BY <1>9 DEF Start, mainVars, deviceVars, Stages
<1>10. ASSUME NEW h \in Files, OpenFile(h) PROVE Bookkeeping'
  BY <1>10 DEF OpenFile, mainVars, deviceVars, Stages
<1>11. ASSUME NEW h \in Files, HashFirst(h) PROVE Bookkeeping'
  BY <1>11 DEF HashFirst, mainVars, deviceVars, Stages
<1>12. ASSUME NEW h \in Files, HashFails(h) PROVE Bookkeeping'
  BY <1>12 DEF HashFails, mainVars, deviceVars, Stages
<1>13. ASSUME NEW h \in Files, Send(h) PROVE Bookkeeping'
  BY <1>13 DEF Send, mainVars, deviceVars
<1>14. ASSUME NEW h \in Files, ReleaseTask(h) PROVE Bookkeeping'
  BY <1>14 DEF ReleaseTask, mainVars, deviceVars, Stages
<1>15. ASSUME NEW h \in Files, CloseFile(h) PROVE Bookkeeping'
  BY <1>15 DEF CloseFile, mainVars, deviceVars, Stages
<1>16. ASSUME NEW h \in Files, DropTaskSender(h) PROVE Bookkeeping'
  BY <1>16 DEF DropTaskSender, mainVars, deviceVars, Stages
<1>17. CASE Finished \/ UNCHANGED vars
  BY <1>17 DEF Finished, vars
<1> QED
  BY <1>1, <1>2, <1>3, <1>4, <1>5, <1>6, <1>7, <1>8, <1>9, <1>10, <1>11, <1>12,
     <1>13, <1>14, <1>15, <1>16, <1>17
  DEF Next, MainStep, DeviceStep, TaskStep

-----------------------------------------------------------------------------
(***************************************************************************)
(* Where the files are.  Only Spawn, HashFails, Send and Receive move one. *)
(***************************************************************************)

LEMMA InitConserves == Init => FilesConserved
<1> SUFFICES ASSUME Init
             PROVE  FilesConserved
  OBVIOUS
<1>1. \A f \in Hashed : InTodo(f) /\ ~InTask(f) /\ ~InChannel(f) /\ ~InGroup(f) /\ f \notin failed
  <2> SUFFICES ASSUME NEW f \in Hashed
               PROVE  InTodo(f) /\ ~InTask(f) /\ ~InChannel(f) /\ ~InGroup(f) /\ f \notin failed
    OBVIOUS
  <2>1. f \in todo[Device[f]] /\ Device[f] \in Devices
    BY HashedFiles, DataAssumption DEF Init
  <2> QED
    BY <2>1 DEF Init, InTodo, InTask, InChannel, InGroup
<1>2. \A f \in Hashed, h \in Files : f \notin held[h]
  BY DEF Init
<1> QED
  BY <1>1, <1>2 DEF Init, FilesConserved, NoFileLost, NoFileTwice

LEMMA StillConserves ==
  ASSUME FilesConserved, UNCHANGED <<todo, held, channel, grouped, failed>>
  PROVE  FilesConserved'
BY DEF FilesConserved, NoFileLost, NoFileTwice, InTodo, InTask, InChannel, InGroup

\* Receive moves a file from the channel to the map.
LEMMA ReceiveConserves ==
  ASSUME FilesConserved, Receive
  PROVE  FilesConserved'
<1> USE DEF InTodo, InTask, InChannel, InGroup
<1>1. PICK m \in channel : channel' = channel \ {m} /\ grouped' = grouped \cup {m}
  BY DEF Receive
<1>2. UNCHANGED <<todo, held, failed>>
  BY DEF Receive, deviceVars, taskVars
<1>3. channel' \cup grouped' = channel \cup grouped
  BY <1>1
<1>4. NoFileLost'
  BY <1>1, <1>2 DEF FilesConserved, NoFileLost
<1>5. ASSUME NEW f \in Hashed, InChannel(f)'
      PROVE  InChannel(f) /\ f # m.file
  BY <1>1, <1>5 DEF FilesConserved, NoFileTwice
<1>6. ASSUME NEW f \in Hashed, InGroup(f)'
      PROVE  InGroup(f) \/ f = m.file
  BY <1>1, <1>6
<1>7. NoFileTwice'
  BY <1>1, <1>2, <1>3, <1>5, <1>6 DEF FilesConserved, NoFileTwice
<1> QED
  BY <1>4, <1>7 DEF FilesConserved

\* Spawn moves the files of a run from a vector to a task.
LEMMA SpawnConserves ==
  ASSUME TypeOK, Bookkeeping, FilesConserved, NEW d \in Devices, Spawn(d)
  PROVE  FilesConserved'
<1>1. PICK h \in todo[d] :
           /\ todo' = [todo EXCEPT ![d] = @ \ RunOf(d, h)]
           /\ held' = [held EXCEPT ![h] = RunOf(d, h)]
  BY DEF Spawn
<1>2. UNCHANGED <<channel, grouped, failed>>
  BY DEF Spawn, mainVars
<1>3. RunOf(d, h) \subseteq todo[d] /\ h \in Files /\ held[h] = {}
  BY HashedFiles DEF RunOf, TypeOK, Bookkeeping, VectorsFresh
<1>4. \A e \in Devices : e # d => todo[e] \cap todo[d] = {}
  BY DEF Bookkeeping, VectorsFresh
<1>5. \A f \in Hashed : InTodo(f)' <=> InTodo(f) /\ f \notin RunOf(d, h)
  BY <1>1, <1>3, <1>4 DEF InTodo, TypeOK
<1>6. \A f \in Hashed : InTask(f)' <=> InTask(f) \/ f \in RunOf(d, h)
  BY <1>1, <1>3 DEF InTask, TypeOK
<1>7. \A f \in Hashed : f \in RunOf(d, h) => InTodo(f)
  BY <1>3 DEF InTodo
<1>8. UNCHANGED <<channel, grouped, failed>> /\ \A f \in Hashed :
        (InChannel(f)' <=> InChannel(f)) /\ (InGroup(f)' <=> InGroup(f))
  BY <1>2 DEF InChannel, InGroup
<1>9. ASSUME NEW f \in Hashed, NEW g \in Files, NEW k \in Files, f \in held'[g], f \in held'[k]
      PROVE  g = k
  <2>1. f \in RunOf(d, h) => \A x \in Files : f \notin held[x]
    BY <1>7 DEF FilesConserved, NoFileTwice, InTask
  <2> QED
    BY <1>1, <1>3, <1>9, <2>1 DEF FilesConserved, NoFileTwice, TypeOK
<1>10. NoFileLost'
  BY <1>5, <1>6, <1>8 DEF FilesConserved, NoFileLost
<1>11. NoFileTwice'
  BY <1>5, <1>6, <1>7, <1>8, <1>9 DEF FilesConserved, NoFileTwice
<1> QED
  BY <1>10, <1>11 DEF FilesConserved

\* HashFails leaves the files of a run out.
LEMMA FailConserves ==
  ASSUME TypeOK, FilesConserved, NEW h \in Files, HashFails(h)
  PROVE  FilesConserved'
<1>1. /\ failed' = failed \cup held[h]
      /\ held' = [held EXCEPT ![h] = {}]
      /\ UNCHANGED <<todo, channel, grouped>>
  BY DEF HashFails, mainVars, deviceVars
<1>2. \A f \in Hashed : InTask(f)' <=> InTask(f) /\ f \notin held[h]
  BY <1>1 DEF InTask, TypeOK, FilesConserved, NoFileTwice
<1>3. \A f \in Hashed : f \in held[h] => InTask(f)
  BY DEF InTask
<1>4. \A f \in Hashed : /\ InTodo(f)' <=> InTodo(f)
                        /\ InChannel(f)' <=> InChannel(f)
                        /\ InGroup(f)' <=> InGroup(f)
  BY <1>1 DEF InTodo, InChannel, InGroup
<1>5. \A g, k \in Files : \A f : f \in held'[g] /\ f \in held'[k] => f \in held[g] /\ f \in held[k]
  BY <1>1 DEF TypeOK
<1>6. NoFileLost'
  BY <1>1, <1>2, <1>4 DEF FilesConserved, NoFileLost
<1>7. NoFileTwice'
  BY <1>1, <1>2, <1>3, <1>4, <1>5 DEF FilesConserved, NoFileTwice
<1> QED
  BY <1>6, <1>7 DEF FilesConserved

\* Send moves a file from a task to the channel.
LEMMA SendConserves ==
  ASSUME TypeOK, FilesConserved, NEW h \in Files, Send(h)
  PROVE  FilesConserved'
<1>1. PICK x \in held[h] : /\ channel' = channel \cup {Message(x, h)}
                           /\ held' = [held EXCEPT ![h] = @ \ {x}]
  BY DEF Send
<1>2. UNCHANGED <<todo, grouped, failed>>
  BY DEF Send, mainVars, deviceVars
<1>3. Message(x, h).file = x /\ x \in Hashed
  BY DEF Message, TypeOK
<1>4. InTask(x)
  BY DEF InTask
<1>5. \A f \in Hashed : InTask(f)' <=> InTask(f) /\ f # x
  BY <1>1, <1>3 DEF InTask, TypeOK, FilesConserved, NoFileTwice
<1>6. \A f \in Hashed : InChannel(f)' <=> InChannel(f) \/ f = x
  BY <1>1, <1>3 DEF InChannel
<1>7. \A f \in Hashed : (InTodo(f)' <=> InTodo(f)) /\ (InGroup(f)' <=> InGroup(f))
  BY <1>2 DEF InTodo, InGroup
<1>8. \A g, k \in Files : \A f : f \in held'[g] /\ f \in held'[k] => f \in held[g] /\ f \in held[k]
  BY <1>1 DEF TypeOK
<1>9. \A m \in channel \cup grouped : m.file # x
  BY <1>3, <1>4 DEF FilesConserved, NoFileTwice, InChannel, InGroup
<1>10. NoFileLost'
  BY <1>2, <1>5, <1>6, <1>7 DEF FilesConserved, NoFileLost
<1>11. NoFileTwice'
  BY <1>1, <1>2, <1>3, <1>4, <1>5, <1>6, <1>7, <1>8, <1>9 DEF FilesConserved, NoFileTwice
<1> QED
  BY <1>10, <1>11 DEF FilesConserved

LEMMA NextConserves == TypeOK /\ Bookkeeping /\ FilesConserved /\ [Next]_vars => FilesConserved'
<1> SUFFICES ASSUME TypeOK, Bookkeeping, FilesConserved, [Next]_vars
             PROVE  FilesConserved'
  OBVIOUS
<1> USE StillConserves DEF mainVars, deviceVars, taskVars
<1>1. ASSUME NEW d \in Devices, Launch(d) PROVE FilesConserved'
  BY <1>1 DEF Launch
<1>2. CASE DropOwnSender
  BY <1>2 DEF DropOwnSender
<1>3. CASE Receive
  BY <1>3, ReceiveConserves
<1>4. CASE Disconnected
  BY <1>4 DEF Disconnected
<1>5. CASE Return
  BY <1>5 DEF Return
<1>6. ASSUME NEW d \in Devices, SortByLocation(d) PROVE FilesConserved'
  BY <1>6 DEF SortByLocation
<1>7. ASSUME NEW d \in Devices, Spawn(d) PROVE FilesConserved'
  BY <1>7, SpawnConserves
<1>8. ASSUME NEW d \in Devices, EndThread(d) PROVE FilesConserved'
  BY <1>8 DEF EndThread
<1>9. ASSUME NEW h \in Files, Start(h) PROVE FilesConserved'
  BY <1>9 DEF Start
<1>10. ASSUME NEW h \in Files, OpenFile(h) PROVE FilesConserved'
  BY <1>10 DEF OpenFile
<1>11. ASSUME NEW h \in Files, HashFirst(h) PROVE FilesConserved'
  BY <1>11 DEF HashFirst
<1>12. ASSUME NEW h \in Files, HashFails(h) PROVE FilesConserved'
  BY <1>12, FailConserves
<1>13. ASSUME NEW h \in Files, Send(h) PROVE FilesConserved'
  BY <1>13, SendConserves
<1>14. ASSUME NEW h \in Files, ReleaseTask(h) PROVE FilesConserved'
  BY <1>14 DEF ReleaseTask
<1>15. ASSUME NEW h \in Files, CloseFile(h) PROVE FilesConserved'
  BY <1>15 DEF CloseFile
<1>16. ASSUME NEW h \in Files, DropTaskSender(h) PROVE FilesConserved'
  BY <1>16 DEF DropTaskSender
<1>17. CASE Finished \/ UNCHANGED vars
  BY <1>17 DEF Finished, vars
<1> QED
  BY <1>1, <1>2, <1>3, <1>4, <1>5, <1>6, <1>7, <1>8, <1>9, <1>10, <1>11, <1>12,
     <1>13, <1>14, <1>15, <1>16, <1>17
  DEF Next, MainStep, DeviceStep, TaskStep

-----------------------------------------------------------------------------

IInv == TypeOK /\ Bookkeeping /\ FilesConserved

LEMMA Inductive == Spec => []IInv
<1>1. Init => IInv
  BY InitType, InitBookkeeping, InitConserves DEF IInv
<1>2. IInv /\ [Next]_vars => IInv'
  BY NextType, NextBookkeeping, NextConserves DEF IInv
<1> QED
  BY <1>1, <1>2, PTL DEF Spec

\* Every file given to rehash is in exactly one place at any moment: waiting in
\* its device's vector, held by one task, in the channel, grouped, or left out.
THEOREM ConservesFiles == Spec => []FilesConserved
BY Inductive, PTL DEF IInv

\* With no join on the tasks, no task exists once the receive loop has ended,
\* which is what the transmute of hash_fn to 'static relies on.
THEOREM OutlivesNothing == Spec => []NoTaskOutlivesCall
<1>1. IInv => NoTaskOutlivesCall
  BY DEF IInv, Bookkeeping, MainProgress, SendersMatch, NoTaskOutlivesCall
<1> QED
  BY <1>1, Inductive, PTL

\* When rehash returns, each file is in a group or its run could not be read.
THEOREM ReturnsComplete == Spec => []ResultComplete
<1>1. ASSUME IInv, mainPc = "returned", NEW f \in Hashed
      PROVE  InGroup(f) \/ f \in failed
  <2> USE DEF IInv, Bookkeeping
  <2>1. senders = {} /\ channel = {}
    BY <1>1 DEF MainProgress
  <2>2. \A d \in Devices : devPc[d] = "ended"
    BY <1>1, <2>1 DEF MainProgress, SendersMatch, TypeOK
  <2>3. ~InTodo(f)
    BY <1>1, <2>2 DEF EndedEmpty, InTodo
  <2>4. \A h \in Files : taskPc[h] = "none"
    BY <1>1, <2>1 DEF SendersMatch
  <2>5. ~InTask(f)
    BY <1>1, <2>4 DEF HoldersLive, InTask
  <2>6. ~InChannel(f)
    BY <2>1 DEF InChannel
  <2> QED
    BY <1>1, <2>3, <2>5, <2>6 DEF FilesConserved, NoFileLost
<1>2. IInv => ResultComplete
  BY <1>1 DEF ResultComplete
<1> QED
  BY <1>2, Inductive, PTL

-----------------------------------------------------------------------------
(***************************************************************************)
(* The limits of rehash and the order in which it reads: permits and tasks *)
(* add up on every device and over all of them, and tasks start in the     *)
(* order of the locations of their files.                                  *)
(***************************************************************************)

(***************************************************************************)
(* Limits.  A task that goes to another stage may enter or leave the set   *)
(* of tasks that a semaphore counts.                                       *)
(***************************************************************************)

Opened == {h \in Files : taskPc[h] \in FileOpen}

\* The count of a finite set after one element came in or went out.
LEMMA OneMoreOrLess ==
  ASSUME NEW S, IsFiniteSet(S), NEW x
  PROVE  /\ Cardinality(S) \in Nat
         /\ x \notin S => Cardinality(S \cup {x}) = Cardinality(S) + 1
         /\ x \in S => Cardinality(S \ {x}) = Cardinality(S) - 1
BY FS_CardinalityType, FS_AddElement, FS_RemoveElement

LEMMA TasksFinite ==
  /\ IsFiniteSet(Opened)
  /\ \A d \in Devices : \A S : IsFiniteSet(TasksOf(d, S))
<1>1. Opened \subseteq Files /\ \A d \in Devices : \A S : TasksOf(d, S) \subseteq Files
  BY DEF Opened, TasksOf
<1> QED
  BY <1>1, DataAssumption, FS_Subset

\* What the stage of one task changes of the sets that are counted.
LEMMA StageCounted ==
  ASSUME TypeOK, NEW h \in Files, NEW s, taskPc' = [taskPc EXCEPT ![h] = s]
  PROVE  /\ (taskPc[h] \in FileOpen <=> s \in FileOpen) => Opened' = Opened
         /\ taskPc[h] \notin FileOpen /\ s \in FileOpen =>
              h \notin Opened /\ Opened' = Opened \cup {h}
         /\ taskPc[h] \in FileOpen /\ s \notin FileOpen =>
              h \in Opened /\ Opened' = Opened \ {h}
         /\ \A d \in Devices :
              /\ d # Device[h] \/ (taskPc[h] \in InFlight <=> s \in InFlight) =>
                   TasksOf(d, InFlight)' = TasksOf(d, InFlight)
              /\ d = Device[h] /\ taskPc[h] \notin InFlight /\ s \in InFlight =>
                   /\ h \notin TasksOf(d, InFlight)
                   /\ TasksOf(d, InFlight)' = TasksOf(d, InFlight) \cup {h}
              /\ d = Device[h] /\ taskPc[h] \in InFlight /\ s \notin InFlight =>
                   /\ h \in TasksOf(d, InFlight)
                   /\ TasksOf(d, InFlight)' = TasksOf(d, InFlight) \ {h}
<1>1. \A g \in Files : taskPc'[g] = IF g = h THEN s ELSE taskPc[g]
  BY DEF TypeOK
<1> QED
  BY <1>1 DEF Opened, TasksOf

LEMMA StillLimited ==
  ASSUME LimitsHold, UNCHANGED <<taskPc, devSem, openSem>>
  PROVE  LimitsHold'
BY DEF LimitsHold, TasksOf

LEMMA InitLimited == Init => LimitsHold
<1> SUFFICES ASSUME Init PROVE LimitsHold
  OBVIOUS
<1>1. Opened = {} /\ \A d \in Devices : TasksOf(d, InFlight) = {}
  BY DEF Init, Opened, TasksOf, FileOpen, InFlight
<1>2. /\ openSem = OpenFiles /\ OpenFiles \in Nat
      /\ \A d \in Devices : devSem[d] = TaskLimit(d) /\ TaskLimit(d) \in Nat
  BY LimitAssumption, LimitType DEF Init
<1> QED
  BY <1>1, <1>2, FS_EmptySet DEF LimitsHold, Opened

\* What is free of n permits when a task that had one (or not) has one (or not).
Freed(n, had, has) ==
  IF had /\ ~has THEN n + 1 ELSE IF ~had /\ has THEN n - 1 ELSE n

\* Task h goes to stage s, and the permits with it.
Goes(h, s) ==
  /\ taskPc' = [taskPc EXCEPT ![h] = s]
  /\ openSem' = Freed(openSem, taskPc[h] \in FileOpen, s \in FileOpen)
  /\ \A d \in Devices :
       devSem'[d] = IF d = Device[h]
                      THEN Freed(devSem[d], taskPc[h] \in InFlight, s \in InFlight)
                      ELSE devSem[d]

LEMMA StageLimited ==
  ASSUME TypeOK, TypeOK', LimitsHold, NEW h \in Files, NEW s, Goes(h, s)
  PROVE  LimitsHold'
<1>1. /\ Cardinality(Opened) \in Nat
      /\ openSem \in Nat /\ openSem' \in Nat
      /\ openSem + Cardinality(Opened) = OpenFiles
      /\ OpenFiles \in Nat
  BY TasksFinite, FS_CardinalityType, LimitAssumption DEF LimitsHold, Opened, TypeOK
<1>2. /\ h \notin Opened => Cardinality(Opened \cup {h}) = Cardinality(Opened) + 1
      /\ h \in Opened => Cardinality(Opened \ {h}) = Cardinality(Opened) - 1
  BY TasksFinite, OneMoreOrLess
<1>3. openSem' >= 0 /\ openSem' + Cardinality(Opened') = OpenFiles
  <2>1. CASE taskPc[h] \in FileOpen <=> s \in FileOpen
    <3>1. openSem' = openSem /\ Opened' = Opened
      BY <2>1, StageCounted DEF Goes, Freed
    <3> QED
      BY <1>1, <3>1
  <2>2. CASE taskPc[h] \notin FileOpen /\ s \in FileOpen
    <3>1. openSem' = openSem - 1 /\ Opened' = Opened \cup {h} /\ h \notin Opened
      BY <2>2, StageCounted DEF Goes, Freed
    <3> QED
      BY <1>1, <1>2, <3>1
  <2>3. CASE taskPc[h] \in FileOpen /\ s \notin FileOpen
    <3>1. openSem' = openSem + 1 /\ Opened' = Opened \ {h} /\ h \in Opened
      BY <2>3, StageCounted DEF Goes, Freed
    <3> QED
      BY <1>1, <1>2, <3>1
  <2> QED
    BY <2>1, <2>2, <2>3
<1>4. ASSUME NEW d \in Devices
      PROVE  /\ devSem'[d] >= 0
             /\ devSem'[d] + Cardinality(TasksOf(d, InFlight)') = TaskLimit(d)
  <2> DEFINE T == TasksOf(d, InFlight)
  <2>1. /\ Cardinality(T) \in Nat /\ TaskLimit(d) \in Nat
        /\ devSem[d] \in Nat /\ devSem'[d] \in Nat
        /\ devSem[d] + Cardinality(T) = TaskLimit(d)
    BY TasksFinite, FS_CardinalityType, LimitType DEF LimitsHold, TypeOK
  <2>2. /\ h \notin T => Cardinality(T \cup {h}) = Cardinality(T) + 1
        /\ h \in T => Cardinality(T \ {h}) = Cardinality(T) - 1
    BY TasksFinite, OneMoreOrLess
  <2>3. CASE d # Device[h] \/ (taskPc[h] \in InFlight <=> s \in InFlight)
    <3>1. devSem'[d] = devSem[d] /\ T' = T
      BY <2>3, StageCounted DEF Goes, Freed
    <3> HIDE DEF T
    <3> QED
      BY <2>1, <3>1 DEF T
  <2>4. CASE d = Device[h] /\ taskPc[h] \notin InFlight /\ s \in InFlight
    <3>1. devSem'[d] = devSem[d] - 1 /\ T' = T \cup {h} /\ h \notin T
      BY <2>4, StageCounted DEF Goes, Freed
    <3> QED
      BY <2>1, <2>2, <3>1
  <2>5. CASE d = Device[h] /\ taskPc[h] \in InFlight /\ s \notin InFlight
    <3>1. devSem'[d] = devSem[d] + 1 /\ T' = T \ {h} /\ h \in T
      BY <2>5, StageCounted DEF Goes, Freed
    <3> QED
      BY <2>1, <2>2, <3>1
  <2> QED
    BY <2>3, <2>4, <2>5
<1> QED
  BY <1>3, <1>4 DEF LimitsHold, Opened

LEMMA NextLimited == TypeOK /\ Bookkeeping /\ LimitsHold /\ [Next]_vars => LimitsHold'
<1> SUFFICES ASSUME TypeOK, Bookkeeping, LimitsHold, [Next]_vars
             PROVE  LimitsHold'
  OBVIOUS
<1>0. TypeOK'
  BY NextType
<1>a. ASSUME NEW h \in Files, NEW s, Goes(h, s) PROVE LimitsHold'
  BY <1>0, <1>a, StageLimited
<1>1. ASSUME NEW d \in Devices, Launch(d) PROVE LimitsHold'
  BY <1>1, StillLimited DEF Launch, taskVars
<1>2. CASE DropOwnSender \/ Receive \/ Disconnected \/ Return
  BY <1>2, StillLimited DEF DropOwnSender, Receive, Disconnected, Return, taskVars
<1>3. ASSUME NEW d \in Devices, SortByLocation(d) \/ EndThread(d) PROVE LimitsHold'
  BY <1>3, StillLimited DEF SortByLocation, EndThread, taskVars
<1>4. ASSUME NEW d \in Devices, Spawn(d) PROVE LimitsHold'
  <2>1. PICK h \in todo[d] : taskPc' = [taskPc EXCEPT ![h] = "queued"]
    BY <1>4 DEF Spawn
  <2>2. h \in Files /\ Device[h] = d /\ taskPc[h] = "none"
    BY HashedFiles DEF TypeOK, Bookkeeping, VectorsFresh
  <2>3. UNCHANGED openSem /\ devSem' = [devSem EXCEPT ![d] = @ - 1]
    BY <1>4 DEF Spawn, TakeTaskPermit
  <2>4. \A e \in Devices : devSem'[e] = IF e = d THEN devSem[e] - 1 ELSE devSem[e]
    BY <2>3 DEF TypeOK
  <2> QED
    <3>1. Goes(h, "queued")
      BY <2>1, <2>2, <2>3, <2>4 DEF Goes, Freed, FileOpen, InFlight
    <3> QED
      BY <1>a, <2>2, <3>1
<1>5. ASSUME NEW h \in Files, Start(h) PROVE LimitsHold'
  <2>1. Goes(h, "open")
    BY <1>5 DEF Start, Goes, Freed, FileOpen, InFlight, TypeOK
  <2> QED
    BY <1>a, <2>1
<1>6. ASSUME NEW h \in Files, OpenFile(h) PROVE LimitsHold'
  <2>1. Goes(h, "hash")
    BY <1>6 DEF OpenFile, Goes, Freed, FileOpen, InFlight, TypeOK
  <2> QED
    BY <1>a, <2>1
<1>7. ASSUME NEW h \in Files, HashFirst(h) PROVE LimitsHold'
  <2>1. Goes(h, "send")
    BY <1>7 DEF HashFirst, Goes, Freed, FileOpen, InFlight, TypeOK
  <2> QED
    BY <1>a, <2>1
<1>8. ASSUME NEW h \in Files, HashFails(h) PROVE LimitsHold'
  <2>1. Goes(h, "release")
    BY <1>8 DEF HashFails, Goes, Freed, FileOpen, InFlight, TypeOK
  <2> QED
    BY <1>a, <2>1
<1>9. ASSUME NEW h \in Files, Send(h) PROVE LimitsHold'
  BY <1>9, StillLimited DEF Send
<1>10. ASSUME NEW h \in Files, ReleaseTask(h) PROVE LimitsHold'
  <2>1. \A d \in Devices : devSem'[d] = IF d = Device[h] THEN devSem[d] + 1 ELSE devSem[d]
    BY <1>10 DEF ReleaseTask, TypeOK
  <2>2. taskPc[h] \in {"release", "send"} /\ taskPc' = [taskPc EXCEPT ![h] = "close"] /\ UNCHANGED openSem
    BY <1>10 DEF ReleaseTask
  <2> QED
    <3>1. Goes(h, "close")
      BY <2>1, <2>2 DEF Goes, Freed, FileOpen, InFlight
    <3> QED
      BY <1>a, <3>1
<1>11. ASSUME NEW h \in Files, CloseFile(h) PROVE LimitsHold'
  <2>1. Goes(h, "detach")
    BY <1>11 DEF CloseFile, Goes, Freed, FileOpen, InFlight, TypeOK
  <2> QED
    BY <1>a, <2>1
<1>12. ASSUME NEW h \in Files, DropTaskSender(h) PROVE LimitsHold'
  <2>1. Goes(h, "none")
    BY <1>12 DEF DropTaskSender, Goes, Freed, FileOpen, InFlight, TypeOK
  <2> QED
    BY <1>a, <2>1
<1>13. CASE Finished \/ UNCHANGED vars
  BY <1>13, StillLimited DEF Finished, vars
<1> QED
  BY <1>1, <1>2, <1>3, <1>4, <1>5, <1>6, <1>7, <1>8, <1>9, <1>10, <1>11, <1>12, <1>13
  DEF Next, MainStep, DeviceStep, TaskStep

\* No more tasks are in flight on a device than its semaphore had permits
\* (group.rs:635), no more files are open than RLIMIT_OPEN_FILES allows, and a permit
\* that is not in its semaphore belongs to one task.
THEOREM KeepsLimits == Spec => []LimitsHold
<1>1. Init => LimitsHold
  BY InitLimited
<1>2. IInv /\ LimitsHold /\ [Next]_vars => LimitsHold'
  BY NextLimited DEF IInv
<1> QED
  BY <1>1, <1>2, Inductive, PTL DEF Spec

-----------------------------------------------------------------------------
(***************************************************************************)
(* Order.  The vector of a device is a queue of runs by rank, and so is    *)
(* its pool; what left the one is ahead of what is in it, and what left    *)
(* the other is ahead of what waits in it.                                 *)
(***************************************************************************)

\* Until the sort, a device's thread has all of its files and no tasks.
NotYetSorted ==
  \A d \in Devices : devPc[d] \in {"unlaunched", "sort"} =>
    /\ todo[d] = {f \in Hashed : Device[f] = d}
    /\ \A h \in Files : Device[h] = d => taskPc[h] = "none"

\* After it, the ranks of its files follow their locations.
RanksFollow ==
  \A d \in Devices : devPc[d] \in {"spawn", "ended"} =>
    \A f, g \in Hashed : Device[f] = d /\ Device[g] = d =>
      /\ rank[d][f] \in Nat
      /\ rank[d][f] <= rank[d][g] => Location[f] <= Location[g]

\* Tasks are named after files to hash, and rank before what is in the vector.
TasksAhead ==
  \A h \in Files : taskPc[h] # "none" =>
    /\ h \in Hashed
    /\ \A g \in todo[Device[h]] : rank[Device[h]][h] <= rank[Device[h]][g]

\* Started tasks rank before queued ones.
StartedAhead ==
  \A h, g \in Files :
    Device[h] = Device[g] /\ taskPc[h] \in OnWorker /\ taskPc[g] = "queued" =>
      rank[Device[h]][h] <= rank[Device[h]][g]

InOrder == NotYetSorted /\ RanksFollow /\ TasksAhead /\ StartedAhead

LEMMA InitInOrder == Init => InOrder
BY DEF Init, InOrder, NotYetSorted, RanksFollow, TasksAhead, StartedAhead, OnWorker, Stages

\* The stages that follow a start change nothing of the order.
LEMMA StillInOrder ==
  ASSUME TypeOK, InOrder, UNCHANGED <<devPc, rank, todo>>,
         \A h \in Files : taskPc'[h] \in {taskPc[h]} \cup (IF taskPc[h] \in OnWorker
                                                            THEN OnWorker \cup {"none"} ELSE {})
  PROVE  InOrder'
<1>1. /\ \A h \in Files : taskPc'[h] # "none" => taskPc[h] # "none"
      /\ \A h \in Files : taskPc'[h] = "queued" => taskPc[h] = "queued"
      /\ \A h \in Files : taskPc'[h] \in OnWorker => taskPc[h] \in OnWorker
  BY DEF OnWorker, Stages, TypeOK
<1> QED
  BY <1>1 DEF InOrder, NotYetSorted, RanksFollow, TasksAhead, StartedAhead

LEMMA NextInOrder == TypeOK /\ Bookkeeping /\ InOrder /\ [Next]_vars => InOrder'
<1> SUFFICES ASSUME TypeOK, Bookkeeping, InOrder, [Next]_vars
             PROVE  InOrder'
  OBVIOUS
<1> USE DEF InOrder
<1>1. ASSUME NEW d \in Devices, Launch(d) PROVE InOrder'
  <2>1. /\ devPc[d] = "unlaunched"
        /\ UNCHANGED <<rank, todo, taskPc>>
        /\ \A e \in Devices : devPc'[e] =
             IF e = d THEN IF todo[d] = {} THEN "ended" ELSE "sort" ELSE devPc[e]
    BY <1>1 DEF Launch, taskVars, TypeOK
  <2>2. todo[d] = {f \in Hashed : Device[f] = d}
    BY <2>1 DEF NotYetSorted
  <2>3. NotYetSorted'
    BY <2>1 DEF NotYetSorted
  <2>4. RanksFollow'
    BY <2>1, <2>2 DEF RanksFollow
  <2>5. TasksAhead' /\ StartedAhead'
    BY <2>1 DEF TasksAhead, StartedAhead
  <2> QED
    BY <2>3, <2>4, <2>5
<1>2. CASE DropOwnSender \/ Receive \/ Disconnected \/ Return \/ Finished \/ UNCHANGED vars
  <2>1. UNCHANGED <<devPc, rank, todo, taskPc>>
    BY <1>2 DEF DropOwnSender, Receive, Disconnected, Return, Finished, vars, deviceVars, taskVars
  <2> QED
    BY <2>1, StillInOrder
<1>3. ASSUME NEW d \in Devices, SortByLocation(d) PROVE InOrder'
  <2>1. PICK r \in Orders(todo[d]) : rank' = [rank EXCEPT ![d] = r]
    BY <1>3 DEF SortByLocation
  <2>2. /\ devPc[d] = "sort"
        /\ UNCHANGED <<todo, taskPc>>
        /\ \A e \in Devices : devPc'[e] = IF e = d THEN "spawn" ELSE devPc[e]
        /\ \A e \in Devices : rank'[e] = IF e = d THEN r ELSE rank[e]
    BY <1>3, <2>1 DEF SortByLocation, taskVars, TypeOK
  <2>3. /\ todo[d] = {f \in Hashed : Device[f] = d}
        /\ \A h \in Files : Device[h] = d => taskPc[h] = "none"
    BY <2>2 DEF NotYetSorted
  <2>4. NotYetSorted'
    BY <2>2 DEF NotYetSorted
  <2>5. \A f \in todo[d] : r[f] \in Nat
    <3>1. Cardinality(todo[d]) \in Nat
      BY HashedFiles, DataAssumption, FS_Subset, FS_CardinalityType DEF TypeOK
    <3> QED
      BY <2>1, <3>1 DEF Orders
  <2>6. ASSUME NEW f \in todo[d], NEW g \in todo[d], r[f] <= r[g]
        PROVE  Location[f] <= Location[g]
    <3>1. Location[f] \in Nat /\ Location[g] \in Nat
      BY HashedFiles, DataAssumption DEF TypeOK
    <3>2. f # g /\ Location[g] < Location[f] => r[g] < r[f]
      BY <2>1 DEF Orders
    <3>3. r[f] \in Nat /\ r[g] \in Nat
      BY <2>5
    <3> QED
      BY <2>6, <3>1, <3>2, <3>3
  <2>7. RanksFollow'
    BY <2>2, <2>3, <2>5, <2>6 DEF RanksFollow
  <2>8. TasksAhead' /\ StartedAhead'
    BY <2>2, <2>3, DataAssumption DEF TasksAhead, StartedAhead, OnWorker, Stages
  <2> QED
    BY <2>4, <2>7, <2>8
<1>4. ASSUME NEW d \in Devices, Spawn(d) PROVE InOrder'
  <2>1. PICK h \in todo[d] :
           /\ IsFirst(d, h)
           /\ todo' = [todo EXCEPT ![d] = @ \ RunOf(d, h)]
           /\ taskPc' = [taskPc EXCEPT ![h] = "queued"]
    BY <1>4 DEF Spawn
  <2>2. UNCHANGED <<devPc, rank>> /\ devPc[d] = "spawn"
    BY <1>4 DEF Spawn
  <2>3. h \in Files /\ h \in Hashed /\ Device[h] = d
    BY HashedFiles DEF TypeOK, Bookkeeping, VectorsFresh
  <2>4. /\ \A g \in Files : taskPc'[g] = IF g = h THEN "queued" ELSE taskPc[g]
        /\ \A e \in Devices : todo'[e] \subseteq todo[e] /\ (e # d => todo'[e] = todo[e])
    BY <2>1, <2>3 DEF TypeOK
  <2>5. \A g \in todo[d] : rank[d][h] <= rank[d][g]
    BY <2>1 DEF IsFirst
  <2>6. NotYetSorted'
    BY <2>2, <2>3, <2>4 DEF NotYetSorted
  <2>7. RanksFollow'
    BY <2>2 DEF RanksFollow
  <2>8. TasksAhead'
    BY <2>2, <2>3, <2>4, <2>5, DataAssumption DEF TasksAhead
  <2>9. StartedAhead'
    <3>1. \A g \in Files : taskPc'[g] \in OnWorker => g # h /\ taskPc[g] \in OnWorker
      BY <2>4 DEF OnWorker
    <3>2. \A g \in Files : taskPc[g] \in OnWorker /\ Device[g] = d => rank[d][g] <= rank[d][h]
      BY DEF TasksAhead, OnWorker, Stages
    <3> QED
      BY <2>2, <2>3, <2>4, <3>1, <3>2 DEF StartedAhead
  <2> QED
    BY <2>6, <2>7, <2>8, <2>9
<1>5. ASSUME NEW d \in Devices, EndThread(d) PROVE InOrder'
  <2>1. /\ devPc[d] = "spawn"
        /\ UNCHANGED <<rank, todo, taskPc>>
        /\ \A e \in Devices : devPc'[e] = IF e = d THEN "ended" ELSE devPc[e]
    BY <1>5 DEF EndThread, taskVars, TypeOK
  <2> QED
    BY <2>1 DEF NotYetSorted, RanksFollow, TasksAhead, StartedAhead
<1>6. ASSUME NEW h \in Files, Start(h) PROVE InOrder'
  <2>1. /\ taskPc[h] = "queued"
        /\ \A g \in TasksOf(Device[h], {"queued"}) : rank[Device[h]][h] <= rank[Device[h]][g]
        /\ UNCHANGED <<devPc, rank, todo>>
        /\ \A g \in Files : taskPc'[g] = IF g = h THEN "open" ELSE taskPc[g]
    BY <1>6 DEF Start, deviceVars, TypeOK
  <2>2. NotYetSorted' /\ RanksFollow' /\ TasksAhead'
    BY <2>1 DEF NotYetSorted, RanksFollow, TasksAhead
  <2>3. \A g \in Files : taskPc'[g] = "queued" => g # h /\ taskPc[g] = "queued"
    BY <2>1
  <2>4. StartedAhead'
    BY <2>1, <2>3 DEF StartedAhead, TasksOf
  <2> QED
    BY <2>2, <2>4
<1>7. ASSUME NEW h \in Files,
             OpenFile(h) \/ HashFirst(h) \/ HashFails(h) \/ Send(h) \/ ReleaseTask(h)
               \/ CloseFile(h) \/ DropTaskSender(h)
      PROVE  InOrder'
  <2>1. UNCHANGED <<devPc, rank, todo>>
    BY <1>7 DEF OpenFile, HashFirst, HashFails, Send, ReleaseTask, CloseFile, DropTaskSender, deviceVars
  <2>2. taskPc[h] \in OnWorker /\ \E s \in OnWorker \cup {"none"} : taskPc' = [taskPc EXCEPT ![h] = s]
    <3>1. CASE Send(h)
      <4>1. taskPc[h] = "send" /\ taskPc' = taskPc
        BY <3>1 DEF Send
      <4>2. taskPc' = [taskPc EXCEPT ![h] = "send"]
        BY <4>1 DEF TypeOK
      <4> QED
        BY <4>1, <4>2 DEF OnWorker, Stages
    <3>2. CASE ~Send(h)
      BY <1>7, <3>2
      DEF OpenFile, HashFirst, HashFails, ReleaseTask, CloseFile, DropTaskSender, OnWorker, Stages
    <3> QED
      BY <3>1, <3>2
  <2>3. \A g \in Files : taskPc'[g] \in {taskPc[g]} \cup (IF taskPc[g] \in OnWorker
                                                          THEN OnWorker \cup {"none"} ELSE {})
    BY <2>2 DEF TypeOK
  <2> QED
    BY <2>1, <2>3, StillInOrder
<1> QED
  BY <1>1, <1>2, <1>3, <1>4, <1>5, <1>6, <1>7
  DEF Next, MainStep, DeviceStep, TaskStep

\* The files of a device are opened in the order of their locations (group.rs:575
\* and 647): no task starts ahead of a file that lies before its own and has not
\* been started, whatever devices, links and workers there are.
THEOREM StartsInOrder == Spec => []StartsInLocationOrder
<1>1. Init => InOrder
  BY InitInOrder
<1>2. IInv /\ InOrder /\ [Next]_vars => InOrder'
  BY NextInOrder DEF IInv
<1>3. ASSUME IInv, InOrder, NEW h \in Hashed, NEW g \in Hashed,
             Device[h] = Device[g], taskPc[h] \in OnWorker,
             g \in todo[Device[g]] \/ taskPc[g] = "queued"
      PROVE  Location[h] <= Location[g]
  <2>1. h \in Files /\ g \in Files /\ Device[h] \in Devices
    BY HashedFiles, DataAssumption
  <2>2. rank[Device[h]][h] <= rank[Device[h]][g]
    BY <1>3, <2>1 DEF InOrder, TasksAhead, StartedAhead, OnWorker, Stages
  <2>3. devPc[Device[h]] \in {"spawn", "ended"}
    BY <1>3, <2>1 DEF IInv, TypeOK, InOrder, NotYetSorted, OnWorker, Stages
  <2> QED
    BY <1>3, <2>1, <2>2, <2>3 DEF InOrder, RanksFollow
<1>4. IInv /\ InOrder => StartsInLocationOrder
  BY <1>3 DEF StartsInLocationOrder
<1> QED
  BY <1>1, <1>2, <1>4, Inductive, PTL DEF Spec

-----------------------------------------------------------------------------
(***************************************************************************)
(* rehash implements HashGrouping, for any files, devices, links and       *)
(* limits: whatever the threads do, a caller sees files being settled one  *)
(* by one, or left out by runs of links, and a return when all are.        *)
(***************************************************************************)

(***************************************************************************)
(* What the refinement adds to IInv: hashes are those of the file or of a  *)
(* link to it, from the task to the map.                                   *)
(***************************************************************************)

\* A task holds links of the file it is named after.
RunsLinked == \A h \in Files : \A f \in held[h] : h \in Hashed /\ Id[f] = Id[h]

\* What a task is about to send is what the hash function returned.
FoundHashed == \A h \in Files : taskPc[h] = "send" => found[h] \in HashFn[h]

Key(m) == <<"key", m.len, m.hash>>

MessagesKeyed == \A m \in channel \cup grouped : m.file \in Hashed /\ Key(m) \in KeysOf[m.file]

Keyed == RunsLinked /\ FoundHashed /\ MessagesKeyed

LEMMA InitKeyed == Init => Keyed
BY DEF Init, Keyed, RunsLinked, FoundHashed, MessagesKeyed

LEMMA SpawnLinked ==
  ASSUME TypeOK, Bookkeeping, Keyed, NEW d \in Devices, Spawn(d)
  PROVE  RunsLinked'
<1>1. PICK h \in todo[d] : held' = [held EXCEPT ![h] = RunOf(d, h)]
  BY DEF Spawn
<1>2. devPc[d] = "spawn" /\ h \in Hashed /\ h \in Files
  BY HashedFiles DEF Spawn, TypeOK
<1>3. \A f \in RunOf(d, h) : Id[f] = Id[h]
  <2>1. \A f \in todo[d] : rank[d][f] <= rank[d][f]
    BY <1>2 DEF Bookkeeping, RanksDistinct
  <2> QED
    BY <2>1 DEF RunOf
<1> QED
  BY <1>1, <1>2, <1>3 DEF RunsLinked, Keyed, TypeOK

LEMMA SendKeyed ==
  ASSUME TypeOK, Keyed, NEW h \in Files, Send(h)
  PROVE  RunsLinked' /\ MessagesKeyed'
<1>1. PICK f \in held[h] : /\ channel' = channel \cup {Message(f, h)}
                           /\ held' = [held EXCEPT ![h] = @ \ {f}]
  BY DEF Send
<1>2. f \in Hashed /\ h \in Hashed /\ Id[f] = Id[h] /\ found[h] \in HashFn[h]
  BY DEF Keyed, RunsLinked, FoundHashed, TypeOK, Send
<1>3. Key(Message(f, h)) = <<"key", IF h = f THEN found[h].len ELSE Len[f], found[h].hash>>
  BY DEF Key, Message
<1>4. Key(Message(f, h)) \in KeysOf[f] /\ Message(f, h).file = f
  BY <1>2, <1>3 DEF KeysOf, Message
<1>5. RunsLinked'
  BY <1>1 DEF Keyed, RunsLinked, TypeOK
<1>6. MessagesKeyed'
  <2>1. UNCHANGED grouped
    BY DEF Send, mainVars
  <2> QED
    BY <1>1, <1>2, <1>4, <2>1 DEF Keyed, MessagesKeyed, Key
<1> QED
  BY <1>5, <1>6

LEMMA NextKeyed == TypeOK /\ Bookkeeping /\ Keyed /\ [Next]_vars => Keyed'
<1> SUFFICES ASSUME TypeOK, Bookkeeping, Keyed, [Next]_vars
             PROVE  Keyed'
  OBVIOUS
<1>a. ASSUME UNCHANGED <<held, channel, grouped>>
      PROVE  RunsLinked' /\ MessagesKeyed'
  BY <1>a DEF Keyed, RunsLinked, MessagesKeyed, Key
<1>b. ASSUME UNCHANGED found, NEW h \in Files, NEW s, s # "send",
             taskPc' = [taskPc EXCEPT ![h] = s]
      PROVE  FoundHashed'
  BY <1>b DEF Keyed, FoundHashed, TypeOK
<1>c. ASSUME UNCHANGED taskVars
      PROVE  FoundHashed'
  BY <1>c DEF Keyed, FoundHashed, taskVars
<1> USE DEF mainVars, deviceVars, taskVars
<1>1. ASSUME NEW d \in Devices, Launch(d) \/ SortByLocation(d) \/ EndThread(d) PROVE Keyed'
  BY <1>1, <1>a, <1>c DEF Launch, SortByLocation, EndThread, Keyed
<1>2. CASE DropOwnSender \/ Disconnected \/ Return \/ Finished \/ UNCHANGED vars
  BY <1>2, <1>a, <1>c DEF DropOwnSender, Disconnected, Return, Finished, vars, Keyed
<1>3. CASE Receive
  <2>1. PICK m \in channel : channel' = channel \ {m} /\ grouped' = grouped \cup {m}
    BY <1>3 DEF Receive
  <2>2. MessagesKeyed'
    BY <2>1 DEF Keyed, MessagesKeyed, Key
  <2>3. RunsLinked' /\ FoundHashed'
    BY <1>3, <1>c DEF Receive, Keyed, RunsLinked
  <2> QED
    BY <2>2, <2>3 DEF Keyed
<1>4. ASSUME NEW d \in Devices, Spawn(d) PROVE Keyed'
  <2>1. PICK h \in todo[d] : taskPc' = [taskPc EXCEPT ![h] = "queued"]
    BY <1>4 DEF Spawn
  <2>2. h \in Files /\ UNCHANGED <<found, channel, grouped>>
    BY <1>4, HashedFiles DEF Spawn, TypeOK
  <2>3. FoundHashed'
    BY <1>b, <2>1, <2>2
  <2>4. MessagesKeyed'
    BY <2>2 DEF Keyed, MessagesKeyed, Key
  <2> QED
    BY <1>4, <2>3, <2>4, SpawnLinked DEF Keyed
<1>5. ASSUME NEW h \in Files,
             Start(h) \/ OpenFile(h) \/ ReleaseTask(h) \/ CloseFile(h) \/ DropTaskSender(h)
      PROVE  Keyed'
  <2>1. \E s \in Stages \cup {"none"} : s # "send" /\ taskPc' = [taskPc EXCEPT ![h] = s]
    BY <1>5 DEF Start, OpenFile, ReleaseTask, CloseFile, DropTaskSender, Stages
  <2>2. UNCHANGED <<found, held, channel, grouped>>
    BY <1>5 DEF Start, OpenFile, ReleaseTask, CloseFile, DropTaskSender
  <2> QED
    BY <1>a, <1>b, <2>1, <2>2 DEF Keyed
<1>6. ASSUME NEW h \in Files, HashFirst(h) PROVE Keyed'
  <2>1. PICK r \in HashFn[h] : found' = [found EXCEPT ![h] = r]
    BY <1>6 DEF HashFirst
  <2>2. taskPc' = [taskPc EXCEPT ![h] = "send"]
    BY <1>6 DEF HashFirst
  <2>3. FoundHashed'
    BY <2>1, <2>2 DEF Keyed, FoundHashed, TypeOK
  <2> QED
    BY <1>6, <1>a, <2>3 DEF HashFirst, Keyed
<1>7. ASSUME NEW h \in Files, HashFails(h) PROVE Keyed'
  <2>1. /\ held' = [held EXCEPT ![h] = {}]
        /\ taskPc' = [taskPc EXCEPT ![h] = "release"]
        /\ UNCHANGED <<found, channel, grouped>>
    BY <1>7 DEF HashFails
  <2>2. FoundHashed'
    BY <1>b, <2>1
  <2>3. RunsLinked' /\ MessagesKeyed'
    BY <2>1 DEF Keyed, RunsLinked, MessagesKeyed, Key, TypeOK
  <2> QED
    BY <2>2, <2>3 DEF Keyed
<1>8. ASSUME NEW h \in Files, Send(h) PROVE Keyed'
  <2>1. FoundHashed'
    BY <1>8 DEF Send, Keyed, FoundHashed
  <2> QED
    BY <1>8, <2>1, SendKeyed DEF Keyed
<1> QED
  BY <1>1, <1>2, <1>3, <1>4, <1>5, <1>6, <1>7, <1>8
  DEF Next, MainStep, DeviceStep, TaskStep

-----------------------------------------------------------------------------
(***************************************************************************)
(* The fate of a file, in terms of the map and of what was left out.       *)
(***************************************************************************)

LEMMA FateGrouped ==
  ASSUME FilesConserved, NEW m \in grouped, m.file \in Hashed
  PROVE  FateOf(m.file) = Key(m)
<1>1. InGroup(m.file)
  BY DEF InGroup
<1>2. \A n \in grouped : n.file = m.file => n = m
  BY DEF FilesConserved, NoFileTwice
<1>3. (CHOOSE n \in grouped : n.file = m.file) = m
  BY <1>2
<1> QED
  BY <1>1, <1>3 DEF FateOf, Key

LEMMA FateElse ==
  ASSUME NEW f, ~InGroup(f)
  PROVE  FateOf(f) = IF f \in failed THEN <<"unreadable">> ELSE <<"unsettled">>
BY DEF FateOf

LEMMA FatesDiffer ==
  /\ <<"unreadable">> # <<"unsettled">>
  /\ \A m : Key(m) # <<"unsettled">>
BY DEF Key

Fates == [f \in Hashed |-> FateOf(f)]
Returned == mainPc = "returned"

LEMMA InitRefines == Init => Abstract!Init
<1> SUFFICES ASSUME Init PROVE Abstract!Init
  OBVIOUS
<1>1. \A f \in Hashed : FateOf(f) = <<"unsettled">>
  BY DEF Init, InGroup, FateOf
<1> QED
  BY <1>1 DEF Init, Abstract!Init

\* Steps that neither fill the map nor leave a file out settle nothing.
LEMMA Stutters ==
  ASSUME UNCHANGED <<grouped, failed>>, (mainPc' = "returned") <=> (mainPc = "returned")
  PROVE  UNCHANGED <<Fates, Returned>>
BY DEF Fates, Returned, FateOf, InGroup

\* Receive settles the file of the message.
LEMMA ReceiveSettles ==
  ASSUME FilesConserved, FilesConserved', Keyed, Receive
  PROVE  \E f \in Hashed : Abstract!Settle(f)
<1>1. PICK m \in channel : channel' = channel \ {m} /\ grouped' = grouped \cup {m}
  BY DEF Receive
<1>2. m.file \in Hashed /\ Key(m) \in KeysOf[m.file]
  BY DEF Keyed, MessagesKeyed
<1>3. ~InGroup(m.file) /\ m.file \notin failed
  BY <1>2 DEF FilesConserved, NoFileTwice, InChannel
<1>4. FateOf(m.file) = <<"unsettled">>
  BY <1>3, FateElse
<1>5. UNCHANGED failed /\ mainPc = "collect" /\ mainPc' = mainPc
  BY DEF Receive
<1>6. FateOf(m.file)' = Key(m)
  <2>1. InGroup(m.file)'
    BY <1>1 DEF InGroup
  <2>2. \A n \in grouped' : n.file = m.file => n = m
    BY <1>1, <1>2 DEF FilesConserved, NoFileTwice
  <2>3. (CHOOSE n \in grouped' : n.file = m.file) = m
    BY <1>1, <2>2
  <2> QED
    BY <2>1, <2>3 DEF FateOf, Key
<1>7. ASSUME NEW f \in Hashed, f # m.file
      PROVE  FateOf(f)' = FateOf(f)
  <2>1. InGroup(f)' <=> InGroup(f)
    BY <1>1, <1>7 DEF InGroup
  <2>2. CASE InGroup(f)
    <3>1. PICK n \in grouped : n.file = f
      BY <2>2 DEF InGroup
    <3>2. \A x \in grouped' : x.file = f => x = n
      BY <1>1, <1>7, <3>1 DEF FilesConserved, NoFileTwice
    <3>3. (CHOOSE x \in grouped' : x.file = f) = n /\ (CHOOSE x \in grouped : x.file = f) = n
      BY <1>1, <3>1, <3>2
    <3>4. FateOf(f) = Key(n)
      BY <2>2, <3>3 DEF FateOf, Key
    <3>5. FateOf(f)' = Key(n)
      BY <2>1, <2>2, <3>3 DEF FateOf, Key
    <3> QED
      BY <3>4, <3>5
  <2>3. CASE ~InGroup(f)
    BY <1>5, <2>1, <2>3 DEF FateOf
  <2> QED
    BY <2>2, <2>3
<1>8. Fates' = [Fates EXCEPT ![m.file] = Key(m)]
  BY <1>2, <1>6, <1>7 DEF Fates
<1> QED
  BY <1>2, <1>4, <1>5, <1>8 DEF Abstract!Settle, Fates

\* HashFails leaves out the run of its task.
LEMMA FailLeavesOut ==
  ASSUME TypeOK, Bookkeeping, FilesConserved, FilesConserved', Keyed,
         NEW h \in Files, HashFails(h)
  PROVE  \E S \in SUBSET Hashed : Abstract!LeaveOut(S)
<1>1. /\ failed' = failed \cup held[h]
      /\ UNCHANGED <<grouped, mainPc>>
      /\ taskPc[h] = "hash"
  BY DEF HashFails, mainVars
<1>2. held[h] \in SUBSET Hashed /\ \A f, g \in held[h] : Id[f] = Id[g]
  BY DEF TypeOK, Keyed, RunsLinked
<1>3. \A f \in held[h] : ~InGroup(f) /\ f \notin failed
  BY <1>2 DEF FilesConserved, NoFileTwice, InTask
<1>4. mainPc # "returned"
  BY <1>1 DEF Bookkeeping, MainProgress, SendersMatch
<1>5. \A f \in held[h] : FateOf(f) = <<"unsettled">>
  BY <1>3, FateElse
<1>6. \A f \in Hashed : FateOf(f)' = IF f \in held[h] THEN <<"unreadable">> ELSE FateOf(f)
  BY <1>1, <1>3 DEF FateOf, InGroup
<1> QED
  BY <1>1, <1>2, <1>4, <1>5, <1>6 DEF Abstract!LeaveOut

\* Return finds every file settled.
LEMMA ReturnReturns ==
  ASSUME TypeOK, FilesConserved, Keyed, ResultComplete', Return
  PROVE  Abstract!Return
<1>1. mainPc = "join" /\ mainPc' = "returned" /\ UNCHANGED <<grouped, failed>>
  BY DEF Return
<1>2. ASSUME NEW f \in Hashed PROVE FateOf(f) # <<"unsettled">>
  <2>1. InGroup(f) \/ f \in failed
    BY <1>1 DEF ResultComplete, InGroup
  <2>2. CASE InGroup(f)
    <3>1. PICK m \in grouped : m.file = f
      BY <2>2 DEF InGroup
    <3> QED
      BY <3>1, FateGrouped, FatesDiffer
  <2>3. CASE ~InGroup(f)
    BY <2>1, <2>3, FateElse, FatesDiffer
  <2> QED
    BY <2>2, <2>3
<1>3. UNCHANGED Fates
  BY <1>1 DEF Fates, FateOf, InGroup
<1> QED
  BY <1>1, <1>2, <1>3 DEF Abstract!Return, Fates

LEMMA NextRefines ==
  IInv /\ IInv' /\ ResultComplete' /\ Keyed /\ [Next]_vars =>
    [Abstract!Next]_<<Fates, Returned>>
<1> SUFFICES ASSUME IInv, IInv', ResultComplete', Keyed, [Next]_vars
             PROVE  [Abstract!Next]_<<Fates, Returned>>
  OBVIOUS
<1> USE DEF IInv, Abstract!Next
<1>1. CASE Receive
  BY <1>1, ReceiveSettles
<1>2. ASSUME NEW h \in Files, HashFails(h) PROVE Abstract!Next
  BY <1>2, FailLeavesOut
<1>3. CASE Return
  BY <1>3, ReturnReturns
<1>4. ASSUME NEW d \in Devices, DeviceStep(d) \/ Launch(d) PROVE UNCHANGED <<Fates, Returned>>
  BY <1>4, Stutters DEF DeviceStep, Launch, SortByLocation, Spawn, EndThread, mainVars
<1>5. CASE DropOwnSender \/ Disconnected \/ Finished \/ UNCHANGED vars
  BY <1>5, Stutters DEF DropOwnSender, Disconnected, Finished, vars
<1>6. ASSUME NEW h \in Files,
             Start(h) \/ OpenFile(h) \/ HashFirst(h) \/ Send(h) \/ ReleaseTask(h)
               \/ CloseFile(h) \/ DropTaskSender(h)
      PROVE  UNCHANGED <<Fates, Returned>>
  BY <1>6, Stutters
  DEF Start, OpenFile, HashFirst, Send, ReleaseTask, CloseFile, DropTaskSender, mainVars
<1> QED
  BY <1>1, <1>2, <1>3, <1>4, <1>5, <1>6 DEF Next, MainStep, TaskStep

\* Threads, semaphores and channel amount to the abstract grouping: a message
\* received settles its file with a hash of a link of it, a failing hash function
\* leaves out a run, the return comes when all are settled (group.rs:563-686).
THEOREM Implements == Spec => ImplementsHashGrouping
<1>1. Init => Abstract!Init /\ Keyed
  BY InitRefines, InitKeyed
<1>2. IInv /\ Keyed /\ [Next]_vars => Keyed'
  BY NextKeyed DEF IInv
<1>3. IInv /\ IInv' /\ ResultComplete' /\ Keyed /\ [Next]_vars =>
        [Abstract!Next]_<<Fates, Returned>>
  BY NextRefines
<1> QED
  BY <1>1, <1>2, <1>3, Inductive, ReturnsComplete, PTL
  DEF Spec, ImplementsHashGrouping, Abstract!Spec, Fates, Returned

-----------------------------------------------------------------------------
(***************************************************************************)
(* Hard links stay together: the links of a file get the hash of one       *)
(* reading of it, also when the file is being modified, as long as its     *)
(* location tells it from other files and the hash function keeps lengths. *)
(***************************************************************************)

\* Links have the location of their file, which no other file on the device has,
\* and its length, which the hash function does not replace.
LinksPlaced ==
  /\ \A f, g \in Hashed :
       /\ Id[f] = Id[g] => Device[f] = Device[g] /\ Location[f] = Location[g] /\ Len[f] = Len[g]
       /\ Device[f] = Device[g] /\ Location[f] = Location[g] => Id[f] = Id[g]
  /\ \A f \in Hashed : \A r \in HashFn[f] : r.len = Len[f]

Sent == channel \cup grouped

\* The links of a file wait together, ...
LinksWait ==
  \A d \in Devices : \A f \in todo[d], g \in Hashed : Id[f] = Id[g] => g \in todo[d]

\* ... go to one task, ...
OneTask == \A h, k \in Files : \A f \in held[h], g \in held[k] : Id[f] = Id[g] => h = k

\* ... and are sent with the one hash that the task has found.
SentAlike ==
  \A h \in Files : \A f \in held[h], m \in Sent :
    Id[m.file] = Id[f] => taskPc[h] = "send" /\ m.hash = found[h].hash

Alike == \A m, n \in Sent : Id[m.file] = Id[n.file] => m.hash = n.hash

LengthsKept == \A m \in Sent : m.len = Len[m.file]

Together == LinksWait /\ OneTask /\ SentAlike /\ Alike /\ LengthsKept

LEMMA InitTogether == LinksPlaced /\ Init => Together
BY HashedFiles
DEF Init, LinksPlaced, Together, LinksWait, OneTask, SentAlike, Alike, LengthsKept, Sent

\* Once sorted, a run of links ends where another file begins.
LEMMA RunsWhole ==
  ASSUME LinksPlaced, TypeOK, RanksFollow, VectorsFresh, NEW d \in Devices, devPc[d] = "spawn",
         NEW h \in todo[d], NEW x \in RunOf(d, h), NEW y \in todo[d], Id[x] = Id[y]
  PROVE  y \in RunOf(d, h)
<1>1. \A f \in todo[d] : /\ f \in Hashed /\ f \in Files /\ Device[f] = d
                         /\ rank[d][f] \in Nat /\ Location[f] \in Nat
  BY HashedFiles, DataAssumption DEF TypeOK, VectorsFresh, RanksFollow
<1>2. x \in todo[d] /\ \A g \in todo[d] : rank[d][g] <= rank[d][x] => Id[g] = Id[h]
  BY DEF RunOf
<1>3. ASSUME NEW g \in todo[d], rank[d][g] <= rank[d][y] PROVE Id[g] = Id[h]
  <2>1. CASE rank[d][g] <= rank[d][x]
    BY <1>2, <2>1
  <2>2. CASE rank[d][x] <= rank[d][g]
    <3>1. Location[x] <= Location[g] /\ Location[g] <= Location[y] /\ Location[x] = Location[y]
      BY <1>1, <1>2, <1>3, <2>2 DEF RanksFollow, LinksPlaced
    <3>2. Location[g] = Location[x]
      BY <1>1, <1>2, <3>1
    <3>3. Id[g] = Id[x] /\ rank[d][x] <= rank[d][x]
      BY <1>1, <1>2, <3>2 DEF LinksPlaced
    <3> QED
      BY <1>2, <3>3
  <2> QED
    BY <1>1, <1>2, <2>1, <2>2
<1> QED
  BY <1>3 DEF RunOf

LEMMA SpawnTogether ==
  ASSUME LinksPlaced, IInv, Keyed, InOrder, Together, NEW d \in Devices, Spawn(d)
  PROVE  Together'
<1> USE DEF IInv, Together
<1>1. PICK h \in todo[d] : /\ todo' = [todo EXCEPT ![d] = @ \ RunOf(d, h)]
                           /\ taskPc' = [taskPc EXCEPT ![h] = "queued"]
                           /\ held' = [held EXCEPT ![h] = RunOf(d, h)]
  BY DEF Spawn
<1>2. devPc[d] = "spawn" /\ UNCHANGED <<found, channel, grouped>> /\ h \in Files
  BY HashedFiles DEF Spawn, mainVars, TypeOK
<1>3. RunOf(d, h) \subseteq todo[d] /\ todo[d] \subseteq Hashed
  BY DEF RunOf, TypeOK
<1>4. \A e \in Devices : todo'[e] = IF e = d THEN todo[d] \ RunOf(d, h) ELSE todo[e]
  BY <1>1 DEF TypeOK
<1>5. \A k \in Files : held'[k] = IF k = h THEN RunOf(d, h) ELSE held[k]
  BY <1>1 DEF TypeOK
<1>6. LinksWait'
  <2>1. ASSUME NEW f \in todo[d] \ RunOf(d, h), NEW g \in Hashed, Id[f] = Id[g]
        PROVE  g \in todo[d] \ RunOf(d, h)
    <3>1. g \in todo[d]
      BY <2>1 DEF LinksWait
    <3> QED
      BY <1>2, <2>1, <3>1, RunsWhole DEF InOrder, Bookkeeping
  <2> QED
    BY <1>4, <2>1 DEF LinksWait
\* What is in the vector is in no task and was not sent, nor were its links.
<1>7. ASSUME NEW f \in RunOf(d, h), NEW k \in Files, NEW g \in held[k]
      PROVE  Id[f] # Id[g]
  <2>1. g \in Hashed /\ InTask(g)
    BY DEF TypeOK, InTask
  <2>2. ~InTodo(g)
    BY <2>1 DEF FilesConserved, NoFileTwice
  <2> QED
    BY <1>3, <2>1, <2>2 DEF LinksWait, InTodo
<1>8. ASSUME NEW f \in RunOf(d, h), NEW m \in Sent
      PROVE  Id[f] # Id[m.file]
  <2>1. m.file \in Hashed /\ (InChannel(m.file) \/ InGroup(m.file))
    BY DEF Keyed, MessagesKeyed, Sent, InChannel, InGroup
  <2>2. ~InTodo(m.file)
    BY <2>1 DEF FilesConserved, NoFileTwice
  <2> QED
    BY <1>3, <2>1, <2>2 DEF LinksWait, InTodo
<1>9. OneTask'
  <2>1. \A f, g \in RunOf(d, h) : h = h
    OBVIOUS
  <2> QED
    BY <1>5, <1>7 DEF OneTask
<1>10. SentAlike'
  <2>1. Sent' = Sent
    BY <1>2 DEF Sent
  <2>2. \A k \in Files : k # h => taskPc'[k] = taskPc[k]
    BY <1>1 DEF TypeOK
  <2> QED
    BY <1>2, <1>5, <1>8, <2>1, <2>2 DEF SentAlike
<1>11. Alike' /\ LengthsKept'
  BY <1>2 DEF Alike, LengthsKept, Sent
<1> QED
  BY <1>6, <1>9, <1>10, <1>11

LEMMA SendTogether ==
  ASSUME LinksPlaced, IInv, Keyed, Together, NEW h \in Files, Send(h)
  PROVE  Together'
<1> USE DEF IInv, Together
<1>1. PICK f \in held[h] : /\ channel' = channel \cup {Message(f, h)}
                           /\ held' = [held EXCEPT ![h] = @ \ {f}]
  BY DEF Send
<1>2. taskPc[h] = "send" /\ UNCHANGED <<todo, taskPc, found, grouped>>
  BY DEF Send, mainVars, deviceVars
<1>3. \A k \in Files : held'[k] \subseteq held[k]
  BY <1>1 DEF TypeOK
<1>4. f \in Hashed /\ h \in Hashed /\ Id[f] = Id[h] /\ found[h] \in HashFn[h]
  BY <1>1, <1>2 DEF Keyed, RunsLinked, FoundHashed, TypeOK
<1> DEFINE m == Message(f, h)
<1>5. m.file = f /\ m.hash = found[h].hash
  BY DEF Message
<1>6. m.len = Len[f]
  BY <1>4 DEF Message, LinksPlaced
<1>7. Sent' = Sent \cup {m}
  BY <1>1, <1>2 DEF Sent
<1> HIDE DEF m
<1>8. \A n \in Sent : Id[n.file] = Id[f] => n.hash = found[h].hash
  BY <1>1 DEF SentAlike
<1>9. LinksWait' /\ OneTask'
  BY <1>2, <1>3 DEF LinksWait, OneTask
<1>10. SentAlike'
  <2>1. \A k \in Files : \A g \in held[k] : Id[f] = Id[g] => h = k
    BY <1>1 DEF OneTask
  <2> QED
    BY <1>2, <1>3, <1>5, <1>7, <2>1 DEF SentAlike
<1>11. Alike'
  BY <1>5, <1>7, <1>8 DEF Alike
<1>12. LengthsKept'
  BY <1>5, <1>6, <1>7 DEF LengthsKept
<1> QED
  BY <1>9, <1>10, <1>11, <1>12

LEMMA NextTogether ==
  ASSUME LinksPlaced, IInv, Keyed, InOrder, Together, [Next]_vars
  PROVE  Together'
<1> USE DEF IInv, Together
\* Other steps send nothing and keep the runs, or empty one.
<1>a. ASSUME UNCHANGED <<todo, found>>, Sent' = Sent,
             \A h \in Files : held'[h] \subseteq held[h],
             \A h \in Files : held'[h] # {} /\ taskPc[h] = "send" => taskPc'[h] = "send"
      PROVE  Together'
  BY <1>a DEF LinksWait, OneTask, SentAlike, Alike, LengthsKept
<1>1. ASSUME NEW d \in Devices, Launch(d) \/ SortByLocation(d) \/ EndThread(d) PROVE Together'
  BY <1>1, <1>a DEF Launch, SortByLocation, EndThread, mainVars, taskVars, Sent
<1>2. CASE DropOwnSender \/ Disconnected \/ Return \/ Finished \/ UNCHANGED vars
  BY <1>2, <1>a DEF DropOwnSender, Disconnected, Return, Finished, vars, deviceVars, taskVars, Sent
<1>3. CASE Receive
  <2>1. Sent' = Sent
    BY <1>3 DEF Receive, Sent
  <2> QED
    BY <1>3, <1>a, <2>1 DEF Receive, deviceVars, taskVars
<1>4. ASSUME NEW h \in Files,
             Start(h) \/ OpenFile(h) \/ ReleaseTask(h) \/ CloseFile(h) \/ DropTaskSender(h)
      PROVE  Together'
  <2>1. taskPc[h] # "send" \/ held[h] = {}
    BY <1>4 DEF Start, OpenFile, ReleaseTask, CloseFile, DropTaskSender
  <2>2. /\ UNCHANGED <<todo, held, found, channel, grouped>>
        /\ \A k \in Files : k # h => taskPc'[k] = taskPc[k]
    BY <1>4 DEF Start, OpenFile, ReleaseTask, CloseFile, DropTaskSender, mainVars, deviceVars, TypeOK
  <2> QED
    BY <1>a, <2>1, <2>2 DEF Sent
<1>5. ASSUME NEW h \in Files, HashFirst(h) PROVE Together'
  <2>1. taskPc[h] = "hash" /\ UNCHANGED <<todo, held, channel, grouped>>
    BY <1>5 DEF HashFirst, mainVars, deviceVars
  <2>2. \A k \in Files : k # h => taskPc'[k] = taskPc[k] /\ found'[k] = found[k]
    BY <1>5 DEF HashFirst, TypeOK
  <2>3. \A f \in held[h], m \in Sent : Id[m.file] # Id[f]
    BY <2>1 DEF SentAlike
  <2>4. SentAlike'
    BY <2>1, <2>2, <2>3 DEF SentAlike, Sent
  <2> QED
    BY <2>1, <2>4 DEF LinksWait, OneTask, Alike, LengthsKept, Sent
<1>6. ASSUME NEW h \in Files, HashFails(h) PROVE Together'
  <2>1. \A k \in Files : held'[k] = (IF k = h THEN {} ELSE held[k]) /\ (k # h => taskPc'[k] = taskPc[k])
    BY <1>6 DEF HashFails, TypeOK
  <2>2. UNCHANGED <<todo, found, channel, grouped>>
    BY <1>6 DEF HashFails, mainVars, deviceVars
  <2> QED
    BY <1>a, <2>1, <2>2 DEF Sent
<1> QED
  BY <1>1, <1>2, <1>3, <1>4, <1>5, <1>6, SpawnTogether, SendTogether
  DEF Next, MainStep, DeviceStep, TaskStep

\* The links of a file that was read are in one group, however its tasks are timed
\* and whatever the file has become meanwhile (group.rs:629-668).
THEOREM KeepsLinksTogether == LinksPlaced => (Spec => []LinksInOneGroup)
<1> SUFFICES ASSUME LinksPlaced PROVE Spec => []LinksInOneGroup
  OBVIOUS
<1>1. Init => Keyed /\ InOrder /\ Together
  BY InitKeyed, InitInOrder, InitTogether
<1>2. IInv /\ Keyed /\ InOrder /\ Together /\ [Next]_vars => (Keyed /\ InOrder /\ Together)'
  BY NextKeyed, NextInOrder, NextTogether DEF IInv
<1>3. Keyed /\ Together => LinksInOneGroup
  <2> SUFFICES ASSUME Keyed, Together, NEW m \in grouped, NEW n \in grouped, Id[m.file] = Id[n.file]
               PROVE  m.len = n.len /\ m.hash = n.hash
    BY DEF LinksInOneGroup
  <2>1. m.file \in Hashed /\ n.file \in Hashed
    BY DEF Keyed, MessagesKeyed
  <2> QED
    BY <2>1 DEF Together, Alike, LengthsKept, Sent, LinksPlaced
<1> QED
  BY <1>1, <1>2, <1>3, Inductive, PTL DEF Spec

-----------------------------------------------------------------------------
(***************************************************************************)
(* The semaphores of rehash and of the open files, for every finite set of *)
(* callers and every positive number of permits: typing, conservation of   *)
(* permits, no lost wake-up, and the implementation of CountingSemaphore.  *)
(***************************************************************************)

\* The variables of Semaphore always have their types.
THEOREM SemaphoreTypeCorrect == SemaphoreSpec => []SemaphoreTypeOK
<1>1. SemaphoreInit => SemaphoreTypeOK
  BY PermitsAssumption DEF SemaphoreInit, SemaphoreTypeOK
<1>2. SemaphoreTypeOK /\ [SemaphoreNext]_semaphoreVars => SemaphoreTypeOK'
  <2> SUFFICES ASSUME SemaphoreTypeOK, [SemaphoreNext]_semaphoreVars
               PROVE  SemaphoreTypeOK'
    OBVIOUS
  <2> USE DEF SemaphoreTypeOK
  <2>1. ASSUME NEW t \in Callers, CallAcquire(t) PROVE SemaphoreTypeOK'
    BY <2>1 DEF CallAcquire
  <2>2. ASSUME NEW t \in Callers, TakePermit(t) PROVE SemaphoreTypeOK'
    BY <2>2 DEF TakePermit
  <2>3. ASSUME NEW t \in Callers, WaitOnCondvar(t) PROVE SemaphoreTypeOK'
    BY <2>3 DEF WaitOnCondvar
  <2>4. ASSUME NEW t \in Callers, SpuriousWakeup(t) PROVE SemaphoreTypeOK'
    BY <2>4 DEF SpuriousWakeup
  <2>5. ASSUME NEW t \in Callers, Release(t) PROVE SemaphoreTypeOK'
    BY <2>5 DEF Release
  <2>6. ASSUME NEW t \in Callers, NotifyWaiter(t) PROVE SemaphoreTypeOK'
    BY <2>6 DEF NotifyWaiter, Wake, Waiters
  <2>7. ASSUME NEW t \in Callers, NotifyNobody(t) PROVE SemaphoreTypeOK'
    BY <2>7 DEF NotifyNobody
  <2>8. CASE UNCHANGED semaphoreVars
    BY <2>8 DEF semaphoreVars
  <2> QED
    BY <2>1, <2>2, <2>3, <2>4, <2>5, <2>6, <2>7, <2>8 DEF SemaphoreNext, Inside
<1> QED
  BY <1>1, <1>2, PTL DEF SemaphoreSpec

-----------------------------------------------------------------------------

\* Permits are conserved: count plus the guards that exist is the initial
\* count, and the count never goes below zero.
THEOREM ConservesPermits == SemaphoreSpec => []PermitsConserved
<1>1. SemaphoreInit => PermitsConserved
  BY PermitsAssumption DEF SemaphoreInit, PermitsConserved
<1>2. SemaphoreTypeOK /\ PermitsConserved /\ [SemaphoreNext]_semaphoreVars => PermitsConserved'
  BY PermitsAssumption
  DEF SemaphoreTypeOK, PermitsConserved, SemaphoreNext, Inside, semaphoreVars, CallAcquire, TakePermit,
      WaitOnCondvar, SpuriousWakeup, Release, NotifyWaiter, NotifyNobody
<1> QED
  BY <1>1, <1>2, SemaphoreTypeCorrect, PTL DEF SemaphoreSpec

-----------------------------------------------------------------------------

LEMMA MoversFinite == IsFiniteSet(Movers) /\ Cardinality(Movers) \in Nat
<1>1. Movers \in SUBSET Callers
  BY DEF Movers
<1> QED
  BY <1>1, CallersAssumption, FS_Subset, FS_CardinalityType

\* One more thread on the move: it called acquire, was woken for no reason, or
\* has released a permit and not notified yet.
LEMMA MoverAdded ==
  ASSUME SemaphoreTypeOK, NEW t \in Callers, pc[t] \notin {"acquire", "notify"},
         NEW p \in {"acquire", "notify"}, pc' = [pc EXCEPT ![t] = p]
  PROVE  Cardinality(Movers') = Cardinality(Movers) + 1
<1>1. Movers' = Movers \cup {t} /\ t \notin Movers
  BY DEF SemaphoreTypeOK, Movers
<1> QED
  BY <1>1, MoversFinite, FS_AddElement

\* One thread fewer on the move: it took a permit, began to wait, or found
\* nobody to notify.
LEMMA MoverRemoved ==
  ASSUME SemaphoreTypeOK, NEW t \in Callers, pc[t] \in {"acquire", "notify"},
         NEW p \in {"idle", "waiting"}, pc' = [pc EXCEPT ![t] = p]
  PROVE  Cardinality(Movers') = Cardinality(Movers) - 1
<1>1. Movers' = Movers \ {t} /\ t \in Movers
  BY DEF SemaphoreTypeOK, Movers
<1> QED
  BY <1>1, MoversFinite, FS_RemoveElement

\* A notification replaces the notifying thread by the one it wakes.
LEMMA MoverReplaced ==
  ASSUME SemaphoreTypeOK, NEW t \in Callers, pc[t] = "notify",
         NEW w \in Waiters, Wake(t, w)
  PROVE  Cardinality(Movers') = Cardinality(Movers)
<1>1. Movers' = (Movers \ {t}) \cup {w} /\ t \in Movers /\ w \notin Movers
  BY DEF SemaphoreTypeOK, Movers, Waiters, Wake
<1>2. IsFiniteSet(Movers \ {t}) /\ Cardinality(Movers \ {t}) = Cardinality(Movers) - 1
  BY <1>1, MoversFinite, FS_RemoveElement
<1>3. Cardinality((Movers \ {t}) \cup {w}) = Cardinality(Movers \ {t}) + 1
  BY <1>1, <1>2, FS_AddElement
<1> QED
  BY <1>1, <1>2, <1>3, MoversFinite

\* No wake-up is lost, although release notifies after it has unlocked: while
\* a thread waits, each free permit has a thread on its way to it.
THEOREM LosesNoWakeup == SemaphoreSpec => []NoLostWakeup
<1>1. SemaphoreInit => NoLostWakeup
  BY DEF SemaphoreInit, NoLostWakeup, Waiters
<1>2. SemaphoreTypeOK /\ PermitsConserved /\ NoLostWakeup /\ [SemaphoreNext]_semaphoreVars => NoLostWakeup'
  <2> SUFFICES ASSUME SemaphoreTypeOK, PermitsConserved, NoLostWakeup, [SemaphoreNext]_semaphoreVars
               PROVE  NoLostWakeup'
    OBVIOUS
  <2>a. count \in Nat /\ Cardinality(Movers) \in Nat
    BY MoversFinite DEF SemaphoreTypeOK, PermitsConserved
  <2>1. ASSUME NEW t \in Callers, CallAcquire(t) PROVE NoLostWakeup'
    <3>1. Cardinality(Movers') = Cardinality(Movers) + 1
      BY <2>1, MoverAdded DEF CallAcquire
    <3>2. Waiters' = Waiters /\ count' = count
      BY <2>1 DEF CallAcquire, Waiters, SemaphoreTypeOK
    <3> QED
      BY <3>1, <3>2, <2>a DEF NoLostWakeup
  <2>2. ASSUME NEW t \in Callers, TakePermit(t) PROVE NoLostWakeup'
    <3>1. Cardinality(Movers') = Cardinality(Movers) - 1
      BY <2>2, MoverRemoved DEF TakePermit
    <3>2. Waiters' = Waiters /\ count' = count - 1
      BY <2>2 DEF TakePermit, Waiters, SemaphoreTypeOK
    <3> QED
      BY <3>1, <3>2, <2>a DEF NoLostWakeup
  <2>3. ASSUME NEW t \in Callers, WaitOnCondvar(t) PROVE NoLostWakeup'
    <3>1. Cardinality(Movers') = Cardinality(Movers) - 1 /\ t \in Movers
      BY <2>3, MoverRemoved DEF WaitOnCondvar, Movers
    <3>2. Cardinality(Movers) > 0
      BY <3>1, <2>a, MoversFinite, FS_EmptySet
    <3>3. count' = 0
      BY <2>3, <2>a DEF WaitOnCondvar
    <3> QED
      BY <3>1, <3>2, <3>3, <2>a DEF NoLostWakeup
  <2>4. ASSUME NEW t \in Callers, SpuriousWakeup(t) PROVE NoLostWakeup'
    <3>1. Cardinality(Movers') = Cardinality(Movers) + 1
      BY <2>4, MoverAdded DEF SpuriousWakeup
    <3>2. t \in Waiters /\ count' = count
      BY <2>4 DEF SpuriousWakeup, Waiters
    <3> QED
      BY <3>1, <3>2, <2>a DEF NoLostWakeup
  <2>5. ASSUME NEW t \in Callers, Release(t) PROVE NoLostWakeup'
    <3>1. Cardinality(Movers') = Cardinality(Movers) + 1
      BY <2>5, MoverAdded DEF Release
    <3>2. Waiters' = Waiters /\ count' = count + 1
      BY <2>5 DEF Release, Waiters, SemaphoreTypeOK
    <3> QED
      BY <3>1, <3>2, <2>a DEF NoLostWakeup
  <2>6. ASSUME NEW t \in Callers, NotifyWaiter(t) PROVE NoLostWakeup'
    <3>1. PICK w \in Waiters : Wake(t, w)
      BY <2>6 DEF NotifyWaiter
    <3>2. Cardinality(Movers') = Cardinality(Movers)
      BY <2>6, <3>1, MoverReplaced DEF NotifyWaiter
    <3>3. count' = count
      BY <2>6 DEF NotifyWaiter
    <3> QED
      BY <3>1, <3>2, <3>3 DEF NoLostWakeup
  <2>7. ASSUME NEW t \in Callers, NotifyNobody(t) PROVE NoLostWakeup'
    <3>1. Waiters' = {}
      BY <2>7 DEF NotifyNobody, Waiters, SemaphoreTypeOK
    <3> QED
      BY <3>1 DEF NoLostWakeup
  <2>8. CASE UNCHANGED semaphoreVars
    <3>1. Movers' = Movers /\ Waiters' = Waiters /\ count' = count
      BY <2>8 DEF semaphoreVars, Movers, Waiters
    <3> QED
      BY <3>1 DEF NoLostWakeup
  <2> QED
    BY <2>1, <2>2, <2>3, <2>4, <2>5, <2>6, <2>7, <2>8 DEF SemaphoreNext, Inside
<1> QED
  BY <1>1, <1>2, SemaphoreTypeCorrect, ConservesPermits, PTL DEF SemaphoreSpec

-----------------------------------------------------------------------------

\* The mutex and condition variable implement the abstract semaphore: taking
\* a permit is Grant, dropping a guard is GiveBack, the rest are stutters.
THEOREM ImplementsSemaphore == SemaphoreSpec => ImplementsCountingSemaphore
<1>1. SemaphoreInit => Counting!Init
  BY DEF SemaphoreInit, Counting!Init
<1>2. SemaphoreTypeOK /\ [SemaphoreNext]_semaphoreVars => [Counting!Next]_<<count, guards>>
  BY DEF SemaphoreTypeOK, SemaphoreNext, Inside, semaphoreVars, CallAcquire, TakePermit, WaitOnCondvar,
         SpuriousWakeup, Release, NotifyWaiter, NotifyNobody,
         Counting!Next, Counting!Grant, Counting!GiveBack
<1> QED
  BY <1>1, <1>2, SemaphoreTypeCorrect, PTL DEF SemaphoreSpec, ImplementsCountingSemaphore, Counting!Spec

=============================================================================
