---------------------------- MODULE HasherProofs -----------------------------
(***************************************************************************)
(* What the cache of hashes promises, for any files, workers, runs and     *)
(* clock: nothing is lost in silence, and, of files that are not written   *)
(* twice in a millisecond nor renamed while they are hashed, no hash is    *)
(* used for other contents.                                                *)
(***************************************************************************)
EXTENDS HashCache, Transform, TLAPS

LEMMA MsMonotone ==
  ASSUME NEW s \in Nat, NEW t \in Nat, s <= t
  PROVE  Ms(s) \in Nat /\ Ms(s) <= s /\ Ms(s) <= Ms(t)
<1>1. TicksPerMs \in Nat /\ TicksPerMs > 0
  BY CacheAssumption
<1> QED
  BY <1>1 DEF Ms

(***************************************************************************)
(* Types.                                                                  *)
(***************************************************************************)

DiskTyped ==
  /\ now \in 0..MaxTime /\ inode \in [Paths -> Inodes]
  /\ version \in [Inodes -> Versions] /\ mtime \in [Inodes -> 0..now]

RunTyped ==
  /\ run \in [up : BOOLEAN, command : Commands, inPlace : BOOLEAN, count : 0..MaxRuns]
  /\ flusher \in {"on", "off"} /\ flushError \in BOOLEAN /\ warned \in BOOLEAN

Caches == [Commands -> [Inodes -> Entries]]
CacheTyped == cache \in Caches /\ stored \in Caches

\* A call at each of its stages.
Looks == [at : {"look"}, path : Paths, inode : Inodes, mtime : 0..now, seen : Versions]
Hits == [at : {"hit"}, inode : Inodes, seen : Versions, hash : Hashes]
Reads == [at : {"read"}, inode : Inodes, mtime : 0..now, fd : Inodes, first : Versions]
Stores == [at : {"store"}, inode : Inodes, mtime : 0..now, fd : Inodes, hash : Hashes]
CallsTyped == call \in [Workers -> {Idle} \cup Looks \cup Hits \cup Reads \cup Stores]

Typed == DiskTyped /\ RunTyped /\ CacheTyped /\ CallsTyped

LEMMA CallStages ==
  ASSUME CallsTyped, NEW w \in Workers
  PROVE  /\ call[w].at \in {"idle", "look", "hit", "read", "store"}
         /\ call[w].at = "idle" => call[w] = Idle
         /\ call[w].at = "look" => call[w] \in Looks
         /\ call[w].at = "hit" => call[w] \in Hits
         /\ call[w].at = "read" => call[w] \in Reads
         /\ call[w].at = "store" => call[w] \in Stores
<1>1. call[w] \in {Idle} \cup Looks \cup Hits \cup Reads \cup Stores
  BY DEF CallsTyped
<1> QED
  BY <1>1 DEF Idle, Looks, Hits, Reads, Stores

\* Steps that leave calls and clock alone, or only let the clock go on.
LEMMA CallsStay ==
  ASSUME CallsTyped, UNCHANGED call, now \in Nat, now' \in Nat, now <= now'
  PROVE  CallsTyped'
<1>1. ASSUME NEW w \in Workers
      PROVE  call[w] \in ({Idle} \cup Looks \cup Hits \cup Reads \cup Stores)'
  <2>1. call[w] \in {Idle} \cup Looks \cup Hits \cup Reads \cup Stores
    BY DEF CallsTyped
  <2>2. 0..now \subseteq 0..now'
    OBVIOUS
  <2> QED
    BY <2>1, <2>2 DEF Looks, Hits, Reads, Stores
<1> QED
  BY <1>1 DEF CallsTyped

LEMMA CallMoves ==
  ASSUME CallsTyped, UNCHANGED now, NEW w \in Workers,
         NEW c \in {Idle} \cup Looks \cup Hits \cup Reads \cup Stores,
         call' = [call EXCEPT ![w] = c]
  PROVE  CallsTyped'
BY DEF CallsTyped, Looks, Hits, Reads, Stores

LEMMA InitTyped == Init => Typed
<1> SUFFICES ASSUME Init PROVE Typed
  OBVIOUS
<1> USE CacheAssumption DEF Init
<1>1. DiskTyped
  BY DEF DiskTyped, Versions
<1>2. RunTyped
  <2>1. (CHOOSE c \in Commands : TRUE) \in Commands
    OBVIOUS
  <2>2. run \in [up : BOOLEAN, command : Commands, inPlace : BOOLEAN, count : 0..MaxRuns]
    BY <2>1
  <2> QED
    BY <2>2 DEF RunTyped
<1>3. CacheTyped
  BY DEF CacheTyped, Caches, Empty, Entries
<1>4. CallsTyped
  BY DEF CallsTyped
<1> QED
  BY <1>1, <1>2, <1>3, <1>4 DEF Typed

LEMMA ClosedTyped ==
  ASSUME Typed, Close \/ Crash \/ Flush \/ FlushFails \/ \E c \in Commands, b \in InPlace : Open(c, b)
  PROVE  Typed'
<1> USE CacheAssumption DEF Typed, disk, flushing
<1>1. DiskTyped'
  BY DEF DiskTyped, Close, Crash, Flush, FlushFails, Open
<1>2. RunTyped'
  <2>1. CASE Flush \/ FlushFails
    BY <2>1 DEF RunTyped, Flush, FlushFails
  <2>2. CASE Close \/ Crash
    BY <2>2 DEF RunTyped, Close, LastFlush, Crash
  <2>3. ASSUME NEW c \in Commands, NEW b \in InPlace, Open(c, b) PROVE RunTyped'
    <3>1. b \in BOOLEAN /\ run.count + 1 \in 0..MaxRuns
      BY <2>3 DEF RunTyped, Open
    <3>2. run' = [up |-> TRUE, command |-> c, inPlace |-> b, count |-> run.count + 1]
      BY <2>3 DEF Open
    <3>3. run' \in [up : BOOLEAN, command : Commands, inPlace : BOOLEAN, count : 0..MaxRuns]
      BY <3>1, <3>2, Zenon
    <3>4. flusher' = "on" /\ flushError' = FALSE /\ warned' = FALSE
      BY <2>3 DEF Open
    <3> QED
      BY <3>3, <3>4 DEF RunTyped
  <2> QED
    BY <2>1, <2>2, <2>3
<1>3. CacheTyped'
  BY DEF CacheTyped, Close, LastFlush, Crash, Flush, FlushFails, Open
<1>4. CallsTyped'
  <2>1. UNCHANGED now /\ (UNCHANGED call \/ call' = [w \in Workers |-> Idle])
    BY DEF Close, Crash, Flush, FlushFails, Open
  <2>2. CASE UNCHANGED call
    BY <2>1, <2>2, CallsStay DEF DiskTyped
  <2>3. CASE call' = [w \in Workers |-> Idle]
    BY <2>3 DEF CallsTyped
  <2> QED
    BY <2>1, <2>2, <2>3
<1> QED
  BY <1>1, <1>2, <1>3, <1>4

LEMMA CallTyped ==
  ASSUME Typed, NEW w \in Workers,
         Hit(w) \/ Miss(w) \/ ReadRest(w) \/ Put(w) \/ Return(w) \/ \E p \in Paths : Stat(w, p)
  PROVE  Typed'
<1> USE CacheAssumption DEF Typed, disk, flushing
<1>1. DiskTyped'
  BY DEF DiskTyped, Hit, Miss, ReadRest, Put, Return, Stat
<1>2. RunTyped'
  BY DEF RunTyped, Hit, Miss, ReadRest, Put, Return, Stat
<1>3. CacheTyped'
  <2>1. CASE Put(w)
    <3>1. /\ call[w] \in Stores /\ run.command \in Commands
          /\ cache' = [cache EXCEPT ![run.command][call[w].inode] = [ms |-> Stamp(w), hash |-> call[w].hash]]
          /\ UNCHANGED stored
      BY <2>1, CallStages DEF Put, RunTyped
    <3>2. Ms(call[w].mtime) \in 0..MaxTime
      <4>1. call[w].mtime \in Nat /\ call[w].mtime <= MaxTime
        BY <3>1 DEF Stores, DiskTyped
      <4> QED
        BY <4>1, MsMonotone
    <3>3. [ms |-> Stamp(w), hash |-> call[w].hash] \in Entries /\ call[w].inode \in Inodes
      BY <3>1, <3>2 DEF Stamp, Stores, Entries
    <3> QED
      BY <3>1, <3>3 DEF CacheTyped, Caches
  <2>2. CASE ~Put(w)
    BY <2>2 DEF CacheTyped, Hit, Miss, ReadRest, Return, Stat
  <2> QED
    BY <2>1, <2>2
<1>4. CallsTyped'
  <2>a. UNCHANGED now
    BY DEF Hit, Miss, ReadRest, Put, Return, Stat
  <2>1. CASE Hit(w)
    <3>1. call[w] \in Looks
      BY <2>1, CallStages DEF Hit
    <3>2. cache[run.command][call[w].inode] \in Entries /\ cache[run.command][call[w].inode] # NoEntry
      BY <2>1, <3>1 DEF Hit, Matches, Looks, CacheTyped, Caches, RunTyped
    <3>3. cache[run.command][call[w].inode].hash \in Hashes
      BY <3>2 DEF Entries
    <3>4. [at |-> "hit", inode |-> call[w].inode, seen |-> call[w].seen,
           hash |-> cache[run.command][call[w].inode].hash] \in Hits
      BY <3>1, <3>3 DEF Looks, Hits
    <3> QED
      BY <2>a, <2>1, <3>4, CallMoves DEF Hit
  <2>2. CASE Miss(w)
    <3>1. call[w] \in Looks
      BY <2>2, CallStages DEF Miss
    <3>2. [at |-> "read", inode |-> call[w].inode, mtime |-> call[w].mtime,
           fd |-> inode[call[w].path], first |-> version[inode[call[w].path]]] \in Reads
      BY <3>1 DEF Looks, Reads, DiskTyped
    <3> QED
      BY <2>a, <2>2, <3>2, CallMoves DEF Miss
  <2>3. CASE ReadRest(w)
    <3>1. call[w] \in Reads
      BY <2>3, CallStages DEF ReadRest
    <3>2. HashOf(call[w].first, version[call[w].fd]) \in Hashes
      BY <3>1 DEF Reads, HashOf, Hashes, RunTyped, DiskTyped
    <3>3. [at |-> "store", inode |-> call[w].inode, mtime |-> call[w].mtime, fd |-> call[w].fd,
           hash |-> HashOf(call[w].first, version[call[w].fd])] \in Stores
      BY <3>1, <3>2 DEF Reads, Stores
    <3> QED
      BY <2>a, <2>3, <3>3, CallMoves DEF ReadRest
  <2>4. CASE Put(w) \/ Return(w)
    BY <2>a, <2>4, CallMoves DEF Put, Return
  <2>5. ASSUME NEW p \in Paths, Stat(w, p) PROVE CallsTyped'
    <3>1. [at |-> "look", path |-> p, inode |-> inode[p], mtime |-> mtime[inode[p]],
           seen |-> version[inode[p]]] \in Looks
      BY DEF Looks, DiskTyped
    <3> QED
      BY <2>a, <2>5, <3>1, CallMoves DEF Stat
  <2> QED
    BY <2>1, <2>2, <2>3, <2>4, <2>5
<1> QED
  BY <1>1, <1>2, <1>3, <1>4

LEMMA UsersTyped ==
  ASSUME Typed, Tick \/ (\E i \in Inodes : Write(i)) \/ \E p, q \in Paths : Swap(p, q)
  PROVE  Typed'
<1> USE CacheAssumption DEF Typed, flushing
<1>1. DiskTyped'
  <2>1. CASE Tick
    BY <2>1 DEF DiskTyped, Tick
  <2>2. ASSUME NEW i \in Inodes, Write(i) PROVE DiskTyped'
    BY <2>2 DEF DiskTyped, Write, Versions
  <2>3. ASSUME NEW p \in Paths, NEW q \in Paths, Swap(p, q) PROVE DiskTyped'
    BY <2>3 DEF DiskTyped, Swap
  <2> QED
    BY <2>1, <2>2, <2>3
<1>2. RunTyped' /\ CacheTyped'
  BY DEF RunTyped, CacheTyped, Tick, Write, Swap
<1>3. CallsTyped'
  <2>1. UNCHANGED call /\ now \in Nat /\ now' \in Nat /\ now <= now'
    BY DEF DiskTyped, Tick, Write, Swap
  <2> QED
    BY <2>1, CallsStay
<1> QED
  BY <1>1, <1>2, <1>3

LEMMA NextTyped == Typed /\ [Next]_vars => Typed'
<1> SUFFICES ASSUME Typed, [Next]_vars PROVE Typed'
  OBVIOUS
<1>1. CASE UNCHANGED vars
  BY <1>1 DEF vars, Typed, DiskTyped, RunTyped, CacheTyped, CallsTyped, Looks, Hits, Reads, Stores
<1> QED
  BY <1>1, ClosedTyped, CallTyped, UsersTyped DEF Next, Process

\* The state of cache, runs and calls keeps its types (cache.rs:56-205,
\* hasher.rs:240-281).
THEOREM TypeCorrect == Spec => []TypeOK
<1>1. Typed => TypeOK
  <2> SUFFICES ASSUME Typed PROVE TypeOK
    OBVIOUS
  <2>1. \A w \in Workers : call[w].at \in {"idle", "look", "hit", "read", "store"}
    BY CallStages DEF Typed
  <2> QED
    BY <2>1 DEF Typed, TypeOK, DiskTyped, RunTyped, CacheTyped, Caches
<1> QED
  BY <1>1, InitTyped, NextTyped, PTL DEF Spec

-----------------------------------------------------------------------------
(***************************************************************************)
(* Nothing is lost in silence.                                             *)
(***************************************************************************)

\* Calls are made by a running process only.
IdleWhenDown == ~run.up => \A w \in Workers : call[w] = Idle

LEMMA NextLossReported ==
  IdleWhenDown /\ LossReported /\ [Next]_vars => (IdleWhenDown /\ LossReported)'
<1> SUFFICES ASSUME IdleWhenDown, LossReported, [Next]_vars
             PROVE  (IdleWhenDown /\ LossReported)'
  OBVIOUS
<1> USE DEF IdleWhenDown, LossReported, disk, flushing
<1>1. ASSUME NEW c \in Commands, NEW b \in InPlace, Open(c, b) PROVE (IdleWhenDown /\ LossReported)'
  BY <1>1 DEF Open
<1>2. CASE Flush \/ FlushFails
  BY <1>2 DEF Flush, FlushFails
<1>3. CASE Close
  BY <1>3 DEF Close, LastFlush
<1>4. CASE Crash
  BY <1>4 DEF Crash
<1>5. ASSUME NEW w \in Workers,
             Hit(w) \/ Miss(w) \/ ReadRest(w) \/ Put(w) \/ Return(w) \/ \E p \in Paths : Stat(w, p)
      PROVE  (IdleWhenDown /\ LossReported)'
  <2>1. run.up /\ UNCHANGED run
    BY <1>5 DEF Idle, Hit, Miss, ReadRest, Put, Return, Stat
  <2> QED
    BY <2>1
<1>6. CASE Tick \/ (\E i \in Inodes : Write(i)) \/ \E p, q \in Paths : Swap(p, q)
  BY <1>6 DEF Tick, Write, Swap
<1>7. CASE UNCHANGED vars
  BY <1>7 DEF vars
<1> QED
  BY <1>1, <1>2, <1>3, <1>4, <1>5, <1>6, <1>7 DEF Next, Process

\* A process that is not running has stored its hashes, was killed, or has logged
\* that it could not store them, also when a flush failed (cache.rs:115-119,
\* 168-204).
THEOREM ReportsLoss == Spec => []LossReported
<1>1. Init => IdleWhenDown /\ LossReported
  BY DEF Init, IdleWhenDown, LossReported
<1> QED
  BY <1>1, NextLossReported, PTL DEF Spec

-----------------------------------------------------------------------------
(***************************************************************************)
(* No hash of other contents.                                              *)
(***************************************************************************)

Steady == ~MovesAnytime /\ WritesApart /\ \A a, b \in InPlace : a = b

\* An entry of inode i in the tree of command c.
EntrySound(c, i, e) ==
  e # NoEntry =>
    /\ e.ms <= Ms(mtime[i])
    /\ e.ms = Ms(mtime[i]) => e.hash.first = version[i] /\ e.hash.rest = version[i]
    /\ e.hash.command = c /\ e.hash.inPlace \in InPlace

EntriesSound ==
  \A c \in Commands, i \in Inodes : EntrySound(c, i, cache[c][i]) /\ EntrySound(c, i, stored[c][i])

\* What a call knows of its file, if it was not written since.
LookSound(k) ==
  /\ inode[k.path] = k.inode
  /\ k.mtime <= mtime[k.inode] /\ k.seen <= version[k.inode]
  /\ k.seen = version[k.inode] => k.mtime = mtime[k.inode]

HitSound(k) ==
  /\ k.seen <= version[k.inode]
  /\ k.seen = version[k.inode] => k.hash = HashOf(k.seen, k.seen)

ReadSound(k) ==
  /\ k.fd = k.inode
  /\ k.mtime <= mtime[k.inode]
  /\ Ms(k.mtime) = Ms(mtime[k.inode]) => k.first = version[k.inode]

StoreSound(k) ==
  /\ k.mtime <= mtime[k.inode]
  /\ Ms(k.mtime) = Ms(mtime[k.inode]) =>
       k.hash.first = version[k.inode] /\ k.hash.rest = version[k.inode]
  /\ k.hash.command = run.command /\ k.hash.inPlace = run.inPlace

CallSound(k) ==
  /\ k.at = "look" => LookSound(k)
  /\ k.at = "hit" => HitSound(k)
  /\ k.at = "read" => ReadSound(k)
  /\ k.at = "store" => StoreSound(k)

CallsSound == \A w \in Workers : CallSound(call[w])

RunSound == run.up => run.inPlace \in InPlace

Sound == RunSound /\ IdleWhenDown /\ EntriesSound /\ CallsSound

LEMMA InitSound == Init => Sound
<1> SUFFICES ASSUME Init PROVE Sound
  OBVIOUS
<1>1. EntriesSound
  BY DEF Init, EntriesSound, EntrySound, Empty
<1>2. CallsSound
  BY DEF Init, CallsSound, CallSound, Idle
<1> QED
  BY <1>1, <1>2 DEF Init, Sound, RunSound, IdleWhenDown

LEMMA RunSteps ==
  ASSUME Typed, Sound, Close \/ Crash \/ Flush \/ FlushFails \/ \E c \in Commands, b \in InPlace : Open(c, b)
  PROVE  Sound'
<1> USE DEF Sound, disk, flushing
<1>a. ASSUME NEW c \in Commands, NEW i \in Inodes, NEW e, EntrySound(c, i, e) PROVE EntrySound(c, i, e)'
  BY <1>a DEF EntrySound, Ms, Close, Crash, Flush, FlushFails, Open
<1>b. ASSUME \A w \in Workers : call'[w] = Idle PROVE CallsSound'
  BY <1>b DEF CallsSound, CallSound, Idle
<1>1. EntriesSound'
  <2>1. cache' \in {cache, stored} /\ stored' \in {cache, stored}
    BY DEF Close, LastFlush, Crash, Flush, FlushFails, Open
  <2> QED
    BY <1>a, <2>1 DEF EntriesSound
<1>2. CASE Flush \/ FlushFails
  <2>1. ASSUME NEW k, CallSound(k) PROVE CallSound(k)'
    BY <1>2, <2>1 DEF CallSound, LookSound, HitSound, ReadSound, StoreSound, HashOf, Ms, Flush, FlushFails
  <2>2. UNCHANGED <<call, run>>
    BY <1>2 DEF Flush, FlushFails
  <2>3. CallsSound'
    BY <2>1, <2>2 DEF CallsSound
  <2> QED
    BY <1>1, <2>2, <2>3 DEF RunSound, IdleWhenDown
<1>3. CASE ~(Flush \/ FlushFails)
  <2>1. \A w \in Workers : call'[w] = Idle
    BY <1>3 DEF IdleWhenDown, Close, Crash, Open
  <2>2. RunSound'
    <3>1. CASE Close \/ Crash
      BY <3>1 DEF RunSound, Close, Crash, Typed, RunTyped
    <3>2. ASSUME NEW c \in Commands, NEW b \in InPlace, Open(c, b) PROVE RunSound'
      BY <3>2 DEF RunSound, Open
    <3> QED
      BY <1>3, <3>1, <3>2
  <2> QED
    BY <1>1, <1>b, <2>1, <2>2 DEF IdleWhenDown
<1> QED
  BY <1>2, <1>3

\* A step of one call, which leaves the files, the run and the other calls alone.
LEMMA CallStep ==
  ASSUME CallsSound, UNCHANGED <<disk, run>>, NEW w \in Workers,
         NEW k, CallSound(k), call' = [call EXCEPT ![w] = k], DOMAIN call = Workers
  PROVE  CallsSound'
<1>1. ASSUME NEW v \in Workers PROVE CallSound(call'[v])
  BY DEF CallsSound
<1>2. ASSUME NEW v \in Workers PROVE CallSound(call[v])'
  BY <1>1, <1>2 DEF CallSound, LookSound, HitSound, ReadSound, StoreSound, HashOf, Ms, disk
<1> QED
  BY <1>2 DEF CallsSound

LEMMA CallSteps ==
  ASSUME Steady, Typed, Sound, NEW w \in Workers,
         Hit(w) \/ Miss(w) \/ ReadRest(w) \/ Put(w) \/ Return(w) \/ \E p \in Paths : Stat(w, p)
  PROVE  Sound'
<1>a. UNCHANGED <<disk, run, stored>> /\ DOMAIN call = Workers
  BY DEF Typed, CallsTyped, flushing, Hit, Miss, ReadRest, Put, Return, Stat
<1>b. CallSound(call[w]) /\ run.up
  BY DEF Sound, CallsSound, IdleWhenDown, Idle, Hit, Miss, ReadRest, Put, Return, Stat
<1>c. RunSound' /\ IdleWhenDown'
  BY <1>a, <1>b DEF Sound, RunSound, IdleWhenDown
<1>d. ASSUME NEW c \in Commands, NEW i \in Inodes, NEW e, EntrySound(c, i, e) PROVE EntrySound(c, i, e)'
  BY <1>a, <1>d DEF EntrySound, Ms, disk
<1>e. ASSUME UNCHANGED cache PROVE EntriesSound'
  BY <1>a, <1>d, <1>e DEF Sound, EntriesSound
<1>1. CASE Hit(w)
  <2>1. call[w] \in Looks /\ LookSound(call[w])
    BY <1>1, <1>b, CallStages DEF Hit, Typed, CallSound
  <2> DEFINE e == cache[run.command][call[w].inode]
             k == [at |-> "hit", inode |-> call[w].inode, seen |-> call[w].seen, hash |-> e.hash]
  <2>2. e \in Entries /\ e # NoEntry /\ e.ms = Ms(call[w].mtime) /\ EntrySound(run.command, call[w].inode, e)
    BY <1>1, <2>1 DEF Hit, Matches, Looks, Typed, CacheTyped, Caches, RunTyped, Sound, EntriesSound
  <2>3. ASSUME call[w].seen = version[call[w].inode]
        PROVE  e.hash = HashOf(call[w].seen, call[w].seen)
    <3>1. e.hash.first = call[w].seen /\ e.hash.rest = call[w].seen /\ e.hash.command = run.command
      BY <2>1, <2>2, <2>3 DEF LookSound, EntrySound
    <3>2. e.hash.inPlace = run.inPlace
      BY <1>b, <2>2 DEF Steady, EntrySound, Sound, RunSound
    <3>3. e.hash \in Hashes
      BY <2>2 DEF Entries
    <3> QED
      BY <3>1, <3>2, <3>3 DEF Hashes, HashOf
  <2>4. CallSound(k)
    BY <2>1, <2>3 DEF CallSound, HitSound, LookSound
  <2>5. call' = [call EXCEPT ![w] = k] /\ UNCHANGED cache
    BY <1>1 DEF Hit
  <2> HIDE DEF k
  <2> QED
    BY <1>a, <1>c, <1>e, <2>4, <2>5, CallStep DEF Sound
<1>2. CASE Miss(w)
  <2>1. call[w] \in Looks /\ LookSound(call[w])
    BY <1>2, <1>b, CallStages DEF Miss, Typed, CallSound
  <2> DEFINE k == [at |-> "read", inode |-> call[w].inode, mtime |-> call[w].mtime,
                   fd |-> inode[call[w].path], first |-> version[inode[call[w].path]]]
  <2>2. CallSound(k)
    BY <2>1 DEF CallSound, LookSound, ReadSound
  <2>3. call' = [call EXCEPT ![w] = k] /\ UNCHANGED cache
    BY <1>2 DEF Miss
  <2> HIDE DEF k
  <2> QED
    BY <1>a, <1>c, <1>e, <2>2, <2>3, CallStep DEF Sound
<1>3. CASE ReadRest(w)
  <2>1. call[w] \in Reads /\ ReadSound(call[w])
    BY <1>3, <1>b, CallStages DEF ReadRest, Typed, CallSound
  <2> DEFINE k == [at |-> "store", inode |-> call[w].inode, mtime |-> call[w].mtime, fd |-> call[w].fd,
                   hash |-> HashOf(call[w].first, version[call[w].fd])]
  <2>2. CallSound(k)
    BY <2>1 DEF CallSound, ReadSound, StoreSound, HashOf
  <2>3. call' = [call EXCEPT ![w] = k] /\ UNCHANGED cache
    BY <1>3 DEF ReadRest
  <2> HIDE DEF k
  <2> QED
    BY <1>a, <1>c, <1>e, <2>2, <2>3, CallStep DEF Sound
<1>4. CASE Put(w)
  <2>1. call[w] \in Stores /\ StoreSound(call[w])
    BY <1>4, <1>b, CallStages DEF Put, Typed, CallSound
  <2> DEFINE e == [ms |-> Ms(call[w].mtime), hash |-> call[w].hash]
  <2>2. cache' = [cache EXCEPT ![run.command][call[w].inode] = e] /\ call' = [call EXCEPT ![w] = Idle]
    BY <1>4 DEF Put, Stamp
  <2>3. EntrySound(run.command, call[w].inode, e)
    <3>1. call[w].mtime \in Nat /\ mtime[call[w].inode] \in Nat /\ call[w].mtime <= mtime[call[w].inode]
      BY <2>1 DEF Stores, StoreSound, Typed, DiskTyped
    <3>2. Ms(call[w].mtime) <= Ms(mtime[call[w].inode])
      BY <3>1, MsMonotone
    <3> QED
      BY <1>b, <2>1, <3>2 DEF EntrySound, StoreSound, Sound, RunSound
  <2> HIDE DEF e
  <2>4. EntriesSound'
    <3>1. ASSUME NEW c \in Commands, NEW i \in Inodes
          PROVE  cache'[c][i] = IF c = run.command /\ i = call[w].inode THEN e ELSE cache[c][i]
      BY <2>2 DEF Typed, CacheTyped, Caches
    <3> QED
      BY <1>a, <1>d, <2>3, <3>1 DEF Sound, EntriesSound
  <2>5. CallSound(Idle)
    BY DEF CallSound, Idle
  <2> QED
    BY <1>a, <1>c, <2>2, <2>4, <2>5, CallStep DEF Sound
<1>5. CASE Return(w)
  <2>1. CallSound(Idle)
    BY DEF CallSound, Idle
  <2> QED
    BY <1>5, <1>a, <1>c, <1>e, <2>1, CallStep DEF Return, Sound
<1>6. ASSUME NEW p \in Paths, Stat(w, p) PROVE Sound'
  <2> DEFINE k == [at |-> "look", path |-> p, inode |-> inode[p], mtime |-> mtime[inode[p]],
                   seen |-> version[inode[p]]]
  <2>1. CallSound(k)
    BY DEF CallSound, LookSound, Typed, DiskTyped, Versions
  <2>2. call' = [call EXCEPT ![w] = k] /\ UNCHANGED cache
    BY <1>6 DEF Stat
  <2> HIDE DEF k
  <2> QED
    BY <1>a, <1>c, <1>e, <2>1, <2>2, CallStep DEF Sound
<1> QED
  BY <1>1, <1>2, <1>3, <1>4, <1>5, <1>6

LEMMA WriteStep ==
  ASSUME Steady, Typed, Sound, NEW i \in Inodes, Write(i)
  PROVE  Sound'
<1>1. /\ version' = [version EXCEPT ![i] = @ + 1] /\ mtime' = [mtime EXCEPT ![i] = now]
      /\ UNCHANGED <<inode, run, cache, stored, call>>
      /\ version \in [Inodes -> Nat] /\ mtime \in [Inodes -> Nat] /\ now \in Nat
      /\ mtime[i] <= now /\ Ms(now) # Ms(mtime[i])
  BY DEF Write, flushing, Steady, Typed, DiskTyped, Versions
<1>2. /\ version'[i] = version[i] + 1 /\ mtime'[i] = now
      /\ \A j \in Inodes : j # i => version'[j] = version[j] /\ mtime'[j] = mtime[j]
  BY <1>1
<1>3. ASSUME NEW t \in Nat, t <= mtime[i]
      PROVE  Ms(t) \in Nat /\ Ms(now) \in Nat /\ Ms(t) < Ms(now) /\ t <= now
  <2>1. Ms(t) <= Ms(mtime[i]) /\ Ms(mtime[i]) <= Ms(now) /\ t <= now
    BY <1>1, <1>3, MsMonotone
  <2>2. Ms(t) \in Nat /\ Ms(mtime[i]) \in Nat /\ Ms(now) \in Nat
    BY <1>1, <1>3, MsMonotone
  <2> QED
    BY <1>1, <2>1, <2>2
<1>4. ASSUME NEW c \in Commands, NEW j \in Inodes, NEW e \in Entries, EntrySound(c, j, e)
      PROVE  EntrySound(c, j, e)'
  <2>1. CASE j = i
    <3>1. mtime[i] <= mtime[i] /\ mtime[i] \in Nat
      BY <1>1
    <3>2. Ms(mtime[i]) < Ms(now) /\ Ms(mtime[i]) \in Nat /\ Ms(now) \in Nat
      BY <1>3, <3>1
    <3>3. e # NoEntry => e.ms \in Nat
      BY DEF Entries
    <3>4. Ms(mtime'[j]) = Ms(now)
      BY <1>2, <2>1
    <3> QED
      BY <1>4, <2>1, <3>2, <3>3, <3>4 DEF EntrySound, Ms
  <2>2. CASE j # i
    BY <1>2, <1>4, <2>2 DEF EntrySound, Ms
  <2> QED
    BY <2>1, <2>2
<1>5. EntriesSound'
  <2>1. \A c \in Commands, j \in Inodes : cache[c][j] \in Entries /\ stored[c][j] \in Entries
    BY DEF Typed, CacheTyped, Caches
  <2> QED
    BY <1>1, <1>4, <2>1 DEF Sound, EntriesSound
<1>6. ASSUME NEW w \in Workers PROVE CallSound(call[w])'
  <2>1. CallSound(call[w])
    BY DEF Sound, CallsSound
  <2> DEFINE k == call[w]
  <2>2. CASE k.at = "look"
    <3>1. k \in Looks /\ LookSound(k)
      BY <2>1, <2>2, CallStages DEF CallSound, Typed
    <3>2. /\ k.inode \in Inodes /\ k.mtime \in Nat /\ k.seen \in Nat
          /\ k.inode = i => k.mtime <= now /\ k.seen < version'[i]
      BY <1>1, <1>2, <1>3, <3>1 DEF Looks, LookSound, Typed, DiskTyped, Versions
    <3>3. LookSound(k)'
      BY <1>1, <1>2, <3>1, <3>2 DEF LookSound
    <3> QED
      BY <1>1, <2>2, <3>3 DEF CallSound
  <2>3. CASE k.at = "hit"
    <3>1. k \in Hits /\ HitSound(k)
      BY <2>1, <2>3, CallStages DEF CallSound, Typed
    <3>2. k.inode \in Inodes /\ k.seen \in Nat /\ (k.inode = i => k.seen < version'[i])
      BY <1>1, <1>2, <3>1 DEF Hits, HitSound, Versions
    <3>3. HitSound(k)'
      BY <1>1, <1>2, <3>1, <3>2 DEF HitSound, HashOf
    <3> QED
      BY <1>1, <2>3, <3>3 DEF CallSound
  <2>4. CASE k.at = "read"
    <3>1. k \in Reads /\ ReadSound(k)
      BY <2>1, <2>4, CallStages DEF CallSound, Typed
    <3>2. k.inode \in Inodes /\ k.mtime \in Nat
      BY <3>1 DEF Reads, Typed, DiskTyped
    <3>3. k.inode = i => Ms(k.mtime) # Ms(now) /\ k.mtime <= now
      BY <1>3, <3>1, <3>2 DEF ReadSound
    <3>4. ReadSound(k)'
      BY <1>1, <1>2, <3>1, <3>2, <3>3 DEF ReadSound, Ms
    <3> QED
      BY <1>1, <2>4, <3>4 DEF CallSound
  <2>5. CASE k.at = "store"
    <3>1. k \in Stores /\ StoreSound(k)
      BY <2>1, <2>5, CallStages DEF CallSound, Typed
    <3>2. k.inode \in Inodes /\ k.mtime \in Nat
      BY <3>1 DEF Stores, Typed, DiskTyped
    <3>3. k.inode = i => Ms(k.mtime) # Ms(now) /\ k.mtime <= now
      BY <1>3, <3>1, <3>2 DEF StoreSound
    <3>4. StoreSound(k)'
      BY <1>1, <1>2, <3>1, <3>2, <3>3 DEF StoreSound, Ms
    <3> QED
      BY <1>1, <2>5, <3>4 DEF CallSound
  <2>6. CASE k.at = "idle"
    BY <1>1, <2>6 DEF CallSound
  <2> QED
    BY <2>2, <2>3, <2>4, <2>5, <2>6, CallStages DEF Typed
<1> QED
  BY <1>1, <1>5, <1>6 DEF Sound, RunSound, IdleWhenDown, CallsSound

LEMMA OtherUserSteps ==
  ASSUME Steady, Sound, Tick \/ \E p, q \in Paths : Swap(p, q)
  PROVE  Sound'
<1>1. UNCHANGED <<version, mtime, run, cache, stored, call>>
  BY DEF Tick, Swap, flushing
<1>2. UNCHANGED inode \/ \A w \in Workers : call[w] = Idle
  BY DEF Tick, Swap, Steady
<1>3. EntriesSound'
  BY <1>1 DEF Sound, EntriesSound, EntrySound, Ms
<1>4. CASE UNCHANGED inode
  <2>1. ASSUME NEW k, CallSound(k) PROVE CallSound(k)'
    BY <1>1, <1>4, <2>1 DEF CallSound, LookSound, HitSound, ReadSound, StoreSound, HashOf, Ms
  <2> QED
    BY <1>1, <1>3, <2>1 DEF Sound, RunSound, IdleWhenDown, CallsSound
<1>5. CASE \A w \in Workers : call[w] = Idle
  BY <1>1, <1>3, <1>5 DEF Sound, RunSound, IdleWhenDown, CallsSound, CallSound, Idle
<1> QED
  BY <1>2, <1>4, <1>5

LEMMA NextCacheSound ==
  ASSUME Steady, Typed, Sound, [Next]_vars
  PROVE  Sound'
<1>1. CASE UNCHANGED vars
  <2>1. UNCHANGED <<version, mtime, inode, run, cache, stored, call>>
    BY <1>1 DEF vars
  <2>2. EntriesSound'
    BY <2>1 DEF Sound, EntriesSound, EntrySound, Ms
  <2>3. ASSUME NEW k, CallSound(k) PROVE CallSound(k)'
    BY <2>1, <2>3 DEF CallSound, LookSound, HitSound, ReadSound, StoreSound, HashOf, Ms
  <2> QED
    BY <2>1, <2>2, <2>3 DEF Sound, RunSound, IdleWhenDown, CallsSound
<1> QED
  BY <1>1, RunSteps, CallSteps, WriteStep, OtherUserSteps DEF Next, Process

\* No hash is taken from the cache, nor left on disk, for other contents than the
\* file has, if files are not written twice in a millisecond or renamed while they
\* are hashed, and all runs agree on --in-place (cache.rs:92-151).
THEOREM KeepsHashesSound == Steady => (Spec => []HashesSound)
<1> SUFFICES ASSUME Steady PROVE Spec => []HashesSound
  OBVIOUS
<1>1. Typed /\ Sound => HashesSound
  <2> SUFFICES ASSUME Typed, Sound PROVE HashesSound
    OBVIOUS
  <2>1. HitFresh
    BY DEF Sound, CallsSound, CallSound, HitSound, HitFresh
  <2>2. StoredSound
    BY DEF Sound, EntriesSound, EntrySound, StoredSound, Matches
  <2> QED
    BY <2>1, <2>2 DEF HashesSound
<1>2. Typed /\ Sound /\ [Next]_vars => Sound'
  BY NextCacheSound
<1> QED
  BY <1>1, <1>2, InitTyped, NextTyped, InitSound, PTL DEF Spec

-----------------------------------------------------------------------------
(***************************************************************************)
(* hash_transformed hashes what the program wrote and cleans up after it,  *)
(* for files, pipes and programs of any size.                              *)
(***************************************************************************)

(***************************************************************************)
(* Types, with the mutex of the Child.                                     *)
(***************************************************************************)

\* What does not change: the options and the program.
Configured ==
  /\ input \in {"StdIn", "Named", "Copied"}
  /\ output \in {"StdOut", "Named", "InPlace"}
  /\ program \in Programs
  /\ output = "InPlace" => input # "StdIn"
  /\ output # "Named" => ~program.opens
  /\ output = "Named" /\ ~program.opens => program.out = 0

\* Where the actors are, and that the mutex is held by one who waits.
Placed ==
  /\ worker \in {"prepare", "spawn", "open", "lockFirst", "waitFirst", "read", "lock", "wait",
                 "join", "drain", "lockLast", "waitLast", "close", "remove", "done", "abandoned"}
  /\ child \in {"none", "running", "ended"}
  /\ reaper \in {"none", "read", "lock", "wait", "open", "close", "done"}
  /\ lock = "worker" <=> worker \in {"waitFirst", "wait", "waitLast"}
  /\ lock = "reaper" <=> reaper = "wait"
  /\ worker \in {"prepare", "spawn"} => child = "none" /\ reaper = "none"

Flagged ==
  /\ errOpen \in BOOLEAN /\ opened \in BOOLEAN /\ writers \subseteq {"child", "reaper"}
  /\ result \in {"none", "ok", "error"}
  /\ files \subseteq {"original", "temp", "fifo", "stray"}

\* The data on its way.
Counted ==
  /\ left \in [out : 0..MaxOut, err : 0..MaxErr, chat : 0..MaxChat]
  /\ pipe \in [out : Nat, err : Nat, chat : Nat]
  /\ pipe.err <= PipeSize /\ pipe.chat <= PipeSize
  /\ output # "InPlace" => pipe.out <= PipeSize
  /\ hashed \in 0..InLen

TransformTyped == Configured /\ Placed /\ Flagged /\ Counted

LEMMA TransformInitTyped == TransformInit => TransformTyped
<1> SUFFICES ASSUME TransformInit PROVE TransformTyped
  OBVIOUS
<1> USE PipeAssumption DEF TransformInit
<1>1. Configured
  BY DEF Configured, NamedInput
<1>2. Placed
  BY DEF Placed
<1>3. Flagged
  BY DEF Flagged
<1>4. Counted
  <2>1. program \in [out : 0..MaxOut, err : 0..MaxErr, chat : 0..MaxChat, opens : BOOLEAN, exit : {0, 1}]
    BY DEF Programs
  <2> QED
    BY <2>1 DEF Counted
<1> QED
  BY <1>1, <1>2, <1>3, <1>4 DEF TransformTyped

\* Every step leaves the program and the options as they are.
LEMMA NextConfigured == [TransformNext]_transformVars => UNCHANGED config
BY DEF TransformNext, transformVars, config, Worker, Interrupted, Child, Reaper, Prepare, Spawn, Read, StopReading,
   ReadFails, OpenFails, Wait, Join, LockChild, WaitInPlace, Drain, EndDrain, WaitLast, CloseStream, Remove,
   ChildOpens, ChildOpensAnew, ChildWrites, ChildClosesErr, ChildEnds, Reap, ReapEnds, ReaperLocks, ReaperWaits,
   ReaperOpens, ReaperCloses

LEMMA WorkerTyped == TransformTyped /\ (Worker \/ Interrupted) => (Placed /\ Flagged /\ Counted)'
<1> SUFFICES ASSUME TransformTyped, Worker \/ Interrupted PROVE (Placed /\ Flagged /\ Counted)'
  OBVIOUS
<1> USE PipeAssumption
    DEF TransformTyped, Configured, Placed, Flagged, Counted, config, streams, Goto, Running
<1>a. ASSUME UNCHANGED <<output, left, pipe, hashed>> PROVE Counted'
  BY <1>a
<1>1. CASE Read
  BY <1>1 DEF Read
<1>2. CASE StopReading \/ ReadFails \/ EndDrain
  <2>1. Counted'
    BY <1>2, <1>a DEF StopReading, ReadFails, EndDrain
  <2>2. Placed'
    BY <1>2 DEF StopReading, ReadFails, EndDrain, Drained
  <2>3. Flagged'
    BY <1>2 DEF StopReading, ReadFails, EndDrain
  <2> QED
    BY <2>1, <2>2, <2>3
<1>3. CASE Drain
  BY <1>3 DEF Drain
<1>4. CASE LockChild("lockFirst", "waitFirst") \/ LockChild("lock", "wait") \/ LockChild("lockLast", "waitLast")
  <2>1. PICK from, to \in {"lockFirst", "lock", "lockLast", "waitFirst", "wait", "waitLast"} :
          LockChild(from, to) /\ to \in {"waitFirst", "wait", "waitLast"}
    BY <1>4, ZenonT(30)
  <2>2. Counted'
    BY <2>1, <1>a DEF LockChild
  <2>3. Placed'
    BY <2>1 DEF LockChild
  <2>4. Flagged'
    BY <2>1 DEF LockChild
  <2> QED
    BY <2>2, <2>3, <2>4
<1>5. CASE WaitInPlace
  BY <1>5 DEF WaitInPlace, Abandon, AbandonTo
<1>6. CASE Wait \/ Join \/ WaitLast
  <2>1. Counted'
    BY <1>6, <1>a DEF Wait, Join, WaitLast
  <2>2. Placed'
    BY <1>6 DEF Wait, Verdict, Join, WaitLast
  <2>3. UNCHANGED <<streams, files>> /\ result' \in {"ok", "error", result}
    BY <1>6 DEF Wait, Verdict, Join, WaitLast
  <2>4. Flagged'
    BY <2>3
  <2> QED
    BY <2>1, <2>2, <2>4
<1>7. CASE Prepare
  <2>1. UNCHANGED <<output, child, reaper, lock, streams, hashed>> /\ worker = "prepare"
    BY <1>7 DEF Prepare
  <2>2. worker' \in {"spawn", "done"} /\ child = "none" /\ reaper = "none"
    BY <1>7 DEF Prepare, Abandon, AbandonTo
  <2>3. Placed'
    BY <2>1, <2>2
  <2>4. files' \subseteq files \cup {"temp", "fifo"} /\ result' \in {"error", result}
    BY <1>7 DEF Prepare, Abandon, AbandonTo
  <2>5. Flagged'
    BY <2>1, <2>4
  <2>6. Counted'
    BY <1>a, <2>1
  <2> QED
    BY <2>3, <2>5, <2>6
<1>8. CASE Spawn
  <2>1. Counted'
    BY <1>8, <1>a DEF Spawn
  <2>2. Placed'
    <3>1. worker' \in {"read", "open", "lockFirst", "done"}
      BY <1>8 DEF Spawn, Abandon, AbandonTo
    <3>2. worker = "spawn" /\ UNCHANGED lock
      BY <1>8 DEF Spawn
    <3>3. (child' = "running" /\ reaper' = "read") \/ UNCHANGED <<child, reaper>>
      BY <1>8 DEF Spawn
    <3>4. reaper # "wait"
      BY <1>8 DEF Spawn
    <3> QED
      BY <3>1, <3>2, <3>3, <3>4
  <2>3. Flagged'
    BY <1>8 DEF Spawn, Abandon, AbandonTo
  <2> QED
    BY <2>1, <2>2, <2>3
<1>9. CASE CloseStream \/ Remove
  <2>1. UNCHANGED <<output, child, reaper, lock, streams, hashed, result>>
    BY <1>9 DEF CloseStream, Remove
  <2>2. worker \in {"close", "remove"} /\ worker' \in {"remove", "done"}
    BY <1>9 DEF CloseStream, Remove
  <2>3. Placed'
    BY <2>1, <2>2
  <2>4. files' \subseteq files
    BY <1>9 DEF CloseStream, Remove
  <2>5. Flagged'
    BY <2>1, <2>4
  <2>6. Counted'
    BY <1>a, <2>1
  <2> QED
    BY <2>3, <2>5, <2>6
<1>10. CASE OpenFails
  <2>1. Counted'
    BY <1>10, <1>a DEF OpenFails
  <2>2. Placed'
    BY <1>10 DEF OpenFails, AbandonTo
  <2>3. Flagged'
    BY <1>10 DEF OpenFails, AbandonTo
  <2> QED
    BY <2>1, <2>2, <2>3
<1> QED
  BY <1>1, <1>2, <1>3, <1>4, <1>5, <1>6, <1>7, <1>8, <1>9, <1>10 DEF Worker, Interrupted

LEMMA TransformNextTyped == TransformTyped /\ [TransformNext]_transformVars => TransformTyped'
<1> SUFFICES ASSUME TransformTyped, [TransformNext]_transformVars PROVE TransformTyped'
  OBVIOUS
<1>a. Configured'
  BY NextConfigured DEF TransformTyped, Configured, config
<1> USE PipeAssumption
    DEF Configured, Placed, Flagged, Counted, config, streams, Goto, Running
<1>1. CASE Worker \/ Interrupted
  BY <1>1, <1>a, WorkerTyped DEF TransformTyped
<1>2. CASE ChildOpens \/ ChildOpensAnew \/ ChildClosesErr \/ ChildEnds
  <2>1. Counted'
    BY <1>2 DEF TransformTyped, ChildOpens, ChildOpensAnew, ChildClosesErr, ChildEnds
  <2>2. Placed'
    BY <1>2 DEF TransformTyped, ChildOpens, ChildOpensAnew, ChildClosesErr, ChildEnds, OpenFifo
  <2>3. Flagged'
    BY <1>2 DEF TransformTyped, ChildOpens, ChildOpensAnew, ChildClosesErr, ChildEnds, OpenFifo
  <2> QED
    BY <1>a, <2>1, <2>2, <2>3 DEF TransformTyped
<1>3. ASSUME NEW s \in {"out", "err", "chat"}, ChildWrites(s) PROVE TransformTyped'
  BY <1>3, <1>a DEF TransformTyped, ChildWrites
<1>4. CASE Reaper
  BY <1>4, <1>a DEF TransformTyped, Reaper, Reap, ReapEnds, CanReap, AfterStderr, ReaperLocks, ReaperWaits,
                    ReaperOpens, ReaperCloses, OpenFifo
<1>5. CASE UNCHANGED transformVars
  BY <1>5, <1>a DEF TransformTyped, transformVars
<1> QED
  BY <1>1, <1>2, <1>3, <1>4, <1>5 DEF TransformNext, Child

\* The state of the call keeps its types, and the mutex of the Child is held by
\* who waits for the program (transform.rs:283, 367, 377).
THEOREM TransformTypeCorrect == TransformSpec => []TransformTypeOK
<1>1. TransformTyped => TransformTypeOK
  BY PipeAssumption DEF TransformTyped, TransformTypeOK, Configured, Placed, Flagged, Counted
<1> QED
  BY <1>1, TransformInitTyped, TransformNextTyped, PTL DEF TransformSpec

-----------------------------------------------------------------------------
(***************************************************************************)
(* Where the data is.                                                      *)
(***************************************************************************)

\* The program has been started, and one that has ended has written everything.
ProgramKnown ==
  /\ worker \notin {"prepare", "spawn", "done", "abandoned"} => child # "none"
  /\ reaper # "none" => child # "none"
  /\ child = "ended" => left.out = 0
  /\ worker \in {"close", "remove", "done"} => child # "running"

\* The worker reads from the fifo once the program has opened it, which keeps it
\* open until it ends; otherwise the reaper opened it for a program that has ended.
FifoHeld ==
  /\ reaper \in {"open", "close"} => child = "ended"
  /\ worker = "open" => output = "Named"
  /\ output = "Named" /\ worker = "read" => opened \/ child = "ended"
  /\ opened => child # "none"
  /\ output = "Named" /\ worker \notin {"prepare", "done", "abandoned"} => "fifo" \in files
  /\ child = "running" /\ opened /\ worker # "abandoned" => "child" \in writers

\* In place, what is read is complete.
InPlaceLater == output = "InPlace" /\ worker = "read" => child # "running"

Flow == ProgramKnown /\ FifoHeld /\ InPlaceLater

LEMMA InitFlow == TransformInit => Flow
BY DEF TransformInit, Flow, ProgramKnown, FifoHeld, InPlaceLater

\* The program finds no fifo only after the worker has given up opening it.
LEMMA OpensAnewLate ==
  ASSUME TransformTyped, Flow, ChildOpensAnew
  PROVE  worker = "abandoned"
<1>1. output = "Named" /\ child = "running" /\ "fifo" \notin files
  BY DEF TransformTyped, Configured, ChildOpensAnew, Running
<1> QED
  BY <1>1 DEF TransformTyped, Placed, Flow, ProgramKnown, FifoHeld

LEMMA NextFlow == TransformTyped /\ Flow /\ [TransformNext]_transformVars => Flow'
<1> SUFFICES ASSUME TransformTyped, Flow, [TransformNext]_transformVars PROVE Flow'
  OBVIOUS
<1>a. UNCHANGED output
  BY NextConfigured DEF config
<1> USE DEF Flow, ProgramKnown, FifoHeld, InPlaceLater, streams, Goto, Running
<1>1. CASE Prepare
  BY <1>1, <1>a DEF TransformTyped, Placed, Prepare, Abandon, AbandonTo
<1>2. CASE Spawn
  BY <1>2, <1>a DEF TransformTyped, Configured, Placed, Spawn, Abandon, AbandonTo
<1>3. CASE LockChild("lockFirst", "waitFirst") \/ LockChild("lock", "wait") \/ LockChild("lockLast", "waitLast")
  BY <1>3, <1>a DEF LockChild
<1>4. CASE WaitInPlace
  BY <1>4, <1>a DEF TransformTyped, Placed, WaitInPlace, Abandon, AbandonTo
<1>5. CASE Read \/ StopReading \/ ReadFails \/ Drain \/ EndDrain
  BY <1>5, <1>a DEF Read, StopReading, ReadFails, Drain, EndDrain, Drained
<1>6. CASE Wait \/ Join \/ WaitLast
  BY <1>6, <1>a DEF Wait, Verdict, Join, WaitLast
<1>7. CASE CloseStream \/ Remove
  BY <1>7, <1>a DEF CloseStream, Remove
<1>8. CASE ChildOpens
  BY <1>8, <1>a DEF TransformTyped, Placed, ChildOpens, OpenFifo, ReaderOpen
<1>9. CASE ChildClosesErr \/ ChildEnds
  BY <1>9, <1>a DEF ChildClosesErr, ChildEnds
<1>10. ASSUME NEW s \in {"out", "err", "chat"}, ChildWrites(s) PROVE Flow'
  BY <1>10, <1>a DEF ChildWrites
<1>11. CASE Reap \/ ReapEnds \/ ReaperLocks
  BY <1>11, <1>a DEF Reap, ReapEnds, CanReap, AfterStderr, ReaperLocks
<1>12. CASE ReaperWaits \/ ReaperOpens \/ ReaperCloses
  BY <1>12, <1>a DEF TransformTyped, Placed, ReaperWaits, ReaperOpens, ReaperCloses, OpenFifo, ReaderOpen
<1>13. CASE OpenFails
  BY <1>13, <1>a DEF TransformTyped, Placed, OpenFails, AbandonTo
<1>14. CASE ChildOpensAnew
  BY <1>14, <1>a, OpensAnewLate DEF TransformTyped, Placed, ChildOpensAnew
<1>15. CASE UNCHANGED transformVars
  BY <1>15 DEF transformVars
<1> QED
  BY <1>1, <1>2, <1>3, <1>4, <1>5, <1>6, <1>7, <1>8, <1>9, <1>10, <1>11, <1>12, <1>13, <1>14, <1>15
  DEF TransformNext, Worker, Interrupted, Child, Reaper

(***************************************************************************)
(* What is hashed.                                                         *)
(***************************************************************************)

\* Up to the hash, no data is dropped; then it is all there is.
Conserved ==
  /\ worker \in {"prepare", "spawn", "open", "lockFirst", "waitFirst", "read"} =>
       hashed + pipe.out + left.out = program.out
  /\ worker \in {"lock", "wait"} => hashed = program.out

ResultSound ==
  result = "ok" =>
    /\ worker \in {"drain", "lockLast", "waitLast", "close", "remove", "done"}
    /\ hashed = program.out
    /\ program.exit = 0

\* The worker stops at the end of the stream, or with as many units as the file has.
LEMMA StopsAtTheEnd ==
  ASSUME MaxOut <= InLen, TransformTyped, Flow, Conserved, StopReading
  PROVE  hashed = program.out
<1>1. /\ program.out \in 0..MaxOut /\ left.out \in Nat /\ pipe.out \in Nat /\ hashed \in 0..InLen
      /\ hashed + pipe.out + left.out = program.out
  BY DEF TransformTyped, Configured, Programs, Counted, Conserved, StopReading
<1>2. CASE hashed = InLen
  BY <1>1, <1>2, PipeAssumption
<1>3. CASE OutputEnded
  <2>1. child # "none"
    BY DEF Flow, ProgramKnown, StopReading
  <2>2. pipe.out = 0
    BY <1>3 DEF OutputEnded, TransformTyped, Configured
  <2>3. child = "ended"
    <3>1. CASE output = "Named"
      <4>1. writers = {}
        BY <1>3, <3>1 DEF OutputEnded
      <4>2. opened \/ child = "ended"
        BY <3>1 DEF Flow, FifoHeld, StopReading
      <4>3. child = "running" => ~opened
        BY <4>1 DEF Flow, FifoHeld, StopReading
      <4> QED
        BY <2>1, <4>2, <4>3 DEF TransformTyped, Placed
    <3>2. CASE output # "Named"
      BY <1>3, <2>1, <3>2 DEF OutputEnded, Running, TransformTyped, Configured, Placed, Flow, InPlaceLater, StopReading
    <3> QED
      BY <3>1, <3>2
  <2> QED
    BY <1>1, <2>2, <2>3 DEF Flow, ProgramKnown
<1> QED
  BY <1>2, <1>3 DEF StopReading

LEMMA NextConserved ==
  ASSUME MaxOut <= InLen, TransformTyped, Flow, Conserved, [TransformNext]_transformVars
  PROVE  Conserved'
<1>a. UNCHANGED program
  BY NextConfigured DEF config
<1>b. ASSUME UNCHANGED <<hashed, pipe, left>>,
             worker' \notin {"open", "lockFirst", "waitFirst", "read", "lock", "wait"} \/ UNCHANGED worker,
             worker' \in {"prepare", "spawn"} => worker \in {"prepare", "spawn"}
      PROVE  Conserved'
  BY <1>a, <1>b DEF Conserved
<1>c. /\ left \in [out : Nat, err : Nat, chat : Nat] /\ pipe \in [out : Nat, err : Nat, chat : Nat]
      /\ hashed \in Nat /\ program.out \in Nat
  BY PipeAssumption DEF TransformTyped, Configured, Counted, Programs
<1> USE DEF streams, Goto, Running
<1>1. CASE Prepare \/ Spawn
  BY <1>1, <1>a DEF TransformTyped, Configured, Conserved, Prepare, Spawn, Abandon, AbandonTo
<1>2. CASE LockChild("lockFirst", "waitFirst") \/ LockChild("lock", "wait") \/ LockChild("lockLast", "waitLast")
  BY <1>2, <1>a DEF Conserved, LockChild
<1>3. CASE WaitInPlace
  BY <1>3, <1>a DEF Conserved, WaitInPlace, Abandon, AbandonTo
<1>4. CASE Read
  BY <1>4, <1>a, <1>c DEF Conserved, Read
<1>5. CASE StopReading
  BY <1>5, <1>a, StopsAtTheEnd DEF Conserved, StopReading
<1>6. CASE ReadFails \/ EndDrain \/ Wait \/ Join \/ WaitLast \/ CloseStream \/ Remove
  BY <1>6, <1>b DEF ReadFails, EndDrain, Drained, Wait, Verdict, Join, WaitLast, CloseStream, Remove
<1>7. CASE Drain
  BY <1>7 DEF Conserved, Drain
<1>8. CASE ChildOpens
  BY <1>8, <1>a DEF Conserved, ChildOpens, OpenFifo
<1>9. CASE ChildClosesErr \/ ChildEnds
  BY <1>9, <1>a DEF Conserved, ChildClosesErr, ChildEnds
<1>10. ASSUME NEW s \in {"out", "err", "chat"}, ChildWrites(s) PROVE Conserved'
  <2>1. pipe'.out + left'.out = pipe.out + left.out /\ UNCHANGED <<hashed, worker>>
    BY <1>10, <1>c DEF ChildWrites
  <2>2. pipe'.out \in Nat /\ left'.out \in Nat
    BY <1>10, <1>c DEF ChildWrites
  <2> QED
    BY <1>a, <1>c, <2>1, <2>2 DEF Conserved
<1>11. CASE Reap
  BY <1>11, <1>a, <1>c DEF Conserved, Reap, CanReap
<1>12. CASE ReapEnds \/ ReaperLocks \/ ReaperWaits \/ ReaperCloses
  BY <1>12, <1>a DEF Conserved, ReapEnds, CanReap, ReaperLocks, ReaperWaits, ReaperCloses
<1>13. CASE ReaperOpens
  BY <1>13, <1>a DEF Conserved, ReaperOpens, OpenFifo
<1>14. CASE OpenFails
  BY <1>14, <1>b DEF OpenFails, AbandonTo
<1>15. CASE ChildOpensAnew
  BY <1>15, OpensAnewLate DEF Conserved, ChildOpensAnew
<1>16. CASE UNCHANGED transformVars
  BY <1>16 DEF Conserved, transformVars
<1> QED
  BY <1>1, <1>2, <1>3, <1>4, <1>5, <1>6, <1>7, <1>8, <1>9, <1>10, <1>11, <1>12, <1>13, <1>14, <1>15, <1>16
  DEF TransformNext, Worker, Interrupted, Child, Reaper

LEMMA NextSound ==
  ASSUME Conserved, ResultSound, [TransformNext]_transformVars
  PROVE  ResultSound'
<1>a. UNCHANGED program
  BY NextConfigured DEF config
<1> USE DEF ResultSound, Conserved, streams, Goto, Running
<1>1. CASE Prepare \/ Spawn \/ WaitInPlace \/ ReadFails \/ OpenFails
  BY <1>1, <1>a DEF Prepare, Spawn, WaitInPlace, ReadFails, OpenFails, Abandon, AbandonTo
<1>2. CASE LockChild("lockFirst", "waitFirst") \/ LockChild("lock", "wait") \/ LockChild("lockLast", "waitLast")
  BY <1>2, <1>a DEF LockChild
<1>3. CASE Wait
  BY <1>3, <1>a DEF Wait, Verdict
<1>4. CASE Read \/ StopReading \/ Drain \/ EndDrain \/ Join \/ WaitLast \/ CloseStream \/ Remove
  BY <1>4, <1>a DEF Read, StopReading, Drain, EndDrain, Drained, Join, WaitLast, CloseStream, Remove
<1>5. CASE ChildOpens \/ ChildOpensAnew \/ ReaperOpens
  BY <1>5, <1>a DEF ChildOpens, ChildOpensAnew, ReaperOpens, OpenFifo
<1>6. CASE ChildClosesErr \/ ChildEnds \/ \E s \in {"out", "err", "chat"} : ChildWrites(s)
  BY <1>6, <1>a DEF ChildClosesErr, ChildEnds, ChildWrites
<1>7. CASE Reap \/ ReapEnds \/ ReaperLocks \/ ReaperWaits \/ ReaperCloses
  BY <1>7, <1>a DEF Reap, ReapEnds, CanReap, ReaperLocks, ReaperWaits, ReaperCloses
<1>8. CASE UNCHANGED transformVars
  BY <1>8 DEF transformVars
<1> QED
  BY <1>1, <1>2, <1>3, <1>4, <1>5, <1>6, <1>7, <1>8 DEF TransformNext, Worker, Interrupted, Child, Reaper

\* A hash stands for all that a program wrote which did not fail, provided it does
\* not write more than the file it was given has (transform.rs:334-396,
\* hasher.rs:324-354).
THEOREM HashesAll == MaxOut <= InLen => (TransformSpec => []HashSound)
<1> SUFFICES ASSUME MaxOut <= InLen PROVE TransformSpec => []HashSound
  OBVIOUS
<1>1. TransformInit => Conserved /\ ResultSound
  BY PipeAssumption DEF TransformInit, Conserved, ResultSound, Programs
<1>2. TransformTyped /\ Flow /\ Conserved /\ ResultSound /\ [TransformNext]_transformVars => (Conserved /\ ResultSound)'
  BY NextConserved, NextSound
<1>3. ResultSound => HashSound
  BY DEF ResultSound, HashSound
<1> QED
  BY <1>1, <1>2, <1>3, TransformInitTyped, TransformNextTyped, InitFlow, NextFlow, PTL DEF TransformSpec

-----------------------------------------------------------------------------
(***************************************************************************)
(* What is left behind.                                                    *)
(***************************************************************************)

\* Before the worker begins and when it is done there is but the file it was given,
\* and what a program made that nobody waits for.
FilesKnown ==
  /\ files \ {"stray"} = IF worker \in {"prepare", "done", "abandoned"} THEN {"original"}
                         ELSE {"original"} \cup Removed
  /\ "stray" \in files => worker = "abandoned"

LEMMA NextFiles ==
  ASSUME TransformTyped, Flow, input # "Named", FilesKnown, [TransformNext]_transformVars
  PROVE  input' # "Named" /\ FilesKnown'
<1>a. UNCHANGED <<input, output, program>>
  BY NextConfigured DEF config
<1>b. Removed' = Removed
  BY <1>a DEF Removed
<1>c. "original" \notin Removed /\ "stray" \notin Removed
  BY DEF Removed, TransformTyped, Configured
<1>d. ASSUME UNCHANGED files, worker' \in {"prepare", "done"} <=> worker \in {"prepare", "done"},
             worker' = "abandoned" <=> worker = "abandoned"
      PROVE  FilesKnown'
  BY <1>b, <1>d DEF FilesKnown
<1> USE DEF Goto
<1>1. CASE Prepare
  <2>1. Removed = (IF input = "Copied" THEN {"temp"} ELSE {}) \cup (IF output = "Named" THEN {"fifo"} ELSE {})
    BY DEF Removed, TransformTyped, Configured
  <2> QED
    BY <1>1, <1>a, <1>b, <1>c, <2>1 DEF FilesKnown, Prepare, Abandon, AbandonTo
<1>2. CASE Spawn
  BY <1>2, <1>a, <1>b, <1>c DEF TransformTyped, Configured, FilesKnown, Spawn, Abandon, AbandonTo
<1>3. CASE WaitInPlace
  BY <1>3, <1>a, <1>b, <1>c DEF FilesKnown, WaitInPlace, Abandon, AbandonTo
<1>4. CASE Remove
  BY <1>4, <1>a, <1>b, <1>c DEF FilesKnown, Remove
<1>5. CASE LockChild("lockFirst", "waitFirst") \/ LockChild("lock", "wait") \/ LockChild("lockLast", "waitLast")
  BY <1>5, <1>a, <1>d DEF LockChild
<1>6. CASE Read \/ StopReading \/ ReadFails \/ Wait \/ Join \/ Drain \/ EndDrain \/ WaitLast \/ CloseStream
  BY <1>6, <1>a, <1>d DEF Read, StopReading, ReadFails, Wait, Verdict, Join, Drain, EndDrain, Drained, WaitLast, CloseStream
<1>7. CASE ChildOpens \/ ReaperOpens
  BY <1>7, <1>a, <1>d DEF ChildOpens, ReaperOpens, OpenFifo
<1>8. CASE ChildClosesErr \/ ChildEnds \/ \E s \in {"out", "err", "chat"} : ChildWrites(s)
  BY <1>8, <1>a, <1>d DEF ChildClosesErr, ChildEnds, ChildWrites
<1>9. CASE Reap \/ ReapEnds \/ ReaperLocks \/ ReaperWaits \/ ReaperCloses
  BY <1>9, <1>a, <1>d DEF Reap, ReapEnds, CanReap, ReaperLocks, ReaperWaits, ReaperCloses
<1>10. CASE OpenFails
  BY <1>10, <1>a, <1>b, <1>c DEF FilesKnown, OpenFails, AbandonTo
<1>11. CASE ChildOpensAnew
  BY <1>11, <1>a, <1>b, OpensAnewLate DEF FilesKnown, ChildOpensAnew
<1>12. CASE UNCHANGED transformVars
  BY <1>12, <1>a, <1>d DEF transformVars
<1> QED
  BY <1>a, <1>1, <1>2, <1>3, <1>4, <1>5, <1>6, <1>7, <1>8, <1>9, <1>10, <1>11, <1>12
  DEF TransformNext, Worker, Interrupted, Child, Reaper

LEMMA FilesKept ==
  ASSUME NoCopy = FALSE
  PROVE  TransformSpec => [](TransformTyped /\ Flow /\ FilesKnown)
<1>1. TransformInit => input # "Named" /\ FilesKnown
  BY DEF TransformInit, NamedInput, FilesKnown
<1>2. TransformTyped /\ Flow /\ input # "Named" /\ FilesKnown /\ [TransformNext]_transformVars => (input # "Named" /\ FilesKnown)'
  BY NextFiles
<1> QED
  BY <1>1, <1>2, TransformInitTyped, TransformNextTyped, InitFlow, NextFlow, PTL DEF TransformSpec

\* Whatever fails, the call ends without its temporary copy and its fifo, and with
\* the file it was given, unless $IN is the file itself; and without its program too,
\* unless it is the open of the fifo that fails, whose error is returned while the
\* program runs on and may write to a file of its own (transform.rs:58-101, 271-285,
\* 374-380).
THEOREM CleansUp == NoCopy = FALSE => (TransformSpec => []NothingLeftBehind)
<1> SUFFICES ASSUME NoCopy = FALSE PROVE TransformSpec => []NothingLeftBehind
  OBVIOUS
<1>1. Flow /\ FilesKnown => NothingLeftBehind
  BY DEF Flow, ProgramKnown, FilesKnown, NothingLeftBehind, Done, Running
<1> QED
  BY <1>1, FilesKept, PTL

\* Without --no-copy, the user's own file outlives every call: what Drop removes is
\* the copy that was made for the program (transform.rs:94-101, 234-257).
THEOREM KeepsOriginal == NoCopy = FALSE => (TransformSpec => []OriginalKept)
<1> SUFFICES ASSUME NoCopy = FALSE PROVE TransformSpec => []OriginalKept
  OBVIOUS
<1>1. FilesKnown => OriginalKept
  BY DEF FilesKnown, OriginalKept
<1> QED
  BY <1>1, FilesKept, PTL

=============================================================================
