------------------------------ MODULE HashCache ------------------------------
(***************************************************************************)
(* The persistent cache of hashes (src/fclones/src/cache.rs) as            *)
(* `hash_file` and `hash_transformed` (src/fclones/src/hasher.rs) use it,  *)
(* over several runs of `fclones group --cache`.                           *)
(*                                                                         *)
(* A call takes the metadata of a path, looks the hash up by inode, and on *)
(* a miss opens the path, hashes what it reads and stores the hash with    *)
(* the metadata taken at first.  Calls of several workers interleave with  *)
(* each other, with the flusher thread, with a crash, and with the users   *)
(* of the files, who write and rename them.                                *)
(*                                                                         *)
(* The contents of a file are a version number, and a hash names what was  *)
(* hashed and how.  All versions are of one length: the length compared    *)
(* beside the modification time only makes fewer hits.                     *)
(***************************************************************************)
EXTENDS Naturals, FiniteSets

CONSTANTS
  Paths, Inodes, Workers,
  Inode0,       \* Inode0[p]: the inode of path p at first
  Commands,     \* the values of --transform
  InPlace,      \* the values of --in-place that runs use
  TicksPerMs,   \* ticks of the file system's clock in a millisecond
  MovesAnytime, \* paths are renamed while they are being hashed
  WritesApart,  \* no file is written twice in one millisecond
  MaxTime, MaxWrites, MaxRuns   \* bounds of the clock, the writes and the runs

ASSUME CacheAssumption ==
  /\ Inode0 \in [Paths -> Inodes]
  /\ Commands # {}
  /\ TicksPerMs \in Nat \ {0}
  /\ InPlace \subseteq BOOLEAN
  /\ MovesAnytime \in BOOLEAN /\ WritesApart \in BOOLEAN
  /\ MaxTime \in Nat /\ TicksPerMs <= MaxTime
  /\ MaxWrites \in Nat /\ MaxRuns \in Nat

VARIABLES
  now,          \* the file system's clock
  inode,        \* inode[p]: what path p leads to
  version,      \* version[i]: contents of inode i
  mtime,        \* mtime[i]: when they were written
  run,          \* the running process: [up, command, inPlace], and runs so far
  cache,        \* cache[c][i]: entry of inode i in the tree of command c
  stored,       \* what of cache is on disk
  flusher,      \* "on", or "off" after a flush has failed
  flushError,   \* an error waits in err_channel
  warned,       \* the run has logged that the cache could not be written
  call          \* call[w]: the call worker w is in

vars == <<now, inode, version, mtime, run, cache, stored, flusher, flushError, warned, call>>
disk == <<now, inode, version, mtime>>
flushing == <<stored, flusher, flushError>>

Ms(t) == t \div TicksPerMs

Versions == 0..MaxWrites
Hashes == [first : Versions, rest : Versions, command : Commands, inPlace : BOOLEAN]
NoEntry == [ms |-> 0, hash |-> [first |-> 0, rest |-> 0, command |-> "", inPlace |-> FALSE]]
Entries == [ms : 0..MaxTime, hash : Hashes] \cup {NoEntry}

\* What hashing version v of a file gives in this run.
HashOf(u, v) == [first |-> u, rest |-> v, command |-> run.command, inPlace |-> run.inPlace]

Idle == [at |-> "idle"]

Empty == [c \in Commands |-> [i \in Inodes |-> NoEntry]]

Init ==
  /\ now = TicksPerMs /\ inode = Inode0
  /\ version = [i \in Inodes |-> 0] /\ mtime = [i \in Inodes |-> 0]
  /\ run = [up |-> FALSE, command |-> CHOOSE c \in Commands : TRUE, inPlace |-> FALSE, count |-> 0]
  /\ cache = Empty /\ stored = Empty
  /\ flusher = "off" /\ flushError = FALSE /\ warned = FALSE
  /\ call = [w \in Workers |-> Idle]

-----------------------------------------------------------------------------
(* A run of fclones: HashCache::open, the flusher, and the end.            *)

Open(c, b) ==
  /\ ~run.up /\ run.count < MaxRuns
  /\ run' = [up |-> TRUE, command |-> c, inPlace |-> b, count |-> run.count + 1]
  /\ cache' = stored
  /\ flusher' = "on" /\ flushError' = FALSE /\ warned' = FALSE
  /\ UNCHANGED <<disk, stored, call>>

Flush ==
  /\ run.up /\ flusher = "on"
  /\ stored' = cache
  /\ UNCHANGED <<disk, run, cache, flusher, flushError, warned, call>>

\* The flusher sends the error and ends: nothing is flushed from then on.
FlushFails ==
  /\ run.up /\ flusher = "on"
  /\ flusher' = "off" /\ flushError' = TRUE
  /\ UNCHANGED <<disk, run, cache, stored, warned, call>>

\* Mutated form of LastFlush: closing leaves it to the flusher.
LastFlushOfFlusher ==
  IF flusher = "on" THEN stored' = cache /\ UNCHANGED warned ELSE UNCHANGED <<stored, warned>>

\* HashCache::close: flush what the flusher has not, or log that it failed.
LastFlush ==
  \/ stored' = cache /\ UNCHANGED warned
  \/ warned' = TRUE /\ UNCHANGED stored

\* Drop of FileHasher, once no worker uses it.
Close ==
  /\ run.up /\ \A w \in Workers : call[w] = Idle
  /\ run' = [run EXCEPT !.up = FALSE]
  /\ LastFlush
  /\ UNCHANGED <<disk, cache, flusher, flushError, call>>

\* The process is killed: what was not flushed is lost.
Crash ==
  /\ run.up
  /\ run' = [run EXCEPT !.up = FALSE]
  /\ cache' = stored /\ call' = [w \in Workers |-> Idle]
  /\ UNCHANGED <<disk, flushing, warned>>

-----------------------------------------------------------------------------
(* A call of hash_file or hash_transformed.                                *)

\* FileMetadata::new: the inode and the modification time of the path.
Stat(w, p) ==
  /\ run.up /\ call[w] = Idle
  /\ call' = [call EXCEPT ![w] =
       [at |-> "look", path |-> p, inode |-> inode[p], mtime |-> mtime[inode[p]],
        seen |-> version[inode[p]]]]
  /\ UNCHANGED <<disk, run, cache, flushing, warned>>

\* HashCache::get: whether an entry is of a file with this modification time.
Matches(entry, t) == entry # NoEntry /\ entry.ms = Ms(t)

\* load_hash: a match is the result of the call.
Hit(w) ==
  LET entry == cache[run.command][call[w].inode] IN
  /\ call[w].at = "look" /\ Matches(entry, call[w].mtime)
  /\ call' = [call EXCEPT ![w] =
       [at |-> "hit", inode |-> @.inode, seen |-> @.seen, hash |-> entry.hash]]
  /\ UNCHANGED <<disk, run, cache, flushing, warned>>

\* Without a match the path is opened, which may lead elsewhere by now, and its
\* first part is read.
Miss(w) ==
  /\ call[w].at = "look" /\ ~Matches(cache[run.command][call[w].inode], call[w].mtime)
  /\ call' = [call EXCEPT ![w] =
       [at |-> "read", inode |-> @.inode, mtime |-> @.mtime,
        fd |-> inode[@.path], first |-> version[inode[@.path]]]]
  /\ UNCHANGED <<disk, run, cache, flushing, warned>>

\* The rest is read from the same open file.
ReadRest(w) ==
  /\ call[w].at = "read"
  /\ call' = [call EXCEPT ![w] =
       [at |-> "store", inode |-> @.inode, mtime |-> @.mtime, fd |-> @.fd,
        hash |-> HashOf(@.first, version[@.fd])]]
  /\ UNCHANGED <<disk, run, cache, flushing, warned>>

\* Mutated form of Stamp: the modification time is taken when the hash is put.
StampAtPut(w) == Ms(mtime[call[w].inode])

\* Mutated form of Stamp: put counts in microseconds, get in milliseconds.
StampInMicros(w) == 1000 * Ms(call[w].mtime)

\* The modification time a hash is put with.
Stamp(w) == Ms(call[w].mtime)

\* store_hash: insert, then report an error of the flusher if there is one.
Put(w) ==
  /\ call[w].at = "store"
  /\ cache' = [cache EXCEPT ![run.command][call[w].inode] = [ms |-> Stamp(w), hash |-> call[w].hash]]
  /\ warned' = (warned \/ flushError) /\ flushError' = FALSE
  /\ call' = [call EXCEPT ![w] = Idle]
  /\ UNCHANGED <<disk, run, stored, flusher>>

Return(w) ==
  /\ call[w].at = "hit"
  /\ call' = [call EXCEPT ![w] = Idle]
  /\ UNCHANGED <<disk, run, cache, flushing, warned>>

-----------------------------------------------------------------------------
(* The users of the files.                                                 *)

Write(i) ==
  /\ version[i] < MaxWrites
  /\ WritesApart => Ms(now) # Ms(mtime[i])
  /\ version' = [version EXCEPT ![i] = @ + 1] /\ mtime' = [mtime EXCEPT ![i] = now]
  /\ UNCHANGED <<now, inode, run, cache, flushing, warned, call>>

\* Two paths change places.
Swap(p, q) ==
  /\ inode[p] # inode[q]
  /\ MovesAnytime \/ \A w \in Workers : call[w] = Idle
  /\ inode' = [inode EXCEPT ![p] = inode[q], ![q] = inode[p]]
  /\ UNCHANGED <<now, version, mtime, run, cache, flushing, warned, call>>

Tick ==
  /\ now < MaxTime /\ now' = now + 1
  /\ UNCHANGED <<inode, version, mtime, run, cache, flushing, warned, call>>

-----------------------------------------------------------------------------

Process ==
  \/ \E c \in Commands, b \in InPlace : Open(c, b)
  \/ Flush \/ FlushFails \/ Close \/ Crash
  \/ \E w \in Workers : Hit(w) \/ Miss(w) \/ ReadRest(w) \/ Put(w) \/ Return(w)
  \/ \E w \in Workers, p \in Paths : Stat(w, p)

Next ==
  \/ Process
  \/ \E i \in Inodes : Write(i)
  \/ \E p, q \in Paths : Swap(p, q)
  \/ Tick

Spec == Init /\ [][Next]_vars

-----------------------------------------------------------------------------
(* Properties.                                                             *)

TypeOK ==
  /\ now \in 0..MaxTime /\ inode \in [Paths -> Inodes]
  /\ version \in [Inodes -> Versions] /\ mtime \in [Inodes -> 0..now]
  /\ run \in [up : BOOLEAN, command : Commands, inPlace : BOOLEAN, count : 0..MaxRuns]
  /\ cache \in [Commands -> [Inodes -> Entries]] /\ stored \in [Commands -> [Inodes -> Entries]]
  /\ flusher \in {"on", "off"} /\ flushError \in BOOLEAN /\ warned \in BOOLEAN
  /\ \A w \in Workers : call[w].at \in {"idle", "look", "hit", "read", "store"}

\* "The cached hash is used if the current metadata of the file strictly matches
\* the metadata stored in the cache": a hash from the cache is that of what the
\* file contains, unless it was written during the call.
HitFresh ==
  \A w \in Workers :
    call[w].at = "hit" /\ version[call[w].inode] = call[w].seen =>
      call[w].hash = HashOf(call[w].seen, call[w].seen)

\* What a later run would take from the disk, after a crash too, is the hash of
\* the file as it is, or does not match its modification time.
StoredSound ==
  \A c \in Commands, i \in Inodes :
    LET e == stored[c][i] IN
    Matches(e, mtime[i]) => e.hash.first = version[i] /\ e.hash.rest = version[i]

\* No hash is taken from the cache, now or by a later run, for a file that has
\* other contents, however calls, writes, flushes and crashes interleave.
HashesSound == HitFresh /\ StoredSound

\* A run that ends of itself has stored every hash it put, or has said that it
\* could not: a flush that failed in the background loses nothing silently.
LossReported == ~run.up /\ ~warned => cache = stored

=============================================================================
