------------------------------ MODULE Transform ------------------------------
(***************************************************************************)
(* One call of `hash_transformed` (src/fclones/src/hasher.rs): a file is   *)
(* given to an external program and what the program makes of it is        *)
(* hashed.  `Transform::run`, `execute` and the Drop functions of          *)
(* src/fclones/src/transform.rs start the program and clean up after it.   *)
(*                                                                         *)
(* Three actors: the worker thread, the program, and the stderr reaper, a  *)
(* thread of its own.  They meet at two pipes of PipeSize units, at the    *)
(* named pipe $OUT and at the mutex of the Child.  Data is counted, not    *)
(* kept: how much the program writes, and how much of it is hashed.        *)
(***************************************************************************)
EXTENDS Naturals, FiniteSets

CONSTANTS
  InLen,        \* length of the file: chunk.len
  PipeSize,     \* what a pipe holds before its writer blocks
  MaxOut,       \* bound: the length of the transformed data
  MaxErr,       \* bound: what the program writes to stderr
  MaxChat,      \* bound: what it writes to stdout when it works in place
  NoCopy,       \* --no-copy
  CanFail       \* the worker's steps that may fail: "prepare", "spawn", "open", "read"

ASSUME PipeAssumption ==
  /\ InLen \in Nat /\ PipeSize \in Nat \ {0}
  /\ MaxOut \in Nat /\ MaxErr \in Nat /\ MaxChat \in Nat
  /\ NoCopy \in BOOLEAN
  /\ CanFail \subseteq {"prepare", "spawn", "open", "read"}

VARIABLES
  input,        \* enum Input: "StdIn", "Named" ($IN is the file) or "Copied"
  output,       \* enum Output: "StdOut", "Named" ($OUT is a fifo) or "InPlace"
  program,      \* what the program does: [out, err, chat, opens, exit]
  worker, child, reaper,  \* where each of them is
  lock,         \* who holds the mutex of the Child
  left,         \* what the program has still to write: [out, err, chat]
  pipe,         \* units in the pipes: [out, err, chat]
  errOpen,      \* the program has its end of stderr open
  writers,      \* who has the fifo open for writing
  opened,       \* the program has opened the fifo
  hashed,       \* units consumed by stream_hash
  result,       \* "none", "ok" or "error"
  files         \* existing files: "original", "temp" (the copy), "fifo",
                \* "stray" (what the program makes of $OUT when the fifo is gone)

transformVars == <<input, output, program, worker, child, reaper, lock, left, pipe, errOpen,
                   writers, opened, hashed, result, files>>
config == <<input, output, program>>
streams == <<left, pipe, errOpen, writers, opened>>

Programs == [out : 0..MaxOut, err : 0..MaxErr, chat : 0..MaxChat, opens : BOOLEAN, exit : {0, 1}]

\* make_args: what $IN stands for.
NamedInput == IF NoCopy THEN "Named" ELSE "Copied"

\* Transform::new requires $IN with --in-place.
TransformInit ==
  /\ input \in {"StdIn", NamedInput}
  /\ output \in {"StdOut", "Named", "InPlace"}
  /\ output = "InPlace" => input # "StdIn"
  /\ program \in Programs
  /\ output # "InPlace" => program.chat = 0
  /\ output # "Named" => ~program.opens
  /\ output = "Named" /\ ~program.opens => program.out = 0
  /\ worker = "prepare" /\ child = "none" /\ reaper = "none" /\ lock = "none"
  /\ left = [out |-> program.out, err |-> program.err, chat |-> program.chat]
  /\ pipe = [out |-> 0, err |-> 0, chat |-> 0]
  /\ errOpen = FALSE /\ writers = {} /\ opened = FALSE
  /\ hashed = 0 /\ result = "none" /\ files = {"original"}

-----------------------------------------------------------------------------
(* The end of a stream, as its reader sees it.                             *)

Running == child = "running"

OutputEnded ==
  CASE output = "StdOut" -> ~Running /\ pipe.out = 0
    [] output = "Named" -> writers = {} /\ pipe.out = 0
    [] output = "InPlace" -> pipe.out = 0

\* What Drop of Input and Drop of Output remove.
Removed ==
  (IF input = "Copied" THEN {"temp"} ELSE {})
  \cup CASE output = "StdOut" -> {}
         [] output = "Named" -> {"fifo"}
         [] output = "InPlace" -> IF input = "Copied" THEN {"temp"} ELSE {"original"}

-----------------------------------------------------------------------------
(* The worker.                                                             *)

Goto(place) == worker' = place

\* Return the error of an operation before there is an Execution: Input and Output
\* are dropped.
AbandonTo(place) ==
  /\ Goto(place)
  /\ result' = "error"
  /\ files' = files \ Removed

Abandon == AbandonTo("done")

\* build_command: copy the file, or open it as stdin, and make the fifo.  For the
\* file itself as $IN, and no fifo, there is nothing that could fail.
Prepare ==
  /\ worker = "prepare"
  /\ \/ /\ Goto("spawn")
        /\ files' = files \cup (IF input = "Copied" THEN {"temp"} ELSE {})
                          \cup (IF output = "Named" THEN {"fifo"} ELSE {})
        /\ UNCHANGED result
     \/ /\ "prepare" \in CanFail /\ (input # "Named" \/ output = "Named")
        /\ Abandon
  /\ UNCHANGED <<config, child, reaper, lock, streams, hashed>>

\* command.spawn, and the reaper with its end of stderr.
Spawn ==
  /\ worker = "spawn"
  /\ \/ /\ Goto(CASE output = "StdOut" -> "read"
                  [] output = "Named" -> "open"
                  [] output = "InPlace" -> "lockFirst")
        /\ child' = "running" /\ reaper' = "read" /\ errOpen' = TRUE
        /\ UNCHANGED <<result, files>>
     \/ "spawn" \in CanFail /\ Abandon /\ UNCHANGED <<child, reaper, errOpen>>
  /\ UNCHANGED <<config, lock, left, pipe, writers, opened, hashed>>

\* child.lock().unwrap().wait(): take the mutex, keep it until the program ends.
LockChild(from, to) ==
  /\ worker = from /\ lock = "none"
  /\ lock' = "worker" /\ Goto(to)
  /\ UNCHANGED <<config, child, reaper, streams, hashed, result, files>>

\* File::open of the fifo fails: nobody holds the Child any longer but the reaper,
\* and nobody ends the program or waits for it.
OpenFails ==
  /\ worker = "open" /\ "open" \in CanFail
  /\ AbandonTo("abandoned")
  /\ UNCHANGED <<config, child, reaper, lock, streams, hashed>>

\* In place, all output is there once the program has ended; the program may
\* have removed the file.
WaitInPlace ==
  /\ worker = "waitFirst" /\ ~Running
  /\ lock' = "none"
  /\ \/ Goto("read") /\ UNCHANGED <<result, files>>
     \/ "read" \in CanFail /\ Abandon
  /\ UNCHANGED <<config, child, reaper, streams, hashed>>

\* stream_hash: up to chunk.len units.
Read ==
  /\ worker = "read" /\ hashed < InLen /\ pipe.out > 0
  /\ hashed' = hashed + 1 /\ pipe' = [pipe EXCEPT !.out = @ - 1]
  /\ UNCHANGED <<config, worker, child, reaper, lock, left, errOpen, writers, opened, result, files>>

StopReading ==
  /\ worker = "read"
  /\ hashed = InLen \/ OutputEnded
  /\ Goto("lock")
  /\ UNCHANGED <<config, child, reaper, lock, streams, hashed, result, files>>

\* A read error goes straight to Drop of Execution.
ReadFails ==
  /\ worker = "read" /\ "read" \in CanFail
  /\ result' = "error" /\ Goto("drain")
  /\ UNCHANGED <<config, child, reaper, lock, streams, hashed, files>>

\* exit_status.success(); a failure waits for what the reaper captured.
Verdict ==
  IF program.exit = 0 THEN result' = "ok" /\ Goto("drain")
                      ELSE result' = "error" /\ Goto("join")

Wait ==
  /\ worker = "wait" /\ ~Running
  /\ lock' = "none"
  /\ Verdict
  /\ UNCHANGED <<config, child, reaper, streams, hashed, files>>

Join ==
  /\ worker = "join" /\ reaper = "done"
  /\ Goto("drain")
  /\ UNCHANGED <<config, child, reaper, lock, streams, hashed, result, files>>

\* Drop of Execution: read the stream to its end, and wait for the program.
Drain ==
  /\ worker = "drain" /\ pipe.out > 0
  /\ pipe' = [pipe EXCEPT !.out = @ - 1]
  /\ UNCHANGED <<config, worker, child, reaper, lock, left, errOpen, writers, opened, hashed, result, files>>

\* Mutated form of Drained: Drop has nothing to drain and no one to wait for.
DroppedAtOnce == worker = "drain" /\ Goto("close")

Drained == worker = "drain" /\ OutputEnded /\ Goto("lockLast")

EndDrain ==
  /\ Drained
  /\ UNCHANGED <<config, child, reaper, lock, streams, hashed, result, files>>

WaitLast ==
  /\ worker = "waitLast" /\ ~Running
  /\ lock' = "none" /\ Goto("close")
  /\ UNCHANGED <<config, child, reaper, streams, hashed, result, files>>

\* The fields are dropped in their order: the stream, then the files.
CloseStream ==
  /\ worker = "close" /\ Goto("remove")
  /\ UNCHANGED <<config, child, reaper, lock, streams, hashed, result, files>>

Remove ==
  /\ worker = "remove" /\ Goto("done")
  /\ files' = files \ Removed
  /\ UNCHANGED <<config, child, reaper, lock, streams, hashed, result>>

Worker ==
  \/ Prepare \/ Spawn \/ Read \/ StopReading \/ Wait \/ Join
  \/ LockChild("lockFirst", "waitFirst") \/ WaitInPlace
  \/ LockChild("lock", "wait")
  \/ Drain \/ EndDrain \/ LockChild("lockLast", "waitLast") \/ WaitLast
  \/ CloseStream \/ Remove

\* A system call that could have waited returns an error instead.
Interrupted == OpenFails \/ ReadFails

-----------------------------------------------------------------------------
(* The fifo: an open waits until the other end is open as well.            *)

ReaderOpen == output = "Named" /\ worker \in {"read", "lock", "wait", "join", "drain", "lockLast", "waitLast", "close"}

\* A writer opens the fifo while, or just as, the worker does.
OpenFifo(w) ==
  /\ "fifo" \in files
  /\ worker = "open" \/ ReaderOpen
  /\ writers' = writers \cup {w}
  /\ worker' = IF worker = "open" THEN "read" ELSE worker

-----------------------------------------------------------------------------
(* The program: it writes in any order, blocks on a full pipe, and ends    *)
(* once it has written everything.                                         *)

ChildOpens ==
  /\ Running /\ program.opens /\ ~opened
  /\ OpenFifo("child") /\ opened' = TRUE
  /\ UNCHANGED <<config, child, reaper, lock, left, pipe, errOpen, hashed, result, files>>

\* The fifo is gone, and the program makes a file of its name instead, which takes
\* all it has to write.
ChildOpensAnew ==
  /\ Running /\ program.opens /\ ~opened
  /\ "fifo" \notin files
  /\ opened' = TRUE /\ files' = files \cup {"stray"} /\ left' = [left EXCEPT !.out = 0]
  /\ UNCHANGED <<config, worker, child, reaper, lock, pipe, errOpen, writers, hashed, result>>

\* In place the data goes to a file, which is never full.
ChildWrites(s) ==
  /\ Running /\ left[s] > 0
  /\ pipe[s] < PipeSize \/ (s = "out" /\ output = "InPlace")
  /\ s = "out" /\ output = "Named" => opened
  /\ s = "err" => errOpen
  /\ left' = [left EXCEPT ![s] = @ - 1]
  /\ pipe' = [pipe EXCEPT ![s] = @ + 1]
  /\ UNCHANGED <<config, worker, child, reaper, lock, errOpen, writers, opened, hashed, result, files>>

\* It may close stderr long before it ends.
ChildClosesErr ==
  /\ Running /\ left.err = 0 /\ errOpen
  /\ errOpen' = FALSE
  /\ UNCHANGED <<config, worker, child, reaper, lock, left, pipe, writers, opened, hashed, result, files>>

ChildEnds ==
  /\ Running /\ left.out = 0 /\ left.err = 0 /\ left.chat = 0
  /\ program.opens => opened
  /\ child' = "ended" /\ errOpen' = FALSE /\ writers' = writers \ {"child"}
  /\ UNCHANGED <<config, worker, reaper, lock, left, pipe, opened, hashed, result, files>>

Child == ChildOpens \/ ChildOpensAnew \/ (\E s \in {"out", "err", "chat"} : ChildWrites(s)) \/ ChildClosesErr \/ ChildEnds

-----------------------------------------------------------------------------
(* The stderr reaper.                                                      *)

\* Mutated form of CanReap: stderr is read once the program has ended.
CanReapLater == reaper = "read" /\ ~Running

CanReap == reaper = "read"

Reap ==
  /\ CanReap /\ pipe.err > 0
  /\ pipe' = [pipe EXCEPT !.err = @ - 1]
  /\ UNCHANGED <<config, worker, child, reaper, lock, left, errOpen, writers, opened, hashed, result, files>>

\* Mutated form of AfterStderr: the fifo is opened as soon as stderr has ended.
OpenAfterStderr == IF output = "Named" THEN "open" ELSE "done"

AfterStderr == IF output = "Named" THEN "lock" ELSE "done"

ReapEnds ==
  /\ CanReap /\ pipe.err = 0 /\ ~errOpen
  /\ reaper' = AfterStderr
  /\ UNCHANGED <<config, worker, child, lock, streams, hashed, result, files>>

\* Mutated form of ReaperLocks: the mutex is not taken.
ReaperLocksNothing ==
  /\ reaper = "lock" /\ reaper' = "wait"
  /\ UNCHANGED <<config, worker, child, lock, streams, hashed, result, files>>

\* The reaper waits for the program under the same mutex.
ReaperLocks ==
  /\ reaper = "lock" /\ lock = "none"
  /\ lock' = "reaper" /\ reaper' = "wait"
  /\ UNCHANGED <<config, worker, child, streams, hashed, result, files>>

ReaperWaits ==
  /\ reaper = "wait" /\ ~Running
  /\ lock' = "none" /\ reaper' = "open"
  /\ UNCHANGED <<config, worker, child, streams, hashed, result, files>>

\* Open the fifo in place of a program that never did.
ReaperOpens ==
  /\ reaper = "open"
  /\ \/ OpenFifo("reaper") /\ reaper' = "close"
     \/ "fifo" \notin files /\ reaper' = "done" /\ UNCHANGED <<worker, writers>>
  /\ UNCHANGED <<config, child, lock, left, pipe, errOpen, opened, hashed, result, files>>

ReaperCloses ==
  /\ reaper = "close"
  /\ reaper' = "done" /\ writers' = writers \ {"reaper"}
  /\ UNCHANGED <<config, worker, child, lock, left, pipe, errOpen, opened, hashed, result, files>>

Reaper == Reap \/ ReapEnds \/ ReaperLocks \/ ReaperWaits \/ ReaperOpens \/ ReaperCloses

-----------------------------------------------------------------------------

Done == worker \in {"done", "abandoned"}

TransformNext == Worker \/ Interrupted \/ Child \/ Reaper

\* The threads are scheduled, and the program goes on when no pipe blocks it.  No
\* call is sure to fail: a wait has to end without.
Fairness == WF_transformVars(Worker) /\ WF_transformVars(Child) /\ WF_transformVars(Reaper)

TransformSpec == TransformInit /\ [][TransformNext]_transformVars /\ Fairness

-----------------------------------------------------------------------------
(* Properties.                                                             *)

TransformTypeOK ==
  /\ input \in {"StdIn", "Named", "Copied"} /\ output \in {"StdOut", "Named", "InPlace"}
  /\ program \in Programs
  /\ worker \in {"prepare", "spawn", "open", "lockFirst", "waitFirst", "read", "lock", "wait",
                 "join", "drain", "lockLast", "waitLast", "close", "remove", "done", "abandoned"}
  /\ child \in {"none", "running", "ended"}
  /\ reaper \in {"none", "read", "lock", "wait", "open", "close", "done"}
  /\ lock = "worker" <=> worker \in {"waitFirst", "wait", "waitLast"}
  /\ lock = "reaper" <=> reaper = "wait"
  /\ left \in [out : 0..MaxOut, err : 0..MaxErr, chat : 0..MaxChat]
  /\ pipe.err <= PipeSize /\ pipe.chat <= PipeSize
  /\ output # "InPlace" => pipe.out <= PipeSize
  /\ errOpen \in BOOLEAN /\ opened \in BOOLEAN /\ writers \subseteq {"child", "reaper"}
  /\ hashed <= InLen /\ result \in {"none", "ok", "error"}
  /\ files \subseteq {"original", "temp", "fifo", "stray"}

\* A hash stands for all the program wrote, and is not returned for a program
\* that failed: no end of file is seen before the program's own, whoever opens
\* and closes the fifo and whenever stderr ends.
HashSound == Done /\ result = "ok" => hashed = program.out /\ program.exit = 0

\* When the call returns, on every path out of it, the temporary copy and the fifo
\* are gone, and the file that was to be hashed is not.  Nor is the program left
\* running, or a file of its own in place of the fifo, but on one path: the error of
\* File::open on the fifo (transform.rs:375) is returned without a wait.
NothingLeftBehind ==
  Done =>
    /\ files \ {"stray"} = {"original"}
    /\ Running \/ "stray" \in files => worker = "abandoned"

\* fclones itself never removes the file it was asked to hash.
OriginalKept == "original" \in files

\* The call returns: worker, program and reaper do not wait for each other
\* forever over the pipes, the fifo and the mutex.
Returns == <>Done

=============================================================================
