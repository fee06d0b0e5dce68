-------------------------------- MODULE Script --------------------------------
(***************************************************************************)
(* `fclones remove --dry-run` and its siblings: groups are read one by one *)
(* from a report (src/fclones/src/report.rs), turned into commands by      *)
(* several threads (`dedupe` in src/fclones/src/dedupe.rs) and printed as  *)
(* a script in the order of the report (`log_script`).                     *)
(*                                                                         *)
(* The threads share the iterator of the report under a mutex (par_bridge) *)
(* and send what they make of a group over a channel to the thread that    *)
(* prints.  Which commands a group gives is left to module Dedupe; here a  *)
(* group gives a number of lines, none if its files could not be examined. *)
(***************************************************************************)
EXTENDS Naturals, Sequences, SequencesExt

CONSTANTS
  Threads,      \* rayon workers that run the parallel iterator
  Report,       \* Report[g]: the lines of the script for group g, a sequence of counts
  CanFailWrite  \* writing the script may fail

Groups == 1..Len(Report)

ASSUME ScriptAssumption ==
  /\ Report \in Seq(Nat)
  /\ CanFailWrite \in BOOLEAN
  /\ Threads # {}   \* a pool has a thread

VARIABLES
  malformed,    \* index of the group whose text is malformed, or a larger one
  at,           \* position of the report's iterator
  readError,    \* run_dedupe: result = Err(e)
  busy,         \* busy[t]: the group thread t works on, 0 if none, or Ended
  channel,      \* indexes sent and not received
  queue,        \* PriorityQueue: received and not printed
  next,         \* next_group_index
  out,          \* the script: the group of each line written
  printer       \* "printing", "ended", "failed", or "aborted" with the process

vars == <<malformed, at, readError, busy, channel, queue, next, out, printer>>

Init ==
  /\ malformed \in 1..(Len(Report) + 1)
  /\ at = 1 /\ readError = FALSE
  /\ busy = [t \in Threads |-> 0]
  /\ channel = <<>> /\ queue = {} /\ next = 1 /\ out = <<>>
  /\ printer = "printing"

\* busy[t] of a thread that has left the iterator.
Ended == Len(Report) + 1

-----------------------------------------------------------------------------
(* The threads.                                                            *)

\* Mutated form of CanRead: one group too many.
CanReadPast == at <= Ended /\ (at \in Groups => at # malformed)

\* The iterator of the report has another group.
CanRead == at \in Groups /\ at # malformed

\* Take the next group under the mutex of par_bridge.
Pull(t) ==
  /\ busy[t] = 0 /\ printer # "aborted"
  /\ CanRead
  /\ busy' = [busy EXCEPT ![t] = at] /\ at' = at + 1
  /\ UNCHANGED <<malformed, readError, channel, queue, next, out, printer>>

\* The report has ended, or cannot be read any further.
Leave(t) ==
  /\ busy[t] = 0 /\ printer # "aborted"
  /\ ~CanRead
  /\ readError' = (at = malformed /\ at \in Groups)
  /\ busy' = [busy EXCEPT ![t] = Ended]
  /\ UNCHANGED <<malformed, at, channel, queue, next, out, printer>>

\* Mutated form of Sent: a group without commands is not worth sending.
SentIfAny(g) == IF Report[g] = 0 THEN channel ELSE Append(channel, g)

\* A group that is skipped with a warning is sent all the same, empty.
Sent(g) == Append(channel, g)

\* tx.send(item).unwrap(): without a receiver the panic ends the process.
Send(t) ==
  /\ busy[t] \in Groups /\ printer # "aborted"
  /\ IF printer # "printing"
       THEN printer' = "aborted" /\ UNCHANGED <<busy, channel>>
       ELSE /\ channel' = Sent(busy[t])
            /\ busy' = [busy EXCEPT ![t] = 0]
            /\ UNCHANGED printer
  /\ UNCHANGED <<malformed, at, readError, queue, next, out>>

-----------------------------------------------------------------------------
(* The thread that prints.                                                 *)

\* Mutated form of Ready: whatever comes first is printed.
ReadyAny(g) == \A h \in queue : g <= h

Ready(g) == g = next

\* rx.recv(), once nothing in the queue is next.
Receive ==
  /\ printer = "printing" /\ channel # <<>>
  /\ ~\E g \in queue : Ready(g)
  /\ queue' = queue \cup {Head(channel)} /\ channel' = Tail(channel)
  /\ UNCHANGED <<malformed, at, readError, busy, next, out, printer>>

\* Pop a group and write its commands.
WriteGroup ==
  \E g \in queue :
    /\ printer = "printing" /\ Ready(g)
    /\ queue' = queue \ {g} /\ next' = next + 1
    /\ \/ out' = out \o [k \in 1..Report[g] |-> g] /\ UNCHANGED printer
       \/ CanFailWrite /\ Report[g] > 0 /\ printer' = "failed" /\ UNCHANGED out
    /\ UNCHANGED <<malformed, at, readError, busy, channel>>

AllEnded == \A t \in Threads : busy[t] = Ended

\* Mutated form of Disconnected: the printing thread has kept a sender.
SenderKept == FALSE

Disconnected == channel = <<>> /\ AllEnded

\* recv fails: the senders are gone and the channel is empty.
End ==
  /\ printer = "printing" /\ Disconnected
  /\ ~\E g \in queue : Ready(g)
  /\ printer' = "ended"
  /\ UNCHANGED <<malformed, at, readError, busy, channel, queue, next, out>>

-----------------------------------------------------------------------------

Stopped == printer = "aborted" \/ (AllEnded /\ printer \in {"ended", "failed"})

Next == (\E t \in Threads : Pull(t) \/ Leave(t) \/ Send(t)) \/ Receive \/ WriteGroup \/ End

\* Every thread goes on; the thread that prints too.
Fairness ==
  /\ \A t \in Threads : WF_vars(Pull(t) \/ Leave(t) \/ Send(t))
  /\ WF_vars(Receive \/ WriteGroup \/ End)

Spec == Init /\ [][Next]_vars /\ Fairness

-----------------------------------------------------------------------------
(* Properties.                                                             *)

TypeOK ==
  /\ malformed \in 1..Ended /\ at \in 1..Ended /\ readError \in BOOLEAN
  /\ busy \in [Threads -> 0..Ended]
  /\ channel \in Seq(Groups) /\ queue \subseteq Groups /\ next \in 1..Ended
  /\ out \in Seq(Groups)
  /\ printer \in {"printing", "ended", "failed", "aborted"}

\* The lines of the script of the groups up to g.
ScriptUpTo(g) == FlattenSeq([h \in 1..g |-> [k \in 1..Report[h] |-> h]])

\* "We want to print the commands in the same deterministic order as the groups
\* in the input file", however the threads race.
InReportOrder == IsPrefix(out, ScriptUpTo(Len(Report)))

\* A script that ends has the commands of every group that could be read, also of
\* those after a group that was skipped.  A malformed group stops the report:
\* nothing of it or after it is ever printed, and run_dedupe ends with the error.
ScriptComplete ==
  /\ \A k \in 1..Len(out) : out[k] < malformed
  /\ printer = "ended" => out = ScriptUpTo(malformed - 1) /\ (readError <=> malformed \in Groups)

\* The command ends.
Ends == <>Stopped

=============================================================================
