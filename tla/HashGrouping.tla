---------------------------- MODULE HashGrouping -----------------------------
(***************************************************************************)
(* What rehash in src/fclones/src/group.rs promises, without threads,      *)
(* pools, semaphores or a channel: each file given to it is settled once,  *)
(* either with a length and a hash some link of the same file hashed to,   *)
(* or, when reading failed, by being left out together with other links of *)
(* the same file; it returns when every file is settled, and nothing moves *)
(* afterwards.                                                             *)
(***************************************************************************)
CONSTANTS Files,           \* the files to hash
          Id,              \* Id[f]: inode and device, equal for hard links
          Keys,            \* Keys[f]: the lengths and hashes f can settle with
          Unsettled,       \* the fate of a file not decided yet
          Unreadable       \* the fate of a file left out

VARIABLES fate, returned

Init ==
  /\ fate = [f \in Files |-> Unsettled]
  /\ returned = FALSE

Settle(f) ==
  /\ ~returned
  /\ fate[f] = Unsettled
  /\ \E k \in Keys[f] : fate' = [fate EXCEPT ![f] = k]
  /\ UNCHANGED returned

LeaveOut(S) ==
  /\ ~returned
  /\ \A f \in S : fate[f] = Unsettled
  /\ \A f, g \in S : Id[f] = Id[g]
  /\ fate' = [f \in Files |-> IF f \in S THEN Unreadable ELSE fate[f]]
  /\ UNCHANGED returned

Return ==
  /\ ~returned
  /\ \A f \in Files : fate[f] # Unsettled
  /\ returned' = TRUE
  /\ UNCHANGED fate

Next ==
  \/ \E f \in Files : Settle(f)
  \/ \E S \in SUBSET Files : LeaveOut(S)
  \/ Return

Spec == Init /\ [][Next]_<<fate, returned>>

=============================================================================
