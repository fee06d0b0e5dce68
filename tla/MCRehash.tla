------------------------------ MODULE MCRehash -------------------------------
(***************************************************************************)
(* Two devices.  On the HDD a file with two links and one more file, one   *)
(* thread, one task in flight: the semaphore blocks the device thread.  On *)
(* the SSD two files, two threads: tasks overlap.  One open-files permit   *)
(* is shared by all, fewer than the workers ask for.                       *)
(***************************************************************************)
EXTENDS Rehash

CONSTANTS a1, a2, b, c, e, p, hdd, ssd

LOCAL D == INSTANCE Devices

MCFiles == {a1, a2, b, c, e, p}
MCDevices == {hdd, ssd}
MCDevice == [f \in MCFiles |-> IF f \in {c, e, p} THEN ssd ELSE hdd]
MCId == [f \in MCFiles |->
           CASE f \in {a1, a2} -> 1 [] f = b -> 2 [] f = c -> 3 [] f = e -> 4
             [] f = p -> 5]
\* On the HDD, locations are physical and the links come before b.
MCLocation == [f \in MCFiles |-> MCId[f]]
\* The pools for random access, with --threads ssd:2,1 (the disk has no entry of its
\* own and gets the default for its kind).
MCThreads == [d \in MCDevices |-> IF d = hdd THEN 1 ELSE 2]
MCDisk == [d \in MCDevices |-> [name |-> d, kind |-> IF d = hdd THEN "hdd" ELSE "ssd"]]
MCPools == [dev |-> <<>>, kind |-> [ssd |-> [random |-> 2, sequential |-> 1]]]
ASSUME MCPoolSizes ==
  \A d \in MCDevices : MCThreads[d] = D!get_parallelism(MCPools, MCDisk[d], 4).random

\* Files of equal size to hash, and a group of one file that is not hashed.
MCToHash == {[len |-> 7, hash |-> 0, files |-> {a1, a2, b, c, e}]}
MCGroups == MCToHash \cup {[len |-> 9, hash |-> 0, files |-> {p}]}

\* The links, b and c have the same contents, e differs; the file with the two
\* links is modified meanwhile, so a read of it may see the old or the new bytes.
MCHashFn == [f \in MCFiles |->
               IF f \in {a1, a2} THEN [len : {7}, hash : {1, 3}]
               ELSE [len : {7}, hash : {IF f = e THEN 2 ELSE 1}]]
MCCanFail == {a1, a2}

-----------------------------------------------------------------------------
(* The transform stage: hash_fn also replaces the length, 7 becomes 3.     *)
MCTransformFn == [f \in MCFiles |-> {[len |-> 3, hash |-> 1]}]
=============================================================================
