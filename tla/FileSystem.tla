----------------------------- MODULE FileSystem ------------------------------
(***************************************************************************)
(* The operating system's file system as src/fclones/src/dedupe.rs and     *)
(* src/fclones/src/reflink.rs use it: directory entries, inodes with their *)
(* contents, and the calls that change them.  A call has a condition (it   *)
(* fails otherwise) and an effect.                                         *)
(***************************************************************************)
EXTENDS Naturals

CONSTANT
  Hops          \* a longer chain of symbolic links does not resolve

VARIABLES
  dir,          \* dir[n]: the entry of name n, for every name in use
  data          \* data[i]: the contents of inode i

fsVars == <<dir, data>>

NoEntry == [kind |-> "none"]
FileEntry(i) == [kind |-> "file", inode |-> i]
LinkEntry(n) == [kind |-> "symlink", to |-> n]

\* The name that following symbolic links from n ends at.
EndOf(d, n) ==
  LET hop[k \in 0..Hops] ==
        IF k = 0 THEN n
        ELSE IF d[hop[k - 1]].kind = "symlink" THEN d[hop[k - 1]].to ELSE hop[k - 1]
  IN  hop[Hops]

Resolves(d, n) == d[EndOf(d, n)].kind = "file"
InodeOf(d, n) == d[EndOf(d, n)].inode
Reads(n, c) == Resolves(dir, n) /\ data[InodeOf(dir, n)] = c

Exists(n) == dir[n] # NoEntry

Unlink(n) == dir' = [dir EXCEPT ![n] = NoEntry] /\ UNCHANGED data

\* rename(2) replaces n; it does nothing when both names are links to one inode.
Rename(m, n) ==
  /\ dir' = IF dir[m] = dir[n] THEN dir ELSE [dir EXCEPT ![n] = dir[m], ![m] = NoEntry]
  /\ UNCHANGED data

\* symlink(2) and link(2) fail when the new name exists; link(2) does not follow.
Symlink(to, n) == dir' = [dir EXCEPT ![n] = LinkEntry(to)] /\ UNCHANGED data
HardLink(m, n) == dir' = [dir EXCEPT ![n] = dir[m]] /\ UNCHANGED data

\* Open n for writing, creating it with an inode of its own, and store c.
Store(n, c) ==
  IF Resolves(dir, n)
    THEN data' = [data EXCEPT ![InodeOf(dir, n)] = c] /\ UNCHANGED dir
    ELSE /\ dir' = [dir EXCEPT ![n] = FileEntry(n)]
         /\ data' = [data EXCEPT ![n] = c]

=============================================================================
