------------------------------ MODULE MCDedupe -------------------------------
(***************************************************************************)
(* Seven paths: a1 and a2 are links of one file; c is on another device; f *)
(* is younger than b, which is younger than the others.                    *)
(***************************************************************************)
EXTENDS ShellScript

CONSTANTS a1, a2, b, c, d, e, f, x, y, fresh, garbage, foreign, r1, r2, ssd, hdd

LOCAL D == INSTANCE Devices

MCPaths == {a1, a2, b, c, d, e, f}
MCLength == [z \in {x, y, fresh, garbage, foreign} |-> IF z = y THEN 2 ELSE 1]
MCDevice == [p \in MCPaths |-> IF p = c THEN hdd ELSE ssd]
MCSameMount == {a1, e}
\* They are found from the disks: two mount points of one disk, and a directory to
\* move to that is below of /m.
MCDisks == <<[name |-> ssd, kind |-> "ssd", mountPoint |-> <<<<"/">>>>],
             [name |-> ssd, kind |-> "ssd", mountPoint |-> <<<<"/">>, <<"m">>>>],
             [name |-> hdd, kind |-> "hdd", mountPoint |-> <<<<"/">>, <<"h">>>>]>>
MCDirOf(p) == <<<<"/">>, CASE p \in {a1, e} -> <<"m">> [] p = c -> <<"h">> [] OTHER -> <<"x">>>>
MCTarget == <<<<"/">>, <<"m">>, <<"t">>>>
ASSUME MCPlacement ==
  /\ \A p \in MCPaths : D!get_by_path(MCDisks, MCDirOf(p)).name = MCDevice[p]
  /\ MCSameMount = {p \in MCPaths : D!are_on_same_mount(MCDisks, MCDirOf(p), MCTarget)}
MCStamp == [p \in MCPaths |-> CASE p = f -> 3 [] p = b -> 2 [] OTHER -> 1]

\* Two groups, of which one has links, copies and a file on another device; any
\* operation; e may be modified at any time, which changes its length.
MCPlain ==
  [dir0 |-> [p \in MCPaths |-> FileEntry(IF p = a2 THEN a1 ELSE p)],
   data0 |-> [p \in MCPaths \ {a2} |-> IF p \in {d, e} THEN y ELSE x],
   report |-> << [files |-> <<b, f, a1, a2, c>>, len |-> 1], [files |-> <<d, e>>, len |-> 2] >>,
   ops |-> {"remove", "softlink", "hardlink", "reflink", "move"},
   shouldLock |-> TRUE, noCheckSize |-> FALSE, dryRun |-> FALSE,
   unplaced |-> {}, failingLines |-> FALSE,
   rewritable |-> {e}, lockable |-> {}, lateLocks |-> FALSE,
   occupiable |-> {}, lateFiles |-> FALSE,
   roots |-> <<>>, underRoot |-> [p \in MCPaths |-> {}], matchLinks |-> FALSE,
   rfOver |-> 1, priority |-> <<>>, keepMatched |-> {},
   namePatterns |-> FALSE, pathPatterns |-> FALSE, nameMatched |-> {}, pathMatched |-> {}]

\* A file is modified that keeps its length, and that would be kept.
MCFirstModified == [MCPlain EXCEPT !.ops = {"remove", "hardlink"}, !.rewritable = {b}]

\* Two isolated roots with links across them: r1 holds a1 and b, r2 holds a2 and
\* c.  A keep pattern matches b, so all of r1 stays.  Others hold locks.
MCRoots ==
  [MCPlain EXCEPT
     !.data0 = [p \in MCPaths \ {a2} |-> x],
     !.report = << [files |-> <<b, f, a1, a2, c, d, e>>, len |-> 1] >>,
     !.ops = {"remove", "softlink"}, !.rewritable = {}, !.lockable = {c, f},
     !.roots = <<r1, r2>>,
     !.underRoot = [p \in MCPaths |-> CASE p \in {a1, b} -> {r1} [] p \in {a2, c} -> {r2}
                                        [] OTHER -> {}],
     !.rfOver = 2, !.priority = <<"top">>, !.keepMatched = {b},
     !.namePatterns = TRUE, !.pathPatterns = TRUE,
     !.nameMatched = {a1, c, f, d, e}, !.pathMatched = {a2}]

\* Two priorities with ties, for a group of unrelated files.
MCPriorities ==
  [MCPlain EXCEPT !.report = << [files |-> <<b, f, a1, c>>, len |-> 1] >>,
                  !.rewritable = {b}, !.rfOver = 2, !.priority = <<"oldest", "top">>]

\* Files that are to be moved to where other files may be.
MCTargets == [MCPlain EXCEPT !.ops = {"move"}, !.rewritable = {}, !.occupiable = {e, f}]

\* The script of a dry run, which a shell runs later.
MCDry == [MCPlain EXCEPT !.dryRun = TRUE, !.rewritable = {}]

MCScenarios == <<MCPlain, MCFirstModified, MCRoots, MCPriorities, MCTargets, MCDry>>

\* Scenarios that show a difference between the code and what is said of it:
\* a lock taken while a command runs,
MCLateLock == <<[MCPlain EXCEPT !.ops = {"remove"}, !.lockable = {c}, !.lateLocks = TRUE]>>
\* a priority that keeps the order as the first option,
MCBottomFirst == <<[MCPriorities EXCEPT !.priority = <<"bottom", "newest">>]>>
\* patterns of both kinds,
MCPatterns == <<[MCPlain EXCEPT !.namePatterns = TRUE, !.nameMatched = {a1, a2},
                                !.pathPatterns = TRUE, !.pathMatched = {c}]>>
\* a symbolic link to a1 under another root,
MCLinks ==
  <<[MCPlain EXCEPT
       !.dir0 = [@ EXCEPT ![f] = LinkEntry(a1)],
       !.data0 = [p \in MCPaths \ {a2, f} |-> IF p \in {d, e} THEN y ELSE x],
       !.report = << [files |-> <<f, a1>>, len |-> 1] >>,
       !.roots = <<r1, r2>>,
       !.underRoot = [p \in MCPaths |-> CASE p = f -> {r1} [] p = a1 -> {r2} [] OTHER -> {}]]>>
\* a file modified on another device than that of its duplicates,
MCFarWrite == <<[MCPlain EXCEPT !.ops = {"hardlink"}, !.rewritable = {c}]>>
\* and one modified once its group was divided.
MCLateWrite == <<[MCPlain EXCEPT !.ops = {"remove"}, !.rewritable = {f}]>>
\* A file created where another one is moved to, after the look; and one that the
\* script of a dry run moves a file over.
MCLateFile == <<[MCTargets EXCEPT !.lateFiles = TRUE]>>
MCOverwriting == <<[MCTargets EXCEPT !.dryRun = TRUE]>>
\* A script that moves to a directory that does not exist, and one with a line
\* that fails.
MCNoDirectory == <<[MCDry EXCEPT !.ops = {"move"}, !.unplaced = {To(p) : p \in MCPaths}]>>
MCFailingLine == <<[MCDry EXCEPT !.ops = {"hardlink", "softlink"}, !.failingLines = TRUE]>>
=============================================================================
