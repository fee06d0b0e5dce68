----------------------------- MODULE ShellScript -----------------------------
(***************************************************************************)
(* The script that --dry-run prints, run by a shell: `to_shell_str` of     *)
(* src/fclones/src/dedupe.rs.  Module Script is about how it is printed.   *)
(*                                                                         *)
(* The lines run one after the other, and a line that fails stops nothing: *)
(* the script neither joins them by && nor sets -e.                        *)
(***************************************************************************)
EXTENDS Dedupe

\* The names in directories that do not exist.  Running the commands makes these
\* directories, the script does not.
Unplaced == Scenario.unplaced
FailingLines == Scenario.failingLines   \* whether lines fail without a reason in the model

\* What to_shell_str says of the command that drops p: [cmd, from, to].
Line(cmd, from, to) == [cmd |-> cmd, from |-> from, to |-> to]
Rm(n) == Line("rm", n, n)

\* Mutated form of to_shell_str: the temporary file goes before it was replaced.
RemovingEarly(p) == <<Line("mv", p, Tmp(p)), Rm(Tmp(p)), Line("ln -s", target[p], p)>>

to_shell_str(p) ==
  CASE op = "remove"   -> <<Rm(p)>>
    [] op = "softlink" -> <<Line("mv", p, Tmp(p)), Line("ln -s", target[p], p), Rm(Tmp(p))>>
    [] op = "hardlink" -> <<Line("mv", p, Tmp(p)), Line("ln", target[p], p), Rm(Tmp(p))>>
    [] op = "reflink"  -> <<Line("mv", p, Tmp(p)), Line("cp", target[p], p), Rm(Tmp(p))>>
    [] op = "move"     -> IF p \in SameMount THEN <<Line("mv", p, To(p))>>
                          ELSE <<Line("cp", p, To(p)), Rm(p)>>

\* The shell's tools.
Succeeds(line) ==
  CASE line.cmd = "rm"    -> Exists(line.from)
    [] line.cmd = "mv"    -> Exists(line.from) /\ line.to \notin Unplaced
    [] line.cmd = "cp"    -> Resolves(dir, line.from) /\ line.to \notin Unplaced
    [] line.cmd = "ln"    -> Exists(line.from) /\ ~Exists(line.to)
    [] line.cmd = "ln -s" -> ~Exists(line.to)

\* A copy gets an inode of its own.
Copied(m, n) ==
  /\ dir' = [dir EXCEPT ![n] = FileEntry(Tmp(n))]
  /\ data' = [data EXCEPT ![Tmp(n)] = data[InodeOf(dir, m)]]

Effect(line) ==
  CASE line.cmd = "rm"    -> Unlink(line.from)
    [] line.cmd = "mv"    -> Rename(line.from, line.to)
    [] line.cmd = "cp"    -> IF line.to \in Paths THEN Copied(line.from, line.to)
                             ELSE Store(line.to, data[InodeOf(dir, line.from)])
    [] line.cmd = "ln"    -> HardLink(line.from, line.to)
    [] line.cmd = "ln -s" -> Symlink(line.from, line.to)

\* The script is printed as a whole, in the order of the report.
Turn(p) ==
  /\ DryRun /\ prepared = 1..Len(Report)
  /\ \A q \in Paths \ {p} : pc[q] \in Ended \cup {"lock"}
  /\ \A g, h \in 1..Len(Report) :
       p \in Members(g) /\ h < g => \A q \in Members(h) : pc[q] \in Ended

\* The shell goes on to the next line of the command whatever became of this one.
RunLine(p, n) ==
  LET lines == to_shell_str(p)
      can == Succeeds(lines[n])
  IN /\ pc[p] = LineStages[n] /\ n <= Len(lines)
     /\ Turn(p)
     /\ \/ can /\ Effect(lines[n]) /\ UNCHANGED faults
        \/ (can => FailingLines) /\ Fails(can) /\ UNCHANGED fsVars
     /\ Goto(p, IF n = Len(lines) THEN "done" ELSE LineStages[n + 1])
     /\ UNCHANGED <<worldVars, planVars>>

ScriptNext == Next \/ \E p \in Paths, n \in DOMAIN LineStages : RunLine(p, n)

ScriptSpec == Init /\ [][ScriptNext]_vars

=============================================================================
