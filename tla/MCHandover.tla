------------------------------ MODULE MCHandover -----------------------------
(***************************************************************************)
(* Directories and files whose names need quotes or escapes.  A            *)
(* millisecond has two ticks.                                              *)
(***************************************************************************)
EXTENDS Handover

w == <<Root, <<"w">>>>
dx == <<"d", Blank, "x">>        \* two directories, ...
eq == <<"e", Quote, Newline>>
bs == <<"b", Backslash>>
file == <<"p">>                  \* ... and files, one of which has the start of
longer == <<"p", "*">>           \* another one's name

MCCwd == w
MCCharacters == STRING

Command(options) == <<<<"fclones">>, <<"group">>>> \o options
In(dir, name) == w \o <<dir, name>>

MCDefaultOwn == [rfOver |-> NoCount, roots |-> <<>>, matchLinks |-> FALSE]
Distinct(files) == [p \in files |-> p]
AllOf(files, n) == [p \in files |-> n]

\* Two isolated roots, with two files of a class in one of them.
MCIsolated ==
  LET c1 == <<In(dx, file), In(dx, longer), In(eq, file)>>
      c2 == <<In(dx, <<"q">>), In(eq, <<"q">>)>>
      files == ToSet(c1 \o c2)
  IN [words |-> Command(<<Flags.isolate, dx, eq>>), format |-> "default", own |-> MCDefaultOwn,
      classes |-> << [len |-> 2, files |-> c1], [len |-> 1, files |-> c2] >>,
      inode |-> Distinct(files),
      len |-> [p \in files |-> IF p \in ToSet(c1) THEN 2 ELSE 1]]

\* The same in JSON, from a base directory with a backslash.
MCJson ==
  LET base == w \o <<bs>>
      c1 == <<base \o <<dx, file>>, base \o <<dx, longer>>, base \o <<eq, file>>>>
      files == ToSet(c1)
  IN [MCIsolated EXCEPT
        !.words = Command(<<Flags.isolate, Valued.baseDir, bs, dx, eq>>), !.format = "json",
        !.classes = << [len |-> 2, files |-> c1] >>,
        !.inode = Distinct(files), !.len = AllOf(files, 2)]

\* Four replicas of which two may stay, from the parent of a base directory.
MCOver ==
  LET c1 == <<In(dx, file), In(dx, longer), In(eq, file), In(eq, <<"q">>)>>
  IN [MCIsolated EXCEPT
        !.words = Command(<<Valued.rfOver, <<"2">>, Valued.baseDir, ParentDir, <<"w">>>>),
        !.classes = << [len |-> 1, files |-> c1] >>,
        !.inode = Distinct(ToSet(c1)), !.len = AllOf(ToSet(c1), 1)]

\* Two links to one file and a copy, counted as replicas.
MCLinked ==
  LET c1 == <<In(dx, file), In(dx, longer), In(eq, file)>>
  IN [MCOver EXCEPT
        !.words = Command(<<Flags.matchLinks, dx, eq>>),
        !.classes = << [len |-> 1, files |-> c1] >>,
        !.inode = [p \in ToSet(c1) |-> IF p = c1[2] THEN c1[1] ELSE p],
        !.len = AllOf(ToSet(c1), 1)]

\* A transform that prints one byte of files of any length; and a search for files
\* of fewer than three replicas.
MCTransformed ==
  [MCLinked EXCEPT !.words = Command(<<Valued.transform, <<"cat">>, <<"/">> \o <<"w">>>>),
                   !.inode = Distinct(DOMAIN @),
                   !.len = [p \in DOMAIN @ |-> Len(Last(p)) + 1]]
MCUnder == [MCIsolated EXCEPT !.words = Command(<<Valued.rfUnder, <<"3">>, dx, eq>>)]

\* Formats that are not read, and command lines that are refused.
MCFdupes == [MCLinked EXCEPT !.format = "fdupes"]
MCCsv == [MCLinked EXCEPT !.format = "csv"]
MCOneRoot == [MCIsolated EXCEPT !.words = Command(<<Flags.isolate, dx>>)]
MCNowhere == [MCIsolated EXCEPT !.words = Command(<<dx, bs>>)]

MCScenarios == <<MCIsolated, MCJson, MCOver, MCLinked, MCTransformed, MCUnder,
                 MCFdupes, MCCsv, MCOneRoot, MCNowhere>>

\* Command lines that show a difference between the code and what is said of it:
\* a transform with --rf-over,
MCTransformedOver ==
  <<[MCTransformed EXCEPT !.words = Command(<<Valued.rfOver, <<"2">>, Valued.transform, <<"cat">>, dx, eq>>)]>>
\* an argument with a character of two bytes before one with a quote,
MCWide ==
  LET c1 == <<In(<<"~">>, file), In(eq, file)>>
  IN <<[MCIsolated EXCEPT !.words = Command(<<<<"~">>, eq>>),
          !.classes = << [len |-> 1, files |-> c1] >>,
          !.inode = Distinct(ToSet(c1)), !.len = AllOf(ToSet(c1), 1)]>>
\* a text report from a base directory with a backslash,
MCBaseDir == <<[MCJson EXCEPT !.format = "default"]>>
\* ... or with a blank at the end of its name,
MCBaseDirBlank ==
  LET base == w \o <<<<"b", Blank>>>>
      c1 == <<base \o <<dx, file>>, base \o <<eq, file>>>>
  IN <<[MCIsolated EXCEPT
          !.words = Command(<<Flags.isolate, Valued.baseDir, Last(base), dx, eq>>),
          !.classes = << [len |-> 1, files |-> c1] >>,
          !.inode = Distinct(ToSet(c1)), !.len = AllOf(ToSet(c1), 1)]>>
\* links without isolated roots,
MCLinksUnmatched == <<[MCLinked EXCEPT !.words = Command(<<dx, eq>>)]>>
\* a name that ends with a blank,
MCTrailing ==
  LET c1 == <<In(dx, <<"p", Blank>>), In(eq, file)>>
  IN <<[MCIsolated EXCEPT !.words = Command(<<dx, eq>>),
          !.classes = << [len |-> 1, files |-> c1] >>,
          !.inode = Distinct(ToSet(c1)), !.len = AllOf(ToSet(c1), 1)]>>

\* a name that starts with the name of a file that is not a duplicate.
MCCut ==
  LET c1 == <<In(dx, <<"q">>), In(eq, longer)>>
      files == ToSet(c1) \cup {In(eq, file)}
  IN <<[MCIsolated EXCEPT !.classes = << [len |-> 1, files |-> c1] >>,
                          !.inode = Distinct(files), !.len = AllOf(files, 1)]>>

=============================================================================
