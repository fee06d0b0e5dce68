----------------------------- MODULE GroupConfig -----------------------------
(***************************************************************************)
(* The options of `fclones group` and what they mean: GroupConfig of       *)
(* src/fclones/src/config.rs.                                              *)
(*                                                                         *)
(* A command line is a sequence of words, a word is a text.  The name of   *)
(* an option, a count and a program are texts of one character.            *)
(***************************************************************************)
EXTENDS PathText

NoCount == -1
MaxCount == 99       \* stands for usize::MAX
Counts == 0..3       \* bound: the counts that are given

Flags == [isolate |-> <<"--isolate">>, matchLinks |-> <<"--match-links">>,
          unique |-> <<"--unique">>]
Valued == [rfOver |-> <<"--rf-over">>, rfUnder |-> <<"--rf-under">>,
           transform |-> <<"--transform">>, baseDir |-> <<"--base-dir">>]

Defaults ==
  [isolate |-> FALSE, matchLinks |-> FALSE, unique |-> FALSE, transform |-> FALSE,
   rfOver |-> NoCount, rfUnder |-> NoCount, baseDir |-> <<CurDir>>, paths |-> <<>>]

\* A word for clap: the value of the option before it, a flag, an option, or a path.
\* A count that is none is an error.
TakeWord(done, word) ==
  CASE done = Failed -> Failed
    [] done # Failed /\ done.option \in {"rfOver", "rfUnder"} ->
         IF \E n \in Counts : <<ToString(n)>> = word
           THEN [config |-> [done.config EXCEPT ![done.option] =
                               CHOOSE n \in Counts : <<ToString(n)>> = word],
                 option |-> ""]
           ELSE Failed
    [] done # Failed /\ done.option = "transform" ->
         [config |-> [done.config EXCEPT !.transform = TRUE], option |-> ""]
    [] done # Failed /\ done.option = "baseDir" ->
         [config |-> [done.config EXCEPT !.baseDir = From(word)], option |-> ""]
    [] OTHER ->
         CASE \E o \in DOMAIN Flags : Flags[o] = word ->
                [done EXCEPT !.config[CHOOSE o \in DOMAIN Flags : Flags[o] = word] = TRUE]
           [] \E o \in DOMAIN Valued : Valued[o] = word ->
                [done EXCEPT !.option = CHOOSE o \in DOMAIN Valued : Valued[o] = word]
           [] OTHER -> [done EXCEPT !.config.paths = Append(@, From(word))]

\* Words start with the program and the subcommand.
try_parse_from(words) ==
  LET taken[n \in 0..Len(words)] ==
        IF n < 3 THEN [config |-> Defaults, option |-> ""] ELSE TakeWord(taken[n - 1], words[n])
      end == taken[Len(words)]
  IN IF end = Failed \/ (end # Failed /\ end.option # "") THEN Failed ELSE end.config

-----------------------------------------------------------------------------

\* Mutated form of rf_over: the option, or its default.
RfOverGiven(c) == IF c.rfOver = NoCount THEN 1 ELSE c.rfOver

rf_over(c) ==
  IF c.transform \/ c.rfUnder # NoCount \/ c.unique THEN 0
  ELSE IF c.rfOver = NoCount THEN 1 ELSE c.rfOver

rf_under(c) == IF c.unique THEN 2 ELSE IF c.rfUnder = NoCount THEN MaxCount ELSE c.rfUnder

\* validate
Valid(c) ==
  c.isolate =>
    /\ Len(c.paths) > rf_over(c)
    /\ c.rfUnder # NoCount \/ c.unique => Len(c.paths) >= rf_under(c)

\* resolve_base_dir, for a directory that exists.
resolve_base_dir(c, cwd) == [c EXCEPT !.baseDir = canonicalize(resolve(cwd, @))]

input_paths(c) == [i \in 1..Len(c.paths) |-> resolve(c.baseDir, c.paths[i])]

\* The number of the first root that is a prefix of p, or 0.
RootOf(roots, p) == SelectInSeq(roots, LAMBDA r : is_prefix_of(r, p))

\* group_filter, for files with the given ids.
group_filter(c, id) ==
  LET roots == IF c.isolate THEN input_paths(c) ELSE <<>>
      under == c.unique \/ c.rfUnder # NoCount
  IN [under |-> under, rf |-> IF under THEN rf_under(c) ELSE rf_over(c),
      rootCount |-> Len(roots),
      rootOf |-> [p \in DOMAIN id |-> RootOf(roots, p)],
      key |-> [p \in DOMAIN id |-> IF c.matchLinks THEN p ELSE id[p]]]

=============================================================================
