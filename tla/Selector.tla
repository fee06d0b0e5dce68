------------------------------ MODULE Selector -------------------------------
(***************************************************************************)
(* Which paths the --name, --path and --exclude options select, and into   *)
(* which directories the walk descends for them: src/fclones/src/          *)
(* selector.rs, with pattern.rs and regex.rs.                              *)
(*                                                                         *)
(* A pattern is [glob, ignoreCase].  Its glob is a sequence of characters, *)
(* that stand for themselves, and "?", "*" and "**" under the names below. *)
(* "s" is the one letter with a capital.  Alternatives, sets of characters *)
(* and regular expressions of the user's own are left out; so are globs    *)
(* that end in "$", which Pattern::regex_with does not get through.        *)
(***************************************************************************)
EXTENDS PathText

AnyChar == "any char"   \* ?
AnyName == "any name"   \* *
AnyPath == "any path"   \* **

Letters == {"a", "b", "c", "d", "e", "f", "g", "h", "i", "j", "k", "l", "m", "n", "o", "p",
            "q", "r", "s", "t", "u", "v", "w", "x", "y", "z", "S"}
Separator == "/"
Meta == {Backslash, ".", "+", "*", "?", "(", ")", "|", "[", "]", "{", "}", "^", "$", "#", "&", "-"}

Lower(c) == IF c = "S" THEN "s" ELSE c
Cased(ignoreCase, text) ==
  IF ignoreCase THEN [i \in DOMAIN text |-> Lower(text[i])] ELSE text

-----------------------------------------------------------------------------
(* Patterns.                                                               *)

\* Pattern::glob and glob_with
Glob(tokens) == [glob |-> tokens, ignoreCase |-> FALSE]
GlobIgnoringCase(tokens) == [glob |-> tokens, ignoreCase |-> TRUE]

\* glob_to_regex, without the anchors
glob_to_regex(glob) ==
  FlattenSeq([i \in DOMAIN glob |->
    CASE glob[i] = AnyChar -> <<"[", "^", Separator, "]">>
      [] glob[i] = AnyName -> <<"[", "^", Separator, "]", "*">>
      [] glob[i] = AnyPath -> <<".", "*">>
      [] glob[i] \in Meta  -> <<Backslash, glob[i]>>
      [] OTHER             -> <<glob[i]>>])

\* The anchored expression, but for the ^ at its start that is skipped.
anchored_regex(glob) == Append(glob_to_regex(glob), "$")

\* Whether the whole text matches: with[i, j] for what is left after i tokens and
\* j characters.
FullMatch(glob, text) ==
  LET with[i \in 0..Len(glob), j \in 0..Len(text)] ==
        IF i = Len(glob) THEN j = Len(text)
        ELSE LET more == j < Len(text)
                 token == glob[i + 1]
             IN CASE token = AnyPath -> with[i + 1, j] \/ (more /\ with[i, j + 1])
                  [] token = AnyName ->
                       with[i + 1, j] \/ (more /\ text[j + 1] # Separator /\ with[i, j + 1])
                  [] token = AnyChar -> more /\ text[j + 1] # Separator /\ with[i + 1, j + 1]
                  [] OTHER -> more /\ text[j + 1] = token /\ with[i + 1, j + 1]
  IN with[0, 0]

MatchesText(p, text) == FullMatch(Cased(p.ignoreCase, p.glob), Cased(p.ignoreCase, text))

\* prefix_regex has no anchor at its end.
matches_prefix(p, text) == \E n \in 0..Len(text) : MatchesText(p, SubSeq(text, 1, n))

BytesOf(text) == FoldLeft(LAMBDA n, c : n + Bytes(c), 0, text)
Take(text, n) == SubSeq(text, 1, Min({n, Len(text)}))

Magic == {".", "^", "$", "(", ")", "{", "}", "[", "]", "|", "+"}

\* Mutated form of get_fixed_prefix: a wildcard does not end the prefix.
WholeSource(regex) == SelectSeq(regex, LAMBDA c : c # Backslash)

\* get_fixed_prefix: once set, `escape` stays set, and even the $ at the end belongs
\* to the prefix.  What * and ? may leave out is taken off by a number of bytes.
get_fixed_prefix(regex) ==
  LET Scan(st, c) ==
        CASE st.over -> st
          [] c \in Magic /\ ~st.escape -> [st EXCEPT !.over = TRUE]
          [] c \in {"?", "*"} /\ ~st.escape ->
               [st EXCEPT !.over = TRUE, !.prefix = Take(@, BytesOf(@) - 1)]
          [] c \in Letters /\ st.escape -> [st EXCEPT !.over = TRUE]
          [] c = Backslash -> [st EXCEPT !.escape = TRUE]
          [] OTHER -> [st EXCEPT !.prefix = Append(@, c)]
  IN FoldLeft(Scan, [prefix |-> <<>>, escape |-> FALSE, over |-> FALSE], regex).prefix

\* is_partial_match: as many characters are compared as there are bytes.
matches_partially(p, text) ==
  LET prefix == Cased(p.ignoreCase, get_fixed_prefix(anchored_regex(p.glob)))
      length == Min({BytesOf(text), BytesOf(prefix)})
  IN IsPrefix(Cased(p.ignoreCase, Take(text, length)), prefix)

-----------------------------------------------------------------------------
(* PathSelector: [baseDir, names, paths, excluded], of sets of patterns.   *)

append_sep(text) == IF text # <<>> /\ Last(text) = Separator THEN text ELSE Append(text, Separator)

\* Pattern::is_absolute of the selector
IsAbsolute(p) == p.glob # <<>> /\ Head(p.glob) \in {AnyPath, Separator}

\* A sum of patterns is compiled with the default options.
abs_pattern(baseDir, p) ==
  IF IsAbsolute(p) THEN p ELSE Glob(append_sep(TextOf(baseDir)) \o p.glob)

AbsPatterns(sel, patterns) == {abs_pattern(sel.baseDir, p) : p \in patterns}

\* path.rs: file_name_cstr
NameOf(path) == IF Last(path) \in {Root, CurDir, ParentDir} THEN <<>> ELSE Last(path)

\* Mutated form of matches_full_path: the excluded patterns are left to matches_dir.
MatchesIncluded(sel, path) ==
  /\ sel.names = {} \/ \E p \in sel.names : MatchesText(p, NameOf(path))
  /\ sel.paths = {} \/ \E p \in AbsPatterns(sel, sel.paths) : MatchesText(p, TextOf(path))

\* The path is absolute.
matches_full_path(sel, path) ==
  /\ sel.names = {} \/ \E p \in sel.names : MatchesText(p, NameOf(path))
  /\ sel.paths = {} \/ \E p \in AbsPatterns(sel, sel.paths) : MatchesText(p, TextOf(path))
  /\ \A p \in AbsPatterns(sel, sel.excluded) : ~MatchesText(p, TextOf(path))

matches_dir(sel, path) ==
  LET text == append_sep(TextOf(path))
  IN /\ sel.paths = {} \/ \E p \in AbsPatterns(sel, sel.paths) : matches_partially(p, text)
     /\ \A p \in AbsPatterns(sel, sel.excluded) : ~matches_prefix(p, text)

=============================================================================
