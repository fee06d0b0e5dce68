------------------------------- MODULE MCWalk --------------------------------
(***************************************************************************)
(* A tree r with a directory s and in it a mounted directory m, links that *)
(* lead back to r and on to s, to a file, to m and to nowhere, a hidden    *)
(* file and an ignored file.                                               *)
(***************************************************************************)
EXTENDS Walk

CONSTANTS r, s, m, mm, q, f, g, h, i, k, toRoot, toS, toFile, toM, toNone, disk, usb

MCPaths == {r, s, m, mm, f, g, h, i, k, q, toRoot, toS, toFile, toM, toNone}
MCKind == [p \in MCPaths |-> CASE p \in {r, s, m, mm} -> "dir"
                               [] p \in {f, g, h, i, k, q} -> "file" [] OTHER -> "link"]
MCTree == (r :> {s, f, h, toS}) @@ (s :> {m, g, i, toRoot, toFile, toM, toNone}) @@ (m :> {k})
          @@ (mm :> {q})
MCTarget == (toRoot :> r) @@ (toS :> s) @@ (toFile :> f) @@ (toM :> m) @@ (toNone :> "none")
MCDev == [p \in MCPaths |-> IF p \in {m, k, toM} THEN usb ELSE disk]
MCIgnoredBy == [d \in {r, s, m, mm} |-> IF d = s THEN {i} ELSE {}]

InR(name) == <<Root, <<"r">>, name>>
PathsWith(nameOfS) ==
  LET InS(name) == Append(InR(nameOfS), name) IN
  (r :> <<Root, <<"r">>>>) @@ (s :> InR(nameOfS)) @@ (f :> InR(<<"f">>))
  @@ (h :> InR(<<".", "h">>)) @@ (toS :> InR(<<"n", "s">>)) @@ (m :> InS(<<"m">>))
  @@ (g :> InS(<<"g">>)) @@ (i :> InS(<<"i">>)) @@ (k :> InS(<<"m">>) \o <<<<"k">>>>)
  @@ (toRoot :> InS(<<"n", "r">>)) @@ (toFile :> InS(<<"n", "f">>))
  @@ (toM :> InS(<<"n", "m">>)) @@ (toNone :> InS(<<"n", "n">>))
  @@ (mm :> InS(<<"m", "m">>)) @@ (q :> InS(<<"m", "m">>) \o <<<<"q">>>>)
MCPathOf == PathsWith(<<"s">>)
MCPathOfHyphen == PathsWith(<<"-">>)
MCPathOfWide == PathsWith(<<"~">>)

MCSelectAll == [baseDir |-> MCPathOf[r], names |-> {}, paths |-> {}, excluded |-> {}]

\* Links are followed, over cycles; one input path is inside of the other.
MCFollow ==
  [entries |-> [MCTree EXCEPT ![s] = @ \ {toFile, toNone}], roots |-> <<r, s>>, canFail |-> {toS},
   depth |-> 4, hidden |-> FALSE, followLinks |-> TRUE, reportLinks |-> FALSE,
   noIgnore |-> FALSE, oneFs |-> FALSE, selector |-> MCSelectAll]

\* Links to files are reported as files; directories and links are unreadable.
MCReport == [MCFollow EXCEPT !.entries = MCTree, !.roots = <<r>>,
                             !.canFail = {s, toFile, toNone}, !.depth = 1,
                             !.followLinks = FALSE, !.reportLinks = TRUE]

\* One file system only, with hidden and ignored files and links reported.
MCOneFs == [MCReport EXCEPT !.canFail = {toFile}, !.depth = 3, !.hidden = TRUE,
                            !.noIgnore = TRUE, !.oneFs = TRUE]

\* Files below of s, in the letter case of the disk or not, with a name of one
\* letter, but not g and those in m; m has a sibling that starts with its name.
MCSelect ==
  [MCFollow EXCEPT !.entries = [MCTree EXCEPT ![s] = {m, mm, g, toRoot, toM}], !.roots = <<r>>,
                   !.canFail = {},
                   !.selector = [baseDir |-> MCPathOf[r],
                                 names |-> {GlobIgnoringCase(<<AnyChar>>)},
                                 paths |-> {Glob(<<"s", "/", AnyPath>>)},
                                 excluded |-> {Glob(<<"s", "/", "m", "/", AnyPath>>),
                                               Glob(<<AnyPath, "/", "g">>)}]]

MCScenarios == <<MCFollow, MCReport, MCOneFs, MCSelect>>

\* Walks that show a difference between the code and what is said of it:
\* subdirectories with a depth of 1, links with a small depth, a mounted root.
MCShallow == <<[MCFollow EXCEPT !.canFail = {}, !.depth = 1, !.followLinks = FALSE]>>
MCShallowLinks == <<[MCFollow EXCEPT !.canFail = {}, !.depth = 1]>>
MCMounted == <<[MCFollow EXCEPT !.canFail = {}, !.roots = <<r, m>>, !.oneFs = TRUE]>>

\* Patterns that select less than they match, see the README.
MCPatterns(included, excluded) ==
  <<[MCSelect EXCEPT !.followLinks = FALSE,
                     !.selector = [MCSelectAll EXCEPT !.paths = included, !.excluded = excluded]]>>
MCExclude == MCPatterns({}, {Glob(<<"s", "/", "m">>)})
MCIgnoreCase == MCPatterns({GlobIgnoringCase(<<"S", "/", AnyPath>>)}, {})
MCHyphen == MCPatterns({Glob(<<"-", "/", AnyPath>>)}, {})
MCWide == MCPatterns({Glob(<<"~", "/", AnyPath>>)}, {})

\* An input path that is a file, selected by its very name.
MCPathOfLiteral == [MCPathOf EXCEPT ![f] = InR(<<"-">>)]
MCLiteral ==
  <<[MCSelect EXCEPT !.roots = <<f>>, !.selector = [MCSelectAll EXCEPT !.paths = {Glob(<<"-">>)}]]>>
=============================================================================
