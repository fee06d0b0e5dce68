---------------------------- MODULE MCGroupStages ----------------------------
(***************************************************************************)
(* Files of up to five blocks on an SSD and a hard disk.  A prefix is one  *)
(* block, at most one (SSD) or three (HDD); a suffix of as much is hashed  *)
(* from three (SSD) or four (HDD) blocks on.  In fclones these figures are *)
(* 4 KiB, 4 or 16 KiB, and 64 KiB or 64 MiB.                               *)
(***************************************************************************)
EXTENDS GroupStages

CONSTANTS a, l, b, c, ssd, hdd

\* Path a is yielded twice, l is another link of a.
MCEntries == {"a", "a again", "l", "b", "c"}
MCPath == [e \in MCEntries |->
             CASE e = "l" -> l [] e = "b" -> b [] e = "c" -> c [] OTHER -> a]
MCPaths == {a, l, b, c}
MCDevice == [p \in MCPaths |-> IF p = c THEN hdd ELSE ssd]
MCAllSsd == [p \in MCPaths |-> ssd]
MCMinPrefix == [d \in {ssd, hdd} |-> 1]
MCMaxPrefix == [d \in {ssd, hdd} |-> IF d = ssd THEN 1 ELSE 3]
MCSuffixLen == MCMaxPrefix
MCSuffixThreshold == [d \in {ssd, hdd} |-> IF d = ssd THEN 3 ELSE 4]
MCNoRoots == [p \in MCPaths |-> 0]
MCRoots == [p \in MCPaths |-> IF p \in {a, b} THEN 1 ELSE 0]

\* Transforms: one that keeps only the first block apart, one that prints a
\* header before what it reads.
MCOutput(s) == [i \in 1..Len(s) |-> IF i = 1 THEN s[i] ELSE 0]
MCWithHeader(s) == [i \in 1..Len(s) |-> 0] \o s

\* Inodes 1 to 3 are in use, 4 is for a file saved under an old name.
MCInodes == 1..4
MCAt == (a :> 1) @@ (l :> 1) @@ (b :> 2) @@ (c :> 3)
StartsWith(contents) ==
  {[at |-> MCAt, data |-> <<x, y, z, <<>>>>] : x, y, z \in contents}

\* Differences in length, in the prefix, in the suffix and in the middle, and
\* files whose prefix equals their suffix.
MCFew == {<<0, 0>>, <<0, 0, 0, 0, 0>>, <<0, 1, 0, 0, 0>>}
MCMany == {<<>>, <<0>>, <<1, 0>>, <<1, 1>>, <<0, 0, 0, 0>>, <<0, 0, 1, 0>>, <<0, 1, 0, 0>>,
           <<0, 0, 0, 1>>, <<0, 0, 0, 0, 0>>, <<0, 1, 0, 0, 0>>}

\* Two pairs of duplicates, made of one block repeated.
MCConstant == {<<0, 0, 0>>, <<1, 1, 1>>}
MCPairs ==
  {[at |-> (a :> 1) @@ (l :> 4) @@ (b :> 2) @@ (c :> 3),
    data |-> <<x, y, y, x>>] : x, y \in MCConstant}

\* A default search among other programs that write and save.
MCBusy ==
  [starts |-> StartsWith(MCFew), contents |-> MCFew, maxChanges |-> 2, canFail |-> {c},
   root |-> MCNoRoots, maxPrefixSize |-> NoSize, maxSuffixSize |-> NoSize,
   skipContentHash |-> FALSE, transforming |-> FALSE, matchLinks |-> FALSE,
   unique |-> FALSE, rfOver |-> 1, minSize |-> 1, maxSize |-> NoSize]

\* Many contents and no interference.
MCQuiet == [MCBusy EXCEPT !.starts = StartsWith(MCMany), !.maxChanges = 0, !.canFail = {}]

\* Unique files of at most three blocks, empty ones as well, with a and b under one
\* isolated root.
MCUnique == [MCBusy EXCEPT !.starts = StartsWith({<<0, 0, 0>>, <<0, 1, 0>>, <<>>, <<1, 0, 0, 0>>}),
                           !.minSize = 0, !.maxSize = 3,
                           !.maxChanges = 1, !.root = MCRoots, !.unique = TRUE]

\* A transform whose output is as long as its input, with --match-links.
MCTransforming == [MCBusy EXCEPT !.starts = StartsWith(MCConstant), !.contents = MCConstant,
                                 !.maxChanges = 1, !.transforming = TRUE, !.matchLinks = TRUE]

MCScenarios == <<MCBusy, MCQuiet, MCUnique, MCTransforming>>

\* Searches that show a difference between the code and what is said of it.
\* Prefixes and suffixes that cover files of three blocks, on an SSD:
MCXor == <<[MCQuiet EXCEPT !.starts = MCPairs, !.maxPrefixSize = 4, !.maxSuffixSize = 3]>>
\* ... a suffix longer than any file:
MCLongSuffix == <<[MCQuiet EXCEPT !.starts = StartsWith(MCFew), !.maxSuffixSize = 6]>>
\* ... unique files without the last stage:
MCUniqueSkip == <<[MCUnique EXCEPT !.maxChanges = 0, !.skipContentHash = TRUE]>>
\* ... and a transform, to be given MCWithHeader:
MCLongOutput == <<[MCTransforming EXCEPT !.starts = StartsWith(MCFew), !.maxChanges = 0]>>
MCOneChange == <<[MCBusy EXCEPT !.maxChanges = 1]>>
=============================================================================
