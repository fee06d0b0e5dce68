------------------------------- MODULE PathText ------------------------------
(***************************************************************************)
(* Paths as sequences of components: src/fclones/src/path.rs.  The root is *)
(* a component, the name "/"; names are texts, see Quoting.tla.            *)
(***************************************************************************)
EXTENDS Quoting

Root == <<"/">>
CurDir == <<".">>
ParentDir == <<".", ".">>

is_relative(p) == Root \notin ToSet(p)

\* The second path must be relative.
joined(p, q) == p \o q

resolve(p, q) == IF is_relative(q) THEN joined(p, q) ELSE q

\* Mutated form of is_prefix_of: the last names are compared as texts.
StartsName(p, q) ==
  /\ p # <<>> /\ Len(p) <= Len(q)
  /\ IsPrefix(Front(p), q) /\ IsPrefix(Last(p), q[Len(p)])

is_prefix_of(p, q) == IsPrefix(p, q)

component_count(p) == Len(p)

-----------------------------------------------------------------------------

\* PathBuf: the names with separators in between.
TextOf(p) ==
  FlattenSeq([i \in 1..Len(p) |->
    IF i = 1 \/ p[i - 1] = Root THEN p[i] ELSE <<"/">> \o p[i]])

\* Path::from: the components of std::path::Path, which drops empty names, and
\* those that are a dot unless they are the first one.
From(text) ==
  LET starts == {i \in 1..Len(text) : text[i] # "/" /\ (i = 1 \/ text[i - 1] = "/")}
      end(i) == Min({j \in i..(Len(text) + 1) : j > Len(text) \/ text[j] = "/"}) - 1
      name == [i \in starts |-> SubSeq(text, i, end(i))]
      kept == {i \in starts : name[i] # CurDir \/ i = 1}
      relative == [k \in 1..Cardinality(kept) |->
                     name[CHOOSE i \in kept : Cardinality({j \in kept : j <= i}) = k]]
      rooted == IF text # <<>> /\ text[1] = "/" THEN <<Root>> ELSE <<>>
  IN IF rooted \o relative = <<>> THEN <<CurDir>> ELSE rooted \o relative

to_escaped_string(p) == to_stfu8(TextOf(p))

\* Mutated form of from_escaped_string: the text is not decoded.
FromRaw(text) == From(text)

from_escaped_string(text) ==
  LET decoded == from_stfu8(text) IN IF decoded = Failed THEN Failed ELSE From(decoded)

Enter(dir, name) ==
  CASE name = CurDir    -> dir
    [] name = ParentDir -> IF dir = <<Root>> THEN dir ELSE Front(dir)
    [] OTHER            -> Append(dir, name)

\* canonicalize, for an absolute path without symbolic links.
canonicalize(p) ==
  LET entered[n \in 0..Len(p)] == IF n = 0 THEN <<>> ELSE Enter(entered[n - 1], p[n])
  IN entered[Len(p)]

=============================================================================
