------------------------------- MODULE Quoting -------------------------------
(***************************************************************************)
(* How a command line is written to the header of a report and read back:  *)
(* `quote`, `join` and `split` of src/fclones/src/arg.rs.                  *)
(*                                                                         *)
(* A text is a sequence of characters.  "x" and "n" stand for characters   *)
(* without a meaning, "*" for the other special ones, "~" for those of two *)
(* bytes.  An error, or a slice off the bounds of a character, is Failed.  *)
(***************************************************************************)
EXTENDS Naturals, Sequences, FiniteSetsExt, SequencesExt

CONSTANT Failed  \* no text: see above

Blank == " "
Newline == "\n"
Quote == "'"
DoubleQuote == "\""
Backslash == "\\"
Control == {Newline}
SpecialChars == {Blank, Quote, DoubleQuote, Backslash, "$", "#", "*"}

Bytes(c) == IF c = "~" THEN 2 ELSE 1

-----------------------------------------------------------------------------
(* The stfu8 crate: backslashes and what is not printable are escaped.     *)

to_stfu8(s) ==
  FlattenSeq([i \in 1..Len(s) |->
    CASE s[i] = Backslash -> <<Backslash, Backslash>>
      [] s[i] = Newline   -> <<Backslash, "n">>
      [] OTHER            -> <<s[i]>>])

Decode(done, c) ==
  CASE done = Failed -> Failed
    [] done # Failed /\ ~done.escaped ->
         IF c = Backslash THEN [done EXCEPT !.escaped = TRUE] ELSE [done EXCEPT !.text = Append(@, c)]
    [] OTHER ->
         IF c \in {Backslash, "n"}
           THEN [text |-> Append(done.text, IF c = "n" THEN Newline ELSE c), escaped |-> FALSE]
           ELSE Failed

from_stfu8(s) ==
  LET decoded[n \in 0..Len(s)] ==
        IF n = 0 THEN [text |-> <<>>, escaped |-> FALSE] ELSE Decode(decoded[n - 1], s[n])
      end == decoded[Len(s)]
  IN IF end = Failed \/ (end # Failed /\ end.escaped) THEN Failed ELSE end.text

-----------------------------------------------------------------------------
(* Quoting.                                                                *)

\* str::replace of a quote by an escaped one
EscapeQuotes(s) ==
  FlattenSeq([i \in 1..Len(s) |-> IF s[i] = Quote THEN <<Backslash, Quote>> ELSE <<s[i]>>])

\* ... and back: occurrences are found from the left and do not overlap.  A
\* quote cannot end one and start another, so every pair is replaced.
UnescapeQuotes(s) ==
  FlattenSeq([i \in 1..Len(s) |->
    IF s[i] = Backslash /\ i < Len(s) /\ s[i + 1] = Quote THEN <<>> ELSE <<s[i]>>])

\* Mutated form of quote: blanks do without quotes.
QuoteUnlessBlank(s) ==
  CASE ToSet(s) \cap (Control \cup {Quote}) # {} -> <<"$", Quote>> \o EscapeQuotes(to_stfu8(s)) \o <<Quote>>
    [] OTHER -> s

quote(s) ==
  LET dollar == ToSet(s) \cap (Control \cup {Quote}) # {}
  IN CASE dollar -> <<"$", Quote>> \o EscapeQuotes(to_stfu8(s)) \o <<Quote>>
       [] ~dollar /\ ToSet(s) \cap SpecialChars # {} -> <<Quote>> \o s \o <<Quote>>
       [] OTHER -> s

join(args) ==
  FlattenSeq([i \in 1..Len(args) |-> IF i = 1 THEN quote(args[i]) ELSE <<Blank>> \o quote(args[i])])

-----------------------------------------------------------------------------
(* Splitting.                                                              *)

\* s[from..to], offsets in bytes.
Slice(s, from, to) ==
  LET offset[i \in 0..Len(s)] == IF i = 0 THEN 0 ELSE offset[i - 1] + Bytes(s[i])
      at(b) == {i \in 0..Len(s) : offset[i] = b}
  IN IF at(from) = {} \/ at(to) = {} \/ from > to THEN Failed
     ELSE SubSeq(s, (CHOOSE i \in at(from) : TRUE) + 1, CHOOSE i \in at(to) : TRUE)

\* What a character does in a state: the next state, after `pushed` was appended
\* to the word, or the word was ended.
To(st, state) == [st EXCEPT !.state = state]
Add(st, pushed, state) == [st EXCEPT !.state = state, !.word = @ \o pushed]
EndWord(st, state) == [st EXCEPT !.state = state, !.words = Append(@, st.word), !.word = <<>>]

Space == {Blank, Newline}

\* A character that opens a quotation or an escape.
Opening(st, c, escape) ==
  CASE c = Quote       -> To(st, "SingleQuoted")
    [] c = DoubleQuote -> To(st, "DoubleQuoted")
    [] c = Backslash   -> To(st, escape)
    [] c = "$"         -> To(st, "Dollar")

Openers == {Quote, DoubleQuote, Backslash, "$"}

\* The chunk between the dollar quotes is decoded as a whole.
DollarQuoted(st, s) ==
  LET chunk == Slice(s, st.from, st.pos)
      decoded == IF chunk = Failed THEN Failed ELSE from_stfu8(UnescapeQuotes(chunk))
  IN IF decoded = Failed THEN To(st, "Failed") ELSE Add(st, decoded, "Unquoted")

\* The body of the loop of split, for a character c of s.
After(st, c, s) ==
  CASE st.state = "Delimiter" ->
         (CASE c \in Openers -> Opening(st, c, "Backslash")
            [] c \in Space   -> st
            [] c = "#"       -> To(st, "Comment")
            [] OTHER         -> Add(st, <<c>>, "Unquoted"))
    [] st.state = "Unquoted" ->
         (CASE c \in Openers -> Opening(st, c, "UnquotedBackslash")
            [] c \in Space   -> EndWord(st, "Delimiter")
            [] OTHER         -> Add(st, <<c>>, "Unquoted"))
    [] st.state = "Backslash" ->
         IF c = Newline THEN To(st, "Delimiter") ELSE Add(st, <<c>>, "Unquoted")
    [] st.state = "UnquotedBackslash" ->
         IF c = Newline THEN To(st, "Unquoted") ELSE Add(st, <<c>>, "Unquoted")
    [] st.state = "SingleQuoted" ->
         IF c = Quote THEN To(st, "Unquoted") ELSE Add(st, <<c>>, "SingleQuoted")
    [] st.state = "DoubleQuoted" ->
         (CASE c = DoubleQuote -> To(st, "Unquoted")
            [] c = Backslash   -> To(st, "DoubleQuotedBackslash")
            [] OTHER           -> Add(st, <<c>>, "DoubleQuoted"))
    [] st.state = "DoubleQuotedBackslash" ->
         (CASE c = Newline -> To(st, "DoubleQuoted")
            [] c \in {"$", DoubleQuote, Backslash} -> Add(st, <<c>>, "DoubleQuoted")
            [] OTHER -> Add(st, <<Backslash, c>>, "DoubleQuoted"))
    [] st.state = "Dollar" ->
         IF c = Quote THEN [To(st, "DollarQuoted") EXCEPT !.from = st.pos + 1] ELSE To(st, "Failed")
    [] st.state = "DollarQuoted" ->
         (CASE c = Quote     -> DollarQuoted(st, s)
            [] c = Backslash -> To(st, "DollarQuotedBackslash")
            [] OTHER         -> st)
    [] st.state = "DollarQuotedBackslash" -> To(st, "DollarQuoted")
    [] st.state = "Comment" ->
         IF c = Newline THEN To(st, "Delimiter") ELSE st
    [] OTHER -> st

\* The end of the text: an error inside of quotes.
AtEnd(st) ==
  CASE st.state \in {"Delimiter", "Comment"} -> st.words
    [] st.state = "Unquoted" -> Append(st.words, st.word)
    [] st.state \in {"Backslash", "UnquotedBackslash"} ->
         Append(st.words, Append(st.word, Backslash))
    [] OTHER -> Failed

\* pos counts characters.
split(s) ==
  LET at[n \in 0..Len(s)] ==
        IF n = 0 THEN [state |-> "Delimiter", word |-> <<>>, words |-> <<>>, pos |-> 0, from |-> 0]
                 ELSE [After(at[n - 1], s[n], s) EXCEPT !.pos = n]
  IN AtEnd(at[Len(s)])

=============================================================================
