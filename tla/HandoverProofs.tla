--------------------------- MODULE HandoverProofs ----------------------------
(***************************************************************************)
(* What `fclones group` hands over to the command that reads its report,   *)
(* for any files, command lines, formats and points where it may stop:     *)
(* texts, paths and words come back from their escaped and quoted forms,   *)
(* the report is read as it was written, the configuration is the same,    *)
(* as many replicas are left as were asked for, as many files are dropped  *)
(* as were announced, and none that was modified after the report.         *)
(*                                                                         *)
(* The model's recursive functions on texts are followed character by      *)
(* character: each lemma states what the function has computed after the   *)
(* first n of them, and Upward carries it on to the last one.              *)
(***************************************************************************)
EXTENDS Handover, FileGroupsProofs

-----------------------------------------------------------------------------
(* Sequences.                                                              *)

\* What holds at 0 and at a number if below it holds up to n.
LEMMA Upward ==
  ASSUME NEW n \in Nat, NEW S, 0 \in S, \A k \in 1..n : k - 1 \in S => k \in S
  PROVE  \A k \in 0..n : k \in S
<1> DEFINE Bad == {k \in 0..n : k \notin S}
<1> SUFFICES ASSUME Bad # {} PROVE FALSE
  OBVIOUS
<1>1. Bad \subseteq Nat
  OBVIOUS
<1>2. PICK m \in Bad : \A k \in Bad : m <= k
  <2> HIDE DEF Bad
  <2> QED BY <1>1, LeastNumber
<1>3. m \in 1..n
  BY <1>2
<1>4. m - 1 \in 0..n /\ ~(m <= m - 1)
  BY <1>3
<1>5. m - 1 \in S
  BY <1>2, <1>4
<1> QED BY <1>2, <1>3, <1>5

\* A sequence, whatever its members are.
Proper(s) == s \in Seq(ToSet(s))

\* What a sequence is: its members are those of its positions.
LEMMA ProperIs ==
  ASSUME NEW s
  PROVE  /\ \A S : s \in Seq(S) => Proper(s) /\ ToSet(s) \subseteq S
         /\ Proper(s) => Len(s) \in Nat /\ DOMAIN s = 1..Len(s)
         /\ Proper(s) => \A i \in 1..Len(s) : s[i] \in ToSet(s)
         /\ \A n \in Nat : s = [i \in 1..n |-> s[i]] => Proper(s) /\ Len(s) = n
<1>1. ASSUME NEW S, s \in Seq(S) PROVE Proper(s) /\ ToSet(s) \subseteq S
  <2> DEFINE M == ToSet(s)
  <2>1. \A i \in 1..Len(s) : s[i] \in M
    BY <1>1, ToSetIs
  <2> HIDE DEF M
  <2>2. s \in Seq(M)
    BY <1>1, <2>1
  <2> QED BY <1>1, <2>2, ToSetIs DEF M, Proper
<1>2. Proper(s) => Len(s) \in Nat /\ DOMAIN s = 1..Len(s) /\ \A i \in 1..Len(s) : s[i] \in ToSet(s)
  <2> DEFINE M == ToSet(s)
  <2>1. Proper(s) => s \in Seq(M)
    BY DEF Proper
  <2> HIDE DEF M
  <2>2. Proper(s) => Len(s) \in Nat /\ DOMAIN s = 1..Len(s) /\ \A i \in 1..Len(s) : s[i] \in M
    BY <2>1
  <2> QED BY <2>2 DEF M
<1>3. ASSUME NEW n \in Nat, s = [i \in 1..n |-> s[i]] PROVE Proper(s) /\ Len(s) = n
  <2> DEFINE M == {s[i] : i \in 1..n}
  <2>1. s \in [1..n -> M]
    BY <1>3
  <2> HIDE DEF M
  <2>2. s \in Seq(M) /\ Len(s) = n
    BY <1>3, <2>1
  <2> QED BY <1>1, <2>2
<1> QED BY <1>1, <1>2, <1>3

\* A sequence with one more member at its end.
LEMMA ProperAppend ==
  ASSUME NEW s, Proper(s), NEW e
  PROVE  /\ Proper(Append(s, e)) /\ Len(Append(s, e)) = Len(s) + 1
         /\ Append(s, e)[Len(s) + 1] = e /\ \A i \in 1..Len(s) : Append(s, e)[i] = s[i]
         /\ ToSet(Append(s, e)) = ToSet(s) \cup {e}
<1> DEFINE S == ToSet(s) \cup {e}
<1>1. s \in Seq(S) /\ e \in S
  <2> DEFINE M == ToSet(s)
  <2>1. s \in Seq(M) /\ M \subseteq S
    BY DEF Proper
  <2> HIDE DEF M, S
  <2>2. s \in Seq(S)
    BY <2>1
  <2> QED BY <2>2 DEF S
<1> HIDE DEF S
<1>2. /\ Append(s, e) \in Seq(S) /\ Len(Append(s, e)) = Len(s) + 1 /\ Len(s) \in Nat
      /\ Append(s, e)[Len(s) + 1] = e /\ \A i \in 1..Len(s) : Append(s, e)[i] = s[i]
  BY <1>1
<1>3. ToSet(Append(s, e)) = ToSet(s) \cup {e}
  <2>1. ToSet(s) = {s[i] : i \in 1..Len(s)}
    BY <1>1, ToSetIs
  <2>2. ToSet(Append(s, e)) = {Append(s, e)[i] : i \in 1..(Len(s) + 1)}
    BY <1>2, ToSetIs
  <2>3. \A i \in 1..(Len(s) + 1) : i \in 1..Len(s) \/ i = Len(s) + 1
    BY <1>2
  <2>4. \A i \in 1..Len(s) : i \in 1..(Len(s) + 1)
    BY <1>2
  <2>5. Len(s) + 1 \in 1..(Len(s) + 1)
    BY <1>2
  <2> HIDE DEF S
  <2> QED BY <1>2, <2>1, <2>2, <2>3, <2>4, <2>5
<1> QED BY <1>2, <1>3, ProperIs

\* Where the members of a sequence of sequences end once these are joined.
Places(gs, flat, end) ==
  /\ end \in [0..Len(gs) -> Nat] /\ end[0] = 0 /\ end[Len(gs)] = Len(flat)
  /\ \A i \in 1..Len(gs) : end[i] = end[i - 1] + Len(gs[i]) /\ end[i] <= Len(flat)
  /\ \A i \in 1..Len(gs) : \A m \in 1..Len(gs[i]) : flat[end[i - 1] + m] = gs[i][m]

\* c is a and then b.
Joins(c, a, b) ==
  /\ Len(a) \in Nat /\ Len(b) \in Nat /\ Len(c) = Len(a) + Len(b)
  /\ \A m \in 1..Len(a) : c[m] = a[m]
  /\ \A m \in 1..Len(b) : c[Len(a) + m] = b[m]

\* Two sequences one after the other.
LEMMA ConcatPlaces ==
  ASSUME NEW S, NEW a \in Seq(S), NEW b \in Seq(S)
  PROVE  a \o b \in Seq(S) /\ Joins(a \o b, a, b)
<1>1. \A m \in 1..Len(b) : Len(a) + m > Len(a) /\ Len(a) + m <= Len(a) + Len(b) /\ Len(a) + m - Len(a) = m
  OBVIOUS
<1> QED BY <1>1 DEF Joins

\* FlattenSeq puts the members of each sequence where Places says.
LEMMA FlattenPlaces ==
  ASSUME NEW S, NEW gs \in Seq(Seq(S))
  PROVE  \E end : Places(gs, FlattenSeq(gs), end)
<1> DEFINE n == Len(gs)
           flat == CHOOSE f : Joined(gs, f)
<1>1. n \in Nat /\ \A i \in 1..n : gs[i] \in Seq(S)
  OBVIOUS
<1>2. CASE n = 0
  <2>1. FlattenSeq(gs) = gs
    BY <1>2 DEF FlattenSeq
  <2>2. Places(gs, gs, [k \in 0..0 |-> 0])
    BY <1>2 DEF Places
  <2> QED BY <2>1, <2>2
<1>3. CASE n # 0
  <2>1. Joined(gs, flat)
    BY JoinedExists
  <2>2. FlattenSeq(gs) = flat[n]
    BY <1>3 DEF FlattenSeq, Joined
  <2> HIDE DEF flat
  <2>3. \A i \in 1..n : flat[i] = IF i = 1 THEN gs[i] ELSE flat[i - 1] \o gs[i]
    BY <2>1 DEF Joined
  <2> DEFINE end == [k \in 0..n |-> IF k = 0 THEN 0 ELSE Len(flat[k])]
             Fits(k) == k = 0 \/
                        /\ flat[k] \in Seq(S)
                        /\ end[k] = end[k - 1] + Len(gs[k])
                        /\ \A i \in 1..k : /\ end[i] \in Nat /\ end[i] <= end[k] /\ end[i - 1] \in Nat
                                           /\ end[i] = end[i - 1] + Len(gs[i])
                                           /\ \A m \in 1..Len(gs[i]) :
                                                flat[k][end[i - 1] + m] = gs[i][m]
             G == {k \in 0..n : Fits(k)}
  <2>4. 0 \in G
    OBVIOUS
  <2>5. ASSUME NEW k \in 1..n, k - 1 \in G PROVE k \in G
    <3>1. gs[k] \in Seq(S) /\ Len(gs[k]) \in Nat
      BY <1>1
    <3>2. CASE k = 1
      <4>1. flat[1] = gs[1]
        BY <2>3, <3>2
      <4>2. end[1] = Len(gs[1]) /\ end[0] = 0
        BY <4>1, <1>3, <1>1
      <4> QED BY <3>1, <3>2, <4>1, <4>2
    <3>3. CASE k # 1
      <4> DEFINE j == k - 1
      <4>1. j \in 1..n /\ j # 0 /\ Fits(j) /\ k = j + 1 /\ j \in Nat
        <5>1. j \in 1..n /\ j # 0 /\ k = j + 1 /\ j \in Nat
          BY <1>1, <3>3
        <5> HIDE DEF Fits
        <5>2. Fits(k - 1)
          BY <2>5
        <5> QED BY <5>1, <5>2
      <4>2. flat[k] = flat[j] \o gs[k] /\ flat[j] \in Seq(S)
        BY <2>3, <3>3, <4>1
      <4>3. end[j] = Len(flat[j]) /\ end[k] = Len(flat[k])
        BY <1>1, <4>1
      <4>x. \A i \in 1..j : /\ end[i] \in Nat /\ end[i] <= end[j] /\ end[i - 1] \in Nat
                            /\ end[i] = end[i - 1] + Len(gs[i])
                            /\ \A m \in 1..Len(gs[i]) : flat[j][end[i - 1] + m] = gs[i][m]
        <5> HIDE DEF end, j
        <5> QED BY <4>1
      <4>y. end[k - 1] = end[j]
        OBVIOUS
      <4> HIDE DEF end, j, Fits
      <4>4. /\ flat[k] \in Seq(S) /\ Len(flat[k]) = Len(flat[j]) + Len(gs[k])
            /\ \A m \in 1..Len(flat[j]) : flat[k][m] = flat[j][m]
            /\ \A m \in 1..Len(gs[k]) : flat[k][Len(flat[j]) + m] = gs[k][m]
        <5> DEFINE a == flat[j]
                   b == gs[k]
        <5>1. a \in Seq(S) /\ b \in Seq(S) /\ flat[k] = a \o b
          BY <3>1, <4>2
        <5> HIDE DEF a, b
        <5>2. a \o b \in Seq(S) /\ Joins(a \o b, a, b)
          BY <5>1, ConcatPlaces
        <5> QED BY <5>1, <5>2 DEF a, b, Joins
      <4>5. end[k] = end[j] + Len(gs[k]) /\ end[j] \in Nat /\ end[k] \in Nat /\ end[j] <= end[k]
        <5>1. Len(flat[j]) \in Nat /\ Len(gs[k]) \in Nat
          BY <3>1, <4>2
        <5>2. Len(flat[k]) = Len(flat[j]) + Len(gs[k])
          BY <4>4
        <5>3. Len(flat[k]) \in Nat /\ Len(flat[j]) <= Len(flat[k])
          <6>1. \A a, b \in Nat : a + b \in Nat /\ a <= a + b
            OBVIOUS
          <6> QED BY <5>1, <5>2, <6>1
        <5> QED BY <4>3, <5>1, <5>2, <5>3
      <4>6. ASSUME NEW i \in 1..k
            PROVE  /\ end[i] \in Nat /\ end[i] <= end[k] /\ end[i - 1] \in Nat
                   /\ end[i] = end[i - 1] + Len(gs[i])
                   /\ \A m \in 1..Len(gs[i]) : flat[k][end[i - 1] + m] = gs[i][m]
        <5>1. CASE i = k
          <6>1. end[i - 1] = Len(flat[j]) /\ gs[i] = gs[k] /\ end[i] = end[k]
            BY <4>y, <4>3, <5>1
          <6>2. end[k] <= end[k]
            BY <4>5
          <6> QED BY <4>3, <4>4, <4>5, <5>1, <6>1, <6>2
        <5>2. CASE i # k
          <6>1. i \in 1..j
            BY <5>2, <4>1
          <6>2. /\ end[i] \in Nat /\ end[i] <= end[j] /\ end[i - 1] \in Nat
                /\ end[i] = end[i - 1] + Len(gs[i])
                /\ \A m \in 1..Len(gs[i]) : flat[j][end[i - 1] + m] = gs[i][m]
            BY <4>x, <6>1
          <6>3. Len(gs[i]) \in Nat
            BY <1>1, <6>1, <4>1
          <6>4. \A m \in 1..Len(gs[i]) : end[i - 1] + m \in 1..Len(flat[j])
            <7>1. \A a, b, c, d \in Nat : a = b + c /\ a <= d => \A m \in 1..c : b + m \in 1..d
              OBVIOUS
            <7>2. Len(flat[j]) \in Nat /\ end[i] <= Len(flat[j])
              BY <6>2, <4>3, <4>2
            <7> QED BY <6>2, <6>3, <7>1, <7>2
          <6>5. end[i] <= end[k]
            BY <4>5, <6>2
          <6>6. \A m \in 1..Len(gs[i]) : flat[k][end[i - 1] + m] = gs[i][m]
            BY <4>4, <6>2, <6>4
          <6> QED BY <6>2, <6>5, <6>6
        <5> QED BY <5>1, <5>2
      <4>7. Fits(k)
        BY <4>4, <4>5, <4>6, <4>y DEF Fits
      <4> QED BY <4>7
    <3> QED BY <3>2, <3>3
  <2> HIDE DEF G
  <2>6. \A k \in 0..n : k \in G
    BY <1>1, <2>4, <2>5, Upward
  <2>7. Fits(n)
    <3>1. n \in G
      BY <1>1, <2>6
    <3> HIDE DEF Fits
    <3> QED BY <3>1 DEF G
  <2>8. Places(gs, flat[n], end)
    <3>1. end[0] = 0 /\ end[n] = Len(flat[n])
      BY <1>1, <1>3
    <3>2. \A i \in 1..n : end[i] \in Nat
      <4> HIDE DEF end
      <4> QED BY <2>7, <1>3
    <3>3. end \in [0..n -> Nat]
      <4>1. \A k \in 0..n : end[k] \in Nat
        <5>1. \A k \in 0..n : k = 0 \/ k \in 1..n
          BY <1>1
        <5> HIDE DEF end
        <5> QED BY <3>1, <3>2, <5>1
      <4> QED BY <4>1
    <3> HIDE DEF end
    <3> QED BY <2>7, <1>3, <3>1, <3>3 DEF Places
  <2> QED BY <2>2, <2>8
<1> QED BY <1>2, <1>3

-----------------------------------------------------------------------------
(* Texts.                                                                  *)

\* The states of the decoder of stfu8, its first one, and all of them along a text.
Decoding == {Failed} \cup [text : Texts, escaped : BOOLEAN]

Undecoded == [text |-> <<>>, escaped |-> FALSE]

Decodes(s, f) ==
  f = [n \in 0..Len(s) |-> IF n = 0 THEN Undecoded ELSE Decode(f[n - 1], s[n])]

\* One character of an escaped text: decode of stfu8 stays among its states.
LEMMA DecodeTyped ==
  ASSUME NEW done \in Decoding, NEW c \in Characters
  PROVE  Decode(done, c) \in Decoding
<1>1. \A t \in Texts, d \in Characters : Append(t, d) \in Texts
  BY DEF Texts
<1>2. CASE done = Failed
  BY <1>2 DEF Decode, Decoding
<1>3. CASE done # Failed
  <2>1. done \in [text : Texts, escaped : BOOLEAN]
    BY <1>3 DEF Decoding
  <2>2. /\ [done EXCEPT !.escaped = TRUE] \in Decoding
        /\ [done EXCEPT !.text = Append(@, c)] \in Decoding
    BY <1>1, <2>1 DEF Decoding
  <2>x. done.text \in Texts /\ Newline \in Characters
    BY <2>1, TextsAssumption DEF Control
  <2>3. Append(done.text, c) \in Texts /\ Append(done.text, Newline) \in Texts
    <3> HIDE DEF Decoding
    <3> QED BY <1>1, <2>x
  <2>4. [text |-> Append(done.text, IF c = "n" THEN Newline ELSE c), escaped |-> FALSE] \in Decoding
    BY <2>3 DEF Decoding
  <2>5. CASE ~done.escaped
    BY <1>3, <2>2, <2>5 DEF Decode
  <2>6. CASE done.escaped
    <3>1. Decode(done, c) = IF c \in {Backslash, "n"}
                              THEN [text |-> Append(done.text, IF c = "n" THEN Newline ELSE c), escaped |-> FALSE]
                              ELSE Failed
      BY <1>3, <2>6 DEF Decode
    <3> QED BY <2>4, <3>1 DEF Decoding
  <2> QED BY <2>5, <2>6
<1> QED BY <1>2, <1>3

\* from_stfu8 is what the decoder has after the last character.
LEMMA DecodesAre ==
  ASSUME NEW s \in Texts
  PROVE  \E f \in [0..Len(s) -> Decoding] :
           /\ Decodes(s, f)
           /\ from_stfu8(s) = IF f[Len(s)] = Failed \/ (f[Len(s)] # Failed /\ f[Len(s)].escaped)
                                THEN Failed ELSE f[Len(s)].text
<1> DEFINE n == Len(s)
           step == [k \in 1..n |-> [d \in Decoding |-> Decode(d, s[k])]]
           f == CHOOSE g : Decodes(s, g)
<1>1. n \in Nat /\ \A k \in 1..n : s[k] \in Characters
  BY DEF Texts
<1>2. Undecoded \in Decoding
  BY DEF Undecoded, Decoding, Texts
<1>3. \E g : Decodes(s, g)
  <2>1. step \in [1..n -> [Decoding -> Decoding]]
    BY <1>1, DecodeTyped
  <2>2. PICK g : Run(Decoding, Undecoded, n, step, g)
    <3> HIDE DEF step, n
    <3> QED BY <1>1, <1>2, <2>1, RunExists
  <2>3. \A k \in 0..n : g[k] = IF k = 0 THEN Undecoded ELSE Decode(g[k - 1], s[k])
    <3> SUFFICES ASSUME NEW k \in 0..n, k # 0 PROVE g[k] = Decode(g[k - 1], s[k])
      BY <2>2 DEF Run
    <3>1. k \in 1..n /\ k - 1 \in 0..n
      BY <1>1
    <3>2. g[k - 1] \in Decoding /\ g[k] = step[k][g[k - 1]]
      <4> HIDE DEF step, n
      <4> QED BY <2>2, <3>1 DEF Run
    <3> QED BY <3>1, <3>2
  <2>4. g = [k \in 0..n |-> g[k]]
    <3> HIDE DEF step, n
    <3> QED BY <2>2 DEF Run
  <2> QED BY <2>3, <2>4 DEF Decodes
<1>4. Decodes(s, f)
  BY <1>3
<1>5. from_stfu8(s) = IF f[n] = Failed \/ (f[n] # Failed /\ f[n].escaped) THEN Failed ELSE f[n].text
  BY DEF from_stfu8, Decodes, Undecoded
<1> HIDE DEF f
<1>6. \A k \in 0..n : f[k] \in Decoding
  <2> DEFINE S == {k \in 0..n : f[k] \in Decoding}
  <2>1. 0 \in S
    BY <1>1, <1>2, <1>4 DEF Decodes
  <2>2. ASSUME NEW k \in 1..n, k - 1 \in S PROVE k \in S
    <3>1. k \in 0..n /\ k # 0
      BY <1>1
    <3>2. f[k] = Decode(f[k - 1], s[k])
      BY <1>4, <3>1 DEF Decodes
    <3> QED BY <1>1, <2>2, <3>1, <3>2, DecodeTyped
  <2> HIDE DEF S
  <2>3. \A k \in 0..n : k \in S
    BY <1>1, <2>1, <2>2, Upward
  <2> QED BY <2>3 DEF S
<1>7. f \in [0..n -> Decoding]
  BY <1>4, <1>6 DEF Decodes
<1> QED BY <1>4, <1>5, <1>7

\* Decoding gives a text, or fails.
LEMMA DecodedTyped ==
  ASSUME NEW s \in Texts
  PROVE  from_stfu8(s) \in Texts \cup {Failed}
<1>1. Len(s) \in 0..Len(s)
  BY DEF Texts
<1> QED BY <1>1, DecodesAre DEF Decoding

\* Texts one after the other are a text.
LEMMA FlattenTexts ==
  ASSUME NEW n \in Nat, NEW gs, gs = [i \in 1..n |-> gs[i]], \A i \in 1..n : gs[i] \in Texts
  PROVE  FlattenSeq(gs) \in Texts
<1>1. gs \in Seq(Seq(Characters))
  <2> DEFINE X == Seq(Characters)
  <2>1. \A i \in 1..n : gs[i] \in X
    BY DEF Texts
  <2> HIDE DEF X
  <2>2. gs \in Seq(X)
    BY <2>1
  <2> QED BY <2>2 DEF X
<1> QED BY <1>1, FlattenIs DEF Texts

\* Escaping and its inverses give texts.
LEMMA EscapesTyped ==
  ASSUME NEW s \in Texts
  PROVE  to_stfu8(s) \in Texts /\ EscapeQuotes(s) \in Texts /\ UnescapeQuotes(s) \in Texts
<1>1. Len(s) \in Nat /\ \A i \in 1..Len(s) : s[i] \in Characters
  BY DEF Texts
<1>2. /\ Backslash \in Characters /\ Quote \in Characters /\ "n" \in Characters
  BY TextsAssumption DEF SpecialChars
<1>3. \A a \in Characters : <<a>> \in Texts
  BY DEF Texts
<1>4. \A a, b \in Characters : <<a, b>> \in Texts
  BY DEF Texts
<1>5. <<>> \in Texts
  BY DEF Texts
<1> DEFINE gs == [i \in 1..Len(s) |->
                    CASE s[i] = Backslash -> <<Backslash, Backslash>>
                      [] s[i] = Newline   -> <<Backslash, "n">>
                      [] OTHER            -> <<s[i]>>]
           hs == [i \in 1..Len(s) |-> IF s[i] = Quote THEN <<Backslash, Quote>> ELSE <<s[i]>>]
           us == [i \in 1..Len(s) |->
                    IF s[i] = Backslash /\ i < Len(s) /\ s[i + 1] = Quote THEN <<>> ELSE <<s[i]>>]
<1>6. /\ \A i \in 1..Len(s) : gs[i] \in Texts
      /\ \A i \in 1..Len(s) : hs[i] \in Texts
      /\ \A i \in 1..Len(s) : us[i] \in Texts
  <2> SUFFICES ASSUME NEW i \in 1..Len(s) PROVE gs[i] \in Texts /\ hs[i] \in Texts /\ us[i] \in Texts
    OBVIOUS
  <2>1. <<s[i]>> \in Texts /\ <<Backslash, Backslash>> \in Texts /\ <<Backslash, "n">> \in Texts
        /\ <<Backslash, Quote>> \in Texts
    BY <1>1, <1>2, <1>3, <1>4
  <2>2. gs[i] \in {<<Backslash, Backslash>>, <<Backslash, "n">>, <<s[i]>>}
    <3>1. CASE s[i] = Backslash
      BY <3>1
    <3>2. CASE s[i] # Backslash /\ s[i] = Newline
      BY <3>2
    <3>3. CASE s[i] # Backslash /\ s[i] # Newline
      BY <3>3
    <3> QED BY <3>1, <3>2, <3>3
  <2>3. hs[i] \in {<<Backslash, Quote>>, <<s[i]>>} /\ us[i] \in {<<>>, <<s[i]>>}
    OBVIOUS
  <2> HIDE DEF gs, hs, us
  <2> QED BY <2>1, <2>2, <2>3, <1>5
<1>7. FlattenSeq(gs) \in Texts
  <2>1. gs = [i \in 1..Len(s) |-> gs[i]]
    OBVIOUS
  <2> HIDE DEF gs
  <2> QED BY <1>1, <1>6, <2>1, FlattenTexts
<1>8. FlattenSeq(hs) \in Texts
  <2>1. hs = [i \in 1..Len(s) |-> hs[i]]
    OBVIOUS
  <2> HIDE DEF hs
  <2> QED BY <1>1, <1>6, <2>1, FlattenTexts
<1>9. FlattenSeq(us) \in Texts
  <2>1. us = [i \in 1..Len(s) |-> us[i]]
    OBVIOUS
  <2> HIDE DEF us
  <2> QED BY <1>1, <1>6, <2>1, FlattenTexts
<1>10. to_stfu8(s) \in Texts
  BY <1>7 DEF to_stfu8
<1>11. EscapeQuotes(s) \in Texts
  BY <1>8 DEF EscapeQuotes
<1>12. UnescapeQuotes(s) \in Texts
  BY <1>9 DEF UnescapeQuotes
<1> QED BY <1>10, <1>11, <1>12

\* Two texts one after the other are a text.
LEMMA TextsJoin ==
  ASSUME NEW s \in Texts, NEW t \in Texts
  PROVE  s \o t \in Texts
BY DEF Texts

\* arg::quote gives a text.
LEMMA QuoteTyped ==
  ASSUME NEW s \in Texts
  PROVE  quote(s) \in Texts /\ <<Blank>> \o quote(s) \in Texts
<1>1. /\ <<"$", Quote>> \in Texts /\ <<Quote>> \in Texts /\ <<Blank>> \in Texts
  <2>1. "$" \in Characters /\ Quote \in Characters /\ Blank \in Characters
    BY TextsAssumption DEF SpecialChars
  <2>2. \A a, b \in Characters : <<a>> \in Texts /\ <<a, b>> \in Texts
    BY DEF Texts
  <2> QED BY <2>1, <2>2
<1>2. quote(s) \in Texts
  <2>1. EscapeQuotes(to_stfu8(s)) \in Texts
    BY EscapesTyped
  <2>2. <<"$", Quote>> \o EscapeQuotes(to_stfu8(s)) \o <<Quote>> \in Texts
    BY <1>1, <2>1, TextsJoin
  <2>3. <<Quote>> \o s \o <<Quote>> \in Texts
    BY <1>1, TextsJoin
  <2> QED BY <2>2, <2>3 DEF quote
<1> QED BY <1>1, <1>2, TextsJoin

\* arg::join gives a text, the command line of the report.
LEMMA JoinTyped ==
  ASSUME NEW words \in Seq(Texts)
  PROVE  join(words) \in Texts
<1> DEFINE gs == [i \in 1..Len(words) |-> IF i = 1 THEN quote(words[i]) ELSE <<Blank>> \o quote(words[i])]
<1>1. Len(words) \in Nat /\ \A i \in 1..Len(words) : words[i] \in Texts
  OBVIOUS
<1>2. \A i \in 1..Len(words) : gs[i] \in Texts
  BY <1>1, QuoteTyped
<1>3. FlattenSeq(gs) \in Texts
  BY <1>1, <1>2, FlattenTexts
<1> QED BY <1>3 DEF join

-----------------------------------------------------------------------------
(* Splitting.                                                              *)

\* The states of arg::split.
SplitStates ==
  {"Delimiter", "Unquoted", "Backslash", "UnquotedBackslash", "SingleQuoted", "DoubleQuoted",
   "DoubleQuotedBackslash", "Dollar", "DollarQuoted", "DollarQuotedBackslash", "Comment", "Failed"}

\* What arg::split has after some characters.
SplitState ==
  [state : SplitStates,
   word : Texts, words : Seq(Texts), pos : Nat, from : Nat]

\* A slice is a text, unless it cuts a character into two.
LEMMA SliceTyped ==
  ASSUME NEW s \in Texts, NEW from, NEW to
  PROVE  Slice(s, from, to) \in Texts \cup {Failed}
<1> DEFINE offset == CHOOSE f : f = [i \in 0..Len(s) |-> IF i = 0 THEN 0 ELSE f[i - 1] + Bytes(s[i])]
           at(b) == {i \in 0..Len(s) : offset[i] = b}
<1>1. Slice(s, from, to) = IF at(from) = {} \/ at(to) = {} \/ from > to THEN Failed
                           ELSE SubSeq(s, (CHOOSE i \in at(from) : TRUE) + 1, CHOOSE i \in at(to) : TRUE)
  BY DEF Slice
<1>2. \A m, n \in 0..Len(s) : SubSeq(s, m + 1, n) \in Texts
  <2> SUFFICES ASSUME NEW m \in 0..Len(s), NEW n \in 0..Len(s) PROVE SubSeq(s, m + 1, n) \in Texts
    OBVIOUS
  <2>1. s \in Seq(Characters) /\ m \in Nat /\ n \in Nat /\ m + 1 >= 1 /\ n <= Len(s)
    BY DEF Texts
  <2> QED BY <2>1 DEF Texts
<1>3. \A b : at(b) \subseteq 0..Len(s)
  OBVIOUS
<1> HIDE DEF at, offset
<1> QED BY <1>1, <1>2, <1>3

\* What a step of arg::split is put together from keeps its types.
LEMMA StepTyped ==
  ASSUME NEW st \in SplitState
  PROVE  \A state \in SplitStates :
           /\ To(st, state) \in SplitState
           /\ \A t \in Texts : Add(st, t, state) \in SplitState
           /\ EndWord(st, state) \in SplitState
           /\ \A n \in Nat : [To(st, state) EXCEPT !.from = n] \in SplitState
<1> SUFFICES ASSUME NEW state \in SplitStates
             PROVE  /\ To(st, state) \in SplitState
                    /\ \A t \in Texts : Add(st, t, state) \in SplitState
                    /\ EndWord(st, state) \in SplitState
                    /\ \A n \in Nat : [To(st, state) EXCEPT !.from = n] \in SplitState
  OBVIOUS
<1> DEFINE X == Texts
           Y == Seq(X)
<1>1. \A s, t \in X : s \o t \in X
  BY TextsJoin
<1>2. \A s \in Y, t \in X : Append(s, t) \in Y
  <2> HIDE DEF X
  <2> QED OBVIOUS
<1>3. <<>> \in X
  BY DEF Texts
<1> USE DEF SplitState
<1> HIDE DEF X, Y
<1>4. st.word \in X /\ st.words \in Y
  BY DEF X, Y
<1>5. To(st, state) \in SplitState
  BY DEF To
<1>6. ASSUME NEW t \in Texts PROVE Add(st, t, state) \in SplitState
  <2>1. st.word \o t \in X
    BY <1>1, <1>4 DEF X
  <2> QED BY <2>1 DEF Add, X
<1>7. EndWord(st, state) \in SplitState
  <2>1. Append(st.words, st.word) \in Y
    BY <1>2, <1>4
  <2> QED BY <1>3, <2>1 DEF EndWord, X, Y
<1>8. \A n \in Nat : [To(st, state) EXCEPT !.from = n] \in SplitState
  BY DEF To
<1> QED BY <1>5, <1>6, <1>7, <1>8

\* One character: arg::split stays among its states.
LEMMA AfterTyped ==
  ASSUME NEW st \in SplitState, NEW c \in Characters, NEW s \in Texts
  PROVE  After(st, c, s) \in SplitState
<1>1. <<c>> \in Texts /\ <<Backslash, c>> \in Texts
  <2>1. Backslash \in Characters
    BY TextsAssumption DEF SpecialChars
  <2> QED BY <2>1 DEF Texts
<1>2. \A state \in SplitStates :
           /\ To(st, state) \in SplitState
           /\ \A t \in Texts : Add(st, t, state) \in SplitState
           /\ EndWord(st, state) \in SplitState
           /\ \A n \in Nat : [To(st, state) EXCEPT !.from = n] \in SplitState
  BY StepTyped
<1>3. st.pos + 1 \in Nat /\ st.state \in SplitStates
  BY DEF SplitState
<1>4. ASSUME NEW escape \in SplitStates, c \in Openers PROVE Opening(st, c, escape) \in SplitState
  <2>1. To(st, "SingleQuoted") \in SplitState /\ To(st, "DoubleQuoted") \in SplitState
        /\ To(st, "Dollar") \in SplitState /\ To(st, escape) \in SplitState
    BY <1>2 DEF SplitStates
  <2>2. c \in {Quote, DoubleQuote, Backslash, "$"}
    BY <1>4 DEF Openers
  <2>3. CASE c = Quote
    BY <2>1, <2>3 DEF Opening
  <2>4. CASE c = DoubleQuote
    <3>1. Opening(st, c, escape) = To(st, "DoubleQuoted")
      BY <2>4 DEF Opening, Quote, DoubleQuote, Backslash
    <3> QED BY <2>1, <3>1
  <2>5. CASE c = Backslash
    <3>1. Opening(st, c, escape) = To(st, escape)
      BY <2>5 DEF Opening, Quote, DoubleQuote, Backslash
    <3> QED BY <2>1, <3>1
  <2>6. CASE c = "$"
    <3>1. Opening(st, c, escape) = To(st, "Dollar")
      BY <2>6 DEF Opening, Quote, DoubleQuote, Backslash
    <3> QED BY <2>1, <3>1
  <2> QED BY <2>2, <2>3, <2>4, <2>5, <2>6
<1>5. DollarQuoted(st, s) \in SplitState
  <2> DEFINE chunk == Slice(s, st.from, st.pos)
             decoded == IF chunk = Failed THEN Failed ELSE from_stfu8(UnescapeQuotes(chunk))
  <2>1. chunk \in Texts \cup {Failed}
    BY SliceTyped
  <2>2. decoded \in Texts \cup {Failed}
    <3> HIDE DEF chunk
    <3> QED BY <2>1, EscapesTyped, DecodedTyped
  <2>3. DollarQuoted(st, s) = IF decoded = Failed THEN To(st, "Failed") ELSE Add(st, decoded, "Unquoted")
    BY DEF DollarQuoted
  <2> HIDE DEF decoded
  <2>4. "Failed" \in SplitStates /\ "Unquoted" \in SplitStates
    BY DEF SplitStates
  <2> QED BY <1>2, <2>2, <2>3, <2>4
<1>6. /\ \A state \in SplitStates : To(st, state) \in SplitState /\ EndWord(st, state) \in SplitState
      /\ \A state \in SplitStates : Add(st, <<c>>, state) \in SplitState
      /\ \A state \in SplitStates : Add(st, <<Backslash, c>>, state) \in SplitState
      /\ [To(st, "DollarQuoted") EXCEPT !.from = st.pos + 1] \in SplitState
  BY <1>1, <1>2, <1>3 DEF SplitStates
<1>7. /\ c \in Openers => /\ Opening(st, c, "Backslash") \in SplitState
                          /\ Opening(st, c, "UnquotedBackslash") \in SplitState
  BY <1>4 DEF SplitStates
<1>8. CASE st.state = "Delimiter"
  BY <1>6, <1>7, <1>8 DEF After, SplitStates
<1>9. CASE st.state = "Unquoted"
  BY <1>6, <1>7, <1>9 DEF After, SplitStates
<1>10. CASE st.state \in {"Backslash", "UnquotedBackslash", "SingleQuoted", "Dollar", "Comment",
                          "DollarQuotedBackslash"}
  BY <1>6, <1>10 DEF After, SplitStates
<1>11. CASE st.state \in {"DoubleQuoted", "DoubleQuotedBackslash"}
  BY <1>6, <1>11 DEF After, SplitStates
<1>12. CASE st.state = "DollarQuoted"
  BY <1>5, <1>6, <1>12 DEF After, SplitStates
<1>13. CASE st.state = "Failed"
  BY <1>13 DEF After
<1> QED BY <1>3, <1>8, <1>9, <1>10, <1>11, <1>12, <1>13 DEF SplitStates

\* All the states of arg::split along a text.
Splits(s, f) ==
  f = [n \in 0..Len(s) |->
         IF n = 0 THEN [state |-> "Delimiter", word |-> <<>>, words |-> <<>>, pos |-> 0, from |-> 0]
                  ELSE [After(f[n - 1], s[n], s) EXCEPT !.pos = n]]

\* arg::split is what is left after the last character.
LEMMA SplitsAre ==
  ASSUME NEW s \in Texts
  PROVE  \E f \in [0..Len(s) -> SplitState] : Splits(s, f) /\ split(s) = AtEnd(f[Len(s)])
<1> DEFINE n == Len(s)
           first == [state |-> "Delimiter", word |-> <<>>, words |-> <<>>, pos |-> 0, from |-> 0]
           step == [k \in 1..n |-> [d \in SplitState |-> [After(d, s[k], s) EXCEPT !.pos = k]]]
           f == CHOOSE g : Splits(s, g)
<1>1. n \in Nat /\ \A k \in 1..n : s[k] \in Characters
  BY DEF Texts
<1>2. first \in SplitState
  BY DEF SplitState, SplitStates, Texts
<1>3. \A d \in SplitState, k \in 1..n : [After(d, s[k], s) EXCEPT !.pos = k] \in SplitState
  <2> SUFFICES ASSUME NEW d \in SplitState, NEW k \in 1..n
               PROVE  [After(d, s[k], s) EXCEPT !.pos = k] \in SplitState
    OBVIOUS
  <2>1. After(d, s[k], s) \in SplitState /\ k \in Nat
    BY <1>1, AfterTyped
  <2> QED BY <2>1 DEF SplitState
<1>4. \E g : Splits(s, g)
  <2>1. step \in [1..n -> [SplitState -> SplitState]]
    BY <1>3
  <2>2. PICK g : Run(SplitState, first, n, step, g)
    <3> HIDE DEF step, n, first
    <3> QED BY <1>1, <1>2, <2>1, RunExists
  <2>3. \A k \in 0..n : g[k] = IF k = 0 THEN first ELSE [After(g[k - 1], s[k], s) EXCEPT !.pos = k]
    <3> SUFFICES ASSUME NEW k \in 0..n, k # 0 PROVE g[k] = [After(g[k - 1], s[k], s) EXCEPT !.pos = k]
      <4> HIDE DEF first
      <4> QED BY <2>2 DEF Run
    <3>1. k \in 1..n /\ k - 1 \in 0..n
      BY <1>1
    <3>2. g[k - 1] \in SplitState /\ g[k] = step[k][g[k - 1]]
      <4> HIDE DEF step, n
      <4> QED BY <2>2, <3>1 DEF Run
    <3> QED BY <3>1, <3>2
  <2>4. g = [k \in 0..n |-> g[k]]
    <3> HIDE DEF step, n, first
    <3> QED BY <2>2 DEF Run
  <2> QED BY <2>3, <2>4 DEF Splits
<1>5. Splits(s, f)
  BY <1>4
<1>6. split(s) = AtEnd(f[n])
  BY DEF split, Splits
<1> HIDE DEF f
<1>7. \A k \in 0..n : f[k] \in SplitState
  <2> DEFINE S == {k \in 0..n : f[k] \in SplitState}
  <2>1. 0 \in S
    BY <1>1, <1>2, <1>5 DEF Splits
  <2>2. ASSUME NEW k \in 1..n, k - 1 \in S PROVE k \in S
    <3>1. k \in 0..n /\ k # 0
      BY <1>1
    <3>2. f[k] = [After(f[k - 1], s[k], s) EXCEPT !.pos = k]
      BY <1>5, <3>1 DEF Splits
    <3> QED BY <1>3, <2>2, <3>1, <3>2
  <2> HIDE DEF S
  <2>3. \A k \in 0..n : k \in S
    BY <1>1, <2>1, <2>2, Upward
  <2> QED BY <2>3 DEF S
<1>8. f \in [0..n -> SplitState]
  BY <1>5, <1>7 DEF Splits
<1> QED BY <1>5, <1>6, <1>8

\* arg::split gives words, or fails.
LEMMA SplitTyped ==
  ASSUME NEW s \in Texts
  PROVE  split(s) \in Seq(Texts) \cup {Failed}
<1>1. PICK f \in [0..Len(s) -> SplitState] : split(s) = AtEnd(f[Len(s)])
  BY SplitsAre
<1> DEFINE st == f[Len(s)]
           X == Texts
<1>2. st.word \in X /\ st.words \in Seq(X)
  <2>1. Len(s) \in 0..Len(s)
    BY DEF Texts
  <2>2. st \in SplitState
    BY <2>1
  <2> QED BY <2>2 DEF SplitState
<1>3. Append(st.word, Backslash) \in X
  <2>1. Backslash \in Characters
    BY TextsAssumption DEF SpecialChars
  <2> QED BY <1>2, <2>1 DEF Texts
<1> HIDE DEF st, X
<1>4. Append(st.words, st.word) \in Seq(X) /\ Append(st.words, Append(st.word, Backslash)) \in Seq(X)
  BY <1>2, <1>3
<1>5. AtEnd(st) \in Seq(X) \cup {Failed}
  BY <1>2, <1>4 DEF AtEnd
<1> QED BY <1>1, <1>5 DEF st, X

-----------------------------------------------------------------------------
(* Command lines.                                                          *)

\* The paths a command line can contain, and the configurations it can stand for.
ParsedPaths == {From(text) : text \in Texts} \cup {<<CurDir>>}

GroupConfigs ==
  [isolate : BOOLEAN, matchLinks : BOOLEAN, unique : BOOLEAN, transform : BOOLEAN,
   rfOver : Counts \cup {NoCount}, rfUnder : Counts \cup {NoCount},
   baseDir : ParsedPaths, paths : Seq(ParsedPaths)]

\* What is known of a command line after some of its words.
Taking ==
  {Failed} \cup [config : GroupConfigs, option : {"", "rfOver", "rfUnder", "transform", "baseDir"}]

\* One word of the command line.
LEMMA TakeWordTyped ==
  ASSUME NEW done \in Taking, NEW word \in Texts
  PROVE  TakeWord(done, word) \in Taking
<1> DEFINE P == ParsedPaths
           N == Counts \cup {NoCount}
           C == [isolate : BOOLEAN, matchLinks : BOOLEAN, unique : BOOLEAN, transform : BOOLEAN,
                 rfOver : N, rfUnder : N, baseDir : P, paths : Seq(P)]
           O == {"", "rfOver", "rfUnder", "transform", "baseDir"}
<1>1. From(word) \in P
  BY DEF ParsedPaths
<1>2. Taking = {Failed} \cup [config : C, option : O]
  BY DEF Taking, GroupConfigs
<1>3. Counts \subseteq N
  OBVIOUS
<1>4. SUFFICES ASSUME done \in [config : C, option : O] PROVE TakeWord(done, word) \in {Failed} \cup [config : C, option : O]
  BY <1>2 DEF TakeWord
<1> HIDE DEF P, N
<1>5. \A q \in Seq(P) : Append(q, From(word)) \in Seq(P)
  BY <1>1
<1>6. CASE done = Failed
  BY <1>6 DEF TakeWord
<1>7. CASE done # Failed /\ done.option \in {"rfOver", "rfUnder"}
  <2> DEFINE n == CHOOSE m \in Counts : <<ToString(m)>> = word
  <2>1. TakeWord(done, word) = IF \E m \in Counts : <<ToString(m)>> = word
                                 THEN [config |-> [done.config EXCEPT ![done.option] = n], option |-> ""]
                                 ELSE Failed
    BY <1>7 DEF TakeWord
  <2>2. (\E m \in Counts : <<ToString(m)>> = word) => n \in N
    BY <1>3
  <2> HIDE DEF n
  <2>3. n \in N => [done.config EXCEPT ![done.option] = n] \in C
    <3>1. done.config \in C
      BY <1>4
    <3>2. n \in N => [done.config EXCEPT !.rfOver = n] \in C /\ [done.config EXCEPT !.rfUnder = n] \in C
      BY <3>1
    <3> QED BY <1>7, <3>2
  <2>4. n \in N => [config |-> [done.config EXCEPT ![done.option] = n], option |-> ""] \in [config : C, option : O]
    <3> HIDE DEF C
    <3> QED BY <2>3
  <2> HIDE DEF C, O
  <2> QED BY <2>1, <2>2, <2>4
<1>8. CASE done # Failed /\ done.option \in {"transform", "baseDir"}
  <2>1. done.config \in C
    BY <1>4
  <2>2. [done.config EXCEPT !.transform = TRUE] \in C /\ [done.config EXCEPT !.baseDir = From(word)] \in C
    BY <1>1, <2>1
  <2>3. TakeWord(done, word) \in {[config |-> [done.config EXCEPT !.transform = TRUE], option |-> ""],
                                  [config |-> [done.config EXCEPT !.baseDir = From(word)], option |-> ""]}
    <3> HIDE DEF C
    <3> QED BY <1>8 DEF TakeWord
  <2>4. [config |-> [done.config EXCEPT !.transform = TRUE], option |-> ""] \in [config : C, option : O]
    <3> HIDE DEF C
    <3> QED BY <2>2
  <2>5. [config |-> [done.config EXCEPT !.baseDir = From(word)], option |-> ""] \in [config : C, option : O]
    <3> HIDE DEF C
    <3> QED BY <2>2
  <2> HIDE DEF C, O
  <2> QED BY <2>3, <2>4, <2>5
<1>9. CASE done # Failed /\ done.option = ""
  <2> DEFINE f == CHOOSE o \in DOMAIN Flags : Flags[o] = word
             v == CHOOSE o \in DOMAIN Valued : Valued[o] = word
  <2>1. TakeWord(done, word) =
          CASE \E o \in DOMAIN Flags : Flags[o] = word -> [done EXCEPT !.config[f] = TRUE]
            [] \E o \in DOMAIN Valued : Valued[o] = word -> [done EXCEPT !.option = v]
            [] OTHER -> [done EXCEPT !.config.paths = Append(@, From(word))]
    BY <1>9 DEF TakeWord
  <2>2. (\E o \in DOMAIN Flags : Flags[o] = word) => f \in {"isolate", "matchLinks", "unique"}
    <3>1. DOMAIN Flags = {"isolate", "matchLinks", "unique"}
      BY DEF Flags
    <3> QED BY <3>1
  <2>3. (\E o \in DOMAIN Valued : Valued[o] = word) => v \in O
    <3>1. DOMAIN Valued = {"rfOver", "rfUnder", "transform", "baseDir"}
      BY DEF Valued
    <3> QED BY <3>1
  <2> HIDE DEF f, v
  <2>4. f \in {"isolate", "matchLinks", "unique"} => [done EXCEPT !.config[f] = TRUE] \in [config : C, option : O]
    <3>1. done.config \in C /\ done.option \in O
      BY <1>4
    <3>2. /\ [done.config EXCEPT !.isolate = TRUE] \in C
          /\ [done.config EXCEPT !.matchLinks = TRUE] \in C
          /\ [done.config EXCEPT !.unique = TRUE] \in C
      BY <3>1
    <3>3. f \in {"isolate", "matchLinks", "unique"} => [done.config EXCEPT ![f] = TRUE] \in C
      BY <3>2
    <3> HIDE DEF C, O
    <3> QED BY <1>4, <3>3
  <2>5. v \in O => [done EXCEPT !.option = v] \in [config : C, option : O]
    <3> HIDE DEF C, O
    <3> QED BY <1>4
  <2>6. [done EXCEPT !.config.paths = Append(@, From(word))] \in [config : C, option : O]
    <3>1. done.config \in C
      BY <1>4
    <3>2. Append(done.config.paths, From(word)) \in Seq(P)
      BY <1>5, <3>1
    <3>3. [done.config EXCEPT !.paths = Append(@, From(word))] \in C
      BY <3>1, <3>2
    <3> HIDE DEF C, O
    <3> QED BY <1>4, <3>3
  <2> HIDE DEF C, O
  <2> QED BY <2>1, <2>2, <2>3, <2>4, <2>5, <2>6
<1> QED BY <1>4, <1>6, <1>7, <1>8, <1>9

\* GroupConfig::try_parse_from gives a configuration, or fails.
LEMMA ParseTyped ==
  ASSUME NEW words \in Seq(Texts)
  PROVE  try_parse_from(words) \in GroupConfigs \cup {Failed}
<1> DEFINE n == Len(words)
           Takes(g) == g = [k \in 0..n |-> IF k < 3 THEN [config |-> Defaults, option |-> ""]
                                                    ELSE TakeWord(g[k - 1], words[k])]
           first == [config |-> Defaults, option |-> ""]
           step == [k \in 1..n |-> [d \in Taking |-> IF k < 3 THEN first ELSE TakeWord(d, words[k])]]
           f == CHOOSE g : Takes(g)
<1>1. n \in Nat /\ \A k \in 1..n : words[k] \in Texts
  OBVIOUS
<1>2. first \in Taking
  <2>1. Defaults \in GroupConfigs
    <3>1. NoCount \in Counts \cup {NoCount} /\ <<CurDir>> \in ParsedPaths /\ <<>> \in Seq(ParsedPaths)
      BY DEF ParsedPaths
    <3> QED BY <3>1 DEF Defaults, GroupConfigs
  <2> QED BY <2>1 DEF Taking
<1>3. \A d \in Taking, k \in 1..n : (IF k < 3 THEN first ELSE TakeWord(d, words[k])) \in Taking
  <2> HIDE DEF first
  <2> QED BY <1>1, <1>2, TakeWordTyped
<1>4. \E g : Takes(g)
  <2>1. step \in [1..n -> [Taking -> Taking]]
    <3> HIDE DEF first
    <3> QED BY <1>3
  <2>2. PICK g : Run(Taking, first, n, step, g)
    <3> HIDE DEF step, n, first
    <3> QED BY <1>1, <1>2, <2>1, RunExists
  <2>3. \A k \in 0..n : g[k] = IF k < 3 THEN first ELSE TakeWord(g[k - 1], words[k])
    <3> HIDE DEF first
    <3>1. g[0] = first
      BY <2>2 DEF Run
    <3> SUFFICES ASSUME NEW k \in 0..n, k # 0 PROVE g[k] = IF k < 3 THEN first ELSE TakeWord(g[k - 1], words[k])
      BY <3>1, <1>1
    <3>2. k \in 1..n /\ k - 1 \in 0..n
      BY <1>1
    <3>3. g[k - 1] \in Taking /\ g[k] = step[k][g[k - 1]]
      <4> HIDE DEF step, n
      <4> QED BY <2>2, <3>2 DEF Run
    <3> QED BY <3>2, <3>3
  <2>4. g = [k \in 0..n |-> g[k]]
    <3> HIDE DEF step, n, first
    <3> QED BY <2>2 DEF Run
  <2> QED BY <2>3, <2>4
<1>5. Takes(f)
  <2> HIDE DEF Takes
  <2> QED BY <1>4
<1>6. try_parse_from(words) = IF f[n] = Failed \/ (f[n] # Failed /\ f[n].option # "") THEN Failed ELSE f[n].config
  BY DEF try_parse_from
<1> HIDE DEF f
<1>7. f[n] \in Taking
  <2> DEFINE S == {k \in 0..n : f[k] \in Taking}
  <2>1. \A k \in 0..n : f[k] = IF k < 3 THEN first ELSE TakeWord(f[k - 1], words[k])
    <3>1. f = [k \in 0..n |-> IF k < 3 THEN first ELSE TakeWord(f[k - 1], words[k])]
      BY <1>5
    <3> HIDE DEF first
    <3> QED BY <3>1
  <2>2. 0 \in S
    <3>1. 0 \in 0..n /\ 0 < 3
      BY <1>1
    <3> HIDE DEF first
    <3> QED BY <1>2, <2>1, <3>1
  <2>3. ASSUME NEW k \in 1..n, k - 1 \in S PROVE k \in S
    <3>1. k \in 0..n
      BY <1>1
    <3> HIDE DEF first
    <3> QED BY <1>3, <2>1, <2>3, <3>1
  <2> HIDE DEF S
  <2>4. \A k \in 0..n : k \in S
    BY <1>1, <2>2, <2>3, Upward
  <2>5. n \in S
    BY <1>1, <2>4
  <2> QED BY <2>5 DEF S
<1> HIDE DEF n
<1>8. f[n] = Failed \/ f[n].config \in GroupConfigs
  BY <1>7 DEF Taking
<1> QED BY <1>6, <1>8

-----------------------------------------------------------------------------
(* The lines of a report.                                                  *)

\* Groups of the files F, the lines of one of them, of a path and of all groups.
GroupsOf(F) == Seq([len : Nat, files : Seq(F)])

Block(g) == <<GroupLine(g)>> \o PathLines(g.files)

PathLine(p) == [kind |-> "path", field |-> to_escaped_string(p)]

\* The groups within the lines of a report: each has its line and those of its paths.
InBody(groups, body, end) ==
  /\ end \in [0..Len(groups) -> Nat] /\ end[0] = 0 /\ end[Len(groups)] = Len(body)
  /\ \A i \in 1..Len(groups) :
       /\ end[i] = end[i - 1] + 1 + Len(groups[i].files) /\ end[i] <= Len(body)
       /\ body[end[i - 1] + 1] = GroupLine(groups[i])
       /\ \A j \in 1..Len(groups[i].files) : body[end[i - 1] + 1 + j] = PathLine(groups[i].files[j])

BodyOf(groups) == FlattenSeq([i \in 1..Len(groups) |-> Block(groups[i])])

\* The lines of the groups, each after those before it.
LEMMA BodyIs ==
  ASSUME NEW F, NEW groups \in GroupsOf(F)
  PROVE  /\ Proper(BodyOf(groups))
         /\ \A line \in ToSet(BodyOf(groups)) : line.kind \in {"group", "path"}
         /\ \E end : InBody(groups, BodyOf(groups), end)
<1> DEFINE n == Len(groups)
           blocks == [i \in 1..n |-> Block(groups[i])]
           G == {GroupLine(g) : g \in [len : Nat, files : Seq(F)]}
           P == {PathLine(p) : p \in F}
           S == G \cup P
           body == BodyOf(groups)
<1>1. n \in Nat /\ \A i \in 1..n : groups[i] \in [len : Nat, files : Seq(F)]
  <2> DEFINE X == [len : Nat, files : Seq(F)]
  <2>1. groups \in Seq(X)
    BY DEF GroupsOf
  <2> HIDE DEF X
  <2>2. n \in Nat /\ \A i \in 1..n : groups[i] \in X
    BY <2>1
  <2> QED BY <2>2 DEF X
<1>2. ASSUME NEW i \in 1..n
      PROVE  LET files == groups[i].files
             IN /\ files \in Seq(F) /\ Len(files) \in Nat
                /\ blocks[i] \in Seq(S) /\ Len(blocks[i]) = 1 + Len(files)
                /\ blocks[i][1] = GroupLine(groups[i])
                /\ \A j \in 1..Len(files) : blocks[i][1 + j] = PathLine(files[j])
  <2> DEFINE files == groups[i].files
             a == <<GroupLine(groups[i])>>
             b == PathLines(files)
  <2>1. files \in Seq(F) /\ Len(files) \in Nat
    BY <1>1
  <2>2. a \in Seq(S) /\ Len(a) = 1 /\ a[1] = GroupLine(groups[i])
    <3>1. GroupLine(groups[i]) \in S
      BY <1>1
    <3> HIDE DEF S
    <3> QED BY <3>1
  <2>3. b \in Seq(S) /\ Len(b) = Len(files) /\ \A j \in 1..Len(files) : b[j] = PathLine(files[j])
    <3>1. b = [j \in 1..Len(files) |-> PathLine(files[j])]
      BY DEF PathLines, PathLine
    <3>2. \A j \in 1..Len(files) : PathLine(files[j]) \in S
      BY <2>1
    <3> HIDE DEF b, S
    <3> QED BY <2>1, <3>1, <3>2
  <2>4. blocks[i] = a \o b
    BY DEF Block
  <2> HIDE DEF a, b, S, blocks, files
  <2>5. a \o b \in Seq(S) /\ Joins(a \o b, a, b)
    BY <2>2, <2>3, ConcatPlaces
  <2>6. (a \o b)[1] = a[1] /\ \A m \in 1..Len(files) : (a \o b)[1 + m] = b[m]
    BY <2>1, <2>2, <2>3, <2>5 DEF Joins
  <2>7. Len(a \o b) = 1 + Len(files)
    BY <2>1, <2>2, <2>3, <2>5 DEF Joins
  <2> QED BY <2>1, <2>2, <2>3, <2>4, <2>5, <2>6, <2>7 DEF files
<1>3. body = FlattenSeq(blocks)
  BY DEF BodyOf
<1>4. \A line \in S : line.kind \in {"group", "path"}
  BY DEF GroupLine, PathLine
<1>5. blocks = [i \in 1..n |-> blocks[i]]
  OBVIOUS
<1> HIDE DEF S, blocks, body
<1>6. blocks \in Seq(Seq(S)) /\ Len(blocks) = n
  <2> DEFINE X == Seq(S)
  <2>1. \A i \in 1..n : blocks[i] \in X
    BY <1>2
  <2> HIDE DEF X
  <2>2. blocks \in Seq(X) /\ Len(blocks) = n
    BY <1>1, <1>5, <2>1
  <2> QED BY <2>2 DEF X
<1>7. body \in Seq(S) /\ Proper(body) /\ ToSet(body) \subseteq S
  BY <1>3, <1>6, FlattenIs, ProperIs
<1>8. PICK end : Places(blocks, body, end)
  BY <1>3, <1>6, FlattenPlaces
<1>9. InBody(groups, body, end)
  <2>1. /\ end \in [0..n -> Nat] /\ end[0] = 0 /\ end[n] = Len(body)
        /\ \A i \in 1..n : end[i] = end[i - 1] + Len(blocks[i]) /\ end[i] <= Len(body)
        /\ \A i \in 1..n : \A m \in 1..Len(blocks[i]) : body[end[i - 1] + m] = blocks[i][m]
    BY <1>6, <1>8 DEF Places
  <2>2. ASSUME NEW i \in 1..n
        PROVE  /\ end[i] = end[i - 1] + 1 + Len(groups[i].files) /\ end[i] <= Len(body)
               /\ body[end[i - 1] + 1] = GroupLine(groups[i])
               /\ \A j \in 1..Len(groups[i].files) : body[end[i - 1] + 1 + j] = PathLine(groups[i].files[j])
    <3> DEFINE files == groups[i].files
    <3>1. /\ Len(files) \in Nat /\ Len(blocks[i]) = 1 + Len(files)
          /\ blocks[i][1] = GroupLine(groups[i])
          /\ \A j \in 1..Len(files) : blocks[i][1 + j] = PathLine(files[j])
      BY <1>2
    <3>2. end[i - 1] \in Nat
      BY <1>1, <2>1
    <3>x. \A e, l \in Nat : e + (1 + l) = e + 1 + l /\ \A j \in 1..l : 1 + j \in 1..(1 + l) /\ e + (1 + j) = e + 1 + j
      OBVIOUS
    <3> HIDE DEF files
    <3>3. end[i] = end[i - 1] + 1 + Len(files) /\ end[i] <= Len(body)
      <4>1. end[i] = end[i - 1] + Len(blocks[i]) /\ end[i] <= Len(body)
        BY <2>1
      <4>2. end[i - 1] + (1 + Len(files)) = end[i - 1] + 1 + Len(files)
        BY <3>1, <3>2, <3>x
      <4> QED BY <3>1, <4>1, <4>2
    <3>4. body[end[i - 1] + 1] = GroupLine(groups[i])
      BY <2>1, <3>1, <3>2
    <3>5. ASSUME NEW j \in 1..Len(files) PROVE body[end[i - 1] + 1 + j] = PathLine(files[j])
      <4>1. 1 + j \in 1..Len(blocks[i]) /\ end[i - 1] + (1 + j) = end[i - 1] + 1 + j
        BY <3>1, <3>2, <3>x
      <4> QED BY <2>1, <3>1, <4>1
    <3> QED BY <3>3, <3>4, <3>5 DEF files
  <2> QED BY <2>1, <2>2 DEF InBody
<1> QED BY <1>4, <1>7, <1>9 DEF body

\* Two sequences one after the other, whatever their members are.
LEMMA ConcatProper ==
  ASSUME NEW a, NEW b, Proper(a), Proper(b)
  PROVE  Proper(a \o b) /\ Joins(a \o b, a, b)
<1> DEFINE A == ToSet(a)
           B == ToSet(b)
           S == A \cup B
<1>1. a \in Seq(A) /\ b \in Seq(B) /\ A \subseteq S /\ B \subseteq S
  BY DEF Proper
<1> HIDE DEF A, B, S
<1>2. a \in Seq(S) /\ b \in Seq(S)
  BY <1>1
<1>3. a \o b \in Seq(S) /\ Joins(a \o b, a, b)
  BY <1>2, ConcatPlaces
<1> QED BY <1>3, ProperIs

\* The groups within a report, after its first `base` lines and up to the line `last`.
InReport(groups, W, base, last, end) ==
  /\ end \in [0..Len(groups) -> Nat] /\ end[0] = base /\ end[Len(groups)] = last
  /\ \A i \in 1..Len(groups) :
       /\ end[i] = end[i - 1] + 1 + Len(groups[i].files) /\ end[i - 1] >= base /\ end[i] <= last
       /\ W[end[i - 1] + 1] = GroupLine(groups[i])
       /\ \A j \in 1..Len(groups[i].files) : W[end[i - 1] + 1 + j] = PathLine(groups[i].files[j])

\* The header, from the line after `before` on, and the groups.
HasReport(W, h, groups, format, before, last) ==
  /\ Proper(W) /\ last \in Nat /\ last >= before + 7 /\ last <= Len(W)
  /\ \A i \in 1..7 : W[before + i] = HeaderLines(h, format)[i]
  /\ \A i \in (before + 8)..last : W[i].kind \in {"group", "path"}
  /\ \E end : InReport(groups, W, before + 7, last, end)

\* The seven lines of the header, in the order they are written and read in.
LEMMA HeaderLinesAre ==
  ASSUME NEW h, NEW format
  PROVE  LET lines7 == HeaderLines(h, format) IN
         /\ Proper(lines7) /\ Len(lines7) = 7
         /\ \A i \in 1..7 : lines7[i].kind = HeaderKinds[i]
         /\ lines7[2].field = HeaderField(h, "timestamp", format)
         /\ lines7[3].field = HeaderField(h, "command", format)
         /\ lines7[4].field = HeaderField(h, "base dir", format)
         /\ lines7[6].field = HeaderField(h, "redundant", format)
         /\ lines7[7].field = HeaderField(h, "missing", format)
<1> DEFINE lines7 == HeaderLines(h, format)
<1>1. Len(HeaderKinds) = 7
  BY DEF HeaderKinds
<1>2. lines7 = [i \in 1..7 |-> [kind |-> HeaderKinds[i], field |-> HeaderField(h, HeaderKinds[i], format)]]
  BY <1>1 DEF HeaderLines
<1>3. /\ HeaderKinds[2] = "timestamp" /\ HeaderKinds[3] = "command" /\ HeaderKinds[4] = "base dir"
      /\ HeaderKinds[6] = "redundant" /\ HeaderKinds[7] = "missing"
  BY DEF HeaderKinds
<1>4. Proper(lines7) /\ Len(lines7) = 7
  <2>1. lines7 = [i \in 1..7 |-> lines7[i]]
    BY <1>2
  <2> HIDE DEF lines7
  <2> QED BY <2>1, ProperIs
<1>5. \A i \in 1..7 : lines7[i] = [kind |-> HeaderKinds[i], field |-> HeaderField(h, HeaderKinds[i], format)]
  BY <1>2
<1> HIDE DEF lines7
<1>6. \A i \in 1..7 : lines7[i].kind = HeaderKinds[i] /\ lines7[i].field = HeaderField(h, HeaderKinds[i], format)
  BY <1>5
<1>7. /\ lines7[2].field = HeaderField(h, "timestamp", format)
      /\ lines7[3].field = HeaderField(h, "command", format)
      /\ lines7[4].field = HeaderField(h, "base dir", format)
      /\ lines7[6].field = HeaderField(h, "redundant", format)
      /\ lines7[7].field = HeaderField(h, "missing", format)
  <2>1. \A i \in {2, 3, 4, 6, 7} : lines7[i].field = HeaderField(h, HeaderKinds[i], format)
    BY <1>6
  <2> QED BY <1>3, <2>1
<1> QED BY <1>4, <1>6, <1>7 DEF lines7

\* The lines of the groups within a report whose first lines are others.
LEMMA BodyShifts ==
  ASSUME NEW F, NEW groups \in GroupsOf(F), NEW W, NEW base \in Nat,
         \A m \in 1..Len(BodyOf(groups)) : W[base + m] = BodyOf(groups)[m]
  PROVE  /\ Len(BodyOf(groups)) \in Nat
         /\ \A i \in (base + 1)..(base + Len(BodyOf(groups))) : W[i].kind \in {"group", "path"}
         /\ \E end : InReport(groups, W, base, base + Len(BodyOf(groups)), end)
<1> DEFINE body == BodyOf(groups)
           n == Len(groups)
<1>1. PICK e : InBody(groups, body, e)
  BY BodyIs
<1>2. Proper(body) /\ Len(body) \in Nat /\ \A i \in 1..Len(body) : body[i].kind \in {"group", "path"}
  BY BodyIs, ProperIs
<1> DEFINE end == [k \in 0..n |-> base + e[k]]
<1>3. n \in Nat /\ \A i \in 1..n : Len(groups[i].files) \in Nat
  <2> DEFINE X == [len : Nat, files : Seq(F)]
  <2>1. groups \in Seq(X)
    BY DEF GroupsOf
  <2>2. \A g \in X : Len(g.files) \in Nat
    OBVIOUS
  <2> HIDE DEF X
  <2> QED BY <2>1, <2>2
<1> HIDE DEF body
<1>4. ASSUME NEW i \in (base + 1)..(base + Len(body)) PROVE W[i].kind \in {"group", "path"}
  <2>1. i - base \in 1..Len(body) /\ base + (i - base) = i
    BY <1>2
  <2>2. W[base + (i - base)] = body[i - base]
    BY <2>1 DEF body
  <2> QED BY <1>2, <2>1, <2>2
<1>5. e \in [0..n -> Nat] /\ e[0] = 0 /\ e[n] = Len(body)
  BY <1>1 DEF InBody
<1>6. ASSUME NEW i \in 1..n
      PROVE  /\ end[i] = end[i - 1] + 1 + Len(groups[i].files) /\ end[i - 1] >= base /\ end[i] <= base + Len(body)
             /\ W[end[i - 1] + 1] = GroupLine(groups[i])
             /\ \A j \in 1..Len(groups[i].files) : W[end[i - 1] + 1 + j] = PathLine(groups[i].files[j])
  <2> DEFINE l == Len(groups[i].files)
             p == e[i - 1]
  <2>1. /\ e[i] = p + 1 + l /\ e[i] <= Len(body)
        /\ body[p + 1] = GroupLine(groups[i])
        /\ \A j \in 1..l : body[p + 1 + j] = PathLine(groups[i].files[j])
    BY <1>1 DEF InBody
  <2>2. end[i] = base + e[i] /\ end[i - 1] = base + p /\ p \in Nat /\ l \in Nat
    BY <1>3, <1>5
  <2> HIDE DEF end, p, l
  <2>3. /\ base + (p + 1 + l) = base + p + 1 + l /\ base + p >= base
        /\ base + (p + 1) = base + p + 1 /\ p + 1 \in 1..(p + 1 + l)
        /\ \A j \in 1..l : base + (p + 1 + j) = base + p + 1 + j /\ p + 1 + j \in 1..(p + 1 + l)
    BY <2>2
  <2>4. base + e[i] <= base + Len(body) /\ \A q \in 1..(p + 1 + l) : q \in 1..Len(body)
    BY <1>2, <2>1, <2>2
  <2>5. \A q \in 1..(p + 1 + l) : W[base + q] = body[q]
    BY <2>4 DEF body
  <2> HIDE <2>4
  <2>6. end[i] = end[i - 1] + 1 + l
    BY <2>1, <2>2, <2>3
  <2>7. W[end[i - 1] + 1] = GroupLine(groups[i])
    BY <2>1, <2>2, <2>3, <2>5
  <2>8. \A j \in 1..l : W[end[i - 1] + 1 + j] = PathLine(groups[i].files[j])
    BY <2>1, <2>2, <2>3, <2>5
  <2> QED BY <2>2, <2>3, <2>4, <2>6, <2>7, <2>8 DEF l
<1>7. /\ end \in [0..n -> Nat] /\ end[0] = base /\ end[n] = base + Len(body)
  BY <1>3, <1>5
<1>8. InReport(groups, W, base, base + Len(body), end)
  <2> HIDE DEF end
  <2> QED BY <1>6, <1>7 DEF InReport
<1> QED BY <1>2, <1>4, <1>8 DEF body

\* ReportWriter::write_as_text: the header, and then the groups.
LEMMA TextReportIs ==
  ASSUME NEW F, NEW groups \in GroupsOf(F), NEW h
  PROVE  LET W == write_as_text(h, groups)
         IN HasReport(W, h, groups, "default", 0, Len(W)) /\ W[1].kind = "version"
<1> DEFINE a == HeaderLines(h, "default")
           b == BodyOf(groups)
           W == write_as_text(h, groups)
<1>1. W = a \o b
  BY DEF write_as_text, BodyOf, Block
<1>2. Proper(a) /\ Len(a) = 7 /\ a[1].kind = "version"
  <2>1. HeaderKinds[1] = "version"
    BY DEF HeaderKinds
  <2>2. Proper(a) /\ Len(a) = 7 /\ \A i \in 1..7 : a[i].kind = HeaderKinds[i]
    BY HeaderLinesAre
  <2> HIDE DEF a
  <2>3. a[1].kind = HeaderKinds[1]
    BY <2>2
  <2> QED BY <2>1, <2>2, <2>3
<1>3. Proper(b) /\ Len(b) \in Nat
  BY BodyIs, ProperIs
<1> HIDE DEF a, b, W
<1>4. Proper(W) /\ Joins(W, a, b)
  BY <1>1, <1>2, <1>3, ConcatProper
<1>5. Len(W) = 7 + Len(b) /\ (\A m \in 1..7 : W[m] = a[m]) /\ \A m \in 1..Len(b) : W[7 + m] = b[m]
  BY <1>2, <1>4 DEF Joins
<1>6. /\ \A i \in 8..Len(W) : W[i].kind \in {"group", "path"}
      /\ \E end : InReport(groups, W, 7, Len(W), end)
  <2>1. /\ \A i \in (7 + 1)..(7 + Len(b)) : W[i].kind \in {"group", "path"}
        /\ \E end : InReport(groups, W, 7, 7 + Len(b), end)
    BY <1>5, BodyShifts DEF b
  <2> QED BY <1>5, <2>1
<1>7. Len(W) \in Nat /\ Len(W) >= 7 /\ Len(W) <= Len(W) /\ \A i \in 1..7 : 0 + i = i
  BY <1>3, <1>5
<1>8. HasReport(W, h, groups, "default", 0, Len(W))
  BY <1>4, <1>5, <1>6, <1>7 DEF HasReport, a
<1>9. W[1].kind = "version"
  BY <1>2, <1>5
<1> QED BY <1>8, <1>9 DEF W

\* ReportWriter::write_as_json: the same, between the lines that open and close it.
LEMMA JsonReportIs ==
  ASSUME NEW F, NEW groups \in GroupsOf(F), NEW h
  PROVE  LET W == write_as_json(h, groups)
         IN /\ HasReport(W, h, groups, "json", 1, Len(W) - 1)
            /\ W[1].kind = "open" /\ W[Len(W)].kind = "close"
<1> DEFINE o == <<[kind |-> "open", field |-> <<>>]>>
           a == HeaderLines(h, "json")
           b == BodyOf(groups)
           c == <<[kind |-> "close", field |-> <<>>]>>
           oa == o \o a
           oab == oa \o b
           W == write_as_json(h, groups)
<1>1. W = oab \o c
  BY DEF write_as_json, BodyOf, Block
<1>2. Proper(a) /\ Len(a) = 7
  BY HeaderLinesAre
<1>3. Proper(b) /\ Len(b) \in Nat
  BY BodyIs, ProperIs
<1>4. Proper(o) /\ Len(o) = 1 /\ o[1].kind = "open" /\ Proper(c) /\ Len(c) = 1 /\ c[1].kind = "close"
  <2>1. \A x : <<x>> \in Seq({x})
    OBVIOUS
  <2>2. Proper(o) /\ Proper(c)
    BY <2>1, ProperIs
  <2> QED BY <2>2
<1> HIDE DEF o, a, b, c
<1>5. Proper(oa) /\ Joins(oa, o, a)
  BY <1>2, <1>4, ConcatProper
<1> HIDE DEF oa
<1>6. Proper(oab) /\ Joins(oab, oa, b)
  BY <1>3, <1>5, ConcatProper
<1> HIDE DEF oab, W
<1>7. Proper(W) /\ Joins(W, oab, c)
  BY <1>1, <1>4, <1>6, ConcatProper
<1>8. Len(oa) = 8 /\ oa[1] = o[1] /\ \A m \in 1..7 : oa[1 + m] = a[m]
  BY <1>2, <1>4, <1>5 DEF Joins
<1>9. Len(oab) = 8 + Len(b) /\ (\A m \in 1..8 : oab[m] = oa[m]) /\ \A m \in 1..Len(b) : oab[8 + m] = b[m]
  BY <1>6, <1>8 DEF Joins
<1>10. Len(W) = 8 + Len(b) + 1 /\ (\A m \in 1..(8 + Len(b)) : W[m] = oab[m]) /\ W[8 + Len(b) + 1] = c[1]
  BY <1>4, <1>7, <1>9 DEF Joins
<1>11. /\ Len(W) - 1 = 8 + Len(b) /\ 8 + Len(b) \in Nat /\ 8 + Len(b) >= 8 /\ 8 + Len(b) <= 8 + Len(b) + 1
       /\ (\A m \in 1..8 : m \in 1..(8 + Len(b))) /\ (\A m \in 1..Len(b) : 8 + m \in 1..(8 + Len(b)))
       /\ (\A m \in 1..7 : 1 + m \in 1..8) /\ 1 \in 1..8 /\ 1 + 7 = 8
  BY <1>3, <1>10
<1>12. W[1] = o[1] /\ (\A m \in 1..7 : W[1 + m] = a[m]) /\ \A m \in 1..Len(b) : W[8 + m] = b[m]
  BY <1>8, <1>9, <1>10, <1>11
<1>13. /\ \A i \in 9..(8 + Len(b)) : W[i].kind \in {"group", "path"}
       /\ \E end : InReport(groups, W, 8, 8 + Len(b), end)
  <2>1. /\ \A i \in (8 + 1)..(8 + Len(b)) : W[i].kind \in {"group", "path"}
        /\ \E end : InReport(groups, W, 8, 8 + Len(b), end)
    BY <1>12, BodyShifts DEF b
  <2> QED BY <2>1
<1>14. HasReport(W, h, groups, "json", 1, 8 + Len(b))
  BY <1>7, <1>10, <1>11, <1>12, <1>13 DEF HasReport, a
<1>15. W[1].kind = "open" /\ W[Len(W)].kind = "close"
  BY <1>4, <1>10, <1>12
<1> QED BY <1>11, <1>14, <1>15 DEF W

\* The fdupes and csv reports have no header a reader knows.
LEMMA OtherReportsAre ==
  ASSUME NEW F, NEW groups \in GroupsOf(F)
  PROVE  /\ LET W == write_as_fdupes(groups)
            IN Proper(W) /\ \A i \in 1..Len(W) : W[i].kind \in {"path", "blank"}
         /\ LET W == write_as_csv(groups)
            IN Proper(W) /\ \A i \in 1..Len(W) : W[i].kind \in {"columns", "record"}
<1> DEFINE n == Len(groups)
           blank == <<[kind |-> "blank", field |-> <<>>]>>
           S == {PathLine(p) : p \in F} \cup {[kind |-> "blank", field |-> <<>>]}
           blocks == [i \in 1..n |-> PathLines(groups[i].files) \o blank]
           columns == <<[kind |-> "columns", field |-> <<>>]>>
           Record(g) == [kind |-> "record", field |-> [len |-> g.len,
                           files |-> [j \in DOMAIN g.files |-> to_escaped_string(g.files[j])]]]
           records == [i \in 1..n |-> Record(groups[i])]
           T == {Record(groups[i]) : i \in 1..n} \cup {[kind |-> "columns", field |-> <<>>]}
<1>1. n \in Nat /\ \A i \in 1..n : groups[i] \in [len : Nat, files : Seq(F)]
  <2> DEFINE X == [len : Nat, files : Seq(F)]
  <2>1. groups \in Seq(X)
    BY DEF GroupsOf
  <2> HIDE DEF X
  <2>2. n \in Nat /\ \A i \in 1..n : groups[i] \in X
    BY <2>1
  <2> QED BY <2>2 DEF X
<1>2. ASSUME NEW i \in 1..n PROVE blocks[i] \in Seq(S)
  <2> DEFINE files == groups[i].files
             a == PathLines(files)
  <2>1. files \in Seq(F) /\ Len(files) \in Nat
    BY <1>1
  <2>2. a \in Seq(S)
    <3>1. a = [j \in 1..Len(files) |-> PathLine(files[j])]
      BY DEF PathLines, PathLine
    <3>2. \A j \in 1..Len(files) : PathLine(files[j]) \in S
      BY <2>1
    <3> HIDE DEF a, S
    <3> QED BY <2>1, <3>1, <3>2
  <2>3. blank \in Seq(S)
    <3>1. [kind |-> "blank", field |-> <<>>] \in S
      OBVIOUS
    <3> HIDE DEF S
    <3> QED BY <3>1
  <2>4. blocks[i] = a \o blank
    OBVIOUS
  <2> HIDE DEF a, blank, S, blocks
  <2> QED BY <2>2, <2>3, <2>4
<1>3. \A line \in S : line.kind \in {"path", "blank"}
  BY DEF PathLine
<1>4. blocks = [i \in 1..n |-> blocks[i]]
  OBVIOUS
<1>5. write_as_fdupes(groups) = FlattenSeq(blocks)
  BY DEF write_as_fdupes
<1>6. LET W == write_as_fdupes(groups)
      IN Proper(W) /\ \A i \in 1..Len(W) : W[i].kind \in {"path", "blank"}
  <2> HIDE DEF S, blocks
  <2> DEFINE X == Seq(S)
  <2>1. \A i \in 1..n : blocks[i] \in X
    BY <1>2
  <2> HIDE DEF X
  <2>2. blocks \in Seq(X)
    BY <1>1, <1>4, <2>1
  <2>3. FlattenSeq(blocks) \in Seq(S)
    BY <2>2, FlattenIs DEF X
  <2>4. \A W \in Seq(S) : \A i \in 1..Len(W) : W[i] \in S
    OBVIOUS
  <2> QED BY <1>3, <1>5, <2>3, <2>4, ProperIs
<1>7. LET W == write_as_csv(groups)
      IN Proper(W) /\ \A i \in 1..Len(W) : W[i].kind \in {"columns", "record"}
  <2>1. write_as_csv(groups) = columns \o records
    BY DEF write_as_csv
  <2>2. \A line \in T : line.kind \in {"columns", "record"}
    OBVIOUS
  <2>3. columns \in Seq(T)
    <3>1. [kind |-> "columns", field |-> <<>>] \in T
      OBVIOUS
    <3> HIDE DEF T
    <3> QED BY <3>1
  <2>4. records \in Seq(T)
    <3>1. \A i \in 1..n : records[i] \in T
      OBVIOUS
    <3>2. records = [i \in 1..n |-> records[i]]
      OBVIOUS
    <3> HIDE DEF T, records
    <3> QED BY <1>1, <3>1, <3>2
  <2> HIDE DEF T, columns, records
  <2>5. columns \o records \in Seq(T)
    BY <2>3, <2>4
  <2>6. \A W \in Seq(T) : \A i \in 1..Len(W) : W[i] \in T
    OBVIOUS
  <2> QED BY <2>1, <2>2, <2>5, <2>6, ProperIs
<1> QED BY <1>6, <1>7

-----------------------------------------------------------------------------
(* Escapes come back.                                                      *)

\* The decoder once it has undone the first i characters of s.
Whole(s, i) == [text |-> SubSeq(s, 1, i), escaped |-> FALSE]

\* One more character undone.
LEMMA Extended ==
  ASSUME NEW s \in Texts, NEW i \in 1..Len(s)
  PROVE  /\ Whole(s, i - 1) \in [text : Texts, escaped : BOOLEAN]
         /\ Append(SubSeq(s, 1, i - 1), s[i]) = SubSeq(s, 1, i)
         /\ s[i] \in Characters
<1>1. s \in Seq(Characters) /\ Len(s) \in Nat
  BY DEF Texts
<1>2. SubSeq(s, 1, i - 1) \in Texts /\ s[i] \in Characters
  BY <1>1 DEF Texts
<1>3. Append(SubSeq(s, 1, i - 1), s[i]) = SubSeq(s, 1, i)
  <2>1. /\ SubSeq(s, 1, i - 1) \in Seq(Characters) /\ Len(SubSeq(s, 1, i - 1)) = i - 1
        /\ \A k \in 1..(i - 1) : SubSeq(s, 1, i - 1)[k] = s[k]
    BY <1>1
  <2>2. /\ SubSeq(s, 1, i) \in Seq(Characters) /\ Len(SubSeq(s, 1, i)) = i
        /\ \A k \in 1..i : SubSeq(s, 1, i)[k] = s[k]
    BY <1>1
  <2> DEFINE a == SubSeq(s, 1, i - 1)
             b == SubSeq(s, 1, i)
             c == Append(a, s[i])
  <2> HIDE DEF a, b
  <2>3. c \in Seq(Characters) /\ Len(c) = i /\ c[i] = s[i] /\ \A k \in 1..(i - 1) : c[k] = a[k]
    BY <1>1, <1>2, <2>1 DEF a
  <2>4. \A k \in 1..i : c[k] = b[k]
    <3>1. \A k \in 1..i : k = i \/ k \in 1..(i - 1)
      BY <1>1
    <3> HIDE DEF c
    <3> QED BY <2>1, <2>2, <2>3, <3>1 DEF a, b
  <2> HIDE DEF c
  <2>5. c = b
    BY <2>2, <2>3, <2>4 DEF b
  <2> QED BY <2>5 DEF a, b, c
<1> QED BY <1>2, <1>3 DEF Whole

\* What the characters of s were decoded to after the first n of its escaped form.
Undone(s, f, n) ==
  /\ f[n] \in Decoding /\ f[n] # Failed
  /\ f[n].escaped \/ \E i \in 0..Len(s) : f[n] = Whole(s, i) /\ (n = 0 \/ i # 0)

\* The decoder undoes each escaped character, whichever comes after it.
LEMMA EscapesUndone ==
  ASSUME NEW s \in Texts, NEW f \in [0..Len(to_stfu8(s)) -> Decoding], Decodes(to_stfu8(s), f)
  PROVE  /\ f[Len(to_stfu8(s))] = Whole(s, Len(s))
         /\ \A m \in 0..Len(to_stfu8(s)) : Undone(s, f, m)
<1> DEFINE n == Len(s)
           gs == [i \in 1..n |->
                    CASE s[i] = Backslash -> <<Backslash, Backslash>>
                      [] s[i] = Newline   -> <<Backslash, "n">>
                      [] OTHER            -> <<s[i]>>]
           flat == to_stfu8(s)
<1>1. n \in Nat /\ \A i \in 1..n : s[i] \in Characters
  BY DEF Texts
<1>2. flat = FlattenSeq(gs)
  BY DEF to_stfu8
<1>3. \A i \in 1..n :
        \/ s[i] = Backslash /\ gs[i] = <<Backslash, Backslash>>
        \/ s[i] = Newline /\ gs[i] = <<Backslash, "n">>
        \/ s[i] # Backslash /\ gs[i] = <<s[i]>>
  <2> SUFFICES ASSUME NEW i \in 1..n
               PROVE  \/ s[i] = Backslash /\ gs[i] = <<Backslash, Backslash>>
                      \/ s[i] = Newline /\ gs[i] = <<Backslash, "n">>
                      \/ s[i] # Backslash /\ gs[i] = <<s[i]>>
    OBVIOUS
  <2>1. CASE s[i] = Backslash
    BY <2>1
  <2>2. CASE s[i] # Backslash /\ s[i] = Newline
    BY <2>2
  <2>3. CASE s[i] # Backslash /\ s[i] # Newline
    BY <2>3
  <2> QED BY <2>1, <2>2, <2>3
<1>4. gs = [i \in 1..n |-> gs[i]]
  OBVIOUS
<1> HIDE DEF gs, flat
<1>5. gs \in Seq(Seq(Characters)) /\ Len(gs) = n
  <2> DEFINE X == Seq(Characters)
  <2>1. Backslash \in Characters /\ "n" \in Characters
    BY TextsAssumption DEF SpecialChars
  <2>2. \A a, b \in Characters : <<a>> \in X /\ <<a, b>> \in X
    OBVIOUS
  <2> HIDE DEF X
  <2>3. \A i \in 1..n : gs[i] \in X
    BY <1>1, <1>3, <2>1, <2>2
  <2>4. gs \in Seq(X) /\ Len(gs) = n
    BY <1>1, <1>4, <2>3
  <2> QED BY <2>4 DEF X
<1>6. PICK end : Places(gs, flat, end)
  BY <1>2, <1>5, FlattenPlaces
<1>7. /\ end \in [0..n -> Nat] /\ end[0] = 0 /\ end[n] = Len(flat)
      /\ \A i \in 1..n : end[i] = end[i - 1] + Len(gs[i]) /\ end[i] <= Len(flat)
      /\ \A i \in 1..n : \A m \in 1..Len(gs[i]) : flat[end[i - 1] + m] = gs[i][m]
  BY <1>5, <1>6 DEF Places
<1>8. /\ f \in [0..Len(flat) -> Decoding]
      /\ f[0] = Undecoded
      /\ \A m \in 1..Len(flat) : f[m] = Decode(f[m - 1], flat[m])
  <2>1. Len(flat) \in Nat
    BY <1>1, <1>7
  <2>2. \A m \in 1..Len(flat) : m \in 0..Len(flat) /\ m # 0
    BY <2>1
  <2>3. f = [m \in 0..Len(flat) |-> IF m = 0 THEN Undecoded ELSE Decode(f[m - 1], flat[m])]
    BY DEF Decodes, flat
  <2> QED BY <2>1, <2>2, <2>3 DEF flat
<1>9. \A i \in 0..n : Whole(s, i) \in Decoding /\ Whole(s, i) # Failed
  <2>1. \A i \in 0..n : SubSeq(s, 1, i) \in Texts
    BY <1>1 DEF Texts
  <2>2. \A t \in Texts : [text |-> t, escaped |-> FALSE] \in [text : Texts, escaped : BOOLEAN]
    OBVIOUS
  <2>3. \A d \in [text : Texts, escaped : BOOLEAN] : d \in Decoding /\ d # Failed
    BY TextsAssumption DEF Decoding
  <2> QED BY <2>1, <2>2, <2>3 DEF Whole
<1> DEFINE S == {k \in 0..n : f[end[k]] = Whole(s, k) /\ \A m \in 0..end[k] : Undone(s, f, m)}
<1>10. 0 \in S
  <2>1. Undecoded = Whole(s, 0)
    <3>1. SubSeq(s, 1, 0) = <<>>
      BY DEF Texts
    <3> QED BY <3>1 DEF Undecoded, Whole
  <2>2. f[0] = Whole(s, 0) /\ 0 \in 0..n
    BY <1>1, <1>8, <2>1
  <2>3. Undone(s, f, 0)
    BY <1>9, <2>2 DEF Undone
  <2>4. \A m \in 0..0 : m = 0
    OBVIOUS
  <2> QED BY <1>7, <2>2, <2>3, <2>4
<1>11. ASSUME NEW k \in 1..n, k - 1 \in S PROVE k \in S
  <2> DEFINE e == end[k - 1]
             w == Whole(s, k - 1)
  <2>1. /\ f[e] = w /\ (\A m \in 0..e : Undone(s, f, m)) /\ e \in Nat
        /\ w \in [text : Texts, escaped : BOOLEAN] /\ w # Failed
        /\ ~w.escaped /\ w.text = SubSeq(s, 1, k - 1)
    <3>1. k - 1 \in 0..n
      BY <1>1
    <3>2. w \in [text : Texts, escaped : BOOLEAN]
      BY Extended
    <3>3. f[e] = w /\ (\A m \in 0..e : Undone(s, f, m)) /\ e \in Nat
      BY <1>7, <1>11, <3>1
    <3> QED BY <1>9, <3>1, <3>2, <3>3 DEF Whole
  <2> HIDE DEF e, w
  <2>2. [w EXCEPT !.text = Append(@, s[k])] = Whole(s, k)
        /\ [text |-> Append(w.text, s[k]), escaped |-> FALSE] = Whole(s, k)
    <3>1. Append(w.text, s[k]) = SubSeq(s, 1, k)
      BY <2>1, Extended
    <3>2. [w EXCEPT !.text = Append(@, s[k])] = [text |-> Append(w.text, s[k]), escaped |-> FALSE]
      <4>1. w = [text |-> w.text, escaped |-> FALSE]
        BY DEF w, Whole
      <4>2. \A t, u : [[text |-> u, escaped |-> FALSE] EXCEPT !.text = t] = [text |-> t, escaped |-> FALSE]
        OBVIOUS
      <4>3. [w EXCEPT !.text = Append(@, s[k])] = [w EXCEPT !.text = Append(w.text, s[k])]
        BY <4>1
      <4> QED BY <4>1, <4>2, <4>3
    <3> QED BY <3>1, <3>2 DEF Whole
  <2>3. Whole(s, k) \in Decoding /\ Whole(s, k) # Failed /\ k \in 0..n /\ k # 0
    BY <1>1, <1>9
  <2>4. CASE s[k] # Backslash /\ gs[k] = <<s[k]>>
    <3>1. end[k] = e + 1 /\ flat[e + 1] = s[k] /\ e + 1 \in 1..Len(flat) /\ e + 1 - 1 = e
      <4>1. Len(gs[k]) = 1 /\ gs[k][1] = s[k] /\ 1 \in 1..Len(gs[k])
        BY <2>4
      <4>2. flat[end[k - 1] + 1] = gs[k][1] /\ end[k] = end[k - 1] + Len(gs[k]) /\ end[k] <= Len(flat)
        BY <1>7, <4>1
      <4> QED BY <1>7, <2>1, <4>1, <4>2 DEF e
    <3>2. f[e + 1] = Whole(s, k)
      <4>1. f[e + 1] = Decode(w, s[k])
        BY <1>8, <2>1, <3>1
      <4> QED BY <2>1, <2>2, <2>4, <4>1 DEF Decode
    <3>3. Undone(s, f, e + 1)
      BY <2>3, <3>2 DEF Undone
    <3>4. \A m \in 0..(e + 1) : m \in 0..e \/ m = e + 1
      BY <2>1
    <3> QED BY <2>1, <2>3, <3>1, <3>2, <3>3, <3>4
  <2>5. CASE \E c \in {Backslash, "n"} :
               gs[k] = <<Backslash, c>> /\ s[k] = IF c = "n" THEN Newline ELSE c
    <3> PICK c \in {Backslash, "n"} : gs[k] = <<Backslash, c>> /\ s[k] = IF c = "n" THEN Newline ELSE c
      BY <2>5
    <3>1. /\ end[k] = e + 2 /\ flat[e + 1] = Backslash /\ flat[e + 2] = c
          /\ e + 1 \in 1..Len(flat) /\ e + 1 - 1 = e /\ e + 2 \in 1..Len(flat) /\ e + 2 - 1 = e + 1
      <4>1. Len(gs[k]) = 2 /\ gs[k][1] = Backslash /\ gs[k][2] = c /\ 1 \in 1..Len(gs[k]) /\ 2 \in 1..Len(gs[k])
        OBVIOUS
      <4>2. /\ flat[end[k - 1] + 1] = gs[k][1] /\ flat[end[k - 1] + 2] = gs[k][2]
            /\ end[k] = end[k - 1] + Len(gs[k]) /\ end[k] <= Len(flat)
        BY <1>7, <4>1
      <4>3. \A a, b \in Nat : a + 2 <= b => /\ a + 1 \in 1..b /\ a + 1 - 1 = a /\ a + 2 \in 1..b
                                            /\ a + 2 - 1 = a + 1
        OBVIOUS
      <4>4. end[k] = e + 2 /\ flat[e + 1] = Backslash /\ flat[e + 2] = c /\ e + 2 <= Len(flat)
        BY <4>1, <4>2 DEF e
      <4>5. Len(flat) \in Nat /\ e \in Nat
        BY <1>1, <1>7, <2>1
      <4> QED BY <4>3, <4>4, <4>5
    <3>2. f[e + 1] = [w EXCEPT !.escaped = TRUE]
      <4>1. f[e + 1] = Decode(w, Backslash)
        BY <1>8, <2>1, <3>1
      <4> QED BY <2>1, <4>1 DEF Decode
    <3>3. /\ f[e + 1] \in [text : Texts, escaped : BOOLEAN] /\ f[e + 1].escaped /\ f[e + 1] # Failed
          /\ f[e + 1].text = w.text
      <4>1. f[e + 1] \in [text : Texts, escaped : BOOLEAN] /\ f[e + 1].escaped /\ f[e + 1].text = w.text
        BY <2>1, <3>2
      <4> QED BY <4>1, TextsAssumption
    <3>4. f[e + 2] = Whole(s, k)
      <4>1. f[e + 2] = Decode(f[e + 1], c)
        <5> DEFINE m == e + 2
        <5>1. m \in 1..Len(flat) /\ m - 1 = e + 1 /\ flat[m] = c
          <6>1. flat[e + 2] = c /\ e + 2 - 1 = e + 1
            BY <3>1
          <6>2. e + 2 \in 1..Len(flat)
            BY <3>1
          <6> QED BY <6>1, <6>2
        <5> HIDE DEF m
        <5>2. f[m] = Decode(f[m - 1], flat[m])
          BY <1>8, <5>1
        <5>3. f[m] = Decode(f[e + 1], c)
          BY <5>1, <5>2
        <5> QED BY <5>3 DEF m
      <4>2. Decode(f[e + 1], c) = [text |-> Append(f[e + 1].text, IF c = "n" THEN Newline ELSE c), escaped |-> FALSE]
        <5> DEFINE d == f[e + 1]
        <5>1. d # Failed /\ d.escaped
          BY <3>3
        <5> HIDE DEF d
        <5>2. Decode(d, c) = [text |-> Append(d.text, IF c = "n" THEN Newline ELSE c), escaped |-> FALSE]
          BY <5>1 DEF Decode
        <5> QED BY <5>2 DEF d
      <4> QED BY <2>2, <3>3, <4>1, <4>2
    <3>5. Undone(s, f, e + 1) /\ Undone(s, f, e + 2)
      <4>1. f[e + 1] \in Decoding
        BY <3>3 DEF Decoding
      <4> QED BY <2>3, <3>3, <3>4, <4>1 DEF Undone
    <3>6. \A m \in 0..(e + 2) : m \in 0..e \/ m = e + 1 \/ m = e + 2
      BY <2>1
    <3> QED BY <2>1, <2>3, <3>1, <3>4, <3>5, <3>6
  <2>6. Backslash # "n" /\ Newline # Backslash
    BY DEF Backslash, Newline
  <2> HIDE DEF S
  <2> QED BY <1>3, <2>4, <2>5, <2>6
<1> HIDE DEF S
<1>12. \A k \in 0..n : k \in S
  BY <1>1, <1>10, <1>11, Upward
<1>13. n \in S
  BY <1>1, <1>12
<1> QED BY <1>7, <1>13 DEF S, flat

\* path.rs, to_escaped_string and from_escaped_string: an escaped text comes back as it was. Of one
\* that was cut off nothing comes back, or a prefix of it.
THEOREM EscapedReturns ==
  ASSUME NEW s \in Texts
  PROVE  /\ from_stfu8(to_stfu8(s)) = s
         /\ \A m \in 1..Len(to_stfu8(s)) :
              from_stfu8(SubSeq(to_stfu8(s), 1, m)) \in {Failed} \cup {SubSeq(s, 1, i) : i \in 1..Len(s)}
<1> DEFINE t == to_stfu8(s)
<1>1. t \in Texts
  BY EscapesTyped
<1>2. PICK f \in [0..Len(t) -> Decoding] :
        /\ Decodes(t, f)
        /\ from_stfu8(t) = IF f[Len(t)] = Failed \/ (f[Len(t)] # Failed /\ f[Len(t)].escaped)
                             THEN Failed ELSE f[Len(t)].text
  BY <1>1, DecodesAre
<1>3. /\ f[Len(t)] = Whole(s, Len(s))
      /\ \A m \in 0..Len(t) : Undone(s, f, m)
  BY <1>2, EscapesUndone
<1>4. t \in Seq(Characters) /\ Len(t) \in Nat /\ s \in Seq(Characters) /\ Len(s) \in Nat
  BY <1>1 DEF Texts
<1> HIDE DEF t
<1>5. from_stfu8(t) = s
  <2>1. Undone(s, f, Len(t))
    BY <1>3, <1>4
  <2>2. SubSeq(s, 1, Len(s)) = s
    BY <1>4
  <2>3. Whole(s, Len(s)).text = s /\ ~Whole(s, Len(s)).escaped
    BY <2>2 DEF Whole
  <2> QED BY <1>2, <1>3, <2>1, <2>3 DEF Undone
<1>6. ASSUME NEW m \in 1..Len(t)
      PROVE  from_stfu8(SubSeq(t, 1, m)) \in {Failed} \cup {SubSeq(s, 1, i) : i \in 1..Len(s)}
  <2> DEFINE u == SubSeq(t, 1, m)
  <2>1. u \in Seq(Characters) /\ Len(u) = m /\ \A k \in 1..m : u[k] = t[k]
    BY <1>4
  <2>2. u \in Texts
    BY <2>1 DEF Texts
  <2> HIDE DEF u
  <2>3. PICK g \in [0..Len(u) -> Decoding] :
          /\ Decodes(u, g)
          /\ from_stfu8(u) = IF g[Len(u)] = Failed \/ (g[Len(u)] # Failed /\ g[Len(u)].escaped)
                               THEN Failed ELSE g[Len(u)].text
    BY <2>2, DecodesAre
  <2> DEFINE S == {k \in 0..m : g[k] = f[k]}
  <2>4. \A k \in 0..m : /\ g[k] = IF k = 0 THEN Undecoded ELSE Decode(g[k - 1], u[k])
                        /\ f[k] = IF k = 0 THEN Undecoded ELSE Decode(f[k - 1], t[k])
    <3>1. \A k \in 0..m : k \in 0..Len(t) /\ k \in 0..Len(u)
      BY <1>4, <2>1
    <3>2. f = [k \in 0..Len(t) |-> IF k = 0 THEN Undecoded ELSE Decode(f[k - 1], t[k])]
      BY <1>2 DEF Decodes
    <3>3. g = [k \in 0..Len(u) |-> IF k = 0 THEN Undecoded ELSE Decode(g[k - 1], u[k])]
      BY <2>3 DEF Decodes
    <3> QED BY <3>1, <3>2, <3>3
  <2>5. 0 \in S
    BY <1>4, <2>4
  <2>6. ASSUME NEW k \in 1..m, k - 1 \in S PROVE k \in S
    <3>1. k \in 0..m /\ k # 0 /\ g[k - 1] = f[k - 1]
      BY <1>4, <2>6
    <3>2. g[k] = Decode(g[k - 1], u[k]) /\ f[k] = Decode(f[k - 1], t[k]) /\ u[k] = t[k]
      BY <2>1, <2>4, <3>1
    <3> QED BY <3>1, <3>2
  <2> HIDE DEF S
  <2>7. \A k \in 0..m : k \in S
    <3>1. m \in Nat
      BY <1>4
    <3> QED BY <2>5, <2>6, <3>1, Upward
  <2>8. g[m] = f[m]
    <3>1. m \in S
      BY <1>4, <2>7
    <3> QED BY <3>1 DEF S
  <2>9. Undone(s, f, m)
    BY <1>3
  <2>x. from_stfu8(u) = IF f[m] = Failed \/ (f[m] # Failed /\ f[m].escaped) THEN Failed ELSE f[m].text
    BY <2>1, <2>3, <2>8
  <2>10. CASE f[m].escaped
    BY <2>9, <2>10, <2>x DEF Undone, u
  <2>11. CASE ~f[m].escaped
    <3>1. PICK i \in 1..Len(s) : f[m] = Whole(s, i)
      <4>1. PICK i \in 0..Len(s) : f[m] = Whole(s, i) /\ i # 0
        BY <2>9, <2>11 DEF Undone
      <4>2. i \in 1..Len(s)
        BY <1>4, <4>1
      <4> QED BY <4>1, <4>2
    <3>2. Whole(s, i).text = SubSeq(s, 1, i)
      BY DEF Whole
    <3>3. from_stfu8(u) = SubSeq(s, 1, i)
      BY <2>9, <2>11, <2>x, <3>1, <3>2 DEF Undone
    <3> QED BY <3>3 DEF u
  <2> QED BY <2>10, <2>11 DEF u
<1> QED BY <1>5, <1>6 DEF t

-----------------------------------------------------------------------------
(* Command lines come back.                                                *)

\* Where the characters of s have one byte each, a slice is a part of the sequence.
LEMMA SliceIs ==
  ASSUME NEW s \in Texts, \A m \in 1..Len(s) : Bytes(s[m]) = 1,
         NEW from \in 0..Len(s), NEW to \in 0..Len(s), from <= to
  PROVE  Slice(s, from, to) = SubSeq(s, from + 1, to)
<1> DEFINE n == Len(s)
           Counts0(f) == f = [i \in 0..n |-> IF i = 0 THEN 0 ELSE f[i - 1] + Bytes(s[i])]
           offset == CHOOSE f : Counts0(f)
           at(b) == {i \in 0..n : offset[i] = b}
<1>1. Slice(s, from, to) = IF at(from) = {} \/ at(to) = {} \/ from > to THEN Failed
                           ELSE SubSeq(s, (CHOOSE i \in at(from) : TRUE) + 1, CHOOSE i \in at(to) : TRUE)
  BY DEF Slice
<1>2. n \in Nat /\ from \in 0..n /\ to \in 0..n
  BY DEF Texts
<1> HIDE DEF n
<1>3. \E f : Counts0(f)
  <2> DEFINE g == [i \in 0..n |-> i]
  <2>1. \A i \in 0..n : g[i] = IF i = 0 THEN 0 ELSE g[i - 1] + Bytes(s[i])
    <3> SUFFICES ASSUME NEW i \in 0..n, i # 0 PROVE i = g[i - 1] + Bytes(s[i])
      OBVIOUS
    <3>1. i \in 1..n /\ i - 1 \in 0..n
      BY <1>2
    <3>2. Bytes(s[i]) = 1
      BY <3>1 DEF n
    <3> QED BY <3>1, <3>2
  <2>2. g = [i \in 0..n |-> g[i]]
    OBVIOUS
  <2> HIDE DEF g
  <2>3. Counts0(g)
    BY <2>1, <2>2
  <2> QED BY <2>3
<1>4. Counts0(offset)
  <2> HIDE DEF Counts0
  <2> QED BY <1>3
<1> HIDE DEF offset
<1> DEFINE S == {k \in 0..n : offset[k] = k}
<1>5. 0 \in S
  BY <1>2, <1>4
<1>6. ASSUME NEW k \in 1..n, k - 1 \in S PROVE k \in S
  <2>1. k \in 0..n /\ k # 0 /\ Bytes(s[k]) = 1
    BY <1>2 DEF n
  <2>2. offset[k] = offset[k - 1] + 1
    BY <1>4, <2>1
  <2>3. offset[k - 1] = k - 1
    BY <1>6
  <2> QED BY <2>1, <2>2, <2>3
<1> HIDE DEF Counts0, S
<1>7. \A k \in 0..n : k \in S
  BY <1>2, <1>5, <1>6, Upward
<1>8. \A b \in 0..n : at(b) = {b}
  BY <1>7 DEF S
<1> HIDE DEF at
<1>9. (CHOOSE i \in {from} : TRUE) = from /\ (CHOOSE i \in {to} : TRUE) = to
  OBVIOUS
<1>10. at(from) = {from} /\ at(to) = {to} /\ ~(from > to)
  BY <1>2, <1>8
<1> QED BY <1>1, <1>9, <1>10

\* The state of split after some character.
Stands(st, state, word, words) ==
  st \in SplitState /\ st.state = state /\ st.word = word /\ st.words = words

\* What the next one does to it.
LEMMA NextState ==
  ASSUME NEW s \in Texts, NEW f \in [0..Len(s) -> SplitState], Splits(s, f), NEW n \in 1..Len(s),
         NEW state, NEW word, NEW words, Stands(f[n - 1], state, word, words)
  PROVE  /\ word \in Texts /\ words \in Seq(Texts) /\ <<s[n]>> \in Texts /\ word \o <<s[n]>> \in Texts
         /\ state = "Delimiter" /\ s[n] \notin SpecialChars \cup Control =>
              Stands(f[n], "Unquoted", word \o <<s[n]>>, words)
         /\ state = "Delimiter" /\ s[n] = Quote => Stands(f[n], "SingleQuoted", word, words)
         /\ state = "Delimiter" /\ s[n] = "$" => Stands(f[n], "Dollar", word, words)
         /\ state = "Unquoted" /\ s[n] \notin SpecialChars \cup Control =>
              Stands(f[n], "Unquoted", word \o <<s[n]>>, words)
         /\ state = "Unquoted" /\ s[n] = Blank => Stands(f[n], "Delimiter", <<>>, Append(words, word))
         /\ state = "SingleQuoted" /\ s[n] # Quote => Stands(f[n], "SingleQuoted", word \o <<s[n]>>, words)
         /\ state = "SingleQuoted" /\ s[n] = Quote => Stands(f[n], "Unquoted", word, words)
         /\ state = "Dollar" /\ s[n] = Quote => Stands(f[n], "DollarQuoted", word, words) /\ f[n].from = n
         /\ state = "DollarQuoted" /\ s[n] \notin {Quote, Backslash} =>
              Stands(f[n], "DollarQuoted", word, words) /\ f[n].from = f[n - 1].from
         /\ state = "DollarQuoted" /\ s[n] = Backslash =>
              Stands(f[n], "DollarQuotedBackslash", word, words) /\ f[n].from = f[n - 1].from
         /\ state = "DollarQuotedBackslash" =>
              Stands(f[n], "DollarQuoted", word, words) /\ f[n].from = f[n - 1].from
         /\ state = "DollarQuoted" /\ s[n] = Quote =>
              \A text \in Texts :
                LET chunk == Slice(s, f[n - 1].from, n - 1)
                IN chunk # Failed /\ from_stfu8(UnescapeQuotes(chunk)) = text =>
                     Stands(f[n], "Unquoted", word \o text, words)
<1> DEFINE st == f[n - 1]
           c == s[n]
           t == f[n]
<1>1. Len(s) \in Nat /\ n \in 0..Len(s) /\ n # 0 /\ n - 1 \in 0..Len(s) /\ s[n] \in Characters /\ n \in Nat
  BY DEF Texts
<1>2. st \in SplitState /\ t \in SplitState /\ t = [After(st, c, s) EXCEPT !.pos = n]
  BY <1>1 DEF Splits
<1>3. After(st, c, s) \in SplitState
  BY <1>1, <1>2, AfterTyped
<1>4. st.pos = n - 1
  <2>1. CASE n = 1
    BY <1>1, <2>1 DEF Splits
  <2>2. CASE n # 1
    <3> DEFINE k == n - 1
    <3>1. k \in 1..Len(s) /\ k \in 0..Len(s) /\ k # 0 /\ k - 1 \in 0..Len(s) /\ k \in Nat
      BY <1>1, <2>2
    <3> HIDE DEF k
    <3>2. f[k] = [After(f[k - 1], s[k], s) EXCEPT !.pos = k]
      BY <3>1 DEF Splits
    <3>3. f[k - 1] \in SplitState /\ s[k] \in Characters
      BY <3>1 DEF Texts
    <3>4. After(f[k - 1], s[k], s) \in SplitState
      BY <3>3, AfterTyped
    <3>5. f[k].pos = k
      BY <3>2, <3>4 DEF SplitState
    <3> QED BY <3>5 DEF k
  <2> QED BY <2>1, <2>2
<1>5. <<c>> \in Texts /\ word \in Texts /\ words \in Seq(Texts) /\ word \o <<c>> \in Texts
  <2>1. <<c>> \in Texts /\ word \in Texts /\ words \in Seq(Texts)
    BY <1>1 DEF Stands, SplitState, Texts
  <2> QED BY <2>1, TextsJoin
<1>6. /\ st.state = state /\ st.word = word /\ st.words = words
  BY DEF Stands
<1>r. st = [state |-> state, word |-> word, words |-> words, pos |-> st.pos, from |-> st.from]
  <2> HIDE DEF st
  <2> QED BY <1>2, <1>6 DEF SplitState
<1>7. /\ t.state = After(st, c, s).state /\ t.word = After(st, c, s).word /\ t.words = After(st, c, s).words
      /\ t.from = After(st, c, s).from
  <2> DEFINE a == After(st, c, s)
  <2> HIDE DEF a, t
  <2>1. a \in SplitState
    BY <1>3 DEF a
  <2>2. t = [a EXCEPT !.pos = n]
    BY <1>2 DEF a
  <2>3. t.state = a.state /\ t.word = a.word /\ t.words = a.words /\ t.from = a.from
    BY <2>1, <2>2 DEF SplitState
  <2> QED BY <2>3 DEF a
<1> HIDE DEF st, t
<1>8. \A x : /\ To(st, x).state = x /\ To(st, x).word = word /\ To(st, x).words = words /\ To(st, x).from = st.from
             /\ \A u : Add(st, u, x).state = x /\ Add(st, u, x).word = word \o u /\ Add(st, u, x).words = words
             /\ EndWord(st, x).state = x /\ EndWord(st, x).word = <<>> /\ EndWord(st, x).words = Append(words, word)
  BY <1>6, <1>r DEF To, Add, EndWord
<1>9. ASSUME NEW x, NEW u, NEW us,
             After(st, c, s).state = x, After(st, c, s).word = u, After(st, c, s).words = us
      PROVE  Stands(t, x, u, us)
  BY <1>2, <1>7, <1>9 DEF Stands
<1>a. ASSUME NEW x, NEW u, After(st, c, s) = Add(st, u, x) PROVE Stands(t, x, word \o u, words)
  <2>1. Add(st, u, x).state = x /\ Add(st, u, x).word = word \o u /\ Add(st, u, x).words = words
    BY <1>8
  <2> QED BY <1>a, <1>9, <2>1
<1>t. ASSUME NEW x, After(st, c, s) = To(st, x) PROVE Stands(t, x, word, words) /\ t.from = st.from
  <2>1. To(st, x).state = x /\ To(st, x).word = word /\ To(st, x).words = words /\ To(st, x).from = st.from
    BY <1>8
  <2> QED BY <1>t, <1>7, <1>9, <2>1
<1>e. ASSUME NEW x, After(st, c, s) = EndWord(st, x) PROVE Stands(t, x, <<>>, Append(words, word))
  <2>1. EndWord(st, x).state = x /\ EndWord(st, x).word = <<>> /\ EndWord(st, x).words = Append(words, word)
    BY <1>8
  <2> QED BY <1>e, <1>9, <2>1
<1>10. Openers \cup Space \cup {"#"} \subseteq SpecialChars \cup Control
  BY DEF Openers, Space, SpecialChars, Control
<1> DEFINE a == After(st, c, s)
<1>11. CASE state = "Delimiter"
  <2>1. c \notin SpecialChars \cup Control => a = Add(st, <<c>>, "Unquoted")
    BY <1>6, <1>10, <1>11 DEF After
  <2>2. c = Quote => a = To(st, "SingleQuoted")
    BY <1>6, <1>11 DEF After, Opening, Openers, Quote, DoubleQuote, Backslash, Space, Blank, Newline
  <2>3. c = "$" => a = To(st, "Dollar")
    BY <1>6, <1>11 DEF After, Opening, Openers, Quote, DoubleQuote, Backslash, Space, Blank, Newline
  <2> HIDE DEF a, c
  <2>4. c \notin SpecialChars \cup Control => Stands(t, "Unquoted", word \o <<c>>, words)
    BY <1>a, <1>t, <2>1 DEF a
  <2>5. c = Quote => Stands(t, "SingleQuoted", word, words)
    BY <1>t, <1>e, <2>2 DEF a
  <2>6. c = "$" => Stands(t, "Dollar", word, words)
    BY <1>t, <2>3 DEF a
  <2> QED BY <1>5, <1>11, <2>4, <2>5, <2>6 DEF c, t
<1>12. CASE state = "Unquoted"
  <2>1. c \notin SpecialChars \cup Control => a = Add(st, <<c>>, "Unquoted")
    BY <1>6, <1>10, <1>12 DEF After
  <2>2. c = Blank => a = EndWord(st, "Delimiter")
    BY <1>6, <1>12 DEF After, Openers, Quote, DoubleQuote, Backslash, Space, Blank, Newline
  <2> HIDE DEF a, c
  <2>3. c \notin SpecialChars \cup Control => Stands(t, "Unquoted", word \o <<c>>, words)
    BY <1>a, <1>t, <2>1 DEF a
  <2>4. c = Blank => Stands(t, "Delimiter", <<>>, Append(words, word))
    BY <1>t, <1>e, <2>2 DEF a
  <2> QED BY <1>5, <1>12, <2>3, <2>4 DEF c, t
<1>13. CASE state = "SingleQuoted"
  <2>1. c # Quote => a = Add(st, <<c>>, "SingleQuoted")
    BY <1>6, <1>13 DEF After
  <2>2. c = Quote => a = To(st, "Unquoted")
    BY <1>6, <1>13 DEF After
  <2> HIDE DEF a, c
  <2>3. c # Quote => Stands(t, "SingleQuoted", word \o <<c>>, words)
    BY <1>a, <1>t, <2>1 DEF a
  <2>4. c = Quote => Stands(t, "Unquoted", word, words)
    BY <1>t, <1>e, <2>2 DEF a
  <2> QED BY <1>5, <1>13, <2>3, <2>4 DEF c, t
<1>14. CASE state = "Dollar"
  <2> HIDE DEF c
  <2>1. c = Quote => /\ After(st, c, s).state = "DollarQuoted" /\ After(st, c, s).word = word
                     /\ After(st, c, s).words = words /\ After(st, c, s).from = n
    <3> SUFFICES ASSUME c = Quote
                 PROVE  /\ After(st, c, s).state = "DollarQuoted" /\ After(st, c, s).word = word
                        /\ After(st, c, s).words = words /\ After(st, c, s).from = n
      OBVIOUS
    <3>1. After(st, c, s) = [To(st, "DollarQuoted") EXCEPT !.from = st.pos + 1]
      BY <1>6, <1>14 DEF After
    <3>2. To(st, "DollarQuoted") =
            [state |-> "DollarQuoted", word |-> word, words |-> words, pos |-> st.pos, from |-> st.from]
      BY <1>6, <1>r DEF To
    <3>3. st.pos + 1 = n
      BY <1>1, <1>4
    <3> QED BY <3>1, <3>2, <3>3
  <2>2. c = Quote => Stands(t, "DollarQuoted", word, words) /\ t.from = n
    BY <1>7, <1>9, <2>1
  <2> QED BY <1>5, <1>14, <2>2 DEF c, t
<1>15. CASE state = "DollarQuotedBackslash"
  <2>1. a = To(st, "DollarQuoted")
    BY <1>6, <1>15 DEF After
  <2> HIDE DEF a
  <2>2. Stands(t, "DollarQuoted", word, words) /\ t.from = st.from
    BY <1>t, <2>1 DEF a
  <2> QED BY <1>5, <1>15, <2>2 DEF c, t, st
<1>16. CASE state = "DollarQuoted"
  <2>1. c \notin {Quote, Backslash} => a = st
    BY <1>6, <1>16 DEF After
  <2>2. c = Backslash => a = To(st, "DollarQuotedBackslash")
    BY <1>6, <1>16 DEF After, Quote, Backslash
  <2>3. c = Quote => a = DollarQuoted(st, s)
    BY <1>6, <1>16 DEF After
  <2> HIDE DEF a, c
  <2>4. c \notin {Quote, Backslash} => Stands(t, "DollarQuoted", word, words) /\ t.from = st.from
    BY <1>6, <1>7, <1>9, <1>16, <2>1 DEF a
  <2>5. c = Backslash => Stands(t, "DollarQuotedBackslash", word, words) /\ t.from = st.from
    BY <1>t, <2>2 DEF a
  <2>6. ASSUME c = Quote, NEW text \in Texts, Slice(s, st.from, n - 1) # Failed,
               from_stfu8(UnescapeQuotes(Slice(s, st.from, n - 1))) = text
        PROVE  Stands(t, "Unquoted", word \o text, words)
    <3>1. text # Failed
      BY TextsAssumption
    <3>2. a = Add(st, text, "Unquoted")
      BY <1>4, <2>3, <2>6, <3>1 DEF DollarQuoted
    <3> QED BY <1>a, <3>2 DEF a
  <2> QED BY <1>5, <1>16, <2>4, <2>5, <2>6 DEF c, t, st
<1>17. CASE state \notin {"Delimiter", "Unquoted", "SingleQuoted", "Dollar", "DollarQuotedBackslash", "DollarQuoted"}
  BY <1>5, <1>17 DEF c
<1> QED BY <1>11, <1>12, <1>13, <1>14, <1>15, <1>16, <1>17

\* The text q is in s after its first b characters.
Holds(s, b, q) ==
  /\ b \in Nat /\ b + Len(q) <= Len(s) /\ Len(s) \in Nat /\ Len(q) \in Nat
  /\ \A m \in 1..Len(q) : b + m \in 1..Len(s) /\ s[b + m] = q[m]

\* A text is held where its characters are.
LEMMA HoldsIs ==
  ASSUME NEW s \in Texts, NEW q \in Texts, NEW b \in Nat, b + Len(q) <= Len(s),
         \A m \in 1..Len(q) : s[b + m] = q[m]
  PROVE  Holds(s, b, q)
<1>1. Len(s) \in Nat /\ Len(q) \in Nat
  BY DEF Texts
<1>2. \A a, c, d \in Nat : a + c <= d => \A m \in 1..c : a + m \in 1..d
  OBVIOUS
<1> QED BY <1>1, <1>2 DEF Holds

\* A word taken one character further.
LEMMA Longer ==
  ASSUME NEW w \in Texts, NEW k \in 1..Len(w)
  PROVE  SubSeq(w, 1, k - 1) \o <<w[k]>> = SubSeq(w, 1, k)
<1> DEFINE t == SubSeq(w, 1, k - 1)
           c == w[k]
<1>1. Append(t, c) = SubSeq(w, 1, k) /\ c \in Characters
  BY Extended
<1>2. t \in Seq(Characters)
  BY DEF Texts
<1> HIDE DEF t, c
<1>3. t \o <<c>> = Append(t, c)
  BY <1>1, <1>2
<1> QED BY <1>1, <1>3 DEF t, c

\* All of a text, and nothing of it.
LEMMA WholeText ==
  ASSUME NEW w \in Texts
  PROVE  SubSeq(w, 1, Len(w)) = w /\ SubSeq(w, 1, 0) = <<>> /\ Len(w) \in Nat /\ <<>> \o w = w
BY DEF Texts

\* A word without quotes.
LEMMA BareWord ==
  ASSUME NEW s \in Texts, NEW f \in [0..Len(s) -> SplitState], Splits(s, f),
         NEW w \in Texts, w # <<>>, \A m \in 1..Len(w) : w[m] \notin SpecialChars \cup Control,
         NEW b, Holds(s, b, w), NEW words, Stands(f[b], "Delimiter", <<>>, words)
  PROVE  Stands(f[b + Len(w)], "Unquoted", w, words)
<1> DEFINE n == Len(w)
           S == {k \in 0..n : Stands(f[b + k], IF k = 0 THEN "Delimiter" ELSE "Unquoted", SubSeq(w, 1, k), words)}
<1>1. /\ n \in Nat /\ Len(s) \in Nat /\ b \in Nat /\ b + n <= Len(s) /\ n # 0
      /\ \A m \in 1..n : b + m \in 1..Len(s) /\ s[b + m] = w[m]
  <2>1. n # 0
    BY DEF Texts
  <2> QED BY <2>1 DEF Holds
<1>2. 0 \in S
  <2>1. f[b + 0] = f[b] /\ 0 \in 0..n
    BY <1>1
  <2> QED BY <2>1, WholeText
<1>3. ASSUME NEW k \in 1..n, k - 1 \in S PROVE k \in S
  <2> DEFINE m == b + k
             c == w[k]
             u == SubSeq(w, 1, k - 1)
  <2>1. m \in 1..Len(s) /\ m - 1 = b + (k - 1) /\ s[m] = c /\ k \in 0..n /\ k # 0
    BY <1>1
  <2>2. c \notin SpecialChars \cup Control
    OBVIOUS
  <2>3. u \o <<c>> = SubSeq(w, 1, k)
    BY Longer
  <2>4. \/ Stands(f[m - 1], "Delimiter", u, words)
        \/ Stands(f[m - 1], "Unquoted", u, words)
    <3>1. Stands(f[b + (k - 1)], IF k - 1 = 0 THEN "Delimiter" ELSE "Unquoted", u, words)
      BY <1>3
    <3> HIDE DEF m, u
    <3> QED BY <2>1, <3>1
  <2> HIDE DEF m, c, u, S
  <2>5. Stands(f[m], "Unquoted", u \o <<c>>, words)
    BY <2>1, <2>2, <2>4, NextState
  <2>6. Stands(f[m], "Unquoted", SubSeq(w, 1, k), words)
    BY <2>3, <2>5
  <2> QED BY <2>1, <2>6 DEF S, m
<1> HIDE DEF S
<1>4. \A k \in 0..n : k \in S
  BY <1>1, <1>2, <1>3, Upward
<1>5. n \in S
  BY <1>1, <1>4
<1> QED BY <1>1, <1>5, WholeText DEF S

\* A word between quotes.
LEMMA QuotedWord ==
  ASSUME NEW s \in Texts, NEW f \in [0..Len(s) -> SplitState], Splits(s, f),
         NEW w \in Texts, \A m \in 1..Len(w) : w[m] # Quote,
         NEW b, Holds(s, b, <<Quote>> \o w \o <<Quote>>), NEW words, Stands(f[b], "Delimiter", <<>>, words)
  PROVE  Stands(f[b + Len(<<Quote>> \o w \o <<Quote>>)], "Unquoted", w, words)
<1> DEFINE n == Len(w)
           q == <<Quote>> \o w \o <<Quote>>
           S == {k \in 0..n : Stands(f[b + 1 + k], "SingleQuoted", SubSeq(w, 1, k), words)}
<1>1. /\ Len(q) = n + 2 /\ n \in Nat /\ q[1] = Quote /\ q[n + 2] = Quote
      /\ \A m \in 1..n : q[m + 1] = w[m]
  <2>1. w \in Seq(Characters) /\ Quote \in Characters
    BY TextsAssumption DEF Texts, SpecialChars
  <2> HIDE DEF Quote
  <2> QED BY <2>1
<1> HIDE DEF q
<1>2. /\ Len(s) \in Nat /\ b \in Nat /\ b + (n + 2) <= Len(s)
      /\ \A m \in 1..(n + 2) : b + m \in 1..Len(s) /\ s[b + m] = q[m]
  BY <1>1 DEF Holds, q
<1>3. 0 \in S
  <2>1. b + 1 \in 1..Len(s) /\ s[b + 1] = Quote /\ (b + 1) - 1 = b /\ 0 \in 0..n /\ b + 1 + 0 = b + 1
    <3>1. 1 \in 1..(n + 2)
      BY <1>1
    <3> QED BY <1>1, <1>2, <3>1
  <2> DEFINE m == b + 1
  <2> HIDE DEF m
  <2>2. m \in 1..Len(s) /\ s[m] = Quote /\ Stands(f[m - 1], "Delimiter", <<>>, words)
    BY <2>1 DEF m
  <2>3. Stands(f[m], "SingleQuoted", <<>>, words)
    BY <2>2, NextState
  <2> QED BY <2>1, <2>3, WholeText DEF m
<1>4. ASSUME NEW k \in 1..n, k - 1 \in S PROVE k \in S
  <2> DEFINE m == b + 1 + k
             c == w[k]
             u == SubSeq(w, 1, k - 1)
  <2>1. m \in 1..Len(s) /\ m - 1 = b + 1 + (k - 1) /\ s[m] = c /\ k \in 0..n /\ c # Quote
    <3>1. k + 1 \in 1..(n + 2) /\ b + (k + 1) = m /\ q[k + 1] = c
      BY <1>1, <1>2
    <3>2. b + (k + 1) \in 1..Len(s) /\ s[b + (k + 1)] = q[k + 1]
      BY <1>2, <3>1
    <3> QED BY <1>1, <1>2, <3>1, <3>2
  <2>2. u \o <<c>> = SubSeq(w, 1, k)
    BY Longer
  <2>3. Stands(f[m - 1], "SingleQuoted", u, words)
    <3>1. Stands(f[b + 1 + (k - 1)], "SingleQuoted", u, words)
      BY <1>4
    <3> HIDE DEF m, u
    <3> QED BY <2>1, <3>1
  <2> HIDE DEF m, c, u, S
  <2>4. Stands(f[m], "SingleQuoted", u \o <<c>>, words)
    BY <2>1, <2>3, NextState
  <2>5. Stands(f[m], "SingleQuoted", SubSeq(w, 1, k), words)
    BY <2>2, <2>4
  <2> QED BY <2>1, <2>5 DEF S, m
<1> HIDE DEF S
<1>5. \A k \in 0..n : k \in S
  BY <1>1, <1>3, <1>4, Upward
<1> DEFINE m == b + (n + 2)
<1>6. m \in 1..Len(s) /\ s[m] = Quote /\ m - 1 = b + 1 + n
  <2>1. n + 2 \in 1..(n + 2)
    BY <1>1
  <2> QED BY <1>1, <1>2, <2>1
<1>7. n \in S
  BY <1>1, <1>5
<1> HIDE DEF m
<1>8. Stands(f[m - 1], "SingleQuoted", w, words)
  BY <1>6, <1>7, WholeText DEF S
<1>9. Stands(f[m], "Unquoted", w, words)
  BY <1>6, <1>8, NextState
<1> QED BY <1>1, <1>9 DEF m, q

\* Where the characters of t are in the text with escaped quotes.
QuotesEscaped(t, body, end) ==
  /\ end \in [0..Len(t) -> Nat] /\ end[0] = 0 /\ end[Len(t)] = Len(body)
  /\ \A i \in 1..Len(t) :
       /\ end[i] <= Len(body)
       /\ t[i] = Quote => /\ end[i] = end[i - 1] + 2
                          /\ body[end[i - 1] + 1] = Backslash /\ body[end[i - 1] + 2] = Quote
       /\ t[i] # Quote => end[i] = end[i - 1] + 1 /\ body[end[i - 1] + 1] = t[i]

\* arg::quote escapes each single quote, and nothing else.
LEMMA EscapedQuotes ==
  ASSUME NEW t \in Texts
  PROVE  \E end : QuotesEscaped(t, EscapeQuotes(t), end)
<1> DEFINE n == Len(t)
           gs == [i \in 1..n |-> IF t[i] = Quote THEN <<Backslash, Quote>> ELSE <<t[i]>>]
           body == EscapeQuotes(t)
<1>1. n \in Nat /\ \A i \in 1..n : t[i] \in Characters
  BY DEF Texts
<1>2. body = FlattenSeq(gs)
  BY DEF EscapeQuotes
<1>3. \A i \in 1..n : (t[i] = Quote => gs[i] = <<Backslash, Quote>>) /\ (t[i] # Quote => gs[i] = <<t[i]>>)
  OBVIOUS
<1>4. gs = [i \in 1..n |-> gs[i]]
  OBVIOUS
<1> HIDE DEF gs, body
<1>5. gs \in Seq(Seq(Characters)) /\ Len(gs) = n
  <2> DEFINE X == Seq(Characters)
  <2>1. Backslash \in Characters /\ Quote \in Characters
    BY TextsAssumption DEF SpecialChars
  <2>2. \A a, b \in Characters : <<a>> \in X /\ <<a, b>> \in X
    OBVIOUS
  <2> HIDE DEF X
  <2>3. \A i \in 1..n : gs[i] \in X
    BY <1>1, <1>3, <2>1, <2>2
  <2>4. gs \in Seq(X) /\ Len(gs) = n
    BY <1>1, <1>4, <2>3
  <2> QED BY <2>4 DEF X
<1>6. PICK end : Places(gs, body, end)
  BY <1>2, <1>5, FlattenPlaces
<1>7. /\ end \in [0..n -> Nat] /\ end[0] = 0 /\ end[n] = Len(body)
      /\ \A i \in 1..n : /\ end[i] = end[i - 1] + Len(gs[i]) /\ end[i] <= Len(body)
                         /\ \A m \in 1..Len(gs[i]) : body[end[i - 1] + m] = gs[i][m]
  BY <1>5, <1>6 DEF Places
<1>8. ASSUME NEW i \in 1..n
      PROVE  /\ t[i] = Quote => /\ end[i] = end[i - 1] + 2
                                /\ body[end[i - 1] + 1] = Backslash /\ body[end[i - 1] + 2] = Quote
             /\ t[i] # Quote => end[i] = end[i - 1] + 1 /\ body[end[i - 1] + 1] = t[i]
  <2>1. CASE t[i] = Quote
    <3>1. Len(gs[i]) = 2 /\ gs[i][1] = Backslash /\ gs[i][2] = Quote
      <4>1. gs[i] = <<Backslash, Quote>>
        BY <1>3, <2>1
      <4> QED BY <4>1
    <3>2. 1 \in 1..2 /\ 2 \in 1..2
      OBVIOUS
    <3> QED BY <1>7, <2>1, <3>1, <3>2
  <2>2. CASE t[i] # Quote
    <3>1. Len(gs[i]) = 1 /\ gs[i][1] = t[i]
      <4>1. gs[i] = <<t[i]>>
        BY <1>3, <2>2
      <4> QED BY <4>1
    <3>2. 1 \in 1..1
      OBVIOUS
    <3> QED BY <1>7, <2>2, <3>1, <3>2
  <2> QED BY <2>1, <2>2
<1>9. QuotesEscaped(t, body, end)
  BY <1>7, <1>8 DEF QuotesEscaped
<1> QED BY <1>9 DEF body

\* arg.rs, quote and split: the escaped single quotes of a word come back.
THEOREM QuotesReturn ==
  ASSUME NEW t \in Texts
  PROVE  UnescapeQuotes(EscapeQuotes(t)) = t
<1> DEFINE body == EscapeQuotes(t)
           n == Len(t)
           l == Len(body)
           drops(j) == body[j] = Backslash /\ j < l /\ body[j + 1] = Quote
           us == [j \in 1..l |-> IF drops(j) THEN <<>> ELSE <<body[j]>>]
           flat == UnescapeQuotes(body)
<1>1. body \in Texts /\ flat \in Texts
  BY EscapesTyped
<1>2. PICK end : QuotesEscaped(t, body, end)
  BY EscapedQuotes
<1>3. n \in Nat /\ l \in Nat /\ t \in Seq(Characters) /\ flat \in Seq(Characters) /\ \A j \in 1..l : body[j] \in Characters
  BY <1>1 DEF Texts
<1>4. flat = FlattenSeq(us)
  BY DEF UnescapeQuotes
<1>5. \A j \in 1..l : us[j] = IF drops(j) THEN <<>> ELSE <<body[j]>>
  OBVIOUS
<1>6. us = [j \in 1..l |-> us[j]]
  OBVIOUS
<1> HIDE DEF us, body, flat, l, n
<1>7. us \in Seq(Seq(Characters)) /\ Len(us) = l
  <2> DEFINE X == Seq(Characters)
  <2>1. <<>> \in X /\ \A a \in Characters : <<a>> \in X
    OBVIOUS
  <2> HIDE DEF X
  <2>2. \A j \in 1..l : us[j] \in X
    BY <1>3, <1>5, <2>1
  <2>3. us \in [1..l -> X] /\ DOMAIN us = 1..l
    BY <1>6, <2>2
  <2>4. us \in Seq(X) /\ Len(us) = l
    BY <1>3, <2>3
  <2> QED BY <2>4 DEF X
<1>8. PICK e : Places(us, flat, e)
  BY <1>4, <1>7, FlattenPlaces
<1>9. /\ e \in [0..l -> Nat] /\ e[0] = 0 /\ e[l] = Len(flat)
      /\ \A j \in 1..l : /\ e[j] = e[j - 1] + Len(us[j])
                         /\ \A m \in 1..Len(us[j]) : flat[e[j - 1] + m] = us[j][m]
  BY <1>7, <1>8 DEF Places
<1>10. \A j \in 1..l : /\ drops(j) => e[j] = e[j - 1]
                       /\ ~drops(j) => e[j] = e[j - 1] + 1 /\ flat[e[j]] = body[j]
  <2> SUFFICES ASSUME NEW j \in 1..l
               PROVE  /\ drops(j) => e[j] = e[j - 1]
                      /\ ~drops(j) => e[j] = e[j - 1] + 1 /\ flat[e[j]] = body[j]
    OBVIOUS
  <2>1. e[j - 1] \in Nat
    BY <1>3, <1>9
  <2>2. drops(j) => us[j] = <<>>
    BY <1>5
  <2>3. ~drops(j) => us[j] = <<body[j]>>
    BY <1>5
  <2> HIDE DEF drops
  <2>4. CASE drops(j)
    <3>1. Len(us[j]) = 0
      BY <2>2, <2>4
    <3> QED BY <1>9, <2>1, <2>4, <3>1
  <2>5. CASE ~drops(j)
    <3>1. Len(us[j]) = 1 /\ us[j][1] = body[j] /\ 1 \in 1..1
      BY <2>3, <2>5
    <3>2. e[j] = e[j - 1] + 1 /\ flat[e[j - 1] + 1] = us[j][1]
      BY <1>9, <3>1
    <3> QED BY <2>5, <3>1, <3>2
  <2> QED BY <2>4, <2>5
<1>11. /\ end \in [0..n -> Nat] /\ end[0] = 0 /\ end[n] = l
       /\ \A i \in 1..n :
            /\ end[i] <= l /\ end[i - 1] \in Nat
            /\ t[i] = Quote => /\ end[i] = end[i - 1] + 2
                               /\ body[end[i - 1] + 1] = Backslash /\ body[end[i - 1] + 2] = Quote
            /\ t[i] # Quote => end[i] = end[i - 1] + 1 /\ body[end[i - 1] + 1] = t[i]
  <2>1. /\ end \in [0..n -> Nat] /\ end[0] = 0 /\ end[n] = l
        /\ \A i \in 1..n :
            /\ end[i] <= l
            /\ t[i] = Quote => /\ end[i] = end[i - 1] + 2
                               /\ body[end[i - 1] + 1] = Backslash /\ body[end[i - 1] + 2] = Quote
            /\ t[i] # Quote => end[i] = end[i - 1] + 1 /\ body[end[i - 1] + 1] = t[i]
    BY <1>2 DEF QuotesEscaped, l, n
  <2>2. \A i \in 1..n : i - 1 \in 0..n
    BY <1>3
  <2> QED BY <2>1, <2>2
<1>b. Backslash # Quote
  BY DEF Backslash, Quote
\* No piece starts with a quote.
<1>12. ASSUME NEW i \in 0..n, end[i] < l PROVE body[end[i] + 1] # Quote
  <2>1. i + 1 \in 1..n /\ (i + 1) - 1 = i
    <3>1. i # n
      BY <1>3, <1>11, <1>12
    <3> QED BY <1>3, <3>1
  <2> DEFINE k == i + 1
  <2> HIDE DEF k
  <2>2. k \in 1..n /\ k - 1 = i
    BY <2>1 DEF k
  <2>3. \/ t[k] = Quote /\ body[end[k - 1] + 1] = Backslash
        \/ t[k] # Quote /\ body[end[k - 1] + 1] = t[k]
    BY <1>11, <2>2
  <2> QED BY <1>b, <2>2, <2>3
<1> DEFINE S == {i \in 0..n : e[end[i]] = i}
<1>13. 0 \in S
  BY <1>3, <1>9, <1>11
<1>14. ASSUME NEW i \in 1..n, e[end[i - 1]] = i - 1
       PROVE  e[end[i]] = i /\ flat[i] = t[i]
  <2> DEFINE a == end[i - 1]
             z == end[i]
  <2>1. a \in Nat /\ z <= l /\ e[a] = i - 1 /\ i - 1 + 1 = i /\ z \in Nat
    <3>1. i \in 0..n /\ i - 1 + 1 = i
      BY <1>3
    <3>2. z \in Nat
      BY <1>11, <3>1
    <3>3. a \in Nat /\ z <= l
      BY <1>11
    <3> QED BY <1>14, <3>1, <3>2, <3>3
  <2>2. CASE t[i] = Quote
    <3>1. z = a + 2 /\ body[a + 1] = Backslash /\ body[a + 2] = Quote
      BY <1>11, <2>2
    <3> HIDE DEF a, z
    <3>2. a + 1 \in 1..l /\ a + 2 \in 1..l /\ a + 1 < l /\ (a + 1) + 1 = a + 2 /\ (a + 1) - 1 = a /\ (a + 2) - 1 = a + 1
      BY <1>3, <2>1, <3>1
    <3>3. drops(a + 1) /\ ~drops(a + 2)
      BY <1>b, <3>1, <3>2
    <3> DEFINE x == a + 1
               y == a + 2
    <3>x. x \in 1..l /\ y \in 1..l /\ x - 1 = a /\ y - 1 = x /\ drops(x) /\ ~drops(y) /\ body[y] = Quote
      BY <3>1, <3>2, <3>3
    <3> HIDE DEF x, y, drops
    <3>4. e[x] = e[a]
      BY <1>10, <3>x
    <3>5. e[y] = e[x] + 1 /\ flat[e[y]] = Quote
      BY <1>10, <3>x
    <3>6. e[y] = i
      BY <2>1, <3>4, <3>5
    <3> QED BY <2>2, <3>1, <3>5, <3>6 DEF y, z
  <2>3. CASE t[i] # Quote
    <3>1. z = a + 1 /\ body[z] = t[i]
      BY <1>11, <2>3
    <3>2. z < l => body[z + 1] # Quote
      <4>1. i \in 0..n
        BY <1>3
      <4> QED BY <1>12, <4>1
    <3> HIDE DEF a, z
    <3>3. z \in 1..l /\ z - 1 = a
      BY <1>3, <2>1, <3>1
    <3>4. ~drops(z)
      BY <3>2
    <3> HIDE DEF drops
    <3>5. e[z] = e[z - 1] + 1 /\ flat[e[z]] = body[z]
      BY <1>10, <3>3, <3>4
    <3>6. e[z] = i
      BY <2>1, <3>3, <3>5
    <3> QED BY <3>1, <3>5, <3>6 DEF z
  <2> QED BY <2>2, <2>3
<1>15. \A i \in 0..n : e[end[i]] = i
  <2>1. ASSUME NEW i \in 1..n, i - 1 \in S PROVE i \in S
    <3>1. i \in 0..n
      BY <1>3
    <3> QED BY <1>14, <2>1, <3>1
  <2> HIDE DEF S
  <2>2. \A i \in 0..n : i \in S
    BY <1>3, <1>13, <2>1, Upward
  <2> QED BY <2>2 DEF S
<1>16. Len(flat) = n
  <2>1. n \in 0..n
    BY <1>3
  <2> QED BY <1>9, <1>11, <1>15, <2>1
<1>17. \A i \in 1..n : flat[i] = t[i]
  <2> SUFFICES ASSUME NEW i \in 1..n PROVE flat[i] = t[i]
    OBVIOUS
  <2>1. i - 1 \in 0..n
    BY <1>3
  <2> QED BY <1>14, <1>15, <2>1
<1>18. flat = t
  BY <1>3, <1>16, <1>17 DEF n
<1> QED BY <1>18 DEF flat, body

\* The decoder of the escaped form of w, whose states are those of Undone.
LEMMA DecoderIs ==
  ASSUME NEW w \in Texts
  PROVE  \E d : /\ d \in [0..Len(to_stfu8(w)) -> Decoding]
                /\ d[0] = Undecoded /\ ~d[Len(to_stfu8(w))].escaped
                /\ \A i \in 0..Len(to_stfu8(w)) : d[i] # Failed /\ d[i] \in [text : Texts, escaped : BOOLEAN]
                /\ \A i \in 1..Len(to_stfu8(w)) : d[i] = Decode(d[i - 1], to_stfu8(w)[i])
<1> DEFINE t == to_stfu8(w)
           n == Len(t)
<1>1. t \in Texts /\ n \in Nat
  <2>1. t \in Texts
    BY EscapesTyped
  <2> QED BY <2>1 DEF Texts
<1>2. PICK d \in [0..Len(t) -> Decoding] : Decodes(t, d)
  BY <1>1, DecodesAre
<1>3. /\ d[Len(t)] = Whole(w, Len(w))
      /\ \A m \in 0..Len(t) : Undone(w, d, m)
  BY <1>2, EscapesUndone
<1> HIDE DEF t
<1>4. d \in [0..n -> Decoding] /\ d = [i \in 0..n |-> IF i = 0 THEN Undecoded ELSE Decode(d[i - 1], t[i])]
  BY <1>2 DEF Decodes
<1>5. \A i \in 1..n : i \in 0..n /\ i # 0
  BY <1>1
<1>6. d[0] = Undecoded /\ \A i \in 1..n : d[i] = Decode(d[i - 1], t[i])
  BY <1>1, <1>4, <1>5
<1>7. \A i \in 0..n : d[i] # Failed /\ d[i] \in [text : Texts, escaped : BOOLEAN]
  BY <1>3 DEF Undone, Decoding
<1>8. ~d[n].escaped
  BY <1>3 DEF Whole
<1> QED BY <1>4, <1>6, <1>7, <1>8 DEF t

\* A word between dollar quotes.
LEMMA DollarWord ==
  ASSUME NEW s \in Texts, NEW f \in [0..Len(s) -> SplitState], Splits(s, f),
         \A m \in 1..Len(s) : Bytes(s[m]) = 1,
         NEW w \in Texts, NEW b,
         Holds(s, b, <<"$", Quote>> \o EscapeQuotes(to_stfu8(w)) \o <<Quote>>),
         NEW words, Stands(f[b], "Delimiter", <<>>, words)
  PROVE  Stands(f[b + Len(<<"$", Quote>> \o EscapeQuotes(to_stfu8(w)) \o <<Quote>>)], "Unquoted", w, words)
<1> DEFINE t == to_stfu8(w)
           n == Len(t)
           body == EscapeQuotes(t)
           l == Len(body)
           q == <<"$", Quote>> \o body \o <<Quote>>
           a == b + 2
           D(m, state) == Stands(f[a + m], state, <<>>, words) /\ f[a + m].from = a
<1>1. t \in Texts /\ body \in Texts /\ n \in Nat /\ l \in Nat
  <2>1. t \in Texts /\ body \in Texts
    BY EscapesTyped
  <2> QED BY <2>1 DEF Texts
<1>2. PICK d : /\ d \in [0..n -> Decoding]
               /\ d[0] = Undecoded /\ ~d[n].escaped
               /\ \A i \in 0..n : d[i] # Failed /\ d[i] \in [text : Texts, escaped : BOOLEAN]
               /\ \A i \in 1..n : d[i] = Decode(d[i - 1], t[i])
  BY DecoderIs
<1>3. PICK end : QuotesEscaped(t, body, end)
  BY <1>1, EscapedQuotes
<1>4. from_stfu8(UnescapeQuotes(body)) = w
  <2>1. UnescapeQuotes(body) = t
    BY <1>1, QuotesReturn
  <2> QED BY <2>1, EscapedReturns
<1> HIDE DEF t, body
<1>5. /\ Len(q) = l + 3 /\ q[1] = "$" /\ q[2] = Quote /\ q[l + 3] = Quote
      /\ \A m \in 1..l : q[m + 2] = body[m]
  <2>1. body \in Seq(Characters) /\ Quote \in Characters /\ "$" \in Characters
    BY <1>1, TextsAssumption DEF Texts, SpecialChars
  <2> HIDE DEF Quote
  <2> QED BY <1>1, <2>1
<1>6. /\ Len(s) \in Nat /\ b \in Nat /\ b + (l + 3) <= Len(s)
      /\ \A m \in 1..(l + 3) : b + m \in 1..Len(s) /\ s[b + m] = q[m]
  <2>1. Holds(s, b, q)
    BY DEF t, body
  <2> HIDE DEF q
  <2> QED BY <1>5, <2>1 DEF Holds
<1> HIDE DEF q
<1>7. a \in Nat /\ \A m \in 1..l : a + m \in 1..Len(s) /\ s[a + m] = body[m] /\ (a + m) - 1 = a + (m - 1)
  <2>1. ASSUME NEW m \in 1..l PROVE a + m \in 1..Len(s) /\ s[a + m] = body[m] /\ (a + m) - 1 = a + (m - 1)
    <3>1. m + 2 \in 1..(l + 3) /\ b + (m + 2) = a + m /\ (a + m) - 1 = a + (m - 1)
      BY <1>1, <1>6
    <3>2. b + (m + 2) \in 1..Len(s) /\ s[b + (m + 2)] = q[m + 2]
      BY <1>6, <3>1
    <3> QED BY <1>5, <3>1, <3>2
  <2> QED BY <1>6, <2>1
<1>8. D(0, "DollarQuoted")
  <2> DEFINE i == b + 1
             j == b + 2
  <2>1. 1 \in 1..(l + 3) /\ 2 \in 1..(l + 3) /\ i - 1 = b /\ j - 1 = i /\ a + 0 = j
    BY <1>1, <1>6
  <2>2. i \in 1..Len(s) /\ j \in 1..Len(s) /\ s[i] = "$" /\ s[j] = Quote
    BY <1>5, <1>6, <2>1
  <2> HIDE DEF i, j
  <2>3. Stands(f[i - 1], "Delimiter", <<>>, words)
    BY <2>1
  <2>4. Stands(f[i], "Dollar", <<>>, words)
    BY <2>2, <2>3, NextState
  <2>5. Stands(f[j - 1], "Dollar", <<>>, words)
    BY <2>1, <2>4
  <2>6. Stands(f[j], "DollarQuoted", <<>>, words) /\ f[j].from = j
    BY <2>2, <2>5, NextState
  <2> QED BY <2>1, <2>6 DEF j
<1>9. ASSUME NEW m \in 1..l
      PROVE  /\ D(m - 1, "DollarQuoted") /\ body[m] \notin {Quote, Backslash} => D(m, "DollarQuoted")
             /\ D(m - 1, "DollarQuoted") /\ body[m] = Backslash => D(m, "DollarQuotedBackslash")
             /\ D(m - 1, "DollarQuotedBackslash") => D(m, "DollarQuoted")
  <2> DEFINE i == a + m
  <2>1. i \in 1..Len(s) /\ s[i] = body[m] /\ i - 1 = a + (m - 1)
    BY <1>7
  <2> HIDE DEF i, a
  <2>2. ASSUME NEW state, Stands(f[i - 1], state, <<>>, words)
        PROVE  /\ state = "DollarQuoted" /\ s[i] \notin {Quote, Backslash} =>
                    Stands(f[i], "DollarQuoted", <<>>, words) /\ f[i].from = f[i - 1].from
               /\ state = "DollarQuoted" /\ s[i] = Backslash =>
                    Stands(f[i], "DollarQuotedBackslash", <<>>, words) /\ f[i].from = f[i - 1].from
               /\ state = "DollarQuotedBackslash" =>
                    Stands(f[i], "DollarQuoted", <<>>, words) /\ f[i].from = f[i - 1].from
    <3> DEFINE word == <<>>
    <3> HIDE DEF word
    <3>1. Stands(f[i - 1], state, word, words)
      BY <2>2 DEF word
    <3>2. ASSUME state = "DollarQuoted", s[i] \notin {Quote, Backslash}
          PROVE  Stands(f[i], "DollarQuoted", word, words) /\ f[i].from = f[i - 1].from
      BY <2>1, <3>1, <3>2, NextState
    <3>3. ASSUME state = "DollarQuoted", s[i] = Backslash
          PROVE  Stands(f[i], "DollarQuotedBackslash", word, words) /\ f[i].from = f[i - 1].from
      BY <2>1, <3>1, <3>3, NextState
    <3>4. ASSUME state = "DollarQuotedBackslash"
          PROVE  Stands(f[i], "DollarQuoted", word, words) /\ f[i].from = f[i - 1].from
      BY <2>1, <3>1, <3>4, NextState
    <3> QED BY <3>2, <3>3, <3>4 DEF word
  <2>3. \A state : D(m - 1, state) => Stands(f[i - 1], state, <<>>, words) /\ f[i - 1].from = a
    BY <2>1
  <2>4. \A state : Stands(f[i], state, <<>>, words) /\ f[i].from = a => D(m, state)
    BY DEF i
  <2> HIDE DEF D
  <2>5. ASSUME D(m - 1, "DollarQuoted"), body[m] \notin {Quote, Backslash} PROVE D(m, "DollarQuoted")
    BY <2>1, <2>2, <2>3, <2>4, <2>5
  <2>6. ASSUME D(m - 1, "DollarQuoted"), body[m] = Backslash PROVE D(m, "DollarQuotedBackslash")
    BY <2>1, <2>2, <2>3, <2>4, <2>6
  <2>7. ASSUME D(m - 1, "DollarQuotedBackslash") PROVE D(m, "DollarQuoted")
    BY <2>1, <2>2, <2>3, <2>4, <2>7
  <2> QED BY <2>5, <2>6, <2>7
<1> HIDE DEF D
<1> DEFINE state(i) == IF d[i].escaped THEN "DollarQuotedBackslash" ELSE "DollarQuoted"
           S == {i \in 0..n : D(end[i], state(i))}
<1>10. /\ end[0] = 0 /\ end[n] = l
       /\ \A i \in 1..n :
            /\ end[i] <= l /\ end[i - 1] \in Nat
            /\ t[i] = Quote => /\ end[i] = end[i - 1] + 2
                               /\ body[end[i - 1] + 1] = Backslash /\ body[end[i - 1] + 2] = Quote
            /\ t[i] # Quote => end[i] = end[i - 1] + 1 /\ body[end[i - 1] + 1] = t[i]
  <2>1. \A i \in 1..n : i - 1 \in 0..n
    BY <1>1
  <2> QED BY <1>3, <2>1 DEF QuotesEscaped
<1>11. 0 \in S
  <2>1. ~d[0].escaped /\ 0 \in 0..n
    BY <1>1, <1>2 DEF Undecoded
  <2> QED BY <1>8, <1>10, <2>1
<1>c. Backslash # Quote /\ "n" # Quote /\ "n" # Backslash
  BY DEF Backslash, Quote
<1>12. ASSUME NEW i \in 1..n, D(end[i - 1], state(i - 1)) PROVE D(end[i], state(i))
  <2> DEFINE e == end[i - 1]
             z == end[i]
  <2>1. i - 1 \in 0..n /\ i \in 0..n
    BY <1>1
  <2>2. /\ d[i - 1] # Failed /\ d[i - 1] \in [text : Texts, escaped : BOOLEAN]
        /\ d[i] # Failed /\ d[i] = Decode(d[i - 1], t[i])
    BY <1>2, <2>1
  <2>3. /\ e \in Nat /\ z <= l
        /\ t[i] = Quote => z = e + 2 /\ body[e + 1] = Backslash /\ body[e + 2] = Quote
        /\ t[i] # Quote => z = e + 1 /\ body[e + 1] = t[i]
    BY <1>10
  <2> HIDE DEF e, z
  <2>4. /\ t[i] # Quote => z \in 1..l /\ z - 1 = e
        /\ t[i] = Quote => e + 1 \in 1..l /\ e + 2 \in 1..l /\ (e + 1) - 1 = e /\ (e + 2) - 1 = e + 1
    BY <1>1, <2>3
  <2>5. CASE ~d[i - 1].escaped
    <3>1. D(e, "DollarQuoted")
      BY <1>12, <2>5 DEF e
    <3>2. CASE t[i] = Backslash
      <4>1. d[i].escaped
        BY <2>2, <2>5, <3>2 DEF Decode
      <4>2. D(z, "DollarQuotedBackslash")
        BY <1>9, <1>c, <2>3, <2>4, <3>1, <3>2
      <4> QED BY <4>1, <4>2 DEF z
    <3>3. CASE t[i] # Backslash
      <4>1. ~d[i].escaped
        BY <2>2, <2>5, <3>3 DEF Decode
      <4>2. D(z, "DollarQuoted")
        <5>1. CASE t[i] = Quote
          <6> DEFINE x == e + 1
                     y == e + 2
          <6>1. x \in 1..l /\ y \in 1..l /\ x - 1 = e /\ y - 1 = x /\ body[x] = Backslash /\ y = z
            BY <2>3, <2>4, <5>1
          <6> HIDE DEF x, y
          <6>2. D(x, "DollarQuotedBackslash")
            BY <1>9, <3>1, <6>1
          <6>3. D(y, "DollarQuoted")
            BY <1>9, <6>1, <6>2
          <6> QED BY <6>1, <6>3
        <5>2. CASE t[i] # Quote
          BY <1>9, <2>3, <2>4, <3>1, <3>3, <5>2
        <5> QED BY <5>1, <5>2
      <4> QED BY <4>1, <4>2 DEF z
    <3> QED BY <3>2, <3>3
  <2>6. CASE d[i - 1].escaped
    <3>1. D(e, "DollarQuotedBackslash")
      BY <1>12, <2>6 DEF e
    <3>2. t[i] \in {Backslash, "n"} /\ ~d[i].escaped
      BY <2>2, <2>6 DEF Decode
    <3>3. D(z, "DollarQuoted")
      BY <1>9, <1>c, <2>3, <2>4, <3>1, <3>2
    <3> QED BY <3>2, <3>3 DEF z
  <2> QED BY <2>5, <2>6
<1>13. n \in S
  <2>1. ASSUME NEW i \in 1..n, i - 1 \in S PROVE i \in S
    <3>1. i \in 0..n
      BY <1>1
    <3>2. D(end[i - 1], state(i - 1))
      BY <2>1
    <3>3. D(end[i], state(i))
      BY <1>12, <3>2
    <3> HIDE DEF state
    <3> QED BY <3>1, <3>3
  <2> HIDE DEF S
  <2>2. \A i \in 0..n : i \in S
    BY <1>1, <1>11, <2>1, Upward
  <2> QED BY <1>1, <2>2
<1>14. D(l, "DollarQuoted")
  BY <1>2, <1>10, <1>13
<1> DEFINE z == a + l + 1
<1>15. z \in 1..Len(s) /\ s[z] = Quote /\ z - 1 = a + l /\ z = b + (l + 3)
  <2>1. l + 3 \in 1..(l + 3) /\ z = b + (l + 3) /\ z - 1 = a + l
    BY <1>1, <1>6
  <2> QED BY <1>5, <1>6, <2>1
<1>16. Slice(s, a, a + l) = body
  <2>1. a \in 0..Len(s) /\ a + l \in 0..Len(s) /\ a <= a + l
    BY <1>1, <1>6
  <2> DEFINE c == a + l
  <2> HIDE DEF a, c
  <2>2. Slice(s, a, c) = SubSeq(s, a + 1, c)
    BY <2>1, SliceIs DEF c
  <2>3. SubSeq(s, a + 1, c) = body
    <3>1. s \in Seq(Characters) /\ body \in Seq(Characters) /\ a \in Nat
      BY <1>1, <1>7 DEF Texts
    <3>2. SubSeq(s, a + 1, c) \in Seq(Characters) /\ Len(SubSeq(s, a + 1, c)) = l
          /\ \A m \in 1..l : SubSeq(s, a + 1, c)[m] = s[a + m]
      <4>1. \A i, j \in Nat : i + j <= Len(s) =>
              /\ SubSeq(s, i + 1, i + j) \in Seq(Characters) /\ Len(SubSeq(s, i + 1, i + j)) = j
              /\ \A m \in 1..j : SubSeq(s, i + 1, i + j)[m] = s[i + m]
        BY <1>6, <3>1
      <4>2. a + l <= Len(s)
        BY <2>1 DEF c
      <4> QED BY <1>1, <3>1, <4>1, <4>2 DEF c
    <3> DEFINE u == SubSeq(s, a + 1, c)
    <3> HIDE DEF u
    <3>3. \A m \in 1..l : u[m] = body[m]
      BY <1>7, <3>2 DEF u
    <3>4. u \in Seq(Characters) /\ Len(u) = Len(body)
      BY <3>2 DEF u
    <3>5. u = body
      BY <3>1, <3>3, <3>4
    <3> QED BY <3>5 DEF u
  <2> QED BY <2>2, <2>3 DEF c
<1>17. Stands(f[z - 1], "DollarQuoted", <<>>, words) /\ f[z - 1].from = a
  BY <1>14, <1>15 DEF D
<1> HIDE DEF z
<1>18. Slice(s, f[z - 1].from, z - 1) = body /\ body # Failed
  BY <1>1, <1>15, <1>16, <1>17, TextsAssumption
<1>19. Stands(f[z], "Unquoted", <<>> \o w, words)
  <2>1. \A text \in Texts : LET chunk == Slice(s, f[z - 1].from, z - 1)
                            IN chunk # Failed /\ from_stfu8(UnescapeQuotes(chunk)) = text =>
                                 Stands(f[z], "Unquoted", <<>> \o text, words)
    BY <1>15, <1>17, NextState
  <2> QED BY <1>4, <1>18, <2>1
<1> QED BY <1>5, <1>15, <1>19, WholeText DEF q, body, t

\* A word as it was quoted.
LEMMA QuotedBack ==
  ASSUME NEW s \in Texts, NEW f \in [0..Len(s) -> SplitState], Splits(s, f),
         NEW w \in Texts, w # <<>>,
         ToSet(w) \cap (Control \cup {Quote}) = {} \/ \A m \in 1..Len(s) : Bytes(s[m]) = 1,
         NEW b, Holds(s, b, quote(w)), NEW words, Stands(f[b], "Delimiter", <<>>, words)
  PROVE  Stands(f[b + Len(quote(w))], "Unquoted", w, words)
<1>1. \A m \in 1..Len(w) : w[m] \in ToSet(w)
  BY DEF ToSet
<1>2. CASE ToSet(w) \cap (Control \cup {Quote}) # {}
  <2>1. quote(w) = <<"$", Quote>> \o EscapeQuotes(to_stfu8(w)) \o <<Quote>>
    BY <1>2 DEF quote
  <2>2. Holds(s, b, <<"$", Quote>> \o EscapeQuotes(to_stfu8(w)) \o <<Quote>>)
    BY <2>1
  <2>3. \A m \in 1..Len(s) : Bytes(s[m]) = 1
    BY <1>2
  <2>4. Stands(f[b + Len(<<"$", Quote>> \o EscapeQuotes(to_stfu8(w)) \o <<Quote>>)], "Unquoted", w, words)
    BY <2>2, <2>3, DollarWord
  <2> QED BY <2>1, <2>4
<1>3. CASE ToSet(w) \cap (Control \cup {Quote}) = {} /\ ToSet(w) \cap SpecialChars # {}
  <2>1. quote(w) = <<Quote>> \o w \o <<Quote>>
    BY <1>3 DEF quote
  <2>2. Holds(s, b, <<Quote>> \o w \o <<Quote>>)
    BY <2>1
  <2>3. \A m \in 1..Len(w) : w[m] # Quote
    BY <1>1, <1>3
  <2>4. Stands(f[b + Len(<<Quote>> \o w \o <<Quote>>)], "Unquoted", w, words)
    BY <2>2, <2>3, QuotedWord
  <2> QED BY <2>1, <2>4
<1>4. CASE ToSet(w) \cap (Control \cup {Quote}) = {} /\ ToSet(w) \cap SpecialChars = {}
  <2>1. quote(w) = w
    BY <1>4 DEF quote
  <2>2. \A m \in 1..Len(w) : w[m] \notin SpecialChars \cup Control
    BY <1>1, <1>4
  <2>3. Holds(s, b, w)
    BY <2>1
  <2>4. Stands(f[b + Len(w)], "Unquoted", w, words)
    BY <2>2, <2>3, BareWord
  <2> QED BY <2>1, <2>4
<1> QED BY <1>2, <1>3, <1>4

\* One more word of those at the start.
LEMMA WordsGrow ==
  ASSUME NEW X, NEW s \in Seq(X), NEW i \in 1..Len(s)
  PROVE  Append(SubSeq(s, 1, i - 1), s[i]) = SubSeq(s, 1, i)
<1>1. Len(s) \in Nat /\ i \in Nat /\ s[i] \in X
  OBVIOUS
<1> DEFINE a == SubSeq(s, 1, i - 1)
           b == SubSeq(s, 1, i)
           c == Append(a, s[i])
<1>2. a \in Seq(X) /\ Len(a) = i - 1 /\ \A k \in 1..(i - 1) : a[k] = s[k]
  BY <1>1
<1>3. b \in Seq(X) /\ Len(b) = i /\ \A k \in 1..i : b[k] = s[k]
  BY <1>1
<1> HIDE DEF a, b
<1>4. c \in Seq(X) /\ Len(c) = i /\ c[i] = s[i] /\ \A k \in 1..(i - 1) : c[k] = a[k]
  BY <1>1, <1>2
<1> HIDE DEF c
<1>5. \A k \in 1..i : c[k] = b[k]
  <2>1. \A k \in 1..i : k = i \/ k \in 1..(i - 1)
    BY <1>1
  <2> QED BY <1>2, <1>3, <1>4, <2>1
<1>6. c = b
  BY <1>3, <1>4, <1>5
<1> QED BY <1>6 DEF a, b, c

\* The characters of one byte, of which quoting adds no others.
Narrow == {c \in Characters : Bytes(c) = 1}

\* arg::join adds no wide characters.
LEMMA JoinNarrow ==
  ASSUME NEW words \in Seq(Seq(Narrow))
  PROVE  join(words) \in Seq(Narrow)
<1> DEFINE T == Seq(Narrow)
<1>1. {Backslash, "n", Quote, "$", Blank} \subseteq Narrow
  <2>1. {Backslash, "n", Quote, "$", Blank} \subseteq Characters
    BY TextsAssumption DEF SpecialChars
  <2>2. \A c \in {Backslash, "n", Quote, "$", Blank} : c # "~"
    BY DEF Backslash, Quote, Blank
  <2> QED BY <2>1, <2>2 DEF Narrow, Bytes
<1>2. /\ \A a \in Narrow : <<a>> \in T
      /\ \A a, b \in Narrow : <<a, b>> \in T
      /\ \A s, t \in T : s \o t \in T
      /\ \A s \in T : Len(s) \in Nat /\ \A i \in 1..Len(s) : s[i] \in Narrow
  OBVIOUS
<1>3. ASSUME NEW n \in Nat, NEW gs, gs = [i \in 1..n |-> gs[i]], \A i \in 1..n : gs[i] \in T
      PROVE  FlattenSeq(gs) \in T
  <2>1. gs \in Seq(T)
    <3> HIDE DEF T
    <3> QED BY <1>3
  <2> QED BY <2>1, FlattenIs
<1>4. words \in Seq(T) /\ Len(words) \in Nat /\ \A i \in 1..Len(words) : words[i] \in T
  OBVIOUS
<1> HIDE DEF T
<1>5. ASSUME NEW s \in T PROVE to_stfu8(s) \in T
  <2> DEFINE gs == [i \in 1..Len(s) |->
                      CASE s[i] = Backslash -> <<Backslash, Backslash>>
                        [] s[i] = Newline   -> <<Backslash, "n">>
                        [] OTHER            -> <<s[i]>>]
  <2>1. ASSUME NEW i \in 1..Len(s) PROVE gs[i] \in T
    <3>1. <<Backslash, Backslash>> \in T /\ <<Backslash, "n">> \in T /\ <<s[i]>> \in T
      BY <1>1, <1>2
    <3>2. CASE s[i] = Backslash
      BY <3>1, <3>2
    <3>3. CASE s[i] # Backslash /\ s[i] = Newline
      BY <3>1, <3>3
    <3>4. CASE s[i] # Backslash /\ s[i] # Newline
      BY <3>1, <3>4
    <3> QED BY <3>2, <3>3, <3>4
  <2>2. gs = [i \in 1..Len(s) |-> gs[i]]
    OBVIOUS
  <2>3. to_stfu8(s) = FlattenSeq(gs)
    BY DEF to_stfu8
  <2> HIDE DEF gs
  <2> QED BY <1>2, <1>3, <2>1, <2>2, <2>3
<1>6. ASSUME NEW s \in T PROVE EscapeQuotes(s) \in T
  <2> DEFINE gs == [i \in 1..Len(s) |-> IF s[i] = Quote THEN <<Backslash, Quote>> ELSE <<s[i]>>]
  <2>1. ASSUME NEW i \in 1..Len(s) PROVE gs[i] \in T
    <3>1. <<Backslash, Quote>> \in T /\ <<s[i]>> \in T
      BY <1>1, <1>2
    <3> QED BY <3>1
  <2>2. gs = [i \in 1..Len(s) |-> gs[i]]
    OBVIOUS
  <2>3. EscapeQuotes(s) = FlattenSeq(gs)
    BY DEF EscapeQuotes
  <2> HIDE DEF gs
  <2> QED BY <1>2, <1>3, <2>1, <2>2, <2>3
<1>7. ASSUME NEW s \in T PROVE quote(s) \in T
  <2>1. EscapeQuotes(to_stfu8(s)) \in T
    BY <1>5, <1>6
  <2>2. <<"$", Quote>> \in T /\ <<Quote>> \in T
    BY <1>1, <1>2
  <2>3. <<"$", Quote>> \o EscapeQuotes(to_stfu8(s)) \o <<Quote>> \in T
    BY <1>2, <2>1, <2>2
  <2>4. <<Quote>> \o s \o <<Quote>> \in T
    BY <1>2, <2>2
  <2> QED BY <2>3, <2>4 DEF quote
<1> DEFINE gs == [i \in 1..Len(words) |-> IF i = 1 THEN quote(words[i]) ELSE <<Blank>> \o quote(words[i])]
<1>8. \A i \in 1..Len(words) : gs[i] \in T
  BY <1>1, <1>2, <1>4, <1>7
<1>9. gs = [i \in 1..Len(words) |-> gs[i]]
  OBVIOUS
<1>10. join(words) = FlattenSeq(gs)
  BY DEF join
<1> HIDE DEF gs
<1>11. join(words) \in T
  BY <1>3, <1>4, <1>8, <1>9, <1>10
<1> QED BY <1>11 DEF T

\* A text that ends without a blank is not trimmed at its end.
LEMMA EndTrimmed ==
  ASSUME NEW s \in Texts
  PROVE  /\ TrimmedEnd(s) \in Texts
         /\ Len(s) = 0 \/ s[Len(s)] # Blank => TrimmedEnd(s) = s
<1> DEFINE D == {i \in 1..Len(s) : s[i] # Blank}
<1>1. s \in Seq(Characters) /\ Len(s) \in Nat /\ D \subseteq 1..Len(s)
  BY DEF Texts
<1>2. TrimmedEnd(s) = IF D = {} THEN <<>> ELSE SubSeq(s, 1, Max(D))
  BY DEF TrimmedEnd
<1>3. Len(s) \in D \/ Len(s) = 0 \/ s[Len(s)] = Blank
  BY <1>1
<1> HIDE DEF D
<1>4. CASE D = {}
  <2>1. <<>> \in Texts /\ TrimmedEnd(s) = <<>>
    BY <1>2, <1>4 DEF Texts
  <2>2. Len(s) = 0 => s = <<>>
    BY <1>1
  <2> QED BY <1>3, <1>4, <2>1, <2>2
<1>5. CASE D # {}
  <2> DEFINE m == Max(D)
  <2>1. IsFiniteSet(D) /\ D \subseteq Int
    <3>1. IsFiniteSet(1..Len(s)) /\ 1..Len(s) \subseteq Int
      BY <1>1, FS_Interval
    <3> QED BY <1>1, <3>1, FS_Subset
  <2>2. m \in D /\ (\A i \in D : i <= m) /\ TrimmedEnd(s) = SubSeq(s, 1, m)
    BY <1>2, <1>5, <2>1, Extremes
  <2> HIDE DEF m
  <2>3. m \in 1..Len(s)
    BY <1>1, <2>2
  <2>4. SubSeq(s, 1, m) \in Texts
    BY <1>1, <2>3 DEF Texts
  <2>5. ASSUME Len(s) \in D PROVE SubSeq(s, 1, m) = s
    <3>1. m = Len(s)
      BY <1>1, <2>2, <2>3, <2>5
    <3> QED BY <1>1, <3>1
  <2>6. Len(s) # 0
    BY <1>1, <2>3
  <2> QED BY <1>3, <2>2, <2>4, <2>5, <2>6
<1> QED BY <1>4, <1>5

\* A word that was quoted does not end with a blank.
LEMMA QuoteEnds ==
  ASSUME NEW w \in Texts, w # <<>>
  PROVE  Len(quote(w)) \in Nat /\ Len(quote(w)) >= 1 /\ quote(w)[Len(quote(w))] # Blank
<1>1. w \in Seq(Characters) /\ Len(w) \in Nat /\ Len(w) >= 1 /\ \A m \in 1..Len(w) : w[m] \in ToSet(w)
  BY DEF Texts, ToSet
<1>2. ASSUME NEW t \in Seq(Characters)
      PROVE  LET q == t \o <<Quote>> IN Len(q) \in Nat /\ Len(q) >= 1 /\ q[Len(q)] # Blank
  <2>1. Quote \in Characters /\ Quote # Blank
    BY TextsAssumption DEF SpecialChars, Quote, Blank
  <2>2. Len(t \o <<Quote>>) = Len(t) + 1 /\ (t \o <<Quote>>)[Len(t) + 1] = Quote
    BY <2>1
  <2> QED BY <2>1, <2>2
<1>3. CASE quote(w) = <<"$", Quote>> \o EscapeQuotes(to_stfu8(w)) \o <<Quote>>
  <2>1. EscapeQuotes(to_stfu8(w)) \in Seq(Characters)
    BY EscapesTyped DEF Texts
  <2>2. <<"$", Quote>> \o EscapeQuotes(to_stfu8(w)) \in Seq(Characters)
    <3>1. "$" \in Characters /\ Quote \in Characters
      BY TextsAssumption DEF SpecialChars
    <3> QED BY <2>1, <3>1
  <2> QED BY <1>2, <1>3, <2>2
<1>4. CASE quote(w) = <<Quote>> \o w \o <<Quote>>
  <2>1. <<Quote>> \o w \in Seq(Characters)
    <3>1. Quote \in Characters
      BY TextsAssumption DEF SpecialChars
    <3> QED BY <1>1, <3>1
  <2> QED BY <1>2, <1>4, <2>1
<1>5. CASE quote(w) = w /\ ToSet(w) \cap SpecialChars = {}
  <2>1. w[Len(w)] \in ToSet(w)
    BY <1>1
  <2>2. w[Len(w)] # Blank
    BY <1>5, <2>1 DEF SpecialChars
  <2> QED BY <1>1, <1>5, <2>2
<1> QED BY <1>3, <1>4, <1>5 DEF quote

\* No argument is empty, and no quote or control character comes with one of two bytes.
Quotable(words) ==
  /\ words \in Seq(Texts) /\ \A i \in 1..Len(words) : words[i] # <<>>
  /\ \/ \A i \in 1..Len(words) : ToSet(words[i]) \cap (Control \cup {Quote}) = {}
     \/ \A i \in 1..Len(words) : \A m \in 1..Len(words[i]) : Bytes(words[i][m]) = 1

\* arg.rs, join and split, and report.rs, read_extract: the command line in the header comes back
\* word by word, whichever of the quotes each word needs, if its words are Quotable.  The blanks
\* at its end are trimmed before it is split: it has none.
THEOREM CommandReturns ==
  ASSUME NEW words, Quotable(words)
  PROVE  split(TrimmedEnd(join(words))) = words
<1> DEFINE s == join(words)
           n == Len(words)
           gs == [i \in 1..n |-> IF i = 1 THEN quote(words[i]) ELSE <<Blank>> \o quote(words[i])]
<1>1. /\ words \in Seq(Texts) /\ n \in Nat
      /\ \A i \in 1..n : words[i] \in Texts /\ words[i] # <<>>
  BY DEF Quotable
<1>2. s \in Texts /\ Len(s) \in Nat
  <2>1. s \in Texts
    BY <1>1, JoinTyped
  <2> QED BY <2>1 DEF Texts
<1>3. \/ \A i \in 1..n : ToSet(words[i]) \cap (Control \cup {Quote}) = {}
      \/ \A m \in 1..Len(s) : Bytes(s[m]) = 1
  <2>1. CASE \A i \in 1..n : \A m \in 1..Len(words[i]) : Bytes(words[i][m]) = 1
    <3>1. ASSUME NEW i \in 1..n PROVE words[i] \in Seq(Narrow)
      <4>1. words[i] \in Seq(Characters)
        BY <1>1 DEF Texts
      <4>2. \A m \in 1..Len(words[i]) : words[i][m] \in Narrow
        BY <2>1, <4>1 DEF Narrow
      <4> QED BY <4>1, <4>2
    <3> DEFINE X == Seq(Narrow)
    <3>2. words \in Seq(X)
      <4> HIDE DEF X
      <4>1. \A i \in 1..n : words[i] \in X
        BY <3>1 DEF X
      <4> QED BY <1>1, <4>1
    <3>3. s \in Seq(Narrow)
      BY <3>2, JoinNarrow
    <3>4. \A m \in 1..Len(s) : s[m] \in Narrow
      BY <3>3
    <3> QED BY <3>4 DEF Narrow
  <2>2. CASE \A i \in 1..n : ToSet(words[i]) \cap (Control \cup {Quote}) = {}
    BY <2>2
  <2> QED BY <2>1, <2>2 DEF Quotable
<1>4. \A i \in 1..n : quote(words[i]) \in Texts /\ <<Blank>> \o quote(words[i]) \in Texts
  BY <1>1, QuoteTyped
<1>5. s = FlattenSeq(gs) /\ \A i \in 1..n : gs[i] = IF i = 1 THEN quote(words[i]) ELSE <<Blank>> \o quote(words[i])
  BY DEF join
<1>6. gs = [i \in 1..n |-> gs[i]]
  OBVIOUS
<1> HIDE DEF s, gs, n
<1>7. gs \in Seq(Seq(Characters)) /\ Len(gs) = n
  <2>1. \A i \in 1..n : gs[i] \in Texts
    BY <1>4, <1>5
  <2>2. gs \in Seq(Texts) /\ Len(gs) = n
    BY <1>1, <1>6, <2>1
  <2> QED BY <2>2 DEF Texts
<1>8. PICK end : Places(gs, s, end)
  BY <1>5, <1>7, FlattenPlaces
<1>9. /\ end \in [0..n -> Nat] /\ end[0] = 0 /\ end[n] = Len(s)
      /\ \A i \in 1..n : end[i] = end[i - 1] + Len(gs[i]) /\ end[i] <= Len(s) /\ end[i - 1] \in Nat
      /\ \A i \in 1..n : \A m \in 1..Len(gs[i]) : s[end[i - 1] + m] = gs[i][m]
  <2>1. \A i \in 1..n : i - 1 \in 0..n
    BY <1>1
  <2> QED BY <1>7, <1>8, <2>1 DEF Places
<1>10. PICK f \in [0..Len(s) -> SplitState] : Splits(s, f) /\ split(s) = AtEnd(f[Len(s)])
  BY <1>2, SplitsAre
<1>11. f[0] \in SplitState /\ f[0].state = "Delimiter" /\ f[0].word = <<>> /\ f[0].words = <<>>
  <2>1. 0 \in 0..Len(s)
    BY <1>2
  <2>2. f[0] = [state |-> "Delimiter", word |-> <<>>, words |-> <<>>, pos |-> 0, from |-> 0]
    BY <1>10, <2>1 DEF Splits
  <2> QED BY <1>10, <2>1, <2>2
<1>12. ASSUME NEW i \in 1..n, i = 1 \/ Stands(f[end[i - 1]], "Unquoted", words[i - 1], SubSeq(words, 1, (i - 1) - 1))
       PROVE  Stands(f[end[i]], "Unquoted", words[i], SubSeq(words, 1, i - 1))
  <2> DEFINE b == IF i = 1 THEN 0 ELSE end[i - 1] + 1
             q == quote(words[i])
             us == SubSeq(words, 1, i - 1)
             w == words[i]
  <2>1. w \in Texts /\ w # <<>> /\ q \in Texts /\ Len(q) \in Nat
    BY <1>1, <1>4 DEF Texts
  <2>2. Stands(f[b], "Delimiter", <<>>, us) /\ Holds(s, b, q) /\ end[i] = b + Len(q)
    <3>1. CASE i = 1
      <4>1. us = <<>> /\ b = 0 /\ gs[i] = q /\ end[i - 1] = 0
        <5>1. SubSeq(words, 1, 0) = <<>>
          BY <1>1
        <5> QED BY <1>5, <1>9, <3>1, <5>1
      <4> HIDE DEF q, us, b
      <4>2. Stands(f[b], "Delimiter", <<>>, us)
        BY <1>11, <4>1 DEF Stands
      <4>3. end[i] = b + Len(q) /\ b + Len(q) <= Len(s) /\ b \in Nat /\ \A m \in 1..Len(q) : s[b + m] = q[m]
        BY <1>9, <2>1, <4>1
      <4> QED BY <1>2, <2>1, <4>2, <4>3, HoldsIs
    <3>2. CASE i # 1
      <4> DEFINE e == end[i - 1]
                 k == i - 1
      <4>1. b = e + 1 /\ gs[i] = <<Blank>> \o q /\ e \in Nat /\ end[i] = e + Len(gs[i]) /\ end[i] <= Len(s)
        BY <1>5, <1>9, <3>2
      <4>2. Len(gs[i]) = 1 + Len(q) /\ gs[i][1] = Blank /\ \A m \in 1..Len(q) : gs[i][1 + m] = q[m]
        <5>1. q \in Seq(Characters) /\ Blank \in Characters
          BY <2>1, TextsAssumption DEF Texts, SpecialChars
        <5> HIDE DEF q, Blank
        <5> QED BY <4>1, <5>1
      <4>3. k \in 1..n /\ i \in Nat
        BY <1>1, <3>2
      <4>4. Stands(f[e], "Unquoted", words[k], SubSeq(words, 1, k - 1))
        BY <1>12, <3>2
      <4>5. \A m \in 1..Len(gs[i]) : s[e + m] = gs[i][m]
        BY <1>9
      <4>6. Append(SubSeq(words, 1, k - 1), words[k]) = SubSeq(words, 1, k)
        BY <1>1, <4>3, WordsGrow DEF n
      <4> HIDE DEF e, k, b, q
      <4>7. b \in 1..Len(s) /\ b - 1 = e /\ s[b] = Blank
        <5>1. 1 \in 1..Len(gs[i]) /\ b \in 1..Len(s) /\ b - 1 = e
          BY <1>2, <2>1, <4>1, <4>2
        <5>2. s[e + 1] = gs[i][1]
          BY <4>5, <5>1
        <5> QED BY <4>1, <4>2, <5>1, <5>2
      <4>8. Stands(f[b], "Delimiter", <<>>, Append(SubSeq(words, 1, k - 1), words[k]))
        BY <1>2, <1>10, <4>4, <4>7, NextState
      <4>9. Stands(f[b], "Delimiter", <<>>, us)
        BY <4>6, <4>8 DEF k
      <4>10. ASSUME NEW m \in 1..Len(q) PROVE s[b + m] = q[m]
        <5>1. 1 + m \in 1..Len(gs[i]) /\ e + (1 + m) = b + m
          BY <2>1, <4>1, <4>2
        <5>2. s[e + (1 + m)] = gs[i][1 + m]
          BY <4>5, <5>1
        <5> QED BY <4>2, <5>1, <5>2
      <4>11. end[i] = b + Len(q) /\ b + Len(q) <= Len(s) /\ b \in Nat
        BY <2>1, <4>1, <4>2
      <4>12. Holds(s, b, q)
        BY <1>2, <2>1, <4>10, <4>11, HoldsIs
      <4> QED BY <4>9, <4>11, <4>12
    <3> QED BY <3>1, <3>2
  <2>3. ToSet(w) \cap (Control \cup {Quote}) = {} \/ \A m \in 1..Len(s) : Bytes(s[m]) = 1
    BY <1>3
  <2> HIDE DEF b, us, w
  <2>4. Stands(f[b + Len(quote(w))], "Unquoted", w, us)
    BY <1>2, <1>10, <2>1, <2>2, <2>3, QuotedBack DEF w
  <2> QED BY <2>2, <2>4 DEF w, us
<1> DEFINE S == {i \in 0..n : i = 0 \/ Stands(f[end[i]], "Unquoted", words[i], SubSeq(words, 1, i - 1))}
<1>13. \A i \in 0..n : i \in S
  <2>1. 0 \in S
    BY <1>1
  <2>2. ASSUME NEW i \in 1..n, i - 1 \in S PROVE i \in S
    <3>1. i \in 0..n /\ (i - 1 = 0 => i = 1)
      BY <1>1
    <3>2. Stands(f[end[i]], "Unquoted", words[i], SubSeq(words, 1, i - 1))
      BY <1>12, <2>2, <3>1
    <3> QED BY <3>1, <3>2
  <2> HIDE DEF S
  <2> QED BY <1>1, <2>1, <2>2, Upward
<1>14. ASSUME n = 0 PROVE split(s) = words
  <2>1. Len(s) = 0 /\ words = <<>>
    BY <1>1, <1>9, <1>14 DEF n
  <2>2. AtEnd(f[0]) = <<>>
    BY <1>11 DEF AtEnd
  <2> QED BY <1>10, <2>1, <2>2
<1>15. ASSUME n # 0 PROVE split(s) = words
  <2>1. n \in 1..n /\ n \in 0..n
    BY <1>1, <1>15
  <2>2. Stands(f[Len(s)], "Unquoted", words[n], SubSeq(words, 1, n - 1))
    BY <1>9, <1>13, <1>15, <2>1
  <2>3. AtEnd(f[Len(s)]) = Append(SubSeq(words, 1, n - 1), words[n])
    <3> DEFINE st == f[Len(s)]
    <3>1. st.state = "Unquoted" /\ st.words = SubSeq(words, 1, n - 1) /\ st.word = words[n]
      BY <2>2 DEF Stands
    <3> HIDE DEF st
    <3>2. AtEnd(st) = Append(SubSeq(words, 1, n - 1), words[n])
      BY <3>1 DEF AtEnd
    <3> QED BY <3>2 DEF st
  <2>4. Append(SubSeq(words, 1, n - 1), words[n]) = SubSeq(words, 1, n)
    BY <1>1, <2>1, WordsGrow DEF n
  <2>5. SubSeq(words, 1, n) = words
    BY <1>1 DEF n
  <2> QED BY <1>10, <2>3, <2>4, <2>5
<1>16. split(s) = words
  BY <1>14, <1>15
<1>17. Len(s) = 0 \/ s[Len(s)] # Blank
  <2> SUFFICES ASSUME n # 0 PROVE s[Len(s)] # Blank
    BY <1>1, <1>9
  <2> DEFINE q == quote(words[n])
             e == end[n - 1]
  <2>1. n \in 1..n /\ words[n] \in Texts /\ words[n] # <<>>
    BY <1>1
  <2>2. q \in Seq(Characters) /\ Len(q) \in Nat /\ Len(q) >= 1 /\ q[Len(q)] # Blank
    BY <1>4, <2>1, QuoteEnds DEF Texts
  <2>3. gs[n] = IF n = 1 THEN q ELSE <<Blank>> \o q
    BY <1>5, <2>1
  <2>4. Len(s) = e + Len(gs[n]) /\ e \in Nat /\ \A m \in 1..Len(gs[n]) : s[e + m] = gs[n][m]
    BY <1>9, <2>1
  <2>5. Blank \in Characters
    BY TextsAssumption DEF SpecialChars
  <2> HIDE DEF q, e
  <2>6. Len(gs[n]) \in 1..Len(gs[n]) /\ gs[n][Len(gs[n])] = q[Len(q)]
    <3>1. CASE n = 1
      BY <2>2, <2>3, <3>1
    <3>2. CASE n # 1
      <4> HIDE DEF Blank
      <4>1. Len(<<Blank>> \o q) = 1 + Len(q) /\ (<<Blank>> \o q)[1 + Len(q)] = q[Len(q)]
        BY <2>2, <2>5
      <4> QED BY <2>2, <2>3, <3>2, <4>1
    <3> QED BY <3>1, <3>2
  <2> QED BY <2>2, <2>4, <2>6
<1>18. TrimmedEnd(s) = s
  BY <1>2, <1>17, EndTrimmed
<1> QED BY <1>16, <1>18 DEF s

-----------------------------------------------------------------------------
(* What was written, as far as it was, is read.                            *)

\* The formats of a report.
Formats == {"default", "json", "fdupes", "csv"}

\* The lines ls are the first ones of W, the last of them possibly cut off.
Partly(ls, W) ==
  /\ Proper(ls) /\ Len(ls) <= Len(W)
  /\ \A i \in 1..Len(ls) : ls[i] = W[i] \/ (i = Len(ls) /\ ls[i] \in CutLines(W[i]))

\* A line that was cut off is no line of a group or of the header.
LEMMA CutKind ==
  ASSUME NEW line, NEW cut \in CutLines(line)
  PROVE  cut.kind \in {"path", "malformed"} /\ (cut.kind = "path" => line.kind = "path")
<1>1. CASE line.kind = "path"
  <2>1. PICK n \in 0..(Len(line.field) - 1) : cut = [line EXCEPT !.field = SubSeq(@, 1, n)]
    BY <1>1 DEF CutLines
  <2>2. cut.kind = line.kind
    BY <2>1
  <2> QED BY <1>1, <2>2
<1>2. CASE line.kind # "path"
  BY <1>2 DEF CutLines
<1> QED BY <1>1, <1>2

\* The report in each format.
LEMMA WrittenIs ==
  ASSUME NEW format \in Formats, NEW F, NEW groups \in GroupsOf(F), NEW h
  PROVE  LET W == Written(format, h, groups)
         IN /\ Proper(W)
            /\ format = "default" => HasReport(W, h, groups, "default", 0, Len(W)) /\ W[1].kind = "version"
            /\ format = "json" => /\ HasReport(W, h, groups, "json", 1, Len(W) - 1)
                                  /\ W[1].kind = "open" /\ W[Len(W)].kind = "close"
            /\ format \in {"fdupes", "csv"} =>
                 \A i \in 1..Len(W) : W[i].kind \in {"path", "blank", "columns", "record"}
<1> DEFINE W == Written(format, h, groups)
<1>1. CASE format = "default"
  <2>1. W = write_as_text(h, groups)
    BY <1>1 DEF Written
  <2> QED BY <1>1, <2>1, TextReportIs DEF HasReport
<1>2. CASE format = "json"
  <2>1. W = write_as_json(h, groups)
    BY <1>2 DEF Written
  <2> QED BY <1>2, <2>1, JsonReportIs, SMTT(30) DEF HasReport
<1>3. CASE format = "fdupes"
  <2>1. W = write_as_fdupes(groups)
    BY <1>3 DEF Written
  <2> QED BY <1>3, <2>1, OtherReportsAre
<1>4. CASE format = "csv"
  <2>1. W = write_as_csv(groups)
    BY <1>4 DEF Written
  <2> QED BY <1>4, <2>1, OtherReportsAre
<1> QED BY <1>1, <1>2, <1>3, <1>4 DEF Formats

\* What is read of a header in a text report: it has milliseconds and the command line as a text.
TextHeader(h) ==
  [timestamp |-> Millis(h.timestamp), command |-> split(TrimmedEnd(join(h.command))),
   baseDir |-> TextBaseDir(TrimmedEnd(to_escaped_string(h.baseDir))),
   redundant |-> h.redundant, missing |-> h.missing]

\* What is read of a header in a json report.
ReadJsonHeader(h) ==
  [timestamp |-> h.timestamp, command |-> h.command,
   baseDir |-> from_escaped_string(to_escaped_string(h.baseDir)),
   redundant |-> h.redundant, missing |-> h.missing]

\* TextReportReader::read_header reads what was written, or fails; it reads no other format.
LEMMA TextHeaderRead ==
  ASSUME NEW format \in Formats, NEW F, NEW groups \in GroupsOf(F), NEW h,
         NEW ls, Partly(ls, Written(format, h, groups)), Len(ls) >= 1,
         FormatOf(ls) # "json", read_header(ls) # Failed
  PROVE  /\ format = "default" /\ Len(ls) >= 7
         /\ split(TrimmedEnd(join(h.command))) # Failed /\ read_header(ls) = TextHeader(h)
<1> DEFINE W == Written(format, h, groups)
<1>1. Len(HeaderKinds) = 7 /\ HeaderKinds[1] = "version" /\ \A i \in 1..7 : HeaderKinds[i] \notin {"path", "malformed"}
  <2>1. \A i \in 1..7 : i \in {1, 2, 3, 4, 5, 6, 7}
    OBVIOUS
  <2> QED BY <2>1 DEF HeaderKinds
<1>2. Proper(ls) /\ Len(ls) \in Nat
  BY ProperIs DEF Partly
<1>3. /\ Len(ls) >= 7 /\ \A i \in 1..7 : ls[i].kind = HeaderKinds[i]
      /\ split(TrimmedEnd(ls[3].field)) # Failed
      /\ read_header(ls) = [timestamp |-> ls[2].field, command |-> split(TrimmedEnd(ls[3].field)),
                            baseDir |-> TextBaseDir(TrimmedEnd(ls[4].field)),
                            redundant |-> ls[6].field, missing |-> ls[7].field]
  BY <1>1, <1>2 DEF read_header
<1>4. \A i \in 1..7 : ls[i] = W[i] /\ i \in 1..Len(W)
  <2> SUFFICES ASSUME NEW i \in 1..7 PROVE ls[i] = W[i] /\ i \in 1..Len(W)
    OBVIOUS
  <2>1. i \in 1..Len(ls) /\ Len(ls) <= Len(W)
    BY <1>2, <1>3 DEF Partly
  <2>2. Len(W) \in Nat
    BY WrittenIs, ProperIs
  <2>3. ls[i] = W[i] \/ ls[i] \in CutLines(W[i])
    BY <2>1 DEF Partly
  <2>4. ls[i].kind \notin {"path", "malformed"}
    BY <1>1, <1>3
  <2> HIDE DEF W
  <2> QED BY <1>2, <2>1, <2>2, <2>3, <2>4, CutKind
<1>5. W[1].kind = "version"
  <2>1. 1 \in 1..7
    OBVIOUS
  <2> QED BY <1>1, <1>3, <1>4, <2>1
<1>6. format = "default"
  <2>1. 1 \in 1..Len(W)
    BY <1>4
  <2> HIDE DEF W
  <2>2. /\ format = "json" => W[1].kind = "open"
        /\ format \in {"fdupes", "csv"} => W[1].kind \in {"path", "blank", "columns", "record"}
    BY <2>1, WrittenIs DEF W
  <2> QED BY <1>5, <2>2 DEF Formats
<1>7. \A i \in 1..7 : ls[i] = HeaderLines(h, "default")[i]
  <2>1. \A i \in 1..7 : W[0 + i] = HeaderLines(h, "default")[i]
    BY <1>6, WrittenIs DEF HasReport
  <2>2. \A i \in 1..7 : 0 + i = i
    OBVIOUS
  <2> QED BY <1>4, <2>1, <2>2
<1>8. /\ ls[2].field = Millis(h.timestamp) /\ ls[3].field = join(h.command)
      /\ ls[4].field = to_escaped_string(h.baseDir)
      /\ ls[6].field = h.redundant /\ ls[7].field = h.missing
  <2>1. \A i \in {2, 3, 4, 6, 7} : ls[i] = HeaderLines(h, "default")[i]
    BY <1>7
  <2>2. /\ HeaderField(h, "timestamp", "default") = Millis(h.timestamp)
        /\ HeaderField(h, "command", "default") = join(h.command)
        /\ HeaderField(h, "base dir", "default") = to_escaped_string(h.baseDir)
        /\ HeaderField(h, "redundant", "default") = h.redundant
        /\ HeaderField(h, "missing", "default") = h.missing
    BY DEF HeaderField
  <2> DEFINE L == HeaderLines(h, "default")
  <2>3. /\ L[2].field = HeaderField(h, "timestamp", "default")
        /\ L[3].field = HeaderField(h, "command", "default")
        /\ L[4].field = HeaderField(h, "base dir", "default")
        /\ L[6].field = HeaderField(h, "redundant", "default")
        /\ L[7].field = HeaderField(h, "missing", "default")
    BY HeaderLinesAre
  <2> HIDE DEF L
  <2>4. ls[2] = L[2] /\ ls[3] = L[3] /\ ls[4] = L[4] /\ ls[6] = L[6] /\ ls[7] = L[7]
    BY <2>1 DEF L
  <2> QED BY <2>2, <2>3, <2>4
<1> QED BY <1>3, <1>6, <1>8 DEF TextHeader

\* JsonReportReader reads what was written if all of it is there, and fails otherwise.
LEMMA JsonHeaderRead ==
  ASSUME NEW format \in Formats, NEW F, NEW groups \in GroupsOf(F), NEW h, h.command \in Seq(Texts),
         NEW ls, Partly(ls, Written(format, h, groups)), Len(ls) >= 1, FormatOf(ls) = "json"
  PROVE  /\ format = "json"
         /\ JsonHeader(ls) # Failed => Last(ls).kind = "close"
         /\ Last(ls).kind = "close" =>
              /\ Len(ls) = Len(Written(format, h, groups)) /\ Len(ls) >= 9
              /\ \A i \in 1..Len(ls) : ls[i] = Written(format, h, groups)[i]
              /\ JsonHeader(ls) = ReadJsonHeader(h)
<1> DEFINE W == Written(format, h, groups)
<1>1. Proper(ls) /\ Len(ls) \in Nat /\ Len(ls) <= Len(W) /\ Len(W) \in Nat
  BY ProperIs, WrittenIs DEF Partly
<1>2. \A i \in 1..Len(ls) : ls[i] = W[i] \/ (i = Len(ls) /\ ls[i] \in CutLines(W[i]))
  BY DEF Partly
<1>3. ls[1].kind = "open"
  BY DEF FormatOf
<1>4. W[1].kind = "open" /\ 1 \in 1..Len(W)
  <2>1. 1 \in 1..Len(ls) /\ 1 \in 1..Len(W)
    BY <1>1
  <2> HIDE DEF W
  <2> QED BY <1>2, <1>3, <2>1, CutKind
<1>5. format = "json"
  <2> HIDE DEF W
  <2>2. /\ format = "default" => W[1].kind = "version"
        /\ format \in {"fdupes", "csv"} => W[1].kind \in {"path", "blank", "columns", "record"}
    BY <1>4, WrittenIs DEF W
  <2> QED BY <1>4, <2>2 DEF Formats
<1>6. ASSUME Last(ls).kind = "close"
      PROVE  /\ Len(ls) = Len(W) /\ Len(ls) >= 9
             /\ \A i \in 1..Len(ls) : ls[i] = W[i]
             /\ JsonHeader(ls) = ReadJsonHeader(h)
  <2>1. /\ ls[Len(ls)].kind = "close"
        /\ JsonHeader(ls) = [timestamp |-> ls[3].field,
                             command |-> [i \in DOMAIN ls[4].field |-> from_stfu8(ls[4].field[i])],
                             baseDir |-> from_escaped_string(ls[5].field),
                             redundant |-> ls[7].field, missing |-> ls[8].field]
    BY <1>6 DEF JsonHeader, Last
  <2>2. HasReport(W, h, groups, "json", 1, Len(W) - 1) /\ W[1].kind = "open" /\ W[Len(W)].kind = "close"
    BY <1>5, WrittenIs
  <2> HIDE DEF W
  <2>3. /\ \A i \in 1..7 : W[1 + i] = HeaderLines(h, "json")[i]
        /\ \A i \in 9..(Len(W) - 1) : W[i].kind \in {"group", "path"}
        /\ Len(W) >= 9
    <3>1. /\ \A i \in 1..7 : W[1 + i] = HeaderLines(h, "json")[i]
          /\ \A i \in (1 + 8)..(Len(W) - 1) : W[i].kind \in {"group", "path"}
          /\ Len(W) - 1 >= 1 + 7
      BY <2>2 DEF HasReport
    <3> QED BY <1>1, <3>1
  <2>4. \A i \in 1..Len(ls) : ls[i] = W[i]
    BY <1>2, <2>1, CutKind
  <2>5. W[Len(ls)].kind = "close" /\ Len(ls) \in 1..Len(W)
    BY <1>1, <2>1, <2>4
  <2>6. \A i \in 1..7 : HeaderLines(h, "json")[i].kind = HeaderKinds[i] /\ HeaderKinds[i] # "close"
    <3>1. \A i \in 1..7 : HeaderKinds[i] # "close"
      <4>1. \A i \in 1..7 : i \in {1, 2, 3, 4, 5, 6, 7}
        OBVIOUS
      <4>2. /\ HeaderKinds[1] = "version" /\ HeaderKinds[2] = "timestamp" /\ HeaderKinds[3] = "command"
            /\ HeaderKinds[4] = "base dir" /\ HeaderKinds[5] = "total" /\ HeaderKinds[6] = "redundant"
            /\ HeaderKinds[7] = "missing"
        BY DEF HeaderKinds
      <4> QED BY <4>1, <4>2
    <3> DEFINE L == HeaderLines(h, "json")
    <3>2. \A i \in 1..7 : L[i].kind = HeaderKinds[i]
      BY HeaderLinesAre, ZenonT(30)
    <3> HIDE DEF L
    <3>3. \A i \in 1..7 : L[i].kind = HeaderKinds[i] /\ HeaderKinds[i] # "close"
      BY <3>1, <3>2
    <3> QED BY <3>3 DEF L
  <2>7. Len(ls) = Len(W)
    <3>1. Len(ls) = 1 \/ Len(ls) - 1 \in 1..7 \/ Len(ls) \in 9..(Len(W) - 1) \/ Len(ls) = Len(W)
      <4>1. \A a, b \in Nat : 1 <= a /\ a <= b => a = 1 \/ a - 1 \in 1..7 \/ a \in 9..(b - 1) \/ a = b
        OBVIOUS
      <4> QED BY <1>1, <4>1
    <3>2. Len(ls) - 1 \in 1..7 => W[Len(ls)].kind # "close"
      <4>1. Len(ls) - 1 \in 1..7 => W[1 + (Len(ls) - 1)].kind # "close"
        BY <2>3, <2>6
      <4>2. 1 + (Len(ls) - 1) = Len(ls)
        BY <1>1
      <4> QED BY <4>1, <4>2
    <3> QED BY <2>2, <2>3, <2>5, <3>1, <3>2
  <2>8. \A i \in 1..7 : ls[1 + i] = HeaderLines(h, "json")[i]
    <3>1. \A i \in 1..7 : 1 + i \in 1..Len(ls)
      BY <1>1, <2>3, <2>7
    <3> QED BY <2>3, <2>4, <3>1
  <2>9. /\ ls[3].field = h.timestamp /\ ls[5].field = to_escaped_string(h.baseDir)
        /\ ls[4].field = [i \in DOMAIN h.command |-> to_stfu8(h.command[i])]
        /\ ls[7].field = h.redundant /\ ls[8].field = h.missing
    <3>1. \A i \in {2, 3, 4, 6, 7} : ls[1 + i] = HeaderLines(h, "json")[i]
      BY <2>8
    <3>2. /\ HeaderField(h, "timestamp", "json") = h.timestamp
          /\ HeaderField(h, "command", "json") = [i \in DOMAIN h.command |-> to_stfu8(h.command[i])]
          /\ HeaderField(h, "base dir", "json") = to_escaped_string(h.baseDir)
          /\ HeaderField(h, "redundant", "json") = h.redundant
          /\ HeaderField(h, "missing", "json") = h.missing
      BY DEF HeaderField
    <3>3. 1 + 2 = 3 /\ 1 + 3 = 4 /\ 1 + 4 = 5 /\ 1 + 6 = 7 /\ 1 + 7 = 8
      OBVIOUS
    <3>4. /\ ls[3] = HeaderLines(h, "json")[2] /\ ls[4] = HeaderLines(h, "json")[3]
          /\ ls[5] = HeaderLines(h, "json")[4] /\ ls[7] = HeaderLines(h, "json")[6]
          /\ ls[8] = HeaderLines(h, "json")[7]
      BY <3>1, <3>3
    <3> DEFINE L == HeaderLines(h, "json")
    <3>5. /\ L[2].field = HeaderField(h, "timestamp", "json")
          /\ L[3].field = HeaderField(h, "command", "json")
          /\ L[4].field = HeaderField(h, "base dir", "json")
          /\ L[6].field = HeaderField(h, "redundant", "json")
          /\ L[7].field = HeaderField(h, "missing", "json")
      BY HeaderLinesAre
    <3> HIDE DEF L
    <3>6. ls[3] = L[2] /\ ls[4] = L[3] /\ ls[5] = L[4] /\ ls[7] = L[6] /\ ls[8] = L[7]
      BY <3>4 DEF L
    <3> QED BY <3>2, <3>5, <3>6
  <2>10. [i \in DOMAIN ls[4].field |-> from_stfu8(ls[4].field[i])] = h.command
    <3> DEFINE c == h.command
               e == [i \in DOMAIN c |-> to_stfu8(c[i])]
    <3>1. DOMAIN e = DOMAIN c /\ \A i \in DOMAIN c : e[i] = to_stfu8(c[i])
      OBVIOUS
    <3>2. DOMAIN c = 1..Len(c) /\ c = [i \in DOMAIN c |-> c[i]] /\ \A i \in DOMAIN c : c[i] \in Texts
      <4>1. c \in Seq(Texts)
        OBVIOUS
      <4> HIDE DEF c
      <4> QED BY <4>1
    <3> HIDE DEF c, e
    <3>3. \A i \in DOMAIN c : from_stfu8(e[i]) = c[i]
      BY <3>1, <3>2, EscapedReturns
    <3>4. [i \in DOMAIN e |-> from_stfu8(e[i])] = c
      BY <3>1, <3>2, <3>3
    <3>5. ls[4].field = e
      BY <2>9 DEF e, c
    <3> QED BY <3>4, <3>5 DEF c
  <2> QED BY <2>1, <2>3, <2>4, <2>7, <2>9, <2>10 DEF ReadJsonHeader
<1>7. JsonHeader(ls) # Failed => Last(ls).kind = "close"
  BY DEF JsonHeader
<1> QED BY <1>5, <1>6, <1>7

-----------------------------------------------------------------------------
(* The scenarios.                                                          *)

\* The scenario is one of those given.
InScenario == scenario \in 1..Len(Scenarios)

\* What the operators of the scenario are.
LEMMA ScenarioIs ==
  ASSUME InScenario
  PROVE  /\ Words \in Seq(Texts) /\ Format \in Formats /\ Classes \in GroupsOf(Files)
         /\ Own \in [rfOver : Nat \cup {NoCount}, roots : Seq(Path), matchLinks : BOOLEAN]
         /\ Files \subseteq Path /\ (\A p \in Files : IsPath(p)) /\ Length \in [Files -> Nat]
         /\ Config = try_parse_from(Words) /\ Config \in GroupConfigs
         /\ Resolved = resolve_base_dir(Config, Cwd) /\ Filter = group_filter(Resolved, Inode)
<1> DEFINE T == ToSet(Scenarios)
<1>1. Scenarios \in Seq(T)
  BY ScenariosAssumption
<1>2. \A s \in T : /\ s.words \in Seq(Texts) /\ try_parse_from(s.words) # Failed
                   /\ s.format \in Formats
                   /\ s.own \in [rfOver : Nat \cup {NoCount}, roots : Seq(Path), matchLinks : BOOLEAN]
                   /\ (\A p \in DOMAIN s.inode : IsPath(p)) /\ s.len \in [DOMAIN s.inode -> Nat]
                   /\ s.classes \in GroupsOf(DOMAIN s.inode)
  BY ScenariosAssumption DEF Formats, GroupsOf
<1>p. \A p : IsPath(p) => p \in Path
  BY DEF IsPath
<1> HIDE DEF T
<1>3. scenario \in DOMAIN Scenarios /\ Scenario \in T
  BY <1>1 DEF InScenario, Scenario
<1>4. /\ Words \in Seq(Texts) /\ try_parse_from(Words) # Failed /\ Format \in Formats
      /\ Own \in [rfOver : Nat \cup {NoCount}, roots : Seq(Path), matchLinks : BOOLEAN]
      /\ (\A p \in Files : IsPath(p)) /\ Length \in [Files -> Nat] /\ Classes \in GroupsOf(Files)
  BY <1>2, <1>3 DEF Words, Format, Own, Files, Inode, Length, Classes
<1>q. Files \subseteq Path
  BY <1>4, <1>p
<1>5. Config = try_parse_from(Words)
  BY <1>3 DEF Config, Configs, Words, Scenario
<1>6. Config \in GroupConfigs
  BY <1>4, <1>5, ParseTyped
<1>7. Resolved = resolve_base_dir(Config, Cwd)
  BY <1>3 DEF Resolved, ResolvedConfigs, Config
<1>8. Filter = group_filter(Resolved, Inode)
  BY <1>3 DEF Filter, Filters, Resolved, Inode, Scenario
<1> QED BY <1>4, <1>5, <1>6, <1>7, <1>8, <1>q

\* The root of a file is the first one that is a prefix of its path.
LEMMA RootOfIs ==
  ASSUME NEW roots, Proper(roots), NEW p
  PROVE  /\ RootOf(roots, p) \in 0..Len(roots) /\ Len(roots) \in Nat
         /\ RootOf(roots, p) # 0 => is_prefix_of(roots[RootOf(roots, p)], p)
         /\ RootOf(roots, p) = 0 => \A i \in 1..Len(roots) : ~is_prefix_of(roots[i], p)
         /\ \A i \in 1..Len(roots) : i < RootOf(roots, p) => ~is_prefix_of(roots[i], p)
<1> DEFINE I == {i \in 1..Len(roots) : is_prefix_of(roots[i], p)}
<1>1. Len(roots) \in Nat
  BY ProperIs
<1>2. RootOf(roots, p) = IF I # {} THEN Min(I) ELSE 0
  BY DEF RootOf, SelectInSeq
<1>3. I \subseteq 1..Len(roots) /\ IsFiniteSet(I)
  <2>1. IsFiniteSet(1..Len(roots)) /\ I \in SUBSET (1..Len(roots))
    BY <1>1, FS_Interval
  <2> HIDE DEF I
  <2> QED BY <2>1, FS_Subset
<1>4. I # {} => Min(I) \in I /\ \A i \in I : Min(I) <= i
  <2>1. I \subseteq Int
    BY <1>1, <1>3
  <2> HIDE DEF I
  <2> QED BY <1>3, <2>1, Extremes
<1>5. \A i \in 1..Len(roots) : i \in I <=> is_prefix_of(roots[i], p)
  OBVIOUS
<1> HIDE DEF I
<1>6. CASE I = {}
  BY <1>1, <1>2, <1>5, <1>6
<1>7. CASE I # {}
  <2>1. RootOf(roots, p) = Min(I) /\ Min(I) \in 1..Len(roots) /\ is_prefix_of(roots[Min(I)], p)
    BY <1>2, <1>3, <1>4, <1>5, <1>7
  <2>2. ASSUME NEW i \in 1..Len(roots), i < Min(I) PROVE ~is_prefix_of(roots[i], p)
    <3>1. i \notin I
      BY <1>1, <1>4, <1>7, <2>1, <2>2
    <3> QED BY <1>5, <3>1
  <2> QED BY <1>1, <2>1, <2>2
<1> QED BY <1>6, <1>7

\* GroupConfig::input_paths resolves each path against the base directory.
LEMMA InputPathsAre ==
  ASSUME NEW c, Proper(c.paths)
  PROVE  Proper(input_paths(c)) /\ Len(input_paths(c)) = Len(c.paths) /\ Len(c.paths) \in Nat
         /\ \A i \in 1..Len(c.paths) : input_paths(c)[i] = resolve(c.baseDir, c.paths[i])
<1> DEFINE r == input_paths(c)
<1>1. Len(c.paths) \in Nat
  BY ProperIs
<1>2. r = [i \in 1..Len(c.paths) |-> resolve(c.baseDir, c.paths[i])]
  BY DEF input_paths
<1>3. r = [i \in 1..Len(c.paths) |-> r[i]] /\ \A i \in 1..Len(c.paths) : r[i] = resolve(c.baseDir, c.paths[i])
  BY <1>2
<1> HIDE DEF r
<1> QED BY <1>1, <1>3, ProperIs DEF r

\* A configuration with another base directory is otherwise the same.
LEMMA ConfigIs ==
  ASSUME NEW c \in GroupConfigs, NEW dir
  PROVE  LET d == [c EXCEPT !.baseDir = dir]
         IN /\ d.paths = c.paths /\ Proper(d.paths) /\ d.baseDir = dir
            /\ d.isolate = c.isolate /\ d.matchLinks = c.matchLinks /\ d.unique = c.unique
            /\ d.transform = c.transform /\ d.rfOver = c.rfOver /\ d.rfUnder = c.rfUnder
            /\ c.rfOver \in Counts \cup {NoCount} /\ c.rfUnder \in Counts \cup {NoCount}
            /\ c.isolate \in BOOLEAN /\ c.matchLinks \in BOOLEAN /\ c.unique \in BOOLEAN /\ c.transform \in BOOLEAN
            /\ rf_over(d) = rf_over(c) /\ rf_under(d) = rf_under(c)
            /\ rf_over(c) \in Nat /\ rf_under(c) \in Nat
<1> DEFINE P == ParsedPaths
           N == Counts \cup {NoCount}
           d == [c EXCEPT !.baseDir = dir]
<1>1. c \in [isolate : BOOLEAN, matchLinks : BOOLEAN, unique : BOOLEAN, transform : BOOLEAN,
             rfOver : N, rfUnder : N, baseDir : P, paths : Seq(P)]
  BY DEF GroupConfigs
<1>2. N = {-1, 0, 1, 2, 3}
  BY DEF Counts, NoCount
<1> HIDE DEF P, N
<1>3. /\ d.paths = c.paths /\ d.baseDir = dir
      /\ d.isolate = c.isolate /\ d.matchLinks = c.matchLinks /\ d.unique = c.unique
      /\ d.transform = c.transform /\ d.rfOver = c.rfOver /\ d.rfUnder = c.rfUnder
  BY <1>1
<1>4. c.rfOver \in N /\ c.rfUnder \in N /\ c.paths \in Seq(P) /\ c.isolate \in BOOLEAN
      /\ c.matchLinks \in BOOLEAN /\ c.unique \in BOOLEAN /\ c.transform \in BOOLEAN
  BY <1>1
<1>5. Proper(c.paths)
  BY <1>4, ProperIs
<1>6. rf_over(c) \in Nat /\ rf_under(c) \in Nat
  BY <1>2, <1>4 DEF rf_over, rf_under, NoCount, MaxCount
<1> HIDE DEF d
<1>7. rf_over(d) = rf_over(c) /\ rf_under(d) = rf_under(c)
  BY <1>3 DEF rf_over, rf_under
<1> QED BY <1>3, <1>4, <1>5, <1>6, <1>7 DEF d, N

\* GroupConfig::group_filter has a root number for every file.
LEMMA FilterIs ==
  ASSUME InScenario
  PROVE  /\ Filter.rootCount \in Nat /\ \A p \in Files : Filter.rootOf[p] \in 0..Filter.rootCount
         /\ Proper(Resolved.paths)
<1>1. Config \in GroupConfigs /\ Resolved = resolve_base_dir(Config, Cwd) /\ Filter = group_filter(Resolved, Inode)
  BY ScenarioIs
<1>2. Proper(Resolved.paths)
  BY <1>1, ConfigIs DEF resolve_base_dir
<1> DEFINE roots == IF Resolved.isolate THEN input_paths(Resolved) ELSE <<>>
<1>3. Proper(roots)
  <2>1. Proper(<<>>)
    <3>1. <<>> \in Seq({})
      OBVIOUS
    <3> QED BY <3>1, ProperIs
  <2> QED BY <1>2, <2>1, InputPathsAre
<1>4. Filter.rootCount = Len(roots) /\ Filter.rootOf = [p \in Files |-> RootOf(roots, p)]
  BY <1>1 DEF group_filter, Files
<1> HIDE DEF roots
<1> QED BY <1>2, <1>3, <1>4, RootOfIs

-----------------------------------------------------------------------------
(* The first process.                                                      *)

\* Types of what the first process and the clock change.
Typed ==
  /\ InScenario
  /\ clock \in Nat /\ now \in Nat /\ now <= clock
  /\ changed \in [Files -> Nat]
  /\ stage \in {"start", "grouped", "writing", "complete", "failed"}
  /\ found \in GroupsOf(Files)

\* The report the first process writes.
TheHeader ==
  [timestamp |-> now, command |-> Words, baseDir |-> Resolved.baseDir,
   redundant |-> Redundant(found, Filter), missing |-> Missing(found, Filter)]

\* The lines of that report, in the order they are written.
TheReport == Written(Format, TheHeader, found)

\* What it wrote is the start of that; the last line may be cut off if it stopped.
Writes ==
  /\ Proper(lines) /\ Len(lines) <= Len(TheReport)
  /\ \A i \in 1..Len(lines) :
       lines[i] = TheReport[i] \/ (stage = "failed" /\ i = Len(lines) /\ lines[i] \in CutLines(TheReport[i]))
  /\ stage \in {"start", "grouped"} => lines = <<>>
  /\ stage = "writing" => todo = SubSeq(TheReport, Len(lines) + 1, Len(TheReport))
  /\ stage = "complete" => Len(lines) = Len(TheReport)

\* The report is a sequence of lines.
LEMMA ReportTyped ==
  ASSUME Typed
  PROVE  Proper(TheReport) /\ Len(TheReport) \in Nat
<1>1. Format \in Formats /\ found \in GroupsOf(Files)
  BY ScenarioIs DEF Typed
<1>2. Proper(TheReport)
  BY <1>1, WrittenIs DEF TheReport
<1> QED BY <1>2, ProperIs

\* What depends on the scenario only.
LEMMA ScenarioStays ==
  ASSUME UNCHANGED scenario
  PROVE  /\ Words' = Words /\ Format' = Format /\ Own' = Own /\ Files' = Files /\ Inode' = Inode
         /\ Length' = Length /\ Classes' = Classes
         /\ Config' = Config /\ Resolved' = Resolved /\ Filter' = Filter /\ InScenario' = InScenario
BY DEF Words, Format, Own, Files, Inode, Length, Classes, Scenario, Config, Resolved, Filter, InScenario

\* The report depends on the scenario, on what was found and on when it was.
LEMMA ReportStays ==
  ASSUME UNCHANGED <<scenario, found, now>>
  PROVE  TheReport' = TheReport /\ TheHeader' = TheHeader
<1>1. Words' = Words /\ Resolved' = Resolved /\ Format' = Format /\ Filter' = Filter
  BY ScenarioStays
<1>2. TheHeader' = TheHeader
  BY <1>1 DEF TheHeader
<1> QED BY <1>1, <1>2 DEF TheReport

\* What `fclones group` finds are groups of files.
LEMMA GroupTyped ==
  ASSUME Typed, Group
  PROVE  found' \in GroupsOf(Files)
<1> DEFINE R == [len : Nat, files : Seq(Files)]
           T == {p \in Files : Scanned(p) /\ changed[p] = 0}
           same == [i \in DOMAIN Classes |-> [Classes[i] EXCEPT !.files = Filtered(@, T)]]
           wanted(g) == /\ g.files # <<>>
                        /\ IF Config.transform THEN matches(g.files, Filter)
                           ELSE matches_strictly(g.files, Filter)
           groups == Filtered(same, {g \in ToSet(same) : wanted(g)})
<1>1. found' = [i \in DOMAIN groups |-> [groups[i] EXCEPT !.files = sort_by_path(@, Filter, Inode)]]
  BY DEF Group
<1>2. Classes \in Seq(R)
  BY ScenarioIs DEF Typed, GroupsOf
<1>3. ASSUME NEW g \in R, NEW f \in Seq(Files) PROVE [g EXCEPT !.files = f] \in R
  OBVIOUS
<1>x. ASSUME NEW g \in R PROVE g.files \in Seq(Files)
  OBVIOUS
<1> HIDE DEF R, T
<1>4. ASSUME NEW i \in DOMAIN Classes PROVE same[i] \in R
  <2>1. Classes[i] \in R /\ Classes[i].files \in Seq(Files)
    BY <1>2, <1>x
  <2>2. Filtered(Classes[i].files, T) \in Seq(Files)
    BY <2>1, FilteredIs
  <2> QED BY <1>3, <2>1, <2>2
<1>5. same \in Seq(R)
  <2>1. DOMAIN Classes = 1..Len(Classes) /\ Len(Classes) \in Nat /\ same = [i \in 1..Len(Classes) |-> same[i]]
    BY <1>2
  <2> HIDE DEF same
  <2> QED BY <1>4, <2>1
<1> HIDE DEF same, wanted
<1>6. groups \in Seq(R)
  BY <1>5, FilteredIs
<1> HIDE DEF groups
<1>7. ASSUME NEW f \in Seq(Files) PROVE sort_by_path(f, Filter, Inode) \in Seq(Files)
  <2> DEFINE gs == FileSubGroups(f, Filter.rootCount, Filter.rootOf, Inode)
             M == ToSet(f)
  <2>1. M \subseteq Files
    BY ToSetIs
  <2>2. Filter.rootCount \in Nat /\ \A p \in M : Filter.rootOf[p] \in 0..Filter.rootCount
    BY <2>1, FilterIs DEF Typed
  <2>3. gs \in Seq(NonEmpty(M))
    BY <2>2, SubGroupsAre
  <2> HIDE DEF gs, M
  <2>4. NonEmpty(M) \subseteq Seq(Files)
    <3>1. Seq(M) \subseteq Seq(Files)
      BY <2>1
    <3> QED BY <3>1 DEF NonEmpty
  <2>5. gs \in Seq(Seq(Files))
    <3> DEFINE X == NonEmpty(M)
               Y == Seq(Files)
    <3>1. X \subseteq Y /\ gs \in Seq(X)
      BY <2>3, <2>4
    <3> HIDE DEF X, Y
    <3>2. gs \in Seq(Y)
      BY <3>1
    <3> QED BY <3>2 DEF Y
  <2>6. FlattenSeq(gs) \in Seq(Files)
    BY <2>5, FlattenIs
  <2> QED BY <2>6 DEF sort_by_path, gs
<1>8. \A i \in DOMAIN groups : [groups[i] EXCEPT !.files = sort_by_path(@, Filter, Inode)] \in R
  <2> SUFFICES ASSUME NEW i \in DOMAIN groups
               PROVE  [groups[i] EXCEPT !.files = sort_by_path(@, Filter, Inode)] \in R
    OBVIOUS
  <2>1. groups[i] \in R /\ groups[i].files \in Seq(Files)
    BY <1>6, <1>x
  <2>2. sort_by_path(groups[i].files, Filter, Inode) \in Seq(Files)
    BY <1>7, <2>1
  <2> QED BY <1>3, <2>1, <2>2
<1>9. found' \in Seq(R)
  <2>1. DOMAIN groups = 1..Len(groups) /\ Len(groups) \in Nat
    BY <1>6
  <2> QED BY <1>1, <1>8, <2>1
<1> QED BY <1>9 DEF R, GroupsOf

\* What a step does to the scenario, the clock and the report.
LEMMA TypedKept ==
  ASSUME Typed, [Next]_vars
  PROVE  Typed'
<1> USE DEF Typed
<1>1. UNCHANGED scenario
  BY DEF Next, Tick, Modify, Pipeline, Refuse, Group, BeginReport, WriteLine, Complete, OpenReport, ReadHeader,
         ReadGroup, Stop, Over, vars
<1>2. Files' = Files /\ InScenario'
  BY <1>1, ScenarioStays
<1>3. CASE Tick
  BY <1>2, <1>3, TimesAssumption DEF Tick, groupVars
<1>4. CASE \E p \in Files : Modify(p)
  BY <1>2, <1>4 DEF Modify, groupVars
<1>5. CASE Group
  BY <1>2, <1>5, GroupTyped DEF Group
<1>6. CASE BeginReport
  BY <1>2, <1>6 DEF BeginReport
<1>7. CASE Refuse \/ WriteLine \/ Complete \/ Stop
  BY <1>2, <1>7 DEF Refuse, WriteLine, Complete, Stop
<1>8. CASE OpenReport \/ ReadHeader \/ ReadGroup
  BY <1>2, <1>8 DEF OpenReport, ReadHeader, ReadGroup, groupVars
<1>9. CASE Over \/ UNCHANGED vars
  BY <1>2, <1>9 DEF Over, vars, groupVars
<1> QED BY <1>3, <1>4, <1>5, <1>6, <1>7, <1>8, <1>9 DEF Next, Pipeline

\* The lines after the first n of a sequence, and the next one.
LEMMA Rest ==
  ASSUME NEW W, Proper(W), NEW n \in Nat, n <= Len(W)
  PROVE  LET rest == SubSeq(W, n + 1, Len(W))
         IN rest # <<>> => /\ n + 1 <= Len(W) /\ Head(rest) = W[n + 1]
                           /\ Tail(rest) = SubSeq(W, n + 1 + 1, Len(W))
<1> DEFINE S == ToSet(W)
           rest == SubSeq(W, n + 1, Len(W))
<1>1. W \in Seq(S) /\ Len(W) \in Nat
  BY ProperIs DEF Proper
<1> HIDE DEF S
<1>2. /\ rest \in Seq(S) /\ Len(rest) = Len(W) - n
      /\ \A i \in 1..(Len(W) - n) : rest[i] = W[n + i]
  <2>1. rest \in Seq(S) /\ Len(rest) = Len(W) - n
    BY <1>1
  <2>2. \A i \in 1..(Len(W) - n) : rest[i] = W[n + i]
    BY <1>1
  <2> QED BY <2>1, <2>2
<1>3. ASSUME rest # <<>>
      PROVE  /\ n + 1 <= Len(W) /\ Head(rest) = W[n + 1]
             /\ Tail(rest) = SubSeq(W, n + 1 + 1, Len(W))
  <2> DEFINE r == rest
  <2>1. r \in Seq(S) /\ r # <<>> /\ Len(r) = Len(W) - n
    BY <1>2, <1>3
  <2> HIDE DEF r
  <2>2. Len(r) >= 1 /\ Head(r) = r[1]
    BY <2>1
  <2>3. n + 1 <= Len(W) /\ r[1] = W[n + 1]
    BY <1>1, <1>2, <2>1, <2>2 DEF r
  <2>4. Tail(r) = SubSeq(W, n + 1 + 1, Len(W))
    <3> DEFINE t == Tail(r)
               u == SubSeq(W, n + 1 + 1, Len(W))
    <3>1. t \in Seq(S) /\ Len(t) = Len(W) - n - 1 /\ \A i \in 1..(Len(W) - n - 1) : t[i] = r[i + 1]
      BY <1>1, <2>1, <2>2
    <3>2. u \in Seq(S) /\ Len(u) = Len(W) - n - 1 /\ \A i \in 1..(Len(W) - n - 1) : u[i] = W[n + 1 + i]
      BY <1>1, <2>3
    <3>3. ASSUME NEW i \in 1..(Len(W) - n - 1) PROVE t[i] = u[i]
      <4>1. i + 1 \in 1..(Len(W) - n) /\ n + (i + 1) = n + 1 + i
        BY <1>1
      <4>2. r[i + 1] = W[n + (i + 1)]
        BY <1>2, <4>1 DEF r
      <4> QED BY <3>1, <3>2, <4>1, <4>2
    <3> HIDE DEF t, u
    <3>4. t = u
      BY <3>1, <3>2, <3>3
    <3> QED BY <3>4 DEF t, u
  <2> QED BY <2>2, <2>3, <2>4 DEF r
<1> QED BY <1>3

\* The report is written in its order, and its first lines stay what they are.
Grows ==
  /\ Len(lines') >= Len(lines) /\ \A i \in 1..Len(lines) : lines'[i] = lines[i]
  /\ lines # <<>> => UNCHANGED <<found, now>> /\ TheReport' = TheReport /\ TheHeader' = TheHeader
  /\ Ended => lines' = lines /\ UNCHANGED stage

\* No step changes a line of the report that is complete, and none is written out of order.
LEMMA WritesKept ==
  ASSUME Typed, Writes, [Next]_vars
  PROVE  Writes' /\ Grows
<1>1. UNCHANGED scenario
  BY DEF Next, Tick, Modify, Pipeline, Refuse, Group, BeginReport, WriteLine, Complete, OpenReport, ReadHeader,
         ReadGroup, Stop, Over, vars
<1>2. Proper(TheReport') /\ Len(TheReport') \in Nat
  <2>1. Typed'
    BY TypedKept
  <2>2. (Proper(TheReport) /\ Len(TheReport) \in Nat)'
    BY <2>1, ReportTyped, PTL
  <2> QED BY <2>2
<1>3. Proper(lines) /\ Len(lines) \in Nat /\ Len(TheReport) \in Nat /\ Proper(TheReport)
  BY ReportTyped, ProperIs DEF Writes
<1>4. CASE UNCHANGED <<found, now, lines, todo>> /\ stage' = stage
  <2>1. TheReport' = TheReport /\ TheHeader' = TheHeader
    BY <1>1, <1>4, ReportStays
  <2> QED BY <1>3, <1>4, <2>1 DEF Writes, Grows
<1>5. CASE UNCHANGED <<found, now, lines, todo>> /\ stage' = "failed" /\ stage \in {"start", "grouped", "writing"}
  <2>1. TheReport' = TheReport /\ TheHeader' = TheHeader
    BY <1>1, <1>5, ReportStays
  <2> QED BY <1>3, <1>5, <2>1 DEF Writes, Grows, Ended
<1>6. CASE Group
  <2>1. lines = <<>> /\ lines' = lines /\ stage' = "grouped" /\ stage = "start"
    BY <1>6 DEF Group, Writes
  <2> QED BY <1>2, <1>3, <2>1 DEF Writes, Grows, Ended
<1>7. CASE BeginReport
  <2>1. lines = <<>> /\ lines' = lines /\ stage' = "writing" /\ stage = "grouped"
    BY <1>7 DEF BeginReport, Writes
  <2>2. todo' = TheReport'
    <3>1. now' = clock /\ found' = found
      BY <1>7 DEF BeginReport
    <3>2. Words' = Words /\ Resolved' = Resolved /\ Format' = Format /\ Filter' = Filter
      BY <1>1, ScenarioStays
    <3>3. TheHeader' = ReportHeader(Redundant(found, Filter), Missing(found, Filter))
      BY <3>1, <3>2 DEF TheHeader, ReportHeader
    <3>4. todo' = Written(Format, ReportHeader(Redundant(found, Filter), Missing(found, Filter)), found)
      BY <1>7 DEF BeginReport
    <3> QED BY <3>1, <3>2, <3>3, <3>4 DEF TheReport
  <2>3. todo' = SubSeq(TheReport', Len(lines') + 1, Len(TheReport'))
    <3> DEFINE W == TheReport'
               S == ToSet(W)
    <3>1. W \in Seq(S)
      BY <1>2 DEF Proper
    <3> HIDE DEF W, S
    <3>2. SubSeq(W, 0 + 1, Len(W)) = W
      BY <3>1
    <3>3. Len(lines') = 0
      BY <2>1
    <3> QED BY <2>2, <3>2, <3>3 DEF W
  <2> QED BY <1>2, <1>3, <2>1, <2>3 DEF Writes, Grows, Ended
<1>8. CASE WriteLine
  <2>1. stage = "writing" /\ todo = SubSeq(TheReport, Len(lines) + 1, Len(TheReport)) /\ todo # <<>>
        /\ UNCHANGED <<found, now, stage>>
        /\ lines' = Append(lines, Head(todo)) /\ todo' = Tail(todo)
    BY <1>8 DEF WriteLine, Writes
  <2>2. TheReport' = TheReport /\ TheHeader' = TheHeader
    BY <1>1, <2>1, ReportStays
  <2>3. /\ Len(lines) + 1 <= Len(TheReport) /\ Head(todo) = TheReport[Len(lines) + 1]
        /\ Tail(todo) = SubSeq(TheReport, Len(lines) + 1 + 1, Len(TheReport))
    <3>1. Len(lines) <= Len(TheReport)
      BY DEF Writes
    <3> QED BY <1>3, <2>1, <3>1, Rest
  <2>4. /\ Proper(lines') /\ Len(lines') = Len(lines) + 1
        /\ lines'[Len(lines) + 1] = Head(todo) /\ \A i \in 1..Len(lines) : lines'[i] = lines[i]
    BY <1>3, <2>1, ProperAppend
  <2>5. \A i \in 1..Len(lines') : lines'[i] = TheReport'[i]
    <3>1. \A i \in 1..Len(lines) : lines[i] = TheReport[i]
      BY <2>1 DEF Writes
    <3>2. \A i \in 1..(Len(lines) + 1) : i = Len(lines) + 1 \/ i \in 1..Len(lines)
      BY <1>3
    <3> QED BY <2>2, <2>3, <2>4, <3>1, <3>2
  <2> QED BY <1>3, <2>1, <2>2, <2>3, <2>4, <2>5 DEF Writes, Grows, Ended
<1>9. CASE Complete
  <2>1. stage = "writing" /\ todo = SubSeq(TheReport, Len(lines) + 1, Len(TheReport)) /\ todo = <<>>
        /\ UNCHANGED <<found, now, lines, todo>> /\ stage' = "complete"
    BY <1>9 DEF Complete, Writes
  <2>2. TheReport' = TheReport /\ TheHeader' = TheHeader
    BY <1>1, <2>1, ReportStays
  <2>3. Len(lines) = Len(TheReport)
    <3> DEFINE W == TheReport
               S == ToSet(W)
    <3>1. W \in Seq(S) /\ Len(lines) <= Len(W)
      BY <1>3 DEF Proper, Writes
    <3> HIDE DEF W, S
    <3>2. Len(SubSeq(W, Len(lines) + 1, Len(W))) = Len(W) - Len(lines)
      BY <1>3, <3>1
    <3>3. Len(W) - Len(lines) = 0
      <4>1. SubSeq(W, Len(lines) + 1, Len(W)) = <<>>
        BY <2>1 DEF W
      <4>2. Len(<<>>) = 0
        OBVIOUS
      <4> QED BY <3>2, <4>1, <4>2
    <3> QED BY <1>3, <3>1, <3>3 DEF W
  <2> QED BY <1>3, <2>1, <2>2, <2>3 DEF Writes, Grows, Ended
<1>10. CASE /\ stage = "writing" /\ todo # <<>> /\ stage' = "failed" /\ UNCHANGED <<found, now, todo>>
            /\ \E cut \in CutLines(Head(todo)) : lines' = Append(lines, cut)
  <2>1. todo = SubSeq(TheReport, Len(lines) + 1, Len(TheReport)) /\ todo # <<>>
    BY <1>10 DEF Writes
  <2>2. TheReport' = TheReport /\ TheHeader' = TheHeader
    BY <1>1, <1>10, ReportStays
  <2>3. Len(lines) + 1 <= Len(TheReport) /\ Head(todo) = TheReport[Len(lines) + 1]
    <3>1. Len(lines) <= Len(TheReport)
      BY DEF Writes
    <3> QED BY <1>3, <2>1, <3>1, Rest
  <2> PICK cut \in CutLines(Head(todo)) : lines' = Append(lines, cut)
    BY <1>10
  <2>4. /\ Proper(lines') /\ Len(lines') = Len(lines) + 1
        /\ lines'[Len(lines) + 1] = cut /\ \A i \in 1..Len(lines) : lines'[i] = lines[i]
    BY <1>3, ProperAppend
  <2>5. \A i \in 1..Len(lines') :
          lines'[i] = TheReport'[i] \/ (i = Len(lines') /\ lines'[i] \in CutLines(TheReport'[i]))
    <3>1. \A i \in 1..Len(lines) : lines[i] = TheReport[i]
      BY <1>10 DEF Writes
    <3>2. \A i \in 1..(Len(lines) + 1) : i = Len(lines) + 1 \/ i \in 1..Len(lines)
      BY <1>3
    <3> QED BY <2>2, <2>3, <2>4, <3>1, <3>2
  <2> QED BY <1>3, <1>10, <2>2, <2>3, <2>4, <2>5 DEF Writes, Grows, Ended
<1>11. CASE Tick \/ (\E p \in Files : Modify(p)) \/ OpenReport \/ ReadHeader \/ ReadGroup \/ Over \/ UNCHANGED vars
  BY <1>4, <1>11 DEF Tick, Modify, OpenReport, ReadHeader, ReadGroup, Over, vars, groupVars
<1>12. CASE Refuse
  BY <1>5, <1>12 DEF Refuse
<1>13. CASE Stop
  BY <1>5, <1>10, <1>13 DEF Stop
<1> QED BY <1>6, <1>7, <1>8, <1>9, <1>11, <1>12, <1>13 DEF Next, Pipeline

-----------------------------------------------------------------------------
(* The header and the configuration of the second process.                 *)

\* What the second process knows once it has read the header.
Informed ==
  /\ lines # <<>> /\ Format \in {"default", "json"}
  /\ Format = "default" => FormatOf(lines) # "json" /\ header = TextHeader(TheHeader) /\ Len(lines) >= 7
  /\ Format = "json" => /\ FormatOf(lines) = "json" /\ header = ReadJsonHeader(TheHeader)
                        /\ Ended /\ Len(lines) = Len(TheReport)
                        /\ \A i \in 1..Len(lines) : lines[i] = TheReport[i]
  /\ header.command # Failed
  /\ try_parse_from(header.command) # Failed /\ config = Merged(header)

\* The lines there are, while there are any.
LEMMA LinesAre ==
  ASSUME Typed, Writes, lines # <<>>
  PROVE  Partly(lines, TheReport) /\ Len(lines) >= 1 /\ Len(lines) \in Nat
<1>1. Proper(lines) /\ Len(lines) \in Nat
  BY ProperIs DEF Writes
<1>2. Len(lines) # 0
  <2> DEFINE S == ToSet(lines)
  <2>1. lines \in Seq(S)
    BY <1>1 DEF Proper
  <2> HIDE DEF S
  <2> QED BY <2>1
<1> QED BY <1>1, <1>2 DEF Writes, Partly

\* What the second process has read stays true: the header is in the lines it was read from.
LEMMA InformedKept ==
  ASSUME Typed, Writes, [Next]_vars, Informed, UNCHANGED <<header, config>>
  PROVE  Informed'
<1>1. Grows /\ Writes' /\ Typed'
  BY WritesKept, TypedKept
<1>2. UNCHANGED scenario
  BY DEF Next, Tick, Modify, Pipeline, Refuse, Group, BeginReport, WriteLine, Complete, OpenReport, ReadHeader,
         ReadGroup, Stop, Over, vars
<1>3. Format' = Format /\ Own' = Own
  BY <1>2, ScenarioStays
<1>4. lines # <<>> /\ TheReport' = TheReport /\ TheHeader' = TheHeader
  BY <1>1 DEF Grows, Informed
<1>5. Len(lines) >= 1 /\ Len(lines') >= Len(lines) /\ Len(lines) \in Nat /\ lines' # <<>> /\ Len(lines') \in Nat
  <2>1. Len(lines) >= 1 /\ Len(lines) \in Nat
    BY <1>4, LinesAre
  <2>2. Len(lines') >= Len(lines) /\ Proper(lines')
    BY <1>1 DEF Grows, Writes
  <2>3. Len(lines') \in Nat
    BY <2>2, ProperIs
  <2>4. Len(<<>>) = 0
    OBVIOUS
  <2> QED BY <2>1, <2>2, <2>3, <2>4
<1>6. lines'[1] = lines[1]
  <2>1. 1 \in 1..Len(lines)
    BY <1>5
  <2> QED BY <1>1, <2>1 DEF Grows
<1>7. FormatOf(lines') = FormatOf(lines)
  BY <1>6 DEF FormatOf
<1>8. Merged(header)' = Merged(header)
  BY <1>3 DEF Merged, Previous
<1>9. Ended => lines' = lines /\ Ended'
  BY <1>1 DEF Grows, Ended
<1> QED BY <1>3, <1>4, <1>5, <1>7, <1>8, <1>9 DEF Informed

\* Reading the header leads to a failure or to what the first process wrote.
LEMMA HeaderStep ==
  ASSUME Typed, Writes, ReadHeader, lines # <<>>
  PROVE  \/ reader' = "failed" /\ config' = Nothing
         \/ reader' = "groups" /\ Informed' /\ next' = (IF Format = "json" THEN 8 ELSE 7)
<1> DEFINE json == FormatOf(lines) = "json"
           h == IF json THEN JsonHeader(lines) ELSE read_header(lines)
           failed == h = Failed \/ (h # Failed /\ Previous(h) = Failed)
<1>1. /\ json => Ended
      /\ header' = h /\ config' = (IF failed THEN Nothing ELSE Merged(h))
      /\ next' = (IF json THEN Len(HeaderKinds) + 1 ELSE Len(HeaderKinds))
      /\ reader' = (IF failed THEN "failed" ELSE "groups")
      /\ UNCHANGED <<scenario, groupVars>>
  BY DEF ReadHeader, Goto
<1>2. UNCHANGED <<found, now, lines, stage>>
  BY <1>1 DEF groupVars
<1>3. Format' = Format /\ TheReport' = TheReport /\ TheHeader' = TheHeader /\ Own' = Own
  BY <1>1, <1>2, ScenarioStays, ReportStays
<1>4. Partly(lines, Written(Format, TheHeader, found)) /\ Len(lines) >= 1 /\ Format \in Formats
      /\ found \in GroupsOf(Files) /\ TheHeader.command \in Seq(Texts) /\ TheHeader.command = Words
  <2>1. Partly(lines, TheReport) /\ Len(lines) >= 1
    BY LinesAre
  <2>2. Format \in Formats /\ Words \in Seq(Texts)
    BY ScenarioIs DEF Typed
  <2> QED BY <2>1, <2>2 DEF TheReport, Typed, TheHeader
<1> HIDE DEF h
<1>f. failed <=> h = Failed \/ (h # Failed /\ Previous(h) = Failed)
  OBVIOUS
<1> HIDE DEF failed
<1>5. CASE failed
  BY <1>1, <1>5
<1>6. CASE ~failed
  <2>1. h # Failed /\ try_parse_from(h.command) # Failed
    BY <1>6, <1>f DEF Previous
  <2>2. CASE json
    <3>1. JsonHeader(lines) # Failed
      BY <2>1, <2>2 DEF h
    <3>2. /\ Format = "json" /\ Len(lines) = Len(TheReport)
          /\ \A i \in 1..Len(lines) : lines[i] = TheReport[i]
          /\ h = ReadJsonHeader(TheHeader)
      BY <1>4, <2>2, <3>1, JsonHeaderRead DEF TheReport, h
    <3>3. h.command # Failed
      <4>1. h.command = Words
        BY <1>4, <3>2 DEF ReadJsonHeader
      <4>2. Words \in Seq(Texts)
        BY <1>4
      <4>3. Failed \notin Seq(Texts)
        BY TextsAssumption
      <4> QED BY <4>1, <4>2, <4>3
    <3>4. config' = Merged(header)'
      <4>1. header' = h /\ config' = Merged(h) /\ Own' = Own
        BY <1>1, <1>3, <1>6
      <4> QED BY <4>1 DEF Merged, Previous
    <3>5. Informed'
      <4>1. header' = h /\ Ended' /\ lines' = lines /\ lines # <<>> /\ Format' = Format
            /\ TheReport' = TheReport /\ TheHeader' = TheHeader
        BY <1>1, <1>2, <1>3, <2>2 DEF Ended
      <4> QED BY <2>1, <2>2, <3>2, <3>3, <3>4, <4>1 DEF Informed
    <3>6. next' = 8
      <4>1. Len(HeaderKinds) = 7
        BY DEF HeaderKinds
      <4> QED BY <1>1, <2>2, <4>1
    <3>7. reader' = "groups"
      BY <1>1, <1>6
    <3> QED BY <3>2, <3>5, <3>6, <3>7
  <2>3. CASE ~json
    <3>1. read_header(lines) # Failed
      BY <2>1, <2>3 DEF h
    <3>2. /\ Format = "default" /\ Len(lines) >= 7 /\ split(TrimmedEnd(join(TheHeader.command))) # Failed
          /\ h = TextHeader(TheHeader)
      BY <1>4, <2>3, <3>1, TextHeaderRead DEF h
    <3>3. h.command # Failed
      BY <3>2 DEF TextHeader
    <3>4. config' = Merged(header)'
      <4>1. header' = h /\ config' = Merged(h) /\ Own' = Own
        BY <1>1, <1>3, <1>6
      <4> QED BY <4>1 DEF Merged, Previous
    <3>5. Informed'
      <4>1. header' = h /\ lines' = lines /\ lines # <<>> /\ Format' = Format
            /\ TheReport' = TheReport /\ TheHeader' = TheHeader
        BY <1>1, <1>2, <1>3
      <4> QED BY <2>1, <2>3, <3>2, <3>3, <3>4, <4>1 DEF Informed
    <3>6. next' = 7
      <4>1. Len(HeaderKinds) = 7
        BY DEF HeaderKinds
      <4> QED BY <1>1, <2>3, <4>1
    <3>7. reader' = "groups"
      BY <1>1, <1>6
    <3> QED BY <3>2, <3>5, <3>6, <3>7
  <2> QED BY <2>2, <2>3
<1> QED BY <1>5, <1>6

-----------------------------------------------------------------------------
(* One group read.                                                         *)

\* The group g is read from the lines of the group G, which come after the first n.
IsReadFrom(g, G, ls, n, reads(_)) ==
  /\ g = [len |-> g.len, files |-> g.files] /\ g.len = G.len /\ Proper(g.files) /\ Len(g.files) = Len(G.files) /\ Len(G.files) \in Nat
  /\ n + 1 + Len(G.files) <= Len(ls)
  /\ \A j \in 1..Len(G.files) : g.files[j] = reads(ls[n + 1 + j])

\* The lines after the first n.
LEMMA LeftIs ==
  ASSUME NEW ls, Proper(ls), NEW n \in Nat, n <= Len(ls)
  PROVE  LET left == SubSeq(ls, n + 1, Len(ls))
         IN /\ Proper(left) /\ Len(left) = Len(ls) - n /\ Len(left) \in Nat
            /\ \A m \in 1..Len(left) : left[m] = ls[n + m]
            /\ left = <<>> <=> Len(ls) = n
<1> DEFINE S == ToSet(ls)
           left == SubSeq(ls, n + 1, Len(ls))
<1>1. ls \in Seq(S) /\ Len(ls) \in Nat
  BY ProperIs DEF Proper
<1> HIDE DEF S
<1>2. left \in Seq(S) /\ Len(left) = Len(ls) - n /\ \A i \in 1..(Len(ls) - n) : left[i] = ls[n + i]
  BY <1>1
<1>3. Proper(left) /\ Len(left) \in Nat
  BY <1>2, ProperIs
<1> HIDE DEF left
<1>4. left = <<>> <=> Len(left) = 0
  BY <1>2
<1> QED BY <1>1, <1>2, <1>3, <1>4 DEF left

\* Where a group of the report is.
LEMMA PlaceIs ==
  ASSUME NEW F, NEW groups \in GroupsOf(F), NEW W, NEW base, NEW last, NEW end,
         InReport(groups, W, base, last, end), NEW k \in 0..Len(groups)
  PROVE  /\ end[k] \in Nat /\ Len(groups) \in Nat /\ (k = Len(groups) => end[k] = last)
         /\ k # Len(groups) =>
              LET G == groups[k + 1]
              IN /\ k + 1 \in 0..Len(groups) /\ G \in [len : Nat, files : Seq(F)]
                 /\ Len(G.files) \in Nat /\ end[k + 1] = end[k] + 1 + Len(G.files) /\ end[k + 1] <= last
                 /\ W[end[k] + 1] = GroupLine(G)
                 /\ \A j \in 1..Len(G.files) : W[end[k] + 1 + j] = PathLine(G.files[j])
<1> DEFINE X == [len : Nat, files : Seq(F)]
           n == Len(groups)
<1>1. groups \in Seq(X)
  BY DEF GroupsOf
<1>2. ASSUME NEW G \in X PROVE Len(G.files) \in Nat
  OBVIOUS
<1> HIDE DEF X
<1>3. n \in Nat /\ \A i \in 1..n : groups[i] \in X
  BY <1>1
<1>4. /\ end \in [0..n -> Nat] /\ end[n] = last
      /\ \A i \in 1..n :
           /\ end[i] = end[i - 1] + 1 + Len(groups[i].files) /\ end[i] <= last
           /\ W[end[i - 1] + 1] = GroupLine(groups[i])
           /\ \A j \in 1..Len(groups[i].files) : W[end[i - 1] + 1 + j] = PathLine(groups[i].files[j])
  BY DEF InReport
<1>5. ASSUME k # n
      PROVE  LET G == groups[k + 1]
             IN /\ k + 1 \in 0..n /\ G \in X
                /\ Len(G.files) \in Nat /\ end[k + 1] = end[k] + 1 + Len(G.files) /\ end[k + 1] <= last
                /\ W[end[k] + 1] = GroupLine(G)
                /\ \A j \in 1..Len(G.files) : W[end[k] + 1 + j] = PathLine(G.files[j])
  <2>1. k + 1 \in 1..n /\ (k + 1) - 1 = k
    BY <1>3, <1>5
  <2>2. /\ end[k + 1] = end[(k + 1) - 1] + 1 + Len(groups[k + 1].files) /\ end[k + 1] <= last
        /\ W[end[(k + 1) - 1] + 1] = GroupLine(groups[k + 1])
        /\ \A j \in 1..Len(groups[k + 1].files) :
             W[end[(k + 1) - 1] + 1 + j] = PathLine(groups[k + 1].files[j])
    BY <1>4, <2>1
  <2>3. groups[k + 1] \in X /\ Len(groups[k + 1].files) \in Nat
    BY <1>2, <1>3, <2>1
  <2> QED BY <2>1, <2>2, <2>3
<1> QED BY <1>3, <1>4, <1>5 DEF X

\* The lesser of two numbers.
LEMMA LesserIs ==
  ASSUME NEW a \in Int, NEW b \in Int
  PROVE  Min({a, b}) \in {a, b} /\ Min({a, b}) <= a /\ Min({a, b}) <= b
<1>1. IsFiniteSet({a, b})
  <2>1. IsFiniteSet({a}) /\ IsFiniteSet({b})
    BY FS_Singleton
  <2>2. {a, b} = {a} \cup {b}
    OBVIOUS
  <2> QED BY <2>1, <2>2, FS_Union
<1>2. {a, b} \subseteq Int /\ {a, b} # {} /\ a \in {a, b} /\ b \in {a, b}
  OBVIOUS
<1> DEFINE S == {a, b}
<1> HIDE DEF S
<1>3. Min(S) \in S /\ \A x \in S : Min(S) <= x
  BY <1>1, <1>2, Extremes DEF S
<1> QED BY <1>2, <1>3 DEF S

\* TextReportReader: what comes next is the next group of the report, with as many paths.
LEMMA TextGroupRead ==
  ASSUME NEW F, NEW groups \in GroupsOf(F), NEW W, Proper(W), NEW base, NEW end,
         InReport(groups, W, base, Len(W), end),
         NEW ls, Partly(ls, W), NEW k \in 0..Len(groups), end[k] <= Len(ls),
         NEW g, g = next_group(SubSeq(ls, end[k] + 1, Len(ls))), g # Failed, g # NoGroup
  PROVE  /\ k # Len(groups) /\ IsReadFrom(g, groups[k + 1], ls, end[k], path_in)
         /\ \A j \in 1..Len(g.files) : g.files[j] # Failed
<1> DEFINE n == end[k]
           left == SubSeq(ls, n + 1, Len(ls))
<1>1. n \in Nat /\ Proper(ls) /\ Len(ls) \in Nat /\ Len(W) \in Nat /\ Len(ls) <= Len(W)
  BY PlaceIs, ProperIs DEF Partly
<1>2. /\ Len(left) = Len(ls) - n /\ Len(left) \in Nat
      /\ \A m \in 1..Len(left) : left[m] = ls[n + m]
      /\ left = <<>> <=> Len(ls) = n
  BY <1>1, LeftIs
<1> HIDE DEF left, n
<1>3. left # <<>> /\ left[1].kind = "group"
  BY DEF next_group, left, n
<1>4. Len(left) >= 1 /\ left[1] = ls[n + 1] /\ n + 1 \in 1..Len(ls)
  BY <1>1, <1>2, <1>3
<1>5. ls[n + 1] = W[n + 1]
  <2>1. ls[n + 1] = W[n + 1] \/ ls[n + 1] \in CutLines(W[n + 1])
    BY <1>4 DEF Partly
  <2> QED BY <1>3, <1>4, <2>1, CutKind
<1>6. k # Len(groups)
  <2>1. k = Len(groups) => n = Len(W)
    BY PlaceIs DEF n
  <2> QED BY <1>1, <1>4, <2>1
<1> DEFINE G == groups[k + 1]
           c == Len(G.files)
<1>7. c \in Nat /\ W[n + 1] = GroupLine(G)
  BY <1>6, PlaceIs DEF n
<1> HIDE DEF G
<1>8. left[1].field.count = c /\ left[1].field.len = G.len
  BY <1>4, <1>5, <1>7 DEF GroupLine
<1> HIDE DEF c
<1> DEFINE l == Len(left) - 1
           m == Min({c, l})
           paths == [i \in 1..m |-> path_in(left[i + 1])]
<1>l. l \in Int /\ c \in Int
  BY <1>2, <1>7
<1>m. m \in {c, l} /\ m <= c /\ m <= l
  <2> HIDE DEF l
  <2> QED BY <1>l, LesserIs
<1>9. Len(paths) >= c /\ Failed \notin ToSet(paths) /\ g = [len |-> G.len, files |-> paths]
  <2>1. g = (IF Len(paths) < c \/ Failed \in ToSet(paths) THEN Failed
             ELSE [len |-> G.len, files |-> paths])
    BY <1>3, <1>8 DEF next_group, left, n
  <2>2. m \in Nat
    BY <1>2, <1>4, <1>7, <1>m
  <2> HIDE DEF m
  <2>3. Len(paths) = m
    BY <2>2
  <2> HIDE DEF paths
  <2> QED BY <1>7, <2>1, <2>2, <2>3
<1>10. m = c /\ c <= Len(left) - 1
  <2>2. m \in {c, Len(left) - 1} /\ m <= c /\ m <= Len(left) - 1
    BY <1>m
  <2>3. m \in Nat
    BY <1>2, <1>4, <1>7, <2>2
  <2> HIDE DEF m
  <2>4. Len(paths) = m
    BY <2>3
  <2> HIDE DEF paths
  <2> QED BY <1>2, <1>7, <1>9, <2>2, <2>3, <2>4
<1> HIDE DEF m
<1>11. /\ Proper(paths) /\ Len(paths) = c /\ \A j \in 1..c : paths[j] # Failed
       /\ \A j \in 1..c : paths[j] = path_in(left[j + 1])
  <2>1. paths = [i \in 1..c |-> paths[i]] /\ \A j \in 1..c : paths[j] = path_in(left[j + 1])
    BY <1>10
  <2> HIDE DEF paths
  <2>2. Proper(paths) /\ Len(paths) = c
    BY <1>7, <2>1, ProperIs
  <2>3. \A j \in 1..c : paths[j] \in ToSet(paths)
    BY <2>2, ProperIs
  <2> QED BY <1>9, <2>1, <2>2, <2>3
<1> HIDE DEF paths
<1>12. \A j \in 1..c : left[j + 1] = ls[n + 1 + j]
  <2> SUFFICES ASSUME NEW j \in 1..c PROVE left[j + 1] = ls[n + 1 + j]
    OBVIOUS
  <2>1. j + 1 \in 1..Len(left) /\ n + (j + 1) = n + 1 + j
    BY <1>1, <1>2, <1>7, <1>10
  <2> QED BY <1>2, <2>1
<1>13. n + 1 + c <= Len(ls)
  BY <1>1, <1>2, <1>7, <1>10
<1>14. IsReadFrom(g, G, ls, n, path_in)
  BY <1>7, <1>9, <1>11, <1>12, <1>13 DEF IsReadFrom, c
<1> QED BY <1>6, <1>9, <1>11, <1>14 DEF G, n

\* A path of a json report.
JsonPath(line) == from_escaped_string(line.field)

\* JsonReportReader: the same for a report that is complete.
LEMMA JsonGroupRead ==
  ASSUME NEW F, NEW groups \in GroupsOf(F), NEW W, Proper(W), W[Len(W)].kind = "close", Len(W) >= 1,
         NEW base, NEW end, InReport(groups, W, base, Len(W) - 1, end),
         NEW ls, Proper(ls), Len(ls) = Len(W), \A i \in 1..Len(ls) : ls[i] = W[i],
         NEW k \in 0..Len(groups),
         NEW g, g = JsonGroup(SubSeq(ls, end[k] + 1, Len(ls))), g # NoGroup
  PROVE  k # Len(groups) /\ IsReadFrom(g, groups[k + 1], ls, end[k], JsonPath)
<1>a. end[k] \in Nat /\ (k = Len(groups) => end[k] = Len(W) - 1)
  BY PlaceIs
<1>b. ASSUME k # Len(groups)
      PROVE  LET G == groups[k + 1]
             IN /\ Len(G.files) \in Nat /\ end[k + 1] = end[k] + 1 + Len(G.files) /\ end[k + 1] <= Len(W) - 1
                /\ W[end[k] + 1] = GroupLine(G)
  BY <1>b, PlaceIs
<1>c. Len(W) \in Nat
  BY ProperIs
<1> DEFINE n == end[k]
           left == SubSeq(ls, n + 1, Len(ls))
<1>1. n \in Nat /\ Len(W) \in Nat /\ (k = Len(groups) => n = Len(W) - 1)
      /\ (k # Len(groups) => LET G == groups[k + 1] IN
            /\ Len(G.files) \in Nat /\ n + 1 + Len(G.files) <= Len(W) - 1
            /\ W[n + 1] = GroupLine(G))
  BY <1>a, <1>b, <1>c DEF n
<1> HIDE DEF n
<1>2. n + 1 \in 1..Len(W) /\ n <= Len(W)
  <2>1. CASE k = Len(groups)
    BY <1>1, <2>1
  <2>2. CASE k # Len(groups)
    <3> DEFINE c == Len(groups[k + 1].files)
    <3>1. c \in Nat /\ n + 1 + c <= Len(W) - 1
      BY <1>1, <2>2
    <3> HIDE DEF c
    <3> QED BY <1>1, <3>1
  <2> QED BY <2>1, <2>2
<1>3. /\ Len(left) = Len(ls) - n /\ Len(left) \in Nat
      /\ \A m \in 1..Len(left) : left[m] = ls[n + m]
  <2>1. n <= Len(ls)
    BY <1>2
  <2> QED BY <1>1, <2>1, LeftIs
<1> HIDE DEF left
<1>4. left[1] = W[n + 1]
  <2>1. 1 \in 1..Len(left)
    BY <1>1, <1>2, <1>3
  <2> QED BY <1>2, <1>3, <2>1
<1>5. left[1].kind # "close"
  BY DEF JsonGroup, left, n
<1>6. k # Len(groups)
  <2>1. Len(W) - 1 + 1 = Len(W)
    BY <1>1
  <2> QED BY <1>1, <1>4, <1>5, <2>1
<1> DEFINE G == groups[k + 1]
           c == Len(G.files)
<1>7. c \in Nat /\ n + 1 + c <= Len(W) - 1 /\ left[1] = GroupLine(G)
  BY <1>1, <1>4, <1>6
<1> HIDE DEF G
<1>8. left[1].field.count = c /\ left[1].field.len = G.len
  BY <1>7 DEF GroupLine
<1> HIDE DEF c
<1> DEFINE files == [i \in 1..c |-> from_escaped_string(left[i + 1].field)]
<1>9. g = [len |-> G.len, files |-> files]
  BY <1>5, <1>8 DEF JsonGroup, left, n
<1>10. Proper(files) /\ Len(files) = c /\ \A j \in 1..c : files[j] = JsonPath(left[j + 1])
  <2>1. files = [i \in 1..c |-> files[i]] /\ \A j \in 1..c : files[j] = JsonPath(left[j + 1])
    BY DEF JsonPath
  <2> HIDE DEF files
  <2> QED BY <1>7, <2>1, ProperIs
<1> HIDE DEF files
<1>11. \A j \in 1..c : left[j + 1] = ls[n + 1 + j]
  <2> SUFFICES ASSUME NEW j \in 1..c PROVE left[j + 1] = ls[n + 1 + j]
    OBVIOUS
  <2>1. j + 1 \in 1..Len(left) /\ n + (j + 1) = n + 1 + j
    BY <1>1, <1>3, <1>7
  <2> QED BY <1>3, <2>1
<1>12. n + 1 + c <= Len(ls)
  BY <1>1, <1>7
<1>13. IsReadFrom(g, G, ls, n, JsonPath)
  BY <1>7, <1>9, <1>10, <1>11, <1>12 DEF IsReadFrom, c
<1> QED BY <1>6, <1>13 DEF G, n

-----------------------------------------------------------------------------
(* What was read.                                                          *)

\* The lines before the first group, and those to the end of the last one.
Base == IF Format = "json" THEN 8 ELSE 7
LastLine == IF Format = "json" THEN Len(TheReport) - 1 ELSE Len(TheReport)

\* The path a line of the report is read as.
Reads(line) == IF Format = "json" THEN JsonPath(line) ELSE path_in(line)

\* The path p was read from the lines of the path q, or what is left of it.
PathRead(p, q) == p = Reads(PathLine(q))
CutRead(p, q) == Format = "default" /\ \E cut \in CutLines(PathLine(q)) : p = path_in(cut)

\* The last line read is the last one there will ever be.
CutOff(i, j) == stage = "failed" /\ next = Len(lines) /\ i = Len(read) /\ j = Len(found[i].files)

\* A group that was read is the one that was found, but for a path that was cut off.
GroupRead(i) ==
  /\ read[i] = [len |-> read[i].len, files |-> read[i].files]
  /\ read[i].len = found[i].len /\ Proper(read[i].files) /\ Len(read[i].files) = Len(found[i].files)
  /\ Format = "default" => \A j \in 1..Len(found[i].files) : read[i].files[j] # Failed
  /\ \A j \in 1..Len(found[i].files) :
       \/ PathRead(read[i].files[j], found[i].files[j])
       \/ CutOff(i, j) /\ CutRead(read[i].files[j], found[i].files[j])

\* The header was read.
Active == reader = "groups" \/ read # <<>>

\* As many groups were consumed as were read.
Positioned ==
  /\ next <= Len(lines)
  /\ \E end : /\ InReport(found, TheReport, Base, LastLine, end)
              /\ Len(read) \in 0..Len(found) /\ next = end[Len(read)]

\* Groups are read in the order they were written, and one decision is taken for each.
Reading ==
  /\ reader \in {"open", "header", "groups", "done", "failed"}
  /\ Proper(read) /\ Proper(decided) /\ Len(decided) = Len(read)
  /\ reader \in {"open", "header"} => config = Nothing /\ read = <<>>
  /\ reader = "header" => lines # <<>>
  /\ (config # Nothing \/ Active) => Informed
  /\ Active => Positioned
  /\ \A i \in 1..Len(read) : GroupRead(i)

\* Where the groups are in the report.
LEMMA PlacesThere ==
  ASSUME Typed, Format \in {"default", "json"}
  PROVE  /\ \E end : InReport(found, TheReport, Base, LastLine, end)
         /\ Format = "json" => TheReport[Len(TheReport)].kind = "close" /\ Len(TheReport) >= 1
         /\ Base \in Nat /\ LastLine \in Nat /\ Base <= LastLine
<1>1. Format \in Formats /\ found \in GroupsOf(Files)
  BY ScenarioIs DEF Typed
<1>2. CASE Format = "default"
  <2>1. HasReport(TheReport, TheHeader, found, "default", 0, Len(TheReport))
    BY <1>1, <1>2, WrittenIs DEF TheReport
  <2> QED BY <1>2, <2>1 DEF HasReport, Base, LastLine
<1>3. CASE Format = "json"
  <2>1. HasReport(TheReport, TheHeader, found, "json", 1, Len(TheReport) - 1)
        /\ TheReport[Len(TheReport)].kind = "close"
    BY <1>1, <1>3, WrittenIs DEF TheReport
  <2>2. Len(TheReport) \in Nat
    BY ReportTyped
  <2> QED BY <1>3, <2>1, <2>2 DEF HasReport, Base, LastLine
<1> QED BY <1>2, <1>3

\* What does not touch the second process leaves what it read as it was.
LEMMA ReadingStays ==
  ASSUME Typed, Writes, Reading, [Next]_vars, UNCHANGED dedupeVars
  PROVE  Reading'
<1>1. Grows /\ Writes'
  BY WritesKept
<1>2. UNCHANGED <<reader, header, config, next, read, decided>> /\ Active' = Active
  BY DEF dedupeVars, Active
<1>3. UNCHANGED scenario
  BY DEF Next, Tick, Modify, Pipeline, Refuse, Group, BeginReport, WriteLine, Complete, OpenReport, ReadHeader,
         ReadGroup, Stop, Over, vars
<1>4. Format' = Format
  BY <1>3, ScenarioStays
<1>5. lines # <<>> => lines' # <<>>
  BY <1>1, LinesAre, ProperIs DEF Grows, Writes
<1>6. Len(lines) \in Nat /\ Len(lines') \in Nat /\ Len(lines') >= Len(lines)
  BY <1>1, ProperIs DEF Grows, Writes
<1>7. ASSUME Informed
      PROVE  /\ Informed' /\ UNCHANGED <<found, now>> /\ TheReport' = TheReport
             /\ Base' = Base /\ LastLine' = LastLine
             /\ (stage = "failed" => UNCHANGED <<stage, lines>>)
  <2>1. Informed'
    BY <1>2, <1>7, InformedKept
  <2>2. UNCHANGED <<found, now>> /\ TheReport' = TheReport
    BY <1>1, <1>7 DEF Grows, Informed
  <2>3. Base' = Base /\ LastLine' = LastLine
    BY <1>4, <2>2 DEF Base, LastLine
  <2>4. stage = "failed" => UNCHANGED <<stage, lines>>
    BY <1>1 DEF Grows, Ended
  <2> QED BY <2>1, <2>2, <2>3, <2>4
<1>8. ASSUME Active PROVE Positioned'
  <2>1. Informed /\ Positioned
    BY <1>8 DEF Reading
  <2>2. next \in Nat
    <3>1. PICK end : /\ InReport(found, TheReport, Base, LastLine, end)
                     /\ Len(read) \in 0..Len(found) /\ next = end[Len(read)]
      BY <2>1 DEF Positioned
    <3>2. found \in GroupsOf(Files)
      BY DEF Typed
    <3> QED BY <3>1, <3>2, PlaceIs
  <2> QED BY <1>2, <1>6, <1>7, <2>1, <2>2 DEF Positioned
<1>9. ASSUME NEW i \in 1..Len(read) PROVE GroupRead(i)'
  <2>1. read # <<>>
    BY <1>9
  <2>2. Informed /\ GroupRead(i)
    BY <1>9, <2>1 DEF Reading, Active
  <2>3. UNCHANGED <<found, read, next>> /\ (stage = "failed" => UNCHANGED <<stage, lines>>)
    BY <1>2, <1>7, <2>2
  <2> QED BY <1>4, <2>2, <2>3 DEF GroupRead, PathRead, CutRead, CutOff, Reads
<1> QED BY <1>2, <1>5, <1>7, <1>8, <1>9 DEF Reading

\* Opening the report keeps this.
LEMMA ReadingOpened ==
  ASSUME Typed, Writes, Reading, OpenReport
  PROVE  Reading'
<1>1. /\ reader = "open" /\ reader' \in {"failed", "header"} /\ (reader' = "header" => lines # <<>>)
      /\ UNCHANGED <<scenario, clock, changed, groupVars, header, config, next, read, decided>>
  BY DEF OpenReport, Goto
<1>2. read = <<>> /\ config = Nothing /\ lines' = lines /\ Len(read) = 0
  BY <1>1 DEF Reading, groupVars
<1> QED BY <1>1, <1>2 DEF Reading, Active

\* So does reading its header.
LEMMA ReadingHeaded ==
  ASSUME Typed, Writes, Reading, ReadHeader
  PROVE  Reading'
<1>1. /\ reader = "header" /\ UNCHANGED <<scenario, clock, changed, groupVars, read, decided>>
      /\ UNCHANGED <<found, now, lines, stage>>
  BY DEF ReadHeader, groupVars
<1>2. lines # <<>> /\ read = <<>> /\ Len(read) = 0 /\ read' = read
  BY <1>1 DEF Reading
<1>3. \/ reader' = "failed" /\ config' = Nothing
      \/ reader' = "groups" /\ Informed' /\ next' = Base
  <2>1. \/ reader' = "failed" /\ config' = Nothing
        \/ reader' = "groups" /\ Informed' /\ next' = (IF Format = "json" THEN 8 ELSE 7)
    BY <1>2, HeaderStep
  <2> QED BY <2>1 DEF Base
<1>4. CASE reader' = "failed" /\ config' = Nothing
  BY <1>1, <1>2, <1>4 DEF Reading, Active
<1>5. CASE reader' = "groups" /\ Informed' /\ next' = Base
  <2>1. TheReport' = TheReport /\ Format' = Format
    BY <1>1, ReportStays, ScenarioStays
  <2>2. Base' = Base /\ LastLine' = LastLine
    BY <2>1 DEF Base, LastLine
  <2>3. Format \in {"default", "json"} /\ (Format = "default" => Len(lines) >= 7)
        /\ (Format = "json" => Len(lines) = Len(TheReport))
    BY <1>1, <1>5, <2>1 DEF Informed
  <2>4. PICK end : InReport(found, TheReport, Base, LastLine, end)
    BY <2>3, PlacesThere
  <2>5. Len(found) \in Nat /\ end[0] = Base
    <3>1. found \in GroupsOf(Files)
      BY DEF Typed
    <3>2. Len(found) \in Nat
      <4> DEFINE X == [len : Nat, files : Seq(Files)]
      <4>1. found \in Seq(X)
        BY <3>1 DEF GroupsOf
      <4> HIDE DEF X
      <4> QED BY <4>1
    <3> QED BY <2>4, <3>2 DEF InReport
  <2>6. Base <= Len(lines)
    <3>1. CASE Format = "default"
      BY <2>3, <3>1 DEF Base
    <3>2. CASE Format = "json"
      <4>1. Base <= LastLine /\ LastLine = Len(TheReport) - 1 /\ Len(TheReport) \in Nat /\ Base = 8
        BY <2>3, <3>2, PlacesThere, ReportTyped DEF LastLine, Base
      <4>2. Len(lines) = Len(TheReport)
        BY <2>3, <3>2
      <4> QED BY <4>1, <4>2
    <3> QED BY <2>3, <3>1, <3>2
  <2>7. Positioned'
    <3>1. /\ next' <= Len(lines') /\ InReport(found', TheReport', Base', LastLine', end)
          /\ Len(read') \in 0..Len(found') /\ next' = end[Len(read')]
      BY <1>1, <1>2, <1>5, <2>1, <2>2, <2>4, <2>5, <2>6
    <3> QED BY <3>1 DEF Positioned
  <2> QED BY <1>1, <1>2, <1>5, <2>7 DEF Reading
<1> QED BY <1>3, <1>4, <1>5

\* So does reading its next group.
LEMMA ReadingContinued ==
  ASSUME Typed, Writes, Reading, ReadGroup
  PROVE  Reading'
<1> DEFINE g == IF FormatOf(lines) = "json" THEN JsonGroup(LinesLeft) ELSE next_group(LinesLeft)
           k == Len(read)
<1>1. /\ reader = "groups" /\ UNCHANGED <<scenario, clock, changed, groupVars, header, config>>
      /\ UNCHANGED <<found, now, lines, stage>>
  BY DEF ReadGroup, groupVars
<1>2. \/ g \in {Failed, NoGroup} /\ reader' \in {"failed", "done"} /\ UNCHANGED <<next, read, decided>>
      \/ /\ g \notin {Failed, NoGroup} /\ next' = next + 1 + Len(g.files) /\ UNCHANGED reader
         /\ read' = Append(read, g) /\ decided' = Append(decided, Decision(g))
  BY DEF ReadGroup, Goto
<1> HIDE DEF g
<1>3. Informed /\ Positioned
  BY <1>1 DEF Reading, Active
<1>4. TheReport' = TheReport /\ TheHeader' = TheHeader /\ Format' = Format /\ Own' = Own
  BY <1>1, ReportStays, ScenarioStays
<1>5. Base' = Base /\ LastLine' = LastLine
  BY <1>4 DEF Base, LastLine
<1>6. Informed'
  <2>1. UNCHANGED <<header, config, lines, stage>>
    BY <1>1
  <2> QED BY <1>3, <1>4, <2>1 DEF Informed, Ended, Merged, Previous
<1>7. /\ Proper(read) /\ Len(read) \in Nat /\ Proper(decided) /\ Len(decided) = Len(read)
      /\ \A i \in 1..Len(read) : GroupRead(i)
  BY ProperIs DEF Reading
<1>8. CASE reader' \in {"failed", "done"} /\ UNCHANGED <<next, read, decided>>
  <2>1. \A i \in 1..Len(read) : GroupRead(i)'
    BY <1>1, <1>4, <1>7, <1>8 DEF GroupRead, PathRead, CutRead, CutOff, Reads
  <2>2. Positioned'
    BY <1>1, <1>3, <1>4, <1>5, <1>8 DEF Positioned
  <2> QED BY <1>1, <1>6, <1>7, <1>8, <2>1, <2>2 DEF Reading
<1>9. CASE /\ g \notin {Failed, NoGroup} /\ next' = next + 1 + Len(g.files) /\ UNCHANGED reader
           /\ read' = Append(read, g) /\ decided' = Append(decided, Decision(g))
  <2>1. PICK end : /\ InReport(found, TheReport, Base, LastLine, end)
                   /\ k \in 0..Len(found) /\ next = end[k]
    BY <1>3 DEF Positioned
  <2>2. /\ found \in GroupsOf(Files) /\ Proper(TheReport) /\ Len(TheReport) \in Nat
        /\ Partly(lines, TheReport) /\ Proper(lines) /\ Len(lines) \in Nat /\ next <= Len(lines)
        /\ Format \in {"default", "json"}
    BY <1>3, LinesAre, ReportTyped, ProperIs DEF Typed, Informed, Writes, Positioned
  <2> DEFINE G == found[k + 1]
             reads(line) == IF Format = "json" THEN JsonPath(line) ELSE path_in(line)
  <2>3. /\ k # Len(found) /\ IsReadFrom(g, G, lines, next, Reads)
        /\ (Format = "default" => \A j \in 1..Len(g.files) : g.files[j] # Failed)
    <3>1. CASE Format = "default"
      <4>1. g = next_group(SubSeq(lines, end[k] + 1, Len(lines))) /\ g # Failed /\ g # NoGroup
        BY <1>3, <1>9, <2>1, <3>1 DEF Informed, LinesLeft, g
      <4>2. InReport(found, TheReport, Base, Len(TheReport), end)
        BY <2>1, <3>1 DEF LastLine
      <4>3. /\ k # Len(found) /\ IsReadFrom(g, G, lines, next, path_in)
            /\ \A j \in 1..Len(g.files) : g.files[j] # Failed
        BY <2>1, <2>2, <4>1, <4>2, TextGroupRead
      <4> QED BY <3>1, <4>3 DEF IsReadFrom, Reads
    <3>2. CASE Format = "json"
      <4>1. g = JsonGroup(SubSeq(lines, end[k] + 1, Len(lines))) /\ g # NoGroup
        BY <1>3, <1>9, <2>1, <3>2 DEF Informed, LinesLeft, g
      <4>2. InReport(found, TheReport, Base, Len(TheReport) - 1, end)
        BY <2>1, <3>2 DEF LastLine
      <4>3. /\ TheReport[Len(TheReport)].kind = "close" /\ Len(TheReport) >= 1
            /\ Len(lines) = Len(TheReport) /\ \A i \in 1..Len(lines) : lines[i] = TheReport[i]
        BY <1>3, <3>2, PlacesThere DEF Informed
      <4>4. k # Len(found) /\ IsReadFrom(g, G, lines, next, JsonPath)
        BY <2>1, <2>2, <4>1, <4>2, <4>3, JsonGroupRead
      <4> QED BY <3>2, <4>4 DEF IsReadFrom, Reads
    <3> QED BY <2>2, <3>1, <3>2
  <2>4. /\ next \in Nat /\ k + 1 \in 0..Len(found) /\ end[k + 1] = next + 1 + Len(G.files)
        /\ Len(G.files) \in Nat /\ G \in [len : Nat, files : Seq(Files)]
        /\ \A j \in 1..Len(G.files) : TheReport[next + 1 + j] = PathLine(G.files[j])
    BY <2>1, <2>2, <2>3, PlaceIs
  <2>5. /\ g = [len |-> g.len, files |-> g.files] /\ g.len = G.len /\ Proper(g.files) /\ Len(g.files) = Len(G.files)
        /\ next' = end[k + 1] /\ next' <= Len(lines)
        /\ \A j \in 1..Len(G.files) : g.files[j] = Reads(lines[next + 1 + j])
    BY <1>9, <2>3, <2>4 DEF IsReadFrom
  <2>a. /\ \A j \in 1..Len(G.files) : next + 1 + j \in 1..Len(lines)
        /\ \A j \in 1..Len(G.files) : next + 1 + j = Len(lines) => j = Len(G.files) /\ next' = Len(lines)
        /\ next # Len(lines)
    <3>1. ASSUME NEW n \in Nat, NEW c \in Nat, NEW l \in Nat, n + 1 + c <= l
          PROVE  /\ \A j \in 1..c : n + 1 + j \in 1..l /\ (n + 1 + j = l => j = c /\ n + 1 + c = l)
                 /\ n # l
      BY <3>1
    <3>2. next + 1 + Len(G.files) <= Len(lines) /\ next' = next + 1 + Len(G.files)
      BY <2>4, <2>5
    <3> HIDE DEF G
    <3> QED BY <2>2, <2>4, <3>1, <3>2
  <2>6. /\ Proper(read') /\ Len(read') = k + 1 /\ read'[k + 1] = g /\ \A i \in 1..k : read'[i] = read[i]
        /\ Proper(decided') /\ Len(decided') = k + 1
    BY <1>7, <1>9, ProperAppend
  <2>7. Positioned'
    <3>1. /\ next' <= Len(lines') /\ InReport(found', TheReport', Base', LastLine', end)
          /\ Len(read') \in 0..Len(found') /\ next' = end[Len(read')]
      BY <1>1, <1>4, <1>5, <2>1, <2>4, <2>5, <2>6
    <3> QED BY <3>1 DEF Positioned
  <2>8. ASSUME NEW j \in 1..Len(G.files)
        PROVE  \/ PathRead(g.files[j], G.files[j])
               \/ /\ stage = "failed" /\ next' = Len(lines) /\ j = Len(G.files)
                  /\ CutRead(g.files[j], G.files[j])
    <3>1. next + 1 + j \in 1..Len(lines)
      BY <2>a
    <3>2. g.files[j] = Reads(lines[next + 1 + j]) /\ TheReport[next + 1 + j] = PathLine(G.files[j])
      BY <2>4, <2>5
    <3>3. CASE lines[next + 1 + j] = TheReport[next + 1 + j]
      BY <3>2, <3>3 DEF PathRead
    <3>4. CASE lines[next + 1 + j] # TheReport[next + 1 + j]
      <4>1. /\ stage = "failed" /\ next + 1 + j = Len(lines)
            /\ lines[next + 1 + j] \in CutLines(PathLine(G.files[j]))
        BY <3>1, <3>2, <3>4 DEF Writes
      <4>2. Format = "default"
        BY <1>3, <2>2, <3>1, <3>4 DEF Informed
      <4>3. j = Len(G.files) /\ next' = Len(lines)
        BY <2>a, <4>1
      <4>4. g.files[j] = path_in(lines[next + 1 + j])
        BY <3>2, <4>2 DEF Reads
      <4> QED BY <4>1, <4>2, <4>3, <4>4 DEF CutRead
    <3> QED BY <3>3, <3>4
  <2>9. ASSUME NEW i \in 1..Len(read') PROVE GroupRead(i)'
    <3>1. CASE i = k + 1
      <4>1. read'[i] = g /\ found'[i] = G /\ i = Len(read')
        BY <1>1, <2>6, <3>1
      <4>2. ASSUME NEW line PROVE Reads(line)' = Reads(line)
        BY <1>4 DEF Reads
      <4>4. ASSUME NEW j \in 1..Len(G.files), stage = "failed", next' = Len(lines), j = Len(G.files)
            PROVE  CutOff(i, j)'
        BY <1>1, <4>1, <4>4 DEF CutOff
      <4>5. ASSUME NEW j \in 1..Len(G.files)
            PROVE  \/ PathRead(read[i].files[j], found[i].files[j])'
                   \/ CutOff(i, j)' /\ CutRead(read[i].files[j], found[i].files[j])'
        <5>1. CASE PathRead(g.files[j], G.files[j])
          BY <4>1, <4>2, <5>1 DEF PathRead
        <5>2. CASE /\ stage = "failed" /\ next' = Len(lines) /\ j = Len(G.files)
                   /\ CutRead(g.files[j], G.files[j])
          BY <1>4, <4>1, <4>4, <5>2 DEF CutRead
        <5> QED BY <2>8, <5>1, <5>2
      <4>3. Format' = "default" => \A j \in 1..Len(found'[i].files) : read'[i].files[j] # Failed
        BY <1>4, <2>3, <2>5, <4>1
      <4> QED BY <2>5, <4>1, <4>3, <4>5 DEF GroupRead
    <3>2. CASE i # k + 1
      <4>1. i \in 1..k /\ read'[i] = read[i] /\ GroupRead(i)
        BY <1>7, <2>6, <3>2
      <4>2. found' = found /\ ~\E j : CutOff(i, j)
        <5>1. found' = found
          BY <1>1
        <5>2. ASSUME CutOff(i, i) \/ next = Len(lines) PROVE FALSE
          <6>1. next = Len(lines)
            BY <5>2 DEF CutOff
          <6> QED BY <2>a, <6>1
        <5> QED BY <5>1, <5>2 DEF CutOff
      <4> QED BY <1>4, <4>1, <4>2 DEF GroupRead, PathRead, CutRead, Reads
    <3> QED BY <3>1, <3>2
  <2> QED BY <1>1, <1>6, <1>9, <2>6, <2>7, <2>9 DEF Reading, Active
<1> QED BY <1>2, <1>8, <1>9

\* The lines of both processes and what the second read of them, in any step.
LEMMA ReadingKept ==
  ASSUME Typed, Writes, Reading, [Next]_vars
  PROVE  Reading'
<1>1. CASE OpenReport
  BY <1>1, ReadingOpened
<1>2. CASE ReadHeader
  BY <1>2, ReadingHeaded
<1>3. CASE ReadGroup
  BY <1>3, ReadingContinued
<1>4. CASE UNCHANGED dedupeVars
  BY <1>4, ReadingStays
<1>5. OpenReport \/ ReadHeader \/ ReadGroup \/ UNCHANGED dedupeVars
  BY DEF Next, Tick, Modify, Pipeline, Refuse, Group, BeginReport, WriteLine, Complete, Stop, Over, vars, dedupeVars
<1> QED BY <1>1, <1>2, <1>3, <1>4, <1>5

-----------------------------------------------------------------------------
(* What is decided.                                                        *)

\* The files of a group that dedupe takes into account: those that have its length, if it looks at that.
Candidates(g) == Filtered(g.files, {p \in Files : config.noCheckSize \/ Length[p] = g.len})

\* Their subgroups, by root and by link.
SubGroupsOf(g) ==
  LET files == Candidates(g)
  IN FileSubGroups(files, Len(config.roots),
                   [p \in ToSet(files) |-> RootOf(config.roots, p)],
                   [p \in ToSet(files) |-> IF config.matchLinks THEN p ELSE Inode[p]])

\* Decisions are those that would be taken now.
Deciding == \A i \in 1..Len(decided) : decided[i] = Decision(read[i])

\* What dedupe decides for a group: nothing is dropped if a file is missing or was modified later.
LEMMA DecisionIs ==
  ASSUME NEW g
  PROVE  Decision(g) = IF (\A p \in ToSet(g.files) : Exists(p)) /\ Unmodified(Candidates(g))
                         THEN KeepAtLeast(Max({1, config.rfOver}), <<>>, SubGroupsOf(g))
                         ELSE [keep |-> g.files, drop |-> <<>>]
BY DEF Decision, Candidates, SubGroupsOf

\* Candidates are files of the group.
LEMMA CandidatesAre ==
  ASSUME NEW g, Proper(g.files)
  PROVE  /\ Candidates(g) \in Seq(Files) /\ Proper(Candidates(g))
         /\ ToSet(Candidates(g)) \subseteq ToSet(g.files) \cap Files
<1> DEFINE S == ToSet(g.files)
           T == {p \in Files : config.noCheckSize \/ Length[p] = g.len}
<1>1. g.files \in Seq(S) /\ T \subseteq Files
  BY DEF Proper
<1> HIDE DEF T, S
<1>2. Filtered(g.files, T) \in Seq(S \cap T) /\ ToSet(Filtered(g.files, T)) = ToSet(g.files) \cap T
  BY <1>1, FilteredIs
<1>3. Filtered(g.files, T) \in Seq(Files)
  <2>1. S \cap T \subseteq Files
    BY <1>1
  <2> DEFINE X == S \cap T
             f == Filtered(g.files, T)
  <2>2. f \in Seq(X) /\ X \subseteq Files
    BY <1>2, <2>1
  <2> HIDE DEF X, f
  <2>3. f \in Seq(Files)
    BY <2>2
  <2> QED BY <2>3 DEF f
<1>4. Candidates(g) = Filtered(g.files, T)
  BY DEF Candidates, T
<1> QED BY <1>1, <1>2, <1>3, <1>4, ProperIs DEF S

\* A decision that was taken is the one that would be taken now, until a file changes.
LEMMA DecidingKept ==
  ASSUME Typed, Writes, Reading, Deciding, [Next]_vars
  PROVE  Deciding'
<1>1. UNCHANGED scenario
  BY DEF Next, Tick, Modify, Pipeline, Refuse, Group, BeginReport, WriteLine, Complete, OpenReport, ReadHeader,
         ReadGroup, Stop, Over, vars
<1>2. Files' = Files /\ Length' = Length /\ Inode' = Inode
  BY <1>1, ScenarioStays
<1>3. /\ Len(decided) = Len(read) /\ Len(read) \in Nat /\ Proper(read) /\ Proper(decided)
      /\ \A i \in 1..Len(read) : Proper(read[i].files)
  BY ProperIs DEF Reading, GroupRead
<1>4. ASSUME NEW g, UNCHANGED config
      PROVE  /\ Candidates(g)' = Candidates(g) /\ SubGroupsOf(g)' = SubGroupsOf(g)
             /\ \A p : Exists(p)' = Exists(p)
  <2>1. Candidates(g)' = Candidates(g)
    BY <1>2, <1>4 DEF Candidates
  <2>2. SubGroupsOf(g)' = SubGroupsOf(g)
    BY <1>2, <1>4, <2>1 DEF SubGroupsOf
  <2> QED BY <1>2, <2>1, <2>2 DEF Exists, IsDir
<1>5. ASSUME NEW g, UNCHANGED config, \A p \in ToSet(Candidates(g)) : changed'[p] = changed[p]
      PROVE  Decision(g)' = Decision(g)
  <2>1. Candidates(g)' = Candidates(g) /\ SubGroupsOf(g)' = SubGroupsOf(g)
        /\ \A p : Exists(p)' = Exists(p)
    BY <1>4, <1>5
  <2>2. Unmodified(Candidates(g))' <=> Unmodified(Candidates(g))
    BY <1>5, <2>1 DEF Unmodified
  <2>3. (\A p \in ToSet(g.files) : Exists(p))' <=> (\A p \in ToSet(g.files) : Exists(p))
    BY <2>1
  <2> DEFINE decision == IF (\A p \in ToSet(g.files) : Exists(p)) /\ Unmodified(Candidates(g))
                           THEN KeepAtLeast(Max({1, config.rfOver}), <<>>, SubGroupsOf(g))
                           ELSE [keep |-> g.files, drop |-> <<>>]
  <2>4. Decision(g) = decision
    BY DecisionIs
  <2>5. Decision(g)' = decision'
    BY DEF Decision, Candidates, SubGroupsOf
  <2>6. decision' = decision
    BY <1>5, <2>1, <2>2, <2>3
  <2> QED BY <2>4, <2>5, <2>6
<1>6. CASE ReadGroup
  <2> DEFINE g == IF FormatOf(lines) = "json" THEN JsonGroup(LinesLeft) ELSE next_group(LinesLeft)
  <2>1. /\ UNCHANGED <<changed, config>>
        /\ \/ UNCHANGED <<read, decided>>
           \/ read' = Append(read, g) /\ decided' = Append(decided, Decision(g))
    BY <1>6 DEF ReadGroup
  <2> HIDE DEF g
  <2>2. \A h : Decision(h)' = Decision(h)
    BY <1>5, <2>1
  <2>3. CASE UNCHANGED <<read, decided>>
    BY <2>2, <2>3 DEF Deciding
  <2>4. CASE read' = Append(read, g) /\ decided' = Append(decided, Decision(g))
    <3>1. /\ Len(decided') = Len(decided) + 1
          /\ decided'[Len(decided) + 1] = Decision(g) /\ read'[Len(decided) + 1] = g
          /\ \A i \in 1..Len(decided) : decided'[i] = decided[i] /\ read'[i] = read[i]
      BY <1>3, <2>4, ProperAppend
    <3>2. \A i \in 1..Len(decided') : i = Len(decided) + 1 \/ i \in 1..Len(decided)
      BY <1>3, <3>1
    <3> QED BY <2>2, <3>1, <3>2 DEF Deciding
  <2> QED BY <2>1, <2>3, <2>4
<1>7. CASE ReadHeader
  <2>1. read = <<>> /\ decided' = decided
    BY <1>7 DEF ReadHeader, Reading
  <2>2. Len(decided') = 0
    BY <1>3, <2>1
  <2> QED BY <2>2 DEF Deciding
<1>8. CASE UNCHANGED <<changed, config, read, decided>>
  <2>1. \A h : Decision(h)' = Decision(h)
    BY <1>5, <1>8
  <2> QED BY <1>8, <2>1 DEF Deciding
<1>9. CASE \E p \in Files : Modify(p)
  <2> PICK p \in Files : Modify(p)
    BY <1>9
  <2>1. /\ \A i \in 1..Len(read) : p \notin ToSet(read[i].files)
        /\ changed' = [changed EXCEPT ![p] = clock] /\ UNCHANGED <<config, read, decided>>
    BY DEF Modify, dedupeVars
  <2>2. \A q : q # p => changed'[q] = changed[q]
    BY <2>1, <1>2 DEF Typed
  <2>3. ASSUME NEW i \in 1..Len(read) PROVE Decision(read[i])' = Decision(read[i])
    <3>1. \A q \in ToSet(Candidates(read[i])) : changed'[q] = changed[q]
      BY <1>3, <2>1, <2>2, CandidatesAre
    <3>2. PICK g : g = read[i]
      OBVIOUS
    <3>3. Decision(g)' = Decision(g)
      BY <1>5, <2>1, <3>1, <3>2
    <3>4. g = read'[i]
      BY <2>1, <3>2
    <3> QED BY <2>1, <3>2, <3>3, <3>4 DEF Decision
  <2> QED BY <1>3, <2>1, <2>3 DEF Deciding
<1> QED BY <1>6, <1>7, <1>8, <1>9
      DEF Next, Tick, Pipeline, Refuse, Group, BeginReport, WriteLine, Complete, OpenReport, Stop, Over, vars,
          groupVars, dedupeVars

\* What the second process knows.
LEMMA InformedIs ==
  ASSUME Typed, Writes, Informed
  PROVE  /\ header.timestamp \in Nat /\ header.timestamp <= now /\ config.modifiedBefore = header.timestamp
         /\ header.command \in Seq(Texts) /\ try_parse_from(header.command) \in GroupConfigs
         /\ Previous(header) = [try_parse_from(header.command) EXCEPT !.baseDir = header.baseDir]
         /\ config = Merged(header)
         /\ config.rfOver \in Nat /\ Proper(config.roots) /\ Len(config.roots) \in Nat
<1>1. Words \in Seq(Texts) /\ Own \in [rfOver : Nat \cup {NoCount}, roots : Seq(Path), matchLinks : BOOLEAN]
  BY ScenarioIs DEF Typed
<1>2. header.timestamp \in Nat /\ header.timestamp <= now /\ header.command \in Seq(Texts)
  <2>1. CASE Format = "default"
    <3>1. header.timestamp = Millis(now) /\ header.command = split(TrimmedEnd(join(Words)))
      BY <2>1 DEF Informed, TextHeader, TheHeader
    <3>2. Millis(now) \in Nat /\ Millis(now) <= now
      <4>1. ASSUME NEW t \in Nat, NEW m \in Nat \ {0} PROVE t - (t % m) \in Nat /\ t - (t % m) <= t
        BY <4>1
      <4> QED BY <4>1, TicksAssumption DEF Millis, Typed
    <3>3. split(TrimmedEnd(join(Words))) \in Seq(Texts) \cup {Failed}
      BY <1>1, JoinTyped, EndTrimmed, SplitTyped
    <3> QED BY <3>1, <3>2, <3>3 DEF Informed
  <2>2. CASE Format = "json"
    BY <1>1, <2>2 DEF Informed, ReadJsonHeader, TheHeader, Typed
  <2> QED BY <2>1, <2>2 DEF Informed
<1>3. try_parse_from(header.command) \in GroupConfigs
  BY <1>2, ParseTyped DEF Informed
<1>4. Previous(header) = [try_parse_from(header.command) EXCEPT !.baseDir = header.baseDir]
  BY DEF Previous, Informed
<1> DEFINE c == Previous(header)
<1>5. /\ config.rfOver = IF Own.rfOver = NoCount THEN rf_over(c) ELSE Own.rfOver
      /\ config.roots = IF Own.roots = <<>> /\ c.isolate THEN input_paths(c) ELSE Own.roots
      /\ config.modifiedBefore = header.timestamp
  BY DEF Informed, Merged
<1>6. Proper(c.paths) /\ rf_over(c) \in Nat
  BY <1>3, <1>4, ConfigIs
<1> HIDE DEF c
<1>7. Proper(config.roots)
  <2>1. Proper(Own.roots)
    BY <1>1, ProperIs
  <2> QED BY <1>5, <1>6, <2>1, InputPathsAre
<1>8. config.rfOver \in Nat
  BY <1>1, <1>5, <1>6
<1> QED BY <1>2, <1>3, <1>4, <1>5, <1>7, <1>8, ProperIs DEF Informed

\* The greater of two numbers.
LEMMA GreaterIs ==
  ASSUME NEW a \in Int, NEW b \in Int
  PROVE  Max({a, b}) \in {a, b} /\ Max({a, b}) >= a /\ Max({a, b}) >= b
<1>1. IsFiniteSet({a, b})
  <2>1. IsFiniteSet({a}) /\ IsFiniteSet({b})
    BY FS_Singleton
  <2>2. {a, b} = {a} \cup {b}
    OBVIOUS
  <2> QED BY <2>1, <2>2, FS_Union
<1>2. {a, b} \subseteq Int /\ {a, b} # {} /\ a \in {a, b} /\ b \in {a, b}
  OBVIOUS
<1> DEFINE S == {a, b}
<1> HIDE DEF S
<1>3. Max(S) \in S /\ \A x \in S : Max(S) >= x
  BY <1>1, <1>2, Extremes DEF S
<1> QED BY <1>2, <1>3 DEF S

\* The two parts a sequence is split into.
LEMMA CutIs ==
  ASSUME NEW S, NEW s \in Seq(S), NEW m \in Nat, m <= Len(s)
  PROVE  /\ SubSeq(s, 1, m) \in Seq(S) /\ Len(SubSeq(s, 1, m)) = m
         /\ \A i \in 1..m : SubSeq(s, 1, m)[i] = s[i]
         /\ SubSeq(s, m + 1, Len(s)) \in Seq(S)
         /\ m = Len(s) => SubSeq(s, m + 1, Len(s)) = <<>>
<1>1. SubSeq(s, 1, m) \in Seq(S) /\ Len(SubSeq(s, 1, m)) = m
  OBVIOUS
<1>2. \A i \in 1..m : SubSeq(s, 1, m)[i] = s[i]
  OBVIOUS
<1>3. SubSeq(s, m + 1, Len(s)) \in Seq(S)
  OBVIOUS
<1>4. m = Len(s) => SubSeq(s, m + 1, Len(s)) = <<>>
  OBVIOUS
<1> QED BY <1>1, <1>2, <1>3, <1>4

\* The first n groups are kept.
LEMMA FirstKept ==
  ASSUME NEW P, NEW gs \in Seq(NonEmpty(P)), NEW n \in Nat, n # 0
  PROVE  LET x == KeepAtLeast(n, <<>>, gs)
         IN /\ x.keep \in Seq(P) /\ x.drop \in Seq(P)
            /\ x.drop = FlattenSeq(SubSeq(gs, Min({n, Len(gs)}) + 1, Len(gs)))
            /\ x.drop # <<>> => Len(gs) > n /\ \A i \in 1..n : ToSet(gs[i]) \subseteq ToSet(x.keep)
<1> DEFINE l == Len(gs)
           m == Min({l, Max({0, n - Len(<<>>)})})
           N == NonEmpty(P)
           kept == SubSeq(gs, 1, m)
           rest == SubSeq(gs, m + 1, l)
           x == KeepAtLeast(n, <<>>, gs)
<1>1. l \in Nat /\ N \subseteq Seq(P) /\ gs \in Seq(N)
  BY DEF NonEmpty
<1>2. m = Min({n, l}) /\ m \in Nat /\ m <= l /\ m <= n /\ (m = n \/ m = l)
  <2>1. n - Len(<<>>) = n
    OBVIOUS
  <2>2. Max({0, n}) = n
    <3>1. n \in Int /\ 0 \in Int
      OBVIOUS
    <3>2. Max({0, n}) \in {0, n} /\ Max({0, n}) >= n
      BY <3>1, GreaterIs
    <3> QED BY <3>2
  <2>3. {l, n} = {n, l}
    OBVIOUS
  <2>4. m = Min({n, l})
    BY <2>1, <2>2, <2>3
  <2>5. n \in Int /\ l \in Int
    BY <1>1
  <2> HIDE DEF l
  <2>6. Min({n, l}) \in {n, l} /\ Min({n, l}) <= n /\ Min({n, l}) <= l
    BY <2>5, LesserIs
  <2> HIDE DEF m
  <2> QED BY <1>1, <2>4, <2>6
<1>3. x = [keep |-> FlattenSeq(<<>> \o kept), drop |-> FlattenSeq(rest)]
  BY DEF KeepAtLeast
<1> HIDE DEF m, N, x
<1>4. kept \in Seq(N) /\ Len(kept) = m /\ (\A i \in 1..m : kept[i] = gs[i]) /\ rest \in Seq(N)
  BY <1>1, <1>2, CutIs, ZenonT(30)
<1>5. <<>> \o kept = kept
  BY <1>4
<1> HIDE DEF kept
<1>6. kept \in Seq(Seq(P)) /\ rest \in Seq(Seq(P))
  <2> DEFINE Y == Seq(P)
  <2>1. N \subseteq Y
    BY <1>1
  <2> HIDE DEF Y, rest
  <2>2. kept \in Seq(Y) /\ rest \in Seq(Y)
    BY <1>4, <2>1
  <2> QED BY <2>2 DEF Y
<1>7. /\ FlattenSeq(kept) \in Seq(P) /\ FlattenSeq(rest) \in Seq(P)
      /\ ToSet(FlattenSeq(kept)) = UNION {ToSet(kept[i]) : i \in 1..Len(kept)}
  BY <1>6, FlattenIs
<1>8. ASSUME FlattenSeq(rest) # <<>> PROVE m = n /\ l > n
  <2>1. ASSUME m = l PROVE FALSE
    <3>1. rest = <<>>
      BY <1>1, <1>2, <2>1, CutIs
    <3>2. <<>> \in Seq(Seq(P)) /\ Len(<<>>) = 0
      OBVIOUS
    <3>3. FlattenSeq(<<>>) \in Seq(P) /\ ToSet(FlattenSeq(<<>>)) = UNION {ToSet(<<>>[i]) : i \in 1..0}
      BY <3>2, FlattenIs
    <3> DEFINE f == FlattenSeq(<<>>)
    <3>6. 1..0 = {}
      OBVIOUS
    <3>7. f \in Seq(P) /\ f # <<>>
      BY <1>8, <3>1, <3>3
    <3>4. f \in Seq(P) /\ f # <<>> /\ ToSet(f) = {}
      BY <3>3, <3>6, <3>7
    <3> HIDE DEF f
    <3>5. Len(f) >= 1
      BY <3>4
    <3>8. f[1] \in ToSet(f)
      BY <3>4, <3>5, ToSetIs
    <3> QED BY <3>4, <3>8
  <2> QED BY <1>1, <1>2, <2>1
<1>9. \A i \in 1..m : ToSet(gs[i]) \subseteq ToSet(FlattenSeq(kept))
  BY <1>4, <1>7
<1> HIDE DEF rest
<1>10. x.keep = FlattenSeq(kept) /\ x.drop = FlattenSeq(rest)
  BY <1>3, <1>5
<1> QED BY <1>2, <1>7, <1>8, <1>9, <1>10 DEF x, rest

\* What a decision to drop something is.
LEMMA DroppedIs ==
  ASSUME Typed, Writes, Reading, Deciding, NEW i \in 1..Len(decided), decided[i].drop # <<>>
  PROVE  LET files == Candidates(read[i])
             gs == SubGroupsOf(read[i])
             n == Max({1, config.rfOver})
         IN /\ Informed /\ n \in Nat /\ n # 0 /\ n >= config.rfOver
            /\ files \in Seq(Files) /\ ToSet(files) \subseteq ToSet(read[i].files)
            /\ \A p \in ToSet(files) : RootOf(config.roots, p) \in 0..Len(config.roots)
            /\ gs \in Seq(NonEmpty(ToSet(files))) /\ Apart(gs) /\ Len(gs) > n
            /\ \A p \in ToSet(files) : changed[p] <= header.timestamp
            /\ decided[i].keep \in Seq(ToSet(files)) /\ decided[i].drop \in Seq(ToSet(files))
            /\ \A k \in 1..n : ToSet(gs[k]) \subseteq ToSet(decided[i].keep)
<1> DEFINE g == read[i]
           files == Candidates(g)
           gs == SubGroupsOf(g)
           n == Max({1, config.rfOver})
           M == ToSet(files)
<1>1. i \in 1..Len(read) /\ read # <<>> /\ Proper(g.files) /\ Informed /\ decided[i] = Decision(g)
  <2>1. Len(decided) = Len(read) /\ i \in 1..Len(read)
    BY DEF Reading
  <2>2. read # <<>>
    BY <2>1
  <2> QED BY <2>1, <2>2 DEF Reading, GroupRead, Active, Deciding
<1>2. /\ config.rfOver \in Nat /\ Proper(config.roots) /\ Len(config.roots) \in Nat
      /\ config.modifiedBefore = header.timestamp
  BY <1>1, InformedIs
<1>3. files \in Seq(Files) /\ Proper(files) /\ M \subseteq ToSet(g.files)
  BY <1>1, CandidatesAre
<1>4. n \in Nat /\ n # 0 /\ n >= config.rfOver
  <2>1. 1 \in Int /\ config.rfOver \in Int
    BY <1>2
  <2>2. n \in {1, config.rfOver} /\ n >= 1 /\ n >= config.rfOver
    BY <2>1, GreaterIs
  <2> QED BY <1>2, <2>2
<1>5. Decision(g) = IF (\A p \in ToSet(g.files) : Exists(p)) /\ Unmodified(files)
                      THEN KeepAtLeast(n, <<>>, gs) ELSE [keep |-> g.files, drop |-> <<>>]
  BY DecisionIs
<1>6. \A p \in M : RootOf(config.roots, p) \in 0..Len(config.roots)
  BY <1>2, RootOfIs
<1>7. gs \in Seq(NonEmpty(M)) /\ Apart(gs)
  <2> DEFINE rootOf == [p \in M |-> RootOf(config.roots, p)]
             key == [p \in M |-> IF config.matchLinks THEN p ELSE Inode[p]]
  <2>1. \A p \in M : rootOf[p] \in 0..Len(config.roots)
    BY <1>6
  <2>2. gs = FileSubGroups(files, Len(config.roots), rootOf, key)
    BY DEF SubGroupsOf
  <2>3. files \in Seq(M)
    BY <1>3 DEF Proper
  <2> HIDE DEF rootOf, key, gs, M, files
  <2>4. gs \in Seq(NonEmpty(ToSet(files))) /\ Apart(gs)
    BY <1>2, <2>1, <2>2, <2>3, SubGroupsAre DEF M
  <2> QED BY <2>4 DEF M
<1> HIDE DEF files, gs, n, M, g
<1>8. Unmodified(files) /\ decided[i] = KeepAtLeast(n, <<>>, gs)
  <2>1. CASE ~((\A p \in ToSet(g.files) : Exists(p)) /\ Unmodified(files))
    <3>1. decided[i] = [keep |-> g.files, drop |-> <<>>]
      BY <1>1, <1>5, <2>1
    <3> QED BY <3>1
  <2> QED BY <1>1, <1>5, <2>1
<1>9. /\ decided[i].keep \in Seq(M) /\ decided[i].drop \in Seq(M)
      /\ Len(gs) > n /\ \A k \in 1..n : ToSet(gs[k]) \subseteq ToSet(decided[i].keep)
  BY <1>4, <1>7, <1>8, FirstKept
<1>10. \A p \in M : changed[p] <= header.timestamp
  BY <1>2, <1>8 DEF Unmodified, M
<1> QED BY <1>1, <1>3, <1>4, <1>6, <1>7, <1>9, <1>10 DEF files, gs, n, M, g

\* The inductive invariant.
IInv == Typed /\ Writes /\ Reading /\ Deciding

\* It holds at the start.
LEMMA Initially ==
  ASSUME Init
  PROVE  IInv
<1>1. InScenario
  BY DEF Init, InScenario
<1>2. Files = DOMAIN Inode
  BY DEF Files
<1>3. Proper(<<>>) /\ Len(<<>>) = 0
  <2>1. <<>> \in Seq({})
    OBVIOUS
  <2> QED BY <2>1, ProperIs
<1>4. Typed
  <2>1. <<>> \in GroupsOf(Files)
    BY DEF GroupsOf
  <2> QED BY <1>1, <2>1 DEF Init, Typed
<1>5. Writes
  <2>1. Len(TheReport) \in Nat
    BY <1>4, ReportTyped
  <2> QED BY <1>3, <2>1 DEF Init, Writes
<1>6. Reading /\ Deciding
  BY <1>3 DEF Init, Reading, Deciding, Active, Nothing
<1> QED BY <1>4, <1>5, <1>6 DEF IInv

\* Every step keeps it.
LEMMA Kept ==
  ASSUME IInv, [Next]_vars
  PROVE  IInv'
BY TypedKept, WritesKept, ReadingKept, DecidingKept DEF IInv

\* Of `fclones group` and the command that reads its report: for any files, command lines and
\* formats, wherever the first one stops and whatever changes meanwhile, the second one reads the
\* first groups that were found, in their order, with the clock of the first process.
THEOREM Invariant == Spec => []IInv
<1>1. Init => IInv
  BY Initially
<1>2. IInv /\ [Next]_vars => IInv'
  BY Kept
<1> QED BY <1>1, <1>2, PTL DEF Spec

\* dedupe.rs, was_modified: nothing is dropped of a group if one of the files kept or dropped was
\* modified after the time the first process took before it wrote its report.
THEOREM ModifiedSkipped == Spec => []ModifiedLaterSkipped
<1>1. IInv => ModifiedLaterSkipped
  <2> SUFFICES ASSUME IInv, NEW i \in 1..Len(decided), decided[i].drop # <<>>,
                      NEW p \in ToSet(decided[i].keep \o decided[i].drop)
               PROVE  changed[p] <= now
    BY DEF ModifiedLaterSkipped
  <2> DEFINE M == ToSet(Candidates(read[i]))
             a == decided[i].keep
             b == decided[i].drop
  <2>1. /\ Informed /\ a \in Seq(M) /\ b \in Seq(M) /\ \A q \in M : changed[q] <= header.timestamp
        /\ M \subseteq Files
    <3>1. /\ Informed /\ a \in Seq(M) /\ b \in Seq(M) /\ \A q \in M : changed[q] <= header.timestamp
          /\ Candidates(read[i]) \in Seq(Files)
      BY DroppedIs DEF IInv
    <3> QED BY <3>1, ToSetIs
  <2> HIDE DEF M, a, b
  <2>2. ToSet(a \o b) = ToSet(a) \cup ToSet(b) /\ ToSet(a) \subseteq M /\ ToSet(b) \subseteq M
    BY <2>1, ConcatIs, ToSetIs
  <2>3. changed[p] <= header.timestamp /\ changed[p] \in Nat
    BY <2>1, <2>2 DEF IInv, Typed, a, b
  <2>4. header.timestamp \in Nat /\ header.timestamp <= now /\ now \in Nat
    BY <2>1, InformedIs DEF IInv, Typed
  <2> QED BY <2>3, <2>4
<1> QED BY <1>1, Invariant, PTL

-----------------------------------------------------------------------------
(* Texts of paths.                                                         *)

\* The components of a path that are names.
Names(p) == {i \in 1..Len(p) : p[i] # Root}

\* The text t has the names of q, the i-th one after the first b[i] characters, a
\* separator between any two, and nothing else but separators and a dot at the end.
Spells(t, q, b) ==
  /\ t \in Texts /\ b \in [Names(q) -> Nat]
  /\ \A i \in Names(q) :
       /\ b[i] + Len(q[i]) <= Len(t) /\ \A m \in 1..Len(q[i]) : t[b[i] + m] = q[i][m]
       /\ b[i] = 0 \/ t[b[i]] = "/"
       /\ b[i] + Len(q[i]) = Len(t) \/ t[b[i] + Len(q[i]) + 1] = "/"
       /\ \A j \in Names(q) : i < j => b[i] < b[j]
  /\ 1 \in Names(q) => b[1] = 0
  /\ \A x \in 1..Len(t) :
       \/ t[x] = "/"
       \/ \E i \in Names(q) : x \in (b[i] + 1)..(b[i] + Len(q[i]))
       \/ x = Len(t) /\ x # 1 /\ t[x] = "." /\ t[x - 1] = "/"
  /\ q[1] = Root <=> t # <<>> /\ t[1] = "/"

\* Whether a path is absolute, as a number.
Rooted(q) == IF q[1] = Root THEN 1 ELSE 0

\* The number of names up to the i-th component.
LEMMA NamesAre ==
  ASSUME NEW q, IsPath(q)
  PROVE  /\ Len(q) \in Nat /\ Len(q) >= 1 /\ Names(q) = (Rooted(q) + 1)..Len(q)
         /\ Rooted(q) \in {0, 1} /\ (Rooted(q) = 1 <=> q[1] = Root)
         /\ IsFiniteSet(Names(q)) /\ Cardinality(Names(q)) = Len(q) - Rooted(q)
         /\ \A i \in Names(q) : /\ IsFiniteSet({j \in Names(q) : j <= i})
                                /\ Cardinality({j \in Names(q) : j <= i}) = i - Rooted(q)
         /\ \A i \in Names(q) : /\ q[i] \in Texts /\ Len(q[i]) \in Nat /\ Len(q[i]) >= 1
                                /\ \A m \in 1..Len(q[i]) : q[i][m] # "/"
                                /\ i # 1 => q[i] # CurDir
<1> DEFINE o == Rooted(q)
           n == Len(q)
<1>1. q \in Seq(Texts) /\ q # <<>>
  BY DEF IsPath, Path
<1>2. n \in Nat /\ n >= 1
  BY <1>1
<1>3. o \in {0, 1} /\ (o = 1 <=> q[1] = Root)
  BY DEF Rooted
<1> HIDE DEF o, n
<1>4. Names(q) = (o + 1)..n
  <2>1. \A i \in 1..n : q[i] # Root <=> i # 1 \/ o = 0
    BY <1>3 DEF IsPath, n
  <2>2. \A i : i \in (o + 1)..n <=> i \in 1..n /\ (i # 1 \/ o = 0)
    BY <1>2, <1>3
  <2> QED BY <2>1, <2>2 DEF Names, n
<1>5. IsFiniteSet(Names(q)) /\ Cardinality(Names(q)) = n - o
  <2>1. o + 1 \in Int /\ n \in Int
    BY <1>2, <1>3
  <2>2. IsFiniteSet((o + 1)..n) /\ Cardinality((o + 1)..n) = IF o + 1 > n THEN 0 ELSE n - (o + 1) + 1
    BY <2>1, FS_Interval
  <2>3. (IF o + 1 > n THEN 0 ELSE n - (o + 1) + 1) = n - o
    BY <1>2, <1>3
  <2> QED BY <1>4, <2>2, <2>3
<1>6. ASSUME NEW i \in Names(q)
      PROVE  IsFiniteSet({j \in Names(q) : j <= i}) /\ Cardinality({j \in Names(q) : j <= i}) = i - o
  <2>1. i \in (o + 1)..n
    BY <1>4
  <2>2. {j \in Names(q) : j <= i} = (o + 1)..i
    BY <1>2, <1>3, <1>4, <2>1
  <2>3. o + 1 \in Int /\ i \in Int
    BY <1>3, <2>1
  <2>4. IsFiniteSet((o + 1)..i) /\ Cardinality((o + 1)..i) = IF o + 1 > i THEN 0 ELSE i - (o + 1) + 1
    BY <2>3, FS_Interval
  <2>5. (IF o + 1 > i THEN 0 ELSE i - (o + 1) + 1) = i - o
    BY <1>3, <2>1
  <2> QED BY <2>2, <2>4, <2>5
<1>7. ASSUME NEW i \in Names(q)
      PROVE  /\ q[i] \in Texts /\ Len(q[i]) \in Nat /\ Len(q[i]) >= 1
             /\ \A m \in 1..Len(q[i]) : q[i][m] # "/"
             /\ i # 1 => q[i] # CurDir
  <2>1. i \in 1..Len(q) /\ q[i] # Root
    BY DEF Names
  <2>2. /\ q[i] # <<>> /\ (\A m \in 1..Len(q[i]) : q[i][m] # "/")
        /\ i # 1 => q[i] # CurDir
    BY <2>1 DEF IsPath
  <2>3. q[i] \in Texts
    BY <1>1, <2>1
  <2>4. Len(q[i]) \in Nat /\ Len(q[i]) >= 1
    BY <2>2, <2>3 DEF Texts
  <2> QED BY <2>2, <2>3, <2>4
<1> QED BY <1>2, <1>3, <1>4, <1>5, <1>6, <1>7 DEF o, n

\* Where a name starts, and where it ends.
LEMMA LastIs ==
  ASSUME NEW S, NEW s \in Seq(S), Len(s) # 0
  PROVE  SubSeq(s, Len(s), Len(s)) = <<s[Len(s)]>>
<1> DEFINE n == Len(s)
           u == SubSeq(s, n, n)
<1>1. n \in Nat /\ n >= 1
  OBVIOUS
<1>2. u \in Seq(S) /\ Len(u) = 1
  BY <1>1
<1>3. u[1] = s[n]
  BY <1>1
<1> HIDE DEF u, n
<1>4. u = <<s[n]>>
  BY <1>2, <1>3
<1> QED BY <1>4 DEF u, n

\* A name is what is between two separators.
LEMMA NameIs ==
  ASSUME NEW q, IsPath(q), NEW t, NEW b, Spells(t, q, b), NEW i \in Names(q)
  PROVE  LET x == b[i] + 1
             rest == {j \in x..(Len(t) + 1) : j > Len(t) \/ t[j] = "/"}
         IN /\ x \in 1..Len(t) /\ t[x] # "/" /\ (x = 1 \/ t[x - 1] = "/")
            /\ (x = 1 => i = 1)
            /\ Min(rest) - 1 = b[i] + Len(q[i]) /\ SubSeq(t, x, Min(rest) - 1) = q[i]
<1> DEFINE c == b[i]
           x == c + 1
           l == Len(q[i])
           rest == {j \in x..(Len(t) + 1) : j > Len(t) \/ t[j] = "/"}
<1>1. /\ q[i] \in Texts /\ l \in Nat /\ l >= 1 /\ \A m \in 1..l : q[i][m] # "/"
  BY NamesAre
<1>2. /\ t \in Seq(Characters) /\ Len(t) \in Nat /\ c \in Nat
      /\ c + l <= Len(t) /\ (\A m \in 1..l : t[c + m] = q[i][m])
      /\ (c = 0 \/ t[c] = "/")
      /\ (c + l = Len(t) \/ t[c + l + 1] = "/")
  BY DEF Spells, Texts
<1> HIDE DEF l, c
<1>a. \A m \in 1..l : x + m - 1 = c + m
  BY <1>1, <1>2
<1>b. c + l - x + 1 = l /\ x \in 1..Len(t) /\ x - 1 = c /\ (x = 1 <=> c = 0) /\ c + l \in Nat /\ c + l <= Len(t) /\ c \in Nat /\ l \in Nat
  BY <1>1, <1>2
<1>3. x \in 1..Len(t) /\ t[x] # "/" /\ (x = 1 \/ t[x - 1] = "/")
  <2>1. 1 \in 1..l
    BY <1>1
  <2> QED BY <1>1, <1>2, <1>b, <2>1
<1>4. \A j \in x..(c + l) : t[j] # "/" /\ j <= Len(t)
  <2> SUFFICES ASSUME NEW j \in x..(c + l) PROVE t[j] # "/" /\ j <= Len(t)
    OBVIOUS
  <2>1. j - c \in 1..l /\ c + (j - c) = j /\ j <= Len(t)
    BY <1>1, <1>2
  <2> QED BY <1>1, <1>2, <2>1
<1>5. Min(rest) = c + l + 1
  <2>1. c + l + 1 \in rest
    BY <1>1, <1>2
  <2>2. \A j \in rest : c + l + 1 <= j
    BY <1>1, <1>2, <1>4
  <2>3. rest \subseteq Int /\ IsFiniteSet(rest)
    <3>1. x \in Int /\ Len(t) + 1 \in Int
      BY <1>2
    <3>2. IsFiniteSet(x..(Len(t) + 1))
      BY <3>1, FS_Interval
    <3>3. rest \subseteq x..(Len(t) + 1)
      OBVIOUS
    <3>4. x..(Len(t) + 1) \subseteq Int
      BY <3>1
    <3> HIDE DEF rest, x
    <3> QED BY <3>2, <3>3, <3>4, FS_Subset
  <2> HIDE DEF rest
  <2>4. Min(rest) \in rest /\ \A j \in rest : Min(rest) <= j
    BY <2>1, <2>3, Extremes
  <2>5. Min(rest) \in Int /\ c + l + 1 \in Int /\ Min(rest) <= c + l + 1 /\ c + l + 1 <= Min(rest)
    BY <1>b, <2>1, <2>2, <2>3, <2>4
  <2> QED BY <2>5
<1> HIDE DEF rest
<1>6. Min(rest) - 1 = c + l
  BY <1>1, <1>2, <1>5
<1>7. SubSeq(t, x, c + l) = q[i]
  <2> DEFINE u == SubSeq(t, x, c + l)
             v == q[i]
  <2>1. u \in Seq(Characters) /\ Len(u) = l /\ \A m \in 1..l : u[m] = t[c + m]
    <3>1. ASSUME NEW e \in Nat, e <= Len(t), NEW y \in 1..Len(t), y <= e
          PROVE  /\ SubSeq(t, y, e) \in Seq(Characters) /\ Len(SubSeq(t, y, e)) = e - y + 1
                 /\ \A m \in 1..(e - y + 1) : SubSeq(t, y, e)[m] = t[y + m - 1]
      <4>1. SubSeq(t, y, e) \in Seq(Characters) /\ Len(SubSeq(t, y, e)) = e - y + 1
        BY <1>2, <3>1
      <4>2. \A m \in 1..(e - y + 1) : SubSeq(t, y, e)[m] = t[y + m - 1]
        BY <1>2, <3>1
      <4> QED BY <4>1, <4>2
    <3>2. x <= c + l
      BY <1>1, <1>2
    <3> DEFINE e == c + l
    <3>3. e \in Nat /\ e <= Len(t) /\ x \in 1..Len(t) /\ x <= e /\ e - x + 1 = l
      BY <1>b, <3>2
    <3> HIDE DEF x, e
    <3>4. /\ SubSeq(t, x, e) \in Seq(Characters) /\ Len(SubSeq(t, x, e)) = l
          /\ \A m \in 1..l : SubSeq(t, x, e)[m] = t[x + m - 1]
      BY <3>1, <3>3
    <3> QED BY <1>a, <3>4 DEF e
  <2>2. v \in Seq(Characters) /\ Len(v) = l
    BY <1>1 DEF Texts, l
  <2>3. \A m \in 1..l : u[m] = v[m]
    BY <1>2, <2>1
  <2> HIDE DEF u, v
  <2>4. u = v
    BY <2>1, <2>2, <2>3
  <2> QED BY <2>4 DEF u, v
<1>8. x = 1 => i = 1
  <2>1. CASE 1 \in Names(q)
    <3>1. b[1] = 0 /\ i >= 1 /\ (1 < i => b[1] < c)
      BY <2>1, NamesAre DEF Spells, Names, c
    <3>2. i \in Nat
      BY DEF Names
    <3> QED BY <1>2, <3>1, <3>2
  <2>2. CASE 1 \notin Names(q)
    <3>1. q[1] = Root
      BY <2>2, NamesAre DEF Names
    <3>2. t[1] = "/"
      BY <3>1 DEF Spells
    <3> QED BY <1>3, <3>2
  <2> QED BY <2>1, <2>2
<1> QED BY <1>3, <1>6, <1>7, <1>8 DEF rest, l, c

\* A text comes back as the path whose names it has.
LEMMA FromIs ==
  ASSUME NEW q, IsPath(q), NEW t, NEW b, Spells(t, q, b)
  PROVE  From(t) = q
<1> DEFINE starts == {i \in 1..Len(t) : t[i] # "/" /\ (i = 1 \/ t[i - 1] = "/")}
           end(i) == Min({j \in i..(Len(t) + 1) : j > Len(t) \/ t[j] = "/"}) - 1
           name == [i \in starts |-> SubSeq(t, i, end(i))]
           kept == {i \in starts : name[i] # CurDir \/ i = 1}
           upTo(i) == {j \in kept : j <= i}
           relative == [k \in 1..Cardinality(kept) |->
                          name[CHOOSE i \in kept : Cardinality(upTo(i)) = k]]
           rooted == IF t # <<>> /\ t[1] = "/" THEN <<Root>> ELSE <<>>
           N == Names(q)
           n == Len(q)
           o == Rooted(q)
           at == [i \in N |-> b[i] + 1]
<1>1. From(t) = IF rooted \o relative = <<>> THEN <<CurDir>> ELSE rooted \o relative
  BY DEF From
<1>2. /\ n \in Nat /\ n >= 1 /\ N = (o + 1)..n /\ o \in {0, 1} /\ (o = 1 <=> q[1] = Root)
      /\ IsFiniteSet(N) /\ Cardinality(N) = n - o
      /\ \A i \in N : /\ IsFiniteSet({j \in N : j <= i}) /\ Cardinality({j \in N : j <= i}) = i - o
                      /\ (i # 1 => q[i] # CurDir)
  BY NamesAre
<1> HIDE DEF o, n
<1>3. /\ t \in Seq(Characters) /\ Len(t) \in Nat /\ b \in [N -> Nat]
      /\ \A i \in N : \A j \in N : i < j => b[i] < b[j]
      /\ (q[1] = Root <=> t # <<>> /\ t[1] = "/")
  BY DEF Spells, Texts
<1>4. \A i \in N : /\ b[i] + 1 \in starts /\ name[b[i] + 1] = q[i] /\ (b[i] + 1 = 1 => i = 1)
                   /\ b[i] + 1 \in 1..Len(t)
  <2> SUFFICES ASSUME NEW i \in N
               PROVE  /\ b[i] + 1 \in starts /\ name[b[i] + 1] = q[i] /\ (b[i] + 1 = 1 => i = 1)
                      /\ b[i] + 1 \in 1..Len(t)
    OBVIOUS
  <2> DEFINE x == b[i] + 1
  <2>1. /\ x \in 1..Len(t) /\ t[x] # "/" /\ (x = 1 \/ t[x - 1] = "/")
        /\ (x = 1 => i = 1) /\ SubSeq(t, x, end(x)) = q[i]
    BY NameIs
  <2> HIDE DEF x, end
  <2>2. x \in starts
    BY <2>1
  <2>3. name[x] = SubSeq(t, x, end(x))
    BY <2>2
  <2> HIDE DEF starts, name
  <2> QED BY <2>1, <2>2, <2>3 DEF x
<1>5. kept = {at[i] : i \in N}
  <2>1. ASSUME NEW i \in N PROVE at[i] \in kept
    <3>1. at[i] \in starts /\ name[at[i]] = q[i]
      BY <1>4
    <3>2. q[i] # CurDir \/ at[i] = 1
      <4>1. i = 1 => b[i] = 0
        BY DEF Spells
      <4>2. i # 1 => q[i] # CurDir
        BY <1>2
      <4>3. at[i] = b[i] + 1
        OBVIOUS
      <4> HIDE DEF at
      <4> QED BY <4>1, <4>2, <4>3
    <3> HIDE DEF starts, name, at
    <3> QED BY <3>1, <3>2
  <2>2. ASSUME NEW x \in kept PROVE \E i \in N : x = at[i]
    <3>1. x \in 1..Len(t) /\ t[x] # "/" /\ (x = 1 \/ t[x - 1] = "/") /\ (name[x] # CurDir \/ x = 1) /\ x \in starts
      OBVIOUS
    <3>2. CASE \E i \in N : x \in (b[i] + 1)..(b[i] + Len(q[i]))
      <4> PICK i \in N : x \in (b[i] + 1)..(b[i] + Len(q[i]))
        BY <3>2
      <4> DEFINE c == b[i]
                 l == Len(q[i])
      <4>1. c \in Nat /\ l \in Nat /\ (\A m \in 1..l : q[i][m] # "/" /\ t[c + m] = q[i][m])
        <5>1. c \in Nat
          BY <1>3
        <5>2. l \in Nat /\ \A m \in 1..l : q[i][m] # "/"
          BY NamesAre
        <5>3. \A m \in 1..l : t[c + m] = q[i][m]
          BY DEF Spells
        <5> QED BY <5>1, <5>2, <5>3
      <4> HIDE DEF c, l
      <4>2. x = c + 1
        <5> SUFFICES ASSUME x # c + 1 PROVE FALSE
          OBVIOUS
        <5>1. x - 1 - c \in 1..l /\ c + (x - 1 - c) = x - 1 /\ x # 1
          BY <4>1, SMTT(30) DEF c, l
        <5>2. t[x - 1] # "/"
          BY <4>1, <5>1
        <5> QED BY <3>1, <5>1, <5>2
      <4> QED BY <4>2 DEF c
    <3>3. CASE x = Len(t) /\ x # 1 /\ t[x] = "." /\ t[x - 1] = "/"
      <4> DEFINE rest == {j \in x..(Len(t) + 1) : j > Len(t) \/ t[j] = "/"}
      <4>1. rest = {Len(t) + 1}
        <5>1. t[x] # "/"
          BY <3>1
        <5>2. \A j : j \in rest <=> j = Len(t) + 1
          BY <1>3, <3>3, <5>1
        <5> QED BY <5>2
      <4>2. Min(rest) = Len(t) + 1
        <5> HIDE DEF rest
        <5> DEFINE y == Len(t) + 1
        <5>0. y \in Int
          BY <1>3
        <5> HIDE DEF y
        <5>1. {y} \subseteq Int /\ IsFiniteSet({y}) /\ {y} # {}
          BY <5>0, FS_Singleton
        <5>2. Min(rest) \in rest
          BY <4>1, <5>1, Extremes DEF y
        <5> QED BY <4>1, <5>2
      <4>3. end(x) = Len(t)
        BY <1>3, <4>2
      <4>4. name[x] = SubSeq(t, x, Len(t))
        <5> HIDE DEF end, starts
        <5> QED BY <3>1, <4>3
      <4>5. SubSeq(t, x, Len(t)) = <<t[x]>>
        <5>1. Len(t) # 0
          BY <1>3, <3>1
        <5> QED BY <1>3, <3>3, <5>1, LastIs
      <4>6. name[x] = CurDir
        BY <3>3, <4>4, <4>5 DEF CurDir
      <4> QED BY <3>1, <3>3, <4>6
    <3>4. \/ t[x] = "/"
          \/ \E i \in N : x \in (b[i] + 1)..(b[i] + Len(q[i]))
          \/ x = Len(t) /\ x # 1 /\ t[x] = "." /\ t[x - 1] = "/"
      BY <3>1 DEF Spells
    <3> QED BY <3>1, <3>2, <3>3, <3>4
  <2> HIDE DEF kept
  <2> QED BY <2>1, <2>2
<1>6. \A i, j \in N : at[i] <= at[j] <=> i <= j
  <2>1. \A i, j \in N : i < j => b[i] < b[j]
    BY <1>3
  <2>2. \A i, j \in N : i \in Int /\ j \in Int /\ b[i] \in Int /\ b[j] \in Int
    BY <1>2, <1>3
  <2> QED BY <2>1, <2>2
<1>7. \A i, j \in N : at[i] = at[j] => i = j
  <2>1. \A i, j \in N : i \in Int /\ j \in Int /\ at[i] \in Int /\ at[j] \in Int
    BY <1>2, <1>3
  <2> HIDE DEF at
  <2> QED BY <1>6, <2>1
<1> HIDE DEF starts, end, kept, at
<1>8. \A i \in N : Cardinality(upTo(at[i])) = i - o
  <2> SUFFICES ASSUME NEW i \in N PROVE Cardinality(upTo(at[i])) = i - o
    OBVIOUS
  <2> DEFINE S == {j \in N : j <= i}
             T == upTo(at[i])
             f == [j \in S |-> at[j]]
  <2>1. f \in Bijection(S, T)
    <3>1. \A j \in S : f[j] \in T
      BY <1>5, <1>6
    <3>2. \A j, k \in S : f[j] = f[k] => j = k
      BY <1>7
    <3>3. \A x \in T : \E j \in S : f[j] = x
      BY <1>5, <1>6
    <3>4. f \in [S -> T]
      BY <3>1
    <3> HIDE DEF S, T, f
    <3> QED BY <3>2, <3>3, <3>4 DEF Bijection, Injection, Surjection, IsInjective
  <2>2. IsFiniteSet(S) /\ Cardinality(S) = i - o
    BY <1>2
  <2> HIDE DEF S, T, f
  <2>3. Cardinality(T) = Cardinality(S)
    BY <2>1, <2>2, FS_Bijection DEF ExistsBijection
  <2> QED BY <2>2, <2>3 DEF T
<1>9. Cardinality(kept) = n - o
  <2> DEFINE f == [j \in N |-> at[j]]
  <2>1. f \in Bijection(N, kept)
    <3>1. f \in [N -> kept] /\ (\A x \in kept : \E j \in N : f[j] = x)
      BY <1>5
    <3>2. \A j, k \in N : f[j] = f[k] => j = k
      BY <1>7
    <3> HIDE DEF f
    <3> QED BY <3>1, <3>2 DEF Bijection, Injection, Surjection, IsInjective
  <2> HIDE DEF f
  <2> QED BY <1>2, <2>1, FS_Bijection DEF ExistsBijection
<1>10. relative = [k \in 1..(n - o) |-> q[k + o]]
  <2> SUFFICES ASSUME NEW k \in 1..(n - o)
               PROVE  name[CHOOSE i \in kept : Cardinality(upTo(i)) = k] = q[k + o]
    BY <1>9
  <2>1. k + o \in N /\ k + o - o = k
    BY <1>2
  <2>2. at[k + o] \in kept /\ Cardinality(upTo(at[k + o])) = k
    <3> DEFINE i == k + o
    <3>1. i \in N /\ i - o = k
      <4>1. i \in N
        BY <2>1
      <4>2. k \in Int /\ o \in Int
        BY <1>2
      <4>3. k + o - o = k
        BY <4>2
      <4>4. i - o = k
        BY <4>2
      <4> HIDE DEF i
      <4> QED BY <4>1, <4>4
    <3> HIDE DEF i, upTo
    <3>2. at[i] \in kept /\ Cardinality(upTo(at[i])) = i - o
      BY <1>5, <1>8, <3>1
    <3>3. at[i] \in kept /\ Cardinality(upTo(at[i])) = k
      BY <3>1, <3>2
    <3> QED BY <3>3 DEF i
  <2>3. \A x \in kept : Cardinality(upTo(x)) = k => x = at[k + o]
    <3> SUFFICES ASSUME NEW x \in kept, Cardinality(upTo(x)) = k PROVE x = at[k + o]
      OBVIOUS
    <3>1. PICK i \in N : x = at[i]
      BY <1>5
    <3>2. i - o = k
      BY <1>8, <3>1
    <3>3. i = k + o
      BY <1>2, <3>2
    <3> QED BY <3>1, <3>3
  <2> HIDE DEF upTo
  <2>4. (CHOOSE i \in kept : Cardinality(upTo(i)) = k) = at[k + o]
    BY <2>2, <2>3
  <2>5. name[at[k + o]] = q[k + o]
    BY <1>4, <2>1 DEF at
  <2> HIDE DEF name
  <2> QED BY <2>4, <2>5
<1> HIDE DEF relative, name
<1>11. q \in Seq(Texts)
  BY DEF IsPath, Path
<1>12. rooted \o relative = q
  <2>1. CASE q[1] = Root
    <3>1. rooted = <<Root>> /\ o = 1 /\ q[1] \in Texts
      <4>1. 1 \in 1..Len(q)
        BY <1>2 DEF n
      <4> QED BY <1>2, <1>3, <1>11, <2>1, <4>1
    <3>2. relative = [k \in 1..(n - 1) |-> q[k + 1]]
      BY <1>10, <3>1
    <3>3. relative \in Seq(Texts) /\ Len(relative) = n - 1 /\ \A k \in 1..(n - 1) : relative[k] = q[k + 1]
      <4>1. \A k \in 1..(n - 1) : q[k + 1] \in Texts
        BY <1>2, <1>11 DEF n
      <4> QED BY <1>2, <3>2, <4>1
    <3>4. <<q[1]>> \in Seq(Texts) /\ Len(<<q[1]>>) = 1 /\ <<q[1]>>[1] = q[1]
      BY <3>1
    <3> DEFINE r == <<q[1]>>
               w == r \o relative
    <3>5. rooted = r
      BY <2>1, <3>1
    <3> HIDE DEF r
    <3>6. w \in Seq(Texts) /\ Joins(w, r, relative)
      BY <3>3, <3>4, ConcatPlaces DEF r
    <3>7. Len(w) = n /\ w[1] = q[1] /\ \A k \in 1..(n - 1) : w[1 + k] = q[k + 1]
      <4>1. Len(r) = 1 /\ r[1] = q[1] /\ 1 \in 1..1
        BY <3>4 DEF r
      <4>2. 1 + (n - 1) = n
        BY <1>2
      <4> QED BY <3>3, <3>6, <4>1, <4>2 DEF Joins
    <3>8. \A m \in 1..n : w[m] = q[m]
      <4> SUFFICES ASSUME NEW m \in 1..n PROVE w[m] = q[m]
        OBVIOUS
      <4>1. m = 1 \/ (m - 1 \in 1..(n - 1) /\ 1 + (m - 1) = m /\ (m - 1) + 1 = m)
        BY <1>2
      <4> HIDE DEF w
      <4> QED BY <3>7, <4>1
    <3> HIDE DEF w
    <3>9. w = q
      BY <1>2, <1>11, <3>6, <3>7, <3>8 DEF n
    <3> QED BY <3>5, <3>9 DEF w
  <2>2. CASE q[1] # Root
    <3>1. rooted = <<>> /\ o = 0
      BY <1>2, <1>3, <2>2
    <3>2. relative = [k \in 1..n |-> q[k]]
      <4>1. relative = [k \in 1..(n - 0) |-> q[k + 0]]
        BY <1>10, <3>1
      <4>2. n - 0 = n /\ \A k \in 1..n : k + 0 = k
        BY <1>2
      <4> QED BY <4>1, <4>2
    <3>3. relative = q
      BY <1>11, <3>2 DEF n
    <3>4. <<>> \o q = q
      BY <1>11
    <3> QED BY <3>1, <3>3, <3>4
  <2> QED BY <2>1, <2>2
<1>13. q # <<>>
  BY DEF IsPath
<1> HIDE DEF rooted
<1> QED BY <1>1, <1>12, <1>13

\* Where the separator before the i-th component is, and where its name ends: the
\* text t is that of p, whose i-th component ends after e[i] characters.
Gap(p, i) == IF i = 1 \/ p[i - 1] = Root THEN 0 ELSE 1
Begin(p, e, i) == e[i - 1] + Gap(p, i)

Laid(t, p, e) ==
  /\ t \in Texts /\ e \in [0..Len(p) -> Nat] /\ e[0] = 0 /\ e[Len(p)] = Len(t)
  /\ \A i \in 1..Len(p) :
       /\ e[i] = Begin(p, e, i) + Len(p[i]) /\ e[i] <= Len(t)
       /\ \A m \in 1..Len(p[i]) : t[Begin(p, e, i) + m] = p[i][m]
       /\ Gap(p, i) = 1 => t[Begin(p, e, i)] = "/"

\* The components of a path are texts; the first one may be the root.
LEMMA ComponentsAre ==
  ASSUME NEW p, IsPath(p), NEW i \in 1..Len(p)
  PROVE  /\ p[i] \in Texts /\ Len(p[i]) \in Nat /\ Len(p[i]) >= 1
         /\ (i = 1 /\ p[i] = Root => Len(p[i]) = 1 /\ p[i][1] = "/")
         /\ (p[i] = Root <=> i = 1 /\ Rooted(p) = 1) /\ Gap(p, i) \in {0, 1}
         /\ (Gap(p, i) = 0 <=> i = 1 \/ (i = 2 /\ Rooted(p) = 1))
<1>1. p \in Seq(Texts) /\ Len(p) \in Nat
  BY DEF IsPath, Path
<1>2. p[i] \in Texts
  BY <1>1
<1>3. Root \in Texts /\ Len(Root) = 1 /\ Root[1] = "/"
  BY TextsAssumption DEF Root, Texts
<1>4. p[i] = Root <=> i = 1 /\ Rooted(p) = 1
  BY DEF IsPath, Rooted
<1>5. Len(p[i]) \in Nat /\ Len(p[i]) >= 1
  <2>1. CASE p[i] = Root
    BY <1>3, <2>1
  <2>2. CASE p[i] # Root
    <3>1. p[i] # <<>>
      BY <2>2 DEF IsPath
    <3> QED BY <1>2, <3>1 DEF Texts
  <2> QED BY <2>1, <2>2
<1>6. Gap(p, i) = 0 <=> i = 1 \/ (i = 2 /\ Rooted(p) = 1)
  <2>1. CASE i = 1
    BY <2>1 DEF Gap
  <2>2. CASE i # 1
    <3>1. i - 1 \in 1..Len(p) /\ (i - 1 = 1 <=> i = 2)
      BY <1>1, <2>2
    <3>2. p[i - 1] = Root <=> i = 2 /\ Rooted(p) = 1
      BY <3>1 DEF IsPath, Rooted
    <3> QED BY <2>2, <3>2 DEF Gap
  <2> QED BY <2>1, <2>2
<1> QED BY <1>2, <1>3, <1>4, <1>5, <1>6 DEF Gap

\* The text of a path has its components one after the other.
LEMMA TextLaid ==
  ASSUME NEW p, IsPath(p)
  PROVE  \E e : Laid(TextOf(p), p, e)
<1> DEFINE n == Len(p)
           gs == [i \in 1..n |-> IF i = 1 \/ p[i - 1] = Root THEN p[i] ELSE <<"/">> \o p[i]]
<1>1. n \in Nat
  BY DEF IsPath, Path
<1>2. ASSUME NEW i \in 1..n
      PROVE  /\ gs[i] \in Texts /\ Len(gs[i]) = Gap(p, i) + Len(p[i]) /\ Len(p[i]) \in Nat /\ Gap(p, i) \in {0, 1}
             /\ \A m \in 1..Len(p[i]) : gs[i][Gap(p, i) + m] = p[i][m]
             /\ Gap(p, i) = 1 => gs[i][1] = "/"
  <2>1. p[i] \in Texts /\ Len(p[i]) \in Nat /\ p[i] \in Seq(Characters) /\ Gap(p, i) \in {0, 1}
    BY ComponentsAre DEF Texts
  <2>2. CASE i = 1 \/ p[i - 1] = Root
    <3>1. gs[i] = p[i] /\ Gap(p, i) = 0
      BY <2>2 DEF Gap
    <3>2. \A m \in 1..Len(p[i]) : 0 + m = m
      OBVIOUS
    <3> HIDE DEF gs
    <3> QED BY <2>1, <3>1, <3>2
  <2>3. CASE ~(i = 1 \/ p[i - 1] = Root)
    <3> DEFINE s == <<"/">>
               w == s \o p[i]
    <3>1. gs[i] = w /\ Gap(p, i) = 1
      BY <2>3 DEF Gap
    <3>2. s \in Seq(Characters) /\ Len(s) = 1 /\ s[1] = "/"
      BY TextsAssumption
    <3> HIDE DEF s
    <3>3. w \in Seq(Characters) /\ Joins(w, s, p[i])
      BY <2>1, <3>2, ConcatPlaces
    <3> HIDE DEF w, gs
    <3>4. Len(w) = 1 + Len(p[i]) /\ w[1] = "/" /\ \A m \in 1..Len(p[i]) : w[1 + m] = p[i][m]
      BY <3>2, <3>3 DEF Joins
    <3> QED BY <2>1, <3>1, <3>3, <3>4 DEF Texts
  <2> QED BY <2>2, <2>3
<1>3. gs \in Seq(Seq(Characters))
  <2> DEFINE X == Seq(Characters)
  <2>1. \A i \in 1..n : gs[i] \in X
    BY <1>2 DEF Texts
  <2> HIDE DEF X
  <2>2. gs \in Seq(X)
    BY <1>1, <2>1
  <2> QED BY <2>2 DEF X
<1>4. TextOf(p) = FlattenSeq(gs) /\ Len(gs) = n
  BY <1>1 DEF TextOf
<1>5. PICK e : Places(gs, FlattenSeq(gs), e)
  BY <1>3, FlattenPlaces
<1>6. TextOf(p) \in Texts
  BY <1>3, <1>4, FlattenIs DEF Texts
<1> DEFINE t == TextOf(p)
<1>7. /\ e \in [0..n -> Nat] /\ e[0] = 0 /\ e[n] = Len(t)
      /\ \A i \in 1..n : e[i] = e[i - 1] + Len(gs[i]) /\ e[i] <= Len(t)
      /\ \A i \in 1..n : \A m \in 1..Len(gs[i]) : t[e[i - 1] + m] = gs[i][m]
  <2> HIDE DEF gs, n
  <2> QED BY <1>4, <1>5 DEF Places
<1> HIDE DEF gs, t, n
<1>8. ASSUME NEW i \in 1..n
      PROVE  /\ e[i] = Begin(p, e, i) + Len(p[i]) /\ e[i] <= Len(t)
             /\ \A m \in 1..Len(p[i]) : t[Begin(p, e, i) + m] = p[i][m]
             /\ Gap(p, i) = 1 => t[Begin(p, e, i)] = "/"
  <2> DEFINE g == Gap(p, i)
             l == Len(p[i])
             a == e[i - 1]
  <2>1. g \in {0, 1} /\ l \in Nat /\ Len(gs[i]) = g + l
    BY <1>2
  <2>2. a \in Nat
    <3>1. i - 1 \in 0..n
      BY <1>1
    <3> QED BY <1>7, <3>1
  <2>3. e[i] = a + (g + l) /\ e[i] <= Len(t) /\ \A m \in 1..(g + l) : t[a + m] = gs[i][m]
    BY <1>7, <2>1
  <2>4. (\A m \in 1..l : gs[i][g + m] = p[i][m]) /\ (g = 1 => gs[i][1] = "/")
    BY <1>2
  <2> HIDE DEF g, l, a
  <2>5. a + (g + l) = (a + g) + l
    BY <2>1, <2>2
  <2>6. \A m \in 1..l : g + m \in 1..(g + l) /\ a + (g + m) = (a + g) + m
    BY <2>1, <2>2
  <2>7. \A m \in 1..l : t[(a + g) + m] = p[i][m]
    BY <2>3, <2>4, <2>6
  <2>8. g = 1 => t[a + g] = "/"
    <3>1. 1 \in 1..(1 + l)
      BY <2>1
    <3> QED BY <2>3, <2>4, <3>1
  <2>9. Begin(p, e, i) = a + g
    BY DEF Begin, a, g
  <2> QED BY <2>3, <2>5, <2>7, <2>8, <2>9 DEF g, l
<1>9. Laid(t, p, e)
  BY <1>6, <1>7, <1>8 DEF Laid, t, n
<1> QED BY <1>9 DEF t

\* The components of a text come one after the other, and there is nothing else.
LEMMA LaidUp ==
  ASSUME NEW p, IsPath(p), NEW t, NEW e, Laid(t, p, e)
  PROVE  /\ Len(p) \in Nat /\ Len(t) \in Nat
         /\ \A i \in 1..Len(p) : /\ e[i - 1] \in Nat /\ e[i] \in Nat /\ Begin(p, e, i) \in Nat
                                 /\ e[i - 1] <= Begin(p, e, i) /\ Begin(p, e, i) < e[i]
         /\ \A i, j \in 0..Len(p) : i <= j => e[i] <= e[j]
         /\ \A x \in 1..Len(t) : \E i \in 1..Len(p) : e[i - 1] < x /\ x <= e[i]
<1> DEFINE n == Len(p)
<1>1. n \in Nat /\ Len(t) \in Nat
  BY DEF IsPath, Path, Laid, Texts
<1>2. /\ e \in [0..n -> Nat] /\ e[0] = 0 /\ e[n] = Len(t)
      /\ \A i \in 1..n : e[i] = Begin(p, e, i) + Len(p[i])
  BY DEF Laid
<1>3. ASSUME NEW i \in 1..n
      PROVE  /\ e[i - 1] \in Nat /\ e[i] \in Nat /\ Begin(p, e, i) \in Nat
             /\ e[i - 1] <= Begin(p, e, i) /\ Begin(p, e, i) < e[i]
  <2>1. i - 1 \in 0..n /\ i \in 0..n
    BY <1>1
  <2>2. e[i - 1] \in Nat /\ e[i] \in Nat
    BY <1>2, <2>1
  <2>3. Gap(p, i) \in {0, 1} /\ Len(p[i]) \in Nat /\ Len(p[i]) >= 1
    BY ComponentsAre
  <2>4. Begin(p, e, i) = e[i - 1] + Gap(p, i) /\ e[i] = Begin(p, e, i) + Len(p[i])
    BY <1>2 DEF Begin
  <2>5. ASSUME NEW a \in Nat, NEW g \in {0, 1}, NEW l \in Nat, l >= 1
        PROVE  a + g \in Nat /\ a <= a + g /\ a + g < (a + g) + l
    BY <2>5
  <2> QED BY <2>2, <2>3, <2>4, <2>5
<1> HIDE DEF n
<1>4. ASSUME NEW j \in 0..n PROVE \A i \in 0..j : e[i] <= e[j]
  <2> DEFINE S == {k \in 0..n : \A i \in 0..k : e[i] <= e[k]}
  <2>1. 0 \in S
    BY <1>1, <1>2
  <2>2. ASSUME NEW k \in 1..n, k - 1 \in S PROVE k \in S
    <3> SUFFICES ASSUME NEW i \in 0..k PROVE e[i] <= e[k]
      BY <1>1
    <3>1. e[k - 1] \in Nat /\ e[k] \in Nat /\ e[k - 1] <= e[k]
      <4>1. ASSUME NEW a \in Nat, NEW b \in Nat, NEW c \in Nat, a <= b, b < c PROVE a <= c
        BY <4>1
      <4> QED BY <1>3, <4>1
    <3>2. i = k \/ i \in 0..(k - 1)
      BY <1>1
    <3>3. i \in 0..n
      BY <1>1
    <3>4. e[i] \in Nat
      BY <1>2, <3>3
    <3> QED BY <2>2, <3>1, <3>2, <3>4
  <2> HIDE DEF S
  <2>3. j \in S
    BY <1>1, <2>1, <2>2, Upward
  <2> QED BY <2>3 DEF S
<1>5. \A i, j \in 0..n : i <= j => e[i] <= e[j]
  <2>1. \A i, j \in 0..n : i <= j => i \in 0..j
    BY <1>1
  <2> QED BY <1>4, <2>1
<1>6. ASSUME NEW x \in 1..Len(t) PROVE \E i \in 1..n : e[i - 1] < x /\ x <= e[i]
  <2> DEFINE S == {i \in 0..n : x <= e[i]}
  <2>1. n \in S
    BY <1>1, <1>2
  <2>2. PICK i \in S : \A j \in S : i <= j
    <3>1. S \subseteq Nat /\ S # {}
      BY <2>1
    <3> HIDE DEF S
    <3> QED BY <3>1, LeastNumber
  <2>3. i # 0
    BY <1>2
  <2>4. i \in 1..n /\ i - 1 \in 0..n /\ ~(i <= i - 1)
    BY <1>1, <2>3
  <2>5. ~(x <= e[i - 1])
    BY <2>2, <2>4
  <2>6. e[i - 1] \in Nat /\ x \in Nat
    BY <1>3, <2>4
  <2> QED BY <2>4, <2>5, <2>6
<1> QED BY <1>1, <1>3, <1>5, <1>6 DEF n

\* The text of a path spells it.
LEMMA TextSpells ==
  ASSUME NEW p, IsPath(p), NEW t, NEW e, Laid(t, p, e)
  PROVE  Spells(t, p, [i \in Names(p) |-> Begin(p, e, i)])
<1> DEFINE n == Len(p)
           b == [i \in Names(p) |-> Begin(p, e, i)]
<1>1. /\ n \in Nat /\ Len(t) \in Nat /\ t \in Texts /\ n >= 1 /\ e[0] = 0 /\ e[n] = Len(t)
      /\ \A i \in 1..n : /\ e[i - 1] \in Nat /\ e[i] \in Nat /\ Begin(p, e, i) \in Nat
                         /\ e[i - 1] <= Begin(p, e, i) /\ Begin(p, e, i) < e[i]
                         /\ e[i] = Begin(p, e, i) + Len(p[i]) /\ e[i] <= Len(t)
                         /\ \A m \in 1..Len(p[i]) : t[Begin(p, e, i) + m] = p[i][m]
                         /\ Gap(p, i) = 1 => t[Begin(p, e, i)] = "/"
  BY LaidUp, NamesAre DEF Laid
<1>2. \A i, j \in 0..n : i <= j => e[i] <= e[j]
  BY LaidUp
<1>3. Names(p) \subseteq 1..n
  BY DEF Names
<1>4. \A i \in Names(p) : b[i] = Begin(p, e, i) /\ b[i] \in Nat
  BY <1>1, <1>3
<1>5. b \in [Names(p) -> Nat]
  BY <1>4
<1>r. \A i \in 1..n : p[i] = Root => i = 1 /\ t[1] = "/" /\ e[1] = 1
  <2> SUFFICES ASSUME NEW i \in 1..n, p[i] = Root PROVE i = 1 /\ t[1] = "/" /\ e[1] = 1
    OBVIOUS
  <2>1. i = 1 /\ Len(p[1]) = 1 /\ p[1][1] = "/" /\ Gap(p, 1) = 0
    BY ComponentsAre DEF Gap
  <2>2. Begin(p, e, 1) = 0
    BY <1>1, <2>1 DEF Begin
  <2>3. e[1] = 1 /\ t[0 + 1] = "/"
    <3>1. 1 \in 1..n /\ 1 \in 1..Len(p[1])
      BY <1>1, <2>1
    <3>2. e[1] = Begin(p, e, 1) + Len(p[1]) /\ \A m \in 1..Len(p[1]) : t[Begin(p, e, 1) + m] = p[1][m]
      BY <1>1, <3>1
    <3> QED BY <2>1, <2>2, <3>1, <3>2
  <2> QED BY <2>1, <2>3
<1> HIDE DEF b, n
<1>6. ASSUME NEW i \in Names(p)
      PROVE  /\ b[i] + Len(p[i]) <= Len(t) /\ (\A m \in 1..Len(p[i]) : t[b[i] + m] = p[i][m])
             /\ (b[i] = 0 \/ t[b[i]] = "/")
             /\ (b[i] + Len(p[i]) = Len(t) \/ t[b[i] + Len(p[i]) + 1] = "/")
             /\ (\A j \in Names(p) : i < j => b[i] < b[j])
  <2>1. i \in 1..n /\ p[i] # Root
    BY <1>3 DEF Names
  <2>2. b[i] + Len(p[i]) = e[i] /\ b[i] \in Nat
    BY <1>1, <1>4, <2>1
  <2>3. b[i] = 0 \/ t[b[i]] = "/"
    <3>1. CASE Gap(p, i) = 1
      BY <1>1, <1>4, <2>1, <3>1
    <3>2. CASE i = 1
      BY <1>1, <1>4, <3>2 DEF Gap, Begin
    <3>3. CASE i = 2 /\ Rooted(p) = 1
      <4>1. 1 \in 1..n /\ p[1] = Root
        BY <1>1, <3>3, NamesAre
      <4>2. t[1] = "/" /\ e[1] = 1 /\ Gap(p, 2) = 0
        BY <1>r, <4>1 DEF Gap
      <4>3. b[i] = e[1]
        BY <1>1, <1>4, <2>1, <3>3, <4>2 DEF Begin
      <4> QED BY <4>2, <4>3
    <3> QED BY <2>1, <3>1, <3>2, <3>3, ComponentsAre DEF n
  <2>4. e[i] = Len(t) \/ t[e[i] + 1] = "/"
    <3>1. CASE i = n
      BY <1>1, <3>1
    <3>2. CASE i # n
      <4> DEFINE j == i + 1
      <4>1. j \in 1..n /\ j # 1 /\ j - 1 = i
        BY <1>1, <2>1, <3>2
      <4> HIDE DEF j
      <4>2. Gap(p, j) = 1
        BY <2>1, <4>1 DEF Gap
      <4>3. Begin(p, e, j) = e[i] + 1
        BY <4>1, <4>2 DEF Begin
      <4> QED BY <1>1, <4>1, <4>2, <4>3
    <3> QED BY <3>1, <3>2
  <2>5. ASSUME NEW j \in Names(p), i < j PROVE b[i] < b[j]
    <3>1. j \in 1..n /\ j - 1 \in 0..n /\ i \in 0..n /\ i <= j - 1
      BY <1>1, <1>3, <2>1, <2>5
    <3>2. e[i] <= e[j - 1] /\ e[j - 1] <= b[j] /\ b[i] < e[i]
      BY <1>1, <1>2, <1>4, <2>1, <3>1
    <3>3. e[i] \in Nat /\ e[j - 1] \in Nat /\ b[j] \in Nat
      BY <1>1, <1>4, <2>1, <3>1
    <3> QED BY <2>2, <3>2, <3>3
  <2>6. e[i] <= Len(t) /\ \A m \in 1..Len(p[i]) : t[b[i] + m] = p[i][m]
    BY <1>1, <1>4, <2>1
  <2> QED BY <2>2, <2>3, <2>4, <2>5, <2>6
<1>7. 1 \in Names(p) => b[1] = 0
  BY <1>1, <1>4 DEF Begin, Gap
<1>8. ASSUME NEW x \in 1..Len(t)
      PROVE  t[x] = "/" \/ \E i \in Names(p) : x \in (b[i] + 1)..(b[i] + Len(p[i]))
  <2>1. PICK i \in 1..n : e[i - 1] < x /\ x <= e[i]
    BY LaidUp DEF n
  <2>2. CASE x <= Begin(p, e, i)
    <3>1. Gap(p, i) # 0
      BY <1>1, <2>1, <2>2 DEF Begin
    <3>2. Gap(p, i) = 1
      BY <3>1, ComponentsAre DEF n
    <3>3. x = Begin(p, e, i)
      BY <1>1, <2>1, <2>2, <3>2 DEF Begin
    <3> QED BY <1>1, <3>2, <3>3
  <2>3. CASE p[i] = Root
    <3>1. i = 1 /\ e[1] = 1 /\ t[1] = "/"
      BY <1>r, <2>3
    <3>2. x = 1
      BY <2>1, <3>1
    <3> QED BY <3>1, <3>2
  <2>4. CASE ~(x <= Begin(p, e, i)) /\ p[i] # Root
    <3>1. i \in Names(p) /\ b[i] = Begin(p, e, i)
      BY <1>4, <2>4 DEF Names, n
    <3>2. x \in (b[i] + 1)..(b[i] + Len(p[i]))
      BY <1>1, <2>1, <2>4, <3>1
    <3> QED BY <3>1, <3>2
  <2> QED BY <2>2, <2>3, <2>4
<1>9. p[1] = Root <=> t # <<>> /\ t[1] = "/"
  <2>1. 1 \in 1..n
    BY <1>1
  <2>2. CASE p[1] = Root
    <3>1. t[1] = "/" /\ e[1] = 1 /\ e[1] <= Len(t)
      BY <1>1, <1>r, <2>1, <2>2
    <3> QED BY <1>1, <2>2, <3>1
  <2>3. CASE p[1] # Root
    <3>1. 1 \in Names(p)
      BY <2>1, <2>3 DEF Names, n
    <3>2. Len(p[1]) >= 1 /\ Len(p[1]) \in Nat /\ \A m \in 1..Len(p[1]) : p[1][m] # "/"
      BY <3>1, NamesAre
    <3>3. t[0 + 1] = p[1][1] /\ p[1][1] # "/"
      <4>1. 1 \in 1..Len(p[1])
        BY <3>2
      <4> QED BY <1>6, <1>7, <3>1, <3>2, <4>1
    <3> QED BY <2>3, <3>3
  <2> QED BY <2>2, <2>3
<1> QED BY <1>1, <1>5, <1>6, <1>7, <1>8, <1>9 DEF Spells, b

\* path.rs, Path::from: a path comes back from its text, component by component.
THEOREM PathReturns ==
  ASSUME NEW p, IsPath(p)
  PROVE  TextOf(p) \in Texts /\ TextOf(p) # <<>> /\ From(TextOf(p)) = p
<1>1. PICK e : Laid(TextOf(p), p, e)
  BY TextLaid
<1>2. From(TextOf(p)) = p
  BY <1>1, TextSpells, FromIs
<1>3. Len(p) >= 1 /\ Len(p) \in Nat /\ TextOf(p) \in Texts /\ e[1] <= Len(TextOf(p)) /\ e[0] = 0 /\ e[0] < e[1]
  <2>1. Len(p) >= 1 /\ Len(p) \in Nat
    BY NamesAre
  <2>2. 1 \in 1..Len(p)
    BY <2>1
  <2>3. e[1 - 1] < e[1] /\ e[1] <= Len(TextOf(p))
    <3>1. \A i \in 1..Len(p) : e[i - 1] <= Begin(p, e, i) /\ Begin(p, e, i) < e[i] /\ e[i - 1] \in Nat
                               /\ Begin(p, e, i) \in Nat /\ e[i] \in Nat
      BY <1>1, LaidUp
    <3>2. e[1 - 1] <= Begin(p, e, 1) /\ Begin(p, e, 1) < e[1] /\ e[1 - 1] \in Nat
          /\ Begin(p, e, 1) \in Nat /\ e[1] \in Nat
      BY <2>2, <3>1
    <3> QED BY <1>1, <2>2, <3>2 DEF Laid
  <2> QED BY <1>1, <2>1, <2>3 DEF Laid
<1>4. TextOf(p) # <<>>
  <2>1. \A a \in Nat : ~(0 < a /\ a <= 0)
    OBVIOUS
  <2>2. e[1] \in Nat
    <3>1. 1 \in 0..Len(p)
      BY <1>3
    <3> QED BY <1>1, <3>1 DEF Laid
  <2> QED BY <1>3, <2>1, <2>2
<1> QED BY <1>2, <1>3, <1>4

\* The text of a path whose last name is a part of that of another, longer path.
LEMMA PrefixLaid ==
  ASSUME NEW p, IsPath(p), NEW t, NEW e, Laid(t, p, e),
         NEW q, IsPath(q), NEW u, NEW f, Laid(u, q, f), Len(q) <= Len(p),
         \A i \in 1..Len(q) : i # Len(q) => q[i] = p[i],
         Len(q[Len(q)]) <= Len(p[Len(q)]),
         \A m \in 1..Len(q[Len(q)]) : q[Len(q)][m] = p[Len(q)][m]
  PROVE  IsPrefix(u, t)
<1> DEFINE n == Len(p)
           k == Len(q)
<1>1. n \in Nat /\ k \in Nat /\ k >= 1 /\ k <= n /\ Len(u) \in Nat /\ Len(t) \in Nat
  BY LaidUp, NamesAre
<1>2. /\ t \in Seq(Characters) /\ u \in Seq(Characters) /\ e[0] = 0 /\ f[0] = 0 /\ f[k] = Len(u)
      /\ \A i \in 1..n : /\ e[i] = Begin(p, e, i) + Len(p[i]) /\ e[i] <= Len(t)
                         /\ \A m \in 1..Len(p[i]) : t[Begin(p, e, i) + m] = p[i][m]
                         /\ Gap(p, i) = 1 => t[Begin(p, e, i)] = "/"
      /\ \A i \in 1..k : /\ f[i] = Begin(q, f, i) + Len(q[i])
                         /\ \A m \in 1..Len(q[i]) : u[Begin(q, f, i) + m] = q[i][m]
                         /\ Gap(q, i) = 1 => u[Begin(q, f, i)] = "/"
  BY DEF Laid, Texts
<1>3. /\ \A i \in 1..n : e[i] \in Nat /\ Begin(p, e, i) \in Nat
      /\ \A i \in 1..k : f[i - 1] \in Nat /\ f[i] \in Nat /\ Begin(q, f, i) \in Nat
      /\ \A x \in 1..Len(u) : \E i \in 1..k : f[i - 1] < x /\ x <= f[i]
  BY LaidUp
<1>4. \A i \in 1..k : i # k => q[i] = p[i]
  OBVIOUS
<1>5. Len(q[k]) <= Len(p[k]) /\ \A m \in 1..Len(q[k]) : q[k][m] = p[k][m]
  OBVIOUS
<1>6. \A i \in 1..k : Len(q[i]) \in Nat /\ Len(p[i]) \in Nat /\ Gap(q, i) \in {0, 1}
  <2>1. \A i \in 1..k : i \in 1..n
    BY <1>1
  <2> QED BY <2>1, ComponentsAre
<1> HIDE DEF n, k
<1>7. \A i \in 1..k : Len(q[i]) <= Len(p[i]) /\ \A m \in 1..Len(q[i]) : q[i][m] = p[i][m]
  BY <1>4, <1>5, <1>6
<1>8. \A i \in 1..k : Gap(q, i) = Gap(p, i)
  <2> SUFFICES ASSUME NEW i \in 1..k, i # 1 PROVE q[i - 1] = p[i - 1]
    BY DEF Gap
  <2>1. i - 1 \in 1..k /\ i - 1 # k
    BY <1>1
  <2> QED BY <1>4, <2>1
<1>9. \A i \in 1..k : f[i - 1] = e[i - 1]
  <2> DEFINE S == {i \in 0..(k - 1) : f[i] = e[i]}
  <2>1. 0 \in S
    BY <1>1, <1>2
  <2>2. ASSUME NEW i \in 1..(k - 1), i - 1 \in S PROVE i \in S
    <3>1. i \in 1..k /\ i # k /\ i \in 1..n
      BY <1>1
    <3>2. f[i] = Begin(q, f, i) + Len(q[i]) /\ e[i] = Begin(p, e, i) + Len(p[i]) /\ q[i] = p[i]
      BY <1>2, <1>4, <3>1
    <3>3. Begin(q, f, i) = Begin(p, e, i)
      BY <1>8, <2>2, <3>1 DEF Begin
    <3> QED BY <1>1, <3>2, <3>3
  <2> HIDE DEF S
  <2>3. k - 1 \in Nat
    BY <1>1
  <2>4. \A i \in 0..(k - 1) : i \in S
    BY <2>1, <2>2, <2>3, Upward
  <2>5. \A i \in 1..k : i - 1 \in 0..(k - 1)
    BY <1>1
  <2> QED BY <2>4, <2>5 DEF S
<1>10. \A i \in 1..k : Begin(q, f, i) = Begin(p, e, i) /\ i \in 1..n
  BY <1>1, <1>8, <1>9 DEF Begin
<1>11. Len(u) <= Len(t)
  <2> DEFINE B == Begin(p, e, k)
  <2>1. k \in 1..k /\ k \in 1..n
    BY <1>1
  <2>2. /\ Len(u) = B + Len(q[k]) /\ B + Len(p[k]) <= Len(t) /\ B \in Nat
        /\ Len(q[k]) \in Nat /\ Len(p[k]) \in Nat
    BY <1>2, <1>3, <1>6, <1>10, <2>1
  <2> HIDE DEF B
  <2> QED BY <1>1, <1>5, <2>2
<1>12. ASSUME NEW x \in 1..Len(u) PROVE u[x] = t[x]
  <2>1. PICK i \in 1..k : f[i - 1] < x /\ x <= f[i]
    BY <1>3
  <2> DEFINE B == Begin(q, f, i)
             l == Len(q[i])
  <2>2. /\ B = Begin(p, e, i) /\ i \in 1..n /\ B \in Nat /\ l \in Nat /\ f[i] = B + l /\ l <= Len(p[i])
        /\ B = f[i - 1] + Gap(q, i) /\ Gap(q, i) \in {0, 1} /\ f[i - 1] \in Nat /\ Len(p[i]) \in Nat
    BY <1>2, <1>3, <1>6, <1>7, <1>10 DEF Begin
  <2>3. /\ \A m \in 1..l : u[B + m] = q[i][m] /\ q[i][m] = p[i][m]
        /\ \A m \in 1..Len(p[i]) : t[B + m] = p[i][m]
        /\ Gap(q, i) = 1 => u[B] = "/" /\ t[B] = "/"
    <3>1. /\ \A m \in 1..Len(q[i]) : u[Begin(q, f, i) + m] = q[i][m]
          /\ Gap(q, i) = 1 => u[Begin(q, f, i)] = "/"
      BY <1>2
    <3>2. /\ \A m \in 1..Len(p[i]) : t[Begin(p, e, i) + m] = p[i][m]
          /\ Gap(p, i) = 1 => t[Begin(p, e, i)] = "/"
      BY <1>2, <2>2
    <3>3. (\A m \in 1..Len(q[i]) : q[i][m] = p[i][m]) /\ Gap(q, i) = Gap(p, i)
      BY <1>7, <1>8
    <3>4. B = Begin(p, e, i) /\ B = Begin(q, f, i)
      BY <2>2
    <3> HIDE DEF B
    <3> QED BY <3>1, <3>2, <3>3, <3>4
  <2> HIDE DEF B, l
  <2>4. CASE x <= B
    <3>1. Gap(q, i) = 1 /\ x = B
      BY <2>1, <2>2, <2>4, SMTT(30)
    <3> QED BY <2>3, <3>1
  <2>5. CASE ~(x <= B)
    <3> DEFINE m == x - B
    <3>1. m \in 1..l /\ B + m = x /\ m \in 1..Len(p[i])
      <4>1. x \in Nat /\ x <= B + l /\ B \in Nat /\ l \in Nat /\ l <= Len(p[i]) /\ Len(p[i]) \in Nat
        BY <1>1, <2>1, <2>2
      <4> QED BY <2>5, <4>1
    <3> HIDE DEF m
    <3> QED BY <2>3, <3>1
  <2> QED BY <2>4, <2>5
<1>13. SubSeq(u, 1, Len(u)) = SubSeq(t, 1, Len(u))
  <2> DEFINE v == SubSeq(t, 1, Len(u))
             w == SubSeq(u, 1, Len(u))
  <2>1. /\ v \in Seq(Characters) /\ Len(v) = Len(u) /\ \A i \in 1..Len(u) : v[i] = t[i]
    BY <1>1, <1>2, <1>11, CutIs
  <2>2. /\ w \in Seq(Characters) /\ Len(w) = Len(u) /\ \A i \in 1..Len(u) : w[i] = u[i]
    BY <1>1, <1>2, CutIs
  <2> HIDE DEF v, w
  <2>3. w = v
    BY <1>12, <2>1, <2>2
  <2> QED BY <2>3 DEF v, w
<1> QED BY <1>11, <1>13 DEF IsPrefix

\* path.rs, Path::from of a text that was cut off: a path whose text is a prefix of the first one.
THEOREM CutReturns ==
  ASSUME NEW p, IsPath(p), NEW c \in 1..Len(TextOf(p))
  PROVE  IsPrefix(TextOf(From(SubSeq(TextOf(p), 1, c))), TextOf(p))
<1> DEFINE t == TextOf(p)
           u == SubSeq(t, 1, c)
           n == Len(p)
<1>1. PICK e : Laid(t, p, e)
  BY TextLaid
<1>2. /\ n \in Nat /\ n >= 1 /\ t \in Seq(Characters) /\ Len(t) \in Nat /\ c \in 1..Len(t)
      /\ e[0] = 0
      /\ \A i \in 1..n : /\ e[i - 1] \in Nat /\ e[i] \in Nat /\ Begin(p, e, i) \in Nat
                         /\ e[i - 1] <= Begin(p, e, i) /\ Begin(p, e, i) < e[i]
                         /\ e[i] = Begin(p, e, i) + Len(p[i]) /\ e[i] <= Len(t)
                         /\ \A m \in 1..Len(p[i]) : t[Begin(p, e, i) + m] = p[i][m]
      /\ \A i, j \in 0..n : i <= j => e[i] <= e[j]
  <2>1. /\ n \in Nat /\ Len(t) \in Nat
        /\ \A i \in 1..n : /\ e[i - 1] \in Nat /\ e[i] \in Nat /\ Begin(p, e, i) \in Nat
                           /\ e[i - 1] <= Begin(p, e, i) /\ Begin(p, e, i) < e[i]
        /\ \A i, j \in 0..n : i <= j => e[i] <= e[j]
    BY <1>1, LaidUp
  <2>2. n >= 1
    BY NamesAre
  <2>3. /\ t \in Seq(Characters) /\ c \in 1..Len(t) /\ e[0] = 0
        /\ \A i \in 1..n : /\ e[i] = Begin(p, e, i) + Len(p[i]) /\ e[i] <= Len(t)
                           /\ \A m \in 1..Len(p[i]) : t[Begin(p, e, i) + m] = p[i][m]
    BY <1>1 DEF Laid, Texts
  <2> HIDE DEF n, t
  <2> QED BY <2>1, <2>2, <2>3
<1>3. PICK i \in 1..n : e[i - 1] < c /\ c <= e[i]
  BY <1>1, LaidUp
<1>4. u \in Seq(Characters) /\ Len(u) = c /\ \A x \in 1..c : u[x] = t[x]
  BY <1>2, CutIs
<1> DEFINE b == [j \in Names(p) |-> Begin(p, e, j)]
<1>5. Spells(t, p, b)
  BY <1>1, TextSpells
<1>6. \A j \in Names(p) : b[j] = Begin(p, e, j) /\ j \in 1..n
  BY DEF Names
<1>7. \A j \in 1..n : /\ p[j] \in Seq(Characters) /\ Len(p[j]) \in Nat /\ Len(p[j]) >= 1 /\ Gap(p, j) \in {0, 1}
                      /\ (j = 1 /\ p[j] = Root => Len(p[j]) = 1 /\ p[j][1] = "/")
                      /\ (j # 1 => p[j] # Root /\ p[j] # CurDir)
                      /\ (p[j] # Root => \A m \in 1..Len(p[j]) : p[j][m] # "/")
  BY ComponentsAre DEF Texts, IsPath
<1> DEFINE B == Begin(p, e, i)
           d == c - B
           cut == SubSeq(p[i], 1, d)
           whole == d >= 1 /\ (i = 1 \/ cut # CurDir)
           k == IF whole THEN i ELSE i - 1
           q == [j \in 1..k |-> IF j = i THEN cut ELSE p[j]]
<1>8. B \in Nat /\ d \in Int /\ d <= Len(p[i]) /\ B + d = c /\ c \in Nat
  <2>1. B \in Nat /\ e[i] = B + Len(p[i]) /\ Len(p[i]) \in Nat /\ c <= e[i] /\ c \in Nat
    BY <1>2, <1>3, <1>7
  <2> HIDE DEF B
  <2> QED BY <2>1
<1>9. ASSUME d >= 1
      PROVE  /\ cut \in Seq(Characters) /\ Len(cut) = d /\ d \in 1..Len(p[i])
             /\ \A m \in 1..d : cut[m] = p[i][m] /\ t[B + m] = p[i][m]
  <2>1. p[i] \in Seq(Characters) /\ d \in Nat /\ d <= Len(p[i]) /\ Len(p[i]) \in Nat
    BY <1>7, <1>8, <1>9
  <2>2. \A m \in 1..Len(p[i]) : t[B + m] = p[i][m]
    BY <1>2
  <2> HIDE DEF d, B
  <2> QED BY <1>9, <2>1, <2>2, CutIs
<1>10. ASSUME d < 1 PROVE i # 1 /\ B = c /\ t[c] = "/"
  <2>1. c <= B /\ B \in Nat
    BY <1>8, <1>10
  <2>2. B = e[i - 1] + Gap(p, i) /\ e[i - 1] \in Nat /\ Gap(p, i) \in {0, 1} /\ e[i - 1] < c /\ c \in Nat
    BY <1>2, <1>3, <1>7, <1>8 DEF Begin
  <2>3. Gap(p, i) = 1 /\ B = c
    BY <2>1, <2>2
  <2>4. i # 1
    BY <2>3 DEF Gap
  <2>5. t[B] = "/"
    BY <1>1, <2>3 DEF Laid
  <2> QED BY <2>3, <2>4, <2>5
<1> HIDE DEF b, u, t, n, B, d, cut, whole
<1>11. k \in 1..n /\ k \in {i - 1, i} /\ (k = i <=> whole)
  <2>1. ~whole => i # 1
    BY <1>8, <1>10 DEF whole
  <2> QED BY <1>2, <2>1
<1>12. /\ q = [j \in 1..k |-> q[j]] /\ (\A j \in 1..k : j # i => q[j] = p[j] /\ j < i)
       /\ (k = i => q[i] = cut)
  BY <1>2, <1>11
<1> HIDE DEF q
<1> HIDE DEF k
<1>13. k = i => d >= 1
  BY <1>11 DEF whole
<1>14. /\ q \in Seq(Texts) /\ Len(q) = k
  <2>1. \A j \in 1..k : q[j] \in Texts
    <3> SUFFICES ASSUME NEW j \in 1..k PROVE q[j] \in Seq(Characters)
      BY DEF Texts
    <3>1. CASE j # i
      <4>1. j \in 1..n /\ q[j] = p[j]
        BY <1>2, <1>11, <1>12, <3>1
      <4> QED BY <1>7, <4>1
    <3>2. CASE j = i
      <4>1. k = i
        BY <1>2, <1>11, <3>2
      <4> QED BY <1>9, <1>12, <1>13, <3>2, <4>1
    <3> QED BY <3>1, <3>2
  <2>2. k \in Nat
    BY <1>11
  <2> QED BY <1>12, <2>1, <2>2
<1>15. \A j \in 1..k : /\ q[j] = Root <=> p[j] = Root
                       /\ Len(q[j]) >= 1 /\ Len(q[j]) <= Len(p[j]) /\ Len(q[j]) \in Nat
                       /\ \A m \in 1..Len(q[j]) : q[j][m] = p[j][m] /\ t[Begin(p, e, j) + m] = q[j][m]
  <2> SUFFICES ASSUME NEW j \in 1..k
               PROVE  /\ q[j] = Root <=> p[j] = Root
                      /\ Len(q[j]) >= 1 /\ Len(q[j]) <= Len(p[j]) /\ Len(q[j]) \in Nat
                      /\ \A m \in 1..Len(q[j]) : q[j][m] = p[j][m] /\ t[Begin(p, e, j) + m] = q[j][m]
    OBVIOUS
  <2>1. j \in 1..n
    BY <1>2, <1>11
  <2>2. CASE j # i
    BY <1>2, <1>7, <1>12, <2>1, <2>2, SMTT(30)
  <2>3. CASE j = i
    <3>1. k = i /\ q[i] = cut /\ d >= 1
      <4>1. k # i - 1
        BY <2>3, <1>2
      <4> QED BY <1>11, <1>12, <1>13, <4>1
    <3>2. Len(cut) = d /\ d \in 1..Len(p[i]) /\ \A m \in 1..d : cut[m] = p[i][m] /\ t[B + m] = p[i][m]
      BY <1>9, <3>1
    <3>3. cut = Root <=> p[i] = Root
      <4>1. CASE p[i] = Root
        <5>1. i = 1 /\ Len(p[i]) = 1 /\ p[i][1] = "/"
          BY <1>7, <4>1
        <5>2. d = 1 /\ cut[1] = "/" /\ cut \in Seq(Characters)
          BY <1>9, <3>1, <3>2, <5>1
        <5>3. cut = <<"/">>
          BY <3>2, <5>2
        <5> QED BY <4>1, <5>3 DEF Root
      <4>2. CASE p[i] # Root
        <5>1. p[i][1] # "/"
          <6>1. 1 \in 1..Len(p[i])
            BY <3>2
          <6> QED BY <1>7, <4>2, <6>1
        <5>2. cut[1] # "/"
          <6>1. 1 \in 1..d
            BY <3>2
          <6> QED BY <3>2, <5>1, <6>1
        <5> QED BY <4>2, <5>2 DEF Root
      <4> QED BY <4>1, <4>2
    <3>4. Len(q[j]) = d /\ q[j] = cut
      BY <2>3, <3>1, <3>2
    <3>5. \A m \in 1..Len(q[j]) : q[j][m] = p[j][m] /\ t[Begin(p, e, j) + m] = q[j][m]
      BY <2>3, <3>2, <3>4 DEF B
    <3> QED BY <1>7, <2>3, <3>2, <3>3, <3>4, <3>5
  <2> QED BY <2>2, <2>3
<1>16. IsPath(q)
  <2>1. q \in Path /\ q # <<>>
    BY <1>11, <1>14 DEF Path
  <2>2. ASSUME NEW j \in 1..Len(q), j # 1 PROVE q[j] # Root /\ q[j] # CurDir
    <3>1. j \in 1..k /\ j \in 1..n
      BY <1>2, <1>11, <1>14
    <3>2. CASE j # i
      BY <1>7, <1>12, <2>2, <3>1, <3>2
    <3>3. CASE j = i
      <4>1. k = i
        BY <1>2, <1>11, <3>1, <3>3
      <4>2. q[j] = cut /\ cut # CurDir
        BY <1>11, <1>12, <2>2, <3>3, <4>1 DEF whole
      <4> QED BY <1>7, <1>15, <2>2, <3>1, <4>2
    <3> QED BY <3>2, <3>3
  <2>3. ASSUME NEW j \in 1..Len(q), q[j] # Root PROVE q[j] # <<>> /\ \A m \in 1..Len(q[j]) : q[j][m] # "/"
    <3>1. j \in 1..k /\ j \in 1..n
      BY <1>2, <1>11, <1>14
    <3>2. Len(q[j]) >= 1 /\ Len(q[j]) <= Len(p[j]) /\ p[j] # Root /\ \A m \in 1..Len(q[j]) : q[j][m] = p[j][m]
      BY <1>15, <2>3, <3>1
    <3>3. Len(q[j]) \in Nat /\ Len(p[j]) \in Nat
      BY <1>7, <1>15, <3>1
    <3>4. \A m \in 1..Len(q[j]) : m \in 1..Len(p[j])
      BY <3>2, <3>3
    <3>5. q[j] # <<>>
      BY <3>2
    <3> QED BY <1>7, <3>1, <3>2, <3>4, <3>5
  <2> QED BY <2>1, <2>2, <2>3 DEF IsPath
<1> DEFINE a == [j \in Names(q) |-> Begin(p, e, j)]
<1>17. Names(q) \subseteq Names(p) /\ Names(q) \subseteq 1..k /\ \A j \in 1..k : j \in Names(p) => j \in Names(q)
  <2>1. \A j \in 1..k : j \in 1..n
    BY <1>2, <1>11
  <2> QED BY <1>14, <1>15, <2>1 DEF Names, n
<1>18. a \in [Names(q) -> Nat] /\ \A j \in Names(q) : a[j] = Begin(p, e, j) /\ a[j] = b[j] /\ a[j] \in Nat
  <2>1. \A j \in Names(q) : Begin(p, e, j) \in Nat /\ Begin(p, e, j) = b[j]
    BY <1>2, <1>6, <1>17
  <2> QED BY <2>1
<1> HIDE DEF a
<1>19. /\ \A j \in Names(p) : /\ b[j] + Len(p[j]) <= Len(t) /\ (b[j] = 0 \/ t[b[j]] = "/")
                              /\ b[j] + Len(p[j]) = Len(t) \/ t[b[j] + Len(p[j]) + 1] = "/"
                              /\ \A m \in Names(p) : j < m => b[j] < b[m]
       /\ 1 \in Names(p) => b[1] = 0
       /\ \A x \in 1..Len(t) : \/ t[x] = "/"
                               \/ \E j \in Names(p) : x \in (b[j] + 1)..(b[j] + Len(p[j]))
                               \/ x = Len(t) /\ x # 1 /\ t[x] = "." /\ t[x - 1] = "/"
       /\ p[1] = Root <=> t # <<>> /\ t[1] = "/"
  BY <1>5 DEF Spells
<1>20. ASSUME NEW j \in Names(q)
       PROVE  /\ a[j] + Len(q[j]) <= c /\ (\A m \in 1..Len(q[j]) : u[a[j] + m] = q[j][m])
              /\ (a[j] = 0 \/ u[a[j]] = "/")
              /\ (a[j] + Len(q[j]) = c \/ u[a[j] + Len(q[j]) + 1] = "/")
              /\ (\A m \in Names(q) : j < m => a[j] < a[m])
  <2>1. j \in 1..k /\ j \in Names(p) /\ j \in 1..n /\ a[j] = Begin(p, e, j) /\ a[j] = b[j] /\ a[j] \in Nat
    BY <1>6, <1>17, <1>18
  <2>2. Len(q[j]) \in Nat /\ Len(q[j]) >= 1 /\ \A m \in 1..Len(q[j]) : t[a[j] + m] = q[j][m]
    BY <1>15, <2>1
  <2>3. a[j] + Len(q[j]) <= c /\ (a[j] + Len(q[j]) = c \/ u[a[j] + Len(q[j]) + 1] = "/")
    <3>1. CASE j = i
      <4>1. k = i
        BY <1>2, <1>11, <2>1, <3>1
      <4>2. Len(q[j]) = d /\ a[j] = B
        BY <1>9, <1>12, <1>13, <2>1, <3>1, <4>1 DEF B
      <4>3. a[j] + Len(q[j]) = c
        BY <1>8, <4>2
      <4> QED BY <1>8, <4>3
    <3>2. CASE j # i
      <4>1. q[j] = p[j] /\ j \in 0..n /\ i - 1 \in 0..n /\ j <= i - 1
        BY <1>2, <1>11, <1>12, <2>1, <3>2, SMTT(30)
      <4>2. e[j] <= e[i - 1] /\ e[j] = a[j] + Len(q[j]) /\ e[j] \in Nat /\ e[i - 1] \in Nat
        BY <1>2, <2>1, <4>1
      <4>3. e[j] < c /\ c <= Len(t) /\ Len(t) \in Nat /\ c \in Nat
        BY <1>2, <1>3, <1>8, <4>2
      <4>4. e[j] # Len(t) /\ e[j] + 1 \in 1..c
        BY <4>2, <4>3
      <4>5. t[e[j] + 1] = "/"
        BY <1>19, <2>1, <4>1, <4>2, <4>4
      <4>6. u[e[j] + 1] = "/"
        BY <1>4, <4>4, <4>5
      <4> HIDE DEF a
      <4> QED BY <4>2, <4>3, <4>6
    <3> QED BY <3>1, <3>2
  <2>4. \A m \in 1..Len(q[j]) : a[j] + m \in 1..c
    BY <1>8, <2>1, <2>2, <2>3, SMTT(30)
  <2>5. \A m \in 1..Len(q[j]) : u[a[j] + m] = q[j][m]
    BY <1>4, <2>2, <2>4
  <2>6. a[j] = 0 \/ u[a[j]] = "/"
    <3>1. a[j] = 0 \/ a[j] \in 1..c
      BY <1>8, <2>1, <2>2, <2>3
    <3>2. a[j] = 0 \/ t[a[j]] = "/"
      BY <1>19, <2>1
    <3> QED BY <1>4, <3>1, <3>2
  <2>7. \A m \in Names(q) : j < m => a[j] < a[m]
    BY <1>17, <1>18, <1>19, <2>1
  <2> QED BY <2>3, <2>5, <2>6, <2>7
<1>21. 1 \in Names(q) => a[1] = 0
  BY <1>17, <1>18, <1>19
<1>22. ASSUME NEW x \in 1..c
       PROVE  \/ u[x] = "/"
              \/ \E j \in Names(q) : x \in (a[j] + 1)..(a[j] + Len(q[j]))
              \/ x = c /\ x # 1 /\ u[x] = "." /\ u[x - 1] = "/"
  <2>0. x \in 1..Len(t) /\ u[x] = t[x] /\ (x # 1 => u[x - 1] = t[x - 1])
    <3>1. x \in 1..Len(t) /\ (x # 1 => x - 1 \in 1..c)
      BY <1>2, <1>8
    <3> QED BY <1>4, <3>1
  <2>1. CASE x = Len(t) /\ x # 1 /\ t[x] = "." /\ t[x - 1] = "/"
    <3>1. x = c
      BY <1>2, <2>1
    <3> QED BY <2>0, <2>1, <3>1
  <2>2. CASE \E j \in Names(p) : x \in (b[j] + 1)..(b[j] + Len(p[j]))
    <3>1. PICK j \in Names(p) : x \in (b[j] + 1)..(b[j] + Len(p[j]))
      BY <2>2
    <3>2. j \in 1..n /\ b[j] = Begin(p, e, j) /\ Begin(p, e, j) \in Nat
      BY <1>2, <1>6
    <3>3. CASE j < i
      <4>1. j \in 1..k /\ q[j] = p[j] /\ j \in Names(q)
        <5>1. j \in 1..k /\ j # i
          BY <1>2, <1>11, <3>2, <3>3
        <5> QED BY <1>12, <1>17, <5>1
      <4> QED BY <1>18, <3>1, <4>1
    <3>4. CASE j = i
      <4>1. b[j] = B
        BY <3>2, <3>4 DEF B
      <4>2. x > B /\ x <= c /\ x \in Nat
        BY <1>7, <1>8, <3>1, <3>2, <4>1
      <4>3. d >= 1
        BY <1>8, <4>2
      <4>4. CASE whole
        <5>1. k = i /\ i \in Names(q) /\ Len(q[i]) = d /\ a[i] = B
          <6>1. k = i /\ i \in 1..k
            BY <1>11, <4>4
          <6>2. i \in Names(q)
            BY <1>17, <3>4, <6>1
          <6> QED BY <1>9, <1>12, <1>18, <3>4, <4>1, <4>3, <6>1, <6>2
        <5>2. x \in (a[i] + 1)..(a[i] + Len(q[i]))
          BY <1>8, <4>2, <5>1
        <5> QED BY <5>1, <5>2
      <4>5. CASE ~whole
        <5>1. i # 1 /\ cut = CurDir
          BY <4>3, <4>5 DEF whole
        <5>2. Len(CurDir) = 1 /\ CurDir[1] = "."
          BY DEF CurDir
        <5>3. d = 1 /\ t[B + 1] = "."
          <6>1. Len(cut) = d /\ \A m \in 1..d : cut[m] = p[i][m] /\ t[B + m] = p[i][m]
            BY <1>9, <4>3
          <6>2. d = 1
            BY <5>1, <5>2, <6>1
          <6>3. 1 \in 1..d
            BY <6>2
          <6> QED BY <5>1, <5>2, <6>1, <6>2, <6>3
        <5>4. x = c /\ x = B + 1
          BY <1>8, <4>2, <5>3
        <5>5. B # 0
          <6>1. i - 1 \in 1..n /\ e[i - 1] <= B
            BY <1>2, <5>1 DEF B
          <6>2. Begin(p, e, i - 1) < e[i - 1] /\ Begin(p, e, i - 1) \in Nat /\ e[i - 1] \in Nat
            BY <1>2, <6>1
          <6> QED BY <1>8, <6>1, <6>2
        <5>6. t[B] = "/"
          BY <1>19, <3>4, <4>1, <5>5
        <5>7. x - 1 = B /\ x # 1
          BY <1>8, <5>4, <5>5
        <5> QED BY <2>0, <5>3, <5>4, <5>6, <5>7
      <4> QED BY <4>4, <4>5
    <3>5. CASE i < j
      <4>1. i \in 0..n /\ j - 1 \in 0..n /\ i <= j - 1
        BY <1>2, <3>2, <3>5
      <4>2. e[i] <= e[j - 1] /\ e[j - 1] <= b[j] /\ e[i] \in Nat /\ e[j - 1] \in Nat /\ b[j] \in Nat
        BY <1>2, <3>2, <4>1
      <4>3. c <= b[j]
        BY <1>3, <1>8, <4>2
      <4>4. b[j] < x
        BY <1>7, <3>1, <3>2
      <4> QED BY <1>8, <4>2, <4>3, <4>4
    <3>6. i \in Int /\ j \in Int
      BY <3>2
    <3> QED BY <3>3, <3>4, <3>5, <3>6
  <2> QED BY <1>19, <2>0, <2>1, <2>2
<1>23. q[1] = Root <=> u # <<>> /\ u[1] = "/"
  <2>1. 1 \in 1..k /\ 1 \in 1..c
    BY <1>8, <1>11, <1>2
  <2>2. q[1] = Root <=> p[1] = Root
    BY <1>15, <2>1
  <2>3. u # <<>> /\ t # <<>> /\ u[1] = t[1]
    BY <1>2, <1>4, <2>1
  <2> QED BY <1>19, <2>2, <2>3
<1>24. Spells(u, q, a)
  <2>1. u \in Texts
    BY <1>4 DEF Texts
  <2> QED BY <1>4, <1>18, <1>20, <1>21, <1>22, <1>23, <2>1 DEF Spells
<1>25. From(u) = q
  BY <1>16, <1>24, FromIs
<1>26. PICK f : Laid(TextOf(q), q, f)
  BY <1>16, TextLaid
<1>27. IsPrefix(TextOf(q), t)
  <2>1. Len(q) <= Len(p)
    BY <1>2, <1>11, <1>14 DEF n
  <2>2. \A j \in 1..Len(q) : j # Len(q) => q[j] = p[j]
    <3>1. \A j \in 1..k : j # k => j # i
      BY <1>2, <1>11
    <3> QED BY <1>12, <1>14, <3>1
  <2>3. k \in 1..k
    BY <1>11
  <2>4. Len(q[Len(q)]) <= Len(p[Len(q)]) /\ \A m \in 1..Len(q[Len(q)]) : q[Len(q)][m] = p[Len(q)][m]
    BY <1>14, <1>15, <2>3
  <2>5. Laid(t, p, e)
    BY <1>1 DEF t
  <2> QED BY <1>16, <1>26, <2>1, <2>2, <2>4, <2>5, PrefixLaid
<1> QED BY <1>25, <1>27 DEF u, t

-----------------------------------------------------------------------------
(* What is read is what was found.                                         *)

\* A text without blanks around it; what is left of it has one at most at its end.
LEMMA TrimmedCut ==
  ASSUME NEW t \in Texts, t # <<>>, Trimmed(t) = t, NEW m \in 1..Len(t)
  PROVE  \E i \in 1..m : Trimmed(SubSeq(t, 1, m)) = SubSeq(t, 1, i)
<1> DEFINE dark(s) == {i \in 1..Len(s) : s[i] # Blank}
           u == SubSeq(t, 1, m)
<1>1. t \in Seq(Characters) /\ Len(t) \in Nat /\ m \in Nat /\ m <= Len(t) /\ Len(t) >= 1
  BY DEF Texts
<1>2. u \in Seq(Characters) /\ Len(u) = m /\ \A i \in 1..m : u[i] = t[i]
  BY <1>1, CutIs
<1> HIDE DEF u
<1>3. ASSUME NEW s \in Seq(Characters), dark(s) # {}
      PROVE  /\ Min(dark(s)) \in dark(s) /\ Max(dark(s)) \in dark(s)
             /\ \A i \in dark(s) : Min(dark(s)) <= i /\ i <= Max(dark(s))
             /\ Trimmed(s) = SubSeq(s, Min(dark(s)), Max(dark(s)))
  <2> DEFINE D == dark(s)
  <2>1. D \subseteq 1..Len(s) /\ Len(s) \in Nat
    OBVIOUS
  <2>2. IsFiniteSet(1..Len(s)) /\ 1..Len(s) \subseteq Int
    BY <2>1, FS_Interval
  <2>3. Trimmed(s) = IF D = {} THEN <<>> ELSE SubSeq(s, Min(D), Max(D))
    BY DEF Trimmed
  <2> HIDE DEF D
  <2>4. D # {}
    BY <1>3 DEF D
  <2>5. IsFiniteSet(D) /\ D \subseteq Int
    BY <2>1, <2>2, FS_Subset
  <2>6. Min(D) \in D /\ Max(D) \in D /\ \A i \in D : Min(D) <= i /\ i <= Max(D)
    BY <2>4, <2>5, Extremes
  <2>7. Trimmed(s) = SubSeq(s, Min(D), Max(D))
    BY <2>3, <2>4
  <2> QED BY <2>6, <2>7 DEF D
<1>4. dark(t) # {}
  <2>1. Trimmed(t) = IF dark(t) = {} THEN <<>> ELSE SubSeq(t, Min(dark(t)), Max(dark(t)))
    BY DEF Trimmed
  <2> HIDE DEF dark
  <2> QED BY <2>1
<1>5. t[1] # Blank
  <2> DEFINE lo == Min(dark(t))
             hi == Max(dark(t))
  <2>1. lo \in dark(t) /\ hi \in dark(t) /\ Trimmed(t) = SubSeq(t, lo, hi)
    BY <1>1, <1>3, <1>4
  <2> HIDE DEF lo, hi
  <2>2. lo \in 1..Len(t) /\ hi \in 1..Len(t) /\ t[lo] # Blank
    BY <2>1
  <2>3. Len(SubSeq(t, lo, hi)) = IF lo <= hi THEN hi - lo + 1 ELSE 0
    BY <1>1, <2>2
  <2>4. Len(t) = IF lo <= hi THEN hi - lo + 1 ELSE 0
    BY <2>1, <2>3
  <2>5. lo = 1
    BY <1>1, <2>2, <2>4
  <2> QED BY <2>2, <2>5
<1>6. 1 \in dark(u)
  <2>1. 1 \in 1..m
    BY <1>1
  <2> QED BY <1>2, <1>5, <2>1
<1> DEFINE lo == Min(dark(u))
           hi == Max(dark(u))
<1>7. /\ lo \in dark(u) /\ hi \in dark(u) /\ lo <= 1 /\ Trimmed(u) = SubSeq(u, lo, hi)
  BY <1>2, <1>3, <1>6
<1> HIDE DEF lo, hi
<1>8. lo = 1 /\ hi \in 1..m
  BY <1>1, <1>2, <1>7
<1>9. SubSeq(u, 1, hi) = SubSeq(t, 1, hi)
  <2> DEFINE v == SubSeq(u, 1, hi)
             w == SubSeq(t, 1, hi)
  <2>1. hi \in Nat /\ hi <= Len(t) /\ hi <= Len(u) /\ \A i \in 1..hi : i \in 1..m
    BY <1>1, <1>2, <1>8
  <2>2. v \in Seq(Characters) /\ Len(v) = hi /\ \A i \in 1..hi : v[i] = u[i]
    BY <1>2, <2>1, CutIs
  <2>3. w \in Seq(Characters) /\ Len(w) = hi /\ \A i \in 1..hi : w[i] = t[i]
    BY <1>1, <2>1, CutIs
  <2> HIDE DEF v, w
  <2>4. v = w
    BY <1>2, <2>1, <2>2, <2>3
  <2> QED BY <2>4 DEF v, w
<1> QED BY <1>7, <1>8, <1>9 DEF u

\* The text report's reader strips blanks around a path.
NoBlanksAround(p) == Trimmed(to_escaped_string(p)) = to_escaped_string(p)

\* Path::from_escaped_string undoes Path::to_escaped_string.
LEMMA EscapedPath ==
  ASSUME NEW p, IsPath(p)
  PROVE  /\ to_escaped_string(p) \in Texts /\ to_escaped_string(p) # <<>>
         /\ from_escaped_string(to_escaped_string(p)) = p
<1> DEFINE s == TextOf(p)
<1>1. s \in Texts /\ s # <<>> /\ From(s) = p
  BY PathReturns
<1> HIDE DEF s
<1>2. to_stfu8(s) \in Texts /\ from_stfu8(to_stfu8(s)) = s
  BY <1>1, EscapesTyped, EscapedReturns
<1>3. s # Failed
  BY <1>1, TextsAssumption
<1>4. to_stfu8(s) # <<>>
  <2>1. <<>> \in Texts
    BY DEF Texts
  <2>2. to_stfu8(<<>>) = <<>>
    <3> DEFINE gs == [i \in 1..0 |-> CASE <<>>[i] = Backslash -> <<Backslash, Backslash>>
                                     [] <<>>[i] = Newline   -> <<Backslash, "n">>
                                     [] OTHER               -> <<<<>>[i]>>]
    <3>1. to_stfu8(<<>>) = FlattenSeq(gs)
      BY DEF to_stfu8
    <3>2. gs = <<>> /\ Len(gs) = 0
      OBVIOUS
    <3> HIDE DEF gs
    <3> QED BY <3>1, <3>2 DEF FlattenSeq
  <2>3. from_stfu8(<<>>) = <<>>
    BY <2>1, <2>2, EscapedReturns
  <2> QED BY <1>1, <1>2, <2>3
<1> QED BY <1>1, <1>2, <1>3, <1>4 DEF to_escaped_string, from_escaped_string, s

\* A path comes back from a line of the report.
LEMMA PathsReturn ==
  ASSUME Format \in {"default", "json"}, NEW p, IsPath(p), Format = "default" => NoBlanksAround(p)
  PROVE  Reads(PathLine(p)) = p
<1>1. PathLine(p).kind = "path" /\ PathLine(p).field = to_escaped_string(p)
  BY DEF PathLine
<1>2. to_escaped_string(p) # <<>> /\ from_escaped_string(to_escaped_string(p)) = p
  BY EscapedPath
<1>3. CASE Format = "json"
  BY <1>1, <1>2, <1>3 DEF Reads, JsonPath
<1>4. CASE Format = "default"
  <2>1. path_in(PathLine(p)) = p
    BY <1>1, <1>2, <1>4 DEF path_in, NoBlanksAround
  <2> QED BY <1>4, <2>1 DEF Reads
<1> QED BY <1>3, <1>4

\* From a line that was cut off comes a path whose text is a prefix of the one that was written.
LEMMA CutPathsReturn ==
  ASSUME NEW p, IsPath(p), NoBlanksAround(p), NEW cut \in CutLines(PathLine(p)), path_in(cut) # Failed
  PROVE  IsPrefix(TextOf(path_in(cut)), TextOf(p))
<1> DEFINE s == TextOf(p)
           t == to_stfu8(s)
<1>1. s \in Texts /\ t \in Texts /\ t # <<>> /\ Trimmed(t) = t
  BY PathReturns, EscapedPath DEF NoBlanksAround, to_escaped_string
<1>2. PathLine(p) = [kind |-> "path", field |-> t]
  BY DEF PathLine, to_escaped_string
<1> HIDE DEF t
<1>3. PICK m \in 0..(Len(t) - 1) : cut.kind = "path" /\ cut.field = SubSeq(t, 1, m)
  BY <1>2 DEF CutLines
<1>4. Len(t) \in Nat
  BY <1>1 DEF Texts
<1>5. Trimmed(cut.field) # <<>> /\ path_in(cut) = from_escaped_string(Trimmed(cut.field))
  BY <1>3 DEF path_in
<1>6. m # 0
  <2>1. ASSUME m = 0 PROVE FALSE
    <3>1. SubSeq(t, 1, 0) = <<>>
      BY <1>1 DEF Texts
    <3>2. Trimmed(<<>>) = <<>>
      BY DEF Trimmed
    <3> QED BY <1>3, <1>5, <2>1, <3>1, <3>2
  <2> QED BY <2>1
<1>7. m \in 1..Len(t)
  BY <1>4, <1>6
<1>8. PICK i \in 1..m : Trimmed(cut.field) = SubSeq(t, 1, i)
  BY <1>1, <1>3, <1>7, TrimmedCut
<1>9. i \in 1..Len(t)
  BY <1>4, <1>7
<1>10. from_stfu8(SubSeq(t, 1, i)) \in {Failed} \cup {SubSeq(s, 1, c) : c \in 1..Len(s)}
  BY <1>1, <1>9, EscapedReturns DEF t
<1> DEFINE d == from_stfu8(SubSeq(t, 1, i))
<1>11. d # Failed /\ path_in(cut) = From(d)
  BY <1>5, <1>8 DEF from_escaped_string
<1> HIDE DEF d
<1>12. PICK c \in 1..Len(s) : d = SubSeq(s, 1, c)
  BY <1>10, <1>11 DEF d
<1> QED BY <1>11, <1>12, CutReturns

\* Sequences with the same members are the same.
LEMMA SameSequence ==
  ASSUME NEW S, NEW t \in Seq(S), NEW s, Proper(s), Len(s) = Len(t), \A j \in 1..Len(t) : s[j] = t[j]
  PROVE  s = t
<1> DEFINE M == ToSet(s)
<1>1. s \in Seq(M)
  BY DEF Proper
<1> HIDE DEF M
<1> QED BY <1>1

\* A sequence but for its last member.
LEMMA FrontIs ==
  ASSUME NEW s, Proper(s), Len(s) >= 1
  PROVE  Proper(Front(s)) /\ Len(Front(s)) = Len(s) - 1 /\ \A j \in 1..(Len(s) - 1) : Front(s)[j] = s[j]
<1> DEFINE M == ToSet(s)
<1>1. s \in Seq(M) /\ Len(s) \in Nat
  BY ProperIs DEF Proper
<1> HIDE DEF M
<1> DEFINE m == Len(s) - 1
<1>2. m \in Nat /\ m <= Len(s)
  BY <1>1
<1> HIDE DEF m
<1>3. SubSeq(s, 1, m) \in Seq(M) /\ Len(SubSeq(s, 1, m)) = m /\ \A j \in 1..m : SubSeq(s, 1, m)[j] = s[j]
  BY <1>1, <1>2, CutIs
<1>4. Front(s) = SubSeq(s, 1, m)
  BY DEF Front, m
<1> QED BY <1>3, <1>4, ProperIs DEF m

\* A name that has no blanks around it, in a text report.
TextNamesPlain == Format = "default" => \A p \in Files : NoBlanksAround(p)

\* The invariant with this assumption implies that what was found is what is read.
LEMMA FoundIsRead ==
  ASSUME Typed, Writes, Reading, TextNamesPlain
  PROVE  ReadsWhatWasFound
<1> SUFFICES ASSUME NEW i \in 1..Len(read)
             PROVE  \/ read[i] = found[i]
                    \/ /\ stage = "failed" /\ next = Len(lines) /\ i = Len(read)
                       /\ read[i].len = found[i].len
                       /\ Front(read[i].files) = Front(found[i].files)
                       /\ IsPrefix(TextOf(Last(read[i].files)), TextOf(Last(found[i].files)))
  BY DEF ReadsWhatWasFound
<1> DEFINE g == read[i]
           G == found[i]
           n == Len(G.files)
<1>1. Informed /\ Positioned /\ GroupRead(i) /\ Proper(read) /\ Len(read) \in Nat
  BY ProperIs DEF Reading, Active
<1>2. Format \in {"default", "json"}
  BY <1>1 DEF Informed
<1>3. found \in GroupsOf(Files) /\ \A p \in Files : IsPath(p) /\ (Format = "default" => NoBlanksAround(p))
  BY ScenarioIs DEF Typed, TextNamesPlain
<1>4. i \in 1..Len(found)
  <2>1. Len(read) \in 0..Len(found) /\ Len(found) \in Nat
    <3>1. Len(found) \in Nat
      BY <1>3 DEF GroupsOf
    <3> QED BY <1>1, <3>1 DEF Positioned
  <2> QED BY <1>1, <2>1
<1>5. G \in [len : Nat, files : Seq(Files)]
  <2> DEFINE X == [len : Nat, files : Seq(Files)]
  <2>1. found \in Seq(X)
    BY <1>3 DEF GroupsOf
  <2> HIDE DEF X
  <2>2. found[i] \in X
    BY <1>4, <2>1
  <2> QED BY <2>2 DEF X
<1>6. /\ G = [len |-> G.len, files |-> G.files] /\ G.files \in Seq(Files) /\ n \in Nat
      /\ \A j \in 1..n : G.files[j] \in Files
  BY <1>5
<1>7. /\ g = [len |-> g.len, files |-> g.files] /\ g.len = G.len /\ Proper(g.files) /\ Len(g.files) = n
      /\ (Format = "default" => \A j \in 1..n : g.files[j] # Failed)
      /\ \A j \in 1..n : \/ PathRead(g.files[j], G.files[j])
                         \/ CutOff(i, j) /\ CutRead(g.files[j], G.files[j])
  BY <1>1 DEF GroupRead
<1> HIDE DEF g, G
<1>8. \A j \in 1..n : PathRead(g.files[j], G.files[j]) => g.files[j] = G.files[j]
  BY <1>2, <1>3, <1>6, PathsReturn DEF PathRead
<1>9. CASE \A j \in 1..n : g.files[j] = G.files[j]
  <2>1. g.files = G.files
    BY <1>6, <1>7, <1>9, SameSequence
  <2>2. g = G
    BY <1>6, <1>7, <2>1
  <2> QED BY <2>2 DEF g, G
<1>10. CASE ~\A j \in 1..n : g.files[j] = G.files[j]
  <2>1. PICK k \in 1..n : CutOff(i, k) /\ CutRead(g.files[k], G.files[k])
    BY <1>7, <1>8, <1>10
  <2>2. stage = "failed" /\ next = Len(lines) /\ i = Len(read) /\ k = n /\ n >= 1
    BY <1>6, <2>1 DEF CutOff, G
  <2>3. \A j \in 1..n : j # n => g.files[j] = G.files[j]
    BY <1>7, <1>8 DEF CutOff, G
  <2>4. Front(g.files) = Front(G.files)
    <3>1. Proper(G.files)
      BY <1>6, ProperIs
    <3>2. /\ Proper(Front(g.files)) /\ Len(Front(g.files)) = n - 1
          /\ \A j \in 1..(n - 1) : Front(g.files)[j] = g.files[j]
      BY <1>7, <2>2, FrontIs
    <3>3. /\ Proper(Front(G.files)) /\ Len(Front(G.files)) = n - 1
          /\ \A j \in 1..(n - 1) : Front(G.files)[j] = G.files[j]
      BY <2>2, <3>1, FrontIs
    <3>4. \A j \in 1..(n - 1) : j \in 1..n /\ j # n
      BY <1>6
    <3>5. \A j \in 1..(n - 1) : Front(g.files)[j] = Front(G.files)[j]
      BY <2>3, <3>2, <3>3, <3>4
    <3> DEFINE M == ToSet(Front(G.files))
    <3>6. Front(G.files) \in Seq(M)
      BY <3>3 DEF Proper
    <3> HIDE DEF M
    <3> QED BY <3>2, <3>3, <3>5, <3>6, SameSequence
  <2>5. IsPrefix(TextOf(g.files[n]), TextOf(G.files[n]))
    <3>1. Format = "default" /\ \E cut \in CutLines(PathLine(G.files[n])) : g.files[n] = path_in(cut)
      BY <2>1, <2>2 DEF CutRead
    <3>2. g.files[n] # Failed /\ G.files[n] \in Files
      BY <1>6, <1>7, <2>2, <3>1
    <3> QED BY <1>3, <3>1, <3>2, CutPathsReturn
  <2>6. Last(g.files) = g.files[n] /\ Last(G.files) = G.files[n]
    BY <1>7 DEF Last
  <2> QED BY <1>7, <2>2, <2>4, <2>5, <2>6 DEF g, G
<1> QED BY <1>9, <1>10

\* Of the report: where no name has blanks around it that the text reader would strip, the groups
\* read are those found, file by file, but for the last path of a report that ends in the middle.
THEOREM ReadsBack == Spec => [](TextNamesPlain => ReadsWhatWasFound)
<1>1. IInv => (TextNamesPlain => ReadsWhatWasFound)
  BY FoundIsRead DEF IInv
<1> QED BY <1>1, Invariant, PTL

\* dedupe.rs, partition: if the report was not cut off, only files are dropped that were found in the
\* group. Not so for a path that was cut off, of which the rest may be the path of another file.
THEOREM DroppedFound == Spec => [](TextNamesPlain /\ stage # "failed" => DroppedWereFound)
<1>1. IInv => (TextNamesPlain /\ stage # "failed" => DroppedWereFound)
  <2> SUFFICES ASSUME IInv, TextNamesPlain, stage # "failed", NEW i \in 1..Len(decided)
               PROVE  ToSet(decided[i].drop) \subseteq ToSet(found[i].files)
    BY DEF DroppedWereFound
  <2> DEFINE b == decided[i].drop
  <2>1. read[i] = found[i]
    <3>1. Len(decided) = Len(read)
      BY DEF IInv, Reading
    <3>2. ReadsWhatWasFound
      BY FoundIsRead DEF IInv
    <3> QED BY <3>1, <3>2 DEF ReadsWhatWasFound
  <2>2. CASE b = <<>>
    <3>1. b \in Seq({})
      BY <2>2
    <3> QED BY <3>1, ToSetIs DEF b
  <2>3. CASE b # <<>>
    <3> DEFINE M == ToSet(Candidates(read[i]))
    <3>1. b \in Seq(M) /\ M \subseteq ToSet(read[i].files)
      BY <2>3, DroppedIs DEF IInv
    <3> HIDE DEF M, b
    <3>2. ToSet(b) \subseteq M
      BY <3>1, ToSetIs
    <3> QED BY <2>1, <3>1, <3>2 DEF b
  <2> QED BY <2>2, <2>3
<1> QED BY <1>1, Invariant, PTL

-----------------------------------------------------------------------------
(* The base directory.                                                     *)

\* The members of a finite set of numbers, by their number from below.
LEMMA Counted ==
  ASSUME NEW S, S \subseteq Int, IsFiniteSet(S)
  PROVE  /\ Cardinality(S) \in Nat
         /\ \A k \in 1..Cardinality(S) : \E i \in S : Cardinality({j \in S : j <= i}) = k
<1> DEFINE Upto(i) == {j \in S : j <= i}
           below == [i \in S |-> Upto(i)]
<1>1. \A i \in S : below[i] = Upto(i)
  OBVIOUS
<1>2. Nested(S, below)
  <2>1. below \in [S -> SUBSET S]
    OBVIOUS
  <2>2. \A i \in S : i \in Int
    OBVIOUS
  <2>3. \A i, j \in S : i \in Upto(i) /\ (i < j => Upto(i) \subseteq Upto(j) /\ j \notin Upto(i))
    <3>1. \A i, j, k \in S : i < j => ~(j <= i) /\ (k <= i => k <= j) /\ i <= i
      BY <2>2
    <3>2. \A i \in S : i <= i
      BY <2>2
    <3> QED BY <3>1, <3>2
  <2>4. \A i, j \in S : i # j => i < j \/ j < i
    BY <2>2
  <2> HIDE DEF below, Upto
  <2> QED BY <1>1, <2>1, <2>3, <2>4 DEF Nested
<1> HIDE DEF below, Upto
<1>3. Ranked(S, below)
  BY <1>2, Ranks
<1> QED BY <1>1, <1>3 DEF Ranked, Upto

\* path.rs, Path::from: what comes from a text is a path: names without separators, dots only in front.
THEOREM FromPath ==
  ASSUME NEW t \in Texts
  PROVE  IsPath(From(t))
<1> DEFINE starts == {i \in 1..Len(t) : t[i] # "/" /\ (i = 1 \/ t[i - 1] = "/")}
           rest(i) == {j \in i..(Len(t) + 1) : j > Len(t) \/ t[j] = "/"}
           end(i) == Min(rest(i)) - 1
           name == [i \in starts |-> SubSeq(t, i, end(i))]
           kept == {i \in starts : name[i] # CurDir \/ i = 1}
           upTo(i) == {j \in kept : j <= i}
           at(k) == CHOOSE i \in kept : Cardinality(upTo(i)) = k
           n == Cardinality(kept)
           relative == [k \in 1..n |-> name[at(k)]]
           rooted == IF t # <<>> /\ t[1] = "/" THEN <<Root>> ELSE <<>>
<1>1. From(t) = IF rooted \o relative = <<>> THEN <<CurDir>> ELSE rooted \o relative
  BY DEF From
<1>2. t \in Seq(Characters) /\ Len(t) \in Nat
  BY DEF Texts
<1>3. ASSUME NEW i \in starts
      PROVE  /\ name[i] \in Texts /\ name[i] # <<>> /\ \A m \in 1..Len(name[i]) : name[i][m] # "/"
  <2>1. i \in 1..Len(t) /\ t[i] # "/" /\ name[i] = SubSeq(t, i, end(i))
    OBVIOUS
  <2> DEFINE R == rest(i)
  <2>2. Len(t) + 1 \in R
    BY <1>2, <2>1
  <2>3. R \subseteq i..(Len(t) + 1) /\ i..(Len(t) + 1) \subseteq Int /\ IsFiniteSet(i..(Len(t) + 1))
    <3>1. i \in Int /\ Len(t) + 1 \in Int
      BY <1>2, <2>1
    <3>2. IsFiniteSet(i..(Len(t) + 1))
      BY <3>1, FS_Interval
    <3>3. R \subseteq i..(Len(t) + 1)
      OBVIOUS
    <3>4. i..(Len(t) + 1) \subseteq Int
      BY <3>1
    <3> HIDE DEF R
    <3> QED BY <3>2, <3>3, <3>4
  <2>4. \A j \in R : j > Len(t) \/ t[j] = "/"
    OBVIOUS
  <2>5. \A j \in i..(Len(t) + 1) : (j > Len(t) \/ t[j] = "/") => j \in R
    OBVIOUS
  <2>6. end(i) = Min(R) - 1
    OBVIOUS
  <2> HIDE DEF R, name, end, starts
  <2>7. Min(R) \in R /\ \A j \in R : Min(R) <= j
    <3>1. IsFiniteSet(R) /\ R \subseteq Int /\ R # {}
      BY <2>2, <2>3, FS_Subset
    <3> QED BY <3>1, Extremes
  <2> DEFINE x == Min(R)
  <2>8. x \in i..(Len(t) + 1) /\ (x > Len(t) \/ t[x] = "/") /\ \A j \in R : x <= j
    BY <2>3, <2>4, <2>7
  <2> HIDE DEF x
  <2>9. x > i /\ x - 1 \in i..Len(t)
    BY <1>2, <2>1, <2>8
  <2>10. \A j \in i..(x - 1) : t[j] # "/"
    <3> SUFFICES ASSUME NEW j \in i..(x - 1), t[j] = "/" PROVE FALSE
      OBVIOUS
    <3>1. j \in i..(Len(t) + 1) /\ ~(x <= j)
      <4>1. x \in Int /\ i \in Int /\ Len(t) \in Int /\ j \in Int /\ i <= j /\ j <= x - 1 /\ x <= Len(t) + 1
        BY <1>2, <2>1, <2>8
      <4> QED BY <4>1
    <3> QED BY <2>5, <2>8, <3>1
  <2> DEFINE y == x - 1
             u == SubSeq(t, i, y)
  <2>11. name[i] = u /\ y \in i..Len(t) /\ \A j \in i..y : t[j] # "/"
    BY <2>1, <2>6, <2>9, <2>10 DEF x
  <2> HIDE DEF y
  <2>12. u \in Seq(Characters) /\ Len(u) = y - i + 1 /\ \A m \in 1..(y - i + 1) : u[m] = t[i + m - 1]
    BY <1>2, <2>1, <2>11
  <2> HIDE DEF u
  <2>13. \A m \in 1..(y - i + 1) : i + m - 1 \in i..y
    BY <1>2, <2>1, <2>11
  <2>14. y - i + 1 >= 1
    BY <1>2, <2>1, <2>11
  <2>15. u # <<>>
    BY <2>12, <2>14
  <2> QED BY <2>11, <2>12, <2>13, <2>15 DEF Texts
<1>4. kept \subseteq starts /\ starts \subseteq 1..Len(t) /\ \A i \in kept : i # 1 => name[i] # CurDir
  OBVIOUS
<1>5. rooted = <<Root>> => 1 \notin starts
  OBVIOUS
<1>r. /\ rooted \in {<<>>, <<Root>>}
  OBVIOUS
<1>6. IsFiniteSet(kept) /\ kept \subseteq Int
  <2> HIDE DEF kept, starts
  <2>1. IsFiniteSet(1..Len(t)) /\ 1..Len(t) \subseteq Int
    BY <1>2, FS_Interval
  <2> QED BY <1>4, <2>1, FS_Subset
<1>k. \A i \in kept : i \in Int /\ i >= 1
  BY <1>2, <1>4
<1> HIDE DEF starts, kept, name, rooted
<1>7. n \in Nat /\ \A k \in 1..n : at(k) \in kept /\ Cardinality(upTo(at(k))) = k
  <2>1. n \in Nat /\ \A k \in 1..n : \E i \in kept : Cardinality(upTo(i)) = k
    BY <1>6, Counted
  <2> QED BY <2>1
<1>8. \A k \in 1..n : k # 1 => at(k) # 1
  <2> SUFFICES ASSUME NEW k \in 1..n, at(k) = 1 PROVE k = 1
    OBVIOUS
  <2>1. upTo(1) = {1}
    <3>1. 1 \in kept
      BY <1>7
    <3>2. \A j \in kept : j <= 1 => j = 1
      BY <1>k
    <3> QED BY <3>1, <3>2
  <2>2. Cardinality({1}) = 1
    BY FS_Singleton
  <2>3. Cardinality(upTo(at(k))) = k
    BY <1>7
  <2> HIDE DEF upTo, at
  <2> QED BY <2>1, <2>2, <2>3
<1> HIDE DEF upTo, at, n
<1>9. /\ relative \in Seq(Texts) /\ Len(relative) = n
      /\ \A k \in 1..n : /\ relative[k] # <<>> /\ (\A m \in 1..Len(relative[k]) : relative[k][m] # "/")
                         /\ relative[k] = CurDir => k = 1 /\ rooted # <<Root>>
  <2>1. \A k \in 1..n : relative[k] = name[at(k)] /\ at(k) \in starts
    BY <1>4, <1>7
  <2>2. \A k \in 1..n : relative[k] \in Texts
    BY <1>3, <2>1
  <2>3. relative \in Seq(Texts) /\ Len(relative) = n
    BY <1>7, <2>2
  <2>4. ASSUME NEW k \in 1..n, relative[k] = CurDir PROVE k = 1 /\ rooted # <<Root>>
    <3>1. at(k) \in kept /\ at(k) \in starts /\ name[at(k)] = CurDir
      BY <1>7, <2>1, <2>4
    <3>2. at(k) = 1
      BY <1>4, <3>1
    <3> HIDE DEF relative
    <3> QED BY <1>5, <1>8, <3>1, <3>2
  <2> HIDE DEF relative
  <2> QED BY <1>3, <2>1, <2>3, <2>4
<1> HIDE DEF relative
<1>s. \A k \in 1..n : relative[k] # Root
  <2> SUFFICES ASSUME NEW k \in 1..n, relative[k] = Root PROVE FALSE
    OBVIOUS
  <2>1. 1 \in 1..Len(Root) /\ Root[1] = "/"
    BY DEF Root
  <2> QED BY <1>9, <2>1
<1>c. <<CurDir>> \in Path /\ IsPath(<<CurDir>>) /\ Root \in Texts
  <2>1. CurDir \in Texts /\ Root \in Texts /\ CurDir # <<>> /\ Len(CurDir) = 1 /\ CurDir[1] = "."
    BY TextsAssumption DEF CurDir, Root, Texts
  <2>2. <<CurDir>> \in Path /\ Len(<<CurDir>>) = 1 /\ <<CurDir>>[1] = CurDir
    BY <2>1 DEF Path
  <2>3. \A m \in 1..Len(CurDir) : CurDir[m] # "/"
    BY <2>1
  <2> DEFINE q == <<CurDir>>
  <2>4. q # <<>>
    OBVIOUS
  <2> HIDE DEF q
  <2>5. IsPath(q)
    BY <2>1, <2>2, <2>3, <2>4 DEF IsPath, q
  <2> QED BY <2>1, <2>2, <2>5 DEF q
<1>10. CASE rooted = <<>>
  <2>1. rooted \o relative = relative
    BY <1>9, <1>10
  <2>2. relative # <<>> => IsPath(relative)
    BY <1>9, <1>s DEF IsPath, Path
  <2> QED BY <1>1, <1>c, <2>1, <2>2
<1>11. CASE rooted = <<Root>>
  <2> DEFINE r == <<Root>>
             w == r \o relative
  <2>1. r \in Seq(Texts) /\ Len(r) = 1 /\ r[1] = Root
    BY <1>c
  <2> HIDE DEF r
  <2>2. w \in Seq(Texts) /\ Joins(w, r, relative)
    BY <1>9, <2>1, ConcatPlaces
  <2>3. Len(w) = 1 + n /\ w[1] = Root /\ \A k \in 1..n : w[1 + k] = relative[k]
    BY <1>9, <2>1, <2>2 DEF Joins
  <2>4. rooted \o relative = w
    BY <1>11 DEF r
  <2> HIDE DEF w
  <2>5. \A k \in 1..Len(w) : k = 1 \/ (k - 1 \in 1..n /\ w[k] = relative[k - 1])
    <3> SUFFICES ASSUME NEW k \in 1..Len(w), k # 1 PROVE k - 1 \in 1..n /\ w[k] = relative[k - 1]
      OBVIOUS
    <3>1. k - 1 \in 1..n /\ 1 + (k - 1) = k
      BY <1>7, <2>3
    <3> QED BY <2>3, <3>1
  <2>6. w # <<>>
    BY <1>7, <2>3
  <2>7. \A k \in 1..Len(w) : k # 1 => w[k] # Root /\ w[k] # CurDir /\ w[k] # <<>>
                                       /\ \A m \in 1..Len(w[k]) : w[k][m] # "/"
    BY <1>9, <1>11, <1>s, <2>5
  <2>8. IsPath(w)
    BY <2>2, <2>3, <2>6, <2>7 DEF IsPath, Path
  <2> QED BY <1>1, <2>4, <2>6, <2>8
<1> QED BY <1>r, <1>10, <1>11

\* A directory from the root, without dots, and one with dots.
Canonical(p) == IsPath(p) /\ p[1] = Root
IsName(name) == name \in Texts /\ name # <<>> /\ \A m \in 1..Len(name) : name[m] # "/"
FromRoot(p) == p \in Path /\ p # <<>> /\ p[1] = Root /\ \A i \in 1..Len(p) : i # 1 => IsName(p[i])

\* The root is no name.
LEMMA NoName ==
  /\ ~IsName(Root) /\ Root \in Texts /\ Canonical(<<Root>>) /\ Root # CurDir /\ Root # ParentDir
<1>1. Len(Root) = 1 /\ Root[1] = "/" /\ Root \in Texts
  BY TextsAssumption DEF Root, Texts
<1>2. ~IsName(Root)
  <2>1. 1 \in 1..Len(Root)
    BY <1>1
  <2> QED BY <1>1, <2>1 DEF IsName
<1> DEFINE r == <<Root>>
<1>3. r \in Seq(Texts) /\ Len(r) = 1 /\ r[1] = Root /\ r # <<>>
  BY <1>1
<1> HIDE DEF r
<1>4. Canonical(r)
  BY <1>3 DEF Canonical, IsPath, Path
<1>5. Root # CurDir /\ Root # ParentDir
  <2>1. CurDir[1] = "." /\ ParentDir[1] = "."
    BY DEF CurDir, ParentDir
  <2> QED BY <1>1, <2>1
<1> QED BY <1>1, <1>2, <1>4, <1>5 DEF r

\* Entering a directory gives a path from the root without dots.
LEMMA EnterIs ==
  ASSUME NEW dir, Canonical(dir), NEW name, IsName(name)
  PROVE  Canonical(Enter(dir, name))
<1>1. /\ dir \in Seq(Texts) /\ dir # <<>> /\ dir[1] = Root /\ Len(dir) \in Nat /\ Len(dir) >= 1
      /\ \A i \in 1..Len(dir) : i # 1 => dir[i] # Root /\ dir[i] # CurDir
      /\ \A i \in 1..Len(dir) : dir[i] # Root => dir[i] # <<>> /\ \A m \in 1..Len(dir[i]) : dir[i][m] # "/"
  BY DEF Canonical, IsPath, Path
<1>2. CASE name = CurDir
  <2>1. CurDir # ParentDir
    <3>1. Len(CurDir) = 1 /\ Len(ParentDir) = 2
      BY DEF CurDir, ParentDir
    <3> QED BY <3>1
  <2>2. Enter(dir, name) = dir
    BY <1>2, <2>1 DEF Enter
  <2> QED BY <2>2
<1>3. CASE name # CurDir /\ name = ParentDir
  <2>1. Enter(dir, name) = IF dir = <<Root>> THEN dir ELSE Front(dir)
    BY <1>3 DEF Enter
  <2>2. CASE dir # <<Root>>
    <3>1. Len(dir) # 1
      <4>1. ASSUME Len(dir) = 1 PROVE FALSE
        <5>1. dir = <<dir[1]>>
          BY <1>1, <4>1
        <5> QED BY <1>1, <2>2, <5>1
      <4> QED BY <4>1
    <3> DEFINE m == Len(dir) - 1
               f == SubSeq(dir, 1, m)
    <3>2. m \in Nat /\ m >= 1 /\ m <= Len(dir)
      <4>1. \A a \in Nat : a >= 1 /\ a # 1 => a - 1 \in Nat /\ a - 1 >= 1 /\ a - 1 <= a
        OBVIOUS
      <4>2. Len(dir) \in Nat /\ Len(dir) >= 1
        BY <1>1
      <4> QED BY <3>1, <4>1, <4>2
    <3>3. Front(dir) = f
      BY DEF Front
    <3> HIDE DEF m
    <3>4. f \in Seq(Texts) /\ Len(f) = m /\ \A i \in 1..m : f[i] = dir[i] /\ i \in 1..Len(dir)
      BY <1>1, <3>2, CutIs
    <3> HIDE DEF f
    <3>5. f # <<>> /\ f[1] = Root
      BY <1>1, <3>2, <3>4
    <3>6. Canonical(f)
      BY <1>1, <3>4, <3>5 DEF Canonical, IsPath, Path
    <3> QED BY <2>1, <2>2, <3>3, <3>6
  <2> QED BY <2>1, <2>2
<1>4. CASE name # CurDir /\ name # ParentDir
  <2> DEFINE w == Append(dir, name)
             n == Len(dir)
  <2>1. w \in Seq(Texts) /\ Len(w) = n + 1 /\ w[n + 1] = name /\ \A i \in 1..n : w[i] = dir[i]
    BY <1>1 DEF IsName
  <2>2. Enter(dir, name) = w
    BY <1>4 DEF Enter
  <2> HIDE DEF w
  <2>3. name # Root
    BY NoName
  <2>4. w # <<>> /\ w[1] = Root
    BY <1>1, <2>1
  <2>5. \A i \in 1..(n + 1) : i \in 1..n \/ i = n + 1
    BY <1>1
  <2>6. \A i \in 1..Len(w) : i # 1 => w[i] # Root /\ w[i] # CurDir
    BY <1>1, <1>4, <2>1, <2>3, <2>5
  <2>7. \A i \in 1..Len(w) : w[i] # Root => w[i] # <<>> /\ \A m \in 1..Len(w[i]) : w[i][m] # "/"
    BY <1>1, <2>1, <2>5 DEF IsName
  <2>8. Canonical(w)
    BY <2>1, <2>4, <2>6, <2>7 DEF Canonical, IsPath, Path
  <2> QED BY <2>2, <2>8
<1> QED BY <1>2, <1>3, <1>4

\* fs::canonicalize gives a path from the root without dots.
LEMMA CanonicalIs ==
  ASSUME NEW p, FromRoot(p)
  PROVE  Canonical(canonicalize(p))
<1> DEFINE n == Len(p)
           X == {<<>>} \cup {d \in Path : Canonical(d)}
           Enters(g) == g = [k \in 0..n |-> IF k = 0 THEN <<>> ELSE Enter(g[k - 1], p[k])]
           f == CHOOSE g : Enters(g)
           step == [k \in 1..n |-> [d \in X |-> IF k = 1 \/ d = <<>> THEN <<Root>> ELSE Enter(d, p[k])]]
<1>1. /\ n \in Nat /\ n >= 1 /\ p[1] = Root /\ \A k \in 1..n : k # 1 => IsName(p[k])
  <2>1. p \in Seq(Texts) /\ p # <<>>
    BY DEF FromRoot, Path
  <2> QED BY <2>1 DEF FromRoot
<1>2. <<>> \in X /\ <<Root>> \in X /\ \A d : Canonical(d) => d \in X /\ d # <<>>
  <2>1. \A d : Canonical(d) => d \in Path /\ d # <<>>
    BY DEF Canonical, IsPath
  <2> QED BY <2>1, NoName
<1>3. \A d \in X : d # <<>> => Canonical(d)
  OBVIOUS
<1> HIDE DEF X, n
<1>4. \E g : Enters(g)
  <2>1. \A k \in 1..n, d \in X : (IF k = 1 \/ d = <<>> THEN <<Root>> ELSE Enter(d, p[k])) \in X
    <3> SUFFICES ASSUME NEW k \in 1..n, NEW d \in X, k # 1, d # <<>> PROVE Enter(d, p[k]) \in X
      BY <1>2
    <3>1. Canonical(Enter(d, p[k]))
      BY <1>1, <1>3, EnterIs
    <3> QED BY <1>2, <3>1
  <2>2. step \in [1..n -> [X -> X]]
    BY <2>1
  <2> HIDE DEF step
  <2>3. PICK g : Run(X, <<>>, n, step, g)
    BY <1>1, <1>2, <2>2, RunExists
  <2>4. /\ g \in [0..n -> X] /\ g[0] = <<>> /\ \A k \in 1..n : g[k] = step[k][g[k - 1]] /\ g[k - 1] \in X
    <3>1. g \in [0..n -> X] /\ g[0] = <<>> /\ \A k \in 1..n : g[k] = step[k][g[k - 1]]
      BY <2>3 DEF Run
    <3>2. \A k \in 1..n : k - 1 \in 0..n
      BY <1>1
    <3> QED BY <3>1, <3>2
  <2>5. \A k \in 1..n : g[k] = IF k = 1 \/ g[k - 1] = <<>> THEN <<Root>> ELSE Enter(g[k - 1], p[k])
    BY <2>4 DEF step
  <2>6. g[1] = <<Root>> /\ g[1] = Enter(g[1 - 1], p[1])
    <3>1. g[1] = <<Root>>
      <4>1. 1 \in 1..n
        BY <1>1
      <4> QED BY <2>5, <4>1
    <3>2. Enter(<<>>, Root) = Append(<<>>, Root)
      BY NoName DEF Enter
    <3>3. Append(<<>>, Root) = <<Root>>
      OBVIOUS
    <3>4. g[1 - 1] = <<>> /\ p[1] = Root
      BY <1>1, <2>4
    <3> QED BY <3>1, <3>2, <3>3, <3>4
  <2>7. \A k \in 1..n : g[k] # <<>>
    <3> SUFFICES ASSUME NEW k \in 1..n PROVE g[k] # <<>>
      OBVIOUS
    <3>1. CASE k = 1 \/ g[k - 1] = <<>>
      <4>1. g[k] = <<Root>>
        BY <2>5, <3>1
      <4> QED BY <4>1
    <3>2. CASE ~(k = 1 \/ g[k - 1] = <<>>)
      <4>1. g[k] = Enter(g[k - 1], p[k]) /\ Canonical(g[k - 1]) /\ IsName(p[k])
        BY <1>1, <1>3, <2>4, <2>5, <3>2
      <4>2. Canonical(g[k])
        BY <4>1, EnterIs
      <4> QED BY <1>2, <4>2
    <3> QED BY <3>1, <3>2
  <2>8. \A k \in 0..n : g[k] = IF k = 0 THEN <<>> ELSE Enter(g[k - 1], p[k])
    <3> SUFFICES ASSUME NEW k \in 0..n PROVE g[k] = IF k = 0 THEN <<>> ELSE Enter(g[k - 1], p[k])
      OBVIOUS
    <3>1. CASE k = 0
      BY <2>4, <3>1
    <3>2. CASE k = 1
      BY <2>6, <3>2
    <3>3. CASE k # 0 /\ k # 1
      <4>1. k \in 1..n /\ k - 1 \in 1..n
        BY <1>1, <3>3
      <4>2. g[k - 1] # <<>> /\ k # 0
        BY <2>7, <3>3, <4>1
      <4> QED BY <2>5, <3>3, <4>1, <4>2
    <3> QED BY <3>1, <3>2, <3>3
  <2>9. g = [k \in 0..n |-> g[k]]
    BY <2>4
  <2> QED BY <2>8, <2>9
<1>5. Enters(f)
  <2> HIDE DEF Enters
  <2> QED BY <1>4
<1>6. canonicalize(p) = f[n]
  BY DEF canonicalize, n
<1> HIDE DEF f
<1>7. f[0] = <<>> /\ \A k \in 1..n : f[k] = Enter(f[k - 1], p[k])
  <2>1. 0 \in 0..n /\ \A k \in 1..n : k \in 0..n /\ k # 0
    BY <1>1
  <2> QED BY <1>5, <2>1
<1> DEFINE S == {k \in 0..n : k = 0 \/ Canonical(f[k])}
<1>8. 0 \in S
  BY <1>1
<1>9. ASSUME NEW k \in 1..n, k - 1 \in S PROVE k \in S
  <2>1. CASE k = 1
    <3>1. f[1] = Enter(<<>>, Root)
      <4>1. f[1] = Enter(f[1 - 1], p[1])
        BY <1>7, <2>1
      <4> QED BY <1>1, <1>7, <4>1
    <3>2. Enter(<<>>, Root) = Append(<<>>, Root)
      BY NoName DEF Enter
    <3>3. Append(<<>>, Root) = <<Root>>
      OBVIOUS
    <3>4. Canonical(f[1])
      BY <3>1, <3>2, <3>3, NoName
    <3> QED BY <1>1, <2>1, <3>4
  <2>2. CASE k # 1
    <3>1. k - 1 # 0 /\ k \in 0..n
      BY <1>1, <2>2
    <3>2. Canonical(f[k - 1]) /\ IsName(p[k])
      BY <1>1, <1>9, <2>2, <3>1
    <3>3. Canonical(f[k])
      BY <1>7, <3>2, EnterIs
    <3> QED BY <3>1, <3>3
  <2> QED BY <2>1, <2>2
<1> HIDE DEF S
<1>10. n \in S
  <2>1. \A k \in 0..n : k \in S
    BY <1>1, <1>8, <1>9, Upward
  <2> QED BY <1>1, <2>1
<1>11. Canonical(f[n])
  BY <1>1, <1>10 DEF S
<1> QED BY <1>6, <1>11

\* The base directory of the first process, once it is resolved.
LEMMA ResolvedIs ==
  ASSUME InScenario
  PROVE  /\ Resolved = [Config EXCEPT !.baseDir = Resolved.baseDir] /\ Config \in GroupConfigs
         /\ Canonical(Resolved.baseDir)
<1> DEFINE q == Config.baseDir
           d == canonicalize(resolve(Cwd, q))
<1>1. Config \in GroupConfigs /\ Resolved = [Config EXCEPT !.baseDir = d]
  BY ScenarioIs DEF resolve_base_dir
<1>2. q \in ParsedPaths
  BY <1>1 DEF GroupConfigs
<1>3. Resolved.baseDir = d
  <2> HIDE DEF d
  <2> QED BY <1>1, ConfigIs
<1>4. IsPath(q)
  <2>1. \A t \in Texts : IsPath(From(t))
    BY FromPath
  <2>2. IsPath(<<CurDir>>)
    <3>1. <<>> \in Texts
      BY DEF Texts
    <3>2. From(<<>>) = <<CurDir>>
      <4> DEFINE starts == {i \in 1..Len(<<>>) : <<>>[i] # "/" /\ (i = 1 \/ <<>>[i - 1] = "/")}
                 end(i) == Min({j \in i..(Len(<<>>) + 1) : j > Len(<<>>) \/ <<>>[j] = "/"}) - 1
                 name == [i \in starts |-> SubSeq(<<>>, i, end(i))]
                 kept == {i \in starts : name[i] # CurDir \/ i = 1}
                 relative == [k \in 1..Cardinality(kept) |->
                                name[CHOOSE i \in kept : Cardinality({j \in kept : j <= i}) = k]]
      <4>1. From(<<>>) = IF <<>> \o relative = <<>> THEN <<CurDir>> ELSE <<>> \o relative
        BY DEF From
      <4>2. kept = {}
        <5>1. starts = {}
          OBVIOUS
        <5> HIDE DEF starts, name
        <5> QED BY <5>1
      <4>3. relative = <<>>
        <5> HIDE DEF kept, name
        <5>1. Cardinality(kept) = 0
          BY <4>2, FS_EmptySet
        <5> QED BY <5>1
      <4> HIDE DEF relative
      <4>4. <<>> \o <<>> = <<>>
        OBVIOUS
      <4> QED BY <4>1, <4>3, <4>4
    <3> QED BY <2>1, <3>1, <3>2
  <2> QED BY <1>2, <2>1, <2>2 DEF ParsedPaths
<1>5. FromRoot(resolve(Cwd, q))
  <2>c. /\ Cwd \in Seq(Texts) /\ Len(Cwd) \in Nat /\ Len(Cwd) >= 1 /\ Cwd[1] = Root
        /\ \A i \in 1..Len(Cwd) : i # 1 => IsName(Cwd[i])
    <3>1. IsPath(Cwd) /\ Cwd[1] = Root
      BY TextsAssumption
    <3> QED BY <3>1 DEF IsPath, Path, IsName
  <2>q. /\ q \in Seq(Texts) /\ q # <<>> /\ Len(q) \in Nat
        /\ \A i \in 1..Len(q) : (i # 1 => q[i] # Root) /\ (q[i] # Root => IsName(q[i]))
    BY <1>4 DEF IsPath, Path, IsName
  <2> HIDE DEF q
  <2>1. CASE is_relative(q)
    <3>1. \A i \in 1..Len(q) : q[i] # Root
      BY <2>1, <2>q, ToSetIs DEF is_relative
    <3> DEFINE w == Cwd \o q
    <3>2. w \in Seq(Texts) /\ Joins(w, Cwd, q)
      BY <2>c, <2>q, ConcatPlaces
    <3>3. resolve(Cwd, q) = w
      BY <2>1 DEF resolve, joined
    <3> HIDE DEF w
    <3>4. \A i \in 1..Len(w) : \/ i \in 1..Len(Cwd) /\ w[i] = Cwd[i]
                               \/ i - Len(Cwd) \in 1..Len(q) /\ w[i] = q[i - Len(Cwd)]
      <4> SUFFICES ASSUME NEW i \in 1..Len(w), i \notin 1..Len(Cwd)
                   PROVE  i - Len(Cwd) \in 1..Len(q) /\ w[i] = q[i - Len(Cwd)]
        BY <3>2 DEF Joins
      <4>1. i - Len(Cwd) \in 1..Len(q) /\ Len(Cwd) + (i - Len(Cwd)) = i
        <5>1. Len(w) = Len(Cwd) + Len(q)
          BY <3>2 DEF Joins
        <5> QED BY <2>c, <2>q, <5>1
      <4> QED BY <3>2, <4>1 DEF Joins
    <3>5. w[1] = Root /\ w # <<>>
      <4>1. 1 \in 1..Len(Cwd) /\ Len(w) >= 1
        <5>1. Len(w) = Len(Cwd) + Len(q)
          BY <3>2 DEF Joins
        <5> QED BY <2>c, <2>q, <5>1
      <4>2. w[1] = Root
        BY <2>c, <3>2, <4>1 DEF Joins
      <4> QED BY <4>1, <4>2
    <3>6. \A i \in 1..Len(w) : i # 1 => IsName(w[i])
      BY <2>c, <2>q, <3>1, <3>4
    <3> QED BY <3>2, <3>3, <3>5, <3>6 DEF FromRoot, Path
  <2>2. CASE ~is_relative(q)
    <3>1. PICK i \in 1..Len(q) : q[i] = Root
      BY <2>2, <2>q, ToSetIs DEF is_relative
    <3>2. q[1] = Root
      BY <2>q, <3>1
    <3>3. resolve(Cwd, q) = q
      BY <2>2 DEF resolve
    <3> QED BY <2>q, <3>2, <3>3 DEF FromRoot, Path
  <2> QED BY <2>1, <2>2
<1>6. Canonical(d)
  BY <1>5, CanonicalIs
<1> QED BY <1>1, <1>3, <1>6

-----------------------------------------------------------------------------
(* The same configuration.                                                 *)

\* A text without backslashes and control characters is not escaped.
LEMMA PlainKept ==
  ASSUME NEW s \in Texts, \A m \in 1..Len(s) : s[m] # Backslash /\ s[m] # Newline
  PROVE  to_stfu8(s) = s
<1> DEFINE n == Len(s)
           gs == [i \in 1..n |->
                    CASE s[i] = Backslash -> <<Backslash, Backslash>>
                      [] s[i] = Newline   -> <<Backslash, "n">>
                      [] OTHER            -> <<s[i]>>]
           flat == to_stfu8(s)
<1>1. n \in Nat /\ s \in Seq(Characters) /\ \A i \in 1..n : s[i] \in Characters
  BY DEF Texts
<1>2. flat = FlattenSeq(gs)
  BY DEF to_stfu8
<1>3. \A i \in 1..n : gs[i] = <<s[i]>>
  OBVIOUS
<1>4. gs = [i \in 1..n |-> gs[i]]
  OBVIOUS
<1>p. flat \in Texts
  BY EscapesTyped
<1> HIDE DEF gs, flat, n
<1>5. gs \in Seq(Seq(Characters)) /\ Len(gs) = n
  <2> DEFINE X == Seq(Characters)
  <2>1. \A a \in Characters : <<a>> \in X
    OBVIOUS
  <2> HIDE DEF X
  <2>2. \A i \in 1..n : gs[i] \in X
    BY <1>1, <1>3, <2>1
  <2>3. gs \in Seq(X) /\ Len(gs) = n
    BY <1>1, <1>4, <2>2
  <2> QED BY <2>3 DEF X
<1>6. PICK end : Places(gs, flat, end)
  BY <1>2, <1>5, FlattenPlaces
<1>7. /\ end \in [0..n -> Nat] /\ end[0] = 0 /\ end[n] = Len(flat)
      /\ \A i \in 1..n : end[i] = end[i - 1] + 1 /\ flat[end[i - 1] + 1] = s[i]
  <2>1. \A i \in 1..n : Len(gs[i]) = 1 /\ gs[i][1] = s[i] /\ 1 \in 1..1
    <3> SUFFICES ASSUME NEW i \in 1..n PROVE Len(gs[i]) = 1 /\ gs[i][1] = s[i]
      OBVIOUS
    <3>1. gs[i] = <<s[i]>>
      BY <1>3
    <3> QED BY <3>1
  <2> QED BY <1>5, <1>6, <2>1, ZenonT(30) DEF Places
<1> DEFINE S == {k \in 0..n : end[k] = k}
<1>8. 0 \in S
  BY <1>1, <1>7
<1>9. \A k \in 1..n : k - 1 \in S => k \in S
  <2> SUFFICES ASSUME NEW k \in 1..n, k - 1 \in S PROVE end[k] = k /\ k \in 0..n
    OBVIOUS
  <2>1. end[k - 1] = k - 1 /\ end[k] = end[k - 1] + 1
    BY <1>7
  <2> QED BY <1>1, <2>1
<1> HIDE DEF S
<1>10. \A k \in 0..n : k \in S
  BY <1>1, <1>8, <1>9, Upward
<1>11. \A k \in 0..n : end[k] = k
  BY <1>10 DEF S
<1>12. Len(flat) = n
  BY <1>1, <1>7, <1>11
<1>13. \A k \in 1..n : flat[k] = s[k]
  <2> SUFFICES ASSUME NEW k \in 1..n PROVE flat[k] = s[k]
    OBVIOUS
  <2>1. k - 1 \in 0..n /\ (k - 1) + 1 = k
    BY <1>1
  <2>2. end[k - 1] = k - 1
    BY <1>11, <2>1
  <2> QED BY <1>7, <2>1, <2>2
<1>14. flat \in Seq(Characters)
  BY <1>p DEF Texts
<1>15. flat = s
  BY <1>1, <1>12, <1>13, <1>14 DEF n
<1> QED BY <1>15 DEF flat

\* The command line of the first process comes back from the header of a text
\* report, and its base directory, which is not decoded there and loses the blanks at its end.
WordsQuotable == Format = "default" => Quotable(Words)
BaseDirPlain ==
  LET text == TextOf(Resolved.baseDir)
  IN Format = "default" => /\ \A m \in 1..Len(text) : text[m] # Backslash /\ text[m] # Newline
                           /\ text[Len(text)] # Blank

\* The second process has the configuration of the first one.
LEMMA Informs ==
  ASSUME Typed, Writes, Informed, WordsQuotable, BaseDirPlain
  PROVE  Previous(header) = Resolved /\ header.timestamp <= now
<1>1. /\ header.timestamp <= now
      /\ Previous(header) = [try_parse_from(header.command) EXCEPT !.baseDir = header.baseDir]
  BY InformedIs
<1>2. Resolved = [Config EXCEPT !.baseDir = Resolved.baseDir] /\ Canonical(Resolved.baseDir)
      /\ Config = try_parse_from(Words)
  BY ResolvedIs, ScenarioIs DEF Typed
<1> DEFINE d == Resolved.baseDir
<1>3. IsPath(d)
  BY <1>2 DEF Canonical
<1>4. header.command = Words /\ header.baseDir = d
  <2>1. CASE Format = "json"
    <3>1. header.command = Words /\ header.baseDir = from_escaped_string(to_escaped_string(d))
      BY <2>1 DEF Informed, ReadJsonHeader, TheHeader
    <3> HIDE DEF d
    <3> QED BY <1>3, <3>1, EscapedPath
  <2>2. CASE Format = "default"
    <3>1. /\ header.command = split(TrimmedEnd(join(Words)))
          /\ header.baseDir = From(TrimmedEnd(to_escaped_string(d)))
      BY <2>2 DEF Informed, TextHeader, TheHeader, TextBaseDir
    <3>2. TextOf(d) \in Texts /\ From(TextOf(d)) = d
      BY <1>3, PathReturns
    <3>3. to_stfu8(TextOf(d)) = TextOf(d) /\ TrimmedEnd(TextOf(d)) = TextOf(d)
      BY <2>2, <3>2, PlainKept, EndTrimmed DEF BaseDirPlain
    <3>4. split(TrimmedEnd(join(Words))) = Words
      BY <2>2, CommandReturns DEF WordsQuotable
    <3> QED BY <2>2, <3>1, <3>2, <3>3, <3>4 DEF to_escaped_string
  <2> QED BY <2>1, <2>2 DEF Informed
<1> QED BY <1>1, <1>2, <1>4

\* dedupe.rs, run_dedupe: the command line in the header is parsed to the configuration the first
\* process had, with the base directory it resolved its paths against.
THEOREM ConfigHandedOver == Spec => [](WordsQuotable /\ BaseDirPlain => SameConfig)
<1>1. IInv => (WordsQuotable /\ BaseDirPlain => SameConfig)
  <2> SUFFICES ASSUME IInv, WordsQuotable, BaseDirPlain, config # Nothing
               PROVE  Previous(header) = Resolved /\ header.timestamp <= now
    BY DEF SameConfig
  <2>1. Typed /\ Writes /\ Informed
    BY DEF IInv, Reading
  <2> QED BY <2>1, Informs
<1> QED BY <1>1, Invariant, PTL

-----------------------------------------------------------------------------
(* The replicas that are left.                                             *)

\* Groups that are kept as a whole are as many groups of what is kept, by roots that
\* are the same and keys that are not coarser.
LEMMA GroupsCounted ==
  ASSUME NEW S, NEW files \in Seq(S), NEW rootCount \in Nat, NEW rootOf, NEW key,
         \A p \in ToSet(files) : rootOf[p] \in 0..rootCount,
         NEW n \in Nat, n <= Len(FileSubGroups(files, rootCount, rootOf, key)),
         NEW kept \in Seq(ToSet(files)),
         \A k \in 1..n : ToSet(FileSubGroups(files, rootCount, rootOf, key)[k]) \subseteq ToSet(kept),
         NEW root2, NEW key2, \A p \in ToSet(files) : root2[p] = rootOf[p],
         \A p, q \in ToSet(files) : key2[p] = key2[q] => key[p] = key[q]
  PROVE  n <= Len(FileSubGroups(kept, rootCount, root2, key2))
<1> DEFINE M == ToSet(files)
           K == ToSet(kept)
           gs == FileSubGroups(files, rootCount, rootOf, key)
           hs == FileSubGroups(kept, rootCount, root2, key2)
<1>1. /\ gs \in Seq(NonEmpty(M)) /\ Apart(gs)
      /\ \A g \in ToSet(gs) : \A p \in ToSet(g) : ToSet(g) = Kin(files, rootOf, key, p)
  BY SubGroupsAre
<1>2. K \subseteq M
  BY ToSetIs
<1>3. /\ hs \in Seq(NonEmpty(K))
      /\ \A p \in K : \E g \in ToSet(hs) : p \in ToSet(g)
      /\ \A g \in ToSet(hs) : \A p \in ToSet(g) : ToSet(g) = Kin(kept, root2, key2, p)
  <2>1. \A p \in K : root2[p] \in 0..rootCount
    BY <1>2
  <2> QED BY <2>1, SubGroupsAre
<1> DEFINE G == NonEmpty(M)
           H == NonEmpty(K)
<1> HIDE DEF gs, hs, G, H
<1>4. \A k \in 1..n : gs[k] \in ToSet(gs) /\ gs[k] \in G /\ k \in 1..Len(gs)
  <2>1. gs \in Seq(G) /\ n <= Len(gs) /\ Len(gs) \in Nat
    BY <1>1 DEF G, gs
  <2> QED BY <2>1, ToSetIs
<1>5. \A k \in 1..n : \E p \in K : p \in ToSet(gs[k])
  <2> SUFFICES ASSUME NEW k \in 1..n PROVE \E p \in K : p \in ToSet(gs[k])
    OBVIOUS
  <2> DEFINE g == gs[k]
  <2>1. g \in Seq(M) /\ g # <<>> /\ ToSet(g) \subseteq K
    BY <1>4 DEF G, NonEmpty, gs
  <2> HIDE DEF g
  <2>2. 1 \in 1..Len(g)
    <3> HIDE DEF M
    <3> QED BY <2>1
  <2>3. g[1] \in ToSet(g)
    BY <2>1, <2>2, ToSetIs
  <2> QED BY <2>1, <2>3 DEF g
<1> DEFINE r(k) == CHOOSE p \in K : p \in ToSet(gs[k])
<1>6. \A k \in 1..n : r(k) \in K /\ r(k) \in ToSet(gs[k])
  BY <1>5
<1> HIDE DEF r
<1>7. Len(hs) \in Nat /\ ToSet(hs) = {hs[i] : i \in 1..Len(hs)}
  <2>1. hs \in Seq(H)
    BY <1>3 DEF H
  <2> QED BY <2>1, ToSetIs
<1>8. \A k \in 1..n : \E i \in 1..Len(hs) : r(k) \in ToSet(hs[i])
  <2> SUFFICES ASSUME NEW k \in 1..n PROVE \E i \in 1..Len(hs) : r(k) \in ToSet(hs[i])
    OBVIOUS
  <2> HIDE DEF K
  <2>1. PICK g \in ToSet(hs) : r(k) \in ToSet(g)
    BY <1>3, <1>6
  <2>2. PICK i \in 1..Len(hs) : g = hs[i]
    BY <1>7
  <2> QED BY <2>1, <2>2
<1> DEFINE at == [k \in 1..n |-> CHOOSE i \in 1..Len(hs) : r(k) \in ToSet(hs[i])]
<1>9. \A k \in 1..n : at[k] \in 1..Len(hs) /\ r(k) \in ToSet(hs[at[k]])
  BY <1>8
<1>10. at \in [1..n -> 1..Len(hs)]
  BY <1>9
<1> HIDE DEF at, M, K
<1>11. ASSUME NEW j \in 1..n, NEW k \in 1..n, at[j] = at[k] PROVE j = k
  <2> DEFINE h == hs[at[j]]
             p == r(j)
             q == r(k)
  <2>1. h \in ToSet(hs) /\ p \in ToSet(h) /\ q \in ToSet(h)
    BY <1>7, <1>9, <1>11
  <2>2. p \in K /\ q \in K /\ p \in ToSet(gs[j]) /\ q \in ToSet(gs[k])
    BY <1>6
  <2> HIDE DEF h, p, q
  <2>3. q \in Kin(kept, root2, key2, p)
    BY <1>3, <2>1
  <2>4. root2[q] = root2[p] /\ (root2[p] = 0 => key2[q] = key2[p])
    BY <2>3 DEF Kin
  <2>5. p \in M /\ q \in M
    BY <1>2, <2>2
  <2>6. root2[p] = rootOf[p] /\ root2[q] = rootOf[q] /\ (key2[q] = key2[p] => key[q] = key[p])
    BY <2>5 DEF M
  <2>7. q \in Kin(files, rootOf, key, p)
    BY <2>4, <2>5, <2>6 DEF Kin, M
  <2>8. ToSet(gs[j]) = Kin(files, rootOf, key, p)
    BY <1>1, <1>4, <2>2
  <2>9. q \in ToSet(gs[j]) \cap ToSet(gs[k])
    BY <2>2, <2>7, <2>8
  <2> QED BY <1>1, <1>4, <2>9 DEF Apart
<1>12. at \in Injection(1..n, 1..Len(hs))
  BY <1>10, <1>11 DEF Injection, IsInjective
<1>13. IsFiniteSet(1..Len(hs)) /\ Cardinality(1..Len(hs)) = Len(hs) /\ Cardinality(1..n) = n
  <2>1. \A a \in Nat : IsFiniteSet(1..a) /\ Cardinality(1..a) = a
    <3> SUFFICES ASSUME NEW a \in Nat PROVE IsFiniteSet(1..a) /\ Cardinality(1..a) = a
      OBVIOUS
    <3>1. 1 \in Int /\ a \in Int
      OBVIOUS
    <3>2. IsFiniteSet(1..a) /\ Cardinality(1..a) = IF 1 > a THEN 0 ELSE a - 1 + 1
      BY <3>1, FS_Interval
    <3> QED BY <3>2
  <2> QED BY <1>7, <2>1
<1>14. Cardinality(1..n) <= Cardinality(1..Len(hs))
  BY <1>12, <1>13, FS_Injection
<1> QED BY <1>13, <1>14 DEF hs

\* The second process was given no roots, and told to look at links only if the
\* first one was.
OwnAlike == Own.roots = <<>> /\ (Own.matchLinks => Config.matchLinks)

\* The number of replicas that is asked for is one the first process looks at: it
\* does not with a transform, or if it searches for unique files or for few replicas.
CountLookedAt ==
  Own.rfOver = NoCount /\ (Config.transform \/ Config.rfUnder # NoCount \/ Config.unique) =>
    Config.rfOver <= 1

\* The number of replicas to leave is not more than the count dedupe has.
LEMMA CountIs ==
  ASSUME Typed, Writes, Informed, Previous(header) = Resolved, CountLookedAt, NEW n \in Nat, n # 0, n >= config.rfOver
  PROVE  WantedRf \in Int /\ WantedRf <= n
<1>1. Own.rfOver \in Nat \cup {NoCount}
  BY ScenarioIs DEF Typed
<1>2. /\ Config \in GroupConfigs /\ Resolved = [Config EXCEPT !.baseDir = Resolved.baseDir]
  BY ResolvedIs DEF Typed
<1>3. rf_over(Resolved) = rf_over(Config) /\ Config.rfOver \in Counts \cup {NoCount}
  BY <1>2, ConfigIs
<1>4. config.rfOver = IF Own.rfOver = NoCount THEN rf_over(Resolved) ELSE Own.rfOver
  BY DEF Informed, Merged
<1>5. NoCount = -1 /\ Counts \subseteq Nat
  BY DEF NoCount, Counts
<1>6. CASE Own.rfOver # NoCount
  BY <1>1, <1>4, <1>6 DEF WantedRf
<1>7. CASE Own.rfOver = NoCount
  <2>1. WantedRf = IF Config.rfOver = NoCount THEN 1 ELSE Config.rfOver
    BY <1>7 DEF WantedRf, RfOverGiven
  <2>2. config.rfOver = rf_over(Config)
    BY <1>3, <1>4, <1>7
  <2>3. CASE Config.transform \/ Config.rfUnder # NoCount \/ Config.unique
    <3>1. Config.rfOver <= 1
      BY <1>7, <2>3 DEF CountLookedAt
    <3> QED BY <1>3, <1>5, <2>1, <3>1
  <2>4. CASE ~(Config.transform \/ Config.rfUnder # NoCount \/ Config.unique)
    <3>1. config.rfOver = WantedRf
      BY <2>1, <2>2, <2>4 DEF rf_over
    <3> QED BY <1>3, <1>5, <2>1, <3>1
  <2> QED BY <2>3, <2>4
<1> QED BY <1>6, <1>7

\* A decision to drop leaves as many replicas as the first process was told to.
LEMMA ReplicasKept ==
  ASSUME Typed, Writes, Reading, Deciding, Previous(header) = Resolved, OwnAlike, CountLookedAt,
         NEW i \in 1..Len(decided), decided[i].drop # <<>>
  PROVE  WantedRf \in Int /\ WantedRf <= Replicas(decided[i].keep) /\ Replicas(decided[i].keep) \in Nat
<1> DEFINE files == Candidates(read[i])
           M == ToSet(files)
           gs == SubGroupsOf(read[i])
           n == Max({1, config.rfOver})
           kept == decided[i].keep
           roots == config.roots
           rootOf == [p \in M |-> RootOf(roots, p)]
           key == [p \in M |-> IF config.matchLinks THEN p ELSE Inode[p]]
<1>1. /\ Informed /\ n \in Nat /\ n # 0 /\ n >= config.rfOver
      /\ files \in Seq(Files) /\ (\A p \in M : RootOf(roots, p) \in 0..Len(roots))
      /\ Len(gs) > n /\ gs \in Seq(NonEmpty(M)) /\ kept \in Seq(M)
      /\ \A k \in 1..n : ToSet(gs[k]) \subseteq ToSet(kept)
  BY DroppedIs
<1>2. gs = FileSubGroups(files, Len(roots), rootOf, key)
  BY DEF SubGroupsOf
<1>3. WantedRf \in Int /\ WantedRf <= n
  BY <1>1, CountIs
<1>4. Filter = group_filter(Resolved, Inode)
  BY ScenarioIs DEF Typed
<1>5. /\ Resolved.matchLinks = Config.matchLinks /\ Config.matchLinks \in BOOLEAN
      /\ config.matchLinks = (Own.matchLinks \/ Resolved.matchLinks)
      /\ roots = IF Resolved.isolate THEN input_paths(Resolved) ELSE <<>>
  <2>1. config = Merged(header)
    BY <1>1 DEF Informed
  <2>2. Config \in GroupConfigs /\ Resolved = [Config EXCEPT !.baseDir = Resolved.baseDir]
    BY ResolvedIs DEF Typed
  <2>3. [Config EXCEPT !.baseDir = Resolved.baseDir].matchLinks = Config.matchLinks /\ Config.matchLinks \in BOOLEAN
    BY <2>2, ConfigIs
  <2>4. Resolved.matchLinks = Config.matchLinks
    BY <2>2, <2>3
  <2> QED BY <2>1, <2>3, <2>4 DEF Merged, OwnAlike
<1>6. /\ Filter.rootCount = Len(roots)
      /\ \A p \in Files : Filter.rootOf[p] = RootOf(roots, p)
      /\ \A p \in Files : Filter.key[p] = IF Resolved.matchLinks THEN p ELSE Inode[p]
  BY <1>4, <1>5 DEF group_filter, Files
<1>7. M \subseteq Files
  BY <1>1, ToSetIs
<1>8. \A p \in M : rootOf[p] = RootOf(roots, p) /\ key[p] = IF config.matchLinks THEN p ELSE Inode[p]
  OBVIOUS
<1> DEFINE root2 == Filter.rootOf
           key2 == Filter.key
<1> HIDE DEF files, gs, n, kept, roots, rootOf, key, root2, key2
<1>9. \A p \in M : root2[p] = rootOf[p] /\ rootOf[p] \in 0..Len(roots)
  BY <1>1, <1>6, <1>7, <1>8 DEF root2
<1>10. \A p, q \in M : key2[p] = key2[q] => key[p] = key[q]
  <2>1. config.matchLinks = Resolved.matchLinks
    BY <1>5 DEF OwnAlike
  <2> HIDE DEF M
  <2>2. \A p \in M : key2[p] = key[p]
    BY <1>6, <1>7, <1>8, <2>1 DEF key2
  <2> QED BY <2>2
<1>11. Len(roots) \in Nat /\ Len(gs) \in Nat /\ n <= Len(gs)
  <2>1. Len(roots) \in Nat
    BY <1>1, InformedIs DEF roots
  <2> DEFINE X == NonEmpty(M)
  <2>2. gs \in Seq(X) /\ Len(gs) > n
    BY <1>1
  <2> HIDE DEF X
  <2> QED BY <1>1, <2>1, <2>2
<1>12. n <= Len(FileSubGroups(kept, Len(roots), root2, key2))
  BY <1>1, <1>2, <1>9, <1>10, <1>11, GroupsCounted, SMTT(30)
<1>13. Replicas(kept) = Len(FileSubGroups(kept, Len(roots), root2, key2))
  BY <1>6 DEF Replicas, subgroup_count, SubGroupsIn, root2, key2
<1>14. Replicas(kept) \in Nat
  <2> DEFINE hs == FileSubGroups(kept, Len(roots), root2, key2)
             X == NonEmpty(ToSet(kept))
  <2>1. \A p \in ToSet(kept) : p \in M
    BY <1>1, ToSetIs
  <2>2. hs \in Seq(X)
    BY <1>1, <1>9, <1>11, <2>1, SubGroupsAre
  <2> HIDE DEF hs, X
  <2>3. Len(hs) \in Nat
    BY <2>2
  <2> QED BY <1>13, <2>3 DEF hs
<1>15. WantedRf <= Replicas(kept)
  BY <1>1, <1>3, <1>12, <1>13, <1>14
<1> QED BY <1>3, <1>14, <1>15 DEF kept

\* Of both processes together: whatever is dropped, as many replicas are left as the command line of
\* `fclones group` asks for, counted the way that process counted them.
THEOREM ReplicasAreLeft ==
  Spec => [](WordsQuotable /\ BaseDirPlain /\ OwnAlike /\ CountLookedAt => ReplicasLeft)
<1>1. IInv => (WordsQuotable /\ BaseDirPlain /\ OwnAlike /\ CountLookedAt => ReplicasLeft)
  <2> SUFFICES ASSUME IInv, WordsQuotable, BaseDirPlain, OwnAlike, CountLookedAt,
                      NEW i \in 1..Len(decided), decided[i].drop # <<>>
               PROVE  Replicas(decided[i].keep) >= Min({WantedRf, Replicas(found[i].files)})
    BY DEF ReplicasLeft
  <2>1. Typed /\ Writes /\ Reading /\ Deciding /\ Informed
    BY DroppedIs DEF IInv
  <2>2. Previous(header) = Resolved
    BY <2>1, Informs
  <2>3. WantedRf \in Int /\ WantedRf <= Replicas(decided[i].keep) /\ Replicas(decided[i].keep) \in Nat
    BY <2>1, <2>2, ReplicasKept
  <2> DEFINE G == found[i].files
  <2>4. Replicas(G) \in Nat
    <3>1. i \in 1..Len(found) /\ found \in GroupsOf(Files)
      <4>1. Positioned /\ Len(decided) = Len(read) /\ Len(read) \in Nat
        BY <2>1, ProperIs DEF Reading, Active
      <4>2. Len(read) \in 0..Len(found) /\ found \in GroupsOf(Files) /\ Len(found) \in Nat
        BY <2>1, <4>1 DEF Positioned, Typed, GroupsOf
      <4> QED BY <4>1, <4>2
    <3>2. G \in Seq(Files)
      <4> DEFINE X == [len : Nat, files : Seq(Files)]
      <4>1. found \in Seq(X)
        BY <3>1 DEF GroupsOf
      <4> HIDE DEF X
      <4>2. found[i] \in X
        BY <3>1, <4>1
      <4> QED BY <4>2 DEF X
    <3>3. \A p \in Files : Filter.rootOf[p] \in 0..Filter.rootCount
      BY <2>1, FilterIs DEF Typed
    <3>4. Filter.rootCount \in Nat /\ \A p \in ToSet(G) : Filter.rootOf[p] \in 0..Filter.rootCount
      BY <2>1, <3>2, <3>3, FilterIs, ToSetIs DEF Typed
    <3> DEFINE hs == FileSubGroups(G, Filter.rootCount, Filter.rootOf, Filter.key)
               Y == NonEmpty(ToSet(G))
    <3> HIDE DEF G
    <3>5. hs \in Seq(Y)
      BY <3>2, <3>4, SubGroupsAre
    <3> HIDE DEF Y
    <3>6. Replicas(G) = Len(hs)
      BY DEF Replicas, subgroup_count, SubGroupsIn
    <3> HIDE DEF hs
    <3> QED BY <3>5, <3>6
  <2> HIDE DEF G
  <2>5. Min({WantedRf, Replicas(G)}) <= WantedRf /\ Min({WantedRf, Replicas(G)}) \in Int
    <3>1. Replicas(G) \in Int
      BY <2>4
    <3>2. Min({WantedRf, Replicas(G)}) \in {WantedRf, Replicas(G)} /\ Min({WantedRf, Replicas(G)}) <= WantedRf
      BY <2>3, <3>1, LesserIs
    <3> QED BY <2>3, <3>1, <3>2
  <2> QED BY <2>3, <2>5 DEF G
<1> QED BY <1>1, Invariant, PTL

-----------------------------------------------------------------------------
(* What is announced is dropped.                                           *)

\* Filtered keeps all of a sequence whose members are all in T.
LEMMA FilteredWhole ==
  ASSUME NEW S, NEW s \in Seq(S), NEW T, ToSet(s) \subseteq T
  PROVE  Filtered(s, T) = s
<1> DEFINE n == Len(s)
           hits == {i \in 1..n : s[i] \in T}
           nth(k) == CHOOSE i \in hits : Cardinality({j \in hits : j <= i}) = k
           t == [k \in 1..Cardinality(hits) |-> s[nth(k)]]
<1>1. n \in Nat /\ Filtered(s, T) = t
  BY DEF Filtered
<1>2. hits = 1..n
  BY ToSetIs
<1>3. \A i \in Nat : Cardinality(1..i) = i
  <2> SUFFICES ASSUME NEW i \in Nat PROVE Cardinality(1..i) = i
    OBVIOUS
  <2>1. 1 \in Int /\ i \in Int
    OBVIOUS
  <2>2. Cardinality(1..i) = IF 1 > i THEN 0 ELSE i - 1 + 1
    BY <2>1, FS_Interval
  <2> QED BY <2>2
<1> HIDE DEF n, hits
<1>4. \A i \in 1..n : Cardinality({j \in hits : j <= i}) = i
  <2> SUFFICES ASSUME NEW i \in 1..n PROVE Cardinality({j \in hits : j <= i}) = i
    OBVIOUS
  <2>1. {j \in hits : j <= i} = 1..i /\ i \in Nat
    BY <1>1, <1>2
  <2> QED BY <1>3, <2>1
<1>5. \A k \in 1..n : nth(k) = k
  BY <1>2, <1>4
<1>6. Cardinality(hits) = n
  BY <1>1, <1>2, <1>3
<1> HIDE DEF nth
<1>7. t = [k \in 1..n |-> s[k]]
  BY <1>5, <1>6
<1>8. s = [k \in 1..n |-> s[k]]
  BY DEF n
<1> QED BY <1>1, <1>7, <1>8

\* Of a sequence without repetitions, it keeps one member if T has one of them.
LEMMA FilteredOne ==
  ASSUME NEW S, NEW s \in Seq(S), NEW i \in 1..Len(s), NEW T,
         \A j \in 1..Len(s) : s[j] \in T <=> j = i
  PROVE  Filtered(s, T) = <<s[i]>>
<1> DEFINE hits == {j \in 1..Len(s) : s[j] \in T}
           nth(k) == CHOOSE m \in hits : Cardinality({j \in hits : j <= m}) = k
           t == [k \in 1..Cardinality(hits) |-> s[nth(k)]]
<1>1. Filtered(s, T) = t
  BY DEF Filtered
<1>2. hits = {i} /\ i \in Nat
  OBVIOUS
<1>3. Cardinality({i}) = 1
  BY FS_Singleton
<1> HIDE DEF hits
<1>4. {j \in hits : j <= i} = {i}
  BY <1>2
<1>5. nth(1) = i
  BY <1>2, <1>3, <1>4
<1> HIDE DEF nth
<1>6. t = [k \in 1..1 |-> s[nth(k)]]
  BY <1>2, <1>3
<1>7. t = <<s[i]>>
  BY <1>5, <1>6
<1> QED BY <1>1, <1>7

\* FileSubGroups depends on the roots and the keys of the files it groups.
LEMMA SubGroupsAgree ==
  ASSUME NEW S, NEW files \in Seq(S), NEW rootCount, NEW rootOf, NEW key, NEW root2, NEW key2,
         \A p \in ToSet(files) : root2[p] = rootOf[p] /\ key2[p] = key[p]
  PROVE  FileSubGroups(files, rootCount, root2, key2) = FileSubGroups(files, rootCount, rootOf, key)
<1> DEFINE M == ToSet(files)
           T1 == {p \in M : rootOf[p] = 0}
           T2 == {p \in M : root2[p] = 0}
           rest == Filtered(files, T1)
           rest2 == Filtered(files, T2)
           heads1 == {i \in 1..Len(rest) : \A j \in 1..(i - 1) : key[rest[j]] # key[rest[i]]}
           heads2 == {i \in 1..Len(rest2) : \A j \in 1..(i - 1) : key2[rest2[j]] # key2[rest2[i]]}
           byRoot1 == [r \in 1..rootCount |-> Filtered(files, {p \in M : rootOf[p] = r})]
           byRoot2 == [r \in 1..rootCount |-> Filtered(files, {p \in M : root2[p] = r})]
           byKey1 == [i \in 1..Len(rest) |->
                        IF i \in heads1 THEN Filtered(rest, {p \in ToSet(rest) : key[p] = key[rest[i]]}) ELSE <<>>]
           byKey2 == [i \in 1..Len(rest2) |->
                        IF i \in heads2 THEN Filtered(rest2, {p \in ToSet(rest2) : key2[p] = key2[rest2[i]]}) ELSE <<>>]
<1>1. rest2 = rest
  <2>1. T1 = T2
    OBVIOUS
  <2> HIDE DEF T1, T2
  <2> QED BY <2>1
<1>2. /\ FileSubGroups(files, rootCount, rootOf, key)
           = Filtered(byRoot1 \o byKey1, ToSet(byRoot1 \o byKey1) \ {<<>>})
      /\ FileSubGroups(files, rootCount, root2, key2)
           = Filtered(byRoot2 \o byKey2, ToSet(byRoot2 \o byKey2) \ {<<>>})
  BY DEF FileSubGroups
<1>3. byRoot1 = byRoot2
  <2>1. \A r : {p \in M : rootOf[p] = r} = {p \in M : root2[p] = r}
    OBVIOUS
  <2> HIDE DEF M
  <2> QED BY <2>1
<1>4. ToSet(rest) \subseteq M /\ Len(rest) \in Nat /\ \A i \in 1..Len(rest) : rest[i] \in ToSet(rest)
  <2> HIDE DEF T1
  <2>1. rest \in Seq(S) /\ ToSet(rest) = M \cap T1
    BY FilteredIs
  <2> HIDE DEF M
  <2>2. \A i \in 1..Len(rest) : rest[i] \in ToSet(rest)
    BY <2>1, ToSetIs
  <2> HIDE DEF rest
  <2> QED BY <2>1, <2>2
<1>5. \A p \in M : key2[p] = key[p]
  OBVIOUS
<1> HIDE DEF rest, rest2, M
<1>6. \A i \in 1..Len(rest) : key2[rest[i]] = key[rest[i]]
  BY <1>4, <1>5
<1>7. heads1 = heads2
  <2>1. \A i \in 1..Len(rest) : \A j \in 1..(i - 1) : j \in 1..Len(rest)
    BY <1>4
  <2> QED BY <1>1, <1>6, <2>1
<1>8. byKey1 = byKey2
  <2>1. \A i \in 1..Len(rest) :
          {p \in ToSet(rest) : key[p] = key[rest[i]]} = {p \in ToSet(rest) : key2[p] = key2[rest[i]]}
    BY <1>4, <1>5, <1>6
  <2> HIDE DEF heads1, heads2
  <2> QED BY <1>1, <1>7, <2>1
<1> HIDE DEF byRoot1, byRoot2, byKey1, byKey2
<1> QED BY <1>2, <1>3, <1>8

\* Files without roots, of which no two have the same key, are each a subgroup.
LEMMA EachAlone ==
  ASSUME NEW S, NEW files \in Seq(S), \A i, j \in 1..Len(files) : files[i] = files[j] => i = j,
         NEW rootOf, NEW key, \A p \in ToSet(files) : rootOf[p] = 0,
         \A p, q \in ToSet(files) : key[p] = key[q] => p = q
  PROVE  FileSubGroups(files, 0, rootOf, key) = [i \in 1..Len(files) |-> <<files[i]>>]
<1> DEFINE M == ToSet(files)
           n == Len(files)
           rest == Filtered(files, {p \in M : rootOf[p] = 0})
           heads == {i \in 1..Len(rest) : \A j \in 1..(i - 1) : key[rest[j]] # key[rest[i]]}
           byRoot == [r \in 1..0 |-> Filtered(files, {p \in M : rootOf[p] = r})]
           byKey == [i \in 1..Len(rest) |->
                       IF i \in heads THEN Filtered(rest, {p \in ToSet(rest) : key[p] = key[rest[i]]}) ELSE <<>>]
           alone == [i \in 1..n |-> <<files[i]>>]
<1>1. n \in Nat /\ \A i \in 1..n : files[i] \in M
  BY ToSetIs
<1>2. rest = files
  <2>1. M \subseteq {p \in M : rootOf[p] = 0}
    OBVIOUS
  <2> QED BY <2>1, FilteredWhole
<1>3. FileSubGroups(files, 0, rootOf, key) = Filtered(byRoot \o byKey, ToSet(byRoot \o byKey) \ {<<>>})
  BY DEF FileSubGroups
<1>4. \A i, j \in 1..n : key[files[i]] = key[files[j]] => i = j
  BY <1>1
<1> HIDE DEF rest
<1>5. heads = 1..n
  <2>1. \A i \in 1..n : \A j \in 1..(i - 1) : j \in 1..n /\ j # i
    BY <1>1
  <2>2. heads = {i \in 1..n : \A j \in 1..(i - 1) : key[files[j]] # key[files[i]]}
    BY <1>2
  <2> HIDE DEF n, heads
  <2> QED BY <1>4, <2>1, <2>2
<1>6. \A i \in 1..n : Filtered(files, {p \in M : key[p] = key[files[i]]}) = <<files[i]>>
  <2> SUFFICES ASSUME NEW i \in 1..n
               PROVE  Filtered(files, {p \in M : key[p] = key[files[i]]}) = <<files[i]>>
    OBVIOUS
  <2> DEFINE T == {p \in M : key[p] = key[files[i]]}
  <2>1. \A j \in 1..n : files[j] \in T <=> j = i
    BY <1>1, <1>4
  <2> HIDE DEF T, M
  <2>2. Filtered(files, T) = <<files[i]>>
    BY <2>1, FilteredOne
  <2> QED BY <2>2 DEF T
<1> HIDE DEF heads
<1>7. byKey = alone
  <2>1. byKey = [i \in 1..n |->
                   IF i \in heads THEN Filtered(files, {p \in M : key[p] = key[files[i]]}) ELSE <<>>]
    BY <1>2 DEF M
  <2> HIDE DEF byKey
  <2> QED BY <1>5, <1>6, <2>1
<1>8. byRoot = <<>>
  OBVIOUS
<1> HIDE DEF byRoot, byKey, M
<1> DEFINE X == Seq(S)
<1>9. \A i \in 1..n : <<files[i]>> \in X /\ <<files[i]>> # <<>>
  OBVIOUS
<1> HIDE DEF X, n
<1>10. alone \in Seq(X) /\ \A i \in 1..n : alone[i] # <<>>
  BY <1>1, <1>9
<1>b. Len(alone) = n
  BY <1>1
<1> HIDE DEF alone
<1>11. <<>> \o alone = alone
  BY <1>10
<1>12. ToSet(alone) \subseteq ToSet(alone) \ {<<>>}
  BY <1>10, <1>b, ToSetIs
<1>13. Filtered(alone, ToSet(alone) \ {<<>>}) = alone
  BY <1>10, <1>12, FilteredWhole
<1> QED BY <1>3, <1>7, <1>8, <1>11, <1>13 DEF alone, n

\* The sums of the first numbers of a sequence.
Sums(count, f) ==
  /\ f \in [0..Len(count) -> Int] /\ f[0] = 0
  /\ \A k \in 1..Len(count) : f[k] = f[k - 1] + count[k]

\* Total is the last of them.
LEMMA TotalIs ==
  ASSUME NEW count \in Seq(Int)
  PROVE  \E f : Sums(count, f) /\ Total(count) = f[Len(count)]
<1> DEFINE n == Len(count)
           Adds(g) == g = [k \in 0..n |-> IF k = 0 THEN 0 ELSE g[k - 1] + count[k]]
           step == [k \in 1..n |-> [d \in Int |-> d + count[k]]]
           f == CHOOSE g : Adds(g)
<1>1. n \in Nat /\ \A k \in 1..n : count[k] \in Int
  OBVIOUS
<1>2. Total(count) = f[n]
  BY DEF Total
<1> HIDE DEF n
<1>3. \E g : Adds(g)
  <2>1. step \in [1..n -> [Int -> Int]]
    BY <1>1
  <2>2. PICK g : Run(Int, 0, n, step, g)
    <3>1. 0 \in Int
      OBVIOUS
    <3> HIDE DEF step
    <3> QED BY <1>1, <2>1, <3>1, RunExists
  <2>3. \A k \in 0..n : g[k] = IF k = 0 THEN 0 ELSE g[k - 1] + count[k]
    <3>1. g[0] = 0
      BY <2>2 DEF Run
    <3> SUFFICES ASSUME NEW k \in 0..n, k # 0 PROVE g[k] = g[k - 1] + count[k]
      BY <3>1
    <3>2. k \in 1..n /\ k - 1 \in 0..n
      BY <1>1
    <3>3. g[k - 1] \in Int /\ g[k] = step[k][g[k - 1]]
      <4> HIDE DEF step
      <4> QED BY <2>2, <3>2 DEF Run
    <3> QED BY <3>2, <3>3
  <2>4. g = [k \in 0..n |-> g[k]]
    <3> HIDE DEF step
    <3> QED BY <2>2 DEF Run
  <2> QED BY <2>3, <2>4
<1>4. Adds(f)
  <2> HIDE DEF Adds
  <2> QED BY <1>3
<1> HIDE DEF f
<1>5. \A k \in 0..n : f[k] = IF k = 0 THEN 0 ELSE f[k - 1] + count[k]
  <2>1. f = [k \in 0..n |-> IF k = 0 THEN 0 ELSE f[k - 1] + count[k]]
    BY <1>4
  <2> QED BY <2>1
<1>6. \A k \in 0..n : f[k] \in Int
  <2> DEFINE S == {k \in 0..n : f[k] \in Int}
  <2>1. 0 \in S
    BY <1>1, <1>5
  <2>2. ASSUME NEW k \in 1..n, k - 1 \in S PROVE k \in S
    BY <1>1, <1>5, <2>2
  <2> HIDE DEF S
  <2>3. \A k \in 0..n : k \in S
    BY <1>1, <2>1, <2>2, Upward
  <2> QED BY <2>3 DEF S
<1>7. f = [k \in 0..n |-> f[k]]
  BY <1>4
<1>8. f \in [0..n -> Int]
  BY <1>6, <1>7
<1>9. f[0] = 0 /\ \A k \in 1..n : f[k] = f[k - 1] + count[k]
  BY <1>1, <1>5
<1> QED BY <1>2, <1>8, <1>9 DEF Sums, n

\* Sequences that are joined have the sum of their lengths.
LEMMA FlattenLength ==
  ASSUME NEW S, NEW gs \in Seq(Seq(S)), NEW count \in Seq(Int), Len(count) = Len(gs),
         \A i \in 1..Len(gs) : count[i] = Len(gs[i])
  PROVE  Len(FlattenSeq(gs)) = Total(count)
<1> DEFINE n == Len(gs)
           flat == FlattenSeq(gs)
<1>1. n \in Nat
  OBVIOUS
<1>2. PICK end : Places(gs, flat, end)
  BY FlattenPlaces
<1>3. PICK f : Sums(count, f) /\ Total(count) = f[Len(count)]
  BY TotalIs
<1> HIDE DEF n, flat
<1>4. /\ end \in [0..n -> Nat] /\ end[0] = 0 /\ end[n] = Len(flat)
      /\ \A i \in 1..n : end[i] = end[i - 1] + count[i]
  BY <1>2 DEF Places, n
<1>5. /\ f \in [0..n -> Int] /\ f[0] = 0 /\ Total(count) = f[n]
      /\ \A k \in 1..n : f[k] = f[k - 1] + count[k]
  BY <1>3 DEF Sums, n
<1> DEFINE E == {k \in 0..n : end[k] = f[k]}
<1>6. 0 \in E
  BY <1>1, <1>4, <1>5
<1>7. ASSUME NEW k \in 1..n, k - 1 \in E PROVE k \in E
  BY <1>1, <1>4, <1>5, <1>7
<1> HIDE DEF E
<1>8. n \in E
  <2>1. \A k \in 0..n : k \in E
    BY <1>1, <1>6, <1>7, Upward
  <2> QED BY <1>1, <2>1
<1> QED BY <1>4, <1>5, <1>8 DEF E, flat

\* So sequences of one member are joined to one of as many.
LEMMA FlattenSingles ==
  ASSUME NEW S, NEW gs \in Seq(Seq(S)), \A i \in 1..Len(gs) : Len(gs[i]) = 1
  PROVE  Len(FlattenSeq(gs)) = Len(gs)
<1> DEFINE n == Len(gs)
           flat == FlattenSeq(gs)
<1>1. n \in Nat
  OBVIOUS
<1>2. PICK end : Places(gs, flat, end)
  BY FlattenPlaces
<1> HIDE DEF n, flat
<1>3. /\ end \in [0..n -> Nat] /\ end[0] = 0 /\ end[n] = Len(flat)
      /\ \A i \in 1..n : end[i] = end[i - 1] + 1
  BY <1>2 DEF Places, n
<1> DEFINE E == {k \in 0..n : end[k] = k}
<1>4. 0 \in E
  BY <1>1, <1>3
<1>5. ASSUME NEW k \in 1..n, k - 1 \in E PROVE k \in E
  BY <1>1, <1>3, <1>5
<1> HIDE DEF E
<1>6. n \in E
  <2>1. \A k \in 0..n : k \in E
    BY <1>1, <1>4, <1>5, Upward
  <2> QED BY <1>1, <2>1
<1> QED BY <1>3, <1>6 DEF E, flat, n

\* No file is there twice.
Once(files) == \A i, j \in 1..Len(files) : files[i] = files[j] => i = j

\* No class has a file twice.
LEMMA ClassesOnce ==
  ASSUME InScenario
  PROVE  \A c \in 1..Len(Classes) : Once(Classes[c].files)
<1>1. Scenario \in ToSet(Scenarios)
  BY ScenariosAssumption, ToSetIs DEF InScenario, Scenario
<1>2. \A c \in ToSet(Classes) : IsInjective(c.files)
  BY <1>1, ScenariosAssumption DEF Classes
<1>3. Classes \in GroupsOf(Files)
  BY ScenarioIs
<1> DEFINE R == [len : Nat, files : Seq(Files)]
<1>4. ASSUME NEW c \in R PROVE DOMAIN c.files = 1..Len(c.files)
  OBVIOUS
<1>5. Classes \in Seq(R)
  BY <1>3 DEF GroupsOf
<1> HIDE DEF R
<1> SUFFICES ASSUME NEW c \in 1..Len(Classes) PROVE Once(Classes[c].files)
  OBVIOUS
<1>6. Classes[c] \in R /\ Classes[c] \in ToSet(Classes)
  BY <1>5, ToSetIs
<1> QED BY <1>2, <1>4, <1>6 DEF IsInjective, Once

\* The files of a group that is found are of one class.
OfClass(g) ==
  /\ g.files # <<>>
  /\ \E c \in 1..Len(Classes) : g.len = Classes[c].len /\ ToSet(g.files) \subseteq ToSet(Classes[c].files)
  /\ Filter.rootCount = 0 => Once(g.files)

\* All groups are like that.
FoundOf == \A i \in 1..Len(found) : OfClass(found[i])

\* FileGroup::sort_by_path keeps the files.
LEMMA SortKeeps ==
  ASSUME Typed, NEW f \in Seq(Files), NEW id
  PROVE  LET s == sort_by_path(f, Filter, id)
         IN s \in Seq(Files) /\ ToSet(s) = ToSet(f) /\ (f # <<>> => s # <<>>) /\ (Filter.rootCount = 0 => s = f)
<1> DEFINE gs == FileSubGroups(f, Filter.rootCount, Filter.rootOf, id)
           M == ToSet(f)
           flat == FlattenSeq(gs)
<1>1. M \subseteq Files
  BY ToSetIs
<1>2. Filter.rootCount \in Nat /\ \A p \in M : Filter.rootOf[p] \in 0..Filter.rootCount
  BY <1>1, FilterIs DEF Typed
<1>3. gs \in Seq(NonEmpty(M)) /\ \A p \in M : \E g \in ToSet(gs) : p \in ToSet(g)
  BY <1>2, SubGroupsAre
<1>4. f \in Seq(M) /\ (f # <<>> => M # {})
  <2>1. \A i \in 1..Len(f) : f[i] \in M
    BY ToSetIs
  <2>2. f # <<>> => 1 \in 1..Len(f)
    OBVIOUS
  <2> HIDE DEF M
  <2> QED BY <2>1, <2>2
<1> HIDE DEF gs, M
<1>5. gs \in Seq(Seq(M))
  <2> DEFINE X == NonEmpty(M)
             Y == Seq(M)
  <2>1. X \subseteq Y /\ gs \in Seq(X)
    BY <1>3 DEF NonEmpty
  <2> HIDE DEF X, Y
  <2>2. gs \in Seq(Y)
    BY <2>1
  <2> QED BY <2>2 DEF Y
<1>6. flat \in Seq(M) /\ ToSet(flat) = UNION {ToSet(gs[i]) : i \in 1..Len(gs)} /\ ToSet(flat) \subseteq M
  BY <1>5, FlattenIs, ToSetIs
<1>7. M \subseteq ToSet(flat)
  <2> DEFINE Y == Seq(M)
  <2> SUFFICES ASSUME NEW p \in M PROVE p \in ToSet(flat)
    OBVIOUS
  <2>1. PICK g \in ToSet(gs) : p \in ToSet(g)
    BY <1>3
  <2> HIDE DEF Y
  <2>2. PICK i \in 1..Len(gs) : g = gs[i]
    BY <1>5, <2>1, ToSetIs DEF Y
  <2> QED BY <1>6, <2>1, <2>2
<1>8. f # <<>> => flat # <<>>
  <2>1. ToSet(<<>>) = {}
    BY DEF ToSet
  <2> HIDE DEF flat
  <2> QED BY <1>4, <1>7, <2>1
<1> HIDE DEF flat
<1>9. flat \in Seq(Files)
  BY <1>1, <1>6
<1>10. sort_by_path(f, Filter, id) = IF Filter.rootCount = 0 THEN f ELSE flat
  BY DEF sort_by_path, flat, gs
<1> QED BY <1>6, <1>7, <1>8, <1>9, <1>10 DEF M

\* What is filtered of files that are there once is there once.
LEMMA FilteredOnce ==
  ASSUME NEW S, NEW s \in Seq(S), NEW T, Once(s)
  PROVE  Once(Filtered(s, T))
<1>1. PICK at : Picks(s, T, Filtered(s, T), at)
  BY FilteredIs
<1> QED BY <1>1 DEF Picks, Once

\* group.rs, group_files: each group that is found has files of one class.
LEMMA GroupOf ==
  ASSUME Typed, Group
  PROVE  FoundOf'
<1> DEFINE R == [len : Nat, files : Seq(Files)]
           T == {p \in Files : Scanned(p) /\ changed[p] = 0}
           same == [i \in DOMAIN Classes |-> [Classes[i] EXCEPT !.files = Filtered(@, T)]]
           wanted(g) == /\ g.files # <<>>
                        /\ IF Config.transform THEN matches(g.files, Filter)
                           ELSE matches_strictly(g.files, Filter)
           groups == Filtered(same, {g \in ToSet(same) : wanted(g)})
           n == Len(Classes)
<1>1. found' = [i \in DOMAIN groups |-> [groups[i] EXCEPT !.files = sort_by_path(@, Filter, Inode)]]
      /\ UNCHANGED scenario
  BY DEF Group
<1>2. Classes \in Seq(R)
  BY ScenarioIs DEF Typed, GroupsOf
<1>3. ASSUME NEW g \in R, NEW f \in Seq(Files)
      PROVE [g EXCEPT !.files = f] \in R /\ [g EXCEPT !.files = f].files = f /\ [g EXCEPT !.files = f].len = g.len
  OBVIOUS
<1>x. ASSUME NEW g \in R PROVE g.files \in Seq(Files)
  OBVIOUS
<1> HIDE DEF R, T
<1>4. n \in Nat /\ DOMAIN Classes = 1..n /\ \A c \in 1..n : Classes[c] \in R /\ Classes[c].files \in Seq(Files)
  BY <1>2, <1>x
<1>5. ASSUME NEW c \in 1..n
      PROVE  /\ same[c] \in R /\ same[c].files = Filtered(Classes[c].files, T) /\ same[c].len = Classes[c].len
             /\ ToSet(same[c].files) \subseteq ToSet(Classes[c].files) /\ Once(same[c].files)
  <2> DEFINE f == Filtered(Classes[c].files, T)
  <2>1. Classes[c] \in R /\ Classes[c].files \in Seq(Files)
    BY <1>4
  <2>2. f \in Seq(Files) /\ ToSet(f) \subseteq ToSet(Classes[c].files)
    <3> DEFINE F == Classes[c].files
    <3>1. F \in Seq(Files)
      BY <2>1
    <3> HIDE DEF F
    <3>2. Filtered(F, T) \in Seq(Files) /\ ToSet(Filtered(F, T)) = ToSet(F) \cap T
      BY <3>1, FilteredIs
    <3> QED BY <3>2 DEF F
  <2>3. same[c] = [Classes[c] EXCEPT !.files = f]
    BY <1>4
  <2>4. Once(Classes[c].files)
    BY <1>4, ClassesOnce DEF Typed
  <2>5. Once(f)
    BY <2>1, <2>4, FilteredOnce
  <2> HIDE DEF f, same
  <2> QED BY <1>3, <2>1, <2>2, <2>3, <2>5 DEF f
<1>6. same \in Seq(R) /\ Len(same) = n
  <2>1. same = [i \in 1..n |-> same[i]]
    BY <1>4
  <2> HIDE DEF same, n
  <2> QED BY <1>4, <1>5, <2>1
<1> HIDE DEF same, wanted
<1>7. groups \in Seq(R) /\ \A i \in 1..Len(groups) : wanted(groups[i]) /\ \E c \in 1..n : groups[i] = same[c]
  <2> DEFINE W == {g \in ToSet(same) : wanted(g)}
  <2> HIDE DEF W
  <2>1. Filtered(same, W) \in Seq(R) /\ ToSet(Filtered(same, W)) = ToSet(same) \cap W
    BY <1>6, FilteredIs
  <2>2. \A i \in 1..Len(Filtered(same, W)) : Filtered(same, W)[i] \in ToSet(same) \cap W
    BY <2>1, ToSetIs
  <2>3. ToSet(same) = {same[c] : c \in 1..n}
    BY <1>6, ToSetIs
  <2>4. groups = Filtered(same, W)
    BY DEF W
  <2> HIDE DEF groups
  <2> QED BY <2>1, <2>2, <2>3, <2>4 DEF W
<1> HIDE DEF groups
<1>8. Len(found') = Len(groups) /\ \A i \in 1..Len(groups) :
        found'[i] = [groups[i] EXCEPT !.files = sort_by_path(@, Filter, Inode)]
  <2>1. DOMAIN groups = 1..Len(groups) /\ Len(groups) \in Nat
    BY <1>7
  <2> QED BY <1>1, <2>1
<1>9. ASSUME NEW i \in 1..Len(groups) PROVE OfClass(found'[i])
  <2> DEFINE g == groups[i]
             s == sort_by_path(g.files, Filter, Inode)
  <2>1. g \in R /\ g.files \in Seq(Files) /\ wanted(g)
    BY <1>7, <1>x
  <2>2. PICK c \in 1..n : g = same[c]
    BY <1>7
  <2>3. s \in Seq(Files) /\ ToSet(s) = ToSet(g.files) /\ (g.files # <<>> => s # <<>>)
        /\ (Filter.rootCount = 0 => s = g.files)
    BY <2>1, SortKeeps
  <2>4. g.files # <<>>
    BY <2>1 DEF wanted
  <2>5. found'[i] = [g EXCEPT !.files = s]
    BY <1>8
  <2> HIDE DEF g, s
  <2>6. found'[i].files = s /\ found'[i].len = g.len
    BY <1>3, <2>1, <2>3, <2>5
  <2>7. s # <<>> /\ g.len = Classes[c].len /\ ToSet(s) \subseteq ToSet(Classes[c].files)
        /\ (Filter.rootCount = 0 => Once(s))
    BY <1>5, <2>2, <2>3, <2>4
  <2> QED BY <2>6, <2>7 DEF OfClass, n
<1>10. Classes' = Classes /\ Filter' = Filter
  BY <1>1, ScenarioStays
<1> QED BY <1>8, <1>9, <1>10 DEF FoundOf, OfClass

\* Every step keeps that.
LEMMA FoundOfKept ==
  ASSUME Typed, FoundOf, [Next]_vars
  PROVE  FoundOf'
<1>1. CASE Group
  BY <1>1, GroupOf
<1>2. CASE ~Group
  <2>1. UNCHANGED <<scenario, found>>
    BY <1>2 DEF Next, Tick, Modify, Pipeline, Refuse, BeginReport, WriteLine, Complete, OpenReport, ReadHeader,
                ReadGroup, Stop, Over, vars, groupVars
  <2>2. Classes' = Classes /\ Filter' = Filter
    BY <2>1, ScenarioStays
  <2> QED BY <2>1, <2>2 DEF FoundOf, OfClass
<1> QED BY <1>1, <1>2

\* The first process's numbers of files, and what it drops of subgroups.
LEMMA CountsTyped ==
  ASSUME Typed, NEW files \in Seq(Files)
  PROVE  /\ redundant_count(files, Filter) \in Int /\ missing_count(files, Filter) \in Int
         /\ Filter.rf \in Nat
<1> DEFINE gs == SubGroupsIn(files, Filter)
           M == ToSet(files)
           n == Max({Filter.rf, 1})
<1>1. Filter.rootCount \in Nat /\ \A p \in M : Filter.rootOf[p] \in 0..Filter.rootCount
  <2>1. M \subseteq Files
    BY ToSetIs
  <2> QED BY <2>1, FilterIs DEF Typed
<1>2. gs \in Seq(NonEmpty(M))
  BY <1>1, SubGroupsAre DEF SubGroupsIn
<1>3. Filter.rf \in Nat
  <2>1. /\ Config \in GroupConfigs /\ Resolved = [Config EXCEPT !.baseDir = Resolved.baseDir]
    BY ResolvedIs DEF Typed
  <2> DEFINE d == [Config EXCEPT !.baseDir = Resolved.baseDir]
  <2>2. rf_over(d) = rf_over(Config) /\ rf_under(d) = rf_under(Config) /\ rf_over(Config) \in Nat /\ rf_under(Config) \in Nat
        /\ d.unique = Config.unique /\ d.rfUnder = Config.rfUnder
    BY <2>1, ConfigIs
  <2>3. Resolved = d
    BY <2>1
  <2> HIDE DEF d
  <2>4. Filter = group_filter(Resolved, Inode)
    BY ScenarioIs DEF Typed
  <2>5. Filter.rf = rf_under(Resolved) \/ Filter.rf = rf_over(Resolved)
    BY <2>4 DEF group_filter
  <2> QED BY <2>2, <2>3, <2>5
<1>4. n \in Nat /\ n # 0
  <2>1. Filter.rf \in Int /\ 1 \in Int
    BY <1>3
  <2>2. n \in {Filter.rf, 1} /\ n >= 1
    BY <2>1, GreaterIs
  <2> HIDE DEF n
  <2> QED BY <1>3, <2>2
<1>5. Len(gs) \in Nat /\ Len(files) \in Nat
  <2> DEFINE X == NonEmpty(M)
  <2> HIDE DEF X, gs
  <2> QED BY <1>2 DEF X
<1>6. Len(FlattenSeq(SubSeq(gs, Min({n, Len(gs)}) + 1, Len(gs)))) \in Nat
  <2> DEFINE drop == KeepAtLeast(n, <<>>, gs).drop
  <2>1. drop \in Seq(M) /\ drop = FlattenSeq(SubSeq(gs, Min({n, Len(gs)}) + 1, Len(gs)))
    BY <1>2, <1>4, FirstKept
  <2> HIDE DEF drop, M
  <2>2. Len(drop) \in Nat
    BY <2>1
  <2> QED BY <2>1, <2>2
<1>7. Max({0, Len(files) - n}) \in Int
  <2>1. 0 \in Int /\ Len(files) - n \in Int
    BY <1>4, <1>5
  <2> HIDE DEF n
  <2> QED BY <2>1, GreaterIs
<1>8. Max({0, Filter.rf - Len(gs)}) \in Int
  <2>1. 0 \in Int /\ Filter.rf - Len(gs) \in Int
    BY <1>3, <1>5
  <2> HIDE DEF gs
  <2> QED BY <2>1, GreaterIs
<1>9. redundant_count(files, Filter) \in Int
  <2> HIDE DEF gs, n
  <2>1. redundant_count(files, Filter) =
          CASE Filter.under -> 0
            [] ~Filter.under /\ Filter.rootCount = 0 -> Max({0, Len(files) - n})
            [] OTHER -> Len(FlattenSeq(SubSeq(gs, Min({n, Len(gs)}) + 1, Len(gs))))
    BY DEF redundant_count, gs, n
  <2> QED BY <1>6, <1>7, <2>1
<1>10. missing_count(files, Filter) \in Int
  <2> HIDE DEF gs
  <2>1. missing_count(files, Filter) = IF Filter.under THEN Max({0, Filter.rf - Len(gs)}) ELSE 0
    BY DEF missing_count, subgroup_count, gs
  <2> QED BY <1>8, <2>1
<1> QED BY <1>3, <1>9, <1>10

\* A group that was found.
LEMMA FoundTyped ==
  ASSUME Typed
  PROVE  /\ Len(found) \in Nat
         /\ \A i \in 1..Len(found) : found[i] \in [len : Nat, files : Seq(Files)] /\ found[i].files \in Seq(Files)
<1> DEFINE X == [len : Nat, files : Seq(Files)]
<1>1. found \in Seq(X) /\ \A g \in X : g.files \in Seq(Files)
  BY DEF Typed, GroupsOf
<1> HIDE DEF X
<1>2. Len(found) \in Nat /\ \A i \in 1..Len(found) : found[i] \in X
  BY <1>1
<1> QED BY <1>1, <1>2 DEF X

\* What is announced are numbers.
LEMMA AnnouncedTyped ==
  ASSUME Typed
  PROVE  Redundant(found, Filter) \in Int /\ Missing(found, Filter) \in Int
<1> DEFINE n == Len(found)
           a == [i \in 1..n |-> redundant_count(found[i].files, Filter)]
           b == [i \in 1..n |-> missing_count(found[i].files, Filter)]
<1>1. n \in Nat /\ \A i \in 1..n : /\ redundant_count(found[i].files, Filter) \in Int
                                   /\ missing_count(found[i].files, Filter) \in Int
  BY FoundTyped, CountsTyped
<1>2. a \in Seq(Int) /\ b \in Seq(Int)
  <2> HIDE DEF n
  <2> QED BY <1>1
<1>3. ASSUME NEW c \in Seq(Int) PROVE Total(c) \in Int
  <2>1. PICK f : Sums(c, f) /\ Total(c) = f[Len(c)]
    BY TotalIs
  <2>2. Len(c) \in 0..Len(c)
    OBVIOUS
  <2> QED BY <2>1, <2>2 DEF Sums
<1>4. Redundant(found, Filter) = Total(a) /\ Missing(found, Filter) = Total(b)
  BY DEF Redundant, Missing
<1> HIDE DEF a, b
<1> QED BY <1>2, <1>3, <1>4

\* A header that is read is not Failed.
LEMMA HeaderTyped ==
  ASSUME Typed
  PROVE  /\ ReadJsonHeader(TheHeader) # Failed
         /\ split(TrimmedEnd(join(Words))) \in Seq(Texts) => TextHeader(TheHeader) # Failed
<1> DEFINE H == [timestamp : Nat, command : Seq(Texts), baseDir : Path, redundant : Int, missing : Int]
           d == Resolved.baseDir
<1>1. Failed \notin H
  BY TextsAssumption
<1>2. Words \in Seq(Texts) /\ IsPath(d)
  BY ScenarioIs, ResolvedIs DEF Typed, Canonical
<1>3. /\ TheHeader.timestamp = now /\ TheHeader.command = Words /\ TheHeader.baseDir = d
      /\ TheHeader.redundant \in Int /\ TheHeader.missing \in Int /\ now \in Nat /\ Millis(now) \in Nat
  <2>1. ASSUME NEW t \in Nat, NEW m \in Nat \ {0} PROVE t - (t % m) \in Nat
    BY <2>1
  <2>2. now \in Nat /\ Millis(now) \in Nat
    BY <2>1, TicksAssumption DEF Millis, Typed
  <2>3. Redundant(found, Filter) \in Int /\ Missing(found, Filter) \in Int
    BY AnnouncedTyped
  <2> QED BY <2>2, <2>3 DEF TheHeader
<1> HIDE DEF d
<1>4. from_escaped_string(to_escaped_string(d)) \in Path
  BY <1>2, EscapedPath DEF IsPath
<1>5. TextBaseDir(TrimmedEnd(to_escaped_string(d))) \in Path
  <2>1. TrimmedEnd(to_escaped_string(d)) \in Texts
    BY <1>2, EscapedPath, EndTrimmed
  <2> QED BY <2>1, FromPath DEF TextBaseDir, IsPath
<1>6. ReadJsonHeader(TheHeader) \in H
  BY <1>2, <1>3, <1>4 DEF ReadJsonHeader
<1>7. split(TrimmedEnd(join(Words))) \in Seq(Texts) => TextHeader(TheHeader) \in H
  BY <1>3, <1>5 DEF TextHeader
<1> HIDE DEF H
<1> QED BY <1>1, <1>6, <1>7

\* A group that was found is neither Failed nor the end.
LEMMA FoundThere ==
  ASSUME Typed, FoundOf, NEW i \in 1..Len(found)
  PROVE  found[i] \notin {Failed, NoGroup}
<1>1. found[i] \in [len : Nat, files : Seq(Files)] /\ found[i].files # <<>>
  BY FoundTyped DEF FoundOf, OfClass
<1>2. found[i] # NoGroup
  BY <1>1 DEF NoGroup
<1>3. found[i] \in [len : Nat, files : Seq(Path)]
  <2> DEFINE P == Path
  <2>1. Files \subseteq P
    BY ScenarioIs DEF Typed
  <2> HIDE DEF P
  <2>2. \A s \in Seq(Files) : s \in Seq(P)
    BY <2>1
  <2>3. found[i] \in [len : Nat, files : Seq(P)]
    BY <1>1, <2>2
  <2> QED BY <2>3 DEF P
<1> QED BY <1>2, <1>3, TextsAssumption


\* The command line of the first process is one that get_command_config accepts.
LEMMA PreviousThere ==
  ASSUME Typed, NEW h, h.command = Words, h.baseDir \in Path
  PROVE  Previous(h) # Failed
<1> DEFINE P == ParsedPaths
           C == [isolate : BOOLEAN, matchLinks : BOOLEAN, unique : BOOLEAN, transform : BOOLEAN,
                 rfOver : Int, rfUnder : Int, baseDir : Path, paths : Seq(Path)]
           c == Config
<1>1. c = try_parse_from(h.command) /\ c \in GroupConfigs
  BY ScenarioIs DEF Typed
<1>2. P \subseteq Path
  <2>1. CurDir \in Texts
    BY TextsAssumption DEF Texts, CurDir
  <2>2. <<CurDir>> \in Path
    BY <2>1 DEF Path
  <2> QED BY <2>2, FromPath DEF ParsedPaths, IsPath
<1>3. Counts \cup {NoCount} \subseteq Int
  BY DEF Counts, NoCount
<1>4. GroupConfigs \subseteq C
  <2> DEFINE N == Counts \cup {NoCount}
             Q == Path
  <2>1. N \subseteq Int /\ P \subseteq Q
    BY <1>2, <1>3
  <2>2. GroupConfigs = [isolate : BOOLEAN, matchLinks : BOOLEAN, unique : BOOLEAN, transform : BOOLEAN,
                        rfOver : N, rfUnder : N, baseDir : P, paths : Seq(P)]
    BY DEF GroupConfigs
  <2> HIDE DEF N, P, Q
  <2>3. Seq(P) \subseteq Seq(Q)
    BY <2>1
  <2> QED BY <2>1, <2>2, <2>3 DEF Q
<1>5. Failed \notin C
  BY TextsAssumption
<1>6. [c EXCEPT !.baseDir = h.baseDir] \in C /\ c # Failed
  <2>1. c \in C
    BY <1>1, <1>4
  <2> HIDE DEF c
  <2> QED BY <1>5, <2>1
<1> HIDE DEF C, c
<1> QED BY <1>1, <1>5, <1>6 DEF Previous

\* The lines there are, if the first process did not fail, are lines of the report.
LEMMA LinesWhole ==
  ASSUME Typed, Writes, stage # "failed"
  PROVE  /\ Len(lines) \in Nat /\ Len(TheReport) \in Nat /\ Len(lines) <= Len(TheReport)
         /\ \A i \in 1..Len(lines) : lines[i] = TheReport[i]
         /\ stage = "complete" => Len(lines) = Len(TheReport)
         /\ Len(lines) >= 1 => lines # <<>>
<1>1. Len(lines) \in Nat /\ Len(<<>>) = 0
  BY ProperIs DEF Writes
<1> QED BY <1>1, ReportTyped DEF Writes

\* The header of the report.
LEMMA HeaderThere ==
  ASSUME Typed, Format \in {"default", "json"}
  PROVE  /\ Len(TheReport) >= 7
         /\ Format = "default" =>
              /\ TheReport[1].kind = "version"
              /\ \A i \in 1..7 : TheReport[i].kind = HeaderKinds[i]
              /\ TheReport[2].field = Millis(now) /\ TheReport[3].field = join(Words)
              /\ TheReport[4].field = to_escaped_string(Resolved.baseDir)
              /\ TheReport[6].field = TheHeader.redundant /\ TheReport[7].field = TheHeader.missing
         /\ Format = "json" =>
              TheReport[1].kind = "open" /\ TheReport[Len(TheReport)].kind = "close"
<1>1. Format \in Formats /\ found \in GroupsOf(Files) /\ Len(TheReport) \in Nat
  BY ScenarioIs, ReportTyped DEF Typed
<1>2. CASE Format = "json"
  <2>1. HasReport(TheReport, TheHeader, found, "json", 1, Len(TheReport) - 1)
        /\ TheReport[1].kind = "open" /\ TheReport[Len(TheReport)].kind = "close"
    BY <1>1, <1>2, WrittenIs DEF TheReport
  <2>2. Len(TheReport) - 1 >= 1 + 7
    BY <2>1 DEF HasReport
  <2> QED BY <1>1, <1>2, <2>1, <2>2
<1>3. CASE Format = "default"
  <2>1. HasReport(TheReport, TheHeader, found, "default", 0, Len(TheReport)) /\ TheReport[1].kind = "version"
    BY <1>1, <1>3, WrittenIs DEF TheReport
  <2> DEFINE L == HeaderLines(TheHeader, "default")
             K == HeaderKinds
  <2>2. Len(TheReport) >= 7 /\ \A i \in 1..7 : TheReport[0 + i] = L[i]
    BY <2>1 DEF HasReport
  <2>3. \A i \in 1..7 : TheReport[i] = L[i] /\ L[i].kind = K[i]
    <3>1. \A i \in 1..7 : 0 + i = i
      OBVIOUS
    <3>2. \A i \in 1..7 : L[i].kind = K[i]
      BY HeaderLinesAre
    <3> HIDE DEF L, K
    <3> QED BY <2>2, <3>1, <3>2
  <2>4. /\ L[2].field = Millis(now) /\ L[3].field = join(Words)
        /\ L[4].field = to_escaped_string(Resolved.baseDir)
        /\ L[6].field = TheHeader.redundant /\ L[7].field = TheHeader.missing
    <3>1. /\ HeaderField(TheHeader, "timestamp", "default") = Millis(now)
          /\ HeaderField(TheHeader, "command", "default") = join(Words)
          /\ HeaderField(TheHeader, "base dir", "default") = to_escaped_string(Resolved.baseDir)
          /\ HeaderField(TheHeader, "redundant", "default") = TheHeader.redundant
          /\ HeaderField(TheHeader, "missing", "default") = TheHeader.missing
      BY DEF HeaderField, TheHeader
    <3>2. /\ L[2].field = HeaderField(TheHeader, "timestamp", "default")
          /\ L[3].field = HeaderField(TheHeader, "command", "default")
          /\ L[4].field = HeaderField(TheHeader, "base dir", "default")
          /\ L[6].field = HeaderField(TheHeader, "redundant", "default")
          /\ L[7].field = HeaderField(TheHeader, "missing", "default")
      BY HeaderLinesAre
    <3> HIDE DEF L
    <3> QED BY <3>1, <3>2
  <2> HIDE DEF L, K
  <2>5. \A i \in {2, 3, 4, 6, 7} : TheReport[i] = L[i]
    BY <2>3
  <2>6. /\ TheReport[2] = L[2] /\ TheReport[3] = L[3] /\ TheReport[4] = L[4]
        /\ TheReport[6] = L[6] /\ TheReport[7] = L[7]
    BY <2>5
  <2> QED BY <1>3, <2>1, <2>2, <2>3, <2>4, <2>6 DEF K
<1> QED BY <1>2, <1>3

\* TextReportReader::read_header accepts the header of the report.
LEMMA TextHeaderThere ==
  ASSUME Typed, Writes, stage # "failed", Format = "default", Quotable(Words), Len(lines) >= 7
  PROVE  read_header(lines) # Failed /\ Previous(read_header(lines)) # Failed
<1>1. /\ \A i \in 1..7 : TheReport[i].kind = HeaderKinds[i]
      /\ TheReport[2].field = Millis(now) /\ TheReport[3].field = join(Words)
      /\ TheReport[4].field = to_escaped_string(Resolved.baseDir)
      /\ TheReport[6].field = TheHeader.redundant /\ TheReport[7].field = TheHeader.missing
  BY HeaderThere
<1>2. Len(lines) \in Nat /\ \A i \in 1..Len(lines) : lines[i] = TheReport[i]
  BY LinesWhole
<1>3. \A i \in 1..7 : i \in 1..Len(lines)
  BY <1>2
<1>4. split(TrimmedEnd(join(Words))) = Words /\ Words \in Seq(Texts) /\ Words # Failed
  <2>1. Words \in Seq(Texts)
    BY ScenarioIs DEF Typed
  <2> QED BY <2>1, CommandReturns, TextsAssumption
<1> DEFINE K == HeaderKinds
<1>5. Len(K) = 7
  BY DEF HeaderKinds
<1> HIDE DEF K
<1>6. \A i \in 1..Len(K) : lines[i].kind = K[i]
  BY <1>1, <1>2, <1>3, <1>5 DEF K
<1>7. /\ lines[2] = TheReport[2] /\ lines[3] = TheReport[3] /\ lines[4] = TheReport[4]
      /\ lines[6] = TheReport[6] /\ lines[7] = TheReport[7]
  <2>1. 2 \in 1..7 /\ 3 \in 1..7 /\ 4 \in 1..7 /\ 6 \in 1..7 /\ 7 \in 1..7
    OBVIOUS
  <2> QED BY <1>2, <1>3, <2>1
<1> DEFINE h == TextHeader(TheHeader)
<1>8. h = [timestamp |-> Millis(now), command |-> split(TrimmedEnd(join(Words))),
           baseDir |-> TextBaseDir(TrimmedEnd(to_escaped_string(Resolved.baseDir))),
           redundant |-> TheHeader.redundant, missing |-> TheHeader.missing]
  BY DEF TextHeader, TheHeader
<1> HIDE DEF h
<1>9. read_header(lines) = h
  <2>1. ~(Len(lines) < Len(K) \/ \E i \in 1..Len(K) : lines[i].kind # K[i])
    BY <1>2, <1>5, <1>6
  <2>2. read_header(lines) =
          (LET command == split(TrimmedEnd(lines[3].field))
           IN IF command = Failed THEN Failed
              ELSE [timestamp |-> lines[2].field, command |-> command,
                    baseDir |-> TextBaseDir(TrimmedEnd(lines[4].field)),
                    redundant |-> lines[6].field, missing |-> lines[7].field])
    BY <2>1 DEF read_header, K
  <2> QED BY <1>1, <1>4, <1>7, <1>8, <2>2
<1>10. h # Failed
  BY <1>4, HeaderTyped DEF h
<1>11. Previous(h) # Failed
  <2>1. h.command = Words /\ h.baseDir = From(TrimmedEnd(to_escaped_string(Resolved.baseDir)))
    BY <1>4, <1>8 DEF TextBaseDir
  <2>2. IsPath(Resolved.baseDir)
    BY ResolvedIs DEF Typed, Canonical
  <2>3. TrimmedEnd(to_escaped_string(Resolved.baseDir)) \in Texts
    BY <2>2, EscapedPath, EndTrimmed
  <2>4. h.baseDir \in Path
    BY <2>1, <2>3, FromPath DEF IsPath
  <2> QED BY <2>1, <2>4, PreviousThere
<1> QED BY <1>9, <1>10, <1>11

\* So does JsonReportReader, of a report that is complete.
LEMMA JsonHeaderThere ==
  ASSUME Typed, Writes, stage = "complete", Format = "json"
  PROVE  JsonHeader(lines) # Failed /\ Previous(JsonHeader(lines)) # Failed
<1>1. Len(TheReport) >= 7 /\ TheReport[1].kind = "open" /\ TheReport[Len(TheReport)].kind = "close"
  BY HeaderThere
<1>2. /\ Len(lines) \in Nat /\ Len(lines) = Len(TheReport) /\ lines # <<>>
      /\ \A i \in 1..Len(lines) : lines[i] = TheReport[i]
  BY <1>1, LinesWhole
<1>3. 1 \in 1..Len(lines) /\ Len(lines) \in 1..Len(lines)
  BY <1>1, <1>2
<1>4. lines[1].kind = "open" /\ lines[Len(lines)].kind = "close"
  BY <1>1, <1>2, <1>3
<1>5. FormatOf(lines) = "json" /\ Last(lines).kind = "close"
  BY <1>4 DEF FormatOf, Last
<1> DEFINE h == ReadJsonHeader(TheHeader)
<1>6. JsonHeader(lines) = h
  <2>1. Format \in Formats /\ found \in GroupsOf(Files) /\ TheHeader.command \in Seq(Texts)
    BY ScenarioIs DEF Typed, TheHeader
  <2>2. Partly(lines, Written(Format, TheHeader, found)) /\ Len(lines) >= 1
    BY <1>2, LinesAre DEF TheReport
  <2> QED BY <1>5, <2>1, <2>2, JsonHeaderRead
<1>7. h.command = Words /\ h.baseDir \in Path
  <2>1. h.command = Words /\ h.baseDir = from_escaped_string(to_escaped_string(Resolved.baseDir))
    BY DEF ReadJsonHeader, TheHeader
  <2>2. IsPath(Resolved.baseDir)
    BY ResolvedIs DEF Typed, Canonical
  <2> HIDE DEF h
  <2> QED BY <2>1, <2>2, EscapedPath DEF IsPath
<1>8. h # Failed
  BY HeaderTyped
<1> HIDE DEF h
<1> QED BY <1>6, <1>7, <1>8, PreviousThere

\* The end of the list of groups is no failure.
LEMMA NothingIsNotFailed == NoGroup # Failed
<1> DEFINE P == Path
<1>1. NoGroup \in [len : Nat, files : Seq(P)]
  BY DEF NoGroup
<1> QED BY <1>1, TextsAssumption DEF P

\* TextReportIterator::next: if the lines of the next group are there, it is read as it was found.
LEMMA TextGroupThere ==
  ASSUME Typed, Format = "default", TextNamesPlain,
         NEW G \in [len : Nat, files : Seq(Files)],
         NEW left, Proper(left), Len(left) >= 1 + Len(G.files), left # <<>>, left[1] = GroupLine(G),
         \A j \in 1..Len(G.files) : left[1 + j] = PathLine(G.files[j])
  PROVE  next_group(left) = G
<1> DEFINE c == Len(G.files)
           l == Len(left) - 1
           m == Min({c, l})
           paths == [i \in 1..m |-> path_in(left[i + 1])]
<1>1. /\ G = [len |-> G.len, files |-> G.files] /\ G.files \in Seq(Files) /\ c \in Nat
      /\ \A j \in 1..c : G.files[j] \in Files
  OBVIOUS
<1>2. left[1].kind = "group" /\ left[1].field.count = c /\ left[1].field.len = G.len
  BY DEF GroupLine
<1>3. next_group(left) = IF Len(paths) < c \/ Failed \in ToSet(paths) THEN Failed
                         ELSE [len |-> G.len, files |-> paths]
  BY <1>2 DEF next_group
<1> HIDE DEF c
<1>4. m = c
  <2>1. l \in Int /\ c \in Int /\ c <= l
    BY <1>1, ProperIs DEF c
  <2> HIDE DEF l
  <2>2. m \in {c, l} /\ m <= c
    BY <2>1, LesserIs
  <2> QED BY <2>1, <2>2
<1> HIDE DEF m
<1>5. ASSUME NEW j \in 1..c PROVE path_in(left[j + 1]) = G.files[j] /\ G.files[j] # Failed
  <2>1. G.files[j] \in Files
    BY <1>1
  <2>2. IsPath(G.files[j]) /\ NoBlanksAround(G.files[j])
    BY <2>1, ScenarioIs DEF Typed, TextNamesPlain
  <2>3. Reads(PathLine(G.files[j])) = G.files[j]
    BY <2>2, PathsReturn
  <2>4. left[j + 1] = PathLine(G.files[j])
    <3>1. j + 1 = 1 + j
      BY <1>1
    <3> QED BY <3>1 DEF c
  <2>5. G.files[j] # Failed
    <3>1. G.files[j] \in Seq(Texts)
      BY <2>2 DEF IsPath, Path
    <3> DEFINE T == Seq(Texts)
    <3>2. Failed \notin T
      BY TextsAssumption
    <3> HIDE DEF T
    <3>3. G.files[j] \in T
      BY <3>1 DEF T
    <3> QED BY <3>2, <3>3
  <2> QED BY <2>3, <2>4, <2>5 DEF Reads
<1>6. paths = G.files
  <2>1. paths = [i \in 1..c |-> G.files[i]]
    BY <1>4, <1>5
  <2>2. G.files = [i \in 1..c |-> G.files[i]]
    BY <1>1 DEF c
  <2> QED BY <2>1, <2>2
<1> HIDE DEF paths
<1>7. Len(paths) = c /\ Failed \notin ToSet(paths)
  <2>1. ToSet(G.files) = {G.files[j] : j \in 1..c} /\ Len(G.files) = c
    BY <1>1, ToSetIs DEF c
  <2> QED BY <1>5, <1>6, <2>1
<1> QED BY <1>1, <1>3, <1>6, <1>7

\* JsonReportReader: the same.
LEMMA JsonGroupThere ==
  ASSUME Typed, Format = "json", NEW G \in [len : Nat, files : Seq(Files)],
         NEW left, left[1] = GroupLine(G), \A j \in 1..Len(G.files) : left[1 + j] = PathLine(G.files[j])
  PROVE  JsonGroup(left) = G
<1> DEFINE c == Len(G.files)
           paths == [i \in 1..c |-> from_escaped_string(left[i + 1].field)]
<1>1. /\ G = [len |-> G.len, files |-> G.files] /\ G.files \in Seq(Files) /\ c \in Nat
      /\ \A j \in 1..c : G.files[j] \in Files
  OBVIOUS
<1>2. JsonGroup(left) = [len |-> G.len, files |-> paths]
  BY DEF JsonGroup, GroupLine
<1> HIDE DEF c
<1>3. ASSUME NEW j \in 1..c PROVE from_escaped_string(left[j + 1].field) = G.files[j]
  <2>1. G.files[j] \in Files
    BY <1>1
  <2>2. IsPath(G.files[j])
    BY <2>1, ScenarioIs DEF Typed
  <2>3. Reads(PathLine(G.files[j])) = G.files[j]
    BY <2>2, PathsReturn
  <2>4. left[j + 1] = PathLine(G.files[j])
    <3>1. j + 1 = 1 + j
      BY <1>1
    <3> QED BY <3>1 DEF c
  <2> QED BY <2>3, <2>4 DEF Reads, JsonPath
<1>4. paths = G.files
  <2>1. paths = [i \in 1..c |-> G.files[i]]
    BY <1>3
  <2>2. G.files = [i \in 1..c |-> G.files[i]]
    BY <1>1 DEF c
  <2> QED BY <2>1, <2>2
<1> QED BY <1>1, <1>2, <1>4

\* Reading the next group fails only if the report was not written to its end, and comes to an end
\* with the last group.
LEMMA GroupThere ==
  ASSUME Typed, Writes, Reading, FoundOf, TextNamesPlain, stage # "failed", ReadGroup
  PROVE  reader' # "failed" /\ (reader' = "done" => Len(read) = Len(found) /\ UNCHANGED read)
<1> DEFINE g == IF FormatOf(lines) = "json" THEN JsonGroup(LinesLeft) ELSE next_group(LinesLeft)
           k == Len(read)
           left == LinesLeft
<1>1. /\ reader = "groups" /\ Available(next + 1)
      /\ (left # <<>> /\ left[1].kind = "group" => Available(next + 1 + left[1].field.count))
  BY DEF ReadGroup
<1>2. \/ g = NoGroup /\ reader' = "done" /\ UNCHANGED read
      \/ g = Failed /\ reader' \in {"failed", "done"} /\ UNCHANGED read
      \/ g \notin {Failed, NoGroup} /\ reader' = reader
  BY DEF ReadGroup, Goto
<1> HIDE DEF g
<1>3. Informed /\ Positioned
  BY <1>1 DEF Reading, Active
<1>4. PICK end : InReport(found, TheReport, Base, LastLine, end) /\ k \in 0..Len(found) /\ next = end[k]
  BY <1>3 DEF Positioned
<1>5. /\ Len(lines) \in Nat /\ Len(TheReport) \in Nat /\ Len(lines) <= Len(TheReport) /\ next <= Len(lines)
      /\ \A i \in 1..Len(lines) : lines[i] = TheReport[i]
      /\ (stage = "complete" => Len(lines) = Len(TheReport)) /\ Proper(lines)
  BY <1>3, LinesWhole DEF Positioned, Writes
<1>6. found \in GroupsOf(Files) /\ Len(found) \in Nat /\ Format \in {"default", "json"}
  BY <1>3, FoundTyped DEF Typed, Informed
<1>7. /\ next \in Nat /\ (k = Len(found) => next = LastLine)
      /\ k # Len(found) =>
           LET G == found[k + 1]
           IN /\ G \in [len : Nat, files : Seq(Files)] /\ Len(G.files) \in Nat
              /\ next + 1 + Len(G.files) <= LastLine
              /\ TheReport[next + 1] = GroupLine(G)
              /\ \A j \in 1..Len(G.files) : TheReport[next + 1 + j] = PathLine(G.files[j])
  <2> HIDE DEF k
  <2>1. /\ end[k] \in Nat /\ (k = Len(found) => end[k] = LastLine)
        /\ k # Len(found) =>
             LET G == found[k + 1]
             IN /\ k + 1 \in 0..Len(found) /\ G \in [len : Nat, files : Seq(Files)]
                /\ Len(G.files) \in Nat /\ end[k + 1] = end[k] + 1 + Len(G.files) /\ end[k + 1] <= LastLine
                /\ TheReport[end[k] + 1] = GroupLine(G)
                /\ \A j \in 1..Len(G.files) : TheReport[end[k] + 1 + j] = PathLine(G.files[j])
    BY <1>4, <1>6, PlaceIs
  <2> QED BY <1>4, <2>1
<1>8. /\ Len(left) = Len(lines) - next /\ Len(left) \in Nat /\ Proper(left)
      /\ \A m \in 1..Len(left) : left[m] = lines[next + m]
      /\ (left = <<>> <=> Len(lines) = next)
  BY <1>5, <1>7, LeftIs DEF LinesLeft
<1> HIDE DEF left, k
<1>9. \A n : Available(n) => stage = "complete" \/ Len(lines) >= n
  BY DEF Available, Ended
<1>10. LastLine \in Nat /\ LastLine <= Len(TheReport)
       /\ (Format = "json" => stage = "complete" /\ LastLine = Len(TheReport) - 1 /\ Len(TheReport) >= 1
                              /\ TheReport[Len(TheReport)].kind = "close")
       /\ (Format = "default" => LastLine = Len(TheReport))
  <2>1. /\ LastLine \in Nat
        /\ Format = "json" => TheReport[Len(TheReport)].kind = "close" /\ Len(TheReport) >= 1
    BY <1>6, PlacesThere
  <2>2. Format = "json" => stage = "complete"
    BY <1>3 DEF Informed, Ended
  <2> QED BY <1>5, <1>6, <2>1, <2>2 DEF LastLine
<1>11. CASE k = Len(found)
  <2>1. CASE Format = "default"
    <3>1. left = <<>>
      BY <1>5, <1>7, <1>8, <1>10, <1>11, <2>1
    <3>2. g = NoGroup
      BY <1>3, <2>1, <3>1 DEF g, left, next_group, Informed
    <3>3. reader' # "failed" /\ UNCHANGED read
      <4>1. NoGroup # Failed
        BY NothingIsNotFailed
      <4> QED BY <1>1, <1>2, <3>2, <4>1
    <3> QED BY <1>11, <3>3 DEF k
  <2>2. CASE Format = "json"
    <3>1. next + 1 = Len(TheReport) /\ Len(lines) = Len(TheReport) /\ 1 \in 1..Len(left)
      BY <1>5, <1>7, <1>8, <1>10, <1>11, <2>2
    <3>2. left[1] = lines[next + 1] /\ next + 1 \in 1..Len(lines)
      BY <1>5, <1>8, <3>1, <1>7
    <3>3. left[1].kind = "close"
      BY <1>5, <1>10, <2>2, <3>1, <3>2
    <3>4. g = NoGroup
      BY <1>3, <2>2, <3>3 DEF g, left, JsonGroup, Informed
    <3>5. reader' # "failed" /\ UNCHANGED read
      <4>1. NoGroup # Failed
        BY NothingIsNotFailed
      <4> QED BY <1>1, <1>2, <3>4, <4>1
    <3> QED BY <1>11, <3>5 DEF k
  <2> QED BY <1>6, <2>1, <2>2
<1>12. CASE k # Len(found)
  <2> DEFINE G == found[k + 1]
             c == Len(G.files)
  <2>1. /\ G \in [len : Nat, files : Seq(Files)] /\ c \in Nat /\ next + 1 + c <= LastLine
        /\ TheReport[next + 1] = GroupLine(G)
        /\ \A j \in 1..c : TheReport[next + 1 + j] = PathLine(G.files[j])
    BY <1>7, <1>12
  <2>2. G \notin {Failed, NoGroup}
    <3>1. k + 1 \in 1..Len(found)
      BY <1>4, <1>6, <1>12 DEF k
    <3> QED BY <3>1, FoundThere
  <2> HIDE DEF G
  <2> HIDE DEF c
  <2>3. Len(lines) >= next + 1
    BY <1>1, <1>5, <1>7, <1>9, <1>10, <2>1
  <2>4. left # <<>> /\ left[1] = GroupLine(G) /\ Len(left) >= 1
    <3>1. 1 \in 1..Len(left) /\ next + 1 \in 1..Len(lines)
      BY <1>5, <1>7, <1>8, <2>3
    <3>2. left[1] = lines[next + 1]
      BY <1>8, <3>1
    <3> QED BY <1>5, <1>7, <1>8, <2>1, <2>3, <3>1, <3>2
  <2>5. left[1].kind = "group" /\ left[1].field.count = c
    BY <2>4 DEF GroupLine, c
  <2>6. Len(lines) >= next + 1 + c
    BY <1>1, <1>5, <1>7, <1>9, <1>10, <2>1, <2>4, <2>5
  <2>7. Len(left) >= 1 + c
    BY <1>5, <1>7, <1>8, <2>1, <2>6
  <2>8. \A j \in 1..c : left[1 + j] = PathLine(G.files[j])
    <3> SUFFICES ASSUME NEW j \in 1..c PROVE left[1 + j] = PathLine(G.files[j])
      OBVIOUS
    <3>1. ASSUME NEW n \in Nat, NEW d \in Nat, NEW l \in Nat, NEW t \in Nat, t >= 1 + d, l >= n + 1 + d, NEW i \in 1..d
          PROVE  1 + i \in 1..t /\ n + (1 + i) = n + 1 + i /\ n + 1 + i \in 1..l
      BY <3>1
    <3>2. 1 + j \in 1..Len(left) /\ next + (1 + j) = next + 1 + j /\ next + 1 + j \in 1..Len(lines)
      BY <1>5, <1>7, <1>8, <2>1, <2>6, <2>7, <3>1
    <3> QED BY <1>5, <1>8, <2>1, <3>2
  <2>9. g = G
    <3>1. CASE Format = "default"
      <4>1. next_group(left) = G
        BY <1>8, <2>1, <2>4, <2>7, <2>8, <3>1, TextGroupThere DEF c
      <4> QED BY <1>3, <3>1, <4>1 DEF g, left, Informed
    <3>2. CASE Format = "json"
      <4>1. JsonGroup(left) = G
        BY <2>1, <2>4, <2>8, <3>2, JsonGroupThere DEF c
      <4> QED BY <1>3, <3>2, <4>1 DEF g, left, Informed
    <3> QED BY <1>6, <3>1, <3>2
  <2> QED BY <1>1, <1>2, <2>2, <2>9
<1> QED BY <1>11, <1>12

\* Unless the first process fails, the second reads all of the report, of a command
\* line and of names that come back from it.
ReadFully ==
  Format \in {"default", "json"} /\ WordsQuotable /\ TextNamesPlain /\ stage # "failed" =>
    /\ reader # "failed"
    /\ reader = "done" => Informed /\ Len(read) = Len(found)

\* Each step keeps that.
LEMMA ReadFullyKept ==
  ASSUME Typed, Writes, Reading, FoundOf, ReadFully, [Next]_vars
  PROVE  ReadFully'
<1>1. Grows
  BY WritesKept
<1>2. UNCHANGED scenario
  BY DEF Next, Tick, Modify, Pipeline, Refuse, Group, BeginReport, WriteLine, Complete, OpenReport, ReadHeader,
         ReadGroup, Stop, Over, vars
<1>3. Format' = Format /\ Words' = Words /\ Files' = Files
  BY <1>2, ScenarioStays
<1>4. SUFFICES ASSUME Format \in {"default", "json"}, WordsQuotable, TextNamesPlain, stage # "failed", stage' # "failed"
               PROVE  reader' # "failed" /\ (reader' = "done" => Informed' /\ Len(read') = Len(found'))
  <2>1. WordsQuotable' => WordsQuotable
    BY <1>3 DEF WordsQuotable
  <2>2. TextNamesPlain' => TextNamesPlain
    BY <1>3 DEF TextNamesPlain
  <2>3. stage' # "failed" => stage # "failed"
    BY <1>1 DEF Grows, Ended
  <2> QED BY <1>3, <2>1, <2>2, <2>3 DEF ReadFully
<1>5. reader # "failed" /\ (reader = "done" => Informed /\ Len(read) = Len(found))
  BY <1>4 DEF ReadFully
<1>6. /\ Len(lines) \in Nat /\ Len(TheReport) \in Nat /\ \A i \in 1..Len(lines) : lines[i] = TheReport[i]
      /\ (stage = "complete" => Len(lines) = Len(TheReport)) /\ (Len(lines) >= 1 => lines # <<>>)
  BY <1>4, LinesWhole
<1>7. /\ Len(TheReport) >= 7
      /\ TheReport[1].kind = IF Format = "json" THEN "open" ELSE "version"
  BY <1>4, HeaderThere
<1>8. \A n : Available(n) => stage = "complete" \/ Len(lines) >= n
  BY <1>4 DEF Available, Ended
<1>9. lines # <<>> => FormatOf(lines) = Format
  <2>1. ASSUME lines # <<>> PROVE FormatOf(lines) = Format
    <3>1. Len(lines) >= 1
      BY <2>1, LinesAre
    <3>2. 1 \in 1..Len(lines)
      BY <1>6, <3>1
    <3>3. lines[1].kind = IF Format = "json" THEN "open" ELSE "version"
      BY <1>6, <1>7, <3>2
    <3> QED BY <1>4, <3>3 DEF FormatOf
  <2> QED BY <2>1
<1>10. CASE UNCHANGED dedupeVars
  <2>1. reader' = reader /\ read' = read /\ UNCHANGED <<header, config>>
    BY <1>10 DEF dedupeVars
  <2>2. ASSUME Informed PROVE Informed' /\ found' = found
    <3>1. Informed'
      BY <2>1, <2>2, InformedKept
    <3> QED BY <1>1, <2>2, <3>1 DEF Grows, Informed
  <2> QED BY <1>5, <2>1, <2>2
<1>11. CASE OpenReport
  <2>1. Available(1) /\ reader' = IF lines = <<>> \/ (lines # <<>> /\ FormatOf(lines) = "unknown") THEN "failed" ELSE "header"
    BY <1>11 DEF OpenReport, Goto
  <2>2. lines # <<>>
    BY <1>6, <1>7, <1>8, <2>1
  <2> QED BY <1>4, <1>9, <2>1, <2>2
<1>12. CASE ReadHeader
  <2> DEFINE json == FormatOf(lines) = "json"
             h == IF json THEN JsonHeader(lines) ELSE read_header(lines)
             failed == h = Failed \/ (h # Failed /\ Previous(h) = Failed)
  <2>1. /\ reader = "header" /\ (json => Ended) /\ Available(Len(HeaderKinds))
        /\ reader' = IF failed THEN "failed" ELSE "groups"
    BY <1>12 DEF ReadHeader, Goto
  <2>2. lines # <<>> /\ FormatOf(lines) = Format
    BY <1>9, <2>1 DEF Reading
  <2> HIDE DEF h
  <2>3. h # Failed /\ Previous(h) # Failed
    <3>1. CASE Format = "json"
      <4>1. stage = "complete"
        BY <1>4, <2>1, <2>2, <3>1 DEF Ended
      <4> QED BY <2>2, <3>1, <4>1, JsonHeaderThere DEF h
    <3>2. CASE Format = "default"
      <4>1. Len(HeaderKinds) = 7
        BY DEF HeaderKinds
      <4>2. Len(lines) >= 7
        BY <1>6, <1>7, <1>8, <2>1, <4>1
      <4> QED BY <1>4, <2>2, <3>2, <4>2, TextHeaderThere DEF h, WordsQuotable
    <3> QED BY <1>4, <3>1, <3>2
  <2> QED BY <2>1, <2>3
<1>13. CASE ReadGroup
  <2>1. reader' # "failed" /\ (reader' = "done" => Len(read) = Len(found) /\ UNCHANGED read)
    BY <1>4, <1>13, GroupThere
  <2>2. UNCHANGED <<found, header, config>> /\ reader = "groups"
    BY <1>13 DEF ReadGroup, groupVars
  <2>3. Informed'
    BY <2>2, InformedKept DEF Reading, Active
  <2> QED BY <2>1, <2>2, <2>3
<1>14. OpenReport \/ ReadHeader \/ ReadGroup \/ UNCHANGED dedupeVars
  BY DEF Next, Tick, Modify, Pipeline, Refuse, Group, BeginReport, WriteLine, Complete, Stop, Over, vars, dedupeVars
<1> QED BY <1>10, <1>11, <1>12, <1>13, <1>14

\* What holds of every state together with IInv.
FInv == FoundOf /\ ReadFully

\* All of the report is read.
LEMMA ReadsAll == Spec => []FInv
<1>1. Init => FInv
  <2> SUFFICES ASSUME Init PROVE FInv
    OBVIOUS
  <2>1. found = <<>> /\ reader = "open"
    BY DEF Init
  <2>2. Len(<<>>) = 0
    OBVIOUS
  <2> QED BY <2>1, <2>2 DEF FInv, FoundOf, ReadFully
<1>2. IInv /\ FInv /\ [Next]_vars => FInv'
  BY FoundOfKept, ReadFullyKept DEF IInv, FInv
<1>3. Spec => []IInv
  BY Invariant
<1> QED BY <1>1, <1>2, <1>3, PTL DEF Spec

\* So what was read is what was found.
LEMMA FullyRead ==
  ASSUME IInv, FInv, WordsQuotable, TextNamesPlain, stage = "complete", reader \in {"done", "failed"},
         Format \in {"default", "json"}
  PROVE  reader = "done" /\ read = found
<1>1. reader = "done" /\ Len(read) = Len(found)
  BY DEF FInv, ReadFully
<1>2. \A i \in 1..Len(read) : read[i] = found[i]
  <2>1. ReadsWhatWasFound
    BY FoundIsRead DEF IInv
  <2> QED BY <2>1 DEF ReadsWhatWasFound
<1>3. Proper(read)
  BY DEF IInv, Reading
<1> DEFINE X == [len : Nat, files : Seq(Files)]
<1>4. found \in Seq(X)
  BY DEF IInv, Typed, GroupsOf
<1> HIDE DEF X
<1> QED BY <1>1, <1>2, <1>3, <1>4, SameSequence

\* report.rs: the reader comes to the end of a report that was written to its end, without a failure,
\* and has read all of the groups, of a command line and of names that come back from a text report.
THEOREM ReadsToEnd ==
  Spec => [](/\ WordsQuotable /\ TextNamesPlain
             /\ stage = "complete" /\ reader \in {"done", "failed"} /\ Format \in {"default", "json"}
             => reader = "done" /\ read = found)
<1>1. IInv /\ FInv =>
        (/\ WordsQuotable /\ TextNamesPlain
         /\ stage = "complete" /\ reader \in {"done", "failed"} /\ Format \in {"default", "json"}
         => reader = "done" /\ read = found)
  BY FullyRead
<1> QED BY <1>1, Invariant, ReadsAll, PTL

\* Links are looked at by the number that is announced: it counts files, not links, without isolated roots.
LinksCounted ==
  Filter.rootCount = 0 => Config.matchLinks \/ \A p, q \in Files : Inode[p] = Inode[q] => p = q

\* The files of a class have its length, unless they are transformed.
LEMMA ClassLength ==
  ASSUME InScenario, ~Config.transform, NEW c \in 1..Len(Classes), NEW p \in ToSet(Classes[c].files)
  PROVE  Length[p] = Classes[c].len
<1>1. Scenario \in ToSet(Scenarios)
  BY ScenariosAssumption, ToSetIs DEF InScenario, Scenario
<1>2. \A d \in ToSet(Classes) :
        try_parse_from(Words).transform \/ \A q \in ToSet(d.files) : Length[q] = d.len
  BY <1>1, ScenariosAssumption DEF Classes, Words, Length
<1>3. Config = try_parse_from(Words)
  BY ScenarioIs
<1>4. Classes[c] \in ToSet(Classes)
  <2> DEFINE R == [len : Nat, files : Seq(Files)]
  <2>1. Classes \in Seq(R)
    BY ScenarioIs DEF GroupsOf
  <2> HIDE DEF R
  <2> QED BY <2>1, ToSetIs
<1> QED BY <1>2, <1>3, <1>4

\* Of groups of one file each, all but the first m are as many files.
LEMMA RestOfSingles ==
  ASSUME NEW S, NEW files \in Seq(S), NEW m \in Nat, m <= Len(files)
  PROVE  LET gs == [i \in 1..Len(files) |-> <<files[i]>>]
         IN Len(gs) = Len(files) /\ Len(FlattenSeq(SubSeq(gs, m + 1, Len(gs)))) = Len(files) - m
<1> DEFINE l == Len(files)
           gs == [i \in 1..l |-> <<files[i]>>]
           T == Seq(S)
           rest == SubSeq(gs, m + 1, l)
<1>1. l \in Nat /\ \A i \in 1..l : files[i] \in S
  OBVIOUS
<1>2. \A i \in 1..l : <<files[i]>> \in T /\ Len(<<files[i]>>) = 1
  BY <1>1
<1> HIDE DEF l, T
<1>3. gs \in Seq(T) /\ Len(gs) = l /\ \A i \in 1..l : Len(gs[i]) = 1
  BY <1>1, <1>2
<1> HIDE DEF gs
<1>4. rest \in Seq(T) /\ Len(rest) = l - m /\ \A i \in 1..(l - m) : rest[i] = gs[m + i]
  <2>1. m <= l
    BY DEF l
  <2> QED BY <1>1, <1>3, <2>1
<1> HIDE DEF rest
<1>5. \A i \in 1..Len(rest) : Len(rest[i]) = 1
  <2> SUFFICES ASSUME NEW i \in 1..Len(rest) PROVE Len(rest[i]) = 1
    OBVIOUS
  <2>1. i \in 1..(l - m) /\ m + i \in 1..l
    BY <1>1, <1>4
  <2> QED BY <1>3, <1>4, <2>1
<1>6. Len(FlattenSeq(rest)) = Len(rest)
  BY <1>4, <1>5, FlattenSingles DEF T
<1> QED BY <1>3, <1>4, <1>6 DEF rest, gs, l

\* FileGroup::redundant_count is the number of files that partition drops, if it keeps all of the
\* groups but the first ones and looks at all of the files.
LEMMA DropsRedundant ==
  ASSUME Typed, OwnAlike, LinksCounted, ~Filter.under,
         NEW files \in Seq(Files), Filter.rootCount = 0 => Once(files)
  PROVE  LET gs == SubGroupsIn(files, Filter)
             x == KeepAtLeast(Max({1, Filter.rf}), <<>>, gs)
         IN x.drop \in Seq(Files) /\ Len(x.drop) = redundant_count(files, Filter)
<1> DEFINE gs == SubGroupsIn(files, Filter)
           M == ToSet(files)
           n == Max({Filter.rf, 1})
           x == KeepAtLeast(Max({1, Filter.rf}), <<>>, gs)
           rest == SubSeq(gs, Min({n, Len(gs)}) + 1, Len(gs))
<1>1. /\ M \subseteq Files /\ Filter.rootCount \in Nat /\ Filter.rf \in Nat
      /\ \A p \in M : Filter.rootOf[p] \in 0..Filter.rootCount
  <2>1. M \subseteq Files
    BY ToSetIs
  <2> QED BY <2>1, CountsTyped, FilterIs DEF Typed
<1>2. gs \in Seq(NonEmpty(M))
  BY <1>1, SubGroupsAre DEF SubGroupsIn
<1>3. n \in Nat /\ n # 0 /\ Max({1, Filter.rf}) = n
  <2>1. Filter.rf \in Int /\ 1 \in Int /\ {1, Filter.rf} = {Filter.rf, 1}
    BY <1>1
  <2>2. n \in {Filter.rf, 1} /\ n >= 1
    BY <2>1, GreaterIs
  <2>3. Max({1, Filter.rf}) = n
    BY <2>1
  <2> HIDE DEF n
  <2> QED BY <1>1, <2>2, <2>3
<1> HIDE DEF n, gs
<1>4. x.drop \in Seq(M) /\ x.drop = FlattenSeq(rest)
  <2>1. x = KeepAtLeast(n, <<>>, gs)
    BY <1>3
  <2> HIDE DEF x
  <2> QED BY <1>2, <1>3, <2>1, FirstKept
<1> HIDE DEF x, rest
<1>5. x.drop \in Seq(Files)
  <2> HIDE DEF M
  <2> QED BY <1>1, <1>4
<1>6. redundant_count(files, Filter) =
        CASE Filter.under -> 0
          [] ~Filter.under /\ Filter.rootCount = 0 -> Max({0, Len(files) - n})
          [] OTHER -> Len(FlattenSeq(rest))
  BY DEF redundant_count, gs, n, rest
<1>7. CASE Filter.rootCount # 0
  BY <1>4, <1>5, <1>6, <1>7 DEF x, gs
<1>8. CASE Filter.rootCount = 0
  <2> DEFINE singles == [i \in 1..Len(files) |-> <<files[i]>>]
             m == Min({n, Len(gs)})
  <2>1. gs = singles
    <3> DEFINE rootOf == Filter.rootOf
               key == Filter.key
    <3>1. \A p \in M : rootOf[p] = 0
      BY <1>1, <1>8
    <3>2. \A p, q \in M : key[p] = key[q] => p = q
      <4>1. Filter = group_filter(Resolved, Inode)
        BY ScenarioIs DEF Typed
      <4>2. Resolved.matchLinks = Config.matchLinks
        <5> DEFINE d == [Config EXCEPT !.baseDir = Resolved.baseDir]
        <5>1. Config \in GroupConfigs /\ Resolved = d
          BY ResolvedIs DEF Typed
        <5>2. d.matchLinks = Config.matchLinks
          BY <5>1, ConfigIs
        <5> HIDE DEF d
        <5> QED BY <5>1, <5>2
      <4>3. \A p \in Files : key[p] = IF Config.matchLinks THEN p ELSE Inode[p]
        BY <4>1, <4>2 DEF group_filter, Files
      <4> HIDE DEF key, M
      <4> QED BY <1>1, <1>8, <4>3 DEF LinksCounted
    <3>3. gs = FileSubGroups(files, 0, rootOf, key)
      BY <1>8 DEF gs, SubGroupsIn
    <3>4. \A i, j \in 1..Len(files) : files[i] = files[j] => i = j
      BY <1>8 DEF Once
    <3> HIDE DEF rootOf, key
    <3> QED BY <3>1, <3>2, <3>3, <3>4, EachAlone DEF M
  <2>2. Len(gs) = Len(files) /\ Len(files) \in Nat
    BY <2>1
  <2>3. m \in {n, Len(files)} /\ m <= n /\ m <= Len(files)
    <3>1. n \in Int /\ Len(files) \in Int
      BY <1>3, <2>2
    <3> QED BY <2>2, <3>1, LesserIs
  <2>4. m \in Nat
    BY <1>3, <2>2, <2>3
  <2>5. rest = SubSeq(gs, m + 1, Len(gs))
    BY DEF rest
  <2> HIDE DEF m
  <2>6. Len(FlattenSeq(rest)) = Len(files) - m
    <3>1. /\ Len(singles) = Len(files)
          /\ Len(FlattenSeq(SubSeq(singles, m + 1, Len(singles)))) = Len(files) - m
      BY <2>3, <2>4, RestOfSingles
    <3> HIDE DEF singles
    <3> QED BY <2>1, <2>5, <3>1
  <2>7. Max({0, Len(files) - n}) = Len(files) - m
    <3> DEFINE a == Len(files) - n
               b == Max({0, a})
    <3>1. 0 \in Int /\ a \in Int
      BY <1>3, <2>2
    <3> HIDE DEF a
    <3>2. b \in {0, a} /\ b >= 0 /\ b >= a
      BY <3>1, GreaterIs
    <3> HIDE DEF b
    <3>3. b = Len(files) - m
      BY <1>3, <2>2, <2>3, <2>4, <3>2 DEF a
    <3> QED BY <3>3 DEF a, b
  <2> QED BY <1>4, <1>5, <1>6, <1>8, <2>6, <2>7 DEF x, gs
<1> QED BY <1>7, <1>8

\* What dedupe decides for a group as it was found, if nothing changed: it drops as many files as
\* fclones group counted in it.
LEMMA GroupDropped ==
  ASSUME Typed, Writes, Informed, FoundOf, Previous(header) = Resolved, OwnAlike, LinksCounted,
         ~Filter.under, Own.rfOver = NoCount, \A p \in Files : changed[p] = 0, NEW i \in 1..Len(found)
  PROVE  LET b == Decision(found[i]).drop
         IN b \in Seq(Files) /\ Len(b) = redundant_count(found[i].files, Filter)
<1> DEFINE g == found[i]
           files == g.files
           gs == SubGroupsIn(files, Filter)
           M == ToSet(files)
           c == Resolved
<1>1. g \in [len : Nat, files : Seq(Files)] /\ files \in Seq(Files) /\ OfClass(g)
  BY FoundTyped DEF FoundOf
<1>2. M \subseteq Files
  BY <1>1, ToSetIs
<1>3. Filter = group_filter(c, Inode) /\ Config = try_parse_from(Words)
  BY ScenarioIs DEF Typed
<1>4. /\ c.transform = Config.transform /\ c.matchLinks = Config.matchLinks /\ Config.matchLinks \in BOOLEAN
  <2> DEFINE d == [Config EXCEPT !.baseDir = Resolved.baseDir]
  <2>1. Config \in GroupConfigs /\ Resolved = d
    BY ResolvedIs DEF Typed
  <2>2. d.matchLinks = Config.matchLinks /\ d.transform = Config.transform /\ Config.matchLinks \in BOOLEAN
    BY <2>1, ConfigIs
  <2> HIDE DEF d
  <2> QED BY <2>1, <2>2
<1> HIDE DEF g, c
<1>5. /\ config.rfOver = rf_over(c) /\ config.noCheckSize = c.transform
      /\ config.matchLinks = (Own.matchLinks \/ c.matchLinks)
      /\ config.roots = IF c.isolate THEN input_paths(c) ELSE <<>>
  BY DEF Informed, Merged, OwnAlike, c
<1>6. config.modifiedBefore \in Nat
  BY InformedIs
<1>7. /\ Filter.rf = config.rfOver /\ Filter.rootCount = Len(config.roots)
      /\ \A p \in Files : Filter.rootOf[p] = RootOf(config.roots, p)
      /\ \A p \in Files : Filter.key[p] = IF config.matchLinks THEN p ELSE Inode[p]
  <2>1. Filter.rf = rf_over(c)
    BY <1>3 DEF group_filter
  <2>2. config.matchLinks = c.matchLinks
    BY <1>4, <1>5 DEF OwnAlike
  <2> QED BY <1>3, <1>5, <2>1, <2>2 DEF group_filter, Files
<1> HIDE DEF M, files, gs
<1>8. Candidates(g) = files
  <2> DEFINE T == {p \in Files : config.noCheckSize \/ Length[p] = g.len}
  <2>1. M \subseteq T
    <3> SUFFICES ASSUME NEW p \in M, ~Config.transform PROVE Length[p] = g.len
      BY <1>2, <1>4, <1>5
    <3>1. PICK k \in 1..Len(Classes) : g.len = Classes[k].len /\ M \subseteq ToSet(Classes[k].files)
      BY <1>1 DEF OfClass, M, files
    <3>2. p \in ToSet(Classes[k].files)
      BY <3>1
    <3> QED BY <3>1, <3>2, ClassLength DEF Typed
  <2>2. Candidates(g) = Filtered(files, T)
    BY DEF Candidates, files
  <2> HIDE DEF T
  <2> QED BY <1>1, <2>1, <2>2, FilteredWhole DEF M
<1>9. SubGroupsOf(g) = gs
  <2> DEFINE rootOf == [p \in M |-> RootOf(config.roots, p)]
             key == [p \in M |-> IF config.matchLinks THEN p ELSE Inode[p]]
             root2 == Filter.rootOf
             key2 == Filter.key
             count == Filter.rootCount
  <2>1. SubGroupsOf(g) = FileSubGroups(files, count, rootOf, key)
    BY <1>7, <1>8 DEF SubGroupsOf, M
  <2>2. \A p \in M : root2[p] = rootOf[p] /\ key2[p] = key[p]
    BY <1>2, <1>7
  <2>3. gs = FileSubGroups(files, count, root2, key2)
    BY DEF gs, SubGroupsIn
  <2> HIDE DEF rootOf, key, root2, key2, count
  <2>4. FileSubGroups(files, count, root2, key2) = FileSubGroups(files, count, rootOf, key)
    BY <1>1, <2>2, SubGroupsAgree DEF M
  <2> QED BY <2>1, <2>3, <2>4
<1>10. (\A p \in M : Exists(p)) /\ Unmodified(files)
  <2>1. \A p \in M : Exists(p)
    BY <1>2 DEF Exists
  <2>2. \A p \in M : changed[p] <= config.modifiedBefore
    BY <1>2, <1>6
  <2> QED BY <2>1, <2>2 DEF Unmodified, M
<1>11. Decision(g) = KeepAtLeast(Max({1, Filter.rf}), <<>>, gs)
  <2>1. Decision(g) = IF (\A p \in M : Exists(p)) /\ Unmodified(files)
                        THEN KeepAtLeast(Max({1, config.rfOver}), <<>>, gs)
                        ELSE [keep |-> files, drop |-> <<>>]
    BY <1>8, <1>9, DecisionIs DEF M, files
  <2> QED BY <1>7, <1>10, <2>1
<1>12. Filter.rootCount = 0 => Once(files)
  BY <1>1 DEF OfClass, files
<1>13. LET x == KeepAtLeast(Max({1, Filter.rf}), <<>>, gs)
       IN x.drop \in Seq(Files) /\ Len(x.drop) = redundant_count(files, Filter)
  BY <1>1, <1>12, DropsRedundant DEF gs
<1> QED BY <1>11, <1>13 DEF g, files

\* The number of redundant files comes back from the header.
LEMMA AnnouncedRead ==
  ASSUME Informed
  PROVE  header.redundant = Redundant(found, Filter)
BY DEF Informed, TextHeader, ReadJsonHeader, TheHeader

\* All that is dropped is as much as was announced.
LEMMA AllDropped ==
  ASSUME Typed, Writes, Reading, Deciding, Informed, FoundOf, read = found,
         Previous(header) = Resolved, OwnAlike, LinksCounted,
         ~Filter.under, Own.rfOver = NoCount, \A p \in Files : changed[p] = 0
  PROVE  Len(FlattenSeq([i \in 1..Len(decided) |-> decided[i].drop])) = header.redundant
<1> DEFINE n == Len(found)
           drops == [i \in 1..n |-> decided[i].drop]
           counts == [i \in 1..n |-> redundant_count(found[i].files, Filter)]
           T == Seq(Files)
<1>1. n \in Nat /\ Len(decided) = n /\ \A i \in 1..n : found[i].files \in Seq(Files)
  BY FoundTyped DEF Reading
<1>2. \A i \in 1..n : decided[i] = Decision(found[i])
  BY <1>1 DEF Deciding
<1>3. \A i \in 1..n : decided[i].drop \in T /\ Len(decided[i].drop) = redundant_count(found[i].files, Filter)
  BY <1>2, GroupDropped
<1>4. \A i \in 1..n : redundant_count(found[i].files, Filter) \in Int
  BY <1>1, CountsTyped
<1> HIDE DEF n, T
<1>5. /\ drops \in Seq(T) /\ counts \in Seq(Int) /\ Len(drops) = n /\ Len(counts) = n
      /\ \A i \in 1..n : counts[i] = Len(drops[i])
  BY <1>1, <1>3, <1>4
<1> HIDE DEF drops, counts
<1>6. Len(FlattenSeq(drops)) = Total(counts)
  BY <1>5, FlattenLength DEF T
<1>7. Redundant(found, Filter) = Total(counts)
  BY DEF Redundant, counts, n
<1>8. drops = [i \in 1..Len(decided) |-> decided[i].drop]
  BY <1>1 DEF drops
<1> QED BY <1>6, <1>7, <1>8, AnnouncedRead

\* Of both processes together: what FileGroup::redundant_count announces in the report is what
\* partition drops, if no file changes: the two count the subgroups of a group apart from each other.
\* Not so for links that neither process was told to look at, and for options of the second one.
THEOREM RedundantAreDropped ==
  Spec => [](WordsQuotable /\ BaseDirPlain /\ TextNamesPlain /\ OwnAlike /\ LinksCounted => RedundantDropped)
<1>1. ASSUME IInv, FInv, WordsQuotable, BaseDirPlain, TextNamesPlain, OwnAlike, LinksCounted,
             stage = "complete", reader \in {"done", "failed"}, Format \in {"default", "json"}
      PROVE  /\ reader = "done"
             /\ ~Filter.under /\ (\A p \in Files : changed[p] = 0) /\ Own.rfOver = NoCount =>
                  Len(FlattenSeq([i \in 1..Len(decided) |-> decided[i].drop])) = header.redundant
  <2>1. reader = "done" /\ Informed /\ read = found
    BY <1>1, FullyRead DEF FInv, ReadFully
  <2>2. Previous(header) = Resolved
    BY <1>1, <2>1, Informs DEF IInv
  <2> QED BY <1>1, <2>1, <2>2, AllDropped DEF IInv, FInv
<1>2. IInv /\ FInv =>
        (WordsQuotable /\ BaseDirPlain /\ TextNamesPlain /\ OwnAlike /\ LinksCounted => RedundantDropped)
  BY <1>1 DEF RedundantDropped
<1> QED BY <1>2, Invariant, ReadsAll, PTL

=============================================================================
