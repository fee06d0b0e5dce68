----------------------------- MODULE ScriptProofs -----------------------------
(***************************************************************************)
(* The script of a dry run is in the order of the report and complete, for *)
(* any report, number of threads, failed write and malformed group.        *)
(***************************************************************************)
EXTENDS Script, WellFoundedInduction, SequenceTheorems, TLAPS

-----------------------------------------------------------------------------
(* The lines of the script.                                                *)

\* Induction on numbers: a set without a least number is empty.
LEMMA LeastNumber ==
  ASSUME NEW S, S \subseteq Nat, S # {}
  PROVE  \E m \in S : \A k \in S : m <= k
<1>1. IsWellFoundedOn({ss \in Nat \X Nat : ss[1] < ss[2]}, Nat)
  BY NatLessThanWellFounded DEF OpToRel
<1>2. PICK m \in S : \A k \in S : ~(<<k, m>> \in {ss \in Nat \X Nat : ss[1] < ss[2]})
  BY <1>1, WFMin
<1>3. \A k \in S : ~(k < m)
  BY <1>2
<1> QED BY <1>3

Lines(g) == [k \in 1..Report[g] |-> g]
LinesUpTo(g) == [h \in 1..g |-> Lines(h)]

\* f joins the lines of 1, of 1 and 2, ... and of 1 to n.
Joins(f, n) == f = [i \in 1..n |-> IF i = 1 THEN Lines(i) ELSE f[i - 1] \o Lines(i)]

LEMMA LinesTyped ==
  ASSUME NEW g \in Groups
  PROVE  Lines(g) \in Seq(Groups) /\ Len(Lines(g)) = Report[g] /\ Report[g] \in Nat
<1>1. Report[g] \in Nat
  BY ScriptAssumption DEF Groups
<1> QED
  BY <1>1 DEF Lines

\* There is such a function for every n.
LEMMA JoinExists == \A n \in Nat : \E f : Joins(f, n)
<1> DEFINE Bad == {n \in Nat : ~\E f : Joins(f, n)}
<1> SUFFICES ASSUME Bad # {} PROVE FALSE
  OBVIOUS
<1>1. PICK n \in Bad : \A k \in Bad : n <= k
  <2> HIDE DEF Bad
  <2>1. Bad \subseteq Nat
    BY DEF Bad
  <2> QED BY <2>1, LeastNumber
<1>2. n # 0
  <2> SUFFICES Joins([i \in 1..0 |-> <<>>], 0)
    BY <1>1
  <2> QED BY DEF Joins
<1>3. PICK f : Joins(f, n - 1)
  BY <1>1, <1>2
<1> DEFINE longer == [i \in 1..n |-> IF i = n THEN (IF n = 1 THEN Lines(1) ELSE f[n - 1] \o Lines(n))
                                     ELSE f[i]]
<1>4. \A i \in 1..n : longer[i] = IF i = 1 THEN Lines(i) ELSE longer[i - 1] \o Lines(i)
  <2> SUFFICES ASSUME NEW i \in 1..n
               PROVE  longer[i] = IF i = 1 THEN Lines(i) ELSE longer[i - 1] \o Lines(i)
    OBVIOUS
  <2>1. CASE i = n /\ i = 1
    BY <2>1
  <2>2. CASE i = n /\ i # 1
    <3>1. i - 1 \in 1..n /\ i - 1 # n
      BY <1>1, <2>2
    <3>2. longer[i - 1] = f[n - 1]
      BY <2>2, <3>1
    <3> QED BY <2>2, <3>2
  <2>3. CASE i # n
    <3>1. i \in 1..(n - 1)
      BY <1>1, <2>3
    <3>2. f[i] = IF i = 1 THEN Lines(i) ELSE f[i - 1] \o Lines(i)
      BY <1>3, <3>1 DEF Joins
    <3>3. i # 1 => longer[i - 1] = f[i - 1]
      BY <1>1, <2>3
    <3> QED BY <2>3, <3>2, <3>3
  <2> QED BY <2>1, <2>2, <2>3
<1>5. Joins(longer, n)
  <2>1. longer = [i \in 1..n |-> longer[i]]
    OBVIOUS
  <2> HIDE DEF longer
  <2> QED BY <1>4, <2>1 DEF Joins
<1> QED
  BY <1>1, <1>5

\* Such functions agree, so there is one.
LEMMA JoinsAgree ==
  ASSUME NEW m \in Nat, NEW n \in Nat, m <= n, NEW f, Joins(f, m), NEW g, Joins(g, n)
  PROVE  \A i \in 1..m : f[i] = g[i]
<1> DEFINE Bad == {i \in 1..m : f[i] # g[i]}
<1> SUFFICES ASSUME Bad # {} PROVE FALSE
  OBVIOUS
<1>1. PICK i \in Bad : \A k \in Bad : i <= k
  <2> HIDE DEF Bad
  <2>1. Bad \subseteq Nat
    BY DEF Bad
  <2> QED BY <2>1, LeastNumber
<1>2. f[i] = IF i = 1 THEN Lines(i) ELSE f[i - 1] \o Lines(i)
  BY <1>1 DEF Joins
<1>3. g[i] = IF i = 1 THEN Lines(i) ELSE g[i - 1] \o Lines(i)
  <2>1. i \in 1..n
    BY <1>1
  <2> QED BY <2>1 DEF Joins
<1>4. i # 1 => f[i - 1] = g[i - 1]
  <2>1. i \in 1..m /\ i # 1 => i - 1 \in 1..m /\ i - 1 \notin Bad
    BY <1>1
  <2> QED BY <1>1, <2>1
<1> QED
  BY <1>1, <1>2, <1>3, <1>4

Flat(seqs) ==
  CHOOSE f : f = [i \in 1..Len(seqs) |-> IF i = 1 THEN seqs[i] ELSE f[i - 1] \o seqs[i]]

\* ScriptUpTo takes the last value of such a function.
LEMMA ScriptJoins ==
  ASSUME NEW g \in Nat, g # 0
  PROVE  \E f : Joins(f, g) /\ ScriptUpTo(g) = f[g]
<1>1. Len(LinesUpTo(g)) = g
  BY DEF LinesUpTo
<1>2. ScriptUpTo(g) = Flat(LinesUpTo(g))[g]
  <2>1. ScriptUpTo(g) = FlattenSeq(LinesUpTo(g))
    BY DEF ScriptUpTo, LinesUpTo, Lines
  <2>2. \A s : Len(s) # 0 => FlattenSeq(s) = Flat(s)[Len(s)]
    BY DEF FlattenSeq, Flat
  <2> HIDE DEF LinesUpTo
  <2> QED BY <1>1, <2>1, <2>2
<1>3. \A f : Joins(f, g) <=>
         f = [i \in 1..Len(LinesUpTo(g)) |->
                IF i = 1 THEN LinesUpTo(g)[i] ELSE f[i - 1] \o LinesUpTo(g)[i]]
  <2>1. \A i \in 1..g : LinesUpTo(g)[i] = Lines(i)
    BY DEF LinesUpTo
  <2> QED BY <1>1, <2>1 DEF Joins
<1>4. \E f : Joins(f, g)
  BY JoinExists
<1>5. Joins(Flat(LinesUpTo(g)), g)
  BY <1>3, <1>4 DEF Flat
<1> QED
  BY <1>2, <1>5

\* The script of no groups is empty, and each group adds its lines.
LEMMA ScriptStep ==
  /\ ScriptUpTo(0) = <<>>
  /\ \A g \in Groups : ScriptUpTo(g) = ScriptUpTo(g - 1) \o Lines(g)
<1>1. ScriptUpTo(0) = <<>>
  <2>1. \A s : Len(s) = 0 => FlattenSeq(s) = s
    BY DEF FlattenSeq
  <2>2. [h \in 1..0 |-> [k \in 1..Report[h] |-> h]] = <<>>
    OBVIOUS
  <2> QED BY <2>1, <2>2 DEF ScriptUpTo
<1>2. ASSUME NEW g \in Groups
      PROVE  ScriptUpTo(g) = ScriptUpTo(g - 1) \o Lines(g)
  <2>1. g \in Nat /\ g # 0 /\ g - 1 \in Nat
    BY DEF Groups
  <2>2. PICK f : Joins(f, g) /\ ScriptUpTo(g) = f[g]
    BY <2>1, ScriptJoins
  <2>3. f[g] = IF g = 1 THEN Lines(g) ELSE f[g - 1] \o Lines(g)
    <3>1. g \in 1..g
      BY <2>1
    <3> QED BY <2>2, <3>1 DEF Joins
  <2>4. CASE g = 1
    <3>1. Lines(1) \in Seq(Groups)
      BY <2>4, LinesTyped
    <3> QED BY <1>1, <2>2, <2>3, <2>4, <3>1
  <2>5. CASE g # 1
    <3>1. PICK h : Joins(h, g - 1) /\ ScriptUpTo(g - 1) = h[g - 1]
      BY <2>1, <2>5, ScriptJoins
    <3>2. h[g - 1] = f[g - 1]
      BY <2>1, <2>2, <2>5, <3>1, JoinsAgree
    <3> QED BY <2>2, <2>3, <2>5, <3>1, <3>2
  <2> QED BY <2>4, <2>5
<1> QED
  BY <1>1, <1>2

\* The lines up to g are of groups up to g.
LEMMA ScriptTyped ==
  \A g \in 0..Len(Report) : ScriptUpTo(g) \in Seq(1..g) /\ ScriptUpTo(g) \in Seq(Groups)
<1>1. Len(Report) \in Nat
  BY ScriptAssumption
<1> DEFINE Bad == {g \in 0..Len(Report) : ScriptUpTo(g) \notin Seq(1..g)}
<1>2. Bad = {}
  <2> SUFFICES ASSUME Bad # {} PROVE FALSE
    OBVIOUS
  <2>1. PICK g \in Bad : \A k \in Bad : g <= k
    <3> HIDE DEF Bad
    <3>1. Bad \subseteq Nat
      BY DEF Bad
    <3> QED BY <3>1, LeastNumber
  <2>2. g # 0
    <3>1. <<>> \in Seq(1..0)
      OBVIOUS
    <3> QED BY <2>1, <3>1, ScriptStep
  <2>3. g \in Groups /\ g - 1 \in 0..Len(Report) /\ g - 1 \notin Bad
    BY <1>1, <2>1, <2>2 DEF Groups
  <2>4. ScriptUpTo(g - 1) \in Seq(1..g)
    <3>1. 1..(g - 1) \subseteq 1..g
      BY <2>3
    <3>2. ScriptUpTo(g - 1) \in Seq(1..(g - 1))
      BY <2>3
    <3> QED BY <3>1, <3>2
  <2>5. Lines(g) \in Seq(1..g)
    <3>1. Report[g] \in Nat
      BY <2>3, LinesTyped
    <3>2. g \in 1..g
      BY <2>3 DEF Groups
    <3> QED BY <3>1, <3>2 DEF Lines
  <2>6. ScriptUpTo(g) \in Seq(1..g)
    <3>1. ScriptUpTo(g) = ScriptUpTo(g - 1) \o Lines(g)
      BY <2>3, ScriptStep
    <3>2. \A s, t \in Seq(1..g) : s \o t \in Seq(1..g)
      OBVIOUS
    <3> HIDE DEF Bad
    <3> QED BY <2>4, <2>5, <3>1, <3>2
  <2> QED BY <2>1, <2>6
<1>3. ASSUME NEW g \in 0..Len(Report) PROVE ScriptUpTo(g) \in Seq(Groups)
  <2>1. 1..g \subseteq Groups
    BY <1>1 DEF Groups
  <2>2. ScriptUpTo(g) \in Seq(1..g)
    BY <1>2
  <2> QED BY <2>1, <2>2
<1> QED
  BY <1>2, <1>3

\* A script of fewer groups is the start of one of more.
LEMMA ScriptGrows ==
  ASSUME NEW g \in 0..Len(Report)
  PROVE  IsPrefix(ScriptUpTo(g), ScriptUpTo(Len(Report)))
<1>1. Len(Report) \in Nat
  BY ScriptAssumption
<1> DEFINE Bad == {n \in g..Len(Report) : ~IsPrefix(ScriptUpTo(g), ScriptUpTo(n))}
<1>2. Bad = {}
  <2> SUFFICES ASSUME Bad # {} PROVE FALSE
    OBVIOUS
  <2>1. PICK n \in Bad : \A k \in Bad : n <= k
    <3> HIDE DEF Bad
    <3>1. Bad \subseteq Nat
      BY <1>1 DEF Bad
    <3> QED BY <3>1, LeastNumber
  <2>2. ScriptUpTo(g) \in Seq(Groups) /\ ScriptUpTo(n) \in Seq(Groups)
    BY <1>1, <2>1, ScriptTyped
  <2>3. n # g
    BY <2>1, <2>2 DEF IsPrefix
  <2>4. n \in Groups /\ n - 1 \in g..Len(Report) /\ n - 1 \notin Bad
    BY <1>1, <2>1, <2>3 DEF Groups
  <2>5. ScriptUpTo(n - 1) \in Seq(Groups) /\ Lines(n) \in Seq(Groups)
    BY <1>1, <2>4, ScriptTyped, LinesTyped
  <2>6. IsPrefix(ScriptUpTo(g), ScriptUpTo(n - 1))
    BY <2>4
  <2>7. IsPrefix(ScriptUpTo(g), ScriptUpTo(n - 1) \o Lines(n))
    <3>1. PICK s, t, u \in Seq(Groups) : s = ScriptUpTo(g) /\ t = ScriptUpTo(n - 1) /\ u = Lines(n)
      BY <2>2, <2>5
    <3>2. Len(s) <= Len(t) /\ SubSeq(s, 1, Len(s)) = SubSeq(t, 1, Len(s))
      BY <2>6, <3>1 DEF IsPrefix
    <3>3. Len(t \o u) = Len(t) + Len(u) /\ t \o u \in Seq(Groups)
      BY <3>1
    <3>4. SubSeq(t \o u, 1, Len(s)) = SubSeq(t, 1, Len(s))
      BY <3>1, <3>2, <3>3
    <3> QED BY <3>1, <3>2, <3>3, <3>4 DEF IsPrefix
  <2> QED BY <2>1, <2>4, <2>7, ScriptStep
<1> QED
  BY <1>1, <1>2

-----------------------------------------------------------------------------
(* The invariant.                                                          *)

\* Nothing from the malformed group on is ever taken from the report.
Readable ==
  /\ at <= malformed
  /\ \A t \in Threads : busy[t] \in Groups => busy[t] < at
  /\ \A k \in 1..Len(channel) : channel[k] < at
  /\ \A g \in queue : g < at
  /\ next <= at

\* A group read and not printed is with a thread, in the channel or in the queue.
Waiting(g) ==
  \/ \E t \in Threads : busy[t] = g
  \/ \E k \in 1..Len(channel) : channel[k] = g
  \/ g \in queue

NoneLost ==
  printer = "printing" => \A g \in Groups : next <= g /\ g < at => Waiting(g)

\* A thread leaves only when the report has nothing more to read.
LeftAtEnd ==
  \A t \in Threads : busy[t] = Ended => ~CanRead /\ (readError <=> at \in Groups)

\* What is printed is the script of the first groups, of all groups received in a
\* row unless a write failed.
Printed ==
  \E g \in 0..(next - 1) :
    /\ out = ScriptUpTo(g)
    /\ printer \in {"printing", "ended"} => g = next - 1

EndedComplete == printer = "ended" => AllEnded /\ next = malformed /\ at = malformed

IInv == TypeOK /\ Readable /\ NoneLost /\ LeftAtEnd /\ Printed /\ EndedComplete

LEMMA InitInv == Init => IInv
<1> SUFFICES ASSUME Init PROVE IInv
  OBVIOUS
<1>1. Len(Report) \in Nat /\ Ended = Len(Report) + 1 /\ Ended \notin Groups
  BY ScriptAssumption DEF Ended, Groups
<1>2. TypeOK
  <2>1. 1 \in 1..Ended /\ 0 \in 0..Ended /\ malformed \in 1..Ended
    BY <1>1 DEF Init
  <2>2. <<>> \in Seq(Groups)
    OBVIOUS
  <2> QED
    BY <2>1, <2>2 DEF Init, TypeOK
<1>3. Readable /\ NoneLost /\ EndedComplete
  BY <1>1 DEF Init, Readable, NoneLost, EndedComplete, Groups
<1>4. LeftAtEnd
  BY <1>1 DEF Init, LeftAtEnd
<1>5. Printed
  BY <1>1, ScriptStep DEF Init, Printed
<1> QED
  BY <1>2, <1>3, <1>4, <1>5 DEF IInv

LEMMA TypesKept ==
  ASSUME TypeOK, Readable, [Next]_vars
  PROVE  TypeOK'
<1>1. /\ Len(Report) \in Nat /\ Ended = Len(Report) + 1
      /\ \A g : g \in Groups <=> g \in Nat /\ 1 <= g /\ g <= Len(Report)
      /\ malformed \in Nat /\ 1 <= malformed /\ malformed <= Ended
      /\ at \in Nat /\ 1 <= at /\ at <= malformed
  BY ScriptAssumption DEF Ended, Groups, TypeOK, Readable
<1>2. ASSUME NEW t \in Threads, Pull(t) PROVE TypeOK'
  <2>1. at \in 0..Ended /\ at + 1 \in 1..Ended
    BY <1>1, <1>2 DEF Pull, CanRead
  <2> QED
    BY <1>2, <2>1 DEF Pull, TypeOK, Ended
<1>3. ASSUME NEW t \in Threads, Leave(t) PROVE TypeOK'
  <2>1. Ended \in 0..Ended
    BY <1>1
  <2> QED BY <1>3, <2>1 DEF Leave, TypeOK, Ended
<1>4. ASSUME NEW t \in Threads, Send(t) PROVE TypeOK'
  <2>1. 0 \in 0..Ended
    BY <1>1
  <2>2. Append(channel, busy[t]) \in Seq(Groups)
    BY <1>4 DEF Send, TypeOK
  <2> QED BY <1>4, <2>1, <2>2 DEF Send, Sent, TypeOK, Ended
<1>5. CASE Receive
  <2>1. channel \in Seq(Groups) /\ channel # <<>>
    BY <1>5 DEF Receive, TypeOK
  <2>2. Head(channel) \in Groups /\ Tail(channel) \in Seq(Groups)
    BY <2>1
  <2> QED BY <1>5, <2>2 DEF Receive, TypeOK, Ended
<1>6. CASE WriteGroup
  <2>1. PICK g \in queue : /\ g = next /\ next' = next + 1 /\ queue' = queue \ {g}
                           /\ out' \in {out, out \o Lines(g)}
                           /\ printer' \in {printer, "failed"}
                           /\ UNCHANGED <<malformed, at, readError, busy, channel>>
    BY <1>6 DEF WriteGroup, Ready, Lines
  <2>2. g \in Groups /\ next' \in 1..Ended
    BY <1>1, <2>1 DEF TypeOK
  <2>3. Lines(g) \in Seq(Groups)
    BY <2>2, LinesTyped
  <2>4. out' \in Seq(Groups)
    <3>1. \A s, u \in Seq(Groups) : s \o u \in Seq(Groups)
      OBVIOUS
    <3> QED BY <2>1, <2>3, <3>1 DEF TypeOK
  <2> QED BY <2>1, <2>2, <2>4 DEF TypeOK, Ended
<1>7. CASE End
  BY <1>7 DEF End, TypeOK, Ended
<1>8. CASE UNCHANGED vars
  BY <1>8 DEF vars, TypeOK, Ended
<1> QED
  BY <1>2, <1>3, <1>4, <1>5, <1>6, <1>7, <1>8 DEF Next

LEMMA ReadableKept ==
  ASSUME TypeOK, Readable, [Next]_vars
  PROVE  Readable'
<1>1. /\ Len(Report) \in Nat
      /\ \A g : g \in Groups <=> g \in Nat /\ 1 <= g /\ g <= Len(Report)
      /\ malformed \in Nat /\ at \in Nat /\ next \in Nat /\ queue \subseteq Groups
      /\ channel \in Seq(Groups) /\ busy \in [Threads -> 0..Ended]
  BY ScriptAssumption DEF Ended, Groups, TypeOK
<1>2. ASSUME NEW t \in Threads, Pull(t) PROVE Readable'
  <2>1. /\ at' = at + 1 /\ busy' = [busy EXCEPT ![t] = at] /\ at \in Groups /\ at # malformed
        /\ UNCHANGED <<malformed, channel, queue, next>>
    BY <1>2 DEF Pull, CanRead
  <2>2. \A u \in Threads : busy'[u] \in Groups => busy'[u] < at'
    BY <1>1, <2>1 DEF Readable
  <2>3. \A k \in 1..Len(channel) : channel[k] \in Groups
    BY <1>1
  <2> QED BY <1>1, <2>1, <2>2, <2>3 DEF Readable
<1>3. ASSUME NEW t \in Threads, Leave(t) PROVE Readable'
  <2>1. /\ busy' = [busy EXCEPT ![t] = Ended] /\ Ended \notin Groups
        /\ UNCHANGED <<malformed, at, channel, queue, next>>
    BY <1>1, <1>3 DEF Leave, Ended
  <2> QED BY <1>1, <2>1 DEF Readable
<1>4. ASSUME NEW t \in Threads, Send(t) PROVE Readable'
  <2>1. /\ busy[t] \in Groups /\ channel' \in {channel, Append(channel, busy[t])}
        /\ busy' \in {busy, [busy EXCEPT ![t] = 0]}
        /\ UNCHANGED <<malformed, at, queue, next>>
    BY <1>4 DEF Send, Sent
  <2>2. \A k \in 1..Len(channel') : channel'[k] < at
    <3>1. CASE channel' = channel
      BY <3>1 DEF Readable
    <3>2. CASE channel' = Append(channel, busy[t])
      BY <1>1, <2>1, <3>2 DEF Readable
    <3> QED BY <2>1, <3>1, <3>2
  <2>3. \A u \in Threads : busy'[u] \in {busy[u], 0}
    BY <1>1, <2>1
  <2> QED BY <1>1, <2>1, <2>2, <2>3 DEF Readable
<1>5. CASE Receive
  <2>1. /\ channel # <<>> /\ queue' = queue \cup {Head(channel)} /\ channel' = Tail(channel)
        /\ UNCHANGED <<malformed, at, busy, next>>
    BY <1>5 DEF Receive
  <2>2. Head(channel) = channel[1] /\ 1 \in 1..Len(channel)
    BY <1>1, <2>1
  <2>3. \A k \in 1..Len(channel') : channel'[k] = channel[k + 1] /\ k + 1 \in 1..Len(channel)
    BY <1>1, <2>1
  <2> QED BY <2>1, <2>2, <2>3 DEF Readable
<1>6. CASE WriteGroup
  <2>1. PICK g \in queue : /\ g = next /\ next' = next + 1 /\ queue' = queue \ {g}
                           /\ UNCHANGED <<malformed, at, busy, channel>>
    BY <1>6 DEF WriteGroup, Ready
  <2>2. next < at
    BY <2>1 DEF Readable
  <2> QED BY <1>1, <2>1, <2>2 DEF Readable
<1>7. CASE End \/ UNCHANGED vars
  BY <1>7 DEF End, vars, Readable
<1> QED
  BY <1>2, <1>3, <1>4, <1>5, <1>6, <1>7 DEF Next

LEMMA NoneLostKept ==
  ASSUME TypeOK, Readable, NoneLost, [Next]_vars
  PROVE  NoneLost'
<1> SUFFICES ASSUME printer' = "printing", NEW g \in Groups, next' <= g, g < at'
             PROVE  Waiting(g)'
  BY DEF NoneLost
<1>1. /\ g \in Nat /\ next \in Nat /\ at \in Nat /\ queue \subseteq Groups /\ g # 0
      /\ channel \in Seq(Groups) /\ busy \in [Threads -> 0..Ended] /\ Ended \notin Groups
  BY ScriptAssumption DEF Ended, Groups, TypeOK
<1>2. ASSUME NEW t \in Threads, Pull(t) PROVE Waiting(g)'
  <2>1. /\ at' = at + 1 /\ busy' = [busy EXCEPT ![t] = at] /\ busy[t] = 0
        /\ UNCHANGED <<printer, channel, queue, next>>
    BY <1>2 DEF Pull
  <2>2. CASE g = at
    BY <1>1, <2>1, <2>2 DEF Waiting
  <2>3. CASE g # at
    <3>1. Waiting(g)
      BY <1>1, <2>1, <2>3 DEF NoneLost
    <3>2. \A u \in Threads : busy[u] = g => busy'[u] = g
      BY <1>1, <2>1
    <3> QED BY <2>1, <3>1, <3>2 DEF Waiting
  <2> QED BY <2>2, <2>3
<1>3. ASSUME NEW t \in Threads, Leave(t) PROVE Waiting(g)'
  <2>1. /\ busy' = [busy EXCEPT ![t] = Ended] /\ busy[t] = 0
        /\ UNCHANGED <<at, printer, channel, queue, next>>
    BY <1>3 DEF Leave
  <2>2. \A u \in Threads : busy[u] = g => busy'[u] = g
    BY <1>1, <2>1
  <2>3. Waiting(g)
    BY <2>1 DEF NoneLost
  <2> QED BY <2>1, <2>2, <2>3 DEF Waiting
<1>4. ASSUME NEW t \in Threads, Send(t) PROVE Waiting(g)'
  <2>1. /\ busy[t] \in Groups /\ printer = "printing" /\ channel' = Append(channel, busy[t])
        /\ busy' = [busy EXCEPT ![t] = 0] /\ UNCHANGED <<at, queue, next>>
    BY <1>4 DEF Send, Sent
  <2>2. Waiting(g)
    BY <2>1 DEF NoneLost
  <2>3. /\ Len(channel) + 1 \in 1..Len(channel') /\ channel'[Len(channel) + 1] = busy[t]
        /\ \A k \in 1..Len(channel) : k \in 1..Len(channel') /\ channel'[k] = channel[k]
    BY <1>1, <2>1
  <2>4. CASE g = busy[t]
    BY <2>3, <2>4 DEF Waiting
  <2>5. CASE g # busy[t]
    <3>1. \A u \in Threads : busy[u] = g => busy'[u] = g
      BY <1>1, <2>1, <2>5
    <3> QED BY <2>1, <2>2, <2>3, <3>1 DEF Waiting
  <2> QED BY <2>4, <2>5
<1>5. CASE Receive
  <2>1. /\ channel # <<>> /\ queue' = queue \cup {Head(channel)} /\ channel' = Tail(channel)
        /\ UNCHANGED <<printer, at, busy, next>>
    BY <1>5 DEF Receive
  <2>2. Waiting(g)
    BY <2>1 DEF NoneLost
  <2>3. Head(channel) = channel[1]
    BY <1>1, <2>1
  <2>4. \A k \in 1..Len(channel) : k # 1 => k - 1 \in 1..Len(channel') /\ channel'[k - 1] = channel[k]
    BY <1>1, <2>1
  <2> QED BY <2>1, <2>2, <2>3, <2>4 DEF Waiting
<1>6. CASE WriteGroup
  <2>1. PICK h \in queue : /\ h = next /\ next' = next + 1 /\ queue' = queue \ {h}
                           /\ printer = "printing" /\ UNCHANGED <<at, busy, channel>>
    BY <1>6 DEF WriteGroup, Ready
  <2>2. Waiting(g) /\ g # h
    BY <1>1, <2>1 DEF NoneLost
  <2> QED BY <2>1, <2>2 DEF Waiting
<1>7. CASE UNCHANGED vars
  BY <1>7 DEF vars, NoneLost, Waiting
<1> QED
  BY <1>2, <1>3, <1>4, <1>5, <1>6, <1>7 DEF Next, End

LEMMA LeftAtEndKept ==
  ASSUME TypeOK, LeftAtEnd, [Next]_vars
  PROVE  LeftAtEnd'
<1> SUFFICES ASSUME NEW u \in Threads, busy'[u] = Ended
             PROVE  ~CanRead' /\ (readError' <=> at' \in Groups)
  BY DEF LeftAtEnd, Ended, Groups
<1>1. Ended \notin Groups /\ Ended # 0 /\ busy \in [Threads -> 0..Ended]
  BY ScriptAssumption DEF Ended, Groups, TypeOK
<1>2. ASSUME NEW t \in Threads, Pull(t) PROVE FALSE
  <2>1. busy' = [busy EXCEPT ![t] = at] /\ at \in Groups /\ CanRead
    BY <1>2 DEF Pull, CanRead
  <2>2. busy[u] = Ended
    BY <1>1, <2>1
  <2> QED BY <2>1, <2>2 DEF LeftAtEnd
<1>3. ASSUME NEW t \in Threads, Leave(t) PROVE ~CanRead' /\ (readError' <=> at' \in Groups)
  BY <1>3 DEF Leave, CanRead
<1>4. ASSUME NEW t \in Threads, Send(t) PROVE ~CanRead' /\ (readError' <=> at' \in Groups)
  <2>1. busy' \in {busy, [busy EXCEPT ![t] = 0]} /\ UNCHANGED <<at, malformed, readError>>
    BY <1>4 DEF Send
  <2>2. busy[u] = Ended
    BY <1>1, <2>1
  <2> QED BY <2>1, <2>2 DEF LeftAtEnd, CanRead
<1>5. CASE Receive \/ WriteGroup \/ End \/ UNCHANGED vars
  <2>1. UNCHANGED <<busy, at, malformed, readError>>
    BY <1>5 DEF Receive, WriteGroup, End, vars
  <2> QED BY <2>1 DEF LeftAtEnd, CanRead
<1> QED
  BY <1>2, <1>3, <1>4, <1>5 DEF Next

LEMMA PrintedKept ==
  ASSUME TypeOK, Printed, [Next]_vars
  PROVE  Printed'
<1>1. PICK g \in 0..(next - 1) : /\ out = ScriptUpTo(g)
                                 /\ printer \in {"printing", "ended"} => g = next - 1
  BY DEF Printed
<1>2. next \in Nat /\ next # 0
  BY DEF TypeOK
<1>3. CASE WriteGroup
  <2>1. PICK h \in queue :
          /\ h = next /\ next' = next + 1 /\ printer = "printing"
          /\ \/ out' = out \o Lines(h) /\ UNCHANGED printer
             \/ printer' = "failed" /\ UNCHANGED out
    BY <1>3 DEF WriteGroup, Ready, Lines
  <2>2. h \in Groups /\ g = h - 1
    BY <1>1, <2>1 DEF TypeOK
  <2>3. CASE out' = out \o Lines(h) /\ UNCHANGED printer
    <3>1. out' = ScriptUpTo(h)
      BY <1>1, <2>2, <2>3, ScriptStep
    <3>2. h \in 0..(next' - 1) /\ h = next' - 1
      BY <1>2, <2>1
    <3> QED BY <3>1, <3>2 DEF Printed, ScriptUpTo
  <2>4. CASE printer' = "failed" /\ UNCHANGED out
    <3>1. g \in 0..(next' - 1)
      BY <1>2, <2>1
    <3> QED BY <1>1, <2>4, <3>1 DEF Printed, ScriptUpTo
  <2> QED BY <2>1, <2>3, <2>4
<1>4. CASE ~WriteGroup
  <2>1. /\ UNCHANGED <<out, next>>
        /\ printer' \in {"printing", "ended"} => printer \in {"printing", "ended"}
    BY <1>4 DEF Next, Pull, Leave, Send, Receive, End, vars
  <2> QED BY <1>1, <2>1 DEF Printed, ScriptUpTo
<1> QED
  BY <1>3, <1>4

LEMMA EndKept ==
  ASSUME IInv, [Next]_vars
  PROVE  EndedComplete'
<1> USE DEF IInv
<1> SUFFICES ASSUME printer' = "ended" PROVE AllEnded' /\ next' = malformed' /\ at' = malformed'
  BY DEF EndedComplete
<1>1. /\ Len(Report) \in Nat /\ Ended = Len(Report) + 1
      /\ \A g : g \in Groups <=> g \in Nat /\ 1 <= g /\ g <= Len(Report)
      /\ malformed \in 1..Ended /\ at \in 1..Ended /\ next \in 1..Ended
      /\ channel \in Seq(Groups) /\ Threads # {}
  BY ScriptAssumption DEF Ended, Groups, TypeOK
<1>2. CASE End
  <2>1. /\ printer = "printing" /\ channel = <<>> /\ \A t \in Threads : busy[t] = Ended
        /\ next \notin queue /\ UNCHANGED <<malformed, at, busy, next>>
    BY <1>2 DEF End, Disconnected, AllEnded, Ready
  <2>2. ~CanRead
    BY <1>1, <2>1 DEF LeftAtEnd
  <2>3. at = malformed
    BY <1>1, <2>2 DEF CanRead, Readable
  <2>4. next = at
    <3> SUFFICES ASSUME next < at PROVE FALSE
      BY <1>1 DEF Readable
    <3>1. next \in Groups /\ next <= next
      BY <1>1
    <3>2. Waiting(next)
      BY <2>1, <3>1 DEF NoneLost
    <3> QED BY <1>1, <2>1, <3>1, <3>2 DEF Waiting
  <2> QED BY <2>1, <2>3, <2>4 DEF AllEnded, Ended
<1>3. CASE ~End
  <2>1. printer = "ended" /\ ~WriteGroup /\ ~Receive
    BY <1>3 DEF Next, Pull, Leave, Send, Receive, WriteGroup, vars
  <2>2. /\ \A t \in Threads : busy[t] = Ended
        /\ next = malformed /\ at = malformed
    BY <2>1 DEF EndedComplete, AllEnded
  <2>3. Ended \notin Groups /\ Ended # 0
    BY <1>1
  <2>4. UNCHANGED vars
    BY <1>3, <2>1, <2>2, <2>3 DEF Next, Pull, Leave, Send
  <2> QED BY <2>2, <2>4 DEF vars, AllEnded, Ended
<1> QED
  BY <1>2, <1>3

LEMMA NextInv == IInv /\ [Next]_vars => IInv'
BY TypesKept, ReadableKept, NoneLostKept, LeftAtEndKept, PrintedKept, EndKept DEF IInv

LEMMA Invariant == Spec => []IInv
BY InitInv, NextInv, PTL DEF Spec

\* The variables of the script keep their types, for any report and threads.
THEOREM TypeCorrect == Spec => []TypeOK
BY Invariant, PTL DEF IInv

\* The script is in the order of the report, however the threads race.
THEOREM PrintsInOrder == Spec => []InReportOrder
<1>1. IInv => InReportOrder
  <2> SUFFICES ASSUME IInv PROVE InReportOrder
    OBVIOUS
  <2>1. PICK g \in 0..(next - 1) : out = ScriptUpTo(g)
    BY DEF IInv, Printed
  <2>2. g \in 0..Len(Report)
    BY ScriptAssumption DEF IInv, TypeOK, Ended
  <2> QED
    BY <2>1, <2>2, ScriptGrows DEF InReportOrder
<1> QED
  BY <1>1, Invariant, PTL

\* A script that ends has the commands of every group that could be read, and no
\* script has any of the malformed group or of those after it.
THEOREM PrintsAll == Spec => []ScriptComplete
<1>1. IInv => ScriptComplete
  <2> SUFFICES ASSUME IInv PROVE ScriptComplete
    OBVIOUS
  <2> USE DEF IInv
  <2>1. PICK g \in 0..(next - 1) : /\ out = ScriptUpTo(g)
                                   /\ printer \in {"printing", "ended"} => g = next - 1
    BY DEF Printed
  <2>2. /\ g \in 0..Len(Report) /\ next \in Nat /\ at \in Nat /\ malformed \in Nat
        /\ next <= at /\ at <= malformed
    BY ScriptAssumption DEF TypeOK, Ended, Readable
  <2>3. out \in Seq(1..g)
    BY <2>1, <2>2, ScriptTyped
  <2>4. \A k \in 1..Len(out) : out[k] \in 1..g
    BY <2>3
  <2>5. \A k \in 1..Len(out) : out[k] < malformed
    BY <2>2, <2>4
  <2>6. ASSUME printer = "ended"
        PROVE  out = ScriptUpTo(malformed - 1) /\ (readError <=> malformed \in Groups)
    <3>1. AllEnded /\ next = malformed /\ at = malformed
      BY <2>6 DEF EndedComplete
    <3>2. readError <=> at \in Groups
      BY <3>1, ScriptAssumption DEF AllEnded, LeftAtEnd
    <3> QED BY <2>1, <2>6, <3>1, <3>2
  <2> QED
    BY <2>5, <2>6 DEF ScriptComplete
<1> QED
  BY <1>1, Invariant, PTL

=============================================================================
