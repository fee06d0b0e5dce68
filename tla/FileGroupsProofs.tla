--------------------------- MODULE FileGroupsProofs ---------------------------
(***************************************************************************)
(* What the operators of FileGroups.tla return, for sequences of any       *)
(* length: subgroups are the classes of files with one root or one key,    *)
(* and what is kept and dropped of them.  Before that, what the operators  *)
(* on sequences and sets return that these are built from.                 *)
(***************************************************************************)
EXTENDS FileGroups, FiniteSetTheorems, WellFoundedInduction, SequenceTheorems, TLAPS

-----------------------------------------------------------------------------
(* Numbers and sequences.                                                  *)

\* Induction on numbers: a set without a least number is empty.
LEMMA LeastNumber ==
  ASSUME NEW S, S \subseteq Nat, S # {}
  PROVE  \E m \in S : \A k \in S : m <= k
<1>1. IsWellFoundedOn({ss \in Nat \X Nat : ss[1] < ss[2]}, Nat)
  BY NatLessThanWellFounded DEF OpToRel
<1>2. PICK m \in S : \A k \in S : ~(<<k, m>> \in {ss \in Nat \X Nat : ss[1] < ss[2]})
  BY <1>1, WFMin
<1>3. \A k \in S : ~(k < m)
  BY <1>2
<1> QED BY <1>3

\* The values that the steps 1 to n lead to, from b on.
Run(X, b, n, step, f) ==
  f \in [0..n -> X] /\ f[0] = b /\ \A k \in 1..n : f[k] = step[k][f[k - 1]]

LEMMA RunExists ==
  ASSUME NEW X, NEW b \in X, NEW n \in Nat, NEW step \in [1..n -> [X -> X]]
  PROVE  \E f : Run(X, b, n, step, f)
<1> USE DEF Run
<1> DEFINE Fits(f, m) == f \in [0..m -> X] /\ f[0] = b /\ \A k \in 1..m : f[k] = step[k][f[k - 1]]
           Bad == {m \in 0..n : ~\E f : Fits(f, m)}
<1> SUFFICES ASSUME Bad # {} PROVE FALSE
  <2>1. n \notin Bad => \E f : Fits(f, n)
    OBVIOUS
  <2> QED BY <2>1
<1>1. PICK m \in Bad : \A k \in Bad : m <= k
  <2> HIDE DEF Bad
  <2>1. Bad \subseteq Nat
    BY DEF Bad
  <2> QED BY <2>1, LeastNumber
<1>2. m # 0
  <2>1. Fits([k \in 0..0 |-> b], 0)
    OBVIOUS
  <2>2. 0 \notin Bad
    <3> HIDE DEF Fits
    <3> QED BY <2>1
  <2> HIDE DEF Bad
  <2> QED BY <1>1, <2>2
<1>3. PICK f : Fits(f, m - 1)
  BY <1>1, <1>2
<1> DEFINE longer == [k \in 0..m |-> IF k = m THEN step[m][f[m - 1]] ELSE f[k]]
<1>4. m \in 1..n
  BY <1>1, <1>2
<1>5. f[m - 1] \in X /\ step[m] \in [X -> X]
  BY <1>3, <1>4
<1>6. longer \in [0..m -> X] /\ longer[0] = b
  BY <1>3, <1>4, <1>5
<1>7. ASSUME NEW k \in 1..m PROVE longer[k] = step[k][longer[k - 1]]
  <2>1. longer[k - 1] = f[k - 1]
    BY <1>4
  <2>2. CASE k = m
    BY <2>1, <2>2
  <2>3. CASE k # m
    BY <1>3, <1>4, <2>1, <2>3
  <2> QED BY <2>2, <2>3
<1> QED
  <2>1. Fits(longer, m)
    BY <1>6, <1>7
  <2> HIDE DEF longer
  <2> QED BY <1>1, <2>1

\* Sets, one for each i, of which any two are nested, and which tell their i apart.
Nested(S, below) ==
  /\ below \in [S -> SUBSET S]
  /\ \A i \in S : i \in below[i]
  /\ \A i, j \in S : i # j =>
       \/ below[i] \subseteq below[j] /\ j \notin below[i]
       \/ below[j] \subseteq below[i] /\ i \notin below[j]

\* Their cardinalities are 1 to that of S.
Ranked(S, below) ==
  /\ Cardinality(S) \in Nat
  /\ \A i \in S : Cardinality(below[i]) \in 1..Cardinality(S)
  /\ \A i, j \in S : Cardinality(below[i]) = Cardinality(below[j]) => i = j
  /\ \A k \in 1..Cardinality(S) : \E i \in S : Cardinality(below[i]) = k

LEMMA Ranks ==
  ASSUME NEW S, IsFiniteSet(S), NEW below, Nested(S, below)
  PROVE  Ranked(S, below)
<1> USE DEF Nested
<1>1. Cardinality(S) \in Nat
  BY FS_CardinalityType
<1>2. \A i \in S : /\ IsFiniteSet(below[i]) /\ Cardinality(below[i]) \in Nat
                   /\ Cardinality(below[i]) <= Cardinality(S)
  BY FS_Subset, FS_CardinalityType
<1>3. \A i \in S : Cardinality(below[i]) # 0
  BY <1>2, FS_EmptySet
<1>4. ASSUME NEW i \in S, NEW j \in S, i # j, below[i] \subseteq below[j], j \notin below[i]
      PROVE  Cardinality(below[i]) # Cardinality(below[j])
  BY <1>2, <1>4, FS_Subset
<1>5. \A i, j \in S : Cardinality(below[i]) = Cardinality(below[j]) => i = j
  BY <1>4
<1> DEFINE rank == [i \in S |-> Cardinality(below[i])]
           N == 1..Cardinality(S)
<1>6. \A i \in S : rank[i] \in N
  BY <1>1, <1>2, <1>3
<1>7. rank \in Injection(S, N)
  BY <1>5, <1>6 DEF Injection, IsInjective
<1>8. IsFiniteSet(N) /\ Cardinality(N) = Cardinality(S)
  BY <1>1, FS_Interval
<1>9. rank \in Surjection(S, N)
  <2> HIDE DEF rank, N
  <2> QED BY <1>7, <1>8, FS_Injection
<1>10. \A k \in N : \E i \in S : rank[i] = k
  BY <1>9 DEF Surjection
<1> QED
  BY <1>1, <1>5, <1>6, <1>10 DEF Ranked

LEMMA ToSetIs ==
  ASSUME NEW S, NEW s \in Seq(S)
  PROVE  /\ ToSet(s) = {s[i] : i \in 1..Len(s)} /\ ToSet(s) \subseteq S
         /\ \A i \in 1..Len(s) : s[i] \in ToSet(s) /\ s[i] \in S
         /\ IsFiniteSet(ToSet(s))
<1>1. ToSet(s) = {s[i] : i \in 1..Len(s)}
  BY DEF ToSet
<1>2. IsFiniteSet(1..Len(s))
  BY FS_Interval
<1>3. s \in Surjection(1..Len(s), ToSet(s))
  BY <1>1 DEF Surjection
<1> QED
  BY <1>1, <1>2, <1>3, FS_Surjection

\* t has the members of s that are in T, in their order, each from its place at[k].
Picks(s, T, t, at) ==
  /\ at \in [1..Len(t) -> 1..Len(s)]
  /\ \A i, j \in 1..Len(t) : i < j => at[i] < at[j]
  /\ \A i, j \in 1..Len(t) : at[i] = at[j] => i = j
  /\ \A k \in 1..Len(t) : t[k] = s[at[k]]
  /\ \A i \in 1..Len(s) : s[i] \in T => \E k \in 1..Len(t) : at[k] = i

\* Filtered keeps the members that are in T, and no others.
LEMMA FilteredIs ==
  ASSUME NEW S, NEW s \in Seq(S), NEW T
  PROVE  /\ Filtered(s, T) \in Seq(S) /\ Filtered(s, T) \in Seq(S \cap T)
         /\ ToSet(Filtered(s, T)) = ToSet(s) \cap T
         /\ \E at : Picks(s, T, Filtered(s, T), at)
<1> DEFINE hits == {i \in 1..Len(s) : s[i] \in T}
           Upto(i) == {j \in hits : j <= i}
           below == [i \in hits |-> Upto(i)]
           n == Cardinality(hits)
           nth(k) == CHOOSE i \in hits : Cardinality(Upto(i)) = k
           at == [k \in 1..n |-> nth(k)]
<1>1. IsFiniteSet(hits) /\ hits \subseteq Nat /\ n \in Nat
  <2>1. IsFiniteSet(1..Len(s)) /\ hits \in SUBSET (1..Len(s)) /\ hits \subseteq Nat
    BY FS_Interval
  <2> HIDE DEF hits
  <2> QED BY <2>1, FS_Subset, FS_CardinalityType
<1>2. /\ \A i, j \in hits : Cardinality(Upto(i)) = Cardinality(Upto(j)) => i = j
      /\ \A k \in 1..n : \E i \in hits : Cardinality(Upto(i)) = k
      /\ \A i \in hits : Cardinality(Upto(i)) \in 1..n
  <2>1. Nested(hits, below)
    BY <1>1 DEF Nested
  <2>2. \A i \in hits : below[i] = Upto(i)
    OBVIOUS
  <2> HIDE DEF hits, below
  <2>3. Ranked(hits, below)
    BY <1>1, <2>1, Ranks
  <2>4. /\ \A i \in hits : Cardinality(below[i]) \in 1..n
        /\ \A i, j \in hits : Cardinality(below[i]) = Cardinality(below[j]) => i = j
        /\ \A k \in 1..n : \E i \in hits : Cardinality(below[i]) = k
    BY <2>3 DEF Ranked
  <2> HIDE DEF Upto, n
  <2> QED BY <2>2, <2>4
<1>3. \A k \in 1..n : nth(k) \in hits /\ Cardinality(Upto(nth(k))) = k
  <2> HIDE DEF hits
  <2> QED BY <1>2
<1>4. Filtered(s, T) = [k \in 1..n |-> s[nth(k)]]
  BY DEF Filtered
<1>5. at \in [1..n -> 1..Len(s)]
  BY <1>3
<1>6. \A i, j \in 1..n : at[i] = at[j] => i = j
  <2> HIDE DEF hits, nth
  <2> QED BY <1>3
<1>7. \A k \in 1..n : Filtered(s, T)[k] = s[at[k]] /\ s[at[k]] \in S /\ s[at[k]] \in T
  <2>1. \A i \in hits : s[i] \in S /\ s[i] \in T
    OBVIOUS
  <2>2. \A k \in 1..n : at[k] = nth(k) /\ Filtered(s, T)[k] = s[nth(k)] /\ nth(k) \in hits
    BY <1>3, <1>4
  <2> HIDE DEF hits, nth, at, n
  <2> QED BY <2>1, <2>2
<1>8. Len(Filtered(s, T)) = n /\ Filtered(s, T) \in Seq(S) /\ Filtered(s, T) \in Seq(S \cap T)
  <2>1. \A k \in 1..n : s[nth(k)] \in S \cap T
    <3>1. \A i \in hits : s[i] \in S \cap T
      OBVIOUS
    <3> HIDE DEF hits, nth, n
    <3> QED BY <1>3, <3>1
  <2> HIDE DEF hits, nth, n
  <2> QED BY <1>1, <1>4, <2>1
<1>9. ToSet(Filtered(s, T)) = ToSet(s) \cap T
  <2>1. ASSUME NEW i \in 1..Len(s), s[i] \in T
        PROVE  \E k \in 1..n : s[i] = Filtered(s, T)[k]
    <3>1. i \in hits
      BY <2>1
    <3> DEFINE k == Cardinality(Upto(i))
    <3>2. k \in 1..n /\ nth(k) \in hits /\ Cardinality(Upto(nth(k))) = k
      BY <1>2, <1>3, <3>1
    <3>3. nth(k) = i
      <4> HIDE DEF hits, nth
      <4> QED BY <1>2, <3>1, <3>2
    <3> QED
      <4> HIDE DEF hits, nth, k
      <4> QED BY <1>4, <3>2, <3>3
  <2>2. ToSet(s) = {s[i] : i \in 1..Len(s)}
    BY ToSetIs
  <2>3. ToSet(Filtered(s, T)) = {Filtered(s, T)[k] : k \in 1..n}
    <3> HIDE DEF n, hits
    <3> QED BY <1>8, ToSetIs
  <2>4. \A k \in 1..n : Filtered(s, T)[k] \in ToSet(s) \cap T
    <3> HIDE DEF hits, nth, at, n
    <3> QED BY <1>5, <1>7, <2>2
  <2> HIDE DEF hits, nth, at, n
  <2> QED BY <2>1, <2>2, <2>3, <2>4
<1>10. ASSUME NEW i \in 1..Len(s), s[i] \in T
       PROVE  \E k \in 1..n : at[k] = i
  <2>1. i \in hits
    BY <1>10
  <2> DEFINE k == Cardinality(Upto(i))
  <2>2. k \in 1..n /\ nth(k) \in hits /\ Cardinality(Upto(nth(k))) = k
    BY <1>2, <1>3, <2>1
  <2>3. nth(k) = i
    <3> HIDE DEF hits, nth
    <3> QED BY <1>2, <2>1, <2>2
  <2> QED
    <3>1. at[k] = nth(k)
      BY <2>2
    <3> HIDE DEF hits, nth, k, at
    <3> QED BY <2>2, <2>3, <3>1
<1>11. ASSUME NEW i \in 1..n, NEW j \in 1..n, i < j
       PROVE  at[i] < at[j]
  <2> SUFFICES ASSUME at[j] <= at[i] PROVE FALSE
    <3>1. at[i] \in Nat /\ at[j] \in Nat
      BY <1>1, <1>3, <1>5
    <3> QED BY <3>1
  <2>1. nth(i) \in hits /\ nth(j) \in hits /\ at[i] = nth(i) /\ at[j] = nth(j)
    BY <1>3
  <2>2. Upto(nth(j)) \in SUBSET Upto(nth(i))
    <3> HIDE DEF nth, at
    <3>1. \A h \in hits : h <= nth(j) => h <= nth(i)
      BY <1>1, <2>1
    <3> QED BY <3>1
  <2>3. IsFiniteSet(Upto(nth(i)))
    <3>1. Upto(nth(i)) \in SUBSET hits
      OBVIOUS
    <3> HIDE DEF hits, Upto
    <3> QED BY <1>1, <3>1, FS_Subset
  <2>4. Cardinality(Upto(nth(j))) <= Cardinality(Upto(nth(i)))
    <3> HIDE DEF Upto, hits, nth
    <3> QED BY <2>2, <2>3, FS_Subset
  <2>5. Cardinality(Upto(nth(j))) = j /\ Cardinality(Upto(nth(i))) = i
    BY <1>3
  <2> HIDE DEF Upto, hits, nth, n
  <2> QED BY <1>1, <1>11, <2>4, <2>5
<1> QED
  <2> HIDE DEF hits, nth, at, n
  <2>1. Picks(s, T, Filtered(s, T), at)
    BY <1>5, <1>6, <1>7, <1>8, <1>10, <1>11 DEF Picks
  <2> QED BY <1>8, <1>9, <2>1

LEMMA ConcatIs ==
  ASSUME NEW S, NEW s \in Seq(S), NEW t \in Seq(S)
  PROVE  /\ s \o t \in Seq(S) /\ Len(s \o t) = Len(s) + Len(t)
         /\ \A i \in 1..Len(s) : (s \o t)[i] = s[i]
         /\ \A i \in 1..Len(t) : (s \o t)[Len(s) + i] = t[i]
         /\ ToSet(s \o t) = ToSet(s) \cup ToSet(t)
<1> DEFINE c == s \o t
<1>1. c \in Seq(S) /\ Len(c) = Len(s) + Len(t)
  OBVIOUS
<1>2. /\ \A i \in 1..Len(s) : i \in 1..Len(c) /\ c[i] = s[i]
      /\ \A i \in 1..Len(t) : Len(s) + i \in 1..Len(c) /\ c[Len(s) + i] = t[i]
  OBVIOUS
<1>3. \A i \in 1..Len(c) : i \in 1..Len(s) \/ (i - Len(s) \in 1..Len(t) /\ i = Len(s) + (i - Len(s)))
  BY <1>1
<1> HIDE DEF c
<1>4. /\ ToSet(s) = {s[i] : i \in 1..Len(s)} /\ ToSet(t) = {t[i] : i \in 1..Len(t)}
      /\ ToSet(c) = {c[i] : i \in 1..Len(c)}
  BY <1>1, ToSetIs
<1>5. \A i \in 1..Len(c) : c[i] \in ToSet(s) \cup ToSet(t)
  BY <1>2, <1>3, <1>4
<1>6. ToSet(c) = ToSet(s) \cup ToSet(t)
  BY <1>2, <1>4, <1>5
<1> QED
  BY <1>1, <1>2, <1>6 DEF c

Joined(gs, f) ==
  f = [i \in 1..Len(gs) |-> IF i = 1 THEN gs[i] ELSE f[i - 1] \o gs[i]]

LEMMA JoinedExists ==
  ASSUME NEW S, NEW gs \in Seq(Seq(S))
  PROVE  \E f : Joined(gs, f)
<1> DEFINE X == Seq(S)
           n == Len(gs)
           step == [k \in 1..n |-> [s \in X |-> s \o gs[k]]]
<1>1. n \in Nat /\ (\A i \in 1..n : gs[i] \in X) /\ <<>> \in X
  OBVIOUS
<1>2. \A s, t \in X : s \o t \in X
  OBVIOUS
<1>3. \A t \in X : <<>> \o t = t
  OBVIOUS
<1> HIDE DEF X, n
<1>4. step \in [1..n -> [X -> X]]
  BY <1>1, <1>2
<1>5. \A k \in 1..n : \A s \in X : step[k][s] = s \o gs[k]
  OBVIOUS
<1> HIDE DEF step
<1> DEFINE empty == <<>>
<1> HIDE DEF empty
<1>6. PICK f : Run(X, empty, n, step, f)
  <2>1. empty \in X
    BY <1>1 DEF empty
  <2>2. n \in Nat
    BY <1>1
  <2> QED BY <1>4, <2>1, <2>2, RunExists
<1>7. \A k \in 1..n : f[k - 1] \in X /\ f[k] = f[k - 1] \o gs[k]
  <2>1. \A k \in 1..n : k - 1 \in 0..n
    BY <1>1
  <2>2. \A k \in 1..n : f[k - 1] \in X
    BY <1>6, <2>1 DEF Run
  <2> QED BY <1>5, <1>6, <2>2 DEF Run
<1> DEFINE g == [k \in 1..n |-> f[k]]
<1>8. \A k \in 1..n : g[k] = IF k = 1 THEN gs[k] ELSE g[k - 1] \o gs[k]
  <2> SUFFICES ASSUME NEW k \in 1..n
               PROVE  g[k] = IF k = 1 THEN gs[k] ELSE g[k - 1] \o gs[k]
    OBVIOUS
  <2>1. CASE k = 1
    <3>1. f[0] \o gs[1] = gs[1]
      BY <1>1, <1>3, <1>6, <2>1 DEF empty, Run
    <3>2. f[1] = f[0] \o gs[1]
      <4>1. 1 \in 1..n /\ 1 - 1 = 0
        BY <2>1
      <4> QED BY <1>7, <4>1
    <3>3. g[k] = f[1]
      BY <2>1
    <3> QED BY <2>1, <3>1, <3>2, <3>3
  <2>2. CASE k # 1
    <3>1. g[k - 1] = f[k - 1]
      BY <1>1, <2>2
    <3> QED BY <1>7, <2>2, <3>1
  <2> QED BY <2>1, <2>2
<1>9. g = [k \in 1..n |-> g[k]]
  OBVIOUS
<1>10. Joined(gs, g)
  <2> HIDE DEF g
  <2> QED BY <1>8, <1>9 DEF Joined, n
<1> QED BY <1>10

\* FlattenSeq has the elements of the members.
LEMMA FlattenIs ==
  ASSUME NEW S, NEW gs \in Seq(Seq(S))
  PROVE  /\ FlattenSeq(gs) \in Seq(S)
         /\ ToSet(FlattenSeq(gs)) = UNION {ToSet(gs[i]) : i \in 1..Len(gs)}
<1> DEFINE n == Len(gs)
           flat == CHOOSE f : Joined(gs, f)
           UpTo(k) == UNION {ToSet(gs[i]) : i \in 1..k}
<1>1. n \in Nat /\ \A i \in 1..n : gs[i] \in Seq(S)
  OBVIOUS
<1>2. CASE n = 0
  <2>1. FlattenSeq(gs) = gs
    BY <1>2 DEF FlattenSeq
  <2>2. gs = <<>>
    BY <1>2
  <2>3. FlattenSeq(gs) \in Seq(S) /\ ToSet(FlattenSeq(gs)) = {}
    BY <2>1, <2>2 DEF ToSet
  <2> QED BY <1>2, <2>3
<1>3. CASE n # 0
  <2>1. FlattenSeq(gs) = flat[n]
    BY <1>3 DEF FlattenSeq, Joined
  <2>2. Joined(gs, flat)
    BY JoinedExists
  <2>3. \A k \in 1..n : flat[k] = IF k = 1 THEN gs[k] ELSE flat[k - 1] \o gs[k]
    <3> HIDE DEF flat
    <3> QED BY <2>2 DEF Joined
  <2>4. UpTo(1) = ToSet(gs[1]) /\ \A k \in 1..n : k # 1 => UpTo(k) = UpTo(k - 1) \cup ToSet(gs[k])
    <3>1. 1..1 = {1} /\ \A k \in 1..n : k # 1 => 1..k = (1..(k - 1)) \cup {k}
      BY <1>1
    <3>2. \A I, J : UNION {ToSet(gs[i]) : i \in I \cup J} =
                      (UNION {ToSet(gs[i]) : i \in I}) \cup UNION {ToSet(gs[i]) : i \in J}
      OBVIOUS
    <3>3. \A i : UNION {ToSet(gs[j]) : j \in {i}} = ToSet(gs[i])
      OBVIOUS
    <3>4. \A k \in 1..n : k # 1 => UpTo(k) = UpTo(k - 1) \cup ToSet(gs[k])
      <4> SUFFICES ASSUME NEW k \in 1..n, k # 1
                   PROVE  UpTo(k) = UpTo(k - 1) \cup ToSet(gs[k])
        OBVIOUS
      <4> QED BY <3>1, <3>2, <3>3
    <3> QED BY <3>1, <3>3, <3>4
  <2> DEFINE Right(k) == flat[k] \in Seq(S) /\ ToSet(flat[k]) = UpTo(k)
             Bad == {k \in 1..n : ~Right(k)}
  <2>5. ASSUME NEW k \in 1..n, k # 1 => Right(k - 1) PROVE Right(k)
    <3> HIDE DEF flat, UpTo
    <3>1. CASE k = 1
      BY <1>1, <2>3, <2>4, <3>1
    <3>2. CASE k # 1
      <4>1. flat[k] = flat[k - 1] \o gs[k] /\ gs[k] \in Seq(S)
        BY <1>1, <2>3, <3>2
      <4>2. flat[k - 1] \in Seq(S) /\ ToSet(flat[k - 1]) = UpTo(k - 1)
        BY <2>5, <3>2
      <4>3. ToSet(flat[k]) = UpTo(k - 1) \cup ToSet(gs[k]) /\ flat[k] \in Seq(S)
        BY <4>1, <4>2, ConcatIs
      <4> QED BY <2>4, <3>2, <4>3
    <3> QED BY <3>1, <3>2
  <2> HIDE DEF Right, n
  <2>6. Bad = {}
    <3> SUFFICES ASSUME Bad # {} PROVE FALSE
      OBVIOUS
    <3>1. PICK k \in Bad : \A j \in Bad : k <= j
      <4>1. Bad \subseteq Nat
        OBVIOUS
      <4> HIDE DEF Bad
      <4> QED BY <4>1, LeastNumber
    <3>2. k \in 1..n /\ ~Right(k)
      BY <3>1
    <3>3. k # 1 => k - 1 \in 1..n /\ k - 1 \notin Bad
      BY <1>1, <3>1, <3>2
    <3>4. k # 1 => Right(k - 1)
      BY <3>3
    <3> QED BY <2>5, <3>2, <3>4
  <2>7. n \in 1..n
    BY <1>1, <1>3
  <2>8. Right(n)
    BY <2>6, <2>7
  <2> QED BY <2>1, <2>8 DEF Right, n
<1> QED
  BY <1>2, <1>3

LEMMA Extremes ==
  ASSUME NEW S, S \subseteq Int, IsFiniteSet(S), S # {}
  PROVE  /\ Min(S) \in S /\ \A x \in S : Min(S) <= x
         /\ Max(S) \in S /\ \A x \in S : Max(S) >= x
<1> DEFINE Upto(i) == {j \in S : j <= i}
           below == [i \in S |-> Upto(i)]
           n == Cardinality(S)
<1>1. \A i \in S : below[i] = Upto(i)
  OBVIOUS
<1>2. Nested(S, below)
  <2>1. below \in [S -> SUBSET S]
    OBVIOUS
  <2>2. \A i \in S : i \in Int
    OBVIOUS
  <2>3. \A i, j \in S : i \in Upto(i) /\ (i < j => Upto(i) \subseteq Upto(j) /\ j \notin Upto(i))
    <3>1. \A i, j, k \in S : i < j => ~(j <= i) /\ (k <= i => k <= j) /\ i <= i
      BY <2>2
    <3>2. \A i \in S : i <= i
      BY <2>2
    <3> QED BY <3>1, <3>2
  <2>4. \A i, j \in S : i # j => i < j \/ j < i
    BY <2>2
  <2> HIDE DEF below, Upto
  <2> QED BY <1>1, <2>1, <2>3, <2>4 DEF Nested
<1> HIDE DEF below
<1>3. Ranked(S, below) /\ \A i \in S : i \in Int
  BY <1>2, Ranks
<1> USE DEF Ranked
<1>4. n \in 1..n /\ 1 \in 1..n
  BY <1>3, FS_EmptySet
<1>5. \E m \in S : \A x \in S : m >= x
  <2>1. PICK m \in S : Cardinality(below[m]) = n
    BY <1>3, <1>4
  <2>2. below[m] \in SUBSET S
    BY <1>1
  <2>3. below[m] = S
    BY <2>1, <2>2, FS_Subset
  <2> QED BY <1>1, <2>3
<1>6. \E m \in S : \A x \in S : m <= x
  <2>1. PICK m \in S : Cardinality(below[m]) = 1
    BY <1>3, <1>4
  <2>2. ASSUME NEW x \in S, x < m PROVE FALSE
    <3>1. below[x] \in SUBSET below[m] /\ m \notin below[x]
      <4>1. x \in Int /\ m \in Int /\ \A j \in S : j \in Int
        OBVIOUS
      <4>2. \A j \in S : j <= x => j <= m
        BY <2>2, <4>1
      <4>3. ~(m <= x)
        BY <2>2, <4>1
      <4> QED BY <1>1, <4>2, <4>3
    <3>2. IsFiniteSet(below[m])
      <4>1. below[m] \in SUBSET S
        BY <1>1
      <4> QED BY <4>1, FS_Subset
    <3>3. Cardinality(below[x]) <= 1
      BY <2>1, <3>1, <3>2, FS_Subset
    <3>4. Cardinality(below[x]) = 1
      BY <1>3, <3>3
    <3> QED BY <1>3, <2>1, <2>2, <3>4
  <2> QED BY <2>2
<1>7. Max(S) \in S /\ \A x \in S : Max(S) >= x
  BY <1>5 DEF Max
<1>8. Min(S) \in S /\ \A x \in S : Min(S) <= x
  BY <1>6 DEF Min
<1> QED
  BY <1>7, <1>8

-----------------------------------------------------------------------------
(* Subgroups.                                                              *)

NonEmpty(S) == Seq(S) \ {<<>>}

\* Groups that share no file.
Apart(gs) == \A i, j \in 1..Len(gs) : i # j => ToSet(gs[i]) \cap ToSet(gs[j]) = {}

\* Filtered keeps groups apart.
LEMMA FilteredApart ==
  ASSUME NEW S, NEW gs \in Seq(Seq(S)), NEW T, Apart(gs)
  PROVE  Apart(Filtered(gs, T))
<1> DEFINE f == Filtered(gs, T)
<1>1. PICK at : Picks(gs, T, f, at)
  BY FilteredIs
<1> HIDE DEF f
<1> USE DEF Picks
<1>2. \A i, j \in 1..Len(f) : i # j => at[i] \in 1..Len(gs) /\ at[j] \in 1..Len(gs) /\ at[i] # at[j]
  BY <1>1
<1>3. Apart(f)
  <2> SUFFICES ASSUME NEW i \in 1..Len(f), NEW j \in 1..Len(f), i # j
               PROVE  ToSet(f[i]) \cap ToSet(f[j]) = {}
    BY DEF Apart
  <2>1. ToSet(gs[at[i]]) \cap ToSet(gs[at[j]]) = {}
    BY <1>2 DEF Apart
  <2> QED BY <1>1, <2>1
<1> QED
  BY <1>3 DEF f

\* The files that are in a subgroup with p: those of its root, or of its key.
Kin(files, rootOf, key, p) ==
  {q \in ToSet(files) : rootOf[q] = rootOf[p] /\ (rootOf[p] = 0 => key[q] = key[p])}

\* Every file is in one subgroup, with its kin.
LEMMA SubGroupsAre ==
  ASSUME NEW S, NEW files \in Seq(S), NEW rootCount \in Nat, NEW rootOf, NEW key,
         \A p \in ToSet(files) : rootOf[p] \in 0..rootCount
  PROVE  LET gs == FileSubGroups(files, rootCount, rootOf, key)
         IN /\ gs \in Seq(NonEmpty(ToSet(files))) /\ Apart(gs)
            /\ \A p \in ToSet(files) : \E g \in ToSet(gs) : p \in ToSet(g)
            /\ \A g \in ToSet(gs) : \A p \in ToSet(g) : ToSet(g) = Kin(files, rootOf, key, p)
<1> DEFINE M == ToSet(files)
           rest == Filtered(files, {p \in M : rootOf[p] = 0})
           heads == {i \in 1..Len(rest) : \A j \in 1..(i - 1) : key[rest[j]] # key[rest[i]]}
           ofRoot(r) == Filtered(files, {p \in M : rootOf[p] = r})
           ofKey(i) == Filtered(rest, {p \in ToSet(rest) : key[p] = key[rest[i]]})
           byRoot == [r \in 1..rootCount |-> ofRoot(r)]
           byKey == [i \in 1..Len(rest) |-> IF i \in heads THEN ofKey(i) ELSE <<>>]
           all == byRoot \o byKey
<1>1. files \in Seq(M)
  <2>1. \A i \in 1..Len(files) : files[i] \in M
    BY ToSetIs
  <2> HIDE DEF M
  <2> QED BY <2>1
<1>2. rest \in Seq(M) /\ ToSet(rest) = {p \in M : rootOf[p] = 0}
  <2> DEFINE T == {p \in M : rootOf[p] = 0}
  <2>1. rest \in Seq(M) /\ ToSet(rest) = M \cap T
    <3>1. rest = Filtered(files, T)
      OBVIOUS
    <3> HIDE DEF T, M, rest
    <3>2. ToSet(files) = M
      BY DEF M
    <3> QED BY <1>1, <3>1, <3>2, FilteredIs
  <2> HIDE DEF M, rest
  <2> QED BY <2>1
<1>3. \A r \in 1..rootCount : ofRoot(r) \in Seq(M) /\ ToSet(ofRoot(r)) = {p \in M : rootOf[p] = r}
  <2> SUFFICES ASSUME NEW r \in 1..rootCount
               PROVE  ofRoot(r) \in Seq(M) /\ ToSet(ofRoot(r)) = {p \in M : rootOf[p] = r}
    OBVIOUS
  <2> DEFINE T == {p \in M : rootOf[p] = r}
  <2>1. ofRoot(r) \in Seq(M) /\ ToSet(ofRoot(r)) = M \cap T
    <3>1. ofRoot(r) = Filtered(files, T)
      OBVIOUS
    <3> HIDE DEF T, M, ofRoot
    <3>2. ToSet(files) = M
      BY DEF M
    <3>3. Filtered(files, T) \in Seq(M) /\ ToSet(Filtered(files, T)) = ToSet(files) \cap T
      BY <1>1, FilteredIs
    <3> QED BY <3>1, <3>2, <3>3
  <2> HIDE DEF M, ofRoot
  <2> QED BY <2>1
<1>4. \A i \in 1..Len(rest) :
        /\ ofKey(i) \in Seq(M)
        /\ ToSet(ofKey(i)) = {p \in M : rootOf[p] = 0 /\ key[p] = key[rest[i]]}
  <2> SUFFICES ASSUME NEW i \in 1..Len(rest)
               PROVE  /\ ofKey(i) \in Seq(M)
                      /\ ToSet(ofKey(i)) = {p \in M : rootOf[p] = 0 /\ key[p] = key[rest[i]]}
    OBVIOUS
  <2> DEFINE T == {p \in ToSet(rest) : key[p] = key[rest[i]]}
  <2>1. ofKey(i) \in Seq(M) /\ ToSet(ofKey(i)) = ToSet(rest) \cap T
    <3>1. ofKey(i) = Filtered(rest, T)
      OBVIOUS
    <3> HIDE DEF T, M, rest, ofKey
    <3>2. Filtered(rest, T) \in Seq(M) /\ ToSet(Filtered(rest, T)) = ToSet(rest) \cap T
      BY <1>2, FilteredIs
    <3> QED BY <3>1, <3>2
  <2> HIDE DEF M, rest, ofKey
  <2> QED BY <1>2, <2>1
<1>5. Len(rest) \in Nat
  <2> HIDE DEF rest, M
  <2> QED BY <1>2
<1>6. byRoot \in Seq(Seq(M)) /\ Len(byRoot) = rootCount
  <2> HIDE DEF M, ofRoot
  <2> QED BY <1>3
<1>7. byKey \in Seq(Seq(M)) /\ Len(byKey) = Len(rest)
  <2>1. \A i \in 1..Len(rest) : (IF i \in heads THEN ofKey(i) ELSE <<>>) \in Seq(M)
    <3>1. <<>> \in Seq(M)
      OBVIOUS
    <3> HIDE DEF M, rest, heads, ofKey
    <3> QED BY <1>4, <3>1
  <2> HIDE DEF M, rest, heads, ofKey
  <2> QED BY <1>5, <2>1
<1>8. \A r \in 1..rootCount : ToSet(byRoot[r]) = {p \in M : rootOf[p] = r}
  <2> HIDE DEF ofRoot, M
  <2> QED BY <1>3
<1>9. \A i \in 1..Len(rest) :
        ToSet(byKey[i]) = IF i \in heads THEN {p \in M : rootOf[p] = 0 /\ key[p] = key[rest[i]]} ELSE {}
  <2>1. ToSet(<<>>) = {}
    BY DEF ToSet
  <2> HIDE DEF ofKey, M, rest, heads
  <2> QED BY <1>4, <2>1
<1>10. \A i, j \in 1..Len(rest) : i # j /\ i \in heads /\ j \in heads => key[rest[i]] # key[rest[j]]
  <2>1. \A i, j \in 1..Len(rest) : i < j /\ j \in heads => key[rest[i]] # key[rest[j]]
    <3> SUFFICES ASSUME NEW i \in 1..Len(rest), NEW j \in 1..Len(rest), i < j, j \in heads
                 PROVE  key[rest[i]] # key[rest[j]]
      OBVIOUS
    <3>1. i \in 1..(j - 1)
      BY <1>5
    <3> QED BY <3>1
  <2>2. \A i, j \in 1..Len(rest) : i # j => i < j \/ j < i
    BY <1>5
  <2> HIDE DEF heads, rest
  <2> QED BY <2>1, <2>2
<1>11. \A i \in 1..Len(rest) : \E h \in heads : key[rest[h]] = key[rest[i]]
  <2> SUFFICES ASSUME NEW i \in 1..Len(rest)
               PROVE  \E h \in heads : key[rest[h]] = key[rest[i]]
    OBVIOUS
  <2> DEFINE same == {h \in 1..Len(rest) : key[rest[h]] = key[rest[i]]}
  <2>1. same \subseteq Nat /\ i \in same
    BY <1>5
  <2>2. PICK h \in same : \A j \in same : h <= j
    <3> HIDE DEF same
    <3> QED BY <2>1, LeastNumber
  <2>3. \A j \in 1..(h - 1) : j \in 1..Len(rest) /\ ~(h <= j)
    BY <1>5
  <2>4. \A j \in 1..(h - 1) : key[rest[j]] # key[rest[h]]
    <3> HIDE DEF rest, heads
    <3> QED BY <2>2, <2>3
  <2> QED BY <2>2, <2>4
<1>12. \A p \in ToSet(rest) : \E i \in 1..Len(rest) : p = rest[i]
  <2> HIDE DEF rest, M
  <2> QED BY <1>2, ToSetIs
<1>13. heads \subseteq 1..Len(rest)
  OBVIOUS
<1>14. files \in Seq(M) /\ ToSet(files) = M
  BY <1>1
<1> HIDE DEF byRoot, byKey, rest, heads, M
<1>15. /\ all \in Seq(Seq(M)) /\ Len(all) = rootCount + Len(rest)
       /\ \A r \in 1..rootCount : all[r] = byRoot[r]
       /\ \A i \in 1..Len(rest) : all[rootCount + i] = byKey[i]
  <2> DEFINE X == Seq(M)
  <2>1. byRoot \in Seq(X) /\ byKey \in Seq(X)
    BY <1>6, <1>7
  <2> HIDE DEF X
  <2>2. /\ all \in Seq(X) /\ Len(all) = Len(byRoot) + Len(byKey)
        /\ \A r \in 1..Len(byRoot) : all[r] = byRoot[r]
        /\ \A i \in 1..Len(byKey) : all[Len(byRoot) + i] = byKey[i]
    BY <2>1, ConcatIs
  <2> QED BY <1>6, <1>7, <2>2 DEF X
<1>16. \A k \in 1..Len(all) :
         \/ k \in 1..rootCount /\ ToSet(all[k]) = {p \in M : rootOf[p] = k}
         \/ /\ k - rootCount \in heads
            /\ ToSet(all[k]) = {p \in M : rootOf[p] = 0 /\ key[p] = key[rest[k - rootCount]]}
         \/ ToSet(all[k]) = {}
  <2> SUFFICES ASSUME NEW k \in 1..Len(all)
               PROVE  \/ k \in 1..rootCount /\ ToSet(all[k]) = {p \in M : rootOf[p] = k}
                      \/ /\ k - rootCount \in heads
                         /\ ToSet(all[k]) = {p \in M : rootOf[p] = 0 /\ key[p] = key[rest[k - rootCount]]}
                      \/ ToSet(all[k]) = {}
    OBVIOUS
  <2> HIDE DEF all
  <2>1. CASE k \in 1..rootCount
    BY <1>8, <1>15, <2>1
  <2>2. CASE k \notin 1..rootCount
    <3>1. k - rootCount \in 1..Len(rest) /\ k = rootCount + (k - rootCount)
      BY <1>5, <1>15, <2>2
    <3>2. all[k] = byKey[k - rootCount]
      BY <1>15, <3>1
    <3> QED BY <1>9, <3>1, <3>2
  <2> QED BY <2>1, <2>2
<1> HIDE DEF all
<1>17. Apart(all)
  <2> SUFFICES ASSUME NEW i \in 1..Len(all), NEW j \in 1..Len(all), i # j,
                      NEW p \in ToSet(all[i]), p \in ToSet(all[j])
               PROVE  FALSE
    BY DEF Apart
  <2>1. \/ i \in 1..rootCount /\ rootOf[p] = i
        \/ i - rootCount \in heads /\ rootOf[p] = 0 /\ key[p] = key[rest[i - rootCount]]
    BY <1>16
  <2>2. \/ j \in 1..rootCount /\ rootOf[p] = j
        \/ j - rootCount \in heads /\ rootOf[p] = 0 /\ key[p] = key[rest[j - rootCount]]
    BY <1>16
  <2>3. CASE i \in 1..rootCount /\ rootOf[p] = i
    BY <2>2, <2>3
  <2>4. CASE j \in 1..rootCount /\ rootOf[p] = j
    BY <2>1, <2>4
  <2>5. CASE /\ i - rootCount \in heads /\ key[p] = key[rest[i - rootCount]]
             /\ j - rootCount \in heads /\ key[p] = key[rest[j - rootCount]]
    <3>1. i - rootCount # j - rootCount
      BY <1>15
    <3> QED BY <1>10, <1>13, <2>5, <3>1
  <2> QED BY <2>1, <2>2, <2>3, <2>4, <2>5
<1>18. \A k \in 1..Len(all) : \A p \in ToSet(all[k]) : ToSet(all[k]) = Kin(files, rootOf, key, p)
  <2> SUFFICES ASSUME NEW k \in 1..Len(all), NEW p \in ToSet(all[k])
               PROVE  ToSet(all[k]) = Kin(files, rootOf, key, p)
    OBVIOUS
  <2>1. CASE k \in 1..rootCount /\ ToSet(all[k]) = {q \in M : rootOf[q] = k}
    <3>1. rootOf[p] = k /\ k # 0
      BY <2>1
    <3> QED BY <1>14, <2>1, <3>1 DEF Kin
  <2>2. CASE ToSet(all[k]) = {q \in M : rootOf[q] = 0 /\ key[q] = key[rest[k - rootCount]]}
    BY <1>14, <2>2 DEF Kin
  <2> QED BY <1>16, <2>1, <2>2
<1>19. ASSUME NEW p \in M
       PROVE  \E k \in 1..Len(all) : p \in ToSet(all[k])
  <2>1. CASE rootOf[p] # 0
    <3>1. rootOf[p] \in 1..rootCount
      BY <1>14, <2>1
    <3>2. rootOf[p] \in 1..Len(all) /\ p \in ToSet(all[rootOf[p]])
      BY <1>5, <1>8, <1>15, <3>1
    <3> QED BY <3>2
  <2>2. CASE rootOf[p] = 0
    <3>1. PICK i \in 1..Len(rest) : p = rest[i]
      BY <1>2, <1>12, <2>2
    <3>2. PICK h \in heads : key[rest[h]] = key[p]
      BY <1>11, <3>1
    <3>3. h \in 1..Len(rest) /\ rootCount + h \in 1..Len(all)
      BY <1>5, <1>15, <1>13
    <3>4. p \in ToSet(byKey[h]) /\ all[rootCount + h] = byKey[h]
      BY <1>9, <1>15, <2>2, <3>2, <3>3
    <3> QED BY <3>3, <3>4
  <2> QED BY <2>1, <2>2
<1>20. FileSubGroups(files, rootCount, rootOf, key) = Filtered(all, ToSet(all) \ {<<>>})
  BY DEF FileSubGroups, all, byRoot, byKey, heads, rest, M
<1>21. Apart(Filtered(all, ToSet(all) \ {<<>>}))
  BY <1>15, <1>17, FilteredApart
<1>22. Filtered(all, ToSet(all) \ {<<>>}) \in Seq(NonEmpty(M))
  <2>1. Filtered(all, ToSet(all) \ {<<>>}) \in Seq(Seq(M) \cap (ToSet(all) \ {<<>>}))
    BY <1>15, FilteredIs
  <2>2. Seq(M) \cap (ToSet(all) \ {<<>>}) \subseteq NonEmpty(M)
    BY DEF NonEmpty
  <2>3. \A A, B : A \subseteq B => Seq(A) \subseteq Seq(B)
    OBVIOUS
  <2> QED BY <2>1, <2>2, <2>3
<1>23. ToSet(Filtered(all, ToSet(all) \ {<<>>})) = ToSet(all) \ {<<>>}
  <2> DEFINE X == Seq(M)
             T == ToSet(all) \ {<<>>}
  <2>1. all \in Seq(X)
    BY <1>15
  <2> HIDE DEF X, T
  <2>2. ToSet(Filtered(all, T)) = ToSet(all) \cap T
    BY <2>1, FilteredIs
  <2> QED BY <2>2 DEF T
<1>24. ToSet(all) = {all[k] : k \in 1..Len(all)}
  BY <1>15, ToSetIs
<1>25. ToSet(<<>>) = {}
  BY DEF ToSet
<1>26. \A p \in M : \E g \in ToSet(all) \ {<<>>} : p \in ToSet(g)
  BY <1>19, <1>24, <1>25
<1>27. \A g \in ToSet(all) \ {<<>>} : \A p \in ToSet(g) : ToSet(g) = Kin(files, rootOf, key, p)
  BY <1>18, <1>24
<1> QED
  BY <1>20, <1>21, <1>22, <1>14, <1>23, <1>26, <1>27

\* n of the groups gs have no member in drop.
Spares(gs, n, drop) ==
  \E at \in [1..n -> 1..Len(gs)] :
    /\ \A j, k \in 1..n : at[j] = at[k] => j = k
    /\ \A k \in 1..n : ToSet(gs[at[k]]) \cap drop = {}

\* What is kept and what is dropped share no file, subgroups are dropped as a whole,
\* none of A is, at least n are kept, and those of B that are dropped are the last ones.
LEMMA KeepAtLeastIs ==
  ASSUME NEW P, NEW gs \in Seq(NonEmpty(P)), Apart(gs), NEW n \in Nat, n # 0,
         NEW A, NEW B, A \cap B = {}
  PROVE  LET x == KeepAtLeast(n, Filtered(gs, A), Filtered(gs, B))
         IN /\ x.keep \in Seq(P) /\ x.drop \in Seq(P)
            /\ ToSet(x.keep) \cap ToSet(x.drop) = {}
            /\ ToSet(x.drop) # {} => Len(x.keep) # 0
            /\ \A p \in ToSet(x.drop) :
                 \E g \in ToSet(gs) \cap B : p \in ToSet(g) /\ ToSet(g) \subseteq ToSet(x.drop)
            /\ ToSet(x.drop) # {} => Spares(gs, n, ToSet(x.drop))
            /\ \A i, j \in 1..Len(gs) :
                 i < j /\ {gs[i], gs[j]} \subseteq B /\ ToSet(gs[i]) \cap ToSet(x.drop) # {}
                   => ToSet(gs[j]) \subseteq ToSet(x.drop)
<1> DEFINE retain == Filtered(gs, A)
           others == Filtered(gs, B)
           need == Max({0, n - Len(retain)})
           missing == Min({Len(others), need})
           head == SubSeq(others, 1, missing)
           tail == SubSeq(others, missing + 1, Len(others))
           kept == retain \o head
<1>1. \A s : s \in Seq(NonEmpty(P)) => s \in Seq(Seq(P))
  BY DEF NonEmpty
<1>2. /\ retain \in Seq(NonEmpty(P)) /\ ToSet(retain) = ToSet(gs) \cap A
      /\ others \in Seq(NonEmpty(P)) /\ ToSet(others) = ToSet(gs) \cap B
  <2> DEFINE X == NonEmpty(P)
  <2>1. gs \in Seq(X)
    OBVIOUS
  <2> HIDE DEF X
  <2> QED BY <2>1, FilteredIs DEF X
<1>3. PICK at : Picks(gs, B, others, at)
  BY FilteredIs
<1>4. PICK first : Picks(gs, A, retain, first)
  BY FilteredIs
<1> HIDE DEF retain, others
<1> USE DEF Picks
<1>5. Len(retain) \in Nat /\ Len(others) \in Nat
  BY <1>2
<1>6. /\ missing \in 0..Len(others)
      /\ missing < Len(others) => Len(retain) + missing >= n
  <2>1. \A a, b \in Int : Max({a, b}) = IF a >= b THEN a ELSE b
    BY DEF Max
  <2>2. \A a, b \in Int : Min({a, b}) = IF a <= b THEN a ELSE b
    BY DEF Min
  <2>3. need = IF 0 >= n - Len(retain) THEN 0 ELSE n - Len(retain)
    BY <1>5, <2>1
  <2>4. need \in Nat
    BY <1>5, <2>3
  <2>5. missing = IF Len(others) <= need THEN Len(others) ELSE need
    <3> HIDE DEF need
    <3> QED BY <1>5, <2>2, <2>4
  <2> HIDE DEF need, missing
  <2>6. missing < Len(others) => missing = need
    BY <1>5, <2>4, <2>5
  <2> QED BY <1>5, <2>3, <2>4, <2>5, <2>6
<1> HIDE DEF missing, need
<1>7. /\ head \in Seq(NonEmpty(P)) /\ Len(head) = missing
      /\ \A i \in 1..missing : head[i] = others[i]
  BY <1>2, <1>6
<1>8. /\ tail \in Seq(NonEmpty(P)) /\ Len(tail) = Len(others) - missing
      /\ \A i \in 1..(Len(others) - missing) : tail[i] = others[missing + i]
  BY <1>2, <1>5, <1>6
<1> HIDE DEF head, tail
<1>9. /\ kept \in Seq(NonEmpty(P)) /\ Len(kept) = Len(retain) + missing
      /\ ToSet(kept) = ToSet(retain) \cup ToSet(head)
      /\ \A i \in 1..Len(retain) : kept[i] = retain[i]
      /\ \A i \in 1..missing : kept[Len(retain) + i] = head[i]
  <2> DEFINE X == NonEmpty(P)
  <2>1. retain \in Seq(X) /\ head \in Seq(X)
    BY <1>2, <1>7
  <2> HIDE DEF X
  <2>2. /\ kept \in Seq(X) /\ Len(kept) = Len(retain) + Len(head)
        /\ ToSet(kept) = ToSet(retain) \cup ToSet(head)
        /\ \A i \in 1..Len(retain) : kept[i] = retain[i]
        /\ \A i \in 1..Len(head) : kept[Len(retain) + i] = head[i]
    BY <2>1, ConcatIs
  <2> QED BY <1>7, <2>2 DEF X
<1> HIDE DEF kept
<1> DEFINE x == KeepAtLeast(n, retain, others)
<1>10. x.keep = FlattenSeq(kept) /\ x.drop = FlattenSeq(tail)
  BY DEF KeepAtLeast, kept, head, tail, missing, need
<1>11. /\ x.keep \in Seq(P) /\ ToSet(x.keep) = UNION {ToSet(kept[i]) : i \in 1..Len(kept)}
       /\ x.drop \in Seq(P) /\ ToSet(x.drop) = UNION {ToSet(tail[i]) : i \in 1..Len(tail)}
  <2>1. kept \in Seq(Seq(P)) /\ tail \in Seq(Seq(P))
    BY <1>1, <1>8, <1>9
  <2> QED BY <1>10, <2>1, FlattenIs
<1> HIDE DEF x
<1>12. ToSet(x.keep) \cap ToSet(x.drop) = {}
  <2> SUFFICES ASSUME NEW p, p \in ToSet(x.keep), p \in ToSet(x.drop) PROVE FALSE
    OBVIOUS
  <2>1. PICK u \in ToSet(kept) : p \in ToSet(u)
    BY <1>9, <1>11, ToSetIs
  <2>2. PICK k \in 1..(Len(others) - missing) : p \in ToSet(others[missing + k])
    BY <1>8, <1>11
  <2>3. missing + k \in 1..Len(others)
    BY <1>5, <1>6
  <2>4. at[missing + k] \in 1..Len(gs) /\ others[missing + k] = gs[at[missing + k]]
        /\ others[missing + k] \in B
    <3>1. others[missing + k] \in ToSet(others)
      BY <1>2, <2>3, ToSetIs
    <3> QED BY <1>2, <1>3, <2>3, <3>1
  <2>5. CASE u \in ToSet(retain)
    <3>1. u \in ToSet(gs) /\ u \in A
      BY <1>2, <2>5
    <3>2. PICK i \in 1..Len(gs) : u = gs[i]
      BY <3>1, ToSetIs
    <3>3. i # at[missing + k]
      BY <2>4, <3>1, <3>2
    <3>4. ToSet(gs[i]) \cap ToSet(gs[at[missing + k]]) = {}
      BY <2>4, <3>3 DEF Apart
    <3> QED BY <2>1, <2>2, <2>4, <3>2, <3>4
  <2>6. CASE u \in ToSet(head)
    <3>1. PICK i \in 1..missing : u = others[i]
      <4>1. PICK i \in 1..Len(head) : u = head[i]
        BY <1>7, <2>6, ToSetIs
      <4> QED BY <1>7, <4>1
    <3>2. i \in 1..Len(others) /\ i # missing + k
      BY <1>5, <1>6
    <3>3. at[i] \in 1..Len(gs) /\ at[i] # at[missing + k] /\ others[i] = gs[at[i]]
      BY <1>3, <2>3, <3>2
    <3>4. ToSet(gs[at[i]]) \cap ToSet(gs[at[missing + k]]) = {}
      BY <2>4, <3>3 DEF Apart
    <3> QED BY <2>1, <2>2, <2>4, <3>1, <3>3, <3>4
  <2> QED BY <1>9, <2>1, <2>5, <2>6
<1>13. ToSet(x.drop) # {} => Len(x.keep) # 0
  <2> SUFFICES ASSUME ToSet(x.drop) # {} PROVE Len(x.keep) # 0
    OBVIOUS
  <2>1. Len(tail) # 0
    BY <1>11
  <2>2. Len(others) > missing
    <3>1. Len(tail) = Len(others) - missing
      BY <1>8
    <3> QED BY <1>5, <1>6, <2>1, <3>1
  <2>3. Len(kept) # 0
    BY <1>5, <1>6, <1>9, <2>2
  <2>4. kept[1] \in NonEmpty(P) /\ 1 \in 1..Len(kept)
    BY <1>9, <2>3
  <2>5. PICK p : p \in ToSet(kept[1])
    <3>1. kept[1] \in Seq(P) /\ Len(kept[1]) # 0
      BY <2>4 DEF NonEmpty
    <3>2. 1 \in 1..Len(kept[1])
      BY <3>1
    <3> QED BY <3>1, <3>2, ToSetIs
  <2>6. p \in ToSet(x.keep)
    BY <1>11, <2>4, <2>5
  <2>7. Len(x.keep) = 0 => ToSet(x.keep) = {}
    <3>1. ToSet(x.keep) = {x.keep[i] : i \in 1..Len(x.keep)}
      BY <1>11, ToSetIs
    <3> QED BY <3>1
  <2> QED BY <2>6, <2>7
<1>14. ASSUME NEW p \in ToSet(x.drop)
       PROVE  \E g \in ToSet(gs) \cap B : p \in ToSet(g) /\ ToSet(g) \subseteq ToSet(x.drop)
  <2>1. PICK k \in 1..Len(tail) : p \in ToSet(tail[k]) /\ ToSet(tail[k]) \subseteq ToSet(x.drop)
    BY <1>11
  <2>2. tail[k] = others[missing + k] /\ missing + k \in 1..Len(others)
    BY <1>5, <1>6, <1>8
  <2>3. tail[k] \in ToSet(others)
    BY <1>2, <2>2, ToSetIs
  <2> QED BY <1>2, <2>1, <2>3
<1>15. ASSUME ToSet(x.drop) # {} PROVE Spares(gs, n, ToSet(x.drop))
  <2> DEFINE place == [k \in 1..n |-> IF k <= Len(retain) THEN first[k] ELSE at[k - Len(retain)]]
  <2>1. n <= Len(kept)
    <3>1. Len(tail) # 0
      BY <1>11, <1>15
    <3>2. missing < Len(others)
      BY <1>5, <1>6, <1>8, <3>1
    <3> QED BY <1>6, <1>9, <3>2
  <2>2. \A k \in 1..n : k <= Len(retain) =>
          /\ k \in 1..Len(retain) /\ place[k] = first[k] /\ kept[k] = retain[k]
    BY <1>5, <1>9
  <2>3. \A k \in 1..n : ~(k <= Len(retain)) =>
          /\ k - Len(retain) \in 1..missing /\ k - Len(retain) \in 1..Len(others)
          /\ place[k] = at[k - Len(retain)]
          /\ kept[k] = others[k - Len(retain)]
    <3> SUFFICES ASSUME NEW k \in 1..n, ~(k <= Len(retain))
                 PROVE  /\ k - Len(retain) \in 1..missing /\ k - Len(retain) \in 1..Len(others)
                        /\ place[k] = at[k - Len(retain)]
                        /\ kept[k] = others[k - Len(retain)]
      OBVIOUS
    <3>1. k - Len(retain) \in 1..missing /\ k = Len(retain) + (k - Len(retain))
      BY <1>5, <1>6, <1>9, <2>1
    <3>2. kept[k] = head[k - Len(retain)]
      BY <1>9, <3>1
    <3> QED BY <1>5, <1>6, <1>7, <3>1, <3>2
  <2> HIDE DEF place
  <2>4. \A k \in 1..Len(retain) : retain[k] \in A
    BY <1>2, ToSetIs
  <2>5. \A k \in 1..Len(others) : others[k] \in B
    BY <1>2, ToSetIs
  <2>6. /\ \A j \in 1..Len(retain) : first[j] \in 1..Len(gs) /\ retain[j] = gs[first[j]]
        /\ \A j \in 1..Len(others) : at[j] \in 1..Len(gs) /\ others[j] = gs[at[j]]
    BY <1>3, <1>4
  <2>7. ASSUME NEW k \in 1..n
        PROVE  place[k] \in 1..Len(gs) /\ gs[place[k]] = kept[k]
    <3>1. CASE k <= Len(retain)
      <4>1. k \in 1..Len(retain) /\ place[k] = first[k] /\ kept[k] = retain[k]
        BY <2>2, <3>1
      <4>2. first[k] \in 1..Len(gs) /\ retain[k] = gs[first[k]]
        BY <2>6, <4>1
      <4> QED BY <4>1, <4>2
    <3>2. CASE ~(k <= Len(retain))
      <4>1. /\ k - Len(retain) \in 1..Len(others) /\ place[k] = at[k - Len(retain)]
            /\ kept[k] = others[k - Len(retain)]
        BY <2>3, <3>2
      <4> DEFINE i == k - Len(retain)
      <4> HIDE DEF i
      <4>2. i \in 1..Len(others) /\ place[k] = at[i] /\ kept[k] = others[i]
        BY <4>1 DEF i
      <4>3. at[i] \in 1..Len(gs) /\ others[i] = gs[at[i]]
        BY <2>6, <4>2
      <4> QED BY <4>2, <4>3
    <3> QED BY <3>1, <3>2
  <2>8. \A k \in 1..n : k <= Len(retain) <=> gs[place[k]] \in A
    <3> SUFFICES ASSUME NEW k \in 1..n PROVE k <= Len(retain) <=> gs[place[k]] \in A
      OBVIOUS
    <3>1. CASE k <= Len(retain)
      BY <2>2, <2>4, <2>7, <3>1
    <3>2. CASE ~(k <= Len(retain))
      BY <2>3, <2>5, <2>7, <3>2
    <3> QED BY <3>1, <3>2
  <2>9. ASSUME NEW j \in 1..n, NEW k \in 1..n, place[j] = place[k]
        PROVE  j = k
    <3>1. j <= Len(retain) <=> k <= Len(retain)
      BY <2>8, <2>9
    <3>2. CASE j <= Len(retain)
      BY <1>4, <2>2, <2>9, <3>1, <3>2
    <3>3. CASE ~(j <= Len(retain))
      <4>1. j - Len(retain) = k - Len(retain)
        BY <1>3, <2>3, <2>9, <3>1, <3>3
      <4> QED BY <1>5, <4>1
    <3> QED BY <3>2, <3>3
  <2>10. \A k \in 1..n : ToSet(gs[place[k]]) \cap ToSet(x.drop) = {}
    <3>1. \A k \in 1..n : k \in 1..Len(kept)
      BY <1>9, <2>1
    <3>2. \A k \in 1..n : ToSet(kept[k]) \subseteq ToSet(x.keep)
      BY <1>11, <3>1
    <3> QED BY <1>12, <2>7, <3>2
  <2>11. place \in [1..n -> 1..Len(gs)]
    BY <2>7 DEF place
  <2> QED BY <2>9, <2>10, <2>11 DEF Spares
<1>16. ASSUME NEW i \in 1..Len(gs), NEW j \in 1..Len(gs), i < j, gs[i] \in B, gs[j] \in B,
              ToSet(gs[i]) \cap ToSet(x.drop) # {}
       PROVE  ToSet(gs[j]) \subseteq ToSet(x.drop)
  <2>1. PICK a \in 1..Len(others) : at[a] = i
    BY <1>3, <1>16
  <2>2. PICK b \in 1..Len(others) : at[b] = j
    BY <1>3, <1>16
  <2>3. others[a] = gs[i] /\ others[b] = gs[j]
    BY <1>3, <2>1, <2>2
  <2>4. a < b
    <3>1. ~(b < a) /\ a # b
      BY <1>3, <1>16, <2>1, <2>2
    <3> QED BY <3>1
  <2>5. ~(a <= missing)
    <3> SUFFICES ASSUME a <= missing PROVE FALSE
      OBVIOUS
    <3>1. a \in 1..missing /\ head[a] = gs[i]
      BY <1>5, <1>6, <1>7, <2>3
    <3>2. Len(retain) + a \in 1..Len(kept) /\ kept[Len(retain) + a] = gs[i]
      BY <1>5, <1>6, <1>9, <3>1
    <3>3. ToSet(gs[i]) \subseteq ToSet(x.keep)
      BY <1>11, <3>2
    <3> QED BY <1>12, <1>16, <3>3
  <2>6. b - missing \in 1..(Len(others) - missing) /\ missing + (b - missing) = b
    BY <1>5, <1>6, <2>4, <2>5
  <2>7. tail[b - missing] = gs[j] /\ b - missing \in 1..Len(tail)
    BY <1>8, <2>3, <2>6
  <2> QED BY <1>11, <2>7
<1> QED
  BY <1>11, <1>12, <1>13, <1>14, <1>15, <1>16 DEF x, retain, others

=============================================================================
