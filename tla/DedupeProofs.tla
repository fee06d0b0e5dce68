----------------------------- MODULE DedupeProofs -----------------------------
(***************************************************************************)
(* No contents are lost, a command does its work or leaves its file alone, *)
(* locks and late changes are respected, and as many replicas as asked for *)
(* are kept: for any files, report, options and interleaving, and wherever *)
(* fclones is killed.                                                      *)
(***************************************************************************)
EXTENDS Dedupe, FileGroupsProofs

-----------------------------------------------------------------------------
(* Sorting.                                                                *)

\* t has the members of s in another order.
Arranged(s, t) ==
  /\ Len(t) = Len(s)
  /\ \E at \in [1..Len(s) -> 1..Len(s)] :
       /\ \A i, j \in 1..Len(s) : at[i] = at[j] => i = j
       /\ \A k \in 1..Len(s) : t[k] = s[at[k]]

LEMMA ArrangedKeeps ==
  ASSUME NEW S, NEW s \in Seq(Seq(S)), NEW t \in Seq(Seq(S)), Arranged(s, t)
  PROVE  /\ ToSet(t) = ToSet(s)
         /\ Apart(s) => Apart(t)
<1> DEFINE N == 1..Len(s)
<1>1. PICK at \in [N -> N] : /\ \A i, j \in N : at[i] = at[j] => i = j
                             /\ \A k \in N : t[k] = s[at[k]]
  BY DEF Arranged
<1>2. Len(t) = Len(s) /\ IsFiniteSet(N)
  BY FS_Interval DEF Arranged
<1>3. at \in Injection(N, N)
  BY <1>1 DEF Injection, IsInjective
<1>4. at \in Surjection(N, N)
  <2> HIDE DEF N
  <2> QED BY <1>2, <1>3, FS_Injection
<1>5. \A i \in N : \E k \in N : at[k] = i
  BY <1>4 DEF Surjection
<1>6. ToSet(t) = {t[i] : i \in N} /\ ToSet(s) = {s[i] : i \in N}
  BY <1>2, ToSetIs
<1>7. ToSet(t) = ToSet(s)
  <2> HIDE DEF N
  <2>1. \A k \in N : at[k] \in N
    OBVIOUS
  <2>2. \A k \in N : t[k] \in ToSet(s)
    BY <1>1, <1>6, <2>1
  <2>3. \A i \in N : s[i] \in ToSet(t)
    BY <1>1, <1>5, <1>6
  <2> QED BY <1>6, <2>2, <2>3
<1>8. Apart(s) => Apart(t)
  <2> SUFFICES ASSUME Apart(s), NEW i \in N, NEW j \in N, i # j
               PROVE  ToSet(t[i]) \cap ToSet(t[j]) = {}
    BY <1>2 DEF Apart
  <2>1. at[i] \in N /\ at[j] \in N /\ at[i] # at[j]
    BY <1>1
  <2>2. ToSet(s[at[i]]) \cap ToSet(s[at[j]]) = {}
    BY <2>1 DEF Apart
  <2>3. t[i] = s[at[i]] /\ t[j] = s[at[j]]
    BY <1>1
  <2> QED BY <2>2, <2>3
<1> QED
  BY <1>7, <1>8

LEMMA ArrangedAgain ==
  ASSUME NEW s, NEW t, NEW u, Len(s) \in Nat, Arranged(s, t), Arranged(t, u)
  PROVE  Arranged(s, u)
<1>1. PICK a \in [1..Len(s) -> 1..Len(s)] :
             /\ \A i, j \in 1..Len(s) : a[i] = a[j] => i = j
             /\ \A k \in 1..Len(s) : t[k] = s[a[k]]
  BY DEF Arranged
<1>2. Len(t) = Len(s) /\ Len(u) = Len(s)
  BY DEF Arranged
<1>3. PICK b \in [1..Len(s) -> 1..Len(s)] :
             /\ \A i, j \in 1..Len(s) : b[i] = b[j] => i = j
             /\ \A k \in 1..Len(s) : u[k] = t[b[k]]
  BY <1>2 DEF Arranged
<1> DEFINE c == [k \in 1..Len(s) |-> a[b[k]]]
<1>4. /\ c \in [1..Len(s) -> 1..Len(s)]
      /\ \A i, j \in 1..Len(s) : c[i] = c[j] => i = j
      /\ \A k \in 1..Len(s) : u[k] = s[c[k]]
  BY <1>1, <1>3
<1> QED
  <2> HIDE DEF c
  <2> QED BY <1>2, <1>4 DEF Arranged

LEMMA ReverseArranges ==
  ASSUME NEW S, NEW s \in Seq(S)
  PROVE  Reverse(s) \in Seq(S) /\ Arranged(s, Reverse(s))
<1> DEFINE n == Len(s)
           at == [k \in 1..n |-> n - k + 1]
<1>1. n \in Nat
  OBVIOUS
<1>2. /\ at \in [1..n -> 1..n] /\ \A i, j \in 1..n : at[i] = at[j] => i = j
  BY <1>1
<1>3. Reverse(s) = [k \in 1..n |-> s[at[k]]]
  BY DEF Reverse
<1>4. Reverse(s) \in Seq(S) /\ Len(Reverse(s)) = n
  <2>1. \A k \in 1..n : s[at[k]] \in S
    BY <1>2
  <2> HIDE DEF at, n
  <2> QED BY <1>1, <1>3, <2>1
<1>5. \A k \in 1..n : Reverse(s)[k] = s[at[k]]
  BY <1>3
<1> QED
  <2> HIDE DEF at
  <2> QED BY <1>2, <1>4, <1>5 DEF Arranged

\* t is sorted by a key.
Ascends(t, key) == \A i, j \in 1..Len(t) : i < j => key[t[i]] <= key[t[j]]

LEMMA SortArranges ==
  ASSUME NEW S, NEW s \in Seq(S), NEW key, \A x \in ToSet(s) : key[x] \in Int
  PROVE  /\ StableSort(s, key) \in Seq(S) /\ Arranged(s, StableSort(s, key))
         /\ Ascends(StableSort(s, key), key)
<1> DEFINE N == 1..Len(s)
           Before(j, i) == key[s[j]] < key[s[i]] \/ (key[s[j]] = key[s[i]] /\ j <= i)
           Upto(i) == {j \in N : Before(j, i)}
           below == [i \in N |-> Upto(i)]
           At(k) == CHOOSE i \in N : Cardinality(Upto(i)) = k
           at == [k \in N |-> At(k)]
<1>1. IsFiniteSet(N) /\ Cardinality(N) = Len(s) /\ Len(s) \in Nat /\ N \subseteq Nat
  BY FS_Interval
<1>2. \A i \in N : key[s[i]] \in Int
  BY ToSetIs
<1>3. \A i \in N : below[i] = Upto(i)
  OBVIOUS
<1>4. Nested(N, below)
  <2>1. below \in [N -> SUBSET N]
    OBVIOUS
  <2>2. \A i \in N : Before(i, i)
    BY <1>2
  <2>3. \A i, j \in N : i # j => (Before(i, j) /\ ~Before(j, i)) \/ (Before(j, i) /\ ~Before(i, j))
    BY <1>2
  <2>4. \A i, j, k \in N : Before(i, j) /\ Before(j, k) => Before(i, k)
    BY <1>2
  <2> HIDE DEF Before, below, N
  <2> QED BY <1>3, <2>1, <2>2, <2>3, <2>4 DEF Nested
<1> HIDE DEF below
<1>5. Ranked(N, below)
  <2> HIDE DEF N
  <2> QED BY <1>1, <1>4, Ranks
<1>6. \A k \in N : At(k) \in N /\ Cardinality(Upto(At(k))) = k
  <2>1. \A k \in N : \E i \in N : Cardinality(Upto(i)) = k
    <3> HIDE DEF Upto, N
    <3>1. \A k \in 1..Cardinality(N) : \E i \in N : Cardinality(below[i]) = k
      BY <1>5 DEF Ranked
    <3>2. N = 1..Cardinality(N)
      BY <1>1 DEF N
    <3> QED BY <1>3, <3>1, <3>2
  <2> HIDE DEF N, Upto
  <2> QED BY <2>1
<1>7. StableSort(s, key) = [k \in N |-> s[At(k)]]
  BY DEF StableSort
<1>8. at \in [N -> N] /\ \A i, j \in N : at[i] = at[j] => i = j
  <2>1. \A i, j \in N : At(i) = At(j) => i = j
    <3> HIDE DEF N, Upto, At
    <3> QED BY <1>6
  <2> HIDE DEF N, Upto, At
  <2> QED BY <1>6, <2>1
<1>9. \A k \in N : StableSort(s, key)[k] = s[at[k]] /\ s[at[k]] \in S
  <2>1. \A k \in N : s[at[k]] \in S
    <3>1. \A i \in N : s[i] \in S
      OBVIOUS
    <3> HIDE DEF N, at
    <3> QED BY <1>8, <3>1
  <2>2. \A k \in N : at[k] = At(k) /\ StableSort(s, key)[k] = s[At(k)]
    BY <1>7
  <2> HIDE DEF N, At, at
  <2> QED BY <2>1, <2>2
<1>10. StableSort(s, key) \in Seq(S) /\ Len(StableSort(s, key)) = Len(s)
  <2>1. \A k \in N : s[At(k)] \in S
    BY <1>8, <1>9
  <2> HIDE DEF At
  <2> QED BY <1>1, <1>7, <2>1
<1>11. ASSUME NEW i \in N, NEW j \in N, i < j
       PROVE  key[s[At(i)]] <= key[s[At(j)]]
  <2>1. /\ At(i) \in N /\ Cardinality(Upto(At(i))) = i
        /\ At(j) \in N /\ Cardinality(Upto(At(j))) = j
    <3> HIDE DEF N, At, Upto
    <3> QED BY <1>6
  <2> HIDE DEF At
  <2>2. key[s[At(i)]] \in Int /\ key[s[At(j)]] \in Int
    BY <1>2, <2>1
  <2> SUFFICES ASSUME key[s[At(j)]] < key[s[At(i)]] PROVE FALSE
    BY <2>2
  <2>3. Upto(At(j)) \in SUBSET Upto(At(i))
    <3>1. \A h \in N : Before(h, At(j)) => Before(h, At(i))
      BY <1>2, <2>1, <2>2
    <3> HIDE DEF Before, N
    <3> QED BY <3>1
  <2>4. IsFiniteSet(Upto(At(i)))
    <3>1. Upto(At(i)) \in SUBSET N
      OBVIOUS
    <3> HIDE DEF N, Upto
    <3> QED BY <1>1, <3>1, FS_Subset
  <2>5. Cardinality(Upto(At(j))) <= Cardinality(Upto(At(i)))
    <3> HIDE DEF Upto
    <3> QED BY <2>3, <2>4, FS_Subset
  <2> HIDE DEF Upto
  <2> QED BY <1>1, <1>11, <2>1, <2>5
<1>12. Ascends(StableSort(s, key), key)
  <2>1. \A k \in N : StableSort(s, key)[k] = s[At(k)]
    BY <1>7
  <2> HIDE DEF At
  <2> QED BY <1>10, <1>11, <2>1 DEF Ascends
<1> QED
  <2> HIDE DEF at, At
  <2> QED BY <1>8, <1>9, <1>10, <1>12 DEF Arranged

-----------------------------------------------------------------------------
(* Partition: what is dropped has a file that is kept.                     *)

LEMMA StampsExtremes ==
  ASSUME NEW P, NEW f, \A p \in P : f[p] \in Int, NEW g \in NonEmpty(P)
  PROVE  Min(Stamps(f, g)) \in Int /\ Max(Stamps(f, g)) \in Int
<1>1. g \in Seq(P) /\ Len(g) # 0
  BY DEF NonEmpty
<1>2. /\ ToSet(g) \subseteq P /\ IsFiniteSet(ToSet(g)) /\ ToSet(g) # {}
  <2>1. 1 \in 1..Len(g)
    BY <1>1
  <2>2. g[1] \in ToSet(g)
    BY <1>1, <2>1, ToSetIs
  <2> QED BY <1>1, <2>2, ToSetIs
<1>3. Stamps(f, g) \subseteq Int /\ Stamps(f, g) # {}
  BY <1>2 DEF Stamps
<1>4. [p \in ToSet(g) |-> f[p]] \in Surjection(ToSet(g), Stamps(f, g))
  BY DEF Surjection, Stamps
<1>5. IsFiniteSet(Stamps(f, g))
  BY <1>2, <1>4, FS_Surjection
<1>6. Min(Stamps(f, g)) \in Stamps(f, g) /\ Max(Stamps(f, g)) \in Stamps(f, g)
  BY <1>3, <1>5, Extremes
<1> QED
  BY <1>3, <1>6

\* All files have the times that the priorities compare.
Sortable(P) ==
  /\ P \subseteq Paths
  /\ ToSet(Priority) \cap {"newest", "oldest"} # {} => \A p \in P : Created[p] \in Int

LEMMA KeyTyped ==
  ASSUME NEW P, Sortable(P), NEW g \in NonEmpty(P),
         NEW priority \in ToSet(Priority), priority \in Priorities \ {"top", "bottom"}
  PROVE  SortKey(priority, g) \in Int
<1>1. /\ \A p \in P : Modified[p] \in Int
      /\ \A p \in P : Nesting[p] \in Int
  BY ReportAssumption DEF Sortable
<1>2. /\ Min(Stamps(Nesting, g)) \in Int /\ Max(Stamps(Nesting, g)) \in Int
      /\ Max(Stamps(Modified, g)) \in Int
  BY <1>1, StampsExtremes
<1>3. CASE priority \in {"newest", "oldest"}
  <2>1. \A p \in P : Created[p] \in Int
    BY <1>3 DEF Sortable
  <2>2. Min(Stamps(Created, g)) \in Int
    BY <2>1, StampsExtremes
  <2>3. CASE priority = "newest"
    BY <2>2, <2>3 DEF SortKey
  <2>4. CASE priority = "oldest"
    BY <2>2, <2>4 DEF SortKey
  <2> QED BY <1>3, <2>3, <2>4
<1>4. CASE priority = "most-recent"
  BY <1>2, <1>4 DEF SortKey
<1>5. CASE priority = "least-recent"
  BY <1>2, <1>5 DEF SortKey
<1>6. CASE priority = "most-nested"
  BY <1>2, <1>6 DEF SortKey
<1>7. CASE priority = "least-nested"
  BY <1>2, <1>7 DEF SortKey
<1> QED
  BY <1>3, <1>4, <1>5, <1>6, <1>7 DEF Priorities

\* The subgroups t are sorted by the key of a priority.
InOrder(t, priority) ==
  \A i, j \in 1..Len(t) : i < j => SortKey(priority, t[i]) <= SortKey(priority, t[j])

LEMMA SortByArranges ==
  ASSUME NEW P, Sortable(P), NEW gs \in Seq(NonEmpty(P)),
         NEW priority \in ToSet(Priority), priority \in Priorities
  PROVE  /\ SortBy(gs, priority) \in Seq(NonEmpty(P)) /\ Arranged(gs, SortBy(gs, priority))
         /\ priority \notin {"top", "bottom"} => InOrder(SortBy(gs, priority), priority)
<1>1. CASE priority = "top"
  <2>1. SortBy(gs, priority) = Reverse(gs)
    BY <1>1 DEF SortBy
  <2> QED BY <1>1, <2>1, ReverseArranges
<1>2. CASE priority = "bottom"
  <2>1. SortBy(gs, priority) = gs
    BY <1>2 DEF SortBy
  <2> DEFINE at == [k \in 1..Len(gs) |-> k]
  <2>2. /\ at \in [1..Len(gs) -> 1..Len(gs)]
        /\ \A i, j \in 1..Len(gs) : at[i] = at[j] => i = j
        /\ \A k \in 1..Len(gs) : gs[k] = gs[at[k]]
    OBVIOUS
  <2>3. Arranged(gs, gs)
    <3> HIDE DEF at
    <3> QED BY <2>2 DEF Arranged
  <2> QED BY <1>2, <2>1, <2>3
<1>3. CASE priority \notin {"top", "bottom"}
  <2> DEFINE key == [g \in ToSet(gs) |-> SortKey(priority, g)]
  <2>1. SortBy(gs, priority) = StableSort(gs, key)
    BY <1>3 DEF SortBy
  <2>2. \A g \in ToSet(gs) : g \in NonEmpty(P)
    BY ToSetIs
  <2>3. \A g \in ToSet(gs) : SortKey(priority, g) \in Int
    BY <1>3, <2>2, KeyTyped
  <2>4. \A g \in ToSet(gs) : key[g] \in Int
    BY <2>3
  <2>5. \A g \in ToSet(gs) : key[g] = SortKey(priority, g)
    OBVIOUS
  <2> HIDE DEF key
  <2> DEFINE t == StableSort(gs, key)
  <2>6. t \in Seq(NonEmpty(P)) /\ Arranged(gs, t) /\ Ascends(t, key)
    BY <2>4, SortArranges
  <2> HIDE DEF t
  <2>7. \A i \in 1..Len(t) : t[i] \in ToSet(gs)
    <3>1. \A s : s \in Seq(NonEmpty(P)) => s \in Seq(Seq(P))
      BY DEF NonEmpty
    <3>2. ToSet(t) = ToSet(gs)
      BY <2>6, <3>1, ArrangedKeeps
    <3> QED BY <2>6, <3>2, ToSetIs
  <2>8. InOrder(t, priority)
    BY <2>5, <2>6, <2>7 DEF InOrder, Ascends
  <2> QED BY <2>1, <2>6, <2>8 DEF t
<1> QED
  BY <1>1, <1>2, <1>3

Sorts(gs, f) ==
  f = [k \in 0..Len(Priority) |->
         IF k = 0 THEN gs ELSE SortBy(f[k - 1], Priority[Len(Priority) + 1 - k])]

LEMMA PrioritisedArranges ==
  ASSUME NEW P, Sortable(P), NEW gs \in Seq(NonEmpty(P)), Priority \in Seq(Priorities)
  PROVE  /\ Prioritised(gs) \in Seq(NonEmpty(P)) /\ Arranged(gs, Prioritised(gs))
         /\ Priority # <<>> /\ Priority[1] \notin {"top", "bottom"} =>
              InOrder(Prioritised(gs), Priority[1])
<1> DEFINE n == Len(Priority)
           At(k) == Priority[n + 1 - k]
           X == {t \in Seq(NonEmpty(P)) : Arranged(gs, t)}
           step == [k \in 1..n |-> [t \in X |-> SortBy(t, At(k))]]
           sorted == CHOOSE f : Sorts(gs, f)
<1>1. n \in Nat /\ Len(gs) \in Nat
  OBVIOUS
<1>2. \A k \in 1..n : At(k) \in ToSet(Priority) /\ At(k) \in Priorities
  <2>1. \A k \in 1..n : n + 1 - k \in 1..n
    OBVIOUS
  <2>2. \A k \in 1..n : Priority[k] \in ToSet(Priority) /\ Priority[k] \in Priorities
    BY ToSetIs
  <2> QED BY <2>1, <2>2
<1>3. gs \in X
  <2> DEFINE at == [k \in 1..Len(gs) |-> k]
  <2>1. /\ at \in [1..Len(gs) -> 1..Len(gs)]
        /\ \A i, j \in 1..Len(gs) : at[i] = at[j] => i = j
        /\ \A k \in 1..Len(gs) : gs[k] = gs[at[k]]
    OBVIOUS
  <2> HIDE DEF at
  <2> QED BY <2>1 DEF Arranged
<1>4. \A k \in 1..n : \A t \in X : SortBy(t, At(k)) \in X
  <2> SUFFICES ASSUME NEW k \in 1..n, NEW t \in X PROVE SortBy(t, At(k)) \in X
    OBVIOUS
  <2>1. SortBy(t, At(k)) \in Seq(NonEmpty(P)) /\ Arranged(t, SortBy(t, At(k)))
    <3>1. t \in Seq(NonEmpty(P)) /\ At(k) \in ToSet(Priority) /\ At(k) \in Priorities
      BY <1>2
    <3> HIDE DEF At
    <3> QED BY <3>1, SortByArranges
  <2>2. Arranged(gs, SortBy(t, At(k)))
    BY <1>1, <2>1, ArrangedAgain
  <2> QED BY <2>1, <2>2
<1>5. step \in [1..n -> [X -> X]]
  <2> HIDE DEF X, At, n
  <2> QED BY <1>4
<1>6. \A k \in 1..n : \A t \in X : step[k][t] = SortBy(t, At(k))
  OBVIOUS
<1>7. \E f : Sorts(gs, f)
  <2>1. PICK f : Run(X, gs, n, step, f)
    <3> HIDE DEF X, step, n
    <3> QED BY <1>1, <1>3, <1>5, RunExists
  <2>2. f = [k \in 0..n |-> f[k]] /\ f[0] = gs
    BY <2>1 DEF Run
  <2>3. \A k \in 0..n : k # 0 => f[k] = SortBy(f[k - 1], At(k))
    <3> HIDE DEF X, step, At
    <3>1. \A k \in 0..n : k # 0 => k \in 1..n /\ k - 1 \in 0..n
      BY <1>1
    <3>2. \A k \in 0..n : f[k] \in X
      BY <2>1 DEF Run
    <3> QED BY <1>6, <2>1, <3>1, <3>2 DEF Run
  <2>4. Sorts(gs, f)
    BY <2>2, <2>3 DEF Sorts
  <2> QED BY <2>4
<1>8. Sorts(gs, sorted)
  BY <1>7
<1>9. Prioritised(gs) = sorted[n]
  BY DEF Prioritised, Sorts
<1> HIDE DEF sorted
<1>10. sorted[0] = gs /\ \A k \in 1..n : sorted[k] = SortBy(sorted[k - 1], At(k))
  <2>1. \A k \in 0..n : sorted[k] = IF k = 0 THEN gs ELSE SortBy(sorted[k - 1], At(k))
    BY <1>8 DEF Sorts
  <2>2. 0 \in 0..n /\ \A k \in 1..n : k \in 0..n /\ k # 0
    BY <1>1
  <2> HIDE DEF At, n
  <2> QED BY <2>1, <2>2
<1> DEFINE Bad == {k \in 0..n : sorted[k] \notin X}
<1>11. Bad = {}
  <2> SUFFICES ASSUME Bad # {} PROVE FALSE
    OBVIOUS
  <2> HIDE DEF X
  <2>1. PICK k \in Bad : \A j \in Bad : k <= j
    <3>1. Bad \subseteq Nat
      OBVIOUS
    <3> HIDE DEF Bad
    <3> QED BY <3>1, LeastNumber
  <2>2. k # 0
    BY <1>3, <1>10, <2>1
  <2>3. k \in 1..n /\ k - 1 \in 0..n /\ k - 1 \notin Bad
    BY <1>1, <2>1, <2>2
  <2>4. sorted[k - 1] \in X
    BY <2>3
  <2>5. sorted[k] \in X
    <3> HIDE DEF At, n
    <3> QED BY <1>4, <1>10, <2>3, <2>4
  <2> QED BY <2>1, <2>5
<1>12. sorted[n] \in X
  <2>1. n \in 0..n
    BY <1>1
  <2> HIDE DEF X, n
  <2> QED BY <1>11, <2>1
<1>13. ASSUME Priority # <<>>, Priority[1] \notin {"top", "bottom"}
       PROVE  InOrder(sorted[n], Priority[1])
  <2>1. n \in 1..n /\ n - 1 \in 0..n /\ At(n) = Priority[1]
    BY <1>1, <1>13
  <2>2. sorted[n] = SortBy(sorted[n - 1], Priority[1])
    <3> HIDE DEF At, n
    <3> QED BY <1>10, <2>1
  <2>3. sorted[n - 1] \in X
    <3> HIDE DEF X, n
    <3> QED BY <1>11, <2>1
  <2>4. sorted[n - 1] \in Seq(NonEmpty(P)) /\ Priority[1] \in ToSet(Priority) /\ Priority[1] \in Priorities
    BY <1>2, <2>1, <2>3
  <2> HIDE DEF n
  <2> QED BY <1>13, <2>2, <2>4, SortByArranges
<1> QED
  BY <1>9, <1>12, <1>13

\* The place of the first root p is under, or 0.
RootOf(p) == SelectInSeq(Roots, LAMBDA r : r \in UnderRoot[p])

\* q is one replica with p, by its root or by what identifies it.
OneReplica(p, q, id) ==
  /\ RootOf(q) = RootOf(p)
  /\ RootOf(p) = 0 => IF MatchLinks THEN q = p ELSE id[q] = id[p]

\* n replicas of P none of which is in drop.
Replicated(P, n, drop, id) ==
  \E f \in [1..n -> P] :
    /\ \A k \in 1..n : f[k] \notin drop
    /\ \A j, k \in 1..n : j # k => ~OneReplica(f[j], f[k], id)

\* Files that have no root, pattern or link in common.
Unrelated(P, id) ==
  /\ Roots = <<>> /\ KeepMatched = {} /\ ~NamePatterns /\ ~PathPatterns
  /\ \A p, q \in P : id[p] = id[q] => p = q

\* The first priority has a key.
FirstHasKey == Priority # <<>> /\ Priority[1] \notin {"top", "bottom"}

\* The files in drop rank, by the first priority, behind the others of P.
Behind(P, drop) ==
  FirstHasKey =>
    \A p \in drop, q \in P \ drop : SortKey(Priority[1], <<q>>) <= SortKey(Priority[1], <<p>>)

\* What partition returns for the files P.
Parted(x, P, id) ==
  /\ x.keep \in Seq(P) /\ x.drop \in Seq(P)
  /\ ToSet(x.keep) \cap ToSet(x.drop) = {}
  /\ ToSet(x.drop) # {} => Len(x.keep) # 0
  /\ \A p \in ToSet(x.drop) : /\ p \notin KeepMatched
                             /\ \A q \in P : OneReplica(p, q, id) => q \in ToSet(x.drop)
  /\ ToSet(x.drop) # {} => Replicated(P, ToKeep, ToSet(x.drop), id)
  /\ Unrelated(P, id) => Behind(P, ToSet(x.drop))

LEMMA ScenarioTyped ==
  ASSUME scenario \in 1..Len(Scenarios)
  PROVE  /\ Dir0 \in [Paths -> EntriesTo(Paths)]
         /\ Report \in Seq([files : Seq(Paths), len : Nat])
         /\ Ops \subseteq Operations
         /\ Len(Roots) \in Nat /\ Priority \in Seq(Priorities) /\ RfOver \in Nat
         /\ \A g, h \in 1..Len(Report) : g # h => Members(g) \cap Members(h) = {}
<1>1. Scenario.roots \in Seq(ToSet(Scenario.roots))
  BY ReportAssumption DEF Scenario
<1>2. Len(Roots) \in Nat
  <2> DEFINE S == ToSet(Scenario.roots)
  <2>1. Scenario.roots \in Seq(S)
    BY <1>1
  <2> HIDE DEF S
  <2> QED BY <2>1 DEF Roots
<1> QED
  BY <1>2, ReportAssumption DEF Scenario, Dir0, Report, Ops, Priority, RfOver, Members

LEMMA OwnFiles ==
  ASSUME NEW S, NEW files \in Seq(S)
  PROVE  files \in Seq(ToSet(files))
<1>1. \A i \in 1..Len(files) : files[i] \in ToSet(files)
  BY ToSetIs
<1> DEFINE M == ToSet(files)
<1> HIDE DEF M
<1>2. \A i \in 1..Len(files) : files[i] \in M
  BY <1>1 DEF M
<1>3. files \in Seq(M)
  BY <1>2
<1> QED BY <1>3 DEF M

LEMMA RootOfIs ==
  ASSUME scenario \in 1..Len(Scenarios), NEW p
  PROVE  /\ RootOf(p) \in 0..Len(Roots)
         /\ RootOf(p) # 0 => Roots[RootOf(p)] \in UnderRoot[p]
         /\ RootOf(p) = 0 => \A i \in 1..Len(Roots) : Roots[i] \notin UnderRoot[p]
         /\ \A q : UnderRoot[q] = UnderRoot[p] => RootOf(q) = RootOf(p)
<1> DEFINE I == {i \in 1..Len(Roots) : Roots[i] \in UnderRoot[p]}
<1>1. RootOf(p) = IF I # {} THEN Min(I) ELSE 0
  BY DEF RootOf, SelectInSeq
<1>2. Len(Roots) \in Nat
  BY ScenarioTyped
<1>3. IsFiniteSet(I) /\ I \subseteq Int
  <2>1. IsFiniteSet(1..Len(Roots)) /\ I \in SUBSET (1..Len(Roots)) /\ I \subseteq Int
    BY <1>2, FS_Interval
  <2> HIDE DEF I
  <2> QED BY <2>1, FS_Subset
<1>4. I # {} => Min(I) \in I
  <2> HIDE DEF I
  <2> QED BY <1>3, Extremes
<1>5. \A q : UnderRoot[q] = UnderRoot[p] => RootOf(q) = RootOf(p)
  BY DEF RootOf, SelectInSeq
<1> QED
  BY <1>1, <1>2, <1>4, <1>5

LEMMA SortKeySame ==
  ASSUME NEW g, NEW r, ToSet(g) = {r}, NEW priority \in Priorities \ {"top", "bottom"}
  PROVE  SortKey(priority, g) = SortKey(priority, <<r>>)
<1>1. ToSet(<<r>>) = {r}
  BY DEF ToSet
<1>2. \A f : Stamps(f, g) = Stamps(f, <<r>>)
  BY <1>1 DEF Stamps
<1>3. CASE priority = "newest"
  BY <1>2, <1>3 DEF SortKey
<1>4. CASE priority = "oldest"
  BY <1>2, <1>4 DEF SortKey
<1>5. CASE priority = "most-recent"
  BY <1>2, <1>5 DEF SortKey
<1>6. CASE priority = "least-recent"
  BY <1>2, <1>6 DEF SortKey
<1>7. CASE priority = "most-nested"
  BY <1>2, <1>7 DEF SortKey
<1>8. CASE priority = "least-nested"
  BY <1>2, <1>8 DEF SortKey
<1> QED
  BY <1>3, <1>4, <1>5, <1>6, <1>7, <1>8 DEF Priorities

LEMMA PartitionedIs ==
  ASSUME scenario \in 1..Len(Scenarios), NEW files \in Seq(Paths), NEW id
  PROVE  Parted(Partitioned(files, id), ToSet(files), id)
<1> DEFINE P == ToSet(files)
<1>1. P \subseteq Paths /\ files \in Seq(P)
  BY ToSetIs, OwnFiles
<1>2. CASE SortFails(files)
  <2>1. Partitioned(files, id) = [keep |-> files, drop |-> <<>>]
    BY <1>2 DEF Partitioned
  <2>2. ToSet(<<>>) = {} /\ <<>> \in Seq(P)
    BY DEF ToSet
  <2> HIDE DEF P
  <2> QED BY <1>1, <2>1, <2>2 DEF Parted, Behind, P
<1>3. CASE ~SortFails(files)
  <2>1. Sortable(P)
    <3>1. \A p \in P : Created[p] \in Int \cup {NoStamp}
      BY <1>1, ReportAssumption
    <3> QED BY <1>1, <1>3, <3>1 DEF Sortable, SortFails
  <2> DEFINE gs == SubGroups(files, id)
             ranked == Prioritised(gs)
             A == {g \in ToSet(ranked) : MustRetain(g)}
             B == {g \in ToSet(ranked) : ~MustRetain(g)}
  <2>2. /\ gs \in Seq(NonEmpty(P)) /\ Apart(gs)
        /\ \A g \in ToSet(gs) : \A p \in ToSet(g) : ToSet(g) = {q \in P : OneReplica(p, q, id)}
        /\ \A p \in P : \E g \in ToSet(gs) : p \in ToSet(g)
    <3> DEFINE n == Len(Roots)
               rootOf == [p \in ToSet(files) |-> SelectInSeq(Roots, LAMBDA r : r \in UnderRoot[p])]
               key == [p \in ToSet(files) |-> IF MatchLinks THEN p ELSE id[p]]
    <3>1. gs = FileSubGroups(files, n, rootOf, key)
      BY DEF SubGroups
    <3>2. n \in Nat /\ \A p \in P : rootOf[p] = RootOf(p) /\ rootOf[p] \in 0..n
      <4>1. \A p \in P : rootOf[p] = RootOf(p)
        BY DEF RootOf, SelectInSeq
      <4>2. n \in Nat /\ \A p : RootOf(p) \in 0..n
        BY ScenarioTyped, RootOfIs
      <4> HIDE DEF rootOf, n
      <4> QED BY <4>1, <4>2
    <3>3. \A p, q \in P : key[q] = key[p] <=> IF MatchLinks THEN q = p ELSE id[q] = id[p]
      OBVIOUS
    <3> HIDE DEF n, rootOf, key
    <3>4. /\ gs \in Seq(NonEmpty(P)) /\ Apart(gs)
          /\ \A g \in ToSet(gs) : \A p \in ToSet(g) : ToSet(g) = Kin(files, rootOf, key, p)
          /\ \A p \in P : \E g \in ToSet(gs) : p \in ToSet(g)
      BY <3>1, <3>2, SubGroupsAre
    <3>5. \A p \in P : Kin(files, rootOf, key, p) = {q \in P : OneReplica(p, q, id)}
      BY <3>2, <3>3 DEF Kin, OneReplica
    <3>6. \A g \in ToSet(gs) : ToSet(g) \subseteq P
      BY <3>4, ToSetIs DEF NonEmpty
    <3> QED BY <3>4, <3>5, <3>6
  <2> HIDE DEF gs
  <2>3. /\ ranked \in Seq(NonEmpty(P)) /\ Arranged(gs, ranked)
        /\ FirstHasKey => InOrder(ranked, Priority[1])
    BY <2>1, <2>2, ScenarioTyped, PrioritisedArranges DEF FirstHasKey
  <2> HIDE DEF ranked
  <2>4. Apart(ranked) /\ ToSet(ranked) = ToSet(gs)
    <3>1. \A s : s \in Seq(NonEmpty(P)) => s \in Seq(Seq(P))
      BY DEF NonEmpty
    <3>2. gs \in Seq(Seq(P)) /\ ranked \in Seq(Seq(P))
      BY <2>2, <2>3, <3>1
    <3> QED BY <2>2, <2>3, <3>2, ArrangedKeeps
  <2>5. ToKeep \in Nat /\ ToKeep # 0
    <3>1. \A a, b \in Int : Max({a, b}) = IF a >= b THEN a ELSE b
      BY DEF Max
    <3>2. RfOver \in Nat
      BY ScenarioTyped
    <3> QED BY <3>1, <3>2 DEF ToKeep
  <2> DEFINE x == KeepAtLeast(ToKeep, Filtered(ranked, A), Filtered(ranked, B))
  <2>6. Partitioned(files, id) = x
    BY <1>3 DEF Partitioned, Divide, ranked, gs
  <2>7. A \cap B = {} /\ \A g \in B : \A p \in ToSet(g) : p \notin KeepMatched
    BY DEF MustRetain, ShouldKeep
  <2>8. Unrelated(P, id) => ToSet(ranked) \subseteq B
    BY DEF Unrelated, MustRetain, ShouldKeep, MayDrop
  <2> HIDE DEF A, B, P
  <2>9. /\ x.keep \in Seq(P) /\ x.drop \in Seq(P)
        /\ ToSet(x.keep) \cap ToSet(x.drop) = {}
        /\ ToSet(x.drop) # {} => Len(x.keep) # 0
        /\ \A p \in ToSet(x.drop) :
             \E g \in ToSet(ranked) \cap B : p \in ToSet(g) /\ ToSet(g) \subseteq ToSet(x.drop)
        /\ ToSet(x.drop) # {} => Spares(ranked, ToKeep, ToSet(x.drop))
        /\ \A i, j \in 1..Len(ranked) :
             i < j /\ {ranked[i], ranked[j]} \subseteq B /\ ToSet(ranked[i]) \cap ToSet(x.drop) # {}
               => ToSet(ranked[j]) \subseteq ToSet(x.drop)
    BY <2>3, <2>4, <2>5, <2>7, KeepAtLeastIs
  <2> HIDE DEF x
  <2>10. \A p \in ToSet(x.drop) :
          p \notin KeepMatched /\ \A q \in P : OneReplica(p, q, id) => q \in ToSet(x.drop)
    BY <2>2, <2>4, <2>7, <2>9
  <2>11. ASSUME ToSet(x.drop) # {} PROVE Replicated(P, ToKeep, ToSet(x.drop), id)
    <3>1. PICK at \in [1..ToKeep -> 1..Len(ranked)] :
             /\ \A j, k \in 1..ToKeep : at[j] = at[k] => j = k
             /\ \A k \in 1..ToKeep : ToSet(ranked[at[k]]) \cap ToSet(x.drop) = {}
      BY <2>9, <2>11 DEF Spares
    <3>2. \A i \in 1..Len(ranked) : /\ ranked[i] \in ToSet(gs) /\ ToSet(ranked[i]) \subseteq P
                                   /\ \E p : p \in ToSet(ranked[i])
      <4> SUFFICES ASSUME NEW i \in 1..Len(ranked)
                   PROVE  /\ ranked[i] \in ToSet(gs) /\ ToSet(ranked[i]) \subseteq P
                          /\ \E p : p \in ToSet(ranked[i])
        OBVIOUS
      <4>1. ranked[i] \in ToSet(ranked) /\ ranked[i] \in NonEmpty(P)
        BY <2>3, ToSetIs
      <4>2. ranked[i] \in Seq(P) /\ 1 \in 1..Len(ranked[i])
        BY <4>1 DEF NonEmpty
      <4>3. ToSet(ranked[i]) \subseteq P /\ ranked[i][1] \in ToSet(ranked[i])
        BY <4>2, ToSetIs
      <4> QED BY <2>4, <4>1, <4>3
    <3> DEFINE f == [k \in 1..ToKeep |-> CHOOSE p : p \in ToSet(ranked[at[k]])]
    <3>3. \A k \in 1..ToKeep : f[k] \in ToSet(ranked[at[k]]) /\ at[k] \in 1..Len(ranked)
      BY <3>2
    <3>4. f \in [1..ToKeep -> P]
      BY <3>2, <3>3
    <3> HIDE DEF f
    <3>5. \A k \in 1..ToKeep : f[k] \notin ToSet(x.drop)
      BY <3>1, <3>3
    <3>6. ASSUME NEW j \in 1..ToKeep, NEW k \in 1..ToKeep, j # k, OneReplica(f[j], f[k], id)
          PROVE  FALSE
      <4>1. ToSet(ranked[at[j]]) = {q \in P : OneReplica(f[j], q, id)}
        BY <2>2, <3>2, <3>3
      <4>2. f[k] \in ToSet(ranked[at[j]])
        BY <3>4, <3>6, <4>1
      <4>3. ToSet(ranked[at[j]]) \cap ToSet(ranked[at[k]]) = {}
        BY <2>4, <3>1, <3>3, <3>6 DEF Apart
      <4> QED BY <3>3, <4>2, <4>3
    <3> QED BY <3>4, <3>5, <3>6 DEF Replicated
  <2>12. ASSUME Unrelated(P, id), FirstHasKey,
                NEW p \in ToSet(x.drop), NEW q \in P \ ToSet(x.drop)
         PROVE  SortKey(Priority[1], <<q>>) <= SortKey(Priority[1], <<p>>)
    <3>1. p \in P
      BY <2>9, <2>12, ToSetIs
    <3>2. ASSUME NEW r \in P PROVE \E i \in 1..Len(ranked) : ToSet(ranked[i]) = {r}
      <4>1. PICK g \in ToSet(ranked) : r \in ToSet(g)
        BY <2>2, <2>4
      <4>2. ToSet(g) = {s \in P : OneReplica(r, s, id)}
        BY <2>2, <2>4, <4>1
      <4>3. \A s \in P : OneReplica(r, s, id) => s = r
        <5>1. RootOf(r) = 0
          BY <2>12, RootOfIs DEF Unrelated
        <5> QED BY <2>12, <5>1 DEF OneReplica, Unrelated
      <4>4. ToSet(g) = {r}
        BY <4>1, <4>2, <4>3
      <4> QED BY <2>3, <4>1, <4>4, ToSetIs
    <3>3. PICK i \in 1..Len(ranked) : ToSet(ranked[i]) = {p}
      BY <3>1, <3>2
    <3>4. PICK j \in 1..Len(ranked) : ToSet(ranked[j]) = {q}
      BY <3>2
    <3>5. j < i
      <4>1. ranked[i] \in B /\ ranked[j] \in B
        BY <2>3, <2>8, <2>12, ToSetIs
      <4>2. ~(i < j)
        BY <2>9, <3>3, <3>4, <4>1
      <4>3. i # j
        BY <3>3, <3>4
      <4> QED BY <4>2, <4>3
    <3>6. SortKey(Priority[1], ranked[j]) <= SortKey(Priority[1], ranked[i])
      BY <2>3, <2>12, <3>5 DEF InOrder
    <3>7. Priority[1] \in Priorities \ {"top", "bottom"}
      BY <2>12, ScenarioTyped DEF FirstHasKey
    <3>8. /\ SortKey(Priority[1], ranked[i]) = SortKey(Priority[1], <<p>>)
          /\ SortKey(Priority[1], ranked[j]) = SortKey(Priority[1], <<q>>)
      BY <3>3, <3>4, <3>7, SortKeySame
    <3> QED BY <3>6, <3>8
  <2>13. Parted(x, P, id)
    BY <2>9, <2>10, <2>11, <2>12 DEF Parted, Behind
  <2> QED BY <2>6, <2>13 DEF P
<1> QED
  BY <1>2, <1>3

\* A group is divided as a whole on one device, or for a command that does not need one.
Whole(g) ==
  op \notin {"hardlink", "reflink"} \/ \A p, q \in Members(g) : Device[p] = Device[q]

\* The parts of a group that are divided on their own.
LEMMA PartsIs ==
  ASSUME scenario \in 1..Len(Scenarios), NEW g \in 1..Len(Report)
  PROVE  /\ Report[g].files \in Seq(Paths) /\ Members(g) \subseteq Paths
         /\ \A part \in PerDevice(Report[g].files) : part \in Seq(Paths) /\ ToSet(part) \subseteq Members(g)
         /\ \A p1, p2 \in PerDevice(Report[g].files) : p1 = p2 \/ ToSet(p1) \cap ToSet(p2) = {}
         /\ Whole(g) => \A part \in PerDevice(Report[g].files) : ToSet(part) = Members(g)
<1> DEFINE files == Report[g].files
           OnDevice(d) == Filtered(files, {p \in ToSet(files) : Device[p] = d})
<1>1. files \in Seq(Paths) /\ Members(g) \subseteq Paths /\ ToSet(files) = Members(g)
  <2>1. files \in Seq(Paths)
    <3> DEFINE G == [files : Seq(Paths), len : Nat]
    <3>1. Report \in Seq(G)
      BY ScenarioTyped
    <3>2. \A x \in G : x.files \in Seq(Paths)
      OBVIOUS
    <3> HIDE DEF G
    <3>3. Report[g] \in G
      BY <3>1
    <3> QED BY <3>2, <3>3
  <2> QED BY <2>1, ToSetIs DEF Members
<1> HIDE DEF files
<1>2. \A d : OnDevice(d) \in Seq(Paths) /\ ToSet(OnDevice(d)) = {p \in Members(g) : Device[p] = d}
  <2> SUFFICES ASSUME NEW d
               PROVE  OnDevice(d) \in Seq(Paths) /\ ToSet(OnDevice(d)) = {p \in Members(g) : Device[p] = d}
    OBVIOUS
  <2> DEFINE T == {p \in ToSet(files) : Device[p] = d}
  <2>1. OnDevice(d) = Filtered(files, T)
    OBVIOUS
  <2>2. T = {p \in Members(g) : Device[p] = d}
    BY <1>1
  <2> HIDE DEF T, OnDevice
  <2>3. Filtered(files, T) \in Seq(Paths) /\ ToSet(Filtered(files, T)) = ToSet(files) \cap T
    BY <1>1, FilteredIs
  <2> QED BY <1>1, <2>1, <2>2, <2>3
<1>3. PerDevice(files) = IF op \in {"hardlink", "reflink"}
                           THEN {OnDevice(d) : d \in {Device[p] : p \in Members(g)}} ELSE {files}
  BY <1>1 DEF PerDevice
<1> HIDE DEF OnDevice
<1>4. CASE op \notin {"hardlink", "reflink"}
  BY <1>1, <1>3, <1>4 DEF files
<1>5. CASE op \in {"hardlink", "reflink"}
  <2>1. \A part \in PerDevice(files) : \E q \in Members(g) : part = OnDevice(Device[q])
    BY <1>3, <1>5
  <2>2. \A part \in PerDevice(files) : part \in Seq(Paths) /\ ToSet(part) \subseteq Members(g)
    BY <1>2, <2>1
  <2>3. \A p1, p2 \in PerDevice(files) : p1 = p2 \/ ToSet(p1) \cap ToSet(p2) = {}
    BY <1>2, <2>1
  <2>4. ASSUME \A p, q \in Members(g) : Device[p] = Device[q], NEW part \in PerDevice(files)
        PROVE  ToSet(part) = Members(g)
    BY <1>2, <2>1, <2>4
  <2> QED BY <1>1, <1>5, <2>2, <2>3, <2>4 DEF files, Whole
<1> QED
  BY <1>4, <1>5

\* What identifies the files of a group.
Ids(g) == [p \in Members(g) |-> InodeOf(dir, p)]

\* Nobody wrote to the files of a group, which are identical.
OneBody(g) ==
  /\ \A p \in Members(g) : InodeOf(dir, p) \notin recent
  /\ \A p, q \in Members(g) : data[InodeOf(dir, p)] = data[InodeOf(dir, q)]

\* Preparing a group drops the files D of it.  R[p] is retained for p.
Prepares(g, D, R) ==
  /\ D \subseteq Members(g)
  /\ \A p \in D : /\ R[p] \in Members(g) \ D
                  /\ InodeOf(dir, p) \notin recent /\ InodeOf(dir, R[p]) \notin recent
  /\ D # {} => \A p \in Members(g) : Resolves(dir, p)
  /\ target' = [p \in Paths |-> IF p \in D THEN R[p] ELSE target[p]]
  /\ pc' = [p \in Paths |-> IF p \in D THEN "lock" ELSE pc[p]]
  /\ /\ Whole(g)
     /\ \E q \in Members(g) : /\ InodeOf(dir, q) \in recent
                              /\ Length[data[InodeOf(dir, q)]] = Report[g].len
     => D = {}
  /\ D \cap KeepMatched = {}
  /\ D # {} => Replicated(Members(g), ToKeep, D, Ids(g))
  /\ Whole(g) /\ OneBody(g) =>
       /\ \A p \in D, q \in Members(g) : OneReplica(p, q, Ids(g)) => q \in D
       /\ Unrelated(Members(g), Ids(g)) => Behind(Members(g), D)

LEMMA PrepareIs ==
  ASSUME scenario \in 1..Len(Scenarios), NEW g \in 1..Len(Report), Prepare(g)
  PROVE  \E D, R : Prepares(g, D, R)
<1> DEFINE files == Report[g].files
           len == Report[g].len
           id == Ids(g)
           Sel(part) == Selected(OfLength(part, len))
           Div(part) == Partitioned(Sel(part), id)
           parts == Divided(g)
           D == UNION {ToSet(x.drop) : x \in parts}
           Of(p) == CHOOSE x \in parts : p \in ToSet(x.drop)
           R == [p \in D |-> Of(p).keep[1]]
<1>1. /\ target' = [p \in Paths |-> IF p \in D THEN Of(p).keep[1] ELSE target[p]]
      /\ pc' = [p \in Paths |-> IF p \in D THEN "lock" ELSE pc[p]]
  BY DEF Prepare
<1>2. \A x \in parts : \E part \in PerDevice(files) : x = Div(part)
  BY DEF Divided, Ids
<1>3. parts # {} => \A p \in Members(g) : Resolves(dir, p)
  BY DEF Divided
<1> HIDE DEF parts, Sel, id, files, len
<1>4. \A part \in PerDevice(files) :
        /\ part \in Seq(Paths) /\ ToSet(part) \subseteq Members(g)
        /\ Sel(part) \in Seq(Paths) /\ ToSet(Sel(part)) \subseteq ToSet(part)
        /\ \A p \in ToSet(Sel(part)) : InodeOf(dir, p) \notin recent
        /\ \A q \in ToSet(part) : InodeOf(dir, q) \in recent /\ Length[data[InodeOf(dir, q)]] = len
                                    => ToSet(Sel(part)) = {}
        /\ OneBody(g) => ToSet(Sel(part)) \in {{}, ToSet(part)}
  <2> SUFFICES ASSUME NEW part \in PerDevice(files)
               PROVE  /\ part \in Seq(Paths) /\ ToSet(part) \subseteq Members(g)
                      /\ Sel(part) \in Seq(Paths) /\ ToSet(Sel(part)) \subseteq ToSet(part)
                      /\ \A p \in ToSet(Sel(part)) : InodeOf(dir, p) \notin recent
                      /\ \A q \in ToSet(part) : InodeOf(dir, q) \in recent /\ Length[data[InodeOf(dir, q)]] = len
                                                  => ToSet(Sel(part)) = {}
                      /\ OneBody(g) => ToSet(Sel(part)) \in {{}, ToSet(part)}
    OBVIOUS
  <2>1. part \in Seq(Paths) /\ ToSet(part) \subseteq Members(g)
    BY PartsIs DEF files
  <2> DEFINE fit == OfLength(part, len)
             T == {p \in ToSet(part) : NoCheckSize \/ Length[data[InodeOf(dir, p)]] = len}
  <2>2. fit = Filtered(part, T)
    BY DEF OfLength
  <2>3. fit \in Seq(Paths) /\ ToSet(fit) = ToSet(part) \cap T
    <3> HIDE DEF T, fit
    <3> QED BY <2>1, <2>2, FilteredIs
  <2>4. Sel(part) = IF \E p \in ToSet(fit) : InodeOf(dir, p) \in recent THEN <<>> ELSE fit
    BY DEF Selected, Sel
  <2>5. ToSet(<<>>) = {} /\ <<>> \in Seq(Paths)
    BY DEF ToSet
  <2>6. OneBody(g) => ToSet(fit) \in {{}, ToSet(part)}
    <3> SUFFICES ASSUME OneBody(g), NEW p \in ToSet(fit), NEW q \in ToSet(part)
                 PROVE  q \in ToSet(fit)
      BY <2>3
    <3>1. data[InodeOf(dir, p)] = data[InodeOf(dir, q)]
      BY <2>1, <2>3 DEF OneBody
    <3> QED BY <2>3, <3>1
  <2> HIDE DEF fit
  <2> QED BY <2>1, <2>3, <2>4, <2>5, <2>6
<1>5. \A part \in PerDevice(files) : Parted(Div(part), ToSet(Sel(part)), id)
  BY <1>4, PartitionedIs
<1> HIDE DEF Div
<1>6. \A part \in PerDevice(files) :
        /\ ToSet(Div(part).keep) \subseteq ToSet(Sel(part)) /\ ToSet(Div(part).drop) \subseteq ToSet(Sel(part))
        /\ ToSet(Div(part).keep) \cap ToSet(Div(part).drop) = {}
        /\ ToSet(Div(part).drop) # {} => Div(part).keep[1] \in ToSet(Div(part).keep)
        /\ \A p \in ToSet(Div(part).drop) :
             /\ p \notin KeepMatched
             /\ \A q \in ToSet(Sel(part)) : OneReplica(p, q, id) => q \in ToSet(Div(part).drop)
        /\ ToSet(Div(part).drop) # {} =>
             Replicated(ToSet(Sel(part)), ToKeep, ToSet(Div(part).drop), id)
  <2> SUFFICES ASSUME NEW part \in PerDevice(files)
               PROVE  /\ ToSet(Div(part).keep) \subseteq ToSet(Sel(part))
                      /\ ToSet(Div(part).drop) \subseteq ToSet(Sel(part))
                      /\ ToSet(Div(part).keep) \cap ToSet(Div(part).drop) = {}
                      /\ ToSet(Div(part).drop) # {} => Div(part).keep[1] \in ToSet(Div(part).keep)
                      /\ \A p \in ToSet(Div(part).drop) :
                           /\ p \notin KeepMatched
                           /\ \A q \in ToSet(Sel(part)) :
                                OneReplica(p, q, id) => q \in ToSet(Div(part).drop)
                      /\ ToSet(Div(part).drop) # {} =>
                           Replicated(ToSet(Sel(part)), ToKeep, ToSet(Div(part).drop), id)
    OBVIOUS
  <2> DEFINE x == Div(part)
             P == ToSet(Sel(part))
  <2>1. Parted(x, P, id)
    BY <1>5
  <2> HIDE DEF x, P
  <2>2. x.keep \in Seq(P) /\ x.drop \in Seq(P)
    BY <2>1 DEF Parted
  <2>3. ToSet(x.keep) \subseteq P /\ ToSet(x.drop) \subseteq P
    BY <2>2, ToSetIs
  <2>4. Len(x.keep) # 0 => 1 \in 1..Len(x.keep)
    BY <2>2
  <2>5. Len(x.keep) # 0 => x.keep[1] \in ToSet(x.keep)
    BY <2>2, <2>4, ToSetIs
  <2>6. \A p \in ToSet(x.drop) : /\ p \notin KeepMatched
                                  /\ \A q \in P : OneReplica(p, q, id) => q \in ToSet(x.drop)
    BY <2>1 DEF Parted
  <2>7. ToSet(x.drop) # {} => Replicated(P, ToKeep, ToSet(x.drop), id)
    BY <2>1 DEF Parted
  <2> QED BY <2>1, <2>3, <2>5, <2>6, <2>7 DEF Parted, x, P
<1>7. ASSUME NEW p \in D
      PROVE  \E part \in PerDevice(files) :
               /\ Of(p) = Div(part) /\ p \in ToSet(Div(part).drop)
               /\ Of(p).keep[1] \in ToSet(Div(part).keep)
  <2>1. \E x \in parts : p \in ToSet(x.drop)
    BY <1>7
  <2>2. Of(p) \in parts /\ p \in ToSet(Of(p).drop)
    BY <2>1
  <2> HIDE DEF Of
  <2>3. PICK part \in PerDevice(files) : Of(p) = Div(part)
    BY <1>2, <2>2
  <2> QED BY <1>6, <2>2, <2>3
<1>8. ASSUME NEW p \in D
      PROVE  \E part \in PerDevice(files) :
               p \in ToSet(Div(part).drop) /\ ToSet(Div(part).drop) \subseteq D
  <2>1. PICK part \in PerDevice(files) : Of(p) = Div(part) /\ p \in ToSet(Div(part).drop)
    BY <1>7, <1>8
  <2>2. Of(p) \in parts
    <3>1. \E x \in parts : p \in ToSet(x.drop)
      BY <1>8
    <3> QED BY <3>1
  <2>3. ToSet(Of(p).drop) \subseteq D
    BY <2>2
  <2> HIDE DEF D, Of
  <2> QED BY <2>1, <2>3
<1> HIDE DEF D, Of
<1>9. D \subseteq Members(g)
  BY <1>4, <1>6, <1>8
<1>10. ASSUME NEW p \in D
       PROVE  /\ R[p] \in Members(g) \ D
              /\ InodeOf(dir, p) \notin recent /\ InodeOf(dir, R[p]) \notin recent
  <2>1. PICK part \in PerDevice(files) :
           Of(p) = Div(part) /\ p \in ToSet(Div(part).drop) /\ R[p] \in ToSet(Div(part).keep)
    BY <1>7, <1>10
  <2> HIDE DEF R
  <2>2. R[p] \in ToSet(Sel(part)) /\ p \in ToSet(Sel(part)) /\ R[p] \in ToSet(part)
    BY <1>4, <1>6, <2>1
  <2>3. R[p] \notin D
    <3> SUFFICES ASSUME R[p] \in D PROVE FALSE
      OBVIOUS
    <3>1. PICK other \in PerDevice(files) : R[p] \in ToSet(Div(other).drop)
      BY <1>8
    <3>2. R[p] \in ToSet(other)
      BY <1>4, <1>6, <3>1
    <3>3. other = part
      BY <2>2, <3>2, PartsIs DEF files
    <3> QED BY <1>6, <2>1, <3>1, <3>3
  <2> QED BY <1>4, <2>2, <2>3
<1>11. D # {} => \A p \in Members(g) : Resolves(dir, p)
  BY <1>3 DEF D
<1>12. target' = [p \in Paths |-> IF p \in D THEN R[p] ELSE target[p]]
  BY <1>1
<1>13. ASSUME Whole(g), NEW q \in Members(g), InodeOf(dir, q) \in recent, Length[data[InodeOf(dir, q)]] = len
       PROVE  D = {}
  <2>1. \A part \in PerDevice(files) : q \in ToSet(part)
    BY <1>13, PartsIs DEF files
  <2>2. \A part \in PerDevice(files) : ToSet(Div(part).drop) = {}
    BY <1>4, <1>6, <1>13, <2>1
  <2> QED BY <1>8, <2>2
<1>14. ASSUME NEW part \in PerDevice(files)
       PROVE  D \cap ToSet(part) \subseteq ToSet(Div(part).drop)
  <2> SUFFICES ASSUME NEW p \in D, p \in ToSet(part) PROVE p \in ToSet(Div(part).drop)
    OBVIOUS
  <2>1. PICK other \in PerDevice(files) : p \in ToSet(Div(other).drop)
    BY <1>8
  <2>2. p \in ToSet(other)
    BY <1>4, <1>6, <2>1
  <2>3. other = part
    BY <2>2, PartsIs DEF files
  <2> QED BY <2>1, <2>3
<1>15. D \cap KeepMatched = {}
  BY <1>6, <1>8
<1>16. ASSUME D # {} PROVE Replicated(Members(g), ToKeep, D, id)
  <2>1. PICK part \in PerDevice(files) : ToSet(Div(part).drop) # {}
    BY <1>8, <1>16
  <2>2. PICK f \in [1..ToKeep -> ToSet(Sel(part))] :
           /\ \A k \in 1..ToKeep : f[k] \notin ToSet(Div(part).drop)
           /\ \A j, k \in 1..ToKeep : j # k => ~OneReplica(f[j], f[k], id)
    BY <1>6, <2>1 DEF Replicated
  <2>3. ToSet(Sel(part)) \subseteq ToSet(part) /\ ToSet(part) \subseteq Members(g)
    BY <1>4
  <2>4. f \in [1..ToKeep -> Members(g)] /\ \A k \in 1..ToKeep : f[k] \notin D
    BY <1>14, <2>2, <2>3
  <2> QED BY <2>2, <2>4 DEF Replicated
<1>17. ASSUME Whole(g), OneBody(g), NEW p \in D, NEW q \in Members(g), OneReplica(p, q, id)
       PROVE  q \in D
  <2>1. PICK part \in PerDevice(files) :
           p \in ToSet(Div(part).drop) /\ ToSet(Div(part).drop) \subseteq D
    BY <1>8
  <2>2. ToSet(Sel(part)) = Members(g)
    BY <1>4, <1>6, <1>17, <2>1, PartsIs DEF files
  <2> QED BY <1>6, <1>17, <2>1, <2>2
<1>18. ASSUME Whole(g), OneBody(g), Unrelated(Members(g), id)
       PROVE  Behind(Members(g), D)
  <2> SUFFICES ASSUME FirstHasKey, NEW p \in D, NEW q \in Members(g) \ D
               PROVE  SortKey(Priority[1], <<q>>) <= SortKey(Priority[1], <<p>>)
    BY DEF Behind
  <2>1. PICK part \in PerDevice(files) :
           p \in ToSet(Div(part).drop) /\ ToSet(Div(part).drop) \subseteq D
    BY <1>8
  <2>2. ToSet(Sel(part)) = Members(g)
    BY <1>4, <1>6, <1>18, <2>1, PartsIs DEF files
  <2>3. Behind(Members(g), ToSet(Div(part).drop))
    BY <1>5, <1>18, <2>2 DEF Parted
  <2> QED BY <2>1, <2>3 DEF Behind
<1>19. Prepares(g, D, R)
  <2> HIDE DEF R
  <2> QED BY <1>1, <1>9, <1>10, <1>11, <1>12, <1>13, <1>15, <1>16, <1>17, <1>18 DEF Prepares, len, id
<1> QED
  BY <1>19


-----------------------------------------------------------------------------
(* Symbolic links.                                                         *)

\* The names that following symbolic links from n leads to.
Hopped(d, n, hop) ==
  hop = [k \in 0..Hops |->
           IF k = 0 THEN n
           ELSE IF d[hop[k - 1]].kind = "symlink" THEN d[hop[k - 1]].to ELSE hop[k - 1]]

LEMMA HopsAgree ==
  ASSUME NEW d, NEW n, NEW f, NEW g, Hopped(d, n, f), Hopped(d, n, g)
  PROVE  f[Hops] = g[Hops]
<1> DEFINE Bad == {k \in 0..Hops : f[k] # g[k]}
<1>1. Hops \in Nat
  BY ReportAssumption
<1> SUFFICES ASSUME Bad # {} PROVE FALSE
  BY <1>1
<1>2. PICK m \in Bad : \A k \in Bad : m <= k
  <2>1. Bad \subseteq Nat
    BY <1>1
  <2> HIDE DEF Bad
  <2> QED BY <2>1, LeastNumber
<1> DEFINE next(x) == IF d[x].kind = "symlink" THEN d[x].to ELSE x
<1>3. \A k \in 0..Hops : /\ f[k] = IF k = 0 THEN n ELSE next(f[k - 1])
                         /\ g[k] = IF k = 0 THEN n ELSE next(g[k - 1])
  BY DEF Hopped
<1> HIDE DEF next
<1>4. m \in 1..Hops /\ m - 1 \in 0..Hops /\ m - 1 < m
  BY <1>1, <1>2, <1>3
<1>5. f[m - 1] = g[m - 1]
  BY <1>2, <1>4
<1> QED
  BY <1>2, <1>3, <1>4, <1>5

LEMMA EndOfBy ==
  ASSUME NEW d, NEW n, NEW f, Hopped(d, n, f)
  PROVE  EndOf(d, n) = f[Hops]
<1> DEFINE h == CHOOSE g : Hopped(d, n, g)
<1>1. EndOf(d, n) = h[Hops]
  BY DEF EndOf, Hopped
<1>2. Hopped(d, n, h)
  OBVIOUS
<1> HIDE DEF h
<1> QED
  BY <1>1, <1>2, HopsAgree

\* A name that is no symbolic link is the end of its path.
LEMMA EndOfFile ==
  ASSUME NEW d, NEW n, d[n].kind # "symlink"
  PROVE  EndOf(d, n) = n
<1> DEFINE f == [k \in 0..Hops |-> n]
<1>1. Hops \in Nat
  BY ReportAssumption
<1>2. \A k \in 0..Hops : k = 0 \/ k - 1 \in 0..Hops
  BY <1>1
<1>3. \A k \in 0..Hops : k # 0 => f[k - 1] = n
  BY <1>2
<1>4. Hopped(d, n, f)
  BY <1>3 DEF Hopped
<1>5. f[Hops] = n
  BY <1>1
<1> HIDE DEF f
<1> QED BY <1>4, <1>5, EndOfBy

\* A symbolic link to such a name leads there.
LEMMA EndOfLink ==
  ASSUME NEW d, NEW n, NEW m, d[n].kind = "symlink", d[n].to = m, d[m].kind # "symlink",
         Hops # 0
  PROVE  EndOf(d, n) = m
<1> DEFINE f == [k \in 0..Hops |-> IF k = 0 THEN n ELSE m]
<1>1. Hops \in Nat
  BY ReportAssumption
<1>2. \A k \in 0..Hops : k = 0 \/ k - 1 \in 0..Hops
  BY <1>1
<1>3. \A k \in 0..Hops : k # 0 => f[k - 1] = n \/ f[k - 1] = m
  BY <1>2
<1>4. Hopped(d, n, f)
  BY <1>3 DEF Hopped
<1>5. f[Hops] = m
  BY <1>1
<1> HIDE DEF f
<1> QED BY <1>4, <1>5, EndOfBy

\* Names lead to names.
LEMMA EndOfTyped ==
  ASSUME NEW N, Paths \subseteq N, NEW d \in [N -> EntriesTo(N)], NEW n \in N
  PROVE  EndOf(d, n) \in N
<1> DEFINE next == [x \in N |-> IF d[x].kind = "symlink" THEN d[x].to ELSE x]
           step == [k \in 1..Hops |-> next]
<1>1. Hops \in Nat
  BY ReportAssumption
<1>2. next \in [N -> N]
  <2> SUFFICES ASSUME NEW x \in N, d[x].kind = "symlink" PROVE d[x].to \in N
    OBVIOUS
  <2>1. d[x] \in EntriesTo(N)
    OBVIOUS
  <2> QED BY <2>1 DEF EntriesTo, NoEntry, FileEntry, LinkEntry
<1> HIDE DEF next
<1>3. step \in [1..Hops -> [N -> N]]
  BY <1>2
<1> HIDE DEF step
<1>4. PICK f : Run(N, n, Hops, step, f)
  BY <1>1, <1>3, RunExists
<1>5. \A k \in 0..Hops : k # 0 => k \in 1..Hops /\ k - 1 \in 0..Hops
  BY <1>1
<1>6. \A k \in 0..Hops : k # 0 => f[k] = next[f[k - 1]] /\ f[k - 1] \in N
  BY <1>4, <1>5 DEF Run, step
<1>7. \A k \in 0..Hops : k # 0 => f[k] = IF d[f[k - 1]].kind = "symlink" THEN d[f[k - 1]].to ELSE f[k - 1]
  BY <1>6 DEF next
<1>8. f \in [0..Hops -> N] /\ f[0] = n
  BY <1>4 DEF Run
<1>9. Hopped(d, n, f)
  BY <1>7, <1>8 DEF Hopped
<1> QED
  BY <1>1, <1>8, <1>9, EndOfBy

-----------------------------------------------------------------------------
(* Type correctness.                                                       *)

FsTyped == dir \in [Names -> EntriesTo(Names)] /\ DOMAIN data = Names

LEMMA PathNames ==
  Paths \subseteq Names /\ \A p \in Paths : Tmp(p) \in Names /\ To(p) \in Names
BY DEF Names

\* The file a name resolves to has one of the inodes.
LEMMA InodeTyped ==
  ASSUME FsTyped, NEW n \in Names, Resolves(dir, n)
  PROVE  InodeOf(dir, n) \in Names
<1>1. EndOf(dir, n) \in Names
  BY PathNames, EndOfTyped DEF FsTyped
<1>2. dir[EndOf(dir, n)] \in EntriesTo(Names) /\ dir[EndOf(dir, n)].kind = "file"
  BY <1>1 DEF FsTyped, Resolves
<1> QED
  BY <1>2 DEF InodeOf, EntriesTo, NoEntry, FileEntry, LinkEntry

LEMMA EntriesTyped ==
  /\ NoEntry \in EntriesTo(Names)
  /\ \A n \in Names : FileEntry(n) \in EntriesTo(Names)
  /\ \A p \in Paths : LinkEntry(p) \in EntriesTo(Names)
BY DEF EntriesTo

LEMMA UnlinkTyped ==
  ASSUME FsTyped, NEW n \in Names, Unlink(n)
  PROVE  FsTyped'
BY EntriesTyped DEF FsTyped, Unlink, Names, Tmp, To

LEMMA RenameTyped ==
  ASSUME FsTyped, NEW m \in Names, NEW n \in Names, Rename(m, n)
  PROVE  FsTyped'
BY EntriesTyped DEF FsTyped, Rename, Names, Tmp, To

LEMMA SymlinkTyped ==
  ASSUME FsTyped, NEW p \in Paths, NEW n \in Names, Symlink(p, n)
  PROVE  FsTyped'
BY EntriesTyped DEF FsTyped, Symlink, Names, Tmp, To

LEMMA HardLinkTyped ==
  ASSUME FsTyped, NEW m \in Names, NEW n \in Names, HardLink(m, n)
  PROVE  FsTyped'
BY EntriesTyped DEF FsTyped, HardLink, Names, Tmp, To

LEMMA StoreTyped ==
  ASSUME FsTyped, NEW n \in Names, NEW c, Store(n, c)
  PROVE  FsTyped'
BY EntriesTyped DEF FsTyped, Store, Names, Tmp, To

LEMMA SameTyped ==
  ASSUME FsTyped, UNCHANGED fsVars
  PROVE  FsTyped'
BY DEF FsTyped, fsVars, Names, Tmp, To

LEMMA LineStage ==
  ToSet(LineStages) = {"lock", "line 2", "line 3"}
<1>1. DOMAIN LineStages = 1..3 /\ LineStages[1] = "lock" /\ LineStages[2] = "line 2" /\ LineStages[3] = "line 3"
  BY DEF LineStages
<1>2. 1..3 = {1, 2, 3}
  OBVIOUS
<1> HIDE DEF LineStages
<1> QED BY <1>1, <1>2 DEF ToSet

\* The stages of a command that is carried out.
LEMMA StageNames ==
  Stages = { Idle, "done", "failed", "lock", "line 2", "line 3", "unlink", "away", "link", "undo",
             "cleanup", "backup", "unbackup", "clone", "restore", "checkRename", "rename",
             "checkCopy", "copy", "unsource" }
BY LineStage DEF Stages, Ended

\* The command of p goes from one stage to another: without a failure, or with one
\* that has no reason in the model.
Goes(p, from, to) ==
  /\ pc[p] = from /\ Goto(p, to)
  /\ UNCHANGED <<worldVars, planVars, faults>>

Faulty(p, from, to) ==
  /\ pc[p] = from /\ Goto(p, to)
  /\ UNCHANGED <<worldVars, planVars>>
  /\ faults < MaxFaults /\ faults' = faults + 1

\* A step of the command of p: what it does to the plan and to the counters.
Steps(p) ==
  /\ pc[p] # Idle /\ pc'[p] # Idle /\ pc'[p] \in Stages
  /\ pc' = [pc EXCEPT ![p] = pc'[p]]
  /\ UNCHANGED <<worldVars, planVars>>
  /\ faults' \in {faults, faults + 1} /\ faults' <= MaxFaults

LEMMA GoesSteps ==
  ASSUME pc \in [Paths -> Stages], faults \in 0..MaxFaults, NEW p \in Paths,
         NEW from \in Stages \ {Idle}, NEW to \in Stages \ {Idle},
         Goes(p, from, to) \/ Faulty(p, from, to)
  PROVE  Steps(p)
<1>1. MaxFaults \in Nat
  BY ReportAssumption
<1>2. pc'[p] = to
  BY DEF Goes, Faulty, Goto
<1>3. faults' \in {faults, faults + 1} /\ faults' <= MaxFaults
  BY <1>1 DEF Goes, Faulty
<1> QED
  BY <1>2, <1>3 DEF Goes, Faulty, Goto, Steps


-----------------------------------------------------------------------------
(* What each call may do.                                                  *)

\* The stages that follow a lock.
FirstStages == {"unlink", "away", "backup", "checkRename", "checkCopy"}

LEMMA LockIs ==
  ASSUME NEW p, op \in Operations, Lock(p)
  PROVE  /\ UNCHANGED fsVars /\ ~DryRun
         /\ \E to \in FirstStages \cup {"failed"} :
              /\ Goes(p, "lock", to) \/ Faulty(p, "lock", to)
              /\ \/ to = FirstCall(p)
                 \/ to = "failed" /\ op # "move"
              /\ ShouldLock /\ op # "move" /\ p \in locked => to = "failed"
         /\ FirstCall(p) \in FirstStages
<1>1. FirstCall(p) \in FirstStages
  BY DEF FirstCall, Operations, FirstStages
<1> DEFINE busy == ShouldLock /\ p \in locked
           otherwise == IF op = "move" \/ ~ShouldLock THEN FirstCall(p) ELSE "failed"
<1>2. \/ ~busy /\ UNCHANGED fsVars /\ Goes(p, "lock", FirstCall(p))
      \/ busy /\ UNCHANGED fsVars /\ Goes(p, "lock", otherwise)
      \/ ~busy /\ UNCHANGED fsVars /\ Faulty(p, "lock", otherwise)
  BY DEF Lock, Call, Fails, Goes, Faulty
<1>3. ~DryRun
  BY DEF Lock
<1>4. otherwise \in FirstStages \cup {"failed"}
  BY <1>1
<1> QED
  BY <1>1, <1>2, <1>3, <1>4

LEMMA RemoveFileIs ==
  ASSUME NEW p, RemoveFile(p)
  PROVE  \/ Exists(p) /\ Unlink(p) /\ Goes(p, "unlink", "done")
         \/ ~Exists(p) /\ UNCHANGED fsVars /\ Goes(p, "unlink", "failed")
         \/ Exists(p) /\ UNCHANGED fsVars /\ Faulty(p, "unlink", "failed")
BY DEF RemoveFile, Call, Fails, Goes, Faulty

LEMMA MoveAwayIs ==
  ASSUME NEW p, MoveAway(p)
  PROVE  \/ Exists(p) /\ Rename(p, Tmp(p)) /\ Goes(p, "away", "link")
         \/ ~Exists(p) /\ UNCHANGED fsVars /\ Goes(p, "away", "failed")
         \/ Exists(p) /\ UNCHANGED fsVars /\ Faulty(p, "away", "failed")
BY DEF MoveAway, Call, Fails, Goes, Faulty

LEMMA MakeLinkIs ==
  ASSUME NEW p, MakeLink(p)
  PROVE  \/ op = "softlink" /\ ~Exists(p) /\ Symlink(target[p], p) /\ Goes(p, "link", "cleanup")
         \/ op = "softlink" /\ Exists(p) /\ UNCHANGED fsVars /\ Goes(p, "link", "undo")
         \/ op = "softlink" /\ ~Exists(p) /\ UNCHANGED fsVars /\ Faulty(p, "link", "undo")
         \/ op = "hardlink" /\ ~Exists(p) /\ Exists(target[p]) /\ HardLink(target[p], p) /\ Goes(p, "link", "cleanup")
         \/ op = "hardlink" /\ ~(~Exists(p) /\ Exists(target[p])) /\ UNCHANGED fsVars /\ Goes(p, "link", "undo")
         \/ op = "hardlink" /\ ~Exists(p) /\ Exists(target[p]) /\ UNCHANGED fsVars /\ Faulty(p, "link", "undo")
BY DEF MakeLink, Call, Fails, Goes, Faulty

LEMMA UndoIs ==
  ASSUME NEW p, Undo(p)
  PROVE  \/ Exists(Tmp(p)) /\ Rename(Tmp(p), p) /\ Goes(p, "undo", "failed")
         \/ ~Exists(Tmp(p)) /\ UNCHANGED fsVars /\ Goes(p, "undo", "failed")
         \/ Exists(Tmp(p)) /\ UNCHANGED fsVars /\ Faulty(p, "undo", "failed")
BY DEF Undo, Attempt, Call, Fails, Goes, Faulty

LEMMA CleanupIs ==
  ASSUME NEW p, Cleanup(p)
  PROVE  \/ Exists(Tmp(p)) /\ Unlink(Tmp(p)) /\ Goes(p, "cleanup", IF op = "reflink" THEN "restore" ELSE "done")
         \/ ~Exists(Tmp(p)) /\ UNCHANGED fsVars /\ Goes(p, "cleanup", IF op = "reflink" THEN "restore" ELSE "done")
         \/ Exists(Tmp(p)) /\ UNCHANGED fsVars /\ Faulty(p, "cleanup", IF op = "reflink" THEN "restore" ELSE "done")
BY DEF Cleanup, Attempt, Call, Fails, Goes, Faulty

LEMMA BackupIs ==
  ASSUME NEW p, Backup(p)
  PROVE  \/ Resolves(dir, p) /\ Store(Tmp(p), data[InodeOf(dir, p)]) /\ Goes(p, "backup", "clone")
         \/ ~Resolves(dir, p) /\ UNCHANGED fsVars /\ Goes(p, "backup", "unbackup")
         \/ Resolves(dir, p) /\ UNCHANGED fsVars /\ Faulty(p, "backup", "unbackup")
         \/ Store(Tmp(p), Garbage) /\ Faulty(p, "backup", "unbackup")
BY DEF Backup, Call, Fails, Goes, Faulty

LEMMA DropBackupIs ==
  ASSUME NEW p, DropBackup(p)
  PROVE  \/ Exists(Tmp(p)) /\ Unlink(Tmp(p)) /\ Goes(p, "unbackup", "failed")
         \/ ~Exists(Tmp(p)) /\ UNCHANGED fsVars /\ Goes(p, "unbackup", "failed")
         \/ Exists(Tmp(p)) /\ UNCHANGED fsVars /\ Faulty(p, "unbackup", "failed")
BY DEF DropBackup, Attempt, Call, Fails, Goes, Faulty

LEMMA CloneRetainedIs ==
  ASSUME NEW p, CloneRetained(p)
  PROVE  \/ Resolves(dir, target[p]) /\ Store(p, data[InodeOf(dir, target[p])]) /\ Goes(p, "clone", "cleanup")
         \/ ~Resolves(dir, target[p]) /\ UNCHANGED fsVars /\ Goes(p, "clone", "undo")
         \/ Resolves(dir, target[p]) /\ UNCHANGED fsVars /\ Faulty(p, "clone", "undo")
BY DEF CloneRetained, Call, Fails, Goes, Faulty

LEMMA RestoreTimesIs ==
  ASSUME NEW p, RestoreTimes(p)
  PROVE  \/ Resolves(dir, p) /\ UNCHANGED fsVars /\ Goes(p, "restore", "done")
         \/ ~Resolves(dir, p) /\ UNCHANGED fsVars /\ Goes(p, "restore", "failed")
         \/ Resolves(dir, p) /\ UNCHANGED fsVars /\ Faulty(p, "restore", "failed")
BY DEF RestoreTimes, Call, Fails, Goes, Faulty

LEMMA CheckRenameIs ==
  ASSUME NEW p, CheckRename(p)
  PROVE  \/ ~Resolves(dir, To(p)) /\ UNCHANGED fsVars /\ Goes(p, "checkRename", "rename")
         \/ Resolves(dir, To(p)) /\ UNCHANGED fsVars /\ Goes(p, "checkRename", "checkCopy")
         \/ ~Resolves(dir, To(p)) /\ UNCHANGED fsVars /\ Faulty(p, "checkRename", "checkCopy")
BY DEF CheckRename, Call, Fails, Goes, Faulty

LEMMA RenameSourceIs ==
  ASSUME NEW p, RenameSource(p)
  PROVE  \/ Exists(p) /\ Rename(p, To(p)) /\ Goes(p, "rename", "done")
         \/ ~Exists(p) /\ UNCHANGED fsVars /\ Goes(p, "rename", "checkCopy")
         \/ Exists(p) /\ UNCHANGED fsVars /\ Faulty(p, "rename", "checkCopy")
BY DEF RenameSource, Call, Fails, Goes, Faulty

LEMMA CheckCopyIs ==
  ASSUME NEW p, CheckCopy(p)
  PROVE  \/ ~Resolves(dir, To(p)) /\ UNCHANGED fsVars /\ Goes(p, "checkCopy", "copy")
         \/ Resolves(dir, To(p)) /\ UNCHANGED fsVars /\ Goes(p, "checkCopy", "failed")
         \/ ~Resolves(dir, To(p)) /\ UNCHANGED fsVars /\ Faulty(p, "checkCopy", "failed")
BY DEF CheckCopy, Call, Fails, Goes, Faulty

LEMMA CopyIs ==
  ASSUME NEW p, Copy(p)
  PROVE  \/ Resolves(dir, p) /\ Store(To(p), data[InodeOf(dir, p)]) /\ Goes(p, "copy", "unsource")
         \/ ~Resolves(dir, p) /\ UNCHANGED fsVars /\ Goes(p, "copy", "failed")
         \/ Resolves(dir, p) /\ UNCHANGED fsVars /\ Faulty(p, "copy", "failed")
         \/ Store(To(p), Garbage) /\ Faulty(p, "copy", "failed")
BY DEF Copy, Call, Fails, Goes, Faulty

LEMMA RemoveSourceIs ==
  ASSUME NEW p, RemoveSource(p)
  PROVE  \/ Exists(p) /\ Unlink(p) /\ Goes(p, "unsource", "done")
         \/ ~Exists(p) /\ UNCHANGED fsVars /\ Goes(p, "unsource", "failed")
         \/ Exists(p) /\ UNCHANGED fsVars /\ Faulty(p, "unsource", "failed")
BY DEF RemoveSource, Call, Fails, Goes, Faulty

LEMMA ExecuteSteps ==
  ASSUME TypeOK, NEW p \in Paths, Execute(p)
  PROVE  Steps(p) /\ FsTyped'
<1>1. /\ FsTyped /\ pc \in [Paths -> Stages] /\ faults \in 0..MaxFaults
      /\ op \in Operations /\ target[p] \in Paths /\ p \in Names /\ target[p] \in Names
      /\ Tmp(p) \in Names /\ To(p) \in Names
  BY PathNames, ScenarioTyped DEF TypeOK, FsTyped
<1>2. \A from, to \in Stages \ {Idle} : Goes(p, from, to) \/ Faulty(p, from, to) => Steps(p)
  BY <1>1, GoesSteps
<1>3. FirstStages \cup { "done", "failed", "lock", "link", "undo", "cleanup", "unbackup", "clone",
                         "restore", "rename", "copy", "unsource" } \subseteq Stages \ {Idle}
  BY StageNames DEF Idle, FirstStages
<1> HIDE DEF Stages
<1>4. CASE Lock(p)
  BY <1>1, <1>2, <1>3, <1>4, SameTyped, LockIs
<1>5. CASE RemoveFile(p)
  BY <1>1, <1>2, <1>3, <1>5, SameTyped, UnlinkTyped, RemoveFileIs DEF FirstStages
<1>6. CASE MoveAway(p)
  BY <1>1, <1>2, <1>3, <1>6, SameTyped, RenameTyped, MoveAwayIs DEF FirstStages
<1>7. CASE MakeLink(p)
  BY <1>1, <1>2, <1>3, <1>7, SameTyped, SymlinkTyped, HardLinkTyped, MakeLinkIs
<1>8. CASE Undo(p)
  BY <1>1, <1>2, <1>3, <1>8, SameTyped, RenameTyped, UndoIs
<1>9. CASE Cleanup(p)
  BY <1>1, <1>2, <1>3, <1>9, SameTyped, UnlinkTyped, CleanupIs
<1>10. CASE Backup(p)
  BY <1>1, <1>2, <1>3, <1>10, SameTyped, StoreTyped, BackupIs DEF FirstStages
<1>11. CASE DropBackup(p)
  BY <1>1, <1>2, <1>3, <1>11, SameTyped, UnlinkTyped, DropBackupIs
<1>12. CASE CloneRetained(p)
  BY <1>1, <1>2, <1>3, <1>12, SameTyped, StoreTyped, CloneRetainedIs
<1>13. CASE RestoreTimes(p)
  BY <1>1, <1>2, <1>3, <1>13, SameTyped, RestoreTimesIs
<1>14. CASE CheckRename(p)
  BY <1>1, <1>2, <1>3, <1>14, SameTyped, CheckRenameIs DEF FirstStages
<1>15. CASE RenameSource(p)
  BY <1>1, <1>2, <1>3, <1>15, SameTyped, RenameTyped, RenameSourceIs DEF FirstStages
<1>16. CASE CheckCopy(p)
  BY <1>1, <1>2, <1>3, <1>16, SameTyped, CheckCopyIs DEF FirstStages
<1>17. CASE Copy(p)
  BY <1>1, <1>2, <1>3, <1>17, SameTyped, StoreTyped, CopyIs DEF FirstStages
<1>18. CASE RemoveSource(p)
  BY <1>1, <1>2, <1>3, <1>18, SameTyped, UnlinkTyped, RemoveSourceIs
<1> QED
  BY <1>4, <1>5, <1>6, <1>7, <1>8, <1>9, <1>10, <1>11, <1>12, <1>13, <1>14, <1>15, <1>16, <1>17, <1>18
  DEF Execute

LEMMA TypeInit ==
  Init => TypeOK
<1> SUFFICES ASSUME Init PROVE TypeOK
  OBVIOUS
<1>1. Dir0 \in [Paths -> EntriesTo(Paths)] /\ scenario \in 1..Len(Scenarios)
  BY ScenarioTyped DEF Init
<1>2. dir \in [Names -> EntriesTo(Names)]
  BY <1>1, PathNames DEF Init, EntriesTo
<1>3. Idle \in Stages
  BY StageNames
<1>4. 0 \in 0..MaxFaults
  BY ReportAssumption
<1> QED
  BY <1>1, <1>2, <1>3, <1>4 DEF Init, TypeOK

LEMMA TypeNext ==
  TypeOK /\ [Next]_vars => TypeOK'
<1> SUFFICES ASSUME TypeOK, [Next]_vars PROVE TypeOK'
  OBVIOUS
<1>1. /\ scenario \in 1..Len(Scenarios) /\ FsTyped /\ recent \subseteq Names /\ op \in Ops
      /\ prepared \subseteq 1..Len(Report) /\ overtaken \subseteq prepared
      /\ target \in [Paths -> Paths] /\ pc \in [Paths -> Stages]
      /\ locked \subseteq Paths /\ occupied \subseteq Paths /\ faults \in 0..MaxFaults
  BY DEF TypeOK, FsTyped
<1>2. ASSUME UNCHANGED scenario, FsTyped', recent' \subseteq Names, op' = op,
             prepared' \subseteq 1..Len(Report), overtaken' \subseteq prepared',
             target' \in [Paths -> Paths],
             pc' \in [Paths -> Stages], locked' \subseteq Paths, occupied' \subseteq Paths,
             faults' \in 0..MaxFaults
      PROVE  TypeOK'
  <2>1. Names' = Names /\ Stages' = Stages /\ EntriesTo(Names)' = EntriesTo(Names)
    BY DEF Names, Stages, Ended, Idle, LineStages, Tmp, To, EntriesTo, NoEntry, FileEntry, LinkEntry
  <2>2. Ops' = Ops /\ Report' = Report
    BY <1>2 DEF Ops, Report, Scenario
  <2> QED BY <1>1, <1>2, <2>1, <2>2 DEF TypeOK, FsTyped
<1>3. ASSUME NEW g \in 1..Len(Report), Prepare(g) PROVE TypeOK'
  <2>1. PICK D, R : Prepares(g, D, R)
    BY <1>1, <1>3, PrepareIs
  <2>2. \A p \in D : R[p] \in Paths
    BY <1>1, <2>1, PartsIs DEF Prepares
  <2>3. "lock" \in Stages
    BY StageNames
  <2>4. target' \in [Paths -> Paths] /\ pc' \in [Paths -> Stages]
    BY <1>1, <2>1, <2>2, <2>3 DEF Prepares
  <2>5. /\ UNCHANGED <<scenario, recent, op, locked, occupied, faults>> /\ FsTyped'
        /\ prepared' \subseteq 1..Len(Report) /\ overtaken' \subseteq prepared'
    BY <1>1, <1>3, SameTyped DEF Prepare, worldVars
  <2> QED BY <1>1, <1>2, <2>4, <2>5
<1>4. ASSUME NEW p \in Paths, Execute(p) PROVE TypeOK'
  <2>1. Steps(p) /\ FsTyped'
    BY <1>4, ExecuteSteps
  <2>2. pc' \in [Paths -> Stages] /\ faults' \in 0..MaxFaults
    <3>1. MaxFaults \in Nat
      BY ReportAssumption
    <3>2. faults' \in 0..MaxFaults
      BY <1>1, <2>1, <3>1 DEF Steps
    <3>3. pc' \in [Paths -> Stages]
      BY <1>1, <2>1 DEF Steps
    <3> QED BY <3>2, <3>3
  <2> QED BY <1>1, <1>2, <2>1, <2>2 DEF Steps, worldVars, planVars
<1>5. ASSUME NEW p \in Paths, Rewrite(p) PROVE TypeOK'
  <2>1. p \in Names /\ InodeOf(dir, p) \in Names
    BY <1>1, <1>5, PathNames, InodeTyped DEF Rewrite
  <2>2. FsTyped'
    BY <1>1, <1>5, <2>1 DEF FsTyped, Rewrite, EntriesTo, Names, Tmp, To
  <2> QED BY <1>1, <1>2, <1>5, <2>1, <2>2 DEF Rewrite, planVars
<1>6. ASSUME NEW p \in Paths, LockByOther(p) PROVE TypeOK'
  <2>1. FsTyped'
    BY <1>1, <1>6, SameTyped DEF LockByOther
  <2> QED BY <1>1, <1>2, <1>6, <2>1 DEF LockByOther, planVars
<1>7. ASSUME NEW p \in Paths, Occupy(p) PROVE TypeOK'
  <2>1. FsTyped'
    BY <1>1, <1>7, PathNames, StoreTyped DEF Occupy
  <2> QED BY <1>1, <1>2, <1>7, <2>1 DEF Occupy, planVars
<1>8. CASE UNCHANGED vars
  BY <1>1, <1>2, <1>8, SameTyped DEF vars, fsVars
<1> QED
  BY <1>3, <1>4, <1>5, <1>6, <1>7, <1>8 DEF Next, Others

\* Every entry of the file system leads to a file of it, and the plan and the
\* stages of the commands are what execute knows.
THEOREM TypeCorrect ==
  Spec => []TypeOK
BY TypeInit, TypeNext, PTL DEF Spec

-----------------------------------------------------------------------------
(* The invariant.                                                          *)

\* What group finds: files and no symbolic links; those of a group are identical,
\* and hard links of one file are in one group.  Nobody creates files where fclones
\* looked for some and found none.
Found ==
  /\ Hops # 0
  /\ \A p \in Paths : \E i \in Paths \cap DOMAIN Data0 : Dir0[p] = FileEntry(i)
  /\ \A g \in 1..Len(Report) : \A p, q \in Members(g) : Original(p) = Original(q)
  /\ \A g, h \in 1..Len(Report) : \A p \in Members(g), q \in Members(h) :
       Dir0[p] = Dir0[q] => g = h
  /\ op = "move" => ~LateFiles

Node(p) == Dir0[p].inode

\* What others wrote is in its file, and that file is left alone.
Recent ==
  \A i \in recent : data[i] = NewContents /\ \E p \in Paths : Node(p) = i

\* A file that nobody else wrote to has the contents it had.
Bodies ==
  \A p \in Paths : /\ Calm(p) /\ Node(p) \notin recent => data[Node(p)] = Original(p)
                   /\ Node(p) \in recent => pc[p] = Idle

\* A file is dropped with its group, for one that stays.
Planned(p, g) ==
  /\ g \in prepared /\ p \in Members(g) /\ target[p] \in Members(g)
  /\ pc[target[p]] = Idle /\ Node(target[p]) \notin recent

Plan == \A p \in Paths : pc[p] # Idle => \E g \in 1..Len(Report) : Planned(p, g)

\* Where the contents of p may be.
Here(p) == dir[p] = Dir0[p]
NoTmp(p) == dir[Tmp(p)] = NoEntry
OwnTmp(p) == dir[Tmp(p)] = FileEntry(Tmp(p))
Aside(p) == dir[p] = NoEntry /\ dir[Tmp(p)] = Dir0[p]
Copied(p, n) == Calm(p) => data[n] = Original(p)
Backed(p) == Here(p) /\ OwnTmp(p) /\ Copied(p, Tmp(p))
Linked(p) == IF op = "softlink" THEN dir[p] = LinkEntry(target[p]) ELSE dir[p] = Dir0[target[p]]
Arrived(p) == dir[To(p)] = FileEntry(To(p)) /\ Copied(p, To(p))
Taken(p) == dir[To(p)] = FileEntry(To(p)) /\ data[To(p)] = Foreign

Linking == {"softlink", "hardlink"}
BeforeMove == {Idle, "lock", "checkRename", "checkCopy"}

\* The operation of the stages of a command (the lines of a printed one are not
\* among them),
Suits(p) ==
  /\ pc[p] \notin {"line 2", "line 3"}
  /\ pc[p] = "unlink" => op = "remove"
  /\ pc[p] \in {"away", "link"} => op \in Linking
  /\ pc[p] \in {"undo", "cleanup"} => op \in Linking \cup {"reflink"}
  /\ pc[p] \in {"backup", "clone", "unbackup", "restore"} => op = "reflink"
  /\ pc[p] \in {"checkRename", "rename", "checkCopy", "copy", "unsource"} => op = "move"

\* and what they find: before anything is done, while a link is made, ...
Place(p) ==
  /\ pc[p] \in BeforeMove \cup {"unlink", "away", "backup", "rename", "copy", "unsource"} =>
       Here(p) /\ NoTmp(p)
  /\ pc[p] = "link" => Aside(p)
  /\ pc[p] = "undo" => faults # 0 /\ IF op = "reflink" THEN Backed(p) ELSE Aside(p)
  /\ pc[p] = "cleanup" =>
       IF op = "reflink" THEN Backed(p) ELSE Linked(p) /\ dir[Tmp(p)] = Dir0[p]
  /\ pc[p] = "clone" => Backed(p)
  /\ pc[p] = "unbackup" => Here(p) /\ (NoTmp(p) \/ OwnTmp(p)) /\ faults # 0
  /\ pc[p] = "restore" => Here(p) /\ (NoTmp(p) \/ (OwnTmp(p) /\ faults # 0))

\* ... and when it has ended.
Finish(p) ==
  /\ pc[p] = "done" =>
       /\ op = "remove" => dir[p] = NoEntry
       /\ op \in Linking => Linked(p)
       /\ op = "reflink" => Here(p)
       /\ op = "move" => dir[p] = NoEntry /\ (dir[To(p)] = Dir0[p] \/ Arrived(p))
  /\ pc[p] = "failed" =>
       \/ Here(p) /\ NoTmp(p)
       \/ op \in Linking /\ Aside(p) /\ faults \notin {0, 1}
       \/ op = "reflink" /\ Here(p) /\ OwnTmp(p) /\ faults \notin {0, 1}
       \/ /\ op = "reflink" /\ faults # 0
          /\ dir[p] = FileEntry(Tmp(p)) /\ NoTmp(p) /\ Copied(p, Tmp(p))

\* Where p may be moved to.
Goal(p) ==
  /\ p \in occupied => Taken(p) /\ (op = "move" => pc[p] \in BeforeMove \cup {"failed"})
  /\ p \notin occupied =>
       /\ op # "move" \/ pc[p] \in BeforeMove \cup {"rename", "copy"} => dir[To(p)] = NoEntry
       /\ pc[p] = "unsource" => Arrived(p)

Fine(p) == Suits(p) /\ Place(p) /\ Finish(p) /\ Goal(p)

Placed == \A p \in Paths : Fine(p)

\* A group with a file written late is left alone when it is divided as a whole.
Skipped ==
  \A g \in 1..Len(Report) :
    /\ Whole(g) /\ Length[NewContents] = Report[g].len
    /\ \E p \in Members(g) : Node(p) \in recent
    => \A p \in Members(g) : pc[p] = Idle

\* A group is left alone before it is divided.
Waiting ==
  \A g \in 1..Len(Report) : g \notin prepared => \A p \in Members(g) : pc[p] = Idle

\* A lock that is held before the command begins stops it.
Respected ==
  ShouldLock /\ ~LateLocks /\ op # "move" =>
    \A p \in locked : pc[p] \in {Idle, "lock"} \/ (pc[p] = "failed" /\ Here(p))

Kept == Recent /\ Bodies /\ Plan /\ Placed /\ Skipped /\ Waiting /\ Respected

IInv == TypeOK /\ (Found => Kept)

-----------------------------------------------------------------------------
(* Names, entries and files.                                               *)

LEMMA NamesApart ==
  \A p \in Paths :
    /\ p \in Names /\ Tmp(p) \in Names /\ To(p) \in Names
    /\ \A q \in Paths : /\ Tmp(p) # q /\ To(p) # q /\ Tmp(p) # To(q)
                        /\ p # q => Tmp(p) # Tmp(q) /\ To(p) # To(q)
<1>1. \A p \in Paths : Tmp(p) \notin Paths /\ To(p) \notin Paths
  BY ReportAssumption
<1>2. \A p, q \in Paths : Tmp(p) # To(q) /\ (p # q => Tmp(p) # Tmp(q) /\ To(p) # To(q))
  BY DEF Tmp, To
<1> QED
  BY <1>1, <1>2, PathNames

LEMMA EntryKinds ==
  /\ NoEntry.kind = "none"
  /\ \A i : FileEntry(i).kind = "file" /\ FileEntry(i).inode = i
  /\ \A n : LinkEntry(n).kind = "symlink" /\ LinkEntry(n).to = n
BY DEF NoEntry, FileEntry, LinkEntry

LEMMA ResolvesIs ==
  ASSUME NEW d, NEW n
  PROVE  /\ \A i : d[n] = FileEntry(i) => Resolves(d, n) /\ InodeOf(d, n) = i
         /\ d[n] = NoEntry => ~Resolves(d, n)
         /\ \A m, i : Hops # 0 /\ d[n] = LinkEntry(m) /\ d[m] = FileEntry(i) =>
              Resolves(d, n) /\ InodeOf(d, n) = i
<1>1. ASSUME NEW i, d[n] = FileEntry(i) PROVE Resolves(d, n) /\ InodeOf(d, n) = i
  <2>1. d[n].kind = "file" /\ d[n].inode = i
    BY <1>1, EntryKinds
  <2>2. EndOf(d, n) = n
    BY <2>1, EndOfFile
  <2> QED BY <2>1, <2>2 DEF Resolves, InodeOf
<1>2. ASSUME d[n] = NoEntry PROVE ~Resolves(d, n)
  <2>1. d[n].kind = "none"
    BY <1>2, EntryKinds
  <2>2. EndOf(d, n) = n
    BY <2>1, EndOfFile
  <2> QED BY <2>1, <2>2 DEF Resolves
<1>3. ASSUME NEW m, NEW i, Hops # 0, d[n] = LinkEntry(m), d[m] = FileEntry(i)
      PROVE  Resolves(d, n) /\ InodeOf(d, n) = i
  <2>1. d[n].kind = "symlink" /\ d[n].to = m /\ d[m].kind = "file" /\ d[m].inode = i
    BY <1>3, EntryKinds
  <2>2. EndOf(d, n) = m
    BY <1>3, <2>1, EndOfLink
  <2> QED BY <2>1, <2>2 DEF Resolves, InodeOf
<1> QED
  BY <1>1, <1>2, <1>3

\* Every path is a file of its group's contents.
LEMMA FoundIs ==
  ASSUME scenario \in 1..Len(Scenarios), Found
  PROVE  /\ Hops # 0 /\ \A g \in 1..Len(Report) : Members(g) \subseteq Paths
         /\ \A p \in Paths : /\ Dir0[p] = FileEntry(Node(p)) /\ Node(p) \in Paths /\ Node(p) \in DOMAIN Data0
                             /\ InodeOf(Dir0, p) = Node(p) /\ Original(p) = Data0[Node(p)]
                             /\ Resolves(Dir0, p)
         /\ \A g \in 1..Len(Report) : \A p, q \in Members(g) : Original(p) = Original(q)
         /\ \A g, h \in 1..Len(Report) : \A p \in Members(g), q \in Members(h) :
              Node(p) = Node(q) => g = h
<1>1. \A p \in Paths : Dir0[p] = FileEntry(Node(p)) /\ Node(p) \in Paths /\ Node(p) \in DOMAIN Data0
  BY EntryKinds DEF Found, Node
<1>2. \A p \in Paths : InodeOf(Dir0, p) = Node(p) /\ Resolves(Dir0, p)
  BY <1>1, ResolvesIs
<1>3. \A g \in 1..Len(Report) : Members(g) \subseteq Paths
  BY PartsIs
<1>4. \A g, h \in 1..Len(Report) : \A p \in Members(g), q \in Members(h) : Node(p) = Node(q) => g = h
  <2> SUFFICES ASSUME NEW g \in 1..Len(Report), NEW h \in 1..Len(Report),
                      NEW p \in Members(g), NEW q \in Members(h), Node(p) = Node(q)
               PROVE  g = h
    OBVIOUS
  <2>1. Dir0[p] = Dir0[q]
    BY <1>1, <1>3
  <2> QED BY <2>1 DEF Found
<1>5. \A p \in Paths : Original(p) = Data0[Node(p)]
  BY <1>2 DEF Original
<1> QED
  BY <1>1, <1>2, <1>3, <1>4, <1>5 DEF Found

-----------------------------------------------------------------------------
(* A step of a command.                                                    *)

\* What a command relies on: the invariant of its path and of the file that stays.
Ready(p) ==
  /\ p \in Paths /\ FsTyped /\ faults \in Nat /\ Hops # 0
  /\ pc \in [Paths -> Stages] /\ op \in Operations /\ pc[p] # Idle
  /\ Dir0[p] = FileEntry(Node(p)) /\ Node(p) \in Paths /\ Copied(p, Node(p))
  /\ target[p] \in Paths /\ target[p] # p
  /\ dir[target[p]] = Dir0[target[p]] /\ Dir0[target[p]] = FileEntry(Node(target[p]))
  /\ Copied(p, Node(target[p]))
  /\ Suits(p) /\ Place(p) /\ Finish(p) /\ Goal(p)

\* What it does not touch: names and files of other paths, and its own file as long
\* as the contents are those of the file that stays.
Local(p) ==
  /\ \A n \in Names \ {p, Tmp(p), To(p)} : dir'[n] = dir[n]
  /\ \A i \in Names \ {Tmp(p), To(p), Node(p)} : data'[i] = data[i]
  /\ Calm(p) => data'[Node(p)] = data[Node(p)]

Keeps(p) == Local(p) /\ Suits(p)' /\ Place(p)' /\ Finish(p)' /\ Goal(p)'

\* What is the same after a step of a command.
Same ==
  /\ Dir0' = Dir0 /\ op' = op /\ target' = target /\ occupied' = occupied /\ locked' = locked
  /\ recent' = recent /\ scenario' = scenario
  /\ \A q : Original(q)' = Original(q) /\ Node(q)' = Node(q) /\ (Calm(q)' <=> Calm(q))

LEMMA ScenarioSame ==
  ASSUME scenario' = scenario
  PROVE  /\ Dir0' = Dir0 /\ Data0' = Data0 /\ Report' = Report /\ LateFiles' = LateFiles
         /\ LateLocks' = LateLocks /\ ShouldLock' = ShouldLock
         /\ \A q : Original(q)' = Original(q) /\ Node(q)' = Node(q)
         /\ \A g : Members(g)' = Members(g) /\ \A q : FileOf(q)' = FileOf(q)
         /\ overtaken' = overtaken => \A q : Calm(q)' <=> Calm(q)
         /\ overtaken \subseteq overtaken' => \A q : Calm(q)' => Calm(q)
<1>1. Dir0' = Dir0 /\ Data0' = Data0 /\ Report' = Report /\ LateFiles' = LateFiles
      /\ LateLocks' = LateLocks /\ ShouldLock' = ShouldLock
  BY DEF Dir0, Data0, Report, LateFiles, LateLocks, ShouldLock, Scenario
<1>2. \A q : InodeOf(Dir0, q)' = InodeOf(Dir0, q)
  BY <1>1 DEF InodeOf, EndOf
<1>3. \A q : FileOf(q)' = FileOf(q)
  BY <1>1 DEF FileOf, EndOf
<1>4. \A g : Members(g)' = Members(g)
  BY <1>1 DEF Members
<1> QED
  BY <1>1, <1>2, <1>3, <1>4 DEF Original, Node, Calm

LEMMA AfterStep ==
  ASSUME NEW p \in Paths, pc \in [Paths -> Stages], faults \in Nat, NEW from, NEW to,
         Goes(p, from, to) \/ Faulty(p, from, to)
  PROVE  /\ pc[p] = from /\ pc'[p] = to /\ Same
         /\ faults' \in Nat /\ (faults # 0 => faults' # 0) /\ (faults \notin {0, 1} => faults' \notin {0, 1})
         /\ Faulty(p, from, to) => faults' # 0 /\ (faults # 0 => faults' \notin {0, 1})
<1>1. pc[p] = from /\ pc'[p] = to
  BY DEF Goes, Faulty, Goto
<1>2. op' = op /\ target' = target /\ occupied' = occupied /\ locked' = locked
      /\ recent' = recent /\ scenario' = scenario /\ overtaken' = overtaken
  BY DEF Goes, Faulty, worldVars, planVars
<1>3. Same
  BY <1>2, ScenarioSame DEF Same
<1>4. faults' = faults \/ faults' = faults + 1
  BY DEF Goes, Faulty
<1>5. Faulty(p, from, to) => faults' = faults + 1
  BY DEF Faulty
<1> QED
  BY <1>1, <1>3, <1>4, <1>5

\* Calls, by the entries they meet.
LEMMA UnlinkIs ==
  ASSUME FsTyped, NEW n \in Names, Unlink(n)
  PROVE  /\ dir'[n] = NoEntry /\ \A m \in Names \ {n} : dir'[m] = dir[m]
         /\ data' = data
BY DEF FsTyped, Unlink

LEMMA RenameIs ==
  ASSUME FsTyped, NEW m \in Names, NEW n \in Names, m # n, dir[m] # dir[n], Rename(m, n)
  PROVE  /\ dir'[n] = dir[m] /\ dir'[m] = NoEntry /\ \A k \in Names \ {m, n} : dir'[k] = dir[k]
         /\ data' = data
BY DEF FsTyped, Rename

LEMMA LinkIs ==
  ASSUME FsTyped, NEW m, NEW n \in Names, Symlink(m, n) \/ HardLink(m, n)
  PROVE  /\ Symlink(m, n) => dir'[n] = LinkEntry(m)
         /\ HardLink(m, n) => dir'[n] = dir[m]
         /\ \A k \in Names \ {n} : dir'[k] = dir[k]
         /\ data' = data
BY DEF FsTyped, Symlink, HardLink

LEMMA StoreIs ==
  ASSUME FsTyped, NEW n \in Names, NEW c, Store(n, c)
  PROVE  /\ dir[n] = NoEntry =>
              /\ dir'[n] = FileEntry(n) /\ \A m \in Names \ {n} : dir'[m] = dir[m]
              /\ data'[n] = c /\ \A i \in Names \ {n} : data'[i] = data[i]
         /\ \A i \in Names : dir[n] = FileEntry(i) =>
              /\ dir' = dir
              /\ data'[i] = c /\ \A j \in Names \ {i} : data'[j] = data[j]
<1>1. dir[n] = NoEntry => ~Resolves(dir, n)
  BY ResolvesIs
<1>2. \A i \in Names : dir[n] = FileEntry(i) => Resolves(dir, n) /\ InodeOf(dir, n) = i
  BY ResolvesIs
<1> QED
  BY <1>1, <1>2 DEF Store, FsTyped

LEMMA KeepsLock ==
  ASSUME NEW p \in Paths, Ready(p), Lock(p)
  PROVE  Keeps(p)
<1> USE DEF Suits, Place, Finish, Goal, Here, NoTmp, OwnTmp, Aside, Backed, Copied, Linked, Arrived, Taken,
            Linking, BeforeMove, Idle
<1>1. /\ p \in Names /\ Tmp(p) \in Names /\ To(p) \in Names
      /\ p # Tmp(p) /\ p # To(p) /\ Tmp(p) # To(p)
      /\ pc \in [Paths -> Stages] /\ faults \in Nat /\ FsTyped
  BY NamesApart DEF Ready
<1>2. /\ UNCHANGED fsVars
      /\ FirstCall(p) \in FirstStages
      /\ \E to \in FirstStages \cup {"failed"} :
           /\ Goes(p, "lock", to) \/ Faulty(p, "lock", to)
           /\ to = FirstCall(p) \/ to = "failed"
  BY LockIs DEF Ready
<1>3. PICK to \in FirstStages \cup {"failed"} :
        /\ Goes(p, "lock", to) \/ Faulty(p, "lock", to)
        /\ to = FirstCall(p) \/ to = "failed"
  BY <1>2
<1>4. pc[p] = "lock" /\ pc'[p] = to /\ Same
  BY <1>1, <1>3, AfterStep
<1>5. CASE to = "failed"
  BY <1>1, <1>2, <1>4, <1>5 DEF Ready, Same, Keeps, Local, fsVars
<1>6. CASE to = FirstCall(p)
  <2>1. /\ to \in {"unlink", "away", "backup", "checkRename", "checkCopy"}
        /\ to = "unlink" => op = "remove"
        /\ to = "away" => op \in Linking
        /\ to = "backup" => op = "reflink"
        /\ to \in {"checkRename", "checkCopy"} => op = "move"
    BY <1>6 DEF FirstCall, Ready, Operations
  <2> QED BY <1>1, <1>2, <1>4, <2>1 DEF Ready, Same, Keeps, Local, fsVars
<1> QED
  BY <1>3, <1>5, <1>6

LEMMA KeepsRemove ==
  ASSUME NEW p \in Paths, Ready(p), RemoveFile(p)
  PROVE  Keeps(p)
<1> USE DEF Suits, Place, Finish, Goal, Here, NoTmp, OwnTmp, Aside, Backed, Copied, Linked, Arrived, Taken,
            Linking, BeforeMove, Idle
<1>1. /\ p \in Names /\ Tmp(p) \in Names /\ To(p) \in Names
      /\ p # Tmp(p) /\ p # To(p) /\ Tmp(p) # To(p)
      /\ pc \in [Paths -> Stages] /\ faults \in Nat /\ FsTyped
  BY NamesApart DEF Ready
<1>2. pc[p] = "unlink" /\ op = "remove" /\ Exists(p)
  BY EntryKinds DEF RemoveFile, Call, Ready, Exists
<1>3. CASE Unlink(p) /\ Goes(p, "unlink", "done")
  <2>1. /\ pc'[p] = "done" /\ Same
        /\ faults # 0 => faults' # 0 /\ (faults \notin {0, 1} => faults' \notin {0, 1})
    BY <1>1, <1>3, AfterStep
  <2>2. /\ dir'[p] = NoEntry /\ \A m \in Names \ {p} : dir'[m] = dir[m]
        /\ data' = data
    BY <1>1, <1>3, UnlinkIs
  <2> QED BY <1>1, <1>2, <1>3, <2>1, <2>2 DEF Ready, Same, Keeps, Local, fsVars
<1>4. CASE UNCHANGED fsVars /\ Faulty(p, "unlink", "failed")
  <2>1. /\ pc'[p] = "failed" /\ Same /\ faults' # 0
        /\ faults # 0 => faults' \notin {0, 1}
    BY <1>1, <1>4, AfterStep
  <2> QED BY <1>1, <1>2, <1>4, <2>1 DEF Ready, Same, Keeps, Local, fsVars
<1> QED
  BY <1>2, <1>3, <1>4, RemoveFileIs

LEMMA KeepsAway ==
  ASSUME NEW p \in Paths, Ready(p), MoveAway(p)
  PROVE  Keeps(p)
<1> USE DEF Suits, Place, Finish, Goal, Here, NoTmp, OwnTmp, Aside, Backed, Copied, Linked, Arrived, Taken,
            Linking, BeforeMove, Idle
<1>1. /\ p \in Names /\ Tmp(p) \in Names /\ To(p) \in Names
      /\ p # Tmp(p) /\ p # To(p) /\ Tmp(p) # To(p)
      /\ pc \in [Paths -> Stages] /\ faults \in Nat /\ FsTyped
  BY NamesApart DEF Ready
<1>2. pc[p] = "away" /\ op \in Linking /\ Exists(p) /\ dir[p] # dir[Tmp(p)]
  BY EntryKinds DEF MoveAway, Call, Ready, Exists
<1>3. CASE Rename(p, Tmp(p)) /\ Goes(p, "away", "link")
  <2>1. /\ pc'[p] = "link" /\ Same
        /\ faults # 0 => faults' # 0 /\ (faults \notin {0, 1} => faults' \notin {0, 1})
    BY <1>1, <1>3, AfterStep
  <2>2. /\ dir'[Tmp(p)] = dir[p] /\ dir'[p] = NoEntry /\ \A k \in Names \ {p, Tmp(p)} : dir'[k] = dir[k]
        /\ data' = data
    BY <1>1, <1>2, <1>3, RenameIs
  <2> QED BY <1>1, <1>2, <1>3, <2>1, <2>2 DEF Ready, Same, Keeps, Local, fsVars
<1>4. CASE UNCHANGED fsVars /\ Faulty(p, "away", "failed")
  <2>1. /\ pc'[p] = "failed" /\ Same /\ faults' # 0
        /\ faults # 0 => faults' \notin {0, 1}
    BY <1>1, <1>4, AfterStep
  <2> QED BY <1>1, <1>2, <1>4, <2>1 DEF Ready, Same, Keeps, Local, fsVars
<1> QED
  BY <1>2, <1>3, <1>4, MoveAwayIs

LEMMA KeepsLink ==
  ASSUME NEW p \in Paths, Ready(p), MakeLink(p)
  PROVE  Keeps(p)
<1> USE DEF Suits, Place, Finish, Goal, Here, NoTmp, OwnTmp, Aside, Backed, Copied, Linked, Arrived, Taken,
            Linking, BeforeMove, Idle
<1>1. /\ p \in Names /\ Tmp(p) \in Names /\ To(p) \in Names
      /\ p # Tmp(p) /\ p # To(p) /\ Tmp(p) # To(p)
      /\ pc \in [Paths -> Stages] /\ faults \in Nat /\ FsTyped
  BY NamesApart DEF Ready
<1>2. pc[p] = "link" /\ op \in Linking /\ ~Exists(p) /\ Exists(target[p])
  <2>1. pc[p] = "link"
    BY DEF MakeLink, Call
  <2>2. op \in Linking /\ dir[p] = NoEntry
    BY <2>1 DEF Ready
  <2>3. dir[target[p]] = FileEntry(Node(target[p]))
    BY DEF Ready
  <2>4. dir[target[p]] # NoEntry
    BY <2>3, EntryKinds
  <2> QED BY <2>1, <2>2, <2>4 DEF Exists
<1>3. CASE op = "softlink" /\ Symlink(target[p], p) /\ Goes(p, "link", "cleanup")
  <2>1. /\ pc'[p] = "cleanup" /\ Same
        /\ faults # 0 => faults' # 0 /\ (faults \notin {0, 1} => faults' \notin {0, 1})
    BY <1>1, <1>3, AfterStep
  <2>2. /\ dir'[p] = LinkEntry(target[p]) /\ \A k \in Names \ {p} : dir'[k] = dir[k]
        /\ data' = data
    BY <1>1, <1>3, LinkIs
  <2> QED BY <1>1, <1>2, <1>3, <2>1, <2>2 DEF Ready, Same, Keeps, Local, fsVars
<1>4. CASE op = "hardlink" /\ HardLink(target[p], p) /\ Goes(p, "link", "cleanup")
  <2>1. /\ pc'[p] = "cleanup" /\ Same
        /\ faults # 0 => faults' # 0 /\ (faults \notin {0, 1} => faults' \notin {0, 1})
    BY <1>1, <1>4, AfterStep
  <2>2. /\ dir'[p] = dir[target[p]] /\ \A k \in Names \ {p} : dir'[k] = dir[k]
        /\ data' = data
    BY <1>1, <1>4, LinkIs
  <2> QED BY <1>1, <1>2, <1>4, <2>1, <2>2 DEF Ready, Same, Keeps, Local, fsVars
<1>5. CASE UNCHANGED fsVars /\ Faulty(p, "link", "undo")
  <2>1. /\ pc'[p] = "undo" /\ Same /\ faults' # 0
        /\ faults # 0 => faults' \notin {0, 1}
    BY <1>1, <1>5, AfterStep
  <2> QED BY <1>1, <1>2, <1>5, <2>1 DEF Ready, Same, Keeps, Local, fsVars
<1> QED
  BY <1>2, <1>3, <1>4, <1>5, MakeLinkIs

LEMMA KeepsUndo ==
  ASSUME NEW p \in Paths, Ready(p), Undo(p)
  PROVE  Keeps(p)
<1> USE DEF Suits, Place, Finish, Goal, Here, NoTmp, OwnTmp, Aside, Backed, Copied, Linked, Arrived, Taken,
            Linking, BeforeMove, Idle
<1>1. /\ p \in Names /\ Tmp(p) \in Names /\ To(p) \in Names
      /\ p # Tmp(p) /\ p # To(p) /\ Tmp(p) # To(p)
      /\ pc \in [Paths -> Stages] /\ faults \in Nat /\ FsTyped
  BY NamesApart DEF Ready
<1>2. /\ pc[p] = "undo" /\ op \in Linking \cup {"reflink"}
      /\ Exists(Tmp(p)) /\ dir[Tmp(p)] # dir[p]
  BY EntryKinds, NamesApart DEF Undo, Attempt, Call, Ready, Exists
<1>3. CASE Rename(Tmp(p), p) /\ Goes(p, "undo", "failed")
  <2>1. /\ pc'[p] = "failed" /\ Same
        /\ faults # 0 => faults' # 0 /\ (faults \notin {0, 1} => faults' \notin {0, 1})
    BY <1>1, <1>3, AfterStep
  <2>2. /\ dir'[p] = dir[Tmp(p)] /\ dir'[Tmp(p)] = NoEntry /\ \A k \in Names \ {Tmp(p), p} : dir'[k] = dir[k]
        /\ data' = data
    BY <1>1, <1>2, <1>3, RenameIs
  <2> QED BY <1>1, <1>2, <1>3, <2>1, <2>2 DEF Ready, Same, Keeps, Local, fsVars
<1>4. CASE UNCHANGED fsVars /\ Faulty(p, "undo", "failed")
  <2>1. /\ pc'[p] = "failed" /\ Same /\ faults' # 0
        /\ faults # 0 => faults' \notin {0, 1}
    BY <1>1, <1>4, AfterStep
  <2> QED BY <1>1, <1>2, <1>4, <2>1 DEF Ready, Same, Keeps, Local, fsVars
<1> QED
  BY <1>2, <1>3, <1>4, UndoIs

LEMMA KeepsCleanup ==
  ASSUME NEW p \in Paths, Ready(p), Cleanup(p)
  PROVE  Keeps(p)
<1> USE DEF Suits, Place, Finish, Goal, Here, NoTmp, OwnTmp, Aside, Backed, Copied, Linked, Arrived, Taken,
            Linking, BeforeMove, Idle
<1>1. /\ p \in Names /\ Tmp(p) \in Names /\ To(p) \in Names
      /\ p # Tmp(p) /\ p # To(p) /\ Tmp(p) # To(p)
      /\ pc \in [Paths -> Stages] /\ faults \in Nat /\ FsTyped
  BY NamesApart DEF Ready
<1>2. pc[p] = "cleanup" /\ op \in Linking \cup {"reflink"} /\ Exists(Tmp(p))
  BY EntryKinds, NamesApart DEF Cleanup, Attempt, Call, Ready, Exists
<1>3. CASE op = "reflink" /\ Unlink(Tmp(p)) /\ Goes(p, "cleanup", "restore")
  <2>1. /\ pc'[p] = "restore" /\ Same
        /\ faults # 0 => faults' # 0 /\ (faults \notin {0, 1} => faults' \notin {0, 1})
    BY <1>1, <1>3, AfterStep
  <2>2. /\ dir'[Tmp(p)] = NoEntry /\ \A m \in Names \ {Tmp(p)} : dir'[m] = dir[m]
        /\ data' = data
    BY <1>1, <1>3, UnlinkIs
  <2> QED BY <1>1, <1>2, <1>3, <2>1, <2>2 DEF Ready, Same, Keeps, Local, fsVars
<1>4. CASE op # "reflink" /\ Unlink(Tmp(p)) /\ Goes(p, "cleanup", "done")
  <2>1. /\ pc'[p] = "done" /\ Same
        /\ faults # 0 => faults' # 0 /\ (faults \notin {0, 1} => faults' \notin {0, 1})
    BY <1>1, <1>4, AfterStep
  <2>2. /\ dir'[Tmp(p)] = NoEntry /\ \A m \in Names \ {Tmp(p)} : dir'[m] = dir[m]
        /\ data' = data
    BY <1>1, <1>4, UnlinkIs
  <2> QED BY <1>1, <1>2, <1>4, <2>1, <2>2 DEF Ready, Same, Keeps, Local, fsVars
<1>5. CASE op = "reflink" /\ UNCHANGED fsVars /\ Faulty(p, "cleanup", "restore")
  <2>1. /\ pc'[p] = "restore" /\ Same /\ faults' # 0
        /\ faults # 0 => faults' \notin {0, 1}
    BY <1>1, <1>5, AfterStep
  <2> QED BY <1>1, <1>2, <1>5, <2>1 DEF Ready, Same, Keeps, Local, fsVars
<1>6. CASE op # "reflink" /\ UNCHANGED fsVars /\ Faulty(p, "cleanup", "done")
  <2>1. /\ pc'[p] = "done" /\ Same /\ faults' # 0
        /\ faults # 0 => faults' \notin {0, 1}
    BY <1>1, <1>6, AfterStep
  <2> QED BY <1>1, <1>2, <1>6, <2>1 DEF Ready, Same, Keeps, Local, fsVars
<1> QED
  BY <1>2, <1>3, <1>4, <1>5, <1>6, CleanupIs

LEMMA KeepsBackup ==
  ASSUME NEW p \in Paths, Ready(p), Backup(p)
  PROVE  Keeps(p)
<1> USE DEF Suits, Place, Finish, Goal, Here, NoTmp, OwnTmp, Aside, Backed, Copied, Linked, Arrived, Taken,
            Linking, BeforeMove, Idle
<1>1. /\ p \in Names /\ Tmp(p) \in Names /\ To(p) \in Names
      /\ p # Tmp(p) /\ p # To(p) /\ Tmp(p) # To(p)
      /\ pc \in [Paths -> Stages] /\ faults \in Nat /\ FsTyped
  BY NamesApart DEF Ready
<1>2. /\ pc[p] = "backup" /\ op = "reflink" /\ dir[Tmp(p)] = NoEntry
      /\ Resolves(dir, p) /\ InodeOf(dir, p) = Node(p) /\ Copied(p, Node(p))
      /\ Node(p) \in Names /\ Node(p) # Tmp(p) /\ Node(p) # To(p)
  <2>1. pc[p] = "backup"
    BY DEF Backup, Call
  <2>2. op = "reflink" /\ Here(p) /\ NoTmp(p)
    BY <2>1 DEF Ready
  <2> QED BY <2>1, <2>2, ResolvesIs, NamesApart DEF Ready
<1>3. CASE Store(Tmp(p), data[Node(p)]) /\ Goes(p, "backup", "clone")
  <2>1. /\ pc'[p] = "clone" /\ Same
        /\ faults # 0 => faults' # 0 /\ (faults \notin {0, 1} => faults' \notin {0, 1})
    BY <1>1, <1>3, AfterStep
  <2>2. /\ dir'[Tmp(p)] = FileEntry(Tmp(p)) /\ \A m \in Names \ {Tmp(p)} : dir'[m] = dir[m]
        /\ data'[Tmp(p)] = data[Node(p)] /\ \A i \in Names \ {Tmp(p)} : data'[i] = data[i]
    BY <1>1, <1>2, <1>3, StoreIs
  <2> QED BY <1>1, <1>2, <1>3, <2>1, <2>2 DEF Ready, Same, Keeps, Local, fsVars
<1>4. CASE Store(Tmp(p), Garbage) /\ Faulty(p, "backup", "unbackup")
  <2>1. /\ pc'[p] = "unbackup" /\ Same /\ faults' # 0
        /\ faults # 0 => faults' \notin {0, 1}
    BY <1>1, <1>4, AfterStep
  <2>2. /\ dir'[Tmp(p)] = FileEntry(Tmp(p)) /\ \A m \in Names \ {Tmp(p)} : dir'[m] = dir[m]
        /\ data'[Tmp(p)] = Garbage /\ \A i \in Names \ {Tmp(p)} : data'[i] = data[i]
    BY <1>1, <1>2, <1>4, StoreIs
  <2> QED BY <1>1, <1>2, <1>4, <2>1, <2>2 DEF Ready, Same, Keeps, Local, fsVars
<1>5. CASE UNCHANGED fsVars /\ Faulty(p, "backup", "unbackup")
  <2>1. /\ pc'[p] = "unbackup" /\ Same /\ faults' # 0
        /\ faults # 0 => faults' \notin {0, 1}
    BY <1>1, <1>5, AfterStep
  <2> QED BY <1>1, <1>2, <1>5, <2>1 DEF Ready, Same, Keeps, Local, fsVars
<1> QED
  BY <1>2, <1>3, <1>4, <1>5, BackupIs

LEMMA KeepsUnbackup ==
  ASSUME NEW p \in Paths, Ready(p), DropBackup(p)
  PROVE  Keeps(p)
<1> USE DEF Suits, Place, Finish, Goal, Here, NoTmp, OwnTmp, Aside, Backed, Copied, Linked, Arrived, Taken,
            Linking, BeforeMove, Idle
<1>1. /\ p \in Names /\ Tmp(p) \in Names /\ To(p) \in Names
      /\ p # Tmp(p) /\ p # To(p) /\ Tmp(p) # To(p)
      /\ pc \in [Paths -> Stages] /\ faults \in Nat /\ FsTyped
  BY NamesApart DEF Ready
<1>2. pc[p] = "unbackup" /\ op = "reflink"
  BY DEF DropBackup, Attempt, Call, Ready
<1>3. CASE Unlink(Tmp(p)) /\ Goes(p, "unbackup", "failed")
  <2>1. /\ pc'[p] = "failed" /\ Same
        /\ faults # 0 => faults' # 0 /\ (faults \notin {0, 1} => faults' \notin {0, 1})
    BY <1>1, <1>3, AfterStep
  <2>2. /\ dir'[Tmp(p)] = NoEntry /\ \A m \in Names \ {Tmp(p)} : dir'[m] = dir[m]
        /\ data' = data
    BY <1>1, <1>3, UnlinkIs
  <2> QED BY <1>1, <1>2, <1>3, <2>1, <2>2 DEF Ready, Same, Keeps, Local, fsVars
<1>4. CASE ~Exists(Tmp(p)) /\ UNCHANGED fsVars /\ Goes(p, "unbackup", "failed")
  <2>1. /\ pc'[p] = "failed" /\ Same
        /\ faults # 0 => faults' # 0 /\ (faults \notin {0, 1} => faults' \notin {0, 1})
    BY <1>1, <1>4, AfterStep
  <2>2. NoTmp(p)
    BY <1>4 DEF Exists
  <2> QED BY <1>1, <1>2, <1>4, <2>1, <2>2 DEF Ready, Same, Keeps, Local, fsVars
<1>5. CASE UNCHANGED fsVars /\ Faulty(p, "unbackup", "failed")
  <2>1. /\ pc'[p] = "failed" /\ Same /\ faults' # 0
        /\ faults # 0 => faults' \notin {0, 1}
    BY <1>1, <1>5, AfterStep
  <2> QED BY <1>1, <1>2, <1>5, <2>1 DEF Ready, Same, Keeps, Local, fsVars
<1> QED
  BY <1>2, <1>3, <1>4, <1>5, DropBackupIs

LEMMA KeepsClone ==
  ASSUME NEW p \in Paths, Ready(p), CloneRetained(p)
  PROVE  Keeps(p)
<1> USE DEF Suits, Place, Finish, Goal, Here, NoTmp, OwnTmp, Aside, Backed, Copied, Linked, Arrived, Taken,
            Linking, BeforeMove, Idle
<1>1. /\ p \in Names /\ Tmp(p) \in Names /\ To(p) \in Names
      /\ p # Tmp(p) /\ p # To(p) /\ Tmp(p) # To(p)
      /\ pc \in [Paths -> Stages] /\ faults \in Nat /\ FsTyped
  BY NamesApart DEF Ready
<1>2. /\ pc[p] = "clone" /\ op = "reflink" /\ dir[p] = FileEntry(Node(p)) /\ Node(p) \in Names
      /\ Resolves(dir, target[p]) /\ InodeOf(dir, target[p]) = Node(target[p])
      /\ Copied(p, Node(p)) /\ Copied(p, Node(target[p])) /\ Node(p) # Tmp(p) /\ Node(p) # To(p)
  BY NamesApart, ResolvesIs DEF CloneRetained, Call, Ready
<1>3. CASE Store(p, data[Node(target[p])]) /\ Goes(p, "clone", "cleanup")
  <2>1. /\ pc'[p] = "cleanup" /\ Same
        /\ faults # 0 => faults' # 0 /\ (faults \notin {0, 1} => faults' \notin {0, 1})
    BY <1>1, <1>3, AfterStep
  <2>2. /\ dir' = dir /\ \A i \in Names \ {Node(p)} : data'[i] = data[i]
        /\ data'[Node(p)] = data[Node(target[p])]
    BY <1>1, <1>2, <1>3, StoreIs
  <2> QED BY <1>1, <1>2, <1>3, <2>1, <2>2 DEF Ready, Same, Keeps, Local, fsVars
<1>4. CASE UNCHANGED fsVars /\ Faulty(p, "clone", "undo")
  <2>1. /\ pc'[p] = "undo" /\ Same /\ faults' # 0
        /\ faults # 0 => faults' \notin {0, 1}
    BY <1>1, <1>4, AfterStep
  <2> QED BY <1>1, <1>2, <1>4, <2>1 DEF Ready, Same, Keeps, Local, fsVars
<1> QED
  BY <1>2, <1>3, <1>4, CloneRetainedIs

LEMMA KeepsTimes ==
  ASSUME NEW p \in Paths, Ready(p), RestoreTimes(p)
  PROVE  Keeps(p)
<1> USE DEF Suits, Place, Finish, Goal, Here, NoTmp, OwnTmp, Aside, Backed, Copied, Linked, Arrived, Taken,
            Linking, BeforeMove, Idle
<1>1. /\ p \in Names /\ Tmp(p) \in Names /\ To(p) \in Names
      /\ p # Tmp(p) /\ p # To(p) /\ Tmp(p) # To(p)
      /\ pc \in [Paths -> Stages] /\ faults \in Nat /\ FsTyped
  BY NamesApart DEF Ready
<1>2. pc[p] = "restore" /\ op = "reflink" /\ Resolves(dir, p)
  BY ResolvesIs DEF RestoreTimes, Call, Ready
<1>3. CASE UNCHANGED fsVars /\ Goes(p, "restore", "done")
  <2>1. /\ pc'[p] = "done" /\ Same
        /\ faults # 0 => faults' # 0 /\ (faults \notin {0, 1} => faults' \notin {0, 1})
    BY <1>1, <1>3, AfterStep
  <2> QED BY <1>1, <1>2, <1>3, <2>1 DEF Ready, Same, Keeps, Local, fsVars
<1>4. CASE UNCHANGED fsVars /\ Faulty(p, "restore", "failed")
  <2>1. /\ pc'[p] = "failed" /\ Same /\ faults' # 0
        /\ faults # 0 => faults' \notin {0, 1}
    BY <1>1, <1>4, AfterStep
  <2> QED BY <1>1, <1>2, <1>4, <2>1 DEF Ready, Same, Keeps, Local, fsVars
<1> QED
  BY <1>2, <1>3, <1>4, RestoreTimesIs

LEMMA KeepsCheckRename ==
  ASSUME NEW p \in Paths, Ready(p), CheckRename(p)
  PROVE  Keeps(p)
<1> USE DEF Suits, Place, Finish, Goal, Here, NoTmp, OwnTmp, Aside, Backed, Copied, Linked, Arrived, Taken,
            Linking, BeforeMove, Idle
<1>1. /\ p \in Names /\ Tmp(p) \in Names /\ To(p) \in Names
      /\ p # Tmp(p) /\ p # To(p) /\ Tmp(p) # To(p)
      /\ pc \in [Paths -> Stages] /\ faults \in Nat /\ FsTyped
  BY NamesApart DEF Ready
<1>2. /\ pc[p] = "checkRename" /\ op = "move"
      /\ p \notin occupied => dir[To(p)] = NoEntry /\ ~Resolves(dir, To(p))
      /\ p \in occupied => Resolves(dir, To(p))
  BY ResolvesIs DEF CheckRename, Call, Ready
<1>3. CASE ~Resolves(dir, To(p)) /\ UNCHANGED fsVars /\ Goes(p, "checkRename", "rename")
  <2>1. /\ pc'[p] = "rename" /\ Same
        /\ faults # 0 => faults' # 0 /\ (faults \notin {0, 1} => faults' \notin {0, 1})
    BY <1>1, <1>3, AfterStep
  <2> QED BY <1>1, <1>2, <1>3, <2>1 DEF Ready, Same, Keeps, Local, fsVars
<1>4. CASE UNCHANGED fsVars /\ Goes(p, "checkRename", "checkCopy")
  <2>1. /\ pc'[p] = "checkCopy" /\ Same
        /\ faults # 0 => faults' # 0 /\ (faults \notin {0, 1} => faults' \notin {0, 1})
    BY <1>1, <1>4, AfterStep
  <2> QED BY <1>1, <1>2, <1>4, <2>1 DEF Ready, Same, Keeps, Local, fsVars
<1>5. CASE UNCHANGED fsVars /\ Faulty(p, "checkRename", "checkCopy")
  <2>1. /\ pc'[p] = "checkCopy" /\ Same /\ faults' # 0
        /\ faults # 0 => faults' \notin {0, 1}
    BY <1>1, <1>5, AfterStep
  <2> QED BY <1>1, <1>2, <1>5, <2>1 DEF Ready, Same, Keeps, Local, fsVars
<1> QED
  BY <1>2, <1>3, <1>4, <1>5, CheckRenameIs

LEMMA KeepsRename ==
  ASSUME NEW p \in Paths, Ready(p), RenameSource(p)
  PROVE  Keeps(p)
<1> USE DEF Suits, Place, Finish, Goal, Here, NoTmp, OwnTmp, Aside, Backed, Copied, Linked, Arrived, Taken,
            Linking, BeforeMove, Idle
<1>1. /\ p \in Names /\ Tmp(p) \in Names /\ To(p) \in Names
      /\ p # Tmp(p) /\ p # To(p) /\ Tmp(p) # To(p)
      /\ pc \in [Paths -> Stages] /\ faults \in Nat /\ FsTyped
  BY NamesApart DEF Ready
<1>2. /\ pc[p] = "rename" /\ op = "move" /\ Exists(p) /\ p \notin occupied
      /\ dir[To(p)] = NoEntry /\ dir[p] # dir[To(p)]
  BY EntryKinds DEF RenameSource, Call, Ready, Exists
<1>3. CASE Rename(p, To(p)) /\ Goes(p, "rename", "done")
  <2>1. /\ pc'[p] = "done" /\ Same
        /\ faults # 0 => faults' # 0 /\ (faults \notin {0, 1} => faults' \notin {0, 1})
    BY <1>1, <1>3, AfterStep
  <2>2. /\ dir'[To(p)] = dir[p] /\ dir'[p] = NoEntry /\ \A k \in Names \ {p, To(p)} : dir'[k] = dir[k]
        /\ data' = data
    BY <1>1, <1>2, <1>3, RenameIs
  <2> QED BY <1>1, <1>2, <1>3, <2>1, <2>2 DEF Ready, Same, Keeps, Local, fsVars
<1>4. CASE UNCHANGED fsVars /\ Faulty(p, "rename", "checkCopy")
  <2>1. /\ pc'[p] = "checkCopy" /\ Same /\ faults' # 0
        /\ faults # 0 => faults' \notin {0, 1}
    BY <1>1, <1>4, AfterStep
  <2> QED BY <1>1, <1>2, <1>4, <2>1 DEF Ready, Same, Keeps, Local, fsVars
<1> QED
  BY <1>2, <1>3, <1>4, RenameSourceIs

LEMMA KeepsCheckCopy ==
  ASSUME NEW p \in Paths, Ready(p), CheckCopy(p)
  PROVE  Keeps(p)
<1> USE DEF Suits, Place, Finish, Goal, Here, NoTmp, OwnTmp, Aside, Backed, Copied, Linked, Arrived, Taken,
            Linking, BeforeMove, Idle
<1>1. /\ p \in Names /\ Tmp(p) \in Names /\ To(p) \in Names
      /\ p # Tmp(p) /\ p # To(p) /\ Tmp(p) # To(p)
      /\ pc \in [Paths -> Stages] /\ faults \in Nat /\ FsTyped
  BY NamesApart DEF Ready
<1>2. /\ pc[p] = "checkCopy" /\ op = "move"
      /\ p \notin occupied => dir[To(p)] = NoEntry /\ ~Resolves(dir, To(p))
      /\ p \in occupied => Resolves(dir, To(p))
  BY ResolvesIs DEF CheckCopy, Call, Ready
<1>3. CASE ~Resolves(dir, To(p)) /\ UNCHANGED fsVars /\ Goes(p, "checkCopy", "copy")
  <2>1. /\ pc'[p] = "copy" /\ Same
        /\ faults # 0 => faults' # 0 /\ (faults \notin {0, 1} => faults' \notin {0, 1})
    BY <1>1, <1>3, AfterStep
  <2> QED BY <1>1, <1>2, <1>3, <2>1 DEF Ready, Same, Keeps, Local, fsVars
<1>4. CASE UNCHANGED fsVars /\ Goes(p, "checkCopy", "failed")
  <2>1. /\ pc'[p] = "failed" /\ Same
        /\ faults # 0 => faults' # 0 /\ (faults \notin {0, 1} => faults' \notin {0, 1})
    BY <1>1, <1>4, AfterStep
  <2> QED BY <1>1, <1>2, <1>4, <2>1 DEF Ready, Same, Keeps, Local, fsVars
<1>5. CASE UNCHANGED fsVars /\ Faulty(p, "checkCopy", "failed")
  <2>1. /\ pc'[p] = "failed" /\ Same /\ faults' # 0
        /\ faults # 0 => faults' \notin {0, 1}
    BY <1>1, <1>5, AfterStep
  <2> QED BY <1>1, <1>2, <1>5, <2>1 DEF Ready, Same, Keeps, Local, fsVars
<1> QED
  BY <1>2, <1>3, <1>4, <1>5, CheckCopyIs

LEMMA KeepsCopy ==
  ASSUME NEW p \in Paths, Ready(p), Copy(p)
  PROVE  Keeps(p)
<1> USE DEF Suits, Place, Finish, Goal, Here, NoTmp, OwnTmp, Aside, Backed, Copied, Linked, Arrived, Taken,
            Linking, BeforeMove, Idle
<1>1. /\ p \in Names /\ Tmp(p) \in Names /\ To(p) \in Names
      /\ p # Tmp(p) /\ p # To(p) /\ Tmp(p) # To(p)
      /\ pc \in [Paths -> Stages] /\ faults \in Nat /\ FsTyped
  BY NamesApart DEF Ready
<1>2. /\ pc[p] = "copy" /\ op = "move" /\ p \notin occupied /\ dir[To(p)] = NoEntry
      /\ Resolves(dir, p) /\ InodeOf(dir, p) = Node(p) /\ Copied(p, Node(p))
      /\ Node(p) \in Names /\ Node(p) # Tmp(p) /\ Node(p) # To(p)
  <2>1. pc[p] = "copy"
    BY DEF Copy, Call
  <2>2. op = "move" /\ p \notin occupied /\ dir[To(p)] = NoEntry /\ dir[p] = FileEntry(Node(p))
    BY <2>1 DEF Ready
  <2> QED BY <2>1, <2>2, ResolvesIs, NamesApart DEF Ready
<1>3. CASE Store(To(p), data[Node(p)]) /\ Goes(p, "copy", "unsource")
  <2>1. /\ pc'[p] = "unsource" /\ Same
        /\ faults # 0 => faults' # 0 /\ (faults \notin {0, 1} => faults' \notin {0, 1})
    BY <1>1, <1>3, AfterStep
  <2>2. /\ dir'[To(p)] = FileEntry(To(p)) /\ \A m \in Names \ {To(p)} : dir'[m] = dir[m]
        /\ data'[To(p)] = data[Node(p)] /\ \A i \in Names \ {To(p)} : data'[i] = data[i]
    BY <1>1, <1>2, <1>3, StoreIs
  <2> QED BY <1>1, <1>2, <1>3, <2>1, <2>2 DEF Ready, Same, Keeps, Local, fsVars
<1>4. CASE Store(To(p), Garbage) /\ Faulty(p, "copy", "failed")
  <2>1. /\ pc'[p] = "failed" /\ Same /\ faults' # 0
        /\ faults # 0 => faults' \notin {0, 1}
    BY <1>1, <1>4, AfterStep
  <2>2. /\ dir'[To(p)] = FileEntry(To(p)) /\ \A m \in Names \ {To(p)} : dir'[m] = dir[m]
        /\ data'[To(p)] = Garbage /\ \A i \in Names \ {To(p)} : data'[i] = data[i]
    BY <1>1, <1>2, <1>4, StoreIs
  <2> QED BY <1>1, <1>2, <1>4, <2>1, <2>2 DEF Ready, Same, Keeps, Local, fsVars
<1>5. CASE UNCHANGED fsVars /\ Faulty(p, "copy", "failed")
  <2>1. /\ pc'[p] = "failed" /\ Same /\ faults' # 0
        /\ faults # 0 => faults' \notin {0, 1}
    BY <1>1, <1>5, AfterStep
  <2> QED BY <1>1, <1>2, <1>5, <2>1 DEF Ready, Same, Keeps, Local, fsVars
<1> QED
  BY <1>2, <1>3, <1>4, <1>5, CopyIs

LEMMA KeepsRemoveSource ==
  ASSUME NEW p \in Paths, Ready(p), RemoveSource(p)
  PROVE  Keeps(p)
<1> USE DEF Suits, Place, Finish, Goal, Here, NoTmp, OwnTmp, Aside, Backed, Copied, Linked, Arrived, Taken,
            Linking, BeforeMove, Idle
<1>1. /\ p \in Names /\ Tmp(p) \in Names /\ To(p) \in Names
      /\ p # Tmp(p) /\ p # To(p) /\ Tmp(p) # To(p)
      /\ pc \in [Paths -> Stages] /\ faults \in Nat /\ FsTyped
  BY NamesApart DEF Ready
<1>2. pc[p] = "unsource" /\ op = "move" /\ Exists(p) /\ p \notin occupied
  BY EntryKinds DEF RemoveSource, Call, Ready, Exists
<1>3. CASE Unlink(p) /\ Goes(p, "unsource", "done")
  <2>1. /\ pc'[p] = "done" /\ Same
        /\ faults # 0 => faults' # 0 /\ (faults \notin {0, 1} => faults' \notin {0, 1})
    BY <1>1, <1>3, AfterStep
  <2>2. /\ dir'[p] = NoEntry /\ \A m \in Names \ {p} : dir'[m] = dir[m]
        /\ data' = data
    BY <1>1, <1>3, UnlinkIs
  <2> QED BY <1>1, <1>2, <1>3, <2>1, <2>2 DEF Ready, Same, Keeps, Local, fsVars
<1>4. CASE UNCHANGED fsVars /\ Faulty(p, "unsource", "failed")
  <2>1. /\ pc'[p] = "failed" /\ Same /\ faults' # 0
        /\ faults # 0 => faults' \notin {0, 1}
    BY <1>1, <1>4, AfterStep
  <2> QED BY <1>1, <1>2, <1>4, <2>1 DEF Ready, Same, Keeps, Local, fsVars
<1> QED
  BY <1>2, <1>3, <1>4, RemoveSourceIs

\* The command of p keeps to its names and to the invariant.
LEMMA KeepsExecute ==
  ASSUME NEW p \in Paths, Ready(p), Execute(p)
  PROVE  Keeps(p)
BY KeepsLock, KeepsRemove, KeepsAway, KeepsLink, KeepsUndo, KeepsCleanup, KeepsBackup, KeepsUnbackup,
   KeepsClone, KeepsTimes, KeepsCheckRename, KeepsRename, KeepsCheckCopy, KeepsCopy, KeepsRemoveSource
DEF Execute

\* A command that was not stopped by a lock goes on after it.
LEMMA LockFirst ==
  ASSUME NEW p, Execute(p), pc[p] \in {"lock", "failed"}
  PROVE  Lock(p)
BY DEF Execute, Call, Attempt, RemoveFile, MoveAway, MakeLink, Undo, Cleanup, Backup, DropBackup,
       CloneRetained, RestoreTimes, CheckRename, RenameSource, CheckCopy, Copy, RemoveSource

\* What is not touched is as it was.
Still(p) ==
  /\ dir'[p] = dir[p] /\ dir'[Tmp(p)] = dir[Tmp(p)] /\ dir'[To(p)] = dir[To(p)]
  /\ data'[To(p)] = data[To(p)]
  /\ Calm(p)' => Calm(p) /\ data'[Tmp(p)] = data[Tmp(p)]
  /\ pc'[p] = pc[p] /\ target'[p] = target[p]
  /\ p \in occupied' <=> p \in occupied

LEMMA StillFine ==
  ASSUME NEW p \in Paths, Fine(p), Still(p), scenario' = scenario, op' = op,
         faults # 0 => faults' # 0, faults \notin {0, 1} => faults' \notin {0, 1}
  PROVE  Fine(p)'
<1> USE DEF Here, NoTmp, OwnTmp, Aside, Backed, Copied, Linked, Arrived, Taken, Linking, BeforeMove, Idle,
            Fine, Still
<1>1. Dir0' = Dir0 /\ Original(p)' = Original(p) /\ Original(target[p])' = Original(target[p])
  BY ScenarioSame
<1>2. Suits(p)'
  BY DEF Suits
<1>3. Place(p)'
  BY <1>1 DEF Place
<1>4. Finish(p)'
  BY <1>1 DEF Finish
<1>5. Goal(p)'
  BY <1>1 DEF Goal
<1> QED BY <1>2, <1>3, <1>4, <1>5

\* Commands of different paths do not meet.
LEMMA LocalStill ==
  ASSUME NEW p \in Paths, NEW q \in Paths, p # q, Local(p),
         Node(p) \in Paths, Calm(q)' => Calm(q),
         pc'[q] = pc[q], target'[q] = target[q], q \in occupied' <=> q \in occupied
  PROVE  Still(q)
BY NamesApart DEF Local, Still

\* A path is calm as long as nobody writes to its group, or to another one that a
\* link of its file is in.
LEMMA CalmIs ==
  ASSUME TypeOK, Found
  PROVE  /\ \A p \in Paths : Calm(p) <=> \A g \in overtaken : \A q \in Members(g) : Node(q) # Node(p)
         /\ \A g \in 1..Len(Report) : \A p \in Members(g) : Calm(p) <=> g \notin overtaken
         /\ \A p, q \in Paths : FileOf(p) = FileOf(q) <=> Node(p) = Node(q)
<1>1. /\ overtaken \subseteq 1..Len(Report) /\ \A g \in 1..Len(Report) : Members(g) \subseteq Paths
      /\ \A p \in Paths : Dir0[p] = FileEntry(Node(p))
  BY FoundIs DEF TypeOK
<1>2. \A p \in Paths : FileOf(p) = FileEntry(Node(p))
  <2> SUFFICES ASSUME NEW p \in Paths PROVE FileOf(p) = FileEntry(Node(p))
    OBVIOUS
  <2>1. Dir0[p].kind # "symlink"
    BY <1>1, EntryKinds
  <2> QED BY <1>1, <2>1, EndOfFile DEF FileOf
<1>3. \A p, q \in Paths : FileOf(p) = FileOf(q) <=> Node(p) = Node(q)
  BY <1>2, EntryKinds
<1>4. \A p \in Paths : Calm(p) <=> \A g \in overtaken : \A q \in Members(g) : Node(q) # Node(p)
  BY <1>1, <1>3 DEF Calm
<1>5. \A g, h \in 1..Len(Report) : \A p \in Members(g), q \in Members(h) : Node(p) = Node(q) => g = h
  BY FoundIs DEF TypeOK
<1> QED
  BY <1>1, <1>3, <1>4, <1>5

LEMMA ReadyIs ==
  ASSUME TypeOK, Found, Bodies, Plan, Placed, NEW p \in Paths, pc[p] # Idle
  PROVE  Ready(p)
<1>1. PICK g \in 1..Len(Report) : Planned(p, g)
  BY DEF Plan
<1>2. /\ Hops # 0 /\ Members(g) \subseteq Paths
      /\ \A q \in Paths : Dir0[q] = FileEntry(Node(q)) /\ Node(q) \in Paths
      /\ \A q, r \in Members(g) : Original(q) = Original(r)
  BY FoundIs DEF TypeOK
<1>3. /\ FsTyped /\ faults \in Nat /\ pc \in [Paths -> Stages] /\ op \in Operations
      /\ target[p] \in Paths
  BY ScenarioTyped DEF TypeOK, FsTyped
<1>4. target[p] # p /\ p \in Members(g) /\ target[p] \in Members(g) /\ pc[target[p]] = Idle
      /\ Node(target[p]) \notin recent
  BY <1>1 DEF Planned
<1>5. Node(p) \notin recent /\ Copied(p, Node(p))
  BY DEF Bodies, Copied
<1>6. Copied(p, Node(target[p]))
  <2>1. Calm(p) <=> Calm(target[p])
    BY <1>4, CalmIs DEF TypeOK
  <2> QED BY <1>2, <1>3, <1>4, <2>1 DEF Bodies, Copied
<1>7. Suits(p) /\ Place(p) /\ Finish(p) /\ Goal(p) /\ Place(target[p])
  BY <1>3 DEF Placed, Fine
<1>8. dir[target[p]] = Dir0[target[p]]
  BY <1>4, <1>7 DEF Place, Here, BeforeMove
<1> QED
  BY <1>2, <1>3, <1>4, <1>5, <1>6, <1>7, <1>8 DEF Ready

LEMMA KeptInit ==
  ASSUME Init, Found
  PROVE  Kept
<1> USE DEF Idle
<1>1. TypeOK
  BY TypeInit
<1>2. /\ \A p \in Paths : /\ Dir0[p] = FileEntry(Node(p)) /\ Node(p) \in Paths /\ Node(p) \in DOMAIN Data0
                          /\ Original(p) = Data0[Node(p)]
      /\ \A g \in 1..Len(Report) : Members(g) \subseteq Paths
  BY <1>1, FoundIs DEF TypeOK
<1>3. /\ recent = {} /\ overtaken = {} /\ locked = {} /\ occupied = {} /\ \A p \in Paths : pc[p] = Idle
  BY DEF Init
<1>4. Recent /\ Plan /\ Skipped /\ Waiting /\ Respected
  BY <1>2, <1>3 DEF Recent, Plan, Skipped, Waiting, Respected
<1>5. \A p \in Paths : data[Node(p)] = Original(p)
  BY <1>2, PathNames DEF Init
<1>6. Bodies
  BY <1>3, <1>5 DEF Bodies
<1>7. ASSUME NEW p \in Paths PROVE Fine(p)
  <2>1. dir[p] = Dir0[p] /\ dir[Tmp(p)] = NoEntry /\ dir[To(p)] = NoEntry
    BY NamesApart DEF Init
  <2> QED BY <1>3, <2>1 DEF Fine, Suits, Place, Finish, Goal, Here, NoTmp, BeforeMove
<1> QED
  BY <1>4, <1>6, <1>7 DEF Kept, Placed

LEMMA FoundSame ==
  ASSUME scenario' = scenario, op' = op
  PROVE  Found' <=> Found
BY ScenarioSame DEF Found

\* A step that leaves the plan and the entries as they are.
LEMMA SameKept ==
  ASSUME TypeOK, Found, Kept, UNCHANGED <<scenario, recent, overtaken, op, prepared, target, pc>>,
         \A p \in Paths : Fine(p)', Respected',
         \A p \in Paths : data'[Node(p)] = data[Node(p)]
  PROVE  Kept'
<1>1. /\ Report' = Report /\ \A q : Original(q)' = Original(q) /\ Node(q)' = Node(q)
      /\ \A g : Members(g)' = Members(g) /\ \A q : Calm(q)' <=> Calm(q)
  BY ScenarioSame
<1>2. Recent'
  BY <1>1 DEF Kept, Recent
<1>3. Bodies'
  BY <1>1 DEF Kept, Bodies
<1>4. Plan'
  BY <1>1 DEF Kept, Plan, Planned
<1>5. Skipped' /\ Waiting'
  BY <1>1 DEF Kept, Skipped, Waiting, Whole
<1> QED
  BY <1>2, <1>3, <1>4, <1>5 DEF Kept, Placed

LEMMA KeptExecute ==
  ASSUME TypeOK, Found, Kept, NEW p \in Paths, Execute(p)
  PROVE  Kept'
<1> USE DEF Kept
<1>1. Steps(p)
  BY ExecuteSteps
<1>2. /\ pc[p] # Idle /\ pc'[p] # Idle /\ scenario' = scenario /\ op' = op
      /\ recent' = recent /\ overtaken' = overtaken
      /\ target' = target /\ prepared' = prepared /\ locked' = locked /\ occupied' = occupied
      /\ \A q \in Paths : q # p => pc'[q] = pc[q]
  BY <1>1 DEF Steps, worldVars, planVars, TypeOK
<1>3. Ready(p)
  BY <1>2, ReadyIs
<1>4. Keeps(p)
  BY <1>3, KeepsExecute
<1>5. /\ Report' = Report /\ \A q : Original(q)' = Original(q) /\ Node(q)' = Node(q)
      /\ \A g : Members(g)' = Members(g) /\ \A q : Calm(q)' <=> Calm(q)
      /\ LateLocks' = LateLocks /\ ShouldLock' = ShouldLock /\ Dir0' = Dir0
  BY <1>2, ScenarioSame
<1>6. \A q \in Paths : Node(q) \in Paths
  BY FoundIs DEF TypeOK
<1>7. \A q \in Paths : Calm(q) \/ Node(q) # Node(p) => data'[Node(q)] = data[Node(q)]
  <2>1. \A q \in Paths : Node(q) # Tmp(p) /\ Node(q) # To(p) /\ Node(q) \in Names
    BY <1>6, NamesApart
  <2>2. \A q \in Paths : Node(q) = Node(p) /\ Calm(q) => Calm(p)
    BY CalmIs
  <2> QED BY <1>4, <2>1, <2>2 DEF Keeps, Local
<1>8. \A q \in Paths : q # p => Still(q)
  BY <1>2, <1>4, <1>5, <1>6, LocalStill DEF Keeps
<1>9. Recent'
  <2>1. Node(p) \notin recent
    BY <1>2 DEF Bodies
  <2> QED BY <1>2, <1>5, <1>7, <2>1 DEF Recent
<1>10. Bodies'
  BY <1>2, <1>5, <1>7 DEF Bodies
<1>11. Plan'
  <2> SUFFICES ASSUME NEW q \in Paths, pc'[q] # Idle
               PROVE  \E g \in 1..Len(Report) : Planned(q, g)'
    BY <1>5 DEF Plan
  <2>1. pc[q] # Idle
    BY <1>2
  <2>2. PICK g \in 1..Len(Report) : Planned(q, g)
    BY <2>1 DEF Plan
  <2>3. target[q] # p /\ target[q] \in Paths
    BY <1>2, <2>2 DEF Planned, TypeOK
  <2>4. Planned(q, g)'
    BY <1>2, <1>5, <2>2, <2>3 DEF Planned
  <2> QED BY <2>4
<1>12. Placed'
  <2> SUFFICES ASSUME NEW q \in Paths PROVE Fine(q)'
    BY DEF Placed
  <2>1. CASE q = p
    BY <1>4, <2>1 DEF Keeps, Fine
  <2>2. CASE q # p
    <3>1. faults \in Nat /\ faults' \in {faults, faults + 1}
      BY <1>1 DEF TypeOK, Steps
    <3>2. /\ faults # 0 => faults' # 0
          /\ faults \notin {0, 1} => faults' \notin {0, 1}
      BY <3>1
    <3> QED BY <1>2, <1>8, <2>2, <3>2, StillFine DEF Placed
  <2> QED BY <2>1, <2>2
<1>13. Skipped' /\ Waiting'
  <2>1. \A q \in Paths : pc'[q] = Idle <=> pc[q] = Idle
    BY <1>2
  <2>2. \A g \in 1..Len(Report) : Members(g) \subseteq Paths
    BY FoundIs DEF TypeOK
  <2> QED BY <1>2, <1>5, <2>1, <2>2 DEF Skipped, Waiting, Whole
<1>14. Respected'
  <2> SUFFICES ASSUME ShouldLock, ~LateLocks, op # "move", NEW q \in locked
               PROVE  pc'[q] \in {Idle, "lock"} \/ (pc'[q] = "failed" /\ Here(q)')
    BY <1>2, <1>5 DEF Respected
  <2>1. q \in Paths /\ (pc[q] \in {Idle, "lock"} \/ (pc[q] = "failed" /\ Here(q)))
    BY DEF Respected, TypeOK
  <2>2. CASE q # p
    BY <1>2, <1>5, <1>8, <2>1, <2>2 DEF Still, Here
  <2>3. CASE q = p
    <3>1. Lock(p) /\ op \in Operations
      BY <1>2, <1>3, <2>1, <2>3, LockFirst DEF Ready
    <3>2. /\ UNCHANGED fsVars
          /\ Goes(p, "lock", "failed") \/ Faulty(p, "lock", "failed")
      BY <2>3, <3>1, LockIs
    <3>3. pc[p] = "lock" /\ pc'[p] = "failed"
      BY <1>3, <3>2, AfterStep DEF Ready
    <3>4. Here(p)
      BY <1>3, <3>3 DEF Ready, Place, BeforeMove
    <3> QED BY <1>5, <2>3, <3>2, <3>3, <3>4 DEF Here, fsVars
  <2> QED BY <2>2, <2>3
<1> QED
  BY <1>9, <1>10, <1>11, <1>12, <1>13, <1>14

LEMMA KeptPrepare ==
  ASSUME TypeOK, Found, Kept, NEW g \in 1..Len(Report), Prepare(g)
  PROVE  Kept'
<1> USE DEF Kept
<1>1. PICK D, R : Prepares(g, D, R)
  BY PrepareIs DEF TypeOK
<1>2. /\ scenario' = scenario /\ op' = op /\ recent' = recent /\ overtaken' = overtaken /\ dir' = dir /\ data' = data
      /\ prepared' = prepared \cup {g} /\ g \notin prepared /\ locked' = locked
      /\ occupied' = occupied /\ faults' = faults
  BY DEF Prepare, fsVars, worldVars
<1>3. /\ Report' = Report /\ \A q : Original(q)' = Original(q) /\ Node(q)' = Node(q)
      /\ \A h : Members(h)' = Members(h) /\ \A q : Calm(q)' <=> Calm(q)
      /\ LateLocks' = LateLocks /\ ShouldLock' = ShouldLock /\ Dir0' = Dir0
  BY <1>2, ScenarioSame
<1>4. /\ \A q \in Paths : Dir0[q] = FileEntry(Node(q)) /\ Node(q) \in Paths
      /\ \A h \in 1..Len(Report) : Members(h) \subseteq Paths
      /\ \A h \in 1..Len(Report) : h # g => Members(h) \cap Members(g) = {}
  BY FoundIs, ScenarioTyped DEF TypeOK
<1>5. /\ D \subseteq Members(g)
      /\ \A q \in Paths : /\ q \in D => target'[q] = R[q] /\ pc'[q] = "lock"
                          /\ q \notin D => target'[q] = target[q] /\ pc'[q] = pc[q]
      /\ \A q \in D : R[q] \in Members(g) \ D
  BY <1>1 DEF Prepares
<1>6. \A q \in Members(g) : pc[q] = Idle
  BY <1>2 DEF Waiting
<1>7. \A q \in Members(g) : Here(q) /\ InodeOf(dir, q) = Node(q)
  <2> SUFFICES ASSUME NEW q \in Members(g)
               PROVE  Here(q) /\ InodeOf(dir, q) = Node(q)
    OBVIOUS
  <2>1. Here(q)
    BY <1>4, <1>6 DEF Placed, Fine, Place, BeforeMove
  <2>2. dir[q] = FileEntry(Node(q))
    BY <1>4, <2>1 DEF Here
  <2> QED BY <2>1, <2>2, ResolvesIs
<1>8. \A q \in D : Node(q) \notin recent /\ Node(R[q]) \notin recent
  BY <1>1, <1>5, <1>7 DEF Prepares
<1>9. Recent' /\ Bodies'
  BY <1>2, <1>3, <1>5, <1>8 DEF Recent, Bodies
<1>10. Plan'
  <2> SUFFICES ASSUME NEW q \in Paths, pc'[q] # Idle
               PROVE  \E h \in 1..Len(Report) : Planned(q, h)'
    BY <1>3 DEF Plan
  <2>1. CASE q \in D
    <3>1. R[q] \in Paths /\ pc'[R[q]] = Idle
      BY <1>4, <1>5, <1>6, <2>1
    <3>2. Planned(q, g)'
      BY <1>2, <1>3, <1>5, <1>8, <2>1, <3>1 DEF Planned
    <3> QED BY <3>2
  <2>2. CASE q \notin D
    <3>1. PICK h \in 1..Len(Report) : Planned(q, h)
      BY <1>5, <2>2 DEF Plan
    <3>2. h # g
      BY <1>2, <3>1 DEF Planned
    <3>3. target[q] \in Paths /\ target[q] \notin D
      BY <1>4, <1>5, <3>1, <3>2 DEF Planned
    <3>4. Planned(q, h)'
      BY <1>2, <1>3, <1>5, <2>2, <3>1, <3>3 DEF Planned
    <3> QED BY <3>4
  <2> QED BY <2>1, <2>2
<1>11. Placed'
  <2> SUFFICES ASSUME NEW q \in Paths PROVE Fine(q)'
    BY DEF Placed
  <2>1. Fine(q)
    BY DEF Placed
  <2>2. CASE q \notin D
    <3>1. Still(q)
      BY <1>2, <1>3, <1>5, <2>2 DEF Still
    <3> QED BY <1>2, <2>1, <3>1, StillFine
  <2>3. CASE q \in D
    <3>1. pc[q] = Idle /\ pc'[q] = "lock"
      BY <1>5, <1>6, <2>3
    <3>2. Here(q)' /\ NoTmp(q)'
      BY <1>2, <1>3, <2>1, <3>1 DEF Fine, Place, Here, NoTmp, BeforeMove
    <3>3. Goal(q)'
      BY <1>2, <2>1, <3>1 DEF Fine, Goal, Taken, Arrived, Copied, BeforeMove, Idle
    <3> QED BY <3>1, <3>2, <3>3 DEF Fine, Suits, Place, Finish, BeforeMove
  <2> QED BY <2>2, <2>3
<1>12. Waiting'
  <2> SUFFICES ASSUME NEW h \in 1..Len(Report), h \notin prepared', NEW q \in Members(h)
               PROVE  pc'[q] = Idle
    BY <1>3 DEF Waiting
  <2>1. h # g /\ h \notin prepared
    BY <1>2
  <2> QED BY <1>4, <1>5, <2>1 DEF Waiting
<1>13. Skipped'
  <2> SUFFICES ASSUME NEW h \in 1..Len(Report), Whole(h), Length[NewContents] = Report[h].len,
                      NEW r \in Members(h), Node(r) \in recent, NEW q \in Members(h)
               PROVE  pc'[q] = Idle
    BY <1>2, <1>3 DEF Skipped, Whole
  <2>1. pc[q] = Idle /\ q \in Paths
    BY <1>4 DEF Skipped
  <2>2. CASE h # g
    BY <1>4, <1>5, <2>1, <2>2
  <2>3. CASE h = g
    <3>1. InodeOf(dir, r) \in recent /\ data[InodeOf(dir, r)] = NewContents
      BY <1>7, <2>3 DEF Recent
    <3>2. Whole(g) /\ \E m \in Members(g) : InodeOf(dir, m) \in recent
                                             /\ Length[data[InodeOf(dir, m)]] = Report[g].len
      BY <2>3, <3>1
    <3>3. D = {}
      BY <1>1, <3>2 DEF Prepares, Whole
    <3> QED BY <1>5, <2>1, <3>3
  <2> QED BY <2>2, <2>3
<1>14. Respected'
  BY <1>2, <1>3, <1>5 DEF Respected, Here, TypeOK
<1> QED
  BY <1>9, <1>10, <1>11, <1>12, <1>13, <1>14

\* What a path of a group leads to is a file of the group, or the copy of its own
\* that a failed clone leaves.
LEMMA Reached ==
  ASSUME TypeOK, Found, Kept, NEW g \in 1..Len(Report), NEW p \in Members(g), Resolves(dir, p)
  PROVE  /\ pc[p] = Idle => InodeOf(dir, p) = Node(p)
         /\ InodeOf(dir, p) = Tmp(p) \/ \E q \in Members(g) : InodeOf(dir, p) = Node(q)
<1>1. /\ p \in Paths /\ Dir0[p] = FileEntry(Node(p)) /\ Hops # 0 /\ pc[p] \in Stages
      /\ \A h \in 1..Len(Report) : p \in Members(h) => h = g
  BY FoundIs DEF TypeOK
<1>2. Suits(p) /\ Place(p) /\ Finish(p)
  BY <1>1 DEF Kept, Placed, Fine
<1>3. Here(p) => InodeOf(dir, p) = Node(p)
  BY <1>1, ResolvesIs DEF Here
<1>4. pc[p] = Idle => Here(p)
  BY <1>2 DEF Place, BeforeMove
<1>5. ASSUME pc[p] # Idle
      PROVE  InodeOf(dir, p) = Tmp(p) \/ \E q \in Members(g) : InodeOf(dir, p) = Node(q)
  <2>1. Ready(p) /\ target[p] \in Members(g)
    BY <1>1, <1>5, ReadyIs DEF Kept, Plan, Planned
  <2>2. Linked(p) => InodeOf(dir, p) = Node(target[p])
    BY <1>1, <2>1, ResolvesIs DEF Linked, Ready
  <2>3. dir[p] = FileEntry(Tmp(p)) => InodeOf(dir, p) = Tmp(p)
    BY ResolvesIs
  <2>4. dir[p] # NoEntry
    BY ResolvesIs
  <2>5. Here(p) \/ Linked(p) \/ dir[p] = FileEntry(Tmp(p))
    <3>1. op \in Operations
      BY <2>1 DEF Ready
    <3> QED BY <1>1, <1>2, <1>5, <2>4, <3>1, StageNames
            DEF Suits, Place, Finish, Aside, Backed, Linking, BeforeMove, Operations, Idle
  <2> QED BY <1>3, <2>1, <2>2, <2>3, <2>5
<1> QED
  BY <1>3, <1>4, <1>5

\* A write before the group is divided.
LEMMA KeptEarly ==
  ASSUME TypeOK, Found, Kept, NEW p \in Paths, Rewrite(p),
         NEW g \in 1..Len(Report), p \in Members(g), g \notin prepared
  PROVE  Kept'
<1> USE DEF Kept
<1>1. /\ scenario' = scenario /\ op' = op /\ dir' = dir /\ target' = target /\ pc' = pc
      /\ prepared' = prepared /\ locked' = locked /\ occupied' = occupied /\ faults' = faults
  BY DEF Rewrite, planVars
<1>2. /\ \A q \in Paths : Dir0[q] = FileEntry(Node(q)) /\ Node(q) \in Paths
      /\ \A h \in 1..Len(Report) : Members(h) \subseteq Paths
      /\ \A h \in 1..Len(Report) : \A q \in Members(h) : Node(q) = Node(p) => h = g
  BY FoundIs DEF TypeOK
<1>3. InodeOf(dir, p) = Node(p)
  BY Reached DEF Waiting, Rewrite
<1>4. /\ recent' = recent \cup {Node(p)} /\ overtaken' = overtaken /\ data'[Node(p)] = NewContents
      /\ \A i \in Names \ {Node(p)} : data'[i] = data[i]
  <2>1. \A h \in 1..Len(Report) : p \in Members(h) => h = g
    BY <1>2
  <2> QED BY <1>2, <1>3, <2>1, PathNames DEF Rewrite, TypeOK
<1>5. /\ Report' = Report /\ \A q : Original(q)' = Original(q) /\ Node(q)' = Node(q)
      /\ \A h : Members(h)' = Members(h) /\ \A q : Calm(q)' <=> Calm(q)
      /\ LateLocks' = LateLocks /\ ShouldLock' = ShouldLock /\ Dir0' = Dir0
  BY <1>1, <1>4, ScenarioSame
<1>6. Recent'
  BY <1>2, <1>4, <1>5, PathNames DEF Recent
<1>7. ASSUME NEW q \in Paths, NEW h \in 1..Len(Report), Planned(q, h)
      PROVE  h # g /\ Node(q) # Node(p) /\ Node(target[q]) # Node(p)
  BY <1>2, <1>7 DEF Planned
<1>8. Bodies'
  <2> SUFFICES ASSUME NEW q \in Paths
               PROVE  /\ Calm(q) /\ Node(q) \notin recent' => data'[Node(q)] = Original(q)
                      /\ Node(q) \in recent' => pc[q] = Idle
    BY <1>1, <1>5 DEF Bodies
  <2>1. Calm(q) /\ Node(q) \notin recent' => data'[Node(q)] = Original(q)
    BY <1>2, <1>4, PathNames DEF Bodies
  <2>2. pc[q] # Idle => Node(q) # Node(p)
    BY <1>7 DEF Plan
  <2> QED BY <1>4, <2>1, <2>2 DEF Bodies
<1>9. Plan'
  <2> SUFFICES ASSUME NEW q \in Paths, pc[q] # Idle
               PROVE  \E h \in 1..Len(Report) : Planned(q, h)'
    BY <1>1, <1>5 DEF Plan
  <2>1. PICK h \in 1..Len(Report) : Planned(q, h)
    BY DEF Plan
  <2>2. Planned(q, h)'
    BY <1>1, <1>4, <1>5, <1>7, <2>1 DEF Planned
  <2> QED BY <2>2
<1>10. Placed'
  <2> SUFFICES ASSUME NEW q \in Paths PROVE Fine(q)'
    BY DEF Placed
  <2>1. Still(q)
    BY <1>1, <1>2, <1>4, <1>5, NamesApart DEF Still
  <2> QED BY <1>1, <2>1, StillFine DEF Placed
<1>11. Waiting' /\ Respected'
  BY <1>1, <1>5 DEF Waiting, Respected, Here
<1>12. Skipped'
  <2> SUFFICES ASSUME NEW h \in 1..Len(Report), Whole(h), Length[NewContents] = Report[h].len,
                      NEW r \in Members(h), Node(r) \in recent', NEW q \in Members(h)
               PROVE  pc[q] = Idle
    BY <1>1, <1>5 DEF Skipped, Whole
  <2>1. CASE Node(r) \in recent
    BY <2>1 DEF Skipped
  <2>2. CASE Node(r) = Node(p)
    BY <1>2, <2>2 DEF Waiting
  <2> QED BY <1>4, <2>1, <2>2
<1> QED
  BY <1>6, <1>8, <1>9, <1>10, <1>11, <1>12

\* A write that comes too late to be noticed harms its own group only, and the plan
\* and the entries of that one are as they were.
LEMMA KeptLate ==
  ASSUME TypeOK, Found, Kept, NEW p \in Paths, Rewrite(p),
         NEW g \in 1..Len(Report), p \in Members(g), g \in prepared
  PROVE  Kept'
<1> USE DEF Kept
<1>1. /\ scenario' = scenario /\ op' = op /\ dir' = dir /\ target' = target /\ pc' = pc
      /\ prepared' = prepared /\ locked' = locked /\ occupied' = occupied /\ faults' = faults
  BY DEF Rewrite, planVars
<1>2. /\ \A q \in Paths : Node(q) \in Paths
      /\ \A h \in 1..Len(Report) : Members(h) \subseteq Paths
      /\ \A h \in 1..Len(Report) : p \in Members(h) => h = g
  BY FoundIs DEF TypeOK
<1> DEFINE i == InodeOf(dir, p)
<1>3. /\ recent' = recent /\ overtaken' = overtaken \cup {g}
      /\ i \in recent => data'[i] = NewContents
      /\ \A j \in Names \ {i} : data'[j] = data[j]
  BY <1>2 DEF Rewrite, TypeOK, Recent
<1>4. i = Tmp(p) \/ \E r \in Members(g) : i = Node(r)
  BY Reached DEF Rewrite
<1> HIDE DEF i
<1>5. /\ Report' = Report /\ \A q : Original(q)' = Original(q) /\ Node(q)' = Node(q)
      /\ \A h : Members(h)' = Members(h) /\ \A q : Calm(q)' => Calm(q)
      /\ LateLocks' = LateLocks /\ ShouldLock' = ShouldLock /\ Dir0' = Dir0
  BY <1>1, <1>3, ScenarioSame
<1>6. ASSUME NEW q \in Paths, Calm(q)' PROVE \A r \in Members(g) : Node(q) # Node(r)
  <2>1. FileOf(q) \notin {FileOf(r) : r \in Members(g)}
    BY <1>1, <1>3, <1>6, ScenarioSame DEF Calm
  <2> QED BY <1>2, <2>1, CalmIs
<1>7. ASSUME NEW q \in Paths, Calm(q)' PROVE Node(q) # i /\ Tmp(q) # i
  <2>1. q # p
    BY <1>6, <1>7
  <2> QED BY <1>2, <1>4, <1>6, <1>7, <2>1, NamesApart
<1>8. Recent'
  BY <1>2, <1>3, <1>5, PathNames DEF Recent
<1>9. Bodies'
  BY <1>1, <1>2, <1>3, <1>5, <1>7, PathNames DEF Bodies
<1>10. Plan' /\ Skipped' /\ Waiting' /\ Respected'
  BY <1>1, <1>3, <1>5 DEF Plan, Planned, Skipped, Waiting, Whole, Respected, Here
<1>11. Placed'
  <2> SUFFICES ASSUME NEW q \in Paths PROVE Fine(q)'
    BY DEF Placed
  <2>1. Still(q)
    <3>1. To(q) # i
      BY <1>2, <1>4, NamesApart
    <3> QED BY <1>1, <1>3, <1>5, <1>7, <3>1, NamesApart DEF Still
  <2> QED BY <1>1, <2>1, StillFine DEF Placed
<1> QED
  BY <1>8, <1>9, <1>10, <1>11

LEMMA KeptRewrite ==
  ASSUME TypeOK, Found, Kept, NEW p \in Paths, Rewrite(p)
  PROVE  Kept'
<1>1. PICK g \in 1..Len(Report) : p \in Members(g)
  BY DEF Rewrite
<1> QED
  BY <1>1, KeptEarly, KeptLate

LEMMA KeptLock ==
  ASSUME TypeOK, Found, Kept, NEW p \in Paths, LockByOther(p)
  PROVE  Kept'
<1>1. /\ UNCHANGED <<scenario, dir, data, recent, overtaken, op, prepared, target, pc, occupied, faults>>
      /\ locked' = locked \cup {p} /\ (~LateLocks => pc[p] \in {Idle, "lock"})
  BY DEF LockByOther, fsVars, planVars
<1>2. \A q \in Paths : Fine(q)'
  BY <1>1, ScenarioSame, StillFine DEF Still, Kept, Placed
<1>3. LateLocks' = LateLocks /\ ShouldLock' = ShouldLock /\ Dir0' = Dir0
      /\ \A q : Node(q)' = Node(q)
  BY <1>1, ScenarioSame
<1>4. Respected'
  BY <1>1, <1>3 DEF Kept, Respected, Here
<1> QED
  BY <1>1, <1>2, <1>3, <1>4, SameKept

LEMMA KeptOccupy ==
  ASSUME TypeOK, Found, Kept, NEW p \in Paths, Occupy(p)
  PROVE  Kept'
<1>1. /\ UNCHANGED <<scenario, recent, overtaken, op, prepared, target, pc, locked, faults>>
      /\ occupied' = occupied \cup {p} /\ dir[To(p)] = NoEntry /\ Store(To(p), Foreign)
      /\ LateFiles \/ pc[p] \in BeforeMove
  BY DEF Occupy, planVars, Exists, BeforeMove, Idle
<1>2. /\ LateLocks' = LateLocks /\ ShouldLock' = ShouldLock /\ Dir0' = Dir0
      /\ \A q : Node(q)' = Node(q) /\ Original(q)' = Original(q) /\ (Calm(q)' <=> Calm(q))
      /\ \A q \in Paths : Node(q) \in Paths
  BY <1>1, ScenarioSame, FoundIs DEF TypeOK
<1>3. /\ dir'[To(p)] = FileEntry(To(p)) /\ \A n \in Names \ {To(p)} : dir'[n] = dir[n]
      /\ data'[To(p)] = Foreign /\ \A i \in Names \ {To(p)} : data'[i] = data[i]
  <2>1. FsTyped /\ To(p) \in Names
    BY NamesApart DEF TypeOK, FsTyped
  <2> QED BY <1>1, <2>1, StoreIs
<1>4. ASSUME NEW q \in Paths, q # p PROVE Fine(q)'
  <2>1. Local(p)
    BY <1>2, <1>3, NamesApart DEF Local
  <2>2. Still(q)
    BY <1>1, <1>2, <1>4, <2>1, LocalStill
  <2> QED BY <1>1, <2>2, StillFine DEF Kept, Placed
<1>5. Fine(p)'
  <2>1. Fine(p)
    BY DEF Kept, Placed
  <2>2. /\ dir'[p] = dir[p] /\ dir'[Tmp(p)] = dir[Tmp(p)] /\ data'[Tmp(p)] = data[Tmp(p)]
        /\ pc' = pc /\ op' = op /\ target' = target /\ faults' = faults
    BY <1>1, <1>3, NamesApart
  <2>3. op = "move" => pc[p] \in BeforeMove
    BY <1>1 DEF Found
  <2> USE DEF Here, NoTmp, OwnTmp, Aside, Backed, Copied, Linked, Linking, BeforeMove, Idle
  <2>4. Suits(p)'
    BY <2>1, <2>2 DEF Fine, Suits
  <2>5. Place(p)'
    BY <1>2, <2>1, <2>2 DEF Fine, Place
  <2>6. Finish(p)'
    BY <1>2, <2>1, <2>2, <2>3 DEF Fine, Finish
  <2>7. Goal(p)'
    BY <1>1, <1>3, <2>2, <2>3 DEF Goal, Taken
  <2> QED BY <2>4, <2>5, <2>6, <2>7 DEF Fine
<1>6. Respected'
  <2>1. \A q \in Paths : dir'[q] = dir[q]
    BY <1>3, NamesApart
  <2> QED BY <1>1, <1>2, <2>1 DEF Kept, Respected, Here, TypeOK
<1>7. \A q \in Paths : data'[Node(q)] = data[Node(q)]
  BY <1>2, <1>3, NamesApart
<1> QED
  BY <1>1, <1>4, <1>5, <1>6, <1>7, SameKept

LEMMA InvInit ==
  Init => IInv
BY TypeInit, KeptInit DEF IInv

LEMMA NextSame ==
  ASSUME TypeOK, [Next]_vars
  PROVE  scenario' = scenario /\ op' = op
<1>1. CASE \E g \in 1..Len(Report) : Prepare(g)
  BY <1>1 DEF Prepare, worldVars
<1>2. CASE \E p \in Paths : Execute(p)
  BY <1>2, ExecuteSteps DEF Steps, worldVars, planVars
<1>3. CASE Others
  BY <1>3 DEF Others, Rewrite, LockByOther, Occupy, planVars
<1>4. CASE UNCHANGED vars
  BY <1>4 DEF vars
<1> QED
  BY <1>1, <1>2, <1>3, <1>4 DEF Next

LEMMA InvNext ==
  IInv /\ [Next]_vars => IInv'
<1> SUFFICES ASSUME IInv, [Next]_vars, Found' PROVE Kept'
  BY TypeNext DEF IInv
<1>1. scenario' = scenario /\ op' = op
  BY NextSame DEF IInv
<1>2. TypeOK /\ Found /\ Kept
  BY <1>1, FoundSame DEF IInv
<1>3. CASE UNCHANGED vars
  <2>1. UNCHANGED <<scenario, dir, data, recent, overtaken, op, prepared, target, pc, locked, occupied, faults>>
    BY <1>3 DEF vars
  <2>2. \A q \in Paths : Fine(q)'
    BY <1>2, <2>1, ScenarioSame, StillFine DEF Still, Kept, Placed
  <2>3. Respected' /\ \A q : Node(q)' = Node(q)
    BY <1>2, <2>1, ScenarioSame DEF Kept, Respected, Here
  <2> QED BY <1>2, <2>1, <2>2, <2>3, SameKept
<1> QED
  BY <1>2, <1>3, KeptPrepare, KeptExecute, KeptRewrite, KeptLock, KeptOccupy DEF Next, Others

\* Each command finds its file, or what it made of it, where it left them, and the
\* file that stays is no command's: whatever fails and in whatever order they run.
THEOREM InvariantHolds ==
  Spec => []IInv
BY InvInit, InvNext, PTL DEF Spec

-----------------------------------------------------------------------------
(* What the invariant says.                                                *)

\* What a path that was not rewritten held can be read where a file is.
LEMMA ReadsIs ==
  ASSUME NEW n, NEW i, dir[n] = FileEntry(i)
  PROVE  \A c : Reads(n, c) <=> data[i] = c
BY ResolvesIs DEF Reads

LEMMA LostNothing ==
  ASSUME TypeOK, Found, Kept
  PROVE  NothingLost
<1> USE DEF Kept
<1>1. /\ \A p \in Paths : /\ Dir0[p] = FileEntry(Node(p)) /\ Node(p) \in Paths
                          /\ InodeOf(Dir0, p) = Node(p) /\ p \in Names
      /\ \A g \in 1..Len(Report) : /\ Members(g) \subseteq Paths
                                   /\ \A p, q \in Members(g) : Original(p) = Original(q)
  BY FoundIs, NamesApart DEF TypeOK
<1>2. \A n \in Names : \A i : dir[n] = FileEntry(i) => data[i] \in Stored
  BY EntryKinds DEF Stored
<1>3. ASSUME NEW p \in Paths, pc[p] = Idle
      PROVE  dir[p] = FileEntry(Node(p)) /\ data[Node(p)] \in Stored
  <2>1. Here(p)
    BY <1>3 DEF Placed, Fine, Place, BeforeMove
  <2> QED BY <1>1, <1>2, <2>1 DEF Here
<1>4. ASSUME NEW p \in Paths, pc[p] # Idle
      PROVE  /\ target[p] \in Paths /\ dir[target[p]] = FileEntry(Node(target[p]))
             /\ Copied(p, Node(target[p]))
  BY <1>4, <1>1, ReadyIs DEF Ready
<1>5. ASSUME NEW p \in Paths, Calm(p), Node(p) \notin recent
      PROVE  Original(p) \in Stored
  <2>1. CASE pc[p] = Idle
    BY <1>3, <1>5, <2>1 DEF Bodies
  <2>2. CASE pc[p] # Idle
    BY <1>1, <1>2, <1>4, <1>5, <2>2 DEF Copied
  <2> QED BY <2>1, <2>2
<1>6. recent # {} => NewContents \in Stored
  <2> SUFFICES ASSUME NEW i \in recent PROVE NewContents \in Stored
    OBVIOUS
  <2>1. PICK p \in Paths : Node(p) = i
    BY DEF Recent
  <2>2. pc[p] = Idle /\ data[i] = NewContents
    BY <2>1 DEF Bodies, Recent
  <2> QED BY <1>3, <2>1, <2>2
<1>7. \A p \in occupied : Reads(To(p), Foreign)
  BY ReadsIs DEF Placed, Fine, Goal, Taken, TypeOK
<1>8. ContentsSurvive
  BY <1>1, <1>5, <1>6, <1>7 DEF ContentsSurvive
<1>9. ASSUME op # "remove", NEW p \in Dropped, Calm(p)
      PROVE  \E n \in {p, Tmp(p), To(p)} : Reads(n, Original(p))
  <2>1. p \in Paths /\ pc[p] # Idle /\ Ready(p)
    BY ReadyIs DEF Dropped
  <2>2. data[Node(p)] = Original(p) /\ Dir0[p] = FileEntry(Node(p))
    BY <1>9, <2>1 DEF Ready, Copied
  <2>3. Here(p) => Reads(p, Original(p))
    BY <2>2, ReadsIs DEF Here
  <2>4. dir[Tmp(p)] = Dir0[p] => Reads(Tmp(p), Original(p))
    BY <2>2, ReadsIs
  <2>5. Linked(p) => Reads(p, Original(p))
    BY <1>1, <1>4, <1>9, <2>1, ResolvesIs, FoundIs DEF Linked, Reads, Copied, TypeOK
  <2>6. Arrived(p) \/ dir[To(p)] = Dir0[p] => Reads(To(p), Original(p))
    BY <1>9, <2>2, ReadsIs DEF Arrived, Copied
  <2>7. dir[p] = FileEntry(Tmp(p)) /\ data[Tmp(p)] = Original(p) => Reads(p, Original(p))
    BY ReadsIs
  <2>8. \/ Here(p) \/ dir[Tmp(p)] = Dir0[p] \/ Linked(p) \/ Arrived(p) \/ dir[To(p)] = Dir0[p]
        \/ dir[p] = FileEntry(Tmp(p)) /\ data[Tmp(p)] = Original(p)
    <3>1. Place(p) /\ Finish(p) /\ Suits(p) /\ op \in Operations /\ pc[p] \in Stages
      BY <2>1 DEF Ready
    <3> QED BY <1>9, <2>1, <3>1, StageNames DEF Copied, Suits, Place, Finish, Aside, Backed, Linking, BeforeMove, Operations, Idle
  <2> QED BY <2>3, <2>4, <2>5, <2>6, <2>7, <2>8
<1> QED
  BY <1>8, <1>9 DEF NothingLost, PathsReadable

LEMMA DoneOrUndone ==
  ASSUME TypeOK, Found, Kept
  PROVE  AllOrNothing
<1>1. \A p \in Paths : Dir0[p] = FileEntry(Node(p)) /\ Node(p) \in Paths
  BY FoundIs DEF TypeOK
<1>2. ASSUME NEW p \in Paths, pc[p] # Idle
      PROVE  /\ Ready(p) /\ faults \in Nat
             /\ Here(p) /\ Calm(p) => Reads(p, Original(p))
  <2>1. Ready(p)
    BY <1>2, ReadyIs DEF Kept
  <2>2. Here(p) /\ Calm(p) => Reads(p, Original(p))
    BY <2>1, ReadsIs DEF Ready, Here, Copied
  <2> QED BY <2>1, <2>2 DEF Ready
<1>3. ASSUME NEW p \in Paths, pc[p] = "failed", faults <= 1
      PROVE  /\ Calm(p) => Reads(p, Original(p))
             /\ ~Exists(Tmp(p)) /\ (op # "reflink" => dir[p] = Dir0[p])
  <2>1. Ready(p) /\ faults \in {0, 1} /\ (Here(p) /\ Calm(p) => Reads(p, Original(p)))
    BY <1>2, <1>3 DEF Idle
  <2>2. \/ Here(p) /\ NoTmp(p)
        \/ op = "reflink" /\ dir[p] = FileEntry(Tmp(p)) /\ NoTmp(p) /\ Copied(p, Tmp(p))
    BY <1>3, <2>1 DEF Ready, Finish
  <2>3. dir[p] = FileEntry(Tmp(p)) /\ Copied(p, Tmp(p)) /\ Calm(p) => Reads(p, Original(p))
    BY ReadsIs DEF Copied
  <2> QED BY <2>1, <2>2, <2>3 DEF Here, NoTmp, Exists
<1>4. ASSUME NEW p \in Paths, pc[p] = "done"
      PROVE  /\ CASE op \in {"remove", "move"} -> ~Exists(p)
                  [] op = "softlink" -> dir[p] = LinkEntry(target[p])
                  [] op = "hardlink" -> dir[p] = dir[target[p]]
                  [] op = "reflink"  -> ~DryRun => dir[p] = Dir0[p]
             /\ op # "remove" /\ Calm(p) => Reads(IF op = "move" THEN To(p) ELSE p, Original(p))
  <2>1. Ready(p) /\ (Here(p) /\ Calm(p) => Reads(p, Original(p)))
    BY <1>2, <1>4 DEF Idle
  <2>2. Finish(p) /\ op \in Operations
    BY <2>1 DEF Ready
  <2>3. (dir[To(p)] = Dir0[p] \/ Arrived(p)) /\ Calm(p) => Reads(To(p), Original(p))
    BY <2>1, ReadsIs DEF Arrived, Copied, Ready
  <2>4. Linked(p) /\ op \in Linking /\ Calm(p) => Reads(p, Original(p))
    BY <2>1, ResolvesIs DEF Linked, Reads, Copied, Ready
  <2>5. dir[target[p]] = Dir0[target[p]]
    BY <2>1 DEF Ready
  <2>6. CASE op \in {"remove", "move", "reflink"}
    BY <1>4, <2>1, <2>2, <2>3, <2>6 DEF Finish, Here, Exists
  <2>7. CASE op \in Linking
    BY <1>4, <2>2, <2>4, <2>5, <2>7 DEF Finish, Linked, Linking
  <2> QED BY <2>2, <2>6, <2>7 DEF Operations, Linking
<1> QED
  BY <1>3, <1>4 DEF AllOrNothing, FailureUndone, DoneMeansDone

LEMMA LockKept ==
  ASSUME TypeOK, Found, Kept, ~LateLocks, op # "move", recent = {}
  PROVE  LockedLeftAlone
<1> SUFFICES ASSUME ShouldLock, NEW p \in locked
             PROVE  dir[p] = Dir0[p] /\ (Calm(p) => Reads(p, Original(p)))
  BY DEF LockedLeftAlone
<1>1. p \in Paths /\ (pc[p] \in {Idle, "lock"} \/ (pc[p] = "failed" /\ Here(p)))
  BY DEF Kept, Respected, TypeOK
<1>2. Here(p)
  BY <1>1 DEF Kept, Placed, Fine, Place, BeforeMove
<1>3. dir[p] = FileEntry(Node(p)) /\ (Calm(p) => data[Node(p)] = Original(p))
  BY <1>1, <1>2, FoundIs DEF Kept, Bodies, Here, TypeOK
<1> QED
  BY <1>2, <1>3, ReadsIs DEF Here

LEMMA RecentSkipped ==
  ASSUME TypeOK, Found, Kept, \A g \in 1..Len(Report) : Whole(g)
  PROVE  RecentGroupsSkipped
<1>1. \A p \in Paths : InodeOf(Dir0, p) = Node(p)
  BY FoundIs DEF TypeOK
<1>2. \A g \in 1..Len(Report) : Members(g) \subseteq Paths
  BY FoundIs DEF TypeOK
<1> QED
  BY <1>1, <1>2 DEF Kept, Skipped, RecentGroupsSkipped, Dropped

\* No contents are lost at any step of any command, whatever fails, in whatever
\* order the commands of all groups run, and wherever fclones is killed.  A file that
\* is written to once its group is divided takes only its own group's promise away.
THEOREM NoContentsLost ==
  Spec => [](Found => NothingLost)
<1>1. IInv => (Found => NothingLost)
  BY LostNothing DEF IInv
<1> QED
  BY <1>1, InvariantHolds, PTL

\* A command that ended well did what it says, and one that failed, with one
\* failing call, left its file as it was: for any commands beside it, and for any
\* writes, but that the contents are then promised of no group they came too late for.
THEOREM CommandsAllOrNothing ==
  Spec => [](Found => AllOrNothing)
<1>1. IInv => (Found => AllOrNothing)
  BY DoneOrUndone DEF IInv
<1> QED
  BY <1>1, InvariantHolds, PTL

\* A file that another program locked before its command begins is left alone, but
\* for a move, which does not look at the result.
THEOREM LocksRespected ==
  Spec => [](Found /\ ~LateLocks /\ op # "move" /\ recent = {} => LockedLeftAlone)
<1>1. IInv => (Found /\ ~LateLocks /\ op # "move" /\ recent = {} => LockedLeftAlone)
  BY LockKept DEF IInv
<1> QED
  BY <1>1, InvariantHolds, PTL

\* A group with a file that was written after the report and before the metadata was
\* read, and kept its length, is skipped as a whole when it is divided as a whole: on
\* one device, or for a command that does not need one.  Writes that come later, to
\* this group or another one, do not change that.
THEOREM LateGroupsSkipped ==
  Spec => [](Found /\ (\A g \in 1..Len(Report) : Whole(g)) => RecentGroupsSkipped)
<1>1. IInv => (Found /\ (\A g \in 1..Len(Report) : Whole(g)) => RecentGroupsSkipped)
  BY RecentSkipped DEF IInv
<1> QED
  BY <1>1, InvariantHolds, PTL

-----------------------------------------------------------------------------
(* What is kept of a group.                                                *)

Gone(g) == {p \in Members(g) : pc[p] # Idle}

Nodes == [p \in Paths |-> Node(p)]

\* Whatever else happens, nothing under a keep pattern is dropped, a group of which
\* something is dropped keeps as many replicas as it has to, and replicas are
\* dropped as a whole where groups are divided as a whole.
Chosen ==
  \A g \in 1..Len(Report) :
    /\ Gone(g) \cap KeepMatched = {}
    /\ Gone(g) # {} => Replicated(Members(g), ToKeep, Gone(g), Nodes)
    /\ recent = {} /\ Whole(g) =>
         /\ \A p \in Gone(g), q \in Members(g) : OneReplica(p, q, Nodes) => q \in Gone(g)
         /\ Unrelated(Members(g), Nodes) => Behind(Members(g), Gone(g))

\* An isolated root is not below of another one, and the paths under it are known.
RootsApart ==
  \A p \in Paths : /\ UnderRoot[p] \subseteq ToSet(Roots)
                   /\ \A r, s \in UnderRoot[p] : r = s

LEMMA ChoiceSame ==
  ASSUME scenario' = scenario
  PROVE  /\ Report' = Report /\ KeepMatched' = KeepMatched /\ ToKeep' = ToKeep /\ Nodes' = Nodes
         /\ \A g : Members(g)' = Members(g)
         /\ \A p, q : OneReplica(p, q, Nodes)' <=> OneReplica(p, q, Nodes)
         /\ \A P : Unrelated(P, Nodes)' <=> Unrelated(P, Nodes)
         /\ \A P, drop : Behind(P, drop)' <=> Behind(P, drop)
<1>1. /\ Roots' = Roots /\ UnderRoot' = UnderRoot /\ MatchLinks' = MatchLinks
      /\ KeepMatched' = KeepMatched /\ RfOver' = RfOver /\ Priority' = Priority
      /\ NamePatterns' = NamePatterns /\ PathPatterns' = PathPatterns
  BY DEF Priority, NamePatterns, PathPatterns, Roots, UnderRoot, MatchLinks, KeepMatched, RfOver, Scenario
<1>2. \A p : RootOf(p)' = RootOf(p)
  BY <1>1 DEF RootOf, SelectInSeq
<1>3. Nodes' = Nodes
  BY ScenarioSame DEF Nodes
<1> QED
  BY <1>1, <1>2, <1>3, ScenarioSame DEF OneReplica, ToKeep, Unrelated, Behind, FirstHasKey

\* A step that drops no files.
LEMMA ChosenSame ==
  ASSUME TypeOK, Chosen, scenario' = scenario, op' = op, recent' = {} => recent = {},
         \A p \in Paths : pc'[p] = Idle <=> pc[p] = Idle
  PROVE  Chosen'
<1>1. \A g \in 1..Len(Report) : Members(g) \subseteq Paths
  BY PartsIs DEF TypeOK
<1>2. \A g \in 1..Len(Report) : Gone(g)' = Gone(g)
  BY <1>1, ChoiceSame DEF Gone
<1>3. \A g : Whole(g)' <=> Whole(g)
  BY ChoiceSame DEF Whole
<1> QED
  BY <1>2, <1>3, ChoiceSame DEF Chosen, Replicated

LEMMA ChosenPrepare ==
  ASSUME TypeOK, Found, Kept, Chosen, NEW g \in 1..Len(Report), Prepare(g)
  PROVE  Chosen'
<1>1. PICK D, R : Prepares(g, D, R)
  BY PrepareIs DEF TypeOK
<1>2. scenario' = scenario /\ op' = op /\ recent' = recent /\ g \notin prepared
  BY DEF Prepare, worldVars
<1>3. /\ \A h \in 1..Len(Report) : Members(h) \subseteq Paths
      /\ \A h \in 1..Len(Report) : h # g => Members(h) \cap Members(g) = {}
  BY FoundIs, ScenarioTyped DEF TypeOK
<1>4. /\ D \subseteq Members(g)
      /\ \A q \in Paths : pc'[q] = IF q \in D THEN "lock" ELSE pc[q]
  BY <1>1 DEF Prepares
<1>5. \A q \in Members(g) : pc[q] = Idle
  BY <1>2 DEF Kept, Waiting
<1>6. Gone(g)' = D /\ \A h \in 1..Len(Report) : h # g => Gone(h)' = Gone(h)
  BY <1>2, <1>3, <1>4, <1>5, ChoiceSame DEF Gone, Idle
<1>7. \A q \in Members(g) : InodeOf(dir, q) = Node(q)
  <2> SUFFICES ASSUME NEW q \in Members(g) PROVE InodeOf(dir, q) = Node(q)
    OBVIOUS
  <2>1. dir[q] = Dir0[q]
    BY <1>3, <1>5 DEF Kept, Placed, Fine, Place, Here, BeforeMove
  <2>2. dir[q] = FileEntry(Node(q))
    BY <1>3, <2>1, FoundIs DEF TypeOK
  <2> QED BY <2>2, ResolvesIs
<1>8. \A q \in Members(g) : Ids(g)[q] = Node(q) /\ Nodes[q] = Node(q)
  BY <1>3, <1>7 DEF Ids, Nodes
<1>9. \A p, q \in Members(g) : OneReplica(p, q, Ids(g)) <=> OneReplica(p, q, Nodes)
  BY <1>8 DEF OneReplica
<1>10. ASSUME recent = {} PROVE OneBody(g)
  <2>1. \A q \in Members(g) : data[Node(q)] = Original(q)
    <3>1. \A q \in Members(g) : Calm(q)
      BY <1>2, CalmIs DEF TypeOK
    <3> QED BY <1>3, <1>10, <3>1 DEF Kept, Bodies
  <2> QED BY <1>7, <1>10, <2>1, FoundIs DEF OneBody, TypeOK
<1>11. D \cap KeepMatched = {}
  BY <1>1 DEF Prepares
<1>12. D # {} => Replicated(Members(g), ToKeep, D, Nodes)
  <2>1. D # {} => Replicated(Members(g), ToKeep, D, Ids(g))
    BY <1>1 DEF Prepares
  <2> QED BY <1>9, <2>1 DEF Replicated
<1>13. recent = {} /\ Whole(g) =>
         /\ \A p \in D, q \in Members(g) : OneReplica(p, q, Nodes) => q \in D
         /\ Unrelated(Members(g), Nodes) => Behind(Members(g), D)
  <2>1. Unrelated(Members(g), Nodes) <=> Unrelated(Members(g), Ids(g))
    BY <1>8 DEF Unrelated
  <2> QED BY <1>1, <1>4, <1>9, <1>10, <2>1 DEF Prepares
<1>14. \A h : Whole(h)' <=> Whole(h)
  BY <1>2, ChoiceSame DEF Whole
<1> QED
  <2> SUFFICES ASSUME NEW h \in 1..Len(Report)
               PROVE  /\ Gone(h)' \cap KeepMatched = {}
                      /\ Gone(h)' # {} => Replicated(Members(h), ToKeep, Gone(h)', Nodes)
                      /\ recent = {} /\ Whole(h) =>
                           /\ \A p \in Gone(h)', q \in Members(h) : OneReplica(p, q, Nodes) => q \in Gone(h)'
                           /\ Unrelated(Members(h), Nodes) => Behind(Members(h), Gone(h)')
    BY <1>2, <1>14, ChoiceSame DEF Chosen, Replicated
  <2>1. CASE h = g
    BY <1>6, <1>11, <1>12, <1>13, <2>1
  <2>2. CASE h # g
    BY <1>6, <2>2 DEF Chosen
  <2> QED BY <2>1, <2>2

LEMMA ChosenInit ==
  Init => Chosen
<1> SUFFICES ASSUME Init PROVE Chosen
  OBVIOUS
<1>1. \A g \in 1..Len(Report) : Members(g) \subseteq Paths
  BY PartsIs DEF Init
<1>2. \A g \in 1..Len(Report) : Gone(g) = {}
  BY <1>1 DEF Init, Gone
<1> QED
  BY <1>2 DEF Chosen, Behind

LEMMA ChosenNext ==
  IInv /\ (Found => Chosen) /\ [Next]_vars => (Found' => Chosen')
<1> SUFFICES ASSUME IInv, Found => Chosen, [Next]_vars, Found' PROVE Chosen'
  OBVIOUS
<1>1. scenario' = scenario /\ op' = op
  BY NextSame DEF IInv
<1>2. TypeOK /\ Found /\ Kept /\ Chosen
  BY <1>1, FoundSame DEF IInv
<1>3. CASE \E g \in 1..Len(Report) : Prepare(g)
  BY <1>2, <1>3, ChosenPrepare
<1>4. CASE \E p \in Paths : Execute(p)
  <2>1. PICK p \in Paths : Steps(p)
    BY <1>2, <1>4, ExecuteSteps
  <2>2. recent' = recent /\ \A q \in Paths : pc'[q] = Idle <=> pc[q] = Idle
    BY <1>2, <2>1 DEF Steps, worldVars, TypeOK
  <2> QED BY <1>1, <1>2, <2>2, ChosenSame
<1>5. CASE Others
  <2>1. pc' = pc /\ recent \subseteq recent'
    BY <1>5 DEF Others, Rewrite, LockByOther, Occupy
  <2> QED BY <1>1, <1>2, <2>1, ChosenSame
<1>6. CASE UNCHANGED vars
  BY <1>1, <1>2, <1>6, ChosenSame DEF vars
<1> QED
  BY <1>3, <1>4, <1>5, <1>6 DEF Next

LEMMA ChoiceHolds ==
  Spec => [](Found => Chosen)
<1>1. Init => (Found => Chosen)
  BY ChosenInit
<1> QED
  BY <1>1, ChosenNext, InvariantHolds, PTL DEF Spec

\* Roots that are apart tell replicas apart as the report did.
LEMMA ReplicaIs ==
  ASSUME scenario \in 1..Len(Scenarios), Found, RootsApart, NEW p \in Paths, NEW q \in Paths
  PROVE  /\ ReplicaOf(p) = ReplicaOf(q) => OneReplica(p, q, Nodes)
         /\ UnderRoot[p] \cap UnderRoot[q] # {} => OneReplica(p, q, Nodes)
<1>1. \A x \in Paths : Nodes[x] = InodeOf(Dir0, x)
  BY FoundIs DEF Nodes
<1>2. \A x \in Paths : RootOf(x) = 0 <=> UnderRoot[x] = {}
  <2> SUFFICES ASSUME NEW x \in Paths PROVE RootOf(x) = 0 <=> UnderRoot[x] = {}
    OBVIOUS
  <2>1. CASE RootOf(x) = 0
    <3>1. \A i \in 1..Len(Roots) : Roots[i] \notin UnderRoot[x]
      BY <2>1, RootOfIs
    <3>2. ToSet(Roots) = {Roots[i] : i \in 1..Len(Roots)}
      BY DEF ToSet
    <3> QED BY <2>1, <3>1, <3>2 DEF RootsApart
  <2>2. CASE RootOf(x) # 0
    BY <2>2, RootOfIs
  <2> QED BY <2>1, <2>2
<1>3. ASSUME UnderRoot[p] \cap UnderRoot[q] # {} PROVE OneReplica(p, q, Nodes)
  <2>1. UnderRoot[p] = UnderRoot[q] /\ UnderRoot[p] # {}
    <3>1. PICK r : r \in UnderRoot[p] /\ r \in UnderRoot[q]
      BY <1>3
    <3>2. UnderRoot[p] = {r} /\ UnderRoot[q] = {r}
      BY <3>1 DEF RootsApart
    <3> QED BY <3>2
  <2>2. RootOf(p) = RootOf(q) /\ RootOf(p) # 0
    BY <1>2, <2>1, RootOfIs
  <2> QED BY <2>2 DEF OneReplica
<1>4. ASSUME ReplicaOf(p) = ReplicaOf(q) PROVE OneReplica(p, q, Nodes)
  <2>1. CASE UnderRoot[p] # {} /\ UnderRoot[q] # {}
    <3>1. (CHOOSE r \in UnderRoot[p] : TRUE) = (CHOOSE r \in UnderRoot[q] : TRUE)
      BY <1>4, <2>1 DEF ReplicaOf
    <3>2. (CHOOSE r \in UnderRoot[p] : TRUE) \in UnderRoot[p] /\ (CHOOSE r \in UnderRoot[q] : TRUE) \in UnderRoot[q]
      BY <2>1
    <3> QED BY <1>3, <3>1, <3>2
  <2>2. CASE UnderRoot[p] = {} /\ UnderRoot[q] = {}
    <3>1. RootOf(p) = 0 /\ RootOf(q) = 0
      BY <1>2, <2>2
    <3>2. IF MatchLinks THEN q = p ELSE Nodes[q] = Nodes[p]
      BY <1>1, <1>4, <2>2 DEF ReplicaOf
    <3> QED BY <3>1, <3>2 DEF OneReplica
  <2>3. CASE UnderRoot[p] # {} /\ UnderRoot[q] = {}
    BY <1>4, <2>3 DEF ReplicaOf
  <2>4. CASE UnderRoot[p] = {} /\ UnderRoot[q] # {}
    BY <1>4, <2>4 DEF ReplicaOf
  <2> QED BY <2>1, <2>2, <2>3, <2>4
<1> QED
  BY <1>3, <1>4

LEMMA PatternsKept ==
  ASSUME TypeOK, Kept, Chosen
  PROVE  Dropped \cap KeepMatched = {}
<1> SUFFICES ASSUME NEW p \in Dropped, p \in KeepMatched PROVE FALSE
  OBVIOUS
<1>1. PICK g \in 1..Len(Report) : p \in Members(g)
  BY DEF Dropped, Kept, Plan, Planned
<1> QED
  BY <1>1 DEF Dropped, Gone, Chosen

LEMMA WholeRoots ==
  ASSUME TypeOK, Found, Kept, Chosen, RootsApart, recent = {}, \A g \in 1..Len(Report) : Whole(g)
  PROVE  RootsWhole
<1>1. \A g \in 1..Len(Report) : Members(g) \subseteq Paths
  BY FoundIs DEF TypeOK
<1>2. ASSUME NEW g \in 1..Len(Report), NEW p \in Members(g), NEW q \in Members(g),
             UnderRoot[p] \cap UnderRoot[q] # {}, p \in Dropped
      PROVE  q \in Dropped
  <2>1. OneReplica(p, q, Nodes) /\ p \in Gone(g)
    BY <1>1, <1>2, ReplicaIs DEF TypeOK, Dropped, Gone
  <2>2. q \in Gone(g)
    BY <2>1 DEF Chosen
  <2> QED BY <1>1, <2>2 DEF Gone, Dropped
<1>3. \A g \in 1..Len(Report) : \A p, q \in Members(g) :
        UnderRoot[p] \cap UnderRoot[q] # {} => (p \in Dropped <=> q \in Dropped)
  BY <1>2
<1> QED
  BY <1>3, PatternsKept DEF RootsWhole

LEMMA ReplicasStay ==
  ASSUME TypeOK, Found, Kept, Chosen, RootsApart
  PROVE  ReplicasKept
<1> SUFFICES ASSUME recent = {}, NEW g \in (1..Len(Report)) \ overtaken
             PROVE  Cardinality({ReplicaOf(p) : p \in {q \in Members(g) : Untouched(q)}}) >=
                      Min({Max({1, RfOver}), Cardinality({ReplicaOf(p) : p \in Members(g)})})
  BY DEF ReplicasKept
<1> DEFINE Stay == {q \in Members(g) : Untouched(q)}
           before == {ReplicaOf(p) : p \in Members(g)}
           after == {ReplicaOf(p) : p \in Stay}
<1>1. Members(g) \subseteq Paths /\ IsFiniteSet(Members(g))
  BY PartsIs, ToSetIs DEF TypeOK, Members
<1>2. \A q \in Members(g) : q \notin Gone(g) <=> q \in Stay
  <2> SUFFICES ASSUME NEW q \in Members(g) PROVE q \notin Gone(g) <=> Untouched(q)
    OBVIOUS
  <2>1. CASE pc[q] = Idle
    <3>1. dir[q] = Dir0[q] /\ Dir0[q] = FileEntry(Node(q))
      BY <1>1, <2>1, FoundIs DEF Kept, Placed, Fine, Place, Here, BeforeMove, TypeOK
    <3>2. data[Node(q)] = Original(q)
      BY <1>1, CalmIs DEF Kept, Bodies
    <3> QED BY <2>1, <3>1, <3>2, ReadsIs DEF Gone, Untouched
  <2>2. CASE pc[q] # Idle
    BY <2>2 DEF Gone, Untouched
  <2> QED BY <2>1, <2>2
<1>3. /\ Cardinality(before) \in Nat /\ IsFiniteSet(after) /\ Cardinality(after) \in Nat
      /\ after \subseteq before
  <2>1. [p \in Members(g) |-> ReplicaOf(p)] \in Surjection(Members(g), before)
    BY DEF Surjection
  <2>2. after \in SUBSET before
    OBVIOUS
  <2> HIDE DEF before, after
  <2> QED BY <1>1, <2>1, <2>2, FS_Surjection, FS_Subset, FS_CardinalityType
<1>4. /\ ToKeep = Max({1, RfOver}) /\ ToKeep \in Nat
      /\ Min({ToKeep, Cardinality(before)}) <= ToKeep
      /\ Min({ToKeep, Cardinality(before)}) <= Cardinality(before)
      /\ Min({ToKeep, Cardinality(before)}) \in Nat
  <2>1. \A a, b \in Int : Max({a, b}) = IF a >= b THEN a ELSE b
    BY DEF Max
  <2>2. \A a, b \in Int : Min({a, b}) = IF a <= b THEN a ELSE b
    BY DEF Min
  <2>3. RfOver \in Nat
    BY ScenarioTyped DEF TypeOK
  <2>4. ToKeep \in Nat
    BY <2>1, <2>3 DEF ToKeep
  <2>5. ToKeep = Max({1, RfOver})
    BY DEF ToKeep
  <2> DEFINE many == Cardinality(before)
  <2>6. many \in Nat
    BY <1>3
  <2> HIDE DEF many
  <2>7. Min({ToKeep, many}) = IF ToKeep <= many THEN ToKeep ELSE many
    BY <2>2, <2>4, <2>6
  <2>8. Min({ToKeep, many}) <= ToKeep /\ Min({ToKeep, many}) <= many /\ Min({ToKeep, many}) \in Nat
    BY <2>4, <2>6, <2>7
  <2> QED BY <2>4, <2>5, <2>8 DEF many
<1>5. CASE Gone(g) = {}
  <2>1. Stay = Members(g)
    BY <1>2, <1>5
  <2>2. after = before
    BY <2>1
  <2> HIDE DEF before, after
  <2> QED BY <1>3, <1>4, <2>2 DEF before, after
<1>6. CASE Gone(g) # {}
  <2>1. PICK f \in [1..ToKeep -> Members(g)] :
           /\ \A k \in 1..ToKeep : f[k] \notin Gone(g)
           /\ \A j, k \in 1..ToKeep : j # k => ~OneReplica(f[j], f[k], Nodes)
    BY <1>6 DEF Chosen, Replicated
  <2> DEFINE h == [k \in 1..ToKeep |-> ReplicaOf(f[k])]
  <2>2. \A k \in 1..ToKeep : f[k] \in Stay /\ f[k] \in Paths
    BY <1>1, <1>2, <2>1
  <2>3. \A k \in 1..ToKeep : h[k] \in after
    BY <2>2
  <2>4. \A j, k \in 1..ToKeep : h[j] = h[k] => j = k
    BY <2>1, <2>2, ReplicaIs DEF TypeOK
  <2>5. h \in Injection(1..ToKeep, after)
    <3> HIDE DEF after
    <3> QED BY <2>3, <2>4 DEF Injection, IsInjective
  <2>6. Cardinality(1..ToKeep) = ToKeep
    BY <1>4, FS_Interval
  <2>7. ToKeep <= Cardinality(after)
    <3> HIDE DEF after, h
    <3> QED BY <1>3, <2>5, <2>6, FS_Injection
  <2> HIDE DEF after, before
  <2> QED BY <1>3, <1>4, <2>7 DEF after, before
<1> QED
  BY <1>5, <1>6

\* As many replicas stay untouched as the user asks for, or as there were: for any
\* roots, links, patterns and priorities, whatever fails, at any step, if no file was
\* written to before its group was divided, in every group that is not written to later.
THEOREM KeepsReplicas ==
  Spec => [](Found /\ RootsApart => ReplicasKept)
<1>1. IInv /\ (Found => Chosen) => (Found /\ RootsApart => ReplicasKept)
  BY ReplicasStay DEF IInv
<1> QED
  BY <1>1, InvariantHolds, ChoiceHolds, PTL

\* Files of one root are dropped together or not at all, where groups are divided as
\* a whole and no file was written to before.
THEOREM KeepsRootsWhole ==
  Spec => [](Found /\ RootsApart /\ recent = {} /\ (\A g \in 1..Len(Report) : Whole(g)) => RootsWhole)
<1>1. IInv /\ (Found => Chosen) =>
        (Found /\ RootsApart /\ recent = {} /\ (\A g \in 1..Len(Report) : Whole(g)) => RootsWhole)
  BY WholeRoots DEF IInv
<1> QED
  BY <1>1, InvariantHolds, ChoiceHolds, PTL

LEMMA FirstDecides ==
  ASSUME TypeOK, Found, Kept, Chosen, recent = {}, \A g \in 1..Len(Report) : Whole(g),
         Priority # <<>> => Priority[1] \notin {"top", "bottom"}
  PROVE  FirstPriorityDecides
<1> SUFFICES ASSUME Priority # <<>>, NEW g \in prepared, Plain(g),
                    NEW p \in Members(g) \cap Dropped, NEW q \in Members(g) \ Dropped
             PROVE  FirstRank(g, q) <= FirstRank(g, p)
  BY DEF FirstPriorityDecides
<1>1. g \in 1..Len(Report) /\ Members(g) \subseteq Paths
  BY FoundIs DEF TypeOK
<1>2. Unrelated(Members(g), Nodes)
  <2>1. \A z \in Members(g) : Nodes[z] = InodeOf(Dir0, z)
    BY <1>1, FoundIs DEF Nodes, TypeOK
  <2> QED BY <2>1 DEF Plain, Unrelated
<1>3. p \in Gone(g) /\ q \in Members(g) \ Gone(g)
  BY <1>1 DEF Gone, Dropped
<1>4. SortKey(Priority[1], <<q>>) <= SortKey(Priority[1], <<p>>)
  BY <1>1, <1>2, <1>3 DEF Chosen, Behind, FirstHasKey
<1>5. \A r : FirstRank(g, r) = SortKey(Priority[1], <<r>>)
  BY DEF FirstRank
<1> QED
  BY <1>4, <1>5

\* A first priority that compares times or depths decides what is dropped, whatever
\* comes after it.  One that keeps or reverses the order need not.
THEOREM KeyedPriorityDecides ==
  Spec => [](/\ Found /\ recent = {} /\ \A g \in 1..Len(Report) : Whole(g)
             /\ Priority # <<>> => Priority[1] \notin {"top", "bottom"}
             => FirstPriorityDecides)
<1>1. IInv /\ (Found => Chosen) =>
        (/\ Found /\ recent = {} /\ \A g \in 1..Len(Report) : Whole(g)
         /\ Priority # <<>> => Priority[1] \notin {"top", "bottom"}
         => FirstPriorityDecides)
  BY FirstDecides DEF IInv
<1> QED
  BY <1>1, InvariantHolds, ChoiceHolds, PTL

=============================================================================
