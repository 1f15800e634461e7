----------------------------- MODULE DataProofs -----------------------------
(***************************************************************************)
(* What the loops over lists and bytes compute, for every input: the       *)
(* theorems about Selection and Paths.                                     *)
(*                                                                         *)
(* A loop is a recursive function in the model, that is, a CHOOSE among    *)
(* the functions that satisfy the equation of the loop; LoopExists says    *)
(* that there is one.  Induction on the turns of a loop is NatInduction,   *)
(* a theorem about sets of numbers.                                        *)
(***************************************************************************)
EXTENDS Selection, Paths, FiniteSetTheorems, WellFoundedInduction, TLAPS

(***************************************************************************)
(* Induction and loops.                                                    *)
(***************************************************************************)

\* A set of numbers with 0 in it, closed under adding 1, has every number.
LEMMA NatInductionOnSets ==
    ASSUME NEW S, 0 \in S, \A n \in Nat : n \in S => n + 1 \in S
    PROVE  \A n \in Nat : n \in S
<1> SUFFICES ASSUME \E n \in Nat : n \notin S PROVE FALSE
  OBVIOUS
<1> DEFINE T == Nat \ S
<1>1. T \in SUBSET Nat /\ T # {}
  OBVIOUS
<1>2. PICK m \in T : \A n \in T : ~ (<<n, m>> \in OpToRel(<, Nat))
  <2> HIDE DEF T
  <2>1. \E m \in T : \A n \in T : ~ (<<n, m>> \in OpToRel(<, Nat))
    BY <1>1, WFMin, NatLessThanWellFounded, Zenon
  <2> QED BY <2>1, Zenon
<1>3. \A n \in T : ~(n < m)
  BY <1>2, Zenon DEF OpToRel
<1>4. m \in Nat /\ m # 0 /\ m - 1 \in Nat /\ m - 1 < m /\ (m - 1) + 1 = m
  OBVIOUS
<1>5. m - 1 \in S
  BY <1>3, <1>4
<1> QED BY <1>4, <1>5

\* f is the course of a loop: its value before the first turn and after each.
IsCourse(f, n, base, step) ==
    \A k \in 0 .. n : f[k] = IF k = 0 THEN base ELSE step[k][f[k - 1]]

\* The same for a loop that takes the first thing as it is.
IsCourseFromOne(f, n, base, step) ==
    \A k \in 1 .. n : f[k] = IF k = 1 THEN base ELSE step[k][f[k - 1]]

\* A loop over n things whose turns stay within V has a course: there is a
\* function from the turn to the value after it.
LEMMA LoopExists ==
    ASSUME NEW V, NEW base \in V, NEW n \in Nat, NEW step \in [1 .. n -> [V -> V]]
    PROVE  \E f \in [0 .. n -> V] : IsCourse(f, n, base, step)
<1> DEFINE Good(f, m) == \A k \in 0 .. m : f[k] = IF k = 0 THEN base ELSE step[k][f[k - 1]]
           S == {m \in Nat : m <= n => \E f \in [0 .. m -> V] : Good(f, m)}
<1>1. 0 \in S
  <2> DEFINE f == [k \in 0 .. 0 |-> base]
  <2>1. f \in [0 .. 0 -> V] /\ Good(f, 0)
    OBVIOUS
  <2> QED BY <2>1
<1>2. ASSUME NEW m \in Nat, m \in S PROVE m + 1 \in S
  <2> SUFFICES ASSUME m + 1 <= n PROVE \E f \in [0 .. m + 1 -> V] : Good(f, m + 1)
    OBVIOUS
  <2>1. PICK f \in [0 .. m -> V] : Good(f, m)
    BY <1>2
  <2> DEFINE g == [k \in 0 .. m + 1 |-> IF k = m + 1 THEN step[m + 1][f[m]] ELSE f[k]]
  <2>2. step[m + 1][f[m]] \in V
    OBVIOUS
  <2>3. g \in [0 .. m + 1 -> V]
    BY <2>2
  <2>4. ASSUME NEW k \in 0 .. m + 1
        PROVE  g[k] = IF k = 0 THEN base ELSE step[k][g[k - 1]]
    <3>1. CASE k = m + 1
      BY <3>1
    <3>2. CASE k # m + 1
      <4>1. k \in 0 .. m /\ g[k] = f[k] /\ (k # 0 => k - 1 \in 0 .. m /\ g[k - 1] = f[k - 1])
        BY <3>2
      <4>2. f[k] = IF k = 0 THEN base ELSE step[k][f[k - 1]]
        BY <2>1, <4>1
      <4> QED BY <4>1, <4>2
    <3> QED BY <3>1, <3>2
  <2>5. Good(g, m + 1)
    BY <2>4
  <2> QED BY <2>3, <2>5
<1>3. n \in S
  <2> HIDE DEF S
  <2> QED BY <1>1, <1>2, NatInductionOnSets
<1> QED BY <1>3 DEF IsCourse

LEMMA LoopFromOneExists ==
    ASSUME NEW V, NEW base \in V, NEW n \in Nat, NEW step \in [1 .. n -> [V -> V]]
    PROVE  \E f \in [1 .. n -> V] : IsCourseFromOne(f, n, base, step)
<1> DEFINE first == [k \in 1 .. n |-> IF k = 1 THEN [v \in V |-> base] ELSE step[k]]
<1>1. first \in [1 .. n -> [V -> V]]
  OBVIOUS
<1>2. PICK f \in [0 .. n -> V] : IsCourse(f, n, base, first)
  <2> HIDE DEF first
  <2> QED BY <1>1, LoopExists, Zenon
<1> DEFINE g == [k \in 1 .. n |-> f[k]]
<1>3. ASSUME NEW k \in 1 .. n
      PROVE  g[k] = IF k = 1 THEN base ELSE step[k][g[k - 1]]
  <2>1. f[k] = first[k][f[k - 1]]
    <3> HIDE DEF first
    <3> QED BY <1>2 DEF IsCourse
  <2>2. f[k - 1] \in V
    OBVIOUS
  <2>3. CASE k = 1
    BY <2>1, <2>2, <2>3
  <2>4. CASE k # 1
    BY <2>1, <2>4
  <2> QED BY <2>3, <2>4
<1>4. g \in [1 .. n -> V]
  OBVIOUS
<1> HIDE DEF g
<1> QED BY <1>3, <1>4 DEF IsCourseFromOne

(***************************************************************************)
(* The lists of snapshots.                                                 *)
(***************************************************************************)

Snap == [name : Int, created : Time]

Distinct(s) == \A i, j \in 1 .. Len(s) : s[i].name = s[j].name => i = j

ListInv ==
    /\ list \in Seq(Snap)
    /\ Distinct(list)
    /\ now \in Time

LEMMA ListInvariant == ListSpec => []ListInv
<1>1. ListInit => ListInv
  BY SelectionAssumption DEF ListInit, ListInv, Distinct
<1>2. ListInv /\ [ListNext]_<<list, now>> => ListInv'
  <2> SUFFICES ASSUME ListInv, [ListNext]_<<list, now>> PROVE ListInv'
    OBVIOUS
  <2> USE DEF ListInv
  <2>1. CASE ListNext
    <3>1. PICK n \in Names : \E t \in Times : AddLine([name |-> n, created |-> t])
      BY <2>1 DEF ListNext
    <3>2. PICK t \in Times : AddLine([name |-> n, created |-> t])
      BY <3>1
    <3> DEFINE s == [name |-> n, created |-> t]
    <3>3. s \in Snap
      BY SelectionAssumption DEF Snap
    <3>4. list' = Append(list, s) /\ now' = now
          /\ \A i \in 1 .. Len(list) : list[i].name # s.name
      BY <3>2 DEF AddLine
    <3> HIDE DEF s
    <3>5. list' \in Seq(Snap) /\ Len(list') = Len(list) + 1
          /\ \A i \in 1 .. Len(list) + 1 : list'[i] = IF i <= Len(list) THEN list[i] ELSE s
      BY <3>3, <3>4
    <3>6. Distinct(list)'
      BY <3>4, <3>5 DEF Distinct
    <3> QED BY <3>4, <3>5, <3>6
  <2>2. CASE UNCHANGED <<list, now>>
    BY <2>2 DEF Distinct
  <2> QED BY <2>1, <2>2
<1> QED BY <1>1, <1>2, PTL DEF ListSpec

\* NewerThan is an order in which any two snapshots of different names compare.
LEMMA NewerIsOrder ==
    ASSUME NEW r \in Snap, NEW s \in Snap, NEW t \in Snap
    PROVE  /\ ~NewerThan(s, s)
           /\ NewerThan(r, s) /\ NewerThan(s, t) => NewerThan(r, t)
           /\ NewerThan(r, s) => ~NewerThan(s, r)
           /\ r.name # s.name => NewerThan(r, s) \/ NewerThan(s, r)
BY DEF Snap, Time, NewerThan, Before

LEMMA LatestIsFound ==
    ASSUME NEW s \in Seq(Snap), Distinct(s), s # <<>>
    PROVE  IsLatest(LatestWithPrefix(s), ToSet(s))
<1> DEFINE n == Len(s)
           IsPass(f) == f = [k \in 1 .. n |->
                            IF k = 1 \/ Better(s[k], f[k - 1]) THEN s[k] ELSE f[k - 1]]
           best == CHOOSE f : IsPass(f)
<1>1. n \in Nat /\ n >= 1 /\ \A i \in 1 .. n : s[i] \in Snap
  OBVIOUS
<1>2. \E f : IsPass(f)
  <2> DEFINE step == [k \in 1 .. n |-> [b \in Snap |-> IF Better(s[k], b) THEN s[k] ELSE b]]
  <2>1. step \in [1 .. n -> [Snap -> Snap]]
    BY <1>1
  <2>2. s[1] \in Snap
    BY <1>1
  <2>3. PICK f \in [1 .. n -> Snap] : IsCourseFromOne(f, n, s[1], step)
    <3> HIDE DEF step, n
    <3> QED BY <1>1, <2>1, <2>2, LoopFromOneExists, Zenon
  <2>4. IsPass(f)
    <3> HIDE DEF n
    <3>1. ASSUME NEW k \in 1 .. n
          PROVE  f[k] = IF k = 1 \/ Better(s[k], f[k - 1]) THEN s[k] ELSE f[k - 1]
      <4>1. CASE k = 1
        BY <2>3, <4>1 DEF IsCourseFromOne
      <4>2. CASE k # 1
        <5>1. k - 1 \in 1 .. n /\ f[k - 1] \in Snap
          BY <1>1, <4>2
        <5>2. f[k] = step[k][f[k - 1]]
          BY <2>3, <4>2 DEF IsCourseFromOne
        <5> QED BY <4>2, <5>1, <5>2
      <4> QED BY <4>1, <4>2
    <3> QED BY <2>3, <3>1
  <2> QED BY <2>4
<1>3. IsPass(best)
  BY <1>2, Zenon
<1>4. LatestWithPrefix(s) = best[n]
  BY DEF LatestWithPrefix
<1> HIDE DEF best, n
<1> DEFINE Found(k) == /\ \E i \in 1 .. k : best[k] = s[i]
                       /\ \A i \in 1 .. k : s[i] # best[k] => NewerThan(best[k], s[i])
           S == {k \in Nat : k + 1 <= n => Found(k + 1)}
<1>5. 0 \in S
  BY <1>1, <1>3
<1>6. ASSUME NEW k \in Nat, k \in S PROVE k + 1 \in S
  <2> SUFFICES ASSUME k + 2 <= n PROVE Found(k + 2)
    OBVIOUS
  <2>1. Found(k + 1)
    BY <1>1, <1>6
  <2>2. best[k + 2] = IF Better(s[k + 2], best[k + 1]) THEN s[k + 2] ELSE best[k + 1]
    BY <1>1, <1>3
  <2>3. PICK i \in 1 .. k + 1 : best[k + 1] = s[i]
    BY <2>1
  <2>4. s[k + 2] \in Snap /\ s[i] \in Snap /\ s[i].name # s[k + 2].name
    BY <1>1, <2>3 DEF Distinct, n
  <2>5. Better(s[k + 2], best[k + 1]) <=> NewerThan(s[k + 2], best[k + 1])
    BY <2>3, <2>4 DEF Better, NewerThan, Snap
  <2>6. CASE Better(s[k + 2], best[k + 1])
    <3>1. best[k + 2] = s[k + 2]
      BY <2>2, <2>6
    <3>2. ASSUME NEW j \in 1 .. k + 2, s[j] # best[k + 2] PROVE NewerThan(best[k + 2], s[j])
      <4>1. j \in 1 .. k + 1 /\ s[j] \in Snap
        BY <1>1, <3>1, <3>2
      <4>2. s[j] = s[i] \/ NewerThan(s[i], s[j])
        BY <2>1, <2>3, <4>1
      <4> QED BY <2>3, <2>4, <2>5, <2>6, <3>1, <4>1, <4>2, NewerIsOrder
    <3> QED BY <3>1, <3>2
  <2>7. CASE ~Better(s[k + 2], best[k + 1])
    <3>1. best[k + 2] = s[i]
      BY <2>2, <2>3, <2>7
    <3>2. NewerThan(s[i], s[k + 2])
      BY <2>3, <2>4, <2>5, <2>7, NewerIsOrder
    <3>3. ASSUME NEW j \in 1 .. k + 2, s[j] # best[k + 2] PROVE NewerThan(best[k + 2], s[j])
      <4>1. CASE j = k + 2
        BY <3>1, <3>2, <4>1
      <4>2. CASE j # k + 2
        BY <2>1, <2>3, <3>1, <3>3, <4>2
      <4> QED BY <4>1, <4>2
    <3> QED BY <3>1, <3>3
  <2> QED BY <2>6, <2>7
<1>7. n - 1 \in Nat /\ n - 1 \in S
  <2> HIDE DEF S
  <2> QED BY <1>1, <1>5, <1>6, NatInductionOnSets
<1>8. Found(n)
  BY <1>1, <1>7
<1> QED BY <1>4, <1>8 DEF IsLatest, ToSet, n

\* The pass of LatestWithPrefix over the lines of `zfs list` finds the newest
\* snapshot, however many there are and in whatever order they are printed.
THEOREM LatestIsTheNewest == ListSpec => []SameLatest
<1>1. ListInv => SameLatest
  BY LatestIsFound DEF ListInv, SameLatest, Listed
<1> QED BY <1>1, ListInvariant, PTL

(***************************************************************************)
(* The even sample.                                                        *)
(***************************************************************************)

\* What a division leaves is smaller than the divisor.
LEMMA DivisionLeavesLess ==
    ASSUME NEW a \in Nat, NEW m \in Nat \ {0}
    PROVE  /\ a \div m \in Nat
           /\ m * (a \div m) <= a
           /\ a < m * (a \div m) + m
<1>1. a = m * (a \div m) + (a % m) /\ a % m \in 0 .. m - 1 /\ a \div m \in Int
  OBVIOUS
<1>2. a \div m \in Nat
  OBVIOUS
<1> QED BY <1>1, <1>2

\* Two multiples of m that lie less than twice m apart are neighbours.
LEMMA MultiplesAreApart ==
    ASSUME NEW m \in Nat \ {0}, NEW d \in Int, NEW c \in Nat, m * d < c * m
    PROVE  d < c
<1>1. CASE d >= c
  <2>1. m * d >= m * c
    BY <1>1
  <2>2. m * c = c * m /\ m * d \in Int /\ m * c \in Int
    OBVIOUS
  <2> QED BY <2>1, <2>2
<1> QED BY <1>1

LEMMA SampleSteps ==
    ASSUME NEW m \in Nat \ {0}, NEW n \in Nat, n > m, NEW i \in Nat
    PROVE  /\ SampleIndex(i, n, m) \in Nat
           /\ SampleIndex(i + 1, n, m) \in Nat
           /\ SampleIndex(i, n, m) < SampleIndex(i + 1, n, m)
           /\ n - m < m * (SampleIndex(i + 1, n, m) - SampleIndex(i, n, m))
           /\ m * (SampleIndex(i + 1, n, m) - SampleIndex(i, n, m)) < n + m
<1> DEFINE a == i * n
           p == a \div m
           q == (a + n) \div m
<1>1. a \in Nat /\ (i + 1) * n = a + n
  OBVIOUS
<1>2. SampleIndex(i, n, m) = p /\ SampleIndex(i + 1, n, m) = q
  BY <1>1 DEF SampleIndex
<1>3. p \in Nat /\ m * p <= a /\ a < m * p + m
  <2> HIDE DEF a
  <2> QED BY <1>1, DivisionLeavesLess
<1>4. q \in Nat /\ m * q <= a + n /\ a + n < m * q + m
  <2>1. a + n \in Nat
    BY <1>1
  <2> HIDE DEF a
  <2> QED BY <2>1, DivisionLeavesLess
<1> HIDE DEF a, p, q
<1>5. m * (q - p) = m * q - m * p /\ m * p \in Nat /\ m * q \in Nat
  BY <1>3, <1>4
<1>6. n - m < m * (q - p) /\ m * (q - p) < n + m
  BY <1>1, <1>3, <1>4, <1>5
<1>7. p < q
  <2> SUFFICES ASSUME ~(p < q) PROVE FALSE
    OBVIOUS
  <2>1. m * (q - p) <= 0 /\ m * (q - p) \in Int
    BY <1>3, <1>4
  <2> QED BY <1>6, <2>1
<1> QED BY <1>2, <1>3, <1>4, <1>6, <1>7

\* A later step takes a later photo.
LEMMA SampleClimbs ==
    ASSUME NEW m \in Nat \ {0}, NEW n \in Nat, n > m, NEW i \in Nat, NEW j \in Nat, i < j
    PROVE  SampleIndex(i, n, m) < SampleIndex(j, n, m)
<1> DEFINE at(k) == SampleIndex(k, n, m)
           S == {k \in Nat : at(i) < at(i + 1 + k)}
<1>1. \A k \in Nat : at(k) \in Nat /\ at(k + 1) \in Nat /\ at(k) < at(k + 1)
  BY SampleSteps
<1> HIDE DEF at
<1>2. 0 \in S
  BY <1>1
<1>3. ASSUME NEW k \in Nat, k \in S PROVE k + 1 \in S
  <2>1. i + 1 + k \in Nat /\ (i + 1 + k) + 1 = i + 1 + (k + 1)
    OBVIOUS
  <2>2. at(i + 1 + k) < at(i + 1 + (k + 1)) /\ at(i + 1 + k) \in Nat
        /\ at(i + 1 + (k + 1)) \in Nat /\ at(i) \in Nat
    BY <1>1, <2>1
  <2> QED BY <1>3, <2>2
<1>4. j - i - 1 \in Nat /\ i + 1 + (j - i - 1) = j
  OBVIOUS
<1>5. j - i - 1 \in S
  <2> HIDE DEF S
  <2> QED BY <1>2, <1>3, <1>4, NatInductionOnSets
<1> QED BY <1>4, <1>5 DEF at

LEMMA SampleIsEven ==
    ASSUME NEW s \in Seq(Snap), Distinct(s), NEW m \in Nat \ {0}, Len(s) > m
    PROVE  LET at(i) == SampleIndex(i, Len(s), m)
           IN  /\ \A i \in 0 .. m - 1 : at(i) \in 0 .. Len(s) - 1
               /\ IsInjective(EvenSample(s, m))
               /\ \A i, j \in 0 .. m - 2 :
                    (at(i + 1) - at(i)) - (at(j + 1) - at(j)) \in -1 .. 1
<1> DEFINE n == Len(s)
           at(i) == SampleIndex(i, n, m)
<1>1. n \in Nat /\ n > m
  OBVIOUS
<1>2. ASSUME NEW i \in 0 .. m - 1 PROVE at(i) \in 0 .. n - 1
  <2>1. i \in Nat /\ i * n \in Nat
    BY <1>1
  <2>2. i * n <= m * n - n
    <3>1. i * n <= (m - 1) * n
      BY <1>1
    <3> QED BY <1>1, <3>1
  <2>3. at(i) \in Nat /\ m * at(i) <= i * n
    <3> HIDE DEF n
    <3> QED BY <1>1, <2>1, DivisionLeavesLess DEF SampleIndex
  <2> HIDE DEF at, n
  <2>4. m * at(i) < n * m
    BY <1>1, <2>1, <2>2, <2>3
  <2>5. at(i) < n
    BY <1>1, <2>3, <2>4, MultiplesAreApart
  <2> QED BY <1>1, <2>3, <2>5
<1>3. IsInjective(EvenSample(s, m))
  <2>1. EvenSample(s, m) = [i \in 1 .. m |-> s[at(i - 1) + 1]]
    BY <1>1 DEF EvenSample
  <2>2. ASSUME NEW i \in 1 .. m, NEW j \in 1 .. m, i < j
        PROVE  s[at(i - 1) + 1] # s[at(j - 1) + 1]
    <3>1. at(i - 1) \in 0 .. n - 1 /\ at(j - 1) \in 0 .. n - 1
      BY <1>2
    <3>2. at(i - 1) < at(j - 1)
      <4>1. i - 1 \in Nat /\ j - 1 \in Nat /\ i - 1 < j - 1
        BY <2>2
      <4> HIDE DEF n
      <4> QED BY <1>1, <4>1, SampleClimbs
    <3> HIDE DEF at
    <3> QED BY <3>1, <3>2 DEF Distinct
  <2> DEFINE t == EvenSample(s, m)
  <2>3. DOMAIN t = 1 .. m /\ \A i \in 1 .. m : t[i] = s[at(i - 1) + 1]
    BY <2>1
  <2> HIDE DEF at, n, t
  <2>4. \A i, j \in 1 .. m : t[i] = t[j] => i = j
    BY <2>2, <2>3, SMTT(30)
  <2>5. IsInjective(t)
    BY <2>3, <2>4 DEF IsInjective
  <2> QED BY <2>5 DEF t
<1>4. ASSUME NEW i \in 0 .. m - 2, NEW j \in 0 .. m - 2
      PROVE  (at(i + 1) - at(i)) - (at(j + 1) - at(j)) \in -1 .. 1
  <2> DEFINE d == at(i + 1) - at(i)
             e == at(j + 1) - at(j)
  <2>1. \A k \in Nat : /\ at(k) \in Nat /\ at(k + 1) \in Nat
                        /\ n - m < m * (at(k + 1) - at(k)) /\ m * (at(k + 1) - at(k)) < n + m
    <3> HIDE DEF n
    <3> QED BY <1>1, SampleSteps
  <2> HIDE DEF at
  <2>2. i \in Nat /\ j \in Nat
    OBVIOUS
  <2>3. d \in Int /\ n - m < m * d /\ m * d < n + m
    <3>1. at(i) \in Nat /\ at(i + 1) \in Nat
      BY <2>1, <2>2
    <3>2. n - m < m * d /\ m * d < n + m
      BY <2>1, <2>2, Zenon
    <3> QED BY <3>1, <3>2
  <2>4. e \in Int /\ n - m < m * e /\ m * e < n + m
    <3>1. at(j) \in Nat /\ at(j + 1) \in Nat
      BY <2>1, <2>2
    <3>2. n - m < m * e /\ m * e < n + m
      BY <2>1, <2>2, Zenon
    <3> QED BY <3>1, <3>2
  <2> HIDE DEF d, e, n
  <2>5. m * (d - e) = m * d - m * e /\ m * (e - d) = m * e - m * d
        /\ m * d \in Int /\ m * e \in Int
    BY <2>3, <2>4
  <2>6. m * (d - e) < 2 * m /\ m * (e - d) < 2 * m
    BY <1>1, <2>3, <2>4, <2>5
  <2>7. d - e < 2 /\ e - d < 2
    BY <2>3, <2>4, <2>6, MultiplesAreApart
  <2>8. d - e \in -1 .. 1
    BY <2>3, <2>4, <2>7
  <2> QED BY <2>8 DEF d, e
<1> QED BY <1>2, <1>3, <1>4

\* evenSample reads no place past the list, takes no photo twice, and its gaps
\* differ by at most one, for every THUMBNAIL_MAX and every number of photos.
THEOREM SampleGapsAreEven == ListSpec => []EvenGaps
<1>1. ListInv => EvenGaps
  BY SampleIsEven, SelectionAssumption DEF ListInv, EvenGaps
<1> QED BY <1>1, ListInvariant, PTL

(***************************************************************************)
(* Sorting by insertion.                                                   *)
(***************************************************************************)

\* t is the sequence s over S with e put at place p.
IsSplice(t, s, p, e, S) ==
    /\ t \in Seq(S)
    /\ Len(t) = Len(s) + 1
    /\ \A i \in 1 .. Len(s) + 1 : t[i] = IF i < p THEN s[i] ELSE IF i = p THEN e ELSE s[i - 1]

LEMMA InsertAtIs ==
    ASSUME NEW S, NEW s \in Seq(S), NEW e \in S, NEW p \in 1 .. Len(s) + 1
    PROVE  IsSplice(InsertAt(s, p, e), s, p, e, S)
<1> DEFINE front == SubSeq(s, 1, p - 1)
           back == SubSeq(s, p, Len(s))
<1>1. front \in Seq(S) /\ Len(front) = p - 1 /\ \A i \in 1 .. p - 1 : front[i] = s[i]
  OBVIOUS
<1>2. back \in Seq(S) /\ Len(back) = Len(s) - p + 1
      /\ \A i \in 1 .. Len(s) - p + 1 : back[i] = s[i + p - 1]
  OBVIOUS
<1> HIDE DEF front, back
<1>3. InsertAt(s, p, e) = (front \o <<e>>) \o back
  BY DEF InsertAt, front, back
<1> DEFINE head == front \o <<e>>
<1>4. head \in Seq(S) /\ Len(head) = p
      /\ \A i \in 1 .. p : head[i] = IF i < p THEN s[i] ELSE e
  BY <1>1
<1> HIDE DEF head
<1>5. head \o back \in Seq(S) /\ Len(head \o back) = Len(s) + 1
      /\ \A i \in 1 .. Len(s) + 1 :
            (head \o back)[i] = IF i <= p THEN head[i] ELSE back[i - p]
  <2>1. Len(head) + Len(back) = Len(s) + 1
    BY <1>2, <1>4
  <2>2. head \o back \in Seq(S) /\ Len(head \o back) = Len(head) + Len(back)
    BY <1>2, <1>4
  <2>3. \A i \in 1 .. Len(head) + Len(back) :
            (head \o back)[i] = IF i <= Len(head) THEN head[i] ELSE back[i - Len(head)]
    BY <1>2, <1>4
  <2> QED BY <1>4, <2>1, <2>2, <2>3
<1> DEFINE both == head \o back
<1> HIDE DEF both
<1>6. ASSUME NEW i \in 1 .. Len(s) + 1
      PROVE  both[i] = IF i < p THEN s[i] ELSE IF i = p THEN e ELSE s[i - 1]
  <2>0. both[i] = IF i <= p THEN head[i] ELSE back[i - p]
    BY <1>5 DEF both
  <2>1. CASE i <= p
    BY <1>4, <2>0, <2>1
  <2>2. CASE i > p
    <3>1. i - p \in 1 .. Len(s) - p + 1 /\ (i - p) + p - 1 = i - 1
      BY <2>2
    <3>2. back[i - p] = s[i - 1]
      BY <1>2, <3>1
    <3> QED BY <2>0, <2>2, <3>2
  <2> QED BY <2>1, <2>2
<1> QED BY <1>3, <1>5, <1>6 DEF head, both, IsSplice

\* Nothing is lost or added by an insertion.
LEMMA InsertAtKeeps ==
    ASSUME NEW S, NEW s \in Seq(S), NEW e \in S, NEW p \in 1 .. Len(s) + 1
    PROVE  ToSet(InsertAt(s, p, e)) = ToSet(s) \cup {e}
<1> DEFINE t == InsertAt(s, p, e)
<1>1. t \in Seq(S) /\ Len(t) = Len(s) + 1
      /\ \A i \in 1 .. Len(s) + 1 :
            t[i] = IF i < p THEN s[i] ELSE IF i = p THEN e ELSE s[i - 1]
  <2> HIDE DEF t
  <2>1. IsSplice(t, s, p, e, S)
    BY InsertAtIs DEF t
  <2> QED BY <2>1 DEF IsSplice
<1> HIDE DEF t
<1>2. ASSUME NEW i \in 1 .. Len(s) + 1 PROVE t[i] \in ToSet(s) \cup {e}
  <2>1. CASE i < p
    BY <1>1, <2>1 DEF ToSet
  <2>2. CASE i = p
    BY <1>1, <2>2
  <2>3. CASE i > p
    BY <1>1, <2>3 DEF ToSet
  <2> QED BY <2>1, <2>2, <2>3
<1>3. ASSUME NEW i \in 1 .. Len(s) PROVE \E j \in 1 .. Len(s) + 1 : t[j] = s[i]
  <2>1. CASE i < p
    BY <1>1, <2>1
  <2>2. CASE i >= p
    <3>1. t[i + 1] = s[i]
      BY <1>1, <2>2
    <3> QED BY <3>1
  <2> QED BY <2>1, <2>2
<1>4. t[p] = e
  BY <1>1
<1>5. ToSet(t) \subseteq ToSet(s) \cup {e}
  BY <1>1, <1>2 DEF ToSet
<1>6. ToSet(s) \cup {e} \subseteq ToSet(t)
  <2>1. DOMAIN s = 1 .. Len(s) /\ DOMAIN t = 1 .. Len(s) + 1
    BY <1>1
  <2>2. ToSet(s) \subseteq ToSet(t)
    BY <1>3, <2>1 DEF ToSet
  <2>3. e \in ToSet(t)
    BY <1>4, <2>1 DEF ToSet
  <2> QED BY <2>2, <2>3
<1> QED BY <1>5, <1>6 DEF t

\* As many places as a test on the numbers up to n has, or fewer.
LEMMA PlacesAreFew ==
    ASSUME NEW n \in Nat, NEW T \in SUBSET (1 .. n)
    PROVE  Cardinality(T) \in 0 .. n
<1>1. IsFiniteSet(1 .. n) /\ Cardinality(1 .. n) = n
  BY FS_Interval
<1>2. IsFiniteSet(T) /\ Cardinality(T) <= n
  BY <1>1, FS_Subset
<1>3. Cardinality(T) \in Nat
  BY <1>2, FS_CardinalityType
<1> QED BY <1>2, <1>3

\* A turn of the sort: the file comes before those it is earlier than.
Inserted(v, file) ==
    InsertAt(v, Cardinality({i \in DOMAIN v : ~Earlier(file, v[i])}) + 1, file)

LEMMA InsertedIsSeq ==
    ASSUME NEW S, NEW v \in Seq(S), NEW file \in S
    PROVE  /\ Inserted(v, file) \in Seq(S)
           /\ Len(Inserted(v, file)) = Len(v) + 1
           /\ ToSet(Inserted(v, file)) = ToSet(v) \cup {file}
<1> DEFINE T == {i \in DOMAIN v : ~Earlier(file, v[i])}
<1>1. Len(v) \in Nat /\ T \in SUBSET (1 .. Len(v))
  OBVIOUS
<1>2. Inserted(v, file) = InsertAt(v, Cardinality(T) + 1, file)
  BY DEF Inserted
<1> HIDE DEF T
<1>3. Cardinality(T) \in 0 .. Len(v)
  BY <1>1, PlacesAreFew
<1>4. Cardinality(T) + 1 \in 1 .. Len(v) + 1
  BY <1>1, <1>3
<1> QED BY <1>2, <1>4, InsertAtIs, InsertAtKeeps DEF IsSplice

LEMMA SortFilesInserts ==
    ASSUME NEW S, NEW files \in Seq(S)
    PROVE  \E f \in [0 .. Len(files) -> Seq(S)] :
              /\ f[0] = <<>>
              /\ \A k \in 1 .. Len(files) : f[k] = Inserted(f[k - 1], files[k])
              /\ SortFiles(files) = f[Len(files)]
<1> DEFINE n == Len(files)
           IsPass(f) == f = [k \in 0 .. n |->
                IF k = 0 THEN <<>> ELSE Inserted(f[k - 1], files[k])]
           sorted == CHOOSE f : IsPass(f)
           step == [k \in 1 .. n |-> [v \in Seq(S) |-> Inserted(v, files[k])]]
<1>1. SortFiles(files) = sorted[n]
  BY DEF SortFiles, Inserted
<1>2. n \in Nat /\ \A k \in 1 .. n : files[k] \in S
  OBVIOUS
<1> HIDE DEF n
<1>3. step \in [1 .. n -> [Seq(S) -> Seq(S)]]
  BY <1>2, InsertedIsSeq
<1>4. << >> \in Seq(S)
  OBVIOUS
<1>5. PICK f \in [0 .. n -> Seq(S)] : IsCourse(f, n, << >>, step)
  <2> HIDE DEF step
  <2> QED BY <1>2, <1>3, <1>4, LoopExists, Zenon
<1>6. ASSUME NEW k \in 0 .. n
      PROVE  f[k] = IF k = 0 THEN <<>> ELSE Inserted(f[k - 1], files[k])
  <2>1. CASE k = 0
    BY <1>5, <2>1 DEF IsCourse
  <2>2. CASE k # 0
    <3>1. k \in 1 .. n /\ k - 1 \in 0 .. n /\ f[k - 1] \in Seq(S)
      BY <1>2, <2>2
    <3>2. f[k] = step[k][f[k - 1]]
      <4> HIDE DEF step
      <4> QED BY <1>5, <2>2 DEF IsCourse
    <3> QED BY <2>2, <3>1, <3>2
  <2> QED BY <2>1, <2>2
<1>7. IsPass(f)
  BY <1>5, <1>6
<1>8. IsPass(sorted)
  BY <1>7, Zenon
<1> HIDE DEF sorted, step
<1>9. \A k \in 0 .. n : sorted[k] = IF k = 0 THEN <<>> ELSE Inserted(sorted[k - 1], files[k])
  BY <1>8
<1> DEFINE R == {k \in Nat : k <= n => sorted[k] \in Seq(S)}
<1>10. 0 \in R
  <2>1. 0 \in 0 .. n
    BY <1>2
  <2>2. sorted[0] = <<>>
    BY <1>9, <2>1, Zenon
  <2> QED BY <1>4, <2>2
<1>11. ASSUME NEW k \in Nat, k \in R PROVE k + 1 \in R
  <2> SUFFICES ASSUME k + 1 <= n PROVE sorted[k + 1] \in Seq(S)
    OBVIOUS
  <2>1. sorted[k] \in Seq(S) /\ k + 1 \in 1 .. n /\ files[k + 1] \in S
    BY <1>2, <1>11
  <2>2. k + 1 \in 0 .. n /\ k + 1 # 0 /\ (k + 1) - 1 = k
    BY <2>1
  <2>3. sorted[k + 1] = Inserted(sorted[k], files[k + 1])
    BY <1>9, <2>2
  <2> DEFINE v == sorted[k]
             x == files[k + 1]
  <2>4. v \in Seq(S) /\ x \in S /\ sorted[k + 1] = Inserted(v, x)
    BY <2>1, <2>3
  <2> HIDE DEF v, x
  <2>5. Inserted(v, x) \in Seq(S)
    BY <2>4, InsertedIsSeq
  <2> QED BY <2>4, <2>5
<1>12. \A k \in Nat : k \in R
  <2> HIDE DEF R
  <2> QED BY <1>10, <1>11, NatInductionOnSets
<1>13. sorted \in [0 .. n -> Seq(S)]
  <2>1. \A k \in 0 .. n : sorted[k] \in Seq(S)
    BY <1>2, <1>12
  <2>2. sorted = [k \in 0 .. n |-> sorted[k]]
    BY <1>8
  <2> QED BY <2>1, <2>2
<1>14. sorted[0] = <<>> /\ \A k \in 1 .. n : sorted[k] = Inserted(sorted[k - 1], files[k])
  BY <1>2, <1>9
<1> QED BY <1>1, <1>13, <1>14 DEF n

LEMMA SortFilesKeeps ==
    ASSUME NEW S, NEW files \in Seq(S)
    PROVE  /\ SortFiles(files) \in Seq(S)
           /\ Len(SortFiles(files)) = Len(files)
           /\ ToSet(SortFiles(files)) = ToSet(files)
<1> DEFINE n == Len(files)
<1>1. n \in Nat /\ \A k \in 1 .. n : files[k] \in S
  OBVIOUS
<1>2. PICK f \in [0 .. n -> Seq(S)] :
              /\ f[0] = <<>>
              /\ \A k \in 1 .. n : f[k] = Inserted(f[k - 1], files[k])
              /\ SortFiles(files) = f[n]
  BY SortFilesInserts
<1>3. ToSet(files) = {files[i] : i \in 1 .. n}
  BY DEF ToSet
<1> HIDE DEF n
<1> DEFINE Upto(k) == Len(f[k]) = k /\ ToSet(f[k]) = {files[i] : i \in 1 .. k}
           R == {k \in Nat : k <= n => Upto(k)}
<1>4. 0 \in R
  BY <1>2 DEF ToSet
<1>5. ASSUME NEW k \in Nat, k \in R PROVE k + 1 \in R
  <2> SUFFICES ASSUME k + 1 <= n PROVE Upto(k + 1)
    OBVIOUS
  <2>1. Upto(k) /\ k + 1 \in 1 .. n /\ (k + 1) - 1 = k /\ f[k] \in Seq(S)
        /\ files[k + 1] \in S
    BY <1>1, <1>5
  <2>2. f[k + 1] = Inserted(f[k], files[k + 1])
    BY <1>2, <2>1
  <2>3. Len(f[k + 1]) = k + 1 /\ ToSet(f[k + 1]) = ToSet(f[k]) \cup {files[k + 1]}
    <3> DEFINE v == f[k]
               x == files[k + 1]
    <3>1. v \in Seq(S) /\ x \in S /\ f[k + 1] = Inserted(v, x) /\ Len(v) = k
      BY <2>1, <2>2
    <3> HIDE DEF v, x
    <3>2. Len(Inserted(v, x)) = Len(v) + 1 /\ ToSet(Inserted(v, x)) = ToSet(v) \cup {x}
      BY <3>1, InsertedIsSeq
    <3> QED BY <3>1, <3>2 DEF v, x
  <2>4. {files[i] : i \in 1 .. k} \cup {files[k + 1]} = {files[i] : i \in 1 .. k + 1}
    BY <2>1
  <2> QED BY <2>1, <2>3, <2>4
<1>6. \A k \in Nat : k \in R
  <2> HIDE DEF R
  <2> QED BY <1>4, <1>5, NatInductionOnSets
<1>7. Upto(n) /\ f[n] \in Seq(S)
  <2>1. n \in R
    <3> HIDE DEF R
    <3> QED BY <1>1, <1>6
  <2>2. n \in 0 .. n
    BY <1>1
  <2> HIDE DEF Upto
  <2> QED BY <1>1, <1>2, <2>1, <2>2
<1> QED BY <1>2, <1>3, <1>7 DEF n

(***************************************************************************)
(* The output of `zfs diff`.                                               *)
(***************************************************************************)

PathsInv ==
    /\ text \in Seq(Byte)
    /\ output \in Seq(DiffLines)
    /\ pathPrefix \in Seq(Byte)

LEMMA PathsInvariant == PathsSpec => []PathsInv
<1>1. PathsInit => PathsInv
  BY PathsAssumption DEF PathsInit, PathsInv
<1>2. PathsInv /\ [PathsNext]_<<text, output, pathPrefix>> => PathsInv'
  <2> SUFFICES ASSUME PathsInv, [PathsNext]_<<text, output, pathPrefix>> PROVE PathsInv'
    OBVIOUS
  <2> USE DEF PathsInv
  <2>1. ASSUME NEW c \in UNION Alphabets, AddByte(c) PROVE PathsInv'
    <3>1. c \in Byte
      BY PathsAssumption
    <3> QED BY <2>1, <3>1 DEF AddByte
  <2>2. ASSUME NEW line \in DiffLines, PrintLine(line) PROVE PathsInv'
    BY <2>2 DEF PrintLine
  <2>3. CASE UNCHANGED <<text, output, pathPrefix>>
    BY <2>3
  <2> QED BY <2>1, <2>2, <2>3 DEF PathsNext
<1> QED BY <1>1, <1>2, PTL DEF PathsSpec

\* The files a diff may be about, and the numbers a diff leads to.
Files == {DeletedFile(line.raw) : line \in DiffLines}

Result == [deleted : Seq(Files), dirs : Nat, other : Nat, renamed : Nat, added : Nat,
           modified : Nat, skipped : Nat, unparsed : Nat]

\* Everything that was counted somewhere.
Total(res) == RecognizedLines(res) + res.skipped + res.unparsed

LEMMA ResultHasNumbers ==
    ASSUME NEW res \in Result
    PROVE  /\ res.deleted \in Seq(Files) /\ Len(res.deleted) \in Nat
           /\ res.dirs \in Nat /\ res.other \in Nat /\ res.renamed \in Nat
           /\ res.added \in Nat /\ res.modified \in Nat
           /\ res.skipped \in Nat /\ res.unparsed \in Nat
BY DEF Result

\* One of the numbers has become one greater.
OneMore(res, after) ==
    \/ \E file \in Files : after = [res EXCEPT !.deleted = Append(@, file)]
    \/ after = [res EXCEPT !.dirs = @ + 1]
    \/ after = [res EXCEPT !.other = @ + 1]
    \/ after = [res EXCEPT !.renamed = @ + 1]
    \/ after = [res EXCEPT !.added = @ + 1]
    \/ after = [res EXCEPT !.modified = @ + 1]
    \/ after = [res EXCEPT !.skipped = @ + 1]
    \/ after = [res EXCEPT !.unparsed = @ + 1]

LEMMA OneMoreStaysResult ==
    ASSUME NEW res \in Result, NEW after, OneMore(res, after)
    PROVE  after \in Result
<1>1. ASSUME NEW file \in Files, after = [res EXCEPT !.deleted = Append(@, file)]
      PROVE  after \in Result
  <2>1. Append(res.deleted, file) \in Seq(Files)
    BY ResultHasNumbers
  <2> QED BY <1>1, <2>1 DEF Result
<1>2. CASE ~ \E file \in Files : after = [res EXCEPT !.deleted = Append(@, file)]
  BY <1>2, SMTT(30) DEF OneMore, Result
<1> QED BY <1>1, <1>2

\* What was counted altogether, with the length of the list as a number.
LEMMA TotalIsSum ==
    ASSUME NEW res \in Result, NEW x \in Nat, x = Len(res.deleted)
    PROVE  Total(res) = x + res.dirs + res.other + res.renamed + res.added + res.modified
                          + res.skipped + res.unparsed
BY DEF Total, RecognizedLines

LEMMA SumGrows ==
    ASSUME NEW x \in Nat, NEW a \in Nat, NEW b \in Nat, NEW c \in Nat, NEW d \in Nat,
           NEW e \in Nat, NEW f \in Nat, NEW g \in Nat
    PROVE  (x + 1) + a + b + c + d + e + f + g = (x + a + b + c + d + e + f + g) + 1
OBVIOUS

LEMMA OneMoreCountsOne ==
    ASSUME NEW res \in Result, NEW after, OneMore(res, after)
    PROVE  Total(after) = Total(res) + 1
<1> DEFINE x == Len(res.deleted)
           y == Len(after.deleted)
<1>1. after \in Result
  BY OneMoreStaysResult
<1>2. x \in Nat /\ y \in Nat
  BY <1>1, ResultHasNumbers
<1>3. /\ Total(res) = x + res.dirs + res.other + res.renamed + res.added + res.modified
                      + res.skipped + res.unparsed
      /\ Total(after) = y + after.dirs + after.other + after.renamed + after.added
                      + after.modified + after.skipped + after.unparsed
  BY <1>1, <1>2, TotalIsSum
<1>4. /\ res.dirs \in Nat /\ res.other \in Nat /\ res.renamed \in Nat /\ res.added \in Nat
      /\ res.modified \in Nat /\ res.skipped \in Nat /\ res.unparsed \in Nat
  BY ResultHasNumbers
<1>5. ASSUME NEW file \in Files, after = [res EXCEPT !.deleted = Append(@, file)]
      PROVE  Total(after) = Total(res) + 1
  <2>1. res.deleted \in Seq(Files) /\ after.deleted = Append(res.deleted, file)
    BY <1>5, ResultHasNumbers DEF Result
  <2>2. y = x + 1
    BY <2>1
  <2> HIDE DEF x, y
  <2>3. /\ after.dirs = res.dirs /\ after.other = res.other /\ after.renamed = res.renamed
        /\ after.added = res.added /\ after.modified = res.modified
        /\ after.skipped = res.skipped /\ after.unparsed = res.unparsed
    BY <1>5 DEF Result
  <2>4. Total(after) = (x + 1) + res.dirs + res.other + res.renamed + res.added + res.modified
                      + res.skipped + res.unparsed
    BY <1>3, <2>2, <2>3, Zenon
  <2>5. Total(res) = x + res.dirs + res.other + res.renamed + res.added + res.modified
                      + res.skipped + res.unparsed
    BY <1>3
  <2> DEFINE a == res.dirs  b == res.other  c == res.renamed  d == res.added
             e == res.modified  f == res.skipped  g == res.unparsed
  <2>6. a \in Nat /\ b \in Nat /\ c \in Nat /\ d \in Nat /\ e \in Nat /\ f \in Nat /\ g \in Nat
    BY <1>4
  <2>7. Total(after) = (x + 1) + a + b + c + d + e + f + g
        /\ Total(res) = x + a + b + c + d + e + f + g
    BY <2>4, <2>5, Zenon
  <2> HIDE DEF a, b, c, d, e, f, g
  <2> QED BY <1>2, <2>6, <2>7, SumGrows
<1>6. CASE after = [res EXCEPT !.dirs = @ + 1]
  <2>1. y = x
    BY <1>6 DEF Result
  <2> HIDE DEF x, y
  <2>2. /\ after.dirs = res.dirs + 1
        /\ after.other = res.other /\ after.renamed = res.renamed /\ after.added = res.added
        /\ after.modified = res.modified /\ after.skipped = res.skipped /\ after.unparsed = res.unparsed
    BY <1>6 DEF Result
  <2> QED BY <1>2, <1>3, <1>4, <2>1, <2>2
<1>7. CASE after = [res EXCEPT !.other = @ + 1]
  <2>1. y = x
    BY <1>7 DEF Result
  <2> HIDE DEF x, y
  <2>2. /\ after.other = res.other + 1
        /\ after.dirs = res.dirs /\ after.renamed = res.renamed /\ after.added = res.added
        /\ after.modified = res.modified /\ after.skipped = res.skipped /\ after.unparsed = res.unparsed
    BY <1>7 DEF Result
  <2> QED BY <1>2, <1>3, <1>4, <2>1, <2>2
<1>8. CASE after = [res EXCEPT !.renamed = @ + 1]
  <2>1. y = x
    BY <1>8 DEF Result
  <2> HIDE DEF x, y
  <2>2. /\ after.renamed = res.renamed + 1
        /\ after.dirs = res.dirs /\ after.other = res.other /\ after.added = res.added
        /\ after.modified = res.modified /\ after.skipped = res.skipped /\ after.unparsed = res.unparsed
    BY <1>8 DEF Result
  <2> QED BY <1>2, <1>3, <1>4, <2>1, <2>2
<1>9. CASE after = [res EXCEPT !.added = @ + 1]
  <2>1. y = x
    BY <1>9 DEF Result
  <2> HIDE DEF x, y
  <2>2. /\ after.added = res.added + 1
        /\ after.dirs = res.dirs /\ after.other = res.other /\ after.renamed = res.renamed
        /\ after.modified = res.modified /\ after.skipped = res.skipped /\ after.unparsed = res.unparsed
    BY <1>9 DEF Result
  <2> QED BY <1>2, <1>3, <1>4, <2>1, <2>2
<1>10. CASE after = [res EXCEPT !.modified = @ + 1]
  <2>1. y = x
    BY <1>10 DEF Result
  <2> HIDE DEF x, y
  <2>2. /\ after.modified = res.modified + 1
        /\ after.dirs = res.dirs /\ after.other = res.other /\ after.renamed = res.renamed
        /\ after.added = res.added /\ after.skipped = res.skipped /\ after.unparsed = res.unparsed
    BY <1>10 DEF Result
  <2> QED BY <1>2, <1>3, <1>4, <2>1, <2>2
<1>11. CASE after = [res EXCEPT !.skipped = @ + 1]
  <2>1. y = x
    BY <1>11 DEF Result
  <2> HIDE DEF x, y
  <2>2. /\ after.skipped = res.skipped + 1
        /\ after.dirs = res.dirs /\ after.other = res.other /\ after.renamed = res.renamed
        /\ after.added = res.added /\ after.modified = res.modified /\ after.unparsed = res.unparsed
    BY <1>11 DEF Result
  <2> QED BY <1>2, <1>3, <1>4, <2>1, <2>2
<1>12. CASE after = [res EXCEPT !.unparsed = @ + 1]
  <2>1. y = x
    BY <1>12 DEF Result
  <2> HIDE DEF x, y
  <2>2. /\ after.unparsed = res.unparsed + 1
        /\ after.dirs = res.dirs /\ after.other = res.other /\ after.renamed = res.renamed
        /\ after.added = res.added /\ after.modified = res.modified /\ after.skipped = res.skipped
    BY <1>12 DEF Result
  <2> QED BY <1>2, <1>3, <1>4, <2>1, <2>2
<1> QED BY <1>5, <1>6, <1>7, <1>8, <1>9, <1>10, <1>11, <1>12 DEF OneMore

\* One turn of the loop counts an empty line nowhere and any other line once.
LEMMA LineCountsOnce ==
    ASSUME NEW res \in Result, NEW line \in DiffLines
    PROVE  /\ ParseLine(res, line) \in Result
           /\ Total(ParseLine(res, line)) = Total(res) + IF line = Empty THEN 0 ELSE 1
<1> DEFINE file == DeletedFile(line.raw)
<1>1. CASE line = Empty
  <2>1. ParseLine(res, line) = res
    BY <1>1 DEF ParseLine
  <2>2. Total(res) = Total(res) + 0
    <3> DEFINE x == Len(res.deleted)
    <3>1. x \in Nat
      BY ResultHasNumbers
    <3>2. Total(res) \in Nat
      <4> HIDE DEF x
      <4>1. Total(res) = x + res.dirs + res.other + res.renamed + res.added + res.modified
                          + res.skipped + res.unparsed
        BY <3>1, TotalIsSum DEF x
      <4> QED BY <3>1, <4>1, ResultHasNumbers, SMTT(30)
    <3> QED BY <3>2
  <2> QED BY <1>1, <2>1, <2>2
<1>2. CASE line # Empty
  <2>1. file \in Files
    BY DEF Files
  <2> HIDE DEF file
  <2>2. OneMore(res, Deletion(res, line.kind, file))
    BY <2>1 DEF Deletion, OneMore
  <2>3. OneMore(res, ParseLine(res, line))
    <3>1. ParseLine(res, line) \in
            {[res EXCEPT !.unparsed = @ + 1], [res EXCEPT !.skipped = @ + 1],
             Deletion(res, line.kind, file), [res EXCEPT !.added = @ + 1],
             [res EXCEPT !.modified = @ + 1], [res EXCEPT !.renamed = @ + 1]}
      BY <1>2 DEF ParseLine, Counted, file
    <3> QED BY <2>2, <3>1 DEF OneMore
  <2> QED BY <1>2, <2>3, OneMoreStaysResult, OneMoreCountsOne
<1> QED BY <1>1, <1>2

\* The lines that add a file to the list of what was deleted.
Deletes(line) ==
    /\ line # Empty /\ line # Garbled
    /\ line.mark = "-" /\ line.kind = "F"
    /\ WithinPathPrefix(pathPrefix, DeletedFile(line.raw).path)

LEMMA LineDeletes ==
    ASSUME NEW res \in Result, NEW line \in DiffLines
    PROVE  ToSet(ParseLine(res, line).deleted) =
              ToSet(res.deleted) \cup IF Deletes(line) THEN {DeletedFile(line.raw)} ELSE {}
<1> DEFINE file == DeletedFile(line.raw)
<1>1. file \in Files /\ res.deleted \in Seq(Files)
  BY ResultHasNumbers DEF Files
<1>2. CASE Deletes(line)
  <2>1. ParseLine(res, line) = [res EXCEPT !.deleted = Append(@, file)]
    BY <1>2 DEF Deletes, ParseLine, Counted, Deletion
  <2> HIDE DEF file
  <2>2. ParseLine(res, line).deleted = Append(res.deleted, file)
    BY <2>1 DEF Result
  <2>3. ToSet(Append(res.deleted, file)) = ToSet(res.deleted) \cup {file}
    <3>1. /\ DOMAIN res.deleted = 1 .. Len(res.deleted) /\ Len(res.deleted) \in Nat
          /\ DOMAIN Append(res.deleted, file) = 1 .. Len(res.deleted) + 1
          /\ \A i \in 1 .. Len(res.deleted) : Append(res.deleted, file)[i] = res.deleted[i]
          /\ Append(res.deleted, file)[Len(res.deleted) + 1] = file
      BY <1>1
    <3> QED BY <3>1 DEF ToSet
  <2> QED BY <1>2, <2>2, <2>3 DEF file
<1>3. CASE ~Deletes(line)
  <2> HIDE DEF file
  <2>1. ParseLine(res, line) \in
            {res, [res EXCEPT !.unparsed = @ + 1], [res EXCEPT !.skipped = @ + 1],
             [res EXCEPT !.dirs = @ + 1], [res EXCEPT !.other = @ + 1],
             [res EXCEPT !.added = @ + 1], [res EXCEPT !.modified = @ + 1],
             [res EXCEPT !.renamed = @ + 1]}
    BY <1>3 DEF Deletes, ParseLine, Counted, Deletion
  <2>2. ParseLine(res, line).deleted = res.deleted
    BY <2>1 DEF Result
  <2> QED BY <1>3, <2>2
<1> QED BY <1>2, <1>3

\* The loop of parseDiff, turn by turn, and the sort at its end.
LEMMA ParseDiffTurns ==
    ASSUME NEW lines \in Seq(DiffLines)
    PROVE  \E f \in [0 .. Len(lines) -> Result] :
              /\ f[0] = Zero
              /\ \A k \in 1 .. Len(lines) : f[k] = ParseLine(f[k - 1], lines[k])
              /\ ParseDiff(lines) = [f[Len(lines)] EXCEPT !.deleted = SortFiles(@)]
<1> DEFINE n == Len(lines)
           IsPass(f) == f = [k \in 0 .. n |->
                IF k = 0 THEN Zero ELSE ParseLine(f[k - 1], lines[k])]
           after == CHOOSE f : IsPass(f)
           step == [k \in 1 .. n |-> [v \in Result |-> ParseLine(v, lines[k])]]
<1>1. n \in Nat /\ \A k \in 1 .. n : lines[k] \in DiffLines
  OBVIOUS
<1>2. Zero \in Result
  <2>1. << >> \in Seq(Files)
    OBVIOUS
  <2> QED BY <2>1 DEF Zero, Result
<1>3. ParseDiff(lines) = [after[n] EXCEPT !.deleted = SortFiles(@)]
  BY DEF ParseDiff
<1> HIDE DEF n
<1>4. step \in [1 .. n -> [Result -> Result]]
  BY <1>1, LineCountsOnce
<1>5. PICK f \in [0 .. n -> Result] : IsCourse(f, n, Zero, step)
  <2> HIDE DEF step
  <2> QED BY <1>1, <1>2, <1>4, LoopExists, Zenon
<1>6. ASSUME NEW k \in 0 .. n
      PROVE  f[k] = IF k = 0 THEN Zero ELSE ParseLine(f[k - 1], lines[k])
  <2>1. CASE k = 0
    BY <1>5, <2>1 DEF IsCourse
  <2>2. CASE k # 0
    <3>1. k \in 1 .. n /\ f[k - 1] \in Result
      BY <1>1, <2>2
    <3>2. f[k] = step[k][f[k - 1]]
      <4> HIDE DEF step
      <4> QED BY <1>5, <2>2 DEF IsCourse
    <3> QED BY <2>2, <3>1, <3>2
  <2> QED BY <2>1, <2>2
<1>7. IsPass(f)
  BY <1>5, <1>6
<1>8. IsPass(after)
  BY <1>7, Zenon
<1> HIDE DEF after, step
<1>9. \A k \in 0 .. n : after[k] = IF k = 0 THEN Zero ELSE ParseLine(after[k - 1], lines[k])
  BY <1>8
<1> DEFINE R == {k \in Nat : k <= n => after[k] \in Result}
<1>10. 0 \in R
  <2>1. 0 \in 0 .. n
    BY <1>1
  <2>2. after[0] = Zero
    BY <1>9, <2>1, Zenon
  <2> QED BY <1>2, <2>2
<1>11. ASSUME NEW k \in Nat, k \in R PROVE k + 1 \in R
  <2> SUFFICES ASSUME k + 1 <= n PROVE after[k + 1] \in Result
    OBVIOUS
  <2>1. after[k] \in Result /\ k + 1 \in 1 .. n /\ lines[k + 1] \in DiffLines
    BY <1>1, <1>11
  <2>2. k + 1 \in 0 .. n /\ k + 1 # 0 /\ (k + 1) - 1 = k
    BY <2>1
  <2>3. after[k + 1] = ParseLine(after[k], lines[k + 1])
    BY <1>9, <2>2
  <2> DEFINE v == after[k]
             line == lines[k + 1]
  <2>4. v \in Result /\ line \in DiffLines /\ after[k + 1] = ParseLine(v, line)
    BY <2>1, <2>3
  <2> HIDE DEF v, line
  <2>5. ParseLine(v, line) \in Result
    BY <2>4, LineCountsOnce
  <2> QED BY <2>4, <2>5
<1>12. \A k \in Nat : k \in R
  <2> HIDE DEF R
  <2> QED BY <1>10, <1>11, NatInductionOnSets
<1>13. after \in [0 .. n -> Result]
  <2>1. \A k \in 0 .. n : after[k] \in Result
    BY <1>1, <1>12
  <2>2. after = [k \in 0 .. n |-> after[k]]
    BY <1>8
  <2> QED BY <2>1, <2>2
<1>14. after[0] = Zero /\ \A k \in 1 .. n : after[k] = ParseLine(after[k - 1], lines[k])
  <2>1. 0 \in 0 .. n /\ \A k \in 1 .. n : k \in 0 .. n /\ k # 0
    BY <1>1
  <2> QED BY <1>9, <2>1
<1> QED BY <1>3, <1>13, <1>14 DEF n

\* What the loop has after k lines: every line that is not empty is counted once,
\* and the list has the files of the lines that delete.
LEMMA ParseDiffCounts ==
    ASSUME NEW lines \in Seq(DiffLines)
    PROVE  /\ ParseDiff(lines) \in Result
           /\ Total(ParseDiff(lines)) = Cardinality({i \in DOMAIN lines : lines[i] # Empty})
           /\ ToSet(ParseDiff(lines).deleted) =
                {DeletedFile(lines[i].raw) : i \in {j \in DOMAIN lines : Deletes(lines[j])}}
<1> DEFINE n == Len(lines)
<1>1. n \in Nat /\ DOMAIN lines = 1 .. n /\ \A k \in 1 .. n : lines[k] \in DiffLines
  OBVIOUS
<1>2. Zero \in Result /\ Total(Zero) = 0
  <2>1. << >> \in Seq(Files) /\ Len(<< >>) = 0
    OBVIOUS
  <2> QED BY <2>1 DEF Zero, Result, Total, RecognizedLines
<1>3. PICK after \in [0 .. n -> Result] :
              /\ after[0] = Zero
              /\ \A k \in 1 .. n : after[k] = ParseLine(after[k - 1], lines[k])
              /\ ParseDiff(lines) = [after[n] EXCEPT !.deleted = SortFiles(@)]
  BY ParseDiffTurns
<1> DEFINE res == after[n]
<1>4. \A k \in 1 .. n : after[k] = ParseLine(after[k - 1], lines[k])
  BY <1>3
<1>5. ParseDiff(lines) = [res EXCEPT !.deleted = SortFiles(@)]
  BY <1>3
<1> HIDE DEF n
<1> DEFINE Lines(k) == {i \in 1 .. k : lines[i] # Empty}
           Gone(k) == {DeletedFile(lines[i].raw) : i \in {j \in 1 .. k : Deletes(lines[j])}}
           Upto(k) == /\ after[k] \in Result
                      /\ IsFiniteSet(Lines(k))
                      /\ Total(after[k]) = Cardinality(Lines(k))
                      /\ ToSet(after[k].deleted) = Gone(k)
           R == {k \in Nat : k <= n => Upto(k)}
<1>6. 0 \in R
  <2>1. after[0] = Zero
    BY <1>3
  <2>2. Lines(0) = {} /\ Gone(0) = {}
    OBVIOUS
  <2>3. IsFiniteSet({}) /\ Cardinality({}) = 0
    BY FS_EmptySet
  <2>4. ToSet(after[0].deleted) = {}
    BY <2>1 DEF Zero, ToSet
  <2> QED BY <1>2, <2>1, <2>2, <2>3, <2>4
<1>7. ASSUME NEW k \in Nat, k \in R PROVE k + 1 \in R
  <2> SUFFICES ASSUME k + 1 <= n PROVE Upto(k + 1)
    OBVIOUS
  <2>1. Upto(k) /\ k + 1 \in 1 .. n
    BY <1>1, <1>7
  <2> DEFINE line == lines[k + 1]
  <2>2. after[k + 1] = ParseLine(after[k], line) /\ line \in DiffLines
    <3>1. (k + 1) - 1 = k
      OBVIOUS
    <3> QED BY <1>1, <1>4, <2>1, <3>1
  <2>3. Lines(k + 1) = Lines(k) \cup IF line = Empty THEN {} ELSE {k + 1}
    OBVIOUS
  <2>4. Gone(k + 1) = Gone(k) \cup IF Deletes(line) THEN {DeletedFile(line.raw)} ELSE {}
    <3>1. {j \in 1 .. k + 1 : Deletes(lines[j])} =
            {j \in 1 .. k : Deletes(lines[j])} \cup IF Deletes(line) THEN {k + 1} ELSE {}
      OBVIOUS
    <3> QED BY <3>1
  <2>5. k + 1 \notin Lines(k)
    OBVIOUS
  <2> HIDE DEF line, Lines, Gone
  <2>6. after[k + 1] \in Result
        /\ Total(after[k + 1]) = Total(after[k]) + IF line = Empty THEN 0 ELSE 1
    BY <2>1, <2>2, LineCountsOnce
  <2>7. ToSet(after[k + 1].deleted) = Gone(k + 1)
    BY <2>1, <2>2, <2>4, LineDeletes
  <2>8. IsFiniteSet(Lines(k + 1)) /\ Total(after[k + 1]) = Cardinality(Lines(k + 1))
    <3>1. Cardinality(Lines(k)) \in Nat
      BY <2>1, FS_CardinalityType
    <3>2. CASE line = Empty
      <4>1. Lines(k + 1) = Lines(k)
        BY <2>3, <3>2
      <4> QED BY <2>1, <2>6, <3>1, <3>2, <4>1
    <3>3. CASE line # Empty
      <4>1. Lines(k + 1) = Lines(k) \cup {k + 1}
        BY <2>3, <3>3
      <4>2. IsFiniteSet(Lines(k + 1)) /\ Cardinality(Lines(k + 1)) = Cardinality(Lines(k)) + 1
        BY <2>1, <2>5, <4>1, FS_AddElement
      <4> QED BY <2>1, <2>6, <3>1, <3>3, <4>2
    <3> QED BY <3>2, <3>3
  <2> QED BY <2>6, <2>7, <2>8
<1>8. n \in R
  <2> HIDE DEF R
  <2> QED BY <1>1, <1>6, <1>7, NatInductionOnSets
<1>9. Upto(n)
  BY <1>1, <1>8
<1> DEFINE sorted == SortFiles(res.deleted)
<1>10. sorted \in Seq(Files) /\ Len(sorted) = Len(res.deleted) /\ ToSet(sorted) = ToSet(res.deleted)
  <2>1. res.deleted \in Seq(Files)
    BY <1>9, ResultHasNumbers
  <2> HIDE DEF res
  <2> QED BY <2>1, SortFilesKeeps
<1>11. ParseDiff(lines) = [res EXCEPT !.deleted = sorted]
  BY <1>5
<1> HIDE DEF sorted, res
<1> DEFINE diff == ParseDiff(lines)
<1> HIDE DEF diff
<1>12. res \in Result
  BY <1>9 DEF res
<1>13. diff \in Result /\ diff.deleted = sorted
  BY <1>10, <1>11, <1>12 DEF Result, diff
<1>14. Total(diff) = Total(res)
  <2>1. /\ diff.dirs = res.dirs /\ diff.other = res.other /\ diff.renamed = res.renamed
        /\ diff.added = res.added /\ diff.modified = res.modified
        /\ diff.skipped = res.skipped /\ diff.unparsed = res.unparsed
    BY <1>11, <1>12 DEF Result, diff
  <2> QED BY <1>10, <1>13, <2>1, Zenon DEF Total, RecognizedLines
<1>15. Lines(n) = {i \in DOMAIN lines : lines[i] # Empty}
       /\ Gone(n) = {DeletedFile(lines[i].raw) : i \in {j \in DOMAIN lines : Deletes(lines[j])}}
  BY <1>1
<1> HIDE DEF Lines, Gone
<1>16. Total(res) = Cardinality(Lines(n)) /\ ToSet(res.deleted) = Gone(n)
  BY <1>9 DEF res
<1>17. diff \in Result /\ Total(diff) = Cardinality(Lines(n)) /\ ToSet(diff.deleted) = Gone(n)
  BY <1>10, <1>13, <1>14, <1>16
<1> QED BY <1>15, <1>17 DEF diff

\* Every line of `zfs diff` that is not empty is counted in exactly one number, so that
\* "not a single line was counted" is said of exactly the days it is true of.
THEOREM LinesAreCounted == PathsSpec => []EveryLineCounts
<1>1. PathsInv => EveryLineCounts
  <2> SUFFICES ASSUME PathsInv PROVE EveryLineCounts
    OBVIOUS
  <2> DEFINE res == ParseDiff(output)
             lines == Cardinality({i \in DOMAIN output : output[i] # Empty})
             known == RecognizedLines(res)
  <2>1. res \in Result /\ Total(res) = lines
    BY ParseDiffCounts DEF PathsInv
  <2>2. known \in Nat /\ res.skipped \in Nat /\ res.unparsed \in Nat
    <3> DEFINE x == Len(res.deleted)
    <3>1. x \in Nat /\ res.dirs \in Nat /\ res.other \in Nat
          /\ res.renamed \in Nat /\ res.added \in Nat /\ res.modified \in Nat
          /\ res.skipped \in Nat /\ res.unparsed \in Nat
      BY <2>1, ResultHasNumbers
    <3>2. known = x + res.dirs + res.other + res.renamed + res.added + res.modified
      BY DEF RecognizedLines
    <3> HIDE DEF res, x, known
    <3> QED BY <3>1, <3>2
  <2>3. known + res.skipped + res.unparsed = lines
    BY <2>1 DEF Total
  <2>4. DiffUnusable(res) <=> known = 0 /\ res.unparsed > 0
    BY DEF DiffUnusable
  <2> HIDE DEF res, lines, known
  <2>5. DiffUnusable(res) <=> res.unparsed > 0 /\ res.skipped + res.unparsed = lines
    BY <2>2, <2>3, <2>4
  <2> QED BY <2>3, <2>5 DEF EveryLineCounts, res, lines, known
<1> QED BY <1>1, PathsInvariant, PTL

(***************************************************************************)
(* The escape format.                                                      *)
(***************************************************************************)

NameByte == 1 .. 255

\* Five places of a list, one by one.
LEMMA FivePlaces ==
    ASSUME NEW a \in Byte, NEW b \in Byte, NEW c \in Byte, NEW d \in Byte, NEW e \in Byte
    PROVE  /\ <<a, b, c, d, e>> \in Seq(Byte) /\ Len(<<a, b, c, d, e>>) = 5
           /\ <<a, b, c, d, e>>[1] = a /\ <<a, b, c, d, e>>[2] = b /\ <<a, b, c, d, e>>[3] = c
           /\ <<a, b, c, d, e>>[4] = d /\ <<a, b, c, d, e>>[5] = e
OBVIOUS

\* The three digits that say a byte.
LEMMA OctalDigits ==
    ASSUME NEW c \in Byte
    PROVE  /\ c \div 64 \in 0 .. 3 /\ (c \div 8) % 8 \in 0 .. 7 /\ c % 8 \in 0 .. 7
           /\ c = 64 * (c \div 64) + 8 * ((c \div 8) % 8) + (c % 8)
BY DEF Byte

LEMMA EscapeIs ==
    ASSUME NEW c \in Byte
    PROVE  /\ Escape(c) \in Seq(Byte) /\ Len(Escape(c)) = 5
           /\ Escape(c)[1] = Backslash
           /\ \A i \in 2 .. 5 : Escape(c)[i] \in OctalDigit
           /\ (((Escape(c)[2] - 48) * 8 + (Escape(c)[3] - 48)) * 8 + (Escape(c)[4] - 48)) * 8
                + (Escape(c)[5] - 48) = c
<1> DEFINE x == 48 + c \div 64
           y == 48 + ((c \div 8) % 8)
           z == 48 + (c % 8)
<1>1. x \in 48 .. 51 /\ y \in 48 .. 55 /\ z \in 48 .. 55
      /\ c = 64 * (x - 48) + 8 * (y - 48) + (z - 48)
  BY OctalDigits
<1>2. Escape(c) = <<92, 48, x, y, z>>
  BY DEF Escape, Backslash
<1> HIDE DEF x, y, z
<1>3. x \in Byte /\ y \in Byte /\ z \in Byte /\ 92 \in Byte /\ 48 \in Byte
  BY <1>1 DEF Byte
<1> DEFINE e == Escape(c)
<1>4. e \in Seq(Byte) /\ Len(e) = 5 /\ e[1] = 92 /\ e[2] = 48 /\ e[3] = x /\ e[4] = y /\ e[5] = z
  BY <1>2, <1>3, FivePlaces
<1> HIDE DEF e
<1>5. \A i \in 2 .. 5 : e[i] \in OctalDigit
  BY <1>1, <1>4 DEF OctalDigit
<1>6. (((e[2] - 48) * 8 + (e[3] - 48)) * 8 + (e[4] - 48)) * 8 + (e[5] - 48) = c
  BY <1>1, <1>4
<1> QED BY <1>4, <1>5, <1>6 DEF Backslash, e

LEMMA PrintedIs ==
    ASSUME NEW c \in Byte
    PROVE  /\ Printed(c) \in Seq(Byte)
           /\ Len(Printed(c)) \in Nat /\ Len(Printed(c)) >= 1
           /\ \/ /\ Len(Printed(c)) = 1 /\ Printed(c)[1] = c /\ c # Backslash
              \/ Len(Printed(c)) = 5 /\ Printed(c) = Escape(c)
<1>1. CASE Literal(c)
  BY <1>1 DEF Printed, Literal
<1>2. CASE ~Literal(c)
  BY <1>2, EscapeIs DEF Printed
<1> QED BY <1>1, <1>2

\* w is what EncodeZfsPath has written after each byte.
Written(w, bytes) ==
    /\ w \in [0 .. Len(bytes) -> Seq(Byte)]
    /\ w[0] = <<>>
    /\ \A k \in 1 .. Len(bytes) : w[k] = w[k - 1] \o Printed(bytes[k])

LEMMA EncodeIsWritten ==
    ASSUME NEW bytes \in Seq(Byte)
    PROVE  \E w : Written(w, bytes) /\ EncodeZfsPath(bytes) = w[Len(bytes)]
<1> DEFINE n == Len(bytes)
           more(v, k) == v \o Printed(bytes[k])
           IsPass(f) == f = [k \in 0 .. n |-> IF k = 0 THEN <<>> ELSE more(f[k - 1], k)]
           w == CHOOSE f : IsPass(f)
<1>1. n \in Nat /\ \A k \in 1 .. n : \A v \in Seq(Byte) : more(v, k) \in Seq(Byte)
  BY PrintedIs
<1>2. \E f : IsPass(f)
  <2> DEFINE step == [k \in 1 .. n |-> [v \in Seq(Byte) |-> more(v, k)]]
  <2> HIDE DEF n, more
  <2>1. step \in [1 .. n -> [Seq(Byte) -> Seq(Byte)]]
    BY <1>1
  <2>2. << >> \in Seq(Byte)
    OBVIOUS
  <2>3. PICK f \in [0 .. n -> Seq(Byte)] : IsCourse(f, n, << >>, step)
    <3> HIDE DEF step
    <3> QED BY <1>1, <2>1, <2>2, LoopExists, Zenon
  <2>4. ASSUME NEW k \in 0 .. n
        PROVE  f[k] = IF k = 0 THEN <<>> ELSE more(f[k - 1], k)
    <3>1. CASE k = 0
      BY <2>3, <3>1 DEF IsCourse
    <3>2. CASE k # 0
      <4>1. k \in 1 .. n /\ f[k - 1] \in Seq(Byte)
        BY <1>1, <3>2
      <4>2. f[k] = step[k][f[k - 1]]
        <5> HIDE DEF step
        <5> QED BY <2>3, <3>2 DEF IsCourse
      <4> QED BY <3>2, <4>1, <4>2
    <3> QED BY <3>1, <3>2
  <2>5. IsPass(f)
    BY <2>3, <2>4
  <2> QED BY <2>5
<1>3. IsPass(w)
  BY <1>2, Zenon
<1>4. EncodeZfsPath(bytes) = w[n]
  BY DEF EncodeZfsPath
<1> HIDE DEF w, n, more
<1> DEFINE R == {k \in Nat : k <= n => w[k] \in Seq(Byte)}
<1>5. 0 \in R
  BY <1>1, <1>3
<1>6. ASSUME NEW k \in Nat, k \in R PROVE k + 1 \in R
  <2> SUFFICES ASSUME k + 1 <= n PROVE w[k + 1] \in Seq(Byte)
    OBVIOUS
  <2>1. k + 1 \in 1 .. n /\ w[k] \in Seq(Byte)
    BY <1>1, <1>6
  <2>2. w[k + 1] = more(w[k], k + 1)
    BY <1>1, <1>3, <2>1
  <2> QED BY <1>1, <2>1, <2>2
<1>7. \A k \in Nat : k \in R
  <2> HIDE DEF R
  <2> QED BY <1>5, <1>6, NatInductionOnSets
<1>8. Written(w, bytes)
  <2>1. \A k \in 0 .. n : w[k] \in Seq(Byte)
    BY <1>1, <1>7
  <2>2. w \in [0 .. n -> Seq(Byte)]
    BY <1>3, <2>1
  <2>3. w[0] = << >>
    BY <1>1, <1>3
  <2>4. \A k \in 1 .. n : w[k] = more(w[k - 1], k)
    BY <1>1, <1>3
  <2> QED BY <2>2, <2>3, <2>4 DEF Written, n, more
<1> QED BY <1>4, <1>8 DEF n

\* What was written stays: the end result begins with it.
LEMMA WrittenStays ==
    ASSUME NEW bytes \in Seq(Byte), NEW w, Written(w, bytes),
           NEW k \in 0 .. Len(bytes)
    PROVE  /\ Len(w[k]) <= Len(w[Len(bytes)])
           /\ \A i \in 1 .. Len(w[k]) : w[Len(bytes)][i] = w[k][i]
           /\ k <= Len(w[k])
<1> DEFINE n == Len(bytes)
           Stays(m) == /\ Len(w[m]) \in Nat /\ m <= Len(w[m])
                       /\ \A j \in 0 .. m : /\ Len(w[j]) <= Len(w[m])
                                            /\ \A i \in 1 .. Len(w[j]) : w[m][i] = w[j][i]
           R == {m \in Nat : m <= n => Stays(m)}
<1>1. n \in Nat /\ \A m \in 0 .. n : w[m] \in Seq(Byte) /\ Len(w[m]) \in Nat
  BY DEF Written
<1>2. 0 \in R
  <2>1. w[0] = << >> /\ Len(w[0]) = 0
    BY DEF Written
  <2> QED BY <1>1, <2>1
<1>3. ASSUME NEW m \in Nat, m \in R PROVE m + 1 \in R
  <2> SUFFICES ASSUME m + 1 <= n PROVE Stays(m + 1)
    OBVIOUS
  <2>1. Stays(m) /\ m \in 0 .. n /\ m + 1 \in 1 .. n
    BY <1>1, <1>3
  <2> DEFINE p == Printed(bytes[m + 1])
  <2>2. w[m + 1] = w[m] \o p
    <3>1. w[m + 1] = w[(m + 1) - 1] \o p
      BY <2>1, Zenon DEF Written
    <3>2. (m + 1) - 1 = m
      OBVIOUS
    <3> QED BY <3>1, <3>2, Zenon
  <2>3. p \in Seq(Byte) /\ Len(p) >= 1 /\ Len(p) \in Nat
    <3>1. bytes[m + 1] \in Byte
      BY <2>1
    <3> QED BY <3>1, PrintedIs
  <2> HIDE DEF p
  <2>4. Len(w[m + 1]) = Len(w[m]) + Len(p)
        /\ \A i \in 1 .. Len(w[m]) : w[m + 1][i] = w[m][i]
    BY <1>1, <2>1, <2>2, <2>3
  <2>5. Len(w[m + 1]) \in Nat /\ m + 1 <= Len(w[m + 1])
    BY <2>1, <2>3, <2>4
  <2>6. ASSUME NEW j \in 0 .. m + 1
        PROVE  Len(w[j]) <= Len(w[m + 1]) /\ \A i \in 1 .. Len(w[j]) : w[m + 1][i] = w[j][i]
    <3>1. CASE j = m + 1
      BY <2>5, <3>1
    <3>2. CASE j # m + 1
      <4>1. j \in 0 .. m /\ Len(w[j]) \in Nat
        BY <1>1, <2>1, <3>2
      <4>2. Len(w[j]) <= Len(w[m]) /\ \A i \in 1 .. Len(w[j]) : w[m][i] = w[j][i]
        BY <2>1, <4>1
      <4> QED BY <2>1, <2>3, <2>4, <4>1, <4>2
    <3> QED BY <3>1, <3>2
  <2> QED BY <2>5, <2>6
<1>4. n \in R
  <2> HIDE DEF R
  <2> QED BY <1>1, <1>2, <1>3, NatInductionOnSets
<1>5. \A m \in Nat : m \in R
  <2> HIDE DEF R
  <2> QED BY <1>2, <1>3, NatInductionOnSets
<1>6. Stays(n) /\ Stays(k) /\ k \in 0 .. n
  BY <1>1, <1>4, <1>5
<1> QED BY <1>6

\* Where DecodeZfsPath is after a turn.
Reading == [ok : BOOLEAN, path : Seq(Byte), at : Nat \ {0}]

LEMMA ReadingMoves ==
    ASSUME NEW st \in Reading, NEW p \in Seq(Byte), NEW a \in Nat \ {0}
    PROVE  [st EXCEPT !.path = p, !.at = a] \in Reading
BY DEF Reading

\* The value of four digits of which IsByte holds is a byte.
LEMMA TurnStaysReading ==
    ASSUME NEW raw \in Seq(Byte), NEW st \in Reading
    PROVE  DecodeTurn(raw, st) \in Reading
<1> DEFINE c == raw[st.at]
           digits == SubSeq(raw, st.at + 1, st.at + 4)
<1>1. st.at \in Nat \ {0} /\ st.path \in Seq(Byte)
  BY DEF Reading
<1>2. CASE ~st.ok \/ st.at > Len(raw)
  BY <1>2 DEF DecodeTurn
<1>3. CASE st.ok /\ st.at <= Len(raw) /\ c # Backslash
  <2>1. DecodeTurn(raw, st) = [st EXCEPT !.path = Append(@, c), !.at = @ + 1]
    BY <1>1, <1>3 DEF DecodeTurn
  <2>2. c \in Byte
    BY <1>1, <1>3
  <2> HIDE DEF c
  <2>3. Append(st.path, c) \in Seq(Byte) /\ st.at + 1 \in Nat \ {0}
    BY <1>1, <2>2
  <2> QED BY <2>1, <2>3, ReadingMoves, Zenon
<1>4. CASE /\ st.ok /\ st.at <= Len(raw) /\ c = Backslash
           /\ (st.at + 4 > Len(raw) \/ ~IsByte(digits))
  <2>1. DecodeTurn(raw, st) = [st EXCEPT !.ok = FALSE]
    BY <1>1, <1>4 DEF DecodeTurn
  <2> QED BY <2>1 DEF Reading
<1>5. CASE /\ st.ok /\ st.at <= Len(raw) /\ c = Backslash
           /\ ~(st.at + 4 > Len(raw) \/ ~IsByte(digits))
  <2> DEFINE v == Octal(digits)
  <2>1. DecodeTurn(raw, st) = [st EXCEPT !.path = Append(@, v), !.at = @ + 5]
    BY <1>1, <1>5 DEF DecodeTurn
  <2>2. v \in Byte
    BY <1>5 DEF IsByte, Byte
  <2> HIDE DEF v
  <2>3. Append(st.path, v) \in Seq(Byte) /\ st.at + 5 \in Nat \ {0}
    BY <1>1, <2>2
  <2> QED BY <2>1, <2>3, ReadingMoves, Zenon
<1> QED BY <1>1, <1>2, <1>3, <1>4, <1>5

\* f is where DecodeZfsPath is after each turn.
Read(f, raw) ==
    /\ f \in [0 .. Len(raw) -> Reading]
    /\ f[0] = DecodeStart
    /\ \A k \in 1 .. Len(raw) : f[k] = DecodeTurn(raw, f[k - 1])

LEMMA DecodeIsRead ==
    ASSUME NEW raw \in Seq(Byte)
    PROVE  \E f : /\ Read(f, raw)
                  /\ DecodeZfsPath(raw) = IF f[Len(raw)].ok
                                          THEN [ok |-> TRUE, path |-> f[Len(raw)].path]
                                          ELSE NotDecodable
<1> DEFINE n == Len(raw)
           IsPass(f) == f = [k \in 0 .. n |->
                IF k = 0 THEN DecodeStart ELSE DecodeTurn(raw, f[k - 1])]
           st == CHOOSE f : IsPass(f)
<1>1. n \in Nat
  OBVIOUS
<1>2. DecodeStart \in Reading
  BY DEF DecodeStart, Reading
<1>3. \E f : IsPass(f)
  <2> DEFINE step == [k \in 1 .. n |-> [v \in Reading |-> DecodeTurn(raw, v)]]
  <2> HIDE DEF n
  <2>1. step \in [1 .. n -> [Reading -> Reading]]
    BY TurnStaysReading
  <2>2. PICK f \in [0 .. n -> Reading] : IsCourse(f, n, DecodeStart, step)
    <3> HIDE DEF step
    <3> QED BY <1>1, <1>2, <2>1, LoopExists, Zenon
  <2>3. ASSUME NEW k \in 0 .. n
        PROVE  f[k] = IF k = 0 THEN DecodeStart ELSE DecodeTurn(raw, f[k - 1])
    <3>1. CASE k = 0
      BY <2>2, <3>1 DEF IsCourse
    <3>2. CASE k # 0
      <4>1. k \in 1 .. n /\ f[k - 1] \in Reading
        BY <1>1, <3>2
      <4>2. f[k] = step[k][f[k - 1]]
        <5> HIDE DEF step
        <5> QED BY <2>2, <3>2 DEF IsCourse
      <4> QED BY <3>2, <4>1, <4>2
    <3> QED BY <3>1, <3>2
  <2>4. IsPass(f)
    BY <2>2, <2>3
  <2> QED BY <2>4
<1>4. IsPass(st)
  BY <1>3, Zenon
<1>5. DecodeZfsPath(raw) = IF st[n].ok THEN [ok |-> TRUE, path |-> st[n].path] ELSE NotDecodable
  BY DEF DecodeZfsPath
<1> HIDE DEF st, n
<1> DEFINE R == {k \in Nat : k <= n => st[k] \in Reading}
<1>6. 0 \in R
  BY <1>1, <1>2, <1>4
<1>7. ASSUME NEW k \in Nat, k \in R PROVE k + 1 \in R
  <2> SUFFICES ASSUME k + 1 <= n PROVE st[k + 1] \in Reading
    OBVIOUS
  <2>1. k + 1 \in 1 .. n /\ st[k] \in Reading
    BY <1>1, <1>7
  <2>2. st[k + 1] = DecodeTurn(raw, st[k])
    BY <1>1, <1>4, <2>1
  <2> QED BY <2>1, <2>2, TurnStaysReading
<1>8. \A k \in Nat : k \in R
  <2> HIDE DEF R
  <2> QED BY <1>6, <1>7, NatInductionOnSets
<1>9. Read(st, raw)
  <2>1. \A k \in 0 .. n : st[k] \in Reading
    BY <1>1, <1>8
  <2>2. st \in [0 .. n -> Reading]
    BY <1>4, <2>1
  <2>3. st[0] = DecodeStart
    BY <1>1, <1>4
  <2>4. \A k \in 1 .. n : st[k] = DecodeTurn(raw, st[k - 1])
    BY <1>1, <1>4
  <2> QED BY <2>2, <2>3, <2>4 DEF Read, n
<1> QED BY <1>5, <1>9 DEF n

LEMMA DecodedIsText ==
    ASSUME NEW raw \in Seq(Byte)
    PROVE  DecodeZfsPath(raw).path \in Seq(Byte)
<1>1. PICK f : /\ Read(f, raw)
               /\ DecodeZfsPath(raw) = IF f[Len(raw)].ok
                                       THEN [ok |-> TRUE, path |-> f[Len(raw)].path]
                                       ELSE NotDecodable
  BY DecodeIsRead
<1>2. f[Len(raw)] \in Reading
  BY <1>1 DEF Read
<1>3. f[Len(raw)].path \in Seq(Byte) /\ << >> \in Seq(Byte)
  BY <1>2 DEF Reading
<1> QED BY <1>1, <1>3 DEF NotDecodable

LEMMA FourOf ==
    ASSUME NEW s \in Seq(Byte), NEW a \in Nat, a + 4 <= Len(s)
    PROVE  LET t == SubSeq(s, a + 1, a + 4)
           IN  Len(t) = 4 /\ DOMAIN t = 1 .. 4 /\ \A i \in 1 .. 4 : t[i] = s[a + i]
<1> DEFINE t == SubSeq(s, a + 1, a + 4)
<1>1. Len(s) \in Nat
  OBVIOUS
<1>2. t \in Seq(Byte) /\ Len(t) = 4
  BY <1>1
<1>3. \A i \in 1 .. 4 : t[i] = s[(a + 1) + i - 1]
  BY <1>1
<1>4. \A i \in 1 .. 4 : (a + 1) + i - 1 = a + i
  OBVIOUS
<1> HIDE DEF t
<1>5. \A i \in 1 .. 4 : t[i] = s[a + i]
  BY <1>3, <1>4
<1>6. DOMAIN t = 1 .. 4
  BY <1>2
<1> QED BY <1>2, <1>5, <1>6 DEF t

\* Reading where a byte was printed leads to that byte and behind it.
LEMMA TurnReadsPrinted ==
    ASSUME NEW raw \in Seq(Byte), NEW c \in NameByte, NEW st \in Reading, st.ok,
           st.at + Len(Printed(c)) <= Len(raw) + 1,
           \A i \in 1 .. Len(Printed(c)) : raw[st.at - 1 + i] = Printed(c)[i]
    PROVE  /\ DecodeTurn(raw, st).ok
           /\ DecodeTurn(raw, st).path = Append(st.path, c)
           /\ DecodeTurn(raw, st).at = st.at + Len(Printed(c))
<1> DEFINE digits == SubSeq(raw, st.at + 1, st.at + 4)
           d == raw[st.at]
<1>1. st.at \in Nat \ {0} /\ st.path \in Seq(Byte) /\ c \in Byte /\ Len(raw) \in Nat
  BY DEF Reading, NameByte, Byte
<1>2. CASE Len(Printed(c)) = 1 /\ Printed(c)[1] = c /\ c # Backslash
  <2>1. d = c /\ st.at <= Len(raw)
    BY <1>1, <1>2
  <2>2. DecodeTurn(raw, st) = [st EXCEPT !.path = Append(@, c), !.at = @ + 1]
    BY <1>1, <1>2, <2>1 DEF DecodeTurn
  <2> QED BY <1>2, <2>2 DEF Reading
<1>3. CASE Len(Printed(c)) = 5 /\ Printed(c) = Escape(c)
  <2> DEFINE e == Escape(c)
  <2>1. /\ e[1] = Backslash
        /\ \A i \in 2 .. 5 : e[i] \in OctalDigit
        /\ (((e[2] - 48) * 8 + (e[3] - 48)) * 8 + (e[4] - 48)) * 8 + (e[5] - 48) = c
    BY <1>1, EscapeIs
  <2> HIDE DEF e
  <2>2. st.at + 4 <= Len(raw) /\ \A i \in 1 .. 5 : raw[st.at - 1 + i] = e[i]
    BY <1>1, <1>3 DEF e
  <2>3. d = Backslash
    BY <1>1, <2>1, <2>2, SMTT(30)
  <2>4. /\ Len(digits) = 4 /\ DOMAIN digits = 1 .. 4
        /\ \A i \in 1 .. 4 : digits[i] = raw[st.at + i]
    BY <1>1, <2>2, FourOf
  <2> HIDE DEF digits
  <2>5. ASSUME NEW i \in 1 .. 4 PROVE digits[i] = e[i + 1]
    <3>1. i + 1 \in 1 .. 5 /\ st.at - 1 + (i + 1) = st.at + i
      BY <1>1
    <3>2. raw[st.at + i] = e[i + 1]
      BY <2>2, <3>1
    <3> QED BY <2>4, <3>2
  <2>6. digits[1] = e[2] /\ digits[2] = e[3] /\ digits[3] = e[4] /\ digits[4] = e[5]
    BY <2>5
  <2>7. Octal(digits) = c
    BY <2>1, <2>6 DEF Octal
  <2>8. ToSet(digits) \subseteq OctalDigit
    BY <2>1, <2>4, <2>5 DEF ToSet
  <2>9. IsByte(digits)
    BY <2>7, <2>8 DEF IsByte, NameByte
  <2>10. DecodeTurn(raw, st) = [st EXCEPT !.path = Append(@, c), !.at = @ + 5]
    <3> DEFINE a == st.at
               n == Len(raw)
    <3>1. a \in Nat /\ n \in Nat /\ a + 4 <= n
      BY <1>1, <2>2
    <3> HIDE DEF a, n
    <3>2. ~(a > n) /\ ~(a + 4 > n)
      BY <3>1
    <3> QED BY <2>3, <2>7, <2>9, <3>2, Zenon DEF DecodeTurn, digits, a, n
  <2> QED BY <1>3, <2>10 DEF Reading
<1> QED BY <1>1, <1>2, <1>3, PrintedIs

LEMMA ElementsMakeSeq ==
    ASSUME NEW S, NEW T, NEW s \in Seq(S), \A i \in 1 .. Len(s) : s[i] \in T
    PROVE  s \in Seq(T)
OBVIOUS

\* What zfs prints for a name is decoded to that name.
LEMMA NameIsReadBack ==
    ASSUME NEW bytes \in Seq(NameByte)
    PROVE  DecodeZfsPath(EncodeZfsPath(bytes)) = [ok |-> TRUE, path |-> bytes]
<1> DEFINE n == Len(bytes)
           raw == EncodeZfsPath(bytes)
           m == Len(raw)
<1>1. bytes \in Seq(Byte) /\ n \in Nat /\ \A k \in 1 .. n : bytes[k] \in NameByte
  <2>1. n \in Nat /\ \A k \in 1 .. n : bytes[k] \in NameByte
    OBVIOUS
  <2>2. \A k \in 1 .. n : bytes[k] \in Byte
    BY <2>1 DEF NameByte, Byte
  <2>3. bytes \in Seq(Byte)
    BY <2>2, ElementsMakeSeq
  <2> QED BY <2>1, <2>3
<1>2. PICK w : Written(w, bytes) /\ raw = w[n]
  BY <1>1, EncodeIsWritten
<1>3. raw \in Seq(Byte) /\ m \in Nat
  BY <1>1, <1>2 DEF Written
<1> HIDE DEF raw
<1>4. PICK f : /\ Read(f, raw)
               /\ DecodeZfsPath(raw) = IF f[m].ok THEN [ok |-> TRUE, path |-> f[m].path]
                                       ELSE NotDecodable
  BY <1>3, DecodeIsRead
<1> HIDE DEF n, m
<1>5. ASSUME NEW k \in 0 .. n
      PROVE  /\ w[k] \in Seq(Byte) /\ Len(w[k]) \in Nat
             /\ Len(w[k]) <= m /\ k <= Len(w[k]) /\ \A i \in 1 .. Len(w[k]) : raw[i] = w[k][i]
  <2>1. w[k] \in Seq(Byte)
    BY <1>2 DEF Written, n
  <2>2. Len(w[k]) <= m /\ k <= Len(w[k]) /\ \A i \in 1 .. Len(w[k]) : raw[i] = w[k][i]
    BY <1>1, <1>2, WrittenStays DEF n, m
  <2> QED BY <2>1, <2>2
<1> DEFINE Reached(k) == /\ f[k].ok
                         /\ f[k].at = Len(w[k]) + 1
                         /\ Len(f[k].path) = k
                         /\ \A i \in 1 .. k : f[k].path[i] = bytes[i]
           R == {k \in Nat : k <= n => Reached(k)}
<1>6. 0 \in R
  <2>1. f[0] = DecodeStart
    BY <1>4 DEF Read
  <2>2. w[0] = << >>
    BY <1>2 DEF Written
  <2>3. Reached(0)
    BY <2>1, <2>2 DEF DecodeStart
  <2> QED BY <2>3
<1>7. ASSUME NEW k \in Nat, k \in R PROVE k + 1 \in R
  <2> SUFFICES ASSUME k + 1 <= n PROVE Reached(k + 1)
    OBVIOUS
  <2>1. Reached(k) /\ k \in 0 .. n /\ k + 1 \in 1 .. n /\ k + 1 \in 0 .. n
    BY <1>1, <1>7
  <2> DEFINE c == bytes[k + 1]
             p == Printed(c)
             st == f[k]
  <2>2. c \in NameByte /\ c \in Byte
    BY <1>1, <2>1 DEF NameByte, Byte
  <2>3. p \in Seq(Byte) /\ Len(p) \in Nat /\ Len(p) >= 1
    <3> HIDE DEF c
    <3> QED BY <2>2, PrintedIs
  <2>4. w[k + 1] = w[k] \o p
    <3>1. w[k + 1] = w[(k + 1) - 1] \o p
      BY <1>2, <2>1, Zenon DEF Written, n
    <3>2. (k + 1) - 1 = k
      OBVIOUS
    <3> QED BY <3>1, <3>2, Zenon
  <2>5. k + 1 <= Len(w[k + 1]) /\ Len(w[k + 1]) <= m /\ Len(w[k]) \in Nat /\ Len(w[k + 1]) \in Nat
        /\ w[k] \in Seq(Byte)
    BY <1>5, <2>1
  <2>6. k + 1 \in 1 .. m /\ k \in 0 .. m
    BY <1>3, <2>5
  <2>7. st \in Reading
    BY <1>4, <2>6 DEF Read, m
  <2>8. f[k + 1] = DecodeTurn(raw, st)
    <3>1. f[k + 1] = DecodeTurn(raw, f[(k + 1) - 1])
      BY <1>4, <2>6, Zenon DEF Read, m
    <3>2. (k + 1) - 1 = k
      OBVIOUS
    <3> QED BY <3>1, <3>2, Zenon
  <2>9. st.ok /\ st.at = Len(w[k]) + 1 /\ Len(st.path) = k
        /\ \A i \in 1 .. k : st.path[i] = bytes[i]
    BY <2>1
  <2> HIDE DEF c, p, st
  <2>10. Len(w[k + 1]) = Len(w[k]) + Len(p)
         /\ \A i \in 1 .. Len(p) : w[k + 1][Len(w[k]) + i] = p[i]
    BY <2>3, <2>4, <2>5
  <2>11. st.at + Len(p) <= m + 1
    BY <1>3, <2>3, <2>5, <2>9, <2>10
  <2>12. ASSUME NEW i \in 1 .. Len(p) PROVE raw[st.at - 1 + i] = p[i]
    <3>1. Len(w[k]) + i \in 1 .. Len(w[k + 1]) /\ st.at - 1 + i = Len(w[k]) + i
      BY <2>3, <2>5, <2>9, <2>10
    <3>2. raw[Len(w[k]) + i] = w[k + 1][Len(w[k]) + i]
      BY <1>5, <2>1, <3>1
    <3> QED BY <2>10, <3>1, <3>2
  <2>13. /\ f[k + 1].ok
         /\ f[k + 1].path = Append(st.path, c)
         /\ f[k + 1].at = st.at + Len(p)
    <3>1. /\ DecodeTurn(raw, st).ok
          /\ DecodeTurn(raw, st).path = Append(st.path, c)
          /\ DecodeTurn(raw, st).at = st.at + Len(p)
      BY <1>3, <2>2, <2>7, <2>9, <2>11, <2>12, TurnReadsPrinted DEF p, m
    <3> QED BY <2>8, <3>1, Zenon
  <2>14. f[k + 1].at = Len(w[k + 1]) + 1
    BY <2>3, <2>5, <2>9, <2>10, <2>13
  <2>15. Len(f[k + 1].path) = k + 1 /\ \A i \in 1 .. k + 1 : f[k + 1].path[i] = bytes[i]
    <3>1. st.path \in Seq(Byte)
      BY <2>7 DEF Reading
    <3> QED BY <2>2, <2>9, <2>13, <3>1 DEF c
  <2> QED BY <2>13, <2>14, <2>15
<1>8. Reached(n) /\ n <= m
  <2>1. n \in R
    <3> HIDE DEF R
    <3> QED BY <1>1, <1>6, <1>7, NatInductionOnSets
  <2>2. n \in 0 .. n
    BY <1>1
  <2>3. Reached(n)
    BY <1>1, <2>1
  <2>4. n <= Len(w[n]) /\ Len(w[n]) <= m /\ Len(w[n]) \in Nat
    BY <1>5, <2>2
  <2>5. n <= m
    BY <1>1, <1>3, <2>4
  <2> HIDE DEF Reached
  <2> QED BY <2>3, <2>5
<1>9. f[m] = f[n]
  <2> DEFINE Q == {k \in Nat : n + k <= m => f[n + k] = f[n]}
  <2>1. 0 \in Q
    BY <1>1
  <2>2. ASSUME NEW k \in Nat, k \in Q PROVE k + 1 \in Q
    <3> SUFFICES ASSUME n + (k + 1) <= m PROVE f[n + (k + 1)] = f[n]
      OBVIOUS
    <3>1. n + (k + 1) \in 1 .. m /\ (n + (k + 1)) - 1 = n + k /\ n + k <= m
      BY <1>1, <1>3
    <3>2. f[n + k] = f[n]
      BY <2>2, <3>1
    <3>3. f[n + (k + 1)] = DecodeTurn(raw, f[n + k])
      <4>1. f[n + (k + 1)] = DecodeTurn(raw, f[(n + (k + 1)) - 1])
        BY <1>4, <3>1, Zenon DEF Read, m
      <4> QED BY <3>1, <4>1, Zenon
    <3>4. f[n].at > m
      BY <1>2, <1>3, <1>8 DEF m
    <3> QED BY <3>2, <3>3, <3>4, Zenon DEF DecodeTurn, m
  <2>3. m - n \in Nat /\ n + (m - n) = m
    BY <1>1, <1>3, <1>8
  <2>4. m - n \in Q
    <3> HIDE DEF Q
    <3> QED BY <2>1, <2>2, <2>3, NatInductionOnSets
  <2>5. f[n + (m - n)] = f[n]
    BY <1>3, <2>3, <2>4
  <2> QED BY <2>3, <2>5, Zenon
<1>10. f[n].path = bytes
  <2>1. f[n].path \in Seq(Byte)
    BY <1>1, <1>4, <1>8, <1>3 DEF Read, Reading, m
  <2>2. Len(f[n].path) = Len(bytes) /\ \A i \in 1 .. Len(bytes) : f[n].path[i] = bytes[i]
    BY <1>8 DEF n
  <2> QED BY <1>1, <2>1, <2>2
<1> QED BY <1>4, <1>8, <1>9, <1>10 DEF raw

\* What zfs prints for the name of a file leads back to that name alone, or to none when
\* a control character is in it; and whatever text leads to a name is what zfs prints for
\* it.  So no two files are taken for one another, of names of any length.
THEOREM RoundTripsAreExact == PathsSpec => []RoundTripIsExact
<1>1. PathsInv => RoundTripIsExact
  <2> SUFFICES ASSUME PathsInv PROVE RoundTripIsExact
    OBVIOUS
  <2>1. ASSUME 0 \notin ToSet(text)
        PROVE  RoundTripZfsPath(EncodeZfsPath(text)) =
                 IF ContainsControlChar(text) THEN NotDecodable ELSE [ok |-> TRUE, path |-> text]
    <3>1. text \in Seq(NameByte)
      <4>1. text \in Seq(Byte) /\ \A i \in 1 .. Len(text) : text[i] \in Byte /\ text[i] # 0
        BY <2>1 DEF PathsInv, ToSet
      <4>2. \A i \in 1 .. Len(text) : text[i] \in NameByte
        BY <4>1 DEF NameByte, Byte
      <4> QED BY <4>1, <4>2, ElementsMakeSeq
    <3>2. DecodeZfsPath(EncodeZfsPath(text)) = [ok |-> TRUE, path |-> text]
      BY <3>1, NameIsReadBack
    <3> QED BY <3>2 DEF RoundTripZfsPath
  <2>2. ASSUME RoundTripZfsPath(text).ok
        PROVE  EncodeZfsPath(RoundTripZfsPath(text).path) = text
    BY <2>2 DEF RoundTripZfsPath, NotDecodable
  <2> QED BY <2>1, <2>2 DEF RoundTripIsExact
<1> QED BY <1>1, PathsInvariant, PTL

(***************************************************************************)
(* PATH_PREFIX.                                                            *)
(***************************************************************************)

LEMMA PrefixByPlace ==
    ASSUME NEW s \in Seq(Byte), NEW t \in Seq(Byte)
    PROVE  IsPrefix(s, t) <=> Len(s) <= Len(t) /\ \A i \in 1 .. Len(s) : s[i] = t[i]
<1> DEFINE a == SubSeq(s, 1, Len(s))
           b == SubSeq(t, 1, Len(s))
<1>1. Len(s) \in Nat /\ Len(t) \in Nat
  OBVIOUS
<1> SUFFICES ASSUME Len(s) <= Len(t)
             PROVE  a = b <=> \A i \in 1 .. Len(s) : s[i] = t[i]
  BY DEF IsPrefix
<1>2. a \in Seq(Byte) /\ Len(a) = Len(s) /\ \A i \in 1 .. Len(s) : a[i] = s[i]
  BY <1>1
<1>3. b \in Seq(Byte) /\ Len(b) = Len(s) /\ \A i \in 1 .. Len(s) : b[i] = t[i]
  BY <1>1
<1> HIDE DEF a, b
<1>4. ASSUME a = b PROVE \A i \in 1 .. Len(s) : s[i] = t[i]
  BY <1>2, <1>3, <1>4
<1>5. ASSUME \A i \in 1 .. Len(s) : s[i] = t[i] PROVE a = b
  <2>1. \A i \in 1 .. Len(s) : a[i] = b[i]
    BY <1>2, <1>3, <1>5
  <2> QED BY <1>1, <1>2, <1>3, <2>1
<1> QED BY <1>4, <1>5

\* withinPathPrefix asks whether the prefix is the path or a directory it lies in.
LEMMA WithinIsBelow ==
    ASSUME NEW prefix \in Seq(Byte), NEW path \in Seq(Byte)
    PROVE  WithinPathPrefix(prefix, path) <=> prefix \in AndDirectories(path) \cup {<<>>}
<1> DEFINE n == Len(prefix)
           m == Len(path)
           below == Append(prefix, Slash)
<1>1. n \in Nat /\ m \in Nat /\ DOMAIN path = 1 .. m
  OBVIOUS
<1>2. below \in Seq(Byte) /\ Len(below) = n + 1 /\ below[n + 1] = Slash
      /\ \A i \in 1 .. n : below[i] = prefix[i]
  BY DEF Slash, Byte
<1> HIDE DEF below
<1>3. ASSUME IsPrefix(below, path)
      PROVE  \E k \in 1 .. m : path[k] = Slash /\ prefix = SubSeq(path, 1, k - 1)
  <2>1. n + 1 <= m /\ \A i \in 1 .. n + 1 : below[i] = path[i]
    BY <1>2, <1>3, PrefixByPlace
  <2>2. n + 1 \in 1 .. m /\ path[n + 1] = Slash
    BY <1>1, <1>2, <2>1
  <2> DEFINE t == SubSeq(path, 1, n)
  <2>3. t \in Seq(Byte) /\ Len(t) = n /\ \A i \in 1 .. n : t[i] = path[i]
    BY <1>1, <2>1
  <2>4. t = prefix
    <3> HIDE DEF t
    <3>1. \A i \in 1 .. n : t[i] = prefix[i]
      BY <1>1, <1>2, <2>1, <2>3
    <3> QED BY <2>3, <3>1
  <2>5. (n + 1) - 1 = n
    BY <1>1
  <2> QED BY <2>2, <2>4, <2>5
<1>4. ASSUME NEW k \in 1 .. m, path[k] = Slash, prefix = SubSeq(path, 1, k - 1)
      PROVE  IsPrefix(below, path)
  <2>1. n = k - 1 /\ \A i \in 1 .. k - 1 : prefix[i] = path[i]
    BY <1>1, <1>4
  <2>2. n + 1 <= m /\ n + 1 = k
    BY <1>1, <2>1
  <2>3. \A i \in 1 .. n + 1 : below[i] = path[i]
    BY <1>1, <1>2, <1>4, <2>1, <2>2
  <2> QED BY <1>2, <2>2, <2>3, PrefixByPlace
<1>5. prefix \in AndDirectories(path) <=>
        \/ prefix = path
        \/ \E k \in 1 .. m : path[k] = Slash /\ prefix = SubSeq(path, 1, k - 1)
  BY <1>1 DEF AndDirectories
<1> QED BY <1>3, <1>4, <1>5 DEF WithinPathPrefix, below

\* A deleted file is counted exactly when it lies in the directory PATH_PREFIX names,
\* whatever bytes its name is made of, unless a control character is among them.
THEOREM DeletionsWithinCount == PathsSpec => []CountsWhatIsWithin
<1>1. PathsInv => CountsWhatIsWithin
  <2> SUFFICES ASSUME PathsInv, NEW i \in DOMAIN output,
                      output[i].mark = "-", output[i].kind = "F",
                      NameOf(output[i].raw).ok,
                      ~ContainsControlChar(NameOf(output[i].raw).path)
               PROVE  (\E k \in DOMAIN ParseDiff(output).deleted :
                            ParseDiff(output).deleted[k].raw = output[i].raw)
                      <=> pathPrefix \in AndDirectories(NameOf(output[i].raw).path) \cup {<<>>}
    BY DEF CountsWhatIsWithin
  <2> DEFINE line == output[i]
             path == NameOf(line.raw).path
             gone == ParseDiff(output).deleted
  <2>1. line \in DiffLines /\ line.raw \in Seq(Byte) /\ pathPrefix \in Seq(Byte)
        /\ DOMAIN output = 1 .. Len(output) /\ \A j \in DOMAIN output : output[j] \in DiffLines
    BY PathsAssumption DEF PathsInv
  <2>2. path \in Seq(Byte)
    BY <2>1, DecodedIsText DEF NameOf
  <2>3. EncodeZfsPath(path) = line.raw
    BY <2>1, FormatAssumption DEF NameOf
  <2>4. DeletedFile(line.raw).path = path
    <3>1. RoundTripZfsPath(line.raw) = NameOf(line.raw)
      BY <2>3 DEF RoundTripZfsPath, NameOf
    <3> QED BY <3>1 DEF DeletedFile
  <2>5. line # Empty /\ line # Garbled
    <3>1. Empty.mark = "" /\ Garbled.mark = "garbled" /\ line.mark = "-"
      BY DEF Empty, Garbled
    <3> HIDE DEF line
    <3> QED BY <3>1
  <2>6. Deletes(line) <=> WithinPathPrefix(pathPrefix, path)
    BY <2>4, <2>5 DEF Deletes
  <2>7. ToSet(gone) = {DeletedFile(output[j].raw) : j \in {j \in DOMAIN output : Deletes(output[j])}}
    BY ParseDiffCounts DEF PathsInv
  <2>8. \A raw : DeletedFile(raw).raw = raw
    BY DEF DeletedFile
  <2>9. (\E k \in DOMAIN gone : gone[k].raw = line.raw) <=> \E file \in ToSet(gone) : file.raw = line.raw
    BY DEF ToSet
  <2> HIDE DEF gone
  <2>10. ASSUME Deletes(line) PROVE \E file \in ToSet(gone) : file.raw = line.raw
    <3>1. DeletedFile(line.raw) \in ToSet(gone)
      BY <2>7, <2>10
    <3> QED BY <2>8, <3>1
  <2>11. ASSUME NEW file \in ToSet(gone), file.raw = line.raw PROVE Deletes(line)
    <3>1. PICK j \in DOMAIN output : Deletes(output[j]) /\ file = DeletedFile(output[j].raw)
      BY <2>7
    <3>2. output[j].raw = line.raw
      BY <2>8, <2>11, <3>1
    <3>3. WithinPathPrefix(pathPrefix, DeletedFile(line.raw).path)
      BY <3>1, <3>2 DEF Deletes
    <3> QED BY <2>5, <3>3 DEF Deletes
  <2>12. WithinPathPrefix(pathPrefix, path) <=> pathPrefix \in AndDirectories(path) \cup {<<>>}
    BY <2>1, <2>2, WithinIsBelow
  <2>13. (\E k \in DOMAIN gone : gone[k].raw = line.raw)
            <=> pathPrefix \in AndDirectories(path) \cup {<<>>}
    BY <2>6, <2>9, <2>10, <2>11, <2>12
  <2> QED BY <2>13 DEF gone
<1> QED BY <1>1, PathsInvariant, PTL

(***************************************************************************)
(* The choice of the snapshots that go.                                    *)
(***************************************************************************)

\* The loops that filter keep what passes, in its order: whatever holds of any two
\* places of the list, the earlier one first, holds of any two that are kept.
LEMMA AmongKeeps ==
    ASSUME NEW S, NEW s \in Seq(S), NEW passing, NEW Rel,
           \A i, j \in 1 .. Len(s) : i < j => <<s[i], s[j]>> \in Rel
    PROVE  /\ Among(s, passing) \in Seq(S)
           /\ ToSet(Among(s, passing)) = ToSet(s) \cap passing
           /\ \A i, j \in 1 .. Len(Among(s, passing)) :
                i < j => <<Among(s, passing)[i], Among(s, passing)[j]>> \in Rel
<1> DEFINE n == Len(s)
           more(v, k) == IF s[k] \in passing THEN Append(v, s[k]) ELSE v
           IsPass(f) == f = [k \in 0 .. n |-> IF k = 0 THEN <<>> ELSE more(f[k - 1], k)]
           kept == CHOOSE f : IsPass(f)
<1>1. n \in Nat /\ DOMAIN s = 1 .. n /\ \A k \in 1 .. n : s[k] \in S
  OBVIOUS
<1>2. \E f : IsPass(f)
  <2> DEFINE step == [k \in 1 .. n |-> [v \in Seq(S) |-> more(v, k)]]
  <2>1. \A k \in 1 .. n : \A v \in Seq(S) : more(v, k) \in Seq(S)
    BY <1>1
  <2> HIDE DEF n, more
  <2>2. step \in [1 .. n -> [Seq(S) -> Seq(S)]]
    BY <2>1
  <2>3. << >> \in Seq(S)
    OBVIOUS
  <2>4. PICK f \in [0 .. n -> Seq(S)] : IsCourse(f, n, << >>, step)
    <3> HIDE DEF step
    <3> QED BY <1>1, <2>2, <2>3, LoopExists, Zenon
  <2>5. ASSUME NEW k \in 0 .. n PROVE f[k] = IF k = 0 THEN <<>> ELSE more(f[k - 1], k)
    <3>1. CASE k = 0
      BY <2>4, <3>1 DEF IsCourse
    <3>2. CASE k # 0
      <4>1. k \in 1 .. n /\ f[k - 1] \in Seq(S)
        BY <1>1, <3>2
      <4>2. f[k] = step[k][f[k - 1]]
        <5> HIDE DEF step
        <5> QED BY <2>4, <3>2 DEF IsCourse
      <4> QED BY <3>2, <4>1, <4>2
    <3> QED BY <3>1, <3>2
  <2>6. IsPass(f)
    BY <2>4, <2>5
  <2> QED BY <2>6
<1>3. IsPass(kept)
  BY <1>2, Zenon
<1>4. Among(s, passing) = kept[n]
  BY DEF Among
<1> HIDE DEF kept, n, more
<1> DEFINE Upto(k) == /\ kept[k] \in Seq(S)
                      /\ ToSet(kept[k]) = {s[i] : i \in 1 .. k} \cap passing
                      /\ \A i, j \in 1 .. Len(kept[k]) :
                            i < j => <<kept[k][i], kept[k][j]>> \in Rel
           R == {k \in Nat : k <= n => Upto(k)}
<1>5. 0 \in R
  <2>1. kept[0] = << >>
    BY <1>1, <1>3
  <2>2. Upto(0)
    BY <2>1 DEF ToSet
  <2> QED BY <2>2
<1>6. ASSUME NEW k \in Nat, k \in R PROVE k + 1 \in R
  <2> SUFFICES ASSUME k + 1 <= n PROVE Upto(k + 1)
    OBVIOUS
  <2>1. Upto(k) /\ k + 1 \in 1 .. n
    BY <1>1, <1>6
  <2> DEFINE v == kept[k]
             x == s[k + 1]
             m == Len(v)
  <2>2. kept[k + 1] = more(v, k + 1)
    BY <1>1, <1>3, <2>1
  <2>3. v \in Seq(S) /\ x \in S /\ m \in Nat /\ DOMAIN v = 1 .. m
        /\ ToSet(v) = {s[i] : i \in 1 .. k} \cap passing
        /\ \A i, j \in 1 .. m : i < j => <<v[i], v[j]>> \in Rel
    BY <1>1, <2>1
  <2>4. {s[i] : i \in 1 .. k + 1} = {s[i] : i \in 1 .. k} \cup {x}
    BY <2>1
  <2>5. CASE x \notin passing
    <3>1. kept[k + 1] = v
      BY <2>2, <2>5 DEF more
    <3> HIDE DEF v, x
    <3> QED BY <2>3, <2>4, <2>5, <3>1
  <2>6. CASE x \in passing
    <3> DEFINE t == Append(v, x)
    <3>1. kept[k + 1] = t
      BY <2>2, <2>6 DEF more
    <3>2. \A i \in 1 .. m : <<v[i], x>> \in Rel
      <4>1. ASSUME NEW i \in 1 .. m PROVE <<v[i], x>> \in Rel
        <5>1. v[i] \in ToSet(v)
          BY <2>3 DEF ToSet
        <5>2. PICK j \in 1 .. k : v[i] = s[j]
          BY <2>3, <5>1
        <5>3. j \in 1 .. n /\ k + 1 \in 1 .. n /\ j < k + 1
          BY <1>1, <2>1
        <5> QED BY <5>2, <5>3 DEF n
      <4> QED BY <4>1
    <3> HIDE DEF v, x, m
    <3>3. t \in Seq(S) /\ Len(t) = m + 1 /\ DOMAIN t = 1 .. m + 1
          /\ \A i \in 1 .. m : t[i] = v[i]
      BY <2>3 DEF m
    <3>4. t[m + 1] = x
      BY <2>3 DEF m
    <3> HIDE DEF t
    <3>5. ToSet(t) = ToSet(v) \cup {x}
      BY <2>3, <3>3, <3>4 DEF ToSet
    <3>6. ASSUME NEW i \in 1 .. m + 1, NEW j \in 1 .. m + 1, i < j
          PROVE  <<t[i], t[j]>> \in Rel
      <4>1. i \in 1 .. m
        BY <2>3, <3>6
      <4>2. CASE j = m + 1
        BY <3>2, <3>3, <3>4, <4>1, <4>2
      <4>3. CASE j # m + 1
        BY <2>3, <3>3, <3>6, <4>1, <4>3
      <4> QED BY <4>2, <4>3
    <3>7. ToSet(t) = {s[i] : i \in 1 .. k + 1} \cap passing
      BY <2>3, <2>4, <2>6, <3>5
    <3> QED BY <3>1, <3>3, <3>6, <3>7
  <2> QED BY <2>5, <2>6
<1>7. n \in R
  <2> HIDE DEF R
  <2> QED BY <1>1, <1>5, <1>6, NatInductionOnSets
<1>8. Upto(n)
  BY <1>1, <1>7
<1>9. ToSet(s) = {s[i] : i \in 1 .. n}
  BY <1>1 DEF ToSet
<1> QED BY <1>4, <1>8, <1>9

\* Newest first.
Descending(t) == \A i, j \in 1 .. Len(t) : i < j => NewerThan(t[i], t[j])

\* A set of places that has every place before one of its own is a beginning.
LEMMA BeginningIsInterval ==
    ASSUME NEW m \in Nat, NEW T \in SUBSET (1 .. m),
           \A i \in T : \A j \in 1 .. i : j \in T
    PROVE  T = 1 .. Cardinality(T)
<1> DEFINE Out == {k \in Nat : k + 1 \notin T}
<1>1. m \in Out
  OBVIOUS
<1>2. PICK k \in Out : \A l \in Out : ~ (<<l, k>> \in OpToRel(<, Nat))
  <2>1. Out \in SUBSET Nat /\ Out # {}
    BY <1>1
  <2> HIDE DEF Out
  <2>2. \E k \in Out : \A l \in Out : ~ (<<l, k>> \in OpToRel(<, Nat))
    BY <2>1, WFMin, NatLessThanWellFounded, Zenon
  <2> QED BY <2>2, Zenon
<1>3. \A l \in Out : ~(l < k)
  BY <1>2, Zenon DEF OpToRel
<1>4. ASSUME NEW i \in 1 .. k PROVE i \in T
  <2>1. i - 1 \in Nat /\ i - 1 < k /\ (i - 1) + 1 = i
    OBVIOUS
  <2> QED BY <1>3, <2>1
<1>5. ASSUME NEW i \in T PROVE i \in 1 .. k
  <2>1. k \in Nat /\ k + 1 \notin T /\ i \in Nat /\ i >= 1
    OBVIOUS
  <2>2. ~(k + 1 <= i)
    BY <2>1
  <2> QED BY <2>1, <2>2
<1>6. T = 1 .. k
  BY <1>4, <1>5
<1>7. Cardinality(1 .. k) = k
  BY FS_Interval
<1> QED BY <1>6, <1>7

\* A snapshot inserted behind all that are newer leaves the list newest first.
LEMMA InsertKeepsOrder ==
    ASSUME NEW v \in Seq(Snap), Descending(v), NEW x \in Snap,
           \A i \in 1 .. Len(v) : v[i].name # x.name
    PROVE  Descending(InsertAt(v, Cardinality({i \in DOMAIN v : NewerThan(v[i], x)}) + 1, x))
<1> DEFINE m == Len(v)
           T == {i \in DOMAIN v : NewerThan(v[i], x)}
           c == Cardinality(T)
           t == InsertAt(v, c + 1, x)
<1>1. m \in Nat /\ DOMAIN v = 1 .. m /\ \A i \in 1 .. m : v[i] \in Snap
  OBVIOUS
<1>2. ASSUME NEW i \in T, NEW j \in 1 .. i PROVE j \in T
  <2>1. i \in 1 .. m /\ j \in 1 .. m /\ NewerThan(v[i], x)
    BY <1>1
  <2>2. CASE j = i
    BY <2>2
  <2>3. CASE j # i
    <3>1. NewerThan(v[j], v[i])
      BY <2>1, <2>3 DEF Descending
    <3>2. NewerThan(v[j], x)
      <4>1. v[i] \in Snap /\ v[j] \in Snap
        BY <1>1, <2>1
      <4> QED BY <2>1, <3>1, <4>1, NewerIsOrder
    <3> QED BY <2>1, <3>2
  <2> QED BY <2>2, <2>3
<1>3. c \in 0 .. m /\ T = 1 .. c
  <2>1. T \in SUBSET (1 .. m)
    BY <1>1
  <2>2. \A i \in T : \A j \in 1 .. i : j \in T
    BY <1>2
  <2> HIDE DEF T, m
  <2>3. T = 1 .. Cardinality(T)
    BY <1>1, <2>1, <2>2, BeginningIsInterval
  <2>4. Cardinality(T) \in 0 .. m
    BY <1>1, <2>1, PlacesAreFew
  <2> QED BY <2>3, <2>4
<1>4. \A i \in 1 .. c : NewerThan(v[i], x)
  BY <1>3
<1>5. \A i \in c + 1 .. m : NewerThan(x, v[i])
  <2>1. ASSUME NEW i \in c + 1 .. m PROVE NewerThan(x, v[i])
    <3>1. i \in 1 .. m /\ i \notin T
      <4> HIDE DEF c, T, m
      <4> QED BY <1>1, <1>3
    <3>2. ~NewerThan(v[i], x) /\ v[i] \in Snap /\ v[i].name # x.name
      BY <1>1, <3>1
    <3> QED BY <3>2, NewerIsOrder
  <2> QED BY <2>1
<1>6. Len(t) = m + 1
      /\ \A i \in 1 .. m + 1 :
            t[i] = IF i < c + 1 THEN v[i] ELSE IF i = c + 1 THEN x ELSE v[i - 1]
  <2>1. c + 1 \in 1 .. m + 1
    <3> HIDE DEF c
    <3> QED BY <1>1, <1>3
  <2> HIDE DEF c
  <2> QED BY <2>1, InsertAtIs DEF IsSplice
<1>7. \A i, j \in 1 .. m : i < j => NewerThan(v[i], v[j])
  BY DEF Descending
<1> HIDE DEF m, c, T, t
<1>8. ASSUME NEW i \in 1 .. m + 1, NEW j \in 1 .. m + 1, i < j
      PROVE  NewerThan(t[i], t[j])
  <2>0. c \in Nat /\ c <= m
    BY <1>1, <1>3
  <2>1. CASE j < c + 1
    <3>1. t[i] = v[i] /\ t[j] = v[j] /\ i \in 1 .. m /\ j \in 1 .. m
      BY <1>1, <1>6, <1>8, <2>0, <2>1
    <3> QED BY <1>7, <1>8, <3>1
  <2>2. CASE j = c + 1
    <3>1. t[i] = v[i] /\ t[j] = x /\ i \in 1 .. c
      BY <1>6, <1>8, <2>0, <2>2
    <3> QED BY <1>4, <3>1
  <2>3. CASE j > c + 1
    <3>1. t[j] = v[j - 1] /\ j - 1 \in c + 1 .. m /\ j - 1 \in 1 .. m
      BY <1>1, <1>6, <2>0, <2>3
    <3>2. CASE i < c + 1
      <4>1. t[i] = v[i] /\ i \in 1 .. m /\ i < j - 1
        BY <1>1, <1>6, <1>8, <2>0, <2>3, <3>2
      <4> QED BY <1>7, <3>1, <4>1
    <3>3. CASE i = c + 1
      <4>1. t[i] = x
        BY <1>6, <2>0, <3>3
      <4> QED BY <1>5, <3>1, <4>1
    <3>4. CASE i > c + 1
      <4>1. t[i] = v[i - 1] /\ i - 1 \in 1 .. m /\ i - 1 < j - 1
        BY <1>1, <1>6, <1>8, <2>0, <3>4
      <4> QED BY <1>7, <3>1, <4>1
    <3> QED BY <2>0, <3>2, <3>3, <3>4
  <2> QED BY <2>0, <2>1, <2>2, <2>3
<1>9. Descending(t)
  BY <1>6, <1>8 DEF Descending
<1> QED BY <1>9 DEF t, c, T

LEMMA SortNewestFirstSorts ==
    ASSUME NEW s \in Seq(Snap), Distinct(s)
    PROVE  /\ SortNewestFirst(s) \in Seq(Snap)
           /\ Len(SortNewestFirst(s)) = Len(s)
           /\ ToSet(SortNewestFirst(s)) = ToSet(s)
           /\ Descending(SortNewestFirst(s))
<1> DEFINE n == Len(s)
           place(v, k) == Cardinality({i \in DOMAIN v : NewerThan(v[i], s[k])}) + 1
           IsPass(f) == f = [k \in 0 .. n |->
                IF k = 0 THEN <<>> ELSE InsertAt(f[k - 1], place(f[k - 1], k), s[k])]
           sorted == CHOOSE f : IsPass(f)
<1>1. n \in Nat /\ \A k \in 1 .. n : s[k] \in Snap
  OBVIOUS
<1>2. ASSUME NEW k \in 1 .. n, NEW v \in Seq(Snap) PROVE place(v, k) \in 1 .. Len(v) + 1
  <2> DEFINE T == {i \in DOMAIN v : NewerThan(v[i], s[k])}
  <2>1. Len(v) \in Nat /\ T \in SUBSET (1 .. Len(v))
    OBVIOUS
  <2>2. Cardinality(T) \in 0 .. Len(v)
    <3> HIDE DEF T
    <3> QED BY <2>1, PlacesAreFew
  <2> HIDE DEF T
  <2>3. Cardinality(T) + 1 \in 1 .. Len(v) + 1
    BY <2>1, <2>2
  <2> QED BY <2>3 DEF T
<1>3. \E f : IsPass(f)
  <2> DEFINE step == [k \in 1 .. n |-> [v \in Seq(Snap) |-> InsertAt(v, place(v, k), s[k])]]
  <2> HIDE DEF place, n
  <2>1. step \in [1 .. n -> [Seq(Snap) -> Seq(Snap)]]
    BY <1>1, <1>2, InsertAtIs DEF IsSplice
  <2>2. << >> \in Seq(Snap)
    OBVIOUS
  <2>3. PICK f \in [0 .. n -> Seq(Snap)] : IsCourse(f, n, << >>, step)
    <3> HIDE DEF step
    <3> QED BY <1>1, <2>1, <2>2, LoopExists, Zenon
  <2>4. ASSUME NEW k \in 0 .. n
        PROVE  f[k] = IF k = 0 THEN <<>> ELSE InsertAt(f[k - 1], place(f[k - 1], k), s[k])
    <3>1. CASE k = 0
      BY <2>3, <3>1 DEF IsCourse
    <3>2. CASE k # 0
      <4>1. k \in 1 .. n /\ k - 1 \in 0 .. n /\ f[k - 1] \in Seq(Snap)
        BY <1>1, <3>2
      <4>2. f[k] = step[k][f[k - 1]]
        <5> HIDE DEF step
        <5> QED BY <2>3, <3>2 DEF IsCourse
      <4> QED BY <3>2, <4>1, <4>2
    <3> QED BY <3>1, <3>2
  <2>5. IsPass(f)
    BY <2>3, <2>4
  <2> QED BY <2>5
<1>4. IsPass(sorted)
  BY <1>3, Zenon
<1>5. SortNewestFirst(s) = sorted[n]
  BY DEF SortNewestFirst
<1> HIDE DEF sorted, n
<1> DEFINE Upto(k) == /\ sorted[k] \in Seq(Snap)
                      /\ Len(sorted[k]) = k
                      /\ ToSet(sorted[k]) = {s[i] : i \in 1 .. k}
                      /\ Descending(sorted[k])
           R == {k \in Nat : k <= n => Upto(k)}
<1>6. 0 \in R
  <2>1. sorted[0] = << >>
    BY <1>1, <1>4
  <2>2. Upto(0)
    BY <2>1 DEF ToSet, Descending
  <2> QED BY <2>2
<1>7. ASSUME NEW k \in Nat, k \in R PROVE k + 1 \in R
  <2> SUFFICES ASSUME k + 1 <= n PROVE Upto(k + 1)
    OBVIOUS
  <2>1. Upto(k) /\ k + 1 \in 1 .. n
    BY <1>1, <1>7
  <2> DEFINE v == sorted[k]
             x == s[k + 1]
             p == place(v, k + 1)
  <2>2. sorted[k + 1] = InsertAt(v, p, x)
    <3> HIDE DEF place
    <3> QED BY <1>1, <1>4, <2>1
  <2>3. v \in Seq(Snap) /\ p \in 1 .. Len(v) + 1 /\ x \in Snap
    <3> HIDE DEF place
    <3> QED BY <1>1, <1>2, <2>1
  <2>4. ToSet(v) = {s[i] : i \in 1 .. k} /\ Len(v) = k /\ Descending(v)
    BY <2>1
  <2>5. \A i \in 1 .. Len(v) : v[i].name # x.name
    <3>1. ASSUME NEW i \in 1 .. Len(v) PROVE v[i].name # x.name
      <4>1. v[i] \in ToSet(v)
        BY <2>3 DEF ToSet
      <4>2. PICK j \in 1 .. k : v[i] = s[j]
        BY <2>4, <4>1
      <4>3. j \in 1 .. Len(s) /\ k + 1 \in 1 .. Len(s) /\ j # k + 1
        BY <2>1 DEF n
      <4> QED BY <4>2, <4>3 DEF Distinct
    <3> QED BY <3>1
  <2>6. Descending(InsertAt(v, p, x))
    <3> HIDE DEF v, x
    <3>1. Descending(InsertAt(v, Cardinality({i \in DOMAIN v : NewerThan(v[i], x)}) + 1, x))
      BY <2>3, <2>4, <2>5, InsertKeepsOrder
    <3> QED BY <3>1 DEF x
  <2> HIDE DEF v, p, x, Upto
  <2>7. sorted[k + 1] \in Seq(Snap) /\ Len(sorted[k + 1]) = k + 1
    BY <2>2, <2>3, <2>4, InsertAtIs DEF IsSplice
  <2>8. ToSet(sorted[k + 1]) = {s[i] : i \in 1 .. k} \cup {x}
    BY <2>2, <2>3, <2>4, InsertAtKeeps
  <2>9. {s[i] : i \in 1 .. k} \cup {x} = {s[i] : i \in 1 .. k + 1}
    BY <2>1 DEF x
  <2> QED BY <2>2, <2>6, <2>7, <2>8, <2>9 DEF Upto
<1>8. n \in R
  <2> HIDE DEF R
  <2> QED BY <1>1, <1>6, <1>7, NatInductionOnSets
<1>9. Upto(n)
  BY <1>1, <1>8
<1>10. ToSet(s) = {s[i] : i \in 1 .. n}
  BY DEF ToSet, n
<1> QED BY <1>5, <1>9, <1>10 DEF n

\* A stretch of a list newest first holds as many snapshots as places.
LEMMA StretchCounts ==
    ASSUME NEW t \in Seq(Snap), Descending(t),
           NEW a \in 1 .. Len(t) + 1, NEW b \in 0 .. Len(t), a <= b + 1
    PROVE  Cardinality({t[j] : j \in a .. b}) = b - a + 1
<1> DEFINE I == a .. b
           P == {t[j] : j \in I}
           f == [j \in I |-> t[j]]
<1>1. IsFiniteSet(I) /\ Cardinality(I) = b - a + 1
  <2>1. a \in Int /\ b \in Int /\ (a > b => b - a + 1 = 0)
    OBVIOUS
  <2> QED BY <2>1, FS_Interval
<1>2. f \in Surjection(I, P)
  BY DEF Surjection
<1>3. f \in Injection(I, P)
  <2>1. ASSUME NEW i \in I, NEW j \in I, i < j PROVE t[i] # t[j]
    <3>1. i \in 1 .. Len(t) /\ j \in 1 .. Len(t) /\ t[i] \in Snap /\ t[j] \in Snap
      OBVIOUS
    <3>2. NewerThan(t[i], t[j])
      BY <2>1, <3>1 DEF Descending
    <3> QED BY <3>1, <3>2, NewerIsOrder
  <2>2. ASSUME NEW i \in I, NEW j \in I, f[i] = f[j] PROVE i = j
    <3>1. i \in Int /\ j \in Int /\ t[i] = t[j]
      BY <2>2
    <3> QED BY <2>1, <3>1
  <2>3. f \in [I -> P]
    OBVIOUS
  <2> HIDE DEF f, I, P
  <2> QED BY <2>2, <2>3 DEF Injection, IsInjective
<1> HIDE DEF I, P, f
<1>4. Cardinality(P) = Cardinality(I)
  BY <1>1, <1>2, <1>3, FS_Surjection
<1> QED BY <1>1, <1>4 DEF P, I

\* In a list newest first the snapshots that are newer than one stand before it,
\* those that are older behind it.
LEMMA PlaceIsRank ==
    ASSUME NEW t \in Seq(Snap), Descending(t), NEW i \in 1 .. Len(t)
    PROVE  /\ Cardinality({x \in ToSet(t) : NewerThan(x, t[i])}) = i - 1
           /\ Cardinality({x \in ToSet(t) : NewerThan(t[i], x)}) = Len(t) - i
<1>1. ToSet(t) = {t[j] : j \in 1 .. Len(t)}
  BY DEF ToSet
<1>2. \A j \in 1 .. Len(t) : t[j] \in Snap
  OBVIOUS
<1>3. {x \in ToSet(t) : NewerThan(x, t[i])} = {t[j] : j \in 1 .. i - 1}
  <2>1. ASSUME NEW j \in 1 .. Len(t) PROVE NewerThan(t[j], t[i]) <=> j < i
    <3>1. i < j => NewerThan(t[i], t[j])
      BY DEF Descending
    <3>2. j < i => NewerThan(t[j], t[i])
      BY DEF Descending
    <3>3. j = i => ~NewerThan(t[j], t[i])
      BY <1>2, NewerIsOrder
    <3>4. NewerThan(t[i], t[j]) => ~NewerThan(t[j], t[i])
      BY <1>2, NewerIsOrder
    <3> QED BY <3>1, <3>2, <3>3, <3>4
  <2>2. 1 .. i - 1 = {j \in 1 .. Len(t) : j < i}
    OBVIOUS
  <2> QED BY <1>1, <2>1, <2>2
<1>4. {x \in ToSet(t) : NewerThan(t[i], x)} = {t[j] : j \in i + 1 .. Len(t)}
  <2>1. ASSUME NEW j \in 1 .. Len(t) PROVE NewerThan(t[i], t[j]) <=> i < j
    <3>1. i < j => NewerThan(t[i], t[j])
      BY DEF Descending
    <3>2. j < i => NewerThan(t[j], t[i])
      BY DEF Descending
    <3>3. j = i => ~NewerThan(t[i], t[j])
      BY <1>2, NewerIsOrder
    <3>4. NewerThan(t[j], t[i]) => ~NewerThan(t[i], t[j])
      BY <1>2, NewerIsOrder
    <3> QED BY <3>1, <3>2, <3>3, <3>4
  <2>2. i + 1 .. Len(t) = {j \in 1 .. Len(t) : i < j}
    OBVIOUS
  <2> QED BY <1>1, <2>1, <2>2
<1>5. Cardinality({t[j] : j \in 1 .. i - 1}) = (i - 1) - 1 + 1
  <2>1. 1 \in 1 .. Len(t) + 1 /\ i - 1 \in 0 .. Len(t) /\ 1 <= (i - 1) + 1
    OBVIOUS
  <2> QED BY <2>1, StretchCounts
<1>6. Cardinality({t[j] : j \in i + 1 .. Len(t)}) = Len(t) - (i + 1) + 1
  <2>1. i + 1 \in 1 .. Len(t) + 1 /\ Len(t) \in 0 .. Len(t) /\ i + 1 <= Len(t) + 1
    OBVIOUS
  <2> QED BY <2>1, StretchCounts
<1>7. (i - 1) - 1 + 1 = i - 1 /\ Len(t) - (i + 1) + 1 = Len(t) - i
  <2> DEFINE n == Len(t)
  <2>1. n \in Nat /\ i \in Nat
    OBVIOUS
  <2> HIDE DEF n
  <2>2. n - (i + 1) + 1 = n - i
    BY <2>1
  <2> QED BY <2>2 DEF n
<1> QED
  <2>1. Cardinality({x \in ToSet(t) : NewerThan(x, t[i])}) = i - 1
    BY <1>3, <1>5, <1>7
  <2>2. Cardinality({x \in ToSet(t) : NewerThan(t[i], x)}) = Len(t) - i
    BY <1>4, <1>6, <1>7, Zenon
  <2> QED BY <2>1, <2>2

\* What SnapshotsToDelete turns around and cuts is the snapshots that are too old,
\* newest first.
LEMMA ToDeleteCuts ==
    ASSUME ListInv
    PROVE  \E old \in Seq(Snap) : /\ Descending(old)
                                  /\ ToSet(old) = TooOld(Listed, now)
                                  /\ ToDelete(list, now) = OldestFirst(old)
<1> DEFINE mine == Among(list, {s \in ToSet(list) : s.name \notin ForeignNames})
           own == SortNewestFirst(mine)
           L == Len(own)
           candidates == SubSeq(own, MinimumKept + 1, L)
           tooOld == Among(candidates,
                        {s \in ToSet(candidates) : Before(s.created, DaysAgo(now, KeepDays))})
<1>0. list \in Seq(Snap) /\ Distinct(list) /\ MinimumKept \in Nat /\ MaxDeletePerRun \in Nat
  BY RetentionAssumption DEF ListInv
<1>1. mine \in Seq(Snap) /\ ToSet(mine) = Own(Listed) /\ Distinct(mine)
  <2> DEFINE Named == {p \in Snap \X Snap : p[1].name # p[2].name}
             passing == {s \in ToSet(list) : s.name \notin ForeignNames}
  <2>1. \A i, j \in 1 .. Len(list) : i < j => <<list[i], list[j]>> \in Named
    BY <1>0 DEF Distinct
  <2> HIDE DEF Named, passing
  <2>2. /\ Among(list, passing) \in Seq(Snap)
        /\ ToSet(Among(list, passing)) = ToSet(list) \cap passing
        /\ \A i, j \in 1 .. Len(Among(list, passing)) :
              i < j => <<Among(list, passing)[i], Among(list, passing)[j]>> \in Named
    BY <1>0, <2>1, AmongKeeps
  <2>3. mine \in Seq(Snap) /\ ToSet(mine) = Own(Listed)
    BY <2>2 DEF passing, Own, Listed
  <2>4. ASSUME NEW i \in 1 .. Len(mine), NEW j \in 1 .. Len(mine), i < j
        PROVE  mine[i].name # mine[j].name
    BY <2>2, <2>4 DEF Named, passing
  <2> HIDE DEF mine
  <2>5. Distinct(mine)
    <3>1. ASSUME NEW i \in 1 .. Len(mine), NEW j \in 1 .. Len(mine),
                 mine[i].name = mine[j].name
          PROVE  i = j
      <4>1. i \in Int /\ j \in Int
        OBVIOUS
      <4> QED BY <2>4, <3>1, <4>1
    <3> QED BY <3>1 DEF Distinct
  <2> QED BY <2>3, <2>5
<1> HIDE DEF mine
<1>2. own \in Seq(Snap) /\ ToSet(own) = Own(Listed) /\ Descending(own) /\ L \in Nat
      /\ ToSet(own) = {own[j] : j \in 1 .. L}
  <2>1. own \in Seq(Snap) /\ ToSet(own) = Own(Listed) /\ Descending(own)
    BY <1>1, SortNewestFirstSorts
  <2> HIDE DEF own
  <2> QED BY <2>1 DEF ToSet
<1>3. ToDelete(list, now) = IF L <= MinimumKept THEN <<>> ELSE OldestFirst(tooOld)
  BY DEF ToDelete, mine
<1> HIDE DEF own
<1>4. Candidates(Listed) = {own[j] : j \in MinimumKept + 1 .. L}
  <2>1. ASSUME NEW j \in 1 .. L PROVE Rank(own[j], Own(Listed)) = j - 1
    BY <1>2, PlaceIsRank DEF Rank
  <2>2. Candidates(Listed) = {s \in {own[j] : j \in 1 .. L} : Rank(s, Own(Listed)) >= MinimumKept}
    BY <1>2 DEF Candidates
  <2> HIDE DEF L
  <2>3. MinimumKept + 1 .. L = {j \in 1 .. L : j - 1 >= MinimumKept}
    BY <1>0, <1>2
  <2> QED BY <2>1, <2>2, <2>3
<1>5. CASE L <= MinimumKept
  <2>1. Candidates(Listed) = {}
    <3> HIDE DEF L
    <3> QED BY <1>0, <1>2, <1>4, <1>5
  <2>2. TooOld(Listed, now) = {}
    BY <2>1 DEF TooOld
  <2>3. ToDelete(list, now) = <<>>
    BY <1>3, <1>5
  <2>4. OldestFirst(<<>>) = <<>>
    <3>1. Reverse(<<>>) = <<>>
      BY DEF Reverse
    <3> QED BY <1>0, <3>1 DEF OldestFirst
  <2>5. << >> \in Seq(Snap) /\ Descending(<<>>) /\ ToSet(<<>>) = {}
    BY DEF Descending, ToSet
  <2> QED BY <2>2, <2>3, <2>4, <2>5
<1>6. CASE L > MinimumKept
  <2>1. candidates \in Seq(Snap) /\ Len(candidates) = L - MinimumKept
        /\ \A i \in 1 .. L - MinimumKept : candidates[i] = own[i + MinimumKept]
    <3>1. candidates \in Seq(Snap)
      BY <1>0, <1>2
    <3>2. Len(candidates) = L - MinimumKept
      BY <1>0, <1>2, <1>6
    <3>3. ASSUME NEW i \in 1 .. L - MinimumKept PROVE candidates[i] = own[i + MinimumKept]
      BY <1>0, <1>2, <1>6
    <3> QED BY <3>1, <3>2, <3>3
  <2>2. \A i, j \in 1 .. L : i < j => NewerThan(own[i], own[j])
    BY <1>2 DEF Descending
  <2> HIDE DEF candidates, L
  <2>3. ToSet(candidates) = Candidates(Listed)
    <3>1. ToSet(candidates) = {candidates[i] : i \in 1 .. L - MinimumKept}
      BY <2>1 DEF ToSet
    <3>2. ASSUME NEW j \in MinimumKept + 1 .. L
          PROVE  \E i \in 1 .. L - MinimumKept : candidates[i] = own[j]
      <4>1. j - MinimumKept \in 1 .. L - MinimumKept /\ (j - MinimumKept) + MinimumKept = j
        BY <1>0, <1>2
      <4>2. candidates[j - MinimumKept] = own[(j - MinimumKept) + MinimumKept]
        BY <2>1, <4>1
      <4> QED BY <4>1, <4>2
    <3>3. ASSUME NEW i \in 1 .. L - MinimumKept
          PROVE  \E j \in MinimumKept + 1 .. L : candidates[i] = own[j]
      <4>1. i + MinimumKept \in MinimumKept + 1 .. L
        BY <1>0, <1>2
      <4> QED BY <2>1, <4>1
    <3> QED BY <1>4, <3>1, <3>2, <3>3
  <2> DEFINE Newer == {p \in Snap \X Snap : NewerThan(p[1], p[2])}
             passing == {s \in ToSet(candidates) : Before(s.created, DaysAgo(now, KeepDays))}
  <2>4. ASSUME NEW i \in 1 .. Len(candidates), NEW j \in 1 .. Len(candidates), i < j
        PROVE  <<candidates[i], candidates[j]>> \in Newer
    <3> DEFINE d == i + MinimumKept
               e == j + MinimumKept
    <3>1. d \in 1 .. L /\ e \in 1 .. L /\ d < e
          /\ i \in 1 .. L - MinimumKept /\ j \in 1 .. L - MinimumKept
      BY <1>0, <1>2, <2>1, <2>4
    <3>2. candidates[i] = own[d] /\ candidates[j] = own[e]
      BY <2>1, <3>1
    <3>3. NewerThan(own[d], own[e])
      <4> HIDE DEF d, e
      <4> QED BY <2>2, <3>1
    <3>4. candidates[i] \in Snap /\ candidates[j] \in Snap
      BY <2>1
    <3> QED BY <3>2, <3>3, <3>4
  <2> HIDE DEF Newer, passing
  <2>5. /\ Among(candidates, passing) \in Seq(Snap)
        /\ ToSet(Among(candidates, passing)) = ToSet(candidates) \cap passing
        /\ \A i, j \in 1 .. Len(Among(candidates, passing)) :
              i < j => <<Among(candidates, passing)[i], Among(candidates, passing)[j]>> \in Newer
    BY <2>1, <2>4, AmongKeeps
  <2>6. tooOld = Among(candidates, passing)
    BY DEF passing
  <2>7. tooOld \in Seq(Snap) /\ ToSet(tooOld) = TooOld(Listed, now)
    BY <2>3, <2>5, <2>6 DEF passing, TooOld
  <2> HIDE DEF tooOld
  <2>8. Descending(tooOld)
    BY <2>5, <2>6 DEF Newer, Descending
  <2>9. ToDelete(list, now) = OldestFirst(tooOld)
    BY <1>0, <1>2, <1>3, <1>6
  <2> QED BY <2>7, <2>8, <2>9
<1>7. L <= MinimumKept \/ L > MinimumKept
  <2> HIDE DEF L
  <2> QED BY <1>0, <1>2
<1> QED BY <1>5, <1>6, <1>7

\* What is picked of a list newest first: its end, in the other order.
LEMMA OldestFirstIs ==
    ASSUME NEW old \in Seq(Snap)
    PROVE  \E c \in 0 .. Len(old) :
              /\ c <= MaxDeletePerRun
              /\ c < Len(old) => c = MaxDeletePerRun
              /\ Len(OldestFirst(old)) = c
              /\ DOMAIN OldestFirst(old) = 1 .. c
              /\ \A i \in 1 .. c : OldestFirst(old)[i] = old[Len(old) - i + 1]
<1> DEFINE m == Len(old)
           turned == Reverse(old)
<1>1. m \in Nat /\ MaxDeletePerRun \in Nat
  BY RetentionAssumption
<1>2. \A i \in 1 .. m : m - i + 1 \in 1 .. m
  <2> HIDE DEF m
  <2> QED BY <1>1
<1>3. turned = [i \in 1 .. m |-> old[m - i + 1]]
  BY DEF Reverse
<1>4. turned \in Seq(Snap) /\ Len(turned) = m
  <2>1. \A i \in 1 .. m : old[i] \in Snap
    OBVIOUS
  <2> HIDE DEF turned, m
  <2>2. \A i \in 1 .. m : old[m - i + 1] \in Snap
    BY <1>2, <2>1
  <2> QED BY <1>1, <1>3, <2>2
<1> HIDE DEF turned
<1>5. OldestFirst(old) = IF m > MaxDeletePerRun THEN SubSeq(turned, 1, MaxDeletePerRun) ELSE turned
  BY <1>4 DEF OldestFirst, turned
<1> HIDE DEF m
<1>6. CASE m > MaxDeletePerRun
  <2> DEFINE r == SubSeq(turned, 1, MaxDeletePerRun)
  <2>1. Len(r) = MaxDeletePerRun /\ DOMAIN r = 1 .. MaxDeletePerRun
    BY <1>1, <1>4, <1>6
  <2>2. \A i \in 1 .. MaxDeletePerRun : r[i] = turned[i]
    BY <1>1, <1>4, <1>6
  <2>3. \A i \in 1 .. MaxDeletePerRun : turned[i] = old[m - i + 1]
    BY <1>1, <1>3, <1>6
  <2> HIDE DEF r
  <2>4. OldestFirst(old) = r
    BY <1>5, <1>6 DEF r
  <2>5. MaxDeletePerRun \in 0 .. m
    BY <1>1, <1>6
  <2>6. /\ MaxDeletePerRun <= MaxDeletePerRun
        /\ Len(OldestFirst(old)) = MaxDeletePerRun
        /\ DOMAIN OldestFirst(old) = 1 .. MaxDeletePerRun
        /\ \A i \in 1 .. MaxDeletePerRun : OldestFirst(old)[i] = old[Len(old) - i + 1]
    BY <1>1, <2>1, <2>2, <2>3, <2>4 DEF m
  <2> QED BY <2>5, <2>6 DEF m
<1>7. CASE ~(m > MaxDeletePerRun)
  <2>1. OldestFirst(old) = turned /\ m \in 0 .. m /\ m <= MaxDeletePerRun
    BY <1>1, <1>5, <1>7
  <2>2. Len(turned) = m /\ DOMAIN turned = 1 .. m
    BY <1>3, <1>4
  <2>3. \A i \in 1 .. m : turned[i] = old[m - i + 1]
    BY <1>3
  <2> HIDE DEF m
  <2>4. /\ Len(OldestFirst(old)) = m
        /\ DOMAIN OldestFirst(old) = 1 .. m
        /\ \A i \in 1 .. m : OldestFirst(old)[i] = old[m - i + 1]
    BY <2>1, <2>2, <2>3
  <2>5. ~(m < m)
    BY <1>1
  <2>6. m \in 0 .. Len(old)
    BY <2>1 DEF m
  <2> WITNESS m \in 0 .. Len(old)
  <2> QED BY <2>1, <2>4, <2>5 DEF m
<1> QED BY <1>6, <1>7

\* The last c of a list newest first, turned around.
LEMMA EndTurned ==
    ASSUME NEW old \in Seq(Snap), Descending(old), NEW c \in 0 .. Len(old), NEW picked,
           Len(picked) = c, DOMAIN picked = 1 .. c,
           \A i \in 1 .. c : picked[i] = old[Len(old) - i + 1]
    PROVE  /\ \A i, j \in 1 .. c : i < j => NewerThan(picked[j], picked[i])
           /\ ToSet(picked) = {old[k] : k \in Len(old) - c + 1 .. Len(old)}
<1> DEFINE m == Len(old)
<1>1. m \in Nat /\ c \in Nat /\ c <= m
  OBVIOUS
<1>2. \A i, j \in 1 .. m : i < j => NewerThan(old[i], old[j])
  BY DEF Descending
<1>3. \A i \in 1 .. c : picked[i] = old[m - i + 1]
  OBVIOUS
<1> HIDE DEF m
<1>4. ASSUME NEW i \in 1 .. c, NEW j \in 1 .. c, i < j
      PROVE  NewerThan(picked[j], picked[i])
  <2>1. m - j + 1 \in 1 .. m /\ m - i + 1 \in 1 .. m /\ m - j + 1 < m - i + 1
    BY <1>1, <1>4
  <2> DEFINE d == m - j + 1
             e == m - i + 1
  <2>2. picked[j] = old[d] /\ picked[i] = old[e]
    BY <1>3
  <2> HIDE DEF d, e
  <2>3. d \in 1 .. m /\ e \in 1 .. m /\ d < e
    BY <2>1 DEF d, e
  <2> QED BY <1>2, <2>2, <2>3
<1>5. ToSet(picked) = {picked[i] : i \in 1 .. c}
  BY DEF ToSet
<1>6. ASSUME NEW k \in m - c + 1 .. m PROVE \E i \in 1 .. c : picked[i] = old[k]
  <2>1. m - k + 1 \in 1 .. c /\ m - (m - k + 1) + 1 = k
    BY <1>1
  <2>2. picked[m - k + 1] = old[m - (m - k + 1) + 1]
    BY <1>3, <2>1
  <2> QED BY <2>1, <2>2
<1>7. ASSUME NEW i \in 1 .. c PROVE \E k \in m - c + 1 .. m : picked[i] = old[k]
  <2>1. m - i + 1 \in m - c + 1 .. m
    BY <1>1
  <2> QED BY <1>3, <2>1
<1>8. ToSet(picked) = {old[k] : k \in m - c + 1 .. m}
  <2> DEFINE I == 1 .. c
             K == m - c + 1 .. m
  <2>1. /\ \A k \in K : \E i \in I : picked[i] = old[k]
        /\ \A i \in I : \E k \in K : picked[i] = old[k]
    BY <1>6, <1>7
  <2> HIDE DEF I, K
  <2>2. {picked[i] : i \in I} = {old[k] : k \in K}
    BY <2>1
  <2> QED BY <1>5, <2>2 DEF I, K
<1> QED BY <1>4, <1>8 DEF m

\* Both properties of a list of the program.
LEMMA ChoiceIsSafe ==
    ASSUME ListInv
    PROVE  SameChoice /\ OldestGoFirst
<1> DEFINE picked == ToDelete(list, now)
<1>1. PICK old \in Seq(Snap) : /\ Descending(old)
                               /\ ToSet(old) = TooOld(Listed, now)
                               /\ ToDelete(list, now) = OldestFirst(old)
  BY ToDeleteCuts
<1> DEFINE m == Len(old)
<1>2. PICK c \in 0 .. m :
              /\ c <= MaxDeletePerRun
              /\ c < m => c = MaxDeletePerRun
              /\ Len(picked) = c
              /\ DOMAIN picked = 1 .. c
              /\ \A i \in 1 .. c : picked[i] = old[m - i + 1]
  BY <1>1, OldestFirstIs
<1> HIDE DEF picked
<1>3. /\ \A i, j \in 1 .. c : i < j => NewerThan(picked[j], picked[i])
      /\ ToSet(picked) = {old[k] : k \in m - c + 1 .. m}
  BY <1>1, <1>2, EndTurned
<1>4. m \in Nat /\ MaxDeletePerRun \in Nat
      /\ (\A k \in 1 .. m : old[k] \in Snap)
      /\ ToSet(old) = {old[k] : k \in 1 .. m}
      /\ \A i, j \in 1 .. m : i < j => NewerThan(old[i], old[j])
  BY <1>1, RetentionAssumption DEF Descending, ToSet
<1>5. ASSUME NEW k \in 1 .. m
      PROVE  Cardinality({t \in ToSet(old) : NewerThan(old[k], t)}) = m - k
  BY <1>1, PlaceIsRank
<1> HIDE DEF m
<1>6. SnapshotsToDelete(Listed, now) = {old[k] : k \in m - c + 1 .. m}
  <2>1. SnapshotsToDelete(Listed, now) =
            {s \in {old[k] : k \in 1 .. m} :
                Cardinality({t \in ToSet(old) : NewerThan(s, t)}) < MaxDeletePerRun}
    BY <1>1, <1>4 DEF SnapshotsToDelete
  <2>2. ASSUME NEW k \in 1 .. m
        PROVE  m - k < MaxDeletePerRun <=> k \in m - c + 1 .. m
    BY <1>2, <1>4
  <2>3. m - c + 1 .. m \subseteq 1 .. m
    BY <1>2, <1>4
  <2> QED BY <1>5, <2>1, <2>2, <2>3
<1>7. IsInjective(picked)
  <2>1. ASSUME NEW i \in 1 .. c, NEW j \in 1 .. c, i < j PROVE picked[i] # picked[j]
    <3>1. m - i + 1 \in 1 .. m /\ picked[i] = old[m - i + 1]
      BY <1>2, <1>4
    <3>2. picked[i] \in Snap
      BY <1>4, <3>1
    <3>3. ~NewerThan(picked[i], picked[i])
      BY <3>2, NewerIsOrder
    <3>4. NewerThan(picked[j], picked[i])
      BY <1>3, <2>1
    <3> QED BY <3>3, <3>4
  <2>2. ASSUME NEW i \in 1 .. c, NEW j \in 1 .. c, picked[i] = picked[j] PROVE i = j
    <3>1. i \in Int /\ j \in Int
      OBVIOUS
    <3> QED BY <2>1, <2>2, <3>1
  <2> QED BY <1>2, <2>2 DEF IsInjective
<1>8. SameChoice
  BY <1>3, <1>6, <1>7 DEF SameChoice, picked
<1>9. ASSUME NEW s \in TooOld(Listed, now) \ ToSet(picked), NEW t \in ToSet(picked)
      PROVE  NewerThan(s, t)
  <2>1. PICK i \in 1 .. m : s = old[i]
    BY <1>1, <1>4
  <2>2. PICK j \in m - c + 1 .. m : t = old[j]
    BY <1>3
  <2>3. i \notin m - c + 1 .. m
    BY <1>3, <2>1
  <2>4. i < j /\ j \in 1 .. m
    BY <1>2, <1>4, <2>3
  <2> QED BY <1>4, <2>1, <2>2, <2>4
<1>10. OldestGoFirst
  BY <1>2, <1>3, <1>9 DEF OldestGoFirst, picked
<1> QED BY <1>8, <1>10

\* On every list `zfs list` can print, in every order, the loops of
\* SnapshotsToDelete pick exactly the snapshots that the three guardrails allow to
\* go, and none twice (retention.go).
THEOREM ChoiceIsExact == ListSpec => []SameChoice
<1>1. ListInv => SameChoice
  BY ChoiceIsSafe
<1> QED BY <1>1, ListInvariant, PTL

\* The names come oldest first, and what the limit on one run leaves for another
\* day is newer than all that go today (retention.go).
THEOREM OldestAreFirst == ListSpec => []OldestGoFirst
<1>1. ListInv => OldestGoFirst
  BY ChoiceIsSafe
<1> QED BY <1>1, ListInvariant, PTL

(***************************************************************************)
(* The order of the lines does not matter.                                 *)
(***************************************************************************)

\* What a place of a text weighs in the order of texts: nothing behind its end.
Weight(s, i) == IF i \in DOMAIN s THEN s[i] + 1 ELSE 0

LEMMA BytesAreNumbers ==
    ASSUME NEW s \in Seq(Byte)
    PROVE  /\ Len(s) \in Nat /\ DOMAIN s = 1 .. Len(s)
           /\ \A i \in 1 .. Len(s) : s[i] \in Nat
<1>1. Len(s) \in Nat /\ DOMAIN s = 1 .. Len(s) /\ \A i \in 1 .. Len(s) : s[i] \in Byte
  OBVIOUS
<1>2. \A c \in Byte : c \in Nat
  BY DEF Byte
<1> QED BY <1>1, <1>2

\* The first place at which two texts differ decides.
LEMMA SmallerByPlace ==
    ASSUME NEW s \in Seq(Byte), NEW t \in Seq(Byte)
    PROVE  Smaller(s, t) <=> \E d \in Nat \ {0} :
                                /\ Weight(s, d) < Weight(t, d)
                                /\ \A j \in 1 .. d - 1 : Weight(s, j) = Weight(t, j)
<1> DEFINE m == Len(s)
           n == Len(t)
           Decides(d) == /\ Weight(s, d) < Weight(t, d)
                         /\ \A j \in 1 .. d - 1 : Weight(s, j) = Weight(t, j)
<1>1. /\ m \in Nat /\ n \in Nat /\ DOMAIN s = 1 .. m /\ DOMAIN t = 1 .. n
      /\ \A i \in 1 .. m : s[i] \in Nat
      /\ \A i \in 1 .. n : t[i] \in Nat
  BY BytesAreNumbers
<1>2. IsPrefix(s, t) <=> m <= n /\ \A i \in 1 .. m : s[i] = t[i]
  BY PrefixByPlace
<1>3. s = t <=> m = n /\ \A i \in 1 .. m : s[i] = t[i]
  OBVIOUS
<1>4. Smaller(s, t) <=>
        \/ s # t /\ IsPrefix(s, t)
        \/ \E i \in 1 .. m \cap 1 .. n : s[i] < t[i] /\ \A j \in 1 .. i - 1 : s[j] = t[j]
  BY <1>1 DEF Smaller
<1>5. /\ \A i \in Nat \ {0} : Weight(s, i) = IF i <= m THEN s[i] + 1 ELSE 0
      /\ \A i \in Nat \ {0} : Weight(t, i) = IF i <= n THEN t[i] + 1 ELSE 0
  BY <1>1 DEF Weight
<1> HIDE DEF m, n
<1>6. ASSUME s # t, IsPrefix(s, t) PROVE \E d \in Nat \ {0} : Decides(d)
  <2>1. m < n
    BY <1>1, <1>2, <1>3, <1>6
  <2>2. m + 1 \in Nat \ {0} /\ Weight(s, m + 1) = 0 /\ Weight(t, m + 1) = t[m + 1] + 1
        /\ t[m + 1] \in Nat
    BY <1>1, <1>5, <2>1
  <2>3. ASSUME NEW j \in 1 .. (m + 1) - 1 PROVE Weight(s, j) = Weight(t, j)
    <3>1. j \in Nat \ {0} /\ j \in 1 .. m /\ j <= m /\ j <= n
      BY <1>1, <2>1
    <3> QED BY <1>2, <1>5, <1>6, <3>1
  <2>4. Decides(m + 1)
    BY <2>2, <2>3
  <2> QED BY <2>2, <2>4
<1>7. ASSUME NEW i \in (1 .. m) \cap (1 .. n), s[i] < t[i], \A j \in 1 .. i - 1 : s[j] = t[j]
      PROVE  \E d \in Nat \ {0} : Decides(d)
  <2>1. i \in Nat \ {0} /\ Weight(s, i) = s[i] + 1 /\ Weight(t, i) = t[i] + 1
        /\ s[i] \in Nat /\ t[i] \in Nat
    BY <1>1, <1>5
  <2>2. ASSUME NEW j \in 1 .. i - 1 PROVE Weight(s, j) = Weight(t, j)
    <3>1. j \in Nat \ {0} /\ j <= m /\ j <= n
      BY <1>1
    <3> QED BY <1>5, <1>7, <3>1
  <2>3. Decides(i)
    BY <1>7, <2>1, <2>2
  <2> QED BY <2>1, <2>3
<1>8. ASSUME NEW d \in Nat \ {0}, Decides(d) PROVE Smaller(s, t)
  <2>1. d <= n
    <3>1. CASE d <= m
      BY <1>1, <1>5, <1>8, <3>1
    <3>2. CASE ~(d <= m)
      BY <1>1, <1>5, <1>8, <3>2
    <3> QED BY <3>1, <3>2
  <2>2. ASSUME NEW j \in 1 .. d - 1 PROVE j <= m /\ s[j] = t[j]
    <3>1. j \in Nat \ {0} /\ j <= n /\ j \in 1 .. n
      BY <1>1, <2>1
    <3>2. Weight(s, j) = t[j] + 1 /\ t[j] \in Nat
      BY <1>1, <1>5, <1>8, <3>1
    <3>3. j <= m
      BY <1>5, <3>1, <3>2
    <3>4. s[j] \in Nat /\ Weight(s, j) = s[j] + 1
      BY <1>1, <1>5, <3>1, <3>3
    <3> QED BY <3>2, <3>3, <3>4
  <2>3. CASE d <= m
    <3>1. d \in (1 .. m) \cap (1 .. n)
      BY <1>1, <2>1, <2>3
    <3>2. s[d] < t[d]
      BY <1>1, <1>5, <1>8, <2>1, <2>3, <3>1
    <3> QED BY <1>4, <2>2, <3>1, <3>2
  <2>4. CASE ~(d <= m)
    <3>1. d = m + 1
      <4>1. ~(m + 1 < d)
        <5> SUFFICES ASSUME m + 1 < d PROVE FALSE
          OBVIOUS
        <5>1. m + 1 \in 1 .. d - 1
          BY <1>1
        <5>2. m + 1 <= m
          BY <2>2, <5>1
        <5> QED BY <1>1, <5>2
      <4> QED BY <1>1, <2>4, <4>1
    <3>2. m < n /\ 1 .. m = 1 .. d - 1
      BY <1>1, <2>1, <3>1
    <3>3. IsPrefix(s, t) /\ s # t
      BY <1>1, <1>2, <1>3, <2>2, <3>2
    <3> QED BY <1>4, <3>3
  <2> QED BY <2>3, <2>4
<1> QED BY <1>4, <1>6, <1>7, <1>8

LEMMA SmallerIsOrder ==
    ASSUME NEW r \in Seq(Byte), NEW s \in Seq(Byte), NEW t \in Seq(Byte)
    PROVE  /\ ~Smaller(s, s)
           /\ Smaller(r, s) /\ Smaller(s, t) => Smaller(r, t)
           /\ s # t => Smaller(s, t) \/ Smaller(t, s)
<1>1. ASSUME NEW u \in Seq(Byte) PROVE \A i \in Nat : Weight(u, i) \in Nat
  <2>1. \A i \in DOMAIN u : u[i] \in Nat
    BY BytesAreNumbers
  <2> QED BY <2>1 DEF Weight
<1>2. ~Smaller(s, s)
  <2>1. \A d \in Nat : ~(Weight(s, d) < Weight(s, d))
    BY <1>1
  <2> QED BY <2>1, SmallerByPlace
<1>3. ASSUME Smaller(r, s), Smaller(s, t) PROVE Smaller(r, t)
  <2>1. PICK d \in Nat \ {0} : /\ Weight(r, d) < Weight(s, d)
                               /\ \A j \in 1 .. d - 1 : Weight(r, j) = Weight(s, j)
    BY <1>3, SmallerByPlace
  <2>2. PICK e \in Nat \ {0} : /\ Weight(s, e) < Weight(t, e)
                               /\ \A j \in 1 .. e - 1 : Weight(s, j) = Weight(t, j)
    BY <1>3, SmallerByPlace
  <2>3. /\ Weight(r, d) \in Nat /\ Weight(s, d) \in Nat /\ Weight(t, d) \in Nat
        /\ Weight(r, e) \in Nat /\ Weight(s, e) \in Nat /\ Weight(t, e) \in Nat
    BY <1>1
  <2>4. CASE d <= e
    <3>1. Weight(r, d) < Weight(t, d)
      <4>1. CASE d = e
        BY <2>1, <2>2, <2>3, <4>1
      <4>2. CASE d # e
        <5>1. d \in 1 .. e - 1
          BY <2>4, <4>2
        <5> QED BY <2>1, <2>2, <5>1
      <4> QED BY <4>1, <4>2
    <3>2. \A j \in 1 .. d - 1 : Weight(r, j) = Weight(t, j)
      BY <2>1, <2>2, <2>4
    <3> QED BY <3>1, <3>2, SmallerByPlace
  <2>5. CASE e < d
    <3>1. e \in 1 .. d - 1
      BY <2>5
    <3>2. Weight(r, e) < Weight(t, e)
      BY <2>1, <2>2, <3>1
    <3>3. \A j \in 1 .. e - 1 : Weight(r, j) = Weight(t, j)
      BY <2>1, <2>2, <2>5
    <3> QED BY <3>2, <3>3, SmallerByPlace
  <2> QED BY <2>4, <2>5
<1>4. ASSUME s # t PROVE Smaller(s, t) \/ Smaller(t, s)
  <2> DEFINE Differ == {i \in Nat \ {0} : Weight(s, i) # Weight(t, i)}
  <2>1. Differ \in SUBSET Nat
    OBVIOUS
  <2>2. Differ # {}
    <3> SUFFICES ASSUME Differ = {} PROVE s = t
      BY <1>4
    <3> DEFINE m == Len(s)
               n == Len(t)
    <3>1. /\ m \in Nat /\ n \in Nat /\ DOMAIN s = 1 .. m /\ DOMAIN t = 1 .. n
          /\ (\A i \in 1 .. m : s[i] \in Nat) /\ (\A i \in 1 .. n : t[i] \in Nat)
      BY BytesAreNumbers
    <3>2. \A i \in Nat \ {0} : Weight(s, i) = Weight(t, i)
      OBVIOUS
    <3>3. /\ \A i \in Nat \ {0} : Weight(s, i) = IF i <= m THEN s[i] + 1 ELSE 0
          /\ \A i \in Nat \ {0} : Weight(t, i) = IF i <= n THEN t[i] + 1 ELSE 0
      BY <3>1 DEF Weight
    <3> HIDE DEF m, n, Differ
    <3>4. m = n
      <4>1. ~(m < n)
        <5> SUFFICES ASSUME m < n PROVE FALSE
          OBVIOUS
        <5>1. Weight(s, n) = 0 /\ Weight(t, n) = t[n] + 1 /\ t[n] \in Nat /\ n \in Nat \ {0}
          BY <3>1, <3>3
        <5> QED BY <3>2, <5>1
      <4>2. ~(n < m)
        <5> SUFFICES ASSUME n < m PROVE FALSE
          OBVIOUS
        <5>1. Weight(t, m) = 0 /\ Weight(s, m) = s[m] + 1 /\ s[m] \in Nat /\ m \in Nat \ {0}
          BY <3>1, <3>3
        <5> QED BY <3>2, <5>1
      <4> QED BY <3>1, <4>1, <4>2
    <3>5. ASSUME NEW i \in 1 .. m PROVE s[i] = t[i]
      <4>1. i \in Nat \ {0} /\ i <= m /\ i <= n /\ s[i] \in Nat /\ t[i] \in Nat
        BY <3>1, <3>4
      <4>2. Weight(s, i) = s[i] + 1 /\ Weight(t, i) = t[i] + 1
        BY <3>3, <4>1
      <4> QED BY <3>2, <4>1, <4>2
    <3> QED BY <3>1, <3>4, <3>5 DEF m, n
  <2> HIDE DEF Differ
  <2>3. \E d \in Differ : \A l \in Differ : ~ (<<l, d>> \in OpToRel(<, Nat))
    BY <2>1, <2>2, WFMin, NatLessThanWellFounded, Zenon
  <2>4. PICK d \in Differ : \A l \in Differ : ~ (<<l, d>> \in OpToRel(<, Nat))
    BY <2>3, Zenon
  <2>5. d \in Nat \ {0} /\ Weight(s, d) # Weight(t, d)
    BY DEF Differ
  <2>6. \A l \in Differ : ~(l < d)
    BY <2>1, <2>4, Zenon DEF OpToRel
  <2>7. \A j \in 1 .. d - 1 : Weight(s, j) = Weight(t, j) /\ Weight(t, j) = Weight(s, j)
    BY <2>5, <2>6 DEF Differ
  <2>8. Weight(s, d) < Weight(t, d) \/ Weight(t, d) < Weight(s, d)
    <3>1. Weight(s, d) \in Nat /\ Weight(t, d) \in Nat
      BY <1>1, <2>5
    <3> QED BY <2>5, <3>1
  <2> QED BY <2>5, <2>7, <2>8, SmallerByPlace
<1> QED BY <1>2, <1>3, <1>4

\* Any two deleted files come in one order, because a file is known by what was
\* printed.
LEMMA EarlierIsOrder ==
    ASSUME NEW e \in Files, NEW f \in Files, NEW g \in Files
    PROVE  /\ ~Earlier(f, f)
           /\ Earlier(e, f) /\ Earlier(f, g) => Earlier(e, g)
           /\ f # g => Earlier(f, g) \/ Earlier(g, f)
<1>1. ASSUME NEW h \in Files
      PROVE  h.raw \in Seq(Byte) /\ h.path \in Seq(Byte) /\ h = DeletedFile(h.raw)
  <2>1. PICK line \in DiffLines : h = DeletedFile(line.raw)
    BY DEF Files
  <2>2. h.raw = line.raw /\ line.raw \in Seq(Byte)
    BY <2>1, PathsAssumption DEF DeletedFile
  <2>3. RoundTripZfsPath(line.raw).path \in Seq(Byte)
    <3>1. DecodeZfsPath(line.raw).path \in Seq(Byte)
      BY <2>2, DecodedIsText
    <3>2. RoundTripZfsPath(line.raw) = DecodeZfsPath(line.raw)
          \/ RoundTripZfsPath(line.raw) = NotDecodable
      BY DEF RoundTripZfsPath
    <3>3. NotDecodable.path \in Seq(Byte)
      BY DEF NotDecodable
    <3> QED BY <3>1, <3>2, <3>3
  <2>4. h.path = IF RoundTripZfsPath(line.raw).ok THEN RoundTripZfsPath(line.raw).path ELSE line.raw
    BY <2>1 DEF DeletedFile
  <2>5. h.path \in Seq(Byte)
    BY <2>2, <2>3, <2>4
  <2> QED BY <2>1, <2>2, <2>5
<1>2. f # g => f.raw # g.raw
  BY <1>1
<1>3. /\ e.raw \in Seq(Byte) /\ f.raw \in Seq(Byte) /\ g.raw \in Seq(Byte)
      /\ e.path \in Seq(Byte) /\ f.path \in Seq(Byte) /\ g.path \in Seq(Byte)
  BY <1>1
<1>4. /\ ~Smaller(f.raw, f.raw)
      /\ Smaller(e.raw, f.raw) /\ Smaller(f.raw, g.raw) => Smaller(e.raw, g.raw)
      /\ f.raw # g.raw => Smaller(f.raw, g.raw) \/ Smaller(g.raw, f.raw)
  BY <1>3, SmallerIsOrder
<1>5. /\ Smaller(e.path, f.path) /\ Smaller(f.path, g.path) => Smaller(e.path, g.path)
      /\ f.path # g.path => Smaller(f.path, g.path) \/ Smaller(g.path, f.path)
  BY <1>3, SmallerIsOrder
<1>6. ~Smaller(e.path, e.path)
  BY <1>3, SmallerIsOrder
<1>7. Smaller(e.path, f.path) /\ Smaller(f.path, g.path) => e.path # g.path
  BY <1>5, <1>6
<1> HIDE DEF Smaller
<1> QED BY <1>2, <1>4, <1>5, <1>7 DEF Earlier

\* In the order of the sort.
Ascending(v) == \A i, j \in 1 .. Len(v) : i < j => ~Earlier(v[j], v[i])

\* The first c files of a list are not later than one, the others are.
Splits(c, v, file) ==
    /\ c \in 0 .. Len(v)
    /\ \A i \in 1 .. c : ~Earlier(file, v[i])
    /\ \A i \in c + 1 .. Len(v) : Earlier(file, v[i])

LEMMA SplitIsPlace ==
    ASSUME NEW v \in Seq(Files), NEW file \in Files, NEW c, Splits(c, v, file)
    PROVE  /\ Inserted(v, file) = InsertAt(v, c + 1, file)
           /\ Len(Inserted(v, file)) = Len(v) + 1
           /\ \A i \in 1 .. Len(v) + 1 :
                Inserted(v, file)[i] =
                    IF i < c + 1 THEN v[i] ELSE IF i = c + 1 THEN file ELSE v[i - 1]
<1> DEFINE T == {i \in DOMAIN v : ~Earlier(file, v[i])}
           m == Len(v)
<1>1. m \in Nat /\ DOMAIN v = 1 .. m /\ c \in Nat /\ c <= m
  BY DEF Splits
<1>2. T = 1 .. c
  BY <1>1 DEF Splits
<1>3. Cardinality(T) = c
  <2>1. Cardinality(1 .. c) = c
    BY <1>1, FS_Interval
  <2> QED BY <1>2, <2>1
<1>4. Inserted(v, file) = InsertAt(v, c + 1, file)
  BY <1>3 DEF Inserted
<1>5. c + 1 \in 1 .. m + 1
  BY <1>1
<1> QED BY <1>4, <1>5, InsertAtIs DEF IsSplice

LEMMA SplitExists ==
    ASSUME NEW v \in Seq(Files), Ascending(v), NEW file \in Files
    PROVE  \E c : Splits(c, v, file)
<1> DEFINE T == {i \in DOMAIN v : ~Earlier(file, v[i])}
           m == Len(v)
<1>1. m \in Nat /\ DOMAIN v = 1 .. m /\ \A i \in 1 .. m : v[i] \in Files
  OBVIOUS
<1>2. ASSUME NEW i \in T, NEW j \in 1 .. i PROVE j \in T
  <2>1. i \in 1 .. m /\ j \in 1 .. m /\ ~Earlier(file, v[i])
    BY <1>1
  <2>2. v[i] \in Files /\ v[j] \in Files
    BY <1>1, <2>1
  <2>3. CASE j = i
    BY <2>3
  <2>4. CASE j # i
    <3>1. ~Earlier(v[i], v[j])
      BY <2>1, <2>4 DEF Ascending
    <3>2. v[i] = v[j] \/ Earlier(v[j], v[i])
      BY <2>2, <3>1, EarlierIsOrder
    <3>3. ~Earlier(file, v[j])
      BY <2>1, <2>2, <3>2, EarlierIsOrder
    <3> QED BY <1>1, <2>1, <3>3
  <2> QED BY <2>3, <2>4
<1>3. T \in SUBSET (1 .. m) /\ \A i \in T : \A j \in 1 .. i : j \in T
  BY <1>1, <1>2
<1>4. \A i \in 1 .. m : i \in T <=> ~Earlier(file, v[i])
  BY <1>1
<1> DEFINE c == Cardinality(T)
<1> HIDE DEF T, m
<1>5. T = 1 .. c
  BY <1>1, <1>3, BeginningIsInterval
<1>6. c \in 0 .. m
  BY <1>1, <1>3, PlacesAreFew
<1> HIDE DEF c
<1>7. \A i \in 1 .. m : i \in 1 .. c <=> ~Earlier(file, v[i])
  BY <1>4, <1>5
<1>8. ASSUME NEW i \in 1 .. c PROVE ~Earlier(file, v[i])
  <2>1. i \in 1 .. m
    BY <1>1, <1>6
  <2> QED BY <1>7, <2>1
<1>9. ASSUME NEW i \in c + 1 .. m PROVE Earlier(file, v[i])
  <2>1. i \in 1 .. m /\ i \notin 1 .. c
    BY <1>1, <1>6
  <2> QED BY <1>7, <2>1
<1>10. Splits(c, v, file)
  BY <1>6, <1>8, <1>9 DEF Splits, m
<1> QED BY <1>10

LEMMA InsertedStaysAscending ==
    ASSUME NEW v \in Seq(Files), Ascending(v), NEW file \in Files
    PROVE  Ascending(Inserted(v, file))
<1> DEFINE m == Len(v)
           t == Inserted(v, file)
<1>1. PICK c : Splits(c, v, file)
  BY SplitExists
<1>2. /\ Len(t) = m + 1
      /\ \A i \in 1 .. m + 1 :
            t[i] = IF i < c + 1 THEN v[i] ELSE IF i = c + 1 THEN file ELSE v[i - 1]
  BY <1>1, SplitIsPlace
<1>3. m \in Nat /\ c \in Nat /\ c <= m
  BY <1>1 DEF Splits
<1>4. /\ \A i \in 1 .. c : ~Earlier(file, v[i])
      /\ \A i \in c + 1 .. m : Earlier(file, v[i])
      /\ \A i, j \in 1 .. m : i < j => ~Earlier(v[j], v[i])
      /\ \A i \in 1 .. m : v[i] \in Files
  BY <1>1 DEF Splits, Ascending
<1> HIDE DEF m, t
<1>5. \A i \in c + 1 .. m : ~Earlier(v[i], file)
  <2>1. ASSUME NEW i \in c + 1 .. m PROVE ~Earlier(v[i], file)
    <3>1. v[i] \in Files /\ Earlier(file, v[i])
      BY <1>3, <1>4
    <3> QED BY <3>1, EarlierIsOrder
  <2> QED BY <2>1
<1>6. ASSUME NEW i \in 1 .. m + 1, NEW j \in 1 .. m + 1, i < j
      PROVE  ~Earlier(t[j], t[i])
  <2>1. CASE j < c + 1
    <3>1. t[i] = v[i] /\ t[j] = v[j] /\ i \in 1 .. m /\ j \in 1 .. m
      BY <1>2, <1>3, <1>6, <2>1
    <3> QED BY <1>4, <1>6, <3>1
  <2>2. CASE j = c + 1
    <3>1. t[i] = v[i] /\ t[j] = file /\ i \in 1 .. c
      BY <1>2, <1>3, <1>6, <2>2
    <3> QED BY <1>4, <3>1
  <2>3. CASE j > c + 1
    <3>1. t[j] = v[j - 1] /\ j - 1 \in c + 1 .. m /\ j - 1 \in 1 .. m
      BY <1>2, <1>3, <2>3
    <3>2. CASE i < c + 1
      <4>1. t[i] = v[i] /\ i \in 1 .. m /\ i < j - 1
        BY <1>2, <1>3, <1>6, <2>3, <3>2
      <4> QED BY <1>4, <3>1, <4>1
    <3>3. CASE i = c + 1
      <4>1. t[i] = file
        BY <1>2, <1>3, <3>3
      <4> QED BY <1>5, <3>1, <4>1
    <3>4. CASE i > c + 1
      <4>1. t[i] = v[i - 1] /\ i - 1 \in 1 .. m /\ i - 1 < j - 1
        BY <1>2, <1>3, <1>6, <3>4
      <4> QED BY <1>4, <3>1, <4>1
    <3> QED BY <1>3, <3>2, <3>3, <3>4
  <2> QED BY <1>3, <2>1, <2>2, <2>3
<1>7. Ascending(t)
  BY <1>2, <1>6 DEF Ascending
<1> QED BY <1>7 DEF t

\* Two files can be inserted in either order.
LEMMA InsertionsCommute ==
    ASSUME NEW v \in Seq(Files), Ascending(v), NEW x \in Files, NEW y \in Files, Earlier(x, y)
    PROVE  Inserted(Inserted(v, x), y) = Inserted(Inserted(v, y), x)
<1> DEFINE m == Len(v)
           w == Inserted(v, x)
           u == Inserted(v, y)
<1>1. PICK c : Splits(c, v, x)
  BY SplitExists
<1>2. PICK d : Splits(d, v, y)
  BY SplitExists
<1>3. m \in Nat /\ c \in Nat /\ d \in Nat /\ c <= m /\ d <= m /\ \A i \in 1 .. m : v[i] \in Files
  BY <1>1, <1>2 DEF Splits
<1>4. /\ \A i \in 1 .. c : ~Earlier(x, v[i])
      /\ \A i \in c + 1 .. m : Earlier(x, v[i])
      /\ \A i \in 1 .. d : ~Earlier(y, v[i])
      /\ \A i \in d + 1 .. m : Earlier(y, v[i])
  BY <1>1, <1>2 DEF Splits
<1>5. /\ w \in Seq(Files) /\ Len(w) = m + 1
      /\ \A i \in 1 .. m + 1 :
            w[i] = IF i < c + 1 THEN v[i] ELSE IF i = c + 1 THEN x ELSE v[i - 1]
  BY <1>1, SplitIsPlace, InsertedIsSeq
<1>6. /\ u \in Seq(Files) /\ Len(u) = m + 1
      /\ \A i \in 1 .. m + 1 :
            u[i] = IF i < d + 1 THEN v[i] ELSE IF i = d + 1 THEN y ELSE v[i - 1]
  BY <1>2, SplitIsPlace, InsertedIsSeq
<1> HIDE DEF m, w, u
<1>7. c <= d
  <2> SUFFICES ASSUME d < c PROVE FALSE
    BY <1>3
  <2>1. v[c] \in Files /\ ~Earlier(x, v[c]) /\ Earlier(y, v[c])
    BY <1>3, <1>4
  <2> QED BY <2>1, EarlierIsOrder
<1>8. Splits(d + 1, w, y)
  <2>1. d + 1 \in 0 .. m + 1
    BY <1>3
  <2>2. ASSUME NEW i \in 1 .. d + 1 PROVE ~Earlier(y, w[i])
    <3>1. CASE i < c + 1
      <4>1. w[i] = v[i] /\ i \in 1 .. d
        BY <1>3, <1>5, <1>7, <3>1
      <4> QED BY <1>4, <4>1
    <3>2. CASE i = c + 1
      <4>1. w[i] = x
        BY <1>3, <1>5, <3>2
      <4> QED BY <4>1, EarlierIsOrder
    <3>3. CASE i > c + 1
      <4>1. w[i] = v[i - 1] /\ i - 1 \in 1 .. d
        BY <1>3, <1>5, <3>3
      <4> QED BY <1>4, <4>1
    <3> QED BY <1>3, <3>1, <3>2, <3>3
  <2>3. ASSUME NEW i \in (d + 1) + 1 .. m + 1 PROVE Earlier(y, w[i])
    <3>1. w[i] = v[i - 1] /\ i - 1 \in d + 1 .. m
      BY <1>3, <1>5, <1>7
    <3> QED BY <1>4, <3>1
  <2> QED BY <1>5, <2>1, <2>2, <2>3 DEF Splits
<1>9. Splits(c, u, x)
  <2>1. c \in 0 .. m + 1
    BY <1>3
  <2>2. ASSUME NEW i \in 1 .. c PROVE ~Earlier(x, u[i])
    <3>1. u[i] = v[i]
      BY <1>3, <1>6, <1>7
    <3> QED BY <1>4, <3>1
  <2>3. ASSUME NEW i \in c + 1 .. m + 1 PROVE Earlier(x, u[i])
    <3>1. CASE i < d + 1
      <4>1. u[i] = v[i] /\ i \in c + 1 .. m
        BY <1>3, <1>6, <3>1
      <4> QED BY <1>4, <4>1
    <3>2. CASE i = d + 1
      <4>1. u[i] = y
        BY <1>3, <1>6, <3>2
      <4> QED BY <4>1
    <3>3. CASE i > d + 1
      <4>1. u[i] = v[i - 1] /\ i - 1 \in c + 1 .. m
        BY <1>3, <1>6, <1>7, <3>3
      <4> QED BY <1>4, <4>1
    <3> QED BY <1>3, <3>1, <3>2, <3>3
  <2> QED BY <1>6, <2>1, <2>2, <2>3 DEF Splits
<1> DEFINE a == Inserted(w, y)
           b == Inserted(u, x)
<1>10. /\ a \in Seq(Files) /\ Len(a) = (m + 1) + 1
       /\ \A i \in 1 .. (m + 1) + 1 :
             a[i] = IF i < (d + 1) + 1 THEN w[i] ELSE IF i = (d + 1) + 1 THEN y ELSE w[i - 1]
  <2>1. a \in Seq(Files)
    BY <1>5, InsertedIsSeq
  <2> QED BY <1>5, <1>8, <2>1, SplitIsPlace
<1>11. /\ b \in Seq(Files) /\ Len(b) = (m + 1) + 1
       /\ \A i \in 1 .. (m + 1) + 1 :
             b[i] = IF i < c + 1 THEN u[i] ELSE IF i = c + 1 THEN x ELSE u[i - 1]
  <2>1. b \in Seq(Files)
    BY <1>6, InsertedIsSeq
  <2> QED BY <1>6, <1>9, <2>1, SplitIsPlace
<1> HIDE DEF a, b
<1>12. ASSUME NEW i \in 1 .. (m + 1) + 1 PROVE a[i] = b[i]
  <2>1. CASE i < c + 1
    <3>1. a[i] = w[i] /\ b[i] = u[i] /\ w[i] = v[i] /\ u[i] = v[i]
      BY <1>3, <1>5, <1>6, <1>7, <1>10, <1>11, <2>1
    <3> QED BY <3>1
  <2>2. CASE i = c + 1
    <3>1. a[i] = w[i] /\ b[i] = x /\ w[i] = x
      BY <1>3, <1>5, <1>7, <1>10, <1>11, <2>2
    <3> QED BY <3>1
  <2>3. CASE c + 1 < i /\ i < (d + 1) + 1
    <3>1. a[i] = w[i] /\ w[i] = v[i - 1]
      BY <1>3, <1>5, <1>10, <2>3
    <3>2. b[i] = u[i - 1] /\ u[i - 1] = v[i - 1]
      BY <1>3, <1>6, <1>11, <2>3, SMTT(30)
    <3> QED BY <3>1, <3>2
  <2>4. CASE i = (d + 1) + 1
    <3>1. a[i] = y
      BY <1>10, <2>4
    <3>2. b[i] = u[i - 1] /\ u[i - 1] = y
      BY <1>3, <1>6, <1>7, <1>11, <2>4
    <3> QED BY <3>1, <3>2
  <2>5. CASE i > (d + 1) + 1
    <3>1. a[i] = w[i - 1] /\ w[i - 1] = v[(i - 1) - 1]
      BY <1>3, <1>5, <1>7, <1>10, <2>5
    <3>2. b[i] = u[i - 1] /\ u[i - 1] = v[(i - 1) - 1]
      BY <1>3, <1>6, <1>7, <1>11, <2>5
    <3> QED BY <3>1, <3>2
  <2> QED BY <1>3, <2>1, <2>2, <2>3, <2>4, <2>5
<1>13. a = b
  <2>1. Len(a) = Len(b) /\ \A i \in 1 .. Len(a) : a[i] = b[i]
    BY <1>10, <1>11, <1>12
  <2> QED BY <1>10, <1>11, <2>1
<1> QED BY <1>13 DEF a, b, w, u

LEMMA SortFilesAscends ==
    ASSUME NEW files \in Seq(Files)
    PROVE  Ascending(SortFiles(files))
<1> DEFINE n == Len(files)
<1>1. n \in Nat /\ \A k \in 1 .. n : files[k] \in Files
  OBVIOUS
<1>2. PICK f \in [0 .. n -> Seq(Files)] :
              /\ f[0] = <<>>
              /\ \A k \in 1 .. n : f[k] = Inserted(f[k - 1], files[k])
              /\ SortFiles(files) = f[n]
  BY SortFilesInserts
<1> HIDE DEF n
<1> DEFINE R == {k \in Nat : k <= n => Ascending(f[k])}
<1>3. 0 \in R
  BY <1>2 DEF Ascending
<1>4. ASSUME NEW k \in Nat, k \in R PROVE k + 1 \in R
  <2> SUFFICES ASSUME k + 1 <= n PROVE Ascending(f[k + 1])
    OBVIOUS
  <2>1. Ascending(f[k]) /\ k + 1 \in 1 .. n /\ (k + 1) - 1 = k /\ f[k] \in Seq(Files)
        /\ files[k + 1] \in Files
    BY <1>1, <1>4
  <2>2. f[k + 1] = Inserted(f[k], files[k + 1])
    BY <1>2, <2>1
  <2> QED BY <2>1, <2>2, InsertedStaysAscending
<1>5. n \in R
  <2> HIDE DEF R
  <2> QED BY <1>1, <1>3, <1>4, NatInductionOnSets
<1> QED BY <1>1, <1>2, <1>5

\* Sorting a list with one file more is inserting that file in the sorted list.
LEMMA SortFilesGrows ==
    ASSUME NEW files \in Seq(Files), NEW file \in Files
    PROVE  SortFiles(Append(files, file)) = Inserted(SortFiles(files), file)
<1> DEFINE n == Len(files)
           more == Append(files, file)
<1>1. /\ n \in Nat /\ more \in Seq(Files) /\ Len(more) = n + 1
      /\ more[n + 1] = file /\ \A k \in 1 .. n : more[k] = files[k]
  OBVIOUS
<1>2. PICK f \in [0 .. n -> Seq(Files)] :
              /\ f[0] = <<>>
              /\ \A k \in 1 .. n : f[k] = Inserted(f[k - 1], files[k])
              /\ SortFiles(files) = f[n]
  BY SortFilesInserts
<1> HIDE DEF more, n
<1>3. PICK g \in [0 .. n + 1 -> Seq(Files)] :
              /\ g[0] = <<>>
              /\ \A k \in 1 .. n + 1 : g[k] = Inserted(g[k - 1], more[k])
              /\ SortFiles(more) = g[n + 1]
  <2>1. \E g \in [0 .. Len(more) -> Seq(Files)] :
              /\ g[0] = <<>>
              /\ \A k \in 1 .. Len(more) : g[k] = Inserted(g[k - 1], more[k])
              /\ SortFiles(more) = g[Len(more)]
    BY <1>1, SortFilesInserts
  <2> QED BY <1>1, <2>1
<1> DEFINE R == {k \in Nat : k <= n => g[k] = f[k]}
<1>4. 0 \in R
  BY <1>2, <1>3
<1>5. ASSUME NEW k \in Nat, k \in R PROVE k + 1 \in R
  <2> SUFFICES ASSUME k + 1 <= n PROVE g[k + 1] = f[k + 1]
    OBVIOUS
  <2>1. g[k] = f[k] /\ k + 1 \in 1 .. n /\ k + 1 \in 1 .. n + 1 /\ (k + 1) - 1 = k
    BY <1>1, <1>5
  <2>2. f[k + 1] = Inserted(f[k], files[k + 1]) /\ g[k + 1] = Inserted(g[k], more[k + 1])
    BY <1>2, <1>3, <2>1
  <2> QED BY <1>1, <2>1, <2>2
<1>6. n \in R
  <2> HIDE DEF R
  <2> QED BY <1>1, <1>4, <1>5, NatInductionOnSets
<1>7. n + 1 \in 1 .. n + 1 /\ (n + 1) - 1 = n
  BY <1>1
<1>8. g[n + 1] = Inserted(g[n], more[n + 1])
  BY <1>3, <1>7
<1> QED BY <1>1, <1>2, <1>3, <1>6, <1>8 DEF more

\* The number a line goes to.
Column(line) ==
    IF line = Empty THEN "none"
    ELSE IF line = Garbled THEN "unparsed"
    ELSE IF ~WithinPathPrefix(pathPrefix, DeletedFile(line.raw).path) THEN "skipped"
    ELSE IF line.mark = "-"
         THEN IF line.kind = "F" THEN "deleted" ELSE IF line.kind = "/" THEN "dirs" ELSE "other"
    ELSE IF line.mark = "+" THEN "added"
    ELSE IF line.mark = "M" THEN "modified"
    ELSE IF line.mark = "R" THEN "renamed"
    ELSE "unparsed"

Plus(number, column, this) == IF column = this THEN number + 1 ELSE number

LEMMA ParseLineIs ==
    ASSUME NEW res \in Result, NEW line \in DiffLines
    PROVE  /\ ParseLine(res, line).deleted =
                IF Column(line) = "deleted" THEN Append(res.deleted, DeletedFile(line.raw))
                ELSE res.deleted
           /\ ParseLine(res, line).dirs = Plus(res.dirs, Column(line), "dirs")
           /\ ParseLine(res, line).other = Plus(res.other, Column(line), "other")
           /\ ParseLine(res, line).renamed = Plus(res.renamed, Column(line), "renamed")
           /\ ParseLine(res, line).added = Plus(res.added, Column(line), "added")
           /\ ParseLine(res, line).modified = Plus(res.modified, Column(line), "modified")
           /\ ParseLine(res, line).skipped = Plus(res.skipped, Column(line), "skipped")
           /\ ParseLine(res, line).unparsed = Plus(res.unparsed, Column(line), "unparsed")
<1> DEFINE file == DeletedFile(line.raw)
<1> HIDE DEF file
<1>1. CASE line = Empty
  <2>1. ParseLine(res, line) = res /\ Column(line) = "none"
    BY <1>1 DEF ParseLine, Column
  <2> QED BY <2>1 DEF Plus
<1>2. CASE line # Empty /\ line = Garbled
  <2>1. ParseLine(res, line) = [res EXCEPT !.unparsed = @ + 1] /\ Column(line) = "unparsed"
    BY <1>2 DEF ParseLine, Column
  <2> QED BY <2>1 DEF Plus, Result
<1>3. CASE line # Empty /\ line # Garbled /\ ~WithinPathPrefix(pathPrefix, file.path)
  <2>1. ParseLine(res, line) = [res EXCEPT !.skipped = @ + 1] /\ Column(line) = "skipped"
    BY <1>3 DEF ParseLine, Column, file
  <2> QED BY <2>1 DEF Plus, Result
<1>4. CASE line # Empty /\ line # Garbled /\ WithinPathPrefix(pathPrefix, file.path)
  <2>1. ParseLine(res, line) = Counted(res, line, file)
    BY <1>4 DEF ParseLine, file
  <2>2. CASE line.mark = "-"
    <3>1. ParseLine(res, line) = Deletion(res, line.kind, file)
      BY <2>1, <2>2 DEF Counted
    <3>2. CASE line.kind = "F"
      <4>1. ParseLine(res, line) = [res EXCEPT !.deleted = Append(@, file)]
            /\ Column(line) = "deleted"
        BY <1>4, <2>2, <3>1, <3>2 DEF Deletion, Column, file
      <4> QED BY <4>1 DEF Plus, Result, file
    <3>3. CASE line.kind = "/"
      <4>1. ParseLine(res, line) = [res EXCEPT !.dirs = @ + 1] /\ Column(line) = "dirs"
        BY <1>4, <2>2, <3>1, <3>3 DEF Deletion, Column, file
      <4> QED BY <4>1 DEF Plus, Result
    <3>4. CASE line.kind # "F" /\ line.kind # "/"
      <4>1. ParseLine(res, line) = [res EXCEPT !.other = @ + 1] /\ Column(line) = "other"
        BY <1>4, <2>2, <3>1, <3>4 DEF Deletion, Column, file
      <4> QED BY <4>1 DEF Plus, Result
    <3> QED BY <3>2, <3>3, <3>4
  <2>3. CASE line.mark = "+"
    <3>1. ParseLine(res, line) = [res EXCEPT !.added = @ + 1] /\ Column(line) = "added"
      BY <1>4, <2>1, <2>3 DEF Counted, Column, file
    <3> QED BY <3>1 DEF Plus, Result
  <2>4. CASE line.mark = "M"
    <3>1. ParseLine(res, line) = [res EXCEPT !.modified = @ + 1] /\ Column(line) = "modified"
      BY <1>4, <2>1, <2>4 DEF Counted, Column, file
    <3> QED BY <3>1 DEF Plus, Result
  <2>5. CASE line.mark = "R"
    <3>1. ParseLine(res, line) = [res EXCEPT !.renamed = @ + 1] /\ Column(line) = "renamed"
      BY <1>4, <2>1, <2>5 DEF Counted, Column, file
    <3> QED BY <3>1 DEF Plus, Result
  <2>6. CASE line.mark \notin {"-", "+", "M", "R"}
    <3>1. ParseLine(res, line) = [res EXCEPT !.unparsed = @ + 1] /\ Column(line) = "unparsed"
      BY <1>4, <2>1, <2>6 DEF Counted, Column, file
    <3> QED BY <3>1 DEF Plus, Result
  <2> QED BY <2>2, <2>3, <2>4, <2>5, <2>6
<1> QED BY <1>1, <1>2, <1>3, <1>4

\* The same numbers and, once sorted, the same files.
Alike(r, s) ==
    /\ r \in Result /\ s \in Result
    /\ SortFiles(r.deleted) = SortFiles(s.deleted)
    /\ r.dirs = s.dirs /\ r.other = s.other /\ r.renamed = s.renamed /\ r.added = s.added
    /\ r.modified = s.modified /\ r.skipped = s.skipped /\ r.unparsed = s.unparsed

LEMMA SortedAlike ==
    ASSUME NEW r, NEW s, Alike(r, s)
    PROVE  [r EXCEPT !.deleted = SortFiles(@)] = [s EXCEPT !.deleted = SortFiles(@)]
BY DEF Alike, Result

LEMMA ParseLineAlike ==
    ASSUME NEW r, NEW s, Alike(r, s), NEW line \in DiffLines
    PROVE  Alike(ParseLine(r, line), ParseLine(s, line))
<1> DEFINE a == ParseLine(r, line)
           b == ParseLine(s, line)
           file == DeletedFile(line.raw)
<1>1. r \in Result /\ s \in Result /\ SortFiles(r.deleted) = SortFiles(s.deleted)
      /\ r.deleted \in Seq(Files) /\ s.deleted \in Seq(Files) /\ file \in Files
  BY ResultHasNumbers DEF Alike, Files
<1>2. a \in Result /\ b \in Result
  BY <1>1, LineCountsOnce
<1>3. /\ a.dirs = b.dirs /\ a.other = b.other /\ a.renamed = b.renamed /\ a.added = b.added
      /\ a.modified = b.modified /\ a.skipped = b.skipped /\ a.unparsed = b.unparsed
  BY <1>1, ParseLineIs DEF Alike
<1>4. /\ a.deleted = IF Column(line) = "deleted" THEN Append(r.deleted, file) ELSE r.deleted
      /\ b.deleted = IF Column(line) = "deleted" THEN Append(s.deleted, file) ELSE s.deleted
  BY <1>1, ParseLineIs
<1> HIDE DEF a, b, file
<1>5. SortFiles(a.deleted) = SortFiles(b.deleted)
  <2>1. CASE Column(line) = "deleted"
    <3>1. SortFiles(Append(r.deleted, file)) = Inserted(SortFiles(r.deleted), file)
          /\ SortFiles(Append(s.deleted, file)) = Inserted(SortFiles(s.deleted), file)
      BY <1>1, SortFilesGrows
    <3> QED BY <1>1, <1>4, <2>1, <3>1
  <2>2. CASE Column(line) # "deleted"
    BY <1>1, <1>4, <2>2
  <2> QED BY <2>1, <2>2
<1> QED BY <1>2, <1>3, <1>5 DEF Alike, a, b

\* Two files that are appended in either order are sorted the same.
LEMMA AppendsCommute ==
    ASSUME NEW files \in Seq(Files), NEW x \in Files, NEW y \in Files
    PROVE  SortFiles(Append(Append(files, x), y)) = SortFiles(Append(Append(files, y), x))
<1> DEFINE v == SortFiles(files)
<1>1. Append(files, x) \in Seq(Files) /\ Append(files, y) \in Seq(Files)
  OBVIOUS
<1>2. v \in Seq(Files) /\ Ascending(v)
  BY SortFilesKeeps, SortFilesAscends
<1>3. /\ SortFiles(Append(Append(files, x), y)) = Inserted(Inserted(v, x), y)
      /\ SortFiles(Append(Append(files, y), x)) = Inserted(Inserted(v, y), x)
  BY <1>1, SortFilesGrows
<1> HIDE DEF v
<1>4. x = y \/ Earlier(x, y) \/ Earlier(y, x)
  BY EarlierIsOrder
<1>5. Inserted(Inserted(v, x), y) = Inserted(Inserted(v, y), x)
  <2>1. CASE x = y
    BY <2>1
  <2>2. CASE Earlier(x, y)
    BY <1>2, <2>2, InsertionsCommute
  <2>3. CASE Earlier(y, x)
    BY <1>2, <2>3, InsertionsCommute
  <2> QED BY <1>4, <2>1, <2>2, <2>3
<1> QED BY <1>3, <1>5

LEMMA LinesCommute ==
    ASSUME NEW res \in Result, NEW x \in DiffLines, NEW y \in DiffLines
    PROVE  Alike(ParseLine(ParseLine(res, x), y), ParseLine(ParseLine(res, y), x))
<1> DEFINE p == ParseLine(res, x)
           q == ParseLine(res, y)
           a == ParseLine(p, y)
           b == ParseLine(q, x)
           f == DeletedFile(x.raw)
           g == DeletedFile(y.raw)
<1>1. p \in Result /\ q \in Result
  BY LineCountsOnce
<1>2. a \in Result /\ b \in Result
  BY <1>1, LineCountsOnce
<1>3. f \in Files /\ g \in Files /\ res.deleted \in Seq(Files)
  BY ResultHasNumbers DEF Files
<1>4. /\ p.deleted = IF Column(x) = "deleted" THEN Append(res.deleted, f) ELSE res.deleted
      /\ p.dirs = Plus(res.dirs, Column(x), "dirs")
      /\ p.other = Plus(res.other, Column(x), "other")
      /\ p.renamed = Plus(res.renamed, Column(x), "renamed")
      /\ p.added = Plus(res.added, Column(x), "added")
      /\ p.modified = Plus(res.modified, Column(x), "modified")
      /\ p.skipped = Plus(res.skipped, Column(x), "skipped")
      /\ p.unparsed = Plus(res.unparsed, Column(x), "unparsed")
  BY ParseLineIs
<1>5. /\ q.deleted = IF Column(y) = "deleted" THEN Append(res.deleted, g) ELSE res.deleted
      /\ q.dirs = Plus(res.dirs, Column(y), "dirs")
      /\ q.other = Plus(res.other, Column(y), "other")
      /\ q.renamed = Plus(res.renamed, Column(y), "renamed")
      /\ q.added = Plus(res.added, Column(y), "added")
      /\ q.modified = Plus(res.modified, Column(y), "modified")
      /\ q.skipped = Plus(res.skipped, Column(y), "skipped")
      /\ q.unparsed = Plus(res.unparsed, Column(y), "unparsed")
  BY ParseLineIs
<1> HIDE DEF p, q, f, g
<1>6. /\ a.deleted = IF Column(y) = "deleted" THEN Append(p.deleted, g) ELSE p.deleted
      /\ a.dirs = Plus(p.dirs, Column(y), "dirs")
      /\ a.other = Plus(p.other, Column(y), "other")
      /\ a.renamed = Plus(p.renamed, Column(y), "renamed")
      /\ a.added = Plus(p.added, Column(y), "added")
      /\ a.modified = Plus(p.modified, Column(y), "modified")
      /\ a.skipped = Plus(p.skipped, Column(y), "skipped")
      /\ a.unparsed = Plus(p.unparsed, Column(y), "unparsed")
  BY <1>1, ParseLineIs DEF g
<1>7. /\ b.deleted = IF Column(x) = "deleted" THEN Append(q.deleted, f) ELSE q.deleted
      /\ b.dirs = Plus(q.dirs, Column(x), "dirs")
      /\ b.other = Plus(q.other, Column(x), "other")
      /\ b.renamed = Plus(q.renamed, Column(x), "renamed")
      /\ b.added = Plus(q.added, Column(x), "added")
      /\ b.modified = Plus(q.modified, Column(x), "modified")
      /\ b.skipped = Plus(q.skipped, Column(x), "skipped")
      /\ b.unparsed = Plus(q.unparsed, Column(x), "unparsed")
  BY <1>1, ParseLineIs DEF f
<1> HIDE DEF a, b
<1>8. ASSUME NEW number \in Nat, NEW this
      PROVE  Plus(Plus(number, Column(x), this), Column(y), this) =
             Plus(Plus(number, Column(y), this), Column(x), this)
  BY DEF Plus
<1>9. /\ a.dirs = b.dirs /\ a.other = b.other /\ a.renamed = b.renamed /\ a.added = b.added
      /\ a.modified = b.modified /\ a.skipped = b.skipped /\ a.unparsed = b.unparsed
  <2> HIDE DEF Plus
  <2> QED BY <1>4, <1>5, <1>6, <1>7, <1>8, ResultHasNumbers
<1>10. SortFiles(a.deleted) = SortFiles(b.deleted)
  <2>1. CASE Column(x) = "deleted" /\ Column(y) = "deleted"
    <3>1. a.deleted = Append(Append(res.deleted, f), g)
          /\ b.deleted = Append(Append(res.deleted, g), f)
      BY <1>4, <1>5, <1>6, <1>7, <2>1
    <3> QED BY <1>3, <3>1, AppendsCommute
  <2>2. CASE Column(x) # "deleted" \/ Column(y) # "deleted"
    <3>1. a.deleted = b.deleted
      BY <1>4, <1>5, <1>6, <1>7, <2>2
    <3> QED BY <3>1
  <2> QED BY <2>1, <2>2
<1>11. Alike(a, b)
  BY <1>2, <1>9, <1>10 DEF Alike, a, b
<1> QED BY <1>11 DEF a, b, p, q

\* Two neighbouring lines may change places.
LEMMA NeighboursMayChange ==
    ASSUME NEW lines \in Seq(DiffLines), NEW i \in 1 .. Len(lines) - 1
    PROVE  ParseDiff(lines) =
           ParseDiff([lines EXCEPT ![i] = lines[i + 1], ![i + 1] = lines[i]])
<1> DEFINE n == Len(lines)
           turned == [lines EXCEPT ![i] = lines[i + 1], ![i + 1] = lines[i]]
<1>1. /\ n \in Nat /\ i \in 1 .. n /\ i + 1 \in 1 .. n /\ i \in Nat \ {0}
      /\ \A k \in 1 .. n : lines[k] \in DiffLines
  OBVIOUS
<1>2. /\ turned \in Seq(DiffLines) /\ Len(turned) = n
      /\ turned[i] = lines[i + 1] /\ turned[i + 1] = lines[i]
      /\ \A k \in 1 .. n : k # i /\ k # i + 1 => turned[k] = lines[k]
  BY <1>1
<1>3. PICK f \in [0 .. n -> Result] :
              /\ f[0] = Zero
              /\ \A k \in 1 .. n : f[k] = ParseLine(f[k - 1], lines[k])
              /\ ParseDiff(lines) = [f[n] EXCEPT !.deleted = SortFiles(@)]
  BY ParseDiffTurns
<1> HIDE DEF n, turned
<1>4. PICK g \in [0 .. n -> Result] :
              /\ g[0] = Zero
              /\ \A k \in 1 .. n : g[k] = ParseLine(g[k - 1], turned[k])
              /\ ParseDiff(turned) = [g[n] EXCEPT !.deleted = SortFiles(@)]
  <2>1. \E g \in [0 .. Len(turned) -> Result] :
              /\ g[0] = Zero
              /\ \A k \in 1 .. Len(turned) : g[k] = ParseLine(g[k - 1], turned[k])
              /\ ParseDiff(turned) = [g[Len(turned)] EXCEPT !.deleted = SortFiles(@)]
    BY <1>2, ParseDiffTurns
  <2> QED BY <1>2, <2>1
<1>5. g[i - 1] = f[i - 1]
  <2> DEFINE R == {k \in Nat : k <= i - 1 => g[k] = f[k]}
  <2>1. 0 \in R
    BY <1>3, <1>4
  <2>2. ASSUME NEW k \in Nat, k \in R PROVE k + 1 \in R
    <3> SUFFICES ASSUME k + 1 <= i - 1 PROVE g[k + 1] = f[k + 1]
      OBVIOUS
    <3>1. g[k] = f[k] /\ k + 1 \in 1 .. n /\ (k + 1) - 1 = k /\ k + 1 # i /\ k + 1 # i + 1
      BY <1>1, <2>2
    <3>2. f[k + 1] = ParseLine(f[k], lines[k + 1]) /\ g[k + 1] = ParseLine(g[k], turned[k + 1])
      BY <1>3, <1>4, <3>1
    <3> QED BY <1>2, <3>1, <3>2
  <2>3. i - 1 \in R
    <3> HIDE DEF R
    <3>1. i - 1 \in Nat
      BY <1>1
    <3> QED BY <2>1, <2>2, <3>1, NatInductionOnSets
  <2> QED BY <1>1, <2>3
<1>6. Alike(f[i + 1], g[i + 1])
  <2> DEFINE r == f[i - 1]
             x == lines[i]
             y == lines[i + 1]
  <2>1. r \in Result /\ x \in DiffLines /\ y \in DiffLines /\ (i + 1) - 1 = i
    BY <1>1
  <2>2. f[i] = ParseLine(r, x) /\ f[i + 1] = ParseLine(f[i], y)
    BY <1>1, <1>3, <2>1
  <2>3. g[i] = ParseLine(r, y) /\ g[i + 1] = ParseLine(g[i], x)
    BY <1>1, <1>2, <1>4, <1>5, <2>1
  <2> HIDE DEF r, x, y
  <2>4. Alike(ParseLine(ParseLine(r, x), y), ParseLine(ParseLine(r, y), x))
    BY <2>1, LinesCommute
  <2> QED BY <2>2, <2>3, <2>4
<1> DEFINE R == {k \in Nat : i + 1 <= k /\ k <= n => Alike(f[k], g[k])}
<1>7. 0 \in R
  BY <1>1
<1>8. ASSUME NEW k \in Nat, k \in R PROVE k + 1 \in R
  <2> SUFFICES ASSUME i + 1 <= k + 1, k + 1 <= n PROVE Alike(f[k + 1], g[k + 1])
    OBVIOUS
  <2>1. CASE k = i
    BY <1>6, <2>1
  <2>2. CASE k # i
    <3>1. /\ Alike(f[k], g[k]) /\ k + 1 \in 1 .. n /\ (k + 1) - 1 = k
          /\ k + 1 # i /\ k + 1 # i + 1 /\ lines[k + 1] \in DiffLines
      BY <1>1, <1>8, <2>2
    <3>2. f[k + 1] = ParseLine(f[k], lines[k + 1]) /\ g[k + 1] = ParseLine(g[k], lines[k + 1])
      BY <1>2, <1>3, <1>4, <3>1
    <3> QED BY <3>1, <3>2, ParseLineAlike
  <2> QED BY <2>1, <2>2
<1>9. n \in R
  <2> HIDE DEF R
  <2> QED BY <1>1, <1>7, <1>8, NatInductionOnSets
<1>10. Alike(f[n], g[n])
  BY <1>1, <1>9
<1>11. [f[n] EXCEPT !.deleted = SortFiles(@)] = [g[n] EXCEPT !.deleted = SortFiles(@)]
  BY <1>10, SortedAlike
<1> QED BY <1>3, <1>4, <1>11 DEF turned

\* Whatever order `zfs diff` prints its lines in, the result is the same: any order is
\* reached from any other by exchanging neighbours (zfs.go, the sort in parseDiff).
THEOREM LineOrderIsIrrelevant == PathsSpec => []OrderDoesNotMatter
<1>1. PathsInv => OrderDoesNotMatter
  BY NeighboursMayChange DEF PathsInv, OrderDoesNotMatter
<1> QED BY <1>1, PathsInvariant, PTL
=============================================================================
