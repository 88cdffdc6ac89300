------------------------ MODULE TableReportViewProofs ------------------------
(***************************************************************************)
(* Proofs, for any reports, filters and sizes and any number of threads,   *)
(* that the list, the selection and the scroll bar of a table window fit   *)
(* together (SelectionNavigates), that a deleted proxy is read only when a *)
(* window is closed (CrashHasCause), that the selection stays on its row   *)
(* when the list is replaced (SelectionFollows), and that the list is what *)
(* RowList promises.                                                       *)
(***************************************************************************)
EXTENDS TableReportView, FiniteSetTheorems, SequenceTheorems, WellFoundedInduction, TLAPS

-----------------------------------------------------------------------------
(* INDUCTION.  The theorems of the library take an operator as a           *)
(* parameter and cannot be used for a given set or function; these do.     *)

(* Every set of natural numbers that is not empty has a least member.      *)
LEMMA Least ==
    ASSUME NEW T \in SUBSET Nat, T # {}
    PROVE  \E n \in T : \A m \in T : n <= m
<1> DEFINE R == OpToRel(<, Nat)
<1>1. IsWellFoundedOn(R, Nat)
  BY NatLessThanWellFounded
<1>2. \A x, y \in Nat : y < x => <<y, x>> \in R
  BY DEF OpToRel
<1> HIDE DEF R
<1>3. PICK x \in T : \A y \in T : ~ (<<y, x>> \in R)
  BY <1>1, WFMin
<1>4. \A m \in T : ~(m < x)
  BY <1>2, <1>3
<1> QED
  BY <1>4

(* Induction over the natural numbers, for a set of them.                  *)
LEMMA Induct ==
    ASSUME NEW T \in SUBSET Nat, 0 \in T, \A n \in T : n + 1 \in T
    PROVE  T = Nat
<1> SUFFICES ASSUME Nat \ T # {} PROVE FALSE
  OBVIOUS
<1>1. PICK n \in Nat \ T : \A m \in Nat \ T : n <= m
  BY Least
<1>2. n # 0 /\ n - 1 \in Nat /\ n - 1 \in T
  BY <1>1
<1> QED
  BY <1>1, <1>2

(* A function that is defined at each i from its value at an earlier place *)
(* exists.  G[i] is the step at i, and `next` says from where. *)
GoesBack(next, n) == \A i \in 1..n : next[i] \in 0..(i - 1)

HasValues(n, V, base, next, G) ==
    \E f \in [0..n -> V] : f[0] = base /\ \A i \in 1..n : f[i] = G[i][f[next[i]]]

LEMMA Recursion ==
    ASSUME NEW n \in Nat, NEW V, NEW base \in V, NEW next, NEW G \in [1..n -> [V -> V]],
           GoesBack(next, n)
    PROVE  HasValues(n, V, base, next, G)
<1> USE DEF GoesBack
<1> DEFINE Upto(m) == \E f \in [0..m -> V] : f[0] = base
                          /\ \A i \in 1..m : f[i] = G[i][f[next[i]]]
           T == {m \in Nat : m <= n => Upto(m)}
<1>1. Upto(0)
  <2> DEFINE f == [i \in 0..0 |-> base]
  <2>1. f \in [0..0 -> V] /\ f[0] = base /\ \A i \in 1..0 : f[i] = G[i][f[next[i]]]
    OBVIOUS
  <2> QED
    BY <2>1
<1>2. ASSUME NEW m \in Nat, m + 1 <= n, Upto(m)
      PROVE  Upto(m + 1)
  <2>1. PICK f \in [0..m -> V] : f[0] = base /\ \A i \in 1..m : f[i] = G[i][f[next[i]]]
    BY <1>2
  <2>2. m + 1 \in 1..n /\ next[m + 1] \in 0..m
    BY <1>2
  <2>3. PICK v \in V : v = G[m + 1][f[next[m + 1]]]
    BY <2>2
  <2> DEFINE g == [i \in 0..(m + 1) |-> IF i = m + 1 THEN v ELSE f[i]]
  <2>4. g \in [0..(m + 1) -> V]
    BY <1>2
  <2>5. g[0] = base /\ \A i \in 0..m : g[i] = f[i]
    BY <1>2, <2>1
  <2>6. g[m + 1] = v
    BY <1>2
  <2> HIDE DEF g
  <2>7. ASSUME NEW i \in 1..(m + 1)
        PROVE  g[i] = G[i][g[next[i]]]
    <3>1. CASE i = m + 1
      BY <3>1, <2>2, <2>3, <2>5, <2>6
    <3>2. CASE i \in 1..m
      <4>1. next[i] \in 0..m /\ f[i] = G[i][f[next[i]]]
        BY <3>2, <1>2, <2>1
      <4> QED
        BY <3>2, <4>1, <2>5
    <3> QED
      BY <3>1, <3>2, <1>2
  <2> QED
    BY <2>4, <2>5, <2>7
<1> HIDE DEF Upto
<1>3. T = Nat
  <2>1. 0 \in T
    BY <1>1
  <2>2. \A m \in T : m + 1 \in T
    BY <1>2
  <2> HIDE DEF T
  <2>3. T \in SUBSET Nat
    BY DEF T
  <2> QED
    BY <2>1, <2>2, <2>3, Induct
<1>4. Upto(n)
  <2>1. n \in T
    BY <1>3
  <2> QED
    BY <2>1
<1> QED
  BY <1>4 DEF Upto, HasValues

-----------------------------------------------------------------------------
(* ORDERS. *)
(* R, a set of pairs, orders S. *)
StrictOrder(R, S) ==
    /\ \A x \in S : <<x, x>> \notin R
    /\ \A x, y \in S : x # y => <<x, y>> \in R \/ <<y, x>> \in R
    /\ \A x, y, z \in S : <<x, y>> \in R /\ <<y, z>> \in R => <<x, z>> \in R

Increasing(s, R, n) == \A i, j \in 1..n : i < j => <<s[i], s[j]>> \in R

HasSort(R, n) == \E s \in [1..n -> 1..n] : Increasing(s, R, n)

LEMMA SortExtends ==
    ASSUME NEW k \in Nat, NEW R, StrictOrder(R, 1..(k + 1)), HasSort(R, k)
    PROVE  HasSort(R, k + 1)
<1>1. PICK s \in [1..k -> 1..k] : Increasing(s, R, k)
  BY DEF HasSort
<1>2. PICK x \in 1..(k + 1) : x = k + 1
  OBVIOUS
<1>3. \A i \in 1..k : s[i] \in 1..(k + 1) /\ s[i] # x
  <2> SUFFICES ASSUME NEW i \in 1..k PROVE s[i] \in 1..(k + 1) /\ s[i] # x
    OBVIOUS
  <2>1. s[i] \in 1..k
    BY <1>1
  <2> QED
    BY <1>2, <2>1
<1>4. PICK p \in 1..(k + 1) : /\ p # k + 1 => <<x, s[p]>> \in R
                              /\ \A i \in 1..k : i < p => <<s[i], x>> \in R
  <2> DEFINE T == {i \in 1..(k + 1) : i # k + 1 => <<x, s[i]>> \in R}
  <2>1. T \in SUBSET Nat /\ k + 1 \in T
    OBVIOUS
  <2>2. PICK p \in T : \A m \in T : p <= m
    BY <2>1, Least
  <2>3. ASSUME NEW i \in 1..k, i < p PROVE <<s[i], x>> \in R
    <3>1. i \notin T
      BY <2>2, <2>3
    <3>2. <<x, s[i]>> \notin R
      BY <3>1
    <3> QED
      BY <1>3, <3>2 DEF StrictOrder
  <2> QED
    BY <2>2, <2>3
<1> DEFINE more == [i \in 1..(k + 1) |-> IF i < p THEN s[i]
                                         ELSE IF i = p THEN x ELSE s[i - 1]]
<1>5. \A i \in 1..(k + 1) : /\ i < p => i \in 1..k /\ more[i] = s[i]
                            /\ i = p => more[i] = x
                            /\ i > p => i - 1 \in 1..k /\ more[i] = s[i - 1]
  OBVIOUS
<1>6. more \in [1..(k + 1) -> 1..(k + 1)]
  <2>1. \A i \in 1..(k + 1) : more[i] \in 1..(k + 1)
    BY <1>3, <1>5
  <2>2. more = [i \in 1..(k + 1) |-> more[i]]
    OBVIOUS
  <2> HIDE DEF more
  <2> QED
    BY <2>1, <2>2
<1> HIDE DEF more
<1>7. ASSUME NEW i \in 1..(k + 1), NEW j \in 1..(k + 1), i < j
      PROVE  <<more[i], more[j]>> \in R
  <2>1. CASE i < p /\ j < p
    BY <1>1, <1>5, <1>7, <2>1 DEF Increasing
  <2>2. CASE i < p /\ j = p
    BY <1>4, <1>5, <2>2
  <2>3. CASE i < p /\ j > p
    <3>1. i \in 1..k /\ j - 1 \in 1..k /\ i < j - 1
      BY <1>5, <2>3
    <3>2. <<s[i], s[j - 1]>> \in R
      BY <1>1, <3>1 DEF Increasing
    <3> QED
      BY <1>5, <2>3, <3>2
  <2>4. CASE i = p /\ j > p
    <3>1. j - 1 \in 1..k /\ p \in 1..k /\ p <= j - 1
      BY <1>5, <2>4
    <3>2. <<x, s[p]>> \in R
      BY <1>4, <3>1
    <3>3. p = j - 1 \/ <<s[p], s[j - 1]>> \in R
      BY <1>1, <3>1 DEF Increasing
    <3>4. <<x, s[j - 1]>> \in R
      <4>1. CASE p = j - 1
        BY <3>2, <4>1
      <4>2. CASE <<s[p], s[j - 1]>> \in R
        <5>1. PICK y \in 1..(k + 1), z \in 1..(k + 1) : y = s[p] /\ z = s[j - 1]
          BY <1>3, <3>1
        <5>2. <<x, y>> \in R /\ <<y, z>> \in R
          BY <3>2, <4>2, <5>1
        <5>3. <<x, z>> \in R
          BY <5>2 DEF StrictOrder
        <5> QED
          BY <5>1, <5>3
      <4> QED
        BY <3>3, <4>1, <4>2
    <3> QED
      BY <1>5, <2>4, <3>4
  <2>5. CASE i > p /\ j > p
    <3>1. i - 1 \in 1..k /\ j - 1 \in 1..k /\ i - 1 < j - 1
      BY <1>5, <1>7, <2>5
    <3>2. <<s[i - 1], s[j - 1]>> \in R
      BY <1>1, <3>1 DEF Increasing
    <3> QED
      BY <1>5, <2>5, <3>2
  <2> QED
    BY <1>7, <2>1, <2>2, <2>3, <2>4, <2>5
<1> QED
  BY <1>6, <1>7 DEF HasSort, Increasing

LEMMA SortExists ==
    ASSUME NEW n \in Nat, NEW R, StrictOrder(R, 1..n)
    PROVE  HasSort(R, n)
<1> DEFINE T == {k \in Nat : k <= n => HasSort(R, k)}
<1>1. 0 \in T
  <2>1. [i \in 1..0 |-> i] \in [1..0 -> 1..0] /\ Increasing([i \in 1..0 |-> i], R, 0)
    BY DEF Increasing
  <2>2. HasSort(R, 0)
    BY <2>1 DEF HasSort
  <2> QED
    BY <2>2
<1>2. ASSUME NEW k \in T PROVE k + 1 \in T
  <2>1. SUFFICES ASSUME k + 1 <= n PROVE HasSort(R, k + 1)
    OBVIOUS
  <2>2. k \in Nat /\ HasSort(R, k)
    BY <2>1
  <2>3. StrictOrder(R, 1..(k + 1))
    <3>1. \A x \in 1..(k + 1) : x \in 1..n
      BY <2>1, <2>2
    <3> QED
      BY <3>1 DEF StrictOrder
  <2> QED
    BY <2>2, <2>3, SortExtends
<1> HIDE DEF T
<1>3. T \in SUBSET Nat
  BY DEF T
<1>4. n \in T
  BY <1>1, <1>2, <1>3, Induct
<1> QED
  BY <1>4 DEF T

(* s lists the elements of S in the order R. *)
Lists(s, R, S, m) ==
    /\ s \in [1..m -> S]
    /\ Increasing(s, R, m)
    /\ \A x \in S : \E i \in 1..m : s[i] = x

LEMMA NoRepetition ==
    ASSUME NEW m \in Nat, NEW S, NEW R, StrictOrder(R, S), NEW s, s \in [1..m -> S],
           Increasing(s, R, m)
    PROVE  \A i, j \in 1..m : s[i] = s[j] => i = j
<1> SUFFICES ASSUME NEW i \in 1..m, NEW j \in 1..m, s[i] = s[j], i < j PROVE FALSE
  <2>1. \A i, j \in 1..m : i = j \/ i < j \/ j < i
    OBVIOUS
  <2> QED
    BY <2>1
<1>1. <<s[i], s[j]>> \in R /\ s[i] \in S
  BY DEF Increasing
<1>2. <<s[i], s[i]>> \in R
  BY <1>1
<1> QED
  BY <1>1, <1>2 DEF StrictOrder

LEMMA CountOfFirst ==
    ASSUME NEW m \in Nat, NEW s, \A i, j \in 1..m : s[i] = s[j] => i = j,
           NEW k \in 0..m
    PROVE  Cardinality({s[q] : q \in 1..k}) = k
<1> DEFINE f == [q \in 1..k |-> s[q]]
           X == {s[q] : q \in 1..k}
<1>1. f \in [1..k -> X] /\ \A q \in 1..k : f[q] = s[q]
  OBVIOUS
<1>2. \A a, b \in 1..k : f[a] = f[b] => a = b
  OBVIOUS
<1>3. \A x \in X : \E q \in 1..k : f[q] = x
  OBVIOUS
<1> HIDE DEF f, X
<1>4. f \in Injection(1..k, X)
  BY <1>1, <1>2 DEF Injection, IsInjective
<1>5. f \in Bijection(1..k, X)
  BY <1>1, <1>3, <1>4 DEF Bijection, Surjection
<1>6. ExistsBijection(1..k, X)
  BY <1>5 DEF ExistsBijection
<1>7. Cardinality(X) = k
  BY <1>6, FS_CountingElements
<1> QED
  BY <1>7 DEF X

(* There is one such list: each element is at its rank. *)
Rank(R, S, x) == Cardinality({j \in S : <<j, x>> \in R})

LEMMA ListIsRanked ==
    ASSUME NEW m \in Nat, NEW S, NEW R, StrictOrder(R, S), NEW s, Lists(s, R, S, m)
    PROVE  /\ Cardinality(S) = m
           /\ \A p \in 1..m, x \in S : Rank(R, S, x) = p - 1 <=> x = s[p]
<1>1. s \in [1..m -> S] /\ Increasing(s, R, m) /\ \A x \in S : \E i \in 1..m : s[i] = x
  BY DEF Lists
<1>2. \A i, j \in 1..m : s[i] = s[j] => i = j
  BY <1>1, NoRepetition
<1>3. Cardinality(S) = m
  <2>1. S = {s[q] : q \in 1..m}
    BY <1>1
  <2> QED
    BY <1>2, <2>1, CountOfFirst
<1>4. ASSUME NEW p \in 1..m PROVE Rank(R, S, s[p]) = p - 1
  <2>1. {j \in S : <<j, s[p]>> \in R} = {s[q] : q \in 1..(p - 1)}
    <3>1. ASSUME NEW j \in S, <<j, s[p]>> \in R PROVE \E q \in 1..(p - 1) : j = s[q]
      <4>1. PICK q \in 1..m : s[q] = j
        BY <1>1
      <4>2. ~(q = p)
        BY <1>1, <3>1, <4>1 DEF StrictOrder
      <4>3. ~(p < q)
        <5> SUFFICES ASSUME p < q PROVE FALSE
          OBVIOUS
        <5>1. <<s[p], s[q]>> \in R /\ <<s[q], s[p]>> \in R /\ s[p] \in S /\ s[q] \in S
          BY <1>1, <3>1, <4>1 DEF Increasing
        <5> QED
          BY <5>1 DEF StrictOrder
      <4> QED
        BY <4>1, <4>2, <4>3
    <3>2. ASSUME NEW q \in 1..(p - 1) PROVE s[q] \in S /\ <<s[q], s[p]>> \in R
      BY <1>1 DEF Increasing
    <3> QED
      BY <3>1, <3>2
  <2>2. p - 1 \in 0..m
    OBVIOUS
  <2>3. Cardinality({s[q] : q \in 1..(p - 1)}) = p - 1
    BY <1>2, <2>2, CountOfFirst
  <2> QED
    BY <2>1, <2>3, Zenon DEF Rank
<1>5. ASSUME NEW p \in 1..m, NEW x \in S, Rank(R, S, x) = p - 1
      PROVE  x = s[p]
  <2>1. PICK q \in 1..m : s[q] = x
    BY <1>1
  <2>2. q - 1 = p - 1
    BY <1>4, <1>5, <2>1
  <2> QED
    BY <2>1, <2>2
<1> QED
  BY <1>3, <1>4, <1>5
-----------------------------------------------------------------------------
(* ASCENDING LISTS. *)
(* s lists the numbers in S in ascending order. *)
Ascending(s, S) ==
    /\ s \in Seq(Nat)
    /\ \A i, j \in 1..Len(s) : i < j => s[i] < s[j]
    /\ \A x : x \in S <=> \E i \in 1..Len(s) : s[i] = x

LEMMA Joining ==
    ASSUME NEW s, NEW S, Ascending(s, S), NEW t, NEW T, Ascending(t, T),
           \A x \in S, y \in T : x < y
    PROVE  Ascending(s \o t, S \cup T)
<1>1. PICK l \in Nat, m \in Nat : l = Len(s) /\ m = Len(t)
  BY DEF Ascending
<1>2. s \in Seq(Nat) /\ t \in Seq(Nat)
  BY DEF Ascending
<1>3. PICK u : u = s \o t
  OBVIOUS
<1>4. u \in Seq(Nat) /\ Len(u) = l + m
  BY <1>1, <1>2, <1>3
<1>5. \A i \in 1..l : u[i] = s[i] /\ s[i] \in S
  BY <1>1, <1>2, <1>3 DEF Ascending
<1>6. \A i \in 1..m : u[l + i] = t[i] /\ t[i] \in T
  BY <1>1, <1>2, <1>3 DEF Ascending
<1>7. \A i \in 1..(l + m) : i \in 1..l \/ (i - l \in 1..m /\ u[i] = t[i - l])
  <2> SUFFICES ASSUME NEW i \in 1..(l + m), i \notin 1..l
               PROVE  i - l \in 1..m /\ u[i] = t[i - l]
    OBVIOUS
  <2>1. i - l \in 1..m /\ l + (i - l) = i
    OBVIOUS
  <2> QED
    BY <1>6, <2>1
<1>8. ASSUME NEW i \in 1..(l + m), NEW j \in 1..(l + m), i < j PROVE u[i] < u[j]
  <2>1. CASE j \in 1..l
    <3>1. i \in 1..l
      BY <1>8, <2>1
    <3>2. s[i] < s[j]
      BY <1>1, <1>8, <2>1, <3>1 DEF Ascending
    <3> QED
      BY <1>5, <2>1, <3>1, <3>2
  <2>2. CASE i \in 1..l /\ j \notin 1..l
    <3>1. u[i] \in S
      BY <1>5, <2>2
    <3>2. u[j] \in T
      BY <1>6, <1>7, <2>2
    <3> QED
      BY <3>1, <3>2
  <2>3. CASE i \notin 1..l
    <3>1. j \notin 1..l
      BY <1>8, <2>3
    <3>2. i - l \in 1..m /\ u[i] = t[i - l] /\ j - l \in 1..m /\ u[j] = t[j - l]
      BY <1>7, <2>3, <3>1
    <3>3. i - l < j - l
      BY <1>8
    <3>4. t[i - l] < t[j - l]
      BY <1>1, <3>2, <3>3 DEF Ascending
    <3> QED
      BY <3>2, <3>4
  <2> QED
    BY <2>1, <2>2, <2>3
<1>9. ASSUME NEW x PROVE x \in S \cup T <=> \E i \in 1..(l + m) : u[i] = x
  <2>1. ASSUME x \in S PROVE \E i \in 1..(l + m) : u[i] = x
    <3>1. PICK i \in 1..l : s[i] = x
      BY <1>1, <2>1 DEF Ascending
    <3>2. i \in 1..(l + m) /\ u[i] = x
      BY <1>5, <3>1
    <3> QED
      BY <3>2
  <2>2. ASSUME x \in T PROVE \E i \in 1..(l + m) : u[i] = x
    <3>1. PICK i \in 1..m : t[i] = x
      BY <1>1, <2>2 DEF Ascending
    <3>2. l + i \in 1..(l + m) /\ u[l + i] = x
      BY <1>6, <3>1
    <3> QED
      BY <3>2
  <2>3. ASSUME NEW i \in 1..(l + m), u[i] = x PROVE x \in S \cup T
    BY <1>5, <1>6, <1>7, <2>3
  <2> QED
    BY <2>1, <2>2, <2>3
<1> QED
  BY <1>3, <1>4, <1>8, <1>9 DEF Ascending

LEMMA OneMore ==
    ASSUME NEW s, NEW S, Ascending(s, S), NEW y \in Nat, \A x \in S : x < y
    PROVE  Ascending(Append(s, y), S \cup {y})
<1>1. s \in Seq(Nat)
  BY DEF Ascending
<1>2. Append(s, y) = s \o <<y>>
  BY <1>1
<1>3. Ascending(<<y>>, {y})
  BY DEF Ascending
<1> QED
  BY <1>2, <1>3, Joining

LEMMA NoneYet == Ascending(<< >>, {})
  BY DEF Ascending

(* What a filter has collected when it has been through the positions S.  *)
Collected(result, S) ==
    /\ result \in [indices : Seq(Nat), width : Nat]
    /\ Ascending(result.indices, S)

(* The positions from a to b whose row the pattern matches. *)
Matching(proxy, r, pattern, a, b) == {i \in a..b : proxy[i] \in Accepts[pattern][r]}
-----------------------------------------------------------------------------
(* ONE BATCH. *)
(* A proxy of report r, which maps positions to rows. *)
ProxyOK(proxy, r) == proxy \in [1..NumRows[r] -> 1..NumRows[r]]

LEMMA MapBatchIs ==
    ASSUME NEW r \in Reports, NEW sort, ProxyOK(ProxyForFilter(sort, r), r), NEW pattern,
           NEW a \in Nat, NEW b \in Nat, a <= b, b <= NumRows[r]
    PROVE  Collected(MapBatch(sort, r, pattern, <<a + 1, b - a>>),
                     Matching(ProxyForFilter(sort, r), r, pattern, a + 1, b))
<1>1. PICK proxy : proxy = ProxyForFilter(sort, r)
  OBVIOUS
<1>2. PICK range : range = <<a + 1, b - a>>
  OBVIOUS
<1>3. PICK c \in Nat : c = b - a /\ c = range[2] /\ range[1] = a + 1
  BY <1>2
<1>4. PICK n \in Nat : n = NumRows[r]
  BY ViewAssumption DEF ViewAssumption
<1>5. PICK V : V = [indices : Seq(Nat), width : Nat]
  OBVIOUS
<1>6. \A k \in 1..c : /\ a + k \in 1..n
                      /\ range[1] + k - 1 = a + k
                      /\ proxy[a + k] \in 1..n
                      /\ RowWidth[r][proxy[a + k]] \in Nat
  <2> SUFFICES ASSUME NEW k \in 1..c
               PROVE  /\ a + k \in 1..n
                      /\ range[1] + k - 1 = a + k
                      /\ proxy[a + k] \in 1..n
                      /\ RowWidth[r][proxy[a + k]] \in Nat
    OBVIOUS
  <2>1. a + k \in 1..n /\ range[1] + k - 1 = a + k
    BY <1>3, <1>4
  <2>2. proxy[a + k] \in 1..n
    BY <1>1, <1>4, <2>1 DEF ProxyOK
  <2> QED
    BY <1>4, <2>1, <2>2, ViewAssumption DEF ViewAssumption
<1> DEFINE Step(k, v) == IF ~RowMatches(r, pattern, proxy[range[1] + k - 1]) THEN v
                         ELSE [indices |-> Append(v.indices, range[1] + k - 1),
                               width |-> most(RowWidth[r][proxy[range[1] + k - 1]], v.width)]
           IsBatch(f) == f = [k \in 0..range[2] |->
                                  IF k = 0 THEN [indices |-> << >>, width |-> 0]
                                  ELSE Step(k, f[k - 1])]
           Batch == CHOOSE f : IsBatch(f)
<1>7. \A k \in 1..c, v \in V : Step(k, v) \in V
  <2> SUFFICES ASSUME NEW k \in 1..c, NEW v \in V PROVE Step(k, v) \in V
    OBVIOUS
  <2>1. PICK i \in Nat : i = range[1] + k - 1
    BY <1>6
  <2>2. PICK w \in Nat : w = RowWidth[r][proxy[i]]
    BY <1>6, <2>1
  <2>3. v.indices \in Seq(Nat) /\ v.width \in Nat
    BY <1>5
  <2>4. Append(v.indices, i) \in Seq(Nat) /\ most(w, v.width) \in Nat
    BY <2>3 DEF most
  <2> QED
    BY <1>5, <2>1, <2>2, <2>4
<1>8. PICK base \in V : base = [indices |-> << >>, width |-> 0]
  <2>1. [indices |-> << >>, width |-> 0] \in V
    BY <1>5
  <2> QED
    BY <2>1
<1> HIDE DEF Step
<1>9. \E f : IsBatch(f)
  <2>1. PICK G : G = [k \in 1..c |-> [v \in V |-> Step(k, v)]]
    OBVIOUS
  <2>2. G \in [1..c -> [V -> V]] /\ \A k \in 1..c, v \in V : G[k][v] = Step(k, v)
    BY <1>7, <2>1
  <2>3. PICK next : next = [k \in 1..c |-> k - 1]
    OBVIOUS
  <2>4. GoesBack(next, c) /\ \A k \in 1..c : next[k] = k - 1
    BY <2>3 DEF GoesBack
  <2>5. HasValues(c, V, base, next, G)
    BY <2>2, <2>4, Recursion
  <2>6. PICK f \in [0..c -> V] : f[0] = base /\ \A k \in 1..c : f[k] = G[k][f[next[k]]]
    BY <2>5 DEF HasValues
  <2>7. ASSUME NEW k \in 0..c
        PROVE  f[k] = IF k = 0 THEN [indices |-> << >>, width |-> 0] ELSE Step(k, f[k - 1])
    <3>1. CASE k = 0
      BY <1>8, <2>6, <3>1
    <3>2. CASE k \in 1..c
      <4>1. PICK v \in V : v = f[k - 1]
        BY <2>6, <3>2
      <4>2. f[k] = G[k][v]
        BY <2>4, <2>6, <3>2, <4>1
      <4> QED
        BY <2>2, <3>2, <4>1, <4>2
    <3> QED
      BY <3>1, <3>2
  <2>8. f = [k \in 0..c |-> IF k = 0 THEN [indices |-> << >>, width |-> 0]
                            ELSE Step(k, f[k - 1])]
    BY <2>6, <2>7
  <2> QED
    BY <1>3, <2>8
<1>10. IsBatch(Batch)
  BY <1>9
<1>11. MapBatch(sort, r, pattern, range) = Batch[c]
  BY <1>1, <1>3 DEF MapBatch, Step
<1> HIDE DEF Batch
<1>12. PICK f : f = Batch
  OBVIOUS
<1>13. f[0] = base /\ \A k \in 1..c : f[k] = Step(k, f[k - 1])
  <2>1. f = [k \in 0..c |-> IF k = 0 THEN [indices |-> << >>, width |-> 0]
                            ELSE Step(k, f[k - 1])]
    BY <1>3, <1>10, <1>12
  <2>2. \A k \in 0..c : f[k] = IF k = 0 THEN [indices |-> << >>, width |-> 0]
                               ELSE Step(k, f[k - 1])
    BY <2>1
  <2> QED
    BY <1>8, <2>2
<1> DEFINE M(k) == Matching(proxy, r, pattern, a + 1, a + k)
           T == {k \in Nat : k <= c => Collected(f[k], M(k))}
<1>14. 0 \in T
  <2>1. M(0) = {}
    BY DEF Matching
  <2>2. f[0] \in V /\ f[0].indices = << >>
    BY <1>8, <1>13
  <2>3. Collected(f[0], M(0))
    BY <1>5, <2>1, <2>2, NoneYet DEF Collected
  <2> HIDE DEF M
  <2> QED
    BY <2>3
<1>15. ASSUME NEW k \in T PROVE k + 1 \in T
  <2>1. k \in Nat /\ (k <= c => Collected(f[k], M(k)))
    OBVIOUS
  <2>2. SUFFICES ASSUME k + 1 <= c PROVE Collected(f[k + 1], M(k + 1))
    BY <2>1
  <2>3. k + 1 \in 1..c /\ (k + 1) - 1 = k /\ k <= c
    BY <2>1, <2>2
  <2>4. PICK v \in V : v = f[k] /\ Collected(v, M(k))
    BY <1>5, <2>1, <2>3 DEF Collected
  <2>5. PICK i \in Nat : i = a + (k + 1) /\ i = range[1] + (k + 1) - 1 /\ i \in 1..n
    BY <1>6, <2>3
  <2>6. f[k + 1] = Step(k + 1, v)
    BY <1>13, <2>3, <2>4
  <2>7. \A x : x \in M(k + 1) <=> x \in M(k) \/ (x = i /\ proxy[i] \in Accepts[pattern][r])
    <3>1. \A x : x \in (a + 1)..(a + (k + 1)) <=> x \in (a + 1)..(a + k) \/ x = i
      BY <2>1, <2>5
    <3> QED
      BY <3>1 DEF Matching
  <2>8. CASE ~RowMatches(r, pattern, proxy[i])
    <3>1. f[k + 1] = v
      BY <2>5, <2>6, <2>8 DEF Step
    <3>2. M(k + 1) = M(k)
      BY <2>7, <2>8 DEF RowMatches
    <3> QED
      BY <2>4, <3>1, <3>2
  <2>9. CASE RowMatches(r, pattern, proxy[i])
    <3>1. f[k + 1].indices = Append(v.indices, i)
      BY <2>5, <2>6, <2>9 DEF Step
    <3>2. M(k + 1) = M(k) \cup {i}
      BY <2>7, <2>9 DEF RowMatches
    <3>3. Ascending(v.indices, M(k))
      BY <2>4 DEF Collected
    <3>4. \A x \in M(k) : x < i
      BY <2>1, <2>5 DEF Matching
    <3>5. Ascending(Append(v.indices, i), M(k) \cup {i})
      <4> HIDE DEF M
      <4> QED
        BY <3>3, <3>4, OneMore
    <3>6. f[k + 1] \in V
      BY <1>7, <2>3, <2>6
    <3> QED
      BY <1>5, <3>1, <3>2, <3>5, <3>6 DEF Collected
  <2> QED
    BY <2>8, <2>9
<1> HIDE DEF M
<1>16. T = Nat
  <2> HIDE DEF T
  <2>1. T \in SUBSET Nat
    BY DEF T
  <2> QED
    BY <1>14, <1>15, <2>1, Induct
<1>17. Collected(f[c], M(c))
  <2>1. c \in T
    BY <1>16
  <2> QED
    BY <2>1
<1>18. a + c = b
  BY <1>3
<1> QED
  BY <1>1, <1>2, <1>11, <1>12, <1>17, <1>18 DEF M

-----------------------------------------------------------------------------
(* BATCHES. *)
(* The batches go through the positions 1 to count, one after the other,   *)
(* and batch b ends at e[b]. *)
EndsAt(e, batches, count) ==
    /\ Len(batches) \in Nat
    /\ e \in [0..Len(batches) -> 0..count]
    /\ e[0] = 0 /\ e[Len(batches)] = count
    /\ \A b \in 1..Len(batches) : /\ e[b - 1] <= e[b]
                                  /\ batches[b] = <<e[b - 1] + 1, e[b] - e[b - 1]>>

LEMMA Quotient ==
    ASSUME NEW n \in Nat, NEW size \in Nat \ {0}
    PROVE  /\ n \div size \in Nat
           /\ (n \div size) * size <= n
           /\ n < (n \div size) * size + size
<1>1. PICK q \in Int, m \in Int : q = n \div size /\ m = n % size
  OBVIOUS
<1>2. n = size * q + m /\ m \in 0..(size - 1)
  BY <1>1
<1>3. q >= 0
  <2>1. SUFFICES ASSUME q <= -1 PROVE FALSE
    BY <1>1
  <2>2. size * q <= -size
    BY <2>1
  <2> QED
    BY <1>2, <2>2
<1>4. size * q = q * size
  OBVIOUS
<1> QED
  BY <1>1, <1>2, <1>3, <1>4

LEMMA BatchesCover ==
    ASSUME NEW count \in Nat
    PROVE  \E e : EndsAt(e, MakeBatches(count), count)
<1>1. PICK size \in Nat \ {0} : size = most(BatchMin, count \div 20)
  <2>1. count \div 20 \in Nat
    OBVIOUS
  <2> QED
    BY <2>1, ViewAssumption DEF most, ViewAssumption
<1>2. PICK n \in Nat : n = (count + size - 1) \div size
  <2>1. count + size - 1 \in Nat
    BY <1>1
  <2> QED
    BY <1>1, <2>1, Quotient
<1>3. n * size <= count + size - 1 /\ count + size - 1 < n * size + size
  <2>1. PICK m \in Nat : m = count + size - 1
    BY <1>1
  <2>2. (m \div size) * size <= m /\ m < (m \div size) * size + size
    BY <1>1, Quotient
  <2> QED
    BY <1>2, <2>1, <2>2
<1>4. PICK batches : batches = MakeBatches(count)
  OBVIOUS
<1>5. batches = [b \in 1..n |-> <<(b - 1) * size + 1, least(size, count - (b - 1) * size)>>]
  BY <1>1, <1>2, <1>4 DEF MakeBatches
<1>6. Len(batches) = n
  BY <1>2, <1>5
<1>7. PICK e : e = [b \in 0..n |-> least(b * size, count)]
  OBVIOUS
<1>8. \A b \in 0..n : e[b] = least(b * size, count)
  BY <1>7
<1>9. ASSUME NEW b \in 1..n
      PROVE  /\ e[b - 1] = (b - 1) * size /\ e[b - 1] <= e[b]
             /\ batches[b] = <<e[b - 1] + 1, e[b] - e[b - 1]>>
  <2>1. PICK x \in Nat : x = (b - 1) * size
    <3>1. b - 1 \in Nat
      OBVIOUS
    <3> QED
      BY <1>1, <3>1
  <2>2. b * size = x + size
    BY <1>1, <2>1
  <2>3. x + size <= n * size
    <3>1. PICK d \in Nat : d = n - b
      OBVIOUS
    <3>2. n * size = b * size + d * size /\ d * size >= 0
      BY <1>1, <3>1
    <3> QED
      BY <2>2, <3>2
  <2>4. x < count
    BY <1>1, <1>3, <2>1, <2>3
  <2>5. e[b - 1] = x
    <3>1. b - 1 \in 0..n
      OBVIOUS
    <3> QED
      BY <1>8, <2>1, <2>4, <3>1 DEF least
  <2>6. e[b] = least(x + size, count)
    BY <1>8, <2>2
  <2>7. batches[b] = <<x + 1, least(size, count - x)>>
    BY <1>5, <2>1
  <2>8. least(x + size, count) - x = least(size, count - x) /\ x <= least(x + size, count)
    BY <1>1, <2>1, <2>4 DEF least
  <2> QED
    BY <2>1, <2>5, <2>6, <2>7, <2>8
<1>10. \A b \in 0..n : e[b] \in 0..count
  <2> SUFFICES ASSUME NEW b \in 0..n PROVE e[b] \in 0..count
    OBVIOUS
  <2>1. b * size \in Nat
    BY <1>1
  <2> QED
    BY <1>8, <2>1 DEF least
<1>11. e \in [0..n -> 0..count]
  BY <1>7, <1>8, <1>10
<1>12. e[0] = 0
  <2>1. 0 * size = 0
    BY <1>1
  <2> QED
    BY <1>8, <2>1 DEF least
<1>13. e[n] = count
  <2>1. PICK x \in Nat : x = n * size
    BY <1>1
  <2>2. count <= x
    BY <1>1, <1>3, <2>1
  <2> QED
    BY <1>8, <2>1, <2>2 DEF least
<1> QED
  BY <1>4, <1>6, <1>9, <1>11, <1>12, <1>13 DEF EndsAt

(* Where the batches of a report end. *)
Ends(r) == CHOOSE e : EndsAt(e, MakeBatches(NumRows[r]), NumRows[r])

LEMMA EndsFacts ==
    ASSUME NEW r \in Reports
    PROVE  NumRows[r] \in Nat /\ EndsAt(Ends(r), MakeBatches(NumRows[r]), NumRows[r])
<1>1. PICK n \in Nat : n = NumRows[r]
  BY ViewAssumption DEF ViewAssumption
<1>2. \E e : EndsAt(e, MakeBatches(n), n)
  BY BatchesCover
<1> QED
  BY <1>1, <1>2 DEF Ends

(* The results of batches that follow each other make one result. *)
Results(batches, proxy, r, pattern, e, n) ==
    \A k \in 1..n : Collected(batches[k], Matching(proxy, r, pattern, e[k - 1] + 1, e[k]))

LEMMA ReduceOne ==
    ASSUME NEW proxy, NEW r, NEW pattern, NEW a \in Nat, NEW b \in Nat, a <= b,
           NEW x, Collected(x, Matching(proxy, r, pattern, 1, a)),
           NEW y, Collected(y, Matching(proxy, r, pattern, a + 1, b))
    PROVE  Collected(ReduceBatch(x, y), Matching(proxy, r, pattern, 1, b))
<1>1. PICK S, T : S = Matching(proxy, r, pattern, 1, a) /\ T = Matching(proxy, r, pattern, a + 1, b)
  OBVIOUS
<1>2. \A p \in S, q \in T : p < q
  <2>1. \A p \in S : p \in 1..a
    BY <1>1 DEF Matching
  <2>2. \A q \in T : q \in (a + 1)..b
    BY <1>1 DEF Matching
  <2> QED
    BY <2>1, <2>2
<1>3. Ascending(x.indices \o y.indices, S \cup T)
  BY <1>1, <1>2, Joining DEF Collected
<1>4. S \cup T = Matching(proxy, r, pattern, 1, b)
  <2>1. \A p : p \in 1..b <=> p \in 1..a \/ p \in (a + 1)..b
    OBVIOUS
  <2> QED
    BY <1>1, <2>1 DEF Matching
<1>5. x.indices \o y.indices \in Seq(Nat)
  BY <1>3 DEF Ascending
<1>6. most(x.width, y.width) \in Nat
  BY DEF Collected, most
<1> QED
  BY <1>3, <1>4, <1>5, <1>6 DEF ReduceBatch, Collected

LEMMA ReduceCollects ==
    ASSUME NEW n \in Nat, NEW batches, Len(batches) = n,
           NEW proxy, NEW r, NEW pattern,
           NEW e \in [0..n -> Nat], \A k \in 1..n : e[k - 1] <= e[k],
           NEW result, Collected(result, Matching(proxy, r, pattern, 1, e[0])),
           Results(batches, proxy, r, pattern, e, n)
    PROVE  Collected(Reduce(result, batches), Matching(proxy, r, pattern, 1, e[n]))
<1>1. PICK V : V = [indices : Seq(Nat), width : Nat]
  OBVIOUS
<1>2. \A k \in 1..n : batches[k] \in V
  BY <1>1 DEF Results, Collected
<1>3. \A v, w \in V : ReduceBatch(v, w) \in V
  <2> SUFFICES ASSUME NEW v \in V, NEW w \in V PROVE ReduceBatch(v, w) \in V
    OBVIOUS
  <2>1. v.indices \in Seq(Nat) /\ w.indices \in Seq(Nat) /\ v.width \in Nat /\ w.width \in Nat
    BY <1>1
  <2>2. v.indices \o w.indices \in Seq(Nat) /\ most(v.width, w.width) \in Nat
    BY <2>1 DEF most
  <2> QED
    BY <1>1, <2>2 DEF ReduceBatch
<1>4. result \in V
  BY <1>1 DEF Collected
<1> DEFINE IsReduced(f) == f = [k \in 0..Len(batches) |->
                                   IF k = 0 THEN result ELSE ReduceBatch(f[k - 1], batches[k])]
           Reduced == CHOOSE f : IsReduced(f)
<1>5. \E f : IsReduced(f)
  <2>1. PICK G : G = [k \in 1..n |-> [v \in V |-> ReduceBatch(v, batches[k])]]
    OBVIOUS
  <2>2. G \in [1..n -> [V -> V]] /\ \A k \in 1..n, v \in V : G[k][v] = ReduceBatch(v, batches[k])
    BY <1>2, <1>3, <2>1
  <2>3. PICK next : next = [k \in 1..n |-> k - 1]
    OBVIOUS
  <2>4. GoesBack(next, n) /\ \A k \in 1..n : next[k] = k - 1
    BY <2>3 DEF GoesBack
  <2>5. HasValues(n, V, result, next, G)
    BY <1>4, <2>2, <2>4, Recursion
  <2>6. PICK f \in [0..n -> V] : f[0] = result /\ \A k \in 1..n : f[k] = G[k][f[next[k]]]
    BY <2>5 DEF HasValues
  <2>7. ASSUME NEW k \in 0..n
        PROVE  f[k] = IF k = 0 THEN result ELSE ReduceBatch(f[k - 1], batches[k])
    <3>1. CASE k = 0
      BY <2>6, <3>1
    <3>2. CASE k \in 1..n
      <4>1. PICK v \in V : v = f[k - 1]
        BY <2>6, <3>2
      <4>2. f[k] = G[k][v]
        BY <2>4, <2>6, <3>2, <4>1
      <4> QED
        BY <2>2, <3>2, <4>1, <4>2
    <3> QED
      BY <3>1, <3>2
  <2>8. f = [k \in 0..n |-> IF k = 0 THEN result ELSE ReduceBatch(f[k - 1], batches[k])]
    BY <2>6, <2>7
  <2> QED
    BY <2>8
<1>6. IsReduced(Reduced)
  BY <1>5
<1>7. Reduce(result, batches) = Reduced[n]
  BY DEF Reduce
<1> HIDE DEF Reduced
<1>8. PICK f : f = Reduced
  OBVIOUS
<1>9. f[0] = result /\ \A k \in 1..n : f[k] = ReduceBatch(f[k - 1], batches[k])
  <2>1. f = [k \in 0..n |-> IF k = 0 THEN result ELSE ReduceBatch(f[k - 1], batches[k])]
    BY <1>6, <1>8
  <2>2. \A k \in 0..n : f[k] = IF k = 0 THEN result ELSE ReduceBatch(f[k - 1], batches[k])
    BY <2>1
  <2> QED
    BY <2>2
<1> DEFINE T == {k \in Nat : k <= n => Collected(f[k], Matching(proxy, r, pattern, 1, e[k]))}
<1>10. 0 \in T
  BY <1>9
<1>11. ASSUME NEW k \in T PROVE k + 1 \in T
  <2>1. SUFFICES ASSUME k + 1 <= n
                 PROVE  Collected(f[k + 1], Matching(proxy, r, pattern, 1, e[k + 1]))
    OBVIOUS
  <2>2. PICK l \in 1..n : l = k + 1 /\ l - 1 = k
    BY <2>1
  <2>3. Collected(f[k], Matching(proxy, r, pattern, 1, e[k]))
    BY <2>1
  <2>4. Collected(batches[l], Matching(proxy, r, pattern, e[k] + 1, e[l]))
    BY <2>2 DEF Results
  <2>5. e[k] \in Nat /\ e[l] \in Nat /\ e[k] <= e[l]
    BY <2>1, <2>2
  <2>6. Collected(ReduceBatch(f[k], batches[l]), Matching(proxy, r, pattern, 1, e[l]))
    BY <2>3, <2>4, <2>5, ReduceOne
  <2>7. f[l] = ReduceBatch(f[k], batches[l])
    BY <1>9, <2>2
  <2> QED
    BY <2>2, <2>6, <2>7
<1> HIDE DEF T
<1>12. T \in SUBSET Nat
  BY DEF T
<1>13. n \in T
  BY <1>10, <1>11, <1>12, Induct
<1> QED
  BY <1>7, <1>8, <1>13 DEF T

LEMMA NothingCollected ==
    ASSUME NEW proxy, NEW r, NEW pattern
    PROVE  Collected(EmptyResult, Matching(proxy, r, pattern, 1, 0))
<1>1. Matching(proxy, r, pattern, 1, 0) = {}
  BY DEF Matching
<1>2. HeaderWidth \in Nat
  BY ViewAssumption DEF ViewAssumption
<1>3. EmptyResult \in [indices : Seq(Nat), width : Nat] /\ EmptyResult.indices = << >>
  BY <1>2 DEF EmptyResult
<1> QED
  BY <1>1, <1>3, NoneYet DEF Collected

(* A filter that is waited for collects every row the pattern matches. *)
LEMMA FilterResultIs ==
    ASSUME NEW r \in Reports, NEW sort, ProxyOK(ProxyForFilter(sort, r), r), NEW pattern
    PROVE  Collected(FilterResult(sort, r, pattern),
                     Matching(ProxyForFilter(sort, r), r, pattern, 1, NumRows[r]))
<1>1. PICK proxy, e, ranges : /\ proxy = ProxyForFilter(sort, r)
                              /\ e = Ends(r)
                              /\ ranges = MakeBatches(NumRows[r])
  OBVIOUS
<1>2. PICK count \in Nat : count = NumRows[r]
  BY EndsFacts
<1>3. EndsAt(e, ranges, count)
  BY <1>1, <1>2, EndsFacts
<1>4. PICK n \in Nat : n = Len(ranges)
  BY <1>3 DEF EndsAt
<1>5. PICK batches : batches = [b \in 1..n |-> MapBatch(sort, r, pattern, ranges[b])]
  OBVIOUS
<1>6. Len(batches) = n
  BY <1>5
<1>7. Results(batches, proxy, r, pattern, e, n)
  <2> SUFFICES ASSUME NEW k \in 1..n
               PROVE  Collected(batches[k], Matching(proxy, r, pattern, e[k - 1] + 1, e[k]))
    BY DEF Results
  <2>1. PICK a \in Nat, b \in Nat : a = e[k - 1] /\ b = e[k] /\ a <= b /\ b <= count
    <3>1. k - 1 \in 0..n /\ k \in 0..n
      OBVIOUS
    <3> QED
      BY <1>3, <1>4, <3>1 DEF EndsAt
  <2>2. ranges[k] = <<a + 1, b - a>>
    BY <1>3, <1>4, <2>1 DEF EndsAt
  <2>3. batches[k] = MapBatch(sort, r, pattern, <<a + 1, b - a>>)
    BY <1>5, <2>2
  <2>4. Collected(MapBatch(sort, r, pattern, <<a + 1, b - a>>),
                  Matching(ProxyForFilter(sort, r), r, pattern, a + 1, b))
    BY <1>2, <2>1, MapBatchIs
  <2> QED
    BY <1>1, <2>1, <2>3, <2>4
<1>8. e \in [0..n -> Nat] /\ e[0] = 0 /\ e[n] = count /\ \A k \in 1..n : e[k - 1] <= e[k]
  BY <1>3, <1>4 DEF EndsAt
<1>9. Collected(EmptyResult, Matching(proxy, r, pattern, 1, e[0]))
  BY <1>8, NothingCollected
<1>10. Collected(Reduce(EmptyResult, batches), Matching(proxy, r, pattern, 1, e[n]))
  BY <1>6, <1>7, <1>8, <1>9, ReduceCollects
<1>11. FilterResult(sort, r, pattern) = Reduce(EmptyResult, batches)
  BY <1>1, <1>4, <1>5 DEF FilterResult
<1> QED
  BY <1>1, <1>2, <1>8, <1>10, <1>11

-----------------------------------------------------------------------------
(* THE FILTER IN PROGRESS. *)
(* The results of a filter with the given pattern: each batch that is done *)
(* has been mapped, and the batches that are reduced are in the result.    *)
Batched(done, reduced, result, sort, r, pattern) ==
    LET proxy == ProxyForFilter(sort, r)
        e == Ends(r)
        n == Len(MakeBatches(NumRows[r]))
    IN  /\ done \in [1..n -> [indices : Seq(Nat), width : Nat] \cup {NoResult}]
        /\ reduced \in 0..n
        /\ \A b \in 1..n : done[b] # NoResult =>
               Collected(done[b], Matching(proxy, r, pattern, e[b - 1] + 1, e[b]))
        /\ Collected(result, Matching(proxy, r, pattern, 1, e[reduced]))

LEMMA ReduceReadyKeeps ==
    ASSUME NEW r \in Reports, NEW sort, NEW pattern, NEW done, NEW reduced, NEW result,
           Batched(done, reduced, result, sort, r, pattern)
    PROVE  Batched(done, ReduceReady(done, reduced, result).reduced,
                   ReduceReady(done, reduced, result).result, sort, r, pattern)
<1>1. PICK proxy, e : proxy = ProxyForFilter(sort, r) /\ e = Ends(r)
  OBVIOUS
<1>2. EndsAt(e, MakeBatches(NumRows[r]), NumRows[r]) /\ NumRows[r] \in Nat
  BY <1>1, EndsFacts
<1>3. PICK n \in Nat : n = Len(MakeBatches(NumRows[r]))
  BY <1>2 DEF EndsAt
<1>4. /\ e \in [0..n -> Nat]
      /\ \A b \in 1..n : e[b - 1] <= e[b]
  BY <1>2, <1>3 DEF EndsAt
<1>5. /\ done \in [1..n -> [indices : Seq(Nat), width : Nat] \cup {NoResult}]
      /\ reduced \in 0..n
      /\ \A b \in 1..n : done[b] # NoResult =>
             Collected(done[b], Matching(proxy, r, pattern, e[b - 1] + 1, e[b]))
      /\ Collected(result, Matching(proxy, r, pattern, 1, e[reduced]))
  BY <1>1, <1>3 DEF Batched
<1>6. Len(done) = n
  BY <1>5
<1> DEFINE Ready(m) == /\ \A i \in 1..m : done[reduced + i] # NoResult
                       /\ m = n - reduced \/ done[reduced + m + 1] = NoResult
           ready == CHOOSE m \in 0..(n - reduced) : Ready(m)
<1>7. \E m \in 0..(n - reduced) : Ready(m)
  <2> DEFINE T == {m \in Nat : m <= n - reduced
                                /\ (m = n - reduced \/ done[reduced + m + 1] = NoResult)}
  <2>1. n - reduced \in T
    BY <1>5
  <2>2. PICK m \in T : \A k \in T : m <= k
    <3>1. T \in SUBSET Nat /\ T # {}
      BY <2>1
    <3> HIDE DEF T
    <3> QED
      BY <3>1, Least
  <2>3. ASSUME NEW i \in 1..m PROVE done[reduced + i] # NoResult
    <3>1. i - 1 \in Nat /\ i - 1 < m /\ i - 1 <= n - reduced /\ i - 1 # n - reduced
      BY <1>5
    <3>2. i - 1 \notin T
      BY <2>2, <3>1
    <3>3. reduced + (i - 1) + 1 = reduced + i
      BY <1>5
    <3> QED
      BY <3>1, <3>2, <3>3
  <2>4. m \in 0..(n - reduced)
    BY <1>5
  <2> QED
    BY <2>3, <2>4
<1>8. PICK m \in 0..(n - reduced) : m = ready /\ Ready(m)
  BY <1>7
<1>9. PICK batches : batches = [i \in 1..m |-> done[reduced + i]]
  OBVIOUS
<1>10. /\ ReduceReady(done, reduced, result).reduced = reduced + m
       /\ ReduceReady(done, reduced, result).result = Reduce(result, batches)
  BY <1>6, <1>8, <1>9 DEF ReduceReady
<1> HIDE DEF ready
<1>11. m \in Nat /\ reduced + m \in 0..n
  BY <1>5
<1>12. Len(batches) = m
  BY <1>9, <1>11
<1>13. PICK d : d = [i \in 0..m |-> e[reduced + i]]
  OBVIOUS
<1>14. d \in [0..m -> Nat] /\ \A i \in 0..m : d[i] = e[reduced + i]
  <2>1. \A i \in 0..m : reduced + i \in 0..n
    BY <1>5
  <2> QED
    BY <1>4, <1>13, <2>1
<1>15. \A k \in 1..m : /\ d[k - 1] = e[(reduced + k) - 1] /\ d[k] = e[reduced + k]
                       /\ reduced + k \in 1..n
  <2> SUFFICES ASSUME NEW k \in 1..m
               PROVE  /\ d[k - 1] = e[(reduced + k) - 1] /\ d[k] = e[reduced + k]
                      /\ reduced + k \in 1..n
    OBVIOUS
  <2>1. k - 1 \in 0..m /\ k \in 0..m /\ reduced + (k - 1) = (reduced + k) - 1
    BY <1>5
  <2>2. reduced + k \in 1..n
    BY <1>5
  <2> QED
    BY <1>14, <2>1, <2>2
<1>16. \A k \in 1..m : d[k - 1] <= d[k]
  BY <1>4, <1>15
<1>17. Results(batches, proxy, r, pattern, d, m)
  <2> SUFFICES ASSUME NEW k \in 1..m
               PROVE  Collected(batches[k], Matching(proxy, r, pattern, d[k - 1] + 1, d[k]))
    BY DEF Results
  <2>1. PICK b \in 1..n : b = reduced + k
    BY <1>15
  <2>2. batches[k] = done[b] /\ done[b] # NoResult
    BY <1>8, <1>9, <2>1
  <2>3. d[k - 1] = e[b - 1] /\ d[k] = e[b]
    BY <1>15, <2>1
  <2> QED
    BY <1>5, <2>2, <2>3
<1>18. d[0] = e[reduced] /\ d[m] = e[reduced + m]
  BY <1>5, <1>11, <1>14
<1>19. Collected(result, Matching(proxy, r, pattern, 1, d[0]))
  BY <1>5, <1>18
<1>20. Collected(Reduce(result, batches), Matching(proxy, r, pattern, 1, d[m]))
  BY <1>11, <1>12, <1>14, <1>16, <1>17, <1>19, ReduceCollects
<1> QED
  BY <1>1, <1>3, <1>5, <1>10, <1>11, <1>18, <1>20 DEF Batched

(* A pool thread maps a batch of the report. *)
LEMMA BatchMapped ==
    ASSUME NEW r \in Reports, NEW sort, ProxyOK(ProxyForFilter(sort, r), r), NEW pattern,
           NEW b \in 1..Len(MakeBatches(NumRows[r]))
    PROVE  Collected(MapBatch(sort, r, pattern, MakeBatches(NumRows[r])[b]),
                     Matching(ProxyForFilter(sort, r), r, pattern, Ends(r)[b - 1] + 1, Ends(r)[b]))
<1>1. PICK e, ranges : e = Ends(r) /\ ranges = MakeBatches(NumRows[r])
  OBVIOUS
<1>2. PICK count \in Nat : count = NumRows[r]
  BY EndsFacts
<1>3. EndsAt(e, ranges, count)
  BY <1>1, <1>2, EndsFacts
<1>4. PICK n \in Nat : n = Len(ranges)
  BY <1>3 DEF EndsAt
<1>5. b \in 1..n
  BY <1>1, <1>4
<1>6. PICK x \in Nat, y \in Nat : x = e[b - 1] /\ y = e[b] /\ x <= y /\ y <= count
  <2>1. b - 1 \in 0..n /\ b \in 0..n
    BY <1>5
  <2>2. e \in [0..n -> 0..count] /\ e[b - 1] <= e[b]
    BY <1>3, <1>4, <1>5 DEF EndsAt
  <2> QED
    BY <2>1, <2>2
<1>7. ranges[b] = <<x + 1, y - x>>
  BY <1>3, <1>4, <1>5, <1>6 DEF EndsAt
<1>8. Collected(MapBatch(sort, r, pattern, <<x + 1, y - x>>),
                Matching(ProxyForFilter(sort, r), r, pattern, x + 1, y))
  BY <1>2, <1>6, MapBatchIs
<1> QED
  BY <1>1, <1>6, <1>7, <1>8

LEMMA DoneKeeps ==
    ASSUME NEW r \in Reports, NEW sort, ProxyOK(ProxyForFilter(sort, r), r), NEW pattern,
           NEW done, NEW reduced, NEW result,
           Batched(done, reduced, result, sort, r, pattern),
           NEW b \in 1..Len(MakeBatches(NumRows[r])), NEW rows,
           rows = MapBatch(sort, r, pattern, MakeBatches(NumRows[r])[b])
    PROVE  Batched([done EXCEPT ![b] = rows], reduced, result, sort, r, pattern)
<1>1. PICK proxy, e : proxy = ProxyForFilter(sort, r) /\ e = Ends(r)
  OBVIOUS
<1>2. PICK n : n = Len(MakeBatches(NumRows[r]))
  OBVIOUS
<1>3. Collected(rows, Matching(proxy, r, pattern, e[b - 1] + 1, e[b]))
  BY <1>1, BatchMapped
<1>4. PICK V : V = [indices : Seq(Nat), width : Nat] \cup {NoResult}
  OBVIOUS
<1>5. rows \in V
  BY <1>3, <1>4 DEF Collected
<1>6. /\ done \in [1..n -> V]
      /\ reduced \in 0..n
      /\ \A k \in 1..n : done[k] # NoResult =>
             Collected(done[k], Matching(proxy, r, pattern, e[k - 1] + 1, e[k]))
      /\ Collected(result, Matching(proxy, r, pattern, 1, e[reduced]))
  BY <1>1, <1>2, <1>4 DEF Batched
<1>7. PICK after : after = [done EXCEPT ![b] = rows]
  OBVIOUS
<1>8. after \in [1..n -> V] /\ after[b] = rows /\ \A k \in 1..n : k # b => after[k] = done[k]
  BY <1>2, <1>5, <1>6, <1>7
<1>9. \A k \in 1..n : after[k] # NoResult =>
          Collected(after[k], Matching(proxy, r, pattern, e[k - 1] + 1, e[k]))
  BY <1>3, <1>6, <1>8
<1> QED
  BY <1>1, <1>2, <1>4, <1>6, <1>7, <1>8, <1>9 DEF Batched

(* The filterer runs the pattern of the filter box on the present proxies. *)
FiltererOK(filterer, sort, r, pattern) ==
    filterer # NoFilterer =>
        /\ filterer = [pattern |-> pattern, next |-> filterer.next, running |-> filterer.running,
                       done |-> filterer.done, reduced |-> filterer.reduced,
                       result |-> filterer.result]
        /\ filterer.next \in Nat \ {0}
        /\ filterer.running \in [Workers -> 0..Len(MakeBatches(NumRows[r]))]
        /\ Batched(filterer.done, filterer.reduced, filterer.result, sort, r, pattern)

LEMMA StartedOK ==
    ASSUME NEW r \in Reports, NEW sort, NEW pattern
    PROVE  FiltererOK(Started(r, pattern), sort, r, pattern)
<1>1. PICK f : f = Started(r, pattern)
  OBVIOUS
<1>2. EndsAt(Ends(r), MakeBatches(NumRows[r]), NumRows[r])
  BY EndsFacts
<1>3. PICK n \in Nat : n = Len(MakeBatches(NumRows[r])) /\ Ends(r)[0] = 0
  BY <1>2 DEF EndsAt
<1>4. f = [pattern |-> pattern, next |-> 1, running |-> [w \in Workers |-> 0],
           done |-> [b \in 1..n |-> NoResult], reduced |-> 0, result |-> EmptyResult]
  BY <1>1, <1>3 DEF Started
<1>5. f.running \in [Workers -> 0..n]
  BY <1>3, <1>4
<1>6. /\ f.done \in [1..n -> [indices : Seq(Nat), width : Nat] \cup {NoResult}]
      /\ \A b \in 1..n : f.done[b] = NoResult
  BY <1>4
<1>7. Collected(f.result, Matching(ProxyForFilter(sort, r), r, pattern, 1, 0))
  BY <1>4, NothingCollected
<1>8. Batched(f.done, f.reduced, f.result, sort, r, pattern)
  BY <1>3, <1>4, <1>6, <1>7 DEF Batched
<1> QED
  BY <1>1, <1>3, <1>4, <1>5, <1>8 DEF FiltererOK

(* When all is reduced the result holds every row the pattern matches. *)
LEMMA AllReducedIs ==
    ASSUME NEW r \in Reports, NEW sort, NEW pattern, NEW f, f # NoFilterer,
           FiltererOK(f, sort, r, pattern), AllReduced(f)
    PROVE  Collected(f.result, Matching(ProxyForFilter(sort, r), r, pattern, 1, NumRows[r]))
<1>1. EndsAt(Ends(r), MakeBatches(NumRows[r]), NumRows[r])
  BY EndsFacts
<1>2. PICK n \in Nat : n = Len(MakeBatches(NumRows[r])) /\ Ends(r)[n] = NumRows[r]
  BY <1>1 DEF EndsAt
<1>3. Batched(f.done, f.reduced, f.result, sort, r, pattern)
  BY DEF FiltererOK
<1>4. f.done \in [1..n -> [indices : Seq(Nat), width : Nat] \cup {NoResult}]
  BY <1>2, <1>3 DEF Batched
<1>5. Len(f.done) = n
  BY <1>4
<1>6. f.reduced = n
  BY <1>5 DEF AllReduced
<1> QED
  BY <1>2, <1>3, <1>6 DEF Batched

-----------------------------------------------------------------------------
(* THE SORT PROXY. *)
(* The rows of a report in the order of the header. *)
InOrder(r, order) ==
    {p \in (1..NumRows[r]) \X (1..NumRows[r]) : ListOf!Earlier(r, order, p[1], p[2])}

LEMMA InOrderIs ==
    ASSUME NEW r \in Reports, NEW order, NEW a \in 1..NumRows[r], NEW b \in 1..NumRows[r]
    PROVE  <<a, b>> \in InOrder(r, order) <=> ListOf!Earlier(r, order, a, b)
  BY DEF InOrder

LEMMA OrderIsStrict ==
    ASSUME NEW r \in Reports, NEW order \in SortOrders
    PROVE  StrictOrder(InOrder(r, order), 1..NumRows[r])
<1>1. PICK n \in Nat : n = NumRows[r]
  BY ViewAssumption DEF ViewAssumption
<1>2. \A i \in 1..n : Key[r][i] \in Int
  BY <1>1, ViewAssumption DEF ViewAssumption
<1>3. \A a, b \in 1..n : <<a, b>> \in InOrder(r, order) <=> ListOf!Earlier(r, order, a, b)
  BY <1>1, InOrderIs
<1>4. CASE order = "none"
  BY <1>1, <1>3, <1>4 DEF StrictOrder, ListOf!Earlier
<1>5. CASE order = "ascending"
  <2>1. \A a, b \in 1..n : <<a, b>> \in InOrder(r, order) <=>
            Key[r][a] < Key[r][b] \/ (Key[r][a] = Key[r][b] /\ a < b)
    BY <1>3, <1>5 DEF ListOf!Earlier, ListOf!Before
  <2> QED
    BY <1>1, <1>2, <2>1 DEF StrictOrder
<1>6. CASE order = "descending"
  <2>1. \A a, b \in 1..n : <<a, b>> \in InOrder(r, order) <=>
            Key[r][b] < Key[r][a] \/ (Key[r][b] = Key[r][a] /\ b < a)
    BY <1>3, <1>6 DEF ListOf!Earlier, ListOf!Before
  <2> QED
    BY <1>1, <1>2, <2>1 DEF StrictOrder
<1> QED
  BY <1>4, <1>5, <1>6 DEF SortOrders

(* The proxy agrees with the header. *)
SortOK(sort, order, r) ==
    \/ order = "none" /\ sort = NoProxy
    \/ order \in {"ascending", "descending"} /\ sort = SortProxyReport[r][order]

(* proxy puts every row of r at one position, in the order of the header. *)
Sorted(proxy, r, order) ==
    /\ proxy \in [1..NumRows[r] -> 1..NumRows[r]]
    /\ Increasing(proxy, InOrder(r, order), NumRows[r])

LEMMA SortProxySorts ==
    ASSUME NEW r \in Reports, NEW order \in {"ascending", "descending"}
    PROVE  Sorted(SortProxyReport[r][order], r, order)
<1>1. PICK n \in Nat : n = NumRows[r]
  BY ViewAssumption DEF ViewAssumption
<1>2. order \in SortOrders
  BY DEF SortOrders
<1>3. HasSort(InOrder(r, order), n)
  BY <1>1, <1>2, OrderIsStrict, SortExists
<1>4. PICK s \in [1..n -> 1..n] : Increasing(s, InOrder(r, order), n)
  BY <1>3 DEF HasSort
<1>5. \A a, b \in 1..n : SortsBefore(r, order, a, b) <=> ListOf!Earlier(r, order, a, b)
  BY DEF SortsBefore, ListOf!Earlier, ListOf!Before
<1>6. \A a, b \in 1..n : SortsBefore(r, order, a, b) <=> <<a, b>> \in InOrder(r, order)
  BY <1>1, <1>5, InOrderIs
<1> DEFINE Sorts(remap) == \A i, j \in 1..n : i < j => SortsBefore(r, order, remap[i], remap[j])
<1>7. ASSUME NEW remap \in [1..n -> 1..n]
      PROVE  Sorts(remap) <=> Increasing(remap, InOrder(r, order), n)
  <2>1. \A i \in 1..n : remap[i] \in 1..n
    OBVIOUS
  <2>2. \A i, j \in 1..n : SortsBefore(r, order, remap[i], remap[j])
                              <=> <<remap[i], remap[j]>> \in InOrder(r, order)
    BY <1>6, <2>1
  <2> QED
    BY <2>2 DEF Increasing
<1>8. SortProxyReport[r][order] = CHOOSE remap \in [1..n -> 1..n] : Sorts(remap)
  BY <1>1 DEF SortProxyReport
<1>9. Sorts(s)
  BY <1>4, <1>7
<1> HIDE DEF Sorts
<1>10. /\ SortProxyReport[r][order] \in [1..n -> 1..n]
       /\ Sorts(SortProxyReport[r][order])
  BY <1>4, <1>8, <1>9
<1> QED
  BY <1>1, <1>7, <1>10 DEF Sorted

LEMMA ProxySorts ==
    ASSUME NEW r \in Reports, NEW order \in SortOrders, NEW sort, SortOK(sort, order, r)
    PROVE  /\ Sorted(ProxyForFilter(sort, r), r, order)
           /\ ProxyOK(ProxyForFilter(sort, r), r)
<1>1. PICK n \in Nat : n = NumRows[r]
  BY ViewAssumption DEF ViewAssumption
<1>2. Sorted(ProxyForFilter(sort, r), r, order)
  <2>1. CASE order = "none" /\ sort = NoProxy
    <3>1. ProxyForFilter(sort, r) = Numbers(n)
      BY <1>1, <2>1 DEF ProxyForFilter
    <3>2. Numbers(n) \in [1..n -> 1..n] /\ \A i \in 1..n : Numbers(n)[i] = i
      BY DEF Numbers
    <3>3. \A i, j \in 1..n : i < j => <<i, j>> \in InOrder(r, order)
      BY <1>1, <2>1, InOrderIs DEF ListOf!Earlier
    <3> QED
      BY <1>1, <3>1, <3>2, <3>3 DEF Sorted, Increasing
  <2>2. CASE order \in {"ascending", "descending"} /\ sort = SortProxyReport[r][order]
    <3>1. Sorted(sort, r, order)
      BY <2>2, SortProxySorts
    <3>2. sort \in Seq(Nat)
      <4>1. sort \in [1..n -> 1..n] /\ \A i \in 1..n : i \in Nat
        BY <1>1, <3>1 DEF Sorted
      <4>2. sort \in [1..n -> Nat]
        BY <4>1
      <4> QED
        BY <4>2
    <3>3. ProxyForFilter(sort, r) = sort
      BY <3>2, ViewAssumption DEF ProxyForFilter, ViewAssumption
    <3> QED
      BY <3>1, <3>3
  <2> QED
    BY <2>1, <2>2 DEF SortOK
<1> QED
  BY <1>2 DEF Sorted, ProxyOK

Permutes(proxy, n) ==
    /\ \A i, j \in 1..n : proxy[i] = proxy[j] => i = j
    /\ \A x \in 1..n : \E i \in 1..n : proxy[i] = x

LEMMA OneToOne ==
    ASSUME NEW r \in Reports, NEW order \in SortOrders, NEW proxy, Sorted(proxy, r, order)
    PROVE  Permutes(proxy, NumRows[r])
<1>1. PICK n \in Nat : n = NumRows[r]
  BY ViewAssumption DEF ViewAssumption
<1>2. \A i, j \in 1..n : proxy[i] = proxy[j] => i = j
  BY <1>1, OrderIsStrict, NoRepetition DEF Sorted
<1>3. Cardinality({proxy[q] : q \in 1..n}) = n
  BY <1>2, CountOfFirst
<1>4. IsFiniteSet(1..n) /\ Cardinality(1..n) = n
  BY FS_Interval
<1>5. {proxy[q] : q \in 1..n} \in SUBSET (1..n)
  BY <1>1 DEF Sorted
<1>6. {proxy[q] : q \in 1..n} = 1..n
  BY <1>3, <1>4, <1>5, FS_Subset
<1> QED
  BY <1>1, <1>2, <1>6 DEF Permutes

-----------------------------------------------------------------------------
(* THE LIST. *)
(* The rows that the list of a filter shows are those that RowList lists. *)
ShownBy(sort, list, r) == [i \in 1..Len(list) |-> MapToTableReport(sort, list, r, i)]

LEMMA SameCount == ASSUME NEW X PROVE ListOf!Cardinality(X) = Cardinality(X)
  BY DEF ListOf!Cardinality, Cardinality

LEMMA ShownIsListing ==
    ASSUME NEW r \in Reports, NEW order \in SortOrders, NEW sort, SortOK(sort, order, r),
           NEW pattern \in Filters, NEW list,
           Ascending(list, Matching(ProxyForFilter(sort, r), r, pattern, 1, NumRows[r]))
    PROVE  ShownBy(sort, list, r) = ListOf!Listing(r, [filter |-> pattern, order |-> order])
<1>1. PICK proxy, R, S, kept : /\ proxy = ProxyForFilter(sort, r)
                               /\ R = InOrder(r, order)
                               /\ S = Matching(proxy, r, pattern, 1, NumRows[r])
                               /\ kept = Accepts[pattern][r]
  OBVIOUS
<1>2. PICK n \in Nat : n = NumRows[r]
  BY ViewAssumption DEF ViewAssumption
<1>3. kept \subseteq 1..n
  BY <1>1, <1>2, ViewAssumption DEF ViewAssumption
<1>4. Sorted(proxy, r, order)
  BY <1>1, ProxySorts
<1>5. proxy \in [1..n -> 1..n] /\ Increasing(proxy, R, n)
  BY <1>1, <1>2, <1>4 DEF Sorted
<1>6. \A x \in 1..n : \E i \in 1..n : proxy[i] = x
  BY <1>2, <1>4, OneToOne DEF Permutes
<1>7. StrictOrder(R, kept)
  <2>1. StrictOrder(R, 1..n)
    BY <1>1, <1>2, OrderIsStrict
  <2> QED
    BY <1>3, <2>1 DEF StrictOrder
<1>8. PICK m \in Nat : m = Len(list)
  BY DEF Ascending
<1>9. /\ \A i, j \in 1..m : i < j => list[i] < list[j]
      /\ \A x : x \in S <=> \E i \in 1..m : list[i] = x
  BY <1>1, <1>8 DEF Ascending
<1>10. \A i \in 1..m : list[i] \in 1..n /\ proxy[list[i]] \in kept
  <2>1. \A i \in 1..m : list[i] \in S
    BY <1>9
  <2> QED
    BY <1>1, <1>2, <2>1 DEF Matching
<1>11. PICK s : s = [i \in 1..m |-> proxy[list[i]]]
  OBVIOUS
<1>12. s \in [1..m -> kept] /\ \A i \in 1..m : s[i] = proxy[list[i]]
  BY <1>10, <1>11
<1>13. Increasing(s, R, m)
  <2> SUFFICES ASSUME NEW i \in 1..m, NEW j \in 1..m, i < j PROVE <<s[i], s[j]>> \in R
    BY DEF Increasing
  <2>1. list[i] \in 1..n /\ list[j] \in 1..n /\ list[i] < list[j]
    BY <1>9, <1>10
  <2>2. <<proxy[list[i]], proxy[list[j]]>> \in R
    BY <1>5, <2>1 DEF Increasing
  <2> QED
    BY <1>12, <2>2
<1>14. ASSUME NEW x \in kept PROVE \E i \in 1..m : s[i] = x
  <2>1. PICK p \in 1..n : proxy[p] = x
    BY <1>3, <1>6
  <2>2. p \in S
    BY <1>1, <1>2, <2>1 DEF Matching
  <2>3. PICK i \in 1..m : list[i] = p
    BY <1>9, <2>2
  <2> QED
    BY <1>12, <2>1, <2>3
<1>15. Lists(s, R, kept, m)
  BY <1>12, <1>13, <1>14 DEF Lists
<1>16. /\ Cardinality(kept) = m
       /\ \A p \in 1..m, x \in kept : Rank(R, kept, x) = p - 1 <=> x = s[p]
  BY <1>7, <1>15, ListIsRanked
<1>17. ShownBy(sort, list, r) = s
  BY <1>1, <1>8, <1>11 DEF ShownBy, MapToTableReport
<1>18. PICK w : w = [filter |-> pattern, order |-> order]
  OBVIOUS
<1> DEFINE Kept == Accepts[w.filter][r]
           Before(x) == ListOf!Cardinality({j \in Kept : ListOf!Earlier(r, w.order, j, x)})
<1>19. Kept = kept /\ \A x \in kept : Before(x) = Rank(R, kept, x)
  <2>1. Kept = kept
    BY <1>1, <1>18
  <2> SUFFICES ASSUME NEW x \in kept PROVE Before(x) = Rank(R, kept, x)
    BY <2>1
  <2>2. \A j \in kept : <<j, x>> \in R <=> ListOf!Earlier(r, w.order, j, x)
    BY <1>1, <1>2, <1>3, <1>18, InOrderIs
  <2>3. {j \in kept : <<j, x>> \in R} = {j \in Kept : ListOf!Earlier(r, w.order, j, x)}
    BY <2>1, <2>2
  <2> QED
    BY <2>3, SameCount DEF Rank
<1>20. ListOf!Listing(r, w)
           = [p \in 1..ListOf!Cardinality(Kept) |-> CHOOSE x \in Kept : Before(x) = p - 1]
  BY DEF ListOf!Listing
<1> HIDE DEF Before, Kept
<1>21. ASSUME NEW p \in 1..m PROVE s[p] = CHOOSE x \in Kept : Before(x) = p - 1
  <2>1. s[p] \in kept /\ Before(s[p]) = p - 1
    BY <1>12, <1>16, <1>19
  <2>2. PICK c : c = CHOOSE x \in Kept : Before(x) = p - 1
    OBVIOUS
  <2>3. c \in kept /\ Before(c) = p - 1
    BY <1>19, <2>1, <2>2
  <2>4. c = s[p]
    BY <1>16, <1>19, <2>3
  <2> QED
    BY <2>2, <2>4
<1> QED
  BY <1>12, <1>16, <1>17, <1>18, <1>19, <1>20, <1>21, SameCount

(* With the empty pattern and no order the list holds the whole report. *)
LEMMA WholeReport ==
    ASSUME NEW r \in Reports, NEW list,
           Ascending(list, Matching(ProxyForFilter(NoProxy, r), r, EmptyFilter, 1, NumRows[r]))
    PROVE  ShownBy(NoProxy, list, r) = [i \in 1..NumRows[r] |-> i]
<1>1. PICK n \in Nat : n = NumRows[r]
  BY ViewAssumption DEF ViewAssumption
<1>2. PICK whole : whole = [i \in 1..n |-> i]
  OBVIOUS
<1>3. Matching(ProxyForFilter(NoProxy, r), r, EmptyFilter, 1, n) = 1..n
  <2>1. \A i \in 1..n : ProxyForFilter(NoProxy, r)[i] = i
    BY <1>1 DEF ProxyForFilter, Numbers
  <2> QED
    BY <1>1, <2>1, ViewAssumption DEF Matching, ViewAssumption
<1>4. Ascending(whole, 1..n)
  <2>1. whole \in Seq(Nat) /\ Len(whole) = n /\ \A i \in 1..n : whole[i] = i
    BY <1>2
  <2> QED
    BY <2>1 DEF Ascending
<1>5. PICK w : w = [filter |-> EmptyFilter, order |-> "none"]
  OBVIOUS
<1>6. SortOK(NoProxy, "none", r) /\ "none" \in SortOrders /\ EmptyFilter \in Filters
  BY ViewAssumption DEF SortOK, SortOrders, ViewAssumption
<1>7. ShownBy(NoProxy, list, r) = ListOf!Listing(r, w)
  BY <1>5, <1>6, ShownIsListing
<1>8. ShownBy(NoProxy, whole, r) = ListOf!Listing(r, w)
  BY <1>1, <1>3, <1>4, <1>5, <1>6, ShownIsListing
<1>9. ShownBy(NoProxy, whole, r) = whole
  <2>1. Len(whole) = n /\ \A i \in 1..n : whole[i] = i
    BY <1>2
  <2>2. \A i \in 1..n : MapToTableReport(NoProxy, whole, r, i) = i
    BY <1>1, <2>1 DEF MapToTableReport, ProxyForFilter, Numbers
  <2> QED
    BY <1>2, <2>1, <2>2 DEF ShownBy
<1> QED
  BY <1>1, <1>2, <1>7, <1>8, <1>9

-----------------------------------------------------------------------------
(* THE SELECTION AND THE SCROLL BAR. *)
ScrollMax(size, list, contentWidth) ==
    most(0, Len(list) - VisibleItemCount(size, list, contentWidth))

LEMMA PageRange ==
    ASSUME NEW size \in ViewSizes, NEW list, NEW contentWidth
    PROVE  VisibleItemCount(size, list, contentWidth) \in Nat \ {0}
<1>1. size.height \in Nat
  BY ViewAssumption DEF ViewAssumption
<1>2. PICK h : h = EstimatedViewportHeight(size, Len(list), contentWidth)
  OBVIOUS
<1>3. h = size.height \/ h = size.height - 1
  <2>1. PICK b \in BOOLEAN : h = size.height - (IF b THEN 1 ELSE 0)
    <3> DEFINE vbar1 == size.height < Len(list)
               hbar1 == size.width - (IF vbar1 THEN 1 ELSE 0) < contentWidth
               vbar2 == vbar1 \/ size.height - (IF hbar1 THEN 1 ELSE 0) < Len(list)
               hbar2 == hbar1 \/ size.width - (IF vbar2 THEN 1 ELSE 0) < contentWidth
    <3>1. h = size.height - (IF hbar2 THEN 1 ELSE 0)
      BY <1>2 DEF EstimatedViewportHeight
    <3> HIDE DEF hbar2
    <3>2. CASE hbar2
      <4>1. h = size.height - (IF TRUE THEN 1 ELSE 0)
        BY <3>1, <3>2
      <4> QED
        BY <4>1
    <3>3. CASE ~hbar2
      <4>1. h = size.height - (IF FALSE THEN 1 ELSE 0)
        BY <3>1, <3>3
      <4> QED
        BY <4>1
    <3> QED
      BY <3>2, <3>3
  <2> QED
    BY <1>1, <2>1
<1>4. VisibleItemCount(size, list, contentWidth) = most(1, h)
  BY <1>2 DEF VisibleItemCount
<1> QED
  BY <1>1, <1>3, <1>4 DEF most

LEMMA UpdatedScrollFits ==
    ASSUME NEW size \in ViewSizes, NEW list, Len(list) \in Nat, NEW contentWidth,
           NEW top \in Nat
    PROVE  UpdatedScroll(size, list, contentWidth, top) \in 0..ScrollMax(size, list, contentWidth)
<1>1. PICK n \in Nat, p \in Nat \ {0} :
          n = Len(list) /\ p = VisibleItemCount(size, list, contentWidth)
  BY PageRange
<1> QED
  BY <1>1 DEF UpdatedScroll, ScrollMax, least, most

LEMMA EnsuredFits ==
    ASSUME NEW size \in ViewSizes, NEW list, Len(list) \in Nat, NEW contentWidth,
           NEW top \in 0..ScrollMax(size, list, contentWidth), NEW index \in Nat
    PROVE  /\ EnsureIndexVisible(size, list, contentWidth, top, index)
                  \in 0..ScrollMax(size, list, contentWidth)
           /\ index \in 1..Len(list) =>
                  index \in (EnsureIndexVisible(size, list, contentWidth, top, index) + 1)
                              ..(EnsureIndexVisible(size, list, contentWidth, top, index)
                                    + VisibleItemCount(size, list, contentWidth))
<1>1. PICK n \in Nat, p \in Nat \ {0} :
          n = Len(list) /\ p = VisibleItemCount(size, list, contentWidth)
  BY PageRange
<1>2. PICK max \in Nat : max = ScrollMax(size, list, contentWidth) /\ max = most(0, n - p)
  BY <1>1 DEF ScrollMax, most
<1>3. top \in Nat /\ top <= max
  BY <1>2
<1>4. PICK i \in Nat : i = least(n, index) /\ i <= n /\ (index \in 1..n => i = index)
  BY DEF least
<1>5. PICK x : x = EnsureIndexVisible(size, list, contentWidth, top, index)
  OBVIOUS
<1>6. x = IF i = 0 THEN 0 ELSE IF i <= top THEN i - 1 ELSE IF i > top + p THEN i - p ELSE top
  BY <1>1, <1>4, <1>5 DEF EnsureIndexVisible
<1>7. x \in 0..max /\ (i # 0 => i \in (x + 1)..(x + p))
  BY <1>1, <1>2, <1>3, <1>4, <1>6 DEF most
<1> QED
  BY <1>1, <1>2, <1>4, <1>5, <1>7

(* What a search from the list to the proxy below it finds. *)
LEMMA Finds ==
    ASSUME NEW s, Len(s) \in Nat, NEW x
    PROVE  /\ MapFromSource(s, x) \in 0..Len(s)
           /\ MapFromSource(s, x) # 0 => s[MapFromSource(s, x)] = x
           /\ (\E i \in 1..Len(s) : s[i] = x) => MapFromSource(s, x) # 0
<1>1. PICK I : I = {i \in 1..Len(s) : s[i] = x}
  OBVIOUS
<1>2. MapFromSource(s, x) = IF I # {} THEN Min(I) ELSE 0
  BY <1>1 DEF MapFromSource, SelectInSeq
<1>3. I # {} => Min(I) \in I
  <2> SUFFICES ASSUME I # {} PROVE Min(I) \in I
    OBVIOUS
  <2>1. I \in SUBSET Nat
    BY <1>1
  <2>2. PICK m \in I : \A k \in I : m <= k
    BY <2>1, Least
  <2> QED
    BY <2>1, <2>2 DEF Min
<1> QED
  BY <1>1, <1>2, <1>3

(* The list ascends within the report. *)
ListFits(list, r) ==
    /\ list \in Seq(Nat)
    /\ \A i \in 1..Len(list) : list[i] \in 1..NumRows[r]
    /\ \A i, j \in 1..Len(list) : i < j => list[i] < list[j]

LEMMA CollectedFits ==
    ASSUME NEW r \in Reports, NEW proxy, NEW pattern, NEW result,
           Collected(result, Matching(proxy, r, pattern, 1, NumRows[r]))
    PROVE  ListFits(result.indices, r)
<1>1. PICK list, S : list = result.indices /\ S = Matching(proxy, r, pattern, 1, NumRows[r])
  OBVIOUS
<1>2. Ascending(list, S)
  BY <1>1 DEF Collected
<1>3. \A i \in 1..Len(list) : list[i] \in S
  BY <1>2 DEF Ascending
<1>4. \A i \in 1..Len(list) : list[i] \in 1..NumRows[r]
  BY <1>1, <1>3 DEF Matching
<1> QED
  BY <1>1, <1>2, <1>4 DEF Ascending, ListFits

(* The row that a place in the list shows. *)
LEMMA RowShown ==
    ASSUME NEW r \in Reports, NEW sort, ProxyOK(ProxyForFilter(sort, r), r),
           NEW list, ListFits(list, r), NEW i \in 1..Len(list)
    PROVE  /\ ShownBy(sort, list, r)[i] = MapToTableReport(sort, list, r, i)
           /\ MapToTableReport(sort, list, r, i) \in 1..NumRows[r]
<1>1. ShownBy(sort, list, r)[i] = MapToTableReport(sort, list, r, i)
  BY DEF ShownBy
<1>2. list[i] \in 1..NumRows[r]
  BY DEF ListFits
<1> QED
  BY <1>1, <1>2 DEF MapToTableReport, ProxyOK

(* A row looked up in another list is found there, if it is there. *)
LEMMA LooksUp ==
    ASSUME NEW r \in Reports, NEW order \in SortOrders, NEW sort, SortOK(sort, order, r),
           NEW list, ListFits(list, r), NEW row \in 1..NumRows[r],
           NEW index, index = MapFromTableReport(sort, list, r, row)
    PROVE  /\ index \in 0..Len(list)
           /\ index # 0 => MapToTableReport(sort, list, r, index) = row
           /\ (\E i \in 1..Len(list) : MapToTableReport(sort, list, r, i) = row) => index # 0
<1>1. PICK proxy, n : proxy = ProxyForFilter(sort, r) /\ n = NumRows[r]
  OBVIOUS
<1>2. n \in Nat
  BY <1>1, ViewAssumption DEF ViewAssumption
<1>3. proxy \in [1..n -> 1..n] /\ Sorted(proxy, r, order)
  BY <1>1, ProxySorts DEF Sorted
<1>4. Permutes(proxy, n)
  BY <1>1, <1>3, OneToOne
<1>5. PICK p \in 1..n : proxy[p] = row
  BY <1>1, <1>4 DEF Permutes
<1>6. Len(proxy) \in Nat /\ Len(proxy) = n
  BY <1>2, <1>3
<1>7. MapFromSource(proxy, row) = p
  <2>1. PICK q : q = MapFromSource(proxy, row)
    OBVIOUS
  <2>2. q \in 1..n /\ proxy[q] = row
    BY <1>5, <1>6, <2>1, Finds
  <2> QED
    <3>1. \A i, j \in 1..n : proxy[i] = proxy[j] => i = j
      BY <1>4 DEF Permutes
    <3> QED
      BY <1>5, <2>1, <2>2, <3>1
<1>8. index = MapFromSource(list, p)
  <2>1. MapFromTableReport(sort, list, r, row)
            = MapFromSource(list, MapFromSource(ProxyForFilter(sort, r), row))
    BY DEF MapFromTableReport, MapFromSource
  <2> QED
    BY <1>1, <1>7, <2>1
<1>9. Len(list) \in Nat
  BY DEF ListFits
<1>10. /\ index \in 0..Len(list)
       /\ index # 0 => list[index] = p
       /\ (\E i \in 1..Len(list) : list[i] = p) => index # 0
  BY <1>8, <1>9, Finds
<1>11. \A i \in 1..Len(list) : /\ list[i] \in 1..n
                               /\ MapToTableReport(sort, list, r, i) = proxy[list[i]]
  BY <1>1 DEF ListFits, MapToTableReport
<1>12. \A i \in 1..Len(list) : MapToTableReport(sort, list, r, i) = row => list[i] = p
  <2> SUFFICES ASSUME NEW i \in 1..Len(list), MapToTableReport(sort, list, r, i) = row
               PROVE  list[i] = p
    OBVIOUS
  <2>1. list[i] \in 1..n /\ proxy[list[i]] = proxy[p]
    BY <1>5, <1>11
  <2>2. \A a, b \in 1..n : proxy[a] = proxy[b] => a = b
    BY <1>4 DEF Permutes
  <2> QED
    BY <2>1, <2>2
<1> QED
  BY <1>5, <1>9, <1>10, <1>11, <1>12

-----------------------------------------------------------------------------
(* THE INVARIANT. *)
Selected(size, sort, list, r, contentWidth, index, top, row) ==
    /\ index \in 0..Len(list)
    /\ top \in 0..ScrollMax(size, list, contentWidth)
    /\ index # 0 => row = MapToTableReport(sort, list, r, index)

OpenOK ==
    /\ m_report \in Reports
    /\ crashed = FALSE
    /\ SortOK(m_sort, sortOrder, m_report)
    /\ ListFits(m_list, m_report)
    /\ Selected(viewSize, m_sort, m_list, m_report, m_contentWidth, m_selectedIndex, scroll, told)
    /\ FiltererOK(m_filterer, m_sort, m_report, m_filter)

ClosedOK ==
    /\ m_report = NoReport
    /\ m_sort = NoProxy /\ m_list = << >>
    /\ m_selectedIndex = 0 /\ scroll = 0
    /\ m_filterer = NoFilterer

ViewInv ==
    /\ viewSize \in ViewSizes
    /\ m_filter \in Filters
    /\ sortOrder \in SortOrders
    /\ crashed \in BOOLEAN
    /\ OpenOK \/ ClosedOK

LEMMA OpenWindow ==
    ASSUME ViewInv, m_report # NoReport
    PROVE  /\ OpenOK
           /\ ProxyOK(ProxyForFilter(m_sort, m_report), m_report)
           /\ Len(m_list) \in Nat
<1>1. OpenOK
  BY DEF ViewInv, ClosedOK
<1>2. sortOrder \in SortOrders
  BY DEF ViewInv
<1>3. ProxyOK(ProxyForFilter(m_sort, m_report), m_report)
  BY <1>1, <1>2, ProxySorts DEF OpenOK
<1> QED
  BY <1>1, <1>3 DEF OpenOK, ListFits

LEMMA OpenBy ==
    ASSUME ViewInv
    PROVE  m_filterer # NoFilterer \/ m_list # << >> => m_report # NoReport
  BY ViewAssumption DEF ViewInv, OpenOK, ClosedOK, ViewAssumption

(* What setSelectedIndex does to the selection, the scroll bar and the row *)
(* that the report was told of.                                            *)
LEMMA Selects ==
    ASSUME viewSize \in ViewSizes,
           NEW sort, NEW list, Len(list) \in Nat, NEW contentWidth,
           NEW old \in 0..Len(list), NEW top \in 0..ScrollMax(viewSize, list, contentWidth),
           NEW index \in 0..Len(list), NEW force,
           old # 0 => told = MapToTableReport(sort, list, m_report, old),
           SetSelectedIndex(sort, list, contentWidth, old, top, index, force)
    PROVE  /\ m_selectedIndex' = index
           /\ Selected(viewSize, sort, list, m_report, contentWidth, index, scroll', told')
           /\ index # old /\ index # 0 =>
                  index \in (scroll' + 1)
                              ..(scroll' + VisibleItemCount(viewSize, list, contentWidth))
<1>1. PICK n \in Nat : n = Len(list)
  OBVIOUS
<1>2. /\ m_selectedIndex' = index
      /\ scroll' = IF index = old THEN top
                   ELSE EnsureIndexVisible(viewSize, list, contentWidth, top, index)
      /\ told' = IF index # 0 /\ (index # old \/ force)
                 THEN MapToTableReport(sort, list, m_report, index) ELSE told
  BY DEF SetSelectedIndex
<1>3. PICK ensured : ensured = EnsureIndexVisible(viewSize, list, contentWidth, top, index)
  OBVIOUS
<1>4. /\ ensured \in 0..ScrollMax(viewSize, list, contentWidth)
      /\ index \in 1..n =>
             index \in (ensured + 1)..(ensured + VisibleItemCount(viewSize, list, contentWidth))
  BY <1>1, <1>3, EnsuredFits
<1>5. scroll' \in 0..ScrollMax(viewSize, list, contentWidth)
  BY <1>2, <1>3, <1>4
<1>6. index # 0 => told' = MapToTableReport(sort, list, m_report, index)
  BY <1>2
<1>7. index # old /\ index # 0 =>
          index \in (scroll' + 1)..(scroll' + VisibleItemCount(viewSize, list, contentWidth))
  BY <1>1, <1>2, <1>3, <1>4
<1> QED
  BY <1>1, <1>2, <1>5, <1>6, <1>7 DEF Selected

-----------------------------------------------------------------------------
(* THE STEPS. *)
(* The user selects or scrolls. *)
LEMMA SelectKeeps ==
    ASSUME ViewInv, m_list # << >>, NEW index \in 1..Len(m_list), NEW force, Select(index, force)
    PROVE  ViewInv'
<1>1. OpenOK /\ Len(m_list) \in Nat
  BY OpenBy, OpenWindow
<1>2. /\ SetSelectedIndex(m_sort, m_list, m_contentWidth, m_selectedIndex, scroll, index, force)
      /\ UNCHANGED <<viewSize, m_report, m_filter, sortOrder, m_sort, m_list, m_contentWidth,
                     m_filterer, crashed>>
  BY DEF Select
<1>3. /\ m_selectedIndex \in 0..Len(m_list)
      /\ scroll \in 0..ScrollMax(viewSize, m_list, m_contentWidth)
      /\ m_selectedIndex # 0 =>
             told = MapToTableReport(m_sort, m_list, m_report, m_selectedIndex)
  BY <1>1 DEF OpenOK, Selected
<1>4. index \in 0..Len(m_list)
  BY <1>1
<1>5. /\ m_selectedIndex' = index
      /\ Selected(viewSize, m_sort, m_list, m_report, m_contentWidth, index, scroll', told')
  BY <1>1, <1>2, <1>3, <1>4, Selects DEF ViewInv
<1>6. OpenOK'
  BY <1>1, <1>2, <1>5 DEF OpenOK
<1> QED
  BY <1>2, <1>6 DEF ViewInv

LEMMA KeyKeeps ==
    ASSUME ViewInv, NEW key \in {"Up", "Down", "PageUp", "PageDown", "Home", "End"},
           KeyPressEvent(key)
    PROVE  ViewInv' /\ m_list # << >> /\ \E index \in 1..Len(m_list) : Select(index, TRUE)
<1>1. m_list # << >>
  BY DEF KeyPressEvent, Usable
<1>2. OpenOK /\ Len(m_list) \in Nat
  BY <1>1, OpenBy, OpenWindow
<1>3. PICK n \in Nat : n = Len(m_list) /\ n >= 1
  <2>1. m_list \in Seq(Nat)
    BY <1>2 DEF OpenOK, ListFits
  <2>2. Len(m_list) # 0
    BY <1>1, <2>1
  <2> QED
    BY <1>2, <2>2
<1>4. m_selectedIndex \in Nat /\ page \in Nat
  BY <1>2, <1>3, PageRange DEF OpenOK, Selected, page, ViewInv
<1> DEFINE moved == CASE key = "Up" -> -1 [] key = "Down" -> 1
                      [] key = "PageUp" -> -page [] key = "PageDown" -> page
           index == CASE key = "Home" -> 1
                      [] key = "End" -> Len(m_list)
                      [] OTHER -> least(Len(m_list), most(1, m_selectedIndex + moved))
<1>5. Select(index, TRUE)
  BY DEF KeyPressEvent
<1>6. index \in 1..n
  <2>1. CASE key = "Home"
    BY <1>3, <2>1
  <2>2. CASE key = "End"
    BY <1>3, <2>2
  <2>3. CASE key \in {"Up", "Down", "PageUp", "PageDown"}
    <3>1. moved \in Int
      BY <1>4, <2>3
    <3> HIDE DEF moved
    <3>2. index = least(n, most(1, m_selectedIndex + moved))
      BY <1>3, <2>3
    <3> QED
      BY <1>3, <1>4, <3>1, <3>2 DEF least, most
  <2> QED
    BY <2>1, <2>2, <2>3
<1> HIDE DEF index
<1>7. ViewInv'
  BY <1>1, <1>3, <1>5, <1>6, SelectKeeps
<1> QED
  BY <1>1, <1>3, <1>5, <1>6, <1>7

LEMMA MouseKeeps ==
    ASSUME ViewInv, NEW y \in 0..(viewSize.height - 1),
           MousePressEvent(y) \/ MouseMoveEvent(y) \/ MouseDoubleClickEvent(y)
    PROVE  /\ ViewInv' /\ m_list # << >>
           /\ \E index \in 1..Len(m_list), force \in BOOLEAN : Select(index, force)
<1>1. m_list # << >>
  BY DEF MousePressEvent, MouseMoveEvent, MouseDoubleClickEvent, Usable
<1>2. OpenOK /\ Len(m_list) \in Nat
  BY <1>1, OpenBy, OpenWindow
<1>3. PICK n \in Nat : n = Len(m_list) /\ n >= 1
  <2>1. m_list \in Seq(Nat)
    BY <1>2 DEF OpenOK, ListFits
  <2>2. Len(m_list) # 0
    BY <1>1, <2>1
  <2> QED
    BY <1>2, <2>2
<1>4. scroll \in Nat
  BY <1>2 DEF OpenOK, Selected
<1>5. y \in Nat
  BY ViewAssumption DEF ViewAssumption, ViewInv
<1>6. PICK index \in 1..n : index = IndexFromPoint(y)
  BY <1>3, <1>4, <1>5 DEF IndexFromPoint, least
<1>7. PICK force \in BOOLEAN : Select(index, force)
  BY <1>6 DEF MousePressEvent, MouseMoveEvent, MouseDoubleClickEvent
<1>8. ViewInv'
  BY <1>1, <1>3, <1>7, SelectKeeps
<1> QED
  BY <1>1, <1>3, <1>7, <1>8

LEMMA ScrollKeeps ==
    ASSUME ViewInv, NEW delta \in {-1, 1}, Scroll(delta)
    PROVE  ViewInv'
<1>1. m_list # << >>
  BY DEF Scroll, Usable
<1>2. OpenOK /\ Len(m_list) \in Nat
  BY <1>1, OpenBy, OpenWindow
<1>3. scroll \in Nat
  BY <1>2 DEF OpenOK, Selected
<1>4. PICK top \in Nat : top = most(0, scroll + delta)
  BY <1>3 DEF most
<1>5. scroll' = UpdatedScroll(viewSize, m_list, m_contentWidth, top)
  BY <1>4 DEF Scroll
<1>6. scroll' \in 0..ScrollMax(viewSize, m_list, m_contentWidth)
  BY <1>2, <1>5, UpdatedScrollFits DEF ViewInv
<1>7. Selected(viewSize, m_sort, m_list, m_report, m_contentWidth, m_selectedIndex, scroll', told)
  BY <1>2, <1>6 DEF OpenOK, Selected
<1>8. UNCHANGED <<viewSize, m_report, m_filter, sortOrder, m_sort, m_list, m_contentWidth,
                  m_selectedIndex, m_filterer, told, crashed>>
  BY DEF Scroll
<1>9. OpenOK'
  BY <1>2, <1>7, <1>8 DEF OpenOK
<1> QED
  BY <1>8, <1>9 DEF ViewInv

(* The window is resized. *)
LEMMA ResizeKeeps ==
    ASSUME ViewInv, NEW size \in ViewSizes, Resize(size)
    PROVE  /\ ViewInv'
           /\ UNCHANGED <<m_report, m_filter, sortOrder, m_sort, m_list, m_filterer>>
<1>1. OpenOK /\ Len(m_list) \in Nat
  BY OpenWindow DEF Resize
<1>2. PICK top \in Nat : top = scroll
  BY <1>1 DEF OpenOK, Selected
<1>3. /\ viewSize' = size
      /\ scroll' = UpdatedScroll(size, m_list, m_contentWidth, top)
      /\ UNCHANGED <<m_report, m_filter, sortOrder, m_sort, m_list, m_contentWidth,
                     m_selectedIndex, m_filterer, told, crashed>>
  BY <1>2 DEF Resize
<1>4. scroll' \in 0..ScrollMax(size, m_list, m_contentWidth)
  BY <1>1, <1>3, UpdatedScrollFits
<1>5. Selected(size, m_sort, m_list, m_report, m_contentWidth, m_selectedIndex, scroll', told)
  BY <1>1, <1>4 DEF OpenOK, Selected
<1>6. OpenOK'
  BY <1>1, <1>3, <1>5 DEF OpenOK
<1> QED
  BY <1>3, <1>6 DEF ViewInv

(* The pool threads. *)
LEMMA TakeKeeps ==
    ASSUME ViewInv, NEW w \in Workers, TakeBatch(w)
    PROVE  ViewInv'
<1>1. m_filterer # NoFilterer /\ m_filterer.next <= Len(m_filterer.done)
  BY DEF TakeBatch
<1>2. OpenOK
  BY <1>1, OpenBy, OpenWindow
<1>3. PICK f : f = m_filterer
  OBVIOUS
<1>4. PICK n : n = Len(MakeBatches(NumRows[m_report]))
  OBVIOUS
<1>5. /\ f = [pattern |-> m_filter, next |-> f.next, running |-> f.running,
              done |-> f.done, reduced |-> f.reduced, result |-> f.result]
      /\ f.next \in Nat \ {0}
      /\ f.running \in [Workers -> 0..n]
      /\ Batched(f.done, f.reduced, f.result, m_sort, m_report, m_filter)
  BY <1>1, <1>2, <1>3, <1>4 DEF OpenOK, FiltererOK
<1>6. n \in Nat
  BY <1>2, <1>4, EndsFacts DEF OpenOK, EndsAt
<1>7. f.next \in 0..n
  <2>1. f.done \in [1..n -> [indices : Seq(Nat), width : Nat] \cup {NoResult}]
    BY <1>4, <1>5 DEF Batched
  <2>2. Len(f.done) = n
    BY <1>6, <2>1
  <2> QED
    BY <1>1, <1>3, <1>5, <1>6, <2>2
<1>8. PICK g : g = m_filterer'
  OBVIOUS
<1>9. g = [f EXCEPT !.running[w] = f.next, !.next = f.next + 1]
  BY <1>3, <1>8 DEF TakeBatch
<1>10. g = [pattern |-> m_filter, next |-> f.next + 1, running |-> [f.running EXCEPT ![w] = f.next],
            done |-> f.done, reduced |-> f.reduced, result |-> f.result]
  <2>1. PICK nx, rn, dn, rd, rs : /\ nx = f.next /\ rn = f.running /\ dn = f.done
                                  /\ rd = f.reduced /\ rs = f.result
    OBVIOUS
  <2>2. f = [pattern |-> m_filter, next |-> nx, running |-> rn, done |-> dn,
             reduced |-> rd, result |-> rs]
    BY <1>5, <2>1
  <2>3. g = [f EXCEPT !.running[w] = nx, !.next = nx + 1]
    BY <1>9, <2>1
  <2>4. g = [pattern |-> m_filter, next |-> nx + 1, running |-> [rn EXCEPT ![w] = nx],
             done |-> dn, reduced |-> rd, result |-> rs]
    BY <2>2, <2>3
  <2> QED
    BY <2>1, <2>4
<1>11. g.running \in [Workers -> 0..n]
  BY <1>5, <1>7, <1>10
<1>12. g.next \in Nat \ {0}
  BY <1>5, <1>10
<1>13. FiltererOK(g, m_sort, m_report, m_filter)
  BY <1>4, <1>5, <1>10, <1>11, <1>12 DEF FiltererOK
<1>14. UNCHANGED <<viewSize, m_report, m_filter, sortOrder, m_sort, m_list, m_contentWidth,
                   m_selectedIndex, scroll, told, crashed>>
  BY DEF TakeBatch
<1>15. OpenOK'
  BY <1>2, <1>8, <1>13, <1>14 DEF OpenOK
<1> QED
  BY <1>14, <1>15 DEF ViewInv

LEMMA EndKeeps ==
    ASSUME ViewInv, NEW w \in Workers, EndBatch(w)
    PROVE  ViewInv'
<1>1. m_filterer # NoFilterer /\ m_filterer.running[w] # 0
  BY DEF EndBatch
<1>2. OpenOK /\ m_report \in Reports /\ ProxyOK(ProxyForFilter(m_sort, m_report), m_report)
  BY <1>1, OpenBy, OpenWindow DEF OpenOK
<1>3. PICK f : f = m_filterer
  OBVIOUS
<1>4. PICK n : n = Len(MakeBatches(NumRows[m_report]))
  OBVIOUS
<1>5. /\ f = [pattern |-> m_filter, next |-> f.next, running |-> f.running,
              done |-> f.done, reduced |-> f.reduced, result |-> f.result]
      /\ f.next \in Nat \ {0}
      /\ f.running \in [Workers -> 0..n]
      /\ Batched(f.done, f.reduced, f.result, m_sort, m_report, m_filter)
  BY <1>1, <1>2, <1>3, <1>4 DEF OpenOK, FiltererOK
<1>6. n \in Nat
  BY <1>2, <1>4, EndsFacts DEF EndsAt
<1>7. PICK b \in 1..n : b = f.running[w]
  <2>1. f.running[w] \in 0..n
    BY <1>5
  <2> QED
    BY <1>1, <1>3, <1>6, <2>1
<1>8. f.pattern = m_filter
  BY <1>5
<1>9. PICK rows, done, after :
          /\ rows = MapBatch(m_sort, m_report, m_filter, MakeBatches(NumRows[m_report])[b])
          /\ done = [f.done EXCEPT ![b] = rows]
          /\ after = ReduceReady(done, f.reduced, f.result)
          /\ m_filterer' = [f EXCEPT !.running[w] = 0, !.done = done,
                                     !.reduced = after.reduced, !.result = after.result]
  <2>1. PICK rows \in {MapBatch(m_sort, m_report, m_filterer.pattern,
                                MakeBatches(NumRows[m_report])[m_filterer.running[w]])} :
            \E done \in {[m_filterer.done EXCEPT ![m_filterer.running[w]] = rows]} :
            \E after \in {ReduceReady(done, m_filterer.reduced, m_filterer.result)} :
               m_filterer' = [m_filterer EXCEPT !.running[w] = 0, !.done = done,
                                                !.reduced = after.reduced,
                                                !.result = after.result]
    BY DEF EndBatch
  <2>2. PICK done \in {[m_filterer.done EXCEPT ![m_filterer.running[w]] = rows]} :
            \E after \in {ReduceReady(done, m_filterer.reduced, m_filterer.result)} :
               m_filterer' = [m_filterer EXCEPT !.running[w] = 0, !.done = done,
                                                !.reduced = after.reduced,
                                                !.result = after.result]
    BY <2>1
  <2>3. PICK after \in {ReduceReady(done, m_filterer.reduced, m_filterer.result)} :
            m_filterer' = [m_filterer EXCEPT !.running[w] = 0, !.done = done,
                                             !.reduced = after.reduced,
                                             !.result = after.result]
    BY <2>2
  <2> QED
    BY <1>3, <1>7, <1>8, <2>1, <2>2, <2>3
<1>10. Batched(done, f.reduced, f.result, m_sort, m_report, m_filter)
  BY <1>2, <1>4, <1>5, <1>7, <1>9, DoneKeeps
<1>11. Batched(done, after.reduced, after.result, m_sort, m_report, m_filter)
  BY <1>2, <1>9, <1>10, ReduceReadyKeeps
<1>12. PICK g : g = m_filterer'
  OBVIOUS
<1>13. g = [pattern |-> m_filter, next |-> f.next, running |-> [f.running EXCEPT ![w] = 0],
            done |-> done, reduced |-> after.reduced, result |-> after.result]
  <2>1. PICK nx, rn, dn, rd, rs : /\ nx = f.next /\ rn = f.running /\ dn = f.done
                                  /\ rd = f.reduced /\ rs = f.result
    OBVIOUS
  <2>2. f = [pattern |-> m_filter, next |-> nx, running |-> rn, done |-> dn,
             reduced |-> rd, result |-> rs]
    BY <1>5, <2>1
  <2>3. g = [pattern |-> m_filter, next |-> nx, running |-> [rn EXCEPT ![w] = 0],
             done |-> done, reduced |-> after.reduced, result |-> after.result]
    BY <1>9, <1>12, <2>2
  <2> QED
    BY <2>1, <2>3
<1>14. g.running \in [Workers -> 0..n]
  <2>1. 0 \in 0..n
    BY <1>6
  <2> QED
    BY <1>5, <1>13, <2>1
<1>15. FiltererOK(g, m_sort, m_report, m_filter)
  BY <1>4, <1>5, <1>11, <1>13, <1>14 DEF FiltererOK
<1>16. UNCHANGED <<viewSize, m_report, m_filter, sortOrder, m_sort, m_list, m_contentWidth,
                   m_selectedIndex, scroll, told, crashed>>
  BY DEF EndBatch
<1>17. OpenOK'
  BY <1>2, <1>12, <1>15, <1>16 DEF OpenOK
<1> QED
  BY <1>16, <1>17 DEF ViewInv

(* The rows on the screen, before and after a step. *)
LEMMA ShownIs ==
    /\ Shown = ShownBy(m_sort, m_list, m_report)
    /\ Shown' = ShownBy(m_sort', m_list', m_report')
  BY DEF Shown, ShownBy

(* SelectionFollows speaks of each step that replaces the list or what it  *)
(* is made from. *)
Followed ==
    <<m_list, m_sort, m_filterer>>' # <<m_list, m_sort, m_filterer>> /\ m_report' = m_report =>
        IF m_selectedIndex # 0 /\ \E i \in DOMAIN Shown' : Shown'[i] = Shown[m_selectedIndex]
        THEN /\ m_selectedIndex' # 0
             /\ Shown'[m_selectedIndex'] = Shown[m_selectedIndex]
             /\ <<m_list, m_sort>>' # <<m_list, m_sort>> =>
                    m_selectedIndex' \in (scroll' + 1)..(scroll' + page')
        ELSE m_selectedIndex' = 0

(* The new selection, if there is one, is on the row and in view. *)
LooksForRow(sort, list, r, row, index) ==
    /\ index \in 0..Len(list)
    /\ index # 0 => MapToTableReport(sort, list, r, index) = row
    /\ (\E i \in 1..Len(list) : MapToTableReport(sort, list, r, i) = row) => index # 0

LEMMA FollowsRow ==
    ASSUME OpenOK, m_report' = m_report, ListFits(m_list', m_report),
           m_selectedIndex = 0 => m_selectedIndex' = 0,
           m_selectedIndex # 0 =>
               LooksForRow(m_sort', m_list', m_report,
                           MapToTableReport(m_sort, m_list, m_report, m_selectedIndex),
                           m_selectedIndex'),
           m_selectedIndex' # 0 => m_selectedIndex' \in (scroll' + 1)..(scroll' + page')
    PROVE  Followed
<1>1. CASE m_selectedIndex = 0
  BY <1>1 DEF Followed
<1>2. CASE m_selectedIndex # 0
  <2>1. PICK row : row = MapToTableReport(m_sort, m_list, m_report, m_selectedIndex)
    OBVIOUS
  <2>2. m_selectedIndex \in 1..Len(m_list)
    BY <1>2 DEF OpenOK, Selected, ListFits
  <2>3. Shown[m_selectedIndex] = row
    BY <2>1, <2>2, ShownIs DEF ShownBy
  <2>4. PICK index, list : index = m_selectedIndex' /\ list = m_list'
    OBVIOUS
  <2>5. LooksForRow(m_sort', list, m_report, row, index)
    BY <1>2, <2>1, <2>4
  <2>6. PICK n \in Nat : n = Len(list)
    BY <2>4 DEF ListFits
  <2>7. /\ DOMAIN Shown' = 1..n
        /\ \A i \in 1..n : Shown'[i] = MapToTableReport(m_sort', list, m_report, i)
    BY <2>4, <2>6, ShownIs DEF ShownBy
  <2>8. CASE index # 0
    <3>1. index \in 1..n /\ Shown'[index] = row
      BY <2>5, <2>6, <2>7, <2>8 DEF LooksForRow
    <3> QED
      BY <1>2, <2>3, <2>4, <2>7, <2>8, <3>1 DEF Followed
  <2>9. CASE index = 0
    <3>1. ~ \E i \in DOMAIN Shown' : Shown'[i] = row
      BY <2>5, <2>6, <2>7, <2>9 DEF LooksForRow
    <3> QED
      BY <2>3, <2>4, <2>9, <3>1 DEF Followed
  <2> QED
    BY <2>8, <2>9
<1> QED
  BY <1>1, <1>2

(* A filter ends and its result becomes the list. *)
LEMMA FinishKeeps ==
    ASSUME ViewInv, FilterFinished
    PROVE  /\ ViewInv' /\ Followed
           /\ m_report # NoReport /\ UNCHANGED <<m_report, m_filter, sortOrder>>
           /\ Shown' = ListOf!Listing(m_report, [filter |-> m_filter, order |-> sortOrder])
<1>1. m_filterer # NoFilterer /\ AllReduced(m_filterer)
  BY DEF FilterFinished
<1>2. /\ OpenOK /\ m_report \in Reports /\ sortOrder \in SortOrders /\ m_filter \in Filters
      /\ SortOK(m_sort, sortOrder, m_report)
      /\ FiltererOK(m_filterer, m_sort, m_report, m_filter)
      /\ m_report # NoReport
  BY <1>1, OpenBy, OpenWindow DEF OpenOK, ViewInv
<1>3. PICK result, list, proxy : /\ result = m_filterer.result /\ list = result.indices
                                 /\ proxy = ProxyForFilter(m_sort, m_report)
  OBVIOUS
<1>4. Collected(result, Matching(proxy, m_report, m_filter, 1, NumRows[m_report]))
  BY <1>1, <1>2, <1>3, AllReducedIs
<1>5. ListFits(list, m_report)
  BY <1>2, <1>3, <1>4, CollectedFits
<1>6. ProxyOK(proxy, m_report) /\ Sorted(proxy, m_report, sortOrder)
  BY <1>2, <1>3, ProxySorts
<1>7. PICK old : old = IF m_selectedIndex = 0 THEN 0 ELSE m_list[m_selectedIndex]
  OBVIOUS
<1>8. PICK index : index = IF old = 0 THEN 0 ELSE MapFromSource(list, old)
  OBVIOUS
<1>9. PICK top : top = UpdatedScroll(viewSize, list, result.width, scroll)
  OBVIOUS
<1>10. /\ m_list' = list /\ m_contentWidth' = result.width
       /\ SetSelectedIndex(m_sort, list, result.width, 0, top, index, FALSE)
       /\ m_filterer' = NoFilterer
       /\ UNCHANGED <<viewSize, m_report, m_filter, sortOrder, m_sort, crashed>>
  BY <1>3, <1>7, <1>8, <1>9 DEF FilterFinished, FinishBackgroundFiltering
<1>11. Len(list) \in Nat
  BY <1>5 DEF ListFits
<1>12. top \in 0..ScrollMax(viewSize, list, result.width)
  <2>1. scroll \in Nat
    BY <1>2 DEF OpenOK, Selected
  <2> QED
    BY <1>9, <1>11, <2>1, UpdatedScrollFits DEF ViewInv
<1>13. index \in 0..Len(list)
  BY <1>8, <1>11, Finds
<1>14. 0 \in 0..Len(list)
  BY <1>11
<1>15. /\ m_selectedIndex' = index
       /\ Selected(viewSize, m_sort, list, m_report, result.width, index, scroll', told')
       /\ index # 0 =>
              index \in (scroll' + 1)..(scroll' + VisibleItemCount(viewSize, list, result.width))
  <2>1. PICK none, width, force : none = 0 /\ width = result.width /\ force = FALSE
    OBVIOUS
  <2>2. SetSelectedIndex(m_sort, list, width, none, top, index, force)
    BY <1>10, <2>1
  <2>3. /\ m_selectedIndex' = index
        /\ Selected(viewSize, m_sort, list, m_report, width, index, scroll', told')
        /\ index # none /\ index # 0 =>
               index \in (scroll' + 1)..(scroll' + VisibleItemCount(viewSize, list, width))
    BY <1>11, <1>12, <1>13, <1>14, <2>1, <2>2, Selects DEF ViewInv
  <2> QED
    BY <2>1, <2>3
<1>16. OpenOK'
  <2>1. FiltererOK(NoFilterer, m_sort, m_report, m_filter)
    BY DEF FiltererOK
  <2> QED
    BY <1>2, <1>5, <1>10, <1>15, <2>1 DEF OpenOK
<1>17. ViewInv'
  BY <1>10, <1>16 DEF ViewInv
<1>18. Followed
  <2>1. m_selectedIndex = 0 => index = 0
    BY <1>7, <1>8
  <2>2. m_selectedIndex # 0 =>
            LooksForRow(m_sort, list, m_report,
                        MapToTableReport(m_sort, m_list, m_report, m_selectedIndex), index)
    <3> SUFFICES ASSUME m_selectedIndex # 0
                 PROVE  LooksForRow(m_sort, list, m_report,
                            MapToTableReport(m_sort, m_list, m_report, m_selectedIndex), index)
      OBVIOUS
    <3>1. PICK n \in Nat : n = NumRows[m_report]
      BY <1>2, ViewAssumption DEF ViewAssumption
    <3>2. old \in 1..n /\ old = m_list[m_selectedIndex]
      <4>1. m_selectedIndex \in 1..Len(m_list) /\ m_list[m_selectedIndex] \in 1..n
        BY <1>2, <3>1 DEF OpenOK, Selected, ListFits
      <4> QED
        BY <1>7, <4>1
    <3>3. index = MapFromSource(list, old)
      BY <1>8, <3>1, <3>2
    <3>4. /\ index # 0 => list[index] = old
          /\ (\E i \in 1..Len(list) : list[i] = old) => index # 0
      BY <1>11, <3>3, Finds
    <3>5. MapToTableReport(m_sort, m_list, m_report, m_selectedIndex) = proxy[old]
      BY <1>3, <3>2 DEF MapToTableReport
    <3>6. \A i \in 1..Len(list) : /\ list[i] \in 1..n
                                  /\ MapToTableReport(m_sort, list, m_report, i) = proxy[list[i]]
      BY <1>3, <1>5, <3>1 DEF MapToTableReport, ListFits
    <3>7. ASSUME NEW i \in 1..Len(list), MapToTableReport(m_sort, list, m_report, i) = proxy[old]
          PROVE  list[i] = old
      <4>1. list[i] \in 1..n /\ proxy[list[i]] = proxy[old]
        BY <3>6, <3>7
      <4>2. Permutes(proxy, n)
        BY <1>2, <1>6, <3>1, OneToOne
      <4>3. \A a, b \in 1..n : proxy[a] = proxy[b] => a = b
        BY <4>2 DEF Permutes
      <4> QED
        BY <3>2, <4>1, <4>3
    <3>8. index # 0 => MapToTableReport(m_sort, list, m_report, index) = proxy[old]
      BY <1>3, <3>4 DEF MapToTableReport
    <3> QED
      BY <1>13, <3>4, <3>5, <3>7, <3>8 DEF LooksForRow
  <2>3. page' = VisibleItemCount(viewSize, list, result.width)
    BY <1>10 DEF page
  <2> QED
    BY <1>2, <1>5, <1>10, <1>15, <2>1, <2>2, <2>3, FollowsRow
<1>19. Shown' = ListOf!Listing(m_report, [filter |-> m_filter, order |-> sortOrder])
  <2>1. Ascending(list, Matching(proxy, m_report, m_filter, 1, NumRows[m_report]))
    BY <1>3, <1>4 DEF Collected
  <2>2. ShownBy(m_sort, list, m_report)
            = ListOf!Listing(m_report, [filter |-> m_filter, order |-> sortOrder])
    BY <1>2, <1>3, <2>1, ShownIsListing
  <2> QED
    BY <1>10, <2>2, ShownIs
<1> QED
  BY <1>2, <1>10, <1>17, <1>18, <1>19

(* A header is clicked. *)
LEMMA SortKeeps ==
    ASSUME ViewInv, NEW order \in SortOrders, SortIndicatorChanged(order)
    PROVE  /\ ViewInv' /\ Followed
           /\ m_report # NoReport /\ order # sortOrder /\ sortOrder' = order
           /\ UNCHANGED <<m_report, m_filter>>
           /\ Shown' = ListOf!Listing(m_report, [filter |-> m_filter, order |-> order])
<1>1. m_report # NoReport /\ order \in {"ascending", "descending"} /\ order # sortOrder
  BY DEF SortIndicatorChanged
<1>2. /\ OpenOK /\ m_report \in Reports /\ m_filter \in Filters
      /\ ProxyOK(ProxyForFilter(m_sort, m_report), m_report)
      /\ ListFits(m_list, m_report)
  BY <1>1, OpenWindow DEF OpenOK, ViewInv
<1>3. PICK sort : sort = SortProxyReport[m_report][order]
  OBVIOUS
<1>4. SortOK(sort, order, m_report)
  BY <1>1, <1>3 DEF SortOK
<1>5. PICK result, list, proxy : /\ result = FilterResult(sort, m_report, m_filter)
                                 /\ list = result.indices
                                 /\ proxy = ProxyForFilter(sort, m_report)
  OBVIOUS
<1>6. ProxyOK(proxy, m_report)
  BY <1>2, <1>4, <1>5, ProxySorts
<1>7. Collected(result, Matching(proxy, m_report, m_filter, 1, NumRows[m_report]))
  BY <1>2, <1>5, <1>6, FilterResultIs
<1>8. ListFits(list, m_report)
  BY <1>2, <1>5, <1>7, CollectedFits
<1>9. PICK old : old = IF m_selectedIndex = 0 THEN 0
                       ELSE MapToTableReport(m_sort, m_list, m_report, m_selectedIndex)
  OBVIOUS
<1>10. PICK index : index = IF old = 0 THEN 0 ELSE MapFromTableReport(sort, list, m_report, old)
  OBVIOUS
<1>11. PICK top : top = UpdatedScroll(viewSize, list, result.width, scroll)
  OBVIOUS
<1>12. /\ m_sort' = sort /\ sortOrder' = order
       /\ m_list' = list /\ m_contentWidth' = result.width
       /\ SetSelectedIndex(sort, list, result.width, 0, top, index, FALSE)
       /\ m_filterer' = NoFilterer /\ crashed' = FALSE
       /\ UNCHANGED <<viewSize, m_report, m_filter>>
  <2>1. m_sort' = sort /\ sortOrder' = order
    BY <1>3 DEF SortIndicatorChanged
  <2>2. /\ m_list' = list /\ m_contentWidth' = result.width
        /\ SetSelectedIndex(sort, list, result.width, 0, top, index, FALSE)
    BY <1>5, <1>9, <1>10, <1>11, <2>1 DEF SortIndicatorChanged
  <2>3. m_filterer' = NoFilterer /\ UNCHANGED <<viewSize, m_report, m_filter>>
    BY DEF SortIndicatorChanged
  <2>4. crashed' = FALSE
    BY DEF SortIndicatorChanged, Dangling
  <2> QED
    BY <2>1, <2>2, <2>3, <2>4
<1>13. Len(list) \in Nat
  BY <1>8 DEF ListFits
<1>14. top \in 0..ScrollMax(viewSize, list, result.width)
  <2>1. scroll \in Nat
    BY <1>2 DEF OpenOK, Selected
  <2> QED
    BY <1>11, <1>13, <2>1, UpdatedScrollFits DEF ViewInv
<1>15. PICK n \in Nat : n = NumRows[m_report]
  BY <1>2, ViewAssumption DEF ViewAssumption
<1>16. m_selectedIndex # 0 => old \in 1..n
  <2>1. m_selectedIndex # 0 => m_selectedIndex \in 1..Len(m_list)
    BY <1>2 DEF OpenOK, Selected, ListFits
  <2> QED
    BY <1>2, <1>9, <1>15, <2>1, RowShown
<1>17. m_selectedIndex # 0 => LooksForRow(sort, list, m_report, old, index)
  <2> SUFFICES ASSUME m_selectedIndex # 0 PROVE LooksForRow(sort, list, m_report, old, index)
    OBVIOUS
  <2>1. old \in 1..NumRows[m_report] /\ index = MapFromTableReport(sort, list, m_report, old)
    BY <1>10, <1>15, <1>16
  <2> QED
    BY <1>2, <1>4, <1>8, <2>1, LooksUp DEF LooksForRow
<1>18. m_selectedIndex = 0 => index = 0
  BY <1>9, <1>10
<1>19. index \in 0..Len(list)
  BY <1>13, <1>17, <1>18 DEF LooksForRow
<1>20. 0 \in 0..Len(list)
  BY <1>13
<1>21. /\ m_selectedIndex' = index
       /\ Selected(viewSize, sort, list, m_report, result.width, index, scroll', told')
       /\ index # 0 =>
              index \in (scroll' + 1)..(scroll' + VisibleItemCount(viewSize, list, result.width))
  <2>1. PICK none, width, force : none = 0 /\ width = result.width /\ force = FALSE
    OBVIOUS
  <2>2. SetSelectedIndex(sort, list, width, none, top, index, force)
    BY <1>12, <2>1
  <2>3. /\ m_selectedIndex' = index
        /\ Selected(viewSize, sort, list, m_report, width, index, scroll', told')
        /\ index # none /\ index # 0 =>
               index \in (scroll' + 1)..(scroll' + VisibleItemCount(viewSize, list, width))
    BY <1>13, <1>14, <1>19, <1>20, <2>1, <2>2, Selects DEF ViewInv
  <2> QED
    BY <2>1, <2>3
<1>22. OpenOK'
  <2>1. FiltererOK(NoFilterer, sort, m_report, m_filter)
    BY DEF FiltererOK
  <2> QED
    BY <1>2, <1>4, <1>8, <1>12, <1>21, <2>1 DEF OpenOK
<1>23. ViewInv'
  BY <1>2, <1>12, <1>22 DEF ViewInv
<1>24. Followed
  <2>1. page' = VisibleItemCount(viewSize, list, result.width)
    BY <1>12 DEF page
  <2>2. m_selectedIndex # 0 =>
            LooksForRow(m_sort', m_list', m_report,
                        MapToTableReport(m_sort, m_list, m_report, m_selectedIndex),
                        m_selectedIndex')
    BY <1>9, <1>12, <1>17, <1>21
  <2> QED
    BY <1>2, <1>8, <1>12, <1>18, <1>21, <2>1, <2>2, FollowsRow
<1>25. Shown' = ListOf!Listing(m_report, [filter |-> m_filter, order |-> order])
  <2>1. Ascending(list, Matching(proxy, m_report, m_filter, 1, NumRows[m_report]))
    BY <1>5, <1>7 DEF Collected
  <2>2. ShownBy(sort, list, m_report)
            = ListOf!Listing(m_report, [filter |-> m_filter, order |-> order])
    BY <1>2, <1>4, <1>5, <2>1, ShownIsListing
  <2> QED
    BY <1>12, <2>2, ShownIs
<1> QED
  BY <1>1, <1>12, <1>23, <1>24, <1>25

(* A window is opened. *)
LEMMA OpenKeeps ==
    ASSUME ViewInv, NEW r \in Reports, SetTableReport(r)
    PROVE  /\ ViewInv' /\ m_report' # m_report
           /\ Shown' = [i \in 1..NumRows[r] |-> i]
<1>1. m_report = NoReport /\ r # NoReport /\ m_report' = r /\ m_filter' = EmptyFilter
      /\ sortOrder' = "none" /\ m_sort' = NoProxy
  BY ViewAssumption DEF SetTableReport, ViewAssumption
<1>2. crashed' = FALSE /\ viewSize' = viewSize
  BY DEF SetTableReport, ViewInv
<1>3. PICK result, list, proxy : /\ result = FilterResult(NoProxy, r, EmptyFilter)
                                 /\ list = result.indices
                                 /\ proxy = ProxyForFilter(NoProxy, r)
  OBVIOUS
<1>4. /\ m_list' = list /\ m_contentWidth' = result.width
      /\ m_selectedIndex' = 0 /\ scroll' = 0 /\ m_filterer' = NoFilterer
  BY <1>3 DEF SetTableReport
<1>5. SortOK(NoProxy, "none", r) /\ "none" \in SortOrders
  BY DEF SortOK, SortOrders
<1>6. ProxyOK(proxy, r)
  BY <1>3, <1>5, ProxySorts
<1>7. Collected(result, Matching(proxy, r, EmptyFilter, 1, NumRows[r]))
  BY <1>3, <1>6, FilterResultIs
<1>8. ListFits(list, r)
  BY <1>3, <1>7, CollectedFits
<1>9. Selected(viewSize, NoProxy, list, r, result.width, 0, 0, told')
  <2>1. Len(list) \in Nat
    BY <1>8 DEF ListFits
  <2>2. ScrollMax(viewSize, list, result.width) \in Nat
    BY <2>1, PageRange DEF ScrollMax, most, ViewInv
  <2> QED
    BY <2>1, <2>2 DEF Selected
<1>10. FiltererOK(NoFilterer, NoProxy, r, EmptyFilter)
  BY DEF FiltererOK
<1>11. OpenOK'
  BY <1>1, <1>2, <1>4, <1>5, <1>8, <1>9, <1>10 DEF OpenOK
<1>12. ViewInv'
  BY <1>1, <1>2, <1>5, <1>11, ViewAssumption DEF ViewInv, ViewAssumption
<1>13. ShownBy(NoProxy, list, r) = [i \in 1..NumRows[r] |-> i]
  <2>1. Ascending(list, Matching(proxy, r, EmptyFilter, 1, NumRows[r]))
    BY <1>3, <1>7 DEF Collected
  <2> QED
    BY <1>3, <2>1, WholeReport
<1> QED
  BY <1>1, <1>4, <1>12, <1>13, ShownIs

(* The filter box is edited. *)
LEMMA FilterKeeps ==
    ASSUME ViewInv, NEW pattern \in Filters, SetFilter(pattern)
    PROVE  /\ ViewInv' /\ m_report # NoReport /\ m_filter' = pattern
           /\ UNCHANGED <<m_report, sortOrder, m_sort, m_list, m_selectedIndex>>
<1>1. m_report # NoReport /\ m_filter' = pattern /\ m_filterer' = Started(m_report, pattern)
      /\ UNCHANGED <<viewSize, m_report, sortOrder, m_sort, m_list, m_contentWidth,
                     m_selectedIndex, told, crashed>>
  BY DEF SetFilter
<1>2. OpenOK /\ Len(m_list) \in Nat /\ m_report \in Reports
  BY <1>1, OpenWindow DEF OpenOK
<1>3. FiltererOK(Started(m_report, pattern), m_sort, m_report, pattern)
  BY <1>2, StartedOK
<1>4. scroll \in 0..ScrollMax(viewSize, m_list, m_contentWidth)
  BY <1>2 DEF OpenOK, Selected
<1>5. EnsureIndexVisible(viewSize, m_list, m_contentWidth, scroll, 1)
          \in 0..ScrollMax(viewSize, m_list, m_contentWidth)
  <2>1. PICK one \in Nat : one = 1
    OBVIOUS
  <2>2. EnsureIndexVisible(viewSize, m_list, m_contentWidth, scroll, one)
            \in 0..ScrollMax(viewSize, m_list, m_contentWidth)
    BY <1>2, <1>4, EnsuredFits DEF ViewInv
  <2> QED
    BY <2>1, <2>2
<1>6. scroll' \in 0..ScrollMax(viewSize, m_list, m_contentWidth)
  BY <1>4, <1>5 DEF SetFilter
<1>7. Selected(viewSize, m_sort, m_list, m_report, m_contentWidth, m_selectedIndex, scroll', told)
  BY <1>2, <1>6 DEF OpenOK, Selected
<1>8. OpenOK'
  BY <1>1, <1>2, <1>3, <1>7 DEF OpenOK
<1> QED
  BY <1>1, <1>8 DEF ViewInv

(* The window is closed. *)
LEMMA CloseKeeps ==
    ASSUME ViewInv, Close
    PROVE  /\ ViewInv' /\ m_report' # m_report /\ m_report' = NoReport
           /\ UNCHANGED <<m_filter, sortOrder>>
           /\ Shown' = << >>
<1>1. /\ m_report # NoReport /\ m_report' = NoReport
      /\ m_sort' = NoProxy /\ m_list' = << >> /\ m_filterer' = NoFilterer
      /\ m_selectedIndex' = 0 /\ scroll' = 0
      /\ UNCHANGED <<viewSize, m_filter, sortOrder>>
  BY DEF Close
<1>2. crashed' \in BOOLEAN
  BY DEF Close, Dangling
<1>3. ViewInv'
  BY <1>1, <1>2 DEF ViewInv, ClosedOK
<1>4. Shown' = << >>
  BY <1>1, ShownIs DEF ShownBy
<1> QED
  BY <1>1, <1>3, <1>4

(* What RowList speaks of. *)
Wanted == [filter |-> m_filter, order |-> sortOrder]

LEMMA ListVars ==
    /\ ListOf!avars = <<m_report, Wanted, Shown>>
    /\ ListOf!avars' = <<m_report', Wanted', Shown'>>
  BY DEF ListOf!avars, Wanted

ListSteps == ListOf!ANext \/ UNCHANGED ListOf!avars

(* Steps that leave the list and what the user wants alone. *)
LEMMA QuietStep ==
    ASSUME UNCHANGED <<m_report, m_filter, sortOrder, m_sort, m_list>>
    PROVE  ListSteps
<1>1. Shown' = Shown
  BY ShownIs
<1> QED
  BY <1>1, ListVars DEF Wanted, ListSteps

LEMMA QuietFollow ==
    ASSUME ViewInv, UNCHANGED <<m_report, m_sort, m_list, m_selectedIndex>>
    PROVE  Followed
<1>1. Shown' = Shown
  BY ShownIs
<1>2. m_selectedIndex # 0 => m_selectedIndex \in DOMAIN Shown
  <2> SUFFICES ASSUME m_selectedIndex # 0 PROVE m_selectedIndex \in DOMAIN Shown
    OBVIOUS
  <2>1. OpenOK
    BY DEF ViewInv, ClosedOK
  <2>2. m_selectedIndex \in 1..Len(m_list)
    BY <2>1 DEF OpenOK, Selected, ListFits
  <2> QED
    BY <2>2 DEF Shown
<1> QED
  BY <1>1, <1>2 DEF Followed

LEMMA UserStep ==
    ASSUME ViewInv, NEW index, NEW force, Select(index, force)
    PROVE  Followed /\ ListSteps
<1>1. UNCHANGED <<m_report, m_filter, sortOrder, m_sort, m_list, m_filterer>>
  BY DEF Select
<1>2. Followed
  BY <1>1 DEF Followed
<1> QED
  BY <1>1, <1>2, QuietStep

(* Every step preserves the invariant, takes the selection along and is a  *)
(* step of RowList, or none.                                               *)
LEMMA Step ==
    ASSUME ViewInv, [Next]_vars
    PROVE  ViewInv' /\ Followed /\ ListSteps
<1>1. ASSUME NEW r \in Reports, SetTableReport(r)
      PROVE  ViewInv' /\ Followed /\ ListSteps
  <2>1. ViewInv' /\ m_report' # m_report /\ Shown' = [i \in 1..NumRows[r] |-> i]
    BY <1>1, OpenKeeps
  <2>2. m_report = NoReport /\ m_report' = r /\ Wanted' \in [filter : Filters, order : {"none"}]
    BY <1>1, ViewAssumption DEF SetTableReport, Wanted, ViewAssumption
  <2>3. ListOf!AOpen(r)
    BY <2>1, <2>2 DEF ListOf!AOpen, Wanted
  <2> QED
    BY <2>1, <2>3 DEF Followed, ListSteps, ListOf!ANext
<1>2. ASSUME FilterTextChanged
      PROVE  ViewInv' /\ Followed /\ ListSteps
  <2>1. PICK pattern \in Filters : SetFilter(pattern)
    BY <1>2 DEF FilterTextChanged
  <2>2. /\ ViewInv' /\ m_report # NoReport /\ m_filter' = pattern
        /\ UNCHANGED <<m_report, sortOrder, m_sort, m_list, m_selectedIndex>>
    BY <2>1, FilterKeeps
  <2>3. Shown' = Shown
    BY <2>2, ShownIs
  <2>4. Wanted' = [Wanted EXCEPT !.filter = pattern]
    BY <2>2 DEF Wanted
  <2>5. ListOf!ASetFilter(pattern)
    BY <2>2, <2>3, <2>4 DEF ListOf!ASetFilter, Wanted
  <2>6. Followed
    BY <2>2, QuietFollow
  <2> QED
    BY <2>2, <2>5, <2>6 DEF ListSteps, ListOf!ANext
<1>3. ASSUME NEW order \in SortOrders, SortIndicatorChanged(order)
      PROVE  ViewInv' /\ Followed /\ ListSteps
  <2>1. /\ ViewInv' /\ Followed
        /\ m_report # NoReport /\ order # sortOrder /\ sortOrder' = order
        /\ UNCHANGED <<m_report, m_filter>>
        /\ Shown' = ListOf!Listing(m_report, [filter |-> m_filter, order |-> order])
    BY <1>3, SortKeeps
  <2>2. /\ Wanted.order = sortOrder
        /\ Wanted' = [Wanted EXCEPT !.order = order]
        /\ Wanted' = [filter |-> m_filter, order |-> order]
    BY <2>1 DEF Wanted
  <2>3. Shown' = ListOf!Listing(m_report, Wanted')
    BY <2>1, <2>2
  <2>4. ListOf!ASetOrder(order)
    BY <2>1, <2>2, <2>3 DEF ListOf!ASetOrder, Wanted
  <2>5. order \in ListOf!Orders
    BY DEF ListOf!Orders, SortOrders
  <2> QED
    BY <2>1, <2>4, <2>5 DEF ListSteps, ListOf!ANext
<1>4. ASSUME EventFilter
      PROVE  ViewInv' /\ Followed /\ ListSteps
  <2>1. PICK key \in {"Up", "Down", "PageUp", "PageDown", "Home", "End"} : KeyPressEvent(key)
    BY <1>4 DEF EventFilter
  <2>2. ViewInv' /\ \E index \in 1..Len(m_list) : Select(index, TRUE)
    BY <2>1, KeyKeeps
  <2>3. PICK index, force : Select(index, force)
    BY <2>2
  <2> QED
    BY <2>2, <2>3, UserStep
<1>5. ASSUME NEW y \in 0..(viewSize.height - 1),
             MousePressEvent(y) \/ MouseMoveEvent(y) \/ MouseDoubleClickEvent(y)
      PROVE  ViewInv' /\ Followed /\ ListSteps
  <2>1. ViewInv' /\ \E index \in 1..Len(m_list), force \in BOOLEAN : Select(index, force)
    BY <1>5, MouseKeeps
  <2>2. PICK index, force : Select(index, force)
    BY <2>1
  <2> QED
    BY <2>1, <2>2, UserStep
<1>6. ASSUME NEW delta \in {-1, 1}, Scroll(delta)
      PROVE  ViewInv' /\ Followed /\ ListSteps
  <2>1. UNCHANGED <<m_report, m_filter, sortOrder, m_sort, m_list, m_filterer>>
    BY <1>6 DEF Scroll
  <2>2. Followed
    BY <2>1 DEF Followed
  <2>3. ViewInv'
    BY <1>6, ScrollKeeps
  <2> QED
    BY <2>1, <2>2, <2>3, QuietStep
<1>7. ASSUME NEW size \in ViewSizes, Resize(size)
      PROVE  ViewInv' /\ Followed /\ ListSteps
  <2>1. ViewInv' /\ UNCHANGED <<m_report, m_filter, sortOrder, m_sort, m_list, m_filterer>>
    BY <1>7, ResizeKeeps
  <2>2. Followed
    BY <2>1 DEF Followed
  <2> QED
    BY <2>1, <2>2, QuietStep
<1>8. ASSUME NEW w \in Workers, TakeBatch(w) \/ EndBatch(w)
      PROVE  ViewInv' /\ Followed /\ ListSteps
  <2>1. ViewInv'
    BY <1>8, TakeKeeps, EndKeeps
  <2>2. UNCHANGED <<m_report, m_filter, sortOrder, m_sort, m_list, m_selectedIndex>>
    BY <1>8 DEF TakeBatch, EndBatch
  <2> QED
    BY <2>1, <2>2, QuietStep, QuietFollow
<1>9. ASSUME FilterFinished
      PROVE  ViewInv' /\ Followed /\ ListSteps
  <2>1. /\ ViewInv' /\ Followed
        /\ m_report # NoReport /\ UNCHANGED <<m_report, m_filter, sortOrder>>
        /\ Shown' = ListOf!Listing(m_report, [filter |-> m_filter, order |-> sortOrder])
    BY <1>9, FinishKeeps
  <2>2. Wanted' = Wanted /\ Shown' = ListOf!Listing(m_report, Wanted)
    BY <2>1 DEF Wanted
  <2>3. CASE Shown' = Shown
    BY <2>1, <2>2, <2>3, ListVars DEF ListSteps
  <2>4. CASE Shown' # Shown
    <3>1. ListOf!AShow
      BY <2>1, <2>2, <2>4 DEF ListOf!AShow, Wanted
    <3> QED
      BY <2>1, <3>1 DEF ListSteps, ListOf!ANext
  <2> QED
    BY <2>3, <2>4
<1>10. ASSUME Close
      PROVE  ViewInv' /\ Followed /\ ListSteps
  <2>1. /\ ViewInv' /\ m_report' # m_report /\ m_report' = NoReport
        /\ UNCHANGED <<m_filter, sortOrder>>
        /\ Shown' = << >>
    BY <1>10, CloseKeeps
  <2>2. ListOf!AClose
    BY <2>1 DEF ListOf!AClose
  <2> QED
    BY <2>1, <2>2 DEF Followed, ListSteps, ListOf!ANext
<1>11. ASSUME UNCHANGED vars
       PROVE  ViewInv' /\ Followed /\ ListSteps
  <2>1. UNCHANGED <<viewSize, m_report, m_filter, sortOrder, m_sort, m_list, m_contentWidth,
                    m_selectedIndex, scroll, m_filterer, told, crashed>>
    BY <1>11 DEF vars
  <2>2. ViewInv'
    BY <2>1 DEF ViewInv, OpenOK, ClosedOK
  <2> QED
    BY <2>1, <2>2, QuietStep, QuietFollow
<1> QED
  BY <1>1, <1>2, <1>3, <1>4, <1>5, <1>6, <1>7, <1>8, <1>9, <1>10, <1>11 DEF Next, BackgroundStep

LEMMA Initially == ASSUME Init PROVE ViewInv /\ ListOf!AInit
<1>1. ViewInv
  BY ViewAssumption DEF Init, ViewInv, ClosedOK, SortOrders, ViewAssumption
<1>2. Shown = << >>
  BY ShownIs DEF Init, ShownBy
<1>3. Wanted \in [filter : Filters, order : ListOf!Orders]
  BY ViewAssumption DEF Init, Wanted, ListOf!Orders, ViewAssumption
<1> QED
  BY <1>1, <1>2, <1>3 DEF Init, ListOf!AInit, Wanted

LEMMA Invariant == Spec => []ViewInv
<1>1. Init => ViewInv
  BY Initially
<1>2. ViewInv /\ [Next]_vars => ViewInv'
  BY Step
<1> QED
  BY <1>1, <1>2, PTL DEF Spec

(* SelectionNavigates: the list, the selection and the scroll bar fit      *)
(* together, and the row that the report was told of last is the one that  *)
(* is selected (setSelectedIndex), whatever replaced the list since.       *)
THEOREM TableSelectionNavigates == Spec => []SelectionNavigates
<1>1. ASSUME ViewInv PROVE SelectionNavigates
  <2>1. CASE OpenOK
    <3>1. /\ m_list \in Seq(Nat) /\ Len(m_list) \in Nat
          /\ \A i \in 1..Len(m_list) : m_list[i] \in 1..NumRows[m_report]
          /\ \A i, j \in 1..Len(m_list) : i < j => m_list[i] < m_list[j]
      BY <2>1 DEF OpenOK, ListFits
    <3>2. \A i \in 1..(Len(m_list) - 1) : m_list[i] < m_list[i + 1]
      <4> SUFFICES ASSUME NEW i \in 1..(Len(m_list) - 1) PROVE m_list[i] < m_list[i + 1]
        OBVIOUS
      <4>1. i \in 1..Len(m_list) /\ i + 1 \in 1..Len(m_list) /\ i < i + 1
        BY <3>1
      <4> QED
        BY <3>1, <4>1
    <3>3. /\ m_selectedIndex \in 0..Len(m_list)
          /\ scroll \in 0..most(0, Len(m_list) - page)
          /\ m_selectedIndex # 0 =>
                 told = MapToTableReport(m_sort, m_list, m_report, m_selectedIndex)
      BY <2>1 DEF OpenOK, Selected, ScrollMax, page
    <3>4. TypeOK
      <4>1. m_report \in Reports /\ m_report # NoReport
        BY <2>1, ViewAssumption DEF OpenOK, ViewAssumption
      <4> QED
        BY <1>1, <3>1, <3>2, <3>3, <4>1 DEF ViewInv, TypeOK
    <3>5. m_selectedIndex # 0 => told = Shown[m_selectedIndex]
      <4> SUFFICES ASSUME m_selectedIndex # 0 PROVE told = Shown[m_selectedIndex]
        OBVIOUS
      <4>1. m_selectedIndex \in 1..Len(m_list)
        BY <3>1, <3>3
      <4> QED
        BY <3>3, <4>1 DEF Shown
    <3> QED
      BY <3>4, <3>5 DEF SelectionNavigates
  <2>2. CASE ClosedOK
    <3>1. m_report = NoReport /\ m_list = << >> /\ m_selectedIndex = 0 /\ scroll = 0
      BY <2>2 DEF ClosedOK
    <3>2. page \in Nat
      BY <1>1, PageRange DEF page, ViewInv
    <3>3. Len(m_list) = 0 /\ scroll \in 0..most(0, Len(m_list) - page)
      BY <3>1, <3>2 DEF most
    <3>4. TypeOK
      BY <1>1, <3>1, <3>3 DEF ViewInv, TypeOK
    <3> QED
      BY <3>1, <3>4 DEF SelectionNavigates
  <2> QED
    BY <1>1, <2>1, <2>2 DEF ViewInv
<1> QED
  BY <1>1, Invariant, PTL

(* CrashHasCause: while the window is open no thread has used a proxy that *)
(* was deleted: the filterer goes before the proxies do.                   *)
THEOREM TableCrashHasCause == Spec => []CrashHasCause
<1>1. ASSUME ViewInv PROVE CrashHasCause
  BY <1>1 DEF ViewInv, OpenOK, ClosedOK, CrashHasCause
<1> QED
  BY <1>1, Invariant, PTL

(* SelectionFollows: whatever replaces the list, on a click of the header  *)
(* or when a filter ends, takes the selection to the same row and into     *)
(* view, and to no other row when that one is gone.                        *)
THEOREM TableSelectionFollows == Spec => SelectionFollows
<1>1. ViewInv /\ [Next]_vars => [Followed]_vars
  BY Step
<1>2. SelectionFollows <=> [][Followed]_vars
  BY PTL DEF SelectionFollows, Followed
<1> QED
  BY <1>1, <1>2, Invariant, PTL DEF Spec

(* The safety of RowList: batches and threads notwithstanding, the list    *)
(* only ever becomes the whole of what is wanted at the moment, in the     *)
(* order of the header; never a part of it, or a mixture.                  *)
THEOREM TableImplementsList ==
    Spec => ListOf!AInit /\ [][ListOf!ANext]_(ListOf!avars)
<1>1. Init => ListOf!AInit
  BY Initially
<1>2. ViewInv /\ [Next]_vars => [ListOf!ANext]_(ListOf!avars)
  BY Step DEF ListSteps
<1> QED
  BY <1>1, <1>2, Invariant, PTL DEF Spec
=============================================================================
