---------------------------- MODULE RowTableProofs ----------------------------
(***************************************************************************)
(* Proofs, for any base, any columns and values and any number of rows,    *)
(* that the bytes of a table are its rows in either direction              *)
(* (IteratesRows), that the binary search over those bytes brackets the    *)
(* place of the query (Brackets), and that a query reads exactly the rows  *)
(* it asks for (AnswerComplete).                                           *)
(*                                                                         *)
(* Going up: the digits of a value read back (VleReadsBack); a row's bytes *)
(* have no NUL but the last (RowBytes); row i is at Position[i] and ends   *)
(* before Position[i + 1] (Layout); hence where ++ and -- lead from any    *)
(* byte of a row (UpAndDown).  The search then is one over row numbers.    *)
(***************************************************************************)
EXTENDS RowTable, Integers, SequenceTheorems, WellFoundedInduction, TLAPS

-----------------------------------------------------------------------------
(* INDUCTION.  The theorems of the library take an operator as a           *)
(* parameter and cannot be used for a given set or function; these do.     *)

(* Every set of natural numbers that is not empty has a least member.      *)
LEMMA Least ==
    ASSUME NEW T \in SUBSET Nat, T # {}
    PROVE  \E n \in T : \A m \in T : n <= m
<1> DEFINE R == OpToRel(<, Nat)
<1>1. IsWellFoundedOn(R, Nat)
  BY NatLessThanWellFounded
<1>2. \A x, y \in Nat : y < x => <<y, x>> \in R
  BY DEF OpToRel
<1> HIDE DEF R
<1>3. PICK x \in T : \A y \in T : ~ (<<y, x>> \in R)
  BY <1>1, WFMin
<1>4. \A m \in T : ~(m < x)
  BY <1>2, <1>3
<1> QED
  BY <1>4

(* Induction over the natural numbers, for a set of them.                  *)
LEMMA Induct ==
    ASSUME NEW T \in SUBSET Nat, 0 \in T, \A n \in T : n + 1 \in T
    PROVE  T = Nat
<1> SUFFICES ASSUME Nat \ T # {} PROVE FALSE
  OBVIOUS
<1>1. PICK n \in Nat \ T : \A m \in Nat \ T : n <= m
  BY Least
<1>2. n # 0 /\ n - 1 \in Nat /\ n - 1 \in T
  BY <1>1
<1> QED
  BY <1>1, <1>2

(* A function that is defined at each i from its value at an earlier place *)
(* exists.  G[i] is the step at i, and `next` says from where. *)
GoesBack(next, n) == \A i \in 1..n : next[i] \in 0..(i - 1)

HasValues(n, V, base, next, G) ==
    \E f \in [0..n -> V] : f[0] = base /\ \A i \in 1..n : f[i] = G[i][f[next[i]]]

LEMMA Recursion ==
    ASSUME NEW n \in Nat, NEW V, NEW base \in V, NEW next, NEW G \in [1..n -> [V -> V]],
           GoesBack(next, n)
    PROVE  HasValues(n, V, base, next, G)
<1> USE DEF GoesBack
<1> DEFINE Upto(m) == \E f \in [0..m -> V] : f[0] = base
                          /\ \A i \in 1..m : f[i] = G[i][f[next[i]]]
           T == {m \in Nat : m <= n => Upto(m)}
<1>1. Upto(0)
  <2> DEFINE f == [i \in 0..0 |-> base]
  <2>1. f \in [0..0 -> V] /\ f[0] = base /\ \A i \in 1..0 : f[i] = G[i][f[next[i]]]
    OBVIOUS
  <2> QED
    BY <2>1
<1>2. ASSUME NEW m \in Nat, m + 1 <= n, Upto(m)
      PROVE  Upto(m + 1)
  <2>1. PICK f \in [0..m -> V] : f[0] = base /\ \A i \in 1..m : f[i] = G[i][f[next[i]]]
    BY <1>2
  <2>2. m + 1 \in 1..n /\ next[m + 1] \in 0..m
    BY <1>2
  <2>3. PICK v \in V : v = G[m + 1][f[next[m + 1]]]
    BY <2>2
  <2> DEFINE g == [i \in 0..(m + 1) |-> IF i = m + 1 THEN v ELSE f[i]]
  <2>4. g \in [0..(m + 1) -> V]
    BY <1>2
  <2>5. g[0] = base /\ \A i \in 0..m : g[i] = f[i]
    BY <1>2, <2>1
  <2>6. g[m + 1] = v
    BY <1>2
  <2> HIDE DEF g
  <2>7. ASSUME NEW i \in 1..(m + 1)
        PROVE  g[i] = G[i][g[next[i]]]
    <3>1. CASE i = m + 1
      BY <3>1, <2>2, <2>3, <2>5, <2>6
    <3>2. CASE i \in 1..m
      <4>1. next[i] \in 0..m /\ f[i] = G[i][f[next[i]]]
        BY <3>2, <1>2, <2>1
      <4> QED
        BY <3>2, <4>1, <2>5
    <3> QED
      BY <3>1, <3>2, <1>2
  <2> QED
    BY <2>4, <2>5, <2>7
<1> HIDE DEF Upto
<1>3. T = Nat
  <2>1. 0 \in T
    BY <1>1
  <2>2. \A m \in T : m + 1 \in T
    BY <1>2
  <2> HIDE DEF T
  <2>3. T \in SUBSET Nat
    BY DEF T
  <2> QED
    BY <2>1, <2>2, <2>3, Induct
<1>4. Upto(n)
  <2>1. n \in T
    BY <1>3
  <2> QED
    BY <2>1
<1> QED
  BY <1>4 DEF Upto, HasValues

(* The same for a function that is defined upwards, step by step.          *)
Climbs(n, V, base, G) ==
    \E f \in [1..n -> V] : f[1] = base /\ \A i \in 2..n : f[i] = G[i][f[i - 1]]

LEMMA Climbing ==
    ASSUME NEW n \in Nat \ {0}, NEW V, NEW base \in V, NEW G \in [2..n -> [V -> V]]
    PROVE  Climbs(n, V, base, G)
<1>1. PICK m \in Nat : m = n - 1
  OBVIOUS
<1>2. PICK next : next = [i \in 1..m |-> i - 1]
  OBVIOUS
<1>3. PICK H : H = [i \in 1..m |-> G[i + 1]]
  OBVIOUS
<1>4. H \in [1..m -> [V -> V]] /\ \A i \in 1..m : H[i] = G[i + 1]
  BY <1>1, <1>3
<1>5. GoesBack(next, m) /\ \A i \in 1..m : next[i] = i - 1
  BY <1>2 DEF GoesBack
<1>6. HasValues(m, V, base, next, H)
  BY <1>4, <1>5, Recursion
<1>7. PICK g \in [0..m -> V] : g[0] = base /\ \A i \in 1..m : g[i] = H[i][g[next[i]]]
  BY <1>6 DEF HasValues
<1>8. PICK f : f = [i \in 1..n |-> g[i - 1]]
  OBVIOUS
<1>9. f \in [1..n -> V] /\ \A i \in 1..n : f[i] = g[i - 1]
  BY <1>1, <1>8
<1>10. f[1] = base
  BY <1>7, <1>9
<1>11. ASSUME NEW i \in 2..n
       PROVE  f[i] = G[i][f[i - 1]]
  <2>1. PICK k \in 1..m : k = i - 1
    BY <1>1
  <2>2. g[k] = G[k + 1][g[k - 1]]
    BY <1>4, <1>5, <1>7
  <2>3. f[i] = g[k] /\ f[i - 1] = g[k - 1] /\ G[k + 1] = G[i]
    BY <1>9, <2>1
  <2> QED
    BY <2>2, <2>3
<1> QED
  BY <1>9, <1>10, <1>11 DEF Climbs

(* ... and for one that is defined downwards.                              *)
Descends(n, V, base, G) ==
    \E f \in [1..n -> V] : f[n] = base /\ \A i \in 1..(n - 1) : f[i] = G[i][f[i + 1]]

LEMMA Descending ==
    ASSUME NEW n \in Nat \ {0}, NEW V, NEW base \in V, NEW G \in [1..(n - 1) -> [V -> V]]
    PROVE  Descends(n, V, base, G)
<1>1. PICK H : H = [i \in 2..n |-> G[n + 1 - i]]
  OBVIOUS
<1>2. H \in [2..n -> [V -> V]] /\ \A i \in 2..n : H[i] = G[n + 1 - i]
  <2>1. \A i \in 2..n : n + 1 - i \in 1..(n - 1)
    OBVIOUS
  <2> QED
    BY <1>1, <2>1
<1>3. Climbs(n, V, base, H)
  BY <1>2, Climbing
<1>4. PICK g \in [1..n -> V] : g[1] = base /\ \A i \in 2..n : g[i] = H[i][g[i - 1]]
  BY <1>3 DEF Climbs
<1>5. PICK f : f = [i \in 1..n |-> g[n + 1 - i]]
  OBVIOUS
<1>6. f \in [1..n -> V] /\ \A i \in 1..n : f[i] = g[n + 1 - i]
  <2>1. \A i \in 1..n : n + 1 - i \in 1..n
    OBVIOUS
  <2> QED
    BY <1>5, <2>1
<1>7. f[n] = base
  <2>1. n \in 1..n /\ n + 1 - n = 1
    OBVIOUS
  <2> QED
    BY <1>4, <1>6, <2>1
<1>8. ASSUME NEW i \in 1..(n - 1)
      PROVE  f[i] = G[i][f[i + 1]]
  <2>1. PICK k \in 2..n : k = n + 1 - i
    OBVIOUS
  <2>2. g[k] = G[n + 1 - k][g[k - 1]]
    BY <1>2, <1>4
  <2>3. n + 1 - k = i /\ n + 1 - (i + 1) = k - 1
    BY <2>1
  <2>4. f[i] = g[k] /\ f[i + 1] = g[k - 1]
    BY <1>6, <2>1, <2>3
  <2> QED
    BY <2>2, <2>3, <2>4
<1> QED
  BY <1>6, <1>7, <1>8 DEF Descends

-----------------------------------------------------------------------------
(* THE DIGITS OF A VALUE. *)
Byte == 0..(2 * Base - 1)
Digit == 1..(2 * Base - 1)

LEMMA Division ==
    ASSUME NEW n \in Nat, n >= Base
    PROVE  /\ n \div Base \in 1..(n - 1)
           /\ n % Base \in 0..(Base - 1)
           /\ n = Base * (n \div Base) + (n % Base)
<1>1. PICK b \in Nat : b = Base /\ b >= 2
  BY RowAssumption DEF RowAssumption
<1>2. PICK q \in Int, r \in Int : q = n \div b /\ r = n % b
  BY <1>1
<1>3. n = b * q + r /\ r \in 0..(b - 1)
  BY <1>1, <1>2
<1>4. q >= 1
  <2>1. SUFFICES ASSUME q <= 0 PROVE FALSE
    OBVIOUS
  <2>2. b * q <= 0
    BY <1>1, <2>1
  <2> QED
    BY <1>1, <1>3, <2>2
<1>5. q < n
  <2>1. b * q >= 2 * q
    BY <1>1, <1>4
  <2> QED
    BY <1>3, <1>4, <2>1
<1>6. q \in 1..(n - 1)
  BY <1>4, <1>5
<1>7. q = n \div Base /\ r = n % Base /\ b = Base
  BY <1>1, <1>2
<1>8. n \div Base \in 1..(n - 1)
  BY <1>6, <1>7
<1>9. n % Base \in 0..(Base - 1)
  BY <1>3, <1>7
<1>10. n = Base * (n \div Base) + (n % Base)
  BY <1>3, <1>7
<1> QED
  BY <1>8, <1>9, <1>10

LEMMA WriteVleIs ==
    \A n \in 0..(MaxValue + 1) :
        WriteVle[n] = IF n < Base THEN <<n>>
                      ELSE <<Base + (n % Base)>> \o WriteVle[n \div Base]
<1>1. PICK m \in Nat : m = MaxValue + 1
  BY RowAssumption DEF RowAssumption
<1> DEFINE IsWrite(f) == f = [n \in 0..m |-> IF n < Base THEN <<n>>
                                        ELSE <<Base + (n % Base)>> \o f[n \div Base]]
           Write == CHOOSE f : IsWrite(f)
<1>2. \E f : IsWrite(f)
  <2>1. PICK V : V = Seq(Byte)
    OBVIOUS
  <2>2. Base \in Nat /\ Base >= 2
    BY RowAssumption DEF RowAssumption
  <2>3. PICK base \in V : base = <<0>>
    <3>1. 0 \in Byte
      BY <2>2 DEF Byte
    <3>2. <<0>> \in Seq(Byte)
      BY <3>1
    <3> QED
      BY <2>1, <3>2
  <2>4. PICK G : G = [i \in 1..m |-> [v \in V |-> IF i < Base THEN <<i>>
                                              ELSE <<Base + (i % Base)>> \o v]]
    OBVIOUS
  <2>5. G \in [1..m -> [V -> V]]
    <3> SUFFICES ASSUME NEW i \in 1..m, NEW v \in V
                 PROVE  (IF i < Base THEN <<i>> ELSE <<Base + (i % Base)>> \o v) \in V
      BY <2>4
    <3>1. CASE i < Base
      <4>1. i \in Byte
        BY <2>2, <3>1 DEF Byte
      <4> QED
        BY <2>1, <3>1, <4>1
    <3>2. CASE ~(i < Base)
      <4>1. Base + (i % Base) \in Byte
        <5>1. i \in Nat /\ i >= Base
          BY <2>2, <3>2
        <5> QED
          BY <2>2, <5>1, Division DEF Byte
      <4> QED
        BY <2>1, <3>2, <4>1
    <3> QED
      BY <3>1, <3>2
  <2>6. \A i \in 1..m, v \in V : G[i][v] = IF i < Base THEN <<i>>
                                        ELSE <<Base + (i % Base)>> \o v
    BY <2>4
  <2>7. PICK next : next = [i \in 1..m |-> IF i < Base THEN 0 ELSE i \div Base]
    OBVIOUS
  <2>8. GoesBack(next, m)
    <3> SUFFICES ASSUME NEW i \in 1..m PROVE next[i] \in 0..(i - 1)
      BY DEF GoesBack
    <3>1. CASE i < Base
      BY <2>7, <3>1
    <3>2. CASE i >= Base
      <4>1. i \in Nat /\ i >= Base
        BY <2>2, <3>2
      <4>2. i \div Base \in 1..(i - 1)
        BY <4>1, Division
      <4>3. next[i] = i \div Base
        BY <2>2, <2>7, <3>2
      <4> QED
        BY <4>2, <4>3
    <3> QED
      BY <2>2, <3>1, <3>2
  <2>9. HasValues(m, V, base, next, G)
    BY <2>5, <2>8, Recursion
  <2>10. PICK f \in [0..m -> V] : f[0] = base /\ \A i \in 1..m : f[i] = G[i][f[next[i]]]
    BY <2>9 DEF HasValues
  <2>11. ASSUME NEW n \in 0..m
         PROVE  f[n] = IF n < Base THEN <<n>> ELSE <<Base + (n % Base)>> \o f[n \div Base]
    <3>1. CASE n = 0
      BY <2>2, <2>3, <2>10, <3>1
    <3>2. CASE n \in 1..m
      <4>1. next[n] \in 0..m
        BY <2>8, <3>2 DEF GoesBack
      <4>2. PICK v \in V : v = f[next[n]]
        BY <4>1
      <4>3. f[n] = IF n < Base THEN <<n>> ELSE <<Base + (n % Base)>> \o v
        BY <2>6, <2>10, <3>2, <4>2
      <4>4. ~(n < Base) => v = f[n \div Base]
        BY <2>7, <3>2, <4>2
      <4> QED
        BY <4>3, <4>4
    <3> QED
      BY <3>1, <3>2
  <2> QED
    BY <2>11
<1>3. IsWrite(Write)
  BY <1>2
<1>4. WriteVle = Write
  BY <1>1 DEF WriteVle
<1> HIDE DEF Write
<1> QED
  BY <1>1, <1>3, <1>4

(* Every digit but the last has the mark that another follows; none is NUL. *)
Digits(s) ==
    /\ s \in Seq(Digit)
    /\ Len(s) >= 1
    /\ s[Len(s)] < Base
    /\ \A j \in 1..(Len(s) - 1) : s[j] >= Base

LEMMA VleDigits == \A n \in 1..(MaxValue + 1) : Digits(WriteVle[n])
<1>1. PICK m \in Nat : m = MaxValue + 1
  BY RowAssumption DEF RowAssumption
<1>2. PICK b \in Nat : b = Base /\ b >= 2
  BY RowAssumption DEF RowAssumption
<1> DEFINE T == {k \in Nat : \A n \in 1..k : n <= m => Digits(WriteVle[n])}
<1>3. 0 \in T
  OBVIOUS
<1>4. ASSUME NEW k \in T PROVE k + 1 \in T
  <2>1. k \in Nat /\ \A n \in 1..k : n <= m => Digits(WriteVle[n])
    OBVIOUS
  <2>2. SUFFICES ASSUME k + 1 <= m PROVE Digits(WriteVle[k + 1])
    BY <2>1
  <2>3. PICK n \in 1..m : n = k + 1
    BY <2>1, <2>2
  <2>4. PICK w : w = WriteVle[n]
    OBVIOUS
  <2>20. WriteVle[n] = IF n < Base THEN <<n>> ELSE <<Base + (n % Base)>> \o WriteVle[n \div Base]
    <3>1. n \in 0..(MaxValue + 1)
      BY <1>1
    <3> QED
      BY <3>1, WriteVleIs
  <2>5. CASE n < b
    <3>1. w = <<n>>
      BY <1>2, <2>4, <2>5, <2>20
    <3>2. n \in Digit
      BY <1>2, <2>5 DEF Digit
    <3> QED
      BY <1>2, <2>3, <2>4, <2>5, <3>1, <3>2 DEF Digits
  <2>6. CASE n >= b
    <3>1. PICK q \in 1..(n - 1), r \in 0..(b - 1) : q = n \div b /\ r = n % b
      <4>1. n \in Nat /\ n >= Base
        BY <1>2, <2>6
      <4>2. n \div Base \in 1..(n - 1) /\ n % Base \in 0..(Base - 1)
        BY <4>1, Division
      <4> QED
        BY <1>2, <4>2
    <3>2. PICK s \in Seq(Digit) : s = WriteVle[q] /\ Digits(s)
      <4>1. q \in 1..k /\ q <= m
        BY <1>1, <2>1, <2>3, <3>1
      <4>2. Digits(WriteVle[q])
        BY <2>1, <4>1
      <4> QED
        BY <4>2 DEF Digits
    <3>3. PICK d \in Digit : d = b + r
      <4>1. b + r \in 1..(2 * b - 1)
        BY <1>2, <3>1
      <4> QED
        BY <1>2, <4>1 DEF Digit
    <3>4. w = <<d>> \o s
      <4>1. ~(n < Base) /\ n % Base = r /\ n \div Base = q
        BY <1>2, <2>6, <3>1
      <4>2. w = <<Base + r>> \o WriteVle[q]
        BY <2>4, <2>20, <4>1
      <4> QED
        BY <1>2, <3>2, <3>3, <4>2
    <3>5. PICK l \in Nat : l = Len(s) /\ l >= 1
      BY <3>2 DEF Digits
    <3>6. w \in Seq(Digit) /\ Len(w) = l + 1 /\ w[1] = d /\ \A j \in 2..(l + 1) : w[j] = s[j - 1]
      BY <3>4, <3>5
    <3>7. w[l + 1] < Base
      <4>1. w[l + 1] = s[l]
        BY <3>5, <3>6
      <4> QED
        BY <3>2, <3>5, <4>1 DEF Digits
    <3>8. ASSUME NEW j \in 1..l PROVE w[j] >= Base
      <4>1. CASE j = 1
        BY <1>2, <3>1, <3>3, <3>6, <4>1
      <4>2. CASE j \in 2..l
        <5>1. j - 1 \in 1..(l - 1) /\ w[j] = s[j - 1]
          BY <3>6, <4>2
        <5> QED
          BY <3>2, <3>5, <5>1 DEF Digits
      <4> QED
        BY <4>1, <4>2
    <3> QED
      BY <2>3, <2>4, <3>5, <3>6, <3>7, <3>8 DEF Digits
  <2> QED
    BY <1>2, <2>5, <2>6
<1>5. m \in T
  <2> HIDE DEF T
  <2>1. T \in SUBSET Nat
    BY DEF T
  <2> QED
    BY <1>1, <1>3, <1>4, <2>1, Induct
<1> QED
  BY <1>1, <1>5
-----------------------------------------------------------------------------
(* READING A VALUE BACK. *)
(* The bytes s are in the buffer from p on. *)
At(p, s) == \A j \in 1..Len(s) : p + j - 1 \in DOMAIN buffer /\ buffer[p + j - 1] = s[j]

BufferOK ==
    /\ buffer \in Seq(Byte)
    /\ Len(buffer) >= 1
    /\ buffer[Len(buffer)] = NUL

LEMMA ReadVleIs ==
    ASSUME BufferOK, NEW p \in 1..Len(buffer)
    PROVE  ReadVle(p) = IF buffer[p] < Base
                        THEN [value |-> buffer[p], next |-> p + 1]
                        ELSE [value |-> buffer[p] - Base + Base * ReadVle(p + 1).value,
                              next |-> ReadVle(p + 1).next]
<1>1. Base \in Nat /\ Base >= 2
  BY RowAssumption DEF RowAssumption
<1>2. PICK l \in Nat \ {0} : l = Len(buffer)
  BY DEF BufferOK
<1>3. buffer[l] = 0 /\ \A i \in 1..l : buffer[i] \in Nat
  BY <1>1, <1>2 DEF BufferOK, NUL, Byte
<1> DEFINE IsRead(f) ==
               f = [i \in 1..Len(buffer) |->
                        IF buffer[i] < Base
                        THEN [value |-> buffer[i], next |-> i + 1]
                        ELSE [value |-> buffer[i] - Base + Base * f[i + 1].value,
                              next |-> f[i + 1].next]]
           Read == CHOOSE f : IsRead(f)
<1>4. \E f : IsRead(f)
  <2>1. PICK V : V = [value : Nat, next : Nat]
    OBVIOUS
  <2>2. PICK base \in V : base = [value |-> 0, next |-> l + 1]
    <3>1. [value |-> 0, next |-> l + 1] \in V
      BY <2>1
    <3> QED
      BY <3>1
  <2>3. PICK G : G = [i \in 1..(l - 1) |-> [v \in V |->
                        IF buffer[i] < Base
                        THEN [value |-> buffer[i], next |-> i + 1]
                        ELSE [value |-> buffer[i] - Base + Base * v.value, next |-> v.next]]]
    OBVIOUS
  <2>4. G \in [1..(l - 1) -> [V -> V]]
    <3> SUFFICES ASSUME NEW i \in 1..(l - 1), NEW v \in V
                 PROVE  (IF buffer[i] < Base
                         THEN [value |-> buffer[i], next |-> i + 1]
                         ELSE [value |-> buffer[i] - Base + Base * v.value, next |-> v.next])
                        \in V
      BY <2>3
    <3>1. PICK y \in Nat : y = buffer[i]
      BY <1>3
    <3>2. PICK a \in Nat : a = v.value /\ v.next \in Nat
      BY <2>1
    <3>3. ~(y < Base) => y - Base + Base * a \in Nat
      <4>1. Base * a \in Nat
        BY <1>1
      <4> QED
        BY <1>1, <4>1
    <3> QED
      BY <2>1, <3>1, <3>2, <3>3
  <2>5. \A i \in 1..(l - 1), v \in V :
            G[i][v] = IF buffer[i] < Base
                      THEN [value |-> buffer[i], next |-> i + 1]
                      ELSE [value |-> buffer[i] - Base + Base * v.value, next |-> v.next]
    BY <2>3
  <2>6. Descends(l, V, base, G)
    BY <2>4, Descending
  <2>7. PICK f \in [1..l -> V] : f[l] = base /\ \A i \in 1..(l - 1) : f[i] = G[i][f[i + 1]]
    BY <2>6 DEF Descends
  <2>8. ASSUME NEW i \in 1..l
        PROVE  f[i] = IF buffer[i] < Base
                      THEN [value |-> buffer[i], next |-> i + 1]
                      ELSE [value |-> buffer[i] - Base + Base * f[i + 1].value,
                            next |-> f[i + 1].next]
    <3>1. CASE i = l
      BY <1>1, <1>3, <2>2, <2>7, <3>1
    <3>2. CASE i \in 1..(l - 1)
      <4>1. PICK v \in V : v = f[i + 1]
        BY <2>7, <3>2
      <4> QED
        BY <2>5, <2>7, <3>2, <4>1
    <3> QED
      BY <3>1, <3>2
  <2> QED
    BY <1>2, <2>7, <2>8
<1>5. IsRead(Read)
  BY <1>4
<1>6. ReadVle(p) = Read[p] /\ ReadVle(p + 1) = Read[p + 1]
  BY DEF ReadVle
<1> HIDE DEF Read
<1> QED
  BY <1>5, <1>6

LEMMA VleReadsBack ==
    ASSUME BufferOK
    PROVE  \A n \in 1..(MaxValue + 1), p \in Nat \ {0} :
               At(p, WriteVle[n]) =>
                   ReadVle(p).value = n /\ ReadVle(p).next = p + Len(WriteVle[n])
<1>1. PICK m \in Nat : m = MaxValue + 1
  BY RowAssumption DEF RowAssumption
<1>2. PICK b \in Nat : b = Base /\ b >= 2
  BY RowAssumption DEF RowAssumption
<1> DEFINE Back(n) == \A p \in Nat \ {0} :
                          At(p, WriteVle[n]) =>
                              /\ ReadVle(p).value = n
                              /\ ReadVle(p).next = p + Len(WriteVle[n])
           T == {k \in Nat : \A n \in 1..k : n <= m => Back(n)}
<1>3. ASSUME NEW n \in 1..m, \A q \in 1..(n - 1) : Back(q)
      PROVE  Back(n)
  <2> SUFFICES ASSUME NEW p \in Nat \ {0}, At(p, WriteVle[n])
               PROVE  ReadVle(p).value = n /\ ReadVle(p).next = p + Len(WriteVle[n])
    OBVIOUS
  <2>1. WriteVle[n] = IF n < Base THEN <<n>> ELSE <<Base + (n % Base)>> \o WriteVle[n \div Base]
    <3>1. n \in 0..(MaxValue + 1)
      BY <1>1
    <3> QED
      BY <3>1, WriteVleIs
  <2>2. PICK w : w = WriteVle[n] /\ At(p, w)
    OBVIOUS
  <2>3. CASE n < b
    <3>1. w = <<n>>
      BY <1>2, <2>1, <2>2, <2>3
    <3>2. Len(w) = 1 /\ w[1] = n
      BY <3>1
    <3>3. p \in 1..Len(buffer) /\ buffer[p] = n
      BY <2>2, <3>2 DEF At, BufferOK
    <3>4. ReadVle(p) = [value |-> n, next |-> p + 1]
      BY <1>2, <2>3, <3>3, ReadVleIs
    <3> QED
      BY <2>2, <3>2, <3>4
  <2>4. CASE n >= b
    <3>1. n \in Nat /\ n >= Base
      BY <1>2, <2>4
    <3>2. PICK q \in 1..(n - 1), r \in 0..(b - 1) :
              q = n \div Base /\ r = n % Base /\ n = b * q + r
      BY <1>2, <3>1, Division
    <3>3. Digits(WriteVle[q])
      <4>1. q \in 1..(MaxValue + 1)
        BY <1>1, <3>2
      <4> QED
        BY <4>1, VleDigits
    <3>4. PICK s \in Seq(Digit) : s = WriteVle[q]
      BY <3>3 DEF Digits
    <3>5. w = <<b + r>> \o s
      <4>1. ~(n < Base)
        BY <1>2, <2>4
      <4> QED
        BY <1>2, <2>1, <2>2, <3>2, <3>4, <4>1
    <3>6. PICK l \in Nat : l = Len(s)
      BY <3>4
    <3>7. Len(w) = l + 1 /\ w[1] = b + r /\ \A j \in 1..l : w[j + 1] = s[j]
      BY <3>5, <3>6
    <3>8. p \in 1..Len(buffer) /\ buffer[p] = b + r
      <4>1. 1 \in 1..Len(w)
        BY <3>7
      <4>2. p + 1 - 1 \in DOMAIN buffer /\ buffer[p + 1 - 1] = w[1]
        BY <2>2, <4>1 DEF At
      <4> QED
        BY <3>7, <4>2 DEF BufferOK
    <3>9. At(p + 1, s)
      <4> SUFFICES ASSUME NEW j \in 1..l
                   PROVE  (p + 1) + j - 1 \in DOMAIN buffer /\ buffer[(p + 1) + j - 1] = s[j]
        BY <3>6 DEF At
      <4>1. j + 1 \in 1..Len(w)
        BY <3>7
      <4>2. p + (j + 1) - 1 \in DOMAIN buffer /\ buffer[p + (j + 1) - 1] = w[j + 1]
        BY <2>2, <4>1 DEF At
      <4>3. p + (j + 1) - 1 = (p + 1) + j - 1
        OBVIOUS
      <4> QED
        BY <3>7, <4>2, <4>3
    <3>10. ReadVle(p + 1).value = q /\ ReadVle(p + 1).next = p + 1 + l
      <4>1. Back(q)
        BY <1>3
      <4>2. p + 1 \in Nat \ {0} /\ At(p + 1, WriteVle[q])
        BY <3>4, <3>9
      <4> QED
        BY <3>4, <3>6, <4>1, <4>2
    <3>11. ReadVle(p) = [value |-> buffer[p] - Base + Base * ReadVle(p + 1).value,
                         next |-> ReadVle(p + 1).next]
      <4>1. ~(buffer[p] < Base)
        BY <1>2, <3>8
      <4> QED
        BY <3>8, <4>1, ReadVleIs
    <3>12. ReadVle(p) = [value |-> (b + r) - b + b * q, next |-> p + 1 + l]
      BY <1>2, <3>8, <3>10, <3>11
    <3>13. (b + r) - b + b * q = n
      BY <3>2
    <3> QED
      BY <2>2, <3>7, <3>12, <3>13
  <2> QED
    BY <1>2, <2>3, <2>4
<1> HIDE DEF Back
<1>4. 0 \in T
  OBVIOUS
<1>5. ASSUME NEW k \in T PROVE k + 1 \in T
  <2>1. k \in Nat /\ \A n \in 1..k : n <= m => Back(n)
    OBVIOUS
  <2>2. SUFFICES ASSUME k + 1 <= m PROVE Back(k + 1)
    BY <2>1
  <2>3. PICK n \in 1..m : n = k + 1
    BY <2>1, <2>2
  <2>4. \A q \in 1..(n - 1) : Back(q)
    BY <2>1, <2>3
  <2> QED
    BY <1>3, <2>3, <2>4
<1>6. m \in T
  <2> HIDE DEF T
  <2>1. T \in SUBSET Nat
    BY DEF T
  <2> QED
    BY <1>1, <1>4, <1>5, <2>1, Induct
<1> QED
  BY <1>1, <1>6 DEF Back
-----------------------------------------------------------------------------
(* SEQUENCES ONE AFTER THE OTHER. *)
(* off[i] is how much of `flat` is before the i-th of n sequences. *)
Offsets(off, n, seqs, flat) ==
    /\ off \in [1..(n + 1) -> Nat]
    /\ off[1] = 0
    /\ off[n + 1] = Len(flat)
    /\ \A i \in 1..n : off[i + 1] = off[i] + Len(seqs[i])
    /\ \A i \in 1..n : \A j \in 1..Len(seqs[i]) :
           off[i] + j \in 1..Len(flat) /\ flat[off[i] + j] = seqs[i][j]

HasOffsets(n, seqs, flat) == \E off : Offsets(off, n, seqs, flat)

LEMMA Concatenation ==
    ASSUME NEW S, NEW s \in Seq(S), NEW t \in Seq(S), NEW u, u = s \o t
    PROVE  /\ u \in Seq(S)
           /\ Len(u) = Len(s) + Len(t)
           /\ \A j \in 1..Len(s) : u[j] = s[j]
           /\ \A j \in 1..Len(t) : u[Len(s) + j] = t[j]
<1>1. PICK l \in Nat, m \in Nat : l = Len(s) /\ m = Len(t)
  OBVIOUS
<1>2. u \in Seq(S) /\ Len(u) = l + m
  BY <1>1
<1>3. \A j \in 1..l : u[j] = s[j]
  BY <1>1
<1>4. \A j \in 1..m : u[l + j] = t[j]
  BY <1>1
<1> QED
  BY <1>1, <1>2, <1>3, <1>4

LEMMA Flattening ==
    ASSUME NEW S, NEW n \in Nat, NEW seqs \in [1..n -> Seq(S)]
    PROVE  FlattenSeq(seqs) \in Seq(S) /\ HasOffsets(n, seqs, FlattenSeq(seqs))
<1>1. seqs \in Seq(Seq(S)) /\ Len(seqs) = n
  OBVIOUS
<1>2. PICK flat : flat = FlattenSeq(seqs)
  OBVIOUS
<1>3. CASE n = 0
  <2>1. flat = seqs /\ seqs = << >>
    BY <1>1, <1>2, <1>3 DEF FlattenSeq
  <2>2. flat \in Seq(S) /\ Len(flat) = 0
    BY <2>1
  <2>3. PICK off : off = [i \in 1..(n + 1) |-> 0]
    OBVIOUS
  <2>4. Offsets(off, n, seqs, flat)
    BY <1>3, <2>2, <2>3 DEF Offsets
  <2> QED
    BY <1>2, <2>2, <2>4 DEF HasOffsets
<1>4. CASE n # 0
  <2> DEFINE IsFlat(f) == f = [i \in 1..Len(seqs) |->
                                   IF i = 1 THEN seqs[i] ELSE f[i - 1] \o seqs[i]]
             Flat == CHOOSE f : IsFlat(f)
  <2>1. \E f : IsFlat(f)
    <3>1. PICK V : V = Seq(S)
      OBVIOUS
    <3>2. PICK base \in V : base = seqs[1]
      BY <1>4, <3>1
    <3>3. PICK G : G = [i \in 2..n |-> [v \in V |-> v \o seqs[i]]]
      OBVIOUS
    <3>4. G \in [2..n -> [V -> V]]
      <4> SUFFICES ASSUME NEW i \in 2..n, NEW v \in V PROVE v \o seqs[i] \in V
        BY <3>3
      <4>1. seqs[i] \in Seq(S)
        OBVIOUS
      <4> QED
        BY <3>1, <4>1
    <3>5. \A i \in 2..n, v \in V : G[i][v] = v \o seqs[i]
      BY <3>3
    <3>6. Climbs(n, V, base, G)
      BY <1>4, <3>4, Climbing
    <3>7. PICK f \in [1..n -> V] : f[1] = base /\ \A i \in 2..n : f[i] = G[i][f[i - 1]]
      BY <3>6 DEF Climbs
    <3>8. ASSUME NEW i \in 1..n
          PROVE  f[i] = IF i = 1 THEN seqs[i] ELSE f[i - 1] \o seqs[i]
      <4>1. CASE i = 1
        BY <3>2, <3>7, <4>1
      <4>2. CASE i \in 2..n
        <5>1. PICK v \in V : v = f[i - 1]
          BY <3>7, <4>2
        <5>2. f[i] = G[i][v]
          BY <3>7, <4>2, <5>1
        <5>3. G[i][v] = v \o seqs[i]
          BY <3>5, <4>2
        <5>4. i # 1
          BY <4>2
        <5> QED
          BY <5>1, <5>2, <5>3, <5>4
      <4> QED
        BY <4>1, <4>2
    <3>9. f = [i \in 1..n |-> IF i = 1 THEN seqs[i] ELSE f[i - 1] \o seqs[i]]
      BY <3>7, <3>8
    <3> QED
      BY <1>1, <3>9
  <2>2. IsFlat(Flat)
    BY <2>1
  <2>3. flat = Flat[n]
    BY <1>1, <1>2, <1>4 DEF FlattenSeq
  <2> HIDE DEF Flat
  <2>4. PICK f : f = Flat
    OBVIOUS
  <2>5. f[1] = seqs[1] /\ \A i \in 2..n : f[i] = f[i - 1] \o seqs[i]
    <3>1. f = [i \in 1..n |-> IF i = 1 THEN seqs[i] ELSE f[i - 1] \o seqs[i]]
      BY <1>1, <2>2, <2>4
    <3>2. \A i \in 1..n : f[i] = IF i = 1 THEN seqs[i] ELSE f[i - 1] \o seqs[i]
      BY <3>1
    <3>3. 1 \in 1..n /\ \A i \in 2..n : i \in 1..n /\ i # 1
      BY <1>4
    <3> QED
      BY <3>2, <3>3
  <2>6. PICK off : off = [i \in 1..(n + 1) |-> IF i = 1 THEN 0 ELSE Len(f[i - 1])]
    OBVIOUS
  <2>7. off[1] = 0 /\ \A i \in 1..n : off[i + 1] = Len(f[i])
    <3>1. \A i \in 1..n : i + 1 \in 1..(n + 1) /\ i + 1 # 1 /\ (i + 1) - 1 = i
      OBVIOUS
    <3>2. 1 \in 1..(n + 1)
      OBVIOUS
    <3> QED
      BY <2>6, <3>1, <3>2
  <2> DEFINE Holds(k, i) ==
                 \A j \in 1..Len(seqs[i]) :
                     off[i] + j \in 1..Len(f[k]) /\ f[k][off[i] + j] = seqs[i][j]
             Upto(k) ==
                 /\ f[k] \in Seq(S)
                 /\ off[k] \in Nat
                 /\ Len(f[k]) = off[k] + Len(seqs[k])
                 /\ \A i \in 1..k : Holds(k, i)
             T == {k \in Nat : k + 1 \in 1..n => Upto(k + 1)}
  <2>8. Upto(1)
    <3>1. seqs[1] \in Seq(S) /\ f[1] = seqs[1]
      BY <1>4, <2>5
    <3>2. PICK l \in Nat : l = Len(seqs[1])
      BY <3>1
    <3>3. Holds(1, 1)
      BY <2>7, <3>1, <3>2
    <3> QED
      BY <2>7, <3>1, <3>2, <3>3
  <2>9. ASSUME NEW k \in 1..n, k + 1 \in 1..n, Upto(k)
        PROVE  Upto(k + 1)
    <3> DEFINE u == f[k + 1]
    <3>1. PICK s \in Seq(S), t \in Seq(S) : s = f[k] /\ t = seqs[k + 1]
      BY <2>9
    <3>2. u = s \o t
      <4>1. k + 1 \in 2..n /\ (k + 1) - 1 = k
        BY <2>9
      <4> QED
        BY <2>5, <3>1, <4>1
    <3>3. PICK l \in Nat, m \in Nat : l = Len(s) /\ m = Len(t)
      OBVIOUS
    <3>4. u \in Seq(S) /\ Len(u) = l + m
      BY <3>2, <3>3, Concatenation
    <3>5. \A j \in 1..l : u[j] = s[j]
      BY <3>2, <3>3, Concatenation
    <3>6. \A j \in 1..m : u[l + j] = t[j]
      BY <3>2, <3>3, Concatenation
    <3>7. off[k + 1] = l
      BY <2>7, <3>1, <3>3
    <3>8. ASSUME NEW i \in 1..k PROVE Holds(k + 1, i)
      <4> SUFFICES ASSUME NEW j \in 1..Len(seqs[i])
                   PROVE  off[i] + j \in 1..Len(u) /\ u[off[i] + j] = seqs[i][j]
        BY <3>1
      <4>1. off[i] + j \in 1..l /\ s[off[i] + j] = seqs[i][j]
        <5>1. Holds(k, i)
          BY <2>9
        <5> QED
          BY <3>1, <3>3, <5>1
      <4> QED
        BY <3>4, <3>5, <4>1
    <3>9. Holds(k + 1, k + 1)
      <4> SUFFICES ASSUME NEW j \in 1..m
                   PROVE  off[k + 1] + j \in 1..Len(u) /\ u[off[k + 1] + j] = t[j]
        BY <3>1, <3>3
      <4>1. l + j \in 1..(l + m)
        BY <3>3
      <4> QED
        BY <3>4, <3>6, <3>7, <4>1
    <3> HIDE DEF Holds
    <3>10. \A i \in 1..(k + 1) : Holds(k + 1, i)
      BY <3>8, <3>9
    <3> QED
      BY <3>1, <3>3, <3>4, <3>7, <3>10
  <2> HIDE DEF Upto
  <2>10. T = Nat
    <3>1. 0 \in T
      BY <2>8
    <3>2. ASSUME NEW k \in T PROVE k + 1 \in T
      <4>1. k \in Nat /\ (k + 1 \in 1..n => Upto(k + 1))
        OBVIOUS
      <4>2. SUFFICES ASSUME (k + 1) + 1 \in 1..n PROVE Upto((k + 1) + 1)
        BY <4>1
      <4>3. k + 1 \in 1..n
        BY <4>1, <4>2
      <4> QED
        BY <2>9, <4>1, <4>2, <4>3
    <3> HIDE DEF T
    <3>3. T \in SUBSET Nat
      BY DEF T
    <3> QED
      BY <3>1, <3>2, <3>3, Induct
  <2>11. ASSUME NEW k \in 1..n PROVE Upto(k)
    <3>1. PICK m \in Nat : m + 1 = k
      <4>1. k - 1 \in Nat /\ (k - 1) + 1 = k
        OBVIOUS
      <4> QED
        BY <4>1
    <3>2. m \in T
      BY <2>10
    <3> QED
      BY <3>1, <3>2
  <2>12. flat \in Seq(S) /\ flat = f[n]
    <3>1. Upto(n) /\ flat = f[n]
      BY <1>4, <2>3, <2>4, <2>11
    <3> QED
      BY <3>1 DEF Upto
  <2>13. Offsets(off, n, seqs, flat)
    <3>1. off \in [1..(n + 1) -> Nat]
      <4> SUFFICES ASSUME NEW i \in 1..(n + 1)
                   PROVE  (IF i = 1 THEN 0 ELSE Len(f[i - 1])) \in Nat
        BY <2>6
      <4>1. CASE i # 1
        <5>1. i - 1 \in 1..n
          BY <4>1
        <5>2. f[i - 1] \in Seq(S)
          BY <5>1, <2>11 DEF Upto
        <5> QED
          BY <4>1, <5>2
      <4> QED
        BY <4>1
    <3>2. off[n + 1] = Len(flat)
      BY <1>4, <2>7, <2>12
    <3>3. ASSUME NEW i \in 1..n PROVE off[i + 1] = off[i] + Len(seqs[i])
      BY <2>7, <2>11 DEF Upto
    <3>4. ASSUME NEW i \in 1..n, NEW j \in 1..Len(seqs[i])
          PROVE  off[i] + j \in 1..Len(flat) /\ flat[off[i] + j] = seqs[i][j]
      <4>1. Upto(n)
        BY <1>4, <2>11
      <4>2. \A k \in 1..n : Holds(n, k)
        BY <4>1 DEF Upto
      <4> QED
        BY <2>12, <4>2
    <3> QED
      BY <2>7, <3>1, <3>2, <3>3, <3>4 DEF Offsets
  <2> QED
    BY <1>2, <2>12, <2>13 DEF HasOffsets
<1> QED
  BY <1>3, <1>4
-----------------------------------------------------------------------------
(* THE BYTES OF A ROW, AND OF A TABLE. *)
EncodedAs(row, off, e) ==
    /\ e \in Seq(Byte)
    /\ Len(e) >= 1
    /\ e[Len(e)] = NUL
    /\ \A j \in 1..(Len(e) - 1) : e[j] # NUL
    /\ off \in [1..(Width + 1) -> Nat]
    /\ off[1] = 0
    /\ \A c \in 1..Width : off[c + 1] = off[c] + Len(WriteVle[row[c] + 1])
    /\ \A c \in 1..Width : \A j \in 1..Len(WriteVle[row[c] + 1]) :
           off[c] + j \in 1..Len(e) /\ e[off[c] + j] = WriteVle[row[c] + 1][j]

HasEncoding(row) == \E off : EncodedAs(row, off, EncodeRow(row))

LEMMA RowBytes == \A row \in Row : HasEncoding(row)
<1> SUFFICES ASSUME NEW row \in Row PROVE HasEncoding(row)
  OBVIOUS
<1>1. Base \in Nat /\ Base >= 2 /\ Width \in Nat /\ MaxValue \in Nat
  BY RowAssumption DEF RowAssumption
<1>2. PICK seqs : seqs = [c \in 1..Width |-> WriteVle[row[c] + 1]]
  OBVIOUS
<1>3. seqs \in [1..Width -> Seq(Digit)]
  <2> SUFFICES ASSUME NEW c \in 1..Width PROVE WriteVle[row[c] + 1] \in Seq(Digit)
    BY <1>2
  <2>1. row[c] + 1 \in 1..(MaxValue + 1)
    BY <1>1 DEF Row, Value
  <2> QED
    BY <2>1, VleDigits DEF Digits
<1>4. PICK flat : flat = FlattenSeq(seqs)
  OBVIOUS
<1>5. flat \in Seq(Digit) /\ HasOffsets(Width, seqs, flat)
  BY <1>1, <1>3, <1>4, Flattening
<1>6. PICK off : Offsets(off, Width, seqs, flat)
  BY <1>5 DEF HasOffsets
<1>7. PICK l \in Nat : l = Len(flat)
  BY <1>5
<1>8. PICK e : e = EncodeRow(row)
  OBVIOUS
<1>9. e = flat \o <<NUL>>
  BY <1>2, <1>4, <1>8 DEF EncodeRow
<1>10. flat \in Seq(Byte) /\ <<NUL>> \in Seq(Byte)
  <2>1. NUL \in Byte /\ \A d \in Digit : d \in Byte
    BY <1>1 DEF NUL, Byte, Digit
  <2> QED
    BY <1>5, <2>1
<1>11. e \in Seq(Byte) /\ Len(e) = l + 1 /\ e[l + 1] = NUL
  BY <1>7, <1>9, <1>10
<1>12. \A j \in 1..l : e[j] = flat[j]
  BY <1>7, <1>9, <1>10
<1>13. ASSUME NEW j \in 1..l PROVE e[j] # NUL
  <2>1. flat[j] \in Digit
    BY <1>5, <1>7
  <2> QED
    BY <1>12, <2>1 DEF Digit, NUL
<1>14. ASSUME NEW c \in 1..Width, NEW j \in 1..Len(WriteVle[row[c] + 1])
       PROVE  off[c] + j \in 1..Len(e) /\ e[off[c] + j] = WriteVle[row[c] + 1][j]
  <2>1. seqs[c] = WriteVle[row[c] + 1]
    BY <1>2
  <2>2. off[c] + j \in 1..l /\ flat[off[c] + j] = seqs[c][j]
    BY <1>6, <1>7, <2>1 DEF Offsets
  <2> QED
    BY <1>11, <1>12, <2>1, <2>2
<1>15. off \in [1..(Width + 1) -> Nat] /\ off[1] = 0
  BY <1>6 DEF Offsets
<1>16. ASSUME NEW c \in 1..Width PROVE off[c + 1] = off[c] + Len(WriteVle[row[c] + 1])
  BY <1>2, <1>6 DEF Offsets
<1>17. \A j \in 1..(Len(e) - 1) : e[j] # NUL
  BY <1>7, <1>11, <1>13
<1>18. Len(e) >= 1 /\ e[Len(e)] = NUL
  BY <1>7, <1>11
<1>19. EncodedAs(row, off, e)
  BY <1>11, <1>14, <1>15, <1>16, <1>17, <1>18 DEF EncodedAs
<1> QED
  BY <1>8, <1>19 DEF HasEncoding

(* pos[i] is where row i starts. *)
Layout(pos) ==
    /\ pos \in [1..(Len(rows) + 1) -> Nat]
    /\ pos[1] = begin
    /\ pos[Len(rows) + 1] = end
    /\ \A i \in 1..Len(rows) : pos[i + 1] = pos[i] + Len(EncodeRow(rows[i]))
    /\ \A i \in 1..Len(rows) : At(pos[i], EncodeRow(rows[i]))
    /\ \A i \in 1..(Len(rows) + 1) :
           pos[i] - 1 \in 1..Len(buffer) /\ buffer[pos[i] - 1] = NUL

LEMMA PositionIs ==
    ASSUME rows \in Seq(Row), NEW pos \in [1..(Len(rows) + 1) -> Nat], pos[1] = begin,
           \A i \in 1..Len(rows) : pos[i + 1] = pos[i] + Len(EncodeRow(rows[i]))
    PROVE  Position = pos
<1>1. PICK n \in Nat : n = Len(rows)
  OBVIOUS
<1> DEFINE IsPosition(f) ==
               f = [i \in 1..(Len(rows) + 1) |->
                        IF i = 1 THEN begin ELSE f[i - 1] + Len(EncodeRow(rows[i - 1]))]
           Chosen == CHOOSE f : IsPosition(f)
<1>2. IsPosition(pos)
  <2>1. ASSUME NEW i \in 1..(n + 1)
        PROVE  pos[i] = IF i = 1 THEN begin ELSE pos[i - 1] + Len(EncodeRow(rows[i - 1]))
    <3>1. CASE i # 1
      <4>1. i - 1 \in 1..n /\ (i - 1) + 1 = i
        BY <3>1
      <4> QED
        BY <1>1, <3>1, <4>1
    <3> QED
      BY <3>1
  <2> QED
    BY <1>1, <2>1
<1>3. IsPosition(Chosen)
  BY <1>2
<1>4. Position = Chosen
  BY DEF Position
<1> HIDE DEF Chosen
<1>5. PICK f : f = Position
  OBVIOUS
<1>6. f = [i \in 1..(n + 1) |->
               IF i = 1 THEN begin ELSE f[i - 1] + Len(EncodeRow(rows[i - 1]))]
  BY <1>1, <1>3, <1>4, <1>5
<1>7. \A i \in 1..(n + 1) :
          f[i] = IF i = 1 THEN begin ELSE f[i - 1] + Len(EncodeRow(rows[i - 1]))
  BY <1>6
<1> DEFINE T == {k \in Nat : k + 1 \in 1..(n + 1) => f[k + 1] = pos[k + 1]}
<1>8. 0 \in T
  <2>1. 1 \in 1..(n + 1)
    OBVIOUS
  <2> QED
    BY <1>7, <2>1
<1>9. ASSUME NEW k \in T PROVE k + 1 \in T
  <2>1. k \in Nat
    OBVIOUS
  <2>2. SUFFICES ASSUME (k + 1) + 1 \in 1..(n + 1)
                 PROVE  f[(k + 1) + 1] = pos[(k + 1) + 1]
    BY <2>1
  <2>3. PICK i \in 1..n : i = k + 1
    BY <2>1, <2>2
  <2>4. f[i] = pos[i]
    BY <2>1, <2>3
  <2>5. i + 1 \in 1..(n + 1) /\ i + 1 # 1 /\ (i + 1) - 1 = i
    OBVIOUS
  <2>6. f[i + 1] = f[i] + Len(EncodeRow(rows[i]))
    BY <1>7, <2>5
  <2>7. pos[i + 1] = pos[i] + Len(EncodeRow(rows[i]))
    BY <1>1
  <2> QED
    BY <2>3, <2>4, <2>6, <2>7
<1>10. T = Nat
  <2> HIDE DEF T
  <2>1. T \in SUBSET Nat
    BY DEF T
  <2> QED
    BY <1>8, <1>9, <2>1, Induct
<1>11. ASSUME NEW i \in 1..(n + 1) PROVE f[i] = pos[i]
  <2>1. PICK k \in Nat : k + 1 = i
    <3>1. i - 1 \in Nat /\ (i - 1) + 1 = i
      OBVIOUS
    <3> QED
      BY <3>1
  <2>2. k \in T
    BY <1>10
  <2> QED
    BY <2>1, <2>2
<1>12. f = [i \in 1..(n + 1) |-> pos[i]]
  <2> DEFINE g == [i \in 1..(n + 1) |->
                     IF i = 1 THEN begin ELSE f[i - 1] + Len(EncodeRow(rows[i - 1]))]
  <2>1. DOMAIN f = 1..(n + 1) /\ f = [i \in DOMAIN f |-> f[i]]
    <3>1. f = g
      BY <1>6
    <3>2. DOMAIN g = 1..(n + 1) /\ g = [i \in DOMAIN g |-> g[i]]
      OBVIOUS
    <3> HIDE DEF g
    <3> QED
      BY <3>1, <3>2
  <2> QED
    BY <1>11, <2>1
<1> QED
  BY <1>1, <1>5, <1>12

LEMMA Positions ==
    ASSUME rows \in Seq(Row), buffer = Buffer(rows)
    PROVE  BufferOK /\ Layout(Position)
<1>1. PICK n \in Nat : n = Len(rows) /\ DOMAIN rows = 1..n
  OBVIOUS
<1>2. PICK seqs : seqs = [i \in 1..n |-> EncodeRow(rows[i])]
  OBVIOUS
<1>3. ASSUME NEW i \in 1..n
      PROVE  /\ seqs[i] = EncodeRow(rows[i])
             /\ seqs[i] \in Seq(Byte)
             /\ Len(seqs[i]) >= 1
             /\ seqs[i][Len(seqs[i])] = NUL
  <2>1. rows[i] \in Row
    BY <1>1
  <2>2. HasEncoding(rows[i])
    BY <2>1, RowBytes
  <2> QED
    BY <1>2, <2>2 DEF HasEncoding, EncodedAs
<1>4. seqs \in [1..n -> Seq(Byte)]
  BY <1>2, <1>3
<1>5. PICK flat : flat = FlattenSeq(seqs)
  OBVIOUS
<1>6. flat \in Seq(Byte) /\ HasOffsets(n, seqs, flat)
  BY <1>4, <1>5, Flattening
<1>7. PICK off : Offsets(off, n, seqs, flat)
  BY <1>6 DEF HasOffsets
<1>8. buffer = <<NUL>> \o flat
  BY <1>1, <1>2, <1>5 DEF Buffer
<1>9. <<NUL>> \in Seq(Byte)
  <2>1. NUL \in Byte
    BY RowAssumption DEF RowAssumption, NUL, Byte
  <2> QED
    BY <2>1
<1>10. PICK l \in Nat : l = Len(flat)
  BY <1>6
<1>11. buffer \in Seq(Byte) /\ Len(buffer) = l + 1 /\ buffer[1] = NUL
  BY <1>6, <1>8, <1>9, <1>10
<1>12. \A j \in 1..l : buffer[1 + j] = flat[j]
  BY <1>6, <1>8, <1>9, <1>10
<1>13. PICK pos : pos = [i \in 1..(n + 1) |-> 2 + off[i]]
  OBVIOUS
<1>14. \A i \in 1..(n + 1) : off[i] \in Nat /\ pos[i] = 2 + off[i]
  BY <1>7, <1>13 DEF Offsets
<1>15. pos \in [1..(n + 1) -> Nat]
  BY <1>13, <1>14
<1>16. pos[1] = begin /\ pos[n + 1] = end
  <2>1. 1 \in 1..(n + 1) /\ n + 1 \in 1..(n + 1)
    OBVIOUS
  <2>2. off[1] = 0 /\ off[n + 1] = l
    BY <1>7, <1>10 DEF Offsets
  <2> QED
    BY <1>11, <1>14, <2>1, <2>2 DEF begin, end
<1>17. ASSUME NEW i \in 1..n
       PROVE  pos[i + 1] = pos[i] + Len(seqs[i])
  <2>1. i \in 1..(n + 1) /\ i + 1 \in 1..(n + 1)
    OBVIOUS
  <2>2. off[i + 1] = off[i] + Len(seqs[i])
    BY <1>7 DEF Offsets
  <2>3. Len(seqs[i]) \in Nat
    BY <1>3
  <2> QED
    BY <1>14, <2>1, <2>2, <2>3
<1>18. ASSUME NEW i \in 1..n, NEW j \in 1..Len(seqs[i])
       PROVE  pos[i] + j - 1 \in 1..Len(buffer) /\ buffer[pos[i] + j - 1] = seqs[i][j]
  <2>1. off[i] + j \in 1..l /\ flat[off[i] + j] = seqs[i][j]
    BY <1>7, <1>10 DEF Offsets
  <2>2. i \in 1..(n + 1)
    OBVIOUS
  <2>3. Len(seqs[i]) \in Nat
    BY <1>3
  <2>4. pos[i] + j - 1 = 1 + (off[i] + j)
    BY <1>14, <2>2, <2>3
  <2> QED
    BY <1>11, <1>12, <2>1, <2>4
<1>19. ASSUME NEW i \in 1..(n + 1)
       PROVE  pos[i] - 1 \in 1..Len(buffer) /\ buffer[pos[i] - 1] = NUL
  <2>1. CASE i = 1
    BY <1>11, <1>16, <2>1 DEF begin
  <2>2. CASE i # 1
    <3>1. PICK k \in 1..n : i = k + 1
      <4>1. i - 1 \in 1..n /\ i = (i - 1) + 1
        BY <2>2
      <4> QED
        BY <4>1
    <3>2. PICK e \in Seq(Byte) : e = seqs[k] /\ Len(e) >= 1 /\ e[Len(e)] = NUL
      BY <1>3
    <3>3. PICK j \in Nat : j = Len(e) /\ j \in 1..Len(seqs[k])
      BY <3>2
    <3>4. pos[k] + j - 1 \in 1..Len(buffer) /\ buffer[pos[k] + j - 1] = NUL
      BY <1>18, <3>2, <3>3
    <3>5. pos[i] = pos[k] + j
      BY <1>17, <3>1, <3>2, <3>3
    <3>6. pos[k] \in Nat
      <4>1. k \in 1..(n + 1)
        OBVIOUS
      <4> QED
        BY <1>15, <4>1
    <3>7. pos[i] - 1 = pos[k] + j - 1
      BY <3>5, <3>6
    <3> QED
      BY <3>4, <3>7
  <2> QED
    BY <2>1, <2>2
<1>20. BufferOK
  <2>1. n + 1 \in 1..(n + 1) /\ pos[n + 1] - 1 = l + 1
    BY <1>11, <1>16 DEF end
  <2> QED
    BY <1>11, <1>19, <2>1 DEF BufferOK
<1>21. \A i \in 1..n : At(pos[i], EncodeRow(rows[i]))
  <2> SUFFICES ASSUME NEW i \in 1..n, NEW j \in 1..Len(EncodeRow(rows[i]))
               PROVE  /\ pos[i] + j - 1 \in DOMAIN buffer
                      /\ buffer[pos[i] + j - 1] = EncodeRow(rows[i])[j]
    BY DEF At
  <2>1. seqs[i] = EncodeRow(rows[i])
    BY <1>3
  <2>2. DOMAIN buffer = 1..Len(buffer)
    BY <1>11
  <2> QED
    BY <1>18, <2>1, <2>2
<1>22. \A i \in 1..n : pos[i + 1] = pos[i] + Len(EncodeRow(rows[i]))
  BY <1>3, <1>17
<1>23. Layout(pos)
  BY <1>1, <1>15, <1>16, <1>19, <1>21, <1>22 DEF Layout
<1>24. Position = pos
  BY <1>1, <1>15, <1>16, <1>22, PositionIs
<1> QED
  BY <1>20, <1>23, <1>24
-----------------------------------------------------------------------------
(* WHERE ++ AND -- LEAD, AND WHAT A ROW IS READ AS. *)
LEMMA Rows ==
    ASSUME NEW pos, Layout(pos), BufferOK, rows \in Seq(Row), NEW i \in 1..Len(rows)
    PROVE  /\ pos[i] \in Nat /\ pos[i] >= 2
           /\ pos[i + 1] \in Nat /\ pos[i] < pos[i + 1]
           /\ pos[i + 1] - 1 \in 1..Len(buffer)
           /\ buffer[pos[i] - 1] = NUL /\ buffer[pos[i + 1] - 1] = NUL
           /\ \A q \in pos[i]..(pos[i + 1] - 2) : buffer[q] # NUL
<1>1. PICK n \in Nat : n = Len(rows)
  OBVIOUS
<1>2. i \in 1..(n + 1) /\ i + 1 \in 1..(n + 1)
  BY <1>1
<1>3. PICK a \in Nat, b \in Nat : a = pos[i] /\ b = pos[i + 1]
  BY <1>1, <1>2 DEF Layout
<1>4. a - 1 \in 1..Len(buffer) /\ b - 1 \in 1..Len(buffer)
  BY <1>1, <1>2, <1>3 DEF Layout
<1>5. buffer[a - 1] = NUL /\ buffer[b - 1] = NUL
  BY <1>1, <1>2, <1>3 DEF Layout
<1>6. rows[i] \in Row
  OBVIOUS
<1>7. PICK e : e = EncodeRow(rows[i])
  OBVIOUS
<1>8. HasEncoding(rows[i])
  BY <1>6, RowBytes
<1>9. e \in Seq(Byte) /\ Len(e) >= 1 /\ \A j \in 1..(Len(e) - 1) : e[j] # NUL
  BY <1>7, <1>8 DEF HasEncoding, EncodedAs
<1>10. PICK l \in Nat : l = Len(e) /\ l >= 1
  BY <1>9
<1>11. b = a + l
  BY <1>3, <1>7, <1>10 DEF Layout
<1>12. \A j \in 1..l : buffer[a + j - 1] = e[j]
  BY <1>3, <1>7, <1>10 DEF Layout, At
<1>13. ASSUME NEW q \in a..(b - 2) PROVE buffer[q] # NUL
  <2>1. PICK j \in 1..(l - 1) : q = a + j - 1
    <3>1. q - a + 1 \in 1..(l - 1) /\ q = a + (q - a + 1) - 1
      BY <1>11
    <3> QED
      BY <3>1
  <2>2. e[j] # NUL /\ j \in 1..l
    BY <1>9, <1>10
  <2> QED
    BY <1>12, <2>1, <2>2
<1>14. a >= 2 /\ a < b
  BY <1>4, <1>10, <1>11
<1> QED
  BY <1>3, <1>4, <1>5, <1>13, <1>14

(* From a byte of a row, ++ leads to the next row; from past its first     *)
(* byte, -- leads back to it. *)
LEMMA UpAndDown ==
    ASSUME NEW pos, Layout(pos), BufferOK, rows \in Seq(Row), NEW i \in 1..Len(rows)
    PROVE  /\ \A p \in pos[i]..(pos[i + 1] - 1) : Increment(p) = pos[i + 1]
           /\ \A p \in (pos[i] + 1)..pos[i + 1] : Decrement(p) = pos[i]
<1>1. PICK a \in Nat, b \in Nat : a = pos[i] /\ b = pos[i + 1]
  BY Rows
<1>2. PICK l \in Nat : l = Len(buffer)
  BY DEF BufferOK
<1>3. a >= 2 /\ a < b /\ b - 1 \in 1..l
  BY <1>1, <1>2, Rows
<1>4. buffer[a - 1] = NUL /\ buffer[b - 1] = NUL
  BY <1>1, Rows
<1>5. \A q \in a..(b - 2) : buffer[q] # NUL
  BY <1>1, Rows
<1>6. ASSUME NEW p \in a..(b - 1) PROVE Increment(p) = b
  <2> DEFINE P(q) == q \in p..l /\ buffer[q] = NUL /\ \A r \in p..(q - 1) : buffer[r] # NUL
  <2>1. P(b - 1)
    <3>1. \A r \in p..((b - 1) - 1) : r \in a..(b - 2)
      OBVIOUS
    <3>2. b - 1 \in p..l
      BY <1>3
    <3> QED
      BY <1>4, <1>5, <3>1, <3>2
  <2>2. ASSUME NEW q, P(q) PROVE q = b - 1
    <3>1. q \in p..l
      BY <2>2
    <3>2. ~(q < b - 1)
      <4> SUFFICES ASSUME q < b - 1 PROVE FALSE
        OBVIOUS
      <4>1. q \in a..(b - 2)
        BY <3>1
      <4> QED
        BY <1>5, <2>2, <4>1
    <3>3. ~(q > b - 1)
      <4> SUFFICES ASSUME q > b - 1 PROVE FALSE
        OBVIOUS
      <4>1. b - 1 \in p..(q - 1)
        BY <3>1
      <4> QED
        BY <1>4, <2>2, <4>1
    <3> QED
      BY <3>1, <3>2, <3>3
  <2>3. PICK c : c = CHOOSE q : P(q)
    OBVIOUS
  <2>4. c = b - 1
    BY <2>1, <2>2, <2>3
  <2>5. Increment(p) = 1 + c
    BY <1>2, <2>3 DEF Increment
  <2> QED
    BY <2>4, <2>5
<1>7. ASSUME NEW p \in (a + 1)..b PROVE Decrement(p) = a
  <2> DEFINE P(q) == q \in 1..(p - 2) /\ buffer[q] = NUL
                     /\ \A r \in (q + 1)..(p - 2) : buffer[r] # NUL
  <2>1. P(a - 1)
    <3>1. \A r \in ((a - 1) + 1)..(p - 2) : r \in a..(b - 2)
      OBVIOUS
    <3>2. a - 1 \in 1..(p - 2)
      BY <1>3
    <3> QED
      BY <1>4, <1>5, <3>1, <3>2
  <2>2. ASSUME NEW q, P(q) PROVE q = a - 1
    <3>1. q \in 1..(p - 2)
      BY <2>2
    <3>2. ~(q < a - 1)
      <4> SUFFICES ASSUME q < a - 1 PROVE FALSE
        OBVIOUS
      <4>1. a - 1 \in (q + 1)..(p - 2)
        BY <3>1
      <4> QED
        BY <1>4, <2>2, <4>1
    <3>3. ~(q > a - 1)
      <4> SUFFICES ASSUME q > a - 1 PROVE FALSE
        OBVIOUS
      <4>1. q \in a..(b - 2)
        BY <3>1
      <4> QED
        BY <1>5, <2>2, <4>1
    <3> QED
      BY <3>1, <3>2, <3>3
  <2>3. PICK c : c = CHOOSE q : P(q)
    OBVIOUS
  <2>4. c = a - 1
    BY <2>1, <2>2, <2>3
  <2>5. Decrement(p) = 1 + c
    BY <2>3 DEF Decrement
  <2> QED
    BY <2>4, <2>5
<1> QED
  BY <1>1, <1>6, <1>7

LEMMA RowReadsBack ==
    ASSUME NEW p \in Nat \ {0}, NEW row \in Row, BufferOK, At(p, EncodeRow(row))
    PROVE  DecodeRow(p) = row
<1>1. Width \in Nat /\ Width >= 1 /\ MaxValue \in Nat
  BY RowAssumption DEF RowAssumption
<1>2. PICK e : e = EncodeRow(row)
  OBVIOUS
<1>3. PICK off : EncodedAs(row, off, e)
  BY <1>2, RowBytes DEF HasEncoding
<1>4. off \in [1..(Width + 1) -> Nat] /\ off[1] = 0
  BY <1>3 DEF EncodedAs
<1>5. ASSUME NEW c \in 1..Width
      PROVE  /\ ReadVle(p + off[c]).value = row[c] + 1
             /\ ReadVle(p + off[c]).next = p + off[c + 1]
  <2>1. PICK v \in 1..(MaxValue + 1) : v = row[c] + 1
    <3>1. row[c] \in 0..MaxValue
      BY DEF Row, Value
    <3>2. row[c] + 1 \in 1..(MaxValue + 1)
      BY <1>1, <3>1
    <3> QED
      BY <3>2
  <2>2. PICK o \in Nat : o = off[c]
    <3>1. c \in 1..(Width + 1)
      BY <1>1
    <3> QED
      BY <1>4, <3>1
  <2>3. PICK l \in Nat : l = Len(WriteVle[v])
    BY <2>1, VleDigits DEF Digits
  <2>4. At(p + o, WriteVle[v])
    <3> SUFFICES ASSUME NEW j \in 1..l
                 PROVE  /\ (p + o) + j - 1 \in DOMAIN buffer
                        /\ buffer[(p + o) + j - 1] = WriteVle[v][j]
      BY <2>3 DEF At
    <3>1. o + j \in 1..Len(e) /\ e[o + j] = WriteVle[v][j]
      BY <1>3, <2>1, <2>2, <2>3 DEF EncodedAs
    <3>2. p + (o + j) - 1 \in DOMAIN buffer /\ buffer[p + (o + j) - 1] = e[o + j]
      BY <1>2, <3>1 DEF At
    <3>3. p + (o + j) - 1 = (p + o) + j - 1
      OBVIOUS
    <3> QED
      BY <3>1, <3>2, <3>3
  <2>5. p + o \in Nat \ {0}
    OBVIOUS
  <2>6. ReadVle(p + o).value = v /\ ReadVle(p + o).next = (p + o) + l
    BY <2>3, <2>4, <2>5, VleReadsBack
  <2>7. off[c + 1] = o + l
    BY <1>3, <2>1, <2>2, <2>3 DEF EncodedAs
  <2>8. (p + o) + l = p + (o + l)
    OBVIOUS
  <2> QED
    BY <2>1, <2>2, <2>6, <2>7, <2>8
<1> DEFINE IsStart(f) == f = [c \in 1..Width |-> IF c = 1 THEN p ELSE ReadVle(f[c - 1]).next]
           Start == CHOOSE f : IsStart(f)
<1>6. PICK g : g = [c \in 1..Width |-> p + off[c]]
  OBVIOUS
<1>7. \A c \in 1..Width : g[c] = p + off[c]
  BY <1>6
<1>8. IsStart(g)
  <2>1. ASSUME NEW c \in 1..Width
        PROVE  p + off[c] = IF c = 1 THEN p ELSE ReadVle(g[c - 1]).next
    <3>1. CASE c = 1
      BY <1>4, <3>1
    <3>2. CASE c # 1
      <4>1. PICK k \in 1..Width : c = k + 1 /\ c - 1 = k
        <5>1. c - 1 \in 1..Width /\ c = (c - 1) + 1
          BY <1>1, <3>2
        <5> QED
          BY <5>1
      <4> QED
        BY <1>5, <1>7, <3>2, <4>1
    <3> QED
      BY <3>1, <3>2
  <2> QED
    BY <1>6, <2>1
<1>9. IsStart(Start)
  BY <1>8
<1>10. DecodeRow(p) = [c \in 1..Width |-> ReadVle(Start[c]).value - 1]
  BY DEF DecodeRow
<1> HIDE DEF Start
<1>11. PICK f : f = Start
  OBVIOUS
<1>12. \A c \in 1..Width : f[c] = IF c = 1 THEN p ELSE ReadVle(f[c - 1]).next
  <2>1. f = [c \in 1..Width |-> IF c = 1 THEN p ELSE ReadVle(f[c - 1]).next]
    BY <1>9, <1>11
  <2> QED
    BY <2>1
<1> DEFINE T == {k \in Nat : k + 1 \in 1..Width => f[k + 1] = p + off[k + 1]}
<1>13. T = Nat
  <2>1. 0 \in T
    BY <1>1, <1>4, <1>12
  <2>2. ASSUME NEW k \in T PROVE k + 1 \in T
    <3>1. k \in Nat
      OBVIOUS
    <3>2. SUFFICES ASSUME (k + 1) + 1 \in 1..Width
                   PROVE  f[(k + 1) + 1] = p + off[(k + 1) + 1]
      BY <3>1
    <3>3. PICK c \in 1..Width : c = k + 1 /\ c + 1 \in 1..Width
      BY <1>1, <3>1, <3>2
    <3>4. f[c] = p + off[c]
      BY <3>1, <3>3
    <3>5. f[c + 1] = ReadVle(f[c]).next
      <4>1. c + 1 # 1 /\ (c + 1) - 1 = c
        OBVIOUS
      <4> QED
        BY <1>12, <3>3, <4>1
    <3> QED
      BY <1>5, <3>3, <3>4, <3>5
  <2> HIDE DEF T
  <2>3. T \in SUBSET Nat
    BY DEF T
  <2> QED
    BY <2>1, <2>2, <2>3, Induct
<1>14. ASSUME NEW c \in 1..Width PROVE ReadVle(f[c]).value - 1 = row[c]
  <2>1. PICK k \in Nat : k + 1 = c
    <3>1. c - 1 \in Nat /\ (c - 1) + 1 = c
      OBVIOUS
    <3> QED
      BY <3>1
  <2>2. k \in T
    BY <1>13
  <2>3. f[c] = p + off[c]
    BY <2>1, <2>2
  <2>4. ReadVle(f[c]).value = row[c] + 1
    BY <1>5, <2>3
  <2>5. row[c] \in Nat
    BY <1>1 DEF Row, Value
  <2> QED
    BY <2>4, <2>5
<1>15. row = [c \in 1..Width |-> row[c]]
  BY DEF Row
<1>16. DecodeRow(p) = [c \in 1..Width |-> row[c]]
  BY <1>10, <1>11, <1>14
<1> QED
  BY <1>15, <1>16
-----------------------------------------------------------------------------
(* ROWS BY NUMBER. *)
(* Rows start one after the other. *)
LEMMA Increasing ==
    ASSUME NEW pos, Layout(pos), BufferOK, rows \in Seq(Row)
    PROVE  \A i, j \in 1..(Len(rows) + 1) : i < j => pos[i] < pos[j]
<1>1. PICK n \in Nat : n = Len(rows)
  OBVIOUS
<1>2. \A i \in 1..(n + 1) : pos[i] \in Nat
  BY <1>1 DEF Layout
<1>3. \A i \in 1..n : pos[i] < pos[i + 1]
  BY <1>1, Rows
<1> DEFINE T == {k \in Nat : \A i \in 1..(n + 1) : i + k + 1 \in 1..(n + 1) =>
                                                       pos[i] < pos[i + k + 1]}
<1>4. 0 \in T
  BY <1>3
<1>5. ASSUME NEW k \in T PROVE k + 1 \in T
  <2>1. k \in Nat
    OBVIOUS
  <2>2. SUFFICES ASSUME NEW i \in 1..(n + 1), i + (k + 1) + 1 \in 1..(n + 1)
                 PROVE  pos[i] < pos[i + (k + 1) + 1]
    BY <2>1
  <2>3. PICK m \in 1..n : m = i + k + 1
    BY <2>1, <2>2
  <2>4. pos[i] < pos[m]
    <3>1. i + k + 1 \in 1..(n + 1)
      BY <2>3
    <3> QED
      BY <2>3, <3>1
  <2>5. pos[m] < pos[m + 1] /\ m + 1 = i + (k + 1) + 1
    BY <1>3, <2>1, <2>3
  <2>6. m \in 1..(n + 1) /\ m + 1 \in 1..(n + 1)
    OBVIOUS
  <2>7. pos[i] \in Nat /\ pos[m] \in Nat /\ pos[m + 1] \in Nat
    BY <1>2, <2>6
  <2>8. pos[i] < pos[m + 1]
    BY <1>2, <2>4, <2>5, <2>7
  <2> QED
    BY <2>5, <2>8
<1>6. T = Nat
  <2> HIDE DEF T
  <2>1. T \in SUBSET Nat
    BY DEF T
  <2> QED
    BY <1>4, <1>5, <2>1, Induct
<1>7. ASSUME NEW i \in 1..(n + 1), NEW j \in 1..(n + 1), i < j
      PROVE  pos[i] < pos[j]
  <2>1. PICK k \in Nat : j = i + k + 1
    <3>1. j - i - 1 \in Nat /\ j = i + (j - i - 1) + 1
      BY <1>7
    <3> QED
      BY <3>1
  <2>2. k \in T
    BY <1>6
  <2>3. i + k + 1 \in 1..(n + 1)
    BY <2>1
  <2>4. pos[i] < pos[i + k + 1]
    BY <2>2, <2>3
  <2> QED
    BY <2>1, <2>4
<1> QED
  BY <1>1, <1>7

(* A byte from the start of row a to the start of row b is in a row. *)
LEMMA InARow ==
    ASSUME NEW pos, Layout(pos), BufferOK, rows \in Seq(Row),
           NEW a \in 1..(Len(rows) + 1), NEW b \in 1..(Len(rows) + 1),
           NEW m \in pos[a]..(pos[b] - 1)
    PROVE  \E k \in 1..Len(rows) : a <= k /\ k < b /\ m \in pos[k]..(pos[k + 1] - 1)
<1>1. PICK n \in Nat : n = Len(rows)
  OBVIOUS
<1>2. \A i \in 1..(n + 1) : pos[i] \in Nat
  BY <1>1 DEF Layout
<1>3. m \in Nat
  BY <1>1, <1>2
<1> DEFINE T == {i \in 1..(n + 1) : m < pos[i]}
<1>4. b \in T /\ T \in SUBSET Nat
  BY <1>1, <1>2, <1>3
<1>5. PICK j \in T : \A i \in T : j <= i
  BY <1>4, Least
<1>6. j \in 1..(n + 1) /\ m < pos[j]
  OBVIOUS
<1>7. a < j
  <2> SUFFICES ASSUME ~(a < j) PROVE FALSE
    OBVIOUS
  <2>1. pos[j] <= pos[a]
    <3>1. CASE j = a
      BY <1>1, <1>2, <3>1
    <3>2. CASE j < a
      <4>1. pos[j] < pos[a]
        BY <1>1, <1>6, <3>2, Increasing
      <4> QED
        BY <1>1, <1>2, <1>6, <4>1
    <3> QED
      BY <1>1, <1>6, <3>1, <3>2
  <2>2. pos[a] <= m
    BY <1>1, <1>2
  <2> QED
    BY <1>1, <1>2, <1>3, <1>6, <2>1, <2>2
<1>8. PICK k \in 1..n : j = k + 1
  <2>1. j - 1 \in 1..n /\ j = (j - 1) + 1
    BY <1>1, <1>6, <1>7
  <2> QED
    BY <2>1
<1>9. ~(m < pos[k])
  <2> SUFFICES ASSUME m < pos[k] PROVE FALSE
    OBVIOUS
  <2>1. k \in T
    OBVIOUS
  <2>2. j <= k
    BY <1>5, <2>1
  <2> QED
    BY <1>8, <2>2
<1>10. m \in pos[k]..(pos[k + 1] - 1)
  <2>1. k \in 1..(n + 1) /\ k + 1 \in 1..(n + 1)
    OBVIOUS
  <2> QED
    BY <1>2, <1>3, <1>6, <1>8, <1>9, <2>1
<1>11. j <= b
  BY <1>4, <1>5
<1>12. a <= k /\ k < b
  BY <1>1, <1>7, <1>8, <1>11
<1> QED
  BY <1>1, <1>10, <1>12

(* The order of rows carries over to a query. *)
LEMMA Transitive ==
    ASSUME NEW x \in Row, NEW y \in Row, NEW q \in Query, Precedes(x, y), Precedes(y, q)
    PROVE  Precedes(x, q)
<1>1. PICK w \in Nat \ {0} : w = Width
  BY RowAssumption DEF RowAssumption
<1>2. PICK l \in 1..w : DOMAIN q = 1..l /\ \A c \in 1..l : q[c] \in Nat
  BY <1>1, RowAssumption DEF RowAssumption, Query, Value
<1>3. DOMAIN x = 1..w /\ DOMAIN y = 1..w
  BY <1>1 DEF Row
<1>4. \A c \in 1..w : x[c] \in Nat /\ y[c] \in Nat
  BY <1>1 DEF Row, Value
<1>5. PICK c \in 1..w : x[c] < y[c] /\ \A b \in 1..(c - 1) : x[b] = y[b]
  BY <1>3 DEF Precedes
<1>6. PICK d \in 1..w : d \in 1..l /\ y[d] < q[d] /\ \A b \in 1..(d - 1) : y[b] = q[b]
  BY <1>2, <1>3 DEF Precedes
<1>7. CASE c < d
  <2>1. c \in 1..(d - 1) /\ c \in 1..l
    BY <1>6, <1>7
  <2>2. x[c] < q[c]
    BY <1>5, <1>6, <2>1
  <2>3. \A b \in 1..(c - 1) : x[b] = q[b]
    <3>1. \A b \in 1..(c - 1) : b \in 1..(d - 1)
      BY <1>6, <1>7
    <3> QED
      BY <1>5, <1>6, <3>1
  <2> QED
    BY <1>2, <1>3, <2>1, <2>2, <2>3 DEF Precedes
<1>8. CASE c = d
  <2>1. x[d] < q[d]
    BY <1>2, <1>4, <1>5, <1>6, <1>8
  <2>2. \A b \in 1..(d - 1) : x[b] = q[b]
    BY <1>5, <1>6, <1>8
  <2> QED
    BY <1>2, <1>3, <1>6, <2>1, <2>2 DEF Precedes
<1>9. CASE d < c
  <2>1. x[d] = y[d]
    BY <1>5, <1>9
  <2>2. \A b \in 1..(d - 1) : x[b] = q[b]
    <3>1. \A b \in 1..(d - 1) : b \in 1..(c - 1)
      BY <1>9
    <3> QED
      BY <1>5, <1>6, <3>1
  <2>3. x[d] < q[d]
    BY <1>6, <2>1
  <2> QED
    BY <1>2, <1>3, <1>6, <2>2, <2>3 DEF Precedes
<1> QED
  BY <1>7, <1>8, <1>9

(* A query has no more columns than a row, so only the columns decide. *)
LEMMA RowLessIs ==
    ASSUME NEW x \in Row, NEW q \in Query
    PROVE  RowLess(x, q) <=> Precedes(x, q)
<1>1. PICK w \in Nat \ {0} : w = Width
  BY RowAssumption DEF RowAssumption
<1>2. PICK l \in 1..w : q \in [1..l -> Value]
  BY <1>1 DEF Query
<1>3. Len(q) = l
  BY <1>2
<1>4. Len(x) = w
  BY <1>1 DEF Row
<1> QED
  BY <1>3, <1>4 DEF RowLess
-----------------------------------------------------------------------------
(* THE SEARCH. *)
Sorted == \A i, j \in DOMAIN rows : i < j => Precedes(rows[i], rows[j])

(* What the table is, and never stops being. *)
TableOK ==
    /\ rows \in Seq(Row)
    /\ Sorted
    /\ buffer = Buffer(rows)
    /\ query \in Query

(* itMin is at row a, itMax at row b, and the first row that is not less   *)
(* than the query is not outside of them. *)
Between(pos, a, b) ==
    /\ a <= b
    /\ itMin = pos[a]
    /\ itMax = pos[b]
    /\ \A i \in 1..(a - 1) : Precedes(rows[i], query)
    /\ \A i \in b..Len(rows) : ~Precedes(rows[i], query)

SearchOK == \E a, b \in 1..(Len(rows) + 1) : Between(Position, a, b)

RowInv == TableOK /\ SearchOK

LEMMA InitHolds == Init => RowInv
<1> SUFFICES ASSUME Init PROVE RowInv
  OBVIOUS
<1>1. rows \in Seq(Row)
  BY RowAssumption DEF RowAssumption, Init
<1>2. TableOK
  BY <1>1 DEF Init, TableOK, Sorted
<1>3. PICK pos : pos = Position /\ Layout(pos)
  BY <1>2, Positions DEF TableOK
<1>4. PICK n \in Nat : n = Len(rows)
  BY <1>1
<1>5. Between(pos, 1, n + 1)
  BY <1>3, <1>4 DEF Between, Layout, Init
<1> QED
  BY <1>2, <1>3, <1>4, <1>5 DEF RowInv, SearchOK

(* The row that is compared. *)
LEMMA MiddleRow ==
    ASSUME TableOK, NEW pos, pos = Position, Layout(pos), BufferOK,
           NEW a \in 1..(Len(rows) + 1), NEW b \in 1..(Len(rows) + 1),
           a <= b, itMin = pos[a], itMax = pos[b], itMin # itMax
    PROVE  \E k \in 1..Len(rows) :
               /\ a <= k /\ k < b
               /\ Middle = pos[k]
               /\ Increment(Middle) = pos[k + 1]
               /\ DecodeRow(Middle) = rows[k]
<1>1. rows \in Seq(Row)
  BY DEF TableOK
<1>2. PICK n \in Nat : n = Len(rows)
  BY <1>1
<1>3. PICK x \in Nat, y \in Nat : x = itMin /\ y = itMax
  BY <1>2 DEF Layout
<1>4. x < y
  <2>1. a # b
    OBVIOUS
  <2>2. a < b
    BY <1>2, <2>1
  <2> QED
    BY <1>1, <1>3, <2>2, Increasing
<1>5. PICK h \in Int : h = (y - x) \div 2
  BY <1>3
<1>6. h >= 0 /\ h < y - x
  <2>1. PICK d \in Nat : d = y - x /\ d >= 1
    BY <1>4
  <2>2. PICK g \in Int : g = d \div 2 /\ g >= 0 /\ g < d
    BY <2>1
  <2> QED
    BY <1>5, <2>1, <2>2
<1>7. PICK m \in Nat : m = x + h
  BY <1>6
<1>8. m \in pos[a]..(pos[b] - 1)
  BY <1>3, <1>6, <1>7
<1>9. PICK k \in 1..n : a <= k /\ k < b /\ m \in pos[k]..(pos[k + 1] - 1)
  BY <1>1, <1>2, <1>8, InARow
<1>10. Middle = Decrement(Increment(m))
  BY <1>3, <1>5, <1>7 DEF Middle
<1>11. Increment(m) = pos[k + 1]
  BY <1>1, <1>2, <1>9, UpAndDown
<1>12. pos[k] \in Nat /\ pos[k] >= 2 /\ pos[k + 1] \in Nat /\ pos[k] < pos[k + 1]
  BY <1>1, <1>2, Rows
<1>13. Decrement(pos[k + 1]) = pos[k]
  <2>1. pos[k + 1] \in (pos[k] + 1)..pos[k + 1]
    BY <1>12
  <2> QED
    BY <1>1, <1>2, <2>1, UpAndDown
<1>14. Middle = pos[k]
  BY <1>10, <1>11, <1>13
<1>15. Increment(pos[k]) = pos[k + 1]
  <2>1. pos[k] \in pos[k]..(pos[k + 1] - 1)
    BY <1>12
  <2> QED
    BY <1>1, <1>2, <2>1, UpAndDown
<1>16. DecodeRow(pos[k]) = rows[k]
  <2>1. rows[k] \in Row
    BY <1>1, <1>2
  <2>2. At(pos[k], EncodeRow(rows[k]))
    BY <1>2 DEF Layout
  <2>3. pos[k] \in Nat \ {0}
    BY <1>12
  <2> QED
    BY <2>1, <2>2, <2>3, RowReadsBack
<1> QED
  BY <1>2, <1>9, <1>14, <1>15, <1>16

LEMMA SearchHolds == RowInv /\ Search => RowInv'
<1> SUFFICES ASSUME RowInv, Search PROVE RowInv'
  OBVIOUS
<1>1. TableOK /\ rows \in Seq(Row) /\ buffer = Buffer(rows) /\ query \in Query /\ Sorted
  BY DEF RowInv, TableOK
<1>2. rows' = rows /\ buffer' = buffer /\ query' = query
  BY DEF Search
<1>3. TableOK'
  BY <1>1, <1>2 DEF TableOK, Sorted, Buffer, EncodeRow
<1>4. PICK pos : pos = Position
  OBVIOUS
<1>5. BufferOK /\ Layout(pos)
  BY <1>1, <1>4, Positions
<1>6. Position' = pos
  BY <1>2, <1>4 DEF Position, begin, EncodeRow
<1>7. PICK n \in Nat : n = Len(rows) /\ n = Len(rows')
  BY <1>1, <1>2
<1>8. PICK a \in 1..(n + 1), b \in 1..(n + 1) : Between(pos, a, b)
  BY <1>4, <1>7 DEF RowInv, SearchOK
<1>9. a <= b /\ itMin = pos[a] /\ itMax = pos[b]
  BY <1>8 DEF Between
<1>10. PICK mid : mid = Middle
  OBVIOUS
<1>11. PICK k \in 1..n :
          /\ a <= k /\ k < b
          /\ mid = pos[k]
          /\ Increment(mid) = pos[k + 1]
          /\ DecodeRow(mid) = rows[k]
  <2>1. itMin # itMax
    BY DEF Search
  <2> QED
    BY <1>1, <1>4, <1>5, <1>7, <1>9, <1>10, <2>1, MiddleRow
<1>12. rows \in Seq(Row)
  BY <1>1
<1>13. DOMAIN rows = 1..n /\ \A i \in 1..n : rows[i] \in Row
  <2>1. DOMAIN rows = 1..n
    <3>1. Len(rows) = n
      BY <1>7
    <3>2. DOMAIN rows = 1..Len(rows)
      BY <1>12
    <3> QED
      BY <3>1, <3>2
  <2>2. \A i \in DOMAIN rows : rows[i] \in Row
    BY <1>12
  <2> QED
    BY <2>1, <2>2
<1>14. rows[k] \in Row
  BY <1>13
<1>15. RowLess(DecodeRow(mid), query) <=> Precedes(rows[k], query)
  BY <1>1, <1>11, <1>14, RowLessIs
<1>16. CASE Precedes(rows[k], query)
  <2>1. itMin' = pos[k + 1] /\ itMax' = pos[b]
    BY <1>9, <1>10, <1>11, <1>15, <1>16 DEF Search
  <2>2. ASSUME NEW i \in 1..((k + 1) - 1) PROVE Precedes(rows[i], query)
    <3>1. CASE i = k
      BY <1>16, <3>1
    <3>2. CASE i # k
      <4>1. i \in 1..n /\ i < k
        BY <3>2
      <4>2. rows[i] \in Row /\ Precedes(rows[i], rows[k])
        BY <1>1, <1>13, <4>1 DEF Sorted
      <4> QED
        BY <1>1, <1>14, <1>16, <4>2, Transitive
    <3> QED
      BY <3>1, <3>2
  <2>3. \A i \in b..n : ~Precedes(rows[i], query)
    BY <1>7, <1>8 DEF Between
  <2>4. k + 1 <= b /\ k + 1 \in 1..(n + 1)
    BY <1>11
  <2>5. Between(pos, k + 1, b)'
    BY <1>2, <1>7, <2>1, <2>2, <2>3, <2>4 DEF Between, Precedes
  <2> QED
    BY <1>3, <1>6, <1>7, <2>4, <2>5 DEF RowInv, SearchOK
<1>17. CASE ~Precedes(rows[k], query)
  <2>1. itMin' = pos[a] /\ itMax' = pos[k]
    BY <1>9, <1>10, <1>11, <1>15, <1>17 DEF Search
  <2>2. ASSUME NEW i \in k..n PROVE ~Precedes(rows[i], query)
    <3>1. CASE i = k
      BY <1>17, <3>1
    <3>2. CASE i # k
      <4>1. i \in 1..n /\ k < i
        BY <3>2
      <4>2. rows[i] \in Row /\ Precedes(rows[k], rows[i])
        BY <1>1, <1>13, <4>1 DEF Sorted
      <4>3. Precedes(rows[i], query) => Precedes(rows[k], query)
        BY <1>1, <1>14, <4>2, Transitive
      <4> QED
        BY <1>17, <4>3
    <3> QED
      BY <3>1, <3>2
  <2>3. \A i \in 1..(a - 1) : Precedes(rows[i], query)
    BY <1>8 DEF Between
  <2>4. a <= k /\ k \in 1..(n + 1)
    BY <1>11
  <2>5. Between(pos, a, k)'
    BY <1>2, <1>7, <2>1, <2>2, <2>3, <2>4 DEF Between, Precedes
  <2> QED
    BY <1>3, <1>6, <1>7, <2>4, <2>5 DEF RowInv, SearchOK
<1> QED
  BY <1>16, <1>17

LEMMA StutterHolds == RowInv /\ UNCHANGED vars => RowInv'
<1> SUFFICES ASSUME RowInv, UNCHANGED vars PROVE RowInv'
  OBVIOUS
<1>1. rows' = rows /\ buffer' = buffer /\ query' = query /\ itMin' = itMin /\ itMax' = itMax
  BY DEF vars
<1>2. TableOK'
  BY <1>1 DEF RowInv, TableOK, Sorted, Buffer, EncodeRow
<1>3. PICK pos : pos = Position
  OBVIOUS
<1>4. Position' = pos
  BY <1>1, <1>3 DEF Position, begin, EncodeRow
<1>5. PICK a \in 1..(Len(rows) + 1), b \in 1..(Len(rows) + 1) : Between(pos, a, b)
  BY <1>3 DEF RowInv, SearchOK
<1>6. Between(pos, a, b)'
  BY <1>1, <1>5 DEF Between, Precedes
<1> QED
  BY <1>1, <1>2, <1>4, <1>6 DEF RowInv, SearchOK

LEMMA RowInvHolds == Spec => []RowInv
<1>1. RowInv /\ [Next]_vars => RowInv'
  BY SearchHolds, StutterHolds DEF Next
<1> QED
  BY <1>1, InitHolds, PTL DEF Spec
-----------------------------------------------------------------------------
(* WHAT FOLLOWS IN EVERY STATE OF THE SEARCH. *)
LEMMA IteratesFollows == RowInv => IteratesRows
<1> SUFFICES ASSUME RowInv PROVE IteratesRows
  OBVIOUS
<1>1. rows \in Seq(Row) /\ buffer = Buffer(rows)
  BY DEF RowInv, TableOK
<1>2. PICK pos : pos = Position
  OBVIOUS
<1>3. BufferOK /\ Layout(pos)
  BY <1>1, <1>2, Positions
<1>4. PICK n \in Nat : n = Len(rows)
  BY <1>1
<1>5. DOMAIN pos = 1..(n + 1) /\ \A i \in 1..(n + 1) : pos[i] \in Nat
  BY <1>3, <1>4 DEF Layout
<1>6. TypeOK
  <2>1. PICK a \in 1..(n + 1), b \in 1..(n + 1) : a <= b /\ itMin = pos[a] /\ itMax = pos[b]
    BY <1>2, <1>4 DEF RowInv, SearchOK, Between
  <2>2. itMin <= itMax
    <3>1. CASE a = b
      BY <1>5, <2>1, <3>1
    <3>2. CASE a < b
      BY <1>1, <1>3, <1>4, <1>5, <2>1, <3>2, Increasing
    <3> QED
      BY <2>1, <3>1, <3>2
  <2>3. buffer \in Seq(0..(2 * Base - 1))
    BY <1>3 DEF BufferOK, Byte
  <2> QED
    BY <1>2, <1>5, <2>1, <2>2, <2>3 DEF TypeOK
<1>7. ASSUME NEW i \in 1..n
      PROVE  /\ DecodeRow(pos[i]) = rows[i]
             /\ Increment(pos[i]) = pos[i + 1]
             /\ Decrement(pos[i + 1]) = pos[i]
  <2>1. pos[i] \in Nat /\ pos[i] >= 2 /\ pos[i + 1] \in Nat /\ pos[i] < pos[i + 1]
    BY <1>1, <1>3, <1>4, Rows
  <2>2. DecodeRow(pos[i]) = rows[i]
    <3>1. rows[i] \in Row
      BY <1>1, <1>4
    <3>2. At(pos[i], EncodeRow(rows[i]))
      BY <1>3, <1>4 DEF Layout
    <3>3. pos[i] \in Nat \ {0}
      BY <2>1
    <3> QED
      BY <1>3, <3>1, <3>2, <3>3, RowReadsBack
  <2>3. Increment(pos[i]) = pos[i + 1]
    <3>1. pos[i] \in pos[i]..(pos[i + 1] - 1)
      BY <2>1
    <3> QED
      BY <1>1, <1>3, <1>4, <3>1, UpAndDown
  <2>4. Decrement(pos[i + 1]) = pos[i]
    <3>1. pos[i + 1] \in (pos[i] + 1)..pos[i + 1]
      BY <2>1
    <3> QED
      BY <1>1, <1>3, <1>4, <3>1, UpAndDown
  <2> QED
    BY <2>2, <2>3, <2>4
<1> QED
  BY <1>2, <1>4, <1>6, <1>7 DEF IteratesRows

(* The rows before itMin, and those from itMax on, by number. *)
LEMMA Places ==
    ASSUME RowInv
    PROVE  \E a, b \in 1..(Len(rows) + 1) :
               /\ Between(Position, a, b)
               /\ \A i \in 1..Len(rows) : /\ Position[i] < itMin <=> i < a
                                          /\ Position[i] >= itMin <=> i >= a
                                          /\ Position[i] >= itMax <=> i >= b
<1>1. rows \in Seq(Row) /\ buffer = Buffer(rows)
  BY DEF RowInv, TableOK
<1>2. PICK pos : pos = Position
  OBVIOUS
<1>3. BufferOK /\ Layout(pos)
  BY <1>1, <1>2, Positions
<1>4. PICK n \in Nat : n = Len(rows)
  BY <1>1
<1>5. \A i \in 1..(n + 1) : pos[i] \in Nat
  BY <1>3, <1>4 DEF Layout
<1>6. PICK a \in 1..(n + 1), b \in 1..(n + 1) : Between(pos, a, b)
  BY <1>2, <1>4 DEF RowInv, SearchOK
<1>7. itMin = pos[a] /\ itMax = pos[b]
  BY <1>6 DEF Between
<1>8. ASSUME NEW i \in 1..n, NEW c \in 1..(n + 1)
      PROVE  (pos[i] < pos[c] <=> i < c) /\ (pos[i] >= pos[c] <=> i >= c)
  <2>1. i \in 1..(n + 1)
    OBVIOUS
  <2>2. PICK x \in Nat, y \in Nat : x = pos[i] /\ y = pos[c]
    BY <1>5, <2>1
  <2>3. i < c => x < y
    BY <1>1, <1>3, <1>4, <2>1, <2>2, Increasing
  <2>4. c < i => y < x
    BY <1>1, <1>3, <1>4, <2>1, <2>2, Increasing
  <2>5. c = i => x = y
    BY <2>2
  <2> QED
    BY <2>2, <2>3, <2>4, <2>5
<1> QED
  BY <1>2, <1>4, <1>6, <1>7, <1>8

LEMMA BracketsFollows == RowInv => Brackets
<1> SUFFICES ASSUME RowInv PROVE Brackets
  OBVIOUS
<1>1. PICK a \in 1..(Len(rows) + 1), b \in 1..(Len(rows) + 1) :
          /\ Between(Position, a, b)
          /\ \A i \in 1..Len(rows) : /\ Position[i] < itMin <=> i < a
                                     /\ Position[i] >= itMin <=> i >= a
                                     /\ Position[i] >= itMax <=> i >= b
  BY Places
<1>2. PICK n \in Nat : n = Len(rows)
  BY DEF RowInv, TableOK
<1>3. ASSUME NEW i \in 1..n, Position[i] < itMin PROVE Precedes(rows[i], query)
  <2>1. i \in 1..(a - 1)
    BY <1>1, <1>2, <1>3
  <2> QED
    BY <1>1, <2>1 DEF Between
<1>4. ASSUME NEW i \in 1..n, Position[i] >= itMax PROVE ~Precedes(rows[i], query)
  <2>1. i \in b..n
    BY <1>1, <1>2, <1>4
  <2> QED
    BY <1>1, <1>2, <2>1 DEF Between
<1> QED
  BY <1>2, <1>3, <1>4 DEF Brackets

LEMMA AnswerFollows == RowInv => AnswerComplete
<1> SUFFICES ASSUME RowInv, itMin = itMax, NEW last \in Value
             PROVE  Answer(last) = {rows[i] : i \in {j \in 1..Len(rows) :
                                       /\ rows[j][1] = query[1]
                                       /\ Len(query) > 1 => rows[j][2] \in query[2]..last}}
  BY DEF AnswerComplete
<1>1. rows \in Seq(Row) /\ Sorted /\ query \in Query
  BY DEF RowInv, TableOK
<1>2. PICK n \in Nat : n = Len(rows) /\ DOMAIN rows = 1..n
  BY <1>1
<1>3. PICK a \in 1..(n + 1), b \in 1..(n + 1) :
          /\ Between(Position, a, b)
          /\ \A i \in 1..n : /\ Position[i] < itMin <=> i < a
                             /\ Position[i] >= itMin <=> i >= a
                             /\ Position[i] >= itMax <=> i >= b
  BY <1>2, Places
<1>4. \A i \in 1..n : i < a => Precedes(rows[i], query)
  <2>1. \A i \in 1..n : i < a => i \in 1..(a - 1)
    OBVIOUS
  <2> QED
    BY <1>3, <2>1 DEF Between
<1>5. \A i \in 1..n : i >= a => ~Precedes(rows[i], query)
  <2>1. \A i \in 1..n : i >= a => i \in b..n
    BY <1>3
  <2> QED
    BY <1>2, <1>3, <2>1 DEF Between
<1>6. PICK w \in Nat \ {0} : w = Width
  BY RowAssumption DEF RowAssumption
<1>7. PICK l \in 1..2 : /\ l <= w
                        /\ Len(query) = l
                        /\ DOMAIN query = 1..l
                        /\ \A c \in 1..l : query[c] \in Nat
  <2>1. PICK l \in 1..2 : l <= w /\ query \in [1..l -> Value]
    <3>1. PICK l \in 1..2 \cap 1..Width : query \in [1..l -> Value]
      BY <1>1 DEF Query
    <3> QED
      BY <1>6, <3>1
  <2>2. \A v \in Value : v \in Nat
    BY RowAssumption DEF RowAssumption, Value
  <2> QED
    BY <2>1, <2>2
<1>8. \A i \in 1..n : DOMAIN rows[i] = 1..w /\ \A c \in 1..w : rows[i][c] \in Nat
  <2> SUFFICES ASSUME NEW i \in 1..n
               PROVE  DOMAIN rows[i] = 1..w /\ \A c \in 1..w : rows[i][c] \in Nat
    OBVIOUS
  <2>1. rows[i] \in Row
    BY <1>1, <1>2
  <2> QED
    BY <1>6, <2>1 DEF Row, Value
<1>9. last \in Nat
  BY RowAssumption DEF RowAssumption, Value
<1> DEFINE wanted(i) == rows[i][1] = query[1] /\ (Len(query) > 1 => rows[i][2] <= last)
           asked(i) == rows[i][1] = query[1] /\ (Len(query) > 1 => rows[i][2] \in query[2]..last)
           from == {i \in 1..Len(rows) : Position[i] >= itMin}
<1>10. from = a..n
  BY <1>2, <1>3
(* A row that is not less than the query is asked for when it is wanted.   *)
<1>11. ASSUME NEW i \in a..n, wanted(i) PROVE asked(i)
  <2>1. i \in 1..n /\ ~Precedes(rows[i], query)
    BY <1>5
  <2>2. SUFFICES ASSUME l > 1 PROVE rows[i][2] >= query[2]
    BY <1>6, <1>7, <1>8, <1>9, <1>11, <2>1
  <2>3. SUFFICES ASSUME rows[i][2] < query[2] PROVE FALSE
    BY <1>6, <1>7, <1>8, <2>1, <2>2
  <2>4. 2 \in DOMAIN rows[i] /\ 2 \in DOMAIN query
    BY <1>6, <1>7, <1>8, <2>1, <2>2
  <2>5. \A c \in 1..(2 - 1) : rows[i][c] = query[c]
    BY <1>11
  <2> QED
    BY <2>1, <2>3, <2>4, <2>5 DEF Precedes
(* A row that is asked for is not less than the query.                     *)
<1>12. ASSUME NEW i \in 1..n, asked(i) PROVE i \in a..n
  <2> SUFFICES ASSUME i < a PROVE FALSE
    BY <1>3
  <2>1. Precedes(rows[i], query)
    BY <1>4
  <2>2. PICK c \in 1..l : rows[i][c] < query[c]
    BY <1>6, <1>7, <2>1 DEF Precedes
  <2>3. CASE c = 1
    BY <1>6, <1>7, <1>8, <1>12, <2>2, <2>3
  <2>4. CASE c # 1
    <3>1. c = 2 /\ Len(query) > 1
      BY <1>6, <1>7, <2>4
    <3>2. rows[i][2] \in query[2]..last
      BY <1>12, <3>1
    <3>3. query[2] \in Nat /\ rows[i][2] \in Nat
      BY <1>6, <1>7, <1>8, <3>1
    <3> QED
      BY <2>2, <3>1, <3>2, <3>3
  <2> QED
    BY <2>3, <2>4
(* The rows between the place of the query and a row that is asked for are *)
(* wanted. *)
<1>13. ASSUME NEW i \in 1..n, asked(i), NEW k \in a..n, k <= i PROVE wanted(k)
  <2>1. CASE k = i
    BY <1>6, <1>7, <1>8, <1>9, <1>13, <2>1
  <2>2. CASE k < i
    <3>1. k \in 1..n /\ Precedes(rows[k], rows[i]) /\ ~Precedes(rows[k], query)
      BY <1>1, <1>2, <1>5, <2>2 DEF Sorted
    <3>2. PICK c \in 1..w : /\ rows[k][c] < rows[i][c]
                            /\ \A d \in 1..(c - 1) : rows[k][d] = rows[i][d]
      BY <1>8, <3>1 DEF Precedes
    <3>3. rows[k][1] = rows[i][1]
      <4>1. CASE c = 1
        <5>1. rows[k][1] < query[1]
          BY <1>13, <3>2, <4>1
        <5>2. 1 \in DOMAIN rows[k] /\ 1 \in DOMAIN query
          BY <1>6, <1>7, <1>8, <3>1
        <5>3. \A d \in 1..(1 - 1) : rows[k][d] = query[d]
          OBVIOUS
        <5>4. Precedes(rows[k], query)
          BY <5>1, <5>2, <5>3 DEF Precedes
        <5> QED
          BY <3>1, <5>4
      <4>2. CASE c # 1
        <5>1. 1 \in 1..(c - 1)
          BY <4>2
        <5> QED
          BY <3>2, <5>1
      <4> QED
        BY <4>1, <4>2
    <3>4. ASSUME Len(query) > 1 PROVE rows[k][2] <= last
      <4>1. PICK x \in Nat, y \in Nat : x = rows[k][2] /\ y = rows[i][2]
        <5>1. 2 \in 1..w
          BY <1>6, <1>7, <3>4
        <5> QED
          BY <1>8, <3>1, <5>1
      <4>2. rows[i][2] \in query[2]..last /\ query[2] \in Nat
        BY <1>6, <1>7, <1>13, <3>4
      <4>3. y <= last
        BY <1>9, <4>1, <4>2
      <4>4. c # 1
        BY <1>6, <1>7, <1>8, <3>1, <3>2, <3>3
      <4>5. x <= y
        <5>1. CASE c = 2
          BY <3>2, <4>1, <5>1
        <5>2. CASE c > 2
          <6>1. 2 \in 1..(c - 1)
            BY <5>2
          <6> QED
            BY <3>2, <4>1, <6>1
        <5> QED
          BY <4>4, <5>1, <5>2
      <4> QED
        BY <1>9, <4>1, <4>3, <4>5
    <3> QED
      BY <1>13, <3>3, <3>4
  <2> QED
    BY <1>13, <2>1, <2>2
<1> HIDE DEF wanted, asked, from
<1>14. PICK J : J = {j \in from : \A k \in from : k <= j => wanted(k)}
  OBVIOUS
<1>15. PICK K : K = {j \in 1..n : asked(j)}
  OBVIOUS
<1>16. J = K
  <2>1. ASSUME NEW j \in J PROVE j \in K
    <3>1. j \in from /\ j \in a..n /\ j <= j /\ \A k \in from : k <= j => wanted(k)
      BY <1>10, <1>14
    <3>2. wanted(j)
      BY <3>1
    <3> QED
      BY <1>11, <1>15, <3>1, <3>2
  <2>2. ASSUME NEW j \in K PROVE j \in J
    <3>1. j \in 1..n /\ asked(j)
      BY <1>15
    <3>2. j \in from
      BY <1>10, <1>12, <3>1
    <3>3. ASSUME NEW k \in from, k <= j PROVE wanted(k)
      BY <1>10, <1>13, <3>1, <3>3
    <3> QED
      BY <1>14, <3>2, <3>3
  <2> QED
    BY <2>1, <2>2
<1>17. Answer(last) = {rows[i] : i \in J}
  BY <1>14 DEF Answer, from, wanted
<1>18. Answer(last) = {rows[i] : i \in K}
  BY <1>16, <1>17
<1> QED
  BY <1>2, <1>15, <1>18 DEF asked
-----------------------------------------------------------------------------
(* Whatever the base, the columns, the values and the rows: in every state *)
(* of the search, each row reads back from the bytes of the table as it    *)
(* was added, ++ leads from a row to the next and -- back again, and both  *)
(* iterators are at starts of rows, in order. *)
THEOREM TableIteratesRows == Spec => []IteratesRows
  BY RowInvHolds, IteratesFollows, PTL

(* Every row before itMin is less than the query and none from itMax on    *)
(* is: when they meet, that is the lower bound. *)
THEOREM TableBrackets == Spec => []Brackets
  BY RowInvHolds, BracketsFollows, PTL

(* Reading from the lower bound to the first row that differs finds every  *)
(* row that a query asks for, and no other. *)
THEOREM TableAnswerComplete == Spec => []AnswerComplete
  BY RowInvHolds, AnswerFollows, PTL
=============================================================================
