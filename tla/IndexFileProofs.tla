-------------------------- MODULE IndexFileProofs --------------------------
(***************************************************************************)
(* Proofs about the file format, for any strings, integers and rows: a     *)
(* string table, a table, a section, a whole index and a table of contents *)
(* that were written read back as they were (IndexRoundTrip, TocRoundTrip), *)
(* whatever is behind them; so an index file, and every entry of an        *)
(* archive, open as the index that was saved (FileRoundTrip,               *)
(* ArchiveContents).                                                       *)
(*                                                                         *)
(* A file is a sequence of cells, one for each thing written, at the place *)
(* where it was written.  What is shown of a writer is the items it writes *)
(* (Ends gives their offsets); what is shown of a reader is that it takes  *)
(* items that it Sees off the front and leaves the rest (HasRead).  A      *)
(* round trip is then one lemma for each kind of item, and induction over  *)
(* the length of a list of them.                                           *)
(***************************************************************************)
EXTENDS IndexBuild, FiniteSetTheorems, SequenceTheorems, WellFoundedInduction, TLAPS

-----------------------------------------------------------------------------
(* INDUCTION.  The theorems of the library take an operator as a           *)
(* parameter and cannot be used for a given set or function; these do.     *)

(* Every set of natural numbers that is not empty has a least member.      *)
LEMMA Least ==
    ASSUME NEW T \in SUBSET Nat, T # {}
    PROVE  \E n \in T : \A m \in T : n <= m
<1> DEFINE R == OpToRel(<, Nat)
<1>1. IsWellFoundedOn(R, Nat)
  BY NatLessThanWellFounded
<1>2. \A x, y \in Nat : y < x => <<y, x>> \in R
  BY DEF OpToRel
<1> HIDE DEF R
<1>3. PICK x \in T : \A y \in T : ~ (<<y, x>> \in R)
  BY <1>1, WFMin
<1>4. \A m \in T : ~(m < x)
  BY <1>2, <1>3
<1> QED
  BY <1>4

(* Induction over the natural numbers, for a set of them.                  *)
LEMMA Induct ==
    ASSUME NEW T \in SUBSET Nat, 0 \in T, \A n \in T : n + 1 \in T
    PROVE  T = Nat
<1> SUFFICES ASSUME Nat \ T # {} PROVE FALSE
  OBVIOUS
<1>1. PICK n \in Nat \ T : \A m \in Nat \ T : n <= m
  BY Least
<1>2. n # 0 /\ n - 1 \in Nat /\ n - 1 \in T
  BY <1>1
<1> QED
  BY <1>1, <1>2

(* A function that is defined at each i from its value at an earlier place *)
(* exists.  G[i] is the step at i, and `next` says from where. *)
GoesBack(next, n) == \A i \in 1..n : next[i] \in 0..(i - 1)

HasValues(n, V, base, next, G) ==
    \E f \in [0..n -> V] : f[0] = base /\ \A i \in 1..n : f[i] = G[i][f[next[i]]]

LEMMA Recursion ==
    ASSUME NEW n \in Nat, NEW V, NEW base \in V, NEW next, NEW G \in [1..n -> [V -> V]],
           GoesBack(next, n)
    PROVE  HasValues(n, V, base, next, G)
<1> USE DEF GoesBack
<1> DEFINE Upto(m) == \E f \in [0..m -> V] : f[0] = base
                          /\ \A i \in 1..m : f[i] = G[i][f[next[i]]]
           T == {m \in Nat : m <= n => Upto(m)}
<1>1. Upto(0)
  <2> DEFINE f == [i \in 0..0 |-> base]
  <2>1. f \in [0..0 -> V] /\ f[0] = base /\ \A i \in 1..0 : f[i] = G[i][f[next[i]]]
    OBVIOUS
  <2> QED
    BY <2>1
<1>2. ASSUME NEW m \in Nat, m + 1 <= n, Upto(m)
      PROVE  Upto(m + 1)
  <2>1. PICK f \in [0..m -> V] : f[0] = base /\ \A i \in 1..m : f[i] = G[i][f[next[i]]]
    BY <1>2
  <2>2. m + 1 \in 1..n /\ next[m + 1] \in 0..m
    BY <1>2
  <2>3. PICK v \in V : v = G[m + 1][f[next[m + 1]]]
    BY <2>2
  <2> DEFINE g == [i \in 0..(m + 1) |-> IF i = m + 1 THEN v ELSE f[i]]
  <2>4. g \in [0..(m + 1) -> V]
    BY <1>2
  <2>5. g[0] = base /\ \A i \in 0..m : g[i] = f[i]
    BY <1>2, <2>1
  <2>6. g[m + 1] = v
    BY <1>2
  <2> HIDE DEF g
  <2>7. ASSUME NEW i \in 1..(m + 1)
        PROVE  g[i] = G[i][g[next[i]]]
    <3>1. CASE i = m + 1
      BY <3>1, <2>2, <2>3, <2>5, <2>6
    <3>2. CASE i \in 1..m
      <4>1. next[i] \in 0..m /\ f[i] = G[i][f[next[i]]]
        BY <3>2, <1>2, <2>1
      <4> QED
        BY <3>2, <4>1, <2>5
    <3> QED
      BY <3>1, <3>2, <1>2
  <2> QED
    BY <2>4, <2>5, <2>7
<1> HIDE DEF Upto
<1>3. T = Nat
  <2>1. 0 \in T
    BY <1>1
  <2>2. \A m \in T : m + 1 \in T
    BY <1>2
  <2> HIDE DEF T
  <2>3. T \in SUBSET Nat
    BY DEF T
  <2> QED
    BY <2>1, <2>2, <2>3, Induct
<1>4. Upto(n)
  <2>1. n \in T
    BY <1>3
  <2> QED
    BY <2>1
<1> QED
  BY <1>4 DEF Upto, HasValues

(* The same for a function that is defined upwards, step by step.          *)
Climbs(n, V, base, G) ==
    \E f \in [1..n -> V] : f[1] = base /\ \A i \in 2..n : f[i] = G[i][f[i - 1]]

LEMMA Climbing ==
    ASSUME NEW n \in Nat \ {0}, NEW V, NEW base \in V, NEW G \in [2..n -> [V -> V]]
    PROVE  Climbs(n, V, base, G)
<1>1. PICK m \in Nat : m = n - 1
  OBVIOUS
<1>2. PICK next : next = [i \in 1..m |-> i - 1]
  OBVIOUS
<1>3. PICK H : H = [i \in 1..m |-> G[i + 1]]
  OBVIOUS
<1>4. H \in [1..m -> [V -> V]] /\ \A i \in 1..m : H[i] = G[i + 1]
  BY <1>1, <1>3
<1>5. GoesBack(next, m) /\ \A i \in 1..m : next[i] = i - 1
  BY <1>2 DEF GoesBack
<1>6. HasValues(m, V, base, next, H)
  BY <1>4, <1>5, Recursion
<1>7. PICK g \in [0..m -> V] : g[0] = base /\ \A i \in 1..m : g[i] = H[i][g[next[i]]]
  BY <1>6 DEF HasValues
<1>8. PICK f : f = [i \in 1..n |-> g[i - 1]]
  OBVIOUS
<1>9. f \in [1..n -> V] /\ \A i \in 1..n : f[i] = g[i - 1]
  BY <1>1, <1>8
<1>10. f[1] = base
  BY <1>7, <1>9
<1>11. ASSUME NEW i \in 2..n
       PROVE  f[i] = G[i][f[i - 1]]
  <2>1. PICK k \in 1..m : k = i - 1
    BY <1>1
  <2>2. g[k] = G[k + 1][g[k - 1]]
    BY <1>4, <1>5, <1>7
  <2>3. f[i] = g[k] /\ f[i - 1] = g[k - 1] /\ G[k + 1] = G[i]
    BY <1>9, <2>1
  <2> QED
    BY <2>2, <2>3
<1> QED
  BY <1>9, <1>10, <1>11 DEF Climbs

(* A function that is defined from 0 upwards, step by step, exists.        *)
Counts(n, V, base, G) ==
    \E f \in [0..n -> V] : f[0] = base /\ \A i \in 1..n : f[i] = G[i][f[i - 1]]

LEMMA Counting ==
    ASSUME NEW n \in Nat, NEW V, NEW base \in V, NEW G \in [1..n -> [V -> V]]
    PROVE  Counts(n, V, base, G)
<1>1. PICK next : next = [i \in 1..n |-> i - 1]
  OBVIOUS
<1>2. GoesBack(next, n) /\ \A i \in 1..n : next[i] = i - 1
  BY <1>1 DEF GoesBack
<1>3. HasValues(n, V, base, next, G)
  BY <1>2, Recursion
<1>4. PICK f \in [0..n -> V] : f[0] = base /\ \A i \in 1..n : f[i] = G[i][f[next[i]]]
  BY <1>3 DEF HasValues
<1>5. \A i \in 1..n : f[i] = G[i][f[i - 1]]
  BY <1>2, <1>4
<1> QED
  BY <1>4, <1>5 DEF Counts

(* FlattenSeq, by its parts up to each of them.                            *)
Flattens(seqs, f, S) ==
    /\ f \in [1..Len(seqs) -> Seq(S)]
    /\ f[1] = seqs[1]
    /\ \A i \in 2..Len(seqs) : f[i] = f[i - 1] \o seqs[i]
    /\ FlattenSeq(seqs) = f[Len(seqs)]

LEMMA Flattening ==
    ASSUME NEW S, NEW seqs \in Seq(Seq(S)), Len(seqs) # 0
    PROVE  \E f : Flattens(seqs, f, S)
<1>1. PICK n \in Nat \ {0} : n = Len(seqs)
  OBVIOUS
<1>2. seqs \in [1..n -> Seq(S)]
  BY <1>1
<1>3. PICK G : G = [i \in 2..n |-> [v \in Seq(S) |-> v \o seqs[i]]]
  OBVIOUS
<1>4. G \in [2..n -> [Seq(S) -> Seq(S)]]
  BY <1>2, <1>3
<1>5. seqs[1] \in Seq(S)
  BY <1>2
<1>6. Climbs(n, Seq(S), seqs[1], G)
  BY <1>4, <1>5, Climbing
<1>7. PICK f \in [1..n -> Seq(S)] : f[1] = seqs[1] /\ \A i \in 2..n : f[i] = G[i][f[i - 1]]
  BY <1>6 DEF Climbs
<1>8. \A i \in 2..n : f[i] = f[i - 1] \o seqs[i]
  <2> TAKE i \in 2..n
  <2>1. i - 1 \in 1..n /\ f[i - 1] \in Seq(S)
    OBVIOUS
  <2>2. PICK v \in Seq(S) : v = f[i - 1]
    BY <2>1
  <2>3. G[i][v] = v \o seqs[i]
    BY <1>3, <2>2
  <2> QED
    BY <1>7, <2>2, <2>3
<1> DEFINE IsF(g) == g = [i \in 1..n |-> IF i = 1 THEN seqs[i] ELSE g[i - 1] \o seqs[i]]
           F == CHOOSE g : IsF(g)
<1>9. IsF(f)
  <2>1. ASSUME NEW i \in 1..n PROVE f[i] = IF i = 1 THEN seqs[i] ELSE f[i - 1] \o seqs[i]
    <3>1. CASE i = 1
      BY <1>7, <3>1
    <3>2. CASE i \in 2..n
      <4>1. i # 1
        BY <3>2
      <4>2. f[i] = f[i - 1] \o seqs[i]
        BY <1>8, <3>2
      <4> QED
        BY <4>1, <4>2
    <3>3. i = 1 \/ i \in 2..n
      OBVIOUS
    <3> QED
      BY <3>1, <3>2, <3>3
  <2> QED
    BY <1>7, <2>1
<1>10. FlattenSeq(seqs) = F[n]
  BY <1>1 DEF FlattenSeq
<1>11. IsF(F)
  <2> HIDE DEF IsF
  <2> QED
    BY <1>9
<1> HIDE DEF F
<1>12. \A i \in 1..n : F[i] = f[i]
  <2> DEFINE T == {m \in Nat : m + 1 \in 1..n => F[m + 1] = f[m + 1]}
  <2>1. 0 \in T
    BY <1>7, <1>11
  <2>2. ASSUME NEW m \in Nat, m \in T PROVE m + 1 \in T
    <3> SUFFICES ASSUME m + 2 \in 1..n PROVE F[m + 2] = f[m + 2]
      OBVIOUS
    <3>0. PICK i \in 2..n : i = m + 2 /\ i - 1 = m + 1 /\ i \in 1..n /\ i # 1
      BY <2>2
    <3>1. F[i - 1] = f[i - 1]
      BY <2>2, <3>0
    <3>2. F[i] = F[i - 1] \o seqs[i]
      BY <1>11, <3>0
    <3>3. f[i] = f[i - 1] \o seqs[i]
      BY <1>8, <3>0
    <3> QED
      BY <3>0, <3>1, <3>2, <3>3
  <2> HIDE DEF T
  <2>3. T = Nat
    <3>1. T \in SUBSET Nat
      BY DEF T
    <3> QED
      BY <2>1, <2>2, <3>1, Induct
  <2> TAKE i \in 1..n
  <2>4. i - 1 \in T
    BY <2>3
  <2> QED
    BY <2>4 DEF T
<1>13. FlattenSeq(seqs) = f[n]
  BY <1>10, <1>12
<1> QED
  BY <1>1, <1>7, <1>8, <1>13 DEF Flattens

LEMMA FlattenType ==
    ASSUME NEW S, NEW seqs \in Seq(Seq(S))
    PROVE  FlattenSeq(seqs) \in Seq(S)
<1>1. CASE Len(seqs) = 0
  <2>1. seqs = <<>>
    BY <1>1, EmptySeq
  <2> QED
    BY <1>1, <2>1 DEF FlattenSeq
<1>2. CASE Len(seqs) # 0
  <2>1. PICK f : Flattens(seqs, f, S)
    BY <1>2, Flattening
  <2> QED
    BY <1>2, <2>1 DEF Flattens
<1> QED
  BY <1>1, <1>2

LEMMA FlattenEmpty == FlattenSeq(<<>>) = <<>>
BY DEF FlattenSeq

(* A flattened sequence is its first part, then the others.                *)
LEMMA FlattenFirst ==
    ASSUME NEW S, NEW seqs \in Seq(Seq(S)), Len(seqs) # 0
    PROVE  FlattenSeq(seqs) = seqs[1] \o FlattenSeq(Tail(seqs))
<1>1. PICK n \in Nat \ {0} : n = Len(seqs)
  OBVIOUS
<1>2. seqs # <<>>
  BY <1>1, EmptySeq
<1>3. PICK t : t = Tail(seqs)
  OBVIOUS
<1>4. t \in Seq(Seq(S)) /\ Len(t) = n - 1
  BY <1>1, <1>2, <1>3, HeadTailProperties
<1>5. \A i \in 1..(n - 1) : t[i] = seqs[i + 1]
  BY <1>1, <1>2, <1>3
<1>6. PICK f : Flattens(seqs, f, S)
  BY <1>1, Flattening
<1>7. \A i \in 1..n : seqs[i] \in Seq(S)
  BY <1>1
<1>8. CASE n = 1
  <2>1. t = <<>>
    BY <1>4, <1>8, EmptySeq
  <2>2. FlattenSeq(seqs) = seqs[1]
    BY <1>1, <1>6, <1>8 DEF Flattens
  <2>3. seqs[1] \o <<>> = seqs[1]
    BY <1>7, <1>8, ConcatEmptySeq
  <2> QED
    BY <1>3, <2>1, <2>2, <2>3, FlattenEmpty
<1>9. CASE n # 1
  <2>1. PICK g : Flattens(t, g, S)
    BY <1>4, <1>9, Flattening
  <2>2. /\ f \in [1..n -> Seq(S)] /\ f[1] = seqs[1]
        /\ \A i \in 2..n : f[i] = f[i - 1] \o seqs[i]
        /\ FlattenSeq(seqs) = f[n]
    BY <1>1, <1>6 DEF Flattens
  <2>3. /\ g \in [1..(n - 1) -> Seq(S)] /\ g[1] = t[1]
        /\ \A i \in 2..(n - 1) : g[i] = g[i - 1] \o t[i]
        /\ FlattenSeq(t) = g[n - 1]
    BY <1>4, <2>1 DEF Flattens
  <2> DEFINE T == {m \in Nat : \A i \in 2..n, j \in 1..(n - 1) :
                      i = m + 2 /\ j = m + 1 => f[i] = seqs[1] \o g[j]}
  <2>4. ASSUME NEW i \in 2..n, NEW j \in 1..(n - 1), i = 0 + 2, j = 0 + 1
        PROVE  f[i] = seqs[1] \o g[j]
    <3>1. i = 2 /\ j = 1 /\ i - 1 = 1
      BY <2>4
    <3>2. f[i] = f[1] \o seqs[i]
      <4>1. f[i] = f[i - 1] \o seqs[i]
        BY <2>2
      <4> QED
        BY <3>1, <4>1
    <3>3. g[j] = seqs[i]
      <4>1. t[j] = seqs[j + 1] /\ j + 1 = i
        BY <1>5, <3>1
      <4> QED
        BY <2>3, <3>1, <4>1
    <3> QED
      BY <2>2, <3>2, <3>3
  <2>5. ASSUME NEW m \in Nat, m \in T,
               NEW i \in 2..n, NEW j \in 1..(n - 1), i = (m + 1) + 2, j = (m + 1) + 1
        PROVE  f[i] = seqs[1] \o g[j]
    <3>0. PICK k \in 1..(n - 1) : k = m + 1 /\ j = k + 1 /\ i = j + 1 /\ j \in 2..n /\ j = m + 2
                                   /\ j - 1 = k /\ i - 1 = j /\ j \in 2..(n - 1)
      BY <2>5
    <3>1. f[j] = seqs[1] \o g[k]
      BY <2>5, <3>0
    <3>2. f[i] = f[j] \o seqs[i]
      <4>1. f[i] = f[i - 1] \o seqs[i]
        BY <2>2
      <4> QED
        BY <3>0, <4>1
    <3>3. g[j] = g[k] \o seqs[i]
      <4>1. g[j] = g[j - 1] \o t[j]
        BY <2>3, <3>0
      <4>2. t[j] = seqs[j + 1]
        BY <1>5
      <4> QED
        BY <3>0, <4>1, <4>2
    <3>4. seqs[1] \in Seq(S) /\ g[k] \in Seq(S) /\ seqs[i] \in Seq(S)
      BY <1>7, <2>3, <3>0
    <3>5. (seqs[1] \o g[k]) \o seqs[i] = seqs[1] \o (g[k] \o seqs[i])
      <4>1. \A a, b, c \in Seq(S) : (a \o b) \o c = a \o (b \o c)
        BY ConcatAssociative, SMTT(40)
      <4> QED
        BY <3>4, <4>1, ZenonT(60)
    <3> QED
      BY <3>1, <3>2, <3>3, <3>5
  <2>6. T = Nat
    <3>1. T \in SUBSET Nat
      OBVIOUS
    <3>2. 0 \in T
      BY <2>4
    <3>3. ASSUME NEW m \in Nat, m \in T PROVE m + 1 \in T
      <4>1. \A i \in 2..n, j \in 1..(n - 1) :
                i = (m + 1) + 2 /\ j = (m + 1) + 1 => f[i] = seqs[1] \o g[j]
        BY <2>5, <3>3
      <4>2. m + 1 \in Nat
        OBVIOUS
      <4> QED
        BY <4>1, <4>2, Zenon
    <3> HIDE DEF T
    <3> QED
      BY <3>1, <3>2, <3>3, Induct
  <2>7. PICK m \in Nat : m = n - 2 /\ n = m + 2 /\ n - 1 = m + 1
    BY <1>9
  <2>8. f[n] = seqs[1] \o g[n - 1]
    <3>1. n \in 2..n /\ n - 1 \in 1..(n - 1)
      BY <1>9
    <3>2. m \in T
      BY <2>6
    <3> QED
      BY <2>7, <3>1, <3>2
  <2> QED
    BY <1>3, <2>2, <2>3, <2>8
<1> QED
  BY <1>8, <1>9

-----------------------------------------------------------------------------
(* Items, and where they are in a file.                                    *)
Kinds == {"data", "uint32", "string", "compressed", "buffer"}

Items(V) == [kind : Kinds, size : Nat, value : V]

(* end[i] is the offset after item i, and `from` that before the first.    *)
Ends(end, from, items) ==
    /\ end \in [0..Len(items) -> Nat]
    /\ end[0] = from
    /\ \A i \in 1..Len(items) :
          end[i] = OffsetOf(items[i].kind, end[i - 1]) + items[i].size

Cell(item, at) ==
    [kind |-> item.kind, size |-> item.size, value |-> item.value, at |-> at]

(* Alignment is by divisors of 8: it does not matter where a reader counts *)
(* from, if that is a multiple of 8.                                       *)
LEMMA OffsetFacts ==
    ASSUME NEW kind \in Kinds, NEW pos \in Nat
    PROVE  /\ OffsetOf(kind, pos) \in Nat
           /\ OffsetOf(kind, pos) >= pos
           /\ kind # "data" => OffsetOf(kind, pos) >= pos
           /\ \A m \in Nat : OffsetOf(kind, pos + 8 * m) = OffsetOf(kind, pos) + 8 * m
<1>1. \A p \in Nat : Aligned(p, 4) \in Nat /\ Aligned(p, 4) >= p
                     /\ Aligned(p, 8) \in Nat /\ Aligned(p, 8) >= p
  BY DEF Aligned
<1>2. \A p, m \in Nat : Aligned(p + 8 * m, 4) = Aligned(p, 4) + 8 * m
                        /\ Aligned(p + 8 * m, 8) = Aligned(p, 8) + 8 * m
  BY DEF Aligned
<1>3. CASE kind = "data"
  BY <1>3 DEF OffsetOf
<1>4. CASE kind = "uint32"
  BY <1>1, <1>2, <1>4 DEF OffsetOf
<1>5. CASE kind = "string"
  <2>1. \A p \in Nat : OffsetOf(kind, p) = Aligned(p, 4) + 4
    BY <1>5 DEF OffsetOf
  <2>2. \A m \in Nat : pos + 8 * m \in Nat
    OBVIOUS
  <2> QED
    BY <1>1, <1>2, <2>1, <2>2
<1>6. CASE kind = "compressed"
  <2>1. \A p \in Nat : OffsetOf(kind, p) = Aligned(p + 1, 4) + 4
    BY <1>6 DEF OffsetOf
  <2>2. \A m \in Nat : pos + 8 * m \in Nat /\ (pos + 8 * m) + 1 = (pos + 1) + 8 * m
    OBVIOUS
  <2>3. pos + 1 \in Nat
    OBVIOUS
  <2>4. \A m \in Nat : Aligned((pos + 1) + 8 * m, 4) = Aligned(pos + 1, 4) + 8 * m
    BY <1>2, <2>3
  <2> QED
    BY <1>1, <2>1, <2>2, <2>3, <2>4
<1>7. CASE kind = "buffer"
  <2>1. \A p \in Nat : OffsetOf(kind, p) = Aligned(Aligned(p + 1, 4) + 4, 8)
    BY <1>7 DEF OffsetOf, kMaxAlign
  <2>2. \A m \in Nat : pos + 8 * m \in Nat /\ (pos + 8 * m) + 1 = (pos + 1) + 8 * m
    OBVIOUS
  <2>3. pos + 1 \in Nat
    OBVIOUS
  <2>4. \A m \in Nat : Aligned((pos + 1) + 8 * m, 4) = Aligned(pos + 1, 4) + 8 * m
    BY <1>2, <2>3
  <2>5. PICK q \in Nat : q = Aligned(pos + 1, 4) + 4
    BY <1>1, <2>3
  <2>6. \A m \in Nat : Aligned(q + 8 * m, 8) = Aligned(q, 8) + 8 * m
    BY <1>2
  <2>7. \A m \in Nat : OffsetOf(kind, pos + 8 * m) = Aligned(q, 8) + 8 * m
    <3> TAKE m \in Nat
    <3>1. Aligned((pos + 8 * m) + 1, 4) + 4 = q + 8 * m
      <4>1. (pos + 8 * m) + 1 = (pos + 1) + 8 * m
        BY <2>2
      <4>2. Aligned((pos + 8 * m) + 1, 4) = Aligned(pos + 1, 4) + 8 * m
        BY <4>1, <2>4
      <4>3. Aligned(pos + 1, 4) \in Nat
        BY <1>1, <2>3
      <4> QED
        BY <4>2, <4>3, <2>5
    <3> QED
      BY <2>1, <2>2, <2>6, <3>1
  <2>8. OffsetOf(kind, pos) = Aligned(q, 8)
    BY <2>1, <2>5
  <2>9. q >= pos
    BY <1>1, <2>3, <2>5
  <2> QED
    BY <1>1, <2>5, <2>7, <2>8, <2>9
<1> QED
  BY <1>3, <1>4, <1>5, <1>6, <1>7 DEF Kinds

LEMMA ItemFacts ==
    ASSUME NEW V, NEW items \in Seq(Items(V)), NEW i \in 1..Len(items)
    PROVE  /\ items[i] \in Items(V) /\ items[i].kind \in Kinds
           /\ items[i].size \in Nat /\ items[i].value \in V
<1>1. items[i] \in Items(V)
  OBVIOUS
<1> QED
  BY <1>1 DEF Items

LEMMA Ending ==
    ASSUME NEW V, NEW items \in Seq(Items(V)), NEW from \in Nat
    PROVE  \E end : Ends(end, from, items)
<1>1. PICK n \in Nat : n = Len(items)
  OBVIOUS
<1>2. PICK G : G = [i \in 1..n |-> [p \in Nat |-> OffsetOf(items[i].kind, p) + items[i].size]]
  OBVIOUS
<1>3. G \in [1..n -> [Nat -> Nat]]
  <2>1. ASSUME NEW i \in 1..n, NEW p \in Nat
        PROVE  OffsetOf(items[i].kind, p) + items[i].size \in Nat
    <3>1. items[i].kind \in Kinds /\ items[i].size \in Nat
      BY <1>1, ItemFacts
    <3>2. OffsetOf(items[i].kind, p) \in Nat
      BY <3>1, OffsetFacts
    <3> QED
      BY <3>1, <3>2
  <2> QED
    BY <1>2, <2>1
<1>4. Counts(n, Nat, from, G)
  BY <1>3, Counting
<1>5. PICK f \in [0..n -> Nat] : f[0] = from /\ \A i \in 1..n : f[i] = G[i][f[i - 1]]
  BY <1>4 DEF Counts
<1>6. \A i \in 1..n : f[i] = OffsetOf(items[i].kind, f[i - 1]) + items[i].size
  <2> TAKE i \in 1..n
  <2>1. PICK p \in Nat : p = f[i - 1]
    OBVIOUS
  <2> QED
    BY <1>2, <1>5, <2>1
<1> QED
  BY <1>1, <1>5, <1>6 DEF Ends

LEMMA OneEnding ==
    ASSUME NEW items, Len(items) \in Nat, NEW from, NEW d, NEW e,
           Ends(d, from, items), Ends(e, from, items)
    PROVE  d = e
<1> DEFINE n == Len(items)
           T == {m \in Nat : m \in 0..n => d[m] = e[m]}
<1>1. 0 \in T
  BY DEF Ends
<1>2. ASSUME NEW m \in Nat, m \in T PROVE m + 1 \in T
  <2> SUFFICES ASSUME m + 1 \in 1..n PROVE d[m + 1] = e[m + 1]
    OBVIOUS
  <2>1. PICK i \in 1..n : i = m + 1 /\ i - 1 = m
    OBVIOUS
  <2>2. m \in 0..n
    BY <2>1
  <2>3. d[m] = e[m]
    BY <1>2, <2>2
  <2> QED
    BY <2>1, <2>3 DEF Ends
<1>3. T = Nat
  <2> HIDE DEF T
  <2>1. T \in SUBSET Nat
    BY DEF T
  <2> QED
    BY <1>1, <1>2, <2>1, Induct
<1>4. \A i \in 0..n : d[i] = e[i]
  BY <1>3
<1> QED
  BY <1>4 DEF Ends

LEMMA Placing ==
    ASSUME NEW V, NEW items \in Seq(Items(V)), NEW from \in Nat, NEW end, Ends(end, from, items)
    PROVE  Place(from, items) =
              [i \in 1..Len(items) |-> Cell(items[i], OffsetOf(items[i].kind, end[i - 1]))]
<1> DEFINE n == Len(items)
           IsF(f) == f = [i \in 0..n |-> IF i = 0 THEN from
                                ELSE OffsetOf(items[i].kind, f[i - 1]) + items[i].size]
           F == CHOOSE f : IsF(f)
<1>1. DOMAIN items = 1..n /\ n \in Nat
  OBVIOUS
<1>2. Place(from, items) =
         [i \in 1..n |-> [kind |-> items[i].kind, size |-> items[i].size,
                          value |-> items[i].value, at |-> F[i] - items[i].size]]
  BY <1>1 DEF Place
<1>3. IsF(end)
  <2>1. ASSUME NEW i \in 0..n
        PROVE  end[i] = IF i = 0 THEN from ELSE OffsetOf(items[i].kind, end[i - 1]) + items[i].size
    <3>1. CASE i = 0
      BY <3>1 DEF Ends
    <3>2. CASE i \in 1..n
      <4>1. i # 0
        BY <3>2
      <4>2. end[i] = OffsetOf(items[i].kind, end[i - 1]) + items[i].size
        BY <3>2 DEF Ends
      <4> QED
        BY <4>1, <4>2
    <3>3. i = 0 \/ i \in 1..n
      BY <1>1
    <3> QED
      BY <3>1, <3>2, <3>3
  <2>2. end \in [0..n -> Nat]
    BY DEF Ends
  <2> QED
    BY <2>1, <2>2
<1>4. IsF(F)
  <2> HIDE DEF IsF
  <2> QED
    BY <1>3
<1> HIDE DEF F
<1>5. F = end
  <2> DEFINE T == {m \in Nat : m \in 0..n => F[m] = end[m]}
  <2>1. 0 \in T
    BY <1>1, <1>4 DEF Ends
  <2>2. ASSUME NEW m \in Nat, m \in T PROVE m + 1 \in T
    <3> SUFFICES ASSUME m + 1 \in 1..n PROVE F[m + 1] = end[m + 1]
      BY <1>1
    <3>1. PICK i \in 1..n : i = m + 1 /\ i - 1 = m /\ i \in 0..n /\ i # 0
      BY <1>1
    <3>2. m \in 0..n
      BY <1>1, <3>1
    <3>3. F[m] = end[m]
      BY <2>2, <3>2
    <3>4. F[i] = OffsetOf(items[i].kind, F[i - 1]) + items[i].size
      BY <1>4, <3>1
    <3>5. end[i] = OffsetOf(items[i].kind, end[i - 1]) + items[i].size
      BY DEF Ends
    <3> QED
      BY <3>1, <3>3, <3>4, <3>5
  <2>3. T = Nat
    <3> HIDE DEF T
    <3>1. T \in SUBSET Nat
      BY DEF T
    <3> QED
      BY <2>1, <2>2, <3>1, Induct
  <2>4. \A i \in 0..n : F[i] = end[i]
    BY <1>1, <2>3
  <2>5. DOMAIN F = 0..n /\ DOMAIN end = 0..n
    BY <1>4 DEF Ends
  <2>6. F = [i \in 0..n |-> F[i]] /\ end = [i \in 0..n |-> end[i]]
    <3>1. PICK h : h = [i \in 0..n |-> IF i = 0 THEN from
                                ELSE OffsetOf(items[i].kind, F[i - 1]) + items[i].size]
      OBVIOUS
    <3>2. F = h
      BY <1>4, <3>1
    <3> QED
      BY <3>1, <3>2 DEF Ends
  <2> QED
    BY <2>4, <2>6
<1>6. ASSUME NEW i \in 1..n
      PROVE  [kind |-> items[i].kind, size |-> items[i].size, value |-> items[i].value,
              at |-> F[i] - items[i].size] = Cell(items[i], OffsetOf(items[i].kind, end[i - 1]))
  <2>1. items[i].kind \in Kinds /\ items[i].size \in Nat
    BY ItemFacts
  <2>2. i - 1 \in 0..n /\ end[i - 1] \in Nat
    BY <1>1 DEF Ends
  <2>3. OffsetOf(items[i].kind, end[i - 1]) \in Nat
    BY <2>1, <2>2, OffsetFacts
  <2>4. F[i] = OffsetOf(items[i].kind, end[i - 1]) + items[i].size
    BY <1>5 DEF Ends
  <2>5. F[i] - items[i].size = OffsetOf(items[i].kind, end[i - 1])
    BY <2>1, <2>3, <2>4
  <2> QED
    BY <2>5 DEF Cell
<1> QED
  BY <1>2, <1>6

-----------------------------------------------------------------------------
(* Readers, and what one is about to see: items, where a writer that       *)
(* started where this reader counts from has put them.                     *)
IsReader(r) ==
    \E f, b, s, p, v, n :
        /\ b \in Nat /\ s \in Nat /\ p \in Nat /\ n \in Nat
        /\ r = [file |-> f, base |-> b, size |-> s, pos |-> p, value |-> v, next |-> n]

Sees(r, items) ==
    \E end :
        /\ Ends(end, r.pos, items)
        /\ \A i \in 0..Len(items) : end[i] <= r.size
        /\ \A i \in 1..Len(items), j \in Nat : j = r.next + i - 1 =>
              r.file[j] = Cell(items[i], r.base + OffsetOf(items[i].kind, end[i - 1]))

(* r has become s, read value, and is about to see items.                  *)
HasRead(s, value, items) == IsReader(s) /\ s.value = value /\ Sees(s, items)

LEMMA FirstItem ==
    ASSUME NEW V, NEW item \in Items(V), NEW rest \in Seq(Items(V))
    PROVE  /\ <<item>> \o rest \in Seq(Items(V))
           /\ Len(<<item>> \o rest) = Len(rest) + 1
           /\ (<<item>> \o rest)[1] = item
           /\ \A i \in 1..Len(rest) : (<<item>> \o rest)[i + 1] = rest[i]
OBVIOUS

LEMMA Reading ==
    ASSUME NEW V, NEW item \in Items(V), NEW rest \in Seq(Items(V)),
           NEW r, IsReader(r), NEW kinds, item.kind \in kinds, Sees(r, <<item>> \o rest)
    PROVE  HasRead(Read(r, kinds), item.value, rest)
<1>1. PICK all : all = <<item>> \o rest
  OBVIOUS
<1>2. PICK n \in Nat : n = Len(rest)
  OBVIOUS
<1>3. /\ all \in Seq(Items(V)) /\ Len(all) = n + 1 /\ all[1] = item
      /\ \A i \in 1..n : all[i + 1] = rest[i]
  BY <1>1, <1>2, FirstItem
<1>4. PICK f, b, s, p, v, m :
        /\ b \in Nat /\ s \in Nat /\ p \in Nat /\ m \in Nat
        /\ r = [file |-> f, base |-> b, size |-> s, pos |-> p, value |-> v, next |-> m]
  BY DEF IsReader
<1>5. r.file = f /\ r.base = b /\ r.size = s /\ r.pos = p /\ r.next = m
  BY <1>4
<1>6. PICK end :
        /\ Ends(end, p, all)
        /\ \A i \in 0..(n + 1) : end[i] <= s
        /\ \A i \in 1..(n + 1), j \in Nat : j = m + i - 1 =>
              f[j] = Cell(all[i], b + OffsetOf(all[i].kind, end[i - 1]))
  BY <1>1, <1>3, <1>5 DEF Sees
<1>7. /\ end \in [0..(n + 1) -> Nat] /\ end[0] = p
      /\ \A i \in 1..(n + 1) : end[i] = OffsetOf(all[i].kind, end[i - 1]) + all[i].size
  BY <1>3, <1>6 DEF Ends
<1>8. item.kind \in Kinds /\ item.size \in Nat
  BY DEF Items
<1>9. PICK o \in Nat : o = OffsetOf(item.kind, p)
  BY <1>4, <1>8, OffsetFacts
<1>10. end[1] = o + item.size
  <2>1. 1 \in 1..(n + 1) /\ 1 - 1 = 0
    OBVIOUS
  <2>2. end[1] = OffsetOf(all[1].kind, end[0]) + all[1].size
    BY <1>7, <2>1
  <2> QED
    BY <1>3, <1>7, <1>9, <2>2
<1>11. f[m] = Cell(item, b + o)
  <2>1. 1 \in 1..(n + 1) /\ 1 - 1 = 0 /\ m = m + 1 - 1
    BY <1>4
  <2>2. f[m] = Cell(all[1], b + OffsetOf(all[1].kind, end[0]))
    BY <1>4, <1>6, <2>1
  <2> QED
    BY <1>3, <1>7, <1>9, <2>2
<1>12. end[1] <= s
  BY <1>6
<1>13. PICK e \in Nat : e = o + item.size
  BY <1>8
<1>14. Read(r, kinds) =
        [file |-> f, base |-> b, size |-> s, pos |-> e, value |-> item.value, next |-> m + 1]
  <2>1. /\ f[m].kind = item.kind /\ f[m].size = item.size /\ f[m].value = item.value
        /\ f[m].at = b + o
    BY <1>11 DEF Cell
  <2>2. Read(r, kinds) =
          [r EXCEPT !.pos = OffsetOf(f[m].kind, p) + f[m].size, !.next = @ + 1,
                    !.value = IF f[m].kind \in kinds /\ f[m].at = b + OffsetOf(f[m].kind, p)
                                 /\ OffsetOf(f[m].kind, p) + f[m].size <= s
                              THEN f[m].value ELSE "garbage"]
    BY <1>5 DEF Read
  <2>3. OffsetOf(f[m].kind, p) + f[m].size = e
    BY <1>9, <1>13, <2>1
  <2>4. f[m].kind \in kinds /\ f[m].at = b + OffsetOf(f[m].kind, p)
    BY <1>9, <2>1
  <2>5. e <= s
    BY <1>10, <1>12, <1>13
  <2>6. Read(r, kinds) = [r EXCEPT !.pos = e, !.next = @ + 1, !.value = item.value]
    BY <2>1, <2>2, <2>3, <2>4, <2>5
  <2> QED
    BY <1>4, <2>6
<1>15. PICK q : q = Read(r, kinds)
  OBVIOUS
<1>16. q.file = f /\ q.base = b /\ q.size = s /\ q.pos = e /\ q.next = m + 1 /\ q.value = item.value
  BY <1>14, <1>15
<1>17. IsReader(q)
  <2>1. m + 1 \in Nat
    BY <1>4
  <2>2. /\ b \in Nat /\ s \in Nat /\ e \in Nat /\ m + 1 \in Nat
        /\ q = [file |-> f, base |-> b, size |-> s, pos |-> e, value |-> item.value, next |-> m + 1]
    BY <1>4, <1>14, <1>15, <2>1
  <2>3. PICK k : k = m + 1
    OBVIOUS
  <2> QED
    BY <2>2, <2>3 DEF IsReader
<1>18. Sees(q, rest)
  <2>1. PICK d : d = [i \in 0..n |-> end[i + 1]]
    OBVIOUS
  <2>2. d \in [0..n -> Nat] /\ \A i \in 0..n : d[i] = end[i + 1]
    <3>1. \A i \in 0..n : i + 1 \in 0..(n + 1)
      OBVIOUS
    <3> QED
      BY <1>7, <2>1, <3>1
  <2>3. d[0] = e
    BY <1>10, <1>13, <2>2
  <2>4. ASSUME NEW i \in 1..n
        PROVE  d[i] = OffsetOf(rest[i].kind, d[i - 1]) + rest[i].size
    <3>1. PICK k \in 1..(n + 1) : k = i + 1 /\ k - 1 = i /\ (i - 1) + 1 = i /\ i - 1 \in 0..n
      OBVIOUS
    <3>2. end[k] = OffsetOf(all[k].kind, end[k - 1]) + all[k].size
      BY <1>7
    <3>3. all[k] = rest[i]
      BY <1>3, <3>1
    <3>4. d[i] = end[k] /\ d[i - 1] = end[i]
      BY <2>2, <3>1
    <3> QED
      BY <3>1, <3>2, <3>3, <3>4
  <2>5. Ends(d, q.pos, rest)
    BY <1>2, <1>16, <2>2, <2>3, <2>4 DEF Ends
  <2>6. \A i \in 0..n : d[i] <= s
    <3>1. \A i \in 0..n : i + 1 \in 0..(n + 1)
      OBVIOUS
    <3> QED
      BY <1>6, <2>2, <3>1
  <2>7. ASSUME NEW i \in 1..n, NEW j \in Nat, j = (m + 1) + i - 1
        PROVE  f[j] = Cell(rest[i], b + OffsetOf(rest[i].kind, d[i - 1]))
    <3>1. PICK k \in 1..(n + 1) : k = i + 1 /\ k - 1 = i /\ (i - 1) + 1 = i /\ i - 1 \in 0..n
      OBVIOUS
    <3>2. j = m + k - 1
      BY <1>4, <2>7, <3>1
    <3>3. f[j] = Cell(all[k], b + OffsetOf(all[k].kind, end[k - 1]))
      BY <1>6, <3>2
    <3>4. all[k] = rest[i]
      BY <1>3, <3>1
    <3>5. d[i - 1] = end[i]
      BY <2>2, <3>1
    <3> QED
      BY <3>1, <3>3, <3>4, <3>5
  <2>8. \A i \in 0..Len(rest) : d[i] <= q.size
    BY <1>2, <1>16, <2>6
  <2>9. ASSUME NEW i \in 1..Len(rest), NEW j \in Nat, j = q.next + i - 1
        PROVE  q.file[j] = Cell(rest[i], q.base + OffsetOf(rest[i].kind, d[i - 1]))
    <3>1. i \in 1..n /\ j = (m + 1) + i - 1
      BY <1>2, <1>16, <2>9
    <3>2. f[j] = Cell(rest[i], b + OffsetOf(rest[i].kind, d[i - 1]))
      BY <2>7, <3>1
    <3> QED
      BY <1>16, <3>2
  <2> QED
    BY <2>5, <2>8, <2>9 DEF Sees
<1> QED
  BY <1>15, <1>16, <1>17, <1>18 DEF HasRead

LEMMA Revalued ==
    ASSUME NEW r, IsReader(r), NEW items, Sees(r, items), NEW value
    PROVE  HasRead([r EXCEPT !.value = value], value, items)
<1>1. PICK f, b, s, p, v, m :
        /\ b \in Nat /\ s \in Nat /\ p \in Nat /\ m \in Nat
        /\ r = [file |-> f, base |-> b, size |-> s, pos |-> p, value |-> v, next |-> m]
  BY DEF IsReader
<1>2. PICK q : q = [r EXCEPT !.value = value]
  OBVIOUS
<1>3. q = [file |-> f, base |-> b, size |-> s, pos |-> p, value |-> value, next |-> m]
  BY <1>1, <1>2
<1>4. /\ q.file = r.file /\ q.base = r.base /\ q.size = r.size /\ q.pos = r.pos
      /\ q.next = r.next /\ q.value = value
  BY <1>1, <1>3
<1>5. IsReader(q)
  BY <1>1, <1>3 DEF IsReader
<1>6. Sees(q, items)
  BY <1>4 DEF Sees
<1> QED
  BY <1>2, <1>4, <1>5, <1>6 DEF HasRead

-----------------------------------------------------------------------------
Assoc(Q) == \A a \in Q : \A b \in Q : \A c \in Q : (a \o b) \o c = a \o (b \o c)

LEMMA Associates ==
    ASSUME NEW S
    PROVE  Assoc(Seq(S))
BY ConcatAssociative DEF Assoc

(* What is left of parts, followed by rest, once m of them are gone.       *)
Left(parts, m, rest) == FlattenSeq(SubSeq(parts, m + 1, Len(parts))) \o rest

LEMMA LeftType ==
    ASSUME NEW S, NEW parts \in Seq(Seq(S)), NEW rest \in Seq(S), NEW m \in 0..Len(parts)
    PROVE  Left(parts, m, rest) \in Seq(S)
<1>1. SubSeq(parts, m + 1, Len(parts)) \in Seq(Seq(S))
  <2>1. m + 1 \in Int /\ Len(parts) \in Int
    OBVIOUS
  <2>2. \A i \in (m + 1)..Len(parts) : parts[i] \in Seq(S)
    OBVIOUS
  <2> QED
    BY <2>1, <2>2, SubSeqProperties
<1>2. FlattenSeq(SubSeq(parts, m + 1, Len(parts))) \in Seq(S)
  BY <1>1, FlattenType
<1> QED
  BY <1>2, ConcatProperties DEF Left

LEMMA LeftAll ==
    ASSUME NEW S, NEW parts \in Seq(Seq(S)), NEW rest
    PROVE  Left(parts, 0, rest) = FlattenSeq(parts) \o rest
<1>1. SubSeq(parts, 1, Len(parts)) = parts
  BY SubSeqFull
<1>2. 0 + 1 = 1
  OBVIOUS
<1> QED
  BY <1>1, <1>2 DEF Left

LEMMA LeftNone ==
    ASSUME NEW S, NEW parts \in Seq(Seq(S)), NEW rest \in Seq(S)
    PROVE  Left(parts, Len(parts), rest) = rest
<1>1. Len(parts) \in Int /\ Len(parts) + 1 \in Int /\ Len(parts) < Len(parts) + 1
  OBVIOUS
<1>2. SubSeq(parts, Len(parts) + 1, Len(parts)) = <<>>
  BY <1>1, SubSeqEmpty
<1>3. <<>> \o rest = rest
  BY ConcatEmptySeq
<1> QED
  BY <1>2, <1>3, FlattenEmpty DEF Left

LEMMA LeftNext ==
    ASSUME NEW S, NEW parts \in Seq(Seq(S)), NEW rest \in Seq(S), NEW m \in 0..Len(parts),
           m # Len(parts)
    PROVE  Left(parts, m, rest) = parts[m + 1] \o Left(parts, m + 1, rest)
<1>1. PICK n \in Nat : n = Len(parts)
  OBVIOUS
<1>2. PICK k \in 1..n : k = m + 1 /\ k + 1 = m + 2 /\ n \in k..n
  BY <1>1
<1>3. PICK s : s = SubSeq(parts, k, n)
  OBVIOUS
<1>4. s \in Seq(Seq(S)) /\ Len(s) # 0
  <2>1. \A i \in k..n : parts[i] \in Seq(S)
    BY <1>1
  <2>2. k \in Int /\ n \in Int /\ k <= n
    OBVIOUS
  <2>3. s \in Seq(Seq(S)) /\ Len(s) = IF k <= n THEN n - k + 1 ELSE 0
    BY <1>3, <2>1, <2>2, SubSeqProperties
  <2> QED
    BY <2>2, <2>3
<1>5. Tail(s) = SubSeq(parts, k + 1, n) /\ Head(s) = parts[k]
  BY <1>1, <1>2, <1>3, HeadTailOfSubSeq
<1>6. s # <<>>
  BY <1>4
<1>7. s[1] = parts[k]
  BY <1>4, <1>5, <1>6
<1>8. FlattenSeq(s) = s[1] \o FlattenSeq(Tail(s))
  BY <1>4, FlattenFirst
<1>9. Tail(s) \in Seq(Seq(S))
  BY <1>4, <1>6, HeadTailProperties
<1>10. FlattenSeq(Tail(s)) \in Seq(S)
  BY <1>9, FlattenType
<1>11. parts[k] \in Seq(S)
  BY <1>1
<1>12. (parts[k] \o FlattenSeq(Tail(s))) \o rest = parts[k] \o (FlattenSeq(Tail(s)) \o rest)
  <2>1. PICK a \in Seq(S) : a = parts[k]
    BY <1>11
  <2>2. PICK b \in Seq(S) : b = FlattenSeq(Tail(s))
    BY <1>10
  <2>3. Assoc(Seq(S))
    BY Associates
  <2>4. (a \o b) \o rest = a \o (b \o rest)
    BY <2>3, Zenon DEF Assoc
  <2> QED
    BY <2>1, <2>2, <2>4
<1>13. Left(parts, m, rest) = FlattenSeq(s) \o rest
  BY <1>1, <1>2, <1>3 DEF Left
<1>14. Left(parts, k, rest) = FlattenSeq(Tail(s)) \o rest
  BY <1>1, <1>5 DEF Left
<1> QED
  BY <1>2, <1>7, <1>8, <1>12, <1>13, <1>14

Closed(Q) == \A a, b \in Q : a \o b \in Q

LEMMA Closes ==
    ASSUME NEW S
    PROVE  Closed(Seq(S))
BY ConcatProperties DEF Closed

Regroup(Q, a, b) == \A c \in Q : (a \o b) \o c = a \o (b \o c)

LEMMA Regroups ==
    ASSUME NEW Q, Assoc(Q), NEW a \in Q, NEW b \in Q
    PROVE  Regroup(Q, a, b)
<1>1. \A y \in Q : \A z \in Q : (a \o y) \o z = a \o (y \o z)
  BY Zenon DEF Assoc
<1> QED
  BY <1>1, Zenon DEF Regroup

Cat3(a, b, c, d) == ((a \o b) \o c) \o d = a \o (b \o (c \o d))
Cat4(a, b, c, d, e) == (((a \o b) \o c) \o d) \o e = a \o (b \o (c \o (d \o e)))
Cat5(a, b, c, d, e, f) == ((((a \o b) \o c) \o d) \o e) \o f = a \o (b \o (c \o (d \o (e \o f))))

LEMMA Assoc3 ==
    ASSUME NEW Q, Assoc(Q), Closed(Q), NEW a \in Q, NEW b \in Q, NEW c \in Q, NEW d \in Q
    PROVE  Cat3(a, b, c, d)
<1>1. PICK l2 \in Q : l2 = a \o b
  BY DEF Closed
<1>2. PICK r2 \in Q : r2 = c \o d
  BY DEF Closed
<1>3. (l2 \o c) \o d = l2 \o (c \o d)
  <2>1. Regroup(Q, l2, c)
    BY Regroups
  <2> QED
    BY <2>1, Zenon DEF Regroup
<1>4. (a \o b) \o r2 = a \o (b \o r2)
  <2>1. Regroup(Q, a, b)
    BY Regroups
  <2> QED
    BY <2>1, Zenon DEF Regroup
<1> QED
  BY <1>1, <1>2, <1>3, <1>4 DEF Cat3

LEMMA Assoc4 ==
    ASSUME NEW Q, Assoc(Q), Closed(Q), NEW a \in Q, NEW b \in Q, NEW c \in Q, NEW d \in Q,
           NEW e \in Q
    PROVE  Cat4(a, b, c, d, e)
<1>1. PICK l2 \in Q : l2 = a \o b
  BY DEF Closed
<1>2. PICK l3 \in Q : l3 = l2 \o c
  BY DEF Closed
<1>3. PICK r2 \in Q : r2 = d \o e
  BY DEF Closed
<1>4. PICK r3 \in Q : r3 = c \o r2
  BY DEF Closed
<1>5. (l3 \o d) \o e = l3 \o (d \o e)
  <2>1. Regroup(Q, l3, d)
    BY Regroups
  <2> QED
    BY <2>1, Zenon DEF Regroup
<1>6. (l2 \o c) \o r2 = l2 \o (c \o r2)
  <2>1. Regroup(Q, l2, c)
    BY Regroups
  <2> QED
    BY <2>1, Zenon DEF Regroup
<1>7. (a \o b) \o r3 = a \o (b \o r3)
  <2>1. Regroup(Q, a, b)
    BY Regroups
  <2> QED
    BY <2>1, Zenon DEF Regroup
<1> QED
  BY <1>1, <1>2, <1>3, <1>4, <1>5, <1>6, <1>7 DEF Cat4

LEMMA Assoc5 ==
    ASSUME NEW Q, Assoc(Q), Closed(Q), NEW a \in Q, NEW b \in Q, NEW c \in Q, NEW d \in Q,
           NEW e \in Q, NEW f \in Q
    PROVE  Cat5(a, b, c, d, e, f)
<1>1. PICK l2 \in Q : l2 = a \o b
  BY DEF Closed
<1>2. PICK l3 \in Q : l3 = l2 \o c
  BY DEF Closed
<1>3. PICK l4 \in Q : l4 = l3 \o d
  BY DEF Closed
<1>4. PICK r2 \in Q : r2 = e \o f
  BY DEF Closed
<1>5. PICK r3 \in Q : r3 = d \o r2
  BY DEF Closed
<1>6. PICK r4 \in Q : r4 = c \o r3
  BY DEF Closed
<1>7. (l4 \o e) \o f = l4 \o (e \o f)
  <2>1. Regroup(Q, l4, e)
    BY Regroups
  <2> QED
    BY <2>1, Zenon DEF Regroup
<1>8. (l3 \o d) \o r2 = l3 \o (d \o r2)
  <2>1. Regroup(Q, l3, d)
    BY Regroups
  <2> QED
    BY <2>1, Zenon DEF Regroup
<1>9. (l2 \o c) \o r3 = l2 \o (c \o r3)
  <2>1. Regroup(Q, l2, c)
    BY Regroups
  <2> QED
    BY <2>1, Zenon DEF Regroup
<1>10. (a \o b) \o r4 = a \o (b \o r4)
  <2>1. Regroup(Q, a, b)
    BY Regroups
  <2> QED
    BY <2>1, Zenon DEF Regroup
<1> QED
  BY <1>1, <1>2, <1>3, <1>4, <1>5, <1>6, <1>7, <1>8, <1>9, <1>10 DEF Cat5
-----------------------------------------------------------------------------
(* The values in the file of an index, and its items.                      *)
Names == {"Symbol", "SymbolType", "ReferenceType"}
Tables == {"Reference", "ReferenceIndex", "Symbol", "SymbolTypeIndex", "GlobalSymbol"}

Words == Names \cup Tables \cup {"", "IDX", "IAR", "zeroHash", "m_table", "m_index"}
Rows == Seq(Seq(Nat))
Values == Nat \cup Words \cup Seq(Nat) \cup Rows

LEMMA OneItem ==
    ASSUME NEW V, NEW kind \in Kinds, NEW size \in Nat, NEW value \in V
    PROVE  \E item \in Items(V) : /\ Item(kind, size, value) = <<item>>
                                  /\ item.kind = kind /\ item.size = size /\ item.value = value
<1>1. [kind |-> kind, size |-> size, value |-> value] \in Items(V)
  BY DEF Items
<1> QED
  BY <1>1 DEF Item

LEMMA ReadingItem ==
    ASSUME NEW V, NEW kind \in Kinds, NEW size \in Nat, NEW value \in V,
           NEW rest \in Seq(Items(V)), NEW r, IsReader(r), NEW kinds, kind \in kinds,
           Sees(r, Item(kind, size, value) \o rest)
    PROVE  HasRead(Read(r, kinds), value, rest)
<1>1. PICK item \in Items(V) : /\ Item(kind, size, value) = <<item>>
                               /\ item.kind = kind /\ item.size = size /\ item.value = value
  BY OneItem
<1>2. Sees(r, <<item>> \o rest)
  BY <1>1
<1>3. item.kind \in kinds
  BY <1>1
<1>4. HasRead(Read(r, kinds), item.value, rest)
  BY <1>2, <1>3, Reading
<1> QED
  BY <1>1, <1>4

LEMMA ItemType ==
    ASSUME NEW V, NEW kind \in Kinds, NEW size \in Nat, NEW value \in V
    PROVE  Item(kind, size, value) \in Seq(Items(V))
<1>1. PICK item \in Items(V) : Item(kind, size, value) = <<item>>
  BY OneItem
<1> QED
  BY <1>1

(* A buffer, compressed or not, is one item.                               *)
LEMMA Buffer ==
    ASSUME NEW V, NEW content \in V, NEW size \in Nat, NEW compressed
    PROVE  \E kind \in {"compressed", "buffer"}, n \in Nat :
              /\ WriteBuffer(content, size, compressed) = Item(kind, n, content)
              /\ compressed \/ size > 0 => n > 0
<1>1. CompressedSize(size) \in Nat /\ CompressedSize(size) > 0
  BY DEF CompressedSize
<1>2. CASE compressed
  BY <1>1, <1>2 DEF WriteBuffer
<1>3. CASE ~compressed
  BY <1>3 DEF WriteBuffer
<1> QED
  BY <1>2, <1>3

LEMMA ReadingBuffer ==
    ASSUME NEW V, NEW content \in V, NEW size \in Nat, NEW compressed,
           NEW rest \in Seq(Items(V)), NEW r, IsReader(r),
           Sees(r, WriteBuffer(content, size, compressed) \o rest)
    PROVE  HasRead(ReadBuffer(r), content, rest)
<1>1. PICK kind \in {"compressed", "buffer"}, n \in Nat :
         WriteBuffer(content, size, compressed) = Item(kind, n, content)
  BY Buffer
<1>2. kind \in Kinds
  BY DEF Kinds
<1>3. Sees(r, Item(kind, n, content) \o rest)
  BY <1>1
<1>4. PICK kinds : kinds = {"compressed", "buffer"}
  OBVIOUS
<1>5. HasRead(Read(r, kinds), content, rest)
  BY <1>2, <1>3, <1>4, ReadingItem
<1> QED
  BY <1>4, <1>5 DEF ReadBuffer

LEMMA BufferType ==
    ASSUME NEW V, NEW content \in V, NEW size \in Nat, NEW compressed
    PROVE  WriteBuffer(content, size, compressed) \in Seq(Items(V))
<1>1. PICK kind \in {"compressed", "buffer"}, n \in Nat :
         WriteBuffer(content, size, compressed) = Item(kind, n, content)
  BY Buffer
<1>2. kind \in Kinds
  BY DEF Kinds
<1> QED
  BY <1>1, <1>2, ItemType

(* The bytes of the strings of a table.                                    *)
LEMMA Bytes ==
    ASSUME NEW strings \in Seq(Nat)
    PROVE  \E size \in Nat : \A compressed :
              WriteStringTable(strings, compressed) =
                 WriteBuffer(strings, size, compressed)
                 \o WriteBuffer("m_table", 16 * Len(strings), compressed)
                 \o WriteBuffer("m_index", 32, compressed)
<1> DEFINE n == Len(strings)
           IsF(f) == f = [i \in 0..n |-> IF i = 0 THEN 0 ELSE f[i - 1] + strings[i] + 1]
           F == CHOOSE f : IsF(f)
<1>1. PICK G : G = [i \in 1..n |-> [p \in Nat |-> p + strings[i] + 1]]
  OBVIOUS
<1>2. n \in Nat /\ \A i \in 1..n : strings[i] \in Nat
  OBVIOUS
<1>3. G \in [1..n -> [Nat -> Nat]]
  <2>1. \A i \in 1..n : \A p \in Nat : p + strings[i] + 1 \in Nat
    BY <1>2
  <2> QED
    BY <1>1, <2>1
<1>4. Counts(n, Nat, 0, G)
  BY <1>2, <1>3, Counting
<1>5. PICK f \in [0..n -> Nat] : f[0] = 0 /\ \A i \in 1..n : f[i] = G[i][f[i - 1]]
  BY <1>4 DEF Counts
<1>6. IsF(f)
  <2>1. ASSUME NEW i \in 0..n
        PROVE  f[i] = IF i = 0 THEN 0 ELSE f[i - 1] + strings[i] + 1
    <3>1. CASE i = 0
      BY <1>5, <3>1
    <3>2. CASE i \in 1..n
      <4>1. i # 0
        BY <3>2
      <4>2. PICK p \in Nat : p = f[i - 1]
        BY <3>2
      <4>3. f[i] = p + strings[i] + 1
        BY <1>1, <1>5, <3>2, <4>2
      <4> QED
        BY <4>1, <4>2, <4>3
    <3>3. i = 0 \/ i \in 1..n
      BY <1>2
    <3> QED
      BY <3>1, <3>2, <3>3
  <2> QED
    BY <2>1
<1>7. IsF(F)
  <2> HIDE DEF IsF
  <2> QED
    BY <1>6
<1>8. \A c : WriteStringTable(strings, c) =
                 WriteBuffer(strings, F[n], c)
                 \o WriteBuffer("m_table", 16 * Len(strings), c)
                 \o WriteBuffer("m_index", 32, c)
  BY DEF WriteStringTable
<1> HIDE DEF F
<1>9. F[n] \in Nat
  <2> DEFINE T == {m \in Nat : m \in 0..n => F[m] \in Nat}
  <2>1. 0 \in T
    BY <1>2, <1>7
  <2>2. ASSUME NEW m \in Nat, m \in T PROVE m + 1 \in T
    <3> SUFFICES ASSUME m + 1 \in 1..n PROVE F[m + 1] \in Nat
      BY <1>2
    <3>1. PICK i \in 1..n : i = m + 1 /\ i - 1 = m /\ i \in 0..n /\ i # 0
      BY <1>2
    <3>2. m \in 0..n
      BY <1>2, <3>1
    <3>3. F[m] \in Nat
      BY <2>2, <3>2
    <3>4. F[i] = F[i - 1] + strings[i] + 1
      BY <1>7, <3>1
    <3> QED
      BY <1>2, <3>1, <3>3, <3>4
  <2>3. T = Nat
    <3> HIDE DEF T
    <3>1. T \in SUBSET Nat
      BY DEF T
    <3> QED
      BY <2>1, <2>2, <3>1, Induct
  <2>4. n \in T /\ n \in 0..n
    BY <1>2, <2>3
  <2> QED
    BY <2>4
<1> QED
  BY <1>8, <1>9

LEMMA StringTableRoundTrip ==
    ASSUME NEW strings \in Seq(Nat), NEW compressed
    PROVE  /\ WriteStringTable(strings, compressed) \in Seq(Items(Values))
           /\ \A r : \A rest \in Seq(Items(Values)) :
                 IsReader(r) /\ Sees(r, WriteStringTable(strings, compressed) \o rest)
                 => HasRead(ReadStringTable(r), strings, rest)
<1>1. PICK size \in Nat : WriteStringTable(strings, compressed) =
                 WriteBuffer(strings, size, compressed)
                 \o WriteBuffer("m_table", 16 * Len(strings), compressed)
                 \o WriteBuffer("m_index", 32, compressed)
  BY Bytes
<1>2. strings \in Values /\ "m_table" \in Values /\ "m_index" \in Values
  <2>1. "m_table" \in Words /\ "m_index" \in Words
    BY DEF Words
  <2> QED
    BY <2>1, Zenon DEF Values
<1>3. PICK len \in Nat : len = 16 * Len(strings)
  OBVIOUS
<1>4. PICK a \in Seq(Items(Values)) : a = WriteBuffer(strings, size, compressed)
  BY <1>2, BufferType
<1>5. PICK b \in Seq(Items(Values)) : b = WriteBuffer("m_table", len, compressed)
  BY <1>2, BufferType
<1>6. PICK c \in Seq(Items(Values)) : c = WriteBuffer("m_index", 32, compressed)
  BY <1>2, BufferType
<1>7. WriteStringTable(strings, compressed) = (a \o b) \o c
  BY <1>1, <1>3, <1>4, <1>5, <1>6
<1>8. (a \o b) \o c \in Seq(Items(Values))
  BY ConcatProperties
<1>9. ASSUME NEW r, NEW rest \in Seq(Items(Values)), IsReader(r), Sees(r, ((a \o b) \o c) \o rest)
      PROVE  HasRead(ReadStringTable(r), strings, rest)
  <2>1. Sees(r, a \o (b \o (c \o rest)))
    <3>1. ((a \o b) \o c) \o rest = a \o (b \o (c \o rest))
      <4>1. PICK Q : Q = Seq(Items(Values))
        OBVIOUS
      <4>2. Assoc(Q) /\ Closed(Q)
        BY <4>1, Associates, Closes
      <4>3. a \in Q /\ b \in Q /\ c \in Q /\ rest \in Q
        BY <1>9, <4>1
      <4>4. Cat3(a, b, c, rest)
        BY <4>2, <4>3, Assoc3
      <4> QED
        BY <4>4 DEF Cat3
    <3> QED
      BY <1>9, <3>1
  <2>2. PICK z \in Seq(Items(Values)) : z = c \o rest
    BY ConcatProperties
  <2>3. PICK y \in Seq(Items(Values)) : y = b \o z
    BY ConcatProperties
  <2>4. PICK data : data = ReadBuffer(r)
    OBVIOUS
  <2>5. HasRead(data, strings, y)
    BY <1>2, <1>4, <1>9, <2>1, <2>2, <2>3, <2>4, ReadingBuffer
  <2>6. PICK table : table = ReadBuffer(data)
    OBVIOUS
  <2>7. IsReader(data) /\ Sees(data, b \o z) /\ data.value = strings
    BY <2>3, <2>5 DEF HasRead
  <2>8. HasRead(table, "m_table", z)
    BY <1>2, <1>5, <2>6, <2>7, ReadingBuffer
  <2>9. PICK index : index = ReadBuffer(table)
    OBVIOUS
  <2>10. IsReader(table) /\ Sees(table, c \o rest)
    BY <2>2, <2>8 DEF HasRead
  <2>11. HasRead(index, "m_index", rest)
    <3>1. 32 \in Nat
      OBVIOUS
    <3> QED
      BY <1>2, <1>6, <2>9, <2>10, <3>1, ReadingBuffer
  <2>12. IsReader(index) /\ Sees(index, rest)
    BY <2>11 DEF HasRead
  <2>13. HasRead([index EXCEPT !.value = data.value], data.value, rest)
    BY <2>12, Revalued
  <2>14. ReadStringTable(r) = [index EXCEPT !.value = data.value]
    BY <2>4, <2>6, <2>9 DEF ReadStringTable
  <2> QED
    BY <2>7, <2>13, <2>14
<1> QED
  BY <1>7, <1>8, <1>9

-----------------------------------------------------------------------------
LEMMA SchemaFacts ==
    ASSUME NEW t \in Tables
    PROVE  /\ Schema[t] \in Seq(Names \cup {""}) /\ Len(Schema[t]) \in Nat \ {0}
           /\ \A c \in DOMAIN Schema[t] : Schema[t][c] \in Values /\ Len(Schema[t][c]) \in Nat
<1>1. \A name \in Names \cup {""} : name \in Values
  <2>1. \A name \in Names \cup {""} : name \in Words
    BY DEF Words
  <2> QED
    BY <2>1, Zenon DEF Values
<1>2. \A name \in Names \cup {""} : Len(name) \in Nat
  BY StringAssumption DEF Names
<1>3. PICK S : S = Names \cup {""}
  OBVIOUS
<1>4. PICK s : s = Schema[t]
  OBVIOUS
<1>5. "Symbol" \in S /\ "SymbolType" \in S /\ "ReferenceType" \in S /\ "" \in S
  BY <1>3 DEF Names
<1>6. s \in Seq(S) /\ Len(s) \in Nat \ {0}
  <2>1. PICK symbol \in S, type \in S, ref \in S, none \in S :
           symbol = "Symbol" /\ type = "SymbolType" /\ ref = "ReferenceType" /\ none = ""
    BY <1>5
  <2>2. CASE t = "Reference"
    <3>1. s = <<"Symbol", "", "", "", "Symbol", "ReferenceType">>
      BY <1>4, <2>2 DEF Schema
    <3>2. s = <<symbol, none, none, none, symbol, ref>>
      BY <2>1, <3>1
    <3> QED
      BY <3>2
  <2>3. CASE t = "ReferenceIndex"
    <3>1. s = <<"Symbol", "ReferenceType", "Symbol", "", "", "">>
      BY <1>4, <2>3 DEF Schema
    <3>2. s = <<symbol, ref, symbol, none, none, none>>
      BY <2>1, <3>1
    <3> QED
      BY <3>2
  <2>4. CASE t = "Symbol"
    <3>1. s = <<"Symbol", "SymbolType">>
      BY <1>4, <2>4 DEF Schema
    <3>2. s = <<symbol, type>>
      BY <2>1, <3>1
    <3> QED
      BY <3>2
  <2>5. CASE t = "SymbolTypeIndex"
    <3>1. s = <<"SymbolType", "Symbol">>
      BY <1>4, <2>5 DEF Schema
    <3>2. s = <<type, symbol>>
      BY <2>1, <3>1
    <3> QED
      BY <3>2
  <2>6. CASE t = "GlobalSymbol"
    <3>1. s = <<"Symbol">>
      BY <1>4, <2>6 DEF Schema
    <3>2. s = <<symbol>>
      BY <2>1, <3>1
    <3> QED
      BY <3>2
  <2> QED
    BY <2>2, <2>3, <2>4, <2>5, <2>6 DEF Tables
<1>7. \A c \in DOMAIN s : s[c] \in S
  BY <1>6
<1>8. \A c \in DOMAIN s : s[c] \in Values /\ Len(s[c]) \in Nat
  BY <1>1, <1>2, <1>3, <1>7
<1> QED
  BY <1>3, <1>4, <1>6, <1>8

LEMMA IntegerItem ==
    ASSUME NEW n \in Nat
    PROVE  /\ WriteUInt32(n) \in Seq(Items(Values))
           /\ \A r : \A rest \in Seq(Items(Values)) :
                 IsReader(r) /\ Sees(r, WriteUInt32(n) \o rest) => HasRead(ReadUInt32(r), n, rest)
<1>1. n \in Values /\ "uint32" \in Kinds /\ 4 \in Nat
  BY DEF Values, Kinds
<1>2. WriteUInt32(n) \in Seq(Items(Values))
  BY <1>1, ItemType DEF WriteUInt32
<1>3. ASSUME NEW r, NEW rest \in Seq(Items(Values)), IsReader(r), Sees(r, WriteUInt32(n) \o rest)
      PROVE  HasRead(ReadUInt32(r), n, rest)
  <2>1. Sees(r, Item("uint32", 4, n) \o rest)
    BY <1>3 DEF WriteUInt32
  <2>2. PICK kinds : kinds = {"uint32"}
    OBVIOUS
  <2>3. "uint32" \in kinds
    BY <2>2
  <2>4. HasRead(Read(r, kinds), n, rest)
    BY <1>1, <1>3, <2>1, <2>3, ReadingItem
  <2> QED
    BY <2>2, <2>4 DEF ReadUInt32
<1> QED
  BY <1>2, <1>3

LEMMA StringItem ==
    ASSUME NEW string \in Values, NEW size \in Nat
    PROVE  /\ WriteString(string, size) \in Seq(Items(Values))
           /\ \A r : \A rest \in Seq(Items(Values)) :
                 IsReader(r) /\ Sees(r, WriteString(string, size) \o rest)
                 => HasRead(ReadString(r), string, rest)
<1>1. "string" \in Kinds
  BY DEF Kinds
<1>2. WriteString(string, size) \in Seq(Items(Values))
  BY <1>1, ItemType DEF WriteString
<1>3. ASSUME NEW r, NEW rest \in Seq(Items(Values)), IsReader(r),
             Sees(r, WriteString(string, size) \o rest)
      PROVE  HasRead(ReadString(r), string, rest)
  <2>1. Sees(r, Item("string", size, string) \o rest)
    BY <1>3 DEF WriteString
  <2>2. PICK kinds : kinds = {"string"}
    OBVIOUS
  <2>3. "string" \in kinds
    BY <2>2
  <2>4. HasRead(Read(r, kinds), string, rest)
    BY <1>1, <1>3, <2>1, <2>3, ReadingItem
  <2> QED
    BY <2>2, <2>4 DEF ReadString
<1> QED
  BY <1>2, <1>3

(* The names of columns, one after the other.                              *)
NamesFrom(r, n, f) == f = [i \in 0..n |-> IF i = 0 THEN r ELSE ReadString(f[i - 1])]

LEMMA ReadingNames ==
    ASSUME NEW n \in Nat, NEW r
    PROVE  \E f : NamesFrom(r, n, f)
<1> DEFINE T == {m \in Nat : \E f : NamesFrom(r, m, f)}
<1>1. 0 \in T
  <2>1. NamesFrom(r, 0, [i \in 0..0 |-> r])
    BY DEF NamesFrom
  <2> QED
    BY <2>1
<1>2. ASSUME NEW m \in Nat, m \in T PROVE m + 1 \in T
  <2>1. PICK f : NamesFrom(r, m, f)
    BY <1>2
  <2>2. PICK g : g = [i \in 0..(m + 1) |-> IF i = 0 THEN r ELSE ReadString(f[i - 1])]
    OBVIOUS
  <2>3. ASSUME NEW i \in 0..m PROVE g[i] = f[i]
    BY <2>1, <2>2 DEF NamesFrom
  <2>4. \A i \in 1..(m + 1) : i - 1 \in 0..m
    OBVIOUS
  <2>5. \A i \in 1..(m + 1) : g[i - 1] = f[i - 1]
    BY <2>3, <2>4
  <2>6. \A i \in 0..(m + 1) : i = 0 \/ i \in 1..(m + 1)
    OBVIOUS
  <2>7. \A i \in 0..(m + 1) :
           (IF i = 0 THEN r ELSE ReadString(f[i - 1])) = IF i = 0 THEN r ELSE ReadString(g[i - 1])
    BY <2>5, <2>6
  <2>8. NamesFrom(r, m + 1, g)
    BY <2>2, <2>7 DEF NamesFrom
  <2> QED
    BY <2>8
<1>3. T = Nat
  <2> HIDE DEF T
  <2>1. T \in SUBSET Nat
    BY DEF T
  <2> QED
    BY <1>1, <1>2, <2>1, Induct
<1> QED
  BY <1>3

AreNames(n, parts, names, sizes) ==
    \A i \in 1..n : /\ names[i] \in Values /\ sizes[i] \in Nat
                    /\ parts[i] = WriteString(names[i], sizes[i])

LEMMA ReadNames ==
    ASSUME NEW n \in Nat, NEW parts \in Seq(Seq(Items(Values))), Len(parts) = n,
           NEW names, NEW sizes, AreNames(n, parts, names, sizes),
           NEW rest \in Seq(Items(Values)), NEW r, IsReader(r),
           Sees(r, FlattenSeq(parts) \o rest), NEW f, NamesFrom(r, n, f)
    PROVE  IsReader(f[n]) /\ Sees(f[n], rest)
<1> DEFINE T == {m \in Nat : m \in 0..n => IsReader(f[m]) /\ Sees(f[m], Left(parts, m, rest))}
<1>1. 0 \in T
  <2>1. f[0] = r
    BY DEF NamesFrom
  <2>2. Left(parts, 0, rest) = FlattenSeq(parts) \o rest
    BY LeftAll
  <2> QED
    BY <2>1, <2>2
<1>2. ASSUME NEW m \in Nat, m \in T PROVE m + 1 \in T
  <2> SUFFICES ASSUME m + 1 \in 1..n
               PROVE  IsReader(f[m + 1]) /\ Sees(f[m + 1], Left(parts, m + 1, rest))
    BY <1>2
  <2>1. PICK i \in 1..n : i = m + 1 /\ i - 1 = m /\ i \in 0..n /\ i # 0
    OBVIOUS
  <2>2. m \in 0..n /\ m \in 0..Len(parts) /\ m # Len(parts)
    BY <2>1
  <2>3. IsReader(f[m]) /\ Sees(f[m], Left(parts, m, rest))
    BY <1>2, <2>2
  <2>4. Left(parts, m, rest) = parts[i] \o Left(parts, i, rest)
    BY <2>1, <2>2, LeftNext
  <2>5. PICK left \in Seq(Items(Values)) : left = Left(parts, i, rest)
    <3>1. i \in 0..Len(parts)
      BY <2>1
    <3> QED
      BY <3>1, LeftType
  <2>6. /\ names[i] \in Values /\ sizes[i] \in Nat
        /\ Sees(f[m], WriteString(names[i], sizes[i]) \o left)
    BY <2>3, <2>4, <2>5 DEF AreNames
  <2>7. HasRead(ReadString(f[m]), names[i], left)
    BY <2>3, <2>6, StringItem
  <2>8. f[i] = ReadString(f[m])
    BY <2>1 DEF NamesFrom
  <2>9. IsReader(f[i]) /\ Sees(f[i], left)
    BY <2>7, <2>8 DEF HasRead
  <2> QED
    BY <2>1, <2>5, <2>9
<1>3. T = Nat
  <2> HIDE DEF T
  <2>1. T \in SUBSET Nat
    BY DEF T
  <2> QED
    BY <1>1, <1>2, <2>1, Induct
<1>4. IsReader(f[n]) /\ Sees(f[n], Left(parts, n, rest))
  <2>1. n \in T
    <3> HIDE DEF T
    <3> QED
      BY <1>3
  <2>2. n \in 0..n
    OBVIOUS
  <2> QED
    BY <2>1, <2>2
<1>5. Left(parts, n, rest) = rest
  BY LeftNone
<1> QED
  BY <1>4, <1>5

LEMMA TableRoundTrip ==
    ASSUME NEW t \in Tables, NEW rows \in Rows, NEW compressed
    PROVE  /\ WriteTable(t, rows, compressed) \in Seq(Items(Values))
           /\ \A r : \A rest \in Seq(Items(Values)) :
                 IsReader(r) /\ Sees(r, WriteTable(t, rows, compressed) \o rest)
                 => HasRead(ReadTable(r), rows, rest)
<1>1. PICK Q : Q = Seq(Items(Values))
  OBVIOUS
<1>2. Assoc(Q) /\ Closed(Q)
  BY <1>1, Associates, Closes
<1>3. PICK names : names = Schema[t]
  OBVIOUS
<1>4. PICK n \in Nat : n = Len(names)
  <2>1. Len(names) \in Nat
    BY <1>3, SchemaFacts
  <2> QED
    BY <2>1
<1>5. PICK sizes : sizes = [c \in DOMAIN names |-> Len(names[c])]
  OBVIOUS
<1>6. DOMAIN names = 1..n
  <2>1. PICK S : S = Names \cup {""}
    OBVIOUS
  <2>2. names \in Seq(S)
    BY <1>3, <2>1, SchemaFacts
  <2> QED
    BY <1>4, <2>2
<1>7. \A c \in 1..n : names[c] \in Values /\ sizes[c] \in Nat /\ sizes[c] = Len(names[c])
  BY <1>3, <1>5, <1>6, SchemaFacts
<1>8. PICK parts : parts = [c \in DOMAIN names |-> WriteString(names[c], Len(names[c]))]
  OBVIOUS
<1>9. \A c \in 1..n : parts[c] = WriteString(names[c], sizes[c])
  BY <1>6, <1>7, <1>8
<1>10. parts \in Seq(Seq(Items(Values))) /\ Len(parts) = n
  <2>1. \A c \in 1..n : parts[c] \in Seq(Items(Values))
    BY <1>7, <1>9, StringItem
  <2>2. DOMAIN parts = 1..n /\ parts = [c \in 1..n |-> parts[c]]
    BY <1>6, <1>8
  <2> QED
    BY <2>1, <2>2
<1>11. PICK size \in Nat : size = 1 + Len(rows) * (n + 1)
  <2>1. PICK k \in Nat : k = Len(rows)
    BY DEF Rows
  <2>2. 1 + k * (n + 1) \in Nat
    OBVIOUS
  <2> QED
    BY <2>1, <2>2
<1>12. PICK a \in Q : a = WriteUInt32(Len(rows))
  <2>1. Len(rows) \in Nat
    BY DEF Rows
  <2> QED
    BY <1>1, <2>1, IntegerItem
<1>13. PICK b \in Q : b = WriteUInt32(n)
  BY <1>1, IntegerItem
<1>14. PICK c \in Q : c = FlattenSeq(parts)
  BY <1>1, <1>10, FlattenType
<1>15. rows \in Values
  BY Zenon DEF Values
<1>16. PICK d \in Q : d = WriteBuffer(rows, size, compressed)
  BY <1>1, <1>15, BufferType
<1>17. WriteTable(t, rows, compressed) = ((a \o b) \o c) \o d
  BY <1>3, <1>4, <1>8, <1>11, <1>12, <1>13, <1>14, <1>16, Zenon DEF WriteTable
<1>18. ((a \o b) \o c) \o d \in Q
  BY <1>2 DEF Closed
<1>19. ASSUME NEW r, NEW rest \in Q, IsReader(r), Sees(r, (((a \o b) \o c) \o d) \o rest)
       PROVE  HasRead(ReadTable(r), rows, rest)
  <2>1. Sees(r, a \o (b \o (c \o (d \o rest))))
    <3>1. Cat4(a, b, c, d, rest)
      BY <1>2, Assoc4
    <3> QED
      BY <1>19, <3>1 DEF Cat4
  <2>2. PICK z \in Q : z = d \o rest
    BY <1>2 DEF Closed
  <2>3. PICK y \in Q : y = c \o z
    BY <1>2 DEF Closed
  <2>4. PICK x \in Q : x = b \o y
    BY <1>2 DEF Closed
  <2>5. PICK count : count = ReadUInt32(r)
    OBVIOUS
  <2>6. HasRead(count, Len(rows), x)
    <3>1. Len(rows) \in Nat
      BY DEF Rows
    <3>2. Sees(r, WriteUInt32(Len(rows)) \o x)
      BY <1>12, <2>1, <2>2, <2>3, <2>4
    <3> QED
      BY <1>1, <1>19, <2>5, <3>1, <3>2, IntegerItem
  <2>7. PICK columns : columns = ReadUInt32(count)
    OBVIOUS
  <2>8. HasRead(columns, n, y)
    <3>1. IsReader(count) /\ Sees(count, WriteUInt32(n) \o y)
      BY <1>13, <2>4, <2>6 DEF HasRead
    <3> QED
      BY <1>1, <2>7, <3>1, IntegerItem
  <2>9. IsReader(columns) /\ columns.value = n /\ Sees(columns, c \o z)
    BY <2>3, <2>8 DEF HasRead
  <2> DEFINE F == CHOOSE f : NamesFrom(columns, n, f)
  <2>10. NamesFrom(columns, n, F)
    BY ReadingNames
  <2>11. ReadTable(r) = ReadBuffer(F[n])
    BY <2>5, <2>7, <2>9 DEF ReadTable, NamesFrom
  <2>12. PICK f : f = F
    OBVIOUS
  <2>13. IsReader(f[n]) /\ Sees(f[n], z)
    <3> HIDE DEF F
    <3>1. NamesFrom(columns, n, f) /\ Sees(columns, FlattenSeq(parts) \o z)
      BY <1>14, <2>9, <2>10, <2>12
    <3>2. z \in Seq(Items(Values))
      BY <1>1
    <3>3. AreNames(n, parts, names, sizes)
      BY <1>7, <1>9 DEF AreNames
    <3> QED
      BY <1>10, <2>9, <3>1, <3>2, <3>3, ReadNames
  <2>14. PICK s : s = f[n]
    OBVIOUS
  <2>15. Sees(s, WriteBuffer(rows, size, compressed) \o rest) /\ rest \in Seq(Items(Values))
    BY <1>1, <1>16, <2>2, <2>13, <2>14
  <2>16. HasRead(ReadBuffer(s), rows, rest)
    BY <1>15, <2>13, <2>14, <2>15, ReadingBuffer
  <2> QED
    <3> HIDE DEF F
    <3> QED
      BY <2>11, <2>12, <2>14, <2>16
<1> QED
  BY <1>1, <1>17, <1>18, <1>19

-----------------------------------------------------------------------------
(* What a loop of Index::init has read.                                    *)
Content(what, r) == IF what = "strings" THEN ReadStringTable(r) ELSE ReadTable(r)

NextNamed(what, before, name) ==
    [reader |-> Content(what, name), names |-> Append(before.names, name.value),
     contents |-> Append(before.contents, Content(what, name).value)]

NamedFrom(count, what, n, f) ==
    f = [i \in 0..n |->
            IF i = 0 THEN [reader |-> count, names |-> <<>>, contents |-> <<>>]
            ELSE NextNamed(what, f[i - 1], ReadString(f[i - 1].reader))]

LEMMA ReadingNamed ==
    ASSUME NEW n \in Nat, NEW count, NEW what
    PROVE  \E f : NamedFrom(count, what, n, f)
<1> DEFINE T == {m \in Nat : \E f : NamedFrom(count, what, m, f)}
<1>1. 0 \in T
  <2>1. NamedFrom(count, what, 0,
                  [i \in 0..0 |-> [reader |-> count, names |-> <<>>, contents |-> <<>>]])
    BY DEF NamedFrom
  <2> QED
    BY <2>1
<1>2. ASSUME NEW m \in Nat, m \in T PROVE m + 1 \in T
  <2>1. PICK f : NamedFrom(count, what, m, f)
    BY <1>2
  <2>2. PICK g : g = [i \in 0..(m + 1) |->
            IF i = 0 THEN [reader |-> count, names |-> <<>>, contents |-> <<>>]
            ELSE NextNamed(what, f[i - 1], ReadString(f[i - 1].reader))]
    OBVIOUS
  <2>3. ASSUME NEW i \in 0..m PROVE g[i] = f[i]
    BY <2>1, <2>2 DEF NamedFrom
  <2>4. \A i \in 1..(m + 1) : i - 1 \in 0..m
    OBVIOUS
  <2>5. \A i \in 1..(m + 1) : g[i - 1] = f[i - 1]
    BY <2>3, <2>4
  <2>6. \A i \in 0..(m + 1) : i = 0 \/ i \in 1..(m + 1)
    OBVIOUS
  <2>7. \A i \in 0..(m + 1) :
           (IF i = 0 THEN [reader |-> count, names |-> <<>>, contents |-> <<>>]
            ELSE NextNamed(what, f[i - 1], ReadString(f[i - 1].reader)))
           = IF i = 0 THEN [reader |-> count, names |-> <<>>, contents |-> <<>>]
             ELSE NextNamed(what, g[i - 1], ReadString(g[i - 1].reader))
    BY <2>5, <2>6
  <2>8. NamedFrom(count, what, m + 1, g)
    BY <2>2, <2>7 DEF NamedFrom
  <2> QED
    BY <2>8
<1>3. T = Nat
  <2> HIDE DEF T
  <2>1. T \in SUBSET Nat
    BY DEF T
  <2> QED
    BY <1>1, <1>2, <2>1, Induct
<1> QED
  BY <1>3

(* s is the first m of g.                                                  *)
FirstOf(s, m, g, S) == s \in Seq(S) /\ Len(s) = m /\ \A i \in 1..m : s[i] = g[i]

LEMMA FirstNone ==
    ASSUME NEW g, NEW S
    PROVE  FirstOf(<<>>, 0, g, S)
BY DEF FirstOf

LEMMA FirstMore ==
    ASSUME NEW S, NEW s, NEW m \in Nat, NEW g, FirstOf(s, m, g, S), NEW x \in S,
           NEW k, k = m + 1, x = g[k]
    PROVE  FirstOf(Append(s, x), k, g, S)
<1>1. s \in Seq(S) /\ Len(s) = m /\ \A i \in 1..m : s[i] = g[i]
  BY DEF FirstOf
<1>2. Append(s, x) \in Seq(S) /\ Len(Append(s, x)) = k
  BY <1>1
<1>3. Append(s, x)[k] = x /\ \A i \in 1..m : Append(s, x)[i] = s[i]
  BY <1>1
<1>4. \A i \in 1..k : i = k \/ i \in 1..m
  OBVIOUS
<1>5. \A i \in 1..k : Append(s, x)[i] = g[i]
  BY <1>1, <1>3, <1>4
<1> QED
  BY <1>2, <1>5 DEF FirstOf

(* parts[i] is what was written of names[i], and bodies[i] is read back.   *)
AreEntries(n, parts, names, sizes, bodies) ==
    \A i \in 1..n : /\ names[i] \in Values /\ sizes[i] \in Nat
                    /\ bodies[i] \in Seq(Items(Values))
                    /\ parts[i] = WriteString(names[i], sizes[i]) \o bodies[i]

AreRead(n, what, bodies, contents) ==
    \A i \in 1..n : \A r : \A rest \in Seq(Items(Values)) :
        IsReader(r) /\ Sees(r, bodies[i] \o rest) => HasRead(Content(what, r), contents[i], rest)

LEMMA ReadEntries ==
    ASSUME NEW n \in Nat, NEW parts \in Seq(Seq(Items(Values))), Len(parts) = n,
           NEW names, NEW sizes, NEW bodies, AreEntries(n, parts, names, sizes, bodies),
           NEW C, NEW contents, \A i \in 1..n : contents[i] \in C,
           NEW what, AreRead(n, what, bodies, contents),
           NEW rest \in Seq(Items(Values)), NEW count, IsReader(count),
           Sees(count, FlattenSeq(parts) \o rest), NEW f, NamedFrom(count, what, n, f)
    PROVE  /\ IsReader(f[n].reader) /\ Sees(f[n].reader, rest)
           /\ FirstOf(f[n].names, n, names, Values) /\ FirstOf(f[n].contents, n, contents, C)
<1> DEFINE P(m) == /\ IsReader(f[m].reader) /\ Sees(f[m].reader, Left(parts, m, rest))
                   /\ FirstOf(f[m].names, m, names, Values)
                   /\ FirstOf(f[m].contents, m, contents, C)
           T == {m \in Nat : m \in 0..n => P(m)}
<1>1. 0 \in T
  <2>1. f[0] = [reader |-> count, names |-> <<>>, contents |-> <<>>]
    BY DEF NamedFrom
  <2>2. Left(parts, 0, rest) = FlattenSeq(parts) \o rest
    BY LeftAll
  <2>3. FirstOf(<<>>, 0, names, Values) /\ FirstOf(<<>>, 0, contents, C)
    BY FirstNone
  <2>4. PICK first : first = f[0]
    OBVIOUS
  <2>5. first.reader = count /\ first.names = <<>> /\ first.contents = <<>>
    BY <2>1, <2>4
  <2>6. P(0)
    BY <2>2, <2>3, <2>4, <2>5
  <2> QED
    <3> HIDE DEF P
    <3> QED
      BY <2>6
<1>2. ASSUME NEW m \in Nat, m \in T PROVE m + 1 \in T
  <2> SUFFICES ASSUME m + 1 \in 1..n PROVE P(m + 1)
    BY <1>2
  <2>1. PICK i \in 1..n : i = m + 1 /\ i - 1 = m /\ i \in 0..n /\ i # 0
    OBVIOUS
  <2>2. m \in 0..n /\ m \in 0..Len(parts) /\ m # Len(parts)
    BY <2>1
  <2>3. P(m)
    BY <1>2, <2>2
  <2>4. Left(parts, m, rest) = parts[i] \o Left(parts, i, rest)
    BY <2>1, <2>2, LeftNext
  <2>5. PICK left \in Seq(Items(Values)) : left = Left(parts, i, rest)
    <3>1. i \in 0..Len(parts)
      BY <2>1
    <3> QED
      BY <3>1, LeftType
  <2>6. /\ names[i] \in Values /\ sizes[i] \in Nat /\ bodies[i] \in Seq(Items(Values))
        /\ parts[i] = WriteString(names[i], sizes[i]) \o bodies[i]
    BY DEF AreEntries
  <2>7. PICK Q : Q = Seq(Items(Values))
    OBVIOUS
  <2>8. PICK a \in Q : a = WriteString(names[i], sizes[i])
    BY <2>6, <2>7, StringItem
  <2>9. PICK body \in Q : body = bodies[i]
    BY <2>6, <2>7
  <2>10. Assoc(Q) /\ Closed(Q) /\ left \in Q
    BY <2>7, Associates, Closes
  <2>11. PICK after \in Q : after = body \o left
    BY <2>10 DEF Closed
  <2>12. (a \o body) \o left = a \o after
    <3>1. Regroup(Q, a, body)
      BY <2>10, Regroups
    <3> QED
      BY <2>10, <2>11, <3>1 DEF Regroup
  <2>13. PICK before : before = f[m]
    OBVIOUS
  <2>14. Sees(before.reader, a \o after) /\ IsReader(before.reader)
    BY <2>3, <2>4, <2>5, <2>6, <2>8, <2>9, <2>12, <2>13
  <2>15. PICK name : name = ReadString(before.reader)
    OBVIOUS
  <2>16. HasRead(name, names[i], after)
    <3>1. Sees(before.reader, WriteString(names[i], sizes[i]) \o after)
      BY <2>8, <2>14
    <3>2. after \in Seq(Items(Values))
      BY <2>7
    <3> QED
      BY <2>6, <2>14, <2>15, <3>1, <3>2, StringItem
  <2>17. PICK content : content = Content(what, name)
    OBVIOUS
  <2>18. HasRead(content, contents[i], left)
    <3>1. IsReader(name) /\ Sees(name, bodies[i] \o left)
      BY <2>9, <2>11, <2>16 DEF HasRead
    <3> QED
      BY <2>17, <3>1 DEF AreRead
  <2>19. f[i] = NextNamed(what, before, name)
    BY <2>1, <2>13, <2>15 DEF NamedFrom
  <2>20. f[i] = [reader |-> content, names |-> Append(before.names, name.value),
                 contents |-> Append(before.contents, content.value)]
    BY <2>17, <2>19 DEF NextNamed
  <2>21. IsReader(f[i].reader) /\ Sees(f[i].reader, left)
    BY <2>18, <2>20 DEF HasRead
  <2>22. name.value = names[i] /\ content.value = contents[i]
    BY <2>16, <2>18 DEF HasRead
  <2>23. FirstOf(Append(before.names, name.value), i, names, Values)
    <3>1. name.value \in Values
      BY <2>6, <2>22
    <3> QED
      BY <2>1, <2>3, <2>13, <2>22, <3>1, FirstMore
  <2>24. FirstOf(Append(before.contents, content.value), i, contents, C)
    <3>1. content.value \in C
      BY <2>22
    <3> QED
      BY <2>1, <2>3, <2>13, <2>22, <3>1, FirstMore
  <2>25. P(i)
    BY <2>5, <2>20, <2>21, <2>23, <2>24
  <2> QED
    BY <2>1, <2>25
<1>3. T = Nat
  <2> HIDE DEF T
  <2>1. T \in SUBSET Nat
    BY DEF T
  <2> QED
    BY <1>1, <1>2, <2>1, Induct
<1>4. P(n)
  <2>1. n \in T
    <3> HIDE DEF T
    <3> QED
      BY <1>3
  <2>2. n \in 0..n
    OBVIOUS
  <2> QED
    BY <2>1, <2>2
<1>5. Left(parts, n, rest) = rest
  BY LeftNone
<1> QED
  BY <1>4, <1>5

OneToOne(n, names) == \A i, j \in 1..n : names[i] = names[j] => i = j

(* names and contents list the map.                                        *)
Lists(n, names, contents, map) ==
    /\ map = [name \in {names[i] : i \in 1..n} |-> map[name]]
    /\ \A i \in 1..n : contents[i] = map[names[i]]

LEMMA NamedRoundTrip ==
    ASSUME NEW n \in Nat, NEW parts \in Seq(Seq(Items(Values))), Len(parts) = n,
           NEW names, NEW sizes, NEW bodies, AreEntries(n, parts, names, sizes, bodies),
           OneToOne(n, names), NEW map, NEW contents, Lists(n, names, contents, map),
           NEW what, AreRead(n, what, bodies, contents),
           NEW rest \in Seq(Items(Values)), NEW r, IsReader(r),
           Sees(r, WriteUInt32(n) \o (FlattenSeq(parts) \o rest))
    PROVE  /\ IsReader(ReadNamed(r, what).reader) /\ Sees(ReadNamed(r, what).reader, rest)
           /\ ReadNamed(r, what).map = map
<1>1. PICK count : count = ReadUInt32(r)
  OBVIOUS
<1>2. IsReader(count) /\ count.value = n /\ Sees(count, FlattenSeq(parts) \o rest)
  <2>1. FlattenSeq(parts) \o rest \in Seq(Items(Values))
    BY FlattenType, ConcatProperties
  <2> QED
    BY <1>1, <2>1, IntegerItem DEF HasRead
<1> DEFINE F == CHOOSE f : NamedFrom(count, what, n, f)
<1>3. NamedFrom(count, what, n, F)
  BY ReadingNamed
<1>4. ReadNamed(r, what) =
         [reader |-> F[n].reader,
          map |-> [name \in ToSet(F[n].names) |->
                      F[n].contents[CHOOSE i \in DOMAIN F[n].names : F[n].names[i] = name]]]
  BY <1>1, <1>2 DEF ReadNamed, ByName, WithNamed, NamedFrom, NextNamed, Content
<1>5. PICK all : all = F[n]
  OBVIOUS
<1>6. PICK C : C = {contents[i] : i \in 1..n}
  OBVIOUS
<1>7. /\ IsReader(all.reader) /\ Sees(all.reader, rest)
      /\ FirstOf(all.names, n, names, Values) /\ FirstOf(all.contents, n, contents, C)
  <2> HIDE DEF F
  <2>1. \A i \in 1..n : contents[i] \in C
    BY <1>6
  <2> QED
    BY <1>2, <1>3, <1>5, <2>1, ReadEntries
<1>8. /\ DOMAIN all.names = 1..n /\ \A i \in 1..n : all.names[i] = names[i]
      /\ \A i \in 1..n : all.contents[i] = contents[i]
  BY <1>7 DEF FirstOf
<1>9. ToSet(all.names) = {names[i] : i \in 1..n}
  <2>1. ToSet(all.names) = {all.names[i] : i \in 1..n}
    BY <1>8 DEF ToSet
  <2>2. ASSUME NEW x \in {all.names[i] : i \in 1..n} PROVE x \in {names[i] : i \in 1..n}
    <3>1. PICK i \in 1..n : x = all.names[i]
      OBVIOUS
    <3> QED
      BY <1>8, <3>1
  <2>3. ASSUME NEW x \in {names[i] : i \in 1..n} PROVE x \in {all.names[i] : i \in 1..n}
    <3>1. PICK i \in 1..n : x = names[i]
      OBVIOUS
    <3> QED
      BY <1>8, <3>1
  <2> QED
    BY <2>1, <2>2, <2>3
<1>10. ASSUME NEW name \in {names[i] : i \in 1..n}
       PROVE  all.contents[CHOOSE i \in DOMAIN all.names : all.names[i] = name] = map[name]
  <2>1. PICK k \in 1..n : name = names[k]
    OBVIOUS
  <2>2. (CHOOSE i \in DOMAIN all.names : all.names[i] = name) = k
    BY <1>8, <2>1 DEF OneToOne
  <2> QED
    BY <1>8, <2>1, <2>2 DEF Lists
<1>11. ReadNamed(r, what).map = map
  <2>1. ReadNamed(r, what).map =
           [name \in ToSet(all.names) |->
               all.contents[CHOOSE i \in DOMAIN all.names : all.names[i] = name]]
    <3> HIDE DEF F
    <3> QED
      BY <1>4, <1>5
  <2>2. PICK D : D = {names[i] : i \in 1..n}
    OBVIOUS
  <2>3. ReadNamed(r, what).map =
           [name \in D |-> all.contents[CHOOSE i \in DOMAIN all.names : all.names[i] = name]]
    BY <1>9, <2>1, <2>2
  <2>4. PICK got : got = ReadNamed(r, what).map
    OBVIOUS
  <2>5. ASSUME NEW name \in D PROVE got[name] = map[name]
    <3>1. got[name] = all.contents[CHOOSE i \in DOMAIN all.names : all.names[i] = name]
      BY <2>3, <2>4
    <3> QED
      BY <1>10, <2>2, <3>1
  <2>6. got = [name \in D |-> got[name]]
    BY <2>3, <2>4
  <2>7. map = [name \in D |-> map[name]]
    BY <2>2 DEF Lists
  <2> QED
    BY <2>4, <2>5, <2>6, <2>7
<1>12. ReadNamed(r, what).reader = all.reader
  <2> HIDE DEF F
  <2> QED
    BY <1>4, <1>5
<1> QED
  BY <1>7, <1>11, <1>12

-----------------------------------------------------------------------------
(* SetToSeq of a finite set has each element once.                         *)
Enumerates(s, S) ==
    /\ s \in [1..Cardinality(S) -> S] /\ Cardinality(S) \in Nat
    /\ \A i, j \in 1..Cardinality(S) : s[i] = s[j] => i = j
    /\ \A x \in S : \E i \in 1..Cardinality(S) : s[i] = x

LEMMA Enumeration ==
    ASSUME NEW S, IsFiniteSet(S)
    PROVE  Enumerates(SetToSeq(S), S)
<1>1. PICK n \in Nat : n = Cardinality(S)
  BY FS_CardinalityType
<1>2. PICK g : g \in Bijection(1..n, S)
  BY <1>1, FS_CardinalityType DEF ExistsBijection
<1>3. g \in [1..n -> S] /\ IsInjective(g)
  BY <1>2 DEF Bijection, Injection
<1>4. PICK s : s = SetToSeq(S)
  OBVIOUS
<1>5. s \in [1..n -> S] /\ IsInjective(s)
  <2>1. s = CHOOSE f \in [1..n -> S] : IsInjective(f)
    BY <1>1, <1>4 DEF SetToSeq
  <2> QED
    BY <1>3, <2>1
<1>6. s \in Injection(1..n, S)
  BY <1>5 DEF Injection
<1>7. IsFiniteSet(1..n) /\ Cardinality(1..n) = n
  <2>1. 0 \in Int /\ 1 \in Int /\ n \in Int
    OBVIOUS
  <2> QED
    BY <2>1, FS_Interval
<1>8. s \in Surjection(1..n, S)
  BY <1>1, <1>6, <1>7, FS_Injection
<1>9. \A x \in S : \E i \in 1..n : s[i] = x
  BY <1>8 DEF Surjection
<1>10. \A i, j \in 1..n : s[i] = s[j] => i = j
  BY <1>5 DEF IsInjective
<1> QED
  BY <1>1, <1>4, <1>5, <1>9, <1>10 DEF Enumerates

LEMMA WordFacts ==
    /\ \A name \in Names \cup Tables : name \in Values /\ Len(name) \in Nat
    /\ IsFiniteSet(Names) /\ IsFiniteSet(Tables)
    /\ {"Symbol", "SymbolType", "ReferenceType"} = Names
<1>1. \A name \in Names \cup Tables : name \in Values
  <2>1. \A name \in Names \cup Tables : name \in Words
    BY DEF Words
  <2> QED
    BY <2>1, Zenon DEF Values
<1>2. \A name \in Names \cup Tables : Len(name) \in Nat
  BY StringAssumption DEF Names, Tables
<1>3. \A a, b, c : IsFiniteSet({a, b, c})
  <2> TAKE a, b, c
  <2>1. IsFiniteSet({a})
    BY FS_Singleton
  <2>2. IsFiniteSet({b})
    BY FS_Singleton
  <2>3. IsFiniteSet({c})
    BY FS_Singleton
  <2>4. IsFiniteSet({a} \cup {b})
    BY <2>1, <2>2, FS_Union
  <2>5. IsFiniteSet(({a} \cup {b}) \cup {c})
    BY <2>3, <2>4, FS_Union
  <2>6. ({a} \cup {b}) \cup {c} = {a, b, c}
    OBVIOUS
  <2> QED
    BY <2>5, <2>6
<1>4. IsFiniteSet(Names)
  BY <1>3 DEF Names
<1>5. IsFiniteSet(Tables)
  <2>1. IsFiniteSet({"Reference", "ReferenceIndex", "Symbol"})
    BY <1>3
  <2>2. IsFiniteSet({"Symbol", "SymbolTypeIndex", "GlobalSymbol"})
    BY <1>3
  <2>3. IsFiniteSet({"Reference", "ReferenceIndex", "Symbol"}
                    \cup {"Symbol", "SymbolTypeIndex", "GlobalSymbol"})
    BY <2>1, <2>2, FS_Union
  <2>4. {"Reference", "ReferenceIndex", "Symbol"}
        \cup {"Symbol", "SymbolTypeIndex", "GlobalSymbol"} = Tables
    BY DEF Tables
  <2> QED
    BY <2>3, <2>4
<1> QED
  BY <1>1, <1>2, <1>4, <1>5 DEF Names

(* One of the two maps of an index, as it is written and read.             *)
AreBodies(D, what, map, bodies) ==
    \A name \in D : /\ bodies[name] \in Seq(Items(Values))
                    /\ \A r : \A rest \in Seq(Items(Values)) :
                          IsReader(r) /\ Sees(r, bodies[name] \o rest)
                          => HasRead(Content(what, r), map[name], rest)

Section(names, bodies) ==
    FlattenSeq([i \in DOMAIN names |->
                   WriteString(names[i], Len(names[i])) \o bodies[names[i]]])

ReadsBack(n, section, what, map) ==
    /\ section \in Seq(Items(Values))
    /\ \A r : \A rest \in Seq(Items(Values)) :
          IsReader(r) /\ Sees(r, WriteUInt32(n) \o (section \o rest))
          => /\ IsReader(ReadNamed(r, what).reader) /\ Sees(ReadNamed(r, what).reader, rest)
             /\ ReadNamed(r, what).map = map

LEMMA SectionRoundTrip ==
    ASSUME NEW D \in SUBSET (Names \cup Tables), IsFiniteSet(D), NEW what,
           NEW map, map = [name \in D |-> map[name]], NEW bodies, AreBodies(D, what, map, bodies)
    PROVE  /\ Len(SetToSeq(D)) \in Nat
           /\ ReadsBack(Len(SetToSeq(D)), Section(SetToSeq(D), bodies), what, map)
<1>1. PICK names : names = SetToSeq(D)
  OBVIOUS
<1>2. PICK n : n = Cardinality(D)
  OBVIOUS
<1>3. /\ n \in Nat /\ names \in [1..n -> D]
      /\ \A i, j \in 1..n : names[i] = names[j] => i = j
      /\ \A x \in D : \E i \in 1..n : names[i] = x
  <2>1. Enumerates(names, D)
    BY <1>1, Enumeration
  <2> QED
    BY <1>2, <2>1 DEF Enumerates
<1>4. DOMAIN names = 1..n /\ Len(names) = n
  BY <1>3
<1>5. {names[i] : i \in 1..n} = D
  <2>1. \A i \in 1..n : names[i] \in D
    BY <1>3
  <2>2. ASSUME NEW x \in D PROVE x \in {names[i] : i \in 1..n}
    BY <1>3
  <2> QED
    BY <2>1, <2>2
<1>6. PICK sizes : sizes = [i \in 1..n |-> Len(names[i])]
  OBVIOUS
<1>7. PICK written : written = [i \in 1..n |-> bodies[names[i]]]
  OBVIOUS
<1>8. PICK parts : parts = [i \in DOMAIN names |->
                               WriteString(names[i], Len(names[i])) \o bodies[names[i]]]
  OBVIOUS
<1>9. ASSUME NEW i \in 1..n
      PROVE  /\ names[i] \in Values /\ sizes[i] \in Nat /\ sizes[i] = Len(names[i])
             /\ written[i] \in Seq(Items(Values)) /\ written[i] = bodies[names[i]]
             /\ parts[i] = WriteString(names[i], sizes[i]) \o written[i]
             /\ parts[i] \in Seq(Items(Values))
  <2>1. names[i] \in D /\ names[i] \in Names \cup Tables
    BY <1>3
  <2>2. names[i] \in Values /\ Len(names[i]) \in Nat
    BY <2>1, WordFacts
  <2>3. sizes[i] \in Nat /\ sizes[i] = Len(names[i])
    BY <1>6, <2>2
  <2>4. written[i] = bodies[names[i]] /\ written[i] \in Seq(Items(Values))
    BY <1>7, <2>1 DEF AreBodies
  <2>5. parts[i] = WriteString(names[i], sizes[i]) \o written[i]
    BY <1>4, <1>8, <2>3, <2>4
  <2>6. PICK Q : Q = Seq(Items(Values))
    OBVIOUS
  <2>7. WriteString(names[i], sizes[i]) \in Q
    BY <2>2, <2>3, <2>6, StringItem
  <2>8. parts[i] \in Q
    <3>1. Closed(Q)
      BY <2>6, Closes
    <3> QED
      BY <2>4, <2>5, <2>6, <2>7, <3>1 DEF Closed
  <2> QED
    BY <2>2, <2>3, <2>4, <2>5, <2>6, <2>8
<1>10. parts \in Seq(Seq(Items(Values))) /\ Len(parts) = n
  <2>1. \A i \in 1..n : parts[i] \in Seq(Items(Values))
    BY <1>9
  <2>2. DOMAIN parts = 1..n /\ parts = [i \in 1..n |-> parts[i]]
    BY <1>4, <1>8
  <2> QED
    BY <1>3, <2>1, <2>2
<1>11. AreEntries(n, parts, names, sizes, written)
  BY <1>9 DEF AreEntries
<1>12. PICK contents : contents = [i \in 1..n |-> map[names[i]]]
  OBVIOUS
<1>13. \A i \in 1..n : contents[i] = map[names[i]]
  BY <1>12
<1>14. AreRead(n, what, written, contents)
  <2> SUFFICES ASSUME NEW i \in 1..n, NEW r, NEW rest \in Seq(Items(Values)),
                      IsReader(r), Sees(r, written[i] \o rest)
               PROVE  HasRead(Content(what, r), contents[i], rest)
    BY DEF AreRead
  <2>1. names[i] \in D /\ written[i] = bodies[names[i]]
    BY <1>3, <1>9
  <2>2. Sees(r, bodies[names[i]] \o rest)
    BY <2>1
  <2>3. HasRead(Content(what, r), map[names[i]], rest)
    BY <2>1, <2>2 DEF AreBodies
  <2> QED
    BY <1>13, <2>3
<1>15. map = [name \in {names[i] : i \in 1..n} |-> map[name]]
  BY <1>5
<1>16. ASSUME NEW r, NEW rest \in Seq(Items(Values)), IsReader(r),
              Sees(r, WriteUInt32(n) \o (FlattenSeq(parts) \o rest))
       PROVE  /\ IsReader(ReadNamed(r, what).reader) /\ Sees(ReadNamed(r, what).reader, rest)
              /\ ReadNamed(r, what).map = map
  <2>1. OneToOne(n, names)
    BY <1>3 DEF OneToOne
  <2>2. Lists(n, names, contents, map)
    BY <1>13, <1>15 DEF Lists
  <2> QED
    BY <1>3, <1>10, <1>11, <1>14, <1>16, <2>1, <2>2, NamedRoundTrip
<1>17. FlattenSeq(parts) \in Seq(Items(Values))
  BY <1>10, FlattenType
<1>18. Section(names, bodies) = FlattenSeq(parts)
  BY <1>8 DEF Section
<1>19. ReadsBack(n, FlattenSeq(parts), what, map)
  BY <1>16, <1>17 DEF ReadsBack
<1> QED
  BY <1>1, <1>3, <1>4, <1>18, <1>19

-----------------------------------------------------------------------------
(* Indices, and what a reader makes of one.                                *)
TableMaps == UNION {[D -> Rows] : D \in SUBSET Tables}

Indices == [strings : [Names -> Seq(Nat)], finalized : SUBSET Names,
            rows : TableMaps, readonly : SUBSET Tables]

Frozen(ix) == [strings |-> ix.strings, finalized |-> {}, rows |-> ix.rows,
               readonly |-> DOMAIN ix.rows]

(* Bytes that are not empty, and do not end in an item of no size.         *)
Solid(items) == Len(items) # 0 /\ items[Len(items)].size # 0
Ended(items) == items = <<>> \/ Solid(items)

LEMMA SolidBefore ==
    ASSUME NEW S, NEW a \in Seq(S), NEW b \in Seq(S), Solid(b)
    PROVE  Solid(a \o b)
<1>1. PICK c : c = a \o b
  OBVIOUS
<1>2. PICK k \in Nat, n \in Nat : k = Len(a) /\ n = Len(b) /\ n # 0
  BY DEF Solid
<1>3. c \in Seq(S) /\ Len(c) = k + n
  BY <1>1, <1>2
<1>4. PICK m \in Nat : m = k + n /\ m # 0 /\ m > k /\ m - k = n
  BY <1>2
<1>5. c[m] = b[n]
  BY <1>1, <1>2, <1>4
<1> QED
  BY <1>1, <1>2, <1>3, <1>4, <1>5 DEF Solid

LEMMA SolidAfter ==
    ASSUME NEW S, NEW a \in Seq(S), NEW b \in Seq(S), Solid(a), Ended(b)
    PROVE  Solid(a \o b)
<1>1. CASE b = <<>>
  <2>1. a \o b = a
    BY <1>1, ConcatEmptySeq
  <2> QED
    BY <2>1
<1>2. CASE Solid(b)
  BY <1>2, SolidBefore
<1> QED
  BY <1>1, <1>2 DEF Ended

LEMMA EndedFlat ==
    ASSUME NEW S, NEW parts \in Seq(Seq(S)), \A i \in 1..Len(parts) : Solid(parts[i])
    PROVE  Ended(FlattenSeq(parts))
<1>1. PICK n \in Nat : n = Len(parts)
  OBVIOUS
<1>2. PICK none \in Seq(S) : none = <<>>
  <2>1. <<>> \in Seq(S)
    OBVIOUS
  <2> QED
    BY <2>1
<1> DEFINE T == {k \in Nat : \A m \in 0..n : m = n - k => Ended(Left(parts, m, none))}
<1>3. 0 \in T
  <2>1. Left(parts, n, none) = none
    BY <1>1, LeftNone
  <2>2. Ended(Left(parts, n, none))
    BY <1>2, <2>1 DEF Ended
  <2>3. \A m \in 0..n : m = n - 0 => m = n
    OBVIOUS
  <2> QED
    BY <2>2, <2>3
<1>4. ASSUME NEW k \in Nat, k \in T PROVE k + 1 \in T
  <2> SUFFICES ASSUME NEW m \in 0..n, m = n - (k + 1) PROVE Ended(Left(parts, m, none))
    OBVIOUS
  <2>1. PICK i \in 1..n : i = m + 1 /\ i = n - k /\ i \in 0..n
    OBVIOUS
  <2>2. Ended(Left(parts, i, none))
    BY <1>4, <2>1
  <2>3. Left(parts, m, none) = parts[i] \o Left(parts, i, none)
    <3>1. m \in 0..Len(parts) /\ m # Len(parts)
      BY <1>1, <2>1
    <3> QED
      BY <2>1, <3>1, LeftNext
  <2>4. PICK left \in Seq(S) : left = Left(parts, i, none)
    <3>1. i \in 0..Len(parts)
      BY <1>1, <2>1
    <3> QED
      BY <3>1, LeftType
  <2>5. parts[i] \in Seq(S) /\ Solid(parts[i])
    BY <1>1
  <2>6. Solid(parts[i] \o left)
    BY <2>2, <2>4, <2>5, SolidAfter
  <2> QED
    BY <2>3, <2>4, <2>6 DEF Ended
<1>5. T = Nat
  <2> HIDE DEF T
  <2>1. T \in SUBSET Nat
    BY DEF T
  <2> QED
    BY <1>3, <1>4, <2>1, Induct
<1>6. Ended(Left(parts, 0, none))
  <2>1. n \in T
    <3> HIDE DEF T
    <3> QED
      BY <1>5
  <2>2. 0 \in 0..n /\ 0 = n - n
    OBVIOUS
  <2> QED
    BY <2>1, <2>2
<1>7. Left(parts, 0, none) = FlattenSeq(parts)
  <2>1. FlattenSeq(parts) \o none = FlattenSeq(parts)
    <3>1. FlattenSeq(parts) \in Seq(S)
      BY FlattenType
    <3> QED
      BY <1>2, <3>1, ConcatEmptySeq
  <2>2. Left(parts, 0, none) = FlattenSeq(parts) \o none
    BY LeftAll
  <2> QED
    BY <2>1, <2>2
<1> QED
  BY <1>6, <1>7

LEMMA SolidItem ==
    ASSUME NEW V, NEW kind \in Kinds, NEW size \in Nat \ {0}, NEW value \in V
    PROVE  Solid(Item(kind, size, value))
<1>1. PICK item \in Items(V) : Item(kind, size, value) = <<item>> /\ item.size = size
  BY OneItem
<1>2. PICK s : s = <<item>>
  OBVIOUS
<1>3. Len(s) = 1 /\ s[1] = item
  BY <1>2
<1>4. Solid(s)
  BY <1>1, <1>3 DEF Solid
<1> QED
  BY <1>1, <1>2, <1>4

LEMMA SolidBuffer ==
    ASSUME NEW V, NEW content \in V, NEW size \in Nat
    PROVE  Solid(WriteBuffer(content, size, TRUE))
<1>1. PICK compressed : compressed = TRUE
  OBVIOUS
<1>2. PICK kind \in {"compressed", "buffer"}, n \in Nat :
         WriteBuffer(content, size, compressed) = Item(kind, n, content) /\ n > 0
  BY <1>1, Buffer
<1>3. kind \in Kinds /\ n \in Nat \ {0}
  BY <1>2 DEF Kinds
<1>4. Solid(Item(kind, n, content))
  BY <1>3, SolidItem
<1> QED
  BY <1>1, <1>2, <1>4
-----------------------------------------------------------------------------
StringBodies(ix, compressed) == [n \in Names |-> WriteStringTable(ix.strings[n], compressed)]
TableBodies(ix, compressed) ==
    [t \in DOMAIN ix.rows |-> WriteTable(t, ix.rows[t], compressed)]

LEMMA IndexBodies ==
    ASSUME NEW ix \in Indices, NEW compressed
    PROVE  /\ ix.strings = [n \in Names |-> ix.strings[n]]
           /\ AreBodies(Names, "strings", ix.strings, StringBodies(ix, compressed))
           /\ DOMAIN ix.rows \in SUBSET Tables
           /\ ix.rows = [t \in DOMAIN ix.rows |-> ix.rows[t]]
           /\ AreBodies(DOMAIN ix.rows, "tables", ix.rows, TableBodies(ix, compressed))
<1>1. PICK strings : strings = ix.strings
  OBVIOUS
<1>2. PICK rows : rows = ix.rows
  OBVIOUS
<1>3. strings \in [Names -> Seq(Nat)] /\ rows \in TableMaps
  BY <1>1, <1>2 DEF Indices
<1>4. PICK D \in SUBSET Tables : rows \in [D -> Rows]
  BY <1>3 DEF TableMaps
<1>5. PICK sb : sb = StringBodies(ix, compressed)
  OBVIOUS
<1>6. PICK tb : tb = TableBodies(ix, compressed)
  OBVIOUS
<1>7. sb = [n \in Names |-> WriteStringTable(strings[n], compressed)]
  BY <1>1, <1>5 DEF StringBodies
<1>8. tb = [t \in D |-> WriteTable(t, rows[t], compressed)]
  BY <1>2, <1>4, <1>6 DEF TableBodies
<1>9. AreBodies(Names, "strings", strings, sb)
  <2> SUFFICES ASSUME NEW n \in Names
               PROVE  /\ sb[n] \in Seq(Items(Values))
                      /\ \A r : \A rest \in Seq(Items(Values)) :
                            IsReader(r) /\ Sees(r, sb[n] \o rest)
                            => HasRead(Content("strings", r), strings[n], rest)
    BY DEF AreBodies
  <2>1. PICK s \in Seq(Nat) : s = strings[n]
    BY <1>3
  <2>2. sb[n] = WriteStringTable(s, compressed)
    BY <1>7, <2>1
  <2>3. sb[n] \in Seq(Items(Values))
    BY <2>2, StringTableRoundTrip
  <2>4. ASSUME NEW r, NEW rest \in Seq(Items(Values)), IsReader(r), Sees(r, sb[n] \o rest)
        PROVE  HasRead(Content("strings", r), strings[n], rest)
    <3>1. Sees(r, WriteStringTable(s, compressed) \o rest)
      BY <2>2, <2>4
    <3>2. HasRead(ReadStringTable(r), s, rest)
      BY <2>4, <3>1, StringTableRoundTrip
    <3>3. Content("strings", r) = ReadStringTable(r)
      BY DEF Content
    <3> QED
      BY <2>1, <3>2, <3>3
  <2> QED
    BY <2>3, <2>4
<1>10. AreBodies(D, "tables", rows, tb)
  <2> SUFFICES ASSUME NEW t \in D
               PROVE  /\ tb[t] \in Seq(Items(Values))
                      /\ \A r : \A rest \in Seq(Items(Values)) :
                            IsReader(r) /\ Sees(r, tb[t] \o rest)
                            => HasRead(Content("tables", r), rows[t], rest)
    BY DEF AreBodies
  <2>1. PICK s \in Rows : s = rows[t]
    BY <1>4
  <2>2. tb[t] = WriteTable(t, s, compressed) /\ t \in Tables
    BY <1>8, <2>1
  <2>3. tb[t] \in Seq(Items(Values))
    BY <2>2, TableRoundTrip
  <2>4. ASSUME NEW r, NEW rest \in Seq(Items(Values)), IsReader(r), Sees(r, tb[t] \o rest)
        PROVE  HasRead(Content("tables", r), rows[t], rest)
    <3>1. Sees(r, WriteTable(t, s, compressed) \o rest)
      BY <2>2, <2>4
    <3>2. HasRead(ReadTable(r), s, rest)
      BY <2>2, <2>4, <3>1, TableRoundTrip
    <3>3. Content("tables", r) = ReadTable(r)
      BY DEF Content
    <3> QED
      BY <2>1, <3>2, <3>3
  <2> QED
    BY <2>3, <2>4
<1>11. strings = [n \in Names |-> strings[n]] /\ DOMAIN rows = D /\ rows = [t \in D |-> rows[t]]
  BY <1>3, <1>4
<1> QED
  BY <1>1, <1>2, <1>5, <1>6, <1>9, <1>10, <1>11

LEMMA Signature ==
    ASSUME NEW signature \in {"IDX", "IAR"}
    PROVE  /\ WriteSignature(signature) \in Seq(Items(Values))
           /\ Solid(WriteSignature(signature))
           /\ \A r : \A rest \in Seq(Items(Values)) :
                 IsReader(r) /\ Sees(r, WriteSignature(signature) \o rest)
                 => HasRead(ReadSignature(r), signature, rest)
<1>1. PICK size \in Nat \ {0} : size = Len(signature)
  BY StringAssumption
<1>2. signature \in Values
  <2>1. signature \in Words
    BY DEF Words
  <2> QED
    BY <2>1, Zenon DEF Values
<1>3. "data" \in Kinds
  BY DEF Kinds
<1>4. WriteSignature(signature) = Item("data", size, signature)
  BY <1>1 DEF WriteSignature
<1>5. Item("data", size, signature) \in Seq(Items(Values))
  BY <1>2, <1>3, ItemType
<1>6. Solid(Item("data", size, signature))
  BY <1>2, <1>3, SolidItem
<1>7. ASSUME NEW r, NEW rest \in Seq(Items(Values)), IsReader(r),
             Sees(r, Item("data", size, signature) \o rest)
      PROVE  HasRead(ReadSignature(r), signature, rest)
  <2>1. PICK kinds : kinds = {"data"}
    OBVIOUS
  <2>2. "data" \in kinds /\ size \in Nat
    BY <2>1
  <2>3. HasRead(Read(r, kinds), signature, rest)
    BY <1>2, <1>3, <1>7, <2>2, ReadingItem
  <2> QED
    BY <2>1, <2>3 DEF ReadSignature
<1> QED
  BY <1>4, <1>5, <1>6, <1>7

-----------------------------------------------------------------------------
(* The five parts of the file of an index.                                 *)
LEMMA IndexParts ==
    ASSUME NEW ix \in Indices, NEW compressed
    PROVE  WriteIndex(ix, compressed) =
              (((WriteSignature("IDX") \o WriteUInt32(Len(SetToSeq(Names))))
                \o Section(SetToSeq(Names), StringBodies(ix, compressed)))
               \o WriteUInt32(Len(SetToSeq(DOMAIN ix.rows))))
              \o Section(SetToSeq(DOMAIN ix.rows), TableBodies(ix, compressed))
<1>1. PICK names : names = SetToSeq(Names)
  OBVIOUS
<1>2. PICK tables : tables = SetToSeq(DOMAIN ix.rows)
  OBVIOUS
<1>3. \A i \in DOMAIN names : names[i] \in Names
  <2>1. Enumerates(names, Names)
    BY <1>1, WordFacts, Enumeration
  <2> QED
    BY <2>1 DEF Enumerates
<1>4. \A i \in DOMAIN tables : tables[i] \in DOMAIN ix.rows
  <2>1. DOMAIN ix.rows \in SUBSET Tables
    BY IndexBodies
  <2>2. IsFiniteSet(DOMAIN ix.rows)
    BY <2>1, WordFacts, FS_Subset
  <2>3. Enumerates(tables, DOMAIN ix.rows)
    BY <1>2, <2>2, Enumeration
  <2> QED
    BY <2>3 DEF Enumerates
<1>5. [i \in DOMAIN names |-> WriteString(names[i], Len(names[i]))
                              \o StringBodies(ix, compressed)[names[i]]]
      = [i \in DOMAIN names |-> WriteString(names[i], Len(names[i]))
                              \o WriteStringTable(ix.strings[names[i]], compressed)]
  <2>1. \A i \in DOMAIN names : StringBodies(ix, compressed)[names[i]]
                                = WriteStringTable(ix.strings[names[i]], compressed)
    BY <1>3 DEF StringBodies
  <2> QED
    BY <2>1
<1>6. [i \in DOMAIN tables |-> WriteString(tables[i], Len(tables[i]))
                               \o TableBodies(ix, compressed)[tables[i]]]
      = [i \in DOMAIN tables |-> WriteString(tables[i], Len(tables[i]))
                               \o WriteTable(tables[i], ix.rows[tables[i]], compressed)]
  <2>1. \A i \in DOMAIN tables : TableBodies(ix, compressed)[tables[i]]
                                = WriteTable(tables[i], ix.rows[tables[i]], compressed)
    BY <1>4 DEF TableBodies
  <2> QED
    BY <2>1
<1>7. WriteIndex(ix, compressed) =
         WriteSignature("IDX")
         \o WriteUInt32(Len(names))
         \o FlattenSeq([i \in DOMAIN names |-> WriteString(names[i], Len(names[i]))
                              \o WriteStringTable(ix.strings[names[i]], compressed)])
         \o WriteUInt32(Len(tables))
         \o FlattenSeq([i \in DOMAIN tables |-> WriteString(tables[i], Len(tables[i]))
                               \o WriteTable(tables[i], ix.rows[tables[i]], compressed)])
  BY <1>1, <1>2, WordFacts, Zenon DEF WriteIndex
<1>8. Section(names, StringBodies(ix, compressed)) =
         FlattenSeq([i \in DOMAIN names |-> WriteString(names[i], Len(names[i]))
                              \o WriteStringTable(ix.strings[names[i]], compressed)])
  BY <1>5, Zenon DEF Section
<1>9. Section(tables, TableBodies(ix, compressed)) =
         FlattenSeq([i \in DOMAIN tables |-> WriteString(tables[i], Len(tables[i]))
                               \o WriteTable(tables[i], ix.rows[tables[i]], compressed)])
  BY <1>6, Zenon DEF Section
<1> QED
  BY <1>1, <1>2, <1>7, <1>8, <1>9, Zenon

LEMMA SolidTable ==
    ASSUME NEW t \in Tables, NEW rows \in Rows
    PROVE  Solid(WriteTable(t, rows, TRUE))
<1>1. PICK names : names = Schema[t]
  OBVIOUS
<1>2. PICK n \in Nat : n = Len(names)
  <2>1. Len(names) \in Nat
    BY <1>1, SchemaFacts
  <2> QED
    BY <2>1
<1>3. DOMAIN names = 1..n
  <2>1. PICK S : S = Names \cup {""}
    OBVIOUS
  <2>2. names \in Seq(S)
    BY <1>1, <2>1, SchemaFacts
  <2> QED
    BY <1>2, <2>2
<1>4. PICK parts : parts = [c \in DOMAIN names |-> WriteString(names[c], Len(names[c]))]
  OBVIOUS
<1>5. parts \in Seq(Seq(Items(Values)))
  <2>1. \A c \in 1..n : names[c] \in Values /\ Len(names[c]) \in Nat
    BY <1>1, <1>3, SchemaFacts
  <2>2. \A c \in 1..n : parts[c] = WriteString(names[c], Len(names[c]))
    BY <1>3, <1>4
  <2>3. \A c \in 1..n : parts[c] \in Seq(Items(Values))
    BY <2>1, <2>2, StringItem
  <2>4. DOMAIN parts = 1..n /\ parts = [c \in 1..n |-> parts[c]]
    BY <1>3, <1>4
  <2> QED
    BY <2>3, <2>4
<1>6. PICK k \in Nat : k = Len(rows)
  BY DEF Rows
<1>7. PICK size \in Nat : size = 1 + k * (n + 1)
  <2>1. 1 + k * (n + 1) \in Nat
    OBVIOUS
  <2> QED
    BY <2>1
<1>8. PICK Q : Q = Seq(Items(Values))
  OBVIOUS
<1>9. PICK a \in Q : a = WriteUInt32(k)
  BY <1>8, IntegerItem
<1>10. PICK b \in Q : b = WriteUInt32(n)
  BY <1>8, IntegerItem
<1>11. PICK c \in Q : c = FlattenSeq(parts)
  BY <1>5, <1>8, FlattenType
<1>12. rows \in Values
  BY Zenon DEF Values
<1>13. PICK d \in Q : d = WriteBuffer(rows, size, TRUE)
  BY <1>8, <1>12, BufferType
<1>14. WriteTable(t, rows, TRUE) = ((a \o b) \o c) \o d
  BY <1>1, <1>2, <1>4, <1>6, <1>7, <1>9, <1>10, <1>11, <1>13, Zenon DEF WriteTable
<1>15. PICK front \in Q : front = (a \o b) \o c
  <2>1. Closed(Q)
    BY <1>8, Closes
  <2>2. (a \o b) \o c \in Q
    BY <2>1 DEF Closed
  <2> QED
    BY <2>2
<1>16. Solid(d)
  BY <1>12, <1>13, SolidBuffer
<1>17. Solid(front \o d)
  BY <1>8, <1>16, SolidBefore
<1> QED
  BY <1>14, <1>15, <1>17

LEMMA SolidTables ==
    ASSUME NEW ix \in Indices
    PROVE  Ended(Section(SetToSeq(DOMAIN ix.rows), TableBodies(ix, TRUE)))
<1>1. PICK compressed : compressed = TRUE
  OBVIOUS
<1>2. PICK tables : tables = SetToSeq(DOMAIN ix.rows)
  OBVIOUS
<1>3. PICK rows : rows = ix.rows
  OBVIOUS
<1>4. PICK D \in SUBSET Tables : rows \in [D -> Rows]
  <2>1. rows \in TableMaps
    BY <1>3 DEF Indices
  <2> QED
    BY <2>1 DEF TableMaps
<1>5. PICK n \in Nat : n = Len(tables) /\ tables \in [1..n -> D]
  <2>1. IsFiniteSet(D)
    BY WordFacts, FS_Subset
  <2>2. Enumerates(tables, D)
    BY <1>2, <1>3, <1>4, <2>1, Enumeration
  <2> QED
    BY <2>2 DEF Enumerates
<1>6. PICK bodies : bodies = TableBodies(ix, compressed)
  OBVIOUS
<1>7. PICK parts : parts = [i \in DOMAIN tables |->
                               WriteString(tables[i], Len(tables[i])) \o bodies[tables[i]]]
  OBVIOUS
<1>8. ASSUME NEW i \in 1..n PROVE parts[i] \in Seq(Items(Values)) /\ Solid(parts[i])
  <2>1. PICK t \in D : t = tables[i]
    BY <1>5
  <2>2. t \in Tables /\ t \in Values /\ Len(t) \in Nat
    BY WordFacts
  <2>3. PICK s \in Rows : s = rows[t]
    BY <1>4
  <2>4. bodies[t] = WriteTable(t, s, TRUE)
    BY <1>1, <1>3, <1>4, <1>6, <2>3 DEF TableBodies
  <2>5. parts[i] = WriteString(t, Len(t)) \o bodies[t]
    BY <1>5, <1>7, <2>1
  <2>6. WriteString(t, Len(t)) \in Seq(Items(Values))
    BY <2>2, StringItem
  <2>7. PICK body \in Seq(Items(Values)) : body = bodies[t]
    BY <2>2, <2>4, TableRoundTrip
  <2>8. Solid(body)
    BY <2>2, <2>4, <2>7, SolidTable
  <2>9. PICK name \in Seq(Items(Values)) : name = WriteString(t, Len(t))
    BY <2>6
  <2>10. parts[i] = name \o body
    BY <2>5, <2>7, <2>9
  <2>11. name \o body \in Seq(Items(Values))
    BY ConcatProperties
  <2>12. Solid(name \o body)
    BY <2>8, SolidBefore
  <2> QED
    BY <2>10, <2>11, <2>12
<1>9. parts \in Seq(Seq(Items(Values))) /\ Len(parts) = n
  <2>1. \A i \in 1..n : parts[i] \in Seq(Items(Values))
    BY <1>8
  <2>2. DOMAIN parts = 1..n /\ parts = [i \in 1..n |-> parts[i]]
    BY <1>5, <1>7
  <2> QED
    BY <2>1, <2>2
<1>10. Ended(FlattenSeq(parts))
  <2>1. \A i \in 1..Len(parts) : Solid(parts[i])
    BY <1>8, <1>9
  <2> QED
    BY <1>9, <2>1, EndedFlat
<1>11. Section(tables, bodies) = FlattenSeq(parts)
  BY <1>7 DEF Section
<1> QED
  BY <1>1, <1>2, <1>6, <1>10, <1>11

LEMMA IndexRoundTrip ==
    ASSUME NEW ix \in Indices, NEW compressed
    PROVE  /\ WriteIndex(ix, compressed) \in Seq(Items(Values))
           /\ \E rest \in Seq(Items(Values)) :
                 WriteIndex(ix, compressed) = WriteSignature("IDX") \o rest
           /\ compressed = TRUE => Solid(WriteIndex(ix, compressed))
           /\ \A r : IsReader(r) /\ Sees(r, WriteIndex(ix, compressed)) => ReadIndex(r) = Frozen(ix)
<1>1. PICK Q : Q = Seq(Items(Values))
  OBVIOUS
<1>2. Assoc(Q) /\ Closed(Q)
  BY <1>1, Associates, Closes
<1>3. PICK n : n = Len(SetToSeq(Names))
  OBVIOUS
<1>4. PICK m : m = Len(SetToSeq(DOMAIN ix.rows))
  OBVIOUS
<1>5. PICK sb : sb = StringBodies(ix, compressed)
  OBVIOUS
<1>6. PICK tb : tb = TableBodies(ix, compressed)
  OBVIOUS
<1>7. PICK c : c = Section(SetToSeq(Names), sb)
  OBVIOUS
<1>8. PICK e : e = Section(SetToSeq(DOMAIN ix.rows), tb)
  OBVIOUS
<1>9. n \in Nat /\ ReadsBack(n, c, "strings", ix.strings)
  <2>1. PICK strings : strings = ix.strings
    OBVIOUS
  <2>2. strings = [name \in Names |-> strings[name]] /\ AreBodies(Names, "strings", strings, sb)
    BY <1>5, <2>1, IndexBodies
  <2>3. Names \in SUBSET (Names \cup Tables) /\ IsFiniteSet(Names)
    BY WordFacts
  <2> QED
    BY <1>3, <1>7, <2>1, <2>2, <2>3, SectionRoundTrip
<1>10. m \in Nat /\ ReadsBack(m, e, "tables", ix.rows)
  <2>1. PICK rows : rows = ix.rows
    OBVIOUS
  <2>2. PICK D : D = DOMAIN rows
    OBVIOUS
  <2>3. /\ rows = [t \in D |-> rows[t]] /\ AreBodies(D, "tables", rows, tb)
        /\ D \in SUBSET Tables
    BY <1>6, <2>1, <2>2, IndexBodies
  <2>4. D \in SUBSET (Names \cup Tables) /\ IsFiniteSet(D)
    BY <2>3, WordFacts, FS_Subset
  <2> QED
    BY <1>4, <1>8, <2>1, <2>2, <2>3, <2>4, SectionRoundTrip
<1>11. c \in Q /\ e \in Q
  BY <1>1, <1>9, <1>10 DEF ReadsBack
<1>12. PICK a \in Q : a = WriteSignature("IDX")
  BY <1>1, Signature
<1>13. PICK b \in Q : b = WriteUInt32(n)
  BY <1>1, <1>9, IntegerItem
<1>14. PICK d \in Q : d = WriteUInt32(m)
  BY <1>1, <1>10, IntegerItem
<1>15. WriteIndex(ix, compressed) = (((a \o b) \o c) \o d) \o e
  BY <1>3, <1>4, <1>5, <1>6, <1>7, <1>8, <1>12, <1>13, <1>14, IndexParts, Zenon
<1>16. Cat4(a, b, c, d, e)
  BY <1>2, <1>11, Assoc4
<1>17. WriteIndex(ix, compressed) = a \o (b \o (c \o (d \o e)))
  BY <1>15, <1>16 DEF Cat4
<1>18. PICK none \in Q : none = <<>>
  <2>1. <<>> \in Q
    BY <1>1
  <2> QED
    BY <2>1
<1>19. e = e \o none
  BY <1>1, <1>11, <1>18, ConcatEmptySeq
<1>20. PICK w \in Q : w = d \o e
  BY <1>2, <1>11 DEF Closed
<1>21. PICK x \in Q : x = c \o w
  BY <1>2, <1>11 DEF Closed
<1>22. PICK y \in Q : y = b \o x
  BY <1>2 DEF Closed
<1>23. WriteIndex(ix, compressed) = a \o y
  BY <1>17, <1>20, <1>21, <1>22
<1>24. a \o y \in Q
  BY <1>2 DEF Closed
<1>25. ASSUME NEW r, IsReader(r), Sees(r, a \o y)
       PROVE  ReadIndex(r) = Frozen(ix)
  <2>1. PICK s : s = ReadSignature(r)
    OBVIOUS
  <2>2. IsReader(s) /\ Sees(s, y)
    <3>1. HasRead(s, "IDX", y)
      BY <1>1, <1>12, <1>25, <2>1, Signature
    <3> QED
      BY <3>1 DEF HasRead
  <2>3. PICK strings : strings = ReadNamed(s, "strings")
    OBVIOUS
  <2>4. IsReader(strings.reader) /\ Sees(strings.reader, w) /\ strings.map = ix.strings
    <3>1. Sees(s, WriteUInt32(n) \o (c \o w)) /\ w \in Seq(Items(Values))
      BY <1>1, <1>13, <1>21, <1>22, <2>2
    <3> QED
      BY <1>9, <2>2, <2>3, <3>1 DEF ReadsBack
  <2>5. PICK tables : tables = ReadNamed(strings.reader, "tables")
    OBVIOUS
  <2>6. tables.map = ix.rows
    <3>1. Sees(strings.reader, WriteUInt32(m) \o (e \o none)) /\ none \in Seq(Items(Values))
      BY <1>1, <1>14, <1>19, <1>20, <2>4
    <3> QED
      BY <1>10, <2>4, <2>5, <3>1 DEF ReadsBack
  <2>7. ReadIndex(r) = [strings |-> strings.map, finalized |-> {}, rows |-> tables.map,
                        readonly |-> DOMAIN tables.map]
    BY <2>1, <2>3, <2>5 DEF ReadIndex, FrozenIndex
  <2> QED
    BY <2>4, <2>6, <2>7 DEF Frozen
<1>26. ASSUME compressed = TRUE PROVE Solid(WriteIndex(ix, compressed))
  <2>1. PICK front \in Q : front = (a \o b) \o c
    <3>1. (a \o b) \o c \in Q
      BY <1>2, <1>11 DEF Closed
    <3> QED
      BY <3>1
  <2>2. Solid(d)
    <3>1. m \in Values /\ "uint32" \in Kinds /\ 4 \in Nat \ {0}
      BY <1>10 DEF Values, Kinds
    <3> QED
      BY <1>14, <3>1, SolidItem DEF WriteUInt32
  <2>3. Solid(front \o d)
    BY <1>1, <2>2, SolidBefore
  <2>4. Ended(e)
    BY <1>6, <1>8, <1>26, SolidTables
  <2>5. front \o d \in Seq(Items(Values)) /\ e \in Seq(Items(Values))
    BY <1>1, <1>2, <1>11 DEF Closed
  <2>6. Solid((front \o d) \o e)
    BY <2>3, <2>4, <2>5, SolidAfter
  <2> QED
    BY <1>15, <2>1, <2>6
<1> QED
  BY <1>1, <1>12, <1>23, <1>24, <1>25, <1>26

-----------------------------------------------------------------------------
(* Sorting by rank, for a strict order R.                                  *)
StrictOrder(R, S) ==
    /\ \A x \in S : <<x, x>> \notin R
    /\ \A x, y, z \in S : <<x, y>> \in R /\ <<y, z>> \in R => <<x, z>> \in R
    /\ \A x, y \in S : x = y \/ <<x, y>> \in R \/ <<y, x>> \in R

Under(x, S, R) == {y \in S : <<y, x>> \in R}

Ordered(s, S, R) ==
    /\ Enumerates(s, S)
    /\ \A i, j \in 1..Cardinality(S) : i < j => <<s[i], s[j]>> \in R

LEMMA MoreUnder ==
    ASSUME NEW S, IsFiniteSet(S), NEW R, StrictOrder(R, S), NEW x \in S, NEW y \in S,
           <<x, y>> \in R
    PROVE  Cardinality(Under(x, S, R)) < Cardinality(Under(y, S, R))
<1>1. PICK a : a = Under(x, S, R)
  OBVIOUS
<1>2. PICK b : b = Under(y, S, R)
  OBVIOUS
<1>3. a \in SUBSET b
  BY <1>1, <1>2 DEF Under, StrictOrder
<1>4. x \in b /\ x \notin a
  BY <1>1, <1>2 DEF Under, StrictOrder
<1>5. IsFiniteSet(b)
  <2>1. b \in SUBSET S
    BY <1>2 DEF Under
  <2> QED
    BY <2>1, FS_Subset
<1>6. IsFiniteSet(a) /\ Cardinality(a) <= Cardinality(b)
      /\ (Cardinality(b) = Cardinality(a) => b = a)
  BY <1>3, <1>5, FS_Subset
<1>7. Cardinality(a) \in Nat /\ Cardinality(b) \in Nat
  BY <1>5, <1>6, FS_CardinalityType
<1>8. Cardinality(a) # Cardinality(b)
  BY <1>4, <1>6
<1> QED
  BY <1>1, <1>2, <1>6, <1>7, <1>8

LEMMA Ranking ==
    ASSUME NEW S, IsFiniteSet(S), NEW R, StrictOrder(R, S), NEW s,
           s = [i \in 1..Cardinality(S) |->
                   CHOOSE x \in S : Cardinality(Under(x, S, R)) = i - 1]
    PROVE  Ordered(s, S, R)
<1>1. PICK n \in Nat : n = Cardinality(S)
  BY FS_CardinalityType
<1>2. PICK rank : rank = [x \in S |-> Cardinality(Under(x, S, R)) + 1]
  OBVIOUS
<1>3. ASSUME NEW x \in S
      PROVE  /\ rank[x] \in 1..n /\ Cardinality(Under(x, S, R)) \in Nat
             /\ Cardinality(Under(x, S, R)) = rank[x] - 1
  <2>1. PICK u : u = Under(x, S, R)
    OBVIOUS
  <2>2. u \in SUBSET S /\ x \notin u
    BY <2>1 DEF Under, StrictOrder
  <2>3. IsFiniteSet(u) /\ Cardinality(u) <= n /\ (n = Cardinality(u) => S = u)
    BY <1>1, <2>2, FS_Subset
  <2>4. Cardinality(u) \in Nat /\ Cardinality(u) # n
    BY <2>2, <2>3, FS_CardinalityType
  <2>5. PICK k \in Nat : k = Cardinality(u)
    BY <2>4
  <2>6. rank[x] = k + 1 /\ k + 1 \in 1..n
    BY <1>2, <2>1, <2>3, <2>4, <2>5
  <2> QED
    BY <2>1, <2>5, <2>6
<1>4. ASSUME NEW x \in S, NEW y \in S, <<x, y>> \in R PROVE rank[x] < rank[y]
  <2>1. Cardinality(Under(x, S, R)) < Cardinality(Under(y, S, R))
    BY <1>4, MoreUnder
  <2> QED
    BY <1>3, <2>1
<1>5. ASSUME NEW x \in S, NEW y \in S, rank[x] = rank[y] PROVE x = y
  <2>1. x = y \/ <<x, y>> \in R \/ <<y, x>> \in R
    BY DEF StrictOrder
  <2>2. rank[x] \in Nat /\ rank[y] \in Nat
    BY <1>3
  <2> QED
    BY <1>4, <1>5, <2>1, <2>2
<1>6. rank \in Injection(S, 1..n)
  <2>1. rank \in [S -> 1..n]
    <3>1. rank = [x \in S |-> rank[x]]
      BY <1>2
    <3> QED
      BY <1>3, <3>1
  <2> QED
    BY <1>5, <2>1 DEF Injection, IsInjective
<1>7. rank \in Surjection(S, 1..n)
  <2>1. IsFiniteSet(1..n) /\ Cardinality(1..n) = n
    <3>1. 1 \in Int /\ n \in Int
      OBVIOUS
    <3> QED
      BY <3>1, FS_Interval
  <2> QED
    BY <1>1, <1>6, <2>1, FS_Injection
<1>8. ASSUME NEW i \in 1..n PROVE s[i] \in S /\ rank[s[i]] = i
  <2>1. PICK x \in S : rank[x] = i
    BY <1>7 DEF Surjection
  <2>2. Cardinality(Under(x, S, R)) = i - 1
    BY <1>3, <2>1
  <2>3. s[i] = CHOOSE y \in S : Cardinality(Under(y, S, R)) = i - 1
    BY <1>1
  <2>4. s[i] \in S /\ Cardinality(Under(s[i], S, R)) = i - 1
    BY <2>2, <2>3
  <2>5. rank[s[i]] - 1 = i - 1 /\ rank[s[i]] \in 1..n
    BY <1>3, <2>4
  <2> QED
    BY <2>4, <2>5
<1>9. s \in [1..n -> S]
  BY <1>1, <1>8
<1>10. \A i, j \in 1..n : s[i] = s[j] => i = j
  BY <1>8
<1>11. ASSUME NEW x \in S PROVE \E i \in 1..n : s[i] = x
  <2>1. PICK i \in 1..n : i = rank[x]
    BY <1>3
  <2>2. s[i] \in S /\ rank[s[i]] = rank[x]
    BY <1>8, <2>1
  <2> QED
    BY <1>5, <2>2
<1>12. ASSUME NEW i \in 1..n, NEW j \in 1..n, i < j PROVE <<s[i], s[j]>> \in R
  <2>1. s[i] \in S /\ s[j] \in S /\ rank[s[i]] = i /\ rank[s[j]] = j
    BY <1>8
  <2>2. PICK x \in S, y \in S : x = s[i] /\ y = s[j]
    BY <2>1
  <2>3. rank[x] = i /\ rank[y] = j /\ i # j /\ ~(j < i)
    BY <1>12, <2>1, <2>2
  <2>4. ~(<<y, x>> \in R)
    BY <1>4, <2>3
  <2>5. x # y
    BY <2>3
  <2> QED
    BY <2>2, <2>4, <2>5 DEF StrictOrder
<1> QED
  BY <1>1, <1>9, <1>10, <1>11, <1>12 DEF Ordered, Enumerates

(* The distinct items of a sequence.                                       *)
LEMMA DistinctItems ==
    ASSUME NEW X, NEW seq \in Seq(X), OneToOne(Len(seq), seq)
    PROVE  IsFiniteSet(ToSet(seq)) /\ Cardinality(ToSet(seq)) = Len(seq)
<1>1. PICK n \in Nat : n = Len(seq) /\ DOMAIN seq = 1..n
  OBVIOUS
<1>2. PICK S : S = ToSet(seq)
  OBVIOUS
<1>3. S = {seq[i] : i \in 1..n}
  BY <1>1, <1>2 DEF ToSet
<1>4. seq \in [1..n -> S]
  <2>1. \A i \in 1..n : seq[i] \in S
    BY <1>3
  <2>2. seq = [i \in 1..n |-> seq[i]]
    BY <1>1
  <2> QED
    BY <2>1, <2>2
<1>5. seq \in Surjection(1..n, S)
  BY <1>3, <1>4 DEF Surjection
<1>6. seq \in Injection(1..n, S)
  BY <1>1, <1>4 DEF Injection, IsInjective, OneToOne
<1>7. IsFiniteSet(1..n) /\ Cardinality(1..n) = n
  <2>1. 1 \in Int /\ n \in Int
    OBVIOUS
  <2> QED
    BY <2>1, FS_Interval
<1> QED
  BY <1>1, <1>2, <1>5, <1>6, <1>7, FS_Surjection

SortedUp(seq) == Sorted(seq, <)

(* What a sequence holds, and whether it ascends.                          *)
Held(s) == {s[i] : i \in 1..Len(s)}
Up(s) == \A i, j \in 1..Len(s) : i < j => s[i] < s[j]

LEMMA SortedNumbers ==
    ASSUME NEW seq \in Seq(Nat), OneToOne(Len(seq), seq), NEW s, s = SortedUp(seq)
    PROVE  /\ s \in Seq(Nat) /\ Len(s) = Len(seq)
           /\ Held(s) = Held(seq) /\ Up(s)
<1>1. PICK n \in Nat : n = Len(seq) /\ DOMAIN seq = 1..n
  <2>1. Len(seq) \in Nat /\ DOMAIN seq = 1..Len(seq)
    OBVIOUS
  <2> QED
    BY <2>1
<1>2. PICK S : S = ToSet(seq)
  OBVIOUS
<1>3. IsFiniteSet(S) /\ Cardinality(S) = n
  BY <1>1, <1>2, DistinctItems
<1>4. S = {seq[i] : i \in 1..n} /\ S \in SUBSET Nat
  <2>1. S = {seq[i] : i \in 1..n}
    BY <1>1, <1>2 DEF ToSet
  <2>2. \A i \in 1..n : seq[i] \in Nat
    BY <1>1
  <2> QED
    BY <2>1, <2>2
<1>5. PICK R : R = {p \in S \X S : p[1] < p[2]}
  OBVIOUS
<1>6. \A x, y \in S : <<x, y>> \in R <=> x < y
  BY <1>5
<1>7. StrictOrder(R, S)
  <2>1. \A x \in S : x \in Nat
    BY <1>4
  <2>2. \A x \in S : <<x, x>> \notin R
    BY <1>6, <2>1
  <2>3. ASSUME NEW x \in S, NEW y \in S PROVE x = y \/ <<x, y>> \in R \/ <<y, x>> \in R
    <3>1. x \in Nat /\ y \in Nat
      BY <2>1
    <3>2. x = y \/ x < y \/ y < x
      BY <3>1
    <3> QED
      BY <1>6, <3>2
  <2>4. ASSUME NEW x \in S, NEW y \in S, NEW z \in S, <<x, y>> \in R, <<y, z>> \in R
        PROVE  <<x, z>> \in R
    <3>1. x < y /\ y < z /\ x \in Nat /\ y \in Nat /\ z \in Nat
      BY <1>6, <2>1, <2>4
    <3> QED
      BY <1>6, <3>1
  <2> QED
    BY <2>2, <2>3, <2>4 DEF StrictOrder
<1>8. s = [i \in 1..n |-> CHOOSE x \in S : Cardinality({y \in S : y < x}) = i - 1]
  BY <1>1, <1>2 DEF SortedUp, Sorted
<1>9. \A x \in S : {y \in S : y < x} = Under(x, S, R)
  BY <1>6 DEF Under
<1>10. ASSUME NEW i \in 1..n
       PROVE  (CHOOSE x \in S : Cardinality({y \in S : y < x}) = i - 1)
              = CHOOSE x \in S : Cardinality(Under(x, S, R)) = i - 1
  <2>1. \A x : (x \in S /\ Cardinality({y \in S : y < x}) = i - 1)
               <=> (x \in S /\ Cardinality(Under(x, S, R)) = i - 1)
    BY <1>9
  <2> QED
    BY <2>1
<1>11. s = [i \in 1..n |-> CHOOSE x \in S : Cardinality(Under(x, S, R)) = i - 1]
  BY <1>8, <1>10
<1>12. Ordered(s, S, R)
  BY <1>3, <1>7, <1>11, Ranking
<1>13. /\ s \in [1..n -> S] /\ \A x \in S : \E i \in 1..n : s[i] = x
       /\ \A i, j \in 1..n : i < j => <<s[i], s[j]>> \in R
  BY <1>3, <1>12 DEF Ordered, Enumerates
<1>14. s \in Seq(Nat) /\ Len(s) = n
  <2>1. s \in [1..n -> Nat]
    BY <1>4, <1>13
  <2> QED
    BY <2>1
<1>15. {s[i] : i \in 1..n} = S
  <2>1. \A i \in 1..n : s[i] \in S
    BY <1>13
  <2>2. ASSUME NEW x \in S PROVE x \in {s[i] : i \in 1..n}
    BY <1>13
  <2> QED
    BY <2>1, <2>2
<1>16. \A i, j \in 1..n : i < j => s[i] < s[j]
  BY <1>6, <1>13
<1> QED
  BY <1>1, <1>4, <1>14, <1>15, <1>16 DEF Held, Up

-----------------------------------------------------------------------------
(* Rows of one width are strictly ordered.                                 *)
Row(w) == [1..w -> Nat]

LEMMA RowOrder ==
    ASSUME NEW w \in Nat
    PROVE  /\ \A x \in Row(w) : ~RowLess(x, x)
           /\ \A x, y, z \in Row(w) : RowLess(x, y) /\ RowLess(y, z) => RowLess(x, z)
           /\ \A x, y \in Row(w) : x = y \/ RowLess(x, y) \/ RowLess(y, x)
<1>1. \A x, y \in Row(w) : RowLess(x, y) <=>
         \E c \in 1..w : x[c] < y[c] /\ \A b \in 1..(c - 1) : x[b] = y[b]
  BY DEF Row, RowLess
<1>2. \A x \in Row(w) : \A c \in 1..w : x[c] \in Nat
  BY DEF Row
<1>3. ASSUME NEW x \in Row(w) PROVE ~RowLess(x, x)
  <2>1. \A c \in 1..w : ~(x[c] < x[c])
    BY <1>2
  <2> QED
    BY <1>1, <2>1
<1>4. ASSUME NEW x \in Row(w), NEW y \in Row(w), NEW z \in Row(w), RowLess(x, y), RowLess(y, z)
      PROVE  RowLess(x, z)
  <2>1. PICK c \in 1..w : x[c] < y[c] /\ \A b \in 1..(c - 1) : x[b] = y[b]
    BY <1>1, <1>4
  <2>2. PICK d \in 1..w : y[d] < z[d] /\ \A b \in 1..(d - 1) : y[b] = z[b]
    BY <1>1, <1>4
  <2>3. PICK e \in 1..w : e = (IF c < d THEN c ELSE d) /\ e <= c /\ e <= d
    BY <2>1, <2>2
  <2>4. \A b \in 1..(e - 1) : b \in 1..(c - 1) /\ b \in 1..(d - 1)
    BY <2>3
  <2>5. \A b \in 1..(e - 1) : x[b] = z[b]
    BY <2>1, <2>2, <2>4
  <2>6. x[e] < z[e]
    <3>1. x[e] \in Nat /\ y[e] \in Nat /\ z[e] \in Nat
      BY <1>2
    <3>2. CASE c < d
      <4>1. e = c /\ c \in 1..(d - 1)
        BY <2>3, <3>2
      <4>2. x[e] < y[e] /\ y[e] = z[e]
        BY <2>1, <2>2, <4>1
      <4> QED
        BY <3>1, <4>2
    <3>3. CASE d < c
      <4>1. e = d /\ d \in 1..(c - 1)
        BY <2>3, <3>3
      <4>2. x[e] = y[e] /\ y[e] < z[e]
        BY <2>1, <2>2, <4>1
      <4> QED
        BY <3>1, <4>2
    <3>4. CASE c = d
      <4>1. x[e] < y[e] /\ y[e] < z[e]
        BY <2>1, <2>2, <2>3, <3>4
      <4> QED
        BY <3>1, <4>1
    <3> QED
      BY <3>2, <3>3, <3>4
  <2> QED
    BY <1>1, <2>5, <2>6
<1>5. ASSUME NEW x \in Row(w), NEW y \in Row(w), x # y PROVE RowLess(x, y) \/ RowLess(y, x)
  <2> DEFINE T == {c \in Nat : c \in 1..w /\ x[c] # y[c]}
  <2>1. T # {}
    <3>1. \E c \in 1..w : x[c] # y[c]
      BY <1>5 DEF Row
    <3> QED
      BY <3>1
  <2>2. PICK c \in T : \A d \in T : c <= d
    <3>1. T \in SUBSET Nat
      OBVIOUS
    <3> HIDE DEF T
    <3> QED
      BY <2>1, <3>1, Least
  <2>3. c \in 1..w /\ x[c] # y[c]
    BY <2>2
  <2>4. \A b \in 1..(c - 1) : x[b] = y[b]
    <3> SUFFICES ASSUME NEW b \in 1..(c - 1), x[b] # y[b] PROVE FALSE
      OBVIOUS
    <3>1. b \in 1..w /\ ~(c <= b) /\ b \in Nat
      BY <2>3
    <3>2. b \in T
      BY <3>1
    <3> QED
      BY <2>2, <3>1, <3>2
  <2>5. x[c] < y[c] \/ y[c] < x[c]
    <3>1. x[c] \in Nat /\ y[c] \in Nat
      BY <1>2, <2>3
    <3> QED
      BY <2>3, <3>1
  <2> HIDE DEF T
  <2>6. ASSUME x[c] < y[c] PROVE RowLess(x, y)
    BY <1>1, <2>3, <2>4, <2>6
  <2>7. ASSUME y[c] < x[c] PROVE RowLess(y, x)
    <3>1. \A b \in 1..(c - 1) : y[b] = x[b]
      BY <2>4
    <3> QED
      BY <1>1, <2>3, <2>7, <3>1
  <2> QED
    BY <2>5, <2>6, <2>7
<1> QED
  BY <1>3, <1>4, <1>5

SortedRowsOf(seq) == Sorted(seq, RowLess)
RowsUp(rows) == \A i, j \in 1..Len(rows) : i < j => RowLess(rows[i], rows[j])

LEMMA SortedRows ==
    ASSUME NEW w \in Nat, NEW seq \in Seq(Row(w)), OneToOne(Len(seq), seq),
           NEW s, s = SortedRowsOf(seq)
    PROVE  /\ s \in Seq(Row(w)) /\ Len(s) = Len(seq)
           /\ Held(s) = Held(seq) /\ RowsUp(s)
<1>1. PICK n \in Nat : n = Len(seq) /\ DOMAIN seq = 1..n
  <2>1. Len(seq) \in Nat /\ DOMAIN seq = 1..Len(seq)
    OBVIOUS
  <2> QED
    BY <2>1
<1>2. PICK S : S = ToSet(seq)
  OBVIOUS
<1>3. IsFiniteSet(S) /\ Cardinality(S) = n
  BY <1>1, <1>2, DistinctItems
<1>4. S = {seq[i] : i \in 1..n} /\ S \in SUBSET Row(w)
  <2>1. S = {seq[i] : i \in 1..n}
    BY <1>1, <1>2 DEF ToSet
  <2>2. \A i \in 1..n : seq[i] \in Row(w)
    BY <1>1
  <2> QED
    BY <2>1, <2>2
<1>5. PICK R : R = {p \in S \X S : RowLess(p[1], p[2])}
  OBVIOUS
<1>6. \A x, y \in S : <<x, y>> \in R <=> RowLess(x, y)
  BY <1>5
<1>7. StrictOrder(R, S)
  <2>1. \A x \in S : x \in Row(w)
    BY <1>4
  <2>2. \A x \in S : <<x, x>> \notin R
    BY <1>6, <2>1, RowOrder
  <2>3. ASSUME NEW x \in S, NEW y \in S PROVE x = y \/ <<x, y>> \in R \/ <<y, x>> \in R
    <3>1. x = y \/ RowLess(x, y) \/ RowLess(y, x)
      BY <2>1, RowOrder
    <3> QED
      BY <1>6, <3>1
  <2>4. ASSUME NEW x \in S, NEW y \in S, NEW z \in S, <<x, y>> \in R, <<y, z>> \in R
        PROVE  <<x, z>> \in R
    <3>1. RowLess(x, y) /\ RowLess(y, z)
      BY <1>6, <2>4
    <3>2. RowLess(x, z)
      BY <2>1, <3>1, RowOrder
    <3> QED
      BY <1>6, <3>2
  <2> QED
    BY <2>2, <2>3, <2>4 DEF StrictOrder
<1>8. s = [i \in 1..n |-> CHOOSE x \in S : Cardinality({y \in S : RowLess(y, x)}) = i - 1]
  BY <1>1, <1>2 DEF SortedRowsOf, Sorted
<1>9. \A x \in S : {y \in S : RowLess(y, x)} = Under(x, S, R)
  BY <1>6 DEF Under
<1>10. ASSUME NEW i \in 1..n
       PROVE  (CHOOSE x \in S : Cardinality({y \in S : RowLess(y, x)}) = i - 1)
              = CHOOSE x \in S : Cardinality(Under(x, S, R)) = i - 1
  <2>1. \A x : (x \in S /\ Cardinality({y \in S : RowLess(y, x)}) = i - 1)
               <=> (x \in S /\ Cardinality(Under(x, S, R)) = i - 1)
    BY <1>9
  <2> QED
    BY <2>1
<1>11. s = [i \in 1..n |-> CHOOSE x \in S : Cardinality(Under(x, S, R)) = i - 1]
  BY <1>8, <1>10
<1>12. Ordered(s, S, R)
  BY <1>3, <1>7, <1>11, Ranking
<1>13. /\ s \in [1..n -> S] /\ \A x \in S : \E i \in 1..n : s[i] = x
       /\ \A i, j \in 1..n : i < j => <<s[i], s[j]>> \in R
  BY <1>3, <1>12 DEF Ordered, Enumerates
<1>14. s \in Seq(Row(w)) /\ Len(s) = n
  <2>1. s \in [1..n -> Row(w)]
    BY <1>4, <1>13
  <2> QED
    BY <2>1
<1>15. {s[i] : i \in 1..n} = S
  <2>1. \A i \in 1..n : s[i] \in S
    BY <1>13
  <2>2. ASSUME NEW x \in S PROVE x \in {s[i] : i \in 1..n}
    BY <1>13
  <2> QED
    BY <2>1, <2>2
<1>16. \A i, j \in 1..n : i < j => RowLess(s[i], s[j])
  <2>1. \A i \in 1..n : s[i] \in S
    BY <1>13
  <2> QED
    BY <1>6, <1>13, <2>1
<1> QED
  BY <1>1, <1>4, <1>14, <1>15, <1>16 DEF Held, RowsUp

-----------------------------------------------------------------------------
(* Items that start at a multiple of 8 end as far behind it as they would  *)
(* behind 0.                                                               *)
LEMMA Shifting ==
    ASSUME NEW V, NEW items \in Seq(Items(V)), NEW m \in Nat, NEW d, Ends(d, 0, items),
           NEW e, Ends(e, 8 * m, items)
    PROVE  \A i \in 0..Len(items) : e[i] = d[i] + 8 * m
<1>1. PICK n \in Nat : n = Len(items)
  OBVIOUS
<1> DEFINE T == {k \in Nat : k \in 0..n => e[k] = d[k] + 8 * m}
<1>2. 0 \in T
  BY DEF Ends
<1>3. ASSUME NEW k \in Nat, k \in T PROVE k + 1 \in T
  <2> SUFFICES ASSUME k + 1 \in 1..n PROVE e[k + 1] = d[k + 1] + 8 * m
    BY <1>1
  <2>1. PICK i \in 1..n : i = k + 1 /\ i - 1 = k
    OBVIOUS
  <2>2. PICK kind, size : kind = items[i].kind /\ size = items[i].size
    OBVIOUS
  <2>3. kind \in Kinds /\ size \in Nat
    BY <1>1, <2>2, ItemFacts
  <2>4. k \in 0..n
    BY <2>1
  <2>5. PICK p \in Nat : p = d[k]
    BY <1>1, <2>4 DEF Ends
  <2>6. e[k] = p + 8 * m
    BY <1>3, <2>4, <2>5
  <2>7. d[i] = OffsetOf(kind, p) + size /\ e[i] = OffsetOf(kind, p + 8 * m) + size
    BY <1>1, <2>1, <2>2, <2>5, <2>6 DEF Ends
  <2>8. OffsetOf(kind, p + 8 * m) = OffsetOf(kind, p) + 8 * m /\ OffsetOf(kind, p) \in Nat
    BY <2>3, OffsetFacts
  <2> QED
    BY <2>1, <2>3, <2>7, <2>8
<1>4. T = Nat
  <2> HIDE DEF T
  <2>1. T \in SUBSET Nat
    BY DEF T
  <2> QED
    BY <1>2, <1>3, <2>1, Induct
<1>5. ASSUME NEW i \in 0..n PROVE e[i] = d[i] + 8 * m
  <2>1. i \in T
    <3> HIDE DEF T
    <3> QED
      BY <1>4
  <2> QED
    BY <2>1
<1> QED
  BY <1>1, <1>5

(* Items do not overlap.                                                   *)
LEMMA Ascending ==
    ASSUME NEW V, NEW items \in Seq(Items(V)), NEW from \in Nat, NEW e, Ends(e, from, items)
    PROVE  /\ \A i, j \in 0..Len(items) : i <= j => e[i] <= e[j]
           /\ \A i \in 1..Len(items), o \in Nat : o = OffsetOf(items[i].kind, e[i - 1]) =>
                 e[i - 1] <= o /\ o + items[i].size = e[i]
<1>1. PICK n \in Nat : n = Len(items)
  OBVIOUS
<1>2. e \in [0..n -> Nat]
  BY <1>1 DEF Ends
<1>3. ASSUME NEW i \in 1..n, NEW o \in Nat, o = OffsetOf(items[i].kind, e[i - 1])
      PROVE  e[i - 1] <= o /\ o + items[i].size = e[i]
  <2>1. PICK k \in 0..n : k = i - 1
    OBVIOUS
  <2>2. PICK p \in Nat : p = e[k]
    BY <1>2
  <2>3. items[i].kind \in Kinds
    BY <1>1, ItemFacts
  <2>4. o >= p
    BY <1>3, <2>1, <2>2, <2>3, OffsetFacts
  <2>5. e[i] = o + items[i].size
    BY <1>1, <1>3 DEF Ends
  <2> QED
    BY <2>1, <2>2, <2>4, <2>5
<1>4. ASSUME NEW i \in 1..n PROVE e[i - 1] <= e[i]
  <2>1. PICK k \in 0..n : k = i - 1
    OBVIOUS
  <2>2. PICK p \in Nat : p = e[k]
    BY <1>2
  <2>3. items[i].kind \in Kinds /\ items[i].size \in Nat
    BY <1>1, ItemFacts
  <2>4. PICK o \in Nat : o = OffsetOf(items[i].kind, p)
    BY <2>3, OffsetFacts
  <2>5. p <= o /\ o + items[i].size = e[i]
    BY <1>3, <2>1, <2>2, <2>4
  <2> QED
    BY <2>1, <2>2, <2>3, <2>4, <2>5
<1> DEFINE T == {k \in Nat : \A i \in 0..n : i <= k /\ k <= n => e[i] <= e[k]}
<1>5. 0 \in T
  <2>1. \A i \in 0..n : i <= 0 => i = 0
    OBVIOUS
  <2>2. e[0] \in Nat
    BY <1>2
  <2> QED
    BY <2>1, <2>2
<1>6. ASSUME NEW k \in Nat, k \in T PROVE k + 1 \in T
  <2> SUFFICES ASSUME NEW i \in 0..n, i <= k + 1, k + 1 <= n PROVE e[i] <= e[k + 1]
    OBVIOUS
  <2>1. PICK j \in 1..n : j = k + 1 /\ j - 1 = k /\ j \in 0..n
    OBVIOUS
  <2>2. e[i] \in Nat /\ e[j] \in Nat /\ e[k] \in Nat
    BY <1>2, <2>1
  <2>3. e[k] <= e[j]
    BY <1>4, <2>1
  <2>4. CASE i = j
    BY <2>1, <2>2, <2>4
  <2>5. CASE i <= k
    <3>1. e[i] <= e[k]
      BY <1>6, <2>1, <2>5
    <3> QED
      BY <2>1, <2>2, <2>3, <3>1
  <2>6. i = j \/ i <= k
    BY <2>1
  <2> QED
    BY <2>4, <2>5, <2>6
<1>7. T = Nat
  <2> HIDE DEF T
  <2>1. T \in SUBSET Nat
    BY DEF T
  <2> QED
    BY <1>5, <1>6, <2>1, Induct
<1>8. ASSUME NEW i \in 0..n, NEW j \in 0..n, i <= j PROVE e[i] <= e[j]
  <2>1. j \in T
    <3> HIDE DEF T
    <3> QED
      BY <1>7
  <2> QED
    BY <1>8, <2>1
<1> QED
  BY <1>1, <1>3, <1>8

(* What a reader sees of a file.                                           *)
LEMMA Seeing ==
    ASSUME NEW V, NEW items \in Seq(Items(V)), NEW m \in Nat, NEW e, Ends(e, 8 * m, items),
           NEW k \in Nat, NEW file,
           \A i \in 1..Len(items), j \in Nat : j = k + i =>
              file[j] = Cell(items[i], OffsetOf(items[i].kind, e[i - 1])),
           NEW r, NEW size \in Nat, NEW value,
           r = [file |-> file, base |-> 8 * m, size |-> size, pos |-> 0, value |-> value,
                next |-> k + 1],
           8 * m + size >= e[Len(items)]
    PROVE  IsReader(r) /\ Sees(r, items)
<1>1. PICK n \in Nat : n = Len(items)
  OBVIOUS
<1>2. PICK b \in Nat : b = 8 * m
  OBVIOUS
<1>3. PICK l \in Nat : l = k + 1
  OBVIOUS
<1>4. r = [file |-> file, base |-> b, size |-> size, pos |-> 0, value |-> value, next |-> l]
  BY <1>2, <1>3
<1>5. IsReader(r)
  BY <1>4 DEF IsReader
<1>6. PICK d : Ends(d, 0, items)
  BY Ending
<1>7. d \in [0..n -> Nat] /\ e \in [0..n -> Nat]
  BY <1>1, <1>6 DEF Ends
<1>8. \A i \in 0..n : e[i] = d[i] + b
  BY <1>1, <1>2, <1>6, Shifting
<1>9. ASSUME NEW i \in 0..n PROVE d[i] <= size
  <2>1. i <= n /\ n \in 0..n
    OBVIOUS
  <2>2. e[i] <= e[n]
    BY <1>1, <1>2, <2>1, Ascending
  <2>3. e[n] <= b + size
    BY <1>1, <1>2, <1>7
  <2>4. PICK x \in Nat, y \in Nat : x = d[i] /\ y = e[n]
    BY <1>7, <2>1
  <2>5. e[i] = x + b
    BY <1>8, <2>4
  <2>6. x + b <= y /\ y <= b + size
    BY <2>2, <2>3, <2>4, <2>5
  <2> QED
    BY <2>4, <2>6, SMTT(40)
<1>10. ASSUME NEW i \in 1..n, NEW j \in Nat, j = l + i - 1
       PROVE  file[j] = Cell(items[i], b + OffsetOf(items[i].kind, d[i - 1]))
  <2>1. PICK h \in 0..n : h = i - 1
    OBVIOUS
  <2>2. PICK p \in Nat : p = d[h]
    BY <1>7
  <2>3. e[h] = p + 8 * m
    BY <1>2, <1>8, <2>2
  <2>4. items[i].kind \in Kinds
    BY <1>1, ItemFacts
  <2>5. PICK o \in Nat : o = OffsetOf(items[i].kind, p)
    BY <2>4, OffsetFacts
  <2>6. OffsetOf(items[i].kind, p + 8 * m) = o + 8 * m
    BY <2>4, <2>5, OffsetFacts, SMTT(40)
  <2>7. j = k + i
    BY <1>3, <1>10
  <2>8. file[j] = Cell(items[i], OffsetOf(items[i].kind, e[h]))
    BY <1>1, <2>1, <2>7
  <2>9. b + o = o + 8 * m
    BY <1>2
  <2> QED
    BY <2>1, <2>2, <2>3, <2>5, <2>6, <2>8, <2>9
<1>11. r.file = file /\ r.base = b /\ r.size = size /\ r.pos = 0 /\ r.next = l
  BY <1>4
<1>12. Sees(r, items)
  BY <1>1, <1>6, <1>9, <1>10, <1>11 DEF Sees
<1> QED
  BY <1>5, <1>12

-----------------------------------------------------------------------------
(* Where the cells of one index, or of a table of contents, are.           *)
Cells(V) == [kind : Kinds, size : Nat, value : V, at : Nat]

Spans(cells, n, first, last) ==
    /\ cells[1].at = first /\ first < last
    /\ \A i \in 2..n : cells[i].at > first
    /\ \A i \in 1..n : cells[i].at <= last
    /\ End(cells) = last

AreAt(cells, items, e) ==
    \A i \in 1..Len(items) : cells[i] = Cell(items[i], OffsetOf(items[i].kind, e[i - 1]))

Starts(items, V) ==
    \E item \in Items(V), rest \in Seq(Items(V)) :
        item.kind = "data" /\ item.size # 0 /\ items = <<item>> \o rest

Laid(cells, items, V, m, e) ==
    /\ Len(items) \in Nat \ {0}
    /\ cells \in Seq(Cells(V)) /\ Len(cells) = Len(items)
    /\ AreAt(cells, items, e)
    /\ Spans(cells, Len(items), 8 * m, e[Len(items)])
    /\ Solid(items) => \A i \in 1..Len(items) : cells[i].at < e[Len(items)]

LEMMA Segment ==
    ASSUME NEW V, NEW items \in Seq(Items(V)), Starts(items, V), NEW m \in Nat,
           NEW e, Ends(e, 8 * m, items)
    PROVE  Laid(Place(8 * m, items), items, V, m, e)
<1>1. PICK item \in Items(V), n \in Nat \ {0} :
         n = Len(items) /\ items[1] = item /\ item.kind = "data" /\ item.size # 0
  <2>1. PICK item \in Items(V), rest \in Seq(Items(V)) :
           item.kind = "data" /\ item.size # 0 /\ items = <<item>> \o rest
    BY DEF Starts
  <2>2. Len(items) = Len(rest) + 1 /\ items[1] = item
    BY <2>1, FirstItem
  <2>3. Len(rest) \in Nat /\ Len(items) \in Nat \ {0}
    BY <2>2
  <2> QED
    BY <2>1, <2>2, <2>3
<1>2. PICK b \in Nat : b = 8 * m
  OBVIOUS
<1>3. PICK cells : cells = Place(b, items)
  OBVIOUS
<1>20. Ends(e, b, items)
  BY <1>2
<1>4. cells = [i \in 1..n |-> Cell(items[i], OffsetOf(items[i].kind, e[i - 1]))]
  BY <1>1, <1>3, <1>20, Placing
<1>21. /\ \A i, j \in 0..n : i <= j => e[i] <= e[j]
       /\ \A i \in 1..n, o \in Nat : o = OffsetOf(items[i].kind, e[i - 1]) =>
             e[i - 1] <= o /\ o + items[i].size = e[i]
  BY <1>1, <1>20, Ascending
<1>5. e \in [0..n -> Nat] /\ e[0] = b
  BY <1>1, <1>2 DEF Ends
<1>6. ASSUME NEW i \in 1..n
      PROVE  \E o \in Nat : /\ o = OffsetOf(items[i].kind, e[i - 1])
                            /\ cells[i] = Cell(items[i], o) /\ cells[i] \in Cells(V)
                            /\ cells[i].at = o /\ cells[i].size = items[i].size
                            /\ e[i - 1] <= o /\ o + items[i].size = e[i]
                            /\ items[i].size \in Nat
  <2>1. PICK h \in 0..n : h = i - 1
    OBVIOUS
  <2>2. PICK p \in Nat : p = e[h]
    BY <1>5
  <2>3. PICK it \in Items(V) : it = items[i]
    BY <1>1
  <2>4. it.kind \in Kinds /\ it.size \in Nat /\ it.value \in V
    BY DEF Items
  <2>5. PICK o \in Nat : o = OffsetOf(it.kind, p)
    BY <2>4, OffsetFacts
  <2>6. cells[i] = Cell(it, o)
    BY <1>4, <2>1, <2>2, <2>3, <2>5
  <2>7. PICK kind \in Kinds, size \in Nat, value \in V :
           kind = it.kind /\ size = it.size /\ value = it.value
    BY <2>4
  <2>8. cells[i] = [kind |-> kind, size |-> size, value |-> value, at |-> o]
    BY <2>6, <2>7 DEF Cell
  <2>9. cells[i] \in Cells(V) /\ cells[i].at = o /\ cells[i].size = size
    BY <2>8 DEF Cells
  <2>10. e[i - 1] <= o /\ o + items[i].size = e[i]
    BY <1>21, <2>1, <2>2, <2>3, <2>5
  <2> QED
    BY <2>1, <2>2, <2>3, <2>5, <2>6, <2>7, <2>9, <2>10
<1>7. cells \in Seq(Cells(V)) /\ Len(cells) = n
  <2>1. \A i \in 1..n : cells[i] \in Cells(V)
    BY <1>6
  <2>2. DOMAIN cells = 1..n /\ cells = [i \in 1..n |-> cells[i]]
    BY <1>4
  <2>3. cells \in [1..n -> Cells(V)]
    BY <2>1, <2>2
  <2> QED
    BY <2>3
<1>8. cells[1].at = b /\ e[1] > b
  <2>1. PICK o \in Nat : /\ o = OffsetOf(items[1].kind, e[1 - 1]) /\ cells[1].at = o
                         /\ o + items[1].size = e[1]
    <3>1. 1 \in 1..n
      BY <1>1
    <3> QED
      BY <1>6, <3>1
  <2>2. 1 - 1 = 0
    OBVIOUS
  <2>3. o = b
    BY <1>1, <1>5, <2>1, <2>2 DEF OffsetOf
  <2>4. item.size \in Nat
    BY DEF Items
  <2> QED
    BY <1>1, <2>1, <2>3, <2>4
<1>9. \A i, j \in 0..n : i <= j => e[i] <= e[j]
  BY <1>21
<1>10. ASSUME NEW i \in 2..n PROVE cells[i].at > b
  <2>1. PICK h \in 0..n : h = i - 1 /\ 1 <= h /\ 1 \in 0..n /\ i \in 1..n
    OBVIOUS
  <2>2. e[1] <= e[h]
    BY <1>9, <2>1
  <2>3. PICK o \in Nat : cells[i].at = o /\ e[i - 1] <= o
    BY <1>6, <2>1
  <2>4. e[1] \in Nat /\ e[h] \in Nat
    BY <1>5, <2>1
  <2> QED
    BY <1>8, <2>1, <2>2, <2>3, <2>4
<1>11. ASSUME NEW i \in 1..n
       PROVE  cells[i].at <= e[n] /\ (Solid(items) => cells[i].at < e[n])
  <2>1. PICK o \in Nat, s \in Nat : cells[i].at = o /\ s = items[i].size /\ o + s = e[i]
    BY <1>6
  <2>2. i \in 0..n /\ n \in 0..n /\ i <= n /\ n \in 1..n
    BY <1>1
  <2>3. e[i] <= e[n] /\ e[i] \in Nat /\ e[n] \in Nat
    BY <1>5, <1>9, <2>2
  <2>4. cells[i].at <= e[n]
    <3>1. PICK x \in Nat, y \in Nat : x = e[i] /\ y = e[n]
      BY <2>3
    <3>2. x <= y /\ o + s = x
      BY <2>1, <2>3, <3>1
    <3>3. o <= y
      BY <3>2
    <3> QED
      BY <2>1, <3>1, <3>3
  <2>5. ASSUME Solid(items) PROVE cells[i].at < e[n]
    <3>1. CASE i = n
      <4>1. items[n].size # 0
        BY <1>1, <2>5 DEF Solid
      <4>2. PICK y \in Nat : y = e[n]
        BY <2>3
      <4>3. o + s = y /\ s # 0
        BY <2>1, <3>1, <4>1, <4>2
      <4>4. o < y
        BY <4>3
      <4> QED
        BY <2>1, <4>2, <4>4
    <3>2. CASE i # n
      <4>1. PICK h \in 0..n : h = n - 1 /\ i <= h
        BY <2>2, <3>2
      <4>2. e[i] <= e[h] /\ e[h] \in Nat
        BY <1>5, <1>9, <2>2, <4>1
      <4>3. PICK l \in Nat, z \in Nat : l + z = e[n] /\ e[n - 1] <= l /\ z = items[n].size
        BY <1>6, <2>2
      <4>4. z # 0
        BY <1>1, <2>5, <4>3 DEF Solid
      <4>5. PICK x \in Nat, w \in Nat, y \in Nat : x = e[i] /\ w = e[h] /\ y = e[n]
        BY <2>3, <4>2
      <4>6. o + s = x /\ x <= w /\ w <= l /\ l + z = y
        BY <2>1, <4>1, <4>2, <4>3, <4>5
      <4>7. o < y
        BY <4>4, <4>6
      <4> QED
        BY <2>1, <4>5, <4>7
    <3> QED
      BY <3>1, <3>2
  <2> QED
    BY <2>4, <2>5
<1>12. End(cells) = e[n]
  <2>1. n \in 1..n
    BY <1>1
  <2>2. PICK o \in Nat : cells[n].at = o /\ cells[n].size = items[n].size
                         /\ o + items[n].size = e[n]
    BY <1>6, <2>1
  <2>3. Last(cells) = cells[n]
    BY <1>7 DEF Last
  <2> QED
    BY <2>2, <2>3 DEF End
<1>13. Spans(cells, n, b, e[n])
  <2>1. b < e[n]
    <3>1. 1 \in 0..n /\ n \in 0..n /\ 1 <= n
      BY <1>1
    <3>2. e[1] <= e[n] /\ e[1] \in Nat /\ e[n] \in Nat
      BY <1>5, <1>9, <3>1
    <3> QED
      BY <1>8, <3>2
  <2> QED
    BY <1>8, <1>10, <1>11, <1>12, <2>1 DEF Spans
<1>14. \A i \in 1..n : \E o \in Nat : /\ o = OffsetOf(items[i].kind, e[i - 1])
                                      /\ cells[i] = Cell(items[i], o)
  BY <1>6
<1>15. \A i \in 1..n : cells[i] = Cell(items[i], OffsetOf(items[i].kind, e[i - 1]))
  BY <1>14
<1>16. AreAt(cells, items, e)
  BY <1>1, <1>15 DEF AreAt
<1> QED
  BY <1>1, <1>2, <1>3, <1>7, <1>11, <1>13, <1>16 DEF Laid

LEMMA SignatureFirst ==
    ASSUME NEW V, Values \in SUBSET V, NEW signature \in {"IDX", "IAR"}
    PROVE  \E item \in Items(V) : /\ WriteSignature(signature) = <<item>>
                                  /\ item.kind = "data" /\ item.size # 0
<1>1. PICK size \in Nat \ {0} : size = Len(signature)
  BY StringAssumption
<1>2. signature \in V
  <2>1. signature \in Words
    BY DEF Words
  <2>2. signature \in Values
    BY <2>1, Zenon DEF Values
  <2> QED
    BY <2>2
<1>3. "data" \in Kinds
  BY DEF Kinds
<1>4. PICK item \in Items(V) : /\ Item("data", size, signature) = <<item>>
                               /\ item.kind = "data" /\ item.size = size
  BY <1>2, <1>3, OneItem
<1> QED
  BY <1>1, <1>4 DEF WriteSignature

FileOf(ix) == Place(0, WriteIndex(ix, FALSE))

(* Index::save and the constructor of Index: whatever the index, what the  *)
(* navigator opens is what was saved, in every string, row and column, now *)
(* read-only.                                                              *)
THEOREM FileRoundTrip ==
    ASSUME NEW ix \in Indices, NEW file, file = FileOf(ix)
    PROVE  ReadIndex(MappedReader(file, 0, End(file))) = Frozen(ix)
<1>1. PICK compressed : compressed = FALSE
  OBVIOUS
<1>2. PICK items : items = WriteIndex(ix, compressed)
  OBVIOUS
<1>3. PICK rest \in Seq(Items(Values)) : items = WriteSignature("IDX") \o rest
  BY <1>2, IndexRoundTrip
<1>4. items \in Seq(Items(Values))
  BY <1>2, IndexRoundTrip
<1>5. PICK item \in Items(Values) : /\ WriteSignature("IDX") = <<item>>
                                    /\ item.kind = "data" /\ item.size # 0
  <2>1. PICK V : V = Values
    OBVIOUS
  <2>2. Values \in SUBSET V
    BY <2>1
  <2> QED
    BY <2>1, <2>2, SignatureFirst
<1>6. Starts(items, Values)
  BY <1>3, <1>5 DEF Starts
<1>7. PICK m \in Nat : m = 0 /\ 8 * m = 0
  OBVIOUS
<1>8. 8 * m \in Nat
  OBVIOUS
<1>9. PICK e : Ends(e, 8 * m, items)
  BY <1>4, <1>8, Ending
<1>11. file = Place(8 * m, items)
  <2>1. file = Place(0, WriteIndex(ix, compressed))
    BY <1>1, Zenon DEF FileOf
  <2> QED
    BY <1>2, <1>7, <2>1
<1>20. Laid(file, items, Values, m, e)
  BY <1>4, <1>6, <1>9, <1>11, Segment
<1>10. PICK n \in Nat \ {0} : n = Len(items)
  BY <1>20 DEF Laid
<1>12. /\ file \in Seq(Cells(Values)) /\ Len(file) = n
       /\ AreAt(file, items, e) /\ Spans(file, n, 8 * m, e[n])
  BY <1>10, <1>20 DEF Laid
<1>13. DOMAIN file = 1..n
  <2>1. DOMAIN file = 1..Len(file)
    BY <1>12
  <2> QED
    BY <1>12, <2>1
<1>14. (CHOOSE i \in DOMAIN file : file[i].at = 0) = 1
  <2>1. file[1].at = 0 /\ \A i \in 2..n : file[i].at > 0
    BY <1>7, <1>12 DEF Spans
  <2>2. \A i \in 1..n : i = 1 \/ i \in 2..n
    OBVIOUS
  <2>3. ASSUME NEW i \in 2..n PROVE file[i].at # 0
    <3>1. PICK cell \in Cells(Values) : cell = file[i]
      <4>1. i \in 1..Len(file)
        BY <1>12
      <4> QED
        BY <1>12, <4>1
    <3>2. cell.at \in Nat /\ cell.at > 0
      BY <2>1, <3>1 DEF Cells
    <3> QED
      BY <3>1, <3>2
  <2>4. 1 \in 1..n
    BY <1>10
  <2> QED
    BY <1>13, <2>1, <2>2, <2>3, <2>4
<1>15. End(file) = e[n] /\ e[n] \in Nat
  <2>1. n \in 0..n
    BY <1>10
  <2> QED
    BY <1>9, <1>10, <1>12, <2>1 DEF Spans, Ends
<1>16. PICK size \in Nat : size = e[n]
  BY <1>15
<1>17. PICK r : r = MappedReader(file, 0, End(file))
  OBVIOUS
<1>18. r = [file |-> file, base |-> 8 * m, size |-> size, pos |-> 0, value |-> "nothing",
            next |-> 0 + 1]
  <2>1. r = [file |-> file, base |-> 0, size |-> End(file), pos |-> 0, value |-> "nothing",
             next |-> 1]
    BY <1>14, <1>17, Zenon DEF MappedReader
  <2>2. 0 + 1 = 1 /\ End(file) = size
    BY <1>15, <1>16
  <2> QED
    BY <1>7, <2>1, <2>2
<1>19. IsReader(r) /\ Sees(r, items)
  <2>1. \A i \in 1..Len(items), j \in Nat : j = 0 + i =>
           file[j] = Cell(items[i], OffsetOf(items[i].kind, e[i - 1]))
    <3>1. \A i \in 1..Len(items), j \in Nat : j = 0 + i => j = i
      BY <1>10
    <3> QED
      BY <1>12, <3>1 DEF AreAt
  <2>2. 8 * m + size >= e[Len(items)]
    BY <1>7, <1>10, <1>16
  <2>3. 0 \in Nat
    OBVIOUS
  <2> QED
    BY <1>4, <1>9, <1>18, <2>1, <2>2, <2>3, Seeing
<1> QED
  BY <1>2, <1>17, <1>19, IndexRoundTrip

-----------------------------------------------------------------------------
(* Items whose kinds and sizes agree are at the same offsets.              *)
Alike(a, b) ==
    /\ Len(a) = Len(b)
    /\ \A i \in 1..Len(a) : a[i].kind = b[i].kind /\ a[i].size = b[i].size

LEMMA AlikeEnds ==
    ASSUME NEW a, NEW b, Alike(a, b), NEW from, NEW e, Ends(e, from, a)
    PROVE  Ends(e, from, b)
BY DEF Alike, Ends

LEMMA Joined ==
    ASSUME NEW S, NEW a \in Seq(S), NEW c \in Seq(S)
    PROVE  /\ Len(a \o c) = Len(a) + Len(c)
           /\ \A i \in 1..Len(a) : (a \o c)[i] = a[i]
           /\ \A i \in (Len(a) + 1)..(Len(a) + Len(c)) : (a \o c)[i] = c[i - Len(a)]
OBVIOUS

LEMMA AlikeConcat ==
    ASSUME NEW S, NEW a \in Seq(S), NEW b \in Seq(S), NEW c \in Seq(S), NEW d \in Seq(S),
           Alike(a, b), Alike(c, d)
    PROVE  Alike(a \o c, b \o d)
<1>1. PICK x : x = a \o c
  OBVIOUS
<1>2. PICK y : y = b \o d
  OBVIOUS
<1>3. PICK k \in Nat, n \in Nat : k = Len(a) /\ n = Len(c) /\ k = Len(b) /\ n = Len(d)
  BY DEF Alike
<1>4. /\ Len(x) = k + n /\ \A i \in 1..k : x[i] = a[i]
      /\ \A i \in (k + 1)..(k + n) : x[i] = c[i - k]
  <2>1. /\ Len(a \o c) = Len(a) + Len(c)
        /\ \A i \in 1..Len(a) : (a \o c)[i] = a[i]
        /\ \A i \in (Len(a) + 1)..(Len(a) + Len(c)) : (a \o c)[i] = c[i - Len(a)]
    BY Joined
  <2>2. Len(a) = k /\ Len(c) = n
    BY <1>3
  <2> QED
    BY <1>1, <2>1, <2>2
<1>5. /\ Len(y) = k + n /\ \A i \in 1..k : y[i] = b[i]
      /\ \A i \in (k + 1)..(k + n) : y[i] = d[i - k]
  <2>1. /\ Len(b \o d) = Len(b) + Len(d)
        /\ \A i \in 1..Len(b) : (b \o d)[i] = b[i]
        /\ \A i \in (Len(b) + 1)..(Len(b) + Len(d)) : (b \o d)[i] = d[i - Len(b)]
    BY Joined
  <2>2. Len(b) = k /\ Len(d) = n
    BY <1>3
  <2> QED
    BY <1>2, <2>1, <2>2
<1>6. /\ \A i \in 1..k : a[i].kind = b[i].kind /\ a[i].size = b[i].size
      /\ \A i \in 1..n : c[i].kind = d[i].kind /\ c[i].size = d[i].size
  BY <1>3 DEF Alike
<1>7. ASSUME NEW i \in 1..(k + n) PROVE x[i].kind = y[i].kind /\ x[i].size = y[i].size
  <2>1. CASE i \in 1..k
    BY <1>4, <1>5, <1>6, <2>1
  <2>2. CASE i \in (k + 1)..(k + n)
    <3>1. PICK j \in 1..n : j = i - k
      BY <2>2
    <3>2. x[i] = c[j] /\ y[i] = d[j]
      BY <1>4, <1>5, <2>2, <3>1
    <3> QED
      BY <1>6, <3>2
  <2>3. i \in 1..k \/ i \in (k + 1)..(k + n)
    OBVIOUS
  <2> QED
    BY <2>1, <2>2, <2>3
<1> QED
  BY <1>1, <1>2, <1>4, <1>5, <1>7 DEF Alike

LEMMA AlikeFlat ==
    ASSUME NEW S, NEW a \in Seq(Seq(S)), NEW b \in Seq(Seq(S)), Len(a) = Len(b),
           \A i \in 1..Len(a) : Alike(a[i], b[i])
    PROVE  Alike(FlattenSeq(a), FlattenSeq(b))
<1>1. PICK n \in Nat : n = Len(a) /\ n = Len(b)
  OBVIOUS
<1>2. PICK none \in Seq(S) : none = <<>>
  <2>1. <<>> \in Seq(S)
    OBVIOUS
  <2> QED
    BY <2>1
<1> DEFINE T == {k \in Nat : \A m \in 0..n : m = n - k =>
                     Alike(Left(a, m, none), Left(b, m, none))}
<1>3. 0 \in T
  <2>1. Left(a, n, none) = none /\ Left(b, n, none) = none
    BY <1>1, LeftNone
  <2>2. Alike(none, none)
    BY DEF Alike
  <2>3. \A m \in 0..n : m = n - 0 => m = n
    OBVIOUS
  <2> QED
    BY <2>1, <2>2, <2>3
<1>4. ASSUME NEW k \in Nat, k \in T PROVE k + 1 \in T
  <2> SUFFICES ASSUME NEW m \in 0..n, m = n - (k + 1)
               PROVE  Alike(Left(a, m, none), Left(b, m, none))
    OBVIOUS
  <2>1. PICK i \in 1..n : i = m + 1 /\ i = n - k /\ i \in 0..n
    OBVIOUS
  <2>2. Alike(Left(a, i, none), Left(b, i, none))
    BY <1>4, <2>1
  <2>3. Left(a, m, none) = a[i] \o Left(a, i, none) /\ Left(b, m, none) = b[i] \o Left(b, i, none)
    <3>1. m \in 0..Len(a) /\ m # Len(a) /\ m \in 0..Len(b) /\ m # Len(b)
      BY <1>1, <2>1
    <3> QED
      BY <2>1, <3>1, LeftNext
  <2>4. i \in 0..Len(a) /\ i \in 0..Len(b)
    BY <1>1, <2>1
  <2>5. PICK c \in Seq(S) : c = Left(a, i, none)
    BY <2>4, LeftType
  <2>6. PICK d \in Seq(S) : d = Left(b, i, none)
    BY <2>4, LeftType
  <2>7. a[i] \in Seq(S) /\ b[i] \in Seq(S) /\ Alike(a[i], b[i])
    BY <1>1
  <2>8. Alike(a[i] \o c, b[i] \o d)
    BY <2>2, <2>5, <2>6, <2>7, AlikeConcat
  <2> QED
    BY <2>3, <2>5, <2>6, <2>8
<1>5. T = Nat
  <2> HIDE DEF T
  <2>1. T \in SUBSET Nat
    BY DEF T
  <2> QED
    BY <1>3, <1>4, <2>1, Induct
<1>6. Alike(Left(a, 0, none), Left(b, 0, none))
  <2>1. n \in T
    <3> HIDE DEF T
    <3> QED
      BY <1>5
  <2>2. 0 \in 0..n /\ 0 = n - n
    OBVIOUS
  <2> QED
    BY <2>1, <2>2
<1>7. Left(a, 0, none) = FlattenSeq(a) /\ Left(b, 0, none) = FlattenSeq(b)
  <2>1. FlattenSeq(a) \o none = FlattenSeq(a) /\ FlattenSeq(b) \o none = FlattenSeq(b)
    <3>1. FlattenSeq(a) \in Seq(S) /\ FlattenSeq(b) \in Seq(S)
      BY FlattenType
    <3> QED
      BY <1>2, <3>1, ConcatEmptySeq
  <2>2. Left(a, 0, none) = FlattenSeq(a) \o none /\ Left(b, 0, none) = FlattenSeq(b) \o none
    BY LeftAll
  <2> QED
    BY <2>1, <2>2
<1> QED
  BY <1>6, <1>7

LEMMA AlikeItems ==
    ASSUME NEW V, NEW kind \in Kinds, NEW size \in Nat, NEW x \in V, NEW y \in V
    PROVE  Alike(Item(kind, size, x), Item(kind, size, y))
<1>1. PICK a \in Items(V) : /\ Item(kind, size, x) = <<a>> /\ a.kind = kind /\ a.size = size
  BY OneItem, SMTT(40)
<1>2. PICK b \in Items(V) : /\ Item(kind, size, y) = <<b>> /\ b.kind = kind /\ b.size = size
  BY OneItem
<1>3. Len(<<a>>) = 1 /\ Len(<<b>>) = 1 /\ <<a>>[1] = a /\ <<b>>[1] = b
  OBVIOUS
<1>4. Alike(<<a>>, <<b>>)
  <2>1. \A i \in 1..1 : i = 1
    OBVIOUS
  <2> QED
    BY <1>1, <1>2, <1>3, <2>1 DEF Alike
<1> QED
  BY <1>1, <1>2, <1>4

LEMMA AlikeSelf ==
    ASSUME NEW a
    PROVE  Alike(a, a)
BY DEF Alike
-----------------------------------------------------------------------------
(* An entry of an archive: an index at a multiple of 8.                    *)
Compressed(ix) == WriteIndex(ix, TRUE)
HashOf(ix) == Hash(0, Place(0, Compressed(ix)))

IsEntry(entry, p, last, ix, items, m, e) ==
    /\ entry.hash = HashOf(ix) /\ entry.offset = 8 * m /\ p <= 8 * m
    /\ entry.length \in Nat /\ 8 * m + entry.length = last
    /\ entry.cells = Place(8 * m, items)
    /\ Ends(e, 8 * m, items) /\ last = e[Len(items)] /\ last \in Nat
    /\ Laid(entry.cells, items, Values, m, e)

LEMMA StartsIndex ==
    ASSUME NEW ix \in Indices, NEW compressed
    PROVE  /\ WriteIndex(ix, compressed) \in Seq(Items(Values))
           /\ Starts(WriteIndex(ix, compressed), Values)
<1>1. PICK items : items = WriteIndex(ix, compressed)
  OBVIOUS
<1>2. PICK rest \in Seq(Items(Values)) : items = WriteSignature("IDX") \o rest
  BY <1>1, IndexRoundTrip
<1>3. items \in Seq(Items(Values))
  BY <1>1, IndexRoundTrip
<1>4. PICK item \in Items(Values) : /\ WriteSignature("IDX") = <<item>>
                                    /\ item.kind = "data" /\ item.size # 0
  <2>1. PICK V : V = Values
    OBVIOUS
  <2>2. Values \in SUBSET V
    BY <2>1
  <2> QED
    BY <2>1, <2>2, SignatureFirst
<1>5. Starts(items, Values)
  BY <1>2, <1>4 DEF Starts
<1> QED
  BY <1>1, <1>3, <1>5

LEMMA Entries ==
    ASSUME NEW ix \in Indices, NEW p \in Nat, NEW items, items = Compressed(ix)
    PROVE  \E m \in Nat, last \in Nat : \E e :
              IsEntry(Entry(p, ix), p, last, ix, items, m, e)
<1>1. PICK compressed : compressed = TRUE
  OBVIOUS
<1>2. items \in Seq(Items(Values)) /\ Starts(items, Values)
  <2>1. items = WriteIndex(ix, compressed)
    BY <1>1, Zenon DEF Compressed
  <2> QED
    BY <2>1, StartsIndex
<1>3. PICK m \in Nat : Aligned(p, kMaxAlign) = 8 * m /\ p <= 8 * m
  <2>1. (p + 7) \div 8 \in Nat /\ p <= 8 * ((p + 7) \div 8)
    OBVIOUS
  <2>2. Aligned(p, 8) = 8 * ((p + 7) \div 8)
    BY <2>1 DEF Aligned
  <2> QED
    BY <2>1, <2>2 DEF kMaxAlign
<1>4. 8 * m \in Nat /\ 0 \in Nat
  OBVIOUS
<1>5. PICK e : Ends(e, 8 * m, items)
  BY <1>2, <1>4, Ending
<1>6. PICK cells : cells = Place(8 * m, items)
  OBVIOUS
<1>7. Laid(cells, items, Values, m, e)
  BY <1>2, <1>5, <1>6, Segment
<1>8. PICK n \in Nat \ {0} : n = Len(items)
  BY <1>7 DEF Laid
<1>9. PICK last \in Nat : last = e[n] /\ last = End(cells) /\ 8 * m < last
  <2>1. n \in 0..n
    OBVIOUS
  <2>2. e[n] \in Nat
    BY <1>5, <1>8, <2>1 DEF Ends
  <2> QED
    BY <1>7, <1>8, <2>2 DEF Laid, Spans
<1>10. Hash(8 * m, cells) = HashOf(ix)
  <2>1. PICK d : Ends(d, 0, items)
    BY <1>2, <1>4, Ending
  <2>2. PICK zero : zero = Place(0, items)
    OBVIOUS
  <2>3. PICK o \in Nat : o = 0 /\ 8 * o = 0
    OBVIOUS
  <2>4. Laid(zero, items, Values, o, d)
    <3>1. Ends(d, 8 * o, items) /\ zero = Place(8 * o, items)
      BY <2>1, <2>2, <2>3
    <3> QED
      BY <1>2, <3>1, Segment
  <2>5. DOMAIN zero = 1..n /\ DOMAIN cells = 1..n
    <3>1. /\ zero \in Seq(Cells(Values)) /\ Len(zero) = n
          /\ cells \in Seq(Cells(Values)) /\ Len(cells) = n
      BY <1>7, <1>8, <2>4 DEF Laid
    <3> QED
      BY <3>1
  <2>6. \A i \in 0..n : e[i] = d[i] + 8 * m
    BY <1>2, <1>5, <1>8, <2>1, Shifting
  <2>7. ASSUME NEW i \in 1..n
        PROVE  [cells[i] EXCEPT !.at = @ - 8 * m] = [zero[i] EXCEPT !.at = @ - 0]
    <3>1. PICK h \in 0..n : h = i - 1
      OBVIOUS
    <3>2. PICK x \in Nat : x = d[h]
      BY <1>8, <2>1 DEF Ends
    <3>3. e[h] = x + 8 * m
      BY <2>6, <3>2
    <3>4. PICK it \in Items(Values) : it = items[i]
      BY <1>2, <1>8
    <3>5. PICK kind \in Kinds, size \in Nat, value \in Values :
             kind = it.kind /\ size = it.size /\ value = it.value
      BY DEF Items
    <3>6. PICK y \in Nat : y = OffsetOf(kind, x) /\ OffsetOf(kind, x + 8 * m) = y + 8 * m
      BY OffsetFacts
    <3>7. cells[i] = [kind |-> kind, size |-> size, value |-> value, at |-> y + 8 * m]
      BY <1>7, <1>8, <3>1, <3>3, <3>4, <3>5, <3>6, SMTT(40) DEF Laid, AreAt, Cell
    <3>8. zero[i] = [kind |-> kind, size |-> size, value |-> value, at |-> y]
      BY <1>8, <2>4, <3>1, <3>2, <3>4, <3>5, <3>6 DEF Laid, AreAt, Cell
    <3>9. (y + 8 * m) - 8 * m = y /\ y - 0 = y
      OBVIOUS
    <3> QED
      BY <3>7, <3>8, <3>9
  <2>8. Hash(8 * m, cells) = Hash(0, zero)
    <3>1. Hash(8 * m, cells) = [i \in 1..n |-> [cells[i] EXCEPT !.at = @ - 8 * m]]
      BY <2>5 DEF Hash
    <3>2. Hash(0, zero) = [i \in 1..n |-> [zero[i] EXCEPT !.at = @ - 0]]
      BY <2>5 DEF Hash
    <3> QED
      BY <2>7, <3>1, <3>2
  <2> QED
    BY <2>2, <2>8 DEF HashOf
<1>11. PICK entry : entry = Entry(p, ix)
  OBVIOUS
<1>12. entry = [offset |-> 8 * m, length |-> End(cells) - 8 * m, hash |-> Hash(8 * m, cells),
                cells |-> cells]
  BY <1>3, <1>6, <1>11, Zenon DEF Entry, Compressed
<1>13. PICK length \in Nat : length = last - 8 * m /\ 8 * m + length = last
  BY <1>9
<1>14. /\ entry.hash = HashOf(ix) /\ entry.offset = 8 * m /\ entry.length = length
       /\ entry.cells = cells
  BY <1>9, <1>10, <1>12, <1>13
<1>15. IsEntry(entry, p, last, ix, items, m, e)
  BY <1>3, <1>5, <1>6, <1>7, <1>8, <1>9, <1>13, <1>14 DEF IsEntry
<1>16. IsEntry(Entry(p, ix), p, last, ix, items, m, e)
  BY <1>11, <1>15
<1> QED
  BY <1>16, Zenon

-----------------------------------------------------------------------------
(* Cells in a row: each block's are at `first` and above it, below `last`. *)
Block(cells, before, first, last) ==
    /\ Len(cells) # 0 /\ cells[1].at = first /\ before <= first /\ first < last
    /\ \A i \in 2..Len(cells) : cells[i].at > first
    /\ \A i \in 1..Len(cells) : cells[i].at < last
    /\ End(cells) = last

Blocks(V, parts, n, E, M) ==
    /\ parts \in Seq(Seq(Cells(V))) /\ Len(parts) = n
    /\ E \in [0..n -> Nat] /\ M \in [1..n -> Nat]
    /\ \A k \in 1..n : Block(parts[k], E[k - 1], M[k], E[k])

From(cells, n) == \A i \in 1..Len(cells) : cells[i].at >= n

LEMMA JoinedFrom ==
    ASSUME NEW V, NEW a \in Seq(Cells(V)), NEW c \in Seq(Cells(V)), NEW n \in Nat,
           From(a, n), From(c, n)
    PROVE  From(a \o c, n)
<1>1. PICK x : x = a \o c
  OBVIOUS
<1>2. /\ Len(x) = Len(a) + Len(c) /\ \A i \in 1..Len(a) : x[i] = a[i]
      /\ \A i \in (Len(a) + 1)..(Len(a) + Len(c)) : x[i] = c[i - Len(a)]
  <2>1. /\ Len(a \o c) = Len(a) + Len(c)
        /\ \A i \in 1..Len(a) : (a \o c)[i] = a[i]
        /\ \A i \in (Len(a) + 1)..(Len(a) + Len(c)) : (a \o c)[i] = c[i - Len(a)]
    BY Joined
  <2> QED
    BY <1>1, <2>1
<1>3. PICK k \in Nat, l \in Nat : k = Len(a) /\ l = Len(c)
  OBVIOUS
<1>4. ASSUME NEW i \in 1..(k + l) PROVE x[i].at >= n
  <2>1. CASE i \in 1..k
    BY <1>2, <1>3, <2>1 DEF From
  <2>2. CASE i \in (k + 1)..(k + l)
    <3>1. PICK j \in 1..l : j = i - k
      BY <2>2
    <3> QED
      BY <1>2, <1>3, <2>2, <3>1 DEF From
  <2> QED
    BY <2>1, <2>2
<1> QED
  BY <1>1, <1>2, <1>3, <1>4 DEF From

LEMMA Rising ==
    ASSUME NEW V, NEW n \in Nat, NEW parts, NEW E, NEW M, Blocks(V, parts, n, E, M),
           NEW none \in Seq(Cells(V)), none = <<>>
    PROVE  \A k \in 0..n : From(Left(parts, k, none), E[k])
<1>1. /\ parts \in Seq(Seq(Cells(V))) /\ Len(parts) = n /\ E \in [0..n -> Nat]
      /\ M \in [1..n -> Nat]
  BY DEF Blocks
<1> DEFINE T == {j \in Nat : \A k \in 0..n : k = n - j => From(Left(parts, k, none), E[k])}
<1>2. 0 \in T
  <2>1. Left(parts, n, none) = none
    BY <1>1, LeftNone
  <2>2. From(none, E[n])
    BY DEF From
  <2>3. \A k \in 0..n : k = n - 0 => k = n
    OBVIOUS
  <2> QED
    BY <2>1, <2>2, <2>3
<1>3. ASSUME NEW j \in Nat, j \in T PROVE j + 1 \in T
  <2> SUFFICES ASSUME NEW k \in 0..n, k = n - (j + 1)
               PROVE  From(Left(parts, k, none), E[k])
    OBVIOUS
  <2>1. PICK i \in 1..n : i = k + 1 /\ i = n - j /\ i \in 0..n /\ i - 1 = k
    OBVIOUS
  <2>2. From(Left(parts, i, none), E[i])
    BY <1>3, <2>1
  <2>3. Left(parts, k, none) = parts[i] \o Left(parts, i, none)
    <3>1. k \in 0..Len(parts) /\ k # Len(parts)
      BY <1>1, <2>1
    <3> QED
      BY <1>1, <2>1, <3>1, LeftNext
  <2>4. PICK left \in Seq(Cells(V)) : left = Left(parts, i, none)
    BY <1>1, <2>1, LeftType
  <2>5. PICK part \in Seq(Cells(V)) : part = parts[i]
    BY <1>1
  <2>6. PICK a \in Nat, f \in Nat, b \in Nat : a = E[k] /\ f = M[i] /\ b = E[i]
    BY <1>1, <2>1
  <2>7. Block(part, a, f, b)
    BY <2>1, <2>5, <2>6 DEF Blocks
  <2>8. /\ Len(part) # 0 /\ part[1].at = f /\ a <= f /\ f < b
        /\ \A h \in 2..Len(part) : part[h].at > f
    BY <2>7 DEF Block
  <2>9. From(part, a)
    <3>1. ASSUME NEW h \in 1..Len(part) PROVE part[h].at >= a
      <4>1. part[h].at \in Nat
        <5>1. part[h] \in Cells(V)
          OBVIOUS
        <5> QED
          BY <5>1 DEF Cells
      <4>2. h = 1 \/ h \in 2..Len(part)
        OBVIOUS
      <4> QED
        BY <2>8, <4>1, <4>2
    <3> QED
      BY <3>1 DEF From
  <2>10. From(left, a)
    <3>1. ASSUME NEW h \in 1..Len(left) PROVE left[h].at >= a
      <4>1. left[h].at \in Nat
        <5>1. left[h] \in Cells(V)
          OBVIOUS
        <5> QED
          BY <5>1 DEF Cells
      <4>2. left[h].at >= b
        BY <2>2, <2>4, <2>6 DEF From
      <4> QED
        BY <2>8, <4>1, <4>2
    <3> QED
      BY <3>1 DEF From
  <2>11. From(part \o left, a)
    BY <2>9, <2>10, JoinedFrom
  <2> QED
    BY <2>3, <2>4, <2>5, <2>6, <2>11
<1>4. T = Nat
  <2> HIDE DEF T
  <2>1. T \in SUBSET Nat
    BY DEF T
  <2> QED
    BY <1>2, <1>3, <2>1, Induct
<1>5. ASSUME NEW k \in 0..n PROVE From(Left(parts, k, none), E[k])
  <2>1. PICK j \in Nat : j = n - k /\ k = n - j
    OBVIOUS
  <2>2. j \in T
    <3> HIDE DEF T
    <3> QED
      BY <1>4
  <2> QED
    BY <2>1, <2>2
<1> QED
  BY <1>5

(* What is in front of the others.                                         *)
Behind(file, head, left) == file = head \o left

Begins(head, top) == Len(top) <= Len(head) /\ \A i \in 1..Len(top) : head[i] = top[i]

Before(head, top, n) ==
    /\ Len(head) # 0 /\ Begins(head, top) /\ End(head) = n
    /\ \A i \in 1..Len(head) : head[i].at < n

LEMMA Longer ==
    ASSUME NEW V, NEW top \in Seq(Cells(V)), NEW head \in Seq(Cells(V)), NEW a \in Nat,
           Before(head, top, a), NEW part \in Seq(Cells(V)), NEW f \in Nat, NEW b \in Nat,
           Block(part, a, f, b)
    PROVE  Before(head \o part, top, b) /\ a <= b
<1>1. PICK x \in Seq(Cells(V)) : x = head \o part
  BY ConcatProperties
<1>2. PICK k \in Nat \ {0}, l \in Nat \ {0} : k = Len(head) /\ l = Len(part)
  BY DEF Before, Block
<1>3. /\ Len(x) = k + l /\ \A i \in 1..k : x[i] = head[i]
      /\ \A i \in (k + 1)..(k + l) : x[i] = part[i - k]
  <2>1. /\ Len(head \o part) = Len(head) + Len(part)
        /\ \A i \in 1..Len(head) : (head \o part)[i] = head[i]
        /\ \A i \in (Len(head) + 1)..(Len(head) + Len(part)) :
              (head \o part)[i] = part[i - Len(head)]
    BY Joined
  <2> QED
    BY <1>1, <1>2, <2>1
<1>4. a <= f /\ f < b /\ a <= b /\ End(part) = b /\ \A i \in 1..l : part[i].at < b
  BY <1>2 DEF Block
<1>5. ASSUME NEW i \in 1..(k + l) PROVE x[i].at < b
  <2>1. CASE i \in 1..k
    <3>1. head[i] \in Cells(V) /\ head[i].at < a
      BY <1>2, <2>1 DEF Before
    <3>2. head[i].at \in Nat
      BY <3>1 DEF Cells
    <3> QED
      BY <1>3, <1>4, <2>1, <3>1, <3>2, SMTT(40)
  <2>2. CASE i \in (k + 1)..(k + l)
    <3>1. PICK j \in 1..l : j = i - k
      BY <2>2
    <3> QED
      BY <1>3, <1>4, <2>2, <3>1
  <2> QED
    BY <2>1, <2>2
<1>6. End(x) = b
  <2>1. Last(x) = part[l]
    <3>1. k + l \in (k + 1)..(k + l) /\ (k + l) - k = l
      OBVIOUS
    <3> QED
      BY <1>3, <3>1 DEF Last
  <2>2. Last(part) = part[l]
    BY <1>2 DEF Last
  <2> QED
    BY <1>4, <2>1, <2>2 DEF End
<1>7. Begins(x, top)
  <2>1. Len(top) <= k /\ \A i \in 1..Len(top) : head[i] = top[i]
    BY <1>2 DEF Before, Begins
  <2>2. Len(top) \in Nat /\ Len(top) <= k + l
    BY <2>1
  <2>3. \A i \in 1..Len(top) : i \in 1..k
    BY <2>1, <2>2
  <2> QED
    BY <1>3, <2>1, <2>2, <2>3 DEF Begins
<1> QED
  BY <1>1, <1>2, <1>3, <1>4, <1>5, <1>6, <1>7 DEF Before

Headed(V, file, top, left, first, n) ==
    \E head \in Seq(Cells(V)) : file = head \o left /\ Before(head, top, n) /\ first <= n

LEMMA Stacked ==
    ASSUME NEW V, NEW n \in Nat, NEW parts, NEW E, NEW M, Blocks(V, parts, n, E, M),
           NEW none \in Seq(Cells(V)), none = <<>>, NEW top \in Seq(Cells(V)),
           Before(top, top, E[0]), NEW file, file = top \o FlattenSeq(parts)
    PROVE  \A k \in 0..n : Headed(V, file, top, Left(parts, k, none), E[0], E[k])
<1>1. /\ parts \in Seq(Seq(Cells(V))) /\ Len(parts) = n /\ E \in [0..n -> Nat]
      /\ M \in [1..n -> Nat]
  BY DEF Blocks
<1>2. PICK Q : Q = Seq(Cells(V))
  OBVIOUS
<1>3. Assoc(Q) /\ Closed(Q)
  BY <1>2, Associates, Closes
<1> DEFINE P(k) == Headed(V, file, top, Left(parts, k, none), E[0], E[k])
           T == {k \in Nat : k \in 0..n => P(k)}
<1>4. 0 \in T
  <2>1. FlattenSeq(parts) \in Seq(Cells(V))
    BY <1>1, FlattenType
  <2>2. PICK flat \in Seq(Cells(V)) : flat = FlattenSeq(parts)
    BY <2>1
  <2>3. flat \o none = flat
    BY ConcatEmptySeq
  <2>4. Left(parts, 0, none) = flat \o none
    BY <1>1, <2>2, LeftAll
  <2>5. file = top \o Left(parts, 0, none)
    BY <2>2, <2>3, <2>4
  <2>6. PICK e \in Nat : e = E[0]
    BY <1>1
  <2>7. e <= e
    OBVIOUS
  <2>8. P(0)
    BY <2>5, <2>6, <2>7 DEF Headed
  <2> QED
    <3> HIDE DEF P
    <3> QED
      BY <2>8
<1>5. ASSUME NEW k \in Nat, k \in T PROVE k + 1 \in T
  <2> SUFFICES ASSUME k + 1 \in 1..n PROVE P(k + 1)
    BY <1>5
  <2>1. PICK i \in 1..n : i = k + 1 /\ i - 1 = k /\ i \in 0..n /\ k \in 0..n
    OBVIOUS
  <2>2. P(k)
    BY <1>5, <2>1
  <2>3. PICK head \in Seq(Cells(V)) :
           file = head \o Left(parts, k, none) /\ Before(head, top, E[k]) /\ E[0] <= E[k]
    BY <2>2 DEF Headed
  <2>4. Left(parts, k, none) = parts[i] \o Left(parts, i, none)
    <3>1. k \in 0..Len(parts) /\ k # Len(parts)
      BY <1>1, <2>1
    <3> QED
      BY <1>1, <2>1, <3>1, LeftNext
  <2>5. PICK left \in Seq(Cells(V)) : left = Left(parts, i, none)
    BY <1>1, <2>1, LeftType
  <2>6. PICK part \in Seq(Cells(V)) : part = parts[i]
    BY <1>1
  <2>7. PICK o \in Nat, a \in Nat, f \in Nat, b \in Nat :
           o = E[0] /\ a = E[k] /\ f = M[i] /\ b = E[i]
    <3>1. 0 \in 0..n /\ E[0] \in Nat /\ E[k] \in Nat /\ M[i] \in Nat /\ E[i] \in Nat
      BY <1>1, <2>1
    <3> QED
      BY <3>1
  <2>8. Block(part, a, f, b)
    BY <2>1, <2>6, <2>7 DEF Blocks
  <2>9. Before(head \o part, top, b) /\ a <= b
    BY <2>3, <2>7, <2>8, Longer
  <2>10. PICK longer \in Seq(Cells(V)) : longer = head \o part
    BY ConcatProperties
  <2>11. file = longer \o left
    <3>1. Regroup(Q, head, part)
      BY <1>2, <1>3, Regroups
    <3>2. (head \o part) \o left = head \o (part \o left)
      BY <1>2, <3>1 DEF Regroup
    <3> QED
      BY <2>3, <2>4, <2>5, <2>6, <2>10, <3>2
  <2>12. o <= b
    BY <2>3, <2>7, <2>9, SMTT(40)
  <2>13. P(i)
    BY <2>5, <2>7, <2>9, <2>10, <2>11, <2>12 DEF Headed
  <2> QED
    BY <2>1, <2>13
<1>6. T = Nat
  <2> HIDE DEF T
  <2>1. T \in SUBSET Nat
    BY DEF T
  <2> QED
    BY <1>4, <1>5, <2>1, Induct
<1>7. ASSUME NEW k \in 0..n PROVE P(k)
  <2>1. k \in T
    <3> HIDE DEF T
    <3> QED
      BY <1>6
  <2> QED
    BY <2>1
<1> QED
  BY <1>7

(* The offset of a block leads to its first cell.                          *)
Found(file, first, part) ==
    \E j \in Nat : /\ (CHOOSE i \in DOMAIN file : file[i].at = first) = j + 1
                   /\ \A i \in 1..Len(part) : file[j + i] = part[i]

LEMMA Finding ==
    ASSUME NEW V, NEW head \in Seq(Cells(V)), NEW part \in Seq(Cells(V)),
           NEW left \in Seq(Cells(V)), NEW file, file = head \o (part \o left),
           NEW a \in Nat, NEW f \in Nat, NEW b \in Nat, Block(part, a, f, b),
           \A i \in 1..Len(head) : head[i].at < a, From(left, b)
    PROVE  Found(file, f, part)
<1>1. PICK rest \in Seq(Cells(V)) : rest = part \o left
  BY ConcatProperties
<1>2. file = head \o rest /\ file \in Seq(Cells(V))
  BY <1>1, ConcatProperties
<1>3. PICK k \in Nat, l \in Nat \ {0}, n \in Nat : k = Len(head) /\ l = Len(part) /\ n = Len(left)
  BY DEF Block
<1>4. /\ Len(rest) = l + n /\ \A i \in 1..l : rest[i] = part[i]
      /\ \A i \in (l + 1)..(l + n) : rest[i] = left[i - l]
  <2>1. /\ Len(part \o left) = Len(part) + Len(left)
        /\ \A i \in 1..Len(part) : (part \o left)[i] = part[i]
        /\ \A i \in (Len(part) + 1)..(Len(part) + Len(left)) :
              (part \o left)[i] = left[i - Len(part)]
    BY Joined
  <2> QED
    BY <1>1, <1>3, <2>1
<1>5. /\ Len(file) = k + (l + n) /\ \A i \in 1..k : file[i] = head[i]
      /\ \A i \in (k + 1)..(k + (l + n)) : file[i] = rest[i - k]
  <2>1. /\ Len(head \o rest) = Len(head) + Len(rest)
        /\ \A i \in 1..Len(head) : (head \o rest)[i] = head[i]
        /\ \A i \in (Len(head) + 1)..(Len(head) + Len(rest)) :
              (head \o rest)[i] = rest[i - Len(head)]
    BY Joined
  <2> QED
    BY <1>2, <1>3, <1>4, <2>1, SMTT(40)
<1>6. DOMAIN file = 1..(k + (l + n))
  <2>1. DOMAIN file = 1..Len(file)
    BY <1>2
  <2> QED
    BY <1>5, <2>1
<1>7. \A i \in 1..l : file[k + i] = part[i]
  <2> TAKE i \in 1..l
  <2>1. PICK j \in (k + 1)..(k + (l + n)) : j = k + i /\ j - k = i
    OBVIOUS
  <2> QED
    BY <1>4, <1>5, <2>1
<1>8. /\ part[1].at = f /\ a <= f /\ f < b
      /\ \A i \in 2..l : part[i].at > f
  BY <1>3 DEF Block
<1>9. file[k + 1].at = f
  <2>1. 1 \in 1..l
    OBVIOUS
  <2> QED
    BY <1>7, <1>8, <2>1
<1>10. ASSUME NEW i \in 1..(k + (l + n)), i # k + 1 PROVE file[i].at # f
  <2>1. CASE i \in 1..k
    <3>1. head[i] \in Cells(V) /\ head[i].at < a
      BY <1>3, <2>1
    <3>2. head[i].at \in Nat
      BY <3>1 DEF Cells
    <3>3. PICK y \in Nat : y = head[i].at
      BY <3>2
    <3>4. y < f
      BY <1>8, <3>1, <3>3, SMTT(40)
    <3>5. file[i] = head[i]
      BY <1>5, <2>1
    <3> QED
      BY <3>3, <3>4, <3>5, SMTT(40)
  <2>2. CASE i \in (k + 2)..(k + l)
    <3>1. PICK j \in 2..l : i = k + j
      <4>1. i - k \in 2..l /\ i = k + (i - k)
        BY <2>2
      <4> QED
        BY <4>1
    <3>2. file[i] = part[j]
      <4>1. j \in 1..l
        OBVIOUS
      <4>2. file[k + j] = part[j]
        BY <1>7, <4>1
      <4> QED
        BY <3>1, <4>2
    <3>3. part[j] \in Cells(V) /\ part[j].at > f
      BY <1>3, <1>8
    <3>4. part[j].at \in Nat
      BY <3>3 DEF Cells
    <3> QED
      BY <3>2, <3>3, <3>4, SMTT(40)
  <2>3. CASE i \in (k + l + 1)..(k + (l + n))
    <3>1. PICK h \in (l + 1)..(l + n), j \in 1..n : h = i - k /\ j = h - l
      <4>1. i - k \in (l + 1)..(l + n) /\ (i - k) - l \in 1..n
        BY <2>3
      <4> QED
        BY <4>1
    <3>2. i \in (k + 1)..(k + (l + n))
      BY <2>3
    <3>3. file[i] = left[j]
      BY <1>4, <1>5, <3>1, <3>2
    <3>4. left[j] \in Cells(V) /\ left[j].at >= b
      BY <1>3 DEF From
    <3>5. left[j].at \in Nat
      BY <3>4 DEF Cells
    <3> QED
      BY <1>8, <3>3, <3>4, <3>5
  <2>4. i \in 1..k \/ i \in (k + 2)..(k + l) \/ i \in (k + l + 1)..(k + (l + n))
    BY <1>10
  <2> QED
    BY <2>1, <2>2, <2>3, <2>4
<1>11. (CHOOSE i \in DOMAIN file : file[i].at = f) = k + 1
  <2>1. k + 1 \in 1..(k + (l + n))
    OBVIOUS
  <2>2. PICK at : at = [i \in 1..(k + (l + n)) |-> file[i].at]
    OBVIOUS
  <2> QED
    BY <1>6, <1>9, <1>10, <2>1
<1> QED
  BY <1>3, <1>7, <1>11 DEF Found

-----------------------------------------------------------------------------
(* The table of contents of an archive.                                    *)
LEMMA AnyInteger ==
    ASSUME NEW V, NEW n \in V
    PROVE  /\ WriteUInt32(n) \in Seq(Items(V)) /\ Solid(WriteUInt32(n))
           /\ \A r : \A rest \in Seq(Items(V)) :
                 IsReader(r) /\ Sees(r, WriteUInt32(n) \o rest) => HasRead(ReadUInt32(r), n, rest)
<1>1. "uint32" \in Kinds /\ 4 \in Nat \ {0} /\ 4 \in Nat
  BY DEF Kinds
<1>2. Item("uint32", 4, n) \in Seq(Items(V))
  BY <1>1, ItemType
<1>3. ASSUME NEW r, NEW rest \in Seq(Items(V)), IsReader(r), Sees(r, Item("uint32", 4, n) \o rest)
      PROVE  HasRead(ReadUInt32(r), n, rest)
  <2>1. PICK kinds : kinds = {"uint32"}
    OBVIOUS
  <2>2. "uint32" \in kinds
    BY <2>1
  <2>3. HasRead(Read(r, kinds), n, rest)
    BY <1>1, <1>3, <2>2, ReadingItem
  <2> QED
    BY <2>1, <2>3 DEF ReadUInt32
<1>4. Solid(Item("uint32", 4, n))
  BY <1>1, SolidItem
<1>5. WriteUInt32(n) = Item("uint32", 4, n)
  BY DEF WriteUInt32
<1> QED
  BY <1>2, <1>3, <1>4, <1>5

LEMMA AnyString ==
    ASSUME NEW V, NEW string \in V, NEW size \in Nat
    PROVE  /\ WriteString(string, size) \in Seq(Items(V))
           /\ \A r : \A rest \in Seq(Items(V)) :
                 IsReader(r) /\ Sees(r, WriteString(string, size) \o rest)
                 => HasRead(ReadString(r), string, rest)
<1>1. "string" \in Kinds
  BY DEF Kinds
<1>2. Item("string", size, string) \in Seq(Items(V))
  BY <1>1, ItemType
<1>3. ASSUME NEW r, NEW rest \in Seq(Items(V)), IsReader(r),
             Sees(r, Item("string", size, string) \o rest)
      PROVE  HasRead(ReadString(r), string, rest)
  <2>1. PICK kinds : kinds = {"string"}
    OBVIOUS
  <2>2. "string" \in kinds
    BY <2>1
  <2>3. HasRead(Read(r, kinds), string, rest)
    BY <1>1, <1>3, <2>2, ReadingItem
  <2> QED
    BY <2>1, <2>3 DEF ReadString
<1>4. WriteString(string, size) = Item("string", size, string)
  BY DEF WriteString
<1> QED
  BY <1>2, <1>3, <1>4

LEMMA AnySignature ==
    ASSUME NEW V, Values \in SUBSET V
    PROVE  /\ WriteSignature("IAR") \in Seq(Items(V))
           /\ \A r : \A rest \in Seq(Items(V)) :
                 IsReader(r) /\ Sees(r, WriteSignature("IAR") \o rest)
                 => HasRead(ReadSignature(r), "IAR", rest)
<1>1. PICK size \in Nat \ {0} : size = Len("IAR")
  BY StringAssumption
<1>2. "IAR" \in V
  <2>1. "IAR" \in Words
    BY DEF Words
  <2>2. "IAR" \in Values
    BY <2>1, Zenon DEF Values
  <2> QED
    BY <2>2
<1>3. "data" \in Kinds
  BY DEF Kinds
<1>4. WriteSignature("IAR") = Item("data", size, "IAR")
  BY <1>1 DEF WriteSignature
<1>5. Item("data", size, "IAR") \in Seq(Items(V))
  BY <1>2, <1>3, ItemType
<1>6. ASSUME NEW r, NEW rest \in Seq(Items(V)), IsReader(r),
             Sees(r, Item("data", size, "IAR") \o rest)
      PROVE  HasRead(ReadSignature(r), "IAR", rest)
  <2>1. PICK kinds : kinds = {"data"}
    OBVIOUS
  <2>2. "data" \in kinds /\ size \in Nat
    BY <2>1
  <2>3. HasRead(Read(r, kinds), "IAR", rest)
    BY <1>2, <1>3, <1>6, <2>2, ReadingItem
  <2> QED
    BY <2>1, <2>3 DEF ReadSignature
<1> QED
  BY <1>4, <1>5, <1>6

TocEntry(path, entry) ==
    WriteString(path, path) \o WriteString(entry.hash, 32)
    \o WriteUInt32(entry.offset) \o WriteUInt32(entry.length)

TocParts(paths, ofEntry) == [i \in DOMAIN paths |-> TocEntry(paths[i], ofEntry[i])]

TocItems(paths, ofEntry) ==
    WriteSignature("IAR") \o WriteUInt32(Len(paths)) \o FlattenSeq(TocParts(paths, ofEntry))

InToc(V, path, entry) ==
    /\ path \in Nat /\ path \in V /\ entry.hash \in V /\ entry.offset \in V /\ entry.length \in V

(* What a round of the loop of IndexArchiveReader adds.                    *)
NextToc(before) ==
    LET name == ReadString(before.reader)
        hash == ReadString(name)
        offset == ReadUInt32(hash)
        length == ReadUInt32(offset)
    IN [reader |-> length,
        toc |-> Append(before.toc, [name |-> name.value, hash |-> hash.value,
                    offset |-> offset.value, length |-> length.value])]

Listed(path, entry) ==
    [name |-> path, hash |-> entry.hash, offset |-> entry.offset, length |-> entry.length]

TocRead(before, path, entry, rest) ==
    /\ IsReader(NextToc(before).reader) /\ Sees(NextToc(before).reader, rest)
    /\ NextToc(before).toc = Append(before.toc, Listed(path, entry))

LEMMA TocEntryRoundTrip ==
    ASSUME NEW V, NEW path, NEW entry, InToc(V, path, entry)
    PROVE  /\ TocEntry(path, entry) \in Seq(Items(V))
           /\ \A before : \A rest \in Seq(Items(V)) :
                 IsReader(before.reader) /\ Sees(before.reader, TocEntry(path, entry) \o rest)
                 => TocRead(before, path, entry, rest)
<1>1. PICK Q : Q = Seq(Items(V))
  OBVIOUS
<1>2. Assoc(Q) /\ Closed(Q)
  BY <1>1, Associates, Closes
<1>3. 32 \in Nat /\ path \in Nat /\ path \in V /\ entry.hash \in V
      /\ entry.offset \in V /\ entry.length \in V
  BY DEF InToc
<1>4. PICK a \in Q : a = WriteString(path, path)
  BY <1>1, <1>3, AnyString
<1>5. PICK b \in Q : b = WriteString(entry.hash, 32)
  BY <1>1, <1>3, AnyString
<1>6. PICK c \in Q : c = WriteUInt32(entry.offset)
  BY <1>1, <1>3, AnyInteger
<1>7. PICK d \in Q : d = WriteUInt32(entry.length)
  BY <1>1, <1>3, AnyInteger
<1>8. TocEntry(path, entry) = ((a \o b) \o c) \o d
  BY <1>4, <1>5, <1>6, <1>7 DEF TocEntry
<1>9. ((a \o b) \o c) \o d \in Q
  BY <1>2 DEF Closed
<1>10. ASSUME NEW before, NEW rest \in Q, IsReader(before.reader),
              Sees(before.reader, TocEntry(path, entry) \o rest)
       PROVE  TocRead(before, path, entry, rest)
  <2>1. PICK z \in Q : z = d \o rest
    BY <1>2 DEF Closed
  <2>2. PICK y \in Q : y = c \o z
    BY <1>2 DEF Closed
  <2>3. PICK x \in Q : x = b \o y
    BY <1>2 DEF Closed
  <2>4. TocEntry(path, entry) \o rest = a \o x
    <3>1. Cat4(a, b, c, d, rest)
      BY <1>2, Assoc4
    <3> QED
      BY <1>8, <2>1, <2>2, <2>3, <3>1 DEF Cat4
  <2>5. PICK name : name = ReadString(before.reader)
    OBVIOUS
  <2>6. HasRead(name, path, x)
    <3>1. Sees(before.reader, WriteString(path, path) \o x) /\ x \in Seq(Items(V))
      BY <1>1, <1>4, <1>10, <2>4
    <3> QED
      BY <1>3, <1>10, <2>5, <3>1, AnyString
  <2>7. PICK hash : hash = ReadString(name)
    OBVIOUS
  <2>8. HasRead(hash, entry.hash, y)
    <3>1. IsReader(name) /\ Sees(name, WriteString(entry.hash, 32) \o y) /\ y \in Seq(Items(V))
      BY <1>1, <1>5, <2>3, <2>6 DEF HasRead
    <3> QED
      BY <1>3, <2>7, <3>1, AnyString
  <2>9. PICK offset : offset = ReadUInt32(hash)
    OBVIOUS
  <2>10. HasRead(offset, entry.offset, z)
    <3>1. IsReader(hash) /\ Sees(hash, WriteUInt32(entry.offset) \o z) /\ z \in Seq(Items(V))
      BY <1>1, <1>6, <2>2, <2>8 DEF HasRead
    <3> QED
      BY <1>3, <2>9, <3>1, AnyInteger
  <2>11. PICK length : length = ReadUInt32(offset)
    OBVIOUS
  <2>12. HasRead(length, entry.length, rest)
    <3>1. IsReader(offset) /\ Sees(offset, WriteUInt32(entry.length) \o rest)
          /\ rest \in Seq(Items(V))
      BY <1>1, <1>7, <2>1, <2>10 DEF HasRead
    <3> QED
      BY <1>3, <2>11, <3>1, AnyInteger
  <2>13. PICK next : next = NextToc(before)
    OBVIOUS
  <2>14. next = [reader |-> length,
                 toc |-> Append(before.toc, [name |-> name.value, hash |-> hash.value,
                             offset |-> offset.value, length |-> length.value])]
    BY <2>5, <2>7, <2>9, <2>11, <2>13 DEF NextToc
  <2>15. name.value = path /\ hash.value = entry.hash /\ offset.value = entry.offset
         /\ length.value = entry.length
    BY <2>6, <2>8, <2>10, <2>12 DEF HasRead
  <2>16. next.reader = length /\ next.toc = Append(before.toc, Listed(path, entry))
    BY <2>14, <2>15 DEF Listed
  <2>17. IsReader(length) /\ Sees(length, rest)
    BY <2>12 DEF HasRead
  <2> QED
    BY <2>13, <2>16, <2>17 DEF TocRead
<1> QED
  BY <1>1, <1>8, <1>9, <1>10

-----------------------------------------------------------------------------
(* What the loop of IndexArchiveReader has read.                           *)
TocFrom(count, n, f) ==
    f = [i \in 0..n |-> IF i = 0 THEN [reader |-> count, toc |-> <<>>] ELSE NextToc(f[i - 1])]

LEMMA ReadingToc ==
    ASSUME NEW n \in Nat, NEW count
    PROVE  \E f : TocFrom(count, n, f)
<1> DEFINE T == {m \in Nat : \E f : TocFrom(count, m, f)}
<1>1. 0 \in T
  <2>1. TocFrom(count, 0, [i \in 0..0 |-> [reader |-> count, toc |-> <<>>]])
    BY DEF TocFrom
  <2> QED
    BY <2>1
<1>2. ASSUME NEW m \in Nat, m \in T PROVE m + 1 \in T
  <2>1. PICK f : TocFrom(count, m, f)
    BY <1>2
  <2>2. PICK g : g = [i \in 0..(m + 1) |->
            IF i = 0 THEN [reader |-> count, toc |-> <<>>] ELSE NextToc(f[i - 1])]
    OBVIOUS
  <2>3. ASSUME NEW i \in 0..m PROVE g[i] = f[i]
    BY <2>1, <2>2 DEF TocFrom
  <2>4. \A i \in 1..(m + 1) : i - 1 \in 0..m
    OBVIOUS
  <2>5. \A i \in 1..(m + 1) : g[i - 1] = f[i - 1]
    BY <2>3, <2>4
  <2>6. \A i \in 0..(m + 1) : i = 0 \/ i \in 1..(m + 1)
    OBVIOUS
  <2>7. \A i \in 0..(m + 1) :
           (IF i = 0 THEN [reader |-> count, toc |-> <<>>] ELSE NextToc(f[i - 1]))
           = IF i = 0 THEN [reader |-> count, toc |-> <<>>] ELSE NextToc(g[i - 1])
    BY <2>5, <2>6
  <2>8. TocFrom(count, m + 1, g)
    BY <2>2, <2>7 DEF TocFrom
  <2> QED
    BY <2>8
<1>3. T = Nat
  <2> HIDE DEF T
  <2>1. T \in SUBSET Nat
    BY DEF T
  <2> QED
    BY <1>1, <1>2, <2>1, Induct
<1> QED
  BY <1>3

InTocs(V, n, paths, ofEntry) == \A i \in 1..n : InToc(V, paths[i], ofEntry[i])
AreTocs(n, parts, paths, ofEntry) == \A i \in 1..n : parts[i] = TocEntry(paths[i], ofEntry[i])
AreListed(n, paths, ofEntry, g) == \A i \in 1..n : g[i] = Listed(paths[i], ofEntry[i])

LEMMA ReadToc ==
    ASSUME NEW V, NEW n \in Nat, NEW paths, NEW ofEntry, InTocs(V, n, paths, ofEntry),
           NEW parts \in Seq(Seq(Items(V))), Len(parts) = n, AreTocs(n, parts, paths, ofEntry),
           NEW C, NEW g \in [1..n -> C], AreListed(n, paths, ofEntry, g),
           NEW rest \in Seq(Items(V)), NEW count, IsReader(count),
           Sees(count, FlattenSeq(parts) \o rest), NEW f, TocFrom(count, n, f)
    PROVE  FirstOf(f[n].toc, n, g, C)
<1> DEFINE P(m) == /\ IsReader(f[m].reader) /\ Sees(f[m].reader, Left(parts, m, rest))
                   /\ FirstOf(f[m].toc, m, g, C)
           T == {m \in Nat : m \in 0..n => P(m)}
<1>1. 0 \in T
  <2>1. f[0] = [reader |-> count, toc |-> <<>>]
    BY DEF TocFrom
  <2>2. Left(parts, 0, rest) = FlattenSeq(parts) \o rest
    BY LeftAll
  <2>3. FirstOf(<<>>, 0, g, C)
    BY FirstNone
  <2>4. PICK first : first = f[0]
    OBVIOUS
  <2>5. first.reader = count /\ first.toc = <<>>
    BY <2>1, <2>4
  <2>6. P(0)
    BY <2>2, <2>3, <2>4, <2>5
  <2> QED
    <3> HIDE DEF P
    <3> QED
      BY <2>6
<1>2. ASSUME NEW m \in Nat, m \in T PROVE m + 1 \in T
  <2> SUFFICES ASSUME m + 1 \in 1..n PROVE P(m + 1)
    BY <1>2
  <2>1. PICK i \in 1..n : i = m + 1 /\ i - 1 = m /\ i \in 0..n /\ i # 0
    OBVIOUS
  <2>2. m \in 0..n /\ m \in 0..Len(parts) /\ m # Len(parts)
    BY <2>1
  <2>3. P(m)
    BY <1>2, <2>2
  <2>4. Left(parts, m, rest) = parts[i] \o Left(parts, i, rest)
    BY <2>1, <2>2, LeftNext
  <2>5. PICK left \in Seq(Items(V)) : left = Left(parts, i, rest)
    <3>1. i \in 0..Len(parts)
      BY <2>1
    <3> QED
      BY <3>1, LeftType
  <2>6. PICK path : path = paths[i]
    OBVIOUS
  <2>7. PICK entry : entry = ofEntry[i]
    OBVIOUS
  <2>8. InToc(V, path, entry)
    BY <2>6, <2>7 DEF InTocs
  <2>9. parts[i] = TocEntry(path, entry)
    BY <2>6, <2>7 DEF AreTocs
  <2>10. PICK before : before = f[m]
    OBVIOUS
  <2>11. IsReader(before.reader) /\ Sees(before.reader, TocEntry(path, entry) \o left)
    BY <2>3, <2>4, <2>5, <2>9, <2>10
  <2>12. TocRead(before, path, entry, left)
    BY <2>8, <2>11, TocEntryRoundTrip
  <2>13. f[i] = NextToc(before)
    BY <2>1, <2>10 DEF TocFrom
  <2>14. PICK x \in C : x = Listed(path, entry) /\ x = g[i]
    BY <2>6, <2>7 DEF AreListed
  <2>15. /\ IsReader(f[i].reader) /\ Sees(f[i].reader, left)
         /\ f[i].toc = Append(before.toc, x)
    BY <2>12, <2>13, <2>14 DEF TocRead
  <2>16. FirstOf(Append(before.toc, x), i, g, C)
    BY <2>1, <2>3, <2>10, <2>14, FirstMore
  <2>17. P(i)
    BY <2>5, <2>15, <2>16
  <2> QED
    BY <2>1, <2>17
<1>3. T = Nat
  <2> HIDE DEF T
  <2>1. T \in SUBSET Nat
    BY DEF T
  <2> QED
    BY <1>1, <1>2, <2>1, Induct
<1> QED
  <2>1. n \in T
    <3> HIDE DEF T
    <3> QED
      BY <1>3
  <2>2. n \in 0..n
    OBVIOUS
  <2> QED
    BY <2>1, <2>2

(* A table of contents, written and read.                                  *)
LEMMA TocParted ==
    ASSUME NEW V, NEW n \in Nat, NEW paths \in Seq(Nat), Len(paths) = n, NEW ofEntry,
           InTocs(V, n, paths, ofEntry)
    PROVE  /\ TocParts(paths, ofEntry) \in Seq(Seq(Items(V)))
           /\ Len(TocParts(paths, ofEntry)) = n
           /\ AreTocs(n, TocParts(paths, ofEntry), paths, ofEntry)
<1>1. PICK parts : parts = TocParts(paths, ofEntry)
  OBVIOUS
<1>2. DOMAIN paths = 1..n
  <2>1. DOMAIN paths = 1..Len(paths)
    OBVIOUS
  <2> QED
    BY <2>1
<1>3. parts = [i \in 1..n |-> TocEntry(paths[i], ofEntry[i])]
  BY <1>1, <1>2 DEF TocParts
<1>4. \A i \in 1..n : TocEntry(paths[i], ofEntry[i]) \in Seq(Items(V))
  BY TocEntryRoundTrip DEF InTocs
<1>5. parts \in [1..n -> Seq(Items(V))]
  BY <1>3, <1>4
<1>6. parts \in Seq(Seq(Items(V))) /\ Len(parts) = n
  BY <1>5
<1> QED
  BY <1>1, <1>3, <1>6 DEF AreTocs

LEMMA SolidToc ==
    ASSUME NEW V, NEW path, NEW entry, InToc(V, path, entry)
    PROVE  Solid(TocEntry(path, entry))
<1>1. PICK Q : Q = Seq(Items(V))
  OBVIOUS
<1>2. Closed(Q)
  BY <1>1, Closes
<1>3. 32 \in Nat /\ path \in Nat /\ path \in V /\ entry.hash \in V
      /\ entry.offset \in V /\ entry.length \in V
  BY DEF InToc
<1>4. PICK a \in Q : a = WriteString(path, path)
  BY <1>1, <1>3, AnyString
<1>5. PICK b \in Q : b = WriteString(entry.hash, 32)
  BY <1>1, <1>3, AnyString
<1>6. PICK c \in Q : c = WriteUInt32(entry.offset)
  BY <1>1, <1>3, AnyInteger
<1>7. PICK d \in Q : d = WriteUInt32(entry.length)
  BY <1>1, <1>3, AnyInteger
<1>8. TocEntry(path, entry) = ((a \o b) \o c) \o d
  BY <1>4, <1>5, <1>6, <1>7 DEF TocEntry
<1>9. (a \o b) \o c \in Q
  BY <1>2 DEF Closed
<1>10. PICK front \in Q : front = (a \o b) \o c
  BY <1>9
<1>11. Solid(d)
  BY <1>3, <1>7, AnyInteger
<1>12. Solid(front \o d)
  BY <1>1, <1>11, SolidBefore
<1> QED
  BY <1>8, <1>10, <1>12

LEMMA TocType ==
    ASSUME NEW V, Values \in SUBSET V, NEW n \in Nat, NEW paths \in Seq(Nat), Len(paths) = n,
           NEW ofEntry, InTocs(V, n, paths, ofEntry)
    PROVE  /\ TocItems(paths, ofEntry) \in Seq(Items(V)) /\ Starts(TocItems(paths, ofEntry), V)
           /\ Solid(TocItems(paths, ofEntry))
           /\ TocItems(paths, ofEntry) = WriteSignature("IAR") \o (WriteUInt32(n)
                  \o FlattenSeq(TocParts(paths, ofEntry)))
<1>1. PICK Q : Q = Seq(Items(V))
  OBVIOUS
<1>2. Assoc(Q) /\ Closed(Q)
  BY <1>1, Associates, Closes
<1>3. n \in V
  BY DEF Values
<1>4. PICK a \in Q : a = WriteSignature("IAR")
  BY <1>1, AnySignature
<1>5. PICK b \in Q : b = WriteUInt32(n)
  BY <1>1, <1>3, AnyInteger
<1>6. PICK parts : parts = TocParts(paths, ofEntry)
  OBVIOUS
<1>7. parts \in Seq(Seq(Items(V))) /\ Len(parts) = n /\ AreTocs(n, parts, paths, ofEntry)
  BY <1>6, TocParted
<1>8. PICK c \in Q : c = FlattenSeq(parts)
  BY <1>1, <1>7, FlattenType
<1>9. TocItems(paths, ofEntry) = (a \o b) \o c
  BY <1>4, <1>5, <1>6, <1>8 DEF TocItems
<1>10. (a \o b) \o c = a \o (b \o c)
  <2>1. Regroup(Q, a, b)
    BY <1>2, Regroups
  <2> QED
    BY <2>1 DEF Regroup
<1>11. PICK y \in Q : y = b \o c
  BY <1>2 DEF Closed
<1>12. a \o y \in Q
  BY <1>2 DEF Closed
<1>13. PICK item \in Items(V) : a = <<item>> /\ item.kind = "data" /\ item.size # 0
  <2>1. PICK signature \in {"IDX", "IAR"} : signature = "IAR"
    OBVIOUS
  <2>2. \E item \in Items(V) : /\ WriteSignature(signature) = <<item>>
                               /\ item.kind = "data" /\ item.size # 0
    BY SignatureFirst
  <2> QED
    BY <1>4, <2>1, <2>2
<1>14. Starts(a \o y, V)
  BY <1>1, <1>13 DEF Starts
<1>15. Solid(a \o b)
  <2>1. Solid(b)
    BY <1>3, <1>5, AnyInteger
  <2> QED
    BY <1>1, <2>1, SolidBefore
<1>16. Ended(c)
  <2>1. ASSUME NEW i \in 1..n PROVE Solid(parts[i])
    <3>1. InToc(V, paths[i], ofEntry[i])
      BY DEF InTocs
    <3>2. Solid(TocEntry(paths[i], ofEntry[i]))
      BY <3>1, SolidToc
    <3> QED
      BY <1>7, <3>2 DEF AreTocs
  <2>2. Ended(FlattenSeq(parts))
    BY <1>7, <2>1, EndedFlat
  <2> QED
    BY <1>8, <2>2
<1>17. Solid((a \o b) \o c)
  <2>1. PICK ab \in Q : ab = a \o b
    BY <1>2 DEF Closed
  <2> QED
    BY <1>1, <1>15, <1>16, <2>1, SolidAfter
<1> QED
  BY <1>1, <1>4, <1>5, <1>6, <1>8, <1>9, <1>10, <1>11, <1>12, <1>14, <1>17

LEMMA TocRoundTrip ==
    ASSUME NEW V, Values \in SUBSET V, NEW n \in Nat, NEW paths \in Seq(Nat), Len(paths) = n,
           NEW ofEntry, InTocs(V, n, paths, ofEntry),
           NEW C, NEW g \in [1..n -> C], AreListed(n, paths, ofEntry, g),
           NEW file, IsReader(UnmappedReader(file)),
           Sees(UnmappedReader(file), TocItems(paths, ofEntry))
    PROVE  FirstOf(ReadArchive(file), n, g, C)
<1>1. PICK Q : Q = Seq(Items(V))
  OBVIOUS
<1>2. Assoc(Q) /\ Closed(Q)
  BY <1>1, Associates, Closes
<1>3. n \in V
  BY DEF Values
<1>4. PICK parts : parts = TocParts(paths, ofEntry)
  OBVIOUS
<1>5. parts \in Seq(Seq(Items(V))) /\ Len(parts) = n /\ AreTocs(n, parts, paths, ofEntry)
  BY <1>4, TocParted
<1>6. PICK none \in Seq(Items(V)) : none = <<>>
  <2>1. <<>> \in Seq(Items(V))
    OBVIOUS
  <2> QED
    BY <2>1
<1>7. PICK c \in Q : c = FlattenSeq(parts)
  BY <1>1, <1>5, FlattenType
<1>8. c \o none = c
  BY <1>1, <1>6, ConcatEmptySeq
<1>9. PICK b \in Q : b = WriteUInt32(n)
  BY <1>1, <1>3, AnyInteger
<1>10. PICK y \in Q : y = b \o c
  BY <1>2 DEF Closed
<1>11. PICK r : r = UnmappedReader(file)
  OBVIOUS
<1>12. IsReader(r) /\ Sees(r, WriteSignature("IAR") \o y)
  BY <1>4, <1>7, <1>9, <1>10, <1>11, TocType
<1>13. PICK s : s = ReadSignature(r)
  OBVIOUS
<1>14. IsReader(s) /\ Sees(s, y)
  <2>1. HasRead(s, "IAR", y)
    BY <1>1, <1>12, <1>13, AnySignature
  <2> QED
    BY <2>1 DEF HasRead
<1>15. PICK count : count = ReadUInt32(s)
  OBVIOUS
<1>16. IsReader(count) /\ count.value = n /\ Sees(count, c)
  <2>1. Sees(s, WriteUInt32(n) \o c) /\ c \in Seq(Items(V))
    BY <1>1, <1>9, <1>10, <1>14
  <2>2. HasRead(count, n, c)
    BY <1>3, <1>14, <1>15, <2>1, AnyInteger
  <2> QED
    BY <2>2 DEF HasRead
<1> DEFINE F == CHOOSE f : TocFrom(count, n, f)
<1>17. TocFrom(count, n, F)
  BY ReadingToc
<1>18. ReadArchive(file) = F[n].toc
  BY <1>11, <1>13, <1>15, <1>16 DEF ReadArchive, TocFrom, NextToc
<1>19. FirstOf(F[n].toc, n, g, C)
  <2> HIDE DEF F
  <2>1. Sees(count, FlattenSeq(parts) \o none)
    BY <1>7, <1>8, <1>16
  <2> QED
    BY <1>5, <1>16, <1>17, <2>1, ReadToc
<1> QED
  BY <1>18, <1>19

-----------------------------------------------------------------------------
(* The table of contents has its room, whatever it says.                   *)
LEMMA AlikeTocEntry ==
    ASSUME NEW V, NEW path, NEW x, InToc(V, path, x), NEW y, InToc(V, path, y)
    PROVE  Alike(TocEntry(path, x), TocEntry(path, y))
<1>1. PICK Q : Q = Seq(Items(V))
  OBVIOUS
<1>2. Closed(Q)
  BY <1>1, Closes
<1>3. /\ path \in Nat /\ path \in V /\ 32 \in Nat /\ 4 \in Nat
      /\ x.hash \in V /\ x.offset \in V /\ x.length \in V
      /\ y.hash \in V /\ y.offset \in V /\ y.length \in V
      /\ "string" \in Kinds /\ "uint32" \in Kinds
  BY DEF InToc, Kinds
<1>4. PICK a \in Q : a = WriteString(path, path)
  BY <1>1, <1>3, AnyString
<1>5. PICK b \in Q : b = WriteString(x.hash, 32)
  BY <1>1, <1>3, AnyString
<1>6. PICK c \in Q : c = WriteUInt32(x.offset)
  BY <1>1, <1>3, AnyInteger
<1>7. PICK d \in Q : d = WriteUInt32(x.length)
  BY <1>1, <1>3, AnyInteger
<1>8. PICK f \in Q : f = WriteString(y.hash, 32)
  BY <1>1, <1>3, AnyString
<1>9. PICK g \in Q : g = WriteUInt32(y.offset)
  BY <1>1, <1>3, AnyInteger
<1>10. PICK h \in Q : h = WriteUInt32(y.length)
  BY <1>1, <1>3, AnyInteger
<1>11. Alike(b, f)
  <2>1. Alike(Item("string", 32, x.hash), Item("string", 32, y.hash))
    BY <1>3, AlikeItems
  <2> QED
    BY <1>5, <1>8, <2>1 DEF WriteString
<1>12. Alike(c, g)
  <2>1. Alike(Item("uint32", 4, x.offset), Item("uint32", 4, y.offset))
    BY <1>3, AlikeItems
  <2> QED
    BY <1>6, <1>9, <2>1 DEF WriteUInt32
<1>13. Alike(d, h)
  <2>1. Alike(Item("uint32", 4, x.length), Item("uint32", 4, y.length))
    BY <1>3, AlikeItems
  <2> QED
    BY <1>7, <1>10, <2>1 DEF WriteUInt32
<1>14. PICK ab \in Q : ab = a \o b
  BY <1>2 DEF Closed
<1>15. PICK af \in Q : af = a \o f
  BY <1>2 DEF Closed
<1>16. Alike(ab, af)
  <2>1. Alike(a, a)
    BY AlikeSelf
  <2> QED
    BY <1>1, <1>11, <1>14, <1>15, <2>1, AlikeConcat
<1>17. PICK abc \in Q : abc = ab \o c
  BY <1>2 DEF Closed
<1>18. PICK afg \in Q : afg = af \o g
  BY <1>2 DEF Closed
<1>19. Alike(abc, afg)
  BY <1>1, <1>12, <1>16, <1>17, <1>18, AlikeConcat
<1>20. Alike(abc \o d, afg \o h)
  BY <1>1, <1>13, <1>19, AlikeConcat
<1>21. TocEntry(path, x) = abc \o d
  BY <1>4, <1>5, <1>6, <1>7, <1>14, <1>17 DEF TocEntry
<1>22. TocEntry(path, y) = afg \o h
  BY <1>4, <1>8, <1>9, <1>10, <1>15, <1>18 DEF TocEntry
<1> QED
  BY <1>20, <1>21, <1>22

LEMMA AlikeToc ==
    ASSUME NEW V, Values \in SUBSET V, NEW n \in Nat, NEW paths \in Seq(Nat), Len(paths) = n,
           NEW x, InTocs(V, n, paths, x), NEW y, InTocs(V, n, paths, y)
    PROVE  Alike(TocItems(paths, x), TocItems(paths, y))
<1>1. PICK Q : Q = Seq(Items(V))
  OBVIOUS
<1>2. Closed(Q)
  BY <1>1, Closes
<1>3. PICK p : p = TocParts(paths, x)
  OBVIOUS
<1>4. PICK q : q = TocParts(paths, y)
  OBVIOUS
<1>5. p \in Seq(Seq(Items(V))) /\ Len(p) = n /\ AreTocs(n, p, paths, x)
  BY <1>3, TocParted
<1>6. q \in Seq(Seq(Items(V))) /\ Len(q) = n /\ AreTocs(n, q, paths, y)
  BY <1>4, TocParted
<1>7. ASSUME NEW i \in 1..n PROVE Alike(p[i], q[i])
  <2>1. InToc(V, paths[i], x[i]) /\ InToc(V, paths[i], y[i])
    BY DEF InTocs
  <2>2. Alike(TocEntry(paths[i], x[i]), TocEntry(paths[i], y[i]))
    BY <2>1, AlikeTocEntry
  <2> QED
    BY <1>5, <1>6, <2>2 DEF AreTocs
<1>8. Alike(FlattenSeq(p), FlattenSeq(q))
  BY <1>5, <1>6, <1>7, AlikeFlat
<1>9. PICK b \in Q : b = WriteSignature("IAR") \o WriteUInt32(Len(paths))
  <2>1. n \in V
    BY DEF Values
  <2>2. WriteSignature("IAR") \in Q /\ WriteUInt32(n) \in Q
    BY <1>1, <2>1, AnySignature, AnyInteger
  <2> QED
    BY <1>2, <2>2 DEF Closed
<1>10. PICK c \in Q : c = FlattenSeq(p)
  BY <1>1, <1>5, FlattenType
<1>11. PICK d \in Q : d = FlattenSeq(q)
  BY <1>1, <1>6, FlattenType
<1>12. Alike(b \o c, b \o d)
  <2>1. Alike(b, b)
    BY AlikeSelf
  <2> QED
    BY <1>1, <1>8, <1>10, <1>11, <2>1, AlikeConcat
<1> QED
  BY <1>3, <1>4, <1>9, <1>10, <1>11, <1>12 DEF TocItems

(* The entries of an archive, one after the other.                         *)
ZeroEntry == [hash |-> "zeroHash", offset |-> 0, length |-> 0]

EntriesFrom(from, paths, indices, f) ==
    f = [n \in 0 .. Len(paths) |->
            IF n = 0 THEN <<>>
            ELSE LET before == f[n - 1]
                 IN Append(before, Entry(IF n = 1 THEN from ELSE End(Last(before).cells),
                                         indices[paths[n]]))]

SortedPaths(indices) == SortedUp(SetToSeq(DOMAIN indices))
Room(paths) == End(Place(0, TocItems(paths, [i \in DOMAIN paths |-> ZeroEntry])))
TheEntries(paths, indices) ==
    (CHOOSE f : EntriesFrom(Room(paths), paths, indices, f))[Len(paths)]

ArchiveWith(paths, all) ==
    Place(0, TocItems(paths, all)) \o FlattenSeq([i \in DOMAIN all |-> all[i].cells])

LEMMA ArchiveParts ==
    ASSUME NEW indices
    PROVE  WriteArchive(indices) =
              ArchiveWith(SortedPaths(indices), TheEntries(SortedPaths(indices), indices))
BY Zenon DEF WriteArchive, ArchiveWith, SortedPaths, SortedUp, TheEntries, Room, EntriesFrom,
             TocItems, TocParts, TocEntry, ZeroEntry

Chained(n, paths, indices, from, E, all) ==
    /\ E \in [0..n -> Nat] /\ E[0] = from
    /\ all = [i \in 1..n |-> Entry(E[i - 1], indices[paths[i]])]
    /\ \A i \in 1..n : E[i] = End(all[i].cells)

EntryFacts(entry, p, last, ix) ==
    \E m \in Nat : \E items, e :
        items = Compressed(ix) /\ IsEntry(entry, p, last, ix, items, m, e)

LEMMA EntryEnds ==
    ASSUME NEW ix \in Indices, NEW p \in Nat
    PROVE  /\ End(Entry(p, ix).cells) \in Nat
           /\ EntryFacts(Entry(p, ix), p, End(Entry(p, ix).cells), ix)
<1>1. PICK items : items = Compressed(ix)
  OBVIOUS
<1>2. PICK m \in Nat, last \in Nat : \E e : IsEntry(Entry(p, ix), p, last, ix, items, m, e)
  BY <1>1, Entries
<1>3. PICK e : IsEntry(Entry(p, ix), p, last, ix, items, m, e)
  BY <1>2
<1>4. PICK entry : entry = Entry(p, ix)
  OBVIOUS
<1>5. End(entry.cells) = last
  BY <1>3, <1>4 DEF IsEntry, Laid, Spans
<1> QED
  BY <1>1, <1>3, <1>4, <1>5 DEF EntryFacts

LEMMA Chains ==
    ASSUME NEW D, NEW indices \in [D -> Indices], NEW n \in Nat, NEW paths \in [1..n -> D],
           NEW from \in Nat
    PROVE  \E E, all : Chained(n, paths, indices, from, E, all)
<1>1. PICK G : G = [i \in 1..n |-> [p \in Nat |-> End(Entry(p, indices[paths[i]]).cells)]]
  OBVIOUS
<1>2. G \in [1..n -> [Nat -> Nat]]
  <2>1. ASSUME NEW i \in 1..n, NEW p \in Nat
        PROVE  End(Entry(p, indices[paths[i]]).cells) \in Nat
    <3>1. indices[paths[i]] \in Indices
      OBVIOUS
    <3> QED
      BY <3>1, EntryEnds
  <2> QED
    BY <1>1, <2>1
<1>3. Counts(n, Nat, from, G)
  BY <1>2, Counting
<1>4. PICK E \in [0..n -> Nat] : E[0] = from /\ \A i \in 1..n : E[i] = G[i][E[i - 1]]
  BY <1>3 DEF Counts
<1>5. PICK all : all = [i \in 1..n |-> Entry(E[i - 1], indices[paths[i]])]
  OBVIOUS
<1>6. ASSUME NEW i \in 1..n PROVE E[i] = End(all[i].cells)
  <2>1. i - 1 \in 0..n
    OBVIOUS
  <2>2. PICK p \in Nat : p = E[i - 1]
    BY <1>4, <2>1
  <2>3. E[i] = End(Entry(p, indices[paths[i]]).cells)
    BY <1>1, <1>4, <2>2
  <2>4. all[i] = Entry(p, indices[paths[i]])
    BY <1>5, <2>2
  <2> QED
    BY <2>3, <2>4
<1>7. Chained(n, paths, indices, from, E, all)
  BY <1>4, <1>5, <1>6 DEF Chained
<1> QED
  BY <1>7

LEMMA FirstPart ==
    ASSUME NEW C, NEW n \in Nat, NEW all \in [1..n -> C], NEW m \in 1..n, NEW h, h = m - 1
    PROVE  Append([i \in 1..h |-> all[i]], all[m]) = [i \in 1..m |-> all[i]]
<1>1. PICK s : s = [i \in 1..h |-> all[i]]
  OBVIOUS
<1>2. h \in Nat /\ m = h + 1
  OBVIOUS
<1>3. s \in [1..h -> C]
  <2>1. \A i \in 1..h : all[i] \in C
    BY <1>2
  <2> QED
    BY <1>1, <2>1
<1>4. s \in Seq(C) /\ Len(s) = h
  BY <1>2, <1>3
<1>5. PICK x \in C : x = all[m]
  OBVIOUS
<1>6. PICK t : t = Append(s, x)
  OBVIOUS
<1>7. t \in Seq(C) /\ Len(t) = m
  BY <1>2, <1>4, <1>6
<1>8. t[m] = x /\ \A i \in 1..h : t[i] = s[i]
  BY <1>2, <1>4, <1>6
<1>9. t = [i \in 1..m |-> t[i]]
  BY <1>7
<1>10. \A i \in 1..m : t[i] = all[i]
  <2>1. \A i \in 1..m : i = m \/ i \in 1..h
    BY <1>2
  <2> QED
    BY <1>1, <1>5, <1>8, <2>1
<1> QED
  BY <1>1, <1>5, <1>6, <1>9, <1>10

(* The loop of IndexArchiveBuilder::write.                                 *)
LEMMA EntriesAre ==
    ASSUME NEW n \in Nat, NEW paths, Len(paths) = n, NEW indices, NEW from, NEW E, NEW all,
           Chained(n, paths, indices, from, E, all)
    PROVE  /\ \E f : EntriesFrom(from, paths, indices, f)
           /\ \A f : EntriesFrom(from, paths, indices, f) => f[n] = all
<1>1. PICK C : C = {all[i] : i \in 1..n}
  OBVIOUS
<1>2. /\ all \in [1..n -> C] /\ E[0] = from /\ \A i \in 1..n : E[i] = End(all[i].cells)
      /\ \A i \in 1..n : all[i] = Entry(E[i - 1], indices[paths[i]])
      /\ all = [i \in 1..n |-> all[i]]
  BY <1>1 DEF Chained
<1>3. PICK g : g = [m \in 0..n |-> [i \in 1..m |-> all[i]]]
  OBVIOUS
<1> DEFINE Grown(before, m) ==
              Append(before, Entry(IF m = 1 THEN from ELSE End(Last(before).cells),
                                   indices[paths[m]]))
<1>4. ASSUME NEW m \in 1..n PROVE Grown(g[m - 1], m) = g[m]
  <2>1. PICK h \in 0..n : h = m - 1
    OBVIOUS
  <2>2. PICK before : before = g[h]
    OBVIOUS
  <2>3. before = [i \in 1..h |-> all[i]]
    BY <1>3, <2>2
  <2>4. before \in Seq(C) /\ Len(before) = h
    <3>1. \A i \in 1..h : all[i] \in C
      BY <1>2, <2>1
    <3>2. before \in [1..h -> C] /\ h \in Nat
      BY <2>1, <2>3, <3>1
    <3> QED
      BY <3>2
  <2>5. (IF m = 1 THEN from ELSE End(Last(before).cells)) = E[h]
    <3>1. CASE m = 1
      BY <1>2, <2>1, <3>1
    <3>2. CASE m # 1
      <4>1. h \in 1..n /\ h \in 1..h
        BY <2>1, <3>2
      <4>2. Last(before) = all[h]
        BY <2>3, <2>4, <4>1 DEF Last
      <4> QED
        BY <1>2, <3>2, <4>1, <4>2
    <3> QED
      BY <3>1, <3>2
  <2>6. all[m] = Entry(E[h], indices[paths[m]])
    BY <1>2, <2>1
  <2>7. Grown(before, m) = Append(before, all[m])
    BY <2>5, <2>6
  <2>8. Append(before, all[m]) = [i \in 1..m |-> all[i]]
    BY <1>2, <2>1, <2>3, FirstPart
  <2>9. m \in 0..n
    OBVIOUS
  <2>10. g[m] = [i \in 1..m |-> all[i]]
    BY <1>3, <2>9
  <2> QED
    BY <2>1, <2>2, <2>7, <2>8, <2>10
<1>5. g[0] = <<>>
  <2>1. g[0] = [i \in 1..0 |-> all[i]]
    BY <1>3
  <2> QED
    BY <2>1
<1>6. ASSUME NEW f
      PROVE  EntriesFrom(from, paths, indices, f)
             <=> f = [m \in 0..n |-> IF m = 0 THEN <<>> ELSE Grown(f[m - 1], m)]
  BY DEF EntriesFrom
<1> HIDE DEF Grown
<1>7. EntriesFrom(from, paths, indices, g)
  <2>1. \A m \in 0..n : (IF m = 0 THEN <<>> ELSE Grown(g[m - 1], m)) = g[m]
    BY <1>4, <1>5
  <2>2. g = [m \in 0..n |-> g[m]]
    BY <1>3
  <2>3. g = [m \in 0..n |-> IF m = 0 THEN <<>> ELSE Grown(g[m - 1], m)]
    BY <2>1, <2>2
  <2> QED
    BY <1>6, <2>3
<1>8. ASSUME NEW f, EntriesFrom(from, paths, indices, f) PROVE f[n] = all
  <2>1. f = [m \in 0..n |-> IF m = 0 THEN <<>> ELSE Grown(f[m - 1], m)]
    BY <1>6, <1>8
  <2> DEFINE T == {m \in Nat : m \in 0..n => f[m] = g[m]}
  <2>2. 0 \in T
    BY <1>5, <2>1
  <2>3. ASSUME NEW m \in Nat, m \in T PROVE m + 1 \in T
    <3> SUFFICES ASSUME m + 1 \in 0..n PROVE f[m + 1] = g[m + 1]
      OBVIOUS
    <3>1. PICK i \in 1..n : i = m + 1 /\ i - 1 = m /\ i \in 0..n /\ i # 0 /\ m \in 0..n
      OBVIOUS
    <3>2. f[i] = Grown(f[m], i)
      BY <2>1, <3>1
    <3>3. f[m] = g[m]
      BY <2>3, <3>1
    <3>4. Grown(g[m], i) = g[i]
      BY <1>4, <3>1
    <3> QED
      BY <3>1, <3>2, <3>3, <3>4
  <2>4. T = Nat
    <3> HIDE DEF T
    <3>1. T \in SUBSET Nat
      BY DEF T
    <3> QED
      BY <2>2, <2>3, <3>1, Induct
  <2>5. f[n] = g[n]
    <3>1. n \in T
      <4> HIDE DEF T
      <4> QED
        BY <2>4
    <3>2. n \in 0..n
      OBVIOUS
    <3> QED
      BY <3>1, <3>2
  <2>6. g[n] = [i \in 1..n |-> all[i]]
    BY <1>3
  <2> QED
    BY <1>2, <2>5, <2>6
<1> QED
  BY <1>7, <1>8

-----------------------------------------------------------------------------
(* Opening an entry that has been found.                                   *)
LEMMA OpenFound ==
    ASSUME NEW ix \in Indices, NEW entry, NEW p, NEW last, NEW items, items = Compressed(ix),
           NEW m \in Nat, NEW e, IsEntry(entry, p, last, ix, items, m, e),
           NEW file, Found(file, entry.offset, entry.cells)
    PROVE  ReadIndex(MappedReader(file, entry.offset, entry.length)) = Frozen(ix)
<1>1. PICK compressed : compressed = TRUE
  OBVIOUS
<1>2. items = WriteIndex(ix, compressed)
  BY <1>1, Zenon DEF Compressed
<1>3. items \in Seq(Items(Values))
  BY <1>2, IndexRoundTrip
<1>4. /\ entry.offset = 8 * m /\ entry.length \in Nat /\ 8 * m + entry.length = last
      /\ Ends(e, 8 * m, items) /\ last = e[Len(items)] /\ last \in Nat
      /\ Laid(entry.cells, items, Values, m, e)
  BY DEF IsEntry
<1>5. PICK length \in Nat : length = entry.length
  BY <1>4
<1>6. PICK cells : cells = entry.cells
  OBVIOUS
<1>7. Len(cells) = Len(items) /\ AreAt(cells, items, e)
  BY <1>4, <1>6 DEF Laid
<1>8. PICK j \in Nat : /\ (CHOOSE i \in DOMAIN file : file[i].at = 8 * m) = j + 1
                       /\ \A i \in 1..Len(cells) : file[j + i] = cells[i]
  <2>1. PICK o : o = 8 * m
    OBVIOUS
  <2>2. Found(file, o, cells)
    BY <1>4, <1>6, <2>1
  <2>3. PICK j \in Nat : /\ (CHOOSE i \in DOMAIN file : file[i].at = o) = j + 1
                         /\ \A i \in 1..Len(cells) : file[j + i] = cells[i]
    BY <2>2 DEF Found
  <2> QED
    BY <2>1, <2>3
<1>9. \A i \in 1..Len(items), k \in Nat : k = j + i =>
         file[k] = Cell(items[i], OffsetOf(items[i].kind, e[i - 1]))
  <2>1. \A i \in 1..Len(items) :
           file[j + i] = Cell(items[i], OffsetOf(items[i].kind, e[i - 1]))
    BY <1>7, <1>8 DEF AreAt
  <2> QED
    BY <2>1
<1>10. PICK r : r = MappedReader(file, 8 * m, length)
  OBVIOUS
<1>11. r = [file |-> file, base |-> 8 * m, size |-> length, pos |-> 0, value |-> "nothing",
            next |-> j + 1]
  BY <1>8, <1>10, Zenon DEF MappedReader
<1>12. 8 * m + length >= e[Len(items)]
  BY <1>4, <1>5
<1>13. IsReader(r) /\ Sees(r, items)
  BY <1>3, <1>4, <1>9, <1>11, <1>12, Seeing, ZenonT(60)
<1>14. ReadIndex(r) = Frozen(ix)
  BY <1>2, <1>13, IndexRoundTrip
<1> QED
  BY <1>4, <1>5, <1>10, <1>14

(* The paths of an archive.                                                *)
LEMMA PathsSorted ==
    ASSUME NEW D \in SUBSET Nat, IsFiniteSet(D), NEW indices, DOMAIN indices = D,
           NEW paths, paths = SortedPaths(indices)
    PROVE  paths \in Seq(Nat) /\ {paths[i] : i \in 1..Len(paths)} = D
<1>1. PICK seq : seq = SetToSeq(D)
  OBVIOUS
<1>2. PICK n \in Nat : n = Cardinality(D)
  BY FS_CardinalityType
<1>3. /\ seq \in [1..n -> D] /\ \A i, j \in 1..n : seq[i] = seq[j] => i = j
      /\ \A x \in D : \E i \in 1..n : seq[i] = x
  BY <1>1, <1>2, Enumeration DEF Enumerates
<1>4. seq \in [1..n -> Nat]
  BY <1>3
<1>5. seq \in Seq(Nat) /\ Len(seq) = n
  BY <1>4
<1>6. OneToOne(Len(seq), seq)
  BY <1>3, <1>5 DEF OneToOne
<1>7. paths = SortedUp(seq)
  BY <1>1 DEF SortedPaths
<1>8. paths \in Seq(Nat) /\ Held(paths) = Held(seq)
  BY <1>5, <1>6, <1>7, SortedNumbers
<1>9. {seq[i] : i \in 1..n} = D
  <2>1. \A x \in {seq[i] : i \in 1..n} : x \in D
    BY <1>3
  <2>2. \A x \in D : x \in {seq[i] : i \in 1..n}
    BY <1>3
  <2> QED
    BY <2>1, <2>2
<1> QED
  BY <1>5, <1>8, <1>9 DEF Held

(* An entry in its place.                                                  *)
LEMMA EntryBlock ==
    ASSUME NEW ix \in Indices, NEW p \in Nat, NEW entry, NEW last, EntryFacts(entry, p, last, ix),
           NEW V, Values \in SUBSET V, HashOf(ix) \in V, NEW path \in Nat
    PROVE  /\ Block(entry.cells, p, entry.offset, last) /\ entry.offset \in Nat
           /\ entry.cells \in Seq(Cells(V)) /\ InToc(V, path, entry)
<1>1. PICK m \in Nat : \E items, e : items = Compressed(ix)
                                     /\ IsEntry(entry, p, last, ix, items, m, e)
  BY DEF EntryFacts
<1>2. PICK items, e : items = Compressed(ix) /\ IsEntry(entry, p, last, ix, items, m, e)
  BY <1>1
<1>3. /\ entry.hash = HashOf(ix) /\ entry.offset = 8 * m /\ p <= 8 * m
      /\ entry.length \in Nat /\ last = e[Len(items)] /\ last \in Nat
      /\ Laid(entry.cells, items, Values, m, e)
  BY <1>2 DEF IsEntry
<1>4. PICK cells : cells = entry.cells
  OBVIOUS
<1>5. PICK n \in Nat \ {0} : n = Len(items)
  BY <1>3 DEF Laid
<1>6. PICK compressed : compressed = TRUE
  OBVIOUS
<1>7. Solid(items)
  <2>1. items = WriteIndex(ix, compressed)
    BY <1>2, <1>6, Zenon DEF Compressed
  <2> QED
    BY <1>6, <2>1, IndexRoundTrip
<1>8. /\ cells \in Seq(Cells(Values)) /\ Len(cells) = n /\ Spans(cells, n, 8 * m, last)
      /\ \A i \in 1..n : cells[i].at < last
  BY <1>3, <1>4, <1>5, <1>7 DEF Laid
<1>9. /\ cells[1].at = 8 * m /\ 8 * m < last /\ \A i \in 2..n : cells[i].at > 8 * m
      /\ End(cells) = last
  BY <1>8 DEF Spans
<1>10. Block(cells, p, 8 * m, last)
  BY <1>3, <1>5, <1>8, <1>9 DEF Block
<1>11. cells \in Seq(Cells(V))
  <2>1. Cells(Values) \in SUBSET Cells(V)
    BY DEF Cells
  <2> QED
    BY <1>8, <2>1
<1>12. 8 * m \in Nat /\ Nat \in SUBSET V
  BY DEF Values
<1>13. InToc(V, path, entry)
  BY <1>3, <1>12 DEF InToc
<1> QED
  BY <1>3, <1>4, <1>10, <1>11, <1>12, <1>13

(* These items, from 0 on, end there.                                      *)
Fits(end, items) == \E d : Ends(d, 0, items) /\ d[Len(items)] = end

(* The cells of an archive: its table of contents, and its entries.        *)
Placed(V, D, indices, n, paths, from, E, all, top) ==
    /\ V = Values \cup {HashOf(indices[p]) : p \in D}
    /\ n \in Nat /\ paths \in Seq(Nat) /\ Len(paths) = n /\ {paths[i] : i \in 1..n} = D
    /\ from \in Nat
    /\ Chained(n, paths, indices, from, E, all)
    /\ InTocs(V, n, paths, all)
    /\ top = Place(0, TocItems(paths, all))
    /\ Fits(from, TocItems(paths, all))
    /\ top \in Seq(Cells(V)) /\ Block(top, 0, 0, from)

CellParts(all) == [i \in DOMAIN all |-> all[i].cells]
Offsets(all) == [i \in DOMAIN all |-> all[i].offset]

LEMMA BlockBefore ==
    ASSUME NEW top, NEW a, NEW f, NEW b, Block(top, a, f, b), Len(top) \in Nat
    PROVE  Before(top, top, b)
BY DEF Block, Before, Begins

LEMMA TocPlaced ==
    ASSUME NEW V, Values \in SUBSET V, NEW n \in Nat, NEW paths \in Seq(Nat), Len(paths) = n,
           NEW x, InTocs(V, n, paths, x), NEW y, InTocs(V, n, paths, y),
           NEW from, from = End(Place(0, TocItems(paths, x))),
           NEW top, top = Place(0, TocItems(paths, y))
    PROVE  /\ from \in Nat /\ top \in Seq(Cells(V)) /\ Block(top, 0, 0, from)
           /\ Fits(from, TocItems(paths, y))
<1>1. PICK m \in Nat : m = 0 /\ 8 * m = 0 /\ 8 * m \in Nat
  OBVIOUS
<1>2. PICK a : a = TocItems(paths, x)
  OBVIOUS
<1>3. PICK b : b = TocItems(paths, y)
  OBVIOUS
<1>4. a \in Seq(Items(V)) /\ Starts(a, V)
  BY <1>2, TocType
<1>5. b \in Seq(Items(V)) /\ Starts(b, V) /\ Solid(b)
  BY <1>3, TocType
<1>6. Alike(a, b)
  BY <1>2, <1>3, AlikeToc
<1>7. PICK d : Ends(d, 8 * m, a)
  BY <1>1, <1>4, Ending
<1>8. Ends(d, 8 * m, b)
  BY <1>6, <1>7, AlikeEnds
<1>9. PICK old : old = Place(8 * m, a)
  OBVIOUS
<1>10. Laid(old, a, V, m, d)
  BY <1>4, <1>7, <1>9, Segment
<1>11. top = Place(8 * m, b)
  BY <1>1, <1>3
<1>12. Laid(top, b, V, m, d)
  BY <1>5, <1>8, <1>11, Segment
<1>13. PICK k \in Nat \ {0} : k = Len(a) /\ k = Len(b)
  BY <1>6, <1>10 DEF Laid, Alike
<1>14. from = d[k] /\ d[k] \in Nat
  <2>1. End(old) = d[k]
    BY <1>10, <1>13 DEF Laid, Spans
  <2>2. k \in 0..k
    OBVIOUS
  <2>3. d[k] \in Nat
    BY <1>7, <1>13, <2>2 DEF Ends
  <2> QED
    BY <1>1, <1>2, <1>9, <2>1, <2>3
<1>15. /\ top \in Seq(Cells(V)) /\ Len(top) = k /\ Spans(top, k, 8 * m, d[k])
       /\ \A i \in 1..k : top[i].at < d[k]
  BY <1>5, <1>12, <1>13 DEF Laid
<1>16. Block(top, 0, 0, from)
  <2>1. /\ top[1].at = 0 /\ 0 < from /\ \A i \in 2..k : top[i].at > 0
        /\ End(top) = from
    BY <1>1, <1>14, <1>15 DEF Spans
  <2> QED
    BY <1>14, <1>15, <2>1 DEF Block
<1> QED
  BY <1>1, <1>3, <1>8, <1>13, <1>14, <1>15, <1>16 DEF Fits

LEMMA Placement ==
    ASSUME NEW D \in SUBSET Nat, IsFiniteSet(D), NEW indices \in [D -> Indices]
    PROVE  \E V, n, paths, from, E, all, top :
              /\ Placed(V, D, indices, n, paths, from, E, all, top)
              /\ WriteArchive(indices) = top \o FlattenSeq(CellParts(all))
<1>1. PICK V : V = Values \cup {HashOf(indices[p]) : p \in D}
  OBVIOUS
<1>2. Values \in SUBSET V /\ Nat \in SUBSET V
  BY <1>1 DEF Values
<1>3. PICK paths : paths = SortedPaths(indices)
  OBVIOUS
<1>4. DOMAIN indices = D
  OBVIOUS
<1>5. paths \in Seq(Nat) /\ {paths[i] : i \in 1..Len(paths)} = D
  BY <1>3, <1>4, PathsSorted
<1>6. PICK n \in Nat : n = Len(paths)
  BY <1>5
<1>7. paths \in [1..n -> Nat] /\ DOMAIN paths = 1..n
  BY <1>5, <1>6
<1>8. paths \in [1..n -> D]
  <2>1. \A i \in 1..n : paths[i] \in D
    BY <1>5, <1>6
  <2> QED
    BY <1>7, <2>1
<1>9. PICK zeros : zeros = [i \in DOMAIN paths |-> ZeroEntry]
  OBVIOUS
<1>10. InTocs(V, n, paths, zeros)
  <2>1. "zeroHash" \in V
    <3>1. "zeroHash" \in Words
      BY DEF Words
    <3>2. "zeroHash" \in Values
      BY <3>1, Zenon DEF Values
    <3> QED
      BY <1>2, <3>2
  <2>2. ASSUME NEW i \in 1..n PROVE InToc(V, paths[i], zeros[i])
    <3>1. zeros[i] = ZeroEntry
      BY <1>7, <1>9
    <3>2. ZeroEntry.hash = "zeroHash" /\ ZeroEntry.offset = 0 /\ ZeroEntry.length = 0
      BY DEF ZeroEntry
    <3>3. 0 \in V /\ paths[i] \in Nat /\ paths[i] \in V
      BY <1>2, <1>7
    <3> QED
      BY <2>1, <3>1, <3>2, <3>3 DEF InToc
  <2> QED
    BY <2>2 DEF InTocs
<1>11. PICK from : from = End(Place(0, TocItems(paths, zeros)))
  OBVIOUS
<1>12. from \in Nat
  BY <1>2, <1>5, <1>6, <1>10, <1>11, TocPlaced
<1>13. PICK E, all : Chained(n, paths, indices, from, E, all)
  BY <1>8, <1>12, Chains
<1>14. TheEntries(paths, indices) = all
  <2>1. from = Room(paths)
    BY <1>9, <1>11 DEF Room
  <2>2. PICK F : F = CHOOSE f : EntriesFrom(Room(paths), paths, indices, f)
    OBVIOUS
  <2>3. (\E f : EntriesFrom(from, paths, indices, f))
        /\ \A f : EntriesFrom(from, paths, indices, f) => f[n] = all
    BY <1>6, <1>13, EntriesAre
  <2>4. EntriesFrom(Room(paths), paths, indices, F)
    <3>1. \E f : EntriesFrom(Room(paths), paths, indices, f)
      BY <2>1, <2>3
    <3> QED
      BY <2>2, <3>1, Zenon
  <2>5. F[n] = all
    BY <2>1, <2>3, <2>4
  <2> QED
    BY <1>6, <2>2, <2>5 DEF TheEntries
<1>15. InTocs(V, n, paths, all)
  <2>1. ASSUME NEW i \in 1..n PROVE InToc(V, paths[i], all[i])
    <3>1. PICK p \in Nat : p = E[i - 1]
      <4>1. i - 1 \in 0..n
        OBVIOUS
      <4> QED
        BY <1>13, <4>1 DEF Chained
    <3>2. PICK ix \in Indices : ix = indices[paths[i]]
      BY <1>8
    <3>3. all[i] = Entry(p, ix)
      BY <1>13, <3>1, <3>2 DEF Chained
    <3>4. EntryFacts(all[i], p, End(all[i].cells), ix)
      BY <3>3, EntryEnds
    <3>5. HashOf(ix) \in V
      BY <1>1, <1>8, <3>2
    <3>6. paths[i] \in Nat
      BY <1>7
    <3> QED
      BY <1>2, <3>4, <3>5, <3>6, EntryBlock
  <2> QED
    BY <2>1 DEF InTocs
<1>16. PICK top : top = Place(0, TocItems(paths, all))
  OBVIOUS
<1>17. /\ top \in Seq(Cells(V)) /\ Block(top, 0, 0, from)
       /\ Fits(from, TocItems(paths, all))
  BY <1>2, <1>5, <1>6, <1>10, <1>11, <1>15, <1>16, TocPlaced
<1>18. Placed(V, D, indices, n, paths, from, E, all, top)
  BY <1>1, <1>5, <1>6, <1>12, <1>13, <1>15, <1>16, <1>17 DEF Placed
<1>19. WriteArchive(indices) = top \o FlattenSeq(CellParts(all))
  <2>1. WriteArchive(indices) = ArchiveWith(paths, all)
    BY <1>3, <1>14, ArchiveParts
  <2> QED
    BY <1>16, <2>1 DEF ArchiveWith, CellParts
<1> QED
  BY <1>18, <1>19

LEMMA PlacedBlocks ==
    ASSUME NEW V, NEW D, NEW indices \in [D -> Indices], NEW n, NEW paths, NEW from, NEW E,
           NEW all, NEW top, Placed(V, D, indices, n, paths, from, E, all, top),
           NEW parts, parts = CellParts(all), NEW M, M = Offsets(all)
    PROVE  /\ Blocks(V, parts, n, E, M)
           /\ \A i \in 1..n : /\ paths[i] \in D /\ E[i - 1] \in Nat
                              /\ EntryFacts(all[i], E[i - 1], E[i], indices[paths[i]])
<1>1. /\ V = Values \cup {HashOf(indices[p]) : p \in D} /\ n \in Nat /\ paths \in Seq(Nat)
      /\ Len(paths) = n /\ {paths[i] : i \in 1..n} = D
      /\ Chained(n, paths, indices, from, E, all)
  BY DEF Placed
<1>2. /\ E \in [0..n -> Nat] /\ all = [i \in 1..n |-> Entry(E[i - 1], indices[paths[i]])]
      /\ \A i \in 1..n : E[i] = End(all[i].cells)
  BY <1>1 DEF Chained
<1>3. DOMAIN all = 1..n
  BY <1>2
<1>4. ASSUME NEW i \in 1..n
      PROVE  /\ paths[i] \in D /\ E[i - 1] \in Nat /\ paths[i] \in Nat
             /\ indices[paths[i]] \in Indices
             /\ EntryFacts(all[i], E[i - 1], E[i], indices[paths[i]])
  <2>1. paths[i] \in D
    BY <1>1
  <2>2. PICK p \in Nat : p = E[i - 1]
    <3>1. i - 1 \in 0..n
      BY <1>1
    <3> QED
      BY <1>2, <3>1
  <2>3. PICK ix \in Indices : ix = indices[paths[i]]
    BY <2>1
  <2>4. all[i] = Entry(p, ix)
    BY <1>2, <2>2, <2>3
  <2>5. EntryFacts(all[i], p, End(all[i].cells), ix)
    BY <2>4, EntryEnds
  <2>6. paths[i] \in Nat
    BY <1>1
  <2> QED
    BY <1>2, <2>1, <2>2, <2>3, <2>5, <2>6
<1>5. ASSUME NEW i \in 1..n
      PROVE  /\ parts[i] \in Seq(Cells(V)) /\ M[i] \in Nat
             /\ Block(parts[i], E[i - 1], M[i], E[i])
  <2>1. parts[i] = all[i].cells /\ M[i] = all[i].offset
    BY <1>3 DEF CellParts, Offsets
  <2>2. PICK ix \in Indices : ix = indices[paths[i]]
    BY <1>4
  <2>3. HashOf(ix) \in V /\ Values \in SUBSET V
    BY <1>1, <1>4, <2>2
  <2>4. PICK p \in Nat : p = E[i - 1]
    BY <1>4
  <2>5. EntryFacts(all[i], p, E[i], ix)
    BY <1>4, <2>2, <2>4
  <2>6. 0 \in Nat
    OBVIOUS
  <2>7. /\ Block(all[i].cells, p, all[i].offset, E[i]) /\ all[i].offset \in Nat
        /\ all[i].cells \in Seq(Cells(V))
    BY <2>3, <2>5, <2>6, EntryBlock
  <2> QED
    BY <2>1, <2>4, <2>7
<1>6. parts \in Seq(Seq(Cells(V))) /\ Len(parts) = n
  <2>1. parts = [i \in 1..n |-> parts[i]]
    BY <1>3 DEF CellParts
  <2>2. parts \in [1..n -> Seq(Cells(V))]
    BY <1>5, <2>1
  <2> QED
    BY <1>1, <2>2, SMTT(40)
<1>7. M \in [1..n -> Nat]
  <2>1. M = [i \in 1..n |-> M[i]]
    BY <1>3 DEF Offsets
  <2> QED
    BY <1>5, <2>1
<1>8. Blocks(V, parts, n, E, M)
  BY <1>2, <1>5, <1>6, <1>7 DEF Blocks
<1> QED
  BY <1>4, <1>8

(* Everything in an archive is found.                                      *)
LEMMA ArchiveFound ==
    ASSUME NEW V, NEW D, NEW indices \in [D -> Indices], NEW n, NEW paths, NEW from, NEW E,
           NEW all, NEW top, Placed(V, D, indices, n, paths, from, E, all, top),
           NEW file, file = top \o FlattenSeq(CellParts(all))
    PROVE  /\ Found(file, 0, top) /\ End(file) \in Nat /\ from <= End(file)
           /\ \A i \in 1..n : Found(file, all[i].offset, all[i].cells)
<1>1. PICK parts : parts = CellParts(all)
  OBVIOUS
<1>2. PICK M : M = Offsets(all)
  OBVIOUS
<1>3. Blocks(V, parts, n, E, M)
  BY <1>1, <1>2, PlacedBlocks
<1>4. /\ n \in Nat /\ from \in Nat /\ top \in Seq(Cells(V)) /\ Block(top, 0, 0, from)
      /\ Chained(n, paths, indices, from, E, all)
  BY DEF Placed
<1>5. /\ E \in [0..n -> Nat] /\ E[0] = from
      /\ all = [i \in 1..n |-> Entry(E[i - 1], indices[paths[i]])]
  BY <1>4 DEF Chained
<1>6. /\ parts \in Seq(Seq(Cells(V))) /\ Len(parts) = n /\ M \in [1..n -> Nat]
      /\ \A k \in 1..n : Block(parts[k], E[k - 1], M[k], E[k])
  BY <1>3 DEF Blocks
<1>7. PICK none \in Seq(Cells(V)) : none = <<>>
  <2>1. <<>> \in Seq(Cells(V))
    OBVIOUS
  <2> QED
    BY <2>1
<1>8. Before(top, top, E[0])
  <2>1. Len(top) \in Nat
    BY <1>4
  <2> QED
    BY <1>4, <1>5, <2>1, BlockBefore
<1>9. file = top \o FlattenSeq(parts)
  BY <1>1
<1>10. \A k \in 0..n : Headed(V, file, top, Left(parts, k, none), E[0], E[k])
  BY <1>3, <1>4, <1>7, <1>8, <1>9, Stacked
<1>11. \A k \in 0..n : From(Left(parts, k, none), E[k])
  BY <1>3, <1>4, <1>7, Rising
<1>12. Found(file, 0, top)
  <2>1. PICK flat \in Seq(Cells(V)) : flat = FlattenSeq(parts)
    BY <1>6, FlattenType
  <2>2. Left(parts, 0, none) = flat
    <3>1. Left(parts, 0, none) = flat \o none
      BY <1>6, <2>1, LeftAll
    <3> QED
      BY <1>7, <3>1, ConcatEmptySeq
  <2>3. From(flat, from)
    <3>1. 0 \in 0..n
      BY <1>4
    <3> QED
      BY <1>5, <1>11, <2>2, <3>1
  <2>4. file = none \o (top \o flat)
    <3>1. top \o flat \in Seq(Cells(V))
      BY <1>4, ConcatProperties
    <3> QED
      BY <1>7, <1>9, <2>1, <3>1, ConcatEmptySeq
  <2>5. \A i \in 1..Len(none) : none[i].at < 0
    BY <1>7
  <2>6. 0 \in Nat
    OBVIOUS
  <2> QED
    BY <1>4, <1>7, <2>1, <2>3, <2>4, <2>5, <2>6, Finding
<1>13. End(file) \in Nat /\ from <= End(file)
  <2>1. n \in 0..n
    BY <1>4
  <2>2. Headed(V, file, top, none, E[0], E[n])
    <3>1. Left(parts, n, none) = none
      BY <1>6, <1>7, LeftNone
    <3>2. Headed(V, file, top, Left(parts, n, none), E[0], E[n])
      BY <1>10, <2>1
    <3> QED
      BY <3>1, <3>2
  <2>3. PICK head \in Seq(Cells(V)) :
           file = head \o none /\ Before(head, top, E[n]) /\ E[0] <= E[n]
    BY <2>2 DEF Headed
  <2>4. file = head
    BY <1>7, <2>3, ConcatEmptySeq
  <2>5. End(file) = E[n]
    BY <2>3, <2>4 DEF Before
  <2> QED
    BY <1>5, <2>1, <2>3, <2>5
<1>14. ASSUME NEW i \in 1..n PROVE Found(file, all[i].offset, all[i].cells)
  <2>1. PICK k \in 0..n : k = i - 1 /\ k + 1 = i /\ i \in 0..n
    BY <1>4
  <2>2. PICK head \in Seq(Cells(V)) :
           file = head \o Left(parts, k, none) /\ Before(head, top, E[k])
    BY <1>10, <2>1 DEF Headed
  <2>3. Left(parts, k, none) = parts[i] \o Left(parts, i, none)
    <3>1. k \in 0..Len(parts) /\ k # Len(parts)
      BY <1>6, <2>1
    <3> QED
      BY <1>6, <1>7, <2>1, <3>1, LeftNext
  <2>4. PICK left \in Seq(Cells(V)) : left = Left(parts, i, none)
    <3>1. i \in 0..Len(parts)
      BY <1>6, <2>1
    <3> QED
      BY <1>6, <1>7, <3>1, LeftType
  <2>5. PICK part \in Seq(Cells(V)) : part = parts[i]
    BY <1>6
  <2>6. PICK a \in Nat, f \in Nat, b \in Nat : a = E[k] /\ f = M[i] /\ b = E[i]
    BY <1>5, <1>6, <2>1
  <2>7. Block(part, a, f, b)
    BY <1>6, <2>1, <2>5, <2>6
  <2>8. \A h \in 1..Len(head) : head[h].at < a
    BY <2>2, <2>6 DEF Before
  <2>9. From(left, b)
    BY <1>11, <2>1, <2>4, <2>6
  <2>10. file = head \o (part \o left)
    BY <2>2, <2>3, <2>4, <2>5
  <2>11. Found(file, f, part)
    BY <2>7, <2>8, <2>9, <2>10, Finding
  <2>12. DOMAIN all = 1..n
    BY <1>5
  <2>13. part = all[i].cells /\ f = all[i].offset
    BY <1>1, <1>2, <2>5, <2>6, <2>12 DEF CellParts, Offsets
  <2> QED
    BY <2>11, <2>13
<1> QED
  BY <1>12, <1>13, <1>14

(* What an archive holds: of each index its hash and what it says.         *)
Stored(ix) == [hash |-> HashOf(ix), index |-> Frozen(ix)]

LEMMA ArchiveRead ==
    ASSUME NEW V, NEW D, NEW indices \in [D -> Indices], NEW n, NEW paths, NEW from, NEW E,
           NEW all, NEW top, Placed(V, D, indices, n, paths, from, E, all, top),
           NEW file, file = top \o FlattenSeq(CellParts(all)),
           NEW C, NEW g \in [1..n -> C], AreListed(n, paths, all, g)
    PROVE  FirstOf(ReadArchive(file), n, g, C)
<1>1. /\ n \in Nat /\ paths \in Seq(Nat) /\ Len(paths) = n /\ from \in Nat
      /\ InTocs(V, n, paths, all) /\ top = Place(0, TocItems(paths, all))
      /\ V = Values \cup {HashOf(indices[p]) : p \in D}
      /\ Fits(from, TocItems(paths, all)) /\ top \in Seq(Cells(V)) /\ Block(top, 0, 0, from)
  BY DEF Placed
<1>2. Found(file, 0, top) /\ End(file) \in Nat /\ from <= End(file)
  BY ArchiveFound
<1>3. Values \in SUBSET V
  BY <1>1
<1>4. PICK items : items = TocItems(paths, all)
  OBVIOUS
<1>5. items \in Seq(Items(V)) /\ Starts(items, V)
  BY <1>1, <1>3, <1>4, TocType
<1>6. PICK d : Ends(d, 0, items) /\ d[Len(items)] = from
  BY <1>1, <1>4 DEF Fits
<1>7. PICK m \in Nat : m = 0 /\ 8 * m = 0
  OBVIOUS
<1>8. Laid(top, items, V, m, d)
  <2>1. Ends(d, 8 * m, items) /\ top = Place(8 * m, items)
    BY <1>1, <1>4, <1>6, <1>7
  <2> QED
    BY <1>5, <2>1, Segment
<1>9. Len(top) = Len(items) /\ AreAt(top, items, d)
  BY <1>8 DEF Laid
<1>10. PICK j \in Nat : /\ (CHOOSE i \in DOMAIN file : file[i].at = 0) = j + 1
                        /\ \A i \in 1..Len(top) : file[j + i] = top[i]
  BY <1>2 DEF Found
<1>11. \A i \in 1..Len(items), k \in Nat : k = j + i =>
          file[k] = Cell(items[i], OffsetOf(items[i].kind, d[i - 1]))
  <2>1. \A i \in 1..Len(items) :
           file[j + i] = Cell(items[i], OffsetOf(items[i].kind, d[i - 1]))
    BY <1>9, <1>10 DEF AreAt
  <2> QED
    BY <2>1
<1>12. PICK size \in Nat : size = End(file)
  BY <1>2
<1>13. PICK r : r = UnmappedReader(file)
  OBVIOUS
<1>14. r = [file |-> file, base |-> 8 * m, size |-> size, pos |-> 0, value |-> "nothing",
            next |-> j + 1]
  <2>1. r = [file |-> file, base |-> 0, size |-> End(file), pos |-> 0, value |-> "nothing",
             next |-> j + 1]
    BY <1>10, <1>13, Zenon DEF UnmappedReader, MappedReader
  <2> QED
    BY <1>7, <1>12, <2>1
<1>15. IsReader(r) /\ Sees(r, items)
  <2>1. Ends(d, 8 * m, items) /\ 8 * m + size >= d[Len(items)]
    BY <1>1, <1>2, <1>6, <1>7, <1>12
  <2> QED
    BY <1>5, <1>11, <1>14, <2>1, Seeing
<1> QED
  BY <1>1, <1>3, <1>4, <1>13, <1>15, TocRoundTrip

(* IndexArchiveBuilder::write, then IndexArchiveReader and its openEntry:  *)
(* whatever the indices of an archive and however many, each entry that is *)
(* listed is found where the table of contents says, under its own hash,   *)
(* and opens as the index that was put there.                              *)
THEOREM ArchiveContents ==
    ASSUME NEW D \in SUBSET Nat, IsFiniteSet(D), NEW indices \in [D -> Indices]
    PROVE  ArchiveOf(indices) = {Stored(indices[p]) : p \in D}
<1>1. PICK file : file = WriteArchive(indices)
  OBVIOUS
<1>2. PICK V, n, paths, from, E, all, top :
         /\ Placed(V, D, indices, n, paths, from, E, all, top)
         /\ file = top \o FlattenSeq(CellParts(all))
  BY <1>1, Placement
<1>3. n \in Nat /\ {paths[i] : i \in 1..n} = D
  BY <1>2 DEF Placed
<1>4. PICK g : g = [i \in 1..n |-> Listed(paths[i], all[i])]
  OBVIOUS
<1>5. PICK C : C = {g[i] : i \in 1..n}
  OBVIOUS
<1>6. g \in [1..n -> C] /\ AreListed(n, paths, all, g)
  BY <1>4, <1>5 DEF AreListed
<1>7. PICK toc : toc = ReadArchive(file)
  OBVIOUS
<1>8. toc \in Seq(C) /\ Len(toc) = n /\ \A i \in 1..n : toc[i] = g[i]
  <2>1. FirstOf(toc, n, g, C)
    BY <1>2, <1>6, <1>7, ArchiveRead
  <2> QED
    BY <2>1 DEF FirstOf
<1>9. ToSet(toc) = {g[i] : i \in 1..n}
  <2>1. DOMAIN toc = 1..n
    <3>1. DOMAIN toc = 1..Len(toc)
      BY <1>8
    <3> QED
      BY <1>8, <3>1
  <2>2. ToSet(toc) = {toc[i] : i \in 1..n}
    BY <2>1 DEF ToSet
  <2>3. \A x \in ToSet(toc) : x \in {g[i] : i \in 1..n}
    BY <1>8, <2>2
  <2>4. \A x \in {g[i] : i \in 1..n} : x \in ToSet(toc)
    BY <1>8, <2>2
  <2> QED
    BY <2>3, <2>4
<1>10. ASSUME NEW i \in 1..n
       PROVE  [hash |-> g[i].hash, index |-> OpenEntry(file, g[i])] = Stored(indices[paths[i]])
  <2>1. PICK entry : entry = all[i]
    OBVIOUS
  <2>2. PICK ix \in Indices : ix = indices[paths[i]]
    BY <1>3
  <2>3. EntryFacts(entry, E[i - 1], E[i], ix)
    BY <1>2, <2>1, <2>2, PlacedBlocks
  <2>4. PICK p : p = E[i - 1]
    OBVIOUS
  <2>5. PICK last : last = E[i]
    OBVIOUS
  <2>6. PICK m \in Nat : \E items, e : items = Compressed(ix)
                                       /\ IsEntry(entry, p, last, ix, items, m, e)
    BY <2>3, <2>4, <2>5 DEF EntryFacts
  <2>7. PICK items, e : items = Compressed(ix) /\ IsEntry(entry, p, last, ix, items, m, e)
    BY <2>6
  <2>8. Found(file, entry.offset, entry.cells)
    BY <1>2, <2>1, ArchiveFound
  <2>9. ReadIndex(MappedReader(file, entry.offset, entry.length)) = Frozen(ix)
    BY <2>7, <2>8, OpenFound
  <2>10. /\ g[i].hash = entry.hash /\ g[i].offset = entry.offset /\ g[i].length = entry.length
    BY <1>4, <2>1 DEF Listed
  <2>11. entry.hash = HashOf(ix)
    BY <2>7 DEF IsEntry
  <2>12. OpenEntry(file, g[i]) = Frozen(ix)
    BY <2>9, <2>10 DEF OpenEntry
  <2> QED
    BY <2>2, <2>10, <2>11, <2>12 DEF Stored
<1>11. ArchiveOf(indices) = {[hash |-> entry.hash, index |-> OpenEntry(file, entry)] :
                                 entry \in ToSet(toc)}
  BY <1>1, <1>7 DEF ArchiveOf
<1>12. ASSUME NEW x \in ArchiveOf(indices) PROVE x \in {Stored(indices[p]) : p \in D}
  <2>1. PICK entry \in ToSet(toc) : x = [hash |-> entry.hash, index |-> OpenEntry(file, entry)]
    BY <1>11
  <2>2. PICK i \in 1..n : entry = g[i]
    BY <1>9
  <2>3. paths[i] \in D
    BY <1>3
  <2> QED
    BY <1>10, <2>1, <2>2, <2>3
<1>13. ASSUME NEW x \in {Stored(indices[p]) : p \in D} PROVE x \in ArchiveOf(indices)
  <2>1. PICK p \in D : x = Stored(indices[p])
    OBVIOUS
  <2>2. PICK i \in 1..n : paths[i] = p
    BY <1>3
  <2>3. g[i] \in ToSet(toc)
    BY <1>9
  <2>4. x = [hash |-> g[i].hash, index |-> OpenEntry(file, g[i])]
    BY <1>10, <2>1, <2>2
  <2> QED
    BY <1>11, <2>3, <2>4
<1> QED
  BY <1>12, <1>13
=============================================================================
