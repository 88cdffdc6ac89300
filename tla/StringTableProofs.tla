-------------------------- MODULE StringTableProofs --------------------------
(***************************************************************************)
(* Proofs, for any strings, any hash function and any sizes, that the hash *)
(* table of StringTable keeps its chains through every growth              *)
(* (ChainsPartition) and that its callers see an Interner (InternerSpec).  *)
(*                                                                         *)
(* A chain is a walk, and what is invariant of it is stated without one:   *)
(* the head of a bucket is the last ID in the bucket, and the next of an   *)
(* ID is the last one before it in the same bucket (Linked).  That is      *)
(* local, so a step that links one more node at a head keeps it, and by    *)
(* induction on IDs a walk that follows it meets every string of a bucket. *)
(***************************************************************************)
EXTENDS StringTable, Integers, FiniteSetTheorems, SequenceTheorems, WellFoundedInduction, TLAPS

-----------------------------------------------------------------------------
(* INDUCTION.  The theorems of the library take an operator as a           *)
(* parameter and cannot be used for a given set or function; these do.     *)

(* Every set of natural numbers that is not empty has a least member.      *)
LEMMA Least ==
    ASSUME NEW T \in SUBSET Nat, T # {}
    PROVE  \E n \in T : \A m \in T : n <= m
<1> DEFINE R == OpToRel(<, Nat)
<1>1. IsWellFoundedOn(R, Nat)
  BY NatLessThanWellFounded
<1>2. \A x, y \in Nat : y < x => <<y, x>> \in R
  BY DEF OpToRel
<1> HIDE DEF R
<1>3. PICK x \in T : \A y \in T : ~ (<<y, x>> \in R)
  BY <1>1, WFMin
<1>4. \A m \in T : ~(m < x)
  BY <1>2, <1>3
<1> QED
  BY <1>4

(* Induction over the natural numbers, for a set of them.                  *)
LEMMA Induct ==
    ASSUME NEW T \in SUBSET Nat, 0 \in T, \A n \in T : n + 1 \in T
    PROVE  T = Nat
<1> SUFFICES ASSUME Nat \ T # {} PROVE FALSE
  OBVIOUS
<1>1. PICK n \in Nat \ T : \A m \in Nat \ T : n <= m
  BY Least
<1>2. n # 0 /\ n - 1 \in Nat /\ n - 1 \in T
  BY <1>1
<1> QED
  BY <1>1, <1>2

(* A function that is defined at each i from its value at an earlier place *)
(* exists.  G[i] is the step at i, and `next` says from where. *)
GoesBack(next, n) == \A i \in 1..n : next[i] \in 0..(i - 1)

HasValues(n, V, base, next, G) ==
    \E f \in [0..n -> V] : f[0] = base /\ \A i \in 1..n : f[i] = G[i][f[next[i]]]

LEMMA Recursion ==
    ASSUME NEW n \in Nat, NEW V, NEW base \in V, NEW next, NEW G \in [1..n -> [V -> V]],
           GoesBack(next, n)
    PROVE  HasValues(n, V, base, next, G)
<1> USE DEF GoesBack
<1> DEFINE Upto(m) == \E f \in [0..m -> V] : f[0] = base
                          /\ \A i \in 1..m : f[i] = G[i][f[next[i]]]
           T == {m \in Nat : m <= n => Upto(m)}
<1>1. Upto(0)
  <2> DEFINE f == [i \in 0..0 |-> base]
  <2>1. f \in [0..0 -> V] /\ f[0] = base /\ \A i \in 1..0 : f[i] = G[i][f[next[i]]]
    OBVIOUS
  <2> QED
    BY <2>1
<1>2. ASSUME NEW m \in Nat, m + 1 <= n, Upto(m)
      PROVE  Upto(m + 1)
  <2>1. PICK f \in [0..m -> V] : f[0] = base /\ \A i \in 1..m : f[i] = G[i][f[next[i]]]
    BY <1>2
  <2>2. m + 1 \in 1..n /\ next[m + 1] \in 0..m
    BY <1>2
  <2>3. PICK v \in V : v = G[m + 1][f[next[m + 1]]]
    BY <2>2
  <2> DEFINE g == [i \in 0..(m + 1) |-> IF i = m + 1 THEN v ELSE f[i]]
  <2>4. g \in [0..(m + 1) -> V]
    BY <1>2
  <2>5. g[0] = base /\ \A i \in 0..m : g[i] = f[i]
    BY <1>2, <2>1
  <2>6. g[m + 1] = v
    BY <1>2
  <2> HIDE DEF g
  <2>7. ASSUME NEW i \in 1..(m + 1)
        PROVE  g[i] = G[i][g[next[i]]]
    <3>1. CASE i = m + 1
      BY <3>1, <2>2, <2>3, <2>5, <2>6
    <3>2. CASE i \in 1..m
      <4>1. next[i] \in 0..m /\ f[i] = G[i][f[next[i]]]
        BY <3>2, <1>2, <2>1
      <4> QED
        BY <3>2, <4>1, <2>5
    <3> QED
      BY <3>1, <3>2, <1>2
  <2> QED
    BY <2>4, <2>5, <2>7
<1> HIDE DEF Upto
<1>3. T = Nat
  <2>1. 0 \in T
    BY <1>1
  <2>2. \A m \in T : m + 1 \in T
    BY <1>2
  <2> HIDE DEF T
  <2>3. T \in SUBSET Nat
    BY DEF T
  <2> QED
    BY <2>1, <2>2, <2>3, Induct
<1>4. Upto(n)
  <2>1. n \in T
    BY <1>3
  <2> QED
    BY <2>1
<1> QED
  BY <1>4 DEF Upto, HasValues

-----------------------------------------------------------------------------
NodeRecord == [string : String, next : Nat]

Shape(t, size) == t \in [node : Seq(NodeRecord), bucket : [0..(size - 1) -> Nat]]

(* The chains of the first k nodes. *)
Heads(t, k, size) ==
    \A b \in 0..(size - 1) :
        /\ t.bucket[b] \in 0..k
        /\ t.bucket[b] # 0 => Bucket(t.node[t.bucket[b]].string, size) = b
        /\ \A j \in 1..k : t.bucket[b] < j => Bucket(t.node[j].string, size) # b

Nexts(t, k, size) ==
    \A id \in 1..k :
        /\ t.node[id].next \in 0..(id - 1)
        /\ t.node[id].next # 0 => Bucket(t.node[t.node[id].next].string, size)
                                  = Bucket(t.node[id].string, size)
        /\ \A j \in 1..(id - 1) : t.node[id].next < j =>
              Bucket(t.node[j].string, size) # Bucket(t.node[id].string, size)

Linked(t, k, size) == Heads(t, k, size) /\ Nexts(t, k, size)

Differ(t) == \A i, j \in 1..Len(t.node) : t.node[i].string = t.node[j].string => i = j

Sound(t, size) == Shape(t, size) /\ Linked(t, Len(t.node), size) /\ Differ(t)

(* The strings of u are those of t. *)
SameStrings(u, t) ==
    /\ Len(u.node) = Len(t.node)
    /\ \A i \in 1..Len(t.node) : u.node[i].string = t.node[i].string
-----------------------------------------------------------------------------
LEMMA SizesArePositive == Sizes \subseteq Nat \ {0}
BY TableAssumption DEF TableAssumption, Sizes

LEMMA IndexSizeIs ==
    ASSUME NEW t, NEW size \in Nat \ {0}, Shape(t, size)
    PROVE  IndexSize(t) = size
<1>1. DOMAIN t.bucket = 0..(size - 1)
  BY DEF Shape
<1>2. Cardinality(0..(size - 1)) = size
  <2>1. PICK a \in Int, b \in Int : a = 0 /\ b = size - 1
    OBVIOUS
  <2>2. Cardinality(a..b) = IF a > b THEN 0 ELSE b - a + 1
    BY FS_Interval
  <2> QED
    BY <2>1, <2>2
<1> QED
  BY <1>1, <1>2 DEF IndexSize

LEMMA BucketInRange ==
    ASSUME hash \in [String -> HashValue], NEW s \in String, NEW size \in Nat \ {0}
    PROVE  Bucket(s, size) \in 0..(size - 1)
<1>1. hash[s] \in Nat
  BY TableAssumption DEF TableAssumption
<1> QED
  BY <1>1 DEF Bucket

(* What Link does to the fields. *)
LEMMA LinkFields ==
    ASSUME NEW size \in Nat \ {0}, NEW t, Shape(t, size), NEW k \in 1..Len(t.node),
           hash \in [String -> HashValue], NEW b, b = Bucket(t.node[k].string, size)
    PROVE  /\ Shape(Link(t, k), size)
           /\ b \in 0..(size - 1)
           /\ SameStrings(Link(t, k), t)
           /\ Link(t, k).node[k].next = t.bucket[b]
           /\ \A i \in 1..Len(t.node) : i # k => Link(t, k).node[i] = t.node[i]
           /\ Link(t, k).bucket[b] = k
           /\ \A c \in 0..(size - 1) : c # b => Link(t, k).bucket[c] = t.bucket[c]
<1>1. PICK N \in Seq(NodeRecord), B \in [0..(size - 1) -> Nat] : t = [node |-> N, bucket |-> B]
  BY DEF Shape
<1>2. N[k] \in NodeRecord /\ k \in 1..Len(N)
  BY <1>1
<1>3. b \in 0..(size - 1)
  BY <1>1, <1>2, BucketInRange DEF NodeRecord
<1>4. PICK v \in Nat : v = B[b]
  BY <1>3
<1>5. IndexSize(t) = size
  BY IndexSizeIs
<1>6. Link(t, k) = [t EXCEPT !.node[k].next = t.bucket[b], !.bucket[b] = k]
  BY <1>5 DEF Link
<1> DEFINE M == [N EXCEPT ![k] = [N[k] EXCEPT !.next = v]]
           D == [B EXCEPT ![b] = k]
<1>7. Link(t, k).node = M
  BY <1>1, <1>4, <1>6
<1>8. Link(t, k).bucket = D
  BY <1>1, <1>6
<1>9. PICK r \in NodeRecord : r = [N[k] EXCEPT !.next = v]
  BY <1>2, <1>4 DEF NodeRecord
<1>10. r.string = N[k].string /\ r.next = v
  BY <1>2, <1>9 DEF NodeRecord
<1>11. M \in Seq(NodeRecord) /\ Len(M) = Len(N)
  BY <1>2, <1>9
<1>12. M[k] = r /\ \A i \in 1..Len(N) : i # k => M[i] = N[i]
  BY <1>2, <1>9
<1>13. k \in Nat
  BY <1>1
<1>14. D \in [0..(size - 1) -> Nat]
  BY <1>13
<1>15. D[b] = k /\ \A c \in 0..(size - 1) : c # b => D[c] = B[c]
  BY <1>3
<1>16. Link(t, k) \in [node : Seq(NodeRecord), bucket : [0..(size - 1) -> Nat]]
  <2>1. Link(t, k) = [node |-> Link(t, k).node, bucket |-> Link(t, k).bucket]
    BY <1>1, <1>6
  <2> QED
    BY <2>1, <1>7, <1>8, <1>11, <1>14
<1> HIDE DEF M, D
<1>17. \A i \in 1..Len(N) : M[i].string = N[i].string
  BY <1>10, <1>12
<1> QED
  BY <1>1, <1>3, <1>4, <1>7, <1>8, <1>10, <1>11, <1>12, <1>15, <1>16, <1>17 DEF Shape, SameStrings
-----------------------------------------------------------------------------
(* Linking the node after the first k - 1 links the first k. *)
LEMMA LinkExtends ==
    ASSUME NEW size \in Nat \ {0}, NEW t, Shape(t, size), NEW k \in 1..Len(t.node),
           hash \in [String -> HashValue], Linked(t, k - 1, size)
    PROVE  Linked(Link(t, k), k, size)
<1>1. PICK b : b = Bucket(t.node[k].string, size)
  OBVIOUS
<1>2. PICK n \in Nat : n = Len(t.node)
  BY DEF Shape
<1>3. PICK u : u = Link(t, k)
  OBVIOUS
<1>4. /\ b \in 0..(size - 1)
      /\ SameStrings(u, t)
      /\ u.node[k].next = t.bucket[b]
      /\ \A i \in 1..n : i # k => u.node[i] = t.node[i]
      /\ u.bucket[b] = k
      /\ \A c \in 0..(size - 1) : c # b => u.bucket[c] = t.bucket[c]
  BY <1>1, <1>2, <1>3, LinkFields
<1>5. k \in 1..n
  BY <1>2
<1>6. \A i \in 1..n : u.node[i].string = t.node[i].string
  BY <1>2, <1>4 DEF SameStrings
<1>7. ASSUME NEW c \in 0..(size - 1), c # b
      PROVE  /\ u.bucket[c] \in 0..k
             /\ u.bucket[c] # 0 => Bucket(u.node[u.bucket[c]].string, size) = c
             /\ \A j \in 1..k : u.bucket[c] < j => Bucket(u.node[j].string, size) # c
  <2>1. PICK h \in 0..(k - 1) : h = t.bucket[c]
    BY DEF Linked, Heads
  <2>2. u.bucket[c] = h
    BY <1>4, <1>7, <2>1
  <2>3. h # 0 => Bucket(u.node[h].string, size) = c
    <3>1. h # 0 => Bucket(t.node[h].string, size) = c
      BY <2>1 DEF Linked, Heads
    <3>2. h # 0 => u.node[h].string = t.node[h].string
      BY <1>5, <1>6, <2>1
    <3> QED
      BY <3>1, <3>2
  <2>4. ASSUME NEW j \in 1..k, h < j
        PROVE  Bucket(u.node[j].string, size) # c
    <3>1. CASE j = k
      BY <1>1, <1>5, <1>6, <1>7, <3>1
    <3>2. CASE j \in 1..(k - 1)
      <4>1. Bucket(t.node[j].string, size) # c
        BY <2>1, <2>4, <3>2 DEF Linked, Heads
      <4> QED
        BY <1>5, <1>6, <3>2, <4>1
    <3> QED
      BY <1>5, <3>1, <3>2
  <2> QED
    BY <1>5, <2>1, <2>2, <2>3, <2>4
<1>8. /\ u.bucket[b] \in 0..k
      /\ u.bucket[b] # 0 => Bucket(u.node[u.bucket[b]].string, size) = b
      /\ \A j \in 1..k : u.bucket[b] < j => Bucket(u.node[j].string, size) # b
  BY <1>1, <1>4, <1>5, <1>6
<1>9. ASSUME NEW id \in 1..(k - 1)
      PROVE  /\ u.node[id].next \in 0..(id - 1)
             /\ u.node[id].next # 0 => Bucket(u.node[u.node[id].next].string, size)
                                       = Bucket(u.node[id].string, size)
             /\ \A j \in 1..(id - 1) : u.node[id].next < j =>
                   Bucket(u.node[j].string, size) # Bucket(u.node[id].string, size)
  <2>1. PICK h \in 0..(id - 1) : h = t.node[id].next
    BY DEF Linked, Nexts
  <2>2. u.node[id] = t.node[id]
    BY <1>4, <1>5
  <2>3. h # 0 => Bucket(t.node[h].string, size) = Bucket(t.node[id].string, size)
    BY <2>1 DEF Linked, Nexts
  <2>4. \A j \in 1..(id - 1) : h < j =>
           Bucket(t.node[j].string, size) # Bucket(t.node[id].string, size)
    BY <2>1 DEF Linked, Nexts
  <2>5. h # 0 => u.node[h].string = t.node[h].string
    BY <1>5, <1>6, <2>1
  <2>6. \A j \in 1..(id - 1) : u.node[j].string = t.node[j].string
    BY <1>5, <1>6
  <2> QED
    BY <2>1, <2>2, <2>3, <2>4, <2>5, <2>6
<1>10. /\ u.node[k].next \in 0..(k - 1)
       /\ u.node[k].next # 0 => Bucket(u.node[u.node[k].next].string, size)
                                = Bucket(u.node[k].string, size)
       /\ \A j \in 1..(k - 1) : u.node[k].next < j =>
             Bucket(u.node[j].string, size) # Bucket(u.node[k].string, size)
  <2>1. PICK h \in 0..(k - 1) : h = t.bucket[b]
    BY <1>4 DEF Linked, Heads
  <2>2. h # 0 => Bucket(t.node[h].string, size) = b
    BY <1>4, <2>1 DEF Linked, Heads
  <2>3. \A j \in 1..(k - 1) : h < j => Bucket(t.node[j].string, size) # b
    BY <1>4, <2>1 DEF Linked, Heads
  <2>4. h # 0 => u.node[h].string = t.node[h].string
    BY <1>5, <1>6, <2>1
  <2>5. \A j \in 1..(k - 1) : u.node[j].string = t.node[j].string
    BY <1>5, <1>6
  <2>6. Bucket(u.node[k].string, size) = b
    BY <1>1, <1>5, <1>6
  <2> QED
    BY <1>4, <2>1, <2>2, <2>3, <2>4, <2>5, <2>6
<1>11. Heads(u, k, size)
  BY <1>7, <1>8 DEF Heads
<1>12. Nexts(u, k, size)
  <2>1. \A id \in 1..k : id = k \/ id \in 1..(k - 1)
    BY <1>5
  <2> QED
    BY <1>9, <1>10, <2>1 DEF Nexts
<1> QED
  BY <1>3, <1>11, <1>12 DEF Linked
-----------------------------------------------------------------------------
(* A table of the strings of t, of another size. *)
Tables(t, size) ==
    {u \in [node : Seq(NodeRecord), bucket : [0..(size - 1) -> Nat]] : SameStrings(u, t)}

(* Linking node after node into empty buckets gives a table that is linked. *)
LEMMA Resized ==
    ASSUME NEW old \in Nat \ {0}, NEW size \in Nat \ {0}, NEW t, Shape(t, old),
           hash \in [String -> HashValue]
    PROVE  /\ ResizeHashTable(t, size) \in Tables(t, size)
           /\ Linked(ResizeHashTable(t, size), Len(t.node), size)
<1>1. PICK n \in Nat : n = Len(t.node)
  BY DEF Shape
<1>2. PICK V : V = Tables(t, size)
  OBVIOUS
<1>3. \A u \in V : Shape(u, size) /\ SameStrings(u, t) /\ Len(u.node) = n
  BY <1>1, <1>2 DEF Tables, Shape, SameStrings
<1>4. ASSUME NEW u \in V, NEW k \in 1..n
      PROVE  Link(u, k) \in V
  <2>1. Shape(Link(u, k), size) /\ SameStrings(Link(u, k), u)
    <3>1. k \in 1..Len(u.node) /\ Shape(u, size)
      BY <1>3
    <3> QED
      BY <3>1, LinkFields
  <2>2. SameStrings(Link(u, k), t)
    BY <2>1, <1>3 DEF SameStrings
  <2> QED
    BY <1>2, <2>1, <2>2 DEF Tables, Shape
<1>5. PICK empty : empty = [b \in 0..(size - 1) |-> 0]
  OBVIOUS
<1>6. PICK base \in V : base = [t EXCEPT !.bucket = empty]
  <2>1. PICK N \in Seq(NodeRecord), B \in [0..(old - 1) -> Nat] : t = [node |-> N, bucket |-> B]
    BY DEF Shape
  <2>2. [t EXCEPT !.bucket = empty] = [node |-> N, bucket |-> empty]
    BY <2>1
  <2>3. empty \in [0..(size - 1) -> Nat]
    BY <1>5
  <2>4. [node |-> N, bucket |-> empty] \in Tables(t, size)
    BY <2>1, <2>3 DEF Tables, SameStrings
  <2> QED
    BY <1>2, <2>2, <2>4
<1> DEFINE IsChain(f) == f = [id \in 0..n |-> IF id = 0 THEN base ELSE Link(f[id - 1], id)]
           Chain == CHOOSE f : IsChain(f)
<1>7. \E f : IsChain(f)
  <2> DEFINE G == [i \in 1..n |-> [u \in V |-> Link(u, i)]]
             next == [i \in 1..n |-> i - 1]
  <2>1. G \in [1..n -> [V -> V]]
    BY <1>4
  <2>2. \A i \in 1..n : next[i] \in 0..(i - 1)
    OBVIOUS
  <2>3. \A i \in 1..n, u \in V : G[i][u] = Link(u, i) /\ next[i] = i - 1
    OBVIOUS
  <2> HIDE DEF G, next
  <2>4. PICK f \in [0..n -> V] : f[0] = base /\ \A i \in 1..n : f[i] = G[i][f[next[i]]]
    <3>1. n \in Nat /\ base \in V
      BY <1>1
    <3>2. GoesBack(next, n)
      BY <2>2 DEF GoesBack
    <3>3. HasValues(n, V, base, next, G)
      BY <2>1, <3>1, <3>2, Recursion
    <3> QED
      BY <3>3 DEF HasValues
  <2>5. \A i \in 1..n : f[i] = Link(f[i - 1], i)
    BY <2>3, <2>4
  <2>6. f = [id \in 0..n |-> IF id = 0 THEN base ELSE Link(f[id - 1], id)]
    BY <2>4, <2>5
  <2> QED
    BY <2>6
<1>8. PICK f : f = Chain
  OBVIOUS
<1>9. f[0] = base /\ \A k \in 1..n : f[k] = Link(f[k - 1], k)
  <2>1. IsChain(f)
    BY <1>7, <1>8
  <2> QED
    BY <2>1
<1>10. ResizeHashTable(t, size) = f[n]
  BY <1>1, <1>5, <1>6, <1>8 DEF ResizeHashTable, kInvalidID
<1> HIDE DEF IsChain, Chain
<1> DEFINE T == {k \in Nat : k <= n => f[k] \in V /\ Linked(f[k], k, size)}
<1>11. 0 \in T
  <2>1. base.bucket = empty
    BY <1>6, <1>3 DEF Shape
  <2>2. \A b \in 0..(size - 1) : base.bucket[b] = 0
    BY <2>1, <1>5
  <2>3. Linked(base, 0, size)
    BY <2>2 DEF Linked, Heads, Nexts
  <2> QED
    BY <2>3, <1>6, <1>9
<1>12. ASSUME NEW k \in T
       PROVE  k + 1 \in T
  <2>1. SUFFICES ASSUME k + 1 <= n
                 PROVE  f[k + 1] \in V /\ Linked(f[k + 1], k + 1, size)
    OBVIOUS
  <2>2. k \in Nat /\ k + 1 \in 1..n /\ f[k] \in V /\ Linked(f[k], k, size)
    BY <2>1
  <2>3. f[k + 1] = Link(f[k], k + 1)
    BY <1>9, <2>2
  <2>4. Linked(Link(f[k], k + 1), k + 1, size)
    <3>1. PICK u \in V, m \in 1..n : u = f[k] /\ m = k + 1
      BY <2>2
    <3>2. Shape(u, size) /\ m \in 1..Len(u.node) /\ Linked(u, m - 1, size)
      BY <1>3, <2>2, <3>1
    <3>3. Linked(Link(u, m), m, size)
      BY <3>2, LinkExtends
    <3> QED
      BY <3>1, <3>3
  <2> QED
    BY <1>4, <2>2, <2>3, <2>4
<1>13. n \in T
  <2> HIDE DEF T
  <2>1. T \in SUBSET Nat
    BY DEF T
  <2>2. T = Nat
    BY <1>11, <1>12, <2>1, Induct
  <2> QED
    BY <1>1, <2>2
<1> QED
  BY <1>1, <1>2, <1>10, <1>13
-----------------------------------------------------------------------------
(* Following the chain of its bucket finds a string that is in the table.  *)
Finds(t, s, found) ==
    /\ found \in 0..Len(t.node)
    /\ found # 0 => t.node[found].string = s
    /\ found = 0 => \A j \in 1..Len(t.node) : t.node[j].string # s

LEMMA LookupFinds ==
    ASSUME NEW size \in Nat \ {0}, NEW t, Shape(t, size), Linked(t, Len(t.node), size),
           hash \in [String -> HashValue], NEW s \in String
    PROVE  Finds(t, s, Lookup(t, s))
<1>1. PICK n \in Nat : n = Len(t.node)
  BY DEF Shape
<1>2. PICK next : next = [i \in 1..n |-> t.node[i].next]
  OBVIOUS
<1>3. PICK name : name = [i \in 1..n |-> t.node[i].string]
  OBVIOUS
<1>4. PICK in : in = [i \in 1..n |-> Bucket(t.node[i].string, size)]
  OBVIOUS
<1>5. \A i \in 1..n : name[i] = s => in[i] = Bucket(s, size)
  BY <1>3, <1>4
<1>6. PICK b \in 0..(size - 1) : b = Bucket(s, size)
  BY BucketInRange
<1>7. PICK head \in 0..n : head = t.bucket[b]
  BY <1>1, <1>6 DEF Linked, Heads
<1>8. head # 0 => in[head] = b
  BY <1>1, <1>4, <1>6, <1>7 DEF Linked, Heads
<1>9. \A j \in 1..n : head < j => in[j] # b
  BY <1>1, <1>4, <1>6, <1>7 DEF Linked, Heads
<1>10. ASSUME NEW i \in 1..n
       PROVE  /\ next[i] \in 0..(i - 1)
              /\ next[i] # 0 => in[next[i]] = in[i]
              /\ \A j \in 1..(i - 1) : next[i] < j => in[j] # in[i]
  <2>1. PICK h \in 0..(i - 1) : h = t.node[i].next
    BY <1>1 DEF Linked, Nexts
  <2>2. h # 0 => Bucket(t.node[h].string, size) = Bucket(t.node[i].string, size)
    BY <1>1, <2>1 DEF Linked, Nexts
  <2>3. \A j \in 1..(i - 1) : h < j =>
           Bucket(t.node[j].string, size) # Bucket(t.node[i].string, size)
    BY <1>1, <2>1 DEF Linked, Nexts
  <2>4. next[i] = h /\ in[i] = Bucket(t.node[i].string, size)
    BY <1>2, <1>4, <2>1
  <2>5. \A j \in 1..(i - 1) : in[j] = Bucket(t.node[j].string, size)
    BY <1>4
  <2> QED
    BY <2>1, <2>2, <2>3, <2>4, <2>5
<1> DEFINE IsFollow(f) ==
              f = [id \in 0..n |-> IF id = 0 \/ t.node[id].string = s
                                   THEN id
                                   ELSE f[t.node[id].next]]
           Follow == CHOOSE f : IsFollow(f)
<1>11. \E f : IsFollow(f)
  <2>1. PICK V : V = 0..n
    OBVIOUS
  <2>2. PICK base \in V : base = 0
    BY <2>1
  <2>3. PICK G \in [1..n -> [V -> V]] :
           G = [i \in 1..n |-> [v \in V |-> IF name[i] = s THEN i ELSE v]]
    <3>1. \A i \in 1..n : [v \in V |-> IF name[i] = s THEN i ELSE v] \in [V -> V]
      BY <2>1
    <3> QED
      BY <3>1
  <2>4. GoesBack(next, n)
    BY <1>10 DEF GoesBack
  <2>5. HasValues(n, V, base, next, G)
    BY <2>4, Recursion
  <2>6. PICK f \in [0..n -> V] : f[0] = base /\ \A i \in 1..n : f[i] = G[i][f[next[i]]]
    BY <2>5 DEF HasValues
  <2>7. ASSUME NEW i \in 1..n
        PROVE  f[i] = IF t.node[i].string = s THEN i ELSE f[t.node[i].next]
    <3>1. next[i] = t.node[i].next /\ name[i] = t.node[i].string /\ next[i] \in 0..n
      BY <1>2, <1>3, <1>10
    <3>2. PICK v \in V : v = f[next[i]]
      BY <3>1
    <3>3. f[i] = G[i][v]
      BY <2>6, <3>2
    <3>4. G[i][v] = IF name[i] = s THEN i ELSE v
      BY <2>3
    <3> QED
      BY <3>1, <3>2, <3>3, <3>4
  <2>8. f = [id \in 0..n |-> IF id = 0 \/ t.node[id].string = s
                             THEN id
                             ELSE f[t.node[id].next]]
    BY <2>2, <2>6, <2>7
  <2> QED
    BY <2>8
<1>12. PICK f : f = Follow
  OBVIOUS
<1>13. f[0] = 0 /\ \A i \in 1..n : f[i] = IF name[i] = s THEN i ELSE f[next[i]]
  <2>1. IsFollow(f)
    BY <1>11, <1>12
  <2>2. \A id \in 0..n : f[id] = IF id = 0 \/ t.node[id].string = s
                                  THEN id
                                  ELSE f[t.node[id].next]
    BY <2>1
  <2> HIDE DEF IsFollow
  <2>3. \A i \in 1..n : next[i] = t.node[i].next /\ name[i] = t.node[i].string
    BY <1>2, <1>3
  <2>4. \A i \in 1..n : i \in 0..n /\ i # 0
    OBVIOUS
  <2> QED
    BY <2>2, <2>3, <2>4, <1>1
<1>14. Lookup(t, s) = f[head]
  <2>1. IndexSize(t) = size
    BY IndexSizeIs
  <2> QED
    BY <1>1, <1>6, <1>7, <1>12, <2>1 DEF Lookup, kInvalidID
<1> HIDE DEF IsFollow, Follow
<1> DEFINE P(i) == /\ f[i] \in 0..n
                   /\ f[i] # 0 => name[f[i]] = s
                   /\ f[i] = 0 => \A j \in 1..i : in[j] = in[i] => name[j] # s
           T == {m \in Nat : \A i \in 0..m : i <= n => P(i)}
<1>15. P(0)
  BY <1>13
<1>16. ASSUME NEW m \in T
       PROVE  m + 1 \in T
  <2>1. m \in Nat /\ \A i \in 0..m : i <= n => P(i)
    OBVIOUS
  <2>2. SUFFICES ASSUME m + 1 <= n PROVE P(m + 1)
    BY <2>1
  <2>3. PICK k \in 1..n : k = m + 1
    BY <2>1, <2>2
  <2>4. CASE name[k] = s
    BY <1>13, <2>3, <2>4
  <2>5. CASE name[k] # s
    <3>1. PICK h \in 0..(k - 1) : h = next[k]
      BY <1>10
    <3>2. f[k] = f[h]
      BY <1>13, <2>5, <3>1
    <3>3. P(h)
      BY <2>1, <2>3, <3>1
    <3>4. ASSUME f[h] = 0, NEW j \in 1..k, in[j] = in[k]
          PROVE  name[j] # s
      <4>1. CASE j = k
        BY <2>5, <4>1
      <4>2. CASE j \in 1..(k - 1) /\ h < j
        BY <1>10, <3>1, <3>4, <4>2
      <4>3. CASE j \in 1..h
        <5>1. in[h] = in[k]
          BY <1>10, <3>1, <4>3
        <5> QED
          BY <3>3, <3>4, <4>3, <5>1
      <4> QED
        BY <3>1, <4>1, <4>2, <4>3
    <3> QED
      BY <2>3, <3>2, <3>3, <3>4
  <2> QED
    BY <2>3, <2>4, <2>5
<1> HIDE DEF P
<1>17. P(head)
  <2>1. 0 \in T
    BY <1>15
  <2> HIDE DEF T
  <2>2. T \in SUBSET Nat
    BY DEF T
  <2>3. n \in T
    BY <1>1, <1>16, <2>1, <2>2, Induct
  <2> QED
    BY <2>3, <1>7 DEF T
<1>18. ASSUME f[head] = 0, NEW j \in 1..n
       PROVE  name[j] # s
  <2>1. CASE head < j
    BY <1>5, <1>6, <1>9, <2>1
  <2>2. CASE j \in 1..head
    <3>1. in[head] = b
      BY <1>8, <2>2
    <3>2. in[j] = in[head] => name[j] # s
      BY <1>17, <1>18, <2>2 DEF P
    <3> QED
      BY <1>5, <1>6, <3>1, <3>2
  <2> QED
    BY <1>7, <2>1, <2>2
<1>19. f[head] \in 0..n /\ (f[head] # 0 => name[f[head]] = s)
  BY <1>17 DEF P
<1>20. \A i \in 1..n : name[i] = t.node[i].string
  BY <1>3
<1>21. PICK found \in 0..n : found = f[head]
  BY <1>19
<1>22. found # 0 => t.node[found].string = s
  BY <1>19, <1>20, <1>21
<1>23. found = 0 => \A j \in 1..n : t.node[j].string # s
  BY <1>18, <1>20, <1>21
<1> QED
  BY <1>1, <1>14, <1>21, <1>22, <1>23 DEF Finds
-----------------------------------------------------------------------------
(* The strings differ, so there are no more of them than strings. *)
LEMMA NoMoreThanStrings ==
    ASSUME NEW size \in Nat \ {0}, NEW t, Shape(t, size), Differ(t)
    PROVE  Len(t.node) <= Cardinality(String)
<1>1. PICK n \in Nat : n = Len(t.node)
  BY DEF Shape
<1>2. PICK f : f = [i \in 1..n |-> t.node[i].string]
  OBVIOUS
<1>3. f \in [1..n -> String]
  <2>1. PICK N \in Seq(NodeRecord) : N = t.node
    BY DEF Shape
  <2>2. \A i \in 1..n : N[i] \in NodeRecord
    BY <1>1, <2>1
  <2>3. \A i \in 1..n : t.node[i].string \in String
    BY <2>1, <2>2 DEF NodeRecord
  <2> QED
    BY <1>2, <2>3
<1>4. \A i, j \in 1..n : f[i] = f[j] => i = j
  BY <1>1, <1>2 DEF Differ
<1>5. f \in Injection(1..n, String)
  BY <1>3, <1>4 DEF Injection, IsInjective
<1>6. Cardinality(1..n) <= Cardinality(String)
  BY <1>5, FS_Injection, TableAssumption DEF TableAssumption, ExistsInjection
<1>7. Cardinality(1..n) = n
  <2>1. PICK a \in Int, b \in Int : a = 1 /\ b = n
    OBVIOUS
  <2>2. Cardinality(a..b) = IF a > b THEN 0 ELSE b - a + 1
    BY FS_Interval
  <2> QED
    BY <2>1, <2>2
<1> QED
  BY <1>1, <1>6, <1>7

(* There is a prime size to grow to. *)
LEMMA GrowsToASize ==
    ASSUME NEW size \in Sizes, Cardinality(String) * 2 > size
    PROVE  NextPrimeSize(size * 2) \in Sizes
<1>1. PICK i \in 1..Len(SmallSize) : SmallSize[i] >= size * 2
  BY TableAssumption DEF TableAssumption
<1> DEFINE big == {j \in 1..Len(SmallSize) : SmallSize[j] >= size * 2}
<1>2. PICK B : B = big
  OBVIOUS
<1>3. B \in SUBSET Nat /\ B # {}
  BY <1>1, <1>2
<1>4. \E j \in B : \A k \in B : j <= k
  BY <1>3, Least
<1>5. PICK j \in B : j = CHOOSE m \in B : \A k \in B : m <= k
  BY <1>4
<1>6. NextPrimeSize(size * 2) = SmallSize[j]
  BY <1>2, <1>5 DEF NextPrimeSize
<1> QED
  BY <1>2, <1>6 DEF Sizes

(* u has the strings of t, and then s. *)
Added(u, t, s) ==
    /\ Len(u.node) = Len(t.node) + 1
    /\ \A i \in 1..Len(t.node) : u.node[i].string = t.node[i].string
    /\ u.node[Len(t.node) + 1].string = s

Room(t) == IF Len(t.node) * 2 > IndexSize(t)
           THEN ResizeHashTable(t, NextPrimeSize(IndexSize(t) * 2))
           ELSE t

(* The table has room for one more string, and the strings it had. *)
LEMMA RoomIsLinked ==
    ASSUME NEW old \in Sizes, NEW t, Sound(t, old), hash \in [String -> HashValue]
    PROVE  \E size \in Sizes : Room(t) \in Tables(t, size) /\ Linked(Room(t), Len(t.node), size)
<1>1. old \in Nat \ {0} /\ IndexSize(t) = old
  BY SizesArePositive, IndexSizeIs DEF Sound
<1>2. CASE Len(t.node) * 2 > old
  <2>1. PICK n \in Nat, c \in Nat : n = Len(t.node) /\ c = Cardinality(String)
    BY TableAssumption, FS_CardinalityType DEF Sound, Shape, TableAssumption
  <2>2. n <= c
    BY <1>1, <2>1, NoMoreThanStrings DEF Sound
  <2>3. Cardinality(String) * 2 > old
    BY <1>1, <1>2, <2>1, <2>2
  <2>4. PICK size \in Sizes : size = NextPrimeSize(old * 2)
    BY <2>3, GrowsToASize
  <2>5. Room(t) = ResizeHashTable(t, size)
    BY <1>1, <1>2, <2>4 DEF Room
  <2>6. size \in Nat \ {0}
    BY SizesArePositive
  <2> QED
    BY <1>1, <2>5, <2>6, Resized DEF Sound
<1>3. CASE ~(Len(t.node) * 2 > old)
  <2>1. Room(t) = t
    BY <1>1, <1>3 DEF Room
  <2>2. t \in Tables(t, old)
    BY DEF Sound, Shape, Tables, SameStrings
  <2> QED
    BY <2>1, <2>2 DEF Sound
<1> QED
  BY <1>2, <1>3

(* Add keeps the table sound, in another size when it grows. *)
LEMMA AddIsSound ==
    ASSUME NEW old \in Sizes, NEW t, Sound(t, old), hash \in [String -> HashValue],
           NEW s \in String, \A j \in 1..Len(t.node) : t.node[j].string # s
    PROVE  Added(Add(t, s), t, s) /\ \E size \in Sizes : Sound(Add(t, s), size)
<1>1. PICK n \in Nat : n = Len(t.node)
  BY DEF Sound, Shape
<1>2. PICK size \in Sizes : Room(t) \in Tables(t, size) /\ Linked(Room(t), n, size)
  BY <1>1, RoomIsLinked
<1>3. size \in Nat \ {0}
  BY SizesArePositive
<1>4. PICK r : r = Room(t)
  OBVIOUS
<1>5. r \in Tables(t, size) /\ Linked(r, n, size)
  BY <1>2, <1>4
<1>6. PICK N \in Seq(NodeRecord), B \in [0..(size - 1) -> Nat] : r = [node |-> N, bucket |-> B]
  BY <1>5 DEF Tables
<1>7. Len(N) = n /\ \A i \in 1..n : N[i].string = t.node[i].string
  BY <1>1, <1>5, <1>6 DEF Tables, SameStrings
<1>8. PICK new \in NodeRecord : new = [string |-> s, next |-> 0]
  BY DEF NodeRecord
<1>9. PICK N2 : N2 = Append(N, new)
  OBVIOUS
<1>10. /\ N2 \in Seq(NodeRecord) /\ Len(N2) = n + 1
       /\ N2[n + 1] = new /\ \A i \in 1..n : N2[i] = N[i]
  BY <1>7, <1>9
<1>11. PICK g : g = [node |-> N2, bucket |-> B]
  OBVIOUS
<1>12. g = [r EXCEPT !.node = Append(@, [string |-> s, next |-> 0])]
  <2>1. N2 = Append(N, [string |-> s, next |-> 0])
    BY <1>8, <1>9
  <2>2. ASSUME NEW y
        PROVE  [r EXCEPT !.node = y] = [node |-> y, bucket |-> B]
    BY <1>6
  <2>3. [r EXCEPT !.node = Append(@, [string |-> s, next |-> 0])]
        = [r EXCEPT !.node = Append(r.node, [string |-> s, next |-> 0])]
    OBVIOUS
  <2>4. r.node = N
    BY <1>6
  <2> QED
    BY <2>1, <2>2, <2>3, <2>4, <1>11
<1>13. Add(t, s) = Link(g, n + 1)
  BY <1>1, <1>4, <1>12 DEF Add, Room, kInvalidID
<1>14. g.node = N2 /\ g.bucket = B /\ r.node = N /\ r.bucket = B
  BY <1>6, <1>11
<1>15. Shape(g, size)
  BY <1>10, <1>11 DEF Shape
<1>16. Linked(g, n, size)
  <2>1. Heads(g, n, size)
    <3> SUFFICES ASSUME NEW b \in 0..(size - 1)
                 PROVE  /\ g.bucket[b] \in 0..n
                        /\ g.bucket[b] # 0 => Bucket(g.node[g.bucket[b]].string, size) = b
                        /\ \A j \in 1..n : g.bucket[b] < j =>
                              Bucket(g.node[j].string, size) # b
      BY DEF Heads
    <3>1. PICK h \in 0..n : h = r.bucket[b]
      BY <1>5 DEF Linked, Heads
    <3>2. h # 0 => Bucket(N[h].string, size) = b
      BY <1>5, <1>14, <3>1 DEF Linked, Heads
    <3>3. \A j \in 1..n : h < j => Bucket(N[j].string, size) # b
      BY <1>5, <1>14, <3>1 DEF Linked, Heads
    <3>4. h # 0 => N2[h] = N[h]
      BY <1>10
    <3>5. g.bucket[b] = h
      BY <1>14, <3>1
    <3> QED
      BY <1>10, <1>14, <3>1, <3>2, <3>3, <3>4, <3>5
  <2>2. Nexts(g, n, size)
    <3> SUFFICES ASSUME NEW id \in 1..n
                 PROVE  /\ g.node[id].next \in 0..(id - 1)
                        /\ g.node[id].next # 0 =>
                              Bucket(g.node[g.node[id].next].string, size)
                              = Bucket(g.node[id].string, size)
                        /\ \A j \in 1..(id - 1) : g.node[id].next < j =>
                              Bucket(g.node[j].string, size)
                              # Bucket(g.node[id].string, size)
      BY DEF Nexts
    <3>1. PICK h \in 0..(id - 1) : h = N[id].next
      BY <1>5, <1>14 DEF Linked, Nexts
    <3>2. h # 0 => Bucket(N[h].string, size) = Bucket(N[id].string, size)
      BY <1>5, <1>14, <3>1 DEF Linked, Nexts
    <3>3. \A j \in 1..(id - 1) : h < j =>
             Bucket(N[j].string, size) # Bucket(N[id].string, size)
      BY <1>5, <1>14, <3>1 DEF Linked, Nexts
    <3>4. (h # 0 => N2[h] = N[h]) /\ N2[id] = N[id] /\ \A j \in 1..(id - 1) : N2[j] = N[j]
      BY <1>10
    <3> QED
      BY <1>14, <3>1, <3>2, <3>3, <3>4
  <2> QED
    BY <2>1, <2>2 DEF Linked
<1>17. PICK k \in 1..Len(g.node) : k = n + 1
  BY <1>10, <1>14
<1>18. PICK u : u = Link(g, k)
  OBVIOUS
<1>19. Shape(u, size) /\ SameStrings(u, g)
  BY <1>3, <1>15, <1>18, LinkFields
<1>20. Linked(u, k, size)
  <2>1. Linked(g, k - 1, size)
    BY <1>16, <1>17
  <2> QED
    BY <2>1, <1>3, <1>15, <1>18, LinkExtends
<1>21. Added(u, t, s)
  <2>1. Len(u.node) = n + 1 /\ \A i \in 1..(n + 1) : u.node[i].string = N2[i].string
    BY <1>10, <1>14, <1>19 DEF SameStrings
  <2> QED
    BY <2>1, <1>1, <1>7, <1>8, <1>10 DEF Added
<1>22. Differ(u)
  <2> SUFFICES ASSUME NEW i \in 1..(n + 1), NEW j \in 1..(n + 1),
                      u.node[i].string = u.node[j].string
               PROVE  i = j
    BY <1>1, <1>21 DEF Differ, Added
  <2>1. \A x \in 1..n : u.node[x].string = t.node[x].string
    BY <1>1, <1>21 DEF Added
  <2>2. u.node[n + 1].string = s
    BY <1>1, <1>21 DEF Added
  <2>3. \A x \in 1..n : u.node[x].string # s
    BY <1>1, <2>1
  <2>4. \A x, y \in 1..n : t.node[x].string = t.node[y].string => x = y
    BY <1>1 DEF Sound, Differ
  <2>5. CASE i \in 1..n /\ j \in 1..n
    BY <2>1, <2>4, <2>5
  <2>6. CASE i = n + 1 \/ j = n + 1
    BY <2>2, <2>3, <2>6, <1>1
  <2>7. (i \in 1..n /\ j \in 1..n) \/ (i = n + 1 \/ j = n + 1)
    OBVIOUS
  <2> QED
    BY <2>5, <2>6, <2>7
<1>23. Sound(u, size)
  BY <1>1, <1>17, <1>19, <1>20, <1>21, <1>22 DEF Sound, Added
<1> QED
  BY <1>13, <1>17, <1>18, <1>21, <1>23
-----------------------------------------------------------------------------
(* insert() leaves the table as it is, or adds the string to it. *)
LEMMA InsertIsSound ==
    ASSUME NEW old \in Sizes, NEW t, Sound(t, old), hash \in [String -> HashValue],
           NEW s \in String
    PROVE  /\ \E size \in Sizes : Sound(InsertInto(t, s), size)
           /\ IF \E j \in 1..Len(t.node) : t.node[j].string = s
              THEN Lookup(t, s) # 0 /\ InsertInto(t, s) = t
              ELSE Lookup(t, s) = 0 /\ Added(InsertInto(t, s), t, s)
<1>1. old \in Nat \ {0}
  BY SizesArePositive
<1>2. Finds(t, s, Lookup(t, s))
  BY <1>1, LookupFinds DEF Sound
<1>3. PICK n \in Nat : n = Len(t.node)
  BY DEF Sound, Shape
<1>4. CASE \E j \in 1..n : t.node[j].string = s
  <2>1. Lookup(t, s) # 0
    BY <1>2, <1>3, <1>4 DEF Finds
  <2>2. InsertInto(t, s) = t
    BY <2>1 DEF InsertInto, kInvalidID
  <2> QED
    BY <1>3, <1>4, <2>1, <2>2
<1>5. CASE \A j \in 1..n : t.node[j].string # s
  <2>1. Lookup(t, s) = 0
    <3>1. PICK found \in 0..n : found = Lookup(t, s)
      BY <1>2, <1>3 DEF Finds
    <3>2. found # 0 => t.node[found].string = s
      BY <1>2, <3>1 DEF Finds
    <3> QED
      BY <1>5, <3>1, <3>2
  <2>2. InsertInto(t, s) = Add(t, s)
    BY <2>1 DEF InsertInto, kInvalidID
  <2>3. Added(Add(t, s), t, s) /\ \E size \in Sizes : Sound(Add(t, s), size)
    BY <1>3, <1>5, AddIsSound
  <2> QED
    BY <1>3, <1>5, <2>1, <2>2, <2>3
<1> QED
  BY <1>3, <1>4, <1>5

(* ids[i] is the ID of the i-th smallest of the first k strings. *)
Sorts(name, ids, k) ==
    /\ ids \in [1..k -> 1..k]
    /\ \A i, j \in 1..k : i < j => name[ids[i]] < name[ids[j]]

LEMMA SortExtends ==
    ASSUME NEW n \in Nat, NEW name \in [1..n -> Nat],
           \A i, j \in 1..n : name[i] = name[j] => i = j,
           NEW k \in Nat, k + 1 <= n, NEW ids, Sorts(name, ids, k)
    PROVE  \E more : Sorts(name, more, k + 1)
<1>1. PICK x \in Nat : x = name[k + 1]
  OBVIOUS
<1>2. PICK v : v = [i \in 1..k |-> name[ids[i]]]
  OBVIOUS
<1>3. v \in [1..k -> Nat] /\ \A i \in 1..k : v[i] = name[ids[i]] /\ v[i] # x
  <2> SUFFICES ASSUME NEW i \in 1..k PROVE name[ids[i]] \in Nat /\ name[ids[i]] # x
    BY <1>2
  <2>1. PICK id \in 1..k : id = ids[i]
    BY DEF Sorts
  <2>2. id \in 1..n /\ k + 1 \in 1..n /\ id # k + 1
    BY <2>1
  <2> QED
    BY <1>1, <2>1, <2>2
<1>4. \A i, j \in 1..k : i < j => v[i] < v[j]
  BY <1>3 DEF Sorts
<1>5. PICK p \in 1..(k + 1) : /\ p # k + 1 => x < v[p]
                              /\ \A i \in 1..k : i < p => v[i] < x
  <2> DEFINE T == {i \in 1..(k + 1) : i # k + 1 => x < v[i]}
  <2>1. T \in SUBSET Nat /\ k + 1 \in T
    OBVIOUS
  <2>2. PICK p \in T : \A m \in T : p <= m
    BY <2>1, Least
  <2>3. ASSUME NEW i \in 1..k, i < p PROVE v[i] < x
    <3>1. ~ (i \in T)
      BY <2>2, <2>3
    <3>2. ~ (x < v[i])
      BY <3>1
    <3> QED
      BY <1>3, <3>2
  <2> QED
    BY <2>2, <2>3
<1> DEFINE more == [i \in 1..(k + 1) |-> IF i < p THEN ids[i]
                                         ELSE IF i = p THEN k + 1 ELSE ids[i - 1]]
<1>6. more \in [1..(k + 1) -> 1..(k + 1)]
  <2> SUFFICES ASSUME NEW i \in 1..(k + 1) PROVE more[i] \in 1..(k + 1)
    BY DEF more
  <2>1. i < p => i \in 1..k /\ ids[i] \in 1..k
    BY DEF Sorts
  <2>2. i > p => i - 1 \in 1..k /\ ids[i - 1] \in 1..k
    BY DEF Sorts
  <2> QED
    BY <2>1, <2>2
<1>7. \A i \in 1..(k + 1) : /\ i < p => i \in 1..k /\ name[more[i]] = v[i]
                            /\ i = p => name[more[i]] = x
                            /\ i > p => i - 1 \in 1..k /\ name[more[i]] = v[i - 1]
  <2> SUFFICES ASSUME NEW i \in 1..(k + 1)
               PROVE  /\ i < p => i \in 1..k /\ name[more[i]] = v[i]
                      /\ i = p => name[more[i]] = x
                      /\ i > p => i - 1 \in 1..k /\ name[more[i]] = v[i - 1]
    OBVIOUS
  <2>1. i < p => i \in 1..k
    OBVIOUS
  <2>2. i > p => i - 1 \in 1..k
    OBVIOUS
  <2> QED
    BY <1>1, <1>3, <2>1, <2>2
<1> HIDE DEF more
<1>8. ASSUME NEW i \in 1..(k + 1), NEW j \in 1..(k + 1), i < j
      PROVE  name[more[i]] < name[more[j]]
  <2>1. CASE i < p /\ j < p
    BY <1>4, <1>7, <1>8, <2>1
  <2>2. CASE i < p /\ j = p
    <3>1. i \in 1..k /\ v[i] < x
      BY <1>5, <1>7, <2>2
    <3>2. name[more[i]] = v[i] /\ name[more[j]] = x
      BY <1>7, <2>2
    <3> QED
      BY <3>1, <3>2
  <2>3. CASE i < p /\ j > p
    <3>1. i \in 1..k /\ j - 1 \in 1..k /\ i < j - 1
      BY <1>7, <2>3
    <3>2. v[i] < v[j - 1]
      BY <1>4, <3>1
    <3> QED
      BY <1>7, <2>3, <3>2
  <2>4. CASE i = p /\ j > p
    <3>1. j - 1 \in 1..k /\ p \in 1..k /\ p <= j - 1
      BY <1>7, <2>4
    <3>2. x < v[p]
      BY <1>5, <3>1
    <3>3. p = j - 1 \/ v[p] < v[j - 1]
      BY <1>4, <3>1
    <3>4. v[p] \in Nat /\ v[j - 1] \in Nat
      BY <1>3, <3>1
    <3>5. name[more[i]] = x /\ name[more[j]] = v[j - 1]
      BY <1>7, <2>4
    <3>6. PICK y \in Nat, z \in Nat : y = v[p] /\ z = v[j - 1]
      BY <3>4
    <3>7. x < y /\ y <= z
      <4>1. p = j - 1 => y = z
        BY <3>6
      <4> QED
        BY <3>2, <3>3, <3>6, <4>1
    <3>8. x < z
      BY <3>7
    <3> QED
      BY <3>5, <3>6, <3>8
  <2>5. CASE i > p /\ j > p
    <3>1. i - 1 \in 1..k /\ j - 1 \in 1..k /\ i - 1 < j - 1
      BY <1>7, <1>8, <2>5
    <3>2. v[i - 1] < v[j - 1]
      BY <1>4, <3>1
    <3> QED
      BY <1>7, <2>5, <3>2
  <2> QED
    BY <1>8, <2>1, <2>2, <2>3, <2>4, <2>5
<1> QED
  BY <1>6, <1>8 DEF Sorts

LEMMA SortExists ==
    ASSUME NEW n \in Nat, NEW name \in [1..n -> Nat],
           \A i, j \in 1..n : name[i] = name[j] => i = j
    PROVE  \E ids : Sorts(name, ids, n)
<1> DEFINE T == {k \in Nat : k <= n => \E ids : Sorts(name, ids, k)}
<1>1. 0 \in T
  <2>1. Sorts(name, [i \in 1..0 |-> i], 0)
    BY DEF Sorts
  <2> QED
    BY <2>1
<1>2. ASSUME NEW k \in T PROVE k + 1 \in T
  <2>1. SUFFICES ASSUME k + 1 <= n PROVE \E ids : Sorts(name, ids, k + 1)
    OBVIOUS
  <2>2. k \in Nat /\ \E ids : Sorts(name, ids, k)
    BY <2>1
  <2> QED
    BY <2>1, <2>2, SortExtends
<1> HIDE DEF T
<1>3. T \in SUBSET Nat
  BY DEF T
<1>4. n \in T
  BY <1>1, <1>2, <1>3, Induct
<1> QED
  BY <1>4 DEF T
-----------------------------------------------------------------------------
(* ids lists the IDs of t in the order of their strings. *)
InOrder(t, ids) ==
    LET n == Len(t.node) IN
    /\ ids \in [1..n -> 1..n]
    /\ \A i, j \in 1..n : i < j => t.node[ids[i]].string < t.node[ids[j]].string

LEMMA StringsOf ==
    ASSUME NEW size, NEW t, Shape(t, size)
    PROVE  /\ Len(t.node) \in Nat
           /\ \A i \in 1..Len(t.node) : /\ t.node[i].string \in String
                                        /\ t.node[i].string \in Nat
                                        /\ t.node[i].next \in Nat
<1>1. PICK N \in Seq(NodeRecord) : N = t.node
  BY DEF Shape
<1>2. \A i \in 1..Len(N) : N[i] \in NodeRecord
  BY <1>1
<1>3. \A r \in NodeRecord : r.string \in String /\ r.string \in Nat /\ r.next \in Nat
  BY TableAssumption DEF TableAssumption, NodeRecord
<1>4. Len(N) \in Nat
  OBVIOUS
<1> QED
  BY <1>1, <1>2, <1>3, <1>4

LEMMA SortedIs ==
    ASSUME NEW size \in Sizes, NEW t, Sound(t, size)
    PROVE  /\ InOrder(t, SortedStrings(t))
           /\ \A id \in 1..Len(t.node) : \E i \in 1..Len(t.node) : SortedStrings(t)[i] = id
<1>1. PICK n \in Nat : n = Len(t.node)
  BY DEF Sound, Shape
<1>2. PICK name : name = [i \in 1..n |-> t.node[i].string]
  OBVIOUS
<1>3. name \in [1..n -> Nat] /\ \A i \in 1..n : name[i] = t.node[i].string
  BY <1>1, <1>2, StringsOf DEF Sound
<1>4. \A i, j \in 1..n : name[i] = name[j] => i = j
  BY <1>1, <1>3 DEF Sound, Differ
<1>5. PICK known : Sorts(name, known, n)
  BY <1>3, <1>4, SortExists
<1>6. PICK ids : ids = SortedStrings(t)
  OBVIOUS
<1> DEFINE Good(f) == \A i, j \in 1..n : i < j => t.node[f[i]].string < t.node[f[j]].string
<1>7. known \in [1..n -> 1..n] /\ Good(known)
  <2>1. \A i \in 1..n : known[i] \in 1..n
    BY <1>5 DEF Sorts
  <2> QED
    BY <2>1, <1>3, <1>5 DEF Sorts
<1>8. ids = CHOOSE f \in [1..n -> 1..n] : Good(f)
  BY <1>1, <1>6 DEF SortedStrings
<1>9. ids \in [1..n -> 1..n] /\ Good(ids)
  <2> HIDE DEF Good
  <2> QED
    BY <1>7, <1>8
<1>10. InOrder(t, ids)
  BY <1>1, <1>9 DEF InOrder
<1>11. ASSUME NEW i \in 1..n, NEW j \in 1..n, ids[i] = ids[j]
       PROVE  i = j
  <2>1. PICK x \in Nat : x = t.node[ids[i]].string
    <3>1. PICK id \in 1..n : id = ids[i]
      BY <1>9
    <3> QED
      BY <3>1, <1>3
  <2>2. ~(x < x)
    OBVIOUS
  <2>3. ~(i < j)
    BY <1>9, <1>11, <2>1, <2>2
  <2>4. ~(j < i)
    BY <1>9, <1>11, <2>1, <2>2
  <2> QED
    BY <2>3, <2>4
<1>12. ids \in Injection(1..n, 1..n)
  BY <1>9, <1>11 DEF Injection, IsInjective
<1>13. IsFiniteSet(1..n)
  <2>1. PICK a \in Int, b \in Int : a = 1 /\ b = n
    OBVIOUS
  <2> QED
    BY <2>1, FS_Interval
<1>14. ids \in Surjection(1..n, 1..n)
  BY <1>12, <1>13, FS_Injection
<1>15. \A id \in 1..n : \E i \in 1..n : ids[i] = id
  BY <1>14 DEF Surjection
<1> QED
  BY <1>1, <1>6, <1>10, <1>15

(* A new table is empty and sound. *)
LEMMA NewIsSound ==
    /\ InitialSize \in Sizes
    /\ Len(NewTable.node) = 0
    /\ Sound(NewTable, InitialSize)
<1>1. InitialSize \in Sizes /\ InitialSize \in Nat \ {0}
  BY TableAssumption DEF TableAssumption, Sizes
<1>2. PICK B \in [0..(InitialSize - 1) -> Nat] : B = [b \in 0..(InitialSize - 1) |-> 0]
  OBVIOUS
<1>3. NewTable = [node |-> <<>>, bucket |-> B]
  BY <1>2 DEF NewTable, kInvalidID
<1>4. <<>> \in Seq(NodeRecord) /\ Len(<<>>) = 0
  OBVIOUS
<1>5. Shape(NewTable, InitialSize) /\ Len(NewTable.node) = 0
  BY <1>2, <1>3, <1>4 DEF Shape
<1>6. \A b \in 0..(InitialSize - 1) : NewTable.bucket[b] = 0
  BY <1>2, <1>3
<1>7. Linked(NewTable, 0, InitialSize)
  BY <1>6 DEF Linked, Heads, Nexts
<1> QED
  BY <1>1, <1>5, <1>7 DEF Sound, Differ

(* The sound tables, as a set. *)
SoundTables ==
    {u \in UNION {[node : Seq(NodeRecord), bucket : [0..(size - 1) -> Nat]] : size \in Sizes} :
        \E size \in Sizes : Sound(u, size)}

LEMMA SoundTablesAre ==
    ASSUME NEW u
    PROVE  u \in SoundTables <=> \E size \in Sizes : Sound(u, size)
BY DEF SoundTables, Sound, Shape

(* Copying the strings in order gives a sound table of them in that order. *)
LEMMA CopyIsSound ==
    ASSUME NEW old \in Sizes, NEW t, Sound(t, old), hash \in [String -> HashValue],
           NEW ids, InOrder(t, ids)
    PROVE  /\ Copy(t, ids) \in SoundTables
           /\ Len(Copy(t, ids).node) = Len(t.node)
           /\ \A i \in 1..Len(t.node) : Copy(t, ids).node[i].string = t.node[ids[i]].string
<1>1. PICK n \in Nat : n = Len(t.node)
  BY DEF Sound, Shape
<1>2. PICK s : s = [i \in 1..n |-> t.node[ids[i]].string]
  OBVIOUS
<1>3. s \in [1..n -> String] /\ \A i \in 1..n : s[i] = t.node[ids[i]].string
  <2>1. \A i \in 1..n : ids[i] \in 1..n
    BY <1>1 DEF InOrder
  <2>2. \A id \in 1..n : t.node[id].string \in String
    BY <1>1, StringsOf DEF Sound
  <2> QED
    BY <1>2, <2>1, <2>2
<1>4. \A i, j \in 1..n : i < j => s[i] # s[j]
  <2>1. \A i, j \in 1..n : i < j => s[i] < s[j]
    BY <1>1, <1>3 DEF InOrder
  <2>2. \A i \in 1..n : s[i] \in Nat
    BY <1>3, TableAssumption DEF TableAssumption
  <2> QED
    BY <2>1, <2>2
<1>5. ASSUME NEW u \in SoundTables, NEW i \in 1..n
      PROVE  InsertInto(u, s[i]) \in SoundTables
  <2>1. PICK size \in Sizes : Sound(u, size)
    BY SoundTablesAre
  <2>2. s[i] \in String
    BY <1>3
  <2> QED
    BY <2>1, <2>2, InsertIsSound, SoundTablesAre
<1>6. PICK base \in SoundTables : base = NewTable
  BY NewIsSound, SoundTablesAre
<1> DEFINE IsCopied(f) ==
              f = [k \in 0..n |-> IF k = 0 THEN NewTable
                                  ELSE InsertInto(f[k - 1], t.node[ids[k]].string)]
           Copied == CHOOSE f : IsCopied(f)
<1>7. \E f : IsCopied(f)
  <2>1. PICK V : V = SoundTables
    OBVIOUS
  <2>2. PICK G : G = [i \in 1..n |-> [u \in V |-> InsertInto(u, s[i])]]
    OBVIOUS
  <2>3. G \in [1..n -> [V -> V]] /\ \A i \in 1..n, u \in V : G[i][u] = InsertInto(u, s[i])
    BY <1>5, <2>1, <2>2
  <2>4. PICK next : next = [i \in 1..n |-> i - 1]
    OBVIOUS
  <2>5. GoesBack(next, n) /\ \A i \in 1..n : next[i] = i - 1
    BY <2>4 DEF GoesBack
  <2>6. base \in V
    BY <2>1
  <2>7. HasValues(n, V, base, next, G)
    BY <2>3, <2>5, <2>6, Recursion
  <2>8. PICK f \in [0..n -> V] : f[0] = base /\ \A i \in 1..n : f[i] = G[i][f[next[i]]]
    BY <2>7 DEF HasValues
  <2>9. \A i \in 1..n : f[i] = InsertInto(f[i - 1], t.node[ids[i]].string)
    <3> SUFFICES ASSUME NEW i \in 1..n
                 PROVE  f[i] = InsertInto(f[i - 1], t.node[ids[i]].string)
      OBVIOUS
    <3>1. PICK u \in V : u = f[i - 1]
      OBVIOUS
    <3>2. f[i] = G[i][u]
      BY <2>5, <2>8, <3>1
    <3> QED
      BY <1>3, <2>3, <3>1, <3>2
  <2>10. f = [k \in 0..n |-> IF k = 0 THEN NewTable
                             ELSE InsertInto(f[k - 1], t.node[ids[k]].string)]
    BY <1>6, <2>8, <2>9
  <2> QED
    BY <2>10
<1>8. PICK f : f = Copied
  OBVIOUS
<1>9. f[0] = NewTable /\ \A k \in 1..n : f[k] = InsertInto(f[k - 1], s[k])
  <2>1. IsCopied(f)
    BY <1>7, <1>8
  <2> QED
    BY <1>3, <2>1
<1>10. Copy(t, ids) = f[n]
  BY <1>1, <1>8 DEF Copy
<1> HIDE DEF IsCopied, Copied
<1> DEFINE Holds(u, k) == /\ u \in SoundTables
                          /\ Len(u.node) = k
                          /\ \A i \in 1..k : u.node[i].string = s[i]
           T == {k \in Nat : k <= n => Holds(f[k], k)}
<1>11. 0 \in T
  BY <1>6, <1>9, NewIsSound
<1>12. ASSUME NEW k \in T PROVE k + 1 \in T
  <2>1. SUFFICES ASSUME k + 1 <= n PROVE Holds(f[k + 1], k + 1)
    OBVIOUS
  <2>2. k \in Nat /\ k + 1 \in 1..n /\ Holds(f[k], k)
    BY <2>1
  <2>3. PICK u \in SoundTables : u = f[k]
    BY <2>2
  <2>4. PICK x \in String : x = s[k + 1]
    BY <1>3, <2>2
  <2>5. f[k + 1] = InsertInto(u, x)
    BY <1>9, <2>2, <2>3, <2>4
  <2>6. \A j \in 1..Len(u.node) : u.node[j].string # x
    BY <1>4, <2>2, <2>3, <2>4
  <2>7. PICK size \in Sizes : Sound(u, size)
    BY SoundTablesAre
  <2>8. Added(InsertInto(u, x), u, x) /\ InsertInto(u, x) \in SoundTables
    <3>1. \E z \in Sizes : Sound(InsertInto(u, x), z)
      BY <2>7, InsertIsSound
    <3>2. Added(InsertInto(u, x), u, x)
      BY <2>6, <2>7, InsertIsSound
    <3> QED
      BY <3>1, <3>2, SoundTablesAre
  <2>9. PICK w \in SoundTables : w = InsertInto(u, x)
    BY <2>8
  <2>10. Len(u.node) = k /\ \A i \in 1..k : u.node[i].string = s[i]
    BY <2>2, <2>3
  <2>11. Len(w.node) = k + 1
    BY <2>8, <2>9, <2>10 DEF Added
  <2>12. \A i \in 1..k : w.node[i].string = s[i]
    BY <2>8, <2>9, <2>10 DEF Added
  <2>13. w.node[k + 1].string = s[k + 1]
    BY <2>4, <2>8, <2>9, <2>10 DEF Added
  <2>14. \A i \in 1..(k + 1) : i \in 1..k \/ i = k + 1
    BY <2>2
  <2>15. \A i \in 1..(k + 1) : w.node[i].string = s[i]
    BY <2>12, <2>13, <2>14
  <2> QED
    BY <2>5, <2>9, <2>11, <2>15
<1>13. Holds(f[n], n)
  <2> HIDE DEF T
  <2>1. T \in SUBSET Nat
    BY DEF T
  <2>2. n \in T
    BY <1>11, <1>12, <2>1, Induct
  <2> QED
    BY <2>2 DEF T
<1> QED
  BY <1>1, <1>3, <1>10, <1>13
-----------------------------------------------------------------------------
(* The walk from the head of a bucket meets the IDs of the bucket. *)
LEMMA ChainIs ==
    ASSUME NEW size \in Nat \ {0}, Shape(table, size), Linked(table, Len(table.node), size),
           hash \in [String -> HashValue], NEW b \in 0..(size - 1)
    PROVE  ChainFrom(table.bucket[b]) =
               {id \in 1..Len(table.node) : Bucket(table.node[id].string, size) = b}
<1>1. PICK n \in Nat : n = Len(table.node)
  BY DEF Shape
<1>2. PICK next : next = [i \in 1..n |-> table.node[i].next]
  OBVIOUS
<1>3. PICK in : in = [i \in 1..n |-> Bucket(table.node[i].string, size)]
  OBVIOUS
<1>4. PICK head \in 0..n : head = table.bucket[b]
  BY <1>1 DEF Linked, Heads
<1>5. head # 0 => in[head] = b
  BY <1>1, <1>3, <1>4 DEF Linked, Heads
<1>6. \A j \in 1..n : head < j => in[j] # b
  BY <1>1, <1>3, <1>4 DEF Linked, Heads
<1>7. ASSUME NEW i \in 1..n
      PROVE  /\ next[i] \in 0..(i - 1)
             /\ next[i] # 0 => in[next[i]] = in[i]
             /\ \A j \in 1..(i - 1) : next[i] < j => in[j] # in[i]
  <2>1. PICK h \in 0..(i - 1) : h = table.node[i].next
    BY <1>1 DEF Linked, Nexts
  <2>2. h # 0 => Bucket(table.node[h].string, size) = Bucket(table.node[i].string, size)
    BY <1>1, <2>1 DEF Linked, Nexts
  <2>3. \A j \in 1..(i - 1) : h < j =>
           Bucket(table.node[j].string, size) # Bucket(table.node[i].string, size)
    BY <1>1, <2>1 DEF Linked, Nexts
  <2>4. next[i] = h /\ in[i] = Bucket(table.node[i].string, size)
    BY <1>2, <1>3, <2>1
  <2>5. \A j \in 1..(i - 1) : in[j] = Bucket(table.node[j].string, size)
    BY <1>3
  <2> QED
    BY <2>1, <2>2, <2>3, <2>4, <2>5
<1> DEFINE IsChain(f) ==
              f = [id \in 0..n |-> IF id = 0 THEN {} ELSE {id} \cup f[table.node[id].next]]
           Chain == CHOOSE f : IsChain(f)
<1>8. \E f : IsChain(f)
  <2>1. PICK V : V = SUBSET (0..n)
    OBVIOUS
  <2>2. PICK base \in V : base = {}
    BY <2>1
  <2>3. PICK G \in [1..n -> [V -> V]] : G = [i \in 1..n |-> [v \in V |-> {i} \cup v]]
    <3>1. \A i \in 1..n : [v \in V |-> {i} \cup v] \in [V -> V]
      BY <2>1
    <3> QED
      BY <3>1
  <2>4. GoesBack(next, n)
    BY <1>7 DEF GoesBack
  <2>5. HasValues(n, V, base, next, G)
    BY <2>4, Recursion
  <2>6. PICK f \in [0..n -> V] : f[0] = base /\ \A i \in 1..n : f[i] = G[i][f[next[i]]]
    BY <2>5 DEF HasValues
  <2>7. ASSUME NEW i \in 1..n
        PROVE  f[i] = {i} \cup f[table.node[i].next]
    <3>1. next[i] = table.node[i].next /\ next[i] \in 0..n
      BY <1>2, <1>7
    <3>2. PICK v \in V : v = f[next[i]]
      BY <3>1
    <3>3. f[i] = G[i][v]
      BY <2>6, <3>2
    <3>4. G[i][v] = {i} \cup v
      BY <2>3
    <3> QED
      BY <3>1, <3>2, <3>3, <3>4
  <2>8. f = [id \in 0..n |-> IF id = 0 THEN {} ELSE {id} \cup f[table.node[id].next]]
    <3>1. \A id \in 0..n : f[id] = IF id = 0 THEN {} ELSE {id} \cup f[table.node[id].next]
      <4> SUFFICES ASSUME NEW id \in 0..n
                   PROVE  f[id] = IF id = 0 THEN {} ELSE {id} \cup f[table.node[id].next]
        OBVIOUS
      <4>1. CASE id = 0
        BY <2>2, <2>6, <4>1
      <4>2. CASE id \in 1..n
        BY <2>7, <4>2
      <4> QED
        BY <4>1, <4>2
    <3> QED
      BY <3>1, <2>6
  <2> QED
    BY <2>8
<1>9. PICK f : f = Chain
  OBVIOUS
<1>10. f[0] = {} /\ \A i \in 1..n : f[i] = {i} \cup f[next[i]]
  <2>1. IsChain(f)
    BY <1>8, <1>9
  <2>2. \A id \in 0..n : f[id] = IF id = 0 THEN {} ELSE {id} \cup f[table.node[id].next]
    BY <2>1
  <2> HIDE DEF IsChain
  <2>3. \A i \in 1..n : next[i] = table.node[i].next /\ i \in 0..n /\ i # 0
    BY <1>2
  <2>4. f[0] = {}
    <3>1. \A id \in 0..n : id = 0 => f[id] = {}
      BY <2>2
    <3>2. 0 \in 0..n
      BY <1>1
    <3> QED
      BY <3>1, <3>2
  <2>5. ASSUME NEW i \in 1..n PROVE f[i] = {i} \cup f[next[i]]
    BY <2>2, <2>3
  <2> QED
    BY <2>4, <2>5
<1>11. ChainFrom(table.bucket[b]) = f[head]
  BY <1>1, <1>4, <1>9 DEF ChainFrom, kInvalidID
<1> HIDE DEF IsChain, Chain
<1> DEFINE P(i) == i # 0 => \A j : j \in f[i] <=> j \in 1..i /\ in[j] = in[i]
           T == {m \in Nat : \A i \in 0..m : i <= n => P(i)}
<1>12. P(0)
  OBVIOUS
<1>13. ASSUME NEW m \in T
       PROVE  m + 1 \in T
  <2>1. m \in Nat /\ \A i \in 0..m : i <= n => P(i)
    OBVIOUS
  <2>2. SUFFICES ASSUME m + 1 <= n PROVE P(m + 1)
    BY <2>1
  <2>3. PICK k \in 1..n : k = m + 1
    BY <2>1, <2>2
  <2>4. PICK h \in 0..(k - 1) : h = next[k]
    BY <1>7
  <2>5. f[k] = {k} \cup f[h]
    BY <1>10, <2>4
  <2>6. P(h)
    BY <2>1, <2>3, <2>4
  <2>7. CASE h = 0
    <3>1. f[h] = {}
      BY <1>10, <2>7
    <3>2. \A j \in 1..(k - 1) : in[j] # in[k]
      <4>1. \A j \in 1..(k - 1) : h < j => in[j] # in[k]
        BY <1>7, <2>4
      <4> QED
        BY <2>7, <4>1
    <3>3. ASSUME NEW j PROVE j \in f[k] <=> j \in 1..k /\ in[j] = in[k]
      BY <2>5, <3>1, <3>2
    <3> QED
      BY <2>3, <3>3
  <2>8. CASE h # 0
    <3>1. in[h] = in[k]
      BY <1>7, <2>4, <2>8
    <3>2. \A j : j \in f[h] <=> j \in 1..h /\ in[j] = in[k]
      BY <2>6, <2>8, <3>1
    <3>3. \A j \in 1..(k - 1) : h < j => in[j] # in[k]
      BY <1>7, <2>4
    <3>4. ASSUME NEW j PROVE j \in f[k] <=> j \in 1..k /\ in[j] = in[k]
      <4>1. j \in f[k] <=> j = k \/ (j \in 1..h /\ in[j] = in[k])
        BY <2>5, <3>2
      <4>2. j \in 1..k <=> j = k \/ j \in 1..h \/ (j \in 1..(k - 1) /\ h < j)
        BY <2>4, <2>8
      <4> QED
        BY <4>1, <4>2, <3>3
    <3> QED
      BY <2>3, <3>4
  <2> QED
    BY <2>7, <2>8
<1> HIDE DEF P
<1>14. P(head)
  <2>1. 0 \in T
    BY <1>12
  <2> HIDE DEF T
  <2>2. T \in SUBSET Nat
    BY DEF T
  <2>3. n \in T
    BY <1>1, <1>13, <2>1, <2>2, Induct
  <2> QED
    BY <2>3, <1>4 DEF T
<1>15. ASSUME NEW j PROVE j \in f[head] <=> j \in 1..n /\ in[j] = b
  <2>1. CASE head = 0
    <3>1. f[head] = {}
      BY <1>10, <2>1
    <3>2. \A i \in 1..n : in[i] # b
      BY <1>6, <2>1
    <3> QED
      BY <3>1, <3>2
  <2>2. CASE head # 0
    <3>1. j \in f[head] <=> j \in 1..head /\ in[j] = b
      BY <1>5, <1>14, <2>2 DEF P
    <3>2. j \in 1..n <=> j \in 1..head \/ (j \in 1..n /\ head < j)
      BY <1>4
    <3> QED
      BY <1>6, <3>1, <3>2
  <2> QED
    BY <2>1, <2>2
<1>16. \A j \in 1..n : in[j] = Bucket(table.node[j].string, size)
  BY <1>3
<1> QED
  BY <1>1, <1>11, <1>15, <1>16
-----------------------------------------------------------------------------
(* The inductive invariant. *)
Inv ==
    /\ hash \in [String -> HashValue]
    /\ \E size \in Sizes : Sound(table, size)
    /\ answer \in 0..Len(table.node)

LEMMA SoundAfter ==
    ASSUME hash' = hash, NEW u, table' = u, NEW size \in Sizes, Sound(u, size)
    PROVE  (\E z \in Sizes : Sound(table, z))'
<1>1. Sound(table, size)'
  BY DEF Sound, Shape, Linked, Heads, Nexts, Differ, Bucket
<1> QED
  BY <1>1

LEMMA InitInv == Init => Inv
BY NewIsSound DEF Init, Inv, kInvalidID

(* What each operation does to a table that is sound. *)
LEMMA InsertInv ==
    ASSUME Inv, NEW s \in String, Insert(s)
    PROVE  Inv'
<1>1. hash \in [String -> HashValue] /\ hash' = hash /\ table' = InsertInto(table, s)
  BY DEF Inv, Insert
<1>2. PICK old \in Sizes : Sound(table, old)
  BY DEF Inv
<1>3. PICK t : t = table
  OBVIOUS
<1>4. PICK u : u = table'
  OBVIOUS
<1>5. PICK n \in Nat : n = Len(t.node)
  BY <1>2, <1>3 DEF Sound, Shape
<1>6. Sound(t, old) /\ u = InsertInto(t, s)
  BY <1>1, <1>2, <1>3, <1>4
<1>7. \E size \in Sizes : Sound(u, size)
  BY <1>1, <1>6, InsertIsSound
<1>8. Finds(t, s, Lookup(t, s))
  BY <1>1, <1>6, SizesArePositive, LookupFinds DEF Sound
<1>9. answer' = IF Lookup(t, s) = 0 THEN n + 1 ELSE Lookup(t, s)
  BY <1>3, <1>5 DEF Insert, kInvalidID
<1>10. answer' \in 0..Len(u.node)
  <2>1. CASE \E j \in 1..n : t.node[j].string = s
    <3>1. Lookup(t, s) # 0 /\ u = t
      BY <1>1, <1>5, <1>6, <2>1, InsertIsSound
    <3> QED
      BY <1>5, <1>8, <1>9, <3>1 DEF Finds
  <2>2. CASE ~\E j \in 1..n : t.node[j].string = s
    <3>1. Lookup(t, s) = 0 /\ Added(u, t, s)
      BY <1>1, <1>5, <1>6, <2>2, InsertIsSound
    <3> QED
      BY <1>5, <1>9, <3>1 DEF Added
  <2> QED
    BY <2>1, <2>2
<1>11. (\E size \in Sizes : Sound(table, size))'
  BY <1>1, <1>4, <1>7, SoundAfter
<1> QED
  BY <1>1, <1>4, <1>10, <1>11 DEF Inv

LEMMA FinalizedInv ==
    ASSUME Inv, Finalized
    PROVE  Inv'
<1>1. hash \in [String -> HashValue] /\ hash' = hash /\ answer' = answer
  BY DEF Inv, Finalized
<1>2. PICK old \in Sizes : Sound(table, old)
  BY DEF Inv
<1>3. PICK ids : ids = SortedStrings(table)
  OBVIOUS
<1>4. PICK u : u = Copy(table, ids)
  OBVIOUS
<1>5. table' = u
  BY <1>3, <1>4 DEF Finalized
<1>6. InOrder(table, ids)
  BY <1>2, <1>3, SortedIs
<1>7. u \in SoundTables /\ Len(u.node) = Len(table.node)
  BY <1>1, <1>2, <1>4, <1>6, CopyIsSound
<1>8. (\E size \in Sizes : Sound(table, size))'
  BY <1>1, <1>5, <1>7, SoundAfter, SoundTablesAre
<1> QED
  BY <1>1, <1>5, <1>7, <1>8 DEF Inv

LEMMA NextInv == Inv /\ [Next]_vars => Inv'
<1> SUFFICES ASSUME Inv, [Next]_vars PROVE Inv'
  OBVIOUS
<1>1. CASE Finalized
  BY <1>1, FinalizedInv
<1>2. ASSUME NEW s \in String, Insert(s) PROVE Inv'
  BY <1>2, InsertInv
<1>3. ASSUME NEW s \in String, Id(s) PROVE Inv'
  <2>1. PICK old \in Sizes : Sound(table, old)
    BY DEF Inv
  <2>2. hash' = hash /\ table' = table /\ answer' = Lookup(table, s)
    BY <1>3 DEF Id
  <2>3. answer' \in 0..Len(table.node)
    BY <2>1, <2>2, SizesArePositive, LookupFinds DEF Sound, Finds, Inv
  <2>4. (\E size \in Sizes : Sound(table, size))'
    BY <2>1, <2>2, SoundAfter
  <2> QED
    BY <2>2, <2>3, <2>4 DEF Inv
<1>4. CASE UNCHANGED vars
  <2>1. hash' = hash /\ table' = table /\ answer' = answer
    BY <1>4 DEF vars
  <2>2. (\E size \in Sizes : Sound(table, size))'
    BY <2>1, SoundAfter DEF Inv
  <2> QED
    BY <2>1, <2>2 DEF Inv
<1> QED
  BY <1>1, <1>2, <1>3, <1>4 DEF Next

LEMMA AlwaysInv == Spec => []Inv
BY InitInv, NextInv, PTL DEF Spec

LEMMA InvIsChainsPartition == Inv => ChainsPartition
<1> SUFFICES ASSUME Inv PROVE ChainsPartition
  OBVIOUS
<1>1. PICK size \in Sizes : Sound(table, size)
  BY DEF Inv
<1>2. size \in Nat \ {0} /\ IndexSize(table) = size
  BY <1>1, SizesArePositive, IndexSizeIs DEF Sound
<1>3. PICK n \in Nat : n = Len(table.node)
  BY <1>1 DEF Sound, Shape
<1>4. PICK N \in Seq(NodeRecord) : N = table.node
  BY <1>1 DEF Sound, Shape
<1>5. PICK B \in [0..(size - 1) -> Nat] : B = table.bucket
  BY <1>1 DEF Sound, Shape
<1>6. \A id \in 1..n : N[id].next \in 0..(id - 1)
  BY <1>1, <1>3, <1>4 DEF Sound, Linked, Nexts
<1>7. \A c \in 0..(size - 1) : B[c] \in 0..n
  BY <1>1, <1>3, <1>5 DEF Sound, Linked, Heads
<1>8. table.node \in Seq([string : String, next : 0..n])
  <2>1. ASSUME NEW id \in 1..n PROVE N[id] \in [string : String, next : 0..n]
    <3>1. N[id] \in NodeRecord
      BY <1>3, <1>4
    <3>2. N[id].next \in 0..n
      BY <1>6
    <3> QED
      BY <3>1, <3>2 DEF NodeRecord
  <2>2. PICK R : R = [string : String, next : 0..n]
    OBVIOUS
  <2>3. \A id \in 1..Len(N) : N[id] \in R
    BY <2>1, <2>2, <1>3, <1>4
  <2>4. N \in Seq(R)
    BY <2>3, SeqDef
  <2> QED
    BY <2>2, <2>4, <1>4
<1>9. table.bucket \in [0..(size - 1) -> 0..n]
  BY <1>5, <1>7
<1>10. TypeOK
  BY <1>2, <1>3, <1>8, <1>9 DEF TypeOK, Inv
<1>11. \A id \in 1..n : table.node[id].next < id
  BY <1>4, <1>6
<1>12. \A b \in DOMAIN table.bucket :
          ChainFrom(table.bucket[b]) =
              {id \in 1..n : Bucket(table.node[id].string, size) = b}
  <2>1. DOMAIN table.bucket = 0..(size - 1)
    BY <1>5
  <2> QED
    BY <1>1, <1>2, <1>3, <2>1, ChainIs DEF Sound, Inv
<1> QED
  BY <1>2, <1>3, <1>10, <1>11, <1>12 DEF ChainsPartition

(* Every string stays on the chain of its bucket through every growth. *)
THEOREM TableChainsPartition == Spec => []ChainsPartition
BY AlwaysInv, InvIsChainsPartition, PTL
-----------------------------------------------------------------------------
(* What the callers see of a table. *)
Strings(t) == [id \in 1..Len(t.node) |-> t.node[id].string]

LEMMA StringsAre ==
    ASSUME NEW size, NEW t, Shape(t, size)
    PROVE  /\ Strings(t) \in Seq(Nat) /\ Len(Strings(t)) = Len(t.node)
           /\ \A i \in 1..Len(t.node) : Strings(t)[i] = t.node[i].string
<1>1. PICK n \in Nat : n = Len(t.node)
  BY DEF Shape
<1>2. \A i \in 1..n : t.node[i].string \in Nat
  BY <1>1, StringsOf
<1>3. Strings(t) \in [1..n -> Nat]
  BY <1>1, <1>2 DEF Strings
<1>4. Strings(t) \in Seq(Nat)
  BY <1>3, SeqDef
<1>5. Len(Strings(t)) = n
  BY <1>3, <1>4, LenProperties
<1> QED
  BY <1>1, <1>4, <1>5 DEF Strings

LEMMA AddedAppends ==
    ASSUME NEW old, NEW size, NEW t, NEW u, Shape(t, old), Shape(u, size),
           NEW s \in Nat, Added(u, t, s)
    PROVE  Strings(u) = Append(Strings(t), s)
<1>1. PICK S \in Seq(Nat), U \in Seq(Nat) : S = Strings(t) /\ U = Strings(u)
  BY StringsAre
<1>2. PICK n \in Nat : n = Len(S)
  OBVIOUS
<1>3. Len(t.node) = n /\ Len(u.node) = n + 1 /\ Len(U) = n + 1
  BY <1>1, <1>2, StringsAre DEF Added
<1>4. \A i \in 1..n : U[i] = S[i]
  <2> SUFFICES ASSUME NEW i \in 1..n PROVE U[i] = S[i]
    OBVIOUS
  <2>1. i \in 1..Len(t.node) /\ i \in 1..Len(u.node)
    BY <1>3
  <2>2. S[i] = t.node[i].string
    BY <1>1, <2>1, StringsAre
  <2>3. U[i] = u.node[i].string
    BY <1>1, <2>1, StringsAre
  <2>4. u.node[i].string = t.node[i].string
    BY <1>3 DEF Added
  <2> QED
    BY <2>2, <2>3, <2>4
<1>5. U[n + 1] = s
  <2>1. n + 1 \in 1..Len(u.node)
    BY <1>3
  <2>2. U[n + 1] = u.node[n + 1].string
    BY <1>1, <2>1, StringsAre
  <2>3. u.node[n + 1].string = s
    BY <1>3 DEF Added
  <2> QED
    BY <2>2, <2>3
<1>6. PICK A : A = Append(S, s)
  OBVIOUS
<1>7. /\ A \in Seq(Nat) /\ Len(A) = n + 1
      /\ A[n + 1] = s /\ \A i \in 1..n : A[i] = S[i]
  BY <1>2, <1>6
<1>8. \A i \in 1..(n + 1) : i \in 1..n \/ i = n + 1
  OBVIOUS
<1>9. \A i \in 1..Len(U) : U[i] = A[i]
  BY <1>3, <1>4, <1>5, <1>7, <1>8
<1>10. U = A
  BY <1>3, <1>7, <1>9, SeqEqual
<1> QED
  BY <1>1, <1>6, <1>10

LEMMA InitRefines == Init => Abstract!InternerInit
<1> SUFFICES ASSUME Init PROVE Abstract!InternerInit
  OBVIOUS
<1>1. table = NewTable /\ Len(table.node) = 0
  BY NewIsSound DEF Init
<1>2. Strings(table) = <<>>
  BY <1>1 DEF Strings
<1> QED
  BY <1>2 DEF Init, Abstract!InternerInit, Strings, kInvalidID

LEMMA InsertRefines ==
    ASSUME Inv, NEW s \in String, Insert(s)
    PROVE  Abstract!Intern(s)
<1>1. hash \in [String -> HashValue] /\ hash' = hash /\ renumber' = renumber
  BY DEF Inv, Insert
<1>2. PICK t, u : t = table /\ u = table'
  OBVIOUS
<1>3. PICK old \in Sizes : Sound(t, old)
  BY <1>2 DEF Inv
<1>4. u = InsertInto(t, s)
  BY <1>2 DEF Insert
<1>5. PICK size \in Sizes : Sound(u, size)
  BY <1>1, <1>3, <1>4, InsertIsSound
<1>6. s \in Nat
  BY TableAssumption DEF TableAssumption
<1>7. PICK n \in Nat : n = Len(t.node)
  BY <1>3 DEF Sound, Shape
<1>8. PICK S \in Seq(Nat) : S = Strings(t) /\ Len(S) = n /\ \A i \in 1..n : S[i] = t.node[i].string
  BY <1>3, <1>7, StringsAre DEF Sound
<1>9. PICK U \in Seq(Nat) : /\ U = Strings(u) /\ Len(U) = Len(u.node)
                            /\ \A i \in 1..Len(U) : U[i] = u.node[i].string
  BY <1>5, StringsAre DEF Sound
<1>10. Finds(t, s, Lookup(t, s))
  BY <1>1, <1>3, SizesArePositive, LookupFinds DEF Sound
<1>11. answer' = IF Lookup(t, s) = 0 THEN n + 1 ELSE Lookup(t, s)
  BY <1>2, <1>7 DEF Insert, kInvalidID
<1>12. /\ U = IF {i \in 1..n : S[i] = s} = {} THEN Append(S, s) ELSE S
       /\ answer' \in 1..Len(U) /\ U[answer'] = s
  <2>1. CASE \E j \in 1..n : t.node[j].string = s
    <3>1. Lookup(t, s) # 0 /\ u = t
      BY <1>1, <1>3, <1>4, <1>7, <2>1, InsertIsSound
    <3>2. PICK found \in 1..n : found = answer'
      BY <1>7, <1>10, <1>11, <3>1 DEF Finds
    <3>3. t.node[found].string = s
      BY <1>10, <1>11, <3>1, <3>2 DEF Finds
    <3>4. S[found] = s
      BY <1>8, <3>2, <3>3
    <3>5. U = S
      BY <1>8, <1>9, <3>1
    <3>6. {i \in 1..n : S[i] = s} # {}
      BY <3>4
    <3> QED
      BY <1>8, <3>2, <3>4, <3>5, <3>6
  <2>2. CASE ~\E j \in 1..n : t.node[j].string = s
    <3>1. Lookup(t, s) = 0 /\ Added(u, t, s)
      BY <1>1, <1>3, <1>4, <1>7, <2>2, InsertIsSound
    <3>2. U = Append(S, s)
      BY <1>3, <1>5, <1>6, <1>8, <1>9, <3>1, AddedAppends DEF Sound
    <3>3. {i \in 1..n : S[i] = s} = {}
      BY <1>8, <2>2
    <3>4. answer' = n + 1 /\ Len(U) = n + 1 /\ U[n + 1] = s
      BY <1>6, <1>8, <1>11, <3>1, <3>2
    <3> QED
      BY <3>2, <3>3, <3>4
  <2> QED
    BY <2>1, <2>2
<1>13. S = [id \in 1..Len(table.node) |-> table.node[id].string]
  BY <1>2, <1>8 DEF Strings
<1>14. U = [id \in 1..Len(table.node) |-> table.node[id].string]'
  BY <1>2, <1>9 DEF Strings
<1>15. Len([id \in 1..Len(table.node) |-> table.node[id].string]) = n
  BY <1>8, <1>13
<1> HIDE DEF Strings
<1> QED
  BY <1>1, <1>12, <1>13, <1>14, <1>15 DEF Abstract!Intern, Abstract!Position

LEMMA IdRefines ==
    ASSUME Inv, NEW s \in String, Id(s)
    PROVE  Abstract!Ask(s)
<1>1. /\ hash \in [String -> HashValue] /\ table' = table /\ renumber' = renumber
      /\ answer' = Lookup(table, s)
  BY DEF Inv, Id
<1>2. PICK t : t = table
  OBVIOUS
<1>3. PICK old \in Sizes : Sound(t, old)
  BY <1>2 DEF Inv
<1>4. PICK n \in Nat : n = Len(t.node)
  BY <1>3 DEF Sound, Shape
<1>5. PICK S \in Seq(Nat) : S = Strings(t) /\ Len(S) = n /\ \A i \in 1..n : S[i] = t.node[i].string
  BY <1>3, <1>4, StringsAre DEF Sound
<1>6. Finds(t, s, Lookup(t, s))
  BY <1>1, <1>3, SizesArePositive, LookupFinds DEF Sound
<1>7. PICK found \in 0..n : found = answer'
  BY <1>1, <1>2, <1>4, <1>6 DEF Finds
<1>8. answer' \in IF {i \in 1..n : S[i] = s} = {} THEN {0} ELSE {i \in 1..n : S[i] = s}
  <2>1. CASE found = 0
    <3>1. \A j \in 1..n : S[j] # s
      BY <1>1, <1>2, <1>4, <1>5, <1>6, <1>7, <2>1 DEF Finds
    <3>2. {i \in 1..n : S[i] = s} = {}
      BY <3>1
    <3> QED
      BY <1>7, <2>1, <3>2
  <2>2. CASE found # 0
    <3>1. found \in 1..n /\ t.node[found].string = s
      BY <1>1, <1>2, <1>6, <1>7, <2>2 DEF Finds
    <3>2. S[found] = s
      BY <1>5, <3>1
    <3>3. found \in {i \in 1..n : S[i] = s}
      BY <3>1, <3>2
    <3> QED
      BY <1>7, <3>3
  <2> QED
    BY <2>1, <2>2
<1>9. S = [id \in 1..Len(table.node) |-> table.node[id].string]
  BY <1>2, <1>5 DEF Strings
<1>10. S = [id \in 1..Len(table.node) |-> table.node[id].string]'
  BY <1>1, <1>2, <1>5 DEF Strings
<1>11. Len([id \in 1..Len(table.node) |-> table.node[id].string]) = n
  BY <1>5, <1>9
<1> HIDE DEF Strings
<1> QED
  BY <1>1, <1>8, <1>9, <1>10, <1>11 DEF Abstract!Ask, Abstract!Position

(* Interner's Renumber, of the sequences before and after. *)
Renumbers(S, U, new) ==
    /\ U \in [1..Len(S) -> {S[i] : i \in 1..Len(S)}]
    /\ \A i, j \in 1..Len(S) : i < j => U[i] < U[j]
    /\ new \in [1..Len(S) -> 1..Len(S)]
    /\ \A i \in 1..Len(S) : U[new[i]] = S[i]

LEMMA FinalizedRefines ==
    ASSUME Inv, Finalized
    PROVE  Abstract!Renumber
<1>1. hash \in [String -> HashValue] /\ answer' = answer /\ renumber = <<>>
  BY DEF Inv, Finalized
<1>2. PICK t, u, ids : t = table /\ u = table' /\ ids = SortedStrings(t)
  OBVIOUS
<1>3. PICK old \in Sizes : Sound(t, old)
  BY <1>2 DEF Inv
<1>4. u = Copy(t, ids)
  BY <1>2 DEF Finalized
<1>5. PICK n \in Nat : n = Len(t.node)
  BY <1>3 DEF Sound, Shape
<1>6. PICK S \in Seq(Nat) : S = Strings(t) /\ Len(S) = n /\ \A i \in 1..n : S[i] = t.node[i].string
  BY <1>3, <1>5, StringsAre DEF Sound
<1>7. InOrder(t, ids) /\ \A id \in 1..n : \E i \in 1..n : ids[i] = id
  BY <1>2, <1>3, <1>5, SortedIs
<1>8. /\ u \in SoundTables /\ Len(u.node) = n
      /\ \A i \in 1..n : u.node[i].string = t.node[ids[i]].string
  <2>1. /\ Copy(t, ids) \in SoundTables
        /\ Len(Copy(t, ids).node) = Len(t.node)
        /\ \A i \in 1..Len(t.node) : Copy(t, ids).node[i].string = t.node[ids[i]].string
    BY <1>1, <1>3, <1>7, CopyIsSound
  <2> QED
    BY <2>1, <1>4, <1>5
<1>9. PICK size \in Sizes : Sound(u, size)
  BY <1>8, SoundTablesAre
<1>10. PICK U \in Seq(Nat) : U = Strings(u) /\ Len(U) = n /\ \A i \in 1..n : U[i] = u.node[i].string
  BY <1>8, <1>9, StringsAre DEF Sound
<1>11. ASSUME NEW i \in 1..n
       PROVE  ids[i] \in 1..n /\ U[i] = S[ids[i]]
  <2>1. PICK id \in 1..n : id = ids[i]
    BY <1>5, <1>7 DEF InOrder
  <2> QED
    BY <1>6, <1>8, <1>10, <2>1
<1>12. ASSUME NEW i \in 1..n, NEW j \in 1..n, i < j
       PROVE  U[i] < U[j]
  <2>1. t.node[ids[i]].string < t.node[ids[j]].string
    BY <1>5, <1>7, <1>12 DEF InOrder
  <2> QED
    BY <1>8, <1>10, <2>1
<1>13. PICK new : new = [id \in 1..n |-> CHOOSE i \in 1..n : ids[i] = id]
  OBVIOUS
<1>14. renumber' = new
  BY <1>2, <1>5, <1>13 DEF Finalized
<1>15. ASSUME NEW id \in 1..n
       PROVE  new[id] \in 1..n /\ ids[new[id]] = id
  <2>1. \E i \in 1..n : ids[i] = id
    BY <1>7
  <2>2. new[id] = CHOOSE i \in 1..n : ids[i] = id
    BY <1>13
  <2> QED
    BY <2>1, <2>2
<1>16. new \in [1..n -> 1..n]
  BY <1>13, <1>15
<1>17. \A i \in 1..n : U[new[i]] = S[i]
  BY <1>11, <1>15
<1>18. U \in [1..n -> {S[i] : i \in 1..n}]
  <2>1. \A i \in 1..n : U[i] \in {S[j] : j \in 1..n}
    BY <1>11
  <2>2. DOMAIN U = 1..n
    BY <1>10
  <2>3. U = [i \in 1..n |-> U[i]]
    BY <1>10, <2>2
  <2> QED
    BY <2>1, <2>3
<1>19. Renumbers(S, U, new)
  BY <1>6, <1>12, <1>16, <1>17, <1>18 DEF Renumbers
<1>20. S = Strings(table) /\ U = Strings(table')
  BY <1>2, <1>6, <1>10
<1>21. Renumbers(Strings(table), Strings(table'), renumber')
  BY <1>14, <1>19, <1>20
<1> QED
  BY <1>1, <1>21 DEF Abstract!Renumber, Renumbers, Strings

LEMMA NextRefines == Inv /\ [Next]_vars => [Abstract!InternerNext]_(Abstract!internerVars)
<1> SUFFICES ASSUME Inv, [Next]_vars
             PROVE  [Abstract!InternerNext]_(Abstract!internerVars)
  OBVIOUS
<1>1. CASE Finalized
  BY <1>1, FinalizedRefines DEF Abstract!InternerNext
<1>2. ASSUME NEW s \in String, Insert(s)
      PROVE  [Abstract!InternerNext]_(Abstract!internerVars)
  BY <1>2, InsertRefines DEF Abstract!InternerNext
<1>3. ASSUME NEW s \in String, Id(s)
      PROVE  [Abstract!InternerNext]_(Abstract!internerVars)
  BY <1>3, IdRefines DEF Abstract!InternerNext
<1>4. CASE UNCHANGED vars
  BY <1>4 DEF vars, Abstract!internerVars
<1> QED
  BY <1>1, <1>2, <1>3, <1>4 DEF Next

(* The hash table implements the Interner. *)
THEOREM TableIsAnInterner == Spec => InternerSpec
<1>1. Init => Abstract!InternerInit
  BY InitRefines
<1>2. Inv /\ [Next]_vars => [Abstract!InternerNext]_(Abstract!internerVars)
  BY NextRefines
<1> QED
  BY <1>1, <1>2, AlwaysInv, PTL DEF Spec, InternerSpec, Abstract!InternerSpec
=============================================================================
