------------------------- MODULE IndexBuildProofs --------------------------
(***************************************************************************)
(* Proofs about IndexBuild, for any translation units, contexts and        *)
(* archives: what its inductive invariant BuildInv says is so of every     *)
(* state, hence that a finalized index only changes by being written       *)
(* (ReadOnlyStays), that the caches of the builders agree with the index   *)
(* they build (CachesAgree), that a finalized index has one representation *)
(* (FinalizedIsCanonical), that the index that is opened holds what was    *)
(* recorded and nothing else (FactIndexSpec), and that the navigator finds *)
(* it there (NavigatorFinds).                                              *)
(*                                                                         *)
(* BuildInv says, of each index that is alive, which occurrences it was    *)
(* told: the facts in its tables, decoded through its string tables, are   *)
(* those of the occurrences (Follows).  An ID is only a name within one    *)
(* index; all that is compared between two indices is decoded.             *)
(***************************************************************************)
EXTENDS IndexFileProofs

-----------------------------------------------------------------------------
(* Insertion: s is seq with what is new of S behind it.                    *)
Adds(X, seq, S, s) ==
    /\ s \in Seq(X) /\ OneToOne(Len(s), s) /\ Len(seq) <= Len(s)
    /\ \A i \in 1..Len(seq) : s[i] = seq[i]
    /\ \A x \in S : Has(s, x)
    /\ \A i \in 1..Len(s) : i \in 1..Len(seq) \/ s[i] \in S

LEMMA Position ==
    ASSUME NEW X, NEW s \in Seq(X), NEW x, Has(s, x)
    PROVE  IdOf(s, x) \in 1..Len(s) /\ s[IdOf(s, x)] = x
<1>1. \E i \in DOMAIN s : s[i] = x
  BY DEF Has
<1>2. DOMAIN s = 1..Len(s)
  OBVIOUS
<1> QED
  BY <1>1, <1>2 DEF IdOf

LEMMA Inserting ==
    ASSUME NEW X, NEW seq \in Seq(X), OneToOne(Len(seq), seq), NEW x \in X
    PROVE  Adds(X, seq, {x}, Inserted(seq, x))
<1>1. DOMAIN seq = 1..Len(seq) /\ Len(seq) \in Nat
  OBVIOUS
<1>2. CASE Has(seq, x)
  <2>1. Inserted(seq, x) = seq
    BY <1>2 DEF Inserted
  <2> QED
    BY <1>1, <1>2, <2>1 DEF Adds
<1>3. CASE ~Has(seq, x)
  <2>1. PICK s : s = Append(seq, x)
    OBVIOUS
  <2>2. Inserted(seq, x) = s
    BY <1>3, <2>1 DEF Inserted
  <2>3. PICK n \in Nat : n = Len(seq)
    BY <1>1
  <2>4. s \in Seq(X) /\ Len(s) = n + 1 /\ s[n + 1] = x /\ \A i \in 1..n : s[i] = seq[i]
    BY <2>1, <2>3
  <2>5. \A i \in 1..n : seq[i] # x
    BY <1>1, <1>3, <2>3 DEF Has
  <2>6. \A i \in 1..(n + 1) : i = n + 1 \/ i \in 1..n
    OBVIOUS
  <2>7. OneToOne(n + 1, s)
    <3> SUFFICES ASSUME NEW i \in 1..(n + 1), NEW j \in 1..(n + 1), s[i] = s[j]
                 PROVE  i = j
      BY DEF OneToOne
    <3>1. CASE i \in 1..n /\ j \in 1..n
      BY <2>3, <2>4, <3>1 DEF OneToOne
    <3>2. CASE i = n + 1 /\ j \in 1..n
      BY <2>4, <2>5, <3>2
    <3>3. CASE j = n + 1 /\ i \in 1..n
      BY <2>4, <2>5, <3>3
    <3> QED
      BY <2>6, <3>1, <3>2, <3>3
  <2>8. Has(s, x)
    <3>1. DOMAIN s = 1..(n + 1)
      <4>1. DOMAIN s = 1..Len(s)
        BY <2>4
      <4> QED
        BY <2>4, <4>1
    <3> QED
      BY <2>4, <3>1 DEF Has
  <2> QED
    BY <2>2, <2>3, <2>4, <2>6, <2>7, <2>8 DEF Adds
<1> QED
  BY <1>2, <1>3

LEMMA AddsMore ==
    ASSUME NEW X, NEW seq, NEW S, NEW T, NEW s, NEW r, Len(seq) \in Nat,
           Adds(X, seq, S, s), Adds(X, s, T, r)
    PROVE  Adds(X, seq, S \cup T, r)
<1>1. PICK k \in Nat, m \in Nat, n \in Nat : k = Len(seq) /\ m = Len(s) /\ n = Len(r)
  BY DEF Adds
<1>2. /\ k <= m /\ \A i \in 1..k : s[i] = seq[i]
      /\ \A x \in S : Has(s, x)
      /\ \A i \in 1..m : i \in 1..k \/ s[i] \in S
  BY <1>1 DEF Adds
<1>3. /\ r \in Seq(X) /\ OneToOne(n, r) /\ m <= n /\ \A i \in 1..m : r[i] = s[i]
      /\ \A x \in T : Has(r, x)
      /\ \A i \in 1..n : i \in 1..m \/ r[i] \in T
  BY <1>1 DEF Adds
<1>4. ASSUME NEW x \in S PROVE Has(r, x)
  <2>1. PICK i \in DOMAIN s : s[i] = x
    BY <1>2 DEF Has
  <2>2. DOMAIN s = 1..m
    <3>1. s \in Seq(X)
      BY DEF Adds
    <3>2. DOMAIN s = 1..Len(s)
      BY <3>1
    <3> QED
      BY <1>1, <3>2
  <2>3. DOMAIN r = 1..n
    <3>1. DOMAIN r = 1..Len(r)
      BY <1>3
    <3> QED
      BY <1>1, <3>1
  <2>4. i \in DOMAIN r /\ r[i] = x
    BY <1>1, <1>3, <2>1, <2>2, <2>3
  <2> QED
    BY <2>4 DEF Has
<1>5. \A i \in 1..k : r[i] = seq[i]
  BY <1>1, <1>2, <1>3
<1>6. \A i \in 1..n : i \in 1..k \/ r[i] \in S \cup T
  BY <1>1, <1>2, <1>3
<1> QED
  BY <1>1, <1>2, <1>3, <1>4, <1>5, <1>6 DEF Adds

(* Insertion of one after the other.                                       *)
LEMMA InsertingAll ==
    ASSUME NEW X, NEW seq \in Seq(X), OneToOne(Len(seq), seq), NEW xs \in Seq(X)
    PROVE  Adds(X, seq, {xs[i] : i \in 1..Len(xs)}, InsertAll(seq, xs))
<1>1. PICK n \in Nat : n = Len(xs)
  OBVIOUS
<1>2. \A i \in 1..n : xs[i] \in X
  BY <1>1
<1>3. PICK One : One = {s \in Seq(X) : OneToOne(Len(s), s)}
  OBVIOUS
<1>4. PICK G : G = [i \in 1..n |-> [s \in One |-> Inserted(s, xs[i])]]
  OBVIOUS
<1>5. G \in [1..n -> [One -> One]]
  <2>1. ASSUME NEW i \in 1..n, NEW s \in One PROVE Inserted(s, xs[i]) \in One
    <3>1. s \in Seq(X) /\ OneToOne(Len(s), s)
      BY <1>3
    <3>2. Adds(X, s, {xs[i]}, Inserted(s, xs[i]))
      BY <1>2, <3>1, Inserting
    <3> QED
      BY <1>3, <3>2 DEF Adds
  <2> QED
    BY <1>4, <2>1
<1>6. seq \in One
  BY <1>3
<1>7. Counts(n, One, seq, G)
  BY <1>5, <1>6, Counting
<1>8. PICK f \in [0..n -> One] : f[0] = seq /\ \A i \in 1..n : f[i] = G[i][f[i - 1]]
  BY <1>7 DEF Counts
<1>9. ASSUME NEW i \in 1..n PROVE f[i] = Inserted(f[i - 1], xs[i])
  <2>1. PICK h \in 0..n : h = i - 1
    OBVIOUS
  <2>2. PICK s \in One : s = f[h]
    BY <1>8
  <2>3. G[i][s] = Inserted(s, xs[i])
    BY <1>4
  <2> QED
    BY <1>8, <2>1, <2>2, <2>3
<1> DEFINE IsF(g) == g = [i \in 0..n |-> IF i = 0 THEN seq ELSE Inserted(g[i - 1], xs[i])]
           F == CHOOSE g : IsF(g)
<1>10. IsF(f)
  <2>1. \A i \in 0..n : i = 0 \/ i \in 1..n
    OBVIOUS
  <2>2. \A i \in 0..n : f[i] = IF i = 0 THEN seq ELSE Inserted(f[i - 1], xs[i])
    BY <1>8, <1>9, <2>1
  <2>3. f = [i \in 0..n |-> f[i]]
    BY <1>8
  <2> QED
    BY <2>2, <2>3
<1>11. IsF(F)
  BY <1>10
<1>12. InsertAll(seq, xs) = F[n]
  BY <1>1 DEF InsertAll
<1> HIDE DEF F
<1> DEFINE P(m) == Adds(X, seq, {xs[i] : i \in 1..m}, F[m])
           T == {m \in Nat : m \in 0..n => P(m)}
<1>13. 0 \in T
  <2>1. F[0] = seq
    BY <1>11
  <2>2. {xs[i] : i \in 1..0} = {}
    OBVIOUS
  <2>3. Adds(X, seq, {}, seq)
    BY DEF Adds
  <2>4. P(0)
    BY <2>1, <2>2, <2>3
  <2> QED
    <3> HIDE DEF P
    <3> QED
      BY <2>4
<1>14. ASSUME NEW m \in Nat, m \in T PROVE m + 1 \in T
  <2> SUFFICES ASSUME m + 1 \in 1..n PROVE P(m + 1)
    BY <1>14
  <2>1. PICK k \in 1..n : k = m + 1 /\ k - 1 = m /\ k \in 0..n /\ k # 0 /\ m \in 0..n
    OBVIOUS
  <2>2. PICK S : S = {xs[i] : i \in 1..m}
    OBVIOUS
  <2>3. PICK s : s = F[m]
    OBVIOUS
  <2>4. Adds(X, seq, S, s)
    BY <1>14, <2>1, <2>2, <2>3
  <2>5. s \in Seq(X) /\ OneToOne(Len(s), s)
    BY <2>4 DEF Adds
  <2>6. F[k] = Inserted(s, xs[k])
    BY <1>11, <2>1, <2>3
  <2>7. Adds(X, s, {xs[k]}, F[k])
    BY <1>2, <2>5, <2>6, Inserting
  <2>8. Adds(X, seq, S \cup {xs[k]}, F[k])
    <3>1. Len(seq) \in Nat
      OBVIOUS
    <3> QED
      BY <2>4, <2>7, <3>1, AddsMore
  <2>9. S \cup {xs[k]} = {xs[i] : i \in 1..k}
    <3>1. \A i \in 1..k : i = k \/ i \in 1..m
      BY <2>1
    <3>2. \A i \in 1..m : i \in 1..k
      BY <2>1
    <3>3. k \in 1..k
      OBVIOUS
    <3>4. ASSUME NEW x \in {xs[i] : i \in 1..k} PROVE x \in S \cup {xs[k]}
      BY <2>2, <3>1
    <3>5. ASSUME NEW x \in S \cup {xs[k]} PROVE x \in {xs[i] : i \in 1..k}
      BY <2>2, <3>2, <3>3
    <3> QED
      BY <3>4, <3>5
  <2>10. P(k)
    BY <2>8, <2>9
  <2> QED
    BY <2>1, <2>10
<1>15. T = Nat
  <2> HIDE DEF T
  <2>1. T \in SUBSET Nat
    BY DEF T
  <2> QED
    BY <1>13, <1>14, <2>1, Induct
<1>16. P(n)
  <2>1. n \in T
    <3> HIDE DEF T
    <3> QED
      BY <1>15
  <2>2. n \in 0..n
    OBVIOUS
  <2> QED
    BY <2>1, <2>2
<1> QED
  BY <1>1, <1>12, <1>16

-----------------------------------------------------------------------------
(* Well-formed indices, and what they say.                                 *)
Base == {"Reference", "Symbol", "GlobalSymbol"}
Width(t) == Len(Schema[t])

AreStrings(ss) == ss \in [Names -> Seq(Nat)] /\ \A n \in Names : OneToOne(Len(ss[n]), ss[n])

InRange(ss, t, row) ==
    \A c \in 1..Width(t) : Schema[t][c] # "" => row[c] \in 1..Len(ss[Schema[t][c]])

AreRows(ss, t, rows) ==
    /\ rows \in Seq(Row(Width(t))) /\ OneToOne(Len(rows), rows)
    /\ \A i \in 1..Len(rows) : InRange(ss, t, rows[i])

WellFormed(ix, D) ==
    /\ ix \in Indices /\ D \in SUBSET Tables /\ DOMAIN ix.rows = D
    /\ AreStrings(ix.strings)
    /\ \A t \in D : AreRows(ix.strings, t, ix.rows[t])

Decoded(ss, t, row) ==
    [c \in 1..Width(t) |-> IF Schema[t][c] = "" THEN row[c] ELSE ss[Schema[t][c]][row[c]]]

Says(ss, t, rows) == {Decoded(ss, t, rows[i]) : i \in 1..Len(rows)}

Texts(ix, n) == Held(ix.strings[n])

(* Tables of strings that have only become longer.                         *)
Grown(ss, tt) ==
    \A n \in Names : Len(ss[n]) <= Len(tt[n]) /\ \A i \in 1..Len(ss[n]) : tt[n][i] = ss[n][i]

LEMMA Widths ==
    /\ Width("Reference") = 6 /\ Width("ReferenceIndex") = 6 /\ Width("Symbol") = 2
    /\ Width("SymbolTypeIndex") = 2 /\ Width("GlobalSymbol") = 1
    /\ \A t \in Tables : Width(t) \in Nat
BY DEF Width, Schema, Tables

LEMMA Columned ==
    ASSUME NEW t \in Tables, NEW c \in 1..Width(t)
    PROVE  Schema[t][c] = "" \/ Schema[t][c] \in Names
<1>1. PICK s : s = Schema[t]
  OBVIOUS
<1>2. PICK S : S = Names \cup {""}
  OBVIOUS
<1>3. s \in Seq(S)
  BY <1>1, <1>2, SchemaFacts
<1>4. c \in 1..Len(s)
  BY <1>1 DEF Width
<1>5. s[c] \in S
  BY <1>3, <1>4
<1> QED
  BY <1>1, <1>2, <1>5

LEMMA RowType ==
    ASSUME NEW w \in Nat
    PROVE  Seq(Row(w)) \in SUBSET Rows
<1>1. ASSUME NEW r \in Row(w) PROVE r \in Seq(Nat)
  BY DEF Row
<1>2. ASSUME NEW s \in Seq(Row(w)) PROVE s \in Rows
  <2>1. s \in [1..Len(s) -> Row(w)] /\ Len(s) \in Nat
    OBVIOUS
  <2>2. s \in [1..Len(s) -> Seq(Nat)]
    BY <1>1, <2>1
  <2> QED
    BY <2>1, <2>2 DEF Rows
<1> QED
  BY <1>2

LEMMA Assembled ==
    ASSUME NEW D \in SUBSET Tables, NEW ss, AreStrings(ss), NEW rows, DOMAIN rows = D,
           rows = [t \in D |-> rows[t]], \A t \in D : AreRows(ss, t, rows[t]),
           NEW finalized \in SUBSET Names, NEW readonly \in SUBSET Tables, NEW ix,
           ix = [strings |-> ss, finalized |-> finalized, rows |-> rows, readonly |-> readonly]
    PROVE  WellFormed(ix, D)
<1>1. \A t \in D : rows[t] \in Rows
  <2> TAKE t \in D
  <2>1. rows[t] \in Seq(Row(Width(t)))
    BY DEF AreRows
  <2> QED
    BY <2>1, Widths, RowType
<1>2. rows \in [D -> Rows]
  BY <1>1
<1>3. rows \in TableMaps
  BY <1>2 DEF TableMaps
<1>4. ss \in [Names -> Seq(Nat)]
  BY DEF AreStrings
<1>5. ix \in Indices
  BY <1>3, <1>4 DEF Indices
<1> QED
  BY <1>5 DEF WellFormed

LEMMA Parts ==
    ASSUME NEW ix \in Indices
    PROVE  /\ ix = [strings |-> ix.strings, finalized |-> ix.finalized, rows |-> ix.rows,
                    readonly |-> ix.readonly]
           /\ ix.strings \in [Names -> Seq(Nat)]
           /\ ix.finalized \in SUBSET Names /\ ix.readonly \in SUBSET Tables
           /\ DOMAIN ix.rows \in SUBSET Tables /\ ix.rows = [t \in DOMAIN ix.rows |-> ix.rows[t]]
<1>1. /\ ix = [strings |-> ix.strings, finalized |-> ix.finalized, rows |-> ix.rows,
               readonly |-> ix.readonly]
      /\ ix.strings \in [Names -> Seq(Nat)] /\ ix.rows \in TableMaps
      /\ ix.finalized \in SUBSET Names /\ ix.readonly \in SUBSET Tables
  BY DEF Indices
<1>2. PICK D \in SUBSET Tables : ix.rows \in [D -> Rows]
  BY <1>1 DEF TableMaps
<1> QED
  BY <1>1, <1>2

LEMMA Decoding ==
    ASSUME NEW ix, NEW t \in Tables, NEW row \in Row(Width(t))
    PROVE  Decode(ix, t, row) = Decoded(ix.strings, t, row)
<1>1. DOMAIN row = 1..Width(t)
  BY DEF Row
<1> QED
  BY <1>1 DEF Decode, Decoded

LEMMA Saying ==
    ASSUME NEW ix, NEW t \in Tables, t \in DOMAIN ix.rows, AreRows(ix.strings, t, ix.rows[t])
    PROVE  Relation(ix, t) = Says(ix.strings, t, ix.rows[t])
<1>1. PICK rows : rows = ix.rows[t]
  OBVIOUS
<1>2. rows \in Seq(Row(Width(t)))
  BY <1>1 DEF AreRows
<1>3. DOMAIN rows = 1..Len(rows) /\ \A i \in 1..Len(rows) : rows[i] \in Row(Width(t))
  BY <1>2
<1>4. \A i \in 1..Len(rows) : Decode(ix, t, rows[i]) = Decoded(ix.strings, t, rows[i])
  BY <1>3, Decoding
<1>5. Relation(ix, t) = {Decode(ix, t, rows[i]) : i \in 1..Len(rows)}
  BY <1>1, <1>3 DEF Relation
<1> QED
  BY <1>1, <1>4, <1>5 DEF Says

LEMMA Apart ==
    ASSUME NEW t \in Tables, NEW ss, AreStrings(ss),
           NEW x \in Row(Width(t)), NEW y \in Row(Width(t)), InRange(ss, t, x), InRange(ss, t, y),
           Decoded(ss, t, x) = Decoded(ss, t, y)
    PROVE  x = y
<1>1. ASSUME NEW c \in 1..Width(t) PROVE x[c] = y[c]
  <2>1. Decoded(ss, t, x)[c] = Decoded(ss, t, y)[c]
    OBVIOUS
  <2>2. CASE Schema[t][c] = ""
    BY <2>1, <2>2 DEF Decoded
  <2>3. CASE Schema[t][c] # ""
    <3>1. PICK n \in Names : n = Schema[t][c]
      BY <2>3, Columned
    <3>2. ss[n][x[c]] = ss[n][y[c]]
      BY <2>1, <2>3, <3>1 DEF Decoded
    <3>3. x[c] \in 1..Len(ss[n]) /\ y[c] \in 1..Len(ss[n])
      BY <2>3, <3>1 DEF InRange
    <3> QED
      BY <3>2, <3>3 DEF AreStrings, OneToOne
  <2> QED
    BY <2>2, <2>3
<1>2. PICK w : w = Width(t)
  OBVIOUS
<1>3. x \in [1..w -> Nat] /\ y \in [1..w -> Nat]
  BY <1>2 DEF Row
<1>4. x = [c \in 1..w |-> x[c]] /\ y = [c \in 1..w |-> y[c]]
  BY <1>3
<1> QED
  BY <1>1, <1>2, <1>4

LEMMA StillInRange ==
    ASSUME NEW t \in Tables, NEW ss, AreStrings(ss), NEW tt, AreStrings(tt), Grown(ss, tt),
           NEW row, InRange(ss, t, row)
    PROVE  InRange(tt, t, row) /\ Decoded(tt, t, row) = Decoded(ss, t, row)
<1>1. ASSUME NEW c \in 1..Width(t), Schema[t][c] # ""
      PROVE  /\ row[c] \in 1..Len(tt[Schema[t][c]])
             /\ tt[Schema[t][c]][row[c]] = ss[Schema[t][c]][row[c]]
  <2>1. PICK n \in Names : n = Schema[t][c]
    BY <1>1, Columned
  <2>2. row[c] \in 1..Len(ss[n])
    BY <1>1, <2>1 DEF InRange
  <2>3. Len(ss[n]) \in Nat /\ Len(tt[n]) \in Nat
    BY DEF AreStrings
  <2>4. Len(ss[n]) <= Len(tt[n]) /\ \A i \in 1..Len(ss[n]) : tt[n][i] = ss[n][i]
    BY DEF Grown
  <2> QED
    BY <2>1, <2>2, <2>3, <2>4, SMTT(40)
<1>2. InRange(tt, t, row)
  BY <1>1 DEF InRange
<1>3. Decoded(tt, t, row) = Decoded(ss, t, row)
  BY <1>1 DEF Decoded
<1> QED
  BY <1>2, <1>3

LEMMA StillRows ==
    ASSUME NEW t \in Tables, NEW ss, AreStrings(ss), NEW tt, AreStrings(tt), Grown(ss, tt),
           NEW rows, AreRows(ss, t, rows)
    PROVE  AreRows(tt, t, rows) /\ Says(tt, t, rows) = Says(ss, t, rows)
<1>1. \A i \in 1..Len(rows) : /\ InRange(tt, t, rows[i])
                              /\ Decoded(tt, t, rows[i]) = Decoded(ss, t, rows[i])
  <2> TAKE i \in 1..Len(rows)
  <2>1. InRange(ss, t, rows[i])
    BY DEF AreRows
  <2> QED
    BY <2>1, StillInRange
<1> QED
  BY <1>1 DEF AreRows, Says

-----------------------------------------------------------------------------
(* A string, or a row, is added to an index.                               *)
Inserts(ix, D, n, s, jx) ==
    /\ WellFormed(jx, D) /\ jx.rows = ix.rows
    /\ jx.finalized = ix.finalized /\ jx.readonly = ix.readonly
    /\ Grown(ix.strings, jx.strings)
    /\ \A t \in D : Relation(jx, t) = Relation(ix, t)
    /\ \A m \in Names : Texts(jx, m) = Texts(ix, m) \cup (IF m = n THEN {s} ELSE {})
    /\ IdOf(jx.strings[n], s) \in 1..Len(jx.strings[n])
    /\ jx.strings[n][IdOf(jx.strings[n], s)] = s

Grows(ix, D, t, fact, jx) ==
    /\ WellFormed(jx, D) /\ jx.strings = ix.strings
    /\ jx.finalized = ix.finalized /\ jx.readonly = ix.readonly
    /\ \A u \in D : Relation(jx, u) = Relation(ix, u) \cup (IF u = t THEN {fact} ELSE {})

LEMMA GrownTexts ==
    ASSUME NEW seq \in Seq(Nat), NEW S, NEW s, Adds(Nat, seq, S, s)
    PROVE  Held(s) = Held(seq) \cup S
<1>1. /\ s \in Seq(Nat) /\ Len(seq) <= Len(s)
      /\ \A i \in 1..Len(seq) : s[i] = seq[i]
      /\ \A x \in S : Has(s, x)
      /\ \A i \in 1..Len(s) : i \in 1..Len(seq) \/ s[i] \in S
  BY DEF Adds
<1>2. PICK k \in Nat, m \in Nat : k = Len(seq) /\ m = Len(s)
  BY <1>1
<1>3. DOMAIN s = 1..m
  BY <1>1, <1>2
<1>4. ASSUME NEW x \in S PROVE x \in {s[i] : i \in 1..m}
  <2>1. PICK i \in DOMAIN s : s[i] = x
    BY <1>1 DEF Has
  <2> QED
    BY <1>3, <2>1
<1>5. \A i \in 1..k : i \in 1..m
  BY <1>1, <1>2
<1>6. ASSUME NEW x \in {seq[i] : i \in 1..k} PROVE x \in {s[i] : i \in 1..m}
  BY <1>1, <1>2, <1>5
<1>7. ASSUME NEW x \in {s[i] : i \in 1..m} PROVE x \in {seq[i] : i \in 1..k} \cup S
  BY <1>1, <1>2
<1> QED
  BY <1>2, <1>4, <1>6, <1>7 DEF Held

LEMMA InsertStringFacts ==
    ASSUME NEW D, NEW ix, WellFormed(ix, D), NEW n \in Names, NEW s \in Nat,
           NEW jx, jx = InsertString(ix, n, s)
    PROVE  Inserts(ix, D, n, s, jx)
<1>1. /\ ix \in Indices /\ D \in SUBSET Tables /\ DOMAIN ix.rows = D
      /\ AreStrings(ix.strings) /\ \A t \in D : AreRows(ix.strings, t, ix.rows[t])
  BY DEF WellFormed
<1>2. PICK ss, rows : ss = ix.strings /\ rows = ix.rows
  OBVIOUS
<1>3. /\ ix = [strings |-> ss, finalized |-> ix.finalized, rows |-> rows,
               readonly |-> ix.readonly]
      /\ ss \in [Names -> Seq(Nat)]
      /\ ix.finalized \in SUBSET Names /\ ix.readonly \in SUBSET Tables
      /\ rows = [t \in D |-> rows[t]]
  BY <1>1, <1>2, Parts
<1>4. PICK seq, new : seq = ss[n] /\ new = Inserted(seq, s)
  OBVIOUS
<1>5. seq \in Seq(Nat) /\ OneToOne(Len(seq), seq)
  BY <1>1, <1>2, <1>4 DEF AreStrings
<1>6. Adds(Nat, seq, {s}, new)
  BY <1>4, <1>5, Inserting
<1>7. /\ new \in Seq(Nat) /\ OneToOne(Len(new), new) /\ Len(seq) <= Len(new)
      /\ \A i \in 1..Len(seq) : new[i] = seq[i]
      /\ Has(new, s)
  BY <1>6 DEF Adds
<1>8. PICK tt : tt = [ss EXCEPT ![n] = new]
  OBVIOUS
<1>9. jx = [strings |-> tt, finalized |-> ix.finalized, rows |-> rows, readonly |-> ix.readonly]
  <2>1. jx = [ix EXCEPT !.strings = [ss EXCEPT ![n] = new]]
    BY <1>2, <1>4 DEF InsertString
  <2>2. jx = [ix EXCEPT !.strings = tt]
    BY <1>8, <2>1
  <2> QED
    BY <1>3, <2>2
<1>10. /\ tt \in [Names -> Seq(Nat)] /\ tt[n] = new /\ \A m \in Names : m # n => tt[m] = ss[m]
  BY <1>3, <1>7, <1>8
<1>11. AreStrings(tt)
  BY <1>1, <1>2, <1>7, <1>10 DEF AreStrings
<1>12. Grown(ss, tt)
  <2>1. ASSUME NEW m \in Names
        PROVE  Len(ss[m]) <= Len(tt[m]) /\ \A i \in 1..Len(ss[m]) : tt[m][i] = ss[m][i]
    <3>1. CASE m = n
      BY <1>4, <1>7, <1>10, <3>1
    <3>2. CASE m # n
      <4>1. Len(ss[m]) \in Nat
        BY <1>3
      <4> QED
        BY <1>10, <3>2, <4>1
    <3> QED
      BY <3>1, <3>2
  <2> QED
    BY <2>1 DEF Grown
<1>13. \A t \in D : AreRows(tt, t, rows[t]) /\ Says(tt, t, rows[t]) = Says(ss, t, rows[t])
  <2> TAKE t \in D
  <2>1. AreRows(ss, t, rows[t])
    BY <1>1, <1>2
  <2>2. t \in Tables
    BY <1>1
  <2> QED
    BY <1>1, <1>2, <1>11, <1>12, <2>1, <2>2, StillRows
<1>14. WellFormed(jx, D)
  <2>1. \A t \in D : AreRows(tt, t, rows[t])
    BY <1>13
  <2>2. DOMAIN rows = D
    BY <1>1, <1>2
  <2> QED
    BY <1>1, <1>3, <1>9, <1>11, <2>1, <2>2, Assembled
<1>15. jx.strings = tt /\ jx.rows = rows /\ jx.finalized = ix.finalized
       /\ jx.readonly = ix.readonly
  BY <1>9
<1>16. ASSUME NEW t \in D PROVE Relation(jx, t) = Relation(ix, t)
  <2>1. t \in Tables
    BY <1>1
  <2>2. Relation(ix, t) = Says(ss, t, rows[t])
    BY <1>1, <1>2, <2>1, Saying
  <2>3. Relation(jx, t) = Says(tt, t, rows[t])
    BY <1>1, <1>2, <1>13, <1>15, <2>1, Saying
  <2> QED
    BY <1>13, <2>2, <2>3
<1>17. ASSUME NEW m \in Names
       PROVE  Texts(jx, m) = Texts(ix, m) \cup (IF m = n THEN {s} ELSE {})
  <2>1. CASE m = n
    <3>1. PICK S : S = {s}
      OBVIOUS
    <3>2. Adds(Nat, seq, S, new)
      BY <1>6, <3>1
    <3>3. Held(new) = Held(seq) \cup S
      BY <1>5, <3>2, GrownTexts
    <3>4. Texts(jx, m) = Held(new)
      BY <1>10, <1>15, <2>1 DEF Texts
    <3>5. Texts(ix, m) = Held(seq)
      BY <1>2, <1>4, <2>1 DEF Texts
    <3> QED
      BY <2>1, <3>1, <3>3, <3>4, <3>5
  <2>2. CASE m # n
    BY <1>2, <1>10, <1>15, <2>2 DEF Texts
  <2> QED
    BY <2>1, <2>2
<1>18. IdOf(new, s) \in 1..Len(new) /\ new[IdOf(new, s)] = s
  BY <1>7, Position
<1> QED
  BY <1>2, <1>10, <1>12, <1>14, <1>15, <1>16, <1>17, <1>18 DEF Inserts

LEMMA AddRowFacts ==
    ASSUME NEW D, NEW ix, WellFormed(ix, D), NEW t \in D, NEW row \in Row(Width(t)),
           InRange(ix.strings, t, row), NEW jx, jx = AddRow(ix, t, row)
    PROVE  Grows(ix, D, t, Decoded(ix.strings, t, row), jx)
<1>1. /\ ix \in Indices /\ D \in SUBSET Tables /\ DOMAIN ix.rows = D
      /\ AreStrings(ix.strings) /\ \A u \in D : AreRows(ix.strings, u, ix.rows[u])
  BY DEF WellFormed
<1>2. PICK ss, rows : ss = ix.strings /\ rows = ix.rows
  OBVIOUS
<1>3. /\ ix = [strings |-> ss, finalized |-> ix.finalized, rows |-> rows,
               readonly |-> ix.readonly]
      /\ ix.finalized \in SUBSET Names /\ ix.readonly \in SUBSET Tables
      /\ rows = [u \in D |-> rows[u]]
  BY <1>1, <1>2, Parts
<1>4. PICK seq, new : seq = rows[t] /\ new = Inserted(seq, row)
  OBVIOUS
<1>5. PICK w : w = Width(t)
  OBVIOUS
<1>6. seq \in Seq(Row(w)) /\ OneToOne(Len(seq), seq)
      /\ \A i \in 1..Len(seq) : InRange(ss, t, seq[i])
  BY <1>1, <1>2, <1>4, <1>5 DEF AreRows
<1>7. Adds(Row(w), seq, {row}, new)
  BY <1>4, <1>5, <1>6, Inserting
<1>8. /\ new \in Seq(Row(w)) /\ OneToOne(Len(new), new) /\ Len(seq) <= Len(new)
      /\ \A i \in 1..Len(seq) : new[i] = seq[i]
      /\ Has(new, row)
      /\ \A i \in 1..Len(new) : i \in 1..Len(seq) \/ new[i] = row
  BY <1>7 DEF Adds
<1>9. ASSUME NEW i \in 1..Len(new) PROVE InRange(ss, t, new[i])
  <2>1. CASE i \in 1..Len(seq)
    BY <1>6, <1>8, <2>1
  <2>2. CASE new[i] = row
    BY <1>2, <2>2
  <2> QED
    BY <1>8, <2>1, <2>2
<1>10. AreRows(ss, t, new)
  BY <1>5, <1>8, <1>9 DEF AreRows
<1>11. PICK r2 : r2 = [u \in D |-> IF u = t THEN new ELSE rows[u]]
  OBVIOUS
<1>12. jx = [strings |-> ss, finalized |-> ix.finalized, rows |-> r2, readonly |-> ix.readonly]
  <2>1. jx = [ix EXCEPT !.rows = [rows EXCEPT ![t] = new]]
    BY <1>2, <1>4 DEF AddRow
  <2>2. [rows EXCEPT ![t] = new] = r2
    BY <1>1, <1>2, <1>3, <1>11
  <2> QED
    BY <1>3, <2>1, <2>2
<1>13. DOMAIN r2 = D /\ r2[t] = new /\ r2 = [u \in D |-> r2[u]]
       /\ \A u \in D : u # t => r2[u] = rows[u]
  BY <1>11
<1>14. \A u \in D : AreRows(ss, u, r2[u])
  BY <1>1, <1>2, <1>10, <1>13
<1>15. WellFormed(jx, D)
  BY <1>1, <1>2, <1>3, <1>12, <1>13, <1>14, Assembled
<1>16. jx.strings = ss /\ jx.rows = r2 /\ jx.finalized = ix.finalized
       /\ jx.readonly = ix.readonly
  BY <1>12
<1>17. PICK fact : fact = Decoded(ss, t, row)
  OBVIOUS
<1>18. Says(ss, t, new) = Says(ss, t, seq) \cup {fact}
  <2>1. PICK k \in Nat, m \in Nat : k = Len(seq) /\ m = Len(new)
    BY <1>6, <1>8
  <2>2. PICK F : F = [r \in Row(w) |-> Decoded(ss, t, r)]
    OBVIOUS
  <2>3. PICK j \in 1..m : new[j] = row
    <3>1. DOMAIN new = 1..m
      BY <1>8, <2>1
    <3> QED
      BY <1>8, <3>1 DEF Has
  <2>4. \A i \in 1..k : i \in 1..m /\ new[i] = seq[i]
    BY <1>8, <2>1
  <2>5. ASSUME NEW x \in Says(ss, t, new) PROVE x \in Says(ss, t, seq) \cup {fact}
    <3>1. PICK i \in 1..m : x = Decoded(ss, t, new[i])
      BY <2>1 DEF Says
    <3>2. CASE i \in 1..k
      BY <2>1, <2>4, <3>1, <3>2 DEF Says
    <3>3. CASE new[i] = row
      BY <1>17, <3>1, <3>3
    <3> QED
      BY <1>8, <2>1, <3>2, <3>3
  <2>6. ASSUME NEW x \in Says(ss, t, seq) PROVE x \in Says(ss, t, new)
    BY <2>1, <2>4 DEF Says
  <2>7. fact \in Says(ss, t, new)
    BY <1>17, <2>1, <2>3 DEF Says
  <2> QED
    BY <2>5, <2>6, <2>7
<1>19. ASSUME NEW u \in D
       PROVE  Relation(jx, u) = Relation(ix, u) \cup (IF u = t THEN {fact} ELSE {})
  <2>1. u \in Tables
    BY <1>1
  <2>2. Relation(ix, u) = Says(ss, u, rows[u])
    BY <1>1, <1>2, <2>1, Saying
  <2>3. Relation(jx, u) = Says(ss, u, r2[u])
    BY <1>13, <1>14, <1>16, <2>1, Saying
  <2>4. CASE u = t
    BY <1>4, <1>13, <1>18, <2>2, <2>3, <2>4
  <2>5. CASE u # t
    BY <1>13, <2>2, <2>3, <2>5
  <2> QED
    BY <2>4, <2>5
<1> QED
  BY <1>2, <1>15, <1>16, <1>17, <1>19 DEF Grows

-----------------------------------------------------------------------------
(* map takes the IDs of the strings ss to those of tt.                     *)
Renames(map, ss, tt) ==
    /\ DOMAIN map \in SUBSET Names
    /\ \A n \in DOMAIN map : \A i \in 1..Len(ss[n]) :
          map[n][i] \in 1..Len(tt[n]) /\ tt[n][map[n][i]] = ss[n][i]
    /\ \A n \in Names : n \in DOMAIN map \/ tt[n] = ss[n]

LEMMA Remapping ==
    ASSUME NEW t \in Tables, NEW ss, AreStrings(ss), NEW tt, AreStrings(tt),
           NEW map, Renames(map, ss, tt), NEW row \in Row(Width(t)), InRange(ss, t, row),
           NEW new, new = Remap(t, map, row)
    PROVE  /\ new \in Row(Width(t)) /\ InRange(tt, t, new)
           /\ Decoded(tt, t, new) = Decoded(ss, t, row)
<1>1. PICK w \in Nat : w = Width(t)
  BY Widths
<1>2. row \in [1..w -> Nat]
  BY <1>1 DEF Row
<1>3. new = [c \in 1..w |-> IF Schema[t][c] \in DOMAIN map THEN map[Schema[t][c]][row[c]]
                                                          ELSE row[c]]
  BY <1>2 DEF Remap
<1>4. ASSUME NEW c \in 1..w, Schema[t][c] = "" PROVE new[c] = row[c] /\ new[c] \in Nat
  <2>1. Schema[t][c] \notin DOMAIN map
    BY <1>4 DEF Renames, Names
  <2> QED
    BY <1>2, <1>3, <2>1
<1>5. ASSUME NEW c \in 1..w, Schema[t][c] # ""
      PROVE  /\ new[c] \in 1..Len(tt[Schema[t][c]]) /\ new[c] \in Nat
             /\ tt[Schema[t][c]][new[c]] = ss[Schema[t][c]][row[c]]
  <2>1. PICK n \in Names : n = Schema[t][c]
    BY <1>1, <1>5, Columned
  <2>2. row[c] \in 1..Len(ss[n])
    BY <1>1, <1>5, <2>1 DEF InRange
  <2>3. CASE n \in DOMAIN map
    <3>1. new[c] = map[n][row[c]]
      BY <1>3, <2>1, <2>3
    <3>2. map[n][row[c]] \in 1..Len(tt[n]) /\ tt[n][map[n][row[c]]] = ss[n][row[c]]
      BY <2>2, <2>3 DEF Renames
    <3> QED
      BY <2>1, <3>1, <3>2
  <2>4. CASE n \notin DOMAIN map
    <3>1. new[c] = row[c]
      BY <1>3, <2>1, <2>4
    <3>2. tt[n] = ss[n]
      BY <2>4 DEF Renames
    <3> QED
      BY <2>1, <2>2, <3>1, <3>2
  <2> QED
    BY <2>3, <2>4
<1>6. \A c \in 1..w : new[c] \in Nat
  BY <1>4, <1>5
<1>7. new \in [1..w -> Nat]
  BY <1>3, <1>6
<1>8. InRange(tt, t, new)
  BY <1>1, <1>5 DEF InRange
<1>9. Decoded(tt, t, new) = Decoded(ss, t, row)
  <2>1. \A c \in 1..w : (IF Schema[t][c] = "" THEN new[c] ELSE tt[Schema[t][c]][new[c]])
                      = (IF Schema[t][c] = "" THEN row[c] ELSE ss[Schema[t][c]][row[c]])
    BY <1>4, <1>5
  <2> QED
    BY <1>1, <2>1 DEF Decoded
<1> QED
  BY <1>1, <1>7, <1>8, <1>9 DEF Row

LEMMA RemappingAll ==
    ASSUME NEW t \in Tables, NEW ss, AreStrings(ss), NEW tt, AreStrings(tt),
           NEW map, Renames(map, ss, tt), NEW rows, AreRows(ss, t, rows),
           NEW new, new = RemapAll(t, map, rows)
    PROVE  AreRows(tt, t, new) /\ Says(tt, t, new) = Says(ss, t, rows)
<1>1. PICK R : R = Row(Width(t))
  OBVIOUS
<1>2. PICK n \in Nat : n = Len(rows)
  BY DEF AreRows
<1>3. /\ rows \in [1..n -> R] /\ \A i \in 1..n : InRange(ss, t, rows[i])
      /\ OneToOne(n, rows)
  BY <1>1, <1>2 DEF AreRows
<1>4. new = [i \in 1..n |-> Remap(t, map, rows[i])]
  BY <1>3 DEF RemapAll
<1>5. \A i \in 1..n : /\ new[i] \in R /\ InRange(tt, t, new[i])
                      /\ Decoded(tt, t, new[i]) = Decoded(ss, t, rows[i])
  <2> TAKE i \in 1..n
  <2>1. PICK row : row = rows[i]
    OBVIOUS
  <2>2. row \in Row(Width(t)) /\ InRange(ss, t, row)
    BY <1>1, <1>3, <2>1
  <2>3. new[i] = Remap(t, map, row)
    BY <1>4, <2>1
  <2> QED
    BY <1>1, <2>1, <2>2, <2>3, Remapping
<1>6. new \in [1..n -> R] /\ new \in Seq(R) /\ Len(new) = n
  <2>1. new \in [1..n -> R]
    BY <1>4, <1>5
  <2>2. new \in Seq(R)
    BY <2>1
  <2> QED
    BY <2>1, <2>2
<1>7. OneToOne(n, new)
  <2> SUFFICES ASSUME NEW i \in 1..n, NEW j \in 1..n, new[i] = new[j]
               PROVE  i = j
    BY DEF OneToOne
  <2>1. Decoded(ss, t, rows[i]) = Decoded(ss, t, rows[j])
    BY <1>5
  <2>2. rows[i] = rows[j]
    BY <1>1, <1>3, <2>1, Apart
  <2> QED
    BY <1>3, <2>2 DEF OneToOne
<1>8. AreRows(tt, t, new)
  BY <1>1, <1>5, <1>6, <1>7 DEF AreRows
<1>9. Says(tt, t, new) = Says(ss, t, rows)
  BY <1>2, <1>5, <1>6 DEF Says
<1> QED
  BY <1>8, <1>9

LEMMA InsertingRows ==
    ASSUME NEW t \in Tables, NEW ss, NEW a, AreRows(ss, t, a), NEW b, AreRows(ss, t, b),
           NEW r, r = InsertAll(a, b)
    PROVE  AreRows(ss, t, r) /\ Says(ss, t, r) = Says(ss, t, a) \cup Says(ss, t, b)
<1>1. PICK R : R = Row(Width(t))
  OBVIOUS
<1>2. a \in Seq(R) /\ OneToOne(Len(a), a) /\ b \in Seq(R)
  BY <1>1 DEF AreRows
<1>3. PICK S : S = {b[i] : i \in 1..Len(b)}
  OBVIOUS
<1>4. Adds(R, a, S, r)
  BY <1>2, <1>3, InsertingAll
<1>5. PICK k \in Nat, l \in Nat, m \in Nat : k = Len(a) /\ l = Len(b) /\ m = Len(r)
  <2>1. r \in Seq(R)
    BY <1>4 DEF Adds
  <2> QED
    BY <1>2, <2>1
<1>6. /\ r \in Seq(R) /\ OneToOne(m, r) /\ k <= m
      /\ \A i \in 1..k : r[i] = a[i]
      /\ \A x \in S : Has(r, x)
      /\ \A i \in 1..m : i \in 1..k \/ r[i] \in S
  BY <1>4, <1>5 DEF Adds
<1>7. \A i \in 1..k : InRange(ss, t, a[i])
  BY <1>5 DEF AreRows
<1>8. \A i \in 1..l : InRange(ss, t, b[i])
  BY <1>5 DEF AreRows
<1>9. \A i \in 1..m : InRange(ss, t, r[i])
  BY <1>3, <1>5, <1>6, <1>7, <1>8
<1>10. AreRows(ss, t, r)
  BY <1>1, <1>5, <1>6, <1>9 DEF AreRows
<1>11. ASSUME NEW x \in Says(ss, t, r) PROVE x \in Says(ss, t, a) \cup Says(ss, t, b)
  <2>1. PICK i \in 1..m : x = Decoded(ss, t, r[i])
    BY <1>5 DEF Says
  <2>2. CASE i \in 1..k
    BY <1>5, <1>6, <2>1, <2>2 DEF Says
  <2>3. CASE r[i] \in S
    <3>1. PICK j \in 1..l : r[i] = b[j]
      BY <1>3, <1>5, <2>3
    <3> QED
      BY <1>5, <2>1, <3>1 DEF Says
  <2> QED
    BY <1>6, <2>2, <2>3
<1>12. ASSUME NEW x \in Says(ss, t, a) PROVE x \in Says(ss, t, r)
  <2>1. PICK i \in 1..k : x = Decoded(ss, t, a[i])
    BY <1>5 DEF Says
  <2>2. i \in 1..m /\ r[i] = a[i]
    BY <1>6
  <2> QED
    BY <1>5, <2>1, <2>2 DEF Says
<1>13. ASSUME NEW x \in Says(ss, t, b) PROVE x \in Says(ss, t, r)
  <2>1. PICK i \in 1..l : x = Decoded(ss, t, b[i])
    BY <1>5 DEF Says
  <2>2. Has(r, b[i])
    BY <1>3, <1>5, <1>6
  <2>3. DOMAIN r = 1..m
    <3>1. DOMAIN r = 1..Len(r)
      BY <1>6
    <3> QED
      BY <1>5, <3>1
  <2>4. PICK j \in 1..m : r[j] = b[i]
    BY <2>2, <2>3 DEF Has
  <2> QED
    BY <1>5, <2>1, <2>4 DEF Says
<1> QED
  BY <1>10, <1>11, <1>12, <1>13

-----------------------------------------------------------------------------
(* Tables are added.                                                       *)
Widens(ix, D, ts, jx) ==
    /\ WellFormed(jx, D \cup ts) /\ jx.strings = ix.strings
    /\ jx.finalized = ix.finalized /\ jx.readonly = ix.readonly
    /\ \A t \in D : jx.rows[t] = ix.rows[t]
    /\ \A t \in ts : t \in D \/ jx.rows[t] = <<>>

LEMMA AddTablesFacts ==
    ASSUME NEW D, NEW ix, WellFormed(ix, D), NEW ts \in SUBSET Tables,
           NEW jx, jx = AddTables(ix, ts)
    PROVE  Widens(ix, D, ts, jx)
<1>1. /\ ix \in Indices /\ D \in SUBSET Tables /\ DOMAIN ix.rows = D
      /\ AreStrings(ix.strings) /\ \A u \in D : AreRows(ix.strings, u, ix.rows[u])
  BY DEF WellFormed
<1>2. PICK ss, rows : ss = ix.strings /\ rows = ix.rows
  OBVIOUS
<1>3. /\ ix = [strings |-> ss, finalized |-> ix.finalized, rows |-> rows,
               readonly |-> ix.readonly]
      /\ ix.finalized \in SUBSET Names /\ ix.readonly \in SUBSET Tables
      /\ rows = [u \in D |-> rows[u]]
  BY <1>1, <1>2, Parts
<1>4. PICK E : E = D \cup ts
  OBVIOUS
<1>5. PICK r2 : r2 = [t \in E |-> IF t \in D THEN rows[t] ELSE <<>>]
  OBVIOUS
<1>6. jx = [ix EXCEPT !.rows = r2]
  BY <1>1, <1>2, <1>4, <1>5 DEF AddTables
<1>7. jx = [strings |-> ss, finalized |-> ix.finalized, rows |-> r2, readonly |-> ix.readonly]
  BY <1>3, <1>6
<1>8. /\ E \in SUBSET Tables /\ DOMAIN r2 = E /\ r2 = [u \in E |-> r2[u]]
      /\ \A t \in D : r2[t] = rows[t]
      /\ \A t \in ts : t \in D \/ r2[t] = <<>>
  BY <1>1, <1>4, <1>5
<1>9. ASSUME NEW t \in E PROVE AreRows(ss, t, r2[t])
  <2>1. CASE t \in D
    BY <1>1, <1>2, <1>8, <2>1
  <2>2. CASE r2[t] = <<>>
    <3>1. PICK e : e = r2[t]
      OBVIOUS
    <3>2. e = <<>>
      BY <2>2, <3>1
    <3>3. e \in Seq(Row(Width(t))) /\ Len(e) = 0
      BY <3>2
    <3>4. AreRows(ss, t, e)
      BY <3>3 DEF AreRows, OneToOne
    <3> QED
      BY <3>1, <3>4
  <2> QED
    BY <1>4, <1>8, <2>1, <2>2
<1>10. WellFormed(jx, E)
  <2>1. AreStrings(ss) /\ \A t \in E : AreRows(ss, t, r2[t])
    BY <1>1, <1>2, <1>9
  <2>2. PICK f, o : f = ix.finalized /\ o = ix.readonly
    OBVIOUS
  <2>3. f \in SUBSET Names /\ o \in SUBSET Tables
    BY <1>3, <2>2
  <2>4. jx = [strings |-> ss, finalized |-> f, rows |-> r2, readonly |-> o]
    BY <1>7, <2>2
  <2>5. DOMAIN r2 = E /\ r2 = [u \in E |-> r2[u]] /\ E \in SUBSET Tables
    BY <1>8
  <2> QED
    BY <2>1, <2>3, <2>4, <2>5, Assembled
<1>11. jx.strings = ss /\ jx.rows = r2 /\ jx.finalized = ix.finalized
       /\ jx.readonly = ix.readonly
  BY <1>7
<1> QED
  BY <1>2, <1>4, <1>8, <1>10, <1>11 DEF Widens

(* An index is merged into another.                                        *)
Merges(ix, D, other, jx) ==
    /\ WellFormed(jx, D)
    /\ jx.finalized = ix.finalized /\ jx.readonly = ix.readonly
    /\ \A t \in D : Relation(jx, t) = Relation(ix, t) \cup Relation(other, t)
    /\ \A n \in Names : Texts(jx, n) = Texts(ix, n) \cup Texts(other, n)

Together(a, b) == [n \in Names |-> InsertAll(a[n], b[n])]
Renaming(N, b, tt) == [n \in N |-> [id \in DOMAIN b[n] |-> IdOf(tt[n], b[n][id])]]

LEMMA MergedStrings ==
    ASSUME NEW a, AreStrings(a), NEW b, AreStrings(b), NEW tt, tt = Together(a, b),
           NEW map, map = Renaming(Names, b, tt)
    PROVE  /\ AreStrings(tt) /\ Grown(a, tt) /\ Renames(map, b, tt)
           /\ \A n \in Names : Held(tt[n]) = Held(a[n]) \cup Held(b[n])
<1>1. ASSUME NEW n \in Names
      PROVE  /\ tt[n] \in Seq(Nat) /\ OneToOne(Len(tt[n]), tt[n])
             /\ Len(a[n]) <= Len(tt[n]) /\ \A i \in 1..Len(a[n]) : tt[n][i] = a[n][i]
             /\ \A i \in 1..Len(b[n]) : map[n][i] \in 1..Len(tt[n])
                                        /\ tt[n][map[n][i]] = b[n][i]
             /\ Held(tt[n]) = Held(a[n]) \cup Held(b[n])
  <2>1. PICK seq, xs, s : seq = a[n] /\ xs = b[n] /\ s = tt[n]
    OBVIOUS
  <2>2. seq \in Seq(Nat) /\ OneToOne(Len(seq), seq) /\ xs \in Seq(Nat)
    BY <2>1 DEF AreStrings
  <2>3. s = InsertAll(seq, xs)
    BY <2>1 DEF Together
  <2>4. PICK S : S = {xs[i] : i \in 1..Len(xs)}
    OBVIOUS
  <2>5. Adds(Nat, seq, S, s)
    BY <2>2, <2>3, <2>4, InsertingAll
  <2>6. /\ s \in Seq(Nat) /\ OneToOne(Len(s), s) /\ Len(seq) <= Len(s)
        /\ \A i \in 1..Len(seq) : s[i] = seq[i]
        /\ \A x \in S : Has(s, x)
    BY <2>5 DEF Adds
  <2>7. Held(s) = Held(seq) \cup S
    BY <2>2, <2>5, GrownTexts
  <2>8. Held(xs) = S
    BY <2>4 DEF Held
  <2>9. ASSUME NEW i \in 1..Len(xs)
        PROVE  map[n][i] \in 1..Len(s) /\ s[map[n][i]] = xs[i]
    <3>1. DOMAIN xs = 1..Len(xs)
      BY <2>2
    <3>2. PICK x : x = xs[i]
      OBVIOUS
    <3>3. map[n][i] = IdOf(s, x)
      BY <2>1, <3>1, <3>2 DEF Renaming
    <3>4. Has(s, x)
      BY <2>4, <2>6, <3>2
    <3> QED
      BY <2>6, <3>2, <3>3, <3>4, Position
  <2> QED
    BY <2>1, <2>6, <2>7, <2>8, <2>9
<1>2. tt \in [Names -> Seq(Nat)]
  BY <1>1 DEF Together
<1>3. AreStrings(tt)
  BY <1>1, <1>2 DEF AreStrings
<1>4. Grown(a, tt)
  BY <1>1 DEF Grown
<1>5. Renames(map, b, tt)
  <2>1. DOMAIN map = Names
    BY DEF Renaming
  <2> QED
    BY <1>1, <2>1 DEF Renames
<1> QED
  BY <1>1, <1>3, <1>4, <1>5

LEMMA MergeFacts ==
    ASSUME NEW D, NEW ix, WellFormed(ix, D), NEW other, WellFormed(other, D),
           NEW jx, jx = Merge(ix, other)
    PROVE  Merges(ix, D, other, jx)
<1>1. /\ ix \in Indices /\ D \in SUBSET Tables /\ DOMAIN ix.rows = D
      /\ AreStrings(ix.strings) /\ \A u \in D : AreRows(ix.strings, u, ix.rows[u])
  BY DEF WellFormed
<1>2. /\ other \in Indices /\ DOMAIN other.rows = D
      /\ AreStrings(other.strings) /\ \A u \in D : AreRows(other.strings, u, other.rows[u])
  BY DEF WellFormed
<1>3. PICK a, b, rows, more : /\ a = ix.strings /\ b = other.strings
                              /\ rows = ix.rows /\ more = other.rows
  OBVIOUS
<1>4. PICK tt : tt = Together(a, b)
  OBVIOUS
<1>5. PICK map : map = Renaming(Names, b, tt)
  OBVIOUS
<1>6. /\ AreStrings(tt) /\ Grown(a, tt) /\ Renames(map, b, tt)
      /\ \A n \in Names : Held(tt[n]) = Held(a[n]) \cup Held(b[n])
  BY <1>1, <1>2, <1>3, <1>4, <1>5, MergedStrings
<1>7. PICK wide : wide = AddTables(ix, D)
  OBVIOUS
<1>8. Widens(ix, D, D, wide)
  BY <1>1, <1>7, AddTablesFacts
<1>9. /\ WellFormed(wide, D) /\ wide.finalized = ix.finalized /\ wide.readonly = ix.readonly
      /\ \A t \in D : wide.rows[t] = rows[t]
  BY <1>3, <1>8 DEF Widens
<1>10. wide \in Indices /\ DOMAIN wide.rows = D
  BY <1>9 DEF WellFormed
<1>11. /\ wide = [strings |-> wide.strings, finalized |-> wide.finalized, rows |-> wide.rows,
                  readonly |-> wide.readonly]
       /\ wide.finalized \in SUBSET Names /\ wide.readonly \in SUBSET Tables
  BY <1>10, Parts
<1>12. PICK r2 : r2 = [t \in D |-> InsertAll(rows[t], RemapAll(t, map, more[t]))]
  OBVIOUS
<1>13. jx = [wide EXCEPT !.strings = tt, !.rows = r2]
  <2>1. jx = [wide EXCEPT !.strings = tt,
                          !.rows = [t \in DOMAIN wide.rows |->
                             IF t \in DOMAIN other.rows
                             THEN InsertAll(wide.rows[t], RemapAll(t, map, other.rows[t]))
                             ELSE wide.rows[t]]]
    BY <1>2, <1>3, <1>4, <1>5, <1>7 DEF Merge, Names, Together, Renaming
  <2>2. [t \in DOMAIN wide.rows |->
            IF t \in DOMAIN other.rows
            THEN InsertAll(wide.rows[t], RemapAll(t, map, other.rows[t]))
            ELSE wide.rows[t]] = r2
    BY <1>2, <1>3, <1>9, <1>10, <1>12
  <2> QED
    BY <2>1, <2>2
<1>14. jx = [strings |-> tt, finalized |-> wide.finalized, rows |-> r2,
             readonly |-> wide.readonly]
  BY <1>11, <1>13
<1>15. ASSUME NEW t \in D
       PROVE  /\ AreRows(tt, t, r2[t])
              /\ Says(tt, t, r2[t]) = Says(a, t, rows[t]) \cup Says(b, t, more[t])
  <2>1. t \in Tables
    BY <1>1
  <2>2. AreRows(tt, t, rows[t]) /\ Says(tt, t, rows[t]) = Says(a, t, rows[t])
    BY <1>1, <1>3, <1>6, <2>1, StillRows
  <2>3. PICK new : new = RemapAll(t, map, more[t])
    OBVIOUS
  <2>4. AreRows(tt, t, new) /\ Says(tt, t, new) = Says(b, t, more[t])
    BY <1>2, <1>3, <1>6, <2>1, <2>3, RemappingAll
  <2>5. r2[t] = InsertAll(rows[t], new)
    BY <1>12, <2>3
  <2>6. /\ AreRows(tt, t, r2[t])
        /\ Says(tt, t, r2[t]) = Says(tt, t, rows[t]) \cup Says(tt, t, new)
    BY <2>1, <2>2, <2>4, <2>5, InsertingRows
  <2> QED
    BY <2>2, <2>4, <2>6
<1>16. DOMAIN r2 = D /\ r2 = [t \in D |-> r2[t]]
  BY <1>12
<1>17. \A t \in D : AreRows(tt, t, r2[t])
  BY <1>15
<1>18. WellFormed(jx, D)
  BY <1>1, <1>6, <1>11, <1>14, <1>16, <1>17, Assembled
<1>19. jx.strings = tt /\ jx.rows = r2 /\ jx.finalized = ix.finalized
       /\ jx.readonly = ix.readonly
  BY <1>9, <1>14
<1>20. ASSUME NEW t \in D
       PROVE  Relation(jx, t) = Relation(ix, t) \cup Relation(other, t)
  <2>1. t \in Tables
    BY <1>1
  <2>2. Relation(ix, t) = Says(a, t, rows[t])
    BY <1>1, <1>3, <2>1, Saying
  <2>3. Relation(other, t) = Says(b, t, more[t])
    BY <1>2, <1>3, <2>1, Saying
  <2>4. Relation(jx, t) = Says(tt, t, r2[t])
    BY <1>16, <1>17, <1>19, <2>1, Saying
  <2> QED
    BY <1>15, <2>2, <2>3, <2>4
<1>21. \A n \in Names : Texts(jx, n) = Texts(ix, n) \cup Texts(other, n)
  BY <1>3, <1>6, <1>19 DEF Texts
<1> QED
  BY <1>18, <1>19, <1>20, <1>21 DEF Merges

-----------------------------------------------------------------------------
(* finalizeTables, while nothing is read-only that it would renumber.      *)
Freezable(ix) == ix.readonly = {} \/ ix.finalized = Names

Finalizes(ix, D, jx) ==
    /\ WellFormed(jx, D) /\ jx.finalized = Names /\ jx.readonly = D
    /\ \A t \in D : Relation(jx, t) = Relation(ix, t)
    /\ \A n \in Names : Texts(jx, n) = Texts(ix, n)
    /\ \A n \in Names : IF n \in ix.finalized THEN jx.strings[n] = ix.strings[n]
                                              ELSE Up(jx.strings[n])
    /\ \A t \in D : IF t \in ix.readonly THEN jx.rows[t] = ix.rows[t] ELSE RowsUp(jx.rows[t])

SortedStrings(ss, N) == [n \in Names |-> IF n \in N THEN SortedUp(ss[n]) ELSE ss[n]]

LEMMA SortedHeld ==
    ASSUME NEW seq \in Seq(Nat), OneToOne(Len(seq), seq), NEW s, s = SortedUp(seq)
    PROVE  /\ s \in Seq(Nat) /\ OneToOne(Len(s), s) /\ Up(s) /\ Held(s) = Held(seq)
           /\ \A i \in 1..Len(seq) : Has(s, seq[i])
<1>1. /\ s \in Seq(Nat) /\ Len(s) = Len(seq)
      /\ Held(s) = Held(seq) /\ Up(s)
  BY SortedNumbers
<1>2. PICK n \in Nat : n = Len(s)
  BY <1>1
<1>3. \A i \in 1..n : s[i] \in Nat
  BY <1>1, <1>2
<1>4. OneToOne(n, s)
  <2> SUFFICES ASSUME NEW i \in 1..n, NEW j \in 1..n, s[i] = s[j] PROVE i = j
    BY DEF OneToOne
  <2>1. ~(i < j) /\ ~(j < i)
    BY <1>1, <1>2, <1>3 DEF Up
  <2> QED
    BY <2>1
<1>5. ASSUME NEW i \in 1..Len(seq) PROVE Has(s, seq[i])
  <2>1. seq[i] \in {s[j] : j \in 1..n}
    BY <1>1, <1>2 DEF Held
  <2>2. PICK j \in 1..n : seq[i] = s[j]
    BY <2>1
  <2>3. DOMAIN s = 1..n
    <3>1. DOMAIN s = 1..Len(s)
      BY <1>1
    <3> QED
      BY <1>2, <3>1
  <2> QED
    BY <2>2, <2>3 DEF Has
<1> QED
  BY <1>1, <1>2, <1>4, <1>5

LEMMA SortingStrings ==
    ASSUME NEW ss, AreStrings(ss), NEW N \in SUBSET Names, NEW tt, tt = SortedStrings(ss, N),
           NEW map, map = Renaming(N, ss, tt)
    PROVE  /\ AreStrings(tt) /\ Renames(map, ss, tt)
           /\ \A n \in Names : Held(tt[n]) = Held(ss[n])
           /\ \A n \in Names : IF n \in N THEN Up(tt[n]) ELSE tt[n] = ss[n]
<1>1. ASSUME NEW n \in N
      PROVE  /\ tt[n] \in Seq(Nat) /\ OneToOne(Len(tt[n]), tt[n])
             /\ \A i \in 1..Len(ss[n]) : map[n][i] \in 1..Len(tt[n])
                                         /\ tt[n][map[n][i]] = ss[n][i]
             /\ Held(tt[n]) = Held(ss[n]) /\ Up(tt[n])
  <2>1. PICK seq, s : seq = ss[n] /\ s = tt[n]
    OBVIOUS
  <2>2. seq \in Seq(Nat) /\ OneToOne(Len(seq), seq)
    BY <2>1 DEF AreStrings
  <2>3. s = SortedUp(seq)
    BY <2>1 DEF SortedStrings
  <2>4. /\ s \in Seq(Nat) /\ OneToOne(Len(s), s) /\ Up(s) /\ Held(s) = Held(seq)
        /\ \A i \in 1..Len(seq) : Has(s, seq[i])
    BY <2>2, <2>3, SortedHeld
  <2>5. ASSUME NEW i \in 1..Len(seq)
        PROVE  map[n][i] \in 1..Len(s) /\ s[map[n][i]] = seq[i]
    <3>1. DOMAIN seq = 1..Len(seq)
      BY <2>2
    <3>2. PICK x : x = seq[i]
      OBVIOUS
    <3>3. map[n][i] = IdOf(s, x)
      BY <2>1, <3>1, <3>2 DEF Renaming
    <3>4. Has(s, x) /\ x \in Nat
      BY <2>2, <2>4, <3>2
    <3> QED
      BY <2>4, <3>2, <3>3, <3>4, Position
  <2> QED
    BY <2>1, <2>4, <2>5
<1>2. \A n \in Names : n \notin N => tt[n] = ss[n]
  BY DEF SortedStrings
<1>3. tt \in [Names -> Seq(Nat)]
  <2>1. \A n \in Names : tt[n] \in Seq(Nat)
    BY <1>1, <1>2 DEF AreStrings
  <2> QED
    BY <2>1 DEF SortedStrings
<1>4. AreStrings(tt)
  BY <1>1, <1>2, <1>3 DEF AreStrings
<1>5. Renames(map, ss, tt)
  <2>1. DOMAIN map = N
    BY DEF Renaming
  <2> QED
    BY <1>1, <1>2, <2>1 DEF Renames
<1> QED
  BY <1>1, <1>2, <1>4, <1>5

LEMMA SortingRows ==
    ASSUME NEW t \in Tables, NEW ss, NEW rows, AreRows(ss, t, rows),
           NEW new, new = SortedRowsOf(rows)
    PROVE  AreRows(ss, t, new) /\ Says(ss, t, new) = Says(ss, t, rows) /\ RowsUp(new)
<1>1. PICK w \in Nat : w = Width(t)
  BY Widths
<1>2. /\ rows \in Seq(Row(w)) /\ OneToOne(Len(rows), rows)
      /\ \A i \in 1..Len(rows) : InRange(ss, t, rows[i])
  BY <1>1 DEF AreRows
<1>3. /\ new \in Seq(Row(w)) /\ Len(new) = Len(rows)
      /\ Held(new) = Held(rows) /\ RowsUp(new)
  BY <1>2, SortedRows
<1>4. PICK n \in Nat : n = Len(rows) /\ n = Len(new)
  BY <1>2, <1>3
<1>5. \A i \in 1..n : new[i] \in Row(w)
  BY <1>3, <1>4
<1>6. OneToOne(n, new)
  <2> SUFFICES ASSUME NEW i \in 1..n, NEW j \in 1..n, new[i] = new[j] PROVE i = j
    BY DEF OneToOne
  <2>1. ~RowLess(new[i], new[j]) /\ ~RowLess(new[j], new[i])
    BY <1>5, RowOrder
  <2>2. ~(i < j) /\ ~(j < i)
    BY <1>3, <1>4, <2>1 DEF RowsUp
  <2> QED
    BY <2>2
<1>7. \A i \in 1..n : \E j \in 1..n : new[i] = rows[j]
  <2> TAKE i \in 1..n
  <2>1. new[i] \in {rows[j] : j \in 1..n}
    BY <1>3, <1>4 DEF Held
  <2> QED
    BY <2>1
<1>8. \A i \in 1..n : \E j \in 1..n : rows[i] = new[j]
  <2> TAKE i \in 1..n
  <2>1. rows[i] \in {new[j] : j \in 1..n}
    BY <1>3, <1>4 DEF Held
  <2> QED
    BY <2>1
<1>9. \A i \in 1..n : InRange(ss, t, new[i])
  BY <1>2, <1>4, <1>7
<1>10. AreRows(ss, t, new)
  BY <1>1, <1>3, <1>4, <1>6, <1>9 DEF AreRows
<1>11. ASSUME NEW x \in Says(ss, t, new) PROVE x \in Says(ss, t, rows)
  <2>1. PICK i \in 1..n : x = Decoded(ss, t, new[i])
    BY <1>4 DEF Says
  <2> QED
    BY <1>4, <1>7, <2>1 DEF Says
<1>12. ASSUME NEW x \in Says(ss, t, rows) PROVE x \in Says(ss, t, new)
  <2>1. PICK i \in 1..n : x = Decoded(ss, t, rows[i])
    BY <1>4 DEF Says
  <2> QED
    BY <1>4, <1>8, <2>1 DEF Says
<1> QED
  BY <1>3, <1>10, <1>11, <1>12

LEMMA FinalizeFacts ==
    ASSUME NEW D, NEW ix, WellFormed(ix, D), Freezable(ix), NEW jx, jx = FinalizeTables(ix)
    PROVE  Finalizes(ix, D, jx)
<1>1. /\ ix \in Indices /\ D \in SUBSET Tables /\ DOMAIN ix.rows = D
      /\ AreStrings(ix.strings) /\ \A u \in D : AreRows(ix.strings, u, ix.rows[u])
  BY DEF WellFormed
<1>2. PICK ss, rows, f, o : ss = ix.strings /\ rows = ix.rows /\ f = ix.finalized
                            /\ o = ix.readonly
  OBVIOUS
<1>3. /\ ix = [strings |-> ss, finalized |-> f, rows |-> rows, readonly |-> o]
      /\ f \in SUBSET Names /\ o \in SUBSET Tables
      /\ rows = [u \in D |-> rows[u]] /\ ss \in [Names -> Seq(Nat)]
  BY <1>1, <1>2, Parts
<1>4. PICK N : N = Names \ f
  OBVIOUS
<1>5. PICK tt : tt = SortedStrings(ss, N)
  OBVIOUS
<1>6. PICK map : map = Renaming(N, ss, tt)
  OBVIOUS
<1>7. N \in SUBSET Names
  BY <1>4
<1>8. /\ AreStrings(tt) /\ Renames(map, ss, tt)
      /\ \A n \in Names : Held(tt[n]) = Held(ss[n])
      /\ \A n \in Names : IF n \in N THEN Up(tt[n]) ELSE tt[n] = ss[n]
  BY <1>1, <1>2, <1>5, <1>6, <1>7, SortingStrings
<1>9. PICK r2 : r2 = [t \in D |-> IF t \in o THEN rows[t]
                                  ELSE SortedRowsOf(RemapAll(t, map, rows[t]))]
  OBVIOUS
<1>10. jx = [ix EXCEPT !.strings = tt, !.finalized = Names, !.rows = r2, !.readonly = D]
  <2>1. PICK sorted : sorted = [n \in N |-> SortedUp(ss[n])]
    OBVIOUS
  <2>2. PICK ranks : ranks = [n \in N |-> [id \in DOMAIN ss[n] |-> IdOf(sorted[n], ss[n][id])]]
    OBVIOUS
  <2>3. ranks = map
    <3>1. \A n \in N : tt[n] = sorted[n]
      BY <1>5, <1>7, <2>1 DEF SortedStrings
    <3>2. \A n \in N : [id \in DOMAIN ss[n] |-> IdOf(sorted[n], ss[n][id])]
                       = [id \in DOMAIN ss[n] |-> IdOf(tt[n], ss[n][id])]
      BY <3>1
    <3> QED
      BY <1>6, <2>2, <3>2 DEF Renaming
  <2>4. jx = [ix EXCEPT
                !.strings = [n \in Names |-> IF n \in N THEN sorted[n] ELSE ss[n]],
                !.finalized = Names,
                !.rows = [t \in DOMAIN rows |->
                    IF t \in o THEN rows[t] ELSE SetReadOnly(t, ranks, rows[t])],
                !.readonly = DOMAIN rows]
    BY <1>2, <1>4, <2>1, <2>2, Zenon DEF FinalizeTables, SortedUp, Names
  <2>5. [n \in Names |-> IF n \in N THEN sorted[n] ELSE ss[n]] = tt
    BY <1>5, <2>1 DEF SortedStrings
  <2>6. \A t : SetReadOnly(t, map, rows[t]) = SortedRowsOf(RemapAll(t, map, rows[t]))
    BY Zenon DEF SetReadOnly, SortedRowsOf
  <2>7. [t \in DOMAIN rows |-> IF t \in o THEN rows[t] ELSE SetReadOnly(t, ranks, rows[t])] = r2
    BY <1>1, <1>2, <1>9, <2>3, <2>6
  <2>8. DOMAIN rows = D
    BY <1>1, <1>2
  <2> QED
    BY <2>4, <2>5, <2>7, <2>8, Zenon
<1>11. jx = [strings |-> tt, finalized |-> Names, rows |-> r2, readonly |-> D]
  BY <1>3, <1>10
<1>12. ASSUME NEW t \in D
       PROVE  /\ AreRows(tt, t, r2[t]) /\ Says(tt, t, r2[t]) = Says(ss, t, rows[t])
              /\ IF t \in o THEN r2[t] = rows[t] ELSE RowsUp(r2[t])
  <2>1. t \in Tables
    BY <1>1
  <2>2. AreRows(ss, t, rows[t])
    BY <1>1, <1>2
  <2>3. CASE t \in o
    <3>1. N = {}
      BY <1>2, <1>4, <2>3 DEF Freezable
    <3>2. \A n \in Names : tt[n] = ss[n]
      BY <1>8, <3>1
    <3>3. tt = ss
      <4>1. tt \in [Names -> Seq(Nat)]
        BY <1>8 DEF AreStrings
      <4> QED
        BY <1>3, <3>2, <4>1
    <3>4. r2[t] = rows[t]
      BY <1>9, <2>3
    <3> QED
      BY <2>2, <2>3, <3>3, <3>4
  <2>4. CASE t \notin o
    <3>1. PICK new : new = RemapAll(t, map, rows[t])
      OBVIOUS
    <3>2. AreRows(tt, t, new) /\ Says(tt, t, new) = Says(ss, t, rows[t])
      BY <1>1, <1>2, <1>8, <2>1, <2>2, <3>1, RemappingAll
    <3>3. r2[t] = SortedRowsOf(new)
      BY <1>9, <2>4, <3>1
    <3>4. AreRows(tt, t, r2[t]) /\ Says(tt, t, r2[t]) = Says(tt, t, new) /\ RowsUp(r2[t])
      BY <2>1, <3>2, <3>3, SortingRows
    <3> QED
      BY <2>4, <3>2, <3>4
  <2> QED
    BY <2>3, <2>4
<1>13. DOMAIN r2 = D /\ r2 = [t \in D |-> r2[t]]
  BY <1>9
<1>14. \A t \in D : AreRows(tt, t, r2[t])
  BY <1>12
<1>15. WellFormed(jx, D)
  <2>1. Names \in SUBSET Names /\ D \in SUBSET Tables
    BY <1>1
  <2> QED
    BY <1>8, <1>11, <1>13, <1>14, <2>1, Assembled
<1>16. jx.strings = tt /\ jx.rows = r2 /\ jx.finalized = Names /\ jx.readonly = D
  BY <1>11
<1>17. ASSUME NEW t \in D PROVE Relation(jx, t) = Relation(ix, t)
  <2>1. t \in Tables
    BY <1>1
  <2>2. Relation(ix, t) = Says(ss, t, rows[t])
    BY <1>1, <1>2, <2>1, Saying
  <2>3. Relation(jx, t) = Says(tt, t, r2[t])
    BY <1>13, <1>14, <1>16, <2>1, Saying
  <2> QED
    BY <1>12, <2>2, <2>3
<1>18. \A n \in Names : Texts(jx, n) = Texts(ix, n)
  BY <1>2, <1>8, <1>16 DEF Texts
<1>19. \A n \in Names : IF n \in ix.finalized THEN jx.strings[n] = ix.strings[n]
                                              ELSE Up(jx.strings[n])
  BY <1>2, <1>4, <1>8, <1>16
<1>20. \A t \in D : IF t \in ix.readonly THEN jx.rows[t] = ix.rows[t] ELSE RowsUp(jx.rows[t])
  BY <1>2, <1>12, <1>16
<1> QED
  BY <1>15, <1>16, <1>17, <1>18, <1>19, <1>20 DEF Finalizes

-----------------------------------------------------------------------------
(* The context of a file while its unit is indexed.                        *)
Identifies(id, strings, x) == id \in 1..Len(strings) /\ strings[id] = x

Live(c) ==
    /\ c = [index |-> c.index, pathID |-> c.pathID, declNameCache |-> c.declNameCache,
            refTypeIDs |-> c.refTypeIDs, symbolTypeIDs |-> c.symbolTypeIDs]
    /\ WellFormed(c.index, Base) /\ c.index.readonly = {} /\ c.index.finalized = {}
    /\ \A d \in DOMAIN c.declNameCache :
          Identifies(c.declNameCache[d], c.index.strings["Symbol"], NameOf[d])
    /\ \A r \in DOMAIN c.refTypeIDs :
          Identifies(c.refTypeIDs[r], c.index.strings["ReferenceType"], r)
    /\ \A s \in DOMAIN c.symbolTypeIDs :
          Identifies(c.symbolTypeIDs[s], c.index.strings["SymbolType"], s)

(* d is c with the facts F (by table) and the strings X (by table) added.  *)
Follows(c, F, X, d) ==
    /\ Live(d) /\ d.pathID = c.pathID
    /\ Grown(c.index.strings, d.index.strings)
    /\ \A t \in Base : \A fact :
          fact \in Relation(d.index, t) <=> fact \in Relation(c.index, t) \/ <<t, fact>> \in F
    /\ \A n \in Names : \A s :
          s \in Texts(d.index, n) <=> s \in Texts(c.index, n) \/ <<n, s>> \in X

LEMMA GrownTwice ==
    ASSUME NEW ss, AreStrings(ss), NEW tt, AreStrings(tt), NEW uu, AreStrings(uu),
           Grown(ss, tt), Grown(tt, uu)
    PROVE  Grown(ss, uu)
<1>1. ASSUME NEW n \in Names
      PROVE  Len(ss[n]) <= Len(uu[n]) /\ \A i \in 1..Len(ss[n]) : uu[n][i] = ss[n][i]
  <2>1. PICK a \in Nat, b \in Nat, c \in Nat :
           a = Len(ss[n]) /\ b = Len(tt[n]) /\ c = Len(uu[n])
    BY DEF AreStrings
  <2>2. a <= b /\ \A i \in 1..a : tt[n][i] = ss[n][i]
    BY <2>1 DEF Grown
  <2>3. b <= c /\ \A i \in 1..b : uu[n][i] = tt[n][i]
    BY <2>1 DEF Grown
  <2> QED
    BY <2>1, <2>2, <2>3
<1> QED
  BY <1>1 DEF Grown

LEMMA StillIdentifies ==
    ASSUME NEW ss, AreStrings(ss), NEW tt, AreStrings(tt), Grown(ss, tt), NEW n \in Names,
           NEW id, NEW x, Identifies(id, ss[n], x)
    PROVE  Identifies(id, tt[n], x)
<1>1. PICK a \in Nat, b \in Nat : a = Len(ss[n]) /\ b = Len(tt[n])
  BY DEF AreStrings
<1>2. a <= b /\ \A i \in 1..a : tt[n][i] = ss[n][i]
  BY <1>1 DEF Grown
<1> QED
  BY <1>1, <1>2 DEF Identifies

LEMMA LiveStrings ==
    ASSUME NEW c, Live(c)
    PROVE  AreStrings(c.index.strings)
BY DEF Live, WellFormed

LEMMA FollowsOn ==
    ASSUME NEW c, Live(c), NEW d, NEW e, NEW F, NEW X, NEW G, NEW Y,
           Follows(c, F, X, d), Follows(d, G, Y, e)
    PROVE  Follows(c, F \cup G, X \cup Y, e)
<1>1. AreStrings(c.index.strings) /\ AreStrings(d.index.strings) /\ AreStrings(e.index.strings)
  BY LiveStrings DEF Follows
<1>2. Grown(c.index.strings, e.index.strings)
  BY <1>1, GrownTwice DEF Follows
<1>3. ASSUME NEW t \in Base, NEW fact
      PROVE  fact \in Relation(e.index, t)
             <=> fact \in Relation(c.index, t) \/ <<t, fact>> \in F \cup G
  <2>1. fact \in Relation(d.index, t) <=> fact \in Relation(c.index, t) \/ <<t, fact>> \in F
    BY DEF Follows
  <2>2. fact \in Relation(e.index, t) <=> fact \in Relation(d.index, t) \/ <<t, fact>> \in G
    BY DEF Follows
  <2> QED
    BY <2>1, <2>2
<1>4. ASSUME NEW n \in Names, NEW s
      PROVE  s \in Texts(e.index, n) <=> s \in Texts(c.index, n) \/ <<n, s>> \in X \cup Y
  <2>1. s \in Texts(d.index, n) <=> s \in Texts(c.index, n) \/ <<n, s>> \in X
    BY DEF Follows
  <2>2. s \in Texts(e.index, n) <=> s \in Texts(d.index, n) \/ <<n, s>> \in Y
    BY DEF Follows
  <2> QED
    BY <2>1, <2>2
<1>5. Live(e) /\ e.pathID = c.pathID
  BY DEF Follows
<1> QED
  BY <1>2, <1>3, <1>4, <1>5 DEF Follows

(* The caches of a context are of no account when its index grows.         *)
LEMMA LiveOn ==
    ASSUME NEW c, Live(c), NEW ix, WellFormed(ix, Base), ix.readonly = {}, ix.finalized = {},
           Grown(c.index.strings, ix.strings), NEW d, d = [c EXCEPT !.index = ix]
    PROVE  /\ Live(d) /\ d.index = ix /\ d.pathID = c.pathID
           /\ d.declNameCache = c.declNameCache /\ d.refTypeIDs = c.refTypeIDs
           /\ d.symbolTypeIDs = c.symbolTypeIDs
<1>1. c = [index |-> c.index, pathID |-> c.pathID, declNameCache |-> c.declNameCache,
           refTypeIDs |-> c.refTypeIDs, symbolTypeIDs |-> c.symbolTypeIDs]
  BY DEF Live
<1>2. d = [index |-> ix, pathID |-> c.pathID, declNameCache |-> c.declNameCache,
           refTypeIDs |-> c.refTypeIDs, symbolTypeIDs |-> c.symbolTypeIDs]
  BY <1>1
<1>3. AreStrings(c.index.strings) /\ AreStrings(ix.strings)
  BY LiveStrings DEF WellFormed
<1>4. \A x \in DOMAIN c.declNameCache :
         Identifies(c.declNameCache[x], ix.strings["Symbol"], NameOf[x])
  <2> TAKE x \in DOMAIN c.declNameCache
  <2>1. Identifies(c.declNameCache[x], c.index.strings["Symbol"], NameOf[x])
    BY DEF Live
  <2> QED
    BY <1>3, <2>1, StillIdentifies DEF Names
<1>5. \A x \in DOMAIN c.refTypeIDs :
         Identifies(c.refTypeIDs[x], ix.strings["ReferenceType"], x)
  <2> TAKE x \in DOMAIN c.refTypeIDs
  <2>1. Identifies(c.refTypeIDs[x], c.index.strings["ReferenceType"], x)
    BY DEF Live
  <2> QED
    BY <1>3, <2>1, StillIdentifies DEF Names
<1>6. \A x \in DOMAIN c.symbolTypeIDs :
         Identifies(c.symbolTypeIDs[x], ix.strings["SymbolType"], x)
  <2> TAKE x \in DOMAIN c.symbolTypeIDs
  <2>1. Identifies(c.symbolTypeIDs[x], c.index.strings["SymbolType"], x)
    BY DEF Live
  <2> QED
    BY <1>3, <2>1, StillIdentifies DEF Names
<1>7. /\ d.index = ix /\ d.pathID = c.pathID
      /\ d.declNameCache = c.declNameCache /\ d.refTypeIDs = c.refTypeIDs
      /\ d.symbolTypeIDs = c.symbolTypeIDs
  BY <1>2
<1>8. d = [index |-> d.index, pathID |-> d.pathID, declNameCache |-> d.declNameCache,
           refTypeIDs |-> d.refTypeIDs, symbolTypeIDs |-> d.symbolTypeIDs]
  BY <1>2, <1>7
<1> QED
  BY <1>4, <1>5, <1>6, <1>7, <1>8 DEF Live

LEMMA WithString ==
    ASSUME NEW c, Live(c), NEW n \in Names, NEW s \in Nat,
           NEW d, d = [c EXCEPT !.index = InsertString(@, n, s)]
    PROVE  /\ Follows(c, {}, {<<n, s>>}, d)
           /\ d.declNameCache = c.declNameCache /\ d.refTypeIDs = c.refTypeIDs
           /\ d.symbolTypeIDs = c.symbolTypeIDs
           /\ Identifies(IdOf(d.index.strings[n], s), d.index.strings[n], s)
<1>1. PICK ix, jx : ix = c.index /\ jx = InsertString(ix, n, s)
  OBVIOUS
<1>2. WellFormed(ix, Base) /\ ix.readonly = {} /\ ix.finalized = {}
  BY <1>1 DEF Live
<1>3. Inserts(ix, Base, n, s, jx)
  BY <1>1, <1>2, InsertStringFacts
<1>4. /\ WellFormed(jx, Base) /\ jx.readonly = {} /\ jx.finalized = {}
      /\ Grown(ix.strings, jx.strings)
      /\ \A t \in Base : Relation(jx, t) = Relation(ix, t)
      /\ \A m \in Names : Texts(jx, m) = Texts(ix, m) \cup (IF m = n THEN {s} ELSE {})
      /\ Identifies(IdOf(jx.strings[n], s), jx.strings[n], s)
  BY <1>2, <1>3 DEF Inserts, Identifies
<1>5. d = [c EXCEPT !.index = jx]
  BY <1>1
<1>6. /\ Live(d) /\ d.index = jx /\ d.pathID = c.pathID
      /\ d.declNameCache = c.declNameCache /\ d.refTypeIDs = c.refTypeIDs
      /\ d.symbolTypeIDs = c.symbolTypeIDs
  BY <1>1, <1>4, <1>5, LiveOn
<1>7. ASSUME NEW m \in Names, NEW x
      PROVE  x \in Texts(d.index, m) <=> x \in Texts(c.index, m) \/ <<m, x>> \in {<<n, s>>}
  <2>1. Texts(jx, m) = Texts(ix, m) \cup (IF m = n THEN {s} ELSE {})
    BY <1>4
  <2> QED
    BY <1>1, <1>6, <2>1
<1>8. \A t \in Base : \A fact :
         fact \in Relation(d.index, t) <=> fact \in Relation(c.index, t) \/ <<t, fact>> \in {}
  BY <1>1, <1>4, <1>6
<1>9. Follows(c, {}, {<<n, s>>}, d)
  BY <1>1, <1>4, <1>6, <1>7, <1>8 DEF Follows
<1> QED
  BY <1>4, <1>6, <1>9

LEMMA WithRow ==
    ASSUME NEW c, Live(c), NEW t \in Base, NEW row \in Row(Width(t)),
           InRange(c.index.strings, t, row),
           NEW d, d = [c EXCEPT !.index = AddRow(@, t, row)],
           NEW fact, fact = Decoded(c.index.strings, t, row)
    PROVE  Follows(c, {<<t, fact>>}, {}, d)
<1>1. PICK ix, jx : ix = c.index /\ jx = AddRow(ix, t, row)
  OBVIOUS
<1>2. WellFormed(ix, Base) /\ ix.readonly = {} /\ ix.finalized = {}
  BY <1>1 DEF Live
<1>3. Grows(ix, Base, t, fact, jx)
  BY <1>1, <1>2, AddRowFacts
<1>4. /\ WellFormed(jx, Base) /\ jx.readonly = {} /\ jx.finalized = {}
      /\ jx.strings = ix.strings
      /\ \A u \in Base : Relation(jx, u) = Relation(ix, u) \cup (IF u = t THEN {fact} ELSE {})
  BY <1>2, <1>3 DEF Grows
<1>5. Grown(ix.strings, jx.strings)
  <2>1. \A n \in Names : Len(ix.strings[n]) \in Nat
    BY <1>2 DEF WellFormed, AreStrings
  <2> QED
    BY <1>4, <2>1 DEF Grown
<1>6. d = [c EXCEPT !.index = jx]
  BY <1>1
<1>7. Live(d) /\ d.index = jx /\ d.pathID = c.pathID
  BY <1>1, <1>4, <1>5, <1>6, LiveOn
<1>8. ASSUME NEW u \in Base, NEW x
      PROVE  x \in Relation(d.index, u)
             <=> x \in Relation(c.index, u) \/ <<u, x>> \in {<<t, fact>>}
  <2>1. Relation(jx, u) = Relation(ix, u) \cup (IF u = t THEN {fact} ELSE {})
    BY <1>4
  <2> QED
    BY <1>1, <1>7, <2>1
<1>9. \A m \in Names : \A x :
         x \in Texts(d.index, m) <=> x \in Texts(c.index, m) \/ <<m, x>> \in {}
  BY <1>1, <1>4, <1>7 DEF Texts
<1> QED
  BY <1>1, <1>5, <1>7, <1>8, <1>9 DEF Follows

-----------------------------------------------------------------------------
(* The members of a context that find, or make, an ID.                     *)
LEMMA Again ==
    ASSUME NEW c, Live(c), NEW n \in Names, NEW id, NEW x, Identifies(id, c.index.strings[n], x)
    PROVE  Follows(c, {}, {<<n, x>>}, c)
<1>1. AreStrings(c.index.strings)
  BY LiveStrings
<1>2. Grown(c.index.strings, c.index.strings)
  <2>1. \A m \in Names : Len(c.index.strings[m]) \in Nat
    BY <1>1 DEF AreStrings
  <2> QED
    BY <2>1 DEF Grown
<1>3. x \in Texts(c.index, n)
  BY DEF Identifies, Texts, Held
<1> QED
  BY <1>2, <1>3 DEF Follows

LEMMA Renewed ==
    ASSUME NEW c, NEW X, NEW d, Follows(c, {}, X, d), NEW e, Live(e),
           e.index = d.index, e.pathID = d.pathID
    PROVE  Follows(c, {}, X, e)
BY DEF Follows

LEMMA WithSymbolFacts ==
    ASSUME NEW c, Live(c), NEW s \in Nat, NEW d, d = WithSymbol(c, s)
    PROVE  /\ Follows(c, {}, {<<"Symbol", s>>}, d)
           /\ Identifies(SymbolID(d, s), d.index.strings["Symbol"], s)
           /\ d.declNameCache = c.declNameCache /\ d.refTypeIDs = c.refTypeIDs
           /\ d.symbolTypeIDs = c.symbolTypeIDs
<1>1. "Symbol" \in Names
  BY DEF Names
<1>2. d = [c EXCEPT !.index = InsertString(@, "Symbol", s)]
  BY DEF WithSymbol
<1>3. /\ Follows(c, {}, {<<"Symbol", s>>}, d)
      /\ d.declNameCache = c.declNameCache /\ d.refTypeIDs = c.refTypeIDs
      /\ d.symbolTypeIDs = c.symbolTypeIDs
      /\ Identifies(IdOf(d.index.strings["Symbol"], s), d.index.strings["Symbol"], s)
  BY <1>1, <1>2, WithString
<1> QED
  BY <1>3 DEF SymbolID

LEMMA WithDeclFacts ==
    ASSUME NEW c, Live(c), NEW decl \in DOMAIN NameOf, NEW e, e = WithDecl(c, decl)
    PROVE  /\ Follows(c, {}, {<<"Symbol", NameOf[decl]>>}, e)
           /\ Identifies(e.declNameCache[decl], e.index.strings["Symbol"], NameOf[decl])
<1>1. PICK s \in Nat : s = NameOf[decl]
  BY NumberAssumption
<1>2. CASE decl \in DOMAIN c.declNameCache
  <2>1. e = c
    BY <1>2 DEF WithDecl
  <2>2. Identifies(c.declNameCache[decl], c.index.strings["Symbol"], s)
    BY <1>1, <1>2 DEF Live
  <2>3. "Symbol" \in Names
    BY DEF Names
  <2>4. Follows(c, {}, {<<"Symbol", s>>}, c)
    BY <2>2, <2>3, Again
  <2> QED
    BY <1>1, <2>1, <2>2, <2>4
<1>3. CASE decl \notin DOMAIN c.declNameCache
  <2>1. PICK d : d = WithSymbol(c, s)
    OBVIOUS
  <2>2. PICK id : id = SymbolID(d, s)
    OBVIOUS
  <2>3. /\ Follows(c, {}, {<<"Symbol", s>>}, d)
        /\ Identifies(id, d.index.strings["Symbol"], s)
    BY <1>1, <2>1, <2>2, WithSymbolFacts
  <2>4. Live(d)
    BY <2>3 DEF Follows
  <2>5. PICK cache : cache = With(d.declNameCache, decl, id)
    OBVIOUS
  <2>6. e = [d EXCEPT !.declNameCache = cache]
    BY <1>1, <1>3, <2>1, <2>2, <2>5 DEF WithDecl
  <2>7. d = [index |-> d.index, pathID |-> d.pathID, declNameCache |-> d.declNameCache,
             refTypeIDs |-> d.refTypeIDs, symbolTypeIDs |-> d.symbolTypeIDs]
    BY <2>4 DEF Live
  <2>8. e = [index |-> d.index, pathID |-> d.pathID, declNameCache |-> cache,
             refTypeIDs |-> d.refTypeIDs, symbolTypeIDs |-> d.symbolTypeIDs]
    BY <2>6, <2>7
  <2>9. /\ e.index = d.index /\ e.pathID = d.pathID /\ e.declNameCache = cache
        /\ e.refTypeIDs = d.refTypeIDs /\ e.symbolTypeIDs = d.symbolTypeIDs
    BY <2>8
  <2>10. /\ cache[decl] = id
         /\ \A x \in DOMAIN cache : Identifies(cache[x], d.index.strings["Symbol"], NameOf[x])
    BY <1>1, <2>3, <2>4, <2>5 DEF With, Live
  <2>11. Live(e)
    BY <2>4, <2>8, <2>9, <2>10 DEF Live
  <2>12. Follows(c, {}, {<<"Symbol", s>>}, e)
    BY <2>3, <2>9, <2>11, Renewed
  <2> QED
    BY <1>1, <2>3, <2>9, <2>10, <2>12
<1> QED
  BY <1>2, <1>3

LEMMA WithRefTypeFacts ==
    ASSUME NEW c, Live(c), NEW s \in Nat, NEW e, e = WithRefType(c, s)
    PROVE  /\ Follows(c, {}, {<<"ReferenceType", s>>}, e)
           /\ Identifies(e.refTypeIDs[s], e.index.strings["ReferenceType"], s)
<1> "ReferenceType" \in Names
  BY DEF Names
<1>2. CASE s \in DOMAIN c.refTypeIDs
  <2>1. e = c
    BY <1>2 DEF WithRefType
  <2>2. Identifies(c.refTypeIDs[s], c.index.strings["ReferenceType"], s)
    BY <1>2 DEF Live
  <2>3. Follows(c, {}, {<<"ReferenceType", s>>}, c)
    BY <2>2, Again
  <2> QED
    BY <2>1, <2>2, <2>3
<1>3. CASE s \notin DOMAIN c.refTypeIDs
  <2>1. PICK d : d = [c EXCEPT !.index = InsertString(@, "ReferenceType", s)]
    OBVIOUS
  <2>2. PICK id : id = IdOf(d.index.strings["ReferenceType"], s)
    OBVIOUS
  <2>3. /\ Follows(c, {}, {<<"ReferenceType", s>>}, d)
        /\ Identifies(id, d.index.strings["ReferenceType"], s)
    BY <2>1, <2>2, WithString
  <2>4. Live(d)
    BY <2>3 DEF Follows
  <2>5. PICK cache : cache = With(d.refTypeIDs, s, id)
    OBVIOUS
  <2>6. c = [index |-> c.index, pathID |-> c.pathID, declNameCache |-> c.declNameCache,
             refTypeIDs |-> c.refTypeIDs, symbolTypeIDs |-> c.symbolTypeIDs]
    BY DEF Live
  <2>7. PICK ix : ix = InsertString(c.index, "ReferenceType", s)
    OBVIOUS
  <2>8. d = [index |-> ix, pathID |-> c.pathID, declNameCache |-> c.declNameCache,
             refTypeIDs |-> c.refTypeIDs, symbolTypeIDs |-> c.symbolTypeIDs]
    BY <2>1, <2>6, <2>7
  <2>9. e = [c EXCEPT !.index = ix, !.refTypeIDs = cache]
    BY <1>3, <2>2, <2>5, <2>7, <2>8 DEF WithRefType
  <2>10. e = [index |-> d.index, pathID |-> d.pathID, declNameCache |-> d.declNameCache,
              refTypeIDs |-> cache, symbolTypeIDs |-> d.symbolTypeIDs]
    BY <2>6, <2>8, <2>9
  <2>11. /\ e.index = d.index /\ e.pathID = d.pathID /\ e.declNameCache = d.declNameCache
         /\ e.refTypeIDs = cache /\ e.symbolTypeIDs = d.symbolTypeIDs
    BY <2>10
  <2>12. /\ cache[s] = id
         /\ \A x \in DOMAIN cache : Identifies(cache[x], d.index.strings["ReferenceType"], x)
    BY <2>3, <2>4, <2>5 DEF With, Live
  <2>13. Live(e)
    BY <2>4, <2>10, <2>11, <2>12 DEF Live
  <2>14. Follows(c, {}, {<<"ReferenceType", s>>}, e)
    BY <2>3, <2>11, <2>13, Renewed
  <2> QED
    BY <2>3, <2>11, <2>12, <2>14
<1> QED
  BY <1>2, <1>3

LEMMA WithSymbolTypeFacts ==
    ASSUME NEW c, Live(c), NEW s \in Nat, NEW e, e = WithSymbolType(c, s)
    PROVE  /\ Follows(c, {}, {<<"SymbolType", s>>}, e)
           /\ Identifies(e.symbolTypeIDs[s], e.index.strings["SymbolType"], s)
<1> "SymbolType" \in Names
  BY DEF Names
<1>2. CASE s \in DOMAIN c.symbolTypeIDs
  <2>1. e = c
    BY <1>2 DEF WithSymbolType
  <2>2. Identifies(c.symbolTypeIDs[s], c.index.strings["SymbolType"], s)
    BY <1>2 DEF Live
  <2>3. Follows(c, {}, {<<"SymbolType", s>>}, c)
    BY <2>2, Again
  <2> QED
    BY <2>1, <2>2, <2>3
<1>3. CASE s \notin DOMAIN c.symbolTypeIDs
  <2>1. PICK d : d = [c EXCEPT !.index = InsertString(@, "SymbolType", s)]
    OBVIOUS
  <2>2. PICK id : id = IdOf(d.index.strings["SymbolType"], s)
    OBVIOUS
  <2>3. /\ Follows(c, {}, {<<"SymbolType", s>>}, d)
        /\ Identifies(id, d.index.strings["SymbolType"], s)
    BY <2>1, <2>2, WithString
  <2>4. Live(d)
    BY <2>3 DEF Follows
  <2>5. PICK cache : cache = With(d.symbolTypeIDs, s, id)
    OBVIOUS
  <2>6. c = [index |-> c.index, pathID |-> c.pathID, declNameCache |-> c.declNameCache,
             refTypeIDs |-> c.refTypeIDs, symbolTypeIDs |-> c.symbolTypeIDs]
    BY DEF Live
  <2>7. PICK ix : ix = InsertString(c.index, "SymbolType", s)
    OBVIOUS
  <2>8. d = [index |-> ix, pathID |-> c.pathID, declNameCache |-> c.declNameCache,
             refTypeIDs |-> c.refTypeIDs, symbolTypeIDs |-> c.symbolTypeIDs]
    BY <2>1, <2>6, <2>7
  <2>9. e = [c EXCEPT !.index = ix, !.symbolTypeIDs = cache]
    BY <1>3, <2>2, <2>5, <2>7, <2>8 DEF WithSymbolType
  <2>10. e = [index |-> d.index, pathID |-> d.pathID, declNameCache |-> d.declNameCache,
              refTypeIDs |-> d.refTypeIDs, symbolTypeIDs |-> cache]
    BY <2>6, <2>8, <2>9
  <2>11. /\ e.index = d.index /\ e.pathID = d.pathID /\ e.declNameCache = d.declNameCache
         /\ e.refTypeIDs = d.refTypeIDs /\ e.symbolTypeIDs = cache
    BY <2>10
  <2>12. /\ cache[s] = id
         /\ \A x \in DOMAIN cache : Identifies(cache[x], d.index.strings["SymbolType"], x)
    BY <2>3, <2>4, <2>5 DEF With, Live
  <2>13. Live(e)
    BY <2>4, <2>10, <2>11, <2>12 DEF Live
  <2>14. Follows(c, {}, {<<"SymbolType", s>>}, e)
    BY <2>3, <2>11, <2>13, Renewed
  <2> QED
    BY <2>3, <2>11, <2>12, <2>14
<1> QED
  BY <1>2, <1>3

-----------------------------------------------------------------------------
(* The rows of the tables, as tuples.                                      *)
Six(a, b, c, d, e, f) == <<a, b, c, d, e, f>>

LEMMA ReferenceRow ==
    ASSUME NEW ss, AreStrings(ss), NEW a, NEW p, Identifies(a, ss["Symbol"], p),
           NEW b \in Nat, NEW c \in Nat, NEW d \in Nat,
           NEW e, NEW name, Identifies(e, ss["Symbol"], name),
           NEW f, NEW rt, Identifies(f, ss["ReferenceType"], rt),
           NEW row, row = Six(a, b, c, d, e, f), NEW fact, fact = Six(p, b, c, d, name, rt)
    PROVE  /\ row \in Row(Width("Reference")) /\ InRange(ss, "Reference", row)
           /\ Decoded(ss, "Reference", row) = fact
<1>1. Schema["Reference"] = <<"Symbol", "", "", "", "Symbol", "ReferenceType">>
  BY DEF Schema
<1>2. PICK s : s = Schema["Reference"]
  OBVIOUS
<1>3. /\ s[1] = "Symbol" /\ s[2] = "" /\ s[3] = "" /\ s[4] = "" /\ s[5] = "Symbol"
      /\ s[6] = "ReferenceType"
  <2>1. PICK x, y, z : x = "Symbol" /\ y = "" /\ z = "ReferenceType"
    OBVIOUS
  <2>2. s = <<x, y, y, y, x, z>>
    BY <1>1, <1>2, <2>1
  <2>3. s[1] = x /\ s[2] = y /\ s[3] = y /\ s[4] = y /\ s[5] = x /\ s[6] = z
    BY <2>2
  <2> QED
    BY <2>1, <2>3
<1>4. Width("Reference") = 6
  BY Widths
<1>6. /\ row[1] = a /\ row[2] = b /\ row[3] = c /\ row[4] = d /\ row[5] = e /\ row[6] = f
      /\ row = [i \in 1..6 |-> row[i]]
  BY DEF Six
<1>7. /\ a \in 1..Len(ss["Symbol"]) /\ ss["Symbol"][a] = p
      /\ e \in 1..Len(ss["Symbol"]) /\ ss["Symbol"][e] = name
      /\ f \in 1..Len(ss["ReferenceType"]) /\ ss["ReferenceType"][f] = rt
      /\ a \in Nat /\ e \in Nat /\ f \in Nat
  BY DEF Identifies, AreStrings
<1>8. \A i \in 1..6 : i \in {1, 2, 3, 4, 5, 6}
  OBVIOUS
<1>9. \A i \in 1..6 : row[i] \in Nat
  BY <1>6, <1>7, <1>8
<1>10. row \in [1..6 -> Nat]
  BY <1>6, <1>9
<1>11. InRange(ss, "Reference", row)
  <2>1. ASSUME NEW i \in 1..6, s[i] # "" PROVE row[i] \in 1..Len(ss[s[i]])
    BY <1>3, <1>6, <1>7, <1>8, <2>1, ZenonT(60)
  <2> QED
    BY <1>2, <1>4, <2>1 DEF InRange
<1>12. Decoded(ss, "Reference", row) = fact
  <2>2. /\ fact[1] = ss["Symbol"][a] /\ fact[2] = b /\ fact[3] = c /\ fact[4] = d
        /\ fact[5] = ss["Symbol"][e] /\ fact[6] = ss["ReferenceType"][f]
        /\ fact = [i \in 1..6 |-> fact[i]]
    BY <1>7 DEF Six
  <2>3. ASSUME NEW i \in 1..6
        PROVE  fact[i] = IF s[i] = "" THEN row[i] ELSE ss[s[i]][row[i]]
    <3>1. CASE i \in {1, 5, 6}
      BY <1>3, <1>6, <2>2, <3>1
    <3>2. CASE i \in {2, 3, 4}
      BY <1>3, <1>6, <2>2, <3>2
    <3> QED
      BY <1>8, <3>1, <3>2
  <2>4. Decoded(ss, "Reference", row)
        = [i \in 1..6 |-> IF s[i] = "" THEN row[i] ELSE ss[s[i]][row[i]]]
    BY <1>2, <1>4 DEF Decoded
  <2> QED
    BY <2>2, <2>3, <2>4
<1> QED
  BY <1>4, <1>10, <1>11, <1>12 DEF Row

LEMMA SymbolRow ==
    ASSUME NEW ss, NEW a \in 1..Len(ss["Symbol"]), NEW b \in 1..Len(ss["SymbolType"]),
           AreStrings(ss)
    PROVE  /\ <<a, b>> \in Row(Width("Symbol")) /\ InRange(ss, "Symbol", <<a, b>>)
           /\ Decoded(ss, "Symbol", <<a, b>>) = <<ss["Symbol"][a], ss["SymbolType"][b]>>
<1>1. Schema["Symbol"] = <<"Symbol", "SymbolType">>
  BY DEF Schema
<1>2. PICK s : s = Schema["Symbol"]
  OBVIOUS
<1>3. s[1] = "Symbol" /\ s[2] = "SymbolType"
  BY <1>1, <1>2
<1>4. Width("Symbol") = 2
  BY Widths
<1>5. PICK row : row = <<a, b>>
  OBVIOUS
<1>6. row[1] = a /\ row[2] = b /\ row = [i \in 1..2 |-> row[i]]
  BY <1>5
<1>7. a \in Nat /\ b \in Nat
  BY DEF AreStrings
<1>8. \A i \in 1..2 : i \in {1, 2}
  OBVIOUS
<1>9. row \in [1..2 -> Nat]
  BY <1>6, <1>7, <1>8
<1>10. InRange(ss, "Symbol", row)
  <2>1. ASSUME NEW i \in 1..2, s[i] # "" PROVE row[i] \in 1..Len(ss[s[i]])
    BY <1>3, <1>6, <1>8, <2>1
  <2> QED
    BY <1>2, <1>4, <2>1 DEF InRange
<1>11. Decoded(ss, "Symbol", row) = <<ss["Symbol"][a], ss["SymbolType"][b]>>
  <2>1. PICK fact : fact = <<ss["Symbol"][a], ss["SymbolType"][b]>>
    OBVIOUS
  <2>2. /\ fact[1] = ss["Symbol"][a] /\ fact[2] = ss["SymbolType"][b]
        /\ fact = [i \in 1..2 |-> fact[i]]
    BY <2>1
  <2>3. \A i \in 1..2 : fact[i] = IF s[i] = "" THEN row[i] ELSE ss[s[i]][row[i]]
    BY <1>3, <1>6, <1>8, <2>2
  <2>4. Decoded(ss, "Symbol", row)
        = [i \in 1..2 |-> IF s[i] = "" THEN row[i] ELSE ss[s[i]][row[i]]]
    BY <1>2, <1>4 DEF Decoded
  <2> QED
    BY <2>1, <2>2, <2>3, <2>4
<1> QED
  BY <1>4, <1>5, <1>9, <1>10, <1>11 DEF Row

LEMMA GlobalRow ==
    ASSUME NEW ss, NEW a \in 1..Len(ss["Symbol"]), AreStrings(ss)
    PROVE  /\ <<a>> \in Row(Width("GlobalSymbol")) /\ InRange(ss, "GlobalSymbol", <<a>>)
           /\ Decoded(ss, "GlobalSymbol", <<a>>) = <<ss["Symbol"][a]>>
<1>1. Schema["GlobalSymbol"] = <<"Symbol">>
  BY DEF Schema
<1>2. PICK s : s = Schema["GlobalSymbol"]
  OBVIOUS
<1>3. s[1] = "Symbol"
  BY <1>1, <1>2
<1>4. Width("GlobalSymbol") = 1
  BY Widths
<1>5. PICK row : row = <<a>>
  OBVIOUS
<1>6. row[1] = a /\ row = [i \in 1..1 |-> row[i]]
  BY <1>5
<1>7. a \in Nat
  BY DEF AreStrings
<1>8. \A i \in 1..1 : i = 1
  OBVIOUS
<1>9. row \in [1..1 -> Nat]
  BY <1>6, <1>7, <1>8
<1>10. InRange(ss, "GlobalSymbol", row)
  <2>1. ASSUME NEW i \in 1..1, s[i] # "" PROVE row[i] \in 1..Len(ss[s[i]])
    BY <1>3, <1>6, <1>8, <2>1
  <2> QED
    BY <1>2, <1>4, <2>1 DEF InRange
<1>11. Decoded(ss, "GlobalSymbol", row) = <<ss["Symbol"][a]>>
  <2>1. PICK fact : fact = <<ss["Symbol"][a]>>
    OBVIOUS
  <2>2. fact[1] = ss["Symbol"][a] /\ fact = [i \in 1..1 |-> fact[i]]
    BY <2>1
  <2>3. \A i \in 1..1 : fact[i] = IF s[i] = "" THEN row[i] ELSE ss[s[i]][row[i]]
    BY <1>3, <1>6, <1>8, <2>2
  <2>4. Decoded(ss, "GlobalSymbol", row)
        = [i \in 1..1 |-> IF s[i] = "" THEN row[i] ELSE ss[s[i]][row[i]]]
    BY <1>2, <1>4 DEF Decoded
  <2> QED
    BY <2>1, <2>2, <2>3, <2>4
<1> QED
  BY <1>4, <1>5, <1>9, <1>10, <1>11 DEF Row

-----------------------------------------------------------------------------
(* What a callback records.                                                *)
RefFact(p, name, o) ==
    <<p, o.line, o.column, Promise!EndColumn(o), name, o.refType>>

LEMMA OccurrenceFacts ==
    ASSUME NEW o \in Occurrence
    PROVE  /\ o.refType \in Nat /\ o.symbolType \in Nat /\ o.line \in Nat /\ o.column \in Nat
           /\ Promise!EndColumn(o) \in Nat
           /\ o.file \in DOMAIN PathOf /\ PathOf[o.file] \in Nat
           /\ o.symbol \in DOMAIN NameOf /\ NameOf[o.symbol] \in Nat
<1>1. /\ o.refType \in Nat /\ o.symbolType \in Nat /\ o.line \in Nat /\ o.column \in Nat
      /\ o.endColumn \in Nat
  BY NumberAssumption
<1>2. o.file \in DOMAIN PathOf /\ o.symbol \in DOMAIN NameOf
  BY BuildAssumption
<1>3. Promise!EndColumn(o) \in Nat
  BY <1>1 DEF Promise!EndColumn
<1> QED
  BY <1>1, <1>2, <1>3, NumberAssumption

LEMMA WithRefFacts ==
    ASSUME NEW c, Live(c), NEW p, Identifies(c.pathID, c.index.strings["Symbol"], p),
           NEW id, NEW name, Identifies(id, c.index.strings["Symbol"], name),
           NEW o \in Occurrence, NEW d, d = WithRef(c, id, o)
    PROVE  Follows(c, {<<"Reference", RefFact(p, name, o)>>},
                   {<<"ReferenceType", o.refType>>}, d)
<1> "Symbol" \in Names /\ "ReferenceType" \in Names /\ "Reference" \in Base
  BY DEF Names, Base
<1>1. PICK typed, rt : typed = WithRefType(c, o.refType) /\ rt = typed.refTypeIDs[o.refType]
  OBVIOUS
<1>2. /\ Follows(c, {}, {<<"ReferenceType", o.refType>>}, typed)
      /\ Identifies(rt, typed.index.strings["ReferenceType"], o.refType)
  BY <1>1, OccurrenceFacts, WithRefTypeFacts
<1>3. PICK ss, tt, path : ss = c.index.strings /\ tt = typed.index.strings /\ path = c.pathID
  OBVIOUS
<1>4. Live(typed) /\ Grown(ss, tt) /\ typed.pathID = path
  BY <1>2, <1>3 DEF Follows
<1>5. AreStrings(ss) /\ AreStrings(tt)
  BY <1>3, <1>4, LiveStrings
<1>6. Identifies(path, tt["Symbol"], p) /\ Identifies(id, tt["Symbol"], name)
      /\ Identifies(rt, tt["ReferenceType"], o.refType)
  BY <1>2, <1>3, <1>4, <1>5, StillIdentifies
<1>7. PICK end \in Nat : end = Promise!EndColumn(o)
  BY OccurrenceFacts
<1>8. PICK row : row = <<path, o.line, o.column, end, id, rt>>
  OBVIOUS
<1>9. d = [typed EXCEPT !.index = AddRow(@, "Reference", row)]
  <2>1. PICK from, to : from = Location(typed, o.line, o.column)
                        /\ to = Location(typed, o.endLine, o.endColumn)
    OBVIOUS
  <2>2. /\ from.fileID = path /\ from.line = o.line /\ from.column = o.column
        /\ to.fileID = path /\ to.line = o.endLine /\ to.column = o.endColumn
    BY <1>4, <2>1 DEF Location
  <2>3. Location(c, o.line, o.column) = from /\ Location(c, o.endLine, o.endColumn) = to
    BY <1>3, <1>4, <2>1 DEF Location
  <2>4. d = RecordRef(typed, id, from, to, rt)
    BY <1>1, <2>3 DEF WithRef
  <2>5. end = IF to.line = from.line /\ to.column > from.column
              THEN to.column ELSE from.column + 1
    BY <1>7, <2>2 DEF Promise!EndColumn
  <2> QED
    BY <1>8, <2>2, <2>4, <2>5 DEF RecordRef
<1>10. PICK fact : fact = <<p, o.line, o.column, end, name, o.refType>>
  OBVIOUS
<1>11. /\ row \in Row(Width("Reference")) /\ InRange(tt, "Reference", row)
       /\ Decoded(tt, "Reference", row) = fact
  <2>1. PICK line \in Nat, column \in Nat : line = o.line /\ column = o.column
    BY OccurrenceFacts
  <2>2. row = Six(path, line, column, end, id, rt)
    BY <1>8, <2>1 DEF Six
  <2>3. fact = Six(p, line, column, end, name, o.refType)
    BY <1>10, <2>1 DEF Six
  <2> QED
    BY <1>5, <1>6, <2>2, <2>3, ReferenceRow
<1>12. Follows(typed, {<<"Reference", fact>>}, {}, d)
  BY <1>3, <1>4, <1>9, <1>11, WithRow
<1>13. PICK F, X : F = {<<"Reference", fact>>} /\ X = {<<"ReferenceType", o.refType>>}
  OBVIOUS
<1>14. Follows(c, {} \cup F, X \cup {}, d)
  BY <1>2, <1>12, <1>13, FollowsOn
<1>15. {} \cup F = F /\ X \cup {} = X
  OBVIOUS
<1>16. RefFact(p, name, o) = fact
  BY <1>7, <1>10 DEF RefFact
<1> QED
  BY <1>13, <1>14, <1>15, <1>16

LEMMA RecordSymbolFacts ==
    ASSUME NEW c, Live(c), NEW id, NEW name, Identifies(id, c.index.strings["Symbol"], name),
           NEW type, NEW st, Identifies(type, c.index.strings["SymbolType"], st),
           NEW d, d = RecordSymbol(c, id, type)
    PROVE  Follows(c, {<<"Symbol", <<name, st>> >>}, {}, d)
<1> "Symbol" \in Base
  BY DEF Base
<1>1. PICK ss : ss = c.index.strings
  OBVIOUS
<1>2. AreStrings(ss)
  BY <1>1, LiveStrings
<1>3. PICK row, fact : row = <<id, type>> /\ fact = <<name, st>>
  OBVIOUS
<1>4. /\ id \in 1..Len(ss["Symbol"]) /\ ss["Symbol"][id] = name
      /\ type \in 1..Len(ss["SymbolType"]) /\ ss["SymbolType"][type] = st
  BY <1>1 DEF Identifies
<1>5. /\ row \in Row(Width("Symbol")) /\ InRange(ss, "Symbol", row)
      /\ Decoded(ss, "Symbol", row) = fact
  BY <1>2, <1>3, <1>4, SymbolRow
<1>6. d = [c EXCEPT !.index = AddRow(@, "Symbol", row)]
  BY <1>3 DEF RecordSymbol
<1>7. Follows(c, {<<"Symbol", fact>>}, {}, d)
  BY <1>1, <1>5, <1>6, WithRow
<1> QED
  BY <1>3, <1>7

LEMMA RecordGlobalFacts ==
    ASSUME NEW c, Live(c), NEW id, NEW name, Identifies(id, c.index.strings["Symbol"], name),
           NEW d, d = RecordGlobalSymbol(c, id)
    PROVE  Follows(c, {<<"GlobalSymbol", <<name>> >>}, {}, d)
<1> "GlobalSymbol" \in Base
  BY DEF Base
<1>1. PICK ss : ss = c.index.strings
  OBVIOUS
<1>2. AreStrings(ss)
  BY <1>1, LiveStrings
<1>3. PICK row, fact : row = <<id>> /\ fact = <<name>>
  OBVIOUS
<1>4. id \in 1..Len(ss["Symbol"]) /\ ss["Symbol"][id] = name
  BY <1>1 DEF Identifies
<1>5. /\ row \in Row(Width("GlobalSymbol")) /\ InRange(ss, "GlobalSymbol", row)
      /\ Decoded(ss, "GlobalSymbol", row) = fact
  BY <1>2, <1>3, <1>4, GlobalRow
<1>6. d = [c EXCEPT !.index = AddRow(@, "GlobalSymbol", row)]
  BY <1>3 DEF RecordGlobalSymbol
<1>7. Follows(c, {<<"GlobalSymbol", fact>>}, {}, d)
  BY <1>1, <1>5, <1>6, WithRow
<1> QED
  BY <1>3, <1>7

LEMMA WithTypedFacts ==
    ASSUME NEW c, Live(c), NEW id, NEW name, Identifies(id, c.index.strings["Symbol"], name),
           NEW o \in Occurrence, NEW d, d = WithTypedSymbol(c, id, o)
    PROVE  Follows(c, {<<"Symbol", <<name, o.symbolType>> >>},
                   {<<"SymbolType", o.symbolType>>}, d)
<1> "Symbol" \in Names
  BY DEF Names
<1>1. PICK typed, st, type : /\ st = o.symbolType /\ typed = WithSymbolType(c, st)
                             /\ type = typed.symbolTypeIDs[st]
  OBVIOUS
<1>2. /\ Follows(c, {}, {<<"SymbolType", st>>}, typed)
      /\ Identifies(type, typed.index.strings["SymbolType"], st)
  BY <1>1, OccurrenceFacts, WithSymbolTypeFacts
<1>3. Live(typed) /\ Grown(c.index.strings, typed.index.strings)
  BY <1>2 DEF Follows
<1>4. AreStrings(c.index.strings) /\ AreStrings(typed.index.strings)
  BY <1>3, LiveStrings
<1>5. Identifies(id, typed.index.strings["Symbol"], name)
  BY <1>3, <1>4, StillIdentifies
<1>6. d = RecordSymbol(typed, id, type)
  BY <1>1 DEF WithTypedSymbol
<1>7. PICK F, X : F = {<<"Symbol", <<name, st>> >>} /\ X = {<<"SymbolType", st>>}
  OBVIOUS
<1>8. Follows(typed, F, {}, d)
  BY <1>2, <1>3, <1>5, <1>6, <1>7, RecordSymbolFacts
<1>9. Follows(c, {} \cup F, X \cup {}, d)
  BY <1>2, <1>7, <1>8, FollowsOn
<1>10. {} \cup F = F /\ X \cup {} = X
  OBVIOUS
<1> QED
  BY <1>1, <1>7, <1>9, <1>10

-----------------------------------------------------------------------------
(* What an occurrence tells, and the strings it takes.                     *)
FactsOf(o) ==
    {<<"Reference", RefFact(PathOf[o.file], NameOf[o.symbol], o)>>} \cup
    (IF o.symbolType = NoType THEN {} ELSE {<<"Symbol", <<NameOf[o.symbol], o.symbolType>> >>}) \cup
    (IF o.symbolType \in Unlisted \cup {NoType} THEN {}
     ELSE {<<"GlobalSymbol", <<NameOf[o.symbol]>> >>})

TextsOf(o) ==
    {<<"Symbol", NameOf[o.symbol]>>} \cup {<<"ReferenceType", o.refType>>} \cup
    (IF o.symbolType = NoType THEN {} ELSE {<<"SymbolType", o.symbolType>>})

LEMMA IdentifiesOn ==
    ASSUME NEW c, Live(c), NEW F, NEW X, NEW d, Follows(c, F, X, d), NEW n \in Names,
           NEW id, NEW x, Identifies(id, c.index.strings[n], x)
    PROVE  Identifies(id, d.index.strings[n], x)
<1>1. Live(d) /\ Grown(c.index.strings, d.index.strings)
  BY DEF Follows
<1>2. AreStrings(c.index.strings) /\ AreStrings(d.index.strings)
  BY <1>1, LiveStrings
<1> QED
  BY <1>1, <1>2, StillIdentifies

LEMMA RefStep ==
    ASSUME NEW c, Live(c), NEW p, Identifies(c.pathID, c.index.strings["Symbol"], p),
           NEW X, NEW d, Follows(c, {}, X, d),
           NEW id, NEW name, Identifies(id, d.index.strings["Symbol"], name),
           NEW o \in Occurrence, NEW e, e = WithRef(d, id, o)
    PROVE  /\ Follows(c, {<<"Reference", RefFact(p, name, o)>>},
                      X \cup {<<"ReferenceType", o.refType>>}, e)
           /\ Identifies(id, e.index.strings["Symbol"], name)
<1> "Symbol" \in Names
  BY DEF Names
<1>1. Live(d) /\ d.pathID = c.pathID
  BY DEF Follows
<1>2. Identifies(d.pathID, d.index.strings["Symbol"], p)
  BY <1>1, IdentifiesOn
<1>3. PICK F, Y : /\ F = {<<"Reference", RefFact(p, name, o)>>}
                  /\ Y = {<<"ReferenceType", o.refType>>}
  OBVIOUS
<1>4. Follows(d, F, Y, e)
  BY <1>1, <1>2, <1>3, WithRefFacts
<1>5. Follows(c, {} \cup F, X \cup Y, e)
  BY <1>4, FollowsOn
<1>6. {} \cup F = F
  OBVIOUS
<1>7. Identifies(id, e.index.strings["Symbol"], name)
  BY <1>1, <1>4, IdentifiesOn
<1> QED
  BY <1>3, <1>5, <1>6, <1>7

LEMMA TypedStep ==
    ASSUME NEW c, Live(c), NEW F, NEW X, NEW d, Follows(c, F, X, d),
           NEW id, NEW name, Identifies(id, d.index.strings["Symbol"], name),
           NEW o \in Occurrence, NEW e, e = WithTypedSymbol(d, id, o)
    PROVE  /\ Follows(c, F \cup {<<"Symbol", <<name, o.symbolType>> >>},
                      X \cup {<<"SymbolType", o.symbolType>>}, e)
           /\ Identifies(id, e.index.strings["Symbol"], name)
<1> "Symbol" \in Names
  BY DEF Names
<1>1. Live(d)
  BY DEF Follows
<1>2. PICK G, Y : /\ G = {<<"Symbol", <<name, o.symbolType>> >>}
                  /\ Y = {<<"SymbolType", o.symbolType>>}
  OBVIOUS
<1>3. Follows(d, G, Y, e)
  BY <1>1, <1>2, WithTypedFacts
<1>4. Follows(c, F \cup G, X \cup Y, e)
  BY <1>3, FollowsOn
<1>5. Identifies(id, e.index.strings["Symbol"], name)
  BY <1>1, <1>3, IdentifiesOn
<1> QED
  BY <1>2, <1>4, <1>5

LEMMA GlobalStep ==
    ASSUME NEW c, Live(c), NEW F, NEW X, NEW d, Follows(c, F, X, d),
           NEW id, NEW name, Identifies(id, d.index.strings["Symbol"], name),
           NEW e, e = RecordGlobalSymbol(d, id)
    PROVE  Follows(c, F \cup {<<"GlobalSymbol", <<name>> >>}, X, e)
<1>1. Live(d)
  BY DEF Follows
<1>2. PICK G : G = {<<"GlobalSymbol", <<name>> >>}
  OBVIOUS
<1>3. Follows(d, G, {}, e)
  BY <1>1, <1>2, RecordGlobalFacts
<1>4. Follows(c, F \cup G, X \cup {}, e)
  BY <1>3, FollowsOn
<1>5. X \cup {} = X
  OBVIOUS
<1> QED
  BY <1>2, <1>4, <1>5

(* The three callbacks.                                                    *)
LEMMA InclusionFacts ==
    ASSUME NEW o \in Occurrence, o.kind = "path", NEW c, Live(c),
           Identifies(c.pathID, c.index.strings["Symbol"], PathOf[o.file])
    PROVE  Follows(c, FactsOf(o), TextsOf(o), InclusionDirective(c, o))
<1>1. PICK p, name \in Nat : p = PathOf[o.file] /\ name = NameOf[o.symbol]
  BY OccurrenceFacts
<1>2. PICK named : named = WithSymbol(c, name)
  OBVIOUS
<1>3. PICK id : id = SymbolID(named, name)
  OBVIOUS
<1>4. PICK X : X = {<<"Symbol", name>>}
  OBVIOUS
<1>5. Follows(c, {}, X, named) /\ Identifies(id, named.index.strings["Symbol"], name)
  BY <1>1, <1>2, <1>3, <1>4, WithSymbolFacts
<1>6. PICK ref : ref = WithRef(named, id, o)
  OBVIOUS
<1>7. PICK F, Y : /\ F = {<<"Reference", RefFact(p, name, o)>>}
                  /\ Y = {<<"ReferenceType", o.refType>>}
  OBVIOUS
<1>8. Follows(c, F, X \cup Y, ref) /\ Identifies(id, ref.index.strings["Symbol"], name)
  <2>1. Identifies(c.pathID, c.index.strings["Symbol"], p)
    BY <1>1
  <2>2. PICK G, Z : /\ G = {<<"Reference", RefFact(p, name, o)>>}
                    /\ Z = {<<"ReferenceType", o.refType>>}
    OBVIOUS
  <2>3. Follows(c, G, X \cup Z, ref) /\ Identifies(id, ref.index.strings["Symbol"], name)
    BY <1>5, <1>6, <2>1, <2>2, RefStep
  <2> QED
    BY <1>7, <2>2, <2>3
<1>9. PICK d : d = WithTypedSymbol(ref, id, o)
  OBVIOUS
<1>10. Follows(c, F \cup {<<"Symbol", <<name, o.symbolType>> >>},
               (X \cup Y) \cup {<<"SymbolType", o.symbolType>>}, d)
  BY <1>8, <1>9, TypedStep
<1>11. d = InclusionDirective(c, o)
  BY <1>1, <1>2, <1>3, <1>6, <1>9 DEF InclusionDirective
<1>12. o.symbolType \in Unlisted /\ o.symbolType # NoType
  BY BuildAssumption
<1>13. FactsOf(o) = F \cup {<<"Symbol", <<name, o.symbolType>> >>}
  BY <1>1, <1>7, <1>12 DEF FactsOf
<1>14. TextsOf(o) = (X \cup Y) \cup {<<"SymbolType", o.symbolType>>}
  BY <1>1, <1>4, <1>7, <1>12 DEF TextsOf
<1> QED
  BY <1>10, <1>11, <1>13, <1>14

LEMMA ReferenceFacts ==
    ASSUME NEW o \in Occurrence, o.kind = "macro", NEW c, Live(c),
           Identifies(c.pathID, c.index.strings["Symbol"], PathOf[o.file])
    PROVE  Follows(c, FactsOf(o), TextsOf(o), RecordReference(c, o))
<1>1. PICK p, name \in Nat : p = PathOf[o.file] /\ name = NameOf[o.symbol]
  BY OccurrenceFacts
<1>2. PICK named : named = WithSymbol(c, name)
  OBVIOUS
<1>3. PICK id : id = SymbolID(named, name)
  OBVIOUS
<1>4. PICK X : X = {<<"Symbol", name>>}
  OBVIOUS
<1>5. Follows(c, {}, X, named) /\ Identifies(id, named.index.strings["Symbol"], name)
  BY <1>1, <1>2, <1>3, <1>4, WithSymbolFacts
<1>6. PICK ref : ref = WithRef(named, id, o)
  OBVIOUS
<1>7. PICK F, Y : /\ F = {<<"Reference", RefFact(p, name, o)>>}
                  /\ Y = {<<"ReferenceType", o.refType>>}
  OBVIOUS
<1>8. Follows(c, F, X \cup Y, ref) /\ Identifies(id, ref.index.strings["Symbol"], name)
  <2>1. Identifies(c.pathID, c.index.strings["Symbol"], p)
    BY <1>1
  <2>2. PICK G, Z : /\ G = {<<"Reference", RefFact(p, name, o)>>}
                    /\ Z = {<<"ReferenceType", o.refType>>}
    OBVIOUS
  <2>3. Follows(c, G, X \cup Z, ref) /\ Identifies(id, ref.index.strings["Symbol"], name)
    BY <1>5, <1>6, <2>1, <2>2, RefStep
  <2> QED
    BY <1>7, <2>2, <2>3
<1>9. PICK d : d = WithTypedSymbol(ref, id, o)
  OBVIOUS
<1>10. PICK G, Z : /\ G = F \cup {<<"Symbol", <<name, o.symbolType>> >>}
                   /\ Z = (X \cup Y) \cup {<<"SymbolType", o.symbolType>>}
  OBVIOUS
<1>11. Follows(c, G, Z, d) /\ Identifies(id, d.index.strings["Symbol"], name)
  BY <1>8, <1>9, <1>10, TypedStep
<1>12. PICK e : e = RecordGlobalSymbol(d, id)
  OBVIOUS
<1>13. Follows(c, G \cup {<<"GlobalSymbol", <<name>> >>}, Z, e)
  BY <1>11, <1>12, GlobalStep
<1>14. e = RecordReference(c, o)
  BY <1>1, <1>2, <1>3, <1>6, <1>9, <1>12 DEF RecordReference
<1>15. o.symbolType \notin Unlisted \cup {NoType}
  BY BuildAssumption
<1>16. FactsOf(o) = G \cup {<<"GlobalSymbol", <<name>> >>}
  BY <1>1, <1>7, <1>10, <1>15 DEF FactsOf
<1>17. TextsOf(o) = Z
  BY <1>1, <1>4, <1>7, <1>10, <1>15 DEF TextsOf
<1> QED
  BY <1>13, <1>14, <1>16, <1>17

LEMMA DeclFacts ==
    ASSUME NEW o \in Occurrence, NEW c, Live(c),
           Identifies(c.pathID, c.index.strings["Symbol"], PathOf[o.file])
    PROVE  Follows(c, FactsOf(o), TextsOf(o), RecordDeclRef(c, o))
<1>1. PICK p, name \in Nat : p = PathOf[o.file] /\ name = NameOf[o.symbol]
  BY OccurrenceFacts
<1>2. PICK named : named = WithDecl(c, o.symbol)
  OBVIOUS
<1>3. PICK id : id = named.declNameCache[o.symbol]
  OBVIOUS
<1>4. PICK X : X = {<<"Symbol", name>>}
  OBVIOUS
<1>5. Follows(c, {}, X, named) /\ Identifies(id, named.index.strings["Symbol"], name)
  BY <1>1, <1>2, <1>3, <1>4, OccurrenceFacts, WithDeclFacts
<1>6. PICK ref : ref = WithRef(named, id, o)
  OBVIOUS
<1>7. PICK F, Y : /\ F = {<<"Reference", RefFact(p, name, o)>>}
                  /\ Y = {<<"ReferenceType", o.refType>>}
  OBVIOUS
<1>8. Follows(c, F, X \cup Y, ref) /\ Identifies(id, ref.index.strings["Symbol"], name)
  <2>1. Identifies(c.pathID, c.index.strings["Symbol"], p)
    BY <1>1
  <2>2. PICK G, Z : /\ G = {<<"Reference", RefFact(p, name, o)>>}
                    /\ Z = {<<"ReferenceType", o.refType>>}
    OBVIOUS
  <2>3. Follows(c, G, X \cup Z, ref) /\ Identifies(id, ref.index.strings["Symbol"], name)
    BY <1>5, <1>6, <2>1, <2>2, RefStep
  <2> QED
    BY <1>7, <2>2, <2>3
<1>9. CASE o.symbolType = NoType
  <2>1. RecordDeclRef(c, o) = ref
    BY <1>2, <1>3, <1>6, <1>9 DEF RecordDeclRef
  <2>2. FactsOf(o) = F /\ TextsOf(o) = X \cup Y
    BY <1>1, <1>4, <1>7, <1>9 DEF FactsOf, TextsOf
  <2> QED
    BY <1>8, <2>1, <2>2
<1>10. CASE o.symbolType # NoType
  <2>1. PICK d : d = WithTypedSymbol(ref, id, o)
    OBVIOUS
  <2>2. PICK G, Z : /\ G = F \cup {<<"Symbol", <<name, o.symbolType>> >>}
                    /\ Z = (X \cup Y) \cup {<<"SymbolType", o.symbolType>>}
    OBVIOUS
  <2>3. Follows(c, G, Z, d) /\ Identifies(id, d.index.strings["Symbol"], name)
    BY <1>8, <2>1, <2>2, TypedStep
  <2>4. TextsOf(o) = Z
    BY <1>1, <1>4, <1>7, <1>10, <2>2 DEF TextsOf
  <2>5. CASE o.symbolType \in Unlisted
    <3>1. RecordDeclRef(c, o) = d
      BY <1>2, <1>3, <1>6, <1>10, <2>1, <2>5 DEF RecordDeclRef
    <3>2. FactsOf(o) = G
      BY <1>1, <1>7, <1>10, <2>2, <2>5 DEF FactsOf
    <3> QED
      BY <2>3, <2>4, <3>1, <3>2
  <2>6. CASE o.symbolType \notin Unlisted
    <3>1. PICK e : e = RecordGlobalSymbol(d, id)
      OBVIOUS
    <3>2. Follows(c, G \cup {<<"GlobalSymbol", <<name>> >>}, Z, e)
      BY <2>3, <3>1, GlobalStep
    <3>3. RecordDeclRef(c, o) = e
      BY <1>2, <1>3, <1>6, <1>10, <2>1, <2>6, <3>1 DEF RecordDeclRef
    <3>4. FactsOf(o) = G \cup {<<"GlobalSymbol", <<name>> >>}
      BY <1>1, <1>7, <1>10, <2>2, <2>6 DEF FactsOf
    <3> QED
      BY <2>4, <3>2, <3>3, <3>4
  <2> QED
    BY <2>5, <2>6
<1> QED
  BY <1>9, <1>10

-----------------------------------------------------------------------------
(* An index and a context with nothing in them yet.                        *)
IsEmpty(ix) ==
    /\ WellFormed(ix, Base) /\ ix.readonly = {} /\ ix.finalized = {}
    /\ \A t \in Base : Relation(ix, t) = {}
    /\ \A n \in Names : Texts(ix, n) = {}

LEMMA NothingYet ==
    ASSUME NEW no, no = <<>>, NEW ss, ss = [n \in Names |-> no],
           NEW rows, rows = [t \in Base |-> no], NEW f, f = {}, NEW o, o = {}, NEW ix,
           ix = [strings |-> ss, finalized |-> f, rows |-> rows, readonly |-> o]
    PROVE  IsEmpty(ix)
<1>1. no \in Seq(Nat) /\ Len(no) = 0
  OBVIOUS
<1>2. AreStrings(ss)
  <2>1. ss \in [Names -> Seq(Nat)] /\ \A n \in Names : Len(ss[n]) = 0
    BY <1>1
  <2> QED
    BY <2>1 DEF AreStrings, OneToOne
<1>3. ASSUME NEW t \in Base PROVE AreRows(ss, t, rows[t]) /\ Says(ss, t, rows[t]) = {}
  <2>1. rows[t] = no
    OBVIOUS
  <2>2. no \in Seq(Row(Width(t)))
    OBVIOUS
  <2>3. AreRows(ss, t, no)
    BY <1>1, <2>2 DEF AreRows, OneToOne
  <2>4. Says(ss, t, no) = {}
    BY <1>1 DEF Says
  <2> QED
    BY <2>1, <2>3, <2>4
<1>4. Base \in SUBSET Tables
  BY DEF Base, Tables
<1>5. DOMAIN rows = Base /\ rows = [t \in Base |-> rows[t]]
  OBVIOUS
<1>6. WellFormed(ix, Base)
  <2>1. \A t \in Base : AreRows(ss, t, rows[t])
    BY <1>3
  <2>2. f \in SUBSET Names /\ o \in SUBSET Tables
    OBVIOUS
  <2> QED
    BY <1>2, <1>4, <1>5, <2>1, <2>2, Assembled, ZenonT(60)
<1>7. ix.strings = ss /\ ix.rows = rows /\ ix.readonly = o /\ ix.finalized = f
  OBVIOUS
<1>8. \A t \in Base : Relation(ix, t) = {}
  <2> TAKE t \in Base
  <2>1. Relation(ix, t) = Says(ss, t, rows[t])
    BY <1>3, <1>4, <1>5, <1>7, Saying
  <2> QED
    BY <1>3, <2>1
<1>9. \A n \in Names : Texts(ix, n) = {}
  <2> TAKE n \in Names
  <2>1. ss[n] = no /\ Held(no) = {}
    BY <1>1 DEF Held
  <2>2. Texts(ix, n) = Held(ss[n])
    BY <1>7 DEF Texts
  <2> QED
    BY <2>1, <2>2
<1> QED
  BY <1>6, <1>7, <1>8, <1>9 DEF IsEmpty

LEMMA EmptyFacts ==
    ASSUME NEW ix, ix = NewBuilder(EmptyIndex, FALSE)
    PROVE  IsEmpty(ix)
<1>1. PICK no : no = <<>>
  OBVIOUS
<1>2. PICK ss : ss = [n \in Names |-> no]
  OBVIOUS
<1>3. PICK rows : rows = [t \in Base |-> no]
  OBVIOUS
<1>4. PICK f, o : f = {} /\ o = {}
  OBVIOUS
<1>5. ix = [strings |-> ss, finalized |-> {}, rows |-> rows, readonly |-> {}]
  <2>1. PICK ex : ex = EmptyIndex
    OBVIOUS
  <2>2. ex = [strings |-> ss, finalized |-> {}, rows |-> no, readonly |-> {}]
    BY <1>1, <1>2, <2>1 DEF EmptyIndex, Names
  <2>3. DOMAIN no = {}
    BY <1>1
  <2>4. ix = AddTables(ex, Base)
    <3>1. ix = AddTables(ex, Base \cup {})
      BY <2>1, Zenon DEF NewBuilder, Base
    <3>2. Base \cup {} = Base
      OBVIOUS
    <3> QED
      BY <3>1, <3>2
  <2>5. ix = [ex EXCEPT !.rows = [t \in DOMAIN no \cup Base |->
                                     IF t \in DOMAIN no THEN no[t] ELSE <<>>]]
    BY <2>2, <2>4 DEF AddTables
  <2>6. [t \in DOMAIN no \cup Base |-> IF t \in DOMAIN no THEN no[t] ELSE <<>>] = rows
    BY <1>1, <1>3, <2>3
  <2> QED
    BY <2>2, <2>5, <2>6
<1>6. ix = [strings |-> ss, finalized |-> f, rows |-> rows, readonly |-> o]
  BY <1>4, <1>5
<1> QED
  BY <1>1, <1>2, <1>3, <1>4, <1>6, NothingYet

(* A context that tells the facts F and has the strings X.                 *)
Tells(c, F, X) ==
    /\ \A t \in Base : \A fact : fact \in Relation(c.index, t) <=> <<t, fact>> \in F
    /\ \A n \in Names : \A s : s \in Texts(c.index, n) <=> <<n, s>> \in X

LEMMA TellsMore ==
    ASSUME NEW c, Tells(c, {}, {}), NEW F, NEW X, NEW d, Follows(c, F, X, d)
    PROVE  Tells(d, F, X)
BY DEF Tells, Follows

LEMMA NewContextFacts ==
    ASSUME NEW path \in Nat, NEW c, c = NewContext(path)
    PROVE  /\ Live(c) /\ Identifies(c.pathID, c.index.strings["Symbol"], path)
           /\ Tells(c, {<<"Symbol", <<path, PathType>> >>},
                    {<<"Symbol", path>>} \cup {<<"SymbolType", PathType>>})
<1> "Symbol" \in Names
  BY DEF Names
<1>1. PICK ix : ix = NewBuilder(EmptyIndex, FALSE)
  OBVIOUS
<1>2. PICK no : no = <<>>
  OBVIOUS
<1>3. PICK empty : empty = [index |-> ix, pathID |-> 0, declNameCache |-> no,
                            refTypeIDs |-> no, symbolTypeIDs |-> no]
  OBVIOUS
<1>4. DOMAIN no = {}
  BY <1>2
<1>5. IsEmpty(ix)
  BY <1>1, EmptyFacts, Zenon
<1>6. Live(empty) /\ Tells(empty, {}, {})
  BY <1>3, <1>4, <1>5 DEF Live, Tells, IsEmpty
<1>7. PICK with : with = WithSymbol(empty, path)
  OBVIOUS
<1>8. PICK named : named = WithSymbolType(with, PathType)
  OBVIOUS
<1>9. PICK id, type : id = SymbolID(named, path) /\ type = named.symbolTypeIDs[PathType]
  OBVIOUS
<1>10. PICK X, Y : X = {<<"Symbol", path>>} /\ Y = {<<"SymbolType", PathType>>}
  OBVIOUS
<1>11. Follows(empty, {}, X, with)
  BY <1>6, <1>7, <1>10, WithSymbolFacts
<1>12. Live(with)
  BY <1>11 DEF Follows
<1>13. /\ Follows(with, {}, Y, named)
       /\ Identifies(type, named.index.strings["SymbolType"], PathType)
  BY <1>8, <1>9, <1>10, <1>12, NumberAssumption, WithSymbolTypeFacts
<1>14. Live(named)
  BY <1>13 DEF Follows
<1>15. Identifies(id, named.index.strings["Symbol"], path)
  <2>1. Identifies(SymbolID(with, path), with.index.strings["Symbol"], path)
    BY <1>6, <1>7, WithSymbolFacts
  <2>2. Identifies(SymbolID(with, path), named.index.strings["Symbol"], path)
    BY <1>12, <1>13, <2>1, IdentifiesOn
  <2>3. PICK strings, i : strings = named.index.strings["Symbol"] /\ i = SymbolID(with, path)
    OBVIOUS
  <2>4. strings \in Seq(Nat)
    BY <1>14, <2>3, LiveStrings DEF AreStrings
  <2>5. i \in DOMAIN strings /\ strings[i] = path
    BY <2>2, <2>3, <2>4 DEF Identifies
  <2>6. Has(strings, path)
    BY <2>5 DEF Has
  <2>7. IdOf(strings, path) \in 1..Len(strings) /\ strings[IdOf(strings, path)] = path
    BY <2>4, <2>6, Position
  <2> QED
    BY <1>9, <2>3, <2>7 DEF Identifies, SymbolID
<1>16. PICK d : d = RecordSymbol(named, id, type)
  OBVIOUS
<1>17. PICK F : F = {<<"Symbol", <<path, PathType>> >>}
  OBVIOUS
<1>18. Follows(named, F, {}, d)
  BY <1>13, <1>14, <1>15, <1>16, <1>17, RecordSymbolFacts
<1>19. Follows(empty, F, X \cup Y, d)
  <2>1. Follows(empty, {} \cup {}, X \cup Y, named)
    BY <1>6, <1>11, <1>13, FollowsOn
  <2>2. Follows(empty, {}, X \cup Y, named)
    BY <2>1
  <2>3. Follows(empty, {} \cup F, (X \cup Y) \cup {}, d)
    BY <1>6, <1>18, <2>2, FollowsOn
  <2>4. {} \cup F = F /\ (X \cup Y) \cup {} = X \cup Y
    OBVIOUS
  <2> QED
    BY <2>3, <2>4
<1>20. Tells(d, F, X \cup Y)
  BY <1>6, <1>19, TellsMore
<1>21. Identifies(id, d.index.strings["Symbol"], path)
  BY <1>14, <1>15, <1>18, IdentifiesOn
<1>22. c = [d EXCEPT !.pathID = id]
  <2>1. empty = [index |-> NewBuilder(EmptyIndex, FALSE), pathID |-> 0,
                 declNameCache |-> <<>>, refTypeIDs |-> <<>>, symbolTypeIDs |-> <<>>]
    BY <1>1, <1>2, <1>3, Zenon
  <2> QED
    BY <1>7, <1>8, <1>9, <1>16, <2>1, Zenon DEF NewContext
<1>23. Live(d)
  BY <1>18 DEF Follows
<1>24. d = [index |-> d.index, pathID |-> d.pathID, declNameCache |-> d.declNameCache,
            refTypeIDs |-> d.refTypeIDs, symbolTypeIDs |-> d.symbolTypeIDs]
  BY <1>23 DEF Live
<1>25. c = [index |-> d.index, pathID |-> id, declNameCache |-> d.declNameCache,
            refTypeIDs |-> d.refTypeIDs, symbolTypeIDs |-> d.symbolTypeIDs]
  BY <1>22, <1>24
<1>26. /\ c.index = d.index /\ c.pathID = id /\ c.declNameCache = d.declNameCache
       /\ c.refTypeIDs = d.refTypeIDs /\ c.symbolTypeIDs = d.symbolTypeIDs
  BY <1>25
<1>27. Live(c)
  BY <1>23, <1>25, <1>26 DEF Live
<1>28. Tells(c, F, X \cup Y)
  BY <1>20, <1>26 DEF Tells
<1> QED
  BY <1>10, <1>17, <1>21, <1>26, <1>27, <1>28

-----------------------------------------------------------------------------
(* A string of an index is in a fact that the index says.                  *)
Naming(t, fact, n, s) == \E c \in 1..Width(t) : Schema[t][c] = n /\ fact[c] = s

Mentions(ix, n, s) == \E t \in Base : \E fact \in Relation(ix, t) : Naming(t, fact, n, s)

Covered(ix) == \A n \in Names : \A s \in Texts(ix, n) : Mentions(ix, n, s)

PathFact(p) == <<p, PathType>>

IsContext(c, p) ==
    /\ Live(c) /\ Identifies(c.pathID, c.index.strings["Symbol"], p)
    /\ PathFact(p) \in Relation(c.index, "Symbol")
    /\ Covered(c.index)

(* Whatever an occurrence puts in a string table it also puts in a row.    *)
LEMMA NamesAreMentioned ==
    ASSUME NEW o \in Occurrence, NEW n \in Names, NEW s, <<n, s>> \in TextsOf(o)
    PROVE  \E t \in Base : \E fact : <<t, fact>> \in FactsOf(o) /\ Naming(t, fact, n, s)
<1> "Reference" \in Base /\ "Symbol" \in Base
  BY DEF Base
<1>1. PICK name, type : name = NameOf[o.symbol] /\ type = o.symbolType
  OBVIOUS
<1>2. PICK fact : fact = RefFact(PathOf[o.file], name, o)
  OBVIOUS
<1>3. <<"Reference", fact>> \in FactsOf(o) /\ fact[5] = name /\ fact[6] = o.refType
  BY <1>1, <1>2 DEF FactsOf, RefFact
<1>4. Schema["Reference"][5] = "Symbol" /\ Schema["Reference"][6] = "ReferenceType"
  BY DEF Schema
<1>5. 5 \in 1..Width("Reference") /\ 6 \in 1..Width("Reference") /\ 2 \in 1..Width("Symbol")
  BY Widths
<1>6. CASE n = "Symbol" /\ s = name
  <2>1. Naming("Reference", fact, n, s)
    BY <1>3, <1>4, <1>5, <1>6 DEF Naming
  <2> QED
    BY <1>3, <2>1
<1>7. CASE n = "ReferenceType" /\ s = o.refType
  <2>1. Naming("Reference", fact, n, s)
    BY <1>3, <1>4, <1>5, <1>7 DEF Naming
  <2> QED
    BY <1>3, <2>1
<1>8. CASE n = "SymbolType" /\ s = type /\ type # NoType
  <2>1. PICK sym : sym = <<name, type>>
    OBVIOUS
  <2>2. <<"Symbol", sym>> \in FactsOf(o)
    BY <1>1, <1>8, <2>1 DEF FactsOf
  <2>3. Schema["Symbol"][2] = "SymbolType" /\ sym[2] = type
    BY <2>1 DEF Schema
  <2>4. Naming("Symbol", sym, n, s)
    BY <1>5, <1>8, <2>3 DEF Naming
  <2> QED
    BY <2>2, <2>4
<1> QED
  BY <1>1, <1>6, <1>7, <1>8 DEF TextsOf

LEMMA StillCovered ==
    ASSUME NEW ix, Covered(ix), NEW jx,
           \A t \in Base : \A fact \in Relation(ix, t) : fact \in Relation(jx, t),
           \A n \in Names : \A s \in Texts(jx, n) : s \in Texts(ix, n) \/ Mentions(jx, n, s)
    PROVE  Covered(jx)
BY DEF Covered, Mentions

LEMMA Recorded ==
    ASSUME NEW o \in Occurrence, NEW c, IsContext(c, PathOf[o.file]),
           NEW d, Follows(c, FactsOf(o), TextsOf(o), d)
    PROVE  IsContext(d, PathOf[o.file])
<1> "Symbol" \in Names /\ "Symbol" \in Base
  BY DEF Names, Base
<1>1. PICK p : p = PathOf[o.file]
  OBVIOUS
<1>2. Live(c) /\ Identifies(c.pathID, c.index.strings["Symbol"], p)
  BY <1>1 DEF IsContext
<1>3. Live(d) /\ d.pathID = c.pathID
  BY DEF Follows
<1>4. Identifies(d.pathID, d.index.strings["Symbol"], p)
  BY <1>2, <1>3, IdentifiesOn
<1>5. \A t \in Base : \A fact \in Relation(c.index, t) : fact \in Relation(d.index, t)
  BY DEF Follows
<1>6. PathFact(p) \in Relation(d.index, "Symbol")
  BY <1>1, <1>5 DEF IsContext
<1>7. ASSUME NEW n \in Names, NEW s \in Texts(d.index, n)
      PROVE  s \in Texts(c.index, n) \/ Mentions(d.index, n, s)
  <2>1. s \in Texts(c.index, n) \/ <<n, s>> \in TextsOf(o)
    BY DEF Follows
  <2>2. CASE <<n, s>> \in TextsOf(o)
    <3>1. PICK t \in Base : \E fact : <<t, fact>> \in FactsOf(o) /\ Naming(t, fact, n, s)
      BY <2>2, NamesAreMentioned
    <3>2. PICK fact : <<t, fact>> \in FactsOf(o) /\ Naming(t, fact, n, s)
      BY <3>1
    <3>3. fact \in Relation(d.index, t)
      BY <3>2 DEF Follows
    <3> QED
      BY <3>2, <3>3 DEF Mentions
  <2> QED
    BY <2>1, <2>2
<1>8. Covered(d.index)
  <2>1. Covered(c.index)
    BY DEF IsContext
  <2>2. PICK ix, jx : ix = c.index /\ jx = d.index
    OBVIOUS
  <2>3. \A n \in Names : \A s \in Texts(jx, n) : s \in Texts(ix, n) \/ Mentions(jx, n, s)
    BY <1>7, <2>2
  <2>4. \A t \in Base : \A fact \in Relation(ix, t) : fact \in Relation(jx, t)
    BY <1>5, <2>2
  <2>5. Covered(jx)
    BY <2>1, <2>2, <2>3, <2>4, StillCovered
  <2> QED
    BY <2>2, <2>5
<1> QED
  BY <1>1, <1>3, <1>4, <1>6, <1>8 DEF IsContext

(* The context of a path, and what it says at first.                       *)
LEMMA FirstContext ==
    ASSUME NEW path \in Nat, NEW c, c = NewContext(path)
    PROVE  /\ IsContext(c, path)
           /\ \A t \in Base : \A fact : fact \in Relation(c.index, t) <=>
                                         t = "Symbol" /\ fact = PathFact(path)
<1> "Symbol" \in Names /\ "Symbol" \in Base
  BY DEF Names, Base
<1>1. PICK F, X : /\ F = {<<"Symbol", <<path, PathType>> >>}
                  /\ X = {<<"Symbol", path>>} \cup {<<"SymbolType", PathType>>}
  OBVIOUS
<1>2. Live(c) /\ Identifies(c.pathID, c.index.strings["Symbol"], path) /\ Tells(c, F, X)
  BY <1>1, NewContextFacts
<1>3. \A t \in Base : \A fact : fact \in Relation(c.index, t) <=>
                                  t = "Symbol" /\ fact = PathFact(path)
  BY <1>1, <1>2 DEF Tells, PathFact
<1>4. Covered(c.index)
  <2>1. PICK fact : fact = PathFact(path)
    OBVIOUS
  <2>2. fact \in Relation(c.index, "Symbol")
    BY <1>3, <2>1
  <2>3. fact[1] = path /\ fact[2] = PathType
    BY <2>1 DEF PathFact
  <2>4. Schema["Symbol"][1] = "Symbol" /\ Schema["Symbol"][2] = "SymbolType"
    BY DEF Schema
  <2>5. 1 \in 1..Width("Symbol") /\ 2 \in 1..Width("Symbol")
    BY Widths
  <2>6. Naming("Symbol", fact, "Symbol", path) /\ Naming("Symbol", fact, "SymbolType", PathType)
    BY <2>3, <2>4, <2>5 DEF Naming
  <2>7. ASSUME NEW n \in Names, NEW s \in Texts(c.index, n) PROVE Mentions(c.index, n, s)
    <3>1. <<n, s>> \in X
      BY <1>2 DEF Tells
    <3>2. (n = "Symbol" /\ s = path) \/ (n = "SymbolType" /\ s = PathType)
      BY <1>1, <3>1
    <3> QED
      BY <2>2, <2>6, <3>2 DEF Mentions
  <2> QED
    BY <2>7 DEF Covered
<1> QED
  BY <1>2, <1>3, <1>4 DEF IsContext

-----------------------------------------------------------------------------
(* Two indices with the same strings and rows are written alike.           *)
LEMMA SameWritten ==
    ASSUME NEW ix \in Indices, NEW jx \in Indices, jx.strings = ix.strings, jx.rows = ix.rows,
           NEW compressed
    PROVE  WriteIndex(jx, compressed) = WriteIndex(ix, compressed)
<1>1. StringBodies(jx, compressed) = StringBodies(ix, compressed)
  BY DEF StringBodies
<1>2. TableBodies(jx, compressed) = TableBodies(ix, compressed)
  BY DEF TableBodies
<1>3. PICK a, b : a = StringBodies(ix, compressed) /\ b = TableBodies(ix, compressed)
  OBVIOUS
<1>4. PICK D : D = DOMAIN ix.rows
  OBVIOUS
<1>5. WriteIndex(ix, compressed) =
              (((WriteSignature("IDX") \o WriteUInt32(Len(SetToSeq(Names))))
                \o Section(SetToSeq(Names), a))
               \o WriteUInt32(Len(SetToSeq(D))))
              \o Section(SetToSeq(D), b)
  BY <1>3, <1>4, IndexParts
<1>6. WriteIndex(jx, compressed) =
              (((WriteSignature("IDX") \o WriteUInt32(Len(SetToSeq(Names))))
                \o Section(SetToSeq(Names), a))
               \o WriteUInt32(Len(SetToSeq(D))))
              \o Section(SetToSeq(D), b)
  BY <1>1, <1>2, <1>3, <1>4, IndexParts
<1> QED
  BY <1>5, <1>6

LEMMA SameHash ==
    ASSUME NEW ix \in Indices, NEW jx \in Indices, jx.strings = ix.strings, jx.rows = ix.rows
    PROVE  HashOf(jx) = HashOf(ix)
<1>1. \A compressed : WriteIndex(jx, compressed) = WriteIndex(ix, compressed)
  BY SameWritten
<1>2. Compressed(jx) = Compressed(ix)
  BY <1>1, Zenon DEF Compressed
<1> QED
  BY <1>2 DEF HashOf

(* What is read back is the index that was written, read-only.             *)
LEMMA FrozenFacts ==
    ASSUME NEW D, NEW ix, WellFormed(ix, D), NEW jx, jx = Frozen(ix)
    PROVE  /\ WellFormed(jx, D) /\ jx.readonly = D /\ jx.finalized = {}
           /\ jx.strings = ix.strings /\ jx.rows = ix.rows
           /\ \A t \in D : Relation(jx, t) = Relation(ix, t)
           /\ \A n \in Names : Texts(jx, n) = Texts(ix, n)
<1>1. /\ ix \in Indices /\ D \in SUBSET Tables /\ DOMAIN ix.rows = D
      /\ AreStrings(ix.strings)
      /\ \A t \in D : AreRows(ix.strings, t, ix.rows[t])
  BY DEF WellFormed
<1>2. PICK ss, rows : ss = ix.strings /\ rows = ix.rows
  OBVIOUS
<1>3. PICK f \in SUBSET Names : f = {}
  <2>1. {} \in SUBSET Names
    OBVIOUS
  <2> QED
    BY <2>1
<1>4. jx = [strings |-> ss, finalized |-> f, rows |-> rows, readonly |-> D]
  BY <1>1, <1>2, <1>3 DEF Frozen
<1>5. jx.strings = ss /\ jx.finalized = f /\ jx.rows = rows /\ jx.readonly = D
  BY <1>4
<1>6. rows = [t \in D |-> rows[t]]
  BY <1>1, <1>2, Parts
<1>7. DOMAIN rows = D /\ AreStrings(ss) /\ \A t \in D : AreRows(ss, t, rows[t])
  BY <1>1, <1>2
<1>8. WellFormed(jx, D)
  BY <1>1, <1>3, <1>4, <1>6, <1>7, Assembled
<1>9. ASSUME NEW t \in D PROVE Relation(jx, t) = Relation(ix, t)
  <2>1. t \in Tables
    BY <1>1
  <2>2. Relation(jx, t) = Says(ss, t, rows[t])
    BY <1>5, <1>7, <2>1, Saying
  <2>3. Relation(ix, t) = Says(ss, t, rows[t])
    BY <1>1, <1>2, <2>1, Saying
  <2> QED
    BY <2>2, <2>3
<1>10. ASSUME NEW n \in Names PROVE Texts(jx, n) = Texts(ix, n)
  BY <1>2, <1>5 DEF Texts
<1> QED
  BY <1>2, <1>3, <1>5, <1>8, <1>9, <1>10

(* An entry of an archive that has not been merged.                        *)
IsStored(entry) ==
    /\ WellFormed(entry.index, Base) /\ entry.index.readonly = Base
    /\ Covered(entry.index)
    /\ \A n \in Names : Up(entry.index.strings[n])
    /\ \A t \in Base : RowsUp(entry.index.rows[t])
    /\ entry.hash = HashOf(entry.index)

LEMMA CoveredToo ==
    ASSUME NEW ix, Covered(ix), NEW jx,
           \A t \in Base : Relation(jx, t) = Relation(ix, t),
           \A n \in Names : Texts(jx, n) = Texts(ix, n)
    PROVE  Covered(jx)
BY DEF Covered, Mentions

LEMMA StoredFacts ==
    ASSUME NEW c, Live(c), Covered(c.index), NEW entry,
           entry = Stored(FinalizeTables(c.index))
    PROVE  IsStored(entry) /\ \A t \in Base : Relation(entry.index, t) = Relation(c.index, t)
<1>1. PICK ix : ix = c.index
  OBVIOUS
<1>2. WellFormed(ix, Base) /\ ix.readonly = {} /\ ix.finalized = {} /\ Freezable(ix)
  BY <1>1 DEF Live, Freezable
<1>3. PICK fx : fx = FinalizeTables(ix)
  OBVIOUS
<1>4. Finalizes(ix, Base, fx)
  BY <1>2, <1>3, FinalizeFacts
<1>5. WellFormed(fx, Base)
  BY <1>4 DEF Finalizes
<1>6. PICK jx : jx = Frozen(fx)
  OBVIOUS
<1>7. /\ WellFormed(jx, Base) /\ jx.readonly = Base
      /\ jx.strings = fx.strings /\ jx.rows = fx.rows
      /\ \A t \in Base : Relation(jx, t) = Relation(fx, t)
      /\ \A n \in Names : Texts(jx, n) = Texts(fx, n)
  BY <1>5, <1>6, FrozenFacts
<1>8. HashOf(jx) = HashOf(fx)
  <2>1. jx \in Indices /\ fx \in Indices
    BY <1>5, <1>7 DEF WellFormed
  <2> QED
    BY <1>7, <2>1, SameHash
<1>9. entry.index = jx /\ entry.hash = HashOf(jx)
  BY <1>1, <1>3, <1>6, <1>8 DEF Stored
<1>10. \A t \in Base : Relation(jx, t) = Relation(ix, t)
  BY <1>4, <1>7 DEF Finalizes
<1>11. \A n \in Names : Texts(jx, n) = Texts(ix, n)
  BY <1>4, <1>7 DEF Finalizes
<1>12. Covered(jx)
  <2>1. Covered(ix)
    BY <1>1
  <2> QED
    BY <1>10, <1>11, <2>1, CoveredToo
<1>13. \A n \in Names : Up(jx.strings[n])
  <2>1. \A n \in Names : n \notin ix.finalized
    BY <1>2
  <2>2. \A n \in Names : Up(fx.strings[n])
    BY <1>4, <2>1 DEF Finalizes
  <2> QED
    BY <1>7, <2>2
<1>14. \A t \in Base : RowsUp(jx.rows[t])
  <2>1. \A t \in Base : t \notin ix.readonly
    BY <1>2
  <2>2. \A t \in Base : RowsUp(fx.rows[t])
    BY <1>4, <2>1 DEF Finalizes
  <2> QED
    BY <1>7, <2>2
<1> QED
  BY <1>1, <1>7, <1>9, <1>10, <1>12, <1>13, <1>14 DEF IsStored

-----------------------------------------------------------------------------
(* The columns of a table in another order, as another table.              *)
Shuffled(order, row) == [c \in DOMAIN order |-> row[order[c]]]
ShuffledAll(order, rows) == [i \in DOMAIN rows |-> Shuffled(order, rows[i])]
Shuffles(order, F) == {Shuffled(order, fact) : fact \in F}

IsShuffle(order, from, to) ==
    /\ order \in [1..Width(to) -> 1..Width(from)]
    /\ \A c \in 1..Width(to) : Schema[to][c] = Schema[from][order[c]]
    /\ \A b \in 1..Width(from) : \E c \in 1..Width(to) : order[c] = b

LEMMA Shuffling ==
    ASSUME NEW from \in Tables, NEW to \in Tables, NEW order, IsShuffle(order, from, to),
           NEW ss, NEW row \in Row(Width(from)), InRange(ss, from, row),
           NEW new, new = Shuffled(order, row)
    PROVE  /\ new \in Row(Width(to)) /\ InRange(ss, to, new)
           /\ Decoded(ss, to, new) = Shuffled(order, Decoded(ss, from, row))
<1>1. PICK v, w : v = Width(from) /\ w = Width(to)
  OBVIOUS
<1>2. /\ order \in [1..w -> 1..v] /\ row \in [1..v -> Nat] /\ DOMAIN order = 1..w
      /\ \A c \in 1..w : Schema[to][c] = Schema[from][order[c]]
  BY <1>1 DEF IsShuffle, Row
<1>3. new = [c \in 1..w |-> row[order[c]]]
  BY <1>2 DEF Shuffled
<1>4. new \in [1..w -> Nat]
  BY <1>2, <1>3
<1>5. InRange(ss, to, new)
  <2> SUFFICES ASSUME NEW c \in 1..w, Schema[to][c] # ""
               PROVE  new[c] \in 1..Len(ss[Schema[to][c]])
    BY <1>1 DEF InRange
  <2>1. PICK b \in 1..v : b = order[c]
    BY <1>2
  <2>2. Schema[to][c] = Schema[from][b] /\ new[c] = row[b]
    BY <1>2, <1>3, <2>1
  <2> QED
    BY <1>1, <2>2 DEF InRange
<1>6. PICK fact : fact = Decoded(ss, from, row)
  OBVIOUS
<1>7. \A b \in 1..v : fact[b] = IF Schema[from][b] = "" THEN row[b]
                                ELSE ss[Schema[from][b]][row[b]]
  BY <1>1, <1>6 DEF Decoded
<1>8. ASSUME NEW c \in 1..w
      PROVE  (IF Schema[to][c] = "" THEN new[c] ELSE ss[Schema[to][c]][new[c]]) = fact[order[c]]
  <2>1. PICK b \in 1..v : b = order[c]
    BY <1>2
  <2>2. Schema[to][c] = Schema[from][b] /\ new[c] = row[b]
    BY <1>2, <1>3, <2>1
  <2> QED
    BY <1>7, <2>1, <2>2
<1>9. Decoded(ss, to, new) = [c \in 1..w |-> fact[order[c]]]
  BY <1>1, <1>8 DEF Decoded
<1>10. Shuffled(order, fact) = [c \in 1..w |-> fact[order[c]]]
  BY <1>2 DEF Shuffled
<1> QED
  BY <1>1, <1>4, <1>5, <1>6, <1>9, <1>10 DEF Row

LEMMA ShuffledApart ==
    ASSUME NEW from \in Tables, NEW to \in Tables, NEW order, IsShuffle(order, from, to),
           NEW x \in Row(Width(from)), NEW y \in Row(Width(from)),
           Shuffled(order, x) = Shuffled(order, y)
    PROVE  x = y
<1>1. PICK v, w : v = Width(from) /\ w = Width(to)
  OBVIOUS
<1>2. /\ order \in [1..w -> 1..v] /\ DOMAIN order = 1..w
      /\ \A b \in 1..v : \E c \in 1..w : order[c] = b
  BY <1>1 DEF IsShuffle
<1>3. x \in [1..v -> Nat] /\ y \in [1..v -> Nat]
  BY <1>1 DEF Row
<1>4. [c \in 1..w |-> x[order[c]]] = [c \in 1..w |-> y[order[c]]]
  BY <1>2 DEF Shuffled
<1>5. \A c \in 1..w : x[order[c]] = y[order[c]]
  BY <1>4
<1>6. \A b \in 1..v : x[b] = y[b]
  BY <1>2, <1>5
<1>7. x = [b \in 1..v |-> x[b]] /\ y = [b \in 1..v |-> y[b]]
  BY <1>3
<1> QED
  BY <1>6, <1>7

LEMMA ShufflingRows ==
    ASSUME NEW from \in Tables, NEW to \in Tables, NEW order, IsShuffle(order, from, to),
           NEW ss, NEW rows, AreRows(ss, from, rows),
           NEW new, new = ShuffledAll(order, rows)
    PROVE  AreRows(ss, to, new) /\ Says(ss, to, new) = Shuffles(order, Says(ss, from, rows))
<1>1. PICK R, S : R = Row(Width(from)) /\ S = Row(Width(to))
  OBVIOUS
<1>2. PICK n \in Nat : n = Len(rows)
  BY DEF AreRows
<1>3. /\ rows \in [1..n -> R] /\ \A i \in 1..n : InRange(ss, from, rows[i])
      /\ OneToOne(n, rows)
  BY <1>1, <1>2 DEF AreRows
<1>4. new = [i \in 1..n |-> Shuffled(order, rows[i])]
  BY <1>3 DEF ShuffledAll
<1>5. \A i \in 1..n : /\ new[i] \in S /\ InRange(ss, to, new[i])
                      /\ Decoded(ss, to, new[i]) = Shuffled(order, Decoded(ss, from, rows[i]))
  <2> TAKE i \in 1..n
  <2>1. PICK row : row = rows[i]
    OBVIOUS
  <2>2. row \in Row(Width(from)) /\ InRange(ss, from, row)
    BY <1>1, <1>3, <2>1
  <2>3. new[i] = Shuffled(order, row)
    BY <1>4, <2>1
  <2> QED
    BY <1>1, <2>1, <2>2, <2>3, Shuffling
<1>6. new \in [1..n -> S] /\ new \in Seq(S) /\ Len(new) = n
  <2>1. new \in [1..n -> S]
    BY <1>4, <1>5
  <2>2. new \in Seq(S)
    BY <2>1
  <2> QED
    BY <2>1, <2>2
<1>7. OneToOne(n, new)
  <2> SUFFICES ASSUME NEW i \in 1..n, NEW j \in 1..n, new[i] = new[j]
               PROVE  i = j
    BY DEF OneToOne
  <2>1. Shuffled(order, rows[i]) = Shuffled(order, rows[j])
    BY <1>4
  <2>2. PICK x \in R, y \in R : x = rows[i] /\ y = rows[j]
    BY <1>3
  <2>3. Shuffled(order, x) = Shuffled(order, y)
    BY <2>1, <2>2
  <2>4. x = y
    BY <1>1, <2>2, <2>3, ShuffledApart
  <2>5. rows[i] = rows[j]
    BY <2>2, <2>4
  <2> QED
    BY <1>3, <2>5 DEF OneToOne
<1>8. AreRows(ss, to, new)
  BY <1>1, <1>5, <1>6, <1>7 DEF AreRows
<1>9. \A x \in Says(ss, to, new) : x \in Shuffles(order, Says(ss, from, rows))
  <2> TAKE x \in Says(ss, to, new)
  <2>1. PICK i \in 1..n : x = Decoded(ss, to, new[i])
    BY <1>6 DEF Says
  <2>2. PICK fact : fact = Decoded(ss, from, rows[i])
    OBVIOUS
  <2>3. fact \in Says(ss, from, rows)
    BY <1>2, <2>2 DEF Says
  <2>4. x = Shuffled(order, fact)
    BY <1>5, <2>1, <2>2
  <2> QED
    BY <2>3, <2>4 DEF Shuffles
<1>10. \A x \in Shuffles(order, Says(ss, from, rows)) : x \in Says(ss, to, new)
  <2> TAKE x \in Shuffles(order, Says(ss, from, rows))
  <2>1. PICK fact \in Says(ss, from, rows) : x = Shuffled(order, fact)
    BY DEF Shuffles
  <2>2. PICK i \in 1..n : fact = Decoded(ss, from, rows[i])
    BY <1>2 DEF Says
  <2>3. x = Decoded(ss, to, new[i])
    BY <1>5, <2>1, <2>2
  <2> QED
    BY <1>6, <2>3 DEF Says
<1>11. Says(ss, to, new) = Shuffles(order, Says(ss, from, rows))
  <2>1. PICK A, B : A = Says(ss, to, new) /\ B = Shuffles(order, Says(ss, from, rows))
    OBVIOUS
  <2>2. A = B
    BY <1>9, <1>10, <2>1
  <2> QED
    BY <2>1, <2>2
<1> QED
  BY <1>8, <1>11

(* The rows of a table are added, shuffled, to another.                    *)
Inverts(ix, from, to, order, jx) ==
    /\ WellFormed(jx, Tables) /\ jx.strings = ix.strings
    /\ jx.finalized = ix.finalized /\ jx.readonly = ix.readonly
    /\ \A t \in Tables : t = to \/ jx.rows[t] = ix.rows[t]
    /\ Relation(jx, to) = Relation(ix, to) \cup Shuffles(order, Relation(ix, from))

LEMMA InvertedFacts ==
    ASSUME NEW ix, WellFormed(ix, Tables), NEW from \in Tables, NEW to \in Tables,
           NEW order, IsShuffle(order, from, to), NEW jx, jx = Inverted(ix, from, to, order)
    PROVE  Inverts(ix, from, to, order, jx)
<1>1. /\ ix \in Indices /\ DOMAIN ix.rows = Tables
      /\ AreStrings(ix.strings) /\ \A u \in Tables : AreRows(ix.strings, u, ix.rows[u])
  BY DEF WellFormed
<1>2. PICK ss, rows : ss = ix.strings /\ rows = ix.rows
  OBVIOUS
<1>3. /\ ix = [strings |-> ss, finalized |-> ix.finalized, rows |-> rows,
               readonly |-> ix.readonly]
      /\ ix.finalized \in SUBSET Names /\ ix.readonly \in SUBSET Tables
      /\ rows = [u \in Tables |-> rows[u]]
  BY <1>1, <1>2, Parts
<1>4. PICK a, b : a = rows[to] /\ b = ShuffledAll(order, rows[from])
  OBVIOUS
<1>5. PICK new : new = InsertAll(a, b)
  OBVIOUS
<1>6. AreRows(ss, to, a) /\ AreRows(ss, from, rows[from])
  BY <1>1, <1>2, <1>4
<1>7. AreRows(ss, to, b) /\ Says(ss, to, b) = Shuffles(order, Says(ss, from, rows[from]))
  <2>1. PICK old : old = rows[from]
    OBVIOUS
  <2>2. AreRows(ss, from, old) /\ b = ShuffledAll(order, old)
    BY <1>4, <1>6, <2>1
  <2>3. AreRows(ss, to, b) /\ Says(ss, to, b) = Shuffles(order, Says(ss, from, old))
    BY <2>2, ShufflingRows
  <2> QED
    BY <2>1, <2>3
<1>8. AreRows(ss, to, new) /\ Says(ss, to, new) = Says(ss, to, a) \cup Says(ss, to, b)
  BY <1>5, <1>6, <1>7, InsertingRows
<1>9. PICK r2 : r2 = [u \in Tables |-> IF u = to THEN new ELSE rows[u]]
  OBVIOUS
<1>10. jx = [strings |-> ss, finalized |-> ix.finalized, rows |-> r2, readonly |-> ix.readonly]
  <2>1. b = [i \in DOMAIN ix.rows[from] |->
                [c \in DOMAIN order |-> ix.rows[from][i][order[c]]]]
    BY <1>2, <1>4 DEF ShuffledAll, Shuffled
  <2>2. jx = [ix EXCEPT !.rows = [rows EXCEPT ![to] = new]]
    BY <1>2, <1>4, <1>5, <2>1 DEF Inverted
  <2>3. [rows EXCEPT ![to] = new] = r2
    BY <1>1, <1>2, <1>3, <1>9
  <2> QED
    BY <1>3, <2>2, <2>3
<1>11. DOMAIN r2 = Tables /\ r2[to] = new /\ r2 = [u \in Tables |-> r2[u]]
       /\ \A u \in Tables : u = to \/ r2[u] = rows[u]
  BY <1>9
<1>12. \A u \in Tables : AreRows(ss, u, r2[u])
  BY <1>1, <1>2, <1>8, <1>11
<1>13. WellFormed(jx, Tables)
  <2>1. Tables \in SUBSET Tables
    OBVIOUS
  <2> QED
    BY <1>1, <1>2, <1>3, <1>10, <1>11, <1>12, <2>1, Assembled
<1>14. jx.strings = ss /\ jx.rows = r2 /\ jx.finalized = ix.finalized
       /\ jx.readonly = ix.readonly
  BY <1>10
<1>15. Relation(jx, to) = Says(ss, to, new)
  <2>1. PICK tt, rr : tt = jx.strings /\ rr = jx.rows
    OBVIOUS
  <2>2. to \in DOMAIN rr /\ AreRows(tt, to, rr[to])
    BY <1>8, <1>11, <1>14, <2>1
  <2>3. Relation(jx, to) = Says(tt, to, rr[to])
    BY <2>1, <2>2, Saying
  <2> QED
    BY <1>11, <1>14, <2>1, <2>3
<1>16. Relation(ix, to) = Says(ss, to, a) /\ Relation(ix, from) = Says(ss, from, rows[from])
  BY <1>1, <1>2, <1>4, Saying
<1> QED
  BY <1>2, <1>7, <1>8, <1>11, <1>13, <1>14, <1>15, <1>16 DEF Inverts

-----------------------------------------------------------------------------
(* The two tables that populateIndexTables fills.                          *)
ByReference == <<5, 6, 1, 2, 3, 4>>
BySymbolType == <<2, 1>>

LEMMA ByReferenceShuffles == IsShuffle(ByReference, "Reference", "ReferenceIndex")
<1>1. PICK order : order = ByReference
  OBVIOUS
<1>2. /\ order \in [1..6 -> 1..6] /\ order[1] = 5 /\ order[2] = 6 /\ order[3] = 1
      /\ order[4] = 2 /\ order[5] = 3 /\ order[6] = 4
  BY <1>1 DEF ByReference
<1>3. Width("Reference") = 6 /\ Width("ReferenceIndex") = 6
  BY Widths
<1>4. \A c \in 1..6 : c = 1 \/ c = 2 \/ c = 3 \/ c = 4 \/ c = 5 \/ c = 6
  OBVIOUS
<1>5. PICK f, g : f = Schema["Reference"] /\ g = Schema["ReferenceIndex"]
  OBVIOUS
<1>6. /\ f[1] = "Symbol" /\ f[2] = "" /\ f[3] = "" /\ f[4] = "" /\ f[5] = "Symbol"
      /\ f[6] = "ReferenceType"
  BY <1>5 DEF Schema
<1>7. /\ g[1] = "Symbol" /\ g[2] = "ReferenceType" /\ g[3] = "Symbol" /\ g[4] = ""
      /\ g[5] = "" /\ g[6] = ""
  BY <1>5 DEF Schema
<1>8. \A c \in 1..6 : g[c] = f[order[c]]
  <2>1. g[1] = f[order[1]] /\ g[2] = f[order[2]] /\ g[3] = f[order[3]]
    BY <1>2, <1>6, <1>7
  <2>2. g[4] = f[order[4]] /\ g[5] = f[order[5]] /\ g[6] = f[order[6]]
    BY <1>2, <1>6, <1>7
  <2> QED
    BY <1>4, <2>1, <2>2
<1>9. \A b \in 1..6 : \E c \in 1..6 : order[c] = b
  <2>1. 1 \in 1..6 /\ 2 \in 1..6 /\ 3 \in 1..6 /\ 4 \in 1..6 /\ 5 \in 1..6 /\ 6 \in 1..6
    OBVIOUS
  <2> QED
    BY <1>2, <1>4, <2>1
<1> QED
  BY <1>1, <1>2, <1>3, <1>5, <1>8, <1>9 DEF IsShuffle

LEMMA BySymbolTypeShuffles == IsShuffle(BySymbolType, "Symbol", "SymbolTypeIndex")
<1>1. PICK order : order = BySymbolType
  OBVIOUS
<1>2. order \in [1..2 -> 1..2] /\ order[1] = 2 /\ order[2] = 1
  BY <1>1 DEF BySymbolType
<1>3. Width("Symbol") = 2 /\ Width("SymbolTypeIndex") = 2
  BY Widths
<1>4. \A c \in 1..2 : c = 1 \/ c = 2
  OBVIOUS
<1>5. PICK f, g : f = Schema["Symbol"] /\ g = Schema["SymbolTypeIndex"]
  OBVIOUS
<1>6. f[1] = "Symbol" /\ f[2] = "SymbolType" /\ g[1] = "SymbolType" /\ g[2] = "Symbol"
  BY <1>5 DEF Schema
<1>7. \A c \in 1..2 : g[c] = f[order[c]]
  BY <1>2, <1>4, <1>6
<1>8. \A b \in 1..2 : \E c \in 1..2 : order[c] = b
  <2>1. 1 \in 1..2 /\ 2 \in 1..2
    OBVIOUS
  <2> QED
    BY <1>2, <1>4, <2>1
<1> QED
  BY <1>1, <1>2, <1>3, <1>5, <1>7, <1>8 DEF IsShuffle

Wide(ix) == NewBuilder(ix, TRUE)

LEMMA WideFacts ==
    ASSUME NEW ix, WellFormed(ix, Base), NEW jx, jx = Wide(ix)
    PROVE  /\ Widens(ix, Base, Tables, jx) /\ WellFormed(jx, Tables)
           /\ \A t \in Base : Relation(jx, t) = Relation(ix, t)
           /\ \A t \in Tables \ Base : Relation(jx, t) = {}
<1>1. jx = AddTables(ix, {"Reference", "Symbol", "GlobalSymbol"} \cup
                         {"ReferenceIndex", "SymbolTypeIndex"})
  BY Zenon DEF Wide, NewBuilder
<1>2. {"Reference", "Symbol", "GlobalSymbol"} \cup {"ReferenceIndex", "SymbolTypeIndex"} = Tables
  BY DEF Tables
<1>3. jx = AddTables(ix, Tables)
  BY <1>1, <1>2
<1>4. PICK ts \in SUBSET Tables : ts = Tables
  OBVIOUS
<1>5. Widens(ix, Base, ts, jx)
  BY <1>3, <1>4, AddTablesFacts
<1>6. Base \cup Tables = Tables
  BY DEF Base, Tables
<1>7. /\ WellFormed(jx, Tables) /\ jx.strings = ix.strings
      /\ \A t \in Base : jx.rows[t] = ix.rows[t]
      /\ \A t \in Tables : t \in Base \/ jx.rows[t] = <<>>
  BY <1>4, <1>5, <1>6 DEF Widens
<1>8. PICK ss, old, new : ss = ix.strings /\ old = ix.rows /\ new = jx.rows
  OBVIOUS
<1>9. DOMAIN new = Tables /\ DOMAIN old = Base
  BY <1>7, <1>8 DEF WellFormed
<1>10. \A t \in Tables : AreRows(ss, t, new[t]) /\ Relation(jx, t) = Says(ss, t, new[t])
  BY <1>7, <1>8, <1>9, Saying DEF WellFormed
<1>11. \A t \in Base : t \in Tables /\ AreRows(ss, t, old[t])
  BY <1>6, <1>8 DEF WellFormed
<1>12. \A t \in Base : Relation(ix, t) = Says(ss, t, old[t])
  BY <1>8, <1>9, <1>11, Saying
<1>13. \A t \in Base : new[t] = old[t]
  BY <1>7, <1>8
<1>14. \A t \in Base : Relation(jx, t) = Relation(ix, t)
  BY <1>10, <1>11, <1>12, <1>13
<1>15. ASSUME NEW t \in Tables \ Base PROVE Relation(jx, t) = {}
  <2>1. PICK no : no = new[t]
    OBVIOUS
  <2>2. no = <<>>
    BY <1>7, <1>8, <2>1
  <2>3. Len(no) = 0
    BY <2>2
  <2>4. Says(ss, t, no) = {}
    BY <2>3 DEF Says
  <2> QED
    BY <1>10, <2>1, <2>4
<1> QED
  BY <1>4, <1>5, <1>7, <1>14, <1>15

Populates(ix, jx) ==
    /\ WellFormed(jx, Tables) /\ jx.strings = ix.strings
    /\ jx.finalized = ix.finalized /\ jx.readonly = ix.readonly
    /\ \A t \in Base : jx.rows[t] = ix.rows[t] /\ Relation(jx, t) = Relation(ix, t)
    /\ Relation(jx, "ReferenceIndex") = Shuffles(ByReference, Relation(ix, "Reference"))
    /\ Relation(jx, "SymbolTypeIndex") = Shuffles(BySymbolType, Relation(ix, "Symbol"))

(* Rows that are the same over the same strings say the same.              *)
LEMMA SameRelation ==
    ASSUME NEW ix, WellFormed(ix, Tables), NEW jx, WellFormed(jx, Tables),
           jx.strings = ix.strings, NEW t \in Tables, jx.rows[t] = ix.rows[t]
    PROVE  Relation(jx, t) = Relation(ix, t)
<1>1. Relation(jx, t) = Says(jx.strings, t, jx.rows[t])
  <2>1. t \in DOMAIN jx.rows /\ AreRows(jx.strings, t, jx.rows[t])
    BY DEF WellFormed
  <2> QED
    BY <2>1, Saying
<1>2. Relation(ix, t) = Says(ix.strings, t, ix.rows[t])
  <2>1. t \in DOMAIN ix.rows /\ AreRows(ix.strings, t, ix.rows[t])
    BY DEF WellFormed
  <2> QED
    BY <2>1, Saying
<1> QED
  BY <1>1, <1>2

LEMMA PopulateFacts ==
    ASSUME NEW ix, WellFormed(ix, Base), NEW jx,
           jx = Inverted(Inverted(Wide(ix), "Reference", "ReferenceIndex", ByReference),
                         "Symbol", "SymbolTypeIndex", BySymbolType)
    PROVE  Populates(ix, jx)
<1> /\ "Reference" \in Tables /\ "ReferenceIndex" \in Tables
    /\ "Symbol" \in Tables /\ "SymbolTypeIndex" \in Tables
  BY DEF Tables
<1> /\ "Reference" \in Base /\ "Symbol" \in Base
    /\ "ReferenceIndex" \notin Base /\ "SymbolTypeIndex" \notin Base
  BY DEF Base
<1>1. Base \in SUBSET Tables
  BY DEF Base, Tables
<1>2. PICK wide : wide = Wide(ix)
  OBVIOUS
<1>3. PICK refs : refs = Inverted(wide, "Reference", "ReferenceIndex", ByReference)
  OBVIOUS
<1>4. jx = Inverted(refs, "Symbol", "SymbolTypeIndex", BySymbolType)
  BY <1>2, <1>3
<1>5. /\ Widens(ix, Base, Tables, wide) /\ WellFormed(wide, Tables)
      /\ \A t \in Base : Relation(wide, t) = Relation(ix, t)
      /\ \A t \in Tables \ Base : Relation(wide, t) = {}
  BY <1>2, WideFacts
<1>6. Inverts(wide, "Reference", "ReferenceIndex", ByReference, refs)
  BY <1>3, <1>5, ByReferenceShuffles, InvertedFacts
<1>7. WellFormed(refs, Tables) /\ refs.strings = wide.strings
      /\ \A t \in Tables : t = "ReferenceIndex" \/ refs.rows[t] = wide.rows[t]
  BY <1>6 DEF Inverts
<1>8. Inverts(refs, "Symbol", "SymbolTypeIndex", BySymbolType, jx)
  BY <1>4, <1>7, BySymbolTypeShuffles, InvertedFacts
<1>9. WellFormed(jx, Tables) /\ jx.strings = refs.strings
      /\ \A t \in Tables : t = "SymbolTypeIndex" \/ jx.rows[t] = refs.rows[t]
  BY <1>8 DEF Inverts
<1>10. \A t \in Tables : t = "ReferenceIndex" \/ Relation(refs, t) = Relation(wide, t)
  BY <1>5, <1>7, SameRelation
<1>11. \A t \in Tables : t = "SymbolTypeIndex" \/ Relation(jx, t) = Relation(refs, t)
  BY <1>7, <1>9, SameRelation
<1>12. "ReferenceIndex" # "SymbolTypeIndex" /\ "ReferenceIndex" # "Symbol"
       /\ "ReferenceIndex" # "Reference" /\ "SymbolTypeIndex" # "Symbol"
  OBVIOUS
<1>13. \A t \in Base : t \in Tables /\ t # "ReferenceIndex" /\ t # "SymbolTypeIndex"
  BY <1>1
<1>14. \A t \in Base : Relation(jx, t) = Relation(ix, t)
  BY <1>5, <1>10, <1>11, <1>13
<1>15. \A t \in Base : jx.rows[t] = ix.rows[t]
  <2>1. \A t \in Base : wide.rows[t] = ix.rows[t]
    BY <1>5 DEF Widens
  <2> QED
    BY <1>7, <1>9, <1>13, <2>1
<1>16. Relation(jx, "ReferenceIndex") = Shuffles(ByReference, Relation(ix, "Reference"))
  <2>1. Relation(refs, "ReferenceIndex")
        = Relation(wide, "ReferenceIndex") \cup Shuffles(ByReference, Relation(wide, "Reference"))
    BY <1>6 DEF Inverts
  <2>2. Relation(wide, "ReferenceIndex") = {}
    BY <1>5
  <2>3. Relation(wide, "Reference") = Relation(ix, "Reference")
    BY <1>5
  <2>4. Relation(jx, "ReferenceIndex") = Relation(refs, "ReferenceIndex")
    BY <1>11, <1>12
  <2> QED
    BY <2>1, <2>2, <2>3, <2>4
<1>17. Relation(jx, "SymbolTypeIndex") = Shuffles(BySymbolType, Relation(ix, "Symbol"))
  <2>1. Relation(jx, "SymbolTypeIndex")
        = Relation(refs, "SymbolTypeIndex") \cup Shuffles(BySymbolType, Relation(refs, "Symbol"))
    BY <1>8 DEF Inverts
  <2>2. Relation(refs, "SymbolTypeIndex") = {}
    BY <1>5, <1>10, <1>12
  <2>3. Relation(refs, "Symbol") = Relation(ix, "Symbol")
    BY <1>5, <1>10, <1>12
  <2> QED
    BY <2>1, <2>2, <2>3
<1>18. jx.strings = ix.strings /\ jx.finalized = ix.finalized /\ jx.readonly = ix.readonly
  BY <1>5, <1>6, <1>8 DEF Widens, Inverts
<1> QED
  BY <1>9, <1>14, <1>15, <1>16, <1>17, <1>18 DEF Populates

-----------------------------------------------------------------------------
(* The inductive invariant.  All that an occurrence will have recorded.    *)
AllFacts(o) == FactsOf(o) \cup {<<"Symbol", PathFact(PathOf[o.file])>>}

AreContexts(map) ==
    /\ DOMAIN map \in SUBSET Nat /\ IsFiniteSet(DOMAIN map)
    /\ map = [p \in DOMAIN map |-> map[p]]
    /\ \A p \in DOMAIN map : IsContext(map[p], p)

AreStored(entries) == \A entry \in entries : IsStored(entry)

(* A fact is somewhere: in a context, an entry or the merged index.        *)
InContexts(map, t, fact) == \E p \in DOMAIN map : fact \in Relation(map[p].index, t)
InEntries(entries, t, fact) == \E entry \in entries : fact \in Relation(entry.index, t)

Seen(S, t, fact) == \E o \in S : <<t, fact>> \in AllFacts(o)

(* The facts of what was seen are somewhere, and no others.                *)
AreSaid(map, entries, ix, S) ==
    \A t \in Base : \A fact :
        Seen(S, t, fact) <=> \/ InContexts(map, t, fact)
                             \/ InEntries(entries, t, fact)
                             \/ fact \in Relation(ix, t)

ContextOf(map, path) == IF path \in DOMAIN map THEN map[path] ELSE NewContext(path)

LEMMA ContextFacts ==
    ASSUME NEW map, AreContexts(map), NEW path \in Nat, NEW c, c = ContextOf(map, path)
    PROVE  /\ IsContext(c, path)
           /\ path \in DOMAIN map => c = map[path]
           /\ path \notin DOMAIN map => \A t \in Base : \A fact :
                 fact \in Relation(c.index, t) => t = "Symbol" /\ fact = PathFact(path)
<1>1. CASE path \in DOMAIN map
  BY <1>1 DEF ContextOf, AreContexts
<1>2. CASE path \notin DOMAIN map
  <2>1. c = NewContext(path)
    BY <1>2 DEF ContextOf
  <2> QED
    BY <1>2, <2>1, FirstContext
<1> QED
  BY <1>1, <1>2

LEMMA FiniteMore ==
    ASSUME NEW S, IsFiniteSet(S), NEW x
    PROVE  IsFiniteSet(S \cup {x})
BY FS_AddElement

Extended(map, path, d, new) ==
    /\ AreContexts(new) /\ DOMAIN new = DOMAIN map \cup {path} /\ new[path] = d
    /\ \A p \in DOMAIN map : p = path \/ new[p] = map[p]

LEMMA OccurContexts ==
    ASSUME NEW map, AreContexts(map), NEW path \in Nat, NEW d, IsContext(d, path),
           NEW new, new = With(map, path, d)
    PROVE  Extended(map, path, d, new)
<1>1. PICK D : D = DOMAIN map
  OBVIOUS
<1>2. D \in SUBSET Nat /\ IsFiniteSet(D) /\ \A p \in D : IsContext(map[p], p)
  BY <1>1 DEF AreContexts
<1>3. PICK E : E = D \cup {path}
  OBVIOUS
<1>4. E \in SUBSET Nat /\ IsFiniteSet(E)
  BY <1>2, <1>3, FiniteMore
<1>5. new = [p \in E |-> IF p = path THEN d ELSE map[p]]
  BY <1>1, <1>3 DEF With
<1>6. /\ DOMAIN new = E /\ new[path] = d /\ new = [p \in E |-> new[p]]
      /\ \A p \in D : p = path \/ new[p] = map[p]
  BY <1>3, <1>5
<1>7. \A p \in E : IsContext(new[p], p)
  BY <1>2, <1>3, <1>6
<1> QED
  BY <1>1, <1>3, <1>4, <1>6, <1>7 DEF AreContexts, Extended

LEMMA SeenOneMore ==
    ASSUME NEW S, NEW o, NEW t, NEW fact
    PROVE  Seen(S \cup {o}, t, fact) <=> Seen(S, t, fact) \/ <<t, fact>> \in AllFacts(o)
BY DEF Seen

LEMMA OccurSaid ==
    ASSUME NEW map, AreContexts(map), NEW entries, NEW ix, NEW S, AreSaid(map, entries, ix, S),
           NEW o \in Occurrence, NEW c, c = ContextOf(map, PathOf[o.file]),
           NEW d, Follows(c, FactsOf(o), TextsOf(o), d),
           NEW new, new = With(map, PathOf[o.file], d)
    PROVE  AreContexts(new) /\ AreSaid(new, entries, ix, S \cup {o})
<1>1. PICK path \in Nat : path = PathOf[o.file]
  BY OccurrenceFacts
<1>2. /\ IsContext(c, path)
      /\ path \in DOMAIN map => c = map[path]
      /\ path \notin DOMAIN map => \A t \in Base : \A fact :
            fact \in Relation(c.index, t) => t = "Symbol" /\ fact = PathFact(path)
  BY <1>1, ContextFacts
<1>3. IsContext(d, path)
  BY <1>1, <1>2, Recorded
<1>4. /\ AreContexts(new) /\ DOMAIN new = DOMAIN map \cup {path} /\ new[path] = d
      /\ \A p \in DOMAIN map : p = path \/ new[p] = map[p]
  <2>1. AreContexts(map) /\ new = With(map, path, d)
    BY <1>1
  <2>2. Extended(map, path, d, new)
    BY <1>3, <2>1, OccurContexts
  <2> QED
    BY <2>2 DEF Extended
<1>5. \A t \in Base : \A fact :
         fact \in Relation(d.index, t) <=>
             fact \in Relation(c.index, t) \/ <<t, fact>> \in FactsOf(o)
  BY DEF Follows
<1>6. ASSUME NEW t \in Base, NEW fact
      PROVE  InContexts(new, t, fact) <=>
                 InContexts(map, t, fact) \/ <<t, fact>> \in AllFacts(o)
  <2>1. ASSUME InContexts(map, t, fact) PROVE InContexts(new, t, fact)
    <3>1. PICK p \in DOMAIN map : fact \in Relation(map[p].index, t)
      BY <2>1 DEF InContexts
    <3>2. CASE p = path
      <4>1. fact \in Relation(c.index, t)
        BY <1>2, <3>1, <3>2
      <4>2. fact \in Relation(d.index, t)
        BY <1>5, <4>1
      <4> QED
        BY <1>4, <4>2 DEF InContexts
    <3>3. CASE p # path
      <4>1. new[p] = map[p] /\ p \in DOMAIN new
        BY <1>4, <3>3
      <4> QED
        BY <3>1, <4>1 DEF InContexts
    <3> QED
      BY <3>2, <3>3
  <2>2. ASSUME <<t, fact>> \in AllFacts(o) PROVE InContexts(new, t, fact)
    <3>1. <<t, fact>> \in FactsOf(o) \/ (t = "Symbol" /\ fact = PathFact(path))
      BY <1>1, <2>2 DEF AllFacts
    <3>2. PathFact(path) \in Relation(c.index, "Symbol")
      BY <1>2 DEF IsContext
    <3>3. fact \in Relation(d.index, t)
      BY <1>5, <3>1, <3>2
    <3> QED
      BY <1>4, <3>3 DEF InContexts
  <2>3. ASSUME InContexts(new, t, fact)
        PROVE  InContexts(map, t, fact) \/ <<t, fact>> \in AllFacts(o)
    <3>1. PICK p \in DOMAIN new : fact \in Relation(new[p].index, t)
      BY <2>3 DEF InContexts
    <3>2. CASE p # path
      <4>1. p \in DOMAIN map /\ new[p] = map[p]
        BY <1>4, <3>2
      <4> QED
        BY <3>1, <4>1 DEF InContexts
    <3>3. CASE p = path
      <4>1. fact \in Relation(c.index, t) \/ <<t, fact>> \in FactsOf(o)
        BY <1>4, <1>5, <3>1, <3>3
      <4>2. CASE <<t, fact>> \in FactsOf(o)
        BY <4>2 DEF AllFacts
      <4>3. CASE fact \in Relation(c.index, t) /\ path \in DOMAIN map
        BY <1>2, <4>3 DEF InContexts
      <4>4. CASE fact \in Relation(c.index, t) /\ path \notin DOMAIN map
        <5>1. t = "Symbol" /\ fact = PathFact(path)
          BY <1>2, <4>4
        <5> QED
          BY <1>1, <5>1 DEF AllFacts
      <4> QED
        BY <4>1, <4>2, <4>3, <4>4
    <3> QED
      BY <3>2, <3>3
  <2> QED
    BY <2>1, <2>2, <2>3
<1>7. AreSaid(new, entries, ix, S \cup {o})
  <2> SUFFICES ASSUME NEW t \in Base, NEW fact
               PROVE  Seen(S \cup {o}, t, fact) <=> \/ InContexts(new, t, fact)
                                                    \/ InEntries(entries, t, fact)
                                                    \/ fact \in Relation(ix, t)
    BY DEF AreSaid
  <2>1. Seen(S, t, fact) <=> \/ InContexts(map, t, fact)
                             \/ InEntries(entries, t, fact)
                             \/ fact \in Relation(ix, t)
    BY DEF AreSaid
  <2>2. Seen(S \cup {o}, t, fact) <=> Seen(S, t, fact) \/ <<t, fact>> \in AllFacts(o)
    BY SeenOneMore
  <2> QED
    BY <1>6, <2>1, <2>2
<1> QED
  BY <1>4, <1>7

FinalIndices(map) == [p \in DOMAIN map |-> FinalizeTables(map[p].index)]

(* The end of a unit: what its contexts said, its archive says.            *)
LEMMA FinishFacts ==
    ASSUME NEW map, AreContexts(map), NEW entries, AreStored(entries), NEW ix, NEW S,
           AreSaid(map, entries, ix, S),
           NEW new, new = entries \cup ArchiveOf(FinalIndices(map))
    PROVE  AreStored(new) /\ AreSaid(<<>>, new, ix, S)
<1>1. PICK D : D = DOMAIN map
  OBVIOUS
<1>2. D \in SUBSET Nat /\ IsFiniteSet(D) /\ \A p \in D : IsContext(map[p], p)
  BY <1>1 DEF AreContexts
<1>3. PICK indices : indices = FinalIndices(map)
  OBVIOUS
<1>4. indices = [p \in D |-> FinalizeTables(map[p].index)]
  BY <1>1, <1>3 DEF FinalIndices
<1>5. \A p \in D : indices[p] = FinalizeTables(map[p].index) /\ indices[p] \in Indices
  <2> TAKE p \in D
  <2>1. PICK old : old = map[p].index
    OBVIOUS
  <2>2. WellFormed(old, Base) /\ Freezable(old)
    BY <1>2, <2>1 DEF IsContext, Live, Freezable
  <2>3. PICK fx : fx = FinalizeTables(old)
    OBVIOUS
  <2>4. Finalizes(old, Base, fx)
    BY <2>2, <2>3, FinalizeFacts
  <2>5. fx \in Indices
    BY <2>4 DEF Finalizes, WellFormed
  <2> QED
    BY <1>4, <2>1, <2>3, <2>5
<1>6. indices \in [D -> Indices]
  BY <1>4, <1>5
<1>7. ArchiveOf(indices) = {Stored(indices[p]) : p \in D}
  BY <1>2, <1>6, ArchiveContents
<1>8. \A p \in D : \A entry : entry = Stored(indices[p]) =>
         IsStored(entry) /\ \A t \in Base : Relation(entry.index, t) = Relation(map[p].index, t)
  <2> TAKE p \in D
  <2> TAKE entry
  <2> HAVE entry = Stored(indices[p])
  <2>1. PICK c : c = map[p]
    OBVIOUS
  <2>2. Live(c) /\ Covered(c.index)
    BY <1>2, <2>1 DEF IsContext
  <2>3. entry = Stored(FinalizeTables(c.index))
    BY <1>5, <2>1
  <2> QED
    BY <2>1, <2>2, <2>3, StoredFacts
<1>9. \A entry : entry \in new <=> entry \in entries \/ \E p \in D : entry = Stored(indices[p])
  BY <1>3, <1>7
<1>10. AreStored(new)
  BY <1>8, <1>9 DEF AreStored
<1>11. ASSUME NEW t \in Base, NEW fact
       PROVE  InEntries(new, t, fact) <=> InEntries(entries, t, fact) \/ InContexts(map, t, fact)
  <2>1. ASSUME InEntries(new, t, fact)
        PROVE  InEntries(entries, t, fact) \/ InContexts(map, t, fact)
    <3>1. PICK entry \in new : fact \in Relation(entry.index, t)
      BY <2>1 DEF InEntries
    <3>2. CASE entry \in entries
      BY <3>1, <3>2 DEF InEntries
    <3>3. ASSUME NEW p \in D, entry = Stored(indices[p]) PROVE InContexts(map, t, fact)
      <4>1. fact \in Relation(map[p].index, t)
        BY <1>8, <3>1, <3>3
      <4> QED
        BY <1>1, <4>1 DEF InContexts
    <3> QED
      BY <1>9, <3>2, <3>3
  <2>2. ASSUME InEntries(entries, t, fact) PROVE InEntries(new, t, fact)
    BY <1>9, <2>2 DEF InEntries
  <2>3. ASSUME InContexts(map, t, fact) PROVE InEntries(new, t, fact)
    <3>1. PICK p \in D : fact \in Relation(map[p].index, t)
      BY <1>1, <2>3 DEF InContexts
    <3>2. PICK entry : entry = Stored(indices[p])
      OBVIOUS
    <3>3. entry \in new /\ fact \in Relation(entry.index, t)
      BY <1>8, <1>9, <3>1, <3>2
    <3> QED
      BY <3>3 DEF InEntries
  <2> QED
    BY <2>1, <2>2, <2>3
<1>12. \A t, fact : ~InContexts(<<>>, t, fact)
  BY DEF InContexts
<1>13. AreSaid(<<>>, new, ix, S)
  <2> SUFFICES ASSUME NEW t \in Base, NEW fact
               PROVE  Seen(S, t, fact) <=> \/ InContexts(<<>>, t, fact)
                                           \/ InEntries(new, t, fact)
                                           \/ fact \in Relation(ix, t)
    BY DEF AreSaid
  <2>1. Seen(S, t, fact) <=> \/ InContexts(map, t, fact)
                             \/ InEntries(entries, t, fact)
                             \/ fact \in Relation(ix, t)
    BY DEF AreSaid
  <2> QED
    BY <1>11, <1>12, <2>1
<1> QED
  BY <1>10, <1>13

(* An entry is merged.                                                     *)
LEMMA MergeStep ==
    ASSUME NEW map, NEW entries, AreStored(entries), NEW ix, NEW S,
           WellFormed(ix, Base), Covered(ix), AreSaid(map, entries, ix, S),
           NEW entry \in entries, NEW jx, jx = Merge(ix, entry.index)
    PROVE  /\ Merges(ix, Base, entry.index, jx) /\ Covered(jx)
           /\ AreStored(entries \ {entry}) /\ AreSaid(map, entries \ {entry}, jx, S)
<1>1. PICK other : other = entry.index
  OBVIOUS
<1>2. WellFormed(other, Base) /\ Covered(other)
  BY <1>1 DEF AreStored, IsStored
<1>3. Merges(ix, Base, other, jx)
  BY <1>1, <1>2, MergeFacts
<1>4. \A t \in Base : Relation(jx, t) = Relation(ix, t) \cup Relation(other, t)
  BY <1>3 DEF Merges
<1>5. \A n \in Names : Texts(jx, n) = Texts(ix, n) \cup Texts(other, n)
  BY <1>3 DEF Merges
<1>6. Covered(jx)
  <2> SUFFICES ASSUME NEW n \in Names, NEW s \in Texts(jx, n) PROVE Mentions(jx, n, s)
    BY DEF Covered
  <2>1. Mentions(ix, n, s) \/ Mentions(other, n, s)
    BY <1>2, <1>5 DEF Covered
  <2> QED
    BY <1>4, <2>1 DEF Mentions
<1>7. AreStored(entries \ {entry})
  BY DEF AreStored
<1>8. AreSaid(map, entries \ {entry}, jx, S)
  <2> SUFFICES ASSUME NEW t \in Base, NEW fact
               PROVE  Seen(S, t, fact) <=> \/ InContexts(map, t, fact)
                                           \/ InEntries(entries \ {entry}, t, fact)
                                           \/ fact \in Relation(jx, t)
    BY DEF AreSaid
  <2>1. Seen(S, t, fact) <=> \/ InContexts(map, t, fact)
                             \/ InEntries(entries, t, fact)
                             \/ fact \in Relation(ix, t)
    BY DEF AreSaid
  <2>2. InEntries(entries, t, fact) <=> InEntries(entries \ {entry}, t, fact)
                                        \/ fact \in Relation(other, t)
    BY <1>1 DEF InEntries
  <2>3. fact \in Relation(jx, t) <=> fact \in Relation(ix, t) \/ fact \in Relation(other, t)
    BY <1>4
  <2> QED
    BY <2>1, <2>2, <2>3
<1> QED
  BY <1>1, <1>3, <1>6, <1>7, <1>8

-----------------------------------------------------------------------------
(* The merged index in each phase.                                         *)
AreInverted(ix) ==
    /\ Relation(ix, "ReferenceIndex") = Shuffles(ByReference, Relation(ix, "Reference"))
    /\ Relation(ix, "SymbolTypeIndex") = Shuffles(BySymbolType, Relation(ix, "Symbol"))

IsOpen(ix) == WellFormed(ix, Base) /\ ix.readonly = {} /\ ix.finalized = {}

IsFinal(ix, D) ==
    /\ WellFormed(ix, D) /\ ix.finalized = Names
    /\ \A n \in Names : Up(ix.strings[n])
    /\ \A t \in ix.readonly : RowsUp(ix.rows[t])

IsMerged(ix, ph) ==
    /\ Covered(ix)
    /\ ph = "index" => IsOpen(ix)
    /\ ph = "finalized" => IsFinal(ix, Base) /\ ix.readonly = Base
    /\ ph = "populated" => IsFinal(ix, Tables) /\ ix.readonly = Base /\ AreInverted(ix)
    /\ ph \in {"written", "opened"} =>
          IsFinal(ix, Tables) /\ ix.readonly = Tables /\ AreInverted(ix)

(* What one step may do to the merged index.                               *)
Keeps(ix, jx) ==
    /\ ix.readonly \subseteq jx.readonly
    /\ \A t \in ix.readonly : jx.rows[t] = ix.rows[t]
    /\ \A n \in ix.finalized : jx.strings[n] = ix.strings[n]

SaysTheSame(ix, jx) == \A t \in Base : Relation(jx, t) = Relation(ix, t)

LEMMA SameSaid ==
    ASSUME NEW map, NEW entries, NEW ix, NEW S, AreSaid(map, entries, ix, S),
           NEW jx, SaysTheSame(ix, jx)
    PROVE  AreSaid(map, entries, jx, S)
BY DEF AreSaid, SaysTheSame

LEMMA EmptyMerged ==
    ASSUME NEW ix, IsEmpty(ix)
    PROVE  IsMerged(ix, "index") /\ AreSaid(<<>>, {}, ix, {})
<1>1. Covered(ix)
  BY DEF IsEmpty, Covered
<1>2. IsMerged(ix, "index")
  BY <1>1 DEF IsMerged, IsEmpty, IsOpen
<1>3. \A t \in Base : \A fact : fact \notin Relation(ix, t)
  BY DEF IsEmpty
<1>4. \A t, fact : ~InContexts(<<>>, t, fact)
  BY DEF InContexts
<1>5. AreSaid(<<>>, {}, ix, {})
  BY <1>3, <1>4 DEF AreSaid, InEntries, Seen
<1> QED
  BY <1>2, <1>5

LEMMA MergeMerged ==
    ASSUME NEW ix, IsMerged(ix, "index"), NEW other, NEW jx, Merges(ix, Base, other, jx),
           Covered(jx)
    PROVE  IsMerged(jx, "index") /\ Keeps(ix, jx)
<1>1. IsOpen(ix)
  BY DEF IsMerged
<1>2. IsOpen(jx) /\ Keeps(ix, jx)
  BY <1>1 DEF Merges, IsOpen, Keeps
<1> QED
  BY <1>2 DEF IsMerged

LEMMA FinalizeMergedFacts ==
    ASSUME NEW ix, IsMerged(ix, "index"), NEW jx, jx = FinalizeTables(ix)
    PROVE  IsMerged(jx, "finalized") /\ Keeps(ix, jx) /\ SaysTheSame(ix, jx)
<1>1. IsOpen(ix) /\ Covered(ix)
  BY DEF IsMerged
<1>2. Finalizes(ix, Base, jx)
  BY <1>1, FinalizeFacts DEF IsOpen, Freezable
<1>3. WellFormed(jx, Base) /\ jx.finalized = Names /\ jx.readonly = Base
  BY <1>2 DEF Finalizes
<1>4. SaysTheSame(ix, jx)
  BY <1>2 DEF Finalizes, SaysTheSame
<1>5. Covered(jx)
  BY <1>1, <1>2, CoveredToo DEF Finalizes
<1>6. \A n \in Names : Up(jx.strings[n])
  <2>1. \A n \in Names : n \notin ix.finalized
    BY <1>1 DEF IsOpen
  <2> QED
    BY <1>2, <2>1 DEF Finalizes
<1>7. \A t \in Base : RowsUp(jx.rows[t])
  <2>1. \A t \in Base : t \notin ix.readonly
    BY <1>1 DEF IsOpen
  <2> QED
    BY <1>2, <2>1 DEF Finalizes
<1>8. IsFinal(jx, Base)
  BY <1>3, <1>6, <1>7 DEF IsFinal
<1>9. Keeps(ix, jx)
  BY <1>1 DEF IsOpen, Keeps
<1> QED
  BY <1>3, <1>4, <1>5, <1>8, <1>9 DEF IsMerged

LEMMA PopulateMerged ==
    ASSUME NEW ix, IsMerged(ix, "finalized"), NEW jx,
           jx = Inverted(Inverted(Wide(ix), "Reference", "ReferenceIndex", ByReference),
                         "Symbol", "SymbolTypeIndex", BySymbolType)
    PROVE  IsMerged(jx, "populated") /\ Keeps(ix, jx) /\ SaysTheSame(ix, jx)
<1>1. Covered(ix) /\ IsFinal(ix, Base) /\ ix.readonly = Base
  BY DEF IsMerged
<1>2. WellFormed(ix, Base)
  BY <1>1 DEF IsFinal
<1>3. Populates(ix, jx)
  BY <1>2, PopulateFacts
<1>4. /\ WellFormed(jx, Tables) /\ jx.strings = ix.strings
      /\ jx.finalized = ix.finalized /\ jx.readonly = ix.readonly
  BY <1>3 DEF Populates
<1>5. \A t \in Base : jx.rows[t] = ix.rows[t] /\ Relation(jx, t) = Relation(ix, t)
  BY <1>3 DEF Populates
<1>6. IsFinal(jx, Tables)
  BY <1>1, <1>4, <1>5 DEF IsFinal
<1>7. AreInverted(jx)
  <2>1. "Reference" \in Base /\ "Symbol" \in Base
    BY DEF Base
  <2> QED
    BY <1>3, <1>5, <2>1 DEF Populates, AreInverted
<1>8. Covered(jx)
  <2>1. \A n \in Names : Texts(jx, n) = Texts(ix, n)
    BY <1>4 DEF Texts
  <2> QED
    BY <1>1, <1>5, <2>1, CoveredToo
<1>9. Keeps(ix, jx)
  BY <1>1, <1>4, <1>5 DEF Keeps
<1> QED
  BY <1>1, <1>4, <1>5, <1>6, <1>7, <1>8, <1>9 DEF IsMerged, SaysTheSame

LEMMA WriteMerged ==
    ASSUME NEW ix, IsMerged(ix, "populated"), NEW jx, jx = FinalizeTables(ix)
    PROVE  IsMerged(jx, "written") /\ Keeps(ix, jx) /\ SaysTheSame(ix, jx)
<1>1. Covered(ix) /\ IsFinal(ix, Tables) /\ ix.readonly = Base /\ AreInverted(ix)
  BY DEF IsMerged
<1>2. WellFormed(ix, Tables) /\ Freezable(ix) /\ ix.finalized = Names
  BY <1>1 DEF IsFinal, Freezable
<1>3. Finalizes(ix, Tables, jx)
  BY <1>2, FinalizeFacts
<1>4. WellFormed(jx, Tables) /\ jx.finalized = Names /\ jx.readonly = Tables
  BY <1>3 DEF Finalizes
<1>5. \A t \in Tables : Relation(jx, t) = Relation(ix, t)
  BY <1>3 DEF Finalizes
<1>6. \A n \in Names : jx.strings[n] = ix.strings[n]
  BY <1>2, <1>3 DEF Finalizes
<1>7. \A t \in Tables : IF t \in Base THEN jx.rows[t] = ix.rows[t] ELSE RowsUp(jx.rows[t])
  BY <1>1, <1>3 DEF Finalizes
<1>8. Base \in SUBSET Tables
  BY DEF Base, Tables
<1>9. IsFinal(jx, Tables)
  <2>1. \A n \in Names : Up(jx.strings[n])
    BY <1>1, <1>6 DEF IsFinal
  <2>2. \A t \in Tables : RowsUp(jx.rows[t])
    BY <1>1, <1>7 DEF IsFinal
  <2> QED
    BY <1>4, <2>1, <2>2 DEF IsFinal
<1>10. SaysTheSame(ix, jx)
  BY <1>5, <1>8 DEF SaysTheSame
<1>11. Covered(jx)
  <2>1. \A n \in Names : Texts(jx, n) = Texts(ix, n)
    BY <1>6 DEF Texts
  <2>2. \A t \in Base : Relation(jx, t) = Relation(ix, t)
    BY <1>5, <1>8
  <2> QED
    BY <1>1, <2>1, <2>2, CoveredToo
<1>12. Keeps(ix, jx)
  <2>1. \A t \in Base : jx.rows[t] = ix.rows[t]
    BY <1>7, <1>8
  <2> QED
    BY <1>1, <1>2, <1>4, <1>6, <1>8, <2>1 DEF Keeps
<1>13. AreInverted(jx)
  <2>1. /\ "Reference" \in Tables /\ "ReferenceIndex" \in Tables
        /\ "Symbol" \in Tables /\ "SymbolTypeIndex" \in Tables
    BY DEF Tables
  <2> QED
    BY <1>1, <1>5, <2>1 DEF AreInverted
<1> QED
  BY <1>4, <1>9, <1>10, <1>11, <1>12, <1>13 DEF IsMerged

-----------------------------------------------------------------------------
(* The inductive invariant.                                                *)
Phases == {"index", "finalized", "populated", "written", "opened"}

Bounded ==
    /\ phase \in Phases /\ units \in 0..MaxUnits /\ room \in 0..MaxOccurrences
    /\ seen \in SUBSET Occurrence

(* Nothing is left to merge when a phase is over.                          *)
Emptied ==
    /\ units = 0 => m_fileNameMap = <<>>
    /\ phase # "index" => units = 0 /\ archives = {}

Opened == phase = "opened" => m_index = Frozen(mergedIndex)

BuildInv ==
    /\ Bounded /\ Emptied /\ Opened
    /\ AreContexts(m_fileNameMap)
    /\ AreStored(archives)
    /\ IsMerged(mergedIndex, phase)
    /\ AreSaid(m_fileNameMap, archives, mergedIndex, seen)

LEMMA NoContexts == AreContexts(<<>>)
<1>1. PICK no : no = <<>>
  OBVIOUS
<1>2. DOMAIN no = {}
  BY <1>1
<1>3. no = [p \in DOMAIN no |-> no[p]]
  BY <1>1, <1>2
<1>4. IsFiniteSet({})
  BY FS_EmptySet
<1>5. AreContexts(no)
  BY <1>2, <1>3, <1>4 DEF AreContexts
<1> QED
  BY <1>1, <1>5

LEMMA InitBuild == Init => BuildInv
<1> SUFFICES ASSUME Init PROVE BuildInv
  OBVIOUS
<1>1. mergedIndex = NewBuilder(EmptyIndex, FALSE)
  BY Zenon DEF Init
<1>2. IsEmpty(mergedIndex)
  BY <1>1, EmptyFacts, Zenon
<1>3. /\ m_fileNameMap = <<>> /\ archives = {} /\ phase = "index" /\ units = MaxUnits
      /\ room = MaxOccurrences /\ seen = {}
  BY Zenon DEF Init
<1>4. BuildInv
  <2> HIDE <1>1
  <2>1. IsMerged(mergedIndex, "index") /\ AreSaid(<<>>, {}, mergedIndex, {})
    BY <1>2, EmptyMerged
  <2>2. Bounded /\ Emptied /\ Opened
    BY <1>3, BoundAssumption DEF Bounded, Emptied, Opened, Phases
  <2>3. AreStored({})
    BY DEF AreStored
  <2> QED
    BY <1>3, <2>1, <2>2, <2>3, NoContexts DEF BuildInv
<1> QED
  BY <1>4

LEMMA OccurStep ==
    ASSUME NEW o \in Occurrence, NEW c, NEW d
    PROVE  BuildInv /\ c = FileContext(PathOf[o.file]) /\ Follows(c, FactsOf(o), TextsOf(o), d)
           /\ Occur(o, d) => BuildInv'
<1> SUFFICES ASSUME BuildInv, c = FileContext(PathOf[o.file]),
                    Follows(c, FactsOf(o), TextsOf(o), d), Occur(o, d)
             PROVE  BuildInv'
  OBVIOUS
<1>1. c = ContextOf(m_fileNameMap, PathOf[o.file])
  BY DEF FileContext, ContextOf
<1>2. PICK new : new = With(m_fileNameMap, PathOf[o.file], d)
  OBVIOUS
<1>3. /\ phase = "index" /\ units > 0 /\ room > 0 /\ room' = room - 1
      /\ m_fileNameMap' = new /\ seen' = seen \cup {o} /\ archives' = archives
      /\ mergedIndex' = mergedIndex /\ phase' = phase /\ m_index' = m_index /\ units' = units
  BY <1>2 DEF Occur
<1>4. AreContexts(new) /\ AreSaid(new, archives, mergedIndex, seen \cup {o})
  <2>1. PICK map, entries, ix, S : /\ map = m_fileNameMap /\ entries = archives
                                   /\ ix = mergedIndex /\ S = seen
    OBVIOUS
  <2>2. AreContexts(map) /\ AreSaid(map, entries, ix, S)
    BY <2>1 DEF BuildInv
  <2>3. c = ContextOf(map, PathOf[o.file]) /\ new = With(map, PathOf[o.file], d)
    BY <1>1, <1>2, <2>1
  <2>4. AreContexts(new) /\ AreSaid(new, entries, ix, S \cup {o})
    BY <2>2, <2>3, OccurSaid
  <2> QED
    BY <2>1, <2>4
<1>5. AreStored(archives) /\ IsMerged(mergedIndex, phase)
  BY DEF BuildInv
<1>6. Bounded'
  <2>1. /\ units \in 0..MaxUnits /\ room \in 0..MaxOccurrences /\ seen \in SUBSET Occurrence
        /\ phase \in Phases
    BY DEF BuildInv, Bounded
  <2> QED
    BY <1>3, <2>1, BoundAssumption DEF Bounded
<1>7. Emptied' /\ Opened'
  BY <1>3 DEF Emptied, Opened
<1> QED
  BY <1>3, <1>4, <1>5, <1>6, <1>7 DEF BuildInv

-----------------------------------------------------------------------------
(* Every action keeps the invariant.                                       *)
LEMMA IncludeStep == BuildInv /\ Include => BuildInv'
<1> SUFFICES ASSUME BuildInv, Include PROVE BuildInv'
  OBVIOUS
<1>1. PICK o \in Occurrence :
         o.kind = "path" /\ Occur(o, InclusionDirective(FileContext(PathOf[o.file]), o))
  BY Zenon DEF Include
<1>2. PICK c : c = FileContext(PathOf[o.file])
  OBVIOUS
<1>3. PICK d : d = InclusionDirective(c, o)
  OBVIOUS
<1>4. Occur(o, d)
  BY <1>1, <1>2, <1>3, Zenon
<1>5. Live(c) /\ Identifies(c.pathID, c.index.strings["Symbol"], PathOf[o.file])
  <2>1. PICK path \in Nat : path = PathOf[o.file]
    BY OccurrenceFacts
  <2>2. PICK map : map = m_fileNameMap
    OBVIOUS
  <2>3. AreContexts(map) /\ c = ContextOf(map, path)
    BY <1>2, <2>1, <2>2 DEF BuildInv, FileContext, ContextOf
  <2>4. IsContext(c, path)
    BY <2>3, ContextFacts
  <2> QED
    BY <2>1, <2>4 DEF IsContext
<1>6. Follows(c, FactsOf(o), TextsOf(o), d)
  BY <1>1, <1>3, <1>5, InclusionFacts
<1> QED
  BY <1>2, <1>4, <1>6, OccurStep

LEMMA MacroStep == BuildInv /\ MacroNamed => BuildInv'
<1> SUFFICES ASSUME BuildInv, MacroNamed PROVE BuildInv'
  OBVIOUS
<1>1. PICK o \in Occurrence :
         o.kind = "macro" /\ Occur(o, RecordReference(FileContext(PathOf[o.file]), o))
  BY Zenon DEF MacroNamed
<1>2. PICK c : c = FileContext(PathOf[o.file])
  OBVIOUS
<1>3. PICK d : d = RecordReference(c, o)
  OBVIOUS
<1>4. Occur(o, d)
  BY <1>1, <1>2, <1>3, Zenon
<1>5. Live(c) /\ Identifies(c.pathID, c.index.strings["Symbol"], PathOf[o.file])
  <2>1. PICK path \in Nat : path = PathOf[o.file]
    BY OccurrenceFacts
  <2>2. PICK map : map = m_fileNameMap
    OBVIOUS
  <2>3. AreContexts(map) /\ c = ContextOf(map, path)
    BY <1>2, <2>1, <2>2 DEF BuildInv, FileContext, ContextOf
  <2>4. IsContext(c, path)
    BY <2>3, ContextFacts
  <2> QED
    BY <2>1, <2>4 DEF IsContext
<1>6. Follows(c, FactsOf(o), TextsOf(o), d)
  BY <1>1, <1>3, <1>5, ReferenceFacts
<1> QED
  BY <1>2, <1>4, <1>6, OccurStep

LEMMA DeclStep == BuildInv /\ DeclNamed => BuildInv'
<1> SUFFICES ASSUME BuildInv, DeclNamed PROVE BuildInv'
  OBVIOUS
<1>1. PICK o \in Occurrence :
         o.kind = "decl" /\ Occur(o, RecordDeclRef(FileContext(PathOf[o.file]), o))
  BY Zenon DEF DeclNamed
<1>2. PICK c : c = FileContext(PathOf[o.file])
  OBVIOUS
<1>3. PICK d : d = RecordDeclRef(c, o)
  OBVIOUS
<1>4. Occur(o, d)
  BY <1>1, <1>2, <1>3, Zenon
<1>5. Live(c) /\ Identifies(c.pathID, c.index.strings["Symbol"], PathOf[o.file])
  <2>1. PICK path \in Nat : path = PathOf[o.file]
    BY OccurrenceFacts
  <2>2. PICK map : map = m_fileNameMap
    OBVIOUS
  <2>3. AreContexts(map) /\ c = ContextOf(map, path)
    BY <1>2, <2>1, <2>2 DEF BuildInv, FileContext, ContextOf
  <2>4. IsContext(c, path)
    BY <2>3, ContextFacts
  <2> QED
    BY <2>1, <2>4 DEF IsContext
<1>6. Follows(c, FactsOf(o), TextsOf(o), d)
  BY <1>3, <1>5, DeclFacts
<1> QED
  BY <1>2, <1>4, <1>6, OccurStep

LEMMA FinishStep == BuildInv /\ FinishUnit => BuildInv'
<1> SUFFICES ASSUME BuildInv, FinishUnit PROVE BuildInv'
  OBVIOUS
<1>1. PICK new : new = archives \cup ArchiveOf(FinalIndices(m_fileNameMap))
  OBVIOUS
<1>2. /\ phase = "index" /\ units > 0 /\ units' = units - 1 /\ room' = MaxOccurrences
      /\ archives' = new /\ m_fileNameMap' = <<>> /\ mergedIndex' = mergedIndex
      /\ phase' = phase /\ m_index' = m_index /\ seen' = seen
  BY <1>1 DEF FinishUnit, FinalIndices
<1>3. AreStored(new) /\ AreSaid(<<>>, new, mergedIndex, seen)
  <2>1. PICK map, entries, ix, S : /\ map = m_fileNameMap /\ entries = archives
                                   /\ ix = mergedIndex /\ S = seen
    OBVIOUS
  <2>2. AreContexts(map) /\ AreStored(entries) /\ AreSaid(map, entries, ix, S)
    BY <2>1 DEF BuildInv
  <2>3. new = entries \cup ArchiveOf(FinalIndices(map))
    BY <1>1, <2>1
  <2>4. AreStored(new) /\ AreSaid(<<>>, new, ix, S)
    BY <2>2, <2>3, FinishFacts
  <2> QED
    BY <2>1, <2>4
<1>4. IsMerged(mergedIndex, phase)
  BY DEF BuildInv
<1>5. Bounded'
  <2>1. /\ units \in 0..MaxUnits /\ room \in 0..MaxOccurrences /\ seen \in SUBSET Occurrence
        /\ phase \in Phases
    BY DEF BuildInv, Bounded
  <2> QED
    BY <1>2, <2>1, BoundAssumption DEF Bounded
<1>6. Emptied' /\ Opened'
  BY <1>2 DEF Emptied, Opened
<1> QED
  BY <1>2, <1>3, <1>4, <1>5, <1>6, NoContexts DEF BuildInv

LEMMA MergeEntryStep ==
    ASSUME NEW entry
    PROVE  BuildInv /\ entry \in archives /\ MergeEntry(entry)
           => BuildInv' /\ Keeps(mergedIndex, mergedIndex')
<1> SUFFICES ASSUME BuildInv, entry \in archives, MergeEntry(entry)
             PROVE  BuildInv' /\ Keeps(mergedIndex, mergedIndex')
  OBVIOUS
<1>1. PICK jx : jx = Merge(mergedIndex, entry.index)
  OBVIOUS
<1>2. /\ phase = "index" /\ units = 0 /\ archives' = archives \ {entry} /\ mergedIndex' = jx
      /\ m_fileNameMap' = m_fileNameMap /\ phase' = phase /\ m_index' = m_index
      /\ units' = units /\ room' = room /\ seen' = seen
  BY <1>1 DEF MergeEntry
<1>3. PICK map, entries, ix, S : /\ map = m_fileNameMap /\ entries = archives
                                 /\ ix = mergedIndex /\ S = seen
  OBVIOUS
<1>4. /\ AreStored(entries) /\ IsMerged(ix, "index") /\ AreSaid(map, entries, ix, S)
      /\ AreContexts(map)
  BY <1>2, <1>3 DEF BuildInv
<1>5. WellFormed(ix, Base) /\ Covered(ix)
  BY <1>4 DEF IsMerged, IsOpen
<1>6. PICK other : other = entry.index
  OBVIOUS
<1>7. /\ Merges(ix, Base, other, jx) /\ Covered(jx)
      /\ AreStored(entries \ {entry}) /\ AreSaid(map, entries \ {entry}, jx, S)
  BY <1>1, <1>3, <1>4, <1>5, <1>6, MergeStep
<1>8. IsMerged(jx, "index") /\ Keeps(ix, jx)
  BY <1>4, <1>7, MergeMerged
<1>9. Bounded'
  BY <1>2 DEF BuildInv, Bounded
<1>10. Emptied' /\ Opened'
  BY <1>2 DEF BuildInv, Emptied, Opened
<1> QED
  BY <1>2, <1>3, <1>4, <1>7, <1>8, <1>9, <1>10 DEF BuildInv

(* A step that leaves everything but the merged index and the phase.       *)
LEMMA Advancing ==
    ASSUME NEW from \in Phases, NEW to \in Phases, NEW jx, to # "index", to # "opened"
    PROVE  BuildInv /\ Advance(from, to) /\ mergedIndex' = jx /\ units = 0 /\ archives = {}
           /\ m_index' = m_index /\ IsMerged(jx, to) /\ SaysTheSame(mergedIndex, jx)
           => BuildInv'
<1> SUFFICES ASSUME BuildInv, Advance(from, to), mergedIndex' = jx, units = 0, archives = {},
                    m_index' = m_index, IsMerged(jx, to), SaysTheSame(mergedIndex, jx)
             PROVE  BuildInv'
  OBVIOUS
<1>1. /\ phase = from /\ phase' = to /\ m_fileNameMap' = m_fileNameMap /\ archives' = archives
      /\ units' = units /\ room' = room /\ seen' = seen
  BY DEF Advance
<1>2. PICK map, entries, ix, S : /\ map = m_fileNameMap /\ entries = archives
                                 /\ ix = mergedIndex /\ S = seen
  OBVIOUS
<1>3. AreStored(entries) /\ AreSaid(map, entries, ix, S) /\ AreContexts(map)
  BY <1>2 DEF BuildInv
<1>4. AreSaid(map, entries, jx, S)
  BY <1>2, <1>3, SameSaid
<1>5. Bounded'
  BY <1>1 DEF BuildInv, Bounded
<1>6. Emptied' /\ Opened'
  BY <1>1 DEF BuildInv, Emptied, Opened
<1> QED
  BY <1>1, <1>2, <1>3, <1>4, <1>5, <1>6 DEF BuildInv

LEMMA FinalizeStep == BuildInv /\ FinalizeMerged => BuildInv' /\ Keeps(mergedIndex, mergedIndex')
<1> SUFFICES ASSUME BuildInv, FinalizeMerged
             PROVE  BuildInv' /\ Keeps(mergedIndex, mergedIndex')
  OBVIOUS
<1>1. PICK ix, jx : ix = mergedIndex /\ jx = FinalizeTables(ix)
  OBVIOUS
<1>2. /\ Advance("index", "finalized") /\ units = 0 /\ archives = {}
      /\ mergedIndex' = jx /\ m_index' = m_index
  BY <1>1 DEF FinalizeMerged
<1>3. IsMerged(ix, "index")
  BY <1>1, <1>2 DEF BuildInv, Advance
<1>4. IsMerged(jx, "finalized") /\ Keeps(ix, jx) /\ SaysTheSame(ix, jx)
  BY <1>1, <1>3, FinalizeMergedFacts
<1>5. "index" \in Phases /\ "finalized" \in Phases
  BY DEF Phases
<1>6. BuildInv'
  BY <1>1, <1>2, <1>4, <1>5, Advancing
<1> QED
  BY <1>1, <1>2, <1>4, <1>6

LEMMA PopulateStep == BuildInv /\ Populate => BuildInv' /\ Keeps(mergedIndex, mergedIndex')
<1> SUFFICES ASSUME BuildInv, Populate PROVE BuildInv' /\ Keeps(mergedIndex, mergedIndex')
  OBVIOUS
<1>1. PICK ix : ix = mergedIndex
  OBVIOUS
<1>2. PICK jx : jx = Inverted(Inverted(Wide(ix), "Reference", "ReferenceIndex", ByReference),
                              "Symbol", "SymbolTypeIndex", BySymbolType)
  OBVIOUS
<1>3. Advance("finalized", "populated") /\ m_index' = m_index
  BY Zenon DEF Populate
<1>4. mergedIndex' = jx
  BY <1>1, <1>2, Zenon DEF Populate, Wide, ByReference, BySymbolType
<1>5. BuildInv' /\ Keeps(mergedIndex, mergedIndex')
  <2> HIDE DEF Populate
  <2>1. IsMerged(ix, "finalized") /\ units = 0 /\ archives = {}
    BY <1>1, <1>3 DEF BuildInv, Advance, Emptied
  <2>2. IsMerged(jx, "populated") /\ Keeps(ix, jx) /\ SaysTheSame(ix, jx)
    BY <1>2, <2>1, PopulateMerged
  <2>3. "finalized" \in Phases /\ "populated" \in Phases
    BY DEF Phases
  <2>4. BuildInv'
    BY <1>1, <1>3, <1>4, <2>1, <2>2, <2>3, Advancing
  <2> QED
    BY <1>1, <1>4, <2>2, <2>4
<1> QED
  BY <1>5

LEMMA WriteStep == BuildInv /\ FinalizeAndWrite => BuildInv' /\ Keeps(mergedIndex, mergedIndex')
<1> SUFFICES ASSUME BuildInv, FinalizeAndWrite
             PROVE  BuildInv' /\ Keeps(mergedIndex, mergedIndex')
  OBVIOUS
<1>1. PICK ix, jx : ix = mergedIndex /\ jx = FinalizeTables(ix)
  OBVIOUS
<1>2. Advance("populated", "written") /\ mergedIndex' = jx /\ m_index' = m_index
  BY <1>1 DEF FinalizeAndWrite
<1>3. IsMerged(ix, "populated") /\ units = 0 /\ archives = {}
  BY <1>1, <1>2 DEF BuildInv, Advance, Emptied
<1>4. IsMerged(jx, "written") /\ Keeps(ix, jx) /\ SaysTheSame(ix, jx)
  BY <1>1, <1>3, WriteMerged
<1>5. "populated" \in Phases /\ "written" \in Phases
  BY DEF Phases
<1>6. BuildInv'
  BY <1>1, <1>2, <1>3, <1>4, <1>5, Advancing
<1> QED
  BY <1>1, <1>2, <1>4, <1>6

(* The navigator opens what was written.                                   *)
LEMMA OpenStep ==
    BuildInv /\ OpenProject => BuildInv' /\ mergedIndex' = mergedIndex
                               /\ m_index' = Frozen(mergedIndex)
<1> SUFFICES ASSUME BuildInv, OpenProject
             PROVE  BuildInv' /\ mergedIndex' = mergedIndex /\ m_index' = Frozen(mergedIndex)
  OBVIOUS
<1>1. Advance("written", "opened") /\ mergedIndex' = mergedIndex
  BY Zenon DEF OpenProject
<1>2. PICK file : file = FileOf(mergedIndex)
                  /\ m_index' = ReadIndex(MappedReader(file, 0, End(file)))
  BY Zenon DEF OpenProject, FileOf
<1>3. /\ phase = "written" /\ phase' = "opened" /\ m_fileNameMap' = m_fileNameMap
      /\ archives' = archives /\ units' = units /\ room' = room /\ seen' = seen
  BY <1>1 DEF Advance
<1>4. PICK ix : ix = mergedIndex
  OBVIOUS
<1>5. IsMerged(ix, "written")
  BY <1>3, <1>4 DEF BuildInv
<1>6. ix \in Indices
  BY <1>5 DEF IsMerged, IsFinal, WellFormed
<1>7. m_index' = Frozen(mergedIndex)
  BY <1>2, <1>4, <1>6, FileRoundTrip
<1>8. IsMerged(ix, "opened")
  BY <1>5 DEF IsMerged
<1>9. Bounded'
  BY <1>3 DEF BuildInv, Bounded, Phases
<1>10. Emptied' /\ Opened'
  BY <1>1, <1>3, <1>7 DEF BuildInv, Emptied, Opened
<1>11. BuildInv'
  BY <1>1, <1>3, <1>4, <1>8, <1>9, <1>10 DEF BuildInv
<1> QED
  BY <1>1, <1>7, <1>11

(* Unless the merged index changes, nothing of it does.                    *)
LEMMA Unmerged == (Include \/ MacroNamed \/ DeclNamed \/ FinishUnit) => mergedIndex' = mergedIndex
BY Zenon DEF Include, MacroNamed, DeclNamed, FinishUnit, Occur

LEMMA KeepsItself ==
    ASSUME NEW ix
    PROVE  Keeps(ix, ix)
BY DEF Keeps

LEMMA BuildStep ==
    BuildInv /\ [Next]_vars => BuildInv' /\ Keeps(mergedIndex, mergedIndex')
<1> SUFFICES ASSUME BuildInv, [Next]_vars
             PROVE  BuildInv' /\ Keeps(mergedIndex, mergedIndex')
  OBVIOUS
<1>1. CASE Include
  BY <1>1, IncludeStep, Unmerged, KeepsItself
<1>2. CASE MacroNamed
  BY <1>2, MacroStep, Unmerged, KeepsItself
<1>3. CASE DeclNamed
  BY <1>3, DeclStep, Unmerged, KeepsItself
<1>4. CASE FinishUnit
  BY <1>4, FinishStep, Unmerged, KeepsItself
<1>5. CASE \E entry \in archives : MergeEntry(entry)
  BY <1>5, MergeEntryStep
<1>6. CASE FinalizeMerged
  BY <1>6, FinalizeStep
<1>7. CASE Populate
  BY <1>7, PopulateStep
<1>8. CASE FinalizeAndWrite
  BY <1>8, WriteStep
<1>9. CASE OpenProject
  BY <1>9, OpenStep, KeepsItself
<1>10. CASE UNCHANGED vars
  <2>1. BuildInv'
    BY <1>10 DEF vars, BuildInv, Bounded, Emptied, Opened
  <2> QED
    BY <1>10, <2>1, KeepsItself DEF vars
<1> QED
  BY <1>1, <1>2, <1>3, <1>4, <1>5, <1>6, <1>7, <1>8, <1>9, <1>10, Zenon DEF Next

-----------------------------------------------------------------------------
(* The invariant of every behaviour.                                       *)
THEOREM BuildInvariant == Spec => []BuildInv
<1>1. Init => BuildInv
  BY InitBuild
<1>2. BuildInv /\ [Next]_vars => BuildInv'
  BY BuildStep
<1> QED
  BY <1>1, <1>2, PTL DEF Spec

(* What finalizeTables has frozen never changes again.                     *)
THEOREM FrozenStays == Spec => ReadOnlyStays
<1>1. BuildInv /\ [Next]_vars =>
         [/\ mergedIndex.readonly \subseteq mergedIndex'.readonly
          /\ \A t \in mergedIndex.readonly : mergedIndex'.rows[t] = mergedIndex.rows[t]
          /\ \A n \in mergedIndex.finalized :
                mergedIndex'.strings[n] = mergedIndex.strings[n]]_vars
  BY BuildStep DEF Keeps
<1> QED
  BY <1>1, BuildInvariant, PTL DEF Spec, ReadOnlyStays

LEMMA SeqDomain ==
    ASSUME NEW S, NEW s \in Seq(S)
    PROVE  DOMAIN s = 1..Len(s)
OBVIOUS

LEMMA Domains ==
    /\ \A t \in Tables : DOMAIN Schema[t] = 1..Width(t)
    /\ \A ss, n : AreStrings(ss) /\ n \in Names => DOMAIN ss[n] = 1..Len(ss[n])
    /\ \A ss, t, rows : AreRows(ss, t, rows) => DOMAIN rows = 1..Len(rows)
<1>1. ASSUME NEW t \in Tables PROVE DOMAIN Schema[t] = 1..Width(t)
  <2>1. PICK s, S : s = Schema[t] /\ S = Names \cup {""}
    OBVIOUS
  <2>2. s \in Seq(S)
    BY <2>1, SchemaFacts
  <2> QED
    BY <2>1, <2>2, SeqDomain DEF Width
<1>2. ASSUME NEW ss, NEW n \in Names, AreStrings(ss) PROVE DOMAIN ss[n] = 1..Len(ss[n])
  <2>1. ss[n] \in Seq(Nat)
    BY <1>2 DEF AreStrings
  <2> QED
    BY <2>1, SeqDomain
<1>3. ASSUME NEW ss, NEW t, NEW rows, AreRows(ss, t, rows) PROVE DOMAIN rows = 1..Len(rows)
  <2>1. rows \in Seq(Row(Width(t)))
    BY <1>3 DEF AreRows
  <2> QED
    BY <2>1, SeqDomain
<1> QED
  BY <1>1, <1>2, <1>3

LEMMA WellFormedInRange ==
    ASSUME NEW D, NEW ix, WellFormed(ix, D)
    PROVE  IdsInRange(ix)
<1>1. PICK ss, rows : ss = ix.strings /\ rows = ix.rows
  OBVIOUS
<1>2. /\ D \in SUBSET Tables /\ DOMAIN rows = D /\ AreStrings(ss)
      /\ \A t \in D : AreRows(ss, t, rows[t])
  BY <1>1 DEF WellFormed
<1>3. ASSUME NEW t \in D, NEW i \in 1..Len(rows[t]), NEW c \in 1..Width(t), NEW n,
             n = Schema[t][c], n # ""
      PROVE  n \in Names /\ rows[t][i][c] \in 1..Len(ss[n])
  <2>1. t \in Tables
    BY <1>2
  <2>2. n \in Names
    BY <1>3, <2>1, Columned
  <2>3. PICK table : table = rows[t]
    OBVIOUS
  <2>4. AreRows(ss, t, table)
    BY <1>2, <2>3
  <2>5. InRange(ss, t, table[i])
    BY <2>3, <2>4 DEF AreRows
  <2>6. table[i][c] \in 1..Len(ss[n])
    BY <1>3, <2>5 DEF InRange
  <2> QED
    BY <2>2, <2>3, <2>6
<1>4. ASSUME NEW t \in D, NEW i \in DOMAIN rows[t], NEW c \in DOMAIN Schema[t],
             Schema[t][c] # ""
      PROVE  rows[t][i][c] \in DOMAIN ss[Schema[t][c]]
  <2>1. PICK n : n = Schema[t][c]
    OBVIOUS
  <2>2. t \in Tables
    BY <1>2
  <2>3. i \in 1..Len(rows[t]) /\ c \in 1..Width(t)
    BY <1>2, <2>2, Domains
  <2>4. n \in Names /\ rows[t][i][c] \in 1..Len(ss[n])
    BY <1>3, <1>4, <2>1, <2>3
  <2>5. DOMAIN ss[n] = 1..Len(ss[n])
    BY <1>2, <2>4, Domains
  <2> QED
    BY <2>1, <2>4, <2>5
<1> QED
  BY <1>1, <1>2, <1>4 DEF IdsInRange

LEMMA MergedWellFormed ==
    ASSUME NEW ix, NEW ph \in Phases, IsMerged(ix, ph)
    PROVE  WellFormed(ix, Base) \/ WellFormed(ix, Tables)
BY DEF Phases, IsMerged, IsOpen, IsFinal

LEMMA BuildTyped == BuildInv => TypeOK
<1> SUFFICES ASSUME BuildInv PROVE TypeOK
  OBVIOUS
<1>1. Bounded
  BY DEF BuildInv
<1>2. IdsInRange(mergedIndex)
  <2>1. PICK ix, ph : ix = mergedIndex /\ ph = phase
    OBVIOUS
  <2>2. IsMerged(ix, ph) /\ ph \in Phases
    BY <1>1, <2>1 DEF BuildInv, Bounded
  <2>3. IdsInRange(ix)
    BY <2>2, MergedWellFormed, WellFormedInRange
  <2> QED
    BY <2>1, <2>3
<1>3. ASSUME NEW entry \in archives
      PROVE  IdsInRange(entry.index) /\ entry.index.readonly = DOMAIN entry.index.rows
  <2>1. PICK ix : ix = entry.index
    OBVIOUS
  <2>2. WellFormed(ix, Base) /\ ix.readonly = Base
    BY <2>1 DEF BuildInv, AreStored, IsStored
  <2>3. IdsInRange(ix) /\ DOMAIN ix.rows = Base
    BY <2>2, WellFormedInRange DEF WellFormed
  <2> QED
    BY <2>1, <2>2, <2>3
<1>4. ASSUME NEW p \in DOMAIN m_fileNameMap PROVE IdsInRange(m_fileNameMap[p].index)
  <2>1. PICK ix : ix = m_fileNameMap[p].index
    OBVIOUS
  <2>2. WellFormed(ix, Base)
    BY <2>1 DEF BuildInv, AreContexts, IsContext, Live
  <2> QED
    BY <2>1, <2>2, WellFormedInRange
<1> QED
  BY <1>1, <1>2, <1>3, <1>4 DEF TypeOK, Bounded, Phases

(* Every ID is in its string table, and a cached one names what it was     *)
(* cached for.                                                             *)
THEOREM CachesAlwaysAgree == Spec => []CachesAgree
<1>1. BuildInv => CachesAgree
  <2> SUFFICES ASSUME BuildInv PROVE CachesAgree
    OBVIOUS
  <2>1. TypeOK
    BY BuildTyped
  <2>2. ASSUME NEW p \in DOMAIN m_fileNameMap, NEW c, c = m_fileNameMap[p]
        PROVE  /\ c.index.strings["Symbol"][c.pathID] = p
               /\ \A d \in DOMAIN c.declNameCache :
                     c.index.strings["Symbol"][c.declNameCache[d]] = NameOf[d]
               /\ \A r \in DOMAIN c.refTypeIDs :
                     c.index.strings["ReferenceType"][c.refTypeIDs[r]] = r
               /\ \A t \in DOMAIN c.symbolTypeIDs :
                     c.index.strings["SymbolType"][c.symbolTypeIDs[t]] = t
    <3>1. IsContext(c, p)
      BY <2>2 DEF BuildInv, AreContexts
    <3> QED
      BY <3>1 DEF IsContext, Live, Identifies
  <2> QED
    BY <2>1, <2>2 DEF CachesAgree
<1> QED
  BY <1>1, BuildInvariant, PTL

-----------------------------------------------------------------------------
(* Every string of an index that covers its strings has its ID in a row.   *)
LEMMA Used ==
    ASSUME NEW D, NEW ix, WellFormed(ix, D), Base \in SUBSET D, NEW n \in Names,
           NEW i \in 1..Len(ix.strings[n]), Mentions(ix, n, ix.strings[n][i])
    PROVE  \E t \in D : \E r \in 1..Len(ix.rows[t]) : \E c \in 1..Width(t) :
              Schema[t][c] = n /\ ix.rows[t][r][c] = i
<1>1. PICK ss, rows : ss = ix.strings /\ rows = ix.rows
  OBVIOUS
<1>2. /\ D \in SUBSET Tables /\ DOMAIN rows = D /\ AreStrings(ss)
      /\ \A t \in D : AreRows(ss, t, rows[t])
  BY <1>1 DEF WellFormed
<1>3. PICK t \in Base : \E fact \in Relation(ix, t) : Naming(t, fact, n, ss[n][i])
  BY <1>1 DEF Mentions
<1>4. PICK fact \in Relation(ix, t) : Naming(t, fact, n, ss[n][i])
  BY <1>3
<1>5. PICK c \in 1..Width(t) : Schema[t][c] = n /\ fact[c] = ss[n][i]
  BY <1>4 DEF Naming
<1>6. t \in D /\ t \in Tables
  BY <1>2
<1>7. PICK table : table = rows[t]
  OBVIOUS
<1>8. AreRows(ss, t, table)
  BY <1>2, <1>6, <1>7
<1>9. Relation(ix, t) = Says(ss, t, table)
  BY <1>1, <1>2, <1>6, <1>7, <1>8, Saying
<1>10. PICK r \in 1..Len(table) : fact = Decoded(ss, t, table[r])
  BY <1>4, <1>9 DEF Says
<1>11. PICK row : row = table[r]
  OBVIOUS
<1>12. InRange(ss, t, row)
  BY <1>8, <1>11 DEF AreRows
<1>13. n # ""
  BY DEF Names
<1>14. row[c] \in 1..Len(ss[n])
  BY <1>5, <1>12, <1>13 DEF InRange
<1>15. fact[c] = ss[n][row[c]]
  <2>1. fact[c] = IF Schema[t][c] = "" THEN row[c] ELSE ss[Schema[t][c]][row[c]]
    BY <1>10, <1>11 DEF Decoded
  <2> QED
    BY <1>5, <1>13, <2>1
<1>16. row[c] = i
  <2>1. OneToOne(Len(ss[n]), ss[n])
    BY <1>2 DEF AreStrings
  <2>2. i \in 1..Len(ss[n])
    BY <1>1
  <2> QED
    BY <1>5, <1>14, <1>15, <2>1, <2>2 DEF OneToOne
<1> QED
  BY <1>1, <1>5, <1>6, <1>7, <1>11, <1>16

LEMMA CanonicalFacts ==
    ASSUME NEW D, NEW ix, WellFormed(ix, D), Base \in SUBSET D, Covered(ix),
           \A n \in Names : Up(ix.strings[n]), \A t \in D : RowsUp(ix.rows[t])
    PROVE  Canonical(ix)
<1>1. PICK ss, rows : ss = ix.strings /\ rows = ix.rows
  OBVIOUS
<1>2. /\ D \in SUBSET Tables /\ DOMAIN rows = D /\ AreStrings(ss)
      /\ \A t \in D : AreRows(ss, t, rows[t])
  BY <1>1 DEF WellFormed
<1>3. DOMAIN ss = Names /\ \A n \in Names : DOMAIN ss[n] = 1..Len(ss[n])
  BY <1>2, Domains DEF AreStrings
<1>4. \A t \in D : DOMAIN rows[t] = 1..Len(rows[t]) /\ DOMAIN Schema[t] = 1..Width(t)
  BY <1>2, Domains
<1>5. ASSUME NEW n \in Names, NEW i \in 1..Len(ss[n]), NEW j \in 1..Len(ss[n]), i < j
      PROVE  ss[n][i] < ss[n][j]
  BY <1>1, <1>5 DEF Up
<1>6. ASSUME NEW n \in Names, NEW i \in 1..Len(ss[n])
      PROVE  \E t \in D : \E r \in 1..Len(rows[t]) : \E c \in 1..Width(t) :
                Schema[t][c] = n /\ rows[t][r][c] = i
  <2>1. ss[n][i] \in Texts(ix, n)
    BY <1>1 DEF Texts, Held
  <2>2. Mentions(ix, n, ss[n][i])
    BY <2>1 DEF Covered
  <2> QED
    BY <1>1, <2>2, Used
<1>7. ASSUME NEW t \in D, NEW i \in 1..Len(rows[t]), NEW j \in 1..Len(rows[t]), i < j
      PROVE  RowLess(rows[t][i], rows[t][j])
  BY <1>1, <1>7 DEF RowsUp
<1>8. \A n \in DOMAIN ss : \A i, j \in DOMAIN ss[n] :
         /\ i < j => ss[n][i] < ss[n][j]
         /\ \E t \in DOMAIN rows : \E r \in DOMAIN rows[t] : \E c \in DOMAIN Schema[t] :
               Schema[t][c] = n /\ rows[t][r][c] = i
  <2> SUFFICES ASSUME NEW n \in DOMAIN ss, NEW i \in DOMAIN ss[n], NEW j \in DOMAIN ss[n]
               PROVE  /\ i < j => ss[n][i] < ss[n][j]
                      /\ \E t \in DOMAIN rows : \E r \in DOMAIN rows[t] :
                         \E c \in DOMAIN Schema[t] :
                            Schema[t][c] = n /\ rows[t][r][c] = i
    OBVIOUS
  <2>1. n \in Names /\ i \in 1..Len(ss[n]) /\ j \in 1..Len(ss[n])
    BY <1>3
  <2>2. PICK t \in D : \E r \in 1..Len(rows[t]) : \E c \in 1..Width(t) :
                Schema[t][c] = n /\ rows[t][r][c] = i
    BY <1>6, <2>1, SMTT(40)
  <2>3. t \in DOMAIN rows /\ \E r \in DOMAIN rows[t] : \E c \in DOMAIN Schema[t] :
                                Schema[t][c] = n /\ rows[t][r][c] = i
    BY <1>2, <1>4, <2>2
  <2> QED
    BY <1>5, <2>1, <2>3
<1>9. \A t \in DOMAIN rows : \A i, j \in DOMAIN rows[t] :
         i < j => RowLess(rows[t][i], rows[t][j])
  BY <1>2, <1>4, <1>7
<1>10. \A n \in DOMAIN ix.strings : \A i, j \in DOMAIN ix.strings[n] :
          /\ i < j => ix.strings[n][i] < ix.strings[n][j]
          /\ \E t \in DOMAIN ix.rows : \E r \in DOMAIN ix.rows[t] : \E c \in DOMAIN Schema[t] :
                Schema[t][c] = n /\ ix.rows[t][r][c] = i
  BY <1>1, <1>8
<1>11. \A t \in DOMAIN ix.rows : \A i, j \in DOMAIN ix.rows[t] :
          i < j => RowLess(ix.rows[t][i], ix.rows[t][j])
  BY <1>1, <1>9
<1> QED
  BY <1>10, <1>11 DEF Canonical

(* A finalized index depends on its facts only.                            *)
THEOREM FinalizedAlwaysCanonical == Spec => []FinalizedIsCanonical
<1>1. BuildInv => FinalizedIsCanonical
  <2> SUFFICES ASSUME BuildInv PROVE FinalizedIsCanonical
    OBVIOUS
  <2>1. ASSUME NEW entry \in archives PROVE Canonical(entry.index)
    <3>1. PICK ix : ix = entry.index
      OBVIOUS
    <3>2. IsStored(entry)
      BY DEF BuildInv, AreStored
    <3>3. /\ WellFormed(ix, Base) /\ Covered(ix) /\ \A n \in Names : Up(ix.strings[n])
          /\ \A t \in Base : RowsUp(ix.rows[t])
      BY <3>1, <3>2 DEF IsStored
    <3>4. Base \in SUBSET Base
      OBVIOUS
    <3> QED
      BY <3>1, <3>3, <3>4, CanonicalFacts
  <2>2. ASSUME NEW x \in archives, NEW y \in archives, x.index = y.index PROVE x.hash = y.hash
    <3>1. IsStored(x) /\ IsStored(y)
      BY DEF BuildInv, AreStored
    <3> QED
      BY <2>2, <3>1 DEF IsStored
  <2>3. ASSUME phase \in {"finalized", "written", "opened"} PROVE Canonical(mergedIndex)
    <3>1. PICK ix : ix = mergedIndex
      OBVIOUS
    <3>2. IsMerged(ix, phase)
      BY <3>1 DEF BuildInv
    <3>3. Base \in SUBSET Base /\ Base \in SUBSET Tables
      BY DEF Base, Tables
    <3>4. \/ IsFinal(ix, Base) /\ ix.readonly = Base
          \/ IsFinal(ix, Tables) /\ ix.readonly = Tables
      BY <2>3, <3>2 DEF IsMerged
    <3>5. Covered(ix)
      BY <3>2 DEF IsMerged
    <3>6. PICK D : IsFinal(ix, D) /\ ix.readonly = D /\ Base \in SUBSET D
      BY <3>3, <3>4
    <3>7. /\ WellFormed(ix, D) /\ \A n \in Names : Up(ix.strings[n])
          /\ \A t \in D : RowsUp(ix.rows[t])
      BY <3>6 DEF IsFinal
    <3>8. Canonical(ix)
      BY <3>5, <3>6, <3>7, CanonicalFacts
    <3> QED
      BY <3>1, <3>8
  <2> QED
    BY <2>1, <2>2, <2>3 DEF FinalizedIsCanonical
<1> QED
  BY <1>1, BuildInvariant, PTL

-----------------------------------------------------------------------------
(* What an occurrence is recorded as, table by table.                      *)
SymbolFact(o) == <<NameOf[o.symbol], o.symbolType>>
GlobalFact(o) == <<NameOf[o.symbol]>>
ReferenceFact(o) == RefFact(PathOf[o.file], NameOf[o.symbol], o)

LEMMA FactsByTable ==
    ASSUME NEW o, NEW fact
    PROVE  /\ <<"Reference", fact>> \in AllFacts(o) <=> fact = ReferenceFact(o)
           /\ <<"Symbol", fact>> \in AllFacts(o) <=>
                 fact = PathFact(PathOf[o.file]) \/ (o.symbolType # NoType /\ fact = SymbolFact(o))
           /\ <<"GlobalSymbol", fact>> \in AllFacts(o) <=>
                 o.symbolType \notin Unlisted \cup {NoType} /\ fact = GlobalFact(o)
<1>1. PICK a, b, c, d : /\ a = ReferenceFact(o) /\ b = SymbolFact(o) /\ c = GlobalFact(o)
                        /\ d = PathFact(PathOf[o.file])
  OBVIOUS
<1>2. AllFacts(o) = ({<<"Reference", a>>} \cup
                     (IF o.symbolType = NoType THEN {} ELSE {<<"Symbol", b>>}) \cup
                     (IF o.symbolType \in Unlisted \cup {NoType} THEN {}
                      ELSE {<<"GlobalSymbol", c>>})) \cup {<<"Symbol", d>>}
  BY <1>1 DEF AllFacts, FactsOf, ReferenceFact, SymbolFact, GlobalFact
<1>3. <<"Reference", fact>> \in AllFacts(o) <=> fact = a
  BY <1>2
<1>4. <<"Symbol", fact>> \in AllFacts(o) <=> fact = d \/ (o.symbolType # NoType /\ fact = b)
  BY <1>2
<1>5. <<"GlobalSymbol", fact>> \in AllFacts(o) <=>
         o.symbolType \notin Unlisted \cup {NoType} /\ fact = c
  BY <1>2
<1> QED
  BY <1>1, <1>3, <1>4, <1>5

(* The facts of the promise are those of the invariant.                    *)
IsPromised(t, F) == \A fact : fact \in F <=> Seen(seen, t, fact)

LEMMA Promised ==
    /\ IsPromised("Reference", Promise!References)
    /\ IsPromised("Symbol", Promise!Symbols)
    /\ IsPromised("GlobalSymbol", Promise!GlobalSymbols)
<1>1. PICK S : S = seen
  OBVIOUS
<1>2. Promise!References = {ReferenceFact(o) : o \in S}
  BY <1>1 DEF Promise!References, ReferenceFact, RefFact
<1>3. Promise!Symbols = {PathFact(PathOf[o.file]) : o \in S} \cup
                        {SymbolFact(o) : o \in {p \in S : p.symbolType # NoType}}
  BY <1>1 DEF Promise!Symbols, PathFact, SymbolFact
<1>4. Promise!GlobalSymbols =
         {GlobalFact(o) : o \in {p \in S : p.symbolType \notin Unlisted \cup {NoType}}}
  BY <1>1 DEF Promise!GlobalSymbols, GlobalFact
<1>5. ASSUME NEW fact
      PROVE  fact \in Promise!References <=> Seen(S, "Reference", fact)
  <2>1. fact \in Promise!References <=> \E o \in S : fact = ReferenceFact(o)
    BY <1>2
  <2> QED
    BY <2>1, FactsByTable DEF Seen
<1>6. ASSUME NEW fact
      PROVE  fact \in Promise!Symbols <=> Seen(S, "Symbol", fact)
  <2>1. fact \in Promise!Symbols <=>
           \E o \in S : \/ fact = PathFact(PathOf[o.file])
                        \/ o.symbolType # NoType /\ fact = SymbolFact(o)
    BY <1>3
  <2> QED
    BY <2>1, FactsByTable DEF Seen
<1>7. ASSUME NEW fact
      PROVE  fact \in Promise!GlobalSymbols <=> Seen(S, "GlobalSymbol", fact)
  <2>1. fact \in Promise!GlobalSymbols <=>
           \E o \in S : o.symbolType \notin Unlisted \cup {NoType} /\ fact = GlobalFact(o)
    BY <1>4
  <2> QED
    BY <2>1, FactsByTable DEF Seen
<1> QED
  BY <1>1, <1>5, <1>6, <1>7 DEF IsPromised

(* The two tables in another order.                                        *)
LEMMA ByReferenceRows ==
    ASSUME NEW F
    PROVE  Shuffles(ByReference, F) = {<<r[5], r[6], r[1], r[2], r[3], r[4]>> : r \in F}
<1>1. PICK order : order = ByReference
  OBVIOUS
<1>2. /\ DOMAIN order = 1..6 /\ order[1] = 5 /\ order[2] = 6 /\ order[3] = 1
      /\ order[4] = 2 /\ order[5] = 3 /\ order[6] = 4
  BY <1>1 DEF ByReference
<1>3. ASSUME NEW r
      PROVE  Shuffled(order, r) = <<r[5], r[6], r[1], r[2], r[3], r[4]>>
  <2>1. PICK a, b, c, d, e, f : /\ a = r[5] /\ b = r[6] /\ c = r[1] /\ d = r[2]
                                /\ e = r[3] /\ f = r[4]
    OBVIOUS
  <2>2. PICK x : x = [i \in 1..6 |-> r[order[i]]]
    OBVIOUS
  <2>3. x[1] = a /\ x[2] = b /\ x[3] = c /\ x[4] = d /\ x[5] = e /\ x[6] = f
    BY <1>2, <2>1, <2>2
  <2>4. DOMAIN x = 1..6
    BY <2>2
  <2>5. x = [i \in 1..6 |-> x[i]]
    BY <2>2, <2>4
  <2>6. PICK y : y = <<a, b, c, d, e, f>>
    OBVIOUS
  <2>7. y = [i \in 1..6 |-> y[i]]
    BY <2>6
  <2>8. y[1] = a /\ y[2] = b /\ y[3] = c /\ y[4] = d /\ y[5] = e /\ y[6] = f
    BY <2>6
  <2>9. \A i \in 1..6 : i = 1 \/ i = 2 \/ i = 3 \/ i = 4 \/ i = 5 \/ i = 6
    OBVIOUS
  <2>10. \A i \in 1..6 : x[i] = y[i]
    BY <2>3, <2>8, <2>9
  <2>11. x = y
    BY <2>5, <2>7, <2>10
  <2>12. Shuffled(order, r) = x
    BY <1>2, <2>2 DEF Shuffled
  <2> QED
    BY <2>1, <2>6, <2>11, <2>12
<1> QED
  BY <1>1, <1>3 DEF Shuffles

LEMMA BySymbolTypeRows ==
    ASSUME NEW F
    PROVE  Shuffles(BySymbolType, F) = {<<s[2], s[1]>> : s \in F}
<1>1. PICK order : order = BySymbolType
  OBVIOUS
<1>2. DOMAIN order = 1..2 /\ order[1] = 2 /\ order[2] = 1
  BY <1>1 DEF BySymbolType
<1>3. ASSUME NEW r
      PROVE  Shuffled(order, r) = <<r[2], r[1]>>
  <2>1. PICK a, b : a = r[2] /\ b = r[1]
    OBVIOUS
  <2>2. PICK x : x = [i \in 1..2 |-> r[order[i]]]
    OBVIOUS
  <2>3. x[1] = a /\ x[2] = b /\ DOMAIN x = 1..2
    BY <1>2, <2>1, <2>2
  <2>4. x = [i \in 1..2 |-> x[i]]
    BY <2>2, <2>3
  <2>5. PICK y : y = <<a, b>>
    OBVIOUS
  <2>6. y = [i \in 1..2 |-> y[i]] /\ y[1] = a /\ y[2] = b
    BY <2>5
  <2>7. \A i \in 1..2 : x[i] = y[i]
    BY <2>3, <2>6
  <2>8. x = y
    BY <2>4, <2>6, <2>7
  <2>9. Shuffled(order, r) = x
    BY <1>2, <2>2 DEF Shuffled
  <2> QED
    BY <2>1, <2>5, <2>8, <2>9
<1> QED
  BY <1>1, <1>3 DEF Shuffles

(* What an index says that has every occurrence.                           *)
Complete(ix) ==
    /\ Relation(ix, "Reference") = Promise!References
    /\ Relation(ix, "Symbol") = Promise!Symbols
    /\ Relation(ix, "GlobalSymbol") = Promise!GlobalSymbols
    /\ Relation(ix, "ReferenceIndex") =
          {<<r[5], r[6], r[1], r[2], r[3], r[4]>> : r \in Promise!References}
    /\ Relation(ix, "SymbolTypeIndex") = {<<s[2], s[1]>> : s \in Promise!Symbols}

LEMMA MergedSays ==
    ASSUME BuildInv, phase \in {"written", "opened"}, NEW ix, ix = mergedIndex
    PROVE  WellFormed(ix, Tables) /\ Complete(ix)
<1>1. IsMerged(ix, "written")
  BY DEF BuildInv, IsMerged
<1>2. WellFormed(ix, Tables) /\ AreInverted(ix)
  BY <1>1 DEF IsMerged, IsFinal
<1>3. AreSaid(<<>>, {}, ix, seen)
  BY DEF BuildInv, Emptied
<1>4. \A t, fact : ~InContexts(<<>>, t, fact) /\ ~InEntries({}, t, fact)
  BY DEF InContexts, InEntries
<1>5. \A t \in Base : \A fact : Seen(seen, t, fact) <=> fact \in Relation(ix, t)
  BY <1>3, <1>4 DEF AreSaid
<1>6. ASSUME NEW t \in Base, NEW F, IsPromised(t, F) PROVE Relation(ix, t) = F
  <2>1. PICK R : R = Relation(ix, t)
    OBVIOUS
  <2>2. \A fact : fact \in R <=> fact \in F
    BY <1>5, <1>6, <2>1 DEF IsPromised
  <2>3. R = F
    BY <2>2
  <2> QED
    BY <2>1, <2>3
<1>7. "Reference" \in Base /\ "Symbol" \in Base /\ "GlobalSymbol" \in Base
  BY DEF Base
<1>8. /\ Relation(ix, "Reference") = Promise!References
       /\ Relation(ix, "Symbol") = Promise!Symbols
       /\ Relation(ix, "GlobalSymbol") = Promise!GlobalSymbols
  BY <1>6, <1>7, Promised
<1>9. /\ Relation(ix, "ReferenceIndex") =
             {<<r[5], r[6], r[1], r[2], r[3], r[4]>> : r \in Promise!References}
       /\ Relation(ix, "SymbolTypeIndex") = {<<s[2], s[1]>> : s \in Promise!Symbols}
  <2>1. /\ Relation(ix, "ReferenceIndex") = Shuffles(ByReference, Promise!References)
        /\ Relation(ix, "SymbolTypeIndex") = Shuffles(BySymbolType, Promise!Symbols)
    BY <1>2, <1>8 DEF AreInverted
  <2> QED
    BY <2>1, ByReferenceRows, BySymbolTypeRows
<1> QED
  BY <1>2, <1>8, <1>9 DEF Complete

(* What the file says, once the navigator has opened it.                   *)
LEMMA FrozenSays ==
    ASSUME NEW ix, NEW jx, WellFormed(ix, Tables), Complete(ix), jx = Frozen(ix)
    PROVE  Complete(jx)
<1>1. \A t \in Tables : Relation(jx, t) = Relation(ix, t)
  BY FrozenFacts
<1>2. /\ "Reference" \in Tables /\ "Symbol" \in Tables /\ "GlobalSymbol" \in Tables
      /\ "ReferenceIndex" \in Tables /\ "SymbolTypeIndex" \in Tables
  BY DEF Tables
<1> QED
  BY <1>1, <1>2 DEF Complete

LEMMA OpenedSays ==
    ASSUME BuildInv, OpenProject, NEW jx, jx = m_index'
    PROVE  Complete(jx)
<1>1. PICK ix : ix = mergedIndex
  OBVIOUS
<1>2. jx = Frozen(ix)
  BY <1>1, OpenStep
<1>3. phase = "written"
  BY Zenon DEF OpenProject, Advance
<1>4. WellFormed(ix, Tables) /\ Complete(ix)
  BY <1>1, <1>3, MergedSays
<1> QED
  BY <1>2, <1>4, FrozenSays

-----------------------------------------------------------------------------
(* Steps of the program are steps of the promise.                          *)
LEMMA OpenPublishes == BuildInv /\ OpenProject => Promise!Publish
<1> SUFFICES ASSUME BuildInv, OpenProject PROVE Promise!Publish
  OBVIOUS
<1>1. phase = "written" /\ phase' = "opened" /\ seen' = seen
  BY Zenon DEF OpenProject, Advance
<1>2. Published = <<>>
  BY <1>1 DEF Published
<1>3. PICK jx : jx = m_index'
  OBVIOUS
<1>4. Published' = [t \in DOMAIN Schema |-> Relation(jx, t)]
  BY <1>1, <1>3 DEF Published
<1>5. PICK a, b, c, d, e : /\ a = Promise!References /\ c = Promise!Symbols
                           /\ e = Promise!GlobalSymbols
                           /\ b = {<<r[5], r[6], r[1], r[2], r[3], r[4]>> : r \in a}
                           /\ d = {<<s[2], s[1]>> : s \in c}
  OBVIOUS
<1>6. /\ Relation(jx, "Reference") = a /\ Relation(jx, "ReferenceIndex") = b
      /\ Relation(jx, "Symbol") = c /\ Relation(jx, "SymbolTypeIndex") = d
      /\ Relation(jx, "GlobalSymbol") = e
  <2>1. Complete(jx)
    BY <1>3, OpenedSays
  <2> QED
    BY <1>5, <2>1 DEF Complete
<1>7. DOMAIN Schema = {"Reference", "ReferenceIndex", "Symbol", "SymbolTypeIndex",
                       "GlobalSymbol"}
  BY DEF Schema
<1>8. Published' = [Reference |-> a, ReferenceIndex |-> b, Symbol |-> c,
                    SymbolTypeIndex |-> d, GlobalSymbol |-> e]
  <2>1. PICK F : F = [t \in {"Reference", "ReferenceIndex", "Symbol", "SymbolTypeIndex",
                             "GlobalSymbol"} |-> Relation(jx, t)]
    OBVIOUS
  <2>2. /\ F["Reference"] = a /\ F["ReferenceIndex"] = b /\ F["Symbol"] = c
        /\ F["SymbolTypeIndex"] = d /\ F["GlobalSymbol"] = e
    BY <1>6, <2>1
  <2>3. F = [Reference |-> F["Reference"], ReferenceIndex |-> F["ReferenceIndex"],
             Symbol |-> F["Symbol"], SymbolTypeIndex |-> F["SymbolTypeIndex"],
             GlobalSymbol |-> F["GlobalSymbol"]]
    BY <2>1
  <2>4. Published' = F
    BY <1>4, <1>7, <2>1
  <2> QED
    BY <2>2, <2>3, <2>4
<1> QED
  BY <1>1, <1>2, <1>5, <1>8 DEF Promise!Publish

LEMMA OccurSees ==
    ASSUME NEW o \in Occurrence, NEW d
    PROVE  Occur(o, d) => \E x \in Occurrence : Promise!See(x)
<1> SUFFICES ASSUME Occur(o, d) PROVE Promise!See(o)
  OBVIOUS
<1>1. phase = "index" /\ phase' = "index" /\ seen' = seen \cup {o}
  BY DEF Occur
<1>2. Published = <<>> /\ Published' = <<>>
  BY <1>1 DEF Published
<1> QED
  BY <1>1, <1>2 DEF Promise!See

LEMMA OthersStutter ==
    FinishUnit \/ (\E entry \in archives : MergeEntry(entry)) \/ FinalizeMerged \/ Populate
    \/ FinalizeAndWrite \/ UNCHANGED vars => UNCHANGED Promise!factVars
<1> SUFFICES ASSUME FinishUnit \/ (\E entry \in archives : MergeEntry(entry)) \/ FinalizeMerged
                    \/ Populate \/ FinalizeAndWrite \/ UNCHANGED vars
             PROVE  Published' = Published /\ seen' = seen
  BY DEF Promise!factVars
<1>1. CASE UNCHANGED vars
  BY <1>1 DEF vars, Published
<1>2. CASE FinishUnit
  <2>1. phase = "index" /\ phase' = "index" /\ seen' = seen
    BY <1>2, Zenon DEF FinishUnit
  <2> QED
    BY <2>1 DEF Published
<1>3. CASE \E entry \in archives : MergeEntry(entry)
  <2>1. phase = "index" /\ phase' = "index" /\ seen' = seen
    BY <1>3, Zenon DEF MergeEntry
  <2> QED
    BY <2>1 DEF Published
<1>4. CASE FinalizeMerged
  <2>1. phase = "index" /\ phase' = "finalized" /\ seen' = seen
    BY <1>4, Zenon DEF FinalizeMerged, Advance
  <2> QED
    BY <2>1 DEF Published
<1>5. CASE Populate
  <2>1. phase = "finalized" /\ phase' = "populated" /\ seen' = seen
    BY <1>5, Zenon DEF Populate, Advance
  <2> QED
    BY <2>1 DEF Published
<1>6. CASE FinalizeAndWrite
  <2>1. phase = "populated" /\ phase' = "written" /\ seen' = seen
    BY <1>6, Zenon DEF FinalizeAndWrite, Advance
  <2> QED
    BY <2>1 DEF Published
<1> QED
  BY <1>1, <1>2, <1>3, <1>4, <1>5, <1>6

(* The finished index says what was seen, all of it and nothing else.      *)
THEOREM BuildImplementsPromise == Spec => FactIndexSpec
<1>1. Init => Promise!FactIndexInit
  <2> SUFFICES ASSUME Init PROVE Promise!FactIndexInit
    OBVIOUS
  <2>1. phase = "index" /\ seen = {}
    BY Zenon DEF Init
  <2> QED
    BY <2>1 DEF Promise!FactIndexInit, Published
<1>2. BuildInv /\ [Next]_vars => [Promise!FactIndexNext]_(Promise!factVars)
  <2> SUFFICES ASSUME BuildInv, [Next]_vars
               PROVE  Promise!FactIndexNext \/ UNCHANGED Promise!factVars
    OBVIOUS
  <2>1. ASSUME NEW o \in Occurrence, NEW d, Occur(o, d) PROVE Promise!FactIndexNext
    BY <2>1, OccurSees DEF Promise!FactIndexNext
  <2>2. CASE Include \/ MacroNamed \/ DeclNamed
    <3>1. \E o \in Occurrence : \E d : Occur(o, d)
      BY <2>2, Zenon DEF Include, MacroNamed, DeclNamed
    <3> QED
      BY <2>1, <3>1
  <2>3. CASE OpenProject
    BY <2>3, OpenPublishes DEF Promise!FactIndexNext
  <2>4. CASE FinishUnit \/ (\E entry \in archives : MergeEntry(entry)) \/ FinalizeMerged
             \/ Populate \/ FinalizeAndWrite \/ UNCHANGED vars
    BY <2>4, OthersStutter
  <2> QED
    BY <2>2, <2>3, <2>4, Zenon DEF Next
<1> QED
  BY <1>1, <1>2, BuildInvariant, PTL DEF Spec, FactIndexSpec, Promise!FactIndexSpec

-----------------------------------------------------------------------------
(* The walk of queryGlobalSymbolDefinitions.                               *)
NeverFalls(n, f) == \A i, j \in 1..n : i <= j => f[i] <= f[j]

IsNext(k, n, g, git, symbol) ==
    /\ k \in git..(n + 1)
    /\ \A j \in git..(k - 1) : g[j] < symbol
    /\ k <= n => symbol <= g[k]

LEMMA NextGlobalFacts ==
    ASSUME NEW n \in Nat, NEW g \in [1..n -> Nat], NEW globals, Len(globals) = n,
           \A j \in 1..n : globals[j][1] = g[j],
           NEW git \in 1..(n + 1), NEW symbol \in Nat
    PROVE  IsNext(NextGlobal(globals, git, symbol), n, g, git, symbol)
<1> DEFINE T == {i \in 1..(n + 1) : git <= i /\ (i <= n => symbol <= g[i])}
           Fit(k) == /\ \A j \in git..(k - 1) : symbol > globals[j][1]
                     /\ k <= Len(globals) => symbol <= globals[k][1]
<1>1. n + 1 \in T
  OBVIOUS
<1>2. T \in SUBSET Nat
  OBVIOUS
<1>3. PICK k \in T : \A i \in T : k <= i
  <2> HIDE DEF T
  <2> QED
    BY <1>1, <1>2, Least
<1>4. k \in 1..(n + 1) /\ git <= k /\ (k <= n => symbol <= g[k])
  OBVIOUS
<1>5. ASSUME NEW j \in git..(k - 1)
      PROVE  symbol > globals[j][1]
  <2>1. j \in 1..n /\ j < k
    BY <1>4
  <2>2. j \notin T
    BY <1>3, <1>4, <2>1
  <2>3. ~(symbol <= g[j])
    BY <1>5, <2>1, <2>2
  <2>4. g[j] \in Nat /\ globals[j][1] = g[j]
    BY <2>1
  <2> QED
    BY <2>3, <2>4
<1>6. k <= Len(globals) => symbol <= globals[k][1]
  BY <1>4
<1>7. k \in git..(Len(globals) + 1) /\ Fit(k)
  BY <1>4, <1>5, <1>6
<1>8. PICK c : c = NextGlobal(globals, git, symbol)
  OBVIOUS
<1>9. c = CHOOSE i \in git..(Len(globals) + 1) : Fit(i)
  BY <1>8 DEF NextGlobal
<1> HIDE DEF Fit
<1>10. c \in git..(Len(globals) + 1) /\ Fit(c)
  BY <1>7, <1>9
<1>11. \A j \in git..(c - 1) : g[j] < symbol
  <2> SUFFICES ASSUME NEW j \in git..(c - 1) PROVE g[j] < symbol
    OBVIOUS
  <2>1. j \in 1..n
    BY <1>10
  <2>2. symbol > globals[j][1]
    BY <1>10 DEF Fit
  <2>3. g[j] \in Nat /\ globals[j][1] = g[j]
    BY <2>1
  <2> QED
    BY <2>2, <2>3
<1>12. c <= n => symbol <= g[c]
  BY <1>10 DEF Fit
<1> QED
  BY <1>8, <1>10, <1>11, <1>12 DEF IsNext

(* One row of the walk. *)
WalkStep(globals, kind, found, row) ==
    IF found.git > Len(globals) \/ row[2] # kind THEN found
    ELSE [git  |-> NextGlobal(globals, found.git, row[1]),
          refs |-> IF /\ NextGlobal(globals, found.git, row[1]) <= Len(globals)
                      /\ row[1] = globals[NextGlobal(globals, found.git, row[1])][1]
                   THEN Append(found.refs, row) ELSE found.refs]

NotYet == [git |-> 1, refs |-> <<>>]

(* Of the first i rows, those that the list should have. *)
Hits(i, rows, kind, m, g) ==
    {rows[k] : k \in {l \in 1..i : rows[l][2] = kind /\ \E j \in 1..m : rows[l][1] = g[j]}}

(* What has been found after i of n rows. *)
Walked(i, n, rows, kind, m, g, found) ==
    /\ found = [git |-> found.git, refs |-> found.refs]
    /\ found.git \in 1..(m + 1)
    /\ found.refs \in Seq(Hits(n, rows, kind, m, g))
    /\ {found.refs[k] : k \in 1..Len(found.refs)} = Hits(i, rows, kind, m, g)
    /\ \A j \in 1..(found.git - 1) : \A k \in (i + 1)..n : g[j] < rows[k][1]

IsHit(row, kind, m, g) == row[2] = kind /\ \E j \in 1..m : row[1] = g[j]

LEMMA HitsMore ==
    ASSUME NEW i \in Nat, NEW rows, NEW kind, NEW m, NEW g
    PROVE  /\ IsHit(rows[i + 1], kind, m, g) =>
                 Hits(i + 1, rows, kind, m, g) = Hits(i, rows, kind, m, g) \cup {rows[i + 1]}
           /\ ~IsHit(rows[i + 1], kind, m, g) =>
                 Hits(i + 1, rows, kind, m, g) = Hits(i, rows, kind, m, g)
<1> DEFINE Good(l) == rows[l][2] = kind /\ \E j \in 1..m : rows[l][1] = g[j]
           A(k) == {l \in 1..k : Good(l)}
<1>1. \A k : Hits(k, rows, kind, m, g) = {rows[l] : l \in A(k)}
  BY DEF Hits
<1>2. \A l \in 1..(i + 1) : l = i + 1 \/ l \in 1..i
  OBVIOUS
<1>3. \A l \in 1..i : l \in 1..(i + 1)
  OBVIOUS
<1>4. i + 1 \in 1..(i + 1)
  OBVIOUS
<1> HIDE DEF Good
<1>5. Good(i + 1) => A(i + 1) = A(i) \cup {i + 1}
  BY <1>2, <1>3, <1>4
<1>6. ~Good(i + 1) => A(i + 1) = A(i)
  BY <1>2, <1>3
<1> HIDE DEF A
<1>7. Good(i + 1) => {rows[l] : l \in A(i + 1)} = {rows[l] : l \in A(i)} \cup {rows[i + 1]}
  BY <1>5
<1>8. ~Good(i + 1) => {rows[l] : l \in A(i + 1)} = {rows[l] : l \in A(i)}
  BY <1>6
<1> QED
  BY <1>1, <1>7, <1>8 DEF Good, IsHit

LEMMA AppendedSet ==
    ASSUME NEW X, NEW s \in Seq(X), NEW x \in X
    PROVE  /\ Append(s, x) \in Seq(X)
           /\ {Append(s, x)[k] : k \in 1..Len(Append(s, x))} = {s[k] : k \in 1..Len(s)} \cup {x}
<1>1. PICK t : t = Append(s, x)
  OBVIOUS
<1>2. PICK n \in Nat : n = Len(s)
  OBVIOUS
<1>3. t \in Seq(X) /\ Len(t) = n + 1 /\ t[n + 1] = x /\ \A k \in 1..n : t[k] = s[k]
  BY <1>1, <1>2
<1>4. \A k \in 1..(n + 1) : k = n + 1 \/ k \in 1..n
  OBVIOUS
<1>5. n + 1 \in 1..(n + 1) /\ \A k \in 1..n : k \in 1..(n + 1)
  OBVIOUS
<1>6. {t[k] : k \in 1..(n + 1)} = {s[k] : k \in 1..n} \cup {x}
  BY <1>3, <1>4, <1>5
<1> QED
  BY <1>1, <1>2, <1>3, <1>6

(* Both tables ascend by symbol. *)
Walkable(n, rows, key, m, globals, g) ==
    /\ n \in Nat /\ key \in [1..n -> Nat] /\ NeverFalls(n, key)
    /\ \A i \in 1..n : rows[i][1] = key[i]
    /\ m \in Nat /\ g \in [1..m -> Nat] /\ NeverFalls(m, g)
    /\ Len(globals) = m /\ \A j \in 1..m : globals[j][1] = g[j]

LEMMA HitsAmong ==
    ASSUME NEW n \in Nat, NEW i \in 0..n, NEW rows, NEW kind, NEW m, NEW g
    PROVE  Hits(i, rows, kind, m, g) \subseteq Hits(n, rows, kind, m, g)
<1>1. \A l \in 1..i : l \in 1..n
  OBVIOUS
<1> QED
  BY <1>1 DEF Hits

(* A row that is no hit leaves what was found. *)
LEMMA WalkOn ==
    ASSUME NEW n \in Nat, NEW i \in 0..(n - 1), NEW rows, NEW kind, NEW m, NEW g, NEW found,
           Walked(i, n, rows, kind, m, g, found),
           ~IsHit(rows[i + 1], kind, m, g)
    PROVE  Walked(i + 1, n, rows, kind, m, g, found)
<1>1. Hits(i + 1, rows, kind, m, g) = Hits(i, rows, kind, m, g)
  BY HitsMore
<1>2. \A k \in (i + 1 + 1)..n : k \in (i + 1)..n
  OBVIOUS
<1> QED
  BY <1>1, <1>2 DEF Walked

LEMMA WalkStepWalks ==
    ASSUME NEW n, NEW rows, NEW key, NEW m, NEW globals, NEW g, NEW kind,
           Walkable(n, rows, key, m, globals, g),
           NEW i \in 0..(n - 1), NEW found, Walked(i, n, rows, kind, m, g, found)
    PROVE  Walked(i + 1, n, rows, kind, m, g, WalkStep(globals, kind, found, rows[i + 1]))
<1>1. /\ n \in Nat /\ key \in [1..n -> Nat] /\ NeverFalls(n, key)
      /\ \A k \in 1..n : rows[k][1] = key[k]
      /\ m \in Nat /\ g \in [1..m -> Nat] /\ NeverFalls(m, g)
      /\ Len(globals) = m /\ \A j \in 1..m : globals[j][1] = g[j]
  BY DEF Walkable
<1>2. PICK h \in 1..n : h = i + 1
  BY <1>1
<1>3. PICK row, x : row = rows[h] /\ x = key[h]
  OBVIOUS
<1>4. row[1] = x /\ x \in Nat
  BY <1>1, <1>3
<1>5. PICK a, refs : a = found.git /\ refs = found.refs
  OBVIOUS
<1>6. /\ found = [git |-> a, refs |-> refs] /\ a \in 1..(m + 1)
      /\ refs \in Seq(Hits(n, rows, kind, m, g))
      /\ {refs[k] : k \in 1..Len(refs)} = Hits(i, rows, kind, m, g)
      /\ \A j \in 1..(a - 1) : \A k \in (i + 1)..n : g[j] < rows[k][1]
  BY <1>5 DEF Walked
<1>7. \A j \in 1..(a - 1) : g[j] < x
  BY <1>2, <1>3, <1>4, <1>6
<1>8. CASE a > m \/ row[2] # kind
  <2>1. WalkStep(globals, kind, found, row) = found
    BY <1>1, <1>5, <1>8 DEF WalkStep
  <2>2. ~(row[2] = kind /\ \E j \in 1..m : row[1] = g[j])
    <3> SUFFICES ASSUME row[2] = kind, NEW j \in 1..m, row[1] = g[j] PROVE FALSE
      OBVIOUS
    <3>1. a > m
      BY <1>8
    <3>2. j \in 1..(a - 1)
      BY <1>1, <1>6, <3>1
    <3>3. g[j] < x
      BY <1>7, <3>2
    <3> QED
      BY <1>4, <3>3
  <2>3. Walked(h, n, rows, kind, m, g, found)
    <3>1. ~IsHit(rows[i + 1], kind, m, g)
      BY <1>2, <1>3, <2>2 DEF IsHit
    <3>2. Walked(i + 1, n, rows, kind, m, g, found)
      BY <1>1, <3>1, WalkOn
    <3> QED
      BY <1>2, <3>2
  <2> QED
    BY <1>2, <1>3, <2>1, <2>3
<1>9. CASE a <= m /\ row[2] = kind
  <2>1. PICK b : b = NextGlobal(globals, a, x)
    OBVIOUS
  <2>2. IsNext(b, m, g, a, x)
    BY <1>1, <1>4, <1>6, <2>1, NextGlobalFacts
  <2>3. /\ b \in a..(m + 1) /\ \A j \in a..(b - 1) : g[j] < x
        /\ b <= m => x <= g[b]
    BY <2>2 DEF IsNext
  <2>4. b \in 1..(m + 1)
    BY <1>1, <1>6, <2>3
  <2>5. \A j \in 1..(b - 1) : g[j] < x
    <3>1. \A j \in 1..(b - 1) : j \in 1..(a - 1) \/ j \in a..(b - 1)
      BY <1>6, <2>3
    <3> QED
      BY <1>7, <2>3, <3>1
  <2>6. \A j \in 1..(b - 1) : \A k \in (h + 1)..n : g[j] < rows[k][1]
    <3> SUFFICES ASSUME NEW j \in 1..(b - 1), NEW k \in (h + 1)..n PROVE g[j] < rows[k][1]
      OBVIOUS
    <3>1. k \in 1..n /\ h <= k
      BY <1>1, <1>2
    <3>2. key[h] <= key[k]
      BY <1>1, <3>1 DEF NeverFalls
    <3>3. rows[k][1] = key[k] /\ key[k] \in Nat
      BY <1>1, <3>1
    <3>4. g[j] < x
      BY <2>5
    <3>5. j \in 1..m /\ g[j] \in Nat
      BY <1>1, <2>4
    <3> QED
      BY <1>3, <1>4, <3>2, <3>3, <3>4, <3>5
  <2>7. a \in Nat /\ ~(a > m)
    BY <1>1, <1>6, <1>9
  <2>8. WalkStep(globals, kind, found, row) =
          [git |-> b, refs |-> IF b <= m /\ x = globals[b][1] THEN Append(refs, row) ELSE refs]
    BY <1>1, <1>4, <1>5, <1>9, <2>1, <2>7 DEF WalkStep
  <2>9. CASE b <= m /\ x = g[b]
    <3>1. b \in 1..m
      BY <2>4, <2>9
    <3>2. globals[b][1] = g[b]
      BY <1>1, <3>1
    <3>3. row[2] = kind /\ \E j \in 1..m : row[1] = g[j]
      BY <1>4, <1>9, <2>9, <3>1
    <3>4. Hits(h, rows, kind, m, g) = Hits(i, rows, kind, m, g) \cup {row}
      <4>1. i \in Nat
        BY <1>1
      <4>2. IsHit(rows[i + 1], kind, m, g)
        BY <1>2, <1>3, <3>3 DEF IsHit
      <4>3. Hits(i + 1, rows, kind, m, g) = Hits(i, rows, kind, m, g) \cup {rows[i + 1]}
        BY <4>1, <4>2, HitsMore
      <4> QED
        BY <1>2, <1>3, <4>3
    <3>5. row \in Hits(n, rows, kind, m, g)
      BY <1>2, <1>3, <3>3 DEF Hits
    <3>6. PICK more : more = Append(refs, row)
      OBVIOUS
    <3>7. /\ more \in Seq(Hits(n, rows, kind, m, g))
          /\ {more[k] : k \in 1..Len(more)} = Hits(h, rows, kind, m, g)
      BY <1>6, <3>4, <3>5, <3>6, AppendedSet
    <3>8. PICK now : now = [git |-> b, refs |-> more]
      OBVIOUS
    <3>9. WalkStep(globals, kind, found, row) = now
      BY <2>8, <2>9, <3>2, <3>6, <3>8
    <3>10. Walked(h, n, rows, kind, m, g, now)
      BY <2>4, <2>6, <3>7, <3>8 DEF Walked
    <3> QED
      BY <1>2, <1>3, <3>9, <3>10
  <2>10. CASE ~(b <= m /\ x = g[b])
    <3>1. ~\E j \in 1..m : row[1] = g[j]
      <4> SUFFICES ASSUME NEW j \in 1..m, x = g[j] PROVE FALSE
        BY <1>4
      <4>1. ~(j \in 1..(b - 1))
        BY <1>4, <2>5
      <4>2. b \in 1..m /\ b <= j
        BY <1>1, <2>4, <4>1
      <4>3. g[b] <= g[j] /\ x <= g[b] /\ g[b] \in Nat
        BY <1>1, <2>3, <4>2 DEF NeverFalls
      <4>4. x = g[b]
        BY <1>4, <4>3
      <4> QED
        BY <2>10, <4>2, <4>4
    <3>2. ~(b <= m /\ x = globals[b][1])
      BY <1>1, <2>4, <2>10
    <3>3. PICK now : now = [git |-> b, refs |-> refs]
      OBVIOUS
    <3>4. WalkStep(globals, kind, found, row) = now
      BY <2>8, <3>2, <3>3
    <3>5. Hits(h, rows, kind, m, g) = Hits(i, rows, kind, m, g)
      <4>1. ~IsHit(rows[i + 1], kind, m, g)
        BY <1>2, <1>3, <3>1 DEF IsHit
      <4>2. i \in Nat
        BY <1>1
      <4>3. Hits(i + 1, rows, kind, m, g) = Hits(i, rows, kind, m, g)
        BY <4>1, <4>2, HitsMore
      <4> QED
        BY <1>2, <1>3, <4>3
    <3>6. Walked(h, n, rows, kind, m, g, now)
      BY <1>6, <2>4, <2>6, <3>3, <3>5 DEF Walked
    <3> QED
      BY <1>2, <1>3, <3>4, <3>6
  <2> QED
    BY <2>9, <2>10
<1> QED
  BY <1>1, <1>6, <1>8, <1>9

(* Some of the rows have been found.                                       *)
Walks(n, rows, m) == [git : 1..(m + 1), refs : Seq({rows[i] : i \in 1..n})]

LEMMA WalkStepType ==
    ASSUME NEW n, NEW rows, NEW key, NEW m, NEW globals, NEW g, NEW kind,
           Walkable(n, rows, key, m, globals, g),
           NEW i \in 1..n, NEW found \in Walks(n, rows, m)
    PROVE  WalkStep(globals, kind, found, rows[i]) \in Walks(n, rows, m)
<1>1. /\ n \in Nat /\ key \in [1..n -> Nat] /\ rows[i][1] = key[i]
      /\ m \in Nat /\ g \in [1..m -> Nat]
      /\ Len(globals) = m /\ \A j \in 1..m : globals[j][1] = g[j]
  BY DEF Walkable
<1>2. PICK row, S : row = rows[i] /\ S = {rows[k] : k \in 1..n}
  OBVIOUS
<1>3. row \in S /\ row[1] \in Nat
  BY <1>1, <1>2
<1>4. PICK a, refs : a = found.git /\ refs = found.refs
  OBVIOUS
<1>5. a \in 1..(m + 1) /\ refs \in Seq(S)
  BY <1>2, <1>4 DEF Walks
<1>6. CASE a > m \/ row[2] # kind
  <2>1. WalkStep(globals, kind, found, row) = found
    BY <1>1, <1>4, <1>6 DEF WalkStep
  <2> QED
    BY <1>2, <2>1
<1>7. CASE ~(a > m \/ row[2] # kind)
  <2>1. PICK b : b = NextGlobal(globals, a, row[1])
    OBVIOUS
  <2>2. IsNext(b, m, g, a, row[1])
    BY <1>1, <1>3, <1>5, <2>1, NextGlobalFacts
  <2>3. b \in 1..(m + 1)
    BY <1>1, <1>5, <2>2 DEF IsNext
  <2>4. PICK more : more = IF b <= m /\ row[1] = globals[b][1] THEN Append(refs, row) ELSE refs
    OBVIOUS
  <2>5. more \in Seq(S)
    BY <1>3, <1>5, <2>4, AppendedSet
  <2>6. WalkStep(globals, kind, found, row) = [git |-> b, refs |-> more]
    BY <1>1, <1>4, <1>7, <2>1, <2>4 DEF WalkStep
  <2> QED
    BY <1>2, <2>3, <2>5, <2>6 DEF Walks
<1> QED
  BY <1>6, <1>7

(* The list of queryGlobalSymbolDefinitions.                               *)
LEMMA Walking ==
    ASSUME NEW ix, NEW rows, NEW globals, NEW kind, NEW n, NEW key, NEW m, NEW g,
           rows = ix.rows["ReferenceIndex"], globals = ix.rows["GlobalSymbol"],
           kind = Id(ix.strings["ReferenceType"], Definition), n = Len(rows),
           Walkable(n, rows, key, m, globals, g),
           NEW q, q = QueryGlobalSymbolDefinitions(ix)
    PROVE  ToSet(q) = Hits(n, rows, kind, m, g)
<1>1. n \in Nat /\ m \in Nat
  BY DEF Walkable
<1>2. PICK V : V = Walks(n, rows, m)
  OBVIOUS
<1>3. PICK G : G = [i \in 1..n |-> [f \in V |-> WalkStep(globals, kind, f, rows[i])]]
  OBVIOUS
<1>4. G \in [1..n -> [V -> V]]
  <2>1. ASSUME NEW i \in 1..n, NEW f \in V PROVE WalkStep(globals, kind, f, rows[i]) \in V
    BY <1>2, WalkStepType
  <2> QED
    BY <1>3, <2>1
<1>5. NotYet \in V
  BY <1>1, <1>2 DEF NotYet, Walks
<1>6. Counts(n, V, NotYet, G)
  BY <1>1, <1>4, <1>5, Counting
<1>7. PICK f \in [0..n -> V] : f[0] = NotYet /\ \A i \in 1..n : f[i] = G[i][f[i - 1]]
  BY <1>6 DEF Counts
<1>8. ASSUME NEW i \in 1..n PROVE f[i] = WalkStep(globals, kind, f[i - 1], rows[i])
  <2>1. PICK h \in 0..n : h = i - 1
    BY <1>1
  <2>2. PICK v \in V : v = f[h]
    BY <1>7
  <2>3. G[i][v] = WalkStep(globals, kind, v, rows[i])
    BY <1>3
  <2> QED
    BY <1>7, <2>1, <2>2, <2>3
<1> DEFINE IsF(h) == h = [i \in 0..n |-> IF i = 0 THEN NotYet
                                         ELSE WalkStep(globals, kind, h[i - 1], rows[i])]
           Goes(h) ==
               h = [i \in 0..Len(ix.rows["ReferenceIndex"]) |->
                       IF i = 0 THEN NotYet
                       ELSE WalkStep(ix.rows["GlobalSymbol"],
                                     Id(ix.strings["ReferenceType"], Definition), h[i - 1],
                                     ix.rows["ReferenceIndex"][i])]
           F == CHOOSE h : Goes(h)
<1>9. IsF(f)
  <2>1. \A i \in 0..n : i = 0 \/ i \in 1..n
    BY <1>1
  <2>2. \A i \in 0..n : f[i] = IF i = 0 THEN NotYet
                               ELSE WalkStep(globals, kind, f[i - 1], rows[i])
    BY <1>7, <1>8, <2>1
  <2>3. f = [i \in 0..n |-> f[i]]
    BY <1>7
  <2> QED
    BY <2>2, <2>3
<1>10. IsF(F)
  <2>1. Goes(f)
    BY <1>9
  <2>2. Goes(F)
    <3> HIDE DEF Goes
    <3> QED
      BY <2>1
  <2> QED
    BY <2>2
<1>11. q = F[n].refs
  <2>1. QueryGlobalSymbolDefinitions(ix) = F[Len(ix.rows["ReferenceIndex"])].refs
    BY DEF QueryGlobalSymbolDefinitions, WalkStep, NotYet
  <2> QED
    <3> HIDE DEF F
    <3> QED
      BY <2>1
<1> HIDE DEF F
<1> DEFINE P(k) == Walked(k, n, rows, kind, m, g, F[k])
           T == {k \in Nat : k \in 0..n => P(k)}
<1>12. 0 \in T
  <2>1. F[0] = NotYet
    BY <1>1, <1>10
  <2>2. Hits(0, rows, kind, m, g) = {}
    BY DEF Hits
  <2>3. Walked(0, n, rows, kind, m, g, NotYet)
    BY <1>1, <2>2 DEF Walked, NotYet
  <2> QED
    BY <2>1, <2>3
<1>13. ASSUME NEW k \in Nat, k \in T PROVE k + 1 \in T
  <2> SUFFICES ASSUME k + 1 \in 1..n PROVE P(k + 1)
    BY <1>13
  <2>1. k \in 0..(n - 1) /\ k \in 0..n /\ k + 1 \in 0..n
    BY <1>1
  <2>2. Walked(k, n, rows, kind, m, g, F[k])
    BY <1>13, <2>1
  <2>3. F[k + 1] = WalkStep(globals, kind, F[k], rows[k + 1])
    <3>1. PICK h : h = k + 1
      OBVIOUS
    <3>2. h \in 0..n /\ h # 0 /\ h - 1 = k
      BY <2>1, <3>1
    <3>3. F[h] = WalkStep(globals, kind, F[h - 1], rows[h])
      BY <1>10, <3>2
    <3> QED
      BY <3>1, <3>2, <3>3
  <2>4. Walked(k + 1, n, rows, kind, m, g, WalkStep(globals, kind, F[k], rows[k + 1]))
    BY <2>1, <2>2, WalkStepWalks
  <2> QED
    BY <2>3, <2>4
<1>14. T = Nat
  <2> HIDE DEF T
  <2>1. T \in SUBSET Nat
    BY DEF T
  <2> QED
    BY <1>12, <1>13, <2>1, Induct
<1>15. Walked(n, n, rows, kind, m, g, F[n])
  <2>1. n \in T /\ n \in 0..n
    BY <1>1, <1>14
  <2> QED
    BY <2>1
<1>16. q \in Seq(Hits(n, rows, kind, m, g)) /\
       {q[k] : k \in 1..Len(q)} = Hits(n, rows, kind, m, g)
  BY <1>11, <1>15 DEF Walked
<1>17. DOMAIN q = 1..Len(q)
  BY <1>16, SeqDomain
<1> QED
  BY <1>16, <1>17 DEF ToSet

-----------------------------------------------------------------------------
(* The tables of the index that is open.                                   *)
LEMMA OpenedIndex ==
    ASSUME BuildInv, phase = "opened", NEW ix, ix = m_index
    PROVE  WellFormed(ix, Tables) /\ Complete(ix) /\ \A t \in Tables : RowsUp(ix.rows[t])
<1>1. PICK jx : jx = mergedIndex
  OBVIOUS
<1>2. WellFormed(jx, Tables) /\ Complete(jx)
  BY <1>1, MergedSays
<1>3. ix = Frozen(jx)
  BY <1>1 DEF BuildInv, Opened
<1>4. \A t \in Tables : RowsUp(jx.rows[t])
  BY <1>1 DEF BuildInv, IsMerged, IsFinal
<1>5. WellFormed(ix, Tables) /\ ix.rows = jx.rows
  BY <1>2, <1>3, FrozenFacts
<1> QED
  BY <1>2, <1>3, <1>4, <1>5, FrozenSays

(* What a row of ReferenceIndex says of an occurrence.                     *)
RowTells(sym, kinds, row, o) ==
    /\ sym[row[1]] = NameOf[o.symbol] /\ kinds[row[2]] = o.refType
    /\ sym[row[3]] = PathOf[o.file] /\ row[4] = o.line /\ row[5] = o.column
    /\ row[6] = Promise!EndColumn(o)

LEMMA ReferenceRowTells ==
    ASSUME NEW ss, NEW row, NEW o
    PROVE  Decoded(ss, "ReferenceIndex", row)
              = <<NameOf[o.symbol], o.refType, PathOf[o.file], o.line, o.column,
                  Promise!EndColumn(o)>>
           <=> RowTells(ss["Symbol"], ss["ReferenceType"], row, o)
<1>1. PICK a, b, c, d, e, f : /\ a = NameOf[o.symbol] /\ b = o.refType /\ c = PathOf[o.file]
                              /\ d = o.line /\ e = o.column /\ f = Promise!EndColumn(o)
  OBVIOUS
<1>2. PICK s : s = Schema["ReferenceIndex"]
  OBVIOUS
<1>3. /\ s[1] = "Symbol" /\ s[2] = "ReferenceType" /\ s[3] = "Symbol" /\ s[4] = ""
      /\ s[5] = "" /\ s[6] = ""
  BY <1>2 DEF Schema
<1>4. PICK x : x = [i \in 1..6 |-> IF s[i] = "" THEN row[i] ELSE ss[s[i]][row[i]]]
  OBVIOUS
<1>5. Decoded(ss, "ReferenceIndex", row) = x
  BY <1>2, <1>4, Widths DEF Decoded
<1>6. /\ x[1] = ss["Symbol"][row[1]] /\ x[2] = ss["ReferenceType"][row[2]]
      /\ x[3] = ss["Symbol"][row[3]]
  <2>1. \A i \in 1..6 : s[i] # "" => x[i] = ss[s[i]][row[i]]
    BY <1>4
  <2>2. 1 \in 1..6 /\ 2 \in 1..6 /\ 3 \in 1..6 /\ s[1] # "" /\ s[2] # "" /\ s[3] # ""
    <3>1. "Symbol" # "" /\ "ReferenceType" # ""
      OBVIOUS
    <3>2. 1 \in 1..6 /\ 2 \in 1..6 /\ 3 \in 1..6
      OBVIOUS
    <3> QED
      BY <1>3, <3>1, <3>2
  <2>3. x[1] = ss[s[1]][row[1]] /\ x[2] = ss[s[2]][row[2]] /\ x[3] = ss[s[3]][row[3]]
    BY <2>1, <2>2
  <2> QED
    BY <1>3, <2>3
<1>7. x[4] = row[4] /\ x[5] = row[5] /\ x[6] = row[6]
  <2>1. \A i \in 1..6 : s[i] = "" => x[i] = row[i]
    BY <1>4
  <2>2. 4 \in 1..6 /\ 5 \in 1..6 /\ 6 \in 1..6
    OBVIOUS
  <2>3. s[4] = "" /\ s[5] = "" /\ s[6] = ""
    BY <1>3
  <2> QED
    BY <2>1, <2>2, <2>3
<1>8. PICK y : y = <<a, b, c, d, e, f>>
  OBVIOUS
<1>9. /\ y = [i \in 1..6 |-> y[i]] /\ y[1] = a /\ y[2] = b /\ y[3] = c /\ y[4] = d
      /\ y[5] = e /\ y[6] = f
  BY <1>8
<1>10. x = [i \in 1..6 |-> x[i]]
  BY <1>4
<1>11. \A i \in 1..6 : i = 1 \/ i = 2 \/ i = 3 \/ i = 4 \/ i = 5 \/ i = 6
  OBVIOUS
<1>12. 1 \in 1..6 /\ 2 \in 1..6 /\ 3 \in 1..6 /\ 4 \in 1..6 /\ 5 \in 1..6 /\ 6 \in 1..6
  OBVIOUS
<1>13. x = y <=> \A i \in 1..6 : x[i] = y[i]
  BY <1>9, <1>10
<1>14. (\A i \in 1..6 : x[i] = y[i]) <=> /\ x[1] = a /\ x[2] = b /\ x[3] = c /\ x[4] = d
                                         /\ x[5] = e /\ x[6] = f
  BY <1>9, <1>11, <1>12
<1>15. RowTells(ss["Symbol"], ss["ReferenceType"], row, o)
          <=> /\ x[1] = a /\ x[2] = b /\ x[3] = c /\ x[4] = d /\ x[5] = e /\ x[6] = f
  BY <1>1, <1>6, <1>7 DEF RowTells
<1> QED
  BY <1>1, <1>5, <1>8, <1>13, <1>14, <1>15

(* The rows and the occurrences in S say the same, and no two rows do.     *)
Listing(n, rows, sym, kinds, S) ==
    /\ n \in Nat /\ Len(sym) \in Nat /\ Len(kinds) \in Nat
    /\ DOMAIN sym = 1..Len(sym) /\ OneToOne(Len(sym), sym)
    /\ DOMAIN kinds = 1..Len(kinds) /\ OneToOne(Len(kinds), kinds)
    /\ \A i \in 1..n : /\ rows[i][1] \in 1..Len(sym) /\ rows[i][2] \in 1..Len(kinds)
                       /\ rows[i][3] \in 1..Len(sym)
    /\ \A i, j \in 1..n : (\A c \in 1..6 : rows[i][c] = rows[j][c]) => i = j
    /\ \A i \in 1..n : \E o \in S : RowTells(sym, kinds, rows[i], o)
    /\ \A o \in S : \E i \in 1..n : RowTells(sym, kinds, rows[i], o)

LEMMA OpenedListing ==
    ASSUME NEW ix, WellFormed(ix, Tables), Complete(ix), NEW rows, NEW ss,
           rows = ix.rows["ReferenceIndex"], ss = ix.strings
    PROVE  Listing(Len(rows), rows, ss["Symbol"], ss["ReferenceType"], seen)
<1>1. "ReferenceIndex" \in Tables /\ Width("ReferenceIndex") = 6
  BY Widths DEF Tables
<1>2. AreStrings(ss) /\ AreRows(ss, "ReferenceIndex", rows) /\ "ReferenceIndex" \in DOMAIN ix.rows
  BY <1>1 DEF WellFormed
<1>3. PICK n : n = Len(rows)
  OBVIOUS
<1>4. PICK sym, kinds : sym = ss["Symbol"] /\ kinds = ss["ReferenceType"]
  OBVIOUS
<1>5. "Symbol" \in Names /\ "ReferenceType" \in Names
  BY DEF Names
<1>6. /\ sym \in Seq(Nat) /\ kinds \in Seq(Nat)
      /\ OneToOne(Len(sym), sym) /\ OneToOne(Len(kinds), kinds)
  BY <1>2, <1>4, <1>5 DEF AreStrings
<1>7. /\ Len(sym) \in Nat /\ Len(kinds) \in Nat
      /\ DOMAIN sym = 1..Len(sym) /\ DOMAIN kinds = 1..Len(kinds)
  BY <1>6, SeqDomain
<1>8. /\ rows \in Seq(Row(6)) /\ OneToOne(n, rows) /\ n \in Nat
      /\ \A i \in 1..n : InRange(ss, "ReferenceIndex", rows[i])
  BY <1>1, <1>2, <1>3 DEF AreRows
<1>9. ASSUME NEW i \in 1..n
      PROVE  /\ rows[i][1] \in 1..Len(sym) /\ rows[i][2] \in 1..Len(kinds)
             /\ rows[i][3] \in 1..Len(sym)
  <2>1. PICK s : s = Schema["ReferenceIndex"]
    OBVIOUS
  <2>2. s[1] = "Symbol" /\ s[2] = "ReferenceType" /\ s[3] = "Symbol"
    BY <2>1 DEF Schema
  <2>3. \A c \in 1..6 : s[c] # "" => rows[i][c] \in 1..Len(ss[s[c]])
    BY <1>1, <1>8, <2>1 DEF InRange
  <2>4. 1 \in 1..6 /\ 2 \in 1..6 /\ 3 \in 1..6
    OBVIOUS
  <2> QED
    BY <1>4, <2>2, <2>3, <2>4
<1>10. ASSUME NEW i \in 1..n, NEW j \in 1..n, \A c \in 1..6 : rows[i][c] = rows[j][c]
       PROVE  i = j
  <2>1. rows[i] \in Row(6) /\ rows[j] \in Row(6)
    BY <1>3, <1>8
  <2>2. rows[i] = rows[j]
    BY <1>10, <2>1 DEF Row
  <2> QED
    BY <1>8, <2>2 DEF OneToOne
<1>11. PICK R : R = Relation(ix, "ReferenceIndex")
  OBVIOUS
<1>12. R = {Decoded(ss, "ReferenceIndex", rows[i]) : i \in 1..n}
  <2>1. R = Says(ss, "ReferenceIndex", rows)
    BY <1>1, <1>2, <1>11, Saying
  <2> QED
    BY <1>3, <2>1 DEF Says
<1> DEFINE Fact(o) == <<NameOf[o.symbol], o.refType, PathOf[o.file], o.line, o.column,
                        Promise!EndColumn(o)>>
<1>13. R = {Fact(o) : o \in seen}
  <2>1. R = {<<r[5], r[6], r[1], r[2], r[3], r[4]>> : r \in Promise!References}
    BY <1>11 DEF Complete
  <2>2. Promise!References = {<<PathOf[o.file], o.line, o.column, Promise!EndColumn(o),
                                NameOf[o.symbol], o.refType>> : o \in seen}
    BY DEF Promise!References
  <2>3. ASSUME NEW x \in R PROVE \E o \in seen : x = Fact(o)
    <3>1. PICK r \in Promise!References : x = <<r[5], r[6], r[1], r[2], r[3], r[4]>>
      BY <2>1
    <3>2. PICK o \in seen : r = <<PathOf[o.file], o.line, o.column, Promise!EndColumn(o),
                                   NameOf[o.symbol], o.refType>>
      BY <2>2
    <3> QED
      BY <3>1, <3>2
  <2>4. ASSUME NEW o \in seen PROVE Fact(o) \in R
    <3>1. PICK r : r = <<PathOf[o.file], o.line, o.column, Promise!EndColumn(o),
                         NameOf[o.symbol], o.refType>>
      OBVIOUS
    <3>2. r \in Promise!References
      BY <2>2, <3>1
    <3>3. <<r[5], r[6], r[1], r[2], r[3], r[4]>> \in R
      BY <2>1, <3>2
    <3> QED
      BY <3>1, <3>3
  <2> HIDE DEF Fact
  <2> QED
    BY <2>3, <2>4
<1> HIDE DEF Fact
<1>14. ASSUME NEW o, NEW i
       PROVE  Decoded(ss, "ReferenceIndex", rows[i]) = Fact(o) <=> RowTells(sym, kinds, rows[i], o)
  BY <1>4, ReferenceRowTells DEF Fact
<1>15. \A i \in 1..n : \E o \in seen : Decoded(ss, "ReferenceIndex", rows[i]) = Fact(o)
  BY <1>12, <1>13
<1>16. \A o \in seen : \E i \in 1..n : Decoded(ss, "ReferenceIndex", rows[i]) = Fact(o)
  BY <1>12, <1>13
<1>17. \A i \in 1..n : \E o \in seen : RowTells(sym, kinds, rows[i], o)
  BY <1>14, <1>15
<1>18. \A o \in seen : \E i \in 1..n : RowTells(sym, kinds, rows[i], o)
  BY <1>14, <1>16
<1> QED
  BY <1>3, <1>4, <1>6, <1>7, <1>8, <1>9, <1>10, <1>17, <1>18 DEF Listing

-----------------------------------------------------------------------------
(* StringTable::id finds the only ID of a string.                          *)
LEMMA IdFinds ==
    ASSUME NEW sym, DOMAIN sym = 1..Len(sym), Len(sym) \in Nat, OneToOne(Len(sym), sym), NEW x
    PROVE  /\ \A i \in 1..Len(sym) : sym[i] = x => Id(sym, x) = i
           /\ Id(sym, x) # 0 => Id(sym, x) \in 1..Len(sym) /\ sym[Id(sym, x)] = x
<1>1. ASSUME NEW i \in 1..Len(sym), sym[i] = x PROVE Id(sym, x) = i
  <2>1. Has(sym, x)
    BY <1>1 DEF Has
  <2>2. IdOf(sym, x) \in 1..Len(sym) /\ sym[IdOf(sym, x)] = x
    BY <1>1 DEF IdOf
  <2>3. IdOf(sym, x) = i
    BY <1>1, <2>2 DEF OneToOne
  <2> QED
    BY <2>1, <2>3 DEF Id
<1>2. ASSUME Id(sym, x) # 0 PROVE Id(sym, x) \in 1..Len(sym) /\ sym[Id(sym, x)] = x
  <2>1. Has(sym, x)
    BY <1>2 DEF Id
  <2>2. PICK i \in 1..Len(sym) : sym[i] = x
    BY <2>1 DEF Has
  <2>3. Id(sym, x) = i
    BY <1>1, <2>2
  <2> QED
    BY <2>2, <2>3
<1> QED
  BY <1>1, <1>2

ImageOf(f, R) == {f[i] : i \in R}
DifferOn(f, R) == \A i, j \in R : f[i] = f[j] => i = j
AnyOf(R) == CHOOSE i \in R : TRUE

(* A one-to-one image of a finite set has as many elements.                *)
LEMMA SameSize ==
    ASSUME NEW n \in Nat, NEW R \in SUBSET (1..n), NEW f,
           DifferOn(f, R), NEW P, P = ImageOf(f, R)
    PROVE  /\ Cardinality(P) = Cardinality(R)
           /\ Cardinality(R) = 1 => P = {f[AnyOf(R)]}
<1>1. IsFiniteSet(R)
  <2>1. IsFiniteSet(1..n)
    BY FS_Interval
  <2> QED
    BY <2>1, FS_Subset
<1>2. PICK g : g = [i \in R |-> f[i]]
  OBVIOUS
<1>3. g \in Surjection(R, P) /\ g \in Injection(R, P)
  <2>1. g \in [R -> P]
    BY <1>2 DEF ImageOf
  <2>2. \A p \in P : \E i \in R : g[i] = p
    BY <1>2 DEF ImageOf
  <2>3. IsInjective(g)
    BY <1>2 DEF IsInjective, DifferOn
  <2> QED
    BY <2>1, <2>2, <2>3 DEF Surjection, Injection
<1>4. Cardinality(P) = Cardinality(R)
  BY <1>1, <1>3, FS_Surjection
<1>5. ASSUME Cardinality(R) = 1 PROVE P = {f[AnyOf(R)]}
  <2>1. PICK x : R = {x}
    BY <1>1, <1>5, FS_Singleton
  <2>2. AnyOf(R) = x
    BY <2>1 DEF AnyOf
  <2>3. P = {f[x]}
    BY <2>1 DEF ImageOf
  <2> QED
    BY <2>2, <2>3
<1> QED
  BY <1>4, <1>5

(* The places where a name was seen are those in its rows.                 *)
Spot(sym, row) == <<sym[row[3]], row[4], row[5], row[6]>>

Spots(sym, rows, R) == {Spot(sym, rows[i]) : i \in R}

RowsAbout(n, rows, kinds, id, kind) ==
    {i \in 1..n : rows[i][1] = id /\ kinds[rows[i][2]] = kind}

LEMMA SpotTold ==
    ASSUME NEW sym, NEW kinds, NEW row, NEW o, RowTells(sym, kinds, row, o)
    PROVE  Spot(sym, row) = <<PathOf[o.file], o.line, o.column, Promise!EndColumn(o)>>
BY DEF RowTells, Spot

LEMMA PlacesAreSpots ==
    ASSUME NEW n, NEW rows, NEW sym, NEW kinds, Listing(n, rows, sym, kinds, seen),
           NEW id \in 1..Len(sym), NEW kind, NEW R, R = RowsAbout(n, rows, kinds, id, kind)
    PROVE  /\ PlacesOf(sym[id], kind) = Spots(sym, rows, R)
           /\ \A i, j \in R : Spot(sym, rows[i]) = Spot(sym, rows[j]) => i = j
<1>1. PICK S : S = seen
  OBVIOUS
<1>2. /\ n \in Nat /\ OneToOne(Len(sym), sym) /\ OneToOne(Len(kinds), kinds)
      /\ \A i \in 1..n : /\ rows[i][1] \in 1..Len(sym) /\ rows[i][2] \in 1..Len(kinds)
                         /\ rows[i][3] \in 1..Len(sym)
      /\ \A i, j \in 1..n : (\A c \in 1..6 : rows[i][c] = rows[j][c]) => i = j
      /\ \A i \in 1..n : \E o \in S : RowTells(sym, kinds, rows[i], o)
      /\ \A o \in S : \E i \in 1..n : RowTells(sym, kinds, rows[i], o)
  BY <1>1 DEF Listing
<1> DEFINE Where(o) == <<PathOf[o.file], o.line, o.column, Promise!EndColumn(o)>>
<1>3. PICK P : P = PlacesOf(sym[id], kind)
  OBVIOUS
<1>4. \A p : p \in P <=> \E o \in S : /\ o.refType = kind /\ NameOf[o.symbol] = sym[id]
                                      /\ p = Where(o)
  BY <1>1, <1>3 DEF PlacesOf
<1>5. \A i, o : RowTells(sym, kinds, rows[i], o) => Spot(sym, rows[i]) = Where(o)
  BY SpotTold
<1>6. \A i, o : RowTells(sym, kinds, rows[i], o) => /\ sym[rows[i][1]] = NameOf[o.symbol]
                                                 /\ kinds[rows[i][2]] = o.refType
  BY DEF RowTells
<1> HIDE DEF Where
<1>7. ASSUME NEW i \in R PROVE Spot(sym, rows[i]) \in P
  <2>1. i \in 1..n /\ rows[i][1] = id /\ kinds[rows[i][2]] = kind
    BY DEF RowsAbout
  <2>2. PICK o \in S : RowTells(sym, kinds, rows[i], o)
    BY <1>2, <2>1
  <2>3. o.refType = kind /\ NameOf[o.symbol] = sym[id]
    BY <1>6, <2>1, <2>2
  <2> QED
    BY <1>4, <1>5, <2>2, <2>3
<1>8. ASSUME NEW p \in P PROVE \E i \in R : p = Spot(sym, rows[i])
  <2>1. PICK o \in S : o.refType = kind /\ NameOf[o.symbol] = sym[id] /\ p = Where(o)
    BY <1>4
  <2>2. PICK i \in 1..n : RowTells(sym, kinds, rows[i], o)
    BY <1>2
  <2>3. sym[rows[i][1]] = sym[id] /\ kinds[rows[i][2]] = kind
    BY <1>6, <2>1, <2>2
  <2>4. rows[i][1] = id
    BY <1>2, <2>3 DEF OneToOne
  <2>5. i \in R
    BY <2>3, <2>4 DEF RowsAbout
  <2> QED
    BY <1>5, <2>1, <2>2, <2>5
<1>9. P = {Spot(sym, rows[i]) : i \in R}
  BY <1>7, <1>8
<1>10. ASSUME NEW i \in R, NEW j \in R, Spot(sym, rows[i]) = Spot(sym, rows[j])
       PROVE  i = j
  <2>1. PICK x, y : x = rows[i] /\ y = rows[j]
    OBVIOUS
  <2>2. /\ i \in 1..n /\ x[1] = id /\ kinds[x[2]] = kind
        /\ j \in 1..n /\ y[1] = id /\ kinds[y[2]] = kind
    BY <2>1 DEF RowsAbout
  <2>3. sym[x[3]] = sym[y[3]] /\ x[4] = y[4] /\ x[5] = y[5] /\ x[6] = y[6]
    BY <1>10, <2>1 DEF Spot
  <2>4. /\ x[2] \in 1..Len(kinds) /\ x[3] \in 1..Len(sym)
        /\ y[2] \in 1..Len(kinds) /\ y[3] \in 1..Len(sym)
    BY <1>2, <2>1, <2>2
  <2>5. x[2] = y[2] /\ x[3] = y[3]
    <3>1. PICK p, q, v, w : p = x[2] /\ q = y[2] /\ v = x[3] /\ w = y[3]
      OBVIOUS
    <3>2. kinds[p] = kinds[q] /\ sym[v] = sym[w]
      BY <2>2, <2>3, <3>1
    <3>3. p \in 1..Len(kinds) /\ q \in 1..Len(kinds) /\ v \in 1..Len(sym) /\ w \in 1..Len(sym)
      BY <2>4, <3>1
    <3>4. p = q /\ v = w
      BY <1>2, <3>2, <3>3 DEF OneToOne
    <3> QED
      BY <3>1, <3>4
  <2>6. \A c \in 1..6 : c = 1 \/ c = 2 \/ c = 3 \/ c = 4 \/ c = 5 \/ c = 6
    OBVIOUS
  <2>7. \A c \in 1..6 : x[c] = y[c]
    BY <2>2, <2>3, <2>5, <2>6
  <2> QED
    BY <1>2, <2>1, <2>2, <2>7
<1> QED
  BY <1>3, <1>9, <1>10 DEF Spots

LEMMA RowsNamed ==
    ASSUME NEW sym, sym = m_index.strings["Symbol"], NEW row
    PROVE  Named(At(row)) = Spot(sym, row)
<1>1. PICK place : place = At(row)
  OBVIOUS
<1>2. place[1] = row[3] /\ place[2] = row[4] /\ place[3] = row[5] /\ place[4] = row[6]
  BY <1>1 DEF At
<1> QED
  BY <1>1, <1>2 DEF Named, Spot

(* Where a jump leads.                                                     *)
LEMMA JumpsFound ==
    ASSUME NEW n, NEW rows, NEW sym, NEW kinds, Listing(n, rows, sym, kinds, seen),
           rows = m_index.rows["ReferenceIndex"], DOMAIN rows = 1..n,
           sym = m_index.strings["Symbol"], kinds = m_index.strings["ReferenceType"],
           NEW o \in seen, NEW name, name = NameOf[o.symbol]
    PROVE  JumpsFrom(name)
<1>1. /\ n \in Nat /\ Len(sym) \in Nat /\ DOMAIN sym = 1..Len(sym) /\ OneToOne(Len(sym), sym)
      /\ \A i \in 1..n : rows[i][1] \in 1..Len(sym)
      /\ \E i \in 1..n : RowTells(sym, kinds, rows[i], o)
  BY DEF Listing
<1>2. PICK i \in 1..n : RowTells(sym, kinds, rows[i], o)
  BY <1>1
<1>3. PICK id \in 1..Len(sym) : id = rows[i][1]
  BY <1>1
<1>4. sym[id] = name
  BY <1>2, <1>3 DEF RowTells
<1>5. Id(sym, name) = id /\ id # 0
  BY <1>1, <1>4, IdFinds
<1>6. PICK A, B : /\ A = RowsAbout(n, rows, kinds, id, Definition)
                  /\ B = RowsAbout(n, rows, kinds, id, Declaration)
  OBVIOUS
<1>7. References(m_index, id, Definition) = A /\ References(m_index, id, Declaration) = B
  BY <1>6 DEF References, RowsAbout
<1>8. PICK f : f = [k \in 1..n |-> Spot(sym, rows[k])]
  OBVIOUS
<1>9. ASSUME NEW kind, NEW R, R = RowsAbout(n, rows, kinds, id, kind), NEW P,
             P = PlacesOf(name, kind)
      PROVE  /\ Cardinality(P) = Cardinality(R) /\ (P = {} <=> R = {})
             /\ Cardinality(R) = 1 => P = {Spot(sym, rows[AnyOf(R)])}
  <2>1. R \in SUBSET (1..n)
    BY <1>9 DEF RowsAbout
  <2>2. P = {Spot(sym, rows[k]) : k \in R}
    <3>1. PlacesOf(sym[id], kind) = Spots(sym, rows, R)
      BY <1>9, PlacesAreSpots
    <3> QED
      BY <1>4, <1>9, <3>1 DEF Spots
  <2>3. \A k, l \in R : Spot(sym, rows[k]) = Spot(sym, rows[l]) => k = l
    BY <1>9, PlacesAreSpots
  <2>4. \A k \in R : f[k] = Spot(sym, rows[k])
    BY <1>8, <2>1
  <2>5. P = {f[k] : k \in R} /\ \A k, l \in R : f[k] = f[l] => k = l
    BY <2>2, <2>3, <2>4
  <2>6. /\ Cardinality(P) = Cardinality(R)
        /\ Cardinality(R) = 1 => P = {f[AnyOf(R)]}
    <3>1. P = ImageOf(f, R)
      BY <2>5 DEF ImageOf
    <3>2. DifferOn(f, R)
      BY <2>5 DEF DifferOn
    <3>3. n \in Nat
      BY <1>1
    <3> QED
      BY <2>1, <3>1, <3>2, <3>3, SameSize
  <2>7. P = {} <=> R = {}
    BY <2>2
  <2>8. ASSUME Cardinality(R) = 1 PROVE P = {Spot(sym, rows[AnyOf(R)])}
    <3>1. PICK k : k = AnyOf(R)
      OBVIOUS
    <3>2. P = {f[k]}
      BY <2>6, <2>8, <3>1
    <3>3. R # {}
      BY <2>7, <3>2
    <3>4. k \in R
      BY <3>1, <3>3 DEF AnyOf
    <3> QED
      BY <2>4, <3>1, <3>2, <3>4
  <2> QED
    BY <2>6, <2>7, <2>8
<1>10. PICK D, E : D = PlacesOf(name, Definition) /\ E = PlacesOf(name, Declaration)
  OBVIOUS
<1>11. PICK x, y : /\ x = Only(m_index, A) /\ y = Only(m_index, B)
  OBVIOUS
<1>12. /\ Named(x) = Spot(sym, rows[AnyOf(A)])
       /\ Named(y) = Spot(sym, rows[AnyOf(B)])
  BY <1>11, RowsNamed DEF Only, AnyOf
<1>13. /\ Cardinality(D) = Cardinality(A) /\ (D = {} <=> A = {})
       /\ Cardinality(A) = 1 => D = {Named(x)}
  BY <1>6, <1>9, <1>10, <1>12
<1>14. Cardinality(E) = Cardinality(B) /\ (Cardinality(B) = 1 => E = {Named(y)})
  BY <1>6, <1>9, <1>10, <1>12
<1>15. PICK found : found = FindSingleDefinition(m_index, name)
  OBVIOUS
<1>16. found = IF id # 0 /\ name \in PathNames THEN <<id, 1, 1, 1>>
               ELSE CASE Cardinality(A) = 1 -> x
                    [] A = {} /\ Cardinality(B) = 1 -> y
                    [] OTHER -> <<>>
  BY <1>5, <1>7, <1>11, <1>15 DEF FindSingleDefinition
<1>17. Cardinality(A) = 1 => A # {}
  <2>1. Cardinality({}) = 0
    BY FS_EmptySet
  <2>2. A = {} => Cardinality(A) = 0
    BY <2>1, Zenon
  <2> QED
    BY <2>2
<1>18. JumpsFrom(name) =
          IF name \in PathNames THEN Named(found) = <<name, 1, 1, 1>>
          ELSE IF Cardinality(D) = 1 THEN {Named(found)} = D
          ELSE IF D = {} /\ Cardinality(E) = 1 THEN {Named(found)} = E
          ELSE found = <<>>
  BY <1>10, <1>15 DEF JumpsFrom
<1>19. CASE name \in PathNames
  <2>1. found = <<id, 1, 1, 1>>
    BY <1>5, <1>16, <1>19
  <2>2. Named(found) = <<name, 1, 1, 1>>
    BY <1>4, <2>1 DEF Named
  <2> QED
    BY <1>18, <1>19, <2>2
<1>20. CASE name \notin PathNames /\ Cardinality(A) = 1
  <2>1. found = x
    BY <1>16, <1>17, <1>20
  <2> QED
    BY <1>13, <1>18, <1>20, <2>1
<1>21. CASE name \notin PathNames /\ Cardinality(A) # 1 /\ A = {} /\ Cardinality(B) = 1
  <2>1. found = y
    BY <1>16, <1>21
  <2> QED
    BY <1>13, <1>14, <1>18, <1>21, <2>1
<1>22. CASE name \notin PathNames /\ Cardinality(A) # 1 /\ ~(A = {} /\ Cardinality(B) = 1)
  <2>1. found = <<>>
    BY <1>16, <1>22
  <2> QED
    BY <1>13, <1>14, <1>18, <1>22, <2>1
<1> QED
  BY <1>19, <1>20, <1>21, <1>22

-----------------------------------------------------------------------------
(* A finalized table ascends by its first column.                          *)
LEMMA FirstColumnUp ==
    ASSUME NEW w \in Nat \ {0}, NEW rows \in Seq(Row(w)), RowsUp(rows), NEW n, n = Len(rows),
           NEW key, key = [i \in 1..n |-> rows[i][1]]
    PROVE  key \in [1..n -> Nat] /\ NeverFalls(n, key)
<1>1. n \in Nat /\ \A i \in 1..n : rows[i] \in [1..w -> Nat]
  BY DEF Row
<1>2. 1 \in 1..w
  OBVIOUS
<1>3. \A i \in 1..n : rows[i][1] \in Nat
  BY <1>1, <1>2
<1>4. ASSUME NEW i \in 1..n, NEW j \in 1..n, i < j PROVE key[i] <= key[j]
  <2>1. PICK x, y : x = rows[i] /\ y = rows[j]
    OBVIOUS
  <2>2. RowLess(x, y)
    BY <1>4, <2>1 DEF RowsUp
  <2>3. x \in [1..w -> Nat] /\ y \in [1..w -> Nat]
    BY <1>1, <2>1
  <2>4. PICK c \in 1..w : x[c] < y[c] /\ \A b \in 1..(c - 1) : x[b] = y[b]
    BY <2>2, <2>3 DEF RowLess
  <2>5. x[1] <= y[1]
    <3>1. c = 1 \/ 1 \in 1..(c - 1)
      OBVIOUS
    <3>2. x[1] \in Nat /\ y[1] \in Nat
      BY <1>2, <2>3
    <3> QED
      BY <2>4, <3>1, <3>2
  <2> QED
    BY <2>1, <2>5
<1>5. ASSUME NEW i \in 1..n, NEW j \in 1..n, i <= j PROVE key[i] <= key[j]
  <2>1. i < j \/ i = j
    BY <1>1, <1>5
  <2>2. key[i] \in Nat
    BY <1>3
  <2> QED
    BY <1>4, <2>1, <2>2
<1> QED
  BY <1>3, <1>5 DEF NeverFalls

(* The rows of GlobalSymbol are the names of functions, classes and        *)
(* variables.                                                              *)
Globals(m, g, sym) ==
    /\ \A j \in 1..m : g[j] \in 1..Len(sym)
    /\ \A x : x \in GlobalNames <=> \E j \in 1..m : sym[g[j]] = x

LEMMA OpenedGlobals ==
    ASSUME NEW ix, WellFormed(ix, Tables), Complete(ix), NEW globals, NEW sym,
           globals = ix.rows["GlobalSymbol"], sym = ix.strings["Symbol"],
           NEW m, m = Len(globals), NEW g, g = [j \in 1..m |-> globals[j][1]]
    PROVE  Globals(m, g, sym)
<1>1. "GlobalSymbol" \in Tables /\ Width("GlobalSymbol") = 1
  BY Widths DEF Tables
<1>2. PICK ss : ss = ix.strings
  OBVIOUS
<1>3. AreRows(ss, "GlobalSymbol", globals) /\ "GlobalSymbol" \in DOMAIN ix.rows
  BY <1>1, <1>2 DEF WellFormed
<1>4. PICK s : s = Schema["GlobalSymbol"]
  OBVIOUS
<1>5. s[1] = "Symbol" /\ 1 \in 1..1
  BY <1>4 DEF Schema
<1>6. \A j \in 1..m : InRange(ss, "GlobalSymbol", globals[j])
  BY <1>3 DEF AreRows
<1>7. \A j \in 1..m : g[j] \in 1..Len(sym)
  BY <1>1, <1>2, <1>4, <1>5, <1>6 DEF InRange
<1>8. PICK R : R = Relation(ix, "GlobalSymbol")
  OBVIOUS
<1>9. R = {Decoded(ss, "GlobalSymbol", globals[j]) : j \in 1..m}
  <2>1. R = Says(ss, "GlobalSymbol", globals)
    BY <1>1, <1>2, <1>3, <1>8, Saying
  <2> QED
    BY <2>1 DEF Says
<1>10. \A x : <<x>> \in R <=> x \in GlobalNames
  <2>1. R = {<<NameOf[o.symbol]>> : o \in {p \in seen : p.symbolType \notin Unlisted \cup {NoType}}}
    BY <1>8 DEF Complete, Promise!GlobalSymbols
  <2>2. \A x, y : <<x>> = <<y>> => x = y
    OBVIOUS
  <2> QED
    BY <2>1, <2>2 DEF GlobalNames
<1>11. ASSUME NEW j \in 1..m, NEW x
       PROVE  Decoded(ss, "GlobalSymbol", globals[j]) = <<x>> <=> sym[g[j]] = x
  <2>1. PICK a : a = [c \in 1..1 |-> IF s[c] = "" THEN globals[j][c] ELSE ss[s[c]][globals[j][c]]]
    OBVIOUS
  <2>2. Decoded(ss, "GlobalSymbol", globals[j]) = a
    BY <1>1, <1>4, <2>1 DEF Decoded
  <2>3. a[1] = sym[g[j]]
    BY <1>2, <1>5, <2>1
  <2>4. PICK b : b = <<x>>
    OBVIOUS
  <2>5. b = [c \in 1..1 |-> b[c]] /\ b[1] = x
    BY <2>4
  <2>6. a = [c \in 1..1 |-> a[c]]
    BY <2>1
  <2> \A c \in 1..1 : c = 1
    OBVIOUS
  <2>7. a = b <=> a[1] = b[1]
    BY <2>5, <2>6
  <2> QED
    BY <2>2, <2>3, <2>4, <2>5, <2>7
<1>12. \A x : <<x>> \in R <=> \E j \in 1..m : Decoded(ss, "GlobalSymbol", globals[j]) = <<x>>
  BY <1>9
<1>13. ASSUME NEW x PROVE x \in GlobalNames <=> \E j \in 1..m : sym[g[j]] = x
  <2>1. <<x>> \in R <=> \E j \in 1..m : Decoded(ss, "GlobalSymbol", globals[j]) = <<x>>
    BY <1>12
  <2>2. \A j \in 1..m : Decoded(ss, "GlobalSymbol", globals[j]) = <<x>> <=> sym[g[j]] = x
    BY <1>11
  <2>3. <<x>> \in R <=> x \in GlobalNames
    BY <1>10
  <2> QED
    BY <2>1, <2>2, <2>3
<1> QED
  BY <1>7, <1>13 DEF Globals

(* The rows that the list has are the definitions of global symbols.       *)
HitsListed(rows, sym) == {<<sym[row[1]], Spot(sym, row)>> : row \in rows}

LEMMA HitsAreDefinitions ==
    ASSUME NEW n, NEW rows, NEW sym, NEW kinds, Listing(n, rows, sym, kinds, seen),
           NEW m, NEW g, Globals(m, g, sym), NEW kind, kind = Id(kinds, Definition)
    PROVE  HitsListed(Hits(n, rows, kind, m, g), sym)
              = UNION {{<<name, place>> : place \in PlacesOf(name, Definition)} :
                          name \in GlobalNames}
<1> DEFINE U == UNION {{<<name, place>> : place \in PlacesOf(name, Definition)} :
                          name \in GlobalNames}
           L == HitsListed(Hits(n, rows, kind, m, g), sym)
<1>1. /\ Len(kinds) \in Nat /\ DOMAIN kinds = 1..Len(kinds) /\ OneToOne(Len(kinds), kinds)
      /\ \A i \in 1..n : rows[i][1] \in 1..Len(sym) /\ rows[i][2] \in 1..Len(kinds)
  BY DEF Listing
<1>2. /\ \A i \in 1..Len(kinds) : kinds[i] = Definition => kind = i
      /\ kind # 0 => kinds[kind] = Definition
  BY <1>1, IdFinds
<1>3. ASSUME NEW id \in 1..Len(sym)
      PROVE  PlacesOf(sym[id], Definition) =
                {Spot(sym, rows[i]) : i \in RowsAbout(n, rows, kinds, id, Definition)}
  <2>1. PlacesOf(sym[id], Definition)
           = Spots(sym, rows, RowsAbout(n, rows, kinds, id, Definition))
    BY PlacesAreSpots
  <2> QED
    BY <2>1 DEF Spots
<1>4. ASSUME NEW x \in L PROVE x \in U
  <2>1. PICK row \in Hits(n, rows, kind, m, g) : x = <<sym[row[1]], Spot(sym, row)>>
    BY DEF HitsListed
  <2>2. PICK i \in 1..n : row = rows[i] /\ row[2] = kind /\ \E j \in 1..m : row[1] = g[j]
    BY DEF Hits
  <2>3. PICK id \in 1..Len(sym) : id = row[1]
    BY <1>1, <2>2
  <2>4. PICK j \in 1..m : id = g[j]
    BY <2>2, <2>3
  <2>5. sym[id] \in GlobalNames
    BY <2>4 DEF Globals
  <2>6. kinds[row[2]] = Definition
    BY <1>1, <1>2, <2>2
  <2>7. i \in RowsAbout(n, rows, kinds, id, Definition)
    BY <2>2, <2>3, <2>6 DEF RowsAbout
  <2>8. Spot(sym, row) \in PlacesOf(sym[id], Definition)
    BY <1>3, <2>2, <2>7
  <2> QED
    BY <2>1, <2>3, <2>5, <2>8
<1>5. ASSUME NEW x \in U PROVE x \in L
  <2>1. PICK name \in GlobalNames : \E place \in PlacesOf(name, Definition) : x = <<name, place>>
    OBVIOUS
  <2>2. PICK place \in PlacesOf(name, Definition) : x = <<name, place>>
    BY <2>1
  <2>3. PICK j \in 1..m : sym[g[j]] = name
    BY DEF Globals
  <2>4. PICK id \in 1..Len(sym) : id = g[j]
    BY DEF Globals
  <2>5. PICK i \in RowsAbout(n, rows, kinds, id, Definition) : place = Spot(sym, rows[i])
    BY <1>3, <2>2, <2>3, <2>4
  <2>6. i \in 1..n /\ rows[i][1] = id /\ kinds[rows[i][2]] = Definition
    BY DEF RowsAbout
  <2>7. rows[i][2] = kind
    BY <1>1, <1>2, <2>6
  <2>8. rows[i] \in Hits(n, rows, kind, m, g)
    BY <2>4, <2>6, <2>7 DEF Hits
  <2> QED
    BY <2>2, <2>3, <2>4, <2>5, <2>6, <2>8 DEF HitsListed
<1>6. L = U
  BY <1>4, <1>5, Zenon
<1> QED
  BY <1>6

LEMMA OpenedDefinitions ==
    ASSUME NEW ix, ix = m_index, WellFormed(ix, Tables), Complete(ix),
           \A t \in Tables : RowsUp(ix.rows[t])
    PROVE  DefinitionsListed
<1>1. PICK ss, rows, globals : /\ ss = ix.strings /\ rows = ix.rows["ReferenceIndex"]
                               /\ globals = ix.rows["GlobalSymbol"]
  OBVIOUS
<1>2. PICK n, m : n = Len(rows) /\ m = Len(globals)
  OBVIOUS
<1>3. PICK sym, kinds : sym = ss["Symbol"] /\ kinds = ss["ReferenceType"]
  OBVIOUS
<1>4. PICK key, g : key = [i \in 1..n |-> rows[i][1]] /\ g = [j \in 1..m |-> globals[j][1]]
  OBVIOUS
<1>5. PICK kind : kind = Id(kinds, Definition)
  OBVIOUS
<1>6. /\ "ReferenceIndex" \in Tables /\ Width("ReferenceIndex") = 6
      /\ "GlobalSymbol" \in Tables /\ Width("GlobalSymbol") = 1
  BY Widths DEF Tables
<1>7. rows \in Seq(Row(6)) /\ globals \in Seq(Row(1))
  BY <1>1, <1>6 DEF WellFormed, AreRows
<1>8. Listing(n, rows, sym, kinds, seen)
  BY <1>1, <1>2, <1>3, OpenedListing
<1>9. Globals(m, g, sym)
  BY <1>1, <1>2, <1>3, <1>4, OpenedGlobals
<1>10. RowsUp(rows) /\ RowsUp(globals)
  BY <1>1, <1>6
<1>11. /\ key \in [1..n -> Nat] /\ NeverFalls(n, key)
       /\ g \in [1..m -> Nat] /\ NeverFalls(m, g)
  <2>1. 1 \in Nat \ {0} /\ 6 \in Nat \ {0}
    OBVIOUS
  <2>2. key \in [1..n -> Nat] /\ NeverFalls(n, key)
    BY <1>2, <1>4, <1>7, <1>10, <2>1, FirstColumnUp
  <2>3. g \in [1..m -> Nat] /\ NeverFalls(m, g)
    BY <1>2, <1>4, <1>7, <1>10, <2>1, FirstColumnUp
  <2> QED
    BY <2>2, <2>3
<1>12. n \in Nat /\ m \in Nat
  BY <1>2, <1>7
<1>13. Walkable(n, rows, key, m, globals, g)
  <2>1. /\ \A i \in 1..n : rows[i][1] = key[i]
        /\ \A j \in 1..m : globals[j][1] = g[j]
    BY <1>4
  <2> QED
    BY <1>2, <1>11, <1>12, <2>1 DEF Walkable
<1>14. PICK q : q = QueryGlobalSymbolDefinitions(ix)
  OBVIOUS
<1>15. ToSet(q) = Hits(n, rows, kind, m, g)
  <2>1. kind = Id(ix.strings["ReferenceType"], Definition)
    BY <1>1, <1>3, <1>5
  <2>2. rows = ix.rows["ReferenceIndex"] /\ globals = ix.rows["GlobalSymbol"]
    BY <1>1
  <2>3. n = Len(rows)
    BY <1>2
  <2> QED
    BY <1>13, <1>14, <2>1, <2>2, <2>3, Walking, SMTT(40)
<1>16. HitsListed(ToSet(q), sym) = UNION {{<<name, place>> : place \in PlacesOf(name, Definition)} :
                                         name \in GlobalNames}
  BY <1>5, <1>8, <1>9, <1>15, HitsAreDefinitions
<1>17. \A row : Named(At(row)) = Spot(sym, row)
  BY <1>1, <1>3, RowsNamed
<1>18. {<<m_index.strings["Symbol"][row[1]], Named(At(row))>> :
           row \in ToSet(QueryGlobalSymbolDefinitions(m_index))} = HitsListed(ToSet(q), sym)
  BY <1>1, <1>3, <1>14, <1>17 DEF HitsListed
<1> QED
  BY <1>16, <1>18 DEF DefinitionsListed

(* The list of files.                                                      *)
LEMMA OpenedPaths ==
    ASSUME NEW ix, WellFormed(ix, Tables), Complete(ix), NEW o \in seen, NEW path,
           path = PathOf[o.file]
    PROVE  path \in QueryAllPaths(ix)
<1>1. PICK ss, rows : ss = ix.strings /\ rows = ix.rows["SymbolTypeIndex"]
  OBVIOUS
<1>2. PICK sym, types : sym = ss["Symbol"] /\ types = ss["SymbolType"]
  OBVIOUS
<1>3. "SymbolTypeIndex" \in Tables /\ Width("SymbolTypeIndex") = 2 /\ "SymbolType" \in Names
  BY Widths DEF Tables, Names
<1>4. /\ AreStrings(ss) /\ AreRows(ss, "SymbolTypeIndex", rows)
      /\ "SymbolTypeIndex" \in DOMAIN ix.rows
  BY <1>1, <1>3 DEF WellFormed
<1>5. types \in Seq(Nat) /\ OneToOne(Len(types), types)
  BY <1>2, <1>3, <1>4 DEF AreStrings
<1>6. Len(types) \in Nat /\ DOMAIN types = 1..Len(types) /\ DOMAIN rows = 1..Len(rows)
  BY <1>4, <1>5, SeqDomain, Domains
<1>7. <<path, PathType>> \in Promise!Symbols
  BY DEF Promise!Symbols
<1>8. PICK fact : fact = <<PathType, path>>
  OBVIOUS
<1>9. fact \in Relation(ix, "SymbolTypeIndex")
  <2>1. PICK s : s = <<path, PathType>>
    OBVIOUS
  <2>2. s[1] = path /\ s[2] = PathType /\ s \in Promise!Symbols
    BY <1>7, <2>1
  <2> QED
    BY <1>8, <2>2 DEF Complete
<1>10. Relation(ix, "SymbolTypeIndex") = Says(ss, "SymbolTypeIndex", rows)
  BY <1>1, <1>3, <1>4, Saying
<1>11. PICK i \in 1..Len(rows) : fact = Decoded(ss, "SymbolTypeIndex", rows[i])
  BY <1>9, <1>10 DEF Says
<1>12. PICK row : row = rows[i]
  OBVIOUS
<1>13. PICK s : s = Schema["SymbolTypeIndex"]
  OBVIOUS
<1>14. s[1] = "SymbolType" /\ s[2] = "Symbol"
  BY <1>13 DEF Schema
<1>15. fact = [c \in 1..2 |-> IF s[c] = "" THEN row[c] ELSE ss[s[c]][row[c]]]
  BY <1>3, <1>11, <1>12, <1>13 DEF Decoded
<1>16. fact[1] = types[row[1]] /\ fact[2] = sym[row[2]]
  <2>1. \A c \in 1..2 : s[c] # "" => fact[c] = ss[s[c]][row[c]]
    BY <1>15
  <2>2. 1 \in 1..2 /\ 2 \in 1..2 /\ s[1] # "" /\ s[2] # ""
    <3>1. "Symbol" # "" /\ "SymbolType" # ""
      OBVIOUS
    <3> QED
      BY <1>14, <3>1
  <2>3. fact[1] = ss[s[1]][row[1]] /\ fact[2] = ss[s[2]][row[2]]
    BY <2>1, <2>2
  <2> QED
    BY <1>2, <1>14, <2>3
<1>17. types[row[1]] = PathType /\ sym[row[2]] = path
  BY <1>8, <1>16
<1>18. row[1] \in 1..Len(types)
  <2>1. InRange(ss, "SymbolTypeIndex", row)
    BY <1>4, <1>12 DEF AreRows
  <2>2. 1 \in 1..2 /\ s[1] # ""
    BY <1>14
  <2> QED
    BY <1>2, <1>3, <1>13, <1>14, <2>1, <2>2 DEF InRange
<1>19. row[1] = Id(types, PathType)
  BY <1>5, <1>6, <1>17, <1>18, IdFinds
<1>20. row \in ToSet(rows)
  BY <1>6, <1>12 DEF ToSet
<1> QED
  BY <1>1, <1>2, <1>17, <1>19, <1>20 DEF QueryAllPaths

(* The navigator finds, in the index that it has opened, the definitions,  *)
(* the declarations and the files that were seen.                          *)
THEOREM NavigatorAlwaysFinds == Spec => []NavigatorFinds
<1>1. BuildInv => NavigatorFinds
  <2> SUFFICES ASSUME BuildInv, phase = "opened"
               PROVE  /\ DefinitionsListed
                      /\ \A name \in {NameOf[o.symbol] : o \in seen} : JumpsFrom(name)
                      /\ PathsListed
    BY DEF NavigatorFinds
  <2>1. PICK ix : ix = m_index
    OBVIOUS
  <2>2. WellFormed(ix, Tables) /\ Complete(ix) /\ \A t \in Tables : RowsUp(ix.rows[t])
    BY <2>1, OpenedIndex
  <2>3. DefinitionsListed
    BY <2>1, <2>2, OpenedDefinitions
  <2>4. ASSUME NEW o \in seen PROVE JumpsFrom(NameOf[o.symbol])
    <3>1. PICK ss, rows : ss = ix.strings /\ rows = ix.rows["ReferenceIndex"]
      OBVIOUS
    <3>2. PICK sym, kinds, n : sym = ss["Symbol"] /\ kinds = ss["ReferenceType"] /\ n = Len(rows)
      OBVIOUS
    <3>3. Listing(n, rows, sym, kinds, seen)
      BY <2>2, <3>1, <3>2, OpenedListing
    <3>4. DOMAIN rows = 1..n
      <4>1. "ReferenceIndex" \in Tables
        BY DEF Tables
      <4>2. AreRows(ss, "ReferenceIndex", rows)
        BY <2>2, <3>1, <4>1 DEF WellFormed
      <4> QED
        BY <3>2, <4>2, Domains
    <3> QED
      BY <2>1, <3>1, <3>2, <3>3, <3>4, JumpsFound
  <2>5. PathsListed
    BY <2>1, <2>2, OpenedPaths DEF PathsListed
  <2> QED
    BY <2>3, <2>4, <2>5
<1> QED
  BY <1>1, BuildInvariant, PTL
=============================================================================
