---------------------------- MODULE HistoryProofs -----------------------------
(***************************************************************************)
(* Proofs about History, for any files, scroll positions and maximal       *)
(* length: the list never repeats a location, and Back and Forward undo    *)
(* what was done.                                                          *)
(***************************************************************************)
EXTENDS History, SequenceTheorems, TLAPS

NoRepeatIn(list) == \A i \in 1..(Len(list) - 1) : list[i] # list[i + 1]

(* A history value, before it is cut and after.                            *)
Uncut(h) ==
    /\ h \in [list : Seq(Location), index : Nat]
    /\ h.index <= Len(h.list)
    /\ h.index = 0 <=> h.list = <<>>
    /\ NoRepeatIn(h.list)

Cut(h) == Uncut(h) /\ Len(h.list) <= 2 * MaximumLocations + 1

(* The window's place and the last step, against the list.                 *)
HereInv ==
    /\ here = Nowhere \/ (here \in Location /\ here.offset <= range[here.file])
    /\ m_historyIndex > 0 => here \in Location

FromInv ==
    trail.step # "other" => trail.from \in Location
                            /\ trail.from.offset <= range[trail.from.file]

TrailInv ==
    /\ trail.step = "jump" => /\ m_historyIndex > 1
                              /\ m_history[m_historyIndex] = here
                              /\ m_history[m_historyIndex - 1] = trail.from
    /\ trail.step = "back" => /\ m_historyIndex \in 1..(Len(m_history) - 1)
                              /\ m_history[m_historyIndex + 1] = trail.from

HistoryInv ==
    /\ Cut(Current)
    /\ range \in [File -> Offset] /\ crashed \in BOOLEAN /\ trail \in Trail
    /\ HereInv /\ FromInv /\ TrailInv
-----------------------------------------------------------------------------
LEMMA NowhereApart == Nowhere \notin Location /\ Nowhere.file = NoFile
                      /\ \A loc \in Location : loc.file \in File /\ loc.file # NoFile
                                               /\ loc.offset \in Offset
BY HistoryAssumption DEF Nowhere, Location

(* Cutting a sequence at both ends.                                        *)
LEMMA Slice ==
    ASSUME NEW S, NEW s \in Seq(S), NEW a \in 1..Len(s), NEW b \in a..Len(s)
    PROVE  /\ SubSeq(s, a, b) \in Seq(S)
           /\ Len(SubSeq(s, a, b)) = b - a + 1
           /\ \A i \in 1..(b - a + 1) : SubSeq(s, a, b)[i] = s[a + i - 1]
<1>1. Len(s) \in Nat /\ \A i \in 1..Len(s) : s[i] \in S
  BY LenProperties, ElementOfSeq
<1>2. a \in Int /\ b \in Int /\ a <= b /\ \A i \in a..b : s[i] \in S
  BY <1>1
<1> QED
  BY <1>2, SubSeqProperties

(* capHistorySize keeps the current location and its neighbours.           *)
LEMMA CapKeeps ==
    ASSUME NEW h, Uncut(h), h.index > 0
    PROVE  LET c == CapHistorySize(h) IN
           /\ Cut(c) /\ c.index > 0
           /\ c.list[c.index] = h.list[h.index]
           /\ h.index < Len(h.list) => c.index < Len(c.list)
                                       /\ c.list[c.index + 1] = h.list[h.index + 1]
           /\ h.index > 1 => c.index > 1 /\ c.list[c.index - 1] = h.list[h.index - 1]
<1> DEFINE M == MaximumLocations
           n == Len(h.list)
           drop == Excess(h.index - 1)
           end == Least(n, h.index + M)
           list == SubSeq(h.list, drop + 1, end)
<1>1. M \in Nat \ {0} /\ h.index \in 1..n /\ n \in Nat /\ h.list \in Seq(Location)
  BY HistoryAssumption, LenProperties DEF Uncut
<1> HIDE DEF M, n
<1>2. /\ drop \in 0..(h.index - 1) /\ h.index - drop <= M + 1
      /\ h.index > 1 => h.index - drop > 1
  BY <1>1 DEF Excess, M
<1>3. /\ end \in h.index..n /\ end <= h.index + M
      /\ h.index < n => end > h.index
  BY <1>1 DEF Least
<1> HIDE DEF drop, end
<1>4. /\ list \in Seq(Location) /\ Len(list) = end - drop
      /\ \A i \in 1..(end - drop) : list[i] = h.list[drop + i]
  <2>1. drop + 1 \in 1..n /\ end \in (drop + 1)..n
    BY <1>1, <1>2, <1>3
  <2>2. drop \in Int /\ end \in Int
    BY <1>1, <1>2, <1>3
  <2>3. /\ SubSeq(h.list, drop + 1, end) \in Seq(Location)
        /\ Len(SubSeq(h.list, drop + 1, end)) = end - (drop + 1) + 1
        /\ \A i \in 1..(end - (drop + 1) + 1) :
              SubSeq(h.list, drop + 1, end)[i] = h.list[(drop + 1) + i - 1]
    BY <1>1, <2>1, Slice DEF n
  <2> QED
    BY <2>2, <2>3
<1>5. PICK c : c = CapHistorySize(h)
  OBVIOUS
<1>6. c = [list |-> list, index |-> h.index - drop]
  BY <1>5 DEF CapHistorySize, drop, end, n, M
<1> HIDE DEF list
<1>7. c \in [list : Seq(Location), index : Nat] /\ c.list = list /\ c.index = h.index - drop
  BY <1>1, <1>2, <1>4, <1>6
<1>8. ASSUME NEW i \in 1..(end - drop - 1) PROVE list[i] # list[i + 1]
  <2>1. /\ i \in 1..(end - drop) /\ i + 1 \in 1..(end - drop)
        /\ drop + i \in 1..(n - 1) /\ drop + (i + 1) = (drop + i) + 1
    BY <1>1, <1>2, <1>3
  <2>2. list[i] = h.list[drop + i] /\ list[i + 1] = h.list[(drop + i) + 1]
    BY <1>4, <2>1
  <2> QED
    BY <2>1, <2>2 DEF Uncut, NoRepeatIn, n
<1>9. Cut(c)
  <2>1. Len(list) = end - drop /\ end - drop > 0 /\ end - drop <= 2 * M + 1
        /\ h.index - drop \in 1..(end - drop)
    BY <1>1, <1>2, <1>3, <1>4
  <2>2. list # <<>>
    BY <1>4, <2>1, EmptySeq
  <2>3. NoRepeatIn(list)
    BY <1>8, <2>1 DEF NoRepeatIn
  <2> QED
    BY <1>7, <2>1, <2>2, <2>3 DEF Cut, Uncut, M
<1>0. PICK k, m : k = h.index /\ m = c.index
  OBVIOUS
<1>a. /\ k \in 1..n /\ n \in Nat /\ drop \in 0..(k - 1) /\ end \in k..n /\ m = k - drop
      /\ k > 1 => m > 1
      /\ k < n => end > k
  BY <1>0, <1>1, <1>2, <1>3, <1>7
<1>10. c.index > 0 /\ c.list[c.index] = h.list[h.index]
  <2>1. m \in 1..(end - drop) /\ drop + m = k /\ m > 0
    BY <1>a
  <2> QED
    BY <1>0, <1>4, <1>7, <2>1
<1>11. ASSUME h.index < n
       PROVE  c.index < Len(c.list) /\ c.list[c.index + 1] = h.list[h.index + 1]
  <2>1. m + 1 \in 1..(end - drop) /\ drop + (m + 1) = k + 1 /\ m < end - drop
    BY <1>0, <1>a, <1>11
  <2> QED
    BY <1>0, <1>4, <1>7, <2>1
<1>12. ASSUME h.index > 1 PROVE c.index > 1 /\ c.list[c.index - 1] = h.list[h.index - 1]
  <2>1. m - 1 \in 1..(end - drop) /\ drop + (m - 1) = k - 1 /\ m > 1
    BY <1>0, <1>a, <1>12
  <2> QED
    BY <1>0, <1>4, <1>7, <2>1
<1> QED
  BY <1>5, <1>9, <1>10, <1>11, <1>12 DEF n

(* r is s with e in it, behind the first i locations.                      *)
HasInserted(r, s, i, e) ==
    /\ r \in Seq(Location) /\ Len(r) = Len(s) + 1
    /\ \A j \in 1..i : r[j] = s[j]
    /\ r[i + 1] = e
    /\ \A j \in (i + 2)..(Len(s) + 1) : r[j] = s[j - 1]

LEMMA Inserted ==
    ASSUME NEW s \in Seq(Location), NEW i \in 0..Len(s), NEW e \in Location
    PROVE  HasInserted(InsertAt(s, i + 1, e), s, i, e)
<1>0. PICK r : r = InsertAt(s, i + 1, e)
  OBVIOUS
<1>1. Len(s) \in Nat /\ i \in Nat /\ \A j \in 1..Len(s) : s[j] \in Location
  BY LenProperties, ElementOfSeq
<1> DEFINE front == SubSeq(s, 1, i)
           back == SubSeq(s, i + 1, Len(s))
<1>2. front \in Seq(Location) /\ Len(front) = i /\ \A j \in 1..i : front[j] = s[j]
  <2>1. 1 \in Int /\ i \in Int /\ \A j \in 1..i : s[j] \in Location
    BY <1>1
  <2>2. /\ front \in Seq(Location) /\ Len(front) = IF 1 <= i THEN i - 1 + 1 ELSE 0
        /\ \A j \in 1..(i - 1 + 1) : front[j] = s[1 + j - 1]
    BY <2>1, SubSeqProperties
  <2> QED
    BY <1>1, <2>2
<1>3. PICK n : n = Len(s)
  OBVIOUS
<1>4. back \in Seq(Location) /\ Len(back) = n - i /\ \A j \in 1..(n - i) : back[j] = s[i + j]
  <2>1. i + 1 \in Int /\ n \in Int /\ \A j \in (i + 1)..n : s[j] \in Location
    BY <1>1, <1>3
  <2>2. /\ back \in Seq(Location) /\ Len(back) = IF i + 1 <= n THEN n - (i + 1) + 1 ELSE 0
        /\ \A j \in 1..(n - (i + 1) + 1) : back[j] = s[(i + 1) + j - 1]
    BY <1>3, <2>1, SubSeqProperties
  <2>3. i <= n /\ n \in Nat
    BY <1>1, <1>3
  <2> HIDE DEF back
  <2> QED
    BY <1>1, <2>2, <2>3
<1> HIDE DEF front, back
<1>5. <<e>> \in Seq(Location) /\ Len(<<e>>) = 1 /\ <<e>>[1] = e
  OBVIOUS
<1>6. /\ front \o <<e>> \in Seq(Location) /\ Len(front \o <<e>>) = i + 1
      /\ \A j \in 1..(i + 1) : (front \o <<e>>)[j] = IF j <= i THEN s[j] ELSE e
  <2>1. /\ front \o <<e>> \in Seq(Location) /\ Len(front \o <<e>>) = i + 1
        /\ \A j \in 1..(i + 1) :
              (front \o <<e>>)[j] = IF j <= i THEN front[j] ELSE <<e>>[j - i]
    BY <1>2, <1>5, ConcatProperties
  <2>2. \A j \in 1..(i + 1) : (j <= i => j \in 1..i) /\ (~(j <= i) => j - i = 1)
    BY <1>1
  <2> QED
    BY <1>2, <1>5, <2>1, <2>2
<1>7. PICK f : f = front \o <<e>>
  OBVIOUS
<1>8. /\ f \o back \in Seq(Location) /\ Len(f \o back) = (i + 1) + (n - i)
      /\ \A j \in 1..((i + 1) + (n - i)) :
            (f \o back)[j] = IF j <= i + 1 THEN f[j] ELSE back[j - (i + 1)]
  <2>1. f \in Seq(Location) /\ Len(f) = i + 1
    BY <1>6, <1>7
  <2>2. /\ f \o back \in Seq(Location) /\ Len(f \o back) = Len(f) + Len(back)
        /\ \A j \in 1..(Len(f) + Len(back)) :
              (f \o back)[j] = IF j <= Len(f) THEN f[j] ELSE back[j - Len(f)]
    BY <1>4, <2>1, ConcatProperties
  <2> QED
    BY <1>4, <2>1, <2>2
<1>9. r = f \o back
  <2>1. (i + 1) - 1 = i
    BY <1>1
  <2> QED
    BY <1>0, <1>7, <2>1 DEF InsertAt, front, back
<1>10. Len(f \o back) = n + 1
  BY <1>1, <1>3, <1>8
<1>11. ASSUME NEW j \in 1..(n + 1)
       PROVE  (f \o back)[j] = IF j <= i THEN s[j] ELSE IF j = i + 1 THEN e ELSE s[j - 1]
  <2>1. (i + 1) + (n - i) = n + 1 /\ n \in Nat
    BY <1>1, <1>3
  <2>2. CASE j <= i + 1
    <3>1. j \in 1..(i + 1) /\ (~(j <= i) => j = i + 1)
      BY <1>1, <2>1, <2>2
    <3> QED
      BY <1>6, <1>7, <1>8, <2>1, <2>2, <3>1
  <2>3. CASE ~(j <= i + 1)
    <3>1. j - (i + 1) \in 1..(n - i) /\ i + (j - (i + 1)) = j - 1 /\ ~(j <= i) /\ j # i + 1
      BY <1>1, <2>1, <2>3
    <3> QED
      BY <1>4, <1>8, <2>1, <2>3, <3>1
  <2> QED
    BY <2>2, <2>3
<1>12. r \in Seq(Location) /\ Len(r) = n + 1
  BY <1>8, <1>9, <1>10
<1>13. /\ \A j \in 1..i : r[j] = s[j]
       /\ r[i + 1] = e
       /\ \A j \in (i + 2)..(n + 1) : r[j] = s[j - 1]
  <2>1. /\ \A j \in 1..i : j \in 1..(n + 1) /\ j <= i
        /\ i + 1 \in 1..(n + 1) /\ ~(i + 1 <= i)
        /\ \A j \in (i + 2)..(n + 1) : j \in 1..(n + 1) /\ ~(j <= i) /\ j # i + 1
    BY <1>1, <1>3
  <2> QED
    BY <1>9, <1>11, <2>1
<1> QED
  BY <1>0, <1>3, <1>12, <1>13 DEF HasInserted

(* recordLocation leaves the location at the index, the one that was there *)
(* before it (if it is another one) just behind, and repeats nothing.      *)
LEMMA RecordKeeps ==
    ASSUME NEW h, Cut(h), NEW loc \in Location
    PROVE  LET r == RecordLocation(h, loc) IN
           /\ Cut(r) /\ r.index > 0 /\ r.list[r.index] = loc
           /\ h.index > 1 => r.index > 1
           /\ h.index > 0 /\ h.list[h.index] # loc =>
                 r.index > 1 /\ r.list[r.index - 1] = h.list[h.index]
<1>1. /\ h \in [list : Seq(Location), index : Nat] /\ h.index \in 0..Len(h.list)
      /\ Len(h.list) \in Nat /\ (h.index = 0 => Len(h.list) = 0)
      /\ \A i \in 1..Len(h.list) : h.list[i] \in Location
  BY LenProperties, ElementOfSeq, EmptySeq DEF Cut, Uncut
<1>2. loc.file # NoFile
  BY NowhereApart
<1>3. CASE h.index > 0 /\ h.list[h.index] = loc
  <2>1. RecordLocation(h, loc) = h
    BY <1>2, <1>3 DEF RecordLocation
  <2> QED
    BY <1>3, <2>1
<1>4. CASE h.index > 0 /\ h.list[h.index] # loc
           /\ h.index < Len(h.list) /\ h.list[h.index + 1] = loc
  <2>1. RecordLocation(h, loc) = [h EXCEPT !.index = @ + 1]
    BY <1>2, <1>4 DEF RecordLocation
  <2>2. PICK r : r = [h EXCEPT !.index = @ + 1]
    OBVIOUS
  <2>3. r \in [list : Seq(Location), index : Nat] /\ r.list = h.list /\ r.index = h.index + 1
    BY <1>1, <2>2
  <2>4. r.index - 1 = h.index /\ r.index > 1 /\ r.index <= Len(h.list)
    BY <1>1, <1>4, <2>3
  <2>5. Cut(r)
    BY <1>1, <1>4, <2>3, <2>4 DEF Cut, Uncut
  <2> QED
    BY <1>4, <2>1, <2>2, <2>3, <2>4, <2>5
<1>5. CASE /\ ~(h.index > 0 /\ h.list[h.index] = loc)
           /\ ~(h.index > 0 /\ h.list[h.index] # loc
                /\ h.index < Len(h.list) /\ h.list[h.index + 1] = loc)
  <2>1. RecordLocation(h, loc) =
          CapHistorySize([list |-> InsertAt(h.list, h.index + 1, loc), index |-> h.index + 1])
    BY <1>2, <1>5 DEF RecordLocation
  <2>2. PICK u : u = [list |-> InsertAt(h.list, h.index + 1, loc), index |-> h.index + 1]
    OBVIOUS
  <2>3. PICK k, n : k = h.index /\ n = Len(h.list)
    OBVIOUS
  <2>4. /\ u.list \in Seq(Location) /\ Len(u.list) = n + 1 /\ u.index = k + 1
        /\ u \in [list : Seq(Location), index : Nat]
        /\ \A j \in 1..k : u.list[j] = h.list[j]
        /\ u.list[k + 1] = loc
        /\ \A j \in (k + 2)..(n + 1) : u.list[j] = h.list[j - 1]
    <3>1. PICK s, l : s = h.list /\ l = InsertAt(s, k + 1, loc)
      OBVIOUS
    <3>2. s \in Seq(Location) /\ k \in 0..Len(s) /\ n = Len(s)
      BY <1>1, <2>3, <3>1
    <3>3. u.list = l /\ u.index = k + 1
      BY <2>2, <2>3, <3>1
    <3>4. HasInserted(l, s, k, loc)
      BY <3>1, <3>2, Inserted
    <3>5. u \in [list : Seq(Location), index : Nat]
      BY <1>1, <2>2, <2>3, <3>1, <3>4 DEF HasInserted
    <3> QED
      BY <3>1, <3>2, <3>3, <3>4, <3>5 DEF HasInserted
  <2>5. k \in 0..n /\ n \in Nat /\ (k = 0 => n = 0)
    BY <1>1, <2>3
  <2>6. ASSUME NEW j \in 1..n PROVE u.list[j] # u.list[j + 1]
    <3>1. j \in 1..(n + 1) /\ j + 1 \in 1..(n + 1)
      BY <2>5
    <3>2. CASE j + 1 <= k
      <4>1. j \in 1..(n - 1)
        BY <2>5, <3>2
      <4>2. u.list[j] = h.list[j] /\ u.list[j + 1] = h.list[j + 1]
        BY <2>4, <2>5, <3>1, <3>2
      <4> QED
        BY <2>3, <4>1, <4>2 DEF Cut, Uncut, NoRepeatIn
    <3>3. CASE j = k
      <4>1. u.list[j] = h.list[k] /\ u.list[j + 1] = loc /\ k > 0
        BY <2>4, <2>5, <3>1, <3>3
      <4> QED
        BY <1>5, <2>3, <4>1
    <3>4. CASE j = k + 1
      <4>1. u.list[j] = loc /\ u.list[j + 1] = h.list[k + 1] /\ k < n /\ k > 0
        BY <2>4, <2>5, <3>1, <3>4
      <4> QED
        BY <1>5, <2>3, <4>1
    <3>5. CASE j > k + 1
      <4>1. j - 1 \in 1..(n - 1) /\ (j - 1) + 1 = j
        BY <2>5, <3>5
      <4>2. u.list[j] = h.list[j - 1] /\ u.list[j + 1] = h.list[j]
        BY <2>4, <2>5, <3>1, <3>5
      <4> QED
        BY <2>3, <4>1, <4>2 DEF Cut, Uncut, NoRepeatIn
    <3> QED
      BY <2>5, <3>2, <3>3, <3>4, <3>5
  <2>7. Uncut(u) /\ u.index > 0
    <3>1. u.list # <<>>
      BY <2>4, <2>5, EmptySeq
    <3>2. NoRepeatIn(u.list)
      BY <2>4, <2>5, <2>6 DEF NoRepeatIn
    <3> QED
      BY <2>4, <2>5, <3>1, <3>2 DEF Uncut
  <2>8. u.list[u.index] = loc /\ (k > 0 => u.index > 1 /\ u.list[u.index - 1] = h.list[k])
    BY <2>4, <2>5
  <2>9. PICK c : c = CapHistorySize(u)
    OBVIOUS
  <2>10. /\ Cut(c) /\ c.index > 0 /\ c.list[c.index] = loc
         /\ k > 0 => c.index > 1 /\ c.list[c.index - 1] = h.list[k]
    BY <2>7, <2>8, <2>9, CapKeeps
  <2> QED
    BY <1>1, <2>1, <2>2, <2>3, <2>5, <2>9, <2>10
<1> QED
  BY <1>3, <1>4, <1>5

(* recordJump: the two places follow each other.                           *)
LEMMA JumpKeeps ==
    ASSUME NEW h, Cut(h), NEW from \in Location \cup {Nowhere}, NEW to \in Location
    PROVE  LET r == RecordJump(h, from, to) IN
           /\ Cut(r) /\ r.index > 0 /\ r.list[r.index] = to
           /\ from \in Location /\ from # to =>
                 r.index > 1 /\ r.list[r.index - 1] = from
<1>1. CASE from \in Location
  BY <1>1, RecordKeeps DEF RecordJump
<1>2. CASE from = Nowhere
  <2>1. RecordLocation(h, from) = h
    <3>1. /\ from.file = NoFile
          /\ h.index > 0 => h.list[h.index] # from
          /\ h.index > 0 /\ h.index < Len(h.list) => h.list[h.index + 1] # from
      <4>1. Len(h.list) \in Nat /\ h.index \in Nat /\ h.index <= Len(h.list)
            /\ \A i \in 1..Len(h.list) : h.list[i] \in Location
        BY LenProperties, ElementOfSeq DEF Cut, Uncut
      <4> QED
        BY <1>2, <4>1, NowhereApart
    <3> QED
      BY <3>1 DEF RecordLocation
  <2> QED
    BY <1>2, <2>1, RecordKeeps, NowhereApart DEF RecordJump
<1> QED
  BY <1>1, <1>2

(* goBack and goForward move by one; the old place is one step away.       *)
LEMMA GoBackKeeps ==
    ASSUME NEW h, Cut(h), h.index > 1
    PROVE  LET r == GoBack(h) IN
           /\ Cut(r) /\ r.index > 0 /\ r.index < Len(r.list)
           /\ r.list[r.index] = h.list[h.index - 1]
           /\ r.list[r.index + 1] = h.list[h.index]
<1>1. /\ h \in [list : Seq(Location), index : Nat] /\ h.index \in 2..Len(h.list)
      /\ Len(h.list) \in Nat
  BY LenProperties DEF Cut, Uncut
<1>2. PICK u : u = [h EXCEPT !.index = @ - 1]
  OBVIOUS
<1>3. u \in [list : Seq(Location), index : Nat] /\ u.list = h.list /\ u.index = h.index - 1
  BY <1>1, <1>2
<1>4. Uncut(u) /\ u.index > 0 /\ u.index < Len(u.list) /\ u.index + 1 = h.index
  BY <1>1, <1>3 DEF Cut, Uncut
<1>5. GoBack(h) = CapHistorySize(u)
  BY <1>1, <1>2 DEF GoBack
<1> QED
  BY <1>3, <1>4, <1>5, CapKeeps

LEMMA GoForwardKeeps ==
    ASSUME NEW h, Cut(h), h.index < Len(h.list)
    PROVE  LET r == GoForward(h) IN
           /\ Cut(r) /\ r.index > 0
           /\ r.list[r.index] = h.list[h.index + 1]
<1>1. /\ h \in [list : Seq(Location), index : Nat] /\ h.index \in Nat /\ Len(h.list) \in Nat
  BY LenProperties DEF Cut, Uncut
<1>2. PICK u : u = [h EXCEPT !.index = @ + 1]
  OBVIOUS
<1>3. u \in [list : Seq(Location), index : Nat] /\ u.list = h.list /\ u.index = h.index + 1
  BY <1>1, <1>2
<1>4. Uncut(u) /\ u.index > 0
  <2>1. u.list # <<>>
    BY <1>1, <1>3, EmptySeq
  <2> QED
    BY <1>1, <1>3, <2>1 DEF Cut, Uncut
<1>5. GoForward(h) = CapHistorySize(u)
  BY <1>1, <1>2 DEF GoForward
<1> QED
  BY <1>3, <1>4, <1>5, CapKeeps
-----------------------------------------------------------------------------
(* The steps. *)

LEMMA CurrentType ==
    ASSUME Cut(Current)
    PROVE  /\ m_history \in Seq(Location) /\ m_historyIndex \in Nat
           /\ Len(m_history) \in Nat /\ m_historyIndex <= Len(m_history)
           /\ Current.list = m_history /\ Current.index = m_historyIndex
           /\ \A i \in 1..Len(m_history) : m_history[i] \in Location
<1>1. Current.list = m_history /\ Current.index = m_historyIndex
  BY DEF Current
<1>2. m_history \in Seq(Location) /\ m_historyIndex \in Nat /\ m_historyIndex <= Len(m_history)
  BY <1>1 DEF Cut, Uncut
<1> QED
  BY <1>1, <1>2, LenProperties, ElementOfSeq

(* The history becomes h.                                                  *)
LEMMA BecomeType ==
    ASSUME NEW h, Cut(h), Become(h)
    PROVE  Cut(Current)' /\ m_history' = h.list /\ m_historyIndex' = h.index
<1>1. h = [list |-> h.list, index |-> h.index]
  BY DEF Cut, Uncut
<1>2. Current' = h
  BY <1>1 DEF Become, Current
<1> QED
  BY <1>2 DEF Become, Cut, Uncut, NoRepeatIn

LEMMA HistoryInit == Init => HistoryInv
<1> SUFFICES ASSUME Init PROVE HistoryInv
  OBVIOUS
<1>1. Cut(Current)
  <2>1. Current = [list |-> <<>>, index |-> 0] /\ <<>> \in Seq(Location) /\ Len(<<>>) = 0
    BY EmptySeq DEF Init, Current
  <2> QED
    BY <2>1, HistoryAssumption DEF Cut, Uncut, NoRepeatIn
<1>2. trail \in Trail /\ FromInv /\ TrailInv
  BY DEF Init, FromInv, TrailInv, Aside, Trail
<1>3. HereInv
  BY DEF Init, HereInv
<1> QED
  BY <1>1, <1>2, <1>3 DEF Init, HistoryInv

LEMMA ScrollInv ==
    ASSUME HistoryInv, NEW offset \in Offset, Scroll(offset)
    PROVE  HistoryInv'
<1>1. here \in Location /\ here' = [here EXCEPT !.offset = offset] /\ offset <= range[here.file]
  BY NowhereApart DEF Scroll, HistoryInv, HereInv
<1>2. here' \in Location /\ here'.offset <= range'[here'.file]
  BY <1>1 DEF Location, Scroll
<1>3. Cut(Current)'
  BY DEF Scroll, HistoryInv, Cut, Uncut, Current, NoRepeatIn
<1> QED
  BY <1>2, <1>3 DEF Scroll, HistoryInv, HereInv, FromInv, TrailInv, Aside, Trail

LEMMA ResizeInv ==
    ASSUME HistoryInv, NEW newRange \in [File -> Offset], Resize(newRange)
    PROVE  HistoryInv'
<1>1. here' = Nowhere \/ (here' \in Location /\ here'.offset <= range'[here'.file])
  <2>1. CASE here = Nowhere
    BY <2>1, NowhereApart DEF Resize
  <2>2. CASE here \in Location
    <3>1. here' = [here EXCEPT !.offset = Least(here.offset, newRange[here.file])]
          /\ here.file \in File /\ here.offset \in Offset
      BY <2>2, NowhereApart DEF Resize
    <3>2. /\ Least(here.offset, newRange[here.file]) \in Offset
          /\ Least(here.offset, newRange[here.file]) <= newRange[here.file]
      BY <3>1, HistoryAssumption DEF Least, Offset
    <3> QED
      BY <2>2, <3>1, <3>2 DEF Resize, Location
  <2> QED
    BY <2>1, <2>2 DEF HistoryInv, HereInv
<1>2. here \in Location => here' \in Location
  BY <1>1, NowhereApart DEF Resize, Location, Nowhere
<1>3. Cut(Current)'
  BY DEF Resize, HistoryInv, Cut, Uncut, Current, NoRepeatIn
<1> QED
  BY <1>1, <1>2, <1>3 DEF Resize, HistoryInv, HereInv, FromInv, TrailInv, Aside, Trail

LEMMA JumpToInv ==
    ASSUME HistoryInv, NEW to \in Location, to.offset <= range[to.file], JumpTo(to)
    PROVE  HistoryInv'
<1>1. PICK r : r = RecordJump(Current, here, to)
  OBVIOUS
<1>2. /\ Cut(r) /\ r.index > 0 /\ r.list[r.index] = to
      /\ here \in Location /\ here # to => r.index > 1 /\ r.list[r.index - 1] = here
  BY <1>1, JumpKeeps DEF HistoryInv, HereInv
<1>3. Cut(Current)' /\ m_history' = r.list /\ m_historyIndex' = r.index
  BY <1>1, <1>2, BecomeType DEF JumpTo
<1>4. HereInv'
  BY DEF JumpTo, HereInv
<1>5. \/ trail' = Aside
      \/ here \in Location /\ here # to /\ trail' = [step |-> "jump", from |-> here]
  BY DEF JumpTo, HistoryInv, HereInv
<1>6. trail' \in Trail /\ FromInv'
  BY <1>5 DEF JumpTo, HistoryInv, HereInv, FromInv, Trail, Aside
<1>7. TrailInv'
  BY <1>2, <1>3, <1>5 DEF JumpTo, TrailInv, Aside
<1> QED
  BY <1>3, <1>4, <1>6, <1>7 DEF JumpTo, HistoryInv

(* Where a file that is opened is shown.                                   *)
LEMMA OpenedType ==
    ASSUME HistoryInv, NEW file \in File
    PROVE  AfterSetFile(file) \in Location /\ AfterSetFile(file).offset <= range[file]
           /\ AfterSetFile(file).file = file
<1>1. 0 \in Offset /\ range[file] \in Nat
  BY HistoryAssumption DEF HistoryInv, Offset
<1>2. CASE here.file = file
  <2>1. here \in Location /\ here.offset <= range[here.file]
    BY <1>2, HistoryAssumption DEF HistoryInv, HereInv, Nowhere
  <2> QED
    BY <1>2, <2>1 DEF AfterSetFile
<1>3. CASE here.file # file
  BY <1>1, <1>3 DEF AfterSetFile, Location
<1> QED
  BY <1>2, <1>3

(* A location of the list is shown as far as the scroll range allows.      *)
LEMMA ShowInv ==
    ASSUME range \in [File -> Offset], UNCHANGED range, NEW loc \in Location, Show(loc)
    PROVE  /\ here' \in Location /\ here'.offset <= range'[here'.file]
           /\ loc.offset <= range[loc.file] => here' = loc
<1>1. here' = [loc EXCEPT !.offset = Least(loc.offset, range[loc.file])]
      /\ loc.file \in File /\ loc.offset \in Offset /\ range[loc.file] \in Offset
  BY NowhereApart DEF Show
<1>2. /\ Least(loc.offset, range[loc.file]) \in Offset
      /\ Least(loc.offset, range[loc.file]) <= range[loc.file]
      /\ loc.offset <= range[loc.file] => Least(loc.offset, range[loc.file]) = loc.offset
  BY <1>1, HistoryAssumption DEF Least, Offset
<1> QED
  BY <1>1, <1>2 DEF Location

(* actionBack leaves the place it is called at one step ahead, and shows   *)
(* the place behind it.                                                    *)
LEMMA BackShows ==
    ASSUME HistoryInv, Back
    PROVE  HistoryInv' /\ (trail.step = "jump" => here' = trail.from)
<1>1. m_historyIndex > 1 /\ here \in Location
  BY CurrentType DEF Back, CanGoBack, HistoryInv, HereInv
<1>2. PICK r : r = RecordLocation(Current, here)
  OBVIOUS
<1>3. /\ Cut(r) /\ r.index > 1 /\ r.list[r.index] = here
      /\ m_history[m_historyIndex] = here => r = Current
  <2>1. Cut(r) /\ r.index > 1 /\ r.list[r.index] = here
    BY <1>1, <1>2, RecordKeeps, CurrentType DEF HistoryInv
  <2>2. m_history[m_historyIndex] = here => r = Current
    BY <1>1, <1>2, NowhereApart, CurrentType DEF RecordLocation, HistoryInv
  <2> QED
    BY <2>1, <2>2
<1>4. PICK h : h = GoBack(r)
  OBVIOUS
<1>5. /\ Cut(h) /\ h.index > 0 /\ h.index < Len(h.list)
      /\ h.list[h.index] = r.list[r.index - 1] /\ h.list[h.index + 1] = here
  BY <1>3, <1>4, GoBackKeeps
<1>6. Become(h) /\ Show(h.list[h.index]) /\ trail' = [step |-> "back", from |-> here]
      /\ UNCHANGED <<range, crashed>>
  BY <1>2, <1>4 DEF Back
<1>7. Cut(Current)' /\ m_history' = h.list /\ m_historyIndex' = h.index
  BY <1>5, <1>6, BecomeType
<1>8. h.list[h.index] \in Location /\ h.index \in 1..(Len(h.list) - 1)
  <2>1. h.list \in Seq(Location) /\ h.index \in Nat /\ Len(h.list) \in Nat
    BY <1>5, LenProperties DEF Cut, Uncut
  <2> QED
    BY <1>5, <2>1, ElementOfSeq
<1>9. /\ here' \in Location /\ here'.offset <= range'[here'.file]
      /\ LET loc == h.list[h.index] IN loc.offset <= range[loc.file] => here' = loc
  BY <1>6, <1>8, ShowInv DEF HistoryInv
<1>10. HistoryInv'
  <2>1. HereInv'
    BY <1>9 DEF HereInv
  <2>2. trail' \in Trail /\ FromInv'
    BY <1>1, <1>6, NowhereApart DEF HistoryInv, HereInv, FromInv, Trail
  <2>3. TrailInv'
    BY <1>5, <1>6, <1>7, <1>8 DEF TrailInv
  <2> QED
    BY <1>6, <1>7, <2>1, <2>2, <2>3 DEF HistoryInv
<1>11. ASSUME trail.step = "jump" PROVE here' = trail.from
  <2>1. m_history[m_historyIndex] = here /\ m_history[m_historyIndex - 1] = trail.from
        /\ trail.from.offset <= range[trail.from.file]
    BY <1>11 DEF HistoryInv, TrailInv, FromInv
  <2>2. h.list[h.index] = trail.from
    BY <1>3, <1>5, <2>1, CurrentType DEF HistoryInv
  <2> QED
    BY <1>9, <2>1, <2>2
<1> QED
  BY <1>10, <1>11

(* actionForward; where the location is still the one that Back showed,    *)
(* the next one is where Back was called.                                  *)
LEMMA ForwardShows ==
    ASSUME HistoryInv, Forward
    PROVE  /\ HistoryInv'
           /\ trail.step = "back" /\ here = m_history[m_historyIndex] => here' = trail.from
<1>1. here \in Location \cup {Nowhere}
  BY DEF HistoryInv, HereInv
<1>2. PICK r : r = RecordLocation(Current, here)
  OBVIOUS
<1>3. Cut(r) /\ (here = m_history[m_historyIndex] /\ m_historyIndex > 0 => r = Current)
  <2>1. CASE here \in Location
    <3>1. Cut(r)
      BY <1>2, <2>1, RecordKeeps DEF HistoryInv
    <3>2. here = m_history[m_historyIndex] /\ m_historyIndex > 0 => r = Current
      BY <1>2, <2>1, NowhereApart, CurrentType DEF RecordLocation, HistoryInv
    <3> QED
      BY <3>1, <3>2
  <2>2. CASE here = Nowhere
    <3>1. m_historyIndex = 0
      BY <2>2, NowhereApart, CurrentType DEF HistoryInv, HereInv
    <3>2. r = Current
      BY <1>2, <2>2, <3>1, NowhereApart, CurrentType DEF RecordLocation, HistoryInv
    <3> QED
      BY <3>2 DEF HistoryInv
  <2> QED
    BY <1>1, <2>1, <2>2
<1>4. PICK h : h = GoForward(r)
  OBVIOUS
<1>5. /\ Become(h) /\ trail' = Aside /\ UNCHANGED range
      /\ IF r.index < Len(r.list) THEN Show(h.list[h.index]) /\ crashed' = FALSE
                                  ELSE here' = here /\ crashed' = TRUE
  BY <1>2, <1>4 DEF Forward
<1>6. r.index \in Nat /\ Len(r.list) \in Nat /\ r.index <= Len(r.list)
  BY <1>3, LenProperties DEF Cut, Uncut
<1>7. CASE r.index < Len(r.list)
  <2>1. Cut(h) /\ h.index > 0 /\ h.list[h.index] = r.list[r.index + 1]
    BY <1>3, <1>4, <1>7, GoForwardKeeps
  <2>2. r.list[r.index + 1] \in Location
    <3>1. r.list \in Seq(Location) /\ r.index + 1 \in 1..Len(r.list)
      BY <1>3, <1>6, <1>7 DEF Cut, Uncut
    <3> QED
      BY <3>1, ElementOfSeq
  <2>3. Cut(Current)'
    BY <1>5, <2>1, BecomeType
  <2>4. /\ here' \in Location /\ here'.offset <= range'[here'.file]
        /\ LET loc == r.list[r.index + 1] IN loc.offset <= range[loc.file] => here' = loc
    BY <1>5, <1>7, <2>1, <2>2, ShowInv DEF HistoryInv
  <2>5. HistoryInv'
    BY <1>5, <1>7, <2>3, <2>4 DEF HistoryInv, HereInv, FromInv, TrailInv, Aside, Trail
  <2>6. ASSUME trail.step = "back", here = m_history[m_historyIndex] PROVE here' = trail.from
    <3>1. m_historyIndex > 0 /\ m_history[m_historyIndex + 1] = trail.from
          /\ trail.from.offset <= range[trail.from.file]
      BY <2>6 DEF HistoryInv, TrailInv, FromInv
    <3>2. r.list[r.index + 1] = trail.from
      BY <1>3, <2>6, <3>1, CurrentType DEF HistoryInv
    <3> QED
      BY <2>4, <3>1, <3>2
  <2> QED
    BY <2>5, <2>6
<1>8. CASE ~(r.index < Len(r.list))
  <2>1. h = r /\ here' = here
    BY <1>4, <1>5, <1>6, <1>8 DEF GoForward
  <2>2. Cut(Current)' /\ m_historyIndex' = r.index
    BY <1>3, <1>5, <2>1, BecomeType
  <2>3. m_historyIndex' > 0 => here \in Location
    <3>1. here = Nowhere => r = Current
      BY <1>2, <1>3, NowhereApart, CurrentType DEF RecordLocation, HistoryInv, HereInv
    <3> QED
      BY <1>1, <2>2, <3>1, CurrentType DEF HistoryInv, HereInv
  <2>4. HistoryInv'
    BY <1>5, <1>8, <2>1, <2>2, <2>3 DEF HistoryInv, HereInv, FromInv, TrailInv, Aside, Trail
  <2>5. ~(trail.step = "back" /\ here = m_history[m_historyIndex])
    <3> SUFFICES ASSUME trail.step = "back", here = m_history[m_historyIndex] PROVE FALSE
      OBVIOUS
    <3>1. m_historyIndex \in 1..(Len(m_history) - 1)
      BY DEF HistoryInv, TrailInv
    <3> QED
      BY <1>3, <1>8, <3>1, CurrentType DEF HistoryInv
  <2> QED
    BY <2>4, <2>5
<1> QED
  BY <1>7, <1>8

LEMMA HistoryNext == HistoryInv /\ [Next]_vars => HistoryInv'
<1> SUFFICES ASSUME HistoryInv, [Next]_vars PROVE HistoryInv'
  OBVIOUS
<1>1. ASSUME NEW file \in File, NavigateToFile(file) PROVE HistoryInv'
  BY <1>1, OpenedType, JumpToInv DEF NavigateToFile
<1>2. ASSUME NEW file \in File, NEW offset \in Offset, NavigateToRef(file, offset) PROVE HistoryInv'
  <2>1. PICK to : to = [file |-> file, offset |-> offset]
    OBVIOUS
  <2>2. to \in Location /\ to.offset <= range[to.file] /\ JumpTo(to)
    BY <1>2, <2>1 DEF NavigateToRef, Location
  <2> QED
    BY <2>2, JumpToInv
<1>3. CASE UNCHANGED vars
  BY <1>3 DEF vars, HistoryInv, HereInv, FromInv, TrailInv, Cut, Uncut, Current, NoRepeatIn
<1> QED
  BY <1>1, <1>2, <1>3, ScrollInv, ResizeInv, BackShows, ForwardShows DEF Next

LEMMA HistoryInvariance == Spec => []HistoryInv
BY HistoryInit, HistoryNext, PTL DEF Spec

(* The index stays one of the list's (checkHistoryIndex, History.cc:80-87) *)
(* and no location follows itself, however long the history gets and       *)
(* wherever it is cut.                                                     *)
THEOREM HistoryNoRepeat == Spec => []NoRepeat
<1>1. HistoryInv => NoRepeat
  <2> SUFFICES ASSUME HistoryInv PROVE NoRepeat
    OBVIOUS
  <2>1. Current.list = m_history /\ Current.index = m_historyIndex
    BY DEF Current
  <2>2. TypeOK
    BY <2>1, CurrentType DEF HistoryInv, HereInv, Cut, Uncut, TypeOK
  <2> QED
    BY <2>1, <2>2 DEF NoRepeat, HistoryInv, Cut, Uncut, NoRepeatIn
<1> QED
  BY <1>1, HistoryInvariance, PTL

(* Back undoes a jump and Forward undoes Back (MainWindow.cc, actionBack   *)
(* and actionForward), whatever is in the history and however it was cut.  *)
THEOREM HistoryUndoes == Spec => BackAndForwardUndo
<1>1. HistoryInv => [Back /\ trail.step = "jump" => here' = trail.from]_vars
  BY BackShows
<1>2. HistoryInv => [Forward /\ trail.step = "back" /\ here = m_history[m_historyIndex]
                     => here' = trail.from]_vars
  BY ForwardShows
<1> QED
  BY <1>1, <1>2, HistoryInvariance, PTL DEF BackAndForwardUndo
=============================================================================
