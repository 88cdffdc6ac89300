------------------------------ MODULE RowTable ------------------------------
(***************************************************************************)
(* libindexdb/IndexDb.cc: a read-only table as bytes, and the binary       *)
(* search over them that every query of the navigator starts with.         *)
(*                                                                         *)
(* A value, plus 1, is written in digits of base `Base` (128 in the code), *)
(* least first; a byte is a digit, plus `Base` if more digits follow, so   *)
(* only a NUL byte is 0.  A row ends with NUL and another NUL precedes all *)
(* rows.  An iterator is a position in the buffer, from 1.                 *)
(***************************************************************************)
EXTENDS Naturals, SequencesExt

CONSTANTS Base,      \* 2^7
          MaxValue,  \* bound: values of a column
          Width,     \* columns of the table
          MaxRows    \* bound: rows of the table

ASSUME RowAssumption ==
    /\ Base \in Nat \ {0, 1}
    /\ MaxValue \in Nat
    /\ Width \in Nat \ {0}
    /\ MaxRows \in Nat

VARIABLES rows,    \* the rows, sorted, as setReadOnly leaves them
          buffer,  \* m_stringSetBuffer
          query,   \* the argument of lowerBound, which may have fewer columns
          itMin, itMax

vars == <<rows, buffer, query, itMin, itMax>>

Value == 0..MaxValue
NUL == 0

Row == [1..Width -> Value]
Query == UNION {[1..n -> Value] : n \in 1..2 \cap 1..Width}

(* The definition of the order of rows, and of a row and a shorter query.  *)
Precedes(x, y) ==
    \E c \in DOMAIN x \cap DOMAIN y : x[c] < y[c] /\ \A b \in 1..(c - 1) : x[b] = y[b]
-----------------------------------------------------------------------------
(* writeVleUInt32 *)
WriteVle[n \in 0..(MaxValue + 1)] ==
    IF n < Base THEN <<n>> ELSE <<Base + (n % Base)>> \o WriteVle[n \div Base]

(* Mutant: values are written as they are. *)
EncodeRow_plain(row) == FlattenSeq([c \in 1..Width |-> WriteVle[row[c]]]) \o <<NUL>>

EncodeRow(row) == FlattenSeq([c \in 1..Width |-> WriteVle[row[c] + 1]]) \o <<NUL>>

(* What setReadOnly makes of sorted rows. *)
Buffer(sorted) == <<NUL>> \o FlattenSeq([i \in DOMAIN sorted |-> EncodeRow(sorted[i])])

(* readVleUInt32 at p: the value, and the position after it.               *)
ReadVle(p0) ==
    LET read[p \in 1..Len(buffer)] ==
            IF buffer[p] < Base
            THEN [value |-> buffer[p], next |-> p + 1]
            ELSE [value |-> buffer[p] - Base + Base * read[p + 1].value,
                  next |-> read[p + 1].next]
    IN read[p0]

DecodeRow(p) ==
    LET start[c \in 1..Width] == IF c = 1 THEN p ELSE ReadVle(start[c - 1]).next
    IN [c \in 1..Width |-> ReadVle(start[c]).value - 1]

begin == 2
end == Len(buffer) + 1

(* TableIterator: ++ and --. *)
Increment(p) == 1 + CHOOSE q \in p..Len(buffer) :
                        buffer[q] = NUL /\ \A r \in p..(q - 1) : buffer[r] # NUL

Decrement(p) == 1 + CHOOSE q \in 1..(p - 2) :
                        buffer[q] = NUL /\ \A r \in (q + 1)..(p - 2) : buffer[r] # NUL

(* Mutant: a longer row comes before its prefix. *)
RowLess_prefix(x, y) == Precedes(x, y) \/ (~Precedes(y, x) /\ Len(x) > Len(y))

(* operator< of Row: the first common column that differs decides, then    *)
(* the number of columns.                                                  *)
RowLess(x, y) == Precedes(x, y) \/ (~Precedes(y, x) /\ Len(x) < Len(y))

(* Mutant: the middle byte is taken for the start of a row. *)
Middle_byte == itMin + (itMax - itMin) \div 2

(* The row that holds the byte in the middle of [itMin, itMax).            *)
Middle == Decrement(Increment(itMin + (itMax - itMin) \div 2))
-----------------------------------------------------------------------------
Init ==
    /\ rows \in UNION {[1..n -> Row] : n \in 0..MaxRows}
    /\ \A i, j \in DOMAIN rows : i < j => Precedes(rows[i], rows[j])
    /\ buffer = Buffer(rows)
    /\ query \in Query
    /\ itMin = begin
    /\ itMax = end

(* Mutant: itMin stays on the row that was compared. *)
Search_stuck ==
    /\ itMin # itMax
    /\ IF RowLess(DecodeRow(Middle), query)
       THEN itMin' = Middle /\ UNCHANGED itMax
       ELSE itMax' = Middle /\ UNCHANGED itMin
    /\ UNCHANGED <<rows, buffer, query>>

(* One round of lowerBound's loop. *)
Search ==
    /\ itMin # itMax
    /\ IF RowLess(DecodeRow(Middle), query)
       THEN itMin' = Increment(Middle) /\ UNCHANGED itMax
       ELSE itMax' = Middle /\ UNCHANGED itMin
    /\ UNCHANGED <<rows, buffer, query>>

Next == Search

Spec == Init /\ [][Next]_vars /\ WF_vars(Search)
-----------------------------------------------------------------------------
(* position[i]: where row i starts, position[Len(rows) + 1] the end.       *)
Position ==
    LET position[i \in 1..(Len(rows) + 1)] ==
            IF i = 1 THEN begin ELSE position[i - 1] + Len(EncodeRow(rows[i - 1]))
    IN position

(* Both iterators are on starts of rows and in order (the assertions of    *)
(* IndexDb.cc:305-309).                                                    *)
TypeOK ==
    /\ buffer \in Seq(0..(2 * Base - 1))
    /\ \E i, j \in DOMAIN Position : itMin = Position[i] /\ itMax = Position[j]
    /\ itMin <= itMax

(* Going through the buffer in either direction visits the rows, although  *)
(* a value of 0 and a digit of 0 inside a value are no row ends            *)
(* (IndexDb.cc:32-33).                                                     *)
IteratesRows ==
    /\ TypeOK
    /\ \A i \in 1..Len(rows) :
          /\ DecodeRow(Position[i]) = rows[i]
          /\ Increment(Position[i]) = Position[i + 1]
          /\ Decrement(Position[i + 1]) = Position[i]

(* The result is the first row that is not less than the query: rows       *)
(* before itMin are less and rows from itMax on are not.                   *)
Brackets ==
    \A i \in 1..Len(rows) :
        /\ Position[i] < itMin => Precedes(rows[i], query)
        /\ Position[i] >= itMax => ~Precedes(rows[i], query)

(* The rows a query of the navigator reads from the lower bound on: while  *)
(* the first column is the query's and the second is not above `last`.     *)
Answer(last) ==
    LET from == {i \in 1..Len(rows) : Position[i] >= itMin}
        wanted(i) == rows[i][1] = query[1] /\ (Len(query) > 1 => rows[i][2] <= last)
    IN {rows[i] : i \in {j \in from : \A k \in from : k <= j => wanted(k)}}

(* It finds every row it should (queryFileRefs, queryReferencesOfSymbol,   *)
(* queryAllPaths): stopping at the first other row misses none.            *)
AnswerComplete ==
    itMin = itMax =>
        \A last \in Value :
            Answer(last) =
                {rows[i] : i \in {j \in 1..Len(rows) :
                    /\ rows[j][1] = query[1]
                    /\ Len(query) > 1 => rows[j][2] \in query[2]..last}}

(* The search ends, whatever the lengths of the rows are. *)
Termination == <>(itMin = itMax)
=============================================================================
