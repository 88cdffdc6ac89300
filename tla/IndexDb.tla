------------------------------ MODULE IndexDb -------------------------------
(***************************************************************************)
(* libindexdb/IndexDb.cc: an Index, its string tables and tables, as a     *)
(* value and the operations on it.  A row holds IDs in the columns that    *)
(* name a string table and numbers in the others; the ID of a string is    *)
(* its position in the table (StringTable refines that), so an ID is 1     *)
(* more than the code's.                                                   *)
(*                                                                         *)
(* Abstracted: the encoding of rows (a row is the sequence of its values,  *)
(* see RowTable) and of files: what is written is what is read.            *)
(***************************************************************************)
EXTENDS SequencesExt

CONSTANTS StringTableName,  \* names of string tables
          Columns,          \* Columns[t]: the string table of each column
          Plain             \* in place of one: the column is not remapped

(* m_stringTables, m_finalizedStringTables, m_tables (in order of          *)
(* insertion, or sorted once read-only), and the read-only ones.           *)
EmptyIndex ==
    [strings   |-> [n \in StringTableName |-> <<>>],
     finalized |-> {},
     rows      |-> <<>>,
     readonly  |-> {}]

Has(seq, x) == \E i \in DOMAIN seq : seq[i] = x

(* StringTable::insert and its result. *)
Inserted(seq, x) == IF Has(seq, x) THEN seq ELSE Append(seq, x)
IdOf(seq, x) == CHOOSE i \in DOMAIN seq : seq[i] = x

InsertAll(seq, xs) ==
    LET after[i \in 0 .. Len(xs)] == IF i = 0 THEN seq ELSE Inserted(after[i - 1], xs[i])
    IN after[Len(xs)]

InsertString(ix, n, s) == [ix EXCEPT !.strings[n] = Inserted(@, s)]

(* Mutant: an existing table is made anew. *)
AddTables_anew(ix, ts) ==
    [ix EXCEPT !.rows = [t \in DOMAIN @ \cup ts |-> IF t \in ts THEN <<>> ELSE @[t]]]

(* Index::addTable of each: the string tables of its columns exist already. *)
AddTables(ix, ts) ==
    [ix EXCEPT !.rows = [t \in DOMAIN @ \cup ts |-> IF t \in DOMAIN @ THEN @[t] ELSE <<>>]]

(* Table::add: the row set is a StringTable of encoded rows. *)
AddRow(ix, t, row) == [ix EXCEPT !.rows[t] = Inserted(@, row)]

(* The row with the IDs of the tables that `map` renumbers replaced.       *)
Remap(t, map, row) ==
    [c \in DOMAIN row |->
        IF Columns[t][c] \in DOMAIN map THEN map[Columns[t][c]][row[c]] ELSE row[c]]

RemapAll(t, map, rows) == [i \in DOMAIN rows |-> Remap(t, map, rows[i])]
-----------------------------------------------------------------------------
(* Mutant: rows keep the IDs of the other index. *)
Merge_noremap(ix, other) ==
    LET strings == [n \in StringTableName |-> InsertAll(ix.strings[n], other.strings[n])]
        wide == AddTables(ix, DOMAIN other.rows)
    IN [wide EXCEPT !.strings = strings,
                    !.rows = [t \in DOMAIN @ |->
                        IF t \in DOMAIN other.rows
                        THEN InsertAll(@[t], other.rows[t]) ELSE @[t]]]

(* Index::merge. *)
Merge(ix, other) ==
    LET strings == [n \in StringTableName |-> InsertAll(ix.strings[n], other.strings[n])]
        map == [n \in StringTableName |->
                   [id \in DOMAIN other.strings[n] |->
                       IdOf(strings[n], other.strings[n][id])]]
        wide == AddTables(ix, DOMAIN other.rows)
    IN [wide EXCEPT
          !.strings = strings,
          !.rows = [t \in DOMAIN wide.rows |->
              IF t \in DOMAIN other.rows
              THEN InsertAll(wide.rows[t], RemapAll(t, map, other.rows[t]))
              ELSE wide.rows[t]]]

(* std::sort of distinct items: each has as many before it as are below it. *)
Sorted(seq, Less(_, _)) ==
    LET Below(x) == {y \in ToSet(seq) : Less(y, x)}
    IN [i \in DOMAIN seq |-> CHOOSE x \in ToSet(seq) : Cardinality(Below(x)) = i - 1]

(* memcmp of two rows of one table, as big-endian integers. *)
RowLess(x, y) ==
    \E c \in DOMAIN x : x[c] < y[c] /\ \A b \in 1..(c - 1) : x[b] = y[b]

(* Mutant: rows are sorted before they are renumbered. *)
SetReadOnly_presort(t, map, rows) == RemapAll(t, map, Sorted(rows, RowLess))

(* Table::setReadOnly *)
SetReadOnly(t, map, rows) == Sorted(RemapAll(t, map, rows), RowLess)

(* Index::finalizeTables: string tables that were not finalized before are *)
(* sorted, then the tables that are still writable are renumbered, sorted  *)
(* and become read-only.                                                   *)
FinalizeTables(ix) ==
    LET fresh == StringTableName \ ix.finalized
        sorted == [n \in fresh |-> Sorted(ix.strings[n], <)]
        map == [n \in fresh |->
                   [id \in DOMAIN ix.strings[n] |-> IdOf(sorted[n], ix.strings[n][id])]]
    IN [ix EXCEPT
          !.strings = [n \in StringTableName |-> IF n \in fresh THEN sorted[n] ELSE @[n]],
          !.finalized = StringTableName,
          !.rows = [t \in DOMAIN @ |->
              IF t \in ix.readonly THEN @[t]
              ELSE SetReadOnly(t, map, @[t])],
          !.readonly = DOMAIN ix.rows]
-----------------------------------------------------------------------------
(* The row with its strings in place of their IDs. *)
Decode(ix, t, row) ==
    [c \in DOMAIN row |->
        IF Columns[t][c] = Plain THEN row[c] ELSE ix.strings[Columns[t][c]][row[c]]]

(* What a table says: the set of its rows, decoded. *)
Relation(ix, t) ==
    IF t \in DOMAIN ix.rows THEN {Decode(ix, t, ix.rows[t][i]) : i \in DOMAIN ix.rows[t]}
                            ELSE {}
=============================================================================
