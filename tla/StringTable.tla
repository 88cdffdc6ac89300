---------------------------- MODULE StringTable -----------------------------
(***************************************************************************)
(* libindexdb/StringTable.cc: strings numbered in order of insertion and   *)
(* found again through a hash table with chaining inside the node array;   *)
(* the table of buckets grows through primeSizes.                          *)
(*                                                                         *)
(* Abstracted: m_data (a node holds its string), the byte order of the     *)
(* stored integers, the 32 bits of MurmurHash (`hash` is any function, so  *)
(* every pattern of collisions occurs), primeSizes (SmallSize).  IDs are 1 *)
(* more than the code's and 0 is kInvalidID.                               *)
(***************************************************************************)
EXTENDS Naturals, Sequences, FiniteSets

CONSTANTS String,         \* strings; a smaller number is a smaller string
          HashValue,      \* bound: the hash values that occur
          InitialSize,    \* buckets of a new table: 32 bytes of IDs
          SmallSize       \* in place of primeSizes: a growing sequence

Sizes == {InitialSize} \cup {SmallSize[i] : i \in 1..Len(SmallSize)}

(* The last conjunct is "StringTable is too big" (StringTable.cc:53): the  *)
(* sizes go beyond what the strings of one run can ask for.                *)
ASSUME TableAssumption ==
    /\ String \subseteq Nat /\ IsFiniteSet(String)
    /\ HashValue \subseteq Nat
    /\ InitialSize \in Nat \ {0}
    /\ SmallSize \in Seq(Nat \ {0})
    /\ \A size \in Sizes : Cardinality(String) * 2 > size =>
          \E i \in 1..Len(SmallSize) : SmallSize[i] >= size * 2

VARIABLES hash,     \* the hash function
          table,    \* m_table and m_index of the StringTable
          answer,   \* what the last call returned
          renumber  \* the ID map that finalized() returned, <<>> before

vars == <<hash, table, answer, renumber>>

kInvalidID == 0

(* A StringTable: its nodes in ID order, each with the next ID of its      *)
(* chain, and the first ID of every bucket.                                *)
NewTable == [node |-> <<>>, bucket |-> [b \in 0..(InitialSize - 1) |-> kInvalidID]]

IndexSize(t) == Cardinality(DOMAIN t.bucket)

Bucket(s, size) == hash[s] % size
-----------------------------------------------------------------------------
(* StringTable::lookup: follow the chain of the string's bucket.           *)
Lookup(t, s) ==
    LET follow[id \in 0..Len(t.node)] ==
            IF id = kInvalidID \/ t.node[id].string = s
            THEN id
            ELSE follow[t.node[id].next]
    IN follow[t.bucket[Bucket(s, IndexSize(t))]]

(* Mutant: the size asked for instead of one of the prime sizes. *)
NextPrimeSize_asked(size) == size

NextPrimeSize(size) ==
    LET big == {i \in 1..Len(SmallSize) : SmallSize[i] >= size} IN
    SmallSize[CHOOSE i \in big : \A j \in big : i <= j]

(* Put node `id` at the head of its chain.                                 *)
Link(t, id) ==
    LET b == Bucket(t.node[id].string, IndexSize(t)) IN
    [t EXCEPT !.node[id].next = t.bucket[b], !.bucket[b] = id]

(* Mutant: the chains are kept as they were. *)
ResizeHashTable_nolink(t, size) ==
    [t EXCEPT !.bucket = [b \in 0..(size - 1) |->
                            IF b \in DOMAIN t.bucket THEN t.bucket[b] ELSE kInvalidID]]

ResizeHashTable(t, size) ==
    LET linked[id \in 0..Len(t.node)] ==
            IF id = 0
            THEN [t EXCEPT !.bucket = [b \in 0..(size - 1) |-> kInvalidID]]
            ELSE Link(linked[id - 1], id)
    IN linked[Len(t.node)]

(* Mutant: the bucket is computed before the table grows.                  *)
Add_early(t, s) ==
    LET b == Bucket(s, IndexSize(t))
        room == IF Len(t.node) * 2 > IndexSize(t)
                THEN ResizeHashTable(t, NextPrimeSize(IndexSize(t) * 2))
                ELSE t
    IN [room EXCEPT !.node = Append(@, [string |-> s, next |-> room.bucket[b]]),
                    !.bucket[b] = Len(t.node) + 1]

(* StringTable::insert of a string that lookup did not find.               *)
Add(t, s) ==
    LET room == IF Len(t.node) * 2 > IndexSize(t)
                THEN ResizeHashTable(t, NextPrimeSize(IndexSize(t) * 2))
                ELSE t
    IN Link([room EXCEPT !.node = Append(@, [string |-> s, next |-> kInvalidID])],
            Len(t.node) + 1)

InsertInto(t, s) == IF Lookup(t, s) = kInvalidID THEN Add(t, s) ELSE t
-----------------------------------------------------------------------------
Init ==
    /\ hash \in [String -> HashValue]
    /\ table = NewTable
    /\ answer = kInvalidID
    /\ renumber = <<>>

(* insert(string), on a table that is not mapped from a file. *)
Insert(s) ==
    /\ table' = InsertInto(table, s)
    /\ answer' = IF Lookup(table, s) = kInvalidID THEN Len(table.node) + 1
                                                  ELSE Lookup(table, s)
    /\ UNCHANGED <<hash, renumber>>

(* id(string). *)
Id(s) ==
    /\ answer' = Lookup(table, s)
    /\ UNCHANGED <<hash, table, renumber>>

(* The IDs in the order of their strings, which differ.                    *)
SortedStrings(t) ==
    LET n == Len(t.node) IN
    CHOOSE ids \in [1..n -> 1..n] :
        \A i, j \in 1..n : i < j => t.node[ids[i]].string < t.node[ids[j]].string

(* Copy the strings of t into a new table, in the order of `ids`.          *)
Copy(t, ids) ==
    LET copied[k \in 0..Len(t.node)] ==
            IF k = 0 THEN NewTable
            ELSE InsertInto(copied[k - 1], t.node[ids[k]].string)
    IN copied[Len(t.node)]

(* finalized(): sort, copy into a new table, and return the ID map.        *)
(* Index::finalizeTables does it once to each table.                       *)
Finalized ==
    /\ renumber = <<>>
    /\ LET n == Len(table.node)
           sorted == SortedStrings(table)
       IN /\ renumber' = [old \in 1..n |-> CHOOSE new \in 1..n : sorted[new] = old]
          /\ table' = Copy(table, sorted)
    /\ UNCHANGED <<hash, answer>>

Next == Finalized \/ \E s \in String : Insert(s) \/ Id(s)

Spec == Init /\ [][Next]_vars
-----------------------------------------------------------------------------
(* The types of the hash table: IDs of nodes or kInvalidID everywhere.     *)
TypeOK ==
    LET IDs == 0..Len(table.node) IN
    /\ table.node \in Seq([string : String, next : IDs])
    /\ table.bucket \in [0..(IndexSize(table) - 1) -> IDs]
    /\ IndexSize(table) \in Sizes
    /\ answer \in IDs

(* The IDs on the chain that starts at `first`.                            *)
ChainFrom(first) ==
    LET chain[id \in 0..Len(table.node)] ==
            IF id = kInvalidID THEN {} ELSE {id} \cup chain[table.node[id].next]
    IN chain[first]

(* Every string is on the chain of its bucket and on no other, through     *)
(* every growth of the table, and every chain goes down in IDs: lookup     *)
(* (StringTable.cc:106-121) finds what was inserted, and ends.             *)
ChainsPartition ==
    /\ TypeOK
    /\ \A id \in 1..Len(table.node) : table.node[id].next < id
    /\ \A b \in DOMAIN table.bucket :
          ChainFrom(table.bucket[b]) =
              {id \in 1..Len(table.node) :
                  Bucket(table.node[id].string, IndexSize(table)) = b}

Abstract == INSTANCE Interner WITH
    strings <- [id \in 1..Len(table.node) |-> table.node[id].string]

(* Callers see IDs that never change until finalizing renumbers them in    *)
(* string order, and the ID map says how (StringTable.h's contract).       *)
InternerSpec == Abstract!InternerSpec
=============================================================================
