------------------------------ MODULE Project -------------------------------
(***************************************************************************)
(* navigator/Project.cc: what the navigator asks of the index it has       *)
(* opened.  Queries that start with lowerBound read a range of rows, which *)
(* RowTable shows to be all that they should; here they select them.       *)
(* A place is a file's ID, a line, a start column and an end column.       *)
(***************************************************************************)
EXTENDS IndexFile

CONSTANTS PathSymbol,                       \* names that start with "@"
          PathName,                         \* the symbol type "Path"
          DefinitionName, DeclarationName   \* the reference types

(* StringTable::id, or kInvalidID.                                         *)
Id(strings, x) == IF Has(strings, x) THEN IdOf(strings, x) ELSE 0

QueryAllPaths(ix) ==
    {ix.strings["Symbol"][row[2]] :
        row \in {r \in ToSet(ix.rows["SymbolTypeIndex"]) :
                    r[1] = Id(ix.strings["SymbolType"], PathName)}}

(* queryReferencesOfSymbol: the numbers of the rows about the symbol, of   *)
(* which findSingleDefinitionOfSymbol keeps one kind.                      *)
References(ix, id, kind) ==
    LET rows == ix.rows["ReferenceIndex"] IN
    {i \in DOMAIN rows : rows[i][1] = id /\ ix.strings["ReferenceType"][rows[i][2]] = kind}

At(row) == <<row[3], row[4], row[5], row[6]>>

(* The place of the only one of these rows.                                *)
Only(ix, refs) == At(ix.rows["ReferenceIndex"][CHOOSE i \in refs : TRUE])

(* Mutant: a declaration will do although there are definitions. *)
FindSingleDefinition_any(ix, name) ==
    LET id == Id(ix.strings["Symbol"], name)
        defn == References(ix, id, DefinitionName)
        decl == References(ix, id, DeclarationName)
    IN IF id # 0 /\ name \in PathSymbol THEN <<id, 1, 1, 1>>
       ELSE CASE Cardinality(defn) = 1 -> Only(ix, defn)
            [] Cardinality(defn) # 1 /\ Cardinality(decl) = 1 -> Only(ix, decl)
            [] OTHER -> <<>>

(* findSingleDefinitionOfSymbol: a file, the only definition, or the only  *)
(* declaration if there is no definition.                                  *)
FindSingleDefinition(ix, name) ==
    LET id == Id(ix.strings["Symbol"], name)
        defn == References(ix, id, DefinitionName)
        decl == References(ix, id, DeclarationName)
    IN IF id # 0 /\ name \in PathSymbol THEN <<id, 1, 1, 1>>
       ELSE CASE Cardinality(defn) = 1 -> Only(ix, defn)
            [] defn = {} /\ Cardinality(decl) = 1 -> Only(ix, decl)
            [] OTHER -> <<>>

(* Mutant: the loop leaves the row's own symbol behind, too. *)
NextGlobal_past(globals, git, symbol) ==
    CHOOSE i \in git .. (Len(globals) + 1) :
        /\ \A j \in git .. (i - 1) : symbol >= globals[j][1]
        /\ i <= Len(globals) => symbol < globals[i][1]

(* The while loop of queryGlobalSymbolDefinitions: git is the first global *)
(* symbol that is not below the row's, or the end.                         *)
NextGlobal(globals, git, symbol) ==
    CHOOSE i \in git .. (Len(globals) + 1) :
        /\ \A j \in git .. (i - 1) : symbol > globals[j][1]
        /\ i <= Len(globals) => symbol <= globals[i][1]

(* queryGlobalSymbolDefinitions: both tables are sorted by symbol, and are *)
(* gone through together.                                                  *)
QueryGlobalSymbolDefinitions(ix) ==
    LET globals == ix.rows["GlobalSymbol"]
        rows == ix.rows["ReferenceIndex"]
        defnKind == Id(ix.strings["ReferenceType"], DefinitionName)
        step(found, row) ==
            IF found.git > Len(globals) \/ row[2] # defnKind THEN found
            ELSE LET git == NextGlobal(globals, found.git, row[1])
                 IN [git  |-> git,
                     refs |-> IF git <= Len(globals) /\ row[1] = globals[git][1]
                              THEN Append(found.refs, row) ELSE found.refs]
        after[i \in 0 .. Len(rows)] ==
            IF i = 0 THEN [git |-> 1, refs |-> <<>>] ELSE step(after[i - 1], rows[i])
    IN after[Len(rows)].refs
=============================================================================
