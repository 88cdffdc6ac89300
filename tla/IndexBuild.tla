----------------------------- MODULE IndexBuild -----------------------------
(***************************************************************************)
(* The path of a fact from an occurrence in a source file to the finished  *)
(* index: clang-indexer's IndexerContext and IndexBuilder over libindexdb, *)
(* the archive of a translation unit, and indexProject's merge.            *)
(*                                                                         *)
(* One translation unit at a time: units are indexed by processes that     *)
(* share nothing, and IndexProject models when their archives are read.    *)
(* Names, paths and types are numbers, in the order of the strings.        *)
(* Abstracted: Clang (Occurrence is what a traversal may meet), m_fileIDMap*)
(* and m_includePathMap (they cache names, which are constants here).      *)
(***************************************************************************)
EXTENDS Naturals, Sequences, FiniteSets

CONSTANTS PathOf, NameOf, PathType, Unlisted, NoType,  \* see FactIndex
          Definition, Declaration,  \* RT_Definition, RT_Declaration
          Occurrence,      \* [kind, file, symbol, refType, symbolType, line,
                           \*  column, endLine, endColumn]
          MaxOccurrences,  \* bound: occurrences in a translation unit
          MaxUnits         \* bound: translation units

ASSUME BuildAssumption ==
    /\ \A o \in Occurrence :
          /\ o.file \in DOMAIN PathOf /\ o.symbol \in DOMAIN NameOf
          /\ o.kind \in {"path", "macro", "decl"}
          /\ o.kind = "path" <=> o.symbolType = PathType
          /\ o.kind = "macro" => o.symbolType \notin Unlisted \cup {NoType}
    /\ NoType \notin Unlisted
    /\ PathType \in Unlisted

(* Names, paths and types are numbers, in the order of the strings.        *)
ASSUME NumberAssumption ==
    /\ \A file \in DOMAIN PathOf : PathOf[file] \in Nat
    /\ \A symbol \in DOMAIN NameOf : NameOf[symbol] \in Nat
    /\ PathType \in Nat
    /\ \A o \in Occurrence : {o.refType, o.symbolType, o.line, o.column, o.endColumn} \subseteq Nat

ASSUME BoundAssumption == MaxOccurrences \in Nat /\ MaxUnits \in Nat

(* Strings are sequences of characters.                                    *)
ASSUME StringAssumption ==
    /\ Len("IDX") \in Nat \ {0} /\ Len("IAR") \in Nat \ {0}
    /\ \A name \in {"Symbol", "SymbolType", "ReferenceType", "", "Reference", "ReferenceIndex",
                     "SymbolTypeIndex", "GlobalSymbol"} : Len(name) \in Nat

VARIABLES m_fileNameMap,  \* the IndexerFileContexts of the unit, by path
          archives,       \* entries of idx files, by their hashes, not yet merged
          mergedIndex,    \* indexProject's mergedIndex
          phase,          \* how far indexProject, and then the navigator, is
          m_index,        \* the navigator's Project: the index it has opened
          units,          \* units left, for the bound
          room,           \* occurrences left in this unit, for the bound
          seen            \* history: every occurrence met

vars == <<m_fileNameMap, archives, mergedIndex, phase, m_index, units, room, seen>>

(* The string table of every column of every table. *)
Schema ==
    [Reference       |-> <<"Symbol", "", "", "", "Symbol", "ReferenceType">>,
     ReferenceIndex  |-> <<"Symbol", "ReferenceType", "Symbol", "", "", "">>,
     Symbol          |-> <<"Symbol", "SymbolType">>,
     SymbolTypeIndex |-> <<"SymbolType", "Symbol">>,
     GlobalSymbol    |-> <<"Symbol">>]

(* The names of files, opened or only included, which start with "@".      *)
PathNames == {PathOf[file] : file \in DOMAIN PathOf} \cup
             {NameOf[o.symbol] : o \in {x \in Occurrence : x.symbolType = PathType}}

INSTANCE Project WITH
    PathSymbol <- PathNames,
    PathName <- PathType,
    DefinitionName <- Definition,
    DeclarationName <- Declaration,
    StringTableName <- {"Symbol", "SymbolType", "ReferenceType"},
    Columns <- Schema,
    Plain <- ""

(* The constructor of IndexBuilder. *)
NewBuilder(ix, createIndexTables) ==
    AddTables(ix, {"Reference", "Symbol", "GlobalSymbol"} \cup
                  IF createIndexTables THEN {"ReferenceIndex", "SymbolTypeIndex"} ELSE {})

(* The map f once x is mapped to v. *)
With(f, x, v) == [y \in DOMAIN f \cup {x} |-> IF y = x THEN v ELSE f[y]]
-----------------------------------------------------------------------------
(* An IndexerFileContext c, and what its members do.  Each returns c as it *)
(* leaves it; IDs are cached per declaration, reference and symbol type.   *)

WithSymbol(c, name) == [c EXCEPT !.index = InsertString(@, "Symbol", name)]

SymbolID(c, name) == IdOf(c.index.strings["Symbol"], name)

(* getDeclSymbolID *)
WithDecl(c, decl) ==
    IF decl \in DOMAIN c.declNameCache THEN c
    ELSE LET d == WithSymbol(c, NameOf[decl])
         IN [d EXCEPT !.declNameCache = With(@, decl, SymbolID(d, NameOf[decl]))]

(* getRefTypeID *)
WithRefType(c, refType) ==
    IF refType \in DOMAIN c.refTypeIDs THEN c
    ELSE LET ix == InsertString(c.index, "ReferenceType", refType)
         IN [c EXCEPT !.index = ix,
                      !.refTypeIDs =
                         With(@, refType, IdOf(ix.strings["ReferenceType"], refType))]

(* getSymbolTypeID *)
WithSymbolType(c, symbolType) ==
    IF symbolType \in DOMAIN c.symbolTypeIDs THEN c
    ELSE LET ix == InsertString(c.index, "SymbolType", symbolType)
         IN [c EXCEPT !.index = ix,
                      !.symbolTypeIDs =
                         With(@, symbolType, IdOf(ix.strings["SymbolType"], symbolType))]

(* IndexerFileContext::location: a place in the context's file. *)
Location(c, line, column) == [fileID |-> c.pathID, line |-> line, column |-> column]

(* IndexBuilder::recordRef *)
RecordRef(c, symbolID, start, end, refTypeID) ==
    LET onOneLine == end.fileID = start.fileID /\ end.line = start.line
        endColumn == IF onOneLine /\ end.column > start.column
                     THEN end.column ELSE start.column + 1
    IN [c EXCEPT !.index = AddRow(@, "Reference",
            <<start.fileID, start.line, start.column, endColumn, symbolID, refTypeID>>)]

(* IndexBuilder::recordSymbol and recordGlobalSymbol. *)
RecordSymbol(c, symbolID, symbolTypeID) ==
    [c EXCEPT !.index = AddRow(@, "Symbol", <<symbolID, symbolTypeID>>)]

RecordGlobalSymbol(c, symbolID) ==
    [c EXCEPT !.index = AddRow(@, "GlobalSymbol", <<symbolID>>)]

(* The constructor of IndexerFileContext. *)
NewContext(path) ==
    LET empty == [index |-> NewBuilder(EmptyIndex, FALSE), pathID |-> 0,
                  declNameCache |-> <<>>, refTypeIDs |-> <<>>, symbolTypeIDs |-> <<>>]
        named == WithSymbolType(WithSymbol(empty, path), PathType)
        id == SymbolID(named, path)
    IN [RecordSymbol(named, id, named.symbolTypeIDs[PathType]) EXCEPT !.pathID = id]

(* The reference of an occurrence, and the type of its symbol. *)
WithRef(c, symbolID, o) ==
    LET typed == WithRefType(c, o.refType)
    IN RecordRef(typed, symbolID, Location(c, o.line, o.column),
                 Location(c, o.endLine, o.endColumn), typed.refTypeIDs[o.refType])

WithTypedSymbol(c, symbolID, o) ==
    LET typed == WithSymbolType(c, o.symbolType)
    IN RecordSymbol(typed, symbolID, typed.symbolTypeIDs[o.symbolType])

(* The callbacks.  Included paths and macros go by their text; the file of *)
(* an #include has been found and a declaration has a name, since nothing  *)
(* is recorded otherwise.                                                  *)
InclusionDirective(c, o) ==
    LET named == WithSymbol(c, NameOf[o.symbol])
        id == SymbolID(named, NameOf[o.symbol])
    IN WithTypedSymbol(WithRef(named, id, o), id, o)

RecordReference(c, o) ==
    LET named == WithSymbol(c, NameOf[o.symbol])
        id == SymbolID(named, NameOf[o.symbol])
    IN RecordGlobalSymbol(WithTypedSymbol(WithRef(named, id, o), id, o), id)

(* Mutant: a name is looked up in the declaration cache of any file. *)
RecordDeclRef_shared(c, o) ==
    LET known == {p \in DOMAIN m_fileNameMap : o.symbol \in DOMAIN m_fileNameMap[p].declNameCache}
        named == WithDecl(c, o.symbol)
        id == IF known # {} THEN m_fileNameMap[CHOOSE p \in known : TRUE].declNameCache[o.symbol]
                            ELSE named.declNameCache[o.symbol]
    IN WithRef(named, id, o)

RecordDeclRef(c, o) ==
    LET named == WithDecl(c, o.symbol)
        id == named.declNameCache[o.symbol]
        ref == WithRef(named, id, o)
    IN IF o.symbolType = NoType THEN ref
       ELSE IF o.symbolType \in Unlisted THEN WithTypedSymbol(ref, id, o)
       ELSE RecordGlobalSymbol(WithTypedSymbol(ref, id, o), id)

(* fileContext: the context of a path, created when it is first needed.    *)
FileContext(path) ==
    IF path \in DOMAIN m_fileNameMap THEN m_fileNameMap[path] ELSE NewContext(path)
-----------------------------------------------------------------------------
Init ==
    /\ m_fileNameMap = <<>>
    /\ archives = {}
    /\ mergedIndex = NewBuilder(EmptyIndex, FALSE)
    /\ phase = "index"
    /\ m_index = <<>>
    /\ units = MaxUnits
    /\ room = MaxOccurrences
    /\ seen = {}

(* A callback of Clang turns the context of o's file into recorded.        *)
Occur(o, recorded) ==
    /\ phase = "index" /\ units > 0
    /\ room > 0 /\ room' = room - 1
    /\ m_fileNameMap' = With(m_fileNameMap, PathOf[o.file], recorded)
    /\ seen' = seen \cup {o}
    /\ UNCHANGED <<archives, mergedIndex, phase, m_index, units>>

Include == \E o \in Occurrence :
    o.kind = "path" /\ Occur(o, InclusionDirective(FileContext(PathOf[o.file]), o))

(* MacroExpands, MacroDefined, MacroUndefined, Defined: o.refType says which. *)
MacroNamed == \E o \in Occurrence :
    o.kind = "macro" /\ Occur(o, RecordReference(FileContext(PathOf[o.file]), o))

DeclNamed == \E o \in Occurrence :
    o.kind = "decl" /\ Occur(o, RecordDeclRef(FileContext(PathOf[o.file]), o))

(* indexFile writes an archive, and indexProject reads it: what it finds.  *)
ArchiveOf(indices) ==
    UNION {{[hash |-> entry.hash, index |-> OpenEntry(file, entry)] :
               entry \in ToSet(ReadArchive(file))} : file \in {WriteArchive(indices)}}

(* Mutant: the contexts outlive the unit. *)
FinishUnit_keep ==
    /\ phase = "index" /\ units > 0
    /\ m_fileNameMap' = [p \in DOMAIN m_fileNameMap |->
          [m_fileNameMap[p] EXCEPT !.index = FinalizeTables(@)]]
    /\ archives' = archives \cup
          ArchiveOf([p \in DOMAIN m_fileNameMap |-> m_fileNameMap'[p].index])
    /\ units' = units - 1
    /\ room' = MaxOccurrences
    /\ UNCHANGED <<mergedIndex, phase, m_index, seen>>

(* The end of indexFile: the contexts are gone, their indices are          *)
(* finalized and written, and will be read.                                *)
FinishUnit ==
    /\ phase = "index" /\ units > 0
    /\ archives' = archives \cup
          ArchiveOf([p \in DOMAIN m_fileNameMap |-> FinalizeTables(m_fileNameMap[p].index)])
    /\ m_fileNameMap' = <<>>
    /\ units' = units - 1
    /\ room' = MaxOccurrences
    /\ UNCHANGED <<mergedIndex, phase, m_index, seen>>

(* indexProject merges an entry it has not merged yet; in any order, since *)
(* the order is that of the translation units and of the names in them.    *)
MergeEntry(entry) ==
    /\ phase = "index" /\ units = 0
    /\ archives' = archives \ {entry}
    /\ mergedIndex' = Merge(mergedIndex, entry.index)
    /\ UNCHANGED <<m_fileNameMap, phase, m_index, units, room, seen>>

Advance(from, to) ==
    /\ phase = from /\ phase' = to
    /\ UNCHANGED <<m_fileNameMap, archives, units, room, seen>>

FinalizeMerged ==
    /\ units = 0 /\ archives = {}
    /\ Advance("index", "finalized")
    /\ mergedIndex' = FinalizeTables(mergedIndex)
    /\ UNCHANGED m_index

(* Rows of `from`, permuted, added to `to`. *)
Inverted(ix, from, to, order) ==
    [ix EXCEPT !.rows[to] = InsertAll(@, [i \in DOMAIN ix.rows[from] |->
                                             [c \in DOMAIN order |-> ix.rows[from][i][order[c]]]])]

(* populateIndexTables *)
Populate ==
    /\ Advance("finalized", "populated")
    /\ LET wide == NewBuilder(mergedIndex, TRUE)
           refs == Inverted(wide, "Reference", "ReferenceIndex", <<5, 6, 1, 2, 3, 4>>)
       IN mergedIndex' = Inverted(refs, "Symbol", "SymbolTypeIndex", <<2, 1>>)
    /\ UNCHANGED m_index

(* The second finalizeTables, and write("index"). *)
FinalizeAndWrite ==
    /\ Advance("populated", "written")
    /\ mergedIndex' = FinalizeTables(mergedIndex)
    /\ UNCHANGED m_index

(* The navigator's Project opens the file, which holds what was written.   *)
OpenProject ==
    /\ Advance("written", "opened")
    /\ \E file \in {Place(0, WriteIndex(mergedIndex, FALSE))} :
          m_index' = ReadIndex(MappedReader(file, 0, End(file)))
    /\ UNCHANGED mergedIndex

Next ==
    \/ Include \/ MacroNamed \/ DeclNamed
    \/ FinishUnit
    \/ \E entry \in archives : MergeEntry(entry)
    \/ FinalizeMerged \/ Populate \/ FinalizeAndWrite \/ OpenProject

Spec == Init /\ [][Next]_vars
-----------------------------------------------------------------------------
(* Well-formed indices: every ID of every row, in the entries of archives  *)
(* too, is in its string table.  mergeTable asserts it (IndexDb.cc:457).   *)
IdsInRange(ix) ==
    \A t \in DOMAIN ix.rows : \A i \in DOMAIN ix.rows[t] : \A c \in DOMAIN Schema[t] :
        Schema[t][c] # "" => ix.rows[t][i][c] \in DOMAIN ix.strings[Schema[t][c]]

TypeOK ==
    /\ phase \in {"index", "finalized", "populated", "written", "opened"}
    /\ units \in 0..MaxUnits /\ room \in 0..MaxOccurrences
    /\ seen \subseteq Occurrence
    /\ IdsInRange(mergedIndex)
    /\ \A entry \in archives :
          IdsInRange(entry.index) /\ entry.index.readonly = DOMAIN entry.index.rows
    /\ \A p \in DOMAIN m_fileNameMap : IdsInRange(m_fileNameMap[p].index)

(* A cached ID names, in its own file's index, what it was cached for, as  *)
(* long as the context lives (IndexerContext.h:121-123): an index is not     *)
(* renumbered before its context is gone.                                  *)
CachesAgree ==
    /\ TypeOK
    /\ \A p \in DOMAIN m_fileNameMap :
          LET c == m_fileNameMap[p] IN
          /\ c.index.strings["Symbol"][c.pathID] = p
          /\ \A d \in DOMAIN c.declNameCache :
                c.index.strings["Symbol"][c.declNameCache[d]] = NameOf[d]
          /\ \A r \in DOMAIN c.refTypeIDs :
                c.index.strings["ReferenceType"][c.refTypeIDs[r]] = r
          /\ \A t \in DOMAIN c.symbolTypeIDs :
                c.index.strings["SymbolType"][c.symbolTypeIDs[t]] = t

(* A finalized index depends on its facts only and not on the order they   *)
(* came in: rows and strings strictly ascend, and no string is unused.     *)
(* The hash that recognizes a header indexed by two units, the             *)
(* reproducible output and lowerBound's binary search rest on it.          *)
Canonical(ix) ==
    /\ \A n \in DOMAIN ix.strings : \A i, j \in DOMAIN ix.strings[n] :
          /\ i < j => ix.strings[n][i] < ix.strings[n][j]
          /\ \E t \in DOMAIN ix.rows : \E r \in DOMAIN ix.rows[t] : \E c \in DOMAIN Schema[t] :
                Schema[t][c] = n /\ ix.rows[t][r][c] = i
    /\ \A t \in DOMAIN ix.rows : \A i, j \in DOMAIN ix.rows[t] :
          i < j => RowLess(ix.rows[t][i], ix.rows[t][j])

FinalizedIsCanonical ==
    /\ \A entry \in archives : Canonical(entry.index)
    /\ \A x, y \in archives : x.index = y.index => x.hash = y.hash
    /\ phase \in {"finalized", "written", "opened"} => Canonical(mergedIndex)

(* What finalizeTables has frozen never changes again, in the second       *)
(* finalizeTables least of all (IndexDb.cc:555-576).                       *)
ReadOnlyStays ==
    [][/\ mergedIndex.readonly \subseteq mergedIndex'.readonly
       /\ \A t \in mergedIndex.readonly : mergedIndex'.rows[t] = mergedIndex.rows[t]
       /\ \A n \in mergedIndex.finalized : mergedIndex'.strings[n] = mergedIndex.strings[n]]_vars

(* What the file "index" says, as the navigator reads it.                  *)
Published ==
    IF phase # "opened" THEN <<>>
    ELSE [t \in DOMAIN Schema |-> Relation(m_index, t)]

Promise == INSTANCE FactIndex WITH index <- Published

(* A place of the opened index, with its file by name.                     *)
Named(place) ==
    <<m_index.strings["Symbol"][place[1]], place[2], place[3], place[4]>>

(* Where a name was seen. *)
PlacesOf(name, refType) ==
    {<<PathOf[o.file], o.line, o.column, Promise!EndColumn(o)>> :
        o \in {x \in seen : x.refType = refType /\ NameOf[x.symbol] = name}}

GlobalNames ==
    {NameOf[o.symbol] : o \in {x \in seen : x.symbolType \notin Unlisted \cup {NoType}}}

(* The list of definitions has the definitions of global symbols and no    *)
(* others, although two tables are walked in step to make it.              *)
DefinitionsListed ==
    {<<m_index.strings["Symbol"][row[1]], Named(At(row))>> :
        row \in ToSet(QueryGlobalSymbolDefinitions(m_index))}
    = UNION {{<<name, place>> : place \in PlacesOf(name, Definition)} : name \in GlobalNames}

(* A jump leads to the file, to the only definition, or to the only        *)
(* declaration of what has no definition, and otherwise nowhere.           *)
JumpsFrom(name) ==
    LET found == FindSingleDefinition(m_index, name)
        defn == PlacesOf(name, Definition)
        decl == PlacesOf(name, Declaration)
    IN IF name \in PathNames THEN Named(found) = <<name, 1, 1, 1>>
       ELSE IF Cardinality(defn) = 1 THEN {Named(found)} = defn
       ELSE IF defn = {} /\ Cardinality(decl) = 1 THEN {Named(found)} = decl
       ELSE found = <<>>

(* Every file in which something was seen is listed.                       *)
PathsListed == {PathOf[o.file] : o \in seen} \subseteq QueryAllPaths(m_index)

(* The navigator's list of definitions is that of the functions, classes   *)
(* and variables that were seen, although it pairs two sorted tables; the  *)
(* jump from a name finds its definition if all the units that were merged *)
(* have seen one place; and every file that was seen is in the file list.  *)
NavigatorFinds ==
    phase = "opened" =>
        /\ DefinitionsListed
        /\ \A name \in {NameOf[o.symbol] : o \in seen} : JumpsFrom(name)
        /\ PathsListed

(* The finished index says what was seen, all of it and nothing else,      *)
(* whatever IDs, merge order and sharing of files it took.                 *)
FactIndexSpec == Promise!FactIndexSpec
=============================================================================
