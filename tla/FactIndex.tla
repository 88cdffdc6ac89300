----------------------------- MODULE FactIndex ------------------------------
(***************************************************************************)
(* What the indexer promises of its output: the finished index says, of    *)
(* every occurrence of a name in every file, where it is, and says nothing *)
(* else.  How the facts travel (one index for each file, IDs that differ   *)
(* from index to index, merging, sorting) is IndexBuild's.                 *)
(***************************************************************************)
EXTENDS Naturals

CONSTANTS PathOf,      \* PathOf[file]: the path symbol of Clang's FileID
          NameOf,      \* NameOf[o.symbol]: the name of what occurs
          Occurrence,  \* what the traversal of a translation unit can meet
          PathType,    \* ST_Path
          Unlisted,    \* symbol types that are not global symbols
          NoType       \* ST_Max: the occurrence does not tell the type

VARIABLES seen,    \* the occurrences met
          index    \* the finished index: table -> facts; <<>> before

factVars == <<seen, index>>

(* Where the text of an occurrence ends, on the line where it starts:      *)
(* never empty, a token that ends on another line counts as one column.    *)
EndColumn(o) ==
    IF o.endLine = o.line /\ o.endColumn > o.column THEN o.endColumn ELSE o.column + 1

References == {<<PathOf[o.file], o.line, o.column, EndColumn(o),
                 NameOf[o.symbol], o.refType>> : o \in seen}

Symbols ==
    {<<PathOf[o.file], PathType>> : o \in seen} \cup
    {<<NameOf[o.symbol], o.symbolType>> : o \in {p \in seen : p.symbolType # NoType}}

GlobalSymbols ==
    {<<NameOf[o.symbol]>> : o \in {p \in seen : p.symbolType \notin Unlisted \cup {NoType}}}

FactIndexInit ==
    /\ seen = {}
    /\ index = <<>>

See(o) ==
    /\ index = <<>>
    /\ seen' = seen \cup {o}
    /\ UNCHANGED index

Publish ==
    /\ index = <<>>
    /\ index' = [Reference       |-> References,
                 ReferenceIndex  |-> {<<r[5], r[6], r[1], r[2], r[3], r[4]>> : r \in References},
                 Symbol          |-> Symbols,
                 SymbolTypeIndex |-> {<<s[2], s[1]>> : s \in Symbols},
                 GlobalSymbol    |-> GlobalSymbols]
    /\ UNCHANGED seen

FactIndexNext == Publish \/ \E o \in Occurrence : See(o)

FactIndexSpec == FactIndexInit /\ [][FactIndexNext]_factVars
=============================================================================
