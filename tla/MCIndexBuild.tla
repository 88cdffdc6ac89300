---------------------------- MODULE MCIndexBuild ----------------------------
(***************************************************************************)
(* Two units of up to three occurrences, in two files of which one is opened *)
(* under two FileIDs; names sort between and around the paths, so that     *)
(* finalizing renumbers; two declarations share a name.                    *)
(***************************************************************************)
EXTENDS IndexBuild

(* The paths are 3 and 5. *)
MCPathOf == [main |-> 5, header |-> 3, again |-> 3]

MCNameOf == [d1 |-> 4, d2 |-> 4, macro |-> 1, local |-> 2, header |-> 3]

Ref(kind, file, symbol, refType, symbolType, column, endLine, endColumn) ==
    [kind |-> kind, file |-> file, symbol |-> symbol, refType |-> refType,
     symbolType |-> symbolType, line |-> 1, column |-> column,
     endLine |-> endLine, endColumn |-> endColumn]

(* Symbol types: 5 a function, 6 a macro, 7 ST_Path, 8 a parameter.        *)
MCOccurrence ==
    {Ref("decl",  "main",   "d1",     2, 5, 3, 1, 5),
     Ref("decl",  "main",   "d2",     1, 9, 2, 2, 9),
     Ref("macro", "main",   "macro",  1, 6, 1, 1, 1),
     Ref("path",  "main",   "header", 3, 7, 1, 1, 4),
     Ref("decl",  "header", "d1",     2, 5, 3, 1, 5),
     Ref("decl",  "header", "local",  2, 8, 1, 1, 2),
     Ref("decl",  "again",  "d1",     2, 5, 3, 1, 5)}
=============================================================================
