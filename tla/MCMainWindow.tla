---------------------------- MODULE MCMainWindow ----------------------------
(***************************************************************************)
(* Two files: f, of four lines that end in CRLF, CR and LF, in a folder of *)
(* the project, and g, of two lines, in no folder.  Expressions: one that  *)
(* occurs on most lines, one that also matches across lines and at the     *)
(* same places, and one that matches nothing at every place it does not    *)
(* match something.  Two or three lines are in view.                       *)
(***************************************************************************)
EXTENDS MainWindow, TLC

CONSTANTS a, b, cr, lf, none, as, ab, bs

MCProjectRoot == <<"", "home", "p">>
MCIndexPaths == << <<"", "home", "p", "sub", "f">>, <<"g">> >>
MCTitleOrder == <<"/", "Project", "External", "Special", "f", "g", "p", "sub">>

MCRawContent ==
    <<"Project", "p", "sub", "f">> :> <<a, b, cr, lf, a, cr, b, a, lf, b>>
    @@ <<"Special", "g">> :> <<b, lf, a, lf>>

MCLanguage ==
    none :> {} @@ as :> {<<a>>} @@ ab :> {<<a, b>>, <<a, lf, b>>} @@ bs :> {<<>>, <<b>>}

(* The binary search is a search; offsets and lines are inverse.           *)
ASSUME \A file \in Files : \A offset \in 0 .. Size(file) - 1 :
    LET line == LineForOffset(file, offset) IN
    /\ OffsetOf(file, line) <= offset
    /\ line + 1 < LineCount(file) => offset < OffsetOf(file, line + 1)
=============================================================================
