------------------------- MODULE MCTableReportView -------------------------
(***************************************************************************)
(* A report of five rows with equal keys, and an empty one; filters that   *)
(* overlap; batches of two rows on two threads; windows of one size in     *)
(* which three rows fit, or two above a horizontal scroll bar, and of a    *)
(* wider and lower one.                                                    *)
(***************************************************************************)
EXTENDS TableReportView, TLC

CONSTANTS full, empty, all, some, few

MCNumRows == full :> 5 @@ empty :> 0
MCKey == full :> <<2, 1, 2, 1, 1>> @@ empty :> <<>>
MCRowWidth == full :> <<1, 3, 1, 1, 2>> @@ empty :> <<>>
MCAccepts ==
    all :> (full :> {1, 2, 3, 4, 5} @@ empty :> {})
    @@ some :> (full :> {2, 3, 5} @@ empty :> {})
    @@ few :> (full :> {3, 4} @@ empty :> {})
MCViewSizes == {[width |-> 3, height |-> 3], [width |-> 4, height |-> 2]}
=============================================================================
