--------------------------- MODULE MCStringTable ---------------------------
(***************************************************************************)
(* Four strings under every hash function into three values, which collide *)
(* in some sizes of the table and not in others; it grows twice.           *)
(***************************************************************************)
EXTENDS StringTable

MCString == 1..4
MCHashValue == {0, 1, 5}
MCSmallSize == <<5, 11>>
=============================================================================
