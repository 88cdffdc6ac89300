----------------------------- MODULE MCRowTable -----------------------------
(***************************************************************************)
(* Every table of up to three rows of two columns, whose values take one to *)
(* three bytes in base 2, searched with every query.                       *)
(***************************************************************************)
EXTENDS RowTable
=============================================================================
