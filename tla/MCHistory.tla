----------------------------- MODULE MCHistory ------------------------------
(***************************************************************************)
(* Two files with two scroll positions each, and a history of at most three*)
(* locations on each side of the current one, so that it is cut at both    *)
(* ends, and jumps are recorded in its middle.                             *)
(***************************************************************************)
EXTENDS History
=============================================================================
