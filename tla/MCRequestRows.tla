--------------------------- MODULE MCRequestRows ---------------------------
(***************************************************************************)
(* An instance of RequestRows for TLC: an edit that is saved while a verb  *)
(* and another edit move the row.                                          *)
(***************************************************************************)
EXTENDS RequestRows, TLC

CONSTANTS w1, w2, t1, t2

Symmetry == Permutations(Writers)
=============================================================================
