--------------------------- MODULE MCPublications ---------------------------
(***************************************************************************)
(* Instances of Publications for TLC.                                      *)
(***************************************************************************)
EXTENDS Publications, TLC

EqSymmetry == Permutations(Eq)
=============================================================================
