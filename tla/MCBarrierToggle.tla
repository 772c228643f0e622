-------------------------- MODULE MCBarrierToggle --------------------------
(***************************************************************************)
(* Instances of BarrierToggle for TLC.  Orders only differ by their        *)
(* identity, so they are a symmetry set in the runs that only check        *)
(* invariants and action properties.                                       *)
(***************************************************************************)
EXTENDS BarrierToggle, TLC

OrderSymmetry == Permutations(Order)
=============================================================================
