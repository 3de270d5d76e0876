----------------------------- MODULE MCHandOff ------------------------------
(***************************************************************************)
(* HandOff with a few items; the items are interchangeable.                *)
(***************************************************************************)
EXTENDS HandOff, TLC

Symmetry == Permutations(Items)
=============================================================================
