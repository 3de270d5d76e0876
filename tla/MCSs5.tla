------------------------------- MODULE MCSs5 --------------------------------
(***************************************************************************)
(* Ss5 on a few connections; the .cfg files choose ports and threads.      *)
(***************************************************************************)
EXTENDS Ss5, TLC

\* Connections are interchangeable; ports are not, they choose the threads.
Symmetry == Permutations(Conns)
=============================================================================
