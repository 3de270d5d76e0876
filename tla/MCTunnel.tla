------------------------------ MODULE MCTunnel ------------------------------
(***************************************************************************)
(* Tunnel on two connections.  The .cfg files choose the ports, the batch  *)
(* of control headers and what the environment may do.                     *)
(***************************************************************************)
EXTENDS Tunnel, TLC

\* Connections are interchangeable; ports are not, ThreadOf tells them apart.
Symmetry == Permutations(Conns)
=============================================================================
