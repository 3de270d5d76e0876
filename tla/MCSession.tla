----------------------------- MODULE MCSession ------------------------------
(***************************************************************************)
(* Session with one or two machines and the clients that use them.         *)
(***************************************************************************)
EXTENDS Session, TLC

CONSTANTS d1, d2, d3, u1, u2, ann, bob, m1, m2

\* u1 works on the machine of d1, u2 on that of d2.  d3 is a second DAEMON of
\* d1's machine, configured with another account.
PairUuid == d1 :> m1 @@ d2 :> m2 @@ d3 :> m1 @@ u1 :> m1 @@ u2 :> m2
PairUser == d1 :> ann @@ d2 :> ann @@ d3 :> bob @@ u1 :> ann @@ u2 :> ann

Symmetry == Permutations(Bevs)
=============================================================================
