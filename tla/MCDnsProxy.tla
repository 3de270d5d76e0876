----------------------------- MODULE MCDnsProxy -----------------------------
(***************************************************************************)
(* DnsProxy with two questions of two applications.  Of the three ids they *)
(* may choose, the first two differ and fall on one entry of the table,    *)
(* the third falls on the index past its end.                              *)
(***************************************************************************)
EXTENDS DnsProxy, TLC

CONSTANTS q1, q2, a1, a2

Two      == {q1, q2}
TwoApps  == q1 :> a1 @@ q2 :> a2
ThreeIds == {<<1, 133>>, <<2, 133>>, <<3, 255>>}
=============================================================================
