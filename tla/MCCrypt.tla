------------------------------- MODULE MCCrypt ------------------------------
(***************************************************************************)
(* Two connections, each on a thread of its own at both ends.              *)
(***************************************************************************)
EXTENDS Crypt

CONSTANTS t1, t2

\* t1 asks and t2 asks and is answered.
AskAndAnswer == {<<t1, "up">>, <<t2, "up">>, <<t2, "dn">>}

OwnThreads == [s \in Sides |-> [t \in Trans |-> t]]
=============================================================================
