----------------------------- MODULE MCRegistry -------------------------------
(***************************************************************************)
(* Registry with machines whose users' names are prefixes of one another.  *)
(***************************************************************************)
EXTENDS Registry

ann  == [name |-> <<"a">>, userid |-> 1]
anna == [name |-> <<"a", "b">>, userid |-> 1]
bob  == [name |-> <<"a", "b">>, userid |-> 2]

MCUsers == {ann, anna, bob}

\* Machine 2 may be configured with either of two users.
MCUsersOf == [u \in Nodes |-> CASE u = 2 -> {ann, anna}
                                [] u = 5 -> {anna}
                                [] u = 8 -> {bob}
                                [] OTHER -> {ann}]
=============================================================================
