------------------------------- MODULE Relay --------------------------------
(***************************************************************************)
(* What two ends may expect of a connection that is carried through the    *)
(* relay: in each direction the other end receives what was sent, in       *)
(* order, each chunk once, and nothing of another connection.  Nothing is  *)
(* lost before the connection breaks; then a suffix of what was sent is.   *)
(*                                                                         *)
(* Tunnel (USR to DAEMON) and Ss5 (application to remote host) implement   *)
(* this specification.                                                     *)
(***************************************************************************)
EXTENDS Integers, Sequences

CONSTANTS Conns, Ends

Dir == Ends \X Conns      \* <<e, c>>: what end e of connection c sends

VARIABLES
    phase,    \* phase[c]: "idle", "open" or "broken"
    sent,     \* sent[x]: number of chunks sent
    wire,     \* wire[x]: chunks sent and not yet received
    got       \* got[x]: chunks the other end has received

vars == <<phase, sent, wire, got>>

Chunk(x, n) == [from |-> x, n |-> n]

Init ==
    /\ phase = [c \in Conns |-> "idle"]
    /\ sent = [x \in Dir |-> 0]
    /\ wire = [x \in Dir |-> <<>>]
    /\ got = [x \in Dir |-> <<>>]

\* The ends are joined.
Join(c) ==
    /\ phase[c] = "idle"
    /\ phase' = [phase EXCEPT ![c] = "open"]
    /\ UNCHANGED <<sent, wire, got>>

\* A chunk is accepted, if nothing sent before it was lost.
Send(x) ==
    /\ phase[x[2]] # "idle"
    /\ Len(got[x]) + Len(wire[x]) = sent[x]
    /\ sent' = [sent EXCEPT ![x] = @ + 1]
    /\ wire' = [wire EXCEPT ![x] = Append(@, Chunk(x, sent[x] + 1))]
    /\ UNCHANGED <<phase, got>>

\* A chunk goes nowhere.
SendLost(x) ==
    /\ phase[x[2]] = "broken"
    /\ sent' = [sent EXCEPT ![x] = @ + 1]
    /\ UNCHANGED <<phase, wire, got>>

Deliver(x) ==
    /\ phase[x[2]] # "idle" /\ wire[x] # <<>>
    /\ got' = [got EXCEPT ![x] = Append(@, Head(wire[x]))]
    /\ wire' = [wire EXCEPT ![x] = Tail(@)]
    /\ UNCHANGED <<phase, sent>>

\* Some connections break, or lose more of what is still on their way.
IsPrefix(p, q) == Len(p) <= Len(q) /\ \A i \in 1..Len(p) : p[i] = q[i]
Break ==
    /\ \A c \in Conns : phase'[c] \in {phase[c], "broken"}
    /\ \A x \in Dir :
          \/ wire'[x] = wire[x]
          \/ phase'[x[2]] = "broken" /\ IsPrefix(wire'[x], wire[x])
    /\ UNCHANGED <<sent, got>>

Next == \/ \E c \in Conns : Join(c)
        \/ \E x \in Dir : Send(x) \/ SendLost(x) \/ Deliver(x)
        \/ Break

Spec == Init /\ [][Next]_vars
=============================================================================
