------------------------------ MODULE ConnFifo ------------------------------
(***************************************************************************)
(* What a main loop and a worker expect of conn_queue and its notify pipe: *)
(* a queue from which the worker takes the connections in the order they   *)
(* were handed over, each once and each with the command byte it came      *)
(* with.  Ss5 and DnsProxy take a worker's queue in this form; Tunnel has  *)
(* the server's own, which is not locked and may lose an item.             *)
(***************************************************************************)
EXTENDS Integers, Sequences

CONSTANTS Items, Kinds

VARIABLES
    waiting,   \* handed over and not yet taken: items with their command bytes
    taken      \* what the worker has taken

Job == [kind : Kinds, item : Items]

Init == waiting = <<>> /\ taken = <<>>

HandOver(j) ==
    /\ \A i \in 1..Len(waiting) : waiting[i].item # j.item
    /\ \A i \in 1..Len(taken) : taken[i].item # j.item
    /\ waiting' = Append(waiting, j)
    /\ UNCHANGED taken

Take ==
    /\ waiting # <<>>
    /\ taken' = Append(taken, Head(waiting))
    /\ waiting' = Tail(waiting)

Next == Take \/ \E j \in Job : HandOver(j)

Spec == Init /\ [][Next]_<<waiting, taken>> /\ WF_<<waiting, taken>>(Take)
=============================================================================
