------------------------------- MODULE HandOff ------------------------------
(***************************************************************************)
(* The hand-over of a connection from a main loop to a worker thread, down *)
(* to the pointers of st_slist.h: the main loop appends a C_ITEM to        *)
(* conn_queue (slist_add) and writes one byte to the notify pipe; the      *)
(* worker reads the byte and fetches the first item (slist_fetch).         *)
(*                                                                         *)
(* The SOCKS5 client does both under q_lock, the server under no lock at   *)
(* all: Locked tells the two apart.                                        *)
(***************************************************************************)
EXTENDS Integers, Sequences

CONSTANTS
    Items,    \* the C_ITEMs that may be handed over, each once
    Kinds,    \* the bytes written to the notify pipe
    Null,     \* the null pointer
    Locked    \* q_lock is taken around slist_add and slist_fetch

ASSUME NullAssumption   == Null \notin Items /\ "head" \notin Items /\ Null # "head"
ASSUME LockedAssumption == Locked \in BOOLEAN

Nodes == Items \cup {"head"}      \* "head" is conn_queue itself
Ptrs  == Nodes \cup {Null}

VARIABLES
    next,     \* the next pointers
    freed,    \* items that the worker has freed
    kindOf,   \* the command of an item handed over
    pipe,     \* bytes in the notify pipe
    owner,    \* holder of q_lock: "none", "main" or "worker"
    mpc, item, ptr,         \* the main loop in slist_add(item, conn_queue)
    wpc, byte, ret, rest,   \* the worker in slist_fetch: ret, head->next->next
    added,    \* history: items in the order they were given to slist_add
    taken     \* history: what the worker went on to serve

mainVars   == <<mpc, item, ptr>>
workerVars == <<wpc, byte, ret, rest>>
vars == <<next, freed, kindOf, pipe, owner, mainVars, workerVars, added, taken>>

MainPC   == {"idle", "lock", "walk", "link", "unlock", "notify"}
WorkerPC == {"idle", "lock", "test", "load", "store", "unlock", "serve"}

TypeOK ==
    /\ next \in [Nodes -> Ptrs]
    /\ freed \subseteq Items
    /\ kindOf \in [Items -> Kinds]
    /\ pipe \in Seq(Kinds)
    /\ owner \in {"none", "main", "worker"}
    /\ mpc \in MainPC /\ item \in Items \cup {Null} /\ ptr \in Nodes
    /\ wpc \in WorkerPC /\ byte \in Kinds
    /\ ret \in Ptrs /\ rest \in Ptrs
    /\ added \in Seq(Items)
    /\ taken \in Seq([kind : Kinds, item : Items])

Init ==
    /\ next = [n \in Nodes |-> Null]
    /\ freed = {}
    /\ kindOf \in [Items -> Kinds]
    /\ pipe = <<>>
    /\ owner = "none"
    /\ mpc = "idle" /\ item = Null /\ ptr = "head"
    /\ wpc = "idle" /\ byte \in Kinds /\ ret = Null /\ rest = Null
    /\ added = <<>>
    /\ taken = <<>>

-----------------------------------------------------------------------------
(* The main loop.                                                          *)

\* A connection for this worker: calloc of the C_ITEM, call of slist_add.
MainStart(i) ==
    /\ mpc = "idle"
    /\ \A k \in 1..Len(added) : added[k] # i
    /\ item' = i
    /\ added' = Append(added, i)
    /\ ptr' = "head"
    /\ mpc' = IF Locked THEN "lock" ELSE "walk"
    /\ UNCHANGED <<next, freed, kindOf, pipe, owner, workerVars, taken>>

MainLock ==
    /\ mpc = "lock" /\ owner = "none"
    /\ owner' = "main"
    /\ mpc' = "walk"
    /\ UNCHANGED <<next, freed, kindOf, pipe, item, ptr, workerVars, added, taken>>

\* Faulty: walks past the last item.
MainWalkPast ==
    /\ mpc = "walk"
    /\ ptr' = next[ptr]
    /\ mpc' = IF next[ptr] = Null THEN "link" ELSE "walk"
    /\ UNCHANGED <<next, freed, kindOf, pipe, owner, item, workerVars, added, taken>>

\* while (ptr->next) ptr = ptr->next.  The field of an item that was freed
\* under the walk may read as null.
MainWalk ==
    /\ mpc = "walk"
    /\ \E p \in {next[ptr]} \cup (IF ptr \in freed THEN {Null} ELSE {}) :
          IF p = Null THEN mpc' = "link" /\ UNCHANGED ptr
                      ELSE ptr' = p /\ UNCHANGED mpc
    /\ UNCHANGED <<next, freed, kindOf, pipe, owner, item, workerVars, added, taken>>

\* Faulty: the variant commented out in slist_add, new items go in front.
MainLinkFront ==
    /\ mpc = "link"
    /\ next' = [next EXCEPT !["head"] = item, ![item] = next["head"]]
    /\ mpc' = IF Locked THEN "unlock" ELSE "notify"
    /\ UNCHANGED <<freed, kindOf, pipe, owner, item, ptr, workerVars, added, taken>>

\* ptr->next = new_item; new_item->next = NULL.
MainLink ==
    /\ mpc = "link"
    /\ next' = [next EXCEPT ![ptr] = item, ![item] = Null]
    /\ mpc' = IF Locked THEN "unlock" ELSE "notify"
    /\ UNCHANGED <<freed, kindOf, pipe, owner, item, ptr, workerVars, added, taken>>

MainUnlock ==
    /\ mpc = "unlock"
    /\ owner' = "none"
    /\ mpc' = "notify"
    /\ UNCHANGED <<next, freed, kindOf, pipe, item, ptr, workerVars, added, taken>>

\* Faulty: two bytes for one item.
MainNotifyTwice ==
    /\ mpc = "notify"
    /\ pipe' = pipe \o <<kindOf[item], kindOf[item]>>
    /\ mpc' = "idle"
    /\ UNCHANGED <<next, freed, kindOf, owner, item, ptr, workerVars, added, taken>>

\* write(notify_send_fd, command, 1)
MainNotify ==
    /\ mpc = "notify"
    /\ pipe' = Append(pipe, kindOf[item])
    /\ mpc' = "idle"
    /\ UNCHANGED <<next, freed, kindOf, owner, item, ptr, workerVars, added, taken>>

-----------------------------------------------------------------------------
(* The worker.                                                             *)

\* thread_process: read(fd, buf, 1)
WorkerRead ==
    /\ wpc = "idle" /\ pipe # <<>>
    /\ byte' = Head(pipe)
    /\ pipe' = Tail(pipe)
    /\ wpc' = IF Locked THEN "lock" ELSE "test"
    /\ UNCHANGED <<next, freed, kindOf, owner, mainVars, ret, rest, added, taken>>

\* Faulty: the worker fetches without the lock.
WorkerLockSkipped ==
    /\ wpc = "lock"
    /\ wpc' = "test"
    /\ UNCHANGED <<next, freed, kindOf, pipe, owner, mainVars, byte, ret, rest, added, taken>>

WorkerLock ==
    /\ wpc = "lock" /\ owner = "none"
    /\ owner' = "worker"
    /\ wpc' = "test"
    /\ UNCHANGED <<next, freed, kindOf, pipe, mainVars, byte, ret, rest, added, taken>>

\* slist_empty(head), ret = head->next
WorkerTest ==
    /\ wpc = "test"
    /\ ret' = next["head"]
    /\ wpc' = IF next["head"] # Null THEN "load"
              ELSE IF Locked THEN "unlock" ELSE "serve"
    /\ UNCHANGED <<next, freed, kindOf, pipe, owner, mainVars, byte, rest, added, taken>>

\* the right-hand side of head->next = head->next->next
WorkerLoad ==
    /\ wpc = "load"
    /\ rest' = next[ret]
    /\ wpc' = "store"
    /\ UNCHANGED <<next, freed, kindOf, pipe, owner, mainVars, byte, ret, added, taken>>

WorkerStore ==
    /\ wpc = "store"
    /\ next' = [next EXCEPT !["head"] = rest]
    /\ wpc' = IF Locked THEN "unlock" ELSE "serve"
    /\ UNCHANGED <<freed, kindOf, pipe, owner, mainVars, byte, ret, rest, added, taken>>

WorkerUnlock ==
    /\ wpc = "unlock"
    /\ owner' = "none"
    /\ wpc' = "serve"
    /\ UNCHANGED <<next, freed, kindOf, pipe, mainVars, byte, ret, rest, added, taken>>

\* The rest of thread_process: without an item it logs and returns, with one
\* it serves the item as the byte says and frees it.
WorkerServe ==
    /\ wpc = "serve"
    /\ IF ret = Null THEN UNCHANGED <<freed, taken>>
       ELSE /\ taken' = Append(taken, [kind |-> byte, item |-> ret])
            /\ freed' = freed \cup {ret}
    /\ wpc' = "idle"
    /\ UNCHANGED <<next, kindOf, pipe, owner, mainVars, byte, ret, rest, added>>

-----------------------------------------------------------------------------
Main   == MainLock \/ MainWalk \/ MainLink \/ MainUnlock \/ MainNotify
Worker == WorkerRead \/ WorkerLock \/ WorkerTest \/ WorkerLoad \/ WorkerStore
             \/ WorkerUnlock \/ WorkerServe

Next == Main \/ Worker \/ \E i \in Items : MainStart(i)

Spec == Init /\ [][Next]_vars

-----------------------------------------------------------------------------
(* Properties.                                                             *)

\* The worker serves the connections in the order the main loop handed them
\* over, each with the command it was queued under ("first in, first out",
\* says slist_fetch).
HandedInOrder ==
    /\ Len(taken) <= Len(added)
    /\ \A k \in 1..Len(taken) :
          taken[k] = [kind |-> kindOf[added[k]], item |-> added[k]]

\* A byte in the pipe stands for an item in the list: the worker that has
\* been notified finds one.
NotifiedFinds == wpc = "serve" => ret # Null

\* The main loop never follows or writes a pointer of an item the worker has
\* already freed.
NoDangling == mpc \in {"walk", "link"} => ptr \notin freed

\* The locked hand-over implements the queue of ConnFifo.  An item is handed
\* over when its byte is in the pipe and taken when the worker serves it.
announced == IF mpc = "idle" THEN Len(added) ELSE Len(added) - 1
Waiting ==
    [k \in 1..(announced - Len(taken)) |->
        LET i == added[Len(taken) + k] IN [kind |-> kindOf[i], item |-> i]]

Fifo == INSTANCE ConnFifo WITH waiting <- Waiting
ImplementsFifo == Fifo!Spec
=============================================================================
