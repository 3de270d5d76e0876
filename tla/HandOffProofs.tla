---------------------------- MODULE HandOffProofs ---------------------------
(***************************************************************************)
(* Proofs about HandOff when q_lock is taken, as in the SOCKS5 client,     *)
(* and about the ThreadPool around it.                                     *)
(*                                                                         *)
(* The inductive invariant says what conn_queue holds at every point of    *)
(* slist_add and slist_fetch: the items added[lo + 1] .. added[hi], linked *)
(* in that order from "head" (Linked).  lo moves when the worker unlinks   *)
(* an item, hi when the main loop links one, and the lock keeps the two    *)
(* apart (Excluded).  The pipe holds one byte for every item whose byte    *)
(* the worker has not read (Announced), so a worker with a byte in hand    *)
(* has an item to fetch.                                                   *)
(*                                                                         *)
(* The second part is about the start-up of a pool (ThreadPool), for any   *)
(* finite number of threads and any items.  Its invariant says that        *)
(* init_count is the number of threads that have registered, whoever holds *)
(* the lock, and what the main thread has seen of it: the count never      *)
(* falls, so a test that once succeeded would succeed again.  The pool's   *)
(* steps are steps of HandOff or leave its variables alone, so what is     *)
(* proved of HandOff holds of the pool.                                    *)
(***************************************************************************)
EXTENDS ThreadPool, SequenceTheorems, FiniteSetTheorems, TLAPS

\* Items unlinked from conn_queue, and items linked to it, so far.
lo == IF wpc \in {"unlock", "serve"} THEN Len(taken) + 1 ELSE Len(taken)
hi == IF mpc \in {"lock", "walk", "link"} THEN Len(added) - 1 ELSE Len(added)

\* Bytes the worker has read so far.
bytesRead == IF wpc = "idle" THEN Len(taken) ELSE Len(taken) + 1

\* Node k of the list: conn_queue itself, then the items.
Node(k) == IF k = lo THEN "head" ELSE added[k]

Excluded ==
    /\ owner = "main" <=> mpc \in {"walk", "link", "unlock"}
    /\ owner = "worker" <=> wpc \in {"test", "load", "store", "unlock"}

\* An item is handed over once, and the one in slist_add is the last.
AddedOnce ==
    /\ \A j, k \in 1..Len(added) : added[j] = added[k] => j = k
    /\ mpc # "idle" => added # <<>> /\ item = added[Len(added)]

Announced ==
    /\ Len(pipe) = announced - bytesRead
    /\ \A k \in 1..Len(pipe) : pipe[k] = kindOf[added[bytesRead + k]]
    /\ wpc # "idle" => /\ Len(taken) + 1 <= announced
                       /\ byte = kindOf[added[Len(taken) + 1]]

Linked ==
    \A k \in lo..hi : next[Node(k)] = IF k < hi THEN added[k + 1] ELSE Null

\* What the main loop and the worker hold in their local pointers.
Walking ==
    /\ mpc = "lock" => ptr = "head"
    /\ mpc \in {"walk", "link"} => \E k \in lo..hi : ptr = Node(k)
    /\ mpc = "link" => next[ptr] = Null

Fetching ==
    /\ wpc \in {"load", "store", "unlock", "serve"} => ret = added[Len(taken) + 1]
    /\ wpc = "store" =>
          rest = IF Len(taken) + 1 < hi THEN added[Len(taken) + 2] ELSE Null

FreedAreTaken == freed = {added[k] : k \in 1..Len(taken)}

Inv == /\ TypeOK /\ Excluded /\ AddedOnce /\ Announced /\ Linked
       /\ Walking /\ Fetching /\ FreedAreTaken /\ HandedInOrder

-----------------------------------------------------------------------------
\* The queue starts empty, with nobody in it.
LEMMA InitInv == Init => Inv
  BY NullAssumption, EmptySeq
  DEF Init, Inv, TypeOK, Excluded, AddedOnce, Announced, announced, bytesRead, Linked, lo, hi,
      Node, Walking, Fetching, FreedAreTaken, HandedInOrder, MainPC, WorkerPC, Nodes, Ptrs

\* The counters agree: the worker is not ahead of its notify pipe, nor the
\* pipe of the list.
LEMMA Counters ==
    ASSUME Inv
    PROVE  /\ Len(taken) \in Nat /\ Len(added) \in Nat
           /\ announced \in Nat /\ hi \in Nat /\ lo \in Nat /\ bytesRead \in Nat
           /\ announced <= hi /\ hi <= Len(added)
           /\ Len(taken) <= lo /\ lo <= bytesRead /\ bytesRead <= announced
           /\ \A k \in 1..Len(added) : added[k] \in Items
<1>1. Len(taken) \in Nat /\ Len(added) \in Nat /\ Len(pipe) \in Nat
  BY DEF Inv, TypeOK
<1>2. \A k \in 1..Len(added) : added[k] \in Items
  BY DEF Inv, TypeOK
<1>3. mpc # "idle" => Len(added) >= 1
  BY <1>1, EmptySeq DEF Inv, TypeOK, AddedOnce
<1>4. announced \in Nat /\ hi \in Nat /\ announced <= hi /\ hi <= Len(added)
  BY <1>1, <1>3 DEF announced, hi
<1>5. lo \in Nat /\ Len(taken) <= lo /\ lo <= bytesRead
  BY <1>1 DEF lo, bytesRead
<1>6. bytesRead \in Nat
  BY <1>1 DEF bytesRead
<1>7. bytesRead <= announced
  BY <1>1, <1>4, <1>6 DEF Inv, Announced
<1> QED
  BY <1>1, <1>2, <1>4, <1>5, <1>6, <1>7

\* The nodes of the list are distinct and none of them has been freed.
LEMMA ListNodes ==
    ASSUME Inv, NEW k \in lo..hi
    PROVE  /\ Node(k) \in Nodes /\ Node(k) \notin freed
           /\ \A j \in lo..hi : Node(j) = Node(k) => j = k
<1>1. lo \in Nat /\ hi \in Nat
  BY Counters
<1>2. \A j \in lo..hi : j # lo => j \in 1..Len(added) /\ added[j] \in Items
  BY <1>1, Counters
<1>3. \A j \in lo..hi : j # lo => \A n \in 1..Len(taken) : added[n] # added[j]
  BY <1>1, <1>2, Counters DEF Inv, AddedOnce
<1> QED
  BY <1>1, <1>2, <1>3, Counters, NullAssumption
  DEF Node, Nodes, Inv, TypeOK, AddedOnce, FreedAreTaken

\* Under q_lock every step of slist_add, slist_fetch and the notify pipe keeps
\* the invariant.
LEMMA StepInv ==
    ASSUME Locked, Inv, [Next]_vars
    PROVE  Inv'
<1> USE NullAssumption, LockedAssumption, Counters DEF Inv, mainVars, workerVars
<1>1. ASSUME NEW i \in Items, MainStart(i) PROVE Inv'
  <2>1. TypeOK'
    BY <1>1 DEF MainStart, TypeOK, MainPC, WorkerPC, Nodes, Ptrs
  <2>2. (Excluded /\ FreedAreTaken /\ HandedInOrder)'
    BY <1>1 DEF MainStart, Excluded, FreedAreTaken, HandedInOrder
  <2>3. AddedOnce'
    <3>1. added' = Append(added, i) /\ item' = i
      BY <1>1 DEF MainStart
    <3>2. \A j \in 1..Len(added) : added'[j] = added[j] /\ added[j] # i
      BY <1>1, <3>1 DEF MainStart, TypeOK
    <3>3. Len(added') = Len(added) + 1 /\ added'[Len(added) + 1] = i
      BY <3>1 DEF TypeOK
    <3>4. \A j, k \in 1..(Len(added) + 1) : added'[j] = added'[k] => j = k
      <4>1. \A j \in 1..(Len(added) + 1) : j \in 1..Len(added) \/ j = Len(added) + 1
        BY SMTT(30) DEF TypeOK
      <4> QED
        BY <4>1, <3>2, <3>3 DEF AddedOnce
    <3>5. added' # <<>>
      BY <3>1 DEF TypeOK
    <3> QED
      BY <3>1, <3>3, <3>4, <3>5 DEF AddedOnce
  <2>4. Announced'
    BY <1>1 DEF MainStart, Announced, announced, bytesRead
  <2>5. (Linked /\ Walking /\ Fetching)'
    BY <1>1 DEF MainStart, Linked, Node, lo, hi, Walking, Fetching, TypeOK, Excluded,
      AddedOnce, Announced, announced, bytesRead
  <2> QED
    BY <2>1, <2>2, <2>3, <2>4, <2>5
<1>2. CASE MainLock
  <2>1. TypeOK'
    BY <1>2 DEF MainLock, TypeOK, MainPC, WorkerPC, Nodes, Ptrs
  <2>2. (Excluded /\ AddedOnce /\ FreedAreTaken /\ HandedInOrder)'
    BY <1>2 DEF MainLock, Excluded, AddedOnce, FreedAreTaken, HandedInOrder
  <2>4. Announced'
    BY <1>2 DEF MainLock, Announced, announced, bytesRead
  <2>5. (Linked /\ Fetching)'
    BY <1>2 DEF MainLock, Linked, Node, lo, hi, Fetching
  <2>6. Walking'
    <3>1. lo \in lo..hi /\ Node(lo) = ptr
      BY <1>2 DEF MainLock, Walking, Node
    <3>2. lo' = lo /\ hi' = hi /\ added' = added /\ ptr' = ptr /\ mpc' = "walk"
      BY <1>2 DEF MainLock, lo, hi
    <3> QED
      BY <3>1, <3>2 DEF Walking, Node
  <2> QED
    BY <2>1, <2>2, <2>4, <2>5, <2>6
<1>3. CASE MainWalk
  <2>1. TypeOK'
    BY <1>3 DEF MainWalk, TypeOK, MainPC, WorkerPC, Nodes, Ptrs
  <2>2. (Excluded /\ AddedOnce /\ FreedAreTaken /\ HandedInOrder)'
    BY <1>3 DEF MainWalk, Excluded, AddedOnce, FreedAreTaken, HandedInOrder
  <2>4. Announced'
    BY <1>3 DEF MainWalk, Announced, announced, bytesRead
  <2>5. (Linked /\ Fetching)'
    BY <1>3 DEF MainWalk, Linked, Node, lo, hi, Fetching
  <2>6. Walking'
    <3>1. PICK k \in lo..hi : ptr = Node(k)
      BY <1>3 DEF MainWalk, Walking
    <3>2. ptr \notin freed /\ next[ptr] = IF k < hi THEN added[k + 1] ELSE Null
      BY <3>1, ListNodes DEF Linked
    <3>3. lo' = lo /\ hi' = hi /\ added' = added /\ next' = next
      BY <1>3 DEF MainWalk, lo, hi
    <3>4. CASE next[ptr] = Null
      BY <1>3, <3>1, <3>2, <3>3, <3>4 DEF MainWalk, Walking, Node
    <3>5. CASE next[ptr] # Null
      <4>1. k + 1 \in lo..hi /\ Node(k + 1) = added[k + 1]
        BY <3>2, <3>5 DEF Node, lo, hi, TypeOK
      <4> QED
        BY <1>3, <3>2, <3>3, <3>5, <4>1 DEF MainWalk, Walking, Node
    <3> QED
      BY <3>4, <3>5
  <2> QED
    BY <2>1, <2>2, <2>4, <2>5, <2>6
<1>4. CASE MainLink
  <2>1. TypeOK'
    <3>1. item \in Items
      BY <1>4 DEF MainLink, TypeOK, AddedOnce
    <3>2. next' \in [Nodes -> Ptrs]
      BY <1>4, <3>1 DEF MainLink, TypeOK, Nodes, Ptrs
    <3>3. /\ UNCHANGED <<freed, kindOf, pipe, owner, item, ptr, wpc, byte, ret, rest, added, taken>>
          /\ mpc' \in MainPC
      BY <1>4 DEF MainLink, MainPC
    <3> QED
      BY <3>2, <3>3 DEF TypeOK
  <2>2. (Excluded /\ AddedOnce /\ FreedAreTaken /\ HandedInOrder)'
    BY <1>4 DEF MainLink, Excluded, AddedOnce, FreedAreTaken, HandedInOrder
  <2>4. Announced'
    BY <1>4 DEF MainLink, Announced, announced, bytesRead
  <2>5. Linked'
    <3>1. PICK k \in lo..hi : ptr = Node(k)
      BY <1>4 DEF MainLink, Walking
    <3>2. next[Node(k)] = Null /\ lo \in Nat /\ hi \in Nat /\ k \in Nat
      BY <1>4, <3>1 DEF MainLink, Walking, lo, hi, TypeOK
    <3>3. k = hi
      <4>1. CASE k < hi
        BY <3>2, <4>1, <1>4 DEF Linked, MainLink, hi
      <4> QED
        BY <3>2, <4>1
    <3>4. lo' = lo /\ hi' = hi + 1 /\ hi' = Len(added) /\ added' = added /\ item = added[hi + 1]
      BY <1>4 DEF MainLink, lo, hi, Excluded, AddedOnce, TypeOK
    <3>5. next' = [next EXCEPT ![Node(hi)] = item, ![item] = Null] /\ item \in Items
      BY <1>4, <3>1, <3>3, <3>4 DEF MainLink
    <3>6. \A j \in lo..hi : Node(j) # item
      BY <3>2, <3>4 DEF Node, AddedOnce
    <3>7. next'[Node(hi)] = item /\ next'[item] = Null
      BY <3>2, <3>5, <3>6, ListNodes DEF TypeOK, Nodes
    <3>8. \A j \in lo..hi : j # hi => next'[Node(j)] = next[Node(j)]
      BY <3>2, <3>5, <3>6, ListNodes DEF TypeOK
    <3>9. \A j \in lo'..hi' : Node(j)' = IF j = hi + 1 THEN item ELSE Node(j)
      BY <3>2, <3>4 DEF Node
    <3> QED
      BY <3>2, <3>4, <3>7, <3>8, <3>9 DEF Linked
  <2>6. (Walking /\ Fetching)'
    BY <1>4 DEF MainLink, Walking, Node, lo, hi, Fetching, TypeOK, Excluded
  <2> QED
    BY <2>1, <2>2, <2>4, <2>5, <2>6
<1>5. CASE MainUnlock
  <2>1. TypeOK'
    BY <1>5 DEF MainUnlock, TypeOK, MainPC, WorkerPC, Nodes, Ptrs
  <2>2. (Excluded /\ AddedOnce /\ FreedAreTaken /\ HandedInOrder)'
    BY <1>5 DEF MainUnlock, Excluded, AddedOnce, FreedAreTaken, HandedInOrder
  <2>4. Announced'
    BY <1>5 DEF MainUnlock, Announced, announced, bytesRead
  <2>5. (Linked /\ Walking /\ Fetching)'
    BY <1>5 DEF MainUnlock, Linked, Node, lo, hi, Walking, Fetching
  <2> QED
    BY <2>1, <2>2, <2>4, <2>5
<1>6. CASE MainNotify
  <2>1. TypeOK'
    <3>1. pipe' \in Seq(Kinds)
      BY <1>6 DEF MainNotify, TypeOK, AddedOnce
    <3> QED
      BY <1>6, <3>1 DEF MainNotify, TypeOK, MainPC
  <2>2. (Excluded /\ AddedOnce /\ FreedAreTaken /\ HandedInOrder)'
    BY <1>6 DEF MainNotify, Excluded, AddedOnce, FreedAreTaken, HandedInOrder
  <2>4. Announced'
    <3>1. /\ announced' = announced + 1 /\ announced' = Len(added)
          /\ bytesRead' = bytesRead /\ bytesRead \in Nat
          /\ added' = added /\ taken' = taken /\ kindOf' = kindOf /\ byte' = byte /\ wpc' = wpc
      BY <1>6 DEF MainNotify, announced, bytesRead, TypeOK
    <3>2. pipe' = Append(pipe, kindOf[added[Len(added)]])
      BY <1>6 DEF MainNotify, AddedOnce
    <3>3. /\ Len(pipe') = Len(pipe) + 1 /\ Len(pipe) \in Nat
          /\ \A k \in 1..Len(pipe) : pipe'[k] = pipe[k]
          /\ pipe'[Len(pipe) + 1] = kindOf[added[Len(added)]]
      BY <3>2 DEF TypeOK
    <3>4. Len(pipe) = announced - bytesRead
      BY DEF Announced
    <3>5. bytesRead + Len(pipe) + 1 = Len(added)
      BY <3>1, <3>3, <3>4
    <3>6. \A k \in 1..Len(pipe') : pipe'[k] = kindOf[added[bytesRead + k]]
      <4>1. \A k \in 1..Len(pipe) : pipe'[k] = kindOf[added[bytesRead + k]]
        BY <3>3 DEF Announced
      <4>2. bytesRead + (Len(pipe) + 1) = Len(added)
        BY <3>1, <3>3, <3>5
      <4>3. \A k \in 1..(Len(pipe) + 1) : k \in 1..Len(pipe) \/ k = Len(pipe) + 1
        BY <3>3
      <4> QED
        BY <3>3, <4>1, <4>2, <4>3
    <3>7. wpc' # "idle" => Len(taken') + 1 <= announced'
      BY <3>1 DEF Announced
    <3> QED
      BY <3>1, <3>3, <3>4, <3>6, <3>7 DEF Announced
  <2>5. (Linked /\ Walking /\ Fetching)'
    BY <1>6 DEF MainNotify, Linked, Node, lo, hi, Walking, Fetching
  <2> QED
    BY <2>1, <2>2, <2>4, <2>5
<1>7. CASE WorkerRead
  <2>1. TypeOK'
    BY <1>7 DEF WorkerRead, TypeOK, MainPC, WorkerPC, Nodes, Ptrs
  <2>2. (Excluded /\ AddedOnce /\ FreedAreTaken /\ HandedInOrder)'
    BY <1>7 DEF WorkerRead, Excluded, AddedOnce, FreedAreTaken, HandedInOrder
  <2>4. Announced'
    <3>1. /\ announced' = announced /\ bytesRead = Len(taken) /\ bytesRead' = Len(taken) + 1
          /\ added' = added /\ taken' = taken /\ kindOf' = kindOf
      BY <1>7 DEF WorkerRead, announced, bytesRead
    <3>2. pipe # <<>> /\ pipe' = Tail(pipe) /\ byte' = pipe[1] /\ Len(pipe) >= 1
      BY <1>7 DEF WorkerRead, TypeOK
    <3>3. /\ Len(pipe') = Len(pipe) - 1 /\ Len(pipe) \in Nat
          /\ \A k \in 1..Len(pipe') : pipe'[k] = pipe[k + 1]
      BY <3>2 DEF TypeOK
    <3>4. \A k \in 1..Len(pipe') : pipe'[k] = kindOf[added[Len(taken) + 1 + k]]
      <4>1. \A m \in 1..Len(pipe) : pipe[m] = kindOf[added[Len(taken) + m]]
        BY <3>1 DEF Announced
      <4>2. \A k \in 1..Len(pipe') : /\ k + 1 \in 1..Len(pipe)
                                     /\ Len(taken) + 1 + k = Len(taken) + (k + 1)
        BY <3>3
      <4>3. ASSUME NEW k \in 1..Len(pipe')
            PROVE  pipe'[k] = kindOf[added[Len(taken) + 1 + k]]
        <5>1. pipe'[k] = pipe[k + 1]
          BY <3>3
        <5>2. pipe[k + 1] = kindOf[added[Len(taken) + (k + 1)]]
          BY <4>1, <4>2
        <5> QED
          BY <4>2, <5>1, <5>2
      <4> QED
        BY <4>3
    <3>5. Len(taken) + 1 <= announced /\ byte' = kindOf[added[Len(taken) + 1]]
      BY <3>1, <3>2, <3>3 DEF Announced
    <3>6. Len(pipe') = announced' - bytesRead'
      BY <3>1, <3>3 DEF Announced
    <3> QED
      BY <3>1, <3>4, <3>5, <3>6 DEF Announced
  <2>5. (Linked /\ Walking /\ Fetching)'
    BY <1>7 DEF WorkerRead, Linked, Node, lo, hi, Walking, Fetching
  <2> QED
    BY <2>1, <2>2, <2>4, <2>5
<1>8. CASE WorkerLock
  <2>1. TypeOK'
    BY <1>8 DEF WorkerLock, TypeOK, MainPC, WorkerPC, Nodes, Ptrs
  <2>2. (Excluded /\ AddedOnce /\ FreedAreTaken /\ HandedInOrder)'
    BY <1>8 DEF WorkerLock, Excluded, AddedOnce, FreedAreTaken, HandedInOrder
  <2>4. Announced'
    BY <1>8 DEF WorkerLock, Announced, announced, bytesRead
  <2>5. (Linked /\ Walking /\ Fetching)'
    BY <1>8 DEF WorkerLock, Linked, Node, lo, hi, Walking, Fetching
  <2> QED
    BY <2>1, <2>2, <2>4, <2>5
<1>9. CASE WorkerTest
  <2>1. TypeOK'
    BY <1>9 DEF WorkerTest, TypeOK, MainPC, WorkerPC, Nodes, Ptrs
  <2>2. (Excluded /\ AddedOnce /\ FreedAreTaken /\ HandedInOrder)'
    BY <1>9 DEF WorkerTest, Excluded, AddedOnce, FreedAreTaken, HandedInOrder
  <2>4. Announced'
    BY <1>9 DEF WorkerTest, Announced, announced, bytesRead
  <2>5. Linked'
    BY SMTT(30), <1>9 DEF WorkerTest, Linked, Node, lo, hi
  <2>6. Walking'
    BY <1>9 DEF WorkerTest, Walking, Node, lo, hi, TypeOK, Excluded
  <2>7. Fetching'
    <3>1. lo = Len(taken) /\ lo < hi /\ Node(lo) = "head"
      BY <1>9 DEF WorkerTest, Announced, Node, lo
    <3>2. next["head"] = added[Len(taken) + 1] /\ next["head"] \in Items
      BY <3>1 DEF Linked
    <3>3. ret' = next["head"] /\ wpc' = "load" /\ added' = added /\ taken' = taken
      BY <1>9, <3>2 DEF WorkerTest
    <3> QED
      BY <3>2, <3>3 DEF Fetching
  <2> QED
    BY <2>1, <2>2, <2>4, <2>5, <2>6, <2>7
<1>10. CASE WorkerLoad
  <2>1. TypeOK'
    <3>1. ret \in Items
      BY <1>10 DEF WorkerLoad, Fetching, Announced
    <3> QED
      BY <1>10, <3>1 DEF WorkerLoad, TypeOK, WorkerPC, Nodes, Ptrs
  <2>2. (Excluded /\ AddedOnce /\ FreedAreTaken /\ HandedInOrder)'
    BY <1>10 DEF WorkerLoad, Excluded, AddedOnce, FreedAreTaken, HandedInOrder
  <2>4. Announced'
    BY <1>10 DEF WorkerLoad, Announced, announced, bytesRead
  <2>5. (Linked /\ Walking /\ Fetching)'
    BY <1>10 DEF WorkerLoad, Linked, Node, lo, hi, Walking, Fetching, TypeOK, Excluded,
      AddedOnce, Announced, announced, bytesRead
  <2> QED
    BY <2>1, <2>2, <2>4, <2>5
<1>11. CASE WorkerStore
  <2>1. TypeOK'
    BY <1>11 DEF WorkerStore, TypeOK, MainPC, WorkerPC, Nodes, Ptrs
  <2>2. (Excluded /\ AddedOnce /\ FreedAreTaken /\ HandedInOrder)'
    BY <1>11 DEF WorkerStore, Excluded, AddedOnce, FreedAreTaken, HandedInOrder
  <2>4. Announced'
    BY <1>11 DEF WorkerStore, Announced, announced, bytesRead
  <2>5. /\ lo = Len(taken) /\ lo' = lo + 1 /\ hi' = hi /\ lo < hi
        /\ added' = added /\ taken' = taken /\ next' = [next EXCEPT !["head"] = rest]
        /\ rest = IF lo + 1 < hi THEN added[lo + 2] ELSE Null
    BY <1>11 DEF WorkerStore, Announced, Fetching, lo, hi
  <2>6. Linked'
    <3>1. \A k \in lo'..hi' : Node(k)' = IF k = lo' THEN "head" ELSE Node(k)
      BY <2>5 DEF Node
    <3>2. \A k \in lo'..hi' : k # lo' => /\ Node(k) = added[k] /\ Node(k) \in Items
                                         /\ next'[Node(k)] = next[Node(k)]
      BY <2>5 DEF Node, TypeOK
    <3>3. next'["head"] = rest
      BY <2>5 DEF TypeOK, Nodes
    <3>4. \A k \in lo'..hi' : k # lo' =>
             next'[Node(k)] = IF k < hi' THEN added[k + 1] ELSE Null
      BY SMTT(30), <2>5, <3>2 DEF Linked
    <3>5. next'["head"] = IF lo' < hi' THEN added[lo' + 1] ELSE Null
      BY <2>5, <3>3
    <3> QED
      BY <2>5, <3>1, <3>4, <3>5 DEF Linked
  <2>7. (Walking /\ Fetching)'
    BY <1>11, <2>5 DEF WorkerStore, Walking, Fetching, Excluded
  <2> QED
    BY <2>1, <2>2, <2>4, <2>6, <2>7
<1>12. CASE WorkerUnlock
  <2>1. TypeOK'
    BY <1>12 DEF WorkerUnlock, TypeOK, MainPC, WorkerPC, Nodes, Ptrs
  <2>2. (Excluded /\ AddedOnce /\ FreedAreTaken /\ HandedInOrder)'
    BY <1>12 DEF WorkerUnlock, Excluded, AddedOnce, FreedAreTaken, HandedInOrder
  <2>4. Announced'
    BY <1>12 DEF WorkerUnlock, Announced, announced, bytesRead
  <2>5. (Linked /\ Walking /\ Fetching)'
    BY <1>12 DEF WorkerUnlock, Linked, Node, lo, hi, Walking, Fetching
  <2> QED
    BY <2>1, <2>2, <2>4, <2>5
<1>13. CASE WorkerServe
  <2>. DEFINE job == [kind |-> byte, item |-> ret]
  <2>a. /\ Len(taken) + 1 <= Len(added) /\ byte = kindOf[added[Len(taken) + 1]]
        /\ ret = added[Len(taken) + 1] /\ ret \in Items /\ ret # Null
    BY <1>13 DEF WorkerServe, Announced, Fetching
  <2>b. job \in [kind : Kinds, item : Items]
    BY <2>a DEF TypeOK
  <2>0. taken' = Append(taken, job) /\ Len(taken') = Len(taken) + 1 /\ freed' = freed \cup {ret}
    BY <1>13, <2>a, <2>b DEF WorkerServe, TypeOK
  <2>1. TypeOK'
    <3>1. taken' \in Seq([kind : Kinds, item : Items])
      BY <2>0, <2>b DEF TypeOK
    <3> QED
      BY <1>13, <2>0, <2>a, <3>1 DEF WorkerServe, TypeOK, WorkerPC
  <2>2. (Excluded /\ AddedOnce /\ FreedAreTaken)'
    BY <1>13 DEF WorkerServe, Excluded, AddedOnce, FreedAreTaken, TypeOK, Fetching,
      Linked, Node, lo, hi
  <2>4. Announced'
    <3>1. bytesRead' = bytesRead /\ announced' = announced
      BY <1>13, <2>0 DEF WorkerServe, bytesRead, announced, TypeOK
    <3> QED
      BY <1>13, <3>1 DEF WorkerServe, Announced
  <2>5. (Linked /\ Fetching)'
    BY SMTT(30), <1>13 DEF WorkerServe, Linked, Node, lo, hi, TypeOK, Excluded, AddedOnce,
      Announced, announced, bytesRead, Fetching
  <2>6. Walking'
    <3>1. lo' = lo /\ hi' = hi
      BY <1>13, <2>0 DEF WorkerServe, lo, hi
    <3> QED
      BY <1>13, <3>1 DEF WorkerServe, Walking, Node
  <2>9. HandedInOrder'
    <3>1. \A k \in 1..Len(taken') : taken'[k] = IF k <= Len(taken) THEN taken[k] ELSE job
      BY <2>0, <2>b DEF TypeOK
    <3> QED
      BY <1>13, <2>0, <2>a, <3>1 DEF WorkerServe, HandedInOrder
  <2> QED
    BY <2>1, <2>2, <2>4, <2>5, <2>6, <2>9
<1>14. CASE UNCHANGED vars
  <2>1. TypeOK'
    BY <1>14 DEF vars, TypeOK, MainPC, WorkerPC, Nodes, Ptrs
  <2>2. (Excluded /\ AddedOnce /\ FreedAreTaken /\ HandedInOrder)'
    BY <1>14 DEF vars, Excluded, AddedOnce, FreedAreTaken, HandedInOrder
  <2>4. Announced'
    BY <1>14 DEF vars, Announced, announced, bytesRead
  <2>5. (Linked /\ Walking /\ Fetching)'
    BY <1>14 DEF vars, Linked, Node, lo, hi, Walking, Fetching
  <2> QED
    BY <2>1, <2>2, <2>4, <2>5
<1> QED
  BY <1>1, <1>2, <1>3, <1>4, <1>5, <1>6, <1>7, <1>8, <1>9, <1>10, <1>11, <1>12, <1>13,
     <1>14 DEF Next, Main, Worker

-----------------------------------------------------------------------------
\* With q_lock the invariant holds in every reachable state.
LEMMA SpecInv == ASSUME Locked PROVE Spec => []Inv
<1>1. Inv /\ [Next]_vars => Inv'
  BY StepInv
<1> QED
  BY <1>1, InitInv, PTL DEF Spec

\* The pointers of conn_queue and the local pointers of slist_add and
\* slist_fetch point to nodes of the list, or are null where the code tests.
THEOREM TypeCorrect == ASSUME Locked PROVE Spec => []TypeOK
  BY SpecInv, PTL DEF Inv

\* With q_lock a worker serves the connections in the order in which the
\* main loop handed them over, each under its own command byte.
THEOREM FirstInFirstOut == ASSUME Locked PROVE Spec => []HandedInOrder
  BY SpecInv, PTL DEF Inv

\* With q_lock a worker that was notified finds an item: thread_process never
\* takes its "NULL" return.
THEOREM NotifiedWorkerFinds == ASSUME Locked PROVE Spec => []NotifiedFinds
<1>1. Inv => NotifiedFinds
  BY Counters, NullAssumption DEF Inv, Announced, Fetching, NotifiedFinds
<1> QED
  BY <1>1, SpecInv, PTL

\* With q_lock slist_add never stands on an item that the worker has freed.
THEOREM NoDanglingPointer == ASSUME Locked PROVE Spec => []NoDangling
<1>1. Inv => NoDangling
  BY ListNodes DEF Inv, Walking, NoDangling
<1> QED
  BY <1>1, SpecInv, PTL

-----------------------------------------------------------------------------
(* Refinement of ConnFifo, without its fairness.                           *)

\* An empty conn_queue is an empty queue.
LEMMA InitFifo == Init => Fifo!Init
  BY DEF Init, Fifo!Init, Waiting, announced

\* The abstract queue, item by item.
IsWaiting ==
    /\ Waiting \in Seq(Fifo!Job)
    /\ Len(Waiting) = announced - Len(taken)
    /\ \A k \in 1..Len(Waiting) :
          /\ Len(taken) + k \in 1..Len(added)
          /\ Waiting[k] = [kind |-> kindOf[added[Len(taken) + k]], item |-> added[Len(taken) + k]]

\* What waits in the queue, seen from the pointers, is items.
LEMMA WaitingItems == Inv => IsWaiting
<1> SUFFICES ASSUME Inv PROVE IsWaiting
  OBVIOUS
<1> DEFINE m == announced - Len(taken)
<1>1. m \in Nat
  BY Counters
<1>2. \A k \in 1..m : Len(taken) + k \in 1..Len(added) /\ added[Len(taken) + k] \in Items
  BY Counters
<1>3. Waiting \in [1..m -> Fifo!Job]
  BY <1>2 DEF Waiting, Inv, TypeOK, Fifo!Job
<1>4. Waiting \in Seq(Fifo!Job) /\ Len(Waiting) = m
  BY <1>1, <1>3
<1> QED
  BY <1>2, <1>4 DEF IsWaiting, Waiting

\* Only two actions move the abstract queue: the byte that goes into the pipe
\* hands an item over, and the worker that serves an item takes it.
LEMMA StepFifo ==
    ASSUME Locked, Inv, Inv', [Next]_vars
    PROVE  [Fifo!Next]_<<Waiting, taken>>
<1> USE NullAssumption, LockedAssumption, Counters DEF mainVars, workerVars
<1>a. IsWaiting
  BY WaitingItems
<1>b. IsWaiting'
  BY WaitingItems, PTL
<1>1. ASSUME announced' = announced, added' = added, taken' = taken, kindOf' = kindOf
      PROVE  UNCHANGED <<Waiting, taken>>
  BY <1>1 DEF Waiting
<1>2. ASSUME NEW i \in Items, MainStart(i) PROVE UNCHANGED <<Waiting, taken>>
  <2>1. announced' = announced /\ announced = Len(added)
    BY <1>2 DEF MainStart, announced, Inv, TypeOK
  <2>2. \A k \in 1..Len(added) : added'[k] = added[k]
    BY <1>2 DEF MainStart, Inv, TypeOK
  <2>3. \A k \in 1..(announced - Len(taken)) : Len(taken) + k \in 1..Len(added)
    BY <2>1
  <2> QED
    BY <1>2, <2>1, <2>2, <2>3 DEF MainStart, Waiting
<1>3. CASE MainNotify
  <2> DEFINE j == [kind |-> kindOf[item], item |-> item]
             m == announced - Len(taken)
  <2>1. /\ announced' = announced + 1 /\ item = added[announced + 1] /\ announced + 1 <= Len(added)
        /\ added' = added /\ taken' = taken /\ kindOf' = kindOf
    BY <1>3 DEF MainNotify, announced, Inv, AddedOnce
  <2>2. m \in Nat /\ Len(taken) + (m + 1) = announced + 1
    OBVIOUS
  <2>3. j \in Fifo!Job
    BY <2>1 DEF Inv, TypeOK, Fifo!Job
  <2>4. Waiting' = Append(Waiting, j)
    <3>1. /\ Append(Waiting, j) \in Seq(Fifo!Job) /\ Len(Append(Waiting, j)) = m + 1
          /\ \A k \in 1..(m + 1) : Append(Waiting, j)[k] = IF k = m + 1 THEN j ELSE Waiting[k]
      BY SMTT(30), <1>a, <2>2, <2>3 DEF IsWaiting
    <3>2. Waiting' \in Seq(Fifo!Job) /\ Len(Waiting') = m + 1
      BY <1>b, <2>1, <2>2 DEF IsWaiting, Fifo!Job
    <3>3. \A k \in 1..(m + 1) : Waiting'[k] = Append(Waiting, j)[k]
      <4> TAKE k \in 1..(m + 1)
      <4>1. Waiting'[k] = [kind |-> kindOf[added[Len(taken) + k]], item |-> added[Len(taken) + k]]
        BY <1>b, <2>1, <3>2 DEF IsWaiting
      <4>2. CASE k = m + 1
        BY <2>1, <2>2, <3>1, <4>1, <4>2
      <4>3. CASE k \in 1..m
        BY SMTT(30), <1>a, <2>2, <3>1, <4>1, <4>3 DEF IsWaiting
      <4>4. k = m + 1 \/ k \in 1..m
        BY SMTT(30), <2>2
      <4> QED
        BY <4>2, <4>3, <4>4
    <3> QED
      BY <3>1, <3>2, <3>3, SeqEqual
  <2>5. \A k \in 1..announced : added[k] # item
    BY <2>1 DEF Inv, AddedOnce
  <2>6. \A k \in 1..Len(Waiting) : Waiting[k].item # item
    <3> TAKE k \in 1..Len(Waiting)
    <3>1. Len(taken) + k \in 1..announced
      BY <1>a, <2>2 DEF IsWaiting
    <3> QED
      BY SMTT(30), <1>a, <2>5, <3>1 DEF IsWaiting
  <2>7. \A k \in 1..Len(taken) : taken[k].item # item
    <3> TAKE k \in 1..Len(taken)
    <3>1. k \in 1..announced
      OBVIOUS
    <3>2. taken[k] = [kind |-> kindOf[added[k]], item |-> added[k]]
      BY DEF Inv, HandedInOrder
    <3>3. taken[k].item = added[k]
      BY <3>2
    <3> QED
      BY <2>5, <3>1, <3>3
  <2> QED
    BY <2>1, <2>3, <2>4, <2>6, <2>7 DEF Fifo!Next, Fifo!HandOver
<1>4. CASE WorkerServe
  <2> DEFINE j == [kind |-> byte, item |-> ret]
             m == announced - Len(taken)
  <2>1. /\ Len(taken) + 1 <= announced /\ ret = added[Len(taken) + 1]
        /\ byte = kindOf[added[Len(taken) + 1]] /\ ret # Null
    BY <1>4 DEF WorkerServe, Inv, Announced, Fetching
  <2>2. taken' = Append(taken, j) /\ added' = added /\ kindOf' = kindOf /\ announced' = announced
    BY <1>4, <2>1 DEF WorkerServe, announced
  <2>3. Len(taken') = Len(taken) + 1
    BY <2>2 DEF Inv, TypeOK
  <2>4. Waiting # <<>> /\ Head(Waiting) = j
    BY <1>a, <2>1 DEF IsWaiting
  <2>5. Waiting' = Tail(Waiting)
    <3>1. /\ Tail(Waiting) \in Seq(Fifo!Job) /\ Len(Tail(Waiting)) = m - 1
          /\ \A k \in 1..(m - 1) : Tail(Waiting)[k] = Waiting[k + 1]
      BY <1>a, <2>4 DEF IsWaiting
    <3>2. Waiting' \in Seq(Fifo!Job) /\ Len(Waiting') = m - 1
      BY <1>b, <2>2, <2>3 DEF IsWaiting, Fifo!Job
    <3>3. \A k \in 1..(m - 1) : Waiting'[k] = Tail(Waiting)[k]
      <4> TAKE k \in 1..(m - 1)
      <4>1. k + 1 \in 1..m /\ Len(taken') + k = Len(taken) + (k + 1)
        BY <2>3
      <4>2. Waiting'[k] = [kind |-> kindOf[added[Len(taken') + k]], item |-> added[Len(taken') + k]]
        BY <1>b, <2>2, <3>2 DEF IsWaiting
      <4> QED
        BY <1>a, <3>1, <4>1, <4>2 DEF IsWaiting
    <3> QED
      BY <3>1, <3>2, <3>3, SeqEqual
  <2> QED
    BY <2>2, <2>4, <2>5 DEF Fifo!Next, Fifo!Take
<1>5. CASE MainLock \/ MainWalk \/ MainLink \/ MainUnlock
  BY <1>1, <1>5 DEF MainLock, MainWalk, MainLink, MainUnlock, announced
<1>6. CASE \/ WorkerRead \/ WorkerLock \/ WorkerTest \/ WorkerLoad
           \/ WorkerStore \/ WorkerUnlock
  BY <1>1, <1>6 DEF WorkerRead, WorkerLock, WorkerTest, WorkerLoad, WorkerStore,
     WorkerUnlock, announced
<1>7. CASE UNCHANGED vars
  BY <1>1, <1>7 DEF vars, announced
<1> QED
  BY <1>2, <1>3, <1>4, <1>5, <1>6, <1>7 DEF Next, Main, Worker

\* What the pointers do under q_lock is what ConnFifo says of a queue: every
\* step of slist_add, slist_fetch and the pipe hands over an item, takes the
\* first one, or changes neither.
THEOREM ImplementsConnFifo ==
    ASSUME Locked PROVE Spec => Fifo!Init /\ [][Fifo!Next]_<<Waiting, taken>>
<1>1. Inv /\ Inv' /\ [Next]_vars => [Fifo!Next]_<<Waiting, taken>>
  BY StepFifo
<1> QED
  BY <1>1, InitFifo, SpecInv, PTL DEF Spec

-----------------------------------------------------------------------------
(* The start-up of a pool.                                                 *)

\* The threads that have counted themselves in init_count.
Registered == {t \in Threads : tpc[t] \in {"signal", "unlock", "loop"}}

StartTypeOK ==
    /\ spc \in {"create", "lock", "test", "wait", "waiting", "unlock", "accept"}
    /\ tpc \in [Threads -> {"none", "lock", "count", "signal", "unlock", "loop"}]
    /\ initCount \in Nat
    /\ initLock \in Threads \cup {"none", "main"}
    /\ woken \in BOOLEAN

StartInv ==
    /\ StartTypeOK
    /\ initCount = Cardinality(Registered)
    /\ spc \in {"unlock", "accept"} => initCount >= Cardinality(Threads)
    /\ added # <<>> => spc = "accept"

-----------------------------------------------------------------------------
(* The number of threads that have registered.                             *)

\* There are no more of them than threads, and with as many, it is all.
LEMMA RegisteredBound ==
    /\ IsFiniteSet(Registered)
    /\ Cardinality(Registered) \in Nat
    /\ Cardinality(Threads) \in Nat
    /\ Cardinality(Registered) <= Cardinality(Threads)
    /\ Cardinality(Registered) = Cardinality(Threads) => Registered = Threads
<1>1. Registered \in SUBSET Threads
  BY DEF Registered
<1> QED
  BY <1>1, ThreadsAssumption, FS_Subset, FS_CardinalityType

\* A step of thread t from one label to another changes the set by t at most.
LEMMA RegisteredStep ==
    ASSUME StartTypeOK, NEW t \in Threads,
           NEW l \in {"none", "lock", "count", "signal", "unlock", "loop"},
           tpc' = [tpc EXCEPT ![t] = l]
    PROVE  Registered' = IF l \in {"signal", "unlock", "loop"} THEN Registered \cup {t}
                         ELSE Registered \ {t}
  BY DEF Registered, StartTypeOK

\* The invariant of the start-up holds at the start,
LEMMA StartInit == PoolInit => StartInv
<1> SUFFICES ASSUME PoolInit PROVE StartInv
  OBVIOUS
<1>1. Registered = {}
  BY DEF PoolInit, Registered
<1>2. Cardinality(Registered) = 0
  BY <1>1, FS_EmptySet
<1>3. StartTypeOK
  BY DEF PoolInit, StartTypeOK
<1> QED
  BY <1>2, <1>3 DEF PoolInit, Init, StartInv

\* The invariant is kept by every step of the start-up and of the loops.
LEMMA StartStep == StartInv /\ [PoolNext]_poolVars => StartInv'
<1> SUFFICES ASSUME StartInv, [PoolNext]_poolVars PROVE StartInv'
  OBVIOUS
<1> USE DEF StartInv, StartTypeOK
<1>1. ASSUME NEW t \in Threads, CreateThread(t) PROVE StartInv'
  <2>1. Registered' = Registered \ {t} /\ t \notin Registered
    BY <1>1, RegisteredStep DEF CreateThread, Registered
  <2>2. Registered' = Registered
    BY <2>1
  <2> QED
    BY <1>1, <2>2 DEF CreateThread, vars
<1>2. ASSUME LockInit \/ CondWait \/ Wake \/ SpuriousWakeup PROVE StartInv'
  <2>1. Registered' = Registered
    BY <1>2 DEF LockInit, CondWait, Wake, SpuriousWakeup, Registered
  <2> QED
    BY <1>2, <2>1 DEF LockInit, CondWait, Wake, SpuriousWakeup, vars
<1>3. CASE TestCount
  <2>1. Registered' = Registered
    BY <1>3 DEF TestCount, Registered
  <2> QED
    BY <1>3, <2>1, RegisteredBound DEF TestCount, vars
<1>4. CASE UnlockInit
  <2>1. Registered' = Registered
    BY <1>4 DEF UnlockInit, Registered
  <2> QED
    BY <1>4, <2>1 DEF UnlockInit, vars
<1>5. ASSUME NEW t \in Threads, RegisterLock(t) PROVE StartInv'
  <2>1. Registered' = Registered
    BY <1>5, RegisteredStep DEF RegisterLock, Registered
  <2> QED
    BY <1>5, <2>1 DEF RegisterLock, vars
<1>6. ASSUME NEW t \in Threads, RegisterCount(t) PROVE StartInv'
  <2>1. Registered' = Registered \cup {t} /\ t \notin Registered
    BY <1>6, RegisteredStep DEF RegisterCount, Registered
  <2>2. Cardinality(Registered') = Cardinality(Registered) + 1
    BY <2>1, RegisteredBound, FS_AddElement
  <2> QED
    BY <1>6, <2>2, RegisteredBound DEF RegisterCount, vars
<1>7. ASSUME NEW t \in Threads, RegisterSignal(t) \/ RegisterUnlock(t) PROVE StartInv'
  <2>1. Registered' = Registered
    BY <1>7, RegisteredStep DEF RegisterSignal, RegisterUnlock, Registered
  <2> QED
    BY <1>7, <2>1 DEF RegisterSignal, RegisterUnlock, vars
<1>8. CASE Accepting \/ MainLoop \/ MineLoop \/ UNCHANGED poolVars
  <2>1. Registered' = Registered /\ UNCHANGED startVars
    BY <1>8 DEF Accepting, MainLoop, MineLoop, poolVars, startVars, Registered
  <2>2. CASE spc = "accept"
    BY <2>1, <2>2 DEF startVars
  <2>3. CASE spc # "accept"
    <3>1. UNCHANGED added
      BY <1>8, <2>3 DEF Accepting, MainLoop, MineLoop, poolVars, vars, Worker, WorkerRead,
                WorkerLock, WorkerTest, WorkerLoad, WorkerStore, WorkerUnlock, WorkerServe
    <3> QED
      BY <2>1, <3>1 DEF startVars
  <2> QED
    BY <2>2, <2>3
<1> QED
  BY <1>1, <1>2, <1>3, <1>4, <1>5, <1>6, <1>7, <1>8 DEF PoolNext, StartUp, Register

\* and in every reachable state of the pool.
LEMMA PoolStartInv == PoolSpec => []StartInv
  BY StartInit, StartStep, PTL DEF PoolSpec

-----------------------------------------------------------------------------
\* The pool is a hand-over that begins late: ss_create_worker_threads leaves
\* the queue and the pipe as it has made them.
THEOREM PoolHandsOver == PoolSpec => Spec
<1>1. PoolInit => Init
  BY DEF PoolInit
<1>2. [PoolNext]_poolVars => [Next]_vars
  <2> SUFFICES ASSUME [PoolNext]_poolVars PROVE [Next]_vars
    OBVIOUS
  <2>1. CASE Accepting \/ MainLoop \/ MineLoop
    BY <2>1 DEF Accepting, MainLoop, MineLoop, Next
  <2>2. CASE StartUp
    BY <2>2 DEF StartUp, LockInit, TestCount, CondWait, Wake, UnlockInit, CreateThread
  <2>3. CASE SpuriousWakeup
    BY <2>3 DEF SpuriousWakeup
  <2>4. ASSUME NEW t \in Threads, Register(t) PROVE UNCHANGED vars
    BY <2>4 DEF Register, RegisterLock, RegisterCount, RegisterSignal, RegisterUnlock
  <2>5. CASE UNCHANGED poolVars
    BY <2>5 DEF poolVars
  <2> QED
    BY <2>1, <2>2, <2>3, <2>4, <2>5 DEF PoolNext
<1> QED
  BY <1>1, <1>2, PTL DEF PoolSpec, Spec

\* Types, of the start-up and of the hand-over: init_count stays within the
\* number of threads.
THEOREM PoolTypeCorrect == ASSUME Locked PROVE PoolSpec => []PoolTypeOK
<1>1. StartInv /\ TypeOK => PoolTypeOK
  <2> SUFFICES ASSUME StartInv, TypeOK PROVE PoolTypeOK
    OBVIOUS
  <2>1. initCount \in 0..Cardinality(Threads)
    BY RegisteredBound DEF StartInv
  <2> QED
    BY <2>1 DEF StartInv, StartTypeOK, PoolTypeOK
<1> QED
  BY <1>1, PoolStartInv, PoolHandsOver, TypeCorrect, PTL

\* No connection is handed over before all workers have registered, for any
\* number of worker threads.
THEOREM PoolReadyFirst == PoolSpec => []ReadyFirst
<1>1. StartInv => ReadyFirst
  <2> SUFFICES ASSUME StartInv, spc = "accept" PROVE Registered = Threads
    BY DEF StartInv, ReadyFirst, Registered
  <2> QED
    BY RegisteredBound DEF StartInv
<1> QED
  BY <1>1, PoolStartInv, PTL

\* In the pool, too, a worker that is notified finds its connection and no
\* freed item is reached.
THEOREM PoolNotifiedFinds ==
    ASSUME Locked PROVE PoolSpec => [](NotifiedFinds /\ NoDangling)
  BY PoolHandsOver, NotifiedWorkerFinds, NoDanglingPointer, PTL
=============================================================================
