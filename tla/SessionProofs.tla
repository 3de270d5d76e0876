---------------------------- MODULE SessionProofs ---------------------------
(***************************************************************************)
(* Proofs about Session: its type invariant, and that the server's tables  *)
(* stay consistent however the clients come and go.                        *)
(*                                                                         *)
(* The inductive invariant follows the pointers.  An ACTIV_ITEM in the     *)
(* tree and the main connections it names point to each other (Linked), so *)
(* the connection that MainEof closes belongs to the session that          *)
(* MainRemove takes from the tree (EndingShut) and to no other; a          *)
(* connection takes its place in a session at most once because its INIT   *)
(* is the first thing the server reads of it (InitFirst).                  *)
(*                                                                         *)
(* Where a client waits for the end of its last connection (Patient), it   *)
(* can be followed from its INIT to the server's EOF (Stage), since the    *)
(* server has nothing to read but of its last connection (Latest): while   *)
(* it runs nobody else can be in its place.  A DAEMON that comes back then *)
(* finds no session of its own, as that of a lost connection went with the *)
(* EOF (LeaveInv).                                                         *)
(***************************************************************************)
EXTENDS Session, SequenceTheorems, TLAPS

\* A connection the server has seen belongs to a client, and a client that
\* has been started has a connection.
Owned ==
    /\ \A b \in Bevs : bevSt[b] # "none" => owner[b] \in Clients
    /\ \A p \in Clients : proc[p] # "off" => cur[p] \in Bevs

\* A connection not yet opened is in no session, and one that is in no
\* session names no USR.
Fresh ==
    \A b \in Bevs : /\ bevSt[b] = "none" => ctx[b] = None
                    /\ ctx[b] = None => usrOf[b] = None

\* INIT is the first message of a connection, and until it has been handled
\* the connection is in no session.
InitFirst ==
    \A b \in Bevs : \A i \in 1..Len(toSrv[b]) :
        toSrv[b][i] = "INIT" => i = 1 /\ ctx[b] = None

\* A session and its two main connections point to each other, and the
\* connections are not freed before the session is taken down.
Linked ==
    \A a \in activ :
        /\ ctx[a] = a /\ (a # ending => bevSt[a] # "freed")
        /\ usrOf[a] # None =>
               ctx[usrOf[a]] = a /\ (a # ending => bevSt[usrOf[a]] # "freed")

\* The session that is being taken down is still in the tree, and neither of its
\* connections is open.
EndingShut ==
    ending # None =>
        /\ ending \in activ /\ bevSt[ending] \in {"ended", "freed"}
        /\ usrOf[ending] # None => bevSt[usrOf[ending]] \in {"ended", "freed"}

Inv == TypeOK /\ Owned /\ Fresh /\ InitFirst /\ Linked /\ EndingShut /\ OneSession

-----------------------------------------------------------------------------
\* The server starts with empty tables and no connection.
LEMMA InitInv == Init => Inv
  BY EmptySeq DEF Init, Inv, TypeOK, Owned, Fresh, InitFirst, Linked, EndingShut,
     OneSession

\* The messages on a connection keep their type.
LEMMA SendType ==
    ASSUME TypeOK, NEW b \in Bevs, NEW m \in {"OK", "ERROR", "EOF"}, Send(b, m)
    PROVE  toClt' \in [Bevs -> Seq({"OK", "ERROR", "EOF"})]
  BY DEF Send, TypeOK

\* A connection that ends sends EOF or ERR behind whatever it has sent.
LEMMA EndType ==
    ASSUME TypeOK, NEW b \in Bevs \cup {None}, NEW how \in {"EOF", "ERR"}, End(b, how),
           InitFirst, ctx' = ctx
    PROVE  toSrv' \in [Bevs -> Seq({"INIT", "EOF", "ERR"})] /\ InitFirst'
  BY NoneAssumption DEF End, TypeOK, InitFirst

\* What is left when the server has read the first message of b has no INIT.
LEMMA HeadTaken ==
    ASSUME TypeOK, InitFirst, NEW b \in Bevs, toSrv[b] # <<>>,
           toSrv' = [toSrv EXCEPT ![b] = Tail(@)], \A x \in Bevs \ {b} : ctx'[x] = ctx[x]
    PROVE  InitFirst' /\ \A i \in 1..Len(toSrv'[b]) : toSrv'[b][i] # "INIT"
<1>1. toSrv[b] \in Seq({"INIT", "EOF", "ERR"}) /\ toSrv'[b] = Tail(toSrv[b])
  BY DEF TypeOK
<1>2. \A x \in Bevs \ {b} : toSrv'[x] = toSrv[x]
  BY DEF TypeOK
<1>3. \A i \in 1..Len(toSrv'[b]) : /\ i + 1 \in 1..Len(toSrv[b]) /\ i + 1 # 1
                                   /\ toSrv'[b][i] = toSrv[b][i + 1]
  <2>1. PICK q : q = toSrv[b]
    OBVIOUS
  <2>2. q \in Seq({"INIT", "EOF", "ERR"}) /\ q # <<>>
    BY <1>1, <2>1
  <2>3. /\ Len(Tail(q)) = Len(q) - 1 /\ Len(q) \in Nat
        /\ \A i \in 1..Len(Tail(q)) : Tail(q)[i] = q[i + 1]
    BY <2>2
  <2>4. \A i \in 1..Len(Tail(q)) : i + 1 \in 1..Len(q) /\ i + 1 # 1
    BY <2>3
  <2> QED
    BY <1>1, <2>1, <2>3, <2>4
<1>4. \A i \in 1..Len(toSrv'[b]) : toSrv'[b][i] # "INIT"
  BY <1>3 DEF InitFirst
<1> QED
  BY <1>2, <1>4 DEF InitFirst

\* Every step keeps the invariant: the server's handlers first, then the
\* clients' starts, replies, ends and deaths.
LEMMA StepInv == Inv /\ [Next]_vars => Inv'
<1> SUFFICES ASSUME Inv, [Next]_vars PROVE Inv'
  OBVIOUS
<1> USE NoneAssumption DEF Inv
<1>1. ASSUME NEW b \in Bevs, InitBad(b) PROVE Inv'
  <2>1. TypeOK'
    BY <1>1 DEF InitBad, TakeInit, Send, clientVars, TypeOK
  <2>2. (Owned /\ Fresh /\ Linked /\ EndingShut /\ OneSession)'
    BY <1>1 DEF InitBad, TakeInit, Send, clientVars, TypeOK, Owned, Fresh, Linked,
       EndingShut, OneSession, uuid
  <2>3. InitFirst'
    BY <1>1 DEF InitBad, TakeInit, Send, clientVars, TypeOK, InitFirst
  <2> QED
    BY <2>1, <2>2, <2>3
<1>2. ASSUME NEW b \in Bevs, InitUsr(b) PROVE Inv'
  <2>1. /\ toSrv' \in [Bevs -> Seq({"INIT", "EOF", "ERR"})]
        /\ bevSt[b] # "none" /\ ctx[b] = None
    BY <1>2 DEF InitUsr, TakeInit, TypeOK, InitFirst
  <2>2. toClt' \in [Bevs -> Seq({"OK", "ERROR", "EOF"})]
    BY <1>2, SendType DEF InitUsr
  <2>3. CASE UNCHANGED <<usrOf, ctx>>
    <3>1. TypeOK'
      BY <1>2, <2>1, <2>2, <2>3 DEF InitUsr, clientVars, TypeOK
    <3>2. (Owned /\ Fresh /\ Linked /\ EndingShut /\ OneSession)'
      BY <1>2, <2>3 DEF InitUsr, clientVars, TypeOK, Owned, Fresh, Linked, EndingShut, OneSession, uuid
    <3>3. InitFirst'
      BY <1>2, <2>1, <2>3, HeadTaken DEF InitUsr, TakeInit
    <3> QED
      BY <3>1, <3>2, <3>3
  <2>4. ASSUME NEW a \in activ, usrOf' = [usrOf EXCEPT ![a] = b], ctx' = [ctx EXCEPT ![b] = a]
        PROVE  Inv'
    <3>1. TypeOK'
      BY <1>2, <2>1, <2>2, <2>4 DEF InitUsr, clientVars, TypeOK
    <3>2. (Owned /\ Fresh /\ OneSession)'
      BY <1>2, <2>1, <2>4 DEF InitUsr, clientVars, TypeOK, Owned, Fresh, Linked, EndingShut,
         OneSession, uuid
    <3>3. (Linked /\ EndingShut)'
      BY <1>2, <2>1, <2>4 DEF InitUsr, TakeInit, TypeOK, Linked, EndingShut
    <3>4. InitFirst'
      BY <1>2, <2>1, <2>4, HeadTaken DEF InitUsr, TakeInit, TypeOK
    <3> QED
      BY <3>1, <3>2, <3>3, <3>4
  <2> QED
    BY <1>2, <2>3, <2>4 DEF InitUsr, Search
<1>3. ASSUME NEW b \in Bevs, InitDaemon(b) PROVE Inv'
  <2>1. /\ toSrv' \in [Bevs -> Seq({"INIT", "EOF", "ERR"})]
        /\ bevSt[b] \notin {"none", "freed"} /\ ctx[b] = None
    BY <1>3 DEF InitDaemon, TakeInit, TypeOK, InitFirst
  <2>2. toClt' \in [Bevs -> Seq({"OK", "ERROR", "EOF"})]
    BY <1>3, SendType DEF InitDaemon
  <2>3. InitFirst'
    BY <1>3 DEF InitDaemon, TakeInit, TypeOK, InitFirst
  <2>4. accts' \subseteq Users
    BY <1>3 DEF InitDaemon, TypeOK, Users, Clients
  <2>5. CASE UNCHANGED <<activ, ctx>>
    BY <1>3, <2>1, <2>2, <2>3, <2>4, <2>5
    DEF InitDaemon, clientVars, TypeOK, Owned, Fresh, Linked, EndingShut, OneSession, uuid
  <2>6. CASE /\ Search(UuidOf[owner[b]]) = {}
             /\ activ' = activ \cup {b} /\ ctx' = [ctx EXCEPT ![b] = b]
    <3>1. TypeOK'
      BY <1>3, <2>1, <2>2, <2>4, <2>6 DEF InitDaemon, clientVars, TypeOK
    <3>2. (Owned /\ Fresh)'
      BY <1>3, <2>1, <2>6 DEF InitDaemon, clientVars, TypeOK, Owned, Fresh
    <3>3. (Linked /\ EndingShut)'
      BY <1>3, <2>1, <2>6 DEF InitDaemon, TakeInit, TypeOK, Linked, EndingShut, Fresh
    <3>4. OneSession'
      BY <1>3, <2>6 DEF InitDaemon, Search, clientVars, TypeOK, OneSession, uuid
    <3> QED
      BY <2>3, <3>1, <3>2, <3>3, <3>4
  <2> QED
    BY <1>3, <2>5, <2>6 DEF InitDaemon
<1>4. ASSUME NEW b \in Bevs, MainEofIdle(b) PROVE Inv'
  <2>1. TypeOK'
    BY <1>4 DEF MainEofIdle, TakeEnd, clientVars, TypeOK
  <2>2. (Owned /\ Fresh /\ Linked /\ EndingShut /\ OneSession)'
    BY <1>4 DEF MainEofIdle, TakeEnd, clientVars, TypeOK, Owned, Fresh, Linked, EndingShut, OneSession, uuid
  <2>3. InitFirst'
    BY <1>4 DEF MainEofIdle, TakeEnd, clientVars, TypeOK, InitFirst
  <2> QED
    BY <2>1, <2>2, <2>3
<1>5. ASSUME NEW b \in Bevs, MainEof(b) PROVE Inv'
  <2>1. TypeOK'
    BY <1>5 DEF MainEof, Remove, PeerOf, clientVars, TypeOK, user
  <2>2. (Owned /\ Fresh /\ Linked /\ EndingShut /\ OneSession)'
    BY <1>5 DEF MainEof, Remove, PeerOf, clientVars, TypeOK, Owned, Fresh, Linked,
       EndingShut, OneSession, uuid
  <2>3. InitFirst'
    BY <1>5 DEF MainEof, Remove, PeerOf, clientVars, TypeOK, InitFirst
  <2> QED
    BY <2>1, <2>2, <2>3
<1>6. ASSUME NEW b \in Bevs, MainEofStale(b) PROVE Inv'
  <2>1. TypeOK'
    BY <1>6 DEF MainEofStale, TakeEnd, clientVars, TypeOK
  <2>2. (Owned /\ Fresh /\ Linked /\ EndingShut /\ OneSession)'
    BY <1>6 DEF MainEofStale, TakeEnd, clientVars, TypeOK, Owned, Fresh, Linked,
       EndingShut, OneSession, uuid
  <2>3. InitFirst'
    BY <1>6 DEF MainEofStale, TakeEnd, clientVars, TypeOK, InitFirst
  <2> QED
    BY <2>1, <2>2, <2>3
<1>7. ASSUME NEW b \in Bevs, MainError(b) PROVE Inv'
  <2>1. TypeOK'
    BY <1>7 DEF MainError, TakeEnd, clientVars, TypeOK
  <2>2. (Owned /\ Fresh /\ Linked /\ EndingShut /\ OneSession)'
    BY <1>7 DEF MainError, TakeEnd, clientVars, TypeOK, Owned, Fresh, Linked, EndingShut, OneSession, uuid
  <2>3. InitFirst'
    BY <1>7 DEF MainError, TakeEnd, clientVars, TypeOK, InitFirst
  <2> QED
    BY <2>1, <2>2, <2>3
<1>8. ASSUME NEW p \in Clients, Reply(p) PROVE Inv'
  <2>1. cur[p] \in Bevs
    BY <1>8 DEF Reply, Owned
  <2>2. toSrv' \in [Bevs -> Seq({"INIT", "EOF", "ERR"})] /\ InitFirst'
    BY <1>8, <2>1, EndType DEF Reply, TypeOK, InitFirst
  <2>3. toClt' \in [Bevs -> Seq({"OK", "ERROR", "EOF"})]
    <3> DEFINE q == toClt[cur[p]]
    <3>1. q \in Seq({"OK", "ERROR", "EOF"}) /\ q # <<>>
      BY <1>8, <2>1 DEF Reply, TypeOK
    <3>2. Tail(q) \in Seq({"OK", "ERROR", "EOF"}) /\ <<>> \in Seq({"OK", "ERROR", "EOF"})
      BY <3>1
    <3>3. \E r \in Seq({"OK", "ERROR", "EOF"}) : toClt' = [toClt EXCEPT ![cur[p]] = r]
      BY <1>8, <3>2 DEF Reply
    <3> QED
      BY <3>3 DEF TypeOK
  <2>4. TypeOK'
    BY <1>8, <2>2, <2>3 DEF Reply, TypeOK
  <2>5. (Owned /\ Fresh /\ Linked /\ EndingShut /\ OneSession)'
    BY <1>8 DEF Reply, TypeOK, Owned, Fresh, Linked, EndingShut, OneSession, uuid
  <2> QED
    BY <2>2, <2>4, <2>5
<1>9. ASSUME NEW p \in Clients, UsrEof(p) PROVE Inv'
  <2>1. TypeOK'
    BY <1>9 DEF UsrEof, Lost, End, clientVars, TypeOK
  <2>2. (Owned /\ Fresh /\ Linked /\ EndingShut /\ OneSession)'
    BY <1>9 DEF UsrEof, Lost, End, clientVars, TypeOK, Owned, Fresh, Linked, EndingShut, OneSession, uuid
  <2>3. InitFirst'
    BY <1>9 DEF UsrEof, Lost, End, clientVars, TypeOK, InitFirst
  <2> QED
    BY <2>1, <2>2, <2>3
<1>10. ASSUME NEW p \in Clients, Die(p) PROVE Inv'
  <2>1. TypeOK'
    BY <1>10 DEF Die, End, clientVars, TypeOK
  <2>2. (Owned /\ Fresh /\ Linked /\ EndingShut /\ OneSession)'
    BY <1>10 DEF Die, End, clientVars, TypeOK, Owned, Fresh, Linked, EndingShut, OneSession, uuid
  <2>3. InitFirst'
    BY <1>10 DEF Die, End, clientVars, TypeOK, InitFirst
  <2> QED
    BY <2>1, <2>2, <2>3
<1>11. ASSUME NEW p \in Clients, NEW b \in Bevs, Start(p, b) PROVE Inv'
  <2>1. TypeOK'
    BY <1>11 DEF Start, Login, clientVars, TypeOK
  <2>2. (Owned /\ Fresh /\ Linked /\ EndingShut /\ OneSession)'
    BY <1>11 DEF Start, Login, clientVars, TypeOK, Owned, Fresh, Linked, EndingShut, OneSession, uuid
  <2>3. InitFirst'
    BY <1>11 DEF Start, Login, clientVars, TypeOK, InitFirst, Fresh
  <2> QED
    BY <2>1, <2>2, <2>3
<1>12. ASSUME NEW p \in Clients, NEW b \in Bevs, DaemonEof(p, b) PROVE Inv'
  <2>1. TypeOK'
    BY <1>12 DEF DaemonEof, Lost, Login, clientVars, TypeOK
  <2>2. (Owned /\ Fresh /\ Linked /\ EndingShut /\ OneSession)'
    BY <1>12 DEF DaemonEof, Lost, Login, clientVars, TypeOK, Owned, Fresh, Linked,
       EndingShut, OneSession, uuid
  <2>3. InitFirst'
    BY <1>12 DEF DaemonEof, Lost, Login, clientVars, TypeOK, InitFirst, Fresh
  <2> QED
    BY <2>1, <2>2, <2>3
<1>13. CASE UNCHANGED vars
  <2>1. (TypeOK /\ Owned /\ Fresh)'
    BY <1>13 DEF vars, TypeOK, Owned, Fresh
  <2>2. (InitFirst /\ Linked /\ EndingShut)'
    BY <1>13 DEF vars, InitFirst, Linked, EndingShut
  <2>3. OneSession'
    BY <1>13 DEF vars, OneSession, uuid
  <2> QED
    BY <2>1, <2>2, <2>3
<1>14. CASE MainRemove
  <2>1. ending \in activ /\ ending' = None /\ activ' = activ \ {ending} /\ accts' \subseteq accts
    BY <1>14 DEF MainRemove, Remove, EndingShut
  <2>2. UNCHANGED <<clientVars, toSrv, toClt, bevSt, ctx, usrOf, fault>>
    BY <1>14 DEF MainRemove
  <2>3. (TypeOK /\ Owned /\ Fresh /\ InitFirst)'
    BY <2>1, <2>2 DEF clientVars, TypeOK, Owned, Fresh, InitFirst
  <2>4. (Linked /\ EndingShut /\ OneSession)'
    BY <2>1, <2>2 DEF clientVars, Linked, EndingShut, OneSession, uuid
  <2> QED
    BY <2>3, <2>4
<1> QED
  BY <1>1, <1>2, <1>3, <1>4, <1>5, <1>6, <1>7, <1>8, <1>9, <1>10, <1>11, <1>12, <1>13, <1>14
  DEF Next, Server, Client

-----------------------------------------------------------------------------
\* The invariant holds in every state a session server can reach.
LEMMA SpecInv == Spec => []Inv
  BY InitInv, StepInv, PTL DEF Spec

\* Every variable keeps its type: in particular no client is ever sent, and
\* no table ever names, what is not a connection.
THEOREM TypeCorrect == Spec => []TypeOK
  BY SpecInv, PTL DEF Inv

\* However clients come, go and come back, with or without an orderly end of
\* their connections, ss_uuid_search never lets two sessions of one machine
\* id into the tree.
THEOREM SessionUnique == Spec => []OneSession
  BY SpecInv, PTL DEF Inv

\* What main_bufferevent_cb frees is named by the session it is about to remove
\* and by no other: the workers meet a freed bufferevent in no session but that
\* one, and it is let into by nobody until it is gone.
THEOREM SessionBevsLive == Spec => []LiveBevs
<1>1. ASSUME Inv, NEW a \in activ
      PROVE  /\ bevSt[a] = "freed" \/ (usrOf[a] # None /\ bevSt[usrOf[a]] = "freed") => ending = a
             /\ ending = a => bevSt[a] # "open" /\ (usrOf[a] # None => bevSt[usrOf[a]] # "open")
  <2>1. a \in Bevs /\ a # None
    BY <1>1, NoneAssumption DEF Inv, TypeOK
  <2>2. a # ending => bevSt[a] # "freed" /\ (usrOf[a] # None => bevSt[usrOf[a]] # "freed")
    BY <1>1 DEF Inv, Linked
  <2>3. ending = a => bevSt[a] # "open" /\ (usrOf[a] # None => bevSt[usrOf[a]] # "open")
    BY <1>1, <2>1 DEF Inv, EndingShut
  <2> QED
    BY <2>2, <2>3
<1>2. Inv => LiveBevs
  BY <1>1 DEF LiveBevs
<1> QED
  BY <1>2, SpecInv, PTL

-----------------------------------------------------------------------------
\* A DAEMON that was refused stays refused: nothing gives its connection a place
\* in a session, and no INIT comes over it again.
LEMMA RefusedStays ==
    ASSUME Inv, [Next]_vars, NEW b \in Bevs, RefusedDaemon(b)
    PROVE  RefusedDaemon(b)' /\ owner'[b] = owner[b]
<1> USE NoneAssumption DEF Inv
<1>1. ASSUME owner' = owner, ctx' = ctx, bevSt'[b] # "none",
             toSrv'[b] = toSrv[b] \/ \A i \in 1..Len(toSrv'[b]) : toSrv'[b][i] # "INIT"
      PROVE  RefusedDaemon(b)' /\ owner'[b] = owner[b]
  BY <1>1 DEF RefusedDaemon
<1>2. ASSUME NEW x \in Bevs, TakeInit(x) PROVE x # b
  <2>1. toSrv[x][1] = "INIT" /\ 1 \in 1..Len(toSrv[x])
    BY <1>2 DEF TakeInit, TypeOK
  <2> QED
    BY <2>1 DEF RefusedDaemon
<1>3. ASSUME NEW x \in Bevs, InitBad(x) \/ InitUsr(x) \/ InitDaemon(x)
      PROVE  RefusedDaemon(b)' /\ owner'[b] = owner[b]
  <2>1. TakeInit(x) /\ x # b /\ UNCHANGED <<clientVars, bevSt>>
    BY <1>2, <1>3 DEF InitBad, InitUsr, InitDaemon
  <2>2. toSrv'[b] = toSrv[b]
    BY <2>1 DEF TakeInit, TypeOK
  <2>3. ctx'[b] = ctx[b]
    BY <1>3, <2>1 DEF InitBad, InitUsr, InitDaemon, TypeOK
  <2> QED
    BY <2>1, <2>2, <2>3 DEF RefusedDaemon, clientVars
<1>4. ASSUME NEW x \in Bevs, NEW how \in {"EOF", "ERR"}, TakeEnd(x, how),
             UNCHANGED <<clientVars, ctx>>
      PROVE  RefusedDaemon(b)' /\ owner'[b] = owner[b]
  <2>1. bevSt'[b] # "none"
    BY <1>4 DEF TakeEnd, TypeOK, RefusedDaemon
  <2>2. CASE x = b
    BY <1>1, <1>4, <2>1, <2>2, HeadTaken DEF TakeEnd, clientVars
  <2>3. CASE x # b
    <3>1. toSrv'[b] = toSrv[b]
      BY <1>4, <2>3 DEF TakeEnd, TypeOK
    <3> QED
      BY <1>1, <1>4, <2>1, <3>1 DEF clientVars
  <2> QED
    BY <2>2, <2>3
<1>5. ASSUME NEW x \in Bevs, MainEofIdle(x) \/ MainEofStale(x) \/ MainError(x)
      PROVE  RefusedDaemon(b)' /\ owner'[b] = owner[b]
  BY <1>4, <1>5 DEF MainEofIdle, MainEofStale, MainError
<1>6. ASSUME NEW x \in Bevs, MainEof(x) PROVE RefusedDaemon(b)' /\ owner'[b] = owner[b]
  <2>1. /\ owner' = owner /\ ctx' = ctx
        /\ toSrv'[b] = toSrv[b] \/ toSrv'[b] = <<>>
        /\ bevSt'[b] \in {"ended", "freed", bevSt[b]}
    BY <1>6 DEF MainEof, clientVars, TypeOK
  <2> QED
    BY <1>1, <2>1 DEF RefusedDaemon
<1>7. ASSUME NEW p \in Clients, proc[p] # "off", NEW how \in {"EOF", "ERR"}, End(cur[p], how),
             UNCHANGED <<owner, ctx, bevSt>>
      PROVE  RefusedDaemon(b)' /\ owner'[b] = owner[b]
  <2>1. toSrv'[b] = toSrv[b] \/ toSrv'[b] = Append(toSrv[b], how)
    BY <1>7 DEF End, TypeOK
  <2>2. toSrv[b] \in Seq({"INIT", "EOF", "ERR"}) /\ \A i \in 1..Len(toSrv[b]) : toSrv[b][i] # "INIT"
    BY DEF TypeOK, RefusedDaemon
  <2>3. \A i \in 1..Len(Append(toSrv[b], how)) : Append(toSrv[b], how)[i] # "INIT"
    BY <2>2
  <2>4. bevSt'[b] # "none"
    BY <1>7 DEF RefusedDaemon
  <2> QED
    BY <1>1, <1>7, <2>1, <2>3, <2>4
<1>8. ASSUME NEW p \in Clients, Reply(p) PROVE RefusedDaemon(b)' /\ owner'[b] = owner[b]
  <2>1. proc[p] # "off" /\ UNCHANGED <<owner, ctx, bevSt>> /\ (toSrv' = toSrv \/ End(cur[p], "EOF"))
    BY <1>8 DEF Reply
  <2>2. CASE toSrv' = toSrv
    BY <1>1, <2>1, <2>2 DEF RefusedDaemon
  <2> QED
    BY <1>7, <2>1, <2>2
<1>9. ASSUME NEW p \in Clients, UsrEof(p) \/ Die(p) PROVE RefusedDaemon(b)' /\ owner'[b] = owner[b]
  <2>1. PICK how \in {"EOF", "ERR"} : End(cur[p], how)
    BY <1>9 DEF UsrEof, Die
  <2> QED
    BY <1>7, <1>9, <2>1 DEF UsrEof, Lost, Die
<1>10. ASSUME NEW p \in Clients, NEW x \in Bevs, Start(p, x) \/ DaemonEof(p, x)
       PROVE  RefusedDaemon(b)' /\ owner'[b] = owner[b]
  <2>1. Login(p, x) /\ x # b
    BY <1>10 DEF Start, DaemonEof, Login, RefusedDaemon
  <2> QED
    BY <2>1 DEF Login, RefusedDaemon, TypeOK
<1>11. CASE UNCHANGED vars \/ MainRemove
  BY <1>1, <1>11 DEF vars, MainRemove, clientVars, RefusedDaemon
<1> QED
  BY <1>3, <1>5, <1>6, <1>8, <1>9, <1>10, <1>11 DEF Next, Server, Client

\* The accounts that refused DAEMONs have left behind.
LeftBehind == {user(b) : b \in {x \in Bevs : RefusedDaemon(x)}}

\* The step only matters for the actions that add or remove a session, or
\* that open a connection and so define its user.
LEMMA StepAccounts ==
    ASSUME Inv, Inv', AccountsInUse, [Next]_vars
    PROVE  AccountsInUse'
<1> USE NoneAssumption
<1>1. {user(a) : a \in activ} \subseteq accts /\ accts \subseteq {user(a) : a \in activ} \cup LeftBehind
  BY DEF AccountsInUse, LeftBehind
<1>2. LeftBehind \subseteq LeftBehind'
  <2>1. ASSUME NEW b \in Bevs, RefusedDaemon(b) PROVE user(b) \in LeftBehind'
    BY <2>1, RefusedStays DEF LeftBehind, user
  <2> QED
    BY <2>1 DEF LeftBehind
<1> SUFFICES /\ {user(a)' : a \in activ'} \subseteq accts'
             /\ accts' \subseteq {user(a)' : a \in activ'} \cup LeftBehind'
  BY DEF AccountsInUse, LeftBehind, user
<1> DEFINE Goal == /\ {user(a)' : a \in activ'} \subseteq accts'
                   /\ accts' \subseteq {user(a)' : a \in activ'} \cup LeftBehind'
<1>3. ASSUME activ' = activ, accts' = accts, \A a \in activ : user(a)' = user(a) PROVE Goal
  BY <1>1, <1>2, <1>3
<1>4. ASSUME owner' = owner, activ' = activ, accts' = accts PROVE Goal
  <2>1. \A a \in activ : user(a)' = user(a)
    BY <1>4 DEF user
  <2> QED
    BY <1>3, <1>4, <2>1
<1>5. ASSUME NEW b \in Bevs, NEW p \in Clients, Login(p, b) PROVE Goal
  <2>1. b \notin activ /\ activ \subseteq Bevs
    BY <1>5 DEF Inv, TypeOK, Login, Linked, Fresh
  <2>2. \A a \in activ : user(a)' = user(a)
    BY <1>5, <2>1 DEF Login, Inv, TypeOK, user
  <2>3. activ' = activ /\ accts' = accts
    BY <1>5 DEF Login
  <2> QED
    BY <1>3, <2>2, <2>3
<1>6. ASSUME NEW b \in Bevs, InitDaemon(b) PROVE Goal
  <2>1. /\ TakeInit(b) /\ accts' = accts \cup {user(b)} /\ owner' = owner /\ bevSt' = bevSt
        /\ owner[b] \in Daemons \ BadKey
    BY <1>6 DEF InitDaemon, clientVars, user
  <2>2. \A a : user(a)' = user(a)
    BY <2>1 DEF user
  <2>3. CASE activ' = activ \cup {b}
    BY <1>1, <1>2, <2>1, <2>2, <2>3
  <2>4. CASE activ' = activ /\ ctx' = ctx
    <3>1. ctx[b] = None /\ bevSt[b] = "open" /\ toSrv[b] # <<>>
      BY <2>1 DEF TakeInit, Inv, InitFirst, TypeOK
    <3>2. \A i \in 1..Len(toSrv'[b]) : toSrv'[b][i] # "INIT"
      BY <2>1, <2>4, <3>1, HeadTaken DEF TakeInit, Inv
    <3>3. RefusedDaemon(b)'
      BY <2>1, <2>4, <3>1, <3>2 DEF RefusedDaemon
    <3>4. user(b) \in LeftBehind'
      BY <2>2, <3>3 DEF LeftBehind
    <3> QED
      BY <1>1, <1>2, <2>1, <2>2, <2>4, <3>4
  <2> QED
    BY <1>6, <2>3, <2>4 DEF InitDaemon
<1>7. CASE MainRemove
  <2>1. owner' = owner /\ Remove(ending)
    BY <1>7 DEF MainRemove, clientVars
  <2>2. \A a : user(a)' = user(a)
    BY <2>1 DEF user
  <2>3. activ' = activ \ {ending}
    BY <2>1 DEF Remove
  <2>4. CASE \E x \in activ \ {ending} : user(x) = user(ending)
    <3>1. accts' = accts
      BY <2>1, <2>4 DEF Remove
    <3>2. {user(a) : a \in activ} = {user(a) : a \in activ \ {ending}}
      <4>1. PICK x \in activ \ {ending} : user(x) = user(ending)
        BY <2>4
      <4> QED
        BY <4>1
    <3> QED
      BY <1>1, <1>2, <2>2, <2>3, <3>1, <3>2
  <2>5. CASE ~\E x \in activ \ {ending} : user(x) = user(ending)
    <3>1. accts' = accts \ {user(ending)}
      BY <2>1, <2>5 DEF Remove
    <3> QED
      BY <1>1, <1>2, <2>2, <2>3, <2>5, <3>1
  <2> QED
    BY <2>4, <2>5
<1>8. CASE UNCHANGED vars
  BY <1>4, <1>8 DEF vars, clientVars
<1> QED
  BY <1>4, <1>5, <1>6, <1>7, <1>8 DEF Next, Server, Client, InitBad, InitUsr, MainEofIdle,
     MainEof, MainEofStale, MainError, Reply, UsrEof, Die, Start, DaemonEof, clientVars

\* However sessions of one account or of several come and go, the server keeps
\* an ACCT_ITEM as long as one of its sessions lives, and the only ones it keeps
\* longer are those that ss_main_handle_init adds for a DAEMON whose machine id
\* then turns out to be taken.
THEOREM AccountsKept == Spec => []AccountsInUse
<1>1. Init => AccountsInUse
  BY DEF Init, AccountsInUse
<1>2. Inv /\ Inv' /\ AccountsInUse /\ [Next]_vars => AccountsInUse'
  BY StepAccounts
<1> QED
  BY <1>1, <1>2, SpecInv, PTL DEF Spec

-----------------------------------------------------------------------------
\* A connection that has been in a session and is still open is one of the two
\* of a session in the tree, or was replaced: MainEof closes both of a session
\* before MainRemove takes it from the tree.
Settled ==
    \A b \in Bevs : bevSt[b] = "open" /\ ctx[b] # None => ctx[b] \in activ \/ Replaced(b)

\* Nothing but MainRemove takes a session from the tree, and a connection's place
\* is not given back to it.
LEMMA StepSettled ==
    ASSUME Inv, Settled, [Next]_vars
    PROVE  Settled'
<1> USE NoneAssumption DEF Replaced
<1>1. ASSUME ctx' = ctx, usrOf' = usrOf, activ' = activ,
             \A x \in Bevs : bevSt'[x] = "open" => bevSt[x] = "open" \/ ctx[x] = None
      PROVE  Settled'
  BY <1>1 DEF Settled
<1>2. ASSUME NEW b \in Bevs, InitUsr(b) PROVE Settled'
  <2>1. ctx[b] = None /\ bevSt' = bevSt /\ activ' = activ
    BY <1>2 DEF InitUsr, TakeInit, Inv, InitFirst, TypeOK
  <2>2. ASSUME NEW a \in activ, usrOf' = [usrOf EXCEPT ![a] = b], ctx' = [ctx EXCEPT ![b] = a]
        PROVE  Settled'
    BY <2>1, <2>2 DEF Settled, Inv, TypeOK
  <2> QED
    BY <1>1, <1>2, <2>1, <2>2 DEF InitUsr, Search
<1>3. ASSUME NEW b \in Bevs, InitDaemon(b) PROVE Settled'
  BY <1>3 DEF InitDaemon, TakeInit, Settled, Inv, TypeOK, InitFirst, clientVars
<1>4. ASSUME NEW b \in Bevs, MainEof(b) PROVE Settled'
  BY <1>1, <1>4 DEF MainEof, Inv, TypeOK
<1>5. ASSUME NEW b \in Bevs, NEW how \in {"EOF", "ERR"}, TakeEnd(b, how),
             UNCHANGED <<ctx, activ, usrOf>>
      PROVE  Settled'
  BY <1>1, <1>5 DEF TakeEnd, Inv, TypeOK
<1>6. ASSUME NEW p \in Clients, NEW b \in Bevs, Login(p, b) PROVE Settled'
  BY <1>1, <1>6 DEF Login, Inv, TypeOK, Fresh
<1>7. ASSUME UNCHANGED <<ctx, activ, usrOf, bevSt>> PROVE Settled'
  BY <1>1, <1>7
<1>8. ASSUME NEW b \in Bevs, InitBad(b) \/ MainEofIdle(b) \/ MainEofStale(b) \/ MainError(b)
      PROVE  Settled'
  BY <1>5, <1>7, <1>8 DEF InitBad, MainEofIdle, MainEofStale, MainError
<1>9. ASSUME NEW p \in Clients, Reply(p) \/ UsrEof(p) \/ Die(p) PROVE Settled'
  BY <1>7, <1>9 DEF Reply, UsrEof, Die
<1>10. ASSUME NEW p \in Clients, NEW b \in Bevs, Start(p, b) \/ DaemonEof(p, b)
       PROVE  Settled'
  BY <1>6, <1>10 DEF Start, DaemonEof
<1>11. CASE UNCHANGED vars
  BY <1>7, <1>11 DEF vars
<1>12. CASE MainRemove
  <2>1. activ' = activ \ {ending} /\ UNCHANGED <<ctx, usrOf, bevSt>>
    BY <1>12 DEF MainRemove, Remove
  <2>2. ASSUME NEW x \in Bevs, bevSt[x] = "open", ctx[x] # None PROVE ctx[x] \in activ' \/ Replaced(x)
    <3>1. ctx[x] = ending => x \notin {ctx[x], usrOf[ctx[x]]}
      BY <1>12, <2>2 DEF MainRemove, Inv, EndingShut
    <3> QED
      BY <2>1, <2>2, <3>1 DEF Settled
  <2> QED
    BY <2>1, <2>2 DEF Settled
<1> QED
  BY <1>2, <1>3, <1>4, <1>8, <1>9, <1>10, <1>11, <1>12 DEF Next, Server, Client

\* main_bufferevent_cb meets a connection that is in no session's place, or a
\* session that is gone, only after a USR was replaced in its session by
\* another: nothing else ends the server.
THEOREM AbortNeedsReplacement == Spec => []NoAbort
<1>1. Init => Settled /\ NoAbort
  BY DEF Init, Settled, NoAbort
<1>2. ASSUME Inv, Settled, NoAbort, [Next]_vars PROVE NoAbort'
  <2>1. ASSUME NEW b \in Bevs, MainEofStale(b) PROVE NoAbort'
    <3>1. Replaced(b)
      BY <1>2, <2>1 DEF MainEofStale, TakeEnd, Settled, Replaced
    <3> QED
      BY <2>1, <3>1 DEF MainEofStale, NoAbort, Replaced
  <2>2. CASE UNCHANGED vars
    BY <1>2, <2>2 DEF vars, NoAbort, Replaced
  <2>3. ASSUME fault' = fault, Next PROVE NoAbort'
    BY <2>3 DEF Next, NoAbort
  <2> QED
    BY <1>2, <2>1, <2>2, <2>3 DEF Next, Server, Client, InitBad, InitUsr, InitDaemon,
       MainEofIdle, MainEof, MainRemove, MainError, Reply, UsrEof, Die, Start, DaemonEof, Login
<1> QED
  BY <1>1, <1>2, StepSettled, SpecInv, PTL DEF Spec
-----------------------------------------------------------------------------
\* A client waits for the end of its last connection, and a machine is one
\* DAEMON's and one USR's: the circumstances in which nobody takes a place
\* that somebody else still holds.
Patient   == ~FastRestart
OneUsr    == \A p, q \in Usrs : UuidOf[p] = UuidOf[q] => p = q
OneDaemon == \A p, q \in Daemons : UuidOf[p] = UuidOf[q] => p = q

\* The server has client p in its place in a session, if it is a DAEMON or the
\* only USR of its machine.
InPlace(p) ==
    LET b == cur[p] IN
    p \in Daemons \/ OneUsr =>
        ctx[b] \in activ /\ b = IF p \in Daemons THEN ctx[b] ELSE usrOf[ctx[b]]

\* What is on the way between client p and the server.
Way(p, srv, clt) == toSrv[cur[p]] = srv /\ toClt[cur[p]] = clt

\* How far client p has come: its INIT is on its way, was refused, or was
\* accepted, and then it is in its place until the server closes the connection.
Waiting(p) == Way(p, <<"INIT">>, <<>>) /\ bevSt[cur[p]] = "open"
Refused(p) == Way(p, <<>>, <<"ERROR">>) /\ bevSt[cur[p]] = "open" /\ ctx[cur[p]] = None
Joined(p)  == /\ Way(p, <<>>, IF proc[p] = "login" THEN <<"OK">> ELSE <<>>) /\ InPlace(p)
              /\ bevSt[cur[p]] = "open"
Closed(p)  == /\ Way(p, <<>>, IF proc[p] = "login" THEN <<"OK", "EOF">> ELSE <<"EOF">>)
              /\ bevSt[cur[p]] = "freed"

Stage(p) ==
    /\ owner[cur[p]] = p /\ bevSt[cur[p]] # "none"
    /\ \/ proc[p] = "login" /\ (Waiting(p) \/ Refused(p))
       \/ Joined(p) \/ Closed(p)

Stages == \A p \in Clients : proc[p] # "off" => Stage(p)

\* What is still to be read was sent over its sender's last connection.
Latest ==
    \A b \in Bevs : toSrv[b] # <<>> => owner[b] \in Clients /\ cur[owner[b]] = b

\* The connections of a session are those of its machine.
SameMachine ==
    \A a \in activ :
        /\ owner[a] \in Daemons
        /\ usrOf[a] # None => owner[usrOf[a]] \in Usrs /\ uuid(usrOf[a]) = uuid(a)

\* Nothing is sent over a connection before it is opened.
Unsent == \A b \in Bevs : bevSt[b] = "none" => toClt[b] = <<>>

StageInv == Stages /\ Latest /\ SameMachine /\ Unsent

\* A connection whose client has gone will bring its EOF, and only then does
\* a session's DAEMON connection close, and the session with it.
Leaving ==
    \A b \in Bevs : bevSt[b] = "open" /\ ~Uses(b) =>
        \E i \in 1..Len(toSrv[b]) : toSrv[b][i] = "EOF"
NoReset == \A b \in Bevs : \A i \in 1..Len(toSrv[b]) : toSrv[b][i] # "ERR"
DaemonOpen == \A a \in activ : a # ending => bevSt[a] = "open"

LeaveInv == Leaving /\ NoReset /\ DaemonOpen

\* A step that leaves client p and its connection alone leaves p where it is.
LEMMA KeepsStage ==
    ASSUME Inv, NEW p \in Clients, proc[p] # "off" => Stage(p),
           proc'[p] = proc[p], cur'[p] = cur[p],
           proc[p] # "off" =>
               LET b == cur[p] IN
               /\ owner'[b] = owner[b] /\ toSrv'[b] = toSrv[b] /\ toClt'[b] = toClt[b]
               /\ bevSt'[b] = bevSt[b] /\ ctx'[b] = ctx[b]
               /\ InPlace(p) => InPlace(p)'
    PROVE  (proc[p] # "off" => Stage(p))'
  BY DEF Stage, Waiting, Refused, Joined, Closed, Way, InPlace

\* A client whose connection brings its end has gone.
LEMMA EndOfGone ==
    ASSUME Inv, StageInv, NEW b \in Bevs, toSrv[b] # <<>>, Head(toSrv[b]) # "INIT",
           NEW p \in Clients, proc[p] # "off"
    PROVE  cur[p] # b
<1> SUFFICES ASSUME cur[p] = b PROVE FALSE
  OBVIOUS
<1>1. Stage(p)
  BY DEF StageInv, Stages
<1>2. toSrv[b] = <<"INIT">> \/ toSrv[b] = <<>>
  BY <1>1 DEF Stage, Waiting, Refused, Joined, Closed, Way
<1> QED
  BY <1>2

\* Reading INIT from b: every client but the one that sent it is left alone,
\* and the sender, if it still runs, was waiting for the answer.
LEMMA InitOfWaiting ==
    ASSUME Inv, StageInv, NEW b \in Bevs, TakeInit(b)
    PROVE  /\ ctx[b] = None /\ usrOf[b] = None /\ b \notin activ
           /\ owner[b] \in Clients /\ cur[owner[b]] = b
           /\ proc[owner[b]] # "off" => proc[owner[b]] = "login" /\ Waiting(owner[b])
           /\ \A q \in Clients \ {owner[b]} : proc[q] # "off" => cur[q] # b
<1> USE NoneAssumption DEF Inv
<1>1. ctx[b] = None /\ usrOf[b] = None
  BY DEF TakeInit, InitFirst, Fresh, TypeOK
<1>2. b \notin activ
  BY <1>1 DEF Linked, TypeOK
<1>3. owner[b] \in Clients /\ cur[owner[b]] = b
  BY DEF TakeInit, StageInv, Latest
<1>4. ASSUME proc[owner[b]] # "off" PROVE proc[owner[b]] = "login" /\ Waiting(owner[b])
  <2>1. Stage(owner[b])
    BY <1>3, <1>4 DEF StageInv, Stages
  <2>2. toSrv[b] # <<>>
    BY DEF TakeInit
  <2> QED
    BY <1>3, <2>1, <2>2 DEF Stage, Refused, Joined, Closed, Way
<1>5. ASSUME NEW q \in Clients \ {owner[b]}, proc[q] # "off" PROVE cur[q] # b
  BY <1>5 DEF StageInv, Stages, Stage
<1> QED
  BY <1>1, <1>2, <1>3, <1>4, <1>5

\* The answer to INIT takes a waiting client to its next stage.
LEMMA Answered ==
    ASSUME Inv, StageInv, NEW b \in Bevs, TakeInit(b), NEW m \in {"OK", "ERROR"}, Send(b, m),
           UNCHANGED <<clientVars, bevSt>>,
           m = "ERROR" => ctx'[b] = ctx[b],
           m = "OK" => InPlace(owner[b])',
           \A q \in Clients \ {owner[b]} : ctx'[cur[q]] = ctx[cur[q]] \/ cur[q] = b,
           \A q \in Clients \ {owner[b]} :
               proc[q] # "off" /\ Stage(q) /\ InPlace(q) => InPlace(q)'
    PROVE  Stages' /\ Latest'
<1> USE InitOfWaiting
<1>1. /\ toSrv' = [toSrv EXCEPT ![b] = Tail(@)] /\ toClt' = [toClt EXCEPT ![b] = Append(@, m)]
      /\ UNCHANGED <<proc, cur, owner, bevSt>>
  BY DEF TakeInit, Send, clientVars
<1>2. ASSUME NEW q \in Clients \ {owner[b]} PROVE (proc[q] # "off" => Stage(q))'
  <2>1. proc[q] # "off" => Stage(q) /\ cur[q] # b /\ cur[q] \in Bevs
    BY DEF StageInv, Stages, Inv, Owned
  <2> QED
    BY <1>1, <2>1, KeepsStage DEF Inv, TypeOK
<1>3. ASSUME proc[owner[b]] # "off" PROVE Stage(owner[b])'
  <2>1. proc[owner[b]] = "login" /\ toSrv[b] = <<"INIT">> /\ toClt[b] = <<>> /\ bevSt[b] = "open"
    BY <1>3 DEF Waiting, Way
  <2>2. toSrv'[b] = <<>> /\ toClt'[b] = <<m>>
    BY <1>1, <2>1 DEF Inv, TypeOK
  <2>3. m = "ERROR" => Refused(owner[b])'
    BY <1>1, <2>1, <2>2 DEF Refused, Way
  <2>4. m = "OK" => Joined(owner[b])'
    BY <1>1, <2>1, <2>2 DEF Joined, Way
  <2> QED
    BY <1>1, <2>1, <2>3, <2>4 DEF Stage
<1>4. Stages'
  BY <1>1, <1>2, <1>3 DEF Stages
<1>5. Latest'
  BY <1>1 DEF StageInv, Latest, Inv, TypeOK
<1> QED
  BY <1>4, <1>5

\* INIT of a USR: it takes its place in the session of its machine, which no
\* other client held.
LEMMA UsrStages ==
    ASSUME Inv, StageInv, NEW b \in Bevs, InitUsr(b)
    PROVE  Stages' /\ Latest'
<1> USE NoneAssumption, ClientsAssumption
<1>1. TakeInit(b) /\ owner[b] \in Usrs /\ UNCHANGED <<clientVars, bevSt, activ>>
  BY DEF InitUsr
<1>2. /\ ctx[b] = None /\ b \notin activ
      /\ \A q \in Clients \ {owner[b]} : proc[q] # "off" => cur[q] # b
      /\ cur[owner[b]] = b
  BY <1>1, InitOfWaiting
<1>3. CASE Send(b, "ERROR") /\ UNCHANGED <<usrOf, ctx>>
  <2>1. ASSUME NEW q \in Clients, InPlace(q) PROVE InPlace(q)'
    BY <1>1, <1>3, <2>1 DEF InPlace, clientVars
  <2> QED
    BY <1>1, <1>3, <2>1, Answered
<1>4. ASSUME NEW a \in Search(UuidOf[owner[b]]), usrOf' = [usrOf EXCEPT ![a] = b],
             ctx' = [ctx EXCEPT ![b] = a], Send(b, "OK")
      PROVE  Stages' /\ Latest'
  <2>1. a \in activ /\ a \in Bevs /\ uuid(a) = UuidOf[owner[b]]
    BY <1>4 DEF Search, Inv, TypeOK
  <2>2. InPlace(owner[b])'
    BY <1>1, <1>2, <1>4, <2>1 DEF InPlace, clientVars, Inv, TypeOK
  <2>3. ASSUME NEW q \in Clients \ {owner[b]}, proc[q] # "off", Stage(q), InPlace(q)
        PROVE  InPlace(q)'
    <3>1. cur[q] # b /\ cur[q] \in Bevs /\ owner[cur[q]] = q
      BY <1>2, <2>3 DEF Stage, Inv, Owned
    <3>2. ctx'[cur[q]] = ctx[cur[q]] /\ cur' = cur /\ activ' = activ
      BY <1>1, <1>4, <3>1 DEF clientVars, Inv, TypeOK
    <3>3. CASE q \in Daemons \/ ~OneUsr
      BY <2>3, <3>2, <3>3 DEF InPlace
    <3>4. CASE q \notin Daemons /\ OneUsr
      <4>1. q \in Usrs /\ cur[q] = usrOf[ctx[cur[q]]] /\ ctx[cur[q]] \in Bevs
        BY <2>3, <3>4 DEF InPlace, Clients, Inv, TypeOK
      <4>2. CASE ctx[cur[q]] # a
        BY <1>4, <2>3, <3>2, <3>4, <4>1, <4>2 DEF InPlace, Inv, TypeOK
      <4>3. CASE ctx[cur[q]] = a
        <5>1. usrOf[a] # None
          BY <3>1, <4>1, <4>3
        <5>2. UuidOf[q] = UuidOf[owner[b]]
          BY <2>1, <3>1, <4>1, <4>3, <5>1 DEF StageInv, SameMachine, uuid
        <5> QED
          BY <1>1, <3>4, <4>1, <5>2 DEF OneUsr
      <4> QED
        BY <4>2, <4>3
    <3> QED
      BY <3>3, <3>4
  <2>4. \A q \in Clients \ {owner[b]} : ctx'[cur[q]] = ctx[cur[q]] \/ cur[q] = b
    BY <1>4 DEF Inv, TypeOK
  <2> QED
    BY <1>1, <1>4, <2>2, <2>3, <2>4, Answered
<1> QED
  BY <1>3, <1>4 DEF InitUsr

\* INIT of a DAEMON: it is the DAEMON of the session it creates.
LEMMA DaemonStages ==
    ASSUME Inv, StageInv, NEW b \in Bevs, InitDaemon(b)
    PROVE  Stages' /\ Latest'
<1> USE NoneAssumption, ClientsAssumption
<1>1. TakeInit(b) /\ owner[b] \in Daemons /\ UNCHANGED <<clientVars, bevSt, usrOf>>
  BY DEF InitDaemon
<1>2. ctx[b] = None /\ b \notin activ /\ cur[owner[b]] = b
  BY <1>1, InitOfWaiting
<1>3. CASE Send(b, "ERROR") /\ UNCHANGED <<activ, ctx>>
  <2>1. ASSUME NEW q \in Clients, InPlace(q) PROVE InPlace(q)'
    BY <1>1, <1>3, <2>1 DEF InPlace, clientVars
  <2> QED
    BY <1>1, <1>3, <2>1, Answered
<1>4. CASE activ' = activ \cup {b} /\ ctx' = [ctx EXCEPT ![b] = b] /\ Send(b, "OK")
  <2>1. InPlace(owner[b])'
    BY <1>1, <1>2, <1>4 DEF InPlace, clientVars, Inv, TypeOK
  <2>2. ASSUME NEW q \in Clients \ {owner[b]}, proc[q] # "off", InPlace(q)
        PROVE  InPlace(q)'
    <3>1. cur[q] # b
      BY <1>1, <2>2, InitOfWaiting
    <3> QED
      BY <1>1, <1>4, <2>2, <3>1 DEF InPlace, clientVars, Inv, TypeOK
  <2>3. \A q \in Clients \ {owner[b]} : ctx'[cur[q]] = ctx[cur[q]] \/ cur[q] = b
    BY <1>4 DEF Inv, TypeOK
  <2> QED
    BY <1>1, <1>4, <2>1, <2>2, <2>3, Answered
<1> QED
  BY <1>3, <1>4 DEF InitDaemon

\* The end of a connection that is in no place leaves every client alone.
LEMMA EndStages ==
    ASSUME Inv, StageInv, NEW b \in Bevs, NEW how \in {"EOF", "ERR"}, TakeEnd(b, how),
           UNCHANGED <<clientVars, toClt, ctx, activ, usrOf>>
    PROVE  Stages' /\ Latest'
<1>1. ASSUME NEW q \in Clients PROVE (proc[q] # "off" => Stage(q))'
  <2>1. proc[q] # "off" => Stage(q) /\ cur[q] \in Bevs /\ cur[q] # b
    BY EndOfGone DEF TakeEnd, StageInv, Stages, Inv, Owned
  <2>2. InPlace(q) => InPlace(q)'
    BY DEF InPlace, clientVars
  <2>3. proc[q] # "off" => toSrv'[cur[q]] = toSrv[cur[q]] /\ bevSt'[cur[q]] = bevSt[cur[q]]
    BY <2>1 DEF TakeEnd, Inv, TypeOK
  <2> QED
    BY <2>1, <2>2, <2>3, KeepsStage DEF clientVars
<1>2. Stages'
  BY <1>1 DEF Stages
<1>3. Latest'
  BY DEF TakeEnd, clientVars, StageInv, Latest, Inv, TypeOK
<1> QED
  BY <1>2, <1>3

\* What a second message makes of a single one.
LEMMA AppendOne ==
    ASSUME NEW M, NEW a \in M, NEW c \in M
    PROVE  Append(<<a>>, c) = <<a, c>>
<1> DEFINE s == Append(<<a>>, c)
           t == <<a, c>>
<1>1. <<a>> \in Seq(M) /\ t \in Seq(M) /\ s \in Seq(M)
  OBVIOUS
<1>2. Len(s) = 2 /\ s[1] = a /\ s[2] = c
  OBVIOUS
<1>3. Len(t) = 2 /\ t[1] = a /\ t[2] = c
  OBVIOUS
<1> HIDE DEF s, t
<1>4. ASSUME NEW i \in 1..Len(s) PROVE s[i] = t[i]
  <2>1. i = 1 \/ i = 2
    BY <1>2
  <2> QED
    BY <1>2, <1>3, <2>1
<1>5. s = t
  BY <1>1, <1>2, <1>3, <1>4, SeqEqual
<1> QED
  BY <1>5 DEF s, t

\* EOF of one client of a session: the other one, and nobody else, will find
\* its connection closed.
LEMMA MainEofStages ==
    ASSUME Inv, StageInv, NEW b \in Bevs, MainEof(b)
    PROVE  Stages' /\ Latest'
<1> USE NoneAssumption
<1> DEFINE a    == ctx[b]
           peer == PeerOf(b)
<1>1. /\ a \in activ /\ b \in {a, usrOf[a]} /\ ending = None
      /\ toSrv[b] # <<>> /\ Head(toSrv[b]) = "EOF"
      /\ bevSt' = [x \in Bevs |-> IF x = b THEN "ended"
                                  ELSE IF x = peer THEN "freed" ELSE bevSt[x]]
      /\ toSrv' = [x \in Bevs |-> IF x \in {b, peer} THEN <<>> ELSE toSrv[x]]
      /\ toClt' = IF peer = None THEN toClt
                  ELSE [toClt EXCEPT ![peer] = Append(@, "EOF")]
      /\ UNCHANGED <<proc, cur, owner, ctx, activ, usrOf>>
  BY DEF MainEof, clientVars
<1>2. /\ a \in Bevs /\ peer \in Bevs \cup {None} /\ peer # b /\ {a, usrOf[a]} = {b, peer}
      /\ peer # None => ctx[peer] = a /\ bevSt[peer] # "freed"
  <2>1. a \in Bevs /\ usrOf[a] \in Bevs \cup {None} /\ ctx[a] = a /\ bevSt[a] # "freed"
    BY <1>1 DEF Inv, TypeOK, Linked
  <2>2. usrOf[a] # None => ctx[usrOf[a]] = a /\ bevSt[usrOf[a]] # "freed"
    <3>1. a # ending
      BY <1>1, <2>1
    <3> QED
      BY <1>1, <3>1 DEF Inv, Linked
  <2>3. usrOf[a] # a
    BY <1>1, <2>1, ClientsAssumption DEF StageInv, SameMachine
  <2> QED
    BY <1>1, <2>1, <2>2, <2>3 DEF PeerOf
<1>3. Latest'
  BY <1>1 DEF StageInv, Latest
<1> HIDE DEF peer, a
<1>4. ASSUME NEW q \in Clients, proc[q] # "off" PROVE Stage(q)'
  <2>1. Stage(q) /\ cur[q] \in Bevs /\ cur[q] # b
    BY <1>1, <1>4, EndOfGone DEF StageInv, Stages, Inv, Owned
  <2>2. CASE cur[q] = peer
    <3>1. ctx[cur[q]] = a /\ ctx[cur[q]] # None /\ bevSt[cur[q]] # "freed"
      BY <1>2, <2>1, <2>2
    <3>2. ~Waiting(q) /\ ~Refused(q) /\ ~Closed(q)
      BY <2>1, <3>1 DEF Waiting, Refused, Closed, Way, Inv, InitFirst
    <3>3. Joined(q)
      BY <2>1, <3>2 DEF Stage
    <3>4. bevSt'[cur[q]] = "freed" /\ toSrv'[cur[q]] = <<>>
      BY <1>1, <1>2, <2>1, <2>2
    <3>5. toClt'[cur[q]] = Append(toClt[cur[q]], "EOF")
      BY <1>1, <1>2, <2>1, <2>2 DEF Inv, TypeOK
    <3>6. Closed(q)'
      <4>1. proc[q] = "login" => toClt'[cur[q]] = <<"OK", "EOF">>
        <5>1. Append(<<"OK">>, "EOF") = <<"OK", "EOF">>
          <6>1. "OK" \in {"OK", "EOF"} /\ "EOF" \in {"OK", "EOF"}
            OBVIOUS
          <6> QED
            BY <6>1, AppendOne
        <5> QED
          BY <3>3, <3>5, <5>1 DEF Joined, Way
      <4>2. proc[q] # "login" => toClt'[cur[q]] = <<"EOF">>
        BY <3>3, <3>5 DEF Joined, Way
      <4> QED
        BY <1>1, <3>4, <4>1, <4>2 DEF Closed, Way
    <3> QED
      BY <1>1, <2>1, <3>6 DEF Stage
  <2>3. CASE cur[q] # peer
    <3>1. InPlace(q) => InPlace(q)'
      BY <1>1, <1>2, <2>1, <2>3 DEF InPlace
    <3>2. toSrv'[cur[q]] = toSrv[cur[q]] /\ bevSt'[cur[q]] = bevSt[cur[q]]
      BY <1>1, <2>1, <2>3
    <3>3. toClt'[cur[q]] = toClt[cur[q]]
      BY <1>1, <1>2, <2>1, <2>3 DEF Inv, TypeOK
    <3> QED
      BY <1>1, <1>4, <2>1, <3>1, <3>2, <3>3, KeepsStage
  <2> QED
    BY <2>2, <2>3
<1>5. Stages'
  BY <1>1, <1>4 DEF Stages
<1> QED
  BY <1>3, <1>5

\* The session is removed: no client counts on it any more.
LEMMA RemoveStages ==
    ASSUME Inv, StageInv, MainRemove
    PROVE  Stages' /\ Latest'
<1>1. /\ ending # None /\ activ' = activ \ {ending}
      /\ UNCHANGED <<proc, cur, owner, toSrv, toClt, bevSt, ctx, usrOf>>
  BY DEF MainRemove, Remove, clientVars
<1>2. bevSt[ending] # "open" /\ (usrOf[ending] # None => bevSt[usrOf[ending]] # "open")
  BY <1>1 DEF Inv, EndingShut
<1>3. ASSUME NEW q \in Clients, proc[q] # "off" PROVE Stage(q)'
  <2>1. Stage(q) /\ cur[q] \in Bevs
    BY <1>3 DEF StageInv, Stages, Inv, Owned
  <2>2. CASE Joined(q)
    <3>1. bevSt[cur[q]] = "open" /\ InPlace(q)
      BY <2>2 DEF Joined
    <3>2. InPlace(q)'
      BY <1>1, <1>2, <2>1, <3>1, NoneAssumption DEF InPlace
    <3>3. Joined(q)'
      BY <1>1, <2>2, <3>2 DEF Joined, Way
    <3> QED
      BY <1>1, <2>1, <3>3 DEF Stage
  <2>3. CASE ~Joined(q)
    BY <1>1, <2>1, <2>3 DEF Stage, Waiting, Refused, Closed, Way
  <2> QED
    BY <2>2, <2>3
<1>4. Stages'
  BY <1>1, <1>3 DEF Stages
<1>5. Latest'
  BY <1>1 DEF StageInv, Latest
<1> QED
  BY <1>4, <1>5

\* The answer to INIT: a client that is let in is in its place, unless the
\* server has closed its connection since; one that is refused exits.
LEMMA ReplyStages ==
    ASSUME Inv, StageInv, NEW p \in Clients, Reply(p)
    PROVE  Stages' /\ Latest'
<1> DEFINE b == cur[p]
<1>1. /\ proc[p] = "login" /\ toClt[b] # <<>> /\ Stage(p) /\ b \in Bevs /\ owner[b] = p
      /\ UNCHANGED <<cur, owner, bevSt, ctx, activ, usrOf>>
  BY DEF Reply, StageInv, Stages, Stage, Inv, Owned
<1>2. \A q \in Clients \ {p} : proc[q] # "off" => cur[q] # b
  BY <1>1 DEF StageInv, Stages, Stage
<1>3. /\ proc' = [proc EXCEPT ![p] = IF Head(toClt[b]) = "OK" THEN "run" ELSE "off"]
      /\ \A x \in Bevs \ {b} : toClt'[x] = toClt[x] /\ toSrv'[x] = toSrv[x]
  BY <1>1 DEF Reply, End, Inv, TypeOK
<1> HIDE DEF b
<1>4. ASSUME NEW q \in Clients \ {p} PROVE (proc[q] # "off" => Stage(q))'
  <2>1. proc'[q] = proc[q]
    BY <1>3 DEF Inv, TypeOK
  <2>2. proc[q] # "off" => Stage(q) /\ cur[q] \in Bevs \ {b}
    BY <1>2 DEF StageInv, Stages, Inv, Owned
  <2>3. InPlace(q) => InPlace(q)'
    BY <1>1 DEF InPlace
  <2> QED
    BY <1>1, <1>3, <2>1, <2>2, <2>3, KeepsStage
<1>5. CASE Head(toClt[b]) = "OK"
  <2>1. proc'[p] = "run" /\ toClt'[b] = Tail(toClt[b]) /\ toSrv' = toSrv
    BY <1>1, <1>3, <1>5 DEF Reply, Inv, TypeOK, b
  <2>2. Joined(p) \/ Closed(p)
    BY <1>1, <1>5 DEF Stage, Waiting, Refused, Way, b
  <2>3. ASSUME Joined(p) PROVE Stage(p)'
    <3>1. toClt'[b] = <<>> /\ toSrv'[b] = <<>>
      BY <1>1, <2>1, <2>3 DEF Joined, Way, b
    <3> QED
      BY <1>1, <2>1, <2>3, <3>1 DEF Stage, Joined, Way, InPlace, b
  <2>4. ASSUME Closed(p) PROVE Stage(p)'
    <3>1. toClt'[b] = <<"EOF">> /\ toSrv'[b] = <<>>
      BY <1>1, <2>1, <2>4 DEF Closed, Way, b
    <3> QED
      BY <1>1, <2>1, <2>4, <3>1 DEF Stage, Closed, Way, b
  <2>5. Stage(p)' /\ Latest'
    BY <1>1, <2>1, <2>2, <2>3, <2>4 DEF StageInv, Latest
  <2> QED
    BY <1>4, <2>5 DEF Stages
<1>6. CASE Head(toClt[b]) # "OK"
  <2>1. proc'[p] = "off"
    BY <1>1, <1>3, <1>6 DEF Inv, TypeOK
  <2>2. Latest'
    BY <1>1, <1>3 DEF StageInv, Latest, b
  <2> QED
    BY <1>4, <2>1, <2>2 DEF Stages
<1> QED
  BY <1>5, <1>6

\* A client that exits or is stopped is waited for by nobody.
LEMMA GoneStages ==
    ASSUME Inv, StageInv, NEW p \in Clients, proc[p] # "off", NEW how \in {"EOF", "ERR"},
           proc' = [proc EXCEPT ![p] = "off"], End(cur[p], how),
           UNCHANGED <<cur, owner, toClt, bevSt, ctx, activ, usrOf>>
    PROVE  Stages' /\ Latest'
<1>1. Stage(p) /\ cur[p] \in Bevs /\ owner[cur[p]] = p
  BY DEF StageInv, Stages, Stage, Inv, Owned
<1>2. \A x \in Bevs \ {cur[p]} : toSrv'[x] = toSrv[x]
  BY DEF End, Inv, TypeOK
<1>3. ASSUME NEW q \in Clients \ {p} PROVE (proc[q] # "off" => Stage(q))'
  <2>1. proc'[q] = proc[q]
    BY DEF Inv, TypeOK
  <2>2. proc[q] # "off" => Stage(q) /\ cur[q] \in Bevs \ {cur[p]}
    BY <1>1 DEF StageInv, Stages, Stage, Inv, Owned
  <2>3. InPlace(q) => InPlace(q)'
    BY DEF InPlace
  <2> QED
    BY <1>2, <2>1, <2>2, <2>3, KeepsStage
<1>4. proc'[p] = "off"
  BY DEF Inv, TypeOK
<1>5. Latest'
  BY <1>1, <1>2 DEF StageInv, Latest
<1> QED
  BY <1>3, <1>4, <1>5 DEF Stages

\* A client logs in over a connection of its own when it has no message left
\* on the ones before.
LEMMA LoginStages ==
    ASSUME Inv, StageInv, NEW p \in Clients, NEW b \in Bevs, Login(p, b),
           \A x \in Bevs : owner[x] = p => toSrv[x] = <<>>
    PROVE  Stages' /\ Latest'
<1> USE NoneAssumption
<1>1. /\ bevSt[b] = "none" /\ ctx[b] = None /\ toClt[b] = <<>>
      /\ proc' = [proc EXCEPT ![p] = "login"] /\ cur' = [cur EXCEPT ![p] = b]
      /\ owner' = [owner EXCEPT ![b] = p] /\ toSrv' = [toSrv EXCEPT ![b] = <<"INIT">>]
      /\ bevSt' = [bevSt EXCEPT ![b] = "open"]
      /\ UNCHANGED <<toClt, ctx, activ, usrOf>>
  BY DEF Login, Inv, Fresh, StageInv, Unsent
<1>2. ASSUME NEW q \in Clients \ {p} PROVE (proc[q] # "off" => Stage(q))'
  <2>1. proc'[q] = proc[q] /\ cur'[q] = cur[q]
    BY <1>1 DEF Inv, TypeOK
  <2>2. proc[q] # "off" => Stage(q) /\ cur[q] \in Bevs
    BY DEF StageInv, Stages, Inv, Owned
  <2>3. proc[q] # "off" => cur[q] # b
    BY <1>1, <2>2 DEF Stage
  <2>4. InPlace(q) => InPlace(q)'
    BY <1>1, <2>1 DEF InPlace
  <2> QED
    BY <1>1, <2>1, <2>2, <2>3, <2>4, KeepsStage DEF Inv, TypeOK
<1>3. Stage(p)'
  BY <1>1 DEF Stage, Waiting, Way, Inv, TypeOK
<1>4. Latest'
  BY <1>1 DEF StageInv, Latest, Inv, TypeOK
<1> QED
  BY <1>2, <1>3, <1>4 DEF Stages

\* The other two parts are about the server's side alone.
LEMMA StepSameMachine ==
    ASSUME Inv, StageInv, [Next]_vars
    PROVE  SameMachine' /\ Unsent'
<1> USE NoneAssumption DEF StageInv
<1>1. ASSUME UNCHANGED <<owner, activ, usrOf, bevSt>>, toClt' = toClt
      PROVE  SameMachine' /\ Unsent'
  BY <1>1 DEF SameMachine, Unsent, uuid
<1>2. ASSUME NEW b \in Bevs, bevSt[b] # "none", NEW m \in {"OK", "ERROR", "EOF"},
             toClt' = [toClt EXCEPT ![b] = Append(@, m)],
             \A x \in Bevs : bevSt'[x] = "none" => bevSt[x] = "none"
      PROVE  Unsent'
  BY <1>2 DEF Unsent, Inv, TypeOK
<1>3. ASSUME NEW b \in Bevs, InitBad(b) PROVE SameMachine' /\ Unsent'
  <2>1. Unsent'
    BY <1>2, <1>3 DEF InitBad, TakeInit, Send
  <2> QED
    BY <1>3, <2>1 DEF InitBad, clientVars, SameMachine, uuid
<1>4. ASSUME NEW b \in Bevs, InitUsr(b) PROVE SameMachine' /\ Unsent'
  <2>1. Unsent'
    BY <1>2, <1>4 DEF InitUsr, TakeInit, Send
  <2>2. owner' = owner /\ activ' = activ
    BY <1>4 DEF InitUsr, clientVars
  <2>3. CASE usrOf' = usrOf
    BY <2>1, <2>2, <2>3 DEF SameMachine, uuid
  <2>4. ASSUME NEW a \in Search(UuidOf[owner[b]]), usrOf' = [usrOf EXCEPT ![a] = b]
        PROVE  SameMachine'
    BY <1>4, <2>2, <2>4 DEF InitUsr, Search, SameMachine, uuid, Inv, TypeOK
  <2> QED
    BY <1>4, <2>1, <2>3, <2>4 DEF InitUsr
<1>5. ASSUME NEW b \in Bevs, InitDaemon(b) PROVE SameMachine' /\ Unsent'
  <2>1. Unsent'
    BY <1>2, <1>5 DEF InitDaemon, TakeInit, Send
  <2>2. usrOf[b] = None /\ TakeInit(b) /\ owner[b] \in Daemons
    BY <1>5, InitOfWaiting DEF InitDaemon
  <2>3. activ' \in {activ, activ \cup {b}} /\ UNCHANGED <<owner, usrOf>>
    BY <1>5 DEF InitDaemon, clientVars
  <2> QED
    BY <2>1, <2>2, <2>3 DEF SameMachine, uuid
<1>6. ASSUME NEW b \in Bevs, MainEof(b) PROVE SameMachine' /\ Unsent'
  <2> DEFINE peer == PeerOf(b)
  <2>1. ctx[b] \in activ /\ peer \in Bevs \cup {None} /\ (peer # None => ctx[peer] = ctx[b])
    BY <1>6 DEF MainEof, PeerOf, Inv, TypeOK, Linked
  <2>2. /\ bevSt[b] # "none" /\ (peer # None => bevSt[peer] # "none")
        /\ \A x \in Bevs : bevSt'[x] = "none" => bevSt[x] = "none"
    BY <1>6, <2>1 DEF MainEof, Inv, TypeOK, Fresh
  <2>3. Unsent'
    BY <1>2, <1>6, <2>1, <2>2 DEF MainEof, Unsent
  <2> QED
    BY <1>6, <2>3 DEF MainEof, clientVars, SameMachine, uuid
<1>7. ASSUME NEW b \in Bevs, NEW how \in {"EOF", "ERR"}, TakeEnd(b, how),
             UNCHANGED <<owner, toClt, activ, usrOf>>
      PROVE  SameMachine' /\ Unsent'
  BY <1>7 DEF TakeEnd, SameMachine, Unsent, uuid, Inv, TypeOK
<1>8. ASSUME NEW b \in Bevs, MainEofIdle(b) \/ MainEofStale(b) \/ MainError(b)
      PROVE  SameMachine' /\ Unsent'
  BY <1>7, <1>8 DEF MainEofIdle, MainEofStale, MainError, clientVars
<1>9. ASSUME NEW p \in Clients, NEW b \in Bevs, Login(p, b) PROVE SameMachine' /\ Unsent'
  <2>1. b \notin activ /\ \A a \in activ : usrOf[a] # b
    <3>1. ctx[b] = None /\ activ \subseteq Bevs
      BY <1>9 DEF Login, Inv, Fresh, TypeOK
    <3> QED
      BY <3>1 DEF Inv, Linked
  <2>2. \A x \in Bevs : x # b => owner'[x] = owner[x]
    BY <1>9 DEF Login, Inv, TypeOK
  <2>3. SameMachine'
    BY <1>9, <2>1, <2>2 DEF Login, SameMachine, uuid, Inv, TypeOK
  <2> QED
    BY <1>9, <2>3 DEF Login, Unsent, Inv, TypeOK
<1>10. ASSUME NEW p \in Clients, Reply(p) PROVE SameMachine' /\ Unsent'
  <2>1. cur[p] \in Bevs /\ bevSt[cur[p]] # "none"
    BY <1>10 DEF Reply, Stages, Stage, Inv, Owned
  <2>2. \A x \in Bevs : x # cur[p] => toClt'[x] = toClt[x]
    BY <1>10, <2>1 DEF Reply, Inv, TypeOK
  <2> QED
    BY <1>10, <2>1, <2>2 DEF Reply, SameMachine, Unsent, uuid
<1>11. ASSUME NEW p \in Clients, UsrEof(p) \/ Die(p) PROVE SameMachine' /\ Unsent'
  BY <1>1, <1>11 DEF UsrEof, Die
<1>12. ASSUME NEW p \in Clients, NEW b \in Bevs, Start(p, b) \/ DaemonEof(p, b)
       PROVE  SameMachine' /\ Unsent'
  BY <1>9, <1>12 DEF Start, DaemonEof
<1>13. CASE UNCHANGED vars
  BY <1>1, <1>13 DEF vars
<1>14. CASE MainRemove
  BY <1>14 DEF MainRemove, Remove, clientVars, SameMachine, Unsent, uuid
<1> QED
  BY <1>3, <1>4, <1>5, <1>6, <1>8, <1>10, <1>11, <1>12, <1>13, <1>14 DEF Next, Server, Client

\* As long as clients are patient, every step keeps each client at its stage.
LEMMA StepStageInv ==
    ASSUME Patient, Inv, StageInv, [Next]_vars
    PROVE  StageInv'
<1> SUFFICES Stages' /\ Latest'
  BY StepSameMachine DEF StageInv
<1>1. ASSUME NEW b \in Bevs, InitBad(b) PROVE Stages' /\ Latest'
  <2>1. \A q \in Clients : InPlace(q) => InPlace(q)'
    BY <1>1 DEF InitBad, InPlace, clientVars
  <2> QED
    BY <1>1, <2>1, Answered DEF InitBad
<1>2. ASSUME NEW b \in Bevs, InitUsr(b) \/ InitDaemon(b) \/ MainEof(b)
      PROVE  Stages' /\ Latest'
  BY <1>2, UsrStages, DaemonStages, MainEofStages
<1>3. ASSUME NEW b \in Bevs, MainEofIdle(b) \/ MainEofStale(b) \/ MainError(b)
      PROVE  Stages' /\ Latest'
  BY <1>3, EndStages DEF MainEofIdle, MainEofStale, MainError
<1>4. ASSUME NEW p \in Clients, Reply(p) PROVE Stages' /\ Latest'
  BY <1>4, ReplyStages
<1>5. ASSUME NEW p \in Clients, UsrEof(p) PROVE Stages' /\ Latest'
  BY <1>5, GoneStages DEF UsrEof, Lost
<1>6. ASSUME NEW p \in Clients, Die(p) PROVE Stages' /\ Latest'
  <2>1. PICK how \in {"EOF", "ERR"} : End(cur[p], how)
    BY <1>6 DEF Die
  <2> QED
    BY <1>6, <2>1, GoneStages DEF Die
<1>7. ASSUME NEW p \in Clients, NEW b \in Bevs, Start(p, b) PROVE Stages' /\ Latest'
  BY <1>7, LoginStages DEF Start, Patient
<1>8. ASSUME NEW p \in Clients, NEW b \in Bevs, DaemonEof(p, b) PROVE Stages' /\ Latest'
  <2>1. Stage(p) /\ toClt[cur[p]] = <<"EOF">> /\ Login(p, b)
    BY <1>8 DEF DaemonEof, Lost, StageInv, Stages
  <2>2. toSrv[cur[p]] = <<>>
    BY <2>1 DEF Stage, Waiting, Refused, Joined, Closed, Way
  <2>3. \A x \in Bevs : owner[x] = p => toSrv[x] = <<>>
    BY <2>2 DEF StageInv, Latest
  <2> QED
    BY <2>1, <2>3, LoginStages
<1>9. CASE UNCHANGED vars
  BY <1>9 DEF vars, StageInv, Stages, Stage, Waiting, Refused, Joined, Closed, Way,
     InPlace, Latest
<1>10. CASE MainRemove
  BY <1>10, RemoveStages
<1> QED
  BY <1>1, <1>2, <1>3, <1>4, <1>5, <1>6, <1>7, <1>8, <1>9, <1>10 DEF Next, Server, Client

\* When no client logs in again before the server has seen the end of its last
\* connection, and no two USRs ask for the same machine, a client that runs and
\* has not been told otherwise is in its session, in the place main_bufferevent_cb
\* and the workers look for it: ss_main_handle_init puts nobody in its stead.
THEOREM RunningInSession == ASSUME Patient, OneUsr PROVE Spec => []InSession
<1>1. Init => StageInv
  BY DEF Init, StageInv, Stages, Latest, SameMachine, Unsent
<1>2. Inv /\ StageInv /\ [Next]_vars => StageInv'
  BY StepStageInv
<1>3. StageInv => InSession
  BY DEF StageInv, Stages, Stage, Waiting, Refused, Joined, Closed, Way, InPlace, InSession
<1> QED
  BY <1>1, <1>2, <1>3, SpecInv, PTL DEF Spec

-----------------------------------------------------------------------------
(* The end of a client's connection is read of it before it starts anew,   *)
(* so the loss of a DAEMON is never still to be noticed when it logs in.   *)

\* Appending the end of b keeps what b has to say, and leaves no ERR.
LEMMA EndLeaves ==
    ASSUME Inv, LeaveInv, NEW b \in Bevs, End(b, "EOF")
    PROVE  /\ NoReset'
           /\ \A x \in Bevs : (\E i \in 1..Len(toSrv[x]) : toSrv[x][i] = "EOF") =>
                              (\E i \in 1..Len(toSrv'[x]) : toSrv'[x][i] = "EOF")
           /\ bevSt[b] = "open" => \E i \in 1..Len(toSrv'[b]) : toSrv'[b][i] = "EOF"
<1> USE NoneAssumption
<1>1. CASE toSrv' = toSrv /\ bevSt[b] = "freed"
  BY <1>1 DEF LeaveInv, NoReset
<1>2. CASE toSrv' = [toSrv EXCEPT ![b] = Append(@, "EOF")]
  <2>1. \A x \in Bevs \ {b} : toSrv'[x] = toSrv[x]
    BY <1>2 DEF Inv, TypeOK
  <2>2. toSrv[b] \in Seq({"INIT", "EOF", "ERR"}) /\ toSrv'[b] = Append(toSrv[b], "EOF")
    BY <1>2 DEF Inv, TypeOK
  <2>3. /\ Len(toSrv'[b]) = Len(toSrv[b]) + 1 /\ toSrv'[b][Len(toSrv[b]) + 1] = "EOF"
        /\ Len(toSrv[b]) \in Nat
        /\ \A i \in 1..Len(toSrv[b]) : toSrv'[b][i] = toSrv[b][i]
    BY <2>2
  <2>4. \E i \in 1..Len(toSrv'[b]) : toSrv'[b][i] = "EOF"
    BY <2>3
  <2>5. NoReset'
    BY <2>1, <2>3 DEF LeaveInv, NoReset
  <2> QED
    BY <2>1, <2>4, <2>5
<1> QED
  BY <1>1, <1>2 DEF End

\* Reading INIT leaves the end of b to be read.
LEMMA InitLeaves ==
    ASSUME Inv, LeaveInv, NEW b \in Bevs, TakeInit(b), UNCHANGED <<clientVars, bevSt>>
    PROVE  Leaving' /\ NoReset'
<1>1. /\ toSrv[b] \in Seq({"INIT", "EOF", "ERR"}) /\ toSrv[b] # <<>> /\ toSrv[b][1] = "INIT"
      /\ toSrv'[b] = Tail(toSrv[b]) /\ \A x \in Bevs \ {b} : toSrv'[x] = toSrv[x]
  BY DEF TakeInit, Inv, TypeOK
<1>2. /\ Len(toSrv'[b]) = Len(toSrv[b]) - 1 /\ Len(toSrv[b]) \in Nat
      /\ \A i \in 1..Len(toSrv'[b]) : toSrv'[b][i] = toSrv[b][i + 1]
                                      /\ i + 1 \in 1..Len(toSrv[b])
  BY <1>1
<1>3. NoReset'
  <2>1. \A i \in 1..Len(toSrv'[b]) : toSrv'[b][i] # "ERR"
    BY <1>2 DEF LeaveInv, NoReset
  <2> QED
    BY <1>1, <2>1 DEF LeaveInv, NoReset
<1>4. ASSUME NEW i \in 1..Len(toSrv[b]), toSrv[b][i] = "EOF"
      PROVE  \E j \in 1..Len(toSrv'[b]) : toSrv'[b][j] = "EOF"
  <2>1. i # 1
    BY <1>1, <1>4
  <2>2. i - 1 \in 1..Len(toSrv'[b]) /\ toSrv'[b][i - 1] = "EOF"
    BY <1>2, <1>4, <2>1
  <2> QED
    BY <2>2
<1>5. Leaving'
  BY <1>1, <1>4 DEF clientVars, LeaveInv, Leaving, Uses
<1> QED
  BY <1>3, <1>5

\* When no connection breaks with an error, every step keeps what is owed to
\* the server by the clients that have gone.
LEMMA StepLeaveInv ==
    ASSUME Patient, MayReset = FALSE, Inv, StageInv, LeaveInv, [Next]_vars
    PROVE  LeaveInv'
<1> USE NoneAssumption
<1>1. ASSUME NEW b \in Bevs, InitBad(b) \/ InitUsr(b) PROVE LeaveInv'
  <2>1. TakeInit(b) /\ UNCHANGED <<clientVars, bevSt, activ, ending>>
    BY <1>1 DEF InitBad, InitUsr
  <2> QED
    BY <2>1, InitLeaves DEF LeaveInv, DaemonOpen
<1>2. ASSUME NEW b \in Bevs, InitDaemon(b) PROVE LeaveInv'
  <2>1. /\ TakeInit(b) /\ UNCHANGED <<clientVars, bevSt, ending>>
        /\ activ' \subseteq activ \cup {b}
    BY <1>2 DEF InitDaemon
  <2> QED
    BY <2>1, InitLeaves DEF LeaveInv, DaemonOpen, TakeInit
<1>3. ASSUME NEW b \in Bevs, TakeEnd(b, "EOF"), UNCHANGED <<clientVars, activ, ending>>, b \notin activ
      PROVE  LeaveInv'
  <2>1. /\ bevSt'[b] = "ended" /\ toSrv'[b] = Tail(toSrv[b])
        /\ \A x \in Bevs \ {b} : bevSt'[x] = bevSt[x] /\ toSrv'[x] = toSrv[x]
    BY <1>3 DEF TakeEnd, Inv, TypeOK
  <2>2. toSrv[b] \in Seq({"INIT", "EOF", "ERR"}) /\ toSrv[b] # <<>>
    BY <1>3 DEF TakeEnd, Inv, TypeOK
  <2>3. \A i \in 1..Len(toSrv'[b]) : i + 1 \in 1..Len(toSrv[b]) /\ toSrv'[b][i] = toSrv[b][i + 1]
    BY <2>1, <2>2
  <2>4. \A i \in 1..Len(toSrv'[b]) : toSrv'[b][i] # "ERR"
    BY <2>3 DEF LeaveInv, NoReset
  <2>5. NoReset'
    BY <2>1, <2>4 DEF LeaveInv, NoReset
  <2>6. Leaving'
    BY <1>3, <2>1 DEF LeaveInv, Leaving, Uses, clientVars
  <2>7. DaemonOpen'
    BY <1>3, <2>1 DEF LeaveInv, DaemonOpen, Inv, TypeOK
  <2> QED
    BY <2>5, <2>6, <2>7 DEF LeaveInv
<1>4. ASSUME NEW b \in Bevs, MainEofIdle(b) PROVE LeaveInv'
  BY <1>3, <1>4 DEF MainEofIdle, Inv, Linked, TypeOK
<1>5. ASSUME NEW b \in Bevs, MainEofStale(b) PROVE LeaveInv'
  BY <1>3, <1>5 DEF MainEofStale, Inv, Linked
<1>6. ASSUME NEW b \in Bevs, MainEof(b) PROVE LeaveInv'
  <2> DEFINE a    == ctx[b]
             peer == PeerOf(b)
  <2>1. /\ a \in activ /\ b \in {a, usrOf[a]} /\ activ' = activ /\ ending = None /\ ending' = a
        /\ bevSt' = [x \in Bevs |-> IF x = b THEN "ended"
                                    ELSE IF x = peer THEN "freed" ELSE bevSt[x]]
        /\ toSrv' = [x \in Bevs |-> IF x \in {b, peer} THEN <<>> ELSE toSrv[x]]
        /\ UNCHANGED <<proc, cur>>
    BY <1>6 DEF MainEof, clientVars
  <2>2. peer # None => peer \in Bevs /\ ctx[peer] = a
    BY <2>1 DEF PeerOf, Inv, TypeOK, Linked
  <2>3. NoReset' /\ Leaving'
    BY <2>1 DEF LeaveInv, NoReset, Leaving, Uses
  <2>4. \A x \in activ' : x # a => x \in Bevs /\ x # b /\ x # peer /\ x # ending
    BY <2>1, <2>2, NoneAssumption DEF Inv, Linked, TypeOK
  <2>5. DaemonOpen'
    BY <2>1, <2>4 DEF LeaveInv, DaemonOpen
  <2> QED
    BY <2>3, <2>5 DEF LeaveInv
<1>7. ASSUME NEW b \in Bevs, MainError(b) PROVE FALSE
  <2>1. toSrv[b] # <<>> /\ toSrv[b] \in Seq({"INIT", "EOF", "ERR"}) /\ Head(toSrv[b]) = "ERR"
    BY <1>7 DEF MainError, TakeEnd, Inv, TypeOK
  <2>2. 1 \in 1..Len(toSrv[b]) /\ toSrv[b][1] = "ERR"
    BY <2>1
  <2> QED
    BY <2>2 DEF LeaveInv, NoReset
<1>8. ASSUME NEW p \in Clients, proc[p] # "off", proc' = [proc EXCEPT ![p] = "off"],
             End(cur[p], "EOF"), UNCHANGED <<cur, bevSt, activ, ending>>
      PROVE  LeaveInv'
  <2>1. cur[p] \in Bevs
    BY <1>8 DEF Inv, Owned
  <2>2. NoReset' /\ DaemonOpen'
    BY <1>8, <2>1, EndLeaves DEF LeaveInv, DaemonOpen
  <2>3. \A x \in Bevs \ {cur[p]} : Uses(x) => Uses(x)'
    BY <1>8 DEF Uses, Inv, TypeOK
  <2>4. Leaving'
    BY <1>8, <2>1, <2>3, EndLeaves DEF LeaveInv, Leaving
  <2> QED
    BY <2>2, <2>4 DEF LeaveInv
<1>9. ASSUME NEW p \in Clients, Reply(p) PROVE LeaveInv'
  <2>1. CASE toSrv' = toSrv /\ proc' = [proc EXCEPT ![p] = "run"]
    BY <1>9, <2>1 DEF Reply, LeaveInv, Leaving, NoReset, DaemonOpen, Uses, Inv, TypeOK
  <2> QED
    BY <1>8, <1>9, <2>1 DEF Reply
<1>10. ASSUME NEW p \in Clients, UsrEof(p) \/ Die(p) PROVE LeaveInv'
  BY <1>8, <1>10 DEF UsrEof, Lost, Die
<1>11. ASSUME NEW p \in Clients, NEW b \in Bevs, Login(p, b),
              proc[p] # "off" => bevSt[cur[p]] = "freed"
       PROVE  LeaveInv'
  <2>1. /\ bevSt[b] = "none" /\ UNCHANGED <<activ, ending>> /\ b \notin activ
        /\ toSrv'[b] = <<"INIT">> /\ \A x \in Bevs \ {b} : bevSt'[x] = bevSt[x] /\ toSrv'[x] = toSrv[x]
    BY <1>11 DEF Login, LeaveInv, DaemonOpen, Inv, TypeOK, EndingShut
  <2>2. Uses(b)'
    BY <1>11 DEF Login, Uses, Inv, TypeOK
  <2>3. \A x \in Bevs \ {b} : bevSt[x] = "open" /\ Uses(x) => Uses(x)'
    BY <1>11 DEF Login, Uses, Inv, TypeOK
  <2>4. NoReset'
    BY <2>1 DEF LeaveInv, NoReset
  <2>5. Leaving'
    BY <2>1, <2>2, <2>3 DEF LeaveInv, Leaving
  <2>6. DaemonOpen'
    BY <2>1 DEF LeaveInv, DaemonOpen, Inv, TypeOK
  <2> QED
    BY <2>4, <2>5, <2>6 DEF LeaveInv
<1>12. ASSUME NEW p \in Clients, NEW b \in Bevs, Start(p, b) PROVE LeaveInv'
  BY <1>11, <1>12 DEF Start
<1>13. ASSUME NEW p \in Clients, NEW b \in Bevs, DaemonEof(p, b) PROVE LeaveInv'
  <2>1. Stage(p) /\ toClt[cur[p]] = <<"EOF">> /\ Login(p, b)
    BY <1>13 DEF DaemonEof, Lost, StageInv, Stages
  <2>2. bevSt[cur[p]] = "freed"
    BY <2>1 DEF Stage, Waiting, Refused, Joined, Closed, Way
  <2> QED
    BY <1>11, <2>1, <2>2
<1>14. CASE UNCHANGED vars
  BY <1>14 DEF vars, LeaveInv, Leaving, NoReset, DaemonOpen, Uses
<1>15. CASE MainRemove
  BY <1>15 DEF MainRemove, Remove, clientVars, LeaveInv, Leaving, NoReset, DaemonOpen, Uses
<1> QED
  BY <1>1, <1>2, <1>4, <1>5, <1>6, <1>7, <1>9, <1>10, <1>12, <1>13, <1>14, <1>15 DEF Next,
     Server, Client

\* What ends with another message is not the refusal.
LEMMA LastMessage ==
    ASSUME NEW s \in Seq({"OK", "ERROR", "EOF"}), NEW m \in {"OK", "EOF"}
    PROVE  Append(s, m) # <<"ERROR">>
<1>1. Append(s, m)[Len(s) + 1] = m /\ Len(Append(s, m)) = Len(s) + 1
  OBVIOUS
<1>2. Len(<<"ERROR">>) = 1 /\ <<"ERROR">>[1] = "ERROR"
  OBVIOUS
<1> QED
  BY <1>1, <1>2

\* When a DAEMON's INIT is read, no session of its machine is left: the tree's
\* would be an earlier one of its own, whose EOF the server has read.
LEMMA NoOldSession ==
    ASSUME OneDaemon, Inv, StageInv, LeaveInv, NEW b \in Bevs, TakeInit(b),
           owner[b] \in Daemons
    PROVE  Search(UuidOf[owner[b]]) = {}
<1> SUFFICES ASSUME NEW a \in activ, uuid(a) = UuidOf[owner[b]] PROVE FALSE
  BY DEF Search
<1>1. a \in Bevs /\ a # b /\ bevSt[a] = "open" /\ cur[owner[b]] = b
  <2>1. a \in Bevs /\ a # ending
    BY NoneAssumption DEF TakeInit, Inv, TypeOK
  <2>2. bevSt[a] = "open"
    BY <2>1 DEF LeaveInv, DaemonOpen
  <2> QED
    BY <2>1, <2>2, InitOfWaiting
<1>2. owner[a] = owner[b]
  BY DEF OneDaemon, StageInv, SameMachine, uuid
<1>3. toSrv[a] = <<>>
  BY <1>1, <1>2 DEF StageInv, Latest
<1>4. ~Uses(a)
  BY <1>1, <1>2 DEF Uses, StageInv, Stages, Stage
<1> QED
  BY <1>1, <1>3, <1>4 DEF LeaveInv, Leaving

\* No other step answers a DAEMON with ERROR.
LEMMA StepWelcome ==
    ASSUME OneDaemon, Inv, StageInv, LeaveInv, DaemonWelcome, [Next]_vars
    PROVE  DaemonWelcome'
<1> USE NoneAssumption, ClientsAssumption
<1>1. ASSUME UNCHANGED <<proc, cur, toClt>> PROVE DaemonWelcome'
  BY <1>1 DEF DaemonWelcome
<1>2. ASSUME NEW b \in Bevs, TakeInit(b), owner[b] \notin Daemons \ BadKey,
             NEW m \in {"OK", "ERROR"}, Send(b, m), UNCHANGED clientVars
      PROVE  DaemonWelcome'
  <2>1. ASSUME NEW p \in Daemons \ BadKey, proc[p] = "login" PROVE toClt'[cur[p]] = toClt[cur[p]]
    <3>1. p \in Clients /\ cur[p] \in Bevs /\ cur[p] # b
      BY <1>2, <2>1, InitOfWaiting DEF Clients, Inv, Owned
    <3> QED
      BY <1>2, <3>1 DEF Send, Inv, TypeOK
  <2> QED
    BY <1>2, <2>1 DEF DaemonWelcome, clientVars
<1>3. ASSUME NEW b \in Bevs, InitBad(b) \/ InitUsr(b) PROVE DaemonWelcome'
  BY <1>2, <1>3 DEF InitBad, InitUsr
<1>4. ASSUME NEW b \in Bevs, InitDaemon(b) PROVE DaemonWelcome'
  <2>1. TakeInit(b) /\ owner[b] \in Daemons /\ Send(b, "OK") /\ UNCHANGED clientVars
    BY <1>4, NoOldSession DEF InitDaemon
  <2>2. ASSUME NEW p \in Daemons, proc[p] = "login", cur[p] \in Bevs, toClt[cur[p]] # <<"ERROR">>
        PROVE  toClt'[cur[p]] # <<"ERROR">>
    <3>1. CASE cur[p] = b
      <4>1. toClt[b] \in Seq({"OK", "ERROR", "EOF"}) /\ toClt'[b] = Append(toClt[b], "OK")
        BY <2>1 DEF Send, Inv, TypeOK
      <4> QED
        BY <3>1, <4>1, LastMessage
    <3>2. CASE cur[p] # b
      BY <2>1, <2>2, <3>2 DEF Send, Inv, TypeOK
    <3> QED
      BY <3>1, <3>2
  <2> QED
    BY <2>1, <2>2 DEF DaemonWelcome, clientVars, Inv, Owned, Clients
<1>5. ASSUME NEW b \in Bevs, MainEof(b) PROVE DaemonWelcome'
  <2> DEFINE peer == PeerOf(b)
  <2>1. /\ UNCHANGED <<proc, cur>>
        /\ toClt' = IF peer = None THEN toClt ELSE [toClt EXCEPT ![peer] = Append(@, "EOF")]
    BY <1>5 DEF MainEof, clientVars
  <2>2. ASSUME NEW p \in Daemons, cur[p] \in Bevs, toClt[cur[p]] # <<"ERROR">>
        PROVE  toClt'[cur[p]] # <<"ERROR">>
    <3>1. CASE cur[p] = peer /\ peer # None
      <4>1. /\ toClt[peer] \in Seq({"OK", "ERROR", "EOF"})
            /\ toClt'[peer] = Append(toClt[peer], "EOF")
        BY <2>1, <2>2, <3>1 DEF Inv, TypeOK
      <4> QED
        BY <3>1, <4>1, LastMessage
    <3>2. CASE cur[p] # peer \/ peer = None
      BY <2>1, <2>2, <3>2 DEF Inv, TypeOK
    <3> QED
      BY <3>1, <3>2
  <2> QED
    BY <2>1, <2>2 DEF DaemonWelcome, Inv, Owned, Clients
<1>6. ASSUME NEW b \in Bevs, MainEofIdle(b) \/ MainEofStale(b) \/ MainError(b)
      PROVE  DaemonWelcome'
  BY <1>1, <1>6 DEF MainEofIdle, MainEofStale, MainError, clientVars
<1>7. ASSUME NEW p \in Clients, Reply(p) PROVE DaemonWelcome'
  <2>1. proc'[p] # "login" /\ cur' = cur /\ \A x \in Bevs \ {cur[p]} : toClt'[x] = toClt[x]
    BY <1>7 DEF Reply, Inv, TypeOK
  <2>2. ASSUME NEW q \in Clients \ {p}, proc[q] # "off" PROVE cur[q] # cur[p] /\ cur[q] \in Bevs
    BY <1>7, <2>2 DEF Reply, StageInv, Stages, Stage, Inv, Owned
  <2>3. \A q \in Clients \ {p} : proc'[q] = proc[q]
    BY <1>7 DEF Reply, Inv, TypeOK
  <2> QED
    BY <2>1, <2>2, <2>3 DEF DaemonWelcome, Clients
<1>8. ASSUME NEW p \in Clients, UsrEof(p) \/ Die(p) PROVE DaemonWelcome'
  BY <1>8 DEF UsrEof, Die, DaemonWelcome, Clients, Inv, TypeOK
<1>9. ASSUME NEW p \in Clients, NEW b \in Bevs, Login(p, b) PROVE DaemonWelcome'
  <2>1. toClt[b] = <<>> /\ toClt' = toClt
    BY <1>9 DEF Login, StageInv, Unsent
  <2>2. \A q \in Clients : q # p => proc'[q] = proc[q] /\ cur'[q] = cur[q]
    BY <1>9 DEF Login, Inv, TypeOK
  <2>3. cur'[p] = b
    BY <1>9 DEF Login, Inv, TypeOK
  <2> QED
    BY <2>1, <2>2, <2>3 DEF DaemonWelcome, Clients
<1>10. ASSUME NEW p \in Clients, NEW b \in Bevs, Start(p, b) \/ DaemonEof(p, b)
       PROVE  DaemonWelcome'
  BY <1>9, <1>10 DEF Start, DaemonEof
<1>11. CASE UNCHANGED vars \/ MainRemove
  BY <1>1, <1>11 DEF vars, MainRemove, clientVars
<1> QED
  BY <1>3, <1>4, <1>5, <1>6, <1>7, <1>8, <1>10, <1>11 DEF Next, Server, Client

\* Where every lost connection ends with an EOF the server reads, and a DAEMON
\* waits for that before it logs in again, ss_main_handle_init lets it in each
\* time: main_bufferevent_cb has taken its last session out of the tree.
THEOREM DaemonsWelcome ==
    ASSUME Patient, OneDaemon, MayReset = FALSE
    PROVE  Spec => []DaemonWelcome
<1>1. Init => StageInv /\ DaemonWelcome
  BY DEF Init, StageInv, Stages, Latest, SameMachine, Unsent, DaemonWelcome, Clients
<1>2. Init => LeaveInv
  BY DEF Init, LeaveInv, Leaving, NoReset, DaemonOpen
<1>3. Inv /\ StageInv /\ LeaveInv /\ DaemonWelcome /\ [Next]_vars
        => (StageInv /\ LeaveInv /\ DaemonWelcome)'
  BY StepStageInv, StepLeaveInv, StepWelcome
<1> QED
  BY <1>1, <1>2, <1>3, SpecInv, PTL DEF Spec

=============================================================================
