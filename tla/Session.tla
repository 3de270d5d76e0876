------------------------------- MODULE Session ------------------------------
(***************************************************************************)
(* How clients log in to the server and how the server forgets them: the   *)
(* accounts, the ACTIV_ITEMs in the uuid tree and the main connections     *)
(* ("control channels") whose callbacks carry a pointer to an ACTIV_ITEM.  *)
(*                                                                         *)
(* An ACTIV_ITEM is named by the connection of the DAEMON that created it, *)
(* so a pointer to one that was freed can be told from a pointer to its    *)
(* successor with the same uuid.                                           *)
(***************************************************************************)
EXTENDS Integers, Sequences, FiniteSets

CONSTANTS
    Daemons, Usrs,   \* client programs by type, C_DAEMON and C_USR
    UuidOf,          \* a DAEMON's machine id; the id a USR is configured with
    UserOf,          \* the account each client is configured with
    Bevs,            \* connections to the server's port, each used once
    None,            \* no connection, no ACTIV_ITEM
    BadKey,          \* clients whose INIT the server cannot decrypt
    MayDie,          \* clients whose process may be stopped
    MayReset,        \* a connection may break with an error instead of an EOF
    FastRestart      \* a client may log in again before the server has seen
                     \* the end of its last connection

Clients == Daemons \cup Usrs

ASSUME ClientsAssumption == Daemons \cap Usrs = {}
ASSUME SwitchAssumption  == /\ BadKey \subseteq Clients /\ MayDie \subseteq Clients
                            /\ MayReset \in BOOLEAN /\ FastRestart \in BOOLEAN
ASSUME NoneAssumption    == None \notin Bevs

Uuids == {UuidOf[p] : p \in Clients}
Users == {UserOf[p] : p \in Clients}

VARIABLES
    proc,      \* proc[p]: "off", "login" (blocked in read), "run" (event loop)
    cur,       \* cur[p]: the main connection of client p
    owner,     \* owner[b]: the client that opened b
    toSrv,     \* toSrv[b]: INIT and the end of b on their way to the server
    toClt,     \* toClt[b]: the reply and the end of b on their way to the client
    bevSt,     \* bevSt[b]: the server's bufferevent of b
    ctx,       \* ctx[b]: the callback argument of b
    accts,     \* the accounts in acct_items
    activ,     \* the ACTIV_ITEMs in the uuid tree
    usrOf,     \* usrOf[a]: bev_usr of a; bev_daemon of a is a itself
    ending,    \* the ACTIV_ITEM that main_bufferevent_cb is taking down
    fault      \* the abort or invalid access that has ended the server

clientVars == <<proc, cur, owner>>
vars == <<proc, cur, owner, toSrv, toClt, bevSt, ctx, accts, activ, usrOf, ending,
          fault>>

TypeOK ==
    /\ proc \in [Clients -> {"off", "login", "run"}]
    /\ cur \in [Clients -> Bevs \cup {None}]
    /\ owner \in [Bevs -> Clients \cup {None}]
    /\ toSrv \in [Bevs -> Seq({"INIT", "EOF", "ERR"})]
    /\ toClt \in [Bevs -> Seq({"OK", "ERROR", "EOF"})]
    /\ bevSt \in [Bevs -> {"none", "open", "ended", "freed"}]
    /\ ctx \in [Bevs -> Bevs \cup {None}]
    /\ accts \subseteq Users
    /\ activ \subseteq Bevs
    /\ usrOf \in [Bevs -> Bevs \cup {None}]
    /\ ending \in Bevs \cup {None}
    /\ fault \in {"none", "bev_unknown", "dangling"}

Init ==
    /\ proc = [p \in Clients |-> "off"]
    /\ cur = [p \in Clients |-> None]
    /\ owner = [b \in Bevs |-> None]
    /\ toSrv = [b \in Bevs |-> <<>>]
    /\ toClt = [b \in Bevs |-> <<>>]
    /\ bevSt = [b \in Bevs |-> "none"]
    /\ ctx = [b \in Bevs |-> None]
    /\ accts = {}
    /\ activ = {}
    /\ usrOf = [b \in Bevs |-> None]
    /\ ending = None
    /\ fault = "none"

-----------------------------------------------------------------------------
uuid(a) == UuidOf[owner[a]]
user(a) == UserOf[owner[a]]

\* Faulty: a session that has its USR is passed over.
SearchUnpaired(u) == {a \in activ : uuid(a) = u /\ usrOf[a] = None}

\* ss_uuid_search
Search(u) == {a \in activ : uuid(a) = u}

\* Connection b is the client's business no longer: its last bytes reach the
\* server unless the server has closed it.
End(b, how) ==
    toSrv' = IF b = None \/ bevSt[b] = "freed" THEN toSrv
             ELSE [toSrv EXCEPT ![b] = Append(@, how)]

-----------------------------------------------------------------------------
(* The clients.                                                            *)

\* sc_connect_srv and the request of sc_daemon_init_srv or sc_usr_init_srv.
Login(p, b) ==
    /\ bevSt[b] = "none"
    /\ proc' = [proc EXCEPT ![p] = "login"]
    /\ cur' = [cur EXCEPT ![p] = b]
    /\ owner' = [owner EXCEPT ![b] = p]
    /\ toSrv' = [toSrv EXCEPT ![b] = <<"INIT">>]
    /\ bevSt' = [bevSt EXCEPT ![b] = "open"]
    /\ UNCHANGED <<toClt, ctx, accts, activ, usrOf, ending, fault>>

\* The program is started (main of client.c).
Start(p, b) ==
    /\ proc[p] = "off"
    /\ FastRestart \/ \A old \in Bevs : owner[old] = p => toSrv[old] = <<>>
    /\ Login(p, b)

\* The reply to INIT; anything but OK ends the program.
Reply(p) ==
    LET b == cur[p] IN
    /\ proc[p] = "login" /\ toClt[b] # <<>>
    /\ IF Head(toClt[b]) = "OK"
         THEN /\ proc' = [proc EXCEPT ![p] = "run"]
              /\ toClt' = [toClt EXCEPT ![b] = Tail(@)]
              /\ UNCHANGED toSrv
         ELSE /\ proc' = [proc EXCEPT ![p] = "off"]
              /\ toClt' = [toClt EXCEPT ![b] = <<>>]
              /\ End(b, "EOF")
    /\ UNCHANGED <<cur, owner, bevSt, ctx, accts, activ, usrOf, ending, fault>>

Lost(p) == proc[p] = "run" /\ toClt[cur[p]] = <<"EOF">>

\* srv_bufferevent_cb, EOF: USR exits ...
UsrEof(p) ==
    /\ p \in Usrs /\ Lost(p)
    /\ proc' = [proc EXCEPT ![p] = "off"]
    /\ End(cur[p], "EOF")
    /\ UNCHANGED <<cur, owner, toClt, bevSt, ctx, accts, activ, usrOf, ending, fault>>

\* ... and DAEMON logs in again over a new connection.
DaemonEof(p, b) ==
    /\ p \in Daemons /\ Lost(p)
    /\ Login(p, b)

\* The process is stopped, or its host or the network breaks the connection.
Die(p) ==
    /\ p \in MayDie /\ proc[p] # "off"
    /\ proc' = [proc EXCEPT ![p] = "off"]
    /\ \E how \in {"EOF"} \cup (IF MayReset THEN {"ERR"} ELSE {}) : End(cur[p], how)
    /\ UNCHANGED <<cur, owner, toClt, bevSt, ctx, accts, activ, usrOf, ending, fault>>

-----------------------------------------------------------------------------
(* The server's main loop: ss_main_handle_init.                            *)

Send(b, m) == toClt' = [toClt EXCEPT ![b] = Append(@, m)]

TakeInit(b) ==
    /\ ending = None /\ bevSt[b] = "open" /\ toSrv[b] # <<>> /\ Head(toSrv[b]) = "INIT"
    /\ toSrv' = [toSrv EXCEPT ![b] = Tail(@)]

\* RSA_private_decrypt or the JSON parser fails.
InitBad(b) ==
    /\ TakeInit(b) /\ owner[b] \in BadKey
    /\ Send(b, "ERROR")
    /\ UNCHANGED <<clientVars, bevSt, ctx, accts, activ, usrOf, ending, fault>>

\* direct = USR_DAEMON: join the session of the machine id asked for.
InitUsr(b) ==
    LET p == owner[b]
        found == Search(UuidOf[p]) IN
    /\ TakeInit(b) /\ p \in Usrs \ BadKey
    /\ \/ /\ UserOf[p] \notin accts \/ found = {}
          /\ Send(b, "ERROR")
          /\ UNCHANGED <<usrOf, ctx>>
       \/ \E a \in found :
          /\ UserOf[p] \in accts
          /\ usrOf' = [usrOf EXCEPT ![a] = b]
          /\ ctx' = [ctx EXCEPT ![b] = a]
          /\ Send(b, "OK")
    /\ UNCHANGED <<clientVars, bevSt, accts, activ, ending, fault>>

\* direct = DAEMON_USR: create the account if need be, then the session; the
\* account stays when the machine id turns out to be taken.
InitDaemon(b) ==
    LET p == owner[b] IN
    /\ TakeInit(b) /\ p \in Daemons \ BadKey
    /\ accts' = accts \cup {UserOf[p]}
    /\ IF Search(UuidOf[p]) # {}
         THEN /\ Send(b, "ERROR")
              /\ UNCHANGED <<activ, ctx>>
         ELSE /\ activ' = activ \cup {b}
              /\ ctx' = [ctx EXCEPT ![b] = b]
              /\ Send(b, "OK")
    /\ UNCHANGED <<clientVars, bevSt, usrOf, ending, fault>>

-----------------------------------------------------------------------------
(* main_bufferevent_cb.  The main loop serves nobody else meanwhile.       *)

TakeEnd(b, how) ==
    /\ ending = None /\ bevSt[b] = "open" /\ toSrv[b] # <<>> /\ Head(toSrv[b]) = how
    /\ bevSt' = [bevSt EXCEPT ![b] = "ended"]
    /\ toSrv' = [toSrv EXCEPT ![b] = Tail(@)]

\* Faulty: the account is kept; the uuid is not erased from the tree.
RemoveKeepsAcct(a) == activ' = activ \ {a} /\ accts' = accts
RemoveKeepsUuid(a) == activ' = activ /\ accts' = accts

\* ss_activ_item_remove: out of the tree and of the account, and the account
\* goes with its last session.
Remove(a) ==
    /\ activ' = activ \ {a}
    /\ accts' = IF \E x \in activ \ {a} : user(x) = user(a) THEN accts
                ELSE accts \ {user(a)}

\* EOF of a connection that belongs to no session.
MainEofIdle(b) ==
    /\ TakeEnd(b, "EOF") /\ ctx[b] = None
    /\ UNCHANGED <<clientVars, toClt, ctx, accts, activ, usrOf, ending, fault>>

\* Faulty: only the DAEMON's end closes the other side.
PeerOfDaemonOnly(b) == IF ctx[b] = b THEN usrOf[b] ELSE None

\* The other main connection of b's session.
PeerOf(b) == IF ctx[b] = b THEN usrOf[b] ELSE ctx[b]

\* EOF of one client: the other's bufferevent is freed and its socket closed.
\* Until the same callback removes the session, the workers find it in the
\* tree's ACTIV_ITEM.
MainEof(b) ==
    LET a == ctx[b]
        peer == PeerOf(b) IN
    /\ ending = None /\ bevSt[b] = "open" /\ toSrv[b] # <<>> /\ Head(toSrv[b]) = "EOF"
    /\ a \in activ /\ b \in {a, usrOf[a]}
    /\ ending' = a
    /\ bevSt' = [x \in Bevs |-> IF x = b THEN "ended"
                                ELSE IF x = peer THEN "freed" ELSE bevSt[x]]
    /\ toSrv' = [x \in Bevs |-> IF x \in {b, peer} THEN <<>> ELSE toSrv[x]]
    /\ toClt' = IF peer = None THEN toClt
                ELSE [toClt EXCEPT ![peer] = Append(@, "EOF")]
    /\ UNCHANGED <<clientVars, ctx, accts, activ, usrOf, fault>>

\* Later in the same callback: the session is removed.
MainRemove ==
    /\ ending # None
    /\ Remove(ending)
    /\ ending' = None
    /\ UNCHANGED <<clientVars, toSrv, toClt, bevSt, ctx, usrOf, fault>>

\* EOF of a connection that the session has forgotten, or whose session has
\* been freed: an abort, or a read of freed memory.
MainEofStale(b) ==
    LET a == ctx[b] IN
    /\ TakeEnd(b, "EOF") /\ a # None
    /\ \/ /\ a \in activ /\ b \notin {a, usrOf[a]}
          /\ fault' = "bev_unknown"
       \/ /\ a \notin activ
          /\ fault' \in {"dangling", "bev_unknown"}
    /\ UNCHANGED <<clientVars, toClt, ctx, accts, activ, usrOf, ending>>

\* ERROR: logged, nothing else.
MainError(b) ==
    /\ TakeEnd(b, "ERR")
    /\ UNCHANGED <<clientVars, toClt, ctx, accts, activ, usrOf, ending, fault>>

-----------------------------------------------------------------------------
Server ==
    \/ MainRemove
    \/ \E b \in Bevs : \/ InitBad(b) \/ InitUsr(b) \/ InitDaemon(b)
                       \/ MainEofIdle(b) \/ MainEof(b) \/ MainEofStale(b) \/ MainError(b)

Client ==
    \E p \in Clients :
        \/ Reply(p) \/ UsrEof(p) \/ Die(p)
        \/ \E b \in Bevs : Start(p, b) \/ DaemonEof(p, b)

Next == fault = "none" /\ (Server \/ Client)

Spec == Init /\ [][Next]_vars

\* The server's loop serves every connection and a client its own; nobody
\* has to start or stop a program.
FairSpec ==
    /\ Spec
    /\ \A b \in Bevs : WF_vars(fault = "none" /\
          (\/ InitBad(b) \/ InitUsr(b) \/ InitDaemon(b) \/ MainEofIdle(b)
           \/ MainEof(b) \/ MainEofStale(b) \/ MainError(b)))
    /\ WF_vars(fault = "none" /\ MainRemove)
    /\ \A p \in Clients : WF_vars(fault = "none" /\
          (Reply(p) \/ UsrEof(p) \/ \E b \in Bevs : DaemonEof(p, b)))

-----------------------------------------------------------------------------
(* Properties.                                                             *)

\* A machine id names one session: a USR that asks for it cannot be joined to
\* another machine's.
OneSession == \A a, b \in activ : uuid(a) = uuid(b) => a = b

\* The workers write to both bufferevents of a session in the tree at any time.
\* One that the main loop has freed they meet only while main_bufferevent_cb is
\* between freeing it and removing the session; and until the session is gone
\* nobody else is let into it.
LiveBevs ==
    \A a \in activ :
        /\ bevSt[a] = "freed" \/ (usrOf[a] # None /\ bevSt[usrOf[a]] = "freed") => ending = a
        /\ ending = a => bevSt[a] # "open" /\ (usrOf[a] # None => bevSt[usrOf[a]] # "open")

\* A client that is running and has not been told otherwise is in a session
\* in which the server has it in its place.
InSession ==
    \A p \in Clients : proc[p] = "run" /\ toClt[cur[p]] = <<>> =>
        LET b == cur[p] IN
        /\ ctx[b] \in activ
        /\ b = IF p \in Daemons THEN ctx[b] ELSE usrOf[ctx[b]]

\* The INIT of DAEMON connection b has been read and refused: another session
\* has its machine id.
RefusedDaemon(b) ==
    /\ owner[b] \in Daemons \ BadKey /\ bevSt[b] # "none" /\ ctx[b] = None
    /\ \A i \in 1..Len(toSrv[b]) : toSrv[b][i] # "INIT"

\* An account is there as long as it has a session, however many come and go;
\* and one without a session is what the refusal of a DAEMON has left behind.
AccountsInUse ==
    /\ {user(a) : a \in activ} \subseteq accts
    /\ accts \subseteq {user(a) : a \in activ} \cup {user(b) : b \in {x \in Bevs : RefusedDaemon(x)}}

\* A DAEMON that logs in is let in: what is left of its last session is no
\* obstacle.
DaemonWelcome == \A p \in Daemons \ BadKey : proc[p] = "login" => toClt[cur[p]] # <<"ERROR">>

\* Another USR connection of the machine has taken b's place in its session.
Replaced(b) == ctx[b] # None /\ b \notin {ctx[b], usrOf[ctx[b]]}

\* The server's main loop ends no process unless a USR was replaced in its
\* session: by a second one, or by itself when it came back in haste.
NoAbort == fault # "none" => \E b \in Bevs : Replaced(b)

\* The client that opened b is still running with it.
Uses(b) == \E p \in Clients : proc[p] # "off" /\ cur[p] = b

\* Whichever client of a session is lost, by exit or by a broken connection,
\* the server takes the session down.
LossEndsSession ==
    \A b \in Bevs :
        (ctx[b] \in activ /\ ~Uses(b)) ~> (ctx[b] \notin activ \/ fault # "none")

\* A client whose session is gone does not go on as if it were in one: it
\* exits, or logs in again, until the bounded supply of connections is used.
LostIsNoticed ==
    \A b \in Bevs :
        (ctx[b] # None /\ ctx[b] \notin activ /\ Uses(b)) ~>
            (~Uses(b) \/ \A x \in Bevs : bevSt[x] # "none")
=============================================================================
