------------------------------- MODULE Tunnel -------------------------------
(***************************************************************************)
(* One session of the relay: a USR client and a DAEMON client joined by    *)
(* the server.  Each connection an application opens to the USR client     *)
(* becomes a tunnel: a leg USR<->server, a leg DAEMON<->server, and one    *)
(* "trans" object in each of the three processes, all found by the source  *)
(* port of the application's connection.                                   *)
(*                                                                         *)
(* The processes are libevent loops: the two clients, the server's main    *)
(* loop and the server's worker loops.  One action is one callback.        *)
(***************************************************************************)
EXTENDS Integers, Sequences, FiniteSets

CONSTANTS
    Conns,       \* application connections; c also names the trans objects of c
    None,        \* not a connection
    Ports,       \* source ports of those connections, the key of every trans list
    ThreadNum,   \* srvopt.thread_num
    MaxBatch,    \* control headers that one read event may bring to a client
    MaxData,     \* bound: chunks an endpoint sends through one leg
    MayExit,     \* the sides whose process may end while the session lives
    MayRefuse,   \* the local service or the server may refuse the daemon's connect
    EarlyReuse   \* a source port may come back before its last tunnel is drained

ASSUME ThreadNumAssumption == ThreadNum \in Nat \ {0}
ASSUME PortsAssumption     == Ports \subseteq Nat \ {0}   \* usr_lport = 0 is "freed"
ASSUME BoundsAssumption    == MaxBatch \in Nat \ {0} /\ MaxData \in Nat
ASSUME SwitchAssumption    == /\ MayExit \subseteq {"U", "D"}
                              /\ MayRefuse \in BOOLEAN
                              /\ EarlyReuse \in BOOLEAN
ASSUME NoneAssumption      == None \notin Conns

Side    == {"U", "D"}
Other(s) == IF s = "U" THEN "D" ELSE "U"
Leg     == Side \X Conns
Threads == 0..(ThreadNum - 1)

VARIABLES
    port,     \* port[c]: source port of c, 0 before c exists
    cl,       \* cl[<<s, c>>]: the PORTTRANS of c in the client of side s
    srv,      \* srv[c]: the TRANS_ITEM that the CONN of c created in the server
    bev,      \* bev[<<s, t>>]: the leg in slot bev_u or bev_d of trans t
    place,    \* place[l]: which part of the server holds the socket of leg l
    up,       \* up[l]: bytes of leg l from the client's output to the server's input
    dn,       \* dn[l]: bytes of leg l from the server's output to the client's input
    ctl,      \* ctl[s]: control channel from the server to the client of side s
    queue,    \* queue[th]: conn_queue of worker th
    pipe,     \* pipe[th]: the bytes in the notify pipe of worker th
    sent,     \* sent[l]: chunks the local peer of leg l's client has sent
    got,      \* got[l]: chunks the client of leg l has passed to its local peer
    alive,    \* alive[s]: the client of side s still takes part in the session
    session,  \* the server's ACTIV_ITEM: "up", "ending" in main_bufferevent_cb, "gone"
    fault     \* the abort or invalid memory access that has ended a process

vars == <<port, cl, srv, bev, place, up, dn, ctl, queue, pipe, sent, got, alive,
          session, fault>>

ClStatus == {"idle", "refused", "stuck", "opening", "active", "closed"}
Faults   == {"none", "null_trans", "act_unknown", "wrong_leg", "usr_side",
             "use_after_free", "wrong_slot"}
Places   == {"none", "main", "leaked", "rejected", "queued", "lost", "worker",
             "closed"}

ConnHead   == [tag |-> "conn"]
Fin        == [tag |-> "fin"]
Chunk(l, n) == [tag |-> "data", from |-> l, n |-> n]
Items      == {ConnHead, Fin} \cup {Chunk(l, n) : l \in Leg, n \in 1..MaxData}

\* Faulty: the port is read after ss_free_trans has cleared it.
MsgCleared(cmd, c) == [cmd |-> cmd, port |-> 0, of |-> c]

\* A header on a control channel; "of" names the connection for the reader.
Msg(cmd, c) == [cmd |-> cmd, port |-> port[c], of |-> c]
Msgs       == [cmd : {"CONN", "CONN_ACT"}, port : Ports, of : Conns]
Jobs       == [kind : Side, conn : Conns, trans : Conns]

TypeOK ==
    /\ port \in [Conns -> Ports \cup {0}]
    /\ cl \in [Leg -> ClStatus]
    /\ srv \in [Conns -> {"none", "listed", "freed"}]
    /\ bev \in [Leg -> Conns \cup {None}]
    /\ place \in [Leg -> Places]
    /\ up \in [Leg -> Seq(Items)]
    /\ dn \in [Leg -> Seq(Items)]
    /\ ctl \in [Side -> [net : Seq(Msgs), buf : Seq(Msgs)]]
    /\ queue \in [Threads -> Seq(Jobs)]
    /\ pipe \in [Threads -> Seq(Side)]
    /\ sent \in [Leg -> 0..MaxData]
    /\ got \in [Leg -> Seq(Items)]
    /\ alive \in [Side -> BOOLEAN]
    /\ session \in {"up", "ending", "gone"}
    /\ fault \in Faults

Init ==
    /\ port = [c \in Conns |-> 0]
    /\ cl = [l \in Leg |-> "idle"]
    /\ srv = [c \in Conns |-> "none"]
    /\ bev = [l \in Leg |-> None]
    /\ place = [l \in Leg |-> "none"]
    /\ up = [l \in Leg |-> <<>>]
    /\ dn = [l \in Leg |-> <<>>]
    /\ ctl = [s \in Side |-> [net |-> <<>>, buf |-> <<>>]]
    /\ queue = [th \in Threads |-> <<>>]
    /\ pipe = [th \in Threads |-> <<>>]
    /\ sent = [l \in Leg |-> 0]
    /\ got = [l \in Leg |-> <<>>]
    /\ alive = [s \in Side |-> TRUE]
    /\ session = "up"
    /\ fault = "none"

-----------------------------------------------------------------------------
(* The trans lists and the thread of a port.                               *)

ThreadOf(p) == p % ThreadNum

\* On a client's list (cltopt.trans) and on the server's (p_activ_item->trans).
ScListed(s) == {c \in Conns : cl[<<s, c>>] \in {"stuck", "opening", "active"}}
SsListed    == {c \in Conns : srv[c] = "listed"}

\* Faulty: a trans that has not started yet is not found.
ScFindStarted(s, p) == {c \in ScListed(s) : port[c] = p /\ cl[<<s, c>>] # "opening"}

ScFind(s, p) == {c \in ScListed(s) : port[c] = p}
SsFind(p)    == {c \in SsListed : port[c] = p}

\* sc_create_trans and ss_create_trans give NULL for a port that is listed.
ScMayCreate(s, p) == ScFind(s, p) = {}
SsMayCreate(p)    == SsFind(p) = {}

-----------------------------------------------------------------------------
(* Channels.  Freeing a bufferevent discards the output it has not yet     *)
(* written, so the other end sees some prefix and then the end of file.    *)

Kept(ch, S) == {k \in [S -> 0..(MaxData + 2)] : \A l \in S : k[l] <= Len(ch[l])}

\* Faulty: the socket stays open.
CutOpen(ch, S, k) == [l \in Leg |-> IF l \in S THEN SubSeq(ch[l], 1, k[l]) ELSE ch[l]]

Cut(ch, S, k) ==
    [l \in Leg |-> IF l \in S THEN Append(SubSeq(ch[l], 1, k[l]), Fin) ELSE ch[l]]

Drop(ch, S) == [l \in Leg |-> IF l \in S THEN <<>> ELSE ch[l]]

Ended(q) == q # <<>> /\ q[Len(q)] = Fin

\* Faulty: only the DAEMON is told.
PostDaemon(chan, s, m) ==
    IF alive[s] /\ s = "D" THEN [chan EXCEPT ![s].net = Append(@, m)] ELSE chan

Post(chan, s, m) ==
    IF alive[s] THEN [chan EXCEPT ![s].net = Append(@, m)] ELSE chan

\* Faulty: connections that have not started are left.
ScFreeStarted(S) ==
    LET open == {l \in S : cl[l] = "active"} IN
    \E k \in Kept(up, open) :
        /\ cl' = [l \in Leg |-> IF l \in open THEN "closed" ELSE cl[l]]
        /\ up' = Cut(up, open, k)
        /\ dn' = Drop(dn, open)

\* The client frees the PORTTRANS of the legs S and closes their sockets.
ScFree(S) ==
    LET open == {l \in S : cl[l] # "stuck"} IN
    \E k \in Kept(up, open) :
        /\ cl' = [l \in Leg |-> IF l \in S THEN "closed" ELSE cl[l]]
        /\ up' = Cut(up, open, k)
        /\ dn' = Drop(dn, open)

\* The server frees the TRANS_ITEMs T and closes the legs in their slots.
SsFree(T) ==
    LET slots == {x \in Side \X T : bev[x] # None}
        legs  == {<<x[1], bev[x]>> : x \in slots} IN
    \E k \in Kept(dn, legs) :
        /\ srv' = [c \in Conns |-> IF c \in T THEN "freed" ELSE srv[c]]
        /\ bev' = [x \in Leg |-> IF x \in slots THEN None ELSE bev[x]]
        /\ place' = [l \in Leg |-> IF l \in legs THEN "closed" ELSE place[l]]
        /\ dn' = Cut(dn, legs, k)
        /\ up' = Drop(up, legs)

\* sc_free_all_trans and ss_free_all_trans
ScFreeAll(s) == ScFree({<<s, c>> : c \in ScListed(s)})
SsFreeAll    == SsFree(SsListed)

-----------------------------------------------------------------------------
(* The USR client accepts application connections.                         *)

\* No trace of port p is left anywhere, as when the system hands out source
\* ports round robin.
Drained(p) ==
    \A c \in Conns : port[c] = p =>
        /\ srv[c] # "listed"
        /\ \A s \in Side : /\ cl[<<s, c>>] \in {"idle", "refused", "closed"}
                           /\ place[<<s, c>>] \in {"none", "closed"}

\* accept_conn_cb: connect to the server, create the trans, send CONN.
UsrAccept(c, p) ==
    /\ alive["U"] /\ port[c] = 0
    /\ EarlyReuse \/ Drained(p)
    /\ port' = [port EXCEPT ![c] = p]
    /\ IF ScMayCreate("U", p)
         THEN /\ cl' = [cl EXCEPT ![<<"U", c>>] = "opening"]
              /\ place' = [place EXCEPT ![<<"U", c>>] = "main"]
              /\ up' = [up EXCEPT ![<<"U", c>>] = <<ConnHead>>]
         ELSE /\ cl' = [cl EXCEPT ![<<"U", c>>] = "refused"]
              /\ UNCHANGED <<place, up>>
    /\ UNCHANGED <<srv, bev, dn, ctl, queue, pipe, sent, got, alive, session, fault>>

-----------------------------------------------------------------------------
(* The server's main loop.                                                 *)

\* The item of leg <<s, c>> at the end of the list and its byte in the pipe.
Handed(s, c, t, th) ==
    /\ queue' = [queue EXCEPT ![th] = Append(@, [kind |-> s, conn |-> c, trans |-> t])]
    /\ pipe' = [pipe EXCEPT ![th] = Append(@, s)]
    /\ place' = [place EXCEPT ![<<s, c>>] = "queued"]

\* Faulty: each leg has a worker of its own; any trans of the list is taken.
EnqueueByLeg(s, c, t) ==
    Handed(s, c, t, ThreadOf(port[c] + (IF s = "D" THEN 1 ELSE 0)))
EnqueueAny(s, c, t) ==
    \E x \in IF s = "D" THEN SsListed ELSE {t} : Handed(s, c, x, ThreadOf(port[c]))

\* The C_ITEM of leg <<s, c>> goes to the thread of the port, and its byte
\* after it.  There is no lock: a slist_add that stands on an item which the
\* worker is fetching links the new one behind it and out of the list, and
\* the byte comes alone (HandOff has the pointers).  The worker's turn for the
\* item it fetches then counts as a later step.
Enqueue(s, c, t) ==
    LET th == ThreadOf(port[c]) IN
    \/ Handed(s, c, t, th)
    \/ /\ pipe[th] # <<>> /\ queue[th] # <<>>
       /\ pipe' = [pipe EXCEPT ![th] = Append(@, s)]
       /\ place' = [place EXCEPT ![<<s, c>>] = "lost"]
       /\ UNCHANGED queue

HasConn(l) == place[l] = "main" /\ up[l] # <<>> /\ Head(up[l]) = ConnHead

\* ss_main_handle_ctl without a session: the ERROR reply stays unread.
SrvReject(l) ==
    /\ HasConn(l) /\ session = "gone"
    /\ place' = [place EXCEPT ![l] = "rejected"]
    /\ up' = [up EXCEPT ![l] = Tail(@)]
    /\ UNCHANGED <<port, cl, srv, bev, dn, ctl, queue, pipe, sent, got, alive,
                   session, fault>>

\* ss_main_handle_ctl, direct = USR_DAEMON.  A port that is taken leaks the
\* socket: the bufferevent is freed already and the ERROR reply goes with it.
SrvConnUsr(c) ==
    LET l == <<"U", c>> IN
    /\ HasConn(l) /\ session = "up"
    /\ up' = [up EXCEPT ![l] = Tail(@)]
    /\ IF SsMayCreate(port[c])
         THEN /\ srv' = [srv EXCEPT ![c] = "listed"]
              /\ ctl' = Post(ctl, "D", Msg("CONN", c))
              /\ Enqueue("U", c, c)
         ELSE /\ place' = [place EXCEPT ![l] = "leaked"]
              /\ UNCHANGED <<srv, ctl, queue, pipe>>
    /\ UNCHANGED <<port, cl, bev, dn, sent, got, alive, session, fault>>

\* ss_main_handle_ctl, direct = DAEMON_USR.
SrvConnDaemon(c) ==
    LET l == <<"D", c>> IN
    /\ HasConn(l) /\ session = "up"
    /\ up' = [up EXCEPT ![l] = Tail(@)]
    /\ \/ /\ SsFind(port[c]) = {}
          /\ place' = [place EXCEPT ![l] = "leaked"]
          /\ UNCHANGED <<queue, pipe>>
       \/ \E t \in SsFind(port[c]) : Enqueue("D", c, t)
    /\ UNCHANGED <<port, cl, srv, bev, dn, ctl, sent, got, alive, session, fault>>

\* main_bufferevent_cb, EOF: one client has gone and the bufferevent of the
\* other's control channel is freed.
SrvMainEof ==
    /\ session = "up" /\ \E s \in Side : ~alive[s]
    /\ session' = "ending"
    /\ UNCHANGED <<port, cl, srv, bev, place, up, dn, ctl, queue, pipe, sent, got,
                   alive, fault>>

\* Later in the same callback: ss_activ_item_remove frees all the trans and
\* then the session.
SrvRemove ==
    /\ session = "ending"
    /\ SsFreeAll
    /\ session' = "gone"
    /\ UNCHANGED <<port, cl, ctl, queue, pipe, sent, got, alive, fault>>

-----------------------------------------------------------------------------
(* The worker loops.                                                       *)

\* The leg of job j goes into its slot of the trans.
Attach(j) ==
    /\ bev' = [bev EXCEPT ![<<j.kind, j.trans>>] = j.conn]
    /\ place' = [place EXCEPT ![<<j.kind, j.conn>>] = "worker"]

\* Serving job j under the byte b.  CONN_ACT goes to both clients, of which
\* one has no bufferevent any more while the session is ending.  A leg in the
\* other leg's slot is where the model stops: what the server then relays is
\* no tunnel.
Serve(b, j) ==
    LET listed == srv[j.trans] = "listed"
        usrOk  == bev[<<"U", j.trans>>] # None IN
    \/ /\ b = "U" /\ j.kind = "U" /\ listed
       /\ Attach(j)
       /\ UNCHANGED <<ctl, fault>>
    \/ /\ b = "D" /\ j.kind = "D" /\ listed /\ usrOk /\ session = "up"
       /\ Attach(j)
       /\ ctl' = LET m == Msg("CONN_ACT", j.trans)
                 IN  Post(Post(ctl, "D", m), "U", m)
       /\ UNCHANGED fault
    \/ /\ \/ b = "D" /\ (listed => ~usrOk) /\ fault' = "usr_side"
          \/ b = "D" /\ listed /\ usrOk /\ session # "up" /\ fault' = "use_after_free"
          \/ b # j.kind /\ listed /\ (b = "D" => usrOk) /\ fault' = "wrong_slot"
          \/ ~listed /\ fault' = "use_after_free"
       /\ UNCHANGED <<bev, place, ctl>>

\* thread_process: one byte of the notify pipe, the first item of the queue.
\* Without an item it logs and returns.
WorkerTake(th) ==
    /\ pipe[th] # <<>>
    /\ pipe' = [pipe EXCEPT ![th] = Tail(@)]
    /\ \/ queue[th] = <<>> /\ UNCHANGED <<queue, bev, place, ctl, fault>>
       \/ /\ queue[th] # <<>>
          /\ queue' = [queue EXCEPT ![th] = Tail(@)]
          /\ Serve(Head(pipe[th]), Head(queue[th]))
    /\ UNCHANGED <<port, cl, srv, up, dn, sent, got, alive, session>>

\* thread_bufferread_cb on slot s of trans t.
WorkerRead(s, t) ==
    LET l == <<s, bev[<<s, t>>]>>
        m == <<Other(s), bev[<<Other(s), t>>]>> IN
    /\ bev[<<s, t>>] # None
    /\ up[l] # <<>> /\ Head(up[l]) # Fin
    /\ IF m[2] = None
         THEN /\ fault' = "wrong_leg"
              /\ UNCHANGED <<up, dn>>
         ELSE /\ up' = [up EXCEPT ![l] = Tail(@)]
              /\ dn' = IF cl[m] = "closed" THEN dn
                       ELSE [dn EXCEPT ![m] = Append(@, Head(up[l]))]
              /\ UNCHANGED fault
    /\ UNCHANGED <<port, cl, srv, bev, place, ctl, queue, pipe, sent, got, alive, session>>

\* thread_bufferevent_cb, EOF or ERROR on slot s of trans t.
WorkerEof(s, t) ==
    /\ bev[<<s, t>>] # None
    /\ Ended(up[<<s, bev[<<s, t>>]>>])
    /\ SsFree({t})
    /\ UNCHANGED <<port, cl, ctl, queue, pipe, sent, got, alive, session, fault>>

-----------------------------------------------------------------------------
(* The clients.                                                            *)

\* srv_bufferread_cb takes one header, however many have arrived.
ReadHead(s, n) ==
    ctl' = [ctl EXCEPT ![s] =
               [net |-> SubSeq(@.net, n + 1, Len(@.net)),
                buf |-> Tail(@.buf \o SubSeq(@.net, 1, n))]]

HeadOf(s, n) == Head(ctl[s].buf \o SubSeq(ctl[s].net, 1, n))

\* Faulty: every trans of the client starts.
OnConnActAll(s, m) ==
    /\ m.cmd = "CONN_ACT"
    /\ cl' = [l \in Leg |-> IF l[1] = s /\ cl[l] = "opening" THEN "active" ELSE cl[l]]
    /\ UNCHANGED <<place, up, fault>>

\* HD_CMD_CONN_ACT: the trans of that port starts to read from both sides.
\* SYS_ABORT if there is none; a stuck trans has no bufferevent to enable.
OnConnAct(s, m) ==
    LET found  == {<<s, c>> : c \in ScFind(s, m.port)}
        usable == {l \in found : cl[l] # "stuck"} IN
    /\ m.cmd = "CONN_ACT"
    /\ cl' = [l \in Leg |-> IF l \in usable THEN "active" ELSE cl[l]]
    /\ fault' = IF usable = {} THEN "act_unknown" ELSE fault
    /\ UNCHANGED <<place, up>>

\* HD_CMD_CONN at the daemon.  sc_create_trans gives NULL for a port that is
\* listed, and p_trans->is_enc is written before the test; a refused connect
\* returns and leaves the trans listed.
OnConn(s, m) ==
    LET l == <<s, m.of>> IN
    /\ m.cmd = "CONN"
    /\ \/ /\ ~ScMayCreate(s, m.port)
          /\ fault' = "null_trans"
          /\ UNCHANGED <<cl, place, up>>
       \/ /\ ScMayCreate(s, m.port) /\ MayRefuse
          /\ cl' = [cl EXCEPT ![l] = "stuck"]
          /\ UNCHANGED <<place, up, fault>>
       \/ /\ ScMayCreate(s, m.port)
          /\ cl' = [cl EXCEPT ![l] = "opening"]
          /\ place' = [place EXCEPT ![l] = "main"]
          /\ up' = [up EXCEPT ![l] = <<ConnHead>>]
          /\ UNCHANGED fault

ClientCtl(s) ==
    /\ alive[s]
    /\ \E n \in 1..MaxBatch :
          /\ n <= Len(ctl[s].net)
          /\ ReadHead(s, n)
          /\ \/ OnConnAct(s, HeadOf(s, n))
             \/ OnConn(s, HeadOf(s, n))
    /\ UNCHANGED <<port, srv, bev, dn, queue, pipe, sent, got, alive, session>>

\* bufferread_cb on local_bev: a chunk of the local peer goes to the server.
ClientSend(l) ==
    /\ cl[l] = "active" /\ sent[l] < MaxData
    /\ sent' = [sent EXCEPT ![l] = @ + 1]
    /\ up' = IF place[l] = "closed" THEN up
             ELSE [up EXCEPT ![l] = Append(@, Chunk(l, sent[l] + 1))]
    /\ UNCHANGED <<port, cl, srv, bev, place, dn, ctl, queue, pipe, got, alive,
                   session, fault>>

\* Faulty: the input is not drained.
ClientRecvNoDrain(l) ==
    /\ cl[l] = "active"
    /\ dn[l] # <<>> /\ Head(dn[l]) # Fin
    /\ Len(got[l]) < 2 * MaxData
    /\ got' = [got EXCEPT ![l] = Append(@, Head(dn[l]))]
    /\ UNCHANGED <<port, cl, srv, bev, place, up, dn, ctl, queue, pipe, sent, alive,
                   session, fault>>

\* bufferread_cb on srv_bev: a chunk from the server goes to the local peer.
ClientRecv(l) ==
    /\ cl[l] = "active"
    /\ dn[l] # <<>> /\ Head(dn[l]) # Fin
    /\ dn' = [dn EXCEPT ![l] = Tail(@)]
    /\ got' = [got EXCEPT ![l] = Append(@, Head(dn[l]))]
    /\ UNCHANGED <<port, cl, srv, bev, place, up, ctl, queue, pipe, sent, alive,
                   session, fault>>

\* bufferevent_cb, EOF or ERROR of the server's side.
ClientSrvEof(l) ==
    /\ cl[l] = "active" /\ Ended(dn[l])
    /\ ScFree({l})
    /\ UNCHANGED <<port, srv, bev, place, ctl, queue, pipe, sent, got, alive, session, fault>>

\* bufferevent_cb, EOF or ERROR of the local peer.
ClientLocalEof(l) ==
    /\ cl[l] = "active"
    /\ ScFree({l})
    /\ UNCHANGED <<port, srv, bev, place, ctl, queue, pipe, sent, got, alive, session, fault>>

\* The client's part in the session is over: its process ends, or
\* srv_bufferevent_cb sees the control channel closed, whereupon USR exits
\* and DAEMON frees all its trans and logs in again (a new session).
ClientLeave(s) ==
    /\ alive[s]
    /\ s \in MayExit \/ session # "up"
    /\ ScFreeAll(s)
    /\ alive' = [alive EXCEPT ![s] = FALSE]
    /\ UNCHANGED <<port, srv, bev, place, ctl, queue, pipe, sent, got, session, fault>>

-----------------------------------------------------------------------------
\* What the event loops do on their own, and what applications, services and
\* operators decide.
System ==
    \/ \E c \in Conns : SrvConnUsr(c) \/ SrvConnDaemon(c)
    \/ \E l \in Leg : SrvReject(l) \/ ClientRecv(l) \/ ClientSrvEof(l)
    \/ \E s \in Side, t \in Conns : WorkerRead(s, t) \/ WorkerEof(s, t)
    \/ \E th \in Threads : WorkerTake(th)
    \/ \E s \in Side : ClientCtl(s)
    \/ SrvMainEof \/ SrvRemove

Environment ==
    \/ \E c \in Conns, p \in Ports : UsrAccept(c, p)
    \/ \E l \in Leg : ClientSend(l) \/ ClientLocalEof(l)
    \/ \E s \in Side : ClientLeave(s)

\* A fault ends a process: what the others then do is not modelled.
Ok   == fault = "none"
Next == Ok /\ (System \/ Environment)

Spec == Init /\ [][Next]_vars

\* libevent polls level triggered: a callback whose event stays ready runs.
\* Nothing obliges an application to connect, send or close, but a client
\* that has lost its session leaves it.
Fairness ==
    /\ \A c \in Conns : WF_vars(Ok /\ SrvConnUsr(c)) /\ WF_vars(Ok /\ SrvConnDaemon(c))
    /\ \A l \in Leg : WF_vars(Ok /\ ClientRecv(l)) /\ WF_vars(Ok /\ ClientSrvEof(l))
    /\ \A s \in Side, t \in Conns :
          WF_vars(Ok /\ WorkerRead(s, t)) /\ WF_vars(Ok /\ WorkerEof(s, t))
    /\ \A th \in Threads : WF_vars(Ok /\ WorkerTake(th))
    /\ \A s \in Side : /\ WF_vars(Ok /\ ClientCtl(s))
                       /\ WF_vars(Ok /\ session # "up" /\ ClientLeave(s))
    /\ WF_vars(Ok /\ SrvMainEof) /\ WF_vars(Ok /\ SrvRemove)

FairSpec == Spec /\ Fairness

-----------------------------------------------------------------------------
(* Safety.                                                                 *)

\* A source port names at most one trans on the list of each process, so
\* that looking a trans up by its port is looking up the connection.
UniquePorts ==
    \A b, c \in Conns : b # c /\ port[b] = port[c] =>
        /\ ~(b \in SsListed /\ c \in SsListed)
        /\ \A s \in Side : ~(b \in ScListed(s) /\ c \in ScListed(s))

\* The server joins the two legs of one connection, although the DAEMON leg
\* arrives with nothing but a port number: so it is up to the first item that
\* is served under another's byte, which is a fault (wrong_slot).
LegsMatch == \A s \in Side, t \in Conns : bev[<<s, t>>] \in {t, None}

\* An item for worker th was lost between slist_add and slist_fetch.
LostOn(th) == \E l \in Leg : place[l] = "lost" /\ ThreadOf(port[l[2]]) = th

\* thread_process relies on it: under a byte D the worker finds the item of a
\* DAEMON leg, and if its trans lives, the USR leg is in place.  So it is, while
\* no process has died, until the missing lock loses an item of that worker.
UserLegFirst ==
    Ok => \A th \in Threads : pipe[th] # <<>> /\ Head(pipe[th]) = "D" /\ ~LostOn(th) =>
        /\ queue[th] # <<>>
        /\ LET j == Head(queue[th]) IN
           j.kind = "D" /\ (srv[j.trans] = "listed" => bev[<<"U", j.trans>>] # None)

\* A client reads neither side of a tunnel before the server has joined the
\* legs: what a service says first has somewhere to go.
ActiveIsJoined ==
    \A s \in Side, c \in Conns : cl[<<s, c>>] = "active" =>
        \/ srv[c] = "freed"
        \/ \A r \in Side : bev[<<r, c>>] = c

\* A tunnel is a connection of Relay: what one peer sends reaches the other
\* in order and whole, until the tunnel breaks.  In flight is what lies in the
\* two legs and the server, as long as there is somebody to receive it.
relayPhase ==
    [c \in Conns |->
        IF srv[c] = "freed" \/ \E s \in Side : cl[<<s, c>>] = "closed" THEN "broken"
        ELSE IF \A s \in Side : bev[<<s, c>>] = c THEN "open" ELSE "idle"]

\* The chunks in a channel: what lies between the CONN header and the end of file.
Piece(x)   == [from |-> x.from, n |-> x.n]
Skipped(q) == IF q # <<>> /\ Head(q) = ConnHead THEN 1 ELSE 0
Data(q) ==
    LET last == IF Ended(q) THEN Len(q) - 1 ELSE Len(q)
    IN  [k \in 1..(last - Skipped(q)) |-> Piece(q[Skipped(q) + k])]
Far(l) == <<Other(l[1]), l[2]>>

relayWire == [l \in Leg |-> IF cl[Far(l)] = "closed" THEN <<>>
                            ELSE Data(dn[Far(l)]) \o Data(up[l])]
relayGot  == [l \in Leg |-> Data(got[Far(l)])]

TunnelRelay == INSTANCE Relay WITH Ends <- Side, phase <- relayPhase,
                                   wire <- relayWire, got <- relayGot
ImplementsRelay == TunnelRelay!Spec

\* No process dies and no leg gets into the wrong slot as long as both clients
\* stay, no item of a worker's queue is lost and ports are not reused early;
\* and even then no client is told to start a tunnel it does not know and no
\* worker has bytes without a leg to put them on.
NoAbort ==
    /\ fault \notin {"act_unknown", "wrong_leg"}
    /\ fault = "null_trans" => EarlyReuse
    /\ fault = "usr_side" => \E s \in Side : ~alive[s] \/ \E th \in Threads : LostOn(th)
    /\ fault = "wrong_slot" => \E th \in Threads : LostOn(th)
    /\ fault = "use_after_free" => \E s \in Side : ~alive[s]

-----------------------------------------------------------------------------
(* Liveness.                                                               *)

\* A client has read a header about c together with an earlier one, and keeps
\* it for the next arrival on its control channel.
HeaderLeft(c) == \E s \in Side : \E k \in 1..Len(ctl[s].buf) : ctl[s].buf[k].of = c

\* Every connection the USR client accepts is carried to the service, unless
\* a process is lost or the connection is left waiting for ever: the service
\* refuses, the server has no trans for a leg, an item of the worker's queue
\* is lost, or a header is left unread.
Broken == fault # "none" \/ \E s \in Side : ~alive[s]
LeftWaiting(c) ==
    \/ cl[<<"D", c>>] = "stuck"
    \/ \E s \in Side : place[<<s, c>>] \in {"leaked", "lost"}
    \/ HeaderLeft(c)
Opens ==
    \A c \in Conns : cl[<<"U", c>>] = "opening" ~>
        cl[<<"U", c>>] = "active" \/ Broken \/ []LeftWaiting(c)

\* When one end of a tunnel closes, the other end closes and the server and
\* both clients forget the trans for good, unless one of them never read that
\* the tunnel was open.
Gone(c) == c \notin SsListed /\ \A s \in Side : c \notin ScListed(s)
TearsDown ==
    \A c \in Conns : (\E s \in Side : cl[<<s, c>>] = "closed") ~>
        []Gone(c) \/ []HeaderLeft(c) \/ fault # "none"

\* When a client goes, the server drops the session, every tunnel of it, and
\* the other client's ends of them.
SessionEnds ==
    (\E s \in Side : ~alive[s]) ~>
        \/ fault # "none"
        \/ session = "gone" /\ SsListed = {} /\ \A s \in Side : ScListed(s) = {}
=============================================================================
