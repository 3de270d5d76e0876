-------------------------------- MODULE Ss5 ---------------------------------
(***************************************************************************)
(* The SOCKS5 proxy in one session.  An application connects to the DAEMON *)
(* client, which opens a data connection to the server; the server         *)
(* connects to the host the application named and tells the client on the  *)
(* control channel (SS5_ACT); then both relay, encrypted in between.       *)
(*                                                                         *)
(* Four kinds of event loop take part: the client's main loop and its      *)
(* workers, the server's main loop (which also runs the lookups' callback) *)
(* and its workers.  One action is one callback, except where two loops    *)
(* meet on one object inside a callback: the client's worker fills in a    *)
(* PORTTRANS after its request is on the way, the client's main loop       *)
(* enables and writes to bufferevents of a worker, and connect() in a      *)
(* server worker lets the main loop run on.                                *)
(***************************************************************************)
EXTENDS Integers, Sequences

CONSTANTS
    Conns,          \* application connections; c also names its trans objects
    None,           \* not a connection
    Ports,          \* source ports of those connections
    ClientThreads,  \* cltopt.thread_num
    ServerThreads,  \* srvopt.thread_num
    MaxBatch,       \* control headers that one read event may bring
    MaxData,        \* bound: chunks an end sends through one connection
    MayEnd,         \* the USR client of the session may leave
    EarlyReuse      \* a source port may come back before its last use is drained

ASSUME ThreadsAssumption == /\ ClientThreads \in Nat \ {0}
                            /\ ServerThreads \in Nat \ {0}
ASSUME PortsAssumption   == Ports \subseteq Nat \ {0}
ASSUME BoundsAssumption  == MaxBatch \in Nat \ {0} /\ MaxData \in Nat
ASSUME SwitchAssumption  == MayEnd \in BOOLEAN /\ EarlyReuse \in BOOLEAN
ASSUME NoneAssumption    == None \notin Conns

CltThreads == 0..(ClientThreads - 1)
SrvThreads == 0..(ServerThreads - 1)

VARIABLES
    port,     \* port[c]: source port of c, 0 before c exists
    app,      \* app[c]: what the application of c has got from the client
    gone,     \* applications that have closed their end
    cl,       \* cl[c]: the PORTTRANS of c
    slot,     \* slot[c]: which of local_bev and srv_bev are set
    on,       \* on[c]: which of them are enabled for reading
    job,      \* job[c]: how far the client's worker has come with the C_ITEM of c
    cqueue,   \* cqueue[th]: conn_queue of the client's worker th with its pipe
    main,     \* what the client's main loop is in the middle of
    place,    \* place[c]: who holds the server's end of the data connection
    srv,      \* srv[c]: the TRANS_ITEM of c
    remote,   \* remote[c]: the server's connection to the host named by c
    squeue,   \* squeue[th]: conn_queue of the server's worker th with its pipe
    up, dn,   \* the data connection: client to server, server to client
    ctl,      \* the control channel to the client: in the net, and read by libevent
    pos,      \* pos[c]: stream positions of the four cipher contexts of c
    sent,     \* sent[<<e, c>>]: chunks that end e of c has sent
    got,      \* got[<<e, c>>]: chunks passed on to end e of c
    alive,    \* the client is still in this session
    session,  \* the server still has the ACTIV_ITEM
    fault     \* the abort or invalid memory access that has ended a process

appVars    == <<port, app, gone>>
transVars  == <<cl, slot, on>>
cltVars    == <<job, cqueue, main>>
srvVars    == <<place, srv, remote, squeue>>
streamVars == <<pos, sent, got>>
lifeVars   == <<alive, session>>
vars == <<appVars, transVars, cltVars, srvVars, up, dn, ctl, streamVars,
          lifeVars, fault>>

End   == {"app", "remote"}
Both  == {"local", "srv"}
Faults == {"none", "null_bev", "client_freed", "server_freed", "double_free",
           "freed_item", "wrong_leg"}

Req     == [tag |-> "ss5"]      \* the HD_CMD_SS5 header and its request
ErrHead == [tag |-> "error"]    \* HD_CMD_ERROR on the data connection
Fin     == [tag |-> "fin"]
Garbage == [tag |-> "garbage"]
Plain(e, c, n)     == [tag |-> "data", from |-> e, conn |-> c, n |-> n]
Cipher(e, c, n, k) == [tag |-> "cipher", from |-> e, conn |-> c, n |-> n, pos |-> k]

Chunks == {Garbage} \cup [tag : {"data"}, from : End, conn : Conns, n : 1..MaxData]
Items  == {Req, ErrHead, Fin} \cup
          [tag : {"cipher"}, from : End, conn : Conns, n : 1..MaxData, pos : Nat]
Acts   == [port : Ports, of : Conns, how : {"buffer", "socket"}]
Contexts == [cltEnc : Nat, srvDec : Nat, srvEnc : Nat, cltDec : Nat]

TypeOK ==
    /\ port \in [Conns -> Ports \cup {0}]
    /\ app \in [Conns -> {"idle", "greeting", "asked", "told", "closed"}]
    /\ gone \subseteq Conns
    /\ cl \in [Conns -> {"none", "listed", "freed"}]
    /\ slot \in [Conns -> SUBSET Both]
    /\ on \in [Conns -> SUBSET Both]
    /\ job \in [Conns -> {"none", "queued", "requested", "done"}]
    /\ cqueue \in [CltThreads -> Seq(Conns)]
    /\ main \in [pc : {"idle", "greet", "srv", "reply"}, conn : Conns \cup {None}]
    /\ place \in [Conns -> {"none", "main", "refused", "queued", "connecting",
                            "lookup", "worker", "closed", "leaked"}]
    /\ srv \in [Conns -> {"none", "listed", "freed"}]
    /\ remote \in [Conns -> {"none", "open", "ended", "closed"}]
    /\ squeue \in [SrvThreads -> Seq(Conns)]
    /\ up \in [Conns -> Seq(Items)]
    /\ dn \in [Conns -> Seq(Items)]
    /\ ctl \in [net : Seq(Acts), buf : Seq(Acts)]
    /\ pos \in [Conns -> Contexts]
    /\ sent \in [End \X Conns -> 0..MaxData]
    /\ got \in [End \X Conns -> Seq(Chunks)]
    /\ alive \in BOOLEAN
    /\ session \in BOOLEAN
    /\ fault \in Faults

Idle == [pc |-> "idle", conn |-> None]

Init ==
    /\ port = [c \in Conns |-> 0]
    /\ app = [c \in Conns |-> "idle"]
    /\ gone = {}
    /\ cl = [c \in Conns |-> "none"]
    /\ slot = [c \in Conns |-> {}]
    /\ on = [c \in Conns |-> {}]
    /\ job = [c \in Conns |-> "none"]
    /\ cqueue = [th \in CltThreads |-> <<>>]
    /\ main = Idle
    /\ place = [c \in Conns |-> "none"]
    /\ srv = [c \in Conns |-> "none"]
    /\ remote = [c \in Conns |-> "none"]
    /\ squeue = [th \in SrvThreads |-> <<>>]
    /\ up = [c \in Conns |-> <<>>]
    /\ dn = [c \in Conns |-> <<>>]
    /\ ctl = [net |-> <<>>, buf |-> <<>>]
    /\ pos = [c \in Conns |-> [cltEnc |-> 0, srvDec |-> 0, srvEnc |-> 0, cltDec |-> 0]]
    /\ sent = [x \in End \X Conns |-> 0]
    /\ got = [x \in End \X Conns |-> <<>>]
    /\ alive = TRUE
    /\ session = TRUE
    /\ fault = "none"

-----------------------------------------------------------------------------
(* Lists, threads, channels, streams.                                      *)

ScListed == {c \in Conns : cl[c] = "listed"}
SsListed == {c \in Conns : srv[c] = "listed"}

\* sc_find_trans and ss_find_trans
ScFind(p) == {c \in ScListed : port[c] = p}
SsFind(p) == {c \in SsListed : port[c] = p}

CltThread(c) == port[c] % ClientThreads
SrvThread(c) == port[c] % ServerThreads

\* A worker in thread_process runs no other callback of its loop.
CltFree(th) == \A c \in Conns : job[c] = "requested" => CltThread(c) # th
SrvFree(th) == \A c \in Conns : place[c] = "connecting" => SrvThread(c) # th

\* The SS5 header is written by write(), so it is not lost with the output of
\* a bufferevent that is freed.
Kept(ch, S) ==
    {k \in [S -> 0..(MaxData + 2)] : \A c \in S :
        /\ k[c] <= Len(ch[c])
        /\ ch[c] # <<>> /\ Head(ch[c]) \in {Req, ErrHead} => k[c] >= 1}

\* Faulty: the socket stays open.
CutOpen(ch, S, k) == [c \in Conns |-> IF c \in S THEN SubSeq(ch[c], 1, k[c]) ELSE ch[c]]

Cut(ch, S, k) == [c \in Conns |-> IF c \in S THEN Append(SubSeq(ch[c], 1, k[c]), Fin)
                                             ELSE ch[c]]
Drop(ch, S)   == [c \in Conns |-> IF c \in S THEN <<>> ELSE ch[c]]
Ended(q)      == q # <<>> /\ q[Len(q)] = Fin

\* What is written to a client that has closed its end goes nowhere.
Down(c, x) == dn' = IF cl[c] = "freed" THEN dn ELSE [dn EXCEPT ![c] = Append(@, x)]

Decrypt(x, k) == IF x.tag = "cipher" /\ x.pos = k THEN Plain(x.from, x.conn, x.n)
                                                  ELSE Garbage

-----------------------------------------------------------------------------
(* Freeing.                                                                *)

\* sc_free_trans.  The application's socket is closed with local_bev, and
\* stays open, with nobody to read it, where local_bev was not set yet.
ScFree(S) ==
    LET open == {c \in S : "srv" \in slot[c]} IN
    \E k \in Kept(up, open) :
        /\ cl' = [c \in Conns |-> IF c \in S THEN "freed" ELSE cl[c]]
        /\ app' = [c \in Conns |-> IF c \in S /\ "local" \in slot[c] THEN "closed"
                                                                     ELSE app[c]]
        /\ slot' = [c \in Conns |-> IF c \in S THEN {} ELSE slot[c]]
        /\ on' = [c \in Conns |-> IF c \in S THEN {} ELSE on[c]]
        /\ up' = Cut(up, open, k)
        /\ dn' = Drop(dn, open)

\* ss_free_trans: the data and the remote connection are closed where the
\* trans has its two bufferevents.
SsFree(S) ==
    LET open == {c \in S : place[c] = "worker"} IN
    \E k \in Kept(dn, open) :
        /\ srv' = [c \in Conns |-> IF c \in S THEN "freed" ELSE srv[c]]
        /\ place' = [c \in Conns |-> IF c \in open THEN "closed" ELSE place[c]]
        /\ remote' = [c \in Conns |-> IF c \in open THEN "closed" ELSE remote[c]]
        /\ dn' = Cut(dn, {c \in open : cl[c] # "freed"}, k)
        /\ up' = Drop(up, open)

\* bev_d still points to the bufferevent that ss_main_handle_ss5 has freed.
Dangling == {c \in SsListed : place[c] # "worker"}

-----------------------------------------------------------------------------
(* The client's main loop.                                                 *)

Drained(p) ==
    \A c \in Conns : port[c] = p =>
        /\ app[c] = "closed" /\ cl[c] # "listed" /\ srv[c] # "listed"
        /\ place[c] \in {"none", "closed", "leaked"}

\* ss5_accept_conn_cb: the socket is blocking, the loop waits for the
\* application's request.
Accept(c, p) ==
    /\ alive /\ main = Idle /\ port[c] = 0
    /\ EarlyReuse \/ Drained(p)
    /\ port' = [port EXCEPT ![c] = p]
    /\ app' = [app EXCEPT ![c] = "greeting"]
    /\ main' = [pc |-> "greet", conn |-> c]
    /\ UNCHANGED <<gone, transVars, job, cqueue, srvVars, up, dn, ctl, streamVars,
                   lifeVars, fault>>

\* No SOCKS5 request came, or the port is still on the list.
GreetRefused(c) ==
    /\ main = [pc |-> "greet", conn |-> c]
    /\ app' = [app EXCEPT ![c] = "closed"]
    /\ main' = Idle
    /\ UNCHANGED <<port, gone, transVars, job, cqueue, srvVars, up, dn, ctl,
                   streamVars, lifeVars, fault>>

GreetOk(c) ==
    /\ main = [pc |-> "greet", conn |-> c]
    /\ ScFind(port[c]) = {}
    /\ app' = [app EXCEPT ![c] = "asked"]
    /\ cl' = [cl EXCEPT ![c] = "listed"]
    /\ job' = [job EXCEPT ![c] = "queued"]
    /\ cqueue' = [cqueue EXCEPT ![CltThread(c)] = Append(@, c)]
    /\ main' = Idle
    /\ UNCHANGED <<port, gone, slot, on, srvVars, up, dn, ctl, streamVars, lifeVars,
                   fault>>

\* srv_bufferread_cb takes one header, however many have arrived.
ReadHead(n) ==
    ctl' = [net |-> SubSeq(ctl.net, n + 1, Len(ctl.net)),
            buf |-> Tail(ctl.buf \o SubSeq(ctl.net, 1, n))]
HeadOf(n) == Head(ctl.buf \o SubSeq(ctl.net, 1, n))

\* Faulty: both bufferevents are enabled at once.
ActLocalBoth ==
    /\ alive /\ main = Idle
    /\ \E n \in 1..MaxBatch :
          /\ n <= Len(ctl.net)
          /\ ReadHead(n)
          /\ \E c \in ScFind(HeadOf(n).port) :
                /\ slot[c] = Both
                /\ on' = [on EXCEPT ![c] = Both]
                /\ main' = [pc |-> "srv", conn |-> c]
    /\ UNCHANGED <<appVars, cl, slot, job, cqueue, srvVars, up, dn, streamVars,
                   lifeVars, fault>>

\* HD_CMD_SS5_ACT, in the three calls it makes on the trans it finds.
ActLocal ==
    /\ alive /\ main = Idle
    /\ \E n \in 1..MaxBatch :
          /\ n <= Len(ctl.net)
          /\ ReadHead(n)
          /\ LET found == ScFind(HeadOf(n).port) IN
             \/ found = {} /\ UNCHANGED <<on, main, fault>>
             \/ \E c \in found :
                   /\ "local" \in slot[c]
                   /\ on' = [on EXCEPT ![c] = @ \cup {"local"}]
                   /\ main' = [pc |-> "srv", conn |-> c]
                   /\ UNCHANGED fault
             \/ /\ \E c \in found : "local" \notin slot[c]
                /\ fault' = "null_bev"
                /\ UNCHANGED <<on, main>>
    /\ UNCHANGED <<appVars, cl, slot, job, cqueue, srvVars, up, dn, streamVars,
                   lifeVars>>

ActSrv ==
    /\ main.pc = "srv"
    /\ LET c == main.conn IN
       \/ /\ cl[c] = "listed" /\ "srv" \in slot[c]
          /\ on' = [on EXCEPT ![c] = @ \cup {"srv"}]
          /\ main' = [main EXCEPT !.pc = "reply"]
          /\ UNCHANGED fault
       \/ /\ cl[c] = "listed" /\ "srv" \notin slot[c]
          /\ fault' = "null_bev"
          /\ UNCHANGED <<on, main>>
       \/ /\ cl[c] = "freed"
          /\ fault' = "client_freed"
          /\ UNCHANGED <<on, main>>
    /\ UNCHANGED <<appVars, cl, slot, job, cqueue, srvVars, up, dn, ctl, streamVars,
                   lifeVars>>

\* The SOCKS5 reply goes to the application.
ActReply ==
    /\ main.pc = "reply"
    /\ LET c == main.conn IN
       \/ /\ cl[c] = "listed"
          /\ app' = [app EXCEPT ![c] = "told"]
          /\ main' = Idle
          /\ UNCHANGED fault
       \/ /\ cl[c] = "freed"
          /\ fault' = "client_freed"
          /\ UNCHANGED <<app, main>>
    /\ UNCHANGED <<port, gone, transVars, job, cqueue, srvVars, up, dn, ctl,
                   streamVars, lifeVars>>

\* The client's part in the session is over: its process ends, or
\* srv_bufferevent_cb sees the control channel closed and frees all trans.
Leave ==
    /\ alive /\ main = Idle
    /\ MayEnd \/ ~session
    /\ ScFree(ScListed)
    /\ alive' = FALSE
    /\ UNCHANGED <<port, gone, cltVars, srvVars, ctl, streamVars, session, fault>>

-----------------------------------------------------------------------------
(* The client's workers.                                                   *)

\* thread_process takes an item of the queue and connects to the server.  The
\* main loop may have freed the trans of the item.
CltTakeStale(th) ==
    /\ cqueue[th] # <<>> /\ CltFree(th)
    /\ cl[Head(cqueue[th])] = "freed"
    /\ fault' = "client_freed"
    /\ UNCHANGED <<appVars, transVars, cltVars, srvVars, up, dn, ctl, streamVars,
                   lifeVars>>

\* Faulty: the item stays in the queue.
CltGiveUpKeepsItem(th) ==
    /\ cqueue[th] # <<>> /\ CltFree(th)
    /\ LET c == Head(cqueue[th]) IN
       /\ cl[c] = "listed"
       /\ ScFree({c})
       /\ job' = [job EXCEPT ![c] = "done"]
    /\ UNCHANGED <<port, gone, cqueue, main, srvVars, ctl, streamVars, lifeVars, fault>>

\* sc_connect_srv fails, or the request is too long for one RSA block: the
\* trans is freed, the application's socket is forgotten.
CltGiveUp(th) ==
    /\ cqueue[th] # <<>> /\ CltFree(th)
    /\ LET c == Head(cqueue[th]) IN
       /\ cl[c] = "listed"
       /\ ScFree({c})
       /\ job' = [job EXCEPT ![c] = "done"]
    /\ cqueue' = [cqueue EXCEPT ![th] = Tail(@)]
    /\ UNCHANGED <<port, gone, main, srvVars, ctl, streamVars, lifeVars, fault>>

\* sc_daemon_ss5_init_srv writes the request and waits for no answer.
CltRequest(th) ==
    /\ cqueue[th] # <<>> /\ CltFree(th)
    /\ LET c == Head(cqueue[th]) IN
       /\ cl[c] = "listed"
       /\ job' = [job EXCEPT ![c] = "requested"]
       /\ up' = [up EXCEPT ![c] = <<Req>>]
       /\ place' = [place EXCEPT ![c] = "main"]
    /\ cqueue' = [cqueue EXCEPT ![th] = Tail(@)]
    /\ UNCHANGED <<appVars, transVars, main, srv, remote, squeue, dn, ctl,
                   streamVars, lifeVars, fault>>

\* Only now are p_trans->local_bev and p_trans->srv_bev assigned; the trans may
\* have been freed meanwhile.
CltBevs(c) ==
    /\ job[c] = "requested"
    /\ \/ /\ cl[c] = "listed"
          /\ job' = [job EXCEPT ![c] = "done"]
          /\ slot' = [slot EXCEPT ![c] = Both]
          /\ UNCHANGED fault
       \/ /\ cl[c] = "freed"
          /\ fault' = "client_freed"
          /\ UNCHANGED <<job, slot>>
    /\ UNCHANGED <<appVars, cl, on, cqueue, main, srvVars, up, dn, ctl, streamVars,
                   lifeVars>>

\* ss5_bufferread_cb_enc on local_bev: a chunk of the application.
CltUp(c) ==
    /\ "local" \in on[c] /\ CltFree(CltThread(c))
    /\ app[c] = "told" /\ c \notin gone /\ sent[<<"app", c>>] < MaxData
    /\ IF "srv" \in slot[c]
         THEN /\ sent' = [sent EXCEPT ![<<"app", c>>] = @ + 1]
              /\ pos' = [pos EXCEPT ![c].cltEnc = @ + 1]
              /\ up' = IF place[c] = "closed" THEN up
                       ELSE [up EXCEPT ![c] = Append(@,
                               Cipher("app", c, sent[<<"app", c>>] + 1, pos[c].cltEnc))]
              /\ UNCHANGED fault
         ELSE /\ fault' = "wrong_leg"
              /\ UNCHANGED <<sent, pos, up>>
    /\ UNCHANGED <<appVars, transVars, cltVars, srvVars, dn, ctl, got, lifeVars>>

\* ss5_bufferread_cb_enc on srv_bev: a chunk of the server.
CltDown(c) ==
    /\ "srv" \in on[c] /\ CltFree(CltThread(c))
    /\ dn[c] # <<>> /\ Head(dn[c]) # Fin
    /\ IF "local" \in slot[c]
         THEN /\ dn' = [dn EXCEPT ![c] = Tail(@)]
              /\ pos' = [pos EXCEPT ![c].cltDec = @ + 1]
              /\ got' = [got EXCEPT ![<<"app", c>>] =
                            Append(@, Decrypt(Head(dn[c]), pos[c].cltDec))]
              /\ UNCHANGED fault
         ELSE /\ fault' = "wrong_leg"
              /\ UNCHANGED <<dn, pos, got>>
    /\ UNCHANGED <<appVars, transVars, cltVars, srvVars, up, ctl, sent, lifeVars>>

\* ss5_bufferevent_cb, EOF or ERROR of either side.
CltEof(c) ==
    /\ CltFree(CltThread(c))
    /\ \/ "local" \in on[c] /\ c \in gone
       \/ "srv" \in on[c] /\ Ended(dn[c])
    /\ ScFree({c})
    /\ UNCHANGED <<port, gone, cltVars, srvVars, ctl, streamVars, lifeVars, fault>>

-----------------------------------------------------------------------------
(* The server's main loop.                                                 *)

HasReq(c) == place[c] = "main" /\ up[c] # <<>> /\ Head(up[c]) = Req

\* ss_main_handle_ss5
SrvSs5(c) ==
    /\ HasReq(c) /\ session /\ SsFind(port[c]) = {}
    /\ up' = [up EXCEPT ![c] = Tail(@)]
    /\ place' = [place EXCEPT ![c] = "queued"]
    /\ srv' = [srv EXCEPT ![c] = "listed"]
    /\ squeue' = [squeue EXCEPT ![SrvThread(c)] = Append(@, c)]
    /\ UNCHANGED <<appVars, transVars, cltVars, remote, dn, ctl, streamVars, lifeVars,
                   fault>>

\* ... without a session, or with the port still listed: the ERROR goes back
\* on the data connection, which nobody at the client reads yet.
SrvRefuse(c) ==
    /\ HasReq(c) /\ (session => SsFind(port[c]) # {})
    /\ up' = [up EXCEPT ![c] = Tail(@)]
    /\ place' = [place EXCEPT ![c] = "refused"]
    /\ Down(c, ErrHead)
    /\ UNCHANGED <<appVars, transVars, cltVars, srv, remote, squeue, ctl, streamVars,
                   lifeVars, fault>>

\* SS5_ACT, written to the bufferevent or to its socket.
Act(c, how) == [port |-> port[c], of |-> c, how |-> how]

\* bufferevent_write puts it behind all others, write() ahead of those that the
\* bufferevent has not written yet.
Tell(c, how) ==
    LET net == ctl.net IN
    \E k \in 0..Len(net) :
        /\ how = "buffer" => k = Len(net)
        /\ \A i \in (k + 1)..Len(net) : net[i].how = "buffer"
        /\ ctl' = [ctl EXCEPT !.net =
                      SubSeq(net, 1, k) \o <<Act(c, how)>> \o SubSeq(net, k + 1, Len(net))]

\* Faulty: SS5_ACT without its port, and no SS5_ACT.
OpenNoPort(c, how) ==
    /\ place' = [place EXCEPT ![c] = "worker"]
    /\ remote' = [remote EXCEPT ![c] = "open"]
    /\ ctl' = IF alive THEN [ctl EXCEPT !.net = Append(@, [Act(c, how) EXCEPT !.port = 0])]
                       ELSE ctl
OpenSilent(c, how) ==
    /\ place' = [place EXCEPT ![c] = "worker"]
    /\ remote' = [remote EXCEPT ![c] = "open"]
    /\ UNCHANGED ctl

\* Both bufferevents are in place and enabled, SS5_ACT goes to the client.
Open(c, how) ==
    /\ place' = [place EXCEPT ![c] = "worker"]
    /\ remote' = [remote EXCEPT ![c] = "open"]
    /\ IF alive THEN Tell(c, how) ELSE UNCHANGED ctl

\* dns_query_cb: no address, or none that accepts a connection.  The data
\* connection is not closed and the trans stays listed.
LookupFails(c) ==
    /\ place[c] = "lookup"
    /\ place' = [place EXCEPT ![c] = "leaked"]
    /\ UNCHANGED <<appVars, transVars, cltVars, srv, remote, squeue, up, dn, ctl,
                   streamVars, lifeVars, fault>>

\* dns_query_cb: an address accepts the connection.  SS5_ACT goes to the socket.
LookupOk(c) ==
    /\ place[c] = "lookup"
    /\ IF srv[c] = "listed" THEN Open(c, "socket") /\ UNCHANGED fault
       ELSE fault' = "server_freed" /\ UNCHANGED <<place, remote, ctl>>
    /\ UNCHANGED <<appVars, transVars, cltVars, srv, squeue, up, dn, streamVars,
                   lifeVars>>

\* main_bufferevent_cb and ss_free_all_trans: the session ends.  Freeing a
\* bufferevent again may go unnoticed.
SessionEnds ==
    /\ session /\ (MayEnd \/ ~alive)
    /\ session' = FALSE
    /\ \/ SsFree(SsListed) /\ UNCHANGED fault
       \/ /\ Dangling # {}
          /\ fault' = "double_free"
          /\ UNCHANGED <<srv, place, remote, up, dn>>
    /\ UNCHANGED <<appVars, transVars, cltVars, squeue, ctl, streamVars, alive>>

-----------------------------------------------------------------------------
(* The server's workers.                                                   *)

\* thread_process, 'S': an address is connected to at once, a name is looked
\* up by the main loop.
SrvTake(th) ==
    /\ squeue[th] # <<>> /\ SrvFree(th)
    /\ squeue' = [squeue EXCEPT ![th] = Tail(@)]
    /\ LET c == Head(squeue[th]) IN
       IF srv[c] = "listed"
         THEN /\ \E w \in {"connecting", "lookup"} : place' = [place EXCEPT ![c] = w]
              /\ UNCHANGED fault
         ELSE fault' = "server_freed" /\ UNCHANGED place
    /\ UNCHANGED <<appVars, transVars, cltVars, srv, remote, up, dn, ctl, streamVars,
                   lifeVars>>

\* Faulty: SS5_ACT is sent whether the connect succeeds or not.
ConnectFailsActs(c) ==
    /\ place[c] = "connecting"
    /\ place' = [place EXCEPT ![c] = "closed"]
    /\ up' = [up EXCEPT ![c] = <<>>]
    /\ Down(c, Fin)
    /\ ctl' = [ctl EXCEPT !.net = Append(@, Act(c, "buffer"))]
    /\ UNCHANGED <<appVars, transVars, cltVars, srv, remote, squeue, streamVars,
                   lifeVars, fault>>

\* ss_connect_srv fails: the data connection is closed, the trans stays.
ConnectFails(c) ==
    /\ place[c] = "connecting"
    /\ place' = [place EXCEPT ![c] = "closed"]
    /\ up' = [up EXCEPT ![c] = <<>>]
    /\ Down(c, Fin)
    /\ UNCHANGED <<appVars, transVars, cltVars, srv, remote, squeue, ctl, streamVars,
                   lifeVars, fault>>

\* ss_connect_srv succeeds.  The socket is read from the C_ITEM just freed,
\* which may still hold it or not.
ConnectOk(c) ==
    /\ place[c] = "connecting"
    /\ \/ srv[c] = "listed" /\ Open(c, "buffer") /\ UNCHANGED fault
       \/ /\ fault' = IF srv[c] = "listed" THEN "freed_item" ELSE "server_freed"
          /\ UNCHANGED <<place, remote, ctl>>
    /\ UNCHANGED <<appVars, transVars, cltVars, srv, squeue, up, dn, streamVars,
                   lifeVars>>

\* Faulty: decrypts with ctx_enc.
SrvUpWrongContext(c) ==
    /\ place[c] = "worker" /\ SrvFree(SrvThread(c))
    /\ up[c] # <<>> /\ Head(up[c]) # Fin
    /\ up' = [up EXCEPT ![c] = Tail(@)]
    /\ pos' = [pos EXCEPT ![c].srvEnc = @ + 1]
    /\ got' = [got EXCEPT ![<<"remote", c>>] =
                  Append(@, Decrypt(Head(up[c]), pos[c].srvEnc))]
    /\ UNCHANGED <<appVars, transVars, cltVars, srvVars, dn, ctl, sent, lifeVars, fault>>

\* thread_bufferread_cb_enc on bev_d
SrvUp(c) ==
    /\ place[c] = "worker" /\ SrvFree(SrvThread(c))
    /\ up[c] # <<>> /\ Head(up[c]) # Fin
    /\ up' = [up EXCEPT ![c] = Tail(@)]
    /\ pos' = [pos EXCEPT ![c].srvDec = @ + 1]
    /\ got' = [got EXCEPT ![<<"remote", c>>] =
                  Append(@, Decrypt(Head(up[c]), pos[c].srvDec))]
    /\ UNCHANGED <<appVars, transVars, cltVars, srvVars, dn, ctl, sent, lifeVars, fault>>

\* thread_bufferread_cb_enc on bev_u: a chunk of the remote host.
SrvDown(c) ==
    /\ place[c] = "worker" /\ SrvFree(SrvThread(c))
    /\ remote[c] = "open" /\ sent[<<"remote", c>>] < MaxData
    /\ sent' = [sent EXCEPT ![<<"remote", c>>] = @ + 1]
    /\ pos' = [pos EXCEPT ![c].srvEnc = @ + 1]
    /\ Down(c, Cipher("remote", c, sent[<<"remote", c>>] + 1, pos[c].srvEnc))
    /\ UNCHANGED <<appVars, transVars, cltVars, srvVars, up, ctl, got, lifeVars, fault>>

\* thread_bufferevent_cb, EOF or ERROR of either side.
SrvEof(c) ==
    /\ place[c] = "worker" /\ SrvFree(SrvThread(c))
    /\ remote[c] = "ended" \/ Ended(up[c])
    /\ SsFree({c})
    /\ UNCHANGED <<appVars, transVars, cltVars, squeue, ctl, streamVars, lifeVars, fault>>

-----------------------------------------------------------------------------
(* Applications and remote hosts.                                          *)

AppCloses(c) ==
    /\ app[c] \in {"asked", "told"} /\ c \notin gone
    /\ gone' = gone \cup {c}
    /\ UNCHANGED <<port, app, transVars, cltVars, srvVars, up, dn, ctl, streamVars,
                   lifeVars, fault>>

RemoteCloses(c) ==
    /\ remote[c] = "open"
    /\ remote' = [remote EXCEPT ![c] = "ended"]
    /\ UNCHANGED <<appVars, transVars, cltVars, place, srv, squeue, up, dn, ctl,
                   streamVars, lifeVars, fault>>

-----------------------------------------------------------------------------
(* The four kinds of event loop, and what applications, hosts and operators *)
(* decide.                                                                 *)
CltMainLoop == ActLocal \/ ActSrv \/ ActReply \/ (~session /\ Leave)

CltWorkerLoop(th) ==
    \/ CltTakeStale(th) \/ CltGiveUp(th) \/ CltRequest(th)
    \/ \E c \in Conns : CltThread(c) = th /\ (CltBevs(c) \/ CltDown(c) \/ CltEof(c))

SrvMainLoop ==
    \/ \E c \in Conns : SrvSs5(c) \/ SrvRefuse(c) \/ LookupFails(c) \/ LookupOk(c)
    \/ ~alive /\ SessionEnds

SrvWorkerLoop(th) ==
    \/ SrvTake(th)
    \/ \E c \in Conns : SrvThread(c) = th /\
          (ConnectFails(c) \/ ConnectOk(c) \/ SrvUp(c) \/ SrvEof(c))

Environment ==
    \/ \E c \in Conns, p \in Ports : Accept(c, p)
    \/ \E c \in Conns : \/ GreetRefused(c) \/ GreetOk(c) \/ AppCloses(c)
                        \/ RemoteCloses(c) \/ CltUp(c) \/ SrvDown(c)
    \/ Leave \/ SessionEnds

Ok   == fault = "none"
Next ==
    /\ Ok
    /\ \/ CltMainLoop \/ SrvMainLoop
       \/ \E th \in CltThreads : CltWorkerLoop(th)
       \/ \E th \in SrvThreads : SrvWorkerLoop(th)
       \/ Environment

Spec == Init /\ [][Next]_vars

\* Every loop goes on while one of its callbacks is ready; lookups and
\* connect() come to an end.  An application may keep the client's main loop
\* waiting for its request for ever.
Fairness ==
    /\ WF_vars(Ok /\ CltMainLoop)
    /\ WF_vars(Ok /\ SrvMainLoop)
    /\ \A th \in CltThreads : WF_vars(Ok /\ CltWorkerLoop(th))
    /\ \A th \in SrvThreads : WF_vars(Ok /\ SrvWorkerLoop(th))

FairSpec == Spec /\ Fairness

-----------------------------------------------------------------------------
(* Safety.                                                                 *)

\* A source port names at most one trans on either list.
UniquePorts ==
    \A b, c \in Conns : b # c /\ port[b] = port[c] =>
        ~(b \in ScListed /\ c \in ScListed) /\ ~(b \in SsListed /\ c \in SsListed)

\* An application is told that it may begin only when the server has
\* connected to the host that this very connection asked for, although the
\* SS5_ACT comes on another connection and names a port only.
ToldIsConnected == \A c \in Conns : app[c] = "told" => remote[c] # "none"

\* Nothing from the remote host reaches the application before the SOCKS5
\* reply, but for the moment in which the main loop has enabled srv_bev and
\* not yet written the reply.
ReplyFirst ==
    \A c \in Conns : got[<<"app", c>>] # <<>> /\ app[c] = "asked" =>
        main = [pc |-> "reply", conn |-> c]

\* A proxied connection is a connection of Relay: what one end sends reaches
\* the other in order, whole and decrypted at the position it was encrypted
\* at, until the connection breaks.
relayPhase ==
    [c \in Conns |-> IF cl[c] = "freed" \/ place[c] = "closed" THEN "broken"
                     ELSE IF place[c] = "worker" THEN "open" ELSE "idle"]

OfConn(x)   == IF x.tag = "garbage" THEN Garbage ELSE [from |-> <<x.from, x.conn>>, n |-> x.n]
Skipped(q)  == IF q # <<>> /\ Head(q) \in {Req, ErrHead} THEN 1 ELSE 0
OnWire(q)   ==   \* without the header at the front and the end of file
    LET last == IF Ended(q) THEN Len(q) - 1 ELSE Len(q)
    IN  [k \in 1..(last - Skipped(q)) |-> OfConn(q[Skipped(q) + k])]
Received(q) == [k \in 1..Len(q) |-> OfConn(q[k])]

relayWire ==
    [x \in End \X Conns |->
        CASE x[1] = "app"    -> IF place[x[2]] = "closed" THEN <<>> ELSE OnWire(up[x[2]])
          [] x[1] = "remote" -> IF cl[x[2]] = "freed" THEN <<>> ELSE OnWire(dn[x[2]])]
relayGot ==
    [x \in End \X Conns |-> Received(got[<<IF x[1] = "app" THEN "remote" ELSE "app", x[2]>>])]

Ss5Relay == INSTANCE Relay WITH Ends <- End, phase <- relayPhase,
                                wire <- relayWire, got <- relayGot
ImplementsRelay == Ss5Relay!Spec

\* Which invalid access needs what: the server's only the end of the session,
\* the client's a worker that is overtaken by SS5_ACT, an end that closes
\* while SS5_ACT is handled, or the end of the session.  The checks in the
\* relaying callbacks ("WRRRRRR!") cannot fail.
NoAbort ==
    /\ fault # "wrong_leg"
    /\ fault \in {"server_freed", "double_free"} => ~session
    /\ fault = "null_bev" => \E c \in Conns : job[c] = "requested"
    /\ fault = "client_freed" =>
          \/ ~alive
          \/ main # Idle /\ (main.conn \in gone \/ remote[main.conn] \in {"ended", "closed"})

-----------------------------------------------------------------------------
(* Liveness.                                                               *)

\* The ways in which an application can be left without an answer: the
\* connection was given up at the server or the client, its SS5_ACT lies
\* behind another header, an application that says nothing keeps the main
\* loop.
Unanswered(c) ==
    \/ place[c] \in {"refused", "closed", "leaked"}
    \/ cl[c] = "freed"
    \/ \E k \in 1..Len(ctl.buf) : ctl.buf[k].of = c
    \/ main.pc = "greet"

\* Every request is answered, or is left for one of those reasons.
Answered ==
    \A c \in Conns : app[c] = "asked" ~>
        app[c] \in {"told", "closed"} \/ Unanswered(c) \/ fault # "none"

\* Once the application has been told to begin, the end of either side is the
\* end of the other and of both trans.
Closes ==
    \A c \in Conns : app[c] = "told" /\ (c \in gone \/ remote[c] = "ended") ~>
        \/ app[c] = "closed" /\ remote[c] = "closed" /\ cl[c] = "freed" /\ srv[c] = "freed"
        \/ fault # "none"
=============================================================================
