------------------------------ MODULE DnsProxy ------------------------------
(***************************************************************************)
(* The DNS proxy of a DAEMON client.  Applications of the DAEMON's host    *)
(* ask it over UDP; the questions go through one encrypted TCP connection  *)
(* to the server, whose worker asks a name server over UDP; the answers    *)
(* come back the same way, and the table dns_transid_port_map tells the    *)
(* client which application asked.  The TCP connection has no framing: one *)
(* read makes one datagram, whatever has arrived.                          *)
(*                                                                         *)
(* Three event loops take part: the client's, the server's main loop and   *)
(* the worker of dns_port.  One action is one callback.                    *)
(***************************************************************************)
EXTENDS Integers, Sequences

CONSTANTS
    Queries,     \* the questions, each asked once
    Ids,         \* transaction ids that applications use, <<high, low>> byte
    App,         \* App[q]: the application (its UDP port) that asks q
    Unset,       \* what malloc leaves in an entry of the table: no application
    MaxBatch,    \* control headers that one read event may bring
    MaxOther,    \* bound: other headers on the control channel
    MaxLogins,   \* bound: logins of the DAEMON
    MayExit,     \* the DAEMON's process may end
    MayEnd,      \* the USR client of the session may leave
    MayBreak,    \* the data connection may be reset
    MayRefuse    \* the server may refuse the request

Byte == 0..255

ASSUME IdsAssumption    == Ids \subseteq Byte \X Byte
ASSUME AppAssumption    == \A q \in Queries : App[q] # Unset
ASSUME BoundsAssumption == /\ MaxBatch \in Nat \ {0} /\ MaxLogins \in Nat \ {0}
                           /\ MaxOther \in Nat
ASSUME SwitchAssumption == {MayExit, MayEnd, MayBreak, MayRefuse} \subseteq BOOLEAN

Apps == {App[q] : q \in Queries}

VARIABLES
    id,         \* id[q]: the transaction id of q
    udpq,       \* questions in the buffer of the client's UDP socket
    asked,      \* questions that applications have asked
    udp,        \* the UDP event has been added to the client's loop
    trans,      \* the PORTTRANS of dns_port: created, enabled, freed
    table,      \* dns_transid_port_map, where the questions point into it
    place,      \* who holds the server's end of the data connection
    srv,        \* the TRANS_ITEM of dns_port in the server
    up, dn,     \* the data connection: client to server, server to client
    pending,    \* datagrams that the name server has got
    answers,    \* answers in the buffer of extra_ev's socket in the server
    delivered,  \* history: datagrams the client has sent to applications
    ctl,        \* the control channel: in the net, and read by libevent
    others,     \* other headers the server has put on it
    login,      \* number of the DAEMON's login
    session,    \* login whose ACTIV_ITEM the server has, 0 for none
    alive,      \* the client's process lives
    broken,     \* the data connection has been reset
    fault       \* the invalid memory access that has ended a process

askVars  == <<udpq, asked>>
cltVars  == <<udp, trans, table, delivered>>
srvVars  == <<place, srv, pending, answers>>
lifeVars == <<login, session, alive, broken>>
vars == <<id, askVars, cltVars, srvVars, up, dn, ctl, others, lifeVars, fault>>

\* A DNS message is a head, which holds the id, and the rest.
Head1(q)   == [of |-> q, part |-> "head"]
Rest(q)    == [of |-> q, part |-> "rest"]
Message(q) == <<Head1(q), Rest(q)>>
Fin        == [part |-> "fin"]
Cells      == [of : Queries, part : {"head", "rest"}]
Items      == Cells \cup {Fin}
Faults     == {"none", "null_trans", "client_freed", "server_freed", "double_free",
               "overrun"}

-----------------------------------------------------------------------------
(* The table.                                                              *)

TableSize == 65535      \* 0xFFFF

\* dat[0]<<8 | dat[1] with signed chars, cut to an unsigned short: a low byte
\* of 0x80 or more is extended over the high byte.
Index(x) == IF x[2] >= 128 THEN 255 * 256 + x[2] ELSE x[1] * 256 + x[2]
Slot(q)  == Index(id[q])
Slots    == {Index(x) : x \in Ids}

TypeOK ==
    /\ id \in [Queries -> Ids]
    /\ udpq \in Seq(Queries) /\ asked \subseteq Queries
    /\ udp \in BOOLEAN
    /\ trans \in {"waiting", "serving", "freed"}
    /\ table \in [Slots -> Apps \cup {Unset}]
    /\ place \in {"main", "refused", "queued", "worker", "closed"}
    /\ srv \in {"none", "listed", "freed"}
    /\ up \in Seq(Items) /\ dn \in Seq(Items)
    /\ pending \subseteq Seq(Cells) /\ answers \subseteq Queries
    /\ delivered \subseteq [to : Apps \cup {Unset}, cells : Seq(Cells)]
    /\ ctl \in [net : Seq({"dns", "other"}), buf : Seq({"dns", "other"})]
    /\ others \in 0..MaxOther
    /\ login \in 1..MaxLogins /\ session \in 0..MaxLogins
    /\ alive \in BOOLEAN /\ broken \in BOOLEAN
    /\ fault \in Faults

\* main() of the client has logged in, created the trans and its UDP event,
\* connected to the server and written the request (sc_daemon_dns_init_srv).
Init ==
    /\ id \in [Queries -> Ids]
    /\ udpq = <<>> /\ asked = {}
    /\ udp = FALSE /\ trans = "waiting"
    /\ table = [n \in Slots |-> Unset]
    /\ place = "main" /\ srv = "none"
    /\ up = <<>> /\ dn = <<>>
    /\ pending = {} /\ answers = {} /\ delivered = {}
    /\ ctl = [net |-> <<>>, buf |-> <<>>] /\ others = 0
    /\ login = 1 /\ session = 1
    /\ alive = TRUE /\ broken = FALSE
    /\ fault = "none"

-----------------------------------------------------------------------------
(* The data connection.                                                    *)

\* Freeing a bufferevent discards the output it has not yet written.
CutShort(q) == {Append(SubSeq(q, 1, k), Fin) : k \in 0..Len(q)}
Ended(q)    == q # <<>> /\ q[Len(q)] = Fin

\* Faulty: the end of the stream is passed on with the data.
ReadsAll(q) == 1..Len(q)

\* What one read event has brought: the first cells of the stream, at most
\* FRAME_SIZE bytes, which the callback takes as one frame.
Reads(q) == {k \in 1..Len(q) : \A i \in 1..k : q[i] # Fin}

\* The client closes its end with the trans.
ScFree ==
    /\ trans' = "freed"
    /\ up' \in IF trans # "freed" /\ ~broken THEN CutShort(up) ELSE {up}
    /\ dn' = IF trans # "freed" THEN <<>> ELSE dn

\* The server closes its end with the trans; extra_ev stays in the loop of the
\* worker.
SsFree ==
    /\ srv' = "freed"
    /\ place' = "closed"
    /\ dn' \in IF trans # "freed" /\ ~broken THEN CutShort(dn) ELSE {dn}
    /\ up' = <<>>

-----------------------------------------------------------------------------
(* The applications and the name server.                                   *)

Ask(q) ==
    /\ q \notin asked
    /\ asked' = asked \cup {q}
    /\ udpq' = Append(udpq, q)
    /\ UNCHANGED <<id, cltVars, srvVars, up, dn, ctl, others, lifeVars, fault>>

\* The name server answers the question a datagram begins with, if it is whole.
NameServer(d) ==
    /\ d \in pending
    /\ Len(d) >= 2 /\ SubSeq(d, 1, 2) = Message(d[1].of)
    /\ pending' = pending \ {d}
    /\ answers' = answers \cup {d[1].of}
    /\ UNCHANGED <<id, askVars, cltVars, place, srv, up, dn, ctl, others, lifeVars, fault>>

-----------------------------------------------------------------------------
(* The client's loop.                                                      *)

Record(q) == table' = [table EXCEPT ![Slot(q)] = App[q]]

\* dns_client_to_proxy_cb.  The event outlives the trans it points to, and
\* the last index is one past the table.
ClientAsk ==
    /\ alive /\ udp /\ udpq # <<>>
    /\ udpq' = Tail(udpq)
    /\ LET q == Head(udpq) IN
       \/ /\ trans = "serving"
          /\ Record(q)
          /\ up' = IF place = "closed" \/ broken THEN up ELSE up \o Message(q)
          /\ UNCHANGED fault
       \/ /\ trans = "serving" /\ Slot(q) >= TableSize
          /\ fault' = "overrun"
          /\ UNCHANGED <<table, up>>
       \/ /\ trans = "freed"
          /\ fault' = "client_freed"
          /\ UNCHANGED <<table, up>>
    /\ UNCHANGED <<id, asked, udp, trans, delivered, srvVars, dn, ctl, others, lifeVars>>

\* Faulty: the bytes are unsigned here, and signed in dns_client_to_proxy_cb.
AddresseesUnsigned(d) ==
    LET n == id[d[1].of][1] * 256 + id[d[1].of][2] IN
    IF d[1].part # "head" THEN Apps \cup {Unset}
    ELSE IF n \in Slots THEN {table[n]} ELSE {Unset}

\* The application a datagram is sent to: a frame that begins in the middle of
\* an answer has any id.
Addressees(d) == IF d[1].part = "head" THEN {table[Slot(d[1].of)]} ELSE Apps \cup {Unset}

\* Faulty: the input is drained although only a part of it was sent on.
ClientAnswerDrain ==
    /\ alive /\ trans = "serving"
    /\ \E k \in Reads(dn) :
          LET d == SubSeq(dn, 1, k) IN
          /\ dn' = <<>>
          /\ \E a \in Addressees(d) :
                delivered' = delivered \cup {[to |-> a, cells |-> d]}
    /\ UNCHANGED <<id, askVars, udp, trans, table, srvVars, up, ctl, others, lifeVars, fault>>

\* dns_bufferread_cb_enc
ClientAnswer ==
    /\ alive /\ trans = "serving"
    /\ \E k \in Reads(dn) :
          LET d == SubSeq(dn, 1, k) IN
          /\ dn' = SubSeq(dn, k + 1, Len(dn))
          /\ \E a \in Addressees(d) :
                delivered' = delivered \cup {[to |-> a, cells |-> d]}
    /\ UNCHANGED <<id, askVars, udp, trans, table, srvVars, up, ctl, others, lifeVars, fault>>

\* Faulty: every event frees the trans.
ClientEofAny ==
    /\ alive /\ trans = "serving"
    /\ ScFree
    /\ UNCHANGED <<id, askVars, udp, table, delivered, srvVars, ctl, others, lifeVars, fault>>

\* dns_bufferevent_cb, EOF or ERROR: bufferevents read once they are enabled.
ClientEof ==
    /\ alive /\ trans = "serving"
    /\ Ended(dn)
    /\ ScFree
    /\ UNCHANGED <<id, askVars, udp, table, delivered, srvVars, ctl, others, lifeVars, fault>>

\* srv_bufferread_cb takes one header, however many have arrived.  DNS_ACT
\* adds the UDP event and enables the data connection; the trans it looks up
\* is not tested.
ClientCtl ==
    /\ alive
    /\ \E n \in 1..MaxBatch :
          /\ n <= Len(ctl.net)
          /\ ctl' = [net |-> SubSeq(ctl.net, n + 1, Len(ctl.net)),
                     buf |-> Tail(ctl.buf \o SubSeq(ctl.net, 1, n))]
          /\ LET head == Head(ctl.buf \o SubSeq(ctl.net, 1, n)) IN
             \/ head = "other" /\ UNCHANGED <<udp, trans, fault>>
             \/ /\ head = "dns" /\ trans # "freed"
                /\ udp' = TRUE /\ trans' = "serving"
                /\ UNCHANGED fault
             \/ /\ head = "dns" /\ trans = "freed"
                /\ fault' = "null_trans"
                /\ UNCHANGED <<udp, trans>>
    /\ UNCHANGED <<id, askVars, table, delivered, srvVars, up, dn, others, lifeVars>>

\* srv_bufferevent_cb, EOF: all trans are freed and the DAEMON logs in again,
\* on a new control channel.  The trans of the DNS proxy is not built again.
ClientRelogin ==
    /\ alive /\ session # login /\ login < MaxLogins
    /\ ScFree
    /\ login' = login + 1 /\ session' = login + 1
    /\ ctl' = [net |-> <<>>, buf |-> <<>>]
    /\ UNCHANGED <<id, askVars, udp, table, delivered, srvVars, others, alive, broken, fault>>

ClientExit ==
    /\ MayExit /\ alive
    /\ alive' = FALSE /\ udp' = FALSE
    /\ ScFree
    /\ UNCHANGED <<id, askVars, table, delivered, srvVars, ctl, others, login, session,
                   broken, fault>>

-----------------------------------------------------------------------------
(* The server.                                                             *)

Post(h) == ctl' = IF alive /\ session = login THEN [ctl EXCEPT !.net = Append(@, h)] ELSE ctl

\* ss_main_handle_dns: the connection goes to the worker of dns_port.  bev_d
\* of the new trans points to a bufferevent that has been freed already.
SrvHandleDns ==
    /\ place = "main" /\ ~broken
    /\ \/ /\ session # 0
          /\ place' = "queued" /\ srv' = "listed"
       \/ /\ session = 0 \/ MayRefuse
          /\ place' = "refused"
          /\ UNCHANGED srv
    /\ UNCHANGED <<id, askVars, cltVars, pending, answers, up, dn, ctl, others, lifeVars, fault>>

\* The main loop forwards headers of tunnels on the same control channel.
SrvOther ==
    /\ session # 0 /\ others < MaxOther
    /\ others' = others + 1
    /\ Post("other")
    /\ UNCHANGED <<id, askVars, cltVars, srvVars, up, dn, lifeVars, fault>>

\* main_bufferevent_cb, EOF of either client: the session goes with its trans,
\* and ss_free_all_trans frees the bufferevent of a connection still queued.
SrvMainEof ==
    /\ session # 0
    /\ MayEnd \/ ~alive
    /\ session' = 0
    /\ IF srv = "listed"
         THEN /\ SsFree
              /\ fault' = IF place = "queued" THEN "double_free" ELSE fault
         ELSE UNCHANGED <<srv, place, up, dn, fault>>
    /\ UNCHANGED <<id, askVars, cltVars, pending, answers, ctl, others, login, alive, broken>>

\* Faulty: DNS_ACT is not sent.
WorkerTakeSilent ==
    /\ place = "queued" /\ srv = "listed"
    /\ place' = "worker"
    /\ UNCHANGED <<id, askVars, cltVars, srv, pending, answers, up, dn, ctl, others, lifeVars, fault>>

\* thread_process, 'N': a bufferevent of the worker's loop, and DNS_ACT.
WorkerTake ==
    /\ place = "queued" /\ srv = "listed"
    /\ place' = "worker"
    /\ Post("dns")
    /\ UNCHANGED <<id, askVars, cltVars, srv, pending, answers, up, dn, others, lifeVars, fault>>

\* thread_bufferread_cb_dns_enc
WorkerAsk ==
    /\ place = "worker"
    /\ \E k \in Reads(up) :
          /\ pending' = pending \cup {SubSeq(up, 1, k)}
          /\ up' = SubSeq(up, k + 1, Len(up))
    /\ UNCHANGED <<id, askVars, cltVars, place, srv, answers, dn, ctl, others, lifeVars, fault>>

\* dns_remote_cb.  The event outlives the trans it points to.
WorkerAnswer ==
    \E q \in answers :
       /\ answers' = answers \ {q}
       /\ \/ /\ srv = "listed"
             /\ dn' = IF trans = "freed" \/ broken THEN dn ELSE dn \o Message(q)
             /\ UNCHANGED fault
          \/ /\ srv = "freed"
             /\ fault' = "server_freed"
             /\ UNCHANGED dn
       /\ UNCHANGED <<id, askVars, cltVars, place, srv, pending, up, ctl, others, lifeVars>>

\* thread_bufferevent_cb, EOF or ERROR
WorkerEof ==
    /\ place = "worker"
    /\ Ended(up)
    /\ SsFree
    /\ UNCHANGED <<id, askVars, cltVars, pending, answers, ctl, others, lifeVars, fault>>

\* The network resets the data connection; both ends get an ERROR event.
Reset ==
    /\ MayBreak /\ ~broken /\ place = "worker" /\ trans = "serving"
    /\ broken' = TRUE
    /\ up' = <<Fin>> /\ dn' = <<Fin>>
    /\ UNCHANGED <<id, askVars, cltVars, srvVars, ctl, others, login, session, alive, fault>>
-----------------------------------------------------------------------------
System == \/ ClientAsk \/ ClientAnswer \/ ClientEof \/ ClientCtl \/ ClientRelogin
          \/ SrvHandleDns \/ SrvMainEof
          \/ WorkerTake \/ WorkerAsk \/ WorkerAnswer \/ WorkerEof

Environment == \/ \E q \in Queries : Ask(q)
               \/ \E d \in pending : NameServer(d)
               \/ SrvOther \/ ClientExit \/ Reset

\* A fault ends a process: what the others then do is not modelled.
Ok   == fault = "none"
Next == Ok /\ (System \/ Environment)

Spec == Init /\ [][Next]_vars

\* libevent polls level triggered.  Nobody obliges applications to ask, the
\* name server to answer or a USR client to leave.
Fairness ==
    /\ WF_vars(Ok /\ ClientAsk) /\ WF_vars(Ok /\ ClientAnswer) /\ WF_vars(Ok /\ ClientEof)
    /\ WF_vars(Ok /\ ClientCtl) /\ WF_vars(Ok /\ ClientRelogin)
    /\ WF_vars(Ok /\ SrvHandleDns)
    /\ WF_vars(Ok /\ WorkerTake) /\ WF_vars(Ok /\ WorkerAsk)
    /\ WF_vars(Ok /\ WorkerAnswer) /\ WF_vars(Ok /\ WorkerEof)

FairSpec == Spec /\ Fairness

-----------------------------------------------------------------------------
(* Properties.                                                             *)

\* Two applications have questions with ids that fall on one entry.
Clash(q) == \E r \in asked : Slot(r) = Slot(q) /\ App[r] # App[q]

\* A datagram that begins with an answer goes to the application that asked,
\* unless another application uses the same entry of the table.
RightApplication ==
    \A d \in delivered :
        LET q == d.cells[1].of IN
        d.cells[1].part = "head" => d.to = App[q] \/ Clash(q)

\* What each of the invalid accesses needs.
Broken == broken \/ session # 1 \/ ~alive
NoAbort ==
    /\ fault = "null_trans"   => login > 1
    /\ fault = "client_freed" => broken \/ session # 1
    /\ fault = "server_freed" => Broken
    /\ fault = "double_free"  => session = 0 /\ delivered = {} /\ ~udp
    /\ fault = "overrun"      => \E q \in asked : id[q][2] = 255

\* The connection the proxy was built on is gone or was never accepted.
Over == Broken \/ place = "refused" \/ fault # "none"

\* The proxy comes up in the DAEMON's first session, unless DNS_ACT waits in
\* libevent's buffer behind another header.
Starts == <>(udp \/ Over) \/ <>[](ctl.buf # <<>>)

\* An answer that reaches the server reaches the application that asked, as
\* the beginning of a datagram.  What may happen instead: the ids clash, the
\* answer is in the middle of a datagram, or the connection is lost.
Merged(q)   == \E d \in delivered : \E i \in 2..Len(d.cells) : d.cells[i] = Head1(q)
Received(q) == \E d \in delivered : d.cells[1] = Head1(q) /\ d.to = App[q]
Answered ==
    \A q \in Queries : q \in answers ~> Received(q) \/ Merged(q) \/ Clash(q) \/ Over
=============================================================================
