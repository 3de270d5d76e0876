---------------------------- MODULE TunnelProofs ----------------------------
(***************************************************************************)
(* Proofs about Tunnel: its type invariant, that a source port names at    *)
(* most one trans on every list, and the order of the legs at the worker;  *)
(* then that the server joins the two legs of one connection, that a       *)
(* client starts a tunnel when they are joined, which aborts are possible, *)
(* and that Tunnel implements Relay.                                       *)
(*                                                                         *)
(* UniquePorts needs to know that a header on a control channel carries    *)
(* the port of the connection it speaks of (CtlKnown) and that a           *)
(* connection that does not exist yet is on no list (PortKnown).           *)
(* UserLegFirst needs the order of the worker's queue: the job of the USR  *)
(* leg enters it with the trans itself (UserComes), and every job of a     *)
(* DAEMON leg stands behind it (UserBefore), unless the missing lock loses *)
(* the USR leg's.  That order is only worth something because a trans is   *)
(* created once (UserFresh), which holds as the USR client is never told   *)
(* to connect (UserCtl), and because the bytes of the pipe agree with the  *)
(* items of the queue as long as none of them is lost (QueueInv).          *)
(***************************************************************************)
EXTENDS Tunnel, SequenceTheorems, TLAPS

\* Headers that carry the port of their connection.
KnownMsgs == {m \in Msgs : m.port = port[m.of]}
CtlKnown  == ctl \in [Side -> [net : Seq(KnownMsgs), buf : Seq(KnownMsgs)]]

PortKnown ==
    \A c \in Conns : port[c] = 0 =>
        /\ srv[c] # "listed"
        /\ \A s \in Side : cl[<<s, c>>] = "idle" /\ place[<<s, c>>] # "main"

\* The job at place i of worker th's queue is for the USR leg of trans t.
UserJob(th, i, t) == queue[th][i].kind = "U" /\ queue[th][i].trans = t

\* The USR leg of trans t is in its slot, or will never be: the missing lock lost
\* the item.
UserIn(t) == bev[<<"U", t>>] # None \/ place[<<"U", t>>] = "lost"

UserCame(t) ==
    \/ UserIn(t)
    \/ \E i \in 1..Len(queue[ThreadOf(port[t])]) : UserJob(ThreadOf(port[t]), i, t)

UserComes == Ok => \A t \in Conns : srv[t] = "listed" => UserCame(t)

UserBefore ==
    Ok => \A th \in Threads : \A i \in 1..Len(queue[th]) :
        LET t == queue[th][i].trans IN
        queue[th][i].kind = "D" /\ srv[t] = "listed" =>
            \/ UserIn(t)
            \/ \E k \in 1..(i - 1) : UserJob(th, k, t)

\* The USR client is never told to connect, so that it alone creates its legs.
Acts    == {m \in Msgs : m.cmd = "CONN_ACT"}
UserCtl == ctl["U"].net \in Seq(Acts) /\ ctl["U"].buf \in Seq(Acts)

\* A trans is created once; jobs and slots belong to trans that were created, and
\* a USR leg to the trans it created.
UserFresh  == \A c \in Conns : srv[c] # "none" => port[c] # 0 /\ place[<<"U", c>>] # "main"
JobsKnown  ==
    \A th \in Threads : \A i \in 1..Len(queue[th]) :
        LET j == queue[th][i] IN
        srv[j.trans] # "none" /\ (j.kind = "U" => j.conn = j.trans)
SlotsKnown ==
    \A s \in Side, t \in Conns : bev[<<s, t>>] # None =>
        srv[t] # "none" /\ (s = "U" => bev[<<s, t>>] = t)

\* The server ends the session for a client that has gone.
LeftFirst == session # "up" => \E s \in Side : ~alive[s]

PortInv  == TypeOK /\ CtlKnown /\ PortKnown /\ UniquePorts
OrderInv == UserFresh /\ JobsKnown /\ SlotsKnown /\ UserComes /\ UserBefore
Inv      == PortInv /\ UserCtl /\ OrderInv /\ LeftFirst

-----------------------------------------------------------------------------
(* Operators on channels.                                                  *)

\* A channel that is cut or dropped, or that grows or shrinks by one item,
\* stays a channel.
Channels == [Leg -> Seq(Items)]

\* The CONN header, the end of file and every chunk are items of a channel.
LEMMA ItemTypes ==
    /\ ConnHead \in Items /\ Fin \in Items
    /\ \A l \in Leg, n \in 1..MaxData : Chunk(l, n) \in Items
  BY DEF Items

\* A channel whose sender frees its bufferevent keeps a prefix and ends.
LEMMA CutType ==
    ASSUME NEW ch \in Channels, NEW S \in SUBSET Leg, NEW k \in Kept(ch, S)
    PROVE  Cut(ch, S, k) \in Channels
<1>1. ASSUME NEW l \in S PROVE Append(SubSeq(ch[l], 1, k[l]), Fin) \in Seq(Items)
  <2>1. k[l] \in Nat /\ k[l] <= Len(ch[l]) /\ ch[l] \in Seq(Items)
    BY BoundsAssumption DEF Kept, Channels
  <2>2. \A i \in 1..k[l] : ch[l][i] \in Items
    BY <2>1, ElementOfSeq
  <2>3. SubSeq(ch[l], 1, k[l]) \in Seq(Items)
    BY <2>1, <2>2, SubSeqProperties
  <2> QED
    BY <2>3, ItemTypes
<1> QED
  BY <1>1 DEF Cut, Channels

\* A channel whose receiver has closed is empty.
LEMMA DropType ==
    ASSUME NEW ch \in Channels, NEW S \in SUBSET Leg
    PROVE  Drop(ch, S) \in Channels
  BY EmptySeq DEF Drop, Channels

\* A channel that grows by one item stays a channel.
LEMMA AppendType ==
    ASSUME NEW ch \in Channels, NEW l \in Leg, NEW x \in Items
    PROVE  [ch EXCEPT ![l] = Append(@, x)] \in Channels
  BY DEF Channels

\* A channel that gives up its head stays a channel, and the head is an item.
LEMMA TailType ==
    ASSUME NEW ch \in Channels, NEW l \in Leg, ch[l] # <<>>
    PROVE  [ch EXCEPT ![l] = Tail(@)] \in Channels /\ Head(ch[l]) \in Items
  BY DEF Channels

\* A client that frees trans closes legs and nothing else.
LEMMA ScFreeStep ==
    ASSUME PortInv, NEW S \in SUBSET Leg, ScFree(S)
    PROVE  /\ cl' \in [Leg -> ClStatus] /\ up' \in Channels /\ dn' \in Channels
           /\ \A l \in Leg : cl'[l] = IF l \in S THEN "closed" ELSE cl[l]
<1>1. up \in Channels /\ dn \in Channels
  BY DEF PortInv, TypeOK, Channels
<1> DEFINE open == {l \in S : cl[l] # "stuck"}
<1>2. PICK k \in Kept(up, open) :
          /\ cl' = [l \in Leg |-> IF l \in S THEN "closed" ELSE cl[l]]
          /\ up' = Cut(up, open, k)
          /\ dn' = Drop(dn, open)
  BY DEF ScFree
<1>3. up' \in Channels /\ dn' \in Channels
  BY <1>1, <1>2, CutType, DropType
<1> QED
  BY <1>2, <1>3 DEF PortInv, TypeOK, ClStatus

\* The server that frees trans unlists them and empties their slots.
LEMMA SsFreeStep ==
    ASSUME PortInv, NEW T \in SUBSET Conns, SsFree(T)
    PROVE  /\ srv' \in [Conns -> {"none", "listed", "freed"}]
           /\ bev' \in [Leg -> Conns \cup {None}]
           /\ place' \in [Leg -> Places] /\ up' \in Channels /\ dn' \in Channels
           /\ \A c \in Conns : srv'[c] = IF c \in T THEN "freed" ELSE srv[c]
           /\ \A s \in Side : \A c \in Conns \ T : bev'[<<s, c>>] = bev[<<s, c>>]
           /\ \A l \in Leg : place'[l] \in {place[l], "closed"}
<1>1. up \in Channels /\ dn \in Channels
  BY DEF PortInv, TypeOK, Channels
<1> DEFINE slots == {x \in Side \X T : bev[x] # None}
           legs  == {<<x[1], bev[x]>> : x \in slots}
<1>2. slots \subseteq Leg /\ legs \subseteq Leg
  BY DEF Leg, PortInv, TypeOK
<1>3. PICK k \in Kept(dn, legs) :
          /\ srv' = [c \in Conns |-> IF c \in T THEN "freed" ELSE srv[c]]
          /\ bev' = [x \in Leg |-> IF x \in slots THEN None ELSE bev[x]]
          /\ place' = [l \in Leg |-> IF l \in legs THEN "closed" ELSE place[l]]
          /\ dn' = Cut(dn, legs, k)
          /\ up' = Drop(up, legs)
  BY DEF SsFree
<1>4. dn' \in Channels /\ up' \in Channels
  BY <1>1, <1>2, <1>3, CutType, DropType
<1>5. srv' \in [Conns -> {"none", "listed", "freed"}] /\ bev' \in [Leg -> Conns \cup {None}]
  BY <1>3 DEF PortInv, TypeOK
<1>6. place' \in [Leg -> Places] /\ \A l \in Leg : place'[l] \in {place[l], "closed"}
  BY <1>3 DEF PortInv, TypeOK, Places
<1>7. \A s \in Side : \A c \in Conns \ T : bev'[<<s, c>>] = bev[<<s, c>>]
  BY <1>3 DEF Leg
<1> QED
  BY <1>3, <1>4, <1>5, <1>6, <1>7

\* Replacing what is on its way to one client keeps the control channels typed.
LEMMA NetType ==
    ASSUME NEW Q, NEW chan \in [Side -> [net : Q, buf : Q]], NEW s \in Side, NEW q \in Q
    PROVE  [chan EXCEPT ![s].net = q] \in [Side -> [net : Q, buf : Q]]
  OBVIOUS

\* A header posted on a control channel keeps the control channels typed.
LEMMA PostType ==
    ASSUME NEW chan \in [Side -> [net : Seq(KnownMsgs), buf : Seq(KnownMsgs)]],
           NEW s \in Side, NEW m \in KnownMsgs
    PROVE  Post(chan, s, m) \in [Side -> [net : Seq(KnownMsgs), buf : Seq(KnownMsgs)]]
<1>1. Append(chan[s].net, m) \in Seq(KnownMsgs)
  OBVIOUS
<1> QED
  BY <1>1, NetType DEF Post

\* A header written for a connection that exists carries its port.
LEMMA MsgType ==
    ASSUME PortInv, NEW c \in Conns, port[c] # 0, NEW cmd \in {"CONN", "CONN_ACT"}
    PROVE  Msg(cmd, c) \in KnownMsgs
  BY DEF Msg, Msgs, KnownMsgs, PortInv, TypeOK

\* What srv_bufferread_cb takes off a control channel, and what stays there.
LEMMA ReadHeadOf ==
    ASSUME NEW Q, NEW s \in Side, NEW n \in 1..MaxBatch, ReadHead(s, n),
           ctl[s].net \in Seq(Q), ctl[s].buf \in Seq(Q), n <= Len(ctl[s].net)
    PROVE  /\ HeadOf(s, n) \in Q
           /\ \E x \in [net : Seq(Q), buf : Seq(Q)] : ctl' = [ctl EXCEPT ![s] = x]
<1> DEFINE net == ctl[s].net
           buf == ctl[s].buf
           all == buf \o SubSeq(net, 1, n)
<1>1. net \in Seq(Q) /\ buf \in Seq(Q) /\ n \in Nat \ {0} /\ Len(net) \in Nat
  BY BoundsAssumption
<1>2. \A i \in 1..Len(net) : net[i] \in Q
  BY <1>1, ElementOfSeq
<1>3. SubSeq(net, 1, n) \in Seq(Q) /\ Len(SubSeq(net, 1, n)) = n
  BY <1>1, <1>2, SubSeqProperties
<1>4. SubSeq(net, n + 1, Len(net)) \in Seq(Q)
  BY <1>1, <1>2, SubSeqProperties
<1>5. all \in Seq(Q) /\ Len(all) = Len(buf) + n
  BY <1>1, <1>3, ConcatProperties
<1>6. all # <<>>
  BY <1>1, <1>5, EmptySeq, LenProperties
<1>7. Head(all) \in Q /\ Tail(all) \in Seq(Q)
  BY <1>5, <1>6, HeadTailProperties
<1>8. ctl' = [ctl EXCEPT ![s] = [net |-> SubSeq(net, n + 1, Len(net)), buf |-> Tail(all)]]
  BY DEF ReadHead
<1>9. [net |-> SubSeq(net, n + 1, Len(net)), buf |-> Tail(all)] \in [net : Seq(Q), buf : Seq(Q)]
  BY <1>4, <1>7
<1> QED
  BY <1>7, <1>8, <1>9 DEF HeadOf

\* The header that is handled, and those left behind, carry their ports.
LEMMA ReadHeadType ==
    ASSUME PortInv, NEW s \in Side, NEW n \in 1..MaxBatch, n <= Len(ctl[s].net), ReadHead(s, n)
    PROVE  /\ HeadOf(s, n) \in KnownMsgs
           /\ ctl' \in [Side -> [net : Seq(KnownMsgs), buf : Seq(KnownMsgs)]]
<1>1. ctl \in [Side -> [net : Seq(KnownMsgs), buf : Seq(KnownMsgs)]]
  BY DEF PortInv, CtlKnown
<1>2. ctl[s].net \in Seq(KnownMsgs) /\ ctl[s].buf \in Seq(KnownMsgs)
  BY <1>1
<1>3. /\ HeadOf(s, n) \in KnownMsgs
      /\ \E x \in [net : Seq(KnownMsgs), buf : Seq(KnownMsgs)] : ctl' = [ctl EXCEPT ![s] = x]
  BY <1>2, ReadHeadOf
<1> QED
  BY <1>1, <1>3

-----------------------------------------------------------------------------
(* The steps.                                                              *)

\* At the start no connection exists and nothing is listed.
LEMMA InitPortInv == Init => PortInv
<1> SUFFICES ASSUME Init PROVE PortInv
  OBVIOUS
<1>1. TypeOK
  <2>1. \A S : <<>> \in Seq(S)
    BY EmptySeq
  <2> QED
    BY <2>1, BoundsAssumption DEF Init, TypeOK, ClStatus, Places, Faults
<1>2. CtlKnown
  BY EmptySeq DEF Init, CtlKnown
<1>3. PortKnown /\ UniquePorts
  BY DEF Init, PortKnown, UniquePorts, SsListed, ScListed, Leg
<1> QED
  BY <1>1, <1>2, <1>3 DEF PortInv

\* Headers that carry the port of their connection are headers.
LEMMA KnownAreMsgs ==
    ASSUME NEW x \in [Side -> [net : Seq(KnownMsgs), buf : Seq(KnownMsgs)]]
    PROVE  x \in [Side -> [net : Seq(Msgs), buf : Seq(Msgs)]]
<1>1. Seq(KnownMsgs) \subseteq Seq(Msgs)
  BY SeqMonotonic DEF KnownMsgs
<1>2. [net : Seq(KnownMsgs), buf : Seq(KnownMsgs)] \subseteq [net : Seq(Msgs), buf : Seq(Msgs)]
  BY <1>1
<1> QED
  BY <1>2

\* A port is mapped to one of the workers.
LEMMA ThreadType == ASSUME NEW p \in Nat PROVE ThreadOf(p) \in Threads
  BY ThreadNumAssumption DEF ThreadOf, Threads

\* A connection's port is a number, zero before the connection exists.
LEMMA PortType == ASSUME PortInv, NEW c \in Conns PROVE port[c] \in Nat
<1>1. port[c] \in Ports \cup {0}
  BY DEF PortInv, TypeOK
<1>2. CASE port[c] = 0
  BY <1>2
<1>3. CASE port[c] \in Ports
  <2>1. port[c] \in Nat \ {0}
    BY <1>3, PortsAssumption
  <2> QED
    BY <2>1
<1> QED
  BY <1>1, <1>2, <1>3

\* Queueing a leg, or losing it on the way, keeps the queues typed and takes the
\* leg out of the main loop.
LEMMA EnqueueType ==
    ASSUME PortInv, NEW s \in Side, NEW c \in Conns, NEW t \in Conns, Enqueue(s, c, t)
    PROVE  /\ queue' \in [Threads -> Seq(Jobs)] /\ pipe' \in [Threads -> Seq(Side)]
           /\ \E x \in {"queued", "lost"} : place' = [place EXCEPT ![<<s, c>>] = x]
<1>1. ThreadOf(port[c]) \in Threads
  BY PortType, ThreadType
<1>2. [kind |-> s, conn |-> c, trans |-> t] \in Jobs
  BY DEF Jobs
<1>3. queue \in [Threads -> Seq(Jobs)] /\ pipe \in [Threads -> Seq(Side)]
  BY DEF PortInv, TypeOK
<1>4. CASE Handed(s, c, t, ThreadOf(port[c]))
  BY <1>1, <1>2, <1>3, <1>4 DEF Handed
<1>5. CASE ~Handed(s, c, t, ThreadOf(port[c]))
  <2>1. /\ queue' = queue /\ place' = [place EXCEPT ![<<s, c>>] = "lost"]
        /\ pipe' = [pipe EXCEPT ![ThreadOf(port[c])] = Append(@, s)]
    BY <1>5 DEF Enqueue
  <2> QED
    BY <1>1, <1>3, <2>1
<1> QED
  BY <1>4, <1>5

\* A PORTTRANS in one of these states is on its client's list.
Listed == {"stuck", "opening", "active"}

\* A step that puts no trans on a list, and brings no leg to the main loop,
\* keeps the ports unique.
LEMMA NothingListed ==
    ASSUME PortInv, port' = port,
           \A c \in Conns : srv'[c] # srv[c] => srv'[c] = "freed",
           \A l \in Leg : cl'[l] # cl[l] => cl[l] \in Listed /\ cl'[l] \in {"active", "closed"},
           \A l \in Leg : place'[l] = place[l] \/ place'[l] # "main"
    PROVE  (PortKnown /\ UniquePorts)'
<1>1. \A s \in Side, c \in Conns : <<s, c>> \in Leg
  BY DEF Leg
<1>2. PortKnown'
  BY <1>1 DEF PortInv, PortKnown, Listed
<1>3. UniquePorts'
  BY <1>1 DEF PortInv, UniquePorts, SsListed, ScListed, Listed
<1> QED
  BY <1>2, <1>3

\* The server that frees trans keeps all of PortInv.
LEMMA SsFreeKeeps ==
    ASSUME PortInv, NEW T \in SUBSET Conns, SsFree(T),
           session' \in {"up", "ending", "gone"},
           UNCHANGED <<port, cl, ctl, queue, pipe, sent, got, alive, fault>>
    PROVE  PortInv'
<1>1. /\ srv' \in [Conns -> {"none", "listed", "freed"}]
      /\ bev' \in [Leg -> Conns \cup {None}]
      /\ place' \in [Leg -> Places] /\ up' \in Channels /\ dn' \in Channels
      /\ \A c \in Conns : srv'[c] = IF c \in T THEN "freed" ELSE srv[c]
      /\ \A l \in Leg : place'[l] \in {place[l], "closed"}
  BY SsFreeStep
<1>2. TypeOK'
  BY <1>1 DEF PortInv, TypeOK, Channels, Msgs
<1>3. CtlKnown'
  BY DEF PortInv, CtlKnown, KnownMsgs, Msgs
<1>4. (PortKnown /\ UniquePorts)'
  BY <1>1, NothingListed
<1> QED
  BY <1>2, <1>3, <1>4 DEF PortInv

\* A client that frees trans of its list keeps all of PortInv.
LEMMA ScFreeKeeps ==
    ASSUME PortInv, NEW S \in SUBSET Leg, ScFree(S), \A l \in S : cl[l] \in Listed,
           alive' \in [Side -> BOOLEAN],
           UNCHANGED <<port, srv, bev, place, ctl, queue, pipe, sent, got, session, fault>>
    PROVE  PortInv'
<1>1. /\ cl' \in [Leg -> ClStatus] /\ up' \in Channels /\ dn' \in Channels
      /\ \A l \in Leg : cl'[l] = IF l \in S THEN "closed" ELSE cl[l]
  BY ScFreeStep
<1>2. TypeOK'
  BY <1>1 DEF PortInv, TypeOK, Channels, Msgs
<1>3. CtlKnown'
  BY DEF PortInv, CtlKnown, KnownMsgs, Msgs
<1>4. (PortKnown /\ UniquePorts)'
  BY <1>1, NothingListed
<1> QED
  BY <1>2, <1>3, <1>4 DEF PortInv

\* Every callback of the server and the clients, and every step of the
\* environment, keeps the types and the ports unique.
LEMMA StepPortInv == PortInv /\ [Next]_vars => PortInv'
<1> SUFFICES ASSUME PortInv, [Next]_vars PROVE PortInv'
  OBVIOUS
<1>i. TypeOK /\ CtlKnown /\ PortKnown /\ UniquePorts
  BY DEF PortInv
<1> USE <1>i
<1>a. port' = port => KnownMsgs' = KnownMsgs
  BY DEF KnownMsgs, Msgs
<1>b. \A s \in Side, c \in Conns : <<s, c>> \in Leg
  BY DEF Leg
<1>1. ASSUME NEW c \in Conns, SrvConnUsr(c) PROVE PortInv'
  <2> DEFINE l == <<"U", c>>
  <2>1. l \in Leg /\ port[c] # 0 /\ Msg("CONN", c) \in KnownMsgs /\ "D" \in Side /\ "U" \in Side
    BY <1>1, <1>b, MsgType DEF SrvConnUsr, HasConn, PortKnown, Side
  <2>2. CtlKnown'
    <3>1. ctl \in [Side -> [net : Seq(KnownMsgs), buf : Seq(KnownMsgs)]]
      BY DEF CtlKnown
    <3>2. Post(ctl, "D", Msg("CONN", c)) \in [Side -> [net : Seq(KnownMsgs), buf : Seq(KnownMsgs)]]
      BY <2>1, <3>1, PostType
    <3>3. ctl' = ctl \/ ctl' = Post(ctl, "D", Msg("CONN", c))
      BY <1>1 DEF SrvConnUsr
    <3>4. port' = port
      BY <1>1 DEF SrvConnUsr
    <3> QED
      BY <1>a, <3>1, <3>2, <3>3, <3>4 DEF CtlKnown
  <2>3. up' \in Channels
    BY <1>1, <2>1, TailType DEF SrvConnUsr, HasConn, TypeOK, Channels
  <2>4. /\ queue' \in [Threads -> Seq(Jobs)] /\ pipe' \in [Threads -> Seq(Side)]
        /\ \E x \in {"queued", "lost", "leaked"} : place' = [place EXCEPT ![l] = x]
        /\ srv' = srv \/ srv' = [srv EXCEPT ![c] = "listed"]
    <3>1. CASE SsMayCreate(port[c])
      <4>1. Enqueue("U", c, c) /\ srv' = [srv EXCEPT ![c] = "listed"]
        BY <1>1, <3>1 DEF SrvConnUsr
      <4> QED
        BY <2>1, <4>1, EnqueueType
    <3>2. CASE ~SsMayCreate(port[c])
      BY <1>1, <3>2 DEF SrvConnUsr, TypeOK
    <3> QED
      BY <3>1, <3>2
  <2>5. TypeOK'
    <3>1. ctl' \in [Side -> [net : Seq(Msgs), buf : Seq(Msgs)]]
      <4>1. UNCHANGED port /\ ctl' \in [Side -> [net : Seq(KnownMsgs'), buf : Seq(KnownMsgs')]]
        BY <1>1, <2>2 DEF SrvConnUsr, CtlKnown
      <4> QED
        BY <4>1, <1>a, KnownAreMsgs
    <3>2. /\ place' \in [Leg -> Places]
          /\ srv' \in [Conns -> {"none", "listed", "freed"}]
      BY <2>1, <2>4 DEF TypeOK, Places
    <3>3. UNCHANGED <<port, cl, bev, dn, sent, got, alive, session, fault>>
      BY <1>1 DEF SrvConnUsr
    <3> QED
      BY <2>3, <2>4, <3>1, <3>2, <3>3 DEF TypeOK, Channels, Msgs
  <2>6. PortKnown'
    <3>1. port' = port /\ cl' = cl
      BY <1>1 DEF SrvConnUsr
    <3>2. \A k \in Leg : place'[k] # "main" \/ place'[k] = place[k]
      BY <2>1, <2>4 DEF TypeOK
    <3>3. \A b \in Conns : b # c => srv'[b] = srv[b]
      BY <2>4 DEF TypeOK
    <3> QED
      BY <1>b, <2>1, <3>1, <3>2, <3>3 DEF PortKnown
  <2>7. UniquePorts'
    <3>1. UNCHANGED <<port, cl>>
      BY <1>1 DEF SrvConnUsr
    <3>2. \A s \in Side : ScListed(s)' = ScListed(s)
      BY <3>1 DEF ScListed
    <3>3. \/ SsListed' = SsListed
          \/ /\ SsListed' = SsListed \cup {c}
             /\ \A b \in SsListed : port[b] # port[c]
      BY <1>1 DEF SrvConnUsr, SsListed, SsMayCreate, SsFind, TypeOK
    <3> QED
      BY <3>1, <3>2, <3>3 DEF UniquePorts
  <2> QED
    BY <2>2, <2>5, <2>6, <2>7 DEF PortInv
<1>2. ASSUME NEW c \in Conns, SrvConnDaemon(c) PROVE PortInv'
  <2> DEFINE l == <<"D", c>>
  <2>1. l \in Leg /\ "D" \in Side
    BY <1>b DEF Side
  <2>2. CtlKnown'
    BY <1>2, <1>a DEF SrvConnDaemon, CtlKnown
  <2>3. up' \in Channels
    BY <1>2, <2>1, TailType DEF SrvConnDaemon, HasConn, TypeOK, Channels
  <2>4. /\ queue' \in [Threads -> Seq(Jobs)] /\ pipe' \in [Threads -> Seq(Side)]
        /\ \E x \in {"queued", "lost", "leaked"} : place' = [place EXCEPT ![l] = x]
    <3>1. ASSUME NEW t \in SsFind(port[c]), Enqueue("D", c, t)
          PROVE  /\ queue' \in [Threads -> Seq(Jobs)] /\ pipe' \in [Threads -> Seq(Side)]
                 /\ \E x \in {"queued", "lost"} : place' = [place EXCEPT ![l] = x]
      BY <2>1, <3>1, EnqueueType DEF SsFind, SsListed
    <3> QED
      BY <1>2, <3>1 DEF SrvConnDaemon, TypeOK
  <2>5. place' \in [Leg -> Places] /\ \A x \in Leg : place'[x] = place[x] \/ place'[x] # "main"
    BY <2>1, <2>4 DEF TypeOK, Places
  <2>6. TypeOK'
    BY <1>2, <2>2, <2>3, <2>4, <2>5, KnownAreMsgs DEF SrvConnDaemon, TypeOK, CtlKnown, Channels
  <2>7. (PortKnown /\ UniquePorts)'
    <3>1. UNCHANGED <<port, srv, cl>>
      BY <1>2 DEF SrvConnDaemon
    <3> QED
      BY <2>5, <3>1, NothingListed
  <2> QED
    BY <2>2, <2>6, <2>7 DEF PortInv
<1>3. ASSUME NEW l \in Leg, SrvReject(l) PROVE PortInv'
  <2>1. CtlKnown'
    BY <1>3, <1>a DEF SrvReject, CtlKnown
  <2>2. up' \in Channels
    BY <1>3, TailType DEF SrvReject, HasConn, TypeOK, Channels
  <2>3. TypeOK'
    BY <1>3, <2>1, <2>2 DEF SrvReject, TypeOK, Channels, Places
  <2>4. (PortKnown /\ UniquePorts)'
    <3>1. /\ UNCHANGED <<port, srv, cl>>
          /\ \A x \in Leg : place'[x] = place[x] \/ place'[x] # "main"
      BY <1>3 DEF SrvReject, TypeOK
    <3> QED
      BY <3>1, NothingListed
  <2> QED
    BY <2>1, <2>3, <2>4 DEF PortInv
<1>4. ASSUME NEW s \in Side, NEW t \in Conns, WorkerRead(s, t) PROVE PortInv'
  <2> DEFINE l == <<s, bev[<<s, t>>]>>
             m == <<Other(s), bev[<<Other(s), t>>]>>
  <2>1. l \in Leg /\ (m[2] # None => m \in Leg)
    BY <1>4, <1>b DEF WorkerRead, TypeOK, Side, Other
  <2>2. CtlKnown'
    BY <1>4, <1>a DEF WorkerRead, CtlKnown
  <2>3. up' \in Channels /\ dn' \in Channels
    <3>1. up \in Channels /\ dn \in Channels
      BY DEF TypeOK, Channels
    <3>2. up[l] # <<>>
      BY <1>4 DEF WorkerRead
    <3>3. [up EXCEPT ![l] = Tail(@)] \in Channels /\ Head(up[l]) \in Items
      BY <2>1, <3>1, <3>2, TailType
    <3>4. m[2] # None => [dn EXCEPT ![m] = Append(@, Head(up[l]))] \in Channels
      BY <2>1, <3>1, <3>3, AppendType
    <3>5. CASE m[2] = None
      <4>1. up' = up /\ dn' = dn
        BY <1>4, <3>5 DEF WorkerRead
      <4> QED
        BY <3>1, <4>1
    <3>6. CASE m[2] # None
      <4>1. /\ up' = [up EXCEPT ![l] = Tail(@)]
            /\ dn' = dn \/ dn' = [dn EXCEPT ![m] = Append(@, Head(up[l]))]
        BY <1>4, <3>6 DEF WorkerRead
      <4> QED
        BY <3>1, <3>3, <3>4, <3>6, <4>1
    <3> QED
      BY <3>5, <3>6
  <2>5. TypeOK'
    BY <1>4, <2>2, <2>3 DEF WorkerRead, TypeOK, Channels, Faults
  <2>6. (PortKnown /\ UniquePorts)'
    <3>1. UNCHANGED <<port, srv, cl, place>>
      BY <1>4 DEF WorkerRead
    <3> QED
      BY <3>1, NothingListed
  <2> QED
    BY <2>2, <2>5, <2>6 DEF PortInv
<1>5. ASSUME NEW s \in Side, NEW t \in Conns, WorkerEof(s, t) PROVE PortInv'
  <2>1. SsFree({t}) /\ {t} \in SUBSET Conns
    BY <1>5 DEF WorkerEof
  <2>2. UNCHANGED <<port, cl, ctl, queue, pipe, sent, got, alive, session, fault>>
    BY <1>5 DEF WorkerEof
  <2>3. session' \in {"up", "ending", "gone"}
    BY <2>2 DEF TypeOK
  <2> QED
    BY <2>1, <2>2, <2>3, SsFreeKeeps
<1>6. ASSUME NEW th \in Threads, WorkerTake(th) PROVE PortInv'
  <2> DEFINE j == Head(queue[th])
             b == Head(pipe[th])
             u == <<j.kind, j.conn>>
             x == <<j.kind, j.trans>>
  <2>1. UNCHANGED <<port, cl, srv, up, dn, sent, got, alive, session>>
    BY <1>6 DEF WorkerTake
  <2>2. pipe' \in [Threads -> Seq(Side)]
    BY <1>6 DEF WorkerTake, TypeOK
  <2>3. CASE queue[th] = <<>>
    <3>1. UNCHANGED <<queue, bev, place, ctl, fault>>
      BY <1>6, <2>3 DEF WorkerTake
    <3>2. TypeOK' /\ CtlKnown'
      BY <1>a, <2>1, <2>2, <3>1 DEF TypeOK, CtlKnown, Msgs
    <3>3. (PortKnown /\ UniquePorts)'
      BY <2>1, <3>1, NothingListed
    <3> QED
      BY <3>2, <3>3 DEF PortInv
  <2>4. CASE queue[th] # <<>>
    <3>1. Serve(b, j) /\ queue' = [queue EXCEPT ![th] = Tail(@)]
      BY <1>6, <2>4 DEF WorkerTake
    <3>2. j \in Jobs /\ Tail(queue[th]) \in Seq(Jobs)
      BY <2>4, HeadTailProperties DEF TypeOK
    <3>3. u \in Leg /\ x \in Leg /\ j.conn \in Conns /\ j.trans \in Conns
      BY <3>2, <1>b DEF Jobs
    <3> HIDE DEF j, b
    <3>4. Attach(j) \/ UNCHANGED <<bev, place>>
      BY <3>1 DEF Serve
    <3>5. bev' \in [Leg -> Conns \cup {None}]
      BY <3>3, <3>4 DEF Attach, TypeOK
    <3>6. place' \in [Leg -> Places] /\ \A l \in Leg : place'[l] = place[l] \/ place'[l] # "main"
      BY <3>3, <3>4 DEF Attach, TypeOK, Places
    <3>7. ctl' \in [Side -> [net : Seq(KnownMsgs), buf : Seq(KnownMsgs)]]
      <4>1. CASE ctl' = ctl
        BY <4>1 DEF CtlKnown
      <4>2. CASE /\ srv[j.trans] = "listed"
                 /\ ctl' = LET m == Msg("CONN_ACT", j.trans) IN Post(Post(ctl, "D", m), "U", m)
        <5> DEFINE m == Msg("CONN_ACT", j.trans)
        <5>1. m \in KnownMsgs
          BY <3>3, <4>2, MsgType DEF PortKnown
        <5>2. Post(ctl, "D", m) \in [Side -> [net : Seq(KnownMsgs), buf : Seq(KnownMsgs)]]
          BY <5>1, PostType DEF CtlKnown, Side
        <5>3. Post(Post(ctl, "D", m), "U", m) \in [Side -> [net : Seq(KnownMsgs), buf : Seq(KnownMsgs)]]
          BY <5>1, <5>2, PostType DEF Side
        <5> QED
          BY <4>2, <5>3
      <4> QED
        BY <3>1, <4>1, <4>2 DEF Serve
    <3>8. fault' \in Faults
      BY <3>1 DEF Serve, TypeOK, Faults
    <3>9. CtlKnown' /\ ctl' \in [Side -> [net : Seq(Msgs), buf : Seq(Msgs)]]
      BY <1>a, <2>1, <3>7, KnownAreMsgs DEF CtlKnown
    <3>10. queue' \in [Threads -> Seq(Jobs)]
      BY <3>1, <3>2 DEF TypeOK
    <3>11. TypeOK'
      BY <2>1, <2>2, <3>5, <3>6, <3>8, <3>9, <3>10 DEF TypeOK
    <3>12. (PortKnown /\ UniquePorts)'
      BY <2>1, <3>6, NothingListed
    <3> QED
      BY <3>9, <3>11, <3>12 DEF PortInv
  <2> QED
    BY <2>3, <2>4
<1>7. ASSUME NEW s \in Side, ClientCtl(s) PROVE PortInv'
  <2>1. PICK n \in 1..MaxBatch :
            /\ n <= Len(ctl[s].net) /\ ReadHead(s, n)
            /\ OnConnAct(s, HeadOf(s, n)) \/ OnConn(s, HeadOf(s, n))
    BY <1>7 DEF ClientCtl
  <2>2. UNCHANGED <<port, srv, bev, dn, queue, pipe, sent, got, alive, session>>
    BY <1>7 DEF ClientCtl
  <2> DEFINE m == HeadOf(s, n)
             l == <<s, m.of>>
  <2>3. m \in KnownMsgs /\ ctl' \in [Side -> [net : Seq(KnownMsgs), buf : Seq(KnownMsgs)]]
    BY <2>1, ReadHeadType
  <2>4. CtlKnown' /\ ctl' \in [Side -> [net : Seq(Msgs), buf : Seq(Msgs)]]
    BY <1>a, <2>2, <2>3, KnownAreMsgs DEF CtlKnown
  <2>5. /\ m.of \in Conns /\ l \in Leg
        /\ port[m.of] = m.port /\ port[m.of] # 0
    <3>1. m.of \in Conns /\ m.port \in Ports /\ port[m.of] = m.port
      BY <2>3 DEF KnownMsgs, Msgs
    <3>2. m.port \in Nat \ {0}
      BY <3>1, PortsAssumption
    <3> QED
      BY <1>b, <3>1, <3>2
  <2> HIDE DEF m
  <2>6. CASE OnConnAct(s, m)
    <3>1. /\ cl' \in [Leg -> ClStatus] /\ fault' \in Faults /\ UNCHANGED <<place, up>>
          /\ \A k \in Leg : cl'[k] # cl[k] => cl[k] \in Listed /\ cl'[k] = "active"
      BY <2>6 DEF OnConnAct, TypeOK, ClStatus, Faults, ScFind, ScListed, Listed
    <3>2. TypeOK'
      BY <2>2, <2>4, <3>1 DEF TypeOK
    <3>3. (PortKnown /\ UniquePorts)'
      BY <2>2, <3>1, NothingListed
    <3> QED
      BY <2>4, <3>2, <3>3 DEF PortInv
  <2>7. CASE OnConn(s, m)
    <3>1. \/ UNCHANGED <<cl, place, up>>
          \/ /\ ScMayCreate(s, m.port)
             /\ cl' = [cl EXCEPT ![l] = "stuck"] /\ UNCHANGED <<place, up>>
          \/ /\ ScMayCreate(s, m.port)
             /\ cl' = [cl EXCEPT ![l] = "opening"]
             /\ place' = [place EXCEPT ![l] = "main"]
             /\ up' = [up EXCEPT ![l] = <<ConnHead>>]
      BY <2>7 DEF OnConn
    <3>2. cl' \in [Leg -> ClStatus] /\ place' \in [Leg -> Places]
      BY <2>5, <3>1 DEF TypeOK, ClStatus, Places
    <3>3. up' \in Channels
      <4>1. <<ConnHead>> \in Seq(Items)
        BY ItemTypes
      <4> QED
        BY <2>5, <3>1, <4>1 DEF TypeOK, Channels
    <3>4. fault' \in Faults
      BY <2>7 DEF OnConn, TypeOK, Faults
    <3>5. TypeOK'
      BY <2>2, <2>4, <3>2, <3>3, <3>4 DEF TypeOK, Channels
    <3>6. PortKnown'
      <4>1. \A r \in Side : \A c \in Conns : port[c] = 0 => <<r, c>> # l
        BY <2>5
      <4>2. \A k \in Leg : k # l => cl'[k] = cl[k] /\ place'[k] = place[k]
        BY <3>1 DEF TypeOK
      <4>3. \A r \in Side : \A c \in Conns : port[c] = 0 =>
                cl'[<<r, c>>] = cl[<<r, c>>] /\ place'[<<r, c>>] = place[<<r, c>>]
        BY <1>b, <4>1, <4>2
      <4> QED
        BY <2>2, <4>3 DEF PortKnown
    <3>7. UniquePorts'
      <4>1. \A r \in Side : \A c \in Conns :
                c \in ScListed(r)' /\ ~(c \in ScListed(r)) =>
                    r = s /\ c = m.of /\ ScFind(s, m.port) = {}
        BY <1>b, <2>5, <3>1 DEF ScListed, ScMayCreate, TypeOK
      <4>2. \A c \in Conns : c \in ScListed(s) => c \in ScFind(s, m.port) \/ port[c] # m.port
        BY DEF ScFind
      <4>3. \A r \in Side : ScListed(r)' \subseteq Conns /\ ScListed(r) \subseteq Conns
        BY DEF ScListed
      <4>4. SsListed' = SsListed
        BY <2>2 DEF SsListed
      <4> QED
        BY <2>2, <2>5, <4>1, <4>2, <4>3, <4>4 DEF UniquePorts
    <3> QED
      BY <2>4, <3>5, <3>6, <3>7 DEF PortInv
  <2> QED
    BY <2>1, <2>6, <2>7 DEF m
<1>8. CASE SrvRemove
  <2>1. SsFree(SsListed) /\ SsListed \in SUBSET Conns /\ session' = "gone"
    BY <1>8 DEF SrvRemove, SsFreeAll, SsListed
  <2>2. UNCHANGED <<port, cl, ctl, queue, pipe, sent, got, alive, fault>>
    BY <1>8 DEF SrvRemove
  <2> QED
    BY <2>1, <2>2, SsFreeKeeps
<1>9. ASSUME NEW c \in Conns, NEW p \in Ports, UsrAccept(c, p) PROVE PortInv'
  <2> DEFINE l == <<"U", c>>
  <2>1. /\ port[c] = 0 /\ port' = [port EXCEPT ![c] = p]
        /\ UNCHANGED <<srv, bev, dn, ctl, queue, pipe, sent, got, alive, session, fault>>
    BY <1>9 DEF UsrAccept
  <2>2. p # 0 /\ l \in Leg /\ "U" \in Side
    <3>1. p \in Nat \ {0}
      BY PortsAssumption
    <3> QED
      BY <3>1, <1>b DEF Side
  <2>3. port' \in [Conns -> Ports \cup {0}]
    BY <2>1 DEF TypeOK
  <2>4. \/ /\ ScMayCreate("U", p)
           /\ cl' = [cl EXCEPT ![l] = "opening"]
           /\ place' = [place EXCEPT ![l] = "main"]
           /\ up' = [up EXCEPT ![l] = <<ConnHead>>]
        \/ cl' = [cl EXCEPT ![l] = "refused"] /\ UNCHANGED <<place, up>>
    BY <1>9 DEF UsrAccept
  <2>5. cl' \in [Leg -> ClStatus] /\ place' \in [Leg -> Places]
    BY <2>2, <2>4 DEF TypeOK, ClStatus, Places
  <2>6. up' \in Channels
    <3>1. <<ConnHead>> \in Seq(Items)
      BY ItemTypes
    <3> QED
      BY <2>2, <2>4, <3>1 DEF TypeOK, Channels
  <2>7. TypeOK'
    BY <2>1, <2>3, <2>5, <2>6 DEF TypeOK, Channels, Msgs
  <2>8. CtlKnown'
    <3>1. KnownMsgs \subseteq KnownMsgs'
      <4>1. ASSUME NEW m \in KnownMsgs PROVE m \in KnownMsgs'
        <5>1. m \in Msgs /\ m.of \in Conns /\ m.port \in Ports /\ m.port = port[m.of]
          BY DEF KnownMsgs, Msgs
        <5>2. m.port \in Nat \ {0}
          BY <5>1, PortsAssumption
        <5>3. m.of # c
          BY <2>1, <5>1, <5>2
        <5>4. port'[m.of] = m.port
          BY <2>1, <5>1, <5>3 DEF TypeOK
        <5> QED
          BY <5>1, <5>4 DEF KnownMsgs, Msgs
      <4> QED
        BY <4>1
    <3>2. Seq(KnownMsgs) \subseteq Seq(KnownMsgs')
      BY <3>1, SeqMonotonic
    <3>3. ctl \in [Side -> [net : Seq(KnownMsgs), buf : Seq(KnownMsgs)]]
      BY DEF CtlKnown
    <3>4. [net : Seq(KnownMsgs), buf : Seq(KnownMsgs)]
              \subseteq [net : Seq(KnownMsgs'), buf : Seq(KnownMsgs')]
      BY <3>2
    <3>5. ctl \in [Side -> [net : Seq(KnownMsgs'), buf : Seq(KnownMsgs')]]
      BY <3>3, <3>4
    <3>6. ctl' = ctl
      BY <2>1
    <3> QED
      BY <3>5, <3>6 DEF CtlKnown
  <2>9. PortKnown'
    BY <1>b, <2>1, <2>2, <2>4 DEF PortKnown, TypeOK
  <2>10. UniquePorts'
    <3>1. SsListed' = SsListed /\ SsListed \subseteq Conns /\ c \notin SsListed
      BY <2>1 DEF SsListed, PortKnown
    <3>2. \A r \in Side : \A b \in Conns :
              b \in ScListed(r)' => (IF b = c THEN r = "U" /\ ScFind("U", p) = {}
                                              ELSE b \in ScListed(r))
      <4>1. \A r \in Side : c \notin ScListed(r)
        BY <2>1 DEF ScListed, PortKnown
      <4>2. \A k \in Leg : k # l => cl'[k] = cl[k]
        BY <2>4 DEF TypeOK
      <4>3. ASSUME NEW r \in Side, NEW b \in Conns, b \in ScListed(r)', b # c
            PROVE  b \in ScListed(r)
        <5>1. <<r, b>> \in Leg /\ <<r, b>> # l
          BY <1>b, <4>3
        <5> QED
          BY <4>2, <4>3, <5>1 DEF ScListed
      <4>4. ASSUME NEW r \in Side, c \in ScListed(r)' PROVE r = "U" /\ ScFind("U", p) = {}
        <5>1. cl'[<<r, c>>] # cl[<<r, c>>]
          BY <4>1, <4>4 DEF ScListed
        <5>2. <<r, c>> = l /\ cl'[l] \in {"stuck", "opening", "active"}
          BY <1>b, <4>2, <4>4, <5>1 DEF ScListed
        <5>3. ScMayCreate("U", p)
          BY <2>2, <2>4, <5>2 DEF TypeOK
        <5> QED
          BY <5>2, <5>3 DEF ScMayCreate
      <4> QED
        BY <4>3, <4>4
    <3>3. \A b \in Conns : b \in ScListed("U") => b \in ScFind("U", p) \/ port[b] # p
      BY DEF ScFind
    <3>4. \A b \in Conns : port'[b] = IF b = c THEN p ELSE port[b]
      BY <2>1 DEF TypeOK
    <3> QED
      BY <3>1, <3>2, <3>3, <3>4 DEF UniquePorts
  <2> QED
    BY <2>7, <2>8, <2>9, <2>10 DEF PortInv
<1>10. ASSUME NEW l \in Leg, ClientSend(l) PROVE PortInv'
  <2>1. CtlKnown'
    BY <1>10, <1>a DEF ClientSend, CtlKnown
  <2>2. up' \in Channels /\ sent' \in [Leg -> 0..MaxData]
    <3>1. Chunk(l, sent[l] + 1) \in Items
      BY <1>10, ItemTypes, BoundsAssumption DEF ClientSend, TypeOK
    <3> QED
      BY <1>10, <3>1, AppendType, BoundsAssumption DEF ClientSend, TypeOK, Channels
  <2>3. TypeOK'
    BY <1>10, <2>1, <2>2 DEF ClientSend, TypeOK, Channels
  <2>4. (PortKnown /\ UniquePorts)'
    <3>1. UNCHANGED <<port, srv, cl, place>>
      BY <1>10 DEF ClientSend
    <3> QED
      BY <3>1, NothingListed
  <2> QED
    BY <2>1, <2>3, <2>4 DEF PortInv
<1>11. ASSUME NEW l \in Leg, ClientRecv(l) PROVE PortInv'
  <2>1. CtlKnown'
    BY <1>11, <1>a DEF ClientRecv, CtlKnown
  <2>2. dn' \in Channels /\ got' \in Channels
    BY <1>11, TailType, AppendType DEF ClientRecv, TypeOK, Channels
  <2>3. TypeOK'
    BY <1>11, <2>1, <2>2 DEF ClientRecv, TypeOK, Channels
  <2>4. (PortKnown /\ UniquePorts)'
    <3>1. UNCHANGED <<port, srv, cl, place>>
      BY <1>11 DEF ClientRecv
    <3> QED
      BY <3>1, NothingListed
  <2> QED
    BY <2>1, <2>3, <2>4 DEF PortInv
<1>12. ASSUME NEW l \in Leg, ClientSrvEof(l) PROVE PortInv'
  <2>1. ScFree({l}) /\ {l} \in SUBSET Leg /\ \A k \in {l} : cl[k] \in Listed
    BY <1>12 DEF ClientSrvEof, Listed
  <2>2. UNCHANGED <<port, srv, bev, place, ctl, queue, pipe, sent, got, alive, session, fault>>
    BY <1>12 DEF ClientSrvEof
  <2>3. alive' \in [Side -> BOOLEAN]
    BY <2>2 DEF TypeOK
  <2> QED
    BY <2>1, <2>2, <2>3, ScFreeKeeps
<1>13. ASSUME NEW l \in Leg, ClientLocalEof(l) PROVE PortInv'
  <2>1. ScFree({l}) /\ {l} \in SUBSET Leg /\ \A k \in {l} : cl[k] \in Listed
    BY <1>13 DEF ClientLocalEof, Listed
  <2>2. UNCHANGED <<port, srv, bev, place, ctl, queue, pipe, sent, got, alive, session, fault>>
    BY <1>13 DEF ClientLocalEof
  <2>3. alive' \in [Side -> BOOLEAN]
    BY <2>2 DEF TypeOK
  <2> QED
    BY <2>1, <2>2, <2>3, ScFreeKeeps
<1>14. ASSUME NEW s \in Side, ClientLeave(s) PROVE PortInv'
  <2> DEFINE S == {<<s, c>> : c \in ScListed(s)}
  <2>1. ScFree(S) /\ S \in SUBSET Leg /\ \A l \in S : cl[l] \in Listed
    BY <1>14, <1>b DEF ClientLeave, ScFreeAll, ScListed, Listed
  <2>2. UNCHANGED <<port, srv, bev, place, ctl, queue, pipe, sent, got, session, fault>>
    BY <1>14 DEF ClientLeave
  <2>3. alive' \in [Side -> BOOLEAN]
    BY <1>14 DEF ClientLeave, TypeOK
  <2> QED
    BY <2>1, <2>2, <2>3, ScFreeKeeps
<1>15. CASE UNCHANGED vars
  BY <1>15, <1>a DEF vars, PortInv, TypeOK, CtlKnown, PortKnown, UniquePorts, SsListed, ScListed,
                     Msgs
<1>16. CASE SrvMainEof
  <2>1. /\ UNCHANGED <<port, cl, srv, bev, place, up, dn, ctl, queue, pipe, sent, got, alive, fault>>
        /\ session' = "ending"
    BY <1>16 DEF SrvMainEof
  <2> QED
    BY <2>1, <1>a DEF PortInv, TypeOK, CtlKnown, PortKnown, UniquePorts, SsListed, ScListed, Msgs
<1> QED
  BY <1>1, <1>2, <1>3, <1>4, <1>5, <1>6, <1>7, <1>8, <1>9, <1>10, <1>11, <1>12, <1>13, <1>14, <1>15,
     <1>16
  DEF Next, System, Environment

-----------------------------------------------------------------------------
(* The order of the legs.                                                  *)

\* A step that leaves trans, slots and queues alone keeps their order.
LEMMA QuietKeeps ==
    ASSUME PortInv, OrderInv, Ok, UNCHANGED <<srv, bev, queue>>,
           \A c \in Conns : srv[c] # "none" =>
               /\ port'[c] = port[c] /\ place'[<<"U", c>>] # "main"
               /\ place[<<"U", c>>] = "lost" => place'[<<"U", c>>] = "lost"
    PROVE  OrderInv'
<1>1. UserFresh' /\ JobsKnown' /\ SlotsKnown'
  BY DEF OrderInv, UserFresh, JobsKnown, SlotsKnown
<1>a. \A t : t \in Conns /\ srv[t] = "listed" /\ UserIn(t) => UserIn(t)'
  BY DEF UserIn
<1>2. UserComes'
  <2>1. ASSUME NEW t \in Conns, srv[t] = "listed" PROVE UserCame(t)'
    <3>1. port'[t] = port[t]
      BY <2>1
    <3>2. UserCame(t)
      BY <2>1 DEF OrderInv, UserComes
    <3> QED
      BY <1>a, <2>1, <3>1, <3>2 DEF UserCame, UserJob
  <2> QED
    BY <2>1 DEF UserComes
<1>3. UserBefore'
  <2>1. \A th \in Threads : \A i \in 1..Len(queue[th]) : queue[th][i].trans \in Conns
    <3>1. queue \in [Threads -> Seq(Jobs)]
      BY DEF PortInv, TypeOK
    <3>2. \A th \in Threads : \A i \in 1..Len(queue[th]) : queue[th][i] \in Jobs
      BY <3>1, ElementOfSeq
    <3> QED
      BY <3>2 DEF Jobs
  <2> QED
    BY <1>a, <2>1 DEF OrderInv, UserBefore, UserJob
<1> QED
  BY <1>1, <1>2, <1>3 DEF OrderInv

\* Freeing trans that were created keeps the order of the others.
LEMMA FreeKeeps ==
    ASSUME PortInv, OrderInv, Ok, NEW T \in SUBSET Conns, SsFree(T),
           \A t \in T : srv[t] # "none", UNCHANGED <<port, queue>>
    PROVE  OrderInv'
<1>1. /\ \A c \in Conns : srv'[c] = IF c \in T THEN "freed" ELSE srv[c]
      /\ \A s \in Side : \A c \in Conns \ T : bev'[<<s, c>>] = bev[<<s, c>>]
      /\ \A l \in Leg : place'[l] \in {place[l], "closed"}
      /\ queue \in [Threads -> Seq(Jobs)]
  BY SsFreeStep DEF PortInv, TypeOK
<1>2. \A c \in Conns : /\ srv'[c] = "none" <=> srv[c] = "none"
                       /\ srv'[c] = "listed" => srv[c] = "listed" /\ c \notin T
  BY <1>1
<1>3. \A th \in Threads : \A i \in 1..Len(queue[th]) : queue[th][i].trans \in Conns
  <2>1. ASSUME NEW th \in Threads, NEW i \in 1..Len(queue[th]) PROVE queue[th][i] \in Jobs
    BY <1>1, ElementOfSeq
  <2> QED
    BY <2>1 DEF Jobs
<1>4. UserFresh'
  <2>1. \A c \in Conns : <<"U", c>> \in Leg
    BY DEF Leg, Side
  <2> QED
    BY <1>1, <1>2, <2>1 DEF OrderInv, UserFresh
<1>5. JobsKnown'
  BY <1>2, <1>3 DEF OrderInv, JobsKnown
<1>6. SlotsKnown'
  <2>1. ASSUME NEW s \in Side, NEW t \in Conns, bev'[<<s, t>>] # None
        PROVE  bev'[<<s, t>>] = bev[<<s, t>>]
    <3>1. <<s, t>> \in Leg
      BY DEF Leg
    <3> QED
      BY <2>1, <3>1 DEF SsFree
  <2> QED
    BY <1>1, <2>1 DEF OrderInv, SlotsKnown
<1>9. ASSUME NEW t \in Conns, srv'[t] = "listed", UserIn(t) PROVE UserIn(t)'
  <2>1. t \notin T /\ "U" \in Side /\ <<"U", t>> \in Leg
    BY <1>2, <1>9 DEF Leg, Side
  <2>2. CASE bev[<<"U", t>>] # None
    BY <1>1, <2>1, <2>2 DEF UserIn
  <2>3. CASE place[<<"U", t>>] = "lost"
    <3> DEFINE slots == {x \in Side \X T : bev[x] # None}
               legs  == {<<x[1], bev[x]>> : x \in slots}
    <3>1. place'[<<"U", t>>] = IF <<"U", t>> \in legs THEN "closed" ELSE place[<<"U", t>>]
      BY <2>1 DEF SsFree
    <3>2. <<"U", t>> \notin legs
      <4>1. ASSUME NEW x \in slots, <<"U", t>> = <<x[1], bev[x]>> PROVE FALSE
        <5>1. PICK r \in Side, b \in T : x = <<r, b>>
          OBVIOUS
        <5>2. r = "U" /\ bev[<<"U", b>>] = t /\ b \in Conns /\ bev[<<"U", b>>] # None
          BY <4>1, <5>1
        <5>3. b = t
          BY <2>1, <5>2 DEF OrderInv, SlotsKnown
        <5> QED
          BY <2>1, <5>3
      <4> QED
        BY <4>1
    <3> QED
      BY <2>3, <3>1, <3>2 DEF UserIn
  <2> QED
    BY <1>9, <2>2, <2>3 DEF UserIn
<1>7. UserComes'
  BY <1>1, <1>2, <1>9 DEF OrderInv, UserComes, UserCame, UserJob, Side
<1>8. UserBefore'
  BY <1>1, <1>2, <1>3, <1>9 DEF OrderInv, UserBefore, UserJob, Side
<1> QED
  BY <1>4, <1>5, <1>6, <1>7, <1>8 DEF OrderInv

\* The job that is handed over stands last; the others keep their places.
LEMMA EnqueueStep ==
    ASSUME PortInv, NEW s \in Side, NEW c \in Conns, NEW t \in Conns,
           Handed(s, c, t, ThreadOf(port[c]))
    PROVE  LET h == ThreadOf(port[c]) IN
           /\ h \in Threads
           /\ Len(queue'[h]) = Len(queue[h]) + 1
           /\ \A th \in Threads : th # h => queue'[th] = queue[th]
           /\ \A th \in Threads : Len(queue[th]) \in Nat /\ Len(queue'[th]) \in Nat
           /\ \A th \in Threads : Len(queue[th]) <= Len(queue'[th])
           /\ \A th \in Threads : \A i \in 1..Len(queue[th]) : queue'[th][i] = queue[th][i]
           /\ queue'[h][Len(queue[h]) + 1] = [kind |-> s, conn |-> c, trans |-> t]
<1> DEFINE h == ThreadOf(port[c])
           j == [kind |-> s, conn |-> c, trans |-> t]
<1>1. h \in Threads /\ j \in Jobs /\ queue \in [Threads -> Seq(Jobs)]
  BY PortType, ThreadType DEF Jobs, PortInv, TypeOK
<1>2. queue' = [queue EXCEPT ![h] = Append(@, j)]
  BY DEF Handed
<1>3. /\ Len(Append(queue[h], j)) = Len(queue[h]) + 1
      /\ \A i \in 1..Len(queue[h]) : Append(queue[h], j)[i] = queue[h][i]
      /\ Append(queue[h], j)[Len(queue[h]) + 1] = j
  BY <1>1, AppendProperties
<1>4. \A th \in Threads : Len(queue[th]) \in Nat
  BY <1>1, LenProperties
<1>5. \A th \in Threads : queue'[th] = IF th = h THEN Append(queue[h], j) ELSE queue[th]
  BY <1>1, <1>2
<1> HIDE DEF h, j
<1>6. /\ Len(queue'[h]) = Len(queue[h]) + 1
      /\ \A th \in Threads : th # h => queue'[th] = queue[th]
  BY <1>1, <1>3, <1>5
<1>7. ASSUME NEW th \in Threads
      PROVE  Len(queue'[th]) \in Nat /\ Len(queue[th]) <= Len(queue'[th])
  <2>1. CASE th = h
    BY <1>4, <1>6, <2>1
  <2>2. CASE th # h
    BY <1>4, <1>6, <2>2
  <2> QED
    BY <2>1, <2>2
<1>8. \A th \in Threads : \A i \in 1..Len(queue[th]) : queue'[th][i] = queue[th][i]
  BY <1>3, <1>5
<1>9. queue'[h][Len(queue[h]) + 1] = j
  BY <1>1, <1>3, <1>5
<1> QED
  BY <1>1, <1>4, <1>6, <1>7, <1>8, <1>9 DEF h, j

\* The places of a queue after an item is handed over: the old ones and the last.
LEMMA LastPlace ==
    ASSUME NEW n \in Nat, NEW i \in 1..(n + 1)
    PROVE  i \in 1..n \/ i = n + 1
  OBVIOUS

\* The main loop lists the trans of c and loses its USR leg in one step.
LEMMA UserLost ==
    ASSUME PortInv, OrderInv, Ok, NEW c \in Conns, SrvConnUsr(c), SsMayCreate(port[c]),
           ~Handed("U", c, c, ThreadOf(port[c]))
    PROVE  OrderInv'
<1>1. /\ UNCHANGED <<port, bev, queue>>
      /\ srv' = [srv EXCEPT ![c] = "listed"]
      /\ place' = [place EXCEPT ![<<"U", c>>] = "lost"]
      /\ place[<<"U", c>>] = "main"
  BY DEF SrvConnUsr, HasConn, Enqueue
<1>2. /\ srv \in [Conns -> {"none", "listed", "freed"}] /\ place \in [Leg -> Places]
      /\ "U" \in Side /\ \A t \in Conns : <<"U", t>> \in Leg
  BY DEF PortInv, TypeOK, Leg, Side
<1>3. srv[c] = "none" /\ port[c] # 0
  BY <1>1, <1>2 DEF OrderInv, UserFresh, PortInv, PortKnown
<1>4. \A t \in Conns : srv'[t] = IF t = c THEN "listed" ELSE srv[t]
  BY <1>1, <1>2
<1>5. \A t \in Conns : place'[<<"U", t>>] = IF t = c THEN "lost" ELSE place[<<"U", t>>]
  BY <1>1, <1>2
<1>6. \A t \in Conns : (UserIn(t) \/ t = c) => UserIn(t)'
  BY <1>1, <1>5 DEF UserIn
<1>7. \A th \in Threads : \A i \in 1..Len(queue[th]) :
          queue[th][i].trans \in Conns /\ queue[th][i].trans # c
  <2>1. queue \in [Threads -> Seq(Jobs)]
    BY DEF PortInv, TypeOK
  <2>2. \A th \in Threads : \A i \in 1..Len(queue[th]) : queue[th][i] \in Jobs
    BY <2>1, ElementOfSeq
  <2> QED
    BY <1>3, <2>2 DEF Jobs, OrderInv, JobsKnown
<1>8. UserFresh'
  BY <1>1, <1>3, <1>4, <1>5 DEF OrderInv, UserFresh
<1>9. JobsKnown' /\ SlotsKnown'
  BY <1>1, <1>4, <1>7 DEF OrderInv, JobsKnown, SlotsKnown
<1>10. UserComes'
  BY <1>1, <1>4, <1>6 DEF OrderInv, UserComes, UserCame, UserJob
<1>11. UserBefore'
  BY <1>1, <1>4, <1>6, <1>7 DEF OrderInv, UserBefore, UserJob
<1> QED
  BY <1>8, <1>9, <1>10, <1>11 DEF OrderInv

\* The main loop queues the USR leg of c and lists its trans in one step.
LEMMA UserQueued ==
    ASSUME PortInv, OrderInv, Ok, NEW c \in Conns, SrvConnUsr(c), SsMayCreate(port[c]),
           Handed("U", c, c, ThreadOf(port[c]))
    PROVE  OrderInv'
<1> DEFINE h == ThreadOf(port[c])
<1>1. /\ UNCHANGED <<port, bev>>
      /\ srv' = [srv EXCEPT ![c] = "listed"]
      /\ place' = [place EXCEPT ![<<"U", c>>] = "queued"]
      /\ place[<<"U", c>>] = "main"
  BY DEF SrvConnUsr, HasConn, Handed
<1>2. /\ srv \in [Conns -> {"none", "listed", "freed"}] /\ place \in [Leg -> Places]
      /\ "U" \in Side /\ \A t \in Conns : <<"U", t>> \in Leg
  BY DEF PortInv, TypeOK, Leg, Side
<1>3. srv[c] = "none" /\ port[c] # 0
  BY <1>1, <1>2 DEF OrderInv, UserFresh, PortInv, PortKnown
<1>4. /\ h \in Threads
      /\ Len(queue'[h]) = Len(queue[h]) + 1
      /\ \A th \in Threads : th # h => queue'[th] = queue[th]
      /\ \A th \in Threads : Len(queue[th]) \in Nat /\ Len(queue'[th]) \in Nat
      /\ \A th \in Threads : Len(queue[th]) <= Len(queue'[th])
      /\ \A th \in Threads : \A i \in 1..Len(queue[th]) : queue'[th][i] = queue[th][i]
      /\ queue'[h][Len(queue[h]) + 1] = [kind |-> "U", conn |-> c, trans |-> c]
  BY <1>2, EnqueueStep
<1>5. \A t \in Conns : srv'[t] = IF t = c THEN "listed" ELSE srv[t]
  BY <1>1, <1>2
<1> HIDE DEF h
<1>6. ASSUME NEW th \in Threads, NEW i \in 1..Len(queue'[th])
      PROVE  \/ i \in 1..Len(queue[th]) /\ queue'[th][i] = queue[th][i]
             \/ queue'[th][i] = [kind |-> "U", conn |-> c, trans |-> c]
  <2>1. CASE th = h
    BY <1>4, <2>1, LastPlace
  <2>2. CASE th # h
    <3>1. queue'[th] = queue[th]
      BY <1>4, <2>2
    <3> QED
      BY <1>4, <3>1
  <2> QED
    BY <2>1, <2>2
<1>7. UserFresh'
  BY <1>1, <1>2, <1>3, <1>5 DEF OrderInv, UserFresh
<1>0. \A t \in Conns : UserIn(t) => UserIn(t)'
  <2>1. \A t \in Conns : place[<<"U", t>>] = "lost" => place'[<<"U", t>>] = "lost"
    BY <1>1, <1>2
  <2> QED
    BY <1>1, <2>1 DEF UserIn
<1>8. JobsKnown'
  <2>1. ASSUME NEW th \in Threads, NEW i \in 1..Len(queue'[th])
        PROVE  /\ srv'[queue'[th][i].trans] # "none"
               /\ queue'[th][i].kind = "U" => queue'[th][i].conn = queue'[th][i].trans
    <3>1. CASE queue'[th][i] = [kind |-> "U", conn |-> c, trans |-> c]
      BY <1>5, <3>1
    <3>2. CASE i \in 1..Len(queue[th]) /\ queue'[th][i] = queue[th][i]
      <4>1. queue[th][i] \in Jobs
        BY <3>2, ElementOfSeq DEF PortInv, TypeOK
      <4>2. /\ queue[th][i].trans \in Conns /\ srv[queue[th][i].trans] # "none"
            /\ queue[th][i].kind = "U" => queue[th][i].conn = queue[th][i].trans
        BY <3>2, <4>1 DEF Jobs, OrderInv, JobsKnown
      <4> QED
        BY <1>5, <3>2, <4>2
    <3> QED
      BY <1>6, <3>1, <3>2
  <2> QED
    BY <2>1 DEF JobsKnown
<1>9. SlotsKnown'
  BY <1>1, <1>5 DEF OrderInv, SlotsKnown
<1>10. UserComes'
  <2>1. ASSUME NEW t \in Conns, srv'[t] = "listed" PROVE UserCame(t)'
    <3>1. CASE t = c
      <4>1. Len(queue[h]) + 1 \in 1..Len(queue'[h])
        BY <1>4
      <4>2. /\ queue'[h][Len(queue[h]) + 1].kind = "U"
            /\ queue'[h][Len(queue[h]) + 1].trans = t
        BY <1>4, <3>1
      <4>3. ThreadOf(port'[t]) = h
        BY <1>1, <3>1 DEF h
      <4> QED
        BY <4>1, <4>2, <4>3 DEF UserCame, UserJob
    <3>2. CASE t # c /\ UserIn(t)
      BY <1>0, <3>2 DEF UserCame
    <3>3. CASE t # c /\ ~UserIn(t)
      <4>1. UserCame(t)
        BY <1>5, <2>1, <3>3 DEF OrderInv, UserComes
      <4>2. PICK i \in 1..Len(queue[ThreadOf(port[t])]) : UserJob(ThreadOf(port[t]), i, t)
        BY <3>3, <4>1 DEF UserCame
      <4>3. ThreadOf(port[t]) \in Threads
        BY PortType, ThreadType
      <4>4. i \in 1..Len(queue'[ThreadOf(port[t])])
        <5>1. LET th == ThreadOf(port[t])
              IN  /\ Len(queue[th]) \in Nat /\ Len(queue'[th]) \in Nat
                  /\ Len(queue[th]) <= Len(queue'[th])
          BY <1>4, <4>3
        <5> QED
          BY <5>1
      <4>5. queue'[ThreadOf(port[t])][i] = queue[ThreadOf(port[t])][i]
        BY <1>4, <4>3
      <4> QED
        BY <1>1, <4>2, <4>4, <4>5 DEF UserCame, UserJob
    <3> QED
      BY <3>1, <3>2, <3>3
  <2> QED
    BY <2>1 DEF UserComes
<1>11. UserBefore'
  <2>1. ASSUME NEW th \in Threads, NEW i \in 1..Len(queue'[th]), NEW t \in Conns,
               t = queue'[th][i].trans, queue'[th][i].kind = "D", srv'[t] = "listed"
        PROVE  UserIn(t)' \/ \E k \in 1..(i - 1) : UserJob(th, k, t)'
    <3>1. i \in 1..Len(queue[th]) /\ queue'[th][i] = queue[th][i]
      BY <1>6, <2>1
    <3>2. t # c
      BY <1>3, <2>1, <3>1 DEF OrderInv, JobsKnown
    <3>3. UserIn(t) \/ \E k \in 1..(i - 1) : UserJob(th, k, t)
      BY <1>5, <2>1, <3>1, <3>2 DEF OrderInv, UserBefore
    <3>4. \A k \in 1..(i - 1) : queue'[th][k] = queue[th][k]
      BY <1>4, <3>1
    <3> QED
      BY <1>0, <3>3, <3>4 DEF UserJob
  <2>2. \A th \in Threads : \A i \in 1..Len(queue'[th]) : queue'[th][i].trans \in Conns
    <3>1. queue' \in [Threads -> Seq(Jobs)]
      BY <1>2, EnqueueType DEF Enqueue
    <3>2. \A th \in Threads : \A i \in 1..Len(queue'[th]) : queue'[th][i] \in Jobs
      BY <3>1, ElementOfSeq
    <3> QED
      BY <3>2 DEF Jobs
  <2> QED
    BY <1>1, <2>1, <2>2 DEF UserBefore, UserJob
<1> QED
  BY <1>7, <1>8, <1>9, <1>10, <1>11 DEF OrderInv

\* A DAEMON leg is queued for a trans that is listed, whose USR leg has come or
\* stands before it: both went to the thread of the same port.
LEMMA DaemonQueued ==
    ASSUME PortInv, OrderInv, Ok, NEW c \in Conns, NEW t \in SsFind(port[c]),
           Handed("D", c, t, ThreadOf(port[c])),
           UNCHANGED <<port, srv, bev>>, \A b \in Conns : place'[<<"U", b>>] = place[<<"U", b>>]
    PROVE  OrderInv'
<1> DEFINE h == ThreadOf(port[c])
<1>1. t \in Conns /\ srv[t] = "listed" /\ port[t] = port[c] /\ "D" \in Side
  BY DEF SsFind, SsListed, Side
<1>2. /\ h \in Threads
      /\ Len(queue'[h]) = Len(queue[h]) + 1
      /\ \A th \in Threads : th # h => queue'[th] = queue[th]
      /\ \A th \in Threads : Len(queue[th]) \in Nat /\ Len(queue'[th]) \in Nat
      /\ \A th \in Threads : Len(queue[th]) <= Len(queue'[th])
      /\ \A th \in Threads : \A i \in 1..Len(queue[th]) : queue'[th][i] = queue[th][i]
      /\ queue'[h][Len(queue[h]) + 1] = [kind |-> "D", conn |-> c, trans |-> t]
  BY <1>1, EnqueueStep
<1>3. UserFresh' /\ SlotsKnown'
  BY DEF OrderInv, UserFresh, SlotsKnown
<1>4. UserCame(t) /\ ThreadOf(port[t]) = h
  BY <1>1 DEF OrderInv, UserComes
<1>0. \A b \in Conns : UserIn(b) => UserIn(b)'
  BY DEF UserIn
<1> HIDE DEF h
<1>5. ASSUME NEW th \in Threads, NEW i \in 1..Len(queue'[th])
      PROVE  \/ i \in 1..Len(queue[th]) /\ queue'[th][i] = queue[th][i]
             \/ /\ th = h /\ i = Len(queue[h]) + 1
                /\ queue'[th][i] = [kind |-> "D", conn |-> c, trans |-> t]
  <2>1. CASE th = h
    BY <1>2, <2>1, LastPlace
  <2>2. CASE th # h
    <3>1. queue'[th] = queue[th]
      BY <1>2, <2>2
    <3> QED
      BY <1>2, <3>1
  <2> QED
    BY <2>1, <2>2
<1>6. JobsKnown'
  <2>1. ASSUME NEW th \in Threads, NEW i \in 1..Len(queue'[th])
        PROVE  /\ srv[queue'[th][i].trans] # "none"
               /\ queue'[th][i].kind = "U" => queue'[th][i].conn = queue'[th][i].trans
    BY <1>1, <1>5, <2>1 DEF OrderInv, JobsKnown
  <2> QED
    BY <2>1 DEF JobsKnown
<1>7. UserComes'
  <2>1. ASSUME NEW b \in Conns, srv[b] = "listed" PROVE UserCame(b)'
    <3>1. CASE UserIn(b)
      BY <1>0, <3>1 DEF UserCame
    <3>2. CASE ~UserIn(b)
      <4>1. UserCame(b)
        BY <2>1 DEF OrderInv, UserComes
      <4>2. PICK i \in 1..Len(queue[ThreadOf(port[b])]) : UserJob(ThreadOf(port[b]), i, b)
        BY <3>2, <4>1 DEF UserCame
      <4>3. ThreadOf(port[b]) \in Threads
        BY PortType, ThreadType
      <4>4. i \in 1..Len(queue'[ThreadOf(port[b])])
        <5>1. LET th == ThreadOf(port[b])
              IN  /\ Len(queue[th]) \in Nat /\ Len(queue'[th]) \in Nat
                  /\ Len(queue[th]) <= Len(queue'[th])
          BY <1>2, <4>3
        <5> QED
          BY <5>1
      <4>5. queue'[ThreadOf(port[b])][i] = queue[ThreadOf(port[b])][i]
        BY <1>2, <4>3
      <4> QED
        BY <4>2, <4>4, <4>5 DEF UserCame, UserJob
    <3> QED
      BY <3>1, <3>2
  <2> QED
    BY <2>1 DEF UserComes
<1>8. UserBefore'
  <2>1. ASSUME NEW th \in Threads, NEW i \in 1..Len(queue'[th]), NEW b,
               b = queue'[th][i].trans, queue'[th][i].kind = "D", srv[b] = "listed"
        PROVE  UserIn(b)' \/ \E k \in 1..(i - 1) : UserJob(th, k, b)'
    <3>0. b \in Conns
      <4>1. queue' \in [Threads -> Seq(Jobs)]
        BY <1>1, EnqueueType DEF Enqueue
      <4>2. queue'[th][i] \in Jobs
        BY <2>1, <4>1, ElementOfSeq
      <4> QED
        BY <2>1, <4>2 DEF Jobs
    <3>1. CASE i \in 1..Len(queue[th]) /\ queue'[th][i] = queue[th][i]
      <4>1. UserIn(b) \/ \E k \in 1..(i - 1) : UserJob(th, k, b)
        BY <2>1, <3>1 DEF OrderInv, UserBefore
      <4>2. \A k \in 1..(i - 1) : queue'[th][k] = queue[th][k]
        BY <1>2, <3>1
      <4> QED
        BY <1>0, <3>0, <4>1, <4>2 DEF UserJob
    <3>2. CASE /\ th = h /\ i = Len(queue[h]) + 1
               /\ queue'[th][i] = [kind |-> "D", conn |-> c, trans |-> t]
      <4>1. b = t
        BY <2>1, <3>2
      <4>2. UserIn(t)' \/ \E k \in 1..Len(queue[h]) : UserJob(h, k, t)
        BY <1>0, <1>1, <1>4 DEF UserCame
      <4>3. 1..(i - 1) = 1..Len(queue[h])
        BY <1>2, <3>2
      <4>4. \A k \in 1..Len(queue[h]) : queue'[h][k] = queue[h][k]
        BY <1>2
      <4> QED
        BY <3>2, <4>1, <4>2, <4>3, <4>4 DEF UserJob
    <3> QED
      BY <1>5, <3>1, <3>2
  <2> QED
    BY <2>1 DEF UserBefore, UserJob
<1> QED
  BY <1>3, <1>6, <1>7, <1>8 DEF OrderInv

\* The places of a queue after its head is taken.
LEMMA ShiftPlace ==
    ASSUME NEW n \in Nat
    PROVE  /\ \A i \in 1..(n - 1) : i + 1 \in 1..n
           /\ \A i \in 1..n : i # 1 => i - 1 \in 1..(n - 1) /\ (i - 1) + 1 = i
  OBVIOUS

\* A worker that takes the USR job of a listed trans fills the slot; every
\* other job moves one place up.
LEMMA TakeKeeps ==
    ASSUME PortInv, OrderInv, Ok, NEW th \in Threads, WorkerTake(th), queue[th] # <<>>
    PROVE  OrderInv'
<1> DEFINE j == Head(queue[th])
<1>1. /\ queue' = [queue EXCEPT ![th] = Tail(@)] /\ UNCHANGED <<port, srv>>
      /\ \/ srv[j.trans] = "listed" /\ Attach(j)
         \/ fault' # "none" /\ UNCHANGED <<bev, place>>
  BY DEF WorkerTake, Serve
<1>2. /\ queue \in [Threads -> Seq(Jobs)] /\ bev \in [Leg -> Conns \cup {None}]
      /\ place \in [Leg -> Places] /\ \A s \in Side, c \in Conns : <<s, c>> \in Leg
  BY DEF PortInv, TypeOK, Leg
<1>3. /\ j \in Jobs /\ Tail(queue[th]) \in Seq(Jobs)
      /\ Len(Tail(queue[th])) = Len(queue[th]) - 1
      /\ \A i \in 1..Len(Tail(queue[th])) : Tail(queue[th])[i] = queue[th][i + 1]
      /\ Len(queue[th]) \in Nat
  <2>1. queue[th] \in Seq(Jobs)
    BY <1>2
  <2> QED
    BY <1>1, <2>1, HeadTailProperties, LenProperties
<1>4. queue[th][1] = j /\ j.kind \in Side /\ j.conn \in Conns /\ j.trans \in Conns
  BY <1>1, <1>2, <1>3 DEF Jobs
<1> HIDE DEF j
<1>5. /\ queue'[th] = Tail(queue[th])
      /\ \A h \in Threads : h # th => queue'[h] = queue[h]
  BY <1>1, <1>2
<1>6. ASSUME NEW h \in Threads, NEW i \in 1..Len(queue'[h])
      PROVE  \/ h # th /\ queue'[h] = queue[h]
             \/ /\ h = th /\ i \in 1..(Len(queue[th]) - 1) /\ i + 1 \in 1..Len(queue[th])
                /\ queue'[th][i] = queue[th][i + 1]
  <2>1. CASE h # th
    BY <1>5, <2>1
  <2>2. CASE h = th
    <3>1. i \in 1..(Len(queue[th]) - 1) /\ i \in 1..Len(Tail(queue[th]))
      BY <1>3, <1>5, <2>2
    <3>2. i + 1 \in 1..Len(queue[th])
      BY <1>3, <3>1, ShiftPlace
    <3> QED
      BY <1>3, <1>5, <2>2, <3>1, <3>2
  <2> QED
    BY <2>1, <2>2
<1>7. \A s \in Side, t \in Conns : bev[<<s, t>>] # None => bev'[<<s, t>>] # None
  BY <1>1, <1>2, <1>4, NoneAssumption DEF Attach
<1>8. Ok' /\ j.kind = "U" /\ srv[j.trans] = "listed" => bev'[<<"U", j.trans>>] # None
  BY <1>1, <1>2, <1>4, NoneAssumption DEF Attach, Ok
<1>14. j.kind = "U" => j.conn = j.trans
  <2>1. 1 \in 1..Len(queue[th])
    BY <1>3
  <2> QED
    BY <1>4, <2>1 DEF OrderInv, JobsKnown
<1>15. \A t \in Conns : UserIn(t) => UserIn(t)'
  <2>1. ASSUME NEW t \in Conns, place[<<"U", t>>] = "lost", place'[<<"U", t>>] # "lost"
        PROVE  bev'[<<"U", t>>] # None
    <3>1. <<"U", t>> \in Leg
      BY <1>2 DEF Side
    <3>2. Attach(j) /\ <<j.kind, j.conn>> = <<"U", t>>
      BY <1>1, <1>2, <2>1, <3>1 DEF Attach
    <3>3. bev' = [bev EXCEPT ![<<"U", t>>] = t]
      BY <1>14, <3>2 DEF Attach
    <3> QED
      BY <1>2, <3>1, <3>3, NoneAssumption
  <2> QED
    BY <1>7, <2>1 DEF UserIn, Side
<1>9. UserFresh'
  <2>1. \A c \in Conns : place'[<<"U", c>>] = "main" => place[<<"U", c>>] = "main"
    <3>1. CASE Attach(j)
      <4>1. place' = [place EXCEPT ![<<j.kind, j.conn>>] = "worker"]
        BY <3>1 DEF Attach
      <4>2. \A l \in Leg : place'[l] = place[l] \/ place'[l] = "worker"
        BY <1>2, <4>1
      <4> QED
        BY <1>2, <4>2 DEF Side
    <3>2. CASE place' = place
      BY <3>2
    <3> QED
      BY <1>1, <3>1, <3>2
  <2> QED
    BY <1>1, <2>1 DEF OrderInv, UserFresh
<1>10. JobsKnown'
  <2>1. ASSUME NEW h \in Threads, NEW i \in 1..Len(queue'[h])
        PROVE  /\ srv[queue'[h][i].trans] # "none"
               /\ queue'[h][i].kind = "U" => queue'[h][i].conn = queue'[h][i].trans
    <3>1. PICK k \in 1..Len(queue[h]) : queue'[h][i] = queue[h][k]
      BY <1>6, <2>1
    <3> QED
      BY <3>1 DEF OrderInv, JobsKnown
  <2> QED
    BY <1>1, <2>1 DEF JobsKnown
<1>11. SlotsKnown'
  <2>1. ASSUME NEW s \in Side, NEW t \in Conns, bev'[<<s, t>>] # None
        PROVE  srv[t] # "none" /\ (s = "U" => bev'[<<s, t>>] = t)
    <3>1. CASE bev'[<<s, t>>] = bev[<<s, t>>]
      BY <2>1, <3>1 DEF OrderInv, SlotsKnown
    <3>2. CASE bev'[<<s, t>>] # bev[<<s, t>>]
      <4>1. srv[j.trans] = "listed" /\ bev' = [bev EXCEPT ![<<j.kind, j.trans>>] = j.conn]
        BY <1>1, <3>2 DEF Attach
      <4>2. <<s, t>> = <<j.kind, j.trans>>
        BY <1>2, <3>2, <4>1
      <4>3. bev'[<<s, t>>] = j.conn
        BY <1>2, <4>1, <4>2
      <4> QED
        BY <1>14, <4>1, <4>2, <4>3
    <3> QED
      BY <3>1, <3>2
  <2> QED
    BY <1>1, <2>1 DEF SlotsKnown
<1>12. UserComes'
  <2>1. ASSUME Ok', NEW t \in Conns, srv[t] = "listed", ~UserIn(t)'
        PROVE  \E i \in 1..Len(queue'[ThreadOf(port[t])]) :
                   /\ queue'[ThreadOf(port[t])][i].kind = "U"
                   /\ queue'[ThreadOf(port[t])][i].trans = t
    <3> DEFINE h == ThreadOf(port[t])
    <3>1. h \in Threads /\ ~UserIn(t) /\ bev'[<<"U", t>>] = None
      BY <1>15, <2>1, PortType, ThreadType DEF UserIn
    <3>2. PICK i \in 1..Len(queue[h]) : queue[h][i].kind = "U" /\ queue[h][i].trans = t
      BY <2>1, <3>1 DEF OrderInv, UserComes, UserCame, UserJob
    <3> HIDE DEF h
    <3>3. CASE h # th
      <4>1. queue'[h] = queue[h]
        BY <1>5, <3>1, <3>3
      <4> QED
        BY <3>2, <4>1 DEF h
    <3>4. CASE h = th
      <4>1. i # 1
        BY <1>4, <1>8, <2>1, <3>1, <3>2, <3>4
      <4>2. i - 1 \in 1..Len(queue'[h]) /\ (i - 1) + 1 = i
        <5>1. i - 1 \in 1..(Len(queue[th]) - 1) /\ (i - 1) + 1 = i
          BY <1>3, <3>2, <3>4, <4>1, ShiftPlace
        <5> QED
          BY <1>3, <1>5, <3>4, <5>1
      <4>3. queue'[h][i - 1] = queue[h][i]
        BY <1>3, <1>5, <3>4, <4>2
      <4> QED
        BY <3>2, <4>2, <4>3 DEF h
    <3> QED
      BY <3>3, <3>4
  <2> QED
    BY <1>1, <2>1 DEF UserComes, UserCame, UserJob
<1>13. UserBefore'
  <2>1. ASSUME Ok', NEW h \in Threads, NEW i \in 1..Len(queue'[h]), NEW t \in Conns,
               t = queue'[h][i].trans, queue'[h][i].kind = "D", srv[t] = "listed",
               ~UserIn(t)'
        PROVE  \E k \in 1..(i - 1) : queue'[h][k].kind = "U" /\ queue'[h][k].trans = t
    <3>1. ~UserIn(t) /\ bev'[<<"U", t>>] = None
      BY <1>15, <2>1 DEF UserIn
    <3>2. CASE h # th
      BY <1>5, <2>1, <3>1, <3>2 DEF OrderInv, UserBefore, UserJob
    <3>3. CASE h = th
      <4>1. /\ i \in 1..(Len(queue[th]) - 1) /\ i + 1 \in 1..Len(queue[th])
            /\ queue'[th][i] = queue[th][i + 1]
        BY <1>6, <2>1, <3>3
      <4>2. \E k \in 1..((i + 1) - 1) : UserJob(th, k, t)
        BY <2>1, <3>1, <3>3, <4>1 DEF OrderInv, UserBefore
      <4>3. PICK k \in 1..((i + 1) - 1) : queue[th][k].kind = "U" /\ queue[th][k].trans = t
        BY <4>2 DEF UserJob
      <4>4. k # 1
        BY <1>4, <1>8, <2>1, <3>1, <4>3
      <4>5. /\ k - 1 \in 1..(i - 1) /\ (k - 1) + 1 = k
            /\ k - 1 \in 1..Len(Tail(queue[th]))
        BY <1>3, <4>1, <4>3, <4>4
      <4>6. queue'[th][k - 1] = queue[th][k]
        BY <1>3, <1>5, <4>5
      <4> QED
        BY <3>3, <4>3, <4>5, <4>6
    <3> QED
      BY <3>2, <3>3
  <2>2. \A h \in Threads : \A i \in 1..Len(queue'[h]) : queue'[h][i].trans \in Conns
    <3>1. queue' \in [Threads -> Seq(Jobs)]
      BY <1>1, <1>2, <1>3
    <3>2. \A h \in Threads : \A i \in 1..Len(queue'[h]) : queue'[h][i] \in Jobs
      BY <3>1, ElementOfSeq
    <3> QED
      BY <3>2 DEF Jobs
  <2>3. ASSUME Ok', NEW h \in Threads, NEW i \in 1..Len(queue'[h]),
               queue'[h][i].kind = "D", srv'[queue'[h][i].trans] = "listed"
        PROVE  \/ UserIn(queue[h][i].trans)'
               \/ \E k \in 1..(i - 1) : UserJob(h, k, queue[h][i].trans)'
    <3> DEFINE t == queue'[h][i].trans
    <3>1. t \in Conns /\ srv[t] = "listed"
      BY <1>1, <2>2, <2>3
    <3>2. CASE ~UserIn(queue[h][i].trans)'
      <4>1. \E k \in 1..(i - 1) : queue'[h][k].kind = "U" /\ queue'[h][k].trans = t
        BY <2>1, <2>3, <3>1, <3>2
      <4> QED
        BY <4>1 DEF UserJob
    <3> QED
      BY <3>2
  <2> QED
    BY <2>3 DEF UserBefore
<1> QED
  BY <1>9, <1>10, <1>11, <1>12, <1>13 DEF OrderInv

\* At the start the queues, the slots and the control channels are empty.
LEMMA InitInv == Init => Inv
<1> SUFFICES ASSUME Init PROVE Inv
  OBVIOUS
<1>1. UserCtl
  BY EmptySeq DEF Init, UserCtl, Side
<1>2. OrderInv
  BY DEF Init, OrderInv, UserFresh, JobsKnown, SlotsKnown, UserComes, UserBefore, Leg
<1>3. LeftFirst
  BY DEF Init, LeftFirst
<1> QED
  BY <1>1, <1>2, <1>3, InitPortInv DEF Inv

\* The server writes CONN to the DAEMON only, so that the USR client never
\* connects on its behalf.
LEMMA StepUserCtl == PortInv /\ UserCtl /\ [Next]_vars => UserCtl'
<1> SUFFICES ASSUME PortInv, UserCtl, [Next]_vars PROVE UserCtl'
  OBVIOUS
<1>1. /\ ctl \in [Side -> [net : Seq(Msgs), buf : Seq(Msgs)]]
      /\ ctl["U"].net \in Seq(Acts) /\ ctl["U"].buf \in Seq(Acts)
      /\ "U" \in Side /\ "D" \in Side
  BY DEF PortInv, TypeOK, UserCtl, Side
<1>2. Acts' = Acts
  BY DEF Acts, Msgs
<1>3. CASE ctl' = ctl
  BY <1>1, <1>2, <1>3 DEF UserCtl
<1>4. ASSUME NEW c \in Conns, SrvConnUsr(c) PROVE UserCtl'
  <2>1. ctl' = ctl \/ ctl' = Post(ctl, "D", Msg("CONN", c))
    BY <1>4 DEF SrvConnUsr
  <2>2. ctl'["U"] = ctl["U"]
    BY <1>1, <2>1 DEF Post
  <2> QED
    BY <1>1, <1>2, <2>2 DEF UserCtl
<1>5. ASSUME NEW th \in Threads, WorkerTake(th) PROVE UserCtl'
  <2> DEFINE t == Head(queue[th]).trans
             m == Msg("CONN_ACT", t)
  <2>1. \/ ctl' = ctl
        \/ /\ queue[th] # <<>> /\ srv[t] = "listed"
           /\ ctl' = Post(Post(ctl, "D", m), "U", m)
    BY <1>5 DEF WorkerTake, Serve
  <2>2. CASE /\ queue[th] # <<>> /\ srv[t] = "listed"
             /\ ctl' = Post(Post(ctl, "D", m), "U", m)
    <3>1. t \in Conns
      <4>1. queue[th] \in Seq(Jobs) /\ queue[th] # <<>>
        BY <2>2 DEF PortInv, TypeOK
      <4>2. Head(queue[th]) \in Jobs
        BY <4>1, HeadTailProperties
      <4> QED
        BY <4>2 DEF Jobs
    <3>2. m \in KnownMsgs
      BY <2>2, <3>1, MsgType DEF PortInv, PortKnown
    <3>3. m \in Acts
      BY <3>2 DEF KnownMsgs, Acts, Msg
    <3>4. Append(ctl["U"].net, m) \in Seq(Acts)
      BY <1>1, <3>3
    <3>5. /\ ctl'["U"].net = ctl["U"].net \/ ctl'["U"].net = Append(ctl["U"].net, m)
          /\ ctl'["U"].buf = ctl["U"].buf
      <4> HIDE DEF m
      <4>1. Post(ctl, "D", m)["U"] = ctl["U"] /\ "U" \in DOMAIN Post(ctl, "D", m)
        BY <1>1 DEF Post
      <4> QED
        BY <1>1, <2>2, <4>1 DEF Post
    <3> QED
      BY <1>1, <1>2, <3>4, <3>5 DEF UserCtl
  <2> QED
    BY <1>3, <2>1, <2>2
<1>6. ASSUME NEW s \in Side, ClientCtl(s) PROVE UserCtl'
  <2>1. PICK n \in 1..MaxBatch : n <= Len(ctl[s].net) /\ ReadHead(s, n)
    BY <1>6 DEF ClientCtl
  <2>2. CASE s = "U"
    <3>1. \E x \in [net : Seq(Acts), buf : Seq(Acts)] : ctl' = [ctl EXCEPT !["U"] = x]
      BY <1>1, <2>1, <2>2, ReadHeadOf
    <3> QED
      BY <1>1, <1>2, <3>1 DEF UserCtl
  <2>3. CASE s = "D"
    <3>1. ctl'["U"] = ctl["U"]
      BY <1>1, <2>1, <2>3 DEF ReadHead
    <3> QED
      BY <1>1, <1>2, <3>1 DEF UserCtl
  <2> QED
    BY <2>2, <2>3 DEF Side
<1> QED
  BY <1>3, <1>4, <1>5, <1>6
  DEF Next, System, Environment, vars, SrvConnDaemon, SrvReject, ClientRecv, ClientSrvEof,
      WorkerRead, WorkerEof, SrvMainEof, SrvRemove, UsrAccept, ClientSend, ClientLocalEof,
      ClientLeave

\* Every step keeps the order of the legs: only the main loop lists a trans or
\* queues a leg, and only the workers take legs off their queues.
LEMMA StepOrderInv == Inv /\ [Next]_vars => OrderInv'
<1> SUFFICES ASSUME Inv, [Next]_vars PROVE OrderInv'
  OBVIOUS
<1>1. PortInv /\ UserCtl /\ OrderInv
  BY DEF Inv
<1> USE <1>1
<1>2. /\ place \in [Leg -> Places] /\ port \in [Conns -> Ports \cup {0}]
      /\ \A s \in Side, c \in Conns : <<s, c>> \in Leg
      /\ "U" \in Side /\ "D" \in Side
      /\ \A c \in Conns : srv[c] # "none" => port[c] # 0 /\ place[<<"U", c>>] # "main"
  BY DEF PortInv, TypeOK, Leg, Side, OrderInv, UserFresh
<1>12. CASE UNCHANGED vars
  BY <1>12 DEF vars, OrderInv, UserFresh, JobsKnown, SlotsKnown, UserComes, UserBefore, UserCame,
               UserIn, UserJob, Ok
<1>13. CASE Ok /\ UNCHANGED <<port, srv, bev, queue, place>>
  BY <1>2, <1>13, QuietKeeps
<1> SUFFICES ASSUME Ok, System \/ Environment PROVE OrderInv'
  BY <1>12 DEF Next
<1>3. CASE UNCHANGED <<port, srv, bev, queue, place>>
  BY <1>3, <1>13
<1>4. ASSUME NEW c \in Conns, SrvConnUsr(c) PROVE OrderInv'
  <2>1. CASE SsMayCreate(port[c])
    BY <1>4, <2>1, UserQueued, UserLost
  <2>2. CASE ~SsMayCreate(port[c])
    <3>1. UNCHANGED <<port, srv, bev, queue>>
      BY <1>4, <2>2 DEF SrvConnUsr
    <3>2. \A l \in Leg : \/ place'[l] = place[l]
                         \/ place[l] = "main" /\ place'[l] = "leaked"
      BY <1>2, <1>4, <2>2 DEF SrvConnUsr, HasConn
    <3> QED
      BY <1>2, <3>1, <3>2, QuietKeeps
  <2> QED
    BY <2>1, <2>2
<1>5. ASSUME NEW c \in Conns, SrvConnDaemon(c) PROVE OrderInv'
  <2>1. /\ UNCHANGED <<port, srv, bev>>
        /\ \A b \in Conns : place'[<<"U", b>>] = place[<<"U", b>>]
    <3>1. UNCHANGED <<port, srv, bev>>
      BY <1>5 DEF SrvConnDaemon
    <3>2. \E x \in Places : place' = [place EXCEPT ![<<"D", c>>] = x]
      <4>1. ASSUME NEW t \in SsFind(port[c]), Enqueue("D", c, t)
            PROVE  \E x \in Places : place' = [place EXCEPT ![<<"D", c>>] = x]
        BY <1>2, <4>1, EnqueueType DEF SsFind, SsListed, Places
      <4> QED
        BY <1>5, <4>1 DEF SrvConnDaemon, Places
    <3> QED
      BY <1>2, <3>1, <3>2
  <2>2. CASE UNCHANGED queue
    BY <1>2, <2>1, <2>2, QuietKeeps
  <2>3. ASSUME NEW t \in SsFind(port[c]), Handed("D", c, t, ThreadOf(port[c])) PROVE OrderInv'
    BY <2>1, <2>3, DaemonQueued
  <2> QED
    BY <1>5, <2>2, <2>3 DEF SrvConnDaemon, Enqueue
<1>6. ASSUME NEW l \in Leg, SrvReject(l) PROVE OrderInv'
  <2>1. UNCHANGED <<port, srv, bev, queue>>
    BY <1>6 DEF SrvReject
  <2>2. \A k \in Leg : \/ place'[k] = place[k]
                       \/ place[k] = "main" /\ place'[k] = "rejected"
    BY <1>2, <1>6 DEF SrvReject, HasConn
  <2> QED
    BY <1>2, <2>1, <2>2, QuietKeeps
<1>7. ASSUME NEW s \in Side, NEW t \in Conns, WorkerEof(s, t) PROVE OrderInv'
  <2>1. SsFree({t}) /\ UNCHANGED <<port, queue>> /\ srv[t] # "none" /\ {t} \in SUBSET Conns
    BY <1>7 DEF WorkerEof, OrderInv, SlotsKnown
  <2> QED
    BY <2>1, FreeKeeps
<1>8. ASSUME NEW th \in Threads, WorkerTake(th) PROVE OrderInv'
  <2>1. CASE queue[th] = <<>>
    BY <1>3, <1>8, <2>1 DEF WorkerTake
  <2> QED
    BY <1>8, <2>1, TakeKeeps
<1>9. ASSUME NEW s \in Side, ClientCtl(s) PROVE OrderInv'
  <2>1. PICK n \in 1..MaxBatch :
            /\ n <= Len(ctl[s].net) /\ ReadHead(s, n)
            /\ OnConnAct(s, HeadOf(s, n)) \/ OnConn(s, HeadOf(s, n))
    BY <1>9 DEF ClientCtl
  <2>2. UNCHANGED <<port, srv, bev, queue>>
    BY <1>9 DEF ClientCtl
  <2>3. s = "U" => HeadOf(s, n) \in Acts
    BY <2>1, ReadHeadOf DEF UserCtl
  <2> DEFINE m == HeadOf(s, n)
  <2> HIDE DEF m
  <2>4. \A c \in Conns : place'[<<"U", c>>] = place[<<"U", c>>]
    <3>1. CASE OnConnAct(s, m)
      BY <3>1 DEF OnConnAct
    <3>2. CASE OnConn(s, m)
      <4>1. s # "U"
        BY <2>3, <3>2 DEF OnConn, Acts, m
      <4>2. place' = place \/ place' = [place EXCEPT ![<<s, m.of>>] = "main"]
        BY <3>2 DEF OnConn
      <4> QED
        BY <1>2, <4>1, <4>2
    <3> QED
      BY <2>1, <3>1, <3>2 DEF m
  <2> QED
    BY <1>2, <2>2, <2>4, QuietKeeps
<1>10. CASE SrvRemove
  <2>1. SsFree(SsListed) /\ UNCHANGED <<port, queue>>
    BY <1>10 DEF SrvRemove, SsFreeAll
  <2>2. SsListed \in SUBSET Conns /\ \A t \in SsListed : srv[t] # "none"
    BY DEF SsListed
  <2> QED
    BY <2>1, <2>2, FreeKeeps
<1>11. ASSUME NEW c \in Conns, NEW p \in Ports, UsrAccept(c, p) PROVE OrderInv'
  <2>1. /\ UNCHANGED <<srv, bev, queue>> /\ port[c] = 0
        /\ port' = [port EXCEPT ![c] = p]
        /\ place' = place \/ place' = [place EXCEPT ![<<"U", c>>] = "main"]
    BY <1>11 DEF UsrAccept
  <2>2. \A b \in Conns : srv[b] # "none" =>
            b # c /\ port'[b] = port[b] /\ place'[<<"U", b>>] = place[<<"U", b>>]
    BY <1>2, <2>1
  <2> QED
    BY <1>2, <2>1, <2>2, QuietKeeps
<1> QED
  BY <1>3, <1>4, <1>5, <1>6, <1>7, <1>8, <1>9, <1>10, <1>11
  DEF System, Environment, SrvMainEof, ClientRecv, ClientSrvEof, WorkerRead, ClientSend,
      ClientLocalEof, ClientLeave

\* A client that has left does not come back into the session, and only one that
\* has left makes the server end it.
LEMMA StepLeftFirst == PortInv /\ LeftFirst /\ [Next]_vars => LeftFirst'
<1> SUFFICES ASSUME PortInv, LeftFirst, [Next]_vars PROVE LeftFirst'
  OBVIOUS
<1>1. alive \in [Side -> BOOLEAN]
  BY DEF PortInv, TypeOK
<1>2. CASE UNCHANGED <<alive, session>>
  BY <1>2 DEF LeftFirst
<1>3. CASE SrvMainEof
  BY <1>3 DEF SrvMainEof, LeftFirst
<1>4. CASE SrvRemove
  BY <1>4 DEF SrvRemove, LeftFirst
<1>5. ASSUME NEW s \in Side, ClientLeave(s) PROVE LeftFirst'
  <2>1. alive' = [alive EXCEPT ![s] = FALSE]
    BY <1>5 DEF ClientLeave
  <2>2. alive'[s] = FALSE
    BY <1>1, <2>1
  <2> QED
    BY <2>2 DEF LeftFirst
<1> QED
  BY <1>2, <1>3, <1>4, <1>5
  DEF Next, System, Environment, vars, SrvConnUsr, SrvConnDaemon, SrvReject, ClientRecv,
      ClientSrvEof, WorkerRead, WorkerEof, WorkerTake, ClientCtl, UsrAccept, ClientSend,
      ClientLocalEof

\* The parts of the invariant together are inductive.
LEMMA StepInv == Inv /\ [Next]_vars => Inv'
<1> SUFFICES ASSUME Inv, [Next]_vars PROVE Inv'
  OBVIOUS
<1>1. PortInv' /\ UserCtl' /\ OrderInv' /\ LeftFirst'
  BY StepPortInv, StepUserCtl, StepOrderInv, StepLeftFirst DEF Inv
<1> QED
  BY <1>1 DEF Inv

\* The invariant holds in every state of a session.
LEMMA SpecInv == Spec => []Inv
  BY InitInv, StepInv, PTL DEF Spec

\* Whatever the clients, the server's loops and the environment do, every
\* variable keeps its type: no header ever carries a cleared port.
THEOREM TypeCorrect == Spec => []TypeOK
<1>1. Inv => TypeOK
  BY DEF Inv, PortInv
<1> QED
  BY <1>1, SpecInv, PTL

\* ss_create_trans and sc_create_trans keep every list free of a second trans
\* for a port, for any number of connections, ports and workers, even when
\* source ports come back while old tunnels are still being drained.
THEOREM PortsUnique == Spec => []UniquePorts
<1>1. Inv => UniquePorts
  BY DEF Inv, PortInv
<1> QED
  BY <1>1, SpecInv, PTL

-----------------------------------------------------------------------------
(* The way of a connection, on top of the invariant above.                 *)
(*                                                                         *)
(* The DAEMON leg of a connection brings nothing but a port number, so the *)
(* argument follows a connection on its way: the USR leg at the main loop, *)
(* the CONN header for the DAEMON, the DAEMON leg at the main loop, in the *)
(* worker's queue (Underway).  All that time the USR client lists the      *)
(* connection as "opening" (TransWay), whether source ports come back      *)
(* early or not; so it accepts no second connection from that port, no two *)
(* connections of one port are underway, and the trans the server finds    *)
(* under the port is the right one (OneUnderway).  The CONN_ACT that ends  *)
(* the way is sent once (ToldOnce).                                        *)

\* All headers on the control channel of side s, oldest first; the connections
\* that those with command cmd speak of; and that no header is there twice.
PipeOf(chan, s)  == chan[s].buf \o chan[s].net
About(p, cmd)    == {c \in Conns : \E i \in 1..Len(p) : p[i].cmd = cmd /\ p[i].of = c}
Once(p)          == \A i, j \in 1..Len(p) : p[i].cmd = p[j].cmd /\ p[i].of = p[j].of => i = j
Told(s, cmd)     == About(PipeOf(ctl, s), cmd)
ToldOnce         == \A s \in Side : Once(PipeOf(ctl, s))

\* The connections whose leg on side s waits in a worker's queue, each once.
Waits(s) ==
    {c \in Conns : \E th \in Threads : \E i \in 1..Len(queue[th]) :
                       queue[th][i].kind = s /\ queue[th][i].conn = c}

WaitsOnce ==
    \A g, h \in Threads : \A i \in 1..Len(queue[g]), j \in 1..Len(queue[h]) :
        queue[g][i].kind = queue[h][j].kind /\ queue[g][i].conn = queue[h][j].conn
            => g = h /\ i = j

\* The legs have been joined; they may have been parted since.
Joined(c) == \A r \in Side : bev[<<r, c>>] = c
Ready(c)  == srv[c] = "freed" \/ Joined(c)

\* The connection is on its way to the DAEMON, or back as the DAEMON's leg.
Carried(c)  == c \in Told("D", "CONN") \/ place[<<"D", c>>] \in {"main", "queued"}
Underway(c) == place[<<"U", c>>] = "main" \/ Carried(c)

\* Nothing of the connection is left anywhere, and nothing will come of it.
Finished(c) ==
    /\ srv[c] # "listed" /\ c \notin Told("D", "CONN")
    /\ \A s \in Side : /\ cl[<<s, c>>] \in {"idle", "refused", "closed"}
                       /\ place[<<s, c>>] \in {"none", "closed"}

JobsMatch == \A th \in Threads : \A i \in 1..Len(queue[th]) :
                 queue[th][i].trans = queue[th][i].conn

\* Leg s of connection c.  A slot holds the leg of its own trans, the DAEMON's
\* never without the USR's; a job stands for a leg that waits; CONN_ACT comes
\* when the legs are joined, to a client that still waits for it; a client that
\* has started finds them joined, or parted again.
LegWay(s, c) ==
    /\ bev[<<s, c>>] \in {c, None}
    /\ bev[<<s, c>>] = c => /\ place[<<s, c>>] = "worker" /\ srv[c] = "listed"
                            /\ bev[<<"U", c>>] = c
    /\ c \in Waits(s) => place[<<s, c>>] = "queued"
    /\ c \in Told(s, "CONN_ACT") => /\ place[<<"D", c>>] \in {"worker", "closed"}
                                    /\ Ready(c)
                                    /\ cl[<<s, c>>] = "opening" \/ ~alive[s]
    /\ cl[<<s, c>>] = "active" => Ready(c)

\* Trans c.  What cannot have happened before the server creates it; that the
\* CONN header comes before the DAEMON's leg; that the clients wait as long as
\* the connection is underway; and why a trans is freed.
TransWay(c) ==
    /\ srv[c] = "none" => /\ cl[<<"D", c>>] = "idle" /\ place[<<"D", c>>] = "none"
                          /\ place[<<"U", c>>] \notin {"queued", "lost"}
    /\ c \in Told("D", "CONN") => /\ srv[c] # "none" /\ cl[<<"D", c>>] = "idle"
                                  /\ place[<<"D", c>>] = "none"
    /\ Underway(c) => cl[<<"U", c>>] = "opening" \/ ~alive["U"]
    /\ place[<<"D", c>>] \in {"main", "queued"} => cl[<<"D", c>>] = "opening" \/ ~alive["D"]
    /\ srv[c] = "freed" => \/ ~alive["U"] \/ ~alive["D"]
                           \/ /\ place[<<"U", c>>] # "queued"
                              /\ cl[<<"U", c>>] = "closed" \/ cl[<<"D", c>>] = "closed"

WayOf(c) == LegWay("U", c) /\ LegWay("D", c) /\ TransWay(c)

\* Of the connections from one port at most one is underway, and no other is on
\* the server's list when its DAEMON leg asks for the trans of that port.
OneUnderway ==
    \A b, c \in Conns : b # c /\ port[b] = port[c] =>
        /\ ~(Underway(b) /\ Underway(c))
        /\ ~(Carried(b) /\ srv[c] = "listed")

\* Without early reuse an older connection of the same port is over.
OldIsFinished ==
    ~EarlyReuse =>
        \A b, c \in Conns : b # c /\ port[b] = port[c] /\ port[b] # 0
            => Finished(b) \/ Finished(c)

\* What a leg carries to the server: CONN first and only at the main loop, data
\* when the legs have been joined, an end when the client has closed.
UpLegs ==
    \A l \in Leg : \A i \in 1..Len(up[l]) :
        /\ up[l][i] = ConnHead => i = 1 /\ place[l] = "main"
        /\ up[l][i].tag = "data" => Ready(l[2])
        /\ up[l][i] = Fin => cl[l] = "closed"

MailInv  == ToldOnce /\ WaitsOnce /\ JobsMatch
PairsInv == OneUnderway /\ OldIsFinished
LegInv   == MailInv /\ (\A c \in Conns : WayOf(c)) /\ PairsInv /\ UpLegs

-----------------------------------------------------------------------------
(* Headers and jobs as sets.                                               *)

\* A channel that gives up its oldest header.
LEMMA AboutTail ==
    ASSUME NEW p, NEW q, Len(p) \in Nat \ {0}, Len(q) = Len(p) - 1, Once(p),
           p[1].of \in Conns, \A i \in 1..Len(q) : q[i] = p[i + 1]
    PROVE  /\ Once(q) /\ p[1].of \in About(p, p[1].cmd)
           /\ About(q, p[1].cmd) = About(p, p[1].cmd) \ {p[1].of}
           /\ \A cmd : cmd # p[1].cmd => About(q, cmd) = About(p, cmd)
<1>1. /\ \A i \in 1..Len(q) : i + 1 \in 1..Len(p) /\ i + 1 # 1
      /\ \A i \in 1..Len(p) : i # 1 => i - 1 \in 1..Len(q) /\ (i - 1) + 1 = i
      /\ 1 \in 1..Len(p)
  OBVIOUS
<1>2. Once(q)
  <2>1. ASSUME NEW i \in 1..Len(q), NEW j \in 1..Len(q), q[i].cmd = q[j].cmd, q[i].of = q[j].of
        PROVE  i = j
    <3>1. i + 1 \in 1..Len(p) /\ j + 1 \in 1..Len(p)
      BY <1>1
    <3>2. p[i + 1].cmd = p[j + 1].cmd /\ p[i + 1].of = p[j + 1].of
      BY <2>1
    <3>3. i + 1 = j + 1
      BY <3>1, <3>2 DEF Once
    <3> QED
      BY <3>3
  <2> QED
    BY <2>1 DEF Once
<1>3. p[1].of \in About(p, p[1].cmd)
  BY <1>1 DEF About
<1>4. ASSUME NEW cmd, NEW c \in Conns
      PROVE  c \in About(q, cmd) <=> c \in About(p, cmd) /\ ~(cmd = p[1].cmd /\ c = p[1].of)
  <2>1. ASSUME NEW i \in 1..Len(q), q[i].cmd = cmd, q[i].of = c
        PROVE  c \in About(p, cmd) /\ ~(cmd = p[1].cmd /\ c = p[1].of)
    <3>1. p[i + 1].cmd = cmd /\ p[i + 1].of = c /\ i + 1 \in 1..Len(p) /\ i + 1 # 1
      BY <1>1, <2>1
    <3> QED
      BY <1>1, <3>1 DEF About, Once
  <2>2. ASSUME NEW i \in 1..Len(p), p[i].cmd = cmd, p[i].of = c, ~(cmd = p[1].cmd /\ c = p[1].of)
        PROVE  c \in About(q, cmd)
    <3>1. i - 1 \in 1..Len(q) /\ q[i - 1] = p[i]
      BY <1>1, <2>2
    <3> QED
      BY <2>2, <3>1 DEF About
  <2> QED
    BY <2>1, <2>2 DEF About
<1>5. \A cmd : About(p, cmd) \subseteq Conns /\ About(q, cmd) \subseteq Conns
  BY DEF About
<1>6. About(q, p[1].cmd) = About(p, p[1].cmd) \ {p[1].of}
  BY <1>4, <1>5
<1>7. ASSUME NEW cmd, cmd # p[1].cmd PROVE About(q, cmd) = About(p, cmd)
  <2>1. \A c \in Conns : c \in About(q, cmd) <=> c \in About(p, cmd)
    BY <1>4, <1>7
  <2> QED
    BY <1>5, <2>1
<1> QED
  BY <1>2, <1>3, <1>6, <1>7

\* A channel on which header m is written, the first of its kind.
LEMMA AboutAppend ==
    ASSUME NEW p, NEW q, NEW m, Len(p) \in Nat, Len(q) = Len(p) + 1, Once(p),
           m.of \in Conns, m.of \notin About(p, m.cmd),
           \A i \in 1..Len(p) : q[i] = p[i], q[Len(p) + 1] = m
    PROVE  /\ Once(q) /\ About(q, m.cmd) = About(p, m.cmd) \cup {m.of}
           /\ \A cmd : cmd # m.cmd => About(q, cmd) = About(p, cmd)
<1>1. /\ \A i \in 1..Len(q) : i \in 1..Len(p) \/ i = Len(p) + 1
      /\ Len(p) + 1 \in 1..Len(q)
      /\ \A i \in 1..Len(p) : i \in 1..Len(q)
  OBVIOUS
<1>2. \A i \in 1..Len(p) : ~(p[i].cmd = m.cmd /\ p[i].of = m.of)
  BY DEF About
<1>3. Once(q)
  BY <1>1, <1>2 DEF Once
<1>4. ASSUME NEW cmd, NEW c \in Conns
      PROVE  c \in About(q, cmd) <=> c \in About(p, cmd) \/ (cmd = m.cmd /\ c = m.of)
  BY <1>1 DEF About
<1>5. \A cmd : About(p, cmd) \subseteq Conns /\ About(q, cmd) \subseteq Conns
  BY DEF About
<1>6. About(q, m.cmd) = About(p, m.cmd) \cup {m.of}
  BY <1>4, <1>5
<1>7. ASSUME NEW cmd, cmd # m.cmd PROVE About(q, cmd) = About(p, cmd)
  <2>1. \A c \in Conns : c \in About(q, cmd) <=> c \in About(p, cmd)
    BY <1>4, <1>7
  <2> QED
    BY <1>5, <2>1
<1> QED
  BY <1>3, <1>6, <1>7

\* The control channels, with headers that carry their connection's port.
CtlChannels == [Side -> [net : Seq(KnownMsgs), buf : Seq(KnownMsgs)]]

\* Whoever takes a header off channel s takes the oldest.
LEMMA HeaderRead ==
    ASSUME PortInv, ToldOnce, NEW s \in Side, NEW n \in 1..MaxBatch,
           n <= Len(ctl[s].net), ReadHead(s, n)
    PROVE  LET m == HeadOf(s, n) IN
           /\ m \in KnownMsgs /\ m.of \in Told(s, m.cmd)
           /\ \A r \in Side : \A cmd :
                  Told(r, cmd)' = IF r = s /\ cmd = m.cmd THEN Told(r, cmd) \ {m.of}
                                  ELSE Told(r, cmd)
           /\ ToldOnce'
<1> DEFINE net == ctl[s].net
           buf == ctl[s].buf
           all == buf \o SubSeq(net, 1, n)
           left == SubSeq(net, n + 1, Len(net))
           p == buf \o net
           q == Tail(all) \o left
<1>1. ctl \in CtlChannels
  BY DEF PortInv, CtlKnown, CtlChannels
<1>2. net \in Seq(KnownMsgs) /\ buf \in Seq(KnownMsgs)
  BY <1>1 DEF CtlChannels
<1>3. n \in Nat \ {0} /\ Len(net) \in Nat /\ Len(buf) \in Nat /\ n <= Len(net)
  BY <1>2, BoundsAssumption, LenProperties
<1>4. \A i \in 1..Len(net) : net[i] \in KnownMsgs
  BY <1>2, ElementOfSeq
<1>5. /\ SubSeq(net, 1, n) \in Seq(KnownMsgs) /\ Len(SubSeq(net, 1, n)) = n
      /\ \A i \in 1..n : SubSeq(net, 1, n)[i] = net[i]
  <2>1. \A i \in 1..n : net[i] \in KnownMsgs
    BY <1>3, <1>4
  <2>2. /\ SubSeq(net, 1, n) \in Seq(KnownMsgs)
        /\ Len(SubSeq(net, 1, n)) = IF 1 <= n THEN n - 1 + 1 ELSE 0
        /\ \A i \in 1..(n - 1 + 1) : SubSeq(net, 1, n)[i] = net[1 + i - 1]
    BY <1>3, <2>1, SubSeqProperties
  <2> QED
    BY <1>3, <2>2
<1>6. /\ left \in Seq(KnownMsgs) /\ Len(left) = Len(net) - n
      /\ \A i \in 1..(Len(net) - n) : left[i] = net[n + i]
  <2>1. \A i \in (n + 1)..Len(net) : net[i] \in KnownMsgs
    BY <1>3, <1>4
  <2>2. /\ left \in Seq(KnownMsgs)
        /\ Len(left) = IF n + 1 <= Len(net) THEN Len(net) - (n + 1) + 1 ELSE 0
        /\ \A i \in 1..(Len(net) - (n + 1) + 1) : left[i] = net[(n + 1) + i - 1]
    BY <1>3, <2>1, SubSeqProperties
  <2> QED
    BY <1>3, <2>2
<1>7. /\ all \in Seq(KnownMsgs) /\ Len(all) = Len(buf) + n
      /\ \A i \in 1..(Len(buf) + n) : all[i] = IF i <= Len(buf) THEN buf[i] ELSE net[i - Len(buf)]
  <2> HIDE DEF net, buf
  <2>1. /\ all \in Seq(KnownMsgs) /\ Len(all) = Len(buf) + n
        /\ \A i \in 1..(Len(buf) + n) :
               all[i] = IF i <= Len(buf) THEN buf[i] ELSE SubSeq(net, 1, n)[i - Len(buf)]
    BY <1>2, <1>5, ConcatProperties
  <2>2. \A i \in 1..(Len(buf) + n) : ~(i <= Len(buf)) => i - Len(buf) \in 1..n
    BY <1>3
  <2> QED
    BY <1>5, <2>1, <2>2
<1>8. /\ p \in Seq(KnownMsgs) /\ Len(p) = Len(buf) + Len(net)
      /\ \A i \in 1..(Len(buf) + Len(net)) : p[i] = IF i <= Len(buf) THEN buf[i] ELSE net[i - Len(buf)]
  BY <1>2, ConcatProperties
<1> HIDE DEF all, left, net, buf, p, q
<1>9. /\ Head(all) = all[1] /\ Tail(all) \in Seq(KnownMsgs) /\ Len(Tail(all)) = Len(buf) + n - 1
      /\ \A i \in 1..(Len(buf) + n - 1) : Tail(all)[i] = all[i + 1]
  <2>1. all # <<>>
    BY <1>3, <1>7, EmptySeq
  <2> QED
    BY <1>7, <2>1, HeadTailProperties
<1>10. /\ q \in Seq(KnownMsgs) /\ Len(q) = Len(buf) + Len(net) - 1
       /\ \A i \in 1..(Len(buf) + Len(net) - 1) :
              q[i] = IF i <= Len(buf) + n - 1 THEN Tail(all)[i] ELSE left[i - (Len(buf) + n - 1)]
  <2>1. /\ q \in Seq(KnownMsgs) /\ Len(q) = Len(Tail(all)) + Len(left)
        /\ \A i \in 1..(Len(Tail(all)) + Len(left)) :
               q[i] = IF i <= Len(Tail(all)) THEN Tail(all)[i] ELSE left[i - Len(Tail(all))]
    <3>1. Tail(all) \in Seq(KnownMsgs) /\ left \in Seq(KnownMsgs)
      BY <1>6, <1>9
    <3> QED
      BY <3>1, ConcatProperties DEF q
  <2>2. Len(Tail(all)) + Len(left) = Len(buf) + Len(net) - 1
    <3>1. Len(Tail(all)) = Len(buf) + n - 1
      BY <1>9
    <3>2. Len(left) = Len(net) - n
      BY <1>6
    <3> QED
      BY <1>3, <3>1, <3>2
  <2> QED
    BY <1>9, <2>1, <2>2
<1>11. \A i \in 1..(Len(buf) + Len(net) - 1) : q[i] = p[i + 1]
  <2>1. ASSUME NEW i \in 1..(Len(buf) + Len(net) - 1) PROVE q[i] = p[i + 1]
    <3>1. i \in Nat /\ i + 1 \in 1..(Len(buf) + Len(net))
      BY <1>3
    <3>2. p[i + 1] = IF i + 1 <= Len(buf) THEN buf[i + 1] ELSE net[i + 1 - Len(buf)]
      BY <1>8, <3>1
    <3>3. CASE i <= Len(buf) + n - 1
      <4>1. i \in 1..(Len(buf) + n - 1) /\ i + 1 \in 1..(Len(buf) + n)
        BY <1>3, <3>1, <3>3
      <4>2. q[i] = all[i + 1]
        BY <1>9, <1>10, <3>3, <4>1
      <4> QED
        BY <1>7, <3>2, <4>1, <4>2
    <3>4. CASE ~(i <= Len(buf) + n - 1)
      <4>1. /\ i - (Len(buf) + n - 1) \in 1..(Len(net) - n)
            /\ n + (i - (Len(buf) + n - 1)) = i + 1 - Len(buf)
            /\ ~(i + 1 <= Len(buf))
        BY <1>3, <3>1, <3>4
      <4>2. left[i - (Len(buf) + n - 1)] = net[n + (i - (Len(buf) + n - 1))]
        BY <1>6, <4>1
      <4> QED
        BY <1>10, <3>2, <3>4, <4>1, <4>2
    <3> QED
      BY <3>3, <3>4
  <2> QED
    BY <2>1
<1>12. Head(all) = p[1] /\ p[1] \in KnownMsgs
  <2>1. 1 \in 1..(Len(buf) + n) /\ 1 \in 1..(Len(buf) + Len(net))
    BY <1>3
  <2> QED
    BY <1>7, <1>8, <1>9, <2>1, ElementOfSeq
<1>13. HeadOf(s, n) = p[1] /\ PipeOf(ctl, s) = p
  BY <1>12 DEF HeadOf, PipeOf, all, net, buf, p
<1>14. PipeOf(ctl', s) = q /\ \A r \in Side : r # s => PipeOf(ctl', r) = PipeOf(ctl, r)
  <2>1. ctl' = [ctl EXCEPT ![s] = [net |-> left, buf |-> Tail(all)]]
    BY DEF ReadHead, left, all, net, buf
  <2>2. ctl'[s] = [net |-> left, buf |-> Tail(all)] /\ \A r \in Side : r # s => ctl'[r] = ctl[r]
    BY <1>1, <2>1 DEF CtlChannels
  <2>3. PipeOf(ctl', s) = q
    BY <2>2 DEF PipeOf, q
  <2>4. \A r \in Side : r # s => PipeOf(ctl', r) = PipeOf(ctl, r)
    BY <2>2 DEF PipeOf
  <2> QED
    BY <2>3, <2>4
<1>15. Len(p) \in Nat \ {0} /\ Len(q) = Len(p) - 1 /\ Once(p) /\ p[1].of \in Conns
  BY <1>3, <1>8, <1>10, <1>12, <1>13 DEF ToldOnce, KnownMsgs, Msgs
<1>16. /\ Once(q) /\ p[1].of \in About(p, p[1].cmd)
       /\ About(q, p[1].cmd) = About(p, p[1].cmd) \ {p[1].of}
       /\ \A cmd : cmd # p[1].cmd => About(q, cmd) = About(p, cmd)
  <2>1. \A i \in 1..Len(q) : q[i] = p[i + 1]
    BY <1>10, <1>11
  <2> QED
    BY <1>15, <2>1, AboutTail
<1>17. ASSUME NEW r \in Side, NEW cmd
       PROVE  Told(r, cmd)' = IF r = s /\ cmd = p[1].cmd THEN Told(r, cmd) \ {p[1].of}
                              ELSE Told(r, cmd)
  BY <1>13, <1>14, <1>16 DEF Told
<1>18. ToldOnce'
  BY <1>13, <1>14, <1>16 DEF ToldOnce
<1>19. HeadOf(s, n).of \in Told(s, HeadOf(s, n).cmd)
  BY <1>13, <1>16 DEF Told
<1> QED
  BY <1>12, <1>13, <1>17, <1>18, <1>19

\* Appending to the second part of a concatenation appends to the whole.
LEMMA ConcatAppend ==
    ASSUME NEW S, NEW b \in Seq(S), NEW n \in Seq(S), NEW m \in S
    PROVE  b \o n \in Seq(S) /\ b \o Append(n, m) = Append(b \o n, m)
<1>1. <<m>> \in Seq(S) /\ Append(n, m) = n \o <<m>> /\ b \o n \in Seq(S)
  BY AppendIsConcat, ConcatProperties
<1>2. Append(b \o n, m) = (b \o n) \o <<m>>
  BY <1>1, AppendIsConcat
<1>3. (b \o n) \o <<m>> = b \o (n \o <<m>>)
  <2> DEFINE u == <<m>>
  <2>1. u \in Seq(S)
    BY <1>1
  <2> HIDE DEF u
  <2>2. (b \o n) \o u = b \o (n \o u)
    BY <2>1, ConcatAssociative
  <2> QED
    BY <2>2 DEF u
<1> QED
  BY <1>1, <1>2, <1>3

\* Post writes one header, if its client is still there.
LEMMA HeaderPosted ==
    ASSUME NEW chan \in CtlChannels, NEW s \in Side, NEW m \in KnownMsgs,
           m.of \notin About(PipeOf(chan, s), m.cmd), \A r \in Side : Once(PipeOf(chan, r))
    PROVE  LET new == Post(chan, s, m) IN
           /\ new \in CtlChannels
           /\ \A r \in Side : Once(PipeOf(new, r))
           /\ \A r \in Side : \A cmd :
                  About(PipeOf(new, r), cmd) =
                      IF r = s /\ alive[s] /\ cmd = m.cmd
                          THEN About(PipeOf(chan, r), cmd) \cup {m.of}
                          ELSE About(PipeOf(chan, r), cmd)
<1> DEFINE new == Post(chan, s, m)
           p == PipeOf(chan, s)
           q == chan[s].buf \o Append(chan[s].net, m)
<1>1. new \in CtlChannels
  BY PostType DEF CtlChannels
<1>2. CASE ~alive[s]
  <2>1. new = chan
    BY <1>2 DEF Post
  <2> QED
    BY <1>1, <1>2, <2>1
<1>3. CASE alive[s]
  <2>1. new = [chan EXCEPT ![s].net = Append(@, m)]
    BY <1>3 DEF Post
  <2>2. /\ \A r \in Side : r # s => PipeOf(new, r) = PipeOf(chan, r)
        /\ PipeOf(new, s) = q
    BY <2>1 DEF CtlChannels, PipeOf
  <2>3. chan[s].buf \in Seq(KnownMsgs) /\ chan[s].net \in Seq(KnownMsgs)
    BY DEF CtlChannels
  <2>4. p \in Seq(KnownMsgs) /\ q = Append(p, m)
    <3> DEFINE b == chan[s].buf
               n == chan[s].net
    <3>1. b \in Seq(KnownMsgs) /\ n \in Seq(KnownMsgs)
      BY <2>3
    <3> HIDE DEF b, n
    <3>2. b \o n \in Seq(KnownMsgs) /\ b \o Append(n, m) = Append(b \o n, m)
      BY <3>1, ConcatAppend
    <3> QED
      BY <3>2 DEF PipeOf, b, n
  <2> HIDE DEF p, q
  <2>5. /\ Len(p) \in Nat /\ Len(q) = Len(p) + 1
        /\ \A i \in 1..Len(p) : q[i] = p[i]
        /\ q[Len(p) + 1] = m
    BY <2>4, AppendProperties, LenProperties
  <2>6. /\ Once(q) /\ About(q, m.cmd) = About(p, m.cmd) \cup {m.of}
        /\ \A cmd : cmd # m.cmd => About(q, cmd) = About(p, cmd)
    <3>1. m.of \in Conns /\ m.of \notin About(p, m.cmd) /\ Once(p)
      BY DEF KnownMsgs, Msgs, p
    <3> QED
      BY <2>5, <3>1, AboutAppend
  <2>7. \A r \in Side : Once(PipeOf(new, r))
    BY <2>2, <2>6
  <2>8. ASSUME NEW r \in Side, NEW cmd
         PROVE  About(PipeOf(new, r), cmd) =
                    IF r = s /\ alive[s] /\ cmd = m.cmd
                        THEN About(PipeOf(chan, r), cmd) \cup {m.of}
                        ELSE About(PipeOf(chan, r), cmd)
    BY <1>3, <2>2, <2>6 DEF p
  <2> QED
    BY <1>1, <2>7, <2>8
<1> QED
  BY <1>2, <1>3

\* The main loop queues a leg that no worker has been given yet.
LEMMA JobQueued ==
    ASSUME PortInv, WaitsOnce, NEW s \in Side, NEW c \in Conns, NEW t \in Conns,
           Handed(s, c, t, ThreadOf(port[c])), c \notin Waits(s)
    PROVE  /\ \A r \in Side : Waits(r)' = IF r = s THEN Waits(r) \cup {c} ELSE Waits(r)
           /\ WaitsOnce'
           /\ JobsMatch /\ t = c => JobsMatch'
<1> DEFINE h == ThreadOf(port[c])
           j == [kind |-> s, conn |-> c, trans |-> t]
<1>1. /\ h \in Threads
      /\ Len(queue'[h]) = Len(queue[h]) + 1
      /\ \A th \in Threads : th # h => queue'[th] = queue[th]
      /\ \A th \in Threads : Len(queue[th]) \in Nat /\ Len(queue'[th]) \in Nat
      /\ \A th \in Threads : Len(queue[th]) <= Len(queue'[th])
      /\ \A th \in Threads : \A i \in 1..Len(queue[th]) : queue'[th][i] = queue[th][i]
      /\ queue'[h][Len(queue[h]) + 1] = j
  BY EnqueueStep
<1> HIDE DEF h
<1>2. ASSUME NEW th \in Threads, NEW i \in 1..Len(queue'[th])
      PROVE  \/ i \in 1..Len(queue[th]) /\ queue'[th][i] = queue[th][i]
             \/ th = h /\ i = Len(queue[h]) + 1 /\ queue'[th][i] = j
  <2>1. CASE th = h
    BY <1>1, <2>1, LastPlace
  <2>2. CASE th # h
    <3>1. queue'[th] = queue[th]
      BY <1>1, <2>2
    <3> QED
      BY <1>1, <3>1
  <2> QED
    BY <2>1, <2>2
<1>3. \A th \in Threads : \A i \in 1..Len(queue[th]) : i \in 1..Len(queue'[th])
  <2>1. ASSUME NEW th \in Threads, NEW i \in 1..Len(queue[th]) PROVE i \in 1..Len(queue'[th])
    <3>1. Len(queue[th]) \in Nat /\ Len(queue'[th]) \in Nat /\ Len(queue[th]) <= Len(queue'[th])
      BY <1>1
    <3> QED
      BY <3>1
  <2> QED
    BY <2>1
<1>4. Len(queue[h]) + 1 \in 1..Len(queue'[h])
  BY <1>1
<1>5. \A th \in Threads : \A i \in 1..Len(queue[th]) :
          ~(queue[th][i].kind = s /\ queue[th][i].conn = c)
  BY DEF Waits
<1>6. ASSUME NEW r \in Side, NEW b \in Conns
      PROVE  b \in Waits(r)' <=> b \in Waits(r) \/ (r = s /\ b = c)
  <2>1. ASSUME NEW th \in Threads, NEW i \in 1..Len(queue'[th]),
               queue'[th][i].kind = r, queue'[th][i].conn = b
        PROVE  b \in Waits(r) \/ (r = s /\ b = c)
    BY <1>2, <2>1 DEF Waits
  <2>2. b \in Waits(r) => b \in Waits(r)'
    BY <1>1, <1>3 DEF Waits
  <2>3. r = s /\ b = c => b \in Waits(r)'
    BY <1>1, <1>4 DEF Waits
  <2> QED
    BY <2>1, <2>2, <2>3 DEF Waits
<1>7. ASSUME NEW r \in Side PROVE Waits(r)' = IF r = s THEN Waits(r) \cup {c} ELSE Waits(r)
  <2>1. Waits(r) \subseteq Conns /\ Waits(r)' \subseteq Conns
    BY DEF Waits
  <2> QED
    BY <1>6, <2>1
<1>8. WaitsOnce'
  <2>1. ASSUME NEW g \in Threads, NEW k \in Threads, NEW a \in 1..Len(queue'[g]),
               NEW b \in 1..Len(queue'[k]),
               queue'[g][a].kind = queue'[k][b].kind, queue'[g][a].conn = queue'[k][b].conn
        PROVE  g = k /\ a = b
    <3>1. CASE a \in 1..Len(queue[g]) /\ queue'[g][a] = queue[g][a]
      <4>1. CASE b \in 1..Len(queue[k]) /\ queue'[k][b] = queue[k][b]
        BY <2>1, <3>1, <4>1 DEF WaitsOnce
      <4>2. CASE queue'[k][b] = j
        BY <1>5, <2>1, <3>1, <4>2
      <4> QED
        BY <1>2, <4>1, <4>2
    <3>2. CASE g = h /\ a = Len(queue[h]) + 1 /\ queue'[g][a] = j
      <4>1. CASE b \in 1..Len(queue[k]) /\ queue'[k][b] = queue[k][b]
        BY <1>5, <2>1, <3>2, <4>1
      <4>2. CASE k = h /\ b = Len(queue[h]) + 1
        BY <3>2, <4>2
      <4> QED
        BY <1>2, <4>1, <4>2
    <3> QED
      BY <1>2, <3>1, <3>2
  <2> QED
    BY <2>1 DEF WaitsOnce
<1>9. ASSUME JobsMatch, t = c PROVE JobsMatch'
  <2>1. ASSUME NEW th \in Threads, NEW i \in 1..Len(queue'[th])
        PROVE  queue'[th][i].trans = queue'[th][i].conn
    BY <1>2, <1>9 DEF JobsMatch
  <2> QED
    BY <2>1 DEF JobsMatch
<1> QED
  BY <1>7, <1>8, <1>9

\* A worker takes the oldest job of its queue.
LEMMA JobTaken ==
    ASSUME PortInv, WaitsOnce, JobsMatch, NEW th \in Threads, WorkerTake(th),
           queue[th] # <<>>
    PROVE  LET j == Head(queue[th]) IN
           /\ j \in Jobs /\ j.trans = j.conn /\ j.conn \in Waits(j.kind)
           /\ \A r \in Side : Waits(r)' = IF r = j.kind THEN Waits(r) \ {j.conn} ELSE Waits(r)
           /\ WaitsOnce' /\ JobsMatch'
<1> DEFINE j == Head(queue[th])
<1>1. /\ queue[th] # <<>> /\ queue' = [queue EXCEPT ![th] = Tail(@)]
      /\ queue \in [Threads -> Seq(Jobs)] /\ queue[th] \in Seq(Jobs)
  BY DEF WorkerTake, PortInv, TypeOK
<1>2. /\ j \in Jobs /\ Tail(queue[th]) \in Seq(Jobs)
      /\ Len(Tail(queue[th])) = Len(queue[th]) - 1
      /\ \A i \in 1..Len(Tail(queue[th])) : Tail(queue[th])[i] = queue[th][i + 1]
      /\ Len(queue[th]) \in Nat
  BY <1>1, HeadTailProperties, LenProperties
<1>3. queue[th][1] = j /\ j.kind \in Side /\ j.conn \in Conns /\ 1 \in 1..Len(queue[th])
  BY <1>1, <1>2 DEF Jobs
<1> HIDE DEF j
<1>4. /\ queue'[th] = Tail(queue[th])
      /\ \A h \in Threads : h # th => queue'[h] = queue[h]
  BY <1>1
<1>5. ASSUME NEW h \in Threads, NEW i \in 1..Len(queue'[h])
      PROVE  \/ h # th /\ queue'[h] = queue[h] /\ i \in 1..Len(queue[h])
             \/ /\ h = th /\ i + 1 \in 1..Len(queue[th]) /\ i + 1 # 1
                /\ queue'[th][i] = queue[th][i + 1]
  <2>1. CASE h # th
    BY <1>4, <2>1
  <2>2. CASE h = th
    <3>1. i \in 1..(Len(queue[th]) - 1) /\ i \in 1..Len(Tail(queue[th]))
      BY <1>2, <1>4, <2>2
    <3>2. i + 1 \in 1..Len(queue[th]) /\ i + 1 # 1
      BY <1>2, <3>1, ShiftPlace
    <3> QED
      BY <1>2, <1>4, <2>2, <3>1, <3>2
  <2> QED
    BY <2>1, <2>2
<1>6. ASSUME NEW h \in Threads, NEW i \in 1..Len(queue[h]), ~(h = th /\ i = 1)
      PROVE  \E k \in 1..Len(queue'[h]) : queue'[h][k] = queue[h][i]
  <2>1. CASE h # th
    BY <1>4, <2>1
  <2>2. CASE h = th
    <3>1. i - 1 \in 1..(Len(queue[th]) - 1) /\ (i - 1) + 1 = i
      BY <1>2, <1>6, <2>2, ShiftPlace
    <3>2. i - 1 \in 1..Len(queue'[th]) /\ queue'[th][i - 1] = queue[th][i]
      BY <1>2, <1>4, <3>1
    <3> QED
      BY <2>2, <3>2
  <2> QED
    BY <2>1, <2>2
<1>7. j.conn \in Waits(j.kind)
  BY <1>3 DEF Waits
<1>8. ASSUME NEW r \in Side, NEW b \in Conns
      PROVE  b \in Waits(r)' <=> b \in Waits(r) /\ ~(r = j.kind /\ b = j.conn)
  <2>1. ASSUME NEW h \in Threads, NEW i \in 1..Len(queue'[h]),
               queue'[h][i].kind = r, queue'[h][i].conn = b
        PROVE  b \in Waits(r) /\ ~(r = j.kind /\ b = j.conn)
    <3>1. CASE h # th /\ queue'[h] = queue[h] /\ i \in 1..Len(queue[h])
      <4>1. queue[h][i].kind = r /\ queue[h][i].conn = b
        BY <2>1, <3>1
      <4> QED
        BY <1>3, <3>1, <4>1 DEF Waits, WaitsOnce
    <3>2. CASE /\ h = th /\ i + 1 \in 1..Len(queue[th]) /\ i + 1 # 1
               /\ queue'[th][i] = queue[th][i + 1]
      <4>1. queue[th][i + 1].kind = r /\ queue[th][i + 1].conn = b
        BY <2>1, <3>2
      <4> QED
        BY <1>3, <3>2, <4>1 DEF Waits, WaitsOnce
    <3> QED
      BY <1>5, <3>1, <3>2
  <2>2. ASSUME NEW h \in Threads, NEW i \in 1..Len(queue[h]),
               queue[h][i].kind = r, queue[h][i].conn = b, ~(r = j.kind /\ b = j.conn)
        PROVE  b \in Waits(r)'
    <3>1. ~(h = th /\ i = 1)
      BY <1>3, <2>2
    <3> QED
      BY <1>6, <2>2, <3>1 DEF Waits
  <2> QED
    BY <2>1, <2>2 DEF Waits
<1>9. ASSUME NEW r \in Side
      PROVE  Waits(r)' = IF r = j.kind THEN Waits(r) \ {j.conn} ELSE Waits(r)
  <2>1. Waits(r) \subseteq Conns /\ Waits(r)' \subseteq Conns
    BY DEF Waits
  <2> QED
    BY <1>8, <2>1
<1>10. WaitsOnce'
  <2>1. ASSUME NEW g \in Threads, NEW k \in Threads, NEW a \in 1..Len(queue'[g]),
               NEW b \in 1..Len(queue'[k]),
               queue'[g][a].kind = queue'[k][b].kind, queue'[g][a].conn = queue'[k][b].conn
        PROVE  g = k /\ a = b
    <3>1. PICK x \in 1..Len(queue[g]) :
              queue[g][x] = queue'[g][a] /\ x = IF g = th THEN a + 1 ELSE a
      BY <1>5
    <3>2. PICK y \in 1..Len(queue[k]) :
              queue[k][y] = queue'[k][b] /\ y = IF k = th THEN b + 1 ELSE b
      BY <1>5
    <3>3. queue[g][x].kind = queue[k][y].kind /\ queue[g][x].conn = queue[k][y].conn
      BY <2>1, <3>1, <3>2
    <3>4. g = k /\ x = y
      BY <3>3, SMTT(60) DEF WaitsOnce
    <3> QED
      BY <3>1, <3>2, <3>4
  <2> QED
    BY <2>1 DEF WaitsOnce
<1>11. JobsMatch'
  <2>1. ASSUME NEW h \in Threads, NEW i \in 1..Len(queue'[h])
        PROVE  queue'[h][i].trans = queue'[h][i].conn
    <3>1. \E k \in 1..Len(queue[h]) : queue'[h][i] = queue[h][k]
      BY <1>5
    <3> QED
      BY <3>1 DEF JobsMatch
  <2> QED
    BY <2>1 DEF JobsMatch
<1>12. j.trans = j.conn
  BY <1>3 DEF JobsMatch
<1> QED
  BY <1>2, <1>7, <1>9, <1>10, <1>11, <1>12 DEF j

-----------------------------------------------------------------------------
(* What a step leaves alone.                                               *)

\* A step that changes nothing about leg s of connection c, or about c.
SameLeg(s, c) ==
    /\ cl'[<<s, c>>] = cl[<<s, c>>] /\ bev'[<<s, c>>] = bev[<<s, c>>]
    /\ place'[<<s, c>>] = place[<<s, c>>]
    /\ c \in Told(s, "CONN")' <=> c \in Told(s, "CONN")
    /\ c \in Told(s, "CONN_ACT")' <=> c \in Told(s, "CONN_ACT")
    /\ c \in Waits(s)' <=> c \in Waits(s)
SameConn(c) == SameLeg("U", c) /\ SameLeg("D", c) /\ srv'[c] = srv[c]

\* Legs are pairs of a side and a connection.
LEMMA LegPairs ==
    /\ "U" \in Side /\ "D" \in Side /\ "U" # "D"
    /\ \A s \in Side, c \in Conns : <<s, c>> \in Leg
    /\ \A l \in Leg : \E s \in Side, c \in Conns : l = <<s, c>>
    /\ \A s \in Side : s = "U" \/ s = "D"
  BY DEF Leg, Side

\* A connection is joined when both slots hold its legs.
LEMMA ReadyDef ==
    /\ \A c \in Conns : Ready(c) <=> srv[c] = "freed" \/ (bev[<<"U", c>>] = c /\ bev[<<"D", c>>] = c)
    /\ \A c \in Conns : Ready(c)' <=> srv'[c] = "freed" \/ (bev'[<<"U", c>>] = c /\ bev'[<<"D", c>>] = c)
  BY LegPairs DEF Ready, Joined

\* The parts of the invariant, and what it says of one connection.
LEMMA LegFacts ==
    ASSUME LegInv
    PROVE  /\ ToldOnce /\ WaitsOnce /\ JobsMatch /\ OneUnderway /\ OldIsFinished
           /\ MailInv /\ PairsInv /\ UpLegs
           /\ \A c \in Conns : WayOf(c)
  BY DEF LegInv, MailInv, PairsInv

\* A connection that a step leaves alone stays where it is on its way.
LEMMA SameWay ==
    ASSUME NEW c \in Conns, SameConn(c), \A s \in Side : alive'[s] => alive[s]
    PROVE  /\ WayOf(c) => WayOf(c)'
           /\ Underway(c)' <=> Underway(c)
           /\ Carried(c)' <=> Carried(c)
           /\ Ready(c)' <=> Ready(c)
           /\ Finished(c)' <=> Finished(c)
<1>1. /\ SameLeg("U", c) /\ SameLeg("D", c) /\ srv'[c] = srv[c]
      /\ (alive'["U"] => alive["U"]) /\ (alive'["D"] => alive["D"])
  BY LegPairs DEF SameConn
<1>2. Ready(c)' <=> Ready(c)
  BY <1>1, ReadyDef DEF SameLeg
<1>3. (Carried(c)' <=> Carried(c)) /\ (Underway(c)' <=> Underway(c))
  BY <1>1 DEF SameLeg, Carried, Underway
<1>4. Finished(c)' <=> Finished(c)
  BY <1>1, LegPairs DEF SameLeg, Finished
<1>5. LegWay("U", c) => LegWay("U", c)'
  BY <1>1, <1>2 DEF SameLeg, LegWay
<1>6. LegWay("D", c) => LegWay("D", c)'
  BY <1>1, <1>2 DEF SameLeg, LegWay
<1>7. TransWay(c) => TransWay(c)'
  BY <1>1, <1>3 DEF SameLeg, TransWay
<1> QED
  BY <1>2, <1>3, <1>4, <1>5, <1>6, <1>7 DEF WayOf

\* A step that sets nothing underway and creates no trans.
LEMMA PairsKept ==
    ASSUME PairsInv, port' = port,
           \A c \in Conns : /\ Underway(c)' => Underway(c)
                            /\ Carried(c)' => Carried(c)
                            /\ srv'[c] = "listed" => srv[c] = "listed"
                            /\ Finished(c) => Finished(c)'
    PROVE  PairsInv'
<1>1. OneUnderway'
  BY DEF PairsInv, OneUnderway
<1>2. OldIsFinished'
  BY DEF PairsInv, OldIsFinished
<1> QED
  BY <1>1, <1>2 DEF PairsInv

\* A step of one connection.
LEMMA OneConnWay ==
    ASSUME LegInv, port' = port, NEW c \in Conns,
           \A b \in Conns : b # c => SameConn(b),
           \A s \in Side : alive'[s] => alive[s],
           WayOf(c)', Underway(c)' => Underway(c), Carried(c)' => Carried(c),
           srv'[c] = "listed" => srv[c] = "listed", Finished(c) => Finished(c)',
           MailInv', UpLegs'
    PROVE  LegInv'
<1>1. \A b \in Conns : b # c => /\ WayOf(b)' /\ srv'[b] = srv[b]
                                /\ Underway(b)' <=> Underway(b)
                                /\ Carried(b)' <=> Carried(b)
                                /\ Finished(b)' <=> Finished(b)
  BY LegFacts, SameWay DEF SameConn
<1>2. PairsInv'
  <2>1. \A b \in Conns : /\ Underway(b)' => Underway(b)
                         /\ Carried(b)' => Carried(b)
                         /\ srv'[b] = "listed" => srv[b] = "listed"
                         /\ Finished(b) => Finished(b)'
    BY <1>1
  <2> QED
    BY <2>1, LegFacts, PairsKept
<1> QED
  BY <1>1, <1>2 DEF LegInv

\* A step that leaves the control channels and the queues alone.
LEMMA MailQuiet ==
    ASSUME MailInv, UNCHANGED <<ctl, queue>>
    PROVE  /\ \A s, cmd : Told(s, cmd)' = Told(s, cmd)
           /\ \A s : Waits(s)' = Waits(s)
           /\ MailInv'
  BY DEF MailInv, Told, Waits, ToldOnce, WaitsOnce, JobsMatch

\* A connection of which only the sockets and what they carry are touched.
LEMMA QuietConn ==
    ASSUME NEW c \in Conns, LegInv, UNCHANGED <<ctl, queue>>, srv'[c] = srv[c],
           \A s \in Side : /\ cl'[<<s, c>>] = cl[<<s, c>>] /\ bev'[<<s, c>>] = bev[<<s, c>>]
                           /\ place'[<<s, c>>] = place[<<s, c>>]
    PROVE  SameConn(c)
  BY LegFacts, MailQuiet, LegPairs DEF SameConn, SameLeg

-----------------------------------------------------------------------------
(* What a leg carries.                                                     *)

\* The cells of a channel whose sender has closed.
LEMMA CutCells ==
    ASSUME NEW q \in Seq(Items), NEW n \in Nat, n <= Len(q)
    PROVE  LET r == Append(SubSeq(q, 1, n), Fin) IN
           /\ Len(r) = n + 1 /\ r[n + 1] = Fin
           /\ \A i \in 1..Len(r) : (i \in 1..n /\ i \in 1..Len(q) /\ r[i] = q[i]) \/ r[i] = Fin
<1>1. Len(q) \in Nat /\ \A i \in 1..Len(q) : q[i] \in Items
  BY ElementOfSeq, LenProperties
<1>2. \A i \in 1..n : i \in 1..Len(q) /\ q[i] \in Items
  BY <1>1
<1> DEFINE p == SubSeq(q, 1, n)
<1>3. /\ p \in Seq(Items) /\ Len(p) = IF 1 <= n THEN n - 1 + 1 ELSE 0
      /\ \A i \in 1..(n - 1 + 1) : p[i] = q[1 + i - 1]
  BY <1>2, SubSeqProperties
<1> HIDE DEF p
<1>4. Len(p) = n /\ \A i \in 1..n : p[i] = q[i]
  BY <1>3
<1>5. /\ Len(Append(p, Fin)) = n + 1 /\ Append(p, Fin)[n + 1] = Fin
      /\ \A i \in 1..n : Append(p, Fin)[i] = q[i]
  BY <1>3, <1>4, ItemTypes, AppendProperties
<1>6. \A i \in 1..(n + 1) : i \in 1..n \/ i = n + 1
  BY LastPlace
<1> QED
  BY <1>2, <1>5, <1>6 DEF p

\* What a leg carries stays in order if its cells are old ones, a CONN header
\* at its old place, or ones that may be new.
LEMMA UpLegsKept ==
    ASSUME UpLegs,
           \A c \in Conns : Ready(c) => Ready(c)',
           \A l \in Leg : cl[l] = "closed" => cl'[l] = "closed",
           \A l \in Leg : \A i \in 1..Len(up'[l]) :
               \/ \E j \in 1..Len(up[l]) :
                      /\ up'[l][i] = up[l][j]
                      /\ up[l][j] = ConnHead => i = j /\ place'[l] = place[l]
               \/ up'[l][i] = Fin /\ cl'[l] = "closed"
               \/ up'[l][i] = ConnHead /\ i = 1 /\ place'[l] = "main"
               \/ up'[l][i].tag = "data" /\ Ready(l[2])'
    PROVE  UpLegs'
<1>1. \A l \in Leg : l[2] \in Conns
  BY DEF Leg
<1>2. ConnHead.tag = "conn" /\ Fin.tag = "fin"
  BY DEF ConnHead, Fin
<1>3. ASSUME NEW l \in Leg, NEW i \in 1..Len(up'[l])
      PROVE  /\ up'[l][i] = ConnHead => i = 1 /\ place'[l] = "main"
             /\ up'[l][i].tag = "data" => Ready(l[2])'
             /\ up'[l][i] = Fin => cl'[l] = "closed"
  <2>1. CASE \E j \in 1..Len(up[l]) :
                 /\ up'[l][i] = up[l][j]
                 /\ up[l][j] = ConnHead => i = j /\ place'[l] = place[l]
    BY <1>1, <2>1 DEF UpLegs
  <2>2. CASE up'[l][i] = Fin /\ cl'[l] = "closed"
    BY <1>2, <2>2
  <2>3. CASE up'[l][i] = ConnHead /\ i = 1 /\ place'[l] = "main"
    BY <1>2, <2>3
  <2>4. CASE up'[l][i].tag = "data" /\ Ready(l[2])'
    BY <1>2, <2>4
  <2> QED
    BY <2>1, <2>2, <2>3, <2>4
<1> QED
  BY <1>3 DEF UpLegs

\* The cells of a leg after its oldest is taken.
LEMMA UpTail ==
    ASSUME PortInv, UpLegs, NEW k \in Leg, up[k] # <<>>, up' = [up EXCEPT ![k] = Tail(@)],
           \A l \in Leg : l # k => place'[l] = place[l],
           \A l \in Leg : cl[l] = "closed" => cl'[l] = "closed",
           \A c \in Conns : Ready(c) => Ready(c)'
    PROVE  UpLegs'
<1>1. up \in [Leg -> Seq(Items)] /\ up[k] \in Seq(Items)
  BY DEF PortInv, TypeOK
<1>2. /\ Len(Tail(up[k])) = Len(up[k]) - 1 /\ Len(up[k]) \in Nat
      /\ \A i \in 1..Len(Tail(up[k])) : Tail(up[k])[i] = up[k][i + 1]
  BY <1>1, HeadTailProperties, LenProperties
<1>3. up'[k] = Tail(up[k]) /\ \A l \in Leg : l # k => up'[l] = up[l]
  BY <1>1
<1>4. ASSUME NEW l \in Leg, NEW i \in 1..Len(up'[l])
      PROVE  \E j \in 1..Len(up[l]) :
                 /\ up'[l][i] = up[l][j]
                 /\ up[l][j] = ConnHead => i = j /\ place'[l] = place[l]
  <2>1. CASE l # k
    BY <1>3, <2>1
  <2>2. CASE l = k
    <3>1. i \in 1..(Len(up[k]) - 1) /\ i \in 1..Len(Tail(up[k]))
      BY <1>2, <1>3, <2>2
    <3>2. i + 1 \in 1..Len(up[k]) /\ i + 1 # 1
      BY <1>2, <3>1, ShiftPlace
    <3>3. up'[k][i] = up[k][i + 1] /\ up[k][i + 1] # ConnHead
      BY <1>2, <1>3, <3>1, <3>2 DEF UpLegs
    <3> QED
      BY <2>2, <3>2, <3>3
  <2> QED
    BY <2>1, <2>2
<1> QED
  BY <1>4, UpLegsKept

\* Legs that carry what they carried.
LEMMA UpStays ==
    ASSUME UpLegs, up' = up,
           \A l \in Leg : place[l] = "main" => place'[l] = "main",
           \A l \in Leg : cl[l] = "closed" => cl'[l] = "closed",
           \A c \in Conns : Ready(c) => Ready(c)'
    PROVE  UpLegs'
<1>1. \A l \in Leg : l[2] \in Conns
  BY DEF Leg
<1> QED
  BY <1>1 DEF UpLegs

\* A step of which no connection's way takes notice.
LEMMA QuietWay ==
    ASSUME LegInv, UNCHANGED <<port, cl, srv, bev, place, ctl, queue, alive>>, UpLegs'
    PROVE  LegInv'
<1>1. \A c \in Conns : SameConn(c)
  BY QuietConn
<1>2. \A c \in Conns : /\ WayOf(c)' /\ srv'[c] = srv[c]
                       /\ Underway(c)' <=> Underway(c)
                       /\ Carried(c)' <=> Carried(c)
                       /\ Finished(c)' <=> Finished(c)
  BY <1>1, SameWay, LegFacts
<1>3. PairsInv'
  BY <1>2, LegFacts, PairsKept
<1>4. MailInv'
  BY LegFacts, MailQuiet
<1> QED
  BY <1>2, <1>3, <1>4 DEF LegInv

-----------------------------------------------------------------------------
(* The steps that end something.                                           *)

\* A client that frees trans of its list, because they are started or because
\* it leaves, keeps everybody's way.
LEMMA ScFreeWay ==
    ASSUME Inv, LegInv, NEW S \in SUBSET Leg, ScFree(S), \A l \in S : cl[l] \in Listed,
           \A s \in Side : alive'[s] => alive[s],
           \A s \in Side, c \in Conns :
               <<s, c>> \in S => cl[<<s, c>>] = "active" \/ ~alive'[s],
           UNCHANGED <<port, srv, bev, place, ctl, queue>>
    PROVE  LegInv'
<1>1. PICK k \in Kept(up, {l \in S : cl[l] # "stuck"}) :
          /\ cl' = [l \in Leg |-> IF l \in S THEN "closed" ELSE cl[l]]
          /\ up' = Cut(up, {l \in S : cl[l] # "stuck"}, k)
  BY DEF ScFree
<1>2. \A s \in Side, c \in Conns :
          cl'[<<s, c>>] = IF <<s, c>> \in S THEN "closed" ELSE cl[<<s, c>>]
  BY <1>1, LegPairs
<1>3. \A s \in Side, c \in Conns : <<s, c>> \in S =>
          cl[<<s, c>>] \notin {"idle", "refused", "closed"}
  BY DEF Listed
<1>4. /\ \A s, cmd : Told(s, cmd)' = Told(s, cmd)
      /\ \A s : Waits(s)' = Waits(s)
      /\ MailInv'
  BY LegFacts, MailQuiet
<1>5. \A c \in Conns : /\ Carried(c)' <=> Carried(c)
                       /\ Underway(c)' <=> Underway(c)
                       /\ Ready(c)' <=> Ready(c)
  BY <1>4, ReadyDef DEF Carried, Underway
<1>6. ASSUME NEW c \in Conns PROVE WayOf(c)'
  <2>1. WayOf(c)
    BY LegFacts
  <2>2. /\ cl'[<<"U", c>>] = cl[<<"U", c>>]
           \/ /\ cl'[<<"U", c>>] = "closed" /\ cl[<<"U", c>>] \notin {"idle", "refused", "closed"}
              /\ cl[<<"U", c>>] = "active" \/ ~alive'["U"]
        /\ cl'[<<"D", c>>] = cl[<<"D", c>>]
           \/ /\ cl'[<<"D", c>>] = "closed" /\ cl[<<"D", c>>] \notin {"idle", "refused", "closed"}
              /\ cl[<<"D", c>>] = "active" \/ ~alive'["D"]
        /\ (alive'["U"] => alive["U"]) /\ (alive'["D"] => alive["D"])
    BY <1>2, <1>3, LegPairs
  <2>3. LegWay("U", c)'
    BY <1>4, <1>5, <2>1, <2>2 DEF WayOf, LegWay
  <2>4. LegWay("D", c)'
    BY <1>4, <1>5, <2>1, <2>2 DEF WayOf, LegWay
  <2>5. TransWay(c)'
    BY <1>4, <1>5, <2>1, <2>2 DEF WayOf, TransWay
  <2> QED
    BY <2>3, <2>4, <2>5 DEF WayOf
<1>7. PairsInv'
  <2>1. \A c \in Conns : Finished(c) => Finished(c)'
    BY <1>2, <1>4 DEF Finished
  <2> QED
    BY <1>5, <2>1, LegFacts, PairsKept
<1>8. UpLegs'
  <2> DEFINE open == {l \in S : cl[l] # "stuck"}
  <2>1. up \in [Leg -> Seq(Items)]
    BY DEF Inv, PortInv, TypeOK
  <2>2. ASSUME NEW l \in Leg, NEW i \in 1..Len(up'[l])
        PROVE  \/ \E j \in 1..Len(up[l]) :
                      /\ up'[l][i] = up[l][j]
                      /\ up[l][j] = ConnHead => i = j /\ place'[l] = place[l]
               \/ up'[l][i] = Fin /\ cl'[l] = "closed"
    <3>1. CASE l \notin open
      <4>1. up'[l] = up[l]
        BY <1>1, <3>1 DEF Cut
      <4> QED
        BY <4>1
    <3>2. CASE l \in open
      <4>1. up'[l] = Append(SubSeq(up[l], 1, k[l]), Fin) /\ cl'[l] = "closed"
        BY <1>1, <3>2 DEF Cut
      <4>2. k[l] \in Nat /\ k[l] <= Len(up[l]) /\ up[l] \in Seq(Items)
        BY <1>1, <2>1, <3>2, BoundsAssumption DEF Kept
      <4>3. \/ i \in 1..k[l] /\ i \in 1..Len(up[l]) /\ up'[l][i] = up[l][i]
            \/ up'[l][i] = Fin
        BY <2>2, <4>1, <4>2, CutCells
      <4> QED
        BY <4>1, <4>3
    <3> QED
      BY <3>1, <3>2
  <2>3. \A l \in Leg : cl[l] = "closed" => cl'[l] = "closed"
    BY <1>1
  <2> QED
    BY <1>5, <2>2, <2>3, LegFacts, UpLegsKept
<1> QED
  BY <1>4, <1>6, <1>7, <1>8 DEF LegInv

\* The server that frees trans for a reason keeps everybody's way.
LEMMA SsFreeWay ==
    ASSUME Inv, LegInv, NEW T \in SUBSET Conns, SsFree(T),
           \A t \in T : \/ ~alive["U"] \/ ~alive["D"]
                        \/ /\ place[<<"U", t>>] # "queued"
                           /\ cl[<<"U", t>>] = "closed" \/ cl[<<"D", t>>] = "closed",
           UNCHANGED <<port, cl, ctl, queue, alive>>
    PROVE  LegInv'
<1> DEFINE slots == {x \in Side \X T : bev[x] # None}
           legs  == {<<x[1], bev[x]>> : x \in slots}
<1>1. /\ srv' = [c \in Conns |-> IF c \in T THEN "freed" ELSE srv[c]]
      /\ bev' = [x \in Leg |-> IF x \in slots THEN None ELSE bev[x]]
      /\ place' = [l \in Leg |-> IF l \in legs THEN "closed" ELSE place[l]]
      /\ up' = Drop(up, legs)
  BY DEF SsFree
<1>2. ASSUME NEW s \in Side, NEW t \in Conns, bev[<<s, t>>] # None
      PROVE  bev[<<s, t>>] = t /\ place[<<s, t>>] = "worker"
  <2>1. LegWay("U", t) /\ LegWay("D", t)
    BY LegFacts DEF WayOf
  <2>2. s = "U" \/ s = "D"
    BY LegPairs
  <2> QED
    BY <1>2, <2>1, <2>2 DEF LegWay
<1>3. legs = slots
  <2>1. \A x \in slots : x = <<x[1], bev[x]>>
    BY <1>2
  <2> QED
    BY <2>1
<1>4. \A s \in Side, c \in Conns : <<s, c>> \in slots <=> c \in T /\ bev[<<s, c>>] # None
  OBVIOUS
<1> HIDE DEF slots, legs
<1>5. /\ \A c \in Conns : srv'[c] = IF c \in T THEN "freed" ELSE srv[c]
      /\ \A s \in Side, c \in Conns :
             /\ bev'[<<s, c>>] = IF c \in T THEN None ELSE bev[<<s, c>>]
             /\ place'[<<s, c>>] = IF c \in T /\ bev[<<s, c>>] # None
                                       THEN "closed" ELSE place[<<s, c>>]
  BY <1>1, <1>3, <1>4, LegPairs
<1>6. /\ \A s, cmd : Told(s, cmd)' = Told(s, cmd)
      /\ \A s : Waits(s)' = Waits(s)
      /\ MailInv'
  BY LegFacts, MailQuiet
<1>7. ASSUME NEW c \in Conns
      PROVE  /\ WayOf(c)'
             /\ Carried(c)' <=> Carried(c)
             /\ Underway(c)' <=> Underway(c)
             /\ Ready(c) => Ready(c)'
             /\ srv'[c] = "listed" => srv[c] = "listed"
             /\ Finished(c) => Finished(c)'
  <2>1. CASE c \notin T
    <3>1. SameConn(c)
      BY <1>5, <1>6, <2>1, LegPairs DEF SameConn, SameLeg
    <3> QED
      BY <3>1, SameWay, LegFacts DEF SameConn
  <2>2. CASE c \in T
    <3>1. WayOf(c)
      BY LegFacts
    <3>2. /\ srv'[c] = "freed" /\ bev'[<<"U", c>>] = None /\ bev'[<<"D", c>>] = None
          /\ \/ place'[<<"U", c>>] = place[<<"U", c>>]
             \/ place[<<"U", c>>] = "worker" /\ place'[<<"U", c>>] = "closed"
          /\ \/ place'[<<"D", c>>] = place[<<"D", c>>]
             \/ place[<<"D", c>>] = "worker" /\ place'[<<"D", c>>] = "closed"
      BY <1>2, <1>5, <2>2, LegPairs
    <3>3. Ready(c)'
      BY <3>2, ReadyDef
    <3>4. (Carried(c)' <=> Carried(c)) /\ (Underway(c)' <=> Underway(c))
      BY <1>6, <3>2 DEF Carried, Underway
    <3>5. LegWay("U", c)'
      BY <1>6, <3>1, <3>2, <3>3, NoneAssumption DEF WayOf, LegWay
    <3>6. LegWay("D", c)'
      BY <1>6, <3>1, <3>2, <3>3, NoneAssumption DEF WayOf, LegWay
    <3>7. TransWay(c)'
      BY <1>6, <2>2, <3>1, <3>2, <3>4 DEF WayOf, TransWay
    <3>8. Finished(c) => Finished(c)'
      BY <1>6, <3>2, LegPairs DEF Finished
    <3> QED
      BY <3>2, <3>3, <3>4, <3>5, <3>6, <3>7, <3>8 DEF WayOf
  <2> QED
    BY <2>1, <2>2
<1>8. PairsInv'
  BY <1>7, LegFacts, PairsKept
<1>9. UpLegs'
  <2>1. ASSUME NEW l \in Leg, NEW i \in 1..Len(up'[l])
        PROVE  \E j \in 1..Len(up[l]) :
                   /\ up'[l][i] = up[l][j]
                   /\ up[l][j] = ConnHead => i = j /\ place'[l] = place[l]
    <3>1. CASE l \in legs
      <4>1. up'[l] = <<>>
        BY <1>1, <3>1 DEF Drop
      <4>2. Len(up'[l]) = 0
        BY <4>1
      <4> QED
        BY <2>1, <4>2
    <3>2. CASE l \notin legs
      <4>1. up'[l] = up[l] /\ place'[l] = place[l]
        BY <1>1, <3>2 DEF Drop
      <4> QED
        BY <4>1
    <3> QED
      BY <3>1, <3>2
  <2> QED
    BY <1>7, <2>1, LegFacts, UpLegsKept
<1> QED
  BY <1>6, <1>7, <1>8, <1>9 DEF LegInv

\* Legs that the server turns away or leaks, and DAEMON legs that it loses, are
\* no longer underway.
LEMMA TurnedAway ==
    ASSUME Inv, LegInv, NEW s \in Side, NEW c \in Conns, HasConn(<<s, c>>),
           NEW x \in {"rejected", "leaked", "lost"}, x = "lost" => s = "D", place' = [place EXCEPT ![<<s, c>>] = x],
           up' = [up EXCEPT ![<<s, c>>] = Tail(@)],
           UNCHANGED <<port, cl, srv, bev, ctl, queue, alive>>
    PROVE  LegInv'
<1>1. place \in [Leg -> Places] /\ place[<<s, c>>] = "main" /\ up[<<s, c>>] # <<>>
  BY DEF Inv, PortInv, TypeOK, HasConn
<1>2. \A r \in Side, b \in Conns :
          place'[<<r, b>>] = IF r = s /\ b = c THEN x ELSE place[<<r, b>>]
  BY <1>1, LegPairs
<1>3. /\ \A r, cmd : Told(r, cmd)' = Told(r, cmd)
      /\ \A r : Waits(r)' = Waits(r)
      /\ MailInv'
  BY LegFacts, MailQuiet
<1>4. \A b \in Conns : b # c => SameConn(b)
  BY <1>2, <1>3, LegPairs DEF SameConn, SameLeg
<1>5. /\ s = "U" \/ s = "D"
      /\ place[<<s, c>>] = "main" /\ place'[<<s, c>>] \in {"rejected", "leaked", "lost"}
      /\ s = "U" => place'[<<"U", c>>] # "lost"
      /\ s = "U" => place'[<<"D", c>>] = place[<<"D", c>>]
      /\ s = "D" => place'[<<"U", c>>] = place[<<"U", c>>]
  BY <1>1, <1>2, LegPairs
<1>6. /\ Ready(c)' <=> Ready(c)
      /\ (Carried(c)' => Carried(c)) /\ (Underway(c)' => Underway(c))
  BY <1>3, <1>5, ReadyDef DEF Carried, Underway
<1>7. WayOf(c)'
  <2>1. WayOf(c)
    BY LegFacts
  <2>2. LegWay("U", c)'
    BY <1>3, <1>5, <1>6, <2>1 DEF WayOf, LegWay
  <2>3. LegWay("D", c)'
    BY <1>3, <1>5, <1>6, <2>1 DEF WayOf, LegWay
  <2>4. TransWay(c)'
    BY <1>3, <1>5, <1>6, <2>1 DEF WayOf, TransWay
  <2> QED
    BY <2>2, <2>3, <2>4 DEF WayOf
<1>8. UpLegs'
  <2>1. \A l \in Leg : l # <<s, c>> => place'[l] = place[l]
    BY <1>1
  <2>2. \A b \in Conns : Ready(b) => Ready(b)'
    BY ReadyDef
  <2> QED
    BY <1>1, <2>1, <2>2, UpTail, LegPairs, LegFacts DEF Inv
<1>9. ~Finished(c)
  BY <1>5, LegPairs DEF Finished
<1> QED
  BY <1>3, <1>4, <1>6, <1>7, <1>8, <1>9, OneConnWay

-----------------------------------------------------------------------------
(* The steps of a connection's way.                                        *)

\* What is known of a connection whose CONN header is at the main loop.
LEMMA UserArrives ==
    ASSUME Inv, LegInv, NEW c \in Conns, place[<<"U", c>>] = "main"
    PROVE  /\ srv[c] = "none" /\ port[c] # 0 /\ ~Ready(c) /\ Underway(c)
           /\ c \notin Told("D", "CONN") /\ \A s \in Side : c \notin Told(s, "CONN_ACT")
           /\ c \notin Waits("U") /\ c \notin Waits("D")
           /\ cl[<<"D", c>>] = "idle" /\ place[<<"D", c>>] = "none"
<1>1. srv \in [Conns -> {"none", "listed", "freed"}]
  BY DEF Inv, PortInv, TypeOK
<1>2. srv[c] = "none" /\ port[c] # 0
  BY <1>1, LegPairs DEF Inv, PortInv, PortKnown, OrderInv, UserFresh
<1>3. LegWay("U", c) /\ LegWay("D", c) /\ TransWay(c)
  BY LegFacts DEF WayOf
<1>4. ~Ready(c)
  BY <1>2, <1>3, ReadyDef DEF LegWay
<1>5. cl[<<"D", c>>] = "idle" /\ place[<<"D", c>>] = "none" /\ c \notin Told("D", "CONN")
  BY <1>2, <1>3 DEF TransWay
<1>6. c \notin Told("U", "CONN_ACT") /\ c \notin Told("D", "CONN_ACT")
  BY <1>3, <1>4 DEF LegWay
<1>7. c \notin Waits("U") /\ c \notin Waits("D")
  BY <1>3, <1>5 DEF LegWay
<1> QED
  BY <1>2, <1>4, <1>5, <1>6, <1>7, LegPairs DEF Underway

\* The main loop creates the trans, queues or loses the USR leg and tells the
\* DAEMON.
LEMMA UserWay ==
    ASSUME Inv, LegInv, NEW c \in Conns, SrvConnUsr(c), SsMayCreate(port[c])
    PROVE  LegInv'
<1>0. PICK x \in {"queued", "lost"} :
          /\ place' = [place EXCEPT ![<<"U", c>>] = x]
          /\ x = "queued" => Handed("U", c, c, ThreadOf(port[c]))
          /\ x = "lost" => queue' = queue
  BY DEF SrvConnUsr, Enqueue, Handed
<1>1. /\ place[<<"U", c>>] = "main" /\ up[<<"U", c>>] # <<>>
      /\ up' = [up EXCEPT ![<<"U", c>>] = Tail(@)]
      /\ srv' = [srv EXCEPT ![c] = "listed"]
      /\ ctl' = Post(ctl, "D", Msg("CONN", c))
      /\ UNCHANGED <<port, cl, bev, alive>>
  BY DEF SrvConnUsr, HasConn
<1>2. /\ srv[c] = "none" /\ port[c] # 0 /\ ~Ready(c) /\ Underway(c)
      /\ c \notin Told("D", "CONN") /\ \A s \in Side : c \notin Told(s, "CONN_ACT")
      /\ c \notin Waits("U") /\ c \notin Waits("D")
      /\ cl[<<"D", c>>] = "idle" /\ place[<<"D", c>>] = "none"
  BY <1>1, UserArrives
<1>3. /\ place \in [Leg -> Places] /\ srv \in [Conns -> {"none", "listed", "freed"}]
      /\ ctl \in CtlChannels
  BY DEF Inv, PortInv, TypeOK, CtlKnown, CtlChannels
<1>4. /\ \A r \in Side, b \in Conns :
             place'[<<r, b>>] = IF r = "U" /\ b = c THEN x ELSE place[<<r, b>>]
      /\ \A b \in Conns : srv'[b] = IF b = c THEN "listed" ELSE srv[b]
  BY <1>0, <1>1, <1>3, LegPairs
<1>5. /\ ToldOnce'
      /\ \A r \in Side : \A cmd :
             Told(r, cmd)' = IF r = "D" /\ alive["D"] /\ cmd = "CONN"
                                 THEN Told(r, cmd) \cup {c} ELSE Told(r, cmd)
  <2> DEFINE m == Msg("CONN", c)
  <2>1. m \in KnownMsgs /\ m.of = c /\ m.cmd = "CONN"
    BY <1>2, MsgType DEF Inv, Msg
  <2>2. m.of \notin About(PipeOf(ctl, "D"), m.cmd) /\ \A r \in Side : Once(PipeOf(ctl, r))
    BY <1>2, <2>1, LegFacts DEF Told, ToldOnce
  <2> HIDE DEF m
  <2>3. /\ \A r \in Side : Once(PipeOf(Post(ctl, "D", m), r))
        /\ \A r \in Side : \A cmd :
               About(PipeOf(Post(ctl, "D", m), r), cmd) =
                   IF r = "D" /\ alive["D"] /\ cmd = m.cmd
                       THEN About(PipeOf(ctl, r), cmd) \cup {m.of}
                       ELSE About(PipeOf(ctl, r), cmd)
    BY <1>3, <2>1, <2>2, HeaderPosted, LegPairs
  <2>4. ctl' = Post(ctl, "D", m)
    BY <1>1 DEF m
  <2> QED
    BY <2>1, <2>3, <2>4 DEF Told, ToldOnce
<1>6. /\ \A r \in Side : Waits(r)' = IF r = "U" /\ x = "queued" THEN Waits(r) \cup {c}
                                                               ELSE Waits(r)
      /\ WaitsOnce' /\ JobsMatch'
  <2>1. CASE x = "queued"
    BY <1>0, <1>2, <2>1, JobQueued, LegPairs, LegFacts DEF Inv
  <2>2. CASE x = "lost"
    BY <1>0, <2>2, LegFacts DEF Waits, WaitsOnce, JobsMatch
  <2> QED
    BY <2>1, <2>2
<1>7. \A b \in Conns : b # c => SameConn(b)
  <2>1. ASSUME NEW b \in Conns, b # c, NEW s \in Side PROVE SameLeg(s, b)
    <3>1. \A cmd : b \in Told(s, cmd)' <=> b \in Told(s, cmd)
      BY <1>5, <2>1
    <3>2. b \in Waits(s)' <=> b \in Waits(s)
      BY <1>6, <2>1
    <3> QED
      BY <1>1, <1>4, <2>1, <3>1, <3>2 DEF SameLeg
  <2> QED
    BY <1>4, <2>1, LegPairs DEF SameConn
<1>8. /\ cl'[<<"U", c>>] = cl[<<"U", c>>] /\ cl'[<<"D", c>>] = "idle"
      /\ bev'[<<"U", c>>] = bev[<<"U", c>>] /\ bev'[<<"D", c>>] = bev[<<"D", c>>]
      /\ place'[<<"U", c>>] = x /\ place'[<<"D", c>>] = "none" /\ srv'[c] = "listed"
      /\ c \notin Waits("D")' /\ (x = "lost" => c \notin Waits("U")')
      /\ c \notin Told("U", "CONN_ACT")' /\ c \notin Told("D", "CONN_ACT")'
      /\ alive'["U"] = alive["U"]
  <2>1. c \notin Told("U", "CONN_ACT")' /\ c \notin Told("D", "CONN_ACT")'
    BY <1>2, <1>5, LegPairs
  <2>2. c \notin Waits("D")' /\ (x = "lost" => c \notin Waits("U")')
    BY <1>2, <1>6, LegPairs
  <2> QED
    BY <1>1, <1>2, <1>4, <2>1, <2>2, LegPairs
<1>9. ~Ready(c)'
  BY <1>2, <1>8, ReadyDef
<1>10. WayOf(c)'
  <2>1. LegWay("U", c) /\ LegWay("D", c) /\ TransWay(c)
    BY LegFacts DEF WayOf
  <2>2. bev[<<"U", c>>] = None /\ bev[<<"D", c>>] = None
    BY <1>1, <1>2, <2>1 DEF LegWay
  <2>3. cl[<<"U", c>>] = "opening" \/ ~alive["U"]
    BY <1>2, <2>1 DEF TransWay
  <2>4. LegWay("U", c)'
    BY <1>2, <1>8, <2>1, <2>2, NoneAssumption DEF LegWay
  <2>5. LegWay("D", c)'
    BY <1>2, <1>8, <2>1, <2>2, NoneAssumption DEF LegWay
  <2>6. TransWay(c)'
    BY <1>8, <2>3 DEF TransWay
  <2> QED
    BY <2>4, <2>5, <2>6 DEF WayOf
<1>11. \A b \in Conns : b # c => /\ WayOf(b)'
                                 /\ Underway(b)' <=> Underway(b)
                                 /\ Carried(b)' <=> Carried(b)
                                 /\ Finished(b)' <=> Finished(b)
  BY <1>1, <1>7, SameWay, LegFacts
<1>12. OneUnderway'
  <2>1. ASSUME NEW a \in Conns, NEW b \in Conns, a # b, port[a] = port[b]
        PROVE  ~(Underway(a)' /\ Underway(b)') /\ ~(Carried(a)' /\ srv'[b] = "listed")
    <3>1. ~(Underway(a)' /\ Underway(b)')
      BY <1>2, <1>11, <2>1, LegFacts DEF OneUnderway
    <3>2. ASSUME Carried(a)', srv'[b] = "listed" PROVE FALSE
      <4>1. CASE b = c
        BY <1>2, <1>11, <2>1, <3>2, <4>1, LegFacts DEF OneUnderway, Underway
      <4>2. CASE a = c
        BY <1>4, <2>1, <3>2, <4>2 DEF SsMayCreate, SsFind, SsListed
      <4>3. CASE a # c /\ b # c
        BY <1>4, <1>11, <2>1, <3>2, <4>3, LegFacts DEF OneUnderway
      <4> QED
        BY <4>1, <4>2, <4>3
    <3> QED
      BY <3>1, <3>2
  <2> QED
    BY <1>1, <2>1 DEF OneUnderway
<1>13. OldIsFinished'
  <2>1. \A b \in Conns : Finished(b) => Finished(b)'
    BY <1>1, <1>11, LegPairs DEF Finished
  <2> QED
    BY <1>1, <2>1, LegFacts DEF OldIsFinished
<1>14. UpLegs'
  <2>1. \A l \in Leg : l # <<"U", c>> => place'[l] = place[l]
    BY <1>0, <1>3
  <2>2. \A b \in Conns : Ready(b) => Ready(b)'
    BY <1>1, <1>2, <1>4, ReadyDef
  <2> QED
    BY <1>1, <2>1, <2>2, UpTail, LegPairs, LegFacts DEF Inv
<1> QED
  BY <1>5, <1>6, <1>10, <1>11, <1>12, <1>13, <1>14 DEF LegInv, MailInv, PairsInv

\* The trans that a DAEMON leg finds by its port is that of its own connection.
LEMMA DaemonFinds ==
    ASSUME LegInv, NEW c \in Conns, place[<<"D", c>>] = "main", NEW t \in SsFind(port[c])
    PROVE  t = c
<1>1. Carried(c)
  BY DEF Carried
<1>2. t \in Conns /\ srv[t] = "listed" /\ port[t] = port[c]
  BY DEF SsFind, SsListed
<1> QED
  BY <1>1, <1>2, LegFacts DEF OneUnderway

\* The main loop queues the DAEMON leg for that trans, or loses it.
LEMMA DaemonWay ==
    ASSUME Inv, LegInv, NEW c \in Conns, SrvConnDaemon(c), SsFind(port[c]) # {},
           place'[<<"D", c>>] = "queued"
    PROVE  LegInv'
<1>0. \E t \in SsFind(port[c]) : Handed("D", c, t, ThreadOf(port[c]))
  <2>1. <<"D", c>> \in Leg /\ place \in [Leg -> Places]
    BY LegPairs DEF Inv, PortInv, TypeOK
  <2> QED
    BY <2>1 DEF SrvConnDaemon, Enqueue
<1>1. /\ place[<<"D", c>>] = "main" /\ up[<<"D", c>>] # <<>>
      /\ up' = [up EXCEPT ![<<"D", c>>] = Tail(@)]
      /\ place' = [place EXCEPT ![<<"D", c>>] = "queued"]
      /\ UNCHANGED <<port, cl, srv, bev, ctl, alive>>
  BY <1>0 DEF SrvConnDaemon, HasConn, Handed
<1>2. Handed("D", c, c, ThreadOf(port[c]))
  BY <1>0, <1>1, DaemonFinds
<1>3. place \in [Leg -> Places]
  BY DEF Inv, PortInv, TypeOK
<1>4. \A r \in Side, b \in Conns :
          place'[<<r, b>>] = IF r = "D" /\ b = c THEN "queued" ELSE place[<<r, b>>]
  BY <1>1, <1>3, LegPairs
<1>5. LegWay("U", c) /\ LegWay("D", c) /\ TransWay(c)
  BY LegFacts DEF WayOf
<1>6. c \notin Waits("D")
  BY <1>1, <1>5 DEF LegWay
<1>7. /\ \A r \in Side : Waits(r)' = IF r = "D" THEN Waits(r) \cup {c} ELSE Waits(r)
      /\ WaitsOnce' /\ JobsMatch'
  BY <1>2, <1>6, JobQueued, LegPairs, LegFacts DEF Inv
<1>8. (\A r, cmd : Told(r, cmd)' = Told(r, cmd)) /\ ToldOnce'
  BY <1>1, LegFacts DEF Told, ToldOnce
<1>9. \A b \in Conns : b # c => SameConn(b)
  <2>1. ASSUME NEW b \in Conns, b # c, NEW s \in Side PROVE SameLeg(s, b)
    <3>1. b \in Waits(s)' <=> b \in Waits(s)
      BY <1>7, <2>1
    <3> QED
      BY <1>1, <1>4, <1>8, <2>1, <3>1 DEF SameLeg
  <2> QED
    BY <1>1, <2>1, LegPairs DEF SameConn
<1>10. /\ place'[<<"U", c>>] = place[<<"U", c>>] /\ place'[<<"D", c>>] = "queued"
       /\ Waits("U")' = Waits("U")
  BY <1>4, <1>7, LegPairs
<1>11. /\ Ready(c)' <=> Ready(c)
       /\ (Carried(c)' <=> Carried(c)) /\ (Underway(c)' <=> Underway(c))
  BY <1>1, <1>8, <1>10, ReadyDef DEF Carried, Underway
<1>12. WayOf(c)'
  <2>1. LegWay("U", c)'
    BY <1>1, <1>5, <1>8, <1>10, <1>11 DEF LegWay
  <2>2. LegWay("D", c)'
    BY <1>1, <1>5, <1>8, <1>10, <1>11 DEF LegWay
  <2>3. TransWay(c)'
    BY <1>1, <1>5, <1>8, <1>10, <1>11 DEF TransWay
  <2> QED
    BY <2>1, <2>2, <2>3 DEF WayOf
<1>13. UpLegs'
  <2>1. \A l \in Leg : l # <<"D", c>> => place'[l] = place[l]
    BY <1>1, <1>3
  <2>2. \A b \in Conns : Ready(b) => Ready(b)'
    BY <1>1, ReadyDef
  <2> QED
    BY <1>1, <2>1, <2>2, UpTail, LegPairs, LegFacts DEF Inv
<1>14. ~Finished(c)
  BY <1>1, LegPairs DEF Finished
<1>15. MailInv'
  BY <1>7, <1>8 DEF MailInv
<1> QED
  BY <1>1, <1>9, <1>11, <1>12, <1>13, <1>14, <1>15, OneConnWay

\* The worker that has joined the legs tells both clients, for the first time.
LEMMA ActPosted ==
    ASSUME Inv, LegInv, NEW c \in Conns, srv[c] = "listed", place[<<"D", c>>] = "queued",
           ctl' = LET m == Msg("CONN_ACT", c) IN Post(Post(ctl, "D", m), "U", m)
    PROVE  /\ ToldOnce'
           /\ \A r \in Side : \A cmd :
                  Told(r, cmd)' = IF alive[r] /\ cmd = "CONN_ACT" THEN Told(r, cmd) \cup {c}
                                  ELSE Told(r, cmd)
<1> DEFINE m == Msg("CONN_ACT", c)
           half == Post(ctl, "D", m)
<1>1. m \in KnownMsgs /\ m.of = c /\ m.cmd = "CONN_ACT"
  <2>1. port[c] # 0
    BY LegPairs DEF Inv, OrderInv, UserFresh
  <2> QED
    BY <2>1, MsgType DEF Inv, Msg
<1>2. ctl \in CtlChannels /\ \A r \in Side : Once(PipeOf(ctl, r))
  BY LegFacts DEF Inv, PortInv, CtlKnown, CtlChannels, ToldOnce
<1>3. \A r \in Side : c \notin About(PipeOf(ctl, r), "CONN_ACT")
  <2>1. LegWay("U", c) /\ LegWay("D", c)
    BY LegFacts DEF WayOf
  <2>2. c \notin Told("U", "CONN_ACT") /\ c \notin Told("D", "CONN_ACT")
    BY <2>1 DEF LegWay
  <2> QED
    BY <2>2, LegPairs DEF Told
<1>4. ctl' = Post(half, "U", m)
  OBVIOUS
<1> HIDE DEF m
<1>5. /\ half \in CtlChannels
      /\ \A r \in Side : Once(PipeOf(half, r))
      /\ \A r \in Side : \A cmd :
             About(PipeOf(half, r), cmd) =
                 IF r = "D" /\ alive["D"] /\ cmd = m.cmd
                     THEN About(PipeOf(ctl, r), cmd) \cup {m.of}
                     ELSE About(PipeOf(ctl, r), cmd)
  BY <1>1, <1>2, <1>3, HeaderPosted, LegPairs
<1> HIDE DEF half
<1>6. m.of \notin About(PipeOf(half, "U"), m.cmd)
  BY <1>1, <1>3, <1>5, LegPairs
<1>7. /\ \A r \in Side : Once(PipeOf(Post(half, "U", m), r))
      /\ \A r \in Side : \A cmd :
             About(PipeOf(Post(half, "U", m), r), cmd) =
                 IF r = "U" /\ alive["U"] /\ cmd = m.cmd
                     THEN About(PipeOf(half, r), cmd) \cup {m.of}
                     ELSE About(PipeOf(half, r), cmd)
  BY <1>1, <1>5, <1>6, HeaderPosted, LegPairs
<1>8. ToldOnce'
  BY <1>4, <1>7 DEF ToldOnce
<1>9. ASSUME NEW r \in Side, NEW cmd
      PROVE  Told(r, cmd)' = IF alive[r] /\ cmd = "CONN_ACT" THEN Told(r, cmd) \cup {c}
                             ELSE Told(r, cmd)
  <2>1. Told(r, cmd)' = About(PipeOf(Post(half, "U", m), r), cmd) /\ Told(r, cmd) = About(PipeOf(ctl, r), cmd)
    BY <1>4 DEF Told
  <2>2. CASE r = "U"
    BY <1>1, <1>5, <1>7, <2>1, <2>2, LegPairs
  <2>3. CASE r = "D"
    BY <1>1, <1>5, <1>7, <2>1, <2>3, LegPairs
  <2> QED
    BY <2>2, <2>3, LegPairs
<1> QED
  BY <1>8, <1>9

\* A worker's step leaves alone every connection but that of the job it takes.
LEMMA TakeOthers ==
    ASSUME Inv, LegInv, NEW s \in Side, NEW c \in Conns,
           \A r \in Side : Waits(r)' = IF r = s THEN Waits(r) \ {c} ELSE Waits(r),
           \A r \in Side : \A cmd : \A b \in Conns :
               b # c => (b \in Told(r, cmd)' <=> b \in Told(r, cmd)),
           \A r \in Side, b \in Conns : b # c =>
               bev'[<<r, b>>] = bev[<<r, b>>] /\ place'[<<r, b>>] = place[<<r, b>>],
           UNCHANGED <<cl, srv>>
    PROVE  \A b \in Conns : b # c => SameConn(b)
<1>1. ASSUME NEW b \in Conns, b # c, NEW r \in Side PROVE SameLeg(r, b)
  <2>1. b \in Waits(r)' <=> b \in Waits(r)
    BY <1>1
  <2> QED
    BY <1>1, <2>1 DEF SameLeg
<1> QED
  BY <1>1, LegPairs DEF SameConn

\* A worker attaches the USR leg: the trans of a leg that waits has no leg yet.
LEMMA TakeUser ==
    ASSUME Inv, LegInv, NEW c \in Conns, c \in Waits("U"), srv[c] = "listed",
           bev' = [bev EXCEPT ![<<"U", c>>] = c],
           place' = [place EXCEPT ![<<"U", c>>] = "worker"],
           \A r \in Side : Waits(r)' = IF r = "U" THEN Waits(r) \ {c} ELSE Waits(r),
           MailInv', UNCHANGED <<port, cl, srv, up, ctl, alive>>
    PROVE  LegInv'
<1>1. LegWay("U", c) /\ LegWay("D", c) /\ TransWay(c)
  BY LegFacts DEF WayOf
<1>2. place[<<"U", c>>] = "queued"
  BY <1>1 DEF LegWay
<1>3. bev[<<"U", c>>] = None /\ bev[<<"D", c>>] = None
  BY <1>1, <1>2 DEF LegWay
<1>4. ~Ready(c)
  BY <1>3, ReadyDef, NoneAssumption
<1>5. bev \in [Leg -> Conns \cup {None}] /\ place \in [Leg -> Places]
  BY DEF Inv, PortInv, TypeOK
<1>6. \A r \in Side, b \in Conns :
          /\ bev'[<<r, b>>] = IF r = "U" /\ b = c THEN c ELSE bev[<<r, b>>]
          /\ place'[<<r, b>>] = IF r = "U" /\ b = c THEN "worker" ELSE place[<<r, b>>]
  BY <1>5, LegPairs
<1>7. \A r, cmd : Told(r, cmd)' = Told(r, cmd)
  BY DEF Told
<1>8. \A b \in Conns : b # c => SameConn(b)
  BY <1>6, <1>7, TakeOthers, LegPairs
<1>9. /\ bev'[<<"U", c>>] = c /\ bev'[<<"D", c>>] = None
      /\ place'[<<"U", c>>] = "worker" /\ place'[<<"D", c>>] = place[<<"D", c>>]
      /\ c \notin Waits("U")' /\ Waits("D")' = Waits("D")
  BY <1>3, <1>6, LegPairs
<1>10. /\ ~Ready(c)'
       /\ Carried(c)' <=> Carried(c)
       /\ Underway(c)' <=> Underway(c)
  <2>1. ~Ready(c)'
    BY <1>9, ReadyDef, NoneAssumption
  <2> QED
    BY <1>2, <1>7, <1>9, <2>1 DEF Carried, Underway
<1>11. WayOf(c)'
  <2>1. LegWay("U", c)'
    BY <1>1, <1>4, <1>7, <1>9 DEF LegWay
  <2>2. LegWay("D", c)'
    BY <1>1, <1>4, <1>7, <1>9, NoneAssumption DEF LegWay
  <2>3. TransWay(c)'
    BY <1>1, <1>7, <1>9, <1>10 DEF TransWay
  <2> QED
    BY <2>1, <2>2, <2>3 DEF WayOf
<1>12. UpLegs'
  <2>1. \A l \in Leg : place[l] = "main" => place'[l] = "main"
    BY <1>2, <1>5
  <2>2. \A b \in Conns : Ready(b) => Ready(b)'
    BY <1>4, <1>8, SameWay
  <2> QED
    BY <2>1, <2>2, LegFacts, UpStays
<1>13. ~Finished(c)
  BY <1>2, LegPairs DEF Finished
<1> QED
  BY <1>8, <1>10, <1>11, <1>12, <1>13, OneConnWay

\* A worker attaches the DAEMON leg beside the USR leg and tells both clients.
LEMMA TakeDaemon ==
    ASSUME Inv, LegInv, NEW c \in Conns, c \in Waits("D"), srv[c] = "listed",
           bev[<<"U", c>>] # None,
           bev' = [bev EXCEPT ![<<"D", c>>] = c],
           place' = [place EXCEPT ![<<"D", c>>] = "worker"],
           ctl' = LET m == Msg("CONN_ACT", c) IN Post(Post(ctl, "D", m), "U", m),
           \A r \in Side : Waits(r)' = IF r = "D" THEN Waits(r) \ {c} ELSE Waits(r),
           WaitsOnce', JobsMatch', UNCHANGED <<port, cl, srv, up, alive>>
    PROVE  LegInv'
<1>1. LegWay("U", c) /\ LegWay("D", c) /\ TransWay(c)
  BY LegFacts DEF WayOf
<1>2. place[<<"D", c>>] = "queued"
  BY <1>1 DEF LegWay
<1>3. bev[<<"U", c>>] = c /\ place[<<"U", c>>] = "worker" /\ c \notin Waits("U")
  BY <1>1 DEF LegWay
<1>4. /\ cl[<<"U", c>>] = "opening" \/ ~alive["U"]
      /\ cl[<<"D", c>>] = "opening" \/ ~alive["D"]
      /\ c \notin Told("D", "CONN")
  BY <1>1, <1>2 DEF TransWay, Underway, Carried
<1>5. bev \in [Leg -> Conns \cup {None}] /\ place \in [Leg -> Places]
  BY DEF Inv, PortInv, TypeOK
<1>6. \A r \in Side, b \in Conns :
          /\ bev'[<<r, b>>] = IF r = "D" /\ b = c THEN c ELSE bev[<<r, b>>]
          /\ place'[<<r, b>>] = IF r = "D" /\ b = c THEN "worker" ELSE place[<<r, b>>]
  BY <1>5, LegPairs
<1>7. /\ ToldOnce'
      /\ \A r \in Side : \A cmd :
             Told(r, cmd)' = IF alive[r] /\ cmd = "CONN_ACT" THEN Told(r, cmd) \cup {c}
                             ELSE Told(r, cmd)
  BY <1>2, ActPosted
<1>8. \A b \in Conns : b # c => SameConn(b)
  <2>1. ASSUME NEW r \in Side, NEW cmd, NEW b \in Conns, b # c
        PROVE  b \in Told(r, cmd)' <=> b \in Told(r, cmd)
    BY <1>7, <2>1
  <2>2. \A r \in Side, b \in Conns : b # c =>
            bev'[<<r, b>>] = bev[<<r, b>>] /\ place'[<<r, b>>] = place[<<r, b>>]
    BY <1>6
  <2> QED
    BY <2>1, <2>2, TakeOthers, LegPairs
<1>9. /\ bev'[<<"U", c>>] = c /\ bev'[<<"D", c>>] = c
      /\ place'[<<"U", c>>] = "worker" /\ place'[<<"D", c>>] = "worker"
      /\ c \notin Waits("U")' /\ c \notin Waits("D")'
      /\ c \notin Told("D", "CONN")'
  <2>1. c \notin Told("D", "CONN")'
    BY <1>4, <1>7, LegPairs
  <2>2. c \notin Waits("U")' /\ c \notin Waits("D")'
    BY <1>3, LegPairs
  <2> QED
    BY <1>3, <1>6, <2>1, <2>2, LegPairs
<1>10. Ready(c)' /\ ~Carried(c)' /\ ~Underway(c)'
  <2>1. Ready(c)'
    BY <1>9, ReadyDef
  <2> QED
    BY <1>9, <2>1 DEF Carried, Underway
<1>11. WayOf(c)'
  <2>1. LegWay("U", c)'
    BY <1>4, <1>9, <1>10 DEF LegWay
  <2>2. LegWay("D", c)'
    BY <1>4, <1>9, <1>10 DEF LegWay
  <2>3. TransWay(c)'
    BY <1>9, <1>10 DEF TransWay
  <2> QED
    BY <2>1, <2>2, <2>3 DEF WayOf
<1>12. UpLegs'
  <2>1. \A l \in Leg : place[l] = "main" => place'[l] = "main"
    BY <1>2, <1>5
  <2>2. \A b \in Conns : Ready(b) => Ready(b)'
    BY <1>8, <1>10, SameWay
  <2> QED
    BY <2>1, <2>2, LegFacts, UpStays
<1>13. ~Finished(c)
  BY <1>2, LegPairs DEF Finished
<1>14. MailInv'
  BY <1>7 DEF MailInv
<1> QED
  BY <1>8, <1>10, <1>11, <1>12, <1>13, <1>14, OneConnWay

\* A worker that dies of the job it takes attaches nothing.
LEMMA TakeFault ==
    ASSUME Inv, LegInv, NEW s \in Side, NEW c \in Conns,
           \A r \in Side : Waits(r)' = IF r = s THEN Waits(r) \ {c} ELSE Waits(r),
           MailInv', UNCHANGED <<port, cl, srv, bev, place, up, ctl, alive>>
    PROVE  LegInv'
<1>1. \A r, cmd : Told(r, cmd)' = Told(r, cmd)
  BY DEF Told
<1>2. \A b \in Conns : b # c => SameConn(b)
  BY <1>1, TakeOthers
<1>3. /\ Ready(c)' <=> Ready(c)
      /\ Carried(c)' <=> Carried(c)
      /\ Underway(c)' <=> Underway(c)
      /\ Finished(c)' <=> Finished(c)
  BY <1>1, ReadyDef DEF Carried, Underway, Finished
<1>4. WayOf(c)'
  <2>1. LegWay("U", c) /\ LegWay("D", c) /\ TransWay(c)
    BY LegFacts DEF WayOf
  <2>2. /\ c \in Waits("U")' => c \in Waits("U")
        /\ c \in Waits("D")' => c \in Waits("D")
    BY LegPairs
  <2>3. LegWay("U", c)'
    BY <1>1, <1>3, <2>1, <2>2 DEF LegWay
  <2>4. LegWay("D", c)'
    BY <1>1, <1>3, <2>1, <2>2 DEF LegWay
  <2>5. TransWay(c)'
    BY <1>1, <1>3, <2>1 DEF TransWay
  <2> QED
    BY <2>3, <2>4, <2>5 DEF WayOf
<1>5. UpLegs'
  <2>1. \A b \in Conns : Ready(b) => Ready(b)'
    BY ReadyDef
  <2> QED
    BY <2>1, LegFacts, UpStays
<1> QED
  BY <1>2, <1>3, <1>4, <1>5, OneConnWay

\* thread_process.
LEMMA TakeWay ==
    ASSUME Inv, LegInv, NEW th \in Threads, WorkerTake(th), queue[th] # <<>>
    PROVE  LegInv'
<1> DEFINE j == Head(queue[th])
<1>1. /\ j \in Jobs /\ j.trans = j.conn /\ j.conn \in Waits(j.kind)
      /\ \A r \in Side : Waits(r)' = IF r = j.kind THEN Waits(r) \ {j.conn} ELSE Waits(r)
      /\ WaitsOnce' /\ JobsMatch'
  BY JobTaken, LegFacts DEF Inv
<1>2. /\ UNCHANGED <<port, cl, srv, up, alive>>
      /\ \/ j.kind = "U" /\ srv[j.trans] = "listed" /\ Attach(j) /\ UNCHANGED <<ctl, fault>>
         \/ /\ j.kind = "D" /\ srv[j.trans] = "listed" /\ bev[<<"U", j.trans>>] # None
            /\ Attach(j)
            /\ ctl' = LET m == Msg("CONN_ACT", j.trans) IN Post(Post(ctl, "D", m), "U", m)
         \/ UNCHANGED <<bev, place, ctl>>
  BY DEF WorkerTake, Serve
<1> HIDE DEF j
<1>3. j.kind \in Side /\ j.conn \in Conns
  BY <1>1 DEF Jobs
<1>4. ctl' = ctl => MailInv'
  BY <1>1, LegFacts DEF MailInv, ToldOnce
<1>5. CASE j.kind = "U" /\ srv[j.trans] = "listed" /\ Attach(j) /\ UNCHANGED <<ctl, fault>>
  <2> DEFINE c == j.conn
  <2>1. /\ c \in Conns /\ c \in Waits("U") /\ srv[c] = "listed"
        /\ bev' = [bev EXCEPT ![<<"U", c>>] = c]
        /\ place' = [place EXCEPT ![<<"U", c>>] = "worker"]
        /\ \A r \in Side : Waits(r)' = IF r = "U" THEN Waits(r) \ {c} ELSE Waits(r)
        /\ MailInv' /\ UNCHANGED <<port, cl, srv, up, ctl, alive>>
    BY <1>1, <1>2, <1>3, <1>4, <1>5 DEF Attach
  <2> HIDE DEF c
  <2> QED
    BY <2>1, TakeUser
<1>6. CASE /\ j.kind = "D" /\ srv[j.trans] = "listed" /\ bev[<<"U", j.trans>>] # None
           /\ Attach(j)
           /\ ctl' = LET m == Msg("CONN_ACT", j.trans) IN Post(Post(ctl, "D", m), "U", m)
  <2> DEFINE c == j.conn
  <2>1. /\ c \in Conns /\ c \in Waits("D") /\ srv[c] = "listed" /\ bev[<<"U", c>>] # None
        /\ bev' = [bev EXCEPT ![<<"D", c>>] = c]
        /\ place' = [place EXCEPT ![<<"D", c>>] = "worker"]
        /\ ctl' = LET m == Msg("CONN_ACT", c) IN Post(Post(ctl, "D", m), "U", m)
        /\ \A r \in Side : Waits(r)' = IF r = "D" THEN Waits(r) \ {c} ELSE Waits(r)
        /\ WaitsOnce' /\ JobsMatch' /\ UNCHANGED <<port, cl, srv, up, alive>>
    BY <1>1, <1>2, <1>3, <1>6 DEF Attach
  <2> HIDE DEF c
  <2> QED
    BY <2>1, TakeDaemon
<1>7. CASE UNCHANGED <<bev, place, ctl>>
  BY <1>1, <1>2, <1>3, <1>4, <1>7, TakeFault
<1> QED
  BY <1>2, <1>5, <1>6, <1>7

-----------------------------------------------------------------------------
(* The steps of the clients.                                               *)

\* The header that a client takes: what it speaks of, and what is left.
LEMMA Handled ==
    ASSUME Inv, LegInv, NEW s \in Side, NEW n \in 1..MaxBatch,
           n <= Len(ctl[s].net), ReadHead(s, n), UNCHANGED <<port, srv, bev, queue, alive>>
    PROVE  LET m == HeadOf(s, n) IN
           /\ m.of \in Conns /\ m.port = port[m.of] /\ m.of \in Told(s, m.cmd)
           /\ m.cmd = "CONN" => s = "D"
           /\ \A r \in Side : \A cmd :
                  Told(r, cmd)' = IF r = s /\ cmd = m.cmd THEN Told(r, cmd) \ {m.of}
                                  ELSE Told(r, cmd)
           /\ MailInv'
           /\ \A r : Waits(r)' = Waits(r)
<1> DEFINE m == HeadOf(s, n)
<1>1. /\ m \in KnownMsgs /\ m.of \in Told(s, m.cmd)
      /\ \A r \in Side : \A cmd :
             Told(r, cmd)' = IF r = s /\ cmd = m.cmd THEN Told(r, cmd) \ {m.of}
                             ELSE Told(r, cmd)
      /\ ToldOnce'
  BY HeaderRead, LegFacts DEF Inv
<1>2. m.of \in Conns /\ m.port = port[m.of]
  BY <1>1 DEF KnownMsgs, Msgs
<1>3. s = "U" => m.cmd = "CONN_ACT"
  <2>1. ASSUME s = "U" PROVE m \in Acts
    <3>1. ctl[s].net \in Seq(Acts) /\ ctl[s].buf \in Seq(Acts)
      BY <2>1 DEF Inv, UserCtl
    <3> QED
      BY <3>1, ReadHeadOf
  <2> QED
    BY <2>1 DEF Acts
<1>4. MailInv' /\ \A r : Waits(r)' = Waits(r)
  BY <1>1, LegFacts DEF MailInv, WaitsOnce, JobsMatch, Waits
<1> QED
  BY <1>1, <1>2, <1>3, <1>4, LegPairs

\* The client that is told to start a tunnel has it on its list, still waiting,
\* and no other tunnel of that port.
LEMMA ActFinds ==
    ASSUME Inv, LegInv, NEW s \in Side, alive[s], NEW c \in Told(s, "CONN_ACT")
    PROVE  cl[<<s, c>>] = "opening" /\ ScFind(s, port[c]) = {c}
<1>1. c \in Conns /\ LegWay(s, c)
  BY LegFacts, LegPairs DEF Told, About, WayOf
<1>2. cl[<<s, c>>] = "opening"
  BY <1>1 DEF LegWay
<1>3. c \in ScFind(s, port[c])
  BY <1>1, <1>2 DEF ScFind, ScListed
<1>4. ASSUME NEW b \in ScFind(s, port[c]) PROVE b = c
  <2>1. /\ b \in Conns /\ port[b] = port[c]
        /\ b \in ScListed(s) /\ c \in ScListed(s)
    BY <1>3 DEF ScFind, ScListed
  <2> QED
    BY <1>1, <2>1 DEF Inv, PortInv, UniquePorts
<1> QED
  BY <1>2, <1>3, <1>4

\* A client that handles a header leaves every other connection alone.
LEMMA HandleOthers ==
    ASSUME NEW c \in Conns,
           \A r \in Side : \A cmd : \A b \in Conns :
               b # c => (b \in Told(r, cmd)' <=> b \in Told(r, cmd)),
           \A r : Waits(r)' = Waits(r),
           \A r \in Side, b \in Conns : b # c =>
               cl'[<<r, b>>] = cl[<<r, b>>] /\ place'[<<r, b>>] = place[<<r, b>>],
           UNCHANGED <<srv, bev>>
    PROVE  \A b \in Conns : b # c => SameConn(b)
<1>1. ASSUME NEW b \in Conns, b # c, NEW r \in Side PROVE SameLeg(r, b)
  <2>1. \A cmd : b \in Told(r, cmd)' <=> b \in Told(r, cmd)
    BY <1>1
  <2> QED
    BY <1>1, <2>1 DEF SameLeg
<1> QED
  BY <1>1, LegPairs DEF SameConn

\* HD_CMD_CONN_ACT: the client starts the tunnel.
LEMMA ActWay ==
    ASSUME Inv, LegInv, NEW s \in Side, NEW n \in 1..MaxBatch, alive[s],
           n <= Len(ctl[s].net), ReadHead(s, n), OnConnAct(s, HeadOf(s, n)),
           UNCHANGED <<port, srv, bev, queue, alive>>
    PROVE  LegInv' /\ fault' = fault
<1>0. PICK m : m = HeadOf(s, n)
  OBVIOUS
<1> DEFINE c == m.of
           found  == {<<s, b>> : b \in ScFind(s, m.port)}
           usable == {l \in found : cl[l] # "stuck"}
<1>1. /\ c \in Conns /\ m.port = port[c] /\ c \in Told(s, m.cmd) /\ m.cmd = "CONN_ACT"
      /\ \A r \in Side : \A cmd :
             Told(r, cmd)' = IF r = s /\ cmd = m.cmd THEN Told(r, cmd) \ {c} ELSE Told(r, cmd)
      /\ MailInv'
      /\ \A r : Waits(r)' = Waits(r)
  BY <1>0, Handled DEF OnConnAct
<1>2. cl[<<s, c>>] = "opening" /\ ScFind(s, port[c]) = {c}
  BY <1>1, ActFinds
<1>3. usable = {<<s, c>>}
  BY <1>1, <1>2
<1>4. /\ cl' = [l \in Leg |-> IF l \in usable THEN "active" ELSE cl[l]]
      /\ fault' = IF usable = {} THEN "act_unknown" ELSE fault
      /\ UNCHANGED <<place, up>>
  BY <1>0 DEF OnConnAct
<1> HIDE DEF usable, found
<1>5. \A r \in Side, b \in Conns :
          cl'[<<r, b>>] = IF r = s /\ b = c THEN "active" ELSE cl[<<r, b>>]
  BY <1>3, <1>4, LegPairs
<1>6. \A b \in Conns : b # c => SameConn(b)
  <2>1. \A r \in Side, b \in Conns : b # c =>
            cl'[<<r, b>>] = cl[<<r, b>>] /\ place'[<<r, b>>] = place[<<r, b>>]
    BY <1>4, <1>5
  <2>2. \A r \in Side : \A cmd : \A b \in Conns :
            b # c => (b \in Told(r, cmd)' <=> b \in Told(r, cmd))
    BY <1>1
  <2> HIDE DEF c
  <2> QED
    BY <1>1, <2>1, <2>2, HandleOthers
<1>7. LegWay("U", c) /\ LegWay("D", c) /\ TransWay(c)
  BY <1>1, LegFacts DEF WayOf
<1>8. place[<<"D", c>>] \in {"worker", "closed"} /\ Ready(c)
  <2>1. c \in Told("U", "CONN_ACT") \/ c \in Told("D", "CONN_ACT")
    BY <1>1, LegPairs
  <2> QED
    BY <1>7, <2>1 DEF LegWay
<1>9. place[<<"U", c>>] # "main"
  BY <1>1, <1>8, UserArrives
<1>10. Ready(c)' /\ ~Underway(c) /\ ~Carried(c) /\ ~Underway(c)' /\ ~Carried(c)'
  <2>1. Ready(c)'
    BY <1>1, <1>8, ReadyDef
  <2>2. c \notin Told("D", "CONN")
    BY <1>7, <1>8 DEF TransWay
  <2>3. c \notin Told("D", "CONN")'
    BY <1>1, <2>2, LegPairs
  <2> QED
    BY <1>4, <1>8, <1>9, <2>1, <2>2, <2>3 DEF Underway, Carried
<1>11. /\ \/ s = "U" /\ cl'[<<"U", c>>] = "active" /\ cl'[<<"D", c>>] = cl[<<"D", c>>]
          \/ s = "D" /\ cl'[<<"D", c>>] = "active" /\ cl'[<<"U", c>>] = cl[<<"U", c>>]
       /\ s = "U" => c \notin Told("U", "CONN_ACT")' /\ Told("D", "CONN_ACT")' = Told("D", "CONN_ACT")
       /\ s = "D" => c \notin Told("D", "CONN_ACT")' /\ Told("U", "CONN_ACT")' = Told("U", "CONN_ACT")
       /\ c \notin Told("D", "CONN")'
       /\ srv[c] # "none"
  <2>1. srv[c] # "none"
    BY <1>7, <1>8 DEF TransWay
  <2>2. c \notin Told("D", "CONN")'
    BY <1>10 DEF Carried
  <2> QED
    BY <1>1, <1>5, <2>1, <2>2, LegPairs
<1>12. WayOf(c)'
  <2>1. LegWay("U", c)'
    BY <1>1, <1>4, <1>7, <1>10, <1>11 DEF LegWay
  <2>2. LegWay("D", c)'
    BY <1>1, <1>4, <1>7, <1>10, <1>11 DEF LegWay
  <2>3. TransWay(c)'
    BY <1>2, <1>4, <1>7, <1>8, <1>10, <1>11 DEF TransWay
  <2> QED
    BY <2>1, <2>2, <2>3 DEF WayOf
<1>13. UpLegs'
  <2>1. \A l \in Leg : cl[l] = "closed" => cl'[l] = "closed"
    BY <1>2, <1>3, <1>4
  <2>2. \A b \in Conns : Ready(b) => Ready(b)'
    BY ReadyDef
  <2> QED
    BY <1>4, <2>1, <2>2, LegFacts, UpStays
<1>14. ~Finished(c)
  BY <1>2 DEF Finished
<1>15. LegInv'
  <2>1. \A r \in Side : alive'[r] => alive[r]
    OBVIOUS
  <2> HIDE DEF c
  <2> QED
    BY <1>1, <1>6, <1>10, <1>12, <1>13, <1>14, <2>1, OneConnWay
<1> QED
  BY <1>3, <1>4, <1>15

\* HD_CMD_CONN: the DAEMON connects, cannot connect, or dies of a stale trans.
LEMMA ConnWay ==
    ASSUME Inv, LegInv, NEW s \in Side, NEW n \in 1..MaxBatch, alive[s],
           n <= Len(ctl[s].net), ReadHead(s, n), OnConn(s, HeadOf(s, n)),
           UNCHANGED <<port, srv, bev, queue, alive>>
    PROVE  LegInv'
<1>0. PICK m : m = HeadOf(s, n)
  OBVIOUS
<1> DEFINE c == m.of
<1>1. /\ c \in Conns /\ s = "D" /\ c \in Told("D", "CONN") /\ m.cmd = "CONN"
      /\ \A r \in Side : \A cmd :
             Told(r, cmd)' = IF r = s /\ cmd = m.cmd THEN Told(r, cmd) \ {c} ELSE Told(r, cmd)
      /\ MailInv'
      /\ \A r : Waits(r)' = Waits(r)
  BY <1>0, Handled DEF OnConn
<1>2. \/ UNCHANGED <<cl, place, up>>
      \/ cl' = [cl EXCEPT ![<<"D", c>>] = "stuck"] /\ UNCHANGED <<place, up>>
      \/ /\ cl' = [cl EXCEPT ![<<"D", c>>] = "opening"]
         /\ place' = [place EXCEPT ![<<"D", c>>] = "main"]
         /\ up' = [up EXCEPT ![<<"D", c>>] = <<ConnHead>>]
  BY <1>0, <1>1 DEF OnConn
<1>3. LegWay("U", c) /\ LegWay("D", c) /\ TransWay(c)
  BY <1>1, LegFacts DEF WayOf
<1>4. /\ srv[c] # "none" /\ cl[<<"D", c>>] = "idle" /\ place[<<"D", c>>] = "none"
      /\ Carried(c) /\ Underway(c)
  BY <1>1, <1>3 DEF TransWay, Carried, Underway
<1>5. /\ c \notin Waits("D") /\ bev[<<"D", c>>] = None
      /\ c \notin Told("D", "CONN_ACT") /\ c \notin Told("U", "CONN_ACT")
  BY <1>3, <1>4 DEF LegWay
<1>6. cl \in [Leg -> ClStatus] /\ place \in [Leg -> Places] /\ up \in [Leg -> Seq(Items)]
  BY DEF Inv, PortInv, TypeOK
<1>7. /\ \A r \in Side, b \in Conns : ~(r = "D" /\ b = c) =>
             cl'[<<r, b>>] = cl[<<r, b>>] /\ place'[<<r, b>>] = place[<<r, b>>]
      /\ \/ cl'[<<"D", c>>] = "idle" /\ place'[<<"D", c>>] = "none"
         \/ cl'[<<"D", c>>] = "stuck" /\ place'[<<"D", c>>] = "none"
         \/ cl'[<<"D", c>>] = "opening" /\ place'[<<"D", c>>] = "main"
  <2> HIDE DEF c
  <2> QED
    BY <1>1, <1>2, <1>4, <1>6, LegPairs
<1>8. \A b \in Conns : b # c => SameConn(b)
  <2>1. \A r \in Side : \A cmd : \A b \in Conns :
            b # c => (b \in Told(r, cmd)' <=> b \in Told(r, cmd))
    BY <1>1
  <2> HIDE DEF c
  <2> QED
    BY <1>1, <1>7, <2>1, HandleOthers
<1>9. /\ c \notin Told("D", "CONN")'
      /\ c \notin Told("D", "CONN_ACT")' /\ c \notin Told("U", "CONN_ACT")'
  BY <1>1, <1>5, LegPairs
<1>10. Ready(c)' <=> Ready(c)
  BY <1>1, ReadyDef
<1>11. cl'[<<"U", c>>] = cl[<<"U", c>>] /\ place'[<<"U", c>>] = place[<<"U", c>>]
  BY <1>1, <1>7, LegPairs
<1>12. WayOf(c)'
  <2>1. cl[<<"U", c>>] = "opening" \/ ~alive["U"]
    BY <1>3, <1>4 DEF TransWay
  <2>2. LegWay("U", c)'
    BY <1>1, <1>3, <1>9, <1>10, <1>11 DEF LegWay
  <2>3. LegWay("D", c)'
    BY <1>1, <1>5, <1>7, <1>9, NoneAssumption DEF LegWay
  <2>4. TransWay(c)'
    BY <1>3, <1>4, <1>7, <1>9, <1>11, <2>1 DEF TransWay
  <2> QED
    BY <2>2, <2>3, <2>4 DEF WayOf
<1>13. UpLegs'
  <2>1. ASSUME NEW l \in Leg, NEW i \in 1..Len(up'[l])
        PROVE  \/ \E j \in 1..Len(up[l]) :
                      /\ up'[l][i] = up[l][j]
                      /\ up[l][j] = ConnHead => i = j /\ place'[l] = place[l]
               \/ up'[l][i] = ConnHead /\ i = 1 /\ place'[l] = "main"
    <3>1. CASE l # <<"D", c>>
      <4>1. up'[l] = up[l] /\ place'[l] = place[l]
        BY <1>2, <1>6, <3>1
      <4> QED
        BY <4>1
    <3>2. CASE l = <<"D", c>> /\ up' = up /\ place' = place
      BY <3>2
    <3>3. CASE l = <<"D", c>> /\ up' = [up EXCEPT ![<<"D", c>>] = <<ConnHead>>]
               /\ place' = [place EXCEPT ![<<"D", c>>] = "main"]
      <4>1. up'[l] = <<ConnHead>> /\ place'[l] = "main"
        BY <1>6, <3>3
      <4> QED
        BY <2>1, <4>1
    <3> QED
      BY <1>2, <3>1, <3>2, <3>3
  <2>2. \A l \in Leg : cl[l] = "closed" => cl'[l] = "closed"
    BY <1>2, <1>4, <1>6
  <2>3. \A b \in Conns : Ready(b) => Ready(b)'
    BY ReadyDef
  <2> QED
    BY <2>1, <2>2, <2>3, LegFacts, UpLegsKept
<1>14. ~Finished(c)
  BY <1>1 DEF Finished
<1>15. \A r \in Side : alive'[r] => alive[r]
  OBVIOUS
<1> HIDE DEF c
<1> QED
  BY <1>1, <1>4, <1>8, <1>12, <1>13, <1>14, <1>15, OneConnWay

\* srv_bufferread_cb.
LEMMA CtlWay ==
    ASSUME Inv, LegInv, NEW s \in Side, ClientCtl(s)
    PROVE  LegInv'
<1>1. PICK n \in 1..MaxBatch :
          /\ n <= Len(ctl[s].net) /\ ReadHead(s, n)
          /\ OnConnAct(s, HeadOf(s, n)) \/ OnConn(s, HeadOf(s, n))
  BY DEF ClientCtl
<1>2. alive[s] /\ UNCHANGED <<port, srv, bev, queue, alive>>
  BY DEF ClientCtl
<1>3. CASE OnConnAct(s, HeadOf(s, n))
  BY <1>1, <1>2, <1>3, ActWay
<1>4. CASE OnConn(s, HeadOf(s, n))
  BY <1>1, <1>2, <1>4, ConnWay
<1> QED
  BY <1>1, <1>3, <1>4

\* A connection that does not exist yet has left no trace.
LEMMA NotYetThere ==
    ASSUME Inv, LegInv, NEW c \in Conns, port[c] = 0
    PROVE  /\ srv[c] = "none"
           /\ cl[<<"U", c>>] = "idle" /\ cl[<<"D", c>>] = "idle"
           /\ bev[<<"U", c>>] = None /\ bev[<<"D", c>>] = None
           /\ place[<<"U", c>>] \notin {"main", "queued", "lost"} /\ place[<<"D", c>>] = "none"
           /\ c \notin Told("D", "CONN")
           /\ c \notin Told("U", "CONN_ACT") /\ c \notin Told("D", "CONN_ACT")
           /\ c \notin Waits("U") /\ c \notin Waits("D")
<1>1. LegWay("U", c) /\ LegWay("D", c) /\ TransWay(c)
  BY LegFacts DEF WayOf
<1>2. srv[c] = "none"
  BY LegPairs DEF Inv, OrderInv, UserFresh
<1>3. /\ cl[<<"U", c>>] = "idle" /\ cl[<<"D", c>>] = "idle"
      /\ place[<<"U", c>>] # "main"
  BY LegPairs DEF Inv, PortInv, PortKnown
<1>4. /\ place[<<"U", c>>] \notin {"queued", "lost"} /\ place[<<"D", c>>] = "none"
      /\ c \notin Told("D", "CONN")
  BY <1>1, <1>2 DEF TransWay
<1>5. bev[<<"U", c>>] = None /\ bev[<<"D", c>>] = None
  BY <1>1, <1>2 DEF LegWay
<1>6. ~Ready(c)
  BY <1>2, <1>5, ReadyDef, NoneAssumption
<1> QED
  BY <1>1, <1>2, <1>3, <1>4, <1>5, <1>6 DEF LegWay

\* accept_conn_cb: no other connection of that port is underway, as the USR
\* client would still list it.
LEMMA AcceptWay ==
    ASSUME Inv, LegInv, NEW c \in Conns, NEW p \in Ports, UsrAccept(c, p)
    PROVE  LegInv'
<1>1. /\ alive["U"] /\ port[c] = 0 /\ (EarlyReuse \/ Drained(p))
      /\ port' = [port EXCEPT ![c] = p]
      /\ \/ /\ ScMayCreate("U", p)
            /\ cl' = [cl EXCEPT ![<<"U", c>>] = "opening"]
            /\ place' = [place EXCEPT ![<<"U", c>>] = "main"]
            /\ up' = [up EXCEPT ![<<"U", c>>] = <<ConnHead>>]
         \/ /\ cl' = [cl EXCEPT ![<<"U", c>>] = "refused"]
            /\ UNCHANGED <<place, up>>
      /\ UNCHANGED <<srv, bev, ctl, queue, alive>>
  BY DEF UsrAccept
<1>2. /\ cl \in [Leg -> ClStatus] /\ place \in [Leg -> Places] /\ up \in [Leg -> Seq(Items)]
      /\ port \in [Conns -> Ports \cup {0}]
  BY DEF Inv, PortInv, TypeOK
<1>3. /\ srv[c] = "none"
      /\ cl[<<"U", c>>] = "idle" /\ cl[<<"D", c>>] = "idle"
      /\ bev[<<"U", c>>] = None /\ bev[<<"D", c>>] = None
      /\ place[<<"U", c>>] \notin {"main", "queued", "lost"} /\ place[<<"D", c>>] = "none"
      /\ c \notin Told("D", "CONN")
      /\ c \notin Told("U", "CONN_ACT") /\ c \notin Told("D", "CONN_ACT")
      /\ c \notin Waits("U") /\ c \notin Waits("D")
  BY <1>1, NotYetThere
<1>4. /\ \A r, cmd : Told(r, cmd)' = Told(r, cmd)
      /\ \A r : Waits(r)' = Waits(r)
      /\ MailInv'
  BY <1>1, LegFacts, MailQuiet
<1>5. /\ \A r \in Side, b \in Conns : ~(r = "U" /\ b = c) =>
             cl'[<<r, b>>] = cl[<<r, b>>] /\ place'[<<r, b>>] = place[<<r, b>>]
      /\ \/ cl'[<<"U", c>>] = "opening" /\ place'[<<"U", c>>] = "main" /\ ScMayCreate("U", p)
         \/ cl'[<<"U", c>>] = "refused" /\ place'[<<"U", c>>] = place[<<"U", c>>]
      /\ \A b \in Conns : port'[b] = IF b = c THEN p ELSE port[b]
  BY <1>1, <1>2, LegPairs
<1>6. \A b \in Conns : b # c => SameConn(b)
  <2>1. ASSUME NEW b \in Conns, b # c PROVE SameConn(b)
    <3>1. \A r \in Side : /\ cl'[<<r, b>>] = cl[<<r, b>>] /\ bev'[<<r, b>>] = bev[<<r, b>>]
                          /\ place'[<<r, b>>] = place[<<r, b>>]
      BY <1>1, <1>5, <2>1
    <3> QED
      BY <1>1, <3>1, QuietConn
  <2> QED
    BY <2>1
<1>7. \A b \in Conns : b # c => /\ WayOf(b)'
                                /\ Underway(b)' <=> Underway(b)
                                /\ Carried(b)' <=> Carried(b)
                                /\ Finished(b)' <=> Finished(b)
                                /\ Ready(b)' <=> Ready(b)
  BY <1>1, <1>6, SameWay, LegFacts
<1>8. cl'[<<"D", c>>] = "idle" /\ place'[<<"D", c>>] = "none"
  BY <1>3, <1>5, LegPairs
<1>9. /\ ~Carried(c)' /\ ~Ready(c) /\ ~Ready(c)'
      /\ Underway(c)' => cl'[<<"U", c>>] = "opening" /\ ScMayCreate("U", p)
  <2>1. ~Carried(c)'
    BY <1>3, <1>4, <1>8 DEF Carried
  <2>2. ~Ready(c) /\ ~Ready(c)'
    BY <1>1, <1>3, ReadyDef, NoneAssumption
  <2>3. Underway(c)' => place'[<<"U", c>>] = "main"
    BY <2>1 DEF Underway
  <2> QED
    BY <1>3, <1>5, <2>1, <2>2, <2>3
<1>10. WayOf(c)'
  <2>1. LegWay("U", c)'
    BY <1>1, <1>3, <1>4, <1>5, NoneAssumption DEF LegWay
  <2>2. LegWay("D", c)'
    BY <1>1, <1>3, <1>4, <1>8, NoneAssumption DEF LegWay
  <2>3. TransWay(c)'
    BY <1>1, <1>3, <1>4, <1>5, <1>8, <1>9 DEF TransWay
  <2> QED
    BY <2>1, <2>2, <2>3 DEF WayOf
<1>11. ASSUME NEW b \in Conns, b # c, Underway(b)
       PROVE  cl[<<"U", b>>] = "opening" /\ b \in ScFind("U", port[b])
  <2>1. TransWay(b)
    BY LegFacts DEF WayOf
  <2>2. cl[<<"U", b>>] = "opening"
    BY <1>1, <1>11, <2>1 DEF TransWay
  <2> QED
    BY <2>2 DEF ScFind, ScListed
<1>12. OneUnderway'
  <2>1. ASSUME NEW a \in Conns, NEW b \in Conns, a # b, port'[a] = port'[b]
        PROVE  ~(Underway(a)' /\ Underway(b)') /\ ~(Carried(a)' /\ srv'[b] = "listed")
    <3>1. CASE a # c /\ b # c
      BY <1>1, <1>5, <1>7, <2>1, <3>1, LegFacts DEF OneUnderway
    <3>2. CASE a = c
      <4>1. b # c /\ port[b] = p
        BY <1>5, <2>1, <3>2
      <4>2. ~(Underway(c)' /\ Underway(b)')
        BY <1>7, <1>9, <1>11, <4>1 DEF ScMayCreate
      <4> QED
        BY <1>9, <3>2, <4>2
    <3>3. CASE b = c
      <4>1. a # c /\ port[a] = p
        BY <1>5, <2>1, <3>3
      <4>2. ~(Underway(c)' /\ Underway(a)')
        BY <1>7, <1>9, <1>11, <4>1 DEF ScMayCreate
      <4> QED
        BY <1>1, <1>3, <3>3, <4>2
    <3> QED
      BY <3>1, <3>2, <3>3
  <2> QED
    BY <2>1 DEF OneUnderway
<1>13. OldIsFinished'
  <2>1. ASSUME ~EarlyReuse, NEW b \in Conns, b # c, port[b] = p PROVE Finished(b)'
    <3>1. /\ srv[b] # "listed"
          /\ \A r \in Side : /\ cl[<<r, b>>] \in {"idle", "refused", "closed"}
                             /\ place[<<r, b>>] \in {"none", "closed"}
      BY <1>1, <2>1 DEF Drained
    <3>2. ~Underway(b)
      BY <1>11, <2>1, <3>1, LegPairs
    <3>3. b \notin Told("D", "CONN")
      BY <3>2 DEF Underway, Carried
    <3> QED
      BY <1>7, <2>1, <3>1, <3>3 DEF Finished
  <2>2. ASSUME ~EarlyReuse, NEW a \in Conns, NEW b \in Conns, a # b,
               port'[a] = port'[b], port'[a] # 0
        PROVE  Finished(a)' \/ Finished(b)'
    <3>1. CASE a # c /\ b # c
      BY <1>5, <1>7, <2>2, <3>1, LegFacts DEF OldIsFinished
    <3>2. CASE a = c
      BY <1>5, <2>1, <2>2, <3>2
    <3>3. CASE b = c
      BY <1>5, <2>1, <2>2, <3>3
    <3> QED
      BY <3>1, <3>2, <3>3
  <2> QED
    BY <2>2 DEF OldIsFinished
<1>14. UpLegs'
  <2>1. ASSUME NEW l \in Leg, NEW i \in 1..Len(up'[l])
        PROVE  \/ \E j \in 1..Len(up[l]) :
                      /\ up'[l][i] = up[l][j]
                      /\ up[l][j] = ConnHead => i = j /\ place'[l] = place[l]
               \/ up'[l][i] = ConnHead /\ i = 1 /\ place'[l] = "main"
    <3>1. CASE l # <<"U", c>>
      <4>1. up'[l] = up[l] /\ place'[l] = place[l]
        BY <1>1, <1>2, <3>1
      <4> QED
        BY <4>1
    <3>2. CASE up' = up /\ place' = place
      BY <3>2
    <3>3. CASE l = <<"U", c>> /\ up' = [up EXCEPT ![<<"U", c>>] = <<ConnHead>>]
               /\ place' = [place EXCEPT ![<<"U", c>>] = "main"]
      <4>1. up'[l] = <<ConnHead>> /\ place'[l] = "main"
        BY <1>2, <3>3
      <4> QED
        BY <2>1, <4>1
    <3> QED
      BY <1>1, <3>1, <3>2, <3>3
  <2>2. \A l \in Leg : cl[l] = "closed" => cl'[l] = "closed"
    BY <1>1, <1>2, <1>3
  <2>3. \A b \in Conns : Ready(b) => Ready(b)'
    BY <1>7, <1>9
  <2> QED
    BY <2>1, <2>2, <2>3, LegFacts, UpLegsKept
<1> QED
  BY <1>4, <1>7, <1>10, <1>12, <1>13, <1>14 DEF LegInv, PairsInv

\* bufferread_cb on local_bev: a client that sends has been told to start.
LEMMA SendWay ==
    ASSUME Inv, LegInv, NEW k \in Leg, ClientSend(k)
    PROVE  LegInv'
<1>1. /\ cl[k] = "active"
      /\ up' = up \/ up' = [up EXCEPT ![k] = Append(@, Chunk(k, sent[k] + 1))]
      /\ UNCHANGED <<port, cl, srv, bev, place, ctl, queue, alive>>
  BY DEF ClientSend
<1>2. Ready(k[2]) /\ k[2] \in Conns
  <2>1. PICK s \in Side, c \in Conns : k = <<s, c>>
    BY LegPairs
  <2>2. LegWay("U", c) /\ LegWay("D", c)
    BY LegFacts DEF WayOf
  <2>3. CASE s = "U"
    BY <1>1, <2>1, <2>2, <2>3 DEF LegWay
  <2>4. CASE s = "D"
    BY <1>1, <2>1, <2>2, <2>4 DEF LegWay
  <2> QED
    BY <2>1, <2>3, <2>4, LegPairs
<1>3. \A b \in Conns : Ready(b)' <=> Ready(b)
  BY <1>1, ReadyDef
<1>4. UpLegs'
  <2> DEFINE x == Chunk(k, sent[k] + 1)
  <2>1. up \in [Leg -> Seq(Items)] /\ x \in Items /\ x.tag = "data"
    <3>1. up \in [Leg -> Seq(Items)] /\ sent[k] \in 0..MaxData
      BY DEF Inv, PortInv, TypeOK
    <3>2. sent[k] + 1 \in 1..MaxData
      BY <3>1, BoundsAssumption DEF ClientSend
    <3> QED
      BY <3>1, <3>2, ItemTypes DEF Chunk
  <2> HIDE DEF x
  <2>2. ASSUME NEW l \in Leg, NEW i \in 1..Len(up'[l])
        PROVE  \/ \E j \in 1..Len(up[l]) :
                      /\ up'[l][i] = up[l][j]
                      /\ up[l][j] = ConnHead => i = j /\ place'[l] = place[l]
               \/ up'[l][i].tag = "data" /\ Ready(l[2])'
    <3>1. CASE up'[l] = up[l]
      BY <1>1, <3>1
    <3>2. CASE l = k /\ up'[l] = Append(up[l], x)
      <4>1. /\ Len(up[l]) \in Nat /\ Len(up'[l]) = Len(up[l]) + 1
            /\ \A j \in 1..Len(up[l]) : up'[l][j] = up[l][j]
            /\ up'[l][Len(up[l]) + 1] = x
        BY <2>1, <3>2, AppendProperties, LenProperties
      <4>2. i \in 1..Len(up[l]) \/ i = Len(up[l]) + 1
        BY <2>2, <4>1, LastPlace
      <4>3. CASE i \in 1..Len(up[l])
        BY <1>1, <4>1, <4>3
      <4>4. CASE i = Len(up[l]) + 1
        BY <1>2, <1>3, <2>1, <3>2, <4>1, <4>4
      <4> QED
        BY <4>2, <4>3, <4>4
    <3>3. up'[l] = up[l] \/ (l = k /\ up'[l] = Append(up[l], x))
      BY <1>1, <2>1 DEF x
    <3> QED
      BY <3>1, <3>2, <3>3
  <2>3. \A l \in Leg : cl[l] = "closed" => cl'[l] = "closed"
    BY <1>1
  <2> QED
    BY <1>3, <2>2, <2>3, LegFacts, UpLegsKept
<1> QED
  BY <1>1, <1>4, QuietWay

\* thread_bufferread_cb.
LEMMA ReadWay ==
    ASSUME Inv, LegInv, NEW s \in Side, NEW t \in Conns, WorkerRead(s, t)
    PROVE  LegInv'
<1> DEFINE l == <<s, bev[<<s, t>>]>>
<1>1. /\ up[l] # <<>> /\ bev[<<s, t>>] # None
      /\ up' = up \/ up' = [up EXCEPT ![l] = Tail(@)]
      /\ UNCHANGED <<port, cl, srv, bev, place, ctl, queue, alive>>
  BY DEF WorkerRead
<1>2. l \in Leg
  <2>1. bev \in [Leg -> Conns \cup {None}]
    BY DEF Inv, PortInv, TypeOK
  <2>2. bev[<<s, t>>] \in Conns
    BY <1>1, <2>1, LegPairs
  <2> QED
    BY <2>2, LegPairs
<1>3. \A b \in Conns : Ready(b) => Ready(b)'
  BY <1>1, ReadyDef
<1>4. UpLegs'
  <2>1. CASE up' = up
    BY <1>1, <1>3, <2>1, LegFacts, UpStays
  <2>2. CASE up' = [up EXCEPT ![l] = Tail(@)]
    <3> HIDE DEF l
    <3> QED
      BY <1>1, <1>2, <1>3, <2>2, LegFacts, UpTail DEF Inv
  <2> QED
    BY <1>1, <2>1, <2>2
<1> QED
  BY <1>1, <1>4, QuietWay

\* thread_bufferevent_cb: the server frees a trans when a client has closed.
LEMMA EofWay ==
    ASSUME Inv, LegInv, NEW s \in Side, NEW t \in Conns, WorkerEof(s, t)
    PROVE  LegInv'
<1>1. /\ bev[<<s, t>>] # None /\ Ended(up[<<s, bev[<<s, t>>]>>]) /\ SsFree({t})
      /\ UNCHANGED <<port, cl, ctl, queue, alive>>
  BY DEF WorkerEof
<1>2. LegWay("U", t) /\ LegWay("D", t)
  BY LegFacts DEF WayOf
<1>3. bev[<<s, t>>] = t /\ place[<<"U", t>>] = "worker"
  <2>1. CASE s = "U"
    BY <1>1, <1>2, <2>1 DEF LegWay
  <2>2. CASE s = "D"
    BY <1>1, <1>2, <2>2 DEF LegWay
  <2> QED
    BY <2>1, <2>2, LegPairs
<1>4. cl[<<s, t>>] = "closed"
  <2> DEFINE q == up[<<s, t>>]
  <2>1. q # <<>> /\ q[Len(q)] = Fin /\ q \in Seq(Items)
    BY <1>1, <1>3, LegPairs DEF Ended, Inv, PortInv, TypeOK
  <2>2. Len(q) \in 1..Len(q)
    <3> HIDE DEF q
    <3>1. Len(q) \in Nat /\ Len(q) # 0
      BY <2>1, EmptySeq, LenProperties
    <3> QED
      BY <3>1
  <2> QED
    BY <2>1, <2>2, LegPairs, LegFacts DEF UpLegs
<1>5. place[<<"U", t>>] # "queued" /\ (cl[<<"U", t>>] = "closed" \/ cl[<<"D", t>>] = "closed")
  BY <1>3, <1>4, LegPairs
<1> QED
  BY <1>1, <1>5, SsFreeWay

-----------------------------------------------------------------------------
(* Every step.                                                             *)

\* At the start nothing is on its way.
LEMMA InitLegInv == Init => LegInv
<1> SUFFICES ASSUME Init PROVE LegInv
  OBVIOUS
<1>1. \A s \in Side : PipeOf(ctl, s) = <<>> /\ Len(PipeOf(ctl, s)) = 0
  BY DEF Init, PipeOf
<1>2. \A s \in Side : \A cmd : Told(s, cmd) = {}
  BY <1>1 DEF Told, About
<1>3. \A th \in Threads : Len(queue[th]) = 0
  BY DEF Init
<1>4. \A s : Waits(s) = {}
  BY <1>3 DEF Waits
<1>5. MailInv
  BY <1>1, <1>3 DEF MailInv, ToldOnce, Once, WaitsOnce, JobsMatch
<1>6. ASSUME NEW c \in Conns
      PROVE  /\ srv[c] = "none" /\ port[c] = 0
             /\ cl[<<"U", c>>] = "idle" /\ cl[<<"D", c>>] = "idle"
             /\ bev[<<"U", c>>] = None /\ bev[<<"D", c>>] = None
             /\ place[<<"U", c>>] = "none" /\ place[<<"D", c>>] = "none"
  BY LegPairs DEF Init
<1>7. ASSUME NEW c \in Conns PROVE ~Carried(c) /\ ~Underway(c) /\ WayOf(c)
  <2>1. ~Carried(c) /\ ~Underway(c)
    BY <1>2, <1>6, LegPairs DEF Carried, Underway
  <2>2. LegWay("U", c) /\ LegWay("D", c)
    BY <1>2, <1>4, <1>6, LegPairs, NoneAssumption DEF LegWay
  <2>3. TransWay(c)
    BY <1>2, <1>6, <2>1, LegPairs DEF TransWay
  <2> QED
    BY <2>1, <2>2, <2>3 DEF WayOf
<1>8. PairsInv
  BY <1>6, <1>7 DEF PairsInv, OneUnderway, OldIsFinished
<1>9. UpLegs
  <2>1. \A l \in Leg : Len(up[l]) = 0
    BY DEF Init
  <2> QED
    BY <2>1 DEF UpLegs
<1> QED
  BY <1>5, <1>7, <1>8, <1>9 DEF LegInv

\* Every step keeps every connection on its way.
LEMMA StepLegInv == Inv /\ LegInv /\ [Next]_vars => LegInv'
<1> SUFFICES ASSUME Inv, LegInv, [Next]_vars PROVE LegInv'
  OBVIOUS
<1>15. ASSUME UNCHANGED <<port, cl, srv, bev, place, up, ctl, queue, alive>> PROVE LegInv'
  <2>1. UpLegs'
    BY <1>15, LegFacts, UpStays, ReadyDef
  <2> QED
    BY <1>15, <2>1, QuietWay
<1>1. ASSUME NEW c \in Conns, SrvConnUsr(c) PROVE LegInv'
  <2>1. CASE SsMayCreate(port[c])
    BY <1>1, <2>1, UserWay
  <2>2. CASE ~SsMayCreate(port[c])
    <3>1. /\ HasConn(<<"U", c>>) /\ place' = [place EXCEPT ![<<"U", c>>] = "leaked"]
          /\ up' = [up EXCEPT ![<<"U", c>>] = Tail(@)]
          /\ UNCHANGED <<port, cl, srv, bev, ctl, queue, alive>>
      BY <1>1, <2>2 DEF SrvConnUsr
    <3> QED
      BY <3>1, TurnedAway, LegPairs
  <2> QED
    BY <2>1, <2>2
<1>2. ASSUME NEW c \in Conns, SrvConnDaemon(c) PROVE LegInv'
  <2>1. CASE SsFind(port[c]) # {} /\ place'[<<"D", c>>] = "queued"
    BY <1>2, <2>1, DaemonWay
  <2>3. CASE SsFind(port[c]) # {} /\ place'[<<"D", c>>] # "queued"
    <3>1. <<"D", c>> \in Leg /\ place \in [Leg -> Places]
      BY LegPairs DEF Inv, PortInv, TypeOK
    <3>2. /\ HasConn(<<"D", c>>)
          /\ \E x \in {"leaked", "lost"} : place' = [place EXCEPT ![<<"D", c>>] = x]
          /\ up' = [up EXCEPT ![<<"D", c>>] = Tail(@)]
          /\ UNCHANGED <<port, cl, srv, bev, ctl, queue, alive>>
      BY <1>2, <2>3, <3>1 DEF SrvConnDaemon, Enqueue, Handed
    <3> QED
      BY <3>2, TurnedAway, LegPairs
  <2>2. CASE SsFind(port[c]) = {}
    <3>1. /\ HasConn(<<"D", c>>) /\ place' = [place EXCEPT ![<<"D", c>>] = "leaked"]
          /\ up' = [up EXCEPT ![<<"D", c>>] = Tail(@)]
          /\ UNCHANGED <<port, cl, srv, bev, ctl, queue, alive>>
      BY <1>2, <2>2 DEF SrvConnDaemon
    <3> QED
      BY <3>1, TurnedAway, LegPairs
  <2> QED
    BY <2>1, <2>2, <2>3
<1>3. ASSUME NEW l \in Leg, SrvReject(l) PROVE LegInv'
  <2>1. PICK s \in Side, c \in Conns : l = <<s, c>>
    BY LegPairs
  <2>2. /\ HasConn(<<s, c>>) /\ place' = [place EXCEPT ![<<s, c>>] = "rejected"]
        /\ up' = [up EXCEPT ![<<s, c>>] = Tail(@)]
        /\ UNCHANGED <<port, cl, srv, bev, ctl, queue, alive>>
    BY <1>3, <2>1 DEF SrvReject
  <2> QED
    BY <2>2, TurnedAway
<1>4. ASSUME NEW l \in Leg, ClientRecv(l) PROVE LegInv'
  <2>1. UNCHANGED <<port, cl, srv, bev, place, up, ctl, queue, alive>>
    BY <1>4 DEF ClientRecv
  <2> QED
    BY <1>15, <2>1
<1>5. ASSUME NEW l \in Leg, ClientSrvEof(l) \/ ClientLocalEof(l) PROVE LegInv'
  <2>1. /\ cl[l] = "active" /\ ScFree({l})
        /\ UNCHANGED <<port, srv, bev, place, ctl, queue, alive>>
    BY <1>5 DEF ClientSrvEof, ClientLocalEof
  <2> DEFINE S == {l}
  <2>2. /\ S \in SUBSET Leg /\ \A k \in S : cl[k] \in Listed
        /\ \A s \in Side : alive'[s] => alive[s]
        /\ \A s \in Side, c \in Conns : <<s, c>> \in S => cl[<<s, c>>] = "active" \/ ~alive'[s]
    BY <2>1 DEF Listed
  <2> HIDE DEF S
  <2>3. ScFree(S)
    BY <2>1 DEF S
  <2> QED
    BY <2>1, <2>2, <2>3, ScFreeWay
<1>6. ASSUME NEW s \in Side, NEW t \in Conns, WorkerRead(s, t) PROVE LegInv'
  BY <1>6, ReadWay
<1>7. ASSUME NEW s \in Side, NEW t \in Conns, WorkerEof(s, t) PROVE LegInv'
  BY <1>7, EofWay
<1>8. ASSUME NEW th \in Threads, WorkerTake(th) PROVE LegInv'
  <2>1. CASE queue[th] = <<>>
    <3>1. UNCHANGED <<port, cl, srv, bev, place, up, ctl, queue, alive>>
      BY <1>8, <2>1 DEF WorkerTake
    <3> QED
      BY <1>15, <3>1
  <2> QED
    BY <1>8, <2>1, TakeWay
<1>9. ASSUME NEW s \in Side, ClientCtl(s) PROVE LegInv'
  BY <1>9, CtlWay
<1>10. ASSUME SrvRemove PROVE LegInv'
  <2>1. /\ \E s \in Side : ~alive[s]
        /\ SsFree(SsListed) /\ UNCHANGED <<port, cl, ctl, queue, alive>>
    BY <1>10 DEF SrvRemove, SsFreeAll, Inv, LeftFirst
  <2>2. SsListed \in SUBSET Conns /\ (~alive["U"] \/ ~alive["D"])
    BY <2>1, LegPairs DEF SsListed
  <2> QED
    BY <2>1, <2>2, SsFreeWay
<1>11. ASSUME NEW c \in Conns, NEW p \in Ports, UsrAccept(c, p) PROVE LegInv'
  BY <1>11, AcceptWay
<1>12. ASSUME NEW l \in Leg, ClientSend(l) PROVE LegInv'
  BY <1>12, SendWay
<1>13. ASSUME NEW s \in Side, ClientLeave(s) PROVE LegInv'
  <2> DEFINE S == {<<s, c>> : c \in ScListed(s)}
  <2>1. /\ ScFree(S) /\ alive' = [alive EXCEPT ![s] = FALSE]
        /\ UNCHANGED <<port, srv, bev, place, ctl, queue>>
    BY <1>13 DEF ClientLeave, ScFreeAll
  <2>2. alive \in [Side -> BOOLEAN]
    BY DEF Inv, PortInv, TypeOK
  <2>3. /\ S \in SUBSET Leg /\ \A k \in S : cl[k] \in Listed
        /\ \A r \in Side, c \in Conns : <<r, c>> \in S => r = s
    BY LegPairs DEF ScListed, Listed
  <2>4. /\ ~alive'[s] /\ \A r \in Side : alive'[r] => alive[r]
        /\ \A r \in Side, c \in Conns : <<r, c>> \in S => cl[<<r, c>>] = "active" \/ ~alive'[r]
    BY <2>1, <2>2, <2>3
  <2> HIDE DEF S
  <2> QED
    BY <2>1, <2>3, <2>4, ScFreeWay
<1>14. CASE UNCHANGED vars
  <2>1. UNCHANGED <<port, cl, srv, bev, place, up, ctl, queue, alive>>
    BY <1>14 DEF vars
  <2> QED
    BY <1>15, <2>1
<1>16. CASE SrvMainEof
  BY <1>15, <1>16 DEF SrvMainEof
<1> QED
  BY <1>1, <1>2, <1>3, <1>4, <1>5, <1>6, <1>7, <1>8, <1>9, <1>10, <1>11, <1>12, <1>13, <1>14, <1>16
  DEF Next, System, Environment

-----------------------------------------------------------------------------
(* The bytes in the notify pipes.                                          *)
(*                                                                         *)
(* A leg that is lost stays lost (LostStays), so that the bytes of a       *)
(* worker's pipe and the items of its queue agree, one by one, until the   *)
(* first item is lost (QueueInv).                                          *)

InStep(th) ==
    Len(pipe[th]) = Len(queue[th]) /\ \A i \in 1..Len(queue[th]) : pipe[th][i] = queue[th][i].kind

AtHome(th) == \A i \in 1..Len(queue[th]) : ThreadOf(port[queue[th][i].trans]) = th

QueueInv == \A th \in Threads : AtHome(th) /\ (LostOn(th) \/ InStep(th))

\* No step brings a lost leg back, or gives its connection another thread.
LEMMA LostStays ==
    ASSUME Inv, LegInv, Next, NEW l \in Leg, place[l] = "lost"
    PROVE  place'[l] = "lost" /\ port'[l[2]] = port[l[2]]
<1>1. /\ place \in [Leg -> Places] /\ port \in [Conns -> Ports \cup {0}]
      /\ bev \in [Leg -> Conns \cup {None}]
  BY DEF Inv, PortInv, TypeOK
<1>2. PICK s \in Side, c \in Conns : l = <<s, c>>
  BY LegPairs
<1>3. LegWay("U", c) /\ LegWay("D", c) /\ TransWay(c)
  BY LegFacts DEF WayOf
<1>4. CASE UNCHANGED <<port, place>>
  BY <1>4
<1>5. ASSUME NEW k \in Leg, place[k] # "lost", NEW x, place' = [place EXCEPT ![k] = x]
      PROVE  place'[l] = "lost"
  BY <1>1, <1>5
<1>6. ASSUME NEW b \in Conns, SrvConnUsr(b) \/ SrvConnDaemon(b)
      PROVE  place'[l] = "lost" /\ port'[l[2]] = port[l[2]]
  <2>1. PICK r \in Side : place[<<r, b>>] = "main" /\ \E x : place' = [place EXCEPT ![<<r, b>>] = x]
    BY <1>6, LegPairs DEF SrvConnUsr, SrvConnDaemon, Enqueue, Handed, HasConn
  <2>2. port' = port
    BY <1>6 DEF SrvConnUsr, SrvConnDaemon
  <2> QED
    BY <1>5, <2>1, <2>2, LegPairs
<1>7. ASSUME NEW k \in Leg, SrvReject(k) PROVE place'[l] = "lost" /\ port'[l[2]] = port[l[2]]
  BY <1>1, <1>7 DEF SrvReject, HasConn
<1>8. ASSUME NEW T \in SUBSET Conns, SsFree(T), port' = port
      PROVE  place'[l] = "lost" /\ port'[l[2]] = port[l[2]]
  <2> DEFINE slots == {x \in Side \X T : bev[x] # None}
             legs  == {<<x[1], bev[x]>> : x \in slots}
  <2>1. place' = [k \in Leg |-> IF k \in legs THEN "closed" ELSE place[k]]
    BY <1>8 DEF SsFree
  <2>2. ASSUME NEW x \in slots, l = <<x[1], bev[x]>> PROVE FALSE
    <3>1. PICK r \in Side, t \in T : x = <<r, t>>
      OBVIOUS
    <3>2. t \in Conns /\ r = s /\ bev[<<r, t>>] = c
      BY <1>2, <2>2, <3>1
    <3>3. LegWay("U", t) /\ LegWay("D", t)
      BY <3>2, LegFacts DEF WayOf
    <3>4. t = c
      BY <3>2, <3>3, LegPairs, NoneAssumption DEF LegWay
    <3> QED
      BY <1>2, <1>3, <3>2, <3>4, LegPairs DEF LegWay
  <2> QED
    BY <1>8, <2>1, <2>2
<1>9. ASSUME NEW th \in Threads, WorkerTake(th)
      PROVE  place'[l] = "lost" /\ port'[l[2]] = port[l[2]]
  <2> DEFINE j == Head(queue[th])
  <2>1. port' = port
    BY <1>9 DEF WorkerTake
  <2>2. CASE queue[th] = <<>>
    BY <1>4, <1>9, <2>2 DEF WorkerTake
  <2>3. CASE queue[th] # <<>>
    <3>1. j \in Jobs /\ j.conn \in Waits(j.kind)
      BY <1>9, <2>3, JobTaken, LegFacts DEF Inv
    <3>2. place' = place \/ place' = [place EXCEPT ![<<j.kind, j.conn>>] = "worker"]
      BY <1>9, <2>3 DEF WorkerTake, Serve, Attach
    <3> HIDE DEF j
    <3>3. j.kind \in Side /\ j.conn \in Conns
      BY <3>1 DEF Jobs
    <3>4. place[<<j.kind, j.conn>>] = "queued"
      <4>1. LegWay("U", j.conn) /\ LegWay("D", j.conn)
        BY <3>3, LegFacts DEF WayOf
      <4>2. CASE j.kind = "U"
        BY <3>1, <4>1, <4>2 DEF LegWay
      <4>3. CASE j.kind = "D"
        BY <3>1, <4>1, <4>3 DEF LegWay
      <4> QED
        BY <3>3, <4>2, <4>3, LegPairs
    <3> QED
      BY <1>1, <2>1, <3>2, <3>3, <3>4, LegPairs
  <2> QED
    BY <2>2, <2>3
<1>10. ASSUME NEW r \in Side, ClientCtl(r)
       PROVE  place'[l] = "lost" /\ port'[l[2]] = port[l[2]]
  <2>1. PICK n \in 1..MaxBatch :
            /\ n <= Len(ctl[r].net) /\ ReadHead(r, n)
            /\ OnConnAct(r, HeadOf(r, n)) \/ OnConn(r, HeadOf(r, n))
    BY <1>10 DEF ClientCtl
  <2>2. UNCHANGED <<port, srv, bev, queue, alive>>
    BY <1>10 DEF ClientCtl
  <2>3. PICK m : m = HeadOf(r, n)
    OBVIOUS
  <2>4. m.of \in Conns /\ m.of \in Told(r, m.cmd) /\ (m.cmd = "CONN" => r = "D")
    BY <2>1, <2>2, <2>3, Handled
  <2>5. CASE place' = place
    BY <2>2, <2>5
  <2>6. CASE m.cmd = "CONN" /\ place' = [place EXCEPT ![<<r, m.of>>] = "main"]
    <3>1. place[<<r, m.of>>] = "none"
      BY <2>4, <2>6, LegFacts DEF WayOf, TransWay
    <3> QED
      BY <1>5, <2>2, <2>4, <2>6, <3>1, LegPairs
  <2> QED
    BY <2>1, <2>3, <2>5, <2>6 DEF OnConnAct, OnConn
<1>11. ASSUME NEW b \in Conns, NEW p \in Ports, UsrAccept(b, p)
       PROVE  place'[l] = "lost" /\ port'[l[2]] = port[l[2]]
  <2>1. /\ port[b] = 0 /\ port' = [port EXCEPT ![b] = p]
        /\ place' = place \/ place' = [place EXCEPT ![<<"U", b>>] = "main"]
    BY <1>11 DEF UsrAccept
  <2>2. place[<<"U", b>>] # "lost" /\ place[<<"D", b>>] # "lost"
    BY <2>1, NotYetThere
  <2>3. b # c
    BY <1>2, <2>2, LegPairs
  <2> QED
    BY <1>1, <1>2, <2>1, <2>3, LegPairs
<1>12. SsListed \in SUBSET Conns /\ \A t \in Conns : {t} \in SUBSET Conns
  BY DEF SsListed
<1>13. CASE SrvRemove
  BY <1>8, <1>12, <1>13 DEF SrvRemove, SsFreeAll
<1>14. ASSUME NEW r \in Side, NEW t \in Conns, WorkerEof(r, t)
       PROVE  place'[l] = "lost" /\ port'[l[2]] = port[l[2]]
  BY <1>8, <1>12, <1>14 DEF WorkerEof
<1> QED
  BY <1>4, <1>6, <1>7, <1>9, <1>10, <1>11, <1>13, <1>14
  DEF Next, System, Environment, ClientRecv, ClientSrvEof, WorkerRead, SrvMainEof, ClientSend,
      ClientLocalEof, ClientLeave

\* So a worker that has lost an item has lost one for good.
LEMMA LostOnStays ==
    ASSUME Inv, LegInv, Next, NEW th \in Threads, LostOn(th)
    PROVE  LostOn(th)'
<1>1. PICK l \in Leg : place[l] = "lost" /\ ThreadOf(port[l[2]]) = th
  BY DEF LostOn
<1>2. place'[l] = "lost" /\ port'[l[2]] = port[l[2]]
  BY <1>1, LostStays
<1> QED
  BY <1>1, <1>2 DEF LostOn

\* A queue and a pipe that grow by one, or shrink by one, in step.
LEMMA StepLong ==
    ASSUME NEW th \in Threads, NEW p \in Seq(Side), NEW q \in Seq(Jobs), NEW j \in Jobs,
           pipe[th] = p, queue[th] = q, InStep(th),
           pipe'[th] = Append(p, j.kind), queue'[th] = Append(q, j)
    PROVE  InStep(th)'
<1>1. j.kind \in Side
  BY DEF Jobs
<1>2. /\ Len(p) = Len(q) /\ Len(q) \in Nat
      /\ \A i \in 1..Len(q) : p[i] = q[i].kind
  BY LenProperties DEF InStep
<1>3. /\ Len(Append(p, j.kind)) = Len(p) + 1 /\ Len(Append(q, j)) = Len(q) + 1
      /\ \A i \in 1..Len(p) : Append(p, j.kind)[i] = p[i]
      /\ \A i \in 1..Len(q) : Append(q, j)[i] = q[i]
      /\ Append(p, j.kind)[Len(p) + 1] = j.kind /\ Append(q, j)[Len(q) + 1] = j
  BY <1>1, AppendProperties
<1>4. \A i \in 1..(Len(q) + 1) : i \in 1..Len(q) \/ i = Len(q) + 1
  BY <1>2, LastPlace
<1>5. \A i \in 1..(Len(q) + 1) : Append(p, j.kind)[i] = Append(q, j)[i].kind
  BY <1>2, <1>3, <1>4
<1> QED
  BY <1>2, <1>3, <1>5 DEF InStep

LEMMA StepShort ==
    ASSUME NEW th \in Threads, NEW p \in Seq(Side), NEW q \in Seq(Jobs), p # <<>>, q # <<>>,
           pipe[th] = p, queue[th] = q, InStep(th), pipe'[th] = Tail(p), queue'[th] = Tail(q)
    PROVE  InStep(th)'
<1>1. /\ Len(p) = Len(q) /\ Len(q) \in Nat
      /\ \A i \in 1..Len(q) : p[i] = q[i].kind
  BY LenProperties DEF InStep
<1>2. /\ Len(Tail(p)) = Len(p) - 1 /\ Len(Tail(q)) = Len(q) - 1
      /\ \A i \in 1..Len(Tail(p)) : Tail(p)[i] = p[i + 1]
      /\ \A i \in 1..Len(Tail(q)) : Tail(q)[i] = q[i + 1]
  BY HeadTailProperties
<1>3. \A i \in 1..(Len(q) - 1) : i + 1 \in 1..Len(q)
  BY <1>1, ShiftPlace
<1>4. \A i \in 1..(Len(q) - 1) : Tail(p)[i] = Tail(q)[i].kind
  BY <1>1, <1>2, <1>3
<1> QED
  BY <1>1, <1>2, <1>4 DEF InStep

\* The main loop writes a byte with the item, or instead of it.
LEMMA QueueGrows ==
    ASSUME Inv, LegInv, QueueInv, Next, NEW s \in Side, NEW c \in Conns, NEW t \in Conns,
           Enqueue(s, c, t), port[t] = port[c], port' = port
    PROVE  QueueInv'
<1> DEFINE h == ThreadOf(port[c])
           j == [kind |-> s, conn |-> c, trans |-> t]
<1>1. /\ h \in Threads /\ j \in Jobs /\ j.kind = s /\ j.trans = t
      /\ queue \in [Threads -> Seq(Jobs)] /\ pipe \in [Threads -> Seq(Side)]
      /\ place \in [Leg -> Places]
  BY PortType, ThreadType DEF Jobs, Inv, PortInv, TypeOK
<1>2. CASE Handed(s, c, t, h)
  <2>1. ASSUME NEW th \in Threads PROVE AtHome(th)'
    <3>1. ASSUME NEW i \in 1..Len(queue'[th]) PROVE ThreadOf(port[queue'[th][i].trans]) = th
      <4>1. /\ Len(queue'[h]) = Len(queue[h]) + 1 /\ Len(queue[h]) \in Nat
            /\ th # h => queue'[th] = queue[th]
            /\ \A k \in 1..Len(queue[th]) : queue'[th][k] = queue[th][k]
            /\ queue'[h][Len(queue[h]) + 1] = j
        BY <1>1, <1>2, EnqueueStep DEF Inv
      <4> HIDE DEF j
      <4>2. CASE i \in 1..Len(queue[th])
        BY <4>1, <4>2 DEF QueueInv, AtHome
      <4>3. CASE i \notin 1..Len(queue[th])
        <5>1. th = h /\ i = Len(queue[h]) + 1
          BY <3>1, <4>1, <4>3, LastPlace
        <5> QED
          BY <1>1, <4>1, <5>1
      <4> QED
        BY <4>2, <4>3
    <3> QED
      BY <3>1 DEF AtHome
  <2>2. ASSUME NEW th \in Threads PROVE LostOn(th)' \/ InStep(th)'
    <3>1. CASE LostOn(th)
      BY <3>1, LostOnStays
    <3>2. CASE InStep(th) /\ th # h
      BY <1>1, <1>2, <3>2 DEF Handed, InStep
    <3>3. CASE InStep(th) /\ th = h
      <4>1. pipe'[h] = Append(pipe[h], j.kind) /\ queue'[h] = Append(queue[h], j)
        BY <1>1, <1>2 DEF Handed
      <4> HIDE DEF h, j
      <4>2. pipe[h] \in Seq(Side) /\ queue[h] \in Seq(Jobs)
        BY <1>1
      <4> QED
        BY <1>1, <3>3, <4>1, <4>2, StepLong
    <3> QED
      BY <3>1, <3>2, <3>3 DEF QueueInv
  <2> QED
    BY <2>1, <2>2 DEF QueueInv
<1>3. CASE ~Handed(s, c, t, h)
  <2>1. /\ pipe' = [pipe EXCEPT ![h] = Append(@, s)] /\ queue' = queue
        /\ place' = [place EXCEPT ![<<s, c>>] = "lost"]
    BY <1>3 DEF Enqueue
  <2>2. LostOn(h)'
    BY <1>1, <2>1, LegPairs DEF LostOn
  <2>3. ASSUME NEW th \in Threads, th # h PROVE LostOn(th)' \/ InStep(th)'
    <3>1. CASE LostOn(th)
      BY <3>1, LostOnStays
    <3>2. CASE InStep(th)
      BY <1>1, <2>1, <2>3, <3>2 DEF InStep
    <3> QED
      BY <3>1, <3>2 DEF QueueInv
  <2>4. \A th \in Threads : AtHome(th)'
    BY <2>1 DEF QueueInv, AtHome
  <2> QED
    BY <2>2, <2>3, <2>4 DEF QueueInv
<1> QED
  BY <1>2, <1>3

\* A worker that has lost nothing finds an item for its byte, and they agree.
LEMMA TakeInStep ==
    ASSUME Inv, QueueInv, NEW th \in Threads, pipe[th] # <<>>, ~LostOn(th)
    PROVE  /\ InStep(th) /\ queue[th] # <<>> /\ Head(pipe[th]) = Head(queue[th]).kind
           /\ Head(queue[th]) = queue[th][1] /\ 1 \in 1..Len(queue[th])
<1>1. pipe[th] \in Seq(Side) /\ queue[th] \in Seq(Jobs)
  BY DEF Inv, PortInv, TypeOK
<1>2. InStep(th) /\ Len(pipe[th]) \in Nat /\ Len(pipe[th]) # 0
  BY <1>1, EmptySeq, LenProperties DEF QueueInv
<1>3. Len(queue[th]) = Len(pipe[th]) /\ 1 \in 1..Len(queue[th])
  BY <1>2 DEF InStep
<1>4. queue[th] # <<>>
  BY <1>2, <1>3
<1>5. Head(pipe[th]) = pipe[th][1] /\ Head(queue[th]) = queue[th][1]
  BY <1>1, <1>4, HeadTailProperties
<1> QED
  BY <1>2, <1>3, <1>4, <1>5 DEF InStep

\* Every step keeps bytes and items in step, or an item has been lost.
LEMMA StepQueueInv == Inv /\ LegInv /\ QueueInv /\ [Next]_vars => QueueInv'
<1> SUFFICES ASSUME Inv, LegInv, QueueInv, Next PROVE QueueInv'
  <2>1. CASE UNCHANGED vars
    BY <2>1 DEF vars, QueueInv, InStep, AtHome, LostOn
  <2> QED
    BY <2>1
<1>1. /\ queue \in [Threads -> Seq(Jobs)] /\ pipe \in [Threads -> Seq(Side)]
      /\ port \in [Conns -> Ports \cup {0}]
  BY DEF Inv, PortInv, TypeOK
<1>2. ASSUME NEW th \in Threads, NEW i \in 1..Len(queue[th])
      PROVE  queue[th][i].trans \in Conns /\ port[queue[th][i].trans] # 0
  <2>1. queue[th][i] \in Jobs
    BY <1>1, ElementOfSeq
  <2>2. queue[th][i].trans \in Conns
    BY <2>1 DEF Jobs
  <2> QED
    BY <2>2 DEF Inv, OrderInv, JobsKnown, UserFresh
<1>3. ASSUME UNCHANGED <<queue, pipe>>, \A c \in Conns : port[c] # 0 => port'[c] = port[c]
      PROVE  QueueInv'
  <2>1. \A th \in Threads : AtHome(th)'
    BY <1>2, <1>3 DEF QueueInv, AtHome
  <2>2. ASSUME NEW th \in Threads PROVE LostOn(th)' \/ InStep(th)'
    BY <1>3, LostOnStays DEF QueueInv, InStep
  <2> QED
    BY <2>1, <2>2 DEF QueueInv
<1>4. ASSUME NEW c \in Conns, SrvConnUsr(c) PROVE QueueInv'
  <2>1. port' = port /\ "U" \in Side
    BY <1>4, LegPairs DEF SrvConnUsr
  <2>2. CASE Enqueue("U", c, c)
    BY <2>1, <2>2, QueueGrows
  <2>3. CASE UNCHANGED <<queue, pipe>>
    BY <1>3, <2>1, <2>3
  <2> QED
    BY <1>4, <2>2, <2>3 DEF SrvConnUsr
<1>5. ASSUME NEW c \in Conns, SrvConnDaemon(c) PROVE QueueInv'
  <2>1. port' = port /\ "D" \in Side
    BY <1>5, LegPairs DEF SrvConnDaemon
  <2>2. ASSUME NEW t \in SsFind(port[c]), Enqueue("D", c, t) PROVE QueueInv'
    <3>1. t \in Conns /\ port[t] = port[c]
      BY DEF SsFind, SsListed
    <3> QED
      BY <2>1, <2>2, <3>1, QueueGrows
  <2>3. CASE UNCHANGED <<queue, pipe>>
    BY <1>3, <2>1, <2>3
  <2> QED
    BY <1>5, <2>2, <2>3 DEF SrvConnDaemon
<1>6. ASSUME NEW th \in Threads, WorkerTake(th) PROVE QueueInv'
  <2>1. pipe[th] # <<>> /\ pipe' = [pipe EXCEPT ![th] = Tail(@)] /\ port' = port
    BY <1>6 DEF WorkerTake
  <2>2. \/ queue[th] = <<>> /\ queue' = queue
        \/ queue[th] # <<>> /\ queue' = [queue EXCEPT ![th] = Tail(@)]
    BY <1>6 DEF WorkerTake
  <2>3. ASSUME NEW h \in Threads PROVE AtHome(h)'
    <3>1. ASSUME NEW i \in 1..Len(queue'[h])
          PROVE  \E k \in 1..Len(queue[h]) : queue'[h][i] = queue[h][k]
      <4>1. CASE queue'[h] = queue[h]
        BY <4>1
      <4>2. CASE queue[h] # <<>> /\ queue'[h] = Tail(queue[h])
        <5>1. queue[h] \in Seq(Jobs)
          BY <1>1
        <5>2. /\ Len(Tail(queue[h])) = Len(queue[h]) - 1 /\ Len(queue[h]) \in Nat
              /\ \A k \in 1..Len(Tail(queue[h])) : Tail(queue[h])[k] = queue[h][k + 1]
          BY <4>2, <5>1, HeadTailProperties, LenProperties
        <5>3. i + 1 \in 1..Len(queue[h])
          BY <3>1, <4>2, <5>2, ShiftPlace
        <5> QED
          BY <3>1, <4>2, <5>2, <5>3
      <4> QED
        BY <1>1, <2>2, <4>1, <4>2
    <3> QED
      BY <2>1, <3>1 DEF QueueInv, AtHome
  <2>4. ASSUME NEW h \in Threads PROVE LostOn(h)' \/ InStep(h)'
    <3>1. CASE LostOn(h)
      BY <3>1, LostOnStays
    <3>2. CASE ~LostOn(h) /\ h # th
      BY <1>1, <2>1, <2>2, <3>2 DEF QueueInv, InStep
    <3>3. CASE ~LostOn(h) /\ h = th
      <4>1. InStep(th) /\ queue[th] # <<>>
        BY <2>1, <3>3, TakeInStep
      <4>2. pipe[th] \in Seq(Side) /\ queue[th] \in Seq(Jobs)
        BY <1>1
      <4>3. pipe'[th] = Tail(pipe[th]) /\ queue'[th] = Tail(queue[th])
        BY <1>1, <2>1, <2>2, <4>1
      <4> QED
        BY <2>1, <3>3, <4>1, <4>2, <4>3, StepShort
    <3> QED
      BY <3>1, <3>2, <3>3
  <2> QED
    BY <2>3, <2>4 DEF QueueInv
<1>7. ASSUME NEW c \in Conns, NEW p \in Ports, UsrAccept(c, p) PROVE QueueInv'
  <2>1. UNCHANGED <<queue, pipe>> /\ port[c] = 0 /\ port' = [port EXCEPT ![c] = p]
    BY <1>7 DEF UsrAccept
  <2> QED
    BY <1>1, <1>3, <2>1
<1>8. CASE UNCHANGED <<port, queue, pipe>>
  BY <1>3, <1>8
<1> QED
  BY <1>4, <1>5, <1>6, <1>7, <1>8
  DEF Next, System, Environment, SrvReject, ClientRecv, ClientSrvEof, WorkerRead, WorkerEof,
      ClientCtl, SrvMainEof, SrvRemove, ClientSend, ClientLocalEof, ClientLeave

\* The item a worker finds under a byte D is the first of its queue, so that no
\* job can stand before it: the USR leg is in its slot, or lost on this worker.
LEMMA InvUserLegFirst == Inv /\ QueueInv => UserLegFirst
<1> SUFFICES ASSUME Inv, QueueInv, Ok, NEW th \in Threads, pipe[th] # <<>>,
                    Head(pipe[th]) = "D", ~LostOn(th)
             PROVE  /\ queue[th] # <<>>
                    /\ LET j == Head(queue[th]) IN
                       /\ j.kind = "D"
                       /\ srv[j.trans] = "listed" => bev[<<"U", j.trans>>] # None
  BY DEF UserLegFirst
<1>1. PICK j : j = queue[th][1]
  OBVIOUS
<1>2. /\ queue[th] # <<>> /\ Head(queue[th]) = j /\ j.kind = "D" /\ 1 \in 1..Len(queue[th])
      /\ queue[th] \in Seq(Jobs)
  BY <1>1, TakeInStep DEF Inv, PortInv, TypeOK
<1>3. j.trans \in Conns
  <2>1. j \in Jobs
    BY <1>1, <1>2, ElementOfSeq
  <2> QED
    BY <2>1 DEF Jobs
<1>4. place[<<"U", j.trans>>] # "lost"
  <2>1. ThreadOf(port[j.trans]) = th
    BY <1>1, <1>2 DEF QueueInv, AtHome
  <2>2. <<"U", j.trans>> \in Leg /\ <<"U", j.trans>>[2] = j.trans
    BY <1>3 DEF Leg, Side
  <2> QED
    BY <2>1, <2>2 DEF LostOn
<1>5. ASSUME srv[j.trans] = "listed" PROVE bev[<<"U", j.trans>>] # None
  <2>1. UserIn(j.trans) \/ \E k \in 1..(1 - 1) : UserJob(th, k, j.trans)
    BY <1>1, <1>2, <1>5 DEF Inv, OrderInv, UserBefore
  <2>2. 1..(1 - 1) = {}
    OBVIOUS
  <2> QED
    BY <1>4, <2>1, <2>2 DEF UserIn
<1> QED
  BY <1>2, <1>5

\* At the start the pipes are empty.
LEMMA InitQueueInv == Init => QueueInv
<1> SUFFICES ASSUME Init, NEW th \in Threads PROVE AtHome(th) /\ InStep(th)
  BY DEF QueueInv
<1>1. Len(queue[th]) = 0 /\ Len(pipe[th]) = 0
  BY DEF Init
<1> QED
  BY <1>1 DEF AtHome, InStep

-----------------------------------------------------------------------------
(* The theorems about the way.                                             *)

\* In every reachable state every connection is on its way.
LEMMA SpecLegInv == Spec => [](Inv /\ LegInv /\ QueueInv)
<1>1. Init => Inv /\ LegInv /\ QueueInv
  BY InitInv, InitLegInv, InitQueueInv
<1>2. (Inv /\ LegInv /\ QueueInv) /\ [Next]_vars => (Inv /\ LegInv /\ QueueInv)'
  BY StepInv, StepLegInv, StepQueueInv
<1> QED
  BY <1>1, <1>2, PTL DEF Spec

\* When thread_process reads a byte D, the item it fetches is a DAEMON leg's, and
\* if its trans is still listed, bev_u is set: the order of the queue and of the
\* pipe, which no lock protects, is enough until an item of the worker is lost.
THEOREM UserLegComesFirst == Spec => []UserLegFirst
  BY InvUserLegFirst, SpecLegInv, PTL

\* The slots of a trans hold its own legs, whatever ports come back and when:
\* what thread_process puts into bev_u and bev_d belongs to one connection.
THEOREM LegsAlwaysMatch == Spec => []LegsMatch
<1>1. ASSUME LegInv PROVE LegsMatch
  <2>1. ASSUME NEW s \in Side, NEW t \in Conns PROVE bev[<<s, t>>] \in {t, None}
    <3>1. LegWay("U", t) /\ LegWay("D", t)
      BY <1>1, LegFacts DEF WayOf
    <3>2. s = "U" \/ s = "D"
      BY LegPairs
    <3> QED
      BY <3>1, <3>2 DEF LegWay
  <2> QED
    BY <2>1 DEF LegsMatch
<1> QED
  BY <1>1, SpecLegInv, PTL

\* A client that reads from its peers has both legs joined at the server, or
\* the server has parted them again.
THEOREM ActiveLegsJoined == Spec => []ActiveIsJoined
<1>1. ASSUME LegInv PROVE ActiveIsJoined
  <2>1. ASSUME NEW s \in Side, NEW c \in Conns, cl[<<s, c>>] = "active" PROVE Ready(c)
    <3>1. LegWay("U", c) /\ LegWay("D", c)
      BY <1>1, LegFacts DEF WayOf
    <3>2. s = "U" \/ s = "D"
      BY LegPairs
    <3> QED
      BY <2>1, <3>1, <3>2 DEF LegWay
  <2> QED
    BY <2>1 DEF ActiveIsJoined, Ready, Joined
<1> QED
  BY <1>1, SpecLegInv, PTL

\* A worker that takes a job of a trans that is freed: a client is gone.
LEMMA StaleJob ==
    ASSUME Inv, LegInv, NEW th \in Threads, WorkerTake(th), queue[th] # <<>>,
           srv[Head(queue[th]).trans] # "listed"
    PROVE  ~alive["U"] \/ ~alive["D"]
<1>1. PICK j : j = Head(queue[th])
  OBVIOUS
<1>2. /\ j \in Jobs /\ j.trans = j.conn /\ j.conn \in Waits(j.kind) /\ srv[j.conn] # "listed"
  BY <1>1, JobTaken, LegFacts DEF Inv
<1>3. j.kind \in Side /\ j.conn \in Conns
  BY <1>2 DEF Jobs
<1>4. srv[j.conn] = "freed"
  <2>1. queue[th] \in Seq(Jobs) /\ srv[j.conn] \in {"none", "listed", "freed"}
    BY <1>3 DEF Inv, PortInv, TypeOK
  <2>2. queue[th][1] = j /\ 1 \in 1..Len(queue[th])
    BY <1>1, <1>2, <2>1, HeadTailProperties, EmptySeq, LenProperties
  <2>3. srv[j.conn] # "none"
    BY <1>2, <2>2 DEF Inv, OrderInv, JobsKnown
  <2> QED
    BY <1>2, <2>1, <2>3
<1>5. LegWay("U", j.conn) /\ LegWay("D", j.conn) /\ TransWay(j.conn)
  BY <1>3, LegFacts DEF WayOf
<1>6. CASE j.kind = "U"
  BY <1>2, <1>4, <1>5, <1>6 DEF LegWay, TransWay
<1>7. CASE j.kind = "D"
  <2>1. place[<<"D", j.conn>>] = "queued" /\ Underway(j.conn)
    BY <1>2, <1>5, <1>7 DEF LegWay, Underway, Carried
  <2> QED
    BY <1>4, <1>5, <2>1 DEF TransWay
<1> QED
  BY <1>3, <1>6, <1>7, LegPairs

\* A worker with bytes of a leg has the other leg, or they are not data.
LEMMA ReadHasLeg ==
    ASSUME Inv, LegInv, NEW s \in Side, NEW t \in Conns, WorkerRead(s, t)
    PROVE  bev[<<Other(s), t>>] # None
<1>1. bev[<<s, t>>] # None /\ up[<<s, bev[<<s, t>>]>>] # <<>> /\ Head(up[<<s, bev[<<s, t>>]>>]) # Fin
  BY DEF WorkerRead
<1>2. LegWay("U", t) /\ LegWay("D", t)
  BY LegFacts DEF WayOf
<1>3. bev[<<s, t>>] = t /\ place[<<s, t>>] = "worker" /\ srv[t] = "listed"
  <2>1. CASE s = "U"
    BY <1>1, <1>2, <2>1 DEF LegWay
  <2>2. CASE s = "D"
    BY <1>1, <1>2, <2>2 DEF LegWay
  <2> QED
    BY <2>1, <2>2, LegPairs
<1>4. PICK q : q = up[<<s, t>>]
  OBVIOUS
<1>5. q \in Seq(Items) /\ q # <<>>
  BY <1>1, <1>3, <1>4, LegPairs DEF Inv, PortInv, TypeOK
<1>6. q[1] = Head(q) /\ q[1] \in Items /\ 1 \in 1..Len(q)
  BY <1>5, HeadTailProperties, EmptySeq, LenProperties, ElementOfSeq
<1>7. q[1] # Fin /\ q[1] # ConnHead
  BY <1>1, <1>3, <1>4, <1>6, LegPairs, LegFacts DEF UpLegs
<1>8. q[1].tag = "data"
  BY <1>6, <1>7 DEF Items, Chunk
<1>9. Ready(t)
  BY <1>4, <1>6, <1>8, LegPairs, LegFacts DEF UpLegs
<1> QED
  BY <1>3, <1>9, ReadyDef, NoneAssumption, LegPairs DEF Other

\* The DAEMON that finds the port of a new connection on its list: the port
\* came back before its last tunnel was drained.
LEMMA StaleTrans ==
    ASSUME Inv, LegInv, NEW c \in Told("D", "CONN"), ~ScMayCreate("D", port[c])
    PROVE  EarlyReuse
<1>1. c \in Conns /\ TransWay(c)
  BY LegFacts DEF Told, About, WayOf
<1>2. PICK b \in Conns : b \in ScListed("D") /\ port[b] = port[c]
  BY DEF ScMayCreate, ScFind, ScListed
<1>3. b # c /\ port[b] # 0 /\ cl[<<"D", b>>] \notin {"idle", "refused", "closed"}
  BY <1>1, <1>2, LegPairs DEF TransWay, ScListed, Inv, PortInv, PortKnown
<1>4. ~Finished(b) /\ ~Finished(c)
  BY <1>3, LegPairs DEF Finished
<1> QED
  BY <1>1, <1>2, <1>3, <1>4, LegFacts DEF OldIsFinished

\* Every step keeps to the aborts that are possible.
LEMMA StepNoAbort == Inv /\ LegInv /\ QueueInv /\ NoAbort /\ [Next]_vars => NoAbort'
<1> SUFFICES ASSUME Inv, LegInv, QueueInv, NoAbort, Next PROVE NoAbort'
  <2>1. UNCHANGED vars /\ NoAbort => NoAbort'
    BY DEF vars, NoAbort, LostOn
  <2> QED
    BY <2>1
<1>1. fault = "none"
  BY DEF Next, Ok
<1>2. ASSUME fault' = "none" PROVE NoAbort'
  BY <1>2 DEF NoAbort
<1>3. ASSUME NEW th \in Threads, WorkerTake(th) PROVE NoAbort'
  <2> DEFINE b == Head(pipe[th])
             j == Head(queue[th])
  <2>1. alive' = alive /\ port' = port /\ pipe[th] # <<>>
    BY <1>3 DEF WorkerTake
  <2>2. CASE fault' = fault
    BY <1>1, <1>2, <2>2
  <2>3. fault' # fault =>
            /\ queue[th] # <<>> /\ place' = place
            /\ \/ /\ b = "D" /\ fault' = "usr_side"
                  /\ srv[j.trans] = "listed" => bev[<<"U", j.trans>>] = None
               \/ session # "up" /\ fault' = "use_after_free"
               \/ b # j.kind /\ fault' = "wrong_slot"
               \/ srv[j.trans] # "listed" /\ fault' = "use_after_free"
    BY <1>3 DEF WorkerTake, Serve
  <2>4. CASE fault' # fault /\ (srv[j.trans] # "listed" \/ session # "up")
    <3>1. ~alive["U"] \/ ~alive["D"]
      <4>1. CASE srv[j.trans] # "listed"
        BY <1>3, <2>3, <2>4, <4>1, StaleJob
      <4>2. CASE session # "up"
        BY <4>2, LegPairs DEF Inv, LeftFirst
      <4> QED
        BY <2>4, <4>1, <4>2
    <3>2. fault' \in {"usr_side", "use_after_free", "wrong_slot"}
      BY <2>3, <2>4
    <3>3. CASE fault' # "wrong_slot"
      BY <2>1, <3>1, <3>2, <3>3, LegPairs DEF NoAbort
    <3>4. CASE fault' = "wrong_slot"
      <4>1. b # j.kind /\ place' = place
        BY <2>3, <2>4, <3>4
      <4>2. LostOn(th)
        BY <2>1, <4>1, TakeInStep
      <4>3. LostOn(th)'
        BY <2>1, <4>1, <4>2 DEF LostOn
      <4> QED
        BY <3>4, <4>3 DEF NoAbort
    <3> QED
      BY <3>3, <3>4
  <2>5. CASE fault' # fault /\ srv[j.trans] = "listed" /\ session = "up"
    <3>1. \/ b = "D" /\ bev[<<"U", j.trans>>] = None /\ fault' = "usr_side"
          \/ b # j.kind /\ fault' = "wrong_slot"
      BY <2>3, <2>5
    <3>2. LostOn(th)
      <4>1. CASE b # j.kind
        BY <2>1, <4>1, TakeInStep
      <4>2. CASE b = "D" /\ bev[<<"U", j.trans>>] = None
        BY <1>1, <2>1, <2>5, <4>2, InvUserLegFirst DEF UserLegFirst, Ok
      <4> QED
        BY <3>1, <4>1, <4>2
    <3>3. LostOn(th)'
      BY <2>1, <2>3, <2>5, <3>2 DEF LostOn
    <3>4. \E h \in Threads : LostOn(h)'
      BY <3>3
    <3>5. fault' = "usr_side" \/ fault' = "wrong_slot"
      BY <3>1
    <3> QED
      BY <3>4, <3>5, LegPairs DEF NoAbort
  <2> QED
    BY <2>2, <2>4, <2>5
<1>4. ASSUME NEW s \in Side, NEW t \in Conns, WorkerRead(s, t) PROVE NoAbort'
  <2>1. bev[<<Other(s), t>>] # None
    BY <1>4, ReadHasLeg
  <2>2. fault' = fault
    BY <1>4, <2>1 DEF WorkerRead
  <2> QED
    BY <1>1, <1>2, <2>2
<1>5. ASSUME NEW s \in Side, ClientCtl(s) PROVE NoAbort'
  <2>1. PICK n \in 1..MaxBatch :
            /\ n <= Len(ctl[s].net) /\ ReadHead(s, n)
            /\ OnConnAct(s, HeadOf(s, n)) \/ OnConn(s, HeadOf(s, n))
    BY <1>5 DEF ClientCtl
  <2>2. alive[s] /\ UNCHANGED <<port, srv, bev, queue, alive>>
    BY <1>5 DEF ClientCtl
  <2>3. CASE OnConnAct(s, HeadOf(s, n))
    BY <1>1, <1>2, <2>1, <2>2, <2>3, ActWay
  <2>4. CASE OnConn(s, HeadOf(s, n))
    <3>1. PICK m : m = HeadOf(s, n)
      OBVIOUS
    <3>2. m.cmd = "CONN" /\ m.of \in Told("D", "CONN") /\ m.port = port[m.of] /\ s = "D"
      BY <2>1, <2>2, <2>4, <3>1, Handled DEF OnConn
    <3>3. fault' = fault \/ (fault' = "null_trans" /\ ~ScMayCreate("D", port[m.of]))
      BY <2>4, <3>1, <3>2 DEF OnConn
    <3>4. CASE fault' = "null_trans" /\ ~ScMayCreate("D", port[m.of])
      <4>1. EarlyReuse
        BY <3>2, <3>4, StaleTrans
      <4> QED
        BY <3>4, <4>1 DEF NoAbort
    <3> QED
      BY <1>1, <1>2, <3>3, <3>4
  <2> QED
    BY <2>1, <2>3, <2>4
<1> QED
  BY <1>1, <1>2, <1>3, <1>4, <1>5
  DEF Next, System, Environment, SrvConnUsr, SrvConnDaemon, SrvReject, ClientRecv, ClientSrvEof,
      WorkerEof, SrvMainEof, SrvRemove, UsrAccept, ClientSend, ClientLocalEof, ClientLeave

\* The aborts that can happen: SYS_ABORT of a client that is told to start a
\* tunnel it does not know, and bytes without a leg to put them on, cannot; a
\* stale trans at the DAEMON needs a port that came back early; a worker that
\* uses what the main loop has freed needs a client that has left; one that
\* misses the USR leg needs that too, or an item that the missing lock has lost,
\* as does one that would put a leg into the wrong slot.
THEOREM AbortsExplained == Spec => []NoAbort
<1>1. Init => NoAbort
  BY DEF Init, NoAbort
<1>2. (Inv /\ LegInv /\ QueueInv) /\ NoAbort /\ [Next]_vars => NoAbort'
  BY StepNoAbort
<1> QED
  BY <1>1, <1>2, SpecLegInv, PTL DEF Spec

-----------------------------------------------------------------------------
(* Tunnel implements Relay.  What is in flight from one peer to the other  *)
(* lies on the far leg and on the near leg, between a CONN header and an   *)
(* end of file that Relay does not see (FlowOf).  The callbacks move it    *)
(* from one leg to the next, or cut it short and break the tunnel; as long *)
(* as neither client has closed and the server holds the leg, all that was *)
(* sent is received or in flight (Complete), so that a chunk sent then is  *)
(* one that Relay accepts.                                                 *)

\* A CONN header stands first in a channel, an end of file last, and all between
\* is data.
Flow(q) ==
    \A i \in 1..Len(q) :
        \/ q[i].tag = "data"
        \/ q[i] = ConnHead /\ i = 1
        \/ q[i] = Fin /\ i = Len(q)

\* What is in the channels of leg l of connection c.  The server sends no header
\* and nothing behind an end, and nothing before the legs are joined; a client
\* that has not connected has sent nothing.
FlowOf(l) ==
    /\ Flow(up[l]) /\ Flow(dn[l])
    /\ \A i \in 1..Len(dn[l]) : dn[l][i] # ConnHead
    /\ Ended(dn[l]) => place[l] = "closed"
    /\ dn[l] # <<>> => Ready(l[2])
    /\ cl[l] = "idle" => up[l] = <<>> /\ place[l] = "none"
    /\ \A i \in 1..Len(got[l]) : got[l][i].tag = "data"

\* As long as neither client has closed and the server holds the leg, nothing
\* of what leg l has sent is missing.
Complete(l) ==
    cl[l] # "closed" /\ cl[Far(l)] # "closed" /\ place[l] # "closed" =>
        Len(Data(got[Far(l)])) + Len(Data(dn[Far(l)])) + Len(Data(up[l])) = sent[l]

FlowInv == \A l \in Leg : FlowOf(l) /\ Complete(l)

\* The phase of a connection of Relay, and what is in flight from leg l.
Phase(c) ==
    IF srv[c] = "freed" \/ \E s \in Side : cl[<<s, c>>] = "closed" THEN "broken"
    ELSE IF Joined(c) THEN "open" ELSE "idle"
Wire(l) == IF cl[Far(l)] = "closed" THEN <<>> ELSE Data(dn[Far(l)]) \o Data(up[l])

-----------------------------------------------------------------------------
(* Data in channels.                                                       *)

Pieces  == [from : Leg, n : 1..MaxData]
Last(q) == IF Ended(q) THEN Len(q) - 1 ELSE Len(q)
Single(x) == <<x>>

\* The kinds of items.
LEMMA ItemKinds ==
    /\ ConnHead # Fin /\ ConnHead.tag # "data" /\ Fin.tag # "data"
    /\ \A x \in Items : x.tag = "data" => Piece(x) \in Pieces
<1>1. ConnHead # Fin /\ ConnHead.tag # "data" /\ Fin.tag # "data"
  <2>1. ConnHead.tag = "conn" /\ Fin.tag = "fin"
    BY DEF ConnHead, Fin
  <2> QED
    BY <2>1
<1>2. ASSUME NEW x \in Items, x.tag = "data" PROVE Piece(x) \in Pieces
  <2>1. PICK l \in Leg, n \in 1..MaxData : x = Chunk(l, n)
    BY <1>1, <1>2 DEF Items
  <2>2. x.from = l /\ x.n = n
    BY <2>1 DEF Chunk
  <2> QED
    BY <2>2 DEF Piece, Pieces
<1> QED
  BY <1>1, <1>2

\* Data is the run of chunks that follows the header.
LEMMA DataOf ==
    ASSUME NEW q \in Seq(Items), Flow(q)
    PROVE  /\ Skipped(q) \in {0, 1} /\ Last(q) \in Nat /\ Len(q) \in Nat
           /\ Skipped(q) <= Last(q) /\ Last(q) <= Len(q)
           /\ \A i \in 1..Len(q) : q[i] \in Items
           /\ \A i \in 1..Len(q) : q[i].tag = "data" <=> Skipped(q) < i /\ i <= Last(q)
           /\ Data(q) \in Seq(Pieces) /\ Len(Data(q)) = Last(q) - Skipped(q)
           /\ \A k \in 1..(Last(q) - Skipped(q)) : Data(q)[k] = Piece(q[Skipped(q) + k])
<1>1. Len(q) \in Nat /\ \A i \in 1..Len(q) : q[i] \in Items
  BY ElementOfSeq, LenProperties
<1>2. CASE q = <<>>
  <2>1. Len(q) = 0 /\ Skipped(q) = 0 /\ Last(q) = 0
    BY <1>2 DEF Skipped, Last, Ended
  <2>2. Data(q) = <<>>
    BY <2>1 DEF Data, Last
  <2> QED
    BY <1>1, <2>1, <2>2
<1>3. CASE q # <<>>
  <2>1. Len(q) # 0 /\ Len(q) \in 1..Len(q) /\ 1 \in 1..Len(q) /\ Head(q) = q[1]
    <3>1. Len(q) # 0
      BY <1>3, EmptySeq
    <3> QED
      BY <1>1, <3>1
  <2>2. /\ Skipped(q) = IF q[1] = ConnHead THEN 1 ELSE 0
        /\ Last(q) = IF q[Len(q)] = Fin THEN Len(q) - 1 ELSE Len(q)
    BY <1>3, <2>1 DEF Skipped, Last, Ended
  <2>3. q[1] = ConnHead /\ q[Len(q)] = Fin => Len(q) # 1
    BY ItemKinds
  <2>4. /\ Skipped(q) \in {0, 1} /\ Last(q) \in Nat
        /\ Skipped(q) <= Last(q) /\ Last(q) <= Len(q)
    <3>1. CASE q[1] = ConnHead /\ q[Len(q)] = Fin
      <4>1. Len(q) >= 2 /\ Skipped(q) = 1 /\ Last(q) = Len(q) - 1
        <5>1. Len(q) # 1
          BY <2>3, <3>1
        <5>2. Skipped(q) = 1 /\ Last(q) = Len(q) - 1
          BY <2>2, <3>1
        <5>3. Len(q) \in Nat \ {0}
          BY <1>1, <2>1
        <5>4. \A n \in Nat \ {0} : n # 1 => n >= 2
          OBVIOUS
        <5> QED
          BY <5>1, <5>2, <5>3, <5>4
      <4> QED
        BY <1>1, <4>1
    <3>2. CASE ~(q[1] = ConnHead /\ q[Len(q)] = Fin)
      <4>1. /\ Skipped(q) \in {0, 1} /\ Last(q) \in {Len(q) - 1, Len(q)}
            /\ Skipped(q) = 0 \/ Last(q) = Len(q)
        BY <2>2, <3>2
      <4>2. Len(q) \in Nat /\ Len(q) >= 1
        BY <1>1, <2>1
      <4> QED
        BY <4>1, <4>2
    <3> QED
      BY <3>1, <3>2
  <2>5. ASSUME NEW i \in 1..Len(q) PROVE q[i].tag = "data" <=> Skipped(q) < i /\ i <= Last(q)
    <3>1. CASE q[i].tag = "data"
      <4>1. q[i] # ConnHead /\ q[i] # Fin
        BY <3>1, ItemKinds
      <4>2. i = 1 => Skipped(q) = 0
        BY <2>2, <4>1
      <4>3. i = Len(q) => Last(q) = Len(q)
        BY <2>2, <4>1
      <4> QED
        BY <1>1, <2>2, <3>1, <4>2, <4>3
    <3>2. CASE q[i] = ConnHead /\ i = 1
      BY <2>2, <3>2, ItemKinds
    <3>3. CASE q[i] = Fin /\ i = Len(q)
      BY <1>1, <2>2, <3>3, ItemKinds
    <3> QED
      BY <3>1, <3>2, <3>3 DEF Flow
  <2> DEFINE n == Last(q) - Skipped(q)
  <2>6. n \in Nat
    BY <2>4
  <2>7. ASSUME NEW k \in 1..n PROVE Piece(q[Skipped(q) + k]) \in Pieces
    <3>1. /\ Skipped(q) + k \in 1..Len(q) /\ Skipped(q) < Skipped(q) + k
          /\ Skipped(q) + k <= Last(q)
      BY <1>1, <2>4
    <3> QED
      BY <1>1, <2>5, <3>1, ItemKinds
  <2>8. Data(q) = [k \in 1..n |-> Piece(q[Skipped(q) + k])]
    BY DEF Data, Last
  <2>9. Data(q) \in Seq(Pieces) /\ Len(Data(q)) = n
    <3> HIDE DEF n
    <3> QED
      BY <2>6, <2>7, <2>8
  <2> QED
    BY <1>1, <2>4, <2>5, <2>8, <2>9
<1> QED
  BY <1>2, <1>3

\* Two sequences with the same cells.
LEMMA SameCells ==
    ASSUME NEW S, NEW p \in Seq(S), NEW q \in Seq(S), Len(p) = Len(q),
           \A i \in 1..Len(p) : p[i] = q[i]
    PROVE  p = q
<1>1. /\ p = [i \in 1..Len(p) |-> p[i]] /\ q = [i \in 1..Len(q) |-> q[i]]
  OBVIOUS
<1> QED
  BY <1>1

\* A channel without chunks.
LEMMA DataNone ==
    /\ Flow(<<>>) /\ Data(<<>>) = <<>> /\ ~Ended(<<>>)
    /\ Flow(<<ConnHead>>) /\ Data(<<ConnHead>>) = <<>>
<1>1. Flow(<<>>) /\ Data(<<>>) = <<>> /\ ~Ended(<<>>)
  BY DEF Flow, Data, Ended, Skipped
<1>2. Flow(<<ConnHead>>) /\ Skipped(<<ConnHead>>) = 1 /\ Last(<<ConnHead>>) = 1
  BY ItemKinds DEF Flow, Skipped, Last, Ended
<1>3. Data(<<ConnHead>>) = <<>>
  BY <1>2 DEF Data, Last
<1> QED
  BY <1>1, <1>2, <1>3

\* A channel whose cells are all chunks.
LEMMA DataWhole ==
    ASSUME NEW q \in Seq(Items), \A i \in 1..Len(q) : q[i].tag = "data"
    PROVE  Flow(q) /\ ~Ended(q)
<1>1. Flow(q)
  BY DEF Flow
<1>2. q # <<>> => Len(q) \in 1..Len(q)
  BY EmptySeq, LenProperties
<1> QED
  BY <1>1, <1>2, ItemKinds DEF Ended

\* A chunk is written behind what is there.
LEMMA DataAppend ==
    ASSUME NEW q \in Seq(Items), Flow(q), ~Ended(q), NEW x \in Items, x.tag = "data"
    PROVE  LET r == Append(q, x) IN
           /\ r \in Seq(Items) /\ Flow(r) /\ ~Ended(r) /\ Len(r) = Len(q) + 1
           /\ \A i \in 1..Len(r) : (i \in 1..Len(q) /\ r[i] = q[i]) \/ r[i] = x
           /\ Data(r) = Append(Data(q), Piece(x)) /\ Len(Data(r)) = Len(Data(q)) + 1
<1> DEFINE r == Append(q, x)
<1>1. /\ r \in Seq(Items) /\ Len(r) = Len(q) + 1 /\ Len(q) \in Nat
      /\ \A i \in 1..Len(q) : r[i] = q[i]
      /\ r[Len(q) + 1] = x /\ Len(q) + 1 \in 1..Len(r)
  BY AppendProperties, LenProperties
<1> HIDE DEF r
<1>2. \A i \in 1..Len(r) : i \in 1..Len(q) \/ i = Len(q) + 1
  BY <1>1
<1>3. \A i \in 1..Len(r) : (i \in 1..Len(q) /\ r[i] = q[i]) \/ r[i] = x
  BY <1>1, <1>2
<1>4. ~Ended(r)
  BY <1>1, ItemKinds DEF Ended
<1>5. Flow(r)
  <2>1. ASSUME NEW i \in 1..Len(q) PROVE q[i].tag = "data" \/ (q[i] = ConnHead /\ i = 1)
    <3>1. q # <<>> /\ (i = Len(q) => q[i] # Fin)
      BY <2>1, <1>1 DEF Ended
    <3> QED
      BY <3>1 DEF Flow
  <2> QED
    BY <1>1, <1>2, <2>1 DEF Flow
<1>6. Last(q) = Len(q) /\ Last(r) = Len(q) + 1
  BY <1>1, <1>4 DEF Last
<1>7. Skipped(r) = Skipped(q)
  <2>1. CASE q = <<>>
    <3>1. Len(q) = 0 /\ r[1] = x /\ r # <<>>
      BY <1>1, <2>1
    <3>2. Head(r) = r[1]
      BY <1>1, <3>1, HeadTailProperties
    <3> QED
      BY <2>1, <3>1, <3>2, ItemKinds DEF Skipped
  <2>2. CASE q # <<>>
    <3>1. Len(q) # 0 /\ 1 \in 1..Len(q) /\ r # <<>>
      BY <1>1, <2>2, EmptySeq
    <3>2. Head(r) = r[1] /\ Head(q) = q[1] /\ r[1] = q[1]
      BY <1>1, <2>2, <3>1, HeadTailProperties
    <3> QED
      BY <2>2, <3>1, <3>2 DEF Skipped
  <2> QED
    BY <2>1, <2>2
<1>8. /\ Skipped(q) \in {0, 1} /\ Skipped(q) <= Len(q)
      /\ Data(q) \in Seq(Pieces) /\ Len(Data(q)) = Len(q) - Skipped(q)
      /\ \A k \in 1..(Len(q) - Skipped(q)) : Data(q)[k] = Piece(q[Skipped(q) + k])
  BY <1>6, DataOf
<1>9. /\ Data(r) \in Seq(Pieces) /\ Len(Data(r)) = Len(q) + 1 - Skipped(q)
      /\ \A k \in 1..(Len(q) + 1 - Skipped(q)) : Data(r)[k] = Piece(r[Skipped(q) + k])
  <2>1. Last(r) - Skipped(r) = Len(q) + 1 - Skipped(q)
    BY <1>1, <1>6, <1>7, <1>8
  <2> QED
    BY <1>1, <1>5, <1>7, <2>1, DataOf
<1> DEFINE d == Append(Data(q), Piece(x))
<1>10. /\ d \in Seq(Pieces) /\ Len(d) = Len(q) - Skipped(q) + 1
       /\ \A k \in 1..(Len(q) - Skipped(q)) : d[k] = Data(q)[k]
       /\ d[Len(q) - Skipped(q) + 1] = Piece(x)
  BY <1>8, ItemKinds, AppendProperties
<1> HIDE DEF d
<1>11. ASSUME NEW k \in 1..(Len(q) + 1 - Skipped(q)) PROVE Data(r)[k] = d[k]
  <2>1. CASE k \in 1..(Len(q) - Skipped(q))
    <3>1. Skipped(q) + k \in 1..Len(q)
      BY <1>1, <1>8, <2>1
    <3> QED
      BY <1>1, <1>8, <1>9, <1>10, <1>11, <2>1, <3>1
  <2>2. CASE k = Len(q) - Skipped(q) + 1
    <3>1. Skipped(q) + k = Len(q) + 1
      BY <1>1, <1>8, <2>2
    <3> QED
      BY <1>1, <1>9, <1>10, <1>11, <2>2, <3>1
  <2> QED
    BY <1>1, <1>8, <2>1, <2>2
<1>12. Len(Data(r)) = Len(d) /\ Len(Data(r)) = Len(Data(q)) + 1
  BY <1>1, <1>8, <1>9, <1>10
<1>13. \A k \in 1..Len(Data(r)) : Data(r)[k] = d[k]
  BY <1>9, <1>11
<1>14. Data(r) = d
  BY <1>9, <1>10, <1>12, <1>13, SameCells
<1> QED
  BY <1>1, <1>3, <1>4, <1>5, <1>12, <1>14 DEF r, d

\* The cells of a channel after its oldest is taken.
LEMMA TailCells ==
    ASSUME NEW q \in Seq(Items), Flow(q), q # <<>>
    PROVE  /\ Tail(q) \in Seq(Items) /\ Head(q) = q[1] /\ q[1] \in Items
           /\ Len(q) \in Nat \ {0} /\ Len(Tail(q)) = Len(q) - 1
           /\ \A i \in 1..(Len(q) - 1) : Tail(q)[i] = q[i + 1] /\ i + 1 \in 1..Len(q)
           /\ \A i \in 1..(Len(q) - 1) : q[i + 1].tag = "data" \/ (q[i + 1] = Fin /\ i + 1 = Len(q))
           /\ Flow(Tail(q)) /\ Skipped(Tail(q)) = 0
           /\ Len(q) > 1 => (Ended(Tail(q)) <=> Ended(q)) /\ Last(Tail(q)) = Last(q) - 1
           /\ Len(q) = 1 => Tail(q) = <<>>
           /\ Ended(Tail(q)) => Ended(q)
<1>1. Len(q) \in Nat \ {0} /\ 1 \in 1..Len(q)
  BY EmptySeq, LenProperties
<1>2. Tail(q) \in Seq(Items) /\ Head(q) = q[1] /\ q[1] \in Items /\ Len(Tail(q)) = Len(q) - 1
  BY <1>1, HeadTailProperties, ElementOfSeq
<1>3. ASSUME NEW i \in 1..(Len(q) - 1)
      PROVE  /\ Tail(q)[i] = q[i + 1] /\ i + 1 \in 1..Len(q) /\ i + 1 # 1
             /\ q[i + 1].tag = "data" \/ (q[i + 1] = Fin /\ i + 1 = Len(q))
  <2>1. i + 1 \in 1..Len(q) /\ i + 1 # 1
    BY <1>1
  <2>2. Tail(q)[i] = q[i + 1]
    BY <1>2, HeadTailProperties
  <2> QED
    BY <2>1, <2>2 DEF Flow
<1>4. PICK t : t = Tail(q)
  OBVIOUS
<1>5. /\ t \in Seq(Items) /\ Len(t) = Len(q) - 1 /\ \A i \in 1..(Len(q) - 1) : t[i] = q[i + 1]
      /\ (t = <<>> <=> Len(q) = 1)
  <2>1. t \in Seq(Items) /\ Len(t) = Len(q) - 1
    BY <1>2, <1>4
  <2>2. t = <<>> <=> Len(t) = 0
    BY <2>1, EmptySeq
  <2>3. Len(t) = 0 <=> Len(q) = 1
    BY <1>1, <2>1
  <2> QED
    BY <1>3, <1>4, <2>1, <2>2, <2>3
<1>6. Flow(t)
  <2>1. \A i \in 1..Len(t) : i + 1 = Len(q) => i = Len(t)
    BY <1>1, <1>5
  <2> QED
    BY <1>3, <1>5, <2>1 DEF Flow
<1>7. Skipped(t) = 0
  <2>1. CASE t = <<>>
    BY <2>1 DEF Skipped
  <2>2. CASE t # <<>>
    <3>1. Len(q) - 1 \in Nat \ {0} /\ 1 \in 1..(Len(q) - 1)
      BY <1>1, <1>5, <2>2
    <3>2. Head(t) = t[1] /\ t[1] = q[1 + 1] /\ t[1] # ConnHead
      BY <1>3, <1>5, <2>2, <3>1, ItemKinds, HeadTailProperties
    <3> QED
      BY <3>2 DEF Skipped
  <2> QED
    BY <2>1, <2>2
<1>8. Len(q) > 1 => (Ended(t) <=> Ended(q)) /\ Last(t) = Last(q) - 1
  <2> SUFFICES ASSUME Len(q) > 1 PROVE (Ended(t) <=> Ended(q)) /\ Last(t) = Last(q) - 1
    OBVIOUS
  <2>1. Len(q) - 1 \in 1..(Len(q) - 1) /\ (Len(q) - 1) + 1 = Len(q) /\ t # <<>>
    BY <1>1, <1>5
  <2>2. t[Len(t)] = q[Len(q)]
    BY <1>5, <2>1
  <2>3. Ended(t) <=> Ended(q)
    BY <2>1, <2>2 DEF Ended
  <2>4. Last(t) = Last(q) - 1
    BY <1>1, <1>5, <2>3 DEF Last
  <2> QED
    BY <2>3, <2>4
<1>9. Ended(t) => Ended(q)
  <2>1. Ended(t) => Len(q) # 1
    BY <1>5 DEF Ended
  <2>2. \A n \in Nat \ {0} : n # 1 => n > 1
    OBVIOUS
  <2> QED
    BY <1>1, <1>8, <2>1, <2>2
<1> QED
  BY <1>1, <1>2, <1>3, <1>4, <1>5, <1>6, <1>7, <1>8, <1>9

\* The oldest item is a chunk.
LEMMA DataTail ==
    ASSUME NEW q \in Seq(Items), Flow(q), q # <<>>, Head(q).tag = "data"
    PROVE  /\ Data(q) # <<>> /\ Head(Data(q)) = Piece(Head(q)) /\ Data(Tail(q)) = Tail(Data(q))
           /\ Data(q) = Single(Piece(Head(q))) \o Data(Tail(q))
           /\ Len(Data(q)) = Len(Data(Tail(q))) + 1
           /\ Data(Tail(q)) \in Seq(Pieces) /\ Data(q) \in Seq(Pieces)
<1>1. Head(q) = q[1] /\ Len(q) \in Nat \ {0} /\ 1 \in 1..Len(q) /\ q[1] \in Items
  BY TailCells
<1>2. q[1] # ConnHead /\ q[1] # Fin /\ Piece(q[1]) \in Pieces
  BY <1>1, ItemKinds
<1>3. Skipped(q) = 0 /\ Last(q) >= 1 /\ Last(q) \in Nat /\ Last(q) <= Len(q)
  <2>1. Skipped(q) = 0
    BY <1>1, <1>2 DEF Skipped
  <2> QED
    BY <1>1, <2>1, DataOf
<1>4. /\ Data(q) \in Seq(Pieces) /\ Len(Data(q)) = Last(q)
      /\ \A k \in 1..Last(q) : Data(q)[k] = Piece(q[k])
  <2>1. Last(q) - Skipped(q) = Last(q) /\ \A k \in 1..Last(q) : Skipped(q) + k = k
    BY <1>3
  <2> QED
    BY <2>1, DataOf
<1>5. PICK t : t = Tail(q)
  OBVIOUS
<1>6. t \in Seq(Items) /\ Flow(t) /\ Skipped(t) = 0 /\ Len(t) = Len(q) - 1
  BY <1>5, TailCells
<1>7. Last(t) = Last(q) - 1
  <2>1. CASE Len(q) = 1
    <3>1. t = <<>> /\ Len(t) = 0 /\ Last(q) = 1
      BY <1>1, <1>2, <1>3, <1>5, <2>1, TailCells
    <3>2. Last(t) = 0
      BY <3>1 DEF Last, Ended
    <3> QED
      BY <3>1, <3>2
  <2>2. CASE Len(q) > 1
    BY <1>5, <2>2, TailCells
  <2>3. \A n \in Nat \ {0} : n = 1 \/ n > 1
    OBVIOUS
  <2> QED
    BY <1>1, <2>1, <2>2, <2>3
<1>8. /\ Data(t) \in Seq(Pieces) /\ Len(Data(t)) = Last(q) - 1
      /\ \A k \in 1..(Last(q) - 1) : Data(t)[k] = Piece(t[k])
  <2>1. Last(t) - Skipped(t) = Last(q) - 1 /\ \A k \in 1..(Last(q) - 1) : Skipped(t) + k = k
    BY <1>3, <1>6, <1>7
  <2> QED
    BY <1>6, <2>1, DataOf
<1>9. \A k \in 1..(Last(q) - 1) : t[k] = q[k + 1] /\ k + 1 \in 1..Last(q)
  <2>1. \A k \in 1..(Last(q) - 1) : k \in 1..(Len(q) - 1) /\ k + 1 \in 1..Last(q)
    BY <1>1, <1>3
  <2> QED
    BY <1>5, <2>1, TailCells
<1>10. PICK d : d = Data(q)
  OBVIOUS
<1>11. PICK e : e = Data(t)
  OBVIOUS
<1>12. /\ d \in Seq(Pieces) /\ Len(d) = Last(q) /\ d # <<>> /\ d[1] = Piece(q[1])
       /\ \A k \in 1..(Last(q) - 1) : d[k + 1] = e[k]
  <2>1. d \in Seq(Pieces) /\ Len(d) = Last(q) /\ \A k \in 1..Last(q) : d[k] = Piece(q[k])
    BY <1>4, <1>10
  <2>2. d # <<>> /\ 1 \in 1..Last(q)
    BY <1>3, <2>1, EmptySeq
  <2> QED
    BY <1>8, <1>9, <1>11, <2>1, <2>2
<1>13. e \in Seq(Pieces) /\ Len(e) = Last(q) - 1
  BY <1>8, <1>11
<1>14. Head(d) = Piece(q[1]) /\ Tail(d) = e
  <2>1. /\ Head(d) = d[1] /\ Tail(d) \in Seq(Pieces) /\ Len(Tail(d)) = Last(q) - 1
        /\ \A k \in 1..(Last(q) - 1) : Tail(d)[k] = d[k + 1]
    BY <1>12, HeadTailProperties
  <2>2. \A k \in 1..Len(e) : Tail(d)[k] = e[k]
    BY <1>12, <1>13, <2>1
  <2> QED
    BY <1>12, <1>13, <2>1, <2>2, SameCells
<1>15. d = <<Piece(q[1])>> \o e
  <2>1. <<Piece(q[1])>> \in Seq(Pieces) /\ Len(<<Piece(q[1])>>) = 1 /\ <<Piece(q[1])>>[1] = Piece(q[1])
    BY <1>2
  <2>2. PICK f : f = <<Piece(q[1])>> \o e
    OBVIOUS
  <2>3. /\ f \in Seq(Pieces) /\ Len(f) = Last(q)
        /\ \A i \in 1..Last(q) : f[i] = IF i <= 1 THEN <<Piece(q[1])>>[i] ELSE e[i - 1]
    <3>1. /\ f \in Seq(Pieces) /\ Len(f) = 1 + Len(e)
          /\ \A i \in 1..(1 + Len(e)) : f[i] = IF i <= 1 THEN <<Piece(q[1])>>[i] ELSE e[i - 1]
      <4> HIDE DEF Piece
      <4> QED
        BY <1>13, <2>1, <2>2, ConcatProperties
    <3>2. 1 + Len(e) = Last(q)
      BY <1>3, <1>13
    <3> QED
      BY <3>1, <3>2
  <2>4. ASSUME NEW i \in 1..Last(q) PROVE d[i] = f[i]
    <3>1. CASE i = 1
      BY <1>12, <2>1, <2>3, <3>1
    <3>2. CASE i # 1
      <4>1. i - 1 \in 1..(Last(q) - 1) /\ (i - 1) + 1 = i /\ ~(i <= 1)
        BY <1>3, <3>2
      <4> QED
        BY <1>12, <2>3, <4>1
    <3> QED
      BY <3>1, <3>2
  <2> QED
    BY <1>12, <2>2, <2>3, <2>4, SameCells
<1>16. Len(d) = Len(e) + 1
  BY <1>3, <1>12, <1>13
<1> QED
  BY <1>1, <1>5, <1>10, <1>11, <1>12, <1>13, <1>14, <1>15, <1>16 DEF Single

\* The oldest item is the CONN header.
LEMMA DataSkip ==
    ASSUME NEW q \in Seq(Items), Flow(q), q # <<>>, Head(q) = ConnHead
    PROVE  Data(Tail(q)) = Data(q)
<1>1. Head(q) = q[1] /\ Len(q) \in Nat \ {0} /\ 1 \in 1..Len(q)
  BY TailCells
<1>2. Skipped(q) = 1 /\ Last(q) >= 1 /\ Last(q) \in Nat /\ Last(q) <= Len(q)
  <2>1. Skipped(q) = 1
    BY <1>1 DEF Skipped
  <2> QED
    BY <1>1, <2>1, DataOf
<1>3. /\ Data(q) \in Seq(Pieces) /\ Len(Data(q)) = Last(q) - 1
      /\ \A k \in 1..(Last(q) - 1) : Data(q)[k] = Piece(q[1 + k])
  BY <1>2, DataOf
<1>4. PICK t : t = Tail(q)
  OBVIOUS
<1>5. t \in Seq(Items) /\ Flow(t) /\ Skipped(t) = 0 /\ Len(t) = Len(q) - 1
  BY <1>4, TailCells
<1>6. Last(t) = Last(q) - 1
  <2>1. CASE Len(q) = 1
    <3>1. t = <<>> /\ Len(t) = 0 /\ Last(q) = 1
      BY <1>1, <1>2, <1>4, <2>1, TailCells
    <3>2. Last(t) = 0
      BY <3>1 DEF Last, Ended
    <3> QED
      BY <3>1, <3>2
  <2>2. CASE Len(q) > 1
    BY <1>4, <2>2, TailCells
  <2>3. \A n \in Nat \ {0} : n = 1 \/ n > 1
    OBVIOUS
  <2> QED
    BY <1>1, <2>1, <2>2, <2>3
<1>7. /\ Data(t) \in Seq(Pieces) /\ Len(Data(t)) = Last(q) - 1
      /\ \A k \in 1..(Last(q) - 1) : Data(t)[k] = Piece(t[k])
  <2>1. Last(t) - Skipped(t) = Last(q) - 1 /\ \A k \in 1..(Last(q) - 1) : Skipped(t) + k = k
    BY <1>2, <1>5, <1>6
  <2> QED
    BY <1>5, <2>1, DataOf
<1>8. \A k \in 1..(Last(q) - 1) : t[k] = q[1 + k]
  <2>1. \A k \in 1..(Last(q) - 1) : k \in 1..(Len(q) - 1) /\ 1 + k = k + 1
    BY <1>1, <1>2
  <2> QED
    BY <1>4, <2>1, TailCells
<1>9. \A k \in 1..Len(Data(t)) : Data(t)[k] = Data(q)[k]
  BY <1>3, <1>7, <1>8
<1>10. Len(Data(t)) = Len(Data(q))
  BY <1>3, <1>7
<1> QED
  BY <1>3, <1>4, <1>7, <1>9, <1>10, SameCells

\* A channel whose sender closes: what is left of it, and the end.
LEMMA DataCut ==
    ASSUME NEW q \in Seq(Items), Flow(q), ~Ended(q), NEW n \in Nat, n <= Len(q)
    PROVE  LET r == Append(SubSeq(q, 1, n), Fin) IN
           /\ r \in Seq(Items) /\ Flow(r) /\ Ended(r) /\ r # <<>>
           /\ \A i \in 1..Len(r) : (i \in 1..Len(q) /\ r[i] = q[i]) \/ r[i] = Fin
           /\ TunnelRelay!IsPrefix(Data(r), Data(q))
<1>1. PICK r : r = Append(SubSeq(q, 1, n), Fin)
  OBVIOUS
<1>2. /\ Len(r) = n + 1 /\ r[n + 1] = Fin
      /\ \A i \in 1..Len(r) : (i \in 1..n /\ i \in 1..Len(q) /\ r[i] = q[i]) \/ r[i] = Fin
  BY <1>1, CutCells
<1>3. Len(q) \in Nat /\ \A i \in 1..Len(q) : q[i] \in Items
  BY DataOf
<1>4. r \in Seq(Items)
  <2>1. \A i \in 1..n : q[i] \in Items
    BY <1>3
  <2>2. SubSeq(q, 1, n) \in Seq(Items)
    BY <1>3, <2>1, SubSeqProperties
  <2> QED
    BY <1>1, <2>2, ItemTypes
<1>5. r # <<>> /\ Ended(r) /\ n + 1 \in 1..Len(r)
  <2>1. Len(r) # 0 /\ n + 1 \in 1..Len(r)
    BY <1>2
  <2>2. r # <<>>
    BY <1>4, <2>1, EmptySeq
  <2> QED
    BY <1>2, <2>1, <2>2 DEF Ended
<1>6. \A i \in 1..n : i \in 1..Len(q) /\ r[i] = q[i]
  <2>1. \A i \in 1..n : i \in 1..Len(r) /\ i \in 1..Len(q) /\ i # n + 1 /\ SubSeq(q, 1, n)[i] = q[i]
    <3>1. \A i \in 1..n : i \in 1..Len(r) /\ i \in 1..Len(q) /\ i # n + 1
      BY <1>2, <1>3
    <3>2. \A i \in 1..n : SubSeq(q, 1, n)[i] = q[i]
      <4>1. \A i \in 1..n : q[i] \in Items /\ i = 1 + i - 1
        BY <1>3
      <4>2. \A i \in 1..(n - 1 + 1) : SubSeq(q, 1, n)[i] = q[1 + i - 1]
        BY <1>3, <4>1, SubSeqProperties
      <4> QED
        BY <4>1, <4>2
    <3> QED
      BY <3>1, <3>2
  <2>2. SubSeq(q, 1, n) \in Seq(Items) /\ Len(SubSeq(q, 1, n)) = n
    <3>1. \A i \in 1..n : q[i] \in Items
      BY <1>3
    <3> QED
      BY <1>3, <3>1, SubSeqProperties
  <2>3. \A i \in 1..n : r[i] = SubSeq(q, 1, n)[i]
    BY <1>1, <2>2, ItemTypes, AppendProperties
  <2> QED
    BY <2>1, <2>3
<1>7. \A i \in 1..Len(q) : q[i].tag = "data" \/ (q[i] = ConnHead /\ i = 1)
  <2>1. ASSUME NEW i \in 1..Len(q) PROVE q[i].tag = "data" \/ (q[i] = ConnHead /\ i = 1)
    <3>1. q # <<>> /\ (i = Len(q) => q[i] # Fin)
      BY <2>1, <1>3 DEF Ended
    <3> QED
      BY <3>1 DEF Flow
  <2> QED
    BY <2>1
<1>8. Flow(r)
  <2>1. \A i \in 1..Len(r) : i \in 1..n \/ i = n + 1
    BY <1>2
  <2> QED
    BY <1>2, <1>6, <1>7, <2>1 DEF Flow
<1>9. Last(r) = n /\ Last(q) = Len(q)
  BY <1>2, <1>5 DEF Last
<1>10. n > 0 => Skipped(r) = Skipped(q)
  <2> SUFFICES ASSUME n > 0 PROVE Skipped(r) = Skipped(q)
    OBVIOUS
  <2>1. 1 \in 1..n /\ q # <<>>
    <3>1. Len(q) # 0
      BY <1>3
    <3> QED
      BY <3>1, EmptySeq
  <2>2. Head(r) = r[1] /\ Head(q) = q[1] /\ r[1] = q[1]
    BY <1>4, <1>5, <1>6, <2>1, HeadTailProperties
  <2> QED
    BY <1>5, <2>1, <2>2 DEF Skipped
<1>11. /\ Data(q) \in Seq(Pieces) /\ Len(Data(q)) = Len(q) - Skipped(q)
       /\ \A k \in 1..(Len(q) - Skipped(q)) : Data(q)[k] = Piece(q[Skipped(q) + k])
       /\ Skipped(q) \in {0, 1} /\ Skipped(q) <= Len(q)
  BY <1>9, DataOf
<1>12. /\ Data(r) \in Seq(Pieces) /\ Len(Data(r)) = n - Skipped(r)
       /\ \A k \in 1..(n - Skipped(r)) : Data(r)[k] = Piece(r[Skipped(r) + k])
       /\ Skipped(r) \in {0, 1} /\ Skipped(r) <= n
  BY <1>4, <1>8, <1>9, DataOf
<1>13. TunnelRelay!IsPrefix(Data(r), Data(q))
  <2>1. CASE n = 0
    <3>1. Len(Data(r)) = 0 /\ 0 <= Len(Data(q))
      BY <1>3, <1>11, <1>12, <2>1
    <3> QED
      BY <3>1 DEF TunnelRelay!IsPrefix
  <2>2. CASE n > 0
    <3>1. Skipped(r) = Skipped(q)
      BY <1>10, <2>2
    <3>2. Len(Data(r)) <= Len(Data(q))
      BY <1>3, <1>11, <1>12, <3>1
    <3>3. ASSUME NEW k \in 1..(n - Skipped(q)) PROVE Data(r)[k] = Data(q)[k]
      <4>1. k \in 1..(Len(q) - Skipped(q)) /\ Skipped(q) + k \in 1..n
        BY <1>3, <1>11
      <4> QED
        BY <1>6, <1>11, <1>12, <3>1, <4>1
    <3> QED
      BY <1>12, <3>1, <3>2, <3>3 DEF TunnelRelay!IsPrefix
  <2> QED
    BY <2>1, <2>2
<1> QED
  BY <1>1, <1>2, <1>4, <1>5, <1>8, <1>13

\* Prefixes of what lies on two legs, one behind the other.
LEMMA Prefixes ==
    ASSUME NEW p \in Seq(Pieces), NEW q \in Seq(Pieces), NEW r \in Seq(Pieces),
           TunnelRelay!IsPrefix(r, q)
    PROVE  TunnelRelay!IsPrefix(r, q \o p) /\ TunnelRelay!IsPrefix(p \o r, p \o q)
<1>1. Len(r) <= Len(q) /\ \A i \in 1..Len(r) : r[i] = q[i]
  BY DEF TunnelRelay!IsPrefix
<1>2. Len(p) \in Nat /\ Len(q) \in Nat /\ Len(r) \in Nat
  BY LenProperties
<1>3. /\ Len(q \o p) = Len(q) + Len(p)
      /\ \A i \in 1..(Len(q) + Len(p)) : (q \o p)[i] = IF i <= Len(q) THEN q[i] ELSE p[i - Len(q)]
  BY ConcatProperties
<1>4. /\ Len(p \o q) = Len(p) + Len(q)
      /\ \A i \in 1..(Len(p) + Len(q)) : (p \o q)[i] = IF i <= Len(p) THEN p[i] ELSE q[i - Len(p)]
  BY ConcatProperties
<1>5. /\ Len(p \o r) = Len(p) + Len(r)
      /\ \A i \in 1..(Len(p) + Len(r)) : (p \o r)[i] = IF i <= Len(p) THEN p[i] ELSE r[i - Len(p)]
  BY ConcatProperties
<1>6. TunnelRelay!IsPrefix(r, q \o p)
  <2>1. \A i \in 1..Len(r) : i \in 1..(Len(q) + Len(p)) /\ i <= Len(q)
    BY <1>1, <1>2
  <2>2. Len(r) <= Len(q) + Len(p)
    BY <1>1, <1>2
  <2> QED
    BY <1>1, <1>3, <2>1, <2>2 DEF TunnelRelay!IsPrefix
<1>7. TunnelRelay!IsPrefix(p \o r, p \o q)
  <2>1. Len(p) + Len(r) <= Len(p) + Len(q)
    BY <1>1, <1>2
  <2>2. ASSUME NEW i \in 1..(Len(p) + Len(r)) PROVE (p \o r)[i] = (p \o q)[i]
    <3>1. i \in 1..(Len(p) + Len(q)) /\ (~(i <= Len(p)) => i - Len(p) \in 1..Len(r))
      BY <1>1, <1>2
    <3> QED
      BY <1>1, <1>4, <1>5, <3>1
  <2> QED
    BY <1>4, <1>5, <2>1, <2>2 DEF TunnelRelay!IsPrefix
<1> QED
  BY <1>6, <1>7

\* Nothing is a prefix of everything.
LEMMA PrefixNone == \A q \in Seq(Pieces) : TunnelRelay!IsPrefix(<<>>, q)
  BY LenProperties DEF TunnelRelay!IsPrefix

-----------------------------------------------------------------------------
(* What the steps do to the channels and to Relay's view of them.          *)

\* The two legs of a connection.
LEMMA FarFacts ==
    /\ \A l \in Leg : /\ Far(l) \in Leg /\ Far(l) # l /\ Far(Far(l)) = l /\ Far(l)[2] = l[2]
                      /\ l = <<l[1], l[2]>> /\ l[1] \in Side /\ l[2] \in Conns
                      /\ Far(l) = <<Other(l[1]), l[2]>>
    /\ \A s \in Side, c \in Conns : Far(<<s, c>>) = <<Other(s), c>> /\ Other(s) \in Side
    /\ \A l, k \in Leg : k[2] = l[2] => k = l \/ k = Far(l)
  BY DEF Far, Leg, Other, Side

\* The channels are sequences of items, and what is known of one leg.
LEMMA FlowFacts ==
    ASSUME Inv, FlowInv, NEW l \in Leg
    PROVE  /\ up[l] \in Seq(Items) /\ dn[l] \in Seq(Items) /\ got[l] \in Seq(Items)
           /\ sent[l] \in 0..MaxData /\ FlowOf(l) /\ Complete(l)
           /\ Flow(got[l]) /\ ~Ended(got[l])
           /\ Data(up[l]) \in Seq(Pieces) /\ Data(dn[l]) \in Seq(Pieces)
           /\ Data(got[l]) \in Seq(Pieces) /\ Wire(l) \in Seq(Pieces)
<1>1. \A k \in Leg : up[k] \in Seq(Items) /\ dn[k] \in Seq(Items) /\ got[k] \in Seq(Items)
  BY DEF Inv, PortInv, TypeOK
<1>2. \A k \in Leg : FlowOf(k) /\ Complete(k)
  BY DEF FlowInv
<1>3. \A k \in Leg : Flow(got[k]) /\ ~Ended(got[k])
  BY <1>1, <1>2, DataWhole DEF FlowOf
<1>4. \A k \in Leg : Flow(up[k]) /\ Flow(dn[k])
  BY <1>2 DEF FlowOf
<1>5. \A k \in Leg : /\ Data(up[k]) \in Seq(Pieces) /\ Data(dn[k]) \in Seq(Pieces)
                     /\ Data(got[k]) \in Seq(Pieces)
  BY <1>1, <1>3, <1>4, DataOf
<1>6. Wire(l) \in Seq(Pieces)
  <2>1. Data(dn[Far(l)]) \in Seq(Pieces) /\ Data(up[l]) \in Seq(Pieces)
    BY <1>5, FarFacts
  <2>2. Data(dn[Far(l)]) \o Data(up[l]) \in Seq(Pieces) /\ <<>> \in Seq(Pieces)
    BY <2>1, ConcatProperties
  <2> QED
    BY <2>2 DEF Wire
<1> QED
  BY <1>1, <1>2, <1>3, <1>5, <1>6 DEF Inv, PortInv, TypeOK

\* Relay's variables.
LEMMA RelayView ==
    /\ relayPhase = [c \in Conns |-> Phase(c)] /\ relayPhase' = [c \in Conns |-> Phase(c)']
    /\ relayWire = [l \in Leg |-> Wire(l)] /\ relayWire' = [l \in Leg |-> Wire(l)']
    /\ relayGot = [l \in Leg |-> Data(got[Far(l)])] /\ relayGot' = [l \in Leg |-> Data(got'[Far(l)])]
    /\ TunnelRelay!Dir = Leg
  BY DEF relayPhase, relayWire, relayGot, Phase, Wire, Joined, TunnelRelay!Dir, Leg

\* A step in which connections break and what is in flight is cut short.
LEMMA BreakStep ==
    ASSUME sent' = sent, got' = got,
           \A c \in Conns : Phase(c)' \in {Phase(c), "broken"},
           \A l \in Leg : \/ Wire(l)' = Wire(l)
                          \/ Phase(l[2])' = "broken" /\ TunnelRelay!IsPrefix(Wire(l)', Wire(l))
    PROVE  TunnelRelay!Next
<1>1. \A l \in Leg : l[2] \in Conns
  BY FarFacts
<1>2. \A c \in Conns : relayPhase'[c] \in {relayPhase[c], "broken"}
  BY RelayView
<1>3. \A l \in Leg : relayWire'[l] = Wire(l)' /\ relayWire[l] = Wire(l) /\ relayPhase'[l[2]] = Phase(l[2])'
  BY <1>1, RelayView
<1>4. relayGot' = relayGot
  BY RelayView
<1>5. TunnelRelay!Break
  BY <1>2, <1>3, <1>4, RelayView DEF TunnelRelay!Break
<1> QED
  BY <1>5 DEF TunnelRelay!Next

\* A step that leaves connections as they are, and in flight what is in flight.
LEMMA QuietRelay ==
    ASSUME sent' = sent, got' = got,
           \A l \in Leg : cl'[l] = "closed" <=> cl[l] = "closed",
           \A c \in Conns : srv'[c] = "freed" <=> srv[c] = "freed",
           \A c \in Conns : Joined(c)' <=> Joined(c),
           \A l \in Leg : Data(up[l])' = Data(up[l]) /\ Data(dn[l])' = Data(dn[l])
    PROVE  TunnelRelay!Next
<1>1. \A c \in Conns : Phase(c)' = Phase(c)
  BY LegPairs DEF Phase
<1>2. \A l \in Leg : Wire(l)' = Wire(l)
  <2>1. ASSUME NEW l \in Leg PROVE Wire(l)' = Wire(l)
    <3>1. Far(l) \in Leg /\ Far(l)' = Far(l)
      BY FarFacts DEF Far
    <3>2. PICK k \in Leg : k = Far(l)
      BY <3>1
    <3>3. /\ Wire(l) = IF cl[k] = "closed" THEN <<>> ELSE Data(dn[k]) \o Data(up[l])
          /\ Wire(l)' = IF cl'[k] = "closed" THEN <<>> ELSE Data(dn[k])' \o Data(up[l])'
      BY <3>1, <3>2 DEF Wire
    <3> QED
      BY <3>2, <3>3
  <2> QED
    BY <2>1
<1> QED
  BY <1>1, <1>2, BreakStep

\* A step that writes a CONN header, or takes it off, keeps the channels.
LEMMA QuietFlow ==
    ASSUME Inv, FlowInv, UNCHANGED <<dn, sent, got>>,
           \A l \in Leg : cl'[l] = "closed" <=> cl[l] = "closed",
           \A l \in Leg : cl'[l] = "idle" => cl[l] = "idle" /\ (place[l] = "none" => place'[l] = "none"),
           \A l \in Leg : place'[l] = "closed" <=> place[l] = "closed",
           \A c \in Conns : Ready(c) => Ready(c)',
           \A l \in Leg : \/ up'[l] = up[l]
                          \/ up[l] = <<>> /\ up'[l] = <<ConnHead>> /\ cl'[l] # "idle"
                          \/ up[l] # <<>> /\ Head(up[l]) = ConnHead /\ up'[l] = Tail(up[l])
    PROVE  FlowInv' /\ \A l \in Leg : Data(up[l])' = Data(up[l]) /\ Data(dn[l])' = Data(dn[l])
<1>1. ASSUME NEW l \in Leg
      PROVE  Flow(up'[l]) /\ Data(up'[l]) = Data(up[l]) /\ (cl'[l] = "idle" => up'[l] = <<>>)
  <2>1. up[l] \in Seq(Items) /\ Flow(up[l]) /\ (cl[l] = "idle" => up[l] = <<>>)
    BY FlowFacts DEF FlowOf
  <2>2. CASE up'[l] = up[l]
    BY <2>1, <2>2
  <2>3. CASE up[l] = <<>> /\ up'[l] = <<ConnHead>> /\ cl'[l] # "idle"
    BY <2>1, <2>3, DataNone
  <2>4. CASE up[l] # <<>> /\ Head(up[l]) = ConnHead /\ up'[l] = Tail(up[l])
    BY <2>1, <2>4, DataSkip, TailCells
  <2> QED
    BY <2>2, <2>3, <2>4
<1>2. ASSUME NEW l \in Leg PROVE FlowOf(l)'
  <2>1. FlowOf(l) /\ l[2] \in Conns
    BY FlowFacts, FarFacts
  <2> QED
    BY <1>1, <2>1 DEF FlowOf
<1>3. ASSUME NEW l \in Leg PROVE Complete(l)'
  <2>1. Complete(l) /\ Far(l) \in Leg /\ Far(l)' = Far(l)
    BY FlowFacts, FarFacts DEF Far
  <2> QED
    BY <1>1, <2>1 DEF Complete
<1> QED
  BY <1>1, <1>2, <1>3 DEF FlowInv

\* What is known of a leg in the slot of a trans, and of a started client.
LEMMA SlotFacts ==
    ASSUME Inv, LegInv, NEW l \in Leg
    PROVE  /\ bev[l] \in {l[2], None} /\ l[2] # None
           /\ bev[l] = l[2] => place[l] = "worker" /\ srv[l[2]] = "listed"
           /\ cl[l] = "active" => Ready(l[2])
           /\ Joined(l[2]) => bev[l] = l[2] /\ place[l] = "worker"
           /\ bev[l] # l[2] => ~Joined(l[2])
<1>1. PICK s \in Side, c \in Conns : l = <<s, c>>
  BY LegPairs
<1>2. LegWay(s, c) /\ c # None /\ l[2] = c
  BY <1>1, LegFacts, LegPairs, NoneAssumption DEF WayOf
<1>3. Joined(c) => bev[<<s, c>>] = c
  BY DEF Joined
<1> QED
  BY <1>1, <1>2, <1>3 DEF LegWay

\* A chunk of a tunnel's peer is on its way, or lost in a broken tunnel.
LEMMA SendFlow ==
    ASSUME Inv, LegInv, FlowInv, NEW l \in Leg, ClientSend(l)
    PROVE  FlowInv' /\ TunnelRelay!Next
<1>1. /\ cl[l] = "active" /\ sent[l] < MaxData /\ sent' = [sent EXCEPT ![l] = @ + 1]
      /\ UNCHANGED <<cl, srv, bev, place, dn, got>>
  BY DEF ClientSend
<1>2. PICK c : c = l[2]
  OBVIOUS
<1>3. PICK k \in Leg : k = Far(l)
  BY FarFacts
<1>4. c \in Conns /\ Ready(c) /\ k # l /\ Far(k) = l /\ k[2] = c /\ l = <<l[1], c>>
  BY <1>1, <1>2, <1>3, SlotFacts, FarFacts
<1>5. PICK x : x = Chunk(l, sent[l] + 1)
  OBVIOUS
<1>6. /\ x \in Items /\ x.tag = "data" /\ Piece(x) = TunnelRelay!Chunk(l, sent[l] + 1)
      /\ Piece(x) \in Pieces
  <2>1. sent[l] \in 0..MaxData /\ MaxData \in Nat
    BY BoundsAssumption, FlowFacts
  <2>2. sent[l] + 1 \in 1..MaxData
    BY <1>1, <2>1
  <2>3. x \in Items /\ x.tag = "data" /\ x.from = l /\ x.n = sent[l] + 1
    BY <1>5, <2>2 DEF Items, Chunk
  <2> QED
    BY <2>3, ItemKinds DEF Piece, TunnelRelay!Chunk
<1>7. Phase(c) # "idle" /\ (place[l] = "closed" \/ cl[k] = "closed" => Phase(c) = "broken")
  <2>1. srv[c] = "freed" \/ Joined(c)
    BY <1>4 DEF Ready
  <2>2. place[l] = "closed" => ~Joined(c)
    BY <1>2, SlotFacts
  <2>3. cl[k] = "closed" => \E s \in Side : cl[<<s, c>>] = "closed"
    BY <1>3, <1>4, FarFacts
  <2> QED
    BY <2>1, <2>2, <2>3 DEF Phase
<1>8. \A b \in Conns : Phase(b)' = Phase(b) /\ (Ready(b)' <=> Ready(b))
  BY <1>1 DEF Phase, Joined, Ready
<1>9. relayPhase' = relayPhase /\ relayGot' = relayGot
  BY <1>1, <1>8, RelayView
<1>10. up \in [Leg -> Seq(Items)] /\ sent \in [Leg -> 0..MaxData]
  BY DEF Inv, PortInv, TypeOK
<1>11. CASE place[l] = "closed"
  <2>1. up' = up
    BY <1>11 DEF ClientSend
  <2>2. \A j \in Leg : FlowOf(j)'
    <3>1. ASSUME NEW j \in Leg PROVE FlowOf(j)'
      <4>1. FlowOf(j) /\ j[2] \in Conns
        BY FlowFacts, FarFacts
      <4> QED
        BY <1>1, <1>8, <2>1, <4>1 DEF FlowOf
    <3> QED
      BY <3>1
  <2>3. \A j \in Leg : Complete(j)'
    <3>1. ASSUME NEW j \in Leg PROVE Complete(j)'
      <4>1. Complete(j) /\ (j # l => sent'[j] = sent[j])
        BY <1>1, <1>10, FlowFacts
      <4> QED
        BY <1>1, <1>11, <2>1, <4>1 DEF Complete, Far
    <3> QED
      BY <3>1
  <2>4. relayWire' = relayWire
    BY <1>1, <2>1 DEF relayWire, Far
  <2>5. TunnelRelay!SendLost(l)
    BY <1>1, <1>2, <1>4, <1>7, <1>9, <1>11, <2>4, RelayView DEF TunnelRelay!SendLost
  <2> QED
    BY <2>2, <2>3, <2>5, RelayView DEF FlowInv, TunnelRelay!Next
<1>12. CASE place[l] # "closed"
  <2>1. up' = [up EXCEPT ![l] = Append(@, x)]
    BY <1>5, <1>12 DEF ClientSend
  <2>2. up'[l] = Append(up[l], x) /\ \A j \in Leg : j # l => up'[j] = up[j]
    BY <1>10, <2>1
  <2>3. up[l] \in Seq(Items) /\ Flow(up[l]) /\ ~Ended(up[l])
    <3>1. up[l] \in Seq(Items) /\ Flow(up[l])
      BY FlowFacts DEF FlowOf
    <3>2. up[l] # <<>> => Len(up[l]) \in 1..Len(up[l])
      BY <3>1, EmptySeq, LenProperties
    <3> QED
      BY <1>1, <3>1, <3>2, LegFacts DEF UpLegs, Ended
  <2>4. /\ Flow(up'[l]) /\ Data(up'[l]) = Append(Data(up[l]), Piece(x))
        /\ Len(Data(up'[l])) = Len(Data(up[l])) + 1
    BY <1>6, <2>2, <2>3, DataAppend
  <2>5. sent'[l] = sent[l] + 1 /\ \A j \in Leg : j # l => sent'[j] = sent[j]
    BY <1>1, <1>10
  <2>6. \A j \in Leg : FlowOf(j)'
    <3>1. ASSUME NEW j \in Leg PROVE FlowOf(j)'
      <4>1. FlowOf(j) /\ j[2] \in Conns
        BY FlowFacts, FarFacts
      <4> QED
        BY <1>1, <1>8, <2>2, <2>4, <4>1 DEF FlowOf
    <3> QED
      BY <3>1
  <2>7. \A j \in Leg : Complete(j)'
    <3>1. ASSUME NEW j \in Leg PROVE Complete(j)'
      <4>1. Complete(j) /\ Far(j)' = Far(j)
        BY FlowFacts DEF Far
      <4>2. CASE j # l
        BY <1>1, <2>2, <2>5, <4>1, <4>2 DEF Complete
      <4>3. CASE j = l
        <5>1. /\ Len(Data(got[Far(l)])) \in Nat /\ Len(Data(dn[Far(l)])) \in Nat
              /\ Len(Data(up[l])) \in Nat
          BY FlowFacts, FarFacts, LenProperties
        <5> QED
          BY <1>1, <2>4, <2>5, <4>1, <4>3, <5>1 DEF Complete
      <4> QED
        BY <4>2, <4>3
    <3> QED
      BY <3>1
  <2>8. CASE cl[k] = "closed"
    <3>1. \A j \in Leg : Wire(j)' = Wire(j)
      <4>1. ASSUME NEW j \in Leg PROVE Wire(j)' = Wire(j)
        <5>1. CASE j = l
          BY <1>1, <1>3, <2>8, <5>1 DEF Wire, Far
        <5>2. CASE j # l
          BY <1>1, <2>2, <5>2 DEF Wire, Far
        <5> QED
          BY <5>1, <5>2
      <4> QED
        BY <4>1
    <3>2. relayWire' = relayWire
      BY <3>1, RelayView
    <3>3. TunnelRelay!SendLost(l)
      BY <1>1, <1>2, <1>4, <1>7, <1>9, <2>8, <3>2, RelayView DEF TunnelRelay!SendLost
    <3> QED
      BY <2>6, <2>7, <3>3, RelayView DEF FlowInv, TunnelRelay!Next
  <2>9. CASE cl[k] # "closed"
    <3>1. Wire(l) = Data(dn[k]) \o Data(up[l]) /\ Wire(l)' = Data(dn[k]) \o Append(Data(up[l]), Piece(x))
      BY <1>1, <1>3, <2>4, <2>9 DEF Wire, Far
    <3>2. Data(dn[k]) \in Seq(Pieces) /\ Data(up[l]) \in Seq(Pieces) /\ Data(got[k]) \in Seq(Pieces)
      BY FlowFacts
    <3>3. Wire(l)' = Append(Wire(l), Piece(x))
      BY <1>6, <3>1, <3>2, ConcatAppend
    <3>4. \A j \in Leg : j # l => Wire(j)' = Wire(j)
      BY <1>1, <2>2 DEF Wire, Far
    <3>5. relayWire' = [relayWire EXCEPT ![l] = Append(@, TunnelRelay!Chunk(l, sent[l] + 1))]
      <4>1. relayWire'[l] = Append(relayWire[l], TunnelRelay!Chunk(l, sent[l] + 1))
        BY <1>6, <3>3, RelayView
      <4>2. \A j \in Leg : j # l => relayWire'[j] = relayWire[j]
        BY <3>4, RelayView
      <4> QED
        BY <4>1, <4>2, RelayView
    <3>6. Len(relayGot[l]) + Len(relayWire[l]) = sent[l]
      <4>1. Len(Data(got[k])) + Len(Data(dn[k])) + Len(Data(up[l])) = sent[l]
        BY <1>1, <1>3, <1>12, <2>9, FlowFacts DEF Complete
      <4>2. Len(Wire(l)) = Len(Data(dn[k])) + Len(Data(up[l]))
        BY <3>1, <3>2, ConcatProperties
      <4>3. /\ Len(Data(got[k])) \in Nat /\ Len(Data(dn[k])) \in Nat /\ Len(Data(up[l])) \in Nat
        BY <3>2, LenProperties
      <4>4. relayGot[l] = Data(got[k]) /\ relayWire[l] = Wire(l)
        BY <1>3, RelayView
      <4>5. Len(Data(got[k])) + Len(Wire(l)) = sent[l]
        BY <4>1, <4>2, <4>3
      <4> QED
        BY <4>4, <4>5
    <3>7. relayPhase[l[2]] # "idle"
      BY <1>2, <1>4, <1>7, RelayView
    <3>8. TunnelRelay!Send(l)
      BY <1>1, <1>9, <3>5, <3>6, <3>7 DEF TunnelRelay!Send
    <3> QED
      BY <2>6, <2>7, <3>8, RelayView DEF FlowInv, TunnelRelay!Next
  <2> QED
    BY <2>8, <2>9
<1> QED
  BY <1>11, <1>12

\* A chunk may stand at the end of the first or the head of the second leg.
LEMMA ConcatMiddle ==
    ASSUME NEW S, NEW p \in Seq(S), NEW q \in Seq(S), NEW x \in S
    PROVE  p \o (Single(x) \o q) = Append(p, x) \o q
<1>1. Single(x) \in Seq(S) /\ Append(p, x) = p \o Single(x)
  BY AppendIsConcat DEF Single
<1> QED
  BY <1>1, ConcatAssociative

\* Where there is a chunk there is something.
LEMMA ConcatSome ==
    ASSUME NEW S, NEW p \in Seq(S), NEW q \in Seq(S), NEW x \in S
    PROVE  (Single(x) \o p) \o q # <<>>
<1>1. <<x>> \in Seq(S) /\ Len(<<x>>) = 1 /\ Len(p) \in Nat /\ Len(q) \in Nat
  BY LenProperties
<1>2. <<x>> \o p \in Seq(S) /\ Len(<<x>> \o p) = 1 + Len(p)
  BY <1>1, ConcatProperties
<1>3. (<<x>> \o p) \o q \in Seq(S) /\ Len((<<x>> \o p) \o q) = (1 + Len(p)) + Len(q)
  BY <1>2, ConcatProperties
<1>4. Len((<<x>> \o p) \o q) # 0
  BY <1>1, <1>3
<1> QED
  BY <1>3, <1>4, EmptySeq DEF Single

\* A chunk at the head of the first leg is the oldest of both.
LEMMA ConcatHead ==
    ASSUME NEW S, NEW p \in Seq(S), NEW q \in Seq(S), NEW x \in S
    PROVE  Head((Single(x) \o p) \o q) = x /\ Tail((Single(x) \o p) \o q) = p \o q
<1>1. <<x>> \in Seq(S)
  OBVIOUS
<1>2. (<<x>> \o p) \o q = <<x>> \o (p \o q) /\ p \o q \in Seq(S)
  BY <1>1, ConcatAssociative, ConcatProperties
<1>3. PICK r : r = p \o q
  OBVIOUS
<1>4. r \in Seq(S) /\ Len(r) \in Nat
  BY <1>2, <1>3, LenProperties
<1>5. PICK t : t = <<x>> \o r
  OBVIOUS
<1>6. /\ t \in Seq(S) /\ Len(t) = 1 + Len(r) /\ t[1] = x
      /\ \A i \in 1..Len(r) : t[i + 1] = r[i]
  <2>1. /\ t \in Seq(S) /\ Len(t) = Len(<<x>>) + Len(r)
        /\ \A i \in 1..(Len(<<x>>) + Len(r)) :
               t[i] = IF i <= Len(<<x>>) THEN <<x>>[i] ELSE r[i - Len(<<x>>)]
    BY <1>1, <1>4, <1>5, ConcatProperties
  <2>2. Len(<<x>>) = 1 /\ <<x>>[1] = x
    OBVIOUS
  <2>3. 1 \in 1..(1 + Len(r)) /\ \A i \in 1..Len(r) : i + 1 \in 1..(1 + Len(r)) /\ ~(i + 1 <= 1) /\ (i + 1) - 1 = i
    BY <1>4
  <2> QED
    BY <2>1, <2>2, <2>3
<1>7. t # <<>>
  <2>1. Len(t) # 0
    BY <1>4, <1>6
  <2> QED
    BY <1>6, <2>1, EmptySeq
<1>8. Head(t) = x /\ Tail(t) = r
  <2>1. /\ Head(t) = t[1] /\ Tail(t) \in Seq(S) /\ Len(Tail(t)) = Len(t) - 1
        /\ \A i \in 1..(Len(t) - 1) : Tail(t)[i] = t[i + 1]
    BY <1>6, <1>7, HeadTailProperties
  <2>2. Len(t) - 1 = Len(r)
    BY <1>4, <1>6
  <2> QED
    BY <1>4, <1>6, <2>1, <2>2, SameCells
<1> QED
  BY <1>2, <1>3, <1>5, <1>8 DEF Single

\* A client that takes a chunk off its leg passes it on to its peer.
LEMMA RecvFlow ==
    ASSUME Inv, LegInv, FlowInv, NEW l \in Leg, ClientRecv(l)
    PROVE  FlowInv' /\ TunnelRelay!Next
<1>1. /\ cl[l] = "active" /\ dn[l] # <<>> /\ Head(dn[l]) # Fin
      /\ dn' = [dn EXCEPT ![l] = Tail(@)] /\ got' = [got EXCEPT ![l] = Append(@, Head(dn[l]))]
      /\ UNCHANGED <<cl, srv, bev, place, up, sent>>
  BY DEF ClientRecv
<1>2. PICK c : c = l[2]
  OBVIOUS
<1>3. PICK k \in Leg : k = Far(l)
  BY FarFacts
<1>4. c \in Conns /\ Ready(c) /\ k # l /\ Far(k) = l /\ k[2] = c
  BY <1>1, <1>2, <1>3, SlotFacts, FarFacts
<1>5. PICK x : x = Head(dn[l])
  OBVIOUS
<1>6. /\ dn[l] \in Seq(Items) /\ Flow(dn[l]) /\ got[l] \in Seq(Items) /\ Flow(got[l]) /\ ~Ended(got[l])
      /\ FlowOf(l)
  BY FlowFacts DEF FlowOf
<1>7. x \in Items /\ x.tag = "data" /\ Piece(x) \in Pieces
  <2>1. x = dn[l][1] /\ x \in Items /\ 1 \in 1..Len(dn[l])
    BY <1>1, <1>5, <1>6, TailCells
  <2>2. x # ConnHead /\ x # Fin
    BY <1>1, <1>5, <1>6, <2>1 DEF FlowOf
  <2>3. x.tag = "data"
    BY <2>1, <2>2 DEF Items, Chunk
  <2> QED
    BY <2>1, <2>3, ItemKinds
<1>8. /\ dn'[l] = Tail(dn[l]) /\ got'[l] = Append(got[l], x)
      /\ \A j \in Leg : j # l => dn'[j] = dn[j] /\ got'[j] = got[j]
  BY <1>1, <1>5 DEF Inv, PortInv, TypeOK
<1>9. /\ Data(dn[l]) = Single(Piece(x)) \o Data(dn'[l]) /\ Len(Data(dn[l])) = Len(Data(dn'[l])) + 1
      /\ Data(dn'[l]) \in Seq(Pieces)
  BY <1>1, <1>5, <1>6, <1>7, <1>8, DataTail
<1>10. /\ Data(got'[l]) = Append(Data(got[l]), Piece(x)) /\ Len(Data(got'[l])) = Len(Data(got[l])) + 1
       /\ \A i \in 1..Len(got'[l]) : got'[l][i].tag = "data"
  <2>1. /\ Data(got'[l]) = Append(Data(got[l]), Piece(x)) /\ Len(Data(got'[l])) = Len(Data(got[l])) + 1
        /\ \A i \in 1..Len(got'[l]) : (i \in 1..Len(got[l]) /\ got'[l][i] = got[l][i]) \/ got'[l][i] = x
    BY <1>6, <1>7, <1>8, DataAppend
  <2> QED
    BY <1>6, <1>7, <2>1 DEF FlowOf
<1>11. \A b \in Conns : Phase(b)' = Phase(b) /\ (Ready(b)' <=> Ready(b))
  BY <1>1 DEF Phase, Joined, Ready
<1>12. ASSUME NEW j \in Leg PROVE FlowOf(j)'
  <2>1. FlowOf(j) /\ j[2] \in Conns
    BY FlowFacts, FarFacts
  <2>2. CASE j # l
    BY <1>1, <1>8, <1>11, <2>1, <2>2 DEF FlowOf
  <2>3. CASE j = l
    <3>1. /\ Flow(dn'[l]) /\ (Ended(dn'[l]) => Ended(dn[l]))
          /\ \A i \in 1..Len(dn'[l]) : dn'[l][i] # ConnHead
      <4>1. PICK q \in Seq(Items) : q = dn[l]
        BY <1>6
      <4>2. Flow(q) /\ q # <<>> /\ dn'[l] = Tail(q)
        BY <1>1, <1>6, <1>8, <4>1
      <4>3. \A i \in 1..(Len(q) - 1) : Tail(q)[i] = q[i + 1] /\ i + 1 \in 1..Len(q)
        BY <4>2, TailCells
      <4>4. Flow(Tail(q)) /\ (Ended(Tail(q)) => Ended(q)) /\ Len(Tail(q)) = Len(q) - 1
        BY <4>2, TailCells
      <4>5. \A i \in 1..Len(q) : q[i] # ConnHead
        BY <1>6, <4>1 DEF FlowOf
      <4> QED
        BY <4>1, <4>2, <4>3, <4>4, <4>5
    <3> QED
      BY <1>1, <1>2, <1>4, <1>10, <1>11, <2>1, <2>3, <3>1 DEF FlowOf
  <2> QED
    BY <2>2, <2>3
<1>13. ASSUME NEW j \in Leg PROVE Complete(j)'
  <2>1. Complete(j) /\ Far(j)' = Far(j) /\ Far(j) \in Leg
    BY FlowFacts, FarFacts DEF Far
  <2>2. CASE Far(j) # l
    BY <1>1, <1>8, <2>1, <2>2 DEF Complete
  <2>3. CASE Far(j) = l
    <3>1. /\ Len(Data(got[l])) \in Nat /\ Len(Data(dn'[l])) \in Nat /\ Len(Data(up[j])) \in Nat
      BY <1>9, FlowFacts, LenProperties
    <3>2. /\ Len(Data(got'[l])) + Len(Data(dn'[l])) = Len(Data(got[l])) + Len(Data(dn[l]))
      BY <1>9, <1>10, <3>1
    <3>3. Complete(j) => (cl[j] # "closed" /\ cl[l] # "closed" /\ place[j] # "closed" =>
              Len(Data(got[l])) + Len(Data(dn[l])) + Len(Data(up[j])) = sent[j])
      BY <2>3 DEF Complete
    <3>4. (cl[j] # "closed" /\ cl[l] # "closed" /\ place[j] # "closed" =>
              Len(Data(got'[l])) + Len(Data(dn'[l])) + Len(Data(up[j])) = sent[j]) => Complete(j)'
      BY <1>1, <2>1, <2>3 DEF Complete
    <3> QED
      BY <2>1, <3>2, <3>3, <3>4
  <2> QED
    BY <2>2, <2>3
<1>14. /\ Wire(k) = (Single(Piece(x)) \o Data(dn'[l])) \o Data(up[k])
       /\ Wire(k)' = Data(dn'[l]) \o Data(up[k])
  BY <1>1, <1>4, <1>9 DEF Wire, Far
<1>15. Wire(k) # <<>> /\ Head(Wire(k)) = Piece(x) /\ Tail(Wire(k)) = Wire(k)'
  <2>1. PICK p \in Seq(Pieces), q \in Seq(Pieces), y \in Pieces :
            p = Data(dn'[l]) /\ q = Data(up[k]) /\ y = Piece(x)
    BY <1>7, <1>9, FlowFacts
  <2>2. Wire(k) = (Single(y) \o p) \o q /\ Wire(k)' = p \o q
    BY <1>14, <2>1
  <2>3. (Single(y) \o p) \o q # <<>>
    BY ConcatSome, Zenon
  <2>4. Head((Single(y) \o p) \o q) = y /\ Tail((Single(y) \o p) \o q) = p \o q
    BY ConcatHead, Zenon
  <2> QED
    BY <2>1, <2>2, <2>3, <2>4
<1>16. \A j \in Leg : j # k => Wire(j)' = Wire(j)
  <2>1. ASSUME NEW j \in Leg, j # k PROVE Wire(j)' = Wire(j)
    <3>1. Far(j) \in Leg /\ Far(j) # l /\ Far(j)' = Far(j)
      BY <1>3, <2>1, FarFacts DEF Far
    <3> QED
      BY <1>1, <1>8, <3>1 DEF Wire
  <2> QED
    BY <2>1
<1>17. relayWire' = [relayWire EXCEPT ![k] = Tail(@)]
  <2>1. relayWire'[k] = Tail(relayWire[k]) /\ \A j \in Leg : j # k => relayWire'[j] = relayWire[j]
    BY <1>15, <1>16, RelayView
  <2> QED
    BY <2>1, RelayView
<1>18. relayGot' = [relayGot EXCEPT ![k] = Append(@, Head(relayWire[k]))]
  <2>1. relayGot'[k] = Append(relayGot[k], Head(relayWire[k]))
    BY <1>4, <1>10, <1>15, RelayView
  <2>2. ASSUME NEW j \in Leg, j # k PROVE relayGot'[j] = relayGot[j]
    <3>1. Far(j) \in Leg /\ Far(j) # l
      BY <1>3, <2>2, FarFacts
    <3> QED
      BY <1>8, <3>1, RelayView
  <2> QED
    BY <2>1, <2>2, RelayView
<1>19. relayPhase' = relayPhase /\ relayPhase[k[2]] # "idle"
  <2>1. srv[c] = "freed" \/ Joined(c)
    BY <1>4 DEF Ready
  <2>2. Phase(c) # "idle"
    BY <2>1 DEF Phase
  <2> QED
    BY <1>4, <1>11, <2>2, RelayView
<1>20. TunnelRelay!Deliver(k)
  <2>1. relayWire[k] # <<>>
    BY <1>15, RelayView
  <2> QED
    BY <1>1, <1>17, <1>18, <1>19, <2>1 DEF TunnelRelay!Deliver
<1> QED
  BY <1>12, <1>13, <1>20, RelayView DEF FlowInv, TunnelRelay!Next

\* A worker that hands a chunk over from one leg to the other.
LEMMA ReadFlow ==
    ASSUME Inv, LegInv, FlowInv, NEW s \in Side, NEW t \in Conns, WorkerRead(s, t)
    PROVE  FlowInv' /\ TunnelRelay!Next
<1>1. PICK l \in Leg : l = <<s, t>>
  BY LegPairs
<1>2. PICK k \in Leg : k = Far(l)
  BY FarFacts
<1>3. k = <<Other(s), t>> /\ Other(s) \in Side /\ k # l /\ Far(k) = l /\ l[2] = t /\ k[2] = t
  BY <1>1, <1>2, FarFacts
<1>4. bev[l] = t /\ bev[k] = t /\ t # None
  BY <1>1, <1>3, SlotFacts, ReadHasLeg DEF WorkerRead
<1>5. PICK x : x = Head(up[l])
  OBVIOUS
<1>6. /\ up[l] # <<>> /\ x # Fin
      /\ up' = [up EXCEPT ![l] = Tail(@)]
      /\ dn' = IF cl[k] = "closed" THEN dn ELSE [dn EXCEPT ![k] = Append(@, x)]
      /\ UNCHANGED <<cl, srv, bev, place, sent, got>>
  BY <1>1, <1>3, <1>4, <1>5 DEF WorkerRead
<1>7. up[l] \in Seq(Items) /\ Flow(up[l]) /\ dn[k] \in Seq(Items) /\ Flow(dn[k]) /\ FlowOf(k)
  BY FlowFacts DEF FlowOf
<1>8. place[l] = "worker" /\ place[k] = "worker" /\ Ready(t)
  <2>1. place[l] = "worker" /\ place[k] = "worker"
    BY <1>3, <1>4, SlotFacts
  <2>2. Joined(t)
    BY <1>1, <1>3, <1>4, LegPairs DEF Joined, Other
  <2> QED
    BY <2>1, <2>2 DEF Ready
<1>9. x \in Items /\ x.tag = "data" /\ Piece(x) \in Pieces
  <2>1. x = up[l][1] /\ x \in Items /\ 1 \in 1..Len(up[l])
    BY <1>5, <1>6, <1>7, TailCells
  <2>2. x # ConnHead
    BY <1>8, <2>1, LegFacts DEF UpLegs
  <2>3. x.tag = "data"
    BY <1>6, <2>1, <2>2 DEF Items, Chunk
  <2> QED
    BY <2>1, <2>3, ItemKinds
<1>10. /\ up'[l] = Tail(up[l]) /\ \A j \in Leg : j # l => up'[j] = up[j]
       /\ \A j \in Leg : j # k => dn'[j] = dn[j]
       /\ dn'[k] = IF cl[k] = "closed" THEN dn[k] ELSE Append(dn[k], x)
  BY <1>6 DEF Inv, PortInv, TypeOK
<1>11. /\ Data(up[l]) = Single(Piece(x)) \o Data(up'[l]) /\ Len(Data(up[l])) = Len(Data(up'[l])) + 1
       /\ Data(up'[l]) \in Seq(Pieces) /\ Flow(up'[l])
  BY <1>5, <1>6, <1>7, <1>9, <1>10, DataTail, TailCells
<1>12. cl[k] # "closed" =>
           /\ Flow(dn'[k]) /\ ~Ended(dn'[k])
           /\ \A i \in 1..Len(dn'[k]) : dn'[k][i] # ConnHead
           /\ Data(dn'[k]) = Append(Data(dn[k]), Piece(x))
           /\ Len(Data(dn'[k])) = Len(Data(dn[k])) + 1
  <2> SUFFICES ASSUME cl[k] # "closed"
               PROVE  /\ Flow(dn'[k]) /\ ~Ended(dn'[k])
                      /\ \A i \in 1..Len(dn'[k]) : dn'[k][i] # ConnHead
                      /\ Data(dn'[k]) = Append(Data(dn[k]), Piece(x))
                      /\ Len(Data(dn'[k])) = Len(Data(dn[k])) + 1
    OBVIOUS
  <2>1. ~Ended(dn[k])
    BY <1>7, <1>8 DEF FlowOf
  <2>2. /\ Flow(dn'[k]) /\ ~Ended(dn'[k])
        /\ Data(dn'[k]) = Append(Data(dn[k]), Piece(x))
        /\ Len(Data(dn'[k])) = Len(Data(dn[k])) + 1
        /\ \A i \in 1..Len(dn'[k]) : (i \in 1..Len(dn[k]) /\ dn'[k][i] = dn[k][i]) \/ dn'[k][i] = x
    BY <1>7, <1>9, <1>10, <2>1, DataAppend
  <2>3. x # ConnHead
    BY <1>9, ItemKinds
  <2> QED
    BY <1>7, <2>2, <2>3 DEF FlowOf
<1>13. \A b \in Conns : Phase(b)' = Phase(b) /\ (Ready(b)' <=> Ready(b))
  BY <1>6 DEF Phase, Joined, Ready
<1>14. ASSUME NEW j \in Leg PROVE FlowOf(j)'
  <2>1. FlowOf(j) /\ j[2] \in Conns
    BY FlowFacts, FarFacts
  <2>2. /\ Flow(up'[j]) /\ (up'[j] = up[j] \/ up[j] # <<>>)
    BY <1>6, <1>10, <1>11, <2>1 DEF FlowOf
  <2>3. CASE dn'[j] = dn[j]
    BY <1>6, <1>13, <2>1, <2>2, <2>3 DEF FlowOf
  <2>4. CASE dn'[j] # dn[j]
    <3>1. j = k /\ cl[k] # "closed"
      BY <1>10, <2>4
    <3> QED
      BY <1>3, <1>6, <1>8, <1>12, <1>13, <2>1, <2>2, <3>1 DEF FlowOf
  <2> QED
    BY <2>3, <2>4
<1>15. ASSUME NEW j \in Leg PROVE Complete(j)'
  <2>1. Complete(j) /\ Far(j)' = Far(j) /\ Far(j) \in Leg
    BY FlowFacts, FarFacts DEF Far
  <2>2. CASE j # l
    <3>1. Far(j) # k
      BY <1>2, <2>2, FarFacts
    <3> QED
      BY <1>6, <1>10, <2>1, <2>2, <3>1 DEF Complete
  <2>3. CASE j = l
    <3>1. /\ Len(Data(got[k])) \in Nat /\ Len(Data(dn[k])) \in Nat /\ Len(Data(up'[l])) \in Nat
      BY <1>11, FlowFacts, LenProperties
    <3>2. cl[k] # "closed" =>
              Len(Data(dn'[k])) + Len(Data(up'[l])) = Len(Data(dn[k])) + Len(Data(up[l]))
      <4>1. \A a, b \in Nat : (a + 1) + b = a + (b + 1)
        OBVIOUS
      <4> QED
        BY <1>11, <1>12, <3>1, <4>1
    <3>3. Complete(l) => (cl[l] # "closed" /\ cl[k] # "closed" /\ place[l] # "closed" =>
              Len(Data(got[k])) + Len(Data(dn[k])) + Len(Data(up[l])) = sent[l])
      BY <1>2 DEF Complete
    <3>4. (cl[l] # "closed" /\ cl[k] # "closed" /\ place[l] # "closed" =>
              Len(Data(got[k])) + Len(Data(dn'[k])) + Len(Data(up'[l])) = sent[l]) => Complete(l)'
      BY <1>2, <1>6, <2>1, <2>3 DEF Complete
    <3>5. Len(Data(dn'[k])) \in Nat \/ cl[k] = "closed"
      BY <1>12, <3>1
    <3>6. Len(Data(up[l])) \in Nat
      BY <1>11, <3>1
    <3> QED
      BY <2>1, <2>3, <3>1, <3>2, <3>3, <3>4, <3>5, <3>6
  <2> QED
    BY <2>2, <2>3
<1>16. ASSUME NEW j \in Leg PROVE Wire(j)' = Wire(j)
  <2>1. Far(j)' = Far(j) /\ Far(j) \in Leg
    BY FarFacts DEF Far
  <2>2. CASE j # l
    <3>1. Far(j) # k
      BY <1>2, <2>2, FarFacts
    <3> QED
      BY <1>6, <1>10, <2>1, <2>2, <3>1 DEF Wire
  <2>3. CASE j = l /\ cl[k] = "closed"
    BY <1>2, <1>6, <2>1, <2>3 DEF Wire
  <2>4. CASE j = l /\ cl[k] # "closed"
    <3>1. /\ Wire(j) = Data(dn[k]) \o (Single(Piece(x)) \o Data(up'[l]))
          /\ Wire(j)' = Append(Data(dn[k]), Piece(x)) \o Data(up'[l])
      BY <1>2, <1>6, <1>11, <1>12, <2>1, <2>4 DEF Wire
    <3>2. PICK p \in Seq(Pieces), q \in Seq(Pieces), y \in Pieces :
              p = Data(dn[k]) /\ q = Data(up'[l]) /\ y = Piece(x)
      BY <1>9, <1>11, FlowFacts
    <3>3. p \o (Single(y) \o q) = Append(p, y) \o q
      BY ConcatMiddle, Zenon
    <3> QED
      BY <3>1, <3>2, <3>3
  <2> QED
    BY <2>2, <2>3, <2>4
<1>17. TunnelRelay!Next
  BY <1>6, <1>13, <1>16, BreakStep
<1> QED
  BY <1>14, <1>15, <1>17 DEF FlowInv

\* A client that frees trans of its list: what it has not written is lost, and
\* what it has not read.
LEMMA ScFreeFlow ==
    ASSUME Inv, LegInv, FlowInv, NEW s \in Side, NEW S \in SUBSET Leg, ScFree(S),
           \A l \in S : l[1] = s /\ cl[l] \in Listed,
           UNCHANGED <<srv, bev, place, sent, got>>
    PROVE  FlowInv' /\ TunnelRelay!Next
<1> DEFINE open == {l \in S : cl[l] # "stuck"}
<1>1. PICK k \in Kept(up, open) :
          /\ cl' = [l \in Leg |-> IF l \in S THEN "closed" ELSE cl[l]]
          /\ up' = Cut(up, open, k) /\ dn' = Drop(dn, open)
  BY DEF ScFree
<1>2. \A l \in Leg : /\ cl'[l] = IF l \in S THEN "closed" ELSE cl[l]
                     /\ up'[l] = IF l \in open THEN Append(SubSeq(up[l], 1, k[l]), Fin) ELSE up[l]
                     /\ dn'[l] = IF l \in open THEN <<>> ELSE dn[l]
  BY <1>1 DEF Cut, Drop
<1>3. \A l \in open : k[l] \in Nat /\ k[l] <= Len(up[l])
  BY <1>1, BoundsAssumption DEF Kept
<1>4. \A c \in Conns : Ready(c)' <=> Ready(c)
  BY DEF Ready, Joined
<1>5. ASSUME NEW l \in open
      PROVE  /\ Flow(up'[l]) /\ Data(up'[l]) \in Seq(Pieces)
             /\ TunnelRelay!IsPrefix(Data(up'[l]), Data(up[l]))
  <2>1. up[l] \in Seq(Items) /\ Flow(up[l])
    BY FlowFacts DEF FlowOf
  <2>2. ~Ended(up[l])
    <3>1. up[l] # <<>> => Len(up[l]) \in 1..Len(up[l])
      BY <2>1, EmptySeq, LenProperties
    <3>2. cl[l] # "closed"
      BY DEF Listed
    <3> QED
      BY <3>1, <3>2, LegFacts DEF UpLegs, Ended
  <2>3. PICK q \in Seq(Items), n \in Nat : q = up[l] /\ n = k[l]
    BY <1>3, <2>1
  <2>4. /\ Flow(q) /\ ~Ended(q) /\ n <= Len(q) /\ up'[l] = Append(SubSeq(q, 1, n), Fin)
    BY <1>2, <1>3, <2>1, <2>2, <2>3
  <2>5. /\ up'[l] \in Seq(Items) /\ Flow(up'[l])
        /\ TunnelRelay!IsPrefix(Data(up'[l]), Data(q))
    BY <2>4, DataCut
  <2> QED
    BY <2>3, <2>5, DataOf
<1>6. ASSUME NEW l \in Leg PROVE FlowOf(l)'
  <2>1. FlowOf(l) /\ l[2] \in Conns
    BY FlowFacts, FarFacts
  <2>2. CASE l \in open
    <3>1. cl'[l] = "closed" /\ dn'[l] = <<>> /\ Flow(up'[l])
      BY <1>2, <1>5, <2>2
    <3> QED
      BY <2>1, <3>1, DataNone DEF FlowOf
  <2>3. CASE l \notin open
    <3>1. up'[l] = up[l] /\ dn'[l] = dn[l] /\ (cl'[l] = "idle" => cl[l] = "idle")
      BY <1>2, <2>3
    <3> QED
      BY <1>4, <2>1, <3>1 DEF FlowOf
  <2> QED
    BY <2>2, <2>3
<1>7. ASSUME NEW l \in Leg PROVE Complete(l)'
  <2>1. Complete(l) /\ Far(l)' = Far(l) /\ Far(l) \in Leg
    BY FlowFacts, FarFacts DEF Far
  <2>2. CASE l \in S \/ Far(l) \in S
    BY <1>2, <2>1, <2>2 DEF Complete
  <2>3. CASE l \notin S /\ Far(l) \notin S
    <3>1. /\ up'[l] = up[l] /\ dn'[Far(l)] = dn[Far(l)]
          /\ cl'[l] = cl[l] /\ cl'[Far(l)] = cl[Far(l)]
      BY <1>2, <2>1, <2>3
    <3> QED
      BY <2>1, <3>1 DEF Complete
  <2> QED
    BY <2>2, <2>3
<1>8. ASSUME NEW c \in Conns PROVE Phase(c)' \in {Phase(c), "broken"}
  <2>1. \A r \in Side : cl[<<r, c>>] = "closed" => cl'[<<r, c>>] = "closed"
    BY <1>2, LegPairs
  <2> QED
    BY <2>1 DEF Phase, Joined
<1>9. ASSUME NEW l \in Leg
      PROVE  \/ Wire(l)' = Wire(l)
             \/ Phase(l[2])' = "broken" /\ TunnelRelay!IsPrefix(Wire(l)', Wire(l))
  <2>1. PICK j \in Leg : j = Far(l)
    BY FarFacts
  <2>2. j[2] = l[2] /\ l = <<l[1], l[2]>> /\ j = <<j[1], l[2]>> /\ l[1] \in Side /\ j[1] \in Side
    BY <2>1, FarFacts
  <2>3. /\ Wire(l) = IF cl[j] = "closed" THEN <<>> ELSE Data(dn[j]) \o Data(up[l])
        /\ Wire(l)' = IF cl'[j] = "closed" THEN <<>> ELSE Data(dn'[j]) \o Data(up'[l])
    BY <2>1 DEF Wire, Far
  <2>4. /\ Wire(l) \in Seq(Pieces) /\ Data(dn[j]) \in Seq(Pieces) /\ Data(up[l]) \in Seq(Pieces)
    BY FlowFacts
  <2>5. \A r \in Side : cl'[<<r, l[2]>>] = "closed" => Phase(l[2])' = "broken"
    BY DEF Phase
  <2>6. CASE j \in S
    <3>1. cl'[j] = "closed"
      BY <1>2, <2>6
    <3>2. Phase(l[2])' = "broken" /\ Wire(l)' = <<>>
      BY <2>2, <2>3, <2>5, <3>1
    <3> QED
      BY <2>4, <3>2, PrefixNone
  <2>7. CASE j \notin S /\ l \notin open
    <3>1. cl'[j] = cl[j] /\ dn'[j] = dn[j] /\ up'[l] = up[l]
      BY <1>2, <2>7
    <3> QED
      BY <2>3, <3>1
  <2>8. CASE j \notin S /\ l \in open
    <3>1. cl'[j] = cl[j] /\ dn'[j] = dn[j] /\ cl'[l] = "closed"
      BY <1>2, <2>8
    <3>2. Phase(l[2])' = "broken"
      BY <2>2, <2>5, <3>1
    <3>3. CASE cl[j] = "closed"
      BY <2>3, <3>1, <3>3
    <3>4. CASE cl[j] # "closed"
      <4>1. PICK p \in Seq(Pieces), q \in Seq(Pieces), r \in Seq(Pieces) :
                p = Data(dn[j]) /\ q = Data(up[l]) /\ r = Data(up'[l])
        BY <1>5, <2>4, <2>8
      <4>2. TunnelRelay!IsPrefix(r, q)
        BY <1>5, <2>8, <4>1
      <4>3. TunnelRelay!IsPrefix(p \o r, p \o q)
        BY <4>2, Prefixes
      <4>4. Wire(l) = p \o q /\ Wire(l)' = p \o r
        BY <2>3, <3>1, <3>4, <4>1
      <4> QED
        BY <3>2, <4>3, <4>4
    <3> QED
      BY <3>3, <3>4
  <2> QED
    BY <2>6, <2>7, <2>8
<1>10. TunnelRelay!Next
  BY <1>8, <1>9, BreakStep
<1> QED
  BY <1>6, <1>7, <1>10 DEF FlowInv

\* Nothing is left of a channel without chunks that is cut.
LEMMA CutNothing ==
    ASSUME NEW q \in Seq(Items), Flow(q), TunnelRelay!IsPrefix(Data(q), <<>>)
    PROVE  Data(q) = <<>>
<1>1. Data(q) \in Seq(Pieces) /\ Len(Data(q)) \in Nat
  BY DataOf, LenProperties
<1>2. Len(Data(q)) <= 0
  BY DEF TunnelRelay!IsPrefix
<1>3. Len(Data(q)) = 0
  BY <1>1, <1>2
<1> QED
  BY <1>1, <1>3, EmptySeq

\* The server that frees trans: what it has not written is lost, and what it
\* has not read.  Between legs that were not joined nothing was sent.
LEMMA SsFreeFlow ==
    ASSUME Inv, LegInv, FlowInv, NEW T \in SUBSET Conns, SsFree(T), UNCHANGED <<cl, sent, got>>
    PROVE  FlowInv' /\ TunnelRelay!Next
<1> DEFINE slots == {x \in Side \X T : bev[x] # None}
           legs  == {<<x[1], bev[x]>> : x \in slots}
<1>1. \A x \in slots : x \in Leg /\ bev[x] = x[2] /\ x[2] \in T /\ <<x[1], bev[x]>> = x
  <2>1. ASSUME NEW x \in slots PROVE x \in Leg /\ bev[x] = x[2] /\ x[2] \in T /\ <<x[1], bev[x]>> = x
    <3>1. x \in Leg /\ x = <<x[1], x[2]>> /\ bev[x] # None /\ x[2] \in T
      BY DEF Leg
    <3> QED
      BY <3>1, SlotFacts
  <2> QED
    BY <2>1
<1>2. legs = slots
  BY <1>1
<1>3. PICK k \in Kept(dn, legs) :
          /\ srv' = [c \in Conns |-> IF c \in T THEN "freed" ELSE srv[c]]
          /\ bev' = [x \in Leg |-> IF x \in slots THEN None ELSE bev[x]]
          /\ place' = [l \in Leg |-> IF l \in legs THEN "closed" ELSE place[l]]
          /\ dn' = Cut(dn, legs, k)
          /\ up' = Drop(up, legs)
  BY DEF SsFree
<1>4. \A l \in Leg : /\ bev'[l] = IF l \in slots THEN None ELSE bev[l]
                     /\ place'[l] = IF l \in slots THEN "closed" ELSE place[l]
                     /\ up'[l] = IF l \in slots THEN <<>> ELSE up[l]
                     /\ dn'[l] = IF l \in slots THEN Append(SubSeq(dn[l], 1, k[l]), Fin) ELSE dn[l]
  BY <1>2, <1>3 DEF Cut, Drop
<1>5. \A c \in Conns : srv'[c] = IF c \in T THEN "freed" ELSE srv[c]
  BY <1>3
<1>6. \A l \in slots : k[l] \in Nat /\ k[l] <= Len(dn[l])
  BY <1>2, <1>3, BoundsAssumption DEF Kept
<1>7. \A l \in Leg : l \notin slots /\ l[2] \in T => bev[l] # l[2]
  <2>1. \A l \in Leg : l[2] \in T => l \in Side \X T
    BY FarFacts
  <2> QED
    BY <2>1, SlotFacts
<1> HIDE DEF slots, legs
<1>8. \A c \in Conns : Ready(c) => Ready(c)'
  <2>1. ASSUME NEW c \in Conns, Ready(c) PROVE Ready(c)'
    <3>1. CASE c \in T \/ srv[c] = "freed"
      BY <1>5, <3>1 DEF Ready
    <3>2. CASE c \notin T /\ srv[c] # "freed"
      <4>1. Joined(c) /\ \A s \in Side : <<s, c>> \in Leg /\ <<s, c>> \notin slots
        BY <1>1, <2>1, <3>2, LegPairs DEF Ready
      <4> QED
        BY <1>4, <4>1 DEF Ready, Joined
    <3> QED
      BY <3>1, <3>2
  <2> QED
    BY <2>1
<1>9. ASSUME NEW l \in slots
      PROVE  /\ l \in Leg /\ dn'[l] \in Seq(Items) /\ Flow(dn'[l])
             /\ \A i \in 1..Len(dn'[l]) : dn'[l][i] # ConnHead
             /\ Data(dn'[l]) \in Seq(Pieces)
             /\ TunnelRelay!IsPrefix(Data(dn'[l]), Data(dn[l]))
  <2>1. l \in Leg /\ place[l] = "worker"
    BY <1>1, SlotFacts
  <2>2. dn[l] \in Seq(Items) /\ FlowOf(l)
    BY <2>1, FlowFacts
  <2>3. PICK q \in Seq(Items), n \in Nat : q = dn[l] /\ n = k[l]
    BY <1>6, <2>2
  <2>4. /\ Flow(q) /\ ~Ended(q) /\ \A i \in 1..Len(q) : q[i] # ConnHead
    BY <2>1, <2>2, <2>3 DEF FlowOf
  <2>5. n <= Len(q) /\ dn'[l] = Append(SubSeq(q, 1, n), Fin)
    BY <1>4, <1>6, <2>1, <2>3
  <2>6. /\ dn'[l] \in Seq(Items) /\ Flow(dn'[l])
        /\ \A i \in 1..Len(dn'[l]) : (i \in 1..Len(q) /\ dn'[l][i] = q[i]) \/ dn'[l][i] = Fin
        /\ TunnelRelay!IsPrefix(Data(dn'[l]), Data(q))
    BY <2>4, <2>5, DataCut
  <2> QED
    BY <2>1, <2>3, <2>4, <2>6, ItemKinds, DataOf
<1>10. ASSUME NEW l \in slots, Far(l) \notin slots PROVE dn[l] = <<>> /\ Data(dn[l]) = <<>> /\ Data(dn'[l]) = <<>>
  <2>1. l \in Leg /\ l[2] \in T /\ Far(l) \in Leg /\ Far(l)[2] = l[2] /\ l[2] \in Conns
    BY <1>1, FarFacts
  <2>2. srv[l[2]] = "listed"
    BY <1>1, <2>1, SlotFacts
  <2>3. ~Joined(l[2])
    BY <1>7, <1>10, <2>1, SlotFacts
  <2>4. dn[l] = <<>>
    BY <2>1, <2>2, <2>3, FlowFacts DEF FlowOf, Ready
  <2>5. Data(dn[l]) = <<>>
    BY <2>4, DataNone
  <2>6. Data(dn'[l]) = <<>>
    BY <1>9, <2>5, CutNothing
  <2> QED
    BY <2>4, <2>5, <2>6
<1>11. ASSUME NEW l \in Leg PROVE FlowOf(l)'
  <2>1. FlowOf(l) /\ l[2] \in Conns
    BY FlowFacts, FarFacts
  <2>2. CASE l \in slots
    <3>1. up'[l] = <<>> /\ place'[l] = "closed" /\ Ready(l[2])'
      BY <1>1, <1>4, <1>5, <2>1, <2>2 DEF Ready
    <3>2. cl[l] # "idle"
      BY <1>1, <2>1, <2>2, SlotFacts DEF FlowOf
    <3> QED
      BY <1>9, <2>1, <2>2, <3>1, <3>2, DataNone DEF FlowOf
  <2>3. CASE l \notin slots
    <3>1. up'[l] = up[l] /\ dn'[l] = dn[l] /\ place'[l] = place[l]
      BY <1>4, <2>3
    <3> QED
      BY <1>8, <2>1, <3>1 DEF FlowOf
  <2> QED
    BY <2>2, <2>3
<1>12. ASSUME NEW l \in Leg PROVE Complete(l)'
  <2>1. Complete(l) /\ Far(l)' = Far(l)
    BY FlowFacts DEF Far
  <2>2. PICK j \in Leg : j = Far(l)
    BY FarFacts
  <2>3. Far(j) = l
    BY <2>2, FarFacts
  <2>4. CASE l \in slots
    <3>1. place'[l] = "closed"
      BY <1>4, <2>4
    <3> QED
      BY <3>1 DEF Complete
  <2>5. CASE l \notin slots
    <3>1. up'[l] = up[l] /\ place'[l] = place[l]
      BY <1>4, <2>5
    <3>2. Data(dn'[j]) = Data(dn[j])
      <4>1. CASE j \in slots
        BY <1>10, <2>3, <2>5, <4>1
      <4>2. CASE j \notin slots
        BY <1>4, <4>2
      <4> QED
        BY <4>1, <4>2
    <3> QED
      BY <2>1, <2>2, <3>1, <3>2 DEF Complete
  <2> QED
    BY <2>4, <2>5
<1>13. ASSUME NEW c \in Conns PROVE Phase(c)' \in {Phase(c), "broken"}
  <2>1. CASE c \in T \/ srv[c] = "freed"
    BY <1>5, <2>1 DEF Phase
  <2>2. CASE c \notin T /\ srv[c] # "freed"
    <3>1. \A s \in Side : bev'[<<s, c>>] = bev[<<s, c>>]
      <4>1. \A s \in Side : <<s, c>> \in Leg /\ <<s, c>> \notin slots
        BY <1>1, <2>2, LegPairs
      <4> QED
        BY <1>4, <4>1
    <3>2. srv'[c] = srv[c]
      BY <1>5, <2>2
    <3> QED
      BY <3>1, <3>2 DEF Phase, Joined
  <2> QED
    BY <2>1, <2>2
<1>14. ASSUME NEW l \in Leg
       PROVE  \/ Wire(l)' = Wire(l)
              \/ Phase(l[2])' = "broken" /\ TunnelRelay!IsPrefix(Wire(l)', Wire(l))
  <2>1. PICK j \in Leg : j = Far(l)
    BY FarFacts
  <2>2. j[2] = l[2] /\ Far(j) = l /\ l[2] \in Conns
    BY <2>1, FarFacts
  <2>3. /\ Wire(l) = IF cl[j] = "closed" THEN <<>> ELSE Data(dn[j]) \o Data(up[l])
        /\ Wire(l)' = IF cl[j] = "closed" THEN <<>> ELSE Data(dn'[j]) \o Data(up'[l])
    BY <2>1 DEF Wire, Far
  <2>4. Data(dn[j]) \in Seq(Pieces) /\ Data(up[l]) \in Seq(Pieces)
    BY FlowFacts
  <2>5. l \in slots \/ j \in slots => Phase(l[2])' = "broken"
    BY <1>1, <1>5, <2>2 DEF Phase
  <2>6. l \notin slots => up'[l] = up[l]
    BY <1>4
  <2>7. j \notin slots => dn'[j] = dn[j]
    BY <1>4
  <2>8. CASE l \notin slots
    <3>1. Data(dn'[j]) = Data(dn[j])
      BY <1>10, <2>2, <2>7, <2>8
    <3> QED
      BY <2>3, <2>6, <2>8, <3>1
  <2>9. CASE l \in slots
    <3>1. Data(up'[l]) = <<>>
      BY <1>4, <2>9, DataNone
    <3>2. PICK p \in Seq(Pieces), q \in Seq(Pieces), r \in Seq(Pieces) :
              p = Data(up[l]) /\ q = Data(dn[j]) /\ r = Data(dn'[j])
      BY <1>9, <2>4, <2>7
    <3>3. TunnelRelay!IsPrefix(r, q)
      <4>1. CASE j \in slots
        BY <1>9, <3>2, <4>1
      <4>2. CASE j \notin slots
        <5>1. r = q /\ Len(q) \in Nat
          BY <2>7, <3>2, <4>2, LenProperties
        <5> QED
          BY <5>1 DEF TunnelRelay!IsPrefix
      <4> QED
        BY <4>1, <4>2
    <3>4. TunnelRelay!IsPrefix(r, q \o p) /\ r \o <<>> = r
      BY <3>3, Prefixes, ConcatEmptySeq
    <3>5. CASE cl[j] = "closed"
      BY <2>3, <3>5
    <3>6. CASE cl[j] # "closed"
      <4>1. Wire(l) = q \o p /\ Wire(l)' = r
        BY <2>3, <3>1, <3>2, <3>4, <3>6
      <4> QED
        BY <2>5, <2>9, <3>4, <4>1
    <3> QED
      BY <3>5, <3>6
  <2> QED
    BY <2>8, <2>9
<1>15. TunnelRelay!Next
  BY <1>13, <1>14, BreakStep
<1> QED
  BY <1>11, <1>12, <1>15 DEF FlowInv

\* A worker that takes the DAEMON's leg joins the two legs; the USR's joins
\* nothing.
LEMMA TakeFlow ==
    ASSUME Inv, LegInv, FlowInv, NEW th \in Threads, WorkerTake(th), queue[th] # <<>>
    PROVE  FlowInv' /\ TunnelRelay!Next
<1>1. PICK j : j = Head(queue[th])
  OBVIOUS
<1>2. j \in Jobs /\ j.trans = j.conn /\ j.kind \in Side /\ j.conn \in Conns
  <2>1. j \in Jobs /\ j.trans = j.conn
    BY <1>1, JobTaken, LegFacts DEF Inv
  <2> QED
    BY <2>1 DEF Jobs
<1>3. UNCHANGED <<cl, srv, up, dn, sent, got>>
  BY DEF WorkerTake
<1>4. PICK c \in Conns : c = j.conn
  BY <1>2
<1>5. j.conn \in Waits(j.kind)
  BY <1>1, JobTaken, LegFacts DEF Inv
<1>6. PICK l \in Leg : l = <<j.kind, c>>
  BY <1>2, LegPairs
<1>7. place[l] = "queued" /\ bev[l] = None /\ ~Joined(c)
  <2>1. LegWay("U", c) /\ LegWay("D", c)
    BY LegFacts DEF WayOf
  <2>2. place[l] = "queued"
    BY <1>2, <1>4, <1>5, <1>6, <2>1, LegPairs DEF LegWay
  <2>3. l[2] = c
    BY <1>6
  <2> QED
    BY <2>2, <2>3, SlotFacts
<1>8. \/ bev' = bev /\ place' = place
      \/ /\ bev' = [bev EXCEPT ![l] = c] /\ place' = [place EXCEPT ![l] = "worker"]
         /\ srv[c] = "listed"
         /\ j.kind = "D" => bev[<<"U", c>>] # None
  BY <1>1, <1>2, <1>4, <1>6 DEF WorkerTake, Serve, Attach
<1>9. CASE bev' = bev /\ place' = place
  <2>1. FlowInv' /\ \A i \in Leg : Data(up[i])' = Data(up[i]) /\ Data(dn[i])' = Data(dn[i])
    BY <1>3, <1>9, QuietFlow DEF Ready, Joined
  <2>2. TunnelRelay!Next
    BY <1>3, <1>9, <2>1, QuietRelay DEF Joined
  <2> QED
    BY <2>1, <2>2
<1>10. CASE /\ bev' = [bev EXCEPT ![l] = c] /\ place' = [place EXCEPT ![l] = "worker"]
            /\ srv[c] = "listed"
            /\ j.kind = "D" => bev[<<"U", c>>] # None
  <2>1. bev \in [Leg -> Conns \cup {None}] /\ place \in [Leg -> Places]
    BY DEF Inv, PortInv, TypeOK
  <2>2. bev'[l] = c /\ \A i \in Leg : i # l => bev'[i] = bev[i] /\ place'[i] = place[i]
    BY <1>10, <2>1
  <2>3. \A b \in Conns : b # c => (Joined(b)' <=> Joined(b))
    <3>1. \A s \in Side, b \in Conns : b # c => <<s, b>> \in Leg /\ <<s, b>> # l
      BY <1>6, LegPairs
    <3> QED
      BY <2>2, <3>1 DEF Joined
  <2>4. \A b \in Conns : Ready(b) => Ready(b)'
    BY <1>3, <1>7, <1>10, <2>3 DEF Ready
  <2>5. \A i \in Leg : /\ place'[i] = "closed" <=> place[i] = "closed"
                       /\ place[i] = "none" => place'[i] = "none"
    BY <1>7, <1>10, <2>1
  <2>6. FlowInv' /\ \A i \in Leg : Data(up[i])' = Data(up[i]) /\ Data(dn[i])' = Data(dn[i])
    BY <1>3, <2>4, <2>5, QuietFlow
  <2>7. CASE j.kind = "U"
    <3>1. bev[<<"D", c>>] # c /\ <<"D", c>> # l /\ <<"D", c>> \in Leg
      <4>1. LegWay("D", c) /\ <<"D", c>> # l /\ <<"D", c>> \in Leg
        BY <1>6, <2>7, LegPairs, LegFacts DEF WayOf
      <4>2. bev[<<"U", c>>] = None /\ c # None
        BY <1>6, <1>7, <2>7, NoneAssumption
      <4> QED
        BY <4>1, <4>2 DEF LegWay
    <3>2. ~Joined(c)'
      BY <2>2, <3>1, LegPairs DEF Joined
    <3>3. TunnelRelay!Next
      BY <1>3, <1>7, <2>3, <2>6, <3>2, QuietRelay
    <3> QED
      BY <2>6, <3>3
  <2>8. CASE j.kind = "D"
    <3>1. bev[<<"U", c>>] = c /\ <<"U", c>> # l /\ <<"U", c>> \in Leg
      BY <1>6, <1>10, <2>8, SlotFacts, LegPairs
    <3>2. Joined(c)'
      BY <1>6, <2>2, <2>8, <3>1, LegPairs DEF Joined
    <3>3. \A b \in Conns : b # c => Phase(b)' = Phase(b)
      BY <1>3, <2>3 DEF Phase
    <3>4. \A i \in Leg : Wire(i)' = Wire(i)
      BY <1>3 DEF Wire, Far
    <3>5. CASE \E s \in Side : cl[<<s, c>>] = "closed"
      <4>1. Phase(c)' = Phase(c)
        BY <1>3, <3>5 DEF Phase
      <4>2. TunnelRelay!Next
        BY <1>3, <3>3, <3>4, <4>1, BreakStep
      <4> QED
        BY <2>6, <4>2
    <3>6. CASE ~\E s \in Side : cl[<<s, c>>] = "closed"
      <4>1. Phase(c) = "idle" /\ Phase(c)' = "open"
        BY <1>3, <1>7, <1>10, <3>2, <3>6 DEF Phase
      <4>2. relayPhase' = [relayPhase EXCEPT ![c] = "open"]
        <5>1. relayPhase'[c] = "open" /\ \A b \in Conns : b # c => relayPhase'[b] = relayPhase[b]
          BY <3>3, <4>1, RelayView
        <5> QED
          BY <5>1, RelayView
      <4>3. relayPhase[c] = "idle" /\ relayWire' = relayWire /\ relayGot' = relayGot
        BY <1>3, <3>4, <4>1, RelayView
      <4>4. TunnelRelay!Join(c)
        BY <1>3, <4>2, <4>3 DEF TunnelRelay!Join
      <4> QED
        BY <2>6, <4>4 DEF TunnelRelay!Next
    <3> QED
      BY <3>5, <3>6
  <2> QED
    BY <1>2, <2>7, <2>8, LegPairs
<1> QED
  BY <1>8, <1>9, <1>10

\* The main loop takes a CONN header off a leg.
LEMMA HeaderFlow ==
    ASSUME Inv, FlowInv, NEW l \in Leg, HasConn(l), up' = [up EXCEPT ![l] = Tail(@)],
           NEW x \in {"rejected", "leaked", "queued", "lost"}, place' = [place EXCEPT ![l] = x],
           \A c \in Conns : srv'[c] = "freed" <=> srv[c] = "freed",
           UNCHANGED <<cl, bev, dn, sent, got>>
    PROVE  FlowInv' /\ TunnelRelay!Next
<1>1. up \in [Leg -> Seq(Items)] /\ place \in [Leg -> Places]
  BY DEF Inv, PortInv, TypeOK
<1>2. place[l] = "main" /\ up[l] # <<>> /\ Head(up[l]) = ConnHead
  BY DEF HasConn
<1>3. \A k \in Leg : /\ place'[k] = "closed" <=> place[k] = "closed"
                     /\ place[k] = "none" => place'[k] = "none"
  BY <1>1, <1>2
<1>4. \A k \in Leg : up'[k] = IF k = l THEN Tail(up[l]) ELSE up[k]
  BY <1>1
<1>5. \A c \in Conns : (Joined(c)' <=> Joined(c)) /\ (Ready(c)' <=> Ready(c))
  BY DEF Ready, Joined
<1>6. FlowInv' /\ \A k \in Leg : Data(up[k])' = Data(up[k]) /\ Data(dn[k])' = Data(dn[k])
  BY <1>2, <1>3, <1>4, <1>5, QuietFlow
<1>7. TunnelRelay!Next
  BY <1>5, <1>6, QuietRelay
<1> QED
  BY <1>6, <1>7

\* A client that does not have the connection yet writes the CONN header.
LEMMA ConnectFlow ==
    ASSUME Inv, FlowInv, NEW l \in Leg, cl[l] = "idle",
           up' = [up EXCEPT ![l] = <<ConnHead>>], cl' = [cl EXCEPT ![l] = "opening"],
           place' = [place EXCEPT ![l] = "main"], UNCHANGED <<srv, bev, dn, sent, got>>
    PROVE  FlowInv' /\ TunnelRelay!Next
<1>1. up \in [Leg -> Seq(Items)] /\ place \in [Leg -> Places] /\ cl \in [Leg -> ClStatus]
  BY DEF Inv, PortInv, TypeOK
<1>2. up[l] = <<>> /\ place[l] = "none"
  BY FlowFacts DEF FlowOf
<1>3. \A k \in Leg : /\ place'[k] = "closed" <=> place[k] = "closed"
                     /\ cl'[k] = "closed" <=> cl[k] = "closed"
                     /\ cl'[k] = "idle" => cl[k] = "idle" /\ place'[k] = place[k]
  BY <1>1, <1>2
<1>4. \A k \in Leg : up'[k] = up[k] \/ (up[k] = <<>> /\ up'[k] = <<ConnHead>> /\ cl'[k] # "idle")
  BY <1>1, <1>2
<1>5. \A c \in Conns : (Joined(c)' <=> Joined(c)) /\ (Ready(c)' <=> Ready(c))
  BY DEF Ready, Joined
<1>6. FlowInv' /\ \A k \in Leg : Data(up[k])' = Data(up[k]) /\ Data(dn[k])' = Data(dn[k])
  BY <1>3, <1>4, <1>5, QuietFlow
<1>7. TunnelRelay!Next
  BY <1>3, <1>5, <1>6, QuietRelay
<1> QED
  BY <1>6, <1>7

\* A client whose trans changes its status, but is not closed.
LEMMA StatusFlow ==
    ASSUME Inv, FlowInv, \A l \in Leg : /\ cl'[l] = "closed" <=> cl[l] = "closed"
                                        /\ cl'[l] = "idle" => cl[l] = "idle",
           UNCHANGED <<up, srv, bev, place, dn, sent, got>>
    PROVE  FlowInv' /\ TunnelRelay!Next
<1>1. \A c \in Conns : (Joined(c)' <=> Joined(c)) /\ (Ready(c)' <=> Ready(c))
  BY DEF Ready, Joined
<1>2. FlowInv' /\ \A k \in Leg : Data(up[k])' = Data(up[k]) /\ Data(dn[k])' = Data(dn[k])
  BY <1>1, QuietFlow
<1>3. TunnelRelay!Next
  BY <1>1, <1>2, QuietRelay
<1> QED
  BY <1>2, <1>3

\* accept_conn_cb.
LEMMA AcceptFlow ==
    ASSUME Inv, LegInv, FlowInv, NEW c \in Conns, NEW p \in Ports, UsrAccept(c, p)
    PROVE  FlowInv' /\ TunnelRelay!Next
<1>1. PICK l \in Leg : l = <<"U", c>>
  BY LegPairs
<1>2. cl[l] = "idle"
  BY <1>1, NotYetThere DEF UsrAccept
<1>3. UNCHANGED <<srv, bev, dn, sent, got>>
  BY DEF UsrAccept
<1>4. CASE ScMayCreate("U", p)
  <2>1. /\ cl' = [cl EXCEPT ![l] = "opening"] /\ place' = [place EXCEPT ![l] = "main"]
        /\ up' = [up EXCEPT ![l] = <<ConnHead>>]
    BY <1>1, <1>4 DEF UsrAccept
  <2> QED
    BY <1>2, <1>3, <2>1, ConnectFlow
<1>5. CASE ~ScMayCreate("U", p)
  <2>1. cl' = [cl EXCEPT ![l] = "refused"] /\ UNCHANGED <<place, up>>
    BY <1>1, <1>5 DEF UsrAccept
  <2>2. cl \in [Leg -> ClStatus]
    BY DEF Inv, PortInv, TypeOK
  <2>3. \A k \in Leg : /\ cl'[k] = "closed" <=> cl[k] = "closed"
                       /\ cl'[k] = "idle" => cl[k] = "idle"
    BY <1>2, <2>1, <2>2
  <2> QED
    BY <1>3, <2>1, <2>3, StatusFlow
<1> QED
  BY <1>4, <1>5

\* srv_bufferread_cb.
LEMMA CtlFlow ==
    ASSUME Inv, LegInv, FlowInv, NEW s \in Side, ClientCtl(s)
    PROVE  FlowInv' /\ TunnelRelay!Next
<1>1. PICK n \in 1..MaxBatch :
          /\ n <= Len(ctl[s].net) /\ ReadHead(s, n)
          /\ OnConnAct(s, HeadOf(s, n)) \/ OnConn(s, HeadOf(s, n))
  BY DEF ClientCtl
<1>2. UNCHANGED <<port, srv, bev, dn, queue, sent, got, alive>>
  BY DEF ClientCtl
<1>3. PICK m : m = HeadOf(s, n)
  OBVIOUS
<1>4. /\ m.of \in Conns /\ m.of \in Told(s, m.cmd)
      /\ m.cmd = "CONN" => s = "D"
  BY <1>1, <1>2, <1>3, Handled
<1>5. cl \in [Leg -> ClStatus]
  BY DEF Inv, PortInv, TypeOK
<1>6. CASE OnConnAct(s, m)
  <2> DEFINE found  == {<<s, c>> : c \in ScFind(s, m.port)}
             usable == {l \in found : cl[l] # "stuck"}
  <2>1. cl' = [l \in Leg |-> IF l \in usable THEN "active" ELSE cl[l]] /\ UNCHANGED <<place, up>>
    BY <1>6 DEF OnConnAct
  <2>2. \A l \in usable : cl[l] \notin {"idle", "closed"}
    BY DEF ScFind, ScListed
  <2>3. \A l \in Leg : /\ cl'[l] = "closed" <=> cl[l] = "closed"
                       /\ cl'[l] = "idle" => cl[l] = "idle"
    BY <2>1, <2>2
  <2> QED
    BY <1>2, <2>1, <2>3, StatusFlow
<1>7. CASE OnConn(s, m)
  <2>1. PICK l \in Leg : l = <<s, m.of>>
    BY <1>4, LegPairs
  <2>2. s = "D" /\ m.of \in Told("D", "CONN")
    BY <1>4, <1>7 DEF OnConn
  <2>3. cl[l] = "idle"
    BY <1>4, <2>1, <2>2, LegFacts DEF WayOf, TransWay
  <2>4. CASE UNCHANGED <<cl, place, up>>
    BY <1>2, <2>4, StatusFlow
  <2>5. CASE cl' = [cl EXCEPT ![l] = "stuck"] /\ UNCHANGED <<place, up>>
    <3>1. \A k \in Leg : /\ cl'[k] = "closed" <=> cl[k] = "closed"
                         /\ cl'[k] = "idle" => cl[k] = "idle"
      BY <1>5, <2>3, <2>5
    <3> QED
      BY <1>2, <2>5, <3>1, StatusFlow
  <2>6. CASE /\ cl' = [cl EXCEPT ![l] = "opening"] /\ place' = [place EXCEPT ![l] = "main"]
             /\ up' = [up EXCEPT ![l] = <<ConnHead>>]
    BY <1>2, <2>3, <2>6, ConnectFlow
  <2> QED
    BY <1>7, <2>1, <2>4, <2>5, <2>6 DEF OnConn
<1> QED
  BY <1>1, <1>3, <1>6, <1>7

\* Every step keeps the channels in order and is a step of Relay.
LEMMA StepRelay ==
    ASSUME Inv, LegInv, FlowInv, Next
    PROVE  FlowInv' /\ TunnelRelay!Next
<1> DEFINE Goal == FlowInv' /\ TunnelRelay!Next
<1>1. ASSUME NEW c \in Conns, SrvConnUsr(c) PROVE Goal
  <2>1. PICK l \in Leg : l = <<"U", c>>
    BY LegPairs
  <2>2. HasConn(l) /\ up' = [up EXCEPT ![l] = Tail(@)] /\ UNCHANGED <<cl, bev, dn, sent, got>>
    BY <1>1, <2>1 DEF SrvConnUsr
  <2>3. CASE SsMayCreate(port[c])
    <3>1. /\ srv' = [srv EXCEPT ![c] = "listed"]
          /\ \E x \in {"queued", "lost"} : place' = [place EXCEPT ![l] = x]
      BY <1>1, <2>1, <2>3 DEF SrvConnUsr, Enqueue, Handed
    <3>2. srv[c] = "none"
      BY <2>1, <2>2, UserArrives DEF HasConn
    <3>3. srv \in [Conns -> {"none", "listed", "freed"}]
      BY DEF Inv, PortInv, TypeOK
    <3>4. \A b \in Conns : srv'[b] = "freed" <=> srv[b] = "freed"
      BY <3>1, <3>2, <3>3
    <3> QED
      BY <2>2, <3>1, <3>4, HeaderFlow
  <2>4. CASE ~SsMayCreate(port[c])
    <3>1. place' = [place EXCEPT ![l] = "leaked"] /\ srv' = srv
      BY <1>1, <2>1, <2>4 DEF SrvConnUsr
    <3> QED
      BY <2>2, <3>1, HeaderFlow
  <2> QED
    BY <2>3, <2>4
<1>2. ASSUME NEW c \in Conns, SrvConnDaemon(c) PROVE Goal
  <2>1. PICK l \in Leg : l = <<"D", c>>
    BY LegPairs
  <2>2. HasConn(l) /\ up' = [up EXCEPT ![l] = Tail(@)] /\ UNCHANGED <<cl, srv, bev, dn, sent, got>>
    BY <1>2, <2>1 DEF SrvConnDaemon
  <2>3. PICK x \in {"leaked", "queued", "lost"} : place' = [place EXCEPT ![l] = x]
    BY <1>2, <2>1 DEF SrvConnDaemon, Enqueue, Handed
  <2> QED
    BY <2>2, <2>3, HeaderFlow
<1>3. ASSUME NEW l \in Leg, SrvReject(l) PROVE Goal
  <2>1. /\ HasConn(l) /\ up' = [up EXCEPT ![l] = Tail(@)] /\ place' = [place EXCEPT ![l] = "rejected"]
        /\ UNCHANGED <<cl, srv, bev, dn, sent, got>>
    BY <1>3 DEF SrvReject
  <2> QED
    BY <2>1, HeaderFlow
<1>4. ASSUME NEW l \in Leg, ClientRecv(l) PROVE Goal
  BY <1>4, RecvFlow
<1>5. ASSUME NEW l \in Leg, ClientSrvEof(l) \/ ClientLocalEof(l) PROVE Goal
  <2>1. cl[l] = "active" /\ ScFree({l}) /\ UNCHANGED <<srv, bev, place, sent, got>>
    BY <1>5 DEF ClientSrvEof, ClientLocalEof
  <2> DEFINE S == {l}
  <2>2. S \in SUBSET Leg /\ l[1] \in Side /\ \A k \in S : k[1] = l[1] /\ cl[k] \in Listed
    BY <2>1, FarFacts DEF Listed
  <2> HIDE DEF S
  <2>3. ScFree(S)
    BY <2>1 DEF S
  <2> QED
    BY <2>1, <2>2, <2>3, ScFreeFlow
<1>6. ASSUME NEW s \in Side, NEW t \in Conns, WorkerRead(s, t) PROVE Goal
  BY <1>6, ReadFlow
<1>7. ASSUME NEW s \in Side, NEW t \in Conns, WorkerEof(s, t) PROVE Goal
  <2>1. SsFree({t}) /\ UNCHANGED <<cl, sent, got>>
    BY <1>7 DEF WorkerEof
  <2> QED
    BY <2>1, SsFreeFlow
<1>8. ASSUME NEW th \in Threads, WorkerTake(th) PROVE Goal
  <2>1. CASE queue[th] = <<>>
    BY <1>8, <2>1, StatusFlow DEF WorkerTake
  <2>2. CASE queue[th] # <<>>
    BY <1>8, <2>2, TakeFlow
  <2> QED
    BY <2>1, <2>2
<1>9. ASSUME NEW s \in Side, ClientCtl(s) PROVE Goal
  BY <1>9, CtlFlow
<1>10. ASSUME SrvRemove PROVE Goal
  <2>1. SsFree(SsListed) /\ UNCHANGED <<cl, sent, got>> /\ SsListed \in SUBSET Conns
    BY <1>10 DEF SrvRemove, SsFreeAll, SsListed
  <2> QED
    BY <2>1, SsFreeFlow
<1>11. ASSUME NEW c \in Conns, NEW p \in Ports, UsrAccept(c, p) PROVE Goal
  BY <1>11, AcceptFlow
<1>12. ASSUME NEW l \in Leg, ClientSend(l) PROVE Goal
  BY <1>12, SendFlow
<1>13. ASSUME NEW s \in Side, ClientLeave(s) PROVE Goal
  <2> DEFINE S == {<<s, c>> : c \in ScListed(s)}
  <2>1. ScFree(S) /\ UNCHANGED <<srv, bev, place, sent, got>>
    BY <1>13 DEF ClientLeave, ScFreeAll
  <2>2. S \in SUBSET Leg /\ \A k \in S : k[1] = s /\ cl[k] \in Listed
    <3>1. \A c \in ScListed(s) : <<s, c>> \in Leg /\ <<s, c>>[1] = s /\ cl[<<s, c>>] \in Listed
      BY LegPairs DEF ScListed, Listed
    <3> QED
      BY <3>1
  <2> HIDE DEF S
  <2> QED
    BY <2>1, <2>2, ScFreeFlow
<1>14. CASE SrvMainEof
  BY <1>14, StatusFlow DEF SrvMainEof
<1> QED
  BY <1>1, <1>2, <1>3, <1>4, <1>5, <1>6, <1>7, <1>8, <1>9, <1>10, <1>11, <1>12, <1>13, <1>14
  DEF Next, System, Environment

\* At the start all channels are empty.
LEMMA InitRelay == Init => FlowInv /\ TunnelRelay!Init
<1> SUFFICES ASSUME Init PROVE FlowInv /\ TunnelRelay!Init
  OBVIOUS
<1>1. /\ cl = [l \in Leg |-> "idle"] /\ srv = [c \in Conns |-> "none"]
      /\ bev = [l \in Leg |-> None] /\ place = [l \in Leg |-> "none"]
      /\ up = [l \in Leg |-> <<>>] /\ dn = [l \in Leg |-> <<>>] /\ got = [l \in Leg |-> <<>>]
      /\ sent = [l \in Leg |-> 0]
  BY DEF Init
<1>2. Flow(<<>>) /\ Data(<<>>) = <<>> /\ ~Ended(<<>>) /\ Len(<<>>) = 0
  BY DataNone
<1>3. \A l \in Leg : FlowOf(l) /\ Complete(l)
  BY <1>1, <1>2, FarFacts DEF FlowOf, Complete
<1>4. \A c \in Conns : Phase(c) = "idle"
  <2>1. \A s \in Side, c \in Conns : cl[<<s, c>>] = "idle" /\ bev[<<s, c>>] # c
    BY <1>1, LegPairs, NoneAssumption
  <2> QED
    BY <1>1, <2>1, LegPairs DEF Phase, Joined
<1>5. \A l \in Leg : Wire(l) = <<>> /\ Data(got[Far(l)]) = <<>>
  <2>1. <<>> \o <<>> = <<>>
    OBVIOUS
  <2> QED
    BY <1>1, <1>2, <2>1, FarFacts DEF Wire
<1>6. TunnelRelay!Init
  BY <1>1, <1>4, <1>5, RelayView DEF TunnelRelay!Init
<1> QED
  BY <1>3, <1>6 DEF FlowInv

\* A tunnel is a connection of Relay, for every number of connections, ports and
\* workers: whatever the callbacks' order, what one peer sends reaches the other
\* in order and whole until the tunnel breaks, and then a prefix of it does.
THEOREM RelayImplemented == Spec => ImplementsRelay
<1>1. Init => (Inv /\ LegInv) /\ FlowInv /\ TunnelRelay!Init
  BY InitInv, InitLegInv, InitRelay
<1>2. (Inv /\ LegInv) /\ FlowInv /\ [Next]_vars
          => FlowInv' /\ [TunnelRelay!Next]_<<relayPhase, sent, relayWire, relayGot>>
  <2>1. CASE Next
    BY <2>1, StepRelay
  <2>2. CASE UNCHANGED vars
    <3>1. FlowInv => FlowInv'
      BY <2>2 DEF vars, FlowInv, FlowOf, Complete, Ready, Joined, Far
    <3>2. UNCHANGED <<relayPhase, sent, relayWire, relayGot>>
      BY <2>2 DEF vars, relayPhase, relayWire, relayGot, Far
    <3> QED
      BY <3>1, <3>2
  <2> QED
    BY <2>1, <2>2
<1> QED
  BY <1>1, <1>2, SpecLegInv, PTL DEF Spec, ImplementsRelay, TunnelRelay!Spec, TunnelRelay!vars
=============================================================================
