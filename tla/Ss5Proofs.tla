----------------------------- MODULE Ss5Proofs ------------------------------
(***************************************************************************)
(* Proofs about Ss5: its type invariant, that a source port names at most  *)
(* one trans on either list, that an application is told to begin only     *)
(* when the host it named is connected and gets nothing of that host       *)
(* before, which aborts are possible, and that a proxied connection is one *)
(* of Relay.                                                               *)
(*                                                                         *)
(* ToldIsConnected needs that SS5_ACT, which names a port, finds the trans *)
(* it was sent for (ActsFind).  While the client is in the session that    *)
(* trans is still listed, because a request that has not led to a          *)
(* connection keeps it (StillListed): a client's worker gives a trans up   *)
(* only before the request is sent (CltQueued) or after its bufferevents   *)
(* were enabled, which SS5_ACT itself does (OnConnected).  Then            *)
(* UniquePorts says that it is the one that is found.  No connection gets  *)
(* a second SS5_ACT, as it is in the server's queue only once (SrvQueued). *)
(*                                                                         *)
(* For the aborts (FaultInv): the two bufferevents of a trans are there    *)
(* together, from the moment at which the client's worker is done with it  *)
(* (ClientInv); the server keeps a trans listed until it is connected, and *)
(* puts an end to a data connection for good (ServerInv); so a trans is    *)
(* freed in the main loop's hands only when one of its two ends has closed *)
(* (MainEnds), and a chunk that comes before the reply comes while that    *)
(* is due (ReplyOf).                                                       *)
(***************************************************************************)
EXTENDS Ss5, SequenceTheorems, TLAPS

\* Connections that exist have a port; others are known to nobody.
PortKnown ==
    \A c \in Conns : port[c] = 0 =>
        cl[c] = "none" /\ srv[c] # "listed" /\ place[c] = "none" /\ main.conn # c

\* The client's main loop is busy with a connection; while it reads the
\* application's request no trans exists.
MainKnown ==
    /\ main.pc # "idle" => main.conn \in Conns
    /\ main.pc = "greet" => cl[main.conn] = "none"

\* Bufferevents are enabled for reading in listed trans only.
EnabledListed == \A c \in Conns : on[c] # {} => cl[c] = "listed"

\* Nothing has been sent to the server for an item in a client's queue.
CltQueued ==
    \A th \in CltThreads :
        /\ IsInjective(cqueue[th])
        /\ \A c \in Range(cqueue[th]) :
              cl[c] # "none" /\ place[c] = "none" /\ CltThread(c) = th

SrvQueued ==
    \A th \in SrvThreads :
        /\ IsInjective(squeue[th])
        /\ \A c \in Range(squeue[th]) : place[c] = "queued" /\ SrvThread(c) = th

\* The stages of a request before the server has connected.
Early == {"none", "main", "refused", "queued", "connecting", "lookup"}
NotYet == \A c \in Conns : place[c] \in Early => remote[c] = "none"

\* A request that has not led to a connection keeps its trans at the client.
StillListed ==
    \A c \in Conns : place[c] # "none" =>
        cl[c] # "none" /\ (alive /\ remote[c] = "none" => cl[c] = "listed")

\* Bufferevents are enabled, and the reply is written, for connected ones only.
OnConnected == \A c \in Conns : on[c] # {} => remote[c] # "none"
MainConnected ==
    /\ main.pc \in {"srv", "reply"} => remote[main.conn] # "none"
    /\ main.pc = "srv" /\ cl[main.conn] = "listed" => on[main.conn] # {}

\* The SS5_ACT on their way, oldest first, and what each finds at the client.
Pending == ctl.buf \o ctl.net

\* The server has connected, whichever way it writes SS5_ACT.
Opened(c) == \E how \in {"buffer", "socket"} : Open(c, how)

ActFinds(m) ==
    /\ m.port = port[m.of] /\ cl[m.of] = "listed"
    /\ on[m.of] = {} /\ remote[m.of] # "none"
ActsFind ==
    alive => \A i \in 1..Len(Pending) :
        /\ ActFinds(Pending[i])
        /\ \A j \in 1..Len(Pending) : j # i => Pending[j].of # Pending[i].of

ListInv == PortKnown /\ MainKnown /\ EnabledListed /\ UniquePorts
PortInv == TypeOK /\ ListInv
ActInv  == /\ CltQueued /\ SrvQueued /\ NotYet /\ StillListed /\ OnConnected
           /\ MainConnected /\ ActsFind /\ ToldIsConnected
Inv     == PortInv /\ ActInv

-----------------------------------------------------------------------------
(* Data connections, threads, headers.                                     *)

Channels == [Conns -> Seq(Items)]

\* The plain items and every encrypted chunk may be on a data connection.
LEMMA ItemTypes ==
    /\ Req \in Items /\ ErrHead \in Items /\ Fin \in Items
    /\ \A e \in End, c \in Conns, n \in 1..MaxData, k \in Nat : Cipher(e, c, n, k) \in Items
  BY DEF Items, Cipher

\* What comes out of decryption is a chunk, whatever was on the connection.
LEMMA DecryptType ==
    ASSUME NEW x \in Items, NEW k PROVE Decrypt(x, k) \in Chunks
<1>1. CASE x \in [tag : {"cipher"}, from : End, conn : Conns, n : 1..MaxData, pos : Nat]
  <2>1. Plain(x.from, x.conn, x.n) \in Chunks
    BY <1>1 DEF Plain, Chunks
  <2> QED
    BY <2>1 DEF Decrypt, Chunks
<1>2. CASE x \in {Req, ErrHead, Fin}
  BY <1>2 DEF Decrypt, Chunks, Req, ErrHead, Fin
<1> QED
  BY <1>1, <1>2 DEF Items

\* A data connection whose sender frees its bufferevent keeps a prefix and ends.
LEMMA CutType ==
    ASSUME NEW ch \in Channels, NEW S \in SUBSET Conns, NEW T \in SUBSET S, NEW k \in Kept(ch, S)
    PROVE  Cut(ch, T, k) \in Channels
<1>1. ASSUME NEW c \in T PROVE Append(SubSeq(ch[c], 1, k[c]), Fin) \in Seq(Items)
  <2>1. k[c] \in Nat /\ k[c] <= Len(ch[c]) /\ ch[c] \in Seq(Items)
    BY BoundsAssumption DEF Kept, Channels
  <2>2. \A i \in 1..k[c] : ch[c][i] \in Items
    BY <2>1, ElementOfSeq
  <2>3. SubSeq(ch[c], 1, k[c]) \in Seq(Items)
    BY <2>1, <2>2, SubSeqProperties
  <2> QED
    BY <2>3, ItemTypes
<1> QED
  BY <1>1 DEF Cut, Channels

\* A data connection whose reader has closed is empty.
LEMMA DropType ==
    ASSUME NEW ch \in Channels, NEW S \in SUBSET Conns
    PROVE  Drop(ch, S) \in Channels
  BY EmptySeq DEF Drop, Channels

\* A data connection that grows by an item, or loses its first.
LEMMA AppendType ==
    ASSUME NEW ch \in Channels, NEW c \in Conns, NEW x \in Items
    PROVE  [ch EXCEPT ![c] = Append(@, x)] \in Channels
  BY DEF Channels

\* v is u with x put into place p: the others keep their order.
Put(t, x, k) == SubSeq(t, 1, k) \o <<x>> \o SubSeq(t, k + 1, Len(t))
Before(i, p) == IF i < p THEN i ELSE i - 1
WithAt(v, u, x, p) ==
    /\ Len(v) = Len(u) + 1 /\ p \in 1..Len(v) /\ v[p] = x
    /\ \A i \in 1..Len(v) : i # p => Before(i, p) \in 1..Len(u) /\ v[i] = u[Before(i, p)]

LEMMA Inserted ==
    ASSUME NEW S, NEW t \in Seq(S), NEW x \in S, NEW k \in 0..Len(t)
    PROVE  Put(t, x, k) \in Seq(S) /\ WithAt(Put(t, x, k), t, x, k + 1)
<1> DEFINE a == SubSeq(t, 1, k)
           b == <<x>>
           d == SubSeq(t, k + 1, Len(t))
           e == a \o b
           f == e \o d
<1>1. Len(t) \in Nat /\ k \in Nat /\ k <= Len(t)
  BY LenProperties
<1>2. /\ a \in Seq(S) /\ Len(a) = k /\ \A i \in 1..k : a[i] = t[i]
  BY <1>1, SubSeqProperties
<1>3. /\ d \in Seq(S) /\ Len(d) = Len(t) - k
      /\ \A i \in 1..(Len(t) - k) : d[i] = t[k + i]
  BY <1>1, SubSeqProperties
<1>4. b \in Seq(S) /\ Len(b) = 1 /\ b[1] = x
  OBVIOUS
<1> HIDE DEF a, b, d
<1>5. /\ e \in Seq(S) /\ Len(e) = Len(a) + Len(b)
      /\ \A i \in 1..(Len(a) + Len(b)) : e[i] = IF i <= Len(a) THEN a[i] ELSE b[i - Len(a)]
  BY <1>2, <1>4, ConcatProperties
<1> HIDE DEF e
<1>6. e \in Seq(S) /\ d \in Seq(S)
  BY <1>3, <1>5
<1>7. /\ f \in Seq(S) /\ Len(f) = Len(e) + Len(d)
      /\ \A i \in 1..(Len(e) + Len(d)) : f[i] = IF i <= Len(e) THEN e[i] ELSE d[i - Len(e)]
  BY <1>6, ConcatProperties
<1> HIDE DEF f
<1>8. Len(e) = k + 1 /\ Len(f) = Len(t) + 1 /\ k + 1 \in 1..Len(f)
  BY <1>1, <1>2, <1>3, <1>4, <1>5, <1>7
<1>9. \A i \in 1..(k + 1) : e[i] = IF i <= k THEN t[i] ELSE x
  BY <1>1, <1>2, <1>4, <1>5
<1>10. f[k + 1] = x
  <2>1. k + 1 \in 1..(Len(e) + Len(d)) /\ k + 1 <= Len(e) /\ k + 1 \in 1..(k + 1) /\ ~(k + 1 <= k)
    BY <1>1, <1>3, <1>8
  <2>2. f[k + 1] = e[k + 1]
    BY <1>7, <2>1
  <2> QED
    BY <1>9, <2>1, <2>2
<1>11. ASSUME NEW i \in 1..Len(f), i # k + 1
       PROVE  Before(i, k + 1) \in 1..Len(t) /\ f[i] = t[Before(i, k + 1)]
  <2>1. i \in 1..(Len(e) + Len(d))
    BY <1>1, <1>3, <1>7, <1>8
  <2>2. CASE i <= k
    <3>1. Before(i, k + 1) = i /\ i \in 1..Len(t) /\ i \in 1..(k + 1)
      BY <1>1, <2>2 DEF Before
    <3>2. f[i] = e[i]
      BY <1>1, <1>7, <1>8, <2>1, <2>2
    <3> QED
      BY <1>9, <2>2, <3>1, <3>2
  <2>3. CASE ~(i <= k)
    <3>1. /\ i - (k + 1) \in 1..(Len(t) - k) /\ k + (i - (k + 1)) = i - 1 /\ ~(i <= k + 1)
          /\ Before(i, k + 1) = i - 1 /\ i - 1 \in 1..Len(t)
      BY <1>1, <1>8, <1>11, <2>3 DEF Before
    <3>2. f[i] = d[i - (k + 1)]
      BY <1>7, <1>8, <2>1, <3>1
    <3>3. d[i - (k + 1)] = t[i - 1]
      BY <1>3, <3>1
    <3> QED
      BY <3>1, <3>2, <3>3
  <2> QED
    BY <2>2, <2>3
<1>12. WithAt(f, t, x, k + 1)
  BY <1>8, <1>10, <1>11 DEF WithAt
<1>13. f = Put(t, x, k)
  BY DEF f, e, d, b, a, Put
<1> QED
  BY <1>7, <1>12, <1>13

\* What is put into the second of two sequences is put into the whole.
LEMMA ConcatInserted ==
    ASSUME NEW S, NEW s \in Seq(S), NEW t \in Seq(S), NEW w \in Seq(S), NEW x, NEW q \in Nat,
           WithAt(w, t, x, q)
    PROVE  WithAt(s \o w, s \o t, x, Len(s) + q)
<1> DEFINE u == s \o t
           v == s \o w
           p == Len(s) + q
<1>1. /\ Len(s) \in Nat /\ Len(t) \in Nat /\ Len(w) = Len(t) + 1
      /\ 1 <= q /\ q <= Len(w) /\ w[q] = x
  BY LenProperties DEF WithAt
<1>2. /\ Len(u) = Len(s) + Len(t)
      /\ \A i \in 1..(Len(s) + Len(t)) : u[i] = IF i <= Len(s) THEN s[i] ELSE t[i - Len(s)]
  BY ConcatProperties
<1>3. /\ Len(v) = Len(s) + Len(w)
      /\ \A i \in 1..(Len(s) + Len(w)) : v[i] = IF i <= Len(s) THEN s[i] ELSE w[i - Len(s)]
  BY ConcatProperties
<1> HIDE DEF u, v
<1>4. Len(v) = Len(u) + 1 /\ p \in 1..Len(v)
  BY <1>1, <1>2, <1>3
<1>5. v[p] = x
  <2>1. p \in 1..(Len(s) + Len(w)) /\ ~(p <= Len(s)) /\ p - Len(s) = q
    BY <1>1
  <2> HIDE DEF p
  <2> QED
    BY <1>1, <1>3, <2>1
<1>6. ASSUME NEW i \in 1..Len(v), i # p
      PROVE  Before(i, p) \in 1..Len(u) /\ v[i] = u[Before(i, p)]
  <2>1. i \in 1..(Len(s) + Len(w)) /\ i <= Len(s) + Len(t) + 1
    BY <1>1, <1>3
  <2>2. CASE i <= Len(s)
    <3>1. Before(i, p) = i /\ i \in 1..(Len(s) + Len(t))
      BY <1>1, <2>1, <2>2 DEF Before
    <3> QED
      BY <1>2, <1>3, <2>1, <2>2, <3>1
  <2>3. CASE ~(i <= Len(s))
    <3> DEFINE j == i - Len(s)
    <3>1. /\ j \in 1..Len(w) /\ j # q /\ Before(i, p) = Len(s) + Before(j, q)
      BY <1>1, <1>6, <2>1, <2>3 DEF Before
    <3>2. Before(j, q) \in 1..Len(t) /\ w[j] = t[Before(j, q)]
      BY <3>1 DEF WithAt
    <3>3. v[i] = w[j]
      BY <1>3, <2>1, <2>3
    <3> HIDE DEF j
    <3>4. /\ Before(i, p) \in 1..(Len(s) + Len(t)) /\ ~(Before(i, p) <= Len(s))
          /\ Before(i, p) - Len(s) = Before(j, q)
      BY <1>1, <3>1, <3>2
    <3> QED
      BY <1>2, <3>2, <3>3, <3>4
  <2> QED
    BY <2>2, <2>3
<1>7. WithAt(v, u, x, p)
  BY <1>4, <1>5, <1>6 DEF WithAt
<1> QED
  BY <1>7 DEF u, v

\* However SS5_ACT is written, it is one header more on the channel.
LEMMA TellIs ==
    ASSUME ctl \in [net : Seq(Acts), buf : Seq(Acts)], NEW c \in Conns, NEW how,
           Act(c, how) \in Acts, Tell(c, how)
    PROVE  /\ ctl' \in [net : Seq(Acts), buf : Seq(Acts)]
           /\ \E p \in Nat : WithAt(Pending', Pending, Act(c, how), p)
<1> DEFINE net == ctl.net
           buf == ctl.buf
           m   == Act(c, how)
<1>1. net \in Seq(Acts) /\ buf \in Seq(Acts) /\ m \in Acts
  OBVIOUS
<1>2. PICK k \in 0..Len(net) : ctl' = [ctl EXCEPT !.net = Put(net, m, k)]
  BY DEF Tell, Put
<1> DEFINE w == Put(net, m, k)
<1>3. ctl'.net = w /\ ctl'.buf = buf /\ ctl' = [ctl EXCEPT !.net = w]
  BY <1>2
<1>4. Pending = buf \o net /\ Pending' = buf \o w
  BY <1>3 DEF Pending
<1> HIDE DEF net, buf, m
<1>5. w \in Seq(Acts) /\ WithAt(w, net, m, k + 1)
  BY <1>1, Inserted
<1> HIDE DEF w
<1>6. ctl' \in [net : Seq(Acts), buf : Seq(Acts)]
  BY <1>3, <1>5
<1>7. k + 1 \in Nat /\ Len(buf) + (k + 1) \in Nat
  BY <1>1, LenProperties
<1>8. WithAt(buf \o w, buf \o net, m, Len(buf) + (k + 1))
  BY <1>1, <1>5, <1>7, ConcatInserted
<1> QED
  BY <1>4, <1>6, <1>7, <1>8 DEF m

\* What is taken from it is an item.
LEMMA TailType ==
    ASSUME NEW ch \in Channels, NEW c \in Conns, ch[c] # <<>>
    PROVE  [ch EXCEPT ![c] = Tail(@)] \in Channels /\ Head(ch[c]) \in Items
  BY DEF Channels

\* What the server writes to a client keeps the data connections typed.
LEMMA DownType ==
    ASSUME dn \in Channels, NEW c \in Conns, NEW x \in Items, Down(c, x)
    PROVE  dn' \in Channels
  BY AppendType DEF Down

\* A connection that exists has a number as its port, and a thread at each end.
LEMMA PortType ==
    ASSUME TypeOK, NEW c \in Conns
    PROVE  /\ port[c] # 0 => port[c] \in Ports
           /\ CltThread(c) \in CltThreads /\ SrvThread(c) \in SrvThreads
<1>1. port[c] \in Ports \cup {0}
  BY DEF TypeOK
<1>2. port[c] \in Nat
  <2>1. CASE port[c] = 0
    BY <2>1
  <2>2. CASE port[c] \in Ports
    <3>1. port[c] \in Nat \ {0}
      BY <2>2, PortsAssumption
    <3> QED
      BY <3>1
  <2> QED
    BY <1>1, <2>1, <2>2
<1> QED
  BY <1>1, <1>2, ThreadsAssumption DEF CltThread, SrvThread, CltThreads, SrvThreads

\* srv_bufferread_cb handles the oldest header and leaves the others in order.
LEMMA ReadHeadOf ==
    ASSUME TypeOK, NEW n \in 1..MaxBatch, n <= Len(ctl.net), ReadHead(n)
    PROVE  /\ ctl' \in [net : Seq(Acts), buf : Seq(Acts)]
           /\ HeadOf(n) \in Acts /\ Len(Pending) \in Nat \ {0} /\ HeadOf(n) = Pending[1]
           /\ Len(Pending') = Len(Pending) - 1
           /\ \A i \in 1..Len(Pending') : Pending'[i] = Pending[i + 1]
<1> DEFINE net  == ctl.net
           buf  == ctl.buf
           read == SubSeq(net, 1, n)
           rest == SubSeq(net, n + 1, Len(net))
           all  == buf \o read
<1>1. /\ net \in Seq(Acts) /\ buf \in Seq(Acts) /\ n \in Nat \ {0}
      /\ Len(net) \in Nat /\ Len(buf) \in Nat /\ n <= Len(net)
  BY BoundsAssumption DEF TypeOK
<1>2. \A i \in 1..Len(net) : net[i] \in Acts
  BY <1>1, ElementOfSeq
<1>3. /\ read \in Seq(Acts) /\ Len(read) = n
      /\ \A i \in 1..n : read[i] = net[i]
  BY <1>1, <1>2, SubSeqProperties
<1>4. /\ rest \in Seq(Acts) /\ Len(rest) = Len(net) - n
      /\ \A i \in 1..(Len(net) - n) : rest[i] = net[n + i]
  BY <1>1, <1>2, SubSeqProperties
<1>5. /\ all \in Seq(Acts) /\ Len(all) = Len(buf) + n
      /\ \A i \in 1..(Len(buf) + n) : all[i] = IF i <= Len(buf) THEN buf[i] ELSE net[i - Len(buf)]
  BY <1>1, <1>3, ConcatProperties
<1>6. all # <<>>
  BY <1>1, <1>5, EmptySeq, LenProperties
<1>7. /\ Head(all) \in Acts /\ Head(all) = all[1] /\ Tail(all) \in Seq(Acts)
      /\ Len(Tail(all)) = Len(buf) + n - 1
      /\ \A i \in 1..(Len(buf) + n - 1) : Tail(all)[i] = all[i + 1]
  <2> HIDE DEF all
  <2>1. /\ Head(all) \in Acts /\ Tail(all) \in Seq(Acts) /\ Len(Tail(all)) = Len(all) - 1
        /\ \A i \in 1..Len(Tail(all)) : Tail(all)[i] = all[i + 1]
    BY <1>5, <1>6, HeadTailProperties
  <2>2. Head(all) = all[1]
    BY <1>5, <1>6
  <2> QED
    BY <1>1, <1>5, <2>1, <2>2
<1>8. ctl' = [net |-> rest, buf |-> Tail(all)]
  BY DEF ReadHead
<1>9. /\ Len(Pending) = Len(buf) + Len(net)
      /\ \A i \in 1..(Len(buf) + Len(net)) :
            Pending[i] = IF i <= Len(buf) THEN buf[i] ELSE net[i - Len(buf)]
  BY <1>1, ConcatProperties DEF Pending
<1>10. Pending' = Tail(all) \o rest
  BY <1>8 DEF Pending
<1>11. /\ Len(Pending') = Len(buf) + n - 1 + (Len(net) - n)
       /\ \A i \in 1..(Len(buf) + n - 1 + (Len(net) - n)) :
             Pending'[i] = IF i <= Len(buf) + n - 1 THEN Tail(all)[i]
                           ELSE rest[i - (Len(buf) + n - 1)]
  <2> DEFINE left == Tail(all)
  <2>1. left \in Seq(Acts) /\ Len(left) = Len(buf) + n - 1 /\ Pending' = left \o rest
    BY <1>7, <1>10
  <2> HIDE DEF left, rest
  <2>2. /\ Len(left \o rest) = Len(left) + Len(rest)
        /\ \A i \in 1..(Len(left) + Len(rest)) :
              (left \o rest)[i] = IF i <= Len(left) THEN left[i] ELSE rest[i - Len(left)]
    BY <1>4, <2>1, ConcatProperties
  <2>3. Len(left) = Len(buf) + n - 1 /\ Len(rest) = Len(net) - n
    BY <1>4, <2>1
  <2> QED
    BY <2>1, <2>2, <2>3 DEF left
<1> HIDE DEF net, buf, read, rest, all
<1>12. ASSUME NEW i \in 1..Len(Pending') PROVE Pending'[i] = Pending[i + 1]
  <2>1. i \in Nat \ {0} /\ i <= Len(buf) + Len(net) - 1
    BY <1>1, <1>11, <1>12
  <2>2. CASE i <= Len(buf) + n - 1
    <3>1. i \in 1..(Len(buf) + n - 1) /\ i + 1 \in 1..(Len(buf) + n)
      BY <1>1, <2>1, <2>2
    <3>2. Pending'[i] = all[i + 1]
      BY <1>7, <1>11, <2>2, <3>1
    <3>3. i + 1 \in 1..(Len(buf) + Len(net))
      BY <1>1, <2>1
    <3> QED
      BY <1>5, <1>9, <3>1, <3>2, <3>3
  <2>3. CASE i > Len(buf) + n - 1
    <3> DEFINE k == i - (Len(buf) + n - 1)
    <3>1. k \in 1..(Len(net) - n) /\ n + k = (i + 1) - Len(buf) /\ ~(i + 1 <= Len(buf))
      BY <1>1, <2>1, <2>3
    <3>2. Pending'[i] = net[n + k]
      <4>1. rest[k] = net[n + k]
        BY <1>4, <3>1
      <4>2. ~(i <= Len(buf) + n - 1)
        BY <1>1, <2>1, <2>3
      <4> QED
        BY <1>11, <4>1, <4>2
    <3>3. i + 1 \in 1..(Len(buf) + Len(net))
      BY <1>1, <2>1
    <3> QED
      BY <1>9, <3>1, <3>2, <3>3
  <2> QED
    BY <1>1, <2>1, <2>2, <2>3
<1>13. HeadOf(n) = all[1] /\ HeadOf(n) \in Acts
  BY <1>7 DEF HeadOf, net, buf, read, all
<1>14. all[1] = Pending[1]
  BY <1>1, <1>5, <1>9
<1>15. ctl' \in [net : Seq(Acts), buf : Seq(Acts)]
  BY <1>4, <1>7, <1>8
<1> QED
  BY <1>1, <1>9, <1>11, <1>12, <1>13, <1>14, <1>15

\* A queue without repetition that is taken from loses its first element.
LEMMA TailOf ==
    ASSUME NEW q \in Seq(Conns), q # <<>>
    PROVE  /\ Head(q) \in Range(q) /\ Tail(q) \in Seq(Conns)
           /\ IsInjective(q) => /\ IsInjective(Tail(q))
                                /\ Range(Tail(q)) \subseteq Range(q) \ {Head(q)}
<1>1. /\ Tail(q) \in Seq(Conns) /\ Len(Tail(q)) = Len(q) - 1
      /\ \A i \in 1..Len(Tail(q)) : Tail(q)[i] = q[i + 1]
  BY HeadTailProperties
<1>2. Head(q) = q[1] /\ Len(q) \in Nat \ {0}
  BY EmptySeq, LenProperties
<1>3. /\ DOMAIN q = 1..Len(q) /\ DOMAIN Tail(q) = 1..Len(Tail(q)) /\ 1 \in DOMAIN q
      /\ \A i \in DOMAIN Tail(q) : i \in Nat /\ i + 1 \in DOMAIN q /\ i + 1 # 1
  BY <1>1, <1>2, LenProperties
<1>4. Head(q) \in Range(q)
  BY <1>2, <1>3 DEF Range
<1>5. IsInjective(q) => IsInjective(Tail(q))
  <2> SUFFICES ASSUME IsInjective(q), NEW i \in DOMAIN Tail(q), NEW j \in DOMAIN Tail(q),
                      Tail(q)[i] = Tail(q)[j]
               PROVE  i = j
    BY DEF IsInjective
  <2>1. q[i + 1] = q[j + 1]
    BY <1>1, <1>3
  <2>2. i + 1 = j + 1
    BY <1>3, <2>1 DEF IsInjective
  <2> QED
    BY <1>3, <2>2
<1>6. IsInjective(q) => Range(Tail(q)) \subseteq Range(q) \ {Head(q)}
  <2> SUFFICES ASSUME IsInjective(q), NEW i \in DOMAIN Tail(q)
               PROVE  Tail(q)[i] \in Range(q) \ {Head(q)}
    BY DEF Range
  <2>1. Tail(q)[i] = q[i + 1] /\ i + 1 \in DOMAIN q /\ i + 1 # 1
    BY <1>1, <1>3
  <2>2. q[i + 1] # q[1]
    BY <1>3, <2>1 DEF IsInjective
  <2> QED
    BY <1>2, <2>1, <2>2 DEF Range
<1> QED
  BY <1>1, <1>4, <1>5, <1>6

\* A queue that a new element joins stays without repetition.
LEMMA AppendOf ==
    ASSUME NEW q \in Seq(Conns), NEW c \in Conns, c \notin Range(q), IsInjective(q)
    PROVE  IsInjective(Append(q, c)) /\ Range(Append(q, c)) = Range(q) \cup {c}
<1>1. /\ Append(q, c) \in Seq(Conns) /\ Len(Append(q, c)) = Len(q) + 1 /\ Len(q) \in Nat
      /\ \A i \in 1..Len(q) : Append(q, c)[i] = q[i]
      /\ Append(q, c)[Len(q) + 1] = c
  BY AppendProperties
<1>2. DOMAIN q = 1..Len(q) /\ DOMAIN Append(q, c) = (1..Len(q)) \cup {Len(q) + 1}
  BY <1>1, LenProperties
<1> QED
  BY <1>1, <1>2 DEF IsInjective, Range

-----------------------------------------------------------------------------
(* Types and ports.                                                        *)

\* The client that frees trans takes them off its list, with their slots.
LEMMA ScFreeStep ==
    ASSUME TypeOK, NEW S \in SUBSET Conns, ScFree(S)
    PROVE  /\ cl' \in [Conns -> {"none", "listed", "freed"}]
           /\ app' \in [Conns -> {"idle", "greeting", "asked", "told", "closed"}]
           /\ slot' \in [Conns -> SUBSET Both] /\ on' \in [Conns -> SUBSET Both]
           /\ up' \in Channels /\ dn' \in Channels
           /\ \A c \in Conns : /\ cl'[c] = IF c \in S THEN "freed" ELSE cl[c]
                               /\ on'[c] = IF c \in S THEN {} ELSE on[c]
                               /\ app'[c] \in {app[c], "closed"}
<1> DEFINE open == {c \in S : "srv" \in slot[c]}
<1>1. up \in Channels /\ dn \in Channels
  BY DEF TypeOK, Channels
<1>2. PICK k \in Kept(up, open) :
          /\ cl' = [c \in Conns |-> IF c \in S THEN "freed" ELSE cl[c]]
          /\ app' = [c \in Conns |-> IF c \in S /\ "local" \in slot[c] THEN "closed"
                                                                       ELSE app[c]]
          /\ slot' = [c \in Conns |-> IF c \in S THEN {} ELSE slot[c]]
          /\ on' = [c \in Conns |-> IF c \in S THEN {} ELSE on[c]]
          /\ up' = Cut(up, open, k)
          /\ dn' = Drop(dn, open)
  BY DEF ScFree
<1>3. open \in SUBSET Conns
  OBVIOUS
<1>4. up' \in Channels /\ dn' \in Channels
  BY <1>1, <1>2, <1>3, CutType, DropType
<1> HIDE DEF open
<1> QED
  BY <1>2, <1>4 DEF TypeOK

\* The server that frees trans closes the connections of those that relay.
LEMMA SsFreeStep ==
    ASSUME TypeOK, NEW S \in SUBSET Conns, SsFree(S)
    PROVE  /\ srv' \in [Conns -> {"none", "listed", "freed"}]
           /\ place' \in [Conns -> {"none", "main", "refused", "queued", "connecting",
                                    "lookup", "worker", "closed", "leaked"}]
           /\ remote' \in [Conns -> {"none", "open", "ended", "closed"}]
           /\ up' \in Channels /\ dn' \in Channels
           /\ \A c \in Conns :
                 /\ srv'[c] = IF c \in S THEN "freed" ELSE srv[c]
                 /\ \/ place'[c] = place[c] /\ remote'[c] = remote[c]
                    \/ place[c] = "worker" /\ place'[c] = "closed" /\ remote'[c] = "closed"
<1> DEFINE open == {c \in S : place[c] = "worker"}
           told == {c \in open : cl[c] # "freed"}
<1>1. up \in Channels /\ dn \in Channels
  BY DEF TypeOK, Channels
<1>2. PICK k \in Kept(dn, open) :
          /\ srv' = [c \in Conns |-> IF c \in S THEN "freed" ELSE srv[c]]
          /\ place' = [c \in Conns |-> IF c \in open THEN "closed" ELSE place[c]]
          /\ remote' = [c \in Conns |-> IF c \in open THEN "closed" ELSE remote[c]]
          /\ dn' = Cut(dn, told, k)
          /\ up' = Drop(up, open)
  BY DEF SsFree
<1>3. open \in SUBSET Conns /\ told \in SUBSET open
  OBVIOUS
<1>4. up' \in Channels /\ dn' \in Channels
  BY <1>1, <1>2, <1>3, CutType, DropType
<1>5. /\ srv' \in [Conns -> {"none", "listed", "freed"}]
      /\ place' \in [Conns -> {"none", "main", "refused", "queued", "connecting",
                               "lookup", "worker", "closed", "leaked"}]
      /\ remote' \in [Conns -> {"none", "open", "ended", "closed"}]
  BY <1>2 DEF TypeOK
<1>6. ASSUME NEW c \in Conns
      PROVE  /\ srv'[c] = IF c \in S THEN "freed" ELSE srv[c]
             /\ \/ place'[c] = place[c] /\ remote'[c] = remote[c]
                \/ place[c] = "worker" /\ place'[c] = "closed" /\ remote'[c] = "closed"
  BY <1>2
<1> QED
  BY <1>4, <1>5, <1>6

\* A step that puts no trans on a list, and takes up no other connection,
\* keeps the ports unique.
LEMMA NothingListed ==
    ASSUME PortInv, port' = port,
           \A c \in Conns : srv'[c] # srv[c] => srv'[c] = "freed",
           \A c \in Conns : cl'[c] # cl[c] => cl[c] = "listed" /\ cl'[c] = "freed" /\ on'[c] = {},
           \A c \in Conns : on'[c] # on[c] => on'[c] = {} \/ cl'[c] = "listed",
           \A c \in Conns : place'[c] # place[c] => place[c] # "none" \/ cl[c] = "listed",
           \/ main' = main
           \/ main' = Idle
           \/ main'.conn = main.conn /\ main.pc # "idle" /\ main'.pc # "greet"
    PROVE  ListInv'
<1>1. PortKnown'
  <2>1. \A c \in Conns : Idle.conn # c
    BY NoneAssumption DEF Idle
  <2> QED
    BY <2>1 DEF PortInv, ListInv, PortKnown
<1>2. MainKnown'
  BY DEF PortInv, ListInv, MainKnown, Idle
<1>3. UniquePorts'
  BY DEF PortInv, ListInv, UniquePorts, SsListed, ScListed
<1>4. EnabledListed'
  BY DEF PortInv, ListInv, EnabledListed
<1> QED
  BY <1>1, <1>2, <1>3, <1>4 DEF ListInv

\* At the start no connection exists and nothing is listed.
LEMMA InitPortInv == Init => PortInv
<1> SUFFICES ASSUME Init PROVE PortInv
  OBVIOUS
<1>1. TypeOK
  <2>1. \A S : <<>> \in Seq(S)
    BY EmptySeq
  <2>2. pos \in [Conns -> Contexts] /\ ctl \in [net : Seq(Acts), buf : Seq(Acts)]
    BY <2>1 DEF Init, Contexts
  <2>3. main \in [pc : {"idle", "greet", "srv", "reply"}, conn : Conns \cup {None}]
    BY DEF Init, Idle
  <2> QED
    BY <2>1, <2>2, <2>3, BoundsAssumption DEF Init, TypeOK, Faults
<1>2. PortKnown
  BY NoneAssumption DEF Init, PortKnown, Idle
<1>3. MainKnown /\ EnabledListed /\ UniquePorts
  BY DEF Init, MainKnown, Idle, EnabledListed, UniquePorts, SsListed, ScListed
<1> QED
  BY <1>1, <1>2, <1>3 DEF PortInv, ListInv

\* A chunk is counted, its bytes move a cipher context on, it is passed on.
LEMMA SentType ==
    ASSUME TypeOK, NEW e \in End, NEW c \in Conns, sent[<<e, c>>] < MaxData
    PROVE  /\ sent[<<e, c>>] + 1 \in 1..MaxData
           /\ [sent EXCEPT ![<<e, c>>] = @ + 1] \in [End \X Conns -> 0..MaxData]
<1> DEFINE x == <<e, c>>
<1>1. x \in End \X Conns /\ sent[x] \in 0..MaxData /\ MaxData \in Nat
  BY BoundsAssumption DEF TypeOK
<1> HIDE DEF x
<1>2. sent[x] < MaxData => sent[x] + 1 \in 1..MaxData /\ sent[x] + 1 \in 0..MaxData
  BY <1>1
<1>3. sent[x] < MaxData => [sent EXCEPT ![x] = @ + 1] \in [End \X Conns -> 0..MaxData]
  BY <1>1, <1>2 DEF TypeOK
<1> QED
  BY <1>2, <1>3 DEF x

\* A cipher context that moves on is a context.
LEMMA PosType ==
    ASSUME TypeOK, NEW c \in Conns
    PROVE  /\ pos[c].cltEnc \in Nat /\ pos[c].srvEnc \in Nat
           /\ [pos EXCEPT ![c].cltEnc = @ + 1] \in [Conns -> Contexts]
           /\ [pos EXCEPT ![c].srvDec = @ + 1] \in [Conns -> Contexts]
           /\ [pos EXCEPT ![c].srvEnc = @ + 1] \in [Conns -> Contexts]
           /\ [pos EXCEPT ![c].cltDec = @ + 1] \in [Conns -> Contexts]
<1> DEFINE r == pos[c]
<1>1. r \in Contexts /\ pos \in [Conns -> Contexts]
  BY DEF TypeOK
<1> HIDE DEF r
<1>2. /\ [r EXCEPT !.cltEnc = @ + 1] \in Contexts /\ [r EXCEPT !.srvDec = @ + 1] \in Contexts
      /\ [r EXCEPT !.srvEnc = @ + 1] \in Contexts /\ [r EXCEPT !.cltDec = @ + 1] \in Contexts
      /\ r.cltEnc \in Nat /\ r.srvEnc \in Nat
  BY <1>1 DEF Contexts
<1>3. \A y \in Contexts : [pos EXCEPT ![c] = y] \in [Conns -> Contexts]
  BY <1>1
<1> QED
  BY <1>2, <1>3 DEF r

\* Chunks that are passed on are chunks.
LEMMA GotType ==
    ASSUME TypeOK, NEW e \in End, NEW c \in Conns, NEW x \in Chunks
    PROVE  [got EXCEPT ![<<e, c>>] = Append(@, x)] \in [End \X Conns -> Seq(Chunks)]
<1> DEFINE l == <<e, c>>
<1>1. l \in End \X Conns /\ got \in [End \X Conns -> Seq(Chunks)]
  BY DEF TypeOK
<1> HIDE DEF l
<1>2. [got EXCEPT ![l] = Append(@, x)] \in [End \X Conns -> Seq(Chunks)]
  BY <1>1
<1> QED
  BY <1>2 DEF l

\* Every callback at the two ends, and every step of the environment, keeps the
\* types.
LEMMA StepType == PortInv /\ [Next]_vars => TypeOK'
<1> SUFFICES ASSUME PortInv, [Next]_vars PROVE TypeOK'
  OBVIOUS
<1>i. TypeOK /\ PortKnown /\ MainKnown
  BY DEF PortInv, ListInv
<1> USE <1>i
<1>a. up \in Channels /\ dn \in Channels
  BY DEF TypeOK, Channels
<1>b. \A e \in End, c \in Conns : <<e, c>> \in End \X Conns
  OBVIOUS
<1>c. \A c \in Conns : main' = [pc |-> "greet", conn |-> c] =>
          main' \in [pc : {"idle", "greet", "srv", "reply"}, conn : Conns \cup {None}]
  OBVIOUS
<1>d. main' = Idle =>
          main' \in [pc : {"idle", "greet", "srv", "reply"}, conn : Conns \cup {None}]
  BY DEF Idle
<1>1. ASSUME NEW c \in Conns, NEW p \in Ports, Accept(c, p) PROVE TypeOK'
  BY <1>1, <1>c DEF Accept, TypeOK, transVars, srvVars, streamVars, lifeVars
<1>2. ASSUME NEW c \in Conns, GreetRefused(c) PROVE TypeOK'
  BY <1>2, <1>d DEF GreetRefused, TypeOK, transVars, srvVars, streamVars, lifeVars
<1>3. ASSUME NEW c \in Conns, GreetOk(c) PROVE TypeOK'
  <2>1. cqueue' \in [CltThreads -> Seq(Conns)]
    BY <1>3, PortType DEF GreetOk, TypeOK
  <2> QED
    BY <1>3, <1>d, <2>1 DEF GreetOk, TypeOK, srvVars, streamVars, lifeVars
<1>4. CASE ActLocal
  <2>1. PICK n \in 1..MaxBatch :
            /\ n <= Len(ctl.net) /\ ReadHead(n)
            /\ LET found == ScFind(HeadOf(n).port) IN
               \/ found = {} /\ UNCHANGED <<on, main, fault>>
               \/ \E c \in found :
                     /\ "local" \in slot[c]
                     /\ on' = [on EXCEPT ![c] = @ \cup {"local"}]
                     /\ main' = [pc |-> "srv", conn |-> c]
                     /\ UNCHANGED fault
               \/ /\ \E c \in found : "local" \notin slot[c]
                  /\ fault' = "null_bev"
                  /\ UNCHANGED <<on, main>>
    BY <1>4 DEF ActLocal
  <2>2. ctl' \in [net : Seq(Acts), buf : Seq(Acts)]
    BY <2>1, ReadHeadOf
  <2>3. UNCHANGED <<appVars, cl, slot, job, cqueue, srvVars, up, dn, streamVars, lifeVars>>
    BY <1>4 DEF ActLocal
  <2>4. /\ on' \in [Conns -> SUBSET Both]
        /\ main' \in [pc : {"idle", "greet", "srv", "reply"}, conn : Conns \cup {None}]
        /\ fault' \in Faults
    <3>1. CASE UNCHANGED <<on, main>> /\ fault' \in {fault, "null_bev"}
      BY <3>1 DEF TypeOK, Faults
    <3>2. ASSUME NEW c \in ScFind(HeadOf(n).port),
                 on' = [on EXCEPT ![c] = @ \cup {"local"}],
                 main' = [pc |-> "srv", conn |-> c], UNCHANGED fault
          PROVE  <2>4
      BY <3>2 DEF ScFind, ScListed, TypeOK, Both
    <3> QED
      BY <2>1, <3>1, <3>2
  <2> QED
    BY <2>2, <2>3, <2>4 DEF TypeOK, appVars, srvVars, streamVars, lifeVars
<1>5. CASE ActSrv
  <2>1. main.conn \in Conns
    BY <1>5 DEF ActSrv, MainKnown
  <2>2. /\ on' \in [Conns -> SUBSET Both]
        /\ main' \in [pc : {"idle", "greet", "srv", "reply"}, conn : Conns \cup {None}]
        /\ fault' \in Faults
    <3>1. CASE UNCHANGED <<on, main>> /\ fault' \in {"null_bev", "client_freed"}
      BY <3>1 DEF TypeOK, Faults
    <3>2. CASE /\ on' = [on EXCEPT ![main.conn] = @ \cup {"srv"}]
               /\ main' = [main EXCEPT !.pc = "reply"]
               /\ UNCHANGED fault
      BY <2>1, <3>2 DEF TypeOK, Both
    <3> QED
      BY <1>5, <3>1, <3>2 DEF ActSrv
  <2> QED
    BY <1>5, <2>2 DEF ActSrv, TypeOK, appVars, srvVars, streamVars, lifeVars
<1>6. CASE ActReply
  <2>1. main.conn \in Conns
    BY <1>6 DEF ActReply, MainKnown
  <2> QED
    BY <1>6, <1>d, <2>1 DEF ActReply, TypeOK, Faults, transVars, srvVars, streamVars, lifeVars
<1>7. CASE Leave
  <2>1. ScFree(ScListed) /\ ScListed \in SUBSET Conns
    BY <1>7 DEF Leave, ScListed
  <2>2. UNCHANGED <<port, gone, cltVars, srvVars, ctl, streamVars, session, fault>> /\ alive' = FALSE
    BY <1>7 DEF Leave
  <2> QED
    BY <2>1, <2>2, ScFreeStep DEF TypeOK, Channels, cltVars, srvVars, streamVars
<1>8. ASSUME NEW th \in CltThreads, CltTakeStale(th) PROVE TypeOK'
  BY <1>8 DEF CltTakeStale, TypeOK, Faults, appVars, transVars, cltVars, srvVars, streamVars,
              lifeVars
<1>e. \A th \in CltThreads : cqueue[th] # <<>> =>
          Head(cqueue[th]) \in Conns /\ Tail(cqueue[th]) \in Seq(Conns)
  BY HeadTailProperties DEF TypeOK
<1>f. \A th \in SrvThreads : squeue[th] # <<>> =>
          Head(squeue[th]) \in Conns /\ Tail(squeue[th]) \in Seq(Conns)
  BY HeadTailProperties DEF TypeOK
<1>9. ASSUME NEW th \in CltThreads, CltGiveUp(th) PROVE TypeOK'
  <2> DEFINE c == Head(cqueue[th])
  <2>1. c \in Conns /\ ScFree({c}) /\ {c} \in SUBSET Conns /\ Tail(cqueue[th]) \in Seq(Conns)
    BY <1>9, <1>e DEF CltGiveUp
  <2>2. /\ job' = [job EXCEPT ![c] = "done"]
        /\ cqueue' = [cqueue EXCEPT ![th] = Tail(@)]
        /\ UNCHANGED <<port, gone, main, srvVars, ctl, streamVars, lifeVars, fault>>
    BY <1>9 DEF CltGiveUp
  <2> QED
    BY <2>1, <2>2, ScFreeStep DEF TypeOK, Channels, srvVars, streamVars, lifeVars
<1>10. ASSUME NEW th \in CltThreads, CltRequest(th) PROVE TypeOK'
  <2> DEFINE c == Head(cqueue[th])
  <2>1. c \in Conns /\ Tail(cqueue[th]) \in Seq(Conns) /\ <<Req>> \in Seq(Items)
    BY <1>10, <1>e, ItemTypes DEF CltRequest
  <2>2. /\ job' = [job EXCEPT ![c] = "requested"]
        /\ up' = [up EXCEPT ![c] = <<Req>>]
        /\ place' = [place EXCEPT ![c] = "main"]
        /\ cqueue' = [cqueue EXCEPT ![th] = Tail(@)]
        /\ UNCHANGED <<appVars, transVars, main, srv, remote, squeue, dn, ctl, streamVars,
                       lifeVars, fault>>
    BY <1>10 DEF CltRequest
  <2> QED
    BY <2>1, <2>2 DEF TypeOK, appVars, transVars, streamVars, lifeVars
<1>11. ASSUME NEW c \in Conns, CltBevs(c) PROVE TypeOK'
  <2>1. /\ job' \in [Conns -> {"none", "queued", "requested", "done"}]
        /\ slot' \in [Conns -> SUBSET Both] /\ fault' \in Faults
    <3>1. CASE job' = [job EXCEPT ![c] = "done"] /\ slot' = [slot EXCEPT ![c] = Both] /\ UNCHANGED fault
      BY <3>1 DEF TypeOK
    <3>2. CASE fault' = "client_freed" /\ UNCHANGED <<job, slot>>
      BY <3>2 DEF TypeOK, Faults
    <3> QED
      BY <1>11, <3>1, <3>2 DEF CltBevs
  <2> QED
    BY <1>11, <2>1 DEF CltBevs, TypeOK, appVars, srvVars, streamVars, lifeVars
<1>12. ASSUME NEW c \in Conns, CltUp(c) PROVE TypeOK'
  <2>1. "app" \in End /\ sent[<<"app", c>>] < MaxData
    BY <1>12 DEF CltUp, End
  <2>2. /\ sent[<<"app", c>>] + 1 \in 1..MaxData /\ pos[c].cltEnc \in Nat
        /\ [sent EXCEPT ![<<"app", c>>] = @ + 1] \in [End \X Conns -> 0..MaxData]
    BY <2>1, SentType, PosType
  <2>3. [up EXCEPT ![c] = Append(@, Cipher("app", c, sent[<<"app", c>>] + 1, pos[c].cltEnc))]
            \in Channels
    BY <1>a, <2>1, <2>2, ItemTypes, AppendType
  <2>4. up' \in Channels
    BY <1>12, <1>a, <2>3 DEF CltUp
  <2>5. pos' \in [Conns -> Contexts]
    <3>1. pos' = pos \/ pos' = [pos EXCEPT ![c].cltEnc = @ + 1]
      BY <1>12 DEF CltUp
    <3>2. pos \in [Conns -> Contexts]
      BY DEF TypeOK
    <3> QED
      BY <3>1, <3>2, PosType
  <2>6. sent' \in [End \X Conns -> 0..MaxData]
    BY <1>12, <2>2 DEF CltUp, TypeOK
  <2> QED
    BY <1>12, <2>4, <2>5, <2>6 DEF CltUp, TypeOK, Channels, Faults, appVars, transVars, cltVars,
                                   srvVars, lifeVars
<1>13. ASSUME NEW c \in Conns, CltDown(c) PROVE TypeOK'
  <2>1. [dn EXCEPT ![c] = Tail(@)] \in Channels /\ Head(dn[c]) \in Items
    BY <1>13, <1>a, TailType DEF CltDown
  <2>2. Decrypt(Head(dn[c]), pos[c].cltDec) \in Chunks
    BY <2>1, DecryptType
  <2>3. dn' \in Channels
    BY <1>13, <1>a, <2>1 DEF CltDown
  <2>4. pos' \in [Conns -> Contexts]
    <3>1. pos' = pos \/ pos' = [pos EXCEPT ![c].cltDec = @ + 1]
      BY <1>13 DEF CltDown
    <3>2. pos \in [Conns -> Contexts]
      BY DEF TypeOK
    <3> QED
      BY <3>1, <3>2, PosType
  <2>5. got' \in [End \X Conns -> Seq(Chunks)]
    <3> DEFINE x == Decrypt(Head(dn[c]), pos[c].cltDec)
    <3>1. got' = got \/ got' = [got EXCEPT ![<<"app", c>>] = Append(@, x)]
      BY <1>13 DEF CltDown
    <3>2. got \in [End \X Conns -> Seq(Chunks)] /\ "app" \in End /\ x \in Chunks
      BY <2>2 DEF TypeOK, End
    <3> HIDE DEF x
    <3>3. [got EXCEPT ![<<"app", c>>] = Append(@, x)] \in [End \X Conns -> Seq(Chunks)]
      BY <3>2, GotType
    <3> QED
      BY <3>1, <3>2, <3>3
  <2> QED
    BY <1>13, <2>3, <2>4, <2>5 DEF CltDown, TypeOK, Channels, Faults, appVars, transVars, cltVars,
                                   srvVars, lifeVars
<1>14. ASSUME NEW c \in Conns, CltEof(c) PROVE TypeOK'
  <2>1. ScFree({c}) /\ {c} \in SUBSET Conns
    BY <1>14 DEF CltEof
  <2>2. UNCHANGED <<port, gone, cltVars, srvVars, ctl, streamVars, lifeVars, fault>>
    BY <1>14 DEF CltEof
  <2> QED
    BY <2>1, <2>2, ScFreeStep DEF TypeOK, Channels, cltVars, srvVars, streamVars, lifeVars
<1>15. ASSUME NEW c \in Conns, SrvSs5(c) PROVE TypeOK'
  <2>1. up' \in Channels
    BY <1>15, <1>a, TailType DEF SrvSs5, HasReq
  <2>2. squeue' \in [SrvThreads -> Seq(Conns)]
    BY <1>15, PortType DEF SrvSs5, TypeOK
  <2> QED
    BY <1>15, <2>1, <2>2 DEF SrvSs5, TypeOK, Channels, appVars, transVars, cltVars, streamVars,
                             lifeVars
<1>16. ASSUME NEW c \in Conns, SrvRefuse(c) PROVE TypeOK'
  <2>1. up' \in Channels
    BY <1>16, <1>a, TailType DEF SrvRefuse, HasReq
  <2>2. dn' \in Channels
    BY <1>16, <1>a, DownType, ItemTypes DEF SrvRefuse
  <2> QED
    BY <1>16, <2>1, <2>2 DEF SrvRefuse, TypeOK, Channels, appVars, transVars, cltVars, streamVars,
                             lifeVars
<1>17. ASSUME NEW c \in Conns, LookupFails(c) PROVE TypeOK'
  BY <1>17 DEF LookupFails, TypeOK, appVars, transVars, cltVars, streamVars, lifeVars
<1>g. ASSUME NEW c \in Conns, Opened(c), place[c] # "none"
      PROVE  /\ place' \in [Conns -> {"none", "main", "refused", "queued", "connecting",
                                      "lookup", "worker", "closed", "leaked"}]
             /\ remote' \in [Conns -> {"none", "open", "ended", "closed"}]
             /\ ctl' \in [net : Seq(Acts), buf : Seq(Acts)]
  <2>1. PICK how \in {"buffer", "socket"} : Open(c, how)
    BY <1>g DEF Opened
  <2>2. Act(c, how) \in Acts
    BY <1>g, PortType DEF Act, Acts, PortKnown
  <2>3. ctl' \in [net : Seq(Acts), buf : Seq(Acts)]
    <3>1. CASE alive
      <4>1. Tell(c, how)
        BY <2>1, <3>1 DEF Open
      <4>2. ctl \in [net : Seq(Acts), buf : Seq(Acts)]
        BY DEF TypeOK
      <4> QED
        BY <2>2, <4>1, <4>2, TellIs
    <3> QED
      BY <2>1, <3>1 DEF Open, TypeOK
  <2> QED
    BY <2>1, <2>3 DEF Open, TypeOK
<1>18. ASSUME NEW c \in Conns, LookupOk(c) PROVE TypeOK'
  <2>1. place[c] # "none" /\ (Opened(c) \/ UNCHANGED <<place, remote, ctl>>) /\ fault' \in Faults
    BY <1>18 DEF LookupOk, Opened, TypeOK, Faults
  <2>2. UNCHANGED <<appVars, transVars, cltVars, srv, squeue, up, dn, streamVars, lifeVars>>
    BY <1>18 DEF LookupOk
  <2> QED
    BY <1>g, <2>1, <2>2 DEF TypeOK, appVars, transVars, cltVars, streamVars, lifeVars
<1>19. CASE SessionEnds
  <2>1. session' \in BOOLEAN /\ UNCHANGED <<appVars, transVars, cltVars, squeue, ctl, streamVars, alive>>
    BY <1>19 DEF SessionEnds
  <2>2. CASE SsFree(SsListed) /\ UNCHANGED fault
    <3>1. SsListed \in SUBSET Conns
      BY DEF SsListed
    <3> QED
      BY <2>1, <2>2, <3>1, SsFreeStep
         DEF TypeOK, Channels, appVars, transVars, cltVars, streamVars
  <2>3. CASE fault' = "double_free" /\ UNCHANGED <<srv, place, remote, up, dn>>
    BY <2>1, <2>3 DEF TypeOK, Faults, appVars, transVars, cltVars, streamVars
  <2> QED
    BY <1>19, <2>2, <2>3 DEF SessionEnds
<1>20. ASSUME NEW th \in SrvThreads, SrvTake(th) PROVE TypeOK'
  <2> DEFINE c == Head(squeue[th])
  <2>1. c \in Conns /\ Tail(squeue[th]) \in Seq(Conns)
    BY <1>20, <1>f DEF SrvTake
  <2>2. /\ squeue' = [squeue EXCEPT ![th] = Tail(@)]
        /\ \/ \E w \in {"connecting", "lookup"} : place' = [place EXCEPT ![c] = w]
           \/ UNCHANGED place
        /\ fault' \in Faults
        /\ UNCHANGED <<appVars, transVars, cltVars, srv, remote, up, dn, ctl, streamVars, lifeVars>>
    BY <1>20 DEF SrvTake, TypeOK, Faults
  <2>3. /\ place' \in [Conns -> {"none", "main", "refused", "queued", "connecting",
                                 "lookup", "worker", "closed", "leaked"}]
        /\ squeue' \in [SrvThreads -> Seq(Conns)]
    <3> HIDE DEF c
    <3>1. CASE UNCHANGED place
      BY <2>1, <2>2, <3>1 DEF TypeOK
    <3>2. ASSUME NEW w \in {"connecting", "lookup"}, place' = [place EXCEPT ![c] = w]
          PROVE  <2>3
      BY <2>1, <2>2, <3>2 DEF TypeOK
    <3> QED
      BY <2>2, <3>1, <3>2
  <2> QED
    BY <2>2, <2>3 DEF TypeOK, appVars, transVars, cltVars, streamVars, lifeVars
<1>21. ASSUME NEW c \in Conns, ConnectFails(c) PROVE TypeOK'
  <2>1. dn' \in Channels
    BY <1>21, <1>a, DownType, ItemTypes DEF ConnectFails
  <2>2. up' \in Channels
    BY <1>21, <1>a, EmptySeq DEF ConnectFails, Channels
  <2> QED
    BY <1>21, <2>1, <2>2 DEF ConnectFails, TypeOK, Channels, appVars, transVars, cltVars,
                             streamVars, lifeVars
<1>22. ASSUME NEW c \in Conns, ConnectOk(c) PROVE TypeOK'
  <2>1. place[c] # "none" /\ (Opened(c) \/ UNCHANGED <<place, remote, ctl>>) /\ fault' \in Faults
    BY <1>22 DEF ConnectOk, Opened, TypeOK, Faults
  <2>2. UNCHANGED <<appVars, transVars, cltVars, srv, squeue, up, dn, streamVars, lifeVars>>
    BY <1>22 DEF ConnectOk
  <2> QED
    BY <1>g, <2>1, <2>2 DEF TypeOK, appVars, transVars, cltVars, streamVars, lifeVars
<1>23. ASSUME NEW c \in Conns, SrvUp(c) PROVE TypeOK'
  <2>1. up' \in Channels /\ Head(up[c]) \in Items
    BY <1>23, <1>a, TailType DEF SrvUp
  <2>2. Decrypt(Head(up[c]), pos[c].srvDec) \in Chunks
    BY <2>1, DecryptType
  <2>3. pos' \in [Conns -> Contexts]
    BY <1>23, PosType DEF SrvUp
  <2>4. got' \in [End \X Conns -> Seq(Chunks)]
    BY <1>23, <2>2, GotType DEF SrvUp, End
  <2> QED
    BY <1>23, <2>1, <2>3, <2>4 DEF SrvUp, TypeOK, Channels, appVars, transVars, cltVars, srvVars,
                                   lifeVars
<1>24. ASSUME NEW c \in Conns, SrvDown(c) PROVE TypeOK'
  <2> DEFINE x == Cipher("remote", c, sent[<<"remote", c>>] + 1, pos[c].srvEnc)
  <2>1. "remote" \in End /\ sent[<<"remote", c>>] < MaxData
    BY <1>24 DEF SrvDown, End
  <2>2. /\ sent[<<"remote", c>>] + 1 \in 1..MaxData /\ pos[c].srvEnc \in Nat
        /\ [sent EXCEPT ![<<"remote", c>>] = @ + 1] \in [End \X Conns -> 0..MaxData]
    BY <2>1, SentType, PosType
  <2>3. x \in Items /\ Down(c, x)
    BY <1>24, <2>1, <2>2, ItemTypes DEF SrvDown
  <2>4. dn' \in Channels
    BY <1>a, <2>3, DownType
  <2>5. pos' \in [Conns -> Contexts]
    BY <1>24, PosType DEF SrvDown
  <2>6. sent' \in [End \X Conns -> 0..MaxData]
    BY <1>24, <2>2 DEF SrvDown, TypeOK
  <2> QED
    BY <1>24, <2>4, <2>5, <2>6 DEF SrvDown, TypeOK, Channels, appVars, transVars, cltVars, srvVars,
                                   lifeVars
<1>25. ASSUME NEW c \in Conns, SrvEof(c) PROVE TypeOK'
  <2>1. SsFree({c}) /\ {c} \in SUBSET Conns
    BY <1>25 DEF SrvEof
  <2>2. UNCHANGED <<appVars, transVars, cltVars, squeue, ctl, streamVars, lifeVars, fault>>
    BY <1>25 DEF SrvEof
  <2> QED
    BY <2>1, <2>2, SsFreeStep DEF TypeOK, Channels, appVars, transVars, cltVars, streamVars,
                                  lifeVars
<1>26. ASSUME NEW c \in Conns, AppCloses(c) PROVE TypeOK'
  BY <1>26 DEF AppCloses, TypeOK, transVars, cltVars, srvVars, streamVars, lifeVars
<1>27. ASSUME NEW c \in Conns, RemoteCloses(c) PROVE TypeOK'
  BY <1>27 DEF RemoteCloses, TypeOK, appVars, transVars, cltVars, streamVars, lifeVars
<1>28. CASE UNCHANGED vars
  BY <1>28 DEF vars, TypeOK, appVars, transVars, cltVars, srvVars, streamVars, lifeVars
<1> QED
  BY <1>1, <1>2, <1>3, <1>4, <1>5, <1>6, <1>7, <1>8, <1>9, <1>10, <1>11, <1>12, <1>13, <1>14,
     <1>15, <1>16, <1>17, <1>18, <1>19, <1>20, <1>21, <1>22, <1>23, <1>24, <1>25, <1>26, <1>27,
     <1>28
     DEF Next, CltMainLoop, CltWorkerLoop, SrvMainLoop, SrvWorkerLoop, Environment

\* ... and the ports unique, as the server's queue holds known connections.
LEMMA StepPortInv == PortInv /\ SrvQueued /\ [Next]_vars => PortInv'
<1> SUFFICES ASSUME PortInv, SrvQueued, [Next]_vars PROVE ListInv'
  BY StepType DEF PortInv
<1>i. TypeOK /\ PortKnown /\ MainKnown /\ EnabledListed /\ UniquePorts
  BY DEF PortInv, ListInv
<1> USE <1>i
<1>1. ASSUME NEW c \in Conns, NEW p \in Ports, Accept(c, p)
      PROVE ListInv'
  <2>1. /\ port' = [port EXCEPT ![c] = p] /\ main' = [pc |-> "greet", conn |-> c]
        /\ UNCHANGED <<cl, on, srv, place>>
        /\ port[c] = 0 /\ main = Idle /\ p # 0
    BY <1>1, PortsAssumption DEF Accept, transVars, srvVars
  <2>2. cl[c] = "none" /\ srv[c] # "listed"
    BY <2>1 DEF PortKnown
  <2>3. PortKnown'
    BY <2>1 DEF PortKnown, TypeOK
  <2>4. MainKnown' /\ EnabledListed'
    BY <2>1, <2>2 DEF MainKnown, EnabledListed
  <2>5. UniquePorts'
    BY <2>1, <2>2 DEF UniquePorts, ScListed, SsListed, TypeOK
  <2> QED
    BY <2>3, <2>4, <2>5 DEF ListInv
<1>2. ASSUME NEW c \in Conns, GreetOk(c) PROVE ListInv'
  <2>1. /\ main = [pc |-> "greet", conn |-> c] /\ ScFind(port[c]) = {} /\ main' = Idle
        /\ cl' = [cl EXCEPT ![c] = "listed"] /\ UNCHANGED <<port, on, srv, place>>
    BY <1>2 DEF GreetOk, srvVars
  <2>2. port[c] # 0
    BY <2>1 DEF PortKnown
  <2>3. PortKnown' /\ MainKnown' /\ EnabledListed'
    BY <2>1, <2>2, NoneAssumption DEF PortKnown, MainKnown, EnabledListed, Idle, TypeOK
  <2>4. SsListed' = SsListed /\ ScListed' = ScListed \cup {c}
    BY <2>1 DEF SsListed, ScListed, TypeOK
  <2>5. \A b \in ScListed : port[b] # port[c]
    BY <2>1 DEF ScFind
  <2>6. UniquePorts'
    BY <2>1, <2>4, <2>5 DEF UniquePorts
  <2> QED
    BY <2>3, <2>6 DEF ListInv
<1>3. ASSUME NEW c \in Conns, SrvSs5(c) PROVE ListInv'
  <2>1. /\ place[c] = "main" /\ SsFind(port[c]) = {}
        /\ srv' = [srv EXCEPT ![c] = "listed"] /\ place' = [place EXCEPT ![c] = "queued"]
        /\ UNCHANGED <<port, cl, on, main>>
    BY <1>3 DEF SrvSs5, HasReq, appVars, transVars, cltVars
  <2>2. port[c] # 0
    BY <2>1 DEF PortKnown
  <2>3. PortKnown' /\ MainKnown' /\ EnabledListed'
    BY <2>1, <2>2 DEF PortKnown, MainKnown, EnabledListed, TypeOK
  <2>4. ScListed' = ScListed /\ SsListed' = SsListed \cup {c}
    BY <2>1 DEF SsListed, ScListed, TypeOK
  <2>5. \A b \in SsListed : port[b] # port[c]
    BY <2>1 DEF SsFind
  <2>6. UniquePorts'
    BY <2>1, <2>4, <2>5 DEF UniquePorts
  <2> QED
    BY <2>3, <2>6 DEF ListInv
<1>4. CASE ActLocal
  <2>1. UNCHANGED <<port, cl, srv, place>>
    BY <1>4 DEF ActLocal, appVars, srvVars
  <2>2. UNCHANGED main \/ \E c \in ScListed : main' = [pc |-> "srv", conn |-> c]
    BY <1>4 DEF ActLocal, ScFind
  <2>3. \/ UNCHANGED on
        \/ \E c \in ScListed : on' = [on EXCEPT ![c] = @ \cup {"local"}]
    BY <1>4 DEF ActLocal, ScFind
  <2>4. PortKnown' /\ MainKnown'
    BY <2>1, <2>2 DEF PortKnown, MainKnown, ScListed
  <2>5. EnabledListed'
    BY <2>1, <2>3 DEF EnabledListed, ScListed, TypeOK
  <2>6. UniquePorts'
    BY <2>1 DEF UniquePorts, ScListed, SsListed
  <2> QED
    BY <2>4, <2>5, <2>6 DEF ListInv
<1>5. ASSUME NEW S \in SUBSET ScListed, ScFree(S), UNCHANGED <<port, srv, place, main>>
      PROVE ListInv'
  <2>1. S \in SUBSET Conns /\ \A c \in S : cl[c] = "listed"
    BY DEF ScListed
  <2>2. \A c \in Conns :
            /\ cl'[c] # cl[c] => cl[c] = "listed" /\ cl'[c] = "freed" /\ on'[c] = {}
            /\ on'[c] # on[c] => on'[c] = {}
    BY <1>5, <2>1, ScFreeStep
  <2> QED
    BY <1>5, <2>2, NothingListed
<1>6. ASSUME NEW S \in SUBSET SsListed, SsFree(S), UNCHANGED <<port, cl, on, main>>
      PROVE ListInv'
  <2>1. S \in SUBSET Conns
    BY DEF SsListed
  <2>2. \A c \in Conns : /\ srv'[c] # srv[c] => srv'[c] = "freed"
                         /\ place'[c] # place[c] => place[c] # "none"
    BY <1>6, <2>1, SsFreeStep
  <2> QED
    BY <1>6, <2>2, NothingListed
<1>7. ASSUME UNCHANGED <<port, cl, srv>>,
             \A c \in Conns : on'[c] # on[c] => cl[c] = "listed",
             \A c \in Conns : place'[c] # place[c] => place[c] # "none" \/ cl[c] = "listed",
             \/ main' = main
             \/ main' = Idle
             \/ main'.conn = main.conn /\ main.pc # "idle" /\ main'.pc # "greet"
      PROVE ListInv'
  BY <1>7, NothingListed
<1>8. CASE ActSrv
  <2>1. /\ UNCHANGED <<port, cl, srv, place>> /\ main.pc = "srv"
        /\ main' = main \/ main' = [main EXCEPT !.pc = "reply"]
    BY <1>8 DEF ActSrv, appVars, srvVars
  <2>2. main' = main \/ (main'.conn = main.conn /\ main'.pc # "greet")
    BY <2>1 DEF TypeOK
  <2>3. \A c \in Conns : on'[c] # on[c] => cl[c] = "listed"
    BY <1>8 DEF ActSrv, TypeOK
  <2> QED
    BY <1>7, <2>1, <2>2, <2>3
<1>9. CASE ActReply
  BY <1>7, <1>9 DEF ActReply, transVars, srvVars
<1>10. ASSUME NEW c \in Conns, GreetRefused(c) PROVE ListInv'
  BY <1>7, <1>10 DEF GreetRefused, transVars, srvVars
<1>11. CASE Leave
  BY <1>5, <1>11 DEF Leave, cltVars, srvVars
<1>12. ASSUME NEW th \in CltThreads, CltGiveUp(th) PROVE ListInv'
  <2> DEFINE c == Head(cqueue[th])
  <2>1. c \in Conns
    BY <1>12, HeadTailProperties DEF CltGiveUp, TypeOK
  <2>2. {c} \in SUBSET ScListed /\ ScFree({c}) /\ UNCHANGED <<port, srv, place, main>>
    BY <1>12, <2>1 DEF CltGiveUp, ScListed, srvVars
  <2> QED
    BY <1>5, <2>2
<1>13. ASSUME NEW th \in CltThreads, CltRequest(th) PROVE ListInv'
  <2> DEFINE c == Head(cqueue[th])
  <2>1. cl[c] = "listed" /\ place' = [place EXCEPT ![c] = "main"] /\ UNCHANGED <<port, cl, on, srv, main>>
    BY <1>13 DEF CltRequest, appVars, transVars
  <2>2. \A b \in Conns : place'[b] # place[b] => b = c
    BY <2>1 DEF TypeOK
  <2> QED
    BY <1>7, <2>1, <2>2
<1>14. ASSUME NEW c \in Conns, CltEof(c) PROVE ListInv'
  <2>1. on[c] # {} /\ ScFree({c}) /\ UNCHANGED <<port, srv, place, main>>
    BY <1>14 DEF CltEof, cltVars, srvVars
  <2>2. {c} \in SUBSET ScListed
    BY <2>1 DEF EnabledListed, ScListed
  <2> QED
    BY <1>5, <2>1, <2>2
<1>15. ASSUME NEW c \in Conns,
              SrvRefuse(c) \/ LookupFails(c) \/ LookupOk(c) \/ ConnectFails(c) \/ ConnectOk(c)
       PROVE ListInv'
  <2>1. /\ place[c] # "none" /\ UNCHANGED <<port, cl, on, srv, main>>
        /\ UNCHANGED place \/ \E w : place' = [place EXCEPT ![c] = w]
    BY <1>15 DEF SrvRefuse, HasReq, LookupFails, LookupOk, ConnectFails, ConnectOk, Opened, Open,
                 appVars, transVars, cltVars
  <2>2. \A b \in Conns : place'[b] # place[b] => b = c
    BY <2>1 DEF TypeOK
  <2> QED
    BY <1>7, <2>1, <2>2
<1>16. CASE SessionEnds
  <2>1. UNCHANGED <<port, cl, on, main>>
    BY <1>16 DEF SessionEnds, appVars, transVars, cltVars
  <2>2. CASE SsFree(SsListed)
    BY <1>6, <2>1, <2>2
  <2>3. CASE UNCHANGED <<srv, place>>
    BY <1>7, <2>1, <2>3
  <2> QED
    BY <1>16, <2>2, <2>3 DEF SessionEnds
<1>17. ASSUME NEW c \in Conns, SrvEof(c) PROVE ListInv'
  <2>1. SsFree({c}) /\ UNCHANGED <<port, cl, on, main>>
    BY <1>17 DEF SrvEof, appVars, transVars, cltVars
  <2>2. \A b \in Conns : /\ srv'[b] # srv[b] => srv'[b] = "freed"
                         /\ place'[b] # place[b] => place[b] # "none"
    BY <2>1, ScFreeStep, SsFreeStep
  <2> QED
    BY <2>1, <2>2, NothingListed
<1>18. ASSUME NEW th \in SrvThreads, SrvTake(th) PROVE ListInv'
  <2> DEFINE c == Head(squeue[th])
  <2>1. place[c] = "queued"
    <3>1. squeue[th] \in Seq(Conns) /\ squeue[th] # <<>>
      BY <1>18 DEF SrvTake, TypeOK
    <3>2. c \in Range(squeue[th])
      BY <3>1, TailOf
    <3> QED
      BY <3>2 DEF SrvQueued
  <2>2. /\ UNCHANGED <<port, cl, on, srv, main>>
        /\ UNCHANGED place \/ \E w : place' = [place EXCEPT ![c] = w]
    BY <1>18 DEF SrvTake, appVars, transVars, cltVars
  <2>3. \A b \in Conns : place'[b] # place[b] => b = c
    BY <2>2 DEF TypeOK
  <2> QED
    BY <1>7, <2>1, <2>2, <2>3
<1>19. ASSUME NEW th \in CltThreads, CltTakeStale(th) PROVE ListInv'
  BY <1>7, <1>19 DEF CltTakeStale, appVars, transVars, cltVars, srvVars
<1>20. ASSUME NEW c \in Conns, CltBevs(c) \/ CltUp(c) \/ CltDown(c) PROVE ListInv'
  BY <1>7, <1>20 DEF CltBevs, CltUp, CltDown, appVars, transVars, cltVars, srvVars
<1>21. ASSUME NEW c \in Conns, SrvUp(c) \/ SrvDown(c) \/ AppCloses(c) \/ RemoteCloses(c)
       PROVE ListInv'
  BY <1>7, <1>21 DEF SrvUp, SrvDown, AppCloses, RemoteCloses, appVars, transVars, cltVars, srvVars
<1>22. CASE UNCHANGED vars
  BY <1>7, <1>22 DEF vars, appVars, transVars, cltVars, srvVars
<1> QED
  BY <1>1, <1>2, <1>3, <1>4, <1>8, <1>9, <1>10, <1>11, <1>12, <1>13, <1>14, <1>15, <1>16, <1>17,
     <1>18, <1>19, <1>20, <1>21, <1>22
     DEF Next, CltMainLoop, CltWorkerLoop, SrvMainLoop, SrvWorkerLoop, Environment

-----------------------------------------------------------------------------
(* What SS5_ACT finds.                                                     *)

\* At the start nothing is queued, connected or on its way.
LEMMA InitActInv == Init => ActInv
<1> SUFFICES ASSUME Init PROVE ActInv
  OBVIOUS
<1>1. CltQueued /\ SrvQueued
  BY DEF Init, CltQueued, SrvQueued, IsInjective, Range
<1>2. NotYet /\ StillListed /\ OnConnected /\ MainConnected /\ ToldIsConnected
  BY DEF Init, NotYet, StillListed, OnConnected, MainConnected, ToldIsConnected, Idle
<1>3. ActsFind
  <2>1. Pending = <<>>
    BY DEF Init, Pending
  <2>2. Len(Pending) = 0
    BY <2>1
  <2> QED
    BY <2>2 DEF ActsFind
<1> QED
  BY <1>1, <1>2, <1>3 DEF ActInv

\* A client's worker takes an item: the others stay, and are other connections.
LEMMA CltTakeKeeps ==
    ASSUME Inv, NEW th \in CltThreads, cqueue[th] # <<>>,
           cqueue' = [cqueue EXCEPT ![th] = Tail(@)], port' = port,
           \A c \in Conns : cl[c] # "none" => cl'[c] # "none",
           \A c \in Conns \ {Head(cqueue[th])} : place'[c] = place[c]
    PROVE  CltQueued' /\ Head(cqueue[th]) \in Conns /\ place[Head(cqueue[th])] = "none"
<1> DEFINE h == Head(cqueue[th])
<1>1. cqueue \in [CltThreads -> Seq(Conns)] /\ CltQueued
  BY DEF Inv, PortInv, TypeOK, ActInv
<1>2. \A x \in CltThreads : Range(cqueue[x]) \subseteq Conns
  BY <1>1, RangeOfSeq
<1>3. /\ h \in Range(cqueue[th]) /\ IsInjective(Tail(cqueue[th]))
      /\ Range(Tail(cqueue[th])) \subseteq Range(cqueue[th]) \ {h}
  BY <1>1, TailOf DEF CltQueued
<1>4. /\ \A x \in CltThreads : x # th => cqueue'[x] = cqueue[x]
      /\ cqueue'[th] = Tail(cqueue[th])
  BY <1>1
<1>5. \A x \in CltThreads : IsInjective(cqueue'[x]) /\ Range(cqueue'[x]) \subseteq Range(cqueue[x]) \ {h}
  BY <1>1, <1>3, <1>4 DEF CltQueued
<1>6. CltQueued'
  BY <1>1, <1>2, <1>5 DEF CltQueued, CltThread
<1> QED
  BY <1>1, <1>2, <1>3, <1>6 DEF CltQueued

\* A server's worker takes an item.
LEMMA SrvTakeKeeps ==
    ASSUME Inv, NEW th \in SrvThreads, squeue[th] # <<>>,
           squeue' = [squeue EXCEPT ![th] = Tail(@)], port' = port,
           \A c \in Conns \ {Head(squeue[th])} : place'[c] = place[c]
    PROVE  SrvQueued' /\ Head(squeue[th]) \in Conns /\ place[Head(squeue[th])] = "queued"
<1> DEFINE h == Head(squeue[th])
<1>1. squeue \in [SrvThreads -> Seq(Conns)] /\ SrvQueued
  BY DEF Inv, PortInv, TypeOK, ActInv
<1>2. \A x \in SrvThreads : Range(squeue[x]) \subseteq Conns
  BY <1>1, RangeOfSeq
<1>3. /\ h \in Range(squeue[th]) /\ IsInjective(Tail(squeue[th]))
      /\ Range(Tail(squeue[th])) \subseteq Range(squeue[th]) \ {h}
  BY <1>1, TailOf DEF SrvQueued
<1>4. /\ \A x \in SrvThreads : x # th => squeue'[x] = squeue[x]
      /\ squeue'[th] = Tail(squeue[th])
  BY <1>1
<1>5. \A x \in SrvThreads : IsInjective(squeue'[x]) /\ Range(squeue'[x]) \subseteq Range(squeue[x]) \ {h}
  BY <1>1, <1>3, <1>4 DEF SrvQueued
<1>6. SrvQueued'
  BY <1>1, <1>2, <1>5 DEF SrvQueued, SrvThread
<1> QED
  BY <1>1, <1>2, <1>3, <1>6 DEF SrvQueued

\* A step that tells no application to begin, and at most closes connections at
\* the server, keeps what SS5_ACT finds.
LEMMA ServerKeeps ==
    ASSUME Inv, UNCHANGED <<port, cl, on, cqueue, squeue, ctl, alive>>,
           main' = main \/ main' = Idle,
           \A c \in Conns : app'[c] = "told" => app[c] = "told",
           \A c \in Conns : remote'[c] = "none" => remote[c] = "none",
           \A c \in Conns : \/ place'[c] = place[c]
                            \/ {place[c], place'[c]} \cap {"none", "queued"} = {},
           NotYet'
    PROVE  ActInv'
<1>1. CltQueued /\ SrvQueued /\ StillListed /\ OnConnected /\ MainConnected /\ ActsFind
      /\ ToldIsConnected /\ TypeOK /\ MainKnown
  BY DEF Inv, ActInv, PortInv, ListInv
<1>2. CltQueued' /\ SrvQueued'
  <2>1. /\ \A th \in CltThreads : Range(cqueue[th]) \subseteq Conns
        /\ \A th \in SrvThreads : Range(squeue[th]) \subseteq Conns
    BY <1>1, RangeOfSeq DEF TypeOK
  <2> QED
    BY <1>1, <2>1 DEF CltQueued, SrvQueued, CltThread, SrvThread
<1>3. StillListed' /\ OnConnected' /\ ToldIsConnected'
  BY <1>1 DEF StillListed, OnConnected, ToldIsConnected
<1>4. MainConnected'
  BY <1>1 DEF MainConnected, MainKnown, Idle
<1>5. ActsFind'
  <2>1. Pending' = Pending /\ \A i \in 1..Len(Pending) : Pending[i] \in Acts
    BY <1>1, ElementOfSeq, ConcatProperties DEF Pending, TypeOK
  <2> QED
    BY <1>1, <2>1 DEF ActsFind, ActFinds, Acts
<1> QED
  BY <1>2, <1>3, <1>4, <1>5 DEF ActInv

\* A trans that is freed at the client has no SS5_ACT on its way, or the client
\* has left.
LEMMA ClientFreeKeeps ==
    ASSUME Inv, NEW S \in SUBSET ScListed, ScFree(S),
           UNCHANGED <<port, main, place, remote, squeue, ctl>>,
           CltQueued', alive' \in {alive, FALSE},
           alive' => \A c \in S : on[c] # {} \/ place[c] = "none"
    PROVE  ActInv'
<1>1. SrvQueued /\ NotYet /\ StillListed /\ OnConnected /\ MainConnected /\ ActsFind
      /\ ToldIsConnected /\ TypeOK /\ MainKnown
  BY DEF Inv, ActInv, PortInv, ListInv
<1>2. /\ S \in SUBSET Conns
      /\ \A c \in Conns : /\ cl'[c] = IF c \in S THEN "freed" ELSE cl[c]
                          /\ on'[c] = IF c \in S THEN {} ELSE on[c]
                          /\ app'[c] \in {app[c], "closed"}
  BY <1>1, ScFreeStep DEF ScListed
<1>3. \A c \in S : alive' => remote[c] # "none" \/ place[c] = "none"
  BY <1>1, <1>2 DEF OnConnected
<1>4. SrvQueued' /\ NotYet' /\ StillListed'
  <2>1. SrvQueued'
    BY <1>1 DEF SrvQueued, SrvThread
  <2>2. NotYet'
    BY <1>1 DEF NotYet
  <2>3. StillListed'
    BY <1>1, <1>2, <1>3 DEF StillListed
  <2> QED
    BY <2>1, <2>2, <2>3
<1>5. OnConnected' /\ ToldIsConnected' /\ MainConnected'
  BY <1>1, <1>2 DEF OnConnected, ToldIsConnected, MainConnected, MainKnown
<1>6. ActsFind'
  <2> SUFFICES ASSUME alive' PROVE ActsFind'
    BY DEF ActsFind
  <2>1. Pending' = Pending /\ \A i \in 1..Len(Pending) : Pending[i] \in Acts
    BY <1>1, ElementOfSeq, ConcatProperties DEF Pending, TypeOK
  <2>2. \A i \in 1..Len(Pending) : Pending[i].of \in Conns /\ ActFinds(Pending[i])
    BY <1>1, <2>1 DEF ActsFind, Acts
  <2>3. \A c \in S : on[c] = {} => remote[c] = "none"
    BY <1>1, <1>2 DEF NotYet, Early
  <2>4. \A i \in 1..Len(Pending) : Pending[i].of \notin S
    BY <2>2, <2>3 DEF ActFinds
  <2>5. \A i \in 1..Len(Pending) : ActFinds(Pending[i])'
    BY <1>2, <2>1, <2>2, <2>4 DEF ActFinds
  <2> QED
    BY <1>1, <2>1, <2>5 DEF ActsFind
<1> QED
  BY <1>4, <1>5, <1>6 DEF ActInv

\* The server that has connected sends the first SS5_ACT of the connection.
LEMMA OpenKeeps ==
    ASSUME Inv, NEW c \in Conns, place[c] \in {"connecting", "lookup"}, Opened(c),
           UNCHANGED <<port, app, cl, on, cqueue, main, squeue, alive>>
    PROVE  ActInv'
<1>1. CltQueued /\ SrvQueued /\ NotYet /\ StillListed /\ OnConnected /\ MainConnected
      /\ ActsFind /\ ToldIsConnected /\ TypeOK /\ PortKnown /\ MainKnown
  BY DEF Inv, ActInv, PortInv, ListInv
<1>0. PICK how \in {"buffer", "socket"} : Open(c, how)
  BY DEF Opened
<1>2. /\ place' = [place EXCEPT ![c] = "worker"] /\ remote' = [remote EXCEPT ![c] = "open"]
      /\ alive => Tell(c, how)
  BY <1>0 DEF Open
<1>3. \A b \in Conns : /\ place'[b] = IF b = c THEN "worker" ELSE place[b]
                       /\ remote'[b] = IF b = c THEN "open" ELSE remote[b]
  BY <1>1, <1>2 DEF TypeOK
<1>4. remote[c] = "none" /\ (alive => cl[c] = "listed") /\ on[c] = {}
  BY <1>1 DEF NotYet, Early, StillListed, OnConnected
<1>5. CltQueued' /\ SrvQueued'
  <2>1. /\ \A th \in CltThreads : Range(cqueue[th]) \subseteq Conns
        /\ \A th \in SrvThreads : Range(squeue[th]) \subseteq Conns
    BY <1>1, RangeOfSeq DEF TypeOK
  <2> QED
    BY <1>1, <1>3, <2>1 DEF CltQueued, SrvQueued, CltThread, SrvThread
<1>6. NotYet' /\ StillListed' /\ OnConnected' /\ ToldIsConnected'
  <2>1. NotYet'
    BY <1>1, <1>3 DEF NotYet, Early
  <2>2. StillListed'
    BY <1>1, <1>3, <1>4 DEF StillListed
  <2> QED
    BY <1>1, <1>3, <2>1, <2>2 DEF OnConnected, ToldIsConnected
<1>7. MainConnected'
  BY <1>1, <1>3 DEF MainConnected, MainKnown
<1>8. ActsFind'
  <2> SUFFICES ASSUME alive PROVE ActsFind'
    BY DEF ActsFind
  <2> DEFINE m == Act(c, how)
  <2>1. m \in Acts
    BY <1>1, PortType DEF PortKnown, Act, Acts
  <2>2. /\ Pending \in Seq(Acts) /\ Len(Pending) \in Nat
        /\ \A i \in 1..Len(Pending) : Pending[i] \in Acts
    BY <1>1, ElementOfSeq, ConcatProperties DEF Pending, TypeOK
  <2>3. PICK p \in Nat : WithAt(Pending', Pending, m, p)
    BY <1>1, <1>2, <2>1, TellIs DEF TypeOK
  <2>4. /\ Len(Pending') \in Nat /\ Pending'[p] = m
        /\ \A i \in 1..Len(Pending') : i # p =>
              Before(i, p) \in 1..Len(Pending) /\ Pending'[i] = Pending[Before(i, p)]
    BY <2>2, <2>3 DEF WithAt
  <2>5. \A i \in 1..Len(Pending) : /\ Pending[i].of \in Conns /\ ActFinds(Pending[i])
                                   /\ Pending[i].of # c
    BY <1>1, <1>4, <2>2 DEF ActsFind, ActFinds, Acts
  <2>6. m.of = c /\ m.port = port[c]
    BY DEF Act
  <2> HIDE DEF m
  <2>7. ASSUME NEW i \in 1..Len(Pending') PROVE ActFinds(Pending[i])'
    <3>1. CASE i = p
      BY <1>3, <1>4, <2>4, <2>6, <3>1 DEF ActFinds
    <3>2. CASE i # p
      <4> DEFINE x == Pending[Before(i, p)]
      <4>1. Pending'[i] = x /\ x.of \in Conns /\ x.of # c /\ ActFinds(x)
        BY <2>4, <2>5, <3>2
      <4> HIDE DEF x
      <4>2. remote'[x.of] = remote[x.of]
        BY <1>3, <4>1
      <4> QED
        BY <4>1, <4>2 DEF ActFinds
    <3> QED
      BY <3>1, <3>2
  <2>8. ASSUME NEW i \in 1..Len(Pending'), NEW j \in 1..Len(Pending'), j # i
        PROVE  Pending'[j].of # Pending'[i].of
    <3>1. CASE i = p
      BY <2>4, <2>5, <2>6, <2>8, <3>1
    <3>2. CASE j = p
      BY <2>4, <2>5, <2>6, <2>8, <3>2
    <3>3. CASE i # p /\ j # p
      <4>1. Before(i, p) # Before(j, p)
        BY <2>4, <2>8, <3>3 DEF Before
      <4>2. /\ Before(i, p) \in 1..Len(Pending) /\ Pending'[i] = Pending[Before(i, p)]
            /\ Before(j, p) \in 1..Len(Pending) /\ Pending'[j] = Pending[Before(j, p)]
        BY <2>4, <3>3
      <4> QED
        BY <1>1, <4>1, <4>2 DEF ActsFind
    <3> QED
      BY <3>1, <3>2, <3>3
  <2> QED
    BY <2>7, <2>8 DEF ActsFind
<1> QED
  BY <1>5, <1>6, <1>7, <1>8 DEF ActInv

\* Every step keeps what SS5_ACT finds.
LEMMA StepActInv == Inv /\ [Next]_vars => ActInv'
<1> SUFFICES ASSUME Inv, [Next]_vars PROVE ActInv'
  OBVIOUS
<1>i. /\ TypeOK /\ PortKnown /\ MainKnown /\ EnabledListed /\ UniquePorts
      /\ CltQueued /\ SrvQueued /\ NotYet /\ StillListed /\ OnConnected
      /\ MainConnected /\ ActsFind /\ ToldIsConnected
  BY DEF Inv, PortInv, ListInv, ActInv
<1> USE <1>i
<1>a. /\ \A th \in CltThreads : Range(cqueue[th]) \subseteq Conns
      /\ \A th \in SrvThreads : Range(squeue[th]) \subseteq Conns
  BY RangeOfSeq DEF TypeOK
<1>b. Pending \in Seq(Acts) /\ \A i \in 1..Len(Pending) : Pending[i] \in Acts
  BY ElementOfSeq, ConcatProperties DEF Pending, TypeOK
<1>1. ASSUME NEW c \in Conns, NEW p \in Ports, Accept(c, p) PROVE ActInv'
  <2>1. /\ port[c] = 0 /\ port' = [port EXCEPT ![c] = p]
        /\ app' = [app EXCEPT ![c] = "greeting"] /\ main' = [pc |-> "greet", conn |-> c]
        /\ UNCHANGED <<cl, on, cqueue, place, remote, squeue, ctl, alive>>
    BY <1>1 DEF Accept, transVars, srvVars, lifeVars
  <2>2. cl[c] = "none" /\ place[c] = "none" /\ \A b \in Conns \ {c} : port'[b] = port[b]
    BY <2>1 DEF PortKnown, TypeOK
  <2>3. CltQueued' /\ SrvQueued'
    <3>1. \A b \in Conns \ {c} : CltThread(b)' = CltThread(b) /\ SrvThread(b)' = SrvThread(b)
      BY <2>2 DEF CltThread, SrvThread
    <3>2. CltQueued'
      BY <1>a, <2>1, <2>2, <3>1 DEF CltQueued
    <3>3. SrvQueued'
      BY <1>a, <2>1, <2>2, <3>1 DEF SrvQueued
    <3> QED
      BY <3>2, <3>3
  <2>4. NotYet' /\ StillListed' /\ OnConnected'
    BY <2>1 DEF NotYet, StillListed, OnConnected
  <2>5. MainConnected' /\ ToldIsConnected'
    BY <2>1 DEF MainConnected, ToldIsConnected, TypeOK
  <2>6. ActsFind'
    <3>1. Pending' = Pending
      BY <2>1 DEF Pending
    <3>2. ASSUME alive, NEW i \in 1..Len(Pending) PROVE ActFinds(Pending[i])'
      <4> DEFINE m == Pending[i]
      <4>1. ActFinds(m) /\ m.of \in Conns \ {c}
        BY <1>b, <2>2, <3>2 DEF ActsFind, ActFinds, Acts
      <4>2. m.port = port'[m.of]
        BY <2>2, <4>1 DEF ActFinds
      <4> QED
        BY <2>1, <3>1, <4>1, <4>2 DEF ActFinds
    <3> QED
      BY <2>1, <3>1, <3>2 DEF ActsFind
  <2> QED
    BY <2>3, <2>4, <2>5, <2>6 DEF ActInv
<1>2. ASSUME NEW c \in Conns, GreetOk(c) PROVE ActInv'
  <2> DEFINE th == CltThread(c)
  <2>1. /\ main = [pc |-> "greet", conn |-> c] /\ main' = Idle
        /\ cl' = [cl EXCEPT ![c] = "listed"] /\ app' = [app EXCEPT ![c] = "asked"]
        /\ cqueue' = [cqueue EXCEPT ![th] = Append(@, c)]
        /\ UNCHANGED <<port, on, place, remote, squeue, ctl, alive>>
    BY <1>2 DEF GreetOk, srvVars, lifeVars
  <2>2. cl[c] = "none" /\ place[c] = "none" /\ th \in CltThreads
    BY <2>1, PortType DEF MainKnown, StillListed
  <2>3. \A b \in Conns : cl'[b] = IF b = c THEN "listed" ELSE cl[b]
    BY <2>1 DEF TypeOK
  <2>4. CltQueued'
    <3>1. \A x \in CltThreads : c \notin Range(cqueue[x]) /\ cqueue[x] \in Seq(Conns)
      BY <2>2 DEF CltQueued, TypeOK
    <3>2. /\ IsInjective(Append(cqueue[th], c))
          /\ Range(Append(cqueue[th], c)) = Range(cqueue[th]) \cup {c}
      BY <2>2, <3>1, AppendOf DEF CltQueued
    <3>3. \A x \in CltThreads : cqueue'[x] = IF x = th THEN Append(cqueue[th], c) ELSE cqueue[x]
      BY <2>1, <2>2 DEF TypeOK
    <3>4. \A b \in Conns : CltThread(b)' = CltThread(b)
      BY <2>1 DEF CltThread
    <3>5. ASSUME NEW x \in CltThreads, NEW b \in Range(cqueue'[x])
          PROVE  cl'[b] # "none" /\ place'[b] = "none" /\ CltThread(b)' = x
      <4>1. b \in Range(cqueue[x]) \/ (b = c /\ x = th)
        BY <3>2, <3>3
      <4>2. b \in Range(cqueue[x]) => b \in Conns
        BY <1>a
      <4> HIDE DEF th
      <4>3. CASE b \in Range(cqueue[x])
        BY <2>1, <2>3, <3>4, <4>2, <4>3 DEF CltQueued
      <4>4. CASE b = c /\ x = th
        BY <2>1, <2>2, <2>3, <3>4, <4>4 DEF th
      <4> QED
        BY <4>1, <4>3, <4>4
    <3>6. \A x \in CltThreads : IsInjective(cqueue'[x])
      BY <3>2, <3>3 DEF CltQueued
    <3> QED
      BY <3>5, <3>6 DEF CltQueued
  <2>5. SrvQueued' /\ NotYet' /\ OnConnected'
    BY <2>1 DEF SrvQueued, SrvThread, NotYet, OnConnected
  <2>6. StillListed' /\ MainConnected' /\ ToldIsConnected'
    BY <2>1, <2>3 DEF StillListed, MainConnected, Idle, ToldIsConnected, TypeOK
  <2>7. ActsFind'
    <3>1. Pending' = Pending
      BY <2>1 DEF Pending
    <3>2. alive => \A i \in 1..Len(Pending) : ActFinds(Pending[i])'
      BY <1>b, <2>1, <2>3, <3>1 DEF ActsFind, ActFinds, Acts
    <3> QED
      BY <2>1, <3>1, <3>2 DEF ActsFind
  <2> QED
    BY <2>4, <2>5, <2>6, <2>7 DEF ActInv
<1>3. CASE ActLocal
  <2>1. PICK n \in 1..MaxBatch :
            /\ n <= Len(ctl.net) /\ ReadHead(n)
            /\ \/ UNCHANGED <<on, main>>
               \/ \E c \in ScFind(HeadOf(n).port) :
                     /\ on' = [on EXCEPT ![c] = @ \cup {"local"}]
                     /\ main' = [pc |-> "srv", conn |-> c]
    BY <1>3 DEF ActLocal
  <2>2. alive /\ UNCHANGED <<port, app, cl, cqueue, place, remote, squeue, alive>>
    BY <1>3 DEF ActLocal, appVars, srvVars, lifeVars
  <2> DEFINE h == HeadOf(n)
  <2>3. /\ h = Pending[1] /\ Len(Pending) \in Nat \ {0} /\ Len(Pending') = Len(Pending) - 1
        /\ \A i \in 1..Len(Pending') : Pending'[i] = Pending[i + 1]
    BY <2>1, ReadHeadOf
  <2>4. /\ ActFinds(h) /\ h.of \in Conns
        /\ \A j \in 1..Len(Pending) : j # 1 => Pending[j].of # h.of
    <3>1. 1 \in 1..Len(Pending)
      BY <2>3
    <3> QED
      BY <1>b, <2>2, <2>3, <3>1 DEF ActsFind, Acts
  <2> HIDE DEF h
  <2>5. \A c \in ScFind(h.port) : c = h.of
    BY <2>4 DEF ActFinds, ScFind, ScListed, UniquePorts
  <2>6. \/ UNCHANGED <<on, main>>
        \/ /\ on' = [on EXCEPT ![h.of] = @ \cup {"local"}]
           /\ main' = [pc |-> "srv", conn |-> h.of]
    BY <2>1, <2>5 DEF h
  <2>7. /\ \A c \in Conns \ {h.of} : on'[c] = on[c]
        /\ main' # main => on'[h.of] # {}
    <3>1. h.of \in Conns /\ on \in [Conns -> SUBSET Both]
      BY <2>4 DEF TypeOK
    <3>2. CASE on' = [on EXCEPT ![h.of] = @ \cup {"local"}]
      <4>1. on'[h.of] = on[h.of] \cup {"local"} /\ \A c \in Conns \ {h.of} : on'[c] = on[c]
        BY <3>1, <3>2
      <4> QED
        BY <4>1
    <3> QED
      BY <2>6, <3>2
  <2>8. CltQueued' /\ SrvQueued' /\ NotYet' /\ StillListed' /\ ToldIsConnected'
    BY <2>2 DEF CltQueued, CltThread, SrvQueued, SrvThread, NotYet, StillListed, ToldIsConnected
  <2>9. OnConnected' /\ MainConnected'
    <3>1. remote[h.of] # "none"
      BY <2>4 DEF ActFinds
    <3>2. OnConnected'
      BY <2>2, <2>7, <3>1 DEF OnConnected
    <3>3. MainConnected'
      BY <2>2, <2>4, <2>6, <2>7, <3>1 DEF MainConnected, TypeOK
    <3> QED
      BY <3>2, <3>3
  <2>10. ActsFind'
    <3>1. ASSUME NEW i \in 1..Len(Pending') PROVE i + 1 \in 1..Len(Pending) /\ i + 1 # 1
      BY <2>3
    <3>2. ASSUME NEW i \in 1..Len(Pending') PROVE ActFinds(Pending[i])'
      <4> DEFINE m == Pending[i + 1]
      <4>1. Pending'[i] = m /\ ActFinds(m) /\ m.of \in Conns \ {h.of}
        BY <1>b, <2>2, <2>3, <2>4, <3>1 DEF ActsFind, Acts
      <4> HIDE DEF m
      <4> QED
        BY <2>2, <2>7, <4>1 DEF ActFinds
    <3>3. ASSUME NEW i \in 1..Len(Pending'), NEW j \in 1..Len(Pending'), j # i
          PROVE  Pending'[j].of # Pending'[i].of
      <4>1. i + 1 # j + 1
        BY <2>3, <3>3
      <4> QED
        BY <2>2, <2>3, <3>1, <4>1 DEF ActsFind
    <3> QED
      BY <3>2, <3>3 DEF ActsFind
  <2> QED
    BY <2>8, <2>9, <2>10 DEF ActInv
<1>4. CASE ActSrv
  <2> DEFINE c == main.conn
  <2>1. main.pc = "srv" /\ c \in Conns
    BY <1>4 DEF ActSrv, MainKnown
  <2>2. UNCHANGED <<port, app, cl, cqueue, place, remote, squeue, ctl, alive>>
    BY <1>4 DEF ActSrv, appVars, srvVars, lifeVars
  <2>3. \/ UNCHANGED <<on, main>>
        \/ /\ cl[c] = "listed" /\ on' = [on EXCEPT ![c] = @ \cup {"srv"}]
           /\ main' = [main EXCEPT !.pc = "reply"]
    BY <1>4 DEF ActSrv
  <2>4. CASE UNCHANGED <<on, main>>
    BY <2>2, <2>4, ServerKeeps DEF NotYet
  <2>5. CASE /\ cl[c] = "listed" /\ on' = [on EXCEPT ![c] = @ \cup {"srv"}]
             /\ main' = [main EXCEPT !.pc = "reply"]
    <3>1. remote[c] # "none" /\ on[c] # {}
      BY <2>1, <2>5 DEF MainConnected
    <3>2. (\A b \in Conns \ {c} : on'[b] = on[b]) /\ main'.pc = "reply" /\ main'.conn = c
      BY <2>1, <2>5 DEF TypeOK
    <3> HIDE DEF c
    <3>3. CltQueued' /\ SrvQueued' /\ NotYet' /\ StillListed' /\ ToldIsConnected'
      BY <2>2 DEF CltQueued, CltThread, SrvQueued, SrvThread, NotYet, StillListed, ToldIsConnected
    <3>4. OnConnected' /\ MainConnected'
      BY <2>2, <3>1, <3>2 DEF OnConnected, MainConnected
    <3>5. ActsFind'
      <4>1. Pending' = Pending
        BY <2>2 DEF Pending
      <4>2. alive => \A i \in 1..Len(Pending) : ActFinds(Pending[i])'
        BY <1>b, <2>2, <3>1, <3>2, <4>1 DEF ActsFind, ActFinds, Acts
      <4> QED
        BY <2>2, <4>1, <4>2 DEF ActsFind
    <3> QED
      BY <3>3, <3>4, <3>5 DEF ActInv
  <2> QED
    BY <2>3, <2>4, <2>5
<1>5. CASE ActReply
  <2> DEFINE c == main.conn
  <2>1. /\ main.pc = "reply" /\ c \in Conns /\ remote[c] # "none"
    BY <1>5 DEF ActReply, MainKnown, MainConnected
  <2>2. /\ UNCHANGED <<port, cl, on, cqueue, place, remote, squeue, ctl, alive>>
        /\ main' \in {main, Idle}
        /\ app' = app \/ app' = [app EXCEPT ![c] = "told"]
    BY <1>5 DEF ActReply, transVars, srvVars, lifeVars
  <2>3. ToldIsConnected'
    BY <2>1, <2>2 DEF ToldIsConnected, TypeOK
  <2>4. CltQueued' /\ SrvQueued' /\ NotYet' /\ StillListed' /\ OnConnected' /\ MainConnected'
    BY <2>2 DEF CltQueued, CltThread, SrvQueued, SrvThread, NotYet, StillListed, OnConnected,
                MainConnected, Idle
  <2>5. ActsFind'
    <3>1. Pending' = Pending /\ \A i \in 1..Len(Pending) : ActFinds(Pending[i])' <=> ActFinds(Pending[i])
      BY <2>2 DEF Pending, ActFinds
    <3> QED
      BY <2>2, <3>1 DEF ActsFind
  <2> QED
    BY <2>3, <2>4, <2>5 DEF ActInv
<1>6. CASE Leave
  <2>1. /\ ScFree(ScListed) /\ alive' = FALSE
        /\ UNCHANGED <<port, cqueue, main, place, remote, squeue, ctl>>
    BY <1>6 DEF Leave, cltVars, srvVars
  <2>2. CltQueued'
    <3>1. \A c \in Conns : cl[c] # "none" => cl'[c] # "none"
      BY <2>1, ScFreeStep DEF ScListed
    <3> QED
      BY <1>a, <2>1, <3>1 DEF CltQueued, CltThread
  <2> QED
    BY <2>1, <2>2, ClientFreeKeeps
<1>7. ASSUME NEW th \in CltThreads, CltGiveUp(th) PROVE ActInv'
  <2> DEFINE c == Head(cqueue[th])
  <2>1. /\ cqueue[th] # <<>> /\ cl[c] = "listed" /\ ScFree({c})
        /\ cqueue' = [cqueue EXCEPT ![th] = Tail(@)]
        /\ UNCHANGED <<port, main, place, remote, squeue, ctl, alive>>
    BY <1>7 DEF CltGiveUp, srvVars, lifeVars
  <2>2. c \in Conns
    BY <2>1, TailOf, <1>a DEF TypeOK
  <2>3. \A b \in Conns : cl[b] # "none" => cl'[b] # "none"
    BY <2>1, <2>2, ScFreeStep
  <2>4. CltQueued' /\ place[c] = "none"
    BY <2>1, <2>3, CltTakeKeeps
  <2>5. {c} \in SUBSET ScListed
    BY <2>1, <2>2 DEF ScListed
  <2> QED
    BY <2>1, <2>4, <2>5, ClientFreeKeeps
<1>8. ASSUME NEW c \in Conns, CltEof(c) PROVE ActInv'
  <2>1. /\ on[c] # {} /\ ScFree({c})
        /\ UNCHANGED <<port, cqueue, main, place, remote, squeue, ctl, alive>>
    BY <1>8 DEF CltEof, cltVars, srvVars, lifeVars
  <2>2. {c} \in SUBSET ScListed
    BY <2>1 DEF EnabledListed, ScListed
  <2>3. CltQueued'
    <3>1. \A b \in Conns : cl[b] # "none" => cl'[b] # "none"
      BY <2>1, ScFreeStep
    <3> QED
      BY <1>a, <2>1, <3>1 DEF CltQueued, CltThread
  <2> QED
    BY <2>1, <2>2, <2>3, ClientFreeKeeps
<1>9. ASSUME NEW th \in CltThreads, CltRequest(th) PROVE ActInv'
  <2> DEFINE c == Head(cqueue[th])
  <2>1. /\ cqueue[th] # <<>> /\ cl[c] = "listed"
        /\ cqueue' = [cqueue EXCEPT ![th] = Tail(@)]
        /\ place' = [place EXCEPT ![c] = "main"]
        /\ UNCHANGED <<port, app, cl, on, main, remote, squeue, ctl, alive>>
    BY <1>9 DEF CltRequest, appVars, transVars, lifeVars
  <2>2. \A b \in Conns : place'[b] = IF b = c THEN "main" ELSE place[b]
    BY <2>1 DEF TypeOK
  <2>3. CltQueued' /\ c \in Conns /\ place[c] = "none"
    BY <2>1, <2>2, CltTakeKeeps
  <2> HIDE DEF c
  <2>4. SrvQueued'
    BY <1>a, <2>1, <2>2, <2>3 DEF SrvQueued, SrvThread
  <2>5. NotYet'
    BY <2>1, <2>2, <2>3 DEF NotYet, Early
  <2>6. StillListed'
    BY <2>1, <2>2 DEF StillListed
  <2>7. OnConnected' /\ MainConnected' /\ ToldIsConnected'
    BY <2>1 DEF OnConnected, MainConnected, ToldIsConnected
  <2>8. ActsFind'
    <3>1. Pending' = Pending /\ \A i \in 1..Len(Pending) : ActFinds(Pending[i])' <=> ActFinds(Pending[i])
      BY <2>1 DEF Pending, ActFinds
    <3> QED
      BY <2>1, <3>1 DEF ActsFind
  <2> QED
    BY <2>3, <2>4, <2>5, <2>6, <2>7, <2>8 DEF ActInv
<1>10. ASSUME NEW c \in Conns, SrvSs5(c) PROVE ActInv'
  <2> DEFINE th == SrvThread(c)
  <2>1. /\ place[c] = "main" /\ place' = [place EXCEPT ![c] = "queued"]
        /\ squeue' = [squeue EXCEPT ![th] = Append(@, c)]
        /\ UNCHANGED <<port, app, cl, on, cqueue, main, remote, ctl, alive>>
    BY <1>10 DEF SrvSs5, HasReq, appVars, transVars, cltVars, lifeVars
  <2>2. th \in SrvThreads /\ \A b \in Conns : place'[b] = IF b = c THEN "queued" ELSE place[b]
    BY <2>1, PortType DEF TypeOK
  <2>3. SrvQueued'
    <3>1. \A x \in SrvThreads : c \notin Range(squeue[x]) /\ squeue[x] \in Seq(Conns)
      BY <2>1 DEF SrvQueued, TypeOK
    <3>2. /\ IsInjective(Append(squeue[th], c))
          /\ Range(Append(squeue[th], c)) = Range(squeue[th]) \cup {c}
      BY <2>2, <3>1, AppendOf DEF SrvQueued
    <3>3. \A x \in SrvThreads : squeue'[x] = IF x = th THEN Append(squeue[th], c) ELSE squeue[x]
      BY <2>1, <2>2 DEF TypeOK
    <3>4. \A b \in Conns : SrvThread(b)' = SrvThread(b)
      BY <2>1 DEF SrvThread
    <3>5. ASSUME NEW x \in SrvThreads, NEW b \in Range(squeue'[x])
          PROVE  place'[b] = "queued" /\ SrvThread(b)' = x
      <4>1. b \in Range(squeue[x]) \/ (b = c /\ x = th)
        BY <3>2, <3>3
      <4>2. b \in Range(squeue[x]) => b \in Conns
        BY <1>a
      <4> HIDE DEF th
      <4>3. CASE b \in Range(squeue[x])
        BY <2>2, <3>4, <4>2, <4>3 DEF SrvQueued
      <4>4. CASE b = c /\ x = th
        BY <2>2, <3>4, <4>4 DEF th
      <4> QED
        BY <4>1, <4>3, <4>4
    <3>6. \A x \in SrvThreads : IsInjective(squeue'[x])
      BY <3>2, <3>3 DEF SrvQueued
    <3> QED
      BY <3>5, <3>6 DEF SrvQueued
  <2>4. CltQueued'
    BY <1>a, <2>1, <2>2 DEF CltQueued, CltThread
  <2>5. NotYet' /\ StillListed'
    BY <2>1, <2>2 DEF NotYet, Early, StillListed
  <2>6. OnConnected' /\ MainConnected' /\ ToldIsConnected'
    BY <2>1 DEF OnConnected, MainConnected, ToldIsConnected
  <2>7. ActsFind'
    <3>1. Pending' = Pending /\ \A i \in 1..Len(Pending) : ActFinds(Pending[i])' <=> ActFinds(Pending[i])
      BY <2>1 DEF Pending, ActFinds
    <3> QED
      BY <2>1, <3>1 DEF ActsFind
  <2> QED
    BY <2>3, <2>4, <2>5, <2>6, <2>7 DEF ActInv
<1>11. ASSUME NEW th \in SrvThreads, SrvTake(th) PROVE ActInv'
  <2> DEFINE c == Head(squeue[th])
  <2>1. /\ squeue[th] # <<>> /\ squeue' = [squeue EXCEPT ![th] = Tail(@)]
        /\ UNCHANGED <<port, app, cl, on, cqueue, main, remote, ctl, alive>>
        /\ \/ UNCHANGED place
           \/ \E w \in {"connecting", "lookup"} : place' = [place EXCEPT ![c] = w]
    BY <1>11 DEF SrvTake, appVars, transVars, cltVars, lifeVars
  <2>2. /\ \A b \in Conns : b # c => place'[b] = place[b]
        /\ c \in Conns => place'[c] \in {place[c], "connecting", "lookup"}
    BY <2>1 DEF TypeOK
  <2>3. SrvQueued' /\ c \in Conns /\ place[c] = "queued"
    BY <2>1, <2>2, SrvTakeKeeps
  <2> HIDE DEF c
  <2>4. CltQueued'
    BY <1>a, <2>1, <2>2, <2>3 DEF CltQueued, CltThread
  <2>5. NotYet' /\ StillListed'
    BY <2>1, <2>2, <2>3 DEF NotYet, Early, StillListed
  <2>6. OnConnected' /\ MainConnected' /\ ToldIsConnected'
    BY <2>1 DEF OnConnected, MainConnected, ToldIsConnected
  <2>7. ActsFind'
    <3>1. Pending' = Pending /\ \A i \in 1..Len(Pending) : ActFinds(Pending[i])' <=> ActFinds(Pending[i])
      BY <2>1 DEF Pending, ActFinds
    <3> QED
      BY <2>1, <3>1 DEF ActsFind
  <2> QED
    BY <2>3, <2>4, <2>5, <2>6, <2>7 DEF ActInv
<1>12. ASSUME NEW c \in Conns, LookupOk(c) \/ ConnectOk(c) PROVE ActInv'
  <2>1. /\ place[c] \in {"connecting", "lookup"}
        /\ UNCHANGED <<port, app, cl, on, cqueue, main, squeue, alive>>
        /\ Opened(c) \/ UNCHANGED <<place, remote, ctl>>
    BY <1>12 DEF LookupOk, ConnectOk, Opened, appVars, transVars, cltVars, lifeVars
  <2>2. CASE Opened(c)
    BY <2>1, <2>2, OpenKeeps
  <2>3. CASE UNCHANGED <<place, remote, ctl>>
    BY <2>1, <2>3, ServerKeeps DEF NotYet
  <2> QED
    BY <2>1, <2>2, <2>3
<1>13. ASSUME NEW c \in Conns, SrvRefuse(c) \/ LookupFails(c) \/ ConnectFails(c) PROVE ActInv'
  <2>1. /\ UNCHANGED <<port, app, cl, on, cqueue, main, squeue, ctl, alive, remote>>
        /\ place[c] \in {"main", "lookup", "connecting"}
        /\ \E w \in {"refused", "leaked", "closed"} : place' = [place EXCEPT ![c] = w]
    BY <1>13 DEF SrvRefuse, HasReq, LookupFails, ConnectFails, appVars, transVars, cltVars, lifeVars
  <2>2. \A b \in Conns : place'[b] = place[b] \/ (b = c /\ place'[b] \in {"refused", "leaked", "closed"})
    BY <2>1 DEF TypeOK
  <2>3. NotYet'
    BY <2>1, <2>2 DEF NotYet, Early
  <2> QED
    BY <2>1, <2>2, <2>3, ServerKeeps
<1>14. ASSUME NEW S \in SUBSET Conns, SsFree(S),
              UNCHANGED <<port, app, cl, on, cqueue, main, squeue, ctl, alive>>
       PROVE  ActInv'
  <2>1. \A c \in Conns : \/ place'[c] = place[c] /\ remote'[c] = remote[c]
                         \/ place[c] = "worker" /\ place'[c] = "closed" /\ remote'[c] = "closed"
    BY <1>14, SsFreeStep
  <2>2. NotYet'
    BY <2>1 DEF NotYet, Early
  <2> QED
    BY <1>14, <2>1, <2>2, ServerKeeps
<1>15. CASE SessionEnds
  <2>1. UNCHANGED <<port, app, cl, on, cqueue, main, squeue, ctl, alive>>
    BY <1>15 DEF SessionEnds, appVars, transVars, cltVars
  <2>2. CASE SsFree(SsListed)
    <3>1. SsListed \in SUBSET Conns
      BY DEF SsListed
    <3> QED
      BY <1>14, <2>1, <2>2, <3>1
  <2>3. CASE UNCHANGED <<place, remote>>
    BY <2>1, <2>3, ServerKeeps DEF NotYet
  <2> QED
    BY <1>15, <2>2, <2>3 DEF SessionEnds
<1>16. ASSUME NEW c \in Conns, SrvEof(c) PROVE ActInv'
  BY <1>14, <1>16 DEF SrvEof, appVars, transVars, cltVars, lifeVars
<1>17. ASSUME UNCHANGED <<port, cl, on, cqueue, squeue, ctl, alive, place>>,
              main' = main \/ main' = Idle,
              \A c \in Conns : app'[c] = "told" => app[c] = "told",
              \A c \in Conns : remote'[c] = "none" <=> remote[c] = "none"
       PROVE  ActInv'
  <2>1. NotYet'
    BY <1>17 DEF NotYet
  <2> QED
    BY <1>17, <2>1, ServerKeeps
<1>18. ASSUME NEW c \in Conns, GreetRefused(c) PROVE ActInv'
  BY <1>17, <1>18 DEF GreetRefused, TypeOK, transVars, srvVars, lifeVars
<1>19. ASSUME NEW c \in Conns, RemoteCloses(c) PROVE ActInv'
  BY <1>17, <1>19 DEF RemoteCloses, TypeOK, appVars, transVars, cltVars, lifeVars
<1>20. ASSUME NEW th \in CltThreads, CltTakeStale(th) PROVE ActInv'
  BY <1>17, <1>20 DEF CltTakeStale, appVars, transVars, cltVars, srvVars, lifeVars
<1>21. ASSUME NEW c \in Conns, CltBevs(c) \/ CltUp(c) \/ CltDown(c) PROVE ActInv'
  BY <1>17, <1>21 DEF CltBevs, CltUp, CltDown, appVars, transVars, cltVars, srvVars, lifeVars
<1>22. ASSUME NEW c \in Conns, SrvUp(c) \/ SrvDown(c) \/ AppCloses(c) PROVE ActInv'
  BY <1>17, <1>22 DEF SrvUp, SrvDown, AppCloses, appVars, transVars, cltVars, srvVars, lifeVars
<1>23. CASE UNCHANGED vars
  BY <1>17, <1>23 DEF vars, appVars, transVars, cltVars, srvVars, lifeVars
<1> QED
  BY <1>1, <1>2, <1>3, <1>4, <1>5, <1>6, <1>7, <1>8, <1>9, <1>10, <1>11, <1>12, <1>13, <1>15,
     <1>16, <1>18, <1>19, <1>20, <1>21, <1>22, <1>23
     DEF Next, CltMainLoop, CltWorkerLoop, SrvMainLoop, SrvWorkerLoop, Environment

-----------------------------------------------------------------------------
(* The theorems.                                                           *)

\* The invariant holds in every state.
LEMMA Invariance == Spec => []Inv
<1>1. Init => Inv
  BY InitPortInv, InitActInv DEF Inv
<1>2. Inv /\ [Next]_vars => Inv'
  BY StepPortInv, StepActInv DEF Inv, ActInv
<1> QED
  BY <1>1, <1>2, PTL DEF Spec

\* Every variable of client, server and channels keeps its type: sc_ and
\* ss_find_trans, the queues and the cipher contexts are used as declared.
THEOREM TypeCorrect == Spec => []TypeOK
<1>1. Inv => TypeOK
  BY DEF Inv, PortInv
<1> QED
  BY <1>1, Invariance, PTL

\* sc_find_trans and ss_find_trans have one trans to find at most, however
\* source ports come back.
THEOREM PortsUnique == Spec => []UniquePorts
<1>1. Inv => UniquePorts
  BY DEF Inv, PortInv, ListInv
<1> QED
  BY <1>1, Invariance, PTL

\* The SOCKS5 reply goes to an application only when the server has connected
\* for its own connection, although HD_CMD_SS5_ACT names a port only, on a
\* channel of its own.
THEOREM ToldOnlyConnected == Spec => []ToldIsConnected
<1>1. Inv => ToldIsConnected
  BY DEF Inv, ActInv
<1> QED
  BY <1>1, Invariance, PTL
-----------------------------------------------------------------------------
(* What the aborts need: the second invariant, in three parts.             *)

\* The client's side.  local_bev and srv_bev of a trans are set together, once
\* its request has been written, and while it is listed.
SlotsOf(c) ==
    /\ slot[c] \in {{}, Both} /\ on[c] \subseteq slot[c]
    /\ slot[c] # {} => cl[c] = "listed" /\ place[c] # "none" /\ job[c] = "done"

\* A worker has passed the request of a connection that the server knows, and
\* has set the bufferevents of a listed trans when it is done with it.
JobOf(c) ==
    /\ job[c] = "requested" => place[c] # "none"
    /\ place[c] # "none" => job[c] \in {"requested", "done"}
    /\ job[c] = "done" /\ cl[c] = "listed" => slot[c] = Both

\* What the workers still have to do for a connection is for a listed trans.
Waits(c) == job[c] = "requested" \/ \E th \in CltThreads : c \in Range(cqueue[th])
HeldOf(c) == alive /\ Waits(c) => cl[c] = "listed"

ClientInv == \A c \in Conns : SlotsOf(c) /\ JobOf(c) /\ HeldOf(c)

\* The server's side.  A trans stays listed until it is connected, and the
\* server ends a data connection for good.
ServedOf(c) ==
    session /\ place[c] \in {"queued", "connecting", "lookup"} => srv[c] = "listed"
EndedOf(c) ==
    Ended(dn[c]) => place[c] = "closed" /\ remote[c] \in {"none", "closed"}

ServerInv == \A c \in Conns : ServedOf(c) /\ EndedOf(c)

\* The client's main loop.  The trans it has found is freed under its hands only
\* where one of the two ends has closed, and what an application has got before
\* the reply came while the reply was due.
MainEnds ==
    main.pc \in {"srv", "reply"} /\ cl[main.conn] # "listed" =>
        ~alive \/ main.conn \in gone \/ remote[main.conn] \in {"ended", "closed"}
ReplyOf(c) ==
    /\ got[<<"app", c>>] # <<>> => cl[c] # "none"
    /\ got[<<"app", c>>] # <<>> \/ "srv" \in on[c] =>
          app[c] # "asked" \/ main = [pc |-> "reply", conn |-> c]

MainInv == MainEnds /\ \A c \in Conns : ReplyOf(c)

FaultInv == ClientInv /\ ServerInv /\ MainInv

\* A client that frees trans clears their slots, and empties what it reads of.
LEMMA ScFreeSlots ==
    ASSUME TypeOK, NEW S \in SUBSET Conns, ScFree(S)
    PROVE  \A c \in Conns : /\ slot'[c] = IF c \in S THEN {} ELSE slot[c]
                            /\ dn'[c] \in {dn[c], <<>>}
  BY DEF ScFree, Drop, TypeOK

\* A server that frees trans puts an end to connections that it closes.
LEMMA SsFreeEnds ==
    ASSUME TypeOK, NEW S \in SUBSET Conns, SsFree(S)
    PROVE  \A c \in Conns : dn'[c] = dn[c] \/ (place'[c] = "closed" /\ remote'[c] = "closed")
  BY DEF SsFree, Cut, TypeOK

\* What SS5_ACT finds at the client is the trans it was sent for, of a
\* connection whose request the client's worker has passed on.
LEMMA ActFound ==
    ASSUME Inv, ClientInv, alive, NEW n \in 1..MaxBatch, n <= Len(ctl.net), ReadHead(n),
           NEW c \in ScFind(HeadOf(n).port)
    PROVE  /\ c \in Conns /\ cl[c] = "listed" /\ on[c] = {} /\ remote[c] # "none"
           /\ place[c] # "none" /\ job[c] \in {"requested", "done"}
<1> USE DEF Inv, PortInv, ListInv, ActInv
<1>1. c \in Conns /\ cl[c] = "listed" /\ port[c] = HeadOf(n).port
  BY DEF ScFind, ScListed
<1>2. HeadOf(n) = Pending[1] /\ 1 \in 1..Len(Pending) /\ HeadOf(n) \in Acts
  BY ReadHeadOf
<1>3. ActFinds(HeadOf(n)) /\ HeadOf(n).of \in Conns
  BY <1>2 DEF ActsFind, Acts
<1>4. c = HeadOf(n).of
  BY <1>1, <1>3 DEF ActFinds, UniquePorts, ScListed
<1>5. place[c] \notin Early
  BY <1>3, <1>4 DEF ActFinds, NotYet
<1> QED
  BY <1>1, <1>3, <1>4, <1>5 DEF ActFinds, Early, ClientInv, JobOf

\* The server's steps concern the client in one thing: whether the server knows
\* the connection.
LEMMA ClientQuiet ==
    ASSUME ClientInv, UNCHANGED <<slot, on, cl, job, cqueue, alive>>,
           \A c \in Conns : place[c] = "none" <=> place'[c] = "none"
    PROVE  ClientInv'
  BY DEF ClientInv, SlotsOf, JobOf, HeldOf, Waits

\* The client frees trans that nothing is left to be done for, or leaves.
LEMMA ClientFrees ==
    ASSUME Inv, ClientInv, NEW S \in SUBSET ScListed, ScFree(S), place' = place,
           \A c \in Conns : job'[c] = job[c] \/ (c \in S /\ job'[c] = "done"),
           \A th \in CltThreads : Range(cqueue'[th]) \subseteq Range(cqueue[th]),
           alive' \in {alive, FALSE},
           alive' => \A c \in S : ~Waits(c)'
    PROVE  ClientInv'
<1>1. S \in SUBSET Conns /\ TypeOK
  BY DEF Inv, PortInv, ScListed
<1>2. \A c \in Conns : /\ cl'[c] = IF c \in S THEN "freed" ELSE cl[c]
                       /\ on'[c] = IF c \in S THEN {} ELSE on[c]
                       /\ slot'[c] = IF c \in S THEN {} ELSE slot[c]
  BY <1>1, ScFreeStep, ScFreeSlots
<1>3. \A c \in S : place[c] # "none" => job[c] \in {"requested", "done"}
  BY <1>1 DEF ClientInv, JobOf
<1>4. ASSUME NEW c \in Conns PROVE SlotsOf(c)' /\ JobOf(c)'
  <2>1. CASE c \in S /\ job'[c] = "done"
    BY <1>2, <1>3, <2>1 DEF SlotsOf, JobOf
  <2>2. CASE c \in S /\ job'[c] = job[c]
    BY <1>2, <1>3, <2>2 DEF ClientInv, SlotsOf, JobOf
  <2>3. CASE c \notin S
    BY <1>2, <2>3 DEF ClientInv, SlotsOf, JobOf
  <2> QED
    BY <2>1, <2>2, <2>3
<1>5. ASSUME NEW c \in Conns PROVE HeldOf(c)'
  BY <1>2 DEF ClientInv, HeldOf, Waits
<1> QED
  BY <1>4, <1>5 DEF ClientInv

\* Every step keeps the client's part.
LEMMA StepClientInv ==
    ASSUME Inv, ClientInv, [Next]_vars
    PROVE  ClientInv'
<1>i. /\ TypeOK /\ MainKnown /\ EnabledListed /\ CltQueued /\ NotYet /\ StillListed
      /\ OnConnected /\ \A c \in Conns : SlotsOf(c) /\ JobOf(c) /\ HeldOf(c)
  BY DEF Inv, PortInv, ListInv, ActInv, ClientInv
<1> USE <1>i
<1>1. ASSUME NEW c \in Conns, NEW p \in Ports, Accept(c, p) PROVE ClientInv'
  BY <1>1, ClientQuiet DEF Accept, transVars, srvVars, lifeVars
<1>2. ASSUME NEW c \in Conns, GreetOk(c) PROVE ClientInv'
  <2> DEFINE th == CltThread(c)
  <2>1. /\ main = [pc |-> "greet", conn |-> c] /\ cl' = [cl EXCEPT ![c] = "listed"]
        /\ job' = [job EXCEPT ![c] = "queued"]
        /\ cqueue' = [cqueue EXCEPT ![th] = Append(@, c)]
        /\ UNCHANGED <<slot, on, place, alive>>
    BY <1>2 DEF GreetOk, srvVars, lifeVars
  <2>2. cl[c] = "none" /\ place[c] = "none" /\ slot[c] = {} /\ on[c] = {} /\ th \in CltThreads
    BY <2>1, PortType DEF MainKnown, StillListed, SlotsOf
  <2>3. \A b \in Conns : b # c => /\ cl'[b] = cl[b] /\ job'[b] = job[b]
    BY <2>1
  <2>4. cl'[c] = "listed" /\ job'[c] = "queued"
    BY <2>1 DEF TypeOK
  <2>5. ASSUME NEW b \in Conns, b # c, Waits(b)' PROVE Waits(b)
    <3>1. \A x \in CltThreads : cqueue'[x] = IF x = th THEN Append(cqueue[th], c) ELSE cqueue[x]
      BY <2>1, <2>2 DEF TypeOK
    <3>2. Range(Append(cqueue[th], c)) = Range(cqueue[th]) \cup {c}
      <4>1. cqueue[th] \in Seq(Conns) /\ c \notin Range(cqueue[th]) /\ IsInjective(cqueue[th])
        BY <2>2 DEF CltQueued, TypeOK
      <4> QED
        BY <4>1, AppendOf
    <3> QED
      BY <2>3, <2>5, <3>1, <3>2 DEF Waits
  <2>6. ASSUME NEW b \in Conns PROVE SlotsOf(b)' /\ JobOf(b)' /\ HeldOf(b)'
    <3>1. CASE b = c
      BY <2>1, <2>2, <2>4, <3>1 DEF SlotsOf, JobOf, HeldOf
    <3>2. CASE b # c
      BY <2>1, <2>3, <2>5, <3>2 DEF SlotsOf, JobOf, HeldOf
    <3> QED
      BY <3>1, <3>2
  <2> QED
    BY <2>6 DEF ClientInv
<1>3. ASSUME NEW c \in Conns, GreetRefused(c) PROVE ClientInv'
  BY <1>3, ClientQuiet DEF GreetRefused, transVars, srvVars, lifeVars
<1>4. CASE ActLocal
  <2>1. PICK n \in 1..MaxBatch :
            /\ n <= Len(ctl.net) /\ ReadHead(n)
            /\ \/ UNCHANGED on
               \/ \E c \in ScFind(HeadOf(n).port) :
                     "local" \in slot[c] /\ on' = [on EXCEPT ![c] = @ \cup {"local"}]
    BY <1>4 DEF ActLocal
  <2>2. UNCHANGED <<slot, cl, job, cqueue, alive, place>>
    BY <1>4 DEF ActLocal, srvVars, lifeVars
  <2>3. ASSUME NEW b \in Conns PROVE on'[b] \subseteq slot[b]
    <3>1. CASE UNCHANGED on
      BY <3>1 DEF SlotsOf
    <3>2. ASSUME NEW c \in Conns, "local" \in slot[c], on' = [on EXCEPT ![c] = @ \cup {"local"}]
          PROVE  on'[b] \subseteq slot[b]
      <4>1. on'[b] = IF b = c THEN on[c] \cup {"local"} ELSE on[b]
        BY <3>2 DEF TypeOK
      <4> QED
        BY <3>2, <4>1 DEF SlotsOf
    <3> QED
      BY <2>1, <3>1, <3>2 DEF ScFind, ScListed
  <2> QED
    BY <2>2, <2>3 DEF ClientInv, SlotsOf, JobOf, HeldOf, Waits
<1>5. CASE ActSrv
  <2>1. \/ UNCHANGED on
        \/ "srv" \in slot[main.conn] /\ on' = [on EXCEPT ![main.conn] = @ \cup {"srv"}]
    BY <1>5 DEF ActSrv
  <2>2. UNCHANGED <<slot, cl, job, cqueue, alive, place>>
    BY <1>5 DEF ActSrv, srvVars, lifeVars
  <2>3. ASSUME NEW b \in Conns PROVE on'[b] \subseteq slot[b]
    <3>1. CASE UNCHANGED on
      BY <3>1 DEF SlotsOf
    <3>2. CASE "srv" \in slot[main.conn] /\ on' = [on EXCEPT ![main.conn] = @ \cup {"srv"}]
      <4>1. on'[b] = IF b = main.conn THEN on[b] \cup {"srv"} ELSE on[b]
        BY <3>2 DEF TypeOK
      <4> QED
        BY <3>2, <4>1 DEF SlotsOf
    <3> QED
      BY <2>1, <3>1, <3>2
  <2> QED
    BY <2>2, <2>3 DEF ClientInv, SlotsOf, JobOf, HeldOf, Waits
<1>6. CASE ActReply
  BY <1>6, ClientQuiet DEF ActReply, transVars, srvVars, lifeVars
<1>7. CASE Leave
  BY <1>7, ClientFrees DEF Leave, cltVars, srvVars
<1>8. ASSUME NEW th \in CltThreads, CltTakeStale(th) PROVE ClientInv'
  BY <1>8, ClientQuiet DEF CltTakeStale, transVars, cltVars, srvVars, lifeVars
<1>9. ASSUME NEW th \in CltThreads, CltGiveUp(th) PROVE ClientInv'
  <2>0. cqueue[th] # <<>> /\ cqueue[th] \in Seq(Conns) /\ Range(cqueue[th]) \subseteq Conns
    BY <1>9, RangeOfSeq DEF CltGiveUp, TypeOK
  <2>1. PICK h \in Conns : h = Head(cqueue[th])
    BY <2>0, TailOf
  <2>2. /\ cl[h] = "listed" /\ ScFree({h})
        /\ job' = [job EXCEPT ![h] = "done"] /\ cqueue' = [cqueue EXCEPT ![th] = Tail(@)]
        /\ UNCHANGED <<place, alive>>
    BY <1>9, <2>1 DEF CltGiveUp, srvVars, lifeVars
  <2>3. /\ h \in Range(cqueue[th]) /\ Range(Tail(cqueue[th])) \subseteq Range(cqueue[th]) \ {h}
        /\ CltThread(h) = th
    BY <2>0, <2>1, TailOf DEF CltQueued
  <2>4. \A x \in CltThreads : Range(cqueue'[x]) \subseteq Range(cqueue[x]) \ {h}
    BY <2>2, <2>3 DEF CltQueued, TypeOK
  <2>5. job'[h] = "done" /\ \A c \in Conns : c # h => job'[c] = job[c]
    BY <2>2 DEF TypeOK
  <2>6. ~Waits(h)'
    BY <2>4, <2>5 DEF Waits
  <2>7. {h} \in SUBSET ScListed
    BY <2>2 DEF ScListed
  <2> QED
    BY <2>2, <2>4, <2>5, <2>6, <2>7, ClientFrees
<1>10. ASSUME NEW th \in CltThreads, CltRequest(th) PROVE ClientInv'
  <2> DEFINE h == Head(cqueue[th])
  <2>1. /\ cqueue[th] # <<>> /\ cl[h] = "listed"
        /\ job' = [job EXCEPT ![h] = "requested"] /\ place' = [place EXCEPT ![h] = "main"]
        /\ cqueue' = [cqueue EXCEPT ![th] = Tail(@)]
        /\ UNCHANGED <<cl, slot, on, alive>>
    BY <1>10 DEF CltRequest, transVars, lifeVars
  <2>2. /\ h \in Range(cqueue[th]) /\ Range(Tail(cqueue[th])) \subseteq Range(cqueue[th])
        /\ h \in Conns /\ place[h] = "none"
    <3>1. cqueue[th] \in Seq(Conns) /\ Range(cqueue[th]) \subseteq Conns
      BY RangeOfSeq DEF TypeOK
    <3> QED
      BY <2>1, <3>1, TailOf DEF CltQueued
  <2>3. \A x \in CltThreads : Range(cqueue'[x]) \subseteq Range(cqueue[x])
    BY <2>1, <2>2 DEF TypeOK
  <2> HIDE DEF h
  <2>4. job'[h] = "requested" /\ place'[h] = "main" /\ slot[h] = {}
    BY <2>1, <2>2 DEF TypeOK, SlotsOf
  <2>5. \A c \in Conns : c # h => job'[c] = job[c] /\ place'[c] = place[c]
    BY <2>1
  <2>6. ASSUME NEW c \in Conns PROVE SlotsOf(c)' /\ JobOf(c)' /\ HeldOf(c)'
    <3>1. CASE c = h
      BY <2>1, <2>4, <3>1 DEF SlotsOf, JobOf, HeldOf
    <3>2. CASE c # h
      <4>1. Waits(c)' => Waits(c)
        BY <2>3, <2>5, <3>2 DEF Waits
      <4> QED
        BY <2>1, <2>5, <3>2, <4>1 DEF SlotsOf, JobOf, HeldOf
    <3> QED
      BY <3>1, <3>2
  <2> QED
    BY <2>6 DEF ClientInv
<1>11. ASSUME NEW c \in Conns, CltBevs(c) PROVE ClientInv'
  <2>1. UNCHANGED <<cl, on, cqueue, place, alive>> /\ job[c] = "requested"
    BY <1>11 DEF CltBevs, srvVars, lifeVars
  <2>2. CASE UNCHANGED <<job, slot>>
    BY <2>1, <2>2, ClientQuiet
  <2>3. CASE /\ cl[c] = "listed" /\ job' = [job EXCEPT ![c] = "done"]
             /\ slot' = [slot EXCEPT ![c] = Both]
    <3>1. job'[c] = "done" /\ slot'[c] = Both
      BY <2>3 DEF TypeOK
    <3>2. \A b \in Conns : b # c => job'[b] = job[b] /\ slot'[b] = slot[b]
      BY <2>3
    <3>3. on[c] \subseteq Both /\ place[c] # "none"
      BY <2>1 DEF TypeOK, JobOf
    <3>4. ASSUME NEW b \in Conns PROVE SlotsOf(b)' /\ JobOf(b)' /\ HeldOf(b)'
      <4>1. CASE b = c
        BY <2>1, <2>3, <3>1, <3>3, <4>1 DEF SlotsOf, JobOf, HeldOf
      <4>2. CASE b # c
        BY <2>1, <3>2, <4>2 DEF SlotsOf, JobOf, HeldOf, Waits
      <4> QED
        BY <4>1, <4>2
    <3> QED
      BY <3>4 DEF ClientInv
  <2> QED
    BY <1>11, <2>2, <2>3 DEF CltBevs
<1>12. ASSUME NEW c \in Conns, CltUp(c) \/ CltDown(c) PROVE ClientInv'
  BY <1>12, ClientQuiet DEF CltUp, CltDown, transVars, cltVars, srvVars, lifeVars
<1>13. ASSUME NEW c \in Conns, CltEof(c) PROVE ClientInv'
  <2>1. /\ on[c] # {} /\ ScFree({c}) /\ UNCHANGED <<job, cqueue, place, alive>>
    BY <1>13 DEF CltEof, cltVars, srvVars, lifeVars
  <2>2. cl[c] = "listed" /\ job[c] = "done" /\ place[c] # "none"
    BY <2>1 DEF SlotsOf, EnabledListed
  <2>3. ~Waits(c)'
    BY <2>1, <2>2 DEF Waits, CltQueued
  <2>4. {c} \in SUBSET ScListed
    BY <2>2 DEF ScListed
  <2> QED
    BY <2>1, <2>3, <2>4, ClientFrees
<1>14. ASSUME NEW c \in Conns, SrvSs5(c) \/ SrvRefuse(c) PROVE ClientInv'
  <2>1. \A b \in Conns : place[b] = "none" <=> place'[b] = "none"
    BY <1>14 DEF SrvSs5, SrvRefuse, HasReq, TypeOK
  <2> QED
    BY <1>14, <2>1, ClientQuiet DEF SrvSs5, SrvRefuse, transVars, cltVars, lifeVars
<1>15. ASSUME NEW c \in Conns, LookupFails(c) \/ LookupOk(c) \/ ConnectFails(c) \/ ConnectOk(c)
       PROVE  ClientInv'
  <2>1. \A b \in Conns : place[b] = "none" <=> place'[b] = "none"
    BY <1>15 DEF LookupFails, LookupOk, ConnectFails, ConnectOk, Opened, Open, TypeOK
  <2> QED
    BY <1>15, <2>1, ClientQuiet DEF LookupFails, LookupOk, ConnectFails, ConnectOk,
       transVars, cltVars, lifeVars
<1>16. CASE SessionEnds
  <2>1. \A b \in Conns : place[b] = "none" <=> place'[b] = "none"
    <3>1. CASE SsFree(SsListed)
      <4>1. SsListed \in SUBSET Conns
        BY DEF SsListed
      <4> QED
        BY <3>1, <4>1, SsFreeStep
    <3> QED
      BY <1>16, <3>1 DEF SessionEnds
  <2> QED
    BY <1>16, <2>1, ClientQuiet DEF SessionEnds, transVars, cltVars
<1>17. ASSUME NEW th \in SrvThreads, SrvTake(th) PROVE ClientInv'
  <2>1. squeue[th] # <<>> /\ squeue[th] \in Seq(Conns) /\ SrvQueued
    BY <1>17 DEF SrvTake, TypeOK, Inv, ActInv
  <2>2. place[Head(squeue[th])] = "queued"
    BY <2>1, TailOf DEF SrvQueued
  <2>3. \A b \in Conns : place[b] = "none" <=> place'[b] = "none"
    BY <1>17, <2>2 DEF SrvTake, TypeOK
  <2> QED
    BY <1>17, <2>3, ClientQuiet DEF SrvTake, transVars, cltVars, lifeVars
<1>18. ASSUME NEW c \in Conns, SrvUp(c) \/ SrvDown(c) \/ AppCloses(c) \/ RemoteCloses(c)
       PROVE  ClientInv'
  BY <1>18, ClientQuiet DEF SrvUp, SrvDown, AppCloses, RemoteCloses, transVars, cltVars,
     srvVars, lifeVars
<1>19. ASSUME NEW c \in Conns, SrvEof(c) PROVE ClientInv'
  <2>1. \A b \in Conns : place[b] = "none" <=> place'[b] = "none"
    BY <1>19, SsFreeStep DEF SrvEof
  <2> QED
    BY <1>19, <2>1, ClientQuiet DEF SrvEof, transVars, cltVars, lifeVars
<1>20. CASE UNCHANGED vars
  BY <1>20, ClientQuiet DEF vars, transVars, cltVars, srvVars, lifeVars
<1> QED
  BY <1>1, <1>2, <1>3, <1>4, <1>5, <1>6, <1>7, <1>8, <1>9, <1>10, <1>11, <1>12, <1>13,
     <1>14, <1>15, <1>16, <1>17, <1>18, <1>19, <1>20
  DEF Next, CltMainLoop, CltWorkerLoop, SrvMainLoop, SrvWorkerLoop, Environment

\* What is read of a data connection leaves its end where it is.
LEMMA EndStays ==
    ASSUME NEW q \in Seq(Items), q # <<>>, Ended(Tail(q))
    PROVE  Ended(q)
<1>1. /\ Tail(q) \in Seq(Items) /\ Len(Tail(q)) = Len(q) - 1 /\ Len(q) \in Nat
      /\ \A i \in 1..Len(Tail(q)) : Tail(q)[i] = q[i + 1]
  BY HeadTailProperties
<1>2. Len(Tail(q)) \in 1..Len(Tail(q)) /\ Len(Tail(q)) + 1 = Len(q)
  BY <1>1, EmptySeq DEF Ended
<1> QED
  BY <1>1, <1>2 DEF Ended

\* A data connection to which anything but an end was written is not at its end.
LEMMA NotEnded ==
    ASSUME NEW q \in Seq(Items), NEW x \in Items, x.tag # "fin"
    PROVE  ~Ended(Append(q, x))
<1>1. Len(Append(q, x)) = Len(q) + 1 /\ Append(q, x)[Len(q) + 1] = x
  OBVIOUS
<1> QED
  BY <1>1 DEF Ended, Fin

\* What is written to a client, other than an end, ends no data connection.
LEMMA DownEnds ==
    ASSUME TypeOK, NEW c \in Conns, NEW x \in Items, x.tag # "fin", Down(c, x)
    PROVE  \A b \in Conns : Ended(dn'[b]) => Ended(dn[b])
<1>1. ASSUME NEW b \in Conns PROVE dn'[b] = dn[b] \/ (b = c /\ dn'[b] = Append(dn[c], x))
  BY DEF Down, TypeOK
<1>2. dn[c] \in Seq(Items)
  BY DEF TypeOK
<1>3. ~Ended(Append(dn[c], x))
  BY <1>2, NotEnded
<1> QED
  BY <1>1, <1>3

\* A connection that the server leaves where it is, and puts no end to.
LEMMA ServerSame ==
    ASSUME NEW c \in Conns, ServedOf(c), EndedOf(c), session' => session,
           place'[c] = place[c], remote'[c] = remote[c], srv'[c] = srv[c],
           Ended(dn'[c]) => Ended(dn[c])
    PROVE  ServedOf(c)' /\ EndedOf(c)'
  BY DEF ServedOf, EndedOf

\* A step that does so with every connection but c.
LEMMA ServerMoves ==
    ASSUME ServerInv, session' => session, NEW c,
           \A b \in Conns : Ended(dn'[b]) => Ended(dn[b]),
           \A b \in Conns : b # c =>
               place'[b] = place[b] /\ remote'[b] = remote[b] /\ srv'[b] = srv[b],
           c \in Conns => ServedOf(c)' /\ EndedOf(c)'
    PROVE  ServerInv'
  BY ServerSame DEF ServerInv

\* The client's steps, and those of the ends, empty a data connection at most.
LEMMA ServerQuiet ==
    ASSUME ServerInv, UNCHANGED <<session, place, remote, srv>>,
           \A b \in Conns : Ended(dn'[b]) => Ended(dn[b])
    PROVE  ServerInv'
  BY ServerSame DEF ServerInv

\* The server frees trans.
LEMMA ServerFrees ==
    ASSUME TypeOK, ServerInv, NEW S \in SUBSET Conns, SsFree(S), session' => session,
           session' => \A c \in S : place[c] \notin {"queued", "connecting", "lookup"}
    PROVE  ServerInv'
<1>1. ASSUME NEW c \in Conns PROVE ServedOf(c)' /\ EndedOf(c)'
  <2>1. /\ srv'[c] = IF c \in S THEN "freed" ELSE srv[c]
        /\ \/ place'[c] = place[c] /\ remote'[c] = remote[c]
           \/ place[c] = "worker" /\ place'[c] = "closed" /\ remote'[c] = "closed"
        /\ dn'[c] = dn[c] \/ (place'[c] = "closed" /\ remote'[c] = "closed")
    BY SsFreeStep, SsFreeEnds
  <2> QED
    BY <2>1 DEF ServerInv, ServedOf, EndedOf
<1> QED
  BY <1>1 DEF ServerInv

\* Every step keeps the server's part.
LEMMA StepServerInv ==
    ASSUME Inv, ServerInv, [Next]_vars
    PROVE  ServerInv'
<1>i. /\ TypeOK /\ NotYet /\ SrvQueued /\ CltQueued
      /\ \A c \in Conns : ServedOf(c) /\ EndedOf(c)
  BY DEF Inv, PortInv, ActInv, ServerInv
<1> USE <1>i
<1>1. ASSUME UNCHANGED <<session, place, remote, srv, dn>> PROVE ServerInv'
  BY <1>1, ServerQuiet
<1>2. ASSUME NEW c \in Conns, NEW p,
             Accept(c, p) \/ GreetRefused(c) \/ GreetOk(c) \/ CltBevs(c) \/ CltUp(c)
                \/ SrvUp(c) \/ AppCloses(c)
      PROVE  ServerInv'
  BY <1>1, <1>2 DEF Accept, GreetRefused, GreetOk, CltBevs, CltUp, SrvUp, AppCloses,
     srvVars, lifeVars
<1>3. CASE ActLocal \/ ActSrv \/ ActReply
  BY <1>1, <1>3 DEF ActLocal, ActSrv, ActReply, srvVars, lifeVars
<1>4. ASSUME NEW S \in SUBSET Conns, ScFree(S), UNCHANGED <<srvVars, session>>
      PROVE  ServerInv'
  <2>1. \A b \in Conns : Ended(dn'[b]) => Ended(dn[b])
    BY <1>4, ScFreeSlots DEF Ended
  <2> QED
    BY <1>4, <2>1, ServerQuiet DEF srvVars
<1>5. CASE Leave
  BY <1>4, <1>5 DEF Leave, ScListed
<1>6. ASSUME NEW th \in CltThreads, CltTakeStale(th) PROVE ServerInv'
  BY <1>1, <1>6 DEF CltTakeStale, srvVars, lifeVars
<1>7. ASSUME NEW th \in CltThreads, CltGiveUp(th) PROVE ServerInv'
  <2>1. Head(cqueue[th]) \in Conns
    BY <1>7 DEF CltGiveUp, TypeOK
  <2> QED
    BY <1>4, <1>7, <2>1 DEF CltGiveUp, lifeVars
<1>8. ASSUME NEW th \in CltThreads, CltRequest(th) PROVE ServerInv'
  <2>0. cqueue[th] # <<>> /\ cqueue[th] \in Seq(Conns) /\ Range(cqueue[th]) \subseteq Conns
    BY <1>8, RangeOfSeq DEF CltRequest, TypeOK
  <2>1. PICK h \in Conns : h = Head(cqueue[th])
    BY <2>0, TailOf
  <2>2. place' = [place EXCEPT ![h] = "main"] /\ UNCHANGED <<session, remote, srv, dn>>
    BY <1>8, <2>1 DEF CltRequest, lifeVars
  <2>3. place[h] = "none"
    BY <2>0, <2>1, TailOf DEF CltQueued
  <2>4. ServedOf(h)' /\ EndedOf(h)'
    BY <2>2, <2>3 DEF ServedOf, EndedOf, TypeOK
  <2> QED
    BY <2>2, <2>4, ServerMoves
<1>9. ASSUME NEW c \in Conns, CltDown(c) PROVE ServerInv'
  <2>1. /\ UNCHANGED <<session, place, remote, srv>> /\ dn[c] # <<>>
        /\ dn' = dn \/ dn' = [dn EXCEPT ![c] = Tail(@)]
    BY <1>9 DEF CltDown, srvVars, lifeVars
  <2>2. \A b \in Conns : dn'[b] = dn[b] \/ (b = c /\ dn'[b] = Tail(dn[c]))
    BY <2>1 DEF TypeOK
  <2>3. Ended(Tail(dn[c])) => Ended(dn[c])
    <3>1. dn[c] \in Seq(Items) /\ dn[c] # <<>>
      BY <2>1 DEF TypeOK
    <3> QED
      BY <3>1, EndStays
  <2> QED
    BY <2>1, <2>2, <2>3, ServerQuiet
<1>10. ASSUME NEW c \in Conns, CltEof(c) PROVE ServerInv'
  BY <1>4, <1>10 DEF CltEof, lifeVars
<1>11. ASSUME NEW c \in Conns, SrvSs5(c) PROVE ServerInv'
  <2>1. /\ place[c] = "main" /\ place' = [place EXCEPT ![c] = "queued"]
        /\ srv' = [srv EXCEPT ![c] = "listed"] /\ UNCHANGED <<session, remote, dn>>
    BY <1>11 DEF SrvSs5, HasReq, lifeVars
  <2>2. ServedOf(c)' /\ EndedOf(c)'
    BY <2>1 DEF ServedOf, EndedOf, TypeOK
  <2> QED
    BY <2>1, <2>2, ServerMoves
<1>12. ASSUME NEW c \in Conns, SrvRefuse(c) PROVE ServerInv'
  <2>1. /\ place[c] = "main" /\ place' = [place EXCEPT ![c] = "refused"]
        /\ Down(c, ErrHead) /\ UNCHANGED <<session, srv, remote>>
    BY <1>12 DEF SrvRefuse, HasReq, lifeVars
  <2>2. \A b \in Conns : Ended(dn'[b]) => Ended(dn[b])
    BY <2>1, DownEnds, ItemTypes DEF ErrHead
  <2>3. ServedOf(c)' /\ EndedOf(c)'
    BY <2>1, <2>2 DEF ServedOf, EndedOf, TypeOK
  <2> QED
    BY <2>1, <2>2, <2>3, ServerMoves
<1>13. ASSUME NEW c \in Conns, LookupFails(c) PROVE ServerInv'
  <2>1. /\ place[c] = "lookup" /\ place' = [place EXCEPT ![c] = "leaked"]
        /\ UNCHANGED <<session, srv, remote, dn>>
    BY <1>13 DEF LookupFails, lifeVars
  <2>2. ServedOf(c)' /\ EndedOf(c)'
    BY <2>1 DEF ServedOf, EndedOf, TypeOK
  <2> QED
    BY <2>1, <2>2, ServerMoves
<1>14. ASSUME NEW c \in Conns, LookupOk(c) \/ ConnectOk(c) PROVE ServerInv'
  <2>1. place[c] # "closed" /\ UNCHANGED <<session, srv, dn>>
    BY <1>14 DEF LookupOk, ConnectOk, lifeVars
  <2>2. CASE Opened(c)
    <3>1. ServedOf(c)' /\ EndedOf(c)'
      BY <2>1, <2>2 DEF Opened, Open, ServedOf, EndedOf, TypeOK
    <3> QED
      BY <2>1, <2>2, <3>1, ServerMoves DEF Opened, Open
  <2>3. CASE UNCHANGED <<place, remote>>
    BY <1>1, <2>1, <2>3
  <2> QED
    BY <1>14, <2>2, <2>3 DEF LookupOk, ConnectOk, Opened
<1>15. CASE SessionEnds
  <2>1. session' = FALSE /\ SsListed \in SUBSET Conns
    BY <1>15 DEF SessionEnds, SsListed
  <2>2. CASE SsFree(SsListed)
    BY <2>1, <2>2, ServerFrees
  <2>3. CASE UNCHANGED <<srv, place, remote, dn>>
    BY <2>1, <2>3, ServerSame DEF ServerInv
  <2> QED
    BY <1>15, <2>2, <2>3 DEF SessionEnds
<1>16. ASSUME NEW th \in SrvThreads, SrvTake(th) PROVE ServerInv'
  <2>0. squeue[th] # <<>> /\ squeue[th] \in Seq(Conns) /\ Range(squeue[th]) \subseteq Conns
    BY <1>16, RangeOfSeq DEF SrvTake, TypeOK
  <2>1. PICK h \in Conns : h = Head(squeue[th])
    BY <2>0, TailOf
  <2>2. /\ UNCHANGED <<session, srv, remote, dn>>
        /\ \/ place' = place
           \/ /\ srv[h] = "listed"
              /\ \E w \in {"connecting", "lookup"} : place' = [place EXCEPT ![h] = w]
    BY <1>16, <2>1 DEF SrvTake, lifeVars
  <2>3. place[h] = "queued"
    BY <2>0, <2>1, TailOf DEF SrvQueued
  <2>4. ServedOf(h)' /\ EndedOf(h)'
    BY <2>2, <2>3 DEF ServedOf, EndedOf, TypeOK
  <2>5. ASSUME NEW b \in Conns, b # h PROVE place'[b] = place[b]
    <3>1. CASE place' = place
      BY <3>1
    <3>2. ASSUME NEW w, place' = [place EXCEPT ![h] = w] PROVE place'[b] = place[b]
      BY <2>5, <3>2
    <3> QED
      BY <2>2, <3>1, <3>2
  <2>6. UNCHANGED <<session, srv, remote, dn>>
    BY <2>2
  <2> QED
    BY <2>4, <2>5, <2>6, ServerMoves
<1>17. ASSUME NEW c \in Conns, ConnectFails(c) PROVE ServerInv'
  <2>1. /\ place[c] = "connecting" /\ place' = [place EXCEPT ![c] = "closed"]
        /\ Down(c, Fin) /\ UNCHANGED <<session, srv, remote>>
    BY <1>17 DEF ConnectFails, lifeVars
  <2>2. \A b \in Conns : b # c => place'[b] = place[b] /\ dn'[b] = dn[b]
    BY <2>1 DEF Down
  <2>3. remote[c] = "none" /\ place'[c] = "closed"
    BY <2>1 DEF NotYet, Early, TypeOK
  <2>4. ServedOf(c)' /\ EndedOf(c)'
    BY <2>1, <2>3 DEF ServedOf, EndedOf
  <2> QED
    BY <2>1, <2>2, <2>4, ServerSame DEF ServerInv
<1>18. ASSUME NEW c \in Conns, SrvDown(c) PROVE ServerInv'
  <2>1. /\ UNCHANGED <<session, place, srv, remote>> /\ sent[<<"remote", c>>] < MaxData
        /\ Down(c, Cipher("remote", c, sent[<<"remote", c>>] + 1, pos[c].srvEnc))
    BY <1>18 DEF SrvDown, srvVars, lifeVars
  <2>2. Cipher("remote", c, sent[<<"remote", c>>] + 1, pos[c].srvEnc) \in Items
    <3>1. sent[<<"remote", c>>] + 1 \in 1..MaxData
      BY <2>1, BoundsAssumption DEF TypeOK, End
    <3>2. pos[c].srvEnc \in Nat
      BY DEF TypeOK, Contexts
    <3> QED
      BY <3>1, <3>2, ItemTypes DEF End
  <2>3. \A b \in Conns : Ended(dn'[b]) => Ended(dn[b])
    BY <2>1, <2>2, DownEnds DEF Cipher
  <2> QED
    BY <2>1, <2>3, ServerQuiet
<1>19. ASSUME NEW c \in Conns, SrvEof(c) PROVE ServerInv'
  BY <1>19, ServerFrees DEF SrvEof, lifeVars
<1>20. ASSUME NEW c \in Conns, RemoteCloses(c) PROVE ServerInv'
  <2>1. /\ remote[c] = "open" /\ remote' = [remote EXCEPT ![c] = "ended"]
        /\ UNCHANGED <<session, place, srv, dn>>
    BY <1>20 DEF RemoteCloses, lifeVars
  <2>2. ServedOf(c)' /\ EndedOf(c)'
    BY <2>1 DEF ServedOf, EndedOf
  <2> QED
    BY <2>1, <2>2, ServerMoves
<1>21. CASE UNCHANGED vars
  BY <1>1, <1>21 DEF vars, srvVars, lifeVars
<1> QED
  BY <1>2, <1>3, <1>5, <1>6, <1>7, <1>8, <1>9, <1>10, <1>11, <1>12, <1>13, <1>14, <1>15,
     <1>16, <1>17, <1>18, <1>19, <1>20, <1>21
  DEF Next, CltMainLoop, CltWorkerLoop, SrvMainLoop, SrvWorkerLoop, Environment

\* A step that concerns the client's main loop by no more than what it ends.
LEMMA MainQuiet ==
    ASSUME Inv, MainInv, UNCHANGED <<main, cl, alive, on, got, app>>,
           gone \subseteq gone',
           \A c \in Conns : remote[c] \in {"ended", "closed"} =>
               remote'[c] \in {"ended", "closed"}
    PROVE  MainInv'
<1>1. MainEnds'
  BY DEF Inv, PortInv, ListInv, MainKnown, MainInv, MainEnds
<1>2. \A c \in Conns : ReplyOf(c)'
  BY DEF MainInv, ReplyOf
<1> QED
  BY <1>1, <1>2 DEF MainInv

\* The client frees trans, that of the main loop only when one of its ends has
\* closed.
LEMMA MainFrees ==
    ASSUME Inv, MainInv, NEW S \in SUBSET Conns, ScFree(S),
           UNCHANGED <<main, remote, got, gone>>, alive' \in {alive, FALSE},
           main.pc \in {"srv", "reply"} /\ main.conn \in S =>
               \/ ~alive' \/ main.conn \in gone
               \/ remote[main.conn] \in {"ended", "closed"}
    PROVE  MainInv'
<1>1. TypeOK /\ MainKnown
  BY DEF Inv, PortInv, ListInv
<1>2. \A c \in Conns : /\ cl'[c] = IF c \in S THEN "freed" ELSE cl[c]
                       /\ on'[c] = IF c \in S THEN {} ELSE on[c]
                       /\ app'[c] \in {app[c], "closed"}
  BY <1>1, ScFreeStep
<1>3. MainEnds'
  BY <1>1, <1>2 DEF MainKnown, MainInv, MainEnds
<1>4. ASSUME NEW c \in Conns PROVE ReplyOf(c)'
  BY <1>2 DEF MainInv, ReplyOf
<1> QED
  BY <1>3, <1>4 DEF MainInv

\* Every step keeps the main loop's part.
LEMMA StepMainInv ==
    ASSUME Inv, FaultInv, [Next]_vars
    PROVE  MainInv'
<1>i. /\ TypeOK /\ MainKnown /\ EnabledListed /\ CltQueued /\ SrvQueued /\ NotYet
      /\ MainConnected /\ MainInv /\ MainEnds
      /\ \A c \in Conns : ReplyOf(c) /\ EndedOf(c)
  BY DEF Inv, PortInv, ListInv, ActInv, FaultInv, MainInv, ServerInv
<1> USE <1>i
<1>1. ASSUME UNCHANGED <<main, cl, alive, on, got, app, gone, remote>> PROVE MainInv'
  BY <1>1, MainQuiet
<1>2. ASSUME NEW c \in Conns, NEW p \in Ports, Accept(c, p) PROVE MainInv'
  <2>1. /\ main = Idle /\ main' = [pc |-> "greet", conn |-> c]
        /\ app' = [app EXCEPT ![c] = "greeting"]
        /\ UNCHANGED <<gone, cl, on, got, remote, alive>>
    BY <1>2 DEF Accept, transVars, srvVars, streamVars, lifeVars
  <2>2. MainEnds'
    BY <2>1 DEF MainEnds
  <2>3. ASSUME NEW b \in Conns PROVE ReplyOf(b)'
    BY <2>1 DEF ReplyOf, Idle, TypeOK
  <2> QED
    BY <2>2, <2>3 DEF MainInv
<1>3. ASSUME NEW c \in Conns, GreetRefused(c) PROVE MainInv'
  <2>1. /\ main = [pc |-> "greet", conn |-> c] /\ main' = Idle
        /\ app' = [app EXCEPT ![c] = "closed"]
        /\ UNCHANGED <<gone, cl, on, got, remote, alive>>
    BY <1>3 DEF GreetRefused, transVars, srvVars, streamVars, lifeVars
  <2>2. MainEnds'
    BY <2>1 DEF MainEnds, Idle
  <2>3. ASSUME NEW b \in Conns PROVE ReplyOf(b)'
    BY <2>1 DEF ReplyOf, Idle, TypeOK
  <2> QED
    BY <2>2, <2>3 DEF MainInv
<1>4. ASSUME NEW c \in Conns, GreetOk(c) PROVE MainInv'
  <2>1. /\ main = [pc |-> "greet", conn |-> c] /\ main' = Idle
        /\ app' = [app EXCEPT ![c] = "asked"] /\ cl' = [cl EXCEPT ![c] = "listed"]
        /\ UNCHANGED <<gone, on, got, remote, alive>>
    BY <1>4 DEF GreetOk, srvVars, streamVars, lifeVars
  <2>2. MainEnds'
    BY <2>1 DEF MainEnds, Idle
  <2>3. cl[c] = "none" /\ got[<<"app", c>>] = <<>> /\ on[c] = {}
    BY <2>1 DEF MainKnown, EnabledListed, ReplyOf
  <2>4. ASSUME NEW b \in Conns PROVE ReplyOf(b)'
    BY <2>1, <2>3 DEF ReplyOf, TypeOK
  <2> QED
    BY <2>2, <2>4 DEF MainInv
<1>5. CASE ActLocal
  <2>1. /\ main = Idle /\ UNCHANGED <<gone, cl, got, remote, alive, app>>
        /\ \/ UNCHANGED <<on, main>>
           \/ \E c \in Conns : /\ cl[c] = "listed" /\ on' = [on EXCEPT ![c] = @ \cup {"local"}]
                               /\ main' = [pc |-> "srv", conn |-> c]
    BY <1>5 DEF ActLocal, ScFind, ScListed, appVars, srvVars, streamVars, lifeVars
  <2>2. CASE UNCHANGED <<on, main>>
    BY <1>1, <2>1, <2>2
  <2>3. ASSUME NEW c \in Conns, cl[c] = "listed", on' = [on EXCEPT ![c] = @ \cup {"local"}],
               main' = [pc |-> "srv", conn |-> c]
        PROVE  MainInv'
    <3>1. MainEnds'
      BY <2>1, <2>3 DEF MainEnds
    <3>2. ASSUME NEW b \in Conns PROVE ReplyOf(b)'
      <4>1. "srv" \in on'[b] => "srv" \in on[b]
        BY <2>3 DEF TypeOK
      <4> QED
        BY <2>1, <4>1 DEF ReplyOf, Idle
    <3> QED
      BY <3>1, <3>2 DEF MainInv
  <2> QED
    BY <2>1, <2>2, <2>3
<1>6. CASE ActSrv
  <2>1. /\ main.pc = "srv" /\ UNCHANGED <<gone, cl, got, remote, alive, app>>
        /\ \/ UNCHANGED <<on, main>>
           \/ /\ on' = [on EXCEPT ![main.conn] = @ \cup {"srv"}]
              /\ main' = [main EXCEPT !.pc = "reply"]
    BY <1>6 DEF ActSrv, appVars, srvVars, streamVars, lifeVars
  <2>2. CASE UNCHANGED <<on, main>>
    BY <1>1, <2>1, <2>2
  <2>3. CASE /\ on' = [on EXCEPT ![main.conn] = @ \cup {"srv"}]
             /\ main' = [main EXCEPT !.pc = "reply"]
    <3>1. main' = [pc |-> "reply", conn |-> main.conn] /\ main'.conn = main.conn
      BY <2>3 DEF TypeOK
    <3>2. MainEnds'
      BY <2>1, <3>1 DEF MainEnds
    <3>3. ASSUME NEW b \in Conns PROVE ReplyOf(b)'
      <4>1. CASE b = main.conn
        BY <2>1, <3>1, <4>1 DEF ReplyOf
      <4>2. CASE b # main.conn
        <5>1. on'[b] = on[b]
          BY <2>3, <4>2 DEF TypeOK
        <5>2. main # [pc |-> "reply", conn |-> b]
          BY <4>2
        <5> QED
          BY <2>1, <5>1, <5>2 DEF ReplyOf
      <4> QED
        BY <4>1, <4>2
    <3> QED
      BY <3>2, <3>3 DEF MainInv
  <2> QED
    BY <2>1, <2>2, <2>3
<1>7. CASE ActReply
  <2>1. /\ main.pc = "reply" /\ UNCHANGED <<gone, cl, on, got, remote, alive>>
        /\ \/ UNCHANGED <<app, main>>
           \/ app' = [app EXCEPT ![main.conn] = "told"] /\ main' = Idle
    BY <1>7 DEF ActReply, transVars, srvVars, streamVars, lifeVars
  <2>2. CASE UNCHANGED <<app, main>>
    BY <1>1, <2>1, <2>2
  <2>3. CASE app' = [app EXCEPT ![main.conn] = "told"] /\ main' = Idle
    <3>1. MainEnds'
      BY <2>3 DEF MainEnds, Idle
    <3>2. ASSUME NEW b \in Conns PROVE ReplyOf(b)'
      <4>1. CASE b = main.conn
        BY <2>1, <2>3, <4>1 DEF ReplyOf, TypeOK
      <4>2. CASE b # main.conn
        <5>1. app'[b] = app[b] /\ main # [pc |-> "reply", conn |-> b]
          BY <2>3, <4>2 DEF TypeOK
        <5> QED
          BY <2>1, <5>1 DEF ReplyOf
      <4> QED
        BY <4>1, <4>2
    <3> QED
      BY <3>1, <3>2 DEF MainInv
  <2> QED
    BY <2>1, <2>2, <2>3
<1>8. CASE Leave
  <2>1. main.pc = "idle" /\ ScListed \in SUBSET Conns
    BY <1>8 DEF Leave, Idle, ScListed
  <2> QED
    BY <1>8, <2>1, MainFrees DEF Leave, cltVars, srvVars, streamVars
<1>9. ASSUME NEW th \in CltThreads, CltTakeStale(th) \/ CltRequest(th) PROVE MainInv'
  BY <1>1, <1>9 DEF CltTakeStale, CltRequest, appVars, transVars, cltVars, srvVars,
     streamVars, lifeVars
<1>10. ASSUME NEW th \in CltThreads, CltGiveUp(th) PROVE MainInv'
  <2>0. cqueue[th] # <<>> /\ cqueue[th] \in Seq(Conns) /\ Range(cqueue[th]) \subseteq Conns
    BY <1>10, RangeOfSeq DEF CltGiveUp, TypeOK
  <2>1. PICK h \in Conns : h = Head(cqueue[th])
    BY <2>0, TailOf
  <2>2. ScFree({h}) /\ UNCHANGED <<gone, main, remote, got, alive>>
    BY <1>10, <2>1 DEF CltGiveUp, srvVars, streamVars, lifeVars
  <2>3. place[h] = "none"
    BY <2>0, <2>1, TailOf DEF CltQueued
  <2>4. main.pc \in {"srv", "reply"} => main.conn # h
    BY <2>3 DEF NotYet, Early, MainConnected
  <2> QED
    BY <2>2, <2>4, MainFrees
<1>11. ASSUME NEW c \in Conns, CltBevs(c) \/ CltUp(c) PROVE MainInv'
  BY <1>1, <1>11 DEF CltBevs, CltUp, appVars, transVars, cltVars, srvVars, streamVars,
     lifeVars
<1>12. ASSUME NEW c \in Conns, CltDown(c) PROVE MainInv'
  <2>1. /\ "srv" \in on[c] /\ UNCHANGED <<main, cl, alive, on, app, gone, remote>>
        /\ \/ got' = got
           \/ \E x : got' = [got EXCEPT ![<<"app", c>>] = Append(@, x)]
    BY <1>12 DEF CltDown, appVars, transVars, cltVars, srvVars, lifeVars
  <2>2. ASSUME NEW b \in Conns, b # c PROVE got'[<<"app", b>>] = got[<<"app", b>>]
    <3>1. <<"app", b>> # <<"app", c>> /\ <<"app", b>> \in End \X Conns
      BY <2>2 DEF End
    <3>2. ASSUME NEW x, got' = [got EXCEPT ![<<"app", c>>] = Append(@, x)]
          PROVE  got'[<<"app", b>>] = got[<<"app", b>>]
      BY <3>1, <3>2 DEF TypeOK
    <3> QED
      BY <2>1, <3>2
  <2>3. cl[c] = "listed" /\ (app[c] # "asked" \/ main = [pc |-> "reply", conn |-> c])
    BY <2>1 DEF EnabledListed, ReplyOf
  <2>4. ASSUME NEW b \in Conns PROVE ReplyOf(b)'
    BY <2>1, <2>2, <2>3 DEF ReplyOf
  <2>5. MainEnds'
    BY <2>1 DEF MainEnds, MainKnown
  <2> QED
    BY <2>4, <2>5 DEF MainInv
<1>13. ASSUME NEW c \in Conns, CltEof(c) PROVE MainInv'
  <2>1. /\ ScFree({c}) /\ UNCHANGED <<gone, main, remote, got, alive>>
        /\ c \in gone \/ Ended(dn[c])
    BY <1>13 DEF CltEof, cltVars, srvVars, streamVars, lifeVars
  <2>2. main.pc \in {"srv", "reply"} /\ main.conn = c =>
            c \in gone \/ remote[c] \in {"ended", "closed"}
    BY <2>1 DEF EndedOf, MainConnected
  <2> QED
    BY <2>1, <2>2, MainFrees
<1>14. ASSUME NEW c \in Conns, SrvSs5(c) \/ SrvRefuse(c) \/ LookupFails(c) \/ ConnectFails(c)
                                  \/ SrvDown(c)
       PROVE  MainInv'
  BY <1>1, <1>14 DEF SrvSs5, SrvRefuse, LookupFails, ConnectFails, SrvDown, appVars,
     transVars, cltVars, srvVars, streamVars, lifeVars
<1>15. ASSUME NEW c \in Conns, SrvUp(c) PROVE MainInv'
  <2>1. /\ UNCHANGED <<main, cl, alive, on, app, gone, remote>>
        /\ \E x : got' = [got EXCEPT ![<<"remote", c>>] = Append(@, x)]
    BY <1>15 DEF SrvUp, appVars, transVars, cltVars, srvVars, lifeVars
  <2>2. ASSUME NEW b \in Conns PROVE got'[<<"app", b>>] = got[<<"app", b>>]
    <3>1. <<"app", b>> # <<"remote", c>> /\ <<"app", b>> \in End \X Conns
      BY DEF End
    <3> QED
      BY <2>1, <3>1 DEF TypeOK
  <2>3. ASSUME NEW b \in Conns PROVE ReplyOf(b)'
    BY <2>1, <2>2 DEF ReplyOf
  <2>4. MainEnds'
    BY <2>1 DEF MainEnds, MainKnown
  <2> QED
    BY <2>3, <2>4 DEF MainInv
<1>16. ASSUME NEW c \in Conns, LookupOk(c) \/ ConnectOk(c) \/ RemoteCloses(c)
       PROVE  MainInv'
  <2>1. /\ UNCHANGED <<main, cl, alive, on, got, app, gone>>
        /\ \/ UNCHANGED remote
           \/ remote[c] \in {"none", "open"} /\ \E w : remote' = [remote EXCEPT ![c] = w]
    BY <1>16 DEF LookupOk, ConnectOk, RemoteCloses, Opened, Open, NotYet, Early, appVars, transVars,
       cltVars, streamVars, lifeVars
  <2>2. ASSUME NEW b \in Conns, remote[b] \in {"ended", "closed"} PROVE remote'[b] = remote[b]
    <3>1. ASSUME NEW w, remote[c] \in {"none", "open"}, remote' = [remote EXCEPT ![c] = w]
          PROVE  remote'[b] = remote[b]
      BY <2>2, <3>1
    <3> QED
      BY <2>1, <3>1
  <2> QED
    BY <2>1, <2>2, MainQuiet
<1>17. ASSUME NEW S \in SUBSET Conns, SsFree(S), UNCHANGED <<main, cl, alive, on, got, app, gone>>
       PROVE  MainInv'
  <2>1. \A c \in Conns : remote'[c] = remote[c] \/ remote'[c] = "closed"
    BY <1>17, SsFreeStep
  <2> QED
    BY <1>17, <2>1, MainQuiet
<1>18. CASE SessionEnds
  <2>1. UNCHANGED <<main, cl, alive, on, got, app, gone>> /\ SsListed \in SUBSET Conns
    BY <1>18 DEF SessionEnds, SsListed, appVars, transVars, cltVars, streamVars
  <2>2. SsFree(SsListed) \/ UNCHANGED remote
    BY <1>18 DEF SessionEnds
  <2> QED
    BY <1>1, <1>17, <2>1, <2>2
<1>19. ASSUME NEW th \in SrvThreads, SrvTake(th) PROVE MainInv'
  BY <1>1, <1>19 DEF SrvTake, appVars, transVars, cltVars, streamVars, lifeVars
<1>20. ASSUME NEW c \in Conns, SrvEof(c) PROVE MainInv'
  BY <1>17, <1>20 DEF SrvEof, appVars, transVars, cltVars, streamVars, lifeVars
<1>21. ASSUME NEW c \in Conns, AppCloses(c) PROVE MainInv'
  BY <1>21, MainQuiet DEF AppCloses, transVars, cltVars, srvVars, streamVars, lifeVars
<1>22. CASE UNCHANGED vars
  BY <1>1, <1>22 DEF vars, appVars, transVars, cltVars, srvVars, streamVars, lifeVars
<1> QED
  BY <1>2, <1>3, <1>4, <1>5, <1>6, <1>7, <1>8, <1>9, <1>10, <1>11, <1>12, <1>13, <1>14,
     <1>15, <1>16, <1>18, <1>19, <1>20, <1>21, <1>22
  DEF Next, CltMainLoop, CltWorkerLoop, SrvMainLoop, SrvWorkerLoop, Environment

\* At the start there is no connection, and nothing to be done for one.
LEMMA InitFaultInv == Init => FaultInv
<1> SUFFICES ASSUME Init PROVE FaultInv
  OBVIOUS
<1>1. ASSUME NEW c \in Conns PROVE SlotsOf(c) /\ JobOf(c) /\ HeldOf(c)
  <2>1. \A th \in CltThreads : Range(cqueue[th]) = {}
    BY DEF Init, Range
  <2>2. SlotsOf(c) /\ JobOf(c) /\ ~Waits(c)
    BY <2>1 DEF Init, SlotsOf, JobOf, Waits, Both
  <2> QED
    BY <2>2 DEF HeldOf
<1>2. ServerInv
  BY DEF Init, ServerInv, ServedOf, EndedOf, Ended
<1>3. MainInv
  BY DEF Init, MainInv, MainEnds, ReplyOf, Idle, End
<1> QED
  BY <1>1, <1>2, <1>3 DEF FaultInv, ClientInv

\* Both invariants hold together.
LEMMA FaultInvariance == Spec => [](Inv /\ FaultInv)
<1>1. Init => FaultInv
  BY InitFaultInv
<1>2. Inv /\ FaultInv /\ [Next]_vars => FaultInv'
  BY StepClientInv, StepServerInv, StepMainInv DEF FaultInv
<1> QED
  BY <1>1, <1>2, Invariance, PTL DEF Spec

\* What a step that goes wrong has found.
LEMMA StepNoAbort ==
    ASSUME Inv, FaultInv, NoAbort, [Next]_vars
    PROVE  NoAbort'
<1>i. /\ TypeOK /\ MainKnown /\ MainConnected /\ MainEnds /\ SrvQueued
      /\ \A c \in Conns : SlotsOf(c) /\ JobOf(c) /\ HeldOf(c) /\ ServedOf(c)
  BY DEF Inv, PortInv, ListInv, ActInv, FaultInv, ClientInv, ServerInv, MainInv
<1> USE <1>i
<1>1. ASSUME fault' = "none" PROVE NoAbort'
  BY <1>1 DEF NoAbort
<1>2. CASE UNCHANGED vars
  BY <1>2 DEF vars, cltVars, lifeVars, appVars, srvVars, NoAbort
<1>3. CASE Next
  <2>1. fault = "none"
    BY <1>3 DEF Next, Ok
  <2>2. CASE fault' = fault
    BY <1>1, <2>1, <2>2
  <2>3. CASE ActLocal
    <3>1. PICK n \in 1..MaxBatch :
              /\ n <= Len(ctl.net) /\ ReadHead(n) /\ alive
              /\ \/ fault' = fault
                 \/ /\ fault' = "null_bev"
                    /\ \E c \in ScFind(HeadOf(n).port) : "local" \notin slot[c]
      BY <2>3 DEF ActLocal
    <3>2. ASSUME NEW c \in ScFind(HeadOf(n).port), "local" \notin slot[c]
          PROVE  c \in Conns /\ job[c] = "requested"
      <4>1. c \in Conns /\ cl[c] = "listed" /\ job[c] \in {"requested", "done"}
        BY <3>1, ActFound DEF FaultInv
      <4> QED
        BY <3>2, <4>1 DEF JobOf, Both
    <3>3. job' = job
      BY <2>3 DEF ActLocal
    <3> QED
      BY <2>2, <3>1, <3>2, <3>3 DEF NoAbort
  <2>4. CASE ActSrv \/ ActReply
    <3>1. main.pc \in {"srv", "reply"} /\ main.conn \in Conns /\ main # Idle
      BY <2>4 DEF ActSrv, ActReply, MainKnown, Idle
    <3>2. ASSUME ActSrv, cl[main.conn] = "listed" PROVE "srv" \in slot[main.conn]
      BY <3>1, <3>2 DEF ActSrv, MainConnected, SlotsOf, Both
    <3>3. \/ fault' = fault
          \/ /\ fault' = "client_freed" /\ cl[main.conn] = "freed"
             /\ UNCHANGED <<main, gone, remote, alive>>
      BY <2>4, <3>2 DEF ActSrv, ActReply, appVars, srvVars, lifeVars
    <3> QED
      BY <2>2, <3>1, <3>3 DEF NoAbort, MainEnds
  <2>5. ASSUME NEW th \in CltThreads, CltTakeStale(th) PROVE NoAbort'
    <3>1. /\ cqueue[th] # <<>> /\ cqueue[th] \in Seq(Conns) /\ Range(cqueue[th]) \subseteq Conns
          /\ fault' = "client_freed" /\ alive' = alive
      BY <2>5, RangeOfSeq DEF CltTakeStale, lifeVars, TypeOK
    <3>2. PICK h \in Conns : h = Head(cqueue[th])
      BY <3>1, TailOf
    <3>3. h \in Range(cqueue[th]) /\ cl[h] = "freed"
      BY <2>5, <3>1, <3>2, TailOf DEF CltTakeStale
    <3>4. ~alive
      BY <3>3 DEF HeldOf, Waits
    <3> QED
      BY <3>1, <3>4 DEF NoAbort
  <2>6. ASSUME NEW c \in Conns, CltBevs(c) PROVE NoAbort'
    <3>1. \/ fault' = fault
          \/ fault' = "client_freed" /\ cl[c] = "freed" /\ job[c] = "requested" /\ alive' = alive
      BY <2>6 DEF CltBevs, lifeVars
    <3>2. cl[c] = "freed" /\ job[c] = "requested" => ~alive
      BY DEF HeldOf, Waits
    <3> QED
      BY <2>2, <3>1, <3>2 DEF NoAbort
  <2>7. ASSUME NEW c \in Conns, CltUp(c) \/ CltDown(c) PROVE NoAbort'
    <3>1. on[c] # {} => slot[c] = Both
      BY DEF SlotsOf
    <3>2. fault' = fault
      BY <2>7, <3>1 DEF CltUp, CltDown, Both
    <3> QED
      BY <2>2, <3>2
  <2>8. ASSUME NEW c \in Conns, LookupOk(c) \/ ConnectOk(c) PROVE NoAbort'
    <3>1. /\ place[c] \in {"lookup", "connecting"} /\ session' = session
          /\ \/ fault' \in {fault, "freed_item"}
             \/ fault' = "server_freed" /\ srv[c] # "listed"
      BY <2>8 DEF LookupOk, ConnectOk, lifeVars
    <3> QED
      BY <2>2, <3>1 DEF NoAbort, ServedOf
  <2>9. CASE SessionEnds
    <3>1. session' = FALSE /\ fault' \in {fault, "double_free"}
      BY <2>9 DEF SessionEnds
    <3> QED
      BY <2>2, <3>1 DEF NoAbort
  <2>10. ASSUME NEW th \in SrvThreads, SrvTake(th) PROVE NoAbort'
    <3>1. squeue[th] # <<>> /\ squeue[th] \in Seq(Conns) /\ Range(squeue[th]) \subseteq Conns
      BY <2>10, RangeOfSeq DEF SrvTake, TypeOK
    <3>2. PICK h \in Conns : h = Head(squeue[th])
      BY <3>1, TailOf
    <3>3. /\ session' = session
          /\ fault' = fault \/ (fault' = "server_freed" /\ srv[h] # "listed")
      BY <2>10, <3>2 DEF SrvTake, lifeVars
    <3>4. place[h] = "queued"
      BY <3>1, <3>2, TailOf DEF SrvQueued
    <3> QED
      BY <2>2, <3>3, <3>4 DEF NoAbort, ServedOf
  <2>11. CASE \/ Leave
              \/ \E c \in Conns, p \in Ports : Accept(c, p)
              \/ \E c \in Conns : GreetRefused(c) \/ GreetOk(c) \/ CltEof(c) \/ AppCloses(c)
              \/ \E th \in CltThreads : CltGiveUp(th) \/ CltRequest(th)
    BY <2>2, <2>11 DEF Leave, Accept, GreetRefused, GreetOk, CltEof, AppCloses, CltGiveUp,
       CltRequest
  <2>12. CASE \E c \in Conns : SrvSs5(c) \/ SrvRefuse(c) \/ LookupFails(c) \/ ConnectFails(c)
                               \/ SrvUp(c) \/ SrvDown(c) \/ SrvEof(c) \/ RemoteCloses(c)
    BY <2>2, <2>12 DEF SrvSs5, SrvRefuse, LookupFails, ConnectFails, SrvUp, SrvDown, SrvEof,
       RemoteCloses
  <2> QED
    BY <1>3, <2>3, <2>4, <2>5, <2>6, <2>7, <2>8, <2>9, <2>10, <2>11, <2>12
    DEF Next, CltMainLoop, CltWorkerLoop, SrvMainLoop, SrvWorkerLoop, Environment
<1> QED
  BY <1>2, <1>3

\* What the server relays reaches an application only after the SOCKS5 reply,
\* but for a chunk that a worker relays while the main loop, in HD_CMD_SS5_ACT,
\* has enabled srv_bev and not yet written the reply.
THEOREM ReplyComesFirst == Spec => []ReplyFirst
<1>1. FaultInv => ReplyFirst
  BY DEF FaultInv, MainInv, ReplyOf, ReplyFirst
<1> QED
  BY <1>1, FaultInvariance, PTL

\* A process touches freed memory or a bufferevent that is not there only when
\* the session ends, when a worker is overtaken by HD_CMD_SS5_ACT before it has
\* set local_bev and srv_bev, or when one of the two ends closes while
\* HD_CMD_SS5_ACT is handled; and the checks in ss5_bufferread_cb_enc for a
\* bufferevent of no trans never fail.
THEOREM AbortsExplained == Spec => []NoAbort
<1>1. Init => NoAbort
  BY DEF Init, NoAbort
<1>2. Inv /\ FaultInv /\ NoAbort /\ [Next]_vars => NoAbort'
  BY StepNoAbort
<1> QED
  BY <1>1, <1>2, FaultInvariance, PTL DEF Spec

-----------------------------------------------------------------------------
(* Ss5 implements Relay.  What is under way from one end to the other lies *)
(* in one channel, as chunks n + 1, n + 2, ... where n is the number of    *)
(* chunks the reader has deciphered, and so at positions n, n + 1, ...:    *)
(* both ends count the stream from its first chunk (FlowOf).  Until the    *)
(* connection breaks, deciphered and under way together are all that was   *)
(* sent (Complete), hence a chunk sent then follows the last one.  The two *)
(* headers come before the stream and alone (HeadersOf).                   *)

Dir == End \X Conns
Far(x) == <<IF x[1] = "app" THEN "remote" ELSE "app", x[2]>>

\* The channel that end x[1] writes to, and the positions of its two contexts.
Chan(x)  == IF x[1] = "app" THEN up[x[2]] ELSE dn[x[2]]
Write(x) == IF x[1] = "app" THEN pos[x[2]].cltEnc ELSE pos[x[2]].srvEnc
Read(x)  == IF x[1] = "app" THEN pos[x[2]].srvDec ELSE pos[x[2]].cltDec

\* Chunks g + 1 to g + m of x, with or without an end of file behind them, and
\* what Relay sees of them.
Stream(x, g, m, f) ==
    [k \in 1..(m + f) |-> IF k <= m THEN Cipher(x[1], x[2], g + k, g + k - 1) ELSE Fin]
Run(x, g, m) == [k \in 1..m |-> Ss5Relay!Chunk(x, g + k)]

\* A header is alone in its channel.
Headers == {<<Req>>, <<Req, Fin>>, <<ErrHead>>}

FlowOf(x) ==
    /\ Write(x) = sent[x] /\ Read(x) = Len(got[Far(x)])
    /\ Chan(x) \in Headers \/ \E m \in Nat, f \in 0..1 : Chan(x) = Stream(x, Read(x), m, f)

Broken(c)   == cl[c] = "freed" \/ place[c] = "closed"
Complete(x) == ~Broken(x[2]) => Read(x) + Len(OnWire(Chan(x))) = sent[x]

\* When a header may be there, and what the server has not begun to use.
HeadersOf(c) ==
    /\ up[c] \in Headers => place[c] = "main" /\ up[c] # <<ErrHead>>
    /\ dn[c] \in Headers => place[c] = "refused"
    /\ Ended(up[c]) => cl[c] = "freed"
    /\ place[c] = "none" => up[c] = <<>>
    /\ place[c] \in {"none", "main"} => dn[c] = <<>>
    /\ place[c] = "leaked" => remote[c] = "none"

FlowInv == /\ \A x \in Dir : FlowOf(x) /\ Complete(x)
           /\ \A c \in Conns : HeadersOf(c)

-----------------------------------------------------------------------------
(* Streams.                                                                *)

Cells == [tag : {"cipher"}, from : End, conn : Conns, n : Nat, pos : Nat] \cup {Fin}

\* The kinds of items.
LEMMA ItemKinds ==
    /\ Req # Fin /\ ErrHead # Fin /\ Req # ErrHead
    /\ \A e, c, n, k : /\ Cipher(e, c, n, k) \notin {Req, ErrHead, Fin}
                       /\ Cipher(e, c, n, k).tag = "cipher" /\ Cipher(e, c, n, k).from = e
                       /\ Cipher(e, c, n, k).conn = c /\ Cipher(e, c, n, k).n = n
                       /\ Cipher(e, c, n, k).pos = k
<1>1. Req.tag = "ss5" /\ ErrHead.tag = "error" /\ Fin.tag = "fin"
  BY DEF Req, ErrHead, Fin
<1>2. \A e, c, n, k : /\ Cipher(e, c, n, k).tag = "cipher" /\ Cipher(e, c, n, k).from = e
                      /\ Cipher(e, c, n, k).conn = c /\ Cipher(e, c, n, k).n = n
                      /\ Cipher(e, c, n, k).pos = k
  BY DEF Cipher
<1> QED
  BY <1>1, <1>2

\* The cells of a stream.
IsStream(s, x, g, m, f) ==
    /\ s \in Seq(Cells) /\ Len(s) = m + f
    /\ \A k \in 1..m : s[k] = Cipher(x[1], x[2], g + k, g + k - 1)
    /\ f = 1 => s[m + 1] = Fin
    /\ s = <<>> <=> m = 0 /\ f = 0

\* Every stream has them.
LEMMA StreamCells ==
    ASSUME NEW x \in Dir, NEW g \in Nat, NEW m \in Nat, NEW f \in 0..1
    PROVE  IsStream(Stream(x, g, m, f), x, g, m, f)
<1>1. ASSUME NEW k \in 1..(m + f)
      PROVE  (IF k <= m THEN Cipher(x[1], x[2], g + k, g + k - 1) ELSE Fin) \in Cells
  <2>1. g + k \in Nat /\ g + k - 1 \in Nat /\ x[1] \in End /\ x[2] \in Conns
    BY DEF Dir
  <2> QED
    BY <2>1 DEF Cells, Cipher
<1>2. m + f \in Nat
  OBVIOUS
<1>3. PICK s : s = Stream(x, g, m, f)
  OBVIOUS
<1>4. s = [k \in 1..(m + f) |-> IF k <= m THEN Cipher(x[1], x[2], g + k, g + k - 1) ELSE Fin]
  BY <1>3 DEF Stream
<1>5. s \in Seq(Cells) /\ Len(s) = m + f
  BY <1>1, <1>2, <1>4
<1>6. \A k \in 1..m : s[k] = Cipher(x[1], x[2], g + k, g + k - 1)
  BY <1>4
<1>7. f = 1 => s[m + 1] = Fin
  BY <1>4
<1>8. s = <<>> <=> m = 0 /\ f = 0
  <2>1. s = <<>> <=> Len(s) = 0
    BY <1>5, EmptySeq
  <2> QED
    BY <1>5, <2>1
<1> QED
  BY <1>3, <1>5, <1>6, <1>7, <1>8 DEF IsStream

\* Two sequences with the same cells.
LEMMA SameCells ==
    ASSUME NEW S, NEW p \in Seq(S), NEW q \in Seq(S), Len(p) = Len(q),
           \A i \in 1..Len(p) : p[i] = q[i]
    PROVE  p = q
<1>1. /\ p = [i \in 1..Len(p) |-> p[i]] /\ q = [i \in 1..Len(q) |-> q[i]]
  OBVIOUS
<1> QED
  BY <1>1

\* A stream holds no header, and its end of file is its last cell.
LEMMA StreamEnd ==
    ASSUME NEW x \in Dir, NEW g \in Nat, NEW m \in Nat, NEW f \in 0..1
    PROVE  /\ Ended(Stream(x, g, m, f)) <=> f = 1
           /\ Stream(x, g, m, f) \notin Headers
<1>1. PICK s : s = Stream(x, g, m, f)
  OBVIOUS
<1>a. IsStream(s, x, g, m, f)
  BY <1>1, StreamCells
<1>2. /\ s \in Seq(Cells) /\ Len(s) = m + f
      /\ \A k \in 1..m : s[k] = Cipher(x[1], x[2], g + k, g + k - 1)
      /\ f = 1 => s[m + 1] = Fin
      /\ s = <<>> <=> m = 0 /\ f = 0
  BY <1>a DEF IsStream
<1>3. Ended(s) <=> f = 1
  <2>1. CASE f = 1
    BY <1>2, <2>1 DEF Ended
  <2>2. CASE f = 0 /\ m > 0
    <3>1. s[Len(s)] = Cipher(x[1], x[2], g + m, g + m - 1)
      BY <1>2, <2>2
    <3> QED
      BY <2>2, <3>1, ItemKinds DEF Ended
  <2>3. CASE f = 0 /\ m = 0
    BY <1>2, <2>3 DEF Ended
  <2> QED
    BY <2>1, <2>2, <2>3
<1>4. s \notin Headers
  <2>1. s # <<>> => s[1] = Fin \/ s[1] = Cipher(x[1], x[2], g + 1, g + 1 - 1)
    BY <1>2
  <2>2. s # <<>> => s[1] \notin {Req, ErrHead}
    BY <2>1, ItemKinds
  <2>3. <<Req>>[1] = Req /\ <<Req, Fin>>[1] = Req /\ <<ErrHead>>[1] = ErrHead
    OBVIOUS
  <2>4. <<Req>> # <<>> /\ <<Req, Fin>> # <<>> /\ <<ErrHead>> # <<>>
    OBVIOUS
  <2>5. s # <<Req>> /\ s # <<Req, Fin>> /\ s # <<ErrHead>>
    BY <2>2, <2>3, <2>4
  <2> QED
    BY <2>5 DEF Headers
<1> QED
  BY <1>1, <1>3, <1>4

\* A chunk is written behind the others.
LEMMA StreamAppend ==
    ASSUME NEW x \in Dir, NEW g \in Nat, NEW m \in Nat
    PROVE  Append(Stream(x, g, m, 0), Cipher(x[1], x[2], g + m + 1, g + m))
              = Stream(x, g, m + 1, 0)
<1> DEFINE z == Cipher(x[1], x[2], g + m + 1, g + m)
<1>1. PICK s : s = Stream(x, g, m, 0)
  OBVIOUS
<1>a. IsStream(s, x, g, m, 0)
  BY <1>1, StreamCells
<1>2. PICK t : t = Stream(x, g, m + 1, 0)
  OBVIOUS
<1>b. IsStream(t, x, g, m + 1, 0)
  BY <1>2, StreamCells
<1>3. /\ s \in Seq(Cells) /\ Len(s) = m
      /\ \A k \in 1..m : s[k] = Cipher(x[1], x[2], g + k, g + k - 1)
  BY <1>a DEF IsStream
<1>4. /\ t \in Seq(Cells) /\ Len(t) = m + 1
      /\ \A k \in 1..(m + 1) : t[k] = Cipher(x[1], x[2], g + k, g + k - 1)
  BY <1>b DEF IsStream
<1>5. z \in Cells /\ g + m + 1 - 1 = g + m
  <2>1. g + m + 1 \in Nat /\ g + m \in Nat /\ x[1] \in End /\ x[2] \in Conns
    BY DEF Dir
  <2> QED
    BY <2>1 DEF Cells, Cipher
<1>6. PICK r : r = Append(s, z)
  OBVIOUS
<1>7. /\ r \in Seq(Cells) /\ Len(r) = m + 1 /\ r[m + 1] = z
      /\ \A k \in 1..m : r[k] = s[k]
  BY <1>3, <1>5, <1>6, AppendProperties
<1>8. t[m + 1] = z
  BY <1>4, <1>5
<1>9. ASSUME NEW k \in 1..(m + 1) PROVE r[k] = t[k]
  <2>1. k \in 1..m \/ k = m + 1
    OBVIOUS
  <2> QED
    BY <1>3, <1>4, <1>7, <1>8, <2>1
<1>10. r = t
  BY <1>4, <1>7, <1>9, SameCells
<1> QED
  BY <1>1, <1>2, <1>6, <1>10

\* A prefix of a stream is one, and an end of file may follow.
LEMMA StreamCut ==
    ASSUME NEW x \in Dir, NEW g \in Nat, NEW m \in Nat, NEW k \in 0..m
    PROVE  Append(SubSeq(Stream(x, g, m, 0), 1, k), Fin) = Stream(x, g, k, 1)
<1>1. PICK s : s = Stream(x, g, m, 0)
  OBVIOUS
<1>a. IsStream(s, x, g, m, 0)
  BY <1>1, StreamCells
<1>2. PICK t : t = Stream(x, g, k, 1)
  OBVIOUS
<1>b. IsStream(t, x, g, k, 1)
  BY <1>2, StreamCells
<1>3. /\ s \in Seq(Cells) /\ Len(s) = m
      /\ \A i \in 1..m : s[i] = Cipher(x[1], x[2], g + i, g + i - 1)
  BY <1>a DEF IsStream
<1>4. /\ t \in Seq(Cells) /\ Len(t) = k + 1 /\ t[k + 1] = Fin
      /\ \A i \in 1..k : t[i] = Cipher(x[1], x[2], g + i, g + i - 1)
  BY <1>b DEF IsStream
<1>5. PICK p : p = SubSeq(s, 1, k)
  OBVIOUS
<1>6. p \in Seq(Cells) /\ Len(p) = k /\ \A i \in 1..k : p[i] = s[i]
  <2>1. \A i \in 1..k : s[i] \in Cells
    <3>1. \A i \in 1..k : i \in 1..Len(s)
      BY <1>3
    <3> QED
      BY <1>3, <3>1, ElementOfSeq
  <2>2. k \in Int /\ 1 \in Int /\ (IF k >= 1 THEN k - 1 + 1 ELSE 0) = k
    OBVIOUS
  <2>3. p = [i \in 1..k |-> s[i]]
    BY <1>5, <2>2
  <2> QED
    BY <2>1, <2>3
<1>7. PICK r : r = Append(p, Fin)
  OBVIOUS
<1>c. Fin \in Cells
  BY DEF Cells
<1>8. /\ r \in Seq(Cells) /\ Len(r) = k + 1 /\ r[k + 1] = Fin
      /\ \A i \in 1..k : r[i] = p[i]
  BY <1>6, <1>7, <1>c, AppendProperties
<1>9. ASSUME NEW i \in 1..(k + 1) PROVE r[i] = t[i]
  <2>1. (i \in 1..k /\ i \in 1..m) \/ i = k + 1
    OBVIOUS
  <2> QED
    BY <1>3, <1>4, <1>6, <1>8, <2>1
<1>10. r = t
  BY <1>4, <1>8, <1>9, SameCells
<1> QED
  BY <1>1, <1>2, <1>5, <1>7, <1>10

\* The oldest chunk is read, or there is none.
LEMMA StreamTail ==
    ASSUME NEW x \in Dir, NEW g \in Nat, NEW m \in Nat, NEW f \in 0..1
    PROVE  /\ m = 0 /\ Stream(x, g, m, f) # <<>> => Head(Stream(x, g, m, f)) = Fin
           /\ m # 0 => /\ m - 1 \in Nat /\ g + 1 \in Nat
                       /\ Head(Stream(x, g, m, f)) = Cipher(x[1], x[2], g + 1, g)
                       /\ Tail(Stream(x, g, m, f)) = Stream(x, g + 1, m - 1, f)
<1>1. PICK s : s = Stream(x, g, m, f)
  OBVIOUS
<1>a. IsStream(s, x, g, m, f)
  BY <1>1, StreamCells
<1>2. /\ s \in Seq(Cells) /\ Len(s) = m + f
      /\ \A i \in 1..m : s[i] = Cipher(x[1], x[2], g + i, g + i - 1)
      /\ f = 1 => s[m + 1] = Fin
      /\ s = <<>> <=> m = 0 /\ f = 0
  BY <1>a DEF IsStream
<1>3. s # <<>> => Head(s) = s[1]
  BY <1>2, HeadTailProperties
<1>4. m = 0 /\ s # <<>> => Head(s) = Fin
  BY <1>2, <1>3
<1>5. ASSUME m # 0
      PROVE  /\ m - 1 \in Nat /\ g + 1 \in Nat
             /\ Head(s) = Cipher(x[1], x[2], g + 1, g) /\ Tail(s) = Stream(x, g + 1, m - 1, f)
  <2>1. m - 1 \in Nat /\ g + 1 \in Nat /\ g + 1 - 1 = g /\ s # <<>> /\ 1 \in 1..m
    BY <1>2, <1>5
  <2>2. Head(s) = Cipher(x[1], x[2], g + 1, g)
    BY <1>2, <1>3, <2>1
  <2>3. PICK t : t = Stream(x, g + 1, m - 1, f)
    OBVIOUS
  <2>a. IsStream(t, x, g + 1, m - 1, f)
    BY <2>1, <2>3, StreamCells
  <2>4. /\ t \in Seq(Cells) /\ Len(t) = m - 1 + f
        /\ \A i \in 1..(m - 1) : t[i] = Cipher(x[1], x[2], g + 1 + i, g + 1 + i - 1)
        /\ f = 1 => t[m - 1 + 1] = Fin
    BY <2>1, <2>a DEF IsStream
  <2>5. PICK r : r = Tail(s)
    OBVIOUS
  <2>6. /\ r \in Seq(Cells) /\ Len(r) = m - 1 + f
        /\ \A i \in 1..(m - 1 + f) : r[i] = s[i + 1]
    <3>1. r \in Seq(Cells) /\ Len(r) = Len(s) - 1 /\ \A i \in 1..Len(r) : r[i] = s[i + 1]
      BY <1>2, <2>1, <2>5, HeadTailProperties
    <3> QED
      BY <1>2, <3>1
  <2>7. ASSUME NEW i \in 1..(m - 1 + f) PROVE r[i] = t[i]
    <3>1. CASE i \in 1..(m - 1)
      <4>1. i + 1 \in 1..m /\ g + 1 + i = g + (i + 1) /\ g + 1 + i - 1 = g + (i + 1) - 1
        BY <3>1
      <4> QED
        BY <1>2, <2>4, <2>6, <3>1, <4>1
    <3>2. CASE i \notin 1..(m - 1)
      <4>1. f = 1 /\ i = m - 1 + 1 /\ i + 1 = m + 1
        BY <2>1, <3>2
      <4> QED
        BY <1>2, <2>4, <2>6, <4>1
    <3> QED
      BY <3>1, <3>2
  <2>8. r = t
    BY <2>4, <2>6, <2>7, SameCells
  <2> QED
    BY <2>1, <2>2, <2>3, <2>5, <2>8
<1> QED
  BY <1>1, <1>4, <1>5

\* Nothing, and the end of file alone.
LEMMA StreamNone ==
    ASSUME NEW x \in Dir, NEW g \in Nat
    PROVE  Stream(x, g, 0, 0) = <<>> /\ Stream(x, g, 0, 1) = <<Fin>>
<1>1. PICK s, t : s = Stream(x, g, 0, 0) /\ t = Stream(x, g, 0, 1)
  OBVIOUS
<1>2. IsStream(s, x, g, 0, 0) /\ IsStream(t, x, g, 0, 1)
  BY <1>1, StreamCells
<1>3. s = <<>>
  BY <1>2 DEF IsStream
<1>4. t \in Seq(Cells) /\ Len(t) = 1 /\ t[1] = Fin
  BY <1>2 DEF IsStream
<1>5. t = <<Fin>>
  BY <1>4
<1> QED
  BY <1>1, <1>3, <1>5

\* What Relay has in flight.
Pieces == [from : Dir, n : Nat]
IsRun(s, x, g, m) ==
    /\ s \in Seq(Pieces) /\ Len(s) = m
    /\ \A k \in 1..m : s[k] = Ss5Relay!Chunk(x, g + k)

\* The cells of a run.
LEMMA RunCells ==
    ASSUME NEW x \in Dir, NEW g \in Nat, NEW m \in Nat
    PROVE  IsRun(Run(x, g, m), x, g, m)
<1>1. \A k \in 1..m : Ss5Relay!Chunk(x, g + k) \in Pieces
  BY DEF Pieces, Ss5Relay!Chunk
<1>2. PICK s : s = Run(x, g, m)
  OBVIOUS
<1>3. s = [k \in 1..m |-> Ss5Relay!Chunk(x, g + k)]
  BY <1>2 DEF Run
<1> QED
  BY <1>1, <1>2, <1>3 DEF IsRun

\* A sequence with the cells of a run is that run.
LEMMA SameRun ==
    ASSUME NEW x \in Dir, NEW g \in Nat, NEW m \in Nat, NEW s, IsRun(s, x, g, m)
    PROVE  s = Run(x, g, m)
<1>1. PICK t : t = Run(x, g, m)
  OBVIOUS
<1>2. IsRun(t, x, g, m)
  BY <1>1, RunCells
<1>3. /\ s \in Seq(Pieces) /\ t \in Seq(Pieces) /\ Len(s) = Len(t)
      /\ \A k \in 1..Len(s) : s[k] = t[k]
  BY <1>2 DEF IsRun
<1> QED
  BY <1>1, <1>3, SameCells

\* The chunks of a stream, and a header, as Relay sees them.
LEMMA StreamOnWire ==
    ASSUME NEW x \in Dir, NEW g \in Nat, NEW m \in Nat, NEW f \in 0..1
    PROVE  OnWire(Stream(x, g, m, f)) = Run(x, g, m)
<1>1. PICK s : s = Stream(x, g, m, f)
  OBVIOUS
<1>2. IsStream(s, x, g, m, f) /\ (Ended(s) <=> f = 1)
  BY <1>1, StreamCells, StreamEnd
<1>3. Len(s) = m + f /\ \A k \in 1..m : s[k] = Cipher(x[1], x[2], g + k, g + k - 1)
  BY <1>2 DEF IsStream
<1>4. (IF Ended(s) THEN Len(s) - 1 ELSE Len(s)) = m
  BY <1>2, <1>3
<1>5. Skipped(s) = 0
  <2>1. s = <<>> \/ Head(s) = Fin \/ Head(s) = Cipher(x[1], x[2], g + 1, g)
    <3>1. m # 0 => Head(Stream(x, g, m, f)) = Cipher(x[1], x[2], g + 1, g)
      BY StreamTail
    <3>2. m = 0 /\ Stream(x, g, m, f) # <<>> => Head(Stream(x, g, m, f)) = Fin
      BY StreamTail
    <3> QED
      BY <1>1, <3>1, <3>2
  <2> QED
    BY <2>1, ItemKinds DEF Skipped
<1>6. OnWire(s) = [k \in 1..m |-> OfConn(s[k])]
  <2>1. m - 0 = m /\ \A k \in 1..m : 0 + k = k
    OBVIOUS
  <2> QED
    BY <1>4, <1>5, <2>1 DEF OnWire
<1>7. \A k \in 1..m : OfConn(s[k]) = Ss5Relay!Chunk(x, g + k)
  <2>1. x = <<x[1], x[2]>>
    BY DEF Dir
  <2>2. \A n, k : OfConn(Cipher(x[1], x[2], n, k)) = Ss5Relay!Chunk(x, n)
    BY <2>1 DEF OfConn, Cipher, Ss5Relay!Chunk
  <2> QED
    BY <1>3, <2>2
<1>8. Run(x, g, m) = [k \in 1..m |-> Ss5Relay!Chunk(x, g + k)]
  BY DEF Run
<1> QED
  BY <1>1, <1>6, <1>7, <1>8

\* A header is nothing that Relay has in flight, and neither is an empty channel.
LEMMA HeaderOnWire ==
    /\ \A q \in Headers : OnWire(q) = <<>> /\ q # <<>> /\ Head(q) \in {Req, ErrHead}
    /\ OnWire(<<>>) = <<>> /\ ~Ended(<<>>) /\ <<>> \notin Headers
<1>1. OnWire(<<>>) = <<>> /\ ~Ended(<<>>) /\ <<>> \notin Headers
  BY DEF OnWire, Ended, Skipped, Headers
<1>2. ASSUME NEW q, q = <<Req>> \/ q = <<ErrHead>> PROVE OnWire(q) = <<>>
  <2>1. q # <<>> /\ Len(q) = 1 /\ Head(q) \in {Req, ErrHead} /\ q[1] \in {Req, ErrHead}
    BY <1>2
  <2>2. Skipped(q) = 1 /\ ~Ended(q)
    BY <2>1, ItemKinds DEF Skipped, Ended
  <2> QED
    BY <2>1, <2>2 DEF OnWire
<1>3. ASSUME NEW q, q = <<Req, Fin>> PROVE OnWire(q) = <<>>
  <2>1. q # <<>> /\ Len(q) = 2 /\ Head(q) = Req /\ q[2] = Fin
    BY <1>3
  <2>2. Skipped(q) = 1 /\ Ended(q)
    BY <2>1 DEF Skipped, Ended
  <2> QED
    BY <2>1, <2>2 DEF OnWire
<1>4. \A q \in Headers : q # <<>> /\ Head(q) \in {Req, ErrHead}
  BY DEF Headers
<1> QED
  BY <1>1, <1>2, <1>3, <1>4 DEF Headers

\* A run grows at one end, and is read at the other.
LEMMA RunAppend ==
    ASSUME NEW x \in Dir, NEW g \in Nat, NEW m \in Nat
    PROVE  Append(Run(x, g, m), Ss5Relay!Chunk(x, g + m + 1)) = Run(x, g, m + 1)
<1>1. PICK s, r, z : s = Run(x, g, m) /\ z = Ss5Relay!Chunk(x, g + m + 1) /\ r = Append(s, z)
  OBVIOUS
<1>2. IsRun(s, x, g, m)
  BY <1>1, RunCells
<1>3. s \in Seq(Pieces) /\ Len(s) = m /\ \A k \in 1..m : s[k] = Ss5Relay!Chunk(x, g + k)
  BY <1>2 DEF IsRun
<1>4. z \in Pieces
  BY <1>1 DEF Pieces, Ss5Relay!Chunk
<1>5. r \in Seq(Pieces) /\ Len(r) = m + 1 /\ r[m + 1] = z /\ \A k \in 1..m : r[k] = s[k]
  BY <1>1, <1>3, <1>4, AppendProperties
<1>6. \A k \in 1..(m + 1) : r[k] = Ss5Relay!Chunk(x, g + k)
  <2>1. \A k \in 1..(m + 1) : k \in 1..m \/ (k = m + 1 /\ g + k = g + m + 1)
    OBVIOUS
  <2> QED
    BY <1>1, <1>3, <1>5, <2>1
<1>7. IsRun(r, x, g, m + 1) /\ m + 1 \in Nat
  BY <1>5, <1>6 DEF IsRun
<1>8. r = Run(x, g, m + 1)
  BY <1>7, SameRun
<1> QED
  BY <1>1, <1>8

\* The oldest piece of a run is the next that its reader expects.
LEMMA RunTail ==
    ASSUME NEW x \in Dir, NEW g \in Nat, NEW m \in Nat \ {0}
    PROVE  /\ Run(x, g, m) # <<>> /\ Head(Run(x, g, m)) = Ss5Relay!Chunk(x, g + 1)
           /\ Tail(Run(x, g, m)) = Run(x, g + 1, m - 1)
<1>1. PICK s, r : s = Run(x, g, m) /\ r = Tail(s)
  OBVIOUS
<1>2. IsRun(s, x, g, m)
  BY <1>1, RunCells
<1>3. s \in Seq(Pieces) /\ Len(s) = m /\ \A k \in 1..m : s[k] = Ss5Relay!Chunk(x, g + k)
  BY <1>2 DEF IsRun
<1>4. s # <<>> /\ 1 \in 1..m
  BY <1>3
<1>5. Head(s) = Ss5Relay!Chunk(x, g + 1)
  BY <1>3, <1>4, HeadTailProperties
<1>6. r \in Seq(Pieces) /\ Len(r) = m - 1 /\ \A k \in 1..(m - 1) : r[k] = s[k + 1]
  <2>1. r \in Seq(Pieces) /\ Len(r) = Len(s) - 1 /\ \A k \in 1..Len(r) : r[k] = s[k + 1]
    BY <1>1, <1>3, <1>4, HeadTailProperties
  <2> QED
    BY <1>3, <2>1
<1>7. \A k \in 1..(m - 1) : r[k] = Ss5Relay!Chunk(x, g + 1 + k)
  <2>1. \A k \in 1..(m - 1) : k + 1 \in 1..m /\ g + (k + 1) = g + 1 + k
    OBVIOUS
  <2> QED
    BY <1>3, <1>6, <2>1
<1>8. IsRun(r, x, g + 1, m - 1)
  BY <1>6, <1>7 DEF IsRun
<1>9. g + 1 \in Nat /\ m - 1 \in Nat
  OBVIOUS
<1>10. r = Run(x, g + 1, m - 1)
  BY <1>8, <1>9, SameRun
<1> QED
  BY <1>1, <1>4, <1>5, <1>10

\* A shorter run is a prefix.
LEMMA RunPrefix ==
    ASSUME NEW x \in Dir, NEW g \in Nat, NEW m \in Nat, NEW k \in 0..m
    PROVE  Ss5Relay!IsPrefix(Run(x, g, k), Run(x, g, m)) /\ Ss5Relay!IsPrefix(<<>>, Run(x, g, m))
<1>1. PICK s, t : s = Run(x, g, m) /\ t = Run(x, g, k)
  OBVIOUS
<1>2. IsRun(s, x, g, m) /\ IsRun(t, x, g, k)
  BY <1>1, RunCells
<1>3. /\ Len(s) = m /\ \A i \in 1..m : s[i] = Ss5Relay!Chunk(x, g + i)
      /\ Len(t) = k /\ \A i \in 1..k : t[i] = Ss5Relay!Chunk(x, g + i)
  BY <1>2 DEF IsRun
<1>4. Ss5Relay!IsPrefix(t, s)
  BY <1>3 DEF Ss5Relay!IsPrefix
<1>5. Ss5Relay!IsPrefix(<<>>, s)
  BY <1>3 DEF Ss5Relay!IsPrefix
<1> QED
  BY <1>1, <1>4, <1>5

-----------------------------------------------------------------------------
(* What a step may do to a channel, and Relay's view of the state.         *)

\* The reader of x has gone; what Relay has in flight; Relay's phase.
Lost(x)     == IF x[1] = "app" THEN place[x[2]] = "closed" ELSE cl[x[2]] = "freed"
InFlight(x) == IF Lost(x) THEN <<>> ELSE OnWire(Chan(x))
Phase(c)    == IF Broken(c) THEN "broken" ELSE IF place[c] = "worker" THEN "open" ELSE "idle"

\* What a step may do to the channel of x: nothing that Relay sees, or cut it
\* short as the connection breaks.
KeepsFlow(x) ==
    \/ Chan(x)' = Chan(x)
    \/ Chan(x) = <<>> /\ Chan(x)' \in {<<Req>>, <<ErrHead>>}
    \/ Chan(x) \in {<<Req>>, <<Req, Fin>>} /\ Chan(x)' = Tail(Chan(x))
CutsFlow(x) ==
    \/ Chan(x)' = <<>>
    \/ /\ ~Ended(Chan(x)) /\ (Chan(x) \in Headers => Chan(x) = <<Req>>)
       /\ \E k \in 0..Len(Chan(x)) :
             /\ Chan(x)' = Append(SubSeq(Chan(x), 1, k), Fin)
             /\ Chan(x) = <<Req>> => k # 0

\* The two directions of a connection.
LEMMA DirFacts ==
    /\ \A x \in Dir : /\ Far(x) \in Dir /\ Far(x) # x /\ Far(Far(x)) = x /\ Far(x)[2] = x[2]
                       /\ x = <<x[1], x[2]>> /\ x[1] \in End /\ x[2] \in Conns
    /\ \A c \in Conns : /\ <<"app", c>> \in Dir /\ <<"remote", c>> \in Dir
                         /\ Far(<<"app", c>>) = <<"remote", c>>
                         /\ Far(<<"remote", c>>) = <<"app", c>>
    /\ \A x \in Dir : x = <<"app", x[2]>> \/ x = <<"remote", x[2]>>
  BY DEF Far, Dir, End

\* Relay's variables.
LEMMA RelayView ==
    /\ relayPhase = [c \in Conns |-> Phase(c)] /\ relayPhase' = [c \in Conns |-> Phase(c)']
    /\ relayWire = [x \in Dir |-> InFlight(x)] /\ relayWire' = [x \in Dir |-> InFlight(x)']
    /\ relayGot = [x \in Dir |-> Received(got[Far(x)])]
    /\ relayGot' = [x \in Dir |-> Received(got'[Far(x)])]
    /\ Ss5Relay!Dir = Dir
<1>1. \A c \in Conns : Phase(c) = IF cl[c] = "freed" \/ place[c] = "closed" THEN "broken"
                                  ELSE IF place[c] = "worker" THEN "open" ELSE "idle"
  BY DEF Phase, Broken
<1>2. \A c \in Conns : Phase(c)' = IF cl'[c] = "freed" \/ place'[c] = "closed" THEN "broken"
                                   ELSE IF place'[c] = "worker" THEN "open" ELSE "idle"
  BY DEF Phase, Broken
<1>3. \A x \in Dir : x[1] = "app" \/ x[1] = "remote"
  BY DEF Dir, End
<1>4. ASSUME NEW x \in Dir
      PROVE InFlight(x) =
        CASE x[1] = "app"    -> IF place[x[2]] = "closed" THEN <<>> ELSE OnWire(up[x[2]])
          [] x[1] = "remote" -> IF cl[x[2]] = "freed" THEN <<>> ELSE OnWire(dn[x[2]])
  <2>1. CASE x[1] = "app"
    BY <2>1 DEF InFlight, Lost, Chan
  <2>2. CASE x[1] = "remote"
    BY <2>2 DEF InFlight, Lost, Chan
  <2> QED
    BY <1>3, <2>1, <2>2
<1>5. ASSUME NEW x \in Dir
      PROVE InFlight(x)' =
        CASE x[1] = "app"    -> IF place'[x[2]] = "closed" THEN <<>> ELSE OnWire(up'[x[2]])
          [] x[1] = "remote" -> IF cl'[x[2]] = "freed" THEN <<>> ELSE OnWire(dn'[x[2]])
  <2>1. CASE x[1] = "app"
    BY <2>1 DEF InFlight, Lost, Chan
  <2>2. CASE x[1] = "remote"
    BY <2>2 DEF InFlight, Lost, Chan
  <2> QED
    BY <1>3, <2>1, <2>2
<1>6. /\ relayPhase = [c \in Conns |-> Phase(c)] /\ relayPhase' = [c \in Conns |-> Phase(c)']
  BY <1>1, <1>2 DEF relayPhase
<1>7. /\ relayWire = [x \in Dir |-> InFlight(x)] /\ relayWire' = [x \in Dir |-> InFlight(x)']
  BY <1>4, <1>5 DEF relayWire, Dir
<1>8. /\ relayGot = [x \in Dir |-> Received(got[Far(x)])]
      /\ relayGot' = [x \in Dir |-> Received(got'[Far(x)])]
      /\ Ss5Relay!Dir = Dir
  BY DEF relayGot, Dir, Far, Ss5Relay!Dir
<1> QED
  BY <1>6, <1>7, <1>8

\* What is known of a direction.
LEMMA FlowFacts ==
    ASSUME TypeOK, FlowInv, NEW x \in Dir
    PROVE  /\ FlowOf(x) /\ Complete(x) /\ Read(x) \in Nat /\ sent[x] \in Nat
           /\ got[Far(x)] \in Seq(Chunks) /\ Chan(x) \in Seq(Items)
           /\ \E m \in Nat : OnWire(Chan(x)) = Run(x, Read(x), m) /\ Len(OnWire(Chan(x))) = m
<1>1. FlowOf(x) /\ Complete(x)
  BY DEF FlowInv
<1>2. x[2] \in Conns /\ Far(x) \in End \X Conns /\ x \in End \X Conns
  BY DirFacts DEF Dir
<1>3. Read(x) \in Nat /\ sent[x] \in Nat /\ got[Far(x)] \in Seq(Chunks) /\ Chan(x) \in Seq(Items)
  <2>1. sent[x] \in Nat
    BY <1>2, BoundsAssumption DEF TypeOK
  <2>2. pos[x[2]] \in Contexts
    BY <1>2 DEF TypeOK
  <2>3. Read(x) \in Nat
    BY <2>2 DEF Read, Contexts
  <2>4. got[Far(x)] \in Seq(Chunks)
    BY <1>2 DEF TypeOK
  <2>5. Chan(x) \in Seq(Items)
    BY <1>2 DEF TypeOK, Chan
  <2> QED
    BY <2>1, <2>3, <2>4, <2>5
<1>4. \A m \in Nat : Len(Run(x, Read(x), m)) = m
  BY <1>3, RunCells DEF IsRun
<1>5. \E m \in Nat : OnWire(Chan(x)) = Run(x, Read(x), m)
  <2>1. CASE Chan(x) \in Headers
    <3>1. OnWire(Chan(x)) = <<>>
      BY <2>1, HeaderOnWire
    <3>2. Run(x, Read(x), 0) = <<>>
      BY DEF Run
    <3> QED
      BY <3>1, <3>2
  <2>2. ASSUME NEW m \in Nat, NEW f \in 0..1, Chan(x) = Stream(x, Read(x), m, f)
        PROVE  OnWire(Chan(x)) = Run(x, Read(x), m)
    BY <1>3, <2>2, StreamOnWire
  <2> QED
    BY <1>1, <2>1, <2>2 DEF FlowOf
<1> QED
  BY <1>1, <1>3, <1>4, <1>5

\* Channels with one or two items.
LEMMA ShortTails ==
    \A a, b : /\ Tail(<<a>>) = <<>> /\ Tail(<<a, b>>) = <<b>>
             /\ Append(SubSeq(<<a>>, 1, 1), b) = <<a, b>>
<1>1. \A a, b : Tail(<<a>>) = <<>> /\ Tail(<<a, b>>) = <<b>>
  OBVIOUS
<1>2. ASSUME NEW a PROVE SubSeq(<<a>>, 1, 1) = <<a>>
  <2>1. PICK s, r : s = <<a>> /\ r = SubSeq(s, 1, 1)
    OBVIOUS
  <2>2. s \in Seq({a}) /\ Len(s) = 1 /\ s[1] = a
    BY <2>1
  <2>3. r = [i \in 1..1 |-> s[i]]
    BY <2>1
  <2>4. r \in Seq({a}) /\ Len(r) = 1 /\ \A i \in 1..1 : r[i] = s[i]
    BY <2>2, <2>3
  <2>5. r = s
    BY <2>2, <2>4, SameCells
  <2> QED
    BY <2>1, <2>5
<1>3. ASSUME NEW a, NEW b PROVE Append(<<a>>, b) = <<a, b>>
  <2>1. PICK s, t, r : s = <<a>> /\ t = <<a, b>> /\ r = Append(s, b)
    OBVIOUS
  <2>2. s \in Seq({a, b}) /\ Len(s) = 1 /\ s[1] = a
    BY <2>1
  <2>3. t \in Seq({a, b}) /\ Len(t) = 2 /\ t[1] = a /\ t[2] = b
    BY <2>1
  <2>4. r \in Seq({a, b}) /\ Len(r) = 2 /\ r[1] = a /\ r[2] = b
    BY <2>1, <2>2, AppendProperties
  <2>5. \A i \in 1..2 : r[i] = t[i]
    BY <2>3, <2>4
  <2>6. r = t
    BY <2>3, <2>4, <2>5, SameCells
  <2> QED
    BY <2>1, <2>6
<1> QED
  BY <1>1, <1>2, <1>3

\* A step that leaves the ends of a direction alone.
LEMMA ChanKeeps ==
    ASSUME TypeOK, FlowInv, UNCHANGED <<pos, sent, got>>, NEW x \in Dir, KeepsFlow(x)
    PROVE  FlowOf(x)' /\ OnWire(Chan(x))' = OnWire(Chan(x))
<1>1. FlowOf(x) /\ Read(x) \in Nat
  BY FlowFacts
<1>2. Write(x)' = Write(x) /\ Read(x)' = Read(x) /\ sent'[x] = sent[x] /\ got'[Far(x)] = got[Far(x)]
  BY DEF Write, Read
<1>3. CASE Chan(x)' = Chan(x)
  BY <1>1, <1>2, <1>3 DEF FlowOf, Stream
<1>4. CASE Chan(x) = <<>> /\ Chan(x)' \in {<<Req>>, <<ErrHead>>}
  <2>1. Chan(x)' \in Headers
    BY <1>4 DEF Headers
  <2>2. OnWire(Chan(x)') = <<>> /\ OnWire(Chan(x)) = <<>>
    BY <1>4, <2>1, HeaderOnWire
  <2> QED
    BY <1>1, <1>2, <2>1, <2>2 DEF FlowOf
<1>5. CASE Chan(x) \in {<<Req>>, <<Req, Fin>>} /\ Chan(x)' = Tail(Chan(x))
  <2>1. Chan(x)' = <<>> \/ Chan(x)' = <<Fin>>
    BY <1>5, ShortTails
  <2>2. \E f \in 0..1 : Chan(x)' = Stream(x, Read(x), 0, f)
    BY <1>1, <2>1, StreamNone
  <2>3. OnWire(Chan(x)') = Run(x, Read(x), 0)
    BY <1>1, <2>2, StreamOnWire
  <2>4. Run(x, Read(x), 0) = <<>>
    BY DEF Run
  <2>5. OnWire(Chan(x)) = <<>>
    BY <1>5, HeaderOnWire DEF Headers
  <2>6. FlowOf(x)'
    BY <1>1, <1>2, <2>2 DEF FlowOf
  <2> QED
    BY <2>3, <2>4, <2>5, <2>6
<1> QED
  BY <1>3, <1>4, <1>5 DEF KeepsFlow

\* A step that cuts a channel short leaves a prefix of what was under way.
LEMMA ChanCuts ==
    ASSUME TypeOK, FlowInv, UNCHANGED <<pos, sent, got>>, NEW x \in Dir, CutsFlow(x)
    PROVE  /\ FlowOf(x)' /\ Ss5Relay!IsPrefix(OnWire(Chan(x))', OnWire(Chan(x)))
           /\ Chan(x)' \in Headers => Chan(x) \in Headers /\ Chan(x)' = <<Req, Fin>>
<1>1. FlowOf(x) /\ Read(x) \in Nat
  BY FlowFacts
<1>2. Write(x)' = Write(x) /\ Read(x)' = Read(x) /\ sent'[x] = sent[x] /\ got'[Far(x)] = got[Far(x)]
  BY DEF Write, Read
<1>3. PICK n \in Nat : OnWire(Chan(x)) = Run(x, Read(x), n)
  BY FlowFacts
<1>4. ASSUME NEW m \in 0..n, NEW f \in 0..1, Chan(x)' = Stream(x, Read(x), m, f)
      PROVE  /\ FlowOf(x)' /\ Ss5Relay!IsPrefix(OnWire(Chan(x))', OnWire(Chan(x)))
             /\ Chan(x)' \notin Headers
  <2>1. m \in Nat
    OBVIOUS
  <2>2. OnWire(Chan(x)') = Run(x, Read(x), m) /\ Chan(x)' \notin Headers
    BY <1>1, <1>4, <2>1, StreamOnWire, StreamEnd
  <2>3. Ss5Relay!IsPrefix(Run(x, Read(x), m), Run(x, Read(x), n))
    BY <1>1, RunPrefix
  <2>4. FlowOf(x)'
    BY <1>1, <1>2, <1>4, <2>1 DEF FlowOf
  <2> QED
    BY <1>3, <2>2, <2>3, <2>4
<1>5. CASE Chan(x)' = <<>>
  <2>1. Chan(x)' = Stream(x, Read(x), 0, 0) /\ 0 \in 0..n /\ 0 \in 0..1
    BY <1>1, <1>5, StreamNone
  <2> QED
    BY <1>4, <2>1
<1>6. ASSUME ~Ended(Chan(x)), Chan(x) \in Headers => Chan(x) = <<Req>>,
             NEW k \in 0..Len(Chan(x)), Chan(x)' = Append(SubSeq(Chan(x), 1, k), Fin),
             Chan(x) = <<Req>> => k # 0
      PROVE  /\ FlowOf(x)' /\ Ss5Relay!IsPrefix(OnWire(Chan(x))', OnWire(Chan(x)))
             /\ Chan(x)' \in Headers => Chan(x) \in Headers /\ Chan(x)' = <<Req, Fin>>
  <2>1. CASE Chan(x) \in Headers
    <3>1. Chan(x) = <<Req>> /\ k = 1
      <4>1. Chan(x) = <<Req>> /\ k # 0
        BY <1>6, <2>1
      <4>2. Len(<<Req>>) = 1
        OBVIOUS
      <4> QED
        BY <4>1, <4>2
    <3>2. Chan(x)' = <<Req, Fin>>
      BY <1>6, <3>1, ShortTails
    <3>3. Chan(x)' \in Headers
      BY <3>2 DEF Headers
    <3>4. OnWire(Chan(x)') = <<>> /\ OnWire(Chan(x)) = <<>>
      BY <2>1, <3>3, HeaderOnWire
    <3>5. Ss5Relay!IsPrefix(<<>>, <<>>)
      BY DEF Ss5Relay!IsPrefix
    <3>6. FlowOf(x)'
      BY <1>1, <1>2, <3>3 DEF FlowOf
    <3> QED
      BY <2>1, <3>2, <3>4, <3>5, <3>6
  <2>2. CASE Chan(x) \notin Headers
    <3>1. PICK m \in Nat, f \in 0..1 : Chan(x) = Stream(x, Read(x), m, f)
      BY <1>1, <2>2 DEF FlowOf
    <3>2. f = 0
      <4>1. Ended(Stream(x, Read(x), m, f)) <=> f = 1
        BY <1>1, StreamEnd
      <4> QED
        BY <1>6, <3>1, <4>1
    <3>3. m = n /\ Len(Chan(x)) = m
      <4>1. OnWire(Chan(x)) = Run(x, Read(x), m)
        BY <1>1, <3>1, StreamOnWire
      <4>2. IsRun(Run(x, Read(x), m), x, Read(x), m) /\ IsRun(Run(x, Read(x), n), x, Read(x), n)
        BY <1>1, RunCells
      <4>3. Len(Run(x, Read(x), m)) = m /\ Len(Run(x, Read(x), n)) = n
        BY <4>2 DEF IsRun
      <4>4. IsStream(Chan(x), x, Read(x), m, 0)
        BY <1>1, <3>1, <3>2, StreamCells
      <4>5. Len(Chan(x)) = m
        BY <4>4 DEF IsStream
      <4> QED
        BY <1>3, <4>1, <4>3, <4>5
    <3>4. k \in 0..m /\ k \in 0..n
      BY <3>3
    <3>5. Chan(x)' = Stream(x, Read(x), k, 1)
      BY <1>1, <1>6, <3>1, <3>2, <3>4, StreamCut
    <3> QED
      BY <1>4, <3>4, <3>5
  <2> QED
    BY <2>1, <2>2
<1> QED
  BY <1>4, <1>5, <1>6, HeaderOnWire DEF CutsFlow

-----------------------------------------------------------------------------
(* Steps in which nothing is sent or received; steps in one direction.     *)

\* A step in which nothing is sent or received.
LEMMA QuietFlow ==
    ASSUME TypeOK, FlowInv, UNCHANGED <<pos, sent, got>>,
           \A x \in Dir : KeepsFlow(x) \/ (CutsFlow(x) /\ Broken(x[2])'),
           \A c \in Conns : Broken(c) => Broken(c)',
           \A x \in Dir : Lost(x) => Lost(x)',
           \A c \in Conns : HeadersOf(c)'
    PROVE  /\ FlowInv'
           /\ \A x \in Dir : \/ InFlight(x)' = InFlight(x)
                             \/ Broken(x[2])' /\ Ss5Relay!IsPrefix(InFlight(x)', InFlight(x))
<1>1. ASSUME NEW x \in Dir PROVE FlowOf(x)' /\ Complete(x)'
  <2>1. CASE KeepsFlow(x)
    <3>1. FlowOf(x)' /\ OnWire(Chan(x))' = OnWire(Chan(x)) /\ Complete(x) /\ x[2] \in Conns
      BY <2>1, ChanKeeps, FlowFacts, DirFacts
    <3>2. Read(x)' = Read(x)
      BY DEF Read
    <3> QED
      BY <3>1, <3>2 DEF Complete
  <2>2. CASE CutsFlow(x) /\ Broken(x[2])'
    BY <2>2, ChanCuts DEF Complete
  <2> QED
    BY <2>1, <2>2
<1>2. ASSUME NEW x \in Dir
      PROVE  \/ InFlight(x)' = InFlight(x)
             \/ Broken(x[2])' /\ Ss5Relay!IsPrefix(InFlight(x)', InFlight(x))
  <2>1. PICK m \in Nat : OnWire(Chan(x)) = Run(x, Read(x), m)
    BY FlowFacts
  <2>2. Ss5Relay!IsPrefix(<<>>, OnWire(Chan(x)))
    BY <2>1, FlowFacts, RunPrefix
  <2>3. CASE Lost(x)
    BY <2>3 DEF InFlight
  <2>4. CASE ~Lost(x) /\ Lost(x)'
    <3>1. Broken(x[2])'
      BY <2>4 DEF Lost, Broken
    <3> QED
      BY <2>2, <2>4, <3>1 DEF InFlight
  <2>5. CASE ~Lost(x) /\ ~Lost(x)'
    <3>1. InFlight(x) = OnWire(Chan(x)) /\ InFlight(x)' = OnWire(Chan(x))'
      BY <2>5 DEF InFlight
    <3>2. CASE KeepsFlow(x)
      BY <3>1, <3>2, ChanKeeps
    <3>3. CASE CutsFlow(x) /\ Broken(x[2])'
      BY <3>1, <3>3, ChanCuts
    <3> QED
      BY <3>2, <3>3
  <2> QED
    BY <2>3, <2>4, <2>5
<1> QED
  BY <1>1, <1>2 DEF FlowInv

\* ... is a Break of Relay, unless the connection is opened.
LEMMA QuietStep ==
    ASSUME TypeOK, FlowInv, UNCHANGED <<pos, sent, got>>,
           \A x \in Dir : KeepsFlow(x) \/ (CutsFlow(x) /\ Broken(x[2])'),
           \A c \in Conns : Broken(c) => Broken(c)',
           \A c \in Conns : Broken(c)' \/ (place'[c] = "worker" <=> place[c] = "worker"),
           \A x \in Dir : Lost(x) => Lost(x)',
           \A c \in Conns : HeadersOf(c)'
    PROVE  FlowInv' /\ Ss5Relay!Next
<1>1. /\ FlowInv'
      /\ \A x \in Dir : \/ InFlight(x)' = InFlight(x)
                        \/ Broken(x[2])' /\ Ss5Relay!IsPrefix(InFlight(x)', InFlight(x))
  BY QuietFlow
<1>2. \A c \in Conns : Phase(c)' \in {Phase(c), "broken"}
  BY DEF Phase
<1>3. \A x \in Dir : x[2] \in Conns /\ (Broken(x[2])' => Phase(x[2])' = "broken")
  BY DirFacts DEF Phase
<1>4. \A c \in Conns : relayPhase'[c] \in {relayPhase[c], "broken"}
  BY <1>2, RelayView
<1>5. \A x \in Dir : /\ relayWire'[x] = InFlight(x)' /\ relayWire[x] = InFlight(x)
                     /\ Broken(x[2])' => relayPhase'[x[2]] = "broken"
  BY <1>3, RelayView
<1>6. relayGot' = relayGot
  BY RelayView
<1>7. Ss5Relay!Break
  BY <1>1, <1>4, <1>5, <1>6, RelayView DEF Ss5Relay!Break
<1> QED
  BY <1>1, <1>7 DEF Ss5Relay!Next

\* A connection is opened.
LEMMA OpenStep ==
    ASSUME TypeOK, FlowInv, UNCHANGED <<up, dn, cl, pos, sent, got>>, NEW c \in Conns,
           place[c] \notin {"worker", "closed"}, place' = [place EXCEPT ![c] = "worker"],
           \A b \in Conns : HeadersOf(b)'
    PROVE  FlowInv' /\ Ss5Relay!Next
<1>1. place'[c] = "worker" /\ \A b \in Conns : b # c => place'[b] = place[b]
  BY DEF TypeOK
<1>2. \A x \in Dir : KeepsFlow(x)
  BY DEF KeepsFlow, Chan
<1>3. \A b \in Conns : Broken(b)' <=> Broken(b)
  BY <1>1 DEF Broken
<1>4. \A x \in Dir : x[2] \in Conns /\ (Lost(x)' <=> Lost(x))
  BY <1>1, DirFacts DEF Lost
<1>5. FlowInv'
  BY <1>2, <1>3, <1>4, QuietFlow
<1>6. \A x \in Dir : InFlight(x)' = InFlight(x)
  BY <1>4 DEF InFlight, Chan
<1>7. CASE Broken(c)
  BY <1>1, <1>2, <1>3, <1>4, <1>7, QuietStep
<1>8. CASE ~Broken(c)
  <2>1. Phase(c) = "idle" /\ Phase(c)' = "open" /\ \A b \in Conns : b # c => Phase(b)' = Phase(b)
    BY <1>1, <1>3, <1>8 DEF Phase
  <2>2. relayPhase[c] = "idle" /\ relayPhase' = [relayPhase EXCEPT ![c] = "open"]
    BY <2>1, RelayView
  <2>3. relayWire' = relayWire /\ relayGot' = relayGot
    BY <1>6, RelayView
  <2>4. Ss5Relay!Join(c)
    BY <2>2, <2>3 DEF Ss5Relay!Join
  <2> QED
    BY <1>5, <2>4 DEF Ss5Relay!Next
<1> QED
  BY <1>7, <1>8

\* A step that concerns one direction leaves all others as they are.
SameFlow(y) ==
    /\ Chan(y)' = Chan(y) /\ Read(y)' = Read(y) /\ Write(y)' = Write(y)
    /\ sent'[y] = sent[y] /\ got'[Far(y)] = got[Far(y)]

\* Such a step keeps the invariant where it keeps it for its own direction.
LEMMA OneFlow ==
    ASSUME FlowInv, NEW x \in Dir, UNCHANGED <<cl, place, remote>>,
           \A y \in Dir \ {x} : SameFlow(y), FlowOf(x)', Complete(x)',
           \A c \in Conns : HeadersOf(c)'
    PROVE  /\ FlowInv' /\ relayPhase' = relayPhase
           /\ \A y \in Dir \ {x} : relayWire'[y] = relayWire[y] /\ relayGot'[y] = relayGot[y]
<1>1. ASSUME NEW y \in Dir, y # x PROVE FlowOf(y)' /\ Complete(y)'
  <2>1. FlowOf(y) /\ Complete(y) /\ SameFlow(y)
    BY <1>1 DEF FlowInv
  <2> QED
    BY <2>1 DEF FlowOf, Complete, Broken, SameFlow
<1>2. FlowInv'
  BY <1>1 DEF FlowInv
<1>3. \A c \in Conns : Phase(c)' = Phase(c)
  BY DEF Phase, Broken
<1>4. \A y \in Dir \ {x} : InFlight(y)' = InFlight(y) /\ got'[Far(y)] = got[Far(y)]
  BY DEF SameFlow, InFlight, Lost
<1> QED
  BY <1>2, <1>3, <1>4, RelayView

\* Chunks received, as Relay sees them.
LEMMA ReceivedFacts ==
    /\ \A q \in Seq(Chunks) : Len(Received(q)) = Len(q)
    /\ \A q \in Seq(Chunks), z \in Chunks :
          Received(Append(q, z)) = Append(Received(q), OfConn(z))
<1> DEFINE S == {OfConn(z) : z \in Chunks}
<1>1. ASSUME NEW q \in Seq(Chunks)
      PROVE  /\ Received(q) \in Seq(S) /\ Len(Received(q)) = Len(q)
             /\ \A i \in 1..Len(q) : Received(q)[i] = OfConn(q[i])
  <2>1. Len(q) \in Nat /\ \A i \in 1..Len(q) : OfConn(q[i]) \in S
    BY ElementOfSeq, LenProperties
  <2>2. Received(q) = [k \in 1..Len(q) |-> OfConn(q[k])]
    BY DEF Received
  <2> HIDE DEF S
  <2> QED
    BY <2>1, <2>2
<1>2. ASSUME NEW q \in Seq(Chunks), NEW z \in Chunks
      PROVE  Received(Append(q, z)) = Append(Received(q), OfConn(z))
  <2>1. PICK r, p, s, o : /\ r = Append(q, z) /\ p = Received(q) /\ s = Received(r)
                          /\ o = OfConn(z)
    OBVIOUS
  <2>2. /\ r \in Seq(Chunks) /\ Len(r) = Len(q) + 1 /\ r[Len(q) + 1] = z
        /\ \A i \in 1..Len(q) : r[i] = q[i]
    BY <2>1, AppendProperties
  <2>3. p \in Seq(S) /\ Len(p) = Len(q) /\ \A i \in 1..Len(q) : p[i] = OfConn(q[i])
    BY <1>1, <2>1
  <2>4. s \in Seq(S) /\ Len(s) = Len(q) + 1 /\ \A i \in 1..(Len(q) + 1) : s[i] = OfConn(r[i])
    BY <1>1, <2>1, <2>2
  <2>5. o \in S
    BY <2>1
  <2> HIDE DEF S
  <2>6. PICK t : t = Append(p, o)
    OBVIOUS
  <2>7. /\ t \in Seq(S) /\ Len(t) = Len(q) + 1 /\ t[Len(q) + 1] = o
        /\ \A i \in 1..Len(q) : t[i] = p[i]
    BY <2>3, <2>5, <2>6, AppendProperties
  <2>8. Len(q) \in Nat
    BY LenProperties
  <2>9. ASSUME NEW i \in 1..(Len(q) + 1) PROVE s[i] = t[i]
    <3>1. i \in 1..Len(q) \/ i = Len(q) + 1
      BY <2>8
    <3> QED
      BY <2>1, <2>2, <2>3, <2>4, <2>7, <3>1
  <2>10. s = t
    BY <2>4, <2>7, <2>9, SameCells
  <2> QED
    BY <2>1, <2>6, <2>10
<1> QED
  BY <1>1, <1>2

-----------------------------------------------------------------------------
(* A chunk is sent, written to nobody, or received.                        *)

\* Reading a chunk off a stream that has one leaves a stream.
LEMMA StreamRest ==
    ASSUME NEW x \in Dir, NEW g \in Nat, NEW m \in Nat \ {0}, NEW f \in 0..1
    PROVE  Tail(Stream(x, g, m, f)) = Stream(x, g + 1, m - 1, f)
<1>1. PICK s, t : s = Tail(Stream(x, g, m, f)) /\ t = Stream(x, g + 1, m - 1, f)
  OBVIOUS
<1>2. s = t
  BY <1>1, StreamTail
<1> QED
  BY <1>1, <1>2

\* Once connected, a direction is a stream, and its headers' rules are kept.
LEMMA ConnectedFlow ==
    ASSUME TypeOK, FlowInv, NEW x \in Dir, place[x[2]] \in {"worker", "closed"}
    PROVE  \E m \in Nat, f \in 0..1 :
              /\ Chan(x) = Stream(x, Read(x), m, f) /\ (Ended(Chan(x)) <=> f = 1)
              /\ OnWire(Chan(x)) = Run(x, Read(x), m) /\ Len(OnWire(Chan(x))) = m
<1>1. HeadersOf(x[2]) /\ FlowOf(x) /\ Read(x) \in Nat
  BY FlowFacts, DirFacts DEF FlowInv
<1>2. Chan(x) \notin Headers
  BY <1>1 DEF HeadersOf, Chan
<1>3. PICK m \in Nat, f \in 0..1 : Chan(x) = Stream(x, Read(x), m, f)
  BY <1>1, <1>2 DEF FlowOf
<1>4. Ended(Stream(x, Read(x), m, f)) <=> f = 1
  BY <1>1, StreamEnd
<1>5. OnWire(Chan(x)) = Run(x, Read(x), m)
  BY <1>1, <1>3, StreamOnWire
<1>6. IsRun(Run(x, Read(x), m), x, Read(x), m)
  BY <1>1, RunCells
<1>7. Len(OnWire(Chan(x))) = m
  BY <1>5, <1>6 DEF IsRun
<1> QED
  BY <1>3, <1>4, <1>5, <1>7

\* Sending and receiving on a connected data connection puts no header on it.
LEMMA ConnectedHeaders ==
    ASSUME TypeOK, FlowInv, NEW x \in Dir, place[x[2]] \in {"worker", "closed"},
           UNCHANGED <<cl, place, remote>>, \A y \in Dir \ {x} : Chan(y)' = Chan(y),
           Chan(x)' \notin Headers, Ended(Chan(x)') => Ended(Chan(x)) \/ cl[x[2]] = "freed"
    PROVE  \A c \in Conns : HeadersOf(c)'
<1> SUFFICES ASSUME NEW c \in Conns PROVE HeadersOf(c)'
  OBVIOUS
<1>1. HeadersOf(c)
  BY DEF FlowInv
<1>2. PICK a \in Dir, r \in Dir : a = <<"app", c>> /\ r = <<"remote", c>>
  BY DirFacts
<1>3. Chan(a) = up[c] /\ Chan(r) = dn[c] /\ Chan(a)' = up'[c] /\ Chan(r)' = dn'[c]
  BY <1>2 DEF Chan
<1>4. CASE c # x[2]
  <2>1. a # x /\ r # x
    BY <1>2, <1>4
  <2>2. up'[c] = up[c] /\ dn'[c] = dn[c]
    BY <1>3, <2>1
  <2> QED
    BY <1>1, <2>2 DEF HeadersOf
<1>5. CASE c = x[2]
  <2>1. x = a \/ x = r
    BY <1>2, <1>5, DirFacts
  <2>2. up[c] \notin Headers /\ dn[c] \notin Headers
    BY <1>1, <1>5 DEF HeadersOf
  <2>3. CASE x = a
    <3>1. up'[c] \notin Headers /\ dn'[c] = dn[c] /\ (Ended(up'[c]) => cl[c] = "freed")
      <4>1. r # x
        BY <1>2, <2>3
      <4> QED
        BY <1>1, <1>3, <1>5, <2>3, <4>1 DEF HeadersOf
    <3> QED
      BY <1>1, <1>5, <2>2, <3>1 DEF HeadersOf
  <2>4. CASE x = r
    <3>1. dn'[c] \notin Headers /\ up'[c] = up[c]
      <4>1. a # x
        BY <1>2, <2>4
      <4> QED
        BY <1>3, <2>4, <4>1
    <3> QED
      BY <1>1, <1>5, <2>2, <3>1 DEF HeadersOf
  <2> QED
    BY <2>1, <2>3, <2>4
<1> QED
  BY <1>4, <1>5

\* A chunk is sent.
LEMMA SendStep ==
    ASSUME TypeOK, FlowInv, NEW x \in Dir, UNCHANGED <<cl, place, remote, got>>,
           \A y \in Dir \ {x} : SameFlow(y),
           place[x[2]] = "worker", ~Broken(x[2]), ~Ended(Chan(x)),
           sent' = [sent EXCEPT ![x] = @ + 1],
           Read(x)' = Read(x), Write(x)' = Write(x) + 1,
           Chan(x)' = Append(Chan(x), Cipher(x[1], x[2], sent[x] + 1, Write(x)))
    PROVE  FlowInv' /\ Ss5Relay!Next
<1>1. /\ FlowOf(x) /\ Complete(x) /\ Read(x) \in Nat /\ sent[x] \in Nat /\ x[2] \in Conns
      /\ x \in End \X Conns
  BY FlowFacts, DirFacts DEF Dir
<1>2. PICK g \in Nat : g = Read(x)
  BY <1>1
<1>3. PICK m \in Nat : /\ Chan(x) = Stream(x, g, m, 0)
                       /\ OnWire(Chan(x)) = Run(x, g, m) /\ Len(OnWire(Chan(x))) = m
  BY <1>2, ConnectedFlow
<1>4. g + m = sent[x] /\ Write(x) = sent[x] /\ Len(got[Far(x)]) = g
  BY <1>1, <1>2, <1>3 DEF Complete, FlowOf
<1>5. Chan(x)' = Stream(x, g, m + 1, 0)
  <2>1. Cipher(x[1], x[2], sent[x] + 1, Write(x)) = Cipher(x[1], x[2], g + m + 1, g + m)
    BY <1>4
  <2> QED
    BY <1>3, <2>1, StreamAppend
<1>6. m + 1 \in Nat /\ 0 \in 0..1
  OBVIOUS
<1>7. OnWire(Chan(x)') = Run(x, g, m + 1) /\ Chan(x)' \notin Headers /\ ~Ended(Chan(x)')
  <2>1. OnWire(Stream(x, g, m + 1, 0)) = Run(x, g, m + 1)
    BY <1>6, StreamOnWire
  <2>2. Stream(x, g, m + 1, 0) \notin Headers
    BY <1>6, StreamEnd
  <2>3. Ended(Stream(x, g, m + 1, 0)) <=> 0 = 1
    BY <1>6, StreamEnd
  <2>4. PICK s : s = Stream(x, g, m + 1, 0)
    OBVIOUS
  <2>5. Chan(x)' = s /\ OnWire(s) = Run(x, g, m + 1) /\ s \notin Headers /\ ~Ended(s)
    BY <1>5, <2>1, <2>2, <2>3, <2>4
  <2> QED
    BY <2>5
<1>8. sent'[x] = sent[x] + 1
  BY <1>1 DEF TypeOK
<1>9. FlowOf(x)'
  <2>1. Write(x)' = sent'[x] /\ Read(x)' = Len(got'[Far(x)]) /\ Read(x)' = g
    BY <1>2, <1>4, <1>8
  <2> QED
    BY <1>5, <1>6, <2>1 DEF FlowOf
<1>10. Complete(x)'
  <2>1. Len(OnWire(Chan(x)')) = m + 1
    <3>1. IsRun(Run(x, g, m + 1), x, g, m + 1)
      BY <1>6, RunCells
    <3> QED
      BY <1>7, <3>1 DEF IsRun
  <2>2. Read(x)' + Len(OnWire(Chan(x)')) = sent'[x]
    BY <1>2, <1>4, <1>8, <2>1
  <2> QED
    BY <2>2 DEF Complete
<1>11. \A c \in Conns : HeadersOf(c)'
  BY <1>7, ConnectedHeaders DEF SameFlow
<1>12. /\ FlowInv' /\ relayPhase' = relayPhase
       /\ \A y \in Dir \ {x} : relayWire'[y] = relayWire[y] /\ relayGot'[y] = relayGot[y]
  BY <1>9, <1>10, <1>11, OneFlow
<1>13. relayGot' = relayGot
  BY RelayView
<1>14. relayPhase[x[2]] # "idle"
  BY <1>1, RelayView DEF Phase
<1>15. relayWire[x] = Run(x, g, m) /\ relayWire'[x] = Run(x, g, m + 1)
  <2>1. ~Lost(x) /\ ~Lost(x)'
    BY DEF Lost, Broken
  <2>2. InFlight(x) = Run(x, g, m) /\ InFlight(x)' = Run(x, g, m + 1)
    BY <1>3, <1>7, <2>1 DEF InFlight
  <2> QED
    BY <2>2, RelayView
<1>16. Run(x, g, m + 1) = Append(Run(x, g, m), Ss5Relay!Chunk(x, sent[x] + 1))
  <2>1. g + m + 1 = sent[x] + 1
    BY <1>4
  <2> QED
    BY <2>1, RunAppend
<1>17. relayWire' = [relayWire EXCEPT ![x] = Append(@, Ss5Relay!Chunk(x, sent[x] + 1))]
  BY <1>12, <1>15, <1>16, RelayView
<1>18. Len(relayGot[x]) + Len(relayWire[x]) = sent[x]
  <2>1. Len(relayGot[x]) = g
    BY <1>4, FlowFacts, ReceivedFacts, RelayView
  <2>2. Len(relayWire[x]) = m
    BY <1>3, <1>15
  <2> QED
    BY <1>4, <2>1, <2>2
<1>19. Ss5Relay!Send(x)
  BY <1>12, <1>13, <1>14, <1>17, <1>18 DEF Ss5Relay!Send
<1> QED
  BY <1>12, <1>19, RelayView DEF Ss5Relay!Next

\* A chunk is written to nobody.
LEMMA LoseStep ==
    ASSUME TypeOK, FlowInv, NEW x \in Dir, UNCHANGED <<up, dn, cl, place, remote, got>>,
           \A y \in Dir \ {x} : SameFlow(y), Broken(x[2]),
           sent' = [sent EXCEPT ![x] = @ + 1],
           Read(x)' = Read(x), Write(x)' = Write(x) + 1
    PROVE  FlowInv' /\ Ss5Relay!Next
<1>1. /\ FlowOf(x) /\ Complete(x) /\ Read(x) \in Nat /\ sent[x] \in Nat /\ x[2] \in Conns
      /\ x \in End \X Conns
  BY FlowFacts, DirFacts DEF Dir
<1>2. sent'[x] = sent[x] + 1 /\ Chan(x)' = Chan(x)
  BY <1>1 DEF TypeOK, Chan
<1>3. FlowOf(x)'
  BY <1>1, <1>2 DEF FlowOf
<1>4. Complete(x)'
  BY DEF Complete, Broken
<1>5. \A c \in Conns : HeadersOf(c)'
  BY DEF FlowInv, HeadersOf
<1>6. /\ FlowInv' /\ relayPhase' = relayPhase
      /\ \A y \in Dir \ {x} : relayWire'[y] = relayWire[y] /\ relayGot'[y] = relayGot[y]
  BY <1>3, <1>4, <1>5, OneFlow
<1>7. InFlight(x)' = InFlight(x)
  BY <1>2 DEF InFlight, Lost
<1>8. relayWire' = relayWire /\ relayGot' = relayGot
  BY <1>6, <1>7, RelayView
<1>9. relayPhase[x[2]] = "broken"
  BY <1>1, RelayView DEF Phase
<1>10. Ss5Relay!SendLost(x)
  BY <1>6, <1>8, <1>9 DEF Ss5Relay!SendLost
<1> QED
  BY <1>6, <1>10, RelayView DEF Ss5Relay!Next

\* A chunk is received.
LEMMA DeliverStep ==
    ASSUME TypeOK, FlowInv, NEW x \in Dir, UNCHANGED <<cl, place, remote, sent>>,
           \A y \in Dir \ {x} : SameFlow(y),
           place[x[2]] \in {"worker", "closed"}, ~Lost(x), Chan(x) # <<>>, Head(Chan(x)) # Fin,
           Read(x)' = Read(x) + 1, Write(x)' = Write(x), Chan(x)' = Tail(Chan(x)),
           got' = [got EXCEPT ![Far(x)] = Append(@, Decrypt(Head(Chan(x)), Read(x)))]
    PROVE  FlowInv' /\ Ss5Relay!Next
<1>1. /\ FlowOf(x) /\ Complete(x) /\ Read(x) \in Nat /\ sent[x] \in Nat /\ x[2] \in Conns
      /\ Far(x) \in End \X Conns /\ got[Far(x)] \in Seq(Chunks) /\ Chan(x) \in Seq(Items)
  BY FlowFacts, DirFacts DEF Dir
<1>2. PICK g \in Nat : g = Read(x)
  BY <1>1
<1>3. PICK m \in Nat, f \in 0..1 :
          /\ Chan(x) = Stream(x, g, m, f) /\ (Ended(Chan(x)) <=> f = 1)
          /\ OnWire(Chan(x)) = Run(x, g, m) /\ Len(OnWire(Chan(x))) = m
  BY <1>2, ConnectedFlow
<1>4. m # 0
  BY <1>3, StreamTail
<1>5. /\ m - 1 \in Nat /\ g + 1 \in Nat /\ Head(Chan(x)) = Cipher(x[1], x[2], g + 1, g)
      /\ Chan(x)' = Stream(x, g + 1, m - 1, f)
  <2>1. m - 1 \in Nat /\ g + 1 \in Nat
    BY <1>4
  <2>2. Head(Stream(x, g, m, f)) = Cipher(x[1], x[2], g + 1, g)
    BY <1>4, StreamTail
  <2>3. Tail(Stream(x, g, m, f)) = Stream(x, g + 1, m - 1, f)
    <3>1. m \in Nat \ {0}
      BY <1>4
    <3> QED
      BY <3>1, StreamRest
  <2> QED
    BY <1>3, <2>1, <2>2, <2>3
<1>6. OnWire(Chan(x)') = Run(x, g + 1, m - 1) /\ Chan(x)' \notin Headers /\ (Ended(Chan(x)') <=> f = 1)
  <2>1. OnWire(Stream(x, g + 1, m - 1, f)) = Run(x, g + 1, m - 1)
    BY <1>5, StreamOnWire
  <2>2. Stream(x, g + 1, m - 1, f) \notin Headers /\ (Ended(Stream(x, g + 1, m - 1, f)) <=> f = 1)
    BY <1>5, StreamEnd
  <2> QED
    BY <1>5, <2>1, <2>2
<1>7. PICK z \in Chunks : z = Decrypt(Head(Chan(x)), Read(x))
  <2>1. Head(Chan(x)) \in Items
    BY <1>1, HeadTailProperties
  <2> QED
    BY <2>1, DecryptType
<1>8. OfConn(z) = Ss5Relay!Chunk(x, g + 1)
  <2>1. z = Plain(x[1], x[2], g + 1)
    BY <1>2, <1>5, <1>7, ItemKinds DEF Decrypt
  <2>2. x = <<x[1], x[2]>>
    BY DirFacts
  <2>3. z.tag # "garbage" /\ z.from = x[1] /\ z.conn = x[2] /\ z.n = g + 1
    BY <2>1 DEF Plain
  <2> QED
    BY <2>2, <2>3 DEF OfConn, Ss5Relay!Chunk
<1>9. got'[Far(x)] = Append(got[Far(x)], z)
  BY <1>1, <1>7 DEF TypeOK
<1>10. Len(got'[Far(x)]) = g + 1
  <2>1. Len(got[Far(x)]) = g
    BY <1>1, <1>2 DEF FlowOf
  <2> QED
    BY <1>1, <1>9, <2>1, AppendProperties
<1>11. FlowOf(x)'
  <2>1. Write(x)' = sent'[x] /\ Read(x)' = g + 1
    BY <1>1, <1>2 DEF FlowOf
  <2> QED
    BY <1>5, <1>10, <2>1 DEF FlowOf
<1>12. Complete(x)'
  <2>1. Len(OnWire(Chan(x)')) = m - 1
    <3>1. IsRun(Run(x, g + 1, m - 1), x, g + 1, m - 1)
      BY <1>5, RunCells
    <3> QED
      BY <1>6, <3>1 DEF IsRun
  <2>2. ~Broken(x[2]) => Read(x)' + Len(OnWire(Chan(x)')) = sent[x]
    BY <1>1, <1>2, <1>3, <2>1 DEF Complete
  <2> QED
    BY <2>2 DEF Complete, Broken
<1>13. \A c \in Conns : HeadersOf(c)'
  BY <1>3, <1>6, ConnectedHeaders DEF SameFlow
<1>14. /\ FlowInv' /\ relayPhase' = relayPhase
       /\ \A y \in Dir \ {x} : relayWire'[y] = relayWire[y] /\ relayGot'[y] = relayGot[y]
  BY <1>11, <1>12, <1>13, OneFlow
<1>15. relayPhase[x[2]] # "idle"
  BY <1>1, RelayView DEF Phase, Broken
<1>16. relayWire[x] = Run(x, g, m) /\ relayWire'[x] = Run(x, g + 1, m - 1)
  <2>1. ~Lost(x)'
    BY DEF Lost
  <2>2. InFlight(x) = Run(x, g, m) /\ InFlight(x)' = Run(x, g + 1, m - 1)
    BY <1>3, <1>6, <2>1 DEF InFlight
  <2> QED
    BY <2>2, RelayView
<1>17. /\ relayWire[x] # <<>> /\ Head(relayWire[x]) = OfConn(z)
       /\ relayWire'[x] = Tail(relayWire[x])
  <2>1. m \in Nat \ {0}
    BY <1>4
  <2>2. Run(x, g, m) # <<>>
    BY <2>1, RunTail
  <2>3. Head(Run(x, g, m)) = Ss5Relay!Chunk(x, g + 1)
    BY <2>1, RunTail
  <2>4. Tail(Run(x, g, m)) = Run(x, g + 1, m - 1)
    BY <2>1, RunTail
  <2> QED
    BY <1>8, <1>16, <2>2, <2>3, <2>4
<1>18. relayGot'[x] = Append(relayGot[x], Head(relayWire[x]))
  <2>1. Received(got'[Far(x)]) = Append(Received(got[Far(x)]), OfConn(z))
    BY <1>1, <1>9, ReceivedFacts
  <2> QED
    BY <1>17, <2>1, RelayView
<1>19. /\ relayWire' = [relayWire EXCEPT ![x] = Tail(@)]
       /\ relayGot' = [relayGot EXCEPT ![x] = Append(@, Head(relayWire[x]))]
  <2>1. relayWire' = [relayWire EXCEPT ![x] = Tail(@)]
    BY <1>14, <1>17, RelayView
  <2>2. relayGot' = [relayGot EXCEPT ![x] = Append(@, Head(relayWire[x]))]
    BY <1>14, <1>18, RelayView
  <2> QED
    BY <2>1, <2>2
<1>20. Ss5Relay!Deliver(x)
  BY <1>14, <1>15, <1>17, <1>19 DEF Ss5Relay!Deliver
<1> QED
  BY <1>14, <1>20, RelayView DEF Ss5Relay!Next

-----------------------------------------------------------------------------
(* Connections that a step moves on or closes.                             *)

\* What a step that sends and receives nothing does to connection c.
QuietOf(c) ==
    /\ KeepsFlow(<<"app", c>>) \/ (CutsFlow(<<"app", c>>) /\ Broken(c)')
    /\ KeepsFlow(<<"remote", c>>) \/ (CutsFlow(<<"remote", c>>) /\ Broken(c)')
    /\ cl[c] = "freed" => cl'[c] = "freed"
    /\ place[c] = "closed" => place'[c] = "closed"
    /\ (place'[c] = "worker" <=> place[c] = "worker") \/ Broken(c)'
    /\ HeadersOf(c)'

\* A step that does so to every connection is one of Relay.
LEMMA QuietConns ==
    ASSUME TypeOK, FlowInv, UNCHANGED <<pos, sent, got>>, \A c \in Conns : QuietOf(c)
    PROVE  FlowInv' /\ Ss5Relay!Next
<1>1. ASSUME NEW x \in Dir
      PROVE  (KeepsFlow(x) \/ (CutsFlow(x) /\ Broken(x[2])')) /\ (Lost(x) => Lost(x)')
  <2>1. PICK c \in Conns : c = x[2]
    BY DirFacts
  <2>2. QuietOf(c)
    BY <2>1
  <2>3. CASE x = <<"app", c>>
    BY <2>2, <2>3 DEF QuietOf, Lost
  <2>4. CASE x = <<"remote", c>>
    BY <2>2, <2>4 DEF QuietOf, Lost
  <2> QED
    BY <2>1, <2>3, <2>4, DirFacts
<1>2. /\ \A c \in Conns : Broken(c) => Broken(c)'
      /\ \A c \in Conns : Broken(c)' \/ (place'[c] = "worker" <=> place[c] = "worker")
      /\ \A c \in Conns : HeadersOf(c)'
  BY DEF QuietOf, Broken
<1> QED
  BY <1>1, <1>2, QuietStep

\* The channels of a connection.
LEMMA ChanOf ==
    ASSUME NEW c \in Conns
    PROVE  /\ Chan(<<"app", c>>) = up[c] /\ Chan(<<"remote", c>>) = dn[c]
           /\ Chan(<<"app", c>>)' = up'[c] /\ Chan(<<"remote", c>>)' = dn'[c]
  BY DEF Chan

\* A connection left where it is.
LEMMA SameConn ==
    ASSUME FlowInv, NEW c \in Conns, up'[c] = up[c], dn'[c] = dn[c], place'[c] = place[c],
           cl[c] = "freed" => cl'[c] = "freed",
           remote'[c] = remote[c] \/ place[c] # "leaked"
    PROVE  QuietOf(c)
<1>1. HeadersOf(c)
  BY DEF FlowInv
<1>2. HeadersOf(c)'
  BY <1>1 DEF HeadersOf
<1>3. KeepsFlow(<<"app", c>>) /\ KeepsFlow(<<"remote", c>>)
  BY ChanOf DEF KeepsFlow
<1> QED
  BY <1>2, <1>3 DEF QuietOf

\* A connection that moves on at the server.
LEMMA MovedConn ==
    ASSUME FlowInv, NEW c \in Conns, up'[c] = up[c], dn'[c] = dn[c], cl'[c] = cl[c],
           place[c] \in {"queued", "connecting", "lookup"},
           place'[c] \in {"queued", "connecting", "lookup", "leaked"}, remote'[c] = "none"
    PROVE  QuietOf(c)
<1>1. HeadersOf(c)
  BY DEF FlowInv
<1>2. HeadersOf(c)'
  BY <1>1 DEF HeadersOf
<1>3. KeepsFlow(<<"app", c>>) /\ KeepsFlow(<<"remote", c>>)
  BY ChanOf DEF KeepsFlow
<1> QED
  BY <1>2, <1>3 DEF QuietOf

\* A direction whose sender or reader closes.
LEMMA CutConn ==
    ASSUME TypeOK, FlowInv, UNCHANGED <<pos, sent, got>>, NEW c \in Conns, Broken(c)',
           cl[c] = "freed" => cl'[c] = "freed", place[c] = "closed" => place'[c] = "closed",
           up'[c] = up[c] \/ CutsFlow(<<"app", c>>),
           dn'[c] = dn[c] \/ CutsFlow(<<"remote", c>>),
           Ended(up'[c]) => cl'[c] = "freed",
           up[c] \in Headers => place'[c] = "main",
           dn[c] \in Headers => place'[c] = "refused",
           place'[c] = "none" => up'[c] = <<>>,
           place'[c] \in {"none", "main"} => dn'[c] = <<>>,
           place'[c] = "leaked" => remote'[c] = "none"
    PROVE  QuietOf(c)
<1>1. HeadersOf(c) /\ <<"app", c>> \in Dir /\ <<"remote", c>> \in Dir
  BY DirFacts DEF FlowInv
<1>2. <<Req, Fin>> # <<ErrHead>>
  <2>1. Len(<<Req, Fin>>) = 2 /\ Len(<<ErrHead>>) = 1
    OBVIOUS
  <2> QED
    BY <2>1
<1>3. up'[c] \in Headers => up[c] \in Headers /\ up'[c] # <<ErrHead>>
  <2>1. CASE up'[c] = up[c]
    BY <1>1, <2>1 DEF HeadersOf
  <2>2. CASE CutsFlow(<<"app", c>>)
    BY <1>1, <1>2, <2>2, ChanCuts, ChanOf
  <2> QED
    BY <2>1, <2>2
<1>4. dn'[c] \in Headers => dn[c] \in Headers
  <2>1. CASE CutsFlow(<<"remote", c>>)
    BY <1>1, <2>1, ChanCuts, ChanOf
  <2> QED
    BY <2>1
<1>5. HeadersOf(c)'
  BY <1>3, <1>4 DEF HeadersOf
<1>6. /\ KeepsFlow(<<"app", c>>) \/ CutsFlow(<<"app", c>>)
      /\ KeepsFlow(<<"remote", c>>) \/ CutsFlow(<<"remote", c>>)
  BY ChanOf DEF KeepsFlow
<1> QED
  BY <1>5, <1>6 DEF QuietOf

\* The client frees trans.
LEMMA ScFreeFlow ==
    ASSUME TypeOK, ClientInv, FlowInv, NEW S \in SUBSET Conns, ScFree(S),
           UNCHANGED <<pos, sent, got, place, remote>>
    PROVE  FlowInv' /\ Ss5Relay!Next
<1> DEFINE open == {c \in S : "srv" \in slot[c]}
<1>1. PICK k \in Kept(up, open) :
          /\ cl' = [c \in Conns |-> IF c \in S THEN "freed" ELSE cl[c]]
          /\ up' = Cut(up, open, k)
          /\ dn' = Drop(dn, open)
  BY DEF ScFree
<1>2. ASSUME NEW c \in Conns PROVE QuietOf(c)
  <2>1. cl'[c] = (IF c \in S THEN "freed" ELSE cl[c]) /\ HeadersOf(c)
    BY <1>1 DEF FlowInv
  <2>2. CASE c \in open
    <3>1. cl'[c] = "freed" /\ "srv" \in slot[c]
      BY <2>1, <2>2
    <3>2. cl[c] = "listed" /\ place[c] # "none"
      BY <3>1 DEF ClientInv, SlotsOf
    <3>3. up'[c] = Append(SubSeq(up[c], 1, k[c]), Fin) /\ dn'[c] = <<>>
      BY <1>1, <2>2 DEF Cut, Drop
    <3>4. /\ k[c] \in 0..(MaxData + 2) /\ k[c] <= Len(up[c])
          /\ up[c] # <<>> /\ Head(up[c]) \in {Req, ErrHead} => k[c] >= 1
      BY <1>1, <2>2 DEF Kept
    <3>5. ~Ended(up[c]) /\ (up[c] \in Headers => place[c] = "main" /\ up[c] = <<Req>>)
      <4>1. ~Ended(up[c]) /\ (up[c] \in Headers => place[c] = "main" /\ up[c] # <<ErrHead>>)
        BY <2>1, <3>2 DEF HeadersOf
      <4>2. Ended(<<Req, Fin>>)
        <5>1. <<Req, Fin>> # <<>> /\ Len(<<Req, Fin>>) = 2 /\ <<Req, Fin>>[2] = Fin
          OBVIOUS
        <5> QED
          BY <5>1 DEF Ended
      <4> QED
        BY <4>1, <4>2 DEF Headers
    <3>6. CutsFlow(<<"app", c>>)
      <4>1. k[c] \in 0..Len(up[c])
        <5>1. Len(up[c]) \in Nat
          BY DEF TypeOK
        <5> QED
          BY <3>4, <5>1, BoundsAssumption
      <4>2. up[c] = <<Req>> => k[c] # 0
        <5>1. <<Req>> # <<>> /\ Head(<<Req>>) = Req
          OBVIOUS
        <5> QED
          BY <3>4, <4>1, <5>1
      <4> QED
        BY <3>3, <3>5, <4>1, <4>2, ChanOf DEF CutsFlow
    <3>7. CutsFlow(<<"remote", c>>)
      BY <3>3, ChanOf DEF CutsFlow
    <3>8. Broken(c)'
      BY <3>1 DEF Broken
    <3> HIDE DEF open
    <3> QED
      BY <2>1, <3>1, <3>2, <3>3, <3>5, <3>6, <3>7, <3>8, CutConn DEF HeadersOf
  <2>3. CASE c \notin open
    <3>1. up'[c] = up[c] /\ dn'[c] = dn[c]
      BY <1>1, <2>3 DEF Cut, Drop
    <3> QED
      BY <2>1, <3>1, SameConn
  <2> QED
    BY <2>2, <2>3
<1> HIDE DEF open
<1> QED
  BY <1>2, QuietConns

\* The server frees trans.
LEMMA SsFreeFlow ==
    ASSUME TypeOK, ServerInv, FlowInv, NEW S \in SUBSET Conns, SsFree(S),
           UNCHANGED <<pos, sent, got, cl>>
    PROVE  FlowInv' /\ Ss5Relay!Next
<1> DEFINE open == {c \in S : place[c] = "worker"}
           told == {c \in open : cl[c] # "freed"}
<1>1. PICK k \in Kept(dn, open) :
          /\ place' = [c \in Conns |-> IF c \in open THEN "closed" ELSE place[c]]
          /\ remote' = [c \in Conns |-> IF c \in open THEN "closed" ELSE remote[c]]
          /\ dn' = Cut(dn, told, k)
          /\ up' = Drop(up, open)
  BY DEF SsFree
<1>2. ASSUME NEW c \in Conns PROVE QuietOf(c)
  <2>1. HeadersOf(c)
    BY DEF FlowInv
  <2>2. CASE c \in open
    <3>1. place[c] = "worker" /\ place'[c] = "closed" /\ up'[c] = <<>>
      BY <1>1, <2>2 DEF Drop
    <3>2. Broken(c)'
      BY <3>1 DEF Broken
    <3>3. up[c] \notin Headers /\ dn[c] \notin Headers
      BY <2>1, <3>1 DEF HeadersOf
    <3>4. CutsFlow(<<"app", c>>) /\ ~Ended(up'[c])
      BY <3>1, ChanOf, HeaderOnWire DEF CutsFlow
    <3>5. dn'[c] = dn[c] \/ CutsFlow(<<"remote", c>>)
      <4>1. CASE c \notin told
        BY <1>1, <4>1 DEF Cut
      <4>2. CASE c \in told
        <5>1. dn'[c] = Append(SubSeq(dn[c], 1, k[c]), Fin)
          BY <1>1, <4>2 DEF Cut
        <5>2. k[c] \in 0..(MaxData + 2) /\ k[c] <= Len(dn[c])
          BY <1>1, <2>2 DEF Kept
        <5>3. k[c] \in 0..Len(dn[c])
          <6>1. Len(dn[c]) \in Nat
            BY DEF TypeOK
          <6> QED
            BY <5>2, <6>1, BoundsAssumption
        <5>4. ~Ended(dn[c])
          BY <3>1 DEF ServerInv, EndedOf
        <5>5. dn[c] # <<Req>>
          BY <3>3 DEF Headers
        <5> QED
          BY <3>3, <5>1, <5>3, <5>4, <5>5, ChanOf DEF CutsFlow
      <4> QED
        BY <4>1, <4>2
    <3> HIDE DEF open, told
    <3> QED
      BY <3>1, <3>2, <3>3, <3>4, <3>5, CutConn
  <2>3. CASE c \notin open
    <3>1. /\ up'[c] = up[c] /\ dn'[c] = dn[c] /\ place'[c] = place[c]
          /\ remote'[c] = remote[c]
      BY <1>1, <2>3 DEF Cut, Drop
    <3> QED
      BY <3>1, SameConn
  <2> QED
    BY <2>2, <2>3
<1> HIDE DEF open, told
<1> QED
  BY <1>2, QuietConns

-----------------------------------------------------------------------------
(* Relaying.                                                               *)

\* One context of one connection moves on.
LEMMA PosMoves ==
    ASSUME TypeOK, NEW c \in Conns
    PROVE  /\ pos' = [pos EXCEPT ![c].cltEnc = @ + 1] =>
                 /\ pos'[c].cltEnc = pos[c].cltEnc + 1 /\ pos'[c].srvDec = pos[c].srvDec
                 /\ pos'[c].srvEnc = pos[c].srvEnc /\ pos'[c].cltDec = pos[c].cltDec
                 /\ \A b \in Conns : b # c => pos'[b] = pos[b]
           /\ pos' = [pos EXCEPT ![c].srvDec = @ + 1] =>
                 /\ pos'[c].cltEnc = pos[c].cltEnc /\ pos'[c].srvDec = pos[c].srvDec + 1
                 /\ pos'[c].srvEnc = pos[c].srvEnc /\ pos'[c].cltDec = pos[c].cltDec
                 /\ \A b \in Conns : b # c => pos'[b] = pos[b]
           /\ pos' = [pos EXCEPT ![c].srvEnc = @ + 1] =>
                 /\ pos'[c].cltEnc = pos[c].cltEnc /\ pos'[c].srvDec = pos[c].srvDec
                 /\ pos'[c].srvEnc = pos[c].srvEnc + 1 /\ pos'[c].cltDec = pos[c].cltDec
                 /\ \A b \in Conns : b # c => pos'[b] = pos[b]
           /\ pos' = [pos EXCEPT ![c].cltDec = @ + 1] =>
                 /\ pos'[c].cltEnc = pos[c].cltEnc /\ pos'[c].srvDec = pos[c].srvDec
                 /\ pos'[c].srvEnc = pos[c].srvEnc /\ pos'[c].cltDec = pos[c].cltDec + 1
                 /\ \A b \in Conns : b # c => pos'[b] = pos[b]
<1>1. pos \in [Conns -> Contexts]
  BY DEF TypeOK
<1> QED
  BY <1>1 DEF Contexts

\* All directions but x stay as they are.
LEMMA OtherFlows ==
    ASSUME NEW c \in Conns, NEW x \in {<<"app", c>>, <<"remote", c>>},
           \A b \in Conns : b # c => pos'[b] = pos[b] /\ up'[b] = up[b] /\ dn'[b] = dn[b],
           \A y \in Dir : y # x => sent'[y] = sent[y] /\ got'[Far(y)] = got[Far(y)],
           x = <<"app", c>> => /\ dn'[c] = dn[c] /\ pos'[c].srvEnc = pos[c].srvEnc
                               /\ pos'[c].cltDec = pos[c].cltDec,
           x = <<"remote", c>> => /\ up'[c] = up[c] /\ pos'[c].cltEnc = pos[c].cltEnc
                                  /\ pos'[c].srvDec = pos[c].srvDec
    PROVE  \A y \in Dir \ {x} : SameFlow(y)
<1> SUFFICES ASSUME NEW y \in Dir, y # x PROVE SameFlow(y)
  OBVIOUS
<1>1. y[2] \in Conns /\ (y = <<"app", y[2]>> \/ y = <<"remote", y[2]>>)
  BY DirFacts
<1>2. CASE y[2] # c
  BY <1>1, <1>2 DEF SameFlow, Chan, Read, Write
<1>3. CASE y = <<"remote", c>> /\ x = <<"app", c>>
  BY <1>3 DEF SameFlow, Chan, Read, Write
<1>4. CASE y = <<"app", c>> /\ x = <<"remote", c>>
  BY <1>4 DEF SameFlow, Chan, Read, Write
<1> QED
  BY <1>1, <1>2, <1>3, <1>4

\* An application or a remote host sends, and receives.
LEMMA SentOnly ==
    ASSUME TypeOK, NEW x \in Dir, sent' = [sent EXCEPT ![x] = @ + 1], got' = got
    PROVE  \A y \in Dir : y # x => sent'[y] = sent[y] /\ got'[Far(y)] = got[Far(y)]
  BY DEF TypeOK, Dir

\* A step of the reader of x changes what was received in that direction only.
LEMMA GotOnly ==
    ASSUME TypeOK, NEW x \in Dir, NEW z, got' = [got EXCEPT ![Far(x)] = Append(@, z)],
           sent' = sent
    PROVE  \A y \in Dir : y # x => sent'[y] = sent[y] /\ got'[Far(y)] = got[Far(y)]
<1> SUFFICES ASSUME NEW y \in Dir, y # x PROVE got'[Far(y)] = got[Far(y)]
  OBVIOUS
<1>1. Far(y) # Far(x) /\ Far(y) \in Dir
  BY DirFacts
<1> QED
  BY <1>1 DEF TypeOK, Dir

\* Where bufferevents are enabled the connection was made.
LEMMA EnabledConn ==
    ASSUME Inv, ClientInv, FlowInv, NEW c \in Conns, on[c] # {}
    PROVE  place[c] \in {"worker", "closed"} /\ cl[c] = "listed" /\ slot[c] = Both
<1>1. TypeOK /\ NotYet /\ OnConnected /\ HeadersOf(c) /\ SlotsOf(c)
  BY DEF Inv, PortInv, ActInv, FlowInv, ClientInv
<1>2. remote[c] # "none" /\ slot[c] # {}
  BY <1>1 DEF OnConnected, SlotsOf
<1>3. place[c] \notin Early /\ place[c] # "leaked"
  BY <1>1, <1>2 DEF NotYet, HeadersOf
<1> QED
  BY <1>1, <1>2, <1>3 DEF TypeOK, SlotsOf, Early

\* A chunk of the application goes to the server, or nowhere.
LEMMA UpStep ==
    ASSUME Inv, FaultInv, FlowInv, NEW c \in Conns, CltUp(c)
    PROVE  FlowInv' /\ Ss5Relay!Next
<1>1. TypeOK /\ ClientInv /\ HeadersOf(c)
  BY DEF Inv, PortInv, FaultInv, FlowInv
<1>2. place[c] \in {"worker", "closed"} /\ cl[c] = "listed" /\ slot[c] = Both
  <2>1. on[c] # {}
    BY DEF CltUp
  <2> QED
    BY <1>1, <2>1, EnabledConn
<1>3. PICK x \in Dir : x = <<"app", c>>
  BY DirFacts
<1>4. /\ sent' = [sent EXCEPT ![x] = @ + 1] /\ pos' = [pos EXCEPT ![c].cltEnc = @ + 1]
      /\ up' = IF place[c] = "closed" THEN up
               ELSE [up EXCEPT ![c] = Append(@,
                       Cipher("app", c, sent[x] + 1, pos[c].cltEnc))]
      /\ UNCHANGED <<cl, place, remote, dn, got>>
  BY <1>2, <1>3 DEF CltUp, Both, transVars, srvVars
<1>5. /\ pos'[c].cltEnc = pos[c].cltEnc + 1 /\ pos'[c].srvDec = pos[c].srvDec
      /\ pos'[c].srvEnc = pos[c].srvEnc /\ pos'[c].cltDec = pos[c].cltDec
      /\ \A b \in Conns : b # c => pos'[b] = pos[b]
  BY <1>1, <1>4, PosMoves
<1>6. \A b \in Conns : b # c => up'[b] = up[b]
  BY <1>1, <1>4 DEF TypeOK
<1>7. \A y \in Dir : y # x => sent'[y] = sent[y] /\ got'[Far(y)] = got[Far(y)]
  BY <1>1, <1>4, SentOnly
<1>8. \A y \in Dir \ {x} : SameFlow(y)
  BY <1>3, <1>4, <1>5, <1>6, <1>7, OtherFlows
<1>9. Read(x)' = Read(x) /\ Write(x)' = Write(x) + 1 /\ x[1] = "app" /\ x[2] = c
  BY <1>3, <1>5 DEF Read, Write
<1>10. CASE place[c] = "closed"
  <2>1. up' = up /\ Broken(x[2])
    BY <1>4, <1>9, <1>10 DEF Broken
  <2> QED
    BY <1>1, <1>4, <1>8, <1>9, <2>1, LoseStep
<1>11. CASE place[c] = "worker"
  <2>1. ~Broken(x[2]) /\ place[x[2]] = "worker"
    BY <1>2, <1>9, <1>11 DEF Broken
  <2>2. Chan(x) = up[c] /\ Chan(x)' = up'[c] /\ Write(x) = pos[c].cltEnc
    BY <1>3 DEF Chan, Write
  <2>3. ~Ended(Chan(x))
    BY <1>1, <1>2, <2>2 DEF HeadersOf
  <2>4. Chan(x)' = Append(Chan(x), Cipher(x[1], x[2], sent[x] + 1, Write(x)))
    BY <1>1, <1>4, <1>9, <1>11, <2>2 DEF TypeOK
  <2> QED
    BY <1>1, <1>4, <1>8, <1>9, <2>1, <2>3, <2>4, SendStep
<1> QED
  BY <1>2, <1>10, <1>11

\* A chunk of the remote host goes to the client, or nowhere.
LEMMA DownStep ==
    ASSUME Inv, FaultInv, FlowInv, NEW c \in Conns, SrvDown(c)
    PROVE  FlowInv' /\ Ss5Relay!Next
<1>1. TypeOK /\ EndedOf(c)
  BY DEF Inv, PortInv, FaultInv, ServerInv
<1>3. PICK x \in Dir : x = <<"remote", c>>
  BY DirFacts
<1>4. /\ sent' = [sent EXCEPT ![x] = @ + 1] /\ pos' = [pos EXCEPT ![c].srvEnc = @ + 1]
      /\ dn' = IF cl[c] = "freed" THEN dn
               ELSE [dn EXCEPT ![c] = Append(@,
                       Cipher("remote", c, sent[x] + 1, pos[c].srvEnc))]
      /\ UNCHANGED <<cl, place, remote, up, got>> /\ place[c] = "worker"
  BY <1>3 DEF SrvDown, Down, transVars, srvVars
<1>5. /\ pos'[c].cltEnc = pos[c].cltEnc /\ pos'[c].srvDec = pos[c].srvDec
      /\ pos'[c].srvEnc = pos[c].srvEnc + 1 /\ pos'[c].cltDec = pos[c].cltDec
      /\ \A b \in Conns : b # c => pos'[b] = pos[b]
  BY <1>1, <1>4, PosMoves
<1>6. \A b \in Conns : b # c => dn'[b] = dn[b]
  BY <1>1, <1>4 DEF TypeOK
<1>7. \A y \in Dir : y # x => sent'[y] = sent[y] /\ got'[Far(y)] = got[Far(y)]
  BY <1>1, <1>4, SentOnly
<1>8. \A y \in Dir \ {x} : SameFlow(y)
  BY <1>3, <1>4, <1>5, <1>6, <1>7, OtherFlows
<1>9. Read(x)' = Read(x) /\ Write(x)' = Write(x) + 1 /\ x[1] = "remote" /\ x[2] = c
  BY <1>3, <1>5 DEF Read, Write
<1>10. CASE cl[c] = "freed"
  <2>1. dn' = dn /\ Broken(x[2])
    BY <1>4, <1>9, <1>10 DEF Broken
  <2> QED
    BY <1>1, <1>4, <1>8, <1>9, <2>1, LoseStep
<1>11. CASE cl[c] # "freed"
  <2>1. ~Broken(x[2]) /\ place[x[2]] = "worker"
    BY <1>4, <1>9, <1>11 DEF Broken
  <2>2. Chan(x) = dn[c] /\ Chan(x)' = dn'[c] /\ Write(x) = pos[c].srvEnc
    BY <1>3 DEF Chan, Write
  <2>3. ~Ended(Chan(x))
    BY <1>1, <1>4, <2>2 DEF EndedOf
  <2>4. Chan(x)' = Append(Chan(x), Cipher(x[1], x[2], sent[x] + 1, Write(x)))
    BY <1>1, <1>4, <1>9, <1>11, <2>2 DEF TypeOK
  <2> QED
    BY <1>1, <1>4, <1>8, <1>9, <2>1, <2>3, <2>4, SendStep
<1> QED
  BY <1>10, <1>11

\* The server passes a chunk on to the remote host.
LEMMA SrvUpStep ==
    ASSUME Inv, FaultInv, FlowInv, NEW c \in Conns, SrvUp(c)
    PROVE  FlowInv' /\ Ss5Relay!Next
<1>1. TypeOK
  BY DEF Inv, PortInv
<1>3. PICK x \in Dir : x = <<"app", c>> /\ Far(x) = <<"remote", c>>
  BY DirFacts
<1>4. PICK z : z = Decrypt(Head(up[c]), pos[c].srvDec)
  OBVIOUS
<1>5. /\ got' = [got EXCEPT ![Far(x)] = Append(@, z)]
      /\ pos' = [pos EXCEPT ![c].srvDec = @ + 1] /\ up' = [up EXCEPT ![c] = Tail(@)]
      /\ UNCHANGED <<cl, place, remote, dn, sent>> /\ place[c] = "worker"
      /\ up[c] # <<>> /\ Head(up[c]) # Fin
  BY <1>3, <1>4 DEF SrvUp, transVars, srvVars
<1>6. /\ pos'[c].cltEnc = pos[c].cltEnc /\ pos'[c].srvDec = pos[c].srvDec + 1
      /\ pos'[c].srvEnc = pos[c].srvEnc /\ pos'[c].cltDec = pos[c].cltDec
      /\ \A b \in Conns : b # c => pos'[b] = pos[b]
  BY <1>1, <1>5, PosMoves
<1>7. up'[c] = Tail(up[c]) /\ \A b \in Conns : b # c => up'[b] = up[b]
  BY <1>1, <1>5 DEF TypeOK
<1>8. \A y \in Dir : y # x => sent'[y] = sent[y] /\ got'[Far(y)] = got[Far(y)]
  BY <1>1, <1>5, GotOnly
<1>9. \A y \in Dir \ {x} : SameFlow(y)
  BY <1>3, <1>5, <1>6, <1>7, <1>8, OtherFlows
<1>10. /\ Read(x)' = Read(x) + 1 /\ Write(x)' = Write(x) /\ Read(x) = pos[c].srvDec
       /\ Chan(x) = up[c] /\ Chan(x)' = up'[c] /\ x[1] = "app" /\ x[2] = c
  BY <1>3, <1>6 DEF Read, Write, Chan
<1>11. ~Lost(x) /\ place[x[2]] \in {"worker", "closed"}
  BY <1>5, <1>10 DEF Lost
<1>12. got' = [got EXCEPT ![Far(x)] = Append(@, Decrypt(Head(Chan(x)), Read(x)))]
  BY <1>4, <1>5, <1>10
<1>13. Chan(x) # <<>> /\ Head(Chan(x)) # Fin /\ Chan(x)' = Tail(Chan(x))
  BY <1>5, <1>7, <1>10
<1> QED
  BY <1>1, <1>5, <1>9, <1>10, <1>11, <1>12, <1>13, DeliverStep

\* The client passes a chunk on to the application.
LEMMA CltDownStep ==
    ASSUME Inv, FaultInv, FlowInv, NEW c \in Conns, CltDown(c)
    PROVE  FlowInv' /\ Ss5Relay!Next
<1>1. TypeOK /\ ClientInv
  BY DEF Inv, PortInv, FaultInv
<1>2. place[c] \in {"worker", "closed"} /\ cl[c] = "listed" /\ slot[c] = Both
  <2>1. on[c] # {}
    BY DEF CltDown
  <2> QED
    BY <1>1, <2>1, EnabledConn
<1>3. PICK x \in Dir : x = <<"remote", c>> /\ Far(x) = <<"app", c>>
  BY DirFacts
<1>4. PICK z : z = Decrypt(Head(dn[c]), pos[c].cltDec)
  OBVIOUS
<1>5. /\ got' = [got EXCEPT ![Far(x)] = Append(@, z)]
      /\ pos' = [pos EXCEPT ![c].cltDec = @ + 1] /\ dn' = [dn EXCEPT ![c] = Tail(@)]
      /\ UNCHANGED <<cl, place, remote, up, sent>>
      /\ dn[c] # <<>> /\ Head(dn[c]) # Fin
  BY <1>2, <1>3, <1>4 DEF CltDown, Both, transVars, srvVars
<1>6. /\ pos'[c].cltEnc = pos[c].cltEnc /\ pos'[c].srvDec = pos[c].srvDec
      /\ pos'[c].srvEnc = pos[c].srvEnc /\ pos'[c].cltDec = pos[c].cltDec + 1
      /\ \A b \in Conns : b # c => pos'[b] = pos[b]
  BY <1>1, <1>5, PosMoves
<1>7. dn'[c] = Tail(dn[c]) /\ \A b \in Conns : b # c => dn'[b] = dn[b]
  BY <1>1, <1>5 DEF TypeOK
<1>8. \A y \in Dir : y # x => sent'[y] = sent[y] /\ got'[Far(y)] = got[Far(y)]
  BY <1>1, <1>5, GotOnly
<1>9. \A y \in Dir \ {x} : SameFlow(y)
  BY <1>3, <1>5, <1>6, <1>7, <1>8, OtherFlows
<1>10. /\ Read(x)' = Read(x) + 1 /\ Write(x)' = Write(x) /\ Read(x) = pos[c].cltDec
       /\ Chan(x) = dn[c] /\ Chan(x)' = dn'[c] /\ x[1] = "remote" /\ x[2] = c
  BY <1>3, <1>6 DEF Read, Write, Chan
<1>11. ~Lost(x) /\ place[x[2]] \in {"worker", "closed"}
  BY <1>2, <1>10 DEF Lost
<1>12. got' = [got EXCEPT ![Far(x)] = Append(@, Decrypt(Head(Chan(x)), Read(x)))]
  BY <1>4, <1>5, <1>10
<1>13. Chan(x) # <<>> /\ Head(Chan(x)) # Fin /\ Chan(x)' = Tail(Chan(x))
  BY <1>5, <1>7, <1>10
<1> QED
  BY <1>1, <1>5, <1>9, <1>10, <1>11, <1>12, <1>13, DeliverStep

-----------------------------------------------------------------------------
(* Every step.                                                             *)

\* The server's main loop finds a request alone on its data connection, but for
\* the end of file of a client that has gone.
LEMMA ReqAlone ==
    ASSUME TypeOK, FlowInv, NEW c \in Conns, HasReq(c)
    PROVE  /\ up[c] \in {<<Req>>, <<Req, Fin>>} /\ dn[c] = <<>> /\ place[c] = "main"
           /\ up[c] = <<Req, Fin>> => cl[c] = "freed"
<1>1. HeadersOf(c) /\ <<"app", c>> \in Dir
  BY DirFacts DEF FlowInv
<1>2. PICK x \in Dir : x = <<"app", c>> /\ Chan(x) = up[c]
  BY <1>1, ChanOf
<1>3. FlowOf(x) /\ Read(x) \in Nat
  BY FlowFacts
<1>4. up[c] \in Headers
  <2>1. ASSUME NEW m \in Nat, NEW f \in 0..1, up[c] = Stream(x, Read(x), m, f) PROVE FALSE
    <3>1. \A k : Cipher(x[1], x[2], Read(x) + 1, k) # Req
      BY ItemKinds
    <3>2. m = 0 /\ Stream(x, Read(x), m, f) # <<>> => Head(Stream(x, Read(x), m, f)) = Fin
      BY <1>3, StreamTail
    <3>3. m # 0 => Head(Stream(x, Read(x), m, f)) = Cipher(x[1], x[2], Read(x) + 1, Read(x))
      BY <1>3, StreamTail
    <3> QED
      BY <2>1, <3>1, <3>2, <3>3, ItemKinds DEF HasReq
  <2> QED
    BY <1>2, <1>3, <2>1 DEF FlowOf
<1>5. up[c] = <<Req, Fin>> => Ended(up[c])
  <2>1. <<Req, Fin>> # <<>> /\ Len(<<Req, Fin>>) = 2 /\ <<Req, Fin>>[2] = Fin
    OBVIOUS
  <2> QED
    BY <2>1 DEF Ended
<1> QED
  BY <1>1, <1>4, <1>5 DEF HeadersOf, Headers, HasReq

\* The request is taken off its data connection.
LEMMA ReqTaken ==
    ASSUME TypeOK, FlowInv, NEW c \in Conns, HasReq(c), up'[c] = Tail(up[c]),
           place'[c] \in {"queued", "refused"}, cl'[c] = cl[c],
           dn'[c] = dn[c] \/ (place'[c] = "refused" /\ dn'[c] = Append(dn[c], ErrHead))
    PROVE  QuietOf(c)
<1>1. /\ up[c] \in {<<Req>>, <<Req, Fin>>} /\ dn[c] = <<>> /\ place[c] = "main"
      /\ up[c] = <<Req, Fin>> => cl[c] = "freed"
  BY ReqAlone
<1>2. up'[c] = <<>> \/ (up'[c] = <<Fin>> /\ cl'[c] = "freed")
  BY <1>1, ShortTails
<1>3. up'[c] \notin Headers
  <2>1. <<Fin>> # <<>> /\ Head(<<Fin>>) = Fin
    OBVIOUS
  <2>2. <<Fin>> \notin Headers
    BY <2>1, HeaderOnWire, ItemKinds
  <2> QED
    BY <1>2, <2>2, HeaderOnWire
<1>4. dn'[c] = <<>> \/ (place'[c] = "refused" /\ dn'[c] = <<ErrHead>>)
  BY <1>1
<1>5. HeadersOf(c)'
  <2>1. Ended(up'[c]) => cl'[c] = "freed"
    BY <1>2, HeaderOnWire
  <2>2. dn'[c] \in Headers => place'[c] = "refused"
    BY <1>4, HeaderOnWire
  <2> QED
    BY <1>3, <2>1, <2>2 DEF HeadersOf
<1>6. KeepsFlow(<<"app", c>>) /\ KeepsFlow(<<"remote", c>>)
  BY <1>1, <1>4, ChanOf DEF KeepsFlow
<1> QED
  BY <1>1, <1>5, <1>6 DEF QuietOf

\* A step after which every connection is where it was, or was never known.
LEMMA SameConns ==
    ASSUME TypeOK, FlowInv, UNCHANGED <<pos, sent, got, up, dn, place>>,
           \A c \in Conns : cl[c] = "freed" => cl'[c] = "freed",
           \A c \in Conns : remote'[c] = remote[c] \/ place[c] # "leaked"
    PROVE  FlowInv' /\ Ss5Relay!Next
<1>1. \A c \in Conns : QuietOf(c)
  BY SameConn
<1> QED
  BY <1>1, QuietConns

\* A step that concerns one connection.
LEMMA OneConn ==
    ASSUME TypeOK, FlowInv, UNCHANGED <<pos, sent, got, cl>>, NEW c \in Conns, QuietOf(c),
           \A b \in Conns : b # c => /\ up'[b] = up[b] /\ dn'[b] = dn[b]
                                     /\ place'[b] = place[b] /\ remote'[b] = remote[b]
    PROVE  FlowInv' /\ Ss5Relay!Next
<1>1. \A b \in Conns : b # c => QuietOf(b)
  BY SameConn
<1> QED
  BY <1>1, QuietConns

\* The client's worker writes the request.
LEMMA RequestStep ==
    ASSUME Inv, FlowInv, NEW th \in CltThreads, CltRequest(th)
    PROVE  FlowInv' /\ Ss5Relay!Next
<1>1. TypeOK /\ CltQueued
  BY DEF Inv, PortInv, ActInv
<1>2. cqueue[th] # <<>> /\ cqueue[th] \in Seq(Conns)
  BY <1>1 DEF CltRequest, TypeOK
<1>3. PICK h \in Conns : h = Head(cqueue[th]) /\ h \in Range(cqueue[th])
  BY <1>2, TailOf
<1>4. place[h] = "none" /\ HeadersOf(h)
  BY <1>1, <1>3 DEF CltQueued, FlowInv
<1>5. /\ up' = [up EXCEPT ![h] = <<Req>>] /\ place' = [place EXCEPT ![h] = "main"]
      /\ UNCHANGED <<dn, cl, remote, pos, sent, got>>
  BY <1>3 DEF CltRequest, transVars, streamVars
<1>6. /\ up'[h] = <<Req>> /\ place'[h] = "main"
      /\ \A b \in Conns : b # h => up'[b] = up[b] /\ place'[b] = place[b]
  BY <1>1, <1>5 DEF TypeOK
<1>7. up[h] = <<>> /\ dn[h] = <<>>
  BY <1>4 DEF HeadersOf
<1>8. ~Ended(<<Req>>) /\ <<Req>> # <<ErrHead>>
  <2>1. Len(<<Req>>) = 1 /\ <<Req>>[1] = Req /\ <<ErrHead>>[1] = ErrHead
    OBVIOUS
  <2> QED
    BY <2>1, ItemKinds DEF Ended
<1>9. HeadersOf(h)'
  BY <1>5, <1>6, <1>7, <1>8, HeaderOnWire DEF HeadersOf
<1>10. KeepsFlow(<<"app", h>>) /\ KeepsFlow(<<"remote", h>>)
  BY <1>5, <1>6, <1>7, ChanOf DEF KeepsFlow
<1>11. QuietOf(h)
  BY <1>4, <1>6, <1>5, <1>9, <1>10 DEF QuietOf
<1> QED
  BY <1>1, <1>5, <1>6, <1>11, OneConn

\* connect() fails at the server.
LEMMA FailStep ==
    ASSUME Inv, FaultInv, FlowInv, NEW c \in Conns, ConnectFails(c)
    PROVE  FlowInv' /\ Ss5Relay!Next
<1>1. TypeOK /\ EndedOf(c) /\ HeadersOf(c)
  BY DEF Inv, PortInv, FaultInv, ServerInv, FlowInv
<1>2. /\ place[c] = "connecting" /\ place' = [place EXCEPT ![c] = "closed"]
      /\ up' = [up EXCEPT ![c] = <<>>] /\ UNCHANGED <<cl, remote, pos, sent, got>>
      /\ dn' = IF cl[c] = "freed" THEN dn ELSE [dn EXCEPT ![c] = Append(@, Fin)]
  BY DEF ConnectFails, Down, transVars, streamVars
<1>3. /\ up'[c] = <<>> /\ place'[c] = "closed"
      /\ \A b \in Conns : b # c => up'[b] = up[b] /\ place'[b] = place[b] /\ dn'[b] = dn[b]
      /\ dn'[c] = dn[c] \/ dn'[c] = Append(dn[c], Fin)
  BY <1>1, <1>2 DEF TypeOK
<1>4. up[c] \notin Headers /\ dn[c] \notin Headers /\ ~Ended(dn[c]) /\ ~Ended(up'[c])
  BY <1>1, <1>2, <1>3, HeaderOnWire DEF HeadersOf, EndedOf
<1>5. dn'[c] = dn[c] \/ CutsFlow(<<"remote", c>>)
  <2>1. dn[c] \in Seq(Items) /\ Len(dn[c]) \in 0..Len(dn[c])
    BY <1>1 DEF TypeOK
  <2>2. SubSeq(dn[c], 1, Len(dn[c])) = dn[c]
    BY <2>1
  <2>3. dn[c] # <<Req>>
    BY <1>4 DEF Headers
  <2> QED
    BY <1>3, <1>4, <2>1, <2>2, <2>3, ChanOf DEF CutsFlow
<1>6. CutsFlow(<<"app", c>>)
  BY <1>3, ChanOf DEF CutsFlow
<1>7. Broken(c)'
  BY <1>3 DEF Broken
<1>8. QuietOf(c)
  BY <1>1, <1>2, <1>3, <1>4, <1>5, <1>6, <1>7, CutConn
<1> QED
  BY <1>1, <1>2, <1>3, <1>8, OneConn

\* The server has connected.
LEMMA OpensStep ==
    ASSUME Inv, FlowInv, NEW c \in Conns, place[c] \in {"connecting", "lookup"}, Opened(c),
           UNCHANGED <<up, dn, cl, pos, sent, got>>
    PROVE  FlowInv' /\ Ss5Relay!Next
<1>1. TypeOK
  BY DEF Inv, PortInv
<1>2. /\ place' = [place EXCEPT ![c] = "worker"] /\ place'[c] = "worker"
      /\ \A b \in Conns : b # c => place'[b] = place[b] /\ remote'[b] = remote[b]
  BY <1>1 DEF Opened, Open, TypeOK
<1>3. ASSUME NEW b \in Conns PROVE HeadersOf(b)'
  <2>1. HeadersOf(b)
    BY DEF FlowInv
  <2> QED
    BY <1>2, <2>1 DEF HeadersOf
<1> QED
  BY <1>1, <1>2, <1>3, OpenStep

\* Every step keeps what is under way, and is one of Relay.
LEMMA StepFlow ==
    ASSUME Inv, FaultInv, FlowInv, [Next]_vars
    PROVE  FlowInv' /\ Ss5Relay!Next
<1>i. /\ TypeOK /\ MainKnown /\ SrvQueued /\ NotYet /\ CltQueued /\ ClientInv /\ ServerInv
      /\ \A c \in Conns : HeadersOf(c)
  BY DEF Inv, PortInv, ListInv, ActInv, FaultInv, FlowInv
<1> USE <1>i
<1>1. ASSUME UNCHANGED <<streamVars, up, dn, cl, place, remote>>
      PROVE  FlowInv' /\ Ss5Relay!Next
  BY <1>1, SameConns DEF streamVars
<1>2. ASSUME NEW c \in Conns, NEW p,
             Accept(c, p) \/ GreetRefused(c) \/ CltBevs(c) \/ AppCloses(c)
      PROVE  FlowInv' /\ Ss5Relay!Next
  BY <1>1, <1>2 DEF Accept, GreetRefused, CltBevs, AppCloses, transVars, srvVars, streamVars
<1>3. ASSUME NEW c \in Conns, GreetOk(c) PROVE FlowInv' /\ Ss5Relay!Next
  <2>1. cl[c] = "none"
    BY <1>3 DEF GreetOk, MainKnown
  <2>2. UNCHANGED <<pos, sent, got, up, dn, place, remote>> /\ cl' = [cl EXCEPT ![c] = "listed"]
    BY <1>3 DEF GreetOk, srvVars, streamVars
  <2>3. \A b \in Conns : cl[b] = "freed" => cl'[b] = "freed"
    BY <2>1, <2>2 DEF TypeOK
  <2> QED
    BY <2>2, <2>3, SameConns
<1>4. CASE ActLocal \/ ActSrv \/ ActReply
  BY <1>1, <1>4 DEF ActLocal, ActSrv, ActReply, transVars, srvVars, streamVars
<1>5. CASE Leave
  <2>1. ScListed \in SUBSET Conns /\ ScFree(ScListed) /\ UNCHANGED <<pos, sent, got, place, remote>>
    BY <1>5 DEF Leave, ScListed, srvVars, streamVars
  <2> QED
    BY <2>1, ScFreeFlow
<1>6. ASSUME NEW th \in CltThreads, CltTakeStale(th) PROVE FlowInv' /\ Ss5Relay!Next
  BY <1>1, <1>6 DEF CltTakeStale, transVars, srvVars
<1>7. ASSUME NEW th \in CltThreads, CltGiveUp(th) PROVE FlowInv' /\ Ss5Relay!Next
  <2>1. Head(cqueue[th]) \in Conns
    BY <1>7 DEF CltGiveUp, TypeOK
  <2>2. PICK h \in Conns : h = Head(cqueue[th])
    BY <2>1
  <2>3. ScFree({h}) /\ UNCHANGED <<pos, sent, got, place, remote>>
    BY <1>7, <2>2 DEF CltGiveUp, srvVars, streamVars
  <2> QED
    BY <2>3, ScFreeFlow
<1>8. ASSUME NEW th \in CltThreads, CltRequest(th) PROVE FlowInv' /\ Ss5Relay!Next
  BY <1>8, RequestStep
<1>9. ASSUME NEW c \in Conns, CltUp(c) PROVE FlowInv' /\ Ss5Relay!Next
  BY <1>9, UpStep
<1>10. ASSUME NEW c \in Conns, CltDown(c) PROVE FlowInv' /\ Ss5Relay!Next
  BY <1>10, CltDownStep
<1>11. ASSUME NEW c \in Conns, CltEof(c) PROVE FlowInv' /\ Ss5Relay!Next
  BY <1>11, ScFreeFlow DEF CltEof, srvVars, streamVars
<1>12. ASSUME NEW c \in Conns, SrvSs5(c) PROVE FlowInv' /\ Ss5Relay!Next
  <2>1. /\ HasReq(c) /\ up' = [up EXCEPT ![c] = Tail(@)]
        /\ place' = [place EXCEPT ![c] = "queued"]
        /\ UNCHANGED <<dn, cl, remote, pos, sent, got>>
    BY <1>12 DEF SrvSs5, transVars, streamVars
  <2>2. /\ up'[c] = Tail(up[c]) /\ place'[c] = "queued"
        /\ \A b \in Conns : b # c => up'[b] = up[b] /\ place'[b] = place[b]
    BY <2>1 DEF TypeOK
  <2>3. QuietOf(c)
    BY <2>1, <2>2, ReqTaken
  <2> QED
    BY <2>1, <2>2, <2>3, OneConn
<1>13. ASSUME NEW c \in Conns, SrvRefuse(c) PROVE FlowInv' /\ Ss5Relay!Next
  <2>1. /\ HasReq(c) /\ up' = [up EXCEPT ![c] = Tail(@)]
        /\ place' = [place EXCEPT ![c] = "refused"]
        /\ dn' = IF cl[c] = "freed" THEN dn ELSE [dn EXCEPT ![c] = Append(@, ErrHead)]
        /\ UNCHANGED <<cl, remote, pos, sent, got>>
    BY <1>13 DEF SrvRefuse, Down, transVars, streamVars
  <2>2. /\ up'[c] = Tail(up[c]) /\ place'[c] = "refused"
        /\ dn'[c] = dn[c] \/ dn'[c] = Append(dn[c], ErrHead)
        /\ \A b \in Conns : b # c => up'[b] = up[b] /\ place'[b] = place[b] /\ dn'[b] = dn[b]
    BY <2>1 DEF TypeOK
  <2>3. QuietOf(c)
    BY <2>1, <2>2, ReqTaken
  <2> QED
    BY <2>1, <2>2, <2>3, OneConn
<1>14. ASSUME NEW c \in Conns, LookupFails(c) PROVE FlowInv' /\ Ss5Relay!Next
  <2>1. /\ place[c] = "lookup" /\ place' = [place EXCEPT ![c] = "leaked"]
        /\ UNCHANGED <<up, dn, cl, remote, pos, sent, got>>
    BY <1>14 DEF LookupFails, transVars, streamVars
  <2>2. place'[c] = "leaked" /\ \A b \in Conns : b # c => place'[b] = place[b]
    BY <2>1 DEF TypeOK
  <2>3. remote[c] = "none"
    BY <2>1 DEF NotYet, Early
  <2>4. QuietOf(c)
    BY <2>1, <2>2, <2>3, MovedConn
  <2> QED
    BY <2>1, <2>2, <2>4, OneConn
<1>15. ASSUME NEW c \in Conns, LookupOk(c) PROVE FlowInv' /\ Ss5Relay!Next
  <2>1. UNCHANGED <<up, dn, cl, streamVars>> /\ place[c] = "lookup"
    BY <1>15 DEF LookupOk, transVars
  <2>2. Opened(c) \/ UNCHANGED <<place, remote>>
    BY <1>15 DEF LookupOk, Opened
  <2> QED
    BY <1>1, <2>1, <2>2, OpensStep DEF streamVars
<1>16. CASE SessionEnds
  <2>1. UNCHANGED <<cl, streamVars>> /\ (SsFree(SsListed) \/ UNCHANGED <<place, remote, up, dn>>)
    BY <1>16 DEF SessionEnds, transVars
  <2>2. SsListed \in SUBSET Conns
    BY DEF SsListed
  <2> QED
    BY <1>1, <2>1, <2>2, SsFreeFlow DEF streamVars
<1>17. ASSUME NEW th \in SrvThreads, SrvTake(th) PROVE FlowInv' /\ Ss5Relay!Next
  <2>1. squeue[th] # <<>> /\ squeue[th] \in Seq(Conns)
    BY <1>17 DEF SrvTake, TypeOK
  <2>2. PICK h \in Conns : h = Head(squeue[th]) /\ h \in Range(squeue[th])
    BY <2>1, TailOf
  <2>3. place[h] = "queued" /\ remote[h] = "none"
    BY <2>2 DEF SrvQueued, NotYet, Early
  <2>4. /\ UNCHANGED <<up, dn, cl, remote, streamVars>>
        /\ \/ place' = place
           \/ \E w \in {"connecting", "lookup"} : place' = [place EXCEPT ![h] = w]
    BY <1>17, <2>2 DEF SrvTake, transVars
  <2>5. ASSUME NEW w \in {"connecting", "lookup"}, place' = [place EXCEPT ![h] = w]
        PROVE  FlowInv' /\ Ss5Relay!Next
    <3>1. place'[h] = w /\ \A b \in Conns : b # h => place'[b] = place[b]
      BY <2>5 DEF TypeOK
    <3>2. QuietOf(h)
      BY <2>3, <2>4, <3>1, MovedConn
    <3> QED
      BY <2>4, <3>1, <3>2, OneConn DEF streamVars
  <2> QED
    BY <1>1, <2>4, <2>5
<1>18. ASSUME NEW c \in Conns, ConnectFails(c) PROVE FlowInv' /\ Ss5Relay!Next
  BY <1>18, FailStep
<1>19. ASSUME NEW c \in Conns, ConnectOk(c) PROVE FlowInv' /\ Ss5Relay!Next
  <2>1. UNCHANGED <<up, dn, cl, streamVars>> /\ place[c] = "connecting"
    BY <1>19 DEF ConnectOk, transVars
  <2>2. Opened(c) \/ UNCHANGED <<place, remote>>
    BY <1>19 DEF ConnectOk, Opened
  <2> QED
    BY <1>1, <2>1, <2>2, OpensStep DEF streamVars
<1>20. ASSUME NEW c \in Conns, SrvUp(c) PROVE FlowInv' /\ Ss5Relay!Next
  BY <1>20, SrvUpStep
<1>21. ASSUME NEW c \in Conns, SrvDown(c) PROVE FlowInv' /\ Ss5Relay!Next
  BY <1>21, DownStep
<1>22. ASSUME NEW c \in Conns, SrvEof(c) PROVE FlowInv' /\ Ss5Relay!Next
  BY <1>22, SsFreeFlow DEF SrvEof, transVars, streamVars
<1>23. ASSUME NEW c \in Conns, RemoteCloses(c) PROVE FlowInv' /\ Ss5Relay!Next
  <2>1. /\ remote[c] = "open" /\ remote' = [remote EXCEPT ![c] = "ended"]
        /\ UNCHANGED <<pos, sent, got, up, dn, place, cl>>
    BY <1>23 DEF RemoteCloses, transVars, streamVars
  <2>2. \A b \in Conns : remote'[b] = remote[b] \/ place[b] # "leaked"
    BY <2>1 DEF HeadersOf, TypeOK
  <2> QED
    BY <2>1, <2>2, SameConns
<1>24. CASE UNCHANGED vars
  BY <1>1, <1>24 DEF vars, transVars, srvVars
<1> QED
  BY <1>2, <1>3, <1>4, <1>5, <1>6, <1>7, <1>8, <1>9, <1>10, <1>11, <1>12, <1>13,
     <1>14, <1>15, <1>16, <1>17, <1>18, <1>19, <1>20, <1>21, <1>22, <1>23, <1>24
  DEF Next, CltMainLoop, CltWorkerLoop, SrvMainLoop, SrvWorkerLoop, Environment

\* Nothing is under way at the start.
LEMMA InitFlow == Init => FlowInv /\ Ss5Relay!Init
<1> SUFFICES ASSUME Init PROVE FlowInv /\ Ss5Relay!Init
  OBVIOUS
<1>1. ASSUME NEW x \in Dir
      PROVE  /\ Chan(x) = <<>> /\ Read(x) = 0 /\ Write(x) = 0
             /\ sent[x] = 0 /\ got[Far(x)] = <<>>
  <2>1. x[2] \in Conns /\ Far(x) \in Dir /\ x \in Dir
    BY DirFacts
  <2> QED
    BY <2>1 DEF Init, Chan, Read, Write, Dir
<1>2. ASSUME NEW x \in Dir PROVE FlowOf(x) /\ Complete(x)
  <2>1. Stream(x, 0, 0, 0) = <<>> /\ Len(<<>>) = 0 /\ OnWire(<<>>) = <<>>
    BY StreamNone, HeaderOnWire
  <2>2. Chan(x) = Stream(x, Read(x), 0, 0) /\ 0 \in Nat /\ 0 \in 0..1
    BY <1>1, <2>1
  <2> QED
    BY <1>1, <2>1, <2>2 DEF FlowOf, Complete
<1>3. \A c \in Conns : HeadersOf(c)
  BY HeaderOnWire DEF Init, HeadersOf
<1>4. relayPhase = [c \in Conns |-> "idle"]
  BY DEF Init, relayPhase
<1>5. relayWire = [x \in Dir |-> <<>>]
  <2>1. \A x \in Dir : InFlight(x) = <<>>
    BY <1>1, HeaderOnWire DEF InFlight
  <2> QED
    BY <2>1, RelayView
<1>6. relayGot = [x \in Dir |-> <<>>]
  <2>1. Received(<<>>) = <<>>
    BY DEF Received
  <2> QED
    BY <1>1, <2>1, RelayView
<1>7. sent = [x \in Dir |-> 0]
  BY DEF Init, Dir
<1> QED
  BY <1>2, <1>3, <1>4, <1>5, <1>6, <1>7, RelayView DEF FlowInv, Ss5Relay!Init

\* What ss5_bufferread_cb_enc and thread_bufferread_cb_enc pass on between an
\* application and its remote host arrives in order, each chunk once and
\* deciphered with the position it was encrypted at; nothing is lost before one
\* of the two trans is freed or the data connection closed, and nothing of
\* another connection comes.
THEOREM RelayImplemented == Spec => ImplementsRelay
<1>1. Init => FlowInv /\ Ss5Relay!Init
  BY InitFlow
<1>2. Inv /\ FaultInv /\ FlowInv /\ [Next]_vars => FlowInv' /\ Ss5Relay!Next
  BY StepFlow
<1>3. Spec => Ss5Relay!Init /\ [][Ss5Relay!Next]_(Ss5Relay!vars)
  BY <1>1, <1>2, FaultInvariance, PTL DEF Spec
<1> QED
  BY <1>3 DEF ImplementsRelay, Ss5Relay!Spec

=============================================================================
