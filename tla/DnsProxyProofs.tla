---------------------------- MODULE DnsProxyProofs ----------------------------
(***************************************************************************)
(* Proofs about DnsProxy, for any questions, applications and ids: its     *)
(* type invariant, and that an answer goes to the application that asked   *)
(* unless two applications use one entry of the table.                     *)
(*                                                                         *)
(* A question is Good when its entry of the table names its application or *)
(* is contested.  It is made so when it enters the data connection and     *)
(* stays so, since only another question can change the entry, and then    *)
(* the two clash.  The invariant says that whatever is carried, by the     *)
(* data connection or at the name server, belongs to good questions.       *)
(***************************************************************************)
EXTENDS DnsProxy, SequenceTheorems, TLAPS

CellsOf(Q) == [of : Q, part : {"head", "rest"}]

Carries(u, d, p, a, Q) ==
    /\ u \in Seq(CellsOf(Q) \cup {Fin})
    /\ d \in Seq(CellsOf(Q) \cup {Fin})
    /\ p \subseteq Seq(CellsOf(Q))
    /\ a \subseteq Q

Good == {q \in asked : table[Slot(q)] = App[q] \/ Clash(q)}

Inv ==
    /\ TypeOK
    /\ udpq \in Seq(asked)
    /\ Carries(up, dn, pending, answers, Good)
    /\ RightApplication

-----------------------------------------------------------------------------
(* Streams.                                                                *)

\* Cutting a stream short invents nothing.
LEMMA CutStream ==
    ASSUME NEW S, NEW s \in Seq(S \cup {Fin}), NEW r \in CutShort(s)
    PROVE  r \in Seq(S \cup {Fin})
<1>1. PICK k \in 0..Len(s) : r = Append(SubSeq(s, 1, k), Fin)
  BY DEF CutShort
<1>2. Len(s) \in Nat /\ \A i \in 1..k : s[i] \in S \cup {Fin}
  BY ElementOfSeq, LenProperties
<1>3. SubSeq(s, 1, k) \in Seq(S \cup {Fin})
  BY <1>2, SubSeqProperties
<1> QED
  BY <1>1, <1>3

\* What a read event brings is free of Fin, begins with the first cell of the
\* stream, and leaves a stream.
LEMMA ReadStream ==
    ASSUME NEW S, NEW s \in Seq(S \cup {Fin}), NEW k \in Reads(s)
    PROVE  /\ SubSeq(s, 1, k) \in Seq(S)
           /\ SubSeq(s, 1, k)[1] \in S
           /\ SubSeq(s, k + 1, Len(s)) \in Seq(S \cup {Fin})
<1>1. Len(s) \in Nat /\ k \in 1..Len(s) /\ \A i \in 1..Len(s) : s[i] \in S \cup {Fin}
  BY ElementOfSeq, LenProperties DEF Reads
<1>2. \A i \in 1..k : s[i] \in S
  BY <1>1 DEF Reads
<1>3. SubSeq(s, 1, k) \in Seq(S) /\ SubSeq(s, 1, k)[1] = s[1]
  BY <1>1, <1>2, SubSeqProperties
<1>4. SubSeq(s, k + 1, Len(s)) \in Seq(S \cup {Fin})
  BY <1>1, SubSeqProperties
<1> QED
  BY <1>1, <1>2, <1>3, <1>4

\* A message of one of the questions Q may join a stream of theirs.
LEMMA JoinStream ==
    ASSUME NEW Q, NEW q \in Q, NEW s \in Seq(CellsOf(Q) \cup {Fin})
    PROVE  s \o Message(q) \in Seq(CellsOf(Q) \cup {Fin})
<1>1. Message(q) \in Seq(CellsOf(Q) \cup {Fin})
  BY DEF Message, Head1, Rest, CellsOf
<1> QED
  BY <1>1, ConcatProperties

\* The empty stream and the end of file alone are streams.
LEMMA EndOfStream == \A S : <<>> \in Seq(S \cup {Fin}) /\ <<Fin>> \in Seq(S \cup {Fin})
  OBVIOUS

\* More questions make a larger stock of cells.
LEMMA CarriesMore ==
    ASSUME NEW u, NEW d, NEW p, NEW a, NEW Q, NEW R, Q \subseteq R, Carries(u, d, p, a, Q)
    PROVE  Carries(u, d, p, a, R)
<1>1. CellsOf(Q) \subseteq CellsOf(R)
  BY DEF CellsOf
<1>2. CellsOf(Q) \cup {Fin} \subseteq CellsOf(R) \cup {Fin}
  BY <1>1
<1>3. \A s \in Seq(CellsOf(Q) \cup {Fin}) : s \in Seq(CellsOf(R) \cup {Fin})
  BY <1>2, SeqMonotonic
<1>4. \A s \in Seq(CellsOf(Q)) : s \in Seq(CellsOf(R))
  BY <1>1, SeqMonotonic
<1> QED
  BY <1>3, <1>4 DEF Carries

\* Freeing either trans, and a reset, leave cells of the same questions.
LEMMA ScFreeCarries ==
    ASSUME NEW Q, Carries(up, dn, pending, answers, Q), ScFree,
           UNCHANGED <<pending, answers>>
    PROVE  Carries(up', dn', pending', answers', Q)
<1>1. up' \in Seq(CellsOf(Q) \cup {Fin})
  BY CutStream DEF Carries, ScFree
<1>2. dn' \in Seq(CellsOf(Q) \cup {Fin})
  BY EndOfStream DEF Carries, ScFree
<1> QED
  BY <1>1, <1>2 DEF Carries

\* The server's freeing of the DNS trans leaves only cells of questions in the stream.
LEMMA SsFreeCarries ==
    ASSUME NEW Q, Carries(up, dn, pending, answers, Q), SsFree,
           UNCHANGED <<pending, answers>>
    PROVE  Carries(up', dn', pending', answers', Q)
<1>1. dn' \in Seq(CellsOf(Q) \cup {Fin})
  BY CutStream DEF Carries, SsFree
<1>2. up' \in Seq(CellsOf(Q) \cup {Fin})
  BY EndOfStream DEF Carries, SsFree
<1> QED
  BY <1>1, <1>2 DEF Carries

\* Only ClientAsk brings a new question into what is carried.
LEMMA StepCarries ==
    ASSUME NEW Q, NEW R, Q \subseteq R, Carries(up, dn, pending, answers, Q),
           [Next]_vars, ClientAsk /\ up' # up => Head(udpq) \in R
    PROVE  Carries(up', dn', pending', answers', R)
<1>1. Carries(up, dn, pending, answers, R)
  BY CarriesMore
<1>2. CASE ClientAsk
  <2>1. up' = up \/ up' = up \o Message(Head(udpq))
    BY <1>2 DEF ClientAsk
  <2>2. up' \in Seq(CellsOf(R) \cup {Fin})
    BY <1>1, <1>2, <2>1, JoinStream DEF Carries
  <2> QED
    BY <1>1, <1>2, <2>2 DEF ClientAsk, Carries, srvVars
<1>3. CASE ClientAnswer
  <2>1. PICK k \in Reads(dn) : dn' = SubSeq(dn, k + 1, Len(dn))
    BY <1>3 DEF ClientAnswer
  <2>2. dn' \in Seq(CellsOf(R) \cup {Fin})
    BY <1>1, <2>1, ReadStream DEF Carries
  <2> QED
    BY <1>1, <1>3, <2>2 DEF ClientAnswer, Carries, srvVars
<1>4. CASE ClientEof \/ ClientRelogin \/ ClientExit
  BY <1>1, <1>4, ScFreeCarries DEF ClientEof, ClientRelogin, ClientExit, srvVars
<1>5. CASE WorkerEof
  BY <1>1, <1>5, SsFreeCarries DEF WorkerEof
<1>6. CASE SrvMainEof
  <2>1. CASE srv = "listed"
    BY <1>1, <1>6, <2>1, SsFreeCarries DEF SrvMainEof
  <2>2. CASE srv # "listed"
    BY <1>1, <1>6, <2>2 DEF SrvMainEof, Carries
  <2> QED
    BY <2>1, <2>2
<1>7. CASE WorkerAsk
  <2>1. PICK k \in Reads(up) : /\ pending' = pending \cup {SubSeq(up, 1, k)}
                               /\ up' = SubSeq(up, k + 1, Len(up))
    BY <1>7 DEF WorkerAsk
  <2>2. SubSeq(up, 1, k) \in Seq(CellsOf(R)) /\ up' \in Seq(CellsOf(R) \cup {Fin})
    BY <1>1, <2>1, ReadStream DEF Carries
  <2> QED
    BY <1>1, <1>7, <2>1, <2>2 DEF WorkerAsk, Carries
<1>8. CASE WorkerAnswer
  <2>1. PICK q \in answers : dn' = dn \/ dn' = dn \o Message(q)
    BY <1>8 DEF WorkerAnswer
  <2>2. dn' \in Seq(CellsOf(R) \cup {Fin})
    BY <1>1, <2>1, JoinStream DEF Carries
  <2> QED
    BY <1>1, <1>8, <2>2 DEF WorkerAnswer, Carries
<1>9. ASSUME NEW d \in pending, NameServer(d) PROVE Carries(up', dn', pending', answers', R)
  <2>1. d[1] \in CellsOf(R)
    BY <1>1, <1>9, ElementOfSeq DEF NameServer, Carries
  <2>2. d[1].of \in R
    BY <2>1 DEF CellsOf
  <2> QED
    BY <1>1, <1>9, <2>2 DEF NameServer, Carries
<1>10. CASE Reset
  BY <1>1, <1>10, EndOfStream DEF Reset, Carries, srvVars
<1>11. ASSUME NEW q \in Queries, Ask(q) PROVE Carries(up', dn', pending', answers', R)
  BY <1>1, <1>11 DEF Ask, srvVars
<1>12. CASE ClientCtl \/ SrvHandleDns \/ SrvOther \/ WorkerTake \/ UNCHANGED vars
  BY <1>1, <1>12 DEF ClientCtl, SrvHandleDns, SrvOther, WorkerTake, srvVars, vars
<1> QED
  BY <1>2, <1>3, <1>4, <1>5, <1>6, <1>7, <1>8, <1>9, <1>10, <1>11, <1>12
     DEF Next, System, Environment

-----------------------------------------------------------------------------
(* The table.                                                              *)

\* An answer is sent to the application its first cell's entry names.
LEMMA AddresseeTyped ==
    ASSUME TypeOK, NEW d \in Seq(Cells), d[1] \in Cells, NEW a \in Addressees(d)
    PROVE  /\ a \in Apps \cup {Unset}
           /\ d[1].part = "head" => a = table[Slot(d[1].of)]
<1>1. d[1].of \in Queries
  BY DEF Cells
<1>2. Slot(d[1].of) \in Slots
  BY <1>1 DEF Slot, Slots, TypeOK
<1> QED
  BY <1>2 DEF Addressees, TypeOK

\* Good questions stay good.
LEMMA GoodStays == ASSUME TypeOK, udpq \in Seq(asked), [Next]_vars PROVE Good \subseteq Good'
<1>1. id' = id /\ asked \subseteq asked'
  BY DEF Next, System, Environment, Ask, NameServer, ClientAsk, ClientAnswer, ClientEof,
         ClientCtl, ClientRelogin, ClientExit, SrvHandleDns, SrvOther, SrvMainEof,
         WorkerTake, WorkerAsk, WorkerAnswer, WorkerEof, Reset, askVars, vars
<1>2. \A q : Clash(q) => Clash(q)'
  BY <1>1 DEF Clash, Slot
<1>3. CASE table' = table
  BY <1>1, <1>2, <1>3 DEF Good, Slot
<1>4. CASE ClientAsk /\ table' # table
  <2>1. Head(udpq) \in asked /\ Record(Head(udpq))
    BY <1>4 DEF ClientAsk
  <2> SUFFICES ASSUME NEW q \in Good PROVE q \in Good'
    OBVIOUS
  <2>2. q \in Queries /\ Slot(q) \in Slots /\ Slot(q)' = Slot(q)
    BY <1>1 DEF Good, Slot, Slots, TypeOK
  <2>3. CASE Slot(Head(udpq)) # Slot(q)
    BY <1>1, <1>2, <2>1, <2>2, <2>3 DEF Good, Record, TypeOK
  <2>4. CASE Slot(Head(udpq)) = Slot(q)
    <3>1. table'[Slot(q)] = App[Head(udpq)]
      BY <2>1, <2>2, <2>4 DEF Record, TypeOK
    <3>2. CASE App[Head(udpq)] = App[q]
      BY <1>1, <2>2, <3>1, <3>2 DEF Good
    <3>3. CASE App[Head(udpq)] # App[q]
      BY <1>1, <1>2, <2>1, <2>2, <2>4, <3>3 DEF Good, Clash
    <3> QED
      BY <3>2, <3>3
  <2> QED
    BY <2>3, <2>4
<1> QED
  BY <1>3, <1>4 DEF Next, System, Environment, Ask, NameServer, ClientAnswer, ClientEof,
         ClientCtl, ClientRelogin, ClientExit, SrvHandleDns, SrvOther, SrvMainEof,
         WorkerTake, WorkerAsk, WorkerAnswer, WorkerEof, Reset, cltVars, vars

\* A question that enters the data connection is good from then on.
LEMMA AskedIsGood ==
    ASSUME TypeOK, udpq \in Seq(asked), ClientAsk, table' # table \/ up' # up
    PROVE  Head(udpq) \in Good'
<1>1. Head(udpq) \in asked /\ Record(Head(udpq)) /\ id' = id /\ asked' = asked
  BY DEF ClientAsk
<1> SUFFICES ASSUME NEW q, q = Head(udpq) PROVE q \in Good'
  OBVIOUS
<1>2. Slot(q) \in Slots /\ Slot(q)' = Slot(q)
  BY <1>1 DEF Slot, Slots, TypeOK
<1>3. table'[Slot(q)] = App[q]
  BY <1>1, <1>2 DEF Record, TypeOK
<1> QED
  BY <1>1, <1>2, <1>3 DEF Good

-----------------------------------------------------------------------------
(* The control channel.                                                    *)

\* The control channel holds headers; what follows its first one is what is
\* left when srv_bufferread_cb has taken it.
Kinds   == {"dns", "other"}
Headers == ctl.buf \o ctl.net

HeadTaken(n) == Head(ctl.buf \o SubSeq(ctl.net, 1, n))
Taken(n)     == ctl' = [net |-> SubSeq(ctl.net, n + 1, Len(ctl.net)),
                        buf |-> Tail(ctl.buf \o SubSeq(ctl.net, 1, n))]

\* A client that reads n headers takes the oldest and leaves the rest.
LEMMA HeaderTaken ==
    ASSUME TypeOK, NEW n \in 1..MaxBatch, n <= Len(ctl.net), Taken(n)
    PROVE  /\ ctl' \in [net : Seq(Kinds), buf : Seq(Kinds)]
           /\ HeadTaken(n) \in Kinds /\ Len(Headers) \in Nat \ {0} /\ HeadTaken(n) = Headers[1]
           /\ Len(Headers') = Len(Headers) - 1
           /\ \A i \in 1..Len(Headers') : Headers'[i] = Headers[i + 1]
<1> DEFINE net  == ctl.net
           buf  == ctl.buf
           read == SubSeq(net, 1, n)
           rest == SubSeq(net, n + 1, Len(net))
           all  == buf \o read
<1>1. /\ net \in Seq(Kinds) /\ buf \in Seq(Kinds) /\ n \in Nat \ {0}
      /\ Len(net) \in Nat /\ Len(buf) \in Nat /\ n <= Len(net)
  BY BoundsAssumption DEF TypeOK, Kinds
<1>2. \A i \in 1..Len(net) : net[i] \in Kinds
  BY <1>1, ElementOfSeq
<1>3. /\ read \in Seq(Kinds) /\ Len(read) = n
      /\ \A i \in 1..n : read[i] = net[i]
  BY <1>1, <1>2, SubSeqProperties
<1>4. /\ rest \in Seq(Kinds) /\ Len(rest) = Len(net) - n
      /\ \A i \in 1..(Len(net) - n) : rest[i] = net[n + i]
  BY <1>1, <1>2, SubSeqProperties
<1>5. /\ all \in Seq(Kinds) /\ Len(all) = Len(buf) + n
      /\ \A i \in 1..(Len(buf) + n) : all[i] = IF i <= Len(buf) THEN buf[i] ELSE net[i - Len(buf)]
  BY <1>1, <1>3, ConcatProperties
<1>6. all # <<>>
  BY <1>1, <1>5, EmptySeq, LenProperties
<1>7. /\ Head(all) \in Kinds /\ Head(all) = all[1] /\ Tail(all) \in Seq(Kinds)
      /\ Len(Tail(all)) = Len(buf) + n - 1
      /\ \A i \in 1..(Len(buf) + n - 1) : Tail(all)[i] = all[i + 1]
  <2> HIDE DEF all
  <2>1. /\ Head(all) \in Kinds /\ Tail(all) \in Seq(Kinds) /\ Len(Tail(all)) = Len(all) - 1
        /\ \A i \in 1..Len(Tail(all)) : Tail(all)[i] = all[i + 1]
    BY <1>5, <1>6, HeadTailProperties
  <2>2. Head(all) = all[1]
    BY <1>5, <1>6
  <2> QED
    BY <1>1, <1>5, <2>1, <2>2
<1>8. ctl' = [net |-> rest, buf |-> Tail(all)]
  BY DEF Taken
<1>9. /\ Len(Headers) = Len(buf) + Len(net)
      /\ \A i \in 1..(Len(buf) + Len(net)) :
            Headers[i] = IF i <= Len(buf) THEN buf[i] ELSE net[i - Len(buf)]
  BY <1>1, ConcatProperties DEF Headers
<1>10. Headers' = Tail(all) \o rest
  BY <1>8 DEF Headers
<1>11. /\ Len(Headers') = Len(buf) + n - 1 + (Len(net) - n)
       /\ \A i \in 1..(Len(buf) + n - 1 + (Len(net) - n)) :
             Headers'[i] = IF i <= Len(buf) + n - 1 THEN Tail(all)[i]
                           ELSE rest[i - (Len(buf) + n - 1)]
  <2> DEFINE left == Tail(all)
  <2>1. left \in Seq(Kinds) /\ Len(left) = Len(buf) + n - 1 /\ Headers' = left \o rest
    BY <1>7, <1>10
  <2> HIDE DEF left, rest
  <2>2. /\ Len(left \o rest) = Len(left) + Len(rest)
        /\ \A i \in 1..(Len(left) + Len(rest)) :
              (left \o rest)[i] = IF i <= Len(left) THEN left[i] ELSE rest[i - Len(left)]
    BY <1>4, <2>1, ConcatProperties
  <2>3. Len(left) = Len(buf) + n - 1 /\ Len(rest) = Len(net) - n
    BY <1>4, <2>1
  <2> QED
    BY <2>1, <2>2, <2>3 DEF left
<1> HIDE DEF net, buf, read, rest, all
<1>12. ASSUME NEW i \in 1..Len(Headers') PROVE Headers'[i] = Headers[i + 1]
  <2>1. i \in Nat \ {0} /\ i <= Len(buf) + Len(net) - 1
    BY <1>1, <1>11, <1>12
  <2>2. CASE i <= Len(buf) + n - 1
    <3>1. i \in 1..(Len(buf) + n - 1) /\ i + 1 \in 1..(Len(buf) + n)
      BY <1>1, <2>1, <2>2
    <3>2. Headers'[i] = all[i + 1]
      BY <1>7, <1>11, <2>2, <3>1
    <3>3. i + 1 \in 1..(Len(buf) + Len(net))
      BY <1>1, <2>1
    <3> QED
      BY <1>5, <1>9, <3>1, <3>2, <3>3
  <2>3. CASE i > Len(buf) + n - 1
    <3> DEFINE k == i - (Len(buf) + n - 1)
    <3>1. k \in 1..(Len(net) - n) /\ n + k = (i + 1) - Len(buf) /\ ~(i + 1 <= Len(buf))
      BY <1>1, <2>1, <2>3
    <3>2. Headers'[i] = net[n + k]
      <4>1. rest[k] = net[n + k]
        BY <1>4, <3>1
      <4>2. ~(i <= Len(buf) + n - 1)
        BY <1>1, <2>1, <2>3
      <4> QED
        BY <1>11, <4>1, <4>2
    <3>3. i + 1 \in 1..(Len(buf) + Len(net))
      BY <1>1, <2>1
    <3> QED
      BY <1>9, <3>1, <3>2, <3>3
  <2> QED
    BY <1>1, <2>1, <2>2, <2>3
<1>13. HeadTaken(n) = all[1] /\ HeadTaken(n) \in Kinds
  BY <1>7 DEF HeadTaken, net, buf, read, all
<1>14. all[1] = Headers[1]
  BY <1>1, <1>5, <1>9
<1>15. ctl' \in [net : Seq(Kinds), buf : Seq(Kinds)]
  BY <1>4, <1>7, <1>8
<1> QED
  BY <1>1, <1>9, <1>11, <1>12, <1>13, <1>14, <1>15

\* A header put on the channel comes last.
LEMMA HeaderPosted ==
    ASSUME TypeOK, NEW h \in Kinds, Post(h)
    PROVE  \/ Headers' = Headers
           \/ /\ Len(Headers) \in Nat /\ Len(Headers') = Len(Headers) + 1
              /\ \A i \in 1..Len(Headers) : Headers'[i] = Headers[i]
              /\ Headers'[Len(Headers) + 1] = h
<1>1. CASE ctl' = ctl
  BY <1>1 DEF Headers
<1>2. CASE ctl' = [ctl EXCEPT !.net = Append(@, h)]
  <2> DEFINE w == ctl.buf \o ctl.net
  <2>1. ctl.net \in Seq(Kinds) /\ ctl.buf \in Seq(Kinds)
    BY DEF TypeOK, Kinds
  <2>2. ctl'.net = Append(ctl.net, h) /\ ctl'.buf = ctl.buf
    BY <1>2 DEF TypeOK
  <2>3. Headers' = Append(w, h)
    <3>1. Headers' = ctl.buf \o Append(ctl.net, h)
      BY <2>2 DEF Headers
    <3>2. Append(ctl.net, h) = ctl.net \o <<h>> /\ <<h>> \in Seq(Kinds)
      BY <2>1, AppendIsConcat
    <3>3. w \in Seq(Kinds) /\ w \o <<h>> = ctl.buf \o (ctl.net \o <<h>>)
      <4>1. \A x, y, z \in Seq(Kinds) : x \o y \in Seq(Kinds) /\ (x \o y) \o z = x \o (y \o z)
        BY ConcatAssociative, ConcatProperties
      <4> QED
        BY <2>1, <3>2, <4>1
    <3> HIDE DEF w
    <3>4. Append(w, h) = w \o <<h>>
      BY <3>3, AppendIsConcat
    <3> QED
      BY <3>1, <3>2, <3>3, <3>4
  <2>4. w \in Seq(Kinds) /\ Headers = w
    BY <2>1 DEF Headers
  <2> HIDE DEF w
  <2> QED
    BY <2>3, <2>4, AppendProperties, LenProperties
<1> QED
  BY <1>1, <1>2 DEF Post

-----------------------------------------------------------------------------
(* The invariant.                                                          *)

\* What is carried has the form that TypeOK asks for.
LEMMA CarriesTyped ==
    ASSUME NEW u, NEW d, NEW p, NEW a
    PROVE  Carries(u, d, p, a, Queries) <=>
               /\ u \in Seq(Items) /\ d \in Seq(Items)
               /\ p \subseteq Seq(Cells) /\ a \subseteq Queries
  BY DEF Carries, CellsOf, Items, Cells

\* A control channel that has just been opened.
LEMMA NewChannel ==
    [net |-> <<>>, buf |-> <<>>] \in [net : Seq({"dns", "other"}), buf : Seq({"dns", "other"})]
<1>1. ASSUME NEW S, NEW e \in S PROVE [net |-> e, buf |-> e] \in [net : S, buf : S]
  OBVIOUS
<1> QED
  BY <1>1, EmptySeq

\* Every variable keeps its type.
LEMMA StepTypes ==
    ASSUME TypeOK, udpq \in Seq(asked), [Next]_vars
    PROVE  TypeOK' /\ (udpq \in Seq(asked))'
<1>1. Carries(up', dn', pending', answers', Queries)
  <2>1. ClientAsk => Head(udpq) \in Queries
    BY DEF ClientAsk, TypeOK
  <2> QED
    BY <2>1, CarriesTyped, StepCarries DEF TypeOK
<1>2. /\ up' \in Seq(Items) /\ dn' \in Seq(Items)
      /\ pending' \subseteq Seq(Cells) /\ answers' \subseteq Queries
  BY <1>1, CarriesTyped
<1>3. ASSUME NEW q \in Queries, Ask(q) PROVE TypeOK' /\ (udpq \in Seq(asked))'
  <2>1. asked' = asked \cup {q} /\ udpq \in Seq(asked')
    BY <1>3, SeqMonotonic DEF Ask
  <2>2. udpq' \in Seq(asked') /\ udpq' \in Seq(Queries)
    BY <1>3, <2>1 DEF Ask, TypeOK
  <2> QED
    BY <1>2, <1>3, <2>2 DEF Ask, TypeOK, cltVars, srvVars, lifeVars
<1>4. CASE ClientAsk
  <2>1. udpq' \in Seq(asked') /\ udpq' \in Seq(Queries) /\ asked' = asked
    BY <1>4, HeadTailProperties DEF ClientAsk, TypeOK
  <2>0. Head(udpq) \in Queries
    BY <1>4, HeadTailProperties DEF ClientAsk, TypeOK
  <2>2. table' \in [Slots -> Apps \cup {Unset}]
    BY <1>4, <2>0 DEF ClientAsk, Record, TypeOK, Apps
  <2> QED
    BY <1>2, <1>4, <2>1, <2>2 DEF ClientAsk, TypeOK, srvVars, lifeVars, Faults
<1>5. CASE ClientAnswer
  <2>1. delivered' \subseteq [to : Apps \cup {Unset}, cells : Seq(Cells)]
    <3>0. PICK k \in Reads(dn) : \E a \in Addressees(SubSeq(dn, 1, k)) :
             delivered' = delivered \cup {[to |-> a, cells |-> SubSeq(dn, 1, k)]}
      BY <1>5 DEF ClientAnswer
    <3>1. PICK a \in Addressees(SubSeq(dn, 1, k)) :
             delivered' = delivered \cup {[to |-> a, cells |-> SubSeq(dn, 1, k)]}
      BY <3>0
    <3>2. SubSeq(dn, 1, k) \in Seq(Cells) /\ SubSeq(dn, 1, k)[1] \in Cells
      BY ReadStream DEF TypeOK, Items
    <3>3. a \in Apps \cup {Unset}
      BY <3>2, AddresseeTyped
    <3>4. [to |-> a, cells |-> SubSeq(dn, 1, k)] \in [to : Apps \cup {Unset}, cells : Seq(Cells)]
      BY <3>2, <3>3
    <3> QED
      BY <3>1, <3>4 DEF TypeOK
  <2> QED
    BY <1>2, <1>5, <2>1 DEF ClientAnswer, TypeOK, askVars, srvVars, lifeVars
<1>6. CASE ClientCtl
  <2>1. ctl' \in [net : Seq({"dns", "other"}), buf : Seq({"dns", "other"})]
    <3>1. PICK n \in 1..MaxBatch : n <= Len(ctl.net) /\ Taken(n)
      BY <1>6 DEF ClientCtl, Taken
    <3> QED
      BY <3>1, HeaderTaken DEF Kinds
  <2> QED
    BY <1>2, <1>6, <2>1 DEF ClientCtl, TypeOK, askVars, srvVars, lifeVars, Faults
<1>7. CASE ClientEof \/ ClientRelogin \/ ClientExit
  <2>1. login' \in 1..MaxLogins /\ session' \in 0..MaxLogins
    BY <1>7, BoundsAssumption DEF ClientEof, ClientRelogin, ClientExit, TypeOK, lifeVars
  <2>2. ctl' \in [net : Seq({"dns", "other"}), buf : Seq({"dns", "other"})]
    <3>1. ctl' = ctl \/ ctl' = [net |-> <<>>, buf |-> <<>>]
      BY <1>7 DEF ClientEof, ClientRelogin, ClientExit
    <3>2. ctl \in [net : Seq({"dns", "other"}), buf : Seq({"dns", "other"})]
      BY DEF TypeOK
    <3> QED
      BY <3>1, <3>2, NewChannel
  <2> QED
    BY <1>2, <1>7, <2>1, <2>2
       DEF ClientEof, ClientRelogin, ClientExit, ScFree, TypeOK, askVars, srvVars, lifeVars
<1>8. CASE SrvHandleDns \/ SrvMainEof \/ WorkerEof
  BY <1>2, <1>8, BoundsAssumption
     DEF SrvHandleDns, SrvMainEof, WorkerEof, SsFree, TypeOK, askVars, cltVars, lifeVars, Faults
<1>9. CASE SrvOther \/ WorkerTake
  <2>1. ctl' \in [net : Seq({"dns", "other"}), buf : Seq({"dns", "other"})]
    <3>1. PICK h \in {"dns", "other"} : ctl' = ctl \/ ctl' = [ctl EXCEPT !.net = Append(@, h)]
      BY <1>9 DEF SrvOther, WorkerTake, Post
    <3>2. Append(ctl.net, h) \in Seq({"dns", "other"})
      BY DEF TypeOK
    <3>3. ASSUME NEW n \in Seq({"dns", "other"})
          PROVE  [ctl EXCEPT !.net = n]
                    \in [net : Seq({"dns", "other"}), buf : Seq({"dns", "other"})]
      BY DEF TypeOK
    <3> QED
      BY <3>1, <3>2, <3>3 DEF TypeOK
  <2>2. others' \in 0..MaxOther
    BY <1>9, BoundsAssumption DEF SrvOther, WorkerTake, TypeOK
  <2> QED
    BY <1>2, <1>9, <2>1, <2>2
       DEF SrvOther, WorkerTake, TypeOK, askVars, cltVars, srvVars, lifeVars
<1>10. CASE WorkerAsk \/ WorkerAnswer \/ Reset
  <2>1. CASE WorkerAsk
    BY <1>2, <2>1 DEF WorkerAsk, TypeOK, askVars, cltVars, lifeVars
  <2>2. CASE WorkerAnswer
    BY <1>2, <2>2 DEF WorkerAnswer, TypeOK, askVars, cltVars, lifeVars, Faults
  <2>3. CASE Reset
    BY <1>2, <2>3 DEF Reset, TypeOK, askVars, cltVars, srvVars
  <2> QED
    BY <1>10, <2>1, <2>2, <2>3
<1>11. ASSUME NEW d \in pending, NameServer(d) PROVE TypeOK' /\ (udpq \in Seq(asked))'
  BY <1>2, <1>11 DEF NameServer, TypeOK, askVars, cltVars, lifeVars
<1>12. CASE UNCHANGED vars
  BY <1>12 DEF vars, TypeOK, askVars, cltVars, srvVars, lifeVars
<1> QED
  BY <1>3, <1>4, <1>5, <1>6, <1>7, <1>8, <1>9, <1>10, <1>11, <1>12
     DEF Next, System, Environment

\* Each step keeps the invariant.
LEMMA StepInv == Inv /\ [Next]_vars => Inv'
<1> SUFFICES ASSUME Inv, [Next]_vars PROVE Inv'
  OBVIOUS
<1>1. TypeOK' /\ (udpq \in Seq(asked))'
  BY StepTypes DEF Inv
<1>2. Carries(up', dn', pending', answers', Good')
  <2>1. Good \subseteq Good'
    BY GoodStays DEF Inv
  <2>2. ClientAsk /\ up' # up => Head(udpq) \in Good'
    BY AskedIsGood DEF Inv
  <2> HIDE DEF Good
  <2> QED
    BY <2>1, <2>2, StepCarries DEF Inv
<1>3. RightApplication'
  <2>1. id' = id /\ asked \subseteq asked'
    BY DEF Next, System, Environment, Ask, NameServer, ClientAsk, ClientAnswer, ClientEof,
           ClientCtl, ClientRelogin, ClientExit, SrvHandleDns, SrvOther, SrvMainEof,
           WorkerTake, WorkerAsk, WorkerAnswer, WorkerEof, Reset, askVars, vars
  <2>2. \A q : Clash(q) => Clash(q)'
    BY <2>1 DEF Clash, Slot
  <2>3. CASE delivered' = delivered
    BY <2>2, <2>3 DEF Inv, RightApplication
  <2>4. CASE ClientAnswer
    <3>1. PICK k \in Reads(dn) : \E a \in Addressees(SubSeq(dn, 1, k)) :
             delivered' = delivered \cup {[to |-> a, cells |-> SubSeq(dn, 1, k)]}
      BY <2>4 DEF ClientAnswer
    <3> DEFINE d == SubSeq(dn, 1, k)
    <3>2. PICK a \in Addressees(d) : delivered' = delivered \cup {[to |-> a, cells |-> d]}
      BY <3>1
    <3>3. d[1] \in CellsOf(Good)
      BY ReadStream DEF Inv, Carries
    <3>4. d \in Seq(Cells) /\ d[1] \in Cells
      BY ReadStream DEF Inv, TypeOK, Items
    <3>5. d[1].of \in Good
      BY <3>3 DEF CellsOf
    <3>6. d[1].part = "head" => a = table[Slot(d[1].of)]
      BY <3>4, AddresseeTyped DEF Inv
    <3> HIDE DEF d
    <3>7. d[1].part = "head" => a = App[d[1].of] \/ Clash(d[1].of)
      BY <3>5, <3>6 DEF Good
    <3> QED
      BY <2>2, <3>2, <3>7 DEF Inv, RightApplication
  <2> QED
    BY <2>3, <2>4
       DEF Next, System, Environment, Ask, NameServer, ClientAsk, ClientEof,
           ClientCtl, ClientRelogin, ClientExit, SrvHandleDns, SrvOther, SrvMainEof,
           WorkerTake, WorkerAsk, WorkerAnswer, WorkerEof, Reset, cltVars, vars
<1> QED
  BY <1>1, <1>2, <1>3 DEF Inv

\* The invariant holds at the start,
LEMMA InitInv == Init => Inv
<1> SUFFICES ASSUME Init PROVE Inv
  OBVIOUS
<1>1. \A S : <<>> \in Seq(S)
  OBVIOUS
<1>2. ctl \in [net : Seq({"dns", "other"}), buf : Seq({"dns", "other"})]
  BY NewChannel DEF Init
<1>3. TypeOK
  <2>1. table \in [Slots -> Apps \cup {Unset}]
    BY DEF Init
  <2>2. /\ udpq \in Seq(Queries) /\ up \in Seq(Items) /\ dn \in Seq(Items)
        /\ pending \subseteq Seq(Cells) /\ answers \subseteq Queries /\ asked \subseteq Queries
        /\ delivered \subseteq [to : Apps \cup {Unset}, cells : Seq(Cells)]
    BY <1>1 DEF Init
  <2>3. others \in 0..MaxOther /\ login \in 1..MaxLogins /\ session \in 0..MaxLogins
    BY BoundsAssumption DEF Init
  <2> QED
    BY <1>2, <2>1, <2>2, <2>3 DEF Init, TypeOK, Faults
<1> QED
  BY <1>1, <1>3 DEF Init, Inv, Carries, RightApplication

\* and in every reachable state.
LEMMA SpecInv == Spec => []Inv
  BY InitInv, StepInv, PTL DEF Spec

-----------------------------------------------------------------------------
\* Types: the stream holds cells of questions, the table has an entry for
\* every index that an id gives.
THEOREM TypeCorrect == Spec => []TypeOK
  BY SpecInv, PTL DEF Inv

\* A datagram that begins with an answer goes to the application that asked,
\* unless another application uses the same entry of dns_transid_port_map:
\* for any ids, any number of questions and any way the streams are cut.
THEOREM AnswersGoHome == Spec => []RightApplication
  BY SpecInv, PTL DEF Inv

-----------------------------------------------------------------------------
(* The invalid accesses.                                                   *)

Early   == place \in {"main", "refused", "queued"}

NoDns(w)   == \A i \in 1..Len(w) : w[i] # "dns"
DnsOnce(w) == \A i, j \in 1..Len(w) : w[i] = "dns" /\ w[j] = "dns" => i = j

\* Neither end of the data connection is gone unless something has happened.
EndInv == (trans = "freed" \/ srv = "freed" \/ Ended(up) \/ Ended(dn)) => Broken

\* One DNS_ACT is sent, by the worker, and the trans waits for it.
ActInv ==
    /\ DnsOnce(Headers)
    /\ Early => NoDns(Headers) /\ ~udp /\ trans # "serving" /\ delivered = {}
    /\ Early /\ login = 1 /\ alive => trans = "waiting"
    /\ login = 1 /\ alive /\ trans # "waiting" => NoDns(Headers)

\* The rest of a stream ends as the stream does.
LEMMA EndedRest ==
    ASSUME NEW s \in Seq(Items), NEW k \in Reads(s), Ended(SubSeq(s, k + 1, Len(s)))
    PROVE  Ended(s)
<1> DEFINE r == SubSeq(s, k + 1, Len(s))
<1>1. Len(s) \in Nat /\ k \in 1..Len(s) /\ \A i \in 1..Len(s) : s[i] \in Items
  BY ElementOfSeq, LenProperties DEF Reads
<1>2. /\ r \in Seq(Items)
      /\ Len(r) = IF k + 1 <= Len(s) THEN Len(s) - k ELSE 0
      /\ \A i \in 1..Len(s) - k : r[i] = s[k + i]
  BY <1>1, SubSeqProperties
<1> HIDE DEF r
<1>3. Ended(r)
  BY DEF r
<1>4. Len(r) # 0
  BY <1>2, <1>3, EmptySeq DEF Ended
<1>5. Len(r) \in 1..Len(s) - k /\ k + Len(r) = Len(s)
  BY <1>1, <1>2, <1>4
<1>6. r[Len(r)] = s[Len(s)]
  BY <1>2, <1>5
<1>7. s # <<>>
  BY <1>1
<1> QED
  BY <1>3, <1>6, <1>7 DEF Ended

\* A stream that ends with a message has not ended.
LEMMA EndedJoin ==
    ASSUME NEW s \in Seq(Items), NEW q \in Queries
    PROVE  ~Ended(s \o Message(q))
<1>1. Message(q) \in Seq(Items) /\ Len(Message(q)) = 2 /\ Message(q)[2] = Rest(q)
  BY DEF Message, Head1, Rest, Items, Cells
<1> DEFINE w == Message(q)
<1> HIDE DEF w
<1>2. /\ w \in Seq(Items) /\ Len(w) = 2 /\ w[2] = Rest(q)
      /\ Len(s) \in Nat
  BY <1>1, LenProperties DEF w
<1>4. Len(s \o w) = Len(s) + 2
  <2>1. \A S : \A a, b \in Seq(S) : Len(a \o b) = Len(a) + Len(b)
    BY ConcatProperties
  <2> QED
    BY <1>2, <2>1
<1>5. (s \o w)[Len(s) + 2] = w[2]
  <2>1. Len(s) + 2 \in 1..Len(s) + Len(w) /\ ~(Len(s) + 2 <= Len(s)) /\ Len(s) + 2 - Len(s) = 2
    BY <1>2
  <2> QED
    BY <1>2, <2>1, ConcatProperties
<1>3. Rest(q).part # Fin.part
  BY DEF Rest, Fin
<1> QED
  BY <1>2, <1>3, <1>4, <1>5 DEF Ended, w

\* What has happened has happened.
LEMMA BrokenStays == ASSUME TypeOK, [Next]_vars, Broken PROVE Broken'
  BY DEF Broken, TypeOK, Next, System, Environment, Ask, NameServer, ClientAsk, ClientAnswer,
         ClientEof, ClientCtl, ClientRelogin, ClientExit, SrvHandleDns, SrvOther, SrvMainEof,
         WorkerTake, WorkerAsk, WorkerAnswer, WorkerEof, Reset, lifeVars, vars

\* Every step keeps EndInv.
LEMMA StepEnd == ASSUME TypeOK, EndInv, udpq \in Seq(asked), [Next]_vars PROVE EndInv'
<1>1. Broken => EndInv'
  BY BrokenStays DEF EndInv
<1>2. CASE ClientAsk
  <2>1. Head(udpq) \in Queries
    BY <1>2, HeadTailProperties DEF ClientAsk, TypeOK
  <2>2. Ended(up') => Ended(up)
    BY <1>2, <2>1, EndedJoin DEF ClientAsk, TypeOK
  <2> QED
    BY <1>1, <1>2, <2>2 DEF ClientAsk, EndInv, Ended, srvVars
<1>3. CASE ClientAnswer
  <2>1. PICK k \in Reads(dn) : dn' = SubSeq(dn, k + 1, Len(dn))
    BY <1>3 DEF ClientAnswer
  <2>2. Ended(dn') => Ended(dn)
    BY <2>1, EndedRest DEF TypeOK
  <2> QED
    BY <1>1, <1>3, <2>2 DEF ClientAnswer, EndInv, Ended, srvVars
<1>4. CASE ClientEof
  BY <1>1, <1>4 DEF ClientEof, EndInv
<1>5. CASE ClientRelogin \/ ClientExit \/ SrvMainEof \/ Reset
  BY <1>5 DEF ClientRelogin, ClientExit, SrvMainEof, Reset, EndInv, Broken, TypeOK
<1>6. CASE ClientCtl
  BY <1>1, <1>6 DEF ClientCtl, EndInv, Ended, srvVars
<1>7. CASE WorkerAsk
  <2>1. PICK k \in Reads(up) : up' = SubSeq(up, k + 1, Len(up))
    BY <1>7 DEF WorkerAsk
  <2>2. Ended(up') => Ended(up)
    BY <2>1, EndedRest DEF TypeOK
  <2> QED
    BY <1>1, <1>7, <2>2 DEF WorkerAsk, EndInv, Ended, cltVars
<1>8. CASE WorkerAnswer
  <2>1. PICK q \in Queries : dn' = dn \/ dn' = dn \o Message(q)
    BY <1>8 DEF WorkerAnswer, TypeOK
  <2>2. Ended(dn') => Ended(dn)
    BY <2>1, EndedJoin DEF TypeOK
  <2> QED
    BY <1>1, <1>8, <2>2 DEF WorkerAnswer, EndInv, Ended, cltVars
<1>9. CASE WorkerEof
  BY <1>1, <1>9 DEF WorkerEof, EndInv
<1>10. CASE SrvHandleDns \/ SrvOther \/ WorkerTake \/ UNCHANGED vars
  BY <1>1, <1>10
     DEF SrvHandleDns, SrvOther, WorkerTake, vars, EndInv, Ended, cltVars, srvVars
<1>11. ASSUME NEW q \in Queries, Ask(q) PROVE EndInv'
  BY <1>1, <1>11 DEF Ask, EndInv, Ended, cltVars, srvVars
<1>12. ASSUME NEW d \in pending, NameServer(d) PROVE EndInv'
  BY <1>1, <1>12 DEF NameServer, EndInv, Ended, cltVars
<1> QED
  BY <1>2, <1>3, <1>4, <1>5, <1>6, <1>7, <1>8, <1>9, <1>10, <1>11, <1>12
     DEF Next, System, Environment

\* Every step keeps ActInv.
LEMMA StepAct == ASSUME TypeOK, ActInv, [Next]_vars PROVE ActInv'
<1>1. CASE ClientCtl
  <2>1. PICK n \in 1..MaxBatch :
           /\ n <= Len(ctl.net) /\ Taken(n)
           /\ \/ HeadTaken(n) = "other" /\ UNCHANGED <<udp, trans>>
              \/ HeadTaken(n) = "dns" /\ trans # "freed" /\ udp' = TRUE /\ trans' = "serving"
              \/ HeadTaken(n) = "dns" /\ trans = "freed" /\ UNCHANGED <<udp, trans>>
    BY <1>1 DEF ClientCtl, Taken, HeadTaken
  <2>2. /\ Len(Headers) \in Nat \ {0} /\ HeadTaken(n) = Headers[1]
        /\ Len(Headers') = Len(Headers) - 1
        /\ \A i \in 1..Len(Headers') : Headers'[i] = Headers[i + 1]
    BY <2>1, HeaderTaken
  <2>3. UNCHANGED <<place, login, alive, delivered>>
    BY <1>1 DEF ClientCtl, srvVars, lifeVars
  <2> HIDE DEF Headers
  <2>4. DnsOnce(Headers') /\ (NoDns(Headers) => NoDns(Headers'))
    BY <2>2 DEF ActInv, DnsOnce, NoDns
  <2>5. Headers[1] = "dns" => NoDns(Headers') /\ ~NoDns(Headers)
    BY <2>2 DEF ActInv, DnsOnce, NoDns
  <2> QED
    BY <2>1, <2>2, <2>3, <2>4, <2>5 DEF ActInv, Early
<1>2. CASE SrvOther \/ WorkerTake
  <2>1. PICK h \in Kinds : Post(h) /\ (h = "dns" => WorkerTake)
    BY <1>2 DEF SrvOther, WorkerTake, Kinds
  <2>2. \/ Headers' = Headers
        \/ /\ Len(Headers) \in Nat /\ Len(Headers') = Len(Headers) + 1
           /\ \A i \in 1..Len(Headers) : Headers'[i] = Headers[i]
           /\ Headers'[Len(Headers) + 1] = h
    BY <2>1, HeaderPosted
  <2>3. UNCHANGED <<udp, trans, delivered, login, alive>>
    BY <1>2 DEF SrvOther, WorkerTake, cltVars, lifeVars
  <2> HIDE DEF Headers
  <2>4. DnsOnce(Headers) /\ NoDns(Headers) => DnsOnce(Headers')
    BY <2>2 DEF DnsOnce, NoDns
  <2>5. h # "dns" => /\ DnsOnce(Headers) => DnsOnce(Headers')
                     /\ NoDns(Headers) => NoDns(Headers')
    BY <2>2 DEF DnsOnce, NoDns
  <2>6. CASE WorkerTake
    BY <2>3, <2>4, <2>6 DEF WorkerTake, ActInv, Early
  <2>7. CASE SrvOther /\ h # "dns"
    BY <2>3, <2>5, <2>7 DEF SrvOther, srvVars, ActInv, Early
  <2> QED
    BY <1>2, <2>1, <2>6, <2>7
<1>3. CASE ClientRelogin
  <2>1. Headers' = <<>>
    BY <1>3 DEF ClientRelogin, Headers
  <2>2. DnsOnce(Headers') /\ NoDns(Headers')
    BY <2>1 DEF DnsOnce, NoDns
  <2>3. login' # 1
    BY <1>3 DEF ClientRelogin, TypeOK
  <2> QED
    BY <1>3, <2>2, <2>3 DEF ClientRelogin, ScFree, srvVars, ActInv, Early
<1>4. CASE ctl' = ctl /\ login' = login
  <2>1. Headers' = Headers
    BY <1>4 DEF Headers
  <2> HIDE DEF Headers
  <2>2. CASE ClientAsk \/ ClientAnswer \/ ClientEof \/ ClientExit
    BY <1>4, <2>1, <2>2
       DEF ClientAsk, ClientAnswer, ClientEof, ClientExit, ScFree, srvVars, lifeVars,
           ActInv, Early
  <2>3. CASE SrvHandleDns \/ SrvMainEof \/ WorkerAsk \/ WorkerAnswer \/ WorkerEof
    BY <1>4, <2>1, <2>3
       DEF SrvHandleDns, SrvMainEof, WorkerAsk, WorkerAnswer, WorkerEof, SsFree, cltVars,
           lifeVars, ActInv, Early
  <2>4. ASSUME \/ \E q \in Queries : Ask(q)
               \/ \E d \in pending : NameServer(d)
               \/ Reset \/ UNCHANGED vars
        PROVE  ActInv'
    BY <1>4, <2>1, <2>4
       DEF Ask, NameServer, Reset, vars, cltVars, srvVars, lifeVars, ActInv, Early
  <2> QED
    BY <1>1, <1>2, <1>3, <2>2, <2>3, <2>4 DEF Next, System, Environment
<1> QED
  BY <1>1, <1>2, <1>3, <1>4
     DEF Next, System, Environment, Ask, NameServer, ClientAsk, ClientAnswer, ClientEof,
         ClientExit, SrvHandleDns, SrvMainEof, WorkerAsk, WorkerAnswer, WorkerEof, Reset,
         lifeVars, vars

\* Only an index past the table is as large as the table.
LEMMA Bytes ==
    ASSUME NEW h \in 0..255, NEW l \in 0..255
    PROVE  /\ h * 256 + l >= 65535 => l = 255
           /\ 255 * 256 + l >= 65535 => l = 255
  OBVIOUS

\* Only an id whose low byte is 255 is behind the table.
LEMMA Overrun == ASSUME NEW x \in Byte \X Byte, Index(x) >= TableSize PROVE x[2] = 255
<1>1. PICK h \in 0..255, l \in 0..255 : h = x[1] /\ l = x[2]
  BY DEF Byte
<1>2. Index(x) = 255 * 256 + l \/ Index(x) = h * 256 + l
  BY <1>1 DEF Index
<1>3. /\ h * 256 + l >= 65535 => l = 255
      /\ 255 * 256 + l >= 65535 => l = 255
  BY Bytes
<1> HIDE DEF Index
<1>4. 255 * 256 + l >= 65535 \/ h * 256 + l >= 65535
  BY <1>2 DEF TableSize
<1> QED
  BY <1>1, <1>3, <1>4

\* Under the invariants a step leads to a fault only in the ways that NoAbort allows.
LEMMA StepAbort ==
    ASSUME Inv, EndInv, ActInv, NoAbort, [Next]_vars
    PROVE  NoAbort'
<1>1. CASE UNCHANGED vars
  BY <1>1 DEF vars, NoAbort, Broken, askVars, cltVars, lifeVars
<1>2. CASE Ok /\ fault' = fault
  BY <1>2 DEF Ok, NoAbort
<1>3. CASE Ok /\ ClientAsk /\ fault' # fault
  <2>1. CASE fault' = "overrun"
    <3>1. Head(udpq) \in asked /\ asked \subseteq Queries /\ Slot(Head(udpq)) >= TableSize
      BY <1>3, <2>1, HeadTailProperties DEF Ok, ClientAsk, Inv, TypeOK
    <3>2. id[Head(udpq)] \in Byte \X Byte
      BY <3>1, IdsAssumption DEF Inv, TypeOK
    <3>3. id[Head(udpq)][2] = 255
      BY <3>1, <3>2, Overrun DEF Slot
    <3>4. id' = id /\ asked' = asked
      BY <1>3 DEF ClientAsk
    <3> QED
      BY <2>1, <3>1, <3>3, <3>4 DEF NoAbort
  <2>2. CASE fault' = "client_freed"
    BY <1>3, <2>2 DEF Ok, ClientAsk, EndInv, Broken, lifeVars, NoAbort
  <2> QED
    BY <1>3, <2>1, <2>2 DEF ClientAsk
<1>4. CASE Ok /\ ClientCtl /\ fault' # fault
  <2>1. PICK n \in 1..MaxBatch : /\ n <= Len(ctl.net) /\ Taken(n)
                                 /\ HeadTaken(n) = "dns" /\ trans = "freed"
    BY <1>4 DEF ClientCtl, Taken, HeadTaken
  <2>2. Len(Headers) \in Nat \ {0} /\ Headers[1] = "dns"
    BY <2>1, HeaderTaken DEF Inv
  <2>3. login # 1
    BY <1>4, <2>1, <2>2 DEF ClientCtl, ActInv, NoDns
  <2>4. login \in 1..MaxLogins /\ MaxLogins \in Nat
    BY BoundsAssumption DEF Inv, TypeOK
  <2>5. login > 1
    BY <2>3, <2>4
  <2>6. fault' = "null_trans" /\ login' = login
    BY <1>4 DEF ClientCtl, lifeVars
  <2> QED
    BY <2>5, <2>6 DEF NoAbort
<1>5. CASE Ok /\ SrvMainEof /\ fault' # fault
  BY <1>5 DEF SrvMainEof, ActInv, Early, cltVars, NoAbort
<1>6. CASE Ok /\ WorkerAnswer /\ fault' # fault
  BY <1>6 DEF WorkerAnswer, EndInv, Broken, lifeVars, NoAbort
<1> QED
  BY <1>1, <1>2, <1>3, <1>4, <1>5, <1>6
     DEF Next, System, Environment, Ask, NameServer, ClientAnswer, ClientEof,
         ClientRelogin, ClientExit, SrvHandleDns, SrvOther, WorkerTake, WorkerAsk,
         WorkerEof, Reset

\* These invariants hold at the start.
LEMMA InitAccess == Init => EndInv /\ ActInv /\ NoAbort
<1> SUFFICES ASSUME Init PROVE EndInv /\ ActInv /\ NoAbort
  OBVIOUS
<1>1. Headers = <<>>
  BY DEF Init, Headers
<1>2. DnsOnce(Headers) /\ NoDns(Headers)
  BY <1>1 DEF DnsOnce, NoDns
<1> QED
  BY <1>2 DEF Init, EndInv, Ended, ActInv, Early, NoAbort

\* An invalid access needs what NoAbort names: a second login for the NULL
\* trans of DNS_ACT, a lost connection or session for the use of a freed one,
\* a session that ends before the proxy has served for the double free, and an
\* id that ends in 255 for the write past the table.
THEOREM AccessesBounded == Spec => []NoAbort
<1>1. Inv /\ EndInv /\ ActInv /\ NoAbort /\ [Next]_vars
        => (EndInv /\ ActInv /\ NoAbort)'
  BY StepEnd, StepAct, StepAbort DEF Inv
<1> QED
  BY <1>1, InitAccess, SpecInv, PTL DEF Spec

=============================================================================
