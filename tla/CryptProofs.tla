----------------------------- MODULE CryptProofs ----------------------------
(***************************************************************************)
(* Proofs about Crypt: its type invariant, and that text comes out as it   *)
(* went in unless two threads of a process were keying at once.            *)
(*                                                                         *)
(* The argument has two halves.  The bytes of a direction that are on the  *)
(* wire are those between the positions of its two contexts (Balanced),    *)
(* whatever the frames.  And while no two threads of a process key         *)
(* at once (Alone), the buffer of MD5() holds the digest of the context    *)
(* that is being keyed (OwnDigest), so that every context is keyed for its *)
(* own connection (OwnKey) and the ends of a direction agree (WireKey).    *)
(***************************************************************************)
EXTENDS Crypt, SequenceTheorems, TLAPS

Keys == Trans \cup NoKeys
Byte == [key : Keys, pos : Nat, text : Nat]

\* The contexts at the two ends of a direction.
EncOf(f) == <<IF f[2] = "up" THEN "client" ELSE "server", f[1], f[2]>>
DecOf(f) == <<IF f[2] = "up" THEN "server" ELSE "client", f[1], f[2]>>

\* A thread keys a context of its own, which is not keyed yet.
Doing ==
    \A s \in Sides, th \in Threads : doing[s][th] # Idle =>
        LET c == doing[s][th][1] IN c[1] = s /\ Thread(c) = th /\ key[c] = "unkeyed"

\* A context that was never used is at the start of its stream.
AtStart == \A c \in Contexts : key[c] \in {"new", "unkeyed"} => pos[c] = 0

\* What is on the wire lies between the positions of the two ends.
Balanced ==
    \A f \in Flows :
        /\ pos[EncOf(f)] = pos[DecOf(f)] + Len(wire[f])
        /\ Len(got[f]) = pos[DecOf(f)]
        /\ \A i \in 1..Len(wire[f]) : wire[f][i].text = pos[DecOf(f)] + i

\* In a process that has not been met by two threads one at most is keying.
Alone ==
    \A s \in Sides \ met : \A th, other \in Threads :
        doing[s][th] # Idle /\ doing[s][other] # Idle => th = other

\* It finds the digest it has computed.
OwnDigest ==
    \A s \in Sides \ met : \A th \in Threads :
        doing[s][th] # Idle /\ doing[s][th][2] = "init" => digest[s] = doing[s][th][1][2]

OwnKey == \A c \in Contexts : c[1] \notin met => key[c] \in {c[2], "new", "unkeyed", "freed"}

WireKey ==
    met = {} => \A f \in Flows : \A i \in 1..Len(wire[f]) :
        wire[f][i].key = f[1] /\ wire[f][i].pos = pos[DecOf(f)] + i

KeyInv == Doing /\ AtStart /\ Alone /\ OwnDigest /\ OwnKey
Inv    == TypeOK /\ KeyInv /\ Balanced /\ WireKey /\ Deciphers

-----------------------------------------------------------------------------
\* The two ends of a direction are contexts, one of which encrypts; there is
\* no third.
LEMMA Ends ==
    /\ \A f \in Flows : /\ EncOf(f) \in Contexts /\ Encrypts(EncOf(f)) /\ Flow(EncOf(f)) = f
                        /\ DecOf(f) \in Contexts /\ ~Encrypts(DecOf(f)) /\ Flow(DecOf(f)) = f
    /\ \A c \in Contexts : /\ Flow(c) \in Flows
                           /\ c = IF Encrypts(c) THEN EncOf(Flow(c)) ELSE DecOf(Flow(c))
                           /\ c[1] \in Sides /\ c[2] \in Trans /\ Flow(c)[1] = c[2]
                           /\ Thread(c) \in Threads
  BY FlowAssumption, ThreadAssumption
  DEF Contexts, Sides, Dirs, Encrypts, Flow, EncOf, DecOf, Thread

\* n elements written behind a sequence.
LEMMA Behind ==
    ASSUME NEW S, NEW s \in Seq(S), NEW n \in Nat, NEW g \in [1..n -> S]
    PROVE  /\ s \o g \in Seq(S) /\ Len(s \o g) = Len(s) + n
           /\ \A i \in 1..Len(s) : (s \o g)[i] = s[i]
           /\ \A i \in 1..n : (s \o g)[Len(s) + i] = g[i]
<1>1. g \in Seq(S) /\ Len(g) = n
  OBVIOUS
<1> QED
  BY <1>1

\* n elements taken from the front of a sequence.
LEMMA Front ==
    ASSUME NEW S, NEW s \in Seq(S), NEW n \in 1..Len(s)
    PROVE  LET r == SubSeq(s, n + 1, Len(s)) IN
           /\ r \in Seq(S) /\ Len(r) = Len(s) - n
           /\ \A i \in 1..Len(r) : r[i] = s[n + i]
<1> DEFINE r == SubSeq(s, n + 1, Len(s))
<1>1. r \in Seq(S) /\ Len(r) = Len(s) - n
  OBVIOUS
<1>2. \A i \in 1..Len(r) : r[i] = s[n + i]
  BY <1>1
<1> QED
  BY <1>1, <1>2

\* A frame has at least one byte, and no more than have come.
LEMMA FrameSize ==
    ASSUME TypeOK, NEW c \in Contexts, NEW n \in Frame(c)
    PROVE  n \in Nat \ {0} /\ (~Encrypts(c) => n \in 1..Len(wire[Flow(c)]))
  BY BoundAssumption, Ends DEF Frame, TypeOK

-----------------------------------------------------------------------------
\* encrypt() puts the frame behind what is on the wire.
LEMMA EncryptStep ==
    ASSUME TypeOK, Balanced, NEW c \in Contexts, Encrypts(c), NEW n \in Frame(c),
           NEW k \in Keys, Update(c, n, k, pos[c])
    PROVE  /\ pos' \in [Contexts -> Nat] /\ wire' \in [Flows -> Seq(Byte)] /\ got' = got
           /\ Balanced'
           /\ WireKey /\ (met = {} => k = c[2]) /\ met' = met => WireKey'
<1> DEFINE f == Flow(c)
           p == pos[c]
           g == [i \in 1..n |-> [key |-> k, pos |-> p + i, text |-> p + i]]
<1>1. n \in Nat /\ p \in Nat /\ f \in Flows /\ c = EncOf(f) /\ f[1] = c[2]
  BY FrameSize, Ends DEF TypeOK
<1>2. g \in [1..n -> Byte]
  BY <1>1 DEF Byte
<1>3. /\ pos' = [pos EXCEPT ![c] = p + n]
      /\ wire' = [wire EXCEPT ![f] = @ \o g]
      /\ got' = got
  BY <1>1 DEF Update
<1> HIDE DEF g
<1>4. wire[f] \in Seq(Byte)
  BY <1>1 DEF TypeOK, Byte, Keys
<1>5. /\ wire'[f] \in Seq(Byte) /\ Len(wire'[f]) = Len(wire[f]) + n
      /\ \A i \in 1..Len(wire[f]) : wire'[f][i] = wire[f][i]
      /\ \A i \in 1..n : wire'[f][Len(wire[f]) + i] = g[i]
  BY <1>1, <1>2, <1>3, <1>4, Behind DEF TypeOK
<1>6. \A h \in Flows : h # f => wire'[h] = wire[h]
  BY <1>3 DEF TypeOK
<1>7. \A h \in Flows : /\ pos'[DecOf(h)] = pos[DecOf(h)]
                        /\ pos'[EncOf(h)] = IF h = f THEN p + n ELSE pos[EncOf(h)]
  BY <1>1, <1>3, Ends DEF TypeOK
<1>8. pos' \in [Contexts -> Nat] /\ wire' \in [Flows -> Seq(Byte)]
  <2>1. pos' \in [Contexts -> Nat]
    BY <1>1, <1>3 DEF TypeOK
  <2>2. wire \in [Flows -> Seq(Byte)]
    BY DEF TypeOK, Byte, Keys
  <2>3. \A h \in Flows : wire'[h] \in Seq(Byte)
    BY <1>5, <1>6, <2>2
  <2> QED
    BY <1>3, <2>1, <2>2, <2>3
<1>9. \A h \in Flows : pos[DecOf(h)] \in Nat /\ Len(wire[h]) \in Nat
  BY Ends DEF TypeOK
<1>10. p = pos[DecOf(f)] + Len(wire[f])
  BY <1>1 DEF Balanced
\* The new bytes carry the positions that follow those of the old ones.
<1>11. \A i \in 1..Len(wire'[f]) :
         \/ i \in 1..Len(wire[f]) /\ wire'[f][i] = wire[f][i]
         \/ wire'[f][i] = [key |-> k, pos |-> pos[DecOf(f)] + i, text |-> pos[DecOf(f)] + i]
  <2> SUFFICES ASSUME NEW i \in 1..Len(wire'[f]), i \notin 1..Len(wire[f])
               PROVE  wire'[f][i] = [key |-> k, pos |-> pos[DecOf(f)] + i,
                                     text |-> pos[DecOf(f)] + i]
    BY <1>5
  <2> DEFINE j == i - Len(wire[f])
  <2>1. j \in 1..n /\ i = Len(wire[f]) + j /\ p + j = pos[DecOf(f)] + i
    BY <1>1, <1>5, <1>9, <1>10
  <2>2. wire'[f][i] = g[j]
    BY <1>5, <2>1
  <2> QED
    BY <2>1, <2>2 DEF g
<1>12. Balanced'
  <2> SUFFICES ASSUME NEW h \in Flows
               PROVE  /\ pos'[EncOf(h)] = pos'[DecOf(h)] + Len(wire'[h])
                      /\ Len(got'[h]) = pos'[DecOf(h)]
                      /\ \A i \in 1..Len(wire'[h]) : wire'[h][i].text = pos'[DecOf(h)] + i
    BY DEF Balanced, EncOf, DecOf
  <2>1. CASE h = f
    <3>1. pos'[EncOf(f)] = pos'[DecOf(f)] + Len(wire'[f])
      BY <1>1, <1>5, <1>7, <1>9, <1>10
    <3>2. Len(got'[f]) = pos'[DecOf(f)]
      BY <1>1, <1>3, <1>7 DEF Balanced
    <3>3. ASSUME NEW i \in 1..Len(wire'[f]) PROVE wire'[f][i].text = pos'[DecOf(f)] + i
      <4>1. CASE i \in 1..Len(wire[f]) /\ wire'[f][i] = wire[f][i]
        BY <1>1, <1>7, <4>1 DEF Balanced
      <4>2. CASE wire'[f][i] = [key |-> k, pos |-> pos[DecOf(f)] + i, text |-> pos[DecOf(f)] + i]
        BY <1>1, <1>7, <4>2
      <4> QED
        BY <1>11, <4>1, <4>2
    <3> QED
      BY <2>1, <3>1, <3>2, <3>3
  <2>2. CASE h # f
    BY <1>3, <1>6, <1>7, <2>2 DEF Balanced
  <2> QED
    BY <2>1, <2>2
<1>13. ASSUME WireKey, met = {} => k = c[2], met' = met PROVE WireKey'
  <2> SUFFICES ASSUME met = {}, NEW h \in Flows, NEW i \in 1..Len(wire'[h])
               PROVE  wire'[h][i].key = h[1] /\ wire'[h][i].pos = pos'[DecOf(h)] + i
    BY <1>13 DEF WireKey, DecOf
  <2>1. CASE h = f
    <3>1. CASE i \in 1..Len(wire[f]) /\ wire'[f][i] = wire[f][i]
      BY <1>1, <1>7, <1>13, <2>1, <3>1 DEF WireKey
    <3>2. CASE wire'[f][i] = [key |-> k, pos |-> pos[DecOf(f)] + i, text |-> pos[DecOf(f)] + i]
      BY <1>1, <1>7, <1>13, <2>1, <3>2
    <3> QED
      BY <1>11, <2>1, <3>1, <3>2
  <2>2. CASE h # f
    BY <1>6, <1>7, <1>13, <2>2 DEF WireKey
  <2> QED
    BY <2>1, <2>2
<1> QED
  BY <1>3, <1>8, <1>12, <1>13

\* decrypt() takes a frame from the wire.
LEMMA DecryptStep ==
    ASSUME TypeOK, Balanced, NEW c \in Contexts, ~Encrypts(c), NEW n \in Frame(c),
           NEW k \in Keys, Update(c, n, k, pos[c])
    PROVE  /\ pos' \in [Contexts -> Nat] /\ wire' \in [Flows -> Seq(Byte)]
           /\ got' \in [Flows -> Seq(Nat)]
           /\ Balanced'
           /\ WireKey /\ met' = met => WireKey'
           /\ WireKey /\ Deciphers /\ (met = {} => k = c[2]) /\ met' = met => Deciphers'
<1> DEFINE f == Flow(c)
           p == pos[c]
           g == [i \in 1..n |-> IF wire[f][i].key = k /\ wire[f][i].pos = p + i
                                THEN wire[f][i].text ELSE 0]
<1>1. /\ n \in 1..Len(wire[f]) /\ n \in Nat /\ p \in Nat /\ f \in Flows /\ c = DecOf(f)
      /\ f[1] = c[2]
  BY FrameSize, Ends DEF TypeOK
<1>2. /\ pos' = [pos EXCEPT ![c] = p + n]
      /\ got' = [got EXCEPT ![f] = @ \o g]
      /\ wire' = [wire EXCEPT ![f] = SubSeq(@, n + 1, Len(@))]
  BY <1>1 DEF Update
<1>3. wire \in [Flows -> Seq(Byte)] /\ wire[f] \in Seq(Byte) /\ got[f] \in Seq(Nat)
  BY <1>1 DEF TypeOK, Byte, Keys
<1>4. g \in [1..n -> Nat]
  <2>1. \A i \in 1..n : i \in 1..Len(wire[f])
    BY <1>1, <1>3
  <2>2. \A i \in 1..n : wire[f][i] \in Byte
    BY <1>3, <2>1
  <2>3. \A i \in 1..n : wire[f][i].text \in Nat
    BY <2>2 DEF Byte
  <2> QED
    BY <1>1, <2>3
<1>5. /\ wire'[f] \in Seq(Byte) /\ Len(wire'[f]) = Len(wire[f]) - n
      /\ \A i \in 1..Len(wire'[f]) : wire'[f][i] = wire[f][n + i]
  BY <1>1, <1>2, <1>3, Front
<1>6. /\ got'[f] \in Seq(Nat) /\ Len(got'[f]) = Len(got[f]) + n
      /\ \A i \in 1..Len(got[f]) : got'[f][i] = got[f][i]
      /\ \A i \in 1..n : got'[f][Len(got[f]) + i] = g[i]
  <2> HIDE DEF g
  <2>1. got'[f] = got[f] \o g
    BY <1>1, <1>2 DEF TypeOK
  <2> QED
    BY <1>1, <1>3, <1>4, <2>1, Behind
<1>7. \A h \in Flows : h # f => wire'[h] = wire[h] /\ got'[h] = got[h]
  BY <1>2 DEF TypeOK
<1>8. \A h \in Flows : /\ pos'[EncOf(h)] = pos[EncOf(h)]
                        /\ pos'[DecOf(h)] = IF h = f THEN p + n ELSE pos[DecOf(h)]
  BY <1>1, <1>2, Ends DEF TypeOK
<1>9. /\ pos' \in [Contexts -> Nat] /\ wire' \in [Flows -> Seq(Byte)]
      /\ got' \in [Flows -> Seq(Nat)]
  <2>1. pos' \in [Contexts -> Nat]
    BY <1>1, <1>2 DEF TypeOK
  <2>2. \A h \in Flows : wire'[h] \in Seq(Byte) /\ got'[h] \in Seq(Nat)
    BY <1>3, <1>5, <1>6, <1>7 DEF TypeOK
  <2>3. wire' = [h \in Flows |-> wire'[h]] /\ got' = [h \in Flows |-> got'[h]]
    <3> HIDE DEF g
    <3> QED
      BY <1>2, <1>3 DEF TypeOK
  <2> QED
    BY <2>1, <2>2, <2>3
<1>10. \A h \in Flows : pos[EncOf(h)] \in Nat /\ Len(wire[h]) \in Nat
  BY Ends DEF TypeOK
<1>11. Balanced'
  <2> SUFFICES ASSUME NEW h \in Flows
               PROVE  /\ pos'[EncOf(h)] = pos'[DecOf(h)] + Len(wire'[h])
                      /\ Len(got'[h]) = pos'[DecOf(h)]
                      /\ \A i \in 1..Len(wire'[h]) : wire'[h][i].text = pos'[DecOf(h)] + i
    BY DEF Balanced, EncOf, DecOf
  <2>1. CASE h = f
    <3>1. pos[EncOf(f)] = p + Len(wire[f]) /\ Len(got[f]) = p
      BY <1>1 DEF Balanced
    <3>2. \A i \in 1..Len(wire'[f]) : wire'[f][i].text = p + n + i
      <4> SUFFICES ASSUME NEW i \in 1..Len(wire'[f]) PROVE wire'[f][i].text = p + n + i
        OBVIOUS
      <4>1. n + i \in 1..Len(wire[f]) /\ wire'[f][i] = wire[f][n + i]
        BY <1>1, <1>3, <1>5
      <4>2. wire[f][n + i].text = p + (n + i)
        BY <1>1, <4>1 DEF Balanced
      <4> QED
        BY <1>1, <1>3, <1>5, <4>1, <4>2
    <3>3. pos'[EncOf(f)] = pos'[DecOf(f)] + Len(wire'[f])
      BY <1>1, <1>5, <1>8, <1>10, <3>1
    <3>4. Len(got'[f]) = pos'[DecOf(f)]
      BY <1>1, <1>6, <1>8, <3>1
    <3>5. pos'[DecOf(f)] = p + n
      BY <1>1, <1>8
    <3> QED
      BY <2>1, <3>2, <3>3, <3>4, <3>5
  <2>2. CASE h # f
    BY <1>7, <1>8, <2>2 DEF Balanced
  <2> QED
    BY <2>1, <2>2
<1>12. ASSUME WireKey, met' = met PROVE WireKey'
  <2> SUFFICES ASSUME met = {}, NEW h \in Flows, NEW i \in 1..Len(wire'[h])
               PROVE  wire'[h][i].key = h[1] /\ wire'[h][i].pos = pos'[DecOf(h)] + i
    BY <1>12 DEF WireKey, DecOf
  <2>1. CASE h = f
    <3>1. n + i \in 1..Len(wire[f]) /\ wire'[f][i] = wire[f][n + i]
      BY <1>1, <1>5, <1>10, <2>1
    <3> QED
      BY <1>1, <1>8, <1>12, <2>1, <3>1 DEF WireKey
  <2>2. CASE h # f
    BY <1>7, <1>8, <1>12, <2>2 DEF WireKey
  <2> QED
    BY <2>1, <2>2
<1>13. ASSUME WireKey, Deciphers, met = {} => k = c[2], met' = met PROVE Deciphers'
  <2> SUFFICES ASSUME met = {}, NEW h \in Flows, NEW i \in 1..Len(got'[h])
               PROVE  got'[h][i] = i
    BY <1>13 DEF Deciphers
  <2>1. CASE h # f
    BY <1>7, <1>13, <2>1 DEF Deciphers
  <2>2. CASE h = f /\ i \in 1..Len(got[f])
    BY <1>6, <1>13, <2>2 DEF Deciphers
  <2>3. CASE h = f /\ i \notin 1..Len(got[f])
    <3> DEFINE j == i - Len(got[f])
    <3>1. Len(got[f]) = p /\ Len(got'[f]) = p + n
      BY <1>1, <1>6 DEF Balanced
    <3>2. i \in 1..Len(got'[f]) /\ i \notin 1..Len(got[f])
      BY <2>3
    <3>3. j \in 1..n /\ i = Len(got[f]) + j
      <4> HIDE DEF p
      <4> QED
        BY <1>1, <3>1, <3>2
    <3>4. j \in 1..Len(wire[f])
      BY <1>1, <1>10, <3>3
    <3>5. wire[f][j].key = k /\ wire[f][j].pos = p + j /\ wire[f][j].text = p + j
      BY <1>1, <1>13, <3>4 DEF WireKey, Balanced
    <3> QED
      BY <1>6, <2>3, <3>1, <3>3, <3>5
  <2> QED
    BY <2>1, <2>2, <2>3
<1> QED
  BY <1>9, <1>11, <1>12, <1>13

-----------------------------------------------------------------------------
\* The processes start with contexts of no connection.
LEMMA InitInv == Init => Inv
<1> SUFFICES ASSUME Init PROVE Inv
  OBVIOUS
<1>1. TypeOK
  BY EmptySeq DEF Init, TypeOK, NoKeys
<1>2. KeyInv
  BY DEF Init, KeyInv, Doing, AtStart, Alone, OwnDigest, OwnKey, Idle
<1>3. Balanced /\ WireKey /\ Deciphers
  BY Ends, EmptySeq DEF Init, Balanced, WireKey, Deciphers
<1> QED
  BY <1>1, <1>2, <1>3 DEF Inv

\* A thread that keys has a context of its own and has computed its digest or
\* is about to.
LEMMA Keying ==
    ASSUME TypeOK, NEW c \in Contexts, NEW step, At(c, step)
    PROVE  /\ c[1] \in Sides /\ Thread(c) \in Threads /\ doing[c[1]][Thread(c)] # Idle
           /\ doing[c[1]][Thread(c)][1] = c /\ doing[c[1]][Thread(c)][2] = step
  BY Ends DEF At, Idle

\* The contexts of one end are renewed or closed while no thread keys them.
LEMMA RenewStep ==
    ASSUME Inv, NEW s \in Sides, NEW t \in Trans, CtxInit(s, t) \/ CtxFree(s, t)
    PROVE  Inv'
<1>1. /\ \E x \in {"unkeyed", "freed"} :
            /\ key' = [c \in Contexts |-> IF c \in Both(s, t) THEN x ELSE key[c]]
            /\ x = "unkeyed" => \A c \in Both(s, t) : key[c] = "new"
      /\ \A c \in Both(s, t) : Free(c)
      /\ UNCHANGED <<pos, digest, doing, wire, got, met>>
  BY DEF CtxInit, CtxFree
<1>2. TypeOK'
  BY <1>1 DEF Inv, TypeOK, NoKeys
<1>3. Doing'
  <2> SUFFICES ASSUME NEW x \in Sides, NEW th \in Threads, doing[x][th] # Idle
               PROVE  LET c == doing[x][th][1] IN
                      c[1] = x /\ Thread(c) = th /\ key'[c] = "unkeyed"
    BY <1>1 DEF Doing, Thread
  <2> DEFINE c == doing[x][th][1]
  <2>1. c[1] = x /\ Thread(c) = th /\ key[c] = "unkeyed" /\ c \in Contexts
    BY DEF Inv, KeyInv, Doing, TypeOK
  <2>2. c \notin Both(s, t)
    BY <1>1, <2>1 DEF Free
  <2> QED
    BY <1>1, <2>1, <2>2
<1>4. AtStart' /\ OwnKey'
  BY <1>1 DEF Inv, KeyInv, AtStart, OwnKey, TypeOK
<1>5. Alone' /\ OwnDigest'
  BY <1>1 DEF Inv, KeyInv, Alone, OwnDigest
<1>6. (Balanced /\ WireKey /\ Deciphers)'
  BY <1>1 DEF Inv, Balanced, WireKey, Deciphers, EncOf, DecOf
<1> QED
  BY <1>2, <1>3, <1>4, <1>5, <1>6 DEF Inv, KeyInv

\* A first frame: the thread is alone, or its process is met from now on.
LEMMA BeginStep ==
    ASSUME Inv, NEW c \in Contexts, Begin(c)
    PROVE  Inv'
<1>1. /\ doing' = [doing EXCEPT ![c[1]][Thread(c)] = <<c, "md5">>]
      /\ met' = IF Others(c) = {} THEN met ELSE met \cup {c[1]}
      /\ key[c] = "unkeyed" /\ doing[c[1]][Thread(c)] = Idle
      /\ UNCHANGED <<key, pos, digest, wire, got>>
      /\ c[1] \in Sides /\ Thread(c) \in Threads
  BY Ends DEF Begin, Free
<1>2. TypeOK'
  <2>1. met' \subseteq Sides
    BY <1>1 DEF Inv, TypeOK
  <2>2. <<c, "md5">> \in Contexts \X Steps
    BY DEF Steps
  <2> QED
    BY <1>1, <2>1, <2>2 DEF Inv, TypeOK
<1>3. \A s \in Sides, th \in Threads :
        doing'[s][th] = IF s = c[1] /\ th = Thread(c) THEN <<c, "md5">> ELSE doing[s][th]
  BY <1>1 DEF Inv, TypeOK
<1>4. Doing'
  <2> SUFFICES ASSUME NEW s \in Sides, NEW th \in Threads, doing'[s][th] # Idle
               PROVE  LET d == doing'[s][th][1] IN
                      d[1] = s /\ Thread(d) = th /\ key'[d] = "unkeyed"
    BY DEF Doing, Thread
  <2>1. CASE s = c[1] /\ th = Thread(c)
    BY <1>1, <1>3, <2>1
  <2>2. CASE ~(s = c[1] /\ th = Thread(c))
    BY <1>1, <1>3, <2>2 DEF Inv, KeyInv, Doing
  <2> QED
    BY <2>1, <2>2
<1>5. AtStart' /\ OwnKey'
  BY <1>1 DEF Inv, KeyInv, AtStart, OwnKey
<1>6. Alone'
  <2> SUFFICES ASSUME NEW s \in Sides \ met', NEW th \in Threads, NEW other \in Threads,
                      doing'[s][th] # Idle, doing'[s][other] # Idle
               PROVE  th = other
    BY DEF Alone
  <2>1. CASE s = c[1]
    BY <1>1, <1>3, <2>1 DEF Others
  <2>2. CASE s # c[1]
    BY <1>1, <1>3, <2>2 DEF Inv, KeyInv, Alone
  <2> QED
    BY <2>1, <2>2
<1>7. OwnDigest'
  BY <1>1, <1>3 DEF Inv, KeyInv, OwnDigest
<1>8. (Balanced /\ WireKey /\ Deciphers)'
  BY <1>1 DEF Inv, Balanced, WireKey, Deciphers, EncOf, DecOf
<1> QED
  BY <1>2, <1>4, <1>5, <1>6, <1>7, <1>8 DEF Inv, KeyInv

\* MD5() leaves the digest of the context that is being keyed.
LEMMA Md5Step ==
    ASSUME Inv, NEW c \in Contexts, Md5(c)
    PROVE  Inv'
<1>1. /\ doing' = [doing EXCEPT ![c[1]][Thread(c)] = <<c, "init">>]
      /\ digest' = [digest EXCEPT ![c[1]] = c[2]]
      /\ doing[c[1]][Thread(c)] # Idle /\ doing[c[1]][Thread(c)][1] = c
      /\ UNCHANGED <<key, pos, wire, got, met>>
      /\ c[1] \in Sides /\ c[2] \in Trans /\ Thread(c) \in Threads
  BY Ends, Keying DEF Md5, Inv
<1>2. TypeOK'
  <2>1. <<c, "init">> \in Contexts \X Steps
    BY DEF Steps
  <2> QED
    BY <1>1, <2>1 DEF Inv, TypeOK
<1>3. \A s \in Sides, th \in Threads :
        doing'[s][th] = IF s = c[1] /\ th = Thread(c) THEN <<c, "init">> ELSE doing[s][th]
  BY <1>1 DEF Inv, TypeOK
<1>4. key[c] = "unkeyed"
  BY <1>1 DEF Inv, KeyInv, Doing
<1>5. Doing'
  <2> SUFFICES ASSUME NEW s \in Sides, NEW th \in Threads, doing'[s][th] # Idle
               PROVE  LET d == doing'[s][th][1] IN
                      d[1] = s /\ Thread(d) = th /\ key'[d] = "unkeyed"
    BY DEF Doing, Thread
  <2>1. CASE s = c[1] /\ th = Thread(c)
    BY <1>1, <1>3, <1>4, <2>1
  <2>2. CASE ~(s = c[1] /\ th = Thread(c))
    BY <1>1, <1>3, <1>4, <2>2 DEF Inv, KeyInv, Doing
  <2> QED
    BY <2>1, <2>2
<1>6. AtStart' /\ OwnKey'
  BY <1>1 DEF Inv, KeyInv, AtStart, OwnKey
<1>7. \A s \in Sides, th \in Threads : doing'[s][th] # Idle <=> doing[s][th] # Idle
  BY <1>1, <1>3 DEF Idle
<1>8. Alone'
  BY <1>1, <1>7 DEF Inv, KeyInv, Alone
<1>9. OwnDigest'
  <2> SUFFICES ASSUME NEW s \in Sides \ met, NEW th \in Threads,
                      doing'[s][th] # Idle, doing'[s][th][2] = "init"
               PROVE  digest'[s] = doing'[s][th][1][2]
    BY <1>1 DEF OwnDigest
  <2>1. CASE s = c[1]
    <3>1. th = Thread(c)
      BY <1>1, <1>7, <2>1 DEF Inv, KeyInv, Alone
    <3> QED
      BY <1>1, <1>3, <2>1, <3>1 DEF Inv, TypeOK
  <2>2. CASE s # c[1]
    BY <1>1, <1>3, <2>2 DEF Inv, KeyInv, OwnDigest, TypeOK
  <2> QED
    BY <2>1, <2>2
<1>10. (Balanced /\ WireKey /\ Deciphers)'
  BY <1>1 DEF Inv, Balanced, WireKey, Deciphers, EncOf, DecOf
<1> QED
  BY <1>2, <1>5, <1>6, <1>8, <1>9, <1>10 DEF Inv, KeyInv

\* What encrypt() and decrypt() do with a frame, whether or not the context was
\* keyed for it.
LEMMA FrameStep ==
    ASSUME Inv, NEW c \in Contexts, NEW n \in Frame(c), NEW k \in Keys,
           Update(c, n, k, pos[c]), met = {} => k = c[2], met' = met
    PROVE  /\ pos' \in [Contexts -> Nat] /\ wire' \in [Flows -> Seq(Byte)]
           /\ got' \in [Flows -> Seq(Nat)]
           /\ (Balanced /\ WireKey /\ Deciphers)'
<1>1. CASE Encrypts(c)
  BY <1>1, EncryptStep DEF Inv, Deciphers, TypeOK
<1>2. CASE ~Encrypts(c)
  BY <1>2, DecryptStep DEF Inv
<1> QED
  BY <1>1, <1>2

\* A context is keyed from the buffer, and its first frame follows.
LEMMA CipherInitStep ==
    ASSUME Inv, NEW c \in Contexts, CipherInit(c)
    PROVE  Inv'
<1>1. PICK n \in Frame(c), k \in Keys :
        /\ k = digest[c[1]] \/ (k = "torn" /\ Others(c) # {})
        /\ key' = [key EXCEPT ![c] = k] /\ Update(c, n, k, 0)
  BY Ends DEF CipherInit, Inv, TypeOK, Keys, NoKeys
<1>2. /\ doing' = [doing EXCEPT ![c[1]][Thread(c)] = Idle]
      /\ doing[c[1]][Thread(c)] # Idle
      /\ doing[c[1]][Thread(c)][1] = c /\ doing[c[1]][Thread(c)][2] = "init"
      /\ UNCHANGED <<digest, met>>
      /\ c[1] \in Sides /\ c[2] \in Trans /\ Thread(c) \in Threads
  BY Ends, Keying DEF CipherInit, Inv
<1>3. key[c] = "unkeyed" /\ pos[c] = 0
  BY <1>2 DEF Inv, KeyInv, Doing, AtStart
<1>4. c[1] \notin met => k = c[2]
  BY <1>1, <1>2 DEF Inv, KeyInv, Alone, OwnDigest, Others
<1>5. /\ pos' \in [Contexts -> Nat] /\ wire' \in [Flows -> Seq(Byte)]
      /\ got' \in [Flows -> Seq(Nat)]
      /\ (Balanced /\ WireKey /\ Deciphers)'
  BY <1>1, <1>2, <1>3, <1>4, FrameStep
<1>6. \A s \in Sides, th \in Threads :
        doing'[s][th] = IF s = c[1] /\ th = Thread(c) THEN Idle ELSE doing[s][th]
  BY <1>2 DEF Inv, TypeOK
<1>7. TypeOK'
  <2>1. key' \in [Contexts -> Keys]
    BY <1>1 DEF Inv, TypeOK, Keys
  <2>2. doing' \in [Sides -> [Threads -> {Idle} \cup (Contexts \X Steps)]]
    BY <1>2 DEF Inv, TypeOK
  <2> QED
    BY <1>2, <1>5, <2>1, <2>2 DEF Inv, TypeOK, Keys, Byte
<1>8. Doing'
  <2> SUFFICES ASSUME NEW s \in Sides, NEW th \in Threads, doing'[s][th] # Idle
               PROVE  LET d == doing'[s][th][1] IN
                      d[1] = s /\ Thread(d) = th /\ key'[d] = "unkeyed"
    BY DEF Doing, Thread
  <2> DEFINE d == doing[s][th][1]
  <2>1. doing'[s][th] = doing[s][th] /\ ~(s = c[1] /\ th = Thread(c))
    BY <1>6
  <2>2. d[1] = s /\ Thread(d) = th /\ key[d] = "unkeyed" /\ d \in Contexts
    BY <2>1 DEF Inv, KeyInv, Doing, TypeOK
  <2>3. d # c
    BY <2>1, <2>2
  <2> QED
    BY <1>1, <2>1, <2>2, <2>3 DEF Inv, TypeOK
<1>9. AtStart'
  <2>1. key'[c] = k /\ (k \in Trans \/ k = "torn")
    BY <1>1, <1>2 DEF Inv, TypeOK
  <2>2. k \notin {"new", "unkeyed"}
    BY <2>1, TransAssumption DEF NoKeys
  <2>3. \A d \in Contexts : d # c => key'[d] = key[d] /\ pos'[d] = pos[d]
    BY <1>1 DEF Inv, TypeOK, Update
  <2> QED
    BY <2>1, <2>2, <2>3 DEF Inv, KeyInv, AtStart
<1>10. OwnKey'
  BY <1>1, <1>2, <1>4 DEF Inv, KeyInv, OwnKey, TypeOK
<1>11. Alone' /\ OwnDigest'
  BY <1>2, <1>6 DEF Inv, KeyInv, Alone, OwnDigest
<1> QED
  BY <1>5, <1>7, <1>8, <1>9, <1>10, <1>11 DEF Inv, KeyInv

\* A later frame goes on where the context stands.
LEMMA CryptStep ==
    ASSUME Inv, NEW c \in Contexts, Crypt(c)
    PROVE  Inv'
<1>1. PICK n \in Frame(c) : Update(c, n, key[c], pos[c])
  BY DEF Crypt
<1>2. /\ UNCHANGED <<key, digest, doing, met>>
      /\ key[c] \in Keys /\ key[c] \in Trans \cup {"torn"}
  BY DEF Crypt, Keys, NoKeys
<1>3. met = {} => key[c] = c[2]
  BY <1>2, TransAssumption DEF Inv, KeyInv, OwnKey, NoKeys
<1>4. /\ pos' \in [Contexts -> Nat] /\ wire' \in [Flows -> Seq(Byte)]
      /\ got' \in [Flows -> Seq(Nat)]
      /\ (Balanced /\ WireKey /\ Deciphers)'
  BY <1>1, <1>2, <1>3, FrameStep
<1>5. TypeOK'
  BY <1>2, <1>4 DEF Inv, TypeOK, Keys, Byte
<1>6. AtStart'
  BY <1>1, <1>2, TransAssumption DEF Inv, KeyInv, AtStart, Update, TypeOK, NoKeys
<1>7. (Doing /\ Alone /\ OwnDigest /\ OwnKey)'
  BY <1>2 DEF Inv, KeyInv, Doing, Alone, OwnDigest, OwnKey, Thread
<1> QED
  BY <1>4, <1>5, <1>6, <1>7 DEF Inv, KeyInv

\* Every step keeps the invariant.
LEMMA StepInv == Inv /\ [Next]_vars => Inv'
<1> SUFFICES ASSUME Inv, [Next]_vars PROVE Inv'
  OBVIOUS
<1>1. CASE UNCHANGED vars
  <2>1. TypeOK'
    BY <1>1 DEF vars, Inv, TypeOK
  <2>2. KeyInv'
    BY <1>1 DEF vars, Inv, KeyInv, Doing, AtStart, Alone, OwnDigest, OwnKey, Thread
  <2>3. (Balanced /\ WireKey /\ Deciphers)'
    BY <1>1 DEF vars, Inv, Balanced, WireKey, Deciphers, EncOf, DecOf
  <2> QED
    BY <2>1, <2>2, <2>3 DEF Inv
<1> QED
  BY <1>1, RenewStep, BeginStep, Md5Step, CipherInitStep, CryptStep DEF Next

-----------------------------------------------------------------------------
\* The invariant holds in every state that two processes can reach.
LEMMA SpecInv == Spec => []Inv
  BY InitInv, StepInv, PTL DEF Spec

\* Every variable keeps its type, for any number of connections and threads.
THEOREM TypeCorrect == Spec => []TypeOK
  BY SpecInv, PTL DEF Inv

\* For any number of connections and threads, and however encrypt() and decrypt()
\* are given their frames, text comes out as it went in, as long as no two
\* threads of one process were in the keying part of them at the same time.
THEOREM DecipheredInStep == Spec => []Deciphers
  BY SpecInv, PTL DEF Inv
=============================================================================
