-------------------------------- MODULE Crypt -------------------------------
(***************************************************************************)
(* The stream encryption of SOCKS5 and DNS connections.  A trans has one   *)
(* RC4 context per direction at each end.  encrypt() and decrypt() key a   *)
(* context at its first frame, with the digest of its own iv: but          *)
(* MD5(key_iv, 32, NULL) leaves the digest in a buffer that the library    *)
(* keeps once per process, and every worker thread does so.                *)
(*                                                                         *)
(* A digest is named by its trans.  The text of a direction is 1, 2, ...;  *)
(* on the wire each byte remembers key and stream position.                *)
(***************************************************************************)
EXTENDS Integers, Sequences

CONSTANTS
    Trans,         \* the connections
    Threads,       \* the threads of a process
    ThreadOf,      \* ThreadOf[s][t]: the thread of process s that serves t
    Flows,         \* the directions in which a connection carries data
    MaxText,       \* bound: bytes of a direction
    MaxFrame       \* bound: bytes of a frame (FRAME_SIZE)

Sides == {"client", "server"}
Dirs  == {"up", "dn"}

\* What a context can hold besides a digest: nothing, a zeroed is_init, the
\* remains of two digests, an ended connection.
NoKeys == {"new", "unkeyed", "torn", "freed"}

ASSUME ThreadAssumption == ThreadOf \in [Sides -> [Trans -> Threads]]
ASSUME TransAssumption  == Trans \cap NoKeys = {}
ASSUME FlowAssumption   == Flows \subseteq Trans \X Dirs
ASSUME BoundAssumption  == MaxText \in Nat /\ MaxFrame \in Nat \ {0}

\* ctx_enc and ctx_dec at both ends: <<process, connection, direction>>.
Contexts == {c \in Sides \X Trans \X Dirs : <<c[2], c[3]>> \in Flows}
Encrypts(c) == (c[1] = "client") = (c[3] = "up")
Flow(c)     == <<c[2], c[3]>>
Thread(c)   == ThreadOf[c[1]][c[2]]

VARIABLES
    key,       \* key[c]: what c was keyed with
    pos,       \* pos[c]: the stream position of c
    digest,    \* digest[s]: the buffer of MD5() in process s
    doing,     \* doing[s][th]: the context th is keying, and how far it is
    wire,      \* wire[f]: the bytes of f between the two processes
    got,       \* got[f]: the text of f as it came out
    met        \* processes in which two threads were keying at once

vars == <<key, pos, digest, doing, wire, got, met>>

Steps == {"md5", "init"}
Idle  == <<>>

TypeOK ==
    /\ key \in [Contexts -> Trans \cup NoKeys]
    /\ pos \in [Contexts -> Nat]
    /\ digest \in [Sides -> Trans \cup {"torn"}]
    /\ doing \in [Sides -> [Threads -> {Idle} \cup (Contexts \X Steps)]]
    /\ wire \in [Flows -> Seq([key : Trans \cup NoKeys, pos : Nat, text : Nat])]
    /\ got \in [Flows -> Seq(Nat)]
    /\ met \subseteq Sides

Init ==
    /\ key = [c \in Contexts |-> "new"]
    /\ pos = [c \in Contexts |-> 0]
    /\ digest = [s \in Sides |-> "torn"]
    /\ doing = [s \in Sides |-> [th \in Threads |-> Idle]]
    /\ wire = [f \in Flows |-> <<>>]
    /\ got = [f \in Flows |-> <<>>]
    /\ met = {}

-----------------------------------------------------------------------------
Free(c) == doing[c[1]][Thread(c)] = Idle
At(c, step) == doing[c[1]][Thread(c)] = <<c, step>>

\* ctx_enc and ctx_dec of one end of a connection.
Both(s, t) == {c \in Contexts : c[1] = s /\ c[2] = t}

\* encrypt_ctx_init for both contexts of a connection.
CtxInit(s, t) ==
    /\ \A c \in Both(s, t) : key[c] = "new" /\ Free(c)
    /\ key' = [c \in Contexts |-> IF c \in Both(s, t) THEN "unkeyed" ELSE key[c]]
    /\ UNCHANGED <<pos, digest, doing, wire, got, met>>

\* encrypt_ctx_free, when the trans is freed by its own thread.
CtxFree(s, t) ==
    /\ \A c \in Both(s, t) : key[c] # "freed" /\ Free(c)
    /\ key' = [c \in Contexts |-> IF c \in Both(s, t) THEN "freed" ELSE key[c]]
    /\ UNCHANGED <<pos, digest, doing, wire, got, met>>

Others(c) == {th \in Threads \ {Thread(c)} : doing[c[1]][th] # Idle}

\* The next frame: what the local socket has, or any part of what has come.
Frame(c) ==
    IF Encrypts(c) THEN {n \in 1..MaxFrame : pos[c] + n <= MaxText}
                   ELSE {n \in 1..MaxFrame : n <= Len(wire[Flow(c)])}

\* The first frame of c: is_init is not set.
Begin(c) ==
    /\ Free(c) /\ key[c] = "unkeyed" /\ Frame(c) # {}
    /\ doing' = [doing EXCEPT ![c[1]][Thread(c)] = <<c, "md5">>]
    /\ met' = IF Others(c) = {} THEN met ELSE met \cup {c[1]}
    /\ UNCHANGED <<key, pos, digest, wire, got>>

\* MD5(key_iv, 32, NULL)
Md5(c) ==
    /\ At(c, "md5")
    /\ digest' = [digest EXCEPT ![c[1]] = c[2]]
    /\ doing' = [doing EXCEPT ![c[1]][Thread(c)] = <<c, "init">>]
    /\ UNCHANGED <<key, pos, wire, got, met>>

\* EVP_CipherUpdate of n bytes with key k, from position p on.
Update(c, n, k, p) ==
    LET f == Flow(c) IN
    /\ pos' = [pos EXCEPT ![c] = p + n]
    /\ IF Encrypts(c)
         THEN /\ wire' = [wire EXCEPT ![f] =
                    @ \o [i \in 1..n |-> [key |-> k, pos |-> p + i, text |-> pos[c] + i]]]
              /\ UNCHANGED got
         ELSE /\ got' = [got EXCEPT ![f] =
                    @ \o [i \in 1..n |-> IF wire[f][i].key = k /\ wire[f][i].pos = p + i
                                         THEN wire[f][i].text ELSE 0]]
              /\ wire' = [wire EXCEPT ![f] = SubSeq(@, n + 1, Len(@))]

\* EVP_CipherInit_ex reads the buffer; while another thread is in MD5() it may
\* find parts of two digests.  The frame is then enciphered.
CipherInit(c) ==
    /\ At(c, "init")
    /\ \E n \in Frame(c),
          k \in {digest[c[1]]} \cup
                (IF \E th \in Others(c) : doing[c[1]][th][2] = "md5" THEN {"torn"} ELSE {}) :
          /\ key' = [key EXCEPT ![c] = k]
          /\ Update(c, n, k, 0)
    /\ doing' = [doing EXCEPT ![c[1]][Thread(c)] = Idle]
    /\ UNCHANGED <<digest, met>>

\* Faulty: every frame starts the cipher anew.
CryptFromStart(c) ==
    /\ Free(c) /\ key[c] \in Trans \cup {"torn"}
    /\ \E n \in Frame(c) : Update(c, n, key[c], IF Encrypts(c) THEN pos[c] ELSE 0)
    /\ UNCHANGED <<key, digest, doing, met>>

\* A later frame.
Crypt(c) ==
    /\ Free(c) /\ key[c] \in Trans \cup {"torn"}
    /\ \E n \in Frame(c) : Update(c, n, key[c], pos[c])
    /\ UNCHANGED <<key, digest, doing, met>>

Next ==
    \/ \E c \in Contexts : Begin(c) \/ Md5(c) \/ CipherInit(c) \/ Crypt(c)
    \/ \E s \in Sides, t \in Trans : CtxInit(s, t) \/ CtxFree(s, t)

Spec == Init /\ [][Next]_vars

-----------------------------------------------------------------------------
\* A connection's text comes out as it went in, however it is cut into frames
\* on either side, unless two threads of one process were keying at once.
Deciphers ==
    met = {} => \A f \in Flows : \A i \in 1..Len(got[f]) : got[f][i] = i
=============================================================================
