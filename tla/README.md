# A TLA+ development of sshinner

sshinner lets an application on one machine (the USR client) reach a service on
another machine (the DAEMON client) although neither can be reached from
outside: both connect to a public server, which relays.  The modules in this
directory are translated from the code under `src/`; TLC checks them on small
instances and TLAPS proves what matters most for every value of their constants.

## 1. Inventory

All three programs are C on libevent.  A callback runs to its end before the
next one of the same event loop, so a callback is the unit of atomicity within
one thread, and the interleaving is between loops.

| Component | Code | State | Operations | Talks to |
|---|---|---|---|---|
| Sessions, accounts, main connections | `server/sshinner_s_event.c` (main loop), `sshinner_s_data.c`, `client/sshinner_c_event.c`, `sshinner_c_utils.c`, `client.c` | `acct_items`, the uuid tree of `ACTIV_ITEM`, `bev_daemon`/`bev_usr`, the `void *ctx` of each main connection's callbacks | `INIT` of DAEMON and USR, EOF and ERROR of a main connection, re-login of a DAEMON, exit of a USR | the clients over one control channel each; frees the tunnels of a session |
| Tunnels | `sshinner_s_event.c` (`ss_main_handle_ctl`), `sshinner_s_threads.c`, `sshinner_s_data.c`, `sshinner_c_event.c` | the lists of `TRANS_ITEM` (server) and `PORTTRANS` (clients) keyed by source port, their two bufferevents | accept, `CONN`, `CONN_ACT`, forwarding both ways, EOF/ERROR of any socket | main loop to worker by `conn_queue` and a pipe; server to clients by the control channels |
| Hand-over to workers | `include/st_slist.h`, `sshinner_s_threads.c`, `client/sshinner_c_sockets.c`, `sshinner_c_threads.c` | `conn_queue` (a linked list), `q_lock`, the notify pipe | `slist_add` + one byte, one byte + `slist_fetch` | two threads on one list |
| SOCKS5 proxy | `sshinner_c_sockets.c`, `sshinner_c_threads.c`, server `threads.c:400-662` | the DAEMON client's workers, a trans of kind SS5 at client and server, evdns lookups | accept, request, connect or resolve, `SS5_ACT`, relay, close | the DAEMON's control channel and main loop, encryption |
| DNS proxy | `sshinner_c_dns.c`, `client.c`, server `threads.c` | `dns_transid_port_map`, one trans, a UDP event at either end | query out, answer back, `DNS_ACT`, re-login | the DAEMON's control channel, encryption, the name server |
| Stream encryption | `common/sshinner_crypt.c` | two RC4 contexts per trans and end, and the digest buffer of the library, one per process | init, encrypt, decrypt, free | SOCKS5 and DNS, every worker thread |
| Start-up barrier | `threads.c:225-302` (server), `24-101` (client) | `init_count`, `init_lock`, `init_cond` | register, wait | worker threads |
| Singly linked list | `include/st_slist.h` | next pointers | add, fetch, remove, safe iteration | every list above |
| Red-black tree | `rbtree.c`, `rbtree_augmented.h` | parent pointers with colours | insert, erase, search | the uuid tree |
| Settings, keys, logging | `server.c`, `client.c`, `*_utils.c`, `st_others.h` | settings, RSA key | sequential start-up, I/O | |

**What is hard here.**  A tunnel is made of four sockets in three processes, and
nothing but a 16-bit source port ties them together: the DAEMON's leg arrives at
the server as a fresh connection that names a port.  The server's main loop
creates and frees the objects that its workers use.  Freeing a bufferevent
throws its unsent output away.  Control channels and data sockets are separate
TCP connections, so a `CONN` for a port may overtake the end of that port's last
tunnel.  Clients die, come back at once, and leave main connections whose
callbacks still carry pointers.  The server's workers take connections from a
linked list without the lock that was made for it.  DNS answers come back over a
byte stream that keeps no message boundaries, and are told apart by a 16-bit id
that the applications chose.  Cipher contexts are keyed through a buffer that all
threads of a process share.

**What makes each component correct.**

* Sessions: a machine id names one session; what the server holds of a session
  is alive; a client and the server agree whether it is in one; losing either
  client ends the session and reaches the other; accounts are kept as long as
  they are used; the server's own aborts cannot be reached.
* Tunnels: a port finds the right trans; the two legs that are joined belong to
  one connection; the USR leg is in place when the DAEMON leg arrives; nobody
  reads data before it has somewhere to go; data is neither lost, repeated nor
  reordered; a close at one end reaches every other socket; no process dies.
* Hand-over: a worker takes each connection once, in order, with its own
  command; a notified worker finds one; no freed item is touched.
* SOCKS5: an application is told to begin only when the host *it* named is
  connected; nothing reaches it before that answer; both directions stay at the
  same cipher position; every request is answered or its loss has a known cause;
  an invalid access needs one of a few known races.
* DNS: an answer goes to the application that asked; nobody uses the trans after it
  is gone; the proxy starts, and every answer arrives.
* Encryption: the text comes out as it went in, however it is cut into frames.
* Start-up: no connection is accepted before every thread can be notified, and
  start-up ends.
* The tree: a search tree with balanced black heights that finds exactly the
  sessions the account lists hold.

The full list of hazards, each at its line and with the properties that cover
it, is in `PROJECT.json` under `hazards`.

## 2. Plan

| Order | Module | Contents | State |
|---|---|---|---|
| 1 | `Tunnel`, `MCTunnel` | one session of the relay: three processes, the workers, all four channels of a tunnel | done |
| 2 | `ConnFifo`, `HandOff`, `MCHandOff` | the queue a worker sees, and `slist_add`/`slist_fetch`/`q_lock` pointer by pointer, which implements it | done |
| 3 | `Session`, `MCSession` | log-in, accounts, main connections | done |
| 4 | `Ss5`, `MCSs5` | SOCKS5 at the client and the server's `S` connections with the evdns callback | done |
| 5 | `Relay` | two byte streams that are joined once and break at most once: what `Tunnel` and `Ss5` promise | done |
| 6 | `DnsProxy`, `MCDnsProxy` | transaction ids (signed bytes, the table's last entry), the stream between the ends, the trans over re-logins | done |
| 7 | `ThreadPool`, `MCThreadPool` | the start-up barrier with the condition variable's spurious wake-ups, then the hand-over | done |
| 8 | `Accounts`, `RbTree`, `Registry`, `MCRegistry` | the accounts and the sessions in them, the kernel's red-black tree, and both together | done |
| 9 | `Crypt`, `MCCrypt` | keying through the shared digest buffer, stream positions under chunked reads | done |
| 10 | `...Proofs` | eight modules of theorems (section 6) | done for the properties listed there |

Composition.  `Tunnel`, `Ss5` and `DnsProxy` are one session each and take its start
and its end from the environment; `Session` is all sessions without their
tunnels and provides them (`MainEof`, `MainRemove`, `UsrEof`, `DaemonEof`).  `Ss5` and
`DnsProxy` take a worker's queue in the form of `ConnFifo`; `HandOff` shows under which
condition (the lock) the pointers deliver that form, and `ThreadPool` runs
`HandOff` in a pool that has just been started.  The server does not take the lock:
`handoff_unlocked` shows what its queue then does, an item lost and the next one served
under its byte, and `Tunnel` has the queue with that loss.  `Registry` keeps in `RbTree` what
`Session` and `Accounts` take as a set, and implements `Accounts`.  `Relay` is implemented by both `Tunnel` and `Ss5`.

Every safety invariant of `Tunnel`, `Session`, `Ss5`, `HandOff`, `ThreadPool`, `DnsProxy`
and `Crypt` that a run checks has a proof, and so have the refinements of `Relay` by `Tunnel`
and `Ss5` and that of `ConnFifo` by `HandOff`, but for its fairness (section 6).  Of
`Registry`, too: that insertion and removal keep the uuid tree a red-black tree of the sessions
that live, and so that `Registry` implements `Accounts`.

## 3. Modules and how they correspond to the code

### Tunnel

One action is one callback.  The variables:

| Variable | Code |
|---|---|
| `port` | `usr_lport` of a connection, the key of all lists |
| `cl` | the `PORTTRANS` of a connection in each client: `opening` (connected, `CONN` sent, bufferevents not enabled), `active` (after `CONN_ACT`), `stuck` (listed, but the connect was refused), `closed` |
| `srv`, `bev` | the `TRANS_ITEM` and its slots `bev_u`, `bev_d` |
| `place` | who holds the server's socket of a leg: main loop, queue, worker, or nobody (`leaked`, `rejected`, `lost`) |
| `up`, `dn` | a leg's bytes, client to server and back, with the `CONN` header and the end of file as items |
| `ctl` | the control channel to each client: `net` is what the kernel holds, `buf` what libevent has read but `srv_bufferread_cb` has not taken |
| `queue`, `pipe` | `conn_queue` and the bytes in the notify pipe of each worker |
| `session` | the `ACTIV_ITEM`: `up`, `ending` (one main bufferevent is freed, the session is still there), `gone` |
| `sent`, `got` | history: chunks sent and received by the local peers |
| `fault` | which abort or invalid access ended a process |

`srv_bufferread_cb` takes one header however many have arrived: hence `net` and
`buf`, and `MaxBatch`.  `bufferevent_free` discards output that was not yet
written: `Cut` keeps any prefix.  The server's
queue has no lock, so `Enqueue` may lose the item and send its byte alone when the list is not
empty, that is when a `slist_fetch` may be under way on the item that `slist_add` stands on.
From then on the worker reads each byte with a later item (`Serve` gets a byte and an
item that need not belong together), or finds none.
The end of a session is two steps, as workers write to both control channels in between
(`SrvMainEof`, `SrvRemove`).  A fault ends the run: what the other processes
do afterwards is not modelled.  `wrong_slot` is such an end: a leg that is put in the other leg's slot
under a foreign byte is found and named, and what that server relays then is not followed.  `of` in a header, `from` in a chunk and the
connection index itself are for the reader; no guard of the code's actions uses
`of`, except `OnConn`, where it gives the new trans object its name.

A trans is found with the set of matching members; where the code takes the
first match of a list, `UniquePorts` says the set has one member at most.

### Ss5

Four kinds of event loop: the client's main loop (`Accept` ... `ActReply`,
`Leave`), its workers (`Clt...`), the server's main loop (`SrvSs5`, `SrvRefuse`,
the lookup callbacks, `SessionEnds`) and its workers (`SrvTake`, `Connect...`,
`SrvUp`, `SrvDown`, `SrvEof`).

| Variable | Code |
|---|---|
| `port`, `app`, `gone` | the source port of an application's connection, what the application has heard, whether it has closed |
| `cl`, `slot`, `on` | the client's `PORTTRANS`, which of `local_bev` and `srv_bev` are assigned, which are enabled |
| `job`, `cqueue` | the `C_ITEM`: queued, `requested` (the request is on the way, the bufferevents are not assigned yet), done |
| `main` | the connection whose request the client's main loop is reading from a blocking socket (`greet`), or the place in the `HD_CMD_SS5_ACT` branch (`srv`, `reply`) |
| `place`, `srv`, `remote`, `squeue` | the server's socket, `TRANS_ITEM`, connection to the named host, worker queues |
| `up`, `dn`, `ctl` | the data connection and the control channel to the client |
| `pos` | stream positions of the four RC4 contexts of a connection |

Where two threads meet on one object inside a callback the callback is cut in
steps: the client's worker assigns `local_bev` and `srv_bev` only after its
request is on the way (`CltRequest`, `CltBevs`), so `SS5_ACT` may find them null;
the main loop enables `local_bev`, then `srv_bev`, then writes the reply
(`ActLocal`, `ActSrv`, `ActReply`) while a worker may see the end of either
side and free the trans.  A chunk is one read event, which is at most one frame;
it is encrypted at the sender's stream position, and `Decrypt` gives `Garbage` at
any other position.  `connect()` in a server worker is `SrvTake` and
`ConnectOk`/`ConnectFails`.  `SS5_ACT` goes to the client in two ways: through the bufferevent
of the control channel when the host was an address, and by a raw `write()` to its socket
from the lookup callback, which may come before headers that still lie in the
bufferevent (`Tell`, and the field `how` of a header).  An invalid access sets `fault` and ends the run.
Freeing a bufferevent twice, and reading the socket from a `C_ITEM` after `free`
(`ConnectOk`), may also go unnoticed: both outcomes are allowed.

### HandOff and ConnFifo

`ConnFifo` is the abstract queue: hand over at the end, take from the front,
each item once.  `HandOff` has one step per memory access of `slist_add` (walk,
link), `slist_fetch` (test, load, store) and per operation on `q_lock` and the
pipe.  `Locked = TRUE` is the SOCKS5 client's code (`ss5_accept_conn_cb` and the
worker take `q_lock`), `Locked = FALSE` the server's (neither side does).
Memory that was freed may read as null or as before.

### ThreadPool

The main thread starts the threads, takes `init_lock` and waits on `init_cond` until
`init_count` has reached their number (`CreateThread`, `LockInit`, `TestCount`,
`CondWait`, `Wake`, `UnlockInit`); a thread registers under the same lock
(`RegisterLock` ... `RegisterUnlock`) and enters its loop.  `SpuriousWakeup` is
what POSIX allows `pthread_cond_wait`.  Then the main thread hands connections over
to the threads; the queue that is followed is that of `Mine`, with the actions of
`HandOff`.  Both programs have this code, `sshinner_s_threads.c:225-302` and
`sshinner_c_threads.c:24-101`.

### Relay

The abstract promise of a proxied connection: per connection a `phase` (not
joined, joined, broken) and per direction what was sent, what is under way and what
was received.  `Join` happens once; until then nothing is delivered; `Deliver` takes from
the front; `Break` may cut what is under way, and only its end.  `Tunnel` maps its
local and data sockets, bufferevents and both legs onto `wire`
(`relayPhase`, `relayWire`), `Ss5` the data connection with what is enciphered on it:
`ImplementsRelay` says that nothing is lost, repeated, reordered or given to
another connection before the break, and nothing reordered by it.  It
is a safety refinement: `Relay` obliges nobody to deliver.

### DnsProxy

One DAEMON client with its DNS trans, the server, its worker and the applications
on the DAEMON's host (the answer goes to 127.0.0.1 whoever asked).

| Variable | Code |
|---|---|
| `id`, `udpq`, `asked` | the transaction ids the applications chose, datagrams waiting at the client's UDP port, queries sent on (history) |
| `udp`, `trans`, `table` | the UDP event, `p_trans` of the DNS proxy, `dns_transid_port_map` |
| `place`, `srv`, `pending`, `answers` | the server's socket, its `TRANS_ITEM`, queries at the name server, answers it gave (history) |
| `up`, `dn`, `ctl`, `others` | the data connection in both directions, the control channel, other headers on it |
| `login`, `session`, `alive`, `broken` | the current log-in, the server's session, whether the process and the data connection live |

A message is two cells, its head (with the id) and the rest, so that TCP may cut one
and merge two; a read takes any number of cells, and the id is looked up in
the first.  A read that begins in the middle of a message finds any entry of the
table.  `Index` is the code's expression with its sign extension: `dat[0]` and
`dat[1]` are signed, so a low byte of 128 or more gives 0xFF00 + the byte;
`TableSize` is 0xFFFF, one less than there are indices.  Cipher positions are left
to `Ss5` and `Crypt`.

### RbTree, Accounts and Registry

`RbTree` is the tree as a record of a root and per node its parent, colour and
children; each function of the C code is an operator from tree to tree, left and
right taken together by a direction `d`.  Where the code loops (`__rb_insert`,
`____rb_erase_color`, the walk of `ss_uuid_search` and the one to the successor) an operator is
one round (`InsertRound`, `EraseRound`), and `Loop` does as many rounds as there are nodes; a
loop that is done changes nothing more.  That no loop needs more is proved (section 6): the result of
one that was cut off would not be a red-black tree.  `Accounts` has `acct_items` with the code's search, which compares a
name over the length of the listed one (`Matches`), and says what a login (`LogIn`) and a
departure (`LogOut`) do to it when the sessions are a set.  `Registry` adds the uuid tree:
whether there is a session is what the search in the tree finds (`DaemonInit`,
`ActivItemRemove`).  What `Session` abstracts to a set of sessions is stored twice there;
`Listed` says that both structures agree, and `ImplementsAccounts` that with the tree the
accounts still do what `Accounts` says.

### Crypt

A context is a process, a connection and a direction; `key` is what it was
keyed with.  `Begin` finds `is_init` unset, `Md5` writes the digest of the
context's own iv into the process's one buffer (`digest`), `CipherInit` reads it
and enciphers the first frame; while another thread is in `MD5()` the buffer may hold
parts of two digests (`"torn"`).  Frames have any length up to `MaxFrame` on
either side.  `met` records that two threads of a process were keying at once.

### Session

`activ` is the uuid tree.  An `ACTIV_ITEM` is named by the DAEMON connection
that created it, so that the model can tell a stale `ctx` pointer from a
pointer to a successor with the same id.  `toSrv` and `toClt` are the two
directions of a main connection, with `EOF` or `ERR` at the end.  `main_bufferevent_cb` is
two steps: `MainEof` frees the other connection, and `MainRemove` takes the
session out of the tree, and the account with its last session.  In between a worker
finds a session whose bufferevents are gone; `ending` is the session this happens
to, and the main loop does nothing else until `MainRemove`.
`MainEofStale` is the same callback with a pointer to a session that no longer
names the connection (abort) or that was freed (undefined: abort or worse).
`MainError` is the branch that only logs.

### Definitions marked "Faulty"

Beside a definition there may be one whose comment says `Faulty:`.  Nothing uses
it: it is that definition with a plausible mistake, and `PROJECT.json`
(`mutants`) pairs it with the property that must then fail, as a check that the
property is about the code.

## 4. Runs

| Run | Instance | Shows |
|---|---|---|
| `tunnel_safe` | 2 connections, ports {1, 3} on one of 2 workers, items may be lost, batches of 2 headers, 1 chunk each way, both clients may exit, refused connects, early port reuse; 248 426 states | all safety properties of `Tunnel`, refinement of `Relay` |
| `tunnel_live` | the same environment with ports {1, 2} and without data; 53 196 states | `Opens`, `TearsDown`, `SessionEnds` under fairness |
| `session_safe` | 2 machines, 3 DAEMONs (two of one machine, with different accounts), 2 USR (one with a wrong key), 4 connections, resets, hasty restarts; 840 070 states | `OneSession`, `LiveBevs`, `AccountsInUse`, `NoAbort` |
| `session_live` | 1 machine, 1 USR, 4 connections, deaths, patient restarts | `InSession`, `DaemonWelcome`, `LossEndsSession`, `LostIsNoticed` |
| `session_reset` | a connection may break with an error | **violation**: `LossEndsSession` |
| `thread_pool` | 3 threads, 4 items, lock taken, spurious wake-ups; 26 049 states | `ReadyFirst`, `StartsUp`, FIFO safety and refinement of `ConnFifo` with its fairness |
| `handoff_unlocked` | 3 items, 2 commands, no lock | **violation**: `HandedInOrder` |
| `ss5_safe` | 2 applications, ports {1, 2}, 2 server workers, 1 client worker, batches of 2 headers, 1 chunk each way, session may end, early port reuse; 294 558 states | all safety properties of `Ss5`, refinement of `Relay` |
| `ss5_live` | as above with 1 server worker, without data | `Answered`, `Closes` under fairness |
| `dns` | 2 queries of 2 applications with any two of three ids (two clash by sign extension, one falls behind the table), 2 log-ins, batches of 2 headers, the data connection may break; 323 123 states | `RightApplication`, `NoAbort`, and under fairness `Starts`, `Answered` |
| `registry` | 10 machine ids, 3 users of which one name begins with another's; 80 163 states | `RedBlack`, `Listed`, `OwnAccount`, `ImplementsAccounts`; no deadlock |
| `crypt` | 2 connections on 2 threads at both ends, 3 directions, 2 bytes each, frames of 1 and 2; 460 894 states | `Deciphers` |

**Why these bounds.**  Every hazard of a tunnel or of a proxied connection involves at most two
connections (two on one worker, two on different workers, or two generations of
one port).  `tunnel_safe` has ports 1 and 3, which share worker 1: the item of one connection may be
lost behind that of the other, or that of a DAEMON leg behind its own USR leg's.  `tunnel_live` and `ss5_safe` have
ports 1 and 2, on two workers.  In all three a port may come back early.  One chunk per leg and direction, next to the header and the end of file, is enough
for a loss, a swap or a leak to another connection to show.  `MaxBatch = 2` is
the smallest with a header left behind.  For `Session`, two machines tell "one
session per machine" from "one session", and the connections allow a client to
be replaced twice.  In `HandOff` a third item is needed for an item to be lost
and another served in its place, the fourth gives the lock a longer queue.  In `ThreadPool` a
third thread lets two signals come before one wake-up.  `Registry` needs ten ids: a removal
that recolours upwards twice (the loop of `____rb_erase_color`) does not happen with
nine.  In `DnsProxy` two queries with any two of the three ids clash when the first was answered and
when it was not, or one of them falls behind the table; one that is merged behind another is the second.  In `Crypt`, two bytes and frames of up to two
give every way of cutting that differs from the sender's.  The
`.cfg` files of live runs have a smaller environment because a fair
specification multiplies the work; what they leave out (data)
is in the safety runs.  `Conns`, `Bevs` and (in the unlocked run) `Items` are
symmetric; ports and clients are not, and no live run uses symmetry.

**Deadlock.**  `CHECK_DEADLOCK FALSE` everywhere but in `registry`: the supply of connections is
bounded, an idle relay has nothing to do, and a process that has aborted stops.

**Fairness.**  libevent's polling is level-triggered: a callback whose socket or
pipe stays ready is called, so each callback of the server and the clients has weak
fairness.  `ThreadPool` assumes that all threads are scheduled, and
that one that waits for `init_lock` gets it when it is free again and again (strong
fairness, a mutex that does not starve).  In `DnsProxy` neither the applications nor the name
server are obliged to anything.  `Crypt` and `Registry` have safety properties only.  Nothing obliges
an application to connect, send or close, an operator to start or stop a program,
or a peer to leave: those have none.  One exception: a client whose control
channel has been closed does notice it (`session # "up" /\ ClientLeave`), because
that is `srv_bufferevent_cb`.

`Ss5` has weak fairness per event loop and not per callback: a loop that always
has something ready does something.  The client's main loop is left out of it
while it reads an application's request (`GreetOk` and `GreetRefused` have
none): the socket is blocking, and an application that says nothing stops the
loop.  `Answered` names that case, and the others, in `Unanswered`.

## 5. Findings

1. **A reset leaves the session for ever** (`session_reset`): the comment at
   `sshinner_s_event.c:33` promises removal whenever a client is lost, the
   `BEV_EVENT_ERROR` branch only logs.
2. **The server's queue is not locked** (`handoff_unlocked`): `q_lock` is
   initialised and never taken, and an item linked behind the one that is being
   fetched is lost.

Circumstances that properties of passing runs name, because the code fails in
them:

* `NoAbort` of `Tunnel`: a client exits between the DAEMON's `CONN` and the worker's
  turn, and the queued item points to a freed trans ("USR SIDE SHOULD BE OK ALREAY!!!",
  `sshinner_s_threads.c:356`); the unlocked queue loses the item of a USR leg, and the worker
  comes to the DAEMON's, or to another item under the byte `D`, while `bev_u` is null: the
  same abort with both clients present; or it puts a USR leg in the DAEMON's slot under that
  byte (`wrong_slot`); a worker writes `CONN_ACT` to a control channel that `main_bufferevent_cb` has just
  freed; a source port comes back before the DAEMON has seen the
  end of its last tunnel, and `p_trans->is_enc` is set before `p_trans` is tested
  (`sshinner_c_event.c:124-126`).
* `UserLegFirst` of `Tunnel`: what `thread_process` asserts holds for each worker until an item of
  its queue is lost.
* `Opens` of `Tunnel`: a connection is left waiting for ever when the service refuses (`stuck`), the
  server finds no trans or has the port listed already (`leaked`), the queue loses an item (`lost`), or a
  client holds a header that came with another one (`HeaderLeft`).  `TearsDown` has the
  last of these.
* `LiveBevs` of `Session`: from the `bufferevent_free` of the peer to the removal
  (`sshinner_s_event.c:43`, `63`) the session is found with a freed bufferevent.
* `AccountsInUse` of `Session`: a DAEMON whose machine id is taken is refused after its account
  was created, and the account stays.
* `NoAbort` of `Session`: a second USR of a machine overwrites `bev_usr`, and the
  first one's EOF is then "BEV检测失败" (`sshinner_s_event.c:58`).
* `NoAbort` of `Ss5`: `SS5_ACT` overtakes the assignment of the bufferevents it
  uses, or meets an end while it is handled.
* `RightApplication` and `Answered` of `DnsProxy`: ids whose low byte is 128 or more
  share an entry whatever their high byte is; an answer that TCP has merged behind another
  goes to that one's application.  `NoAbort`: id 0xFFFF, and every id with a low byte of
  0xFF, is written behind the table; `DNS_ACT` of a first log-in arrives in a second; UDP
  events outlive the trans they point to.
* `OwnAccount` of `Accounts`: a name that begins with a listed one is that account.
* `Deciphers` of `Crypt`: two threads that key at once may exchange their digests.

Seen while modelling, without a property: `END_TRANS` is
written for a refused service but `ss_cmd_end_trans` is never called, so
tunnels that never open stay listed in all three processes.  In `Ss5`, a
connection that the server cannot make leaves a trans at the client that nothing
removes (the comment at `sshinner_s_threads.c:311-315` asks for a command on the
main channel; none is sent): the disjunct `place[c] = "closed"` of `Unanswered`.

## 6. Proofs

TLAPS checks these for every value of the constants, from the named `ASSUME`s of
the modules only (ports are positive numbers, there is a worker, machine ids are finitely
many integers, the special values differ from the ordinary ones).  Each follows the same path: `Init => Inv`,
`Inv /\ [Next]_vars => Inv'` with one step per action, `Inv => property`.

**`TunnelProofs`**: `TypeCorrect`, `PortsUnique`, `UserLegComesFirst`.
`UniquePorts` is not inductive: `OnConn` lists a trans under the port in a
header, so a header must carry its connection's port (`CtlKnown`), and
`UsrAccept` gives a port to a connection that must not be on a list yet
(`PortKnown`).  The order of the legs is an argument about queues.  The main loop
lists a trans and queues its USR leg in one callback, so a listed trans without its
leg has a job in the queue of its port's worker (`UserComes`); a DAEMON leg is
queued only for a trans that is listed, on the thread of the same port, hence
behind that job (`UserBefore`).  All this is said of a worker on which no item was lost
(`LostOn`); there the bytes of the pipe are those of the items (`InStep`), and every job is on the
thread of its port (`AtHome`).  The worker fills the slot when it takes the job, and
slots of listed trans are emptied only together with the trans.  A trans
must not be listed twice in its life (`UserFresh`), and that needs that the USR
client is never told to connect (`UserCtl`).  The proof has a lemma for each
kind of change: freeing (`SsFreeStep`, `ScFreeStep`), queueing (`EnqueueStep`,
`UserQueued`, `DaemonQueued`), taking (`TakeKeeps`), and nothing relevant
(`NothingListed`, `QuietKeeps`).

Also `LegsAlwaysMatch` (`LegsMatch`), `ActiveLegsJoined`
(`ActiveIsJoined`), `AbortsExplained` (`NoAbort`), `RelayImplemented`
(`ImplementsRelay`), on top of that invariant.  A DAEMON leg brings
nothing but a port number, so a connection is followed on its way (`Underway`): the USR leg at
the main loop, the `CONN` header, the DAEMON leg at the main loop and in a worker's
queue.  All that time the USR client lists the connection as `opening` (`TransWay`) and
therefore accepts no other from that port; so two connections of one port are never both
under way, and the trans found under the port is the right one
(`OneUnderway`).  Without early reuse an older connection of the port has left nothing behind
(`OldIsFinished`).  A job names its own trans and is queued once, and a header is sent once
(`MailInv`); a slot holds the leg of its own trans, the DAEMON's never without the USR's
(`LegWay`); and `CONN_ACT` comes when both slots are filled, so that a client that has started
finds them joined or the trans freed, which `ActiveIsJoined` says.  The slots stay right when an item has been
lost because a job is served under another byte only with the outcome `wrong_slot`.

`RelayImplemented` maps the four channels of a tunnel to one sequence per direction
(`Data`), in which `CONN` headers and the end of file do not show.  Of each direction,
received and under way together are 1, 2, ..., n (`FlowOf`), with n all that was
sent unless the connection is broken (`Complete`).  Freeing with lost output is
`Break`; the worker's taking the DAEMON job is `Join`; a chunk of a peer is `Send` or,
when it is written to nobody or behind lost ones, `SendLost`.  TLC has checked
`FlowInv` with two connections, `MaxData = 2`, `MaxBatch = 2` and early reuse, with a queue that loses nothing
(2 070 305 distinct states).  `Relay` states no fairness, so the theorem is the whole property.

**`SessionProofs`**: `TypeCorrect`, `SessionUnique`, `SessionBevsLive`,
`AbortNeedsReplacement` (`NoAbort`), and `AccountsKept` (`AccountsInUse`), for any assignment of accounts to clients.  A session and its two main connections must point to each other
(`Linked`), so that the connection `MainEof` closes is named by the session it
removes and by no other; between the two steps of the callback both
connections of `ending` are shut and no other session's is (`EndingShut`); and a connection enters a session at most once because
`INIT` is the first thing the server reads of it (`InitFirst`).  `MainEof` closes both
connections of the session it removes, so an open connection whose session is gone, or
names another, was replaced (`Settled`).

`RunningInSession` (`InSession`) and `DaemonsWelcome` (`DaemonWelcome`): where a
client stands (`Stages`) is told by its last connection alone, in both directions and
in the session, and no other open connection of the machine is in the way (`Latest`,
`SameMachine`).  That needs a client that waits for the end of its last connection before it
logs in again (`Patient`, that is `FastRestart = FALSE`), for `InSession` one USR
client per machine id (`OneUsr`: a second one takes over the session of the first), and for
`DaemonWelcome` one DAEMON per machine id (`OneDaemon`) and connections that end in order
(`MayReset = FALSE`: the server does not end a session on an ERROR event, and refuses the
DAEMON that comes back while it lasts; `LeaveInv`).  The instance of `session_live` is such a system; section 5 describes what
happens without these assumptions.  TLC has checked the invariant with
`MayReset` TRUE, and with `LeaveInv` at FALSE.

**`HandOffProofs`** (assuming `Locked`): `TypeCorrect`, `FirstInFirstOut`,
`NotifiedWorkerFinds`, `NoDanglingPointer`, `ImplementsConnFifo`.  The invariant
gives the list between any two memory accesses: exactly `added[lo + 1..hi]`, linked in that
order, where `lo` moves with the worker's unlink and `hi` with the main loop's
link; the lock keeps the two from overlapping (`Excluded`), and the pipe holds
one byte for every item whose byte was not read (`Announced`).

Of the pool: `PoolHandsOver` (it does to its queue what `HandOff` says, so that the
theorems above hold for it), `PoolTypeCorrect`, `PoolReadyFirst`,
`PoolNotifiedFinds`.  The count of registered threads is the cardinality of the set of
threads that have counted themselves (`StartInv`): the main thread leaves the loop only
when that set is all of them, however often it woke.

**`Ss5Proofs`**: `TypeCorrect`, `PortsUnique`, `ToldOnlyConnected`, `ReplyComesFirst`,
`AbortsExplained`, `RelayImplemented`.
`SS5_ACT` names a port and finds whatever trans has it, so that
`ToldIsConnected` needs that it finds the trans it was sent for (`ActsFind`).
While the client is in the session that trans is still listed, since a request
that has not led to a connection keeps it (`StillListed`): a worker of the
client gives a trans up before anything was sent (`CltQueued`), or after its
bufferevents were enabled, which only the `SS5_ACT` does (`OnConnected`).  By
`UniquePorts` no other trans is found.  A header that comes by the raw write may be placed anywhere
behind the headers on the channel's socket (`TellIs`), and what is said of each header on the channel
is said of all of them in any order (`Inserted`).  No connection gets a second
`SS5_ACT`, as it is in the server's queue once (`SrvQueued`) and is not
connected before (`NotYet`).  What the main loop is in the middle of refers to a
connected one (`MainConnected`).

`ReplyComesFirst` (`ReplyFirst`) and `AbortsExplained` (`NoAbort`): the client's worker reads
the data connection only after the main loop has enabled `srv_bev`, and between
that and the reply the main loop is in no other connection's `SS5_ACT` (`ReplyOf`).  Each way to end in
a fault is traced to its cause: on the client the slots of a trans are what its
job says (`ClientInv`), and the trans the main loop is in the middle of is freed only by an end
of either side or with the session (`MainEnds`); on the server a trans with a job or a lookup
under way is listed while there is a session (`ServerInv`).  TLC has checked
`FaultInv`, the conjunction, on `MCSs5`.

`RelayImplemented` (`ImplementsRelay`): what is under way from one end to the other lies in one
channel, as chunks n + 1, n + 2, ... at stream positions n, n + 1, ..., where n is both the number of chunks
that the reader has deciphered and the position of its context (`FlowOf`): so every chunk
is deciphered at the position it was encrypted at.  Until the connection breaks, deciphered and
under way together are all that was sent (`Complete`).  The request, and the server's
refusal, are alone in their channel (`HeadersOf`), which is why `OnWire` need not look for
headers inside a stream.  Freeing with lost output and a failing connect are
`Break`, `SS5_ACT` is `Join`, a chunk is `Send`, or `SendLost` when it is written to nobody.  TLC has
checked `FlowInv` on `MCSs5` and for one connection with `MaxData = 3`.

**`DnsProxyProofs`**: `TypeCorrect`, `AnswersGoHome` (`RightApplication`),
`AccessesBounded` (`NoAbort`).  An entry of the table is written before the
query leaves, and afterwards only by a query with the same entry: a query that was
asked stays "good" (its entry holds its application, or it clashes), and every head on
any channel belongs to a query that was asked (`Inv`).  For the accesses: the trans is
freed, or its stream ended, only after a break (`EndInv`); there is one `DNS_ACT`
per log-in (`ActInv`); and the index is behind the table only when the low byte is 255
(`Overrun`, arithmetic over all ids).

**`CryptProofs`**: `TypeCorrect`, `DecipheredInStep`.  What is on the wire lies between the
positions of the two contexts of its direction (`Balanced`), whatever the frames; and
as long as one thread at most is keying (`Alone`) it finds its own digest
(`OwnDigest`), so that both ends have the key of the connection (`OwnKey`, `WireKey`).

**`RbTreeProofs`**: `InsertIs` and `EraseIs`, for any finite set of keys and any tree.
What a tree has to be is defined in `RbTree` by recursion (`Below`, `BlackHeights`), of which
the provers know nothing.  The proof says it node by node, with functions as witnesses: `sub[n]` is the
set of nodes below `n`, made up of `n` and what is below its children, smaller ones left and
greater ones right (`Shaped`); `h[n]` is the number of black nodes on a path down from
`n`, one number whichever child it goes through (`Balanced`); no red node has a red child
(`Colored`); and nodes that are not in the tree have no children (`Leafy`).  With a black root that is
`Valid`, and `Valid` implies `IsRedBlack` and `IsOrdered` (`ValidIs`, by induction from
the leaves, `TreeInduction`, over the number of nodes below).

Each piece of pointer surgery has a lemma with the links it makes (`Swung`, `Rotated`), and a rotation
one each for what it does to `sub` (`RotateShape`), to the heights and to the colours (`RotateSwap`,
`RotateFour`, `SwapColored`).  While a tree is rebalanced there is at most one exception: `node` is red
below a red parent or a red root (`Unsettled`), or the paths through one child of `parent` lack a
black node (`Lacking`).  These are the loop invariants that the comments of `rbtree.c` state.  A
round makes the tree valid or moves the exception to a node with more nodes below it
(`InsertStep`, `EraseStep`), so a loop is done before its rounds are as many as the nodes
(`LoopEnds`).  A new leaf gives an `Unsettled` tree (`PlantedUnsettled`).  What
`__rb_erase_augmented` leaves is valid, or `Lacking` at the node it returns (`Settles`): with at most
one child the node is replaced by it (`ReplacedSettles`), with two by its
successor, the smallest node on the right (`HasHeir`, `SucceededShape`,
`SucceededSettles`).

**`RegistryProofs`**: `AccountIsOwn` (`OwnAccount`, for `Accounts`), `TreeIsRedBlack` (`RedBlack`),
`SessionsAreListed` (`Listed`), `RegistryImplementsAccounts` (`ImplementsAccounts`) and with it
`RegistryAccountIsOwn` (`OwnAccount`).  No account is twice in the list
(`Distinct`), because one is added only when none matches and a name matches itself
(`MatchesItself`).  An account that is added comes behind all others (`AddKeeps`) and one that
goes has no session left and takes no other with it (`UnlinkKeeps`), so the account of a
session stays the first that matches its user (`Housed`).  The tree is valid and has the
sessions that live (`RegInv`), by `InsertIs` and `EraseIs`; a search in a valid tree ends at the
key or where the key would be hung (`DescendIs`), so it finds these sessions and no others
(`FoundLive`), and a step of `Registry` is one of `Accounts` (`StepRegInv`).

**Only model-checked**: everything temporal beyond invariants (`Opens`,
`TearsDown`, `SessionEnds`, `LossEndsSession`, `LostIsNoticed`, `Answered`, `Closes`,
`Starts`, `StartsUp`, the fairness of `ConnFifo`), which is out of the prover's reach.
Conversely, `UniquePorts`
of `Ss5` and the type invariants of `Session`, `ThreadPool` and `Crypt` are proved and no run
lists them.

## 7. Not modelled

* The walk of `sc_find_trans` and `ss_find_trans` over a list that a worker
  changes at the same time, and `slist_remove`: a search and a removal are one step each.
* A request (`INIT`, SS5, DNS) whose body arrives in two reads, after which
  `main_bufferread_cb` takes the rest for a header.
* In `Accounts`, the order of the sessions in an account's list.  In `RbTree`, the
  operations that the server never calls (`rb_first`, `rb_next`, `rb_prev`, `rb_last`,
  `rb_replace_node`, the post-order walk) and the augmentation callbacks, which are empty.
* The bytes of the SOCKS5 greeting and request (`GreetOk` or `GreetRefused`), and
  what the server of a name lookup answers (`LookupOk` or `LookupFails`).
* The server's queue in `Ss5` and `DnsProxy`: a connection of kind S or D that the missing lock loses (`Tunnel`
  and `HandOff` have that loss), or that a worker reads with another's byte.  Their properties hold of the
  server as long as its queue loses nothing; that of the client's workers, which `Ss5` has too, is locked.
* What a server does after it has put a leg in the wrong slot.
* Data races inside libevent: the server's main loop and its workers call into
  each other's bufferevents (`bufferevent_free`, `bufferevent_write`) and the
  library's locks are not enabled.  Every call is atomic in `Tunnel`, so its results hold for
  a build with locked bufferevents.
* Connect failures of a relay tunnel between a client and a running server, allocation failures,
  full socket buffers and the idle time-outs of the kernel.
* Settings, RSA, logging; `encrypt_init`, which derives one key per machine from its
  id; the double clean-up of `ctx_enc` in `sc_free_trans` (a leak of `ctx_dec`).
* Several sessions sharing the workers: `Tunnel`, `Ss5` and `DnsProxy` have one.  The `TRANS_ITEM`s of a
  session are on its own list and a job carries a pointer to its own, so sessions
  meet only in the order of a worker's queue, and in its losses: the item that is lost, and the one whose byte
  is read, may be of another session, which `LostOn` does not see.
