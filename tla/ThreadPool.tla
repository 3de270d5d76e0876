----------------------------- MODULE ThreadPool -------------------------------
(***************************************************************************)
(* The start-up of a pool of worker threads in front of the hand-over of   *)
(* connections to one of them: the main thread creates the threads, waits  *)
(* on init_cond until init_count says that all have registered, and only   *)
(* then accepts connections.                                               *)
(***************************************************************************)
EXTENDS HandOff, FiniteSets

CONSTANTS
    Threads,     \* the worker threads
    Mine         \* the one whose conn_queue HandOff describes

ASSUME ThreadsAssumption == IsFiniteSet(Threads) /\ Mine \in Threads

VARIABLES
    spc,         \* the main thread: in its start-up, or accepting
    tpc,         \* tpc[t]: thread t in register_thread_initialized
    initCount,   \* init_count
    initLock,    \* holder of init_lock: "none", "main" or a thread
    woken        \* the main thread's wait on init_cond is over

startVars == <<spc, tpc, initCount, initLock, woken>>
poolVars  == <<vars, startVars>>

PoolTypeOK ==
    /\ TypeOK
    /\ spc \in {"create", "lock", "test", "wait", "waiting", "unlock", "accept"}
    /\ tpc \in [Threads -> {"none", "lock", "count", "signal", "unlock", "loop"}]
    /\ initCount \in 0..Cardinality(Threads)
    /\ initLock \in Threads \cup {"none", "main"}
    /\ woken \in BOOLEAN

PoolInit ==
    /\ Init
    /\ spc = "create"
    /\ tpc = [t \in Threads |-> "none"]
    /\ initCount = 0
    /\ initLock = "none"
    /\ woken = FALSE

-----------------------------------------------------------------------------
(* ss_create_worker_threads and sc_create_ss5_worker_threads.              *)

\* The pipe and the queue are there before the thread is.
CreateThread(t) ==
    /\ spc = "create" /\ tpc[t] = "none"
    /\ tpc' = [tpc EXCEPT ![t] = "lock"]
    /\ spc' = IF \E u \in Threads \ {t} : tpc[u] = "none" THEN "create" ELSE "lock"
    /\ UNCHANGED <<vars, initCount, initLock, woken>>

LockInit ==
    /\ spc = "lock" /\ initLock = "none"
    /\ initLock' = "main"
    /\ spc' = "test"
    /\ UNCHANGED <<vars, tpc, initCount, woken>>

\* while (init_count < nthreads)
TestCount ==
    /\ spc = "test"
    /\ spc' = IF initCount < Cardinality(Threads) THEN "wait" ELSE "unlock"
    /\ UNCHANGED <<vars, tpc, initCount, initLock, woken>>

\* pthread_cond_wait gives the lock up and waits in one step ...
CondWait ==
    /\ spc = "wait"
    /\ initLock' = "none"
    /\ woken' = FALSE
    /\ spc' = "waiting"
    /\ UNCHANGED <<vars, tpc, initCount>>

\* Faulty: an if in place of the while.
WakeWithoutTest ==
    /\ spc = "waiting" /\ woken /\ initLock = "none"
    /\ initLock' = "main"
    /\ spc' = "unlock"
    /\ UNCHANGED <<vars, tpc, initCount, woken>>

\* ... and takes it back.
Wake ==
    /\ spc = "waiting" /\ woken /\ initLock = "none"
    /\ initLock' = "main"
    /\ spc' = "test"
    /\ UNCHANGED <<vars, tpc, initCount, woken>>

UnlockInit ==
    /\ spc = "unlock"
    /\ initLock' = "none"
    /\ spc' = "accept"
    /\ UNCHANGED <<vars, tpc, initCount, woken>>

\* A wait may end although nobody has signalled.
SpuriousWakeup ==
    /\ spc = "waiting" /\ ~woken
    /\ woken' = TRUE
    /\ UNCHANGED <<vars, spc, tpc, initCount, initLock>>

-----------------------------------------------------------------------------
(* register_thread_initialized.                                            *)

\* Faulty: the count is raised without the lock.
RegisterLockSkipped(t) ==
    /\ tpc[t] = "lock"
    /\ tpc' = [tpc EXCEPT ![t] = "count"]
    /\ UNCHANGED <<vars, spc, initCount, initLock, woken>>

RegisterLock(t) ==
    /\ tpc[t] = "lock" /\ initLock = "none"
    /\ initLock' = t
    /\ tpc' = [tpc EXCEPT ![t] = "count"]
    /\ UNCHANGED <<vars, spc, initCount, woken>>

RegisterCount(t) ==
    /\ tpc[t] = "count"
    /\ initCount' = initCount + 1
    /\ tpc' = [tpc EXCEPT ![t] = "signal"]
    /\ UNCHANGED <<vars, spc, initLock, woken>>

\* A signal that nobody waits for is lost.
RegisterSignal(t) ==
    /\ tpc[t] = "signal"
    /\ woken' = (woken \/ spc = "waiting")
    /\ tpc' = [tpc EXCEPT ![t] = "unlock"]
    /\ UNCHANGED <<vars, spc, initCount, initLock>>

RegisterUnlock(t) ==
    /\ tpc[t] = "unlock"
    /\ initLock' = "none"
    /\ tpc' = [tpc EXCEPT ![t] = "loop"]
    /\ UNCHANGED <<vars, spc, initCount, woken>>

Register(t) == \/ RegisterLock(t) \/ RegisterCount(t) \/ RegisterSignal(t)
               \/ RegisterUnlock(t)

-----------------------------------------------------------------------------
StartUp == \/ LockInit \/ TestCount \/ CondWait \/ Wake \/ UnlockInit
           \/ \E t \in Threads : CreateThread(t)

\* The loops of the main thread and of Mine, once they have been entered.
Accepting == spc = "accept" /\ (\E i \in Items : MainStart(i)) /\ UNCHANGED startVars
MainLoop  == spc = "accept" /\ Main /\ UNCHANGED startVars
MineLoop  == tpc[Mine] = "loop" /\ Worker /\ UNCHANGED startVars

PoolNext == \/ StartUp \/ SpuriousWakeup \/ \E t \in Threads : Register(t)
            \/ Accepting \/ MainLoop \/ MineLoop

PoolSpec == PoolInit /\ [][PoolNext]_poolVars

\* Every thread is scheduled.  A thread that finds init_lock free time after
\* time gets it in the end, even if the main thread wakes for nothing over and
\* over; apart from that the lock is taken only so often.
PoolFairSpec ==
    /\ PoolSpec
    /\ WF_poolVars(StartUp \/ MainLoop)
    /\ \A t \in Threads : WF_poolVars(Register(t)) /\ SF_poolVars(RegisterLock(t))
    /\ WF_poolVars(MineLoop)

-----------------------------------------------------------------------------
(* Properties.                                                             *)

\* No connection is accepted, and so none handed over, before every worker
\* thread has registered, however the threads' signals fall.
ReadyFirst ==
    spc = "accept" \/ added # <<>> =>
        \A t \in Threads : tpc[t] \in {"signal", "unlock", "loop"}

\* The start-up ends: no signal is lost that the main thread needs.
StartsUp == <>(spc = "accept")
=============================================================================
