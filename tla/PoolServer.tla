------------------------------ MODULE PoolServer ------------------------------
(***************************************************************************)
(* The life of the pool server: GenerateBitcoins (main.cpp), which creates  *)
(* and deletes the PoolServer, the threads that call it, PoolServer's       *)
(* constructor and destructor (pool.cpp), the threads the destructor waits  *)
(* for, and the lock cs_main they contend for.                              *)
(*                                                                          *)
(* GenerateBitcoins is called by                                            *)
(*   init    AppInit2, once, to start the server (init.cpp);                *)
(*   detect  DetectShutdownThread, once a shutdown is requested (init.cpp); *)
(*   rpc     the command setgenerate, under cs_main and cs_wallet;          *)
(*   stop    Shutdown, through StopNode (init.cpp, net.cpp).                *)
(*                                                                          *)
(* Simplifications:                                                         *)
(*  - cs_wallet is only ever taken here together with cs_main or inside it, *)
(*    and is part of it;                                                    *)
(*  - a worker or the backend either holds no lock or waits for cs_main and *)
(*    does one piece of work under it;                                      *)
(*  - RPC commands come one at a time, from when AppInit2 has started the   *)
(*    RPC threads, which is before it calls GenerateBitcoins itself;        *)
(*  - of a server whose pointer is overwritten, no more is kept than that.  *)
(*  - of the message queues, the signals to the workers are kept.           *)
(***************************************************************************)
EXTENDS Integers, Sequences, FiniteSets

CONSTANTS
    Worker,         \* worker threads
    RpcCommands,    \* arguments setgenerate is called with
    MayShutdown,    \* a shutdown may be requested (SIGTERM, stop)
    MaxBest,        \* bound: new best blocks
    MaxRpc          \* bound: RPC commands

ASSUME WorkerAssumption == IsFiniteSet(Worker)
ASSUME CommandAssumption == RpcCommands \subseteq BOOLEAN /\ MayShutdown \in BOOLEAN
ASSUME BoundAssumption == MaxBest \in Nat /\ MaxRpc \in Nat

Caller == {"init", "detect", "rpc", "stop"}

VARIABLES
    gPrimeServer,   \* the pointer: "null", "live", or "freed" when dangling
    csMain,         \* who holds cs_main
    requested,      \* fRequestShutdown
    gen,            \* the argument -gen
    caller,         \* per caller: where it is in GenerateBitcoins
    arg,            \* per caller: fGenerate
    net,            \* the thread that processes blocks from the network
    worker,         \* per worker: where its thread is
    input,          \* per worker: signals not yet received
    backend,        \* where the backend's thread is
    pipe,           \* the destructor has signalled the backend
    peers,          \* ~vNodes.empty()
    rpcExited,      \* StopRPCThreads has joined the RPC threads
    bests,          \* history: best blocks so far
    commands,       \* history: RPC commands so far
    overlap,        \* history: a command came before AppInit2 had its server
    leaked,         \* history: the pointer to a server was overwritten
    misuse          \* history: a freed server was called or deleted again

main == <<gPrimeServer, csMain, requested, gen, caller, arg, rpcExited>>
pool == <<worker, input, backend, pipe>>
world == <<net, peers, bests, commands>>
history == <<overlap, leaked, misuse>>
vars == <<main, pool, world, history>>

Go(t, there) == caller' = [caller EXCEPT ![t] = there]

Publish(signal) == input' = [w \in Worker |-> Append(input[w], signal)]

(* NotifyNewBlock, called by whoever made a block the best one.              *)
Notify ==
    /\ Publish("NEWBLOCK")
    /\ misuse' = (misuse \/ gPrimeServer = "freed")
    /\ UNCHANGED <<overlap, leaked>>

-----------------------------------------------------------------------------
(* The callers.                                                              *)

RequestShutdown ==
    /\ MayShutdown
    /\ ~requested
    /\ requested' = TRUE
    /\ UNCHANGED <<gPrimeServer, csMain, gen, caller, arg, rpcExited, pool,
                   world, history>>

(* DetectShutdownThread sees the request.  It deletes the server if -gen is  *)
(* set; then it interrupts the network threads.                              *)
Detect ==
    /\ requested
    /\ caller["detect"] = "idle"
    /\ Go("detect", IF gen THEN "enter" ELSE "done")
    /\ UNCHANGED <<gPrimeServer, csMain, requested, gen, arg, rpcExited, pool,
                   world, history>>

(* Shutdown begins when AppInit2 has returned and the detecting thread has   *)
(* been joined.  It waits for the RPC threads before it calls StopNode.      *)
StopNode_OnlyIfGen ==
    /\ caller["init"] = "done" /\ caller["detect"] = "done"
    /\ caller["stop"] = "idle"
    /\ caller["rpc"] = "idle"
    /\ rpcExited' = TRUE
    /\ Go("stop", IF arg["init"] THEN "done" ELSE "enter")
    /\ UNCHANGED <<gPrimeServer, csMain, requested, gen, arg, pool, world, history>>

StopNode ==
    /\ caller["init"] = "done" /\ caller["detect"] = "done"
    /\ caller["stop"] = "idle"
    /\ caller["rpc"] = "idle"
    /\ rpcExited' = TRUE
    /\ Go("stop", "enter")
    /\ UNCHANGED <<gPrimeServer, csMain, requested, gen, arg, pool, world, history>>

(* Shutdown ends under cs_main; it deletes the wallet.                       *)
DeleteWallet ==
    /\ caller["stop"] = "done"
    /\ csMain = "free"
    /\ Go("stop", "exited")
    /\ UNCHANGED <<gPrimeServer, csMain, requested, gen, arg, rpcExited, pool,
                   world, history>>

(* setgenerate runs with cs_main held from beginning to end.                 *)
LockMain_ThreadSafe == UNCHANGED csMain

LockMain == csMain = "free" /\ csMain' = "rpc"

RpcCall ==
    /\ caller["rpc"] = "idle"
    /\ ~rpcExited
    /\ LockMain
    /\ commands < MaxRpc
    /\ \E fGenerate \in RpcCommands :
         /\ gen' = fGenerate
         /\ arg' = [arg EXCEPT !["rpc"] = fGenerate]
    /\ commands' = commands + 1
    /\ overlap' = (overlap \/ caller["init"] # "done")
    /\ Go("rpc", "enter")
    /\ UNCHANGED <<gPrimeServer, requested, rpcExited, pool, net, peers, bests,
                   leaked, misuse>>

RpcReturn ==
    /\ caller["rpc"] = "done"
    /\ csMain' = "free"
    /\ Go("rpc", "idle")
    /\ UNCHANGED <<gPrimeServer, requested, gen, arg, rpcExited, pool, world,
                   history>>

(* AppInit2 calls GenerateBitcoins with what -gen is by then.                *)
CallGenerate ==
    /\ caller["init"] = "idle"
    /\ arg' = [arg EXCEPT !["init"] = gen]
    /\ Go("init", "enter")
    /\ UNCHANGED <<gPrimeServer, csMain, requested, gen, rpcExited, pool, world,
                   history>>

-----------------------------------------------------------------------------
(* GenerateBitcoins.                                                         *)

Enter_AlwaysCreates(t) ==
    /\ caller[t] = "enter"
    /\ Go(t, CASE gPrimeServer # "null" /\ ~arg[t] -> "delete"
               [] arg[t]                           -> "create"
               [] OTHER                            -> "done")
    /\ UNCHANGED <<gPrimeServer, csMain, requested, gen, arg, rpcExited, pool,
                   world, history>>

Enter(t) ==
    /\ caller[t] = "enter"
    /\ Go(t, CASE gPrimeServer # "null" /\ ~arg[t] -> "delete"
               [] gPrimeServer = "null" /\ arg[t]  -> "create"
               [] OTHER                            -> "done")
    /\ UNCHANGED <<gPrimeServer, csMain, requested, gen, arg, rpcExited, pool,
                   world, history>>

(* The constructor: the backend, then the workers; each has said it is       *)
(* ready, and none of it takes cs_main from another thread.                  *)
Create(t) ==
    /\ caller[t] = "create"
    /\ gPrimeServer' = "live"
    /\ leaked' = (leaked \/ gPrimeServer # "null")
    /\ worker' = [w \in Worker |-> "loop"]
    /\ input' = [w \in Worker |-> <<>>]
    /\ backend' = "loop"
    /\ pipe' = FALSE
    /\ Go(t, "first")
    /\ UNCHANGED <<csMain, requested, gen, arg, rpcExited, world, overlap, misuse>>

(* The first NotifyNewBlock, for the block that is the best by now.          *)
FirstNotify(t) ==
    /\ caller[t] = "first"
    /\ Notify
    /\ Go(t, "done")
    /\ UNCHANGED <<gPrimeServer, csMain, requested, gen, arg, rpcExited, worker,
                   backend, pipe, world>>

(* The destructor tells the workers to stop, waits for each of them, then    *)
(* tells the backend and waits for it.                                       *)
SignalWorkers(t) ==
    /\ caller[t] = "delete"
    /\ misuse' = \/ misuse
                  \/ gPrimeServer # "live"
                  \/ \E u \in Caller : caller[u] \in {"workers", "backend", "null"}
    /\ UNCHANGED <<overlap, leaked>>
    /\ Publish("SHUTDOWN")
    /\ Go(t, "workers")
    /\ UNCHANGED <<gPrimeServer, csMain, requested, gen, arg, rpcExited, worker,
                   backend, pipe, world>>

JoinWorkers_NoWait(t) ==
    /\ caller[t] = "workers"
    /\ pipe' = TRUE
    /\ Go(t, "backend")
    /\ UNCHANGED <<gPrimeServer, csMain, requested, gen, arg, rpcExited, worker,
                   input, backend, world, history>>

JoinWorkers_NoSignal(t) ==
    /\ caller[t] = "workers"
    /\ \A w \in Worker : worker[w] = "stopped"
    /\ Go(t, "backend")
    /\ UNCHANGED <<gPrimeServer, csMain, requested, gen, arg, rpcExited, pool,
                   world, history>>

JoinWorkers(t) ==
    /\ caller[t] = "workers"
    /\ \A w \in Worker : worker[w] = "stopped"
    /\ pipe' = TRUE
    /\ Go(t, "backend")
    /\ UNCHANGED <<gPrimeServer, csMain, requested, gen, arg, rpcExited, worker,
                   input, backend, world, history>>

JoinBackend(t) ==
    /\ caller[t] = "backend"
    /\ backend = "stopped"
    /\ gPrimeServer' = "freed"
    /\ Go(t, "null")
    /\ UNCHANGED <<csMain, requested, gen, arg, rpcExited, pool, world, history>>

SetNull(t) ==
    /\ caller[t] = "null"
    /\ gPrimeServer' = "null"
    /\ leaked' = (leaked \/ gPrimeServer = "live")
    /\ Go(t, "done")
    /\ UNCHANGED <<csMain, requested, gen, arg, rpcExited, pool, world,
                   overlap, misuse>>

GenerateBitcoins(t) ==
    \/ Enter(t) \/ Create(t) \/ FirstNotify(t)
    \/ SignalWorkers(t) \/ JoinWorkers(t) \/ JoinBackend(t) \/ SetNull(t)

-----------------------------------------------------------------------------
(* The network thread: SetBestChain, under cs_main, looks at the pointer and *)
(* then calls through it.                                                    *)
SetBestChain ==
    /\ net = "idle"
    /\ bests < MaxBest
    /\ caller["stop"] # "exited"
    /\ csMain = "free"
    /\ csMain' = "net"
    /\ net' = "check"
    /\ bests' = bests + 1
    /\ UNCHANGED <<gPrimeServer, requested, gen, caller, arg, rpcExited, pool,
                   peers, commands, history>>

CheckServer ==
    /\ net = "check"
    /\ IF gPrimeServer = "null"
       THEN net' = "idle" /\ csMain' = "free"
       ELSE net' = "call" /\ UNCHANGED csMain
    /\ UNCHANGED <<gPrimeServer, requested, gen, caller, arg, rpcExited, pool,
                   peers, bests, commands, history>>

CallServer ==
    /\ net = "call"
    /\ Publish("NEWBLOCK")
    /\ misuse' = (misuse \/ gPrimeServer # "live")
    /\ UNCHANGED <<overlap, leaked>>
    /\ net' = "idle"
    /\ csMain' = "free"
    /\ UNCHANGED <<gPrimeServer, requested, gen, caller, arg, rpcExited, worker,
                   backend, pipe, peers, bests, commands>>

-----------------------------------------------------------------------------
(* The workers.                                                              *)

At(w, here, there) ==
    worker[w] = here /\ worker' = [worker EXCEPT ![w] = there]

Receive_TakesHead(w, signal) ==
    /\ input[w] # <<>> /\ Head(input[w]) = signal
    /\ input' = [input EXCEPT ![w] = Head(@)]

Receive(w, signal) ==
    /\ input[w] # <<>> /\ Head(input[w]) = signal
    /\ input' = [input EXCEPT ![w] = Tail(@)]

ReceiveNewBlock(w) ==
    /\ At(w, "loop", "peers")
    /\ Receive(w, "NEWBLOCK")
    /\ UNCHANGED <<main, backend, pipe, world, history>>

ReceiveShutdown(w) ==
    /\ At(w, "loop", "stopped")
    /\ Receive(w, "SHUTDOWN")
    /\ UNCHANGED <<main, backend, pipe, world, history>>

(* The wait for peers looks at nothing else, not even at its signals.        *)
WaitForPeers(w) ==
    /\ At(w, "peers", "template")
    /\ peers
    /\ UNCHANGED <<main, input, backend, pipe, world, history>>

(* CreateNewBlock takes cs_main; the loop ends if it returns NULL.           *)
CreateNewBlock(w) ==
    /\ csMain = "free"
    /\ At(w, "template", "loop") \/ At(w, "template", "stopped")
    /\ UNCHANGED <<main, input, backend, pipe, world, history>>

(* A share that solves a block: CheckWork takes cs_main, and if the block    *)
(* becomes the best this very thread publishes it.                           *)
FindBlock(w) ==
    /\ At(w, "loop", "checkwork")
    /\ bests < MaxBest
    /\ UNCHANGED <<main, input, backend, pipe, world, history>>

CheckWork(w) ==
    /\ csMain = "free"
    /\ At(w, "checkwork", "loop")
    /\ \/ UNCHANGED <<input, bests, history>>
       \/ bests < MaxBest /\ bests' = bests + 1 /\ Notify
    /\ UNCHANGED <<main, backend, pipe, net, peers, commands>>

(* The backend: Accounting takes cs_main to pay.                             *)
Account ==
    /\ backend = "loop"
    /\ backend' = "pay"
    /\ UNCHANGED <<main, worker, input, pipe, world, history>>

SendMoney ==
    /\ backend = "pay"
    /\ csMain = "free"
    /\ backend' = "loop"
    /\ UNCHANGED <<main, worker, input, pipe, world, history>>

StopBackend ==
    /\ backend = "loop"
    /\ pipe
    /\ backend' = "stopped"
    /\ UNCHANGED <<main, worker, input, pipe, world, history>>

PeersCome == ~peers /\ peers' = TRUE /\ UNCHANGED <<main, pool, net, bests, commands, history>>
PeersGo == peers /\ peers' = FALSE /\ UNCHANGED <<main, pool, net, bests, commands, history>>

-----------------------------------------------------------------------------
(* AppInit2 has started the RPC threads; the node has or has not peers yet.     *)
Init ==
    /\ gPrimeServer = "null"
    /\ csMain = "free"
    /\ requested = FALSE
    /\ gen \in BOOLEAN
    /\ caller = [t \in Caller |-> "idle"]
    /\ arg = [t \in Caller |-> FALSE]
    /\ net = "idle"
    /\ worker = [w \in Worker |-> "stopped"]
    /\ input = [w \in Worker |-> <<>>]
    /\ backend = "stopped"
    /\ pipe = FALSE
    /\ peers \in BOOLEAN
    /\ rpcExited = FALSE
    /\ bests = 0
    /\ commands = 0
    /\ overlap = FALSE /\ leaked = FALSE /\ misuse = FALSE

Progress(w) == ReceiveNewBlock(w) \/ ReceiveShutdown(w)

Next ==
    \/ RequestShutdown \/ Detect \/ StopNode \/ DeleteWallet
    \/ CallGenerate \/ RpcCall \/ RpcReturn
    \/ \E t \in Caller : GenerateBitcoins(t)
    \/ SetBestChain \/ CheckServer \/ CallServer
    \/ \E w \in Worker : \/ Progress(w) \/ WaitForPeers(w) \/ CreateNewBlock(w)
                         \/ FindBlock(w) \/ CheckWork(w)
    \/ Account \/ SendMoney \/ StopBackend
    \/ PeersCome \/ PeersGo

Spec == Init /\ [][Next]_vars

(* Fairness: every thread that can go on does, a thread that waits for       *)
(* cs_main gets it when it is free again and again, and a loop serves its    *)
(* signals and its pipe.  Nothing is promised about peers.                   *)
FairSpec ==
    /\ Spec
    /\ WF_vars(CallGenerate) /\ WF_vars(Detect) /\ WF_vars(StopNode)
    /\ WF_vars(CheckServer \/ CallServer)
    /\ SF_vars(DeleteWallet)
    /\ WF_vars(RpcReturn)
    /\ \A t \in Caller : WF_vars(GenerateBitcoins(t))
    /\ \A w \in Worker :
         /\ SF_vars(Progress(w))
         /\ SF_vars(WaitForPeers(w) \/ CreateNewBlock(w) \/ CheckWork(w))
    /\ SF_vars(SendMoney) /\ SF_vars(StopBackend)

(* The node is not without peers for ever.                                   *)
PeersSpec == FairSpec /\ WF_vars(PeersCome)

-----------------------------------------------------------------------------
(* Properties.                                                               *)

(* Type correctness.                                                         *)
TypeOK ==
    /\ gPrimeServer \in {"null", "live", "freed"}
    /\ csMain \in {"free", "net", "rpc"}
    /\ requested \in BOOLEAN /\ gen \in BOOLEAN
    /\ caller \in [Caller -> {"idle", "enter", "create", "first", "delete",
                              "workers", "backend", "null", "done", "exited"}]
    /\ arg \in [Caller -> BOOLEAN]
    /\ net \in {"idle", "check", "call"}
    /\ worker \in [Worker -> {"loop", "peers", "template", "checkwork", "stopped"}]
    /\ input \in [Worker -> Seq({"NEWBLOCK", "SHUTDOWN"})]
    /\ backend \in {"loop", "pay", "stopped"}
    /\ pipe \in BOOLEAN /\ peers \in BOOLEAN /\ rpcExited \in BOOLEAN
    /\ bests \in Nat /\ commands \in Nat
    /\ overlap \in BOOLEAN /\ leaked \in BOOLEAN /\ misuse \in BOOLEAN

(* When the wallet is deleted no thread of the pool is left that could use   *)
(* it, also if setgenerate started a server that the detecting thread never  *)
(* saw (init.cpp:102-120, net.cpp:1820).                                     *)
WalletOutlivesServer ==
    caller["stop"] = "exited" /\ ~leaked =>
        /\ gPrimeServer = "null"
        /\ \A w \in Worker : worker[w] = "stopped"
        /\ backend = "stopped"

(* Nobody calls or deletes a server that is gone, unless a shutdown is        *)
(* requested or a command overlaps with AppInit2's call: SetBestChain and    *)
(* setgenerate hold cs_main, the thread that detects the shutdown and        *)
(* AppInit2 do not (bitcoinrpc.cpp:1047, main.cpp:1897, 4823-4828,           *)
(* init.cpp:135, 1089).                                                      *)
NoMisuse == misuse => requested \/ overlap

(* There is one server at a time, and the pointer to it is never lost, unless*)
(* a command overlaps with AppInit2's call, where both would see no server   *)
(* and create one, or a server has been deleted twice (init.cpp:1086-1089,   *)
(* main.cpp:4823-4832).                                                      *)
SingleServer == leaked => overlap \/ misuse

(* A server is taken down only from the state where all its threads have     *)
(* ended: no worker outlives the pointer (pool.cpp:731-755).                 *)
NoOrphanThreads ==
    gPrimeServer # "live" /\ ~leaked =>
        /\ \A w \in Worker : worker[w] = "stopped"
        /\ backend = "stopped"

(* A requested shutdown completes, if the node finds peers, and unless        *)
(* setgenerate false waits for ever, with cs_main, for a worker or for the   *)
(* backend (see GenerationTurnsOff), or a server has been lost or misused.   *)
ShutdownCompletes ==
    \/ requested ~> caller["stop"] = "exited"
    \/ <>[](caller["rpc"] \in {"workers", "backend"})
    \/ <>(leaked \/ misuse)

(* "<generate> is true or false to turn generation on or off"                *)
(* (rpcmining.cpp:31): setgenerate false ends with no server.                *)
GenerationTurnsOff ==
    (caller["rpc"] = "enter" /\ ~arg["rpc"]) ~> gPrimeServer = "null"

(* The shutdown request "triggers the DetectShutdownThread()", which "then   *)
(* exits, which causes AppInit() to continue" (init.cpp:61-65).              *)
DetectExits == requested ~> caller["detect"] = "done"

=============================================================================
