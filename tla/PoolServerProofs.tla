--------------------------- MODULE PoolServerProofs ---------------------------
(***************************************************************************)
(* Proofs about PoolServer, for any number of workers and any sequence of   *)
(* commands, blocks and shutdown requests.  The threads of a server end in  *)
(* order (PipeInv, OrphanInv), Shutdown comes last (StopInv), and who may   *)
(* be inside the constructor or the destructor follows from the pointer, as *)
(* long as no command overlaps with the start (SingleInv) and, for calls    *)
(* through it, no shutdown is requested either (CalmInv, LockInv).  Last,   *)
(* what a destructor that waits may be waiting for (DeleteInv).             *)
(***************************************************************************)
EXTENDS PoolServer, TLAPS

(* The destructor signals the backend when the workers have ended, and only  *)
(* then does the backend end.                                                *)
PipeInv == pipe \/ backend = "stopped" => \A w \in Worker : worker[w] = "stopped"

(* Without a server there is no backend.                                     *)
OrphanInv == gPrimeServer # "live" /\ ~leaked => backend = "stopped"

(* When Shutdown has come to StopNode nobody else is in GenerateBitcoins, or *)
(* will be; it never starts a server, and when it is through there is none.  *)
StopInv ==
    /\ ~arg["detect"] /\ ~arg["stop"]
    /\ {caller["detect"], caller["stop"]} \cap {"create", "first"} = {}
    /\ caller["stop"] # "idle" =>
         /\ caller["init"] = "done" /\ caller["detect"] = "done"
         /\ caller["rpc"] = "idle" /\ rpcExited
    /\ caller["stop"] \in {"done", "exited"} => gPrimeServer = "null"

(* Who is where follows from the pointer.                                    *)
Deleting(t) == caller[t] \in {"workers", "backend", "null"}

Single ==
    /\ ~leaked
    /\ \A t, u \in Caller : Deleting(t) /\ Deleting(u) => t = u
    /\ \A t \in Caller :
         /\ caller[t] \in {"workers", "backend"} => gPrimeServer = "live"
         /\ caller[t] = "null" => gPrimeServer = "freed"
         /\ caller[t] = "create" => gPrimeServer = "null"
    /\ caller["rpc"] # "idle" => caller["init"] = "done"

SingleInv == overlap \/ misuse \/ Single

LockInv ==
    /\ csMain = "rpc" <=> caller["rpc"] # "idle"
    /\ csMain = "net" <=> net # "idle"

(* Before a shutdown is requested, AppInit2 makes its call alone, and then   *)
(* only commands change the pointer, under cs_main.                          *)
Calm ==
    /\ ~misuse
    /\ caller["detect"] = "idle" /\ caller["stop"] = "idle"
    /\ caller["rpc"] # "idle" => caller["init"] = "done"
    /\ caller["init"] \in {"idle", "enter", "create", "first", "done"}
    /\ caller["init"] \in {"idle", "enter", "create"} => gPrimeServer = "null"
    /\ caller["init"] = "first" => gPrimeServer = "live"
    /\ caller["rpc"] \in {"first", "delete"} => gPrimeServer = "live"
    /\ gPrimeServer = "freed" => caller["rpc"] = "null"
    /\ net = "call" => gPrimeServer = "live"

CalmInv == requested \/ overlap \/ Calm

Inv == TypeOK /\ PipeInv /\ OrphanInv /\ StopInv /\ SingleInv /\ LockInv /\ CalmInv

-----------------------------------------------------------------------------
(* Every step is one of a caller in GenerateBitcoins, one of those that lead *)
(* a caller in or out of it, or one of the threads.                          *)
Around ==
    \/ RequestShutdown \/ Detect \/ StopNode \/ DeleteWallet
    \/ CallGenerate \/ RpcCall \/ RpcReturn

WorkerStep(w) ==
    Progress(w) \/ WaitForPeers(w) \/ CreateNewBlock(w) \/ FindBlock(w) \/ CheckWork(w)

Elsewhere ==
    \/ SetBestChain \/ CheckServer \/ CallServer
    \/ \E w \in Worker : WorkerStep(w)
    \/ Account \/ SendMoney \/ StopBackend \/ PeersCome \/ PeersGo
    \/ UNCHANGED vars

LEMMA Cases ==
    ASSUME [Next]_vars
    PROVE  (\E t \in Caller : GenerateBitcoins(t)) \/ Around \/ Elsewhere
BY DEF Next, Around, Elsewhere, WorkerStep

(* Facts about single assignments.                                           *)
LEMMA Gone ==
    ASSUME TypeOK, NEW t \in Caller, NEW x, Go(t, x)
    PROVE  /\ caller'[t] = x
           /\ \A u \in Caller : u # t => caller'[u] = caller[u]
           /\ DOMAIN caller' = Caller
BY DEF TypeOK, Go

LEMMA Callers == ASSUME NEW t \in Caller
                 PROVE  t = "init" \/ t = "detect" \/ t = "rpc" \/ t = "stop"
BY DEF Caller

LEMMA Signalled ==
    ASSUME TypeOK, NEW s \in {"NEWBLOCK", "SHUTDOWN"}, Publish(s)
    PROVE  input' \in [Worker -> Seq({"NEWBLOCK", "SHUTDOWN"})]
<1>. DEFINE Signal == {"NEWBLOCK", "SHUTDOWN"}
<1>1. input \in [Worker -> Seq(Signal)]
  BY DEF TypeOK
<1>2. \A w \in Worker : Append(input[w], s) \in Seq(Signal)
  BY <1>1
<1>. QED  BY <1>2 DEF Publish

LEMMA Received ==
    ASSUME TypeOK, NEW w \in Worker, NEW s, Receive(w, s)
    PROVE  input' \in [Worker -> Seq({"NEWBLOCK", "SHUTDOWN"})]
<1>. DEFINE Signal == {"NEWBLOCK", "SHUTDOWN"}
<1>1. input \in [Worker -> Seq(Signal)] /\ input[w] # <<>>
  BY DEF TypeOK, Receive
<1>2. Tail(input[w]) \in Seq(Signal)
  BY <1>1
<1>. QED  BY <1>1, <1>2 DEF Receive

LEMMA Moved ==
    ASSUME TypeOK, NEW w \in Worker, NEW here,
           NEW there \in {"loop", "peers", "template", "checkwork", "stopped"},
           At(w, here, there)
    PROVE  /\ worker' \in [Worker -> {"loop", "peers", "template", "checkwork", "stopped"}]
           /\ worker[w] = here
BY DEF TypeOK, At

-----------------------------------------------------------------------------
(* Type correctness.                                                         *)
LEMMA TypeCallers ==
    ASSUME TypeOK, Around
    PROVE  TypeOK'
<1>. USE DEF pool, world, history, TypeOK, Caller
<1>1. CASE RequestShutdown
  BY <1>1 DEF RequestShutdown
<1>2. CASE Detect
  BY <1>2 DEF Detect, Go
<1>3. CASE StopNode
  BY <1>3 DEF StopNode, Go
<1>4. CASE DeleteWallet
  BY <1>4 DEF DeleteWallet, Go
<1>5. CASE CallGenerate
  BY <1>5 DEF CallGenerate, Go
<1>6. CASE RpcCall
  <2>1. PICK f \in RpcCommands : gen' = f /\ arg' = [arg EXCEPT !["rpc"] = f]
    BY <1>6 DEF RpcCall
  <2>2. f \in BOOLEAN
    BY CommandAssumption
  <2>3. overlap' = (overlap \/ caller["init"] # "done")
    BY <1>6 DEF RpcCall
  <2>4. overlap' \in BOOLEAN
    BY <2>3
  <2>5. commands' \in Nat
    BY <1>6 DEF RpcCall
  <2>. QED  BY <1>6, <2>1, <2>2, <2>4, <2>5 DEF RpcCall, LockMain, Go
<1>7. CASE RpcReturn
  BY <1>7 DEF RpcReturn, Go
<1>. QED  BY <1>1, <1>2, <1>3, <1>4, <1>5, <1>6, <1>7 DEF Around

LEMMA TypeGenerate ==
    ASSUME TypeOK, NEW t \in Caller, GenerateBitcoins(t)
    PROVE  TypeOK'
<1>. USE DEF pool, world, history
<1>1. CASE Enter(t)
  BY <1>1 DEF Enter, Go, TypeOK
<1>2. CASE Create(t)
  <2>1. leaked' \in BOOLEAN
    BY <1>2 DEF Create
  <2>2. input' \in [Worker -> Seq({"NEWBLOCK", "SHUTDOWN"})]
    <3>1. <<>> \in Seq({"NEWBLOCK", "SHUTDOWN"})
      OBVIOUS
    <3>. QED  BY <1>2, <3>1 DEF Create
  <2>. QED  BY <1>2, <2>1, <2>2, ZenonT(60) DEF Create, Go, TypeOK
<1>3. CASE FirstNotify(t)
  <2>1. misuse' \in BOOLEAN /\ input' \in [Worker -> Seq({"NEWBLOCK", "SHUTDOWN"})]
    BY <1>3, Signalled DEF FirstNotify, Notify
  <2>. QED  BY <1>3, <2>1 DEF FirstNotify, Notify, Go, TypeOK
<1>4. CASE SignalWorkers(t)
  <2>1. misuse' \in BOOLEAN /\ input' \in [Worker -> Seq({"NEWBLOCK", "SHUTDOWN"})]
    BY <1>4, Signalled DEF SignalWorkers
  <2>. QED  BY <1>4, <2>1 DEF SignalWorkers, Go, TypeOK
<1>5. CASE JoinWorkers(t)
  BY <1>5 DEF JoinWorkers, Go, TypeOK
<1>6. CASE JoinBackend(t)
  BY <1>6 DEF JoinBackend, Go, TypeOK
<1>7. CASE SetNull(t)
  <2>1. leaked' \in BOOLEAN
    BY <1>7 DEF SetNull
  <2>. QED  BY <1>7, <2>1 DEF SetNull, Go, TypeOK
<1>. QED  BY <1>1, <1>2, <1>3, <1>4, <1>5, <1>6, <1>7 DEF GenerateBitcoins

LEMMA TypeThreads ==
    ASSUME TypeOK, Elsewhere
    PROVE  TypeOK'
<1>. USE DEF main, pool, world, history
<1>1. CASE SetBestChain
  BY <1>1 DEF SetBestChain, TypeOK
<1>2. CASE CheckServer
  BY <1>2 DEF CheckServer, TypeOK
<1>3. CASE CallServer
  <2>1. misuse' \in BOOLEAN /\ input' \in [Worker -> Seq({"NEWBLOCK", "SHUTDOWN"})]
    BY <1>3, Signalled DEF CallServer
  <2>. QED  BY <1>3, <2>1 DEF CallServer, TypeOK
<1>4. ASSUME NEW w \in Worker, Progress(w) PROVE TypeOK'
  <2>1. input' \in [Worker -> Seq({"NEWBLOCK", "SHUTDOWN"})]
        /\ worker' \in [Worker -> {"loop", "peers", "template", "checkwork", "stopped"}]
    BY <1>4, Received, Moved DEF Progress, ReceiveNewBlock, ReceiveShutdown
  <2>. QED  BY <1>4, <2>1 DEF Progress, ReceiveNewBlock, ReceiveShutdown, TypeOK
<1>5. ASSUME NEW w \in Worker, WaitForPeers(w) \/ CreateNewBlock(w) \/ FindBlock(w)
      PROVE TypeOK'
  <2>1. worker' \in [Worker -> {"loop", "peers", "template", "checkwork", "stopped"}]
    BY <1>5, Moved DEF WaitForPeers, CreateNewBlock, FindBlock
  <2>. QED  BY <1>5, <2>1 DEF WaitForPeers, CreateNewBlock, FindBlock, TypeOK
<1>6. ASSUME NEW w \in Worker, CheckWork(w) PROVE TypeOK'
  <2>1. worker' \in [Worker -> {"loop", "peers", "template", "checkwork", "stopped"}]
    BY <1>6, Moved DEF CheckWork
  <2>2. CASE UNCHANGED <<input, bests, history>>
    BY <1>6, <2>1, <2>2 DEF CheckWork, TypeOK
  <2>3. CASE bests' = bests + 1 /\ Notify
    <3>1. misuse' \in BOOLEAN /\ input' \in [Worker -> Seq({"NEWBLOCK", "SHUTDOWN"})]
      BY <2>3, Signalled DEF Notify
    <3>. QED  BY <1>6, <2>1, <2>3, <3>1 DEF CheckWork, Notify, TypeOK
  <2>. QED  BY <1>6, <2>2, <2>3 DEF CheckWork
<1>7. CASE Account \/ SendMoney \/ StopBackend
  BY <1>7 DEF Account, SendMoney, StopBackend, TypeOK
<1>8. CASE PeersCome \/ PeersGo
  <2>1. peers' \in BOOLEAN
    BY <1>8 DEF PeersCome, PeersGo
  <2>2. UNCHANGED <<main, pool, net, bests, commands, history>>
    BY <1>8 DEF PeersCome, PeersGo
  <2>. QED  BY <2>1, <2>2 DEF TypeOK
<1>9. CASE UNCHANGED vars
  BY <1>9 DEF vars, TypeOK
<1>. QED
  BY <1>1, <1>2, <1>3, <1>4, <1>5, <1>6, <1>7, <1>8, <1>9 DEF Elsewhere, WorkerStep

LEMMA TypeStep == ASSUME TypeOK, [Next]_vars PROVE TypeOK'
BY Cases, TypeCallers, TypeGenerate, TypeThreads

-----------------------------------------------------------------------------
(* The threads of a server.                                                  *)
LEMMA PipeStep ==
    ASSUME TypeOK, PipeInv, [Next]_vars
    PROVE  PipeInv'
<1>. DEFINE Ended == \A w \in Worker : worker[w] = "stopped"
<1>. USE DEF main, pool, world, history
<1>1. CASE UNCHANGED <<worker, backend, pipe>>
  BY <1>1 DEF PipeInv
<1>2. ASSUME NEW t \in Caller, Create(t) PROVE PipeInv'
  BY <1>2 DEF Create, PipeInv
<1>3. ASSUME NEW t \in Caller, JoinWorkers(t) PROVE PipeInv'
  BY <1>3 DEF JoinWorkers, PipeInv
<1>4. ASSUME NEW w \in Worker, worker[w] # "stopped", UNCHANGED <<backend, pipe>>
      PROVE  PipeInv'
  BY <1>4 DEF PipeInv
<1>5. CASE Account \/ SendMoney \/ StopBackend
  BY <1>5 DEF Account, SendMoney, StopBackend, PipeInv
<1>6. ASSUME NEW t \in Caller,
             Enter(t) \/ FirstNotify(t) \/ SignalWorkers(t) \/ JoinBackend(t) \/ SetNull(t)
      PROVE  UNCHANGED <<worker, backend, pipe>>
  BY <1>6 DEF Enter, FirstNotify, SignalWorkers, JoinBackend, SetNull
<1>7. ASSUME NEW w \in Worker, WorkerStep(w)
      PROVE  worker[w] # "stopped" /\ UNCHANGED <<backend, pipe>>
  BY <1>7 DEF WorkerStep, Progress, ReceiveNewBlock, ReceiveShutdown, WaitForPeers, CreateNewBlock,
              FindBlock, CheckWork, At
<1>8. CASE Around \/ SetBestChain \/ CheckServer \/ CallServer \/ PeersCome \/ PeersGo
  BY <1>1, <1>8 DEF Around, RequestShutdown, Detect, StopNode, DeleteWallet, CallGenerate,
     RpcCall, RpcReturn, SetBestChain, CheckServer, CallServer, PeersCome, PeersGo
<1>9. CASE UNCHANGED vars
  BY <1>1, <1>9 DEF vars
<1>. QED
  BY <1>1, <1>2, <1>3, <1>4, <1>5, <1>6, <1>7, <1>8, <1>9, Cases
  DEF GenerateBitcoins, Elsewhere

LEMMA OrphanStep ==
    ASSUME TypeOK, OrphanInv, [Next]_vars
    PROVE  OrphanInv'
<1>. USE DEF main, pool, world, history
<1>1. CASE UNCHANGED <<gPrimeServer, leaked, backend>>
  BY <1>1 DEF OrphanInv
<1>2. ASSUME NEW t \in Caller, Create(t) \/ JoinBackend(t) \/ SetNull(t) PROVE OrphanInv'
  BY <1>2 DEF Create, JoinBackend, SetNull, OrphanInv
<1>3. CASE Account \/ SendMoney \/ StopBackend
  BY <1>3 DEF Account, SendMoney, StopBackend, OrphanInv
<1>4. ASSUME NEW t \in Caller,
             Enter(t) \/ FirstNotify(t) \/ SignalWorkers(t) \/ JoinWorkers(t)
      PROVE  UNCHANGED <<gPrimeServer, leaked, backend>>
  BY <1>4 DEF Enter, FirstNotify, Notify, SignalWorkers, JoinWorkers
<1>5. ASSUME NEW w \in Worker, WorkerStep(w)
      PROVE  UNCHANGED <<gPrimeServer, leaked, backend>>
  BY <1>5 DEF WorkerStep, Progress, ReceiveNewBlock, ReceiveShutdown, WaitForPeers, CreateNewBlock,
              FindBlock, CheckWork, Notify
<1>6. CASE Around \/ SetBestChain \/ CheckServer \/ CallServer \/ PeersCome \/ PeersGo
  BY <1>1, <1>6 DEF Around, RequestShutdown, Detect, StopNode, DeleteWallet, CallGenerate,
     RpcCall, RpcReturn, SetBestChain, CheckServer, CallServer, PeersCome, PeersGo
<1>7. CASE UNCHANGED vars
  BY <1>1, <1>7 DEF vars
<1>. QED
  BY <1>1, <1>2, <1>3, <1>4, <1>5, <1>6, <1>7, Cases DEF GenerateBitcoins, Elsewhere

-----------------------------------------------------------------------------
(* What the workers, the backend, the network thread and the peers do        *)
(* touches no caller and no pointer.                                         *)
LEMMA ThreadsApart ==
    ASSUME Elsewhere
    PROVE  UNCHANGED <<gPrimeServer, requested, caller, arg, rpcExited, overlap, leaked>>
<1>. USE DEF main, pool, world, history
<1>1. CASE SetBestChain \/ CheckServer \/ CallServer
  BY <1>1 DEF SetBestChain, CheckServer, CallServer
<1>2. ASSUME NEW w \in Worker, WorkerStep(w)
      PROVE  UNCHANGED <<gPrimeServer, requested, caller, arg, rpcExited, overlap, leaked>>
  BY <1>2 DEF WorkerStep, Progress, ReceiveNewBlock, ReceiveShutdown, WaitForPeers,
              CreateNewBlock, FindBlock, CheckWork, Notify
<1>3. CASE Account \/ SendMoney \/ StopBackend \/ PeersCome \/ PeersGo \/ UNCHANGED vars
  BY <1>3 DEF Account, SendMoney, StopBackend, PeersCome, PeersGo, vars
<1>. QED  BY <1>1, <1>2, <1>3 DEF Elsewhere

(* Misuse is not taken back.                                                 *)
LEMMA MisuseStays == ASSUME [Next]_vars, misuse PROVE misuse'
<1>. USE DEF main, pool, world, history
<1>1. CASE SetBestChain \/ CheckServer
  BY <1>1 DEF SetBestChain, CheckServer
<1>2. CASE CallServer
  BY <1>2 DEF CallServer
<1>3. ASSUME NEW w \in Worker, WorkerStep(w) PROVE misuse'
  <2>1. CASE CheckWork(w) /\ Notify
    BY <2>1 DEF Notify
  <2>2. CASE CheckWork(w) /\ UNCHANGED misuse
    BY <2>2
  <2>3. CASE ~CheckWork(w)
    BY <1>3, <2>3 DEF WorkerStep, Progress, ReceiveNewBlock, ReceiveShutdown, WaitForPeers,
                CreateNewBlock, FindBlock
  <2>. QED  BY <2>1, <2>2, <2>3 DEF CheckWork
<1>4. CASE Account \/ SendMoney \/ StopBackend \/ PeersCome \/ PeersGo \/ UNCHANGED vars
  BY <1>4 DEF Account, SendMoney, StopBackend, PeersCome, PeersGo, vars
<1>5. CASE Around
  BY <1>5 DEF Around, RequestShutdown, Detect, StopNode, DeleteWallet, CallGenerate, RpcCall,
              RpcReturn
<1>6. ASSUME NEW t \in Caller, GenerateBitcoins(t) PROVE misuse'
  <2>1. CASE FirstNotify(t)
    BY <2>1 DEF FirstNotify, Notify
  <2>2. CASE SignalWorkers(t)
    BY <2>2 DEF SignalWorkers
  <2>3. CASE Enter(t) \/ Create(t) \/ JoinWorkers(t) \/ JoinBackend(t) \/ SetNull(t)
    BY <2>3 DEF Enter, Create, JoinWorkers, JoinBackend, SetNull
  <2>. QED  BY <1>6, <2>1, <2>2, <2>3 DEF GenerateBitcoins
<1>. QED  BY <1>1, <1>2, <1>3, <1>4, <1>5, <1>6, Cases DEF Elsewhere

-----------------------------------------------------------------------------
(* Shutdown comes last.                                                      *)
LEMMA StopGenerate ==
    ASSUME TypeOK, StopInv, NEW t \in Caller, GenerateBitcoins(t)
    PROVE  StopInv'
<1>. DEFINE Here == caller[t]  There == caller'[t]
<1>1. /\ Here \in {"enter", "create", "first", "delete", "workers", "backend", "null"}
      /\ UNCHANGED <<arg, rpcExited>>
  BY DEF GenerateBitcoins, Enter, Create, FirstNotify, SignalWorkers, JoinWorkers,
         JoinBackend, SetNull
<1>2. /\ \A u \in Caller : u # t => caller'[u] = caller[u]
      /\ There \in {"create", "first", "delete", "workers", "backend", "null", "done"}
      /\ There = "create" => arg[t] /\ Here = "enter"
      /\ There = "first" => Here = "create"
      /\ There = "done" => \/ Here = "first"
                           \/ Here = "enter" /\ (gPrimeServer = "null" \/ arg[t])
                           \/ gPrimeServer' = "null"
  <2>1. CASE Enter(t)
    <3>1. There = CASE gPrimeServer # "null" /\ ~arg[t] -> "delete"
                    [] gPrimeServer = "null" /\ arg[t]  -> "create"
                    [] OTHER                            -> "done"
      BY <2>1, Gone DEF Enter
    <3>. QED  BY <2>1, <3>1, Gone DEF Enter
  <2>2. CASE Create(t)
    BY <2>2, Gone DEF Create
  <2>3. CASE FirstNotify(t)
    BY <2>3, Gone DEF FirstNotify
  <2>4. CASE SignalWorkers(t)
    BY <2>4, Gone DEF SignalWorkers
  <2>5. CASE JoinWorkers(t)
    BY <2>5, Gone DEF JoinWorkers
  <2>6. CASE JoinBackend(t)
    BY <2>6, Gone DEF JoinBackend
  <2>7. CASE SetNull(t)
    BY <2>7, Gone DEF SetNull
  <2>. QED  BY <2>1, <2>2, <2>3, <2>4, <2>5, <2>6, <2>7 DEF GenerateBitcoins
<1>3. "init" \in Caller /\ "detect" \in Caller /\ "rpc" \in Caller /\ "stop" \in Caller
  BY DEF Caller
<1>4. caller["stop"] # "idle" => t = "stop"
  BY <1>1, Callers DEF StopInv
<1>5. {caller'["detect"], caller'["stop"]} \cap {"create", "first"} = {}
  BY <1>2, <1>3 DEF StopInv
<1>6. caller'["stop"] # "idle" =>
         /\ caller'["init"] = "done" /\ caller'["detect"] = "done"
         /\ caller'["rpc"] = "idle" /\ rpcExited'
  BY <1>1, <1>2, <1>3, <1>4 DEF StopInv
<1>7. ASSUME caller'["stop"] \in {"done", "exited"} PROVE gPrimeServer' = "null"
  <2>1. t = "stop" /\ There = "done"
    BY <1>1, <1>2, <1>3, <1>4, <1>7
  <2>2. Here # "first" /\ ~arg[t]
    BY <1>3, <2>1 DEF StopInv
  <2>3. Here = "enter" => UNCHANGED gPrimeServer
    BY DEF GenerateBitcoins, Enter, Create, FirstNotify, SignalWorkers, JoinWorkers,
           JoinBackend, SetNull
  <2>. QED  BY <1>2, <2>1, <2>2, <2>3
<1>. QED  BY <1>1, <1>5, <1>6, <1>7 DEF StopInv

LEMMA StopStep ==
    ASSUME TypeOK, StopInv, [Next]_vars
    PROVE  StopInv'
<1>0. "init" \in Caller /\ "detect" \in Caller /\ "rpc" \in Caller /\ "stop" \in Caller
  BY DEF Caller
<1>1. CASE Elsewhere
  BY <1>1, ThreadsApart DEF StopInv
<1>2. ASSUME NEW t \in Caller, GenerateBitcoins(t) PROVE StopInv'
  BY <1>2, StopGenerate
<1>3. CASE RequestShutdown
  BY <1>3 DEF RequestShutdown, StopInv
<1>4. CASE Detect
  <2>1. caller["detect"] = "idle" /\ UNCHANGED <<arg, rpcExited, gPrimeServer>>
        /\ caller'["detect"] \in {"enter", "done"}
        /\ \A u \in Caller : u # "detect" => caller'[u] = caller[u]
    BY <1>0, <1>4, Gone DEF Detect
  <2>. QED  BY <1>0, <2>1 DEF StopInv
<1>5. CASE StopNode
  <2>1. caller'["stop"] = "enter" /\ \A u \in Caller : u # "stop" => caller'[u] = caller[u]
    BY <1>0, <1>5, Gone DEF StopNode
  <2>2. rpcExited' = TRUE /\ UNCHANGED <<arg, gPrimeServer>>
        /\ caller["init"] = "done" /\ caller["detect"] = "done" /\ caller["rpc"] = "idle"
    BY <1>5 DEF StopNode
  <2>. QED  BY <1>0, <2>1, <2>2 DEF StopInv
<1>6. CASE DeleteWallet
  <2>1. caller'["stop"] = "exited" /\ \A u \in Caller : u # "stop" => caller'[u] = caller[u]
    BY <1>0, <1>6, Gone DEF DeleteWallet
  <2>2. UNCHANGED <<rpcExited, arg, gPrimeServer>> /\ caller["stop"] = "done"
    BY <1>6 DEF DeleteWallet
  <2>. QED  BY <1>0, <2>1, <2>2 DEF StopInv
<1>7. CASE CallGenerate
  <2>1. caller'["init"] = "enter" /\ \A u \in Caller : u # "init" => caller'[u] = caller[u]
    BY <1>0, <1>7, Gone DEF CallGenerate
  <2>2. UNCHANGED <<rpcExited, gPrimeServer>> /\ caller["init"] = "idle"
        /\ arg'["detect"] = arg["detect"] /\ arg'["stop"] = arg["stop"]
    BY <1>0, <1>7 DEF CallGenerate, TypeOK
  <2>. QED  BY <1>0, <2>1, <2>2 DEF StopInv
<1>8. CASE RpcCall
  <2>1. caller'["rpc"] = "enter" /\ \A u \in Caller : u # "rpc" => caller'[u] = caller[u]
    BY <1>0, <1>8, Gone DEF RpcCall
  <2>2. UNCHANGED <<rpcExited, gPrimeServer>> /\ ~rpcExited
        /\ arg'["detect"] = arg["detect"] /\ arg'["stop"] = arg["stop"]
    BY <1>0, <1>8 DEF RpcCall, TypeOK
  <2>. QED  BY <1>0, <2>1, <2>2 DEF StopInv
<1>9. CASE RpcReturn
  <2>1. caller'["rpc"] = "idle" /\ \A u \in Caller : u # "rpc" => caller'[u] = caller[u]
    BY <1>0, <1>9, Gone DEF RpcReturn
  <2>2. UNCHANGED <<rpcExited, arg, gPrimeServer>>
    BY <1>9 DEF RpcReturn
  <2>. QED  BY <1>0, <2>1, <2>2 DEF StopInv
<1>. QED
  BY <1>1, <1>2, <1>3, <1>4, <1>5, <1>6, <1>7, <1>8, <1>9, Cases DEF Around

-----------------------------------------------------------------------------
(* One server at a time.                                                     *)
LEMMA OverlapStays == ASSUME [Next]_vars, overlap PROVE overlap'
<1>. USE DEF history
<1>1. CASE Elsewhere
  BY <1>1, ThreadsApart
<1>2. CASE Around
  BY <1>2 DEF Around, RequestShutdown, Detect, StopNode, DeleteWallet, CallGenerate, RpcCall,
              RpcReturn
<1>3. ASSUME NEW t \in Caller, GenerateBitcoins(t) PROVE overlap'
  BY <1>3 DEF GenerateBitcoins, Enter, Create, FirstNotify, Notify, SignalWorkers, JoinWorkers,
              JoinBackend, SetNull
<1>. QED  BY <1>1, <1>2, <1>3, Cases

LEMMA SingleGenerate ==
    ASSUME TypeOK, StopInv, Single, NEW t \in Caller, GenerateBitcoins(t)
    PROVE  misuse' \/ Single'
<1>. DEFINE Here == caller[t]  There == caller'[t]
            Others == \A u \in Caller : u # t => caller'[u] = caller[u]
<1>0. "init" \in Caller /\ "rpc" \in Caller /\ DOMAIN caller = Caller
  BY DEF Caller, TypeOK
<1>1. Here \notin {"idle", "done"}
  BY DEF GenerateBitcoins, Enter, Create, FirstNotify, SignalWorkers, JoinWorkers,
         JoinBackend, SetNull
<1>2. ASSUME Others PROVE caller'["rpc"] # "idle" => caller'["init"] = "done"
  <2>1. CASE t = "rpc"
    BY <1>0, <1>1, <1>2, <2>1 DEF Single
  <2>2. CASE t # "rpc" /\ caller["rpc"] = "idle"
    BY <1>0, <1>2, <2>2
  <2>3. CASE t # "rpc" /\ caller["rpc"] # "idle"
    BY <1>0, <1>1, <1>2, <2>3 DEF Single
  <2>. QED  BY <2>1, <2>2, <2>3
<1>3. CASE Enter(t)
  <2>1. Others /\ There = CASE gPrimeServer # "null" /\ ~arg[t] -> "delete"
                            [] gPrimeServer = "null" /\ arg[t]  -> "create"
                            [] OTHER                            -> "done"
    BY <1>3, Gone DEF Enter
  <2>2. There \in {"delete", "create", "done"} /\ (There = "create" => gPrimeServer = "null")
    BY <2>1
  <2>3. UNCHANGED <<gPrimeServer, leaked>>
    BY <1>3 DEF Enter, history
  <2>. QED  BY <1>2, <2>1, <2>2, <2>3 DEF Single, Deleting
<1>4. CASE Create(t)
  <2>1. Others /\ There = "first" /\ Here = "create" /\ gPrimeServer' = "live"
        /\ leaked' = (leaked \/ gPrimeServer # "null")
    BY <1>4, Gone DEF Create
  <2>2. gPrimeServer = "null" /\ ~leaked'
    BY <2>1 DEF Single
  <2>3. \A u \in Caller : ~Deleting(u)
    BY <2>2 DEF Single, Deleting
  <2>4. \A u \in Caller : u # t => caller[u] # "create"
    <3>1. \A u \in Caller : caller[u] = "create" => u = "init" \/ u = "rpc"
      BY Callers DEF StopInv
    <3>. QED  BY <1>0, <2>1, <3>1 DEF Single
  <2>5. \A u \in Caller : caller'[u] # "create" /\ caller'[u] \notin {"workers", "backend", "null"}
    BY <2>1, <2>3, <2>4 DEF Deleting
  <2>. QED  BY <1>2, <2>1, <2>2, <2>5 DEF Single, Deleting
<1>5. CASE FirstNotify(t)
  <2>1. Others /\ There = "done" /\ UNCHANGED <<gPrimeServer, leaked>>
    BY <1>5, Gone DEF FirstNotify, Notify
  <2>. QED  BY <1>2, <2>1 DEF Single, Deleting
<1>6. CASE SignalWorkers(t)
  <2>1. Others /\ There = "workers" /\ UNCHANGED <<gPrimeServer, leaked>>
    BY <1>6, Gone DEF SignalWorkers
  <2>2. CASE gPrimeServer # "live" \/ \E u \in Caller : Deleting(u)
    BY <1>6, <2>2 DEF SignalWorkers, Deleting
  <2>3. CASE gPrimeServer = "live" /\ \A u \in Caller : ~Deleting(u)
    BY <1>2, <2>1, <2>3 DEF Single, Deleting
  <2>. QED  BY <2>2, <2>3
<1>7. CASE JoinWorkers(t)
  <2>1. Others /\ There = "backend" /\ Here = "workers" /\ UNCHANGED <<gPrimeServer, leaked>>
    BY <1>7, Gone DEF JoinWorkers, history
  <2>. QED  BY <1>2, <2>1 DEF Single, Deleting
<1>8. CASE JoinBackend(t)
  <2>1. Others /\ There = "null" /\ Here = "backend" /\ UNCHANGED leaked
        /\ gPrimeServer' = "freed"
    BY <1>8, Gone DEF JoinBackend, history
  <2>2. \A u \in Caller : u # t => ~Deleting(u) /\ caller[u] # "create"
    BY <2>1 DEF Single, Deleting
  <2>. QED  BY <1>2, <2>1, <2>2 DEF Single, Deleting
<1>9. CASE SetNull(t)
  <2>1. Others /\ There = "done" /\ Here = "null" /\ gPrimeServer' = "null"
        /\ leaked' = (leaked \/ gPrimeServer = "live")
    BY <1>9, Gone DEF SetNull
  <2>2. ~leaked' /\ \A u \in Caller : u # t => ~Deleting(u)
    BY <2>1 DEF Single, Deleting
  <2>. QED  BY <1>2, <2>1, <2>2 DEF Single, Deleting
<1>. QED  BY <1>3, <1>4, <1>5, <1>6, <1>7, <1>8, <1>9 DEF GenerateBitcoins

LEMMA SingleAround ==
    ASSUME TypeOK, Single, Around
    PROVE  overlap' \/ Single'
<1>. DEFINE Calls(t) == /\ \A u \in Caller : u # t => caller'[u] = caller[u]
                        /\ caller'[t] \in {"idle", "enter", "done", "exited"}
<1>0. "init" \in Caller /\ "detect" \in Caller /\ "rpc" \in Caller /\ "stop" \in Caller
  BY DEF Caller
<1>1. UNCHANGED <<gPrimeServer, leaked>>
  BY DEF Around, RequestShutdown, Detect, StopNode, DeleteWallet, CallGenerate, RpcCall,
         RpcReturn, history
<1>2. ASSUME NEW t \in Caller, Calls(t),
             caller'["rpc"] # "idle" => caller'["init"] = "done"
      PROVE  Single'
  BY <1>1, <1>2 DEF Single, Deleting
<1>3. CASE RequestShutdown
  BY <1>1, <1>3 DEF RequestShutdown, Single, Deleting
<1>4. CASE Detect
  <2>1. Calls("detect")
    BY <1>0, <1>4, Gone DEF Detect
  <2>. QED  BY <1>0, <1>2, <2>1 DEF Single
<1>5. CASE StopNode \/ DeleteWallet
  <2>1. Calls("stop")
    BY <1>0, <1>5, Gone DEF StopNode, DeleteWallet
  <2>. QED  BY <1>0, <1>2, <2>1 DEF Single
<1>6. CASE CallGenerate
  <2>1. Calls("init") /\ caller["init"] = "idle"
    BY <1>0, <1>6, Gone DEF CallGenerate
  <2>. QED  BY <1>0, <1>2, <2>1 DEF Single
<1>7. CASE RpcCall
  <2>1. Calls("rpc")
    BY <1>0, <1>7, Gone DEF RpcCall
  <2>2. overlap' \/ caller["init"] = "done"
    BY <1>7 DEF RpcCall
  <2>. QED  BY <1>0, <1>2, <2>1, <2>2
<1>8. CASE RpcReturn
  <2>1. Calls("rpc") /\ caller'["rpc"] = "idle"
    BY <1>0, <1>8, Gone DEF RpcReturn
  <2>. QED  BY <1>0, <1>2, <2>1
<1>. QED  BY <1>3, <1>4, <1>5, <1>6, <1>7, <1>8 DEF Around

LEMMA SingleStep ==
    ASSUME TypeOK, StopInv, SingleInv, [Next]_vars
    PROVE  SingleInv'
<1>1. CASE overlap
  BY <1>1, OverlapStays DEF SingleInv
<1>2. CASE misuse
  BY <1>2, MisuseStays DEF SingleInv
<1>3. CASE Single
  <2>1. CASE Elsewhere
    BY <1>3, <2>1, ThreadsApart DEF SingleInv, Single, Deleting
  <2>2. CASE Around
    BY <1>3, <2>2, SingleAround DEF SingleInv
  <2>3. ASSUME NEW t \in Caller, GenerateBitcoins(t) PROVE SingleInv'
    BY <1>3, <2>3, SingleGenerate DEF SingleInv
  <2>. QED  BY <2>1, <2>2, <2>3, Cases
<1>. QED  BY <1>1, <1>2, <1>3 DEF SingleInv

-----------------------------------------------------------------------------
(* Who holds cs_main.                                                        *)
LEMMA GenerateFrame ==
    ASSUME TypeOK, NEW t \in Caller, GenerateBitcoins(t)
    PROVE  /\ caller[t] \notin {"idle", "done", "exited"}
           /\ caller'[t] # "idle"
           /\ \A u \in Caller : u # t => caller'[u] = caller[u]
           /\ UNCHANGED <<csMain, requested, arg, net, overlap>>
<1>. USE DEF world, history
<1>1. /\ caller[t] \notin {"idle", "done", "exited"}
      /\ UNCHANGED <<csMain, requested, arg, net, overlap>>
  BY DEF GenerateBitcoins, Enter, Create, FirstNotify, Notify, SignalWorkers, JoinWorkers,
         JoinBackend, SetNull
<1>2. PICK x \in {"create", "first", "delete", "workers", "backend", "null", "done"} : Go(t, x)
  BY DEF GenerateBitcoins, Enter, Create, FirstNotify, SignalWorkers, JoinWorkers,
         JoinBackend, SetNull
<1>. QED  BY <1>1, <1>2, Gone

LEMMA LockStep ==
    ASSUME TypeOK, LockInv, [Next]_vars
    PROVE  LockInv'
<1>. USE DEF main, world
<1>0. "init" \in Caller /\ "detect" \in Caller /\ "rpc" \in Caller /\ "stop" \in Caller
  BY DEF Caller
<1>1. ASSUME NEW t \in Caller, GenerateBitcoins(t) PROVE LockInv'
  <2>1. (caller'["rpc"] # "idle") <=> (caller["rpc"] # "idle")
    BY <1>0, <1>1, GenerateFrame
  <2>. QED  BY <1>1, <2>1, GenerateFrame DEF LockInv
<1>2. CASE RpcCall
  <2>1. csMain = "free" /\ csMain' = "rpc" /\ caller'["rpc"] = "enter" /\ UNCHANGED net
    BY <1>0, <1>2, Gone DEF RpcCall, LockMain
  <2>. QED  BY <2>1 DEF LockInv
<1>3. CASE RpcReturn
  <2>1. csMain' = "free" /\ caller["rpc"] = "done" /\ caller'["rpc"] = "idle" /\ UNCHANGED net
    BY <1>0, <1>3, Gone DEF RpcReturn
  <2>. QED  BY <2>1 DEF LockInv
<1>4. CASE SetBestChain \/ CheckServer \/ CallServer
  BY <1>4 DEF SetBestChain, CheckServer, CallServer, LockInv
<1>5. ASSUME NEW t \in {"init", "detect", "stop"}, NEW x, Go(t, x), UNCHANGED <<csMain, net>>
      PROVE  LockInv'
  BY <1>0, <1>5, Gone DEF LockInv
<1>6. CASE RequestShutdown
  BY <1>6 DEF RequestShutdown, LockInv
<1>7. CASE Detect \/ StopNode \/ DeleteWallet \/ CallGenerate
  BY <1>5, <1>7 DEF Detect, StopNode, DeleteWallet, CallGenerate
<1>8. ASSUME NEW w \in Worker, WorkerStep(w) PROVE UNCHANGED <<csMain, net, caller>>
  BY <1>8 DEF WorkerStep, Progress, ReceiveNewBlock, ReceiveShutdown, WaitForPeers,
              CreateNewBlock, FindBlock, CheckWork
<1>9. CASE Account \/ SendMoney \/ StopBackend \/ PeersCome \/ PeersGo \/ UNCHANGED vars
  BY <1>9 DEF Account, SendMoney, StopBackend, PeersCome, PeersGo, vars, LockInv
<1>. QED
  BY <1>1, <1>2, <1>3, <1>4, <1>6, <1>7, <1>8, <1>9, Cases DEF Around, Elsewhere, LockInv

-----------------------------------------------------------------------------
(* Before a shutdown is requested.                                           *)
LEMMA CalmGenerate ==
    ASSUME TypeOK, LockInv, Calm, NEW t \in Caller, GenerateBitcoins(t)
    PROVE  Calm'
<1>. DEFINE Others == \A u \in Caller : u # t => caller'[u] = caller[u]
<1>0. "init" \in Caller /\ "detect" \in Caller /\ "rpc" \in Caller /\ "stop" \in Caller
  BY DEF Caller
<1>1. t = "init" \/ t = "rpc"
  BY GenerateFrame, Callers DEF Calm
<1>2. Others /\ UNCHANGED net /\ caller'["detect"] = "idle" /\ caller'["stop"] = "idle"
  BY <1>0, <1>1, GenerateFrame DEF Calm
<1>3. CASE t = "init"
  <2>1. caller["rpc"] = "idle" /\ caller'["rpc"] = "idle" /\ gPrimeServer # "freed"
    BY <1>0, <1>2, <1>3, GenerateFrame DEF Calm
  <2>2. caller["init"] \in {"enter", "create", "first"}
    BY <1>3, GenerateFrame DEF Calm
  <2>3. CASE Enter(t)
    <3>1. UNCHANGED <<gPrimeServer, misuse>> /\ caller'["init"] \in {"create", "done"}
          /\ caller["init"] = "enter"
      BY <1>3, <2>3, Gone DEF Enter, history, Calm
    <3>. QED  BY <1>2, <2>1, <3>1 DEF Calm
  <2>4. CASE Create(t)
    <3>1. gPrimeServer' = "live" /\ UNCHANGED misuse /\ caller'["init"] = "first"
      BY <1>3, <2>4, Gone DEF Create
    <3>. QED  BY <1>2, <2>1, <3>1 DEF Calm
  <2>5. CASE FirstNotify(t)
    <3>1. UNCHANGED gPrimeServer /\ caller'["init"] = "done" /\ caller["init"] = "first"
          /\ misuse' = (misuse \/ gPrimeServer = "freed")
      BY <1>3, <2>5, Gone DEF FirstNotify, Notify
    <3>. QED  BY <1>2, <2>1, <3>1 DEF Calm
  <2>. QED
    BY <1>3, <2>2, <2>3, <2>4, <2>5 DEF GenerateBitcoins, SignalWorkers, JoinWorkers,
       JoinBackend, SetNull
<1>4. CASE t = "rpc"
  <2>1. caller["init"] = "done" /\ caller'["init"] = "done" /\ csMain = "rpc" /\ net = "idle"
    BY <1>0, <1>2, <1>4, GenerateFrame DEF Calm, LockInv
  <2>2. CASE Enter(t)
    <3>1. UNCHANGED <<gPrimeServer, misuse>> /\ caller["rpc"] = "enter"
          /\ caller'["rpc"] \in {"delete", "create", "done"}
          /\ (caller'["rpc"] = "delete" => gPrimeServer # "null")
      BY <1>4, <2>2, Gone DEF Enter, history
    <3>2. gPrimeServer # "freed" /\ gPrimeServer \in {"null", "live", "freed"}
      BY <3>1 DEF Calm, TypeOK
    <3>. QED  BY <1>2, <2>1, <3>1, <3>2 DEF Calm
  <2>3. CASE Create(t)
    <3>1. gPrimeServer' = "live" /\ UNCHANGED misuse
      BY <2>3 DEF Create
    <3>. QED  BY <1>2, <2>1, <3>1 DEF Calm
  <2>4. CASE FirstNotify(t)
    <3>1. UNCHANGED gPrimeServer /\ caller'["rpc"] = "done" /\ caller["rpc"] = "first"
          /\ misuse' = (misuse \/ gPrimeServer = "freed")
      BY <1>4, <2>4, Gone DEF FirstNotify, Notify
    <3>. QED  BY <1>2, <2>1, <3>1 DEF Calm
  <2>5. CASE SignalWorkers(t)
    <3>1. UNCHANGED gPrimeServer /\ caller'["rpc"] = "workers" /\ caller["rpc"] = "delete"
          /\ misuse' = \/ misuse
                       \/ gPrimeServer # "live"
                       \/ \E u \in Caller : caller[u] \in {"workers", "backend", "null"}
      BY <1>4, <2>5, Gone DEF SignalWorkers
    <3>2. \A u \in Caller : caller[u] \notin {"workers", "backend", "null"}
      BY <2>1, <3>1, Callers DEF Calm
    <3>3. gPrimeServer = "live" /\ ~misuse'
      BY <3>1, <3>2 DEF Calm
    <3>. QED  BY <1>2, <2>1, <3>1, <3>3 DEF Calm
  <2>6. CASE JoinWorkers(t)
    <3>1. UNCHANGED <<gPrimeServer, misuse>> /\ caller'["rpc"] = "backend"
          /\ caller["rpc"] = "workers"
      BY <1>4, <2>6, Gone DEF JoinWorkers, history
    <3>. QED  BY <1>2, <2>1, <3>1 DEF Calm
  <2>7. CASE JoinBackend(t)
    <3>1. gPrimeServer' = "freed" /\ UNCHANGED misuse /\ caller'["rpc"] = "null"
      BY <1>4, <2>7, Gone DEF JoinBackend, history
    <3>. QED  BY <1>2, <2>1, <3>1 DEF Calm
  <2>8. CASE SetNull(t)
    <3>1. gPrimeServer' = "null" /\ UNCHANGED misuse /\ caller'["rpc"] = "done"
      BY <1>4, <2>8, Gone DEF SetNull
    <3>. QED  BY <1>2, <2>1, <3>1 DEF Calm
  <2>. QED  BY <2>2, <2>3, <2>4, <2>5, <2>6, <2>7, <2>8 DEF GenerateBitcoins
<1>. QED  BY <1>1, <1>3, <1>4

LEMMA CalmAround ==
    ASSUME TypeOK, Calm, Around
    PROVE  requested' \/ overlap' \/ Calm'
<1>. DEFINE Others(t) == \A u \in Caller : u # t => caller'[u] = caller[u]
<1>0. "init" \in Caller /\ "detect" \in Caller /\ "rpc" \in Caller /\ "stop" \in Caller
  BY DEF Caller
<1>1. UNCHANGED <<gPrimeServer, misuse, net>>
  BY DEF Around, RequestShutdown, Detect, StopNode, DeleteWallet, CallGenerate, RpcCall,
         RpcReturn, world, history
<1>2. CASE RequestShutdown \/ Detect
  BY <1>2 DEF RequestShutdown, Detect
<1>3. ~StopNode /\ ~DeleteWallet
  BY DEF StopNode, DeleteWallet, Calm
<1>4. CASE CallGenerate
  <2>1. Others("init") /\ caller["init"] = "idle" /\ caller'["init"] = "enter"
    BY <1>0, <1>4, Gone DEF CallGenerate
  <2>. QED  BY <1>0, <1>1, <2>1 DEF Calm
<1>5. CASE RpcCall
  <2>1. Others("rpc") /\ caller["rpc"] = "idle" /\ caller'["rpc"] = "enter"
        /\ (overlap' \/ caller["init"] = "done")
    BY <1>0, <1>5, Gone DEF RpcCall
  <2>. QED  BY <1>0, <1>1, <2>1 DEF Calm
<1>6. CASE RpcReturn
  <2>1. Others("rpc") /\ caller["rpc"] = "done" /\ caller'["rpc"] = "idle"
    BY <1>0, <1>6, Gone DEF RpcReturn
  <2>. QED  BY <1>0, <1>1, <2>1 DEF Calm
<1>. QED  BY <1>2, <1>3, <1>4, <1>5, <1>6 DEF Around

LEMMA CalmElsewhere ==
    ASSUME TypeOK, LockInv, Calm, Elsewhere
    PROVE  Calm'
<1>. USE DEF main, pool, world, history
<1>0. UNCHANGED <<gPrimeServer, caller>>
  BY ThreadsApart
<1>1. ASSUME ~misuse', net' = "call" => gPrimeServer = "live" PROVE Calm'
  BY <1>0, <1>1 DEF Calm
<1>2. csMain # "rpc" => gPrimeServer # "freed"
  BY DEF LockInv, Calm
<1>3. CASE SetBestChain
  BY <1>1, <1>3 DEF SetBestChain, Calm
<1>4. CASE CheckServer
  <2>1. csMain = "net" /\ gPrimeServer \in {"null", "live", "freed"}
    BY <1>4 DEF CheckServer, LockInv, TypeOK
  <2>2. ~misuse' /\ (net' = "call" => gPrimeServer # "null")
    BY <1>4 DEF CheckServer, Calm
  <2>. QED  BY <1>1, <1>2, <2>1, <2>2
<1>5. CASE CallServer
  <2>1. gPrimeServer = "live" /\ net' = "idle" /\ misuse' = (misuse \/ gPrimeServer # "live")
    BY <1>5 DEF CallServer, Calm
  <2>. QED  BY <1>1, <2>1 DEF Calm
<1>6. ASSUME NEW w \in Worker, WorkerStep(w) PROVE Calm'
  <2>1. UNCHANGED net
    BY <1>6 DEF WorkerStep, Progress, ReceiveNewBlock, ReceiveShutdown, WaitForPeers,
                CreateNewBlock, FindBlock, CheckWork
  <2>2. CASE CheckWork(w) /\ Notify
    <3>1. csMain = "free" /\ misuse' = (misuse \/ gPrimeServer = "freed")
      BY <2>2 DEF CheckWork, Notify
    <3>. QED  BY <1>1, <1>2, <2>1, <3>1 DEF Calm
  <2>3. CASE UNCHANGED misuse
    BY <1>1, <2>1, <2>3 DEF Calm
  <2>. QED
    BY <1>6, <2>2, <2>3 DEF WorkerStep, Progress, ReceiveNewBlock, ReceiveShutdown,
       WaitForPeers, CreateNewBlock, FindBlock, CheckWork
<1>7. CASE Account \/ SendMoney \/ StopBackend \/ PeersCome \/ PeersGo \/ UNCHANGED vars
  <2>1. UNCHANGED <<misuse, net>>
    BY <1>7 DEF Account, SendMoney, StopBackend, PeersCome, PeersGo, vars
  <2>. QED  BY <1>1, <2>1 DEF Calm
<1>. QED  BY <1>3, <1>4, <1>5, <1>6, <1>7 DEF Elsewhere

LEMMA RequestStays == ASSUME TypeOK, [Next]_vars, requested PROVE requested'
<1>1. CASE Elsewhere
  BY <1>1, ThreadsApart
<1>2. CASE Around
  BY <1>2 DEF Around, RequestShutdown, Detect, StopNode, DeleteWallet, CallGenerate, RpcCall,
              RpcReturn
<1>3. ASSUME NEW t \in Caller, GenerateBitcoins(t) PROVE requested'
  BY <1>3, GenerateFrame
<1>. QED  BY <1>1, <1>2, <1>3, Cases

LEMMA CalmStep ==
    ASSUME TypeOK, LockInv, CalmInv, [Next]_vars
    PROVE  CalmInv'
<1>1. CASE requested
  BY <1>1, RequestStays DEF CalmInv
<1>2. CASE overlap
  BY <1>2, OverlapStays DEF CalmInv
<1>3. CASE Calm
  <2>1. CASE Elsewhere
    BY <1>3, <2>1, CalmElsewhere DEF CalmInv
  <2>2. CASE Around
    BY <1>3, <2>2, CalmAround DEF CalmInv
  <2>3. ASSUME NEW t \in Caller, GenerateBitcoins(t) PROVE CalmInv'
    BY <1>3, <2>3, CalmGenerate DEF CalmInv
  <2>. QED  BY <2>1, <2>2, <2>3, Cases
<1>. QED  BY <1>1, <1>2, <1>3 DEF CalmInv

-----------------------------------------------------------------------------
LEMMA InvInit == ASSUME Init PROVE Inv
<1>1. TypeOK
  <2>1. <<>> \in Seq({"NEWBLOCK", "SHUTDOWN"})
    OBVIOUS
  <2>2. requested \in BOOLEAN /\ gen \in BOOLEAN /\ pipe \in BOOLEAN /\ peers \in BOOLEAN
        /\ rpcExited \in BOOLEAN
        /\ overlap \in BOOLEAN /\ leaked \in BOOLEAN /\ misuse \in BOOLEAN
    BY DEF Init
  <2>. QED  BY <2>1, <2>2 DEF Init, TypeOK
<1>2. PipeInv /\ OrphanInv
  BY DEF Init, PipeInv, OrphanInv
<1>3. \A t \in Caller : caller[t] = "idle" /\ ~arg[t]
  BY DEF Init
<1>4. "init" \in Caller /\ "detect" \in Caller /\ "rpc" \in Caller /\ "stop" \in Caller
  BY DEF Caller
<1>5. gPrimeServer = "null" /\ ~leaked /\ ~misuse /\ csMain = "free" /\ net = "idle"
  BY DEF Init
<1>6. StopInv /\ SingleInv
  BY <1>3, <1>4, <1>5 DEF StopInv, SingleInv, Single, Deleting
<1>7. LockInv /\ CalmInv
  BY <1>3, <1>4, <1>5 DEF LockInv, CalmInv, Calm
<1>. QED  BY <1>1, <1>2, <1>6, <1>7 DEF Inv

LEMMA InvStep == ASSUME Inv, [Next]_vars PROVE Inv'
BY TypeStep, PipeStep, OrphanStep, StopStep, SingleStep, LockStep, CalmStep DEF Inv

LEMMA InvHolds == Spec => []Inv
BY InvInit, InvStep, PTL DEF Spec

(* The variables of the life cycle keep their types.                         *)
THEOREM TypeCorrect == Spec => []TypeOK
<1>1. Inv => TypeOK
  BY DEF Inv
<1>. QED  BY <1>1, InvHolds, PTL

(* Unless the pointer to a live server was overwritten, no thread of a       *)
(* server outlives it.                                                       *)
THEOREM ThreadsEndFirst == Spec => []NoOrphanThreads
<1>1. Inv => NoOrphanThreads
  BY DEF Inv, PipeInv, OrphanInv, NoOrphanThreads
<1>. QED  BY <1>1, InvHolds, PTL

(* When Shutdown deletes the wallet the server and its threads are gone,     *)
(* whoever started it and whenever.                                          *)
THEOREM WalletGoesLast == Spec => []WalletOutlivesServer
<1>1. Inv => WalletOutlivesServer
  BY DEF Inv, PipeInv, OrphanInv, StopInv, WalletOutlivesServer
<1>. QED  BY <1>1, InvHolds, PTL

(* There is one server at a time unless a command overlaps with the start.   *)
THEOREM AlwaysSingle == Spec => []SingleServer
<1>1. Inv => SingleServer
  BY DEF Inv, SingleInv, Single, SingleServer
<1>. QED  BY <1>1, InvHolds, PTL

(* Nobody uses a server that is gone, as long as no shutdown is requested    *)
(* and no command overlaps with the start.                                   *)
THEOREM NeverMisused == Spec => []NoMisuse
<1>1. Inv => NoMisuse
  BY DEF Inv, CalmInv, Calm, NoMisuse
<1>. QED  BY <1>1, InvHolds, PTL

-----------------------------------------------------------------------------
(* A destructor that waits has told those it waits for.  This needs no       *)
(* assumption on commands or shutdown requests: as long as no server was     *)
(* lost or called when gone, only one thread is past the signal, so that no  *)
(* other server replaces the queues it has written to.                       *)
Told(w) == worker[w] = "stopped" \/ \E i \in DOMAIN input[w] : input[w][i] = "SHUTDOWN"

Deletion ==
    /\ \A t, u \in Caller : Deleting(t) /\ Deleting(u) => t = u
    /\ \A t \in Caller :
         /\ caller[t] \in {"workers", "backend"} => gPrimeServer = "live"
         /\ caller[t] = "workers" => \A w \in Worker : Told(w)
         /\ caller[t] = "backend" => pipe

DeleteInv == misuse \/ leaked \/ Deletion

LEMMA LeakStays == ASSUME [Next]_vars, leaked PROVE leaked'
<1>1. ASSUME NEW t \in Caller, GenerateBitcoins(t) PROVE leaked'
  BY <1>1 DEF GenerateBitcoins, Enter, Create, FirstNotify, Notify, SignalWorkers,
     JoinWorkers, JoinBackend, SetNull, history
<1>2. CASE Around
  BY <1>2 DEF Around, RequestShutdown, Detect, StopNode, DeleteWallet, CallGenerate,
     RpcCall, RpcReturn, history
<1>3. CASE Elsewhere
  BY <1>3, ThreadsApart
<1>. QED  BY <1>1, <1>2, <1>3, Cases

(* Signals are not lost: a queue is read from its head, and grows at its end.*)
LEMMA ToldPublished ==
    ASSUME TypeOK, NEW s \in {"NEWBLOCK", "SHUTDOWN"}, Publish(s), worker' = worker,
           NEW w \in Worker
    PROVE  /\ Told(w) => Told(w)'
           /\ s = "SHUTDOWN" => Told(w)'
<1>1. input[w] \in Seq({"NEWBLOCK", "SHUTDOWN"}) /\ input'[w] = Append(input[w], s)
  BY DEF TypeOK, Publish
<1>2. /\ DOMAIN input[w] = 1 .. Len(input[w]) /\ Len(input[w]) \in Nat
      /\ DOMAIN input'[w] = 1 .. Len(input[w]) + 1
      /\ \A i \in 1 .. Len(input[w]) : input'[w][i] = input[w][i]
      /\ input'[w][Len(input[w]) + 1] = s
  BY <1>1
<1>3. ASSUME Told(w) PROVE Told(w)'
  <2>1. CASE worker[w] = "stopped"
    BY <2>1 DEF Told
  <2>2. CASE \E i \in DOMAIN input[w] : input[w][i] = "SHUTDOWN"
    <3>1. PICK i \in 1 .. Len(input[w]) : input[w][i] = "SHUTDOWN"
      BY <1>2, <2>2
    <3>2. i \in DOMAIN input'[w] /\ input'[w][i] = "SHUTDOWN"
      BY <1>2, <3>1
    <3>. QED  BY <3>2 DEF Told
  <2>. QED  BY <1>3, <2>1, <2>2 DEF Told
<1>4. ASSUME s = "SHUTDOWN" PROVE Told(w)'
  <2>1. Len(input[w]) + 1 \in DOMAIN input'[w] /\ input'[w][Len(input[w]) + 1] = "SHUTDOWN"
    BY <1>2, <1>4
  <2>. QED  BY <2>1 DEF Told
<1>. QED  BY <1>3, <1>4

LEMMA ToldWorker ==
    ASSUME TypeOK, NEW v \in Worker, WorkerStep(v), NEW w \in Worker, Told(w)
    PROVE  Told(w)'
<1>. USE DEF main, pool, world, history
<1>1. CASE ReceiveNewBlock(v)
  <2>1. /\ worker[v] = "loop" /\ \A u \in Worker : u # v => worker'[u] = worker[u]
        /\ \A u \in Worker : u # v => input'[u] = input[u]
        /\ input[v] # <<>> /\ Head(input[v]) = "NEWBLOCK" /\ input'[v] = Tail(input[v])
    BY <1>1 DEF ReceiveNewBlock, At, Receive, TypeOK
  <2>2. CASE w # v
    BY <2>1, <2>2 DEF Told
  <2>3. CASE w = v
    <3>1. input[w] \in Seq({"NEWBLOCK", "SHUTDOWN"})
      BY DEF TypeOK
    <3>2. PICK i \in DOMAIN input[w] : input[w][i] = "SHUTDOWN"
      BY <2>1, <2>3 DEF Told
    <3>3. i \in 1 .. Len(input[w]) /\ Len(input[w]) \in Nat /\ i # 1
      BY <2>1, <2>3, <3>1, <3>2
    <3>4. i - 1 \in DOMAIN Tail(input[w]) /\ Tail(input[w])[i - 1] = input[w][i]
      BY <3>1, <3>3
    <3>. QED  BY <2>1, <2>3, <3>2, <3>4 DEF Told
  <2>. QED  BY <2>2, <2>3
<1>2. CASE ReceiveShutdown(v)
  <2>1. /\ worker'[v] = "stopped" /\ \A u \in Worker : u # v => worker'[u] = worker[u]
        /\ \A u \in Worker : u # v => input'[u] = input[u]
    BY <1>2 DEF ReceiveShutdown, At, Receive, TypeOK
  <2>. QED  BY <2>1 DEF Told
<1>3. CASE WaitForPeers(v) \/ CreateNewBlock(v) \/ FindBlock(v)
  <2>1. input' = input /\ worker[v] # "stopped" /\ \A u \in Worker : u # v => worker'[u] = worker[u]
    BY <1>3 DEF WaitForPeers, CreateNewBlock, FindBlock, At, TypeOK
  <2>. QED  BY <2>1 DEF Told
<1>4. CASE CheckWork(v)
  <2>1. worker[v] # "stopped" /\ \A u \in Worker : u # v => worker'[u] = worker[u]
    BY <1>4 DEF CheckWork, At, TypeOK
  <2>2. input' = input \/ input' = [u \in Worker |-> Append(input[u], "NEWBLOCK")]
    BY <1>4 DEF CheckWork, Notify, Publish
  <2>3. CASE input' = input
    BY <2>1, <2>3 DEF Told
  <2>4. CASE input' = [u \in Worker |-> Append(input[u], "NEWBLOCK")]
    <3>1. CASE worker[w] = "stopped"
      BY <2>1, <3>1 DEF Told
    <3>2. CASE worker[w] # "stopped"
      <4>1. PICK i \in DOMAIN input[w] : input[w][i] = "SHUTDOWN"
        BY <3>2 DEF Told
      <4>2. input[w] \in Seq({"NEWBLOCK", "SHUTDOWN"}) /\ input'[w] = Append(input[w], "NEWBLOCK")
        BY <2>4 DEF TypeOK
      <4>3. i \in DOMAIN input'[w] /\ input'[w][i] = input[w][i]
        BY <4>1, <4>2
      <4>. QED  BY <4>1, <4>3 DEF Told
    <3>. QED  BY <3>1, <3>2
  <2>. QED  BY <2>2, <2>3, <2>4
<1>. QED  BY <1>1, <1>2, <1>3, <1>4 DEF WorkerStep, Progress

LEMMA DeleteElsewhere ==
    ASSUME TypeOK, Deletion, Elsewhere
    PROVE  Deletion'
<1>. USE DEF main, pool, world, history
<1>1. caller' = caller /\ gPrimeServer' = gPrimeServer
  BY ThreadsApart
<1>2. pipe' = pipe
  BY DEF Elsewhere, SetBestChain, CheckServer, CallServer, WorkerStep, Progress,
     ReceiveNewBlock, ReceiveShutdown, WaitForPeers, CreateNewBlock, FindBlock, CheckWork,
     Account, SendMoney, StopBackend, PeersCome, PeersGo, vars
<1>3. ASSUME NEW w \in Worker, Told(w) PROVE Told(w)'
  <2>1. CASE \E v \in Worker : WorkerStep(v)
    BY <1>3, <2>1, ToldWorker
  <2>2. CASE CallServer
    <3>1. Publish("NEWBLOCK") /\ worker' = worker
      BY <2>2 DEF CallServer
    <3>. QED  BY <1>3, <3>1, ToldPublished
  <2>3. CASE UNCHANGED <<worker, input>>
    BY <1>3, <2>3 DEF Told
  <2>4. CASE SetBestChain \/ CheckServer \/ Account \/ SendMoney \/ StopBackend
             \/ PeersCome \/ PeersGo \/ UNCHANGED vars
    BY <2>3, <2>4 DEF SetBestChain, CheckServer, Account, SendMoney, StopBackend,
       PeersCome, PeersGo, vars
  <2>. QED  BY <2>1, <2>2, <2>4 DEF Elsewhere
<1>. QED  BY <1>1, <1>2, <1>3 DEF Deletion, Deleting

LEMMA DeleteAround ==
    ASSUME TypeOK, Deletion, Around
    PROVE  Deletion'
<1>. USE DEF main, pool, world, history
<1>1. UNCHANGED <<gPrimeServer, worker, input, pipe>>
  BY DEF Around, RequestShutdown, Detect, StopNode, DeleteWallet, CallGenerate, RpcCall,
     RpcReturn
<1>2. \/ caller' = caller
      \/ \E t \in Caller, x \in {"idle", "enter", "done", "exited"} : Go(t, x)
  BY DEF Around, RequestShutdown, Detect, StopNode, DeleteWallet, CallGenerate, RpcCall,
     RpcReturn, Caller
<1>3. \A t \in Caller : \/ caller'[t] = caller[t]
                        \/ caller'[t] \notin {"workers", "backend", "null"}
  BY <1>2, Gone
<1>. QED  BY <1>1, <1>3 DEF Deletion, Deleting, Told

LEMMA DeleteGenerate ==
    ASSUME TypeOK, Deletion, NEW t \in Caller, GenerateBitcoins(t), ~misuse', ~leaked'
    PROVE  Deletion'
<1>. USE DEF main, pool, world, history
<1>1. \A u \in Caller : u # t => caller'[u] = caller[u]
  BY GenerateFrame
<1>2. CASE Enter(t)
  <2>1. caller'[t] \in {"delete", "create", "done"} /\ UNCHANGED <<gPrimeServer, worker, input, pipe>>
    BY <1>2, Gone DEF Enter
  <2>. QED  BY <1>1, <2>1 DEF Deletion, Deleting, Told
<1>3. CASE Create(t)
  <2>1. gPrimeServer = "null" /\ caller'[t] = "first"
    BY <1>3, Gone DEF Create
  <2>2. \A u \in Caller : caller[u] \notin {"workers", "backend"}
    BY <2>1 DEF Deletion
  <2>. QED  BY <1>1, <2>1, <2>2 DEF Deletion, Deleting
<1>4. CASE FirstNotify(t)
  <2>1. /\ Publish("NEWBLOCK") /\ worker' = worker /\ caller'[t] = "done"
        /\ gPrimeServer' = gPrimeServer /\ pipe' = pipe
    BY <1>4, Gone DEF FirstNotify, Notify
  <2>2. \A w \in Worker : Told(w) => Told(w)'
    BY <2>1, ToldPublished
  <2>. QED  BY <1>1, <2>1, <2>2 DEF Deletion, Deleting
<1>5. CASE SignalWorkers(t)
  <2>1. /\ Publish("SHUTDOWN") /\ worker' = worker /\ caller'[t] = "workers"
        /\ gPrimeServer' = gPrimeServer /\ pipe' = pipe
        /\ gPrimeServer = "live"
        /\ \A u \in Caller : ~Deleting(u)
    BY <1>5, Gone DEF SignalWorkers, Deleting
  <2>2. \A w \in Worker : Told(w)'
    BY <2>1, ToldPublished
  <2>. QED  BY <1>1, <2>1, <2>2 DEF Deletion, Deleting
<1>6. CASE JoinWorkers(t)
  <2>1. /\ caller[t] = "workers" /\ caller'[t] = "backend" /\ pipe' = TRUE
        /\ UNCHANGED <<gPrimeServer, worker, input>>
    BY <1>6, Gone DEF JoinWorkers
  <2>. QED  BY <1>1, <2>1 DEF Deletion, Deleting, Told
<1>7. CASE JoinBackend(t) \/ SetNull(t)
  <2>1. /\ caller[t] \in {"backend", "null"} /\ caller'[t] \in {"null", "done"}
        /\ UNCHANGED <<worker, input, pipe>>
    BY <1>7, Gone DEF JoinBackend, SetNull
  <2>2. \A u \in Caller : u # t => ~Deleting(u)
    BY <2>1 DEF Deletion, Deleting
  <2>. QED  BY <1>1, <2>1, <2>2 DEF Deletion, Deleting
<1>. QED  BY <1>2, <1>3, <1>4, <1>5, <1>6, <1>7 DEF GenerateBitcoins

LEMMA DeleteStep ==
    ASSUME TypeOK, DeleteInv, [Next]_vars
    PROVE  DeleteInv'
<1>. SUFFICES ASSUME ~misuse', ~leaked' PROVE Deletion'
  BY DEF DeleteInv
<1>1. Deletion
  BY MisuseStays, LeakStays DEF DeleteInv
<1>. QED  BY <1>1, DeleteGenerate, DeleteAround, DeleteElsewhere, Cases

LEMMA DeleteHolds == Spec => []DeleteInv
<1>1. Init => DeleteInv
  BY DEF Init, DeleteInv, Deletion, Deleting, Caller
<1>2. Inv /\ DeleteInv /\ [Next]_vars => DeleteInv'
  BY DeleteStep DEF Inv
<1>. QED  BY <1>1, <1>2, InvHolds, PTL DEF Spec

(* A destructor that waits for the workers has its signal in the queue of    *)
(* each that has not ended, however many blocks were published before and    *)
(* after it; one that waits for the backend has written to the pipe.         *)
SignalsKept ==
    ~misuse /\ ~leaked =>
        \A t \in Caller : /\ caller[t] = "workers" => \A w \in Worker : Told(w)
                          /\ caller[t] = "backend" => pipe

THEOREM SignalsNeverLost == Spec => []SignalsKept
<1>1. DeleteInv => SignalsKept
  BY DEF DeleteInv, Deletion, SignalsKept
<1>. QED  BY <1>1, DeleteHolds, PTL

(* What a destructor may wait for.  Somebody needs cs_main, ...              *)
NeedsMain == backend = "pay" \/ \E w \in Worker : worker[w] \in {"template", "checkwork"}

(* ... and the steps that take no more than what is there.                   *)
MayGoOn ==
    \/ \E w \in Worker : worker[w] = "loop" /\ input[w] # <<>>
    \/ \E w \in Worker : worker[w] = "peers" /\ peers
    \/ backend = "loop" /\ pipe
    \/ NeedsMain /\ csMain = "free"
    \/ net # "idle"
    \/ caller["rpc"] \notin {"idle", "workers", "backend"}

Ended(t) ==
    \/ caller[t] = "workers" /\ \A w \in Worker : worker[w] = "stopped"
    \/ caller[t] = "backend" /\ backend = "stopped"

(* A destructor that waits, of a server not lost or misused, is stuck for    *)
(* two reasons only: a worker waits for peers and the node has none, or      *)
(* setgenerate false waits with cs_main held for a thread that needs it      *)
(* (pool.cpp:287, 731-747, bitcoinrpc.cpp:1047).                             *)
StuckForTwoReasons ==
    ~misuse /\ ~leaked =>
        \A t \in Caller : caller[t] \in {"workers", "backend"} =>
            \/ Ended(t) \/ MayGoOn
            \/ ~peers /\ \E w \in Worker : worker[w] = "peers"
            \/ caller["rpc"] \in {"workers", "backend"} /\ NeedsMain

THEOREM StuckOnlyForTwoReasons == Spec => []StuckForTwoReasons
<1>1. ASSUME Inv, DeleteInv PROVE StuckForTwoReasons
  <2>. SUFFICES ASSUME ~misuse, ~leaked, NEW t \in Caller,
                       caller[t] \in {"workers", "backend"}, ~Ended(t), ~MayGoOn,
                       ~(~peers /\ \E w \in Worker : worker[w] = "peers")
                PROVE  caller["rpc"] \in {"workers", "backend"} /\ NeedsMain
    BY DEF StuckForTwoReasons
  <2>1. NeedsMain
    <3>1. CASE caller[t] = "workers"
      <4>1. PICK w \in Worker : worker[w] # "stopped"
        BY <3>1 DEF Ended
      <4>2. input[w] # <<>>
        <5>1. Told(w)
          BY <1>1, <3>1 DEF DeleteInv, Deletion
        <5>. QED  BY <4>1, <5>1 DEF Told
      <4>3. worker[w] \in {"template", "checkwork"}
        BY <1>1, <4>1, <4>2 DEF Inv, TypeOK, MayGoOn
      <4>. QED  BY <4>3 DEF NeedsMain
    <3>2. CASE caller[t] = "backend"
      <4>1. pipe
        BY <1>1, <3>2 DEF DeleteInv, Deletion
      <4>2. backend = "pay"
        BY <1>1, <3>2, <4>1 DEF Inv, TypeOK, Ended, MayGoOn
      <4>. QED  BY <4>2 DEF NeedsMain
    <3>. QED  BY <3>1, <3>2
  <2>2. csMain = "rpc"
    BY <1>1, <2>1 DEF Inv, TypeOK, LockInv, MayGoOn
  <2>. QED  BY <1>1, <2>1, <2>2 DEF Inv, LockInv, MayGoOn
<1>. QED  BY <1>1, InvHolds, DeleteHolds, PTL

=============================================================================
