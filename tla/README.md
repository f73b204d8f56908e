# A TLA+ model of xpmpool

xpmpool is a mining pool for Primecoin built into the Primecoin node
(`src/primeserver`), a web interface that shows the pool's database
(`src/webserver`, `src/src`), and a miner's client that is not in this
repository. This directory models the pool: how work is handed out and shares are
checked, how shares become balances and payments, and how the pool's threads
are started and stopped. It also models the parts of the node that the pool
stands on: the key pool, the choice of the best chain with the synchronized
checkpoint, and the parallel script checks. All paths below are relative to the
repository; most are under `primeserver/src/`.

- [Inventory](#inventory): the parts of the system, their state, what is hard
- [Modules](#modules): what is modelled, and how it corresponds to the code
- [Runs](#runs): what TLC checks, with which bounds and fairness
- [Proofs](#proofs): what TLAPS proves, and along which argument
- [Findings](#findings)
- [Not modelled](#not-modelled) and [Plan](#plan)

## Inventory

### The pool

```
 miners ──── :6666 ROUTER PoolFrontend DEALER :7777 ──── PrimeWorker × N   (requests)
 miners ──── ROUTER of its own, PUB of its own ───────── PrimeWorker × N   (requests, announced blocks)
 PoolServer ──PUB inproc://bitcoin──► PrimeWorker × N         (NEWBLOCK, SHUTDOWN)
 PrimeWorker × N ──DEALER─► :8888 ROUTER PoolBackend          (proto::Data: shares, blocks)
 PoolBackend ──Wt::Dbo──► Postgres ◄──reads── webserver       (the ledger's tables)
 PoolBackend ──SendMoneyToDestination──► CWallet              (payments)
 PrimeWorker, SetBestChain, RPC, wallet ──── cs_main          (one recursive lock)
```

| Component | State it keeps | Operations | Properties that make it correct |
|---|---|---|---|
| **Share ledger**, `PoolBackend` (`backend.cpp`, `pool.h`, `src/dbobjects.h`) | Postgres tables share, block, payoutrequest, address (and statistics); in memory the tick counter and the value of a share of each length | `HandleData` (a worker's share or block), `Accounting` (every 60 s and in the constructor), shutdown pipe | every share is credited once; what an address has, has asked for and was paid agree; the wallet and the ledger agree; share values stay within the pool's income; requests are paid in the end |
| **Workers**, `PrimeWorker` (`pool.cpp`, `CreateNewBlock`, `IncrementExtraNonce`, `CheckWork` in `main.cpp`) | per thread: announced block, template, reserved key, extra nonce, the roots given out and the hashes seen in this round; shared: `pindexBest`, the key pool, a `static` block hash | `HandleInput` (NEWBLOCK, SHUTDOWN), `HandleRequest` (CONNECT, GETWORK, SHARE, STATS, PING) | no work twice, no share credited twice, honest shares accepted, one block per tip and a key for each, no worker left behind on an old block |
| **Server life cycle**, `PoolServer`, `GenerateBitcoins`, `DetectShutdownThread`, `Shutdown`, `StopNode` | the pointer `gPrimeServer`, the threads, `cs_main` | create, notify, delete; called from start, RPC, shutdown and by whoever finds a block | threads end before what they use is deleted; no call through a dangling pointer; requests to stop complete |
| **Frontend proxy**, `PoolFrontend` (`pool.cpp`) | two sockets | `zmq_proxy` forwards requests and replies until its context ends | does not lose or reorder what it forwards |
| **Block chain** (`main.cpp`) | block index, candidates, best chain, orphans | `ProcessBlock`, `AcceptBlock`, `ConnectBestBlock`, `SetBestChain`, start after a crash | the best chain is valid and has the most work; the index keeps its shape; no orphan is forgotten; undo restores the coins |
| **Node start and shutdown** (`init.cpp`) | thread groups, `fRequestShutdown` | `AppInit2`, `Shutdown` | order of construction and destruction |
| **Wallet, key pool** (`wallet.cpp`) | keys, key pool, transactions | reserve/keep/return a key, top up, encrypt, load; create and commit a transaction | a key is never given out twice, none is lost, one that was flushed stays away |
| **Parallel script checks** (`checkqueue.h`) | queue, idle and total counts | `Add`, `Wait`, worker loop, interruption | `Wait` returns when all checks are done, with their conjunction; nothing outlives the block |
| **Synchronized checkpoints** (`checkpointsync.cpp`) | sync checkpoint, pending checkpoint | accept, process, reset | the checkpoint never moves to a branch that conflicts with it; a pending one is taken up |
| **Bounded containers** (`limitedmap.h`, `mruset.h`) | map or set with a bound | insert, update, erase | the bound; the right element is evicted |
| **Prime test, targets** (`prime.cpp`) | none | fractional length, retargeting | bounds, monotonicity |
| **Network, memory pool, RPC, storage, Qt, web interface** | see [Not modelled](#not-modelled) | | |

### What is hard here

The list of hazards, each at its line, is in `PROJECT.json`. In short:

- **Two stores, one transaction.** `Accounting` is one Postgres transaction; the
  wallet is not part of it. A payment recorded at `backend.cpp:388` and a
  commit at `backend.cpp:515` may have a crash between them, and a send may
  report an error after the wallet has recorded the transaction
  (`wallet.cpp:1358`).
- **Three accounts of one thing.** `Balance`, `Requested` and the open requests
  are changed at five places over many passes and must agree.
- **Three views of the best block.** The announced block, `pindexBest` as read
  without a lock at `pool.cpp:290`, and the template's parent read under
  `cs_main`.
- **A static variable shared by threads**, `hashPrevBlock` in
  `IncrementExtraNonce` (`main.cpp:4496`), not protected by any lock.
- **Waiting with a lock held**: `setgenerate` deletes the server, which waits
  for threads that take `cs_main`, under `cs_main`.
- **Deleting from several threads**: the pointer `gPrimeServer` is tested, used
  and cleared by four threads, not all of them under a lock.
- **Counters read without the mutex, late wakeups and interruptions** in
  `CCheckQueue`: a worker may wake up for a block that is done.
- **Rows on disk, reservations in memory**: a key is reserved in memory only, and
  the index of a new one follows the free ones, not those in use.
- **Four views of the chain**: the index and the failed marks are on disk at once, the
  coins now and then, the candidates and orphans in memory only; a reorganisation
  may fail half way, and a checkpoint may overrule the work.

## Modules

| Module | Models | Lines of the code |
|---|---|---|
| `ShareLedger` | what the pool promises its miners: the abstract specification of the ledger | |
| `PoolBackend` | the share ledger | `backend.cpp` 20–652, `dbobjects.h` |
| `PrimeWorker` | the workers, and what they share | `pool.cpp` 185–600, `main.cpp` `SetBestChain`, `CreateNewBlock`, `IncrementExtraNonce`, `CheckWork` |
| `PoolServer` | creating, notifying, deleting the server; start and shutdown | `main.cpp` `GenerateBitcoins`, `pool.cpp` `PoolServer`, `init.cpp`, `net.cpp` `StopNode`, `rpcmining.cpp`, `bitcoinrpc.cpp` |
| `CheckQueue` | the parallel script checks | `checkqueue.h`, their use in `main.cpp` `ConnectBlock` |
| `KeyPool` | the key pool and the reserve keys | `wallet.cpp`, `wallet.h`, `walletdb.cpp` |
| `BlockChain` | the choice of the best chain, orphans, synchronized checkpoints | `main.cpp` `ProcessBlock` to `SetBestChain`, `checkpointsync.cpp` |
| `MCPoolBackend`, `MCPrimeWorker`, `MCPoolServer`, `MCCheckQueue`, `MCKeyPool`, `MCBlockChain` | small instances of each for TLC | |
| `FiniteDataTheorems` | facts about sums and finite sets, proved | |
| `PoolBackendProofs` | type correctness of `PoolBackend`, the safety of the ledger, of one address and of all, the payout budget, proved | |
| `PoolBackendRefinement` | `PoolBackend` implements `ShareLedger`, and what is committed is not lost, proved | |
| `PrimeWorkerProofs`, `PoolServerProofs`, `CheckQueueProofs`, `KeyPoolProofs`, `BlockChainProofs` | the safety properties of each, proved | |

The components are joined where they meet: `PrimeWorker` has the succession of
best blocks that `BlockChain` chooses and the keys that `KeyPool` gives out as
its environment, `PoolBackend` begins with the messages `PrimeWorker` ends with
(`data`), and `PoolServer` has the workers and the backend reduced to when they
wait.

`PROJECT.json` maps every definition to its lines. Definitions whose name has
an underscore (`Due_OneAtATime`) are not part of the specification. Each is what a
plausible mistake would make of the definition named before the underscore, and is
there to show that the property it belongs to can fail. Each `MC` module only
gives the constants values.

### PoolBackend: the ledger

One thread, and so one handler at a time; what makes it a system is the database,
the wallet, the chain, crashes and time.

| In the model | In the code |
|---|---|
| `share`, `block`, `request`, `address` | the tables, as the open transaction sees them |
| `saved` | the tables as last committed |
| `tick`, `mShareValues` | `mTickCounter`, `mShareValues`; lost when the process ends |
| `todo` | the list of requests the payout loop has still to visit (the result set read at `backend.cpp:363`) |
| `funds` | `pwalletMain->GetBalance()` |
| `depth` | of each block row: its depth in the main chain, 0 when it is not there |
| `oldShares`, `oldBlocks` | how many rows, the oldest first, are older than the window of the share values |
| `sent`, `unsaved`, `tainted`, `faults` | history, for the properties |
| `Start`; `Shutdown`; `Crash` | constructor; destructor's pipe; the process dies (also by an exception of Postgres, which nothing catches) |
| `HandleData` = `HandleShare` or `HandleBlock` | `HandleData`; one transaction |
| `BeginAccounting`, `AccountShare`, `BeginPayout`, `Pay`, `Commit` | `Accounting`, cut where a crash makes a difference |
| `PayInvalid`, `PayEmpty`, `PaySent`, `PayFailed`, `PayRejected` | the ways an iteration of the payout loop may go |
| `Deposit`, `MoveChain`, `AgeShare`, `AgeBlock` | the outside: funding, reorganisations and confirmations, the clock |

`Accounting` is one handler. It is split because the process may die inside it,
and because the wallet keeps what it has recorded when Postgres rolls back.
The steps have no other interleaving: of the outside only `Deposit` may come
between them, as the wallet is asked anew for each payment.

`PayRejected` is what `SendMoney` does when `CommitTransaction` returns
false: the transaction has been added to the wallet and its coins are spent, only
the relay failed. The ledger is told of an error and keeps the request.

Time stamps are abstracted to what queries ask of them: requests of one pass
share one stamp, and a later pass has a later one; rows leave the window in
the order they came. Amounts are integers; share values are computed by exact
division and truncated, where the code uses `double`.

**The abstract ledger.** `ShareLedger` has two actions: `Enter` puts a share (or two: a
block brings the pool's fee along) into the ledger, `Settle` credits all that
were entered and divides what each address has earned into what it is owed and
what it was paid. `ImplementsLedger` says that the committed tables of
`PoolBackend` behave so: `HandleData` is `Enter`, the commit at the end of a pass
is `Settle`, and everything else, a crash in the middle of a pass included,
changes nothing. It says more than the invariants: nothing between two commits can
be seen from outside, a settlement leaves no share behind, and a payment is never
taken back.

### PrimeWorker: the workers

| In the model | In the code |
|---|---|
| `chain`, `best` | the successive best blocks, `pindexBest` |
| `input[w]` | signals published on `inproc://bitcoin` that worker `w` has not received |
| `mCurrBlock[w]`, `mIndexPrev[w]`, `mBlockTemplate[w]` | the three views of the best block |
| `mReserveKey[w]`, `nextKey` | `CReserveKey`, the key pool |
| `mExtraNonce[w]`, `mNonceMap[w]`, `mShares[w]` | the same |
| `hashPrevBlock` | the static of `IncrementExtraNonce` |
| `works`, `data[w]` | the answers to GETWORK; what was sent to the backend |
| `ReceiveNewBlock`, `ReadBest`, `MakeTemplate`/`TemplateFails`, `ReceiveShutdown` | `HandleInput`, cut at the wait for peers and at `CreateNewBlock` |
| `GetWork`, `GetWorkAfterWrite` | `HandleRequest`, GETWORK; cut where the static is written |
| `StaleShare`, `HandleShare`, `ShareAfterWrite` with `RefuseShare`, `DuplicateShare`, `CreditShare` | `HandleRequest`, SHARE |
| `CheckWork`, `SetBestChain`, `NewBest` | `CheckWork`, `SetBestChain`; a block from the network |

The static is compared and assigned without a lock. Reading it while another worker
assigns it is a data race, and the model lets such a comparison come out either way
(`Same`), and two assignments at once leave either hash or a mixture (`Torn`).

Clients are honest: they hash what they were given. `ReceiveRequest`, which checks
the form of a request, and the STATS bookkeeping are not modelled.

`hashPrevBlock` makes a difference between one worker and several. With two workers whose
templates stand on different blocks for a moment, each resets the other's extra
nonce through the shared static, so that a worker may give out a work again. `WorkUnique`,
`NeverCreditedTwice` and `RefusedOnlyIfMoved` are therefore stated, and proved,
for a pool with one worker; the other properties hold for any number. Even so,
nobody is credited for a work that its worker did not give out, and two workers never have a work
in common (`CreditGiven`, `WorkersApart`).

### PoolServer: the life cycle

Four callers (`init`, `detect`, `rpc`, `stop`) run `GenerateBitcoins`, each at
its own place in it (`caller[t]`): `Enter` looks at the pointer,
`Create` and `FirstNotify` are the constructor and the first `NotifyNewBlock`,
`SignalWorkers`, `JoinWorkers`, `JoinBackend` and `SetNull` the destructor and
the assignment after it. Only `rpc` holds `cs_main` from beginning to end
(`bitcoinrpc.cpp:1047`). `SetBestChain`, `CheckServer`, `CallServer` are the thread
that processes blocks from the network: it takes `cs_main`, tests the pointer,
calls through it. The workers and the backend are reduced to when they wait: for
peers, for `cs_main`, for signals. `RpcCall`, `RequestShutdown`, `Detect`,
`StopNode`, `DeleteWallet` are the rest of the shutdown sequence.

The pointer is `"freed"` between the end of the destructor and the assignment of
`NULL`; a call or a second `delete` at that moment sets `misuse`.

The RPC threads start before `AppInit2` makes its own call (`init.cpp:1086-1089`), and
only they hold `cs_main` in it: both may see no server and both create one. The model has
this. `overlap` records that a command ran beside that call, `leaked`
that a pointer to a live server was overwritten, and the properties say what holds
without: `SingleServer` that a server is never leaked otherwise,
`NoMisuse` that otherwise, and without a shutdown request, nobody uses one that is gone.

### CheckQueue: the parallel script checks

| In the model | In the code |
|---|---|
| `queue`, `nIdle`, `nTotal`, `fAllOk`, `nTodo` | the same |
| `mutex`, `notified` | the mutex; who has been notified on its condition |
| `pc[t]`, `batch[t]`, `nNow[t]`, `fOk[t]` | where a thread is in `Loop`, and its locals |
| `Control`, `Add`, `Wait` | `CCheckQueueControl`'s constructor, `Add`; `Wait` or the destructor |
| `Enter` with `Join` or `Merge`, `Return`, `CondWait`, `Notified`, `SpuriousWake`, `Take`, `Work` | the steps of `Loop` between two points where another thread can see a difference |
| `InterruptAll`, `Interrupted` | `interrupt_all` at shutdown; `boost::thread_interrupted` where a thread waits |

A waiting thread may wake up at any time, and a notified one late. An interrupted worker
leaves its counts behind (`nTotal` and `nIdle` stay), which `CountsExact` includes.
The master is interrupted in `ConnectBlock`, and the destructor of its
`Control` waits again. If it is interrupted there, the outcome depends on the
build: from C++11 on the program ends, in C++98 the exception leaves the
destructor, and `ConnectBlock` frees the block while workers still hold checks
that point into it. `DestructorMayThrow` is that choice. `QuietAfterBlock`, that no check
outlives its block, is checked and proved where it is `FALSE`.

### KeyPool: who owns a key

`pool` are the rows of the wallet file, `setKeyPool` the indexes that are free,
`held[h]` the `nIndex` and `vchPubKey` of a `CReserveKey` (a worker's, the
RPC server's, or that of a payment under way). Each function of the key pool is one action:
`TopUpKeyPool`, `GetReservedKey`, `KeepKey`, `ReturnKey` (called by the destructor
too), `GetKeyFromPool`, `EncryptWallet` (with `NewKeyPool`), `Unlock`, `Lock`; `Restart`
is the end of the process, in order or not, and `LoadWallet`, to which every row is free.

`NextIndex` follows the largest *free* index. Two cases give a new key an index
that somebody holds (`collided`): `encryptwallet` starts again at 1, and in a locked
wallet, or with a pool of size 0, the free keys may be used up while
a larger index is reserved. Then the row of the reserved key is overwritten, and
erased when its holder keeps the old key. `KeyExclusive` says that nothing else leads
there. `encryptwallet` asks for a shutdown (`rpcwallet.cpp:1441`); until the
threads have ended, every other step may still happen, and the model lets it.

### BlockChain: which block is the best

`index`, `failed`, `valid`, `best`, `pnext`, `orphans`, `sync`, `pending` are
`mapBlockIndex`, the failed marks, `setBlockIndexValid`, `pindexBest`, the `pnext`
links, `mapOrphanBlocks` and the two checkpoint hashes; `saved` is the best
block of the coins on disk. A block is the sequence of names on the path to it, so
that its ancestors are its prefixes. `pc` tells how far the code, which has
`cs_main` all the time, has come: `ProcessBlock` and `AcceptBlock` (`"connect"`), the loop
of `ConnectBestBlock` (`ConnectBestBlock`, one `Switch` or `SwitchFails` for each
`SetBestChain`), `AcceptPendingSyncCheckpoint` (`BlockAccepted`), the orphans (`ProcessOrphan`,
`OrphansDone`). `Restart` may come between any two of them: it is a crash or an orderly
end, `LoadBlockIndexDB`, and `ConnectBestBlock` in `AppInit2`.

A few things that the model shows of this code, for which no run has a property:

- `ConnectBestBlock` goes by the work alone (`main.cpp:1192`). After an enforced
  checkpoint has moved the chain to a branch with less work, the next block that is
  accepted takes the node back to the heavier branch if that was known before
  (`CheckpointAdvances` holds: nothing *new* is accepted there), although
  `checkpointsync.cpp:58-59` says of the mode that checkpoints are enforced.
  `forced` records this for `MostWork`.
- A pending checkpoint is dropped when another one is taken
  (`checkpointsync.cpp:456`), also if it is the later one of the two.
- At a start, `AppInit2` gives up if the first switch of the best chain fails
  (`pc = "down"`); the block is marked on disk, and the next start gets further.

## Runs

Each run asks one question. Sizes are distinct states.

| Run | Properties | What it shows | States |
|---|---|---|---|
| `backend_main` | `TypeOK`, `LedgerBalanced`, `RequestsBooked`, `RequestedWithinBalance`, `PaymentExactlyOnce`, `NoPhantomPayment`, `UnrequestedBounded`, `ImplementsLedger`, `EveryShareAccounted`, `EveryRequestPaid` | the ledger stays balanced, agrees with the wallet and implements `ShareLedger` over every order of shares, blocks, passes, good, failed and rejected payments, a crash and a restart; every share is accounted and every request of a valid address paid, though an invalid address may stand before it | 143 k |
| `backend_values` | `PayoutBudget` | the new share values never cost more than the window's income less the fee, over blocks that confirm, become orphans and leave the window | 1.46 M |
| `worker_one` | `WorkUnique`, `NeverCreditedTwice`, `RefusedOnlyIfMoved`, `EveryWorkerFollows` | one worker repeats no work, credits no hash twice, refuses an honest share only around a change of the best block, and comes to work for a best block that stays | 56 k |
| `worker_two` | `TypeOK`, `FreshWhenIdle`, `OneBlockPerTip`, `BlockHeightRecorded`, `KeyPerBlock` | two workers that find blocks at once record one per tip, with its height and a key of its own; an idle worker is on the best block | 2.17 M |
| `worker_coinbase` | `CoinbaseHeight` (violated) | see [Findings](#findings) | |
| `server_all` | `TypeOK`, `WalletOutlivesServer`, `NoOrphanThreads`, `NoMisuse`, `SingleServer`, `ShutdownCompletes` | however start, `setgenerate` and a shutdown interleave: one server, gone with its threads before the wallet is, not used when it is gone; a requested shutdown completes if the node is not without peers for ever | 169 k |
| `server_turnoff` | `GenerationTurnsOff` (violated) | see [Findings](#findings) | |
| `server_detect` | `DetectExits` (violated) | see [Findings](#findings) | |
| `checks` | `TypeOK`, `VerdictExact`, `QuietAfterBlock`, `TodoExact`, `CountsExact`, `WaitReturns` | with late and spurious wakeups and interruptions, the verdict is exact, nothing outlives the block, every counter is right and `Wait` returns | 83 k |
| `checks_assert` | `AssertionsHold` (violated) | see [Findings](#findings) | |
| `key_pool` | `TypeOK`, `KeyExclusive`, `RowsExact`, `FlushedKeysStay` | a key has one owner and is used once, the file has a row for every key still to be used, flushed keys stay away, over every order of operations and restarts | 241 k |
| `block_chain` | `ChainShape`, `MostWork`, `NothingLeftBehind`, `CheckpointAdvances` | blocks in any order, one of them invalid, with checkpoints, crashes and restarts: the index keeps its shape, the best sound chain wins, nothing is forgotten, the checkpoint only advances | 2.02 M |

`CHECK_DEADLOCK FALSE` in the runs of `PrimeWorker`, `PoolServer` and `CheckQueue`: their
systems do stop, when the server was deleted, the node has exited or the program has ended,
or when a bound is used up. The runs of `PoolBackend`, `KeyPool` and
`BlockChain` check for deadlock.

### Bounds, and why they are enough

- **Addresses 2, one invalid, one the pool's** (`backend_main`): the
  rows of different addresses meet in the order of accounting and in the payout
  queue only; two are enough for one to stand before the other.
- **`MaxShares` 3, `MaxBlocks` 1**: a block brings two shares, so that there is
  a share before or after it; the values used here (0 or 2, with a `COIN` of 1 and a
  payout amount of 2) are enough for a first request, a later one and a final one of
  one address. In `backend_values`, 4 shares of three lengths: the shortest, the longest
  that is counted and one above it, and 3 rows that leave the window.
- **Periods**: payouts and share values every 3 ticks (in `backend_values` every 2 and
  every 4), instead of 15 and 30, so that all kinds of passes occur within few
  ticks; with 3 ticks and one phase for payouts there are passes with payouts, with new
  share values and with neither. The final payout is at tick 1 or 3, within
  `ValuePeriod` as it is in the code. A tick counter that wraps at a common multiple of the periods
  cannot be told from the real one.
- **`FinalConf` 1 or 2** for 100, `MatureConf` 1 or 2 for 6: a block passes
  through unconfirmed, confirmed and not checked any more.
- **`MaxFaults` 1** crash, shutdown or rejected payment: the restart makes a pass of its own,
  so that the crash meets every kind of pass. What more faults do is covered by
  the proofs, which bound none of this.
- **Workers 2, `MaxBest` 3, `MaxWork` 2** (`worker_two`): both find a block on the
  same tip, or on successive ones, and the network brings another.
  `worker_one` has 3 works over 2 best blocks: two of the same template, and two
  templates of the same block, which a repeated NEWBLOCK makes.
- **One worker, `MaxBest` 1, `MaxRpc` 2** (`PoolServer`): on and off beside the start and the
  shutdown, with a best block at any time. Threads of one server do not wait for each
  other; that more workers add nothing is proved for the safety properties.
- **2 workers, 4 checks, batches of 2** (`checks`): a batch for each thread and one left,
  a failure in each of them, and a second block for which a worker wakes up late.
- **2 holders, `TargetSize` 1, 7 keys** (`key_pool`): enough to use up the free keys,
  top up, encrypt with keys reserved, and let indexes collide and be returned.
- **7 blocks, one of them possibly invalid** (`block_chain`): two branches at genesis, a
  light one and a heavy one of the same length, with a fork in the latter: reorganisations of
  several blocks, equal work, and a failed block below, between and above others.

### Fairness, and why the code justifies it

- `PoolBackend` `FairSpec`: weak fairness of `Accounting`, since the zloop serves its
  timer and a handler runs to its end; of `Start`, an operator who restarts the
  server; strong fairness of `Deposit`, income that comes again and again, and of
  `PaymentSent`, a wallet that is asked again and again succeeds some day. Without these
  two, requests would wait for ever, as they do in the pool.
- `PrimeWorker` `FairSpec`: strong fairness of each worker's `Input`, which a zloop
  that polls signals and requests alike gives, and which includes that the node has
  peers; weak fairness of finishing a request.
- `PoolServer` `FairSpec`: threads that can go on do; a thread waiting for
  `cs_main` gets it if it is free again and again (strong, as for any lock that
  is not held for ever); loops serve their signals. `PeersSpec` adds that the node
  does not stay without peers. Nothing is assumed of users, blocks or RPC.
- `CheckQueue` `Fairness`: a thread that can run does, and one that asks for the mutex
  again and again gets it (strong); `ConnectBlock` comes to its `Wait`, since a block has
  finitely many checks. Nothing obliges a thread to wake up without a notification.
- `KeyPool` and `BlockChain` have no liveness properties and assume no fairness.

## Proofs

Every invariant and every action property that a passing run checks is proved, for all
values of the constants that satisfy the modules' `ASSUME`s: any number of
workers, threads, addresses, holders and blocks, any amounts, periods and bounds. The
assumptions say what the code needs. In `PoolBackend`: amounts are not negative, a
payout is not empty (`backend.cpp:288` gives the first payout one coin), the wallet fee
is at most one coin, shares are at least as long as the minimum length, the
fee is a percentage. In `BlockChain`: parents are in the tree and have less work. Each run
evaluates the assumptions of its module.

Some theorems state more than the runs check: rules of the pool as a whole, of any number of
workers, and of steps rather than states. Their properties are stated in the
proof modules, next to their invariants, and marked + below. TLC found each of them true
on the instances of the runs before it was proved.

| Module | Theorem | States |
|---|---|---|
| `PoolBackendProofs` | `TypeCorrect` | `Spec => []TypeOK` |
| | `LedgerAlwaysBalanced` | `Spec => []LedgerBalanced` |
| | `RequestsAlwaysBooked` | `Spec => []RequestsBooked` |
| | `AlwaysWithinBalance` | `Spec => []RequestedWithinBalance` |
| | `UnrequestedAlwaysBounded` | `Spec => []UnrequestedBounded` |
| | `PaymentsExactlyOnce` | `Spec => []PaymentExactlyOnce` |
| | `NeverPhantomPayment` | `Spec => []NoPhantomPayment` |
| | `BudgetNeverExceeded` | `Spec => PayoutBudget` |
| | `PoolNeverOverpays` + | over all addresses, what was paid and what is requested is covered by the accounted shares, in the session and in the database; so is what left the wallet, unless tainted |
| `PoolBackendRefinement` | `BackendImplementsLedger` | `Spec => ImplementsLedger` |
| | `CommittedLedgerKept` + | no step drops or changes a committed share, or lowers `Paid` |
| | `ClaimsNeverLost` + | what was paid to a payable address and what it has open never falls together: a request leaves only with its payment |
| `PrimeWorkerProofs` | `TypeCorrect`, `IdleWorkersFresh`, `OneBlockEach`, `KeysApart`, `HeightsRecorded` | `TypeOK`, `FreshWhenIdle`, `OneBlockPerTip`, `KeyPerBlock`, `BlockHeightRecorded` always hold |
| | `CreditGiven` + | a share credited is for a work its worker gave out for that parent |
| | `WorkersApart`, `CreditedOnceOnly` + | two workers never give out works for the same key, and never credit the same root |
| | `WorksUnique`, `NoneCreditedTwice`, `RefusedIfMoved` | with one worker, `WorkUnique`, `NeverCreditedTwice`, `RefusedOnlyIfMoved` always hold |
| `PoolServerProofs` | `TypeCorrect`, `ThreadsEndFirst`, `WalletGoesLast`, `AlwaysSingle`, `NeverMisused` | `TypeOK`, `NoOrphanThreads`, `WalletOutlivesServer`, `SingleServer`, `NoMisuse` always hold |
| | `SignalsNeverLost` + | who waits for the workers has its signal in every queue, who waits for the backend has written to the pipe |
| | `StuckOnlyForTwoReasons` + | a destructor is stuck only for want of peers, or because it holds `cs_main` |
| `CheckQueueProofs` | `TypeCorrect`, `VerdictAlwaysExact`, `TodoAlwaysExact`, `CountsAlwaysExact` | `TypeOK`, `VerdictExact`, `TodoExact`, `CountsExact` always hold |
| | `QuietAlways` | so does `QuietAfterBlock`, if exceptions cannot leave a destructor |
| | `MasterAlwaysRemembered`, `LoopNeverStuck` + | no wake-up is lost, and from the call of `Wait` to its return some thread can go on |
| `KeyPoolProofs` | `TypeCorrect`, `KeysExclusive`, `RowsAlwaysExact`, `FlushedKeysGone` | `TypeOK`, `KeyExclusive`, `RowsExact`, `FlushedKeysStay` always hold |
| `BlockChainProofs` | `ChainShapeHolds`, `BestHasMostWork`, `NothingLeft` | `ChainShape`, `MostWork`, `NothingLeftBehind` always hold |
| | `CheckpointOnlyAdvances` | `Spec => CheckpointAdvances` |
| | `BestIsSound` + | the chain of the best block, in memory and on disk, is good, and no block with a good chain is marked as failed |
| | `WorkIsKept` + | only a new checkpoint or a restart leaves the best block for one with less work |
| `FiniteDataTheorems` | `SumAdd`, `SumDisjoint`, `SumByParts`, `SumsBelow` and others | what adding an element does to a sum; the sum over two disjoint sets, and over a partition; sums of functions one below the other |

### The ledger

**Sums.** `LedgerBalanced` and `RequestsBooked` speak of sums over the rows of a
table. `SumFunctionOnSet` of the community modules is a recursive function over
subsets, chosen by `CHOOSE`. `FiniteDataTheorems` shows that this function exists
(built cardinality by cardinality), that it is unique, and from its equation that
sums add up. All of it is by taking a least counterexample in `Nat`.

**The inductive invariant** is

    Inv == TypeOK /\ Fresh /\ PaidInv /\ LedgerInv(Tables) /\ LedgerInv(saved)

- `LedgerInv(t)` holds of both the tables in the session and the committed ones.
  A crash replaces the first by the second, and a commit the second by the
  first; neither could be shown if it held of one only. It says of each address
  that its row agrees with its sums (`RowInv`). The properties alone are not
  inductive: that the unrequested rest is bounded after a first request of one
  coin needs that an address that never asked and was never paid owns at most one coin,
  and that a request is within the balance needs that `Requested` is not negative.
- `Fresh` says that a request about to be made is not in the table: requests carry
  the pass's time stamp, later than all earlier ones, and the share that made them,
  which is not yet accounted. Without it, a new request could coincide with an old
  one, and `Requested` would grow while the sum of the requests does not.
- `PaidInv` connects the wallet's history with `Paid` in both copies of the table:
  equal unless tainted, and differing between the copies only while a payment of
  this pass is unsaved.

The proofs have one lemma for each group of actions that can disturb a part
(`LedgerShareStep` for crediting, `LedgerPayoutStep` for the final payout,
`LedgerDrop` for requests that leave the queue, `PaidStep` for the wallet), and
`InvStep` combines them.

**The payout budget.** A commit with new share values splits the shares of the window by the
length they are counted with (`SumDisjoint`); those of one length cost their number
times the value (`SumConstant`), and the value is the quotient of the part of the income set
aside for that length by their number, rounded down and capped (`Quotient`,
`LengthCost`). The parts are 30, 30 and 40 percent, and `BudgetStep` adds them up. No
invariant but type correctness is needed.

**The pool as a whole.** `LedgerInv` speaks of one address at a time. Each accounted share,
and each request, belongs to one address, so the sums over the addresses of the sums over
their shares are the sums over all shares (`SumByParts`); and what holds of each address
holds of the sums (`SumsBelow`). `PoolNeverOverpays` follows from `Inv` so, with no further
induction.

**The refinement.** The ledger moves with commits only, and what a commit makes of it
follows from two things: the rules of the session's tables (`Inv`) and what links these to
the tables last committed (`Linked`): the same shares, nobody paid less, only valid
addresses paid more, and after the accounting loop no share left out. A crash in a pass
goes back to `saved`, which is a stuttering step.

**What is never lost.** `CommittedLedgerKept` needs `Inv` and `Linked`. That a claim never falls
needs `PledgeInv` as well: of each address, `Requested` and `Paid` together are never less in
the session than in the database, and an address that can be paid is not blocked. For
such an address that sum is its claim, by `LedgerInv`, so that a commit cannot lower it; the
payout loop moves an amount from one summand to the other, or, when the payment fails, nothing.
This is the part of `EveryRequestPaid` that is safety: the rest is that the wallet comes to
have the funds and the loop comes round.

### The workers

    Inv == Shape /\ WorkInv /\ JobInv /\ FreshInv /\ KeyInv /\ RowInv

- `FreshInv` is what makes an idle worker fresh: its last signal pending, if any, tells it
  of the best block or to stop; if there is none, its three views of the best block, as
  far as it has read them, are the best block. Nothing need be said of the signals
  before the last.
- `KeyInv`: a key is held by one worker at most, and a template on the best block is
  paid to the key its worker holds, unless its coinbase has the wrong height, when the block
  will not be accepted, though the key is given up.
- `RowInv`: each row of a block stands on a block that was the best and is not any more, so
  that a row sent now, for the best, differs from all of them; its key is held by
  nobody.

`GivenInv` and `OwnInv` are for any number of workers. `GivenInv`: a root that is known, also that
of a share whose `CheckWork` is under way, was given out by this worker for the template of now,
though `IncrementExtraNonce` may have given it another extra nonce than the worker expects
because of the static. `OwnInv`: a key that somebody holds, that a template is paid to or
that is in a work given out is one worker's, and less than the next key. Two workers may
therefore use the same extra nonces without having a work in common. This is about
one life of the server, in which no worker returns its key.

For one worker (`Alone`) there is `OneInv` besides: `RootInv`, a root that is known was given out
for the template of now, with the extra nonce that `mNonceMap` has for it; `StaticInv`, the
static follows the templates, and no extra nonce used for its block has passed the
worker's; `SentInv`, a hash that was sent and whose root is still known is still in
`mShares`. So what clearing the maps forgets cannot come again: its roots are unknown, and
a new template of the same block goes on with higher extra nonces.

### The server

    Inv == TypeOK /\ PipeInv /\ OrphanInv /\ StopInv /\ SingleInv /\ LockInv /\ CalmInv

`PipeInv`: the destructor signals the backend when the workers have ended, and the backend ends
only then; `OrphanInv`: without a live server there is no backend. `StopInv`: when `Shutdown` has
come to `StopNode` nobody else is in `GenerateBitcoins` or will be. `SingleInv`: unless a
command overlapped with the start, or something was misused, who may be in the constructor or
the destructor follows from the pointer. `CalmInv` and `LockInv` add, without a
shutdown request, that whoever is there holds `cs_main`, which `SetBestChain` needs for its call.

`DeleteInv` assumes nothing of commands and shutdown requests, only that no server has been lost
or used when gone: one thread at most is past the signal of the destructor, and the
signal is in the queue of each worker that has not ended, or is in the pipe. With it and
`Inv`, `StuckOnlyForTwoReasons` goes through what a thread that was told may still be
waiting for: its queue or the pipe, which are not empty; peers; or `cs_main`, which is free,
held by a thread that goes on, or held by the command that waits. The two reasons left
are findings 2 and 3.

### The script checks

    Inv == TypeOK /\ MutexInv /\ PlaceInv /\ LocalInv /\ TodoExact /\ CountsExact
             /\ GoodInv /\ VerdictInv

`GoodInv` says where a failure can be while the verdict is out: in `fAllOk`, in the `fOk` of
some thread, or among the checks in the queue and in a thread's hands. `TodoExact` says that
`nTodo` counts the last two (a sum over the threads); at zero, only `fAllOk` is left,
which is what the master returns. With `~DestructorMayThrow` the master leaves only then
(`QuietInv`).

`WakeInv` is why nobody is forgotten: the queue has checks only while the master adds them or is
awake in `Loop`, and the master waits without a notification only while `nTodo` is not zero.
Then the checks left are in the hands of workers (`CountsExact`, `TodoExact`), who are awake, and
the last one to report notifies the master. `NeverStuck` says it of all threads, with what
each needs to go on written out.

### The key pool

    Inv == TypeOK /\ EmptyInv /\ ExactInv /\ YoungInv /\ FlushInv

`ExactInv` holds while no indexes have collided: rows, free and held indexes and used keys
partition the keys. `YoungInv` is why they do not collide in a wallet that is not encrypted:
above every held index there is a free one, since keys are taken from the bottom and the pool
is topped up before each; so the new ones, above all free ones, are new. `FlushInv`
survives collisions: no dropped key is in a row or in a hand.

### The block chain

    Inv == IndexInv /\ ChainInv /\ ControlInv

`ChainInv` has what `ChainShape` needs to be inductive: that a failed block is not sound, and that
`best` and `saved` are. `BestHasMostWork` adds `WorkInv`: blocks that have more work than
the best and no failed ancestor exist only while a new block is taken up, and then
it is that one, so that giving up at a failed switch leaves none behind; at a start, the
target of the switches has the most work of all. `WorkIsKept` needs `AttachInv` instead: the blocks
still to be connected are those of a chain that have more work than the best
block of now, so that every switch of a reorganisation, and not only the last, goes to
more work. `NothingLeft` adds `WaitInv`: what waits for
a known block waits for an unsound one, or for one whose orphans are still to be
processed, or for the one in `AcceptBlock`.

### What is not proved

Liveness (`EveryShareAccounted`, `EveryRequestPaid`, `EveryWorkerFollows`,
`ShutdownCompletes`, `WaitReturns`) is model-checked only: fairness and `ENABLED` are beyond
TLAPS as it is installed here. Where such a property has a part that is safety, that part is
proved: that claims never fall (of `EveryRequestPaid`), that the signal is not lost
and what may hold up who waits (of `ShutdownCompletes`), that no wake-up is lost and the threads
do not all wait (of `WaitReturns`).

Statements by induction over data are beyond it, too; where one would be natural, for the
sums, the proofs take a least counterexample instead. None of the
modules has a recursive operator.

## Findings

1. **A work with the wrong coinbase height** (`worker_coinbase`). `HandleInput` reads
   `pindexBest` without the lock (`pool.cpp:290`), `CreateNewBlock` reads it again
   under it. With a new best block in between, the template stands on the new block
   and its coinbase has the height after the old one, until the next NEWBLOCK is
   handled. A block found meanwhile is refused by `AcceptBlock`.
   `FreshWhenIdle` shows that this lasts no longer than the signal is pending, and
   `BlockHeightRecorded` that no such block reaches the ledger.
2. **`setgenerate false` can deadlock** (`server_turnoff`): it waits for the workers
   with `cs_main` held, and a worker may be waiting for `cs_main` in
   `CreateNewBlock` or `CheckWork`.
3. **The detecting thread may never exit** (`server_detect`): a worker without
   peers stays in a loop that does not look at its signals (`pool.cpp:287`), and
   who deletes the server waits for it. With peers, shutdown completes
   (`server_all`).
4. **The assertion in `CCheckQueueControl` can fail on a queue that is unused**
   (`checks_assert`). Its constructor compares `nTotal` and `nIdle` without the mutex
   (`checkqueue.h:165-167`). A worker that starts, or that was notified for the last block and
   wakes up late, is counted in one and not in the other until it waits: the node
   aborts. The verdicts themselves are exact (`VerdictExact`).

## Not modelled

- **PoolFrontend**: a proxy without state of its own. In `PrimeWorker` requests are
  served in any order, which covers what the proxy may do to honest ones.
- **Worker statistics** (STATS, `FlushStats`, the worker count at `pool.cpp:504`) and the filter of
  `ReceiveRequest`: they decide neither what is handed out nor what is credited to an
  honest client. The zero that a stale share inserts into `mNonceMap` is modelled.
- **Between the workers and the backend**: shares that were acknowledged and are still in
  the queue are lost when the server goes down, since the backend's loop ends on its pipe without
  draining the router (`backend.cpp:94`). `PrimeWorker` ends where a share is sent,
  `PoolBackend` begins where it is handled.
- **The backend's early thread**: it is forked before `mSession` exists and may run while the
  constructor does its own pass on the same session (`backend.cpp:30`). What two threads do with
  one `Wt::Dbo` session is undefined; `PoolBackend` starts its loop after that pass.
- **More than one life of a worker**: `NeverCreditedTwice` is about one server. After
  `setgenerate false` and `true`, maps and extra nonces begin anew, and a worker may reserve
  the very key that its predecessor returned.
- **In the chain**: what makes a block valid (a set of bad blocks), the coins and their undo,
  the files, warnings. `ResetSyncCheckpoint`, for a changed master key. `PrimeWorker` sees of the
  chain the succession of best blocks only; in it, a best block does not come back.
- **Wallet**: coin selection, signing, transactions. In `PoolBackend` it is a balance and the
  outcomes of a payment.
- **Memory pool, network, address manager**: inherited from Bitcoin and Primecoin.
- **Bounded containers** (`limitedmap.h`, `mruset.h`): used by the network code only; nothing of
  the pool depends on what they evict.
- **Prime test, targets**: number theory over large integers; a solution's length is an
  input of the model.
- **Storage** (LevelDB, Berkeley DB, Postgres): used through transactions that commit
  or roll back as a whole.
- **RPC server, Qt, web interface**: input, output and layout. The web
  interface only reads the ledger. Nothing in the repository writes
  `Address::MinPayout` once the row exists: it is a constant of the model.
- In the ledger, the rows no accounting rule reads back: site, server and client
  statistics, request counts, pool balance, payout transactions.

## Plan

What would extend this most, in this order:

1. `Pool`: workers, the queue to the backend and the ledger composed; that a share
   which was acknowledged is entered in `ShareLedger` at most once, and exactly once unless
   the server went down with it in the queue.
2. `Coins`: connecting and disconnecting blocks with their undo data, as the detailed form
   of `SetBestChain`.
3. `ResetSyncCheckpoint` in `BlockChain`, with the guarantees that remain after a change of
   the master key.
4. `WorkerStats`: counters per client over flushes and replayed requests.
5. `PrimeTarget`: fractional lengths and retargeting as bounded integers.
