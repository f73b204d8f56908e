----------------------------- MODULE PrimeWorker -----------------------------
(***************************************************************************)
(* The worker threads of the pool: PrimeWorker of primeserver/src/pool.h    *)
(* and pool.cpp, with what they share: the best chain (main.cpp,            *)
(* SetBestChain and CheckWork), the signals the server publishes to them,   *)
(* and the static variable inside IncrementExtraNonce.                      *)
(*                                                                          *)
(* Each worker is one thread that runs a zloop.  It rebuilds its block      *)
(* template on a NEWBLOCK signal (HandleInput), and answers GETWORK and     *)
(* SHARE requests from it (HandleRequest).  A handler is cut into steps     *)
(* where it reads or writes what other threads change: the unlocked read of *)
(* pindexBest, the locked read in CreateNewBlock, and the write of the      *)
(* static hashPrevBlock.                                                    *)
(*                                                                          *)
(* Simplifications:                                                         *)
(*  - a block of the main chain is its position in chain, the sequence of   *)
(*    the heights of the successive best blocks; best never returns to an   *)
(*    earlier block;                                                        *)
(*  - a merkle root is the record of what it commits to that can differ:    *)
(*    the worker's key, the height in the coinbase and the extra nonce.     *)
(*    Two templates may hold the same transactions, and do here;            *)
(*  - a solution (time, nonce, multiplier, chain type) is one of Solution,  *)
(*    with the length it claims, the length the test finds and whether it   *)
(*    meets the network target;                                             *)
(*  - clients are honest: they hash the work they were given over the block *)
(*    that was announced to them with it; requests that change nothing      *)
(*    (CONNECT, PING, wrong height) and STATS are left out, and so are the  *)
(*    checks of ReceiveRequest, which honest requests pass.                 *)
(***************************************************************************)
EXTENDS Integers, Sequences, FiniteSets

CONSTANTS
    Worker,       \* worker threads (-genproclimit)
    Solution,     \* solutions clients may find for a work
    MinShare,     \* minshare of the announced blocks
    MayFail,      \* CreateNewBlock may return NULL (no key to reserve)
    MayStop,      \* the server may be deleted
    MaxBest,      \* bound: best blocks
    MaxWork       \* bound: works handed out

SolutionType == [claimed : Nat, length : Nat, isblock : BOOLEAN]

ASSUME WorkerAssumption == IsFiniteSet(Worker) /\ Worker # {}
ASSUME SolutionAssumption == Solution \subseteq SolutionType /\ MinShare \in Nat
ASSUME FlagAssumption == MayFail \in BOOLEAN /\ MayStop \in BOOLEAN
ASSUME BoundAssumption == MaxBest \in Nat \ {0} /\ MaxWork \in Nat

Nil == 0           \* no block: mIndexPrev = 0, !mCurrBlock.has_height()
Torn == -1         \* a half written hash, equal to no block's hash
NoJob == [share |-> FALSE]    \* a GETWORK has nothing to remember
SHUTDOWN == 0      \* the SHUTDOWN signal; n > 0 is NEWBLOCK of block n

VARIABLES
    chain,          \* heights of the successive best blocks
    hashPrevBlock,  \* static in IncrementExtraNonce
    nextKey,        \* the next key of the wallet's key pool
    stopping,       \* the destructor has published SHUTDOWN
    input,          \* per worker: signals published, not yet received
    pc,             \* per worker: where its thread is
    job,            \* per worker: the request under way at "write"
    mCurrBlock,     \* per worker: the announced block
    mIndexPrev,     \* per worker: pindexBest as read in HandleInput
    mBlockTemplate, \* per worker: the template's parent and key
    mReserveKey,    \* per worker: the key reserved, 0: none
    mExtraNonce,    \* per worker
    mNonceMap,      \* per worker: merkle root -> extra nonce
    mShares,        \* per worker: block hashes seen since the last NEWBLOCK
    works,          \* the works handed out to clients, in order
    data,           \* per worker: shares sent to the backend, in order
    invalid         \* history: shares refused because the hash differed

shared == <<chain, hashPrevBlock, nextKey, stopping, input>>
round == <<mCurrBlock, mIndexPrev, mBlockTemplate>>
outputs == <<works, data, invalid>>
vars == <<shared, pc, job, round, mReserveKey, mExtraNonce, mNonceMap, mShares,
          outputs>>

best == Len(chain)                  \* pindexBest
CurrHeight(w) == chain[mCurrBlock[w]]   \* mCurrHeight

-----------------------------------------------------------------------------
(* The chain and the server.                                                 *)

Publish_DropsIfBusy(signal) ==
    input' = [w \in Worker |->
                IF input[w] = <<>> THEN <<signal>> ELSE input[w]]

Publish(signal) == input' = [w \in Worker |-> Append(input[w], signal)]

(* SetBestChain, under cs_main: pindexBest moves to a block of height h and  *)
(* NotifyNewBlock publishes it.                                              *)
SetBestChain_OnlyHigher(h) ==
    /\ chain' = Append(chain, h)
    /\ IF h > chain[best] THEN Publish(best + 1) ELSE UNCHANGED input

SetBestChain_NotifiesAhead(h) ==
    /\ chain' = Append(chain, h)
    /\ Publish(best + 2)

SetBestChain(h) ==
    /\ chain' = Append(chain, h)
    /\ Publish(best + 1)

(* A block from the network becomes the best: a child of the best block, or  *)
(* a block of a branch with more work, which need not be higher.             *)
NewBest ==
    /\ best < MaxBest
    /\ \E h \in {chain[best], chain[best] + 1} : SetBestChain(h)
    /\ UNCHANGED <<hashPrevBlock, nextKey, stopping, pc, job, round, mReserveKey,
                   mExtraNonce, mNonceMap, mShares, outputs>>

(* The destructor of PoolServer tells the workers to end.                    *)
StopServer ==
    /\ MayStop
    /\ ~stopping
    /\ stopping' = TRUE
    /\ Publish(SHUTDOWN)
    /\ UNCHANGED <<chain, hashPrevBlock, nextKey, pc, job, round, mReserveKey,
                   mExtraNonce, mNonceMap, mShares, outputs>>

-----------------------------------------------------------------------------
(* HandleInput.                                                              *)

Receive(w) ==
    /\ pc[w] = "loop"
    /\ input[w] # <<>>
    /\ input' = [input EXCEPT ![w] = Tail(@)]

(* NEWBLOCK: the block is announced to the clients; then the worker waits    *)
(* until it has peers.                                                       *)
ReceiveNewBlock(w) ==
    /\ Receive(w)
    /\ Head(input[w]) # SHUTDOWN
    /\ mCurrBlock' = [mCurrBlock EXCEPT ![w] = Head(input[w])]
    /\ pc' = [pc EXCEPT ![w] = "peers"]
    /\ UNCHANGED <<chain, hashPrevBlock, nextKey, stopping, job, mIndexPrev,
                   mBlockTemplate, mReserveKey, mExtraNonce, mNonceMap, mShares,
                   outputs>>

(* pindexBest is read without the lock, and the round's maps are cleared.    *)
ReadBest_ResetsNonce(w) ==
    /\ pc[w] = "peers"
    /\ mIndexPrev' = [mIndexPrev EXCEPT ![w] = best]
    /\ mNonceMap' = [mNonceMap EXCEPT ![w] = <<>>]
    /\ mShares' = [mShares EXCEPT ![w] = {}]
    /\ mExtraNonce' = [mExtraNonce EXCEPT ![w] = 0]
    /\ pc' = [pc EXCEPT ![w] = "template"]
    /\ UNCHANGED <<shared, job, mCurrBlock, mBlockTemplate, mReserveKey, outputs>>

ReadBest(w) ==
    /\ pc[w] = "peers"
    /\ mIndexPrev' = [mIndexPrev EXCEPT ![w] = best]
    /\ mNonceMap' = [mNonceMap EXCEPT ![w] = <<>>]
    /\ mShares' = [mShares EXCEPT ![w] = {}]
    /\ pc' = [pc EXCEPT ![w] = "template"]
    /\ UNCHANGED <<shared, job, mCurrBlock, mBlockTemplate, mReserveKey,
                   mExtraNonce, outputs>>

(* CreateNewBlock reads pindexBest again, under cs_main, and reserves a key  *)
(* unless the worker still holds one.                                        *)
MakeTemplate(w) ==
    LET key == IF mReserveKey[w] = 0 THEN nextKey ELSE mReserveKey[w]
    IN  /\ pc[w] = "template"
        /\ mReserveKey' = [mReserveKey EXCEPT ![w] = key]
        /\ nextKey' = IF mReserveKey[w] = 0 THEN nextKey + 1 ELSE nextKey
        /\ mBlockTemplate' = [mBlockTemplate EXCEPT ![w] =
                                [prev |-> best, key |-> key]]
        /\ pc' = [pc EXCEPT ![w] = "loop"]
        /\ UNCHANGED <<chain, hashPrevBlock, stopping, input, job, mCurrBlock,
                       mIndexPrev, mExtraNonce, mNonceMap, mShares, outputs>>

(* The loop ends: CreateNewBlock returned NULL, or on SHUTDOWN.              *)
TemplateFails(w) ==
    /\ MayFail
    /\ pc[w] = "template"
    /\ pc' = [pc EXCEPT ![w] = "stopped"]
    /\ UNCHANGED <<shared, job, round, mReserveKey, mExtraNonce, mNonceMap,
                   mShares, outputs>>

ReceiveShutdown(w) ==
    /\ Receive(w)
    /\ Head(input[w]) = SHUTDOWN
    /\ pc' = [pc EXCEPT ![w] = "stopped"]
    /\ UNCHANGED <<chain, hashPrevBlock, nextKey, stopping, job, round,
                   mReserveKey, mExtraNonce, mNonceMap, mShares, outputs>>

-----------------------------------------------------------------------------
(* IncrementExtraNonce.  Comparing the static with the template's parent     *)
(* races with the other workers' writes: while one is writing, the           *)
(* comparison may also come out as different, and two writes may leave a     *)
(* mixture of both.                                                          *)
Prev(w) == mBlockTemplate[w].prev

Writing(w) == {v \in Worker \ {w} : pc[v] = "write"}

Same(w) == {hashPrevBlock = Prev(w)} \cup (IF Writing(w) = {} THEN {} ELSE {FALSE})

WriteStatic(w) ==
    hashPrevBlock' \in {Prev(w)} \cup
        (IF \A v \in Writing(w) : Prev(v) = Prev(w) THEN {} ELSE {Torn})

(* The root over the template, its coinbase rewritten for extra nonce n.     *)
Merkle(w, n) ==
    [key |-> mBlockTemplate[w].key, height |-> chain[mIndexPrev[w]] + 1, extra |-> n]

-----------------------------------------------------------------------------
(* HandleRequest, GETWORK.  A work remembers, besides what the client is     *)
(* told, which template it was made from.                                    *)
Remember(w, m, n) ==
    mNonceMap' = [mNonceMap EXCEPT ![w] =
                    [x \in DOMAIN @ \cup {m} |-> IF x = m THEN n ELSE @[x]]]

GiveWork_KeepsNonce(w, n) ==
    /\ UNCHANGED mExtraNonce
    /\ Remember(w, Merkle(w, n), n)
    /\ works' = Append(works, [worker |-> w, block |-> mCurrBlock[w],
                               height |-> CurrHeight(w), merkle |-> Merkle(w, n),
                               prev |-> Prev(w)])

GiveWork(w, n) ==
    /\ mExtraNonce' = [mExtraNonce EXCEPT ![w] = n]
    /\ Remember(w, Merkle(w, n), n)
    /\ works' = Append(works, [worker |-> w, block |-> mCurrBlock[w],
                               height |-> CurrHeight(w), merkle |-> Merkle(w, n),
                               prev |-> Prev(w)])

GetWork(w) ==
    /\ pc[w] = "loop"
    /\ mCurrBlock[w] # Nil
    /\ Len(works) + Cardinality(Writing(w)) < MaxWork
    /\ \/ /\ TRUE \in Same(w)
          /\ GiveWork(w, mExtraNonce[w] + 1)
          /\ UNCHANGED <<pc, job>>
       \/ /\ FALSE \in Same(w)
          /\ pc' = [pc EXCEPT ![w] = "write"]
          /\ job' = [job EXCEPT ![w] = NoJob]
          /\ UNCHANGED <<mExtraNonce, mNonceMap, works>>
    /\ UNCHANGED <<shared, round, mReserveKey, mShares, data, invalid>>

GetWorkAfterWrite(w) ==
    /\ pc[w] = "write"
    /\ ~job[w].share
    /\ WriteStatic(w)
    /\ GiveWork(w, 1)
    /\ pc' = [pc EXCEPT ![w] = "loop"]
    /\ job' = [job EXCEPT ![w] = NoJob]
    /\ UNCHANGED <<chain, nextKey, stopping, input, round, mReserveKey, mShares,
                   data, invalid>>

-----------------------------------------------------------------------------
(* HandleRequest, SHARE.                                                     *)

(* The checks before the nonce is looked up.                                 *)
Current(w, work, sol) ==
    /\ mCurrBlock[w] # Nil
    /\ work.height = CurrHeight(w)
    /\ sol.claimed >= MinShare

Known(w, m) == m \in DOMAIN mNonceMap[w] /\ mNonceMap[w][m] # 0

(* The look-up with operator[] leaves a zero for a root it does not find.    *)
StaleShare(w, i, sol) ==
    /\ pc[w] = "loop"
    /\ Current(w, works[i], sol)
    /\ ~Known(w, works[i].merkle)
    /\ Remember(w, works[i].merkle, 0)
    /\ UNCHANGED <<shared, pc, job, round, mReserveKey, mExtraNonce, mShares,
                   outputs>>

(* CheckWork, under cs_main: the block must stand on the best block, and     *)
(* ProcessBlock accepts it if its coinbase has the right height.             *)
OnTip(w) == Prev(w) = best
HeightRight(m) == m.height = chain[best] + 1

Accepted_Always(w, m) == TRUE

Accepted(w, m) == OnTip(w) /\ HeightRight(m)

KeepKey_StillHeld(w) == UNCHANGED mReserveKey

KeepKey(w) == mReserveKey' = [mReserveKey EXCEPT ![w] = 0]

CheckWork(w, m) ==
    /\ IF OnTip(w) THEN KeepKey(w) ELSE UNCHANGED mReserveKey
    /\ IF Accepted(w, m) THEN SetBestChain(m.height) ELSE UNCHANGED <<chain, input>>

Send(w, m, sol, isblock) ==
    data' = [data EXCEPT ![w] =
        Append(@, [prev |-> Prev(w), merkle |-> m, sol |-> sol,
                   height |-> CurrHeight(w), isblock |-> isblock])]

(* The share is checked against the template with extra nonce n.             *)
HashDiffers_IgnoresParent(w, work, n) == Merkle(w, n) # work.merkle

HashDiffers(w, work, n) == Prev(w) # work.block \/ Merkle(w, n) # work.merkle

BlockHash(w, n, sol) == [prev |-> Prev(w), merkle |-> Merkle(w, n), sol |-> sol]

RefuseShare(w, work, sol, n) ==
    /\ HashDiffers(w, work, n)
    /\ invalid' = invalid \cup {[worker |-> w, work |-> work, prev |-> Prev(w)]}
    /\ UNCHANGED <<chain, input, mReserveKey, mShares, data>>

DuplicateShare(w, work, sol, n) ==
    /\ ~HashDiffers(w, work, n)
    /\ BlockHash(w, n, sol) \in mShares[w]
    /\ UNCHANGED <<chain, input, mReserveKey, mShares, data, invalid>>

CreditShare(w, work, sol, n) ==
    /\ ~HashDiffers(w, work, n)
    /\ BlockHash(w, n, sol) \notin mShares[w]
    /\ mShares' = [mShares EXCEPT ![w] = @ \cup {BlockHash(w, n, sol)}]
    /\ IF sol.length < MinShare
       THEN UNCHANGED <<chain, input, mReserveKey, data>>
       ELSE IF sol.isblock
       THEN /\ CheckWork(w, work.merkle)
            /\ Send(w, work.merkle, sol, Accepted(w, work.merkle))
       ELSE /\ Send(w, work.merkle, sol, FALSE)
            /\ UNCHANGED <<chain, input, mReserveKey>>
    /\ UNCHANGED invalid

CheckShare(w, work, sol, n) ==
    \/ RefuseShare(w, work, sol, n)
    \/ DuplicateShare(w, work, sol, n)
    \/ CreditShare(w, work, sol, n)

ShareNonce_NotBefore(w, m) == mNonceMap[w][m] + 1

ShareNonce(w, m) == mNonceMap[w][m]

HandleShare(w, i, sol) ==
    LET work == works[i]
    IN  /\ pc[w] = "loop"
        /\ Current(w, work, sol)
        /\ Known(w, work.merkle)
        /\ sol.isblock => best < MaxBest
        /\ \/ /\ TRUE \in Same(w)
              /\ CheckShare(w, work, sol, ShareNonce(w, work.merkle))
              /\ UNCHANGED <<pc, job>>
           \/ /\ FALSE \in Same(w)
              /\ pc' = [pc EXCEPT ![w] = "write"]
              /\ job' = [job EXCEPT ![w] =
                           [share |-> TRUE, work |-> work, sol |-> sol]]
              /\ UNCHANGED <<chain, input, mReserveKey, mShares, data, invalid>>
        /\ UNCHANGED <<hashPrevBlock, nextKey, stopping, round, mExtraNonce,
                       mNonceMap, works>>

ShareAfterWrite(w) ==
    /\ pc[w] = "write"
    /\ job[w].share
    /\ WriteStatic(w)
    /\ CheckShare(w, job[w].work, job[w].sol, 1)
    /\ pc' = [pc EXCEPT ![w] = "loop"]
    /\ job' = [job EXCEPT ![w] = NoJob]
    /\ UNCHANGED <<nextKey, stopping, round, mExtraNonce, mNonceMap, works>>

-----------------------------------------------------------------------------
(* The server has just been created: the genesis block is the best, and its  *)
(* NEWBLOCK is published, twice if SetBestChain ran meanwhile.  No worker    *)
(* has received it.                                                          *)
Init ==
    /\ chain = <<0>>
    /\ hashPrevBlock = Nil
    /\ nextKey = 1
    /\ stopping = FALSE
    /\ \E first \in {<<1>>, <<1, 1>>} : input = [w \in Worker |-> first]
    /\ pc = [w \in Worker |-> "loop"]
    /\ job = [w \in Worker |-> NoJob]
    /\ mCurrBlock = [w \in Worker |-> Nil]
    /\ mIndexPrev = [w \in Worker |-> Nil]
    /\ mBlockTemplate = [w \in Worker |-> [prev |-> Nil, key |-> 0]]
    /\ mReserveKey = [w \in Worker |-> 0]
    /\ mExtraNonce = [w \in Worker |-> 0]
    /\ mNonceMap = [w \in Worker |-> <<>>]
    /\ mShares = [w \in Worker |-> {}]
    /\ works = <<>>
    /\ data = [w \in Worker |-> <<>>]
    /\ invalid = {}

Input(w) == ReceiveNewBlock(w) \/ ReadBest(w) \/ MakeTemplate(w) \/ TemplateFails(w)
            \/ ReceiveShutdown(w)

Request(w) ==
    \/ GetWork(w)
    \/ GetWorkAfterWrite(w)
    \/ ShareAfterWrite(w)
    \/ \E i \in DOMAIN works, sol \in Solution :
          /\ works[i].worker = w
          /\ HandleShare(w, i, sol) \/ StaleShare(w, i, sol)

Next == NewBest \/ StopServer \/ \E w \in Worker : Input(w) \/ Request(w)

Spec == Init /\ [][Next]_vars

(* Fairness: a worker's loop serves its signals, and a handler that began    *)
(* goes on.  That it gets past its wait for peers is an assumption about the *)
(* network.                                                                  *)
FairSpec ==
    /\ Spec
    /\ \A w \in Worker : SF_vars(Input(w))
    /\ \A w \in Worker : WF_vars(GetWorkAfterWrite(w) \/ ShareAfterWrite(w))

-----------------------------------------------------------------------------
(* Properties.                                                               *)

MerkleType == [key : Nat, height : Nat, extra : Nat]
WorkType == [worker : Worker, block : Nat, height : Nat, merkle : MerkleType,
             prev : Nat]
JobType == {NoJob} \cup [share : {TRUE}, work : WorkType, sol : Solution]
HashType == [prev : Nat, merkle : MerkleType, sol : Solution]
DataType == [prev : Nat, merkle : MerkleType, sol : Solution, height : Nat,
             isblock : BOOLEAN]

(* Type correctness; the announced block, the block read before the template *)
(* and the template's parent are blocks that have been the best.             *)
TypeOK ==
    /\ chain \in Seq(Nat) /\ chain # <<>>
    /\ hashPrevBlock \in Nat \cup {Torn}
    /\ nextKey \in Nat \ {0}
    /\ stopping \in BOOLEAN
    /\ input \in [Worker -> Seq(Nat)]
    /\ pc \in [Worker -> {"loop", "peers", "template", "write", "stopped"}]
    /\ job \in [Worker -> JobType]
    /\ mCurrBlock \in [Worker -> Nat]
    /\ mIndexPrev \in [Worker -> Nat]
    /\ mBlockTemplate \in [Worker -> [prev : Nat, key : Nat]]
    /\ \A w \in Worker :
         {mCurrBlock[w], mIndexPrev[w], Prev(w)} \subseteq 0..best
    /\ mReserveKey \in [Worker -> Nat]
    /\ mExtraNonce \in [Worker -> Nat]
    /\ \A w \in Worker :
         /\ DOMAIN mNonceMap[w] \subseteq MerkleType
         /\ \A m \in DOMAIN mNonceMap[w] : mNonceMap[w][m] \in Nat
         /\ mShares[w] \subseteq HashType
    /\ works \in Seq(WorkType)
    /\ data \in [Worker -> Seq(DataType)]

(* A worker that has no signal left to receive and is not inside HandleInput *)
(* works for the best block: what it announces, what it takes the coinbase   *)
(* height from and what its template stands on are all that block.  Staleness*)
(* and the disagreement of the three last no longer than a signal is pending *)
(* (pool.cpp:279-308, main.cpp:1897).                                        *)
FreshWhenIdle ==
    \A w \in Worker :
        pc[w] \in {"loop", "write"} /\ input[w] = <<>>
            => /\ mCurrBlock[w] = best
               /\ mIndexPrev[w] = best
               /\ Prev(w) = best

Recorded == UNION {{<<w, i>> : i \in DOMAIN data[w]} : w \in Worker}
Row(r) == data[r[1]][r[2]]
Blocks == {r \in Recorded : Row(r).isblock}

(* However many workers find a block at the same time, at most one block is  *)
(* recorded, and its fee credited, for each best block (main.cpp:4572-4590,  *)
(* pool.cpp:550-569).                                                        *)
OneBlockPerTip ==
    \A r, q \in Blocks : r # q => Row(r).prev # Row(q).prev

(* The height recorded with a block is that of the block it stands on,       *)
(* though the worker takes it from the announced block: the header check     *)
(* refuses every share for which the two differ (pool.cpp:490, 524-533).     *)
BlockHeightRecorded ==
    \A r \in Blocks : Row(r).height = chain[Row(r).prev]

(* Every block of the pool is paid to a key of its own: a template made      *)
(* before KeepKey never yields a second block (main.cpp:4577-4578).          *)
KeyPerBlock ==
    \A r, q \in Blocks : r # q => Row(r).merkle.key # Row(q).merkle.key

(* With one worker, no two clients are given the same work, over any number  *)
(* of templates for the same block (pool.cpp:463-467, main.cpp:4493-4509).   *)
WorkUnique ==
    \A i, j \in DOMAIN works :
        i # j => \/ works[i].prev # works[j].prev
                 \/ works[i].merkle # works[j].merkle

(* With one worker, no block hash is credited twice, though mShares forgets  *)
(* all of them at each NEWBLOCK, also when one is repeated for the same block*)
(* (pool.cpp:301-303, 538-541).                                              *)
NeverCreditedTwice ==
    \A w \in Worker : \A i, j \in DOMAIN data[w] :
        i # j => \/ data[w][i].prev # data[w][j].prev
                 \/ data[w][i].merkle # data[w][j].merkle
                 \/ data[w][i].sol # data[w][j].sol

(* With one worker, an honest share is refused as INVALID only if the        *)
(* template it is checked against does not stand on the announced block.     *)
RefusedOnlyIfMoved == \A s \in invalid : s.work.block # s.prev

(* The coinbase of every work starts with the height of the block, as "Height*)
(* first in coinbase required for block.version=2" (main.cpp:4503) demands.  *)
CoinbaseHeight ==
    \A i \in DOMAIN works : works[i].merkle.height = chain[works[i].prev] + 1

(* When the best block stays, every worker whose loop has not ended comes to *)
(* work for it, whatever it was doing when the block came                    *)
(* (pool.cpp:772, 267-308).                                                  *)
EveryWorkerFollows ==
    \A n \in 1..MaxBest : \A w \in Worker :
        best = n ~> \/ best > n
                    \/ mCurrBlock[w] = n /\ Prev(w) = n
                    \/ pc[w] = "stopped"

=============================================================================
