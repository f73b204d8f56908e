-------------------------- MODULE PrimeWorkerProofs --------------------------
(***************************************************************************)
(* Proofs about PrimeWorker, for any finite set of workers, any solutions   *)
(* and any succession of best blocks: type correctness, freshness, and what *)
(* is recorded of blocks; for a pool with one worker, that no work is given *)
(* out, and no hash credited, twice; and for any number of workers, that a  *)
(* share is credited only by the worker that gave its work out.             *)
(***************************************************************************)
EXTENDS PrimeWorker, TLAPS

(* The maps of the workers, whose values TypeOK bounds.                      *)
MapInv == DOMAIN mNonceMap = Worker /\ DOMAIN mShares = Worker

(* Once a block was announced, the worker has a template when it serves      *)
(* requests, and one while it serves one.                                    *)
RoundInv ==
    \A w \in Worker :
        /\ pc[w] = "template" => mIndexPrev[w] # Nil
        /\ pc[w] \in {"loop", "write"} /\ mCurrBlock[w] # Nil
              => mIndexPrev[w] # Nil /\ Prev(w) # Nil
        /\ pc[w] = "write" => mCurrBlock[w] # Nil

(* The signals are blocks that have been the best, or SHUTDOWN.              *)
SignalInv ==
    \A w \in Worker : \A i \in DOMAIN input[w] : input[w][i] \in 0..best

Shape == TypeOK /\ MapInv /\ RoundInv /\ SignalInv

-----------------------------------------------------------------------------
(* A new best block is told to every worker.                                 *)
LEMMA BestType == ASSUME TypeOK PROVE best \in Nat \ {0} /\ DOMAIN chain = 1..best
BY DEF TypeOK, best

LEMMA Published ==
    ASSUME TypeOK, NEW s \in Nat, Publish(s)
    PROVE  /\ input' \in [Worker -> Seq(Nat)]
           /\ \A w \in Worker :
                /\ DOMAIN input'[w] = 1..(Len(input[w]) + 1)
                /\ \A i \in 1..Len(input[w]) : input'[w][i] = input[w][i]
                /\ input'[w][Len(input[w]) + 1] = s
                /\ Len(input[w]) \in Nat /\ DOMAIN input[w] = 1..Len(input[w])
<1>1. input' = [w \in Worker |-> Append(input[w], s)] /\ input \in [Worker -> Seq(Nat)]
  BY DEF Publish, TypeOK
<1>. QED  BY <1>1

LEMMA BestMoves ==
    ASSUME TypeOK, NEW h \in Nat, SetBestChain(h)
    PROVE  /\ chain' \in Seq(Nat) /\ chain' # <<>>
           /\ best' = best + 1
           /\ \A i \in 1..best : chain'[i] = chain[i]
           /\ chain'[best + 1] = h
           /\ Publish(best + 1)
<1>1. chain' = Append(chain, h) /\ Publish(best + 1)
  BY DEF SetBestChain
<1>2. chain \in Seq(Nat)
  BY DEF TypeOK
<1>3. chain' \in Seq(Nat) /\ Len(chain') = Len(chain) + 1 /\ Len(chain) \in Nat
  BY <1>1, <1>2
<1>4. (\A i \in 1..Len(chain) : chain'[i] = chain[i]) /\ chain'[Len(chain) + 1] = h
  BY <1>1, <1>2
<1>5. chain' # <<>>
  BY <1>3
<1>. QED  BY <1>1, <1>3, <1>4, <1>5 DEF best

LEMMA MerkleTyped ==
    ASSUME Shape, NEW w \in Worker, pc[w] \in {"loop", "write"}, mCurrBlock[w] # Nil,
           NEW n \in Nat
    PROVE  /\ Merkle(w, n) \in MerkleType
           /\ mIndexPrev[w] \in 1..best /\ mCurrBlock[w] \in 1..best
           /\ Prev(w) \in 1..best
           /\ CurrHeight(w) \in Nat
<1>1. mIndexPrev[w] # 0 /\ mCurrBlock[w] # 0 /\ Prev(w) # 0
  BY DEF Shape, RoundInv, Nil
<1>2. best \in Nat /\ {mCurrBlock[w], mIndexPrev[w], Prev(w)} \subseteq 0..best
  BY BestType DEF Shape, TypeOK
<1>3. mIndexPrev[w] \in 1..best /\ mCurrBlock[w] \in 1..best /\ Prev(w) \in 1..best
  BY <1>1, <1>2
<1>4. \A i \in 1..best : chain[i] \in Nat
  BY SMTT(30) DEF Shape, TypeOK, best
<1>5. mBlockTemplate[w].key \in Nat
  BY DEF Shape, TypeOK
<1>6. CurrHeight(w) \in Nat
  BY <1>3, <1>4 DEF CurrHeight
<1>7. chain[mIndexPrev[w]] + 1 \in Nat
  BY <1>3, <1>4
<1>8. Merkle(w, n) \in MerkleType
  BY <1>5, <1>7 DEF Merkle, MerkleType
<1>. QED  BY <1>3, <1>6, <1>8

-----------------------------------------------------------------------------
(* What a share that is checked may do.  A row is sent if it is credited;    *)
(* only an accepted block moves the chain, and the key of a template is      *)
(* given up if and only if that stood on the best block.                     *)
LEMMA CheckShareEffects ==
    ASSUME Shape, NEW w \in Worker, pc[w] \in {"loop", "write"}, mCurrBlock[w] # Nil,
           NEW work \in WorkType, NEW sol \in Solution, NEW n \in Nat,
           CheckShare(w, work, sol, n)
    PROVE  /\ DOMAIN mShares' = Worker /\ \A v \in Worker : mShares'[v] \subseteq HashType
           /\ \/ UNCHANGED <<chain, input, mReserveKey, data>>
              \/ \E isblock \in BOOLEAN :
                   /\ Send(w, work.merkle, sol, isblock)
                   /\ Prev(w) = work.block /\ work.merkle = Merkle(w, n)
                   /\ \/ /\ ~isblock /\ UNCHANGED <<chain, input>>
                         /\ \/ UNCHANGED mReserveKey
                            \/ OnTip(w) /\ ~HeightRight(work.merkle) /\ KeepKey(w)
                      \/ /\ isblock /\ OnTip(w) /\ HeightRight(work.merkle)
                         /\ KeepKey(w)
                         /\ SetBestChain(work.merkle.height)
<1>1. DOMAIN mShares = Worker /\ \A v \in Worker : mShares[v] \subseteq HashType
  BY DEF Shape, MapInv, TypeOK
<1>2. CASE RefuseShare(w, work, sol, n) \/ DuplicateShare(w, work, sol, n)
  BY <1>1, <1>2 DEF RefuseShare, DuplicateShare
<1>3. CASE CreditShare(w, work, sol, n)
  <2>1. BlockHash(w, n, sol) \in HashType
    <3>1. Merkle(w, n) \in MerkleType /\ Prev(w) \in Nat
      BY MerkleTyped
    <3>. QED  BY <3>1 DEF BlockHash, HashType
  <2>2. mShares' = [mShares EXCEPT ![w] = @ \cup {BlockHash(w, n, sol)}]
        /\ Prev(w) = work.block /\ work.merkle = Merkle(w, n)
    BY <1>3 DEF CreditShare, HashDiffers
  <2>3. DOMAIN mShares' = Worker /\ \A v \in Worker : mShares'[v] \subseteq HashType
    BY <1>1, <2>1, <2>2
  <2>4. CASE sol.length < MinShare
    BY <1>3, <2>3, <2>4 DEF CreditShare
  <2>5. CASE ~(sol.length < MinShare) /\ ~sol.isblock
    <3>1. Send(w, work.merkle, sol, FALSE) /\ UNCHANGED <<chain, input, mReserveKey>>
      BY <1>3, <2>5 DEF CreditShare
    <3>. QED  BY <2>2, <2>3, <3>1
  <2>6. CASE ~(sol.length < MinShare) /\ sol.isblock
    <3>. DEFINE a == Accepted(w, work.merkle)
    <3>1. CheckWork(w, work.merkle) /\ Send(w, work.merkle, sol, a)
      BY <1>3, <2>6 DEF CreditShare
    <3>2. CASE a
      <4>1. OnTip(w) /\ HeightRight(work.merkle) /\ KeepKey(w) /\ SetBestChain(work.merkle.height)
        BY <3>1, <3>2 DEF CheckWork, Accepted
      <4>2. Send(w, work.merkle, sol, TRUE)
        BY <3>1, <3>2
      <4>. QED  BY <2>2, <2>3, <4>1, <4>2
    <3>3. CASE ~a
      <4>1. Send(w, work.merkle, sol, FALSE)
        <5>1. a = FALSE
          BY <3>3 DEF Accepted, OnTip, HeightRight
        <5>. QED  BY <3>1, <5>1
      <4>2. UNCHANGED <<chain, input>>
        BY <3>1, <3>3 DEF CheckWork
      <4>3. UNCHANGED mReserveKey \/ (OnTip(w) /\ ~HeightRight(work.merkle) /\ KeepKey(w))
        BY <3>1, <3>3 DEF CheckWork, Accepted
      <4>. QED  BY <2>2, <2>3, <4>1, <4>2, <4>3
    <3>. QED  BY <3>2, <3>3
  <2>. QED  BY <2>4, <2>5, <2>6
<1>. QED  BY <1>2, <1>3 DEF CheckShare
-----------------------------------------------------------------------------
(* What a handler does to the chain, the signals, the keys and the rows sent,*)
(* as far as types go.                                                       *)
SharedTyped ==
    /\ chain' \in Seq(Nat) /\ chain' # <<>>
    /\ best' >= best
    /\ \A i \in 1..best : chain'[i] = chain[i]
    /\ input' \in [Worker -> Seq(Nat)]
    /\ \A v \in Worker : \A i \in DOMAIN input'[v] : input'[v][i] \in 0..best'
    /\ mReserveKey' \in [Worker -> Nat]
    /\ data' \in [Worker -> Seq(DataType)]

LEMMA SameShared ==
    ASSUME Shape, UNCHANGED <<chain, input, mReserveKey, data>>
    PROVE  SharedTyped
BY BestType, SMTT(30) DEF Shape, TypeOK, SignalInv, SharedTyped, best

LEMMA MovedShared ==
    ASSUME Shape, NEW h \in Nat, SetBestChain(h),
           mReserveKey' \in [Worker -> Nat], data' \in [Worker -> Seq(DataType)]
    PROVE  SharedTyped
<1>1. /\ chain' \in Seq(Nat) /\ chain' # <<>> /\ best' = best + 1
      /\ \A i \in 1..best : chain'[i] = chain[i]
      /\ Publish(best + 1)
  BY BestMoves DEF Shape
<1>2. best \in Nat
  BY BestType DEF Shape
<1>3. /\ input' \in [Worker -> Seq(Nat)]
      /\ \A w \in Worker :
           /\ DOMAIN input'[w] = 1..(Len(input[w]) + 1)
           /\ \A i \in 1..Len(input[w]) : input'[w][i] = input[w][i]
           /\ input'[w][Len(input[w]) + 1] = best + 1
           /\ Len(input[w]) \in Nat /\ DOMAIN input[w] = 1..Len(input[w])
  BY <1>1, <1>2, Published, SMTT(30) DEF Shape
<1>4. \A v \in Worker : \A i \in DOMAIN input'[v] : input'[v][i] \in 0..best'
  <2>. SUFFICES ASSUME NEW v \in Worker, NEW i \in DOMAIN input'[v]
                PROVE  input'[v][i] \in 0..best'
    OBVIOUS
  <2>1. CASE i = Len(input[v]) + 1
    BY <1>1, <1>2, <1>3, <2>1, SMTT(30)
  <2>2. CASE i # Len(input[v]) + 1
    <3>1. i \in 1..Len(input[v])
      BY <1>3, <2>2, SMTT(30)
    <3>2. input[v][i] \in 0..best
      BY <1>3, <3>1 DEF Shape, SignalInv
    <3>3. input'[v][i] = input[v][i]
      BY <1>3, <3>1
    <3>. QED  BY <1>1, <1>2, <3>2, <3>3
  <2>. QED  BY <2>1, <2>2
<1>. QED  BY <1>1, <1>2, <1>3, <1>4 DEF SharedTyped

LEMMA SentRow ==
    ASSUME Shape, NEW w \in Worker, NEW m \in MerkleType, NEW sol \in Solution,
           NEW b \in BOOLEAN, Prev(w) \in Nat, CurrHeight(w) \in Nat, Send(w, m, sol, b)
    PROVE  /\ data' \in [Worker -> Seq(DataType)]
           /\ \A v \in Worker \ {w} : data'[v] = data[v]
           /\ Len(data[w]) \in Nat /\ DOMAIN data[w] = 1..Len(data[w])
           /\ DOMAIN data'[w] = 1..(Len(data[w]) + 1)
           /\ \A i \in 1..Len(data[w]) : data'[w][i] = data[w][i]
           /\ data'[w][Len(data[w]) + 1] =
                 [prev |-> Prev(w), merkle |-> m, sol |-> sol,
                  height |-> CurrHeight(w), isblock |-> b]
<1>. DEFINE r == [prev |-> Prev(w), merkle |-> m, sol |-> sol,
                  height |-> CurrHeight(w), isblock |-> b]
<1>1. r \in DataType
  BY DEF DataType
<1>2. data \in [Worker -> Seq(DataType)]
  BY DEF Shape, TypeOK
<1>3. data' = [data EXCEPT ![w] = Append(data[w], r)]
  BY DEF Send
<1>4. data[w] \in Seq(DataType)
  BY <1>2
<1>. HIDE DEF r
<1>5. Append(data[w], r) \in Seq(DataType)
  BY <1>1, <1>4
<1>6. data' \in [Worker -> Seq(DataType)] /\ data'[w] = Append(data[w], r)
      /\ \A v \in Worker \ {w} : data'[v] = data[v]
  BY <1>2, <1>3, <1>5
<1>. QED  BY <1>1, <1>4, <1>6 DEF r

LEMMA KeyGone ==
    ASSUME Shape, NEW w \in Worker, KeepKey(w)
    PROVE  /\ mReserveKey' \in [Worker -> Nat]
           /\ mReserveKey'[w] = 0
           /\ \A v \in Worker \ {w} : mReserveKey'[v] = mReserveKey[v]
BY DEF Shape, TypeOK, KeepKey

LEMMA CheckShareShared ==
    ASSUME Shape, NEW w \in Worker, pc[w] \in {"loop", "write"}, mCurrBlock[w] # Nil,
           NEW work \in WorkType, NEW sol \in Solution, NEW n \in Nat,
           CheckShare(w, work, sol, n)
    PROVE  /\ SharedTyped
           /\ DOMAIN mShares' = Worker /\ \A v \in Worker : mShares'[v] \subseteq HashType
<1>1. work.merkle \in MerkleType /\ work.merkle.height \in Nat
  BY DEF WorkType, MerkleType
<1>2. Prev(w) \in Nat /\ CurrHeight(w) \in Nat
  BY MerkleTyped
<1>3. mReserveKey \in [Worker -> Nat]
  BY DEF Shape, TypeOK
<1>4. CASE UNCHANGED <<chain, input, mReserveKey, data>>
  BY <1>4, SameShared, CheckShareEffects
<1>5. CASE \E isblock \in BOOLEAN :
             /\ Send(w, work.merkle, sol, isblock)
             /\ Prev(w) = work.block /\ work.merkle = Merkle(w, n)
             /\ \/ /\ ~isblock /\ UNCHANGED <<chain, input>>
                   /\ \/ UNCHANGED mReserveKey
                      \/ OnTip(w) /\ ~HeightRight(work.merkle) /\ KeepKey(w)
                \/ /\ isblock /\ OnTip(w) /\ HeightRight(work.merkle)
                   /\ KeepKey(w)
                   /\ SetBestChain(work.merkle.height)
  <2>1. PICK isblock \in BOOLEAN :
             /\ Send(w, work.merkle, sol, isblock)
             /\ \/ UNCHANGED <<chain, input>> /\ (UNCHANGED mReserveKey \/ KeepKey(w))
                \/ KeepKey(w) /\ SetBestChain(work.merkle.height)
    BY <1>5
  <2>2. data' \in [Worker -> Seq(DataType)]
    BY <2>1, <1>1, <1>2, SentRow
  <2>3. mReserveKey' \in [Worker -> Nat]
    BY <2>1, <1>3, KeyGone
  <2>4. ASSUME UNCHANGED <<chain, input>> PROVE SharedTyped
    <3>1. chain' = chain /\ input' = input /\ best' = best
      BY <2>4 DEF best
    <3>2. /\ chain \in Seq(Nat) /\ chain # <<>> /\ best \in Nat
          /\ input \in [Worker -> Seq(Nat)]
      BY BestType DEF Shape, TypeOK
    <3>3. \A v \in Worker : \A i \in DOMAIN input[v] : input[v][i] \in 0..best
      BY DEF Shape, SignalInv
    <3>. QED  BY <2>2, <2>3, <3>1, <3>2, <3>3 DEF SharedTyped
  <2>5. ASSUME SetBestChain(work.merkle.height) PROVE SharedTyped
    BY <1>1, <2>2, <2>3, <2>5, MovedShared
  <2>6. SharedTyped
    BY <2>1, <2>4, <2>5
  <2>. QED  BY <2>6, CheckShareEffects
<1>. QED  BY <1>4, <1>5, CheckShareEffects

-----------------------------------------------------------------------------
(* The shape is inductive.                                                   *)
LEMMA Remembered ==
    ASSUME Shape, NEW w \in Worker, NEW m \in MerkleType, NEW n \in Nat,
           Remember(w, m, n)
    PROVE  /\ DOMAIN mNonceMap' = Worker
           /\ \A v \in Worker \ {w} : mNonceMap'[v] = mNonceMap[v]
           /\ DOMAIN mNonceMap'[w] = DOMAIN mNonceMap[w] \cup {m}
           /\ mNonceMap'[w][m] = n
           /\ \A x \in DOMAIN mNonceMap[w] \ {m} : mNonceMap'[w][x] = mNonceMap[w][x]
           /\ \A v \in Worker : /\ DOMAIN mNonceMap'[v] \subseteq MerkleType
                                /\ \A x \in DOMAIN mNonceMap'[v] : mNonceMap'[v][x] \in Nat
<1>. DEFINE new == [x \in DOMAIN mNonceMap[w] \cup {m} |->
                      IF x = m THEN n ELSE mNonceMap[w][x]]
<1>1. mNonceMap' = [mNonceMap EXCEPT ![w] = new]
  BY DEF Remember
<1>2. /\ DOMAIN new = DOMAIN mNonceMap[w] \cup {m} /\ new[m] = n
      /\ \A x \in DOMAIN mNonceMap[w] \ {m} : new[x] = mNonceMap[w][x]
  OBVIOUS
<1>. HIDE DEF new
<1>3. DOMAIN mNonceMap = Worker
  BY DEF Shape, MapInv
<1>4. /\ DOMAIN mNonceMap' = Worker /\ mNonceMap'[w] = new
      /\ \A v \in Worker \ {w} : mNonceMap'[v] = mNonceMap[v]
  BY <1>1, <1>3
<1>5. \A v \in Worker : /\ DOMAIN mNonceMap[v] \subseteq MerkleType
                        /\ \A x \in DOMAIN mNonceMap[v] : mNonceMap[v][x] \in Nat
  BY DEF Shape, TypeOK
<1>6. \A x \in DOMAIN new : new[x] \in Nat
  BY <1>2, <1>5
<1>. QED  BY <1>2, <1>4, <1>5, <1>6

LEMMA Handed ==
    ASSUME Shape, NEW w \in Worker, pc[w] \in {"loop", "write"}, mCurrBlock[w] # Nil,
           NEW n \in Nat, GiveWork(w, n)
    PROVE  /\ mExtraNonce' \in [Worker -> Nat] /\ mExtraNonce'[w] = n
           /\ Remember(w, Merkle(w, n), n) /\ Merkle(w, n) \in MerkleType
           /\ works' \in Seq(WorkType)
           /\ Len(works) \in Nat /\ DOMAIN works = 1..Len(works)
           /\ DOMAIN works' = 1..(Len(works) + 1)
           /\ \A i \in 1..Len(works) : works'[i] = works[i]
           /\ works'[Len(works) + 1] =
                [worker |-> w, block |-> mCurrBlock[w], height |-> CurrHeight(w),
                 merkle |-> Merkle(w, n), prev |-> Prev(w)]
<1>. DEFINE k == [worker |-> w, block |-> mCurrBlock[w], height |-> CurrHeight(w),
                  merkle |-> Merkle(w, n), prev |-> Prev(w)]
<1>1. /\ Merkle(w, n) \in MerkleType /\ CurrHeight(w) \in Nat
      /\ mCurrBlock[w] \in Nat /\ Prev(w) \in Nat
  <2>1. best \in Nat
    BY BestType DEF Shape
  <2>. QED  BY <2>1, MerkleTyped
<1>2. k \in WorkType
  BY <1>1 DEF WorkType
<1>3. works' = Append(works, k) /\ works \in Seq(WorkType)
  BY DEF GiveWork, Shape, TypeOK
<1>4. mExtraNonce' \in [Worker -> Nat] /\ mExtraNonce'[w] = n
  BY DEF GiveWork, Shape, TypeOK
<1>5. Remember(w, Merkle(w, n), n)
  BY DEF GiveWork
<1>. HIDE DEF k
<1>6. /\ works' \in Seq(WorkType)
      /\ Len(works) \in Nat /\ DOMAIN works = 1..Len(works)
      /\ DOMAIN works' = 1..(Len(works) + 1)
      /\ \A i \in 1..Len(works) : works'[i] = works[i]
      /\ works'[Len(works) + 1] = k
  BY <1>2, <1>3
<1>. QED  BY <1>1, <1>4, <1>5, <1>6 DEF k

PCs == {"loop", "peers", "template", "write", "stopped"}

(* A handler of requests keeps the round as it is.                           *)
LEMMA ShapeServing ==
    ASSUME Shape, SharedTyped, UNCHANGED <<nextKey, stopping, round>>,
           hashPrevBlock' \in Nat \cup {Torn},
           pc' \in [Worker -> PCs], job' \in [Worker -> JobType],
           \A v \in Worker :
             /\ pc'[v] = "template" => pc[v] = "template"
             /\ pc'[v] \in {"loop", "write"} => pc[v] \in {"loop", "write"}
             /\ pc'[v] = "write" => mCurrBlock[v] # Nil,
           mExtraNonce' \in [Worker -> Nat],
           DOMAIN mNonceMap' = Worker,
           \A v \in Worker : /\ DOMAIN mNonceMap'[v] \subseteq MerkleType
                             /\ \A x \in DOMAIN mNonceMap'[v] : mNonceMap'[v][x] \in Nat,
           DOMAIN mShares' = Worker, \A v \in Worker : mShares'[v] \subseteq HashType,
           works' \in Seq(WorkType)
    PROVE  Shape'
<1>1. /\ mCurrBlock' = mCurrBlock /\ mIndexPrev' = mIndexPrev
      /\ mBlockTemplate' = mBlockTemplate /\ nextKey' = nextKey /\ stopping' = stopping
  BY DEF round
<1>2. \A w \in Worker : Prev(w)' = Prev(w)
  BY <1>1 DEF Prev
<1>3. best \in Nat /\ best' \in Nat /\ best' >= best
  BY BestType DEF Shape, SharedTyped, best
<1>4. \A w \in Worker : {mCurrBlock'[w], mIndexPrev'[w], Prev(w)'} \subseteq 0..best'
  <2>1. \A w \in Worker : {mCurrBlock[w], mIndexPrev[w], Prev(w)} \subseteq 0..best
    BY DEF Shape, TypeOK
  <2>. QED  BY <1>1, <1>2, <1>3, <2>1
<1>5. TypeOK'
  <2>1. /\ nextKey \in Nat \ {0} /\ stopping \in BOOLEAN
        /\ mCurrBlock \in [Worker -> Nat] /\ mIndexPrev \in [Worker -> Nat]
        /\ mBlockTemplate \in [Worker -> [prev : Nat, key : Nat]]
    BY DEF Shape, TypeOK
  <2>2. /\ chain' \in Seq(Nat) /\ chain' # <<>> /\ input' \in [Worker -> Seq(Nat)]
        /\ mReserveKey' \in [Worker -> Nat] /\ data' \in [Worker -> Seq(DataType)]
    BY DEF SharedTyped
  <2>. QED  BY <1>1, <1>4, <2>1, <2>2 DEF TypeOK, PCs
<1>6. RoundInv'
  BY <1>1, <1>2 DEF Shape, RoundInv
<1>7. SignalInv'
  BY DEF SharedTyped, SignalInv
<1>. QED  BY <1>5, <1>6, <1>7 DEF Shape, MapInv

(* The handlers of requests keep the shape.                                  *)
LEMMA ShapeGetWork ==
    ASSUME Shape, NEW w \in Worker, GetWork(w)
    PROVE  Shape'
<1>1. /\ pc[w] = "loop" /\ mCurrBlock[w] # Nil
      /\ UNCHANGED <<shared, round, mReserveKey, mShares, data, invalid>>
  BY DEF GetWork
<1>2. SharedTyped /\ hashPrevBlock' \in Nat \cup {Torn}
  <2>1. UNCHANGED <<chain, input, mReserveKey, data>> /\ hashPrevBlock' = hashPrevBlock
    BY <1>1 DEF shared
  <2>. QED  BY <2>1, SameShared DEF Shape, TypeOK
<1>3. /\ pc \in [Worker -> PCs] /\ job \in [Worker -> JobType]
      /\ mExtraNonce \in [Worker -> Nat] /\ works \in Seq(WorkType)
  BY DEF Shape, TypeOK, PCs
<1>4. /\ DOMAIN mNonceMap = Worker /\ DOMAIN mShares = Worker
      /\ \A v \in Worker : /\ DOMAIN mNonceMap[v] \subseteq MerkleType
                           /\ \A x \in DOMAIN mNonceMap[v] : mNonceMap[v][x] \in Nat
                           /\ mShares[v] \subseteq HashType
  BY DEF Shape, TypeOK, MapInv
<1>5. \A v \in Worker : pc[v] = "write" => mCurrBlock[v] # Nil
  BY DEF Shape, RoundInv
<1>6. nextKey' = nextKey /\ stopping' = stopping /\ mShares' = mShares /\ UNCHANGED round
  BY <1>1 DEF shared
<1>7. CASE GiveWork(w, mExtraNonce[w] + 1) /\ UNCHANGED <<pc, job>>
  <2>1. mExtraNonce[w] + 1 \in Nat
    BY <1>3
  <2>. DEFINE n == mExtraNonce[w] + 1
  <2>. HIDE DEF n
  <2>2. /\ mExtraNonce' \in [Worker -> Nat] /\ works' \in Seq(WorkType)
        /\ Remember(w, Merkle(w, n), n) /\ Merkle(w, n) \in MerkleType
    BY <1>1, <1>7, <2>1, Handed DEF n
  <2>3. /\ DOMAIN mNonceMap' = Worker
        /\ \A v \in Worker : /\ DOMAIN mNonceMap'[v] \subseteq MerkleType
                             /\ \A x \in DOMAIN mNonceMap'[v] : mNonceMap'[v][x] \in Nat
    BY <2>1, <2>2, Remembered DEF n
  <2>. QED  BY <1>2, <1>3, <1>4, <1>5, <1>6, <1>7, <2>2, <2>3, ShapeServing
<1>8. CASE /\ pc' = [pc EXCEPT ![w] = "write"] /\ job' = [job EXCEPT ![w] = NoJob]
           /\ UNCHANGED <<mExtraNonce, mNonceMap, works>>
  <2>1. pc' \in [Worker -> PCs] /\ job' \in [Worker -> JobType]
    BY <1>3, <1>8 DEF PCs, JobType
  <2>2. \A v \in Worker :
             /\ pc'[v] = "template" => pc[v] = "template"
             /\ pc'[v] \in {"loop", "write"} => pc[v] \in {"loop", "write"}
             /\ pc'[v] = "write" => mCurrBlock[v] # Nil
    BY <1>1, <1>3, <1>5, <1>8
  <2>. QED  BY <1>2, <1>3, <1>4, <1>6, <1>8, <2>1, <2>2, ShapeServing
<1>. QED  BY <1>7, <1>8 DEF GetWork

LEMMA StaticTyped ==
    ASSUME Shape, NEW w \in Worker, WriteStatic(w)
    PROVE  hashPrevBlock' \in Nat \cup {Torn}
<1>1. mBlockTemplate \in [Worker -> [prev : Nat, key : Nat]]
  BY DEF Shape, TypeOK
<1>. QED  BY <1>1 DEF WriteStatic, Prev

LEMMA BackToLoop ==
    ASSUME Shape, NEW w \in Worker, pc[w] = "write",
           pc' = [pc EXCEPT ![w] = "loop"], job' = [job EXCEPT ![w] = NoJob]
    PROVE  /\ pc' \in [Worker -> PCs] /\ job' \in [Worker -> JobType]
           /\ \A v \in Worker :
                /\ pc'[v] = "template" => pc[v] = "template"
                /\ pc'[v] \in {"loop", "write"} => pc[v] \in {"loop", "write"}
                /\ pc'[v] = "write" => mCurrBlock[v] # Nil
<1>1. pc \in [Worker -> PCs] /\ job \in [Worker -> JobType]
  BY DEF Shape, TypeOK, PCs
<1>2. \A v \in Worker : pc[v] = "write" => mCurrBlock[v] # Nil
  BY DEF Shape, RoundInv
<1>3. NoJob \in JobType
  BY DEF JobType
<1>. QED  BY <1>1, <1>2, <1>3 DEF PCs

LEMMA ShapeGetWorkAfterWrite ==
    ASSUME Shape, NEW w \in Worker, GetWorkAfterWrite(w)
    PROVE  Shape'
<1>1. /\ pc[w] = "write" /\ WriteStatic(w) /\ GiveWork(w, 1)
      /\ pc' = [pc EXCEPT ![w] = "loop"] /\ job' = [job EXCEPT ![w] = NoJob]
      /\ UNCHANGED <<chain, nextKey, stopping, input, round, mReserveKey, mShares,
                     data, invalid>>
  BY DEF GetWorkAfterWrite
<1>2. mCurrBlock[w] # Nil
  BY <1>1 DEF Shape, RoundInv
<1>3. SharedTyped
  BY <1>1, SameShared
<1>4. hashPrevBlock' \in Nat \cup {Torn}
  BY <1>1, StaticTyped
<1>5. /\ pc' \in [Worker -> PCs] /\ job' \in [Worker -> JobType]
      /\ \A v \in Worker :
           /\ pc'[v] = "template" => pc[v] = "template"
           /\ pc'[v] \in {"loop", "write"} => pc[v] \in {"loop", "write"}
           /\ pc'[v] = "write" => mCurrBlock[v] # Nil
  BY <1>1, BackToLoop
<1>6. /\ mExtraNonce' \in [Worker -> Nat] /\ works' \in Seq(WorkType)
      /\ Remember(w, Merkle(w, 1), 1) /\ Merkle(w, 1) \in MerkleType
  BY <1>1, <1>2, Handed
<1>7. /\ DOMAIN mNonceMap' = Worker
      /\ \A v \in Worker : /\ DOMAIN mNonceMap'[v] \subseteq MerkleType
                           /\ \A x \in DOMAIN mNonceMap'[v] : mNonceMap'[v][x] \in Nat
  BY <1>6, Remembered
<1>8. /\ DOMAIN mShares' = Worker /\ \A v \in Worker : mShares'[v] \subseteq HashType
      /\ UNCHANGED <<nextKey, stopping, round>>
  BY <1>1 DEF Shape, TypeOK, MapInv
<1>. QED  BY <1>3, <1>4, <1>5, <1>6, <1>7, <1>8, ShapeServing

LEMMA JobTyped ==
    ASSUME Shape, NEW w \in Worker, job[w].share
    PROVE  job[w].work \in WorkType /\ job[w].sol \in Solution
<1>1. job[w] \in JobType
  BY DEF Shape, TypeOK
<1>2. CASE job[w] = NoJob
  BY <1>2 DEF NoJob
<1>3. CASE job[w] \in [share : {TRUE}, work : WorkType, sol : Solution]
  BY <1>3
<1>. QED  BY <1>1, <1>2, <1>3 DEF JobType

LEMMA ShapeShareAfterWrite ==
    ASSUME Shape, NEW w \in Worker, ShareAfterWrite(w)
    PROVE  Shape'
<1>1. /\ pc[w] = "write" /\ job[w].share /\ WriteStatic(w)
      /\ CheckShare(w, job[w].work, job[w].sol, 1)
      /\ pc' = [pc EXCEPT ![w] = "loop"] /\ job' = [job EXCEPT ![w] = NoJob]
      /\ UNCHANGED <<nextKey, stopping, round, mExtraNonce, mNonceMap, works>>
  BY DEF ShareAfterWrite
<1>2. mCurrBlock[w] # Nil
  BY <1>1 DEF Shape, RoundInv
<1>3. job[w].work \in WorkType /\ job[w].sol \in Solution
  BY <1>1, JobTyped
<1>4. /\ SharedTyped
      /\ DOMAIN mShares' = Worker /\ \A v \in Worker : mShares'[v] \subseteq HashType
  BY <1>1, <1>2, <1>3, CheckShareShared
<1>5. hashPrevBlock' \in Nat \cup {Torn}
  BY <1>1, StaticTyped
<1>6. /\ pc' \in [Worker -> PCs] /\ job' \in [Worker -> JobType]
      /\ \A v \in Worker :
           /\ pc'[v] = "template" => pc[v] = "template"
           /\ pc'[v] \in {"loop", "write"} => pc[v] \in {"loop", "write"}
           /\ pc'[v] = "write" => mCurrBlock[v] # Nil
  BY <1>1, BackToLoop
<1>7. /\ mExtraNonce' \in [Worker -> Nat] /\ works' \in Seq(WorkType)
      /\ DOMAIN mNonceMap' = Worker
      /\ \A v \in Worker : /\ DOMAIN mNonceMap'[v] \subseteq MerkleType
                           /\ \A x \in DOMAIN mNonceMap'[v] : mNonceMap'[v][x] \in Nat
  BY <1>1 DEF Shape, TypeOK, MapInv
<1>. QED  BY <1>1, <1>4, <1>5, <1>6, <1>7, ShapeServing

LEMMA ShapeHandleShare ==
    ASSUME Shape, NEW w \in Worker, NEW i \in DOMAIN works, NEW sol \in Solution,
           HandleShare(w, i, sol)
    PROVE  Shape'
<1>1. /\ pc[w] = "loop" /\ Current(w, works[i], sol) /\ Known(w, works[i].merkle)
      /\ UNCHANGED <<hashPrevBlock, nextKey, stopping, round, mExtraNonce, mNonceMap, works>>
  BY DEF HandleShare
<1>2. mCurrBlock[w] # Nil
  BY <1>1 DEF Current
<1>3. works[i] \in WorkType
  BY DEF Shape, TypeOK
<1>4. /\ hashPrevBlock' \in Nat \cup {Torn}
      /\ mExtraNonce' \in [Worker -> Nat] /\ works' \in Seq(WorkType)
      /\ DOMAIN mNonceMap' = Worker
      /\ \A v \in Worker : /\ DOMAIN mNonceMap'[v] \subseteq MerkleType
                           /\ \A x \in DOMAIN mNonceMap'[v] : mNonceMap'[v][x] \in Nat
  BY <1>1 DEF Shape, TypeOK, MapInv
<1>5. /\ pc \in [Worker -> PCs] /\ job \in [Worker -> JobType]
      /\ \A v \in Worker : pc[v] = "write" => mCurrBlock[v] # Nil
  BY DEF Shape, TypeOK, PCs, RoundInv
<1>6. CASE /\ CheckShare(w, works[i], sol, ShareNonce(w, works[i].merkle))
           /\ UNCHANGED <<pc, job>>
  <2>1. ShareNonce(w, works[i].merkle) \in Nat
    BY <1>1 DEF Shape, TypeOK, Known, ShareNonce
  <2>2. /\ SharedTyped
        /\ DOMAIN mShares' = Worker /\ \A v \in Worker : mShares'[v] \subseteq HashType
    BY <1>1, <1>2, <1>3, <1>6, <2>1, CheckShareShared
  <2>. QED  BY <1>1, <1>4, <1>5, <1>6, <2>2, ShapeServing
<1>7. CASE /\ pc' = [pc EXCEPT ![w] = "write"]
           /\ job' = [job EXCEPT ![w] = [share |-> TRUE, work |-> works[i], sol |-> sol]]
           /\ UNCHANGED <<chain, input, mReserveKey, mShares, data, invalid>>
  <2>1. [share |-> TRUE, work |-> works[i], sol |-> sol] \in JobType
    BY <1>3 DEF JobType
  <2>2. pc' \in [Worker -> PCs] /\ job' \in [Worker -> JobType]
    BY <1>5, <1>7, <2>1 DEF PCs
  <2>3. \A v \in Worker :
             /\ pc'[v] = "template" => pc[v] = "template"
             /\ pc'[v] \in {"loop", "write"} => pc[v] \in {"loop", "write"}
             /\ pc'[v] = "write" => mCurrBlock[v] # Nil
    BY <1>1, <1>2, <1>5, <1>7
  <2>4. SharedTyped
    BY <1>7, SameShared
  <2>5. DOMAIN mShares' = Worker /\ \A v \in Worker : mShares'[v] \subseteq HashType
    BY <1>7 DEF Shape, TypeOK, MapInv
  <2>. QED  BY <1>1, <1>4, <2>2, <2>3, <2>4, <2>5, ShapeServing
<1>. QED  BY <1>6, <1>7 DEF HandleShare

LEMMA ShapeStaleShare ==
    ASSUME Shape, NEW w \in Worker, NEW i \in DOMAIN works, NEW sol \in Solution,
           StaleShare(w, i, sol)
    PROVE  Shape'
<1>1. /\ Remember(w, works[i].merkle, 0)
      /\ UNCHANGED <<shared, pc, job, round, mReserveKey, mExtraNonce, mShares, outputs>>
  BY DEF StaleShare
<1>2. works[i].merkle \in MerkleType
  <2>1. works[i] \in WorkType
    BY DEF Shape, TypeOK
  <2>. QED  BY <2>1 DEF WorkType
<1>3. /\ DOMAIN mNonceMap' = Worker
      /\ \A v \in Worker : /\ DOMAIN mNonceMap'[v] \subseteq MerkleType
                           /\ \A x \in DOMAIN mNonceMap'[v] : mNonceMap'[v][x] \in Nat
  BY <1>1, <1>2, Remembered
<1>4. /\ UNCHANGED <<chain, input, mReserveKey, data>> /\ works' = works
      /\ nextKey' = nextKey /\ stopping' = stopping /\ hashPrevBlock' = hashPrevBlock
      /\ pc' = pc /\ job' = job /\ mExtraNonce' = mExtraNonce /\ mShares' = mShares
      /\ UNCHANGED round
  BY <1>1 DEF shared, outputs
<1>5. SharedTyped
  BY <1>4, SameShared
<1>6. /\ hashPrevBlock \in Nat \cup {Torn} /\ pc \in [Worker -> PCs]
      /\ job \in [Worker -> JobType] /\ mExtraNonce \in [Worker -> Nat]
      /\ works \in Seq(WorkType) /\ DOMAIN mShares = Worker
      /\ \A v \in Worker : mShares[v] \subseteq HashType
      /\ \A v \in Worker : pc[v] = "write" => mCurrBlock[v] # Nil
  BY DEF Shape, TypeOK, MapInv, RoundInv, PCs
<1>. QED  BY <1>3, <1>4, <1>5, <1>6, ShapeServing

(* The chain and the server keep it.                                         *)
LEMMA ShapeOutside ==
    ASSUME Shape, NewBest \/ StopServer
    PROVE  Shape'
<1>1. /\ UNCHANGED <<hashPrevBlock, nextKey, pc, job, round, mReserveKey, mExtraNonce,
                     mNonceMap, mShares, works, data>>
      /\ stopping' \in BOOLEAN
  BY DEF NewBest, StopServer, outputs, Shape, TypeOK
<1>2. SharedTyped
  <2>1. data \in [Worker -> Seq(DataType)] /\ mReserveKey \in [Worker -> Nat]
    BY DEF Shape, TypeOK
  <2>2. CASE NewBest
    <3>1. PICK h \in {chain[best], chain[best] + 1} : SetBestChain(h)
      BY <2>2 DEF NewBest
    <3>2. h \in Nat
      BY <3>1, BestType, SMTT(30) DEF Shape, TypeOK
    <3>. QED  BY <1>1, <2>1, <3>1, <3>2, MovedShared
  <2>3. CASE StopServer
    <3>1. Publish(0) /\ chain' = chain /\ best' = best
      BY <2>3 DEF StopServer, SHUTDOWN, best
    <3>2. /\ input' \in [Worker -> Seq(Nat)]
          /\ \A v \in Worker :
               /\ DOMAIN input'[v] = 1..(Len(input[v]) + 1)
               /\ \A i \in 1..Len(input[v]) : input'[v][i] = input[v][i]
               /\ input'[v][Len(input[v]) + 1] = 0
               /\ Len(input[v]) \in Nat /\ DOMAIN input[v] = 1..Len(input[v])
      BY <3>1, Published DEF Shape
    <3>3. best \in Nat /\ chain \in Seq(Nat) /\ chain # <<>>
      BY BestType DEF Shape, TypeOK
    <3>4. \A v \in Worker : \A i \in DOMAIN input'[v] : input'[v][i] \in 0..best'
      <4>. SUFFICES ASSUME NEW v \in Worker, NEW i \in DOMAIN input'[v]
                    PROVE  input'[v][i] \in 0..best'
        OBVIOUS
      <4>1. CASE i = Len(input[v]) + 1
        BY <3>1, <3>2, <3>3, <4>1
      <4>2. CASE i # Len(input[v]) + 1
        <5>1. i \in 1..Len(input[v]) /\ i \in DOMAIN input[v]
          BY <3>2, <4>2, SMTT(30)
        <5>2. input'[v][i] = input[v][i]
          BY <3>2, <5>1
        <5>. QED  BY <3>1, <5>1, <5>2 DEF Shape, SignalInv
      <4>. QED  BY <4>1, <4>2
    <3>. QED  BY <1>1, <2>1, <3>1, <3>2, <3>3, <3>4 DEF SharedTyped
  <2>. QED  BY <2>2, <2>3
<1>3. /\ mCurrBlock' = mCurrBlock /\ mIndexPrev' = mIndexPrev
      /\ mBlockTemplate' = mBlockTemplate
      /\ \A w \in Worker : Prev(w)' = Prev(w)
  BY <1>1 DEF round, Prev
<1>4. best \in Nat /\ best' \in Nat /\ best' >= best
  BY <1>2, BestType DEF Shape, SharedTyped, best
<1>5. \A w \in Worker : {mCurrBlock'[w], mIndexPrev'[w], Prev(w)'} \subseteq 0..best'
  <2>1. \A w \in Worker : {mCurrBlock[w], mIndexPrev[w], Prev(w)} \subseteq 0..best
    BY DEF Shape, TypeOK
  <2>. QED  BY <1>3, <1>4, <2>1
<1>6. TypeOK'
  <2>1. /\ chain' \in Seq(Nat) /\ chain' # <<>> /\ input' \in [Worker -> Seq(Nat)]
    BY <1>2 DEF SharedTyped
  <2>. QED  BY <1>1, <1>3, <1>5, <2>1 DEF Shape, TypeOK
<1>7. RoundInv' /\ MapInv'
  BY <1>1, <1>3 DEF Shape, RoundInv, MapInv
<1>8. SignalInv'
  BY <1>2 DEF SharedTyped, SignalInv
<1>. QED  BY <1>6, <1>7, <1>8 DEF Shape

(* HandleInput keeps it.                                                     *)
LEMMA Received ==
    ASSUME Shape, NEW w \in Worker, Receive(w)
    PROVE  /\ pc[w] = "loop" /\ Len(input[w]) \in Nat \ {0}
           /\ DOMAIN input[w] = 1..Len(input[w])
           /\ Head(input[w]) = input[w][1] /\ Head(input[w]) \in 0..best
           /\ input' \in [Worker -> Seq(Nat)]
           /\ \A v \in Worker \ {w} : input'[v] = input[v]
           /\ Len(input'[w]) = Len(input[w]) - 1
           /\ DOMAIN input'[w] = 1..(Len(input[w]) - 1)
           /\ \A i \in 1..(Len(input[w]) - 1) : input'[w][i] = input[w][i + 1]
           /\ \A v \in Worker : \A i \in DOMAIN input'[v] : input'[v][i] \in 0..best
<1>1. /\ pc[w] = "loop" /\ input[w] # <<>>
      /\ input' = [input EXCEPT ![w] = Tail(input[w])]
      /\ input \in [Worker -> Seq(Nat)]
  BY DEF Receive, Shape, TypeOK
<1>2. input[w] \in Seq(Nat)
  BY <1>1
<1>3. /\ Len(input[w]) \in Nat \ {0} /\ DOMAIN input[w] = 1..Len(input[w])
      /\ Head(input[w]) = input[w][1]
      /\ Tail(input[w]) \in Seq(Nat) /\ Len(Tail(input[w])) = Len(input[w]) - 1
      /\ DOMAIN Tail(input[w]) = 1..(Len(input[w]) - 1)
      /\ \A i \in 1..(Len(input[w]) - 1) : Tail(input[w])[i] = input[w][i + 1]
  BY <1>1, <1>2
<1>4. /\ input' \in [Worker -> Seq(Nat)] /\ input'[w] = Tail(input[w])
      /\ \A v \in Worker \ {w} : input'[v] = input[v]
  BY <1>1, <1>3
<1>5. \A v \in Worker : \A i \in DOMAIN input[v] : input[v][i] \in 0..best
  BY DEF Shape, SignalInv
<1>6. Head(input[w]) \in 0..best
  BY <1>3, <1>5
<1>7. \A v \in Worker : \A i \in DOMAIN input'[v] : input'[v][i] \in 0..best
  <2>. SUFFICES ASSUME NEW v \in Worker, NEW i \in DOMAIN input'[v]
                PROVE  input'[v][i] \in 0..best
    OBVIOUS
  <2>1. CASE v = w
    <3>1. i \in 1..(Len(input[w]) - 1)
      BY <1>3, <1>4, <2>1
    <3>. DEFINE q == input[w]
    <3>2. Len(q) \in Nat /\ DOMAIN q = 1..Len(q)
      BY <1>3
    <3>3. i \in Nat /\ 1 <= i /\ i <= Len(q) - 1
      BY <3>1, <3>2
    <3>4. i + 1 \in DOMAIN q
      <4>. HIDE DEF q
      <4>. QED  BY <3>2, <3>3
    <3>5. input'[v] = Tail(q)
      BY <1>4, <2>1
    <3>6. Tail(q)[i] = q[i + 1]
      BY <1>3, <3>1
    <3>7. i + 1 \in DOMAIN input[w] /\ input'[v][i] = input[w][i + 1]
      BY <3>4, <3>5, <3>6
    <3>. QED  BY <1>5, <3>7
  <2>2. CASE v # w
    BY <1>4, <1>5, <2>2
  <2>. QED  BY <2>1, <2>2
<1>. QED  BY <1>1, <1>3, <1>4, <1>6, <1>7

LEMMA ShapeInput ==
    ASSUME Shape, NEW w \in Worker, Input(w)
    PROVE  Shape'
<1>0. /\ chain' = chain /\ best' = best /\ best \in Nat \ {0}
      /\ chain \in Seq(Nat) /\ chain # <<>>
      /\ UNCHANGED <<hashPrevBlock, stopping, job, works, data>>
  BY BestType DEF Input, ReceiveNewBlock, ReadBest, MakeTemplate, TemplateFails,
                  ReceiveShutdown, shared, outputs, best, Shape, TypeOK
<1>1. /\ pc \in [Worker -> PCs] /\ mCurrBlock \in [Worker -> Nat]
      /\ mIndexPrev \in [Worker -> Nat]
      /\ mBlockTemplate \in [Worker -> [prev : Nat, key : Nat]]
      /\ mReserveKey \in [Worker -> Nat] /\ nextKey \in Nat \ {0}
      /\ mExtraNonce \in [Worker -> Nat]
  BY DEF Shape, TypeOK, PCs
<1>2. \A v \in Worker : mCurrBlock[v] \in 0..best /\ mIndexPrev[v] \in 0..best
                        /\ Prev(v) \in 0..best
  BY DEF Shape, TypeOK
<1>3. /\ DOMAIN mNonceMap = Worker /\ DOMAIN mShares = Worker
      /\ \A v \in Worker : /\ DOMAIN mNonceMap[v] \subseteq MerkleType
                           /\ \A x \in DOMAIN mNonceMap[v] : mNonceMap[v][x] \in Nat
                           /\ mShares[v] \subseteq HashType
  BY DEF Shape, TypeOK, MapInv
<1>4. /\ input \in [Worker -> Seq(Nat)]
      /\ \A v \in Worker : \A i \in DOMAIN input[v] : input[v][i] \in 0..best
  BY DEF Shape, TypeOK, SignalInv
<1>5. \A v \in Worker :
        /\ pc[v] = "template" => mIndexPrev[v] # Nil
        /\ pc[v] \in {"loop", "write"} /\ mCurrBlock[v] # Nil
              => mIndexPrev[v] # Nil /\ Prev(v) # Nil
        /\ pc[v] = "write" => mCurrBlock[v] # Nil
  BY DEF Shape, RoundInv
<1>6. SUFFICES
        /\ pc' \in [Worker -> PCs] /\ mCurrBlock' \in [Worker -> Nat]
        /\ mIndexPrev' \in [Worker -> Nat]
        /\ mBlockTemplate' \in [Worker -> [prev : Nat, key : Nat]]
        /\ mReserveKey' \in [Worker -> Nat] /\ nextKey' \in Nat \ {0}
        /\ mExtraNonce' \in [Worker -> Nat]
        /\ \A v \in Worker : mCurrBlock'[v] \in 0..best /\ mIndexPrev'[v] \in 0..best
                             /\ mBlockTemplate'[v].prev \in 0..best
        /\ DOMAIN mNonceMap' = Worker /\ DOMAIN mShares' = Worker
        /\ \A v \in Worker : /\ DOMAIN mNonceMap'[v] \subseteq MerkleType
                             /\ \A x \in DOMAIN mNonceMap'[v] : mNonceMap'[v][x] \in Nat
                             /\ mShares'[v] \subseteq HashType
        /\ input' \in [Worker -> Seq(Nat)]
        /\ \A v \in Worker : \A i \in DOMAIN input'[v] : input'[v][i] \in 0..best
        /\ \A v \in Worker :
             /\ pc'[v] = "template" => mIndexPrev'[v] # Nil
             /\ pc'[v] \in {"loop", "write"} /\ mCurrBlock'[v] # Nil
                   => mIndexPrev'[v] # Nil /\ mBlockTemplate'[v].prev # Nil
             /\ pc'[v] = "write" => mCurrBlock'[v] # Nil
  <2>1. TypeOK'
    <3>1. /\ hashPrevBlock \in Nat \cup {Torn} /\ stopping \in BOOLEAN
          /\ job \in [Worker -> JobType]
          /\ works \in Seq(WorkType) /\ data \in [Worker -> Seq(DataType)]
      BY DEF Shape, TypeOK
    <3>2. /\ chain' \in Seq(Nat) /\ chain' # <<>>
          /\ hashPrevBlock' \in Nat \cup {Torn} /\ stopping' \in BOOLEAN
          /\ job' \in [Worker -> JobType]
          /\ works' \in Seq(WorkType) /\ data' \in [Worker -> Seq(DataType)]
      BY <1>0, <3>1
    <3>3. \A v \in Worker : {mCurrBlock'[v], mIndexPrev'[v], Prev(v)'} \subseteq 0..best'
      BY <1>0, <1>6 DEF Prev
    <3>4. \A v \in Worker : /\ DOMAIN mNonceMap'[v] \subseteq MerkleType
                            /\ \A x \in DOMAIN mNonceMap'[v] : mNonceMap'[v][x] \in Nat
                            /\ mShares'[v] \subseteq HashType
      BY <1>6
    <3>. QED  BY <1>6, <3>2, <3>3, <3>4, Zenon DEF TypeOK, PCs
  <2>2. MapInv' /\ RoundInv' /\ SignalInv'
    BY <1>0, <1>6 DEF MapInv, RoundInv, SignalInv, Prev
  <2>. QED  BY <2>1, <2>2 DEF Shape
<1>7. CASE ReceiveNewBlock(w)
  <2>1. /\ Receive(w) /\ pc' = [pc EXCEPT ![w] = "peers"]
        /\ mCurrBlock' = [mCurrBlock EXCEPT ![w] = Head(input[w])]
        /\ UNCHANGED <<nextKey, mIndexPrev, mBlockTemplate, mReserveKey, mExtraNonce,
                       mNonceMap, mShares>>
    BY <1>7 DEF ReceiveNewBlock
  <2>2. /\ Head(input[w]) \in 0..best /\ input' \in [Worker -> Seq(Nat)]
        /\ \A v \in Worker : \A i \in DOMAIN input'[v] : input'[v][i] \in 0..best
    BY <2>1, Received
  <2>3. pc' \in [Worker -> PCs] /\ mCurrBlock' \in [Worker -> Nat]
        /\ \A v \in Worker : mCurrBlock'[v] \in 0..best
    BY <1>0, <1>1, <1>2, <2>1, <2>2, SMTT(30) DEF PCs
  <2>4. \A v \in Worker :
             /\ pc'[v] = "template" => mIndexPrev'[v] # Nil
             /\ pc'[v] \in {"loop", "write"} /\ mCurrBlock'[v] # Nil
                   => mIndexPrev'[v] # Nil /\ mBlockTemplate'[v].prev # Nil
             /\ pc'[v] = "write" => mCurrBlock'[v] # Nil
    BY <1>1, <1>5, <2>1 DEF Prev
  <2>. QED  BY <1>1, <1>2, <1>3, <2>1, <2>2, <2>3, <2>4 DEF Prev
<1>8. CASE ReadBest(w)
  <2>1. /\ pc' = [pc EXCEPT ![w] = "template"]
        /\ mIndexPrev' = [mIndexPrev EXCEPT ![w] = best]
        /\ mNonceMap' = [mNonceMap EXCEPT ![w] = <<>>]
        /\ mShares' = [mShares EXCEPT ![w] = {}]
        /\ UNCHANGED <<input, nextKey, mCurrBlock, mBlockTemplate, mReserveKey, mExtraNonce>>
    BY <1>8 DEF ReadBest, shared
  <2>2. /\ DOMAIN mNonceMap' = Worker /\ DOMAIN mShares' = Worker
        /\ \A v \in Worker : /\ DOMAIN mNonceMap'[v] \subseteq MerkleType
                             /\ \A x \in DOMAIN mNonceMap'[v] : mNonceMap'[v][x] \in Nat
                             /\ mShares'[v] \subseteq HashType
    <3>1. mNonceMap'[w] = <<>> /\ \A v \in Worker \ {w} : mNonceMap'[v] = mNonceMap[v]
      BY <1>3, <2>1
    <3>2. DOMAIN <<>> = {}
      OBVIOUS
    <3>3. mShares'[w] = {} /\ \A v \in Worker \ {w} : mShares'[v] = mShares[v]
      BY <1>3, <2>1
    <3>. QED  BY <1>3, <2>1, <3>1, <3>2, <3>3
  <2>3. pc' \in [Worker -> PCs] /\ mIndexPrev' \in [Worker -> Nat]
        /\ \A v \in Worker : mIndexPrev'[v] \in 0..best
    BY <1>0, <1>1, <1>2, <2>1 DEF PCs
  <2>4. \A v \in Worker :
             /\ pc'[v] = "template" => mIndexPrev'[v] # Nil
             /\ pc'[v] \in {"loop", "write"} /\ mCurrBlock'[v] # Nil
                   => mIndexPrev'[v] # Nil /\ mBlockTemplate'[v].prev # Nil
             /\ pc'[v] = "write" => mCurrBlock'[v] # Nil
    BY <1>0, <1>1, <1>5, <2>1 DEF Prev, Nil
  <2>. QED  BY <1>1, <1>2, <1>4, <2>1, <2>2, <2>3, <2>4 DEF Prev
<1>9. CASE MakeTemplate(w)
  <2>. DEFINE key == IF mReserveKey[w] = 0 THEN nextKey ELSE mReserveKey[w]
  <2>1. /\ pc[w] = "template" /\ pc' = [pc EXCEPT ![w] = "loop"]
        /\ mReserveKey' = [mReserveKey EXCEPT ![w] = key]
        /\ nextKey' = IF mReserveKey[w] = 0 THEN nextKey + 1 ELSE nextKey
        /\ mBlockTemplate' = [mBlockTemplate EXCEPT ![w] = [prev |-> best, key |-> key]]
        /\ UNCHANGED <<input, mCurrBlock, mIndexPrev, mExtraNonce, mNonceMap, mShares>>
    BY <1>9 DEF MakeTemplate
  <2>2. key \in Nat /\ nextKey' \in Nat \ {0}
    BY <1>1, <2>1
  <2>. HIDE DEF key
  <2>3. /\ pc' \in [Worker -> PCs] /\ mReserveKey' \in [Worker -> Nat]
        /\ mBlockTemplate' \in [Worker -> [prev : Nat, key : Nat]]
        /\ mBlockTemplate'[w].prev = best
        /\ \A v \in Worker \ {w} : mBlockTemplate'[v] = mBlockTemplate[v]
    BY <1>0, <1>1, <2>1, <2>2 DEF PCs
  <2>4. \A v \in Worker : mBlockTemplate'[v].prev \in 0..best
    <3>1. mBlockTemplate'[w].prev \in 0..best
      BY <1>0, <2>3
    <3>2. \A v \in Worker \ {w} : mBlockTemplate'[v].prev \in 0..best
      <4>1. \A v \in Worker : mBlockTemplate[v].prev \in 0..best
        BY <1>2 DEF Prev
      <4>2. \A v \in Worker \ {w} : mBlockTemplate'[v].prev = mBlockTemplate[v].prev
        BY <2>3
      <4>. QED  BY <4>1, <4>2
    <3>. QED  BY <3>1, <3>2
  <2>5. \A v \in Worker :
             /\ pc'[v] = "template" => mIndexPrev'[v] # Nil
             /\ pc'[v] \in {"loop", "write"} /\ mCurrBlock'[v] # Nil
                   => mIndexPrev'[v] # Nil /\ mBlockTemplate'[v].prev # Nil
             /\ pc'[v] = "write" => mCurrBlock'[v] # Nil
    BY <1>0, <1>1, <1>5, <2>1, <2>3 DEF Prev, Nil
  <2>. QED  BY <1>1, <1>2, <1>3, <1>4, <2>1, <2>2, <2>3, <2>4, <2>5
<1>10. CASE TemplateFails(w) \/ ReceiveShutdown(w)
  <2>1. /\ pc' = [pc EXCEPT ![w] = "stopped"]
        /\ UNCHANGED <<nextKey, round, mReserveKey, mExtraNonce, mNonceMap, mShares>>
        /\ UNCHANGED input \/ Receive(w)
    BY <1>10 DEF TemplateFails, ReceiveShutdown, shared
  <2>2. /\ input' \in [Worker -> Seq(Nat)]
        /\ \A v \in Worker : \A i \in DOMAIN input'[v] : input'[v][i] \in 0..best
    BY <1>4, <2>1, Received
  <2>3. pc' \in [Worker -> PCs]
    BY <1>1, <2>1 DEF PCs
  <2>4. mCurrBlock' = mCurrBlock /\ mIndexPrev' = mIndexPrev
        /\ mBlockTemplate' = mBlockTemplate
    BY <2>1 DEF round
  <2>5. \A v \in Worker :
             /\ pc'[v] = "template" => mIndexPrev'[v] # Nil
             /\ pc'[v] \in {"loop", "write"} /\ mCurrBlock'[v] # Nil
                   => mIndexPrev'[v] # Nil /\ mBlockTemplate'[v].prev # Nil
             /\ pc'[v] = "write" => mCurrBlock'[v] # Nil
    BY <1>1, <1>5, <2>1, <2>4 DEF Prev
  <2>. QED  BY <1>1, <1>2, <1>3, <2>1, <2>2, <2>3, <2>4, <2>5 DEF Prev
<1>. QED  BY <1>7, <1>8, <1>9, <1>10 DEF Input

LEMMA InitShape == Init => Shape
<1>. SUFFICES ASSUME Init PROVE Shape
  OBVIOUS
<1>1. /\ chain \in Seq(Nat) /\ chain # <<>> /\ best = 1
  BY DEF Init, best
<1>2. /\ input \in [Worker -> Seq(Nat)]
      /\ \A w \in Worker : \A i \in DOMAIN input[w] : input[w][i] = 1
  <2>1. PICK first \in {<<1>>, <<1, 1>>} : input = [w \in Worker |-> first]
    BY DEF Init
  <2>2. first \in Seq(Nat) /\ \A i \in DOMAIN first : first[i] = 1
    <3>1. CASE first = <<1>>
      BY <3>1
    <3>2. CASE first = <<1, 1>>
      <4>1. first \in Seq(Nat) /\ DOMAIN first = 1..2 /\ first[1] = 1 /\ first[2] = 1
        BY <3>2
      <4>. QED  BY <4>1
    <3>. QED  BY <2>1, <3>1, <3>2
  <2>. QED  BY <2>1, <2>2
<1>3. /\ works \in Seq(WorkType) /\ data \in [Worker -> Seq(DataType)]
      /\ job \in [Worker -> JobType]
  BY DEF Init, JobType
<1>4. mBlockTemplate \in [Worker -> [prev : Nat, key : Nat]]
      /\ \A w \in Worker : Prev(w) = 0
  BY DEF Init, Prev, Nil
<1>5. /\ DOMAIN mNonceMap = Worker /\ DOMAIN mShares = Worker
      /\ \A w \in Worker : /\ DOMAIN mNonceMap[w] = {}
                           /\ mShares[w] = {}
  BY DEF Init
<1>6. TypeOK
  <2>1. /\ hashPrevBlock \in Nat \cup {Torn} /\ nextKey \in Nat \ {0} /\ stopping \in BOOLEAN
        /\ pc \in [Worker -> PCs]
        /\ mCurrBlock \in [Worker -> Nat] /\ mIndexPrev \in [Worker -> Nat]
        /\ mReserveKey \in [Worker -> Nat] /\ mExtraNonce \in [Worker -> Nat]
    <3>1. /\ hashPrevBlock = 0 /\ nextKey = 1 /\ stopping = FALSE
          /\ pc = [w \in Worker |-> "loop"]
          /\ mCurrBlock = [w \in Worker |-> 0] /\ mIndexPrev = [w \in Worker |-> 0]
          /\ mReserveKey = [w \in Worker |-> 0] /\ mExtraNonce = [w \in Worker |-> 0]
      BY DEF Init, Nil
    <3>2. hashPrevBlock \in Nat \cup {Torn} /\ nextKey \in Nat \ {0}
      BY <3>1
    <3>4. stopping \in BOOLEAN
      BY <3>1, Zenon
    <3>3. pc \in [Worker -> PCs]
      BY <3>1 DEF PCs
    <3>. QED  BY <3>1, <3>2, <3>3, <3>4
  <2>2. \A w \in Worker : {mCurrBlock[w], mIndexPrev[w], Prev(w)} \subseteq 0..best
    BY <1>1, <1>4 DEF Init, Nil
  <2>. QED  BY <1>1, <1>2, <1>3, <1>4, <1>5, <2>1, <2>2 DEF TypeOK, PCs
<1>7. MapInv /\ RoundInv /\ SignalInv
  BY <1>1, <1>2, <1>5 DEF MapInv, RoundInv, SignalInv, Init
<1>. QED  BY <1>6, <1>7 DEF Shape

LEMMA ShapeStep == Shape /\ [Next]_vars => Shape'
<1>. SUFFICES ASSUME Shape, [Next]_vars PROVE Shape'
  OBVIOUS
<1>1. CASE NewBest \/ StopServer
  BY <1>1, ShapeOutside
<1>2. ASSUME NEW w \in Worker, Input(w) PROVE Shape'
  BY <1>2, ShapeInput
<1>3. ASSUME NEW w \in Worker, Request(w) PROVE Shape'
  BY <1>3, ShapeGetWork, ShapeGetWorkAfterWrite, ShapeShareAfterWrite, ShapeHandleShare,
     ShapeStaleShare DEF Request
<1>4. CASE UNCHANGED vars
  BY <1>4 DEF vars, shared, round, outputs, Shape, TypeOK, MapInv, RoundInv, SignalInv,
              best, Prev
<1>. QED  BY <1>1, <1>2, <1>3, <1>4 DEF Next

(* Every variable holds a value of its type in every reachable state, and    *)
(* the three views of the best block are blocks that have been the best.     *)
THEOREM TypeCorrect == Spec => []TypeOK
<1>1. Shape => TypeOK
  BY DEF Shape
<1>. QED  BY <1>1, InitShape, ShapeStep, PTL DEF Spec

-----------------------------------------------------------------------------
(* What a request may do, seen from outside its handler.                     *)

(* A work is for the announced block of its height; so is the one a share    *)
(* that waits for the static was made from, and that block is still announced*)
GoodWork(k) == k.block \in 1..best /\ k.height = chain[k.block]

WorkInv == \A i \in DOMAIN works : GoodWork(works[i])

JobInv ==
    \A w \in Worker :
        pc[w] = "write" /\ job[w].share
            => GoodWork(job[w].work) /\ job[w].work.height = CurrHeight(w)

(* A row is sent for the block the template stands on; with a block, the     *)
(* chain moves on.                                                           *)
SendsRow(w) ==
    /\ Prev(w) \in 1..best /\ CurrHeight(w) = chain[Prev(w)]
    /\ CurrHeight(w) \in Nat
    /\ \E m \in MerkleType, sol \in Solution, b \in BOOLEAN, n \in Nat :
         /\ m = Merkle(w, n)
         /\ Send(w, m, sol, b)
         /\ \/ /\ ~b /\ UNCHANGED <<chain, input>>
               /\ \/ UNCHANGED mReserveKey
                  \/ OnTip(w) /\ ~HeightRight(m) /\ KeepKey(w)
            \/ /\ b /\ OnTip(w) /\ HeightRight(m)
               /\ KeepKey(w)
               /\ SetBestChain(m.height)

LEMMA CheckedSends ==
    ASSUME Shape, NEW w \in Worker, pc[w] \in {"loop", "write"}, mCurrBlock[w] # Nil,
           NEW work \in WorkType, NEW sol \in Solution, NEW n \in Nat,
           GoodWork(work), work.height = CurrHeight(w),
           CheckShare(w, work, sol, n)
    PROVE  UNCHANGED <<chain, input, mReserveKey, data>> \/ SendsRow(w)
<1>1. CASE UNCHANGED <<chain, input, mReserveKey, data>>
  BY <1>1
<1>2. CASE \E isblock \in BOOLEAN :
             /\ Send(w, work.merkle, sol, isblock)
             /\ Prev(w) = work.block /\ work.merkle = Merkle(w, n)
             /\ \/ /\ ~isblock /\ UNCHANGED <<chain, input>>
                   /\ \/ UNCHANGED mReserveKey
                      \/ OnTip(w) /\ ~HeightRight(work.merkle) /\ KeepKey(w)
                \/ /\ isblock /\ OnTip(w) /\ HeightRight(work.merkle)
                   /\ KeepKey(w)
                   /\ SetBestChain(work.merkle.height)
  <2>1. Prev(w) = work.block /\ work.merkle = Merkle(w, n)
    BY <1>2
  <2>2. Prev(w) \in 1..best /\ CurrHeight(w) = chain[Prev(w)]
    BY <2>1 DEF GoodWork
  <2>3. CurrHeight(w) \in Nat /\ work.merkle \in MerkleType
    BY MerkleTyped, <2>1
  <2>. QED  BY <1>2, <2>1, <2>2, <2>3 DEF SendsRow
<1>. QED  BY <1>1, <1>2, CheckShareEffects

LEMMA RequestEffect ==
    ASSUME Shape, WorkInv, JobInv, NEW w \in Worker, Request(w)
    PROVE  /\ UNCHANGED <<nextKey, mCurrBlock, mIndexPrev, mBlockTemplate>>
           /\ pc[w] \in {"loop", "write"} /\ mCurrBlock[w] # Nil
           /\ \A v \in Worker : /\ pc'[v] \in {"loop", "write"} <=> pc[v] \in {"loop", "write"}
                                /\ pc[v] \notin {"loop", "write"} => pc'[v] = pc[v]
           /\ UNCHANGED <<chain, input, mReserveKey, data>> \/ SendsRow(w)
<1>1. pc \in [Worker -> PCs] /\ \A v \in Worker : pc[v] = "write" => mCurrBlock[v] # Nil
  BY DEF Shape, TypeOK, PCs, RoundInv
<1>2. CASE GetWork(w)
  <2>1. /\ pc[w] = "loop" /\ mCurrBlock[w] # Nil
        /\ UNCHANGED pc \/ pc' = [pc EXCEPT ![w] = "write"]
        /\ UNCHANGED <<shared, round, mReserveKey, data>>
    BY <1>2 DEF GetWork
  <2>. QED  BY <1>1, <2>1 DEF shared, round
<1>3. CASE GetWorkAfterWrite(w)
  <2>1. /\ pc[w] = "write" /\ pc' = [pc EXCEPT ![w] = "loop"]
        /\ UNCHANGED <<chain, nextKey, input, round, mReserveKey, data>>
    BY <1>3 DEF GetWorkAfterWrite
  <2>. QED  BY <1>1, <2>1 DEF round
<1>4. CASE ShareAfterWrite(w)
  <2>1. /\ pc[w] = "write" /\ pc' = [pc EXCEPT ![w] = "loop"] /\ job[w].share
        /\ CheckShare(w, job[w].work, job[w].sol, 1)
        /\ UNCHANGED <<nextKey, round>>
    BY <1>4 DEF ShareAfterWrite
  <2>2. job[w].work \in WorkType /\ job[w].sol \in Solution
    BY <2>1, JobTyped
  <2>3. GoodWork(job[w].work) /\ job[w].work.height = CurrHeight(w)
    BY <2>1 DEF JobInv
  <2>4. UNCHANGED <<chain, input, mReserveKey, data>> \/ SendsRow(w)
    BY <1>1, <2>1, <2>2, <2>3, CheckedSends
  <2>. QED  BY <1>1, <2>1, <2>4 DEF round
<1>5. ASSUME NEW i \in DOMAIN works, NEW sol \in Solution, HandleShare(w, i, sol)
      PROVE  /\ UNCHANGED <<nextKey, round>>
             /\ pc[w] = "loop" /\ mCurrBlock[w] # Nil
             /\ UNCHANGED pc \/ pc' = [pc EXCEPT ![w] = "write"]
             /\ UNCHANGED <<chain, input, mReserveKey, data>> \/ SendsRow(w)
  <2>1. /\ pc[w] = "loop" /\ Current(w, works[i], sol) /\ Known(w, works[i].merkle)
        /\ UNCHANGED <<nextKey, round>>
        /\ \/ CheckShare(w, works[i], sol, ShareNonce(w, works[i].merkle)) /\ UNCHANGED pc
           \/ /\ pc' = [pc EXCEPT ![w] = "write"]
              /\ UNCHANGED <<chain, input, mReserveKey, data>>
    BY <1>5 DEF HandleShare
  <2>2. mCurrBlock[w] # Nil /\ works[i].height = CurrHeight(w)
    BY <2>1 DEF Current
  <2>3. works[i] \in WorkType /\ GoodWork(works[i])
    BY DEF Shape, TypeOK, WorkInv
  <2>4. ShareNonce(w, works[i].merkle) \in Nat
    BY <2>1 DEF Shape, TypeOK, Known, ShareNonce
  <2>5. CheckShare(w, works[i], sol, ShareNonce(w, works[i].merkle))
          => UNCHANGED <<chain, input, mReserveKey, data>> \/ SendsRow(w)
    BY <2>1, <2>2, <2>3, <2>4, CheckedSends
  <2>. QED  BY <2>1, <2>2, <2>5
<1>6. ASSUME NEW i \in DOMAIN works, NEW sol \in Solution, StaleShare(w, i, sol)
      PROVE  /\ UNCHANGED <<nextKey, round, pc, chain, input, mReserveKey, data>>
             /\ pc[w] = "loop" /\ mCurrBlock[w] # Nil
  BY <1>6 DEF StaleShare, shared, outputs, Current
<1>7. CASE \E i \in DOMAIN works, sol \in Solution :
             HandleShare(w, i, sol) \/ StaleShare(w, i, sol)
  <2>1. /\ UNCHANGED <<nextKey, round>>
        /\ pc[w] = "loop" /\ mCurrBlock[w] # Nil
        /\ UNCHANGED pc \/ pc' = [pc EXCEPT ![w] = "write"]
        /\ UNCHANGED <<chain, input, mReserveKey, data>> \/ SendsRow(w)
    BY <1>5, <1>6, <1>7
  <2>. QED  BY <1>1, <2>1 DEF round
<1>. QED  BY <1>2, <1>3, <1>4, <1>7 DEF Request

-----------------------------------------------------------------------------
(* The works and the jobs go with their blocks, which stay where they are.   *)
LEMMA GoodLater ==
    ASSUME Shape, Shape', best' >= best, \A i \in 1..best : chain'[i] = chain[i]
    PROVE  \A k : GoodWork(k) => GoodWork(k)'
<1>1. best \in Nat /\ best' \in Nat
  <2>1. chain \in Seq(Nat) /\ chain' \in Seq(Nat)
    BY DEF Shape, TypeOK
  <2>. QED  BY <2>1 DEF best
<1>. SUFFICES ASSUME NEW k, GoodWork(k)
              PROVE  k.block \in 1..best' /\ k.height = chain'[k.block]
  BY DEF GoodWork
<1>. QED  BY <1>1 DEF GoodWork

LEMMA NewBestMoves ==
    ASSUME Shape, NewBest
    PROVE  \E h \in Nat : SetBestChain(h)
<1>1. PICK h \in {chain[best], chain[best] + 1} : SetBestChain(h)
  BY DEF NewBest
<1>2. chain[best] \in Nat
  BY BestType, SMTT(30) DEF Shape, TypeOK
<1>. QED  BY <1>1, <1>2

(* What every step does to the chain and the blocks announced.               *)
LEMMA ChainGrows ==
    ASSUME Shape, WorkInv, JobInv, Next
    PROVE  best' >= best /\ \A i \in 1..best : chain'[i] = chain[i]
<1>0. best \in Nat
  BY BestType DEF Shape
<1>1. ASSUME NEW h \in Nat, SetBestChain(h)
      PROVE  best' >= best /\ \A i \in 1..best : chain'[i] = chain[i]
  BY <1>0, <1>1, BestMoves DEF Shape
<1>2. ASSUME UNCHANGED chain
      PROVE  best' >= best /\ \A i \in 1..best : chain'[i] = chain[i]
  BY <1>0, <1>2 DEF best
<1>3. CASE NewBest
  BY <1>1, <1>3, NewBestMoves
<1>4. CASE StopServer
  BY <1>2, <1>4 DEF StopServer
<1>5. ASSUME NEW w \in Worker, Input(w) PROVE UNCHANGED chain
  BY <1>5 DEF Input, ReceiveNewBlock, ReadBest, MakeTemplate, TemplateFails,
              ReceiveShutdown, shared
<1>6. ASSUME NEW w \in Worker, Request(w)
      PROVE  UNCHANGED chain \/ \E h \in Nat : SetBestChain(h)
  <2>1. UNCHANGED <<chain, input, mReserveKey, data>> \/ SendsRow(w)
    BY <1>6, RequestEffect
  <2>2. CASE SendsRow(w)
    <3>1. PICK m \in MerkleType : UNCHANGED chain \/ SetBestChain(m.height)
      BY <2>2 DEF SendsRow
    <3>. QED  BY <3>1 DEF MerkleType
  <2>. QED  BY <2>1, <2>2
<1>. QED  BY <1>1, <1>2, <1>3, <1>4, <1>5, <1>6 DEF Next

LEMMA HandsOutGood ==
    ASSUME Shape, NEW w \in Worker, pc[w] \in {"loop", "write"}, mCurrBlock[w] # Nil,
           NEW n \in Nat, WorkInv, GiveWork(w, n)
    PROVE  \A i \in DOMAIN works' : GoodWork(works'[i])
<1>1. /\ Len(works) \in Nat /\ DOMAIN works = 1..Len(works)
      /\ DOMAIN works' = 1..(Len(works) + 1)
      /\ \A i \in 1..Len(works) : works'[i] = works[i]
      /\ works'[Len(works) + 1] =
                [worker |-> w, block |-> mCurrBlock[w], height |-> CurrHeight(w),
                 merkle |-> Merkle(w, n), prev |-> Prev(w)]
  BY Handed
<1>2. mCurrBlock[w] \in 1..best
  BY MerkleTyped
<1>3. GoodWork(works'[Len(works) + 1])
  BY <1>1, <1>2 DEF GoodWork, CurrHeight
<1>4. \A i \in 1..Len(works) : GoodWork(works'[i])
  BY <1>1 DEF WorkInv
<1>. QED  BY <1>1, <1>3, <1>4

(* How the works and the jobs change: nothing, a good work, a good job.      *)
LEMMA WorkStep ==
    ASSUME Shape, Shape', WorkInv, JobInv, Next
    PROVE  WorkInv'
<1>1. \A k : GoodWork(k) => GoodWork(k)'
  BY ChainGrows, GoodLater
<1>2. CASE UNCHANGED works
  BY <1>1, <1>2 DEF WorkInv
<1>3. ASSUME NEW w \in Worker, pc[w] \in {"loop", "write"}, mCurrBlock[w] # Nil,
             NEW n \in Nat, GiveWork(w, n)
      PROVE  WorkInv'
  BY <1>1, <1>3, HandsOutGood DEF WorkInv
<1>4. ASSUME NEW w \in Worker, GetWork(w) PROVE WorkInv'
  <2>1. mExtraNonce[w] + 1 \in Nat
    <3>1. mExtraNonce \in [Worker -> Nat]
      BY DEF Shape, TypeOK
    <3>. QED  BY <3>1
  <2>. QED  BY <1>2, <1>3, <1>4, <2>1 DEF GetWork
<1>5. ASSUME NEW w \in Worker, GetWorkAfterWrite(w) PROVE WorkInv'
  <2>1. pc[w] = "write" /\ mCurrBlock[w] # Nil
    BY <1>5 DEF GetWorkAfterWrite, Shape, RoundInv
  <2>. QED  BY <1>3, <1>5, <2>1 DEF GetWorkAfterWrite
<1>6. ASSUME NEW w \in Worker, Request(w) PROVE WorkInv'
  <2>1. CASE ShareAfterWrite(w)
    BY <1>2, <2>1 DEF ShareAfterWrite
  <2>2. CASE \E i \in DOMAIN works, sol \in Solution :
                HandleShare(w, i, sol) \/ StaleShare(w, i, sol)
    BY <1>2, <2>2 DEF HandleShare, StaleShare, outputs
  <2>. QED  BY <1>4, <1>5, <1>6, <2>1, <2>2 DEF Request
<1>7. ASSUME NEW w \in Worker, Input(w) PROVE UNCHANGED works
  BY <1>7 DEF Input, ReceiveNewBlock, ReadBest, MakeTemplate, TemplateFails,
              ReceiveShutdown, outputs
<1>8. NewBest \/ StopServer => UNCHANGED works
  BY DEF NewBest, StopServer, outputs
<1>. QED  BY <1>2, <1>6, <1>7, <1>8 DEF Next

LEMMA JobStep ==
    ASSUME Shape, Shape', WorkInv, JobInv, Next
    PROVE  JobInv'
<1>1. \A k : GoodWork(k) => k.block \in 1..best' /\ k.height = chain'[k.block]
  BY ChainGrows, GoodLater DEF GoodWork
<1>2. /\ pc \in [Worker -> PCs] /\ job \in [Worker -> JobType]
      /\ mCurrBlock \in [Worker -> Nat]
  BY DEF Shape, TypeOK, PCs
<1>. DEFINE Goal(v) == /\ job'[v].work.block \in 1..best'
                       /\ job'[v].work.height = chain'[job'[v].work.block]
                       /\ job'[v].work.height = chain'[mCurrBlock'[v]]
<1>. SUFFICES ASSUME NEW v \in Worker, pc'[v] = "write", job'[v].share
              PROVE  Goal(v)
  BY DEF JobInv, GoodWork, CurrHeight
<1>3. mCurrBlock[v] # Nil => chain'[mCurrBlock[v]] = CurrHeight(v)
  <2>1. mCurrBlock[v] \in 0..best
    BY DEF Shape, TypeOK
  <2>. QED  BY <2>1, ChainGrows, BestType DEF Nil, CurrHeight, Shape
<1>4. ASSUME pc[v] = "write", job'[v] = job[v], mCurrBlock'[v] = mCurrBlock[v]
      PROVE  Goal(v)
  <2>1. GoodWork(job[v].work) /\ job[v].work.height = CurrHeight(v) /\ mCurrBlock[v] # Nil
    BY <1>4 DEF JobInv, Shape, RoundInv
  <2>. DEFINE k == job[v].work
  <2>2. /\ k.block \in 1..best' /\ k.height = chain'[k.block]
        /\ k.height = chain'[mCurrBlock[v]]
    BY <1>1, <1>3, <2>1
  <2>. QED  BY <1>4, <2>2
<1>5. CASE UNCHANGED <<pc, job, mCurrBlock>>
  BY <1>4, <1>5
<1>6. NewBest \/ StopServer => UNCHANGED <<pc, job, mCurrBlock>>
  BY DEF NewBest, StopServer, round
<1>7. ASSUME NEW w \in Worker, Input(w) PROVE Goal(v)
  <2>1. /\ UNCHANGED job
        /\ \E p \in PCs \ {"write"} : pc' = [pc EXCEPT ![w] = p]
        /\ UNCHANGED mCurrBlock \/ \E b \in Nat : mCurrBlock' = [mCurrBlock EXCEPT ![w] = b]
    <3>1. CASE ReceiveNewBlock(w)
      <4>1. /\ Receive(w) /\ UNCHANGED job /\ pc' = [pc EXCEPT ![w] = "peers"]
            /\ mCurrBlock' = [mCurrBlock EXCEPT ![w] = Head(input[w])]
        BY <3>1 DEF ReceiveNewBlock
      <4>2. Head(input[w]) \in Nat /\ "peers" \in PCs \ {"write"}
        <5>1. Head(input[w]) \in 0..best /\ best \in Nat
          BY <4>1, Received, BestType DEF Shape
        <5>. QED  BY <5>1 DEF PCs
      <4>. QED  BY <4>1, <4>2, Zenon
    <3>2. CASE ReadBest(w) \/ MakeTemplate(w) \/ TemplateFails(w) \/ ReceiveShutdown(w)
      BY <3>2 DEF ReadBest, MakeTemplate, TemplateFails, ReceiveShutdown, round, PCs
    <3>. QED  BY <1>7, <3>1, <3>2 DEF Input
  <2>2. v # w
    BY <1>2, <2>1
  <2>3. pc'[v] = pc[v] /\ job'[v] = job[v] /\ mCurrBlock'[v] = mCurrBlock[v]
    BY <1>2, <2>1, <2>2
  <2>. QED  BY <1>4, <2>3
<1>8. ASSUME NEW w \in Worker, Request(w) PROVE Goal(v)
  <2>1. UNCHANGED mCurrBlock
    BY <1>8, RequestEffect
  <2>2. CASE v # w
    <3>1. pc'[v] = pc[v] /\ job'[v] = job[v]
      BY <1>2, <1>8, <2>2 DEF Request, GetWork, GetWorkAfterWrite, ShareAfterWrite,
                              HandleShare, StaleShare
    <3>. QED  BY <1>4, <2>1, <3>1
  <2>3. CASE v = w
    <3>1. CASE GetWork(w)
      <4>1. pc[v] = "loop" /\ (UNCHANGED pc \/ job' = [job EXCEPT ![v] = NoJob])
        BY <2>3, <3>1 DEF GetWork
      <4>. QED  BY <1>2, <4>1 DEF NoJob
    <3>2. CASE GetWorkAfterWrite(w) \/ ShareAfterWrite(w)
      <4>1. pc' = [pc EXCEPT ![v] = "loop"]
        BY <2>3, <3>2 DEF GetWorkAfterWrite, ShareAfterWrite
      <4>. QED  BY <1>2, <4>1
    <3>3. ASSUME NEW i \in DOMAIN works, NEW sol \in Solution, HandleShare(w, i, sol)
          PROVE  Goal(v)
      <4>1. /\ pc[v] = "loop" /\ Current(v, works[i], sol)
            /\ \/ UNCHANGED pc
               \/ job' = [job EXCEPT ![v] = [share |-> TRUE, work |-> works[i], sol |-> sol]]
        BY <2>3, <3>3 DEF HandleShare
      <4>2. job'[v].work = works[i]
        BY <1>2, <4>1
      <4>3. GoodWork(works[i]) /\ works[i].height = CurrHeight(v) /\ mCurrBlock[v] # Nil
        BY <4>1 DEF WorkInv, Current
      <4>. QED  BY <1>1, <1>3, <2>1, <4>2, <4>3
    <3>4. ASSUME NEW i \in DOMAIN works, NEW sol \in Solution, StaleShare(w, i, sol)
          PROVE  FALSE
      BY <2>3, <3>4 DEF StaleShare
    <3>. QED  BY <1>8, <3>1, <3>2, <3>3, <3>4 DEF Request
  <2>. QED  BY <2>2, <2>3
<1>. QED  BY <1>5, <1>6, <1>7, <1>8 DEF Next

-----------------------------------------------------------------------------
(* A worker whose loop runs has caught up with the best block, or the last   *)
(* signal that waits for it tells it of that block or to stop.  Nothing need *)
(* be said of the signals before the last: they may be of older blocks.      *)
CaughtUp(w) ==
    /\ mCurrBlock[w] = best
    /\ pc[w] # "peers" => mIndexPrev[w] = best
    /\ pc[w] \in {"loop", "write"} => Prev(w) = best

FreshInv ==
    \A w \in Worker :
        pc[w] # "stopped"
            => \/ input[w] = <<>> /\ CaughtUp(w)
               \/ input[w] # <<>> /\ input[w][Len(input[w])] \in {best, SHUTDOWN}

LEMMA FreshInit == Init => FreshInv
<1>. SUFFICES ASSUME Init, NEW w \in Worker
              PROVE  input[w] # <<>> /\ input[w][Len(input[w])] = best
  BY DEF FreshInv
<1>1. PICK first \in {<<1>>, <<1, 1>>} : input = [v \in Worker |-> first]
  BY DEF Init
<1>2. first # <<>> /\ first[Len(first)] = 1
  <2>1. CASE first = <<1>>
    BY <2>1
  <2>2. CASE first = <<1, 1>>
    BY <2>2
  <2>. QED  BY <1>1, <2>1, <2>2
<1>. QED  BY <1>1, <1>2 DEF Init, best

LEMMA FreshPublished ==
    ASSUME Shape, NEW s \in Nat, Publish(s), s \in {best', SHUTDOWN}
    PROVE  FreshInv'
<1>. SUFFICES ASSUME NEW w \in Worker
              PROVE  input'[w] # <<>> /\ input'[w][Len(input'[w])] = s
  BY DEF FreshInv, SHUTDOWN
<1>1. /\ input'[w] \in Seq(Nat) /\ DOMAIN input'[w] = 1..(Len(input[w]) + 1)
      /\ input'[w][Len(input[w]) + 1] = s /\ Len(input[w]) \in Nat
  BY Published DEF Shape
<1>2. Len(input'[w]) = Len(input[w]) + 1
  BY <1>1
<1>. QED  BY <1>1, <1>2

LEMMA FreshStep ==
    ASSUME Shape, Shape', WorkInv, JobInv, FreshInv, [Next]_vars
    PROVE  FreshInv'
<1>0. best \in Nat \ {0} /\ pc \in [Worker -> PCs]
  BY BestType DEF Shape, TypeOK, PCs
<1>1. ASSUME NEW h \in Nat, SetBestChain(h) PROVE FreshInv'
  <2>1. Publish(best + 1) /\ best' = best + 1
    BY <1>1, BestMoves DEF Shape
  <2>. QED  BY <1>0, <2>1, FreshPublished
<1>2. CASE NewBest
  BY <1>1, <1>2, NewBestMoves
<1>3. CASE StopServer
  BY <1>3, FreshPublished DEF StopServer, SHUTDOWN
<1>4. ASSUME NEW w \in Worker, Input(w) PROVE FreshInv'
  <2>0. best' = best
    BY <1>4 DEF Input, ReceiveNewBlock, ReadBest, MakeTemplate, TemplateFails,
                ReceiveShutdown, shared, best
  <2>1. ASSUME NEW v \in Worker, v # w,
               input'[v] = input[v], pc'[v] = pc[v], mCurrBlock'[v] = mCurrBlock[v],
               mIndexPrev'[v] = mIndexPrev[v], Prev(v)' = Prev(v), pc'[v] # "stopped"
        PROVE  \/ input'[v] = <<>> /\ CaughtUp(v)'
               \/ input'[v] # <<>> /\ input'[v][Len(input'[v])] \in {best', SHUTDOWN}
    BY <2>0, <2>1 DEF FreshInv, CaughtUp
  <2>2. mBlockTemplate \in [Worker -> [prev : Nat, key : Nat]]
        /\ mCurrBlock \in [Worker -> Nat] /\ mIndexPrev \in [Worker -> Nat]
        /\ input \in [Worker -> Seq(Nat)]
    BY DEF Shape, TypeOK
  <2>3. \A v \in Worker \ {w} :
          /\ input'[v] = input[v] /\ pc'[v] = pc[v] /\ mCurrBlock'[v] = mCurrBlock[v]
          /\ mIndexPrev'[v] = mIndexPrev[v] /\ Prev(v)' = Prev(v)
    <3>1. CASE ReceiveNewBlock(w)
      BY <1>0, <2>2, <3>1 DEF ReceiveNewBlock, Receive, Prev
    <3>2. CASE ReadBest(w)
      BY <1>0, <2>2, <3>2 DEF ReadBest, shared, Prev
    <3>3. CASE MakeTemplate(w)
      BY <1>0, <2>2, <3>3 DEF MakeTemplate, Prev
    <3>4. CASE TemplateFails(w)
      BY <1>0, <2>2, <3>4 DEF TemplateFails, shared, round, Prev
    <3>5. CASE ReceiveShutdown(w)
      BY <1>0, <2>2, <3>5 DEF ReceiveShutdown, Receive, round, Prev
    <3>. QED  BY <1>4, <3>1, <3>2, <3>3, <3>4, <3>5 DEF Input
  <2>4. SUFFICES ASSUME pc'[w] # "stopped"
                 PROVE  \/ input'[w] = <<>> /\ CaughtUp(w)'
                        \/ input'[w] # <<>> /\ input'[w][Len(input'[w])] \in {best', SHUTDOWN}
    BY <2>1, <2>3 DEF FreshInv
  <2>5. CASE ReceiveNewBlock(w)
    <3>1. /\ Receive(w) /\ Head(input[w]) # SHUTDOWN
          /\ mCurrBlock'[w] = Head(input[w]) /\ pc'[w] = "peers"
      BY <1>0, <2>2, <2>5 DEF ReceiveNewBlock
    <3>2. /\ pc[w] = "loop" /\ Len(input[w]) \in Nat \ {0} /\ Head(input[w]) = input[w][1]
          /\ Len(input'[w]) = Len(input[w]) - 1 /\ input'[w] \in Seq(Nat)
          /\ \A i \in 1..(Len(input[w]) - 1) : input'[w][i] = input[w][i + 1]
      BY <3>1, Received
    <3>3. input[w][Len(input[w])] \in {best, SHUTDOWN}
      BY <2>2, <3>2 DEF FreshInv
    <3>4. CASE Len(input[w]) = 1
      <4>1. input'[w] = <<>> /\ mCurrBlock'[w] = best
        BY <3>1, <3>2, <3>3, <3>4
      <4>. QED  BY <2>0, <3>1, <4>1 DEF CaughtUp
    <3>5. CASE Len(input[w]) # 1
      <4>. DEFINE n == Len(input[w])
      <4>2. n \in Nat \ {0} /\ n # 1
        BY <3>2, <3>5
      <4>. HIDE DEF n
      <4>0. n - 1 \in 1..(n - 1) /\ n - 1 + 1 = n
        BY <4>2
      <4>1. input'[w] # <<>> /\ input'[w][n - 1] = input[w][n]
        <5>1. input'[w][n - 1] = input[w][n - 1 + 1]
          BY <3>2, <4>0 DEF n
        <5>2. Len(input'[w]) # 0
          BY <3>2, <4>2 DEF n
        <5>. QED  BY <4>0, <5>1, <5>2
      <4>. QED  BY <2>0, <3>2, <3>3, <4>1 DEF n
    <3>. QED  BY <3>4, <3>5
  <2>6. CASE ReadBest(w)
    <3>1. /\ pc[w] = "peers" /\ pc'[w] = "template" /\ mIndexPrev'[w] = best
          /\ input' = input /\ mCurrBlock' = mCurrBlock
      BY <1>0, <2>2, <2>6 DEF ReadBest, shared
    <3>. QED  BY <2>0, <3>1 DEF FreshInv, CaughtUp
  <2>7. CASE MakeTemplate(w)
    <3>1. /\ pc[w] = "template" /\ pc'[w] = "loop" /\ mIndexPrev' = mIndexPrev
          /\ input' = input /\ mCurrBlock' = mCurrBlock
          /\ mBlockTemplate'[w].prev = best
      BY <1>0, <2>2, <2>7 DEF MakeTemplate
    <3>. QED  BY <2>0, <3>1 DEF FreshInv, CaughtUp, Prev
  <2>8. CASE TemplateFails(w) \/ ReceiveShutdown(w)
    <3>1. pc'[w] = "stopped"
      BY <1>0, <2>8 DEF TemplateFails, ReceiveShutdown
    <3>. QED  BY <2>4, <3>1
  <2>. QED  BY <1>4, <2>5, <2>6, <2>7, <2>8 DEF Input
<1>5. ASSUME NEW w \in Worker, Request(w) PROVE FreshInv'
  <2>1. /\ UNCHANGED <<mCurrBlock, mIndexPrev, mBlockTemplate>>
        /\ \A v \in Worker : /\ pc'[v] \in {"loop", "write"} <=> pc[v] \in {"loop", "write"}
                             /\ pc[v] \notin {"loop", "write"} => pc'[v] = pc[v]
        /\ UNCHANGED <<chain, input, mReserveKey, data>> \/ SendsRow(w)
    BY <1>5, RequestEffect
  <2>2. CASE UNCHANGED <<chain, input>>
    <3>1. best' = best /\ \A v \in Worker : Prev(v)' = Prev(v) /\ input'[v] = input[v]
      BY <2>1, <2>2 DEF best, Prev
    <3>. SUFFICES ASSUME NEW v \in Worker, pc'[v] # "stopped"
                  PROVE  \/ input'[v] = <<>> /\ CaughtUp(v)'
                         \/ input'[v] # <<>> /\ input'[v][Len(input'[v])] \in {best', SHUTDOWN}
      BY DEF FreshInv
    <3>2. pc[v] # "stopped" /\ (pc[v] # "peers" <=> pc'[v] # "peers")
      BY <2>1
    <3>. QED  BY <2>1, <3>1, <3>2 DEF FreshInv, CaughtUp
  <2>3. CASE \E h \in Nat : SetBestChain(h)
    BY <1>1, <2>3
  <2>4. SendsRow(w) => UNCHANGED <<chain, input>> \/ \E h \in Nat : SetBestChain(h)
    <3>. SUFFICES ASSUME SendsRow(w)
                  PROVE  UNCHANGED <<chain, input>> \/ \E h \in Nat : SetBestChain(h)
      OBVIOUS
    <3>1. PICK m \in MerkleType : UNCHANGED <<chain, input>> \/ SetBestChain(m.height)
      BY DEF SendsRow
    <3>. QED  BY <3>1 DEF MerkleType
  <2>. QED  BY <2>1, <2>2, <2>3, <2>4
<1>6. CASE UNCHANGED vars
  BY <1>6 DEF vars, shared, round, FreshInv, CaughtUp, best, Prev
<1>. QED  BY <1>2, <1>3, <1>4, <1>5, <1>6 DEF Next

-----------------------------------------------------------------------------
(* Keys.  A key is held by one worker at most; a template that may still be  *)
(* accepted is paid to the key its worker holds.  One whose coinbase has the *)
(* wrong height is not accepted, and gives its key up all the same.          *)
KeyInv ==
    /\ \A w \in Worker : mReserveKey[w] < nextKey
    /\ \A v, w \in Worker :
         v # w /\ mReserveKey[v] # 0 => mReserveKey[v] # mReserveKey[w]
    /\ \A w \in Worker :
         pc[w] \in {"loop", "write"} /\ Prev(w) = best
           => \/ mReserveKey[w] # 0 /\ mBlockTemplate[w].key = mReserveKey[w]
              \/ chain[mIndexPrev[w]] # chain[best]

(* The chain moves on: no template stands on the best block any more.        *)
LEMMA KeyMoves ==
    ASSUME Shape, KeyInv, best' = best + 1,
           UNCHANGED <<nextKey, mBlockTemplate>>,
           \A v \in Worker : mReserveKey'[v] = mReserveKey[v] \/ mReserveKey'[v] = 0
    PROVE  KeyInv'
<1>1. best \in Nat /\ \A w \in Worker : Prev(w) \in 0..best /\ Prev(w)' = Prev(w)
  BY BestType DEF Shape, TypeOK, Prev
<1>2. nextKey \in Nat \ {0} /\ mReserveKey \in [Worker -> Nat]
  BY DEF Shape, TypeOK
<1>. QED  BY <1>1, <1>2 DEF KeyInv

(* The chain stays, and a request does at most give up a key whose template  *)
(* cannot be accepted.                                                       *)
LEMMA KeyStays ==
    ASSUME Shape, KeyInv, UNCHANGED <<chain, nextKey, mBlockTemplate, mIndexPrev>>,
           \A v \in Worker : pc'[v] \in {"loop", "write"} <=> pc[v] \in {"loop", "write"},
           \A v \in Worker :
              \/ mReserveKey'[v] = mReserveKey[v]
              \/ mReserveKey'[v] = 0 /\ chain[mIndexPrev[v]] # chain[best]
    PROVE  KeyInv'
<1>1. best' = best /\ \A w \in Worker : Prev(w)' = Prev(w)
  BY DEF best, Prev
<1>2. nextKey \in Nat \ {0} /\ mReserveKey \in [Worker -> Nat]
  BY DEF Shape, TypeOK
<1>. QED  BY <1>1, <1>2 DEF KeyInv

LEMMA KeyInput ==
    ASSUME Shape, KeyInv, NEW w \in Worker, Input(w)
    PROVE  KeyInv'
<1>0. pc \in [Worker -> PCs] /\ best' = best /\ chain' = chain
  BY DEF Input, ReceiveNewBlock, ReadBest, MakeTemplate, TemplateFails,
         ReceiveShutdown, shared, best, Shape, TypeOK, PCs
<1>1. /\ nextKey \in Nat \ {0} /\ mReserveKey \in [Worker -> Nat]
      /\ mIndexPrev \in [Worker -> Nat]
      /\ mBlockTemplate \in [Worker -> [prev : Nat, key : Nat]]
  BY DEF Shape, TypeOK
<1>2. CASE MakeTemplate(w)
  <2>. DEFINE key == IF mReserveKey[w] = 0 THEN nextKey ELSE mReserveKey[w]
  <2>1. /\ pc' = [pc EXCEPT ![w] = "loop"] /\ mIndexPrev' = mIndexPrev
        /\ mReserveKey' = [mReserveKey EXCEPT ![w] = key]
        /\ nextKey' = IF mReserveKey[w] = 0 THEN nextKey + 1 ELSE nextKey
        /\ mBlockTemplate' = [mBlockTemplate EXCEPT ![w] = [prev |-> best, key |-> key]]
    BY <1>2 DEF MakeTemplate
  <2>2. key \in Nat \ {0} /\ key < nextKey' /\ nextKey' >= nextKey
        /\ \A v \in Worker \ {w} : mReserveKey[v] # key
    BY <1>1, <2>1 DEF KeyInv
  <2>. HIDE DEF key
  <2>3. /\ mReserveKey'[w] = key /\ mBlockTemplate'[w].key = key
        /\ \A v \in Worker \ {w} :
             /\ mReserveKey'[v] = mReserveKey[v] /\ mBlockTemplate'[v] = mBlockTemplate[v]
             /\ pc'[v] = pc[v]
    BY <1>0, <1>1, <2>1
  <2>4. \A v \in Worker \ {w} : Prev(v)' = Prev(v)
    BY <2>3 DEF Prev
  <2>5. \A v \in Worker : mReserveKey'[v] < nextKey'
    BY <1>1, <2>1, <2>2, <2>3 DEF KeyInv
  <2>6. \A v, u \in Worker :
          v # u /\ mReserveKey'[v] # 0 => mReserveKey'[v] # mReserveKey'[u]
    BY <2>2, <2>3 DEF KeyInv
  <2>7. \A v \in Worker :
          pc'[v] \in {"loop", "write"} /\ Prev(v)' = best'
            => \/ mReserveKey'[v] # 0 /\ mBlockTemplate'[v].key = mReserveKey'[v]
               \/ chain'[mIndexPrev'[v]] # chain'[best']
    BY <1>0, <2>1, <2>2, <2>3, <2>4 DEF KeyInv
  <2>. QED  BY <2>5, <2>6, <2>7 DEF KeyInv
<1>3. ASSUME UNCHANGED <<nextKey, mReserveKey, mBlockTemplate>>,
             \A v \in Worker :
               pc'[v] \in {"loop", "write"}
                 => pc[v] \in {"loop", "write"} /\ mIndexPrev'[v] = mIndexPrev[v]
      PROVE  KeyInv'
  <2>1. \A v \in Worker : Prev(v)' = Prev(v)
    BY <1>3 DEF Prev
  <2>. QED  BY <1>0, <1>3, <2>1 DEF KeyInv
<1>4. CASE ReceiveNewBlock(w) \/ ReadBest(w) \/ TemplateFails(w) \/ ReceiveShutdown(w)
  <2>1. /\ UNCHANGED <<nextKey, mReserveKey, mBlockTemplate>>
        /\ \E p \in {"peers", "template", "stopped"} : pc' = [pc EXCEPT ![w] = p]
        /\ UNCHANGED mIndexPrev \/ mIndexPrev' = [mIndexPrev EXCEPT ![w] = best]
    BY <1>4 DEF ReceiveNewBlock, ReadBest, TemplateFails, ReceiveShutdown, shared, round
  <2>2. \A v \in Worker :
           pc'[v] \in {"loop", "write"}
             => pc[v] \in {"loop", "write"} /\ mIndexPrev'[v] = mIndexPrev[v]
    BY <1>0, <1>1, <2>1
  <2>. QED  BY <1>3, <2>1, <2>2
<1>. QED  BY <1>2, <1>4 DEF Input

(* What a request does to the keys.                                          *)
LEMMA SentKeys ==
    ASSUME Shape, NEW w \in Worker, SendsRow(w)
    PROVE  \/ /\ UNCHANGED <<chain, input>>
              /\ \A v \in Worker :
                   \/ mReserveKey'[v] = mReserveKey[v]
                   \/ mReserveKey'[v] = 0 /\ chain[mIndexPrev[v]] # chain[best]
           \/ /\ \E h \in Nat : SetBestChain(h)
              /\ \A v \in Worker : mReserveKey'[v] = mReserveKey[v] \/ mReserveKey'[v] = 0
<1>1. PICK m \in MerkleType, n \in Nat :
         /\ m = Merkle(w, n)
         /\ \/ /\ UNCHANGED <<chain, input>>
               /\ \/ UNCHANGED mReserveKey
                  \/ ~HeightRight(m) /\ KeepKey(w)
            \/ KeepKey(w) /\ SetBestChain(m.height)
  BY DEF SendsRow
<1>2. ~HeightRight(m) => chain[mIndexPrev[w]] # chain[best]
  BY <1>1 DEF Merkle, HeightRight
<1>3. m.height \in Nat
  BY DEF MerkleType
<1>. QED  BY <1>1, <1>2, <1>3, KeyGone

LEMMA KeyStep ==
    ASSUME Shape, WorkInv, JobInv, KeyInv, [Next]_vars
    PROVE  KeyInv'
<1>0. ASSUME NEW h \in Nat, SetBestChain(h) PROVE best' = best + 1
  BY <1>0, BestMoves DEF Shape
<1>1. CASE NewBest
  <2>1. UNCHANGED <<nextKey, mReserveKey, mBlockTemplate>>
    BY <1>1 DEF NewBest, round
  <2>. QED  BY <1>0, <1>1, <2>1, NewBestMoves, KeyMoves
<1>2. CASE StopServer
  <2>1. UNCHANGED <<chain, nextKey, mReserveKey, mBlockTemplate, mIndexPrev, pc>>
    BY <1>2 DEF StopServer, round
  <2>. QED  BY <2>1, KeyStays
<1>3. ASSUME NEW w \in Worker, Input(w) PROVE KeyInv'
  BY <1>3, KeyInput
<1>4. ASSUME NEW w \in Worker, Request(w) PROVE KeyInv'
  <2>1. /\ UNCHANGED <<nextKey, mCurrBlock, mIndexPrev, mBlockTemplate>>
        /\ \A v \in Worker : pc'[v] \in {"loop", "write"} <=> pc[v] \in {"loop", "write"}
        /\ UNCHANGED <<chain, input, mReserveKey, data>> \/ SendsRow(w)
    BY <1>4, RequestEffect
  <2>2. CASE UNCHANGED <<chain, input, mReserveKey, data>>
    BY <2>1, <2>2, KeyStays
  <2>3. CASE SendsRow(w)
    BY <1>0, <2>1, <2>3, SentKeys, KeyStays, KeyMoves
  <2>. QED  BY <2>1, <2>2, <2>3
<1>5. CASE UNCHANGED vars
  <2>1. UNCHANGED <<chain, nextKey, mReserveKey, mBlockTemplate, mIndexPrev, pc>>
    BY <1>5 DEF vars, shared, round
  <2>. QED  BY <2>1, KeyStays
<1>. QED  BY <1>1, <1>2, <1>3, <1>4, <1>5 DEF Next

-----------------------------------------------------------------------------
(* Rows of blocks.  Each stands on a block that was the best and is not any  *)
(* more, has that block's height, and is paid to a key nobody holds any more.*)
GoodRow(r) ==
    /\ r.prev \in 1..(best - 1) /\ r.height = chain[r.prev]
    /\ r.merkle.key \in Nat \ {0} /\ r.merkle.key < nextKey
    /\ \A w \in Worker : mReserveKey[w] # r.merkle.key

RowInv ==
    /\ \A v \in Worker : \A i \in DOMAIN data[v] :
         data[v][i].isblock => GoodRow(data[v][i])
    /\ \A v, u \in Worker : \A i \in DOMAIN data[v], j \in DOMAIN data[u] :
         /\ data[v][i].isblock /\ data[u][j].isblock
         /\ <<v, i>> # <<u, j>>
         => /\ data[v][i].prev # data[u][j].prev
            /\ data[v][i].merkle.key # data[u][j].merkle.key

(* Good rows stay good.                                                      *)
LEMMA GoodRowStays ==
    ASSUME Shape, best' \in Nat, best' >= best, nextKey' \in Nat, nextKey' >= nextKey,
           \A i \in 1..best : chain'[i] = chain[i],
           \A v \in Worker : \/ mReserveKey'[v] = mReserveKey[v]
                             \/ mReserveKey'[v] = 0 \/ mReserveKey'[v] = nextKey
    PROVE  \A r : GoodRow(r) =>
              /\ r.prev \in 1..(best' - 1) /\ r.height = chain'[r.prev]
              /\ r.merkle.key \in Nat \ {0} /\ r.merkle.key < nextKey'
              /\ \A w \in Worker : mReserveKey'[w] # r.merkle.key
<1>1. best \in Nat /\ nextKey \in Nat
  BY BestType DEF Shape, TypeOK
<1>. QED  BY <1>1 DEF GoodRow

LEMMA RowQuiet ==
    ASSUME Shape, RowInv, UNCHANGED data,
           best' \in Nat, best' >= best, nextKey' \in Nat, nextKey' >= nextKey,
           \A i \in 1..best : chain'[i] = chain[i],
           \A v \in Worker : \/ mReserveKey'[v] = mReserveKey[v]
                             \/ mReserveKey'[v] = 0 \/ mReserveKey'[v] = nextKey
    PROVE  RowInv'
<1>1. \A r : GoodRow(r) =>
              /\ r.prev \in 1..(best' - 1) /\ r.height = chain'[r.prev]
              /\ r.merkle.key \in Nat \ {0} /\ r.merkle.key < nextKey'
              /\ \A w \in Worker : mReserveKey'[w] # r.merkle.key
  BY GoodRowStays
<1>. QED  BY <1>1, SMTT(30) DEF RowInv, GoodRow

(* The row of an accepted block: its key is the one its worker held.         *)
LEMMA RowSent ==
    ASSUME Shape, KeyInv, RowInv, NEW w \in Worker, pc[w] \in {"loop", "write"},
           mCurrBlock[w] # Nil, SendsRow(w), UNCHANGED nextKey, best' \in Nat
    PROVE  RowInv'
<1>1. PICK m \in MerkleType, sol \in Solution, b \in BOOLEAN, n \in Nat :
         /\ m = Merkle(w, n)
         /\ Send(w, m, sol, b)
         /\ \/ /\ ~b /\ UNCHANGED <<chain, input>>
               /\ UNCHANGED mReserveKey \/ KeepKey(w)
            \/ /\ b /\ OnTip(w) /\ HeightRight(m)
               /\ KeepKey(w)
               /\ SetBestChain(m.height)
  BY DEF SendsRow
<1>2. /\ Prev(w) \in 1..best /\ CurrHeight(w) = chain[Prev(w)]
      /\ CurrHeight(w) \in Nat /\ Prev(w) \in Nat
  BY DEF SendsRow
<1>. DEFINE N == Len(data[w]) + 1
            r == [prev |-> Prev(w), merkle |-> m, sol |-> sol,
                  height |-> CurrHeight(w), isblock |-> b]
<1>3. /\ \A v \in Worker \ {w} : data'[v] = data[v]
      /\ N \in Nat \ {0} /\ DOMAIN data[w] = 1..(N - 1)
      /\ DOMAIN data'[w] = 1..N
      /\ \A i \in 1..(N - 1) : data'[w][i] = data[w][i]
      /\ data'[w][N] = r
  BY <1>1, <1>2, SentRow
<1>. HIDE DEF N, r
<1>4. best \in Nat /\ nextKey \in Nat
  BY BestType DEF Shape, TypeOK
<1>5. /\ best' >= best /\ \A i \in 1..best : chain'[i] = chain[i]
      /\ b => best' = best + 1
  <2>1. CASE UNCHANGED <<chain, input>> /\ ~b
    BY <1>4, <2>1 DEF best
  <2>2. CASE b /\ SetBestChain(m.height)
    <3>1. m.height \in Nat
      BY DEF MerkleType
    <3>. QED  BY <1>4, <2>2, <3>1, BestMoves DEF Shape
  <2>. QED  BY <1>1, <2>1, <2>2
<1>6. \A v \in Worker : mReserveKey'[v] = mReserveKey[v] \/ mReserveKey'[v] = 0
  BY <1>1, KeyGone
<1>7. \A q : GoodRow(q) =>
              /\ q.prev \in 1..(best' - 1) /\ q.height = chain'[q.prev]
              /\ q.merkle.key \in Nat \ {0} /\ q.merkle.key < nextKey'
              /\ \A v \in Worker : mReserveKey'[v] # q.merkle.key
  BY <1>4, <1>5, <1>6, GoodRowStays
<1>8. \A v \in Worker : \A i \in DOMAIN data'[v] :
        \/ i \in DOMAIN data[v] /\ data'[v][i] = data[v][i] /\ <<v, i>> # <<w, N>>
        \/ v = w /\ i = N /\ data'[v][i] = r
  <2>. SUFFICES ASSUME NEW v \in Worker, NEW i \in DOMAIN data'[v]
                PROVE  \/ i \in DOMAIN data[v] /\ data'[v][i] = data[v][i] /\ <<v, i>> # <<w, N>>
                       \/ v = w /\ i = N /\ data'[v][i] = r
    OBVIOUS
  <2>1. CASE v # w
    BY <1>3, <2>1
  <2>2. CASE v = w
    BY <1>3, <2>2
  <2>. QED  BY <2>1, <2>2
<1>9. r.isblock = b /\ r.prev = Prev(w) /\ r.merkle = m /\ r.height = CurrHeight(w)
  BY DEF r
<1>10. b => /\ r.prev = best /\ r.merkle.key = mReserveKey[w] /\ mReserveKey[w] # 0
            /\ mReserveKey'[w] = 0
  <2>. SUFFICES ASSUME b PROVE /\ r.prev = best /\ r.merkle.key = mReserveKey[w]
                               /\ mReserveKey[w] # 0 /\ mReserveKey'[w] = 0
    OBVIOUS
  <2>1. OnTip(w) /\ HeightRight(m) /\ KeepKey(w)
    BY <1>1
  <2>2. chain[mIndexPrev[w]] = chain[best]
    <3>1. chain[mIndexPrev[w]] \in Nat /\ chain[best] \in Nat
      <4>1. mIndexPrev[w] \in DOMAIN chain /\ best \in DOMAIN chain
        BY MerkleTyped, BestType DEF Shape
      <4>. QED  BY <4>1, SMTT(30) DEF Shape, TypeOK
    <3>2. m.height = chain[best] + 1
      BY <2>1 DEF HeightRight
    <3>3. m.height = chain[mIndexPrev[w]] + 1
      BY <1>1 DEF Merkle
    <3>. QED  BY <3>1, <3>2, <3>3
  <2>3. mReserveKey[w] # 0 /\ mBlockTemplate[w].key = mReserveKey[w]
    BY <2>1, <2>2 DEF KeyInv, OnTip
  <2>4. m.key = mBlockTemplate[w].key
    BY <1>1 DEF Merkle
  <2>. QED  BY <1>9, <2>1, <2>3, <2>4, KeyGone DEF OnTip
<1>11. mReserveKey \in [Worker -> Nat]
  BY DEF Shape, TypeOK
<1>12. b => /\ r.prev \in 1..(best' - 1) /\ r.height = chain'[r.prev]
            /\ r.merkle.key \in Nat \ {0} /\ r.merkle.key < nextKey'
            /\ \A v \in Worker : mReserveKey'[v] # r.merkle.key
  <2>. SUFFICES ASSUME b
                PROVE  /\ r.prev \in 1..(best' - 1) /\ r.height = chain'[r.prev]
                       /\ r.merkle.key \in Nat \ {0} /\ r.merkle.key < nextKey'
                       /\ \A v \in Worker : mReserveKey'[v] # r.merkle.key
    OBVIOUS
  <2>1. r.prev \in 1..(best' - 1) /\ r.height = chain'[r.prev]
    BY <1>2, <1>4, <1>5, <1>9, <1>10
  <2>2. r.merkle.key \in Nat \ {0} /\ r.merkle.key < nextKey'
    BY <1>10, <1>11 DEF KeyInv
  <2>3. \A v \in Worker \ {w} : mReserveKey'[v] # r.merkle.key
    BY <1>6, <1>10 DEF KeyInv
  <2>4. mReserveKey'[w] # r.merkle.key
    BY <1>10
  <2>. QED  BY <2>1, <2>2, <2>3, <2>4
<1>13. b => \A v \in Worker : \A i \in DOMAIN data[v] :
              data[v][i].isblock => /\ data[v][i].prev # r.prev
                                    /\ data[v][i].merkle.key # r.merkle.key
  BY <1>4, <1>10 DEF RowInv, GoodRow
<1>14. \A v \in Worker : \A i \in DOMAIN data'[v] :
         data'[v][i].isblock =>
              /\ data'[v][i].prev \in 1..(best' - 1)
              /\ data'[v][i].height = chain'[data'[v][i].prev]
              /\ data'[v][i].merkle.key \in Nat \ {0}
              /\ data'[v][i].merkle.key < nextKey'
              /\ \A u \in Worker : mReserveKey'[u] # data'[v][i].merkle.key
  <2>. SUFFICES ASSUME NEW v \in Worker, NEW i \in DOMAIN data'[v], data'[v][i].isblock
                PROVE  /\ data'[v][i].prev \in 1..(best' - 1)
                       /\ data'[v][i].height = chain'[data'[v][i].prev]
                       /\ data'[v][i].merkle.key \in Nat \ {0}
                       /\ data'[v][i].merkle.key < nextKey'
                       /\ \A u \in Worker : mReserveKey'[u] # data'[v][i].merkle.key
    OBVIOUS
  <2>1. CASE i \in DOMAIN data[v] /\ data'[v][i] = data[v][i]
    <3>1. GoodRow(data[v][i])
      BY <2>1 DEF RowInv
    <3>. QED  BY <1>7, <2>1, <3>1
  <2>2. CASE data'[v][i] = r
    BY <1>9, <1>12, <2>2
  <2>. QED  BY <1>8, <2>1, <2>2
<1>15. \A v, u \in Worker : \A i \in DOMAIN data'[v], j \in DOMAIN data'[u] :
         /\ data'[v][i].isblock /\ data'[u][j].isblock
         /\ <<v, i>> # <<u, j>>
         => /\ data'[v][i].prev # data'[u][j].prev
            /\ data'[v][i].merkle.key # data'[u][j].merkle.key
  <2>. SUFFICES ASSUME NEW v \in Worker, NEW u \in Worker,
                       NEW i \in DOMAIN data'[v], NEW j \in DOMAIN data'[u],
                       data'[v][i].isblock, data'[u][j].isblock, <<v, i>> # <<u, j>>
                PROVE  /\ data'[v][i].prev # data'[u][j].prev
                       /\ data'[v][i].merkle.key # data'[u][j].merkle.key
    OBVIOUS
  <2>1. CASE i \in DOMAIN data[v] /\ data'[v][i] = data[v][i]
             /\ j \in DOMAIN data[u] /\ data'[u][j] = data[u][j]
    BY <2>1 DEF RowInv
  <2>2. CASE i \in DOMAIN data[v] /\ data'[v][i] = data[v][i] /\ data'[u][j] = r
    BY <1>9, <1>13, <2>2
  <2>3. CASE data'[v][i] = r /\ j \in DOMAIN data[u] /\ data'[u][j] = data[u][j]
    BY <1>9, <1>13, <2>3
  <2>4. CASE v = w /\ i = N /\ u = w /\ j = N
    BY <2>4
  <2>. QED  BY <1>8, <2>1, <2>2, <2>3, <2>4
<1>16. (\A v \in Worker : \A i \in DOMAIN data[v] :
            data[v][i].isblock => GoodRow(data[v][i]))'
  BY <1>14, Zenon DEF GoodRow
<1>. QED  BY <1>15, <1>16, Zenon DEF RowInv

LEMMA RowStep ==
    ASSUME Shape, Shape', WorkInv, JobInv, KeyInv, RowInv, [Next]_vars
    PROVE  RowInv'
<1>0. nextKey \in Nat /\ nextKey' \in Nat /\ best' \in Nat
  <2>1. chain' \in Seq(Nat) /\ nextKey' \in Nat \ {0} /\ nextKey \in Nat \ {0}
    BY DEF Shape, TypeOK
  <2>. QED  BY <2>1 DEF best
<1>1. CASE NewBest \/ StopServer
  <2>1. UNCHANGED <<nextKey, mReserveKey, data>>
    BY <1>1 DEF NewBest, StopServer, outputs
  <2>2. best' >= best /\ \A i \in 1..best : chain'[i] = chain[i]
    BY <1>1, ChainGrows DEF Next
  <2>. QED  BY <1>0, <2>1, <2>2, RowQuiet
<1>2. ASSUME NEW w \in Worker, Input(w) PROVE RowInv'
  <2>1. best' >= best /\ \A i \in 1..best : chain'[i] = chain[i]
    BY <1>2, ChainGrows DEF Next
  <2>2. CASE MakeTemplate(w)
    <3>1. /\ mReserveKey' = [mReserveKey EXCEPT ![w] =
                               IF mReserveKey[w] = 0 THEN nextKey ELSE mReserveKey[w]]
          /\ nextKey' = IF mReserveKey[w] = 0 THEN nextKey + 1 ELSE nextKey
          /\ UNCHANGED data
      BY <2>2 DEF MakeTemplate, outputs
    <3>2. mReserveKey \in [Worker -> Nat]
      BY DEF Shape, TypeOK
    <3>3. \A v \in Worker : mReserveKey'[v] = mReserveKey[v] \/ mReserveKey'[v] = nextKey
      BY <3>1, <3>2
    <3>. QED  BY <1>0, <2>1, <3>1, <3>3, RowQuiet
  <2>3. CASE ReceiveNewBlock(w) \/ ReadBest(w) \/ TemplateFails(w) \/ ReceiveShutdown(w)
    <3>1. UNCHANGED <<nextKey, mReserveKey, data>>
      BY <2>3 DEF ReceiveNewBlock, ReadBest, TemplateFails, ReceiveShutdown, shared, outputs
    <3>. QED  BY <1>0, <2>1, <3>1, RowQuiet
  <2>. QED  BY <1>2, <2>2, <2>3 DEF Input
<1>3. ASSUME NEW w \in Worker, Request(w) PROVE RowInv'
  <2>1. /\ UNCHANGED nextKey /\ pc[w] \in {"loop", "write"} /\ mCurrBlock[w] # Nil
        /\ UNCHANGED <<chain, input, mReserveKey, data>> \/ SendsRow(w)
    BY <1>3, RequestEffect
  <2>2. CASE UNCHANGED <<chain, input, mReserveKey, data>>
    <3>1. best' = best /\ best \in Nat
      BY <2>2, BestType DEF best, Shape
    <3>. QED  BY <1>0, <2>1, <2>2, <3>1, RowQuiet
  <2>3. CASE SendsRow(w)
    BY <1>0, <2>1, <2>3, RowSent
  <2>. QED  BY <2>1, <2>2, <2>3
<1>4. CASE UNCHANGED vars
  <2>1. UNCHANGED <<chain, nextKey, mReserveKey, data>> /\ best' = best /\ best \in Nat
    BY <1>4, BestType DEF vars, shared, outputs, best, Shape
  <2>. QED  BY <1>0, <2>1, RowQuiet
<1>. QED  BY <1>1, <1>2, <1>3, <1>4 DEF Next

-----------------------------------------------------------------------------
(* The inductive invariant, and what follows for any number of workers.      *)
Inv == Shape /\ WorkInv /\ JobInv /\ FreshInv /\ KeyInv /\ RowInv

LEMMA InvInit == Init => Inv
<1>. SUFFICES ASSUME Init PROVE Inv
  OBVIOUS
<1>1. Shape /\ FreshInv
  BY InitShape, FreshInit
<1>2. WorkInv /\ JobInv
  BY DEF Init, WorkInv, JobInv
<1>3. KeyInv
  BY DEF Init, KeyInv, Prev, Nil, best
<1>4. RowInv
  BY DEF Init, RowInv
<1>. QED  BY <1>1, <1>2, <1>3, <1>4 DEF Inv

LEMMA InvStep == Inv /\ [Next]_vars => Inv'
<1>. SUFFICES ASSUME Inv, [Next]_vars PROVE Inv'
  OBVIOUS
<1>1. Shape'
  BY ShapeStep DEF Inv
<1>2. WorkInv' /\ JobInv'
  <2>1. CASE Next
    BY <1>1, <2>1, WorkStep, JobStep DEF Inv
  <2>2. CASE UNCHANGED vars
    BY <2>2 DEF Inv, vars, shared, round, outputs, WorkInv, JobInv, GoodWork, CurrHeight, best
  <2>. QED  BY <2>1, <2>2
<1>3. FreshInv'
  BY <1>1, FreshStep DEF Inv
<1>4. KeyInv' /\ RowInv'
  BY <1>1, KeyStep, RowStep DEF Inv
<1>. QED  BY <1>1, <1>2, <1>3, <1>4 DEF Inv

LEMMA InvAlways == Spec => []Inv
BY InvInit, InvStep, PTL DEF Spec

(* A worker with no signal left to receive, outside HandleInput, announces,  *)
(* counts from and builds on the best block, whatever other workers, the     *)
(* network and the server did meanwhile.                                     *)
THEOREM IdleWorkersFresh == Spec => []FreshWhenIdle
<1>1. Inv => FreshWhenIdle
  BY DEF Inv, FreshInv, FreshWhenIdle, CaughtUp
<1>. QED  BY <1>1, InvAlways, PTL

LEMMA BlockIsRow ==
    ASSUME NEW r \in Blocks
    PROVE  \E v \in Worker : \E i \in DOMAIN data[v] : r = <<v, i>> /\ data[v][i].isblock
BY DEF Blocks, Recorded, Row

LEMMA BlocksApart ==
    ASSUME Inv, NEW r \in Blocks, NEW q \in Blocks, r # q
    PROVE  Row(r).prev # Row(q).prev /\ Row(r).merkle.key # Row(q).merkle.key
<1>1. PICK v \in Worker : \E i \in DOMAIN data[v] : r = <<v, i>> /\ data[v][i].isblock
  BY BlockIsRow
<1>2. PICK i \in DOMAIN data[v] : r = <<v, i>> /\ data[v][i].isblock
  BY <1>1
<1>3. PICK u \in Worker : \E j \in DOMAIN data[u] : q = <<u, j>> /\ data[u][j].isblock
  BY BlockIsRow
<1>4. PICK j \in DOMAIN data[u] : q = <<u, j>> /\ data[u][j].isblock
  BY <1>3
<1>. QED  BY <1>2, <1>4 DEF Inv, RowInv, Row

(* At most one block is recorded for each best block.                        *)
THEOREM OneBlockEach == Spec => []OneBlockPerTip
<1>1. Inv => OneBlockPerTip
  BY BlocksApart DEF OneBlockPerTip
<1>. QED  BY <1>1, InvAlways, PTL

(* Every recorded block is paid to a key of its own.                         *)
THEOREM KeysApart == Spec => []KeyPerBlock
<1>1. Inv => KeyPerBlock
  BY BlocksApart DEF KeyPerBlock
<1>. QED  BY <1>1, InvAlways, PTL

(* The height recorded with a block is that of the block it stands on.       *)
THEOREM HeightsRecorded == Spec => []BlockHeightRecorded
<1>1. ASSUME Inv, NEW r \in Blocks PROVE Row(r).height = chain[Row(r).prev]
  <2>1. \E v \in Worker : \E i \in DOMAIN data[v] : r = <<v, i>> /\ data[v][i].isblock
    BY BlockIsRow
  <2>. QED  BY <1>1, <2>1 DEF Inv, RowInv, GoodRow, Row
<1>2. Inv => BlockHeightRecorded
  BY <1>1 DEF BlockHeightRecorded
<1>. QED  BY <1>2, InvAlways, PTL

-----------------------------------------------------------------------------
(* One worker.  The static is its own, and what it handed out can be told    *)
(* from it.                                                                  *)
Alone == \A v, w \in Worker : v = w

(* A root that is known was handed out for the template of now, and the      *)
(* static holds that template's parent.                                      *)
RootInv(w) ==
    /\ pc[w] = "template" => \A m : ~Known(w, m)
    /\ pc[w] \in {"loop", "write"} =>
         \A m : Known(w, m) =>
            /\ mCurrBlock[w] # Nil /\ hashPrevBlock = Prev(w)
            /\ m = Merkle(w, mNonceMap[w][m])
            /\ \E j \in DOMAIN works : works[j].prev = Prev(w) /\ works[j].merkle = m

(* The static follows the templates, and the extra nonces of its block have  *)
(* not passed the worker's.  No share ever waits for the static.             *)
StaticInv(w) ==
    /\ hashPrevBlock \in Nat /\ hashPrevBlock <= Prev(w)
    /\ pc[w] = "write" => ~job[w].share /\ hashPrevBlock # Prev(w)
    /\ \A j \in DOMAIN works :
         /\ works[j].prev <= hashPrevBlock
         /\ works[j].prev = hashPrevBlock => works[j].merkle.extra <= mExtraNonce[w]

(* A row was sent for a work that was handed out; if its root is still known,*)
(* its hash still is.                                                        *)
SentInv(w) ==
    \A i \in DOMAIN data[w] :
        /\ \E j \in DOMAIN works : /\ works[j].prev = data[w][i].prev
                                   /\ works[j].merkle = data[w][i].merkle
        /\ /\ pc[w] \in {"loop", "write"} /\ data[w][i].prev = Prev(w)
           /\ Known(w, data[w][i].merkle)
           => [prev |-> data[w][i].prev, merkle |-> data[w][i].merkle,
               sol |-> data[w][i].sol] \in mShares[w]

OneInv ==
    /\ \A w \in Worker : RootInv(w) /\ StaticInv(w) /\ SentInv(w)
    /\ WorkUnique /\ NeverCreditedTwice /\ RefusedOnlyIfMoved

(* While the round, the maps and the outputs stay, it stays, whatever the    *)
(* chain does.                                                               *)
LEMMA OneQuiet ==
    ASSUME Shape, OneInv, NEW w \in Worker, Alone,
           best' >= best, \A i \in 1..best : chain'[i] = chain[i],
           UNCHANGED <<hashPrevBlock, job, mIndexPrev, mBlockTemplate, mExtraNonce,
                       mNonceMap, mShares, works, data, invalid>>,
           \/ pc'[w] = pc[w] /\ mCurrBlock'[w] = mCurrBlock[w]
           \/ pc'[w] \in {"peers", "stopped"}
    PROVE  OneInv'
<1>0. \A v \in Worker : v = w
  BY DEF Alone
<1>1. RootInv(w) /\ StaticInv(w) /\ SentInv(w)
  BY DEF OneInv
<1>2. /\ Prev(w)' = Prev(w) /\ \A m : Known(w, m)' <=> Known(w, m)
  BY DEF Prev, Known
<1>3. pc[w] \in {"loop", "write"} /\ mCurrBlock[w] # Nil
        => \A n : Merkle(w, n)' = Merkle(w, n)
  <2>. SUFFICES ASSUME pc[w] \in {"loop", "write"}, mCurrBlock[w] # Nil
                PROVE  \A n : Merkle(w, n)' = Merkle(w, n)
    OBVIOUS
  <2>1. mIndexPrev[w] \in 1..best
    BY MerkleTyped
  <2>2. chain'[mIndexPrev'[w]] = chain[mIndexPrev[w]]
    BY <2>1
  <2>. QED  BY <2>2 DEF Merkle
<1>4. RootInv(w)'
  <2>1. CASE pc'[w] \in {"peers", "stopped"}
    BY <2>1 DEF RootInv
  <2>2. CASE pc'[w] = "template" /\ pc[w] = "template"
    BY <1>1, <1>2, <2>2 DEF RootInv
  <2>3. CASE /\ pc'[w] # "template" /\ mCurrBlock'[w] = mCurrBlock[w]
             /\ pc'[w] \in {"loop", "write"} => pc[w] \in {"loop", "write"}
    BY <1>1, <1>2, <1>3, <2>3 DEF RootInv
  <2>. QED  BY <2>1, <2>2, <2>3
<1>5. StaticInv(w)'
  BY <1>1, <1>2 DEF StaticInv
<1>6. SentInv(w)'
  <2>1. pc'[w] \in {"loop", "write"} => pc[w] \in {"loop", "write"}
    OBVIOUS
  <2>. QED  BY <1>1, <1>2, <2>1 DEF SentInv
<1>7. WorkUnique' /\ NeverCreditedTwice' /\ RefusedOnlyIfMoved'
  BY DEF OneInv, WorkUnique, NeverCreditedTwice, RefusedOnlyIfMoved
<1>. QED  BY <1>0, <1>4, <1>5, <1>6, <1>7 DEF OneInv

(* A work is handed out: its extra nonce is above all those given out for    *)
(* the template's parent.                                                    *)
LEMMA OneHandsOut ==
    ASSUME Shape, OneInv, NEW w \in Worker, Alone,
           pc[w] \in {"loop", "write"}, mCurrBlock[w] # Nil,
           NEW n \in Nat \ {0}, GiveWork(w, n),
           \A j \in DOMAIN works :
              works[j].prev = Prev(w) => works[j].merkle.extra < n,
           pc[w] = "loop" => hashPrevBlock = Prev(w),
           hashPrevBlock' = Prev(w), pc'[w] = "loop",
           UNCHANGED <<chain, round, mShares, data, invalid>>
    PROVE  OneInv'
<1>0. \A v \in Worker : v = w
  BY DEF Alone
<1>1. RootInv(w) /\ StaticInv(w) /\ SentInv(w)
  BY DEF OneInv
<1>2. /\ mExtraNonce'[w] = n /\ Merkle(w, n) \in MerkleType
      /\ Remember(w, Merkle(w, n), n)
      /\ Len(works) \in Nat /\ DOMAIN works = 1..Len(works)
      /\ DOMAIN works' = 1..(Len(works) + 1)
      /\ \A i \in 1..Len(works) : works'[i] = works[i]
      /\ works'[Len(works) + 1] =
                [worker |-> w, block |-> mCurrBlock[w], height |-> CurrHeight(w),
                 merkle |-> Merkle(w, n), prev |-> Prev(w)]
  BY Handed
<1>. DEFINE N == Len(works) + 1
            M == Merkle(w, n)
<1>3. /\ works'[N].prev = Prev(w) /\ works'[N].merkle = M /\ M.extra = n
      /\ N \in DOMAIN works' /\ DOMAIN works' = DOMAIN works \cup {N} /\ N \notin DOMAIN works
      /\ \A j \in DOMAIN works : works'[j] = works[j]
  BY <1>2 DEF Merkle
<1>4. /\ DOMAIN mNonceMap'[w] = DOMAIN mNonceMap[w] \cup {M}
      /\ mNonceMap'[w][M] = n
      /\ \A x \in DOMAIN mNonceMap[w] \ {M} : mNonceMap'[w][x] = mNonceMap[w][x]
  BY <1>2, Remembered
<1>. HIDE DEF N, M
<1>5. /\ mCurrBlock' = mCurrBlock /\ Prev(w)' = Prev(w)
      /\ \A k : Merkle(w, k)' = Merkle(w, k)
  BY DEF round, Prev, Merkle
<1>6. Prev(w) \in Nat /\ hashPrevBlock \in Nat /\ hashPrevBlock <= Prev(w)
      /\ (pc[w] = "write" => hashPrevBlock < Prev(w))
  <2>1. Prev(w) \in Nat
    BY MerkleTyped, BestType DEF Shape
  <2>. QED  BY <1>1, <2>1 DEF StaticInv
<1>7. \A m : Known(w, m)' => m = M \/ Known(w, m)
  BY <1>4 DEF Known
<1>8. \A m : Known(w, m) => /\ hashPrevBlock = Prev(w) /\ m = Merkle(w, mNonceMap[w][m])
                            /\ \E j \in DOMAIN works : works[j].prev = Prev(w) /\ works[j].merkle = m
  BY <1>1 DEF RootInv
<1>9. RootInv(w)'
  <2>. SUFFICES ASSUME NEW m, Known(w, m)'
                PROVE  /\ m = Merkle(w, mNonceMap'[w][m])
                       /\ \E j \in DOMAIN works' : works'[j].prev = Prev(w) /\ works'[j].merkle = m
    BY <1>5 DEF RootInv
  <2>1. CASE m = M
    BY <1>3, <1>4, <2>1 DEF M
  <2>2. CASE m # M
    <3>1. Known(w, m) /\ m \in DOMAIN mNonceMap[w]
      BY <1>7, <2>2 DEF Known
    <3>2. mNonceMap'[w][m] = mNonceMap[w][m]
      BY <1>4, <2>2, <3>1
    <3>. QED  BY <1>3, <1>8, <3>1, <3>2
  <2>. QED  BY <2>1, <2>2
<1>10. works \in Seq(WorkType)
  BY DEF Shape, TypeOK
<1>11. \A j \in DOMAIN works : works[j].prev \in Nat /\ works[j].merkle.extra \in Nat
  <2>. SUFFICES ASSUME NEW j \in DOMAIN works
                PROVE  works[j].prev \in Nat /\ works[j].merkle.extra \in Nat
    OBVIOUS
  <2>1. works[j] \in WorkType
    BY <1>10
  <2>. QED  BY <2>1 DEF WorkType, MerkleType
<1>12. StaticInv(w)'
  <2>1. \A j \in DOMAIN works : works[j].prev <= hashPrevBlock
    BY <1>1 DEF StaticInv
  <2>2. \A j \in DOMAIN works' :
          /\ works'[j].prev <= Prev(w)
          /\ works'[j].prev = Prev(w) => works'[j].merkle.extra <= n
    BY <1>3, <1>6, <1>11, <2>1
  <2>. QED  BY <1>2, <1>5, <1>6, <2>2 DEF StaticInv
<1>13. SentInv(w)'
  <2>. SUFFICES ASSUME NEW i \in DOMAIN data[w]
                PROVE  /\ \E j \in DOMAIN works' : /\ works'[j].prev = data[w][i].prev
                                                   /\ works'[j].merkle = data[w][i].merkle
                       /\ data[w][i].prev = Prev(w) /\ Known(w, data[w][i].merkle)'
                          => [prev |-> data[w][i].prev, merkle |-> data[w][i].merkle,
                              sol |-> data[w][i].sol] \in mShares[w]
    BY <1>5 DEF SentInv, Known
  <2>1. PICK j \in DOMAIN works : /\ works[j].prev = data[w][i].prev
                                  /\ works[j].merkle = data[w][i].merkle
    BY <1>1 DEF SentInv
  <2>2. works'[j].prev = data[w][i].prev /\ works'[j].merkle = data[w][i].merkle
        /\ j \in DOMAIN works'
    BY <1>3, <2>1
  <2>3. data[w][i].prev = Prev(w) => data[w][i].merkle # M
    BY <1>3, <1>11, <2>1
  <2>4. data[w][i].prev = Prev(w) /\ Known(w, data[w][i].merkle)
          => [prev |-> data[w][i].prev, merkle |-> data[w][i].merkle,
              sol |-> data[w][i].sol] \in mShares[w]
    BY <1>1 DEF SentInv
  <2>. QED  BY <1>7, <2>2, <2>3, <2>4
<1>14. WorkUnique'
  <2>1. \A j \in DOMAIN works : works[j].prev # Prev(w) \/ works[j].merkle # M
    BY <1>3, <1>11
  <2>2. WorkUnique
    BY DEF OneInv
  <2>. QED  BY <1>3, <2>1, <2>2 DEF WorkUnique
<1>15. NeverCreditedTwice' /\ RefusedOnlyIfMoved'
  BY DEF OneInv, NeverCreditedTwice, RefusedOnlyIfMoved
<1>. QED  BY <1>0, <1>9, <1>12, <1>13, <1>14, <1>15 DEF OneInv

(* HandleInput of the only worker: its maps are cleared before the template  *)
(* changes.                                                                  *)
LEMMA OneInput ==
    ASSUME Shape, Shape', OneInv, NEW w \in Worker, Alone, Input(w)
    PROVE  OneInv'
<1>0. \A v \in Worker : v = w
  BY DEF Alone
<1>1. RootInv(w) /\ StaticInv(w) /\ SentInv(w)
  BY DEF OneInv
<1>2. /\ chain' = chain /\ best' = best /\ best \in Nat
      /\ UNCHANGED <<hashPrevBlock, job, works, data, invalid, mExtraNonce>>
  BY BestType DEF Input, ReceiveNewBlock, ReadBest, MakeTemplate, TemplateFails,
                  ReceiveShutdown, shared, outputs, best, Shape
<1>3. pc \in [Worker -> PCs]
  BY DEF Shape, TypeOK, PCs
<1>4. WorkUnique' /\ NeverCreditedTwice' /\ RefusedOnlyIfMoved'
  BY <1>2 DEF OneInv, WorkUnique, NeverCreditedTwice, RefusedOnlyIfMoved
<1>5. CASE ReceiveNewBlock(w)
  <2>1. /\ pc'[w] = "peers"
        /\ UNCHANGED <<mIndexPrev, mBlockTemplate, mNonceMap, mShares>>
    BY <1>3, <1>5 DEF ReceiveNewBlock
  <2>. QED  BY <1>2, <2>1, OneQuiet
<1>6. CASE TemplateFails(w) \/ ReceiveShutdown(w)
  <2>1. /\ pc'[w] = "stopped"
        /\ UNCHANGED <<mIndexPrev, mBlockTemplate, mNonceMap, mShares>>
    BY <1>3, <1>6 DEF TemplateFails, ReceiveShutdown, round
  <2>. QED  BY <1>2, <2>1, OneQuiet
<1>7. CASE ReadBest(w)
  <2>1. /\ pc'[w] = "template" /\ mNonceMap'[w] = <<>> /\ mBlockTemplate' = mBlockTemplate
    BY <1>3, <1>7 DEF ReadBest, Shape, MapInv
  <2>2. \A m : ~Known(w, m)'
    BY <2>1 DEF Known
  <2>3. Prev(w)' = Prev(w)
    BY <2>1 DEF Prev
  <2>4. RootInv(w)'
    BY <2>1, <2>2 DEF RootInv
  <2>5. StaticInv(w)'
    BY <1>1, <1>2, <2>1, <2>3 DEF StaticInv
  <2>6. SentInv(w)'
    BY <1>1, <1>2, <2>1 DEF SentInv
  <2>. QED  BY <1>0, <1>4, <2>4, <2>5, <2>6 DEF OneInv
<1>8. CASE MakeTemplate(w)
  <2>1. /\ pc[w] = "template" /\ pc'[w] = "loop" /\ mNonceMap' = mNonceMap
        /\ Prev(w)' = best
    BY <1>3, <1>8 DEF MakeTemplate, Prev, Shape, TypeOK
  <2>2. \A m : ~Known(w, m)'
    BY <1>1, <2>1 DEF RootInv, Known
  <2>3. RootInv(w)'
    BY <2>1, <2>2 DEF RootInv
  <2>4. hashPrevBlock \in Nat /\ hashPrevBlock <= best
    <3>1. Prev(w) \in 0..best
      BY DEF Shape, TypeOK
    <3>. QED  BY <1>1, <1>2, <3>1 DEF StaticInv
  <2>5. StaticInv(w)'
    BY <1>1, <1>2, <2>1, <2>4 DEF StaticInv
  <2>6. SentInv(w)'
    BY <1>1, <1>2, <2>1, <2>2 DEF SentInv
  <2>. QED  BY <1>0, <1>4, <2>3, <2>5, <2>6 DEF OneInv
<1>. QED  BY <1>5, <1>6, <1>7, <1>8 DEF Input

(* The static is to be written: it is not the template's parent, so that no  *)
(* root is known yet.                                                        *)
LEMMA OneWaits ==
    ASSUME Shape, OneInv, NEW w \in Worker, Alone, pc[w] = "loop", pc'[w] = "write",
           ~job'[w].share, hashPrevBlock # Prev(w),
           UNCHANGED <<chain, hashPrevBlock, round, mExtraNonce, mNonceMap, mShares,
                       works, data, invalid>>
    PROVE  OneInv'
<1>0. \A v \in Worker : v = w
  BY DEF Alone
<1>1. RootInv(w) /\ StaticInv(w) /\ SentInv(w)
  BY DEF OneInv
<1>2. /\ Prev(w)' = Prev(w) /\ \A m : Known(w, m)' <=> Known(w, m)
      /\ \A m : ~Known(w, m)
  BY <1>1 DEF round, Prev, Known, RootInv
<1>3. RootInv(w)' /\ StaticInv(w)' /\ SentInv(w)'
  BY <1>1, <1>2 DEF RootInv, StaticInv, SentInv
<1>4. WorkUnique' /\ NeverCreditedTwice' /\ RefusedOnlyIfMoved'
  BY DEF OneInv, WorkUnique, NeverCreditedTwice, RefusedOnlyIfMoved
<1>. QED  BY <1>0, <1>3, <1>4 DEF OneInv

LEMMA OneGetWork ==
    ASSUME Shape, OneInv, NEW w \in Worker, Alone, GetWork(w)
    PROVE  OneInv'
<1>1. Writing(w) = {} /\ Same(w) = {hashPrevBlock = Prev(w)}
  BY DEF Alone, Writing, Same
<1>2. StaticInv(w) /\ pc \in [Worker -> PCs] /\ job \in [Worker -> JobType]
      /\ mExtraNonce \in [Worker -> Nat]
  BY DEF OneInv, Shape, TypeOK, PCs
<1>3. /\ pc[w] = "loop" /\ mCurrBlock[w] # Nil
      /\ UNCHANGED <<chain, hashPrevBlock, round, mShares, data, invalid>>
  BY DEF GetWork, shared
<1>4. CASE /\ TRUE \in Same(w) /\ GiveWork(w, mExtraNonce[w] + 1) /\ UNCHANGED <<pc, job>>
  <2>1. hashPrevBlock = Prev(w)
    BY <1>1, <1>4
  <2>. DEFINE n == mExtraNonce[w] + 1
  <2>2. n \in Nat \ {0}
    BY <1>2
  <2>3. \A j \in DOMAIN works : works[j].prev = Prev(w) => works[j].merkle.extra < n
    <3>. SUFFICES ASSUME NEW j \in DOMAIN works, works[j].prev = Prev(w)
                  PROVE  works[j].merkle.extra < n
      OBVIOUS
    <3>1. works[j] \in WorkType
      BY DEF Shape, TypeOK
    <3>2. works[j].merkle.extra \in Nat /\ works[j].merkle.extra <= mExtraNonce[w]
      BY <1>2, <2>1, <3>1 DEF StaticInv, WorkType, MerkleType
    <3>. QED  BY <1>2, <3>2
  <2>4. GiveWork(w, n)
    BY <1>4
  <2>. HIDE DEF n
  <2>. QED  BY <1>3, <1>4, <2>1, <2>2, <2>3, <2>4, OneHandsOut
<1>5. CASE /\ FALSE \in Same(w)
           /\ pc' = [pc EXCEPT ![w] = "write"] /\ job' = [job EXCEPT ![w] = NoJob]
           /\ UNCHANGED <<mExtraNonce, mNonceMap, works>>
  <2>1. hashPrevBlock # Prev(w)
    BY <1>1, <1>5
  <2>2. pc'[w] = "write" /\ ~job'[w].share
    BY <1>2, <1>5 DEF NoJob
  <2>. QED  BY <1>3, <1>5, <2>1, <2>2, OneWaits
<1>. QED  BY <1>4, <1>5 DEF GetWork

LEMMA OneGetWorkAfterWrite ==
    ASSUME Shape, OneInv, NEW w \in Worker, Alone, GetWorkAfterWrite(w)
    PROVE  OneInv'
<1>1. Writing(w) = {}
  BY DEF Alone, Writing
<1>2. /\ pc[w] = "write" /\ GiveWork(w, 1) /\ pc'[w] = "loop"
      /\ hashPrevBlock' = Prev(w)
      /\ UNCHANGED <<chain, round, mShares, data, invalid>>
  BY <1>1 DEF GetWorkAfterWrite, WriteStatic, Shape, TypeOK
<1>3. mCurrBlock[w] # Nil
  BY <1>2 DEF Shape, RoundInv
<1>4. StaticInv(w)
  BY DEF OneInv
<1>5. \A j \in DOMAIN works : works[j].prev # Prev(w)
  <2>. SUFFICES ASSUME NEW j \in DOMAIN works PROVE works[j].prev # Prev(w)
    OBVIOUS
  <2>1. works[j] \in WorkType
    BY DEF Shape, TypeOK
  <2>2. works[j].prev \in Nat /\ Prev(w) \in Nat
    BY <1>2, <1>3, <2>1, MerkleTyped, BestType DEF WorkType, Shape
  <2>. QED  BY <1>2, <1>4, <2>2 DEF StaticInv
<1>. QED  BY <1>2, <1>3, <1>5, OneHandsOut

LEMMA WorkTyped == ASSUME Shape, NEW i \in DOMAIN works PROVE works[i] \in WorkType
BY DEF Shape, TypeOK

(* A share of the only worker.  Its root is the template's, so that it is    *)
(* refused only for its block.                                               *)
LEMMA OneShare ==
    ASSUME Shape, Shape', WorkInv, JobInv, OneInv, NEW w \in Worker, Alone,
           NEW i \in DOMAIN works, NEW sol \in Solution, HandleShare(w, i, sol),
           best' >= best, \A k \in 1..best : chain'[k] = chain[k]
    PROVE  OneInv'
<1>0. \A v \in Worker : v = w
  BY DEF Alone
<1>1. RootInv(w) /\ StaticInv(w) /\ SentInv(w)
  BY DEF OneInv
<1>. DEFINE m == works[i].merkle
            n == ShareNonce(w, m)
            h == [prev |-> Prev(w), merkle |-> m, sol |-> sol]
<1>2. /\ pc[w] = "loop" /\ Current(w, works[i], sol) /\ Known(w, m)
      /\ UNCHANGED <<hashPrevBlock, round, mExtraNonce, mNonceMap, works>>
  BY DEF HandleShare
<1>3. /\ mCurrBlock[w] # Nil /\ hashPrevBlock = Prev(w) /\ m = Merkle(w, n)
      /\ \E j \in DOMAIN works : works[j].prev = Prev(w) /\ works[j].merkle = m
  BY <1>1, <1>2 DEF RootInv, ShareNonce
<1>4. FALSE \notin Same(w)
  <2>1. Writing(w) = {}
    BY DEF Alone, Writing
  <2>. QED  BY <1>3, <2>1 DEF Same
<1>5. CheckShare(w, works[i], sol, n) /\ UNCHANGED <<pc, job>>
  BY <1>4 DEF HandleShare
<1>6. works[i] \in WorkType /\ m \in MerkleType /\ n \in Nat
  <2>1. works[i] \in WorkType
    BY WorkTyped
  <2>2. n \in Nat
    BY <1>2 DEF Shape, TypeOK, Known, ShareNonce
  <2>. QED  BY <2>1, <2>2 DEF WorkType
<1>. HIDE DEF m, n
<1>7. /\ Prev(w)' = Prev(w) /\ mCurrBlock' = mCurrBlock /\ mIndexPrev' = mIndexPrev
      /\ \A x : Known(w, x)' <=> Known(w, x)
  BY <1>2 DEF round, Prev, Known
<1>8. \A k : Merkle(w, k)' = Merkle(w, k)
  <2>1. mIndexPrev[w] \in 1..best
    BY <1>2, <1>3, MerkleTyped
  <2>2. chain'[mIndexPrev'[w]] = chain[mIndexPrev[w]]
    BY <1>7, <2>1
  <2>3. mBlockTemplate' = mBlockTemplate
    BY <1>2 DEF round
  <2>. QED  BY <2>2, <2>3 DEF Merkle
<1>9. RootInv(w)' /\ StaticInv(w)' /\ WorkUnique'
  <2>1. RootInv(w)'
    BY <1>1, <1>2, <1>5, <1>7, <1>8 DEF RootInv
  <2>2. StaticInv(w)'
    BY <1>1, <1>2, <1>5, <1>7 DEF StaticInv
  <2>3. WorkUnique'
    BY <1>2 DEF OneInv, WorkUnique
  <2>. QED  BY <2>1, <2>2, <2>3
<1>10. BlockHash(w, n, sol) = h
  BY <1>3 DEF BlockHash
<1>11. HashDiffers(w, works[i], n) <=> Prev(w) # works[i].block
  BY <1>3 DEF HashDiffers, m
<1>12. mShares[w] \subseteq mShares'[w]
       /\ (UNCHANGED data \/ (h \notin mShares[w] /\ h \in mShares'[w]
                              /\ \E b \in BOOLEAN : Send(w, m, sol, b)))
  <2>1. CASE RefuseShare(w, works[i], sol, n) \/ DuplicateShare(w, works[i], sol, n)
    BY <2>1 DEF RefuseShare, DuplicateShare
  <2>2. CASE CreditShare(w, works[i], sol, n)
    <3>1. /\ h \notin mShares[w] /\ mShares' = [mShares EXCEPT ![w] = mShares[w] \cup {h}]
          /\ UNCHANGED data \/ \E b \in BOOLEAN : Send(w, m, sol, b)
      BY <1>10, <2>2 DEF CreditShare, m, Accepted, OnTip, HeightRight
    <3>2. mShares'[w] = mShares[w] \cup {h}
      BY <3>1 DEF Shape, MapInv
    <3>. QED  BY <3>1, <3>2
  <2>. QED  BY <1>5, <2>1, <2>2 DEF CheckShare
<1>13. RefusedOnlyIfMoved'
  <2>1. \A s \in invalid' : s \in invalid \/ s.work.block # s.prev
    <3>1. CASE RefuseShare(w, works[i], sol, n)
      <4>. DEFINE s == [worker |-> w, work |-> works[i], prev |-> Prev(w)]
      <4>1. invalid' = invalid \cup {s} /\ Prev(w) # works[i].block
        BY <1>11, <3>1 DEF RefuseShare
      <4>2. s.work.block = works[i].block /\ s.prev = Prev(w)
        OBVIOUS
      <4>. HIDE DEF s
      <4>. QED  BY <4>1, <4>2
    <3>2. CASE DuplicateShare(w, works[i], sol, n) \/ CreditShare(w, works[i], sol, n)
      BY <3>2 DEF DuplicateShare, CreditShare
    <3>. QED  BY <1>5, <3>1, <3>2 DEF CheckShare
  <2>. QED  BY <2>1 DEF OneInv, RefusedOnlyIfMoved
<1>14. CASE UNCHANGED data
  <2>1. SentInv(w)'
    BY <1>1, <1>2, <1>5, <1>7, <1>12, <1>14 DEF SentInv
  <2>2. NeverCreditedTwice'
    BY <1>14 DEF OneInv, NeverCreditedTwice
  <2>. QED  BY <1>0, <1>9, <1>13, <2>1, <2>2 DEF OneInv
<1>15. CASE h \notin mShares[w] /\ h \in mShares'[w] /\ \E b \in BOOLEAN : Send(w, m, sol, b)
  <2>1. PICK b \in BOOLEAN : Send(w, m, sol, b)
    BY <1>15
  <2>2. Prev(w) \in Nat /\ CurrHeight(w) \in Nat
    BY <1>2, <1>3, MerkleTyped, BestType DEF Shape
  <2>. DEFINE N == Len(data[w]) + 1
              r == [prev |-> Prev(w), merkle |-> m, sol |-> sol,
                    height |-> CurrHeight(w), isblock |-> b]
  <2>3. /\ N \notin DOMAIN data[w] /\ DOMAIN data'[w] = DOMAIN data[w] \cup {N}
        /\ \A k \in DOMAIN data[w] : data'[w][k] = data[w][k]
        /\ data'[w][N] = r
    <3>1. /\ Len(data[w]) \in Nat /\ DOMAIN data[w] = 1..Len(data[w])
          /\ DOMAIN data'[w] = 1..N
          /\ \A k \in 1..Len(data[w]) : data'[w][k] = data[w][k]
          /\ data'[w][N] = r
      BY <1>6, <2>1, <2>2, SentRow
    <3>. HIDE DEF r
    <3>. QED  BY <3>1
  <2>. HIDE DEF N, r
  <2>4. r.prev = Prev(w) /\ r.merkle = m /\ r.sol = sol
    BY DEF r
  <2>5. \A k \in DOMAIN data[w] :
          data[w][k].prev # Prev(w) \/ data[w][k].merkle # m \/ data[w][k].sol # sol
    BY <1>1, <1>2, <1>15 DEF SentInv
  <2>6. NeverCreditedTwice'
    <3>1. \A j, k \in DOMAIN data[w] :
             j # k => \/ data[w][j].prev # data[w][k].prev
                      \/ data[w][j].merkle # data[w][k].merkle
                      \/ data[w][j].sol # data[w][k].sol
      BY DEF OneInv, NeverCreditedTwice
    <3>. QED  BY <1>0, <2>3, <2>4, <2>5, <3>1 DEF NeverCreditedTwice
  <2>7. SentInv(w)'
    <3>. SUFFICES ASSUME NEW k \in DOMAIN data'[w]
                  PROVE  /\ \E j \in DOMAIN works : /\ works[j].prev = data'[w][k].prev
                                                    /\ works[j].merkle = data'[w][k].merkle
                         /\ data'[w][k].prev = Prev(w) /\ Known(w, data'[w][k].merkle)
                            => [prev |-> data'[w][k].prev, merkle |-> data'[w][k].merkle,
                                sol |-> data'[w][k].sol] \in mShares'[w]
      BY <1>2, <1>7 DEF SentInv, Known
    <3>1. CASE k \in DOMAIN data[w]
      <4>1. data'[w][k] = data[w][k]
        BY <2>3, <3>1
      <4>. QED  BY <1>1, <1>2, <1>12, <3>1, <4>1 DEF SentInv
    <3>2. CASE k = N
      <4>1. data'[w][k] = r
        BY <2>3, <3>2
      <4>. QED  BY <1>3, <1>15, <2>4, <4>1
    <3>. QED  BY <2>3, <3>1, <3>2
  <2>. QED  BY <1>0, <1>9, <1>13, <2>6, <2>7 DEF OneInv
<1>. QED  BY <1>12, <1>14, <1>15

LEMMA OneStaleShare ==
    ASSUME Shape, OneInv, NEW w \in Worker, Alone,
           NEW i \in DOMAIN works, NEW sol \in Solution, StaleShare(w, i, sol)
    PROVE  OneInv'
<1>0. \A v \in Worker : v = w
  BY DEF Alone
<1>1. RootInv(w) /\ StaticInv(w) /\ SentInv(w)
  BY DEF OneInv
<1>. DEFINE m == works[i].merkle
<1>2. /\ ~Known(w, m) /\ Remember(w, m, 0)
      /\ UNCHANGED <<chain, hashPrevBlock, pc, job, mCurrBlock, mIndexPrev, mBlockTemplate,
                     mExtraNonce, mShares, works, data, invalid>>
  BY DEF StaleShare, shared, round, outputs
<1>3. m \in MerkleType
  <2>1. works[i] \in WorkType
    BY WorkTyped
  <2>. QED  BY <2>1 DEF WorkType
<1>4. /\ DOMAIN mNonceMap'[w] = DOMAIN mNonceMap[w] \cup {m}
      /\ mNonceMap'[w][m] = 0
      /\ \A x \in DOMAIN mNonceMap[w] \ {m} : mNonceMap'[w][x] = mNonceMap[w][x]
  BY <1>2, <1>3, Remembered
<1>. HIDE DEF m
<1>5. \A x : Known(w, x)' => Known(w, x) /\ mNonceMap'[w][x] = mNonceMap[w][x]
  BY <1>4 DEF Known
<1>6. Prev(w)' = Prev(w) /\ \A k : Merkle(w, k)' = Merkle(w, k)
  BY <1>2 DEF Prev, Merkle
<1>7. RootInv(w)'
  BY <1>1, <1>2, <1>5, <1>6 DEF RootInv
<1>8. StaticInv(w)' /\ SentInv(w)'
  BY <1>1, <1>2, <1>5, <1>6 DEF StaticInv, SentInv
<1>9. WorkUnique' /\ NeverCreditedTwice' /\ RefusedOnlyIfMoved'
  BY <1>2 DEF OneInv, WorkUnique, NeverCreditedTwice, RefusedOnlyIfMoved
<1>. QED  BY <1>0, <1>7, <1>8, <1>9 DEF OneInv

LEMMA OneInit == Init => OneInv
<1>. SUFFICES ASSUME Init PROVE OneInv
  OBVIOUS
<1>1. \A w \in Worker : /\ pc[w] = "loop" /\ DOMAIN mNonceMap[w] = {}
                        /\ Prev(w) = 0 /\ data[w] = <<>>
  BY DEF Init, Prev, Nil
<1>2. hashPrevBlock = 0 /\ works = <<>> /\ invalid = {}
  BY DEF Init, Nil
<1>3. \A w \in Worker : RootInv(w) /\ StaticInv(w) /\ SentInv(w)
  BY <1>1, <1>2 DEF RootInv, StaticInv, SentInv, Known
<1>4. WorkUnique /\ NeverCreditedTwice /\ RefusedOnlyIfMoved
  BY <1>1, <1>2 DEF WorkUnique, NeverCreditedTwice, RefusedOnlyIfMoved
<1>. QED  BY <1>3, <1>4 DEF OneInv

LEMMA OneStep ==
    ASSUME Inv, Inv', Alone, OneInv, [Next]_vars
    PROVE  OneInv'
<1>1. CASE Next
  <2>1. best' >= best /\ \A i \in 1..best : chain'[i] = chain[i]
    BY <1>1, ChainGrows DEF Inv
  <2>2. CASE NewBest \/ StopServer
    <3>1. PICK w \in Worker : TRUE
      BY WorkerAssumption
    <3>2. UNCHANGED <<hashPrevBlock, pc, job, mCurrBlock, mIndexPrev, mBlockTemplate,
                      mExtraNonce, mNonceMap, mShares, works, data, invalid>>
      BY <2>2 DEF NewBest, StopServer, round, outputs
    <3>. QED  BY <2>1, <3>1, <3>2, OneQuiet DEF Inv
  <2>3. ASSUME NEW w \in Worker, Input(w) PROVE OneInv'
    BY <2>3, OneInput DEF Inv
  <2>4. ASSUME NEW w \in Worker, Request(w) PROVE OneInv'
    <3>1. CASE GetWork(w)
      BY <3>1, OneGetWork DEF Inv
    <3>2. CASE GetWorkAfterWrite(w)
      BY <3>2, OneGetWorkAfterWrite DEF Inv
    <3>3. CASE ShareAfterWrite(w)
      BY <3>3 DEF ShareAfterWrite, OneInv, StaticInv
    <3>4. ASSUME NEW i \in DOMAIN works, NEW sol \in Solution,
                 HandleShare(w, i, sol) \/ StaleShare(w, i, sol)
          PROVE  OneInv'
      BY <2>1, <3>4, OneShare, OneStaleShare DEF Inv
    <3>. QED  BY <2>4, <3>1, <3>2, <3>3, <3>4 DEF Request
  <2>. QED  BY <1>1, <2>2, <2>3, <2>4 DEF Next
<1>2. CASE UNCHANGED vars
  <2>1. UNCHANGED <<chain, pc, job, mCurrBlock, mIndexPrev, mBlockTemplate, mExtraNonce,
                    mNonceMap, mShares, works, data, invalid, hashPrevBlock>>
    BY <1>2 DEF vars, shared, round, outputs
  <2>2. ASSUME NEW w \in Worker PROVE (RootInv(w) /\ StaticInv(w) /\ SentInv(w))'
    <3>1. RootInv(w)'
      BY <2>1 DEF OneInv, RootInv, Known, Prev, Merkle
    <3>2. StaticInv(w)'
      BY <2>1, Zenon DEF OneInv, StaticInv, Prev
    <3>3. SentInv(w)'
      BY <2>1, Zenon DEF OneInv, SentInv, Known, Prev
    <3>. QED  BY <3>1, <3>2, <3>3
  <2>. QED  BY <2>1, <2>2 DEF OneInv, WorkUnique, NeverCreditedTwice, RefusedOnlyIfMoved
<1>. QED  BY <1>1, <1>2

LEMMA OneAlways == Spec => [](Alone => OneInv)
<1>1. Init => (Alone => OneInv)
  BY OneInit
<1>2. Inv /\ Inv' /\ (Alone => OneInv) /\ [Next]_vars => (Alone => OneInv)'
  BY OneStep DEF Alone
<1>. QED  BY <1>1, <1>2, InvAlways, PTL DEF Spec

(* A pool with one worker gives no two clients the same work.                *)
THEOREM WorksUnique == Spec => [](Alone => WorkUnique)
<1>1. (Alone => OneInv) => (Alone => WorkUnique)
  BY DEF OneInv
<1>. QED  BY <1>1, OneAlways, PTL

(* A pool with one worker credits no block hash twice.                       *)
THEOREM NoneCreditedTwice == Spec => [](Alone => NeverCreditedTwice)
<1>1. (Alone => OneInv) => (Alone => NeverCreditedTwice)
  BY DEF OneInv
<1>. QED  BY <1>1, OneAlways, PTL

(* A pool with one worker refuses an honest share only for its block.        *)
THEOREM RefusedIfMoved == Spec => [](Alone => RefusedOnlyIfMoved)
<1>1. (Alone => OneInv) => (Alone => RefusedOnlyIfMoved)
  BY DEF OneInv
<1>. QED  BY <1>1, OneAlways, PTL
-----------------------------------------------------------------------------
(* Any number of workers.  The static is shared, and a share may be checked  *)
(* with another extra nonce than its own; but a root that is known, also the *)
(* one of a share that waits for the static, was handed out by this worker   *)
(* for the template of now, and a row was sent for such a root.              *)
GivenBy(w, p, m) ==
    \E j \in DOMAIN works :
        works[j].worker = w /\ works[j].prev = p /\ works[j].merkle = m

GivenInv(w) ==
    /\ pc[w] = "template" => \A m : ~Known(w, m)
    /\ pc[w] \in {"loop", "write"} =>
         \A m : Known(w, m) => GivenBy(w, Prev(w), m)
    /\ pc[w] = "write" /\ job[w].share => Known(w, job[w].work.merkle)
    /\ \A i \in DOMAIN data[w] : GivenBy(w, data[w][i].prev, data[w][i].merkle)

(* A hash is credited only by the worker that gave the work out, for the     *)
(* parent it gave it out for: HandleRequest finds the root in mNonceMap, and *)
(* compares the whole header (pool.cpp:504-533), though other workers write  *)
(* the static of IncrementExtraNonce meanwhile (main.cpp:4493).              *)
CreditedWasGiven ==
    \A w \in Worker : \A i \in DOMAIN data[w] :
        GivenBy(w, data[w][i].prev, data[w][i].merkle)

Unmoved(v) == /\ Prev(v)' = Prev(v) /\ mNonceMap'[v] = mNonceMap[v]
           /\ data'[v] = data[v]

WorksGrow == \A j \in DOMAIN works : j \in DOMAIN works' /\ works'[j] = works[j]

LEMMA GivenLater ==
    ASSUME WorksGrow, NEW w PROVE \A p, m : GivenBy(w, p, m) => GivenBy(w, p, m)'
BY DEF WorksGrow, GivenBy

(* The worker does nothing, or leaves its requests.                          *)
LEMMA GivenStays ==
    ASSUME NEW v \in Worker, GivenInv(v), Unmoved(v), WorksGrow,
           \/ pc'[v] = pc[v] /\ job'[v] = job[v]
           \/ pc'[v] \in {"peers", "stopped"}
    PROVE  GivenInv(v)'
<1>1. \A m : Known(v, m)' <=> Known(v, m)
  BY DEF Known, Unmoved
<1>2. \A p, m : GivenBy(v, p, m) => GivenBy(v, p, m)'
  BY GivenLater
<1>3. \A i \in DOMAIN data'[v] : GivenBy(v, data[v][i].prev, data[v][i].merkle)'
  BY <1>2, Zenon DEF Unmoved, GivenInv
<1>4. CASE pc'[v] \in {"peers", "stopped"}
  BY <1>3, <1>4 DEF GivenInv
<1>5. CASE pc'[v] = pc[v] /\ job'[v] = job[v]
  <2>1. Prev(v)' = Prev(v)
    BY DEF Unmoved
  <2>2. pc'[v] = "template" => \A m : ~Known(v, m)'
    BY <1>1, <1>5 DEF GivenInv
  <2>3. pc'[v] \in {"loop", "write"} => \A m : Known(v, m)' => GivenBy(v, Prev(v), m)'
    BY <1>1, <1>2, <1>5, <2>1 DEF GivenInv
  <2>4. pc'[v] = "write" /\ job'[v].share => Known(v, job[v].work.merkle)'
    BY <1>1, <1>5 DEF GivenInv
  <2>. QED  BY <1>3, <2>2, <2>3, <2>4 DEF GivenInv
<1>. QED  BY <1>4, <1>5

(* A handler leaves the other workers' rounds, maps and rows as they are.    *)
LEMMA OthersKept ==
    ASSUME Shape, WorkInv, JobInv, NEW w \in Worker, Input(w) \/ Request(w),
           NEW v \in Worker, v # w
    PROVE  Unmoved(v) /\ pc'[v] = pc[v] /\ job'[v] = job[v]
<1>1. /\ DOMAIN mNonceMap = Worker /\ pc \in [Worker -> PCs] /\ job \in [Worker -> JobType]
      /\ mBlockTemplate \in [Worker -> [prev : Nat, key : Nat]]
      /\ data \in [Worker -> Seq(DataType)]
  BY DEF Shape, TypeOK, MapInv, PCs
<1>2. CASE Input(w)
  <2>1. /\ UNCHANGED <<job, data>>
        /\ \E p : pc' = [pc EXCEPT ![w] = p]
        /\ UNCHANGED mNonceMap \/ mNonceMap' = [mNonceMap EXCEPT ![w] = <<>>]
        /\ UNCHANGED mBlockTemplate \/ \E t : mBlockTemplate' = [mBlockTemplate EXCEPT ![w] = t]
    BY <1>2 DEF Input, ReceiveNewBlock, ReadBest, MakeTemplate, TemplateFails,
                ReceiveShutdown, round, outputs
  <2>. QED  BY <1>1, <2>1 DEF Unmoved, Prev
<1>3. CASE Request(w)
  <2>1. /\ UNCHANGED pc \/ \E p : pc' = [pc EXCEPT ![w] = p]
        /\ UNCHANGED job \/ \E t : job' = [job EXCEPT ![w] = t]
        /\ UNCHANGED mNonceMap \/ \E m, n : Remember(w, m, n)
    BY <1>3 DEF Request, GetWork, GetWorkAfterWrite, ShareAfterWrite, HandleShare,
                StaleShare, GiveWork, shared
  <2>2. mBlockTemplate' = mBlockTemplate
    BY <1>3, RequestEffect
  <2>3. UNCHANGED data \/ \E m, sol, b : Send(w, m, sol, b)
    <3>1. CASE SendsRow(w)
      BY <3>1 DEF SendsRow
    <3>. QED  BY <1>3, <3>1, RequestEffect
  <2>4. mNonceMap'[v] = mNonceMap[v]
    BY <1>1, <2>1 DEF Remember
  <2>5. data'[v] = data[v]
    BY <1>1, <2>3 DEF Send
  <2>6. pc'[v] = pc[v] /\ job'[v] = job[v]
    BY <1>1, <2>1
  <2>. QED  BY <2>2, <2>4, <2>5, <2>6 DEF Unmoved, Prev
<1>. QED  BY <1>2, <1>3

(* A work is given out and remembered.                                       *)
LEMMA GivenHandsOut ==
    ASSUME Shape, NEW w \in Worker, GivenInv(w), pc[w] \in {"loop", "write"},
           mCurrBlock[w] # Nil, NEW n \in Nat, GiveWork(w, n), pc'[w] = "loop",
           UNCHANGED <<mBlockTemplate, data>>
    PROVE  WorksGrow /\ GivenInv(w)'
<1>. DEFINE N == Len(works) + 1
            M == Merkle(w, n)
<1>1. /\ Remember(w, M, n) /\ M \in MerkleType
      /\ Len(works) \in Nat /\ DOMAIN works = 1..Len(works)
      /\ DOMAIN works' = 1..N
      /\ \A i \in 1..Len(works) : works'[i] = works[i]
      /\ works'[N] = [worker |-> w, block |-> mCurrBlock[w], height |-> CurrHeight(w),
                      merkle |-> M, prev |-> Prev(w)]
  BY Handed
<1>2. /\ DOMAIN mNonceMap'[w] = DOMAIN mNonceMap[w] \cup {M}
      /\ \A x \in DOMAIN mNonceMap[w] \ {M} : mNonceMap'[w][x] = mNonceMap[w][x]
  BY <1>1, Remembered
<1>. HIDE DEF M
<1>3. /\ N \in DOMAIN works' /\ \A i \in DOMAIN works : i \in DOMAIN works'
      /\ works'[N].worker = w /\ works'[N].prev = Prev(w) /\ works'[N].merkle = M
  BY <1>1
<1>. HIDE DEF N
<1>4. WorksGrow
  BY <1>1, <1>3 DEF WorksGrow
<1>5. \A p, m : GivenBy(w, p, m) => GivenBy(w, p, m)'
  BY <1>4, GivenLater
<1>6. Prev(w)' = Prev(w)
  BY DEF Prev
<1>7. \A m : m = M => GivenBy(w, Prev(w), m)'
  BY <1>3, <1>6 DEF GivenBy
<1>8. \A m : Known(w, m)' => m = M \/ Known(w, m)
  BY <1>2 DEF Known
<1>9. \A m : Known(w, m)' => GivenBy(w, Prev(w), m)'
  BY <1>5, <1>6, <1>7, <1>8 DEF GivenInv
<1>10. \A i \in DOMAIN data'[w] : GivenBy(w, data[w][i].prev, data[w][i].merkle)'
  BY <1>5, Zenon DEF GivenInv
<1>. QED  BY <1>4, <1>9, <1>10 DEF GivenInv

(* A share is checked.  What is credited has a root that is known.           *)
LEMMA GivenChecked ==
    ASSUME Shape, NEW w \in Worker, GivenInv(w), pc[w] \in {"loop", "write"},
           mCurrBlock[w] # Nil, NEW work \in WorkType, NEW sol \in Solution,
           NEW n \in Nat, CheckShare(w, work, sol, n), Known(w, work.merkle),
           pc'[w] = "loop", UNCHANGED <<mBlockTemplate, mNonceMap, works>>
    PROVE  GivenInv(w)'
<1>1. Prev(w)' = Prev(w) /\ (\A m : Known(w, m)' <=> Known(w, m))
      /\ \A p, m : GivenBy(w, p, m)' <=> GivenBy(w, p, m)
  BY DEF Prev, Known, GivenBy
<1>2. \A m : Known(w, m)' => GivenBy(w, Prev(w), m)'
  BY <1>1 DEF GivenInv
<1>3. ASSUME UNCHANGED data
      PROVE  \A i \in DOMAIN data'[w] : GivenBy(w, data[w][i].prev, data[w][i].merkle)'
  BY <1>1, <1>3, Zenon DEF GivenInv
<1>4. ASSUME NEW b \in BOOLEAN, Send(w, work.merkle, sol, b)
      PROVE  \A i \in DOMAIN data'[w] : GivenBy(w, data[w][i].prev, data[w][i].merkle)'
  <2>1. Prev(w) \in Nat /\ CurrHeight(w) \in Nat /\ work.merkle \in MerkleType
    BY MerkleTyped, BestType DEF Shape, WorkType
  <2>. DEFINE N == Len(data[w]) + 1
  <2>2. /\ Len(data[w]) \in Nat /\ DOMAIN data[w] = 1..Len(data[w])
        /\ DOMAIN data'[w] = 1..N
        /\ \A i \in 1..Len(data[w]) : data'[w][i] = data[w][i]
        /\ data'[w][N] = [prev |-> Prev(w), merkle |-> work.merkle, sol |-> sol,
                          height |-> CurrHeight(w), isblock |-> b]
    BY <1>4, <2>1, SentRow
  <2>3. data'[w][N].prev = Prev(w) /\ data'[w][N].merkle = work.merkle
    BY <2>2
  <2>4. \A i \in DOMAIN data'[w] : i = N \/ (i \in DOMAIN data[w] /\ data'[w][i] = data[w][i])
    BY <2>2
  <2>. HIDE DEF N
  <2>. SUFFICES ASSUME NEW i \in DOMAIN data'[w]
                PROVE  \A r : r = data'[w][i] => GivenBy(w, r.prev, r.merkle)'
    OBVIOUS
  <2>5. CASE i = N
    BY <1>1, <2>3, <2>5 DEF GivenInv
  <2>6. CASE i \in DOMAIN data[w] /\ data'[w][i] = data[w][i]
    BY <1>1, <2>6 DEF GivenInv
  <2>. QED  BY <2>4, <2>5, <2>6
<1>5. UNCHANGED data \/ \E b \in BOOLEAN : Send(w, work.merkle, sol, b)
  BY CheckShareEffects
<1>. QED  BY <1>2, <1>3, <1>4, <1>5 DEF GivenInv

(* A new round: what was known is forgotten before the template changes.     *)
LEMMA GivenInput ==
    ASSUME Shape, NEW w \in Worker, GivenInv(w), Input(w)
    PROVE  GivenInv(w)'
<1>1. UNCHANGED <<job, works, data>>
  BY DEF Input, ReceiveNewBlock, ReadBest, MakeTemplate, TemplateFails,
         ReceiveShutdown, outputs
<1>2. /\ DOMAIN mNonceMap = Worker /\ pc \in [Worker -> PCs]
      /\ WorksGrow
      /\ \A p, m : GivenBy(w, p, m)' <=> GivenBy(w, p, m)
  BY <1>1 DEF Shape, TypeOK, MapInv, PCs, WorksGrow, GivenBy
<1>3. \A i \in DOMAIN data'[w] : GivenBy(w, data[w][i].prev, data[w][i].merkle)'
  BY <1>1, <1>2, Zenon DEF GivenInv
<1>4. CASE ReceiveNewBlock(w) \/ TemplateFails(w) \/ ReceiveShutdown(w)
  <2>1. /\ UNCHANGED <<mBlockTemplate, mNonceMap>>
        /\ \E p \in {"peers", "stopped"} : pc' = [pc EXCEPT ![w] = p]
    BY <1>4 DEF ReceiveNewBlock, TemplateFails, ReceiveShutdown, round
  <2>2. pc'[w] \in {"peers", "stopped"}
    BY <1>2, <2>1
  <2>3. Unmoved(w)
    BY <1>1, <2>1 DEF Unmoved, Prev
  <2>. QED  BY <1>2, <2>2, <2>3, GivenStays
<1>5. CASE ReadBest(w)
  <2>1. mNonceMap' = [mNonceMap EXCEPT ![w] = <<>>] /\ pc' = [pc EXCEPT ![w] = "template"]
    BY <1>5 DEF ReadBest
  <2>2. mNonceMap'[w] = <<>> /\ pc'[w] = "template"
    BY <1>2, <2>1
  <2>3. \A m : ~Known(w, m)'
    BY <2>2 DEF Known
  <2>. QED  BY <1>3, <2>2, <2>3 DEF GivenInv
<1>6. CASE MakeTemplate(w)
  <2>1. /\ pc[w] = "template" /\ mNonceMap' = mNonceMap
        /\ pc' = [pc EXCEPT ![w] = "loop"]
    BY <1>6 DEF MakeTemplate
  <2>2. pc'[w] = "loop" /\ \A m : ~Known(w, m)'
    BY <1>2, <2>1 DEF GivenInv, Known
  <2>. QED  BY <1>3, <2>2 DEF GivenInv
<1>. QED  BY <1>4, <1>5, <1>6 DEF Input

(* Each request.                                                             *)
LEMMA GivenRequest ==
    ASSUME Shape, NEW w \in Worker, GivenInv(w), Request(w)
    PROVE  WorksGrow /\ GivenInv(w)'
<1>1. /\ DOMAIN mNonceMap = Worker /\ pc \in [Worker -> PCs] /\ job \in [Worker -> JobType]
      /\ mExtraNonce \in [Worker -> Nat]
      /\ pc[w] = "write" => mCurrBlock[w] # Nil
  BY DEF Shape, TypeOK, MapInv, PCs, RoundInv
<1>2. UNCHANGED works => WorksGrow
  BY DEF WorksGrow
<1>3. ASSUME pc[w] = "loop", pc' = [pc EXCEPT ![w] = "write"],
             NEW t, job' = [job EXCEPT ![w] = t],
             t.share => Known(w, t.work.merkle),
             UNCHANGED <<mBlockTemplate, mNonceMap, works, data>>
      PROVE  GivenInv(w)'
  <2>1. pc'[w] = "write" /\ job'[w] = t
    BY <1>1, <1>3
  <2>2. Prev(w)' = Prev(w) /\ (\A m : Known(w, m)' <=> Known(w, m))
        /\ \A p, m : GivenBy(w, p, m)' <=> GivenBy(w, p, m)
    BY <1>3 DEF Prev, Known, GivenBy
  <2>3. \A i \in DOMAIN data'[w] : GivenBy(w, data[w][i].prev, data[w][i].merkle)'
    BY <1>3, <2>2, Zenon DEF GivenInv
  <2>4. \A m : Known(w, m)' => GivenBy(w, Prev(w), m)'
    BY <1>3, <2>2 DEF GivenInv
  <2>5. job'[w].share => Known(w, job[w].work.merkle)'
    BY <1>3, <2>1, <2>2
  <2>. QED  BY <2>1, <2>3, <2>4, <2>5 DEF GivenInv
<1>4. CASE GetWork(w)
  <2>1. pc[w] = "loop" /\ mCurrBlock[w] # Nil /\ UNCHANGED <<mBlockTemplate, data>>
    BY <1>4 DEF GetWork, round
  <2>2. CASE GiveWork(w, mExtraNonce[w] + 1) /\ UNCHANGED pc
    BY <1>1, <2>1, <2>2, GivenHandsOut
  <2>3. CASE /\ pc' = [pc EXCEPT ![w] = "write"] /\ job' = [job EXCEPT ![w] = NoJob]
             /\ UNCHANGED <<mNonceMap, works>>
    BY <1>2, <1>3, <2>1, <2>3 DEF NoJob
  <2>. QED  BY <1>4, <2>2, <2>3 DEF GetWork
<1>5. CASE GetWorkAfterWrite(w)
  <2>1. /\ pc[w] = "write" /\ GiveWork(w, 1) /\ pc'[w] = "loop"
        /\ UNCHANGED <<mBlockTemplate, data>>
    BY <1>1, <1>5 DEF GetWorkAfterWrite, round
  <2>. QED  BY <1>1, <2>1, GivenHandsOut
<1>6. CASE ShareAfterWrite(w)
  <2>1. /\ pc[w] = "write" /\ job[w].share /\ pc'[w] = "loop"
        /\ CheckShare(w, job[w].work, job[w].sol, 1)
        /\ UNCHANGED <<mBlockTemplate, mNonceMap, works>>
    BY <1>1, <1>6 DEF ShareAfterWrite, round
  <2>2. job[w].work \in WorkType /\ job[w].sol \in Solution
    BY <2>1, JobTyped
  <2>3. Known(w, job[w].work.merkle)
    BY <2>1 DEF GivenInv
  <2>. QED  BY <1>1, <1>2, <2>1, <2>2, <2>3, GivenChecked
<1>7. ASSUME NEW i \in DOMAIN works, NEW sol \in Solution, HandleShare(w, i, sol)
      PROVE  WorksGrow /\ GivenInv(w)'
  <2>. DEFINE work == works[i]
  <2>1. /\ pc[w] = "loop" /\ Current(w, work, sol) /\ Known(w, work.merkle)
        /\ UNCHANGED <<mBlockTemplate, mNonceMap, works>>
    BY <1>7 DEF HandleShare, round
  <2>2. mCurrBlock[w] # Nil /\ work \in WorkType
    BY <2>1, WorkTyped DEF Current
  <2>3. ShareNonce(w, work.merkle) \in Nat
    BY <2>1 DEF Shape, TypeOK, Known, ShareNonce
  <2>4. CASE CheckShare(w, work, sol, ShareNonce(w, work.merkle)) /\ UNCHANGED pc
    <3>1. pc'[w] = "loop"
      BY <2>1, <2>4
    <3>. QED  BY <1>2, <2>1, <2>2, <2>3, <2>4, <3>1, GivenChecked
  <2>5. CASE /\ pc' = [pc EXCEPT ![w] = "write"]
             /\ job' = [job EXCEPT ![w] = [share |-> TRUE, work |-> work, sol |-> sol]]
             /\ UNCHANGED data
    BY <1>2, <1>3, <2>1, <2>5
  <2>. QED  BY <1>7, <2>4, <2>5 DEF HandleShare
<1>8. ASSUME NEW i \in DOMAIN works, NEW sol \in Solution, StaleShare(w, i, sol)
      PROVE  WorksGrow /\ GivenInv(w)'
  <2>. DEFINE m == works[i].merkle
  <2>1. /\ pc[w] = "loop" /\ Remember(w, m, 0)
        /\ UNCHANGED <<mBlockTemplate, works, data, pc, job>>
    BY <1>8 DEF StaleShare, round, outputs
  <2>2. m \in MerkleType
    <3>1. works[i] \in WorkType
      BY WorkTyped
    <3>. QED  BY <3>1 DEF WorkType
  <2>3. /\ DOMAIN mNonceMap'[w] = DOMAIN mNonceMap[w] \cup {m}
        /\ mNonceMap'[w][m] = 0
        /\ \A x \in DOMAIN mNonceMap[w] \ {m} : mNonceMap'[w][x] = mNonceMap[w][x]
    BY <2>1, <2>2, Remembered
  <2>. HIDE DEF m
  <2>4. Prev(w)' = Prev(w) /\ (\A x : Known(w, x)' => Known(w, x))
        /\ \A p, x : GivenBy(w, p, x)' <=> GivenBy(w, p, x)
    BY <2>1, <2>3 DEF Prev, Known, GivenBy
  <2>5. \A k \in DOMAIN data'[w] : GivenBy(w, data[w][k].prev, data[w][k].merkle)'
    BY <2>1, <2>4, Zenon DEF GivenInv
  <2>6. \A x : Known(w, x)' => GivenBy(w, Prev(w), x)'
    BY <2>1, <2>4 DEF GivenInv
  <2>. QED  BY <1>2, <2>1, <2>5, <2>6 DEF GivenInv
<1>. QED  BY <1>4, <1>5, <1>6, <1>7, <1>8 DEF Request

GivenAll == \A w \in Worker : GivenInv(w)

LEMMA GivenStep ==
    ASSUME Inv, GivenAll, [Next]_vars
    PROVE  GivenAll'
<1>1. CASE UNCHANGED vars \/ NewBest \/ StopServer
  <2>1. UNCHANGED <<pc, job, mBlockTemplate, mNonceMap, works, data>>
    BY <1>1 DEF vars, NewBest, StopServer, round, outputs
  <2>2. WorksGrow /\ \A w \in Worker : Unmoved(w)
    BY <2>1 DEF WorksGrow, Unmoved, Prev
  <2>. QED  BY <2>1, <2>2, GivenStays DEF GivenAll
<1>2. ASSUME NEW w \in Worker, Input(w) \/ Request(w) PROVE GivenAll'
  <2>1. WorksGrow /\ GivenInv(w)'
    <3>1. CASE Input(w)
      <4>1. UNCHANGED works
        BY <3>1 DEF Input, ReceiveNewBlock, ReadBest, MakeTemplate, TemplateFails,
                    ReceiveShutdown, outputs
      <4>. QED  BY <3>1, <4>1, GivenInput DEF Inv, GivenAll, WorksGrow
    <3>2. CASE Request(w)
      BY <3>2, GivenRequest DEF Inv, GivenAll
    <3>. QED  BY <1>2, <3>1, <3>2
  <2>2. ASSUME NEW v \in Worker, v # w PROVE GivenInv(v)'
    BY <1>2, <2>1, <2>2, OthersKept, GivenStays DEF Inv, GivenAll
  <2>. QED  BY <2>1, <2>2 DEF GivenAll
<1>. QED  BY <1>1, <1>2 DEF Next

LEMMA GivenInit == Init => GivenAll
<1>. SUFFICES ASSUME Init, NEW w \in Worker PROVE GivenInv(w)
  BY DEF GivenAll
<1>1. pc[w] = "loop" /\ DOMAIN mNonceMap[w] = {} /\ data[w] = <<>>
  BY DEF Init
<1>. QED  BY <1>1 DEF GivenInv, Known

(* Whatever the workers do to the static they share, every share credited is *)
(* for a work that its worker gave out.                                      *)
THEOREM CreditGiven == Spec => []CreditedWasGiven
<1>1. GivenAll => CreditedWasGiven
  BY DEF GivenAll, GivenInv, CreditedWasGiven
<1>. QED  BY <1>1, GivenInit, GivenStep, InvAlways, PTL DEF Spec

-----------------------------------------------------------------------------
(* Every key is one worker's: the one it holds, the one its template is paid *)
(* to, and those of the works it has given out.                              *)
Uses(w, k) ==
    \/ k = mReserveKey[w]
    \/ k = mBlockTemplate[w].key
    \/ \E j \in DOMAIN works : works[j].worker = w /\ works[j].merkle.key = k

OwnInv ==
    /\ \A w \in Worker : Prev(w) # Nil => mBlockTemplate[w].key # 0
    /\ \A w \in Worker : \A k \in Nat \ {0} : Uses(w, k) => k < nextKey
    /\ \A v, w \in Worker : \A k \in Nat \ {0} : Uses(v, k) /\ Uses(w, k) => v = w
    /\ \A j \in DOMAIN works : works[j].merkle.key \in Nat \ {0}

(* Two workers never give out the same work, nor works that pay to the same  *)
(* key, over any number of templates: CreateNewBlock reserves a key unless   *)
(* the worker still holds one, and while the server lives no worker returns  *)
(* its key to the pool (pool.cpp:308, main.cpp:4260, 4577).                  *)
WorksApart ==
    \A i, j \in DOMAIN works :
        works[i].worker # works[j].worker => works[i].merkle.key # works[j].merkle.key

(* A hash is credited by one worker only: two workers never send a share     *)
(* with the same root, so that the backend never credits a solution that one *)
(* worker has taken already, although each worker looks for duplicates in its*)
(* own mShares alone (pool.cpp:538-541).                                     *)
CreditedByOne ==
    \A v, w \in Worker : \A i \in DOMAIN data[v], j \in DOMAIN data[w] :
        v # w => data[v][i].merkle # data[w][j].merkle

(* Nobody comes to use a key that it did not use before.                     *)
LEMMA OwnStays ==
    ASSUME OwnInv, nextKey \in Nat, nextKey' \in Nat, nextKey' >= nextKey,
           \A w \in Worker : \A k \in Nat \ {0} : Uses(w, k)' => Uses(w, k),
           \A w \in Worker : Prev(w)' # Nil => mBlockTemplate'[w].key # 0,
           \A j \in DOMAIN works' : works'[j].merkle.key \in Nat \ {0}
    PROVE  OwnInv'
<1>1. \A w \in Worker : \A k \in Nat \ {0} : Uses(w, k) => k < nextKey
  BY DEF OwnInv
<1>2. \A w \in Worker : \A k \in Nat \ {0} : Uses(w, k)' => k < nextKey'
  <2>. SUFFICES ASSUME NEW w \in Worker, NEW k \in Nat \ {0}, Uses(w, k)'
                PROVE  k < nextKey'
    OBVIOUS
  <2>1. k < nextKey
    BY <1>1
  <2>. QED  BY <2>1
<1>3. \A v, w \in Worker : \A k \in Nat \ {0} : Uses(v, k)' /\ Uses(w, k)' => v = w
  BY Zenon DEF OwnInv
<1>. QED  BY <1>2, <1>3, Zenon DEF OwnInv

(* The key of a new template is the worker's own, or a new one.              *)
LEMMA OwnMakeTemplate ==
    ASSUME Shape, OwnInv, NEW w \in Worker, MakeTemplate(w)
    PROVE  OwnInv'
<1>. DEFINE key == IF mReserveKey[w] = 0 THEN nextKey ELSE mReserveKey[w]
<1>1. /\ nextKey \in Nat \ {0} /\ mReserveKey \in [Worker -> Nat]
      /\ mBlockTemplate \in [Worker -> [prev : Nat, key : Nat]]
  BY DEF Shape, TypeOK
<1>2. /\ mReserveKey' = [mReserveKey EXCEPT ![w] = key]
      /\ nextKey' = IF mReserveKey[w] = 0 THEN nextKey + 1 ELSE nextKey
      /\ mBlockTemplate' = [mBlockTemplate EXCEPT ![w] = [prev |-> best, key |-> key]]
      /\ UNCHANGED works
  BY DEF MakeTemplate, outputs
<1>3. /\ key \in Nat \ {0} /\ key < nextKey' /\ nextKey' >= nextKey /\ nextKey' \in Nat
      /\ \/ key = mReserveKey[w]
         \/ key = nextKey
  <2>1. CASE mReserveKey[w] = 0
    BY <1>1, <1>2, <2>1
  <2>2. CASE mReserveKey[w] # 0
    <3>1. mReserveKey[w] \in Nat \ {0} /\ Uses(w, mReserveKey[w])
      BY <1>1, <2>2 DEF Uses
    <3>2. mReserveKey[w] < nextKey
      BY <3>1 DEF OwnInv
    <3>. QED  BY <1>1, <1>2, <2>2, <3>2
  <2>. QED  BY <2>1, <2>2
<1>. HIDE DEF key
<1>4. /\ mReserveKey'[w] = key /\ mBlockTemplate'[w].key = key
      /\ \A v \in Worker \ {w} :
           mReserveKey'[v] = mReserveKey[v] /\ mBlockTemplate'[v] = mBlockTemplate[v]
  BY <1>1, <1>2
<1>5. \A v \in Worker \ {w} : \A k : Uses(v, k)' <=> Uses(v, k)
  BY <1>2, <1>4 DEF Uses
<1>6. \A k : Uses(w, k)' => k = key \/ Uses(w, k)
  BY <1>2, <1>4 DEF Uses
<1>7. \A v \in Worker : \A k \in Nat \ {0} : Uses(v, k) => k < nextKey
  BY DEF OwnInv
<1>8. \A v \in Worker \ {w} : ~Uses(v, key)
  <2>1. CASE key = nextKey
    BY <1>1, <1>3, <1>7, <2>1
  <2>2. CASE key = mReserveKey[w]
    <3>1. Uses(w, key)
      BY <2>2 DEF Uses
    <3>. QED  BY <1>3, <3>1 DEF OwnInv
  <2>. QED  BY <1>3, <2>1, <2>2
<1>9. \A v \in Worker : \A k \in Nat \ {0} : Uses(v, k)' => k < nextKey'
  <2>. SUFFICES ASSUME NEW v \in Worker, NEW k \in Nat \ {0}, Uses(v, k)'
                PROVE  k < nextKey'
    OBVIOUS
  <2>1. Uses(v, k) => k < nextKey
    BY <1>7
  <2>. QED  BY <1>1, <1>3, <1>5, <1>6, <2>1
<1>10. \A v, u \in Worker : \A k \in Nat \ {0} : Uses(v, k)' /\ Uses(u, k)' => v = u
  <2>1. \A v, u \in Worker : \A k \in Nat \ {0} : Uses(v, k) /\ Uses(u, k) => v = u
    BY DEF OwnInv
  <2>. QED  BY <1>3, <1>5, <1>6, <1>8, <2>1
<1>11. \A v \in Worker : Prev(v)' # Nil => mBlockTemplate'[v].key # 0
  BY <1>3, <1>4 DEF OwnInv, Prev
<1>12. \A j \in DOMAIN works' : works'[j].merkle.key \in Nat \ {0}
  BY <1>2 DEF OwnInv
<1>. QED  BY <1>9, <1>10, <1>11, <1>12 DEF OwnInv

(* A work is given out for the key of its template.                          *)
LEMMA OwnHandsOut ==
    ASSUME Shape, OwnInv, NEW w \in Worker, pc[w] \in {"loop", "write"},
           mCurrBlock[w] # Nil, NEW n \in Nat, GiveWork(w, n),
           UNCHANGED <<nextKey, mReserveKey, mBlockTemplate>>
    PROVE  OwnInv'
<1>. DEFINE N == Len(works) + 1
            M == Merkle(w, n)
<1>1. /\ Len(works) \in Nat /\ DOMAIN works = 1..Len(works)
      /\ DOMAIN works' = 1..N
      /\ \A i \in 1..Len(works) : works'[i] = works[i]
      /\ works'[N] = [worker |-> w, block |-> mCurrBlock[w], height |-> CurrHeight(w),
                      merkle |-> M, prev |-> Prev(w)]
  BY Handed
<1>2. M.key = mBlockTemplate[w].key
  BY DEF Merkle
<1>. HIDE DEF M
<1>3. /\ \A j \in DOMAIN works' : j = N \/ (j \in DOMAIN works /\ works'[j] = works[j])
      /\ works'[N].worker = w /\ works'[N].merkle.key = mBlockTemplate[w].key
  BY <1>1, <1>2
<1>. HIDE DEF N
<1>4. mBlockTemplate[w].key \in Nat \ {0}
  <2>1. mBlockTemplate[w].key \in Nat
    BY DEF Shape, TypeOK
  <2>2. Prev(w) # Nil
    BY DEF Shape, RoundInv
  <2>. QED  BY <2>1, <2>2 DEF OwnInv
<1>5. nextKey \in Nat /\ nextKey' = nextKey
  BY DEF Shape, TypeOK
<1>6. \A v \in Worker : \A k \in Nat \ {0} : Uses(v, k)' => Uses(v, k)
  BY <1>3 DEF Uses
<1>7. \A v \in Worker : Prev(v)' # Nil => mBlockTemplate'[v].key # 0
  BY DEF OwnInv, Prev
<1>8. \A j \in DOMAIN works' : works'[j].merkle.key \in Nat \ {0}
  BY <1>3, <1>4 DEF OwnInv
<1>. QED  BY <1>5, <1>6, <1>7, <1>8, OwnStays

LEMMA OwnStep ==
    ASSUME Inv, OwnInv, [Next]_vars
    PROVE  OwnInv'
<1>0. nextKey \in Nat /\ \A w \in Worker : pc[w] = "write" => mCurrBlock[w] # Nil
  BY DEF Inv, Shape, TypeOK, RoundInv
<1>1. ASSUME UNCHANGED <<nextKey, mBlockTemplate, works>>,
             \A w \in Worker : mReserveKey'[w] \in {mReserveKey[w], 0}
      PROVE  OwnInv'
  <2>1. \A w \in Worker : \A k \in Nat \ {0} : Uses(w, k)' => Uses(w, k)
    BY <1>1 DEF Uses
  <2>2. \A w \in Worker : Prev(w)' # Nil => mBlockTemplate'[w].key # 0
    BY <1>1 DEF OwnInv, Prev
  <2>3. \A j \in DOMAIN works' : works'[j].merkle.key \in Nat \ {0}
    BY <1>1 DEF OwnInv
  <2>. QED  BY <1>0, <1>1, <2>1, <2>2, <2>3, OwnStays
<1>2. CASE UNCHANGED vars \/ NewBest \/ StopServer
  <2>1. UNCHANGED <<nextKey, mReserveKey, mBlockTemplate, works>>
    BY <1>2 DEF vars, shared, NewBest, StopServer, round, outputs
  <2>. QED  BY <1>1, <2>1
<1>3. ASSUME NEW w \in Worker, Input(w) PROVE OwnInv'
  <2>1. CASE MakeTemplate(w)
    BY <2>1, OwnMakeTemplate DEF Inv
  <2>2. CASE ReceiveNewBlock(w) \/ ReadBest(w) \/ TemplateFails(w) \/ ReceiveShutdown(w)
    <3>1. UNCHANGED <<nextKey, mReserveKey, mBlockTemplate, works>>
      BY <2>2 DEF ReceiveNewBlock, ReadBest, TemplateFails, ReceiveShutdown, shared,
                  round, outputs
    <3>. QED  BY <1>1, <3>1
  <2>. QED  BY <1>3, <2>1, <2>2 DEF Input
<1>4. ASSUME NEW w \in Worker, Request(w) PROVE OwnInv'
  <2>1. /\ UNCHANGED <<nextKey, mBlockTemplate>> /\ pc[w] \in {"loop", "write"}
        /\ mCurrBlock[w] # Nil
        /\ UNCHANGED <<chain, input, mReserveKey, data>> \/ SendsRow(w)
    BY <1>4, RequestEffect DEF Inv
  <2>2. \A v \in Worker : mReserveKey'[v] \in {mReserveKey[v], 0}
    BY <2>1, SentKeys DEF Inv
  <2>3. ASSUME UNCHANGED works PROVE OwnInv'
    BY <1>1, <2>1, <2>2, <2>3
  <2>4. CASE GetWork(w)
    <3>1. UNCHANGED mReserveKey /\ mExtraNonce[w] + 1 \in Nat
      BY <2>4 DEF GetWork, Inv, Shape, TypeOK
    <3>. QED  BY <2>1, <2>3, <2>4, <3>1, OwnHandsOut DEF GetWork, Inv
  <2>5. CASE GetWorkAfterWrite(w)
    BY <2>1, <2>5, OwnHandsOut DEF GetWorkAfterWrite, Inv
  <2>6. CASE ShareAfterWrite(w)
    BY <2>3, <2>6 DEF ShareAfterWrite
  <2>7. CASE \E i \in DOMAIN works, sol \in Solution :
                HandleShare(w, i, sol) \/ StaleShare(w, i, sol)
    BY <2>3, <2>7 DEF HandleShare, StaleShare, outputs
  <2>. QED  BY <1>4, <2>4, <2>5, <2>6, <2>7 DEF Request
<1>. QED  BY <1>2, <1>3, <1>4 DEF Next

LEMMA OwnInit == Init => OwnInv
<1>. SUFFICES ASSUME Init PROVE OwnInv
  OBVIOUS
<1>1. \A w \in Worker : mReserveKey[w] = 0 /\ mBlockTemplate[w].key = 0 /\ Prev(w) = Nil
  BY DEF Init, Prev
<1>2. DOMAIN works = {}
  BY DEF Init
<1>. QED  BY <1>1, <1>2 DEF OwnInv, Uses

LEMMA OwnAlways == Spec => []OwnInv
BY OwnInit, OwnStep, InvAlways, PTL DEF Spec

(* Two workers have no work, and no key, in common.                          *)
THEOREM WorkersApart == Spec => []WorksApart
<1>1. Inv /\ OwnInv => WorksApart
  <2>. SUFFICES ASSUME Inv, OwnInv, NEW i \in DOMAIN works, NEW j \in DOMAIN works,
                       works[i].merkle.key = works[j].merkle.key
                PROVE  works[i].worker = works[j].worker
    BY DEF WorksApart
  <2>1. works[i].worker \in Worker /\ works[j].worker \in Worker
    BY WorkTyped DEF Inv, WorkType
  <2>. DEFINE k == works[i].merkle.key
  <2>2. k \in Nat \ {0}
    BY DEF OwnInv
  <2>3. Uses(works[i].worker, k) /\ Uses(works[j].worker, k)
    BY Zenon DEF Uses
  <2>. HIDE DEF k
  <2>. QED  BY <2>1, <2>2, <2>3 DEF OwnInv
<1>. QED  BY <1>1, InvAlways, OwnAlways, PTL

(* Two workers never credit the same root.                                   *)
THEOREM CreditedOnceOnly == Spec => []CreditedByOne
<1>1. CreditedWasGiven /\ WorksApart => CreditedByOne
  <2>. SUFFICES ASSUME CreditedWasGiven, WorksApart, NEW v \in Worker, NEW w \in Worker,
                       NEW i \in DOMAIN data[v], NEW j \in DOMAIN data[w],
                       data[v][i].merkle = data[w][j].merkle
                PROVE  v = w
    BY DEF CreditedByOne
  <2>1. PICK a \in DOMAIN works : works[a].worker = v /\ works[a].merkle = data[v][i].merkle
    BY Zenon DEF CreditedWasGiven, GivenBy
  <2>2. PICK b \in DOMAIN works : works[b].worker = w /\ works[b].merkle = data[w][j].merkle
    BY Zenon DEF CreditedWasGiven, GivenBy
  <2>. QED  BY <2>1, <2>2 DEF WorksApart
<1>. QED  BY <1>1, CreditGiven, WorkersApart, PTL
=============================================================================
