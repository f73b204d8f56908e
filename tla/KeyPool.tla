------------------------------- MODULE KeyPool -------------------------------
(***************************************************************************)
(* The key pool of the wallet (primeserver/src/wallet.cpp and wallet.h):    *)
(* where the workers of the pool take the key of a block from, and the      *)
(* payments the key of their change.                                        *)
(*                                                                          *)
(* The wallet file holds one row for each key of the pool; setKeyPool holds *)
(* the indexes of those that are free.  Reserving a key takes its index out *)
(* of the set and leaves the row; keeping it erases the row; returning it   *)
(* puts the index back.  A holder is a CReserveKey: the one of a worker, of *)
(* the RPC server (pMiningKey), or of a payment under way.                  *)
(*                                                                          *)
(* The functions below run under cs_wallet, but for KeepKey, whose only     *)
(* effect is one write; each is one step.  Rows are on disk at once: the    *)
(* process may die between any two steps, and LoadWallet then finds every   *)
(* row free.                                                                *)
(*                                                                          *)
(* Simplifications:                                                         *)
(*  - a key is its number in the order in which keys are generated;         *)
(*  - if the wallet is locked and the pool empty, GetReservedKey hands out  *)
(*    the default key and reserves nothing: no step;                        *)
(*  - a top-up cut short by a crash leaves fewer rows, as a smaller -keypool *)
(*    would; AddReserveKey has no caller.                                   *)
(***************************************************************************)
EXTENDS Integers, FiniteSets, FiniteSetsExt, Functions

CONSTANTS
    Holder,        \* reserve keys
    TargetSize,    \* -keypool
    MaxKey         \* bound: keys generated

ASSUME HolderAssumption == IsFiniteSet(Holder)
ASSUME SizeAssumption == TargetSize \in Nat /\ MaxKey \in Nat

VARIABLES
    setKeyPool,    \* indexes of the free keys
    pool,          \* the rows of the wallet file: index -> key
    lastKey,       \* the last key generated
    held,          \* per holder: nIndex and vchPubKey, Nothing if nIndex = -1
    crypted,       \* the wallet is encrypted
    locked,        \* and its master key is not in memory
    used,          \* history: keys used for good
    usedAgain,     \* history: those used a second time
    flushed,       \* history: keys that encryptwallet dropped from the pool
    collided       \* history: a new key was given an index that is reserved

wallet == <<setKeyPool, pool, lastKey>>
history == <<used, usedAgain, flushed, collided>>
vars == <<wallet, held, crypted, locked, history>>

Nothing == [index |-> 0, key |-> 0]

HeldIndexes == {held[h].index : h \in Holder} \ {0}

-----------------------------------------------------------------------------
(* The pool after n new keys with the indexes from first on.                 *)
WithKeys(set, rows, first, n) ==
    LET new == first .. first + n - 1
    IN  [set  |-> set \cup new,
         rows |-> [i \in DOMAIN rows \cup new |->
                     IF i \in new THEN lastKey + 1 + (i - first) ELSE rows[i]],
         last |-> lastKey + n]

(* TopUpKeyPool: new indexes follow the last free one, or start at 1.        *)
NextIndex_FromZero == IF setKeyPool = {} THEN 0 ELSE Max(setKeyPool) + 1

NextIndex == IF setKeyPool = {} THEN 1 ELSE Max(setKeyPool) + 1

Missing ==
    IF Cardinality(setKeyPool) > TargetSize THEN 0
    ELSE TargetSize + 1 - Cardinality(setKeyPool)

ToppedUp ==
    IF locked THEN [set |-> setKeyPool, rows |-> pool, last |-> lastKey]
    ELSE WithKeys(setKeyPool, pool, NextIndex, Missing)

(* A new key is given an index that somebody holds: the row is overwritten.  *)
Collides ==
    ~locked /\ (NextIndex .. NextIndex + Missing - 1) \cap HeldIndexes # {}

TopUpKeyPool ==
    /\ ToppedUp.last <= MaxKey
    /\ setKeyPool' = ToppedUp.set
    /\ pool' = ToppedUp.rows
    /\ lastKey' = ToppedUp.last
    /\ collided' = (collided \/ Collides)
    /\ UNCHANGED <<held, crypted, locked, used, usedAgain, flushed>>

(* ReserveKeyFromKeyPool tops up the pool and takes the oldest key out of    *)
(* the set.  Its row should be there; if it is not, an exception leaves the  *)
(* holder with the index and no key.                                         *)
Oldest_Youngest == Max(ToppedUp.set)

Oldest == Min(ToppedUp.set)

ReserveKeyFromKeyPool ==
    /\ ToppedUp.last <= MaxKey
    /\ ToppedUp.set # {}
    /\ setKeyPool' = ToppedUp.set \ {Oldest}
    /\ lastKey' = ToppedUp.last
    /\ collided' = (collided \/ Collides)

KeyAt(i) == IF i \in DOMAIN ToppedUp.rows THEN ToppedUp.rows[i] ELSE 0

GetReservedKey(h) ==
    /\ held[h].index = 0
    /\ ReserveKeyFromKeyPool
    /\ pool' = ToppedUp.rows
    /\ held' = [held EXCEPT ![h] = [index |-> Oldest, key |-> KeyAt(Oldest)]]
    /\ UNCHANGED <<crypted, locked, used, usedAgain, flushed>>

(* KeepKey erases the row of an index: its key is used for a block or for    *)
(* change.                                                                   *)
Use(k) ==
    /\ used' = used \cup {k}
    /\ usedAgain' = usedAgain \cup ({k} \cap used)

ErasePool_Forgets(rows, i) == rows

ErasePool(rows, i) == Restrict(rows, DOMAIN rows \ {i})

KeepKey(h) ==
    /\ held[h].key # 0
    /\ pool' = ErasePool(pool, held[h].index)
    /\ Use(held[h].key)
    /\ held' = [held EXCEPT ![h] = Nothing]
    /\ UNCHANGED <<setKeyPool, lastKey, crypted, locked, flushed, collided>>

(* ReturnKey, called by the destructor too.                                  *)
ReturnKey(h) ==
    /\ held[h].index # 0
    /\ setKeyPool' = setKeyPool \cup {held[h].index}
    /\ held' = [held EXCEPT ![h] = Nothing]
    /\ UNCHANGED <<pool, lastKey, crypted, locked, history>>

(* GetKeyFromPool reserves a key and keeps it in one go (getnewaddress).     *)
GetKeyFromPool ==
    /\ ReserveKeyFromKeyPool
    /\ KeyAt(Oldest) # 0
    /\ pool' = ErasePool(ToppedUp.rows, Oldest)
    /\ Use(KeyAt(Oldest))
    /\ UNCHANGED <<held, crypted, locked, flushed>>

(* EncryptWallet: the free keys are dropped, TargetSize new ones take the    *)
(* indexes from 1 on, and the wallet is locked.  A key that is reserved      *)
(* stays where it is.  The command then asks for a shutdown; until it has    *)
(* come that far, all of the other steps may still happen.                   *)
Dropped_OnlyFromMemory == pool

Dropped == Restrict(pool, DOMAIN pool \ setKeyPool)

NewKeyPool ==
    LET new == WithKeys({}, Dropped, 1, TargetSize)
    IN  /\ new.last <= MaxKey
        /\ setKeyPool' = new.set
        /\ pool' = new.rows
        /\ lastKey' = new.last
        /\ flushed' = flushed \cup {pool[i] : i \in setKeyPool \cap DOMAIN pool}
        /\ collided' = (collided \/ 1..TargetSize \cap HeldIndexes # {})

EncryptWallet ==
    /\ ~crypted
    /\ NewKeyPool
    /\ crypted' = TRUE
    /\ locked' = TRUE
    /\ UNCHANGED <<held, used, usedAgain>>

(* walletpassphrase and walletlock.                                          *)
Unlock ==
    /\ locked
    /\ locked' = FALSE
    /\ UNCHANGED <<wallet, held, crypted, history>>

Lock ==
    /\ crypted /\ ~locked
    /\ locked' = TRUE
    /\ UNCHANGED <<wallet, held, crypted, history>>

(* The process ends and LoadWallet reads the rows.                           *)
Restart ==
    /\ setKeyPool' = DOMAIN pool
    /\ held' = [h \in Holder |-> Nothing]
    /\ locked' = crypted
    /\ UNCHANGED <<pool, lastKey, crypted, history>>

-----------------------------------------------------------------------------
(* A new wallet.                                                             *)
Init ==
    /\ setKeyPool = {}
    /\ pool = <<>>
    /\ lastKey = 0
    /\ held = [h \in Holder |-> Nothing]
    /\ crypted = FALSE
    /\ locked = FALSE
    /\ used = {}
    /\ usedAgain = {}
    /\ flushed = {}
    /\ collided = FALSE

Next ==
    \/ TopUpKeyPool
    \/ \E h \in Holder : GetReservedKey(h) \/ KeepKey(h) \/ ReturnKey(h)
    \/ GetKeyFromPool
    \/ EncryptWallet
    \/ Unlock
    \/ Lock
    \/ Restart

Spec == Init /\ [][Next]_vars

-----------------------------------------------------------------------------
(* Properties.                                                               *)

(* Type correctness; keys are never invented.                                *)
TypeOK ==
    /\ setKeyPool \subseteq Nat \ {0} /\ IsFiniteSet(setKeyPool)
    /\ DOMAIN pool \subseteq Nat \ {0} /\ IsFiniteSet(DOMAIN pool)
    /\ lastKey \in Nat
    /\ pool \in [DOMAIN pool -> 1..lastKey]
    /\ held \in [Holder -> [index : Nat, key : 0..lastKey]]
    /\ crypted \in BOOLEAN /\ locked \in BOOLEAN
    /\ used \subseteq 1..lastKey /\ usedAgain \subseteq used
    /\ flushed \subseteq 1..lastKey
    /\ collided \in BOOLEAN

(* A key has one owner: no two reserve keys hold it, none is free or handed  *)
(* out again after it was used, over returns, crashes and restarts           *)
(* (wallet.cpp:1332 "so it won't be used again", 1549-1563, 1608-1626).  The *)
(* only exception are indexes that collided, and they collide only in a      *)
(* wallet that was encrypted, whose free keys can be flushed or used up      *)
(* while others are reserved, or in a pool of size 0.                        *)
KeyExclusive ==
    /\ collided => crypted \/ TargetSize = 0
    /\ ~collided =>
         /\ usedAgain = {}
         /\ \A h \in Holder : held[h].index # 0 =>
               /\ held[h].key \notin used
               /\ held[h].index \notin setKeyPool
               /\ \A g \in Holder : g # h => held[g].key # held[h].key

(* Unless indexes collided, every row of the file is a free key or a         *)
(* reserved one: none is lost, and reading the row of a free index never     *)
(* fails (wallet.cpp:1582-1585).                                             *)
RowsExact ==
    ~collided =>
        /\ DOMAIN pool = setKeyPool \cup HeldIndexes
        /\ \A h \in Holder : held[h].index # 0 => held[h].key = pool[held[h].index]
        /\ \A k \in 1..lastKey :
              k \in used \cup flushed \/ \E i \in DOMAIN pool : pool[i] = k

(* A key that was free when the wallet was encrypted, and may stand in a     *)
(* backup without a passphrase, is never handed out afterwards, whatever     *)
(* becomes of the indexes, the reserved keys and the process                 *)
(* (wallet.cpp:1512-1515 "Mark old keypool keys as used, and generate all    *)
(* new keys").                                                               *)
FlushedKeysStay ==
    TargetSize > 0 =>
        /\ flushed \cap {pool[i] : i \in DOMAIN pool} = {}
        /\ \A h \in Holder : held[h].key \notin flushed

=============================================================================
