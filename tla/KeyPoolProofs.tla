---------------------------- MODULE KeyPoolProofs ----------------------------
(***************************************************************************)
(* Proofs about KeyPool, for any finite set of reserve keys, any size of    *)
(* the pool and any number of keys.                                         *)
(***************************************************************************)
EXTENDS KeyPool, FiniteDataTheorems, TLAPS

-----------------------------------------------------------------------------
(* Finite sets of indexes.                                                   *)
LEMMA MinNat ==
    ASSUME NEW S, S \subseteq Nat, S # {}
    PROVE  Min(S) \in S /\ \A x \in S : Min(S) <= x
<1>1. \E m \in S : \A x \in S : m <= x
  BY LeastElement
<1>. QED  BY <1>1 DEF Min

Indexes(S) == S \subseteq Nat \ {0} /\ IsFiniteSet(S)

RowsType(rows, last) == rows \in [DOMAIN rows -> 1..last] /\ Indexes(DOMAIN rows)

LEMMA NewKeysType ==
    ASSUME TypeOK, NEW set, Indexes(set), NEW rows, RowsType(rows, lastKey),
           NEW first \in Nat \ {0}, NEW n \in Nat
    PROVE  LET w == WithKeys(set, rows, first, n) IN
           /\ Indexes(w.set) /\ RowsType(w.rows, w.last)
           /\ w.last = lastKey + n /\ lastKey \in Nat
<1>. DEFINE new == first .. first + n - 1
            w == WithKeys(set, rows, first, n)
<1>1. lastKey \in Nat
  BY DEF TypeOK
<1>2. Indexes(new)
  BY FS_Interval DEF Indexes
<1>3. /\ w.set = set \cup new /\ w.last = lastKey + n
      /\ w.rows = [i \in DOMAIN rows \cup new |->
                     IF i \in new THEN lastKey + 1 + (i - first) ELSE rows[i]]
  BY DEF WithKeys
<1>4. Indexes(w.set)
  <2>1. IsFiniteSet(set \cup new)
    BY <1>2, FS_Union DEF Indexes
  <2>. QED  BY <1>2, <1>3, <2>1 DEF Indexes
<1>5. Indexes(DOMAIN w.rows)
  <2>1. IsFiniteSet(DOMAIN rows \cup new)
    BY <1>2, FS_Union DEF Indexes, RowsType
  <2>2. DOMAIN w.rows = DOMAIN rows \cup new
    BY <1>3
  <2>. QED  BY <1>2, <2>1, <2>2 DEF Indexes, RowsType
<1>6. ASSUME NEW i \in DOMAIN rows \cup new
      PROVE  (IF i \in new THEN lastKey + 1 + (i - first) ELSE rows[i]) \in 1..(lastKey + n)
  <2>1. CASE i \in new
    BY <1>1, <2>1
  <2>2. CASE i \notin new
    <3>1. rows[i] \in 1..lastKey
      BY <1>6, <2>2 DEF RowsType
    <3>. QED  BY <1>1, <2>2, <3>1
  <2>. QED  BY <2>1, <2>2
<1>7. w.rows \in [DOMAIN w.rows -> 1..w.last]
  BY <1>3, <1>6
<1>. QED  BY <1>1, <1>3, <1>4, <1>5, <1>7 DEF RowsType

(* The new indexes of a top-up lie above every free one.                     *)
LEMMA NextIndexAbove ==
    ASSUME TypeOK
    PROVE  NextIndex \in Nat \ {0} /\ \A i \in setKeyPool : i < NextIndex
<1>1. CASE setKeyPool = {}
  BY <1>1 DEF NextIndex
<1>2. CASE setKeyPool # {}
  <2>1. setKeyPool \subseteq Nat /\ IsFiniteSet(setKeyPool)
    BY DEF TypeOK
  <2>. DEFINE m == Max(setKeyPool)
  <2>2. m \in setKeyPool /\ \A x \in setKeyPool : x <= m
    BY <1>2, <2>1, MaxNat
  <2>3. NextIndex = m + 1
    BY <1>2 DEF NextIndex
  <2>. HIDE DEF m
  <2>4. m \in Nat /\ \A x \in setKeyPool : x \in Nat /\ x < m + 1
    BY <2>1, <2>2
  <2>. QED  BY <2>3, <2>4
<1>. QED  BY <1>1, <1>2

LEMMA MissingType == ASSUME TypeOK PROVE Missing \in Nat
<1>1. Cardinality(setKeyPool) \in Nat
  BY FS_CardinalityType DEF TypeOK
<1>. QED  BY <1>1, SizeAssumption DEF Missing

LEMMA ToppedUpType ==
    ASSUME TypeOK
    PROVE  /\ Indexes(ToppedUp.set) /\ RowsType(ToppedUp.rows, ToppedUp.last)
           /\ lastKey \in Nat /\ ToppedUp.last \in Nat /\ lastKey <= ToppedUp.last
           /\ setKeyPool \subseteq ToppedUp.set
<1>0. Indexes(setKeyPool) /\ RowsType(pool, lastKey) /\ lastKey \in Nat
  BY DEF TypeOK, Indexes, RowsType
<1>1. CASE locked
  <2>1. ToppedUp.set = setKeyPool /\ ToppedUp.rows = pool /\ ToppedUp.last = lastKey
    BY <1>1 DEF ToppedUp
  <2>. QED  BY <1>0, <2>1
<1>2. CASE ~locked
  <2>. DEFINE w == WithKeys(setKeyPool, pool, NextIndex, Missing)
  <2>1. ToppedUp = w
    BY <1>2 DEF ToppedUp
  <2>2. Indexes(w.set) /\ RowsType(w.rows, w.last) /\ w.last = lastKey + Missing
    BY <1>0, NewKeysType, NextIndexAbove, MissingType
  <2>3. setKeyPool \subseteq w.set
    BY DEF WithKeys
  <2>. QED  BY <1>0, <2>1, <2>2, <2>3, MissingType
<1>. QED  BY <1>1, <1>2

-----------------------------------------------------------------------------
(* Type correctness.                                                         *)
LEMMA GrowingKeys ==
    ASSUME TypeOK, NEW last \in Nat, lastKey <= last
    PROVE  /\ held \in [Holder -> [index : Nat, key : 0..last]]
           /\ used \subseteq 1..last /\ flushed \subseteq 1..last
<1>1. 0..lastKey \subseteq 0..last /\ 1..lastKey \subseteq 1..last
  BY DEF TypeOK
<1>. QED  BY <1>1 DEF TypeOK

LEMMA OldestFree ==
    ASSUME TypeOK, ToppedUp.set # {}
    PROVE  /\ Oldest \in ToppedUp.set /\ Oldest \in Nat \ {0}
           /\ \A x \in ToppedUp.set : Oldest <= x
           /\ KeyAt(Oldest) \in 0..ToppedUp.last
           /\ Indexes(ToppedUp.set \ {Oldest})
<1>1. Indexes(ToppedUp.set) /\ RowsType(ToppedUp.rows, ToppedUp.last) /\ ToppedUp.last \in Nat
  BY ToppedUpType
<1>2. Oldest \in ToppedUp.set /\ \A x \in ToppedUp.set : Oldest <= x
  BY <1>1, MinNat DEF Oldest, Indexes
<1>3. KeyAt(Oldest) \in 0..ToppedUp.last
  BY <1>1 DEF KeyAt, RowsType
<1>4. Indexes(ToppedUp.set \ {Oldest})
  BY <1>1, FS_RemoveElement DEF Indexes
<1>. QED  BY <1>1, <1>2, <1>3, <1>4 DEF Indexes

LEMMA EraseType ==
    ASSUME NEW rows, NEW last \in Nat, RowsType(rows, last), NEW i
    PROVE  /\ RowsType(ErasePool(rows, i), last)
           /\ DOMAIN ErasePool(rows, i) = DOMAIN rows \ {i}
           /\ \A j \in DOMAIN rows \ {i} : ErasePool(rows, i)[j] = rows[j]
<1>1. ErasePool(rows, i) = [j \in DOMAIN rows \ {i} |-> rows[j]]
  BY DEF ErasePool, Restrict
<1>2. Indexes(DOMAIN rows \ {i})
  BY FS_RemoveElement DEF RowsType, Indexes
<1>. QED  BY <1>1, <1>2 DEF RowsType

LEMMA DroppedType ==
    ASSUME TypeOK
    PROVE  /\ RowsType(Dropped, lastKey)
           /\ DOMAIN Dropped = DOMAIN pool \ setKeyPool
           /\ \A j \in DOMAIN Dropped : Dropped[j] = pool[j]
<1>1. Dropped = [j \in DOMAIN pool \ setKeyPool |-> pool[j]]
  BY DEF Dropped, Restrict
<1>2. Indexes(DOMAIN pool \ setKeyPool)
  BY FS_Subset DEF TypeOK, Indexes
<1>. QED  BY <1>1, <1>2 DEF RowsType, TypeOK

LEMMA TypeInit == Init => TypeOK
<1>1. IsFiniteSet({}) /\ DOMAIN <<>> = {}
  BY FS_EmptySet
<1>. SUFFICES ASSUME Init PROVE TypeOK
  OBVIOUS
<1>2. pool \in [DOMAIN pool -> 1..lastKey] /\ DOMAIN pool = {}
  BY <1>1 DEF Init
<1>3. held \in [Holder -> [index : Nat, key : 0..lastKey]]
  BY DEF Init, Nothing
<1>. QED  BY <1>1, <1>2, <1>3 DEF Init, TypeOK

LEMMA TypeNext == TypeOK /\ [Next]_vars => TypeOK'
<1>. SUFFICES ASSUME TypeOK, [Next]_vars PROVE TypeOK'
  OBVIOUS
<1>0. Nothing \in [index : Nat, key : 0..lastKey]
  BY DEF TypeOK, Nothing
<1>1. CASE TopUpKeyPool
  <2>. DEFINE last == ToppedUp.last
  <2>1. setKeyPool' = ToppedUp.set /\ pool' = ToppedUp.rows /\ lastKey' = last
        /\ UNCHANGED <<held, crypted, locked, used, usedAgain, flushed>>
        /\ collided' \in BOOLEAN
    BY <1>1 DEF TopUpKeyPool, TypeOK, Collides
  <2>2. Indexes(ToppedUp.set) /\ RowsType(ToppedUp.rows, last) /\ last \in Nat /\ lastKey <= last
    BY ToppedUpType
  <2>. HIDE DEF last
  <2>. QED  BY <2>1, <2>2, GrowingKeys DEF TypeOK, Indexes, RowsType
<1>2. ASSUME NEW h \in Holder, GetReservedKey(h) PROVE TypeOK'
  <2>. DEFINE last == ToppedUp.last
  <2>1. /\ ToppedUp.set # {} /\ setKeyPool' = ToppedUp.set \ {Oldest}
        /\ pool' = ToppedUp.rows /\ lastKey' = last
        /\ held' = [held EXCEPT ![h] = [index |-> Oldest, key |-> KeyAt(Oldest)]]
        /\ UNCHANGED <<crypted, locked, used, usedAgain, flushed>>
        /\ collided' \in BOOLEAN
    BY <1>2 DEF GetReservedKey, ReserveKeyFromKeyPool, TypeOK, Collides
  <2>2. RowsType(ToppedUp.rows, last) /\ last \in Nat /\ lastKey <= last
    BY ToppedUpType
  <2>3. Oldest \in Nat /\ KeyAt(Oldest) \in 0..last /\ Indexes(ToppedUp.set \ {Oldest})
    BY <2>1, OldestFree
  <2>. HIDE DEF last
  <2>. QED  BY <2>1, <2>2, <2>3, GrowingKeys DEF TypeOK, Indexes, RowsType
<1>3. ASSUME NEW h \in Holder, KeepKey(h) PROVE TypeOK'
  <2>. DEFINE i == held[h].index
              k == held[h].key
  <2>1. /\ k # 0 /\ pool' = ErasePool(pool, i)
        /\ used' = used \cup {k} /\ usedAgain' = usedAgain \cup ({k} \cap used)
        /\ held' = [held EXCEPT ![h] = Nothing]
        /\ UNCHANGED <<setKeyPool, lastKey, crypted, locked, flushed, collided>>
    BY <1>3 DEF KeepKey, Use
  <2>2. k \in 0..lastKey /\ lastKey \in Nat /\ RowsType(pool, lastKey)
    BY DEF TypeOK, RowsType, Indexes
  <2>. HIDE DEF i, k
  <2>3. RowsType(pool', lastKey)
    BY <2>1, <2>2, EraseType
  <2>4. used' \subseteq 1..lastKey /\ usedAgain' \subseteq used'
    BY <2>1, <2>2 DEF TypeOK
  <2>. QED  BY <1>0, <2>1, <2>3, <2>4 DEF TypeOK, Indexes, RowsType
<1>4. ASSUME NEW h \in Holder, ReturnKey(h) PROVE TypeOK'
  <2>. DEFINE i == held[h].index
  <2>1. /\ i # 0 /\ setKeyPool' = setKeyPool \cup {i}
        /\ held' = [held EXCEPT ![h] = Nothing]
        /\ UNCHANGED <<pool, lastKey, crypted, locked, history>>
    BY <1>4 DEF ReturnKey
  <2>2. i \in Nat
    BY DEF TypeOK
  <2>. HIDE DEF i
  <2>3. IsFiniteSet(setKeyPool \cup {i})
    BY FS_AddElement DEF TypeOK
  <2>. QED  BY <1>0, <2>1, <2>2, <2>3 DEF TypeOK, history
<1>5. CASE GetKeyFromPool
  <2>. DEFINE last == ToppedUp.last
              k == KeyAt(Oldest)
  <2>1. /\ ToppedUp.set # {} /\ setKeyPool' = ToppedUp.set \ {Oldest}
        /\ k # 0 /\ pool' = ErasePool(ToppedUp.rows, Oldest) /\ lastKey' = last
        /\ used' = used \cup {k} /\ usedAgain' = usedAgain \cup ({k} \cap used)
        /\ UNCHANGED <<held, crypted, locked, flushed>>
        /\ collided' \in BOOLEAN
    BY <1>5 DEF GetKeyFromPool, ReserveKeyFromKeyPool, Use, TypeOK, Collides
  <2>2. RowsType(ToppedUp.rows, last) /\ last \in Nat /\ lastKey <= last
    BY ToppedUpType
  <2>3. k \in 0..last /\ Indexes(ToppedUp.set \ {Oldest})
    BY <2>1, OldestFree
  <2>. HIDE DEF last, k
  <2>4. RowsType(pool', last)
    BY <2>1, <2>2, EraseType
  <2>5. used' \subseteq 1..last /\ usedAgain' \subseteq used'
    BY <2>1, <2>2, <2>3, GrowingKeys DEF TypeOK
  <2>. QED  BY <2>1, <2>2, <2>3, <2>4, <2>5, GrowingKeys DEF TypeOK, Indexes, RowsType
<1>6. CASE EncryptWallet
  <2>. DEFINE w == WithKeys({}, Dropped, 1, TargetSize)
  <2>1. /\ setKeyPool' = w.set /\ pool' = w.rows /\ lastKey' = w.last
        /\ flushed' = flushed \cup {pool[i] : i \in setKeyPool \cap DOMAIN pool}
        /\ crypted' = TRUE /\ locked' = TRUE
        /\ UNCHANGED <<held, used, usedAgain>>
        /\ collided' \in BOOLEAN
    BY <1>6 DEF EncryptWallet, NewKeyPool, TypeOK
  <2>2. Indexes(w.set) /\ RowsType(w.rows, w.last) /\ w.last = lastKey + TargetSize /\ lastKey \in Nat
    <3>1. Indexes({})
      BY FS_EmptySet DEF Indexes
    <3>. QED  BY <3>1, SizeAssumption, DroppedType, NewKeysType, SMTT(30)
  <2>. HIDE DEF w
  <2>3. w.last \in Nat /\ lastKey <= w.last
    BY <2>2, SizeAssumption
  <2>4. flushed' \subseteq 1..w.last
    <3>1. \A i \in DOMAIN pool : pool[i] \in 1..lastKey
      BY DEF TypeOK
    <3>. QED  BY <2>1, <2>2, <2>3, <3>1, GrowingKeys
  <2>. QED  BY <2>1, <2>2, <2>3, <2>4, GrowingKeys DEF TypeOK, Indexes, RowsType
<1>7. CASE Unlock \/ Lock \/ UNCHANGED vars
  BY <1>7 DEF Unlock, Lock, TypeOK, vars, wallet, history
<1>8. CASE Restart
  <2>1. held' \in [Holder -> [index : Nat, key : 0..lastKey]]
    BY <1>0, <1>8 DEF Restart
  <2>. QED  BY <1>8, <2>1 DEF Restart, TypeOK, history
<1>. QED
  BY <1>1, <1>2, <1>3, <1>4, <1>5, <1>6, <1>7, <1>8 DEF Next

(* Keys are never invented, indexes start at 1.                              *)
THEOREM TypeCorrect == Spec => []TypeOK
BY TypeInit, TypeNext, PTL DEF Spec

-----------------------------------------------------------------------------
(* The rows of the file, the free indexes and the taken ones, as long as no  *)
(* indexes have collided: each key that was generated is in one row or gone. *)
Exact(set, rows, taken, last, gone) ==
    /\ DOMAIN rows = set \cup taken
    /\ set \cap taken = {}
    /\ \A i, j \in DOMAIN rows : rows[i] = rows[j] => i = j
    /\ \A i \in DOMAIN rows : rows[i] \notin gone
    /\ \A k \in 1..last : k \in gone \/ \E i \in DOMAIN rows : rows[i] = k

HeldInv ==
    /\ \A h \in Holder : held[h].index # 0 => held[h].key = pool[held[h].index]
    /\ \A g, h \in Holder : g # h /\ held[h].index # 0 => held[g].index # held[h].index

ExactInv ==
    ~collided =>
        /\ usedAgain = {}
        /\ HeldInv
        /\ Exact(setKeyPool, pool, HeldIndexes, lastKey, used \cup flushed)

(* Nobody holds the index 0.                                                 *)
EmptyInv == \A h \in Holder : held[h].index = 0 => held[h].key = 0

(* In a wallet that is not encrypted, above every index that is held there   *)
(* is a free one; so the new indexes, above all free ones, are new.          *)
YoungInv ==
    ~crypted =>
        /\ ~locked
        /\ flushed = {}
        /\ TargetSize # 0 =>
              /\ ~collided
              /\ \A i \in HeldIndexes : \E j \in setKeyPool : i < j

(* No key that was dropped is in a row or held.  The indexes may collide     *)
(* after a wallet is encrypted; this remains.                                *)
FlushInv ==
    TargetSize # 0 =>
        /\ \A i \in DOMAIN pool : pool[i] \notin flushed
        /\ \A h \in Holder : held[h].key \notin flushed

Inv == TypeOK /\ EmptyInv /\ ExactInv /\ YoungInv /\ FlushInv

LEMMA PropertiesFromInv == Inv => KeyExclusive /\ RowsExact /\ FlushedKeysStay
<1>. SUFFICES ASSUME Inv PROVE KeyExclusive /\ RowsExact /\ FlushedKeysStay
  OBVIOUS
<1>1. collided => crypted \/ TargetSize = 0
  BY DEF Inv, YoungInv
<1>2. ASSUME ~collided, NEW h \in Holder, held[h].index # 0
      PROVE  /\ held[h].key \notin used
             /\ held[h].index \notin setKeyPool
             /\ \A g \in Holder : g # h => held[g].key # held[h].key
  <2>1. held[h].index \in HeldIndexes
    BY <1>2 DEF HeldIndexes
  <2>2. held[h].index \in DOMAIN pool /\ held[h].index \notin setKeyPool
    BY <1>2, <2>1 DEF Inv, ExactInv, Exact
  <2>3. held[h].key = pool[held[h].index]
    BY <1>2 DEF Inv, ExactInv, HeldInv
  <2>4. held[h].key \notin used /\ held[h].key \in 1..lastKey
    BY <1>2, <2>2, <2>3 DEF Inv, ExactInv, Exact, TypeOK
  <2>5. ASSUME NEW g \in Holder, g # h PROVE held[g].key # held[h].key
    <3>1. CASE held[g].index = 0
      BY <2>4, <3>1 DEF Inv, EmptyInv, TypeOK
    <3>2. CASE held[g].index # 0
      <4>1. held[g].index \in HeldIndexes /\ held[g].index # held[h].index
        BY <1>2, <2>5, <3>2 DEF HeldIndexes, Inv, ExactInv, HeldInv
      <4>2. held[g].index \in DOMAIN pool /\ held[g].key = pool[held[g].index]
        BY <1>2, <3>2, <4>1 DEF Inv, ExactInv, Exact, HeldInv
      <4>. QED  BY <1>2, <2>2, <2>3, <4>1, <4>2 DEF Inv, ExactInv, Exact
    <3>. QED  BY <3>1, <3>2
  <2>. QED  BY <2>2, <2>4, <2>5
<1>3. KeyExclusive
  BY <1>1, <1>2 DEF KeyExclusive, Inv, ExactInv
<1>4. RowsExact
  BY DEF RowsExact, Inv, ExactInv, Exact, HeldInv
<1>5. FlushedKeysStay
  BY SizeAssumption DEF FlushedKeysStay, Inv, FlushInv
<1>. QED  BY <1>3, <1>4, <1>5

LEMMA InvInit == Init => Inv
<1>. SUFFICES ASSUME Init PROVE Inv
  OBVIOUS
<1>1. \A h \in Holder : held[h].index = 0 /\ held[h].key = 0
  BY DEF Init, Nothing
<1>2. HeldIndexes = {} /\ DOMAIN pool = {}
  BY <1>1 DEF HeldIndexes, Init
<1>3. ExactInv
  BY <1>1, <1>2 DEF Init, ExactInv, HeldInv, Exact
<1>. QED  BY <1>1, <1>2, <1>3, TypeInit DEF Init, Inv, EmptyInv, YoungInv, FlushInv

-----------------------------------------------------------------------------
(* New rows for indexes that nobody has.                                     *)
Unused(first, n, set, taken) == (first .. first + n - 1) \cap (set \cup taken) = {}

LEMMA NewKeysExact ==
    ASSUME TypeOK, NEW set, NEW rows, RowsType(rows, lastKey),
           NEW taken, NEW gone, gone \subseteq 1..lastKey,
           Exact(set, rows, taken, lastKey, gone),
           NEW first \in Nat \ {0}, NEW n \in Nat,
           Unused(first, n, set, taken)
    PROVE  LET w == WithKeys(set, rows, first, n) IN
           /\ Exact(w.set, w.rows, taken, w.last, gone)
           /\ \A i \in taken : w.rows[i] = rows[i]
<1>. DEFINE new == first .. first + n - 1
            w == WithKeys(set, rows, first, n)
<1>0. lastKey \in Nat
  BY DEF TypeOK
<1>1. /\ w.set = set \cup new /\ w.last = lastKey + n
      /\ w.rows = [i \in DOMAIN rows \cup new |->
                     IF i \in new THEN lastKey + 1 + (i - first) ELSE rows[i]]
  BY DEF WithKeys
<1>2. DOMAIN rows = set \cup taken /\ new \cap DOMAIN rows = {}
  BY DEF Exact, Unused
<1>3. \A i \in DOMAIN rows : w.rows[i] = rows[i] /\ rows[i] \in 1..lastKey
  BY <1>1, <1>2 DEF RowsType
<1>4. \A i \in new : w.rows[i] = lastKey + 1 + (i - first) /\ i \in Nat
  BY <1>1
<1>5. DOMAIN w.rows = DOMAIN rows \cup new
  BY <1>1
<1>. HIDE DEF w
<1>6. ASSUME NEW i \in DOMAIN w.rows, NEW j \in DOMAIN w.rows, w.rows[i] = w.rows[j]
      PROVE  i = j
  <2>1. CASE i \in new /\ j \in new
    BY <1>0, <1>4, <1>6, <2>1
  <2>2. CASE i \in DOMAIN rows /\ j \in DOMAIN rows
    BY <1>3, <1>6, <2>2 DEF Exact
  <2>3. CASE i \in new /\ j \in DOMAIN rows
    BY <1>0, <1>3, <1>4, <1>6, <2>3
  <2>4. CASE i \in DOMAIN rows /\ j \in new
    BY <1>0, <1>3, <1>4, <1>6, <2>4
  <2>. QED  BY <1>5, <2>1, <2>2, <2>3, <2>4
<1>7. ASSUME NEW i \in DOMAIN w.rows PROVE w.rows[i] \notin gone
  <2>1. CASE i \in new
    BY <1>0, <1>4, <2>1
  <2>2. CASE i \in DOMAIN rows
    BY <1>3, <2>2 DEF Exact
  <2>. QED  BY <1>5, <2>1, <2>2
<1>8. ASSUME NEW k \in 1..w.last PROVE k \in gone \/ \E i \in DOMAIN w.rows : w.rows[i] = k
  <2>1. CASE k <= lastKey
    <3>1. k \in 1..lastKey
      BY <2>1, <1>0, <1>1
    <3>. QED  BY <3>1, <1>3, <1>5 DEF Exact
  <2>2. CASE k > lastKey
    <3>. DEFINE i == first + (k - lastKey - 1)
    <3>1. i \in new /\ lastKey + 1 + (i - first) = k
      BY <1>0, <1>1, <2>2
    <3>. HIDE DEF i
    <3>. QED  BY <3>1, <1>4, <1>5
  <2>3. k \in Nat
    <3>1. 1..w.last \subseteq Nat
      BY <1>0, <1>1
    <3>. QED  BY <3>1
  <2>4. k <= lastKey \/ k > lastKey
    BY <1>0, <2>3
  <2>. QED  BY <2>1, <2>2, <2>4
<1>9. w.set \cap taken = {} /\ DOMAIN w.rows = w.set \cup taken
  BY <1>1, <1>2, <1>5 DEF Exact
<1>10. \A i \in taken : w.rows[i] = rows[i]
  BY <1>2, <1>3
<1>. QED  BY <1>6, <1>7, <1>8, <1>9, <1>10 DEF Exact, w

LEMMA ToppedUpExact ==
    ASSUME Inv, ~collided, ~Collides
    PROVE  /\ Exact(ToppedUp.set, ToppedUp.rows, HeldIndexes, ToppedUp.last, used \cup flushed)
           /\ \A i \in HeldIndexes : ToppedUp.rows[i] = pool[i]
<1>1. Exact(setKeyPool, pool, HeldIndexes, lastKey, used \cup flushed)
  BY DEF Inv, ExactInv
<1>2. CASE locked
  <2>1. ToppedUp.set = setKeyPool /\ ToppedUp.rows = pool /\ ToppedUp.last = lastKey
    BY <1>2 DEF ToppedUp
  <2>. QED  BY <1>1, <2>1
<1>3. CASE ~locked
  <2>. DEFINE w == WithKeys(setKeyPool, pool, NextIndex, Missing)
  <2>1. ToppedUp = w
    BY <1>3 DEF ToppedUp
  <2>2. TypeOK /\ RowsType(pool, lastKey) /\ used \cup flushed \subseteq 1..lastKey
    BY DEF Inv, TypeOK, RowsType, Indexes
  <2>3. NextIndex \in Nat \ {0} /\ Missing \in Nat /\ \A i \in setKeyPool : i < NextIndex
    BY <2>2, NextIndexAbove, MissingType
  <2>4. Unused(NextIndex, Missing, setKeyPool, HeldIndexes)
    <3>1. (NextIndex .. NextIndex + Missing - 1) \cap HeldIndexes = {}
      BY <1>3 DEF Collides
    <3>2. setKeyPool \subseteq Nat
      BY <2>2 DEF TypeOK
    <3>. QED  BY <2>3, <3>1, <3>2 DEF Unused
  <2>5. /\ Exact(w.set, w.rows, HeldIndexes, w.last, used \cup flushed)
        /\ \A i \in HeldIndexes : w.rows[i] = pool[i]
    BY <1>1, <2>2, <2>3, <2>4, NewKeysExact
  <2>. QED  BY <2>1, <2>5
<1>. QED  BY <1>2, <1>3

(* A row is taken, given back, or erased.                                    *)
LEMMA ExactTake ==
    ASSUME NEW set, NEW rows, NEW taken, NEW last, NEW gone,
           Exact(set, rows, taken, last, gone), NEW i \in set
    PROVE  Exact(set \ {i}, rows, taken \cup {i}, last, gone)
BY DEF Exact

LEMMA ExactReturn ==
    ASSUME NEW set, NEW rows, NEW taken, NEW last, NEW gone,
           Exact(set, rows, taken, last, gone), NEW i \in taken
    PROVE  Exact(set \cup {i}, rows, taken \ {i}, last, gone)
BY DEF Exact

LEMMA ExactErase ==
    ASSUME NEW set, NEW rows, NEW taken, NEW last \in Nat, NEW gone, RowsType(rows, last),
           Exact(set, rows, taken, last, gone), NEW i \in set \cup taken
    PROVE  Exact(set \ {i}, ErasePool(rows, i), taken \ {i}, last, gone \cup {rows[i]})
<1>. DEFINE r == ErasePool(rows, i)
<1>1. DOMAIN r = DOMAIN rows \ {i} /\ \A j \in DOMAIN rows \ {i} : r[j] = rows[j]
  BY EraseType
<1>. HIDE DEF r
<1>2. DOMAIN r = (set \ {i}) \cup (taken \ {i}) /\ (set \ {i}) \cap (taken \ {i}) = {}
  BY <1>1 DEF Exact
<1>3. \A j, k \in DOMAIN r : r[j] = r[k] => j = k
  BY <1>1 DEF Exact
<1>4. \A j \in DOMAIN r : r[j] \notin gone \cup {rows[i]}
  BY <1>1 DEF Exact
<1>5. \A k \in 1..last : k \in gone \cup {rows[i]} \/ \E j \in DOMAIN r : r[j] = k
  BY <1>1 DEF Exact
<1>. QED  BY <1>2, <1>3, <1>4, <1>5 DEF Exact, r

(* The indexes that are held.                                                *)
LEMMA HeldTake ==
    ASSUME TypeOK, NEW h \in Holder, held[h].index = 0, NEW i, i # 0, NEW k,
           held' = [held EXCEPT ![h] = [index |-> i, key |-> k]]
    PROVE  HeldIndexes' = HeldIndexes \cup {i}
<1>1. /\ held'[h].index = i /\ held'[h].key = k
      /\ \A g \in Holder : g # h => held'[g] = held[g]
  BY DEF TypeOK
<1>. QED  BY <1>1 DEF HeldIndexes

LEMMA HeldRelease ==
    ASSUME TypeOK, NEW h \in Holder, held' = [held EXCEPT ![h] = Nothing]
    PROVE  /\ HeldIndexes' \subseteq HeldIndexes
           /\ HeldInv => HeldIndexes' = HeldIndexes \ {held[h].index}
           /\ \A g \in Holder : held'[g] = Nothing \/ (held'[g] = held[g] /\ g # h)
<1>1. /\ held'[h].index = 0
      /\ held'[h] = Nothing
      /\ \A g \in Holder : g # h => held'[g] = held[g]
  BY DEF TypeOK, Nothing
<1>. QED  BY <1>1 DEF HeldIndexes, HeldInv

LEMMA EmptyNext == TypeOK /\ EmptyInv /\ [Next]_vars => EmptyInv'
<1>. SUFFICES ASSUME TypeOK, EmptyInv, [Next]_vars PROVE EmptyInv'
  OBVIOUS
<1>1. ASSUME NEW h \in Holder, GetReservedKey(h) PROVE EmptyInv'
  <2>1. held' = [held EXCEPT ![h] = [index |-> Oldest, key |-> KeyAt(Oldest)]]
        /\ Oldest # 0
    BY <1>1, OldestFree DEF GetReservedKey, ReserveKeyFromKeyPool
  <2>2. held'[h].index # 0 /\ \A g \in Holder : g # h => held'[g] = held[g]
    BY <2>1 DEF TypeOK
  <2>. QED  BY <2>2 DEF EmptyInv
<1>2. ASSUME NEW h \in Holder, held' = [held EXCEPT ![h] = Nothing] PROVE EmptyInv'
  <2>1. \A g \in Holder : held'[g] = Nothing \/ held'[g] = held[g]
    BY <1>2, HeldRelease
  <2>. QED  BY <2>1 DEF EmptyInv, Nothing
<1>3. CASE Restart
  BY <1>3 DEF Restart, EmptyInv, Nothing
<1>4. CASE UNCHANGED held
  BY <1>4 DEF EmptyInv
<1>. QED
  BY <1>1, <1>2, <1>3, <1>4
     DEF Next, TopUpKeyPool, KeepKey, ReturnKey, GetKeyFromPool, EncryptWallet, Unlock, Lock, vars

(* The rows after EncryptWallet has dropped the free ones.                   *)
LEMMA DroppedExact ==
    ASSUME Inv, ~collided
    PROVE  Exact({}, Dropped, HeldIndexes, lastKey,
                 used \cup (flushed \cup {pool[i] : i \in setKeyPool \cap DOMAIN pool}))
<1>. DEFINE f == flushed \cup {pool[i] : i \in setKeyPool \cap DOMAIN pool}
<1>1. Exact(setKeyPool, pool, HeldIndexes, lastKey, used \cup flushed)
  BY DEF Inv, ExactInv
<1>2. DOMAIN Dropped = DOMAIN pool \ setKeyPool /\ \A j \in DOMAIN Dropped : Dropped[j] = pool[j]
  BY DroppedType DEF Inv
<1>3. DOMAIN Dropped = HeldIndexes
  BY <1>1, <1>2 DEF Exact
<1>4. \A i, j \in DOMAIN Dropped : Dropped[i] = Dropped[j] => i = j
  BY <1>1, <1>2 DEF Exact
<1>5. \A i \in DOMAIN Dropped : Dropped[i] \notin used \cup f
  BY <1>1, <1>2 DEF Exact
<1>6. \A k \in 1..lastKey : k \in used \cup f \/ \E i \in DOMAIN Dropped : Dropped[i] = k
  BY <1>1, <1>2 DEF Exact
<1>. HIDE DEF f
<1>7. Exact({}, Dropped, HeldIndexes, lastKey, used \cup f)
  BY <1>3, <1>4, <1>5, <1>6 DEF Exact
<1>. QED  BY <1>7 DEF f

LEMMA ExactNext == Inv /\ [Next]_vars => ExactInv'
<1>. SUFFICES ASSUME Inv, [Next]_vars, ~collided'
              PROVE  usedAgain' = {} /\ HeldInv'
                     /\ Exact(setKeyPool, pool, HeldIndexes, lastKey, used \cup flushed)'
  BY DEF ExactInv
<1>. DEFINE gone == used \cup flushed
<1>0. ~collided
  BY DEF Next, TopUpKeyPool, GetReservedKey, ReserveKeyFromKeyPool, KeepKey, ReturnKey,
         GetKeyFromPool, EncryptWallet, NewKeyPool, Unlock, Lock, Restart, vars, history
<1>. usedAgain = {} /\ HeldInv /\ Exact(setKeyPool, pool, HeldIndexes, lastKey, gone) /\ TypeOK
  BY <1>0 DEF Inv, ExactInv
<1>a. \A h \in Holder : held[h].index # 0 => held[h].index \in HeldIndexes
  BY DEF HeldIndexes
<1>b. HeldIndexes \subseteq DOMAIN pool
  BY DEF Exact
<1>1. CASE TopUpKeyPool
  <2>1. /\ setKeyPool' = ToppedUp.set /\ pool' = ToppedUp.rows /\ lastKey' = ToppedUp.last
        /\ ~Collides /\ UNCHANGED <<held, used, usedAgain, flushed>>
    BY <1>1 DEF TopUpKeyPool
  <2>2. HeldIndexes' = HeldIndexes
    BY <2>1 DEF HeldIndexes
  <2>3. /\ Exact(ToppedUp.set, ToppedUp.rows, HeldIndexes, ToppedUp.last, gone)
        /\ \A i \in HeldIndexes : ToppedUp.rows[i] = pool[i]
    BY <1>0, <2>1, ToppedUpExact
  <2>4. HeldInv'
    BY <2>1, <2>3, <1>a DEF HeldInv
  <2>5. Exact(setKeyPool, pool, HeldIndexes, lastKey, used \cup flushed)'
    BY <2>1, <2>2, <2>3 DEF Exact
  <2>. QED  BY <2>1, <2>4, <2>5
<1>2. ASSUME NEW h \in Holder, GetReservedKey(h)
      PROVE  usedAgain' = {} /\ HeldInv'
             /\ Exact(setKeyPool, pool, HeldIndexes, lastKey, used \cup flushed)'
  <2>1. /\ ToppedUp.set # {} /\ setKeyPool' = ToppedUp.set \ {Oldest}
        /\ pool' = ToppedUp.rows /\ lastKey' = ToppedUp.last
        /\ held[h].index = 0 /\ ~Collides
        /\ held' = [held EXCEPT ![h] = [index |-> Oldest, key |-> KeyAt(Oldest)]]
        /\ UNCHANGED <<used, usedAgain, flushed>>
    BY <1>2 DEF GetReservedKey, ReserveKeyFromKeyPool
  <2>2. Oldest \in ToppedUp.set /\ Oldest # 0
    BY <2>1, OldestFree
  <2>3. /\ Exact(ToppedUp.set, ToppedUp.rows, HeldIndexes, ToppedUp.last, gone)
        /\ \A i \in HeldIndexes : ToppedUp.rows[i] = pool[i]
    BY <1>0, <2>1, ToppedUpExact
  <2>4. Exact(ToppedUp.set \ {Oldest}, ToppedUp.rows, HeldIndexes \cup {Oldest},
              ToppedUp.last, gone)
    BY <2>2, <2>3, ExactTake
  <2>5. HeldIndexes' = HeldIndexes \cup {Oldest}
    BY <2>1, <2>2, HeldTake
  <2>6. /\ held'[h].index = Oldest /\ held'[h].key = KeyAt(Oldest)
        /\ \A g \in Holder : g # h => held'[g] = held[g]
    BY <2>1 DEF TypeOK
  <2>7. KeyAt(Oldest) = pool'[Oldest] /\ Oldest \notin HeldIndexes
    BY <2>1, <2>2, <2>3 DEF KeyAt, Exact
  <2>8. HeldInv'
    <3>1. ASSUME NEW g \in Holder, held'[g].index # 0 PROVE held'[g].key = pool'[held'[g].index]
      BY <3>1, <2>1, <2>3, <2>6, <2>7, <1>a DEF HeldInv
    <3>2. ASSUME NEW f \in Holder, NEW g \in Holder, f # g, held'[g].index # 0
          PROVE  held'[f].index # held'[g].index
      <4>1. CASE f # h /\ g # h
        BY <3>2, <4>1, <2>6 DEF HeldInv
      <4>2. CASE f = h
        BY <3>2, <4>2, <2>6, <2>7, <1>a
      <4>3. CASE g = h
        BY <3>2, <4>3, <2>2, <2>6, <2>7, <1>a
      <4>. QED  BY <4>1, <4>2, <4>3
    <3>. QED  BY <3>1, <3>2 DEF HeldInv
  <2>9. Exact(setKeyPool, pool, HeldIndexes, lastKey, used \cup flushed)'
    BY <2>1, <2>4, <2>5 DEF Exact
  <2>. QED  BY <2>1, <2>8, <2>9
<1>3. ASSUME NEW h \in Holder, KeepKey(h)
      PROVE  usedAgain' = {} /\ HeldInv'
             /\ Exact(setKeyPool, pool, HeldIndexes, lastKey, used \cup flushed)'
  <2>. DEFINE i == held[h].index
              k == held[h].key
  <2>1. /\ k # 0 /\ pool' = ErasePool(pool, i)
        /\ used' = used \cup {k} /\ usedAgain' = usedAgain \cup ({k} \cap used)
        /\ held' = [held EXCEPT ![h] = Nothing]
        /\ UNCHANGED <<setKeyPool, lastKey, flushed>>
    BY <1>3 DEF KeepKey, Use
  <2>2. i # 0 /\ i \in HeldIndexes /\ k = pool[i] /\ lastKey \in Nat
    BY <2>1, <1>a DEF Inv, EmptyInv, HeldInv, TypeOK
  <2>3. HeldIndexes' = HeldIndexes \ {i}
        /\ \A g \in Holder : held'[g] = Nothing \/ (held'[g] = held[g] /\ g # h)
    BY <2>1, HeldRelease
  <2>4. \A g \in Holder : g # h => held[g].index # i
    BY <2>2 DEF HeldInv
  <2>. HIDE DEF i, k
  <2>5. RowsType(pool, lastKey)
    BY DEF TypeOK, RowsType, Indexes
  <2>6. Exact(setKeyPool \ {i}, ErasePool(pool, i), HeldIndexes \ {i}, lastKey, gone \cup {pool[i]})
    BY <2>2, <2>5, ExactErase
  <2>7. setKeyPool \ {i} = setKeyPool /\ k \notin used
    BY <2>2 DEF Exact
  <2>8. used' \cup flushed' = gone \cup {pool[i]}
    BY <2>1, <2>2
  <2>9. Exact(setKeyPool, pool, HeldIndexes, lastKey, used \cup flushed)'
    BY <2>1, <2>3, <2>6, <2>7, <2>8 DEF Exact
  <2>10. HeldInv'
    <3>1. \A j \in DOMAIN pool \ {i} : pool'[j] = pool[j]
      BY <2>1, <2>2, <2>5, EraseType
    <3>2. ASSUME NEW g \in Holder, held'[g].index # 0 PROVE held'[g].key = pool'[held'[g].index]
      BY <3>1, <3>2, <2>3, <2>4, <1>a, <1>b DEF HeldInv, Nothing
    <3>3. ASSUME NEW f \in Holder, NEW g \in Holder, f # g, held'[g].index # 0
          PROVE  held'[f].index # held'[g].index
      BY <3>3, <2>3 DEF HeldInv, Nothing
    <3>. QED  BY <3>2, <3>3 DEF HeldInv
  <2>. QED  BY <2>1, <2>7, <2>9, <2>10
<1>4. ASSUME NEW h \in Holder, ReturnKey(h)
      PROVE  usedAgain' = {} /\ HeldInv'
             /\ Exact(setKeyPool, pool, HeldIndexes, lastKey, used \cup flushed)'
  <2>. DEFINE i == held[h].index
  <2>1. /\ i # 0 /\ setKeyPool' = setKeyPool \cup {i}
        /\ held' = [held EXCEPT ![h] = Nothing]
        /\ UNCHANGED <<pool, lastKey, used, usedAgain, flushed>>
    BY <1>4 DEF ReturnKey, history
  <2>2. i \in HeldIndexes
    BY <2>1, <1>a
  <2>3. HeldIndexes' = HeldIndexes \ {i}
        /\ \A g \in Holder : held'[g] = Nothing \/ (held'[g] = held[g] /\ g # h)
    BY <2>1, HeldRelease
  <2>. HIDE DEF i
  <2>4. Exact(setKeyPool \cup {i}, pool, HeldIndexes \ {i}, lastKey, gone)
    BY <2>2, ExactReturn
  <2>5. Exact(setKeyPool, pool, HeldIndexes, lastKey, used \cup flushed)'
    BY <2>1, <2>3, <2>4 DEF Exact
  <2>6. HeldInv'
    BY <2>1, <2>3 DEF HeldInv, Nothing
  <2>. QED  BY <2>1, <2>5, <2>6
<1>5. CASE GetKeyFromPool
  <2>. DEFINE k == KeyAt(Oldest)
              rows == ToppedUp.rows
              set == ToppedUp.set
              last == ToppedUp.last
              o == Oldest
  <2>1. /\ set # {} /\ setKeyPool' = set \ {o} /\ ~Collides
        /\ pool' = ErasePool(rows, o) /\ lastKey' = last
        /\ used' = used \cup {k} /\ usedAgain' = usedAgain \cup ({k} \cap used)
        /\ UNCHANGED <<held, flushed>>
    BY <1>5 DEF GetKeyFromPool, ReserveKeyFromKeyPool, Use
  <2>2. o \in set
    BY <2>1, OldestFree
  <2>3. Exact(set, rows, HeldIndexes, last, gone) /\ \A i \in HeldIndexes : rows[i] = pool[i]
    BY <1>0, <2>1, ToppedUpExact
  <2>4. RowsType(rows, last) /\ last \in Nat
    BY ToppedUpType
  <2>5. k = rows[o] /\ k \notin used /\ o \notin HeldIndexes
    BY <2>2, <2>3 DEF KeyAt, Exact
  <2>6. HeldIndexes' = HeldIndexes
    BY <2>1 DEF HeldIndexes
  <2>. HIDE DEF k, rows, set, last, o
  <2>7. Exact(set \ {o}, ErasePool(rows, o), HeldIndexes \ {o}, last, gone \cup {rows[o]})
    BY <2>2, <2>3, <2>4, ExactErase
  <2>8. HeldIndexes \ {o} = HeldIndexes /\ used' \cup flushed' = gone \cup {rows[o]}
    BY <2>1, <2>5
  <2>9. Exact(setKeyPool, pool, HeldIndexes, lastKey, used \cup flushed)'
    BY <2>1, <2>6, <2>7, <2>8 DEF Exact
  <2>10. HeldInv'
    <3>1. \A j \in DOMAIN rows \ {o} : pool'[j] = rows[j]
      BY <2>1, <2>4, EraseType
    <3>2. \A j \in HeldIndexes : j \in DOMAIN rows \ {o}
      BY <2>3, <2>5 DEF Exact
    <3>3. \A j \in HeldIndexes : pool'[j] = pool[j]
      BY <3>1, <3>2, <2>3
    <3>. QED  BY <3>3, <2>1, <1>a DEF HeldInv
  <2>. QED  BY <2>1, <2>5, <2>9, <2>10
<1>6. CASE EncryptWallet
  <2>. DEFINE w == WithKeys({}, Dropped, 1, TargetSize)
              f == flushed \cup {pool[i] : i \in setKeyPool \cap DOMAIN pool}
  <2>1. /\ setKeyPool' = w.set /\ pool' = w.rows /\ lastKey' = w.last
        /\ flushed' = f /\ UNCHANGED <<held, used, usedAgain>>
        /\ 1..TargetSize \cap HeldIndexes = {}
    BY <1>6 DEF EncryptWallet, NewKeyPool
  <2>2. Exact({}, Dropped, HeldIndexes, lastKey, used \cup f)
    BY <1>0, DroppedExact
  <2>3. used \cup f \subseteq 1..lastKey
    BY DEF TypeOK
  <2>4. RowsType(Dropped, lastKey) /\ \A i \in HeldIndexes : Dropped[i] = pool[i]
    BY <2>2, DroppedType DEF Exact
  <2>5. Unused(1, TargetSize, {}, HeldIndexes)
    BY <2>1, SizeAssumption DEF Unused
  <2>. HIDE DEF f
  <2>6. /\ Exact(w.set, w.rows, HeldIndexes, w.last, used \cup f)
        /\ \A i \in HeldIndexes : w.rows[i] = Dropped[i]
    BY <2>2, <2>3, <2>4, <2>5, SizeAssumption, NewKeysExact
  <2>7. HeldIndexes' = HeldIndexes
    BY <2>1 DEF HeldIndexes
  <2>. HIDE DEF w
  <2>8. Exact(setKeyPool, pool, HeldIndexes, lastKey, used \cup flushed)'
    BY <2>1, <2>6, <2>7 DEF Exact
  <2>9. HeldInv'
    BY <2>1, <2>4, <2>6, <1>a DEF HeldInv
  <2>. QED  BY <2>1, <2>8, <2>9
<1>7. CASE Unlock \/ Lock \/ UNCHANGED vars
  <2>1. UNCHANGED <<setKeyPool, pool, lastKey, held, used, usedAgain, flushed>>
    BY <1>7 DEF Unlock, Lock, vars, wallet, history
  <2>2. HeldIndexes' = HeldIndexes
    BY <2>1 DEF HeldIndexes
  <2>. QED  BY <2>1, <2>2 DEF HeldInv, Exact
<1>8. CASE Restart
  <2>1. /\ setKeyPool' = DOMAIN pool /\ \A h \in Holder : held'[h] = Nothing
        /\ UNCHANGED <<pool, lastKey, used, usedAgain, flushed>>
    BY <1>8 DEF Restart, history
  <2>2. HeldIndexes' = {}
    BY <2>1 DEF HeldIndexes, Nothing
  <2>3. HeldInv'
    BY <2>1 DEF HeldInv, Nothing
  <2>4. Exact(setKeyPool, pool, HeldIndexes, lastKey, used \cup flushed)'
    BY <2>1, <2>2 DEF Exact
  <2>. QED  BY <2>1, <2>3, <2>4
<1>. QED
  BY <1>1, <1>2, <1>3, <1>4, <1>5, <1>6, <1>7, <1>8 DEF Next

-----------------------------------------------------------------------------
(* A wallet that is not encrypted: no collision, and after a top-up a free   *)
(* key is left above the oldest.                                             *)
LEMMA NoCollision ==
    ASSUME Inv, ~crypted, TargetSize # 0
    PROVE  ~Collides
<1>1. NextIndex \in Nat /\ Missing \in Nat /\ \A i \in setKeyPool : i < NextIndex
  BY NextIndexAbove, MissingType DEF Inv
<1>2. setKeyPool \subseteq Nat /\ HeldIndexes \subseteq Nat
  BY DEF Inv, TypeOK, HeldIndexes
<1>3. \A i \in HeldIndexes : i < NextIndex
  <2>1. \A i \in HeldIndexes : \E j \in setKeyPool : i < j
    BY DEF Inv, YoungInv
  <2>. QED  BY <2>1, <1>1, <1>2
<1>4. (NextIndex .. NextIndex + Missing - 1) \cap HeldIndexes = {}
  BY <1>1, <1>2, <1>3
<1>. QED  BY <1>4 DEF Collides

LEMMA AboveOldest ==
    ASSUME Inv, ~locked, TargetSize # 0
    PROVE  ToppedUp.set # {} /\ \E j \in ToppedUp.set : Oldest < j
<1>. TypeOK
  BY DEF Inv
<1>1. Indexes(ToppedUp.set) /\ setKeyPool \subseteq ToppedUp.set
  BY ToppedUpType
<1>2. NextIndex \in Nat /\ Missing \in Nat /\ \A i \in setKeyPool : i < NextIndex
  BY NextIndexAbove, MissingType
<1>3. ToppedUp.set = setKeyPool \cup (NextIndex .. NextIndex + Missing - 1)
  BY DEF ToppedUp, WithKeys
<1>4. Cardinality(setKeyPool) \in Nat /\ (Cardinality(setKeyPool) = 0 <=> setKeyPool = {})
      /\ (Cardinality(setKeyPool) = 1 <=> \E x : setKeyPool = {x})
  BY FS_CardinalityType, FS_EmptySet, FS_Singleton DEF TypeOK
<1>5. TargetSize \in Nat /\ TargetSize >= 1
  BY SizeAssumption
<1>6. \E a, b \in ToppedUp.set : a < b
  <2>1. CASE Missing >= 2
    <3>1. NextIndex \in ToppedUp.set /\ NextIndex + 1 \in ToppedUp.set
      BY <1>2, <1>3, <2>1
    <3>. QED  BY <3>1, <1>2
  <2>2. CASE Missing = 1
    <3>1. NextIndex \in ToppedUp.set
      BY <1>2, <1>3, <2>2
    <3>2. setKeyPool # {}
      BY <1>4, <1>5, <2>2 DEF Missing
    <3>. QED  BY <3>1, <3>2, <1>1, <1>2
  <2>3. CASE Missing = 0
    <3>1. Cardinality(setKeyPool) >= 2
      BY <1>4, <1>5, <2>3 DEF Missing
    <3>2. PICK a \in setKeyPool : TRUE
      BY <3>1, <1>4
    <3>3. PICK b \in setKeyPool : b # a
      <4>1. SUFFICES ASSUME setKeyPool = {a} PROVE FALSE
        BY <3>2
      <4>2. Cardinality(setKeyPool) = 1
        BY <4>1, <1>4
      <4>. QED  BY <3>1, <4>2
    <3>. QED  BY <3>2, <3>3, <1>1 DEF Indexes
  <2>. QED  BY <1>2, <2>1, <2>2, <2>3
<1>7. Oldest \in Nat /\ \A x \in ToppedUp.set : x \in Nat /\ Oldest <= x
  BY <1>1, <1>6, OldestFree DEF Indexes
<1>. QED  BY <1>6, <1>7

(* The reserved keys of a wallet that is not encrypted stay below a free one *)
(* when the oldest is taken.                                                 *)
LEMMA StillBelow ==
    ASSUME Inv, ~crypted, TargetSize # 0, ToppedUp.set # {},
           NEW i \in HeldIndexes \cup {Oldest}
    PROVE  \E j \in ToppedUp.set \ {Oldest} : i < j
<1>1. ~locked /\ \A k \in HeldIndexes : \E j \in setKeyPool : k < j
  BY DEF Inv, YoungInv
<1>2. setKeyPool \subseteq ToppedUp.set /\ ToppedUp.set \subseteq Nat /\ Oldest \in ToppedUp.set
  BY ToppedUpType, OldestFree DEF Inv, Indexes
<1>3. PICK top \in ToppedUp.set : Oldest < top
  BY <1>1, AboveOldest
<1>4. HeldIndexes \subseteq Nat
  BY DEF Inv, TypeOK, HeldIndexes
<1>5. CASE i = Oldest
  BY <1>2, <1>3, <1>5
<1>6. CASE i \in HeldIndexes
  <2>1. PICK j \in setKeyPool : i < j
    BY <1>1, <1>6
  <2>2. j \in ToppedUp.set /\ (j = Oldest => i < top)
    BY <1>2, <1>3, <1>4, <1>6, <2>1
  <2>. QED  BY <1>2, <1>3, <2>1, <2>2
<1>. QED  BY <1>5, <1>6

LEMMA YoungNext == Inv /\ [Next]_vars => YoungInv'
<1>. SUFFICES ASSUME Inv, [Next]_vars, ~crypted' PROVE YoungInv'
  BY DEF YoungInv
<1>0. ~crypted /\ ~EncryptWallet /\ crypted' = crypted
  BY DEF Next, TopUpKeyPool, GetReservedKey, KeepKey, ReturnKey, GetKeyFromPool,
         EncryptWallet, Unlock, Lock, Restart, vars
<1>1. ~locked /\ flushed = {}
      /\ (TargetSize # 0 => ~collided /\ \A i \in HeldIndexes : \E j \in setKeyPool : i < j)
  BY <1>0 DEF Inv, YoungInv
<1>2. ~locked' /\ flushed' = {}
  BY <1>0, <1>1 DEF Next, TopUpKeyPool, GetReservedKey, KeepKey, ReturnKey, GetKeyFromPool,
                    Unlock, Lock, Restart, vars, history
<1>3. TargetSize # 0 => ~Collides
  BY <1>0, NoCollision
<1>4. TargetSize # 0 => ~collided'
  BY <1>0, <1>1, <1>3
     DEF Next, TopUpKeyPool, GetReservedKey, ReserveKeyFromKeyPool, KeepKey, ReturnKey,
         GetKeyFromPool, Unlock, Lock, Restart, vars, history
<1>5. ASSUME TargetSize # 0 PROVE \A i \in HeldIndexes' : \E j \in setKeyPool' : i < j
  <2>1. CASE TopUpKeyPool
    <3>1. setKeyPool \subseteq setKeyPool' /\ HeldIndexes' = HeldIndexes
      BY <2>1, ToppedUpType DEF TopUpKeyPool, HeldIndexes, Inv
    <3>. QED  BY <3>1, <1>1, <1>5
  <2>2. ASSUME NEW h \in Holder, GetReservedKey(h)
        PROVE  \A i \in HeldIndexes' : \E j \in setKeyPool' : i < j
    <3>1. /\ held[h].index = 0 /\ ToppedUp.set # {} /\ setKeyPool' = ToppedUp.set \ {Oldest}
          /\ held' = [held EXCEPT ![h] = [index |-> Oldest, key |-> KeyAt(Oldest)]]
      BY <2>2 DEF GetReservedKey, ReserveKeyFromKeyPool
    <3>2. Oldest # 0
      BY <3>1, OldestFree DEF Inv
    <3>3. HeldIndexes' = HeldIndexes \cup {Oldest}
      BY <3>1, <3>2, HeldTake DEF Inv
    <3>. QED  BY <3>1, <3>3, <1>0, <1>5, StillBelow
  <2>3. ASSUME NEW h \in Holder, KeepKey(h) \/ ReturnKey(h)
        PROVE  \A i \in HeldIndexes' : \E j \in setKeyPool' : i < j
    <3>1. held' = [held EXCEPT ![h] = Nothing] /\ setKeyPool \subseteq setKeyPool'
      BY <2>3 DEF KeepKey, ReturnKey
    <3>2. HeldIndexes' \subseteq HeldIndexes
      BY <3>1, HeldRelease DEF Inv
    <3>. QED  BY <3>1, <3>2, <1>1, <1>5
  <2>4. CASE GetKeyFromPool
    <3>1. /\ ToppedUp.set # {} /\ setKeyPool' = ToppedUp.set \ {Oldest} /\ held' = held
      BY <2>4 DEF GetKeyFromPool, ReserveKeyFromKeyPool
    <3>2. HeldIndexes' = HeldIndexes
      BY <3>1 DEF HeldIndexes
    <3>. QED  BY <3>1, <3>2, <1>0, <1>5, StillBelow
  <2>5. CASE Unlock \/ Lock \/ UNCHANGED vars
    <3>1. UNCHANGED <<setKeyPool, held>>
      BY <2>5 DEF Unlock, Lock, vars, wallet
    <3>2. HeldIndexes' = HeldIndexes
      BY <3>1 DEF HeldIndexes
    <3>. QED  BY <3>1, <3>2, <1>1, <1>5
  <2>6. CASE Restart
    BY <2>6 DEF Restart, HeldIndexes, Nothing
  <2>. QED  BY <1>0, <2>1, <2>2, <2>3, <2>4, <2>5, <2>6 DEF Next
<1>. QED  BY <1>2, <1>4, <1>5 DEF YoungInv

-----------------------------------------------------------------------------
(* A row after new keys were added is a row from before or a new key.        *)
LEMMA NewOrOld ==
    ASSUME TypeOK, NEW set, NEW rows, NEW first \in Nat \ {0}, NEW n \in Nat,
           NEW i \in DOMAIN WithKeys(set, rows, first, n).rows
    PROVE  \/ WithKeys(set, rows, first, n).rows[i] > lastKey
           \/ i \in DOMAIN rows /\ WithKeys(set, rows, first, n).rows[i] = rows[i]
<1>. DEFINE w == WithKeys(set, rows, first, n)
            new == first .. first + n - 1
<1>1. w.rows = [j \in DOMAIN rows \cup new |->
                  IF j \in new THEN lastKey + 1 + (j - first) ELSE rows[j]]
  BY DEF WithKeys
<1>2. i \in DOMAIN rows \cup new /\ lastKey \in Nat
  BY <1>1 DEF TypeOK
<1>. HIDE DEF w
<1>3. CASE i \in new
  <2>1. w.rows[i] = lastKey + 1 + (i - first)
    BY <1>1, <1>3
  <2>2. i \in Nat /\ i >= first
    BY <1>3
  <2>3. w.rows[i] > lastKey
    BY <1>2, <2>1, <2>2
  <2>. QED  BY <2>3 DEF w
<1>4. CASE i \notin new
  <2>1. i \in DOMAIN rows /\ w.rows[i] = rows[i]
    BY <1>1, <1>2, <1>4
  <2>. QED  BY <2>1 DEF w
<1>. QED  BY <1>3, <1>4

LEMMA ToppedUpNotFlushed ==
    ASSUME TypeOK, \A i \in DOMAIN pool : pool[i] \notin flushed,
           NEW i \in DOMAIN ToppedUp.rows
    PROVE  ToppedUp.rows[i] \notin flushed
<1>1. CASE locked
  <2>1. ToppedUp.rows = pool
    BY <1>1 DEF ToppedUp
  <2>. QED  BY <2>1
<1>2. CASE ~locked
  <2>. DEFINE w == WithKeys(setKeyPool, pool, NextIndex, Missing)
  <2>1. ToppedUp = w
    BY <1>2 DEF ToppedUp
  <2>2. NextIndex \in Nat \ {0} /\ Missing \in Nat
    BY NextIndexAbove, MissingType
  <2>3. w.rows[i] > lastKey \/ (i \in DOMAIN pool /\ w.rows[i] = pool[i])
    BY <2>1, <2>2, NewOrOld
  <2>. HIDE DEF w
  <2>4. \A k \in flushed : k \in Nat /\ k <= lastKey /\ lastKey \in Nat
    BY DEF TypeOK
  <2>. QED  BY <2>1, <2>3, <2>4
<1>. QED  BY <1>1, <1>2

LEMMA FlushNext == Inv /\ [Next]_vars => FlushInv'
<1>. SUFFICES ASSUME Inv, [Next]_vars, TargetSize # 0
              PROVE  /\ \A i \in DOMAIN pool' : pool'[i] \notin flushed'
                     /\ \A h \in Holder : held'[h].key \notin flushed'
  BY DEF FlushInv
<1>. TypeOK /\ (\A i \in DOMAIN pool : pool[i] \notin flushed)
     /\ (\A h \in Holder : held[h].key \notin flushed)
  BY DEF Inv, FlushInv
<1>0. 0 \notin flushed /\ RowsType(pool, lastKey) /\ lastKey \in Nat
  BY DEF TypeOK, RowsType, Indexes
<1>1. RowsType(ToppedUp.rows, ToppedUp.last) /\ ToppedUp.last \in Nat
  BY ToppedUpType
<1>2. CASE TopUpKeyPool
  <2>1. pool' = ToppedUp.rows /\ UNCHANGED <<held, flushed>>
    BY <1>2 DEF TopUpKeyPool
  <2>. QED  BY <2>1, ToppedUpNotFlushed
<1>3. ASSUME NEW h \in Holder, GetReservedKey(h)
      PROVE  /\ \A i \in DOMAIN pool' : pool'[i] \notin flushed'
             /\ \A g \in Holder : held'[g].key \notin flushed'
  <2>1. /\ pool' = ToppedUp.rows /\ flushed' = flushed
        /\ held' = [held EXCEPT ![h] = [index |-> Oldest, key |-> KeyAt(Oldest)]]
    BY <1>3 DEF GetReservedKey
  <2>2. held'[h].key = KeyAt(Oldest) /\ \A g \in Holder : g # h => held'[g] = held[g]
    BY <2>1 DEF TypeOK
  <2>3. KeyAt(Oldest) \notin flushed
    BY <1>0, ToppedUpNotFlushed DEF KeyAt
  <2>. QED  BY <2>1, <2>2, <2>3, ToppedUpNotFlushed
<1>4. ASSUME NEW h \in Holder, KeepKey(h) \/ ReturnKey(h)
      PROVE  /\ \A i \in DOMAIN pool' : pool'[i] \notin flushed'
             /\ \A g \in Holder : held'[g].key \notin flushed'
  <2>1. /\ pool' = pool \/ pool' = ErasePool(pool, held[h].index)
        /\ held' = [held EXCEPT ![h] = Nothing] /\ flushed' = flushed
    BY <1>4 DEF KeepKey, ReturnKey, history
  <2>2. \A g \in Holder : held'[g] = Nothing \/ held'[g] = held[g]
    BY <2>1, HeldRelease
  <2>3. \A i \in DOMAIN pool' : i \in DOMAIN pool /\ pool'[i] = pool[i]
    <3>. DEFINE x == held[h].index
                erased == ErasePool(pool, x)
    <3>1. DOMAIN erased = DOMAIN pool \ {x} /\ \A j \in DOMAIN pool \ {x} : erased[j] = pool[j]
      BY <1>0, EraseType
    <3>2. pool' = pool \/ pool' = erased
      BY <2>1
    <3>. HIDE DEF erased
    <3>. QED  BY <3>1, <3>2
  <2>. QED  BY <1>0, <2>1, <2>2, <2>3 DEF Nothing
<1>5. CASE GetKeyFromPool
  <2>1. pool' = ErasePool(ToppedUp.rows, Oldest) /\ UNCHANGED <<held, flushed>>
    BY <1>5 DEF GetKeyFromPool
  <2>2. \A i \in DOMAIN pool' : i \in DOMAIN ToppedUp.rows /\ pool'[i] = ToppedUp.rows[i]
    <3>. DEFINE rows == ToppedUp.rows
                last == ToppedUp.last
                x == Oldest
                erased == ErasePool(rows, x)
    <3>1. RowsType(rows, last) /\ last \in Nat
      BY <1>1
    <3>2. pool' = erased
      BY <2>1
    <3>. HIDE DEF rows, last, x
    <3>3. DOMAIN erased = DOMAIN rows \ {x} /\ \A j \in DOMAIN rows \ {x} : erased[j] = rows[j]
      BY <3>1, EraseType
    <3>. HIDE DEF erased
    <3>4. \A i \in DOMAIN pool' : i \in DOMAIN rows /\ pool'[i] = rows[i]
      BY <3>2, <3>3
    <3>. QED  BY <3>4 DEF rows
  <2>. QED  BY <2>1, <2>2, ToppedUpNotFlushed
<1>6. CASE EncryptWallet
  <2>. DEFINE w == WithKeys({}, Dropped, 1, TargetSize)
              f == {pool[i] : i \in setKeyPool \cap DOMAIN pool}
  <2>1. /\ pool' = w.rows /\ flushed' = flushed \cup f /\ held' = held /\ ~crypted
    BY <1>6 DEF EncryptWallet, NewKeyPool
  <2>2. flushed = {} /\ ~collided
    BY <2>1 DEF Inv, YoungInv
  <2>3. HeldInv /\ Exact(setKeyPool, pool, HeldIndexes, lastKey, used \cup flushed) /\ EmptyInv
    BY <2>2 DEF Inv, ExactInv
  <2>4. \A k \in f : k \in Nat /\ k <= lastKey /\ k # 0
    BY <1>0 DEF RowsType
  <2>5. \A i \in DOMAIN Dropped : Dropped[i] \notin f
    BY <2>3, DroppedType DEF Exact
  <2>6. ASSUME NEW i \in DOMAIN w.rows PROVE w.rows[i] \notin f
    <3>1. w.rows[i] > lastKey \/ (i \in DOMAIN Dropped /\ w.rows[i] = Dropped[i])
      BY SizeAssumption, NewOrOld
    <3>. HIDE DEF w, f
    <3>. QED  BY <1>0, <2>4, <2>5, <3>1
  <2>7. ASSUME NEW h \in Holder PROVE held[h].key \notin f
    <3>1. CASE held[h].index = 0
      <4>1. held[h].key = 0
        BY <2>3, <3>1 DEF EmptyInv
      <4>. QED  BY <2>4, <4>1
    <3>2. CASE held[h].index # 0
      <4>1. held[h].index \in HeldIndexes /\ held[h].key = pool[held[h].index]
        BY <2>3, <3>2 DEF HeldIndexes, HeldInv
      <4>2. held[h].index \in DOMAIN pool /\ held[h].index \notin setKeyPool
        BY <2>3, <4>1 DEF Exact
      <4>. QED  BY <2>3, <4>1, <4>2 DEF Exact
    <3>. QED  BY <3>1, <3>2
  <2>. HIDE DEF w, f
  <2>. QED  BY <2>1, <2>2, <2>6, <2>7
<1>7. CASE Unlock \/ Lock \/ UNCHANGED vars
  BY <1>7 DEF Unlock, Lock, vars, wallet, history
<1>8. CASE Restart
  BY <1>0, <1>8 DEF Restart, Nothing, history
<1>. QED
  BY <1>2, <1>3, <1>4, <1>5, <1>6, <1>7, <1>8 DEF Next

-----------------------------------------------------------------------------
(* The invariant behind the properties holds in every state.                 *)
THEOREM InvAlways == Spec => []Inv
<1>1. Inv /\ [Next]_vars => Inv'
  BY TypeNext, EmptyNext, ExactNext, YoungNext, FlushNext DEF Inv
<1>. QED  BY <1>1, InvInit, PTL DEF Spec

(* A key has one owner, and is used once, unless indexes have collided; they *)
(* collide only in a wallet that was encrypted, or a pool of size 0.         *)
THEOREM KeysExclusive == Spec => []KeyExclusive
BY InvAlways, PropertiesFromInv, PTL

(* The rows of the wallet file are the free and the reserved keys, over any  *)
(* order of reservations, returns, uses, encryption and restarts.            *)
THEOREM RowsAlwaysExact == Spec => []RowsExact
BY InvAlways, PropertiesFromInv, PTL

(* A key dropped by encryptwallet never comes back, even if the indexes      *)
(* collide afterwards.                                                       *)
THEOREM FlushedKeysGone == Spec => []FlushedKeysStay
BY InvAlways, PropertiesFromInv, PTL
=============================================================================
