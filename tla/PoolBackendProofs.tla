-------------------------- MODULE PoolBackendProofs --------------------------
(***************************************************************************)
(* Proofs about PoolBackend, for every value of its constants: first type   *)
(* correctness, then the rules of the ledger.                               *)
(***************************************************************************)
EXTENDS PoolBackend, FiniteDataTheorems, SequenceTheorems, TLAPS

-----------------------------------------------------------------------------
(* The amounts the rules compute.                                            *)

(* What an address asks for is a positive amount.                            *)
LEMMA PayoutAmountType ==
    ASSUME NEW a \in Addr, NEW row
    PROVE  /\ PayLimit(a) \in Nat \ {0} /\ COIN <= PayLimit(a)
           /\ PayoutAmount(a, row) \in {COIN, PayLimit(a)}
           /\ PayoutAmount(a, row) \in Nat \ {0}
<1>1. \A m, c \in Nat \ {0} : m * c \in Nat \ {0} /\ c <= m * c
  OBVIOUS
<1>2. /\ COIN \in Nat \ {0} /\ MinPayout \in Nat \ {0}
      /\ AddrMinPayout[a] \in Nat
  BY AmountAssumption
<1>3. PayLimit(a) \in Nat \ {0} /\ COIN <= PayLimit(a)
  BY <1>1, <1>2 DEF PayLimit
<1>. QED  BY <1>2, <1>3 DEF PayoutAmount

(* Floor division of naturals.                                               *)
LEMMA DivNat ==
    ASSUME NEW n \in Nat, NEW d \in Nat \ {0}
    PROVE  n \div d \in Nat
OBVIOUS

LEMMA FinalMinType == FinalMin \in Nat
BY DivNat, AmountAssumption DEF FinalMin

LEMMA ShareValueType ==
    ASSUME TypeOK, NEW l \in ShareLengths
    PROVE  NewShareValue(l) \in Nat
<1>. DEFINE S == {i \in DOMAIN block : i > oldBlocks /\ block[i].confirmations >= MatureConf}
            f == [i \in DOMAIN block |-> block[i].value]
            C == {i \in DOMAIN share :
                    /\ i > oldShares
                    /\ \/ share[i].length = l
                       \/ l = MaxShare /\ share[i].length > MaxShare}
<1>1. block \in Seq(BlockRow) /\ share \in Seq(ShareRow)
  BY DEF TypeOK, Tables, TablesType
<1>2. BlockSum \in Nat
  <2>1. IsFiniteSet(1 .. Len(block)) /\ S \in SUBSET (1 .. Len(block))
    BY <1>1, FS_Interval
  <2>2. IsFiniteSet(S)
    BY <2>1, FS_Subset
  <2>3. \A i \in S : f[i] \in Nat
    <3>1. \A i \in DOMAIN block : block[i] \in BlockRow
      BY <1>1
    <3>. QED  BY <3>1 DEF BlockRow
  <2>4. SumFunctionOnSet(f, S) \in Nat
    BY <2>2, <2>3, SumNat
  <2>. QED  BY <2>4 DEF BlockSum
<1>3. ShareCount(l) \in Nat
  <2>1. IsFiniteSet(1 .. Len(share)) /\ C \in SUBSET (1 .. Len(share))
    BY <1>1, FS_Interval
  <2>2. Cardinality(C) \in Nat
    BY <2>1, FS_Subset, FS_CardinalityType
  <2>. QED  BY <2>2 DEF ShareCount
<1>4. 100 - Fee \in Nat /\ SharePerc[l] \in Nat /\ ValueCap \in Nat
  BY AmountAssumption DEF SharePerc, ValueCap
<1>. DEFINE avail == BlockSum * (100 - Fee) * SharePerc[l]
<1>5. \A m, n \in Nat : m * n \in Nat
  OBVIOUS
<1>6. avail \in Nat
  BY <1>2, <1>4, <1>5
<1>7. ASSUME ShareCount(l) # 0 PROVE avail \div (10000 * ShareCount(l)) \in Nat
  <2>1. 10000 * ShareCount(l) \in Nat \ {0}
    BY <1>3, <1>7
  <2>. QED  BY <1>6, <2>1, DivNat
<1>. HIDE DEF avail
<1>8. NewShareValue(l) =
        LET value == IF ShareCount(l) = 0 THEN 0
                     ELSE avail \div (10000 * ShareCount(l))
        IN  IF value <= ValueCap THEN value ELSE ValueCap
  BY DEF NewShareValue, avail
<1>. QED  BY <1>4, <1>7, <1>8

LEMMA ValueType ==
    ASSUME TypeOK, NEW len \in Lengths
    PROVE  Value(len) \in Nat /\ len \in Int
<1>1. len \in Nat /\ len >= MinShare /\ MinShare \in Nat
  BY LengthAssumption
<1>2. (IF len <= MaxShare THEN len ELSE MaxShare) \in ShareLengths
  BY <1>1 DEF ShareLengths, MaxShare, NumShares
<1>. QED  BY <1>1, <1>2 DEF TypeOK, Value

-----------------------------------------------------------------------------
(* Type correctness.                                                         *)

LEMMA TypeInit == Init => TypeOK
<1>. SUFFICES ASSUME Init PROVE TypeOK
  OBVIOUS
<1>1. Tables \in TablesType
  BY DEF Init, Tables, TablesType, AddressRow, NewAddress
<1>2. IsFiniteSet({})
  BY FS_EmptySet
<1>3. saved = Tables /\ saved.block = <<>> /\ saved.request = {}
  BY DEF Init, Tables
<1>4. depth = <<>> /\ <<>> \in Seq(Nat) /\ block = <<>>
  BY DEF Init
<1>5. mShareValues \in [ShareLengths -> Nat] /\ sent \in [Addr -> Nat]
  BY DEF Init
<1>6. request = {} /\ todo = {}
  BY DEF Init
<1>7. unsaved \in BOOLEAN /\ tainted \in BOOLEAN
  BY DEF Init
<1>8. /\ pc = "down" /\ tick = 0 /\ currtime = 0 /\ funds = 0
      /\ oldShares = 0 /\ oldBlocks = 0 /\ faults = 0
  BY DEF Init
<1>9. Len(depth) = Len(block) /\ Len(depth) = Len(saved.block)
  BY <1>3, <1>4, Zenon
<1>10. todo \subseteq request /\ IsFiniteSet(request) /\ IsFiniteSet(saved.request)
  BY <1>2, <1>3, <1>6, Zenon
<1>11. Tables \in TablesType /\ saved \in TablesType
  BY <1>1, <1>3, Zenon
<1>12. depth \in Seq(Nat)
  BY <1>4
<1>. QED  BY <1>5, <1>7, <1>8, <1>9, <1>10, <1>11, <1>12 DEF TypeOK

(* The types of the tables, one by one.                                      *)
LEMMA TypeTables ==
    ASSUME TypeOK
    PROVE  /\ share \in Seq(ShareRow) /\ block \in Seq(BlockRow)
           /\ request \subseteq RequestRow /\ address \in [Addr -> AddressRow]
           /\ saved.share \in Seq(ShareRow) /\ saved.block \in Seq(BlockRow)
           /\ saved.request \subseteq RequestRow
           /\ saved.address \in [Addr -> AddressRow]
           /\ saved = [share |-> saved.share, block |-> saved.block,
                       request |-> saved.request, address |-> saved.address]
BY DEF TypeOK, Tables, TablesType

(* The fields of an updated row of the address table.                        *)
LEMMA CreditedRow ==
    ASSUME NEW row \in AddressRow, NEW v \in Int, NEW m \in Int
    PROVE  LET new == Credited(row, v, m)
           IN  /\ new \in AddressRow
               /\ new.Balance = row.Balance + v
               /\ new.Requested = row.Requested + m
               /\ new.Paid = row.Paid
               /\ new.Blocked = row.Blocked
<1>1. /\ row.Balance \in Int /\ row.Requested \in Int
      /\ row.Paid \in Nat /\ row.Blocked \in BOOLEAN
  BY DEF AddressRow
<1>2. row.Balance + v \in Int /\ row.Requested + m \in Int
  BY <1>1
<1>. QED  BY <1>1, <1>2 DEF AddressRow, Credited

LEMMA PaidRow ==
    ASSUME NEW row \in AddressRow, NEW m \in Nat
    PROVE  LET new == PaidOut(row, m)
           IN  /\ new \in AddressRow
               /\ new.Balance = row.Balance - m
               /\ new.Requested = row.Requested - m
               /\ new.Paid = row.Paid + m
               /\ new.Blocked = row.Blocked
<1>1. /\ row.Balance \in Int /\ row.Requested \in Int
      /\ row.Paid \in Nat /\ row.Blocked \in BOOLEAN
  BY DEF AddressRow
<1>2. row.Balance - m \in Int /\ row.Requested - m \in Int /\ row.Paid + m \in Nat
  BY <1>1
<1>. QED  BY <1>1, <1>2 DEF AddressRow, PaidOut

(* What the accounting of a share starts from.                               *)
LEMMA CreditArgs ==
    ASSUME TypeOK, NEW i \in NextShares
    PROVE  /\ i \in DOMAIN share /\ share[i] \in ShareRow /\ ~share[i].accounted
           /\ share[i].addr \in Addr /\ share[i].value \in Nat
           /\ address[share[i].addr] \in AddressRow
           /\ i \in Nat
<1>1. i \in DOMAIN share /\ share[i] \in ShareRow /\ ~share[i].accounted
  BY TypeTables DEF NextShares, Unaccounted
<1>. QED  BY <1>1, TypeTables, SMTT(30) DEF ShareRow

LEMMA TypeShareStep ==
    ASSUME TypeOK, AccountShare
    PROVE  TypeOK'
<1>1. PICK i \in NextShares : Credit(i)
  BY DEF AccountShare
<1>. DEFINE a == share[i].addr
            v == share[i].value
            amount == IF Due(a, v) THEN PayoutAmount(a, address[a]) ELSE 0
            row == Credited(address[a], v, amount)
            new == NewRequest(a, i)
<1>2. /\ share' = [share EXCEPT ![i].accounted = TRUE]
      /\ address' = [address EXCEPT ![a] = row]
      /\ request' = request \cup (IF Due(a, v) THEN {new} ELSE {})
  BY <1>1, Zenon DEF Credit
<1>3. /\ i \in DOMAIN share /\ share[i] \in ShareRow /\ i \in Nat
      /\ a \in Addr /\ v \in Nat /\ address[a] \in AddressRow
      /\ currtime \in Nat
      /\ PayoutAmount(a, address[a]) \in Nat \ {0} /\ amount \in Nat
  BY CreditArgs, PayoutAmountType DEF TypeOK
<1>4. share' \in Seq(ShareRow)
  <2>. DEFINE srow == [share[i] EXCEPT !.accounted = TRUE]
  <2>1. srow \in ShareRow
    BY <1>3 DEF ShareRow
  <2>2. share' = [share EXCEPT ![i] = srow]
    BY <1>2
  <2>. HIDE DEF srow
  <2>. QED  BY <1>3, <2>1, <2>2, TypeTables
<1>5. address' \in [Addr -> AddressRow]
  <2>1. row \in AddressRow
    BY <1>3, CreditedRow, SMTT(30)
  <2>. HIDE DEF row
  <2>. QED  BY <1>2, <1>3, <2>1, TypeTables
<1>6. request' \subseteq RequestRow /\ IsFiniteSet(request') /\ request \subseteq request'
  <2>1. new \in RequestRow
    BY <1>3 DEF RequestRow, NewRequest
  <2>. HIDE DEF new
  <2>2. request' = request \/ request' = request \cup {new}
    BY <1>2
  <2>3. IsFiniteSet(request \cup {new}) /\ IsFiniteSet(request)
    BY FS_AddElement DEF TypeOK
  <2>. QED  BY <2>1, <2>2, <2>3, TypeTables
<1>7. Tables' \in TablesType
  BY <1>4, <1>5, <1>6, TypeTables DEF AccountShare, Tables, TablesType
<1>. QED  BY <1>6, <1>7 DEF TypeOK, AccountShare, env, history

LEMMA TypeDataStep ==
    ASSUME TypeOK, HandleData
    PROVE  TypeOK'
<1>. DEFINE Row(a, l, v) == [addr |-> a, length |-> l, value |-> v, accounted |-> FALSE]
<1>1. \A a \in Addr, l \in Int, v \in Nat : Row(a, l, v) \in ShareRow
  BY DEF ShareRow
<1>2. \A gen \in GenValues : gen \in Nat /\ (gen * Fee) \div 100 \in Nat
  <2>1. \A m, n \in Nat : m * n \in Nat
    OBVIOUS
  <2>2. \A gen \in GenValues : gen \in Nat /\ gen * Fee \in Nat
    BY <2>1, AmountAssumption
  <2>. QED  BY <2>2, DivNat
<1>3. PICK addr \in Addr, len \in Lengths :
         HandleShare(addr, len) \/ \E gen \in GenValues : HandleBlock(addr, len, gen)
  BY DEF HandleData
<1>4. Value(len) \in Nat /\ len \in Int
  BY ValueType
<1>5. /\ share' \in Seq(ShareRow) /\ block' \in Seq(BlockRow)
      /\ depth' \in Seq(Nat) /\ Len(depth') = Len(block')
  <2>0. /\ share \in Seq(ShareRow) /\ block \in Seq(BlockRow)
        /\ depth \in Seq(Nat) /\ Len(depth) = Len(block)
    BY TypeTables DEF TypeOK
  <2>1. CASE HandleShare(addr, len)
    <3>1. share' = Append(share, Row(addr, len, Value(len))) /\ UNCHANGED <<block, depth>>
      BY <2>1 DEF HandleShare
    <3>2. Row(addr, len, Value(len)) \in ShareRow
      BY <1>1, <1>4
    <3>. HIDE DEF Row
    <3>. QED  BY <2>0, <3>1, <3>2
  <2>2. ASSUME NEW gen \in GenValues, HandleBlock(addr, len, gen)
        PROVE  /\ share' \in Seq(ShareRow) /\ block' \in Seq(BlockRow)
               /\ depth' \in Seq(Nat) /\ Len(depth') = Len(block')
    <3>. DEFINE fee == Row(PoolAddress, -1, (gen * Fee) \div 100)
                row == Row(addr, len, Value(len))
                new == [value |-> gen, confirmations |-> 0,
                        orphan |-> FALSE, share |-> Len(share) + 2]
    <3>1. /\ share' = share \o <<fee, row>> /\ block' = Append(block, new)
          /\ depth' = Append(depth, 1)
      BY <2>2 DEF HandleBlock
    <3>2. fee \in ShareRow /\ row \in ShareRow
      BY <1>1, <1>2, <1>4, AddrAssumption
    <3>3. new \in BlockRow
      BY <1>2, <2>0 DEF BlockRow
    <3>. HIDE DEF fee, row, new
    <3>4. <<fee, row>> \in Seq(ShareRow)
      BY <3>2
    <3>5. share' \in Seq(ShareRow)
      BY <2>0, <3>1, <3>4
    <3>. QED  BY <2>0, <3>1, <3>3, <3>5
  <2>. QED  BY <1>3, <2>1, <2>2
<1>6. Tables' \in TablesType /\ saved' = Tables' /\ saved'.block = block'
      /\ saved'.request = request
  BY <1>5, TypeTables DEF HandleData, CommitTransaction, Tables, TablesType
<1>. QED  BY <1>5, <1>6 DEF TypeOK, HandleData, history

LEMMA TypeBeginStep ==
    ASSUME TypeOK, BeginAccounting
    PROVE  TypeOK'
<1>1. currtime' \in Nat
  <2>. DEFINE S == {r.time : r \in request}
  <2>1. S \subseteq Nat
    BY TypeTables DEF RequestRow
  <2>2. IsFiniteSet(S)
    <3>. DEFINE f == [r \in request |-> r.time]
    <3>1. IsFiniteSet({f[r] : r \in request})
      BY FiniteImage DEF TypeOK
    <3>2. {f[r] : r \in request} = S
      OBVIOUS
    <3>. QED  BY <3>1, <3>2
  <2>3. IsFiniteSet({0} \cup S) /\ {0} \cup S \subseteq Nat /\ {0} \cup S # {}
    <3>1. IsFiniteSet(S \cup {0})
      BY <2>2, FS_AddElement
    <3>2. S \cup {0} = {0} \cup S
      OBVIOUS
    <3>. QED  BY <2>1, <3>1, <3>2
  <2>4. Max({0} \cup S) \in Nat
    BY <2>3, MaxNat
  <2>. QED  BY <2>4 DEF BeginAccounting
<1>2. block' \in Seq(BlockRow) /\ Len(block') = Len(block)
  <2>1. CASE tick > 1
    <3>1. \A i \in DOMAIN block : CheckedBlock(block[i], depth[i]) \in BlockRow
      <4>. SUFFICES ASSUME NEW i \in DOMAIN block
                    PROVE  CheckedBlock(block[i], depth[i]) \in BlockRow
        OBVIOUS
      <4>1. /\ block \in Seq(BlockRow) /\ depth \in Seq(Nat)
            /\ Len(depth) = Len(block)
        BY TypeTables DEF TypeOK
      <4>2. i \in 1 .. Len(block) /\ i \in 1 .. Len(depth)
        BY <4>1
      <4>3. block[i] \in BlockRow /\ depth[i] \in Nat
        BY <4>1, <4>2, ElementOfSeq
      <4>. QED  BY <4>3 DEF CheckedBlock, BlockRow
    <3>2. block' = [i \in 1 .. Len(block) |-> CheckedBlock(block[i], depth[i])]
      BY <2>1, TypeTables DEF BeginAccounting
    <3>. QED  BY <3>1, <3>2, TypeTables
  <2>2. CASE ~(tick > 1)
    BY <2>2, TypeTables DEF BeginAccounting
  <2>. QED  BY <2>1, <2>2
<1>3. Tables' \in TablesType
  BY <1>2, TypeTables DEF BeginAccounting, Tables, TablesType
<1>. QED  BY <1>1, <1>2, <1>3 DEF TypeOK, BeginAccounting, env, history

(* The requests of the final payout.                                         *)
FinalRequest(a) == [addr |-> a, amount |-> address[a].Balance - address[a].Requested,
                    time |-> currtime, share |-> 0]

LEMMA FinalRequestType ==
    ASSUME TypeOK, NEW a \in FinalDue
    PROVE  /\ a \in Addr /\ address[a] \in AddressRow
           /\ FinalRequest(a) \in RequestRow
<1>1. a \in Addr /\ address[a].Balance - address[a].Requested > FinalMin
  BY DEF FinalDue
<1>2. address[a] \in AddressRow
  BY <1>1, TypeTables
<1>3. address[a].Balance - address[a].Requested \in Nat \ {0}
  BY <1>1, <1>2, FinalMinType DEF AddressRow
<1>4. currtime \in Nat
  BY DEF TypeOK
<1>. QED  BY <1>1, <1>2, <1>3, <1>4 DEF FinalRequest, RequestRow

LEMMA TypePayoutStep ==
    ASSUME TypeOK, BeginPayout
    PROVE  TypeOK'
<1>1. /\ request' \subseteq RequestRow /\ IsFiniteSet(request')
      /\ request \subseteq request'
  <2>1. request' = request \cup {FinalRequest(a) : a \in FinalDue}
    BY Zenon DEF BeginPayout, FinalRequest
  <2>2. IsFiniteSet(FinalDue)
    BY AddrAssumption, FS_Subset, FS_EmptySet DEF FinalDue
  <2>3. IsFiniteSet({FinalRequest(a) : a \in FinalDue})
    <3>. DEFINE f == [a \in FinalDue |-> FinalRequest(a)]
    <3>1. IsFiniteSet({f[a] : a \in FinalDue})
      BY <2>2, FiniteImage
    <3>2. {f[a] : a \in FinalDue} = {FinalRequest(a) : a \in FinalDue}
      OBVIOUS
    <3>. QED  BY <3>1, <3>2
  <2>4. IsFiniteSet(request')
    BY <2>1, <2>3, FS_Union DEF TypeOK
  <2>5. {FinalRequest(a) : a \in FinalDue} \subseteq RequestRow
    BY FinalRequestType
  <2>. QED  BY <2>1, <2>4, <2>5, TypeTables
<1>2. address' \in [Addr -> AddressRow]
  BY TypeTables DEF BeginPayout, AddressRow
<1>3. Tables' \in TablesType
  BY <1>1, <1>2, TypeTables DEF BeginPayout, Tables, TablesType
<1>4. todo' \subseteq request'
  BY DEF BeginPayout
<1>. QED  BY <1>1, <1>3, <1>4 DEF TypeOK, BeginPayout, env, history

(* What the payout loop visits.                                              *)
LEMMA PayArgs ==
    ASSUME TypeOK, NEW r \in NextRequests
    PROVE  /\ r \in request /\ r \in RequestRow
           /\ r.addr \in Addr /\ r.amount \in Nat \ {0}
           /\ address[r.addr] \in AddressRow
<1>1. r \in request /\ r \in RequestRow
  BY TypeTables DEF NextRequests, TypeOK
<1>. QED  BY <1>1, TypeTables DEF RequestRow

LEMMA TypePayStep ==
    ASSUME TypeOK, Pay
    PROVE  TypeOK'
<1>1. PICK r \in NextRequests :
         /\ PayInvalid(r) \/ PayEmpty(r) \/ PaySent(r) \/ PayFailed(r) \/ PayRejected(r)
         /\ UNCHANGED <<pc, tick, currtime, mShareValues, share, block, saved,
                        depth, oldShares, oldBlocks>>
  BY DEF Pay
<1>2. /\ r \in request /\ r.addr \in Addr /\ r.amount \in Nat \ {0}
      /\ address[r.addr] \in AddressRow
      /\ address \in [Addr -> AddressRow] /\ request \subseteq RequestRow
  BY PayArgs, TypeTables
<1>3. /\ request' \subseteq request /\ IsFiniteSet(request') /\ todo' \subseteq request'
  <2>1. request' \in {request, request \ {r}} /\ todo' \subseteq request'
    BY <1>1 DEF PayInvalid, PayEmpty, PaySent, PayFailed, PayRejected, Drop, TypeOK
  <2>2. IsFiniteSet(request) /\ IsFiniteSet(request \ {r})
    BY FS_RemoveElement DEF TypeOK
  <2>. QED  BY <2>1, <2>2
<1>4. address' \in [Addr -> AddressRow]
  <2>1. CASE PayInvalid(r)
    BY <1>2, <2>1 DEF PayInvalid, AddressRow
  <2>2. CASE PaySent(r)
    <3>. DEFINE row == PaidOut(address[r.addr], r.amount)
    <3>1. row \in AddressRow
      BY <1>2, PaidRow
    <3>2. address' = [address EXCEPT ![r.addr] = row]
      BY <2>2 DEF PaySent, Book
    <3>. HIDE DEF row
    <3>. QED  BY <1>2, <3>1, <3>2
  <2>3. CASE PayEmpty(r) \/ PayFailed(r) \/ PayRejected(r)
    BY <1>2, <2>3 DEF PayEmpty, PayFailed, PayRejected
  <2>. QED  BY <1>1, <2>1, <2>2, <2>3
<1>5. Tables' \in TablesType
  BY <1>1, <1>2, <1>3, <1>4, TypeTables DEF Tables, TablesType
<1>6. /\ funds' \in Int /\ sent' \in [Addr -> Nat]
      /\ unsaved' \in BOOLEAN /\ tainted' \in BOOLEAN /\ faults' \in Nat
  <2>0. /\ funds \in Int /\ sent \in [Addr -> Nat] /\ TxFee \in Int
        /\ unsaved \in BOOLEAN /\ tainted \in BOOLEAN /\ faults \in Nat
    BY AmountAssumption DEF TypeOK
  <2>1. CASE PayInvalid(r) \/ PayEmpty(r) \/ PayFailed(r)
    BY <2>0, <2>1 DEF PayInvalid, PayEmpty, PayFailed, history
  <2>2. CASE PaySent(r)
    BY <1>2, <2>0, <2>2 DEF PaySent, Record
  <2>3. CASE PayRejected(r)
    BY <1>2, <2>0, <2>3 DEF PayRejected, Record
  <2>. QED  BY <1>1, <2>1, <2>2, <2>3
<1>. QED  BY <1>1, <1>3, <1>5, <1>6 DEF TypeOK

LEMMA TypeCommitStep ==
    ASSUME TypeOK, Commit
    PROVE  TypeOK'
<1>1. Tables' = Tables /\ saved' = Tables /\ saved'.block = block /\ saved'.request = request
  BY DEF Commit, CommitTransaction, Tables, tables
<1>2. mShareValues' \in [ShareLengths -> Nat]
  <2>1. [l \in ShareLengths |-> NewShareValue(l)] \in [ShareLengths -> Nat]
    BY ShareValueType
  <2>. QED  BY <2>1 DEF Commit, TypeOK
<1>3. tick' \in Nat
  BY TickAssumption DEF Commit, NextTick, TypeOK
<1>. QED  BY <1>1, <1>2, <1>3 DEF TypeOK, Commit, tables, env

LEMMA TypeCrashStep ==
    ASSUME TypeOK, Crash
    PROVE  TypeOK'
<1>1. Tables' = saved /\ request' = saved.request /\ block' = saved.block
  BY TypeTables DEF Crash, Rollback, Tables
<1>2. /\ mShareValues' \in [ShareLengths -> Nat] /\ tick' = 0
      /\ currtime' = 0 /\ pc' = "down" /\ faults' \in Nat
  BY DEF Crash, Forget, TypeOK
<1>3. tainted' \in BOOLEAN /\ unsaved' \in BOOLEAN
  BY Zenon DEF Crash, TypeOK
<1>. QED  BY <1>1, <1>2, <1>3 DEF TypeOK, Crash, env

(* A step of the environment, and the two that only start or end the server. *)
LEMMA TypeOtherStep ==
    ASSUME TypeOK, Start \/ Shutdown \/ Environment
    PROVE  TypeOK'
<1>1. CASE Start
  BY <1>1 DEF TypeOK, Start, Tables, tables, env, history
<1>2. CASE Shutdown
  <2>1. mShareValues' \in [ShareLengths -> Nat] /\ faults' \in Nat
    BY <1>2 DEF Shutdown, Forget, TypeOK
  <2>. QED  BY <1>2, <2>1 DEF TypeOK, Shutdown, Forget, Tables, tables, env
<1>3. CASE Environment
  <2>1. Tables' = Tables /\ saved' = saved /\ block' = block /\ request' = request
    BY <1>3 DEF Environment, Tables, tables
  <2>2. funds' \in Int /\ oldShares' \in Nat /\ oldBlocks' \in Nat
    <3>1. MaxFunds \in Int
      BY BoundAssumption
    <3>. QED  BY <1>3, <3>1, SMTT(30) DEF Environment, Deposit, MoveChain, AgeShare, AgeBlock, TypeOK
  <2>3. depth' \in Seq(Nat) /\ Len(depth') = Len(depth)
    <3>1. CASE MoveChain
      BY <3>1, ConfAssumption, SMTT(30) DEF MoveChain, TypeOK
    <3>2. CASE Deposit \/ AgeShare \/ AgeBlock
      BY <3>2 DEF Deposit, AgeShare, AgeBlock, TypeOK
    <3>. QED  BY <1>3, <3>1, <3>2 DEF Environment
  <2>. QED  BY <1>3, <2>1, <2>2, <2>3 DEF TypeOK, Environment, history
<1>. QED  BY <1>1, <1>2, <1>3

LEMMA TypeStep == TypeOK /\ [Next]_vars => TypeOK'
<1>. SUFFICES ASSUME TypeOK, [Next]_vars PROVE TypeOK'
  OBVIOUS
<1>1. CASE UNCHANGED vars
  BY <1>1 DEF TypeOK, vars, Tables, tables, env, history
<1>2. CASE Next
  BY <1>2, TypeDataStep, TypeBeginStep, TypeShareStep, TypePayoutStep, TypePayStep,
     TypeCommitStep, TypeCrashStep, TypeOtherStep DEF Next, Accounting
<1>. QED  BY <1>1, <1>2

(* Every reachable state of the ledger is well typed, in particular every    *)
(* request is for a positive amount and Paid never falls below zero.         *)
THEOREM TypeCorrect == Spec => []TypeOK
BY TypeInit, TypeStep, PTL DEF Spec

-----------------------------------------------------------------------------
(* The rules of the ledger.  Each speaks of one address at a time: of its    *)
(* row, of the value of its accounted shares and of the sum of its open      *)
(* requests.  AddrInv joins the rules for one address; it is inductive,      *)
(* first for the session's tables, and through commit and rollback for the   *)
(* saved ones.                                                               *)

Mined(t, a) == SumFunctionOnSet(Values(t), AccountedOf(t, a))
Open(t, a) == SumFunctionOnSet(Amounts(t), RequestsOf(t, a))

(* The rules for one address, as conditions on its row.  The last but one is *)
(* what Unrequested needs: an address that never asked owns at most a coin.  *)
RowInv(row, mined, open, small, limit) ==
    /\ row.Balance + row.Paid = mined
    /\ open <= row.Requested
    /\ ~row.Blocked => open = row.Requested
    /\ row.Requested <= row.Balance
    /\ ~row.Blocked /\ row.Requested = 0 /\ row.Paid = 0 => row.Balance <= COIN
    /\ ~row.Blocked /\ small => row.Balance - row.Requested <= limit

AddrInv(t, a) ==
    RowInv(t.address[a], Mined(t, a), Open(t, a), SmallShares(t, a), PayLimit(a))

LedgerInv(t) == \A a \in Addr : AddrInv(t, a)

(* While shares are accounted, a request of this pass is that of a share     *)
(* already accounted: the next one is new.                                   *)
Fresh ==
    pc = "shares" =>
        \A r \in request :
            r.time = currtime => r.share \in DOMAIN share /\ share[r.share].accounted

(* What links the ledger to the wallet.                                      *)
WalletInv(a) ==
    /\ ~tainted => address[a].Paid = sent[a]
    /\ ~tainted /\ ~unsaved => saved.address[a].Paid = sent[a]
    /\ address[a].Paid <= sent[a]
    /\ saved.address[a].Paid <= sent[a]

PaidInv == \A a \in Addr : WalletInv(a)

Inv == TypeOK /\ Fresh /\ PaidInv /\ LedgerInv(Tables) /\ LedgerInv(saved)

-----------------------------------------------------------------------------
(* The sums.                                                                 *)

LEMMA MinedSummable ==
    ASSUME NEW t \in TablesType, NEW S \in SUBSET DOMAIN t.share
    PROVE  /\ Summable(Values(t), S)
           /\ \A i \in DOMAIN t.share :
                 Values(t)[i] = t.share[i].value /\ t.share[i].value \in Nat
<1>1. t.share \in Seq(ShareRow)
  BY DEF TablesType
<1>2. DOMAIN t.share = 1 .. Len(t.share) /\ Len(t.share) \in Nat
  BY <1>1
<1>3. \A i \in DOMAIN t.share : t.share[i] \in ShareRow
  BY <1>1, <1>2, ElementOfSeq
<1>4. \A i \in DOMAIN t.share :
         Values(t)[i] = t.share[i].value /\ t.share[i].value \in Nat
  BY <1>3 DEF Values, ShareRow
<1>5. IsFiniteSet(1 .. Len(t.share))
  BY <1>2, FS_Interval
<1>6. IsFiniteSet(S)
  BY <1>2, <1>5, FS_Subset
<1>. QED  BY <1>4, <1>6 DEF Summable

LEMMA OpenSummable ==
    ASSUME NEW t \in TablesType, IsFiniteSet(t.request), NEW S \in SUBSET t.request
    PROVE  /\ Summable(Amounts(t), S)
           /\ \A r \in t.request : Amounts(t)[r] = r.amount /\ r.amount \in Nat \ {0}
<1>1. \A r \in t.request : Amounts(t)[r] = r.amount /\ r.amount \in Nat \ {0}
  BY DEF TablesType, RequestRow, Amounts
<1>2. IsFiniteSet(S)
  BY FS_Subset
<1>. QED  BY <1>1, <1>2 DEF Summable

LEMMA SumTypes ==
    ASSUME NEW t \in TablesType, IsFiniteSet(t.request), NEW a
    PROVE  Mined(t, a) \in Nat /\ Open(t, a) \in Nat
<1>1. AccountedOf(t, a) \in SUBSET DOMAIN t.share /\ RequestsOf(t, a) \in SUBSET t.request
  BY DEF AccountedOf, SharesOf, RequestsOf
<1>2. /\ IsFiniteSet(AccountedOf(t, a)) /\ IsFiniteSet(RequestsOf(t, a))
      /\ \A i \in AccountedOf(t, a) : Values(t)[i] \in Nat
      /\ \A r \in RequestsOf(t, a) : Amounts(t)[r] \in Nat
  BY <1>1, MinedSummable, OpenSummable DEF Summable
<1>. QED  BY <1>2, SumNat DEF Mined, Open

(* The same shares or requests, one more share, one more request.             *)
LEMMA MinedSame ==
    ASSUME NEW t \in TablesType, NEW u \in TablesType, NEW a,
           AccountedOf(u, a) = AccountedOf(t, a),
           \A i \in AccountedOf(t, a) : u.share[i].value = t.share[i].value
    PROVE  Mined(u, a) = Mined(t, a)
<1>. DEFINE S == AccountedOf(t, a)
<1>1. S \in SUBSET DOMAIN t.share /\ S \in SUBSET DOMAIN u.share
  BY DEF AccountedOf, SharesOf
<1>2. Summable(Values(t), S) /\ \A i \in S : Values(t)[i] = Values(u)[i]
  BY <1>1, MinedSummable
<1>. QED  BY <1>2, SumCongruent DEF Mined

LEMMA OpenSame ==
    ASSUME NEW t \in TablesType, NEW u \in TablesType,
           IsFiniteSet(t.request), IsFiniteSet(u.request), NEW a,
           RequestsOf(u, a) = RequestsOf(t, a)
    PROVE  Open(u, a) = Open(t, a)
<1>. DEFINE S == RequestsOf(t, a)
<1>1. S \in SUBSET t.request /\ S \in SUBSET u.request
  BY DEF RequestsOf
<1>2. Summable(Amounts(t), S) /\ \A r \in S : Amounts(t)[r] = Amounts(u)[r]
  BY <1>1, OpenSummable
<1>. QED  BY <1>2, SumCongruent DEF Open

LEMMA MinedMore ==
    ASSUME NEW t \in TablesType, NEW u \in TablesType, NEW a,
           NEW i \in DOMAIN t.share, i \notin AccountedOf(t, a),
           AccountedOf(u, a) = AccountedOf(t, a) \cup {i},
           DOMAIN u.share = DOMAIN t.share,
           \A j \in DOMAIN t.share : u.share[j].value = t.share[j].value
    PROVE  Mined(u, a) = Mined(t, a) + t.share[i].value
<1>. DEFINE S == AccountedOf(t, a)
<1>1. S \cup {i} \in SUBSET DOMAIN t.share
  BY DEF AccountedOf, SharesOf
<1>2. /\ Summable(Values(t), S \cup {i})
      /\ \A j \in S \cup {i} : Values(t)[j] = Values(u)[j]
      /\ Values(t)[i] = t.share[i].value
  BY <1>1, MinedSummable
<1>3. SumFunctionOnSet(Values(t), S \cup {i}) = SumFunctionOnSet(Values(u), S \cup {i})
  BY <1>2, SumCongruent
<1>4. SumFunctionOnSet(Values(t), S \cup {i}) =
        SumFunctionOnSet(Values(t), S) + Values(t)[i]
  BY <1>2, SumAdd, ZenonT(60)
<1>. QED  BY <1>2, <1>3, <1>4 DEF Mined

LEMMA OpenMore ==
    ASSUME NEW t \in TablesType, NEW u \in TablesType,
           IsFiniteSet(t.request), IsFiniteSet(u.request), NEW a,
           NEW r \in u.request, r \notin t.request,
           RequestsOf(u, a) = RequestsOf(t, a) \cup {r}
    PROVE  Open(u, a) = Open(t, a) + r.amount
<1>. DEFINE S == RequestsOf(t, a)
<1>1. S \in SUBSET t.request /\ S \cup {r} \in SUBSET u.request /\ r \notin S
  BY DEF RequestsOf
<1>2. /\ Summable(Amounts(t), S) /\ Summable(Amounts(u), S \cup {r})
      /\ \A q \in S : Amounts(t)[q] = Amounts(u)[q]
      /\ Amounts(u)[r] = r.amount
  BY <1>1, OpenSummable
<1>3. SumFunctionOnSet(Amounts(t), S) = SumFunctionOnSet(Amounts(u), S)
  BY <1>2, SumCongruent
<1>4. SumFunctionOnSet(Amounts(u), S \cup {r}) =
        SumFunctionOnSet(Amounts(u), S) + Amounts(u)[r]
  BY <1>1, <1>2, SumAdd
<1>. QED  BY <1>2, <1>3, <1>4 DEF Open

-----------------------------------------------------------------------------
(* An address that a step does not touch keeps its rules.                    *)
LEMMA AddrKept ==
    ASSUME NEW t \in TablesType, NEW u \in TablesType,
           IsFiniteSet(t.request), IsFiniteSet(u.request), NEW a,
           u.address[a] = t.address[a],
           AccountedOf(u, a) = AccountedOf(t, a),
           \A i \in AccountedOf(t, a) : u.share[i].value = t.share[i].value,
           RequestsOf(u, a) = RequestsOf(t, a),
           SmallShares(u, a) => SmallShares(t, a),
           AddrInv(t, a)
    PROVE  AddrInv(u, a)
<1>1. Mined(u, a) = Mined(t, a) /\ Open(u, a) = Open(t, a)
  BY MinedSame, OpenSame
<1>. QED  BY <1>1, Zenon DEF AddrInv, RowInv

(* The fields of the session's tables, before and after a step.              *)
LEMMA Fields ==
    /\ Tables.share = share /\ Tables.request = request /\ Tables.address = address
    /\ Tables'.share = share' /\ Tables'.request = request'
    /\ Tables'.address = address'
BY DEF Tables

LEMMA LedgerInit == Init => LedgerInv(Tables)
<1>. SUFFICES ASSUME Init, NEW a \in Addr PROVE AddrInv(Tables, a)
  BY DEF LedgerInv
<1>1. address[a] = NewAddress /\ share = <<>> /\ request = {}
  BY DEF Init
<1>2. AccountedOf(Tables, a) = {} /\ RequestsOf(Tables, a) = {}
  BY <1>1, Fields DEF AccountedOf, SharesOf, RequestsOf
<1>3. Mined(Tables, a) = 0 /\ Open(Tables, a) = 0
  BY <1>2, SumEmpty DEF Mined, Open
<1>4. COIN \in Nat /\ PayLimit(a) \in Nat
  BY AmountAssumption, PayoutAmountType
<1>. QED  BY <1>1, <1>3, <1>4, Fields DEF AddrInv, RowInv, NewAddress

(* A message adds shares that are not yet accounted.                         *)
LEMMA LedgerDataStep ==
    ASSUME TypeOK, TypeOK', LedgerInv(Tables), HandleData
    PROVE  LedgerInv(Tables')
<1>. SUFFICES ASSUME NEW a \in Addr PROVE AddrInv(Tables', a)
  BY DEF LedgerInv
<1>1. /\ Tables \in TablesType /\ Tables' \in TablesType
      /\ IsFiniteSet(Tables.request) /\ IsFiniteSet(Tables'.request)
      /\ share \in Seq(ShareRow)
  BY Fields, TypeTables DEF TypeOK
<1>2. request' = request /\ address' = address
  BY DEF HandleData
<1>. DEFINE Extended ==
         /\ DOMAIN share \subseteq DOMAIN share'
         /\ \A i \in DOMAIN share : share'[i] = share[i]
         /\ \A i \in DOMAIN share' \ DOMAIN share : share'[i].accounted = FALSE
<1>3. Extended
  <2>1. PICK addr \in Addr, len \in Lengths :
           HandleShare(addr, len) \/ \E gen \in GenValues : HandleBlock(addr, len, gen)
    BY DEF HandleData
  <2>2. CASE HandleShare(addr, len)
    BY <1>1, <2>2 DEF HandleShare
  <2>3. ASSUME NEW gen \in GenValues, HandleBlock(addr, len, gen)
        PROVE  Extended
    BY <1>1, <2>3, SMTT(30) DEF HandleBlock
  <2>. QED  BY <2>1, <2>2, <2>3
<1>4. AccountedOf(Tables', a) = AccountedOf(Tables, a)
  BY <1>3, Fields DEF AccountedOf, SharesOf
<1>5. /\ \A i \in AccountedOf(Tables, a) : Tables'.share[i].value = Tables.share[i].value
      /\ SmallShares(Tables', a) => SmallShares(Tables, a)
  BY <1>3, Fields DEF AccountedOf, SharesOf, SmallShares
<1>6. RequestsOf(Tables', a) = RequestsOf(Tables, a)
  BY <1>2, Fields DEF RequestsOf
<1>. QED  BY <1>1, <1>2, <1>4, <1>5, <1>6, Fields, AddrKept DEF LedgerInv

(* A step that touches none of the three tables.                             *)
LEMMA LedgerSame ==
    ASSUME LedgerInv(Tables), UNCHANGED <<share, request, address>>
    PROVE  LedgerInv(Tables')
<1>. SUFFICES ASSUME NEW a \in Addr PROVE AddrInv(Tables', a)
  BY DEF LedgerInv
<1>1. /\ Tables'.share = Tables.share /\ Tables'.request = Tables.request
      /\ Tables'.address = Tables.address
  BY Fields
<1>2. /\ Mined(Tables', a) = Mined(Tables, a) /\ Open(Tables', a) = Open(Tables, a)
      /\ SmallShares(Tables', a) = SmallShares(Tables, a)
  BY <1>1, Zenon DEF Mined, Open, Values, AccountedOf, SharesOf, Amounts, RequestsOf,
     SmallShares
<1>3. AddrInv(Tables, a)
  BY DEF LedgerInv
<1>. QED  BY <1>1, <1>2, <1>3, Zenon DEF AddrInv

(* A share is accounted.                                                     *)
LEMMA LedgerShareStep ==
    ASSUME TypeOK, TypeOK', Fresh, LedgerInv(Tables), AccountShare
    PROVE  LedgerInv(Tables')
<1>1. PICK i \in NextShares : Credit(i)
  BY DEF AccountShare
<1>. DEFINE a == share[i].addr
            v == share[i].value
            asked == PayoutAmount(a, address[a])
            amount == IF Due(a, v) THEN asked ELSE 0
            row == Credited(address[a], v, amount)
            new == NewRequest(a, i)
<1>2. /\ share' = [share EXCEPT ![i].accounted = TRUE]
      /\ address' = [address EXCEPT ![a] = row]
      /\ request' = request \cup (IF Due(a, v) THEN {new} ELSE {})
  BY <1>1, Zenon DEF Credit
<1>3. /\ i \in DOMAIN share /\ share[i] \in ShareRow /\ ~share[i].accounted
      /\ a \in Addr /\ v \in Nat /\ address[a] \in AddressRow /\ i \in Nat
      /\ asked \in Nat \ {0} /\ amount \in Nat
      /\ COIN \in Nat \ {0} /\ PayLimit(a) \in Nat \ {0} /\ COIN <= PayLimit(a)
      /\ asked \in {COIN, PayLimit(a)}
  BY CreditArgs, PayoutAmountType, AmountAssumption
<1>4. /\ Tables \in TablesType /\ Tables' \in TablesType
      /\ IsFiniteSet(Tables.request) /\ IsFiniteSet(Tables'.request)
      /\ share \in Seq(ShareRow) /\ address \in [Addr -> AddressRow]
  BY Fields, TypeTables DEF TypeOK
<1>5. /\ DOMAIN share' = DOMAIN share
      /\ \A j \in DOMAIN share : /\ share'[j].addr = share[j].addr
                                 /\ share'[j].value = share[j].value
      /\ \A j \in DOMAIN share \ {i} : share'[j].accounted = share[j].accounted
      /\ share'[i].accounted
  BY <1>2, <1>3, <1>4 DEF ShareRow
<1>6. /\ new.addr = a /\ new.amount = asked
      /\ new \notin request
  <2>1. new.addr = a /\ new.amount = asked /\ new.time = currtime /\ new.share = i
    BY DEF NewRequest
  <2>2. pc = "shares"
    BY DEF AccountShare
  <2>. QED  BY <1>3, <2>1, <2>2 DEF Fresh
<1>. HIDE DEF new
<1>7. ASSUME NEW b \in Addr, b # a PROVE AddrInv(Tables', b)
  <2>1. address'[b] = address[b]
    BY <1>2, <1>4, <1>7
  <2>2. AccountedOf(Tables', b) = AccountedOf(Tables, b)
    BY <1>3, <1>5, <1>7, Fields DEF AccountedOf, SharesOf
  <2>3. /\ \A j \in AccountedOf(Tables, b) : Tables'.share[j].value = Tables.share[j].value
        /\ SmallShares(Tables', b) => SmallShares(Tables, b)
    BY <1>5, Fields DEF AccountedOf, SharesOf, SmallShares
  <2>4. RequestsOf(Tables', b) = RequestsOf(Tables, b)
    BY <1>2, <1>6, <1>7, Fields DEF RequestsOf
  <2>. QED  BY <1>4, <2>1, <2>2, <2>3, <2>4, Fields, AddrKept DEF LedgerInv
<1>8. AddrInv(Tables', a)
  <2>1. Mined(Tables', a) = Mined(Tables, a) + v
    <3>1. /\ i \notin AccountedOf(Tables, a)
          /\ AccountedOf(Tables', a) = AccountedOf(Tables, a) \cup {i}
      BY <1>3, <1>5, Fields DEF AccountedOf, SharesOf
    <3>. QED  BY <1>3, <1>4, <1>5, <3>1, Fields, MinedMore
  <2>2. Open(Tables', a) = Open(Tables, a) + amount
    <3>1. CASE Due(a, v)
      <4>1. /\ new \in Tables'.request /\ new \notin Tables.request
            /\ RequestsOf(Tables', a) = RequestsOf(Tables, a) \cup {new}
        BY <1>2, <1>6, <3>1, Fields DEF RequestsOf
      <4>. QED  BY <1>4, <1>6, <3>1, <4>1, OpenMore
    <3>2. CASE ~Due(a, v)
      <4>1. RequestsOf(Tables', a) = RequestsOf(Tables, a)
        BY <1>2, <3>2, Fields DEF RequestsOf
      <4>2. Open(Tables, a) \in Nat
        BY <1>4, SumTypes
      <4>. QED  BY <1>4, <3>2, <4>1, <4>2, OpenSame
    <3>. QED  BY <3>1, <3>2
  <2>3. SmallShares(Tables', a) => SmallShares(Tables, a) /\ v <= PayLimit(a)
    BY <1>3, <1>5, Fields DEF SmallShares, SharesOf
  <2>4. /\ row.Balance = address[a].Balance + v
        /\ row.Requested = address[a].Requested + amount
        /\ row.Paid = address[a].Paid
        /\ row.Blocked = address[a].Blocked
        /\ address'[a] = row
    <3>1. v \in Int /\ amount \in Int
      BY <1>3
    <3>2. address'[a] = row
      BY <1>2, <1>3, <1>4, Zenon
    <3>. HIDE DEF amount, a, v
    <3>. QED  BY <1>3, <3>1, <3>2, CreditedRow DEF row
  <2>5. /\ address[a].Balance \in Int /\ address[a].Requested \in Int
        /\ address[a].Paid \in Nat /\ address[a].Blocked \in BOOLEAN
        /\ Mined(Tables, a) \in Nat /\ Open(Tables, a) \in Nat
    BY <1>3, <1>4, SumTypes DEF AddressRow
  <2>6. RowInv(address[a], Mined(Tables, a), Open(Tables, a),
               SmallShares(Tables, a), PayLimit(a))
    BY <1>3, Fields DEF LedgerInv, AddrInv
  <2>. HIDE DEF row
  <2>7. RowInv(row, Mined(Tables, a) + v, Open(Tables, a) + amount,
               SmallShares(Tables', a), PayLimit(a))
    <3>1. CASE Due(a, v)
      <4>1. /\ address[a].Balance + v - address[a].Requested > asked
            /\ ~address[a].Blocked /\ amount = asked
        BY <3>1 DEF Due
      <4>2. asked = PayLimit(a)
              \/ (asked = COIN /\ address[a].Requested = 0 /\ address[a].Paid = 0)
        BY <1>3 DEF PayoutAmount
      <4>. HIDE DEF a, v, asked, amount
      <4>. QED  BY <1>3, <2>3, <2>4, <2>5, <2>6, <4>1, <4>2 DEF RowInv
    <3>2. CASE ~Due(a, v)
      <4>1. amount = 0
        BY <3>2
      <4>2. address[a].Blocked \/ address[a].Balance + v - address[a].Requested <= asked
        BY <1>3, <2>5, <3>2 DEF Due
      <4>3. address[a].Requested = 0 /\ address[a].Paid = 0 => asked = COIN
        BY DEF PayoutAmount
      <4>. HIDE DEF a, v, asked, amount
      <4>. QED  BY <1>3, <2>3, <2>4, <2>5, <2>6, <4>1, <4>2, <4>3 DEF RowInv
    <3>. QED  BY <3>1, <3>2
  <2>. QED  BY <2>1, <2>2, <2>4, <2>7, Fields DEF AddrInv
<1>. QED  BY <1>7, <1>8 DEF LedgerInv

(* The final payout: each address that is due asks for what it has left.     *)
LEMMA LedgerPayoutStep ==
    ASSUME TypeOK, TypeOK', Fresh, LedgerInv(Tables), BeginPayout
    PROVE  LedgerInv(Tables')
<1>1. /\ Tables \in TablesType /\ Tables' \in TablesType
      /\ IsFiniteSet(Tables.request) /\ IsFiniteSet(Tables'.request)
      /\ address \in [Addr -> AddressRow]
  BY Fields, TypeTables DEF TypeOK
<1>2. /\ share' = share /\ request' = request \cup {FinalRequest(b) : b \in FinalDue}
      /\ address' = [b \in Addr |-> IF b \in FinalDue
                       THEN [address[b] EXCEPT !.Requested = address[b].Balance]
                       ELSE address[b]]
  BY Zenon DEF BeginPayout, FinalRequest
<1>3. \A b : /\ FinalRequest(b).addr = b /\ FinalRequest(b) \notin request
             /\ FinalRequest(b).amount = address[b].Balance - address[b].Requested
  <2>1. pc = "shares" /\ share \in Seq(ShareRow)
    BY TypeTables DEF BeginPayout
  <2>2. 0 \notin DOMAIN share
    BY <2>1
  <2>. QED  BY <2>1, <2>2 DEF Fresh, FinalRequest
<1>4. FinalDue \subseteq Addr
  BY DEF FinalDue
<1>. SUFFICES ASSUME NEW a \in Addr PROVE AddrInv(Tables', a)
  BY DEF LedgerInv
<1>5. AddrInv(Tables, a)
  BY DEF LedgerInv
<1>6. /\ AccountedOf(Tables', a) = AccountedOf(Tables, a)
      /\ \A i \in AccountedOf(Tables, a) : Tables'.share[i].value = Tables.share[i].value
      /\ SmallShares(Tables', a) = SmallShares(Tables, a)
  BY <1>2, Fields DEF AccountedOf, SharesOf, SmallShares
<1>7. CASE a \notin FinalDue
  <2>1. RequestsOf(Tables', a) = RequestsOf(Tables, a)
    BY <1>2, <1>3, <1>7, Fields DEF RequestsOf
  <2>. QED  BY <1>1, <1>2, <1>5, <1>6, <1>7, <2>1, Fields, AddrKept
<1>8. CASE a \in FinalDue
  <2>. DEFINE new == FinalRequest(a)
              row == address'[a]
  <2>1. Mined(Tables', a) = Mined(Tables, a)
    BY <1>1, <1>6, MinedSame
  <2>2. Open(Tables', a) = Open(Tables, a) + (address[a].Balance - address[a].Requested)
    <3>1. /\ new \in Tables'.request /\ new \notin Tables.request
          /\ RequestsOf(Tables', a) = RequestsOf(Tables, a) \cup {new}
          /\ new.amount = address[a].Balance - address[a].Requested
      BY <1>2, <1>3, <1>8, Fields DEF RequestsOf
    <3>. HIDE DEF new
    <3>. QED  BY <1>1, <3>1, OpenMore
  <2>3. /\ address[a].Balance \in Int /\ address[a].Requested \in Int
        /\ address[a].Paid \in Nat /\ address[a].Blocked \in BOOLEAN
        /\ Mined(Tables, a) \in Nat /\ Open(Tables, a) \in Nat
    BY <1>1, SumTypes DEF AddressRow
  <2>4. /\ row.Balance = address[a].Balance /\ row.Requested = address[a].Balance
        /\ row.Paid = address[a].Paid /\ row.Blocked = address[a].Blocked
    BY <1>1, <1>2, <1>8 DEF AddressRow
  <2>5. RowInv(address[a], Mined(Tables, a), Open(Tables, a),
               SmallShares(Tables, a), PayLimit(a))
    BY <1>5, Fields DEF AddrInv
  <2>6. COIN \in Nat /\ PayLimit(a) \in Nat
    BY AmountAssumption, PayoutAmountType
  <2>. HIDE DEF row
  <2>7. RowInv(row, Mined(Tables', a), Open(Tables', a),
               SmallShares(Tables', a), PayLimit(a))
    BY <1>6, <2>1, <2>2, <2>3, <2>4, <2>5, <2>6 DEF RowInv
  <2>. QED  BY <2>7, Fields DEF AddrInv, row
<1>. QED  BY <1>7, <1>8

(* A request is dropped: it is paid, or its address is blocked.              *)
LEMMA LedgerDrop ==
    ASSUME TypeOK, TypeOK', LedgerInv(Tables), NEW r \in request,
           UNCHANGED share, request' = request \ {r},
           \A b \in Addr : b # r.addr => address'[b] = address[b],
           \/ address'[r.addr] = PaidOut(address[r.addr], r.amount)
           \/ /\ address'[r.addr].Balance = address[r.addr].Balance
              /\ address'[r.addr].Requested = address[r.addr].Requested
              /\ address'[r.addr].Paid = address[r.addr].Paid
              /\ address'[r.addr].Blocked
    PROVE  LedgerInv(Tables')
<1>. DEFINE a == r.addr
            old == address[a]
            row == address'[a]
<1>1. /\ Tables \in TablesType /\ Tables' \in TablesType
      /\ IsFiniteSet(Tables.request) /\ IsFiniteSet(Tables'.request)
      /\ address \in [Addr -> AddressRow] /\ a \in Addr /\ r.amount \in Nat \ {0}
  BY Fields, TypeTables DEF TypeOK, RequestRow
<1>2. \A b \in Addr :
         /\ AccountedOf(Tables', b) = AccountedOf(Tables, b)
         /\ \A i \in AccountedOf(Tables, b) : Tables'.share[i].value = Tables.share[i].value
         /\ SmallShares(Tables', b) = SmallShares(Tables, b)
  BY Fields DEF AccountedOf, SharesOf, SmallShares
<1>3. ASSUME NEW b \in Addr, b # a PROVE AddrInv(Tables', b)
  <2>1. RequestsOf(Tables', b) = RequestsOf(Tables, b)
    BY <1>3, Fields DEF RequestsOf
  <2>. QED  BY <1>1, <1>2, <1>3, <2>1, Fields, AddrKept DEF LedgerInv
<1>4. AddrInv(Tables', a)
  <2>1. Mined(Tables', a) = Mined(Tables, a)
    BY <1>1, <1>2, MinedSame
  <2>2. Open(Tables, a) = Open(Tables', a) + r.amount
    <3>1. /\ r \in Tables.request /\ r \notin Tables'.request
          /\ RequestsOf(Tables, a) = RequestsOf(Tables', a) \cup {r}
      BY Fields DEF RequestsOf
    <3>. QED  BY <1>1, <3>1, OpenMore
  <2>3. /\ old.Balance \in Int /\ old.Requested \in Int /\ old.Paid \in Nat
        /\ old.Blocked \in BOOLEAN
        /\ Mined(Tables, a) \in Nat /\ Open(Tables, a) \in Nat /\ Open(Tables', a) \in Nat
        /\ old \in AddressRow
    BY <1>1, SumTypes DEF AddressRow
  <2>4. RowInv(old, Mined(Tables, a), Open(Tables, a),
               SmallShares(Tables, a), PayLimit(a))
    BY <1>1, Fields DEF LedgerInv, AddrInv
  <2>5. \/ /\ row.Balance = old.Balance - r.amount
           /\ row.Requested = old.Requested - r.amount
           /\ row.Paid = old.Paid + r.amount /\ row.Blocked = old.Blocked
        \/ /\ row.Balance = old.Balance /\ row.Requested = old.Requested
           /\ row.Paid = old.Paid /\ row.Blocked
    <3>1. CASE row = PaidOut(old, r.amount)
      <4>. HIDE DEF row, old
      <4>. QED  BY <1>1, <2>3, <3>1, PaidRow
    <3>. QED  BY <3>1
  <2>6. COIN \in Nat /\ PayLimit(a) \in Nat
    BY <1>1, AmountAssumption, PayoutAmountType
  <2>. HIDE DEF row, old, a
  <2>7. RowInv(row, Mined(Tables, a), Open(Tables', a),
               SmallShares(Tables, a), PayLimit(a))
    <3>1. CASE row.Paid = old.Paid + r.amount /\ row.Blocked = old.Blocked
                /\ row.Balance = old.Balance - r.amount
                /\ row.Requested = old.Requested - r.amount
      <4>1. r.amount \in Nat \ {0}
        BY <1>1
      <4>2. ~row.Blocked => ~old.Blocked
        BY <3>1, Zenon
      <4>3. row.Paid # 0
        BY <2>3, <3>1, <4>1
      <4>. QED  BY <2>2, <2>3, <2>4, <2>6, <3>1, <4>1, <4>2, <4>3 DEF RowInv
    <3>2. CASE row.Blocked /\ row.Balance = old.Balance
                /\ row.Requested = old.Requested /\ row.Paid = old.Paid
      BY <1>1, <2>2, <2>3, <2>4, <2>6, <3>2 DEF RowInv
    <3>. QED  BY <2>5, <3>1, <3>2
  <2>. QED  BY <1>1, <1>2, <2>1, <2>7, Fields DEF AddrInv, row
<1>. QED  BY <1>3, <1>4 DEF LedgerInv

LEMMA LedgerPayStep ==
    ASSUME TypeOK, TypeOK', LedgerInv(Tables), Pay
    PROVE  LedgerInv(Tables')
<1>1. PICK r \in NextRequests :
         PayInvalid(r) \/ PayEmpty(r) \/ PaySent(r) \/ PayFailed(r) \/ PayRejected(r)
  BY DEF Pay
<1>2. r \in request /\ r.addr \in Addr /\ UNCHANGED share
      /\ address \in [Addr -> AddressRow]
  BY TypeTables DEF Pay, TypeOK, NextRequests, RequestRow
<1>3. CASE PayEmpty(r) \/ PayFailed(r) \/ PayRejected(r)
  BY <1>2, <1>3, LedgerSame DEF PayEmpty, PayFailed, PayRejected
<1>4. CASE PayInvalid(r)
  <2>1. /\ request' = request \ {r}
        /\ address' = [address EXCEPT ![r.addr].Blocked = TRUE]
    BY <1>4 DEF PayInvalid, Drop
  <2>2. /\ \A b \in Addr : b # r.addr => address'[b] = address[b]
        /\ address'[r.addr].Balance = address[r.addr].Balance
        /\ address'[r.addr].Requested = address[r.addr].Requested
        /\ address'[r.addr].Paid = address[r.addr].Paid
        /\ address'[r.addr].Blocked
    BY <1>2, <2>1 DEF AddressRow
  <2>. QED  BY <1>2, <2>1, <2>2, LedgerDrop
<1>5. CASE PaySent(r)
  <2>1. /\ request' = request \ {r}
        /\ address' = [address EXCEPT ![r.addr] = PaidOut(address[r.addr], r.amount)]
    BY <1>5 DEF PaySent, Drop, Book
  <2>2. /\ \A b \in Addr : b # r.addr => address'[b] = address[b]
        /\ address'[r.addr] = PaidOut(address[r.addr], r.amount)
    BY <1>2, <2>1
  <2>. QED  BY <1>2, <2>1, <2>2, LedgerDrop
<1>. QED  BY <1>1, <1>3, <1>4, <1>5

LEMMA FreshStep ==
    ASSUME TypeOK, Fresh, [Next]_vars
    PROVE  Fresh'
<1>1. CASE BeginAccounting
  <2>. DEFINE S == {0} \cup {r.time : r \in request}
  <2>1. \A x \in S : x < 1 + Max(S)
    <3>1. \A r \in request : r.time \in Nat
      BY TypeTables DEF RequestRow
    <3>2. IsFiniteSet(S) /\ S \subseteq Nat /\ S # {}
      <4>. DEFINE f == [r \in request |-> r.time]
                  R == {f[r] : r \in request}
      <4>1. IsFiniteSet(R)
        BY FiniteImage DEF TypeOK
      <4>2. IsFiniteSet(R \cup {0})
        BY <4>1, FS_AddElement
      <4>3. R \cup {0} = S
        OBVIOUS
      <4>4. IsFiniteSet(S)
        BY <4>2, <4>3, Zenon
      <4>. QED  BY <3>1, <4>4
    <3>. QED  BY <3>2, MaxNat
  <2>2. \A r \in request : r.time # currtime'
    <3>1. \A r \in request : r.time \in S /\ r.time \in Nat
      BY TypeTables DEF RequestRow
    <3>2. currtime' = 1 + Max(S) /\ currtime' \in Nat
      BY <1>1, TypeBeginStep DEF BeginAccounting, TypeOK
    <3>. HIDE DEF S
    <3>. QED  BY <2>1, <3>1, <3>2
  <2>. QED  BY <1>1, <2>2 DEF Fresh, BeginAccounting
<1>2. CASE AccountShare
  <2>1. PICK i \in NextShares : Credit(i)
    BY <1>2 DEF AccountShare
  <2>2. /\ share' = [share EXCEPT ![i].accounted = TRUE]
        /\ request' \subseteq request \cup {NewRequest(share[i].addr, i)}
    BY <2>1 DEF Credit
  <2>3. i \in DOMAIN share' /\ share'[i].accounted /\ DOMAIN share' = DOMAIN share
        /\ \A j \in DOMAIN share \ {i} : share'[j] = share[j]
    BY <2>2, CreditArgs, TypeTables DEF ShareRow
  <2>4. NewRequest(share[i].addr, i).share = i
    BY DEF NewRequest
  <2>. QED  BY <1>2, <2>2, <2>3, <2>4 DEF Fresh, AccountShare
<1>3. CASE Start \/ HandleData \/ BeginPayout \/ Pay \/ Commit \/ Crash \/ Shutdown
  BY <1>3 DEF Fresh, Start, HandleData, BeginPayout, Pay, Commit, Crash, Shutdown, Forget
<1>4. CASE Environment
  BY <1>4 DEF Fresh, Environment, tables
<1>5. CASE UNCHANGED vars
  BY <1>5 DEF Fresh, vars, tables
<1>. QED  BY <1>1, <1>2, <1>3, <1>4, <1>5 DEF Next, Accounting

LEMMA LedgerStep ==
    ASSUME TypeOK, TypeOK', Fresh, LedgerInv(Tables), LedgerInv(saved), [Next]_vars
    PROVE  LedgerInv(Tables') /\ LedgerInv(saved')
<1>1. LedgerInv(Tables')
  <2>1. CASE BeginAccounting \/ Commit \/ Start \/ Shutdown \/ Environment
              \/ UNCHANGED vars
    BY <2>1, LedgerSame DEF BeginAccounting, Commit, Start, Shutdown, Environment,
       vars, tables
  <2>2. CASE Crash
    <3>1. /\ share' = saved.share /\ block' = saved.block
          /\ request' = saved.request /\ address' = saved.address
      BY <2>2 DEF Crash, Rollback
    <3>2. Tables' = saved
      BY <3>1, TypeTables DEF Tables
    <3>. QED  BY <3>2
  <2>. QED  BY <2>1, <2>2, LedgerDataStep, LedgerShareStep, LedgerPayoutStep,
            LedgerPayStep DEF Next, Accounting
<1>2. saved' = saved \/ saved' = Tables'
  BY DEF Next, Accounting, Start, HandleData, BeginAccounting, AccountShare,
     BeginPayout, Pay, Commit, Crash, Shutdown, Environment, CommitTransaction, vars
<1>. QED  BY <1>1, <1>2

-----------------------------------------------------------------------------
(* The ledger and the wallet.                                                *)

LEMMA PaidInit == Init => PaidInv
BY DEF Init, PaidInv, WalletInv, Tables, NewAddress

LEMMA PaidStep ==
    ASSUME TypeOK, TypeOK', PaidInv, [Next]_vars
    PROVE  PaidInv'
<1>. SUFFICES ASSUME NEW a \in Addr PROVE WalletInv(a)'
  BY DEF PaidInv
<1>. DEFINE Same ==
              /\ address'[a].Paid = address[a].Paid
              /\ UNCHANGED <<sent, tainted>>
              /\ saved' = Tables' \/ UNCHANGED <<saved, unsaved>>
<1>1. /\ address \in [Addr -> AddressRow] /\ address[a] \in AddressRow
      /\ address[a].Paid \in Nat /\ saved.address[a].Paid \in Nat
      /\ sent \in [Addr -> Nat] /\ sent[a] \in Nat
  BY TypeTables DEF TypeOK, AddressRow
<1>2. WalletInv(a)
  BY DEF PaidInv
<1>3. CASE Same
  BY <1>1, <1>2, <1>3, Fields DEF WalletInv
<1>4. CASE Start \/ HandleData \/ BeginAccounting \/ Commit \/ Shutdown \/ Environment
            \/ UNCHANGED vars
  <2>1. UNCHANGED address
    BY <1>4 DEF Start, HandleData, BeginAccounting, Commit, Shutdown, Environment,
       vars, tables
  <2>2. UNCHANGED <<sent, tainted>> /\ (saved' = Tables' \/ UNCHANGED <<saved, unsaved>>)
    BY <1>4 DEF Start, HandleData, BeginAccounting, Commit, Shutdown, Environment,
       vars, tables, history, CommitTransaction
  <2>. QED  BY <1>3, <2>1, <2>2
<1>5. CASE AccountShare
  <2>1. PICK i \in NextShares : Credit(i)
    BY <1>5 DEF AccountShare
  <2>. DEFINE b == share[i].addr
              v == share[i].value
              amount == IF Due(b, v) THEN PayoutAmount(b, address[b]) ELSE 0
  <2>2. address' = [address EXCEPT ![b] = Credited(address[b], v, amount)]
    BY <2>1, Zenon DEF Credit
  <2>3. b \in Addr /\ v \in Int /\ amount \in Int /\ address[b] \in AddressRow
    BY CreditArgs, PayoutAmountType
  <2>4. Credited(address[b], v, amount).Paid = address[b].Paid
    BY <2>3, CreditedRow
  <2>5. address'[a].Paid = address[a].Paid
    BY <1>1, <2>2, <2>3, <2>4
  <2>. QED  BY <1>3, <1>5, <2>5 DEF AccountShare, history
<1>6. CASE BeginPayout
  <2>1. address'[a].Paid = address[a].Paid
    BY <1>1, <1>6 DEF BeginPayout, AddressRow
  <2>. QED  BY <1>3, <1>6, <2>1 DEF BeginPayout, history
<1>7. CASE Pay
  <2>1. PICK r \in NextRequests :
           PayInvalid(r) \/ PayEmpty(r) \/ PaySent(r) \/ PayFailed(r) \/ PayRejected(r)
    BY <1>7 DEF Pay
  <2>2. r.addr \in Addr /\ r.amount \in Nat /\ UNCHANGED saved
    BY <1>7, TypeTables DEF Pay, TypeOK, NextRequests, RequestRow
  <2>3. CASE PayInvalid(r) \/ PayEmpty(r) \/ PayFailed(r)
    <3>1. address'[a].Paid = address[a].Paid
      BY <1>1, <2>2, <2>3 DEF PayInvalid, PayEmpty, PayFailed, AddressRow
    <3>. QED  BY <1>3, <2>2, <2>3, <3>1 DEF PayInvalid, PayEmpty, PayFailed, history
  <2>4. CASE PaySent(r)
    <3>1. /\ address' = [address EXCEPT ![r.addr] = PaidOut(address[r.addr], r.amount)]
          /\ sent' = [sent EXCEPT ![r.addr] = @ + r.amount]
          /\ tainted' = tainted /\ unsaved'
      BY <2>4, Zenon DEF PaySent, Book, Record
    <3>2. \/ address'[a].Paid = address[a].Paid /\ sent'[a] = sent[a]
          \/ address'[a].Paid = address[a].Paid + r.amount /\ sent'[a] = sent[a] + r.amount
      <4>1. CASE a = r.addr
        <5>1. PaidOut(address[a], r.amount).Paid = address[a].Paid + r.amount
          BY <1>1, <2>2, PaidRow
        <5>2. address'[a] = PaidOut(address[a], r.amount) /\ sent'[a] = sent[a] + r.amount
          BY <1>1, <3>1, <4>1, Zenon
        <5>. QED  BY <5>1, <5>2
      <4>2. CASE a # r.addr
        <5>1. address'[a] = address[a] /\ sent'[a] = sent[a]
          BY <1>1, <3>1, <4>2, Zenon
        <5>. QED  BY <5>1
      <4>. QED  BY <4>1, <4>2
    <3>3. /\ ~tainted => address[a].Paid = sent[a]
          /\ address[a].Paid <= sent[a] /\ saved.address[a].Paid <= sent[a]
      BY <1>2 DEF WalletInv
    <3>4. saved'.address[a].Paid = saved.address[a].Paid
      BY <2>2
    <3>5. /\ ~tainted' => address'[a].Paid = sent'[a]
          /\ address'[a].Paid <= sent'[a]
      BY <1>1, <2>2, <3>1, <3>2, <3>3
    <3>6. saved'.address[a].Paid <= sent'[a]
      BY <1>1, <2>2, <3>2, <3>3, <3>4
    <3>. QED  BY <3>1, <3>5, <3>6 DEF WalletInv
  <2>5. CASE PayRejected(r)
    <3>1. UNCHANGED address /\ tainted' /\ sent' = [sent EXCEPT ![r.addr] = @ + r.amount]
      BY <2>5 DEF PayRejected, Record
    <3>2. sent'[a] >= sent[a] /\ sent'[a] \in Nat
      BY <1>1, <2>2, <3>1
    <3>. QED  BY <1>1, <1>2, <2>2, <3>1, <3>2 DEF WalletInv
  <2>. QED  BY <2>1, <2>3, <2>4, <2>5
<1>8. CASE Crash
  <2>1. /\ address' = saved.address /\ UNCHANGED <<saved, sent>>
        /\ tainted' = (tainted \/ unsaved)
    BY <1>8 DEF Crash, Rollback
  <2>. QED  BY <1>2, <2>1, Zenon DEF WalletInv
<1>. QED  BY <1>4, <1>5, <1>6, <1>7, <1>8 DEF Next, Accounting

-----------------------------------------------------------------------------
(* Inv is inductive.                                                         *)

LEMMA InvInit == Init => Inv
<1>. SUFFICES ASSUME Init PROVE Inv
  OBVIOUS
<1>1. Fresh /\ saved = Tables
  BY DEF Init, Fresh
<1>. QED  BY <1>1, TypeInit, PaidInit, LedgerInit DEF Inv

LEMMA InvStep == Inv /\ [Next]_vars => Inv'
<1>. SUFFICES ASSUME Inv, [Next]_vars PROVE Inv'
  OBVIOUS
<1>1. TypeOK'
  BY TypeStep DEF Inv
<1>. QED  BY <1>1, FreshStep, LedgerStep, PaidStep DEF Inv

LEMMA InvAlways == Spec => []Inv
BY InvInit, InvStep, PTL DEF Spec

(* What AddrInv says of the tables, rule by rule.                            *)
LEMMA LedgerRules ==
    ASSUME NEW t, LedgerInv(t)
    PROVE  Balanced(t) /\ Booked(t) /\ WithinBalance(t) /\ Unrequested(t)
BY Zenon DEF LedgerInv, AddrInv, RowInv, Mined, Open, Balanced, Booked,
   WithinBalance, Unrequested

(* No share is ever credited twice, lost, or credited to another address,    *)
(* in the session or in the committed tables.                                *)
THEOREM LedgerAlwaysBalanced == Spec => []LedgerBalanced
<1>1. Inv => LedgerBalanced
  BY LedgerRules DEF Inv, LedgerBalanced, Ledgers
<1>. QED  BY <1>1, InvAlways, PTL

(* Requested is always the sum of the open requests, up to what a blocked    *)
(* address lost.                                                             *)
THEOREM RequestsAlwaysBooked == Spec => []RequestsBooked
<1>1. Inv => RequestsBooked
  BY LedgerRules DEF Inv, RequestsBooked, Ledgers
<1>. QED  BY <1>1, InvAlways, PTL

(* No address ever asks for more than it owns.                               *)
THEOREM AlwaysWithinBalance == Spec => []RequestedWithinBalance
<1>1. Inv => RequestedWithinBalance
  BY LedgerRules DEF Inv, RequestedWithinBalance, Ledgers
<1>. QED  BY <1>1, InvAlways, PTL

(* What an address has not asked for stays below its payout limit.           *)
THEOREM UnrequestedAlwaysBounded == Spec => []UnrequestedBounded
<1>1. Inv => UnrequestedBounded
  BY LedgerRules DEF Inv, UnrequestedBounded, Ledgers
<1>. QED  BY <1>1, InvAlways, PTL

(* Payments are neither repeated nor forgotten, but for the two faults that  *)
(* taint the ledger: a crash after a payment and before the commit, and a    *)
(* payment the wallet keeps although it reports an error.                    *)
THEOREM PaymentsExactlyOnce == Spec => []PaymentExactlyOnce
<1>1. Inv => PaymentExactlyOnce
  BY DEF Inv, PaidInv, WalletInv, PaymentExactlyOnce
<1>. QED  BY <1>1, InvAlways, PTL

(* The committed ledger never claims a payment that was not made, faults or  *)
(* not.                                                                      *)
THEOREM NeverPhantomPayment == Spec => []NoPhantomPayment
<1>1. Inv => NoPhantomPayment
  BY DEF Inv, PaidInv, WalletInv, NoPhantomPayment
<1>. QED  BY <1>1, InvAlways, PTL

-----------------------------------------------------------------------------
(* What the new share values cost.                                           *)

(* The shares of the window that are counted with length l.                  *)
Counted(l) == {i \in DOMAIN share :
    /\ i > oldShares
    /\ share[i].length = l \/ (l = MaxShare /\ share[i].length > MaxShare)}

LEMMA Quotient ==
    ASSUME NEW a \in Nat, NEW d \in Nat \ {0}
    PROVE  a \div d \in Nat /\ d * (a \div d) <= a
<1>1. a \div d \in Int /\ d * (a \div d) <= a /\ 0 <= a \div d
  OBVIOUS
<1>. QED  BY <1>1

(* The shares of one length, at its new value, cost no more than the part of *)
(* the income that is set aside for it.                                      *)
LEMMA LengthCost ==
    ASSUME TypeOK, BlockSum \in Nat, NEW l \in ShareLengths
    PROVE  /\ NewShareValue(l) \in Nat /\ Cardinality(Counted(l)) \in Nat
           /\ 10000 * (Cardinality(Counted(l)) * NewShareValue(l))
                <= (BlockSum * (100 - Fee)) * SharePerc[l]
<1>. DEFINE c == Cardinality(Counted(l))
            x == BlockSum * (100 - Fee)
            avail == x * SharePerc[l]
            v == NewShareValue(l)
            value == IF c = 0 THEN 0 ELSE avail \div (10000 * c)
<1>1. IsFiniteSet(Counted(l)) /\ c \in Nat /\ ShareCount(l) = c
  <2>1. DOMAIN share = 1..Len(share) /\ Len(share) \in Nat
    BY DEF TypeOK, TablesType, Tables
  <2>2. IsFiniteSet(DOMAIN share)
    BY <2>1, FS_Interval
  <2>3. IsFiniteSet(Counted(l))
    BY <2>2, FS_Subset DEF Counted
  <2>. QED  BY <2>3, FS_CardinalityType DEF Counted, ShareCount
<1>2. x \in Nat
  BY AmountAssumption
<1>3. SharePerc[l] \in {30, 40}
  BY DEF SharePerc
<1>4. avail \in Nat
  BY <1>2, <1>3
<1>5. ValueCap \in Nat
  BY AmountAssumption DEF ValueCap
<1>6. v = IF value <= ValueCap THEN value ELSE ValueCap
  BY <1>1 DEF NewShareValue
<1>7. CASE c = 0
  <2>1. v = 0
    BY <1>5, <1>6, <1>7
  <2>. QED  BY <1>1, <1>4, <1>7, <2>1
<1>8. CASE c # 0
  <2>. DEFINE d == 10000 * c
  <2>1. d \in Nat \ {0}
    BY <1>1, <1>8
  <2>2. avail \div d \in Nat /\ d * (avail \div d) <= avail
    BY <1>4, <2>1, Quotient
  <2>3. v \in Nat /\ v <= avail \div d
    BY <1>5, <1>6, <1>8, <2>2
  <2>4. d * v <= d * (avail \div d)
    BY <2>1, <2>2, <2>3
  <2>5. 10000 * (c * v) = d * v
    BY <1>1, <2>3
  <2>6. d * v <= avail
    <3>1. d * v \in Int /\ d * (avail \div d) \in Int
      BY <2>1, <2>2, <2>3
    <3>. QED  BY <1>4, <2>2, <2>4, <3>1
  <2>. QED  BY <1>1, <2>3, <2>5, <2>6
<1>. QED  BY <1>7, <1>8

LEMMA BudgetStep ==
    ASSUME TypeOK, Commit, tick % ValuePeriod = 0
    PROVE  100 * WindowCost' <= BlockSum * (100 - Fee)
<1>. DEFINE k == MinShare
            counted(l) == IF l <= MaxShare THEN l ELSE MaxShare
            cost == [i \in DOMAIN share |-> mShareValues'[counted(share[i].length)]]
            S == {i \in DOMAIN share : i > oldShares /\ share[i].length >= MinShare}
            x == BlockSum * (100 - Fee)
            v(l) == NewShareValue(l)
            n(l) == Cardinality(Counted(l))
            sum(s) == SumFunctionOnSet(cost, s)
<1>1. k \in Nat /\ MaxShare = k + 2 /\ ShareLengths = {k, k + 1, k + 2}
  BY LengthAssumption DEF ShareLengths, MaxShare, NumShares
<1>2. share \in Seq(ShareRow) /\ block \in Seq(BlockRow)
  BY DEF TypeOK, TablesType, Tables
<1>3. IsFiniteSet(DOMAIN share) /\ \A i \in DOMAIN share : share[i].length \in Int
  <2>1. /\ DOMAIN share = 1..Len(share) /\ Len(share) \in Nat
        /\ \A i \in DOMAIN share : share[i] \in ShareRow
    BY <1>2
  <2>2. IsFiniteSet(1..Len(share))
    BY <2>1, FS_Interval
  <2>. QED  BY <2>1, <2>2 DEF ShareRow
<1>4. /\ UNCHANGED <<share, oldShares>>
      /\ mShareValues' = [l \in ShareLengths |-> v(l)]
  BY DEF Commit, tables, env
<1>5. WindowCost' = sum(S)
  BY <1>4 DEF WindowCost, Value
<1>6. BlockSum \in Nat /\ x \in Nat
  <2>1. IsFiniteSet(DOMAIN block) /\ \A i \in DOMAIN block : block[i].value \in Nat
    <3>1. /\ DOMAIN block = 1..Len(block) /\ Len(block) \in Nat
          /\ \A i \in DOMAIN block : block[i] \in BlockRow
      BY <1>2
    <3>2. IsFiniteSet(1..Len(block))
      BY <3>1, FS_Interval
    <3>. QED  BY <3>1, <3>2 DEF BlockRow
  <2>. DEFINE B == {i \in DOMAIN block : i > oldBlocks /\ block[i].confirmations >= MatureConf}
              value == [i \in DOMAIN block |-> block[i].value]
  <2>2. IsFiniteSet(B)
    BY <2>1, FS_Subset
  <2>3. \A i \in B : value[i] \in Nat
    BY <2>1
  <2>4. SumFunctionOnSet(value, B) \in Nat
    BY <2>2, <2>3, SumNat
  <2>. QED  BY <2>4, AmountAssumption DEF BlockSum
<1>7. \A l \in ShareLengths :
         /\ v(l) \in Nat /\ n(l) \in Nat
         /\ 10000 * (n(l) * v(l)) <= x * SharePerc[l]
  BY <1>6, LengthCost
<1>8. ASSUME NEW l \in ShareLengths
      PROVE  /\ sum(Counted(l)) = n(l) * v(l)
             /\ Summable(cost, Counted(l))
  <2>1. IsFiniteSet(Counted(l))
    BY <1>3, FS_Subset DEF Counted
  <2>2. \A i \in Counted(l) : i \in DOMAIN share /\ counted(share[i].length) = l
    BY <1>1, <1>3 DEF Counted
  <2>3. \A i \in Counted(l) : cost[i] = v(l)
    BY <1>4, <2>2
  <2>4. v(l) \in Int
    BY <1>7
  <2>5. Summable(cost, Counted(l))
    BY <2>1, <2>3, <2>4 DEF Summable
  <2>. QED  BY <2>1, <2>3, <2>4, <2>5, SumConstant
<1>9. sum(S) = n(k) * v(k) + n(k + 1) * v(k + 1) + n(k + 2) * v(k + 2)
  <2>. DEFINE A == Counted(k)  B == Counted(k + 1)  C == Counted(k + 2)
  <2>1. S = (A \cup B) \cup C /\ (A \cup B) \cap C = {} /\ A \cap B = {}
    BY <1>1, <1>3 DEF Counted
  <2>2. Summable(cost, A) /\ Summable(cost, B) /\ Summable(cost, C)
    BY <1>1, <1>8
  <2>3. Summable(cost, A \cup B)
    BY <2>2, FS_Union DEF Summable
  <2>4. sum(A \cup B) = sum(A) + sum(B)
    BY <2>1, <2>2, SumDisjoint
  <2>5. sum((A \cup B) \cup C) = sum(A \cup B) + sum(C)
    BY <2>1, <2>2, <2>3, SumDisjoint
  <2>6. sum(A) = n(k) * v(k) /\ sum(B) = n(k + 1) * v(k + 1) /\ sum(C) = n(k + 2) * v(k + 2)
    BY <1>1, <1>8
  <2>. QED  BY <2>1, <2>4, <2>5, <2>6
<1>10. SharePerc[k] = 30 /\ SharePerc[k + 1] = 30 /\ SharePerc[k + 2] = 40
  BY <1>1 DEF SharePerc
<1>. DEFINE p == n(k) * v(k)  q == n(k + 1) * v(k + 1)  r == n(k + 2) * v(k + 2)
<1>11. /\ p \in Nat /\ q \in Nat /\ r \in Nat
       /\ 10000 * p <= x * 30 /\ 10000 * q <= x * 30 /\ 10000 * r <= x * 40
  BY <1>1, <1>7, <1>10
<1>12. 100 * (p + q + r) <= x
  BY <1>6, <1>11
<1>. QED  BY <1>5, <1>9, <1>12

(* When share values are updated, the shares of the window never cost more   *)
(* than its income less the fee: for any number of shares, any income and    *)
(* any fee, and however the divisions are rounded down.                      *)
THEOREM BudgetNeverExceeded == Spec => PayoutBudget
<1>1. ASSUME TypeOK, [Next]_vars
      PROVE  [(Commit /\ tick % ValuePeriod = 0) =>
                100 * WindowCost' <= BlockSum * (100 - Fee)]_vars
  BY <1>1, BudgetStep
<1>. QED  BY <1>1, TypeCorrect, PTL DEF Spec, PayoutBudget

-----------------------------------------------------------------------------
(* The pool as a whole.  The rules above speak of one address at a time;     *)
(* summed over the addresses they say that every accounted share is in one   *)
(* of them, and that what the pool has paid and what it is still asked for   *)
(* never exceed what the shares earned.                                      *)

Earnings(t) ==
    SumFunctionOnSet(Values(t), {i \in DOMAIN t.share : t.share[i].accounted})

Payments(t) == SumFunctionOnSet([a \in Addr |-> t.address[a].Paid], Addr)

OpenRequests(t) == SumFunctionOnSet(Amounts(t), t.request)

LEMMA WholeLedger ==
    ASSUME NEW t \in TablesType, IsFiniteSet(t.request)
    PROVE  /\ SumFunctionOnSet([a \in Addr |-> Mined(t, a)], Addr) = Earnings(t)
           /\ SumFunctionOnSet([a \in Addr |-> Open(t, a)], Addr) = OpenRequests(t)
<1>. DEFINE A == {i \in DOMAIN t.share : t.share[i].accounted}
            accounted == [a \in Addr |-> AccountedOf(t, a)]
            mined == [a \in Addr |-> Mined(t, a)]
            requests == [a \in Addr |-> RequestsOf(t, a)]
            open == [a \in Addr |-> Open(t, a)]
<1>1. IsFiniteSet(Addr)
  BY AddrAssumption
<1>2. SumFunctionOnSet(mined, Addr) = Earnings(t)
  <2>1. Summable(Values(t), A)
    BY MinedSummable
  <2>2. \A i \in A : t.share[i].addr \in Addr
    <3>1. t.share \in Seq(ShareRow)
      BY DEF TablesType
    <3>2. \A i \in DOMAIN t.share : t.share[i] \in ShareRow
      BY <3>1, ElementOfSeq
    <3>. QED  BY <3>2 DEF ShareRow
  <2>3. /\ \A a \in Addr : accounted[a] \subseteq A
        /\ \A a, b \in Addr : a # b => accounted[a] \cap accounted[b] = {}
        /\ \A i \in A : \E a \in Addr : i \in accounted[a]
        /\ \A a \in Addr : mined[a] = SumFunctionOnSet(Values(t), accounted[a])
    BY <2>2 DEF AccountedOf, SharesOf, Mined
  <2>. HIDE DEF A, accounted, mined
  <2>4. SumFunctionOnSet(mined, Addr) = SumFunctionOnSet(Values(t), A)
    BY <1>1, <2>1, <2>3, SumByParts
  <2>. QED  BY <2>4 DEF Earnings, A
<1>3. SumFunctionOnSet(open, Addr) = OpenRequests(t)
  <2>1. Summable(Amounts(t), t.request)
    BY OpenSummable
  <2>2. \A r \in t.request : r.addr \in Addr
    BY DEF TablesType, RequestRow
  <2>3. /\ \A a \in Addr : requests[a] \subseteq t.request
        /\ \A a, b \in Addr : a # b => requests[a] \cap requests[b] = {}
        /\ \A r \in t.request : \E a \in Addr : r \in requests[a]
        /\ \A a \in Addr : open[a] = SumFunctionOnSet(Amounts(t), requests[a])
    BY <2>2 DEF RequestsOf, Open
  <2>. HIDE DEF requests, open
  <2>. QED  BY <1>1, <2>1, <2>3, SumByParts DEF OpenRequests
<1>. QED  BY <1>2, <1>3, Zenon

(* What was paid to the addresses, by any account of it that agrees with the *)
(* ledger, and what they ask for stay below what their shares earned.        *)
LEMMA WholeCovered ==
    ASSUME NEW t \in TablesType, IsFiniteSet(t.request), LedgerInv(t),
           NEW paid, \A a \in Addr : paid[a] = t.address[a].Paid
    PROVE  SumFunctionOnSet(paid, Addr) + OpenRequests(t) <= Earnings(t)
<1>. DEFINE mined == [a \in Addr |-> Mined(t, a)]
            open == [a \in Addr |-> Open(t, a)]
<1>1. ASSUME NEW a \in Addr
      PROVE  /\ paid[a] \in Int /\ open[a] \in Int /\ mined[a] \in Int
             /\ paid[a] + open[a] <= mined[a]
  <2>1. RowInv(t.address[a], Mined(t, a), Open(t, a), SmallShares(t, a), PayLimit(a))
    BY DEF LedgerInv, AddrInv
  <2>2. Mined(t, a) \in Nat /\ Open(t, a) \in Nat
    BY SumTypes
  <2>3. t.address[a] \in AddressRow
    BY DEF TablesType
  <2>. QED  BY <2>1, <2>2, <2>3 DEF RowInv, AddressRow
<1>2. Summable(paid, Addr) /\ Summable(open, Addr) /\ Summable(mined, Addr)
  BY <1>1, AddrAssumption DEF Summable
<1>. HIDE DEF mined, open
<1>3. SumFunctionOnSet(paid, Addr) + SumFunctionOnSet(open, Addr)
        <= SumFunctionOnSet(mined, Addr)
  BY <1>1, <1>2, SumsBelow
<1>. QED  BY <1>3, WholeLedger DEF mined, open

(* In the session and in the database, what the pool has paid to all its     *)
(* addresses and all the requests it still holds are covered by the value of *)
(* the shares it has accounted (backend.cpp:281-298, 412-423).               *)
PromisesCovered ==
    \A t \in Ledgers : Payments(t) + OpenRequests(t) <= Earnings(t)

(* So is what really left the wallet, unless the ledger has missed a         *)
(* payment: with the open requests it never exceeds what was mined.          *)
WalletCovered ==
    ~tainted => SumFunctionOnSet(sent, Addr) + OpenRequests(Tables) <= Earnings(Tables)

THEOREM PoolNeverOverpays == Spec => [](PromisesCovered /\ WalletCovered)
<1>1. ASSUME Inv PROVE PromisesCovered
  <2>1. ASSUME NEW t \in Ledgers
        PROVE  Payments(t) + OpenRequests(t) <= Earnings(t)
    <3>1. t \in TablesType /\ IsFiniteSet(t.request) /\ LedgerInv(t)
      BY <1>1, Fields DEF Inv, TypeOK, Ledgers
    <3>. QED  BY <3>1, WholeCovered DEF Payments
  <2>. QED  BY <2>1 DEF PromisesCovered
<1>2. ASSUME Inv PROVE WalletCovered
  <2>1. Tables \in TablesType /\ IsFiniteSet(Tables.request) /\ LedgerInv(Tables)
    BY <1>2, Fields DEF Inv, TypeOK
  <2>2. ~tainted => \A a \in Addr : sent[a] = Tables.address[a].Paid
    BY <1>2, Fields DEF Inv, PaidInv, WalletInv
  <2>. QED  BY <2>1, <2>2, WholeCovered DEF WalletCovered
<1>. QED  BY <1>1, <1>2, InvAlways, PTL

=============================================================================
