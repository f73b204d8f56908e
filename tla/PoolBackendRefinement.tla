------------------------ MODULE PoolBackendRefinement ------------------------
(***************************************************************************)
(* PoolBackend implements ShareLedger, proved for every value of the        *)
(* constants.  The ledger moves only with a commit.  What a commit makes of *)
(* it follows from the rules of the session's tables (Inv, LedgerInv) and   *)
(* from what links these, during a pass, to the tables last committed       *)
(* (Linked): the same shares, no less paid, and at the end of the pass no   *)
(* share left out.  The last sections show what the committed tables keep   *)
(* over every step: their shares, their payments, and what a payable        *)
(* address is still to be paid.                                             *)
(***************************************************************************)
EXTENDS PoolBackendProofs

InPass == pc \in {"shares", "payout"}

Linked ==
    /\ ~InPass => share = saved.share /\ address = saved.address
    /\ DOMAIN share = DOMAIN saved.share
    /\ \A i \in DOMAIN share :
          /\ share[i].addr = saved.share[i].addr
          /\ share[i].value = saved.share[i].value
    /\ pc = "payout" => \A i \in DOMAIN share : share[i].accounted
    /\ \A a \in Addr :
          /\ address[a].Paid >= saved.address[a].Paid
          /\ address[a].Paid > saved.address[a].Paid => a \in ValidAddr

LEMMA LinkedInit == Init => Linked
BY DEF Init, Linked, InPass, Tables, NewAddress

-----------------------------------------------------------------------------
(* The steps of a pass.                                                      *)

LEMMA LinkedShareStep ==
    ASSUME TypeOK, TypeOK', Linked, AccountShare
    PROVE  Linked'
<1>1. PICK i \in NextShares : Credit(i)
  BY DEF AccountShare
<1>. DEFINE b == share[i].addr
            v == share[i].value
            amount == IF Due(b, v) THEN PayoutAmount(b, address[b]) ELSE 0
<1>2. /\ share' = [share EXCEPT ![i].accounted = TRUE]
      /\ address' = [address EXCEPT ![b] = Credited(address[b], v, amount)]
  BY <1>1, Zenon DEF Credit
<1>3. /\ b \in Addr /\ v \in Int /\ amount \in Int /\ address[b] \in AddressRow
      /\ i \in DOMAIN share /\ share[i] \in ShareRow
  BY CreditArgs, PayoutAmountType
<1>4. Credited(address[b], v, amount).Paid = address[b].Paid
  BY <1>3, CreditedRow
<1>5. share \in Seq(ShareRow) /\ address \in [Addr -> AddressRow]
  BY TypeTables DEF TypeOK
<1>6. \A a \in Addr : address'[a].Paid = address[a].Paid
  BY <1>2, <1>3, <1>4, <1>5
<1>7. /\ DOMAIN share' = DOMAIN share
      /\ \A j \in DOMAIN share : /\ share'[j].addr = share[j].addr
                                 /\ share'[j].value = share[j].value
  BY <1>2, <1>3, <1>5 DEF ShareRow
<1>8. pc = "shares" /\ pc' = "shares" /\ saved' = saved
  BY DEF AccountShare
<1>. QED  BY <1>6, <1>7, <1>8 DEF Linked, InPass

LEMMA LinkedPayStep ==
    ASSUME TypeOK, TypeOK', Linked, Pay
    PROVE  Linked'
<1>1. PICK r \in NextRequests :
         PayInvalid(r) \/ PayEmpty(r) \/ PaySent(r) \/ PayFailed(r) \/ PayRejected(r)
  BY DEF Pay
<1>2. /\ r.addr \in Addr /\ r.amount \in Nat
      /\ address \in [Addr -> AddressRow]
      /\ pc = "payout" /\ UNCHANGED <<pc, share, saved>>
  BY TypeTables DEF Pay, TypeOK, NextRequests, RequestRow
<1>3. ASSUME NEW a \in Addr
      PROVE  /\ address'[a].Paid >= address[a].Paid
             /\ address'[a].Paid > address[a].Paid => a \in ValidAddr
  <2>1. address[a] \in AddressRow /\ address[a].Paid \in Nat
    BY <1>2 DEF AddressRow
  <2>2. CASE PayInvalid(r) \/ PayEmpty(r) \/ PayFailed(r) \/ PayRejected(r)
    <3>1. address'[a].Paid = address[a].Paid
      BY <1>2, <2>2 DEF PayInvalid, PayEmpty, PayFailed, PayRejected, AddressRow
    <3>. QED  BY <2>1, <3>1
  <2>3. CASE PaySent(r)
    <3>1. /\ address' = [address EXCEPT ![r.addr] = PaidOut(address[r.addr], r.amount)]
          /\ r.addr \in ValidAddr
      BY <2>3, Zenon DEF PaySent, Book
    <3>2. \/ address'[a].Paid = address[a].Paid
          \/ a = r.addr /\ address'[a].Paid = address[a].Paid + r.amount
      BY <1>2, <3>1, PaidRow
    <3>. QED  BY <1>2, <2>1, <3>1, <3>2
  <2>. QED  BY <1>1, <2>2, <2>3
<1>4. \A a \in Addr : /\ address[a].Paid \in Nat /\ saved.address[a].Paid \in Nat
                      /\ address'[a].Paid \in Nat
  BY TypeTables DEF TypeOK, AddressRow, Tables, TablesType
<1>. QED  BY <1>2, <1>3, <1>4 DEF Linked, InPass

LEMMA LinkedPayoutStep ==
    ASSUME TypeOK, Linked, BeginPayout
    PROVE  Linked'
<1>1. \A a \in Addr : address'[a].Paid = address[a].Paid
  BY TypeTables DEF BeginPayout, TypeOK, AddressRow
<1>2. /\ pc' = "payout" /\ UNCHANGED <<share, saved>>
      /\ \A i \in DOMAIN share : share[i].accounted
  BY DEF BeginPayout, Unaccounted
<1>. QED  BY <1>1, <1>2 DEF Linked, InPass

(* Commits and rollbacks make the two agree; the other steps keep both.      *)
LEMMA LinkedSync ==
    ASSUME TypeOK', saved'.share = share', saved'.address = address',
           pc' # "payout"
    PROVE  Linked'
<1>1. \A a \in Addr : saved'.address[a].Paid \in Nat
  BY DEF TypeOK, TablesType, AddressRow
<1>. QED  BY <1>1 DEF Linked, InPass

LEMMA LinkedStep ==
    ASSUME TypeOK, TypeOK', Linked, [Next]_vars
    PROVE  Linked'
<1>1. CASE HandleData \/ Commit
  <2>1. saved'.share = share' /\ saved'.address = address' /\ pc' # "payout"
    BY <1>1 DEF HandleData, Commit, CommitTransaction, Tables
  <2>. QED  BY <2>1, LinkedSync
<1>2. CASE Crash
  <2>1. saved'.share = share' /\ saved'.address = address' /\ pc' # "payout"
    BY <1>2 DEF Crash, Rollback, Forget
  <2>. QED  BY <2>1, LinkedSync
<1>3. CASE Start \/ Shutdown \/ BeginAccounting \/ Environment \/ UNCHANGED vars
  BY <1>3 DEF Start, Shutdown, Forget, BeginAccounting, Environment, vars, tables,
     Linked, InPass
<1>. QED  BY <1>1, <1>2, <1>3, LinkedShareStep, LinkedPayStep, LinkedPayoutStep
          DEF Next, Accounting

-----------------------------------------------------------------------------
(* The steps of the ledger.                                                  *)

Entries(t) ==
    [i \in DOMAIN t.share |-> [addr |-> t.share[i].addr, value |-> t.share[i].value]]

LEMMA EntryFields ==
    ASSUME NEW t \in TablesType
    PROVE  /\ DOMAIN Entries(t) = DOMAIN t.share
           /\ DOMAIN t.share = 1 .. Len(t.share) /\ Len(t.share) \in Nat
           /\ Len(Entries(t)) = Len(t.share)
           /\ \A i \in DOMAIN t.share :
                 /\ Entries(t)[i].addr = t.share[i].addr
                 /\ Entries(t)[i].value = t.share[i].value
                 /\ Entries(t)[i] \in [addr : Addr, value : Nat]
<1>1. t.share \in Seq(ShareRow)
  BY DEF TablesType
<1>2. DOMAIN t.share = 1 .. Len(t.share) /\ Len(t.share) \in Nat
  BY <1>1
<1>3. \A i \in DOMAIN t.share : t.share[i] \in ShareRow
  BY <1>1, <1>2, ElementOfSeq
<1>4. \A i \in DOMAIN t.share : t.share[i].addr \in Addr /\ t.share[i].value \in Nat
  BY <1>3 DEF ShareRow
<1>5. Entries(t) \in Seq([addr : Addr, value : Nat]) /\ DOMAIN Entries(t) = DOMAIN t.share
  BY <1>2, <1>4 DEF Entries
<1>6. Len(Entries(t)) = Len(t.share)
  BY <1>2, <1>5
<1>. QED  BY <1>2, <1>4, <1>5, <1>6 DEF Entries

(* A message enters its shares.                                              *)
LEMMA EnterStep ==
    ASSUME TypeOK, TypeOK', Linked, HandleData
    PROVE  Ledger!Enter
<1>1. saved \in TablesType /\ saved' \in TablesType /\ saved' = Tables'
  BY DEF TypeOK, HandleData, CommitTransaction
<1>2. saved.share = share /\ saved.address = address /\ share \in Seq(ShareRow)
  BY TypeTables DEF HandleData, Linked, InPass
<1>3. saved'.share = share' /\ saved'.address = saved.address
  BY <1>1, <1>2, Fields DEF HandleData
<1>. DEFINE Extended ==
         /\ Len(share') \in {Len(share) + 1, Len(share) + 2}
         /\ DOMAIN share \subseteq DOMAIN share'
         /\ \A i \in DOMAIN share : share'[i] = share[i]
         /\ \A i \in DOMAIN share' \ DOMAIN share : share'[i].accounted = FALSE
<1>4. Extended
  <2>1. PICK addr \in Addr, len \in Lengths :
           HandleShare(addr, len) \/ \E gen \in GenValues : HandleBlock(addr, len, gen)
    BY DEF HandleData
  <2>2. CASE HandleShare(addr, len)
    BY <1>2, <2>2 DEF HandleShare
  <2>3. ASSUME NEW gen \in GenValues, HandleBlock(addr, len, gen)
        PROVE  Extended
    BY <1>2, <2>3, SMTT(30) DEF HandleBlock
  <2>. QED  BY <2>1, <2>2, <2>3
<1>. DEFINE old == Entries(saved)
            new == Entries(saved')
<1>5. /\ Len(new) \in {Len(old) + 1, Len(old) + 2}
      /\ \A i \in DOMAIN old : new[i] = old[i]
      /\ \A i \in DOMAIN new \ DOMAIN old : new[i] \in [addr : Addr, value : Nat]
  <2>1. Len(new) = Len(share') /\ Len(old) = Len(share)
        /\ DOMAIN new = DOMAIN share' /\ DOMAIN old = DOMAIN share
    BY <1>1, <1>2, <1>3, EntryFields
  <2>2. \A i \in DOMAIN share : new[i] = old[i]
    BY <1>2, <1>3, <1>4 DEF Entries
  <2>3. \A i \in DOMAIN share' : new[i] \in [addr : Addr, value : Nat]
    BY <1>1, <1>3, EntryFields
  <2>. QED  BY <1>4, <2>1, <2>2, <2>3
<1>6. {i \in DOMAIN saved'.share : saved'.share[i].accounted}
        = {i \in DOMAIN saved.share : saved.share[i].accounted}
  BY <1>2, <1>3, <1>4
<1>. QED  BY <1>3, <1>5, <1>6 DEF Ledger!Enter, Ledger!Entry, Entries

(* The sum in ShareLedger is the sum in PoolBackend.                         *)
LEMMA SameSum ==
    ASSUME NEW f, NEW S
    PROVE  Ledger!SumFunctionOnSet(f, S) = SumFunctionOnSet(f, S)
<1>1. Ledger!SumFunctionOnSet(f, S) = Rec(f, S)[S]
  BY DEF Ledger!SumFunctionOnSet, Ledger!FoldFunctionOnSet, Ledger!MapThenFoldSet,
     Pick, Step, Rec
<1>. QED  BY <1>1, SumIsRec

(* A commit settles.                                                         *)
LEMMA SettleStep ==
    ASSUME Inv, Inv', Linked, Commit
    PROVE  Ledger!Settle
<1>1. /\ saved \in TablesType /\ Tables \in TablesType /\ saved' = Tables
      /\ IsFiniteSet(Tables.request)
      /\ saved'.share = share /\ saved'.address = address
  BY Fields DEF Inv, TypeOK, Commit, CommitTransaction, tables, Tables
<1>2. /\ DOMAIN share = DOMAIN saved.share
      /\ \A i \in DOMAIN share :
            /\ share[i].addr = saved.share[i].addr
            /\ share[i].value = saved.share[i].value
            /\ share[i].accounted
  BY DEF Linked, Commit
<1>3. Entries(saved') = Entries(saved)
  BY <1>1, <1>2 DEF Entries
<1>4. {i \in DOMAIN saved'.share : saved'.share[i].accounted} = DOMAIN Entries(saved)
  BY <1>1, <1>2 DEF Entries
<1>5. ASSUME NEW a \in Addr
      PROVE  /\ address[a].Balance + address[a].Paid =
                  SumFunctionOnSet([i \in DOMAIN Entries(saved) |-> Entries(saved)[i].value],
                                   {i \in DOMAIN Entries(saved) : Entries(saved)[i].addr = a})
             /\ address[a].Balance >= 0
             /\ address[a].Paid >= saved.address[a].Paid
             /\ address[a].Paid > saved.address[a].Paid => a \in ValidAddr
  <2>1. RowInv(address[a], Mined(Tables, a), Open(Tables, a),
               SmallShares(Tables, a), PayLimit(a))
    BY Fields DEF Inv, LedgerInv, AddrInv
  <2>2. /\ address[a].Balance \in Int /\ address[a].Requested \in Int
        /\ Mined(Tables, a) \in Nat /\ Open(Tables, a) \in Nat
    BY <1>1, SumTypes, TypeTables DEF Inv, TypeOK, AddressRow
  <2>3. [i \in DOMAIN Entries(saved) |-> Entries(saved)[i].value] = Values(Tables)
    BY <1>1, <1>2, Fields DEF Entries, Values
  <2>4. {i \in DOMAIN Entries(saved) : Entries(saved)[i].addr = a} = AccountedOf(Tables, a)
    BY <1>1, <1>2, Fields DEF Entries, AccountedOf, SharesOf
  <2>5. address[a].Balance >= 0
    BY <2>1, <2>2 DEF RowInv
  <2>. QED  BY <2>1, <2>3, <2>4, <2>5 DEF RowInv, Mined, Linked
<1>. DEFINE paid(t) == [a \in Addr |-> t.address[a].Paid]
            balance(t) == [a \in Addr |-> t.address[a].Balance]
            settled(t) == {i \in DOMAIN t.share : t.share[i].accounted}
            Settled ==
              /\ settled(saved)' = DOMAIN Entries(saved)
              /\ \A a \in Addr :
                    /\ balance(saved)'[a] + paid(saved)'[a] =
                         SumFunctionOnSet(
                           [i \in DOMAIN Entries(saved) |-> Entries(saved)[i].value],
                           {i \in DOMAIN Entries(saved) : Entries(saved)[i].addr = a})
                    /\ balance(saved)'[a] >= 0
                    /\ paid(saved)'[a] >= paid(saved)[a]
                    /\ paid(saved)'[a] > paid(saved)[a] => a \in ValidAddr
              /\ Entries(saved)' = Entries(saved)
<1>6. \A a \in Addr : /\ balance(saved)'[a] = address[a].Balance
                       /\ paid(saved)'[a] = address[a].Paid
                       /\ paid(saved)[a] = saved.address[a].Paid
  BY <1>1
<1>7. settled(saved)' = DOMAIN Entries(saved)
  BY <1>4
<1>8. Entries(saved)' = Entries(saved)
  BY <1>3 DEF Entries
<1>. HIDE DEF balance, paid, settled
<1>9. Settled
  BY <1>5, <1>6, <1>7, <1>8
<1>. QED  BY <1>9, SameSum DEF Ledger!Settle, Ledger!Earned, Entries, balance, paid, settled

LEMMA LedgerInitial == Init => Ledger!Init
<1>. SUFFICES ASSUME Init PROVE Ledger!Init
  OBVIOUS
<1>1. saved.share = <<>> /\ saved.address = [a \in Addr |-> NewAddress]
  BY DEF Init, Tables
<1>. QED  BY <1>1 DEF Ledger!Init, NewAddress

LEMMA LedgerMoves ==
    ASSUME Inv, Inv', Linked, [Next]_vars
    PROVE  [Ledger!Next]_(Ledger!ledger)
<1>1. CASE HandleData
  BY <1>1, EnterStep DEF Inv, Ledger!Next
<1>2. CASE Commit
  BY <1>2, SettleStep DEF Ledger!Next
<1>3. ASSUME UNCHANGED saved PROVE UNCHANGED Ledger!ledger
  BY <1>3 DEF Ledger!ledger
<1>4. CASE ~HandleData /\ ~Commit
  <2>1. UNCHANGED saved
    BY <1>4 DEF Next, Accounting, Start, BeginAccounting, AccountShare, BeginPayout,
       Pay, Crash, Shutdown, Environment, vars
  <2>. QED  BY <1>3, <2>1
<1>. QED  BY <1>1, <1>2, <1>4

-----------------------------------------------------------------------------
(* The backend implements the ledger: whatever it is sent, however payments  *)
(* go and wherever it crashes, its commits credit every share once, divide   *)
(* what was earned into paid and owed, and take no payment back.             *)
THEOREM BackendImplementsLedger == Spec => ImplementsLedger
<1>1. Init => Linked
  BY LinkedInit
<1>2. Inv /\ Inv' /\ Linked /\ [Next]_vars => Linked'
  BY LinkedStep DEF Inv
<1>3. Inv /\ Inv' /\ Linked /\ [Next]_vars => [Ledger!Next]_(Ledger!ledger)
  BY LedgerMoves
<1>. QED  BY <1>1, <1>2, <1>3, InvAlways, LedgerInitial, PTL
          DEF Spec, ImplementsLedger, Ledger!Spec

-----------------------------------------------------------------------------
(* What has been committed stays.  A crash, a shutdown or a failed payment   *)
(* may lose the work of a pass, but no step drops a committed share, changes *)
(* its address or its value, forgets that it was credited, or lowers what    *)
(* the database says was paid (backend.cpp:162-201, 275-301, 412-423).       *)
LedgerKept ==
    [][/\ \A i \in DOMAIN saved.share :
             /\ i \in DOMAIN saved'.share
             /\ saved'.share[i].addr = saved.share[i].addr
             /\ saved'.share[i].value = saved.share[i].value
             /\ saved.share[i].accounted => saved'.share[i].accounted
       /\ \A a \in Addr : saved'.address[a].Paid >= saved.address[a].Paid]_vars

THEOREM CommittedLedgerKept == Spec => LedgerKept
<1>. DEFINE ShareKept(i) ==
              /\ i \in DOMAIN saved'.share
              /\ saved'.share[i].addr = saved.share[i].addr
              /\ saved'.share[i].value = saved.share[i].value
              /\ saved.share[i].accounted => saved'.share[i].accounted
            PaidKept(a) == saved'.address[a].Paid >= saved.address[a].Paid
            Kept == /\ \A i \in DOMAIN saved.share : ShareKept(i)
                    /\ \A a \in Addr : PaidKept(a)
<1>1. ASSUME Inv, Inv', Linked, [Next]_vars PROVE Kept
  <2>1. saved \in TablesType /\ saved' \in TablesType
    BY <1>1 DEF Inv, TypeOK
  <2>2. \A a \in Addr : saved.address[a].Paid \in Nat
    BY <2>1 DEF TablesType, AddressRow
  <2>3. CASE HandleData
    <3>1. /\ saved' = Tables' /\ saved.share = share /\ saved.address = address
          /\ address' = address
      BY <1>1, <2>3 DEF HandleData, CommitTransaction, Linked, InPass
    <3>2. saved'.share = share' /\ saved'.address = saved.address
      BY <3>1, Fields
    <3>3. ASSUME NEW i \in DOMAIN share
          PROVE  i \in DOMAIN share' /\ share'[i] = share[i]
      <4>1. share \in Seq(ShareRow)
        BY <1>1, TypeTables DEF Inv, TypeOK
      <4>2. PICK addr \in Addr, len \in Lengths :
               HandleShare(addr, len) \/ \E gen \in GenValues : HandleBlock(addr, len, gen)
        BY <2>3 DEF HandleData
      <4>3. \/ \E row : share' = Append(share, row)
            \/ \E first, second : share' = share \o <<first, second>>
        BY <4>2, Zenon DEF HandleShare, HandleBlock
      <4>4. DOMAIN share = 1 .. Len(share) /\ Len(share) \in Nat
        BY <4>1
      <4>5. CASE \E row : share' = Append(share, row)
        BY <4>1, <4>4, <4>5
      <4>6. CASE \E first, second : share' = share \o <<first, second>>
        <5>1. PICK first, second : share' = share \o <<first, second>>
          BY <4>6
        <5>. QED  BY <4>1, <4>4, <5>1
      <4>. QED  BY <4>3, <4>5, <4>6
    <3>. QED  BY <2>2, <3>1, <3>2, <3>3
  <2>4. CASE Commit
    <3>1. saved'.share = share /\ saved'.address = address
      BY <2>4, Fields DEF Commit, CommitTransaction, tables, Tables
    <3>. QED  BY <1>1, <2>4, <3>1 DEF Linked, Commit
  <2>5. CASE ~HandleData /\ ~Commit
    <3>1. saved' = saved
      BY <1>1, <2>5 DEF Next, Accounting, Start, BeginAccounting, AccountShare,
         BeginPayout, Pay, Crash, Shutdown, Environment, vars
    <3>. QED  BY <2>2, <3>1
  <2>. QED  BY <2>3, <2>4, <2>5
<1>2. Init => Linked
  BY LinkedInit
<1>3. Inv /\ Inv' /\ Linked /\ [Next]_vars => Linked'
  BY LinkedStep DEF Inv
<1>4. Inv /\ Inv' /\ Linked /\ [Next]_vars => Kept
  BY <1>1
<1>. QED  BY <1>2, <1>3, <1>4, InvAlways, PTL DEF Spec, LedgerKept

-----------------------------------------------------------------------------
(* What an address was paid and what it still asks for.  A request leaves    *)
(* the table in two places of the payout loop only, and one of them pays.    *)
Pledged(row) == row.Requested + row.Paid

PledgeInv ==
    \A a \in Addr :
        /\ Pledged(saved.address[a]) <= Pledged(address[a])
        /\ a \in ValidAddr => ~address[a].Blocked /\ ~saved.address[a].Blocked

LEMMA PledgeInit == Init => PledgeInv
BY DEF Init, PledgeInv, Pledged, Tables, NewAddress

(* The step of one row in a pass.                                            *)
PledgeKept(a) ==
    /\ Pledged(address'[a]) >= Pledged(address[a])
    /\ a \in ValidAddr /\ address'[a].Blocked => address[a].Blocked

LEMMA PledgePass ==
    ASSUME Inv, AccountShare \/ BeginPayout \/ Pay, NEW a \in Addr
    PROVE  PledgeKept(a)
<1>. USE DEF PledgeKept, Pledged
<1>1. /\ address \in [Addr -> AddressRow] /\ address[a] \in AddressRow
      /\ address[a].Requested \in Int /\ address[a].Paid \in Nat
      /\ address[a].Balance \in Int
  BY TypeTables DEF Inv, TypeOK, AddressRow
<1>2. CASE AccountShare
  <2>1. PICK i \in NextShares : Credit(i)
    BY <1>2 DEF AccountShare
  <2>. DEFINE b == share[i].addr
              v == share[i].value
              amount == IF Due(b, v) THEN PayoutAmount(b, address[b]) ELSE 0
  <2>2. address' = [address EXCEPT ![b] = Credited(address[b], v, amount)]
    BY <2>1, Zenon DEF Credit
  <2>3. b \in Addr /\ v \in Int /\ amount \in Nat /\ address[b] \in AddressRow
    BY CreditArgs, PayoutAmountType DEF Inv
  <2>. HIDE DEF amount
  <2>4. /\ Credited(address[b], v, amount).Paid = address[b].Paid
        /\ Credited(address[b], v, amount).Requested = address[b].Requested + amount
        /\ Credited(address[b], v, amount).Blocked = address[b].Blocked
    BY <2>3, CreditedRow
  <2>5. CASE a = b
    BY <1>1, <2>2, <2>3, <2>4, <2>5
  <2>6. CASE a # b
    BY <1>1, <2>2, <2>6
  <2>. QED  BY <2>5, <2>6
<1>3. CASE BeginPayout
  <2>1. CASE a \in FinalDue
    <3>1. address'[a] = [address[a] EXCEPT !.Requested = address[a].Balance]
      BY <1>3, <2>1 DEF BeginPayout
    <3>2. address[a].Balance - address[a].Requested > FinalMin /\ FinalMin \in Nat
      BY <2>1, FinalMinType DEF FinalDue
    <3>. QED  BY <1>1, <3>1, <3>2 DEF AddressRow
  <2>2. CASE a \notin FinalDue
    BY <1>1, <1>3, <2>2 DEF BeginPayout
  <2>. QED  BY <2>1, <2>2
<1>4. CASE Pay
  <2>1. PICK r \in NextRequests :
           PayInvalid(r) \/ PayEmpty(r) \/ PaySent(r) \/ PayFailed(r) \/ PayRejected(r)
    BY <1>4 DEF Pay
  <2>2. r.addr \in Addr /\ r.amount \in Nat
    BY TypeTables DEF Inv, TypeOK, NextRequests, RequestRow
  <2>3. CASE PayInvalid(r)
    <3>1. /\ r.addr \notin ValidAddr
          /\ address' = [address EXCEPT ![r.addr].Blocked = TRUE]
      BY <2>3 DEF PayInvalid
    <3>. QED  BY <1>1, <2>2, <3>1 DEF AddressRow
  <2>4. CASE PayEmpty(r) \/ PayFailed(r) \/ PayRejected(r)
    BY <1>1, <2>4 DEF PayEmpty, PayFailed, PayRejected
  <2>5. CASE PaySent(r)
    <3>1. address' = [address EXCEPT ![r.addr] = PaidOut(address[r.addr], r.amount)]
      BY <2>5, Zenon DEF PaySent, Book
    <3>2. CASE a = r.addr
      <4>1. address'[a] = PaidOut(address[a], r.amount)
        BY <1>1, <3>1, <3>2
      <4>2. /\ PaidOut(address[a], r.amount).Requested = address[a].Requested - r.amount
            /\ PaidOut(address[a], r.amount).Paid = address[a].Paid + r.amount
            /\ PaidOut(address[a], r.amount).Blocked = address[a].Blocked
        BY <1>1, <2>2, PaidRow
      <4>. QED  BY <1>1, <2>2, <4>1, <4>2
    <3>3. CASE a # r.addr
      BY <1>1, <3>1, <3>3
    <3>. QED  BY <3>2, <3>3
  <2>. QED  BY <2>1, <2>3, <2>4, <2>5
<1>. QED  BY <1>2, <1>3, <1>4

(* Commits and rollbacks pass it on; the committed amount never falls.       *)
LEMMA PledgeStep ==
    ASSUME Inv, Inv', PledgeInv, [Next]_vars
    PROVE  /\ PledgeInv'
           /\ \A a \in Addr : Pledged(saved'.address[a]) >= Pledged(saved.address[a])
<1>1. ASSUME NEW a \in Addr
      PROVE  /\ Pledged(saved.address[a]) \in Int /\ Pledged(saved'.address[a]) \in Int
             /\ Pledged(address[a]) \in Int /\ Pledged(address'[a]) \in Int
  <2>1. /\ saved \in TablesType /\ saved' \in TablesType
        /\ Tables \in TablesType /\ Tables' \in TablesType
    BY DEF Inv, TypeOK
  <2>2. address \in [Addr -> AddressRow] /\ address' \in [Addr -> AddressRow]
    BY <2>1, Fields DEF TablesType
  <2>3. \A row \in AddressRow : Pledged(row) \in Int
    BY DEF AddressRow, Pledged
  <2>. QED  BY <2>1, <2>2, <2>3 DEF TablesType
<1>2. CASE HandleData \/ Commit
  <2>1. address' = address /\ saved'.address = address
    BY <1>2, Fields DEF HandleData, Commit, CommitTransaction, tables, Tables
  <2>. QED  BY <1>1, <2>1 DEF PledgeInv
<1>3. CASE Crash
  <2>1. address' = saved.address /\ saved' = saved
    BY <1>3 DEF Crash, Rollback
  <2>. QED  BY <1>1, <2>1 DEF PledgeInv
<1>4. CASE AccountShare \/ BeginPayout \/ Pay
  <2>1. saved' = saved
    BY <1>4 DEF AccountShare, BeginPayout, Pay
  <2>2. \A a \in Addr : PledgeKept(a)
    BY <1>4, PledgePass
  <2>. QED  BY <1>1, <2>1, <2>2 DEF PledgeInv, PledgeKept
<1>5. CASE Start \/ Shutdown \/ BeginAccounting \/ Environment \/ UNCHANGED vars
  <2>1. saved' = saved /\ address' = address
    BY <1>5 DEF Start, Shutdown, BeginAccounting, Environment, vars, tables
  <2>. QED  BY <1>1, <2>1 DEF PledgeInv
<1>. QED  BY <1>2, <1>3, <1>4, <1>5 DEF Next, Accounting

(* The claim of a payable address, what it was paid and the sum of its open  *)
(* requests, never falls: a committed request leaves the table only with its *)
(* payment.  Running out of funds, failed payments, payments rolled back and *)
(* restarts leave it there (backend.cpp:341-430).                            *)
ClaimsKept ==
    [][\A a \in ValidAddr :
          Open(saved', a) + saved'.address[a].Paid
            >= Open(saved, a) + saved.address[a].Paid]_vars

THEOREM ClaimsNeverLost == Spec => ClaimsKept
<1>. DEFINE Claim(t, a) == Open(t, a) + t.address[a].Paid
            Kept == \A a \in ValidAddr : Claim(saved', a) >= Claim(saved, a)
<1>1. ASSUME NEW t \in TablesType, IsFiniteSet(t.request), LedgerInv(t),
             NEW a \in Addr, ~t.address[a].Blocked
      PROVE  Claim(t, a) = Pledged(t.address[a])
  <2>1. RowInv(t.address[a], Mined(t, a), Open(t, a), SmallShares(t, a), PayLimit(a))
    BY <1>1 DEF LedgerInv, AddrInv
  <2>. QED  BY <1>1, <2>1 DEF RowInv, Pledged
<1>. HIDE DEF Claim
<1>2. ASSUME Inv, Inv', PledgeInv, [Next]_vars PROVE Kept
  <2>1. SUFFICES ASSUME NEW a \in ValidAddr PROVE Claim(saved', a) >= Claim(saved, a)
    OBVIOUS
  <2>2. a \in Addr
    BY AddrAssumption
  <2>3. /\ saved \in TablesType /\ IsFiniteSet(saved.request) /\ LedgerInv(saved)
        /\ saved' \in TablesType /\ IsFiniteSet(saved'.request) /\ LedgerInv(saved')
    BY <1>2 DEF Inv, TypeOK
  <2>4. ~saved.address[a].Blocked /\ ~saved'.address[a].Blocked
    BY <1>2, <2>2, PledgeStep DEF PledgeInv
  <2>5. /\ Claim(saved, a) = Pledged(saved.address[a])
        /\ Claim(saved', a) = Pledged(saved'.address[a])
    BY <1>1, <2>2, <2>3, <2>4
  <2>. QED  BY <1>2, <2>2, <2>5, PledgeStep
<1>3. Init => PledgeInv
  BY PledgeInit
<1>4. Inv /\ Inv' /\ PledgeInv /\ [Next]_vars => PledgeInv'
  BY PledgeStep
<1>5. Inv /\ Inv' /\ PledgeInv /\ [Next]_vars => Kept
  BY <1>2
<1>. QED  BY <1>3, <1>4, <1>5, InvAlways, PTL DEF Spec, ClaimsKept, Claim

=============================================================================
