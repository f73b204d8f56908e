----------------------------- MODULE PoolBackend -----------------------------
(***************************************************************************)
(* The pool's ledger: PoolBackend of primeserver/src/pool.h and             *)
(* backend.cpp.  One thread runs a zloop that serves three things, one at a *)
(* time: a proto::Data message from a worker (HandleData), the 60 s timer   *)
(* (Accounting) and the shutdown pipe.  All of it works on one Postgres     *)
(* database through one Wt::Dbo session.                                    *)
(*                                                                          *)
(* share, block, request and address are the tables as the session sees     *)
(* them inside the open transaction; saved is what the last commit left in  *)
(* Postgres.  They differ only while Accounting runs.  The wallet is not    *)
(* part of that transaction: a payment that SendMoney recorded stays        *)
(* recorded whatever becomes of the transaction.                            *)
(*                                                                          *)
(* Accounting is one handler and one transaction.  It is modelled as the    *)
(* sequence of steps between which a crash tells the difference: the pass   *)
(* begins, each share is accounted, the payout list is read, each request   *)
(* is tried, the transaction commits.                                       *)
(*                                                                          *)
(* Simplifications:                                                         *)
(*  - an address is its rank in the database's order of addresses;          *)
(*  - amounts are integers in a unit of which COIN make one XPM; share      *)
(*    values, computed in double by the code, are computed exactly and      *)
(*    truncated;                                                            *)
(*  - an address row that does not exist yet is the row of zeros that the   *)
(*    code creates on first use;                                            *)
(*  - of the time stamps the model keeps what the queries ask: the order    *)
(*    of the requests, and which rows have left the share value window;     *)
(*  - the rows nothing reads back (site, server, client and request         *)
(*    statistics, pool balance, payout transactions) are left out.  The     *)
(*    sum of an address's payout transactions is its Paid field.            *)
(***************************************************************************)
EXTENDS Integers, Sequences, FiniteSets, FiniteSetsExt, Functions

CONSTANTS
    Addr,            \* addresses shares are credited to
    ValidAddr,       \* those CBitcoinAddress::IsValid accepts
    PoolAddress,     \* -feeaddr
    COIN,            \* units per XPM
    MinPayout,       \* -minpayout, in XPM
    AddrMinPayout,   \* Address::MinPayout, in XPM (0: use the pool's)
    Fee,             \* -poolfee, in percent
    MinShare,        \* -minshare
    Lengths,         \* chain lengths of the shares the workers send
    GenValues,       \* values of the blocks the workers send
    TxFee,           \* wallet fee of a payment
    PayoutArg,       \* -payout
    FinalPayoutArg,  \* -finalpayout
    FinalTick,       \* 3:  the tick of the final payout
    PayoutPeriod,    \* 15: payouts happen when tick % 15 = 5
    PayoutPhase,     \* 5
    ValuePeriod,     \* 30: share values are updated when tick % 30 = 0
    MatureConf,      \* 6:  confirmations for a block to count as income
    FinalConf,       \* 100: confirmations after which a block is not checked
    SendOutcomes,    \* what SendMoneyToDestination may do
    MaxShares,       \* bound: rows of the share table
    MaxBlocks,       \* bound: rows of the block table
    MaxFunds,        \* bound: what the wallet is refilled to
    MaxOld,          \* bound: rows that leave their window
    MaxFaults      \* bound: crashes and shutdowns

(* What SendMoneyToDestination may do: succeed, fail with no effect, or      *)
(* return an error although the transaction is in the wallet and its coins   *)
(* are spent (CommitTransaction returns false after AddToWallet).            *)
Outcomes == {"sent", "failed", "rejected"}

ASSUME AddrAssumption ==
    /\ Addr \subseteq Nat /\ IsFiniteSet(Addr)
    /\ ValidAddr \subseteq Addr
    /\ PoolAddress \in Addr

ASSUME AmountAssumption ==
    /\ COIN \in Nat \ {0}
    /\ MinPayout \in Nat \ {0}
    /\ AddrMinPayout \in [Addr -> Nat]
    /\ Fee \in 0..100
    /\ GenValues \subseteq Nat
    /\ TxFee \in 0..COIN

ASSUME LengthAssumption ==
    /\ MinShare \in Nat
    /\ \A l \in Lengths : l \in Nat /\ l >= MinShare

(* The tick counter may wrap at 2 * ValuePeriod back to ValuePeriod without  *)
(* any test on it telling the difference.                                    *)
ASSUME TickAssumption ==
    /\ FinalTick \in Nat
    /\ PayoutPeriod \in Nat \ {0}
    /\ PayoutPhase \in Nat
    /\ ValuePeriod \in Nat
    /\ FinalTick < ValuePeriod /\ 1 < ValuePeriod
    /\ ValuePeriod % PayoutPeriod = 0

ASSUME BoundAssumption ==
    /\ MaxShares \in Nat /\ MaxBlocks \in Nat /\ MaxFunds \in Nat
    /\ MaxOld \in Nat /\ MaxFaults \in Nat

ASSUME BoolAssumption ==
    PayoutArg \in BOOLEAN /\ FinalPayoutArg \in BOOLEAN

ASSUME ConfAssumption ==
    MatureConf \in Nat /\ FinalConf \in Nat \ {0}

ASSUME OutcomeAssumption == SendOutcomes \subseteq Outcomes

NumShares == 3
MaxShare == MinShare + NumShares - 1
FinalMin == COIN \div 10
ValueCap == 10 * COIN
ShareLengths == MinShare .. MaxShare
SharePerc == [l \in ShareLengths |-> IF l = MinShare + 2 THEN 40 ELSE 30]

VARIABLES
    pc,             \* where the backend thread is
    tick,           \* mTickCounter
    currtime,       \* the time stamp of this pass of Accounting
    mShareValues,
    share,          \* table "share"
    block,          \* table "block"
    request,        \* table "payoutrequest"
    address,        \* table "address"
    saved,          \* the four tables as last committed
    todo,           \* requests the payout loop has still to visit
    funds,          \* the wallet's spendable balance
    depth,          \* depth of each block in the main chain, 0: not in it
    oldShares,      \* rows of share that are older than the window
    oldBlocks,      \* rows of block that are older than the window
    sent,           \* history: paid to each address by wallet transactions
    unsaved,        \* history: this pass has put a payment into the wallet
    tainted,        \* history: the wallet kept a payment the ledger missed
    faults          \* history: crashes, shutdowns and rejected payments

tables == <<share, block, request, address>>
env == <<funds, depth, oldShares, oldBlocks>>
history == <<sent, unsaved, tainted, faults>>
vars == <<pc, tick, currtime, mShareValues, tables, saved, todo, env, history>>

-----------------------------------------------------------------------------
(* Rows.                                                                     *)

ShareRow == [addr : Addr, length : Int, value : Nat, accounted : BOOLEAN]

(* A block row remembers the share row inserted with it: both have the same  *)
(* time stamp.                                                               *)
BlockRow == [value : Nat, confirmations : Nat, orphan : BOOLEAN, share : Nat]

(* A request is named by its time stamp and the share whose accounting made  *)
(* it (0: the final payout).                                                 *)
RequestRow == [addr : Addr, amount : Nat \ {0}, time : Nat, share : Nat]

AddressRow == [Balance : Int, Requested : Int, Paid : Nat, Blocked : BOOLEAN]

NewAddress == [Balance |-> 0, Requested |-> 0, Paid |-> 0, Blocked |-> FALSE]

Tables == [share |-> share, block |-> block, request |-> request,
           address |-> address]

-----------------------------------------------------------------------------
(* The rules of Accounting, each as an operator on the rows.                 *)

(* The row of a block after it was looked up in the main chain: it either    *)
(* takes its confirmations from there or becomes an orphan for good.         *)
CheckedBlock(b, d) ==
    IF b.confirmations >= FinalConf \/ b.orphan THEN b
    ELSE IF d > 0 THEN [b EXCEPT !.confirmations = d]
    ELSE [b EXCEPT !.orphan = TRUE]

(* What an address asks for at a time: one coin the first time, then its own *)
(* choice if it made one, or the pool's.                                     *)
PayLimit(a) ==
    IF AddrMinPayout[a] >= 1 THEN AddrMinPayout[a] * COIN ELSE MinPayout * COIN

PayoutAmount(a, row) ==
    IF row.Requested = 0 /\ row.Paid = 0 THEN COIN ELSE PayLimit(a)

(* A share of value v makes its address ask for a payout.                    *)
Due_OneAtATime(a, v) ==
    LET row == address[a]
    IN  /\ row.Balance + v - row.Requested > PayoutAmount(a, row)
        /\ row.Requested = 0
        /\ ~row.Blocked

Due(a, v) ==
    LET row == address[a]
    IN  /\ row.Balance + v - row.Requested > PayoutAmount(a, row)
        /\ ~row.Blocked

(* Shares are accounted in the order of their addresses.                     *)
Unaccounted_AllButLast ==
    {i \in DOMAIN share : i < Len(share) /\ ~share[i].accounted}

Unaccounted == {i \in DOMAIN share : ~share[i].accounted}
NextShares ==
    {i \in Unaccounted : \A j \in Unaccounted : share[i].addr <= share[j].addr}

(* Requests are visited in the order of their time stamps.                   *)
NextRequests == {r \in todo : \A q \in todo : r.time <= q.time}

FinalDue ==
    IF tick = FinalTick /\ FinalPayoutArg
    THEN {a \in Addr : address[a].Balance - address[a].Requested > FinalMin}
    ELSE {}

(* Share values: the income of the last day, less the fee, is divided over   *)
(* the lengths and, within a length, over its shares.                        *)
BlockSum ==
    SumFunctionOnSet([i \in DOMAIN block |-> block[i].value],
        {i \in DOMAIN block : i > oldBlocks /\ block[i].confirmations >= MatureConf})

ShareCount_NoLonger(l) ==
    Cardinality({i \in DOMAIN share : i > oldShares /\ share[i].length = l})

ShareCount(l) ==
    Cardinality({i \in DOMAIN share :
        /\ i > oldShares
        /\ \/ share[i].length = l
           \/ l = MaxShare /\ share[i].length > MaxShare})

NewShareValue(l) ==
    LET avail == BlockSum * (100 - Fee) * SharePerc[l]
        value == IF ShareCount(l) = 0 THEN 0
                 ELSE avail \div (10000 * ShareCount(l))
    IN  IF value <= ValueCap THEN value ELSE ValueCap

NextTick ==
    IF tick + 1 = 2 * ValuePeriod THEN ValuePeriod ELSE tick + 1

-----------------------------------------------------------------------------
(* The transaction: what its commit makes of the tables, and its rollback.   *)
CommitTransaction_NoAddress ==
    saved' = [Tables' EXCEPT !.address = saved.address]

CommitTransaction == saved' = Tables'

Rollback_KeepsAddress ==
    /\ share' = saved.share
    /\ block' = saved.block
    /\ request' = saved.request
    /\ address' = address

Rollback ==
    /\ share' = saved.share
    /\ block' = saved.block
    /\ request' = saved.request
    /\ address' = saved.address

(* The server is started.  The constructor runs Accounting before it returns *)
(* and before any worker exists.                                             *)
Start ==
    /\ pc = "down"
    /\ pc' = "starting"
    /\ UNCHANGED <<tick, currtime, mShareValues, tables, saved, todo, env, history>>

(* A worker's message that carries a share.  A block brings two more rows:   *)
(* the block, and a share for the pool's fee.                                *)
Value(len) == mShareValues[IF len <= MaxShare THEN len ELSE MaxShare]

HandleShare(addr, len) ==
    /\ Len(share) < MaxShares
    /\ share' = Append(share, [addr |-> addr, length |-> len,
                               value |-> Value(len), accounted |-> FALSE])
    /\ UNCHANGED <<block, depth>>

HandleBlock(addr, len, gen) ==
    /\ Len(share) + 1 < MaxShares
    /\ Len(block) < MaxBlocks
    /\ share' = share \o
         << [addr |-> PoolAddress, length |-> -1,
             value |-> (gen * Fee) \div 100, accounted |-> FALSE],
            [addr |-> addr, length |-> len,
             value |-> Value(len), accounted |-> FALSE] >>
    /\ block' = Append(block, [value |-> gen, confirmations |-> 0,
                               orphan |-> FALSE, share |-> Len(share) + 2])
    /\ depth' = Append(depth, 1)

HandleData ==
    /\ pc = "loop"
    /\ \E addr \in Addr, len \in Lengths :
          \/ HandleShare(addr, len)
          \/ \E gen \in GenValues : HandleBlock(addr, len, gen)
    /\ UNCHANGED <<pc, tick, currtime, mShareValues, request, address, todo,
                   funds, oldShares, oldBlocks, history>>
    /\ CommitTransaction

(* Accounting: the timer fires, or the constructor calls it.                 *)
BeginAccounting ==
    /\ pc \in {"starting", "loop"}
    /\ pc' = "shares"
    /\ currtime' = 1 + Max({0} \cup {r.time : r \in request})
    /\ block' = IF tick > 1
                THEN [i \in DOMAIN block |-> CheckedBlock(block[i], depth[i])]
                ELSE block
    /\ UNCHANGED <<tick, mShareValues, share, request, address, saved, todo,
                   env, history>>

Credited(row, v, amount) ==
    [row EXCEPT !.Balance = @ + v, !.Requested = @ + amount]

NewRequest(a, i) == [addr |-> a, amount |-> PayoutAmount(a, address[a]),
                     time |-> currtime, share |-> i]

Credit(i) ==
    LET a == share[i].addr
        v == share[i].value
        new == IF Due(a, v) THEN {NewRequest(a, i)} ELSE {}
        amount == IF Due(a, v) THEN PayoutAmount(a, address[a]) ELSE 0
    IN  /\ share' = [share EXCEPT ![i].accounted = TRUE]
        /\ address' = [address EXCEPT ![a] = Credited(address[a], v, amount)]
        /\ request' = request \cup new

AccountShare ==
    /\ pc = "shares"
    /\ \E i \in NextShares : Credit(i)
    /\ UNCHANGED <<pc, tick, currtime, mShareValues, block, saved, todo, env,
                   history>>

(* All shares are accounted.  On the final payout tick every address asks    *)
(* for all it has; on a payout tick the list of requests is read.            *)
BeginPayout ==
    /\ pc = "shares"
    /\ Unaccounted = {}
    /\ pc' = "payout"
    /\ address' = [a \in Addr |-> IF a \in FinalDue
                     THEN [address[a] EXCEPT !.Requested = address[a].Balance]
                     ELSE address[a]]
    /\ request' = request \cup
          {[addr |-> a, amount |-> address[a].Balance - address[a].Requested,
            time |-> currtime, share |-> 0] : a \in FinalDue}
    /\ todo' = IF tick % PayoutPeriod = PayoutPhase /\ PayoutArg
               THEN request' ELSE {}
    /\ UNCHANGED <<tick, currtime, mShareValues, share, block, saved, env,
                   history>>

(* The payout loop: one action for each way an iteration may go.             *)
Drop_KeepsRequest(r) == UNCHANGED request /\ todo' = todo \ {r}

Drop_KeepsTodo(r) == request' = request \ {r} /\ UNCHANGED todo

Drop(r) == request' = request \ {r} /\ todo' = todo \ {r}

PayInvalid_EndsLoop(r) ==
    /\ r.addr \notin ValidAddr
    /\ todo' = {}
    /\ UNCHANGED <<request, address, funds, history>>

PayInvalid(r) ==
    /\ r.addr \notin ValidAddr
    /\ address' = [address EXCEPT ![r.addr].Blocked = TRUE]
    /\ Drop(r)
    /\ UNCHANGED <<funds, history>>

(* The wallet has not enough left: the loop ends, the request stays.         *)
Affordable(r) == funds - r.amount >= COIN

PayEmpty(r) ==
    /\ r.addr \in ValidAddr
    /\ ~Affordable(r)
    /\ todo' = {}
    /\ UNCHANGED <<request, address, funds, history>>

(* A transaction is in the wallet, its coins are spent.                      *)
Record(r) ==
    /\ funds' = funds - r.amount - TxFee
    /\ sent' = [sent EXCEPT ![r.addr] = @ + r.amount]

PaidOut_KeepsRequested(row, amount) ==
    [row EXCEPT !.Balance = @ - amount, !.Paid = @ + amount]

PaidOut(row, amount) ==
    [row EXCEPT !.Balance = @ - amount, !.Requested = @ - amount, !.Paid = @ + amount]

Book(r) ==
    address' = [address EXCEPT ![r.addr] = PaidOut(address[r.addr], r.amount)]

PaySent(r) ==
    /\ "sent" \in SendOutcomes
    /\ r.addr \in ValidAddr
    /\ Affordable(r)
    /\ Record(r)
    /\ unsaved' = TRUE
    /\ Book(r)
    /\ Drop(r)
    /\ UNCHANGED <<tainted, faults>>

(* SendMoney returns an error: the request stays for the next payout.        *)
PayFailed_Booked(r) ==
    /\ "failed" \in SendOutcomes
    /\ r.addr \in ValidAddr
    /\ Affordable(r)
    /\ Book(r)
    /\ Drop(r)
    /\ UNCHANGED <<funds, history>>

PayFailed(r) ==
    /\ "failed" \in SendOutcomes
    /\ r.addr \in ValidAddr
    /\ Affordable(r)
    /\ todo' = todo \ {r}
    /\ UNCHANGED <<request, address, funds, history>>

PayRejected(r) ==
    /\ "rejected" \in SendOutcomes
    /\ r.addr \in ValidAddr
    /\ Affordable(r)
    /\ Record(r)
    /\ faults < MaxFaults
    /\ faults' = faults + 1
    /\ tainted' = TRUE
    /\ todo' = todo \ {r}
    /\ UNCHANGED <<request, address, unsaved>>

Pay ==
    /\ pc = "payout"
    /\ \E r \in NextRequests :
          PayInvalid(r) \/ PayEmpty(r) \/ PaySent(r) \/ PayFailed(r)
                       \/ PayRejected(r)
    /\ UNCHANGED <<pc, tick, currtime, mShareValues, share, block, saved, depth,
                   oldShares, oldBlocks>>

(* The pass ends: share values are updated on their tick, the transaction    *)
(* commits, the tick advances.                                               *)
Commit ==
    /\ pc = "payout"
    /\ todo = {}
    /\ mShareValues' = IF tick % ValuePeriod = 0
                       THEN [l \in ShareLengths |-> NewShareValue(l)]
                       ELSE mShareValues
    /\ unsaved' = FALSE
    /\ tick' = NextTick
    /\ currtime' = 0
    /\ pc' = "loop"
    /\ UNCHANGED <<tables, todo, env, sent, tainted, faults>>
    /\ CommitTransaction

(* What the process holds in memory is gone when it ends.                    *)
Forget ==
    /\ pc' = "down"
    /\ tick' = 0
    /\ currtime' = 0
    /\ mShareValues' = [l \in ShareLengths |-> 0]
    /\ faults < MaxFaults
    /\ faults' = faults + 1

(* The process dies, for instance because Postgres throws: the transaction   *)
(* is rolled back, the wallet keeps what it has recorded.                    *)
Crash ==
    /\ pc # "down"
    /\ Forget
    /\ Rollback
    /\ todo' = {}
    /\ tainted' = (tainted \/ unsaved)
    /\ unsaved' = FALSE
    /\ UNCHANGED <<saved, env, sent>>

(* The destructor's signal on the pipe ends the loop between two handlers.   *)
Shutdown ==
    /\ pc = "loop"
    /\ Forget
    /\ UNCHANGED <<tables, saved, todo, env, sent, unsaved, tainted>>

(* The outside: the wallet is funded, the chain moves, time passes.  The     *)
(* wallet is asked for each payment; the chain and the clock are read when a *)
(* pass begins, so that only their moves between two handlers matter.        *)
Deposit ==
    /\ pc \in {"loop", "payout"}
    /\ funds < MaxFunds
    /\ funds' = MaxFunds
    /\ UNCHANGED <<depth, oldShares, oldBlocks>>

MoveChain ==
    /\ pc = "loop"
    /\ \E i \in DOMAIN depth :
          \E d \in {0, depth[i] + 1} \cap 0..FinalConf :
             depth' = [depth EXCEPT ![i] = d]
    /\ UNCHANGED <<funds, oldShares, oldBlocks>>

(* Rows leave the windows in the order they were inserted, a block's window  *)
(* being the longer one.                                                     *)
AgeShare ==
    /\ pc = "loop"
    /\ oldShares < MaxOld /\ oldShares < Len(saved.share)
    /\ oldShares' = oldShares + 1
    /\ UNCHANGED <<funds, depth, oldBlocks>>

AgeBlock ==
    /\ pc = "loop"
    /\ oldBlocks < MaxOld /\ oldBlocks < Len(saved.block)
    /\ saved.block[oldBlocks + 1].share <= oldShares
    /\ oldBlocks' = oldBlocks + 1
    /\ UNCHANGED <<funds, depth, oldShares>>

Environment ==
    /\ Deposit \/ MoveChain \/ AgeShare \/ AgeBlock
    /\ UNCHANGED <<pc, tick, currtime, mShareValues, tables, saved, todo, history>>

-----------------------------------------------------------------------------
(* The first start, on the empty tables that -initwtdb creates.              *)
Init ==
    /\ pc = "down"
    /\ tick = 0
    /\ currtime = 0
    /\ mShareValues = [l \in ShareLengths |-> 0]
    /\ share = <<>>
    /\ block = <<>>
    /\ request = {}
    /\ address = [a \in Addr |-> NewAddress]
    /\ saved = Tables
    /\ todo = {}
    /\ funds = 0
    /\ depth = <<>>
    /\ oldShares = 0
    /\ oldBlocks = 0
    /\ sent = [a \in Addr |-> 0]
    /\ unsaved = FALSE
    /\ tainted = FALSE
    /\ faults = 0

Accounting == BeginAccounting \/ AccountShare \/ BeginPayout \/ Pay \/ Commit

Next ==
    \/ Start
    \/ HandleData
    \/ Accounting
    \/ Crash
    \/ Shutdown
    \/ Environment

Spec == Init /\ [][Next]_vars

(* A payment that succeeds.                                                  *)
PaymentSent == Pay /\ unsaved' /\ sent' # sent

(* Fairness: the operator restarts a server that went down; the zloop serves *)
(* its timer; a handler that has begun goes on; the wallet is refilled again *)
(* and again (strong, because Deposit is not enabled while shares are        *)
(* accounted); a wallet that is asked again and again sends some day.        *)
FairSpec ==
    /\ Spec
    /\ WF_vars(Start)
    /\ WF_vars(Accounting)
    /\ SF_vars(Environment /\ Deposit)
    /\ SF_vars(PaymentSent)

-----------------------------------------------------------------------------
(* Properties.                                                               *)

TablesType == [share : Seq(ShareRow), block : Seq(BlockRow),
               request : SUBSET RequestRow, address : [Addr -> AddressRow]]

(* Type correctness of the session, the tables and the wallet; the chain     *)
(* knows a depth for each block row, also after a rollback.                  *)
TypeOK ==
    /\ pc \in {"down", "starting", "loop", "shares", "payout"}
    /\ tick \in Nat
    /\ currtime \in Nat
    /\ mShareValues \in [ShareLengths -> Nat]
    /\ Tables \in TablesType /\ IsFiniteSet(request)
    /\ saved \in TablesType /\ IsFiniteSet(saved.request)
    /\ todo \subseteq request
    /\ funds \in Int
    /\ depth \in Seq(Nat)
    /\ Len(depth) = Len(block) /\ Len(depth) = Len(saved.block)
    /\ oldShares \in Nat /\ oldBlocks \in Nat
    /\ sent \in [Addr -> Nat]
    /\ unsaved \in BOOLEAN /\ tainted \in BOOLEAN
    /\ faults \in Nat

(* The rules below hold of the session's tables and of the committed ones.   *)
Ledgers == {Tables, saved}

Values(t) == [i \in DOMAIN t.share |-> t.share[i].value]
SharesOf(t, a) == {i \in DOMAIN t.share : t.share[i].addr = a}
AccountedOf(t, a) == {i \in SharesOf(t, a) : t.share[i].accounted}

Amounts(t) == [r \in t.request |-> r.amount]
RequestsOf(t, a) == {r \in t.request : r.addr = a}

(* What an address owns and what it was paid make up, to the unit, the value *)
(* of its accounted shares: no share is credited twice or lost, whatever     *)
(* handlers, payouts and crashes come between (backend.cpp:281-283, 412).    *)
Balanced(t) ==
    \A a \in Addr :
        t.address[a].Balance + t.address[a].Paid =
            SumFunctionOnSet(Values(t), AccountedOf(t, a))

LedgerBalanced == \A t \in Ledgers : Balanced(t)

(* Requested is the sum of the address's open requests; only an address that *)
(* was blocked may have more in it, for the requests that were dropped       *)
(* (backend.cpp:298, 413, 417-423).                                          *)
Booked(t) ==
    \A a \in Addr :
        LET row == t.address[a]
            open == SumFunctionOnSet(Amounts(t), RequestsOf(t, a))
        IN  /\ open <= row.Requested
            /\ ~row.Blocked => open = row.Requested

RequestsBooked == \A t \in Ledgers : Booked(t)

(* An address never asks for more than it owns (backend.cpp:291-298, 322).   *)
WithinBalance(t) ==
    \A a \in Addr : t.address[a].Requested <= t.address[a].Balance

RequestedWithinBalance == \A t \in Ledgers : WithinBalance(t)

(* Unless the process died with payments not yet committed, or the wallet    *)
(* kept a transaction it reported as failed, the wallet has paid to each     *)
(* address exactly what the ledger says: no other crash, restart or failed   *)
(* send makes a payment twice or forgets one (backend.cpp:388-423, 515).     *)
PaymentExactlyOnce ==
    ~tainted => \A a \in Addr : sent[a] = address[a].Paid

(* Whatever happens, the committed ledger never claims a payment that the    *)
(* wallet has not recorded.                                                  *)
NoPhantomPayment ==
    \A a \in Addr : saved.address[a].Paid <= sent[a]

(* Shares do not pile up: if no share of an address is worth more than its   *)
(* payout amount, what is left unrequested never exceeds that amount, though *)
(* at most one request is made per share and the first is for one coin only  *)
(* (backend.cpp:285-291).                                                    *)
SmallShares(t, a) ==
    \A i \in SharesOf(t, a) : t.share[i].value <= PayLimit(a)

Unrequested(t) ==
    \A a \in Addr :
        ~t.address[a].Blocked /\ SmallShares(t, a)
            => t.address[a].Balance - t.address[a].Requested <= PayLimit(a)

UnrequestedBounded == \A t \in Ledgers : Unrequested(t)

(* When share values are updated, the shares of the window at their new      *)
(* values do not cost more than the window's income less the fee             *)
(* (backend.cpp:451-513).                                                    *)
WindowCost ==
    SumFunctionOnSet([i \in DOMAIN share |-> Value(share[i].length)],
        {i \in DOMAIN share : i > oldShares /\ share[i].length >= MinShare})

PayoutBudget ==
    [][(Commit /\ tick % ValuePeriod = 0) =>
         100 * WindowCost' <= BlockSum * (100 - Fee)]_vars

(* Every committed share is accounted some day, over crashes and restarts.   *)
EveryShareAccounted ==
    \A i \in 1..MaxShares :
        i \in DOMAIN saved.share
            ~> i \in DOMAIN saved.share /\ saved.share[i].accounted

(* Every committed request of a valid address is paid some day, however many *)
(* requests stand before it and whether or not sends fail, if the wallet is  *)
(* funded and does not fail for ever (backend.cpp:341-430).                  *)
EveryRequestPaid ==
    \A a \in ValidAddr :
        (\E r \in saved.request : r.addr = a)
            ~> ~\E r \in saved.request : r.addr = a

-----------------------------------------------------------------------------
(* The committed tables as a ShareLedger.                                    *)
Ledger == INSTANCE ShareLedger WITH
    Payable <- ValidAddr,
    entry   <- [i \in DOMAIN saved.share |->
                  [addr |-> saved.share[i].addr, value |-> saved.share[i].value]],
    settled <- {i \in DOMAIN saved.share : saved.share[i].accounted},
    Balance <- [a \in Addr |-> saved.address[a].Balance],
    Paid    <- [a \in Addr |-> saved.address[a].Paid]

(* The backend keeps the promise of ShareLedger: seen through its commits,   *)
(* every message and every pass of Accounting is one step of that ledger,    *)
(* and failed payments, crashes and restarts are none                        *)
(* (backend.cpp:162-521, 536-652).                                           *)
ImplementsLedger == Ledger!Spec

=============================================================================
