----------------------------- MODULE ShareLedger -----------------------------
(***************************************************************************)
(* What the pool promises its miners, without the way it keeps the promise: *)
(* a ledger that shares are entered in, and that is settled from time to    *)
(* time.  Each settlement is one step.  It credits every share entered so   *)
(* far, once, and divides what an address has earned into what it was paid  *)
(* and what it is still owed; a payment is never taken back and never goes  *)
(* to an address that cannot be paid.                                       *)
(*                                                                          *)
(* PoolBackend implements this ledger with its committed tables: messages   *)
(* enter shares, a pass of Accounting settles, and every other step, a      *)
(* crash in the middle of a pass included, leaves the ledger as it was.     *)
(***************************************************************************)
EXTENDS Integers, Sequences, FiniteSetsExt

CONSTANTS
    Addr,      \* the addresses shares are entered for
    Payable    \* those that can be paid

VARIABLES
    entry,     \* the shares in the order they were entered
    settled,   \* those that settlements have credited
    Balance,   \* what each address is owed
    Paid       \* what each address was paid

ledger == <<entry, settled, Balance, Paid>>

Entry == [addr : Addr, value : Nat]

(* What the shares in S earn an address.                                     *)
Earned(a, S) ==
    SumFunctionOnSet([i \in DOMAIN entry |-> entry[i].value],
                     {i \in S : entry[i].addr = a})

Init ==
    /\ entry = <<>>
    /\ settled = {}
    /\ Balance = [a \in Addr |-> 0]
    /\ Paid = [a \in Addr |-> 0]

(* A share is entered, or two: a block brings the pool's fee with it.        *)
Enter ==
    /\ Len(entry') \in {Len(entry) + 1, Len(entry) + 2}
    /\ \A i \in DOMAIN entry : entry'[i] = entry[i]
    /\ \A i \in DOMAIN entry' \ DOMAIN entry : entry'[i] \in Entry
    /\ UNCHANGED <<settled, Balance, Paid>>

Settle ==
    /\ settled' = DOMAIN entry
    /\ \A a \in Addr :
          /\ Balance'[a] + Paid'[a] = Earned(a, DOMAIN entry)
          /\ Balance'[a] >= 0
          /\ Paid'[a] >= Paid[a]
          /\ Paid'[a] > Paid[a] => a \in Payable
    /\ UNCHANGED entry

Next == Enter \/ Settle

Spec == Init /\ [][Next]_ledger

=============================================================================
