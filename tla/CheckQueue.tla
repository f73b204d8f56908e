------------------------------ MODULE CheckQueue ------------------------------
(***************************************************************************)
(* CCheckQueue and CCheckQueueControl (checkqueue.h): the script checks of  *)
(* a block, shared by a master, the thread in ConnectBlock (main.cpp), and  *)
(* the workers AppInit2 starts (init.cpp).                                  *)
(*                                                                          *)
(* The master holds cs_main, so there is one master at a time.  A step is   *)
(* what a thread does between two points where another thread can see a     *)
(* difference: the critical sections are cut where the thread waits, and    *)
(* where the counters differ from what the master reads without the mutex.  *)
(*                                                                          *)
(* Simplifications:                                                         *)
(*  - a check is the Boolean it evaluates to;                               *)
(*  - fQuit is left out: nothing sets it;                                   *)
(*  - nNow and fOk are reset when they have been merged, where the code     *)
(*    leaves values it does not read again;                                 *)
(*  - the master is one thread, also when it has been interrupted.          *)
(***************************************************************************)
EXTENDS Integers, Sequences, FiniteSets, Functions

CONSTANTS
    Worker,         \* the threads of ThreadScriptCheck
    Master,         \* the thread in ConnectBlock
    NoThread,       \* nobody holds the mutex
    nBatchSize,     \* the largest batch a thread takes
    Batches,        \* what Add may be called with
    MaxChecks,      \* bound: checks of one block
    MayInterrupt,   \* DetectShutdownThread may interrupt the threads
    DestructorMayThrow  \* C++98; from C++11 on, the program ends instead

Thread == Worker \cup {Master}

ASSUME ThreadAssumption == IsFiniteSet(Worker) /\ Master \notin Worker
ASSUME MutexAssumption == NoThread \notin Thread
ASSUME BatchAssumption == nBatchSize \in Nat \ {0} /\ Batches \subseteq Seq(BOOLEAN)
ASSUME BoundAssumption == MaxChecks \in Nat
ASSUME BuildAssumption == MayInterrupt \in BOOLEAN /\ DestructorMayThrow \in BOOLEAN

VARIABLES
    mutex,          \* who holds it
    queue, nIdle, nTotal, fAllOk, nTodo,
    pc,             \* where a thread is
    notified,       \* waiting threads that have been notified
    batch,          \* vChecks of a thread
    nNow, fOk,      \* locals of a thread
    interrupt,      \* per thread: "no", "requested", "thrown"
    destroying,     \* the master is in the destructor of its Control
    process,        \* "up", "assert" or "terminate" when it has ended
    good,           \* history: all checks added to this Control pass
    added,          \* history: how many they are
    verdict         \* history: what Wait returned: "none", "ok" or "bad"

shared == <<queue, nIdle, nTotal, fAllOk, nTodo>>
locals == <<batch, nNow, fOk>>
history == <<good, added, verdict>>
vars == <<mutex, shared, pc, notified, locals, interrupt, destroying, process, history>>

AllTrue(checks) == \A i \in DOMAIN checks : checks[i]

Least(a, b) == IF a < b THEN a ELSE b
Greatest(a, b) == IF a > b THEN a ELSE b

Waiting == {t \in Thread : pc[t] = "waiting"}

(* The places of Loop, those of the master outside it, and the end of a      *)
(* worker.                                                                   *)
Place == {"enter", "top", "waiting", "work", "out", "adding", "gone"}

Go(t, there) == pc' = [pc EXCEPT ![t] = there]

-----------------------------------------------------------------------------
Init ==
    /\ mutex = NoThread
    /\ queue = <<>> /\ nIdle = 0 /\ nTotal = 0 /\ nTodo = 0
    /\ fAllOk = TRUE
    /\ pc = [t \in Thread |-> IF t = Master THEN "out" ELSE "enter"]
    /\ notified = {}
    /\ batch = [t \in Thread |-> <<>>]
    /\ nNow = [t \in Thread |-> 0]
    /\ fOk = [t \in Thread |-> TRUE]
    /\ interrupt = [t \in Thread |-> "no"]
    /\ destroying = FALSE /\ process = "up"
    /\ good = TRUE /\ added = 0 /\ verdict = "none"

(* CCheckQueueControl's constructor, which reads the queue without the mutex.*)
Unused == nTotal = nIdle /\ nTodo = 0 /\ fAllOk

Control ==
    /\ pc[Master] = "out"
    /\ good' = TRUE /\ added' = 0 /\ verdict' = "none"
    /\ destroying' = FALSE
    /\ IF Unused THEN Go(Master, "adding") /\ UNCHANGED process
                 ELSE process' = "assert" /\ UNCHANGED pc
    /\ UNCHANGED <<mutex, shared, notified, locals, interrupt>>

(* Add, for the checks of one transaction.                                   *)
NotifyWorkers(n) ==
    LET sleeping == Waiting \ (notified \cup {Master})
    IN  CASE n = 0 \/ sleeping = {} -> UNCHANGED notified
          [] n = 1 /\ sleeping # {} -> \E w \in sleeping : notified' = notified \cup {w}
          [] OTHER -> notified' = notified \cup sleeping

Add_PerTransaction ==
    /\ pc[Master] = "adding"
    /\ mutex = NoThread
    /\ \E checks \in Batches :
        /\ added + Len(checks) <= MaxChecks
        /\ queue' = queue \o checks
        /\ nTodo' = nTodo + 1
        /\ good' = (good /\ AllTrue(checks))
        /\ added' = added + Len(checks)
        /\ NotifyWorkers(Len(checks))
    /\ UNCHANGED <<mutex, nIdle, nTotal, fAllOk, pc, locals, interrupt, destroying, process,
                   verdict>>

Add ==
    /\ pc[Master] = "adding"
    /\ mutex = NoThread
    /\ \E checks \in Batches :
        /\ added + Len(checks) <= MaxChecks
        /\ queue' = queue \o checks
        /\ nTodo' = nTodo + Len(checks)
        /\ good' = (good /\ AllTrue(checks))
        /\ added' = added + Len(checks)
        /\ NotifyWorkers(Len(checks))
    /\ UNCHANGED <<mutex, nIdle, nTotal, fAllOk, pc, locals, interrupt, destroying,
                   process, verdict>>

(* Wait, called by ConnectBlock, or by the destructor if the block was       *)
(* refused before.                                                           *)
Wait ==
    /\ pc[Master] = "adding"
    /\ Go(Master, "enter")
    /\ destroying' \in BOOLEAN
    /\ UNCHANGED <<mutex, shared, notified, locals, interrupt, process, history>>

-----------------------------------------------------------------------------
(* Loop.  A thread takes the mutex, merges what it did, ...                  *)
Join_NotCounted(t) ==
    /\ nNow[t] = 0
    /\ UNCHANGED <<nTotal, fAllOk, nTodo, nNow, fOk, notified>>

Join(t) ==
    /\ nNow[t] = 0
    /\ nTotal' = nTotal + 1
    /\ UNCHANGED <<fAllOk, nTodo, nNow, fOk, notified>>

Merge_Overwrites(t) ==
    /\ nNow[t] # 0
    /\ fAllOk' = fOk[t]
    /\ nTodo' = nTodo - nNow[t]
    /\ nNow' = [nNow EXCEPT ![t] = 0]
    /\ fOk' = [fOk EXCEPT ![t] = TRUE]
    /\ notified' = IF nTodo' = 0 /\ t # Master THEN notified \cup (Waiting \cap {Master})
                                               ELSE notified
    /\ UNCHANGED nTotal

Merge_Silent(t) ==
    /\ nNow[t] # 0
    /\ fAllOk' = (fAllOk /\ fOk[t])
    /\ nTodo' = nTodo - nNow[t]
    /\ nNow' = [nNow EXCEPT ![t] = 0]
    /\ fOk' = [fOk EXCEPT ![t] = TRUE]
    /\ UNCHANGED <<nTotal, notified>>

Merge(t) ==
    /\ nNow[t] # 0
    /\ fAllOk' = (fAllOk /\ fOk[t])
    /\ nTodo' = nTodo - nNow[t]
    /\ nNow' = [nNow EXCEPT ![t] = 0]
    /\ fOk' = [fOk EXCEPT ![t] = TRUE]
    /\ notified' = IF nTodo' = 0 /\ t # Master THEN notified \cup (Waiting \cap {Master})
                                               ELSE notified
    /\ UNCHANGED nTotal

Enter(t) ==
    /\ pc[t] = "enter"
    /\ mutex = NoThread
    /\ mutex' = t
    /\ Go(t, "top")
    /\ Join(t) \/ Merge(t)
    /\ UNCHANGED <<queue, nIdle, batch, interrupt, destroying, process, history>>

(* ... the master returns when there is nothing left to do, ...              *)
Return_QueueEmpty(t) ==
    /\ pc[t] = "top"
    /\ queue = <<>>
    /\ t = Master
    /\ nTotal' = nTotal - 1
    /\ verdict' = IF fAllOk THEN "ok" ELSE "bad"
    /\ fAllOk' = TRUE
    /\ mutex' = NoThread
    /\ Go(t, "out")
    /\ UNCHANGED <<queue, nIdle, nTodo, notified, locals, interrupt, destroying, process,
                   good, added>>

Return(t) ==
    /\ pc[t] = "top"
    /\ queue = <<>>
    /\ t = Master /\ nTodo = 0
    /\ nTotal' = nTotal - 1
    /\ verdict' = IF fAllOk THEN "ok" ELSE "bad"
    /\ fAllOk' = TRUE
    /\ mutex' = NoThread
    /\ Go(t, "out")
    /\ UNCHANGED <<queue, nIdle, nTodo, notified, locals, interrupt, destroying,
                   process, good, added>>

(* ... waits while the queue is empty, ...                                   *)
CondWait(t) ==
    /\ pc[t] = "top"
    /\ queue = <<>>
    /\ ~(t = Master /\ nTodo = 0)
    /\ nIdle' = nIdle + 1
    /\ mutex' = NoThread
    /\ notified' = notified \ {t}
    /\ Go(t, "waiting")
    /\ UNCHANGED <<queue, nTotal, fAllOk, nTodo, locals, interrupt, destroying,
                   process, history>>

Awake_StillIdle(t) ==
    /\ pc[t] = "waiting"
    /\ mutex = NoThread
    /\ mutex' = t
    /\ notified' = notified \ {t}
    /\ Go(t, "top")
    /\ UNCHANGED <<queue, nIdle, nTotal, fAllOk, nTodo, locals, interrupt, destroying,
                   process,
                   history>>

Awake(t) ==
    /\ pc[t] = "waiting"
    /\ mutex = NoThread
    /\ mutex' = t
    /\ nIdle' = nIdle - 1
    /\ notified' = notified \ {t}
    /\ Go(t, "top")
    /\ UNCHANGED <<queue, nTotal, fAllOk, nTodo, locals, interrupt, destroying,
                   process, history>>

Notified(t) == t \in notified /\ Awake(t)

SpuriousWake(t) == t \notin notified /\ Awake(t)

(* ... or takes a batch from the end of the queue and works on it.           *)
HowMany == Greatest(1, Least(nBatchSize, Len(queue) \div (nTotal + nIdle + 1)))

Take(t) ==
    /\ pc[t] = "top"
    /\ queue # <<>>
    /\ LET rest == Len(queue) - HowMany
       IN  /\ batch' = [batch EXCEPT ![t] = SubSeq(queue, rest + 1, Len(queue))]
           /\ queue' = SubSeq(queue, 1, rest)
           /\ nNow' = [nNow EXCEPT ![t] = HowMany]
    /\ fOk' = [fOk EXCEPT ![t] = fAllOk]
    /\ mutex' = NoThread
    /\ Go(t, "work")
    /\ UNCHANGED <<nIdle, nTotal, fAllOk, nTodo, notified, interrupt, destroying,
                   process, history>>

Work(t) ==
    /\ pc[t] = "work"
    /\ fOk' = [fOk EXCEPT ![t] = fOk[t] /\ AllTrue(batch[t])]
    /\ batch' = [batch EXCEPT ![t] = <<>>]
    /\ Go(t, "enter")
    /\ UNCHANGED <<mutex, shared, notified, nNow, interrupt, destroying, process, history>>

-----------------------------------------------------------------------------
(* Shutdown: interrupt_all, and the exception it causes where a thread waits.*)
(* A worker ends.  ConnectBlock is unwound, and the destructor of its        *)
(* Control waits again; from the destructor itself the exception leaves at   *)
(* once, with the queue as it is.                                            *)
InterruptAll ==
    /\ MayInterrupt
    /\ \A t \in Thread : interrupt[t] = "no"
    /\ interrupt' = [t \in Thread |-> "requested"]
    /\ UNCHANGED <<mutex, shared, pc, notified, locals, destroying, process, history>>

Interrupted(t) ==
    /\ pc[t] = "waiting"
    /\ interrupt[t] = "requested"
    /\ mutex = NoThread
    /\ interrupt' = [interrupt EXCEPT ![t] = "thrown"]
    /\ notified' = notified \ {t}
    /\ \/ t # Master /\ Go(t, "gone") /\ UNCHANGED <<destroying, process>>
       \/ /\ t = Master /\ ~destroying
          /\ Go(t, "enter")
          /\ destroying' = TRUE
          /\ UNCHANGED process
       \/ /\ t = Master /\ destroying
          /\ Go(t, "out")
          /\ process' = IF DestructorMayThrow THEN process ELSE "terminate"
          /\ UNCHANGED destroying
    /\ UNCHANGED <<mutex, shared, locals, history>>

-----------------------------------------------------------------------------
Run(t) ==
    \/ Enter(t) \/ Return(t) \/ CondWait(t) \/ Notified(t)
    \/ Take(t) \/ Work(t) \/ Interrupted(t)

Next ==
    /\ process = "up"
    /\ \/ Control \/ Add \/ Wait \/ InterruptAll
       \/ \E t \in Thread : Run(t) \/ SpuriousWake(t)

Spec == Init /\ [][Next]_vars

(* ConnectBlock ends: it adds finitely many checks, then waits.  A thread    *)
(* that can run does, and one that asks for the mutex again and again gets   *)
(* it.  Nothing obliges a thread to wake up without a notification.          *)
Fairness ==
    /\ WF_vars(process = "up" /\ Wait)
    /\ \A t \in Thread : SF_vars(process = "up" /\ Run(t))

FairSpec == Spec /\ Fairness

-----------------------------------------------------------------------------
(* The variables have their types.                                           *)
TypeOK ==
    /\ mutex \in Thread \cup {NoThread}
    /\ queue \in Seq(BOOLEAN)
    /\ nIdle \in Nat /\ nTotal \in Nat /\ nTodo \in Nat
    /\ fAllOk \in BOOLEAN
    /\ pc \in [Thread -> Place]
    /\ notified \subseteq Waiting
    /\ batch \in [Thread -> Seq(BOOLEAN)]
    /\ nNow \in [Thread -> Nat]
    /\ fOk \in [Thread -> BOOLEAN]
    /\ interrupt \in [Thread -> {"no", "requested", "thrown"}]
    /\ destroying \in BOOLEAN /\ process \in {"up", "assert", "terminate"}
    /\ good \in BOOLEAN /\ added \in Nat /\ verdict \in {"none", "ok", "bad"}

(* Wait returns that all checks passed exactly if all checks added by this   *)
(* master pass: whichever threads evaluated them, and whatever the block     *)
(* before it left behind.                                                    *)
VerdictExact == verdict # "none" => (verdict = "ok") = good

(* When ConnectBlock is left, early or not, no thread has a check of the     *)
(* block any more: a check points into the block, which is then freed.  The  *)
(* queue is as the next Control expects it, but for the idle count.          *)
QuietAfterBlock ==
    process = "up" /\ pc[Master] = "out" =>
        /\ queue = <<>> /\ nTodo = 0 /\ fAllOk
        /\ \A t \in Thread : nNow[t] = 0 /\ pc[t] # "work"

(* nTodo is the checks in the queue and in the hands of the threads, so the  *)
(* unsigned counter never wraps, and the master is notified by the last.     *)
TodoExact == nTodo = Len(queue) + SumFunctionOnSet(nNow, Thread)

Thrown == {t \in Thread : interrupt[t] = "thrown"}

Joined == {t \in Thread : \/ pc[t] \in {"top", "waiting", "work"}
                          \/ pc[t] = "enter" /\ nNow[t] # 0}

(* Each thread counts once in nTotal, and waiting once in nIdle; an          *)
(* interruption leaves one behind in both.  The batch sizes depend on them.  *)
CountsExact ==
    /\ nIdle = Cardinality(Waiting) + Cardinality(Thrown)
    /\ nTotal = Cardinality(Joined) + Cardinality(Thrown)

(* A master that waits is not forgotten, interrupted or not: the block gets  *)
(* its verdict.                                                              *)
WaitReturns == (pc[Master] = "enter") ~> (pc[Master] = "out" \/ process # "up")

(* "passed queue is supposed to be unused": the constructor's assertions.    *)
AssertionsHold == process # "assert"

=============================================================================
