--------------------------- MODULE CheckQueueProofs ---------------------------
(***************************************************************************)
(* Proofs about CheckQueue, for any number of workers, any batch size and   *)
(* any blocks.                                                              *)
(***************************************************************************)
EXTENDS CheckQueue, FiniteDataTheorems, TLAPS

(* The thread inside a critical section is the one that holds the mutex.     *)
MutexInv == \A t \in Thread : mutex = t <=> pc[t] = "top"

PlaceInv ==
    /\ \A w \in Worker : pc[w] \notin {"out", "adding"}
    /\ pc[Master] # "gone"

(* A thread that works has its batch, and one that has worked has not merged *)
(* it yet; nobody else has anything.                                         *)
LocalInv ==
    \A t \in Thread :
        /\ pc[t] \notin {"work", "enter"} => nNow[t] = 0
        /\ pc[t] = "work" => nNow[t] # 0
        /\ pc[t] # "work" => batch[t] = <<>>
        /\ nNow[t] = 0 => batch[t] = <<>> /\ fOk[t]

(* What is known of the block so far: the checks that failed are in fAllOk   *)
(* or in a fOk, the others are still there or have passed.                   *)
GoodInv ==
    process # "assert" /\ verdict = "none" =>
        (good <=> /\ fAllOk
                  /\ AllTrue(queue)
                  /\ \A t \in Thread : fOk[t] /\ AllTrue(batch[t]))

VerdictInv ==
    verdict # "none" => pc[Master] = "out" /\ (verdict = "ok") = good

Inv == TypeOK /\ MutexInv /\ PlaceInv /\ LocalInv /\ TodoExact /\ CountsExact
       /\ GoodInv /\ VerdictInv

-----------------------------------------------------------------------------
LEMMA ThreadFinite == IsFiniteSet(Thread) /\ Master \in Thread /\ NoThread \notin Thread
BY ThreadAssumption, MutexAssumption, FS_AddElement DEF Thread

(* The sets that are counted are finite.                                     *)
LEMMA CountedFinite ==
    /\ IsFiniteSet(Waiting) /\ IsFiniteSet(Thrown) /\ IsFiniteSet(Joined)
    /\ Cardinality(Waiting) \in Nat /\ Cardinality(Thrown) \in Nat
    /\ Cardinality(Joined) \in Nat
<1>1. Waiting \subseteq Thread /\ Thrown \subseteq Thread /\ Joined \subseteq Thread
  BY DEF Waiting, Thrown, Joined
<1>2. IsFiniteSet(Waiting) /\ IsFiniteSet(Thrown) /\ IsFiniteSet(Joined)
  BY <1>1, ThreadFinite, FS_Subset
<1>. QED  BY <1>2, FS_CardinalityType

LEMMA CountAdd ==
    ASSUME NEW S, IsFiniteSet(S), NEW x, x \notin S
    PROVE  Cardinality(S \cup {x}) = Cardinality(S) + 1
BY FS_AddElement

LEMMA CountRemove ==
    ASSUME NEW S, IsFiniteSet(S), NEW x \in S
    PROVE  Cardinality(S \ {x}) = Cardinality(S) - 1 /\ Cardinality(S) \in Nat \ {0}
<1>1. Cardinality(S) \in Nat /\ Cardinality(S \ {x}) = Cardinality(S) - 1
      /\ Cardinality(S \ {x}) \in Nat
  BY FS_RemoveElement, FS_CardinalityType
<1>. QED  BY <1>1

(* A step that moves no thread between the counted sets.                     *)
LEMMA CountsSame ==
    ASSUME CountsExact, nIdle' = nIdle, nTotal' = nTotal,
           Waiting' = Waiting, Thrown' = Thrown, Joined' = Joined
    PROVE  CountsExact'
BY DEF CountsExact

(* A batch has at least one check, and no more than the queue or nBatchSize. *)
LEMMA BatchBound ==
    ASSUME queue \in Seq(BOOLEAN), queue # <<>>, nTotal \in Nat, nIdle \in Nat
    PROVE  HowMany \in 1 .. Len(queue) /\ HowMany <= nBatchSize
<1>. DEFINE d == nTotal + nIdle + 1
            q == Len(queue) \div d
<1>1. Len(queue) \in Nat \ {0} /\ d \in Nat \ {0} /\ nBatchSize \in Nat \ {0}
  BY BatchAssumption
<1>2. \A n, m \in Nat \ {0} : n \div m \in Nat /\ n \div m <= n
  OBVIOUS
<1>3. q \in Nat /\ q <= Len(queue)
  BY <1>1, <1>2
<1>. HIDE DEF q, d
<1>4. HowMany = Greatest(1, Least(nBatchSize, q))
  BY DEF HowMany, q, d
<1>. QED  BY <1>1, <1>3, <1>4 DEF Greatest, Least

(* Nothing to do means that nobody has anything.                             *)
LEMMA NothingLeft ==
    ASSUME TypeOK, LocalInv, TodoExact, nTodo = 0
    PROVE  /\ queue = <<>>
           /\ \A t \in Thread : nNow[t] = 0 /\ batch[t] = <<>> /\ fOk[t]
<1>1. ASSUME NEW t \in Thread
      PROVE  SumFunctionOnSet(nNow, Thread) \in Nat /\ nNow[t] <= SumFunctionOnSet(nNow, Thread)
  BY ThreadFinite, SumAtLeast DEF TypeOK
<1>2. Len(queue) \in Nat /\ SumFunctionOnSet(nNow, Thread) \in Nat
  BY <1>1, ThreadFinite DEF TypeOK
<1>3. Len(queue) = 0 /\ SumFunctionOnSet(nNow, Thread) = 0
  BY <1>2 DEF TodoExact
<1>4. \A t \in Thread : nNow[t] = 0
  BY <1>1, <1>3 DEF TypeOK
<1>. QED  BY <1>3, <1>4 DEF TypeOK, LocalInv

(* Changing what one thread has.                                             *)
LEMMA TodoUpdate ==
    ASSUME TypeOK, NEW t \in Thread, NEW n \in Nat, nNow' = [nNow EXCEPT ![t] = n]
    PROVE  /\ nNow' \in [Thread -> Nat]
           /\ SumFunctionOnSet(nNow, Thread) \in Nat
           /\ SumFunctionOnSet(nNow', Thread) = SumFunctionOnSet(nNow, Thread) - nNow[t] + n
<1>1. nNow' \in [Thread -> Nat] /\ nNow'[t] = n
      /\ \A u \in Thread \ {t} : nNow'[u] = nNow[u]
  BY DEF TypeOK
<1>2. nNow \in [Thread -> Nat] /\ IsFiniteSet(Thread)
  BY ThreadFinite DEF TypeOK
<1>3. \A f, g \in [Thread -> Nat] :
        (\A u \in Thread \ {t} : g[u] = f[u]) =>
            /\ SumFunctionOnSet(f, Thread) \in Nat
            /\ SumFunctionOnSet(g, Thread) = SumFunctionOnSet(f, Thread) - f[t] + g[t]
  BY <1>2, SumUpdate
<1>. QED  BY <1>1, <1>2, <1>3

-----------------------------------------------------------------------------
LEMMA InvInit == Init => Inv
<1>. SUFFICES ASSUME Init PROVE Inv
  OBVIOUS
<1>. USE DEF Init
<1>1. TypeOK
  <2>1. pc \in [Thread -> Place]
    BY DEF Place
  <2>2. queue \in Seq(BOOLEAN) /\ batch \in [Thread -> Seq(BOOLEAN)]
    OBVIOUS
  <2>3. /\ nNow \in [Thread -> Nat] /\ fOk \in [Thread -> BOOLEAN]
        /\ interrupt \in [Thread -> {"no", "requested", "thrown"}]
        /\ notified \subseteq Waiting
    OBVIOUS
  <2>4. /\ mutex \in Thread \cup {NoThread}
        /\ nIdle \in Nat /\ nTotal \in Nat /\ nTodo \in Nat /\ added \in Nat
        /\ fAllOk \in BOOLEAN /\ destroying \in BOOLEAN /\ good \in BOOLEAN
        /\ process \in {"up", "assert", "terminate"} /\ verdict \in {"none", "ok", "bad"}
    OBVIOUS
  <2>. QED  BY <2>1, <2>2, <2>3, <2>4 DEF TypeOK
<1>2. MutexInv /\ PlaceInv /\ LocalInv /\ VerdictInv
  BY ThreadFinite, ThreadAssumption DEF MutexInv, PlaceInv, LocalInv, VerdictInv, Thread
<1>3. GoodInv
  BY DEF GoodInv, AllTrue
<1>4. TodoExact
  <2>1. SumFunctionOnSet(nNow, Thread) \in Nat
    BY ThreadFinite, SumNat
  <2>2. \A t \in Thread : nNow[t] = 0
    OBVIOUS
  <2>3. SumFunctionOnSet(nNow, Thread) = 0
    BY <2>2, SumZeros, ThreadFinite
  <2>. QED  BY <2>3 DEF TodoExact
<1>5. CountsExact
  <2>1. Waiting = {} /\ Thrown = {} /\ Joined = {}
    BY DEF Waiting, Thrown, Joined
  <2>. QED  BY <2>1, FS_EmptySet DEF CountsExact
<1>. QED  BY <1>1, <1>2, <1>3, <1>4, <1>5 DEF Inv

-----------------------------------------------------------------------------
(* The steps of the master outside Loop.                                     *)
LEMMA ControlStep == Inv /\ Control => Inv'
<1>. SUFFICES ASSUME Inv, Control PROVE Inv'
  OBVIOUS
<1>. USE ThreadFinite DEF Inv
<1>1. CASE Unused /\ process' = process /\ Go(Master, "adding")
  <2>1. TypeOK'
    BY <1>1 DEF Control, Go, TypeOK, Place, Waiting, shared, locals
  <2>2. MutexInv' /\ PlaceInv' /\ LocalInv' /\ VerdictInv' /\ TodoExact'
    BY <1>1, ThreadAssumption
       DEF Control, Go, TypeOK, MutexInv, PlaceInv, LocalInv, VerdictInv, TodoExact, shared, locals, Thread
  <2>3. fAllOk' /\ queue' = <<>> /\ \A t \in Thread : batch'[t] = <<>> /\ fOk'[t]
    BY <1>1, NothingLeft DEF Unused, Control, shared, locals
  <2>4. GoodInv'
    BY <2>3 DEF GoodInv, AllTrue, Control
  <2>5. CountsExact'
    <3>1. Waiting' = Waiting /\ Thrown' = Thrown /\ Joined' = Joined
      BY <1>1 DEF Control, Go, TypeOK, Waiting, Thrown, Joined, locals
    <3>. QED  BY <3>1, CountsSame DEF Control, shared
  <2>. QED  BY <2>1, <2>2, <2>4, <2>5
<1>2. CASE process' = "assert" /\ UNCHANGED pc
  <2>1. TypeOK'
    BY <1>2 DEF Control, TypeOK, Place, Waiting, shared, locals
  <2>2. MutexInv' /\ PlaceInv' /\ LocalInv' /\ VerdictInv' /\ TodoExact' /\ GoodInv'
    BY <1>2 DEF Control, MutexInv, PlaceInv, LocalInv, VerdictInv, TodoExact, GoodInv, shared, locals
  <2>3. CountsExact'
    BY <1>2 DEF Control, CountsExact, Waiting, Thrown, Joined, shared, locals
  <2>. QED  BY <2>1, <2>2, <2>3
<1>. QED  BY <1>1, <1>2 DEF Control

LEMMA NotifyType ==
    ASSUME TypeOK, NEW n, NotifyWorkers(n)
    PROVE  notified' \subseteq Waiting
BY DEF NotifyWorkers, TypeOK

LEMMA AddStep == Inv /\ Add => Inv'
<1>. SUFFICES ASSUME Inv, Add PROVE Inv'
  OBVIOUS
<1>. USE ThreadFinite DEF Inv
<1>. PICK checks \in Batches :
        /\ queue' = queue \o checks
        /\ nTodo' = nTodo + Len(checks)
        /\ good' = (good /\ AllTrue(checks))
        /\ added' = added + Len(checks)
        /\ NotifyWorkers(Len(checks))
  BY DEF Add
<1>1. /\ checks \in Seq(BOOLEAN) /\ Len(checks) \in Nat
      /\ queue' \in Seq(BOOLEAN) /\ Len(queue') = Len(queue) + Len(checks)
      /\ AllTrue(queue') <=> AllTrue(queue) /\ AllTrue(checks)
  <2>1. checks \in Seq(BOOLEAN) /\ queue \in Seq(BOOLEAN)
    BY BatchAssumption DEF TypeOK
  <2>2. /\ queue' \in Seq(BOOLEAN) /\ Len(queue') = Len(queue) + Len(checks)
        /\ Len(checks) \in Nat /\ Len(queue) \in Nat
    BY <2>1
  <2>3. /\ \A i \in 1 .. Len(queue) : queue'[i] = queue[i]
        /\ \A i \in 1 .. Len(checks) : queue'[Len(queue) + i] = checks[i]
        /\ \A i \in 1 .. Len(queue') : i > Len(queue) => queue'[i] = checks[i - Len(queue)]
    BY <2>1, <2>2
  <2>4. AllTrue(queue') => AllTrue(queue) /\ AllTrue(checks)
    <3>. SUFFICES ASSUME AllTrue(queue') PROVE AllTrue(queue) /\ AllTrue(checks)
      OBVIOUS
    <3>1. \A i \in 1 .. Len(queue') : queue'[i]
      <4>1. DOMAIN queue' = 1 .. Len(queue')
        BY <2>2
      <4>. QED  BY <4>1 DEF AllTrue
    <3>2. \A i \in 1 .. Len(queue) : queue[i]
      BY <3>1, <2>2, <2>3
    <3>3. \A i \in 1 .. Len(checks) : checks[i]
      <4>1. TAKE i \in 1 .. Len(checks)
      <4>2. Len(queue) + i \in 1 .. Len(queue')
        BY <2>2
      <4>. QED  BY <4>2, <3>1, <2>3
    <3>. QED  BY <3>2, <3>3, <2>1 DEF AllTrue
  <2>5. AllTrue(queue) /\ AllTrue(checks) => AllTrue(queue')
    <3>. SUFFICES ASSUME AllTrue(queue), AllTrue(checks), NEW i \in 1 .. Len(queue')
                  PROVE  queue'[i]
      BY <2>2 DEF AllTrue
    <3>1. (\A j \in 1 .. Len(queue) : queue[j]) /\ (\A j \in 1 .. Len(checks) : checks[j])
      BY <2>1 DEF AllTrue
    <3>2. CASE i <= Len(queue)
      BY <3>1, <3>2, <2>2, <2>3
    <3>3. CASE i > Len(queue)
      <4>1. i - Len(queue) \in 1 .. Len(checks)
        BY <3>3, <2>2
      <4>. QED  BY <4>1, <3>1, <3>3, <2>3
    <3>. QED  BY <3>2, <3>3, <2>2
  <2>. QED  BY <2>1, <2>2, <2>4, <2>5
<1>2. TypeOK'
  <2>1. notified' \subseteq Waiting /\ Waiting' = Waiting
    BY NotifyType DEF Add, Waiting
  <2>2. nTodo' \in Nat /\ added' \in Nat /\ good' \in BOOLEAN
    BY <1>1, SMTT(30) DEF TypeOK
  <2>. QED  BY <1>1, <2>1, <2>2 DEF Add, TypeOK, locals
<1>3. MutexInv' /\ PlaceInv' /\ LocalInv' /\ VerdictInv'
  BY DEF Add, MutexInv, PlaceInv, LocalInv, VerdictInv, locals
<1>4. TodoExact'
  <2>1. SumFunctionOnSet(nNow, Thread) \in Nat
    BY SumNat DEF TypeOK
  <2>. QED  BY <1>1, <2>1, SMTT(30) DEF Add, TodoExact, TypeOK, locals
<1>5. GoodInv'
  BY <1>1 DEF Add, GoodInv, locals
<1>6. CountsExact'
  BY DEF Add, CountsExact, Waiting, Thrown, Joined, locals
<1>. QED  BY <1>2, <1>3, <1>4, <1>5, <1>6

LEMMA WaitStep == Inv /\ Wait => Inv'
<1>. SUFFICES ASSUME Inv, Wait PROVE Inv'
  OBVIOUS
<1>. USE ThreadFinite DEF Inv
<1>1. TypeOK'
  BY DEF Wait, Go, TypeOK, Place, Waiting, shared, locals, history
<1>2. MutexInv' /\ PlaceInv' /\ LocalInv' /\ VerdictInv'
  BY ThreadAssumption DEF Wait, Go, TypeOK, MutexInv, PlaceInv, LocalInv, VerdictInv,
     shared, locals, history, Thread
<1>3. TodoExact' /\ GoodInv'
  BY DEF Wait, TodoExact, GoodInv, shared, locals, history
<1>4. CountsExact'
  <2>1. Waiting' = Waiting /\ Thrown' = Thrown /\ Joined' = Joined
    BY DEF Wait, Go, TypeOK, LocalInv, Waiting, Thrown, Joined, locals
  <2>. QED  BY <2>1, CountsSame DEF Wait, shared
<1>. QED  BY <1>1, <1>2, <1>3, <1>4

LEMMA InterruptAllStep == Inv /\ InterruptAll => Inv'
<1>. SUFFICES ASSUME Inv, InterruptAll PROVE Inv'
  OBVIOUS
<1>1. TypeOK'
  BY DEF Inv, InterruptAll, TypeOK, Waiting, shared, locals, history
<1>2. MutexInv' /\ PlaceInv' /\ LocalInv' /\ VerdictInv' /\ TodoExact' /\ GoodInv'
  BY DEF Inv, InterruptAll, MutexInv, PlaceInv, LocalInv, VerdictInv, TodoExact, GoodInv,
     shared, locals, history
<1>3. CountsExact'
  <2>1. Waiting' = Waiting /\ Thrown' = Thrown /\ Joined' = Joined
    BY DEF InterruptAll, Waiting, Thrown, Joined, locals
  <2>. QED  BY <2>1, CountsSame DEF Inv, InterruptAll, shared
<1>. QED  BY <1>1, <1>2, <1>3 DEF Inv

-----------------------------------------------------------------------------
(* The steps of Loop.                                                        *)
LEMMA JoinStep == ASSUME NEW t \in Thread, Inv, Enter(t), Join(t) PROVE Inv'
<1>. USE ThreadFinite DEF Inv
<1>1. TypeOK'
  BY DEF Enter, Join, Go, TypeOK, Place, Waiting, history
<1>2. MutexInv' /\ PlaceInv' /\ LocalInv' /\ VerdictInv'
  BY ThreadAssumption DEF Enter, Join, Go, TypeOK, MutexInv, PlaceInv, LocalInv, VerdictInv,
     history, Thread
<1>3. TodoExact' /\ GoodInv'
  BY DEF Enter, Join, TodoExact, GoodInv, history
<1>4. CountsExact'
  <2>1. Waiting' = Waiting /\ Thrown' = Thrown /\ t \notin Joined
        /\ Joined' = Joined \cup {t}
    BY DEF Enter, Join, Go, TypeOK, Waiting, Thrown, Joined
  <2>2. Cardinality(Joined') = Cardinality(Joined) + 1
    BY <2>1, CountedFinite, CountAdd
  <2>. QED  BY <2>1, <2>2, CountedFinite DEF Enter, Join, CountsExact
<1>. QED  BY <1>1, <1>2, <1>3, <1>4

LEMMA MergeStep == ASSUME NEW t \in Thread, Inv, Enter(t), Merge(t) PROVE Inv'
<1>. USE ThreadFinite DEF Inv
<1>1. /\ nNow' \in [Thread -> Nat]
      /\ nTodo' \in Nat
      /\ nTodo' = Len(queue) + SumFunctionOnSet(nNow', Thread)
  <2>1. 0 \in Nat /\ nNow' = [nNow EXCEPT ![t] = 0]
    BY DEF Merge
  <2>2. /\ nNow' \in [Thread -> Nat]
        /\ SumFunctionOnSet(nNow, Thread) \in Nat
        /\ SumFunctionOnSet(nNow', Thread) = SumFunctionOnSet(nNow, Thread) - nNow[t] + 0
    BY <2>1, TodoUpdate
  <2>3. nNow[t] <= SumFunctionOnSet(nNow, Thread) /\ nNow[t] \in Nat
    BY SumAtLeast DEF TypeOK
  <2>4. Len(queue) \in Nat /\ nTodo' = nTodo - nNow[t]
    BY DEF TypeOK, Merge
  <2>. HIDE DEF Inv
  <2>5. nTodo = Len(queue) + SumFunctionOnSet(nNow, Thread)
    BY DEF Inv, TodoExact
  <2>. QED  BY <2>2, <2>3, <2>4, <2>5, SMTT(30)
<1>2. pc[t] = "enter" /\ t \notin Waiting /\ Waiting' = Waiting /\ pc' \in [Thread -> Place]
  BY DEF Enter, Go, Waiting, TypeOK, Place
<1>3. notified' \subseteq Waiting'
  BY <1>2 DEF Merge, TypeOK
<1>4. fAllOk' \in BOOLEAN /\ fOk' \in [Thread -> BOOLEAN]
  BY DEF Merge, TypeOK
<1>5. TypeOK'
  BY <1>1, <1>2, <1>3, <1>4 DEF Enter, Merge, TypeOK, history
<1>6. MutexInv' /\ PlaceInv' /\ VerdictInv'
  BY ThreadAssumption DEF Enter, Merge, Go, TypeOK, MutexInv, PlaceInv, VerdictInv, history, Thread
<1>7. LocalInv'
  BY <1>2 DEF Enter, Merge, Go, TypeOK, LocalInv
<1>8. TodoExact'
  BY <1>1 DEF Enter, TodoExact
<1>9. GoodInv'
  <2>1. fOk' = [fOk EXCEPT ![t] = TRUE] /\ fAllOk' = (fAllOk /\ fOk[t])
        /\ batch' = batch /\ queue' = queue /\ good' = good /\ process' = process
        /\ verdict' = verdict
    BY DEF Enter, Merge, history
  <2>2. (fAllOk /\ \A u \in Thread : fOk[u]) <=> (fAllOk' /\ \A u \in Thread : fOk'[u])
    BY <2>1 DEF TypeOK
  <2>. QED  BY <2>1, <2>2 DEF GoodInv
<1>10. CountsExact'
  <2>1. Waiting' = Waiting /\ Thrown' = Thrown /\ Joined' = Joined
    BY DEF Enter, Merge, Go, TypeOK, Waiting, Thrown, Joined
  <2>. QED  BY <2>1, CountsSame DEF Enter, Merge
<1>. QED  BY <1>5, <1>6, <1>7, <1>8, <1>9, <1>10

LEMMA ReturnStep ==
    ASSUME NEW t \in Thread, Inv, Return(t), process = "up"
    PROVE  Inv'
<1>. USE ThreadFinite DEF Inv
<1>1. CountsExact' /\ nTotal' \in Nat
  <2>1. Waiting' = Waiting /\ Thrown' = Thrown /\ t \in Joined /\ Joined' = Joined \ {t}
    BY DEF Return, Go, TypeOK, Waiting, Thrown, Joined, locals
  <2>2. Cardinality(Joined') = Cardinality(Joined) - 1 /\ Cardinality(Joined) \in Nat \ {0}
    BY <2>1, CountedFinite, CountRemove
  <2>. QED  BY <2>1, <2>2, CountedFinite DEF Return, CountsExact
<1>2. /\ nTodo = 0 /\ t = Master
      /\ \A u \in Thread : nNow[u] = 0 /\ batch[u] = <<>> /\ fOk[u]
  BY NothingLeft DEF Return
<1>3. TypeOK'
  BY <1>1 DEF Return, Go, TypeOK, Place, Waiting, locals
<1>4. MutexInv' /\ PlaceInv' /\ LocalInv' /\ TodoExact'
  BY <1>2, ThreadAssumption DEF Return, Go, TypeOK, MutexInv, PlaceInv, LocalInv, TodoExact,
     locals, Thread
<1>5. verdict = "none" /\ (good <=> fAllOk)
  <2>1. verdict = "none"
    BY <1>2 DEF Return, VerdictInv, TypeOK
  <2>. QED  BY <1>2, <2>1 DEF Return, GoodInv, AllTrue
<1>6. VerdictInv' /\ GoodInv'
  BY <1>2, <1>5 DEF Return, VerdictInv, GoodInv, TypeOK, Go
<1>. QED  BY <1>1, <1>3, <1>4, <1>6

LEMMA CondWaitStep == ASSUME NEW t \in Thread, Inv, CondWait(t) PROVE Inv'
<1>. USE ThreadFinite DEF Inv
<1>1. CountsExact'
  <2>1. /\ t \notin Waiting /\ Waiting' = Waiting \cup {t}
        /\ Thrown' = Thrown /\ Joined' = Joined
    BY DEF CondWait, Go, TypeOK, Waiting, Thrown, Joined, locals
  <2>2. Cardinality(Waiting') = Cardinality(Waiting) + 1
    BY <2>1, CountedFinite, CountAdd
  <2>. QED  BY <2>1, <2>2, CountedFinite DEF CondWait, CountsExact
<1>2. TypeOK'
  <2>1. notified' \subseteq Waiting'
    BY DEF CondWait, Go, TypeOK, Waiting
  <2>. QED  BY <2>1 DEF CondWait, Go, TypeOK, Place, locals, history
<1>3. MutexInv' /\ PlaceInv' /\ LocalInv' /\ VerdictInv' /\ TodoExact' /\ GoodInv'
  BY ThreadAssumption DEF CondWait, Go, TypeOK, MutexInv, PlaceInv, LocalInv, VerdictInv,
     TodoExact, GoodInv, locals, history, Thread
<1>. QED  BY <1>1, <1>2, <1>3

LEMMA AwakeStep == ASSUME NEW t \in Thread, Inv, Awake(t) PROVE Inv'
<1>. USE ThreadFinite DEF Inv
<1>1. CountsExact' /\ nIdle' \in Nat
  <2>1. t \in Waiting /\ Waiting' = Waiting \ {t} /\ Thrown' = Thrown /\ Joined' = Joined
    BY DEF Awake, Go, TypeOK, Waiting, Thrown, Joined, locals
  <2>2. /\ Cardinality(Waiting') = Cardinality(Waiting) - 1
        /\ Cardinality(Waiting) \in Nat \ {0}
    BY <2>1, CountedFinite, CountRemove
  <2>. QED  BY <2>1, <2>2, CountedFinite DEF Awake, CountsExact
<1>2. TypeOK'
  <2>1. notified' \subseteq Waiting'
    BY DEF Awake, Go, TypeOK, Waiting
  <2>. QED  BY <1>1, <2>1 DEF Awake, Go, TypeOK, Place, locals, history
<1>3. MutexInv' /\ PlaceInv' /\ LocalInv' /\ VerdictInv' /\ TodoExact' /\ GoodInv'
  BY ThreadAssumption DEF Awake, Go, TypeOK, MutexInv, PlaceInv, LocalInv, VerdictInv,
     TodoExact, GoodInv, locals, history, Thread
<1>. QED  BY <1>1, <1>2, <1>3

LEMMA TakeStep == ASSUME NEW t \in Thread, Inv, Take(t) PROVE Inv'
<1>. USE ThreadFinite DEF Inv
<1>. DEFINE rest == Len(queue) - HowMany
            taken == SubSeq(queue, rest + 1, Len(queue))
            left == SubSeq(queue, 1, rest)
<1>1. /\ HowMany \in Nat \ {0} /\ rest \in Nat /\ rest <= Len(queue) /\ Len(queue) \in Nat
      /\ HowMany = Len(queue) - rest
  <2>1. HowMany \in 1 .. Len(queue)
    BY BatchBound DEF Take, TypeOK
  <2>2. Len(queue) \in Nat
    BY DEF TypeOK
  <2>. QED  BY <2>1, <2>2
<1>. HIDE DEF rest
<1>2. /\ taken \in Seq(BOOLEAN) /\ Len(taken) = HowMany
      /\ left \in Seq(BOOLEAN) /\ Len(left) = rest
      /\ \A i \in 1 .. HowMany : taken[i] = queue[rest + i]
      /\ \A i \in 1 .. rest : left[i] = queue[i]
  BY <1>1 DEF TypeOK
<1>3. AllTrue(queue) <=> AllTrue(left) /\ AllTrue(taken)
  <2>1. AllTrue(queue) <=> \A i \in 1 .. Len(queue) : queue[i]
    BY DEF AllTrue, TypeOK
  <2>d. DOMAIN left = 1 .. rest /\ DOMAIN taken = 1 .. HowMany
    BY <1>2
  <2>. HIDE DEF left, taken
  <2>2. AllTrue(left) <=> \A i \in 1 .. rest : queue[i]
    BY <1>2, <2>d DEF AllTrue
  <2>3. AllTrue(taken) <=> \A i \in 1 .. HowMany : queue[rest + i]
    BY <1>2, <2>d DEF AllTrue
  <2>4. (\A i \in 1 .. HowMany : queue[rest + i]) <=> (\A i \in rest + 1 .. Len(queue) : queue[i])
    <3>1. \A i \in 1 .. HowMany : rest + i \in rest + 1 .. Len(queue)
      BY <1>1
    <3>2. \A i \in rest + 1 .. Len(queue) : i - rest \in 1 .. HowMany /\ rest + (i - rest) = i
      BY <1>1
    <3>. QED  BY <3>1, <3>2
  <2>5. 1 .. Len(queue) = (1 .. rest) \cup (rest + 1 .. Len(queue))
    BY <1>1
  <2>. QED  BY <2>1, <2>2, <2>3, <2>4, <2>5
<1>4. /\ queue' = left /\ batch' = [batch EXCEPT ![t] = taken]
      /\ nNow' = [nNow EXCEPT ![t] = HowMany] /\ fOk' = [fOk EXCEPT ![t] = fAllOk]
  BY DEF Take, rest
<1>. HIDE DEF left, taken
<1>5. /\ pc[t] = "top" /\ nNow[t] = 0 /\ batch[t] = <<>> /\ fOk[t]
      /\ pc' = [pc EXCEPT ![t] = "work"] /\ mutex' = NoThread
  BY DEF Take, Go, LocalInv
<1>6. TypeOK'
  <2>1. batch' \in [Thread -> Seq(BOOLEAN)] /\ nNow' \in [Thread -> Nat]
        /\ fOk' \in [Thread -> BOOLEAN] /\ pc' \in [Thread -> Place]
    BY <1>1, <1>2, <1>4, <1>5 DEF TypeOK, Place
  <2>2. notified' \subseteq Waiting'
    BY <1>5 DEF Take, TypeOK, Waiting
  <2>. QED  BY <1>2, <1>4, <2>1, <2>2 DEF Take, TypeOK, history
<1>7. MutexInv' /\ PlaceInv' /\ VerdictInv'
  BY <1>5, ThreadAssumption DEF Take, TypeOK, MutexInv, PlaceInv, VerdictInv, history, Thread
<1>8. LocalInv'
  BY <1>1, <1>4, <1>5 DEF TypeOK, LocalInv
<1>9. TodoExact'
  <2>1. /\ SumFunctionOnSet(nNow, Thread) \in Nat
        /\ SumFunctionOnSet(nNow', Thread) = SumFunctionOnSet(nNow, Thread) - nNow[t] + HowMany
    BY <1>1, <1>4, TodoUpdate
  <2>2. nTodo' = nTodo /\ nTodo = Len(queue) + SumFunctionOnSet(nNow, Thread)
    BY DEF Take, TodoExact
  <2>3. Len(queue') = rest
    BY <1>2, <1>4
  <2>. QED  BY <1>1, <1>5, <2>1, <2>2, <2>3 DEF TodoExact
<1>10. CountsExact'
  <2>1. Waiting' = Waiting /\ Thrown' = Thrown /\ Joined' = Joined
    BY <1>5 DEF Take, TypeOK, Waiting, Thrown, Joined
  <2>. QED  BY <2>1, CountsSame DEF Take
<1>11. GoodInv'
  <2>1. fAllOk' = fAllOk /\ good' = good /\ process' = process /\ verdict' = verdict
    BY DEF Take, history
  <2>2. (fAllOk /\ \A u \in Thread : fOk[u]) <=> (fAllOk' /\ \A u \in Thread : fOk'[u])
    BY <2>1, <1>4, <1>5 DEF TypeOK
  <2>3. (\A u \in Thread : AllTrue(batch'[u])) <=> AllTrue(taken) /\ \A u \in Thread : AllTrue(batch[u])
    <3>1. AllTrue(batch[t])
      BY <1>5 DEF AllTrue
    <3>. QED  BY <3>1, <1>4 DEF TypeOK
  <2>. QED  BY <1>3, <1>4, <2>1, <2>2, <2>3 DEF GoodInv
<1>. QED  BY <1>6, <1>7, <1>8, <1>9, <1>10, <1>11

LEMMA WorkStep == ASSUME NEW t \in Thread, Inv, Work(t) PROVE Inv'
<1>. USE ThreadFinite DEF Inv
<1>1. /\ pc[t] = "work" /\ nNow[t] # 0 /\ pc' = [pc EXCEPT ![t] = "enter"]
      /\ batch' = [batch EXCEPT ![t] = <<>>]
      /\ fOk' = [fOk EXCEPT ![t] = fOk[t] /\ AllTrue(batch[t])]
      /\ AllTrue(batch[t]) \in BOOLEAN
  BY DEF Work, Go, LocalInv, AllTrue
<1>2. TypeOK'
  <2>1. batch' \in [Thread -> Seq(BOOLEAN)] /\ pc' \in [Thread -> Place]
    BY <1>1 DEF TypeOK, Place
  <2>2. fOk' \in [Thread -> BOOLEAN]
    BY <1>1 DEF TypeOK
  <2>3. notified' \subseteq Waiting'
    BY <1>1 DEF Work, TypeOK, Waiting
  <2>. QED  BY <2>1, <2>2, <2>3 DEF Work, TypeOK, shared, history
<1>3. MutexInv' /\ PlaceInv' /\ VerdictInv' /\ TodoExact'
  BY <1>1, ThreadAssumption DEF Work, TypeOK, MutexInv, PlaceInv, VerdictInv, TodoExact,
     shared, history, Thread
<1>4. LocalInv'
  BY <1>1 DEF Work, TypeOK, LocalInv
<1>5. CountsExact'
  <2>1. Waiting' = Waiting /\ Thrown' = Thrown /\ Joined' = Joined
    BY <1>1 DEF Work, TypeOK, Waiting, Thrown, Joined
  <2>. QED  BY <2>1, CountsSame DEF Work, shared
<1>6. GoodInv'
  <2>1. /\ \A u \in Thread \ {t} : fOk'[u] = fOk[u] /\ batch'[u] = batch[u]
        /\ fOk'[t] <=> fOk[t] /\ AllTrue(batch[t])
        /\ AllTrue(batch'[t])
    BY <1>1 DEF TypeOK, AllTrue
  <2>2. (\A u \in Thread : fOk'[u] /\ AllTrue(batch'[u]))
        <=> (\A u \in Thread : fOk[u] /\ AllTrue(batch[u]))
    BY <2>1
  <2>. QED  BY <2>2 DEF Work, GoodInv, shared, history
<1>. QED  BY <1>2, <1>3, <1>4, <1>5, <1>6

LEMMA InterruptedStep ==
    ASSUME NEW t \in Thread, Inv, Interrupted(t), process = "up"
    PROVE  Inv'
<1>. USE ThreadFinite DEF Inv
<1>1. /\ pc[t] = "waiting" /\ nNow[t] = 0
      /\ \/ t # Master /\ pc' = [pc EXCEPT ![t] = "gone"]
         \/ t = Master /\ pc' = [pc EXCEPT ![t] = "enter"]
         \/ t = Master /\ pc' = [pc EXCEPT ![t] = "out"]
      /\ process' = process \/ process' = "terminate"
      /\ process' \in {"up", "assert", "terminate"} /\ destroying' \in BOOLEAN
  BY DEF Interrupted, Go, LocalInv, TypeOK
<1>2. TypeOK'
  <2>1. pc' \in [Thread -> Place] /\ notified' \subseteq Waiting'
    BY <1>1 DEF Interrupted, TypeOK, Place, Waiting
  <2>2. interrupt' \in [Thread -> {"no", "requested", "thrown"}]
    BY DEF Interrupted, TypeOK
  <2>. QED  BY <1>1, <2>1, <2>2 DEF Interrupted, TypeOK, shared, locals, history
<1>3. MutexInv' /\ PlaceInv' /\ LocalInv'
  BY <1>1, ThreadAssumption DEF Interrupted, TypeOK, MutexInv, PlaceInv, LocalInv,
     locals, Thread
<1>4. VerdictInv' /\ TodoExact'
  BY <1>1 DEF Interrupted, TypeOK, VerdictInv, TodoExact, shared, locals, history
<1>5. CountsExact'
  <2>1. /\ t \in Waiting /\ Waiting' = Waiting \ {t}
        /\ t \in Joined /\ Joined' = Joined \ {t}
        /\ t \notin Thrown /\ Thrown' = Thrown \cup {t}
    BY <1>1 DEF Interrupted, TypeOK, Waiting, Thrown, Joined, locals
  <2>2. /\ Cardinality(Waiting') = Cardinality(Waiting) - 1
        /\ Cardinality(Joined') = Cardinality(Joined) - 1
        /\ Cardinality(Thrown') = Cardinality(Thrown) + 1
    BY <2>1, CountedFinite, CountAdd, CountRemove
  <2>. QED  BY <2>2, CountedFinite DEF Interrupted, CountsExact, shared
<1>6. GoodInv'
  BY <1>1 DEF Interrupted, GoodInv, shared, locals, history
<1>. QED  BY <1>2, <1>3, <1>4, <1>5, <1>6

-----------------------------------------------------------------------------
LEMMA InvStep == Inv /\ [Next]_vars => Inv'
<1>. SUFFICES ASSUME Inv, [Next]_vars PROVE Inv'
  OBVIOUS
<1>1. CASE UNCHANGED vars
  <2>. USE <1>1 DEF vars, shared, locals, history
  <2>1. TypeOK'
    BY DEF Inv, TypeOK, Waiting
  <2>2. MutexInv' /\ PlaceInv' /\ LocalInv' /\ VerdictInv' /\ TodoExact' /\ GoodInv'
    BY DEF Inv, MutexInv, PlaceInv, LocalInv, VerdictInv, TodoExact, GoodInv
  <2>3. CountsExact'
    BY DEF Inv, CountsExact, Waiting, Thrown, Joined
  <2>. QED  BY <2>1, <2>2, <2>3 DEF Inv
<1>2. CASE Control
  BY <1>2, ControlStep
<1>3. CASE Add
  BY <1>3, AddStep
<1>4. CASE Wait
  BY <1>4, WaitStep
<1>5. CASE InterruptAll
  BY <1>5, InterruptAllStep
<1>6. ASSUME NEW t \in Thread, process = "up", Run(t) \/ SpuriousWake(t) PROVE Inv'
  <2>1. CASE Enter(t)
    BY <2>1, JoinStep, MergeStep DEF Enter
  <2>2. CASE Return(t)
    BY <2>2, <1>6, ReturnStep
  <2>3. CASE CondWait(t)
    BY <2>3, CondWaitStep
  <2>4. CASE Notified(t) \/ SpuriousWake(t)
    BY <2>4, AwakeStep DEF Notified, SpuriousWake
  <2>5. CASE Take(t)
    BY <2>5, TakeStep
  <2>6. CASE Work(t)
    BY <2>6, WorkStep
  <2>7. CASE Interrupted(t)
    BY <2>7, <1>6, InterruptedStep
  <2>. QED  BY <1>6, <2>1, <2>2, <2>3, <2>4, <2>5, <2>6, <2>7 DEF Run
<1>. QED  BY <1>1, <1>2, <1>3, <1>4, <1>5, <1>6 DEF Next

LEMMA InvAlways == Spec => []Inv
BY InvInit, InvStep, PTL DEF Spec

(* The variables always have their types; in particular nIdle, nTotal and    *)
(* the unsigned nTodo never go below zero.                                   *)
THEOREM TypeCorrect == Spec => []TypeOK
<1>1. Inv => TypeOK
  BY DEF Inv
<1>. QED  BY <1>1, InvAlways, PTL

(* What Wait returns is the conjunction of the checks that were added.       *)
THEOREM VerdictAlwaysExact == Spec => []VerdictExact
<1>1. Inv => VerdictExact
  BY DEF Inv, VerdictInv, VerdictExact
<1>. QED  BY <1>1, InvAlways, PTL

(* nTodo is what is in the queue and in the hands of the threads.            *)
THEOREM TodoAlwaysExact == Spec => []TodoExact
<1>1. Inv => TodoExact
  BY DEF Inv
<1>. QED  BY <1>1, InvAlways, PTL

(* nIdle and nTotal count the threads, but for those interrupted.            *)
THEOREM CountsAlwaysExact == Spec => []CountsExact
<1>1. Inv => CountsExact
  BY DEF Inv
<1>. QED  BY <1>1, InvAlways, PTL

-----------------------------------------------------------------------------
(* Between two blocks there is nothing left to do and nothing to report.     *)
QuietInv == process = "up" /\ pc[Master] = "out" => nTodo = 0 /\ fAllOk

LEMMA QuietStep ==
    ASSUME ~DestructorMayThrow, Inv, QuietInv, [Next]_vars
    PROVE  QuietInv'
<1>. SUFFICES ASSUME process' = "up", pc'[Master] = "out" PROVE nTodo' = 0 /\ fAllOk'
  BY DEF QuietInv
<1>. USE ThreadFinite DEF Inv
<1>1. CASE UNCHANGED vars
  BY <1>1 DEF vars, shared, QuietInv
<1>2. CASE Control \/ Add \/ Wait \/ InterruptAll
  BY <1>2 DEF Control, Add, Wait, InterruptAll, Go, TypeOK, QuietInv, shared
<1>3. ASSUME NEW t \in Thread, process = "up", Run(t) \/ SpuriousWake(t)
      PROVE  nTodo' = 0 /\ fAllOk'
  <2>1. CASE pc[Master] # "out"
    <3>1. t = Master
      BY <1>3, <2>1 DEF Run, Enter, Return, CondWait, Notified, SpuriousWake, Awake, Take, Work,
         Interrupted, Go, TypeOK
    <3>2. Return(t)
      BY <1>3, <2>1, <3>1 DEF Run, Enter, Return, CondWait, Notified, SpuriousWake, Awake, Take,
         Work, Interrupted, Go, TypeOK
    <3>. QED  BY <3>2 DEF Return
  <2>2. CASE pc[Master] = "out"
    <3>1. nTodo = 0 /\ fAllOk
      BY <1>3, <2>2 DEF QuietInv
    <3>2. queue = <<>> /\ \A u \in Thread : nNow[u] = 0
      BY <3>1, NothingLeft
    <3>3. ~Merge(t) /\ ~Take(t)
      BY <3>2 DEF Merge, Take
    <3>. QED  BY <1>3, <3>1, <3>3 DEF Run, Enter, Join, Return, CondWait, Notified,
              SpuriousWake, Awake, Work, Interrupted, shared
  <2>. QED  BY <2>1, <2>2
<1>. QED  BY <1>1, <1>2, <1>3 DEF Next

(* If an exception that leaves the destructor of Control ends the program,   *)
(* no check outlives the block it was made for.                              *)
THEOREM QuietAlways ==
    ASSUME ~DestructorMayThrow
    PROVE  Spec => []QuietAfterBlock
<1>1. Init => QuietInv
  BY DEF Init, QuietInv
<1>2. Inv /\ QuietInv /\ [Next]_vars => QuietInv'
  BY QuietStep
<1>3. Inv /\ QuietInv => QuietAfterBlock
  <2>. SUFFICES ASSUME Inv, QuietInv, process = "up", pc[Master] = "out"
                PROVE  /\ queue = <<>> /\ nTodo = 0 /\ fAllOk
                       /\ \A t \in Thread : nNow[t] = 0 /\ pc[t] # "work"
    BY DEF QuietAfterBlock
  <2>1. nTodo = 0 /\ fAllOk
    BY DEF QuietInv
  <2>2. queue = <<>> /\ \A t \in Thread : nNow[t] = 0
    BY <2>1, NothingLeft DEF Inv
  <2>. QED  BY <2>1, <2>2 DEF Inv, LocalInv
<1>. QED  BY <1>1, <1>2, <1>3, InvAlways, PTL DEF Spec

-----------------------------------------------------------------------------
(* No wake-up is lost.  The queue has checks only while the master adds them *)
(* or is awake in Loop, where it takes some itself; and it waits without     *)
(* having been notified only while something is left to do, which is then in *)
(* a worker's hands.                                                         *)
WakeInv ==
    /\ queue # <<>> => pc[Master] \in {"adding", "enter", "top", "work"}
    /\ pc[Master] = "waiting" => Master \in notified \/ nTodo # 0

LEMMA WakeStep ==
    ASSUME Inv, WakeInv, [Next]_vars
    PROVE  WakeInv'
<1>. USE ThreadFinite DEF Inv
<1>1. CASE UNCHANGED vars
  BY <1>1 DEF vars, shared, WakeInv
<1>2. CASE Control \/ Wait \/ InterruptAll
  BY <1>2 DEF Control, Unused, Wait, InterruptAll, Go, TypeOK, WakeInv, shared
<1>3. CASE Add
  BY <1>3 DEF Add, WakeInv
<1>4. ASSUME NEW t \in Thread, Enter(t) PROVE WakeInv'
  <2>1. /\ queue' = queue /\ pc[t] = "enter" /\ pc' = [pc EXCEPT ![t] = "top"]
        /\ \/ nTodo' = nTodo /\ notified' = notified
           \/ notified' = IF nTodo' = 0 /\ t # Master
                            THEN notified \cup (Waiting \cap {Master}) ELSE notified
    BY <1>4 DEF Enter, Join, Merge, Go
  <2>2. pc'[Master] = "waiting" => pc[Master] = "waiting" /\ t # Master
    BY <2>1 DEF TypeOK
  <2>3. queue # <<>> => pc'[Master] \in {"adding", "enter", "top", "work"}
    BY <2>1 DEF TypeOK, WakeInv
  <2>4. pc'[Master] = "waiting" => Master \in notified' \/ nTodo' # 0
    BY <2>1, <2>2 DEF WakeInv, Waiting
  <2>. QED  BY <2>1, <2>3, <2>4 DEF WakeInv
<1>5. ASSUME NEW t \in Thread, Return(t) \/ CondWait(t) PROVE WakeInv'
  BY <1>5 DEF Return, CondWait, Go, TypeOK, WakeInv
<1>6. ASSUME NEW t \in Thread, Notified(t) \/ SpuriousWake(t) PROVE WakeInv'
  BY <1>6 DEF Notified, SpuriousWake, Awake, Go, TypeOK, WakeInv
<1>7. ASSUME NEW t \in Thread, Take(t) PROVE WakeInv'
  <2>1. /\ queue # <<>> /\ pc[t] = "top" /\ pc' = [pc EXCEPT ![t] = "work"]
        /\ UNCHANGED <<nTodo, notified>>
    BY <1>7 DEF Take, Go
  <2>. QED  BY <2>1 DEF TypeOK, WakeInv
<1>8. ASSUME NEW t \in Thread, Work(t) PROVE WakeInv'
  BY <1>8 DEF Work, Go, TypeOK, WakeInv, shared
<1>9. ASSUME NEW t \in Thread, Interrupted(t) PROVE WakeInv'
  <2>1. /\ pc[t] = "waiting" /\ notified' = notified \ {t} /\ UNCHANGED <<queue, nTodo>>
        /\ \/ t # Master /\ pc' = [pc EXCEPT ![t] = "gone"]
           \/ t = Master /\ pc' = [pc EXCEPT ![t] = "enter"]
           \/ t = Master /\ pc' = [pc EXCEPT ![t] = "out"]
    BY <1>9 DEF Interrupted, Go, shared
  <2>. QED  BY <2>1 DEF TypeOK, WakeInv
<1>. QED  BY <1>1, <1>2, <1>3, <1>4, <1>5, <1>6, <1>7, <1>8, <1>9 DEF Next, Run

LEMMA WakeAlways == Spec => []WakeInv
<1>1. Init => WakeInv
  BY ThreadFinite DEF Init, WakeInv
<1>2. Inv /\ WakeInv /\ [Next]_vars => WakeInv'
  BY WakeStep
<1>. QED  BY <1>1, <1>2, InvAlways, PTL DEF Spec

(* While the master waits and was not notified, some worker has checks of    *)
(* the block that it has not reported yet, and it is not asleep: it will     *)
(* come back to Loop and, if it is the last, notify the master               *)
(* (checkqueue.h:69-95).                                                     *)
MasterRemembered ==
    pc[Master] = "waiting" /\ Master \notin notified =>
        \E w \in Worker : nNow[w] # 0 /\ pc[w] \in {"work", "enter"}

THEOREM MasterAlwaysRemembered == Spec => []MasterRemembered
<1>1. ASSUME Inv, WakeInv PROVE MasterRemembered
  <2>. SUFFICES ASSUME pc[Master] = "waiting", Master \notin notified
                PROVE  \E w \in Worker : nNow[w] # 0 /\ pc[w] \in {"work", "enter"}
    BY DEF MasterRemembered
  <2>. USE DEF Inv
  <2>1. queue = <<>> /\ nTodo # 0
    BY <1>1 DEF WakeInv
  <2>2. SumFunctionOnSet(nNow, Thread) # 0
    <3>1. Len(queue) = 0
      BY <2>1
    <3>. HIDE DEF Inv
    <3>2. nTodo = Len(queue) + SumFunctionOnSet(nNow, Thread)
      BY <1>1 DEF Inv, TodoExact
    <3>3. SumFunctionOnSet(nNow, Thread) \in Nat
      BY <1>1, SumNat, ThreadFinite DEF Inv, TypeOK
    <3>. QED  BY <2>1, <3>1, <3>2, <3>3
  <2>3. PICK t \in Thread : nNow[t] # 0
    BY <2>2, SumZeros, ThreadFinite
  <2>4. pc[t] \in {"work", "enter"}
    BY <1>1, <2>3 DEF LocalInv
  <2>. QED  BY <2>3, <2>4 DEF Thread
<1>. QED  BY <1>1, InvAlways, WakeAlways, PTL

(* A thread that can go on: it holds the mutex, it works on a batch, or the  *)
(* mutex is free and it asks for it or has been notified.                    *)
CanRun(t) ==
    \/ pc[t] \in {"top", "work"}
    \/ mutex = NoThread /\ (pc[t] = "enter" \/ t \in notified)

(* From the call of Wait to its return there is a thread that can go on,     *)
(* whatever was interrupted and whoever sleeps: the threads never all wait   *)
(* for each other (checkqueue.h:65-117).                                     *)
NeverStuck ==
    pc[Master] \in {"enter", "top", "waiting", "work"} => \E t \in Thread : CanRun(t)

THEOREM LoopNeverStuck == Spec => []NeverStuck
<1>1. ASSUME Inv, MasterRemembered PROVE NeverStuck
  <2>. SUFFICES ASSUME pc[Master] \in {"enter", "top", "waiting", "work"}
                PROVE  \E t \in Thread : CanRun(t)
    BY DEF NeverStuck
  <2>1. CASE mutex # NoThread
    <3>1. mutex \in Thread /\ pc[mutex] = "top"
      BY <1>1, <2>1 DEF Inv, TypeOK, MutexInv
    <3>. QED  BY <3>1 DEF CanRun
  <2>2. CASE mutex = NoThread /\ pc[Master] = "waiting" /\ Master \notin notified
    <3>1. PICK w \in Worker : pc[w] \in {"work", "enter"}
      BY <1>1, <2>2 DEF MasterRemembered
    <3>. QED  BY <2>2, <3>1 DEF CanRun, Thread
  <2>3. CASE mutex = NoThread /\ (pc[Master] # "waiting" \/ Master \in notified)
    BY <2>3, ThreadFinite DEF CanRun
  <2>. QED  BY <2>1, <2>2, <2>3
<1>. QED  BY <1>1, InvAlways, MasterAlwaysRemembered, PTL

=============================================================================
