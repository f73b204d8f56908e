----------------------------- MODULE BlockChain -----------------------------
(***************************************************************************)
(* The block chain under the pool (primeserver/src/main.cpp) and the        *)
(* synchronized checkpoint (primeserver/src/checkpointsync.cpp): which      *)
(* block becomes pindexBest, the block that the pool's works build on.      *)
(*                                                                          *)
(* A block arrives from a peer, a miner or a file.  If its parent is        *)
(* unknown it waits among the orphans; otherwise AcceptBlock adds it to the *)
(* index and ConnectBestBlock moves the best chain to the candidate with    *)
(* the most work, one SetBestChain at a time.  Then the orphans that it was *)
(* the parent of follow.  A checkpoint message names a block; if that is    *)
(* unknown it is pending until it arrives.                                  *)
(*                                                                          *)
(* All of this runs under cs_main, so there is one control state, pc.  The  *)
(* steps are apart because the process may end between them: the index,     *)
(* the failed marks and the checkpoint are on disk at once, the best block  *)
(* is there when the coins were last flushed.                               *)
(*                                                                          *)
(* Simplifications:                                                         *)
(*  - a block's hash commits to its ancestors: a block is the sequence of   *)
(*    the names of the blocks from the first one after genesis, <<>>, to it; *)
(*  - a block that CheckBlock, or AcceptBlock for a reason of its own,      *)
(*    refuses changes nothing and is left out; Bad are those whose          *)
(*    transactions ConnectBlock refuses;                                    *)
(*  - candidates with equal work are ordered by their hashes: any order;    *)
(*  - the genesis block is on disk; nothing fails to be written; the master *)
(*    key of the checkpoints does not change;                               *)
(*  - warnings (nBestInvalidWork, hashInvalidCheckpoint) are left out.      *)
(***************************************************************************)
EXTENDS Integers, Sequences, FiniteSets, SequencesExt

CONSTANTS
    Block,         \* blocks other than genesis, with all of their ancestors
    Work,          \* nChainWork
    BadSets        \* the sets that Bad may be

Genesis == <<>>
None == <<"none">>

Parent(b) == SubSeq(b, 1, Len(b) - 1)

ASSUME BlockAssumption ==
    /\ \A b \in Block : b \in Seq(STRING) /\ Len(b) > 0
    /\ None \notin Block
    /\ \A b \in Block : Parent(b) \in Block \cup {Genesis}

ASSUME WorkAssumption ==
    /\ Work \in [Block \cup {Genesis} -> Nat]
    /\ \A b \in Block : Work[Parent(b)] < Work[b]

ASSUME BadAssumption == BadSets \subseteq SUBSET Block

VARIABLES
    Bad,           \* blocks that ConnectBlock refuses
    index,         \* mapBlockIndex
    failed,        \* blocks marked BLOCK_FAILED_VALID or BLOCK_FAILED_CHILD
    valid,         \* setBlockIndexValid, the candidates
    best,          \* pindexBest, and the best block of the coins
    pnext,         \* the pnext of the blocks where it is not NULL
    saved,         \* best block of the coins on disk
    orphans,       \* mapOrphanBlocks
    sync,          \* hashSyncCheckpoint
    pending,       \* hashPendingCheckpoint, or None
    enforced,      \* IsSyncCheckpointEnforced
    pc,            \* where the code is
    block,         \* the block in AcceptBlock; None in AppInit
    vAttach,       \* blocks that ConnectBestBlock has still to switch to
    vWorkQueue,    \* accepted blocks whose orphans are still to be processed
    forced         \* history: a checkpoint has moved the best chain, or tried to

chain == <<failed, valid, best, pnext, saved>>
checkpoint == <<sync, pending>>
control == <<pc, block, vAttach, vWorkQueue>>
config == <<Bad, enforced>>
vars == <<config, index, chain, orphans, checkpoint, control, forced>>

(* A block with its ancestors; the shortest and the longest of some of them. *)
Chain(b) == Prefixes(b)
Lowest(S) == CHOOSE b \in S : \A c \in S : Len(b) <= Len(c)
Highest(S) == CHOOSE b \in S : \A c \in S : Len(c) <= Len(b)

IsInMainChain(b) == b \in DOMAIN pnext \/ b = best

-----------------------------------------------------------------------------
(* SetBestChain(x): the blocks above the fork are connected to a copy of the *)
(* coins; only if all go through, the best chain moves.  The first that is   *)
(* refused is marked (InvalidBlockFound); it is not on the best chain, so    *)
(* pnext is NULL and there is nothing to reorganise away from.               *)
vDisconnect(x) == Chain(best) \ Chain(x)
vConnect(x) == Chain(x) \ Chain(best)

Connects(x) == vConnect(x) \cap Bad = {}

InvalidBlockFound(b) ==
    /\ failed' = failed \cup {b}
    /\ valid' = valid \ {b}
    /\ UNCHANGED <<best, pnext, saved>>

SetBestChainFails(x) == InvalidBlockFound(Lowest(vConnect(x) \cap Bad))

Linked_NeverCleared(x) == DOMAIN pnext \cup {Parent(b) : b \in vConnect(x)}

Linked(x) ==
    (DOMAIN pnext \ {Parent(b) : b \in vDisconnect(x)})
        \cup {Parent(b) : b \in vConnect(x)}

SetBestChain(x) ==
    /\ pnext' = [b \in Linked(x) |->
                    IF \E c \in vConnect(x) : Parent(c) = b
                    THEN CHOOSE c \in vConnect(x) : Parent(c) = b
                    ELSE pnext[b]]
    /\ best' = x
    /\ saved' \in {x, saved}
    /\ UNCHANGED <<failed, valid>>

-----------------------------------------------------------------------------
(* ConnectBestBlock: a candidate with the most work, and its ancestors down  *)
(* to the best chain.                                                        *)
Candidates == {b \in valid : \A c \in valid : Work[c] <= Work[b]}

Tested(b) ==
    {a \in Chain(b) : \A c \in Chain(b) \ {a} : IsPrefix(a, c) => c \notin DOMAIN pnext}

NothingToDo(b) ==
    /\ Work[b] = Work[best]
    /\ pc' = IF block = None THEN "idle" ELSE "accepted"
    /\ UNCHANGED <<chain, block, vAttach, vWorkQueue>>

(* One of them failed: those above it are marked and the next candidate is   *)
(* looked for.                                                               *)
MarkFailed(b) ==
    LET f == Highest(Tested(b) \cap failed)
    IN  {c \in Chain(b) : IsStrictPrefix(f, c)}

FailedAncestor_GivesUp(b) ==
    /\ Work[b] # Work[best]
    /\ Tested(b) \cap failed # {}
    /\ failed' = failed \cup MarkFailed(b)
    /\ valid' = valid \ MarkFailed(b)
    /\ pc' = IF block = None THEN "idle" ELSE "accepted"
    /\ UNCHANGED <<best, pnext, saved, block, vAttach, vWorkQueue>>

FailedAncestor(b) ==
    /\ Work[b] # Work[best]
    /\ Tested(b) \cap failed # {}
    /\ failed' = failed \cup MarkFailed(b)
    /\ valid' = valid \ MarkFailed(b)
    /\ UNCHANGED <<best, pnext, saved, control>>

Attach(b) ==
    /\ Work[b] # Work[best]
    /\ Tested(b) \cap failed = {}
    /\ vAttach' = {a \in Tested(b) : Work[a] > Work[best]}
    /\ pc' = "attach"
    /\ UNCHANGED <<chain, block, vWorkQueue>>

ConnectBestBlock ==
    /\ pc = "connect"
    /\ \E b \in Candidates : NothingToDo(b) \/ FailedAncestor(b) \/ Attach(b)
    /\ UNCHANGED <<config, index, orphans, checkpoint, forced>>

(* One switch of its loop.                                                   *)
Switch ==
    /\ pc = "attach"
    /\ LET x == Lowest(vAttach)
       IN  /\ Connects(x)
           /\ SetBestChain(x)
           /\ vAttach' = vAttach \ {x}
    /\ pc' = IF vAttach' # {} THEN "attach"
             ELSE IF block = None THEN "idle" ELSE "accepted"
    /\ UNCHANGED <<config, index, orphans, checkpoint, block, vWorkQueue, forced>>

(* A switch fails: ConnectBestBlock, AddToBlockIndex and AcceptBlock return  *)
(* false.  ProcessBlock goes on if the block was an orphan; AppInit gives up. *)
SwitchFails ==
    /\ pc = "attach"
    /\ LET x == Lowest(vAttach)
       IN  ~Connects(x) /\ SetBestChainFails(x)
    /\ vAttach' = {}
    /\ pc' = IF block = None THEN "down"
             ELSE IF vWorkQueue = {} THEN "idle" ELSE "orphans"
    /\ UNCHANGED <<config, index, orphans, checkpoint, block, vWorkQueue, forced>>

-----------------------------------------------------------------------------
(* CheckSyncCheckpoint: may a new block with this parent be accepted?        *)
CheckSyncCheckpoint(b) ==
    IF Len(b) > Len(sync) THEN SubSeq(Parent(b), 1, Len(sync)) = sync
    ELSE IF Len(b) = Len(sync) THEN b = sync
    ELSE b \in index

AcceptBlock(b) ==
    /\ enforced => CheckSyncCheckpoint(b)
    /\ index' = index \cup {b}
    /\ valid' = valid \cup {b}
    /\ block' = b
    /\ pc' = "connect"
    /\ UNCHANGED <<failed, best, pnext, saved, vAttach>>

(* ProcessBlock.  A block without a parent is kept if a peer sent it.        *)
ProcessBlock(b) ==
    /\ pc = "idle"
    /\ b \notin index \cup orphans
    /\ Parent(b) \in index
    /\ AcceptBlock(b)
    /\ UNCHANGED <<config, orphans, checkpoint, vWorkQueue, forced>>

OrphanBlock(b) ==
    /\ pc = "idle"
    /\ b \notin index \cup orphans
    /\ Parent(b) \notin index
    /\ orphans' = orphans \cup {b}
    /\ UNCHANGED <<config, index, chain, checkpoint, control, forced>>

(* The orphans of an accepted block, one after the other.                    *)
Waiting == {b \in orphans : Parent(b) \in vWorkQueue}

ProcessOrphan(b) ==
    /\ pc = "orphans"
    /\ b \in Waiting
    /\ orphans' = orphans \ {b}
    /\ \/ AcceptBlock(b)
       \/ /\ enforced /\ ~CheckSyncCheckpoint(b)
          /\ UNCHANGED <<index, chain, pc, block, vAttach>>
    /\ UNCHANGED <<config, checkpoint, vWorkQueue, forced>>

OrphansDone ==
    /\ pc = "orphans"
    /\ Waiting = {}
    /\ pc' = "idle"
    /\ vWorkQueue' = {}
    /\ UNCHANGED <<config, index, chain, orphans, checkpoint, block, vAttach,
                   forced>>

-----------------------------------------------------------------------------
(* ValidateSyncCheckpoint: a descendant of the current checkpoint.           *)
ValidateSyncCheckpoint_AnyHigher(h) == Len(h) > Len(sync)

ValidateSyncCheckpoint(h) ==
    Len(h) > Len(sync) /\ SubSeq(h, 1, Len(sync)) = sync

(* A checkpoint whose block is known takes effect.  If checkpoints are       *)
(* enforced the best chain moves there first; if it cannot, the checkpoint   *)
(* is not taken.                                                             *)
TakeCheckpoint(h) ==
    \/ /\ ~enforced \/ IsInMainChain(h)
       /\ sync' = h
       /\ pending' = None
       /\ UNCHANGED <<chain, forced>>
    \/ /\ enforced /\ ~IsInMainChain(h) /\ Connects(h)
       /\ SetBestChain(h)
       /\ sync' = h
       /\ pending' = None
       /\ forced' = TRUE
    \/ /\ enforced /\ ~IsInMainChain(h) /\ ~Connects(h)
       /\ SetBestChainFails(h)
       /\ forced' = TRUE
       /\ UNCHANGED checkpoint

(* AcceptPendingSyncCheckpoint, at the end of AcceptBlock.                   *)
AcceptPendingSyncCheckpoint ==
    \/ /\ pending \notin index
       /\ UNCHANGED <<chain, checkpoint, forced>>
    \/ /\ pending \in index /\ ~ValidateSyncCheckpoint(pending)
       /\ pending' = None
       /\ UNCHANGED <<chain, sync, forced>>
    \/ /\ pending \in index /\ ValidateSyncCheckpoint(pending)
       /\ TakeCheckpoint(pending)

Queued_FirstOnly == IF vWorkQueue = {} THEN {block} ELSE vWorkQueue

Queued == vWorkQueue \cup {block}

BlockAccepted ==
    /\ pc = "accepted"
    /\ AcceptPendingSyncCheckpoint
    /\ vWorkQueue' = Queued
    /\ pc' = "orphans"
    /\ UNCHANGED <<config, index, orphans, block, vAttach>>

(* A checkpoint message, or the master's own checkpoint.                     *)
ProcessSyncCheckpoint(h) ==
    /\ pc = "idle"
    /\ \/ /\ h \notin index
          /\ pending' = h
          /\ UNCHANGED <<chain, sync, forced>>
       \/ /\ h \in index /\ ValidateSyncCheckpoint(h)
          /\ TakeCheckpoint(h)
    /\ UNCHANGED <<config, index, orphans, control>>

(* The commands enforcecheckpoint true and false.                            *)
EnforceCheckpoint ==
    /\ pc = "idle"
    /\ enforced' = ~enforced
    /\ UNCHANGED <<Bad, index, chain, orphans, checkpoint, control, forced>>

-----------------------------------------------------------------------------
(* The process ends, in good order with the coins flushed, or killed, and    *)
(* starts again: LoadBlockIndexDB, then ConnectBestBlock in AppInit.  The    *)
(* command line may have changed.                                            *)
Restart ==
    /\ \E b \in {saved, best} :
          /\ best' = b
          /\ saved' = b
          /\ pnext' = [a \in Chain(b) \ {b} |-> SubSeq(b, 1, Len(a) + 1)]
    /\ valid' = index \ failed
    /\ orphans' = {}
    /\ pending' = None
    /\ enforced' \in BOOLEAN
    /\ pc' = "connect"
    /\ block' = None
    /\ vAttach' = {}
    /\ vWorkQueue' = {}
    /\ forced' = FALSE
    /\ UNCHANGED <<Bad, index, failed, sync>>

Init ==
    /\ Bad \in BadSets
    /\ enforced \in BOOLEAN
    /\ index = {Genesis}
    /\ failed = {}
    /\ valid = {Genesis}
    /\ best = Genesis
    /\ pnext = <<>>
    /\ saved = Genesis
    /\ orphans = {}
    /\ sync = Genesis
    /\ pending = None
    /\ pc = "idle"
    /\ block = None
    /\ vAttach = {}
    /\ vWorkQueue = {}
    /\ forced = FALSE

(* What the code does by itself, once a block has arrived or at a start.     *)
Proceed ==
    \/ ConnectBestBlock
    \/ Switch
    \/ SwitchFails
    \/ BlockAccepted
    \/ \E b \in Block : ProcessOrphan(b)
    \/ OrphansDone

Next ==
    \/ Proceed
    \/ \E b \in Block :
          ProcessBlock(b) \/ OrphanBlock(b) \/ ProcessSyncCheckpoint(b)
    \/ EnforceCheckpoint
    \/ Restart

Spec == Init /\ [][Next]_vars

-----------------------------------------------------------------------------
(* Properties.                                                               *)

(* Types, and the shape of the index: pnext links exactly the best chain,    *)
(* which holds no failed block, over reorganisations, failed ones and        *)
(* restarts; the candidates "must contain those who aren't failed"           *)
(* (main.cpp:47), and contain no failed one, which ConnectBestBlock would    *)
(* try for ever (main.cpp:1205-1216).                                        *)
ChainShape ==
    /\ pc \in {"idle", "connect", "attach", "accepted", "orphans", "down"}
    /\ index \subseteq Block \cup {Genesis}
    /\ {best, saved, sync} \subseteq index
    /\ orphans \subseteq Block \ index
    /\ pending \in Block \cup {None}
    /\ \A b \in index : Chain(b) \subseteq index
    /\ pnext = [a \in Chain(best) \ {best} |-> SubSeq(best, 1, Len(a) + 1)]
    /\ failed \cap Chain(best) = {}
    /\ valid = index \ failed

Sound(b) == Chain(b) \cap Bad = {}

(* When the node waits for messages, no block it knows whose chain is sound  *)
(* has more work than its best block: not after a reorganisation failed half *)
(* way, nor after a crash that lost the coins of many blocks, nor with       *)
(* failed candidates that have more work (main.cpp:1187-1237).  A checkpoint *)
(* that moves the chain overrules the work.                                  *)
MostWork ==
    pc = "idle" /\ ~forced =>
        \A b \in index : Sound(b) => Work[b] <= Work[best]

(* Nothing is forgotten: an orphan whose parent is known, or a pending       *)
(* checkpoint whose block is known, has been taken up, although ProcessBlock *)
(* returns early in many places; but for those on an unsound chain           *)
(* (main.cpp:2211-2212, 2307-2329).                                          *)
NothingLeftBehind ==
    pc = "idle" /\ ~forced =>
        /\ \A b \in orphans : Parent(b) \in index => ~Sound(Parent(b))
        /\ pending \in index => ~Sound(pending)

(* The checkpoint moves to descendants only, over pending ones, reorders     *)
(* and restarts, and while it is enforced only its descendants are accepted  *)
(* (checkpointsync.cpp:105 "only descendant of current sync-checkpoint is    *)
(* allowed").                                                                *)
CheckpointAdvances ==
    [][/\ IsPrefix(sync, sync')
       /\ enforced => \A b \in index' \ index : IsPrefix(sync, b)]_vars

=============================================================================
