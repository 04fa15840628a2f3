-------------------------- MODULE TransactionQueue ---------------------------
(***************************************************************************)
(* The transaction queue of the miner (miner/src/pool/queue.rs) for        *)
(* transactions with shielded inputs: the pool, the map from nullifiers to *)
(* pooled transactions, the recently rejected transactions and the cached  *)
(* pending set, under threads that import, remove, cull and ask for the    *)
(* pending set (network, RPC, sealing and io threads).                     *)
(*                                                                         *)
(* Every such transaction has a sender of its own, so transactions meet in *)
(* the pool only through its size limit and through their nullifiers.  A   *)
(* step is one critical section of the pool lock or of the cache lock;     *)
(* only the two places that hold one of them while they wait for the other *)
(* keep it between steps.  A call of import handles one transaction.       *)
(***************************************************************************)
EXTENDS Integers, FiniteSets

CONSTANTS
    Transactions, NoTransaction,
    Nullifiers, NullifierSet,   \* get_nullifier_set
    GasPrice,
    Threads, Free,              \* the owners of a lock
    MaxCount,                   \* options.max_count of the pool
    Numbers,                    \* best block numbers of the instance
    NoCache

ASSUME QueueAssumption ==
    /\ NoTransaction \notin Transactions /\ Free \notin Threads
    /\ NullifierSet \in [Transactions -> SUBSET Nullifiers]
    /\ GasPrice \in [Transactions -> Nat]
    /\ MaxCount \in Nat \ {0}
    /\ Numbers \subseteq Nat

VARIABLES
    pool,               \* the transactions of txpool::Pool
    nullifierPending,   \* nullifier_hash_map
    rejected,           \* recently_rejected
    cached,             \* cached_pending: the block number and the set, or NoCache
    included,           \* the chain: transactions of the canonical blocks
    number,             \* the chain: best block number
    cullDue,            \* a cull waits on the io channel
    job,                \* what each thread is doing
    poolLock, cacheLock,
    unmoved,            \* history: the chain stands as when the cache was filled
    servedStale         \* history: spent transactions in the last pending set

vars == <<pool, nullifierPending, rejected, cached, included, number, cullDue,
          job, poolLock, cacheLock, unmoved, servedStale>>

Stages == {"idle", "checked", "imported", "clearing", "recording", "finishing", "collecting"}

Job == [at : Stages, tx : Transactions \cup {NoTransaction},
        replaced : SUBSET Transactions, asked : Numbers \cup {0}]

Idle == [at |-> "idle", tx |-> NoTransaction, replaced |-> {}, asked |-> 0]

Init ==
    /\ pool = {} /\ rejected = {} /\ included = {}
    /\ nullifierPending = [n \in Nullifiers |-> NoTransaction]
    /\ cached = NoCache
    /\ number \in Numbers
    /\ cullDue = FALSE
    /\ job = [i \in Threads |-> Idle]
    /\ poolLock = Free /\ cacheLock = Free
    /\ unmoved = FALSE /\ servedStale = {}

chain == <<included, number, cullDue>>

locks == <<poolLock, cacheLock>>

history == <<unmoved, servedStale>>

-----------------------------------------------------------------------------
(***************************************************************************)
(* nullifier_exists, State::is_ready.                                      *)
(***************************************************************************)
Spent == UNION {NullifierSet[t] : t \in included}

Stale(t) == NullifierSet[t] \cap Spent # {}

Ready == {t \in pool : ~Stale(t)}

(***************************************************************************)
(* should_replace_conflict asks for an eighth more than the old price.     *)
(***************************************************************************)
ShouldReplaceConflict(old, new) == GasPrice[new] > GasPrice[old] + GasPrice[old] \div 8

ConflictTransactionHashes(t) ==
    {nullifierPending[n] : n \in NullifierSet[t]} \ {NoTransaction}

Worst(t) == t \in pool /\ \A u \in pool : GasPrice[t] <= GasPrice[u]

(***************************************************************************)
(* verify_transaction and check_transaction_nullifier_conflict.  The       *)
(* verifier turns a transaction away early when the pool is full and its   *)
(* worst transaction pays more.                                            *)
(***************************************************************************)
Acceptable(t) ==
    /\ t \notin included
    /\ Cardinality(pool) >= MaxCount => \E w \in pool : Worst(w) /\ GasPrice[w] <= GasPrice[t]
    /\ ~Stale(t)
    /\ \A c \in ConflictTransactionHashes(t) \cap pool : ShouldReplaceConflict(c, t)

Check(i, t) ==
    /\ job[i].at = "idle"
    /\ poolLock = Free
    /\ t \notin pool /\ t \notin rejected
    /\ IF Acceptable(t)
       THEN /\ job' = [job EXCEPT ![i] = [Idle EXCEPT !.at = "checked", !.tx = t,
                                                     !.replaced = ConflictTransactionHashes(t)]]
            /\ UNCHANGED rejected
       ELSE rejected' = rejected \cup {t} /\ UNCHANGED job
    /\ UNCHANGED <<pool, nullifierPending, cached, chain, locks, history>>

At(i, stage) == job' = [job EXCEPT ![i].at = stage]

(***************************************************************************)
(* pool.import: the limit is enforced by dropping the worst transaction    *)
(* when the new one pays more.  The listener tells nullifierPending of     *)
(* nothing that leaves the pool this way.                                  *)
(***************************************************************************)
PoolImport(i) ==
    LET t == job[i].tx
        Insert(rest) ==
            pool' = rest \cup {t} /\ At(i, "imported") /\ UNCHANGED rejected
        Refuse ==
            /\ rejected' = rejected \cup {t}
            /\ job' = [job EXCEPT ![i] = Idle]
            /\ UNCHANGED pool
    IN /\ job[i].at = "checked"
       /\ poolLock = Free
       /\ \/ t \in pool /\ Refuse
          \/ t \notin pool /\ Cardinality(pool) < MaxCount /\ Insert(pool)
          \/ /\ t \notin pool /\ Cardinality(pool) >= MaxCount
             /\ \E w \in pool :
                   /\ Worst(w)
                   /\ IF GasPrice[t] > GasPrice[w] THEN Insert(pool \ {w}) ELSE Refuse
       /\ UNCHANGED <<nullifierPending, cached, chain, locks, history>>

(***************************************************************************)
(* TransactionQueue::remove: the pool lock is held until the cache is      *)
(* cleared, when anything was removed.                                     *)
(***************************************************************************)
Forget(gone) ==
    nullifierPending' =
        [n \in Nullifiers |-> IF \E t \in gone : n \in NullifierSet[t]
                              THEN NoTransaction ELSE nullifierPending[n]]

Remove(i, hashes, next) ==
    /\ poolLock = Free
    /\ pool' = pool \ hashes
    /\ Forget(hashes \cap pool)
    /\ IF hashes \cap pool = {}
       THEN At(i, next) /\ UNCHANGED poolLock
       ELSE At(i, "clearing") /\ poolLock' = i
    /\ UNCHANGED <<rejected, cached, chain, cacheLock, history>>

RemoveCall(i, t) == job[i].at = "idle" /\ Remove(i, {t}, "idle")

RemoveReplacedNothing(i) ==
    job[i].at = "imported" /\ Remove(i, {}, "recording")

RemoveReplaced(i) ==
    job[i].at = "imported" /\ Remove(i, job[i].replaced, "recording")

ClearCachedKeepsLock(i) ==
    /\ job[i].at = "clearing"
    /\ cacheLock = Free
    /\ cached' = NoCache
    /\ At(i, IF job[i].tx = NoTransaction THEN "idle" ELSE "recording")
    /\ UNCHANGED <<pool, nullifierPending, rejected, chain, locks, history>>

ClearCached(i) ==
    /\ job[i].at = "clearing"
    /\ cacheLock = Free
    /\ cached' = NoCache
    /\ poolLock' = Free
    /\ At(i, IF job[i].tx = NoTransaction THEN "idle" ELSE "recording")
    /\ UNCHANGED <<pool, nullifierPending, rejected, chain, cacheLock, history>>

(***************************************************************************)
(* The rest of import: nullifier_pending.insert, then the listener is      *)
(* notified under the pool lock and the cache is cleared.                  *)
(***************************************************************************)
RecordNullifiers(i) ==
    /\ job[i].at = "recording"
    /\ nullifierPending' =
          [n \in Nullifiers |-> IF n \in NullifierSet[job[i].tx]
                                THEN job[i].tx ELSE nullifierPending[n]]
    /\ At(i, "finishing")
    /\ UNCHANGED <<pool, rejected, cached, chain, locks, history>>

FinishKeepsCached(i) ==
    /\ job[i].at = "finishing"
    /\ poolLock = Free
    /\ job' = [job EXCEPT ![i] = Idle]
    /\ UNCHANGED <<pool, nullifierPending, rejected, cached, chain, locks, history>>

FinishImport(i) ==
    /\ job[i].at = "finishing"
    /\ poolLock = Free /\ cacheLock = Free
    /\ cached' = NoCache
    /\ job' = [job EXCEPT ![i] = Idle]
    /\ UNCHANGED <<pool, nullifierPending, rejected, chain, locks, history>>

-----------------------------------------------------------------------------
(***************************************************************************)
(* pending, asked for the block after the best one: the cached set when it *)
(* was made for that block, otherwise a new one, read from the pool under  *)
(* the cache lock and cached unless the caller wants no order.             *)
(***************************************************************************)
Valid(c, best) == c # NoCache /\ c.number = best

PendingCached(i) ==
    /\ job[i].at = "idle"
    /\ cacheLock = Free
    /\ Valid(cached, number)
    /\ servedStale' = {t \in cached.txs : Stale(t)}
    /\ UNCHANGED <<pool, nullifierPending, rejected, cached, chain, job, locks, unmoved>>

PendingLock(i) ==
    /\ job[i].at = "idle"
    /\ cacheLock = Free
    /\ ~Valid(cached, number)
    /\ cacheLock' = i
    /\ job' = [job EXCEPT ![i].at = "collecting", ![i].asked = number]
    /\ UNCHANGED <<pool, nullifierPending, rejected, cached, chain, poolLock, history>>

PendingCollect(i) ==
    /\ job[i].at = "collecting"
    /\ poolLock = Free
    /\ \/ cached' = [number |-> job[i].asked, txs |-> Ready] /\ unmoved' = TRUE
       \/ UNCHANGED <<cached, unmoved>>
    /\ servedStale' = {}
    /\ cacheLock' = Free
    /\ job' = [job EXCEPT ![i] = Idle]
    /\ UNCHANGED <<pool, nullifierPending, rejected, chain, poolLock>>

(***************************************************************************)
(* Miner::chain_new_blocks and the cull it queues.  The chain never holds  *)
(* a nullifier twice.  Transactions of retracted blocks come back through  *)
(* Check, from any thread.                                                 *)
(***************************************************************************)
ChainMoves ==
    /\ number' \in Numbers
    /\ included' \in SUBSET Transactions \ {included}
    /\ \A t, u \in included' : NullifierSet[t] \cap NullifierSet[u] # {} => t = u
    /\ cullDue' = TRUE
    /\ unmoved' = FALSE
    /\ UNCHANGED <<pool, nullifierPending, rejected, cached, job, locks, servedStale>>

Cull ==
    /\ cullDue
    /\ poolLock = Free
    /\ pool' = Ready
    /\ rejected' = {}
    /\ cullDue' = FALSE
    /\ UNCHANGED <<nullifierPending, cached, included, number, job, locks, history>>

Continue(i) ==
    \/ PoolImport(i) \/ RemoveReplaced(i) \/ ClearCached(i)
    \/ RecordNullifiers(i) \/ FinishImport(i) \/ PendingCollect(i)

Next ==
    \/ \E i \in Threads :
          \/ \E t \in Transactions : Check(i, t) \/ RemoveCall(i, t)
          \/ PendingCached(i) \/ PendingLock(i)
          \/ Continue(i)
    \/ ChainMoves
    \/ Cull

Spec == Init /\ [][Next]_vars

(***************************************************************************)
(* A thread that has started a call keeps running.                         *)
(***************************************************************************)
FairSpec == Spec /\ \A i \in Threads : WF_vars(Continue(i))

-----------------------------------------------------------------------------
(***************************************************************************)
(* Type invariant of the queue, its locks and its callers.                 *)
(***************************************************************************)
TypeOK ==
    /\ pool \in SUBSET Transactions /\ rejected \in SUBSET Transactions
    /\ nullifierPending \in [Nullifiers -> Transactions \cup {NoTransaction}]
    /\ cached = NoCache \/ cached \in [number : Numbers \cup {0}, txs : SUBSET Transactions]
    /\ included \in SUBSET Transactions /\ number \in Numbers /\ cullDue \in BOOLEAN
    /\ job \in [Threads -> Job]
    /\ poolLock \in Threads \cup {Free} /\ cacheLock \in Threads \cup {Free}
    /\ unmoved \in BOOLEAN /\ servedStale \in SUBSET Transactions

InFlight == {i \in Threads : job[i].at \in {"imported", "clearing", "recording", "finishing"}}

(***************************************************************************)
(* While the chain stands still, the cached pending set is exactly what    *)
(* collect_pending would compute now, except between the moment an import  *)
(* or a remove changes the pool and the moment it clears the cache: no     *)
(* interleaving of the two locks leaves an answer behind that misses an    *)
(* imported transaction or lists a removed one.                            *)
(***************************************************************************)
CachedPendingComplete ==
    cached # NoCache /\ unmoved /\ InFlight = {} => cached.txs = Ready

(***************************************************************************)
(* Between calls, every pooled transaction is what nullifier_pending names *)
(* for each of its nullifiers, so no two pooled transactions reveal the    *)
(* same one.  It holds when calls do not overlap, whatever leaves the pool *)
(* without being taken out of the map (evictions, culls).                  *)
(***************************************************************************)
NullifiersRecorded ==
    InFlight = {} => \A t \in pool : \A n \in NullifierSet[t] : nullifierPending[n] = t

(***************************************************************************)
(* Every call of import, remove and pending returns.                       *)
(***************************************************************************)
CallsReturn == \A i \in Threads : job[i].at # "idle" ~> job[i].at = "idle"

(***************************************************************************)
(* "NullifierPending struct is used to check the nullifier confilict for   *)
(* private transaction": two pooled transactions never reveal the same     *)
(* nullifier once the imports that brought them have returned.             *)
(***************************************************************************)
PoolWithoutConflicts ==
    InFlight = {} => \A t, u \in pool : NullifierSet[t] \cap NullifierSet[u] # {} => t = u

(***************************************************************************)
(* "When block becomes non-canonical we re-import the transactions it      *)
(* contains to the queue": the removal of the transactions an import       *)
(* replaces, which is part of the import, leaves the imported one pooled.  *)
(***************************************************************************)
ImportedIsPooled ==
    [][\A i \in Threads : RemoveReplaced(i) /\ job[i].tx \in pool => job[i].tx \in pool']_vars

(***************************************************************************)
(* "Not culling won't lead to old transactions being added to the block    *)
(* (thanks to Ready)": the pending set handed to block production has no   *)
(* transaction whose nullifiers the chain already holds.                   *)
(***************************************************************************)
PendingIsReady == servedStale = {}
=============================================================================
