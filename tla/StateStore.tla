----------------------------- MODULE StateStore ------------------------------
(***************************************************************************)
(* The chain with the state database: commit_block journals the state of   *)
(* the block, brings the account cache up to date and prunes ancient       *)
(* states.  The journal is written in the batch of the block, what pruning *)
(* writes in batches of its own.                                           *)
(*                                                                         *)
(* The state of a block is a value for each account.  Its trie is a root   *)
(* and a leaf for each account that exists, known by their content, so two *)
(* blocks may share nodes, and even the root.                              *)
(***************************************************************************)
EXTENDS ChainReset, OverlayRecentDB, StateDB

CONSTANTS
    Values,         \* the value of each account in the state of a block
    Dirty,          \* the accounts a block makes dirty
    History,        \* pruning history
    MaxRecords,     \* bound: how often a block may arrive
    MaxResets       \* bound: resets of a behaviour

StateRoot(b) == <<"root", Values[b]>>

Leaves(b) == {<<a, Values[b][a]>> : a \in {x \in Addresses : Values[b][x] # Missing}}

StateOf(b) == {StateRoot(b)} \cup Leaves(b)

ASSUME StateAssumption ==
    /\ Keys = UNION {StateOf(b) : b \in Blocks}
    /\ Eras = Heights /\ Number[Genesis] = 0
    /\ History \in Nat \ {0}
    /\ \A b \in Blocks \ {Genesis} : \A a \in Addresses :
          Values[b][a] # Values[Parent[b]][a] => a \in Dirty[b]

VARIABLES
    pruning,        \* prune_ancient is running
    base,           \* history: the blocks marked canonical, as in kv and on disk
    resets          \* history: number of resets

storeVars == <<chainVars, journalVars, cache, pruning, base, resets>>

RecordOf(b) ==
    [id |-> b, insertions |-> StateOf(b) \ (IF b = Genesis THEN {} ELSE StateOf(Parent[b])),
     deletions |-> IF b = Genesis THEN {} ELSE StateOf(Parent[b]) \ StateOf(b)]

(***************************************************************************)
(* Client::new on an empty database journals the genesis state.            *)
(***************************************************************************)
GenesisColumn ==
    [nodes |-> {}, latest |-> 0,
     journal |-> [e \in Eras |-> IF e = 0 THEN <<RecordOf(Genesis)>> ELSE << >>]]

StoreInit ==
    /\ Init
    /\ kv = GenesisColumn /\ kvDisk = GenesisColumn
    /\ mem = ReadOverlay(GenesisColumn)
    /\ batch = NoBatch
    /\ cache = EmptyCache
    /\ pruning = FALSE
    /\ base = [kv |-> {}, disk |-> {}]
    /\ resets = 0

-----------------------------------------------------------------------------
(***************************************************************************)
(* check_and_lock_block refuses a block below the earliest state; the      *)
(* block is executed on the state of its parent, whose root and changed    *)
(* accounts must be found.                                                 *)
(***************************************************************************)
Enactable(b) ==
    /\ mem.earliest = NoEra \/ mem.earliest <= Number[b]
    /\ {StateRoot(Parent[b])} \cup RecordOf(b).deletions \subseteq Found(mem, kv)

(***************************************************************************)
(* What State::drop hands to the clone: the dirty accounts, and those that *)
(* were read from the trie (fresh).                                        *)
(***************************************************************************)
LocalCache(b, fresh) ==
    [a \in Dirty[b] \cup fresh |-> [account |-> Values[b][a], modified |-> a \in Dirty[b]]]

(***************************************************************************)
(* commit_block up to BlockChain::commit.  For a block that is known the   *)
(* route is empty.  import_sealed_block synchronises the cache a second    *)
(* time, with the client's own StateDB.                                    *)
(***************************************************************************)
CommitState(b, fresh, sealed) ==
    LET known == IsKnownChild(db, b)
        isBest == ~known /\ BlockLocation(db, b) # "Branch"
        enacted == IF isBest THEN EnactedBy(db, b) \cup {b} ELSE {}
        retracted == IF isBest THEN RetractedBy(db, b) ELSE {}
        commit == [hash |-> b, number |-> Number[b], parent |-> Parent[b],
                   local |-> LocalCache(b, fresh)]
        synced == SyncCache(cache, enacted, retracted, isBest, commit)
    IN  /\ ~pruning
        /\ Importable(b)
        /\ Enactable(b)
        /\ Len(mem.journal[Number[b]]) < MaxRecords
        /\ CommitBlock(b, {})
        /\ mem' = JournalUnder(mem, Number[b], RecordOf(b))
        /\ kv' = StoreRecord(kv, Number[b], RecordOf(b))
        /\ cache' = IF sealed THEN SyncCache(synced, enacted, retracted, FALSE, NoCommit) ELSE synced
        /\ pruning' = TRUE
        /\ UNCHANGED <<kvDisk, batch, base, resets>>

(***************************************************************************)
(* prune_ancient.  Whether journal_size is over the memory target is left  *)
(* open, so the loop may end at any time.  If the number index has no      *)
(* block for the era, the loop tries the same era again, without end.      *)
(***************************************************************************)
IsAncientOffByOne == mem.earliest # NoEra /\ mem.earliest + History <= mem.latest + 1

IsAncient == mem.earliest # NoEra /\ mem.earliest + History <= mem.latest

PruneEra ==
    /\ status = "running" /\ pruning /\ batch = NoBatch
    /\ IsAncient
    /\ db.hashes[mem.earliest] # NoBlock
    /\ MarkCanonical(mem.earliest, db.hashes[mem.earliest])
    /\ base' = [base EXCEPT !.kv = @ \cup {db.hashes[mem.earliest]}]
    /\ UNCHANGED <<chainVars, cache, pruning, resets>>

WritePruned ==
    /\ status = "running" /\ pruning
    /\ WriteMarked
    /\ UNCHANGED <<chainVars, cache, pruning, base, resets>>

PruneEnds ==
    /\ status = "running" /\ pruning /\ batch = NoBatch
    /\ pruning' = FALSE
    /\ UNCHANGED <<chainVars, journalVars, cache, base, resets>>

PruneSpins ==
    /\ status = "running" /\ pruning /\ batch = NoBatch
    /\ IsAncient
    /\ db.hashes[mem.earliest] = NoBlock
    /\ status' = "hung"
    /\ UNCHANGED <<db, disk, blooms, lost, journalVars, cache, pruning, base, resets>>

-----------------------------------------------------------------------------
StoreFlush ==
    /\ Flush
    /\ kvDisk' = kv
    /\ base' = [base EXCEPT !.disk = base.kv]
    /\ UNCHANGED <<mem, kv, batch, cache, pruning, resets>>

Lose ==
    /\ kv' = kvDisk
    /\ base' = [base EXCEPT !.kv = base.disk]
    /\ batch' = NoBatch
    /\ cache' = EmptyCache
    /\ pruning' = FALSE
    /\ UNCHANGED <<mem, kvDisk, resets>>

StoreCrash == Crash /\ Lose

Killed ==
    /\ status = "hung"
    /\ status' = "down"
    /\ db' = disk
    /\ lost' = (lost \/ db # disk)
    /\ Lose
    /\ UNCHANGED <<disk, blooms>>

(***************************************************************************)
(* Client::new reads the journal and prunes.                               *)
(***************************************************************************)
StoreRestart ==
    /\ status = "down"
    /\ Restart
    /\ mem' = ReadOverlay(kv)
    /\ pruning' = TRUE
    /\ UNCHANGED <<kv, kvDisk, batch, cache, base, resets>>

(***************************************************************************)
(* Client::reset leaves the state database as it is; NUM may not be larger *)
(* than the pruning history.  (A reset past genesis panics, see ChainNode. *)
(* The start that comes before it is a StoreRestart, a pruning and a       *)
(* StoreFlush.)                                                            *)
(***************************************************************************)
ResetChain(n) ==
    /\ status = "down"
    /\ resets < MaxResets
    /\ n <= History
    /\ n <= Number[db.best]
    /\ db.best \in db.details \cap db.bodies
    /\ LatestBlocks(db, n) \subseteq db.bodies
    /\ db' = WithoutLatest(db, n)
    /\ disk' = db'
    /\ resets' = resets + 1
    /\ UNCHANGED <<blooms, status, lost, journalVars, cache, pruning, base>>

StoreNext ==
    \/ \E b \in Blocks : \E fresh \in SUBSET (Addresses \ Dirty[b]) : \E sealed \in BOOLEAN :
          CommitState(b, fresh, sealed)
    \/ PruneEra
    \/ WritePruned
    \/ PruneEnds
    \/ PruneSpins
    \/ StoreFlush
    \/ StoreCrash
    \/ Killed
    \/ StoreRestart
    \/ \E n \in 1..MaxReset : ResetChain(n)

StoreSpec == StoreInit /\ [][StoreNext]_storeVars

-----------------------------------------------------------------------------
(***************************************************************************)
(* The blocks whose ancestry holds the blocks that were marked canonical   *)
(* and that are not below them.                                            *)
(***************************************************************************)
Kept(s, marked) ==
    {b \in s.bodies : marked \subseteq Ancestry[b]}

(***************************************************************************)
(* The state of every stored block above the last era that was pruned is   *)
(* there in full, on every branch that was not cut off by pruning: nodes   *)
(* that branches share, insert twice, delete and insert again are neither  *)
(* lost while the batch of a pruning is being written nor by a crash       *)
(* (journal_under, mark_canonical).  commit_block asks for it in a         *)
(* comment: "even if the state_root is equal to another already-imported   *)
(* block of the same number".                                              *)
(***************************************************************************)
StatesReadable ==
    /\ status = "running" => UNION {StateOf(b) : b \in Kept(db, base.kv)} \subseteq Found(mem, kv)
    /\ UNION {StateOf(b) : b \in Kept(disk, base.disk)} \subseteq Found(ReadOverlay(kvDisk), kvDisk)

(***************************************************************************)
(* What the tests call can_reconstruct_refs: between two batches the       *)
(* overlay in memory is the one a restart would read from the journal.     *)
(***************************************************************************)
CanReconstruct ==
    status = "running" /\ batch = NoBatch => mem = ReadOverlay(kv)

(***************************************************************************)
(* Whatever block a state is opened on, the best one, an older one or one  *)
(* of a branch, an account that the shared cache gives out has the value   *)
(* it has in the state of that block (sync_cache and is_allowed), across   *)
(* reorganisations and whatever the list of modifications has forgotten.   *)
(***************************************************************************)
CacheCoherent ==
    \A b \in db.bodies, a \in Addresses :
       GetCachedAccount(cache, a, b) \in {NotCached, Values[b][a]}

(***************************************************************************)
(* The state root of the best block is found, also by a thread that opens  *)
(* the state while an era is being pruned, after a reorganisation that     *)
(* goes below the pruned eras, and after one reset by no more than the     *)
(* pruning history (latest_state, Client::reset).                          *)
(***************************************************************************)
BestRootKept ==
    status = "running" /\ resets <= 1 => StateRoot(db.best) \in Found(mem, kv)

(***************************************************************************)
(* latest_state: expect("State root of best block header always valid.")   *)
(***************************************************************************)
BestRootValid ==
    status = "running" => StateRoot(db.best) \in Found(mem, kv)

(***************************************************************************)
(* prune_ancient comes to an end.                                          *)
(***************************************************************************)
PruneReturns == status # "hung"
=============================================================================
