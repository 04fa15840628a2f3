# The chain core of Origo in TLA+

Origo is a fork of Parity Ethereum with shielded (Sapling style) transactions.
This project models the part of the node that takes blocks in and decides which
chain is canonical, and what follows from that: the verification queue, the
block database with its transaction, nullifier and commitment-root indexes, the
block rewards, the shielded wallet, the state database with its pruning, and
the queue of pending transactions. Paths below are relative to the repository
root, without `src/`.

## 1. Inventory

| Part | State | Operations that change it | Where it is hard |
|---|---|---|---|
| `BlockChain` (`ethcore/blockchain`) | columns for headers, bodies, details, numbers, transaction addresses, nullifiers, commitment roots and trees; best block; bloom files | `insert_block_with_route`, `mark_finalized`, `commit`, `insert_unordered_block` | reorganisations rewrite five indexes in one batch; blooms bypass the batch; a crash drops buffered batches |
| Verification queue (`ethcore/src/verification/queue`) | three queues, bad and processing sets, signal, pool of verifiers | `import`, `verify`, `drain`, `mark_as_bad`, `mark_as_good`, `flush`, `scale_verifiers`, drop | three condition variables and a signal between four kinds of threads |
| Importer (`ethcore/src/client`) | import lock, batches | `import_block`, `import_verified_blocks`, `commit_block`, `prune_ancient`, `Client::reset` | fork choice against finality; flush after a run of blocks; a reset undoes part of an insertion |
| Extras caches (`ethcore/db`) | one cache per column | `read_with_cache`, `extend_with_cache`, `collect_garbage` | readers do not take the import lock |
| Rewards (`ethcore/types`, Ethash) | the `Rewards` entry, the engine's copy | `prepare_rewards_update`, `update_engine_rewards` | eras are added and deleted at boundaries, also backwards |
| Shielded wallet (`ethcore/blockchain/src/wallet`) | notes, nullifiers per address and transaction, key files, two database entries | `prepare_wallet_update`, `scan_for_new_imported_users_in_wallet`, `reload_wallet_info`, new addresses | notes and their positions follow reorganisations; keys come at any time; a reload sees part of the chain |
| State database (`util/journaldb`, `ethcore/src/state_db.rs`) | journal and overlay of trie nodes, shared account cache | `journal_under`, `mark_canonical`, `sync_cache` | branches share nodes; pruning writes batches of its own; the cache serves any block |
| Transaction queue (`miner/src/pool`) | pool, nullifier map, rejected hashes, cached pending set | `import`, `remove`, `pending`, `cull` | four structures under separate locks |
| Sealing, sync, snapshots, other journal databases | timers, downloads, restoration | | not modelled |

A block passes through the verification queue, `commit_block` writes its updates
into a buffered batch, `BlockChain::commit` publishes the pending values, the
engine's rewards are refreshed, ancient states are pruned, and after the whole
run of blocks the buffer is flushed. The miner is then told which blocks were
enacted and retracted; it imports the retracted transactions again, updates its
work and culls the queue.

What has to be right: no block is lost, reordered or blamed on its way in, and
no thread is left waiting; every index describes exactly the canonical chain,
before and after a crash; the best block is the heaviest one and a finalized
chain is not abandoned; rewards follow the chain and stay within the supply;
the wallet holds the notes the chain gives it; the states that are kept can be
read and the account cache does not lie about any of them; the transaction
queue holds no two transactions that spend the same note, does not forget or
invent pending transactions, and every call of it returns.

`PROJECT.json` lists every component, including those that are not modelled
and why, and the hazards of this code at their lines.

## 2. Modules

| Module | Models | State and actions |
|---|---|---|
| `BlockTree` | blocks as data, the result of `tree_route` | constants only |
| `BlockChain` | the block database under the importer | `db` is what the process reads (written and buffered), `disk` what is flushed, `blooms` the bloom files, `status`, `lost` (a crash has taken back commits). `CommitBlock`, `Flush`, `Crash`, `Restart` |
| `CanonicalLedger` | what readers may rely on: head, transaction index and nullifier index of one chain | `Adopt`, `Persist`, `Recover` |
| `ChainLedger` | the refinement mapping from `BlockChain` to `CanonicalLedger` | |
| `TreeRoute` | the walk of `BlockChain::tree_route`, on stores that lack blocks | `LowerFrom`, `LowerTo`, `LowerBoth`, `Finish` |
| `BlockOrder` | the order in which a route is undone and redone | operators only |
| `ChainReset` | what `db reset NUM` removes | operators only |
| `ChainRewards` | the `Rewards` entry and the engine's copy | `InsertRewards`, `UpdateEngineRewards`, `FlushRewards`, `LoseRewards`, `LoadRewards`: the rewards' part of a step of `ChainNode` |
| `ShieldedWallet` | the wallet, its key files and its two database entries | `AddAddress`, `InsertNotes`, `FlushWallet`, `LoseWallet`, `LoadWallet`: the wallet's part of a step of `ChainNode` |
| `ChainNode` | block database, rewards, wallet and reset together: one insertion updates all in one batch | `Insert`, `RefreshEngine`, `NewAddress`, `NodeFlush`, `NodeCrash`, `NodeRestart`, `Reset`, and the panics `InsertPanics`, `StartPanics`, `ResetPanics` |
| `OverlayRecentDB` | the pruning journal database | `mem` is the shared overlay, `kv` and `kvDisk` the state column as read and as flushed, `batch` a pruning batch before it is written. `MarkCanonical`, `WriteMarked`; `JournalUnder`, `ReadOverlay` as operators |
| `StateDB` | the account cache that all states share | `SyncCache`, `IsAllowed`, `GetCachedAccount` as operators |
| `StateStore` | `BlockChain`, reset, journal and cache together under `commit_block` | `CommitState`, `PruneEra`, `WritePruned`, `PruneEnds`, `PruneSpins`, `StoreFlush`, `StoreCrash`, `Killed`, `StoreRestart`, `ResetChain` |
| `VerificationQueue` | the queue, one action per critical section | the sender (`Refused`, `CreateFails`, `Created`, `Register`, `Push`), each verifier (`CheckState`, `Enter`, `Woken`, `Take`, `VerifiedOk`, `VerifiedBad`, `SetSync`), `Flush`, `ScaleVerifiers`, drop in three steps |
| `BlockImport` | the client around it | `ImportBlock`, `Begin`, `Enact`, `MarkBad`, `MarkGood`, `Message`, `FlushQueue`, `FlushLoop` |
| `ExtrasCache` | one cached column | `PrepareUpdate`, `WriteBuffered`, `Commit`, `CollectGarbage`; `LookUp`, `ReadStore`, `FillCache` per reader |
| `TransactionQueue` | the queue, one action per critical section | `Check`, `PoolImport`, `RemoveReplaced`, `RecordNullifiers`, `FinishImport`, `RemoveCall`, `ClearCached`, `Pending...`, `ChainMoves`, `Cull` |
| `SmallTree`, `MC...` | instances for TLC | |
| `...Proofs` | theorems, checked by TLAPS | |

A database state is a record `Store` with one field per column; a missing entry
is `NoBlock` or `NoTransaction`. One operator per `prepare_*` function computes
the new column, and `InsertBlock` puts them together. `commit_block` runs under
the import lock, so it is one action, except where another thread can see the
intermediate state: the cache (`ExtrasCache`) and the engine's rewards
(`RefreshEngine`), the overlay while an era is pruned (`PruneEra`,
`WritePruned`), and the wallet, whose lock is given back between the scan and
the update of an insertion (`late` keys). A panic ends the process
(`parity/main.rs`), so it is an action that loses what was not flushed.
Definitions whose name says what is wrong with them
(`HashBelowOffByOne`, `PrepareRewardsKeepRetracted`, `FinishKeepsCached`...)
are mutated forms of the definition that follows them. No specification uses
them; they serve to show that the properties can fail.

### Abstractions and assumptions

* A hash stands for its block. Roots of commitment trees are identified with
  the sequence of commitments, so hashing is collision free.
* `ValidityAssumption`: no chain holds a transaction twice, or two transactions
  with a common nullifier. It is the precondition `insert_block` documents
  ("expects the block to be valid and already verified"); this project neither
  models nor proves the verification that has to establish it.
* `Ancestry` is a constant that satisfies its own unfolding, which is what
  `ancestry_iter` computes. The proofs then need no induction over numbers.
* The key-value store is external: `write_buffered` is visible at once,
  `flush` is atomic, a dead process loses what was not flushed.
* `AncestryActions` over-approximates the engines: any set of ancestors an
  engine could finalize. The rolling window itself is not modelled.
* Transaction queue: one priority for all transactions, no account nonces,
  anchors are registered, the conflict check is one step, `cull` is one chunk.
* Rewards: small amounts with the code's divisions and rounding; `Gwei` is 32.
* Wallet: a note is an output of a transaction at a position of the commitment
  tree, and its nullifier is a function of both, as in the code. Witnesses are
  kept only as positions. Trial decryption succeeds exactly for the recipient.
* Verification: whether a check fails is a nondeterministic choice, except that
  a block of the chain passes again. One thread sends blocks. A `notify_all`
  after the release of a lock belongs to the release. Sizes are counted in
  blocks and wrap at `Word`.
* State: a trie is a root and one leaf per account, known by their content, so
  blocks share nodes. `needs_pruning` depends on memory use and is a
  nondeterministic choice. The account cache has no size limit.
* `StatesReadable` speaks of blocks whose ancestors include every block marked
  canonical (`base`). After a switch to a shorter and heavier branch the number
  index still names a retracted block above it; when the branches differ in
  height by more than the history, pruning could mark that block canonical.

## 3. Runs

| Run | States | What it shows |
|---|---|---|
| `chain` | 74,952 | Every order of commits, flushes, crashes and restarts on a tree with three branches, with an engine that finalizes any run of ancestors: the indexes are those of the canonical chain, in memory and on disk, the best block is heaviest until one is finalized, no commit abandons a finalized block that has a canonical child, logs are found unless a crash took commits back, and `CanonicalLedger` is implemented |
| `tree_route` | 202,353 | For every pair of blocks, set of known blocks and set of finalized blocks: the walk ends, finds the route `BlockTree` defines, and returns `None` exactly when a block of it is unknown |
| `node` | 86,318 | Chain, rewards and wallet through reorganisations across eras, new keys, crashes, restarts, panics and resets: the rewards follow the chain and stay within the supply, the engine has the same eras between commits, the number index and the bodies of the canonical chain are right, and the wallet's notes, positions, marks and indexes are those the chain gives it, for keys a scan has looked for |
| `extras_cache` | 103,716 | Two readers, an importer and the garbage collector: only a late reader leaves a wrong entry |
| `queue` | 160,634 | One caller: the nullifier map is right between calls, every call returns, no deadlock |
| `queue_threads` | 680,286 | Two callers, pool of one: the cached pending set never misses or invents a transaction while the chain stands still |
| `block_import` | 146,525 | Sender, two verifiers, io thread, `flush_queue`, scaling and drop: no signal and no wake-up is lost, blocks leave in the order they came, only blocks with a failure in their ancestry are bad, no child of a bad block is enacted, sizes match the queues; every queued block is settled, flush returns and drop joins the verifiers |
| `state_store` | 149,110 | Two branches that share trie nodes and a root, pruning in its own batches, crashes between them, restarts and resets: every state above the pruned eras can be read, the overlay is what a restart would read, the cache gives out no account of another branch, the best root is kept |
| `node_restart` | violated | With the last block of an era as best block the stored eras make the next start panic. `db reset` opens the database in the same way, so it cannot repair it; a reset that lands on the last block of an era leads there too |
| `wallet_assert` | violated | A key that no scan has handled is used by a reload; the next scan finds the same notes and an assertion fails |
| `queue_locks` | violated | `remove` and `pending` take the pool and cache locks in opposite orders and can wait for each other for ever |
| `import_empty` | violated | A block that fails in a verifier stays in `processing`, so `mark_as_good` does not report an empty queue |

`StatesReadable` answers the comment in `commit_block`, "I *think* this is fine,
even if the state_root is equal to another already-imported block of the same
number" (`ethcore/src/client/client.rs`): in the instance a3 and c3 are such blocks.

Bounds. The tree of `SmallTree` holds the cases the indexes tell apart: a
transaction on both sides of a fork, a nullifier revealed by different
transactions on different branches, a root shared by two branches, and a
shorter and heavier branch. `MCChainNode` adds an output at different positions
on two branches, notes spent and unspent by a reorganisation, a branch that
crosses an era, and one that leaves the trunk where a reset cuts it; the supply
is chosen so that one era is added and the next is not worth adding. `MaxReset`
3 reaches genesis from best blocks up to number 2. `MaxUpdates` 2 lets a
second batch meet a reader that started before the first. The transaction queue
has three transactions with two nullifiers for one caller, and two transactions
for two callers, where threads are symmetric. `MCBlockImport` has two verifiers,
the least that can overtake each other and be scaled down, a block and its
child, and `MaxRound` 1, so that each batch leaves one behind and the signal is
needed again. `MCStateStore` has `History` 1, so that three eras are enough to
prune while a branch is pending, two copies of a block (`MaxRecords`), and
`StateCacheBlocks` 2, so that the cache forgets blocks. The views of `MCStateStore` and `MCChainNode`
leave out `lost` and `blooms`, which nothing they check reads. `MaxEra` is the
code's 50, so that cap is not reached.

Fairness. `TreeRoute` is a loop of one thread: weak fairness of its step.
`TransactionQueue` assumes that a thread inside a call keeps running when it
can (`WF_vars(Continue(i))`); nothing is assumed about new calls, the chain or
the cull. `BlockImport` assumes the same of the verifiers, the io thread
and the thread that has called import, `flush_queue` or drop; nothing is
assumed about who calls them or scales the pool. Its `Fairness` is weak fairness
of `Runs(t)` with the enabling condition written out as `Ready(t)`, which is
cheaper for TLC; `ReadyIsEnabled`, stated in the module, says that the two agree
and holds on this instance. `FlushReturns` excuses
behaviours in which the pool was scaled: a verifier that was put to sleep may
be the one that should have reported the empty queue.
Deadlock is not checked in `tree_route` and `block_import`, which end (after
drop), nor in `queue_threads` and `queue_locks`, where two callers really can
block each other.

### Other disagreements met while modelling

These properties are stated in the modules and TLC refutes them. Replace the
properties of the named configuration by the one given to see the behaviour.

| Property | Configuration | What happens |
|---|---|---|
| `IsCanonMeansCanonical` | `MCBlockChain.cfg` | after a switch to a shorter, heavier branch `is_canon` holds for a retracted block |
| `EnactedRootsRegistered` | `MCBlockChain.cfg` | a reorganisation loses the commitment root of an enacted block |
| `LogsFound` | `MCBlockChain.cfg` | blooms of a reorganisation lost in a crash stay on disk and hide logs of the old chain |
| `FinalizedIsMarked` (PROPERTY) | `MCBlockChain.cfg` | the mark on the parent is overwritten by the insertion of its child |
| `FlagAsDocumented` | `MCTreeRoute.cfg` | the flag covers the ancestor and not `from` |
| `RouteBodiesStored`, `ResetRemovesBlocks` (PROPERTY) | `MCChainNode.cfg` | a reset leaves details and index entries behind and makes a later insertion panic |
| `ErasDeletable` | `MCChainNode.cfg` | an era that was never added is deleted |
| `BranchesPayTheirRewards` | `MCChainNode.cfg` with eras of 3 blocks, rate 50, supply 40000, `MaxReset` 0 | a branch with its own reward history is closed with the canonical base reward; as the file stands, a branch that a reset left above an era boundary is closed with none |
| `MarkedNotesSpent`, `SpentNotesStayMarked` | `MCChainNode.cfg` | a mark outlives the retraction of the spend, or is lost by a reload |
| `CacheCoherent` | `MCExtrasCache.cfg` | a late reader fills the cache with an old value |
| `BestRootValid` | `MCStateStore.cfg` | two resets in a row go below the pruned eras: each is compared with the history only |
| `PruneReturns` | `MCStateStore.cfg` | after two resets and a start, `prune_ancient` asks for ever for an era that has no canonical hash |
| `PoolWithoutConflicts` | `MCTransactionQueueThreads.cfg` with `MaxCount` 2 | overlapping imports pool two spends of one note |
| `ImportedIsPooled` (PROPERTY), `PendingIsReady` | `MCTransactionQueue.cfg` | a re-imported transaction replaces itself; a cached set survives a switch to a block of equal number |

## 4. Proofs

All theorems hold for every block tree, set of transactions, pool size, number
of readers and verifiers, and pruning history that satisfies the named assumptions of the modules.

* `BlockChainProofs`. The inductive invariant is `StoreInv` of both `db` and
  `disk`. No index is inductive alone: the new number, transaction and
  nullifier entries are computed from the tree route, so each needs that the
  stored blocks form a tree (`StoreIsTree`), that chains are closed and have
  one block per number (`ChainsStored`), and that the old index was right.
  One lemma per column says that `InsertBlock` preserves it
  (`InsertPreserves` collects them); crash and restart copy a store that has
  the invariant. From it follow all invariants of run `chain` and, as an
  action property, `FinalizedParentsStay`. `BestAlwaysHeaviest` and
  `LogsAlwaysFoundWithoutLoss` add an invariant of their own.
* `ChainLedgerProofs`. `LedgerImplemented`: every step of `BlockChain` is a
  step of `CanonicalLedger` or leaves it unchanged.
* `ExtrasCacheProofs`. Type correctness, and `StragglersOnly` with the
  strengthening that a written batch is in the store until it is committed.
* `TransactionQueueProofs`. `SequentialCallsRecordNullifiers`: when calls do
  not overlap, the nullifier map is right between calls. `QueueInv` follows an
  import: only the imported transaction may be unrecorded, and once the
  replaced ones are gone no other pooled transaction is named for its
  nullifiers. Without the assumption the property fails (see above).

* `BlockImportProofs`. `SignalTheorem`: verified blocks never wait without a
  signal, and a signal never without a thread or a message that answers it.
  `WakeupTheorem`: a verifier that waits or sleeps has nothing to do. Both need
  to know at which step of its loop each thread is, and that the blocks being
  verified are those the verifiers hold.
* `StateStoreProofs`. `ReconstructTheorem`: the overlay is what `read_overlay`
  makes of the journal. A restart reads the journal downwards from the latest
  era and stops at the first gap, so the invariant `StoreInv` adds that the
  eras of the journal are an unbroken interval ending at the latest one, that
  no stored block is above it, and that between `mark_canonical` and the write
  of its batch the overlay is ahead by exactly the era of that batch.

The type invariants of `BlockChain`, `ExtrasCache` and `TransactionQueue` are
proved (the last as a part of `QueueInv`, for one caller at a time) and not checked
by a run; that of `BlockImport` is checked.

Only model-checked: `Terminates`, `CallsReturn`, `QueuedIsSettled`,
`FlushReturns` and `VerifiersExit` (liveness); `TreeRoute`, `ChainNode` with
rewards, wallet and reset, `StatesReadable`, the account cache, the order and
sizes of the verification queue, and `CachedPendingComplete`. Rewards and
wallet are folds over the blocks of a route, and the overlay of a state is a
fold over its journal; their general proofs need an induction over data.

## 5. Plan

1. `RollingFinality` as an instance of `AncestryActions`; the sealing queue
   with the miner's steps between commit and the refresh of the engine.
2. `insert_unordered_block` (ancient blocks, snapshots) as a second end of the
   chain; the block downloader in front of `BlockImport`.
3. Proofs: `KeepsOrder` and `OnlyFailuresAreBad`, `EngineKnowsEras`,
   `CachedPendingComplete`, the reset's invariants.

## 6. Not modelled

The cryptography of `ct-lib`, Equihash, the EVM and WASM interpreters (algebra
and sequential semantics), networking, light client, secret store, RPC,
accounts, updater and tools (I/O, encodings, separate services). They are most
of the repository: the modules cover the chain core, a small part of its lines.

Inside the modelled parts:

* block database: ancient blocks, epoch transitions, receipts;
* verification queue: `total_difficulty`, the limits `queue_info` reports,
  `clear` while the queue is in use (`client.disable`), blocks the miner seals
  itself (`import_sealed_block`), and the checks on a block's content;
* state database: account bloom, code cache, cache limits, `inject` and
  `consolidate`, and the journal databases other than the default one;
* wallet: spending, and what happens when other threads use a wallet in which
  an insertion has panicked. An address added between the scan and the update
  of an insertion is counted as handled but never scanned; the properties
  exclude it (`missed`). After a reload the position of a note may be wrong
  when a transaction before it in its block has several outputs, and
  `PositionsMatchChain` excludes just that;
* transaction queue: account nonces, local transactions, `penalize`, `clear`.
