----------------------------- MODULE BlockChain -----------------------------
(***************************************************************************)
(* The chain database of a full node: what Importer::commit_block and      *)
(* BlockChain::insert_block write when a verified block arrives, and what  *)
(* survives when the process dies.                                         *)
(*                                                                         *)
(* A store is the content of the key-value columns.  `db` is the store as  *)
(* the running process sees it: the RocksDB files under the overlay that   *)
(* write_buffered fills.  `disk` is the store without the overlay; flush   *)
(* moves the overlay down in one batch, a crash drops it.  The bloom files *)
(* are written in place by insert_blooms and flushed at once, outside of   *)
(* the batch, so they are a variable of their own that a crash leaves as   *)
(* it is.                                                                  *)
(*                                                                         *)
(* commit_block holds import_lock from the tree route to BlockChain.commit,*)
(* and takes the pending_* maps into the caches before it releases it; the *)
(* action CommitBlock is one such critical section.  ExtrasCache.tla looks *)
(* at readers that do not take the lock.                                   *)
(***************************************************************************)
EXTENDS BlockTree

CONSTANT
    Finality    \* TRUE for an engine whose ancestry_actions finalize blocks

VARIABLES
    db,         \* the store the process reads and writes
    disk,       \* the store a restart reads back
    blooms,     \* bottom level of the bloom files, by block number
    status,     \* "running", "down" after a crash, "panicked" after a panic
    lost        \* history: some commit has been lost by a crash

chainVars == <<db, disk, blooms, status, lost>>

Store ==
    [best      : Blocks \cup {NoBlock},             \* COL_EXTRA "best"
     bodies    : SUBSET Blocks,                     \* COL_HEADERS, COL_BODIES
     details   : SUBSET Blocks,                     \* has BlockDetails
     children  : [Blocks -> SUBSET Blocks],
     total     : [Blocks -> Nat],                   \* total_difficulty
     finalized : SUBSET Blocks,                     \* is_finalized
     hashes    : [Heights -> Blocks \cup {NoBlock}],
     addresses : [Transactions -> Blocks \cup {NoBlock}],
     nullifiers: [Nullifiers -> Transactions \cup {NoTransaction}],
     sers      : [Blocks -> Roots],                 \* for the blocks of details
     roots     : [Roots -> Blocks \cup {NoBlock}]]

(***************************************************************************)
(* BlockChain::new on an empty database.                                   *)
(***************************************************************************)
GenesisStore ==
    [best       |-> Genesis,
     bodies     |-> {Genesis},
     details    |-> {Genesis},
     children   |-> [b \in Blocks |-> {}],
     total      |-> [b \in Blocks |-> IF b = Genesis THEN Difficulty[b] ELSE 0],
     finalized  |-> {},
     hashes     |-> [n \in Heights |-> IF n = Number[Genesis] THEN Genesis ELSE NoBlock],
     addresses  |-> [t \in Transactions |-> NoBlock],
     nullifiers |-> [n \in Nullifiers |-> NoTransaction],
     sers       |-> [b \in Blocks |-> TreeOf[Genesis]],
     roots      |-> [r \in Roots |-> IF r = TreeOf[Genesis] THEN Genesis ELSE NoBlock]]

Init ==
    /\ db = GenesisStore
    /\ disk = GenesisStore
    /\ blooms = [n \in Heights |-> {}]
    /\ status = "running"
    /\ lost = FALSE

-----------------------------------------------------------------------------
ForkChoiceByLength(s, b) ==
    /\ ~IsFromRouteFinalized(s.best, Parent[b], s.finalized)
    /\ Number[b] > Number[s.best]

ForkChoiceIgnoresFinality(s, b) ==
    s.total[Parent[b]] + Difficulty[b] > s.total[s.best]

(***************************************************************************)
(* Where a new block goes.  total_difficulty_fork_choice takes the heavier *)
(* chain and keeps the old one on a tie; a route that is flagged finalized *)
(* is never left.                                                          *)
(***************************************************************************)
ForkChoiceNew(s, b) ==
    /\ ~IsFromRouteFinalized(s.best, Parent[b], s.finalized)
    /\ s.total[Parent[b]] + Difficulty[b] > s.total[s.best]

BlockLocation(s, b) ==
    IF ~ForkChoiceNew(s, b) THEN "Branch"
    ELSE IF Parent[b] = s.best THEN "CanonChain"
    ELSE "BranchBecomingCanonChain"

(***************************************************************************)
(* The blocks an insertion takes off the canonical chain and puts on it,   *)
(* the new block not included: both empty unless it is a reorganisation.   *)
(***************************************************************************)
RetractedBy(s, b) ==
    IF BlockLocation(s, b) = "BranchBecomingCanonChain"
    THEN Retracted(s.best, Parent[b]) ELSE {}

EnactedBy(s, b) ==
    IF BlockLocation(s, b) = "BranchBecomingCanonChain"
    THEN Enacted(s.best, Parent[b]) ELSE {}

-----------------------------------------------------------------------------
PrepareOwnHashOnly(s, b) ==
    IF BlockLocation(s, b) = "Branch" THEN s.hashes ELSE [s.hashes EXCEPT ![Number[b]] = b]

(***************************************************************************)
(* The prepare_*_update functions: one column after the insertion of b.    *)
(***************************************************************************)
PrepareBlockHashesUpdate(s, b) ==
    LET ena == EnactedBy(s, b)
    IN  [n \in Heights |->
            IF BlockLocation(s, b) = "Branch" THEN s.hashes[n]
            ELSE IF n = Number[b] THEN b
            ELSE IF \E x \in ena : Number[x] = n
                 THEN CHOOSE x \in ena : Number[x] = n
            ELSE s.hashes[n]]

PrepareAddressesRetractedLast(s, b) ==
    LET ret == RetractedBy(s, b)
        ena == EnactedBy(s, b) \cup {b}
    IN  [t \in Transactions |->
            IF BlockLocation(s, b) = "Branch" THEN s.addresses[t]
            ELSE IF \E x \in ret : t \in Txs[x] THEN NoBlock
            ELSE IF \E x \in ena : t \in Txs[x] THEN CHOOSE x \in ena : t \in Txs[x]
            ELSE s.addresses[t]]

(***************************************************************************)
(* Retracted first, then enacted, then the new block: the last one wins.   *)
(***************************************************************************)
PrepareTransactionAddressesUpdate(s, b) ==
    LET ret == RetractedBy(s, b)
        ena == EnactedBy(s, b)
    IN  [t \in Transactions |->
            IF BlockLocation(s, b) = "Branch" THEN s.addresses[t]
            ELSE IF t \in Txs[b] THEN b
            ELSE IF \E x \in ena : t \in Txs[x]
                 THEN CHOOSE x \in ena : t \in Txs[x]
            ELSE IF \E x \in ret : t \in Txs[x] THEN NoBlock
            ELSE s.addresses[t]]

(***************************************************************************)
(* The private transactions of some blocks that reveal a nullifier.        *)
(***************************************************************************)
Revealing(n, blocks) ==
    {t \in UNION {Txs[x] : x \in blocks} : n \in NullifierSet[t]}

PrepareNullifiersKeepRetracted(s, b) ==
    LET new == EnactedBy(s, b) \cup {b}
    IN  [n \in Nullifiers |->
            IF BlockLocation(s, b) # "Branch" /\ Revealing(n, new) # {}
            THEN CHOOSE t \in Revealing(n, new) : TRUE ELSE s.nullifiers[n]]

PrepareTransactionNullifiersUpdate(s, b) ==
    LET ret == RetractedBy(s, b)
        ena == EnactedBy(s, b)
    IN  [n \in Nullifiers |->
            IF BlockLocation(s, b) = "Branch" THEN s.nullifiers[n]
            ELSE IF Revealing(n, {b}) # {} THEN CHOOSE t \in Revealing(n, {b}) : TRUE
            ELSE IF Revealing(n, ena) # {} THEN CHOOSE t \in Revealing(n, ena) : TRUE
            ELSE IF Revealing(n, ret) # {} THEN NoTransaction
            ELSE s.nullifiers[n]]

(***************************************************************************)
(* update_commitment_tree_with_txs on the stored tree of the parent.  The  *)
(* parent of an inserted block always has one: BlockChain::new stores it   *)
(* for genesis and every insertion for its block.                          *)
(***************************************************************************)
CommitmentTree(s, b) == s.sers[Parent[b]] \o Outputs[b]

PrepareRootsKeepRetracted(s, b) ==
    IF BlockLocation(s, b) = "Branch" THEN s.roots ELSE [s.roots EXCEPT ![CommitmentTree(s, b)] = b]

(***************************************************************************)
(* For every enacted block the code inserts the root of the tree of the    *)
(* new block's parent, under the hash of the new block.                    *)
(***************************************************************************)
PrepareCommitmentRootBlocksUpdate(s, b) ==
    [r \in Roots |->
        IF BlockLocation(s, b) = "Branch" THEN s.roots[r]
        ELSE IF r = CommitmentTree(s, b) THEN b
        ELSE IF EnactedBy(s, b) # {} /\ r = s.sers[Parent[b]] THEN b
        ELSE IF \E x \in RetractedBy(s, b) : r = s.sers[x] THEN NoBlock
        ELSE s.roots[r]]

PrepareBlockCommitmentSersUpdate(s, b) ==
    [s.sers EXCEPT ![b] = CommitmentTree(s, b)]

PrepareOwnBloomOnly(s, b) ==
    IF BlockLocation(s, b) = "Branch" \/ LogBloom[b] = {} THEN blooms
    ELSE [blooms EXCEPT ![Number[b]] = LogBloom[b]]

(***************************************************************************)
(* A canonical extension with an empty bloom writes nothing; a             *)
(* reorganisation rewrites every number above the common ancestor.         *)
(***************************************************************************)
PrepareBlockBloomsUpdate(s, b) ==
    LET ena == EnactedBy(s, b)
    IN  [n \in Heights |->
            CASE BlockLocation(s, b) = "Branch" -> blooms[n]
              [] BlockLocation(s, b) = "CanonChain" ->
                    IF n = Number[b] /\ LogBloom[b] # {} THEN LogBloom[b] ELSE blooms[n]
              [] OTHER ->
                    IF n = Number[b] THEN LogBloom[b]
                    ELSE IF \E x \in ena : Number[x] = n
                         THEN LogBloom[CHOOSE x \in ena : Number[x] = n]
                    ELSE blooms[n]]

(***************************************************************************)
(* The new details of the parent are made from its stored details, not     *)
(* from the pending ones, so they replace a mark that mark_finalized has   *)
(* just put on it.                                                         *)
(***************************************************************************)
MarkFinalized(s, fin) == s.finalized \cup fin

PrepareFinalized(s, b, fin) == s.finalized \cup (fin \ {Parent[b]})

PrepareChildrenNotParent(s, b) == [s.children EXCEPT ![b] = {}]

PrepareChildren(s, b) ==
    [x \in Blocks |-> IF x = b THEN {}
                     ELSE IF x = Parent[b] THEN s.children[x] \cup {b}
                     ELSE s.children[x]]

(***************************************************************************)
(* insert_block_with_route, prepare_update and commit for an unknown block.*)
(***************************************************************************)
InsertBlock(s, b, fin) ==
    [best       |-> IF BlockLocation(s, b) = "Branch" THEN s.best ELSE b,
     bodies     |-> s.bodies \cup {b},
     details    |-> s.details \cup {b},
     children   |-> PrepareChildren(s, b),
     total      |-> [s.total EXCEPT ![b] = s.total[Parent[b]] + Difficulty[b]],
     finalized  |-> PrepareFinalized(s, b, fin),
     hashes     |-> PrepareBlockHashesUpdate(s, b),
     addresses  |-> PrepareTransactionAddressesUpdate(s, b),
     nullifiers |-> PrepareTransactionNullifiersUpdate(s, b),
     sers       |-> PrepareBlockCommitmentSersUpdate(s, b),
     roots      |-> PrepareCommitmentRootBlocksUpdate(s, b)]

IsKnownChild(s, b) == b \in s.children[Parent[b]]

-----------------------------------------------------------------------------
(***************************************************************************)
(* What the engine's ancestry_actions may answer for a block: nothing, or  *)
(* a run of consecutive blocks above the last finalized block of its       *)
(* ancestry.  The rolling finality of AuthorityRound pops such runs; with  *)
(* one validator they reach the block itself.                              *)
(***************************************************************************)
AncestryActions(s, b) ==
    {run \in {Ancestry[x] \ Ancestry[y] : x, y \in Ancestry[b]} :
        run # {} => /\ Finality
                    /\ \A x \in Ancestry[b], y \in run : x \in s.finalized => Number[x] < Number[y]}

RouteBodiesOfRetracted(s, b) == RetractedBy(s, b)

(***************************************************************************)
(* The bodies the prepare functions load with expect("Enacted block must   *)
(* be in database.") and expect("Retracted block must be in database.").   *)
(***************************************************************************)
RouteBodies(s, b) == RetractedBy(s, b) \cup EnactedBy(s, b)

ImportableUnchecked(b) ==
    status = "running" /\ b # Genesis

(***************************************************************************)
(* check_and_lock_block looks the parent's header up; a block may arrive   *)
(* twice (sealed here and received from a peer), which insert_block_with_  *)
(* route notices by the parent's children.  Client::import_block refuses a *)
(* block whose details are stored, so one without its body stays out.      *)
(***************************************************************************)
Importable(b) ==
    /\ status = "running"
    /\ b # Genesis
    /\ Parent[b] \in db.bodies
    /\ b \in db.details => b \in db.bodies

CommitBlock(b, fin) ==
    /\ Importable(b)
    /\ fin \in AncestryActions(db, b)
    /\ IF IsKnownChild(db, b)
       THEN /\ db' = [db EXCEPT !.finalized = MarkFinalized(db, fin \ {b})]
            /\ UNCHANGED blooms
       ELSE /\ RouteBodies(db, b) \subseteq db.bodies
            /\ db' = InsertBlock(db, b, fin)
            /\ blooms' = PrepareBlockBloomsUpdate(db, b)
    /\ UNCHANGED <<disk, status, lost>>

(***************************************************************************)
(* import_verified_blocks and import_sealed_block end with a flush, after  *)
(* the miner and the listeners have been told of the new blocks.           *)
(***************************************************************************)
Flush ==
    /\ status = "running"
    /\ disk' = db
    /\ UNCHANGED <<db, blooms, status, lost>>

(***************************************************************************)
(* The process dies between two critical sections or in one: the batch of  *)
(* an unfinished commit_block is dropped with the overlay.                 *)
(***************************************************************************)
Crash ==
    /\ status = "running"
    /\ status' = "down"
    /\ db' = disk
    /\ lost' = (lost \/ db # disk)
    /\ UNCHANGED <<disk, blooms>>

(***************************************************************************)
(* BlockChain::new on an existing database: the best block's details and   *)
(* the block itself must be found.                                         *)
(***************************************************************************)
Restart ==
    /\ status # "running"
    /\ db.best \in db.details \cap db.bodies
    /\ status' = "running"
    /\ UNCHANGED <<db, disk, blooms, lost>>

Next ==
    \/ \E b \in Blocks \ {Genesis} : \E fin \in AncestryActions(db, b) : CommitBlock(b, fin)
    \/ Flush
    \/ Crash
    \/ Restart

Spec == Init /\ [][Next]_chainVars

-----------------------------------------------------------------------------
(***************************************************************************)
(* Properties.  Those of a store hold of what the process reads and of     *)
(* what a restart would read.                                              *)
(***************************************************************************)
Canon(s) == Ancestry[s.best]

(***************************************************************************)
(* Type invariant of the chain database.                                   *)
(***************************************************************************)
TypeOK ==
    /\ db \in Store
    /\ disk \in Store
    /\ blooms \in [Heights -> SUBSET Topics]
    /\ status \in {"running", "down", "panicked"}
    /\ lost \in BOOLEAN

(***************************************************************************)
(* The stored blocks form one tree rooted in genesis: parents of stored    *)
(* blocks are stored and list them as children, and the total difficulty   *)
(* accumulates.  block_info, tree_route and is_known_child rely on it.     *)
(***************************************************************************)
StoreIsTree(s) ==
    /\ s.best \in s.details
    /\ Genesis \in s.details
    /\ s.bodies = s.details
    /\ \A b \in s.details \ {Genesis} :
          /\ Parent[b] \in s.details
          /\ b \in s.children[Parent[b]]
          /\ s.total[b] = s.total[Parent[b]] + Difficulty[b]
    /\ \A b \in s.details : s.children[b] \subseteq {c \in s.details : c # Genesis /\ Parent[c] = b}

(***************************************************************************)
(* What ancestry_iter lists for a stored block is stored, has one block    *)
(* per number, the block itself on top, and contains the ancestry of each  *)
(* of its blocks.                                                          *)
(***************************************************************************)
ChainsStored(s) ==
    \A x \in s.details :
       /\ {x, Genesis} \subseteq Ancestry[x]
       /\ Ancestry[x] \subseteq s.details
       /\ \A y \in Ancestry[x] : Number[y] <= Number[x] /\ Ancestry[y] \subseteq Ancestry[x]
       /\ \A y, z \in Ancestry[x] : Number[y] = Number[z] => y = z
       /\ \A y \in Ancestry[x] \ {x} : \E z \in Ancestry[x] \ {Genesis} : Parent[z] = y

TreeStored == \A s \in {db, disk} : StoreIsTree(s) /\ ChainsStored(s)

(***************************************************************************)
(* block_hash(n) is the canonical block of number n, for every number up   *)
(* to the best block's, whatever reorganisations and crashes came before   *)
(* (prepare_block_hashes_update).                                          *)
(***************************************************************************)
NumbersIndexed(s) == \A x \in Canon(s) : s.hashes[Number[x]] = x

CanonicalNumbers == NumbersIndexed(db) /\ NumbersIndexed(disk)

(***************************************************************************)
(* transaction_address(t) names the canonical block that holds t, and is   *)
(* None when no canonical block does: a transaction that is in retracted   *)
(* and enacted blocks stays indexed, one that is only in retracted blocks  *)
(* does not (prepare_transaction_addresses_update).                        *)
(***************************************************************************)
TransactionsIndexed(s) ==
    \A t \in Transactions :
       /\ s.addresses[t] # NoBlock =>
             s.addresses[t] \in Canon(s) /\ t \in Txs[s.addresses[t]]
       /\ \A x \in Canon(s) : t \in Txs[x] => s.addresses[t] = x

CanonicalTransactions == TransactionsIndexed(db) /\ TransactionsIndexed(disk)

(***************************************************************************)
(* nullifier_transaction(n) is the canonical transaction that spends n,    *)
(* and None for an unspent one, so that a note spent only on an abandoned  *)
(* branch can be spent again and no other can                              *)
(* (prepare_transaction_nullifiers_update).                                *)
(***************************************************************************)
NullifiersIndexed(s) ==
    \A n \in Nullifiers :
       /\ s.nullifiers[n] # NoTransaction => s.nullifiers[n] \in Revealing(n, Canon(s))
       /\ \A t \in Revealing(n, Canon(s)) : s.nullifiers[n] = t

CanonicalNullifiers == NullifiersIndexed(db) /\ NullifiersIndexed(disk)

(***************************************************************************)
(* The commitment tree stored for a block is the one made of all outputs   *)
(* from genesis to the block, on every branch                              *)
(* (prepare_block_commitment_sers_update), and the root of the best        *)
(* block's tree is an anchor a new transaction may use; a root that is     *)
(* registered belongs to a canonical block                                 *)
(* (prepare_commitment_root_blocks_update).                                *)
(***************************************************************************)
AnchorsIndexed(s) ==
    /\ \A x \in s.details : s.sers[x] = TreeOf[x]
    /\ s.roots[TreeOf[s.best]] # NoBlock
    /\ \A r \in Roots : s.roots[r] # NoBlock => \E x \in Canon(s) : TreeOf[x] = r

CanonicalAnchors == AnchorsIndexed(db) /\ AnchorsIndexed(disk)

(***************************************************************************)
(* Until a block is finalized the best block is a heaviest stored block:   *)
(* no order of arrival leaves the node on a lighter chain                  *)
(* (total_difficulty_fork_choice with the early return for known           *)
(* children).                                                              *)
(***************************************************************************)
HeaviestChain(s) == \A x \in s.details : s.total[x] <= s.total[s.best]

BestIsHeaviest == \A s \in {db, disk} : s.finalized = {} => HeaviestChain(s)

(***************************************************************************)
(* Every body that an insertion loads is in the database: the expect       *)
(* calls of the prepare functions cannot fail.                             *)
(***************************************************************************)
RouteBodiesStored ==
    \A b \in Blocks : Importable(b) /\ ~IsKnownChild(db, b) => RouteBodies(db, b) \subseteq db.bodies

(***************************************************************************)
(* blocks_with_bloom finds every canonical block that logs a topic, as     *)
(* long as no crash has taken back a commit whose blooms were already on   *)
(* disk (prepare_block_blooms_update).                                     *)
(***************************************************************************)
LogsFound == \A x \in Canon(db) : LogBloom[x] \subseteq blooms[Number[x]]

LogsFoundWithoutLoss == ~lost => LogsFound

(***************************************************************************)
(* A finalized block with a canonical block on top of it is never          *)
(* retracted by a commit: commit_block turns the fork choice to Old when   *)
(* the route is flagged is_from_route_finalized.                           *)
(***************************************************************************)
FinalizedParentsStay ==
    [][status' = "running" =>
          (Canon(db) \ {db.best}) \cap db.finalized \subseteq Canon(db)']_chainVars

(***************************************************************************)
(* "Mark a block to be considered finalized": every block the engine       *)
(* finalizes with a commit is stored as finalized after it.                *)
(***************************************************************************)
FinalizedIsMarked ==
    [][\A b \in Blocks : \A fin \in AncestryActions(db, b) :
          CommitBlock(b, fin) => fin \subseteq db'.finalized]_chainVars

(***************************************************************************)
(* is_canon: "Returns true if the given block is known and in the canon    *)
(* chain."  The code compares the block with the hash stored for its       *)
(* number.                                                                 *)
(***************************************************************************)
IsCanon(b) == b \in db.details /\ db.hashes[Number[b]] = b

IsCanonMeansCanonical == \A b \in Blocks : IsCanon(b) => b \in Canon(db)

(***************************************************************************)
(* Every commitment root of a canonical block is registered: "Don't remove *)
(* commitment root if it was part of enacted blocks as well."              *)
(***************************************************************************)
EnactedRootsRegistered == \A x \in Canon(db) : db.roots[TreeOf[x]] # NoBlock
=============================================================================
