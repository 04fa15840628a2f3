--------------------------- MODULE ShieldedWallet ----------------------------
(***************************************************************************)
(* The wallet for shielded notes that BlockChain carries along: it         *)
(* decrypts the outputs of inserted blocks with its viewing keys, marks    *)
(* notes whose nullifier a block reveals, follows reorganisations, is      *)
(* scanned again when a key is imported, and is rebuilt at start from the  *)
(* transaction hashes that the last batch recorded.                        *)
(*                                                                         *)
(* A commitment is <<t, i>>, the i-th output of transaction t.  The        *)
(* nullifier of a note is a function of the note and of its position in    *)
(* the commitment tree, so it is <<t, i, position>>: the same output has   *)
(* different nullifiers on two branches where its position differs.        *)
(***************************************************************************)
EXTENDS BlockChain, BlockOrder

CONSTANTS
    Addresses,      \* payment addresses whose keys may be imported
    PrivateTxs,     \* localized_private_txs of a block, in body order
    Recipients      \* for each output of a transaction the address it pays

Commitments(t) == [i \in DOMAIN Recipients[t] |-> <<t, i>>]

ASSUME WalletAssumption ==
    /\ Recipients \in [Transactions -> Seq(Addresses \cup {"nobody"})]
    /\ \A b \in Blocks :
          /\ PrivateTxs[b] \in Seq(Txs[b])
          /\ IsInjective(PrivateTxs[b])
          /\ Outputs[b] = FlattenSeq([j \in DOMAIN PrivateTxs[b] |-> Commitments(PrivateTxs[b][j])])

VARIABLES
    wallet,         \* Wallet: nullifier_notes, tx_nullifiers, address_nullifiers
    keys,           \* the addresses of the key files, also on disk
    entry,          \* "wallet_txs" and "wallet_addresses" as the process reads them
    savedEntry,     \* the same entries on disk
    missed,         \* history: addresses that no scan has looked for
    restarted       \* history: the wallet has been reloaded

walletVars == <<wallet, keys, entry, savedEntry, missed, restarted>>

NullifierOf(n) == <<n.tx, n.index, n.position>>

EmptyWallet == [notes |-> {}, byTx |-> {}, byAddress |-> {}, failed |-> FALSE]

NoEntry == [txs |-> {}, addresses |-> {}]

WalletInit ==
    /\ wallet = EmptyWallet
    /\ keys = {}
    /\ entry = NoEntry /\ savedEntry = NoEntry
    /\ missed = {}
    /\ restarted = FALSE

(***************************************************************************)
(* pt_wallet_addresses is set from the value that commit_block puts into   *)
(* the batch, and loaded from it at start.                                 *)
(***************************************************************************)
Handled == entry.addresses

-----------------------------------------------------------------------------
MarkNoSpends(w, t) == w

MarkSpends(w, t) ==
    [w EXCEPT !.notes = {[n EXCEPT !.confirmed = @ \/ NullifierOf(n) \in NullifierSet[t]] : n \in @}]

(***************************************************************************)
(* receive_spling_notes_into_wallet.  p is the state of the loop of        *)
(* process_new_block over the transactions: the wallet and the number of   *)
(* leaves in the commitment tree, which is also what commitment_index      *)
(* counts.  A transaction that is filtered out returns after its first     *)
(* output, with the tree and the index advanced by one and its spends not  *)
(* looked at.  Two notes with one nullifier fail the assertion.            *)
(***************************************************************************)
ReceivePositionOffByOne(p, t, viewing, filter) ==
    LET found == {i \in DOMAIN Recipients[t] : Recipients[t][i] \in viewing}
        new == {[tx |-> t, index |-> i, address |-> Recipients[t][i],
                 position |-> p.leaves + i, confirmed |-> FALSE] : i \in found}
        w == p.wallet
    IN  [leaves |-> p.leaves + Len(Recipients[t]),
         wallet |-> MarkSpends([notes |-> w.notes \cup new,
                       byTx |-> w.byTx \cup {<<t, NullifierOf(n)>> : n \in new},
                       byAddress |-> w.byAddress \cup {<<n.address, NullifierOf(n)>> : n \in new},
                       failed |-> w.failed], t)]

ReceiveNotes(p, t, viewing, filter) ==
    LET found == {i \in DOMAIN Recipients[t] : Recipients[t][i] \in viewing}
        new == {[tx |-> t, index |-> i, address |-> Recipients[t][i],
                 position |-> p.leaves + i - 1, confirmed |-> FALSE] : i \in found}
        w == p.wallet
        clash == \E n \in new, m \in w.notes : NullifierOf(n) = NullifierOf(m)
    IN  IF t \notin filter /\ Recipients[t] # << >>
        THEN [p EXCEPT !.leaves = @ + 1]
        ELSE [leaves |-> p.leaves + Len(Recipients[t]),
              wallet |-> MarkSpends([notes |-> w.notes \cup new,
                            byTx |-> w.byTx \cup {<<t, NullifierOf(n)>> : n \in new},
                            byAddress |-> w.byAddress \cup {<<n.address, NullifierOf(n)>> : n \in new},
                            failed |-> w.failed \/ clash], t)]

(***************************************************************************)
(* process_new_block, with the stored tree of the parent.                  *)
(***************************************************************************)
ProcessNewBlock(s, w, b, viewing, filter) ==
    FoldLeft(LAMBDA p, t : ReceiveNotes(p, t, viewing, filter),
             [wallet |-> w, leaves |-> Len(s.sers[Parent[b]])], PrivateTxs[b]).wallet

SyncBlocks(s, w, blocks, viewing) ==
    FoldLeft(LAMBDA v, b : ProcessNewBlock(s, v, b, viewing, Transactions), w, Upwards(blocks))

(***************************************************************************)
(* remove_retracted_txs drops the notes that the transactions created and  *)
(* makes the two indexes again from the notes that are left.  Marks that   *)
(* the transactions put on other notes stay.                               *)
(***************************************************************************)
RemoveRetractedKeepsIndexes(w, txs) ==
    [w EXCEPT !.notes = {n \in @ : n.tx \notin txs}]

RemoveRetractedTxs(w, txs) ==
    LET gone == {link[2] : link \in {l \in w.byTx : l[1] \in txs}}
        kept == {n \in w.notes : NullifierOf(n) \notin gone}
    IN  [w EXCEPT !.notes = kept,
                  !.byTx = {<<n.tx, NullifierOf(n)>> : n \in kept},
                  !.byAddress = {<<n.address, NullifierOf(n)>> : n \in kept}]

PrepareWalletUpdate(s, w, b, viewing) ==
    LET retracted == UNION {ToSet(PrivateTxs[x]) : x \in RetractedBy(s, b)}
        back == IF BlockLocation(s, b) = "BranchBecomingCanonChain"
                THEN RemoveRetractedTxs(w, retracted) ELSE w
        forth == SyncBlocks(s, back, EnactedBy(s, b), viewing)
    IN  IF BlockLocation(s, b) = "Branch" THEN w
        ELSE ProcessNewBlock(s, forth, b, viewing, Transactions)

(***************************************************************************)
(* scan_for_new_imported_users_in_wallet, at the start of insert_block:    *)
(* the whole canonical chain again for the keys of new addresses, and for  *)
(* the spends of all notes.                                                *)
(***************************************************************************)
ScanNever(s, w) == w

ScanForNewUsers(s, w) ==
    IF keys \subseteq Handled THEN w
    ELSE SyncBlocks(s, w, Canon(s) \ {Genesis}, keys \ Handled)

(***************************************************************************)
(* reload_wallet_info: the recorded transactions, looked up in the index   *)
(* of the chain, block by block with a filter, for all keys.               *)
(***************************************************************************)
ReloadWalletInfo(s, e) ==
    LET found == {t \in e.txs : s.addresses[t] # NoBlock /\ s.addresses[t] \in s.bodies}
        blocks == {s.addresses[t] : t \in found}
    IN  FoldLeft(LAMBDA v, b : ProcessNewBlock(s, v, b, keys, {t \in found : s.addresses[t] = b}),
                 EmptyWallet, Upwards(blocks))

WalletData(w, addresses) == [txs |-> {link[1] : link \in w.byTx}, addresses |-> addresses]

-----------------------------------------------------------------------------
(***************************************************************************)
(* The part of the wallet in each step of the node.                        *)
(* create_new_private_address and add_address_from_seed write a key file.  *)
(***************************************************************************)
AddAddress(a) ==
    /\ a \notin keys
    /\ keys' = keys \cup {a}
    /\ UNCHANGED <<wallet, entry, savedEntry, missed, restarted>>

(***************************************************************************)
(* The scan and the update of one insertion take the wallet's lock one     *)
(* after the other, so keys (late) may be added in between.                *)
(***************************************************************************)
Updated(b, late) ==
    IF IsKnownChild(db, b) THEN ScanForNewUsers(db, wallet)
    ELSE PrepareWalletUpdate(db, ScanForNewUsers(db, wallet), b, keys \cup late)

InsertNotes(b, late) ==
    /\ wallet' = Updated(b, late)
    /\ keys' = keys \cup late
    /\ IF IsKnownChild(db, b)
       THEN UNCHANGED <<entry, missed>>
       ELSE /\ entry' = WalletData(wallet', keys')
            /\ missed' = missed \cup late
    /\ UNCHANGED <<savedEntry, restarted>>

FlushWallet ==
    /\ savedEntry' = entry
    /\ UNCHANGED <<wallet, keys, entry, missed, restarted>>

LoseWallet ==
    /\ entry' = savedEntry
    /\ wallet' = EmptyWallet
    /\ UNCHANGED <<keys, savedEntry, missed, restarted>>

LoadWallet ==
    /\ wallet' = ReloadWalletInfo(db, entry)
    /\ restarted' = TRUE
    /\ UNCHANGED <<keys, entry, savedEntry, missed>>

-----------------------------------------------------------------------------
(***************************************************************************)
(* The outputs a chain pays to some addresses, the position of an output   *)
(* in a block's tree, and what the chain has spent.                        *)
(***************************************************************************)
Paid(s, addresses) ==
    {<<t, i>> \in UNION {ToSet(Outputs[x]) : x \in Canon(s)} : Recipients[t][i] \in addresses}

PositionIn(x, c) == (CHOOSE k \in DOMAIN TreeOf[x] : TreeOf[x][k] = c) - 1

SpentOn(s) == UNION {NullifierSet[t] : t \in UNION {Txs[x] : x \in Canon(s)}}

(***************************************************************************)
(* tx_nullifiers and address_nullifiers list exactly the notes, whatever   *)
(* blocks came and went: get_filtered_notes finds every note of an         *)
(* address, and remove_retracted_txs every note of a transaction.          *)
(***************************************************************************)
WalletIndexed ==
    /\ wallet.byTx = {<<n.tx, NullifierOf(n)>> : n \in wallet.notes}
    /\ wallet.byAddress = {<<n.address, NullifierOf(n)>> : n \in wallet.notes}
    /\ \A n, m \in wallet.notes : NullifierOf(n) = NullifierOf(m) => n = m

(***************************************************************************)
(* While the node runs the wallet holds every output that the canonical    *)
(* chain pays to a handled address, and nothing that it does not pay to    *)
(* one of its keys: reorganisations, late imports of keys, crashes and     *)
(* reloads neither lose a note nor keep one of an abandoned branch.  Only  *)
(* an address added between the scan and the update of one insertion may   *)
(* miss its earlier notes.                                                 *)
(***************************************************************************)
NotesFollowChain ==
    status = "running" =>
       LET held == {<<n.tx, n.index>> : n \in wallet.notes}
       IN  Paid(db, Handled \ missed) \subseteq held /\ held \subseteq Paid(db, keys)

(***************************************************************************)
(* The position, and with it the nullifier, of a note is the one it has in *)
(* the chain, also when a reorganisation moved its transaction.  After a   *)
(* reload (filtered_tx_hashes) this is so where every transaction before   *)
(* it in its block has a single output.                                    *)
(***************************************************************************)
PositionsMatchChain ==
    \A n \in wallet.notes :
       LET x == db.addresses[n.tx]
           at(t) == CHOOSE j \in DOMAIN PrivateTxs[x] : PrivateTxs[x][j] = t
       IN  \/ n.position = PositionIn(x, <<n.tx, n.index>>)
           \/ restarted /\ \E j \in 1..(at(n.tx) - 1) : Len(Recipients[PrivateTxs[x][j]]) > 1

(***************************************************************************)
(* Until the wallet is reloaded, a note that the canonical chain has spent *)
(* is marked as confirmed, so it is neither counted in a balance nor       *)
(* chosen for a payment, whichever came first: the note, the spend or the  *)
(* key.                                                                    *)
(***************************************************************************)
SpentNotesMarked ==
    ~restarted => \A n \in wallet.notes : NullifierOf(n) \in SpentOn(db) => n.confirmed

(***************************************************************************)
(* The converse: a marked note is spent by the canonical chain.            *)
(***************************************************************************)
MarkedNotesSpent == \A n \in wallet.notes : n.confirmed => NullifierOf(n) \in SpentOn(db)

(***************************************************************************)
(* "Reload the wallet info when blockchain restarts": a reloaded wallet    *)
(* still knows which of its notes are spent.                               *)
(***************************************************************************)
SpentNotesStayMarked == \A n \in wallet.notes : NullifierOf(n) \in SpentOn(db) => n.confirmed

(***************************************************************************)
(* No insertion fails the assertion                                        *)
(* assert!(!self.nullifier_notes.contains_key(&nullifier)).                *)
(***************************************************************************)
NullifiersAreNew ==
    \A b \in Blocks : Importable(b) /\ RouteBodies(db, b) \subseteq db.bodies => ~Updated(b, {}).failed
=============================================================================
