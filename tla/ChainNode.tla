------------------------------ MODULE ChainNode ------------------------------
(***************************************************************************)
(* A node that keeps the chain, its rewards and the shielded wallet, and   *)
(* the command `db reset NUM` (Client::reset), which opens the database as *)
(* a node does, removes the NUM latest blocks and exits.  One insertion    *)
(* updates all three, in one batch; they are flushed and lost together.    *)
(*                                                                         *)
(* An insertion, a start and a reset may panic.  A panic ends the process: *)
(* the hook of a running node has the main thread shut it down.  What was  *)
(* not flushed is lost; if the shutdown still flushes it, that is a flush  *)
(* before the panic.  Other threads insert nothing in the meantime.        *)
(***************************************************************************)
EXTENDS ChainRewards, ShieldedWallet, ChainReset

nodeVars == <<chainVars, rewardVars, walletVars>>

NodeInit == Init /\ RewardsInit /\ WalletInit

-----------------------------------------------------------------------------
(***************************************************************************)
(* BlockChain::new finds the best block, and the rewards' last era is its. *)
(***************************************************************************)
Opens == db.best \in db.details \cap db.bodies /\ EraOfBest(db, rewards)

ReversedBy(n) == ReverseRewards(rewards, LatestBlocks(db, n))

(***************************************************************************)
(* A NUM larger than the number of blocks is refused: the header below     *)
(* genesis is not found.  Removing genesis itself is not refused, but its  *)
(* reward was never added and cannot be subtracted.                        *)
(***************************************************************************)
Resets(n) ==
    /\ status # "running"
    /\ Opens
    /\ n <= Number[db.best] + 1
    /\ LatestBlocks(db, n) \subseteq db.bodies

Reset(n) ==
    /\ Resets(n)
    /\ ReversedBy(n) # Panicked
    /\ db' = WithoutLatest(db, n)
    /\ disk' = db'
    /\ rewards' = ReversedBy(n)
    /\ savedRewards' = rewards'
    /\ UNCHANGED <<blooms, status, lost, engineRewards, refreshDue, walletVars>>

ResetPanics(n) ==
    /\ Resets(n)
    /\ ReversedBy(n) = Panicked
    /\ status' = "panicked"
    /\ UNCHANGED <<db, disk, blooms, lost, rewardVars, walletVars>>

-----------------------------------------------------------------------------
(***************************************************************************)
(* commit_block up to BlockChain::commit.                                  *)
(***************************************************************************)
Closes(b) == ~refreshDue /\ Importable(b) /\ StateRootMatches(b)

Insert(b, fin, late) ==
    /\ Closes(b)
    /\ CommitBlock(b, fin)
    /\ InsertRewards(b) /\ rewards' # Panicked
    /\ InsertNotes(b, late) /\ ~wallet'.failed

(***************************************************************************)
(* What may panic in it, before anything is written: expect("Enacted block *)
(* must be in database."), the eras of the rewards, the wallet's assert.   *)
(***************************************************************************)
InsertPanics(b, late) ==
    /\ Closes(b)
    /\ \/ Updated(b, late).failed
       \/ /\ ~IsKnownChild(db, b)
          /\ \/ ~(RouteBodies(db, b) \subseteq db.bodies)
             \/ PrepareRewardsUpdate(db, rewards, b) = Panicked
    /\ status' = "panicked"
    /\ db' = disk
    /\ lost' = (lost \/ db # disk)
    /\ LoseRewards
    /\ LoseWallet
    /\ UNCHANGED <<disk, blooms>>

RefreshEngine ==
    /\ status = "running"
    /\ UpdateEngineRewards
    /\ UNCHANGED <<chainVars, walletVars>>

NewAddress(a) ==
    /\ status = "running"
    /\ AddAddress(a)
    /\ UNCHANGED <<chainVars, rewardVars>>

NodeFlush == Flush /\ FlushRewards /\ FlushWallet

NodeCrash == Crash /\ LoseRewards /\ LoseWallet

NodeRestart == Restart /\ Opens /\ LoadRewards /\ LoadWallet

StartPanics ==
    /\ status # "running"
    /\ ~Opens
    /\ status' = "panicked"
    /\ UNCHANGED <<db, disk, blooms, lost, rewardVars, walletVars>>

NodeNext ==
    \/ \E b \in Blocks : \E late \in SUBSET (Addresses \ keys) :
          \/ \E fin \in AncestryActions(db, b) : Insert(b, fin, late)
          \/ InsertPanics(b, late)
    \/ RefreshEngine
    \/ \E a \in Addresses : NewAddress(a)
    \/ NodeFlush
    \/ NodeCrash
    \/ NodeRestart
    \/ StartPanics
    \/ \E n \in 1..MaxReset : Reset(n) \/ ResetPanics(n)

NodeSpec == NodeInit /\ [][NodeNext]_nodeVars

-----------------------------------------------------------------------------
(***************************************************************************)
(* After any number of resets and later imports, block_hash still answers  *)
(* with the canonical block for every number up to the best block's.       *)
(***************************************************************************)
ResetNumbers == NumbersIndexed(db) /\ NumbersIndexed(disk)

(***************************************************************************)
(* The bodies of the canonical chain stay complete: a node that lost the   *)
(* body of an enacted block to a reset panics before it makes that chain   *)
(* canonical, and a reset that would remove genesis panics as well.        *)
(***************************************************************************)
CanonicalBodies == \A s \in {db, disk} : Genesis \in s.bodies /\ Canon(s) \subseteq s.bodies

(***************************************************************************)
(* The command line says of the command: "Removes NUM latests blocks from  *)
(* the db".  A removed block is then unknown, its transactions are not     *)
(* found, and the notes they spent are unspent.                            *)
(***************************************************************************)
ResetRemovesBlocks ==
    [][\A n \in 1..MaxReset : Reset(n) =>
          /\ LatestBlocks(db, n) \cap db'.details = {}
          /\ TransactionsIndexed(db)'
          /\ NullifiersIndexed(db)']_nodeVars
=============================================================================
