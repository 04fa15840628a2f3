----------------------------- MODULE BlockTree -----------------------------
(***************************************************************************)
(* The universe of blocks a node may ever be handed, as data.  A block is  *)
(* identified with its hash; what its header and body say (parent, number, *)
(* difficulty, transactions, shielded outputs, log bloom) is a constant    *)
(* function of the hash, because a hash commits to its content.            *)
(*                                                                         *)
(* Ancestry[b] is what BlockChain::ancestry_iter(b) yields: b, its parent, *)
(* and so on down to genesis.  It is a constant constrained by that        *)
(* unfolding, so that the proofs need no induction over block numbers.     *)
(***************************************************************************)
EXTENDS Integers, FiniteSets, Sequences

CONSTANTS
    Blocks,         \* every block hash
    Genesis,        \* the genesis block of the chain specification
    NoBlock,        \* stands for None, and for the all-zero parent of genesis
    Parent,         \* header.parent_hash
    Heights,        \* the block numbers of the instance
    Number,         \* header.number
    Difficulty,     \* header.difficulty
    Ancestry        \* the hashes ancestry_iter lists from a block

CONSTANTS
    Transactions,   \* every transaction hash
    NoTransaction,  \* stands for None in the nullifier column
    Txs,            \* the transactions in the body of a block
    Nullifiers,     \* every nullifier
    NullifierSet,   \* get_nullifier_set of a transaction, {} for a public one
    Outputs,        \* the note commitments of a block, in body order
    TreeOf,         \* the note commitments from genesis to a block
    Topics,         \* what log blooms are made of
    LogBloom        \* header.log_bloom, as the set of topics it holds

(***************************************************************************)
(* The commitment trees that occur, and their roots: a root is identified  *)
(* with the sequence of commitments under it (Pedersen hashing is          *)
(* collision free).                                                        *)
(***************************************************************************)
Roots == {TreeOf[b] : b \in Blocks}

ASSUME TreeAssumption ==
    /\ Genesis \in Blocks /\ NoBlock \notin Blocks
    /\ Parent \in [Blocks -> Blocks \cup {NoBlock}]
    /\ Heights \subseteq Nat
    /\ Number \in [Blocks -> Heights]
    /\ Difficulty \in [Blocks -> Nat]
    /\ Ancestry \in [Blocks -> SUBSET Blocks]
    /\ Ancestry[Genesis] = {Genesis}
    /\ \A b \in Blocks \ {Genesis} :
          /\ Parent[b] \in Blocks
          /\ Number[b] = Number[Parent[b]] + 1
          /\ Ancestry[b] = {b} \cup Ancestry[Parent[b]]

ASSUME BodyAssumption ==
    /\ Txs \in [Blocks -> SUBSET Transactions]
    /\ NoTransaction \notin Transactions
    /\ NullifierSet \in [Transactions -> SUBSET Nullifiers]
    /\ LogBloom \in [Blocks -> SUBSET Topics]
    /\ Txs[Genesis] = {} /\ LogBloom[Genesis] = {}
    /\ TreeOf[Genesis] = << >>
    /\ \A b \in Blocks \ {Genesis} : TreeOf[b] = TreeOf[Parent[b]] \o Outputs[b]

(***************************************************************************)
(* insert_block "expects the block to be valid and already verified": no   *)
(* chain holds a transaction twice, or two transactions that reveal the    *)
(* same nullifier.                                                         *)
(***************************************************************************)
ASSUME ValidityAssumption ==
    \A b \in Blocks : \A x, y \in Ancestry[b] : \A t \in Txs[x], u \in Txs[y] :
       /\ t = u => x = y
       /\ NullifierSet[t] \cap NullifierSet[u] # {} => t = u

(***************************************************************************)
(* BlockChain::tree_route(from, to).  The code walks both branches down to *)
(* their first common block: route.blocks up to route.index are the blocks *)
(* of `from` that are not below `to`, the rest those of `to` that are not  *)
(* below `from`, and route.ancestor is the highest block below both.       *)
(* TreeRoute.tla checks the walk itself against these definitions.         *)
(***************************************************************************)
Retracted(from, to) == Ancestry[from] \ Ancestry[to]

Enacted(from, to) == Ancestry[to] \ Ancestry[from]

(***************************************************************************)
(* The flag is updated after the cursor has moved to the parent, so it     *)
(* looks at the parents of the retracted blocks: not at `from`, but at the *)
(* common ancestor.                                                        *)
(***************************************************************************)
IsFromRouteFinalized(from, to, finalized) ==
    \E x \in Retracted(from, to) : Parent[x] \in finalized

=============================================================================
