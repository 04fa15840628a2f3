----------------------------- MODULE ChainReset ------------------------------
(***************************************************************************)
(* What the command `db reset NUM` (Client::reset) does to the chain       *)
(* database.  ChainNode composes it with the rewards and the wallet,       *)
(* StateStore with the state database.                                     *)
(***************************************************************************)
EXTENDS BlockChain

CONSTANT MaxReset   \* largest NUM tried

ASSUME ResetAssumption == MaxReset \in Nat

(***************************************************************************)
(* block_headers_from_best_block(n): the n latest canonical blocks and the *)
(* parent of the lowest of them.  The parent of genesis is the zero hash.  *)
(***************************************************************************)
LatestBlocks(s, n) == {x \in Canon(s) : Number[x] + n > Number[s.best]}

HashBelowOffByOne(s, n) ==
    CHOOSE x \in Canon(s) : Number[x] + n = Number[s.best] + 1

HashBelow(s, n) ==
    IF n > Number[s.best] THEN NoBlock
    ELSE CHOOSE x \in Canon(s) : Number[x] + n = Number[s.best]

(***************************************************************************)
(* What Client::reset deletes: header, body and number entry of each       *)
(* block.  Its delete in COL_EXTRA uses the bare hash as the key, while    *)
(* details are stored under a prefixed key, so the details stay, and so do *)
(* the transaction, nullifier, commitment and bloom entries.               *)
(***************************************************************************)
WithoutLatest(s, n) ==
    LET removed == LatestBlocks(s, n)
    IN  [s EXCEPT !.best = HashBelow(s, n),
                  !.bodies = @ \ removed,
                  !.hashes = [h \in Heights |->
                                 IF \E x \in removed : Number[x] = h THEN NoBlock ELSE @[h]]]
=============================================================================
