----------------------------- MODULE ChainLedger -----------------------------
(***************************************************************************)
(* The chain database as a ledger: which of its columns carry the abstract *)
(* state of CanonicalLedger.                                               *)
(***************************************************************************)
EXTENDS BlockChain

Ledger == INSTANCE CanonicalLedger WITH
    head    <- db.best,
    work    <- db.total[db.best],
    located <- db.addresses,
    spent   <- db.nullifiers,
    durable <- <<disk.best, disk.total[disk.best]>>

(***************************************************************************)
(* The chain database implements the ledger: every commit_block either     *)
(* leaves what readers see alone or moves the head, the transaction index  *)
(* and the nullifier index together, and a crash moves the three back      *)
(* together.                                                               *)
(***************************************************************************)
ImplementsLedger == Ledger!Spec
=============================================================================
