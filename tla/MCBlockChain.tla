---------------------------- MODULE MCBlockChain ----------------------------
(***************************************************************************)
(* The chain database, and the ledger it implements, on the tree of        *)
(* SmallTree.                                                              *)
(***************************************************************************)
EXTENDS ChainLedger, SmallTree
=============================================================================
