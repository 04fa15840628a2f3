---------------------------- MODULE MCBlockImport ----------------------------
(***************************************************************************)
(* Two verifiers, a block and its child, imported one block per round.     *)
(***************************************************************************)
EXTENDS BlockImport

SmallParent == [a |-> "g", b |-> "a"]
=============================================================================
