----------------------------- MODULE BlockOrder ------------------------------
(***************************************************************************)
(* The blocks of a route or of a chain in the order in which they are      *)
(* enacted, for the updates that go through them one by one.               *)
(***************************************************************************)
EXTENDS BlockTree, SequencesExt

Upwards(blocks) == SetToSortSeq(blocks, LAMBDA x, y : Number[x] < Number[y])
=============================================================================
