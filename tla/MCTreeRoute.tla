---------------------------- MODULE MCTreeRoute -----------------------------
(***************************************************************************)
(* All routes in the tree of SmallTree, for all sets of known and of       *)
(* finalized blocks.                                                       *)
(***************************************************************************)
EXTENDS TreeRoute, SmallTree
=============================================================================
