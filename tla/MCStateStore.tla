---------------------------- MODULE MCStateStore -----------------------------
(***************************************************************************)
(* Two accounts x and y.  The trunk changes x to and fro, creates y and    *)
(* deletes it; c2 goes back to the state of genesis; a3 and c3 come to the *)
(* same state by themselves, so they have the same root.  a2, c2, a3 and   *)
(* c3 each take the chain from the one before.                             *)
(*                                                                         *)
(*      g -- a1 -- a2 -- a3                                                *)
(*             \-- c2 -- c3                                                *)
(***************************************************************************)
EXTENDS StateStore

MCBlocks == {"g", "a1", "a2", "a3", "c2", "c3"}

MCParent == [g |-> "none", a1 |-> "g", a2 |-> "a1", a3 |-> "a2", c2 |-> "a1", c3 |-> "c2"]

MCNumber == [g |-> 0, a1 |-> 1, a2 |-> 2, a3 |-> 3, c2 |-> 2, c3 |-> 3]

MCDifficulty == [g |-> 1, a1 |-> 1, a2 |-> 1, a3 |-> 3, c2 |-> 2, c3 |-> 3]

MCAncestry ==
    [g |-> {"g"}, a1 |-> {"g", "a1"}, a2 |-> {"g", "a1", "a2"}, a3 |-> {"g", "a1", "a2", "a3"},
     c2 |-> {"g", "a1", "c2"}, c3 |-> {"g", "a1", "c2", "c3"}]

MCValues ==
    [g |-> [x |-> "0", y |-> "missing"], a1 |-> [x |-> "1", y |-> "missing"],
     a2 |-> [x |-> "0", y |-> "1"], a3 |-> [x |-> "2", y |-> "missing"],
     c2 |-> [x |-> "0", y |-> "missing"], c3 |-> [x |-> "2", y |-> "missing"]]

MCDirty ==
    [g |-> {}, a1 |-> {"x"}, a2 |-> {"x", "y"}, a3 |-> {"x", "y"}, c2 |-> {"x"}, c3 |-> {"x"}]

MCNothing == [b \in MCBlocks |-> {}]

MCNoOutputs == [b \in MCBlocks |-> << >>]

MCNoNullifiers == << >>

(***************************************************************************)
(* `lost` and `blooms` are left out of the view: no guard and no property  *)
(* of this instance reads them.                                            *)
(***************************************************************************)
MCView == <<db, disk, status, journalVars, cache, pruning, base, resets>>

MCKeys == UNION {StateOf(b) : b \in MCBlocks}
=============================================================================
