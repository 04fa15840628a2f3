----------------------------- MODULE SmallTree ------------------------------
(***************************************************************************)
(* The block tree of the TLC instances: the trunk a1-a2-a3, a branch b1-b2 *)
(* of heavier blocks that confirms t2 and spends the nullifier of t1 with  *)
(* another transaction, and a block c2 on a1 that is shorter and heavier   *)
(* than the trunk and confirms t3.                                         *)
(*                                                                         *)
(*      g -- a1 -- a2 -- a3                                                *)
(*       \     \-- c2                                                      *)
(*        \- b1 -- b2                                                      *)
(***************************************************************************)
MCBlocks == {"g", "a1", "a2", "a3", "c2", "b1", "b2"}

MCParent ==
    [g |-> "none", a1 |-> "g", a2 |-> "a1", a3 |-> "a2", c2 |-> "a1", b1 |-> "g", b2 |-> "b1"]

MCNumber == [g |-> 0, a1 |-> 1, a2 |-> 2, a3 |-> 3, c2 |-> 2, b1 |-> 1, b2 |-> 2]

MCDifficulty == [g |-> 1, a1 |-> 1, a2 |-> 1, a3 |-> 1, c2 |-> 3, b1 |-> 2, b2 |-> 2]

MCAncestry ==
    [g  |-> {"g"}, a1 |-> {"g", "a1"}, a2 |-> {"g", "a1", "a2"},
     a3 |-> {"g", "a1", "a2", "a3"}, c2 |-> {"g", "a1", "c2"},
     b1 |-> {"g", "b1"}, b2 |-> {"g", "b1", "b2"}]

MCTxs == [g |-> {}, a1 |-> {"t1"}, a2 |-> {"t2"}, a3 |-> {"t3"}, c2 |-> {"t3"},
          b1 |-> {"t2"}, b2 |-> {"t4"}]

MCNullifierSet == [t1 |-> {"n1"}, t2 |-> {}, t3 |-> {"n3"}, t4 |-> {"n1"}]

MCOutputs == [g |-> <<>>, a1 |-> <<"o1">>, a2 |-> <<>>, a3 |-> <<"o3">>, c2 |-> <<"o3">>,
              b1 |-> <<>>, b2 |-> <<"o1">>]

MCTreeOf == [g |-> <<>>, a1 |-> <<"o1">>, a2 |-> <<"o1">>, a3 |-> <<"o1", "o3">>,
             c2 |-> <<"o1", "o3">>, b1 |-> <<>>, b2 |-> <<"o1">>]

MCLogBloom == [g |-> {}, a1 |-> {"p"}, a2 |-> {}, a3 |-> {"p"}, c2 |-> {"q"},
               b1 |-> {}, b2 |-> {"q"}]
=============================================================================
