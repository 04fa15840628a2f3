----------------------------- MODULE MCChainNode -----------------------------
(***************************************************************************)
(* "pay" gives a note to alice and one to bob, on the trunk behind a       *)
(* transaction of strangers with two outputs and on the branch b1 without  *)
(* it; a2 spends alice's note as it is on the trunk, b2 as it is on the    *)
(* branch.  c3 takes the spend of a2 back.  A reset from a2 may remove a1  *)
(* from under c2.                                                          *)
(*                                                                         *)
(*      g -- a1 -- a2                                                      *)
(*       \     \-- c2 -- c3                                                *)
(*        \- b1 -- b2                                                      *)
(***************************************************************************)
EXTENDS ChainNode

MCBlocks == {"g", "a1", "a2", "c2", "c3", "b1", "b2"}

MCParent ==
    [g |-> "none", a1 |-> "g", a2 |-> "a1", c2 |-> "a1", c3 |-> "c2", b1 |-> "g", b2 |-> "b1"]

MCNumber == [g |-> 0, a1 |-> 1, a2 |-> 2, c2 |-> 2, c3 |-> 3, b1 |-> 1, b2 |-> 2]

MCDifficulty == [g |-> 1, a1 |-> 1, a2 |-> 2, c2 |-> 1, c3 |-> 2, b1 |-> 2, b2 |-> 3]

MCAncestry ==
    [g |-> {"g"}, a1 |-> {"g", "a1"}, a2 |-> {"g", "a1", "a2"}, c2 |-> {"g", "a1", "c2"},
     c3 |-> {"g", "a1", "c2", "c3"}, b1 |-> {"g", "b1"}, b2 |-> {"g", "b1", "b2"}]

MCPrivateTxs == [g |-> <<>>, a1 |-> <<"strangers", "pay">>, a2 |-> <<"spend">>, c2 |-> <<>>,
                 c3 |-> <<>>, b1 |-> <<"pay">>, b2 |-> <<"spendb">>]

MCTxs == [b \in MCBlocks |-> ToSet(MCPrivateTxs[b])]

MCRecipients == [strangers |-> <<"nobody", "nobody">>, pay |-> <<"alice", "bob">>,
                 spend |-> <<"nobody">>, spendb |-> <<"bob">>]

MCOutputs ==
    [g |-> <<>>, a1 |-> <<<<"strangers", 1>>, <<"strangers", 2>>, <<"pay", 1>>, <<"pay", 2>>>>,
     a2 |-> <<<<"spend", 1>>>>, c2 |-> <<>>, c3 |-> <<>>, b1 |-> <<<<"pay", 1>>, <<"pay", 2>>>>,
     b2 |-> <<<<"spendb", 1>>>>]

MCTreeOf ==
    [g |-> <<>>, a1 |-> MCOutputs["a1"], a2 |-> MCOutputs["a1"] \o MCOutputs["a2"],
     c2 |-> MCOutputs["a1"], c3 |-> MCOutputs["a1"], b1 |-> MCOutputs["b1"],
     b2 |-> MCOutputs["b1"] \o MCOutputs["b2"]]

MCNullifierSet ==
    [strangers |-> {}, pay |-> {}, spend |-> {<<"pay", 1, 2>>}, spendb |-> {<<"pay", 1, 0>>}]

MCNullifiers == {<<"pay", 1, 2>>, <<"pay", 1, 0>>}

MCLogBloom == [b \in MCBlocks |-> {}]

MCUncleNumbers == [g |-> <<>>, a1 |-> <<>>, a2 |-> <<>>, c2 |-> <<1>>, c3 |-> <<1, 2>>,
                   b1 |-> <<>>, b2 |-> <<1, 1>>]

(***************************************************************************)
(* `lost` and `blooms` are left out of the view: no guard and no property  *)
(* of this instance reads them.                                            *)
(***************************************************************************)
MCView == <<db, disk, status, rewardVars, walletVars>>
=============================================================================
