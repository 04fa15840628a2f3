--------------------------- MODULE CanonicalLedger ---------------------------
(***************************************************************************)
(* What the chain database promises to its readers (the client, the miner, *)
(* the RPC layer): there is one head, and where a transaction is and which *)
(* transaction has spent a note are functions of the chain below it.  The  *)
(* head moves to a block with more work in one step; a crash takes it back *)
(* to a head that was made durable before, never to something in between.  *)
(***************************************************************************)
EXTENDS Naturals

CONSTANTS
    Blocks, Genesis, NoBlock, Ancestry, Difficulty,
    Transactions, NoTransaction, Txs, Nullifiers, NullifierSet

VARIABLES
    head,       \* the best block
    work,       \* its total difficulty
    located,    \* the block of a transaction
    spent,      \* the transaction that reveals a nullifier
    durable     \* the head and the work that a crash cannot take back

vars == <<head, work, located, spent, durable>>

LocatedIn(h) ==
    [t \in Transactions |->
        IF \E x \in Ancestry[h] : t \in Txs[x]
        THEN CHOOSE x \in Ancestry[h] : t \in Txs[x] ELSE NoBlock]

Spending(h, n) == {t \in UNION {Txs[x] : x \in Ancestry[h]} : n \in NullifierSet[t]}

SpentIn(h) ==
    [n \in Nullifiers |->
        IF Spending(h, n) # {} THEN CHOOSE t \in Spending(h, n) : TRUE ELSE NoTransaction]

LedgerAt(h) == located = LocatedIn(h) /\ spent = SpentIn(h)

Init ==
    /\ head = Genesis /\ work = Difficulty[Genesis]
    /\ LedgerAt(Genesis)
    /\ durable = <<Genesis, Difficulty[Genesis]>>

Adopt(b) ==
    /\ head' = b
    /\ work' > work
    /\ LedgerAt(b)'
    /\ UNCHANGED durable

Persist ==
    /\ durable' = <<head, work>>
    /\ UNCHANGED <<head, work, located, spent>>

Recover ==
    /\ <<head', work'>> = durable
    /\ LedgerAt(head)'
    /\ UNCHANGED durable

Next == Persist \/ Recover \/ \E b \in Blocks : Adopt(b)

Spec == Init /\ [][Next]_vars
=============================================================================
