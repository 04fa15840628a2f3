-------------------------- MODULE ChainLedgerProofs --------------------------
(***************************************************************************)
(* The chain database implements the abstract ledger, for every block tree *)
(* that satisfies the assumptions of BlockTree.                            *)
(***************************************************************************)
EXTENDS ChainLedger, BlockChainProofs

(***************************************************************************)
(* In a store that satisfies the invariant the transaction column and the  *)
(* nullifier column are the functions of the best block that the ledger    *)
(* defines.                                                                *)
(***************************************************************************)
LEMMA ColumnsAreLedger ==
    ASSUME NEW s, StoreInv(s)
    PROVE  s.addresses = Ledger!LocatedIn(s.best) /\ s.nullifiers = Ledger!SpentIn(s.best)
<1>1. /\ s.addresses \in [Transactions -> Blocks \cup {NoBlock}]
      /\ s.nullifiers \in [Nullifiers -> Transactions \cup {NoTransaction}]
  BY DEF StoreInv, Store
<1>2. ASSUME NEW t \in Transactions
      PROVE  s.addresses[t] = Ledger!LocatedIn(s.best)[t]
  <2>1. /\ s.addresses[t] # NoBlock =>
              s.addresses[t] \in Ancestry[s.best] /\ t \in Txs[s.addresses[t]]
        /\ \A x \in Ancestry[s.best] : t \in Txs[x] => s.addresses[t] = x
    BY DEF StoreInv, TransactionsIndexed, Canon
  <2>2. CASE \E x \in Ancestry[s.best] : t \in Txs[x]
    <3>1. (CHOOSE x \in Ancestry[s.best] : t \in Txs[x]) = s.addresses[t]
      BY <2>1, <2>2
    <3> QED BY <2>2, <3>1 DEF Ledger!LocatedIn
  <2>3. CASE ~ \E x \in Ancestry[s.best] : t \in Txs[x]
    BY <2>1, <2>3 DEF Ledger!LocatedIn
  <2> QED BY <2>2, <2>3
<1>3. ASSUME NEW n \in Nullifiers
      PROVE  s.nullifiers[n] = Ledger!SpentIn(s.best)[n]
  <2>1. Ledger!Spending(s.best, n) = Revealing(n, Ancestry[s.best])
    BY DEF Ledger!Spending, Revealing
  <2>2. /\ s.nullifiers[n] # NoTransaction => s.nullifiers[n] \in Revealing(n, Ancestry[s.best])
        /\ \A t \in Revealing(n, Ancestry[s.best]) : s.nullifiers[n] = t
    BY DEF StoreInv, NullifiersIndexed, Canon
  <2>3. CASE Revealing(n, Ancestry[s.best]) # {}
    <3>1. (CHOOSE t \in Revealing(n, Ancestry[s.best]) : TRUE) = s.nullifiers[n]
      BY <2>2, <2>3
    <3> QED BY <2>1, <2>3, <3>1 DEF Ledger!SpentIn
  <2>4. CASE Revealing(n, Ancestry[s.best]) = {}
    BY <2>1, <2>2, <2>4 DEF Ledger!SpentIn
  <2> QED BY <2>3, <2>4
<1>4. s.addresses = Ledger!LocatedIn(s.best)
  BY <1>1, <1>2 DEF Ledger!LocatedIn
<1>5. s.nullifiers = Ledger!SpentIn(s.best)
  BY <1>1, <1>3 DEF Ledger!SpentIn
<1> QED BY <1>4, <1>5

(***************************************************************************)
(* A commit is a step of the ledger or none.                               *)
(***************************************************************************)
LEMMA CommitIsLedgerStep ==
    ASSUME ChainInv, ChainInv', NEW b \in Blocks, NEW fin \in AncestryActions(db, b),
           CommitBlock(b, fin)
    PROVE  [Ledger!Next]_(Ledger!vars)
<1>1. /\ b # Genesis /\ Parent[b] \in db.bodies /\ StoreInv(db) /\ db \in Store
      /\ StoreInv(db') /\ disk' = disk
  BY DEF CommitBlock, Importable, ChainInv, StoreInv
<1>2. CASE IsKnownChild(db, b)
  <2>1. db' = [db EXCEPT !.finalized = MarkFinalized(db, fin \ {b})]
    BY <1>2 DEF CommitBlock
  <2>2. /\ db'.best = db.best /\ db'.total = db.total
        /\ db'.addresses = db.addresses /\ db'.nullifiers = db.nullifiers
    BY <1>1, <2>1 DEF Store
  <2> QED BY <1>1, <2>2 DEF Ledger!vars
<1>3. CASE ~IsKnownChild(db, b)
  <2>1. db' = InsertBlock(db, b, fin)
    BY <1>3 DEF CommitBlock
  <2>2. /\ b \notin db.details /\ db.best \in db.details /\ db.details \subseteq Blocks
    BY <1>1, <1>3, NewBlock
  <2>3. db'.total = [db.total EXCEPT ![b] = db.total[Parent[b]] + Difficulty[b]]
    BY <2>1 DEF InsertBlock
  <2>4. /\ db.total \in [Blocks -> Nat]
    BY <1>1 DEF Store
  <2>5. db'.total[b] = db.total[Parent[b]] + Difficulty[b] /\ db'.total[db.best] = db.total[db.best]
    BY <2>2, <2>3, <2>4
  <2>6. CASE BlockLocation(db, b) = "Branch"
    <3>1. db'.best = db.best
      BY <2>1, <2>6 DEF InsertBlock
    <3>2. db'.addresses = db.addresses /\ db'.nullifiers = db.nullifiers
      BY <1>1, <3>1, ColumnsAreLedger
    <3> QED BY <1>1, <2>5, <3>1, <3>2 DEF Ledger!vars
  <2>7. CASE BlockLocation(db, b) # "Branch"
    <3>1. db'.best = b
      BY <2>1, <2>7 DEF InsertBlock
    <3>2. db.total[Parent[b]] + Difficulty[b] > db.total[db.best]
      BY <2>7 DEF BlockLocation, ForkChoiceNew
    <3>3. db'.addresses = Ledger!LocatedIn(b) /\ db'.nullifiers = Ledger!SpentIn(b)
      BY <1>1, <3>1, ColumnsAreLedger
    <3>4. Ledger!Adopt(b)
      BY <1>1, <2>5, <3>1, <3>2, <3>3 DEF Ledger!Adopt, Ledger!LedgerAt, Ledger!LocatedIn, Ledger!SpentIn, Ledger!Spending
    <3> QED BY <3>4 DEF Ledger!Next
  <2> QED BY <2>6, <2>7
<1> QED BY <1>2, <1>3

(***************************************************************************)
(* commit_block, the flush, the crash and the restart of the chain         *)
(* database are steps of the ledger or leave it unchanged: the head and    *)
(* both indices move together.                                             *)
(***************************************************************************)
THEOREM LedgerImplemented == Spec => ImplementsLedger
<1>1. Init => Ledger!Init
  <2> SUFFICES ASSUME Init PROVE Ledger!Init
    OBVIOUS
  <2>1. db = GenesisStore /\ disk = GenesisStore
    BY DEF Init
  <2>2. GenesisStore.best = Genesis /\ GenesisStore.total[Genesis] = Difficulty[Genesis]
    BY TreeAssumption DEF GenesisStore
  <2>3. /\ GenesisStore.addresses = Ledger!LocatedIn(Genesis)
        /\ GenesisStore.nullifiers = Ledger!SpentIn(Genesis)
    BY <2>2, GenesisInv, ColumnsAreLedger
  <2> QED BY <2>1, <2>2, <2>3 DEF Ledger!Init, Ledger!LedgerAt
<1>2. ChainInv /\ ChainInv' /\ [Next]_chainVars => [Ledger!Next]_(Ledger!vars)
  <2> SUFFICES ASSUME ChainInv, ChainInv', [Next]_chainVars
               PROVE  [Ledger!Next]_(Ledger!vars)
    OBVIOUS
  <2>1. ASSUME NEW b \in Blocks, NEW fin \in AncestryActions(db, b), CommitBlock(b, fin)
        PROVE  [Ledger!Next]_(Ledger!vars)
    BY <2>1, CommitIsLedgerStep
  <2>2. CASE Flush
    <3>1. Ledger!Persist
      BY <2>2 DEF Flush, Ledger!Persist
    <3> QED BY <3>1 DEF Ledger!Next
  <2>3. CASE Crash
    <3>1. db' = disk /\ disk' = disk
      BY <2>3 DEF Crash
    <3>2. disk.addresses = Ledger!LocatedIn(disk.best) /\ disk.nullifiers = Ledger!SpentIn(disk.best)
      BY ColumnsAreLedger DEF ChainInv
    <3>3. Ledger!Recover
      BY <3>1, <3>2 DEF Ledger!Recover, Ledger!LedgerAt, Ledger!LocatedIn, Ledger!SpentIn, Ledger!Spending
    <3> QED BY <3>3 DEF Ledger!Next
  <2>4. CASE Restart
    BY <2>4 DEF Restart, Ledger!vars
  <2>5. CASE UNCHANGED chainVars
    BY <2>5 DEF chainVars, Ledger!vars
  <2> QED BY <2>1, <2>2, <2>3, <2>4, <2>5 DEF Next
<1> QED BY <1>1, <1>2, ChainInvariant, PTL DEF Spec, ImplementsLedger, Ledger!Spec
=============================================================================
