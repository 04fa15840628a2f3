-------------------------- MODULE BlockChainProofs --------------------------
(***************************************************************************)
(* Proofs about BlockChain for every block tree that satisfies the         *)
(* assumptions of BlockTree.                                               *)
(***************************************************************************)
EXTENDS BlockChain, TLAPS

(***************************************************************************)
(* One store, all columns: the inductive invariant of a store.             *)
(***************************************************************************)
StoreInv(s) ==
    /\ s \in Store
    /\ StoreIsTree(s)
    /\ ChainsStored(s)
    /\ NumbersIndexed(s)
    /\ TransactionsIndexed(s)
    /\ NullifiersIndexed(s)
    /\ AnchorsIndexed(s)

-----------------------------------------------------------------------------
(***************************************************************************)
(* A new best block's chain is its parent's chain and the block; the route *)
(* is what the old and the parent's chain do not share, whether or not the *)
(* parent is the old best block.                                           *)
(***************************************************************************)
LEMMA RouteSets ==
    ASSUME NEW s, NEW b, BlockLocation(s, b) # "Branch"
    PROVE  /\ RetractedBy(s, b) = Ancestry[s.best] \ Ancestry[Parent[b]]
           /\ EnactedBy(s, b) = Ancestry[Parent[b]] \ Ancestry[s.best]
<1>1. CASE Parent[b] = s.best
  BY <1>1 DEF RetractedBy, EnactedBy, Retracted, Enacted, BlockLocation
<1>2. CASE Parent[b] # s.best
  BY <1>2 DEF RetractedBy, EnactedBy, Retracted, Enacted, BlockLocation
<1> QED BY <1>1, <1>2

(***************************************************************************)
(* Types of the constants, block by block.                                 *)
(***************************************************************************)
LEMMA BlockTypes ==
    /\ \A x \in Blocks : Number[x] \in Heights /\ Number[x] \in Nat
    /\ \A x \in Blocks : Ancestry[x] \subseteq Blocks
    /\ \A x \in Blocks : \A y \in Ancestry[x] : y \in Blocks
<1>1. Heights \subseteq Nat /\ Number \in [Blocks -> Heights] /\ Ancestry \in [Blocks -> SUBSET Blocks]
  BY TreeAssumption
<1> QED BY <1>1

(***************************************************************************)
(* The parent of a block that is no child of it yet.                       *)
(***************************************************************************)
LEMMA NewBlock ==
    ASSUME NEW s, StoreInv(s), NEW b \in Blocks, b # Genesis,
           Parent[b] \in s.bodies, ~IsKnownChild(s, b)
    PROVE  /\ b \notin s.details
           /\ Parent[b] \in s.details
           /\ Parent[b] \in Blocks
           /\ s.best \in s.details
           /\ s.details \subseteq Blocks
           /\ Ancestry[b] = {b} \cup Ancestry[Parent[b]]
           /\ Number[b] = Number[Parent[b]] + 1
           /\ TreeOf[b] = TreeOf[Parent[b]] \o Outputs[b]
BY TreeAssumption, BodyAssumption DEF StoreInv, StoreIsTree, IsKnownChild, Store

(***************************************************************************)
(* The columns an insertion writes have their types.                       *)
(***************************************************************************)
LEMMA InsertType ==
    ASSUME NEW s, StoreInv(s), NEW b \in Blocks, b # Genesis,
           Parent[b] \in s.bodies, ~IsKnownChild(s, b), NEW fin \in SUBSET Blocks
    PROVE  InsertBlock(s, b, fin) \in Store
<1> DEFINE new == InsertBlock(s, b, fin)
<1>1. /\ b \notin s.details /\ Parent[b] \in s.details /\ Parent[b] \in Blocks
      /\ TreeOf[b] = TreeOf[Parent[b]] \o Outputs[b]
  BY NewBlock
<1>2. /\ s.best \in Blocks \cup {NoBlock} /\ s.bodies \in SUBSET Blocks
      /\ s.details \in SUBSET Blocks
      /\ s.children \in [Blocks -> SUBSET Blocks]
      /\ s.total \in [Blocks -> Nat]
      /\ s.finalized \in SUBSET Blocks
      /\ s.hashes \in [Heights -> Blocks \cup {NoBlock}]
      /\ s.addresses \in [Transactions -> Blocks \cup {NoBlock}]
      /\ s.nullifiers \in [Nullifiers -> Transactions \cup {NoTransaction}]
      /\ s.sers \in [Blocks -> Roots]
      /\ s.roots \in [Roots -> Blocks \cup {NoBlock}]
  BY DEF StoreInv, Store
<1>3. PrepareFinalized(s, b, fin) \in SUBSET Blocks
  BY <1>1, <1>2 DEF PrepareFinalized
<1>4. PrepareBlockHashesUpdate(s, b) \in [Heights -> Blocks \cup {NoBlock}]
  <2>1. EnactedBy(s, b) \subseteq Blocks
    BY <1>1, TreeAssumption DEF EnactedBy, Enacted
  <2> QED BY <2>1, <1>2 DEF PrepareBlockHashesUpdate
<1>5. PrepareTransactionAddressesUpdate(s, b) \in [Transactions -> Blocks \cup {NoBlock}]
  <2>1. EnactedBy(s, b) \subseteq Blocks
    BY <1>1, TreeAssumption DEF EnactedBy, Enacted
  <2> QED BY <2>1, <1>2 DEF PrepareTransactionAddressesUpdate
<1>6. PrepareTransactionNullifiersUpdate(s, b) \in [Nullifiers -> Transactions \cup {NoTransaction}]
  <2>1. EnactedBy(s, b) \subseteq Blocks
    BY <1>1, TreeAssumption DEF EnactedBy, Enacted
  <2>2. ASSUME NEW n \in Nullifiers, NEW blocks \in SUBSET Blocks
        PROVE  Revealing(n, blocks) \subseteq Transactions
    BY BodyAssumption DEF Revealing
  <2> QED BY <2>1, <2>2, <1>2, ZenonT(30) DEF PrepareTransactionNullifiersUpdate
<1>7. PrepareBlockCommitmentSersUpdate(s, b) \in [Blocks -> Roots]
  <2>1. CommitmentTree(s, b) = TreeOf[b]
    BY <1>1 DEF CommitmentTree, StoreInv, AnchorsIndexed
  <2> QED BY <2>1, <1>2 DEF PrepareBlockCommitmentSersUpdate, Roots
<1>8. PrepareCommitmentRootBlocksUpdate(s, b) \in [Roots -> Blocks \cup {NoBlock}]
  BY <1>2 DEF PrepareCommitmentRootBlocksUpdate
<1>9. PrepareChildren(s, b) \in [Blocks -> SUBSET Blocks]
  BY <1>1, <1>2 DEF PrepareChildren
<1>10. [s.total EXCEPT ![b] = s.total[Parent[b]] + Difficulty[b]] \in [Blocks -> Nat]
  BY <1>1, <1>2, TreeAssumption
<1> QED BY <1>2, <1>3, <1>4, <1>5, <1>6, <1>7, <1>8, <1>9, <1>10 DEF InsertBlock, Store

(***************************************************************************)
(* An insertion keeps the stored blocks one tree.                          *)
(***************************************************************************)
LEMMA InsertTree ==
    ASSUME NEW s, StoreInv(s), NEW b \in Blocks, b # Genesis,
           Parent[b] \in s.bodies, ~IsKnownChild(s, b), NEW fin \in SUBSET Blocks
    PROVE  StoreIsTree(InsertBlock(s, b, fin))
<1> DEFINE new == InsertBlock(s, b, fin)
<1>1. /\ b \notin s.details /\ Parent[b] \in s.details /\ Parent[b] \in Blocks
      /\ s.details \subseteq Blocks
  BY NewBlock
<1>2. /\ s.best \in s.details /\ Genesis \in s.details /\ s.bodies = s.details
      /\ \A x \in s.details \ {Genesis} :
            /\ Parent[x] \in s.details
            /\ x \in s.children[Parent[x]]
            /\ s.total[x] = s.total[Parent[x]] + Difficulty[x]
      /\ \A x \in s.details : s.children[x] \subseteq {c \in s.details : c # Genesis /\ Parent[c] = x}
  BY DEF StoreInv, StoreIsTree
<1>3. s.total \in [Blocks -> Nat] /\ s.children \in [Blocks -> SUBSET Blocks]
  BY DEF StoreInv, Store
<1>4. /\ new.best = (IF BlockLocation(s, b) = "Branch" THEN s.best ELSE b)
      /\ new.bodies = s.bodies \cup {b}
      /\ new.details = s.details \cup {b}
      /\ new.children = PrepareChildren(s, b)
      /\ new.total = [s.total EXCEPT ![b] = s.total[Parent[b]] + Difficulty[b]]
  BY DEF InsertBlock
<1> HIDE DEF new
<1>5. ASSUME NEW x \in new.details \ {Genesis}
      PROVE  /\ Parent[x] \in new.details
             /\ x \in new.children[Parent[x]]
             /\ new.total[x] = new.total[Parent[x]] + Difficulty[x]
  <2>1. CASE x = b
    BY <2>1, <1>1, <1>3, <1>4 DEF PrepareChildren
  <2>2. CASE x # b
    <3>1. x \in s.details \ {Genesis} /\ Parent[x] \in s.details /\ Parent[x] # b
      BY <2>2, <1>1, <1>2, <1>4
    <3> QED BY <3>1, <2>2, <1>1, <1>2, <1>3, <1>4 DEF PrepareChildren
  <2> QED BY <2>1, <2>2
<1>6. ASSUME NEW x \in new.details
      PROVE  new.children[x] \subseteq {c \in new.details : c # Genesis /\ Parent[c] = x}
  BY <1>1, <1>2, <1>3, <1>4 DEF PrepareChildren
<1> QED BY <1>1, <1>2, <1>4, <1>5, <1>6 DEF StoreIsTree, new

(***************************************************************************)
(* An insertion keeps every stored chain complete and well numbered.       *)
(***************************************************************************)
LEMMA InsertChains ==
    ASSUME NEW s, StoreInv(s), NEW b \in Blocks, b # Genesis,
           Parent[b] \in s.bodies, ~IsKnownChild(s, b), NEW fin \in SUBSET Blocks
    PROVE  ChainsStored(InsertBlock(s, b, fin))
<1>1. /\ b \notin s.details /\ Parent[b] \in s.details /\ Parent[b] \in Blocks
      /\ s.details \subseteq Blocks
      /\ Ancestry[b] = {b} \cup Ancestry[Parent[b]]
      /\ Number[b] = Number[Parent[b]] + 1
  BY NewBlock
<1>2. InsertBlock(s, b, fin).details = s.details \cup {b}
  BY DEF InsertBlock
<1>3. /\ Ancestry[Parent[b]] \subseteq s.details
      /\ {Parent[b], Genesis} \subseteq Ancestry[Parent[b]]
      /\ \A y \in Ancestry[Parent[b]] :
            Number[y] <= Number[Parent[b]] /\ Ancestry[y] \subseteq Ancestry[Parent[b]]
      /\ \A y, z \in Ancestry[Parent[b]] : Number[y] = Number[z] => y = z
      /\ \A y \in Ancestry[Parent[b]] \ {Parent[b]} :
            \E z \in Ancestry[Parent[b]] \ {Genesis} : Parent[z] = y
  BY <1>1 DEF StoreInv, ChainsStored
<1>4. /\ \A x \in s.details : Number[x] \in Nat
      /\ Number[b] \in Nat
  BY <1>1, BlockTypes
<1>5. /\ {b, Genesis} \subseteq Ancestry[b]
      /\ Ancestry[b] \subseteq s.details \cup {b}
      /\ \A y \in Ancestry[b] : Number[y] <= Number[b] /\ Ancestry[y] \subseteq Ancestry[b]
  BY <1>1, <1>3, <1>4
<1>6. \A y, z \in Ancestry[b] : Number[y] = Number[z] => y = z
  BY <1>1, <1>3, <1>4
<1>7. \A y \in Ancestry[b] \ {b} : \E z \in Ancestry[b] \ {Genesis} : Parent[z] = y
  BY <1>1, <1>3
<1> QED BY <1>2, <1>5, <1>6, <1>7 DEF StoreInv, ChainsStored

(***************************************************************************)
(* An insertion leaves the number index right: the enacted blocks and the  *)
(* new one get their numbers, and what the two chains share keeps its own. *)
(***************************************************************************)
LEMMA InsertNumbers ==
    ASSUME NEW s, StoreInv(s), NEW b \in Blocks, b # Genesis,
           Parent[b] \in s.bodies, ~IsKnownChild(s, b), NEW fin \in SUBSET Blocks
    PROVE  NumbersIndexed(InsertBlock(s, b, fin))
<1> DEFINE new == InsertBlock(s, b, fin)
<1>1. /\ Parent[b] \in s.details /\ Parent[b] \in Blocks /\ s.details \subseteq Blocks
      /\ Ancestry[b] = {b} \cup Ancestry[Parent[b]]
      /\ Number[b] = Number[Parent[b]] + 1
  BY NewBlock
<1>2. /\ new.best = (IF BlockLocation(s, b) = "Branch" THEN s.best ELSE b)
      /\ new.hashes = PrepareBlockHashesUpdate(s, b)
  BY DEF InsertBlock
<1>3. \A x \in Ancestry[s.best] : s.hashes[Number[x]] = x
  BY DEF StoreInv, NumbersIndexed, Canon
<1>4. \A x \in Ancestry[s.best] : x \in Blocks /\ Number[x] \in Heights
  <2>1. s.best \in Blocks
    BY <1>1 DEF StoreInv, StoreIsTree
  <2> QED BY <2>1, BlockTypes
<1> SUFFICES NumbersIndexed(new)
  OBVIOUS
<1> HIDE DEF new
<1>5. CASE BlockLocation(s, b) = "Branch"
  BY <1>2, <1>3, <1>4, <1>5 DEF NumbersIndexed, Canon, PrepareBlockHashesUpdate
<1>6. CASE BlockLocation(s, b) # "Branch"
  <2>1. EnactedBy(s, b) = Ancestry[Parent[b]] \ Ancestry[s.best]
    BY <1>6, RouteSets
  <2>2. \A y, z \in Ancestry[Parent[b]] : Number[y] = Number[z] => y = z
    BY <1>1 DEF StoreInv, ChainsStored
  <2>3. \A y \in Ancestry[Parent[b]] :
           /\ y \in Blocks /\ Number[y] \in Heights /\ Number[y] # Number[b]
    <3>1. \A y \in Ancestry[Parent[b]] : Number[y] <= Number[Parent[b]]
      BY <1>1 DEF StoreInv, ChainsStored
    <3> QED BY <3>1, <1>1, BlockTypes
  <2>4. Number[b] \in Heights
    BY BlockTypes
  <2>5. ASSUME NEW x \in Ancestry[Parent[b]]
        PROVE  new.hashes[Number[x]] = x
    <3>1. CASE x \in Ancestry[s.best]
      <4>1. ~ \E z \in EnactedBy(s, b) : Number[z] = Number[x]
        BY <3>1, <2>1, <2>2
      <4> QED BY <4>1, <3>1, <1>2, <1>3, <1>6, <2>3 DEF PrepareBlockHashesUpdate
    <3>2. CASE x \notin Ancestry[s.best]
      <4>1. x \in EnactedBy(s, b) /\ \A z \in EnactedBy(s, b) : Number[z] = Number[x] => z = x
        BY <3>2, <2>1, <2>2
      <4> QED BY <4>1, <1>2, <1>6, <2>3 DEF PrepareBlockHashesUpdate
    <3> QED BY <3>1, <3>2
  <2>6. new.hashes[Number[b]] = b
    BY <1>2, <1>6, <2>4 DEF PrepareBlockHashesUpdate
  <2> QED BY <2>5, <2>6, <1>1, <1>2, <1>6 DEF NumbersIndexed, Canon
<1> QED BY <1>5, <1>6

(***************************************************************************)
(* What a new block's chain keeps of the old one and what it adds.         *)
(***************************************************************************)
LEMMA NewChain ==
    ASSUME NEW s, StoreInv(s), NEW b \in Blocks, b # Genesis,
           Parent[b] \in s.bodies, ~IsKnownChild(s, b),
           BlockLocation(s, b) # "Branch"
    PROVE  /\ s.best \in Blocks
           /\ Ancestry[s.best] \subseteq Blocks
           /\ Ancestry[b] \subseteq Blocks
           /\ EnactedBy(s, b) \subseteq Ancestry[b]
           /\ RetractedBy(s, b) \subseteq Ancestry[s.best]
           /\ RetractedBy(s, b) \cap Ancestry[b] = {}
           /\ \A x \in Ancestry[b] : x = b \/ x \in EnactedBy(s, b) \/ x \in Ancestry[s.best]
           /\ \A x \in Ancestry[s.best] : x \in RetractedBy(s, b) \/ x \in Ancestry[b]
           /\ b \in Ancestry[b]
<1>1. /\ RetractedBy(s, b) = Ancestry[s.best] \ Ancestry[Parent[b]]
      /\ EnactedBy(s, b) = Ancestry[Parent[b]] \ Ancestry[s.best]
  BY RouteSets
<1>2. /\ Ancestry[b] = {b} \cup Ancestry[Parent[b]]
      /\ b \notin s.details /\ s.best \in s.details /\ s.details \subseteq Blocks
  BY NewBlock
<1>3. Ancestry[s.best] \subseteq s.details
  BY <1>2 DEF StoreInv, ChainsStored
<1>4. s.best \in Blocks /\ Ancestry[s.best] \subseteq Blocks /\ Ancestry[b] \subseteq Blocks
  BY <1>2, BlockTypes
<1> QED BY <1>1, <1>2, <1>3, <1>4

(***************************************************************************)
(* An insertion leaves the transaction index right.                        *)
(***************************************************************************)
LEMMA InsertTransactions ==
    ASSUME NEW s, StoreInv(s), NEW b \in Blocks, b # Genesis,
           Parent[b] \in s.bodies, ~IsKnownChild(s, b), NEW fin \in SUBSET Blocks
    PROVE  TransactionsIndexed(InsertBlock(s, b, fin))
<1> DEFINE new == InsertBlock(s, b, fin)
<1>1. /\ new.best = (IF BlockLocation(s, b) = "Branch" THEN s.best ELSE b)
      /\ new.addresses = PrepareTransactionAddressesUpdate(s, b)
  BY DEF InsertBlock
<1>2. \A t \in Transactions :
         /\ s.addresses[t] # NoBlock =>
               s.addresses[t] \in Ancestry[s.best] /\ t \in Txs[s.addresses[t]]
         /\ \A x \in Ancestry[s.best] : t \in Txs[x] => s.addresses[t] = x
  BY DEF StoreInv, TransactionsIndexed, Canon
<1> SUFFICES TransactionsIndexed(new)
  OBVIOUS
<1> HIDE DEF new
<1>3. CASE BlockLocation(s, b) = "Branch"
  BY <1>1, <1>2, <1>3 DEF TransactionsIndexed, Canon, PrepareTransactionAddressesUpdate
<1>4. CASE BlockLocation(s, b) # "Branch"
  <2> SUFFICES ASSUME NEW t \in Transactions
               PROVE  /\ new.addresses[t] # NoBlock =>
                            new.addresses[t] \in Ancestry[b] /\ t \in Txs[new.addresses[t]]
                      /\ \A x \in Ancestry[b] : t \in Txs[x] => new.addresses[t] = x
    BY <1>1, <1>4 DEF TransactionsIndexed, Canon
  <2> DEFINE ena == EnactedBy(s, b)
             ret == RetractedBy(s, b)
  <2>1. new.addresses[t] =
           IF t \in Txs[b] THEN b
           ELSE IF \E x \in ena : t \in Txs[x] THEN CHOOSE x \in ena : t \in Txs[x]
           ELSE IF \E x \in ret : t \in Txs[x] THEN NoBlock
           ELSE s.addresses[t]
    BY <1>1, <1>4 DEF PrepareTransactionAddressesUpdate
  <2>2. /\ ena \subseteq Ancestry[b] /\ ret \subseteq Ancestry[s.best] /\ b \in Ancestry[b]
        /\ ret \cap Ancestry[b] = {}
        /\ \A x \in Ancestry[b] : x = b \/ x \in ena \/ x \in Ancestry[s.best]
        /\ \A x \in Ancestry[s.best] : x \in ret \/ x \in Ancestry[b]
    BY <1>4, NewChain
  <2>3. /\ \A x, y \in Ancestry[b] : t \in Txs[x] /\ t \in Txs[y] => x = y
        /\ \A x, y \in Ancestry[s.best] : t \in Txs[x] /\ t \in Txs[y] => x = y
    BY <1>4, NewChain, ValidityAssumption
  <2> HIDE DEF ena, ret
  <2>4. CASE t \in Txs[b]
    BY <2>1, <2>2, <2>3, <2>4
  <2>5. CASE t \notin Txs[b] /\ \E x \in ena : t \in Txs[x]
    <3>1. PICK x \in ena : t \in Txs[x]
      BY <2>5
    <3>2. \A y \in ena : t \in Txs[y] => y = x
      BY <3>1, <2>2, <2>3
    <3>3. new.addresses[t] = x
      BY <3>1, <3>2, <2>1, <2>5
    <3> QED BY <3>1, <3>3, <2>2, <2>3
  <2>6. CASE t \notin Txs[b] /\ (~ \E x \in ena : t \in Txs[x]) /\ \E x \in ret : t \in Txs[x]
    BY <2>1, <2>2, <2>3, <2>6
  <2>7. CASE t \notin Txs[b] /\ (~ \E x \in ena : t \in Txs[x]) /\ ~ \E x \in ret : t \in Txs[x]
    BY <2>1, <2>2, <1>2, <2>7
  <2> QED BY <2>4, <2>5, <2>6, <2>7
<1> QED BY <1>3, <1>4

(***************************************************************************)
(* An insertion leaves the nullifier index right.                          *)
(***************************************************************************)
LEMMA InsertNullifiers ==
    ASSUME NEW s, StoreInv(s), NEW b \in Blocks, b # Genesis,
           Parent[b] \in s.bodies, ~IsKnownChild(s, b), NEW fin \in SUBSET Blocks
    PROVE  NullifiersIndexed(InsertBlock(s, b, fin))
<1> DEFINE new == InsertBlock(s, b, fin)
<1>1. /\ new.best = (IF BlockLocation(s, b) = "Branch" THEN s.best ELSE b)
      /\ new.nullifiers = PrepareTransactionNullifiersUpdate(s, b)
  BY DEF InsertBlock
<1>2. \A n \in Nullifiers :
         /\ s.nullifiers[n] # NoTransaction => s.nullifiers[n] \in Revealing(n, Ancestry[s.best])
         /\ \A t \in Revealing(n, Ancestry[s.best]) : s.nullifiers[n] = t
  BY DEF StoreInv, NullifiersIndexed, Canon
<1> SUFFICES NullifiersIndexed(new)
  OBVIOUS
<1> HIDE DEF new
<1>3. CASE BlockLocation(s, b) = "Branch"
  BY <1>1, <1>2, <1>3 DEF NullifiersIndexed, Canon, PrepareTransactionNullifiersUpdate
<1>4. CASE BlockLocation(s, b) # "Branch"
  <2> SUFFICES ASSUME NEW n \in Nullifiers
               PROVE  /\ new.nullifiers[n] # NoTransaction =>
                            new.nullifiers[n] \in Revealing(n, Ancestry[b])
                      /\ \A t \in Revealing(n, Ancestry[b]) : new.nullifiers[n] = t
    BY <1>1, <1>4 DEF NullifiersIndexed, Canon
  <2> DEFINE ena == EnactedBy(s, b)
             ret == RetractedBy(s, b)
  <2>1. new.nullifiers[n] =
           IF Revealing(n, {b}) # {} THEN CHOOSE t \in Revealing(n, {b}) : TRUE
           ELSE IF Revealing(n, ena) # {} THEN CHOOSE t \in Revealing(n, ena) : TRUE
           ELSE IF Revealing(n, ret) # {} THEN NoTransaction
           ELSE s.nullifiers[n]
    BY <1>1, <1>4 DEF PrepareTransactionNullifiersUpdate
  <2>2. /\ ena \subseteq Ancestry[b] /\ ret \subseteq Ancestry[s.best] /\ b \in Ancestry[b]
        /\ ret \cap Ancestry[b] = {}
        /\ \A x \in Ancestry[b] : x = b \/ x \in ena \/ x \in Ancestry[s.best]
        /\ \A x \in Ancestry[s.best] : x \in ret \/ x \in Ancestry[b]
        /\ Ancestry[s.best] \subseteq Blocks /\ Ancestry[b] \subseteq Blocks /\ s.best \in Blocks
    BY <1>4, NewChain
  <2> HIDE DEF ena, ret
  <2>3. /\ \A t, u \in Revealing(n, Ancestry[b]) : t = u
        /\ \A t, u \in Revealing(n, Ancestry[s.best]) : t = u
    BY <2>2, ValidityAssumption DEF Revealing
  <2>4. /\ Revealing(n, {b}) \subseteq Revealing(n, Ancestry[b])
        /\ Revealing(n, ena) \subseteq Revealing(n, Ancestry[b])
        /\ Revealing(n, ret) \subseteq Revealing(n, Ancestry[s.best])
        /\ Revealing(n, Ancestry[b]) \subseteq
              Revealing(n, {b}) \cup Revealing(n, ena) \cup Revealing(n, Ancestry[s.best])
        /\ Revealing(n, Ancestry[s.best]) \subseteq
              Revealing(n, ret) \cup Revealing(n, Ancestry[b])
    BY <2>2 DEF Revealing
  <2>5. ASSUME Revealing(n, {b}) = {}, Revealing(n, ena) = {}, Revealing(n, ret) # {}
        PROVE  Revealing(n, Ancestry[b]) = {}
    <3> SUFFICES ASSUME NEW t \in Revealing(n, Ancestry[b])
                 PROVE  FALSE
      OBVIOUS
    <3>1. PICK x \in Ancestry[b] : t \in Txs[x] /\ n \in NullifierSet[t]
      BY DEF Revealing
    <3>2. x \in Ancestry[s.best]
      BY <3>1, <2>2, <2>5 DEF Revealing
    <3>3. PICK y \in ret : \E u \in Txs[y] : n \in NullifierSet[u]
      BY <2>5 DEF Revealing
    <3>4. PICK u \in Txs[y] : n \in NullifierSet[u]
      BY <3>3
    <3>5. NullifierSet[t] \cap NullifierSet[u] # {}
      BY <3>1, <3>4
    <3>6. y \in Ancestry[s.best]
      BY <2>2
    <3>7. t = u
      BY <3>1, <3>2, <3>4, <3>5, <3>6, <2>2, ValidityAssumption
    <3>8. x = y
      BY <3>1, <3>2, <3>4, <3>6, <3>7, <2>2, ValidityAssumption
    <3> QED BY <3>1, <3>8, <2>2
  <2>6. CASE Revealing(n, {b}) # {}
    BY <2>1, <2>3, <2>4, <2>6
  <2>7. CASE Revealing(n, {b}) = {} /\ Revealing(n, ena) # {}
    BY <2>1, <2>3, <2>4, <2>7
  <2>8. CASE Revealing(n, {b}) = {} /\ Revealing(n, ena) = {} /\ Revealing(n, ret) # {}
    BY <2>1, <2>5, <2>8
  <2>9. CASE Revealing(n, {b}) = {} /\ Revealing(n, ena) = {} /\ Revealing(n, ret) = {}
    BY <2>1, <2>4, <1>2, <2>9
  <2> QED BY <2>6, <2>7, <2>8, <2>9
<1> QED BY <1>3, <1>4

(***************************************************************************)
(* An insertion stores the right tree for the new block, registers its     *)
(* root when it becomes the best block, and leaves no root registered that *)
(* belongs to retracted blocks only.                                       *)
(***************************************************************************)
LEMMA InsertAnchors ==
    ASSUME NEW s, StoreInv(s), NEW b \in Blocks, b # Genesis,
           Parent[b] \in s.bodies, ~IsKnownChild(s, b), NEW fin \in SUBSET Blocks
    PROVE  AnchorsIndexed(InsertBlock(s, b, fin))
<1> DEFINE new == InsertBlock(s, b, fin)
<1>1. /\ new.best = (IF BlockLocation(s, b) = "Branch" THEN s.best ELSE b)
      /\ new.details = s.details \cup {b}
      /\ new.sers = [s.sers EXCEPT ![b] = CommitmentTree(s, b)]
      /\ new.roots = PrepareCommitmentRootBlocksUpdate(s, b)
  BY DEF InsertBlock, PrepareBlockCommitmentSersUpdate
<1>2. /\ \A x \in s.details : s.sers[x] = TreeOf[x]
      /\ s.roots[TreeOf[s.best]] # NoBlock
      /\ \A r \in Roots : s.roots[r] # NoBlock => \E x \in Ancestry[s.best] : TreeOf[x] = r
      /\ s.sers \in [Blocks -> Roots]
  BY DEF StoreInv, AnchorsIndexed, Canon, Store
<1>3. /\ b \notin s.details /\ Parent[b] \in s.details /\ s.best \in s.details
      /\ s.details \subseteq Blocks
      /\ Ancestry[b] = {b} \cup Ancestry[Parent[b]]
      /\ CommitmentTree(s, b) = TreeOf[b]
  BY <1>2, NewBlock DEF CommitmentTree
<1> SUFFICES AnchorsIndexed(new)
  OBVIOUS
<1> HIDE DEF new
<1>4. \A x \in new.details : new.sers[x] = TreeOf[x]
  BY <1>1, <1>2, <1>3
<1>5. TreeOf[b] \in Roots /\ TreeOf[s.best] \in Roots /\ b # NoBlock
  BY <1>3, TreeAssumption DEF Roots
<1>6. CASE BlockLocation(s, b) = "Branch"
  BY <1>1, <1>2, <1>4, <1>5, <1>6, SMTT(30) DEF AnchorsIndexed, Canon, PrepareCommitmentRootBlocksUpdate
<1>7. CASE BlockLocation(s, b) # "Branch"
  <2>1. new.roots[TreeOf[b]] = b
    BY <1>1, <1>3, <1>5, <1>7 DEF PrepareCommitmentRootBlocksUpdate
  <2>2. /\ RetractedBy(s, b) \subseteq Ancestry[s.best]
        /\ \A x \in Ancestry[s.best] : x \in RetractedBy(s, b) \/ x \in Ancestry[b]
        /\ b \in Ancestry[b]
    BY <1>7, NewChain
  <2>3. ASSUME NEW r \in Roots, new.roots[r] # NoBlock
        PROVE  \E x \in Ancestry[b] : TreeOf[x] = r
    <3>1. CASE r = TreeOf[b]
      BY <3>1, <2>2
    <3>2. CASE r # TreeOf[b] /\ EnactedBy(s, b) # {} /\ r = s.sers[Parent[b]]
      <4>1. Parent[b] \in Ancestry[b]
        BY <1>3 DEF StoreInv, ChainsStored
      <4> QED BY <4>1, <3>2, <1>2, <1>3
    <3>3. CASE r # TreeOf[b] /\ ~(EnactedBy(s, b) # {} /\ r = s.sers[Parent[b]])
      <4>1. /\ ~ \E x \in RetractedBy(s, b) : r = s.sers[x]
            /\ new.roots[r] = s.roots[r]
        BY <3>3, <2>3, <1>1, <1>3, <1>7 DEF PrepareCommitmentRootBlocksUpdate
      <4>2. PICK x \in Ancestry[s.best] : TreeOf[x] = r
        BY <4>1, <2>3, <1>2
      <4>3. x \in s.details
        BY <1>3 DEF StoreInv, ChainsStored
      <4>4. x \notin RetractedBy(s, b)
        BY <4>1, <4>2, <4>3, <1>2
      <4> QED BY <4>2, <4>4, <2>2
    <3> QED BY <3>1, <3>2, <3>3
  <2>4. new.best = b
    BY <1>1, <1>7
  <2> QED BY <1>4, <1>5, <2>1, <2>3, <2>4 DEF AnchorsIndexed, Canon
<1> QED BY <1>6, <1>7

(***************************************************************************)
(* An insertion preserves the invariant of a store.                        *)
(***************************************************************************)
THEOREM InsertPreserves ==
    ASSUME NEW s, StoreInv(s), NEW b \in Blocks, b # Genesis,
           Parent[b] \in s.bodies, ~IsKnownChild(s, b), NEW fin \in SUBSET Blocks
    PROVE  StoreInv(InsertBlock(s, b, fin))
BY InsertType, InsertTree, InsertChains, InsertNumbers, InsertTransactions,
   InsertNullifiers, InsertAnchors DEF StoreInv

(***************************************************************************)
(* What BlockChain::new writes into an empty database satisfies the        *)
(* invariant.                                                              *)
(***************************************************************************)
LEMMA GenesisInv == StoreInv(GenesisStore)
<1> DEFINE g == GenesisStore
<1>1. /\ g.best = Genesis /\ g.bodies = {Genesis} /\ g.details = {Genesis}
      /\ g.children = [b \in Blocks |-> {}]
      /\ g.hashes = [n \in Heights |-> IF n = Number[Genesis] THEN Genesis ELSE NoBlock]
      /\ g.addresses = [t \in Transactions |-> NoBlock]
      /\ g.nullifiers = [n \in Nullifiers |-> NoTransaction]
      /\ g.sers = [b \in Blocks |-> TreeOf[Genesis]]
      /\ g.roots = [r \in Roots |-> IF r = TreeOf[Genesis] THEN Genesis ELSE NoBlock]
  BY DEF GenesisStore
<1>2. /\ Genesis \in Blocks /\ Genesis # NoBlock /\ Ancestry[Genesis] = {Genesis}
      /\ Number[Genesis] \in Heights /\ Number[Genesis] \in Nat
  BY TreeAssumption, BlockTypes
<1>3. TreeOf[Genesis] \in Roots
  BY <1>2 DEF Roots
<1>4. g \in Store
  <2>1. [b \in Blocks |-> IF b = Genesis THEN Difficulty[b] ELSE 0] \in [Blocks -> Nat]
    BY TreeAssumption
  <2> QED BY <1>2, <1>3, <2>1 DEF GenesisStore, Store
<1> SUFFICES StoreInv(g)
  OBVIOUS
<1> HIDE DEF g
<1>5. StoreIsTree(g)
  BY <1>1, <1>2 DEF StoreIsTree
<1>6. ChainsStored(g)
  BY <1>1, <1>2 DEF ChainsStored
<1>7. NumbersIndexed(g)
  BY <1>1, <1>2 DEF NumbersIndexed, Canon
<1>8. TransactionsIndexed(g)
  BY <1>1, <1>2, BodyAssumption, SMTT(30) DEF TransactionsIndexed, Canon
<1>9. NullifiersIndexed(g)
  <2>1. \A n \in Nullifiers : Revealing(n, {Genesis}) = {}
    BY BodyAssumption DEF Revealing
  <2> QED BY <2>1, <1>1, <1>2 DEF NullifiersIndexed, Canon
<1>10. AnchorsIndexed(g)
  BY <1>1, <1>2, <1>3 DEF AnchorsIndexed, Canon
<1> QED BY <1>4, <1>5, <1>6, <1>7, <1>8, <1>9, <1>10 DEF StoreInv

(***************************************************************************)
(* Finalizing more blocks of a store disturbs no index.                    *)
(***************************************************************************)
LEMMA MarkPreserves ==
    ASSUME NEW s, StoreInv(s), NEW more \in SUBSET Blocks
    PROVE  StoreInv([s EXCEPT !.finalized = more])
<1> DEFINE t == [s EXCEPT !.finalized = more]
<1>1. s \in Store
  BY DEF StoreInv
<1>2. /\ t.best = s.best /\ t.bodies = s.bodies /\ t.details = s.details
      /\ t.children = s.children /\ t.total = s.total /\ t.hashes = s.hashes
      /\ t.addresses = s.addresses /\ t.nullifiers = s.nullifiers
      /\ t.sers = s.sers /\ t.roots = s.roots
      /\ t \in Store
  BY <1>1 DEF Store
<1> SUFFICES StoreInv(t)
  OBVIOUS
<1> HIDE DEF t
<1> QED BY <1>2, SMTT(30) DEF StoreInv, StoreIsTree, ChainsStored, NumbersIndexed,
               TransactionsIndexed, NullifiersIndexed, AnchorsIndexed, Canon

(***************************************************************************)
(* What the engine finalizes are blocks.                                   *)
(***************************************************************************)
LEMMA ActionsAreBlocks ==
    ASSUME NEW s, NEW b \in Blocks, NEW fin \in AncestryActions(s, b)
    PROVE  fin \in SUBSET Blocks
BY BlockTypes DEF AncestryActions

(***************************************************************************)
(* The inductive invariant of the chain database: both stores satisfy the  *)
(* invariant of a store.                                                   *)
(***************************************************************************)
ChainInv ==
    /\ TypeOK
    /\ StoreInv(db)
    /\ StoreInv(disk)

(***************************************************************************)
(* An insertion writes sets of topics into the bloom files.                *)
(***************************************************************************)
LEMMA BloomsType ==
    ASSUME TypeOK, NEW b \in Blocks, b # Genesis
    PROVE  PrepareBlockBloomsUpdate(db, b) \in [Heights -> SUBSET Topics]
<1>1. \A x \in Blocks : LogBloom[x] \in SUBSET Topics
  BY BodyAssumption
<1>2. blooms \in [Heights -> SUBSET Topics]
  BY DEF TypeOK
<1> SUFFICES ASSUME NEW n \in Heights
             PROVE  PrepareBlockBloomsUpdate(db, b)[n] \in SUBSET Topics
  BY DEF PrepareBlockBloomsUpdate
<1>3. CASE BlockLocation(db, b) \in {"Branch", "CanonChain"}
  BY <1>1, <1>2, <1>3 DEF PrepareBlockBloomsUpdate
<1>4. CASE BlockLocation(db, b) \notin {"Branch", "CanonChain"}
  <2>1. EnactedBy(db, b) \subseteq Blocks
    BY TreeAssumption, BlockTypes DEF EnactedBy, Enacted
  <2>2. PrepareBlockBloomsUpdate(db, b)[n] =
           IF n = Number[b] THEN LogBloom[b]
           ELSE IF \E x \in EnactedBy(db, b) : Number[x] = n
                THEN LogBloom[CHOOSE x \in EnactedBy(db, b) : Number[x] = n]
           ELSE blooms[n]
    BY <1>4 DEF PrepareBlockBloomsUpdate
  <2> QED BY <1>1, <1>2, <2>1, <2>2
<1> QED BY <1>3, <1>4

(***************************************************************************)
(* A commit, of a new block or of a known one, preserves the invariant.    *)
(***************************************************************************)
LEMMA CommitPreserves ==
    ASSUME ChainInv, NEW b \in Blocks, NEW fin \in AncestryActions(db, b), CommitBlock(b, fin)
    PROVE  ChainInv'
<1>1. fin \in SUBSET Blocks
  BY ActionsAreBlocks
<1>2. /\ b # Genesis /\ Parent[b] \in db.bodies
      /\ disk' = disk /\ status' = status /\ lost' = lost
      /\ StoreInv(db) /\ StoreInv(disk) /\ TypeOK
  BY DEF CommitBlock, Importable, ChainInv
<1>3. CASE IsKnownChild(db, b)
  <2>1. db' = [db EXCEPT !.finalized = MarkFinalized(db, fin \ {b})] /\ blooms' = blooms
    BY <1>3 DEF CommitBlock
  <2>2. MarkFinalized(db, fin \ {b}) \in SUBSET Blocks
    BY <1>1, <1>2 DEF MarkFinalized, StoreInv, Store
  <2>3. StoreInv(db')
    BY <1>2, <2>1, <2>2, MarkPreserves
  <2> QED BY <1>2, <2>1, <2>3 DEF ChainInv, TypeOK, StoreInv
<1>4. CASE ~IsKnownChild(db, b)
  <2>1. db' = InsertBlock(db, b, fin) /\ blooms' = PrepareBlockBloomsUpdate(db, b)
    BY <1>4 DEF CommitBlock
  <2>2. StoreInv(db')
    BY <1>1, <1>2, <1>4, <2>1, InsertPreserves
  <2>3. blooms' \in [Heights -> SUBSET Topics]
    BY <1>2, <2>1, BloomsType
  <2> QED BY <1>2, <2>1, <2>2, <2>3 DEF ChainInv, TypeOK, StoreInv
<1> QED BY <1>3, <1>4

(***************************************************************************)
(* The invariant holds in every reachable state: of the running store and  *)
(* of the one on disk, through commits, flushes, crashes and restarts.     *)
(***************************************************************************)
THEOREM ChainInvariant == Spec => []ChainInv
<1>1. Init => ChainInv
  <2> SUFFICES ASSUME Init PROVE ChainInv
    OBVIOUS
  <2>1. StoreInv(db) /\ StoreInv(disk)
    BY GenesisInv DEF Init
  <2>2. TypeOK
    BY <2>1 DEF Init, TypeOK, StoreInv
  <2> QED BY <2>1, <2>2 DEF ChainInv
<1>2. ChainInv /\ [Next]_chainVars => ChainInv'
  <2> SUFFICES ASSUME ChainInv, [Next]_chainVars PROVE ChainInv'
    OBVIOUS
  <2>1. ASSUME NEW b \in Blocks, NEW fin \in AncestryActions(db, b), CommitBlock(b, fin)
        PROVE  ChainInv'
    BY <2>1, CommitPreserves
  <2>2. CASE Flush
    BY <2>2 DEF Flush, ChainInv, TypeOK, StoreInv
  <2>3. CASE Crash
    BY <2>3 DEF Crash, ChainInv, TypeOK, StoreInv
  <2>4. CASE Restart
    BY <2>4 DEF Restart, ChainInv, TypeOK, StoreInv
  <2>5. CASE UNCHANGED chainVars
    BY <2>5 DEF chainVars, ChainInv, TypeOK, StoreInv
  <2> QED BY <2>1, <2>2, <2>3, <2>4, <2>5 DEF Next
<1> QED BY <1>1, <1>2, PTL DEF Spec

-----------------------------------------------------------------------------
(***************************************************************************)
(* Type correctness of the chain database.                                 *)
(***************************************************************************)
THEOREM TypeCorrect == Spec => []TypeOK
<1>1. ChainInv => TypeOK
  BY DEF ChainInv
<1> QED BY <1>1, ChainInvariant, PTL

(***************************************************************************)
(* The stored blocks always form a tree with complete chains, in the       *)
(* running store and in the one a restart reads.                           *)
(***************************************************************************)
THEOREM TreeAlwaysStored == Spec => []TreeStored
<1>1. ChainInv => TreeStored
  BY DEF ChainInv, StoreInv, TreeStored
<1> QED BY <1>1, ChainInvariant, PTL

(***************************************************************************)
(* block_hash answers with the canonical block for every number up to the  *)
(* best block's, after any sequence of insertions, reorganisations,        *)
(* crashes and restarts.                                                   *)
(***************************************************************************)
THEOREM NumbersCanonical == Spec => []CanonicalNumbers
<1>1. ChainInv => CanonicalNumbers
  BY DEF ChainInv, StoreInv, CanonicalNumbers
<1> QED BY <1>1, ChainInvariant, PTL

(***************************************************************************)
(* transaction_address answers exactly for the transactions of the         *)
(* canonical chain.                                                        *)
(***************************************************************************)
THEOREM TransactionsCanonical == Spec => []CanonicalTransactions
<1>1. ChainInv => CanonicalTransactions
  BY DEF ChainInv, StoreInv, CanonicalTransactions
<1> QED BY <1>1, ChainInvariant, PTL

(***************************************************************************)
(* nullifier_transaction answers exactly for the nullifiers revealed on    *)
(* the canonical chain.                                                    *)
(***************************************************************************)
THEOREM NullifiersCanonical == Spec => []CanonicalNullifiers
<1>1. ChainInv => CanonicalNullifiers
  BY DEF ChainInv, StoreInv, CanonicalNullifiers
<1> QED BY <1>1, ChainInvariant, PTL

(***************************************************************************)
(* Every stored commitment tree is the tree of its chain; the best block's *)
(* root is registered and only canonical roots are.                        *)
(***************************************************************************)
THEOREM AnchorsCanonical == Spec => []CanonicalAnchors
<1>1. ChainInv => CanonicalAnchors
  BY DEF ChainInv, StoreInv, CanonicalAnchors
<1> QED BY <1>1, ChainInvariant, PTL

(***************************************************************************)
(* The bodies a reorganisation loads are stored: the expect calls of the   *)
(* prepare functions never fail.                                           *)
(***************************************************************************)
THEOREM RouteBodiesAlwaysStored == Spec => []RouteBodiesStored
<1>1. ChainInv => RouteBodiesStored
  <2> SUFFICES ASSUME ChainInv, NEW b \in Blocks, Importable(b), ~IsKnownChild(db, b)
               PROVE  RouteBodies(db, b) \subseteq db.bodies
    BY DEF RouteBodiesStored
  <2>1. /\ StoreInv(db) /\ b # Genesis /\ Parent[b] \in db.bodies
    BY DEF ChainInv, Importable
  <2>2. Parent[b] \in db.details /\ db.best \in db.details
    BY <2>1, NewBlock
  <2>3. Ancestry[Parent[b]] \subseteq db.details /\ Ancestry[db.best] \subseteq db.details
    BY <2>1, <2>2 DEF StoreInv, ChainsStored
  <2> QED BY <2>1, <2>3 DEF RouteBodies, RetractedBy, EnactedBy, Retracted, Enacted,
                           StoreInv, StoreIsTree
<1> QED BY <1>1, ChainInvariant, PTL

(***************************************************************************)
(* A commit never retracts a finalized block that has a canonical block on *)
(* top of it: the block on top is on the route, and its parent is what     *)
(* tree_route looks at.                                                    *)
(***************************************************************************)
LEMMA RouteKeepsFinalized ==
    ASSUME NEW s, StoreInv(s), NEW b \in Blocks, b # Genesis,
           Parent[b] \in s.bodies, ~IsKnownChild(s, b),
           BlockLocation(s, b) # "Branch",
           NEW x \in Ancestry[s.best], x # s.best, x \in s.finalized
    PROVE  x \in Ancestry[b]
<1>1. /\ s.best \in s.details /\ Parent[b] \in s.details
      /\ Ancestry[b] = {b} \cup Ancestry[Parent[b]]
  BY NewBlock
<1>2. PICK z \in Ancestry[s.best] \ {Genesis} : Parent[z] = x
  BY <1>1 DEF StoreInv, ChainsStored
<1>3. z \notin Retracted(s.best, Parent[b])
  BY <1>2 DEF BlockLocation, ForkChoiceNew, IsFromRouteFinalized
<1>4. z \in Ancestry[Parent[b]] /\ z \in s.details
  BY <1>1, <1>3 DEF Retracted, StoreInv, ChainsStored
<1>5. z \in Blocks /\ Ancestry[z] = {z} \cup Ancestry[x] /\ x \in s.details
  BY <1>1, <1>2, <1>4, TreeAssumption DEF StoreInv, Store, StoreIsTree
<1>6. x \in Ancestry[x] /\ Ancestry[z] \subseteq Ancestry[Parent[b]]
  BY <1>1, <1>4, <1>5 DEF StoreInv, ChainsStored
<1> QED BY <1>1, <1>5, <1>6

(***************************************************************************)
(* No commit retracts a finalized block that has a canonical block on top  *)
(* of it, for every finality the engine may have.                          *)
(***************************************************************************)
THEOREM FinalizedParentsAlwaysStay == Spec => FinalizedParentsStay
<1> DEFINE Keeps == status' = "running" =>
                       (Canon(db) \ {db.best}) \cap db.finalized \subseteq Canon(db)'
<1>1. ChainInv /\ [Next]_chainVars => [Keeps]_chainVars
  <2> SUFFICES ASSUME ChainInv, Next PROVE Keeps
    OBVIOUS
  <2>1. ASSUME NEW b \in Blocks, NEW fin \in AncestryActions(db, b), CommitBlock(b, fin)
        PROVE  Keeps
    <3>1. b # Genesis /\ Parent[b] \in db.bodies /\ StoreInv(db) /\ db \in Store
      BY <2>1 DEF CommitBlock, Importable, ChainInv, StoreInv
    <3>2. CASE IsKnownChild(db, b)
      <4>1. db' = [db EXCEPT !.finalized = MarkFinalized(db, fin \ {b})]
        BY <2>1, <3>2 DEF CommitBlock
      <4>2. db'.best = db.best
        BY <3>1, <4>1 DEF Store
      <4> QED BY <4>2 DEF Canon
    <3>3. CASE ~IsKnownChild(db, b) /\ BlockLocation(db, b) = "Branch"
      <4>1. db'.best = db.best
        BY <2>1, <3>3 DEF CommitBlock, InsertBlock
      <4> QED BY <4>1 DEF Canon
    <3>4. CASE ~IsKnownChild(db, b) /\ BlockLocation(db, b) # "Branch"
      <4>1. db'.best = b
        BY <2>1, <3>4 DEF CommitBlock, InsertBlock
      <4>2. \A x \in Ancestry[db.best] : x # db.best /\ x \in db.finalized => x \in Ancestry[b]
        BY <3>1, <3>4, RouteKeepsFinalized
      <4> QED BY <4>1, <4>2 DEF Canon
    <3> QED BY <3>2, <3>3, <3>4
  <2>2. CASE Flush
    BY <2>2 DEF Flush, Canon
  <2>3. CASE Crash
    BY <2>3 DEF Crash
  <2>4. CASE Restart
    BY <2>4 DEF Restart, Canon
  <2> QED BY <2>1, <2>2, <2>3, <2>4 DEF Next
<1> QED BY <1>1, ChainInvariant, PTL DEF Spec, FinalizedParentsStay

(***************************************************************************)
(* As long as nothing is finalized no route forces the old chain, and an   *)
(* insertion leaves the best block a heaviest one.                         *)
(***************************************************************************)
LEMMA InsertHeaviest ==
    ASSUME NEW s, StoreInv(s), s.finalized = {}, HeaviestChain(s), NEW fin,
           NEW b \in Blocks, b # Genesis, Parent[b] \in s.bodies, ~IsKnownChild(s, b)
    PROVE  HeaviestChain(InsertBlock(s, b, fin))
<1> DEFINE new == InsertBlock(s, b, fin)
<1>1. /\ new.best = (IF BlockLocation(s, b) = "Branch" THEN s.best ELSE b)
      /\ new.details = s.details \cup {b}
      /\ new.total = [s.total EXCEPT ![b] = s.total[Parent[b]] + Difficulty[b]]
  BY DEF InsertBlock
<1>2. /\ b \notin s.details /\ Parent[b] \in s.details /\ s.best \in s.details
      /\ s.details \subseteq Blocks
  BY NewBlock
<1>3. /\ s.total \in [Blocks -> Nat] /\ Difficulty[b] \in Nat
      /\ \A x \in s.details : s.total[x] \in Nat
  BY <1>2, TreeAssumption DEF StoreInv, Store
<1>4. BlockLocation(s, b) = "Branch" <=> ~(s.total[Parent[b]] + Difficulty[b] > s.total[s.best])
  BY DEF BlockLocation, ForkChoiceNew, IsFromRouteFinalized
<1>5. \A x \in s.details : s.total[x] <= s.total[s.best]
  BY DEF HeaviestChain
<1>6. /\ new.total[b] = s.total[Parent[b]] + Difficulty[b]
      /\ \A x \in s.details : new.total[x] = s.total[x]
  BY <1>1, <1>2, <1>3
<1> SUFFICES HeaviestChain(new)
  OBVIOUS
<1> HIDE DEF new
<1>7. \A x \in new.details : new.total[x] <= new.total[new.best]
  <2>1. CASE BlockLocation(s, b) = "Branch"
    BY <2>1, <1>1, <1>2, <1>3, <1>4, <1>5, <1>6
  <2>2. CASE BlockLocation(s, b) # "Branch"
    BY <2>2, <1>1, <1>2, <1>3, <1>4, <1>5, <1>6, SMTT(30)
  <2> QED BY <2>1, <2>2
<1> QED BY <1>7 DEF HeaviestChain

(***************************************************************************)
(* The node follows a heaviest stored chain until the engine finalizes a   *)
(* block; a mark is never taken back, so an unmarked store has never had   *)
(* one.                                                                    *)
(***************************************************************************)
THEOREM BestAlwaysHeaviest == Spec => []BestIsHeaviest
<1>1. Init => BestIsHeaviest
  <2> DEFINE g == GenesisStore
  <2>1. /\ g.best = Genesis /\ g.details = {Genesis}
        /\ g.total[Genesis] = Difficulty[Genesis]
    BY TreeAssumption DEF GenesisStore
  <2>2. Difficulty[Genesis] \in Nat
    BY TreeAssumption
  <2> HIDE DEF g
  <2>3. HeaviestChain(g)
    BY <2>1, <2>2, SMTT(30) DEF HeaviestChain
  <2> QED BY <2>3 DEF Init, BestIsHeaviest, g
<1>2. ChainInv /\ BestIsHeaviest /\ [Next]_chainVars => BestIsHeaviest'
  <2> DEFINE Good(s) == s.finalized = {} => HeaviestChain(s)
  <2> SUFFICES ASSUME ChainInv, BestIsHeaviest, [Next]_chainVars
               PROVE  Good(db') /\ Good(disk')
    BY DEF BestIsHeaviest, HeaviestChain
  <2>1. Good(db) /\ Good(disk)
    BY DEF BestIsHeaviest
  <2>2. ASSUME NEW b \in Blocks, NEW fin \in AncestryActions(db, b), CommitBlock(b, fin)
        PROVE  Good(db') /\ disk' = disk
    <3>1. /\ b # Genesis /\ Parent[b] \in db.bodies /\ StoreInv(db) /\ db \in Store
          /\ disk' = disk
      BY <2>2 DEF CommitBlock, Importable, ChainInv, StoreInv
    <3>2. CASE IsKnownChild(db, b)
      <4>1. db' = [db EXCEPT !.finalized = db.finalized \cup (fin \ {b})]
        BY <2>2, <3>2 DEF CommitBlock, MarkFinalized
      <4>2. /\ db'.finalized = db.finalized \cup (fin \ {b})
            /\ db'.details = db.details /\ db'.total = db.total /\ db'.best = db.best
        BY <3>1, <4>1 DEF Store
      <4> QED BY <2>1, <3>1, <4>2 DEF HeaviestChain
    <3>3. CASE ~IsKnownChild(db, b)
      <4>1. db' = InsertBlock(db, b, fin)
        BY <2>2, <3>3 DEF CommitBlock
      <4>2. db'.finalized = {} => db.finalized = {}
        BY <4>1 DEF InsertBlock, PrepareFinalized
      <4> QED BY <2>1, <3>1, <3>3, <4>1, <4>2, InsertHeaviest
    <3> QED BY <3>2, <3>3
  <2>3. CASE Flush
    BY <2>1, <2>3 DEF Flush
  <2>4. CASE Crash
    BY <2>1, <2>4 DEF Crash
  <2>5. CASE Restart
    BY <2>1, <2>5 DEF Restart
  <2>6. CASE UNCHANGED chainVars
    BY <2>1, <2>6 DEF chainVars
  <2> QED BY <2>1, <2>2, <2>3, <2>4, <2>5, <2>6 DEF Next
<1> QED BY <1>1, <1>2, ChainInvariant, PTL DEF Spec

-----------------------------------------------------------------------------
(***************************************************************************)
(* An insertion writes the blooms of the enacted blocks and of the new one *)
(* at their numbers, and leaves those of the shared part alone.            *)
(***************************************************************************)
LEMMA InsertBlooms ==
    ASSUME ChainInv, LogsFound, NEW b \in Blocks, b # Genesis,
           Parent[b] \in db.bodies, ~IsKnownChild(db, b), BlockLocation(db, b) # "Branch"
    PROVE  \A x \in Ancestry[b] : LogBloom[x] \subseteq PrepareBlockBloomsUpdate(db, b)[Number[x]]
<1> DEFINE new == PrepareBlockBloomsUpdate(db, b)
           ena == EnactedBy(db, b)
<1>1. StoreInv(db)
  BY DEF ChainInv
<1>2. /\ Parent[b] \in db.details /\ Parent[b] \in Blocks /\ db.details \subseteq Blocks
      /\ Ancestry[b] = {b} \cup Ancestry[Parent[b]]
      /\ Number[b] = Number[Parent[b]] + 1
  BY <1>1, NewBlock
<1>3. \A x \in Ancestry[db.best] : LogBloom[x] \subseteq blooms[Number[x]]
  BY DEF LogsFound, Canon
<1>4. /\ \A y, z \in Ancestry[Parent[b]] : Number[y] = Number[z] => y = z
      /\ \A y \in Ancestry[Parent[b]] : Number[y] <= Number[Parent[b]]
  BY <1>1, <1>2 DEF StoreInv, ChainsStored
<1>5. /\ \A y \in Ancestry[Parent[b]] : Number[y] \in Heights /\ Number[y] # Number[b]
      /\ Number[b] \in Heights
  BY <1>2, <1>4, BlockTypes, SMTT(30)
<1>6. CASE BlockLocation(db, b) = "CanonChain"
  <2>1. Parent[b] = db.best
    BY <1>6 DEF BlockLocation
  <2>2. \A n \in Heights : new[n] = IF n = Number[b] /\ LogBloom[b] # {} THEN LogBloom[b] ELSE blooms[n]
    BY <1>6 DEF PrepareBlockBloomsUpdate
  <2> HIDE DEF new
  <2>3. LogBloom[b] \subseteq new[Number[b]]
    BY <1>5, <2>2
  <2>4. ASSUME NEW x \in Ancestry[Parent[b]]
        PROVE  LogBloom[x] \subseteq new[Number[x]]
    BY <1>3, <1>5, <2>1, <2>2
  <2> QED BY <1>2, <2>3, <2>4 DEF new
<1>7. CASE BlockLocation(db, b) # "CanonChain"
  <2>1. ena = Ancestry[Parent[b]] \ Ancestry[db.best]
    BY RouteSets
  <2>2. \A n \in Heights :
           new[n] = IF n = Number[b] THEN LogBloom[b]
                    ELSE IF \E x \in ena : Number[x] = n
                         THEN LogBloom[CHOOSE x \in ena : Number[x] = n]
                    ELSE blooms[n]
    BY <1>7 DEF PrepareBlockBloomsUpdate
  <2> HIDE DEF new, ena
  <2>3. LogBloom[b] \subseteq new[Number[b]]
    BY <1>5, <2>2
  <2>4. ASSUME NEW x \in ena
        PROVE  LogBloom[x] \subseteq new[Number[x]]
    <3>1. x \in Ancestry[Parent[b]] /\ \A y \in ena : Number[y] = Number[x] => y = x
      BY <2>1, <1>4
    <3>2. (CHOOSE y \in ena : Number[y] = Number[x]) = x
      BY <3>1
    <3> QED BY <3>1, <3>2, <1>5, <2>2
  <2>5. ASSUME NEW x \in Ancestry[Parent[b]], x \notin ena
        PROVE  LogBloom[x] \subseteq new[Number[x]]
    <3>1. x \in Ancestry[db.best] /\ ~ \E y \in ena : Number[y] = Number[x]
      BY <2>1, <2>5, <1>4
    <3> QED BY <3>1, <1>3, <1>5, <2>2
  <2> QED BY <1>2, <2>3, <2>4, <2>5 DEF new
<1> QED BY <1>6, <1>7

(***************************************************************************)
(* Unless a crash has lost a commit, the bloom files cover the logs of     *)
(* every canonical block.                                                  *)
(***************************************************************************)
THEOREM LogsAlwaysFoundWithoutLoss == Spec => []LogsFoundWithoutLoss
<1>1. Init => LogsFoundWithoutLoss
  <2> SUFFICES ASSUME Init PROVE LogsFound
    BY DEF LogsFoundWithoutLoss
  <2>1. db.best = Genesis /\ Ancestry[Genesis] = {Genesis} /\ LogBloom[Genesis] = {}
    BY TreeAssumption, BodyAssumption DEF Init, GenesisStore
  <2> QED BY <2>1 DEF LogsFound, Canon
<1>2. ChainInv /\ LogsFoundWithoutLoss /\ [Next]_chainVars => LogsFoundWithoutLoss'
  <2> SUFFICES ASSUME ChainInv, LogsFoundWithoutLoss, [Next]_chainVars, ~lost'
               PROVE  LogsFound'
    BY DEF LogsFoundWithoutLoss
  <2>1. ASSUME NEW b \in Blocks, NEW fin \in AncestryActions(db, b), CommitBlock(b, fin)
        PROVE  LogsFound'
    <3>1. /\ b # Genesis /\ Parent[b] \in db.bodies /\ StoreInv(db) /\ db \in Store
          /\ LogsFound
      BY <2>1 DEF CommitBlock, Importable, ChainInv, StoreInv, LogsFoundWithoutLoss
    <3>2. CASE IsKnownChild(db, b)
      <4>1. db' = [db EXCEPT !.finalized = MarkFinalized(db, fin \ {b})] /\ blooms' = blooms
        BY <2>1, <3>2 DEF CommitBlock
      <4>2. db'.best = db.best
        BY <3>1, <4>1 DEF Store
      <4> QED BY <3>1, <4>1, <4>2 DEF LogsFound, Canon
    <3>3. CASE ~IsKnownChild(db, b) /\ BlockLocation(db, b) = "Branch"
      <4>1. db'.best = db.best /\ blooms' = PrepareBlockBloomsUpdate(db, b)
        BY <2>1, <3>3 DEF CommitBlock, InsertBlock
      <4>2. \A n \in Heights : blooms'[n] = blooms[n]
        BY <3>3, <4>1 DEF PrepareBlockBloomsUpdate
      <4>3. \A x \in Ancestry[db.best] : Number[x] \in Heights
        BY <3>1, BlockTypes DEF StoreInv, StoreIsTree, Store
      <4> QED BY <3>1, <4>1, <4>2, <4>3 DEF LogsFound, Canon
    <3>4. CASE ~IsKnownChild(db, b) /\ BlockLocation(db, b) # "Branch"
      <4>1. db'.best = b /\ blooms' = PrepareBlockBloomsUpdate(db, b)
        BY <2>1, <3>4 DEF CommitBlock, InsertBlock
      <4> QED BY <3>1, <3>4, <4>1, InsertBlooms DEF LogsFound, Canon
    <3> QED BY <3>2, <3>3, <3>4
  <2>2. CASE Flush
    BY <2>2 DEF Flush, LogsFoundWithoutLoss, LogsFound, Canon
  <2>3. CASE Crash
    BY <2>3 DEF Crash, LogsFoundWithoutLoss, LogsFound, Canon
  <2>4. CASE Restart
    BY <2>4 DEF Restart, LogsFoundWithoutLoss, LogsFound, Canon
  <2>5. CASE UNCHANGED chainVars
    BY <2>5 DEF chainVars, LogsFoundWithoutLoss, LogsFound, Canon
  <2> QED BY <2>1, <2>2, <2>3, <2>4, <2>5 DEF Next
<1> QED BY <1>1, <1>2, ChainInvariant, PTL DEF Spec
=============================================================================
