CONSTANTS
    Blocks <- MCBlocks
    Genesis = "g"
    NoBlock = "none"
    Parent <- MCParent
    Heights = {0, 1, 2, 3}
    Number <- MCNumber
    Difficulty <- MCDifficulty
    Ancestry <- MCAncestry
    Transactions = {"t1", "t2", "t3", "t4"}
    NoTransaction = "no transaction"
    Txs <- MCTxs
    Nullifiers = {"n1", "n3"}
    NullifierSet <- MCNullifierSet
    Outputs <- MCOutputs
    TreeOf <- MCTreeOf
    Topics = {"p", "q"}
    LogBloom <- MCLogBloom

SPECIFICATION Spec

CHECK_DEADLOCK FALSE

INVARIANTS
    
    NoneMeansUnknown

PROPERTY
    Terminates
