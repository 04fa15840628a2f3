CONSTANTS
    Transactions <- MCTransactions
    NoTransaction = "no transaction"
    Nullifiers = {"n1", "n2"}
    NullifierSet <- MCNullifierSet
    GasPrice <- MCGasPrice
    Threads = {"a"}
    Free = "free"
    MaxCount = 2
    Numbers = {1, 2}
    NoCache = NoCache
SPECIFICATION FairSpec
INVARIANT NullifiersRecorded
 
