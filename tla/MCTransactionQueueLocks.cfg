CONSTANTS
    Transactions <- MCTransactions
    NoTransaction = "no transaction"
    Nullifiers = {"n1", "n2"}
    NullifierSet <- MCNullifierSet
    GasPrice <- MCGasPrice
    Threads = {"a", "b"}
    Free = "free"
    MaxCount = 2
    Numbers = {1}
    NoCache = NoCache
SPECIFICATION FairSpec
PROPERTY CallsReturn
CHECK_DEADLOCK FALSE
