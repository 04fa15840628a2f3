CONSTANTS
    Transactions <- Two
    NoTransaction = "no transaction"
    Nullifiers = {"n1", "n2"}
    NullifierSet <- MCNullifierSet
    GasPrice <- MCGasPrice
    Threads = {a, b}
    Free = "free"
    MaxCount = 1
    Numbers = {1, 2}
    NoCache = NoCache
SPECIFICATION Spec
INVARIANT CachedPendingComplete
SYMMETRY ThreadSymmetry
CHECK_DEADLOCK FALSE
