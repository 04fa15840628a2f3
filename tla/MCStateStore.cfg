CONSTANTS
    Blocks <- MCBlocks
    Genesis = "g"
    NoBlock = "none"
    Parent <- MCParent
    Heights = {0, 1, 2, 3}
    Number <- MCNumber
    Difficulty <- MCDifficulty
    Ancestry <- MCAncestry
    Transactions = {}
    NoTransaction = "no transaction"
    Txs <- MCNothing
    Nullifiers = {}
    NullifierSet <- MCNoNullifiers
    Outputs <- MCNoOutputs
    TreeOf <- MCNoOutputs
    Topics = {}
    LogBloom <- MCNothing
    Finality = FALSE
    Keys <- MCKeys
    Eras = {0, 1, 2, 3}
    NoEra = 1000
    Addresses = {"x", "y"}
    Missing = "missing"
    NotCached = "not cached"
    StateCacheBlocks = 2
    Values <- MCValues
    Dirty <- MCDirty
    History = 1
    MaxRecords = 2
    MaxReset = 1
    MaxResets = 2

SPECIFICATION StoreSpec

VIEW MCView

INVARIANTS
    StatesReadable
    CanReconstruct
    CacheCoherent
    BestRootKept
