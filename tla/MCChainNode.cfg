CONSTANTS
    Blocks <- MCBlocks
    Genesis = "g"
    NoBlock = "none"
    Parent <- MCParent
    Heights = {0, 1, 2, 3}
    Number <- MCNumber
    Difficulty <- MCDifficulty
    Ancestry <- MCAncestry
    Transactions = {"strangers", "pay", "spend", "spendb"}
    NoTransaction = "no transaction"
    Txs <- MCTxs
    Nullifiers <- MCNullifiers
    NullifierSet <- MCNullifierSet
    Outputs <- MCOutputs
    TreeOf <- MCTreeOf
    Topics = {}
    LogBloom <- MCLogBloom
    Finality = FALSE
    Gwei = 32
    TotalReward = 720
    BlockCountEachEra = 2
    ProductionRate = 100
    MaxUncles = 2
    MaxEra = 50
    UncleNumbers <- MCUncleNumbers
    Addresses = {"alice", "bob"}
    PrivateTxs <- MCPrivateTxs
    Recipients <- MCRecipients
    MaxReset = 3

SPECIFICATION NodeSpec

VIEW MCView

INVARIANTS
    RewardsFollowChain
    SupplyBounded
    EngineKnowsEras
    ResetNumbers
    CanonicalBodies
    WalletIndexed
    NotesFollowChain
    PositionsMatchChain
    SpentNotesMarked
