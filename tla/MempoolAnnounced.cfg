SPECIFICATION Spec
CONSTANTS
    NoBlock = NoBlock
    GenesisChallenge = GenesisChallenge
    ZeroHash = ZeroHash
    NoTx = NoTx
    MCBlocks = {"g", "c1", "a2", "a3", "a4", "b2", "b3"}
    MCTxs = {"s", "u"}
    Blocks <- MCBlocks
    MaxHeight <- MCMaxHeight
    Parent <- TheParent
    HeightOf <- TheHeightOf
    Weight <- TheWeight
    Anc <- MCAnc
    Coins <- MCCoins
    Adds <- MCAdds
    Spends <- MCSpends
    PreError <- NoPreError
    TxBlocks <- MCTxBlocks
    LastTx <- TheLastTx
    Txs <- TheTxs
    TxSpends <- TheSpends
    Dedup <- TheDedup
    Solution <- TheSolution
    SpendCost = 1
    Fee <- TheFee
    Cost <- TheCost
    AssertHeight <- TheFrom
    BeforeHeight <- TheUntil
    Never = 99
    MaxTotalCost = 4
    MaxBlockCost = 4
    MinFpc = 1
    MinFeeIncrease = 1
    CacheMaxCost = 4
    Soon = 3
    Tasks = {k1}
    SeenMax = 2
    MaxFaults = 1
INVARIANT
    AnnouncedPresent
CHECK_DEADLOCK FALSE
