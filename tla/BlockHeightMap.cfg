SPECIFICATION Spec
CONSTANTS
    Blocks <- MCBlocks
    NoBlock = NoBlock
    GenesisChallenge = GenesisChallenge
    ZeroHash = ZeroHash
    MaxHeight <- MCMaxHeight
    Parent <- MCParent
    HeightOf <- MCHeightOf
    Weight <- MCWeight
    Anc <- MCAnc
    Coins <- NoCoins
    Adds <- NoneEach
    Spends <- NoneEach
    PreError <- NoPreError
    FlushThreshold = 2
    SesBlocks = {"c1", "a2", "a4", "b3", "b4", "b5"}
INVARIANTS
    HashesMatchChain
    SesMatchChain
