SPECIFICATION Spec
CONSTANTS
    MCBlocks = {"g", "c1", "a2", "b2", "y3"}
    Blocks <- OfferedBlocks
    NoBlock = NoBlock
    GenesisChallenge = GenesisChallenge
    ZeroHash = ZeroHash
    MaxHeight <- MCMaxHeight
    Parent <- MCParent
    HeightOf <- MCHeightOf
    Weight <- MCWeight
    Anc <- MCAnc
    Coins <- MCCoins
    Adds <- MCAdds
    Spends <- MCSpends
    PreError <- NoPreError
    BlocksCacheSize = 2
    PreValDepth = 0
    Faults = {"release_cancelled"}
INVARIANTS
    StoredChainsValid
