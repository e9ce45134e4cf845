SPECIFICATION Spec
CONSTANTS
    MCBlocks = {"g", "c1", "a2", "a3", "d1", "x3", "q0", "q1"}
    Blocks <- OfferedBlocks
    NoBlock = NoBlock
    GenesisChallenge = GenesisChallenge
    ZeroHash = ZeroHash
    MaxHeight <- MCMaxHeight
    Parent <- MCParent
    HeightOf <- MCHeightOf
    Weight <- MCWeight
    Anc <- MCAnc
    Coins <- MCCoins
    Adds <- MCAdds
    Spends <- MCSpends
    PreError <- SomePreErrors
    BlocksCacheSize = 2
    PreValDepth = 0
    Faults = {"release_fails", "release_cancelled"}
INVARIANTS
    LedgerUnlessAstray
    PeakSurvives
