SPECIFICATION Spec
CONSTANTS
    MCBlocks = {"g", "c1", "a2", "a3", "b2", "b3", "b4", "x3", "y3", "z4", "q0", "q1", "d1"}
    Blocks <- OfferedBlocks
    NoBlock = NoBlock
    GenesisChallenge = GenesisChallenge
    ZeroHash = ZeroHash
    MaxHeight <- MCMaxHeight
    Parent <- MCParent
    HeightOf <- MCHeightOf
    Weight <- MCWeight
    Anc <- MCAnc
    Coins <- MCCoins
    Adds <- MCAdds
    Spends <- MCSpends
    PreError <- NoPreError
INVARIANTS
    LookupCorrect
    FindCorrect
PROPERTIES
    Terminates
CHECK_DEADLOCK FALSE
