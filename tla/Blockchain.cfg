SPECIFICATION Spec
CONSTANTS
    MCBlocks = {"g", "c1", "a2", "a3", "b2", "b3", "b4", "x3", "y3", "z4"}
    Blocks <- OfferedBlocks
    NoBlock = NoBlock
    GenesisChallenge = GenesisChallenge
    ZeroHash = ZeroHash
    MaxHeight <- MCMaxHeight
    Parent <- MCParent
    HeightOf <- MCHeightOf
    Weight <- MCWeight
    Anc <- MCAnc
    Coins <- MCCoins
    Adds <- MCAdds
    Spends <- MCSpends
    PreError <- NoPreError
    BlocksCacheSize = 2
    PreValDepth = 0
    Faults = {}
INVARIANTS
    TypeOK
    LedgerMatchesPeak
    StoredChainsValid
    RejectedIsInvalid
    ValidatedApplies
    PeakIsHeaviest
    PeakAvailable
    CachesBacked
    CarriedForkInfoOK
PROPERTIES
    PeakAdvances
    ImplementsLedger
