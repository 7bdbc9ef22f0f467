\* Which requests the daemon can tell apart, and which texts are JSON.
CONSTANTS
    Calls <- MCCalls
    NonFinite <- MCNonFinite
    DigitsOf <- MCDigitsOf
    GoldenSeed = 77
SPECIFICATION Spec
INVARIANTS
    CreateTableAsMeant
    CommitAsMeant
    QueryAsMeant
    SpoiledOnlyByExtremes
