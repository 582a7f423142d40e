CONSTANTS
    PosnPairs <- MCPosnPairs
    ContextAt <- MCContextAt
    NoFile = NoFile
    PartialFile = PartialFile
    NoContext = NoContext
    WriteMayFail = FALSE
SPECIFICATION CSpec
INVARIANTS
    EveryPairGenerated
