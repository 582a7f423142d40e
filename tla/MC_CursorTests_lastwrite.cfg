\* The generator over the short batch, which names (28, 14) twice, with
\* writes that succeed, followed by the harness.
CONSTANTS
    PosnPairs <- MCSmallPairs
    ContextAt <- MCContextAt
    NoFile = NoFile
    PartialFile = PartialFile
    NoContext = NoContext
    WriteMayFail = FALSE
SPECIFICATION CSpec
INVARIANTS
    LastWriteWins
