CONSTANTS
    PosnPairs <- MCSmallPairs
    ContextAt <- MCContextAt
    NoFile = NoFile
    PartialFile = PartialFile
    NoContext = NoContext
    WriteMayFail = TRUE
SPECIFICATION CSpec
\* When every write of the generator failed there is no test to run and the
\* harness stops.
CHECK_DEADLOCK FALSE
INVARIANTS
    NoSilentPass
    BaselineIsFullOutput
