CONSTANTS
    h1 = h1
    h2 = h2
    h3 = h3
    l1 = l1
    l2 = l2
    a1 = a1
    a2 = a2
    Holders <- MCHolders
    Locs <- MCLocs
    Anns <- MCAnns
    MaxRecords <- MCMaxRecords
SPECIFICATION Spec
SYMMETRY MCSymmetry
INVARIANTS
    ExactlyOnce
PROPERTIES
    SlotsGrowAtEnd
