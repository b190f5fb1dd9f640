SPECIFICATION Spec
CONSTANTS
    c1 = c1
    c2 = c2
    Clients = {c1, c2}
    Ctims = {1}
    Ptims = {1}
    RamTableSize = 4
    Counters = 2
    Sources = 3
    PtimSizes = {0, 1, 3}
    HardMasks = {{0, 2}, {1}}
SYMMETRY Symmetry
INVARIANTS
    ClosedIsForgotten
    TableConsistent
PROPERTIES
    NobodyElseDeafened
