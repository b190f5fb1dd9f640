SPECIFICATION Spec
CONSTANTS
    c1 = c1
    c2 = c2
    Clients = {c1, c2}
    Ctims = {}
    Ptims = {0}
    RamTableSize = 4
    Counters = 2
    Sources = 3
    PtimSizes = {1}
    HardMasks = {{0, 2}, {1}}
SYMMETRY Symmetry
INVARIANTS
    ClosedIsForgotten
