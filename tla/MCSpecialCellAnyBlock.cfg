SPECIFICATION CellSpec
CONSTANTS
    Cases <- AnyCases
    HashBits = 3
    RangeChunk = 5
INVARIANTS
    CellComesBack
