SPECIFICATION CellSpec
CONSTANTS
    Cases <- UsualCases
    HashBits = 3
    RangeChunk = 5
INVARIANTS
    CellComesBack
    ChecksHold
