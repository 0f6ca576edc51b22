SPECIFICATION Spec
CONSTANTS
    Blocks <- SmallBlocks
    D1Code <- SmallD1Code
    SizeCode <- SmallSizeCode
    MinMatchLen = 3
INVARIANTS
    OutputIsPrefix
    CellGuessedRight
    WrittenBitsFound
    TokensDenoteBits
    ChecksHold
PROPERTIES
    FieldsTransferred
