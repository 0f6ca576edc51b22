SPECIFICATION Spec
CONSTANTS
    Code <- SmallCode
    Chunk <- SmallChunk
    HeaderBits = 3
    Streams <- SmallStreams
INVARIANTS
    InStepToTheMark
PROPERTIES
    TokensArrive
