SPECIFICATION ByteSpec
CONSTANTS
    Code <- SmallCode
    Data <- SmallData
PROPERTIES
    BytesArrive
