SPECIFICATION Spec
CONSTANTS
    Tables <- SmallTables
    MaxMessage = 2
INVARIANTS
    TypeOK
    OrderDetermined
    CodesUsable
    CodesOptimal
    DecodesWhatWasEncoded
