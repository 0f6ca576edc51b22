SPECIFICATION BlockSpec
CONSTANTS
    c1 = c1
    c2 = c2
    c3 = c3
    c4 = c4
    Root = c1
    Cell <- FourCells
    Dags <- SmallDags
INVARIANTS
    EachCellOnce
    ReturnedCellsClosed
    HandsOverCellGraph
    BlockComesBack
