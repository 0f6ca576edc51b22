SPECIFICATION Spec
CONSTANT Graphs <- SmallGraphs
INVARIANTS
    TypeOK
    SetKeysFresh
    DegreeCountsPending
    ChecksHold
    TopologicalOrder
    RootLast
    SameGraph
PROPERTY Terminates
