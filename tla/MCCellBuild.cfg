SPECIFICATION Spec
CONSTANT Graphs <- SmallGraphs
INVARIANTS
    VisitedOnce
    SortedAfterRefs
    ChecksHold
    BlockRebuilt
