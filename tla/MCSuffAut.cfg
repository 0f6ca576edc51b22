SPECIFICATION Spec
CONSTANTS
    Texts <- SmallTexts
    MinMatchLen = 2
INVARIANTS
    AutomatonOfText
    NotedSuffixIsLast
    ReserveEnough
PROPERTIES
    FindsBestMatches
