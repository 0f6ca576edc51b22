SPECIFICATION DictSpec
CONSTANTS
    TrainingSets <- SmallTrainingSets
    MaxDictSizes = {5}
    MinMatchLength = 2
INVARIANTS
    CountsDistinctStrings
