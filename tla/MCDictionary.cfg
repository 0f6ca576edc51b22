SPECIFICATION DictSpec
CONSTANTS
    TrainingSets <- SmallTrainingSets
    MaxDictSizes = {5, 9}
    MinMatchLength = 2
INVARIANTS
    CountsRight
    QueueFits
    KeptApart
    ChecksHold
