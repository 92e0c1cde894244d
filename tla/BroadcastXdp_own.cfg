CONSTANTS
    CompSize = 4
    DATA_SIZE = 2
    BitmapBits = 5
    WordBits = 4
    KeepWindow = 1
    OwnFrames = TRUE
SPECIFICATION Spec
CHECK_DEADLOCK FALSE
INVARIANTS
    SavedIsWhole
