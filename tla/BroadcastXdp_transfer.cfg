CONSTANTS
    CompSize = 7
    DATA_SIZE = 2
    BitmapBits = 5
    WordBits = 4
    KeepWindow = 2
    OwnFrames = FALSE
SPECIFICATION FairSpec
CHECK_DEADLOCK FALSE
INVARIANTS
    TypeOK
    ExitMeansSaved
    SavedIsWhole
    XdpInv
PROPERTIES
    ImplementsTransfer
    ImplementsFairTransfer
