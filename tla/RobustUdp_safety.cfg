CONSTANTS
    c1 = c1
    c2 = c2
    NoClient = NoClient
    Clients = {c1}
    CompSize <- Five
    DATA_SIZE = 2
    BitmapBits = 4
    UINT_MAX = 12
    KeepWindow = 1
SPECIFICATION Spec
CHECK_DEADLOCK FALSE
INVARIANTS
    TypeOK
    ErasedIsHeld
    ExitMeansHeld
    FinMeansSaved
    SavedIsComplete
    KeepMeansNearlyDone
    SoloInv
PROPERTY FrozenAfterLoop
