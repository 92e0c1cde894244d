CONSTANTS
    c1 = c1
    c2 = c2
    NoClient = NoClient
    Clients = {c1}
    CompSize <- Four
    DATA_SIZE = 2
    BitmapBits = 2
    UINT_MAX = 12
    KeepWindow = 1
SPECIFICATION FairSpec
CHECK_DEADLOCK FALSE
PROPERTY EventuallySaved
