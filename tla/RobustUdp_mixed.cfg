CONSTANTS
    c1 = c1
    c2 = c2
    NoClient = NoClient
    Clients = {c1, c2}
    CompSize <- OneTwo
    DATA_SIZE = 2
    BitmapBits = 4
    UINT_MAX = 12
    KeepWindow = 1
SPECIFICATION Spec
CHECK_DEADLOCK FALSE
INVARIANT EveryClientServed
