CONSTANTS
    Calls = {c1, c2, c3}
    MaxFds = 2
SPECIFICATION NkatSpec
CHECK_DEADLOCK FALSE
INVARIANT ClientSeesEnd
