\* The same instance; the nickname refused though nobody uses it.
CONSTANTS
    Users = {u1, u2, u3}
    NoUser = NoUser
    Fds <- TwoFds
    Listen = Listen
    NoFd = NoFd
    Nicks = {kilac, star}
    NoNick = NoNick
    Chans = {hehe}
    MaxJoins = 2
SPECIFICATION Spec
SYMMETRY Symmetry
PROPERTY RefusedMeansTaken
CHECK_DEADLOCK FALSE
