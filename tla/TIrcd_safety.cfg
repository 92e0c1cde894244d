\* Three connections on two descriptors, two nicknames, one channel.
CONSTANTS
    Users = {u1, u2, u3}
    NoUser = NoUser
    Fds <- TwoFds
    Listen = Listen
    NoFd = NoFd
    Nicks = {kilac, star}
    NoNick = NoNick
    Chans = {hehe}
    MaxJoins = 2
SPECIFICATION Spec
SYMMETRY Symmetry
INVARIANTS
    TypeOK
    EventsHaveUsers
    NicknamesUnique
    RepliesGoHome
    Inv
PROPERTY NickFixedWhileQueued
\* A server that exited or was killed stays so.
CHECK_DEADLOCK FALSE
