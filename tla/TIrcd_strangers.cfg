\* The same instance; the message that reaches a connection not on the channel.
CONSTANTS
    Users = {u1, u2, u3}
    NoUser = NoUser
    Fds <- TwoFds
    Listen = Listen
    NoFd = NoFd
    Nicks = {kilac, star}
    NoNick = NoNick
    Chans = {hehe}
    MaxJoins = 2
SPECIFICATION Spec
SYMMETRY Symmetry
INVARIANT OnlyMembersHear
CHECK_DEADLOCK FALSE
