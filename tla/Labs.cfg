CONSTANTS
    Users = {u1, u2, u3}
    ChatFds = {5, 6}
    UserNames = {n1, n2}
    listenfd = 3
    NoFd = 0

    Measurers = {m1, m2}
    Workers = {1}
    SinkFds = {5, 6, 7, 8}
    MaxData = 2

    Calls = {c1, c2, c3}
    MaxFds = 2

    d1 = d1  d2 = d2  d3 = d3
    DnsClients = {d1, d2, d3}
    NoClient = NoClient
    NoQuery = NoQuery
    Queries <- OneAsksAll
    ZoneFiles <- TwoZones
    Numbers = {"1", "2", "3", "4"}
    MaxSockets = 2
    MaxCopies = 2

    Box = 2
    Boards <- SmallBoards

    SegSize = 2
    SizeValues = 12
    Archives <- SmallArchives
    Writable = {"f", "g"}
SPECIFICATION FairSpec
CHECK_DEADLOCK FALSE
INVARIANTS
    TypeOK
    CountIsOpen NamesAreTold EventsAreOpen
    SinksAreCounted BytesAreConserved
    NoZombies
    AnswersAreTheZones RepliesAreTheAskers
    SolvesWhatCanBe UnpacksTheIntact
    LabsInv
PROPERTIES
    SignalledExits ServedWhileOthersRun AnsweredUnlessLost SearchEnds
