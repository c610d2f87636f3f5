SPECIFICATION FairSpec
CONSTANTS
    Clients = {c1, c2}
    Watched = {c1}
    Channels = {"x"}
    FifoRows = 1
    Careful = TRUE
    MaxRows = 1
    MaxQueries = 2
    MaxConnects = 1
    MaxEvents = 1
INVARIANTS AnswersFindTheirWay
PROPERTIES WaitsEnd
CHECK_DEADLOCK FALSE
