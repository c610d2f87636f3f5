SPECIFICATION FairSpec
CONSTANTS
    N = 2
    MaxBody = 2
    Window = 1
    Room = 1
    ReadsBodies = TRUE
INVARIANTS ExchangesKept
PROPERTIES StreamsOutliveHandlers AnswersCome
CHECK_DEADLOCK FALSE
