SPECIFICATION FairSpec
CONSTANTS
    Clients = {c1}
    Requests <- MCRequests
    Responses <- MCResponses
    Tls = TRUE
    Room = 3
    MaxCalls = 2
    MaxConns = 2
 
PROPERTIES KeepsCalls 
CHECK_DEADLOCK FALSE
