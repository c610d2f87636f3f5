SPECIFICATION MC_Safe
CONSTANTS
    Null = Null
    Producer = p
    Consumer = c
    N_ITEMS = 3
    MaxItems = 7
    Readers = {r}
    Nothing = Nothing
    Capacity = 2
    Positions = 6
    MaxWrites = 10
    StoreOrder = "program"
    Users = {u1, u2}
    Self = self
    Nobody = nobody
    MaxGuards = 2
    Uses = {}
    BusFibers = {"f1"}
    Devices = {"d1", "d2"}
    Registers = {0, 1}
    Values = {0, 1}
    Requests <- MC_Requests
    BufferFrames = 3
    MaxLine = 1
    MaxInput = 1
    Targets = {1, 2}
    InOrder = TRUE
    Parts = {"fifo", "ring", "thread", "bus", "servo", "wire", "tls", "process"}
INVARIANTS SomeoneCanRun MutexKept NothingLeftBehind  WireExact ConversationsKept
PROPERTIES KeepsQueue EnsureContiguous KeepsChildTask KeepsStream BankWhileUndisturbed
CHECK_DEADLOCK FALSE
