SPECIFICATION Spec
CONSTANTS
    Numbers = {0, 1, 4}
    Before = {0, 1, 2}
    MaxFd = 12
INVARIANT PipesArrive
CHECK_DEADLOCK FALSE
