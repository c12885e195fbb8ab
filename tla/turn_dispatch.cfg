SPECIFICATION Spec
CONSTANTS
    Turns = {1, 2}
    Threads = {a, b}
    Skills = {2}
    MaxTokens = 1
    MaxStops = 1
INVARIANTS
    TypeOK
    HeardOnce
    HeardOnOwnThread
    PendingIsFollowed
    ActiveIsOpen
    ClosedSessionHasNoProcess
SYMMETRY Symmetry
CHECK_DEADLOCK FALSE
