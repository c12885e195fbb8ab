SPECIFICATION Spec
CONSTANTS
    Turns = {1}
    Threads = {a}
    Skills = {1}
    MaxTokens = 1
    MaxStops = 1
INVARIANTS
    TurnHeardItsAnswer
CHECK_DEADLOCK FALSE
