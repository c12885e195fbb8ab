SPECIFICATION Spec
CONSTANTS
    Turns = {1}
    Chunks = 3
    Streams = {TRUE, FALSE}
    Views = {TRUE}
    PushCapacity = 1
    MaxDisturbances = 1
INVARIANTS
    TypeOK
    QuietSpinnerOff
    QuietAnswerComplete
    QuietThreadHydrated
    CoalescingTransparent
PROPERTIES
    AnswerNeverShrinks
CHECK_DEADLOCK FALSE
