SPECIFICATION FairSpec
CONSTANTS
    Requests = {r1, r2}
    MaxSockets = 9
    MaxDrops = 3
INVARIANTS
    TypeOK
    OwnAnswer
    PendingIsAwaited
    NeverStranded
PROPERTIES
    SettledOnce
    Reconnects
    AnsweredOnGoodConnection
CHECK_DEADLOCK FALSE
