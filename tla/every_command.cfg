SPECIFICATION Spec
CONSTANTS
    p1 = p1
    p2 = p2
    th1 = th1
    th2 = th2
    t1 = t1
    t2 = t2
    m1 = m1
    m2 = m2
    m3 = m3
    k1 = k1
    k2 = k2
    w1 = w1
    w2 = w2
    c1 = c1
    Nil = Nil
    Projects = {p1, p2}
    Threads = {th1, th2}
    Turns = {t1, t2}
    Messages = {m1, m2, m3}
    Markers = {k1, k2}
    MAX_PINNED_MESSAGES = 1
    MAX_MARKERS = 1
    SNAPSHOT_INTERVAL = 50
    REPLAY_LIMIT = 100
    Workers = {w1}
    Consumers = {}
    TurnOf <- NoTurns
    Script <- NoScript
    Commands <- EveryCommand
    Existing <- OneThread
    MAX_CONCURRENCY_ATTEMPTS = 2
    TOKEN_BATCH_MAX_COUNT = 2
    BootMayFail = FALSE
    MaxCommands = 3
    MaxRestarts = 1
    MaxRepairs = 0
INVARIANTS
    QuietReadModelMatchesLog
    AnnotationsWithinCaps
CHECK_DEADLOCK FALSE
