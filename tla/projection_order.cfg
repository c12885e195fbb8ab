SPECIFICATION Spec
CONSTANTS
    p1 = p1
    p2 = p2
    th1 = th1
    th2 = th2
    t1 = t1
    t2 = t2
    m1 = m1
    m2 = m2
    m3 = m3
    k1 = k1
    k2 = k2
    w1 = w1
    w2 = w2
    c1 = c1
    Nil = Nil
    Projects = {p1}
    Threads = {th1}
    Turns = {t1}
    Messages = {m1}
    Markers = {k1}
    MAX_PINNED_MESSAGES = 1
    MAX_MARKERS = 1
    SNAPSHOT_INTERVAL = 50
    REPLAY_LIMIT = 100
    Workers = {w1, w2}
    Consumers = {}
    TurnOf <- NoTurns
    Script <- NoScript
    Commands <- RivalCommands
    Existing <- OneThread
    MAX_CONCURRENCY_ATTEMPTS = 2
    TOKEN_BATCH_MAX_COUNT = 2
    BootMayFail = FALSE
    MaxCommands = 2
    MaxRestarts = 0
    MaxRepairs = 0
INVARIANT QuietReadModelMatchesLog
CHECK_DEADLOCK FALSE
