\* One transfer, patient user: Delay while the download is tried, then Resume.
SPECIFICATION Spec
CONSTANTS
    t1 = t1
    t2 = t2
    t3 = t3
    Transfers = {t1}
    Order <- MCOrder1
    NoTransfer = NoTransfer
    SpuriousWakeups = FALSE
    MaxStack = 2
    MaxEvents = 3
    Http = {}
    maxSimultaneousConnections = 1
    reconnectRetries = 1
    b_addQueued = TRUE
    b_removeOnSuccess = FALSE
    UserOps = {"resume", "delay"}
    Keeps = FALSE
    Patient = TRUE
    Fails = {"login_timeout", "broken", "other"}
INVARIANTS
    OneJobAtATime
CHECK_DEADLOCK FALSE
