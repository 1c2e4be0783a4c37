\* Two transfers, one connection, a user who waits for each answer.  The main
\* thread really can stop for ever in wait(), so deadlock is not an error.
SPECIFICATION Spec
CONSTANTS
    t1 = t1
    t2 = t2
    t3 = t3
    Transfers = {t1, t2}
    Order <- MCOrder2
    NoTransfer = NoTransfer
    SpuriousWakeups = FALSE
    MaxStack = 2
    MaxEvents = 3
    Http = {t2}
    maxSimultaneousConnections = 1
    reconnectRetries = 1
    b_addQueued = TRUE
    b_removeOnSuccess = FALSE
    UserOps = {"resume", "queue", "delete"}
    Keeps = FALSE
    Patient = TRUE
    Fails = {"login_timeout", "broken", "other"}
INVARIANTS
    StatusAgreesWithJob
    DeletedIsSilent
PROPERTIES
    StartsWithinLimit
    NoIdleConnection
CHECK_DEADLOCK FALSE
