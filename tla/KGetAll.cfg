\* One transfer under a user who presses any button at any time and
\* switches the network.  The main thread really can stop for ever in wait(),
\* and a failed assertion stops the program.
SPECIFICATION Spec
CONSTANTS
    t1 = t1
    t2 = t2
    t3 = t3
    Transfers = {t1}
    Order <- MCOrder1
    NoTransfer = NoTransfer
    SpuriousWakeups = TRUE
    MaxStack = 2
    MaxEvents = 1
    Http = {}
    maxSimultaneousConnections = 1
    reconnectRetries = 1
    b_addQueued = FALSE
    b_removeOnSuccess = TRUE
    UserOps = {"resume", "pause", "restart", "delete", "queue", "delay", "timer", "offline"}
    Keeps = TRUE
    Patient = FALSE
    Fails = {"login_timeout", "broken", "other"}
INVARIANTS
    SlaveInv
PROPERTIES
    ImplementsDownload
CHECK_DEADLOCK FALSE
