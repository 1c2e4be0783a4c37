\* One connection, a short queue.  A controller that waits for an answer
\* nobody can give, or has ended, really stops.
SPECIFICATION FairSpec
CONSTANTS
    MOUSEPRESS_QUEUE_SIZE = 2
    MOUSEMOVE_QUEUE_SIZE = 1
    UseWallet = TRUE
INVARIANTS
    NoThreadOutlivesView
    ButtonArrives
PROPERTIES
    DisconnectedIsFinal
    DisplayIsRefreshed
    UserIsTold
    WaitsEnd
CHECK_DEADLOCK FALSE
