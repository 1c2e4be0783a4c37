\* A user who queries, stops and changes the server at any time.  A null
\* pointer stops the program, so deadlock is not an error.
SPECIFICATION FairSpec
CONSTANTS
    j1 = j1
    j2 = j2
    j3 = j3
    s1 = s1
    s2 = s2
    Jobs = {j1, j2, j3}
    NoJob = NoJob
    Servers = {s1}
    NoServer = NoServer
    UserOps = {"query", "refused", "stop", "server"}
    MaxBoxes = 2
    MaxSignals = 2
INVARIANTS
    JobIsFirst
    NeverStalls
    UndisturbedIsDone
PROPERTIES
    EveryQueryEnds
CHECK_DEADLOCK FALSE
