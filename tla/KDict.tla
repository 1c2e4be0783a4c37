-------------------------------- MODULE KDict --------------------------------
(***************************************************************************)
(* KDict's client (kdict/dict.cpp): DictInterface in the main thread keeps *)
(* the list of queries, DictAsyncClient in a worker thread serves the      *)
(* first of them.  The threads share a pointer to the job and two pipes:   *)
(* a byte to the worker starts or stops it, a byte from the worker says    *)
(* that it has stopped.  The bytes all look alike.                         *)
(*                                                                         *)
(* The main thread takes a step wherever the worker can see a difference.  *)
(* An error is shown in a message box, whose event loop handles D-COP      *)
(* queries and bytes of the worker while clientDone waits for the box.     *)
(*                                                                         *)
(* Abstractions: the kind of a query, the texts sent and received and the  *)
(* kinds of errors; a reply is known by the query it answers.  Dereferenc- *)
(* ing a null job stops the program: "crashed".                            *)
(***************************************************************************)
EXTENDS Naturals, Sequences

CONSTANTS
    Jobs,       \* the addresses of JobData objects
    NoJob,      \* the null pointer
    Servers,    \* the dictionary servers
    NoServer,   \* no connection
    UserOps,    \* what this user does
    MaxBoxes,   \* bound: message boxes open at once
    MaxSignals  \* bound: bytes in a pipe when the user acts

ASSUME KDictAssumption ==
    /\ NoJob \notin Jobs /\ NoServer \notin Servers
    /\ UserOps \subseteq {"query", "refused", "stop", "server"}
    /\ MaxBoxes \in Nat \ {0} /\ MaxSignals \in Nat \ {0}

VARIABLES
    jobList,    \* DictInterface: the queries, the first is being served
    data,       \* data[j]: the JobData object at j
    newServer,  \* DictInterface: the settings have changed
    server,     \* the server of the settings
    clientDoneInProgress,
    boxes,      \* message boxes open, each in a suspended clientDone
    at,         \* where the main thread stands, "loop" in an event loop
    job,        \* DictAsyncClient: the job pointer
    wpc,        \* where the worker stands
    serving,    \* the query the worker has sent
    tcpSocket,  \* the server the worker is connected to
    pipeIn,     \* bytes on their way to the main thread
    pipeOut,    \* bytes on their way to the worker
    crashed,    \* a null job was dereferenced
    disturbed   \* history: a query was cancelled since the client was at rest

interface == <<jobList, data, newServer, server, clientDoneInProgress, boxes, at>>
client == <<wpc, serving, tcpSocket>>
pipes == <<pipeIn, pipeOut>>
vars == <<interface, job, client, pipes, crashed, disturbed>>

(* A new JobData, and the memory of a deleted one. *)
JobData(s, isNew) ==
    [canceled |-> FALSE, error |-> FALSE, newServer |-> isNew, server |-> s, answer |-> NoJob]
Freed == JobData(NoServer, FALSE)

Init ==
    /\ jobList = <<>> /\ newServer = FALSE /\ server \in Servers
    /\ data = [j \in Jobs |-> Freed]
    /\ clientDoneInProgress = FALSE /\ boxes = 0 /\ at = "loop"
    /\ job = NoJob /\ wpc = "wait" /\ serving = NoJob /\ tcpSocket = NoServer
    /\ pipeIn = 0 /\ pipeOut = 0
    /\ crashed = FALSE /\ disturbed = FALSE

----------------------------------------------------------------------------
(* The main thread: DictInterface.                                         *)

Main(here) == ~crashed /\ at = here
Goto(there) == at' = there
WorkerIdle == UNCHANGED <<job, client, crashed, disturbed>>

(* The client is at rest: the worker sleeps, no byte is on its way and no  *)
(* box is open.                                                            *)
AtRest == wpc \in {"hold", "wait"} /\ pipeIn = 0 /\ pipeOut = 0 /\ boxes = 0

(* stop: the waiting queries are deleted; the first is cancelled and the   *)
(* worker signalled, unless clientDone is at work on it.                   *)
Stopped ==
    [j \in Jobs |-> IF j # Head(jobList) THEN Freed
                    ELSE [data[j] EXCEPT !.canceled = @ \/ ~clientDoneInProgress]]
Signal ==
    IF clientDoneInProgress THEN UNCHANGED <<pipeOut, disturbed>>
    ELSE pipeOut' = pipeOut + 1 /\ disturbed' = TRUE

UserActs(what) ==
    /\ Main("loop") /\ what \in UserOps
    /\ pipeIn < MaxSignals /\ pipeOut < MaxSignals

(* A query: a new job, which takes newServer with it, and insertJob.  The  *)
(* address of the query the worker has sent is not used again before its   *)
(* next, so that it names one query.                                       *)
Unused(j) == data[j] = Freed /\ j # serving

QueryFirst(j) ==
    /\ UserActs("query") /\ jobList = <<>> /\ Unused(j)
    /\ data' = [data EXCEPT ![j] = JobData(server, newServer)]
    /\ newServer' = FALSE
    /\ jobList' = <<j>>
    /\ Goto("startIn")
    /\ disturbed' = (disturbed /\ ~AtRest)
    /\ UNCHANGED <<server, clientDoneInProgress, boxes, job, client, pipes, crashed>>

QueryNext(j) ==
    /\ UserActs("query") /\ jobList # <<>> /\ Unused(j)
    /\ data' = [Stopped EXCEPT ![j] = JobData(server, newServer)]
    /\ newServer' = FALSE
    /\ jobList' = <<Head(jobList), j>>
    /\ Signal
    /\ UNCHANGED <<server, clientDoneInProgress, boxes, at, job, client, pipeIn, crashed>>

(* generateQuery with a set of databases the server has none of: the job   *)
(* is deleted, and the change of the server is forgotten with it.          *)
QueryRefused ==
    /\ UserActs("refused")
    /\ newServer' = FALSE
    /\ UNCHANGED <<jobList, data, server, clientDoneInProgress, boxes, at, pipes>>
    /\ WorkerIdle

(* The menu entry; a message box is modal. *)
Stop ==
    /\ UserActs("stop") /\ boxes = 0 /\ jobList # <<>>
    /\ jobList' = <<Head(jobList)>>
    /\ data' = Stopped
    /\ Signal
    /\ UNCHANGED <<newServer, server, clientDoneInProgress, boxes, at, job, client, pipeIn,
                   crashed>>

serverChanged ==
    /\ UserActs("server") /\ boxes = 0
    /\ server' \in Servers
    /\ newServer' = TRUE
    /\ UNCHANGED <<jobList, data, clientDoneInProgress, boxes, at, pipes>>
    /\ WorkerIdle

(* clientDone, activated by a byte of the worker: it empties both pipes,   *)
(* reports the first query, with a box if it failed, removes it and starts *)
(* the next.                                                               *)
Activated ==
    /\ Main("loop") /\ pipeIn > 0 /\ boxes < MaxBoxes
    /\ pipeIn' = 0
    /\ Goto("doneOut")
    /\ UNCHANGED <<jobList, data, newServer, server, clientDoneInProgress, boxes, pipeOut>>
    /\ WorkerIdle

DoneOut ==
    /\ Main("doneOut")
    /\ pipeOut' = 0
    /\ IF jobList = <<>> THEN Goto("loop") /\ UNCHANGED clientDoneInProgress
       ELSE Goto("report") /\ clientDoneInProgress' = TRUE
    /\ UNCHANGED <<jobList, data, newServer, server, boxes, pipeIn>>
    /\ WorkerIdle

First == data[Head(jobList)]
Report ==
    /\ Main("report")
    /\ IF First.error /\ ~First.canceled
       THEN boxes' = boxes + 1 /\ Goto("loop")
       ELSE Goto("removeJob") /\ UNCHANGED boxes
    /\ UNCHANGED <<jobList, data, newServer, server, clientDoneInProgress, pipes>>
    /\ WorkerIdle

(* The innermost box is closed. *)
CloseBox ==
    /\ Main("loop") /\ boxes > 0
    /\ boxes' = boxes - 1
    /\ Goto("removeJob")
    /\ UNCHANGED <<jobList, data, newServer, server, clientDoneInProgress, pipes>>
    /\ WorkerIdle

(* A bug: the worker keeps its pointer to the job that is deleted. *)
RemoveJobKept ==
    /\ Main("removeJob")
    /\ clientDoneInProgress' = FALSE
    /\ Goto("removeFirst")
    /\ UNCHANGED <<jobList, data, newServer, server, boxes, pipes>>
    /\ WorkerIdle

RemoveJob ==
    /\ Main("removeJob")
    /\ clientDoneInProgress' = FALSE
    /\ job' = NoJob
    /\ Goto("removeFirst")
    /\ UNCHANGED <<jobList, data, newServer, server, boxes, client, pipes, crashed, disturbed>>

(* A bug: the next query is not started. *)
RemoveFirstOnly ==
    /\ Main("removeFirst")
    /\ IF jobList = <<>> THEN UNCHANGED <<jobList, data>>
       ELSE jobList' = Tail(jobList) /\ data' = [data EXCEPT ![Head(jobList)] = Freed]
    /\ Goto("loop")
    /\ UNCHANGED <<newServer, server, clientDoneInProgress, boxes, pipes>>
    /\ WorkerIdle

RemoveFirst ==
    /\ Main("removeFirst")
    /\ IF jobList = <<>> THEN UNCHANGED <<jobList, data>>
       ELSE jobList' = Tail(jobList) /\ data' = [data EXCEPT ![Head(jobList)] = Freed]
    /\ Goto(IF jobList' = <<>> THEN "loop" ELSE "startIn")
    /\ UNCHANGED <<newServer, server, clientDoneInProgress, boxes, pipes>>
    /\ WorkerIdle

(* startClient: empty the pipes, hand over the job, signal the worker. *)
StartIn ==
    /\ Main("startIn")
    /\ pipeIn' = 0
    /\ Goto("startOut")
    /\ UNCHANGED <<jobList, data, newServer, server, clientDoneInProgress, boxes, pipeOut>>
    /\ WorkerIdle

StartOut ==
    /\ Main("startOut")
    /\ pipeOut' = 0
    /\ Goto("startJob")
    /\ UNCHANGED <<jobList, data, newServer, server, clientDoneInProgress, boxes, pipeIn>>
    /\ WorkerIdle

(* insertJob of the worker does not overwrite a pointer. *)
StartJob ==
    /\ Main("startJob")
    /\ job' = IF job = NoJob THEN Head(jobList) ELSE job
    /\ Goto("startWrite")
    /\ UNCHANGED <<jobList, data, newServer, server, clientDoneInProgress, boxes, client,
                   pipes, crashed, disturbed>>

StartWrite ==
    /\ Main("startWrite")
    /\ pipeOut' = pipeOut + 1
    /\ Goto("loop")
    /\ UNCHANGED <<jobList, data, newServer, server, clientDoneInProgress, boxes, pipeIn>>
    /\ WorkerIdle

MainStep ==
    \/ Activated \/ DoneOut \/ Report \/ CloseBox \/ RemoveJob \/ RemoveFirst
    \/ StartIn \/ StartOut \/ StartJob \/ StartWrite

User ==
    \/ \E j \in Jobs : QueryFirst(j) \/ QueryNext(j)
    \/ QueryRefused \/ Stop \/ serverChanged

----------------------------------------------------------------------------
(* The worker thread: DictAsyncClient::waitForWork.                        *)

Worker(here) == ~crashed /\ wpc = here
Go(there) == wpc' = there
MainStays == UNCHANGED <<jobList, newServer, server, clientDoneInProgress, boxes, at, job,
                         disturbed>>
Disconnect == tcpSocket' = NoServer
Sleep == Go(IF tcpSocket = NoServer THEN "wait" ELSE "hold")

(* The connection is held until a byte, a timeout or the server's end. *)
Hold ==
    /\ Worker("hold")
    /\ (pipeOut > 0 /\ UNCHANGED tcpSocket) \/ Disconnect
    /\ Go("wait")
    /\ UNCHANGED <<data, serving, pipes, crashed>> /\ MainStays

Wake ==
    /\ Worker("wait") /\ pipeOut > 0
    /\ Go("clear")
    /\ UNCHANGED <<data, serving, tcpSocket, pipes, crashed>> /\ MainStays

(* clearPipe takes the stop signals with the start signal. *)
Clear ==
    /\ Worker("clear")
    /\ pipeOut' = 0
    /\ Go("begin")
    /\ UNCHANGED <<data, serving, tcpSocket, pipeIn, crashed>> /\ MainStays

Begin ==
    /\ Worker("begin")
    /\ Go(IF job = NoJob THEN "stopped" ELSE "setUp")
    /\ UNCHANGED <<data, serving, tcpSocket, pipes, crashed>> /\ MainStays

(* The job's pointer is null when it is used. *)
Crash ==
    /\ wpc \in {"setUp", "connect", "use"} /\ ~crashed /\ job = NoJob
    /\ crashed' = TRUE
    /\ UNCHANGED <<data, client, pipes>> /\ MainStays

SetUp ==
    /\ Worker("setUp") /\ job # NoJob
    /\ serving' = job
    /\ IF tcpSocket = NoServer \/ data[job].newServer
       THEN Disconnect /\ Go("connect")
       ELSE UNCHANGED tcpSocket /\ Go("select")
    /\ UNCHANGED <<data, pipes, crashed>> /\ MainStays

SetError == data' = IF job = NoJob THEN data ELSE [data EXCEPT ![job].error = TRUE]

(* openConnection; the handshake is part of the exchange that follows. *)
Connect ==
    /\ Worker("connect") /\ job # NoJob
    /\ \/ tcpSocket' = data[job].server /\ Go("select") /\ UNCHANGED data
       \/ SetError /\ Go("drain") /\ UNCHANGED tcpSocket
    /\ UNCHANGED <<serving, pipes, crashed>> /\ MainStays

(* waitForRead, waitForWrite: a byte in the pipe stops the exchange, a     *)
(* timeout or a broken connection is an error of the job, if there is one. *)
Select ==
    /\ Worker("select")
    /\ \/ pipeOut > 0 /\ Disconnect /\ Go("drain") /\ UNCHANGED data
       \/ pipeOut = 0 /\ Disconnect /\ Go("drain") /\ SetError
       \/ pipeOut = 0 /\ Go("use") /\ UNCHANGED <<tcpSocket, data>>
    /\ UNCHANGED <<serving, pipes, crashed>> /\ MainStays

(* What arrived is a part of the reply ... *)
UsePart ==
    /\ Worker("use")
    /\ Go("select")
    /\ UNCHANGED <<data, serving, tcpSocket, pipes, crashed>> /\ MainStays

(* ... or its end, or an error (handleErrors, doQuit).  Some kinds of      *)
(* query test the pointer before every use.                                *)
UseEnd ==
    /\ Worker("use")
    /\ \/ /\ data' = IF job = NoJob THEN data ELSE [data EXCEPT ![job].answer = serving]
          /\ UNCHANGED tcpSocket
       \/ job # NoJob /\ SetError /\ Disconnect
    /\ Go("drain")
    /\ UNCHANGED <<serving, pipes, crashed>> /\ MainStays

Drain ==
    /\ Worker("drain")
    /\ pipeOut' = 0
    /\ Go("stopped")
    /\ UNCHANGED <<data, serving, tcpSocket, pipeIn, crashed>> /\ MainStays

End ==
    /\ Worker("stopped")
    /\ pipeIn' = pipeIn + 1
    /\ Sleep
    /\ UNCHANGED <<data, serving, tcpSocket, pipeOut, crashed>> /\ MainStays

WorkerStep ==
    \/ Hold \/ Wake \/ Clear \/ Begin \/ Crash \/ SetUp \/ Connect
    \/ Select \/ UsePart \/ UseEnd \/ Drain \/ End

Next == User \/ MainStep \/ WorkerStep

Spec == Init /\ [][Next]_vars

(* Both threads are scheduled, boxes are closed (CloseBox), select returns *)
(* at its timeout at the latest and the server's reply has an end.         *)
FairSpec == Spec /\ WF_vars(MainStep) /\ WF_vars(WorkerStep) /\ SF_vars(UseEnd)

----------------------------------------------------------------------------
Listed(j) == \E i \in 1..Len(jobList) : jobList[i] = j

(* Types of the client's variables (dict.h).  At most one query waits, and *)
(* a JobData object exists exactly while it is in the list.                *)
TypeOK ==
    /\ jobList \in Seq(Jobs) /\ Len(jobList) <= 2
    /\ data \in [Jobs -> [ canceled : BOOLEAN, error : BOOLEAN, newServer : BOOLEAN,
                           server : Servers \cup {NoServer}, answer : Jobs \cup {NoJob} ]]
    /\ \A j \in Jobs : Listed(j) <=> data[j] # Freed
    /\ server \in Servers
    /\ {newServer, clientDoneInProgress, crashed, disturbed} \subseteq BOOLEAN
    /\ boxes \in 0..MaxBoxes
    /\ at \in {"loop", "doneOut", "report", "removeJob", "removeFirst", "startIn",
               "startOut", "startJob", "startWrite"}
    /\ {job, serving} \subseteq Jobs \cup {NoJob}
    /\ wpc \in {"hold", "wait", "clear", "begin", "setUp", "connect", "select", "use",
                "drain", "stopped"}
    /\ tcpSocket \in Servers \cup {NoServer}
    /\ {pipeIn, pipeOut} \subseteq Nat

(* The worker's pointer never dangles: jobs are deleted by stop, by an     *)
(* insertion and by clientDone, which may run inside itself, and the job   *)
(* of the worker is none of them but the first of the list.                *)
JobIsFirst == job # NoJob => jobList # <<>> /\ job = Head(jobList)

(* No signal is lost for good, although both threads empty the pipe of the *)
(* start signals: while there is a query and no box open, the worker is    *)
(* awake or a byte is on its way that wakes one of the threads.            *)
NeverStalls == Main("loop") /\ jobList # <<>> => ~AtRest

(* Unless a query was cancelled since the client was last at rest, what is *)
(* reported as received is the reply to the query and no null job is used: *)
(* whatever a cancellation has upset, the next query after a rest is safe. *)
UndisturbedIsDone ==
    ~disturbed =>
        /\ ~crashed
        /\ at = "report" /\ ~First.error => First.answer = Head(jobList)

(* Every query ends: it is answered, fails, is cancelled or superseded.    *)
EveryQueryEnds == \A j \in Jobs : Listed(j) ~> (~Listed(j) \/ crashed)
=============================================================================
