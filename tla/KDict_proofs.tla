---------------------------- MODULE KDict_proofs ----------------------------
(***************************************************************************)
(* Theorems about the client of KDict, for any number of jobs, servers,    *)
(* message boxes and bytes in the pipes.                                   *)
(*                                                                         *)
(* ListInv is about the list and the pointer the threads share: jobs exist *)
(* exactly while they are listed, the worker's job is the first, and it is *)
(* withdrawn before the first is removed.  It implies that the pointer     *)
(* never dangles and carries NeverStalls.                                  *)
(*                                                                         *)
(* ProtocolInv follows a query that is not disturbed through the phases of *)
(* its life.  Between two phases exactly one byte changes hands, so that   *)
(* the two pipes, which cannot tell a start from a stop, are unambiguous.  *)
(***************************************************************************)
EXTENDS KDict, SequenceTheorems, TLAPS

Records ==
    [ canceled : BOOLEAN, error : BOOLEAN, newServer : BOOLEAN,
      server : Servers \cup {NoServer}, answer : Jobs \cup {NoJob} ]
Starting == {"startIn", "startOut", "startJob", "startWrite"}

(* Jobs are allocated exactly while they are listed, each once. *)
ListIsSound ==
    /\ Len(jobList) = 2 => jobList[1] # jobList[2]
    /\ \A j \in Jobs : IF Listed(j) THEN data[j].server \in Servers ELSE data[j] = Freed

(* Where the main thread relies on the list and on the worker's pointer. *)
StepsAreSound ==
    /\ at \in Starting \cup {"report"} => jobList # <<>>
    /\ at \in {"removeFirst", "startIn", "startOut", "startJob"} => job = NoJob
    /\ at \in {"doneOut", "report"} => boxes < MaxBoxes

DataOK ==
    /\ jobList \in Seq(Jobs) /\ Len(jobList) <= 2
    /\ data \in [Jobs -> Records]
    /\ \A j \in Jobs : Listed(j) <=> data[j] # Freed
ControlOK ==
    /\ jobList \in Seq(Jobs)
    /\ server \in Servers
    /\ {newServer, clientDoneInProgress, crashed, disturbed} \subseteq BOOLEAN
    /\ boxes \in 0..MaxBoxes
    /\ at \in {"loop", "doneOut", "report", "removeJob", "removeFirst", "startIn",
               "startOut", "startJob", "startWrite"}
    /\ {job, serving} \subseteq Jobs \cup {NoJob}
    /\ wpc \in {"hold", "wait", "clear", "begin", "setUp", "connect", "select", "use",
                "drain", "stopped"}
    /\ tcpSocket \in Servers \cup {NoServer}
    /\ {pipeIn, pipeOut} \subseteq Nat
DataInv == DataOK /\ ListIsSound
ControlInv == ControlOK /\ StepsAreSound /\ JobIsFirst /\ NeverStalls
ListInv == DataInv /\ ControlInv

Asleep == wpc \in {"hold", "wait"}
Quiet == pipeIn = 0 /\ pipeOut = 0 /\ Asleep
IsDone(j) == data[j].error \/ data[j].answer = j

(* The worker has a job, or a byte that will wake it, or is done with it.  *)
Serves ==
    \/ pipeIn = 0 /\ pipeOut = 1 /\ wpc \in {"hold", "wait", "clear"}
    \/ pipeIn = 0 /\ pipeOut = 0 /\ wpc \in {"begin", "setUp"}
    \/ pipeIn = 0 /\ pipeOut = 0 /\ wpc \in {"connect", "select", "use"} /\ serving = job
    \/ pipeIn = 0 /\ pipeOut = 0 /\ wpc \in {"drain", "stopped"} /\ IsDone(job)
    \/ pipeIn = 1 /\ pipeOut = 0 /\ Asleep /\ IsDone(job)

(* The phases of a query that is not disturbed. *)
Idling == at = "loop" /\ boxes = 0 /\ ~clientDoneInProgress /\ Quiet /\ jobList = <<>>
Queued ==
    /\ at \in Starting \cup {"removeFirst"} /\ boxes = 0 /\ ~clientDoneInProgress /\ Quiet
    /\ at = "startWrite" => job # NoJob
Served == at = "loop" /\ boxes = 0 /\ ~clientDoneInProgress /\ job # NoJob /\ Serves
Reported ==
    /\ at \in {"doneOut", "report"} /\ boxes = 0 /\ Quiet
    /\ clientDoneInProgress = (at = "report")
    /\ jobList # <<>> /\ IsDone(Head(jobList))
Shown == at = "loop" /\ boxes = 1 /\ clientDoneInProgress /\ Quiet /\ jobList # <<>>
Removed == at = "removeJob" /\ boxes = 0 /\ clientDoneInProgress /\ Quiet

ProtocolInv ==
    /\ clientDoneInProgress => boxes > 0 \/ at \in {"report", "removeJob"}
    /\ ~disturbed => /\ ~crashed
                     /\ Idling \/ Queued \/ Served \/ Reported \/ Shown \/ Removed

DictInv == ListInv /\ ProtocolInv

----------------------------------------------------------------------------
(* TypeOK in two parts, one for the data and one for the control state. *)
LEMMA TypesSplit ==
  TypeOK <=> DataOK /\ ControlOK
  BY DEF TypeOK, DataOK, ControlOK, Records

(* A step that leaves the list and the jobs alone. *)
LEMMA DataKept ==
  ASSUME DataInv, UNCHANGED <<jobList, data>>
  PROVE  DataInv'
  BY DEF DataInv, DataOK, Records, ListIsSound, Listed

(* The first of a list of jobs. *)
LEMMA HeadIsJob ==
  ASSUME jobList \in Seq(Jobs), jobList # <<>>
  PROVE  Head(jobList) \in Jobs
  OBVIOUS

(* The list has at most two members. *)
LEMMA ShortList ==
  ASSUME jobList \in Seq(Jobs), Len(jobList) <= 2
  PROVE  /\ Len(jobList) = 0 \/ Len(jobList) = 1 \/ Len(jobList) = 2
         /\ jobList = <<>> <=> Len(jobList) = 0
         /\ jobList # <<>> => /\ Head(jobList) = jobList[1] /\ Head(jobList) \in Jobs
                              /\ Tail(jobList) \in Seq(Jobs)
                              /\ Len(Tail(jobList)) = Len(jobList) - 1
         /\ Len(jobList) = 2 => Tail(jobList)[1] = jobList[2]
  <1>1. Len(jobList) \in Nat
    OBVIOUS
  <1>2. \A n \in Nat : n <= 2 => n = 0 \/ n = 1 \/ n = 2
    OBVIOUS
  <1>3. jobList = <<>> <=> Len(jobList) = 0
    OBVIOUS
  <1>4. jobList # <<>> => /\ Head(jobList) = jobList[1] /\ Head(jobList) \in Jobs
                              /\ Tail(jobList) \in Seq(Jobs)
                              /\ Len(Tail(jobList)) = Len(jobList) - 1
    OBVIOUS
  <1>5. ASSUME Len(jobList) = 2 PROVE Tail(jobList)[1] = jobList[2]
    <2>1. \A i \in 1..Len(Tail(jobList)) : Tail(jobList)[i] = jobList[i + 1]
      BY <1>3, <1>5, HeadTailProperties
    <2>2. Len(Tail(jobList)) = 1
      BY <1>3, <1>4, <1>5
    <2> QED
      BY <2>1, <2>2
  <1> QED
    BY <1>1, <1>2, <1>3, <1>4, <1>5

(* A job is listed first or second. *)
LEMMA ListedByPlace ==
  ASSUME jobList \in Seq(Jobs), Len(jobList) <= 2, NEW j \in Jobs
  PROVE  Listed(j) <=> \/ jobList # <<>> /\ j = Head(jobList)
                       \/ Len(jobList) = 2 /\ j = jobList[2]
  <1>1. Len(jobList) = 0 \/ Len(jobList) = 1 \/ Len(jobList) = 2
    BY ShortList
  <1>2. CASE Len(jobList) = 0
    BY <1>2 DEF Listed
  <1>3. CASE Len(jobList) = 1
    BY <1>3 DEF Listed
  <1>4. CASE Len(jobList) = 2
    <2>1. jobList # <<>> /\ Head(jobList) = jobList[1]
      BY <1>4
    <2>2. \A i : i \in 1..2 <=> i = 1 \/ i = 2
      OBVIOUS
    <2> QED
      BY <1>4, <2>1, <2>2 DEF Listed
  <1> QED
    BY <1>1, <1>2, <1>3, <1>4

(* A step that writes into listed jobs. *)
LEMMA JobsKept ==
  ASSUME DataInv, UNCHANGED jobList,
         data' \in [Jobs -> Records],
         \A j \in Jobs : data'[j].server = data[j].server,
         \A j \in Jobs : Listed(j) \/ data'[j] = data[j]
  PROVE  DataInv'
  <1>1. \A j \in Jobs : Listed(j)' <=> Listed(j)
    BY DEF Listed
  <1>2. Freed.server = NoServer
    BY DEF Freed, JobData, Records
  <1>3. \A j \in Jobs : Listed(j) => data[j].server \in Servers /\ data'[j] # Freed
    BY <1>2, KDictAssumption DEF DataInv, ListIsSound
  <1> QED
    BY <1>1, <1>3 DEF DataInv, DataOK, Records, ListIsSound

(* An error is written into the first job only. *)
LEMMA SetErrorKeeps ==
  ASSUME DataInv, JobIsFirst, job \in Jobs \cup {NoJob}, UNCHANGED jobList, SetError
  PROVE  DataInv'
  <1>1. CASE job = NoJob
    BY <1>1, DataKept DEF SetError
  <1>2. CASE job # NoJob
    <2>1. job \in Jobs /\ Listed(job)
      BY <1>2, ListedByPlace DEF JobIsFirst, DataInv, DataOK, Records
    <2>2. data' = [data EXCEPT ![job].error = TRUE]
      BY <1>2 DEF SetError
    <2> QED
      BY <2>1, <2>2, JobsKept DEF DataInv, DataOK, Records
  <1> QED
    BY <1>1, <1>2

(* The end of a reply is written into the first job only. *)
LEMMA UseEndData ==
  ASSUME DataInv, ControlInv, UseEnd
  PROVE  DataInv'
  <1>1. /\ jobList' = jobList /\ job \in Jobs \cup {NoJob}
        /\ serving \in Jobs \cup {NoJob} /\ JobIsFirst
    BY DEF UseEnd, MainStays, ControlInv, ControlOK
  <1>2. CASE SetError
    BY <1>1, <1>2, SetErrorKeeps
  <1>3. CASE data' = IF job = NoJob THEN data ELSE [data EXCEPT ![job].answer = serving]
    <2>1. CASE job = NoJob
      BY <1>1, <1>3, <2>1, DataKept
    <2>2. CASE job # NoJob
      <3>1. job \in Jobs /\ Listed(job)
        BY <1>1, <2>2, ListedByPlace DEF JobIsFirst, DataInv, DataOK, Records
      <3> QED
        BY <1>1, <1>3, <2>2, <3>1, JobsKept DEF DataInv, DataOK, Records
    <2> QED
      BY <2>1, <2>2
  <1> QED
    BY <1>2, <1>3 DEF UseEnd

(* A new job can be told from freed memory. *)
LEMMA JobDataType ==
  ASSUME NEW s \in Servers, NEW b \in BOOLEAN
  PROVE  /\ JobData(s, b) \in Records
         /\ JobData(s, b).server = s
         /\ Freed \in Records
         /\ JobData(s, b) # Freed
  BY KDictAssumption DEF JobData, Freed, Records

(* A query on an empty list. *)
LEMMA QueryFirstData ==
  ASSUME DataInv, ControlInv, NEW j \in Jobs, QueryFirst(j), newServer \in BOOLEAN
  PROVE  DataInv'
  <1>1. /\ jobList' = <<j>> /\ jobList = <<>> /\ server \in Servers
        /\ data' = [data EXCEPT ![j] = JobData(server, newServer)]
    BY DEF QueryFirst, ControlInv, ControlOK
  <1>2. \A i \in Jobs : ~Listed(i)
    BY <1>1 DEF Listed
  <1>3. \A i \in Jobs : Listed(i)' <=> i = j
    BY <1>1 DEF Listed
  <1> QED
    BY <1>1, <1>2, <1>3, JobDataType DEF DataInv, DataOK, Records, ListIsSound

(* stop deletes all jobs but the first. *)
LEMMA StoppedType ==
  ASSUME DataInv, jobList # <<>>, clientDoneInProgress \in BOOLEAN
  PROVE  /\ Stopped \in [Jobs -> Records]
         /\ Stopped[Head(jobList)].server \in Servers
         /\ \A j \in Jobs : j # Head(jobList) => Stopped[j] = Freed
  <1>1. Head(jobList) \in Jobs /\ Listed(Head(jobList)) /\ data[Head(jobList)].server \in Servers
    BY HeadIsJob, ListedByPlace DEF DataInv, DataOK, Records, ListIsSound
  <1>2. Freed \in Records
    BY DEF Freed, JobData, Records
  <1>3. \A c : [data[Head(jobList)] EXCEPT !.canceled = c].server = data[Head(jobList)].server
    BY <1>1 DEF DataInv, DataOK, Records
  <1>4. LET d == data[Head(jobList)]
        IN  [d EXCEPT !.canceled = d.canceled \/ ~clientDoneInProgress] \in
               Records
    BY <1>1 DEF DataInv, DataOK, Records
  <1> QED
    BY <1>1, <1>2, <1>3, <1>4 DEF Stopped

(* A query behind the one being served. *)
LEMMA QueryNextData ==
  ASSUME DataInv, ControlInv, NEW j \in Jobs, QueryNext(j)
  PROVE  DataInv'
  <1>1. /\ jobList # <<>> /\ jobList' = <<Head(jobList), j>> /\ data[j] = Freed
        /\ data' = [Stopped EXCEPT ![j] = JobData(server, newServer)]
        /\ server \in Servers /\ newServer \in BOOLEAN /\ clientDoneInProgress \in BOOLEAN
    BY DEF QueryNext, Unused, ControlInv, ControlOK
  <1>2. Head(jobList) \in Jobs /\ j # Head(jobList)
    BY <1>1, HeadIsJob, ListedByPlace DEF DataInv, DataOK, Records
  <1>3. jobList' \in Seq(Jobs) /\ Len(jobList') = 2 /\ jobList'[1] # jobList'[2]
    BY <1>1, <1>2
  <1>4. \A i \in Jobs : Listed(i)' <=> i = Head(jobList) \/ i = j
    <2>1. \A i : i \in 1..2 <=> i = 1 \/ i = 2
      OBVIOUS
    <2> QED
      BY <1>1, <1>3, <2>1 DEF Listed
  <1>5. Freed.server = NoServer
    BY DEF Freed, JobData, Records
  <1> QED
    BY <1>1, <1>2, <1>3, <1>4, <1>5, StoppedType, JobDataType, KDictAssumption
       DEF DataInv, DataOK, Records, ListIsSound

(* The menu entry Stop. *)
LEMMA StopData ==
  ASSUME DataInv, ControlInv, Stop
  PROVE  DataInv'
  <1>1. /\ jobList # <<>> /\ jobList' = <<Head(jobList)>> /\ data' = Stopped
        /\ clientDoneInProgress \in BOOLEAN
    BY DEF Stop, ControlInv, ControlOK
  <1>2. Head(jobList) \in Jobs
    BY <1>1, HeadIsJob DEF DataInv, DataOK, Records
  <1>3. \A i \in Jobs : Listed(i)' <=> i = Head(jobList)
    BY <1>1 DEF Listed
  <1>4. jobList' \in Seq(Jobs) /\ Len(jobList') = 1
    BY <1>1, <1>2
  <1>5. Freed.server = NoServer
    BY DEF Freed, JobData, Records
  <1> QED
    BY <1>1, <1>2, <1>3, <1>4, <1>5, StoppedType, KDictAssumption
       DEF DataInv, DataOK, Records, ListIsSound

(* clientDone deletes the first job. *)
LEMMA RemoveFirstData ==
  ASSUME DataInv, ControlInv, RemoveFirst
  PROVE  DataInv'
  <1>1. CASE jobList = <<>>
    BY <1>1, DataKept DEF RemoveFirst
  <1>2. CASE jobList # <<>>
    <2>1. /\ jobList' = Tail(jobList)
          /\ data' = [data EXCEPT ![Head(jobList)] = Freed]
      BY <1>2 DEF RemoveFirst
    <2>2. /\ Head(jobList) \in Jobs /\ Head(jobList) = jobList[1]
          /\ Len(jobList) = 1 \/ Len(jobList) = 2
      BY <1>2, ShortList DEF DataInv, DataOK, Records
    <2>3. jobList' \in Seq(Jobs) /\ Len(jobList') = Len(jobList) - 1
      BY <1>2, <2>1, ShortList DEF DataInv, DataOK, Records
    <2>4. Len(jobList) = 2 => jobList'[1] = jobList[2]
      BY <1>2, <2>1, ShortList DEF DataInv, DataOK, Records
    <2>5. \A i \in Jobs : Listed(i)' <=> Listed(i) /\ i # Head(jobList)
      <3>1. CASE Len(jobList) = 1
        BY <1>2, <2>2, <2>3, <3>1 DEF Listed
      <3>2. CASE Len(jobList) = 2
        <4>1. jobList[1] # jobList[2]
          BY <3>2 DEF DataInv, ListIsSound
        <4>2. \A i \in Jobs : Listed(i) <=> i = jobList[1] \/ i = jobList[2]
          BY <1>2, <2>2, <3>2, ListedByPlace DEF DataInv, DataOK, Records
        <4> QED
          BY <2>2, <2>3, <2>4, <3>2, <4>1, <4>2 DEF Listed
      <3> QED
        BY <2>2, <3>1, <3>2
    <2>6. Freed \in Records
      BY DEF Freed, JobData, Records
    <2> QED
      BY <2>1, <2>2, <2>3, <2>5, <2>6 DEF DataInv, DataOK, Records, ListIsSound
  <1> QED
    BY <1>1, <1>2

----------------------------------------------------------------------------
(* A job with an error is done. *)
LEMMA SetErrorIsDone ==
  ASSUME DataInv, job \in Jobs, UNCHANGED job, SetError, KDictAssumption
  PROVE  IsDone(job)'
  BY DEF SetError, IsDone, DataInv, DataOK, Records

(* What the user does keeps ControlInv. *)
LEMMA ControlOfUser ==
  ASSUME ControlInv, DataInv, User
  PROVE  ControlInv'
  <1> USE KDictAssumption
  <1> USE DEF ControlInv, ControlOK, StepsAreSound, JobIsFirst, NeverStalls, Starting, AtRest
  <1> USE DEF Main, Goto, WorkerIdle, client, pipes
  <1> USE DEF UserActs
  <1>1. ASSUME NEW j \in Jobs, QueryFirst(j) PROVE ControlInv'
    <2>1. disturbed' \in BOOLEAN
      BY <1>1 DEF QueryFirst
    <2>2. jobList' \in Seq(Jobs) /\ jobList' # <<>> /\ Head(jobList') = j
      BY <1>1 DEF QueryFirst
    <2>3. /\ job = NoJob /\ at' = "startIn" /\ newServer' = FALSE
          /\ UNCHANGED <<server, clientDoneInProgress, boxes, job, client, pipes, crashed>>
      BY <1>1 DEF QueryFirst
    <2>4. ControlOK'
      BY <2>1, <2>2, <2>3
    <2>5. StepsAreSound' /\ JobIsFirst' /\ NeverStalls'
      BY <2>1, <2>2, <2>3
    <2> QED
      BY <2>4, <2>5
  <1>2. ASSUME NEW j \in Jobs, QueryNext(j) PROVE ControlInv'
    <2>1. /\ jobList' = <<Head(jobList), j>> /\ jobList' # <<>>
          /\ Head(jobList') = Head(jobList) /\ jobList' \in Seq(Jobs)
      BY <1>2, HeadIsJob DEF QueryNext
    <2>2. disturbed' \in BOOLEAN
      BY <1>2 DEF QueryNext, Signal
    <2>3. pipeOut' \in Nat /\ (pipeOut' = pipeOut \/ pipeOut' > 0)
      BY <1>2 DEF QueryNext, Signal
    <2>4. ControlOK'
      BY <1>2, <2>1, <2>2, <2>3 DEF QueryNext
    <2>5. StepsAreSound' /\ JobIsFirst'
      BY <1>2, <2>1, <2>2, <2>3 DEF QueryNext
    <2>6. NeverStalls'
      BY <1>2, <2>1, <2>2, <2>3 DEF QueryNext
    <2> QED
      BY <2>4, <2>5, <2>6
  <1>3. CASE QueryRefused
    BY <1>3 DEF QueryRefused
  <1>4. CASE Stop
    <2>1. /\ jobList' = <<Head(jobList)>> /\ jobList' # <<>>
          /\ Head(jobList') = Head(jobList) /\ jobList' \in Seq(Jobs)
      BY <1>4, HeadIsJob DEF Stop
    <2>2. disturbed' \in BOOLEAN
      BY <1>4 DEF Stop, Signal
    <2>3. pipeOut' \in Nat /\ (pipeOut' = pipeOut \/ pipeOut' > 0)
      BY <1>4 DEF Stop, Signal
    <2> QED
      BY <1>4, <2>1, <2>2, <2>3 DEF Stop
  <1>5. CASE serverChanged
    BY <1>5 DEF serverChanged
  <1> QED
    BY <1>1, <1>2, <1>3, <1>4, <1>5 DEF User

(* The main thread keeps ControlInv. *)
LEMMA ControlOfMain ==
  ASSUME ControlInv, DataInv, MainStep
  PROVE  ControlInv'
  <1> USE KDictAssumption
  <1> USE DEF ControlInv, ControlOK, StepsAreSound, JobIsFirst, NeverStalls, Starting, AtRest
  <1> USE DEF Main, Goto, WorkerIdle, client, pipes
  <1>1. CASE Activated
    BY <1>1 DEF Activated
  <1>2. CASE DoneOut
    <2>1. clientDoneInProgress' \in BOOLEAN
      BY <1>2 DEF DoneOut
    <2> QED
      BY <1>2, <2>1 DEF DoneOut
  <1>3. CASE Report
    BY <1>3 DEF Report
  <1>4. CASE CloseBox
    BY <1>4 DEF CloseBox
  <1>5. CASE RemoveJob
    BY <1>5 DEF RemoveJob
  <1>6. CASE RemoveFirst
    <2>1. jobList' \in Seq(Jobs)
      BY <1>6, ShortList DEF RemoveFirst, DataInv, DataOK, Records
    <2> QED
      BY <1>6, <2>1 DEF RemoveFirst
  <1>7. CASE StartIn
    BY <1>7 DEF StartIn
  <1>8. CASE StartOut
    BY <1>8 DEF StartOut
  <1>9. CASE StartJob
    BY <1>9, HeadIsJob DEF StartJob
  <1>10. CASE StartWrite
    BY <1>10 DEF StartWrite
  <1> QED
    BY <1>1, <1>2, <1>3, <1>4, <1>5, <1>6, <1>7, <1>8, <1>9, <1>10 DEF MainStep

(* The worker keeps ControlInv. *)
LEMMA ControlOfWorker ==
  ASSUME ControlInv, DataInv, WorkerStep
  PROVE  ControlInv'
  <1> USE KDictAssumption
  <1> USE DEF ControlInv, ControlOK, StepsAreSound, JobIsFirst, NeverStalls, Starting, AtRest
  <1> USE DEF Main, Worker, Go, Sleep, Disconnect, MainStays, client, pipes
  <1>1. CASE Hold
    BY <1>1 DEF Hold
  <1>2. CASE Wake
    BY <1>2 DEF Wake
  <1>3. CASE Clear
    BY <1>3 DEF Clear
  <1>4. CASE Begin
    BY <1>4 DEF Begin
  <1>5. CASE Crash
    BY <1>5 DEF Crash
  <1>6. CASE SetUp
    BY <1>6 DEF SetUp
  <1>7. CASE Connect
    <2>1. tcpSocket' \in Servers \cup {NoServer}
      BY <1>7 DEF Connect, DataInv, DataOK, Records
    <2> QED
      BY <1>7, <2>1 DEF Connect
  <1>8. CASE Select
    BY <1>8 DEF Select
  <1>9. CASE UsePart
    BY <1>9 DEF UsePart
  <1>10. CASE UseEnd
    BY <1>10 DEF UseEnd
  <1>11. CASE Drain
    BY <1>11 DEF Drain
  <1>12. CASE End
    BY <1>12 DEF End
  <1> QED
    BY <1>1, <1>2, <1>3, <1>4, <1>5, <1>6, <1>7, <1>8, <1>9, <1>10, <1>11, <1>12 DEF WorkerStep

(* Every step keeps the list and the jobs in it sound. *)
LEMMA DataStep ==
  ASSUME ControlInv, DataInv, Next
  PROVE  DataInv'
  <1> USE DEF ControlInv, ControlOK
  <1>1. CASE User
    BY <1>1, QueryFirstData, QueryNextData, StopData, DataKept
       DEF User, QueryRefused, serverChanged
  <1>2. CASE MainStep
    BY <1>2, RemoveFirstData, DataKept
       DEF MainStep, Activated, DoneOut, Report, CloseBox, RemoveJob,
           StartIn, StartOut, StartJob, StartWrite
  <1>3. CASE WorkerStep
    <2>1. CASE Connect \/ Select \/ UseEnd
      BY <2>1, UseEndData, SetErrorKeeps, DataKept DEF Connect, Select, MainStays
    <2>2. CASE Hold \/ Wake \/ Clear \/ Begin \/ Crash \/ SetUp \/ UsePart \/ Drain \/ End
      BY <2>2, DataKept
         DEF Hold, Wake, Clear, Begin, Crash, SetUp, UsePart, Drain, End, MainStays
    <2> QED
      BY <1>3, <2>1, <2>2 DEF WorkerStep
  <1> QED
    BY <1>1, <1>2, <1>3 DEF Next

(* What the user does keeps ProtocolInv. *)
LEMMA ProtocolOfUser ==
  ASSUME ControlInv, DataInv, ProtocolInv, User
  PROVE  ProtocolInv'
  <1> USE KDictAssumption
  <1> USE DEF ControlInv, ControlOK, StepsAreSound, JobIsFirst, Starting
  <1> USE DEF ProtocolInv, Idling, Queued, Served, Reported, Shown, Removed, Serves, IsDone,
          Quiet, Asleep
  <1> USE DEF Main, Goto, WorkerIdle, client, pipes
  <1> USE DEF UserActs
  <1>1. ASSUME NEW j \in Jobs, QueryFirst(j) PROVE ProtocolInv'
    BY <1>1 DEF QueryFirst, AtRest
  <1>2. ASSUME NEW j \in Jobs, QueryNext(j) PROVE ProtocolInv'
    BY <1>2 DEF QueryNext, Signal
  <1>3. CASE QueryRefused
    BY <1>3 DEF QueryRefused
  <1>4. CASE Stop
    BY <1>4 DEF Stop, Signal
  <1>5. CASE serverChanged
    BY <1>5 DEF serverChanged
  <1> QED
    BY <1>1, <1>2, <1>3, <1>4, <1>5 DEF User

(* The main thread keeps ProtocolInv. *)
LEMMA ProtocolOfMain ==
  ASSUME ControlInv, DataInv, ProtocolInv, MainStep
  PROVE  ProtocolInv'
  <1> USE KDictAssumption
  <1> USE DEF ControlInv, ControlOK, StepsAreSound, JobIsFirst, Starting
  <1> USE DEF ProtocolInv, Idling, Queued, Served, Reported, Shown, Removed, Serves, IsDone,
          Quiet, Asleep
  <1> USE DEF Main, Goto, WorkerIdle, client, pipes
  <1>1. CASE Activated
    BY <1>1 DEF Activated
  <1>2. CASE DoneOut
    BY <1>2 DEF DoneOut
  <1>3. CASE Report
    BY <1>3 DEF Report, First
  <1>4. CASE CloseBox
    BY <1>4 DEF CloseBox
  <1>5. CASE RemoveJob
    BY <1>5 DEF RemoveJob
  <1>6. CASE RemoveFirst
    BY <1>6 DEF RemoveFirst
  <1>7. CASE StartIn
    BY <1>7 DEF StartIn
  <1>8. CASE StartOut
    BY <1>8 DEF StartOut
  <1>9. CASE StartJob
    BY <1>9, HeadIsJob DEF StartJob
  <1>10. CASE StartWrite
    BY <1>10 DEF StartWrite
  <1> QED
    BY <1>1, <1>2, <1>3, <1>4, <1>5, <1>6, <1>7, <1>8, <1>9, <1>10 DEF MainStep

(* The worker keeps ProtocolInv. *)
LEMMA ProtocolOfWorker ==
  ASSUME ControlInv, DataInv, ProtocolInv, WorkerStep
  PROVE  ProtocolInv'
  <1> USE KDictAssumption
  <1> USE DEF ControlInv, ControlOK, StepsAreSound, JobIsFirst, Starting
  <1> USE DEF ProtocolInv, Idling, Queued, Served, Reported, Shown, Removed, Serves, IsDone,
          Quiet, Asleep
  <1> USE DEF Main, Worker, Go, Sleep, Disconnect, MainStays, client, pipes
  <1>1. CASE Hold
    BY <1>1 DEF Hold
  <1>2. CASE Wake
    BY <1>2 DEF Wake
  <1>3. CASE Clear
    BY <1>3 DEF Clear
  <1>4. CASE Begin
    BY <1>4 DEF Begin
  <1>5. CASE Crash
    BY <1>5 DEF Crash
  <1>6. CASE SetUp
    BY <1>6 DEF SetUp
  <1>7. CASE Connect
    <2>1. CASE Go("select") /\ UNCHANGED data
      BY <1>7, <2>1 DEF Connect
    <2>2. CASE Go("drain") /\ SetError
      BY <1>7, <2>2, SetErrorIsDone DEF Connect
    <2> QED
      BY <1>7, <2>1, <2>2 DEF Connect
  <1>8. CASE Select
    <2>1. CASE pipeOut > 0
      BY <1>8, <2>1 DEF Select
    <2>2. CASE pipeOut = 0 /\ Go("drain") /\ SetError
      BY <1>8, <2>2, SetErrorIsDone DEF Select
    <2>3. CASE pipeOut = 0 /\ Go("use") /\ UNCHANGED data
      BY <1>8, <2>3 DEF Select
    <2> QED
      BY <1>8, <2>1, <2>2, <2>3 DEF Select
  <1>9. CASE UsePart
    BY <1>9 DEF UsePart
  <1>10. CASE UseEnd
    <2>1. CASE SetError
      BY <1>10, <2>1, SetErrorIsDone DEF UseEnd
    <2>2. CASE data' = IF job = NoJob THEN data ELSE [data EXCEPT ![job].answer = serving]
      <3>1. job \in Jobs /\ serving = job => IsDone(job)'
        BY <1>10, <2>2 DEF UseEnd, DataInv, DataOK, Records
      <3> QED
        BY <1>10, <2>2, <3>1 DEF UseEnd
    <2> QED
      BY <1>10, <2>1, <2>2 DEF UseEnd
  <1>11. CASE Drain
    BY <1>11 DEF Drain
  <1>12. CASE End
    BY <1>12 DEF End
  <1> QED
    BY <1>1, <1>2, <1>3, <1>4, <1>5, <1>6, <1>7, <1>8, <1>9, <1>10, <1>11, <1>12 DEF WorkerStep

----------------------------------------------------------------------------
(* The invariant holds initially. *)
LEMMA InitHolds ==
  Init => DataInv /\ ControlInv /\ ProtocolInv
  <1> SUFFICES ASSUME Init PROVE DataInv /\ ControlInv /\ ProtocolInv
    OBVIOUS
  <1>1. jobList = <<>> /\ Len(jobList) = 0 /\ jobList \in Seq(Jobs)
        /\ \A j \in Jobs : ~Listed(j)
    <2>1. jobList = <<>> /\ Len(jobList) = 0
      BY DEF Init
    <2>2. \A i : i \notin 1..0
      OBVIOUS
    <2> QED
      BY <2>1, <2>2 DEF Listed
  <1>2. DataInv
    <2>1. Freed \in Records
      BY DEF Freed, JobData, Records
    <2>2. data = [j \in Jobs |-> Freed]
      BY DEF Init
    <2> QED
      BY <1>1, <2>1, <2>2 DEF DataInv, DataOK, ListIsSound
  <1>3. ControlInv
    <2>1. ControlOK
      <3>1. {newServer, clientDoneInProgress, crashed, disturbed} \subseteq BOOLEAN
        BY DEF Init
      <3>2. boxes \in 0..MaxBoxes /\ {pipeIn, pipeOut} \subseteq Nat
        BY KDictAssumption DEF Init
      <3> QED
        BY <1>1, <3>1, <3>2 DEF Init, ControlOK
    <2>2. StepsAreSound /\ JobIsFirst
      BY <1>1 DEF Init, StepsAreSound, JobIsFirst, Starting
    <2>3. NeverStalls
      BY <1>1 DEF NeverStalls
    <2> QED
      BY <2>1, <2>2, <2>3 DEF ControlInv
  <1>4. ProtocolInv
    BY DEF Init, ProtocolInv, Idling, Quiet, Asleep
  <1> QED
    BY <1>2, <1>3, <1>4

(* The invariant is inductive. *)
LEMMA NextKeeps ==
  DictInv /\ [Next]_vars => DictInv'
  <1> SUFFICES ASSUME DataInv, ControlInv, ProtocolInv, [Next]_vars
               PROVE  DataInv' /\ ControlInv' /\ ProtocolInv'
    BY DEF DictInv, ListInv
  <1>1. CASE Next
    <2>1. DataInv'
      BY <1>1, DataStep
    <2>2. ControlInv'
      BY <1>1, ControlOfUser, ControlOfMain, ControlOfWorker DEF Next
    <2>3. ProtocolInv'
      BY <1>1, ProtocolOfUser, ProtocolOfMain, ProtocolOfWorker DEF Next
    <2> QED
      BY <2>1, <2>2, <2>3
  <1>2. CASE UNCHANGED vars
    <2>1. UNCHANGED <<interface, job, client, pipes, crashed, disturbed>>
      BY <1>2 DEF vars
    <2>2. DataInv'
      BY <2>1, DataKept DEF interface
    <2>3. ControlInv'
      BY <2>1 DEF interface, client, pipes, ControlInv, ControlOK, StepsAreSound,
                  JobIsFirst, NeverStalls, AtRest, Main
    <2>4. ProtocolInv'
      BY <2>1 DEF interface, client, pipes, ProtocolInv, Idling, Queued, Served, Reported,
                  Shown, Removed, Serves, IsDone, Quiet, Asleep
    <2> QED
      BY <2>2, <2>3, <2>4
  <1> QED
    BY <1>1, <1>2

(* The invariant holds always. *)
LEMMA DictInvHolds == Spec => []DictInv
  <1>1. Init => DictInv
    BY InitHolds DEF DictInv, ListInv
  <1> QED
    BY <1>1, NextKeeps, PTL DEF Spec

(* The client's variables have their types, at most one query waits, and a *)
(* JobData object exists exactly while it is in the list (dict.cpp, stop,  *)
(* insertJob and clientDone).                                              *)
THEOREM DictTypes == Spec => []TypeOK
  <1>1. DictInv => TypeOK
    BY TypesSplit DEF DictInv, ListInv, DataInv, ControlInv
  <1> QED
    BY <1>1, DictInvHolds, PTL

(* The pointer the worker holds is that of the first query of the list, at *)
(* every moment of every deletion.                                         *)
THEOREM PointerNeverDangles == Spec => []JobIsFirst
  <1>1. DictInv => JobIsFirst
    BY DEF DictInv, ListInv, ControlInv
  <1> QED
    BY <1>1, DictInvHolds, PTL

(* While there is a query somebody is awake or will be woken, although     *)
(* both threads empty the pipe that wakes the worker.                      *)
THEOREM NoSignalIsLost == Spec => []NeverStalls
  <1>1. DictInv => NeverStalls
    BY DEF DictInv, ListInv, ControlInv
  <1> QED
    BY <1>1, DictInvHolds, PTL

(* A query that no cancellation disturbs is reported with its own reply,   *)
(* and no null job is used.                                                *)
THEOREM UndisturbedQueriesAreDone == Spec => []UndisturbedIsDone
  <1>1. DictInv => UndisturbedIsDone
    BY DEF DictInv, ProtocolInv, Idling, Queued, Served, Reported, Shown, Removed,
           IsDone, UndisturbedIsDone, First, Starting
  <1> QED
    BY <1>1, DictInvHolds, PTL
=============================================================================
