-------------------------- MODULE KrdcThreads_proofs --------------------------
(***************************************************************************)
(* Theorems about the threads of krdc's VNC view, for queues of any        *)
(* length.                                                                 *)
(*                                                                         *)
(* Each property needs to know what the others leave open: that no thread  *)
(* outlives the view rests on the order of the two joins; that no button   *)
(* is lost on the writer's copy being empty when it looks; that the end of *)
(* a connection is final on the order of the events in the view's queue    *)
(* and on the writer being started only after "connected" was posted.      *)
(***************************************************************************)
EXTENDS KrdcThreads, SequenceTheorems, TLAPS

Queues == [inc : BOOLEAN, announced : BOOLEAN, region : BOOLEAN, last : BOOLEAN,
           mouse : 0..MOUSEPRESS_QUEUE_SIZE, num : 0..MOUSEPRESS_QUEUE_SIZE]
Copies == [inc : BOOLEAN, announced : BOOLEAN, region : BOOLEAN,
           mouse : BOOLEAN, pressed : BOOLEAN]
Requests == [inc : BOOLEAN, region : BOOLEAN, pressed : BOOLEAN]

(* Every event is counted, at most a full queue of them. *)
NetOK ==
    /\ postponed \in BOOLEAN /\ recent \in BOOLEAN
    /\ queue \in Queues /\ copy \in Copies /\ server \in Requests
    /\ queue.num = queue.mouse

(* The threads, the view and what is posted to it. *)
ThreadsOK ==
    /\ quitFlag \in BOOLEAN /\ inited \in BOOLEAN /\ password \in BOOLEAN
    /\ cpc \in ControllerStates
    /\ wpc \in WriterStates
    /\ events \in Seq(Events)
    /\ gui \in {"loop", "joinController", "joinWriter", "gone"}
    /\ dialogs \in Seq({"wallet", "password", "error"})
    /\ status \in Statuses
    /\ tried \in BOOLEAN /\ overrun \in BOOLEAN

(* The joins are made in order. *)
Joined ==
    /\ gui \in {"joinWriter", "gone"} => Finished(cpc)
    /\ gui = "gone" => Finished(wpc)

(* What the writer has taken is on its way when it looks again. *)
CopyIsSent == copy.mouse => wpc \in {"send", "done"}

(* After these states the controller reports nothing but the end. *)
Reporting == {"messages", "update", "done"}
Ending == {"disconnected", "FatalError"}
Positive == Statuses \ {"disconnected"}

(* The writer runs, and an end is reported, only when "connected" has been *)
(* posted; in the queue nothing but ends follows an end.                   *)
EndInv ==
    /\ cpc = "none" => events = <<>> /\ status = "disconnected"
    /\ wpc # "none" => cpc \in Reporting
    /\ (cpc # "none" /\ status = "disconnected") =>
          cpc \in Reporting /\ \A i \in 1..Len(events) : events[i] \notin Positive
    /\ \A i \in 1..Len(events) : events[i] \in Ending =>
          cpc \in Reporting /\ \A j \in i+1..Len(events) : events[j] \notin Positive

ViewInv == NetOK /\ ThreadsOK /\ Joined /\ CopyIsSent /\ ButtonArrives /\ EndInv

----------------------------------------------------------------------------
(* TypeOK, but for the count, in two parts. *)
LEMMA TypesSplit == NetOK /\ ThreadsOK => TypeOK
  BY DEF NetOK, ThreadsOK, TypeOK, Queues, Copies, Requests

(* An event is posted: an end by a thread after "connected", anything else *)
(* by the controller on its way there.                                     *)
LEMMA PostKeepsEnd ==
  ASSUME EndInv, events \in Seq(Events), NEW e \in Events, Post(e),
         cpc # "none", status' = status, cpc' # "none",
         cpc \in Reporting => cpc' \in Reporting,
         wpc' # "none" => wpc # "none" \/ cpc' \in Reporting,
         e \in Positive => cpc \notin Reporting,
         e \in Ending => cpc' \in Reporting
  PROVE  EndInv'
  <1>1. /\ events' = Append(events, e) /\ Len(events') = Len(events) + 1
        /\ Len(events) \in Nat
        /\ \A i \in 1..Len(events) : events'[i] = events[i]
        /\ events'[Len(events) + 1] = e
    BY DEF Post
  <1>2. (cpc' # "none" /\ status' = "disconnected") =>
          cpc' \in Reporting /\ \A i \in 1..Len(events') : events'[i] \notin Positive
    BY <1>1 DEF EndInv
  <1>3. ASSUME NEW i \in 1..Len(events'), events'[i] \in Ending
        PROVE  cpc' \in Reporting /\ \A j \in i+1..Len(events') : events'[j] \notin Positive
    <2>1. CASE i = Len(events) + 1
      BY <1>1, <1>3, <2>1
    <2>2. CASE i \in 1..Len(events)
      <3>1. cpc \in Reporting /\ \A j \in i+1..Len(events) : events[j] \notin Positive
        BY <1>1, <1>3, <2>2 DEF EndInv
      <3>2. \A j \in i+1..Len(events') : j \in i+1..Len(events) \/ j = Len(events) + 1
        BY <1>1
      <3> QED
        BY <1>1, <3>1, <3>2, <2>2
    <2> QED
      BY <1>1, <2>1, <2>2
  <1>4. wpc' # "none" => cpc' \in Reporting
    BY DEF EndInv
  <1> QED
    BY <1>2, <1>3, <1>4 DEF EndInv

(* Nothing is posted, and the controller goes on. *)
LEMMA QuietKeepsEnd ==
  ASSUME EndInv, UNCHANGED <<events, status>>, (cpc = "none") = (cpc' = "none"),
         cpc \in Reporting => cpc' \in Reporting,
         wpc' # "none" => wpc # "none" \/ cpc' \in Reporting
  PROVE  EndInv'
  BY DEF EndInv

(* The first event is taken. *)
LEMMA TakeKeepsEnd ==
  ASSUME EndInv, events \in Seq(Events), events # <<>>, events' = Tail(events),
         UNCHANGED <<cpc, wpc>>,
         status' = IF Head(events) \in Statuses THEN Head(events)
                   ELSE IF Head(events) = "FatalError" THEN "disconnected" ELSE status
  PROVE  EndInv' /\ (cpc # "none" /\ status = "disconnected" => status' = "disconnected")
  <1>1. /\ Len(events) \in Nat /\ Len(events) > 0
        /\ Head(events) = events[1] /\ Len(events') = Len(events) - 1
        /\ \A i \in 1..Len(events') : events'[i] = events[i+1]
    <2>1. Len(events) \in Nat /\ Len(events) # 0
      BY EmptySeq, LenProperties
    <2> QED
      BY <2>1
  <1>2. cpc # "none"
    BY DEF EndInv
  <1>3. (cpc # "none" /\ status = "disconnected") => status' = "disconnected"
    BY <1>1 DEF EndInv, Positive
  <1>4. status' = "disconnected" => status = "disconnected" \/ events[1] \in Ending
    BY <1>1 DEF Ending, Statuses
  <1>5. status' = "disconnected" =>
          cpc \in Reporting /\ \A i \in 1..Len(events') : events'[i] \notin Positive
    <2>1. CASE status = "disconnected"
      BY <1>1, <1>2, <2>1 DEF EndInv
    <2>2. CASE events[1] \in Ending
      BY <1>1, <2>2 DEF EndInv
    <2> QED
      BY <1>4, <2>1, <2>2
  <1>6. ASSUME NEW i \in 1..Len(events'), events'[i] \in Ending
        PROVE  cpc' \in Reporting /\ \A j \in i+1..Len(events') : events'[j] \notin Positive
    <2>1. i + 1 \in 1..Len(events) /\ events[i+1] \in Ending
      BY <1>1, <1>6
    <2>2. cpc \in Reporting /\ \A j \in i+1+1..Len(events) : events[j] \notin Positive
      BY <2>1 DEF EndInv
    <2> QED
      BY <1>1, <2>2
  <1> QED
    BY <1>2, <1>3, <1>5, <1>6 DEF EndInv

----------------------------------------------------------------------------
(***************************************************************************)
(* The invariant is inductive.                                             *)
(***************************************************************************)

LEMMA InitHolds == Init => ViewInv
  <1> SUFFICES ASSUME Init PROVE ViewInv
    OBVIOUS
  <1>1. NetOK
    <2>1. 0 \in 0..MOUSEPRESS_QUEUE_SIZE
      BY KrdcAssumption
    <2>2. queue \in Queues /\ queue.num = queue.mouse
      BY <2>1 DEF Init, Queues
    <2>3. copy \in Copies /\ server \in Requests
      BY DEF Init, Copies, Requests, Nothing
    <2> QED
      BY <2>2, <2>3 DEF Init, NetOK
  <1>2. ThreadsOK
    BY EmptySeq DEF Init, ThreadsOK, ControllerStates, LoginStates, WriterStates, Statuses
  <1>3. Joined /\ CopyIsSent /\ ButtonArrives
    BY DEF Init, Joined, CopyIsSent, ButtonArrives, ButtonAfterDrain, Nothing
  <1>4. EndInv
    BY DEF Init, EndInv
  <1> QED
    BY <1>1, <1>2, <1>3, <1>4 DEF ViewInv

(* The input is where it was, and the writer has not looked again. *)
LEMMA InputUntouched ==
  ASSUME NetOK, CopyIsSent, ButtonArrives,
         UNCHANGED <<netVars, tried, overrun>>,
         quitFlag' = quitFlag \/ quitFlag' = TRUE,
         wpc \in {"send", "done"} => wpc' = wpc \/ wpc' = "done"
  PROVE  NetOK' /\ CopyIsSent' /\ ButtonArrives'
  BY DEF NetOK, CopyIsSent, ButtonArrives, ButtonAfterDrain, netVars

(* The button the user holds does not depend on the update requests. *)
LEMMA RequestsUntouched ==
  ASSUME NetOK, CopyIsSent, ButtonArrives,
         UNCHANGED <<copy, tried, overrun, postponed, recent>>,
         queue' \in Queues, server' \in Requests,
         queue'.mouse = queue.mouse, queue'.num = queue.num, queue'.last = queue.last,
         server'.pressed = server.pressed,
         quitFlag' = quitFlag \/ quitFlag' = TRUE,
         wpc \in {"send", "done"} => wpc' = wpc
  PROVE  NetOK' /\ CopyIsSent' /\ ButtonArrives'
  BY DEF NetOK, CopyIsSent, ButtonArrives, ButtonAfterDrain

(* A running controller goes to another state, perhaps posts an event,     *)
(* sets the flag or wakes the writer, and starts it at the end.            *)
LEMMA ControllerStepKeeps ==
  ASSUME ViewInv, cpc \notin {"none", "done"},
         UNCHANGED <<inited, password, viewVars>>,
         NetOK' /\ CopyIsSent' /\ ButtonArrives',
         quitFlag' = quitFlag \/ quitFlag' = TRUE,
         cpc' \in ControllerStates \ {"none"},
         cpc \in Reporting => cpc' \in Reporting,
         wpc' \in WriterStates,
         wpc' # "none" => wpc # "none" \/ cpc' \in Reporting,
         \/ events' = events
         \/ \E e \in Events : /\ Post(e)
                              /\ e \in Positive => cpc \notin Reporting
                              /\ e \in Ending => cpc' \in Reporting
  PROVE  ViewInv'
  <1>1. events' \in Seq(Events)
    BY AppendProperties DEF ViewInv, ThreadsOK, Post
  <1>2. ThreadsOK'
    BY <1>1 DEF ViewInv, ThreadsOK, viewVars
  <1>3. Joined'
    BY DEF ViewInv, Joined, Finished, viewVars
  <1>4. EndInv'
    <2>1. CASE events' = events
      BY <2>1, QuietKeepsEnd DEF ViewInv, viewVars
    <2>2. CASE events' # events
      BY <2>2, PostKeepsEnd DEF ViewInv, viewVars, ThreadsOK
    <2> QED
      BY <2>1, <2>2
  <1> QED
    BY <1>2, <1>3, <1>4 DEF ViewInv

(* The three ways in which most of its actions end. *)
LEMMA FailsKeeps ==
  ASSUME ViewInv, cpc \notin {"none", "done"}, ControllerFails
  PROVE  ViewInv'
  <1>1. NetOK' /\ CopyIsSent' /\ ButtonArrives'
    BY InputUntouched DEF ViewInv, ControllerFails, WakeWriter, viewVars
  <1>2. wpc' \in WriterStates /\ (wpc' # "none" => wpc # "none")
    BY DEF ViewInv, ThreadsOK, ControllerFails, WakeWriter, WriterStates
  <1>3. "FatalError" \in Events /\ "FatalError" \notin Positive
    BY DEF Events, Positive, Statuses
  <1> QED
    BY <1>1, <1>2, <1>3, ControllerStepKeeps
    DEF ControllerFails, Reporting, ControllerStates

LEMMA LeavesKeeps ==
  ASSUME ViewInv, cpc \notin {"none", "done"}, cpc' = "done", Post("disconnected"),
         UNCHANGED <<inited, password, netVars, viewVars>>,
         quitFlag' = quitFlag \/ quitFlag' = TRUE,
         UNCHANGED wpc \/ WakeWriter
  PROVE  ViewInv'
  <1>1. NetOK' /\ CopyIsSent' /\ ButtonArrives'
    BY InputUntouched DEF ViewInv, WakeWriter, viewVars
  <1>2. wpc' \in WriterStates /\ (wpc' # "none" => wpc # "none")
    BY DEF ViewInv, ThreadsOK, WakeWriter, WriterStates
  <1>3. "disconnected" \in Events /\ "disconnected" \notin Positive
    BY DEF Events, Positive, Statuses
  <1> QED
    BY <1>1, <1>2, <1>3, ControllerStepKeeps DEF Reporting, ControllerStates

LEMMA GoesKeeps ==
  ASSUME ViewInv, cpc \notin {"none", "done"} \cup Reporting,
         NEW next \in ControllerStates \ {"none"}, ControllerGoes(next),
         UNCHANGED events \/ \E e \in Events \ Ending : Post(e)
  PROVE  ViewInv'
  <1>1. NetOK' /\ CopyIsSent' /\ ButtonArrives'
    BY InputUntouched DEF ViewInv, ControllerGoes, viewVars
  <1>2. wpc' \in WriterStates /\ (wpc' # "none" => wpc # "none")
    BY DEF ViewInv, ThreadsOK, ControllerGoes
  <1> QED
    BY <1>1, <1>2, ControllerStepKeeps DEF ControllerGoes

----------------------------------------------------------------------------
(* The controller. *)

LEMMA LocalStepKeeps == ViewInv /\ LocalStep => ViewInv'
  <1> SUFFICES ASSUME ViewInv, LocalStep PROVE ViewInv'
    OBVIOUS
  <1> USE DEF Reporting, Ending
  <1>1. CASE Connect
    <2> USE <1>1 DEF Connect
    <2>1. CASE ControllerFails
      BY <2>1, FailsKeeps
    <2>2. CASE quitFlag /\ ControllerLeaves
      BY <2>2, LeavesKeeps DEF ControllerLeaves
    <2>3. CASE ControllerGoes("auth") /\ Post("authenticating")
      BY <2>3, GoesKeeps DEF ControllerStates, LoginStates, Events, Statuses
    <2> QED
      BY <2>1, <2>2, <2>3
  <1>2. CASE GetPassword
    BY <1>2, GoesKeeps DEF GetPassword, ControllerStates, LoginStates, Events
  <1>3. CASE WaitForAnswer
    BY <1>3, GoesKeeps DEF WaitForAnswer, ControllerStates, LoginStates
  <1>4. CASE WalletAnswered
    BY <1>4, GoesKeeps DEF WalletAnswered, ControllerStates, LoginStates, Events
  <1>5. CASE PasswordAnswered
    BY <1>5, GoesKeeps, LeavesKeeps DEF PasswordAnswered, ControllerStates, LoginStates
  <1>6. CASE AwaitDesktop
    <2> USE <1>6 DEF AwaitDesktop
    <2>1. CASE ControllerLeaves
      BY <2>1, LeavesKeeps DEF ControllerLeaves
    <2>2. CASE ControllerGoes("prepare") /\ Post("preparing")
      BY <2>2, GoesKeeps DEF ControllerStates, LoginStates, Events, Statuses
    <2> QED
      BY <2>1, <2>2
  <1>7. CASE StartWriter
    <2>1. cpc = "start" /\ wpc = "none" /\ wpc' = "test" /\ cpc' = "messages"
      BY <1>7 DEF StartWriter, ViewInv, EndInv
    <2>2. NetOK' /\ CopyIsSent' /\ ButtonArrives'
      BY <1>7, <2>1, InputUntouched DEF StartWriter, ViewInv, viewVars
    <2> QED
      BY <1>7, <2>1, <2>2, ControllerStepKeeps
      DEF StartWriter, ControllerStates, WriterStates
  <1>8. CASE LeaveMessages
    BY <1>8, LeavesKeeps DEF LeaveMessages
  <1> QED
    BY <1>1, <1>2, <1>3, <1>4, <1>5, <1>6, <1>7, <1>8 DEF LocalStep

LEMMA SpuriousWakeKeeps == ViewInv /\ SpuriousWake => ViewInv'
  BY GoesKeeps DEF SpuriousWake, ControllerStates, LoginStates, Reporting

LEMMA ServerStepKeeps == ViewInv /\ ServerStep => ViewInv'
  <1> SUFFICES ASSUME ViewInv, ServerStep PROVE ViewInv'
    OBVIOUS
  <1> USE DEF Reporting, Ending
  <1>1. CASE Handshake
    BY <1>1, FailsKeeps, GoesKeeps DEF Handshake, ControllerStates, LoginStates
  <1>2. CASE Login
    <2> USE <1>2 DEF Login
    <2>1. CASE ControllerFails
      BY <2>1, FailsKeeps
    <2>2. CASE ~ControllerFails
      <3>1. queue' \in Queues /\ queue'.num = queue.num /\ queue'.mouse = queue.mouse
            /\ queue'.last = queue.last
        BY <2>2 DEF ViewInv, NetOK, Queues
      <3>2. NetOK' /\ CopyIsSent' /\ ButtonArrives'
        BY <2>2, <3>1, RequestsUntouched DEF ViewInv, WakeWriter, viewVars, NetOK
      <3>3. wpc' \in WriterStates /\ (wpc' # "none" => wpc # "none")
        BY <2>2 DEF ViewInv, ThreadsOK, WakeWriter, WriterStates
      <3> QED
        <4>1. /\ cpc = "login" /\ cpc' = "desktop" /\ Post("DesktopInit")
              /\ UNCHANGED <<quitFlag, inited, password, viewVars>>
          BY <2>2
        <4>2. "DesktopInit" \in Events \ (Positive \cup Ending)
          BY DEF Events, Positive, Statuses
        <4>3. cpc' \in ControllerStates \ {"none"} /\ cpc \notin Reporting \cup {"none"}
          BY <4>1 DEF ControllerStates
        <4> HIDE DEF Login, Reporting, Ending
        <4> QED
          BY <3>2, <3>3, <4>1, <4>2, <4>3, ControllerStepKeeps
    <2> QED
      BY <2>1, <2>2
  <1>3. CASE Prepare
    BY <1>3, FailsKeeps, GoesKeeps DEF Prepare, ControllerStates, Events, Statuses
  <1>4. CASE UpdateBegins
    <2> USE <1>4 DEF UpdateBegins
    <2>1. /\ queue' \in Queues /\ queue'.num = queue.num /\ queue'.mouse = queue.mouse
          /\ queue'.last = queue.last
          /\ server' \in Requests /\ server'.pressed = server.pressed
      BY DEF ViewInv, NetOK, Queues, Requests
    <2>2. NetOK' /\ CopyIsSent' /\ ButtonArrives'
      BY <2>1, RequestsUntouched DEF ViewInv, viewVars
    <2>3. wpc' \in WriterStates
      BY DEF ViewInv, ThreadsOK
    <2> QED
      BY <2>2, <2>3, ControllerStepKeeps DEF ControllerStates
  <1>5. CASE UpdateEnds
    <2> USE <1>5 DEF UpdateEnds, queueIncrementalUpdateRequest
    <2>1. /\ queue' \in Queues /\ queue'.num = queue.num /\ queue'.mouse = queue.mouse
          /\ queue'.last = queue.last
      BY DEF ViewInv, NetOK, Queues
    <2>2. NetOK' /\ CopyIsSent' /\ ButtonArrives'
      BY <2>1, RequestsUntouched DEF ViewInv, WakeWriter, viewVars, NetOK
    <2>3. wpc' \in WriterStates
      BY DEF ViewInv, ThreadsOK, WakeWriter, WriterStates
    <2> QED
      BY <2>2, <2>3, ControllerStepKeeps DEF ControllerStates
  <1>6. CASE ConnectionLost
    BY <1>6, FailsKeeps DEF ConnectionLost
  <1> QED
    BY <1>1, <1>2, <1>3, <1>4, <1>5, <1>6 DEF ServerStep

(* The writer. *)

LEMMA WriterStepKeeps == ViewInv /\ (WriterStep \/ Elapse) => ViewInv'
  <1> SUFFICES ASSUME ViewInv, WriterStep \/ Elapse PROVE ViewInv'
    OBVIOUS
  <1>1. Joined'
    BY DEF ViewInv, Joined, Finished, WriterStep, TestQuit, Look, Timeout, Send, SendFails,
           Elapse, WriterUnchanged, viewVars
  <1>2. EndInv'
    <2>1. CASE SendFails
      <3>1. cpc \in Reporting /\ cpc # "none" /\ events \in Seq(Events)
            /\ "FatalError" \in Events /\ "FatalError" \notin Positive
            /\ UNCHANGED <<cpc, status>>
        BY <2>1 DEF SendFails, WriterUnchanged, viewVars, ViewInv, EndInv, ThreadsOK,
                    Reporting, Events, Positive, Statuses
      <3> QED
        BY <2>1, <3>1, PostKeepsEnd DEF SendFails, ViewInv
    <2>2. CASE ~SendFails
      BY <2>2, QuietKeepsEnd
      DEF ViewInv, WriterStep, TestQuit, Look, Timeout, Send, Elapse, WriterUnchanged, viewVars
    <2> QED
      BY <2>1, <2>2
  <1>3. ThreadsOK'
    <2>1. wpc' \in WriterStates
      BY DEF ViewInv, ThreadsOK, WriterStep, TestQuit, Look, Timeout, Send, SendFails, Elapse,
             WriterStates
    <2>2. events' \in Seq(Events)
      BY AppendProperties
      DEF ViewInv, ThreadsOK, WriterStep, TestQuit, Look, Timeout, Send, SendFails, Elapse,
          Post, Events
    <2>3. quitFlag' \in BOOLEAN
      BY DEF ViewInv, ThreadsOK, WriterStep, TestQuit, Look, Timeout, Send, SendFails, Elapse
    <2> QED
      BY <2>1, <2>2, <2>3
      DEF ViewInv, ThreadsOK, WriterStep, TestQuit, Look, Timeout, Send, SendFails, Elapse,
          WriterUnchanged, viewVars
  <1>4. NetOK' /\ CopyIsSent' /\ ButtonArrives'
    <2> USE DEF ViewInv
    <2>1. CASE TestQuit
      BY <2>1, InputUntouched DEF TestQuit, WriterUnchanged, viewVars
    <2>2. CASE Look
      <3>1. CASE NothingToSend
        BY <2>2, <3>1, InputUntouched DEF Look, WriterUnchanged, viewVars, netVars
      <3>2. CASE ~NothingToSend
        <4>1. TakeAll /\ wpc' = "send" /\ ~copy.mouse
              /\ UNCHANGED <<quitFlag, server, postponed, recent, tried, overrun>>
          BY <2>2, <3>2 DEF Look, WriterUnchanged, viewVars, CopyIsSent, NetOK, Copies
        <4>2. /\ queue' \in Queues /\ queue'.mouse = 0 /\ queue'.num = 0
              /\ queue'.last = queue.last
          <5>1. 0 \in 0..MOUSEPRESS_QUEUE_SIZE
            BY KrdcAssumption
          <5>2. queue' = [inc |-> FALSE, announced |-> FALSE, region |-> FALSE,
                          last |-> queue.last, mouse |-> 0, num |-> 0]
            BY <4>1 DEF TakeAll, NetOK, Queues
          <5>3. queue.last \in BOOLEAN
            BY DEF NetOK, Queues
          <5> QED
            BY <5>1, <5>2, <5>3 DEF Queues
        <4>3. /\ copy' \in Copies /\ copy'.mouse = (queue.mouse > 0)
              /\ copy'.pressed = (queue.mouse > 0 /\ queue.last)
          BY <4>1 DEF TakeAll, NetOK, Queues, Copies
        <4>4. NetOK'
          BY <4>1, <4>2, <4>3 DEF NetOK
        <4>5. ButtonAfterDrain' = ButtonAfterDrain
          <5>1. queue.mouse \in Nat
            BY KrdcAssumption DEF NetOK, Queues
          <5>2. CASE queue.mouse > 0
            BY <4>1, <4>2, <4>3, <5>1, <5>2 DEF ButtonAfterDrain, NetOK, Queues, Copies
          <5>3. CASE ~(queue.mouse > 0)
            <6>1. queue'.mouse = 0 /\ ~copy'.mouse /\ server' = server
              BY <4>1, <4>2, <4>3, <5>3
            <6>2. ButtonAfterDrain = server.pressed
              BY <4>1, <5>3 DEF ButtonAfterDrain
            <6>3. ButtonAfterDrain' = server'.pressed
              BY <6>1 DEF ButtonAfterDrain
            <6> QED
              BY <6>1, <6>2, <6>3
          <5> QED
            BY <5>2, <5>3
        <4> QED
          BY <4>1, <4>4, <4>5 DEF CopyIsSent, ButtonArrives
      <3> QED
        BY <3>1, <3>2
    <2>3. CASE Timeout
      <3>1. queue' \in Queues /\ queue'.num = queue.num /\ queue'.mouse = queue.mouse
            /\ queue'.last = queue.last
        BY <2>3 DEF Timeout, NetOK, Queues
      <3> QED
        BY <2>3, <3>1, RequestsUntouched DEF Timeout, WriterUnchanged, viewVars, NetOK
    <2>4. CASE Send
      <3>1. copy' = Nothing /\ copy' \in Copies /\ ~copy'.mouse
        BY <2>4 DEF Send, Nothing, Copies
      <3>2. /\ server' \in Requests
            /\ server'.pressed = IF copy.mouse THEN copy.pressed ELSE server.pressed
        <4>1. SendsUpdate \in BOOLEAN
          BY DEF SendsUpdate, NetOK, Copies
        <4> QED
          BY <2>4, <4>1 DEF Send, NetOK, Requests, Copies
      <3>3. NetOK'
        <4>1. postponed' \in BOOLEAN /\ recent' \in BOOLEAN
          BY <2>4 DEF Send, SendsUpdate, NetOK, Copies
        <4> QED
          BY <2>4, <3>1, <3>2, <4>1 DEF Send, NetOK
      <3>4. ButtonAfterDrain' = ButtonAfterDrain
        BY <2>4, <3>1, <3>2 DEF Send, ButtonAfterDrain
      <3> QED
        BY <2>4, <3>1, <3>3, <3>4
        DEF Send, CopyIsSent, ButtonArrives, WriterUnchanged, viewVars
    <2>5. CASE SendFails
      BY <2>5, InputUntouched DEF SendFails, WriterUnchanged, viewVars
    <2>6. CASE Elapse
      BY <2>6 DEF Elapse, WriterUnchanged, viewVars, NetOK, CopyIsSent, ButtonArrives,
                  ButtonAfterDrain
    <2> QED
      BY <2>1, <2>2, <2>3, <2>4, <2>5, <2>6 DEF WriterStep
  <1> QED
    BY <1>1, <1>2, <1>3, <1>4 DEF ViewInv

(* The GUI thread. *)

LEMMA TakeEventKeeps == ViewInv /\ customEvent => ViewInv'
  <1> SUFFICES ASSUME ViewInv, customEvent PROVE ViewInv'
    OBVIOUS
  <1> USE DEF customEvent
  <1>1. NetOK' /\ CopyIsSent' /\ ButtonArrives'
    BY InputUntouched DEF ViewInv
  <1>2. Joined'
    BY DEF ViewInv, Joined, Finished
  <1>3. EndInv'
    BY TakeKeepsEnd DEF ViewInv, ThreadsOK
  <1>4. ThreadsOK'
    <2>1. Head(events) \in Events /\ events' \in Seq(Events)
      BY HeadTailProperties DEF ViewInv, ThreadsOK
    <2>2. status' \in Statuses /\ inited' \in BOOLEAN
      BY DEF ViewInv, ThreadsOK, Statuses
    <2>3. dialogs' \in Seq({"wallet", "password", "error"})
      BY AppendProperties DEF ViewInv, ThreadsOK
    <2> QED
      BY <2>1, <2>2, <2>3 DEF ViewInv, ThreadsOK
  <1> QED
    BY <1>1, <1>2, <1>3, <1>4 DEF ViewInv

LEMMA CloseKeeps == ViewInv /\ (CloseQuestion \/ CloseError) => ViewInv'
  <1> SUFFICES ASSUME ViewInv, CloseQuestion \/ CloseError PROVE ViewInv'
    OBVIOUS
  <1>1. /\ UNCHANGED <<quitFlag, inited, wpc, netVars, events, gui, status, tried, overrun>>
        /\ gui = "loop" /\ dialogs # <<>> /\ dialogs' = Front(dialogs)
    BY DEF CloseQuestion, CloseError
  <1>2. /\ cpc' \in ControllerStates
        /\ (cpc' = "none") = (cpc = "none")
        /\ cpc \in Reporting => cpc' \in Reporting
    BY DEF CloseQuestion, CloseError, WakeController, ViewInv, ThreadsOK, ControllerStates,
           LoginStates, Reporting
  <1>3. password' \in BOOLEAN
    BY DEF CloseQuestion, CloseError, ViewInv, ThreadsOK
  <1>4. dialogs' \in Seq({"wallet", "password", "error"})
    <2> DEFINE D == {"wallet", "password", "error"}
    <2> HIDE DEF D
    <2>1. dialogs \in Seq(D)
      BY DEF ViewInv, ThreadsOK, D
    <2>2. Len(dialogs) - 1 \in Int /\ \A i \in 1..Len(dialogs)-1 : dialogs[i] \in D
      BY <2>1, LenProperties, ElementOfSeq
    <2>3. SubSeq(dialogs, 1, Len(dialogs) - 1) \in Seq(D)
      BY <2>2, SubSeqProperties
    <2> QED
      BY <1>1, <2>3 DEF Front, D
  <1>5. NetOK' /\ CopyIsSent' /\ ButtonArrives'
    BY <1>1, InputUntouched DEF ViewInv
  <1>6. Joined'
    BY <1>1 DEF Joined
  <1>7. EndInv'
    BY <1>1, <1>2, QuietKeepsEnd DEF ViewInv
  <1>8. ThreadsOK'
    BY <1>1, <1>2, <1>3, <1>4 DEF ViewInv, ThreadsOK
  <1> QED
    BY <1>5, <1>6, <1>7, <1>8 DEF ViewInv

LEMMA DestructorKeeps == ViewInv /\ (Delete \/ JoinController \/ JoinWriter) => ViewInv'
  <1> SUFFICES ASSUME ViewInv, Delete \/ JoinController \/ JoinWriter PROVE ViewInv'
    OBVIOUS
  <1> USE DEF Delete, JoinController, JoinWriter
  <1>1. wpc' \in WriterStates /\ (wpc' # "none" => wpc # "none")
        /\ (wpc \in {"send", "done"} => wpc' = wpc)
    BY DEF WakeWriter, ViewInv, ThreadsOK, WriterStates
  <1>2. NetOK' /\ CopyIsSent' /\ ButtonArrives'
    BY <1>1, InputUntouched DEF ViewInv
  <1>3. Joined'
    BY DEF ViewInv, Joined, Finished
  <1>4. events' \in Seq(Events) /\ (events' = events \/ events' = <<>>)
    BY EmptySeq DEF ViewInv, ThreadsOK
  <1>5. EndInv'
    <2>1. CASE events' = events
      BY <2>1, <1>1, QuietKeepsEnd DEF ViewInv
    <2>2. CASE events' = <<>>
      <3>1. Len(events') = 0
        BY <2>2, EmptySeq
      <3> QED
        BY <1>1, <2>2, <3>1 DEF ViewInv, EndInv
    <2> QED
      BY <1>4, <2>1, <2>2
  <1>6. ThreadsOK'
    BY <1>1, <1>4 DEF ViewInv, ThreadsOK
  <1> QED
    BY <1>2, <1>3, <1>5, <1>6 DEF ViewInv

LEMMA StartKeeps == ViewInv /\ Start => ViewInv'
  <1> SUFFICES ASSUME ViewInv, Start PROVE ViewInv'
    OBVIOUS
  <1> USE DEF Start
  <1>1. NetOK' /\ CopyIsSent' /\ ButtonArrives'
    BY InputUntouched DEF ViewInv
  <1>2. ThreadsOK'
    BY DEF ViewInv, ThreadsOK, ControllerStates, Statuses
  <1>3. Joined'
    BY DEF Joined
  <1>4. EndInv'
    BY EmptySeq DEF ViewInv, EndInv, Reporting
  <1> QED
    BY <1>1, <1>2, <1>3, <1>4 DEF ViewInv

(* An event of the mouse is dropped only when the server will be told what *)
(* it says all the same, or when the writer is a full queue behind.        *)
LEMMA MouseEventKeeps ==
  ASSUME ViewInv, NEW moved \in BOOLEAN, NEW pressed \in BOOLEAN, mouseEvent(moved, pressed)
  PROVE  ViewInv'
  <1> USE DEF mouseEvent
  <1>0. queue.mouse \in Nat /\ queue.num = queue.mouse
    BY KrdcAssumption DEF ViewInv, NetOK, Queues
  <1>1. CASE Repeats(moved, pressed) \/ Overruns(pressed)
    <2>1. UNCHANGED <<queue, wpc, copy, server, quitFlag>> /\ tried' = pressed
      BY <1>1 DEF queueMouseEvent
    <2>2. NetOK' /\ CopyIsSent'
      BY <2>1 DEF ViewInv, NetOK, CopyIsSent
    <2>3. overrun' \/ (queue.mouse > 0 /\ queue.last = pressed)
      BY <1>0, <1>1, KrdcAssumption DEF Repeats, Overruns
    <2>4. ButtonArrives'
      BY <2>1, <2>3 DEF ButtonArrives, ButtonAfterDrain
    <2>5. ThreadsOK'
      BY <2>1 DEF ViewInv, ThreadsOK
    <2>6. EndInv'
      BY <2>1, QuietKeepsEnd DEF ViewInv
    <2>7. Joined'
      BY DEF Joined
    <2> QED
      BY <2>2, <2>4, <2>5, <2>6, <2>7 DEF ViewInv
  <1>2. CASE ~(Repeats(moved, pressed) \/ Overruns(pressed))
    <2>1. /\ queue' = [queue EXCEPT !.num = @ + 1, !.last = pressed, !.mouse = @ + 1]
          /\ WakeWriter /\ tried' = pressed /\ UNCHANGED <<copy, server, quitFlag>>
      BY <1>2 DEF queueMouseEvent
    <2>2. queue.mouse + 1 \in 0..MOUSEPRESS_QUEUE_SIZE
      BY <1>0, <1>2, KrdcAssumption DEF Overruns
    <2>3. /\ queue' \in Queues /\ queue'.mouse = queue.mouse + 1
          /\ queue'.num = queue'.mouse /\ queue'.last = pressed
      BY <1>0, <2>1, <2>2 DEF ViewInv, NetOK, Queues
    <2>4. wpc' \in WriterStates /\ (wpc' # "none" => wpc # "none")
          /\ (wpc \in {"send", "done"} => wpc' = wpc)
      BY <2>1 DEF WakeWriter, ViewInv, ThreadsOK, WriterStates
    <2>5. NetOK' /\ CopyIsSent'
      BY <2>1, <2>3, <2>4 DEF ViewInv, NetOK, CopyIsSent
    <2>6. ButtonArrives'
      BY <1>0, <2>1, <2>3 DEF ButtonArrives, ButtonAfterDrain
    <2>7. ThreadsOK'
      BY <2>1, <2>4 DEF ViewInv, ThreadsOK
    <2>8. EndInv'
      BY <2>4, QuietKeepsEnd DEF ViewInv
    <2>9. Joined'
      BY DEF Joined
    <2> QED
      BY <2>5, <2>6, <2>7, <2>8, <2>9 DEF ViewInv
  <1> QED
    BY <1>1, <1>2

----------------------------------------------------------------------------
LEMMA StutterKeeps == ViewInv /\ UNCHANGED vars => ViewInv'
  <1> SUFFICES ASSUME ViewInv, UNCHANGED vars PROVE ViewInv'
    OBVIOUS
  <1> USE DEF vars, netVars, viewVars, ViewInv
  <1>1. NetOK' /\ CopyIsSent' /\ ButtonArrives'
    BY InputUntouched
  <1>2. EndInv'
    BY QuietKeepsEnd
  <1>3. ThreadsOK' /\ Joined'
    BY DEF ThreadsOK, Joined
  <1> QED
    BY <1>1, <1>2, <1>3

LEMMA NextKeeps == ViewInv /\ [Next]_vars => ViewInv'
  BY LocalStepKeeps, ServerStepKeeps, SpuriousWakeKeeps, WriterStepKeeps, StartKeeps,
     TakeEventKeeps, CloseKeeps, DestructorKeeps, MouseEventKeeps, StutterKeeps
  DEF Next, GuiStep

LEMMA ViewInvHolds == Spec => []ViewInv
  BY InitHolds, NextKeeps, PTL DEF Spec

(* The variables keep their types; the counters never pass the sizes that  *)
(* threads.h gives the queues.                                             *)
THEOREM KrdcTypes == Spec => []TypeOK
  <1>1. ViewInv => TypeOK
    BY TypesSplit DEF ViewInv
  <1> QED
    BY <1>1, ViewInvHolds, PTL

(* ~KVncView returns only when the controller and the writer have returned *)
(* from run, however late the controller starts the writer.                *)
THEOREM ThreadsEndBeforeView == Spec => []NoThreadOutlivesView
  <1>1. ViewInv => NoThreadOutlivesView
    BY DEF ViewInv, Joined, NoThreadOutlivesView
  <1> QED
    BY <1>1, ViewInvHolds, PTL

(* queueMouseEvent and the writer lose no press and no release while the   *)
(* writer is less than a full queue behind.                                *)
THEOREM PressesArrive == Spec => []ButtonArrives
  <1>1. ViewInv => ButtonArrives
    BY DEF ViewInv
  <1> QED
    BY <1>1, ViewInvHolds, PTL

(* KVncView::customEvent never shows another status after it has shown the *)
(* end of the connection.                                                  *)
THEOREM EndIsFinal == Spec => DisconnectedIsFinal
  <1> DEFINE Final == cpc # "none" /\ status = "disconnected" => status' = "disconnected"
  <1>1. ViewInv /\ [Next]_vars => [Final]_vars
    <2> SUFFICES ASSUME ViewInv, [Next]_vars, cpc # "none", status = "disconnected"
                 PROVE  status' = "disconnected"
      OBVIOUS
    <2>1. CASE customEvent
      BY <2>1, TakeKeepsEnd DEF customEvent, ViewInv, ThreadsOK
    <2>2. CASE ~customEvent
      BY <2>2 DEF Next, LocalStep, ServerStep, SpuriousWake, WriterStep, Elapse, Start, GuiStep,
         Delete, mouseEvent, Connect, GetPassword, WaitForAnswer, WalletAnswered,
         PasswordAnswered, AwaitDesktop, StartWriter, LeaveMessages, Handshake, Login, Prepare,
         UpdateBegins, UpdateEnds, ConnectionLost, ControllerFails, ControllerLeaves,
         ControllerGoes, TestQuit, Look, Timeout, Send, SendFails, WriterUnchanged,
         CloseQuestion, CloseError, JoinController, JoinWriter, viewVars, vars
    <2> QED
      BY <2>1, <2>2
  <1>2. ViewInv /\ [Next]_vars => [cpc # "none" /\ status = "disconnected"
                                      => status' = "disconnected"]_vars
    BY <1>1
  <1> QED
    BY <1>2, ViewInvHolds, PTL DEF Spec, DisconnectedIsFinal

=============================================================================
