----------------------------- MODULE KGet_proofs -----------------------------
(***************************************************************************)
(* Theorems about KGet: the slaves under any client, and the main thread   *)
(* with its slaves, for any list of transfers, any settings and any user.  *)
(***************************************************************************)
EXTENDS KGet, FiniteSetTheorems, WellFoundedInduction, TLAPS

USE DEF Commands, Killing, Retrieving, Stopping, Leaving

LEMMA AnswerType == \A c \in DOMAIN Answer : Answer[c] \in EventKinds
  BY DEF Answer, EventKinds

(* Posting an event keeps the event queue well typed. *)
LEMMA PostType ==
  ASSUME SlaveTypeOK, NEW t \in Transfers, NEW kind \in EventKinds, Post(t, kind)
  PROVE  events' \in Seq([t : Transfers, kind : EventKinds])
  BY DEF SlaveTypeOK, Post

(* The slave starts in a state of the invariant: no thread, no job. *)
LEMMA InitInv == SInit => SlaveInv
  <1> SUFFICES ASSUME SInit PROVE SlaveInv
    OBVIOUS
  <1>1. SlaveTypeOK
    BY SlaveAssumption DEF SInit, SlaveTypeOK, NoOp, NoEmission, PCs, Lines
  <1>2. JobHasThread /\ KilledWhenActing /\ EmissionIsCurrent
    BY DEF SInit, JobHasThread, KilledWhenActing, EmissionIsCurrent, NoEmission
  <1> QED
    BY <1>1, <1>2 DEF SlaveInv

(* Every step of the worker of t keeps the invariant. *)
LEMMA WorkerInv ==
  ASSUME SlaveInv, NEW t \in Transfers, Worker(t)
  PROVE  SlaveInv'
  <1> USE DEF SlaveInv
  <1>1. CASE CheckPending(t)
    BY <1>1 DEF CheckPending, SlaveTypeOK, JobHasThread, KilledWhenActing,
                EmissionIsCurrent, PCs
  <1>2. CASE Sleep(t)
    BY <1>2 DEF Sleep, SlaveTypeOK, JobHasThread, KilledWhenActing,
                EmissionIsCurrent, PCs
  <1>3. CASE SpuriousWake(t)
    BY <1>3 DEF SpuriousWake, SlaveTypeOK, JobHasThread, KilledWhenActing,
                EmissionIsCurrent, PCs
  <1>4. CASE FetchCmd(t)
    <2>1. SlaveTypeOK'
      <3>1. stack[t] \in Seq(Commands)
        BY DEF SlaveTypeOK
      <3>2. stack[t] # <<>> => Head(stack[t]) \in Commands /\ Tail(stack[t]) \in Seq(Commands)
        BY <3>1
      <3>3. cmd' \in [Transfers -> Commands \cup {"NOOP"}]
        BY <1>4, <3>2 DEF FetchCmd, SlaveTypeOK
      <3>4. stack' \in [Transfers -> Seq(Commands)]
        BY <1>4, <3>2 DEF FetchCmd, SlaveTypeOK
      <3> QED BY <1>4, <3>3, <3>4 DEF FetchCmd, SlaveTypeOK, PCs
    <2>2. JobHasThread' /\ KilledWhenActing' /\ EmissionIsCurrent'
      BY <1>4 DEF FetchCmd, SlaveTypeOK, JobHasThread, KilledWhenActing,
                  EmissionIsCurrent, PCs
    <2> QED BY <2>1, <2>2
  <1>5. CASE Dispatch(t)
    BY <1>5 DEF Dispatch, SlaveTypeOK, JobHasThread, KilledWhenActing,
                EmissionIsCurrent, PCs
  <1>6. CASE KillJob(t)
    <2>1. SlaveTypeOK'
      BY <1>6 DEF KillJob, SlaveTypeOK, PCs, Lines
    <2>2. JobHasThread' /\ KilledWhenActing'
      BY <1>6 DEF KillJob, SlaveTypeOK, JobHasThread, KilledWhenActing, PCs
    <2>3. EmissionIsCurrent'
      <3>1. emitting'.t = emitting.t
        BY <1>6 DEF KillJob, SlaveTypeOK
      <3>2. copyjob[t] = "none" => emitting' = emitting /\ copyjob' = copyjob
        BY <1>6 DEF KillJob
      <3>3. copyjob[t] # "none" => (emitting'.valid <=> emitting.valid /\ emitting.t # t)
        BY <1>6, Zenon DEF KillJob, SlaveTypeOK
      <3>4. \A u \in Transfers : u # t => copyjob'[u] = copyjob[u]
        BY <1>6 DEF KillJob, SlaveTypeOK
      <3> QED BY <3>1, <3>2, <3>3, <3>4 DEF EmissionIsCurrent
    <2> QED BY <2>1, <2>2, <2>3
  <1>7. CASE Retrieve(t)
    <2>1. SlaveTypeOK'
      <3>1. cmd[t] # "RETR_CACHE" => Answer[cmd[t]] \in EventKinds
        BY <1>7, AnswerType DEF Retrieve, Answer
      <3>2. events' \in Seq([t : Transfers, kind : EventKinds])
        BY <1>7, <3>1, PostType DEF Retrieve, SlaveTypeOK
      <3> QED BY <1>7, <3>2 DEF Retrieve, Done, SlaveTypeOK, PCs, Lines
    <2>2. emitting' = emitting
      BY <1>7 DEF Retrieve
    <2>3. CASE copyjob[t] # "none"
      <3>1. UNCHANGED <<copyjob, pc, cmd>>
        BY <1>7, <2>3 DEF Retrieve
      <3> QED BY <2>1, <2>2, <3>1
              DEF JobHasThread, KilledWhenActing, EmissionIsCurrent
    <2>4. CASE copyjob[t] = "none"
      <3>1. /\ copyjob' = [copyjob EXCEPT ![t] = "new"]
            /\ pc' = [pc EXCEPT ![t] = "check"]
        BY <1>7, <2>4 DEF Retrieve
      <3>2. \A u \in Transfers : u # t => cmd'[u] = cmd[u]
        BY <1>7, <2>4 DEF Retrieve, Done, SlaveTypeOK
      <3> QED BY <2>1, <2>2, <3>1, <3>2
              DEF SlaveTypeOK, JobHasThread, KilledWhenActing, EmissionIsCurrent
    <2> QED BY <2>3, <2>4
  <1>8. CASE AnswerStop(t)
    <2>1. SlaveTypeOK'
      <3>1. Answer[cmd[t]] \in EventKinds
        BY <1>8, AnswerType DEF AnswerStop, Answer
      <3>2. events' \in Seq([t : Transfers, kind : EventKinds])
        BY <1>8, <3>1, PostType DEF AnswerStop
      <3> QED BY <1>8, <3>2 DEF AnswerStop, Done, SlaveTypeOK, PCs
    <2>2. JobHasThread' /\ KilledWhenActing' /\ EmissionIsCurrent'
      BY <1>8 DEF AnswerStop, Done, SlaveTypeOK, JobHasThread, KilledWhenActing,
                  EmissionIsCurrent, PCs
    <2> QED BY <2>1, <2>2
  <1>9. CASE LeaveLoop(t)
    <2>1. SlaveTypeOK'
      <3>1. cmd[t] = "REMOVE" => Answer[cmd[t]] \in EventKinds
        BY AnswerType DEF Answer
      <3>2. events' \in Seq([t : Transfers, kind : EventKinds])
        BY <1>9, <3>1, PostType DEF LeaveLoop, SlaveTypeOK
      <3> QED BY <1>9, <3>2 DEF LeaveLoop, Done, SlaveTypeOK, PCs
    <2>2. JobHasThread' /\ KilledWhenActing' /\ EmissionIsCurrent'
      BY <1>9 DEF LeaveLoop, Done, SlaveTypeOK, JobHasThread, KilledWhenActing,
                  EmissionIsCurrent, PCs
    <2> QED BY <2>1, <2>2
  <1>10. CASE Exit(t)
    BY <1>10 DEF Exit, SlaveTypeOK, JobHasThread, KilledWhenActing,
                 EmissionIsCurrent, PCs
  <1> QED
    BY <1>1, <1>2, <1>3, <1>4, <1>5, <1>6, <1>7, <1>8, <1>9, <1>10 DEF Worker

(* Every step of the main thread keeps the invariant. *)
LEMMA MainInv ==
  ASSUME SlaveInv, NEW t \in Transfers,
         \/ \E c \in Commands : OpStart(t, c)
         \/ OpPush(t)
         \/ \E connects \in BOOLEAN : SlotTotalSize(t, connects)
         \/ EmitResult(t)
         \/ \E kind \in Results : SlotResult(t, kind)
  PROVE  SlaveInv'
  <1> USE DEF SlaveInv
  <1>1. ASSUME NEW c \in Commands, OpStart(t, c) PROVE SlaveInv'
    BY <1>1, SlaveAssumption
       DEF OpStart, Running, SlaveTypeOK, JobHasThread, KilledWhenActing,
           EmissionIsCurrent, PCs
  <1>2. CASE OpPush(t)
    <2>1. SlaveTypeOK'
      <3>1. op.cmd \in Commands
        BY <1>2 DEF OpPush, SlaveTypeOK
      <3>2. stack' \in [Transfers -> Seq(Commands)]
        BY <1>2, <3>1 DEF OpPush, SlaveTypeOK
      <3> QED
        BY <1>2, <3>2, SlaveAssumption DEF OpPush, SlaveTypeOK, NoOp, PCs
    <2>2. JobHasThread' /\ KilledWhenActing' /\ EmissionIsCurrent'
      BY <1>2 DEF OpPush, SlaveTypeOK, JobHasThread, KilledWhenActing,
                  EmissionIsCurrent, PCs
    <2> QED BY <2>1, <2>2
  <1>3. ASSUME NEW connects \in BOOLEAN, SlotTotalSize(t, connects)
        PROVE  SlaveInv'
    <2>1. events' \in Seq([t : Transfers, kind : EventKinds])
      <3>1. "SLV_CONNECTED" \in EventKinds
        BY DEF EventKinds
      <3> QED BY <1>3, <3>1, PostType DEF SlotTotalSize, SlaveTypeOK
    <2> QED
      BY <1>3, <2>1 DEF SlotTotalSize, SlaveTypeOK, JobHasThread,
                        KilledWhenActing, EmissionIsCurrent
  <1>4. CASE EmitResult(t)
    BY <1>4 DEF EmitResult, SlaveTypeOK, JobHasThread, KilledWhenActing,
                EmissionIsCurrent
  <1>5. ASSUME NEW kind \in Results, SlotResult(t, kind) PROVE SlaveInv'
    <2>1. events' \in Seq([t : Transfers, kind : EventKinds])
      <3>1. kind \in EventKinds
        BY DEF EventKinds
      <3> QED BY <1>5, <3>1, PostType DEF SlotResult, SlaveTypeOK
    <2> QED
      BY <1>5, <2>1, SlaveAssumption
         DEF SlotResult, NoEmission, SlaveTypeOK, JobHasThread,
             KilledWhenActing, EmissionIsCurrent, Lines
  <1> QED
    BY <1>1, <1>2, <1>3, <1>4, <1>5

(* The invariant is inductive. *)
LEMMA NextInv == SlaveInv /\ [SlaveNext]_svars => SlaveInv'
  <1> SUFFICES ASSUME SlaveInv, [SlaveNext]_svars PROVE SlaveInv'
    OBVIOUS
  <1>1. CASE UNCHANGED svars
    BY <1>1 DEF svars, SlaveInv, SlaveTypeOK, JobHasThread, KilledWhenActing,
                EmissionIsCurrent
  <1>2. CASE ClientRead
    BY <1>2 DEF ClientRead, SlaveInv, SlaveTypeOK, JobHasThread,
                KilledWhenActing, EmissionIsCurrent
  <1>3. ASSUME NEW t \in Transfers,
               \/ ClientOp(t) \/ OpPush(t) \/ ClientResult(t) \/ EmitResult(t)
               \/ \E kind \in Results : SlotResult(t, kind)
        PROVE  SlaveInv'
    BY <1>3, MainInv DEF ClientOp, ClientResult
  <1>4. ASSUME NEW t \in Transfers, BoundedWorker(t) PROVE SlaveInv'
    BY <1>4, WorkerInv DEF BoundedWorker
  <1> QED
    BY <1>1, <1>2, <1>3, <1>4 DEF SlaveNext

(* Whatever commands the client sends and whenever jobs end, a download    *)
(* never outlives its thread, and run() acts on a killing command with no  *)
(* job left.                                                               *)
THEOREM SlaveSafety == SlaveSpec => []SlaveInv
  <1>1. SInit => SlaveInv
    BY InitInv
  <1>2. SlaveInv /\ [SlaveNext]_svars => SlaveInv'
    BY NextInv
  <1> QED
    BY <1>1, <1>2, PTL DEF SlaveSpec

----------------------------------------------------------------------------
(* KGetSlave implements KGetDownload.                                      *)

USE DEF Download!Launch, Download!Begin, Download!End, Download!Leave

LEMMA DownloadInit == SInit => Download!DInit
  BY DEF SInit, Download!DInit

(* A step that leaves the thread of t where it is or moves it inside run() *)
(* and does not touch the job is a stutter of the download.                *)
LEMMA StutterStep ==
  ASSUME SlaveTypeOK, NEW t \in Transfers, NEW p \in PCs \ {"none"},
         pc[t] # "none", pc' = [pc EXCEPT ![t] = p], copyjob' = copyjob
  PROVE  UNCHANGED Download!dvars
  BY DEF SlaveTypeOK, Download!dvars

(* A step of the worker of t is a step of its download, or a stutter. *)
LEMMA WorkerRefines ==
  ASSUME SlaveInv, NEW t \in Transfers, Worker(t)
  PROVE  Download!DNext \/ UNCHANGED Download!dvars
  <1> USE DEF SlaveInv
  <1>1. CASE CheckPending(t) \/ Sleep(t) \/ SpuriousWake(t) \/ FetchCmd(t) \/ Dispatch(t)
             \/ AnswerStop(t) \/ LeaveLoop(t)
    <2>1. \E p \in PCs \ {"none"} : pc' = [pc EXCEPT ![t] = p]
      BY <1>1 DEF CheckPending, Sleep, SpuriousWake, FetchCmd, Dispatch,
                  AnswerStop, LeaveLoop, PCs
    <2>2. pc[t] # "none" /\ copyjob' = copyjob
      BY <1>1 DEF CheckPending, Sleep, SpuriousWake, FetchCmd, Dispatch,
                  AnswerStop, LeaveLoop
    <2> QED BY <2>1, <2>2, StutterStep
  <1>2. CASE KillJob(t) /\ copyjob[t] = "none"
    BY <1>2 DEF KillJob, Download!dvars
  <1>3. CASE KillJob(t) /\ copyjob[t] # "none"
    <2>1. Download!End(t)
      <3>1. /\ copyjob' = [copyjob EXCEPT ![t] = "none"]
            /\ pc' = [pc EXCEPT ![t] = "act"] /\ pc[t] # "none"
        BY <1>3 DEF KillJob
      <3>2. \A u \in Transfers : (pc'[u] # "none") = (pc[u] # "none")
        BY <3>1 DEF SlaveTypeOK
      <3>3. \A u \in Transfers : (copyjob'[u] # "none") =
                                  IF u = t THEN FALSE ELSE copyjob[u] # "none"
        BY <3>1 DEF SlaveTypeOK
      <3> QED BY <1>3, <3>2, <3>3, Zenon
    <2> QED BY <2>1 DEF Download!DNext
  <1>4. CASE Retrieve(t) /\ copyjob[t] # "none"
    BY <1>4 DEF Retrieve, Download!dvars
  <1>5. CASE Retrieve(t) /\ copyjob[t] = "none"
    <2>1. Download!Begin(t)
      <3>1. /\ copyjob' = [copyjob EXCEPT ![t] = "new"]
            /\ pc' = [pc EXCEPT ![t] = "check"] /\ pc[t] # "none"
        BY <1>5 DEF Retrieve
      <3>2. \A u \in Transfers : (pc'[u] # "none") = (pc[u] # "none")
        BY <3>1 DEF SlaveTypeOK
      <3>3. \A u \in Transfers : (copyjob'[u] # "none") =
                                  IF u = t THEN TRUE ELSE copyjob[u] # "none"
        BY <3>1 DEF SlaveTypeOK
      <3> QED BY <1>5, <3>1, <3>2, <3>3, Zenon
    <2> QED BY <2>1 DEF Download!DNext
  <1>6. CASE Exit(t)
    <2>1. copyjob[t] = "none"
      BY <1>6 DEF Exit, JobHasThread
    <2>2. Download!Leave(t)
      BY <1>6, <2>1 DEF Exit, SlaveTypeOK
    <2> QED BY <2>2 DEF Download!DNext
  <1> QED
    BY <1>1, <1>2, <1>3, <1>4, <1>5, <1>6 DEF Worker

(* So is a step of the main thread. *)
LEMMA MainRefines ==
  ASSUME SlaveInv, NEW t \in Transfers,
         \/ \E c \in Commands : OpStart(t, c)
         \/ OpPush(t)
         \/ \E connects \in BOOLEAN : SlotTotalSize(t, connects)
         \/ EmitResult(t)
         \/ \E kind \in Results : SlotResult(t, kind)
  PROVE  Download!DNext \/ UNCHANGED Download!dvars
  <1> USE DEF SlaveInv
  <1>1. ASSUME NEW c \in Commands, OpStart(t, c)
        PROVE  Download!DNext \/ UNCHANGED Download!dvars
    <2>1. CASE Running(t)
      BY <1>1, <2>1 DEF OpStart, SlaveTypeOK, Download!dvars
    <2>2. CASE ~Running(t)
      <3>1. Download!Launch(t)
        BY <1>1, <2>2 DEF OpStart, Running, SlaveTypeOK
      <3> QED BY <3>1 DEF Download!DNext
    <2> QED BY <2>1, <2>2
  <1>2. CASE OpPush(t)
    BY <1>2 DEF OpPush, SlaveTypeOK, Download!dvars
  <1>3. ASSUME NEW connects \in BOOLEAN, SlotTotalSize(t, connects)
        PROVE  UNCHANGED Download!dvars
    BY <1>3 DEF SlotTotalSize, SlaveTypeOK, Download!dvars
  <1>4. CASE EmitResult(t)
    BY <1>4 DEF EmitResult, Download!dvars
  <1>5. ASSUME NEW kind \in Results, SlotResult(t, kind)
        PROVE  Download!DNext \/ UNCHANGED Download!dvars
    <2>1. CASE emitting.valid
      <3>1. copyjob[t] # "none"
        BY <1>5, <2>1 DEF SlotResult, EmissionIsCurrent
      <3>2. Download!End(t)
        <4>1. copyjob' = [copyjob EXCEPT ![t] = "none"] /\ pc' = pc
          BY <1>5, <2>1 DEF SlotResult
        <4>2. \A u \in Transfers : (copyjob'[u] # "none") =
                                    IF u = t THEN FALSE ELSE copyjob[u] # "none"
          BY <4>1 DEF SlaveTypeOK
        <4> QED BY <3>1, <4>1, <4>2, Zenon
      <3> QED BY <3>2 DEF Download!DNext
    <2>2. CASE ~emitting.valid
      BY <1>5, <2>2 DEF SlotResult, Download!dvars
    <2> QED BY <2>1, <2>2
  <1> QED
    BY <1>1, <1>2, <1>3, <1>4, <1>5

(* The slave implements the download: at most one job at a time, begun and *)
(* ended only while the thread that controls it is alive.                  *)
THEOREM SlaveImplementsDownload == SlaveSpec => ImplementsDownload
  <1>1. SInit => Download!DInit
    BY DownloadInit
  <1>2. SlaveInv /\ [SlaveNext]_svars => [Download!DNext]_Download!dvars
    <2> SUFFICES ASSUME SlaveInv, [SlaveNext]_svars
                 PROVE  Download!DNext \/ UNCHANGED Download!dvars
      OBVIOUS
    <2>1. CASE UNCHANGED svars
      BY <2>1 DEF svars, Download!dvars
    <2>2. CASE ClientRead
      BY <2>2 DEF ClientRead, Download!dvars
    <2>3. ASSUME NEW t \in Transfers,
                 \/ ClientOp(t) \/ OpPush(t) \/ ClientResult(t) \/ EmitResult(t)
                 \/ \E kind \in Results : SlotResult(t, kind)
          PROVE  Download!DNext \/ UNCHANGED Download!dvars
      BY <2>3, MainRefines DEF ClientOp, ClientResult
    <2>4. ASSUME NEW t \in Transfers, BoundedWorker(t)
          PROVE  Download!DNext \/ UNCHANGED Download!dvars
      BY <2>4, WorkerRefines DEF BoundedWorker
    <2> QED
      BY <2>1, <2>2, <2>3, <2>4 DEF SlaveNext
  <1> QED
    BY <1>1, <1>2, SlaveSafety, PTL DEF SlaveSpec, ImplementsDownload, Download!DSpec

HIDE DEF Commands, Killing, Retrieving, Stopping, Leaving,
         Download!Launch, Download!Begin, Download!End, Download!Leave

----------------------------------------------------------------------------
(* The main thread: the record its handlers take and return.               *)

Statuses == {"absent", "gone", "trying", "running", "stopped", "finished"}
Modes == {"queued", "delayed", "scheduled", "none", "new"}
AllButtons == DOMAIN Radios \cup {"resume", "pause", "restart", "delete"}
Ops == [t : Transfers, do : Commands \cup {"abort", "join"}]

Records == [status : [Transfers -> Statuses], mode : [Transfers -> Modes],
            retryCount : [Transfers -> 0 .. reconnectRetries],
            offlineMode : BOOLEAN, b_connected : BOOLEAN,
            selected : SUBSET Transfers, buttons : SUBSET AllButtons,
            todo : Seq(Ops), crashed : Lines]

(* What most steps of a handler leave alone. *)
Alike(h, k) ==
    /\ k.status = h.status /\ k.mode = h.mode /\ k.selected = h.selected
    /\ k.offlineMode = h.offlineMode /\ k.b_connected = h.b_connected

LEMMA RecordFields ==
  ASSUME NEW h \in Records
  PROVE  /\ h.status \in [Transfers -> Statuses] /\ h.mode \in [Transfers -> Modes]
         /\ h.retryCount \in [Transfers -> 0 .. reconnectRetries]
         /\ h.offlineMode \in BOOLEAN /\ h.b_connected \in BOOLEAN
         /\ h.selected \subseteq Transfers /\ h.buttons \subseteq AllButtons
         /\ h.todo \in Seq(Ops) /\ h.crashed \in Lines
  BY DEF Records

LEMMA DoFacts ==
  ASSUME NEW h \in Records, NEW t \in Transfers, NEW c \in Commands \cup {"abort", "join"}
  PROVE  /\ Do(h, t, c) \in Records /\ Alike(h, Do(h, t, c))
         /\ Do(h, t, c).todo = Append(h.todo, [t |-> t, do |-> c])
  <1> DEFINE q == Append(h.todo, [t |-> t, do |-> c])
  <1>1. q \in Seq(Ops)
    <2>1. [t |-> t, do |-> c] \in Ops
      BY DEF Ops
    <2>2. h.todo \in Seq(Ops)
      BY RecordFields
    <2> QED
      BY <2>1, <2>2
  <1>2. Do(h, t, c) = [h EXCEPT !.todo = q]
    BY DEF Do
  <1> HIDE DEF q
  <1>3. /\ [h EXCEPT !.todo = q] \in Records /\ Alike(h, [h EXCEPT !.todo = q])
        /\ [h EXCEPT !.todo = q].todo = q
    BY <1>1 DEF Records, Alike
  <1> QED
    BY <1>2, <1>3 DEF q

LEMMA CheckFacts ==
  ASSUME NEW h \in Records, NEW holds, NEW line \in Lines
  PROVE  /\ Check(h, holds, line) \in Records /\ Alike(h, Check(h, holds, line))
         /\ Check(h, holds, line).todo = h.todo
  BY DEF Check, Records, Alike

LEMMA ShowFacts ==
  ASSUME NEW h \in Records, NEW t \in Transfers, NEW s \in Statuses, NEW m \in Modes
  PROVE  /\ Show(h, t, s, m) \in Records
         /\ Show(h, t, s, m).status = [h.status EXCEPT ![t] = s]
         /\ Show(h, t, s, m).mode = [h.mode EXCEPT ![t] = m]
         /\ Show(h, t, s, m).selected = h.selected
         /\ Show(h, t, s, m).offlineMode = h.offlineMode
         /\ Show(h, t, s, m).b_connected = h.b_connected
         /\ Show(h, t, s, m).todo = h.todo
  <1> DEFINE a == [h EXCEPT !.status[t] = s]
             b == [a EXCEPT !.mode[t] = m]
  <1>1. [h.status EXCEPT ![t] = s] \in [Transfers -> Statuses]
    BY RecordFields
  <1>2. [h.mode EXCEPT ![t] = m] \in [Transfers -> Modes]
    BY RecordFields
  <1>3. /\ a \in Records /\ a.status = [h.status EXCEPT ![t] = s] /\ a.mode = h.mode
        /\ a.selected = h.selected /\ a.offlineMode = h.offlineMode
        /\ a.b_connected = h.b_connected /\ a.todo = h.todo
    BY <1>1 DEF Records
  <1>4. Show(h, t, s, m) = b
    BY DEF Show
  <1> HIDE DEF a
  <1>5. /\ b \in Records /\ b.mode = [a.mode EXCEPT ![t] = m] /\ b.status = a.status
        /\ b.selected = a.selected /\ b.offlineMode = a.offlineMode
        /\ b.b_connected = a.b_connected /\ b.todo = a.todo
    BY <1>2, <1>3 DEF Records
  <1> QED
    BY <1>3, <1>4, <1>5

LEMMA ButtonFacts ==
  ASSUME NEW h \in Records, NEW S \in SUBSET AllButtons
  PROVE  LET k == [h EXCEPT !.buttons = S]
         IN  k \in Records /\ Alike(h, k) /\ k.todo = h.todo
  BY DEF Records, Alike

LEMMA UpdateFacts ==
  ASSUME NEW h \in Records
  PROVE  LET k == slotUpdateActions(h)
         IN  k \in Records /\ Alike(h, k) /\ k.todo = h.todo
  <1>1. PICK S \in SUBSET AllButtons : slotUpdateActions(h) = [h EXCEPT !.buttons = S]
    BY DEF slotUpdateActions, AllButtons, Radios
  <1> QED
    BY <1>1, ButtonFacts

----------------------------------------------------------------------------
(* What holds all through a handler: of the selection, of the modes (W are *)
(* the states a new transfer may be in), of what is active (no more than   *)
(* in B, or than the limit), and of the deleted transfers: whatever is     *)
(* asked of one, its slave is aborted or waited for later.                 *)

Covers(q, t, k) == \E i \in DOMAIN q : i >= k /\ q[i].t = t /\ q[i].do \in {"abort", "join"}

Aborted(h) ==
    \A t \in Transfers : h.status[t] = "gone" =>
        /\ status[t] = "gone" \/ Covers(h.todo, t, 1)
        /\ \A k \in DOMAIN h.todo : h.todo[k].t = t => Covers(h.todo, t, k)

Listed(h) == \A t \in h.selected : h.status[t] \notin {"absent", "gone"}
NewIn(h, W) == \A t \in Transfers : h.mode[t] = "new" => h.status[t] \in W
ActiveIn(h) == {t \in Transfers : h.status[t] \in Active}
Limited(h, B) == ActiveIn(h) \subseteq B \/ NumActive(h.status) <= maxSimultaneousConnections

Sound(h, B, W) ==
    h \in Records /\ Listed(h) /\ NewIn(h, W) /\ Aborted(h) /\ Limited(h, B)

(* The list is finite, so what is active can be counted. *)
LEMMA FiniteTransfers == IsFiniteSet(Transfers)
  <1>1. Order \in [1 .. Len(Order) -> Transfers] /\ Len(Order) \in Nat
    BY KGetAssumption
  <1>2. Order \in Surjection(1 .. Len(Order), Transfers)
    BY <1>1, KGetAssumption DEF Surjection
  <1>3. IsFiniteSet(1 .. Len(Order))
    BY <1>1, FS_Interval
  <1> QED
    BY <1>2, <1>3, FS_Surjection

LEMMA ActiveCounts ==
  ASSUME NEW h, NEW k, ActiveIn(k) \subseteq ActiveIn(h)
  PROVE  /\ NumActive(h.status) \in Nat /\ NumActive(k.status) \in Nat
         /\ NumActive(k.status) <= NumActive(h.status)
  <1>1. NumActive(h.status) = Cardinality(ActiveIn(h))
        /\ NumActive(k.status) = Cardinality(ActiveIn(k))
    BY DEF NumActive, ActiveIn
  <1>2. IsFiniteSet(ActiveIn(h))
    BY FiniteTransfers, FS_Subset DEF ActiveIn
  <1>3. IsFiniteSet(ActiveIn(k)) /\ Cardinality(ActiveIn(k)) <= Cardinality(ActiveIn(h))
    BY <1>2, FS_Subset
  <1> QED
    BY <1>1, <1>2, <1>3, FS_CardinalityType

LEMMA LimitedFewer ==
  ASSUME NEW h, NEW k, NEW B, Limited(h, B), ActiveIn(k) \subseteq ActiveIn(h)
  PROVE  Limited(k, B)
  <1>1. /\ NumActive(h.status) \in Nat /\ NumActive(k.status) \in Nat
        /\ NumActive(k.status) <= NumActive(h.status)
    BY ActiveCounts
  <1>2. maxSimultaneousConnections \in Nat
    BY KGetAssumption
  <1> QED
    BY <1>1, <1>2 DEF Limited

LEMMA AlikeSound ==
  ASSUME NEW h, NEW k \in Records, NEW B, NEW W, Sound(h, B, W), Alike(h, k), k.todo = h.todo
  PROVE  Sound(k, B, W)
  <1>1. ActiveIn(k) = ActiveIn(h)
    BY DEF Alike, ActiveIn
  <1>2. Limited(k, B)
    BY <1>1, LimitedFewer DEF Sound
  <1>3. Aborted(k)
    BY DEF Sound, Aborted, Alike
  <1>4. Listed(k) /\ NewIn(k, W)
    BY DEF Sound, Listed, NewIn, Alike
  <1> QED
    BY <1>2, <1>3, <1>4 DEF Sound

(* What was covered stays so when an operation is appended. *)
LEMMA AppendCovers ==
  ASSUME NEW q \in Seq(Ops), NEW o \in Ops, NEW t
  PROVE  /\ \A k : Covers(q, t, k) => Covers(Append(q, o), t, k)
         /\ o.t = t /\ o.do \in {"abort", "join"} =>
               \A k \in DOMAIN Append(q, o) : Covers(Append(q, o), t, k)
         /\ \A k \in DOMAIN Append(q, o) :
               Append(q, o)[k].t = t /\ o.t # t => k \in DOMAIN q /\ q[k].t = t
  <1> DEFINE r == Append(q, o)
  <1>1. /\ Len(q) \in Nat /\ DOMAIN q = 1 .. Len(q) /\ DOMAIN r = 1 .. Len(q) + 1
        /\ \A k \in 1 .. Len(q) : r[k] = q[k]
        /\ r[Len(q) + 1] = o
    OBVIOUS
  <1> HIDE DEF r
  <1>2. \A k : Covers(q, t, k) => Covers(r, t, k)
    BY <1>1 DEF Covers
  <1>3. ASSUME o.t = t, o.do \in {"abort", "join"} PROVE \A k \in DOMAIN r : Covers(r, t, k)
    BY <1>1, <1>3 DEF Covers
  <1>4. \A k \in DOMAIN r : r[k].t = t /\ o.t # t => k \in DOMAIN q /\ q[k].t = t
    BY <1>1
  <1> QED
    BY <1>2, <1>3, <1>4 DEF r

(* An operation on a transfer that is not deleted leaves the others covered. *)
LEMMA AppendAborted ==
  ASSUME NEW h \in Records, NEW k, NEW t \in Transfers,
         NEW c \in Commands \cup {"abort", "join"},
         Aborted(h), h.status[t] # "gone", k.todo = Append(h.todo, [t |-> t, do |-> c]),
         \A u \in Transfers : k.status[u] = "gone" => h.status[u] = "gone"
  PROVE  Aborted(k)
  <1> DEFINE o == [t |-> t, do |-> c]
  <1> SUFFICES ASSUME NEW u \in Transfers, k.status[u] = "gone"
               PROVE  /\ status[u] = "gone" \/ Covers(k.todo, u, 1)
                      /\ \A i \in DOMAIN k.todo : k.todo[i].t = u => Covers(k.todo, u, i)
    BY DEF Aborted
  <1>1. h.status[u] = "gone" /\ u # t
    OBVIOUS
  <1>2. o \in Ops /\ o.t = t /\ h.todo \in Seq(Ops)
    BY RecordFields DEF Ops
  <1>3. /\ status[u] = "gone" \/ Covers(h.todo, u, 1)
        /\ \A i \in DOMAIN h.todo : h.todo[i].t = u => Covers(h.todo, u, i)
    BY <1>1 DEF Aborted
  <1>4. k.todo = Append(h.todo, o)
    OBVIOUS
  <1> HIDE DEF o
  <1>5. /\ \A i : Covers(h.todo, u, i) => Covers(k.todo, u, i)
        /\ \A i \in DOMAIN k.todo :
              k.todo[i].t = u /\ o.t # u => i \in DOMAIN h.todo /\ h.todo[i].t = u
    BY <1>2, <1>4, AppendCovers
  <1> QED
    BY <1>1, <1>2, <1>3, <1>5

LEMMA DoSound ==
  ASSUME NEW h, NEW B, NEW W, Sound(h, B, W),
         NEW t \in Transfers, NEW c \in Commands \cup {"abort", "join"}, h.status[t] # "gone"
  PROVE  Sound(Do(h, t, c), B, W) /\ Alike(h, Do(h, t, c))
  <1> DEFINE k == Do(h, t, c)
             o == [t |-> t, do |-> c]
  <1>1. h \in Records /\ h.todo \in Seq(Ops)
    BY RecordFields DEF Sound
  <1>2. k \in Records /\ Alike(h, k) /\ k.todo = Append(h.todo, o)
    BY <1>1, DoFacts
  <1> HIDE DEF k
  <1>3. Listed(k) /\ NewIn(k, W)
    BY <1>2 DEF Sound, Listed, NewIn, Alike
  <1>4. ActiveIn(k) = ActiveIn(h)
    BY <1>2 DEF Alike, ActiveIn
  <1>5. Limited(k, B)
    BY <1>4, LimitedFewer DEF Sound
  <1>6. h.status \in [Transfers -> Statuses] /\ k.status = h.status
    BY <1>1, <1>2, RecordFields DEF Alike
  <1>7. Aborted(k)
    BY <1>1, <1>2, <1>6, AppendAborted DEF Sound
  <1> QED
    BY <1>2, <1>3, <1>5, <1>7 DEF Sound, k

(* Showing another status and mode, of a transfer that is there and stays. *)
LEMMA ShowSound ==
  ASSUME NEW h, NEW B, NEW W, Sound(h, B, W),
         NEW t \in Transfers, NEW s \in Statuses \ {"absent", "gone"}, NEW m \in Modes,
         m = "new" => s \in W,
         Limited(Show(h, t, s, m), B)
  PROVE  Sound(Show(h, t, s, m), B, W)
  <1> DEFINE k == Show(h, t, s, m)
  <1>1. h \in Records /\ h.status \in [Transfers -> Statuses] /\ h.mode \in [Transfers -> Modes]
        /\ h.selected \subseteq Transfers
    BY RecordFields DEF Sound
  <1>2. /\ k \in Records /\ k.status = [h.status EXCEPT ![t] = s]
        /\ k.mode = [h.mode EXCEPT ![t] = m]
        /\ k.selected = h.selected /\ k.todo = h.todo
    BY <1>1, ShowFacts
  <1>3. Limited(k, B)
    OBVIOUS
  <1> HIDE DEF k
  <1>4. Listed(k) /\ NewIn(k, W)
    BY <1>1, <1>2 DEF Sound, Listed, NewIn
  <1>5. Aborted(k)
    BY <1>1, <1>2 DEF Sound, Aborted
  <1> QED
    BY <1>2, <1>3, <1>4, <1>5 DEF Sound, k

LEMMA ShowLimited ==
  ASSUME NEW h, NEW B, NEW W, Sound(h, B, W), NEW t \in Transfers, NEW s \in Statuses, NEW m \in Modes,
         s \notin Active \/ h.status[t] \in Active
  PROVE  Limited(Show(h, t, s, m), B)
  <1> DEFINE k == Show(h, t, s, m)
  <1>1. h \in Records /\ h.status \in [Transfers -> Statuses]
    BY RecordFields DEF Sound
  <1>2. /\ k \in Records /\ k.status = [h.status EXCEPT ![t] = s]
        /\ k.mode = [h.mode EXCEPT ![t] = m]
        /\ k.selected = h.selected /\ k.todo = h.todo
    BY <1>1, ShowFacts
  <1> HIDE DEF k
  <1>3. ActiveIn(k) \subseteq ActiveIn(h)
    BY <1>1, <1>2 DEF ActiveIn
  <1> QED
    BY <1>3, LimitedFewer DEF Sound, k

(* Deleting a transfer. *)
LEMMA DeleteSound ==
  ASSUME NEW h, NEW B, NEW W, Sound(h, B, W), NEW t \in Transfers
  PROVE  Sound(deleteItem(h, t), B, W)
  <1> DEFINE a == Show(h, t, "gone", "none")
             b == [a EXCEPT !.selected = @ \ {t}]
             k == Do(b, t, "abort")
             o == [t |-> t, do |-> "abort"]
  <1>1. /\ h \in Records /\ h.status \in [Transfers -> Statuses]
        /\ h.mode \in [Transfers -> Modes] /\ h.selected \subseteq Transfers
        /\ h.todo \in Seq(Ops)
    BY RecordFields DEF Sound
  <1>2. "gone" \in Statuses /\ "none" \in Modes
    BY DEF Statuses, Modes
  <1>3. /\ a \in Records /\ a.status = [h.status EXCEPT ![t] = "gone"]
        /\ a.mode = [h.mode EXCEPT ![t] = "none"]
        /\ a.selected = h.selected /\ a.todo = h.todo
    BY <1>1, <1>2, ShowFacts
  <1>4. deleteItem(h, t) = k
    BY DEF deleteItem
  <1> HIDE DEF a
  <1>5. /\ b \in Records /\ b.status = a.status /\ b.mode = a.mode
        /\ b.selected = a.selected \ {t} /\ b.todo = a.todo
    BY <1>1, <1>3 DEF Records
  <1> HIDE DEF b
  <1>6. k \in Records /\ Alike(b, k) /\ k.todo = Append(b.todo, o)
    BY <1>5, DoFacts
  <1> HIDE DEF k
  <1>7. /\ k.status = [h.status EXCEPT ![t] = "gone"] /\ k.mode = [h.mode EXCEPT ![t] = "none"]
        /\ k.selected = h.selected \ {t} /\ k.todo = Append(h.todo, o)
    BY <1>3, <1>5, <1>6 DEF Alike
  <1>8. Listed(k)
    BY <1>1, <1>7 DEF Sound, Listed
  <1>9. NewIn(k, W)
    BY <1>1, <1>7 DEF Sound, NewIn
  <1>10. ActiveIn(k) \subseteq ActiveIn(h)
    BY <1>1, <1>7 DEF ActiveIn, Active
  <1>11. Limited(k, B)
    BY <1>10, LimitedFewer DEF Sound
  <1>12. Aborted(k)
    <2> SUFFICES ASSUME NEW u \in Transfers, k.status[u] = "gone"
                 PROVE  /\ status[u] = "gone" \/ Covers(k.todo, u, 1)
                        /\ \A i \in DOMAIN k.todo : k.todo[i].t = u => Covers(k.todo, u, i)
      BY DEF Aborted
    <2>1. o \in Ops /\ o.t = t /\ o.do = "abort"
      BY DEF Ops
    <2> HIDE DEF o
    <2>2. /\ \A i : Covers(h.todo, u, i) => Covers(k.todo, u, i)
          /\ o.t = u => \A i \in DOMAIN k.todo : Covers(k.todo, u, i)
          /\ \A i \in DOMAIN k.todo :
                k.todo[i].t = u /\ o.t # u => i \in DOMAIN h.todo /\ h.todo[i].t = u
      BY <1>1, <1>7, <2>1, AppendCovers
    <2>3. CASE u = t
      <3>1. 1 \in DOMAIN k.todo
        BY <1>1, <1>7, <2>1
      <3> QED
        BY <2>1, <2>2, <2>3, <3>1
    <2>4. CASE u # t
      <3>1. h.status[u] = "gone"
        BY <1>1, <1>7, <2>4
      <3>2. /\ status[u] = "gone" \/ Covers(h.todo, u, 1)
            /\ \A i \in DOMAIN h.todo : h.todo[i].t = u => Covers(h.todo, u, i)
        BY <3>1 DEF Sound, Aborted
      <3> QED
        BY <2>1, <2>2, <2>4, <3>2
    <2> QED
      BY <2>3, <2>4
  <1> QED
    BY <1>4, <1>6, <1>8, <1>9, <1>11, <1>12 DEF Sound

----------------------------------------------------------------------------
(* Loops over the list: a function of the steps made.                      *)

LEMMA NatMin ==
  ASSUME NEW S \in SUBSET Nat, S # {}
  PROVE  \E n \in S : \A m \in S : ~(m < n)
  <1> DEFINE Less == {ss \in Nat \X Nat : ss[1] < ss[2]}
  <1>1. IsWellFoundedOn(Less, Nat)
    BY NatLessThanWellFounded DEF OpToRel, Less
  <1>2. \E n \in S : \A m \in S : ~(<<m, n>> \in Less)
    BY <1>1, WFMin, Zenon
  <1> QED
    BY <1>2

(* What holds at first and is kept by each of L steps holds after them. *)
LEMMA Counting ==
  ASSUME NEW L \in Nat, NEW N, 0 \in N, \A n \in 1 .. L : n - 1 \in N => n \in N
  PROVE  \A n \in 0 .. L : n \in N
  <1> DEFINE S == {n \in 0 .. L : n \notin N}
  <1> SUFFICES ASSUME S # {} PROVE FALSE
    OBVIOUS
  <1>1. S \in SUBSET Nat
    OBVIOUS
  <1>2. PICK n \in S : \A m \in S : ~(m < n)
    BY <1>1, NatMin
  <1>3. n \in 1 .. L /\ n - 1 \in 0 .. L /\ n - 1 < n
    BY <1>2
  <1>4. n - 1 \notin S
    BY <1>2, <1>3
  <1> QED
    BY <1>2, <1>3, <1>4

(* The states of a loop exist. *)
LEMMA LoopExists ==
  ASSUME NEW L \in Nat, NEW F \in [1 .. L -> [Records -> Records]], NEW g \in Records
  PROVE  \E f \in [0 .. L -> Records] :
            f[0] = g /\ \A i \in 1 .. L : f[i] = F[i][f[i - 1]]
  <1> DEFINE Runs(n) == {f \in [0 .. n -> Records] :
                            f[0] = g /\ \A i \in 1 .. n : f[i] = F[i][f[i - 1]]}
             N == {n \in 0 .. L : Runs(n) # {}}
  <1>1. 0 \in N
    <2>1. [i \in 0 .. 0 |-> g] \in Runs(0)
      OBVIOUS
    <2> QED
      BY <2>1
  <1>2. ASSUME NEW n \in 1 .. L, n - 1 \in N PROVE n \in N
    <2>1. PICK f \in [0 .. n - 1 -> Records] :
             f[0] = g /\ \A i \in 1 .. n - 1 : f[i] = F[i][f[i - 1]]
      BY <1>2
    <2> DEFINE h == [i \in 0 .. n |-> IF i = n THEN F[n][f[n - 1]] ELSE f[i]]
    <2>2. f[n - 1] \in Records
      BY <2>1
    <2>3. F[n][f[n - 1]] \in Records
      BY <2>2
    <2>4. h \in [0 .. n -> Records]
      BY <2>1, <2>3
    <2>5. /\ \A i \in 0 .. n - 1 : h[i] = f[i]
          /\ h[n] = F[n][f[n - 1]]
      OBVIOUS
    <2> HIDE DEF h
    <2>6. h[0] = g
      BY <2>1, <2>5
    <2>7. ASSUME NEW i \in 1 .. n PROVE h[i] = F[i][h[i - 1]]
      <3>1. h[i - 1] = f[i - 1]
        BY <2>5
      <3>2. CASE i = n
        BY <2>5, <3>1, <3>2
      <3>3. CASE i # n
        <4>1. i \in 1 .. n - 1 /\ h[i] = f[i]
          BY <2>5, <3>3
        <4> QED
          BY <2>1, <3>1, <4>1
      <3> QED
        BY <3>2, <3>3
    <2>8. h \in Runs(n)
      BY <2>4, <2>6, <2>7
    <2> QED
      BY <2>8
  <1> HIDE DEF N
  <1>3. \A n \in 0 .. L : n \in N
    BY <1>1, <1>2, Counting
  <1>4. L \in 0 .. L
    OBVIOUS
  <1> QED
    BY <1>3, <1>4 DEF N

(* A step of each loop takes records to records. *)
LEMMA ResumeFacts ==
  ASSUME NEW h \in Records, NEW t \in Transfers
  PROVE  /\ slotResume(h, t) \in Records
         /\ slotResume(h, t).status = [h.status EXCEPT ![t] = "trying"]
         /\ slotResume(h, t).mode = [h.mode EXCEPT ![t] = "queued"]
         /\ slotResume(h, t).selected = h.selected
         /\ slotResume(h, t).offlineMode = h.offlineMode
         /\ slotResume(h, t).b_connected = h.b_connected
         /\ slotResume(h, t).todo = Append(h.todo, [t |-> t, do |-> "RETR"])
  <1> DEFINE n == h.retryCount[t] + 1
             r == IF n > reconnectRetries THEN 1 ELSE n
             a == [h EXCEPT !.retryCount[t] = r]
             b == Check(a, h.status[t] = "stopped", "transfer.cpp:slotResume")
             c == Show(b, t, "trying", "queued")
             d == Do(c, t, "RETR")
  <1>1. slotResume(h, t) = d
    BY DEF slotResume
  <1>2. h.retryCount \in [Transfers -> 0 .. reconnectRetries] /\ reconnectRetries \in Nat \ {0}
    BY RecordFields, KGetAssumption
  <1>3. r \in 0 .. reconnectRetries
    BY <1>2
  <1> HIDE DEF r
  <1>4. [h.retryCount EXCEPT ![t] = r] \in [Transfers -> 0 .. reconnectRetries]
    BY <1>2, <1>3
  <1>5. a \in Records /\ Alike(h, a) /\ a.todo = h.todo
    BY <1>4 DEF Records, Alike
  <1> HIDE DEF a
  <1>6. "transfer.cpp:slotResume" \in Lines /\ "trying" \in Statuses /\ "queued" \in Modes
        /\ "RETR" \in Commands \cup {"abort", "join"}
    BY DEF Lines, Statuses, Modes, Commands, Retrieving
  <1>7. b \in Records /\ Alike(a, b) /\ b.todo = a.todo
    BY <1>5, <1>6, CheckFacts
  <1> HIDE DEF b
  <1>8. /\ c \in Records /\ c.status = [b.status EXCEPT ![t] = "trying"]
        /\ c.mode = [b.mode EXCEPT ![t] = "queued"]
        /\ c.selected = b.selected /\ c.offlineMode = b.offlineMode
        /\ c.b_connected = b.b_connected /\ c.todo = b.todo
    BY <1>6, <1>7, ShowFacts
  <1> HIDE DEF c
  <1>9. d \in Records /\ Alike(c, d) /\ d.todo = Append(c.todo, [t |-> t, do |-> "RETR"])
    BY <1>6, <1>8, DoFacts
  <1> HIDE DEF d
  <1> QED
    BY <1>1, <1>5, <1>7, <1>8, <1>9 DEF Alike

(* The steps of the loops over the list take records to records. *)
LEMMA StartRecords ==
  ASSUME NEW h \in Records, NEW t \in Transfers
  PROVE  startWaiting(h, t) \in Records
  BY ResumeFacts DEF startWaiting

LEMMA NotInCacheFacts ==
  ASSUME NEW h \in Records, NEW t \in Transfers
  PROVE  /\ NotInCache(h, t) \in Records
         /\ \E m \in {"queued", "delayed"} : NotInCache(h, t) = Show(h, t, "stopped", m)
  <1>1. PICK m \in {"queued", "delayed"} : NotInCache(h, t) = Show(h, t, "stopped", m)
    BY DEF NotInCache
  <1>2. "stopped" \in Statuses /\ m \in Modes
    BY DEF Statuses, Modes
  <1>3. Show(h, t, "stopped", m) \in Records
    BY <1>2, ShowFacts
  <1> QED
    BY <1>1, <1>3

LEMMA LookUpRecords ==
  ASSUME NEW h \in Records, NEW t \in Transfers
  PROVE  lookUpNew(h, t) \in Records
  <1>1. "trying" \in Statuses /\ "new" \in Modes /\ "RETR_CACHE" \in Commands \cup {"abort", "join"}
    BY DEF Statuses, Modes, Commands, Retrieving
  <1>2. Show(h, t, "trying", "new") \in Records
    BY <1>1, ShowFacts
  <1>3. Do(Show(h, t, "trying", "new"), t, "RETR_CACHE") \in Records
    BY <1>1, <1>2, DoFacts
  <1> QED
    BY <1>3, NotInCacheFacts DEF lookUpNew, checkCache

LEMMA StopRecords ==
  ASSUME NEW h \in Records, NEW t \in Transfers
  PROVE  stopActive(h, t) \in Records
  <1>1. "stopped" \in Statuses /\ "queued" \in Modes /\ "KILL" \in Commands \cup {"abort", "join"}
    BY DEF Statuses, Modes, Commands, Leaving
  <1>2. Show(h, t, "stopped", "queued") \in Records
    BY <1>1, ShowFacts
  <1>3. Do(Show(h, t, "stopped", "queued"), t, "KILL") \in Records
    BY <1>1, <1>2, DoFacts
  <1> QED
    BY <1>3 DEF stopActive, slotStop

(* The states of the loop that starts what waits. *)
LEMMA StartLoop ==
  ASSUME NEW g \in Records
  PROVE  \E f \in [0 .. Len(Order) -> Records] :
            /\ f[0] = g /\ f[Len(Order)] = Each(g, startWaiting)
            /\ \A n \in 1 .. Len(Order) : f[n] = startWaiting(f[n - 1], Order[n])
  <1> DEFINE L == Len(Order)
             Is(f) == f = [n \in 0 .. L |-> IF n = 0 THEN g
                                           ELSE startWaiting(f[n - 1], Order[n])]
             E == CHOOSE f : Is(f)
             F == [i \in 1 .. L |-> [h \in Records |-> startWaiting(h, Order[i])]]
  <1>1. L \in Nat /\ \A n \in 1 .. L : Order[n] \in Transfers
    BY KGetAssumption
  <1>2. F \in [1 .. L -> [Records -> Records]]
    BY <1>1, StartRecords
  <1>3. \A i \in 1 .. L : \A h \in Records : F[i][h] = startWaiting(h, Order[i])
    OBVIOUS
  <1> HIDE DEF F, L
  <1>4. PICK f \in [0 .. L -> Records] : f[0] = g /\ \A i \in 1 .. L : f[i] = F[i][f[i - 1]]
    BY <1>1, <1>2, LoopExists
  <1>5. \A i \in 1 .. L : f[i] = startWaiting(f[i - 1], Order[i])
    <2> TAKE i \in 1 .. L
    <2>1. f[i - 1] \in Records
      BY <1>1, <1>4
    <2> QED
      BY <1>3, <1>4, <2>1
  <1>6. Is(f)
    BY <1>4, <1>5
  <1>7. Is(E)
    BY <1>6
  <1>8. Each(g, startWaiting) = E[L]
    BY DEF Each, L
  <1> HIDE DEF E
  <1>9. E[0] = g /\ \A n \in 1 .. L : E[n] = startWaiting(E[n - 1], Order[n])
    BY <1>1, <1>7
  <1>10. \A n \in 0 .. L : E[n] \in Records
    <2> DEFINE N == {n \in 0 .. L : E[n] \in Records}
    <2>1. 0 \in N
      BY <1>1, <1>9
    <2>2. ASSUME NEW n \in 1 .. L, n - 1 \in N PROVE n \in N
      BY <1>1, <1>9, <2>2, StartRecords
    <2> HIDE DEF N
    <2>3. \A n \in 0 .. L : n \in N
      BY <1>1, <2>1, <2>2, Counting
    <2> QED
      BY <2>3 DEF N
  <1>11. E \in [0 .. L -> Records]
    BY <1>7, <1>10
  <1> QED
    BY <1>8, <1>9, <1>11 DEF L

(* The states of the loop that looks up what is new. *)
LEMMA LookUpLoop ==
  ASSUME NEW g \in Records
  PROVE  \E f \in [0 .. Len(Order) -> Records] :
            /\ f[0] = g /\ f[Len(Order)] = Each(g, lookUpNew)
            /\ \A n \in 1 .. Len(Order) : f[n] = lookUpNew(f[n - 1], Order[n])
  <1> DEFINE L == Len(Order)
             Is(f) == f = [n \in 0 .. L |-> IF n = 0 THEN g
                                           ELSE lookUpNew(f[n - 1], Order[n])]
             E == CHOOSE f : Is(f)
             F == [i \in 1 .. L |-> [h \in Records |-> lookUpNew(h, Order[i])]]
  <1>1. L \in Nat /\ \A n \in 1 .. L : Order[n] \in Transfers
    BY KGetAssumption
  <1>2. F \in [1 .. L -> [Records -> Records]]
    BY <1>1, LookUpRecords
  <1>3. \A i \in 1 .. L : \A h \in Records : F[i][h] = lookUpNew(h, Order[i])
    OBVIOUS
  <1> HIDE DEF F, L
  <1>4. PICK f \in [0 .. L -> Records] : f[0] = g /\ \A i \in 1 .. L : f[i] = F[i][f[i - 1]]
    BY <1>1, <1>2, LoopExists
  <1>5. \A i \in 1 .. L : f[i] = lookUpNew(f[i - 1], Order[i])
    <2> TAKE i \in 1 .. L
    <2>1. f[i - 1] \in Records
      BY <1>1, <1>4
    <2> QED
      BY <1>3, <1>4, <2>1
  <1>6. Is(f)
    BY <1>4, <1>5
  <1>7. Is(E)
    BY <1>6
  <1>8. Each(g, lookUpNew) = E[L]
    BY DEF Each, L
  <1> HIDE DEF E
  <1>9. E[0] = g /\ \A n \in 1 .. L : E[n] = lookUpNew(E[n - 1], Order[n])
    BY <1>1, <1>7
  <1>10. \A n \in 0 .. L : E[n] \in Records
    <2> DEFINE N == {n \in 0 .. L : E[n] \in Records}
    <2>1. 0 \in N
      BY <1>1, <1>9
    <2>2. ASSUME NEW n \in 1 .. L, n - 1 \in N PROVE n \in N
      BY <1>1, <1>9, <2>2, LookUpRecords
    <2> HIDE DEF N
    <2>3. \A n \in 0 .. L : n \in N
      BY <1>1, <2>1, <2>2, Counting
    <2> QED
      BY <2>3 DEF N
  <1>11. E \in [0 .. L -> Records]
    BY <1>7, <1>10
  <1> QED
    BY <1>8, <1>9, <1>11 DEF L

(* The states of the loop that stops what is active. *)
LEMMA StopLoop ==
  ASSUME NEW g \in Records
  PROVE  \E f \in [0 .. Len(Order) -> Records] :
            /\ f[0] = g /\ f[Len(Order)] = Each(g, stopActive)
            /\ \A n \in 1 .. Len(Order) : f[n] = stopActive(f[n - 1], Order[n])
  <1> DEFINE L == Len(Order)
             Is(f) == f = [n \in 0 .. L |-> IF n = 0 THEN g
                                           ELSE stopActive(f[n - 1], Order[n])]
             E == CHOOSE f : Is(f)
             F == [i \in 1 .. L |-> [h \in Records |-> stopActive(h, Order[i])]]
  <1>1. L \in Nat /\ \A n \in 1 .. L : Order[n] \in Transfers
    BY KGetAssumption
  <1>2. F \in [1 .. L -> [Records -> Records]]
    BY <1>1, StopRecords
  <1>3. \A i \in 1 .. L : \A h \in Records : F[i][h] = stopActive(h, Order[i])
    OBVIOUS
  <1> HIDE DEF F, L
  <1>4. PICK f \in [0 .. L -> Records] : f[0] = g /\ \A i \in 1 .. L : f[i] = F[i][f[i - 1]]
    BY <1>1, <1>2, LoopExists
  <1>5. \A i \in 1 .. L : f[i] = stopActive(f[i - 1], Order[i])
    <2> TAKE i \in 1 .. L
    <2>1. f[i - 1] \in Records
      BY <1>1, <1>4
    <2> QED
      BY <1>3, <1>4, <2>1
  <1>6. Is(f)
    BY <1>4, <1>5
  <1>7. Is(E)
    BY <1>6
  <1>8. Each(g, stopActive) = E[L]
    BY DEF Each, L
  <1> HIDE DEF E
  <1>9. E[0] = g /\ \A n \in 1 .. L : E[n] = stopActive(E[n - 1], Order[n])
    BY <1>1, <1>7
  <1>10. \A n \in 0 .. L : E[n] \in Records
    <2> DEFINE N == {n \in 0 .. L : E[n] \in Records}
    <2>1. 0 \in N
      BY <1>1, <1>9
    <2>2. ASSUME NEW n \in 1 .. L, n - 1 \in N PROVE n \in N
      BY <1>1, <1>9, <2>2, StopRecords
    <2> HIDE DEF N
    <2>3. \A n \in 0 .. L : n \in N
      BY <1>1, <2>1, <2>2, Counting
    <2> QED
      BY <2>3 DEF N
  <1>11. E \in [0 .. L -> Records]
    BY <1>7, <1>10
  <1> QED
    BY <1>8, <1>9, <1>11 DEF L


(* What the loop that starts what waits does: it starts transfers, and no   *)
(* more than the limit allows.                                             *)
StartsOnly(h, k) ==
    /\ k.selected = h.selected
    /\ k.offlineMode = h.offlineMode /\ k.b_connected = h.b_connected
    /\ \A u \in Transfers :
          \/ k.status[u] = h.status[u] /\ k.mode[u] = h.mode[u]
          \/ /\ h.status[u] \notin Active \cup {"absent", "gone"} /\ h.mode[u] \in {"queued", "new"}
             /\ k.status[u] = "trying" /\ k.mode[u] = "queued"
    /\ ActiveIn(k) = ActiveIn(h) \/ NumActive(k.status) <= maxSimultaneousConnections

(* u does not wait beside a free connection. *)
Served(h, u) == NumActive(h.status) >= maxSimultaneousConnections \/ ~Waits(h, u)

LEMMA StartsTwice ==
  ASSUME NEW g, NEW h, NEW k, StartsOnly(g, h), StartsOnly(h, k)
  PROVE  /\ StartsOnly(g, k)
         /\ \A u \in Transfers : Served(h, u) => Served(k, u)
  <1>1. ActiveIn(h) \subseteq ActiveIn(k)
    BY DEF StartsOnly, ActiveIn, Active
  <1>2. /\ NumActive(h.status) \in Nat /\ NumActive(k.status) \in Nat
        /\ NumActive(h.status) <= NumActive(k.status)
    BY <1>1, ActiveCounts
  <1>3. ActiveIn(k) = ActiveIn(h) => NumActive(k.status) = NumActive(h.status)
    BY DEF NumActive, ActiveIn
  <1>4. ActiveIn(k) = ActiveIn(g) \/ NumActive(k.status) <= maxSimultaneousConnections
    BY <1>2, <1>3, KGetAssumption DEF StartsOnly
  <1>5. \A u \in Transfers :
           \/ k.status[u] = g.status[u] /\ k.mode[u] = g.mode[u]
           \/ /\ g.status[u] \notin Active \cup {"absent", "gone"} /\ g.mode[u] \in {"queued", "new"}
              /\ k.status[u] = "trying" /\ k.mode[u] = "queued"
    BY DEF StartsOnly, Active
  <1>6. StartsOnly(g, k)
    BY <1>4, <1>5 DEF StartsOnly
  <1>7. ASSUME NEW u \in Transfers, Served(h, u) PROVE Served(k, u)
    <2>1. CASE NumActive(h.status) >= maxSimultaneousConnections
      BY <1>2, <2>1, KGetAssumption DEF Served
    <2>2. CASE ~Waits(h, u)
      BY <2>2 DEF Served, Waits, StartsOnly, Active
    <2> QED
      BY <1>7, <2>1, <2>2 DEF Served
  <1> QED
    BY <1>6, <1>7

LEMMA StartStep ==
  ASSUME NEW h, NEW B, NEW W, Sound(h, B, W), NEW t \in Transfers
  PROVE  LET k == startWaiting(h, t)
         IN  Sound(k, B, W) /\ StartsOnly(h, k) /\ Served(k, t)
  <1> DEFINE k == startWaiting(h, t)
  <1>1. NumActive(h.status) \in Nat /\ maxSimultaneousConnections \in Nat
    BY ActiveCounts, KGetAssumption
  <1>2. CASE ~(Waits(h, t) /\ NumActive(h.status) < maxSimultaneousConnections)
    <2>1. k = h
      BY <1>2 DEF startWaiting
    <2> QED
      BY <1>1, <1>2, <2>1 DEF StartsOnly, Served
  <1>3. CASE Waits(h, t) /\ NumActive(h.status) < maxSimultaneousConnections
    <2>1. h \in Records /\ h.status \in [Transfers -> Statuses] /\ h.mode \in [Transfers -> Modes]
          /\ h.selected \subseteq Transfers
      BY RecordFields DEF Sound
    <2>2. k = slotResume(h, t)
      BY <1>3 DEF startWaiting
    <2>3. /\ k \in Records
          /\ k.status = [h.status EXCEPT ![t] = "trying"] /\ k.mode = [h.mode EXCEPT ![t] = "queued"]
          /\ k.selected = h.selected
          /\ k.offlineMode = h.offlineMode /\ k.b_connected = h.b_connected
          /\ k.todo = Append(h.todo, [t |-> t, do |-> "RETR"])
      BY <2>1, <2>2, ResumeFacts
    <2> HIDE DEF k
    <2>4. h.status[t] \notin Active \cup {"absent", "gone"} /\ h.mode[t] \in {"queued", "new"}
      BY <1>3 DEF Waits
    <2>5. ActiveIn(k) = ActiveIn(h) \cup {t} /\ t \notin ActiveIn(h)
      BY <2>1, <2>3, <2>4 DEF ActiveIn, Active
    <2>6. NumActive(k.status) = NumActive(h.status) + 1
      <3>1. IsFiniteSet(ActiveIn(h))
        BY FiniteTransfers, FS_Subset DEF ActiveIn
      <3>2. Cardinality(ActiveIn(k)) = Cardinality(ActiveIn(h)) + 1
        BY <2>5, <3>1, FS_AddElement
      <3> QED
        BY <3>2 DEF NumActive, ActiveIn
    <2>7. NumActive(k.status) <= maxSimultaneousConnections
      BY <1>1, <1>3, <2>6
    <2>8. Listed(k) /\ NewIn(k, W)
      BY <2>1, <2>3 DEF Sound, Listed, NewIn
    <2>9. Aborted(k)
      <3>1. "RETR" \in Commands \cup {"abort", "join"}
        BY DEF Commands, Retrieving
      <3>2. \A u \in Transfers : k.status[u] = "gone" => h.status[u] = "gone"
        BY <2>1, <2>3
      <3> QED
        BY <2>1, <2>3, <2>4, <3>1, <3>2, AppendAborted DEF Sound
    <2>10. Sound(k, B, W)
      BY <2>3, <2>7, <2>8, <2>9 DEF Sound, Limited
    <2>11. StartsOnly(h, k)
      BY <2>1, <2>3, <2>4, <2>7 DEF StartsOnly
    <2>12. Served(k, t)
      BY <2>1, <2>3 DEF Served, Waits, Active
    <2> QED
      BY <2>10, <2>11, <2>12 DEF k
  <1> QED
    BY <1>2, <1>3

LEMMA AlikeStarts ==
  ASSUME NEW g, NEW h, NEW k, StartsOnly(g, h), Alike(h, k)
  PROVE  /\ StartsOnly(g, k)
         /\ \A u \in Transfers : Served(h, u) => Served(k, u)
  <1>1. ActiveIn(k) = ActiveIn(h) /\ k.status = h.status /\ k.mode = h.mode
    BY DEF Alike, ActiveIn
  <1>2. StartsOnly(g, k)
    BY <1>1 DEF StartsOnly, Alike
  <1>3. \A u \in Transfers : Served(h, u) => Served(k, u)
    BY <1>1 DEF Served, Waits
  <1> QED
    BY <1>2, <1>3

LEMMA StartAll ==
  ASSUME NEW h, NEW B, NEW W, Sound(h, B, W)
  PROVE  LET r == Each(h, startWaiting)
         IN  Sound(r, B, W) /\ StartsOnly(h, r) /\ \A u \in Transfers : Served(r, u)
  <1> DEFINE L == Len(Order)
             r == Each(h, startWaiting)
  <1>1. L \in Nat /\ \A n \in 1 .. L : Order[n] \in Transfers
    BY KGetAssumption
  <1>2. h \in Records
    BY DEF Sound
  <1>3. PICK f \in [0 .. L -> Records] :
           f[0] = h /\ f[L] = r /\ \A n \in 1 .. L : f[n] = startWaiting(f[n - 1], Order[n])
    BY <1>2, StartLoop
  <1> HIDE DEF r
  <1> DEFINE N == {n \in 0 .. L : /\ Sound(f[n], B, W) /\ StartsOnly(h, f[n])
                                  /\ \A i \in 1 .. n : Served(f[n], Order[i])}
  <1>4. 0 \in N
    BY <1>1, <1>3 DEF StartsOnly
  <1>5. ASSUME NEW n \in 1 .. L, n - 1 \in N PROVE n \in N
    <2>1. n - 1 \in 0 .. L
      BY <1>1
    <2>2. /\ Sound(f[n - 1], B, W) /\ StartsOnly(h, f[n - 1])
          /\ \A i \in 1 .. n - 1 : Served(f[n - 1], Order[i])
      BY <1>5
    <2>3. f[n] = startWaiting(f[n - 1], Order[n]) /\ Order[n] \in Transfers
      BY <1>1, <1>3
    <2>4. Sound(f[n], B, W) /\ StartsOnly(f[n - 1], f[n]) /\ Served(f[n], Order[n])
      BY <2>2, <2>3, StartStep
    <2>5. StartsOnly(h, f[n]) /\ \A u \in Transfers : Served(f[n - 1], u) => Served(f[n], u)
      BY <2>2, <2>4, StartsTwice
    <2>6. ASSUME NEW i \in 1 .. n PROVE Served(f[n], Order[i])
      <3>1. CASE i = n
        BY <2>4, <3>1
      <3>2. CASE i # n
        <4>1. i \in 1 .. n - 1 /\ i \in 1 .. L
          BY <1>1, <3>2
        <4> QED
          BY <1>1, <2>2, <2>5, <4>1
      <3> QED
        BY <3>1, <3>2
    <2> QED
      BY <1>1, <2>4, <2>5, <2>6
  <1> HIDE DEF N
  <1>6. \A n \in 0 .. L : n \in N
    BY <1>1, <1>4, <1>5, Counting
  <1>7. L \in N
    BY <1>1, <1>6
  <1>8. /\ Sound(r, B, W) /\ StartsOnly(h, r)
        /\ \A i \in 1 .. L : Served(r, Order[i])
    BY <1>3, <1>7 DEF N
  <1>9. \A u \in Transfers : Served(r, u)
    BY <1>8, KGetAssumption
  <1> QED
    BY <1>8, <1>9 DEF r

(* If nothing is new there is nothing to look up. *)
LEMMA NothingToLookUp ==
  ASSUME NEW h \in Records, NewIn(h, Active)
  PROVE  Each(h, lookUpNew) = h
  <1> DEFINE L == Len(Order)
  <1>1. L \in Nat /\ \A n \in 1 .. L : Order[n] \in Transfers
    BY KGetAssumption
  <1>2. PICK f \in [0 .. L -> Records] :
           /\ f[0] = h /\ f[L] = Each(h, lookUpNew)
           /\ \A n \in 1 .. L : f[n] = lookUpNew(f[n - 1], Order[n])
    BY LookUpLoop
  <1> DEFINE N == {n \in 0 .. L : f[n] = h}
  <1>3. 0 \in N
    BY <1>1, <1>2
  <1>4. ASSUME NEW n \in 1 .. L, n - 1 \in N PROVE n \in N
    <2>1. f[n] = lookUpNew(h, Order[n]) /\ Order[n] \in Transfers
      BY <1>1, <1>2, <1>4
    <2>2. ~(h.mode[Order[n]] = "new" /\ h.status[Order[n]] = "stopped")
      BY <2>1 DEF NewIn, Active
    <2> QED
      BY <1>1, <2>1, <2>2 DEF lookUpNew
  <1> HIDE DEF N
  <1>5. \A n \in 0 .. L : n \in N
    BY <1>1, <1>3, <1>4, Counting
  <1>6. L \in N
    BY <1>1, <1>5
  <1> QED
    BY <1>2, <1>6 DEF N

(* checkQueue, between two handlers' changes. *)
LEMMA CheckQueueFacts ==
  ASSUME NEW h, NEW B, Sound(h, B, Active)
  PROVE  LET r == checkQueue(h)
         IN  /\ Sound(r, B, Active) /\ StartsOnly(h, r)
             /\ Offline(h) => r = h
             /\ ~Offline(h) => \A u \in Transfers : Served(r, u)
  <1> DEFINE a == Each(h, startWaiting)
             b == slotUpdateActions(a)
             r == checkQueue(h)
  <1>1. CASE Offline(h)
    <2>1. r = Each(h, lookUpNew)
      BY <1>1 DEF checkQueue
    <2>2. r = h
      BY <2>1, NothingToLookUp DEF Sound
    <2> QED
      BY <1>1, <2>2 DEF StartsOnly
  <1>2. CASE ~Offline(h)
    <2>1. r = Each(b, lookUpNew)
      BY <1>2 DEF checkQueue
    <2>2. Sound(a, B, Active) /\ StartsOnly(h, a) /\ \A u \in Transfers : Served(a, u)
      BY StartAll
    <2> HIDE DEF a
    <2>3. b \in Records /\ Alike(a, b) /\ b.todo = a.todo
      BY <2>2, UpdateFacts DEF Sound
    <2> HIDE DEF b
    <2>4. Sound(b, B, Active)
      BY <2>2, <2>3, AlikeSound
    <2>5. StartsOnly(h, b) /\ \A u \in Transfers : Served(b, u)
      BY <2>2, <2>3, AlikeStarts
    <2>6. r = b
      BY <2>1, <2>4, NothingToLookUp DEF Sound
    <2> QED
      BY <1>2, <2>4, <2>5, <2>6
  <1> QED
    BY <1>1, <1>2

(* What the look-ups do: a new transfer is tried as a new one, or settled.  *)
LooksUpOnly(h, k) ==
    /\ k.selected = h.selected
    /\ \A u \in Transfers :
          \/ k.status[u] = h.status[u] /\ k.mode[u] = h.mode[u]
          \/ /\ h.status[u] = "stopped" /\ h.mode[u] = "new"
             /\ \/ k.status[u] = "trying" /\ k.mode[u] = "new"
                \/ k.status[u] = "stopped" /\ k.mode[u] \in {"queued", "delayed"}

LookedUp(h, u) == ~(h.mode[u] = "new" /\ h.status[u] = "stopped")

LEMMA LooksUpTwice ==
  ASSUME NEW g, NEW h, NEW k, LooksUpOnly(g, h), LooksUpOnly(h, k)
  PROVE  /\ LooksUpOnly(g, k)
         /\ \A u \in Transfers : LookedUp(h, u) => LookedUp(k, u)
  BY DEF LooksUpOnly, LookedUp

(* What holds while new transfers are still stopped, or tried. *)
NewSound(h) == Sound(h, Transfers, Active \cup {"stopped"})

LEMMA AllLimited == \A h : Limited(h, Transfers)
  BY DEF Limited, ActiveIn

LEMMA LookUpStep ==
  ASSUME NEW h, NewSound(h), NEW t \in Transfers
  PROVE  LET k == lookUpNew(h, t)
         IN  NewSound(k) /\ LooksUpOnly(h, k) /\ LookedUp(k, t)
  <1> DEFINE k == lookUpNew(h, t)
             W == Active \cup {"stopped"}
  <1>1. CASE LookedUp(h, t)
    <2>1. k = h
      BY <1>1 DEF lookUpNew, LookedUp
    <2> QED
      BY <1>1, <2>1 DEF LooksUpOnly
  <1>2. CASE ~LookedUp(h, t)
    <2>1. h \in Records /\ h.status \in [Transfers -> Statuses] /\ h.mode \in [Transfers -> Modes]
      BY RecordFields DEF Sound, NewSound
    <2>2. k = checkCache(h, t) /\ h.mode[t] = "new" /\ h.status[t] = "stopped"
      BY <1>2 DEF lookUpNew, LookedUp
    <2>3. ASSUME NEW s \in {"trying", "stopped"}, NEW m \in {"new", "queued", "delayed"}
          PROVE  LET c == Show(h, t, s, m)
                 IN  /\ NewSound(c)
                     /\ c.status = [h.status EXCEPT ![t] = s] /\ c.mode = [h.mode EXCEPT ![t] = m]
                     /\ c.selected = h.selected
      <3> DEFINE c == Show(h, t, s, m)
      <3>1. s \in Statuses \ {"absent", "gone"} /\ m \in Modes /\ s \in W
        BY DEF Statuses, Modes, Active
      <3>2. /\ c \in Records /\ c.status = [h.status EXCEPT ![t] = s]
            /\ c.mode = [h.mode EXCEPT ![t] = m]
            /\ c.selected = h.selected /\ c.todo = h.todo
        BY <2>1, <3>1, ShowFacts
      <3>3. Limited(c, Transfers)
        BY AllLimited
      <3>4. Sound(c, Transfers, W)
        BY <3>1, <3>3, ShowSound DEF NewSound
      <3> QED
        BY <3>2, <3>4 DEF NewSound
    <2>4. CASE t \in Http
      <3> DEFINE c == Show(h, t, "trying", "new")
      <3>1. k = Do(c, t, "RETR_CACHE")
        BY <2>2, <2>4 DEF checkCache
      <3>2. /\ NewSound(c)
            /\ c.status = [h.status EXCEPT ![t] = "trying"] /\ c.mode = [h.mode EXCEPT ![t] = "new"]
            /\ c.selected = h.selected
        BY <2>3
      <3> HIDE DEF c
      <3>3. "RETR_CACHE" \in Commands \cup {"abort", "join"} /\ c.status[t] # "gone"
        BY <2>1, <3>2 DEF Commands, Retrieving
      <3>4. Sound(c, Transfers, W)
        BY <3>2 DEF NewSound
      <3> HIDE DEF W
      <3>5. Sound(Do(c, t, "RETR_CACHE"), Transfers, W) /\ Alike(c, Do(c, t, "RETR_CACHE"))
        BY <3>3, <3>4, DoSound
      <3>6. NewSound(k) /\ Alike(c, k)
        BY <3>1, <3>5 DEF NewSound, W
      <3> QED
        BY <2>1, <2>2, <3>2, <3>6 DEF LooksUpOnly, LookedUp, Alike
    <2>5. CASE t \notin Http
      <3>1. k = NotInCache(h, t)
        BY <2>2, <2>5 DEF checkCache
      <3>2. PICK m \in {"queued", "delayed"} : k = Show(h, t, "stopped", m)
        BY <2>1, <3>1, NotInCacheFacts
      <3> HIDE DEF k
      <3>3. /\ NewSound(k)
            /\ k.status = [h.status EXCEPT ![t] = "stopped"] /\ k.mode = [h.mode EXCEPT ![t] = m]
            /\ k.selected = h.selected
        BY <2>3, <3>2
      <3>4. LooksUpOnly(h, k) /\ LookedUp(k, t)
        BY <2>1, <2>2, <3>3 DEF LooksUpOnly, LookedUp
      <3> QED
        BY <3>3, <3>4 DEF k
    <2> QED
      BY <2>4, <2>5
  <1> QED
    BY <1>1, <1>2

LEMMA LookUpAll ==
  ASSUME NEW h, NewSound(h)
  PROVE  LET r == Each(h, lookUpNew)
         IN  Sound(r, Transfers, Active) /\ LooksUpOnly(h, r)
  <1> DEFINE L == Len(Order)
             r == Each(h, lookUpNew)
  <1>1. L \in Nat /\ \A n \in 1 .. L : Order[n] \in Transfers
    BY KGetAssumption
  <1>2. h \in Records
    BY DEF Sound, NewSound
  <1>3. PICK f \in [0 .. L -> Records] :
           f[0] = h /\ f[L] = r /\ \A n \in 1 .. L : f[n] = lookUpNew(f[n - 1], Order[n])
    BY <1>2, LookUpLoop
  <1> HIDE DEF r
  <1> DEFINE N == {n \in 0 .. L : /\ NewSound(f[n]) /\ LooksUpOnly(h, f[n])
                                  /\ \A i \in 1 .. n : LookedUp(f[n], Order[i])}
  <1>4. 0 \in N
    BY <1>1, <1>3 DEF LooksUpOnly
  <1>5. ASSUME NEW n \in 1 .. L, n - 1 \in N PROVE n \in N
    <2>1. n - 1 \in 0 .. L
      BY <1>1
    <2>2. /\ NewSound(f[n - 1]) /\ LooksUpOnly(h, f[n - 1])
          /\ \A i \in 1 .. n - 1 : LookedUp(f[n - 1], Order[i])
      BY <1>5
    <2>3. f[n] = lookUpNew(f[n - 1], Order[n]) /\ Order[n] \in Transfers
      BY <1>1, <1>3
    <2>4. NewSound(f[n]) /\ LooksUpOnly(f[n - 1], f[n]) /\ LookedUp(f[n], Order[n])
      BY <2>2, <2>3, LookUpStep
    <2>5. LooksUpOnly(h, f[n]) /\ \A u \in Transfers : LookedUp(f[n - 1], u) => LookedUp(f[n], u)
      BY <2>2, <2>4, LooksUpTwice
    <2>6. ASSUME NEW i \in 1 .. n PROVE LookedUp(f[n], Order[i])
      <3>1. CASE i = n
        BY <2>4, <3>1
      <3>2. CASE i # n
        <4>1. i \in 1 .. n - 1 /\ i \in 1 .. L
          BY <1>1, <3>2
        <4> QED
          BY <1>1, <2>2, <2>5, <4>1
      <3> QED
        BY <3>1, <3>2
    <2> QED
      BY <1>1, <2>4, <2>5, <2>6
  <1> HIDE DEF N
  <1>6. \A n \in 0 .. L : n \in N
    BY <1>1, <1>4, <1>5, Counting
  <1>7. L \in N
    BY <1>1, <1>6
  <1>8. /\ NewSound(r) /\ LooksUpOnly(h, r)
        /\ \A i \in 1 .. L : LookedUp(r, Order[i])
    BY <1>3, <1>7 DEF N
  <1>9. ASSUME NEW u \in Transfers PROVE LookedUp(r, u)
    <2>1. PICK n \in 1 .. L : Order[n] = u
      BY KGetAssumption
    <2> QED
      BY <1>8, <2>1
  <1>10. NewIn(r, Active)
    BY <1>8, <1>9 DEF NewSound, Sound, NewIn, LookedUp
  <1> QED
    BY <1>8, <1>10 DEF r, NewSound, Sound

(* checkQueue when new transfers have been added. *)
LEMMA CheckQueueNew ==
  ASSUME NEW h, NewSound(h)
  PROVE  LET r == checkQueue(h)
         IN  /\ Sound(r, Transfers, Active)
             /\ \E a : NewSound(a) /\ StartsOnly(h, a) /\ LooksUpOnly(a, r)
  <1> DEFINE c == Each(h, startWaiting)
             b == slotUpdateActions(c)
             a == IF Offline(h) THEN h ELSE b
             r == checkQueue(h)
  <1>1. r = Each(a, lookUpNew)
    BY DEF checkQueue
  <1>2. NewSound(a) /\ StartsOnly(h, a)
    <2>1. CASE Offline(h)
      BY <2>1 DEF StartsOnly
    <2>2. CASE ~Offline(h)
      <3>1. NewSound(c) /\ StartsOnly(h, c)
        BY StartAll DEF NewSound
      <3> HIDE DEF c
      <3>2. b \in Records /\ Alike(c, b) /\ b.todo = c.todo
        BY <3>1, UpdateFacts DEF NewSound, Sound
      <3> HIDE DEF b
      <3>3. NewSound(b)
        BY <3>1, <3>2, AlikeSound DEF NewSound
      <3>4. StartsOnly(h, b)
        BY <3>1, <3>2, AlikeStarts
      <3> QED
        BY <2>2, <3>3, <3>4
    <2> QED
      BY <2>1, <2>2
  <1> HIDE DEF a, r
  <1>3. Sound(r, Transfers, Active) /\ LooksUpOnly(a, r)
    BY <1>1, <1>2, LookUpAll
  <1> QED
    BY <1>2, <1>3 DEF r

----------------------------------------------------------------------------
(* The answers of the slaves.                                              *)

(* A handler that starts in h and comes to r has answered: offline nothing *)
(* was started, or nothing waits beside a free connection.                 *)
Answered(h, r) ==
    \/ /\ Offline(h)
       /\ \A u \in Transfers : r.status[u] = "trying" /\ r.mode[u] = "queued" => h.status[u] \in Active
    \/ \A u \in Transfers : Served(r, u)

LEMMA QueueAnswers ==
  ASSUME NEW h, NEW a, NEW B, Sound(a, B, Active),
         a.offlineMode = h.offlineMode, a.b_connected = h.b_connected,
         \A u \in Transfers : a.status[u] = "trying" => h.status[u] \in Active
  PROVE  Sound(checkQueue(a), B, Active) /\ Answered(h, checkQueue(a))
  <1> DEFINE r == checkQueue(a)
  <1>1. /\ Sound(r, B, Active)
        /\ Offline(a) => r = a
        /\ ~Offline(a) => \A u \in Transfers : Served(r, u)
    BY CheckQueueFacts
  <1> HIDE DEF r
  <1>2. Offline(a) <=> Offline(h)
    BY DEF Offline
  <1>3. Answered(h, r)
    BY <1>1, <1>2 DEF Answered
  <1> QED
    BY <1>1, <1>3 DEF r

LEMMA UpdateSound ==
  ASSUME NEW h, NEW B, NEW W, Sound(h, B, W)
  PROVE  Sound(slotUpdateActions(h), B, W) /\ Alike(h, slotUpdateActions(h))
  <1> DEFINE k == slotUpdateActions(h)
  <1>1. k \in Records /\ Alike(h, k) /\ k.todo = h.todo
    BY UpdateFacts DEF Sound
  <1> HIDE DEF k
  <1>2. Sound(k, B, W)
    BY <1>1, AlikeSound
  <1> QED
    BY <1>1, <1>2 DEF k

LEMMA StatusChangedAnswers ==
  ASSUME NEW h, NEW a, NEW B, Sound(a, B, Active),
         a.offlineMode = h.offlineMode, a.b_connected = h.b_connected,
         \A u \in Transfers : a.status[u] = "trying" => h.status[u] \in Active
  PROVE  Sound(slotStatusChanged(a), B, Active) /\ Answered(h, slotStatusChanged(a))
  <1> DEFINE k == slotUpdateActions(a)
  <1>1. Sound(k, B, Active) /\ Alike(a, k)
    BY UpdateSound
  <1> HIDE DEF k
  <1>2. /\ k.offlineMode = h.offlineMode /\ k.b_connected = h.b_connected
        /\ \A u \in Transfers : k.status[u] = "trying" => h.status[u] \in Active
    BY <1>1 DEF Alike
  <1>3. Sound(checkQueue(k), B, Active) /\ Answered(h, checkQueue(k))
    BY <1>1, <1>2, QueueAnswers
  <1> QED
    BY <1>3 DEF slotStatusChanged, k

(* t is shown in a mode and as stopped or finished. *)
LEMMA RestSound ==
  ASSUME NEW h, NEW B, Sound(h, B, Active), NEW t \in Transfers,
         NEW s \in {"stopped", "finished"},
         NEW m \in {"queued", "delayed", "scheduled", "none"}
  PROVE  Sound(Show(h, t, s, m), B, Active)
  <1> DEFINE a == Show(h, t, s, m)
  <1>1. s \in Statuses \ {"absent", "gone"} /\ s \in Statuses /\ m \in Modes /\ m # "new" /\ s \notin Active
    BY DEF Statuses, Modes, Active
  <1>2. Limited(a, B)
    BY <1>1, ShowLimited
  <1> QED
    BY <1>1, <1>2, ShowSound

LEMMA RestFacts ==
  ASSUME NEW h \in Records, NEW t \in Transfers, NEW s \in {"stopped", "finished"},
         NEW m \in {"queued", "delayed", "scheduled", "none"}
  PROVE  LET a == Show(h, t, s, m)
         IN  /\ a.offlineMode = h.offlineMode /\ a.b_connected = h.b_connected
             /\ a.status[t] = s
             /\ \A u \in Transfers : a.status[u] = "trying" => h.status[u] \in Active
  <1> DEFINE a == Show(h, t, s, m)
  <1>1. h.status \in [Transfers -> Statuses] /\ s \in Statuses /\ m \in Modes
    BY RecordFields DEF Statuses, Modes
  <1>2. /\ a \in Records /\ a.status = [h.status EXCEPT ![t] = s]
        /\ a.mode = [h.mode EXCEPT ![t] = m]
        /\ a.selected = h.selected /\ a.offlineMode = h.offlineMode
        /\ a.b_connected = h.b_connected /\ a.todo = h.todo
    BY <1>1, ShowFacts
  <1> HIDE DEF a
  <1>3. /\ a.status[t] = s
        /\ \A u \in Transfers : a.status[u] = "trying" => h.status[u] \in Active
    BY <1>1, <1>2 DEF Active
  <1> QED
    BY <1>2, <1>3 DEF a

LEMMA TimeoutSound ==
  ASSUME NEW h, NEW B, Sound(h, B, Active), NEW due
  PROVE  Sound(slotTransferTimeout(h, due), B, Active)
  <1> DEFINE late == {t \in due : h.mode[t] = "scheduled"}
             q == [t \in Transfers |-> IF t \in late THEN "queued" ELSE h.mode[t]]
             a == [h EXCEPT !.mode = q]
  <1>1. h \in Records /\ h.mode \in [Transfers -> Modes]
    BY RecordFields DEF Sound
  <1>2. q \in [Transfers -> Modes] /\ \A t \in Transfers : q[t] = "new" => h.mode[t] = "new"
    BY <1>1 DEF Modes
  <1>3. slotTransferTimeout(h, due) = IF late = {} THEN h ELSE checkQueue(a)
    BY DEF slotTransferTimeout
  <1> HIDE DEF q, late
  <1>4. /\ a \in Records /\ a.status = h.status /\ a.mode = q
        /\ a.selected = h.selected /\ a.todo = h.todo
    BY <1>1, <1>2 DEF Records
  <1> HIDE DEF a
  <1>5. ActiveIn(a) = ActiveIn(h)
    BY <1>4 DEF ActiveIn
  <1>6. Limited(a, B)
    BY <1>5, LimitedFewer DEF Sound
  <1>7. Sound(a, B, Active)
    BY <1>2, <1>4, <1>6 DEF Sound, Listed, NewIn, Aborted
  <1> QED
    BY <1>3, <1>7, CheckQueueFacts

LEMMA DeleteFacts ==
  ASSUME NEW h, NEW B, Sound(h, B, Active), NEW t \in Transfers
  PROVE  LET a == deleteItem(h, t)
         IN  /\ Sound(a, B, Active)
             /\ a.offlineMode = h.offlineMode /\ a.b_connected = h.b_connected
             /\ a.status = [h.status EXCEPT ![t] = "gone"]
             /\ \A u \in Transfers : a.status[u] = "trying" => h.status[u] \in Active
  <1> DEFINE x == Show(h, t, "gone", "none")
             y == [x EXCEPT !.selected = @ \ {t}]
             a == Do(y, t, "abort")
  <1>1. h \in Records /\ h.status \in [Transfers -> Statuses]
        /\ "gone" \in Statuses /\ "none" \in Modes
    BY RecordFields DEF Sound, Statuses, Modes
  <1>2. /\ x \in Records /\ x.status = [h.status EXCEPT ![t] = "gone"]
        /\ x.mode = [h.mode EXCEPT ![t] = "none"]
        /\ x.selected = h.selected /\ x.offlineMode = h.offlineMode
        /\ x.b_connected = h.b_connected /\ x.todo = h.todo
    BY <1>1, ShowFacts
  <1>3. deleteItem(h, t) = a
    BY DEF deleteItem
  <1> HIDE DEF x
  <1>4. /\ y \in Records /\ y.status = x.status
        /\ y.offlineMode = x.offlineMode /\ y.b_connected = x.b_connected
    BY <1>2 DEF Records
  <1> HIDE DEF y
  <1>5. a \in Records /\ Alike(y, a)
    BY <1>4, DoFacts
  <1>6. Sound(a, B, Active)
    BY <1>3, DeleteSound
  <1> HIDE DEF a
  <1>7. /\ a.offlineMode = h.offlineMode /\ a.b_connected = h.b_connected
        /\ a.status = [h.status EXCEPT ![t] = "gone"]
    BY <1>2, <1>4, <1>5 DEF Alike
  <1>8. \A u \in Transfers : a.status[u] = "trying" => h.status[u] \in Active
    BY <1>1, <1>7 DEF Active
  <1> QED
    BY <1>3, <1>6, <1>7, <1>8

(* The job of t has told its size. *)
LEMMA RunningSound ==
  ASSUME NEW h, NEW B, Sound(h, B, Active), NEW t \in Transfers,
         h.status[t] # "gone", h.mode[t] # "new", ActiveIn(h) \cup {t} \subseteq B
  PROVE  LET a == [h EXCEPT !.status[t] = "running"]
         IN  /\ Sound(a, B, Active) /\ a.status[t] = "running"
             /\ a.offlineMode = h.offlineMode /\ a.b_connected = h.b_connected
             /\ \A u \in Transfers : a.status[u] = "trying" => h.status[u] \in Active
  <1> DEFINE a == [h EXCEPT !.status[t] = "running"]
  <1>1. h \in Records /\ h.status \in [Transfers -> Statuses]
        /\ h.selected \subseteq Transfers
    BY RecordFields DEF Sound
  <1>2. [h.status EXCEPT ![t] = "running"] \in [Transfers -> Statuses]
    BY <1>1 DEF Statuses
  <1>3. /\ a \in Records /\ a.status = [h.status EXCEPT ![t] = "running"] /\ a.mode = h.mode
        /\ a.selected = h.selected /\ a.todo = h.todo
        /\ a.offlineMode = h.offlineMode /\ a.b_connected = h.b_connected
    BY <1>1, <1>2 DEF Records
  <1> HIDE DEF a
  <1>4. Listed(a) /\ NewIn(a, Active)
    BY <1>1, <1>3 DEF Sound, Listed, NewIn
  <1>5. Aborted(a)
    BY <1>1, <1>3 DEF Sound, Aborted
  <1>6. Limited(a, B)
    BY <1>1, <1>3 DEF Limited, ActiveIn
  <1>7. Sound(a, B, Active)
    BY <1>3, <1>4, <1>5, <1>6 DEF Sound
  <1>8. \A u \in Transfers : a.status[u] = "trying" => h.status[u] \in Active
    BY <1>1, <1>3 DEF Active
  <1>9. a.status[t] = "running"
    BY <1>1, <1>3
  <1> QED
    BY <1>3, <1>7, <1>8, <1>9 DEF a

LEMMA ConnectedAnswers ==
  ASSUME NEW h, NEW B, Sound(h, B, Active), NEW t \in Transfers,
         h.status[t] # "gone", ActiveIn(h) \cup {t} \subseteq B
  PROVE  LET r == slotExecConnected(h, t) IN Sound(r, B, Active) /\ Answered(h, r)
  <1> DEFINE r == slotExecConnected(h, t)
  <1>1. h \in Records /\ h.status \in [Transfers -> Statuses]
        /\ h.selected \subseteq Transfers
    BY RecordFields DEF Sound
  <1>2. CASE h.mode[t] # "new"
    <2> DEFINE a == [h EXCEPT !.status[t] = "running"]
    <2>1. r = checkQueue(a)
      BY <1>2 DEF slotExecConnected
    <2>2. /\ Sound(a, B, Active)
          /\ a.offlineMode = h.offlineMode /\ a.b_connected = h.b_connected
          /\ \A u \in Transfers : a.status[u] = "trying" => h.status[u] \in Active
      BY <1>2, RunningSound
    <2> HIDE DEF a
    <2>3. Sound(checkQueue(a), B, Active) /\ Answered(h, checkQueue(a))
      BY <2>2, QueueAnswers
    <2> QED
      BY <2>1, <2>3
  <1>3. CASE h.mode[t] = "new" /\ Offline(h)
    <2>1. r = h
      BY <1>3 DEF slotExecConnected
    <2> QED
      BY <1>3, <2>1 DEF Answered, Active
  <1>4. CASE h.mode[t] = "new" /\ ~Offline(h)
    <2> DEFINE b == NotInCache(h, t)
               a == Do(b, t, "KILL")
    <2>1. r = slotStatusChanged(a)
      BY <1>4 DEF slotExecConnected
    <2>2. PICK m \in {"queued", "delayed"} : b = Show(h, t, "stopped", m)
      BY <1>1, NotInCacheFacts
    <2> HIDE DEF b
    <2>3. m \in {"queued", "delayed", "scheduled", "none"}
      OBVIOUS
    <2>8. Sound(b, B, Active)
      BY <2>2, <2>3, RestSound
    <2>4. /\ Sound(b, B, Active)
          /\ b.offlineMode = h.offlineMode /\ b.b_connected = h.b_connected
          /\ b.status[t] = "stopped"
          /\ \A u \in Transfers : b.status[u] = "trying" => h.status[u] \in Active
      BY <1>1, <2>2, <2>3, <2>8, RestFacts
    <2>5. "KILL" \in Commands \cup {"abort", "join"} /\ b.status[t] # "gone"
      BY <1>1, <2>4 DEF Commands, Leaving
    <2>6. Sound(a, B, Active) /\ Alike(b, a)
      BY <2>4, <2>5, DoSound
    <2> HIDE DEF a
    <2>7. /\ a.offlineMode = h.offlineMode /\ a.b_connected = h.b_connected
          /\ \A u \in Transfers : a.status[u] = "trying" => h.status[u] \in Active
      BY <2>4, <2>6 DEF Alike
    <2> QED
      BY <2>1, <2>6, <2>7, StatusChangedAnswers
  <1> QED
    BY <1>2, <1>3, <1>4

(* The answers after which checkQueue runs. *)
Checking == {"SLV_FINISHED", "SLV_PAUSED", "SLV_DELAYED", "SLV_BROKEN", "SLV_RESUMED", "SLV_CONNECTED"}

LEMMA EventAnswers ==
  ASSUME NEW h, NEW B, Sound(h, B, Active), NEW t \in Transfers,
         h.status[t] # "gone", NEW due, NEW kind \in EventKinds,
         kind = "SLV_CONNECTED" => ActiveIn(h) \cup {t} \subseteq B
  PROVE  LET r == customEvent(h, t, kind, due)
         IN  Sound(r, B, Active) /\ (kind \in Checking => Answered(h, r))
  <1> DEFINE r == customEvent(h, t, kind, due)
  <1>1. kind \in Checking \cup {"SLV_SCHEDULED", "SLV_ERROR", "SLV_REMOVED", "SLV_NOTINCACHE"}
    BY DEF EventKinds, Answer, Results, Checking
  <1>2. ASSUME NEW s \in {"stopped", "finished"}, NEW m \in {"queued", "delayed", "scheduled", "none"}
        PROVE  LET a == Show(h, t, s, m)
               IN  /\ Sound(a, B, Active)
                   /\ Sound(checkQueue(a), B, Active) /\ Answered(h, checkQueue(a))
                   /\ Sound(slotStatusChanged(a), B, Active) /\ Answered(h, slotStatusChanged(a))
    <2> DEFINE a == Show(h, t, s, m)
    <2>1. /\ Sound(a, B, Active)
          /\ a.offlineMode = h.offlineMode /\ a.b_connected = h.b_connected
          /\ \A u \in Transfers : a.status[u] = "trying" => h.status[u] \in Active
      <3>1. Sound(a, B, Active)
        BY RestSound
      <3>2. h \in Records
        BY DEF Sound
      <3>3. /\ a.offlineMode = h.offlineMode /\ a.b_connected = h.b_connected
            /\ \A u \in Transfers : a.status[u] = "trying" => h.status[u] \in Active
        BY <3>2, RestFacts
      <3> QED
        BY <3>1, <3>3
    <2> HIDE DEF a
    <2>2. Sound(checkQueue(a), B, Active) /\ Answered(h, checkQueue(a))
      BY <2>1, QueueAnswers
    <2>3. Sound(slotStatusChanged(a), B, Active) /\ Answered(h, slotStatusChanged(a))
      BY <2>1, StatusChangedAnswers
    <2> QED
      BY <2>1, <2>2, <2>3 DEF a
  <1>3. CASE kind = "SLV_RESUMED"
    <2>1. r = slotStatusChanged(h)
      BY <1>3 DEF customEvent, slotExecResume
    <2>2. \A u \in Transfers : h.status[u] = "trying" => h.status[u] \in Active
      BY DEF Active
    <2>3. Sound(slotStatusChanged(h), B, Active) /\ Answered(h, slotStatusChanged(h))
      BY <2>2, StatusChangedAnswers
    <2> QED
      BY <2>1, <2>3
  <1>4. CASE kind = "SLV_CONNECTED"
    <2>1. r = slotExecConnected(h, t)
      BY <1>4 DEF customEvent
    <2> QED
      BY <1>4, <2>1, ConnectedAnswers
  <1>5. CASE kind = "SLV_FINISHED"
    <2>1. r = slotFinished(h, t)
      BY <1>5 DEF customEvent
    <2>2. CASE b_removeOnSuccess
      <3> DEFINE a == deleteItem(h, t)
      <3>1. r = checkQueue(a)
        BY <2>1, <2>2 DEF slotFinished
      <3>2. /\ Sound(a, B, Active)
            /\ a.offlineMode = h.offlineMode /\ a.b_connected = h.b_connected
            /\ a.status = [h.status EXCEPT ![t] = "gone"]
            /\ \A u \in Transfers : a.status[u] = "trying" => h.status[u] \in Active
        BY DeleteFacts
      <3> HIDE DEF a
      <3>3. Sound(checkQueue(a), B, Active) /\ Answered(h, checkQueue(a))
        BY <3>2, QueueAnswers
      <3> QED
        BY <3>1, <3>3
    <2>3. CASE ~b_removeOnSuccess
      <3>1. r = checkQueue(Show(h, t, "finished", "none"))
        BY <2>1, <2>3 DEF slotFinished
      <3> QED
        BY <1>2, <3>1
    <2> QED
      BY <2>2, <2>3
  <1>6. CASE kind \in {"SLV_PAUSED", "SLV_DELAYED"}
    <2>1. r = slotStatusChanged(Show(h, t, "stopped", "delayed"))
      BY <1>6 DEF customEvent, slotExecPause, slotExecDelay
    <2> QED
      BY <1>2, <2>1
  <1>7. CASE kind = "SLV_BROKEN"
    <2>1. r = slotStatusChanged(Show(h, t, "stopped", "queued"))
      BY <1>7 DEF customEvent, slotExecBroken
    <2> QED
      BY <1>2, <2>1
  <1>8. CASE kind \in {"SLV_SCHEDULED", "SLV_ERROR"}
    <2> DEFINE a == Show(h, t, "stopped", "scheduled")
    <2>1. r = slotTransferTimeout(slotUpdateActions(a), due)
      BY <1>8 DEF customEvent, slotExecError, slotExecSchedule
    <2>2. Sound(a, B, Active)
      BY <1>2
    <2> HIDE DEF a
    <2>3. Sound(r, B, Active)
      BY <2>1, <2>2, UpdateSound, TimeoutSound
    <2> QED
      BY <1>8, <2>3 DEF Checking
  <1>9. CASE kind = "SLV_REMOVED"
    <2> DEFINE a == Do(h, t, "join")
    <2>1. r = deleteItem(a, t)
      BY <1>9 DEF customEvent, slotExecRemove
    <2>2. Sound(a, B, Active)
      <3>1. "join" \in Commands \cup {"abort", "join"}
        OBVIOUS
      <3> QED
        BY <3>1, DoSound
    <2> HIDE DEF a
    <2>3. Sound(r, B, Active)
      BY <2>1, <2>2, DeleteSound
    <2> QED
      BY <1>9, <2>3 DEF Checking
  <1>10. CASE kind = "SLV_NOTINCACHE"
    <2>1. r = NotInCache(h, t)
      BY <1>10 DEF customEvent
    <2>2. PICK m \in {"queued", "delayed"} : r = Show(h, t, "stopped", m)
      BY <2>1, NotInCacheFacts DEF Sound
    <2>3. Sound(r, B, Active)
      BY <1>2, <2>2
    <2> QED
      BY <1>10, <2>3 DEF Checking
  <1> QED
    BY <1>1, <1>3, <1>4, <1>5, <1>6, <1>7, <1>8, <1>9, <1>10 DEF Checking

----------------------------------------------------------------------------
(* The buttons.                                                            *)

LEMMA CheckQueueRecords ==
  ASSUME NEW h \in Records
  PROVE  checkQueue(h) \in Records
  <1> DEFINE a == Each(h, startWaiting)
             c == IF Offline(h) THEN h ELSE slotUpdateActions(a)
  <1>1. Len(Order) \in Nat
    BY KGetAssumption
  <1>2. a \in Records
    <2>1. PICK f \in [0 .. Len(Order) -> Records] : f[Len(Order)] = a
      BY StartLoop
    <2> QED
      BY <1>1, <2>1
  <1>3. checkQueue(h) = Each(c, lookUpNew)
    BY DEF checkQueue
  <1> HIDE DEF a
  <1>4. c \in Records
    BY <1>2, UpdateFacts
  <1> HIDE DEF c
  <1>5. PICK f \in [0 .. Len(Order) -> Records] : f[Len(Order)] = Each(c, lookUpNew)
    BY <1>4, LookUpLoop
  <1> QED
    BY <1>1, <1>3, <1>5

LEMMA StatusChangedRecords ==
  ASSUME NEW h \in Records
  PROVE  slotStatusChanged(h) \in Records
  BY UpdateFacts, CheckQueueRecords DEF slotStatusChanged

LEMMA TimeoutRecords ==
  ASSUME NEW h \in Records, NEW due
  PROVE  slotTransferTimeout(h, due) \in Records
  <1> DEFINE late == {t \in due : h.mode[t] = "scheduled"}
             q == [t \in Transfers |-> IF t \in late THEN "queued" ELSE h.mode[t]]
             a == [h EXCEPT !.mode = q]
  <1>1. h.mode \in [Transfers -> Modes]
    BY RecordFields
  <1>2. q \in [Transfers -> Modes]
    BY <1>1 DEF Modes
  <1>3. slotTransferTimeout(h, due) = IF late = {} THEN h ELSE checkQueue(a)
    BY DEF slotTransferTimeout
  <1> HIDE DEF q, late
  <1>4. a \in Records
    BY <1>2 DEF Records
  <1> HIDE DEF a
  <1> QED
    BY <1>3, <1>4, CheckQueueRecords

LEMMA ShowRecords ==
  ASSUME NEW h \in Records, NEW t \in Transfers, NEW s \in Statuses, NEW m \in Modes
  PROVE  Show(h, t, s, m) \in Records
  BY ShowFacts

LEMMA DoRecords ==
  ASSUME NEW h \in Records, NEW t \in Transfers, NEW c \in Commands \cup {"abort", "join"}
  PROVE  Do(h, t, c) \in Records
  BY DoFacts

LEMMA DeleteRecords ==
  ASSUME NEW h \in Records, NEW t \in Transfers
  PROVE  deleteItem(h, t) \in Records
  <1> DEFINE x == Show(h, t, "gone", "none")
             y == [x EXCEPT !.selected = @ \ {t}]
  <1>1. x \in Records
    BY ShowRecords DEF Statuses, Modes
  <1>2. deleteItem(h, t) = Do(y, t, "abort")
    BY DEF deleteItem
  <1> HIDE DEF x
  <1>3. y \in Records
    BY <1>1 DEF Records
  <1> HIDE DEF y
  <1> QED
    BY <1>2, <1>3, DoRecords

LEMMA QueuedFacts ==
  ASSUME NEW h \in Records, NEW t \in Transfers
  PROVE  LET k == [h EXCEPT !.mode[t] = "queued"]
         IN  /\ k \in Records /\ k.status = h.status /\ k.selected = h.selected /\ k.todo = h.todo
             /\ \A u \in Transfers : k.mode[u] = "new" => h.mode[u] = "new"
  <1> DEFINE k == [h EXCEPT !.mode[t] = "queued"]
             q == [h.mode EXCEPT ![t] = "queued"]
  <1>1. h.mode \in [Transfers -> Modes]
    BY RecordFields
  <1>2. q \in [Transfers -> Modes] /\ \A u \in Transfers : q[u] = "new" => h.mode[u] = "new"
    BY <1>1 DEF Modes
  <1>3. k = [h EXCEPT !.mode = q]
    OBVIOUS
  <1> HIDE DEF q
  <1>4. /\ k \in Records /\ k.mode = q /\ k.status = h.status
        /\ k.selected = h.selected /\ k.todo = h.todo
    BY <1>2, <1>3 DEF Records
  <1> QED
    BY <1>2, <1>4

(* An assertion that fails changes nothing else. *)
LEMMA CrashFacts ==
  ASSUME NEW h \in Records, NEW line \in Lines
  PROVE  /\ [h EXCEPT !.crashed = line] \in Records
         /\ Alike(h, [h EXCEPT !.crashed = line])
         /\ [h EXCEPT !.crashed = line].todo = h.todo
  BY DEF Records, Alike

LEMMA SlotLines ==
  /\ "transfer.cpp:slotRequestPause" \in Lines /\ "transfer.cpp:slotQueue" \in Lines
  /\ "transfer.cpp:slotRequestDelay" \in Lines /\ "transfer.cpp:slotRequestSchedule" \in Lines
  BY DEF Lines

LEMMA SlotCommands ==
  /\ "PAUSE" \in Commands /\ "RESTART" \in Commands /\ "REMOVE" \in Commands
  /\ "DELAY" \in Commands /\ "SCHEDULE" \in Commands
  BY DEF Commands, Retrieving, Stopping, Leaving

(* What each button does to a transfer, its assertion apart: c is the record *)
(* that has passed it.                                                     *)
Passed(h, c) == c \in Records /\ Alike(h, c) /\ c.todo = h.todo

LEMMA PassedCheck ==
  ASSUME NEW h \in Records
  PROVE  Passed(h, h) /\ \A line \in Lines : Passed(h, [h EXCEPT !.crashed = line])
  <1>1. Passed(h, h)
    BY DEF Passed, Alike
  <1>2. ASSUME NEW line \in Lines PROVE Passed(h, [h EXCEPT !.crashed = line])
    BY CrashFacts DEF Passed
  <1> QED
    BY <1>1, <1>2

LEMMA PauseEquation ==
  ASSUME NEW h \in Records, NEW t, NEW due
  PROVE  \E c \in Records : Passed(h, c) /\ Slot("pause", due, h, t) = Do(c, t, "PAUSE")
  <1> DEFINE c == Check(h, h.status[t] \in Active, "transfer.cpp:slotRequestPause")
  <1>1. Slot("pause", due, h, t) = Do(c, t, "PAUSE")
    BY DEF Slot, slotRequestPause
  <1>2. c = h \/ c = [h EXCEPT !.crashed = "transfer.cpp:slotRequestPause"]
    BY DEF Check
  <1> HIDE DEF c
  <1>3. Passed(h, c)
    BY <1>2, SlotLines, PassedCheck
  <1> QED
    BY <1>1, <1>3 DEF Passed

LEMMA QueueEquation ==
  ASSUME NEW h \in Records, NEW t, NEW due
  PROVE  \E c \in Records : Passed(h, c) /\ Slot("queue", due, h, t) =
            slotStatusChanged([c EXCEPT !.mode[t] = "queued"])
  <1> DEFINE c == Check(h, h.mode[t] # "queued", "transfer.cpp:slotQueue")
  <1>1. Slot("queue", due, h, t) =
            slotStatusChanged([c EXCEPT !.mode[t] = "queued"])
    BY DEF Slot, slotQueue
  <1>2. c = h \/ c = [h EXCEPT !.crashed = "transfer.cpp:slotQueue"]
    BY DEF Check
  <1> HIDE DEF c
  <1>3. Passed(h, c)
    BY <1>2, SlotLines, PassedCheck
  <1> QED
    BY <1>1, <1>3 DEF Passed

LEMMA DelayEquation ==
  ASSUME NEW h \in Records, NEW t, NEW due
  PROVE  \E c \in Records : Passed(h, c) /\ Slot("delay", due, h, t) =
            IF h.status[t] = "running" THEN Do(c, t, "DELAY")
            ELSE slotStatusChanged(Show(c, t, "stopped", "delayed"))
  <1> DEFINE c == Check(h, h.mode[t] # "delayed", "transfer.cpp:slotRequestDelay")
  <1>1. Slot("delay", due, h, t) =
            IF h.status[t] = "running" THEN Do(c, t, "DELAY")
            ELSE slotStatusChanged(Show(c, t, "stopped", "delayed"))
    BY DEF Slot, slotRequestDelay, slotExecDelay
  <1>2. c = h \/ c = [h EXCEPT !.crashed = "transfer.cpp:slotRequestDelay"]
    BY DEF Check
  <1> HIDE DEF c
  <1>3. Passed(h, c)
    BY <1>2, SlotLines, PassedCheck
  <1> QED
    BY <1>1, <1>3 DEF Passed

LEMMA TimerEquation ==
  ASSUME NEW h \in Records, NEW t, NEW due
  PROVE  \E c \in Records : Passed(h, c) /\ Slot("timer", due, h, t) =
            IF h.status[t] = "running" THEN Do(c, t, "SCHEDULE")
            ELSE slotTransferTimeout(slotUpdateActions(Show(c, t, "stopped", "scheduled")), due \ {t})
  <1> DEFINE c == Check(h, h.mode[t] # "scheduled", "transfer.cpp:slotRequestSchedule")
  <1>1. Slot("timer", due, h, t) =
            IF h.status[t] = "running" THEN Do(c, t, "SCHEDULE")
            ELSE slotTransferTimeout(slotUpdateActions(Show(c, t, "stopped", "scheduled")), due \ {t})
    BY DEF Slot, slotRequestSchedule, slotExecSchedule
  <1>2. c = h \/ c = [h EXCEPT !.crashed = "transfer.cpp:slotRequestSchedule"]
    BY DEF Check
  <1> HIDE DEF c
  <1>3. Passed(h, c)
    BY <1>2, SlotLines, PassedCheck
  <1> QED
    BY <1>1, <1>3 DEF Passed

LEMMA SlotRecords ==
  ASSUME NEW h \in Records, NEW t \in Transfers, NEW b \in AllButtons, NEW due
  PROVE  SlotIfSelected(b, due, h, t) \in Records
  <1> SUFFICES Slot(b, due, h, t) \in Records
    BY DEF SlotIfSelected
  <1>1. CASE b = "resume"
    <2>1. Slot(b, due, h, t) = slotResume(h, t)
      BY <1>1 DEF Slot
    <2> QED
      BY <2>1, ResumeFacts
  <1>2. CASE b = "pause"
    <2>1. PICK c \in Records : Slot(b, due, h, t) = Do(c, t, "PAUSE")
      BY <1>2, PauseEquation
    <2> QED
      BY <2>1, SlotCommands, DoRecords
  <1>3. CASE b = "restart"
    <2>1. Slot(b, due, h, t) = Do(h, t, "RESTART")
      BY <1>3 DEF Slot, slotRequestRestart
    <2> QED
      BY <2>1, SlotCommands, DoRecords
  <1>4. CASE b = "delete"
    <2>1. Slot(b, due, h, t) \in {Do(h, t, "REMOVE"), deleteItem(h, t)}
      BY <1>4 DEF Slot, slotRequestRemove
    <2>2. Do(h, t, "REMOVE") \in Records
      BY SlotCommands, DoRecords
    <2> QED
      BY <2>1, <2>2, DeleteRecords
  <1>5. CASE b = "queue"
    <2>1. PICK c \in Records :
             Slot(b, due, h, t) = slotStatusChanged([c EXCEPT !.mode[t] = "queued"])
      BY <1>5, QueueEquation
    <2>2. [c EXCEPT !.mode[t] = "queued"] \in Records
      BY QueuedFacts
    <2> QED
      BY <2>1, <2>2, StatusChangedRecords
  <1>6. CASE b = "delay"
    <2>1. PICK c \in Records : Slot(b, due, h, t) =
             IF h.status[t] = "running" THEN Do(c, t, "DELAY")
             ELSE slotStatusChanged(Show(c, t, "stopped", "delayed"))
      BY <1>6, DelayEquation
    <2>2. Do(c, t, "DELAY") \in Records
      BY SlotCommands, DoRecords
    <2>3. Show(c, t, "stopped", "delayed") \in Records
      BY ShowRecords DEF Statuses, Modes
    <2>4. slotStatusChanged(Show(c, t, "stopped", "delayed")) \in Records
      BY <2>3, StatusChangedRecords
    <2> QED
      BY <2>1, <2>2, <2>4
  <1>7. CASE b = "timer"
    <2>1. PICK c \in Records : Slot(b, due, h, t) =
             IF h.status[t] = "running" THEN Do(c, t, "SCHEDULE")
             ELSE slotTransferTimeout(slotUpdateActions(Show(c, t, "stopped", "scheduled")),
                                      due \ {t})
      BY <1>7, TimerEquation
    <2>2. Do(c, t, "SCHEDULE") \in Records
      BY SlotCommands, DoRecords
    <2>3. Show(c, t, "stopped", "scheduled") \in Records
      BY ShowRecords DEF Statuses, Modes
    <2>4. slotUpdateActions(Show(c, t, "stopped", "scheduled")) \in Records
      BY <2>3, UpdateFacts
    <2>5. slotTransferTimeout(slotUpdateActions(Show(c, t, "stopped", "scheduled")), due \ {t})
             \in Records
      BY <2>4, TimeoutRecords
    <2> QED
      BY <2>1, <2>2, <2>5
  <1> QED
    BY <1>1, <1>2, <1>3, <1>4, <1>5, <1>6, <1>7 DEF AllButtons, Radios

(* The states of the loop over the selected transfers. *)
LEMMA SelectedLoop ==
  ASSUME NEW g \in Records, NEW b \in AllButtons, NEW due
  PROVE  \E f \in [0 .. Len(Order) -> Records] :
            /\ f[0] = g /\ f[Len(Order)] = EachSelected(g, b, due)
            /\ \A n \in 1 .. Len(Order) : f[n] = SlotIfSelected(b, due, f[n - 1], Order[n])
  <1> DEFINE L == Len(Order)
             Is(f) == f = [n \in 0 .. L |-> IF n = 0 THEN g
                                           ELSE SlotIfSelected(b, due, f[n - 1], Order[n])]
             E == CHOOSE f : Is(f)
             F == [i \in 1 .. L |-> [h \in Records |-> SlotIfSelected(b, due, h, Order[i])]]
  <1>1. L \in Nat /\ \A n \in 1 .. L : Order[n] \in Transfers
    BY KGetAssumption
  <1>2. F \in [1 .. L -> [Records -> Records]]
    BY <1>1, SlotRecords
  <1>3. \A i \in 1 .. L : \A h \in Records : F[i][h] = SlotIfSelected(b, due, h, Order[i])
    OBVIOUS
  <1> HIDE DEF F, L
  <1>4. PICK f \in [0 .. L -> Records] : f[0] = g /\ \A i \in 1 .. L : f[i] = F[i][f[i - 1]]
    BY <1>1, <1>2, LoopExists
  <1>5. \A i \in 1 .. L : f[i] = SlotIfSelected(b, due, f[i - 1], Order[i])
    <2> TAKE i \in 1 .. L
    <2>1. f[i - 1] \in Records
      BY <1>1, <1>4
    <2> QED
      BY <1>3, <1>4, <2>1
  <1>6. Is(f)
    BY <1>4, <1>5
  <1>7. Is(E)
    BY <1>6
  <1>8. EachSelected(g, b, due) = E[L]
    BY DEF EachSelected, L
  <1> HIDE DEF E
  <1>9. E[0] = g /\ \A n \in 1 .. L : E[n] = SlotIfSelected(b, due, E[n - 1], Order[n])
    BY <1>1, <1>7
  <1>10. \A n \in 0 .. L : E[n] \in Records
    <2> DEFINE N == {n \in 0 .. L : E[n] \in Records}
    <2>1. 0 \in N
      BY <1>1, <1>9
    <2>2. ASSUME NEW n \in 1 .. L, n - 1 \in N PROVE n \in N
      BY <1>1, <1>9, <2>2, SlotRecords
    <2> HIDE DEF N
    <2>3. \A n \in 0 .. L : n \in N
      BY <1>1, <2>1, <2>2, Counting
    <2> QED
      BY <2>3 DEF N
  <1>11. E \in [0 .. L -> Records]
    BY <1>7, <1>10
  <1> QED
    BY <1>8, <1>9, <1>11 DEF L



LEMMA CrashSound ==
  ASSUME NEW h, NEW c, NEW B, NEW W, Sound(h, B, W), Passed(h, c)
  PROVE  Sound(c, B, W)
  BY AlikeSound DEF Passed

LEMMA QueuedSound ==
  ASSUME NEW h, NEW B, NEW W, Sound(h, B, W), NEW t \in Transfers
  PROVE  Sound([h EXCEPT !.mode[t] = "queued"], B, W)
  <1> DEFINE k == [h EXCEPT !.mode[t] = "queued"]
  <1>1. h \in Records
    BY DEF Sound
  <1>2. /\ k \in Records /\ k.status = h.status /\ k.selected = h.selected /\ k.todo = h.todo
        /\ \A u \in Transfers : k.mode[u] = "new" => h.mode[u] = "new"
    BY <1>1, QueuedFacts
  <1> HIDE DEF k
  <1>3. ActiveIn(k) = ActiveIn(h)
    BY <1>2 DEF ActiveIn
  <1>4. Limited(k, B)
    BY <1>3, LimitedFewer DEF Sound
  <1>5. Aborted(k)
    BY <1>2 DEF Sound, Aborted
  <1>6. Listed(k) /\ NewIn(k, W)
    BY <1>2 DEF Sound, Listed, NewIn
  <1> QED
    BY <1>2, <1>4, <1>5, <1>6 DEF Sound, k

LEMMA StatusChangedSound ==
  ASSUME NEW h, NEW B, Sound(h, B, Active)
  PROVE  Sound(slotStatusChanged(h), B, Active)
  BY UpdateSound, CheckQueueFacts DEF slotStatusChanged

(* The Resume button starts transfers beyond the limit. *)
LEMMA ResumeSound ==
  ASSUME NEW h, Sound(h, Transfers, Active), NEW t \in Transfers,
         h.status[t] \notin {"absent", "gone"}
  PROVE  Sound(slotResume(h, t), Transfers, Active)
  <1> DEFINE k == slotResume(h, t)
  <1>1. h \in Records /\ h.status \in [Transfers -> Statuses] /\ h.mode \in [Transfers -> Modes]
    BY RecordFields DEF Sound
  <1>2. /\ k \in Records /\ k.status = [h.status EXCEPT ![t] = "trying"]
        /\ k.mode = [h.mode EXCEPT ![t] = "queued"] /\ k.selected = h.selected
        /\ k.todo = Append(h.todo, [t |-> t, do |-> "RETR"])
    BY <1>1, ResumeFacts
  <1> HIDE DEF k
  <1>3. "RETR" \in Commands
    BY DEF Commands, Retrieving
  <1>4. \A u \in Transfers : k.status[u] = "gone" => h.status[u] = "gone"
    BY <1>1, <1>2
  <1>5. Aborted(k)
    BY <1>1, <1>2, <1>3, <1>4, AppendAborted DEF Sound
  <1>6. Listed(k) /\ NewIn(k, Active)
    BY <1>1, <1>2 DEF Sound, Listed, NewIn, Active
  <1> QED
    BY <1>2, <1>5, <1>6, AllLimited DEF Sound, k

(* What a button does to a selected transfer keeps the record sound; Resume *)
(* may go beyond the limit.                                                *)
LEMMA SlotSound ==
  ASSUME NEW h, NEW B, Sound(h, B, Active), NEW t \in Transfers, NEW b \in AllButtons, NEW due,
         b # "resume" \/ B = Transfers
  PROVE  Sound(SlotIfSelected(b, due, h, t), B, Active)
  <1> SUFFICES ASSUME t \in h.selected PROVE Sound(Slot(b, due, h, t), B, Active)
    BY DEF SlotIfSelected
  <1>1. h \in Records /\ h.status[t] \notin {"absent", "gone"}
    BY DEF Sound, Listed
  <1>2. ASSUME NEW c \in Records, Passed(h, c)
        PROVE  Sound(c, B, Active) /\ c.status[t] # "gone"
    BY <1>1, <1>2, CrashSound DEF Passed, Alike
  <1>3. CASE b = "resume"
    <2>1. Slot(b, due, h, t) = slotResume(h, t)
      BY <1>3 DEF Slot
    <2> QED
      BY <1>1, <1>3, <2>1, ResumeSound
  <1>4. CASE b = "pause"
    <2>1. PICK c \in Records : Passed(h, c) /\ Slot(b, due, h, t) = Do(c, t, "PAUSE")
      BY <1>1, <1>4, PauseEquation
    <2>2. Sound(c, B, Active) /\ c.status[t] # "gone"
      BY <1>2, <2>1
    <2>3. Sound(Do(c, t, "PAUSE"), B, Active)
      BY <2>2, SlotCommands, DoSound
    <2> QED
      BY <2>1, <2>3
  <1>5. CASE b = "restart"
    <2>1. Slot(b, due, h, t) = Do(h, t, "RESTART")
      BY <1>5 DEF Slot, slotRequestRestart
    <2>2. Sound(Do(h, t, "RESTART"), B, Active)
      BY <1>1, SlotCommands, DoSound
    <2> QED
      BY <2>1, <2>2
  <1>6. CASE b = "delete"
    <2>1. Slot(b, due, h, t) \in {Do(h, t, "REMOVE"), deleteItem(h, t)}
      BY <1>6 DEF Slot, slotRequestRemove
    <2>2. Sound(Do(h, t, "REMOVE"), B, Active)
      BY <1>1, SlotCommands, DoSound
    <2>3. Sound(deleteItem(h, t), B, Active)
      BY DeleteSound
    <2> QED
      BY <2>1, <2>2, <2>3
  <1>7. CASE b = "queue"
    <2>1. PICK c \in Records : Passed(h, c) /\
             Slot(b, due, h, t) = slotStatusChanged([c EXCEPT !.mode[t] = "queued"])
      BY <1>1, <1>7, QueueEquation
    <2>2. Sound(c, B, Active)
      BY <1>2, <2>1
    <2>3. Sound([c EXCEPT !.mode[t] = "queued"], B, Active)
      BY <2>2, QueuedSound
    <2> QED
      BY <2>1, <2>3, StatusChangedSound
  <1>8. CASE b = "delay"
    <2>1. PICK c \in Records : Passed(h, c) /\ Slot(b, due, h, t) =
             IF h.status[t] = "running" THEN Do(c, t, "DELAY")
             ELSE slotStatusChanged(Show(c, t, "stopped", "delayed"))
      BY <1>1, <1>8, DelayEquation
    <2>2. Sound(c, B, Active) /\ c.status[t] # "gone"
      BY <1>2, <2>1
    <2>3. Sound(Do(c, t, "DELAY"), B, Active)
      BY <2>2, SlotCommands, DoSound
    <2>4. Sound(Show(c, t, "stopped", "delayed"), B, Active)
      BY <2>2, RestSound
    <2>5. Sound(slotStatusChanged(Show(c, t, "stopped", "delayed")), B, Active)
      BY <2>4, StatusChangedSound
    <2> QED
      BY <2>1, <2>3, <2>5
  <1>9. CASE b = "timer"
    <2>1. PICK c \in Records : Passed(h, c) /\ Slot(b, due, h, t) =
             IF h.status[t] = "running" THEN Do(c, t, "SCHEDULE")
             ELSE slotTransferTimeout(slotUpdateActions(Show(c, t, "stopped", "scheduled")),
                                      due \ {t})
      BY <1>1, <1>9, TimerEquation
    <2>2. Sound(c, B, Active) /\ c.status[t] # "gone"
      BY <1>2, <2>1
    <2>3. Sound(Do(c, t, "SCHEDULE"), B, Active)
      BY <2>2, SlotCommands, DoSound
    <2>4. Sound(Show(c, t, "stopped", "scheduled"), B, Active)
      BY <2>2, RestSound
    <2>5. Sound(slotUpdateActions(Show(c, t, "stopped", "scheduled")), B, Active)
      BY <2>4, UpdateSound
    <2>6. Sound(slotTransferTimeout(slotUpdateActions(Show(c, t, "stopped", "scheduled")),
                                    due \ {t}), B, Active)
      BY <2>5, TimeoutSound
    <2> QED
      BY <2>1, <2>3, <2>6
  <1> QED
    BY <1>3, <1>4, <1>5, <1>6, <1>7, <1>8, <1>9 DEF AllButtons, Radios

LEMMA EachSelectedSound ==
  ASSUME NEW h, NEW B, Sound(h, B, Active), NEW b \in AllButtons, NEW due,
         b # "resume" \/ B = Transfers
  PROVE  Sound(EachSelected(h, b, due), B, Active)
  <1> DEFINE L == Len(Order)
             r == EachSelected(h, b, due)
  <1>1. L \in Nat /\ \A n \in 1 .. L : Order[n] \in Transfers
    BY KGetAssumption
  <1>2. h \in Records
    BY DEF Sound
  <1>3. PICK f \in [0 .. L -> Records] :
           /\ f[0] = h /\ f[L] = r
           /\ \A n \in 1 .. L : f[n] = SlotIfSelected(b, due, f[n - 1], Order[n])
    BY <1>2, SelectedLoop
  <1> HIDE DEF r
  <1> DEFINE N == {n \in 0 .. L : Sound(f[n], B, Active)}
  <1>4. 0 \in N
    BY <1>1, <1>3
  <1>5. ASSUME NEW n \in 1 .. L, n - 1 \in N PROVE n \in N
    <2>1. Sound(f[n - 1], B, Active)
      BY <1>5
    <2>2. f[n] = SlotIfSelected(b, due, f[n - 1], Order[n]) /\ Order[n] \in Transfers
      BY <1>1, <1>3
    <2>3. Sound(SlotIfSelected(b, due, f[n - 1], Order[n]), B, Active)
      BY <2>1, <2>2, SlotSound
    <2> QED
      BY <1>1, <2>2, <2>3
  <1> HIDE DEF N
  <1>6. \A n \in 0 .. L : n \in N
    BY <1>1, <1>4, <1>5, Counting
  <1>7. L \in N
    BY <1>1, <1>6
  <1> QED
    BY <1>3, <1>7 DEF N, r

(* Going offline stops what is active. *)
LEMMA StopSound ==
  ASSUME NEW h, NEW B, Sound(h, B, Active), NEW t \in Transfers
  PROVE  Sound(stopActive(h, t), B, Active)
  <1> DEFINE a == Show(h, t, "stopped", "queued")
  <1>1. h.status[t] \in Active => stopActive(h, t) = Do(a, t, "KILL")
    BY DEF stopActive, slotStop
  <1>2. h.status[t] \notin Active => stopActive(h, t) = h
    BY DEF stopActive
  <1>3. Sound(a, B, Active)
    BY RestSound
  <1>4. a.status[t] = "stopped"
    <2>1. h \in Records
      BY DEF Sound
    <2> QED
      BY <2>1, RestFacts
  <1> HIDE DEF a
  <1>5. "KILL" \in Commands
    BY DEF Commands, Leaving
  <1>6. Sound(Do(a, t, "KILL"), B, Active)
    BY <1>3, <1>4, <1>5, DoSound
  <1> QED
    BY <1>1, <1>2, <1>6

LEMMA StopAllSound ==
  ASSUME NEW h, NEW B, Sound(h, B, Active)
  PROVE  Sound(stopAll(h), B, Active)
  <1> DEFINE L == Len(Order)
             r == Each(h, stopActive)
  <1>1. L \in Nat /\ \A n \in 1 .. L : Order[n] \in Transfers
    BY KGetAssumption
  <1>2. h \in Records
    BY DEF Sound
  <1>3. PICK f \in [0 .. L -> Records] :
           f[0] = h /\ f[L] = r /\ \A n \in 1 .. L : f[n] = stopActive(f[n - 1], Order[n])
    BY <1>2, StopLoop
  <1>4. stopAll(h) = slotUpdateActions(r)
    BY DEF stopAll
  <1> HIDE DEF r
  <1> DEFINE N == {n \in 0 .. L : Sound(f[n], B, Active)}
  <1>5. 0 \in N
    BY <1>1, <1>3
  <1>6. ASSUME NEW n \in 1 .. L, n - 1 \in N PROVE n \in N
    <2>1. Sound(f[n - 1], B, Active)
      BY <1>6
    <2>2. f[n] = stopActive(f[n - 1], Order[n]) /\ Order[n] \in Transfers
      BY <1>1, <1>3
    <2>3. Sound(stopActive(f[n - 1], Order[n]), B, Active)
      BY <2>1, <2>2, StopSound
    <2> QED
      BY <1>1, <2>2, <2>3
  <1> HIDE DEF N
  <1>7. \A n \in 0 .. L : n \in N
    BY <1>1, <1>5, <1>6, Counting
  <1>8. L \in N
    BY <1>1, <1>7
  <1>9. Sound(r, B, Active)
    BY <1>3, <1>8 DEF N
  <1> QED
    BY <1>4, <1>9, UpdateSound

----------------------------------------------------------------------------
(* The states.  NothingNew: once a handler has ended, what is new is being *)
(* looked up.  GoneInv: a deleted transfer has a thread, or is the subject *)
(* of an operation, only while its slave is still to be aborted or waited  *)
(* for.                                                                    *)

NothingNew == \A t \in Transfers : mode[t] = "new" => status[t] \in Active
GoneInv ==
    \A t \in Transfers : status[t] = "gone" =>
        /\ Running(t) \/ op.t = t => Covers(todo, t, 1)
        /\ \A k \in DOMAIN todo : todo[k].t = t => Covers(todo, t, k)

KInv == TypeOK /\ SlaveInv /\ NothingNew /\ GoneInv

ActiveNow == {t \in Transfers : status[t] \in Active}

(* A handler begins with a sound record. *)
LEMMA MainRecord ==
  ASSUME TypeOK, NEW S \in SUBSET Transfers
  PROVE  Main \in Records /\ [Main EXCEPT !.selected = S] \in Records
  <1>1. /\ status \in [Transfers -> Statuses] /\ mode \in [Transfers -> Modes]
        /\ retryCount \in [Transfers -> 0 .. reconnectRetries]
        /\ offlineMode \in BOOLEAN /\ b_connected \in BOOLEAN
        /\ selected \subseteq Transfers /\ buttons \subseteq AllButtons
        /\ todo \in Seq(Ops) /\ crashed \in Lines
    BY DEF TypeOK, SlaveTypeOK, Statuses, Modes, AllButtons, Ops, Present
  <1>2. Main \in Records
    BY <1>1 DEF Main, Records
  <1>3. [Main EXCEPT !.selected = S] \in Records
    BY <1>2 DEF Records
  <1> QED
    BY <1>2, <1>3

LEMMA MainSound ==
  ASSUME KInv, MainFree, NEW S \in SUBSET Present, NEW B, ActiveNow \subseteq B
  PROVE  /\ Sound(Main, B, Active)
         /\ Sound([Main EXCEPT !.selected = S], B, Active)
  <1>1. ASSUME NEW h \in Records, h.status = status, h.mode = mode, h.todo = todo,
               h.selected \subseteq Present
        PROVE  Sound(h, B, Active)
    <2>1. Listed(h)
      BY <1>1 DEF Listed, Present
    <2>2. NewIn(h, Active)
      BY <1>1 DEF NewIn, KInv, NothingNew
    <2>3. DOMAIN h.todo = {}
      BY <1>1 DEF MainFree
    <2>4. Aborted(h)
      BY <1>1, <2>3 DEF Aborted
    <2>5. ActiveIn(h) \subseteq B
      BY <1>1 DEF ActiveIn, ActiveNow
    <2> QED
      BY <1>1, <2>1, <2>2, <2>4, <2>5 DEF Sound, Limited
  <1>2. S \subseteq Transfers /\ selected \subseteq Present
    BY DEF Present, KInv, TypeOK
  <1>3. Main \in Records /\ [Main EXCEPT !.selected = S] \in Records
    BY <1>2, MainRecord DEF KInv
  <1>4. Main.status = status /\ Main.mode = mode /\ Main.todo = todo /\ Main.selected = selected
    BY DEF Main
  <1>5. Sound(Main, B, Active)
    BY <1>1, <1>2, <1>3, <1>4
  <1> DEFINE k == [Main EXCEPT !.selected = S]
  <1>6. k.status = status /\ k.mode = mode /\ k.todo = todo /\ k.selected = S
    BY DEF Main
  <1>7. k \in Records
    BY <1>3
  <1> HIDE DEF k
  <1>8. Sound(k, B, Active)
    BY <1>1, <1>6, <1>7
  <1> QED
    BY <1>5, <1>8 DEF k

(* The switches of the network change nothing else. *)
LEMMA SwitchSound ==
  ASSUME NEW h, NEW B, NEW W, Sound(h, B, W), NEW v \in BOOLEAN
  PROVE  /\ Sound([h EXCEPT !.offlineMode = v], B, W)
         /\ Sound([h EXCEPT !.b_connected = v], B, W)
  <1>1. h \in Records
    BY DEF Sound
  <1>2. ASSUME NEW k \in Records, k.status = h.status, k.mode = h.mode, k.todo = h.todo,
               k.selected = h.selected
        PROVE  Sound(k, B, W)
    <2>1. ActiveIn(k) = ActiveIn(h)
      BY <1>2 DEF ActiveIn
    <2>2. Limited(k, B)
      BY <2>1, LimitedFewer DEF Sound
    <2> QED
      BY <1>2, <2>2 DEF Sound, Listed, NewIn, Aborted
  <1> DEFINE a == [h EXCEPT !.offlineMode = v]
             b == [h EXCEPT !.b_connected = v]
  <1>3. /\ a \in Records /\ a.status = h.status /\ a.mode = h.mode /\ a.todo = h.todo
        /\ a.selected = h.selected
    BY <1>1 DEF Records
  <1>4. /\ b \in Records /\ b.status = h.status /\ b.mode = h.mode /\ b.todo = h.todo
        /\ b.selected = h.selected
    BY <1>1 DEF Records
  <1> HIDE DEF a, b
  <1>5. Sound(a, B, W) /\ Sound(b, B, W)
    BY <1>2, <1>3, <1>4
  <1> QED
    BY <1>5 DEF a, b

LEMMA ButtonSound ==
  ASSUME NEW h, NEW B, NEW W, Sound(h, B, W), NEW S \in SUBSET AllButtons
  PROVE  Sound([h EXCEPT !.buttons = S], B, W)
  <1> DEFINE k == [h EXCEPT !.buttons = S]
  <1>1. h \in Records
    BY DEF Sound
  <1>2. k \in Records /\ Alike(h, k) /\ k.todo = h.todo
    BY <1>1, ButtonFacts
  <1> HIDE DEF k
  <1>3. Sound(k, B, W)
    BY <1>2, AlikeSound
  <1> QED
    BY <1>3 DEF k

(* A handler that comes to a sound record keeps the invariant. *)
LEMMA BecomeInv ==
  ASSUME KInv, MainFree, NEW r, NEW B, Sound(r, B, Active), Become(r), SlaveIdle,
         events' \in Seq([t : Transfers, kind : EventKinds])
  PROVE  KInv'
  <1>1. /\ r.status \in [Transfers -> Statuses] /\ r.mode \in [Transfers -> Modes]
        /\ r.retryCount \in [Transfers -> 0 .. reconnectRetries]
        /\ r.offlineMode \in BOOLEAN /\ r.b_connected \in BOOLEAN
        /\ r.selected \subseteq Transfers /\ r.buttons \subseteq AllButtons
        /\ r.todo \in Seq(Ops) /\ r.crashed \in Lines
    BY RecordFields DEF Sound
  <1>2. /\ status' = r.status /\ mode' = r.mode /\ retryCount' = r.retryCount
        /\ offlineMode' = r.offlineMode /\ b_connected' = r.b_connected
        /\ selected' \subseteq r.selected /\ buttons' \subseteq r.buttons
        /\ todo' = r.todo /\ crashed' = r.crashed
    BY DEF Become
  <1>3. UNCHANGED <<stack, pc, cmd, copyjob, op, emitting>>
    BY DEF SlaveIdle
  <1>4. SlaveInv'
    <2>1. SlaveTypeOK'
      BY <1>1, <1>2, <1>3 DEF KInv, SlaveInv, SlaveTypeOK
    <2>2. JobHasThread' /\ KilledWhenActing' /\ EmissionIsCurrent'
      BY <1>3 DEF KInv, SlaveInv, JobHasThread, KilledWhenActing, EmissionIsCurrent
    <2> QED
      BY <2>1, <2>2 DEF SlaveInv
  <1>5. selected' \subseteq Present'
    BY <1>1, <1>2 DEF Sound, Listed, Present
  <1>6. TypeOK'
    <2>1. /\ status' \in [Transfers -> {"absent", "gone", "trying", "running", "stopped", "finished"}]
          /\ mode' \in [Transfers -> {"queued", "delayed", "scheduled", "none", "new"}]
      BY <1>1, <1>2 DEF Statuses, Modes
    <2>2. /\ todo' \in Seq([t : Transfers, do : Commands \cup {"abort", "join"}])
          /\ retryCount' \in [Transfers -> 0 .. reconnectRetries]
          /\ {offlineMode, b_connected}' \subseteq BOOLEAN
          /\ buttons' \subseteq DOMAIN Radios \cup {"resume", "pause", "restart", "delete"}
      BY <1>1, <1>2 DEF Ops, AllButtons
    <2> QED
      BY <1>4, <1>5, <2>1, <2>2 DEF SlaveInv, TypeOK
  <1>7. NothingNew'
    BY <1>2 DEF Sound, NewIn, NothingNew
  <1>8. GoneInv'
    <2> SUFFICES ASSUME NEW t \in Transfers, r.status[t] = "gone"
                 PROVE  /\ Running(t)' \/ op'.t = t => Covers(r.todo, t, 1)
                        /\ \A k \in DOMAIN r.todo : r.todo[k].t = t => Covers(r.todo, t, k)
      BY <1>2 DEF GoneInv, Covers
    <2>1. /\ status[t] = "gone" \/ Covers(r.todo, t, 1)
          /\ \A k \in DOMAIN r.todo : r.todo[k].t = t => Covers(r.todo, t, k)
      BY DEF Sound, Aborted
    <2>2. ~Covers(todo, t, 1)
      BY DEF MainFree, Covers
    <2>3. status[t] = "gone" => ~Running(t) /\ op.t # t
      BY <2>2 DEF KInv, GoneInv
    <2>4. (Running(t)' <=> Running(t)) /\ op' = op
      BY <1>3 DEF Running
    <2> QED
      BY <2>1, <2>3, <2>4
  <1> QED
    BY <1>4, <1>6, <1>7, <1>8 DEF KInv

(* Operations at the head of the list are taken off one by one. *)
LEMMA TailCovers ==
  ASSUME NEW q \in Seq(Ops), q # <<>>, NEW t
  PROVE  /\ Head(q) \in Ops /\ Tail(q) \in Seq(Ops) /\ Head(q) = q[1] /\ 1 \in DOMAIN q
         /\ \A k \in DOMAIN Tail(q) : k + 1 \in DOMAIN q /\ Tail(q)[k] = q[k + 1]
         /\ \A k \in Nat \ {0} : Covers(q, t, k + 1) => Covers(Tail(q), t, k)
         /\ \A k \in Nat : Covers(q, t, k) /\ ~(Head(q).t = t /\ Head(q).do \in {"abort", "join"})
                               => Covers(q, t, 2)
  <1>1. /\ Head(q) \in Ops /\ Tail(q) \in Seq(Ops) /\ Head(q) = q[1]
        /\ Len(q) \in Nat \ {0} /\ DOMAIN q = 1 .. Len(q)
    OBVIOUS
  <1>2. DOMAIN Tail(q) = 1 .. Len(q) - 1 /\ \A k \in 1 .. Len(q) - 1 : Tail(q)[k] = q[k + 1]
    OBVIOUS
  <1> DEFINE r == Tail(q)
  <1>3. DOMAIN r = 1 .. Len(q) - 1 /\ \A k \in 1 .. Len(q) - 1 : r[k] = q[k + 1]
    BY <1>2
  <1> HIDE DEF r
  <1>4. \A k \in DOMAIN r : k + 1 \in DOMAIN q /\ r[k] = q[k + 1]
    BY <1>1, <1>3
  <1>5. ASSUME NEW k \in Nat \ {0}, Covers(q, t, k + 1) PROVE Covers(r, t, k)
    <2>1. PICK i \in DOMAIN q : i >= k + 1 /\ q[i].t = t /\ q[i].do \in {"abort", "join"}
      BY <1>5 DEF Covers
    <2>2. i - 1 \in DOMAIN r /\ i - 1 >= k /\ r[i - 1] = q[i]
      BY <1>1, <1>3, <2>1
    <2> QED
      BY <2>1, <2>2 DEF Covers
  <1>6. ASSUME NEW k \in Nat, Covers(q, t, k),
               ~(q[1].t = t /\ q[1].do \in {"abort", "join"})
        PROVE  Covers(q, t, 2)
    <2>1. PICK i \in DOMAIN q : i >= k /\ q[i].t = t /\ q[i].do \in {"abort", "join"}
      BY <1>6 DEF Covers
    <2>2. i >= 2
      BY <1>1, <1>6, <2>1
    <2> QED
      BY <2>1, <2>2 DEF Covers
  <1> QED
    BY <1>1, <1>4, <1>5, <1>6 DEF r

(* The invariant is kept by a step that takes off the head of the list: of  *)
(* another transfer nothing is started, and the one it is about has then no *)
(* thread, or was to be aborted later in any case.                         *)
LEMMA TailGone ==
  ASSUME TypeOK, GoneInv, todo # <<>>, todo' = Tail(todo), status' = status,
         \A u \in Transfers :
             u # Head(todo).t /\ (Running(u)' \/ op'.t = u) => Running(u) \/ op.t = u,
         \/ Head(todo).do \in Commands
         \/ pc'[Head(todo).t] = "none" /\ op'.t # Head(todo).t
  PROVE  GoneInv'
  <1> DEFINE q == todo
  <1>1. q \in Seq(Ops) /\ q # <<>>
    BY DEF TypeOK, Ops
  <1> SUFFICES ASSUME NEW t \in Transfers, status[t] = "gone"
               PROVE  /\ Running(t)' \/ op'.t = t => Covers(Tail(q), t, 1)
                      /\ \A k \in DOMAIN Tail(q) : Tail(q)[k].t = t => Covers(Tail(q), t, k)
    BY DEF GoneInv, Covers
  <1>2. /\ Running(t) \/ op.t = t => Covers(q, t, 1)
        /\ \A k \in DOMAIN q : q[k].t = t => Covers(q, t, k)
    BY DEF GoneInv
  <1>3. /\ Head(q) = q[1] /\ 1 \in DOMAIN q
        /\ \A k \in DOMAIN Tail(q) : k + 1 \in DOMAIN q /\ Tail(q)[k] = q[k + 1]
        /\ \A k \in Nat \ {0} : Covers(q, t, k + 1) => Covers(Tail(q), t, k)
        /\ \A k \in Nat : Covers(q, t, k) /\ ~(Head(q).t = t /\ Head(q).do \in {"abort", "join"})
                              => Covers(q, t, 2)
    BY <1>1, TailCovers
  <1>4. DOMAIN Tail(q) \subseteq Nat \ {0}
    BY <1>1
  <1>5. \A k \in DOMAIN Tail(q) : Tail(q)[k].t = t => Covers(Tail(q), t, k)
    BY <1>2, <1>3, <1>4
  <1>6. Covers(q, t, 2) => Covers(Tail(q), t, 1)
    <2>1. Covers(q, t, 1 + 1) => Covers(Tail(q), t, 1)
      BY <1>3
    <2>2. 1 + 1 = 2
      OBVIOUS
    <2> QED
      BY <2>1, <2>2
  <1>7. ASSUME Running(t)' \/ op'.t = t PROVE Covers(Tail(q), t, 1)
    <2>1. CASE t = Head(q).t
      <3>1. Head(q).do \in Commands
        BY <1>7, <2>1 DEF Running
      <3>2. Head(q).do \notin {"abort", "join"}
        BY <3>1 DEF Commands, Retrieving, Stopping, Leaving
      <3>3. Covers(q, t, 1)
        BY <1>2, <1>3, <2>1
      <3> QED
        BY <1>3, <1>6, <3>2, <3>3
    <2>2. CASE t # Head(q).t
      <3>1. Covers(q, t, 1)
        BY <1>2, <1>7, <2>2
      <3> QED
        BY <1>3, <1>6, <2>2, <3>1
    <2> QED
      BY <2>1, <2>2
  <1> QED
    BY <1>5, <1>7

(* What is left to do is as the types say. *)
LEMMA TodoTypes ==
  ASSUME TypeOK, SlaveInv', todo' \in Seq(Ops),
         UNCHANGED <<status, mode, retryCount, offlineMode, b_connected, window>>
  PROVE  TypeOK'
  <1>1. SlaveTypeOK'
    BY DEF SlaveInv
  <1> QED
    BY <1>1 DEF TypeOK, Ops, window, Present

LEMMA NextOpInv ==
  ASSUME KInv, NextOp
  PROVE  SlaveInv' /\ KInv'
  <1> DEFINE o == Head(todo)
  <1>1. todo \in Seq(Ops) /\ todo # <<>>
    BY DEF KInv, TypeOK, Ops, NextOp
  <1>2. o \in Ops /\ Tail(todo) \in Seq(Ops)
    BY <1>1
  <1>3. o.t \in Transfers /\ o.do \in Commands
    BY <1>2 DEF Ops, NextOp
  <1>4. OpStart(o.t, o.do) /\ todo' = Tail(todo)
        /\ UNCHANGED <<status, mode, retryCount, offlineMode, b_connected, window>>
    BY DEF NextOp
  <1>5. SlaveInv'
    BY <1>3, <1>4, MainInv DEF KInv
  <1>6. TypeOK'
    BY <1>2, <1>4, <1>5, TodoTypes DEF KInv
  <1>7. \A u \in Transfers : u # o.t => (Running(u)' \/ op'.t = u => Running(u) \/ op.t = u)
    <2>1. pc \in [Transfers -> PCs] /\ op' = [t |-> o.t, cmd |-> o.do]
          /\ pc' = [pc EXCEPT ![o.t] = IF Running(o.t) THEN @ ELSE "check"]
      BY <1>4 DEF OpStart, KInv, SlaveInv, SlaveTypeOK
    <2> QED
      BY <1>3, <2>1 DEF Running
  <1>8. GoneInv'
    BY <1>1, <1>3, <1>4, <1>7, TailGone DEF KInv
  <1>9. NothingNew'
    BY <1>4 DEF KInv, NothingNew
  <1> QED
    BY <1>5, <1>6, <1>8, <1>9 DEF KInv

LEMMA JoinInv ==
  ASSUME KInv, Join
  PROVE  KInv'
  <1> DEFINE o == Head(todo)
  <1>1. todo \in Seq(Ops) /\ todo # <<>>
    BY DEF KInv, TypeOK, Ops, Join
  <1>2. o \in Ops /\ Tail(todo) \in Seq(Ops)
    BY <1>1
  <1>3. /\ todo' = Tail(todo) /\ ~Running(o.t) /\ op = NoOp
        /\ UNCHANGED <<stack, pc, cmd, copyjob, events, op, emitting, crashed>>
        /\ UNCHANGED <<status, mode, retryCount, offlineMode, b_connected, window>>
    BY DEF Join, svars, MainIdle
  <1>4. SlaveInv'
    BY <1>3 DEF KInv, SlaveInv, SlaveTypeOK, JobHasThread, KilledWhenActing, EmissionIsCurrent
  <1>5. TypeOK'
    BY <1>2, <1>3, <1>4, TodoTypes DEF KInv
  <1>6. pc'[o.t] = "none" /\ op'.t # o.t
    BY <1>2, <1>3, SlaveAssumption DEF Ops, NoOp, Running
  <1>7. \A u \in Transfers : Running(u)' \/ op'.t = u => Running(u) \/ op.t = u
    BY <1>3 DEF Running
  <1>8. GoneInv'
    BY <1>1, <1>3, <1>6, <1>7, TailGone DEF KInv
  <1>9. NothingNew'
    BY <1>3 DEF KInv, NothingNew
  <1> QED
    BY <1>4, <1>5, <1>8, <1>9 DEF KInv

(* Where a running thread is to be aborted, it is killed and waited for. *)
LEMMA AbortCovers ==
  ASSUME NEW q \in Seq(Ops), q # <<>>, NEW t \in Transfers, Head(q).t = t, NEW u,
         \A k \in DOMAIN q : q[k].t = u => Covers(q, u, k)
  PROVE  LET r == <<[t |-> t, do |-> "KILL"], [t |-> t, do |-> "join"]>> \o Tail(q)
         IN  /\ r \in Seq(Ops)
             /\ Covers(q, u, 1) => Covers(r, u, 1)
             /\ \A k \in DOMAIN r : r[k].t = u => Covers(r, u, k)
  <1> DEFINE a == [t |-> t, do |-> "KILL"]
             b == [t |-> t, do |-> "join"]
             r == <<a, b>> \o Tail(q)
  <1>1. a \in Ops /\ b \in Ops /\ a.t = t /\ b.t = t /\ b.do = "join"
    BY DEF Ops, Commands, Leaving
  <1> HIDE DEF a, b
  <1>2. Tail(q) \in Seq(Ops) /\ Len(Tail(q)) = Len(q) - 1 /\ Len(q) \in Nat \ {0}
        /\ DOMAIN q = 1 .. Len(q) /\ q[1].t = t
        /\ \A k \in 1 .. Len(q) - 1 : Tail(q)[k] = q[k + 1]
    OBVIOUS
  <1>3. <<a, b>> \in Seq(Ops) /\ Len(<<a, b>>) = 2
    BY <1>1
  <1>4. r \in Seq(Ops)
    BY <1>2, <1>3
  <1>5. DOMAIN r = 1 .. Len(q) + 1 /\ r[1] = a /\ r[2] = b
        /\ \A k \in 3 .. Len(q) + 1 : r[k] = Tail(q)[k - 2]
    BY <1>2, <1>3
  <1>6. \A k \in 3 .. Len(q) + 1 : r[k] = q[k - 1]
    BY <1>2, <1>5
  <1> HIDE DEF r
  <1>7. \A k \in DOMAIN q : k # 1 => k + 1 \in DOMAIN r /\ r[k + 1] = q[k]
    BY <1>2, <1>5, <1>6
  <1>8. u = t => \A k \in {1, 2} : Covers(r, u, k)
    BY <1>1, <1>2, <1>5 DEF Covers
  <1>9. ASSUME NEW k \in Nat \ {0}, Covers(q, u, k), u # t \/ k # 1 PROVE Covers(r, u, k + 1)
    <2>1. PICK i \in DOMAIN q : i >= k /\ q[i].t = u /\ q[i].do \in {"abort", "join"}
      BY <1>9 DEF Covers
    <2>2. i # 1
      BY <1>2, <1>9, <2>1
    <2>3. i + 1 \in DOMAIN r /\ r[i + 1] = q[i] /\ i + 1 >= k + 1
      BY <1>2, <1>7, <2>1, <2>2
    <2> QED
      BY <2>1, <2>3 DEF Covers
  <1>10. ASSUME Covers(q, u, 1) PROVE Covers(r, u, 1)
    <2>1. CASE u = t
      BY <1>8, <2>1
    <2>2. CASE u # t
      <3>1. Covers(r, u, 1 + 1)
        BY <1>9, <1>10, <2>2
      <3>2. \A i \in DOMAIN r : i >= 1 + 1 => i >= 1
        BY <1>2, <1>5
      <3> QED
        BY <3>1, <3>2 DEF Covers
    <2> QED
      BY <2>1, <2>2
  <1>11. ASSUME NEW k \in DOMAIN r, r[k].t = u PROVE Covers(r, u, k)
    <2>1. CASE k \in {1, 2}
      BY <1>1, <1>5, <1>8, <1>11, <2>1
    <2>2. CASE k \notin {1, 2}
      <3>1. k \in 3 .. Len(q) + 1 /\ k - 1 \in DOMAIN q /\ k - 1 \in Nat \ {0} /\ k - 1 # 1
        BY <1>2, <1>5, <2>2
      <3>2. r[k] = q[k - 1]
        BY <1>6, <3>1
      <3>3. Covers(q, u, k - 1)
        BY <1>11, <3>1, <3>2
      <3>4. Covers(r, u, (k - 1) + 1)
        BY <1>9, <3>1, <3>3
      <3>5. (k - 1) + 1 = k
        BY <3>1
      <3> QED
        BY <3>4, <3>5
    <2> QED
      BY <2>1, <2>2
  <1> QED
    BY <1>4, <1>10, <1>11 DEF r, a, b

LEMMA AbortInv ==
  ASSUME KInv, Abort
  PROVE  KInv'
  <1> DEFINE o == Head(todo)
             r == <<[t |-> o.t, do |-> "KILL"], [t |-> o.t, do |-> "join"]>> \o Tail(todo)
  <1>1. todo \in Seq(Ops) /\ todo # <<>>
    BY DEF KInv, TypeOK, Ops, Abort
  <1>2. o \in Ops /\ o.t \in Transfers /\ Tail(todo) \in Seq(Ops)
    <2>1. o \in Ops /\ Tail(todo) \in Seq(Ops)
      BY <1>1
    <2> QED
      BY <2>1 DEF Ops
  <1>3. /\ todo' = IF Running(o.t) THEN r ELSE Tail(todo)
        /\ op = NoOp
        /\ UNCHANGED <<stack, pc, cmd, copyjob, events, op, emitting, crashed>>
        /\ UNCHANGED <<status, mode, retryCount, offlineMode, b_connected, window>>
    BY DEF Abort, svars, MainIdle
  <1>4. SlaveInv'
    BY <1>3 DEF KInv, SlaveInv, SlaveTypeOK, JobHasThread, KilledWhenActing, EmissionIsCurrent
  <1>5. \A u \in Transfers : Running(u)' \/ op'.t = u => Running(u) \/ op.t = u
    BY <1>3 DEF Running
  <1>6. NothingNew'
    BY <1>3 DEF KInv, NothingNew
  <1>7. CASE Running(o.t)
    <2>1. todo' = r /\ status' = status
      BY <1>3, <1>7
    <2>2. ASSUME NEW u \in Transfers, status[u] = "gone"
          PROVE  /\ r \in Seq(Ops)
                 /\ Covers(todo, u, 1) => Covers(r, u, 1)
                 /\ \A k \in DOMAIN r : r[k].t = u => Covers(r, u, k)
      <3>1. \A k \in DOMAIN todo : todo[k].t = u => Covers(todo, u, k)
        BY <2>2 DEF KInv, GoneInv
      <3> QED
        BY <1>1, <1>2, <3>1, AbortCovers
    <2>3. r \in Seq(Ops)
      <3>1. [t |-> o.t, do |-> "KILL"] \in Ops /\ [t |-> o.t, do |-> "join"] \in Ops
        BY <1>2 DEF Ops, Commands, Leaving
      <3> QED
        BY <1>2, <3>1
    <2> HIDE DEF r
    <2>4. GoneInv'
      <3> SUFFICES ASSUME NEW u \in Transfers, status[u] = "gone"
                   PROVE  /\ Running(u)' \/ op'.t = u => Covers(r, u, 1)
                          /\ \A k \in DOMAIN r : r[k].t = u => Covers(r, u, k)
        BY <2>1 DEF GoneInv, Covers
      <3>1. Running(u) \/ op.t = u => Covers(todo, u, 1)
        BY DEF KInv, GoneInv
      <3> QED
        BY <1>5, <2>2, <3>1
    <2>5. TypeOK'
      BY <1>3, <1>4, <2>1, <2>3, TodoTypes DEF KInv
    <2> QED
      BY <1>4, <1>6, <2>4, <2>5 DEF KInv
  <1>8. CASE ~Running(o.t)
    <2>1. todo' = Tail(todo)
      BY <1>3, <1>8
    <2>2. pc'[o.t] = "none" /\ op'.t # o.t
      BY <1>2, <1>3, <1>8, SlaveAssumption DEF NoOp, Running
    <2>3. GoneInv'
      BY <1>1, <1>3, <1>5, <2>1, <2>2, TailGone DEF KInv
    <2>4. TypeOK'
      BY <1>2, <1>3, <1>4, <2>1, TodoTypes DEF KInv
    <2> QED
      BY <1>4, <1>6, <2>3, <2>4 DEF KInv
  <1> QED
    BY <1>7, <1>8

(* The slaves and the signals of their jobs: they leave the main thread's   *)
(* variables alone, and start no thread.                                   *)
LEMMA SlaveStepInv ==
  ASSUME KInv, NEW t \in Transfers,
         \/ JobConnected(t) \/ JobEnds(t) \/ JobSucceeded(t) \/ JobFailed(t)
         \/ PushStep(t) \/ SlaveStep(t)
  PROVE  KInv' /\ status' = status
  <1>1. UNCHANGED kvars
    BY DEF JobConnected, JobEnds, JobSucceeded, JobFailed, PushStep, SlaveStep
  <1>2. SlaveInv
    BY DEF KInv
  <1>3. \A failure : FailureAnswer(t, failure) \in Results
    BY DEF FailureAnswer, Results
  <1>4. "SLV_FINISHED" \in Results
    BY DEF Results
  <1>5. SlaveInv'
    <2>1. CASE JobConnected(t)
      <3>1. SlotTotalSize(t, TRUE) \/ SlotTotalSize(t, FALSE)
        BY <2>1 DEF JobConnected, SlotTotalSize
      <3> QED
        BY <1>2, <3>1, MainInv
    <2>2. CASE JobEnds(t)
      BY <1>2, <2>2, MainInv DEF JobEnds
    <2>3. CASE JobSucceeded(t)
      BY <1>2, <1>4, <2>3, MainInv DEF JobSucceeded
    <2>4. CASE JobFailed(t)
      BY <1>2, <1>3, <2>4, MainInv DEF JobFailed
    <2>5. CASE PushStep(t)
      BY <1>2, <2>5, MainInv DEF PushStep
    <2>6. CASE SlaveStep(t)
      BY <1>2, <2>6, WorkerInv DEF SlaveStep
    <2> QED
      BY <2>1, <2>2, <2>3, <2>4, <2>5, <2>6
  <1>6. TypeOK'
    BY <1>1, <1>5 DEF KInv, TypeOK, SlaveInv, kvars, window, Present
  <1>7. NothingNew'
    BY <1>1 DEF KInv, NothingNew, kvars
  <1>8. /\ pc \in [Transfers -> PCs]
        /\ op' = op \/ op' = NoOp
        /\ \/ pc' = pc
           \/ \E p \in PCs : pc' = [pc EXCEPT ![t] = p] /\ pc[t] # "none"
           \/ pc' = [pc EXCEPT ![t] = IF @ = "wait" THEN "fetch" ELSE @]
    <2>1. pc \in [Transfers -> PCs]
      BY DEF KInv, SlaveInv, SlaveTypeOK
    <2>2. CASE JobConnected(t) \/ JobEnds(t) \/ JobSucceeded(t) \/ JobFailed(t)
      BY <2>1, <2>2 DEF JobConnected, JobEnds, JobSucceeded, JobFailed, SlotTotalSize, EmitResult,
                        SlotResult
    <2>3. CASE PushStep(t)
      BY <2>1, <2>3 DEF PushStep, OpPush
    <2>4. CASE SlaveStep(t)
      BY <2>1, <2>4 DEF SlaveStep, Worker, CheckPending, Sleep, SpuriousWake, FetchCmd, Dispatch,
                        KillJob, Retrieve, AnswerStop, LeaveLoop, Exit, PCs
    <2> QED
      BY <2>1, <2>2, <2>3, <2>4
  <1>9. ASSUME NEW u \in Transfers, Running(u)' \/ op'.t = u PROVE Running(u) \/ op.t = u
    <2>1. NoOp.t # u
      BY SlaveAssumption DEF NoOp
    <2>2. Running(u)' => Running(u)
      BY <1>8 DEF Running
    <2> QED
      BY <1>8, <1>9, <2>1, <2>2
  <1>10. GoneInv'
    BY <1>1, <1>9 DEF KInv, GoneInv, kvars, Covers
  <1> QED
    BY <1>1, <1>5, <1>6, <1>7, <1>10 DEF KInv, kvars

(* The window the user acts on, and what he presses in it. *)
LEMMA SelectingSound ==
  ASSUME KInv, MainFree, NEW S \in SUBSET Present, NEW B, ActiveNow \subseteq B
  PROVE  Sound(Selecting(S), B, Active)
  BY MainSound, UpdateSound DEF Selecting

LEMMA WindowSound ==
  ASSUME KInv, MainFree, NEW b, NEW g \in Windows(b), NEW B, ActiveNow \subseteq B
  PROVE  Sound(g, B, Active)
  <1>1. g = Main \/ \E S \in SUBSET Present : g = Selecting(S)
    BY DEF Windows
  <1>2. {} \in SUBSET Present
    OBVIOUS
  <1>3. Sound(Main, B, Active)
    BY <1>2, MainSound
  <1> QED
    BY <1>1, <1>3, SelectingSound

LEMMA PressedSound ==
  ASSUME NEW g, NEW B, Sound(g, B, Active), NEW b \in AllButtons
  PROVE  Sound(Pressed(g, b), B, Active)
  <1> DEFINE S == (g.buttons \cup DOMAIN Radios) \ {b}
  <1>1. S \in SUBSET AllButtons
    BY RecordFields DEF AllButtons, Sound
  <1>2. Pressed(g, b) = [g EXCEPT !.buttons = S]
    BY DEF Pressed
  <1> HIDE DEF S
  <1> QED
    BY <1>1, <1>2, ButtonSound

LEMMA ButtonNames ==
  /\ "resume" \in AllButtons /\ "pause" \in AllButtons /\ "restart" \in AllButtons
  /\ "delete" \in AllButtons /\ "queue" \in AllButtons /\ "delay" \in AllButtons
  /\ "timer" \in AllButtons
  BY DEF AllButtons, Radios

(* Every handler but that of Resume and of new transfers keeps what is      *)
(* active within what was, or within the limit.                            *)
LEMMA WindowHandlers ==
  ASSUME KInv, NEW b, NEW g \in Windows(b),
         \/ PauseCurrent(g) \/ RestartCurrent(g) \/ DeleteCurrent(g)
         \/ QueueCurrent(g) \/ DelayCurrent(g) \/ TimerCurrent(g)
  PROVE  \E r : Sound(r, ActiveNow, Active) /\ Handler(r)
  <1>1. MainFree
    BY DEF PauseCurrent, RestartCurrent, DeleteCurrent, QueueCurrent, DelayCurrent, TimerCurrent,
           Handler
  <1>2. Sound(g, ActiveNow, Active)
    BY <1>1, WindowSound
  <1>3. CASE PauseCurrent(g)
    <2>1. Sound(EachSelected(g, "pause", {}), ActiveNow, Active)
      BY <1>2, ButtonNames, EachSelectedSound
    <2> QED
      BY <1>3, <2>1, UpdateSound DEF PauseCurrent
  <1>4. CASE RestartCurrent(g)
    <2>1. Sound(EachSelected(g, "restart", {}), ActiveNow, Active)
      BY <1>2, ButtonNames, EachSelectedSound
    <2> QED
      BY <1>4, <2>1, UpdateSound DEF RestartCurrent
  <1>5. CASE DeleteCurrent(g)
    <2> DEFINE S == g.buttons \ {"delete", "pause"}
               a == [g EXCEPT !.buttons = S]
               r == checkQueue(EachSelected(a, "delete", {}))
    <2>1. Handler(r)
      BY <1>5 DEF DeleteCurrent
    <2>2. S \in SUBSET AllButtons
      BY <1>2, RecordFields DEF Sound
    <2> HIDE DEF S
    <2>3. Sound(a, ActiveNow, Active)
      BY <1>2, <2>2, ButtonSound
    <2> HIDE DEF a
    <2>4. Sound(EachSelected(a, "delete", {}), ActiveNow, Active)
      BY <2>3, ButtonNames, EachSelectedSound
    <2>5. Sound(r, ActiveNow, Active)
      BY <2>4, CheckQueueFacts
    <2> QED
      BY <2>1, <2>5
  <1>6. CASE QueueCurrent(g)
    <2>1. Sound(Pressed(g, "queue"), ActiveNow, Active)
      BY <1>2, ButtonNames, PressedSound
    <2>2. Sound(EachSelected(Pressed(g, "queue"), "queue", {}), ActiveNow, Active)
      BY <2>1, ButtonNames, EachSelectedSound
    <2> QED
      BY <1>6, <2>2, UpdateSound DEF QueueCurrent
  <1>7. CASE DelayCurrent(g)
    <2>1. Sound(Pressed(g, "delay"), ActiveNow, Active)
      BY <1>2, ButtonNames, PressedSound
    <2>2. Sound(EachSelected(Pressed(g, "delay"), "delay", {}), ActiveNow, Active)
      BY <2>1, ButtonNames, EachSelectedSound
    <2> QED
      BY <1>7, <2>2 DEF DelayCurrent
  <1>8. CASE TimerCurrent(g)
    <2>1. Sound(Pressed(g, "timer"), ActiveNow, Active)
      BY <1>2, ButtonNames, PressedSound
    <2>2. PICK due : Handler(EachSelected(Pressed(g, "timer"), "timer", due))
      BY <1>8 DEF TimerCurrent
    <2>3. Sound(EachSelected(Pressed(g, "timer"), "timer", due), ActiveNow, Active)
      BY <2>1, ButtonNames, EachSelectedSound
    <2> QED
      BY <2>2, <2>3
  <1> QED
    BY <1>3, <1>4, <1>5, <1>6, <1>7, <1>8

LEMMA OtherHandlers ==
  ASSUME KInv,
         \/ \E S \in SUBSET Present : Select(S)
         \/ TransferTimeout \/ ToggleOfflineMode \/ CheckConnection
  PROVE  \E r : Sound(r, ActiveNow, Active) /\ Handler(r)
  <1>1. MainFree
    BY DEF Select, TransferTimeout, ToggleOfflineMode, CheckConnection, Handler
  <1>2. {} \in SUBSET Present
    OBVIOUS
  <1>3. Sound(Main, ActiveNow, Active)
    BY <1>1, <1>2, MainSound
  <1>4. ASSUME NEW S \in SUBSET Present, Select(S)
        PROVE  \E r : Sound(r, ActiveNow, Active) /\ Handler(r)
    <2>1. Sound(Selecting(S), ActiveNow, Active)
      BY <1>1, SelectingSound
    <2> QED
      BY <1>4, <2>1 DEF Select
  <1>5. CASE TransferTimeout
    <2>1. PICK due : Handler(slotTransferTimeout(Main, due))
      BY <1>5 DEF TransferTimeout
    <2>2. Sound(slotTransferTimeout(Main, due), ActiveNow, Active)
      BY <1>3, TimeoutSound
    <2> QED
      BY <2>1, <2>2
  <1>6. CASE ToggleOfflineMode
    <2> DEFINE v == ~Main.offlineMode
               g == [Main EXCEPT !.offlineMode = v]
               a == IF Offline(g) THEN stopAll(g) ELSE g
               r == checkQueue(slotUpdateActions(a))
    <2>1. Handler(r)
      BY <1>6 DEF ToggleOfflineMode
    <2>2. v \in BOOLEAN
      OBVIOUS
    <2> HIDE DEF v
    <2>3. Sound(g, ActiveNow, Active)
      BY <1>3, <2>2, SwitchSound
    <2> HIDE DEF g
    <2>4. Sound(a, ActiveNow, Active)
      BY <2>3, StopAllSound
    <2> HIDE DEF a
    <2>5. Sound(slotUpdateActions(a), ActiveNow, Active)
      BY <2>4, UpdateSound
    <2>6. Sound(r, ActiveNow, Active)
      BY <2>5, CheckQueueFacts
    <2> QED
      BY <2>1, <2>6
  <1>7. CASE CheckConnection
    <2> DEFINE v == ~Main.b_connected
               g == [Main EXCEPT !.b_connected = v]
               r == IF g.b_connected THEN checkQueue(g) ELSE stopAll(g)
    <2>1. Handler(r)
      BY <1>7 DEF CheckConnection
    <2>2. v \in BOOLEAN
      OBVIOUS
    <2> HIDE DEF v
    <2>3. Sound(g, ActiveNow, Active)
      BY <1>3, <2>2, SwitchSound
    <2> HIDE DEF g
    <2>4. Sound(checkQueue(g), ActiveNow, Active) /\ Sound(stopAll(g), ActiveNow, Active)
      BY <2>3, CheckQueueFacts, StopAllSound
    <2> QED
      BY <2>1, <2>4
  <1> QED
    BY <1>4, <1>5, <1>6, <1>7

LEMMA ResumeHandler ==
  ASSUME KInv, NEW g \in Windows("resume"), ResumeCurrent(g)
  PROVE  \E r : Sound(r, Transfers, Active) /\ Handler(r)
  <1>1. MainFree
    BY DEF ResumeCurrent, Handler
  <1>2. Sound(g, Transfers, Active)
    BY <1>1, WindowSound DEF ActiveNow
  <1>3. Sound(EachSelected(g, "resume", {}), Transfers, Active)
    BY <1>2, ButtonNames, EachSelectedSound
  <1> QED
    BY <1>3, UpdateSound DEF ResumeCurrent

(* New transfers: the record they come in, then checkQueue. *)
Added(S) ==
    [status |-> [t \in Transfers |-> IF t \in S THEN "stopped" ELSE status[t]],
     mode |-> [t \in Transfers |-> IF t \in S THEN "new" ELSE mode[t]],
     retryCount |-> retryCount, offlineMode |-> offlineMode, b_connected |-> b_connected,
     selected |-> {}, buttons |-> {}, todo |-> todo, crashed |-> crashed]

LEMMA AddedSound ==
  ASSUME KInv, MainFree, NEW S \in SUBSET Transfers
  PROVE  NewSound(Added(S))
  <1> DEFINE st == [t \in Transfers |-> IF t \in S THEN "stopped" ELSE status[t]]
             md == [t \in Transfers |-> IF t \in S THEN "new" ELSE mode[t]]
             h == Added(S)
  <1>1. /\ status \in [Transfers -> Statuses] /\ mode \in [Transfers -> Modes]
        /\ retryCount \in [Transfers -> 0 .. reconnectRetries]
        /\ offlineMode \in BOOLEAN /\ b_connected \in BOOLEAN
        /\ todo \in Seq(Ops) /\ crashed \in Lines
    BY DEF KInv, TypeOK, SlaveTypeOK, Statuses, Modes, Ops
  <1>2. st \in [Transfers -> Statuses] /\ md \in [Transfers -> Modes]
    BY <1>1 DEF Statuses, Modes
  <1>3. h.status = st /\ h.mode = md /\ h.selected = {} /\ h.todo = todo
    BY DEF Added
  <1>4. h = [status |-> st, mode |-> md, retryCount |-> retryCount, offlineMode |-> offlineMode,
             b_connected |-> b_connected, selected |-> {}, buttons |-> {}, todo |-> todo,
             crashed |-> crashed]
    BY DEF Added
  <1>5. ASSUME NEW t \in Transfers
        PROVE  /\ st[t] = "gone" => status[t] = "gone"
               /\ md[t] = "new" => st[t] = "stopped" \/ (st[t] = status[t] /\ mode[t] = "new")
    <2>1. st[t] = IF t \in S THEN "stopped" ELSE status[t]
      OBVIOUS
    <2>2. md[t] = IF t \in S THEN "new" ELSE mode[t]
      OBVIOUS
    <2> HIDE DEF st, md
    <2> QED
      BY <2>1, <2>2
  <1> HIDE DEF st, md, h
  <1>6. h \in Records
    BY <1>1, <1>2, <1>4 DEF Records
  <1>7. Listed(h)
    BY <1>3 DEF Listed
  <1>8. NewIn(h, Active \cup {"stopped"})
    BY <1>3, <1>5 DEF NewIn, KInv, NothingNew
  <1>9. Aborted(h)
    <2>1. DOMAIN todo = {}
      BY DEF MainFree
    <2> QED
      BY <1>3, <1>5, <2>1 DEF Aborted
  <1> QED
    BY <1>6, <1>7, <1>8, <1>9, AllLimited DEF NewSound, Sound, h

LEMMA AddHandler ==
  ASSUME NEW S \in SUBSET Transfers, AddTransfers(S)
  PROVE  Handler(checkQueue(Added(S))) /\ \A t \in S : status[t] = "absent"
  <1> DEFINE h == [Main EXCEPT
                     !.status = [t \in Transfers |-> IF t \in S THEN "stopped" ELSE @[t]],
                     !.mode = [t \in Transfers |-> IF t \in S THEN "new" ELSE @[t]],
                     !.selected = {}, !.buttons = {}]
  <1> DEFINE st == [t \in Transfers |-> IF t \in S THEN "stopped" ELSE status[t]]
             md == [t \in Transfers |-> IF t \in S THEN "new" ELSE mode[t]]
             k == [Main EXCEPT !.status = st, !.mode = md, !.selected = {}, !.buttons = {}]
  <1>1. Main.status = status /\ Main.mode = mode
    BY DEF Main
  <1>2. h = k
    BY <1>1
  <1>3. Added(S) = [status |-> st, mode |-> md, retryCount |-> retryCount,
                    offlineMode |-> offlineMode, b_connected |-> b_connected,
                    selected |-> {}, buttons |-> {}, todo |-> todo, crashed |-> crashed]
    BY DEF Added
  <1>4. Handler(checkQueue(h)) /\ \A t \in S : status[t] = "absent"
    BY DEF AddTransfers
  <1> HIDE DEF h, st, md
  <1>5. k = Added(S)
    <2> DEFINE R(s, m, se, bu) ==
                 [status |-> s, mode |-> m, retryCount |-> retryCount,
                  offlineMode |-> offlineMode, b_connected |-> b_connected,
                  selected |-> se, buttons |-> bu, todo |-> todo, crashed |-> crashed]
    <2>1. Main = R(status, mode, selected, buttons)
      BY DEF Main
    <2>2. [R(status, mode, selected, buttons) EXCEPT !.status = st] = R(st, mode, selected, buttons)
      OBVIOUS
    <2>3. [R(st, mode, selected, buttons) EXCEPT !.mode = md] = R(st, md, selected, buttons)
      OBVIOUS
    <2>4. [R(st, md, selected, buttons) EXCEPT !.selected = {}] = R(st, md, {}, buttons)
      OBVIOUS
    <2>5. [R(st, md, {}, buttons) EXCEPT !.buttons = {}] = R(st, md, {}, {})
      OBVIOUS
    <2>6. k = [[[[Main EXCEPT !.status = st] EXCEPT !.mode = md] EXCEPT !.selected = {}]
                 EXCEPT !.buttons = {}]
      OBVIOUS
    <2>7. Added(S) = R(st, md, {}, {})
      BY <1>3
    <2> HIDE DEF R, k
    <2> QED
      BY <2>1, <2>2, <2>3, <2>4, <2>5, <2>6, <2>7
  <1> QED
    BY <1>2, <1>4, <1>5

LEMMA UserHandlers ==
  ASSUME KInv, User \/ TransferTimeout
  PROVE  \/ \E r : Sound(r, ActiveNow, Active) /\ Handler(r)
         \/ \E S \in SUBSET Transfers : AddTransfers(S)
         \/ \E g \in Windows("resume") : ResumeCurrent(g)
  <1>1. CASE TransferTimeout
    BY <1>1, OtherHandlers
  <1>2. CASE User
    <2>1. ASSUME NEW b, NEW g \in Windows(b),
                 \/ PauseCurrent(g) \/ RestartCurrent(g) \/ DeleteCurrent(g)
                 \/ QueueCurrent(g) \/ DelayCurrent(g) \/ TimerCurrent(g)
          PROVE  \E r : Sound(r, ActiveNow, Active) /\ Handler(r)
      BY <2>1, WindowHandlers
    <2>2. ASSUME \/ \E S \in SUBSET Present : Select(S)
                 \/ ToggleOfflineMode \/ CheckConnection
          PROVE  \E r : Sound(r, ActiveNow, Active) /\ Handler(r)
      BY <2>2, OtherHandlers
    <2> QED
      BY <1>2, <2>1, <2>2 DEF User
  <1> QED
    BY <1>1, <1>2

LEMMA UserInv ==
  ASSUME KInv, User \/ TransferTimeout
  PROVE  KInv'
  <1>1. ASSUME NEW r, NEW B, Sound(r, B, Active), Handler(r) PROVE KInv'
    <2>1. events' \in Seq([t : Transfers, kind : EventKinds])
      BY <1>1 DEF Handler, KInv, SlaveInv, SlaveTypeOK
    <2> QED
      BY <1>1, <2>1, BecomeInv DEF Handler
  <1>2. ASSUME NEW S \in SUBSET Transfers, AddTransfers(S) PROVE KInv'
    <2>1. Handler(checkQueue(Added(S)))
      BY <1>2, AddHandler
    <2>2. NewSound(Added(S))
      BY <2>1, AddedSound DEF Handler
    <2>3. Sound(checkQueue(Added(S)), Transfers, Active)
      BY <2>2, CheckQueueNew
    <2> QED
      BY <1>1, <2>1, <2>3
  <1>3. ASSUME NEW g \in Windows("resume"), ResumeCurrent(g) PROVE KInv'
    BY <1>1, <1>3, ResumeHandler
  <1> QED
    BY <1>1, <1>2, <1>3, UserHandlers

(* The event at the head of the queue, and the record its handler comes to. *)
LEMMA EventRecord ==
  ASSUME KInv, HandleEvent
  PROVE  /\ MainFree /\ SlaveIdle
         /\ Head(events).t \in Transfers /\ Head(events).kind \in EventKinds
         /\ events' \in Seq([t : Transfers, kind : EventKinds])
         /\ \/ /\ status[Head(events).t] = "gone"
               /\ Become([Main EXCEPT !.crashed = "kmainwidget.cpp:customEvent"])
            \/ /\ status[Head(events).t] # "gone"
               /\ \E due : Become(customEvent(Main, Head(events).t, Head(events).kind, due))
  <1>1. events \in Seq([t : Transfers, kind : EventKinds]) /\ events # <<>>
    BY DEF KInv, SlaveInv, SlaveTypeOK, HandleEvent
  <1>2. Head(events) \in [t : Transfers, kind : EventKinds]
        /\ Tail(events) \in Seq([t : Transfers, kind : EventKinds])
    <2> DEFINE E == [t : Transfers, kind : EventKinds]
    <2>1. events \in Seq(E) /\ events # <<>>
      BY <1>1
    <2> HIDE DEF E
    <2>2. Head(events) \in E /\ Tail(events) \in Seq(E)
      BY <2>1
    <2> QED
      BY <2>2 DEF E
  <1>3. events' = Tail(events) /\ MainFree /\ SlaveIdle
    BY DEF HandleEvent
  <1>4. \/ /\ status[Head(events).t] = "gone"
           /\ Become([Main EXCEPT !.crashed = "kmainwidget.cpp:customEvent"])
        \/ /\ status[Head(events).t] # "gone"
           /\ \E due : Become(customEvent(Main, Head(events).t, Head(events).kind, due))
    BY DEF HandleEvent
  <1> QED
    BY <1>2, <1>3, <1>4

LEMMA EventSound ==
  ASSUME KInv, MainFree, NEW t \in Transfers, status[t] # "gone", NEW kind \in EventKinds, NEW due,
         NEW B, ActiveNow \subseteq B, kind = "SLV_CONNECTED" => t \in B
  PROVE  LET r == customEvent(Main, t, kind, due)
         IN  Sound(r, B, Active) /\ (kind \in Checking => Answered(Main, r))
  <1>1. {} \in SUBSET Present
    OBVIOUS
  <1>2. Sound(Main, B, Active)
    BY <1>1, MainSound
  <1>3. Main.status = status
    BY DEF Main
  <1>4. kind = "SLV_CONNECTED" => ActiveIn(Main) \cup {t} \subseteq B
    BY <1>3 DEF ActiveIn, ActiveNow
  <1> QED
    BY <1>2, <1>3, <1>4, EventAnswers

LEMMA CrashedSound ==
  ASSUME KInv, MainFree
  PROVE  Sound([Main EXCEPT !.crashed = "kmainwidget.cpp:customEvent"], ActiveNow, Active)
  <1>1. {} \in SUBSET Present
    OBVIOUS
  <1>2. Sound(Main, ActiveNow, Active)
    BY <1>1, MainSound
  <1>3. Main \in Records
    BY <1>2 DEF Sound
  <1>4. "kmainwidget.cpp:customEvent" \in Lines
    BY DEF Lines
  <1>5. Passed(Main, [Main EXCEPT !.crashed = "kmainwidget.cpp:customEvent"])
    BY <1>3, <1>4, PassedCheck
  <1> QED
    BY <1>2, <1>5, CrashSound

LEMMA HandleEventInv ==
  ASSUME KInv, HandleEvent
  PROVE  KInv'
  <1> DEFINE t == Head(events).t
             kind == Head(events).kind
  <1>1. /\ MainFree /\ SlaveIdle
        /\ t \in Transfers /\ kind \in EventKinds
        /\ events' \in Seq([t : Transfers, kind : EventKinds])
        /\ \/ /\ status[t] = "gone"
              /\ Become([Main EXCEPT !.crashed = "kmainwidget.cpp:customEvent"])
           \/ /\ status[t] # "gone"
              /\ \E due : Become(customEvent(Main, t, kind, due))
    BY EventRecord
  <1> HIDE DEF t, kind
  <1>2. CASE Become([Main EXCEPT !.crashed = "kmainwidget.cpp:customEvent"])
    <2> DEFINE r == [Main EXCEPT !.crashed = "kmainwidget.cpp:customEvent"]
    <2>1. Sound(r, ActiveNow, Active) /\ Become(r)
      BY <1>1, <1>2, CrashedSound
    <2> HIDE DEF r
    <2> QED
      BY <1>1, <2>1, BecomeInv
  <1>3. ASSUME status[t] # "gone", NEW due, Become(customEvent(Main, t, kind, due))
        PROVE  KInv'
    <2>1. ActiveNow \subseteq Transfers
      BY DEF ActiveNow
    <2>2. Sound(customEvent(Main, t, kind, due), Transfers, Active)
      BY <1>1, <1>3, <2>1, EventSound
    <2> QED
      BY <1>1, <1>3, <2>2, BecomeInv
  <1> QED
    BY <1>1, <1>2, <1>3

LEMMA KInit == Init => KInv
  <1> SUFFICES ASSUME Init PROVE KInv
    OBVIOUS
  <1>1. SlaveInv
    BY InitInv DEF Init
  <1>2. reconnectRetries \in Nat
    BY KGetAssumption
  <1>3. TypeOK
    BY <1>1, <1>2 DEF Init, SlaveInv, TypeOK, Present
  <1>4. NothingNew /\ GoneInv
    BY DEF Init, NothingNew, GoneInv
  <1> QED
    BY <1>1, <1>3, <1>4 DEF KInv

(* The invariant is inductive. *)
LEMMA KNext == KInv /\ [Next]_vars => KInv'
  <1> SUFFICES ASSUME KInv, [Next]_vars PROVE KInv'
    OBVIOUS
  <1>1. CASE UNCHANGED vars
    <2>1. SlaveInv'
      BY <1>1 DEF KInv, vars, svars, SlaveInv, SlaveTypeOK, JobHasThread, KilledWhenActing,
                  EmissionIsCurrent
    <2>2. TypeOK'
      BY <1>1, <2>1 DEF KInv, vars, kvars, window, SlaveInv, TypeOK, Present
    <2>3. NothingNew' /\ GoneInv'
      BY <1>1 DEF KInv, vars, svars, kvars, NothingNew, GoneInv, Covers, Running
    <2> QED
      BY <2>1, <2>2, <2>3 DEF KInv
  <1>2. CASE User \/ TransferTimeout
    BY <1>2, UserInv
  <1>3. CASE HandleEvent
    BY <1>3, HandleEventInv
  <1>4. CASE NextOp
    BY <1>4, NextOpInv
  <1>5. CASE Abort
    BY <1>5, AbortInv
  <1>6. CASE Join
    BY <1>6, JoinInv
  <1>7. ASSUME NEW t \in Transfers,
               \/ JobConnected(t) \/ JobEnds(t) \/ JobSucceeded(t) \/ JobFailed(t)
               \/ PushStep(t) \/ SlaveStep(t)
        PROVE  KInv'
    BY <1>7, SlaveStepInv
  <1> QED
    BY <1>1, <1>2, <1>3, <1>4, <1>5, <1>6, <1>7 DEF Next

(* The main thread and its slaves keep the types and the invariant of the   *)
(* slaves, whatever the user and the network do.                           *)
THEOREM MainThreadSafety == Spec => []KInv
  <1> QED
    BY KInit, KNext, PTL DEF Spec

(* Under the main thread, too, a download never outlives its thread, and    *)
(* run() acts on a killing command with no job left.                       *)
THEOREM SlavesStaySafe == Spec => []SlaveInv
  <1>1. KInv => SlaveInv
    BY DEF KInv
  <1> QED
    BY <1>1, MainThreadSafety, PTL

(* The variables of the main thread keep their types. *)
THEOREM MainThreadTypes == Spec => []TypeOK
  <1>1. KInv => TypeOK
    BY DEF KInv
  <1> QED
    BY <1>1, MainThreadSafety, PTL

(* Once the main thread is free, a deleted transfer has no thread and no    *)
(* download left: the destructor has aborted its slave and waited for it.  *)
THEOREM DeletedIsStopped == Spec => []DeletedHasNoThread
  <1>1. KInv => DeletedHasNoThread
    <2> SUFFICES ASSUME KInv, MainFree, NEW t \in Transfers, status[t] = "gone"
                 PROVE  ~Running(t) /\ copyjob[t] = "none"
      BY DEF DeletedHasNoThread
    <2>1. ~Covers(todo, t, 1)
      BY DEF MainFree, Covers
    <2>2. ~Running(t)
      BY <2>1 DEF KInv, GoneInv
    <2> QED
      BY <2>2 DEF KInv, SlaveInv, JobHasThread, Running
  <1> QED
    BY <1>1, MainThreadSafety, PTL

(* The whole of KGet implements the downloads: whatever the main thread     *)
(* does, at most one job at a time, begun and ended under a live thread.   *)
THEOREM KGetImplementsDownload == Spec => ImplementsDownload
  <1>1. Init => Download!DInit
    BY DownloadInit DEF Init
  <1>2. KInv /\ [Next]_vars => [Download!DNext]_Download!dvars
    <2> SUFFICES ASSUME KInv, [Next]_vars
                 PROVE  Download!DNext \/ UNCHANGED Download!dvars
      OBVIOUS
    <2> SlaveInv
      BY DEF KInv
    <2>1. ASSUME UNCHANGED <<pc, copyjob>> PROVE UNCHANGED Download!dvars
      BY <2>1 DEF Download!dvars
    <2>2. CASE UNCHANGED vars
      BY <2>1, <2>2 DEF vars, svars
    <2>3. CASE User \/ TransferTimeout
      <3>1. ASSUME NEW r, Handler(r) PROVE UNCHANGED <<pc, copyjob>>
        BY <3>1 DEF Handler, SlaveIdle
      <3>2. UNCHANGED <<pc, copyjob>>
        BY <2>3, <3>1, UserHandlers, AddHandler, ResumeHandler
      <3> QED
        BY <2>1, <3>2
    <2>4. CASE HandleEvent
      BY <2>1, <2>4 DEF HandleEvent, SlaveIdle
    <2>5. CASE NextOp
      <3>1. Head(todo).t \in Transfers
        <4>1. todo \in Seq(Ops) /\ todo # <<>>
          BY <2>5 DEF KInv, TypeOK, Ops, NextOp
        <4>2. Head(todo) \in Ops
          BY <4>1
        <4> QED
          BY <4>2 DEF Ops
      <3> QED
        BY <2>5, <3>1, MainRefines DEF NextOp
    <2>6. CASE Abort \/ Join
      BY <2>1, <2>6 DEF Abort, Join, svars
    <2>7. ASSUME NEW t \in Transfers, JobConnected(t) \/ JobEnds(t)
          PROVE  Download!DNext \/ UNCHANGED Download!dvars
      <3>1. EmitResult(t) \/ SlotTotalSize(t, TRUE) \/ SlotTotalSize(t, FALSE)
        BY <2>7 DEF JobConnected, JobEnds, SlotTotalSize
      <3> QED
        BY <3>1, MainRefines
    <2>8. ASSUME NEW t \in Transfers, JobSucceeded(t) \/ JobFailed(t)
          PROVE  Download!DNext \/ UNCHANGED Download!dvars
      <3>1. \E kind \in Results : SlotResult(t, kind)
        BY <2>8 DEF JobSucceeded, JobFailed, FailureAnswer, Results
      <3> QED
        BY <3>1, MainRefines
    <2>9. ASSUME NEW t \in Transfers, PushStep(t) \/ SlaveStep(t)
          PROVE  Download!DNext \/ UNCHANGED Download!dvars
      BY <2>9, MainRefines, WorkerRefines DEF PushStep, SlaveStep
    <2> QED
      BY <2>2, <2>3, <2>4, <2>5, <2>6, <2>7, <2>8, <2>9 DEF Next
  <1> QED
    BY <1>1, <1>2, MainThreadSafety, PTL DEF Spec, ImplementsDownload, Download!DSpec

(* A step of the main thread that comes to a sound record starts transfers  *)
(* only within the limit.                                                  *)
LEMMA BecomeWithin ==
  ASSUME TypeOK, NEW r, Sound(r, ActiveNow, Active), Become(r), Starts # {}
  PROVE  Cardinality(Busy) <= maxSimultaneousConnections
  <1>1. status' = r.status
    BY DEF Become
  <1>2. PICK t \in Transfers : status[t] \notin Active /\ r.status[t] = "trying"
    BY <1>1 DEF Starts
  <1>3. t \in ActiveIn(r) /\ t \notin ActiveNow
    BY <1>2 DEF ActiveIn, ActiveNow, Active
  <1>4. NumActive(r.status) <= maxSimultaneousConnections
    BY <1>3 DEF Sound, Limited
  <1>5. Busy \subseteq ActiveIn(r)
    BY <1>1 DEF Busy, ActiveIn
  <1>6. NumActive(r.status) = Cardinality(ActiveIn(r)) /\ IsFiniteSet(ActiveIn(r))
    BY FiniteTransfers, FS_Subset DEF NumActive, ActiveIn
  <1>7. Cardinality(Busy) <= Cardinality(ActiveIn(r))
    BY <1>5, <1>6, FS_Subset
  <1>8. IsFiniteSet(Busy)
    BY <1>5, <1>6, FS_Subset
  <1>9. Cardinality(Busy) \in Nat /\ Cardinality(ActiveIn(r)) \in Nat
        /\ maxSimultaneousConnections \in Nat
    BY <1>6, <1>8, FS_CardinalityType, KGetAssumption
  <1> QED
    BY <1>4, <1>6, <1>7, <1>9

(* New transfers: the loop that starts what waits counts what is active     *)
(* before the look-ups begin.                                              *)
LEMMA AddWithin ==
  ASSUME KInv, NEW S \in SUBSET Transfers, AddTransfers(S), Starts # {}
  PROVE  Cardinality(Busy) <= maxSimultaneousConnections
  <1> DEFINE h == Added(S)
             r == checkQueue(h)
  <1>1. Handler(r) /\ \A t \in S : status[t] = "absent"
    BY AddHandler
  <1>2. MainFree /\ status' = r.status /\ mode' = r.mode
    BY <1>1 DEF Handler, Become
  <1>3. NewSound(h)
    BY <1>2, AddedSound
  <1>4. /\ \A u \in Transfers : u \notin S => h.status[u] = status[u] /\ h.mode[u] = mode[u]
        /\ \A u \in S : h.status[u] = "stopped"
    BY DEF Added
  <1> HIDE DEF h
  <1>5. PICK a : NewSound(a) /\ StartsOnly(h, a) /\ LooksUpOnly(a, r)
    BY <1>3, CheckQueueNew
  <1> HIDE DEF r
  <1>6. PICK t \in Transfers : status[t] \notin Active /\ r.status[t] = "trying"
                                                       /\ r.mode[t] = "queued"
    BY <1>2 DEF Starts
  <1>7. a.status[t] = "trying"
    BY <1>5, <1>6 DEF LooksUpOnly
  <1>8. h.status[t] \notin Active
    BY <1>4, <1>6 DEF Active
  <1>9. t \in ActiveIn(a) /\ t \notin ActiveIn(h)
    BY <1>7, <1>8 DEF ActiveIn, Active
  <1>10. NumActive(a.status) <= maxSimultaneousConnections
    BY <1>5, <1>9 DEF StartsOnly
  <1>11. ASSUME NEW u \in Busy PROVE u \in ActiveIn(a)
    <2>1. u \in Transfers /\ r.status[u] \in Active /\ (status[u] \in Active \/ r.mode[u] # "new")
      BY <1>2 DEF Busy
    <2>2. CASE r.status[u] = a.status[u]
      BY <2>1, <2>2 DEF ActiveIn
    <2>3. CASE r.status[u] # a.status[u]
      <3>1. a.status[u] = "stopped" /\ a.mode[u] = "new" /\ r.mode[u] = "new"
        BY <1>5, <2>1, <2>3 DEF LooksUpOnly, Active
      <3>2. status[u] \in Active
        BY <2>1, <3>1
      <3>3. u \notin S
        BY <1>1, <3>2 DEF Active
      <3>4. a.status[u] = h.status[u]
        BY <1>5, <2>1, <3>1 DEF StartsOnly
      <3> QED
        BY <1>4, <2>1, <3>1, <3>2, <3>3, <3>4 DEF Active
    <2> QED
      BY <2>2, <2>3
  <1>12. Busy \subseteq ActiveIn(a)
    BY <1>11
  <1>13. NumActive(a.status) = Cardinality(ActiveIn(a)) /\ IsFiniteSet(ActiveIn(a))
    BY FiniteTransfers, FS_Subset DEF NumActive, ActiveIn
  <1>14. Cardinality(Busy) <= Cardinality(ActiveIn(a)) /\ IsFiniteSet(Busy)
    BY <1>12, <1>13, FS_Subset
  <1>15. Cardinality(Busy) \in Nat /\ Cardinality(ActiveIn(a)) \in Nat
         /\ maxSimultaneousConnections \in Nat
    BY <1>13, <1>14, FS_CardinalityType, KGetAssumption
  <1> QED
    BY <1>10, <1>13, <1>14, <1>15

(* What has connected is running, and stays so. *)
LEMMA ConnectedRuns ==
  ASSUME KInv, MainFree, NEW t \in Transfers, status[t] # "gone", mode[t] # "new",
         Become(slotExecConnected(Main, t))
  PROVE  status'[t] = "running"
  <1> DEFINE a == [Main EXCEPT !.status[t] = "running"]
             r == checkQueue(a)
  <1>1. Main.mode = mode /\ Main.status = status
    BY DEF Main
  <1>2. slotExecConnected(Main, t) = r
    BY <1>1 DEF slotExecConnected
  <1>3. Become(r)
    BY <1>2
  <1>4. status' = r.status
    BY <1>3 DEF Become
  <1>5. Sound(a, Transfers, Active) /\ a.status[t] = "running"
    <2>1. {} \in SUBSET Present /\ ActiveNow \subseteq Transfers
      BY DEF ActiveNow
    <2>2. Sound(Main, Transfers, Active)
      BY <2>1, MainSound
    <2>3. ActiveIn(Main) \cup {t} \subseteq Transfers
      BY DEF ActiveIn
    <2> QED
      BY <1>1, <2>2, <2>3, RunningSound
  <1> HIDE DEF a
  <1>6. StartsOnly(a, r)
    BY <1>5, CheckQueueFacts
  <1> HIDE DEF r
  <1> QED
    BY <1>4, <1>5, <1>6 DEF StartsOnly, Active

LEMMA EventWithin ==
  ASSUME KInv, HandleEvent, Starts # {}
  PROVE  Cardinality(Busy) <= maxSimultaneousConnections
  <1> DEFINE t == Head(events).t
             kind == Head(events).kind
  <1>1. /\ MainFree /\ t \in Transfers /\ kind \in EventKinds
        /\ \/ /\ status[t] = "gone"
              /\ Become([Main EXCEPT !.crashed = "kmainwidget.cpp:customEvent"])
           \/ /\ status[t] # "gone"
              /\ \E due : Become(customEvent(Main, t, kind, due))
    BY EventRecord
  <1>2. TypeOK
    BY DEF KInv
  <1> HIDE DEF t, kind
  <1>3. CASE Become([Main EXCEPT !.crashed = "kmainwidget.cpp:customEvent"])
    <2> DEFINE r == [Main EXCEPT !.crashed = "kmainwidget.cpp:customEvent"]
    <2>1. Sound(r, ActiveNow, Active) /\ Become(r)
      BY <1>1, <1>3, CrashedSound
    <2> HIDE DEF r
    <2> QED
      BY <1>2, <2>1, BecomeWithin
  <1>4. ASSUME status[t] # "gone", NEW due, Become(customEvent(Main, t, kind, due))
        PROVE  Cardinality(Busy) <= maxSimultaneousConnections
    <2>1. CASE kind # "SLV_CONNECTED" \/ t \in ActiveNow
      <3>1. Sound(customEvent(Main, t, kind, due), ActiveNow, Active)
        BY <1>1, <1>4, <2>1, EventSound
      <3> QED
        BY <1>2, <1>4, <3>1, BecomeWithin
    <2>2. CASE kind = "SLV_CONNECTED" /\ t \notin ActiveNow
      <3> DEFINE r == slotExecConnected(Main, t)
                 B == ActiveNow \cup {t}
      <3>1. customEvent(Main, t, kind, due) = r
        BY <2>2 DEF customEvent
      <3>2. mode[t] # "new"
        BY <1>1, <2>2 DEF KInv, NothingNew, ActiveNow
      <3>3. Become(r)
        BY <1>4, <3>1
      <3>4. status'[t] = "running"
        BY <1>1, <1>4, <3>2, <3>3, ConnectedRuns
      <3>5. Sound(r, B, Active)
        <4>1. ActiveNow \subseteq B /\ t \in B
          OBVIOUS
        <4> HIDE DEF B, r
        <4>2. Sound(customEvent(Main, t, kind, due), B, Active)
          BY <1>1, <1>4, <4>1, EventSound
        <4> QED
          BY <3>1, <4>2
      <3> HIDE DEF r
      <3>6. status' = r.status
        BY <3>3 DEF Become
      <3>7. PICK u \in Transfers : status[u] \notin Active /\ status'[u] = "trying"
        BY DEF Starts
      <3>8. u \in ActiveIn(r) /\ u \notin ActiveNow /\ u # t
        BY <3>4, <3>6, <3>7 DEF ActiveIn, ActiveNow, Active
      <3>9. NumActive(r.status) <= maxSimultaneousConnections
        BY <3>5, <3>8 DEF Sound, Limited
      <3>10. Sound(r, ActiveNow, Active)
        BY <3>5, <3>9 DEF Sound, Limited
      <3> QED
        BY <1>2, <3>3, <3>10, BecomeWithin
    <2> QED
      BY <2>1, <2>2
  <1> QED
    BY <1>1, <1>3, <1>4

(* checkQueue keeps to maxSimultaneousConnections, for any list and any     *)
(* limit: but for Resume, a step that starts a queued transfer leaves at    *)
(* most that many active, its own cache look-ups apart.                    *)
THEOREM StartsKeepTheLimit == Spec => StartsWithinLimit
  <1> DEFINE A == Starts # {} =>
                    \/ Cardinality(Busy) <= maxSimultaneousConnections
                    \/ \E g \in Windows("resume") : ResumeCurrent(g)
  <1>1. KInv /\ [Next]_vars => [A]_vars
    <2> SUFFICES ASSUME KInv, Next, Starts # {},
                        ~\E g \in Windows("resume") : ResumeCurrent(g)
                 PROVE  Cardinality(Busy) <= maxSimultaneousConnections
      OBVIOUS
    <2>1. ASSUME status' = status PROVE FALSE
      BY <2>1 DEF Starts, Active
    <2>2. CASE User \/ TransferTimeout
      <3>1. ASSUME NEW r, Sound(r, ActiveNow, Active), Handler(r)
            PROVE  Cardinality(Busy) <= maxSimultaneousConnections
        BY <3>1, BecomeWithin DEF Handler, KInv
      <3> QED
        BY <2>2, <3>1, UserHandlers, AddWithin
    <2>3. CASE HandleEvent
      BY <2>3, EventWithin
    <2>4. CASE NextOp \/ Abort \/ Join
      BY <2>1, <2>4 DEF NextOp, Abort, Join
    <2>5. ASSUME NEW t \in Transfers,
                 \/ JobConnected(t) \/ JobEnds(t) \/ JobSucceeded(t) \/ JobFailed(t)
                 \/ PushStep(t) \/ SlaveStep(t)
          PROVE  FALSE
      BY <2>1, <2>5, SlaveStepInv
    <2> QED
      BY <2>2, <2>3, <2>4, <2>5 DEF Next
  <1> QED
    BY <1>1, MainThreadSafety, PTL DEF Spec, StartsWithinLimit

(* After the answer of a slave that ends in checkQueue, nothing queued waits *)
(* beside a free connection; and offline, an answer starts nothing.        *)
THEOREM NoConnectionIdles == Spec => NoIdleConnection
  <1> DEFINE A == HandleEvent /\ crashed' = "no"
                     /\ Head(events).kind \in
                          {"SLV_FINISHED", "SLV_PAUSED", "SLV_DELAYED", "SLV_BROKEN",
                           "SLV_RESUMED", "SLV_CONNECTED"}
                  => \/ (b_offline /\ Starts = {})
                     \/ NumActive(status') >= maxSimultaneousConnections
                     \/ \A t \in Transfers : status'[t] \in {"stopped", "finished"}
                                              => mode'[t] # "queued"
  <1>1. KInv /\ [Next]_vars => [A]_vars
    <2> SUFFICES ASSUME KInv, HandleEvent, crashed' = "no", Head(events).kind \in Checking
                 PROVE  \/ (b_offline /\ Starts = {})
                        \/ NumActive(status') >= maxSimultaneousConnections
                        \/ \A t \in Transfers : status'[t] \in {"stopped", "finished"}
                                                 => mode'[t] # "queued"
      BY DEF Checking
    <2> DEFINE t == Head(events).t
               kind == Head(events).kind
    <2>1. /\ MainFree /\ t \in Transfers /\ kind \in EventKinds
          /\ \/ /\ status[t] = "gone"
                /\ Become([Main EXCEPT !.crashed = "kmainwidget.cpp:customEvent"])
             \/ /\ status[t] # "gone"
                /\ \E due : Become(customEvent(Main, t, kind, due))
      BY EventRecord
    <2>2. kind \in Checking
      OBVIOUS
    <2>3. ~Become([Main EXCEPT !.crashed = "kmainwidget.cpp:customEvent"])
      BY DEF Become, Main
    <2> HIDE DEF t, kind
    <2>4. PICK due : status[t] # "gone" /\ Become(customEvent(Main, t, kind, due))
      BY <2>1, <2>3
    <2> DEFINE r == customEvent(Main, t, kind, due)
    <2>5. Answered(Main, r)
      <3>1. ActiveNow \subseteq Transfers
        BY DEF ActiveNow
      <3> QED
        BY <2>1, <2>2, <2>4, <3>1, EventSound
    <2>6. status' = r.status /\ mode' = r.mode
      BY <2>4 DEF Become
    <2> HIDE DEF r
    <2>7. Main.status = status /\ (Offline(Main) <=> b_offline)
      BY DEF Main, Offline, b_offline
    <2>8. CASE /\ Offline(Main)
               /\ \A u \in Transfers :
                     r.status[u] = "trying" /\ r.mode[u] = "queued" => Main.status[u] \in Active
      BY <2>6, <2>7, <2>8 DEF Starts
    <2>9. CASE \A u \in Transfers : Served(r, u)
      BY <2>6, <2>9 DEF Served, Waits, Active
    <2> QED
      BY <2>5, <2>8, <2>9 DEF Answered
  <1> QED
    BY <1>1, MainThreadSafety, PTL DEF Spec, NoIdleConnection

----------------------------------------------------------------------------
(* What the queue adds to a handler: downloads and look-ups of transfers   *)
(* that are at rest, one of each, after what was there.                    *)

Astray == "kmainwidget.cpp:customEvent"
Beginning == {"RETR", "RETR_CACHE"}
Resting(h, u) == h.status[u] \notin Active \cup {"absent", "gone"}

(* What no handler does to a record: nothing is taken back. *)
Follows(h, k) ==
    /\ k.selected = h.selected
    /\ \A u \in Transfers : k.mode[u] = "new" => h.mode[u] = "new"
    /\ k.crashed = h.crashed \/ (h.crashed = "no" /\ k.crashed # Astray)

Extends(q, r) ==
    \A i \in DOMAIN q : i \in DOMAIN r /\ r[i] = q[i]
Anew(q, r, u) == {i \in DOMAIN r \ DOMAIN q : r[i].t = u}

Adds(h, k) ==
    /\ Follows(h, k) /\ Extends(h.todo, k.todo)
    /\ \A u \in Transfers :
          \/ k.status[u] = h.status[u] /\ Anew(h.todo, k.todo, u) = {}
          \/ /\ Resting(h, u) /\ k.status[u] = "trying"
             /\ \E i : Anew(h.todo, k.todo, u) = {i} /\ k.todo[i].do \in Beginning

LEMMA FollowsTwice ==
  ASSUME NEW g, NEW h, NEW k, Follows(g, h), Follows(h, k)
  PROVE  Follows(g, k)
  BY DEF Follows

LEMMA AddsTwice ==
  ASSUME NEW g, NEW h, NEW k, Adds(g, h), Adds(h, k)
  PROVE  Adds(g, k)
  <1>1. Follows(g, k)
    BY FollowsTwice DEF Adds
  <1>2. Extends(g.todo, k.todo)
    BY DEF Adds, Extends
  <1>3. ASSUME NEW u \in Transfers
        PROVE  Anew(g.todo, k.todo, u) = Anew(g.todo, h.todo, u) \cup Anew(h.todo, k.todo, u)
    BY DEF Adds, Extends, Anew
  <1>4. ASSUME NEW u \in Transfers
        PROVE  \/ k.status[u] = g.status[u] /\ Anew(g.todo, k.todo, u) = {}
               \/ /\ Resting(g, u) /\ k.status[u] = "trying"
                  /\ \E i : Anew(g.todo, k.todo, u) = {i} /\ k.todo[i].do \in Beginning
    <2>1. CASE h.status[u] = g.status[u] /\ Anew(g.todo, h.todo, u) = {}
      <3>1. Anew(g.todo, k.todo, u) = Anew(h.todo, k.todo, u)
        BY <1>3, <2>1
      <3> QED
        BY <2>1, <3>1 DEF Adds, Resting
    <2>2. ASSUME Resting(g, u), h.status[u] = "trying",
                 NEW i, Anew(g.todo, h.todo, u) = {i}, h.todo[i].do \in Beginning
          PROVE  /\ Resting(g, u) /\ k.status[u] = "trying"
                 /\ \E j : Anew(g.todo, k.todo, u) = {j} /\ k.todo[j].do \in Beginning
      <3>1. ~Resting(h, u)
        BY <2>2 DEF Resting, Active
      <3>2. k.status[u] = h.status[u] /\ Anew(h.todo, k.todo, u) = {}
        BY <3>1 DEF Adds
      <3>3. Anew(g.todo, k.todo, u) = {i}
        BY <1>3, <2>2, <3>2
      <3>4. i \in DOMAIN h.todo
        BY <2>2 DEF Anew
      <3>5. k.todo[i] = h.todo[i]
        BY <3>4 DEF Adds, Extends
      <3> QED
        BY <2>2, <3>2, <3>3, <3>5
    <2> QED
      BY <2>1, <2>2 DEF Adds
  <1> QED
    BY <1>1, <1>2, <1>4 DEF Adds

(* What leaves status and operations alone adds nothing. *)
LEMMA AddsNothing ==
  ASSUME NEW h, NEW k, Follows(h, k), k.status = h.status, k.todo = h.todo
  PROVE  Adds(h, k)
  <1>1. \A u : Anew(h.todo, k.todo, u) = {}
    BY DEF Anew
  <1> QED
    BY <1>1 DEF Adds, Extends

LEMMA AppendedAnew ==
  ASSUME NEW q \in Seq(Ops), NEW o \in Ops
  PROVE  /\ Append(q, o) \in Seq(Ops) /\ Extends(q, Append(q, o))
         /\ Append(q, o)[Len(q) + 1] = o
         /\ DOMAIN Append(q, o) \ DOMAIN q = {Len(q) + 1}
         /\ \A u : Anew(q, Append(q, o), u) = IF o.t = u THEN {Len(q) + 1} ELSE {}
  <1>1. /\ DOMAIN q = 1 .. Len(q) /\ Len(q) \in Nat
        /\ DOMAIN Append(q, o) = 1 .. Len(q) + 1
        /\ \A i \in 1 .. Len(q) : Append(q, o)[i] = q[i]
        /\ Append(q, o)[Len(q) + 1] = o
    OBVIOUS
  <1>2. DOMAIN Append(q, o) \ DOMAIN q = {Len(q) + 1}
    BY <1>1
  <1>3. Extends(q, Append(q, o))
    BY <1>1 DEF Extends
  <1>4. \A u : Anew(q, Append(q, o), u) = IF o.t = u THEN {Len(q) + 1} ELSE {}
    BY <1>1, <1>2 DEF Anew
  <1> QED
    BY <1>1, <1>2, <1>3, <1>4

(* A transfer at rest that is tried, with its operation. *)
LEMMA AddsOne ==
  ASSUME NEW h \in Records, NEW k \in Records, NEW t \in Transfers, NEW c \in Beginning,
         Follows(h, k), Resting(h, t), k.status = [h.status EXCEPT ![t] = "trying"],
         k.todo = Append(h.todo, [t |-> t, do |-> c])
  PROVE  Adds(h, k)
  <1> DEFINE o == [t |-> t, do |-> c]
             n == Len(h.todo) + 1
  <1>1. o \in Ops
    BY DEF Ops, Beginning, Commands, Retrieving
  <1>2. /\ o \in Ops /\ h.todo \in Seq(Ops) /\ o.t = t /\ o.do \in Beginning
        /\ k.todo = Append(h.todo, o)
    BY <1>1, RecordFields
  <1> HIDE DEF o
  <1>3. h.status \in [Transfers -> Statuses]
    BY RecordFields
  <1>4. /\ Extends(h.todo, k.todo) /\ k.todo[n] = o
        /\ \A u : Anew(h.todo, k.todo, u) = IF t = u THEN {n} ELSE {}
    <2>1. /\ Extends(h.todo, Append(h.todo, o)) /\ Append(h.todo, o)[n] = o
          /\ \A u : Anew(h.todo, Append(h.todo, o), u) = IF o.t = u THEN {n} ELSE {}
      BY <1>2, AppendedAnew
    <2> QED
      BY <1>2, <2>1
  <1>5. ASSUME NEW u \in Transfers
        PROVE  \/ k.status[u] = h.status[u] /\ Anew(h.todo, k.todo, u) = {}
               \/ /\ Resting(h, u) /\ k.status[u] = "trying"
                  /\ \E i : Anew(h.todo, k.todo, u) = {i} /\ k.todo[i].do \in Beginning
    <2>1. CASE u = t
      <3>1. Anew(h.todo, k.todo, u) = {n} /\ k.todo[n].do \in Beginning
        BY <1>4, <2>1
      <3>2. k.status[u] = "trying"
        BY <1>3, <2>1
      <3> QED
        BY <2>1, <3>1, <3>2
    <2>2. CASE u # t
      BY <1>3, <1>4, <2>2
    <2> QED
      BY <2>1, <2>2
  <1> QED
    BY <1>4, <1>5 DEF Adds

LEMMA CrashKept ==
  ASSUME NEW h \in Records
  PROVE  /\ slotUpdateActions(h).crashed = h.crashed
         /\ \A t, c : Do(h, t, c).crashed = h.crashed
         /\ \A t \in Transfers : \A s, m : Show(h, t, s, m).crashed = h.crashed
         /\ \A t \in Transfers : [h EXCEPT !.mode[t] = "queued"].crashed = h.crashed
  <1>1. slotUpdateActions(h).crashed = h.crashed
    BY DEF slotUpdateActions, Records
  <1>2. \A t, c : Do(h, t, c).crashed = h.crashed
    BY DEF Do, Records
  <1>3. \A t \in Transfers : \A s, m : Show(h, t, s, m).crashed = h.crashed
    BY DEF Show, Records
  <1>4. \A t \in Transfers : [h EXCEPT !.mode[t] = "queued"].crashed = h.crashed
    BY DEF Records
  <1> QED
    BY <1>1, <1>2, <1>3, <1>4

LEMMA CheckedCrash ==
  ASSUME NEW h \in Records, NEW holds, NEW line \in Lines \ {Astray}
  PROVE  LET k == Check(h, holds, line)
         IN  /\ k.crashed = h.crashed \/ (h.crashed = "no" /\ k.crashed # Astray)
             /\ holds => k.crashed = h.crashed
             /\ ~holds /\ line # "no" => k.crashed # "no"
  BY DEF Check, Records

LEMMA CrashTwice ==
  ASSUME NEW g, NEW h, NEW k, Follows(g, h), Follows(h, k)
  PROVE  k.crashed = g.crashed \/ (g.crashed = "no" /\ k.crashed # Astray)
  BY DEF Follows

LEMMA ResumeAdds ==
  ASSUME NEW h \in Records, NEW t \in Transfers, Resting(h, t)
  PROVE  Adds(h, slotResume(h, t))
  <1> DEFINE n == h.retryCount[t] + 1
             r == IF n > reconnectRetries THEN 1 ELSE n
             a == [h EXCEPT !.retryCount[t] = r]
             b == Check(a, h.status[t] = "stopped", "transfer.cpp:slotResume")
             c == Show(b, t, "trying", "queued")
             d == Do(c, t, "RETR")
             k == slotResume(h, t)
  <1>1. k = d
    BY DEF slotResume
  <1>2. a.crashed = h.crashed
    BY DEF Records
  <1>3. b.crashed = a.crashed \/ (a.crashed = "no" /\ b.crashed = "transfer.cpp:slotResume")
    <2>1. a.crashed = h.crashed /\ [a EXCEPT !.crashed = "transfer.cpp:slotResume"].crashed
             = "transfer.cpp:slotResume"
      BY DEF Records
    <2> HIDE DEF a
    <2> QED
      BY <2>1 DEF Check
  <1> HIDE DEF a, n
  <1>4. c.crashed = b.crashed
    BY DEF Show, Check
  <1> HIDE DEF b
  <1>5. d.crashed = c.crashed
    BY DEF Do
  <1> HIDE DEF c, d
  <1>6. k.crashed = h.crashed \/ (h.crashed = "no" /\ k.crashed # Astray)
    BY <1>1, <1>2, <1>3, <1>4, <1>5 DEF Astray
  <1>7. /\ k \in Records /\ k.status = [h.status EXCEPT ![t] = "trying"]
        /\ k.mode = [h.mode EXCEPT ![t] = "queued"] /\ k.selected = h.selected
        /\ k.todo = Append(h.todo, [t |-> t, do |-> "RETR"])
    BY ResumeFacts
  <1> HIDE DEF k
  <1>8. h.mode \in [Transfers -> Modes]
    BY RecordFields
  <1>9. Follows(h, k)
    BY <1>6, <1>7, <1>8 DEF Follows
  <1>10. "RETR" \in Beginning
    BY DEF Beginning
  <1>11. Adds(h, k)
    BY <1>7, <1>9, <1>10, AddsOne
  <1> QED
    BY <1>11 DEF k

LEMMA StartAdds ==
  ASSUME NEW h \in Records, NEW t \in Transfers
  PROVE  Adds(h, startWaiting(h, t))
  <1>1. CASE Waits(h, t) /\ NumActive(h.status) < maxSimultaneousConnections
    <2>1. Resting(h, t)
      BY <1>1 DEF Waits, Resting
    <2> QED
      BY <1>1, <2>1, ResumeAdds DEF startWaiting
  <1>2. CASE ~(Waits(h, t) /\ NumActive(h.status) < maxSimultaneousConnections)
    <2>1. Adds(h, h)
      BY AddsNothing DEF Follows
    <2> QED
      BY <1>2, <2>1 DEF startWaiting
  <1> QED
    BY <1>1, <1>2

LEMMA LookUpAdds ==
  ASSUME NEW h \in Records, NEW t \in Transfers
  PROVE  Adds(h, lookUpNew(h, t))
  <1> DEFINE k == lookUpNew(h, t)
  <1>1. CASE ~(h.mode[t] = "new" /\ h.status[t] = "stopped")
    <2>1. Adds(h, h)
      BY AddsNothing DEF Follows
    <2> QED
      BY <1>1, <2>1 DEF lookUpNew
  <1>2. CASE h.mode[t] = "new" /\ h.status[t] = "stopped" /\ t \in Http
    <2> DEFINE a == Show(h, t, "trying", "new")
    <2>1. k = Do(a, t, "RETR_CACHE")
      BY <1>2 DEF lookUpNew, checkCache
    <2>2. /\ "trying" \in Statuses /\ "new" \in Modes
          /\ "RETR_CACHE" \in Beginning /\ "RETR_CACHE" \in Commands \cup {"abort", "join"}
      BY DEF Statuses, Modes, Beginning, Commands, Retrieving
    <2>3. /\ a \in Records /\ a.status = [h.status EXCEPT ![t] = "trying"]
          /\ a.mode = [h.mode EXCEPT ![t] = "new"] /\ a.selected = h.selected
          /\ a.todo = h.todo
      BY <2>2, ShowFacts
    <2>4. a.crashed = h.crashed
      BY CrashKept
    <2> HIDE DEF a
    <2>5. k \in Records /\ Alike(a, k) /\ k.todo = Append(a.todo, [t |-> t, do |-> "RETR_CACHE"])
      BY <2>1, <2>2, <2>3, DoFacts
    <2>6. k.crashed = a.crashed
      BY <2>1, <2>3, CrashKept
    <2> HIDE DEF k
    <2>7. h.mode \in [Transfers -> Modes]
      BY RecordFields
    <2>8. Follows(h, k)
      BY <1>2, <2>3, <2>4, <2>5, <2>6, <2>7 DEF Follows, Alike
    <2>9. Resting(h, t)
      BY <1>2 DEF Resting, Active
    <2>10. Adds(h, k)
      BY <2>2, <2>3, <2>5, <2>8, <2>9, AddsOne DEF Alike
    <2> QED
      BY <2>10 DEF k
  <1>3. CASE h.mode[t] = "new" /\ h.status[t] = "stopped" /\ t \notin Http
    <2>1. k = NotInCache(h, t)
      BY <1>3 DEF lookUpNew, checkCache
    <2>2. PICK m \in {"queued", "delayed"} : k = Show(h, t, "stopped", m)
      BY <2>1, NotInCacheFacts
    <2>3. "stopped" \in Statuses /\ m \in Modes
      BY DEF Statuses, Modes
    <2>4. /\ k.status = [h.status EXCEPT ![t] = "stopped"] /\ k.mode = [h.mode EXCEPT ![t] = m]
          /\ k.selected = h.selected /\ k.todo = h.todo
      BY <2>2, <2>3, ShowFacts
    <2>5. k.crashed = h.crashed
      BY <2>2, CrashKept
    <2> HIDE DEF k
    <2>6. h.mode \in [Transfers -> Modes] /\ h.status \in [Transfers -> Statuses]
      BY RecordFields
    <2>7. Follows(h, k)
      BY <2>4, <2>5, <2>6 DEF Follows
    <2>8. k.status = h.status
      BY <1>3, <2>4, <2>6
    <2>9. Adds(h, k)
      BY <2>4, <2>7, <2>8, AddsNothing
    <2> QED
      BY <2>9 DEF k
  <1> QED
    BY <1>1, <1>2, <1>3

LEMMA StartAllAdds ==
  ASSUME NEW h \in Records
  PROVE  Each(h, startWaiting) \in Records /\ Adds(h, Each(h, startWaiting))
  <1> DEFINE L == Len(Order)
             r == Each(h, startWaiting)
  <1>1. L \in Nat /\ \A n \in 1 .. L : Order[n] \in Transfers
    BY KGetAssumption
  <1>2. PICK f \in [0 .. L -> Records] :
           /\ f[0] = h /\ f[L] = r
           /\ \A n \in 1 .. L : f[n] = startWaiting(f[n - 1], Order[n])
    BY StartLoop
  <1> HIDE DEF r
  <1> DEFINE N == {n \in 0 .. L : Adds(h, f[n])}
  <1>3. 0 \in N
    BY <1>1, <1>2, AddsNothing DEF Follows
  <1>4. ASSUME NEW n \in 1 .. L, n - 1 \in N PROVE n \in N
    <2>1. f[n] = startWaiting(f[n - 1], Order[n]) /\ Order[n] \in Transfers /\ f[n - 1] \in Records
      BY <1>1, <1>2
    <2>2. Adds(f[n - 1], f[n])
      BY <2>1, StartAdds
    <2>3. Adds(h, f[n - 1])
      BY <1>4
    <2>4. Adds(h, f[n])
      BY <2>2, <2>3, AddsTwice
    <2> QED
      BY <1>1, <2>4
  <1> HIDE DEF N
  <1>5. \A n \in 0 .. L : n \in N
    BY <1>1, <1>3, <1>4, Counting
  <1>6. L \in N
    BY <1>1, <1>5
  <1> QED
    BY <1>1, <1>2, <1>6 DEF N, r

LEMMA LookUpAllAdds ==
  ASSUME NEW h \in Records
  PROVE  Each(h, lookUpNew) \in Records /\ Adds(h, Each(h, lookUpNew))
  <1> DEFINE L == Len(Order)
             r == Each(h, lookUpNew)
  <1>1. L \in Nat /\ \A n \in 1 .. L : Order[n] \in Transfers
    BY KGetAssumption
  <1>2. PICK f \in [0 .. L -> Records] :
           /\ f[0] = h /\ f[L] = r
           /\ \A n \in 1 .. L : f[n] = lookUpNew(f[n - 1], Order[n])
    BY LookUpLoop
  <1> HIDE DEF r
  <1> DEFINE N == {n \in 0 .. L : Adds(h, f[n])}
  <1>3. 0 \in N
    BY <1>1, <1>2, AddsNothing DEF Follows
  <1>4. ASSUME NEW n \in 1 .. L, n - 1 \in N PROVE n \in N
    <2>1. f[n] = lookUpNew(f[n - 1], Order[n]) /\ Order[n] \in Transfers /\ f[n - 1] \in Records
      BY <1>1, <1>2
    <2>2. Adds(f[n - 1], f[n])
      BY <2>1, LookUpAdds
    <2>3. Adds(h, f[n - 1])
      BY <1>4
    <2>4. Adds(h, f[n])
      BY <2>2, <2>3, AddsTwice
    <2> QED
      BY <1>1, <2>4
  <1> HIDE DEF N
  <1>5. \A n \in 0 .. L : n \in N
    BY <1>1, <1>3, <1>4, Counting
  <1>6. L \in N
    BY <1>1, <1>5
  <1> QED
    BY <1>1, <1>2, <1>6 DEF N, r

LEMMA UpdateAdds ==
  ASSUME NEW h \in Records
  PROVE  slotUpdateActions(h) \in Records /\ Adds(h, slotUpdateActions(h))
  <1> DEFINE k == slotUpdateActions(h)
  <1>1. k \in Records /\ Alike(h, k) /\ k.todo = h.todo /\ k.crashed = h.crashed
    BY UpdateFacts, CrashKept
  <1> HIDE DEF k
  <1>2. Follows(h, k) /\ k.status = h.status
    BY <1>1 DEF Follows, Alike
  <1>3. Adds(h, k)
    BY <1>1, <1>2, AddsNothing
  <1> QED
    BY <1>1, <1>3 DEF k

LEMMA QueueAdds ==
  ASSUME NEW h \in Records
  PROVE  checkQueue(h) \in Records /\ Adds(h, checkQueue(h))
  <1> DEFINE a == Each(h, startWaiting)
             b == slotUpdateActions(a)
             c == IF Offline(h) THEN h ELSE b
  <1>1. checkQueue(h) = Each(c, lookUpNew)
    BY DEF checkQueue
  <1>2. a \in Records /\ Adds(h, a)
    BY StartAllAdds
  <1> HIDE DEF a
  <1>3. b \in Records /\ Adds(h, b)
    BY <1>2, UpdateAdds, AddsTwice
  <1> HIDE DEF b
  <1>4. Adds(h, h)
    BY AddsNothing DEF Follows
  <1>5. c \in Records /\ Adds(h, c)
    BY <1>3, <1>4
  <1> HIDE DEF c
  <1>6. Each(c, lookUpNew) \in Records /\ Adds(c, Each(c, lookUpNew))
    BY <1>5, LookUpAllAdds
  <1>7. Adds(h, Each(c, lookUpNew))
    BY <1>5, <1>6, AddsTwice
  <1> QED
    BY <1>1, <1>6, <1>7

LEMMA ChangedAdds ==
  ASSUME NEW h \in Records
  PROVE  slotStatusChanged(h) \in Records /\ Adds(h, slotStatusChanged(h))
  <1> DEFINE a == slotUpdateActions(h)
  <1>1. slotStatusChanged(h) = checkQueue(a)
    BY DEF slotStatusChanged
  <1>2. a \in Records /\ Adds(h, a)
    BY UpdateAdds
  <1> HIDE DEF a
  <1>3. checkQueue(a) \in Records /\ Adds(a, checkQueue(a))
    BY <1>2, QueueAdds
  <1> QED
    BY <1>1, <1>2, <1>3, AddsTwice

LEMMA TimeoutAdds ==
  ASSUME NEW h \in Records, NEW due
  PROVE  /\ slotTransferTimeout(h, due) \in Records
         /\ Adds(h, slotTransferTimeout(h, due))
  <1> DEFINE late == {t \in due : h.mode[t] = "scheduled"}
             q == [t \in Transfers |-> IF t \in late THEN "queued" ELSE h.mode[t]]
             a == [h EXCEPT !.mode = q]
  <1>1. h.mode \in [Transfers -> Modes]
    BY RecordFields
  <1>2. q \in [Transfers -> Modes] /\ \A u \in Transfers : q[u] = "new" => h.mode[u] = "new"
    BY <1>1 DEF Modes
  <1>3. slotTransferTimeout(h, due) = IF late = {} THEN h ELSE checkQueue(a)
    BY DEF slotTransferTimeout
  <1> HIDE DEF q, late
  <1>4. /\ a \in Records /\ a.mode = q /\ a.status = h.status /\ a.selected = h.selected
        /\ a.todo = h.todo /\ a.crashed = h.crashed
    BY <1>2 DEF Records
  <1> HIDE DEF a
  <1>5. Follows(h, a)
    BY <1>2, <1>4 DEF Follows
  <1>6. Adds(h, a) /\ Adds(h, h)
    BY <1>4, <1>5, AddsNothing DEF Follows
  <1>7. checkQueue(a) \in Records /\ Adds(h, checkQueue(a))
    BY <1>4, <1>6, QueueAdds, AddsTwice
  <1> QED
    BY <1>3, <1>6, <1>7

----------------------------------------------------------------------------
(* What every handler but those of Delete and of SLV_REMOVED comes to: no   *)
(* transfer comes or goes, and no slave is killed or waited for.           *)

Dead == {"absent", "gone"}
Blocking == {"KILL", "REMOVE", "abort", "join"}

Mild(h, k) ==
    /\ Follows(h, k) /\ Extends(h.todo, k.todo)
    /\ \A u \in Transfers :
          k.status[u] = h.status[u] \/ (h.status[u] \notin Dead /\ k.status[u] \notin Dead)
    /\ \A i \in DOMAIN k.todo \ DOMAIN h.todo :
          k.todo[i].do \notin Blocking /\ k.status[k.todo[i].t] \notin Dead

LEMMA OpTransfer ==
  ASSUME NEW h \in Records, NEW i \in DOMAIN h.todo
  PROVE  h.todo[i] \in Ops /\ h.todo[i].t \in Transfers
  <1>1. h.todo \in Seq(Ops)
    BY RecordFields
  <1>2. h.todo[i] \in Ops
    BY <1>1
  <1> QED
    BY <1>2 DEF Ops

LEMMA MildTwice ==
  ASSUME NEW g \in Records, NEW h \in Records, NEW k \in Records, Mild(g, h), Mild(h, k)
  PROVE  Mild(g, k)
  <1>1. Follows(g, k)
    BY FollowsTwice DEF Mild
  <1>2. Extends(g.todo, k.todo)
    BY DEF Mild, Extends
  <1>3. \A u \in Transfers :
          k.status[u] = g.status[u] \/ (g.status[u] \notin Dead /\ k.status[u] \notin Dead)
    BY DEF Mild
  <1>4. ASSUME NEW i \in DOMAIN k.todo \ DOMAIN g.todo
        PROVE  k.todo[i].do \notin Blocking /\ k.status[k.todo[i].t] \notin Dead
    <2>1. CASE i \notin DOMAIN h.todo
      BY <2>1 DEF Mild
    <2>2. CASE i \in DOMAIN h.todo
      <3>1. h.todo[i].do \notin Blocking /\ h.status[h.todo[i].t] \notin Dead
        BY <2>2 DEF Mild
      <3>2. k.todo[i] = h.todo[i]
        BY <2>2 DEF Mild, Extends
      <3>3. h.todo[i].t \in Transfers
        BY <2>2, OpTransfer
      <3> QED
        BY <3>1, <3>2, <3>3 DEF Mild
    <2> QED
      BY <2>1, <2>2
  <1> QED
    BY <1>1, <1>2, <1>3, <1>4 DEF Mild

LEMMA AddsMild ==
  ASSUME NEW h \in Records, NEW k \in Records, Adds(h, k)
  PROVE  Mild(h, k)
  <1>1. Follows(h, k) /\ Extends(h.todo, k.todo)
    BY DEF Adds
  <1>2. \A u \in Transfers :
          k.status[u] = h.status[u] \/ (h.status[u] \notin Dead /\ k.status[u] \notin Dead)
    BY DEF Adds, Resting, Dead
  <1>3. ASSUME NEW i \in DOMAIN k.todo \ DOMAIN h.todo
        PROVE  k.todo[i].do \notin Blocking /\ k.status[k.todo[i].t] \notin Dead
    <2> DEFINE u == k.todo[i].t
    <2>1. u \in Transfers /\ i \in Anew(h.todo, k.todo, u)
      BY OpTransfer DEF Anew
    <2> HIDE DEF u
    <2>2. /\ k.status[u] = "trying"
          /\ \E j : Anew(h.todo, k.todo, u) = {j} /\ k.todo[j].do \in Beginning
      BY <2>1 DEF Adds
    <2>3. k.todo[i].do \in Beginning
      BY <2>1, <2>2
    <2> QED
      BY <2>2, <2>3 DEF Beginning, Blocking, Dead, u
  <1> QED
    BY <1>1, <1>2, <1>3 DEF Mild

(* A transfer that is shown in another state of its life. *)
LEMMA MildShow ==
  ASSUME NEW h \in Records, NEW t \in Transfers, h.status[t] \notin Dead,
         NEW s \in Statuses \ Dead, NEW m \in Modes, m # "new" \/ h.mode[t] = "new"
  PROVE  Show(h, t, s, m) \in Records /\ Mild(h, Show(h, t, s, m))
  <1> DEFINE k == Show(h, t, s, m)
  <1>1. /\ k \in Records /\ k.status = [h.status EXCEPT ![t] = s]
        /\ k.mode = [h.mode EXCEPT ![t] = m] /\ k.selected = h.selected
        /\ k.todo = h.todo
    BY ShowFacts
  <1>2. k.crashed = h.crashed
    BY CrashKept
  <1> HIDE DEF k
  <1>3. h.status \in [Transfers -> Statuses] /\ h.mode \in [Transfers -> Modes]
    BY RecordFields
  <1>4. Follows(h, k)
    BY <1>1, <1>2, <1>3 DEF Follows
  <1>5. Extends(h.todo, k.todo) /\ DOMAIN k.todo \ DOMAIN h.todo = {}
    BY <1>1 DEF Extends
  <1>6. \A u \in Transfers :
          k.status[u] = h.status[u] \/ (h.status[u] \notin Dead /\ k.status[u] \notin Dead)
    BY <1>1, <1>3
  <1>7. Mild(h, k)
    BY <1>4, <1>5, <1>6 DEF Mild
  <1> QED
    BY <1>1, <1>7 DEF k

(* A slave that is asked for something, but not to end. *)
LEMMA MildDo ==
  ASSUME NEW h \in Records, NEW t \in Transfers, h.status[t] \notin Dead,
         NEW c \in Commands \ Blocking
  PROVE  Do(h, t, c) \in Records /\ Mild(h, Do(h, t, c))
  <1> DEFINE k == Do(h, t, c)
             o == [t |-> t, do |-> c]
  <1>1. k \in Records /\ Alike(h, k) /\ k.todo = Append(h.todo, o) /\ k.crashed = h.crashed
    BY DoFacts, CrashKept
  <1> HIDE DEF k
  <1>2. o \in Ops /\ o.t = t /\ o.do = c
    BY DEF Ops
  <1> HIDE DEF o
  <1>3. h.todo \in Seq(Ops)
    BY RecordFields
  <1>4. /\ Extends(h.todo, Append(h.todo, o)) /\ Append(h.todo, o)[Len(h.todo) + 1] = o
        /\ DOMAIN Append(h.todo, o) \ DOMAIN h.todo = {Len(h.todo) + 1}
    BY <1>2, <1>3, AppendedAnew
  <1>5. Follows(h, k)
    BY <1>1 DEF Follows, Alike
  <1>6. \A i \in DOMAIN k.todo \ DOMAIN h.todo :
          k.todo[i].do \notin Blocking /\ k.status[k.todo[i].t] \notin Dead
    BY <1>1, <1>2, <1>4 DEF Alike
  <1>7. Mild(h, k)
    BY <1>1, <1>4, <1>5, <1>6 DEF Mild, Alike
  <1> QED
    BY <1>1, <1>7 DEF k

(* What changes neither statuses nor operations. *)
LEMMA MildSame ==
  ASSUME NEW h, NEW k, Follows(h, k), k.status = h.status, k.todo = h.todo
  PROVE  Mild(h, k)
  BY DEF Mild, Extends

LEMMA QueueMild ==
  ASSUME NEW h \in Records, NEW due
  PROVE  /\ checkQueue(h) \in Records /\ Mild(h, checkQueue(h))
         /\ slotStatusChanged(h) \in Records /\ Mild(h, slotStatusChanged(h))
         /\ slotUpdateActions(h) \in Records /\ Mild(h, slotUpdateActions(h))
         /\ slotTransferTimeout(h, due) \in Records /\ Mild(h, slotTransferTimeout(h, due))
  BY QueueAdds, ChangedAdds, UpdateAdds, TimeoutAdds, AddsMild

LEMMA ConnectedMild ==
  ASSUME NEW h \in Records, NEW t \in Transfers, h.status[t] \notin Dead, h.mode[t] # "new"
  PROVE  slotExecConnected(h, t) \in Records /\ Mild(h, slotExecConnected(h, t))
  <1> DEFINE q == [h.status EXCEPT ![t] = "running"]
             a == [h EXCEPT !.status[t] = "running"]
             b == [h EXCEPT !.status = q]
  <1>1. h.status \in [Transfers -> Statuses]
    BY RecordFields
  <1>2. /\ q \in [Transfers -> Statuses]
        /\ \A u \in Transfers : q[u] = h.status[u] \/ (h.status[u] \notin Dead /\ q[u] \notin Dead)
    BY <1>1 DEF Statuses, Dead
  <1>3. a = b
    OBVIOUS
  <1>4. slotExecConnected(h, t) = checkQueue(b)
    BY <1>3 DEF slotExecConnected
  <1> HIDE DEF q, a
  <1>5. /\ b \in Records /\ b.status = q /\ b.mode = h.mode /\ b.selected = h.selected
        /\ b.todo = h.todo /\ b.crashed = h.crashed
    BY <1>2 DEF Records
  <1> HIDE DEF b
  <1>6. Follows(h, b) /\ Extends(h.todo, b.todo) /\ DOMAIN b.todo \ DOMAIN h.todo = {}
    BY <1>5 DEF Follows, Extends
  <1>7. Mild(h, b)
    BY <1>2, <1>5, <1>6 DEF Mild
  <1>8. checkQueue(b) \in Records /\ Mild(b, checkQueue(b))
    BY <1>5, QueueMild
  <1> QED
    BY <1>4, <1>5, <1>7, <1>8, MildTwice

(* The answers of the slaves, but for REMOVED. *)
LEMMA EventMild ==
  ASSUME ~b_removeOnSuccess,
         NEW h \in Records, NEW t \in Transfers, h.status[t] \notin Dead,
         NEW kind \in EventKinds \ {"SLV_REMOVED"}, kind = "SLV_CONNECTED" => h.mode[t] # "new",
         NEW due
  PROVE  customEvent(h, t, kind, due) \in Records /\ Mild(h, customEvent(h, t, kind, due))
  <1> DEFINE r == customEvent(h, t, kind, due)
  <1>1. kind \in {"SLV_RESUMED", "SLV_CONNECTED", "SLV_FINISHED", "SLV_PAUSED", "SLV_DELAYED",
                  "SLV_SCHEDULED", "SLV_ERROR", "SLV_BROKEN", "SLV_NOTINCACHE"}
    BY DEF EventKinds, Answer, Results
  <1>2. ASSUME NEW s \in {"stopped", "finished"}, NEW m \in {"queued", "delayed", "scheduled", "none"}
        PROVE  LET a == Show(h, t, s, m)
               IN  /\ a \in Records /\ Mild(h, a)
                   /\ checkQueue(a) \in Records /\ Mild(h, checkQueue(a))
                   /\ slotStatusChanged(a) \in Records /\ Mild(h, slotStatusChanged(a))
                   /\ slotTransferTimeout(slotUpdateActions(a), due) \in Records
                   /\ Mild(h, slotTransferTimeout(slotUpdateActions(a), due))
    <2> DEFINE a == Show(h, t, s, m)
               b == slotUpdateActions(a)
    <2>1. s \in Statuses \ Dead /\ m \in Modes /\ m # "new"
      BY DEF Statuses, Modes, Dead
    <2>2. a \in Records /\ Mild(h, a)
      BY <2>1, MildShow
    <2> HIDE DEF a
    <2>3. /\ checkQueue(a) \in Records /\ Mild(h, checkQueue(a))
          /\ slotStatusChanged(a) \in Records /\ Mild(h, slotStatusChanged(a))
      BY <2>2, QueueMild, MildTwice
    <2>4. b \in Records /\ Mild(h, b)
      BY <2>2, QueueMild, MildTwice
    <2> HIDE DEF b
    <2>5. /\ slotTransferTimeout(b, due) \in Records /\ Mild(h, slotTransferTimeout(b, due))
      BY <2>4, QueueMild, MildTwice
    <2> QED
      BY <2>2, <2>3, <2>5 DEF a, b
  <1>3. CASE kind = "SLV_RESUMED"
    <2>1. r = slotStatusChanged(h)
      BY <1>3 DEF customEvent, slotExecResume
    <2> QED
      BY <2>1, QueueMild
  <1>4. CASE kind = "SLV_CONNECTED"
    <2>1. r = slotExecConnected(h, t)
      BY <1>4 DEF customEvent
    <2> QED
      BY <1>4, <2>1, ConnectedMild
  <1>5. CASE kind = "SLV_FINISHED"
    <2>1. r = checkQueue(Show(h, t, "finished", "none"))
      BY <1>5 DEF customEvent, slotFinished
    <2> QED
      BY <1>2, <2>1
  <1>6. CASE kind = "SLV_PAUSED"
    <2>1. r = slotStatusChanged(Show(h, t, "stopped", "delayed"))
      BY <1>6 DEF customEvent, slotExecPause
    <2> QED
      BY <1>2, <2>1
  <1>7. CASE kind = "SLV_DELAYED"
    <2>1. r = slotStatusChanged(Show(h, t, "stopped", "delayed"))
      BY <1>7 DEF customEvent, slotExecDelay
    <2> QED
      BY <1>2, <2>1
  <1>8. CASE kind = "SLV_BROKEN"
    <2>1. r = slotStatusChanged(Show(h, t, "stopped", "queued"))
      BY <1>8 DEF customEvent, slotExecBroken
    <2> QED
      BY <1>2, <2>1
  <1>9. CASE kind \in {"SLV_SCHEDULED", "SLV_ERROR"}
    <2>1. r = slotTransferTimeout(slotUpdateActions(Show(h, t, "stopped", "scheduled")), due)
      BY <1>9 DEF customEvent, slotExecSchedule, slotExecError
    <2> QED
      BY <1>2, <2>1
  <1>10. CASE kind = "SLV_NOTINCACHE"
    <2>1. r = NotInCache(h, t)
      BY <1>10 DEF customEvent
    <2>2. PICK m \in {"queued", "delayed"} : r = Show(h, t, "stopped", m)
      BY <2>1, NotInCacheFacts
    <2> QED
      BY <1>2, <2>2
  <1> QED
    BY <1>1, <1>3, <1>4, <1>5, <1>6, <1>7, <1>8, <1>9, <1>10

LEMMA CheckMild ==
  ASSUME NEW h \in Records, NEW holds, NEW line \in Lines \ {"no", Astray}
  PROVE  LET k == Check(h, holds, line)
         IN  /\ k \in Records /\ Mild(h, k) /\ k.status = h.status /\ k.mode = h.mode
             /\ k.todo = h.todo
  <1> DEFINE k == Check(h, holds, line)
  <1>1. k \in Records /\ Alike(h, k) /\ k.todo = h.todo
    BY CheckFacts
  <1>2. k.crashed = h.crashed \/ (h.crashed = "no" /\ k.crashed # Astray)
    BY CheckedCrash
  <1> HIDE DEF k
  <1>3. Follows(h, k)
    BY <1>1, <1>2 DEF Follows, Alike
  <1>4. Mild(h, k)
    BY <1>1, <1>3, MildSame DEF Alike
  <1> QED
    BY <1>1, <1>4 DEF Alike, k

LEMMA SlotNames ==
  /\ "transfer.cpp:slotRequestPause" \in Lines \ {"no", Astray}
  /\ "transfer.cpp:slotQueue" \in Lines \ {"no", Astray}
  /\ "transfer.cpp:slotRequestDelay" \in Lines \ {"no", Astray}
  /\ "transfer.cpp:slotRequestSchedule" \in Lines \ {"no", Astray}
  /\ "transfer.cpp:slotResume" \in Lines \ {"no", Astray}
  /\ "PAUSE" \in Commands \ Blocking /\ "RESTART" \in Commands \ Blocking
  /\ "DELAY" \in Commands \ Blocking /\ "SCHEDULE" \in Commands \ Blocking
  /\ "RETR" \in Commands \ Blocking
  /\ "trying" \in Statuses \ Dead /\ "stopped" \in Statuses \ Dead
  /\ "queued" \in Modes /\ "delayed" \in Modes /\ "scheduled" \in Modes
  BY DEF Lines, Astray, Commands, Retrieving, Stopping, Leaving, Blocking, Statuses, Dead, Modes

LEMMA ResumeMild ==
  ASSUME NEW h \in Records, NEW t \in Transfers, h.status[t] \notin Dead
  PROVE  slotResume(h, t) \in Records /\ Mild(h, slotResume(h, t))
  <1> DEFINE n == h.retryCount[t] + 1
             r == IF n > reconnectRetries THEN 1 ELSE n
             q == [h.retryCount EXCEPT ![t] = r]
             a == [h EXCEPT !.retryCount[t] = r]
             b == Check(a, h.status[t] = "stopped", "transfer.cpp:slotResume")
             c == Show(b, t, "trying", "queued")
             d == Do(c, t, "RETR")
  <1>1. slotResume(h, t) = d
    BY DEF slotResume
  <1>2. h.retryCount \in [Transfers -> 0 .. reconnectRetries] /\ reconnectRetries \in Nat \ {0}
    BY RecordFields, KGetAssumption
  <1>3. r \in 0 .. reconnectRetries
    BY <1>2
  <1>4. a = [h EXCEPT !.retryCount = q]
    OBVIOUS
  <1> HIDE DEF r
  <1>5. q \in [Transfers -> 0 .. reconnectRetries]
    BY <1>2, <1>3
  <1> HIDE DEF q, a
  <1>6. /\ a \in Records /\ a.status = h.status /\ a.mode = h.mode /\ a.todo = h.todo
        /\ a.selected = h.selected /\ a.crashed = h.crashed
    BY <1>4, <1>5 DEF Records
  <1>7. Mild(h, a)
    BY <1>6, MildSame DEF Follows
  <1>8. b \in Records /\ Mild(a, b) /\ b.status = a.status
    BY <1>6, SlotNames, CheckMild
  <1> HIDE DEF b
  <1>9. b.status[t] \notin Dead
    BY <1>6, <1>8
  <1>10. c \in Records /\ Mild(b, c) /\ c.status = [b.status EXCEPT ![t] = "trying"]
    <2>1. /\ "queued" # "new" /\ "queued" \in Modes
          /\ "trying" \in Statuses /\ "trying" \in Statuses \ Dead
      BY DEF Modes, Statuses, Dead
    <2>2. c.status = [b.status EXCEPT ![t] = "trying"]
      <3>1. /\ c \in Records /\ c.status = [b.status EXCEPT ![t] = "trying"]
            /\ c.mode = [b.mode EXCEPT ![t] = "queued"]
            /\ c.selected = b.selected /\ c.todo = b.todo
        BY <1>8, <2>1, ShowFacts
      <3> QED
        BY <3>1
    <2>3. c \in Records /\ Mild(b, c)
      BY <1>8, <1>9, <2>1, MildShow
    <2> QED
      BY <2>2, <2>3
  <1>11. b.status \in [Transfers -> Statuses]
    BY <1>8, RecordFields
  <1> HIDE DEF c
  <1>12. c.status[t] \notin Dead
    BY <1>10, <1>11 DEF Dead
  <1>13. d \in Records /\ Mild(c, d)
    BY <1>10, <1>12, SlotNames, MildDo
  <1> HIDE DEF d
  <1>14. Mild(h, b)
    BY <1>6, <1>7, <1>8, MildTwice
  <1>15. Mild(h, c)
    BY <1>8, <1>10, <1>14, MildTwice
  <1>16. Mild(h, d)
    BY <1>10, <1>13, <1>15, MildTwice
  <1> QED
    BY <1>1, <1>13, <1>16

LEMMA SlotMild ==
  ASSUME NEW h \in Records, NEW t \in Transfers, h.status[t] \notin Dead,
         NEW b \in AllButtons \ {"delete"}, NEW due
  PROVE  Slot(b, due, h, t) \in Records /\ Mild(h, Slot(b, due, h, t))
  <1>1. ASSUME NEW c \in Records, Mild(h, c), c.status[t] \notin Dead, c.mode = h.mode,
               NEW m \in {"delayed", "scheduled"}
        PROVE  LET a == Show(c, t, "stopped", m)
               IN  /\ slotStatusChanged(a) \in Records /\ Mild(h, slotStatusChanged(a))
                   /\ slotTransferTimeout(slotUpdateActions(a), due \ {t}) \in Records
                   /\ Mild(h, slotTransferTimeout(slotUpdateActions(a), due \ {t}))
    <2> DEFINE a == Show(c, t, "stopped", m)
               e == slotUpdateActions(a)
    <2>1. m \in Modes /\ m # "new"
      BY SlotNames
    <2>2. a \in Records /\ Mild(c, a)
      BY <1>1, <2>1, SlotNames, MildShow
    <2> HIDE DEF a
    <2>3. Mild(h, a)
      BY <1>1, <2>2, MildTwice
    <2>4. slotStatusChanged(a) \in Records /\ Mild(h, slotStatusChanged(a))
      BY <2>2, <2>3, QueueMild, MildTwice
    <2>5. e \in Records /\ Mild(h, e)
      BY <2>2, <2>3, QueueMild, MildTwice
    <2> HIDE DEF e
    <2>6. /\ slotTransferTimeout(e, due \ {t}) \in Records
          /\ Mild(h, slotTransferTimeout(e, due \ {t}))
      BY <2>5, QueueMild, MildTwice
    <2> QED
      BY <2>4, <2>6 DEF a, e
  <1>2. CASE b = "resume"
    <2>1. Slot(b, due, h, t) = slotResume(h, t)
      BY <1>2 DEF Slot
    <2> QED
      BY <2>1, ResumeMild
  <1>3. CASE b = "pause"
    <2> DEFINE c == Check(h, h.status[t] \in Active, "transfer.cpp:slotRequestPause")
    <2>1. Slot(b, due, h, t) = Do(c, t, "PAUSE")
      BY <1>3 DEF Slot, slotRequestPause
    <2>2. c \in Records /\ Mild(h, c) /\ c.status = h.status
      BY SlotNames, CheckMild
    <2> HIDE DEF c
    <2>3. Do(c, t, "PAUSE") \in Records /\ Mild(c, Do(c, t, "PAUSE"))
      BY <2>2, SlotNames, MildDo
    <2> QED
      BY <2>1, <2>2, <2>3, MildTwice
  <1>4. CASE b = "restart"
    <2>1. Slot(b, due, h, t) = Do(h, t, "RESTART")
      BY <1>4 DEF Slot, slotRequestRestart
    <2> QED
      BY <2>1, SlotNames, MildDo
  <1>5. CASE b = "queue"
    <2> DEFINE c == Check(h, h.mode[t] # "queued", "transfer.cpp:slotQueue")
               q == [c.mode EXCEPT ![t] = "queued"]
               a == [c EXCEPT !.mode = q]
    <2>1. Slot(b, due, h, t) = slotStatusChanged(a)
      <3>1. [c EXCEPT !.mode[t] = "queued"] = a
        OBVIOUS
      <3> QED
        BY <1>5, <3>1 DEF Slot, slotQueue
    <2>2. c \in Records /\ Mild(h, c)
      BY SlotNames, CheckMild
    <2> HIDE DEF c
    <2>3. c.mode \in [Transfers -> Modes]
      BY <2>2, RecordFields
    <2>4. q \in [Transfers -> Modes] /\ \A u \in Transfers : q[u] = "new" => c.mode[u] = "new"
      BY <2>3 DEF Modes
    <2> HIDE DEF q
    <2>5. /\ a \in Records /\ a.mode = q /\ a.status = c.status /\ a.todo = c.todo
          /\ a.selected = c.selected /\ a.crashed = c.crashed
      BY <2>2, <2>4 DEF Records
    <2> HIDE DEF a
    <2>6. Mild(c, a)
      BY <2>4, <2>5, MildSame DEF Follows
    <2>7. Mild(h, a)
      BY <2>2, <2>5, <2>6, MildTwice
    <2>8. slotStatusChanged(a) \in Records /\ Mild(a, slotStatusChanged(a))
      BY <2>5, QueueMild
    <2> QED
      BY <2>1, <2>5, <2>7, <2>8, MildTwice
  <1>6. CASE b = "delay"
    <2> DEFINE c == Check(h, h.mode[t] # "delayed", "transfer.cpp:slotRequestDelay")
    <2>1. Slot(b, due, h, t) = IF h.status[t] = "running" THEN Do(c, t, "DELAY")
                               ELSE slotStatusChanged(Show(c, t, "stopped", "delayed"))
      BY <1>6 DEF Slot, slotRequestDelay, slotExecDelay
    <2>2. c \in Records /\ Mild(h, c) /\ c.status = h.status /\ c.mode = h.mode
      BY SlotNames, CheckMild
    <2> HIDE DEF c
    <2>3. Do(c, t, "DELAY") \in Records /\ Mild(c, Do(c, t, "DELAY"))
      BY <2>2, SlotNames, MildDo
    <2>4. Mild(h, Do(c, t, "DELAY"))
      BY <2>2, <2>3, MildTwice
    <2>5. /\ slotStatusChanged(Show(c, t, "stopped", "delayed")) \in Records
          /\ Mild(h, slotStatusChanged(Show(c, t, "stopped", "delayed")))
      BY <1>1, <2>2
    <2> QED
      BY <2>1, <2>3, <2>4, <2>5
  <1>7. CASE b = "timer"
    <2> DEFINE c == Check(h, h.mode[t] # "scheduled", "transfer.cpp:slotRequestSchedule")
               z == slotTransferTimeout(slotUpdateActions(Show(c, t, "stopped", "scheduled")),
                                        due \ {t})
    <2>1. Slot(b, due, h, t) = IF h.status[t] = "running" THEN Do(c, t, "SCHEDULE") ELSE z
      BY <1>7 DEF Slot, slotRequestSchedule, slotExecSchedule
    <2>2. c \in Records /\ Mild(h, c) /\ c.status = h.status /\ c.mode = h.mode
      BY SlotNames, CheckMild
    <2> HIDE DEF c
    <2>3. Do(c, t, "SCHEDULE") \in Records /\ Mild(c, Do(c, t, "SCHEDULE"))
      BY <2>2, SlotNames, MildDo
    <2>4. Mild(h, Do(c, t, "SCHEDULE"))
      BY <2>2, <2>3, MildTwice
    <2>5. z \in Records /\ Mild(h, z)
      BY <1>1, <2>2
    <2> HIDE DEF z
    <2> QED
      BY <2>1, <2>3, <2>4, <2>5
  <1> QED
    BY <1>2, <1>3, <1>4, <1>5, <1>6, <1>7 DEF AllButtons, Radios

(* A button of the window, and what it leaves selected. *)
LEMMA SelectedMild ==
  ASSUME NEW h \in Records, Listed(h), NEW b \in AllButtons \ {"delete"}, NEW due
  PROVE  EachSelected(h, b, due) \in Records /\ Mild(h, EachSelected(h, b, due))
  <1> DEFINE L == Len(Order)
             r == EachSelected(h, b, due)
  <1>1. L \in Nat /\ \A n \in 1 .. L : Order[n] \in Transfers
    BY KGetAssumption
  <1>2. PICK f \in [0 .. L -> Records] :
           /\ f[0] = h /\ f[L] = r
           /\ \A n \in 1 .. L : f[n] = SlotIfSelected(b, due, f[n - 1], Order[n])
    BY SelectedLoop
  <1> HIDE DEF r
  <1> DEFINE N == {n \in 0 .. L : Mild(h, f[n])}
  <1>3. 0 \in N
    BY <1>1, <1>2, MildSame DEF Follows
  <1>4. ASSUME NEW n \in 1 .. L, n - 1 \in N PROVE n \in N
    <2> DEFINE a == f[n - 1]
               t == Order[n]
    <2>1. f[n] = SlotIfSelected(b, due, a, t) /\ t \in Transfers /\ a \in Records
      BY <1>1, <1>2
    <2>2. Mild(h, a)
      BY <1>4
    <2>3. f[n] \in Records
      BY <1>1, <1>2
    <2> HIDE DEF a, t
    <2>4. CASE t \notin a.selected
      <3>1. f[n] = a
        BY <2>1, <2>4 DEF SlotIfSelected
      <3> QED
        BY <1>1, <2>2, <3>1
    <2>5. CASE t \in a.selected
      <3>1. a.selected = h.selected
        BY <2>2 DEF Mild, Follows
      <3>2. h.status[t] \notin Dead
        BY <2>1, <2>5, <3>1 DEF Listed, Dead
      <3>3. a.status[t] \notin Dead
        BY <2>1, <2>2, <3>2 DEF Mild
      <3>4. f[n] = Slot(b, due, a, t)
        BY <2>1, <2>5 DEF SlotIfSelected
      <3>5. Mild(a, f[n])
        BY <2>1, <3>3, <3>4, SlotMild
      <3>6. Mild(h, f[n])
        BY <2>1, <2>2, <2>3, <3>5, MildTwice
      <3> QED
        BY <1>1, <3>6
    <2> QED
      BY <2>4, <2>5
  <1> HIDE DEF N
  <1>5. \A n \in 0 .. L : n \in N
    BY <1>1, <1>3, <1>4, Counting
  <1>6. L \in N
    BY <1>1, <1>5
  <1> QED
    BY <1>1, <1>2, <1>6 DEF N, r

----------------------------------------------------------------------------
(* The Delete button: each selected transfer is asked once, to remove       *)
(* itself while it runs; otherwise it goes at once.                        *)

Asked(h, u) == {i \in DOMAIN h.todo : h.todo[i].t = u}

(* What Delete does to u when its turn comes. *)
Deleting(h, k, u) ==
    \/ /\ k.status[u] = h.status[u]
       /\ \E i : Asked(k, u) = {i} /\ k.todo[i].do = "REMOVE"
    \/ /\ k.status[u] = "gone"
       /\ \A i \in Asked(k, u) : k.todo[i].do = "abort"

Untouched(h, k, u) ==
    /\ k.status[u] = h.status[u] /\ (u \in k.selected <=> u \in h.selected)
    /\ Asked(k, u) = Asked(h, u) /\ \A i \in Asked(h, u) : k.todo[i] = h.todo[i]

LEMMA DoAsked ==
  ASSUME NEW h \in Records, NEW t \in Transfers, NEW c \in Commands \cup {"abort", "join"}
  PROVE  LET k == Do(h, t, c)
             n == Len(h.todo) + 1
         IN  /\ Asked(k, t) = Asked(h, t) \cup {n} /\ k.todo[n].do = c
             /\ \A u : u # t => Asked(k, u) = Asked(h, u)
             /\ \A i \in DOMAIN h.todo : k.todo[i] = h.todo[i]
  <1> DEFINE q == h.todo
             n == Len(q) + 1
             o == [t |-> t, do |-> c]
             k == Do(h, t, c)
  <1>1. q \in Seq(Ops) /\ k.todo = Append(q, o)
    BY RecordFields, DoFacts
  <1>2. o \in Ops /\ o.t = t /\ o.do = c
    BY DEF Ops
  <1> HIDE DEF q, k, o
  <1>3. /\ DOMAIN q = 1 .. Len(q) /\ Len(q) \in Nat /\ DOMAIN Append(q, o) = 1 .. Len(q) + 1
        /\ \A i \in 1 .. Len(q) : Append(q, o)[i] = q[i]
        /\ Append(q, o)[Len(q) + 1] = o
    BY <1>1, <1>2
  <1>4. /\ DOMAIN k.todo = DOMAIN q \cup {n} /\ k.todo[n] = o
        /\ \A i \in DOMAIN q : k.todo[i] = q[i]
    BY <1>1, <1>3
  <1> QED
    BY <1>2, <1>4 DEF Asked, q, k

LEMMA DeleteStep ==
  ASSUME NEW h \in Records, NEW t \in Transfers, Asked(h, t) = {}
  PROVE  LET k == slotRequestRemove(h, t)
         IN  /\ k \in Records /\ k.crashed = h.crashed /\ k.selected \subseteq h.selected
             /\ \A u \in Transfers : k.mode[u] = "new" => h.mode[u] = "new"
             /\ \A u \in Transfers \ {t} : Untouched(h, k, u)
             /\ Deleting(h, k, t)
  <1> DEFINE k == slotRequestRemove(h, t)
  <1>1. CASE h.status[t] = "running"
    <2> DEFINE n == Len(h.todo) + 1
    <2>1. k = Do(h, t, "REMOVE")
      BY <1>1 DEF slotRequestRemove
    <2>2. "REMOVE" \in Commands \cup {"abort", "join"}
      BY SlotCommands
    <2>3. k \in Records /\ Alike(h, k) /\ k.crashed = h.crashed
      <3>1. k.crashed = h.crashed
        BY <2>1, CrashKept
      <3>2. Do(h, t, "REMOVE") \in Records /\ Alike(h, Do(h, t, "REMOVE"))
        BY <2>2, DoFacts
      <3> QED
        BY <2>1, <3>1, <3>2
    <2>4. /\ Asked(k, t) = Asked(h, t) \cup {n} /\ k.todo[n].do = "REMOVE"
          /\ \A u : u # t => Asked(k, u) = Asked(h, u)
          /\ \A i \in DOMAIN h.todo : k.todo[i] = h.todo[i]
      BY <2>1, <2>2, DoAsked
    <2> HIDE DEF k, n
    <2>5. Deleting(h, k, t)
      BY <2>3, <2>4 DEF Deleting, Alike
    <2>6. \A u \in Transfers \ {t} : Untouched(h, k, u)
      BY <2>3, <2>4 DEF Untouched, Alike, Asked
    <2> QED
      BY <2>3, <2>5, <2>6 DEF k, Alike
  <1>2. CASE h.status[t] # "running"
    <2> DEFINE x == Show(h, t, "gone", "none")
               S == x.selected \ {t}
               y == [x EXCEPT !.selected = S]
               n == Len(y.todo) + 1
    <2>1. k = Do(y, t, "abort")
      BY <1>2 DEF slotRequestRemove, deleteItem
    <2>2. /\ "gone" \in Statuses /\ "none" \in Modes /\ "abort" \in Commands \cup {"abort", "join"}
          /\ h.status \in [Transfers -> Statuses] /\ h.mode \in [Transfers -> Modes]
          /\ h.selected \subseteq Transfers
      BY RecordFields DEF Statuses, Modes
    <2>3. /\ x \in Records /\ x.status = [h.status EXCEPT ![t] = "gone"]
          /\ x.mode = [h.mode EXCEPT ![t] = "none"]
          /\ x.selected = h.selected /\ x.todo = h.todo
      BY <2>2, ShowFacts
    <2>4. x.crashed = h.crashed
      BY CrashKept
    <2> HIDE DEF x
    <2>5. S \subseteq Transfers /\ S = h.selected \ {t}
      BY <2>2, <2>3
    <2> HIDE DEF S
    <2>6. /\ y \in Records /\ y.status = x.status /\ y.mode = x.mode /\ y.selected = S
          /\ y.todo = x.todo /\ y.crashed = x.crashed
      BY <2>3, <2>5 DEF Records
    <2> HIDE DEF y
    <2>7. k \in Records /\ Alike(y, k) /\ k.crashed = y.crashed
      <3>1. k.crashed = y.crashed
        BY <2>1, <2>6, CrashKept
      <3>2. Do(y, t, "abort") \in Records /\ Alike(y, Do(y, t, "abort"))
        BY <2>2, <2>6, DoFacts
      <3> QED
        BY <2>1, <3>1, <3>2
    <2>8. /\ Asked(k, t) = Asked(y, t) \cup {n} /\ k.todo[n].do = "abort"
          /\ \A u : u # t => Asked(k, u) = Asked(y, u)
          /\ \A i \in DOMAIN y.todo : k.todo[i] = y.todo[i]
      BY <2>1, <2>2, <2>6, DoAsked
    <2>9. y.todo = h.todo /\ \A u : Asked(y, u) = Asked(h, u)
      BY <2>3, <2>6 DEF Asked
    <2> HIDE DEF k, n
    <2>10. /\ Asked(k, t) = Asked(h, t) \cup {n} /\ k.todo[n].do = "abort"
           /\ \A u : u # t => Asked(k, u) = Asked(h, u)
           /\ \A i \in DOMAIN h.todo : k.todo[i] = h.todo[i]
      BY <2>8, <2>9
    <2>11. /\ k.status = [h.status EXCEPT ![t] = "gone"] /\ k.mode = [h.mode EXCEPT ![t] = "none"]
           /\ k.selected = h.selected \ {t} /\ k.crashed = h.crashed
      BY <2>3, <2>4, <2>5, <2>6, <2>7 DEF Alike
    <2>12. Deleting(h, k, t)
      <3>1. k.status[t] = "gone"
        BY <2>2, <2>11
      <3>2. \A i \in Asked(k, t) : k.todo[i].do = "abort"
        BY <2>10
      <3> QED
        BY <3>1, <3>2 DEF Deleting
    <2>13. ASSUME NEW u \in Transfers \ {t} PROVE Untouched(h, k, u)
      <3>1. k.status[u] = h.status[u] /\ (u \in k.selected <=> u \in h.selected)
        BY <2>2, <2>11
      <3>2. Asked(k, u) = Asked(h, u) /\ Asked(h, u) \subseteq DOMAIN h.todo
        BY <2>10 DEF Asked
      <3> QED
        BY <2>10, <3>1, <3>2 DEF Untouched
    <2>14. \A u \in Transfers : k.mode[u] = "new" => h.mode[u] = "new"
      BY <2>2, <2>11
    <2> QED
      BY <2>7, <2>11, <2>12, <2>13, <2>14 DEF k
  <1> QED
    BY <1>1, <1>2

LEMMA DeletingLater ==
  ASSUME NEW g, NEW h, NEW k, NEW u, Deleting(g, h, u), Untouched(h, k, u)
  PROVE  Deleting(g, k, u)
  BY DEF Deleting, Untouched

(* What the Delete button has done to all of them. *)
DeletesOnly(h, k) ==
    /\ k.crashed = h.crashed
    /\ \A u \in Transfers : k.mode[u] = "new" => h.mode[u] = "new"
    /\ \A u \in Transfers : \/ k.status[u] = h.status[u] /\ Asked(k, u) = {}
                            \/ u \in h.selected /\ Deleting(h, k, u)

LEMMA DeleteAll ==
  ASSUME NEW h \in Records, h.todo = <<>>
  PROVE  /\ EachSelected(h, "delete", {}) \in Records
         /\ DeletesOnly(h, EachSelected(h, "delete", {}))
  <1> DEFINE L == Len(Order)
             r == EachSelected(h, "delete", {})
  <1>1. L \in Nat /\ \A n \in 1 .. L : Order[n] \in Transfers
    BY KGetAssumption
  <1>2. \A m, n \in 1 .. L : Order[m] = Order[n] => m = n
    BY KGetAssumption
  <1> DEFINE b == "delete"
             due == {}
  <1>3. b \in AllButtons
    BY ButtonNames
  <1>4. PICK f \in [0 .. L -> Records] :
           /\ f[0] = h /\ f[L] = r
           /\ \A n \in 1 .. L : f[n] = SlotIfSelected("delete", {}, f[n - 1], Order[n])
    <2> DEFINE e == EachSelected(h, b, due)
    <2> HIDE DEF b, due
    <2>1. \E f \in [0 .. L -> Records] :
             /\ f[0] = h /\ f[L] = e
             /\ \A n \in 1 .. L : f[n] = SlotIfSelected(b, due, f[n - 1], Order[n])
      BY <1>3, SelectedLoop
    <2> QED
      BY <2>1 DEF b, due
  <1> HIDE DEF r
  <1> DEFINE Waiting(k, n) == \A m \in 1 .. L : m > n =>
                 /\ k.status[Order[m]] = h.status[Order[m]]
                 /\ Asked(k, Order[m]) = {}
                 /\ Order[m] \in k.selected => Order[m] \in h.selected
             Half(k, n) == DeletesOnly(h, k) /\ Waiting(k, n)
             N == {n \in 0 .. L : Half(f[n], n)}
  <1>5. 0 \in N
    <2>1. \A u : Asked(h, u) = {}
      BY DEF Asked
    <2> QED
      BY <1>1, <1>4, <2>1 DEF DeletesOnly
  <1>6. ASSUME NEW n \in 1 .. L, n - 1 \in N PROVE n \in N
    <2> DEFINE a == f[n - 1]
               c == f[n]
               t == Order[n]
    <2>1. c = SlotIfSelected("delete", {}, a, t) /\ t \in Transfers /\ a \in Records
      BY <1>1, <1>4
    <2>2. DeletesOnly(h, a) /\ Waiting(a, n - 1)
      BY <1>6
    <2> SUFFICES Half(c, n)
      BY <1>1
    <2> HIDE DEF a, c
    <2>3. n > n - 1 /\ \A m \in 1 .. L : m > n => m > n - 1
      BY <1>1
    <2>4. /\ a.status[t] = h.status[t] /\ Asked(a, t) = {}
          /\ t \in a.selected => t \in h.selected
      BY <2>2, <2>3
    <2>5. \A m \in 1 .. L : m > n =>
             /\ Order[m] \in Transfers \ {t}
             /\ a.status[Order[m]] = h.status[Order[m]] /\ Asked(a, Order[m]) = {}
             /\ Order[m] \in a.selected => Order[m] \in h.selected
      <3> SUFFICES ASSUME NEW m \in 1 .. L, m > n
                   PROVE  /\ Order[m] \in Transfers \ {t}
                          /\ a.status[Order[m]] = h.status[Order[m]] /\ Asked(a, Order[m]) = {}
                          /\ Order[m] \in a.selected => Order[m] \in h.selected
        OBVIOUS
      <3>1. m # n
        OBVIOUS
      <3>2. Order[m] \in Transfers \ {t}
        BY <1>1, <1>2, <3>1
      <3> QED
        BY <2>2, <2>3, <3>2
    <2> HIDE DEF t
    <2>6. CASE t \notin a.selected
      <3>1. c = a
        BY <2>1, <2>6 DEF SlotIfSelected
      <3>2. Waiting(c, n)
        BY <2>5, <3>1
      <3> QED
        BY <2>2, <3>1, <3>2
    <2>7. CASE t \in a.selected
      <3>1. c = slotRequestRemove(a, t)
        BY <2>1, <2>7 DEF SlotIfSelected, Slot
      <3>2. /\ c \in Records /\ c.crashed = a.crashed /\ c.selected \subseteq a.selected
            /\ \A u \in Transfers : c.mode[u] = "new" => a.mode[u] = "new"
            /\ \A u \in Transfers \ {t} : Untouched(a, c, u)
            /\ Deleting(a, c, t)
        BY <2>1, <2>4, <3>1, DeleteStep
      <3>3. ASSUME NEW u \in Transfers
            PROVE  \/ c.status[u] = h.status[u] /\ Asked(c, u) = {}
                   \/ u \in h.selected /\ Deleting(h, c, u)
        <4>1. CASE u = t
          <5>1. Deleting(h, c, u)
            BY <2>4, <3>2, <4>1 DEF Deleting
          <5> QED
            BY <2>4, <2>7, <4>1, <5>1
        <4>2. CASE u # t /\ u \in h.selected /\ Deleting(h, a, u)
          BY <3>2, <4>2, DeletingLater
        <4>3. CASE u # t /\ a.status[u] = h.status[u] /\ Asked(a, u) = {}
          BY <3>2, <4>3 DEF Untouched
        <4> QED
          BY <2>2, <4>1, <4>2, <4>3 DEF DeletesOnly
      <3>4. DeletesOnly(h, c)
        BY <2>2, <3>2, <3>3 DEF DeletesOnly
      <3>5. Waiting(c, n)
        BY <2>5, <3>2 DEF Untouched
      <3> QED
        BY <3>4, <3>5
    <2> QED
      BY <2>6, <2>7
  <1> HIDE DEF N
  <1>7. \A n \in 0 .. L : n \in N
    BY <1>1, <1>5, <1>6, Counting
  <1>8. L \in N
    BY <1>1, <1>7
  <1> QED
    BY <1>1, <1>4, <1>8 DEF N, r

----------------------------------------------------------------------------
(* The life of a transfer, from the first command to the end of its thread. *)
(* What is under way for t: operations the main thread has still to make    *)
(* (todo, op), commands its slave has still to take (stack, cmd), answers   *)
(* (events).                                                               *)

Ending == {"KILL", "REMOVE"}
Awake == {"dispatch", "kill", "act"}

Unasked(t, C) ==
    /\ \A k \in DOMAIN todo : todo[k].t = t => todo[k].do \notin C
    /\ op.t = t => op.cmd \notin C
Unsent(t, C) ==
    /\ \A k \in DOMAIN stack[t] : stack[t][k] \notin C
    /\ cmd[t] \notin C
NoEvents(t) == \A k \in DOMAIN events : events[k].t # t
NoRemoved(t) == \A k \in DOMAIN events : events[k].t = t => events[k].kind # "SLV_REMOVED"
RemovedLast(t) ==
    \A k, l \in DOMAIN events :
        events[k].t = t /\ events[k].kind = "SLV_REMOVED" /\ events[l].t = t => l <= k

(* Commands are taken when there are some. *)
Obeys(t) ==
    /\ pc[t] = "fetch" => stack[t] # <<>>
    /\ cmd[t] # "NOOP" <=> pc[t] \in Awake

Unborn(t) ==
    /\ pc[t] = "none" /\ stack[t] = <<>> /\ NoEvents(t) /\ op.t # t
    /\ \A k \in DOMAIN todo : todo[k].t # t

(* Nothing is to end it, or all that ends it is done but for the answer. *)
Free(t) ==
    /\ Unasked(t, Blocking) /\ Unsent(t, Ending)
    /\ pc[t] \in {"none", "exit"} => RemovedLast(t)

(* REMOVE is on its way: as an operation, in the stack below all else, and  *)
(* taken.                                                                  *)
FirstAsked(q, t) ==
    \E k \in DOMAIN q :
        /\ q[k].t = t /\ q[k].do = "REMOVE"
        /\ \A l \in DOMAIN q : q[l].t = t => l >= k /\ (q[l].do \in Blocking => l = k)
RemoveAsked(t) ==
    /\ stack[t] = <<>> /\ cmd[t] = "NOOP" /\ pc[t] # "exit" /\ NoEvents(t)
    /\ \/ /\ op.t = t /\ op.cmd = "REMOVE"
          /\ \A k \in DOMAIN todo : todo[k].t = t => todo[k].do \notin Blocking
       \/ op.t # t /\ FirstAsked(todo, t)
RemoveSent(t) ==
    /\ Unasked(t, Blocking) /\ cmd[t] \notin Ending /\ NoRemoved(t) /\ pc[t] # "exit"
    /\ stack[t] # <<>> /\ stack[t][Len(stack[t])] = "REMOVE"
    /\ \A k \in DOMAIN stack[t] : k < Len(stack[t]) => stack[t][k] \notin Ending
Removing(t) ==
    /\ Unasked(t, Blocking) /\ cmd[t] = "REMOVE" /\ NoRemoved(t)
    /\ \A k \in DOMAIN stack[t] : stack[t][k] \notin Ending

(* Deleted: by ~Transfer, after REMOVED, or after a REMOVED whose thread    *)
(* has begun again, for which the main thread waits in vain.               *)
Killed(t) ==
    /\ NoEvents(t) /\ (op.t = t => op.cmd = "KILL")
    /\ \A k \in DOMAIN todo : todo[k].t = t => todo[k].do \in {"KILL", "abort", "join"}
    /\ \A k \in DOMAIN stack[t] : stack[t][k] = "KILL"
    /\ cmd[t] \in {"NOOP", "KILL"}
Over(t) ==
    /\ NoEvents(t) /\ op.t # t
    /\ \A k \in DOMAIN todo : todo[k].t = t => todo[k].do \in {"abort", "join"}
    /\ pc[t] \in {"none", "exit"}
    /\ pc[t] = "exit" => todo # <<>> /\ Head(todo) = [t |-> t, do |-> "join"]
Stuck(t) ==
    /\ Unsent(t, Ending) /\ pc[t] \notin {"none", "exit"}
    /\ op = NoOp /\ todo # <<>> /\ Head(todo) = [t |-> t, do |-> "join"]

Alive(t) == Free(t) \/ RemoveAsked(t) \/ RemoveSent(t) \/ Removing(t)
Ended(t) == Killed(t) \/ Over(t) \/ Stuck(t)
Life(t) ==
    /\ Obeys(t)
    /\ status[t] = "absent" => Unborn(t)
    /\ status[t] = "gone" => Ended(t)
    /\ status[t] \notin Dead => Alive(t)

(* A signal is delivered between two handlers, of a transfer that is there. *)
EmitInv == emitting.t # NoTransfer => op = NoOp /\ todo = <<>> /\ status[emitting.t] \notin Dead
ConnectedInv == \A k \in DOMAIN events : events[k].kind = "SLV_CONNECTED" => mode[events[k].t] # "new"

Lives == \A t \in Transfers : Life(t)
LInv == KInv /\ Lives /\ EmitInv /\ ConnectedInv /\ crashed # Astray

----------------------------------------------------------------------------
(* The queue of events, seen by one transfer. *)
Events == [t : Transfers, kind : EventKinds]

Unheard(u) ==
    /\ NoEvents(u) => NoEvents(u)'
    /\ NoRemoved(u) => NoRemoved(u)'
    /\ RemovedLast(u) => RemovedLast(u)'

LEMMA PostEvents ==
  ASSUME events \in Seq(Events), NEW t \in Transfers, NEW kind \in EventKinds, Post(t, kind)
  PROVE  /\ \A u : u # t => Unheard(u)
         /\ kind # "SLV_REMOVED" /\ NoRemoved(t) => NoRemoved(t)'
         /\ kind = "SLV_REMOVED" /\ NoRemoved(t) => RemovedLast(t)'
         /\ \A k \in DOMAIN events' :
               \/ k \in DOMAIN events /\ events'[k] = events[k]
               \/ events'[k] = [t |-> t, kind |-> kind]
  <1> DEFINE e == [t |-> t, kind |-> kind]
             n == Len(events) + 1
  <1>1. e \in Events /\ e.t = t /\ e.kind = kind /\ events' = Append(events, e)
    BY DEF Events, Post
  <1> HIDE DEF e
  <1>2. /\ DOMAIN events = 1 .. Len(events) /\ Len(events) \in Nat
        /\ DOMAIN Append(events, e) = 1 .. Len(events) + 1
        /\ \A i \in 1 .. Len(events) : Append(events, e)[i] = events[i]
        /\ Append(events, e)[Len(events) + 1] = e
    BY <1>1
  <1>3. /\ DOMAIN events' = DOMAIN events \cup {n} /\ events'[n] = e
        /\ \A i \in DOMAIN events : events'[i] = events[i] /\ i <= n /\ i # n /\ ~(n <= i)
    BY <1>1, <1>2
  <1> HIDE DEF n
  <1>4. ASSUME NEW u, u # t PROVE Unheard(u)
    BY <1>1, <1>3, <1>4 DEF Unheard, NoEvents, NoRemoved, RemovedLast
  <1>5. kind # "SLV_REMOVED" /\ NoRemoved(t) => NoRemoved(t)'
    BY <1>1, <1>3 DEF NoRemoved
  <1>6. ASSUME kind = "SLV_REMOVED", NoRemoved(t) PROVE RemovedLast(t)'
    <2>1. n <= n
      BY <1>2 DEF n
    <2> QED
      BY <1>1, <1>3, <1>6, <2>1 DEF NoRemoved, RemovedLast
  <1> QED
    BY <1>1, <1>3, <1>4, <1>5, <1>6 DEF e

LEMMA TailEvents ==
  ASSUME events \in Seq(Events), events # <<>>, events' = Tail(events),
         NEW t, Head(events).t = t
  PROVE  /\ \A u : Unheard(u)
         /\ RemovedLast(t) /\ Head(events).kind = "SLV_REMOVED" => NoEvents(t)'
         /\ \A k \in DOMAIN events' : \E l \in DOMAIN events : events'[k] = events[l]
         /\ \E l \in DOMAIN events : Head(events) = events[l]
  <1>1. /\ Len(events) \in Nat \ {0} /\ DOMAIN events = 1 .. Len(events)
        /\ DOMAIN Tail(events) = 1 .. Len(events) - 1
        /\ \A i \in 1 .. Len(events) - 1 : Tail(events)[i] = events[i + 1]
        /\ Head(events) = events[1]
    OBVIOUS
  <1>2. \A i \in DOMAIN events' : i \in Nat /\ i + 1 \in DOMAIN events /\ events'[i] = events[i + 1]
    BY <1>1
  <1>3. ASSUME NEW u PROVE Unheard(u)
    <2>1. NoEvents(u) => NoEvents(u)'
      BY <1>2 DEF NoEvents
    <2>2. NoRemoved(u) => NoRemoved(u)'
      BY <1>2 DEF NoRemoved
    <2>3. ASSUME RemovedLast(u), NEW k \in DOMAIN events', NEW l \in DOMAIN events',
                 events'[k].t = u, events'[k].kind = "SLV_REMOVED", events'[l].t = u
          PROVE  l <= k
      <3>1. l + 1 <= k + 1
        BY <1>2, <2>3 DEF RemovedLast
      <3> QED
        BY <1>2, <3>1
    <2> QED
      BY <2>1, <2>2, <2>3 DEF Unheard, RemovedLast
  <1>4. ASSUME RemovedLast(t), Head(events).kind = "SLV_REMOVED",
               NEW k \in DOMAIN events', events'[k].t = t
        PROVE  FALSE
    <2>1. k + 1 <= 1
      BY <1>1, <1>2, <1>4 DEF RemovedLast
    <2>2. k \in 1 .. Len(events) - 1
      BY <1>1
    <2> QED
      BY <1>1, <2>1, <2>2
  <1>5. \E l \in DOMAIN events : Head(events) = events[l]
    BY <1>1
  <1>6. \A k \in DOMAIN events' : \E l \in DOMAIN events : events'[k] = events[l]
    BY <1>2
  <1>7. RemovedLast(t) /\ Head(events).kind = "SLV_REMOVED" => NoEvents(t)'
    BY <1>4 DEF NoEvents
  <1> QED
    BY <1>3, <1>5, <1>6, <1>7

LEMMA SameEvents ==
  ASSUME events' = events
  PROVE  \A u : Unheard(u)
  BY DEF Unheard, NoEvents, NoRemoved, RemovedLast

(* A transfer that a step passes by. *)
LEMMA LifeKept ==
  ASSUME NEW u \in Transfers, Life(u), Unheard(u),
         status'[u] = status[u], stack'[u] = stack[u], pc'[u] = pc[u], cmd'[u] = cmd[u],
         todo' = todo, op' = op \/ (op.t # u /\ op' = NoOp)
  PROVE  Life(u)'
  <1>1. NoOp.t # u
    BY SlaveAssumption DEF NoOp
  <1>2. Obeys(u)'
    BY DEF Obeys, Life
  <1>3. \A C : Unasked(u, C) => Unasked(u, C)'
    BY <1>1 DEF Unasked
  <1>4. \A C : Unsent(u, C) => Unsent(u, C)'
    BY DEF Unsent
  <1>5. Unborn(u) => Unborn(u)'
    BY <1>1 DEF Unborn, Unheard
  <1>6. Free(u) => Free(u)'
    BY <1>3, <1>4 DEF Free, Unheard
  <1>7. RemoveAsked(u) => RemoveAsked(u)'
    BY <1>1 DEF RemoveAsked, Unheard
  <1>8. RemoveSent(u) => RemoveSent(u)'
    BY <1>3 DEF RemoveSent, Unheard
  <1>9. Removing(u) => Removing(u)'
    BY <1>3 DEF Removing, Unheard
  <1>10. Killed(u) => Killed(u)'
    BY <1>1 DEF Killed, Unheard
  <1>11. Over(u) => Over(u)'
    BY <1>1 DEF Over, Unheard
  <1>12. Stuck(u) => Stuck(u)'
    BY <1>4 DEF Stuck
  <1> QED
    BY <1>2, <1>5, <1>6, <1>7, <1>8, <1>9, <1>10, <1>11, <1>12 DEF Life, Alive, Ended

(* The conditions under which the life of a transfer takes its course.      *)
Calm == Patient /\ ~SpuriousWakeups /\ ~b_removeOnSuccess /\ "offline" \notin UserOps

LEMMA LifeTypes ==
  ASSUME LInv
  PROVE  /\ stack \in [Transfers -> Seq(Commands)] /\ pc \in [Transfers -> PCs]
         /\ cmd \in [Transfers -> Commands \cup {"NOOP"}]
         /\ copyjob \in [Transfers -> {"none", "new", "sized"}]
         /\ events \in Seq(Events) /\ todo \in Seq(Ops)
         /\ op \in [t : Transfers \cup {NoTransfer}, cmd : Commands \cup {"NOOP"}]
         /\ (op.t \in Transfers => op.cmd \in Commands)
         /\ emitting \in [t : Transfers \cup {NoTransfer}, valid : BOOLEAN]
  BY DEF LInv, KInv, SlaveInv, SlaveTypeOK, TypeOK, Events, Ops

(* What a step of its slave does to t. *)
LEMMA TurnLife ==
  ASSUME LInv, Calm, NEW t \in Transfers,
         CheckPending(t) \/ Sleep(t) \/ SpuriousWake(t) \/ Dispatch(t) \/ Exit(t),
         UNCHANGED kvars
  PROVE  Life(t)'
  <1>1. /\ UNCHANGED <<stack, cmd, events, op, status, todo>>
        /\ pc' = [pc EXCEPT ![t] = pc'[t]] /\ pc \in [Transfers -> PCs]
        /\ pc'[t] \in PCs
    BY LifeTypes DEF CheckPending, Sleep, SpuriousWake, Dispatch, Exit, kvars, PCs
  <1>2. /\ pc[t] \in {"none", "exit"} <=> pc'[t] \in {"none", "exit"}
        /\ pc'[t] = "exit" => pc[t] = "exit"
        /\ pc[t] \in Awake <=> pc'[t] \in Awake
        /\ pc'[t] = "fetch" => stack[t] # <<>>
        /\ pc[t] = "none" => FALSE
    BY LifeTypes DEF CheckPending, Sleep, SpuriousWake, Dispatch, Exit, Calm, Awake
  <1>3. Life(t)
    BY DEF LInv, Lives
  <1>4. Obeys(t)'
    BY <1>1, <1>2, <1>3 DEF Life, Obeys
  <1>5. /\ NoEvents(t) => NoEvents(t)'
        /\ NoRemoved(t) => NoRemoved(t)'
        /\ RemovedLast(t) => RemovedLast(t)'
    BY <1>1 DEF NoEvents, NoRemoved, RemovedLast
  <1>6. /\ \A C : Unasked(t, C) => Unasked(t, C)'
        /\ \A C : Unsent(t, C) => Unsent(t, C)'
    BY <1>1 DEF Unasked, Unsent
  <1>7. Free(t) => Free(t)'
    BY <1>2, <1>5, <1>6 DEF Free
  <1>8. RemoveAsked(t) => RemoveAsked(t)'
    BY <1>1, <1>2, <1>5 DEF RemoveAsked
  <1>9. RemoveSent(t) => RemoveSent(t)'
    BY <1>1, <1>2, <1>5, <1>6 DEF RemoveSent
  <1>10. Removing(t) => Removing(t)'
    BY <1>1, <1>5, <1>6 DEF Removing
  <1>11. Killed(t) => Killed(t)'
    BY <1>1, <1>5 DEF Killed
  <1>12. Over(t) => Over(t)'
    BY <1>1, <1>2, <1>5 DEF Over
  <1>13. Stuck(t) => Stuck(t)'
    BY <1>1, <1>2, <1>6 DEF Stuck
  <1>14. ~Unborn(t)
    BY <1>2 DEF Unborn
  <1> QED
    BY <1>1, <1>3, <1>4, <1>7, <1>8, <1>9, <1>10, <1>11, <1>12, <1>13, <1>14 DEF Life, Alive, Ended

LEMMA FetchLife ==
  ASSUME LInv, NEW t \in Transfers, FetchCmd(t), UNCHANGED kvars
  PROVE  Life(t)'
  <1> DEFINE s == stack[t]
  <1>1. Life(t) /\ pc[t] = "fetch"
    BY DEF LInv, Lives, FetchCmd
  <1>2. s \in Seq(Commands) /\ s # <<>>
    BY <1>1, LifeTypes DEF Life, Obeys
  <1>3. /\ UNCHANGED <<events, op, status, todo>>
        /\ stack'[t] = Tail(s) /\ cmd'[t] = Head(s) /\ pc'[t] = "dispatch"
    BY <1>2, LifeTypes DEF FetchCmd, kvars
  <1> HIDE DEF s
  <1>4. /\ Len(s) \in Nat \ {0} /\ DOMAIN s = 1 .. Len(s) /\ Head(s) = s[1]
        /\ Len(Tail(s)) = Len(s) - 1 /\ DOMAIN Tail(s) = 1 .. Len(s) - 1
        /\ \A i \in 1 .. Len(s) - 1 : Tail(s)[i] = s[i + 1]
    BY <1>2
  <1>5. Head(s) \in Commands /\ Head(s) # "NOOP" /\ 1 \in DOMAIN s
    BY <1>2, <1>4 DEF Commands
  <1>6. \A i \in DOMAIN Tail(s) : i + 1 \in DOMAIN s /\ Tail(s)[i] = s[i + 1]
    BY <1>4
  <1>7. Obeys(t)'
    BY <1>3, <1>5 DEF Obeys, Awake
  <1>8. cmd[t] = "NOOP"
    BY <1>1 DEF Life, Obeys, Awake
  <1>9. /\ NoEvents(t) => NoEvents(t)'
        /\ NoRemoved(t) => NoRemoved(t)'
    BY <1>3 DEF NoEvents, NoRemoved
  <1>10. \A C : Unasked(t, C) => Unasked(t, C)'
    BY <1>3 DEF Unasked
  <1>11. \A C : Unsent(t, C) => Unsent(t, C)'
    BY <1>3, <1>4, <1>5, <1>6 DEF Unsent, s
  <1>12. Free(t) => Free(t)'
    BY <1>3, <1>10, <1>11 DEF Free
  <1>13. ~RemoveAsked(t) /\ ~Removing(t) /\ ~Unborn(t) /\ ~Over(t)
    BY <1>1, <1>2, <1>8 DEF RemoveAsked, Removing, Unborn, Over, s
  <1>14. ASSUME RemoveSent(t) PROVE RemoveSent(t)' \/ Removing(t)'
    <2>1. /\ Unasked(t, Blocking)' /\ NoRemoved(t)' /\ s[Len(s)] = "REMOVE"
          /\ \A k \in DOMAIN s : k < Len(s) => s[k] \notin Ending
      BY <1>9, <1>10, <1>14 DEF RemoveSent, s
    <2>2. CASE Len(s) = 1
      <3>1. cmd'[t] = "REMOVE" /\ DOMAIN stack'[t] = {}
        BY <1>3, <1>4, <2>1, <2>2
      <3> QED
        BY <2>1, <3>1 DEF Removing
    <2>3. CASE Len(s) # 1
      <3>1. Head(s) \notin Ending
        BY <1>4, <2>1, <2>3
      <3>2. Tail(s) # <<>> /\ Tail(s)[Len(Tail(s))] = "REMOVE"
        BY <1>4, <2>1, <2>3
      <3>3. \A k \in DOMAIN Tail(s) : k < Len(Tail(s)) => Tail(s)[k] \notin Ending
        BY <1>4, <1>6, <2>1
      <3> QED
        BY <1>3, <2>1, <3>1, <3>2, <3>3 DEF RemoveSent
    <2> QED
      BY <2>2, <2>3
  <1>15. Killed(t) => Killed(t)'
    BY <1>3, <1>4, <1>5, <1>6, <1>9 DEF Killed, s
  <1>16. Stuck(t) => Stuck(t)'
    BY <1>3, <1>11 DEF Stuck
  <1> QED
    BY <1>1, <1>3, <1>7, <1>12, <1>13, <1>14, <1>15, <1>16 DEF Life, Alive, Ended

LEMMA KillLife ==
  ASSUME LInv, NEW t \in Transfers, KillJob(t), UNCHANGED kvars
  PROVE  Life(t)'
  <1>1. UNCHANGED <<stack, cmd, events, op, status, todo>>
    BY DEF KillJob, kvars
  <1>2. pc[t] = "kill" /\ pc'[t] \in {"kill", "act"} /\ Life(t)
    BY LifeTypes DEF KillJob, LInv, Lives
  <1>3. Obeys(t)'
    BY <1>1, <1>2 DEF Life, Obeys, Awake
  <1>4. /\ NoEvents(t) => NoEvents(t)'
        /\ NoRemoved(t) => NoRemoved(t)'
        /\ \A C : Unasked(t, C) => Unasked(t, C)'
        /\ \A C : Unsent(t, C) => Unsent(t, C)'
    BY <1>1 DEF NoEvents, NoRemoved, Unasked, Unsent
  <1>5. Free(t) => Free(t)'
    BY <1>2, <1>4 DEF Free
  <1>6. RemoveAsked(t) => RemoveAsked(t)'
    BY <1>1, <1>2, <1>4 DEF RemoveAsked
  <1>7. RemoveSent(t) => RemoveSent(t)'
    BY <1>1, <1>2, <1>4 DEF RemoveSent
  <1>8. Removing(t) => Removing(t)'
    BY <1>1, <1>4 DEF Removing
  <1>9. Killed(t) => Killed(t)'
    BY <1>1, <1>4 DEF Killed
  <1>10. ~Over(t) /\ ~Unborn(t)
    BY <1>2 DEF Over, Unborn
  <1>11. Stuck(t) => Stuck(t)'
    BY <1>1, <1>2, <1>4 DEF Stuck
  <1> QED
    BY <1>1, <1>2, <1>3, <1>5, <1>6, <1>7, <1>8, <1>9, <1>10, <1>11 DEF Life, Alive, Ended

(* A command that the thread goes on after. *)
LEMMA ActLife ==
  ASSUME LInv, NEW t \in Transfers, Retrieve(t) \/ AnswerStop(t), UNCHANGED kvars, crashed' = "no"
  PROVE  Life(t)'
  <1>1. UNCHANGED <<stack, op, status, todo>> /\ pc[t] = "act" /\ Life(t)
    BY DEF Retrieve, AnswerStop, kvars, LInv, Lives
  <1>2. cmd[t] \in Retrieving \cup Stopping /\ cmd'[t] = "NOOP" /\ pc'[t] = "check"
    BY LifeTypes DEF Retrieve, AnswerStop, Done
  <1>3. cmd[t] \notin Ending \cup {"NOOP"}
    BY <1>2 DEF Retrieving, Stopping, Ending
  <1>4. NoRemoved(t) => NoRemoved(t)'
    <2>1. events' = events \/ \E kind \in EventKinds \ {"SLV_REMOVED"} : Post(t, kind)
      BY <1>2 DEF Retrieve, AnswerStop, Retrieving, Stopping, Answer, EventKinds, Results
    <2>2. ASSUME NEW kind \in EventKinds \ {"SLV_REMOVED"}, Post(t, kind)
          PROVE  NoRemoved(t) => NoRemoved(t)'
      BY <2>2, LifeTypes, PostEvents
    <2> QED
      BY <2>1, <2>2 DEF NoRemoved
  <1>5. Obeys(t)'
    BY <1>2 DEF Obeys, Awake
  <1>6. \A C : Unasked(t, C) => Unasked(t, C)'
    BY <1>1 DEF Unasked
  <1>7. Unsent(t, Ending) => Unsent(t, Ending)'
    BY <1>1, <1>2 DEF Unsent, Ending
  <1>8. Free(t) => Free(t)'
    BY <1>2, <1>6, <1>7 DEF Free
  <1>9. ~RemoveAsked(t) /\ ~Removing(t) /\ ~Unborn(t) /\ ~Killed(t) /\ ~Over(t)
    BY <1>1, <1>3 DEF RemoveAsked, Removing, Unborn, Killed, Over, Ending
  <1>10. RemoveSent(t) => RemoveSent(t)'
    BY <1>1, <1>2, <1>4, <1>6 DEF RemoveSent, Ending
  <1>11. Stuck(t) => Stuck(t)'
    BY <1>1, <1>2, <1>7 DEF Stuck
  <1> QED
    BY <1>1, <1>5, <1>8, <1>9, <1>10, <1>11 DEF Life, Alive, Ended

(* The command that ends the thread. *)
LEMMA LeaveLife ==
  ASSUME LInv, NEW t \in Transfers, LeaveLoop(t), UNCHANGED kvars
  PROVE  Life(t)'
  <1>1. UNCHANGED <<stack, op, status, todo>> /\ pc[t] = "act" /\ Life(t)
    BY DEF LeaveLoop, kvars, LInv, Lives
  <1>2. cmd'[t] = "NOOP" /\ pc'[t] = "exit" /\ cmd[t] \in Leaving
    BY LifeTypes DEF LeaveLoop, Done
  <1>3. cmd[t] \in Ending
    BY <1>1, <1>2 DEF Life, Obeys, Awake, Leaving, Ending
  <1>4. Obeys(t)'
    BY <1>2 DEF Obeys, Awake
  <1>5. \A C : Unasked(t, C) => Unasked(t, C)'
    BY <1>1 DEF Unasked
  <1>6. ~Free(t) /\ ~RemoveAsked(t) /\ ~RemoveSent(t) /\ ~Unborn(t) /\ ~Over(t) /\ ~Stuck(t)
    BY <1>1, <1>3 DEF Free, RemoveAsked, RemoveSent, Unborn, Over, Stuck, Unsent, Ending
  <1>7. ASSUME Removing(t) PROVE Free(t)'
    <2>1. Post(t, "SLV_REMOVED") /\ "SLV_REMOVED" \in EventKinds
      BY <1>7 DEF Removing, LeaveLoop, Answer, EventKinds
    <2>2. RemovedLast(t)'
      BY <1>7, <2>1, LifeTypes, PostEvents DEF Removing
    <2>3. Unsent(t, Ending)'
      BY <1>1, <1>2, <1>7 DEF Removing, Unsent, Ending
    <2> QED
      BY <1>5, <1>7, <2>2, <2>3 DEF Removing, Free
  <1>8. ASSUME Killed(t) PROVE Killed(t)'
    <2>1. events' = events
      BY <1>8 DEF Killed, LeaveLoop
    <2> QED
      BY <1>1, <1>2, <1>8, <2>1 DEF Killed, NoEvents
  <1> QED
    BY <1>1, <1>4, <1>6, <1>7, <1>8 DEF Life, Alive, Ended

(* The other invariants only look at the events and the statuses.          *)
LEMMA QuietOthers ==
  ASSUME LInv, UNCHANGED <<op, todo, status, mode>>, emitting'.t = emitting.t,
         \A k \in DOMAIN events' :
            \/ k \in DOMAIN events /\ events'[k] = events[k]
            \/ events'[k].kind # "SLV_CONNECTED"
  PROVE  EmitInv' /\ ConnectedInv'
  <1>1. EmitInv'
    BY DEF LInv, EmitInv
  <1>2. ConnectedInv'
    BY DEF LInv, ConnectedInv
  <1> QED
    BY <1>1, <1>2

LEMMA SlaveStepLife ==
  ASSUME LInv, Calm, NEW t \in Transfers, SlaveStep(t)
  PROVE  Lives' /\ EmitInv' /\ ConnectedInv' /\ crashed' # Astray
  <1>1. Worker(t) /\ UNCHANGED kvars /\ crashed = "no"
    BY DEF SlaveStep, Worker, CheckPending, Sleep, SpuriousWake, FetchCmd, Dispatch, KillJob,
           Retrieve, AnswerStop, LeaveLoop, Exit
  <1>2. /\ crashed' \in {"no", "slave.cpp:kill", "slave.cpp:RETR"}
        /\ op' = op /\ emitting'.t = emitting.t
    BY <1>1, LifeTypes DEF Worker, CheckPending, Sleep, SpuriousWake, FetchCmd, Dispatch, KillJob,
           Retrieve, AnswerStop, LeaveLoop, Exit
  <1>3. events' = events \/ \E kind \in EventKinds \ {"SLV_CONNECTED"} : Post(t, kind)
    BY <1>1 DEF Worker, CheckPending, Sleep, SpuriousWake, FetchCmd, Dispatch, KillJob,
           Retrieve, AnswerStop, LeaveLoop, Exit, Retrieving, Stopping, Answer, EventKinds, Results
  <1>4. /\ \A u : u # t => Unheard(u)
        /\ \A k \in DOMAIN events' :
              \/ k \in DOMAIN events /\ events'[k] = events[k]
              \/ events'[k].kind # "SLV_CONNECTED"
    <2>1. CASE events' = events
      BY <2>1, SameEvents
    <2>2. ASSUME NEW kind \in EventKinds \ {"SLV_CONNECTED"}, Post(t, kind)
          PROVE  /\ \A u : u # t => Unheard(u)
                 /\ \A k \in DOMAIN events' :
                       \/ k \in DOMAIN events /\ events'[k] = events[k]
                       \/ events'[k].kind # "SLV_CONNECTED"
      <3>1. /\ \A u : u # t => Unheard(u)
            /\ \A k \in DOMAIN events' :
                  \/ k \in DOMAIN events /\ events'[k] = events[k]
                  \/ events'[k] = [t |-> t, kind |-> kind]
        BY <2>2, LifeTypes, PostEvents
      <3> QED
        BY <3>1
    <2> QED
      BY <1>3, <2>1, <2>2
  <1>5. ASSUME NEW u \in Transfers, u # t PROVE Life(u)'
    <2>1. stack'[u] = stack[u] /\ pc'[u] = pc[u] /\ cmd'[u] = cmd[u]
      BY <1>1, <1>5, LifeTypes DEF Worker, CheckPending, Sleep, SpuriousWake, FetchCmd, Dispatch,
           KillJob, Retrieve, AnswerStop, LeaveLoop, Exit, Done
    <2>2. status' = status /\ todo' = todo
      BY <1>1 DEF kvars
    <2>3. Life(u) /\ Unheard(u)
      BY <1>4, <1>5 DEF LInv, Lives
    <2> QED
      BY <1>2, <2>1, <2>2, <2>3, LifeKept
  <1>6. Life(t)'
    <2>1. CASE CheckPending(t) \/ Sleep(t) \/ SpuriousWake(t) \/ Dispatch(t) \/ Exit(t)
      BY <1>1, <2>1, TurnLife
    <2>2. CASE FetchCmd(t)
      BY <1>1, <2>2, FetchLife
    <2>3. CASE KillJob(t)
      BY <1>1, <2>3, KillLife
    <2>4. CASE Retrieve(t) \/ AnswerStop(t)
      <3>1. CASE crashed' = "no"
        BY <1>1, <2>4, <3>1, ActLife
      <3>2. CASE crashed' # "no"
        <4>1. UNCHANGED <<stack, pc, cmd, events, op, status, todo>>
          BY <1>1, <2>4, <3>2 DEF Retrieve, AnswerStop, kvars
        <4> QED
          BY <4>1, SameEvents, LifeKept DEF LInv, Lives
      <3> QED
        BY <3>1, <3>2
    <2>5. CASE LeaveLoop(t)
      BY <1>1, <2>5, LeaveLife
    <2> QED
      BY <1>1, <2>1, <2>2, <2>3, <2>4, <2>5 DEF Worker
  <1>7. EmitInv' /\ ConnectedInv'
    <2>1. UNCHANGED <<op, todo, status, mode>>
      BY <1>1, <1>2 DEF kvars
    <2> QED
      BY <1>2, <1>4, <2>1, QuietOthers
  <1> QED
    BY <1>2, <1>5, <1>6, <1>7 DEF Lives, Astray

(* Op(c) pushes its command. *)
LEMMA PushedLife ==
  ASSUME LInv, NEW t \in Transfers, PushStep(t)
  PROVE  Life(t)'
  <1> DEFINE s == stack[t]
             c == op.cmd
             n == <<c>> \o s
  <1>1. Life(t) /\ s \in Seq(Commands) /\ c \in Commands /\ op.t = t
    BY LifeTypes DEF LInv, Lives, PushStep, OpPush
  <1>2. /\ UNCHANGED <<cmd, events, status, todo>> /\ op' = NoOp
        /\ stack'[t] = n /\ pc'[t] = IF pc[t] = "wait" THEN "fetch" ELSE pc[t]
    BY LifeTypes DEF PushStep, OpPush, kvars
  <1>3. op'.t # t /\ op # NoOp
    BY <1>1, <1>2, SlaveAssumption DEF NoOp
  <1> HIDE DEF s, c
  <1>4. /\ Len(s) \in Nat /\ DOMAIN s = 1 .. Len(s)
        /\ Len(n) = Len(s) + 1 /\ DOMAIN n = 1 .. Len(s) + 1 /\ n[1] = c
        /\ \A i \in 1 .. Len(s) : n[i + 1] = s[i]
        /\ \A i \in 2 .. Len(s) + 1 : n[i] = s[i - 1]
    BY <1>1
  <1>5. \A i \in DOMAIN n :
           (n[i] = c /\ i = 1) \/ \E j \in DOMAIN s : i = j + 1 /\ n[i] = s[j]
    <2> TAKE i \in DOMAIN n
    <2>1. CASE i = 1
      BY <1>4, <2>1
    <2>2. CASE i # 1
      <3>1. i \in 2 .. Len(s) + 1 /\ i - 1 \in DOMAIN s /\ i = (i - 1) + 1
        BY <1>4, <2>2
      <3> QED
        BY <1>4, <3>1
    <2> QED
      BY <2>1, <2>2
  <1>6. n # <<>> /\ (s # <<>> => n[Len(n)] = s[Len(s)])
    BY <1>1, <1>4
  <1> HIDE DEF n
  <1>7. Obeys(t)'
    BY <1>1, <1>2, <1>6 DEF Life, Obeys, Awake
  <1>8. \A C : Unasked(t, C) => Unasked(t, C)' /\ c \notin C
    BY <1>1, <1>2, <1>3 DEF Unasked, c
  <1>9. \A C : Unsent(t, C) /\ c \notin C => Unsent(t, C)'
    BY <1>2, <1>5 DEF Unsent, s
  <1>10. /\ NoEvents(t) => NoEvents(t)'
         /\ NoRemoved(t) => NoRemoved(t)'
         /\ RemovedLast(t) => RemovedLast(t)'
         /\ pc'[t] \in {"none", "exit"} => pc'[t] = pc[t]
         /\ pc'[t] = "exit" => pc[t] = "exit"
    BY <1>2 DEF NoEvents, NoRemoved, RemovedLast
  <1>11. Ending \subseteq Blocking
    BY DEF Ending, Blocking
  <1>12. ASSUME Free(t) PROVE Free(t)'
    <2>1. Unasked(t, Blocking)' /\ c \notin Ending
      BY <1>8, <1>11, <1>12 DEF Free
    <2> QED
      BY <1>9, <1>10, <1>12, <2>1 DEF Free
  <1>13. ASSUME RemoveAsked(t) PROVE RemoveSent(t)'
    <2>1. /\ s = <<>> /\ cmd[t] = "NOOP" /\ pc[t] # "exit" /\ NoEvents(t) /\ c = "REMOVE"
          /\ \A k \in DOMAIN todo : todo[k].t = t => todo[k].do \notin Blocking
      BY <1>1, <1>13 DEF RemoveAsked, s, c
    <2>2. Unasked(t, Blocking)'
      BY <1>2, <1>3, <2>1 DEF Unasked
    <2>3. n # <<>> /\ Len(n) = 1 /\ n[1] = "REMOVE" /\ DOMAIN n = {1}
      BY <1>4, <1>6, <2>1
    <2>4. NoRemoved(t)'
      BY <1>10, <2>1 DEF NoEvents, NoRemoved
    <2> QED
      BY <1>2, <1>10, <2>1, <2>2, <2>3, <2>4 DEF RemoveSent, Ending
  <1>14. ASSUME RemoveSent(t) PROVE RemoveSent(t)'
    <2>1. Unasked(t, Blocking)' /\ c \notin Ending
      BY <1>8, <1>11, <1>14 DEF RemoveSent
    <2>2. /\ s # <<>> /\ s[Len(s)] = "REMOVE"
          /\ \A k \in DOMAIN s : k < Len(s) => s[k] \notin Ending
      BY <1>14 DEF RemoveSent, s
    <2>3. ASSUME NEW k \in DOMAIN n, k < Len(n) PROVE n[k] \notin Ending
      <3>1. CASE k = 1 /\ n[k] = c
        BY <2>1, <3>1
      <3>2. ASSUME NEW j \in DOMAIN s, k = j + 1, n[k] = s[j] PROVE n[k] \notin Ending
        BY <1>4, <2>2, <2>3, <3>2
      <3> QED
        BY <1>5, <3>1, <3>2
    <2> QED
      BY <1>2, <1>6, <1>10, <1>14, <2>1, <2>2, <2>3 DEF RemoveSent
  <1>15. ASSUME Removing(t) PROVE Removing(t)'
    <2>1. Unasked(t, Blocking)' /\ c \notin Ending
      BY <1>8, <1>11, <1>15 DEF Removing
    <2> QED
      BY <1>2, <1>5, <1>10, <1>15, <2>1 DEF Removing, s
  <1>16. ASSUME Killed(t) PROVE Killed(t)'
    <2>1. c = "KILL"
      BY <1>1, <1>16 DEF Killed, c
    <2> QED
      BY <1>2, <1>3, <1>5, <1>10, <1>16, <2>1 DEF Killed, s
  <1>17. ~Unborn(t) /\ ~Over(t) /\ ~Stuck(t)
    BY <1>1, <1>3 DEF Unborn, Over, Stuck
  <1> QED
    BY <1>1, <1>2, <1>7, <1>12, <1>13, <1>14, <1>15, <1>16, <1>17 DEF Life, Alive, Ended

LEMMA PushStepLife ==
  ASSUME LInv, NEW t \in Transfers, PushStep(t)
  PROVE  Lives' /\ EmitInv' /\ ConnectedInv' /\ crashed' # Astray
  <1>1. /\ UNCHANGED <<cmd, events, emitting, crashed, status, mode, todo>>
        /\ op' = NoOp /\ op.t = t
    BY DEF PushStep, OpPush, kvars
  <1>2. ASSUME NEW u \in Transfers, u # t PROVE Life(u)'
    <2>1. stack'[u] = stack[u] /\ pc'[u] = pc[u]
      BY <1>2, LifeTypes DEF PushStep, OpPush
    <2>2. Life(u) /\ Unheard(u)
      BY <1>1, SameEvents DEF LInv, Lives
    <2> QED
      BY <1>1, <1>2, <2>1, <2>2, LifeKept
  <1>3. Life(t)'
    BY PushedLife
  <1>4. EmitInv' /\ ConnectedInv'
    <2>1. emitting.t = NoTransfer
      BY <1>1, SlaveAssumption DEF LInv, EmitInv, NoOp
    <2> QED
      BY <1>1, <2>1 DEF LInv, EmitInv, ConnectedInv
  <1> QED
    BY <1>1, <1>2, <1>3, <1>4 DEF Lives, LInv

----------------------------------------------------------------------------
(* The signals of a job: it is the job of a transfer that is there.         *)

LEMMA NoTransfers == \A t \in Transfers : NoOp.t # t /\ NoEmission.t # t
  BY SlaveAssumption DEF NoOp, NoEmission

LEMMA JobAlive ==
  ASSUME LInv, MainFree, NEW t \in Transfers, copyjob[t] # "none"
  PROVE  status[t] \notin Dead /\ pc[t] \notin {"none", "exit"}
  <1>1. pc[t] \notin {"none", "exit"}
    BY DEF LInv, KInv, SlaveInv, JobHasThread
  <1>2. status[t] # "absent"
    BY <1>1 DEF LInv, Lives, Life, Unborn
  <1>3. ~Covers(todo, t, 1)
    BY DEF MainFree, Covers
  <1>4. status[t] # "gone"
    BY <1>1, <1>3 DEF LInv, KInv, GoneInv, Running
  <1> QED
    BY <1>1, <1>2, <1>4 DEF Dead

(* An event other than REMOVED is posted by the main thread. *)
LEMMA PostLife ==
  ASSUME LInv, op = NoOp, todo = <<>>, NEW t \in Transfers, status[t] \notin Dead,
         pc[t] \notin {"none", "exit"}, NEW kind \in EventKinds \ {"SLV_REMOVED"},
         Post(t, kind), UNCHANGED <<stack, pc, cmd, op, kvars>>
  PROVE  Lives'
  <1>1. UNCHANGED <<status, todo>>
    BY DEF kvars
  <1>2. (\A u : u # t => Unheard(u)) /\ (NoRemoved(t) => NoRemoved(t)')
    BY LifeTypes, PostEvents
  <1>3. ASSUME NEW u \in Transfers, u # t PROVE Life(u)'
    BY <1>1, <1>2, <1>3, LifeKept DEF LInv, Lives
  <1>4. Life(t)
    BY DEF LInv, Lives
  <1>5. Obeys(t)'
    BY <1>4 DEF Life, Obeys
  <1>6. /\ \A C : Unasked(t, C) => Unasked(t, C)'
        /\ \A C : Unsent(t, C) => Unsent(t, C)'
    BY <1>1 DEF Unasked, Unsent
  <1>7. Free(t) => Free(t)'
    BY <1>6 DEF Free
  <1>8. ~RemoveAsked(t)
    BY NoTransfers DEF RemoveAsked, FirstAsked
  <1>9. RemoveSent(t) => RemoveSent(t)'
    BY <1>2, <1>6 DEF RemoveSent
  <1>10. Removing(t) => Removing(t)'
    BY <1>2, <1>6 DEF Removing
  <1>11. Life(t)'
    BY <1>1, <1>4, <1>5, <1>7, <1>8, <1>9, <1>10 DEF Life, Alive, Dead
  <1> QED
    BY <1>3, <1>11 DEF Lives

LEMMA ConnectedLife ==
  ASSUME LInv, NEW t \in Transfers, JobConnected(t)
  PROVE  Lives' /\ EmitInv' /\ ConnectedInv' /\ crashed' # Astray
  <1>1. /\ MainFree /\ UNCHANGED <<stack, pc, cmd, op, emitting, crashed, kvars>>
        /\ copyjob[t] = "new"
        /\ events' = events \/ (mode[t] # "new" /\ Post(t, "SLV_CONNECTED"))
    BY DEF JobConnected, SlotTotalSize
  <1>2. status[t] \notin Dead /\ pc[t] \notin {"none", "exit"} /\ op = NoOp /\ todo = <<>>
        /\ emitting = NoEmission
    BY <1>1, JobAlive DEF MainFree, MainIdle
  <1>3. UNCHANGED <<status, mode, todo>>
    BY <1>1 DEF kvars
  <1>4. EmitInv'
    BY <1>1, <1>2 DEF EmitInv, NoEmission
  <1>5. crashed' # Astray
    BY <1>1 DEF LInv
  <1>6. CASE events' = events
    <2>1. Lives'
      BY <1>1, <1>3, <1>6, SameEvents, LifeKept DEF LInv, Lives
    <2>2. ConnectedInv'
      BY <1>3, <1>6 DEF LInv, ConnectedInv
    <2> QED
      BY <1>4, <1>5, <2>1, <2>2
  <1>7. CASE mode[t] # "new" /\ Post(t, "SLV_CONNECTED")
    <2>1. "SLV_CONNECTED" \in EventKinds \ {"SLV_REMOVED"}
      BY DEF EventKinds
    <2>2. Lives'
      BY <1>1, <1>2, <1>7, <2>1, PostLife
    <2>3. \A k \in DOMAIN events' :
             \/ k \in DOMAIN events /\ events'[k] = events[k]
             \/ events'[k] = [t |-> t, kind |-> "SLV_CONNECTED"]
      BY <1>7, <2>1, LifeTypes, PostEvents
    <2>4. ConnectedInv'
      BY <1>3, <1>7, <2>3 DEF LInv, ConnectedInv
    <2> QED
      BY <1>4, <1>5, <2>2, <2>4
  <1> QED
    BY <1>1, <1>6, <1>7

LEMMA EndsLife ==
  ASSUME LInv, NEW t \in Transfers, JobEnds(t)
  PROVE  Lives' /\ EmitInv' /\ ConnectedInv' /\ crashed' # Astray
  <1>1. /\ MainFree /\ UNCHANGED <<stack, pc, cmd, op, events, crashed, kvars>>
        /\ copyjob[t] # "none" /\ emitting' = [t |-> t, valid |-> TRUE]
    BY DEF JobEnds, EmitResult
  <1>2. status[t] \notin Dead /\ op = NoOp /\ todo = <<>>
    BY <1>1, JobAlive DEF MainFree, MainIdle
  <1>3. UNCHANGED <<status, mode, todo>>
    BY <1>1 DEF kvars
  <1>4. Lives'
    BY <1>1, <1>3, SameEvents, LifeKept DEF LInv, Lives
  <1>5. EmitInv'
    BY <1>1, <1>2, <1>3 DEF EmitInv
  <1>6. ConnectedInv'
    BY <1>1, <1>3 DEF LInv, ConnectedInv
  <1> QED
    BY <1>1, <1>4, <1>5, <1>6 DEF LInv

LEMMA ResultLife ==
  ASSUME LInv, NEW t \in Transfers, JobSucceeded(t) \/ JobFailed(t)
  PROVE  Lives' /\ EmitInv' /\ ConnectedInv' /\ crashed' # Astray
  <1>1. PICK kind \in Results : SlotResult(t, kind) /\ UNCHANGED kvars
    BY DEF JobSucceeded, JobFailed, FailureAnswer, Results
  <1>2. kind \in EventKinds \ {"SLV_REMOVED"} /\ kind # "SLV_CONNECTED"
    BY DEF EventKinds, Results
  <1>3. /\ UNCHANGED <<stack, pc, cmd, op, kvars>> /\ emitting' = NoEmission /\ emitting.t = t
        /\ \/ emitting.valid /\ Post(t, kind) /\ crashed' = crashed
           \/ events' = events /\ crashed' = "slave.cpp:slotResult"
    BY <1>1 DEF SlotResult
  <1>4. op = NoOp /\ todo = <<>> /\ status[t] \notin Dead
    BY <1>3, SlaveAssumption DEF LInv, EmitInv
  <1>5. UNCHANGED <<status, mode, todo>>
    BY <1>3 DEF kvars
  <1>6. EmitInv'
    BY <1>3 DEF EmitInv, NoEmission
  <1>7. crashed' # Astray
    BY <1>3 DEF LInv, Astray
  <1>8. CASE events' = events
    <2>1. Lives'
      BY <1>3, <1>5, <1>8, SameEvents, LifeKept DEF LInv, Lives
    <2>2. ConnectedInv'
      BY <1>5, <1>8 DEF LInv, ConnectedInv
    <2> QED
      BY <1>6, <1>7, <2>1, <2>2
  <1>9. CASE emitting.valid /\ Post(t, kind)
    <2>1. pc[t] \notin {"none", "exit"}
      BY <1>3, <1>9 DEF LInv, KInv, SlaveInv, EmissionIsCurrent, JobHasThread
    <2>2. Lives'
      BY <1>2, <1>3, <1>4, <1>9, <2>1, PostLife
    <2>3. \A k \in DOMAIN events' :
             \/ k \in DOMAIN events /\ events'[k] = events[k]
             \/ events'[k] = [t |-> t, kind |-> kind]
      BY <1>2, <1>9, LifeTypes, PostEvents
    <2>4. ConnectedInv'
      BY <1>2, <1>5, <2>3 DEF LInv, ConnectedInv
    <2> QED
      BY <1>6, <1>7, <2>2, <2>4
  <1> QED
    BY <1>3, <1>8, <1>9

----------------------------------------------------------------------------
(* The main thread carries out the operations of its handler.               *)

(* What q and r ask of u is the same, in the same order.                    *)
SameFor(q, r, u) ==
    /\ \A k \in DOMAIN r : r[k].t = u => \E l \in DOMAIN q : q[l] = r[k]
    /\ FirstAsked(q, u) => FirstAsked(r, u)

LEMMA TailSame ==
  ASSUME NEW q \in Seq(Ops), q # <<>>, NEW u
  PROVE  /\ \A k \in DOMAIN Tail(q) : \E l \in DOMAIN q : q[l] = Tail(q)[k]
         /\ Head(q).t # u => SameFor(q, Tail(q), u)
         /\ FirstAsked(q, u) /\ Head(q).t = u =>
               /\ Head(q).do = "REMOVE"
               /\ \A k \in DOMAIN Tail(q) : Tail(q)[k].t = u => Tail(q)[k].do \notin Blocking
  <1> DEFINE r == Tail(q)
  <1>1. /\ Len(q) \in Nat \ {0} /\ DOMAIN q = 1 .. Len(q) /\ Head(q) = q[1]
        /\ DOMAIN r = 1 .. Len(q) - 1 /\ \A k \in 1 .. Len(q) - 1 : r[k] = q[k + 1]
    OBVIOUS
  <1> HIDE DEF r
  <1>2. \A k \in DOMAIN r : k \in Nat /\ k >= 1 /\ k + 1 \in DOMAIN q /\ r[k] = q[k + 1]
    BY <1>1
  <1>3. 1 \in DOMAIN q /\ \A k \in DOMAIN q : k \in Nat /\ k >= 1
    BY <1>1
  <1>4. \A k \in DOMAIN q : k # 1 => k - 1 \in DOMAIN r /\ r[k - 1] = q[k]
    BY <1>1
  <1>5. ASSUME q[1].t # u, FirstAsked(q, u) PROVE FirstAsked(r, u)
    <2>1. PICK k \in DOMAIN q :
             /\ q[k].t = u /\ q[k].do = "REMOVE"
             /\ \A l \in DOMAIN q : q[l].t = u => l >= k /\ (q[l].do \in Blocking => l = k)
      BY <1>5 DEF FirstAsked
    <2>2. k - 1 \in DOMAIN r /\ r[k - 1] = q[k]
      BY <1>4, <1>5, <2>1
    <2>3. ASSUME NEW l \in DOMAIN r, r[l].t = u
          PROVE  l >= k - 1 /\ (r[l].do \in Blocking => l = k - 1)
      <3>1. l + 1 >= k /\ (r[l].do \in Blocking => l + 1 = k)
        BY <1>2, <2>1, <2>3
      <3> QED
        BY <1>2, <1>3, <3>1
    <2> QED
      BY <2>1, <2>2, <2>3 DEF FirstAsked
  <1>6. ASSUME q[1].t = u, FirstAsked(q, u)
        PROVE  /\ q[1].do = "REMOVE"
               /\ \A k \in DOMAIN r : r[k].t = u => r[k].do \notin Blocking
    <2>1. PICK k \in DOMAIN q :
             /\ q[k].t = u /\ q[k].do = "REMOVE"
             /\ \A l \in DOMAIN q : q[l].t = u => l >= k /\ (q[l].do \in Blocking => l = k)
      BY <1>6 DEF FirstAsked
    <2>2. 1 >= k
      BY <1>3, <1>6, <2>1
    <2>3. k = 1
      BY <1>3, <2>2
    <2>4. ASSUME NEW i \in DOMAIN r, r[i].t = u PROVE r[i].do \notin Blocking
      <3>1. i + 1 # 1 /\ i + 1 \in DOMAIN q /\ r[i] = q[i + 1]
        BY <1>2
      <3> QED
        BY <2>1, <2>3, <2>4, <3>1
    <2> QED
      BY <2>1, <2>3, <2>4
  <1>7. \A k \in DOMAIN r : \E l \in DOMAIN q : q[l] = r[k]
    BY <1>2
  <1> QED
    BY <1>1, <1>5, <1>6, <1>7 DEF r, SameFor

(* A transfer that the operation at the head is not about. *)
LEMMA PassedByLife ==
  ASSUME LInv, NEW u \in Transfers, op = NoOp, todo # <<>>, Head(todo).t # u, op'.t # u,
         SameFor(todo, todo', u),
         UNCHANGED <<stack, cmd, events, status>>, pc'[u] = pc[u]
  PROVE  Life(u)'
  <1>1. Life(u) /\ op.t # u
    BY NoTransfers DEF LInv, Lives
  <1>2. Obeys(u)'
    BY <1>1 DEF Life, Obeys
  <1>3. \A k \in DOMAIN todo' : todo'[k].t = u => \E l \in DOMAIN todo : todo[l] = todo'[k]
    BY DEF SameFor
  <1>4. /\ NoEvents(u) => NoEvents(u)'
        /\ NoRemoved(u) => NoRemoved(u)'
        /\ RemovedLast(u) => RemovedLast(u)'
    BY DEF NoEvents, NoRemoved, RemovedLast
  <1>5. Unsent(u, Ending) => Unsent(u, Ending)'
    BY DEF Unsent
  <1>6. Unasked(u, Blocking) => Unasked(u, Blocking)'
    BY <1>1, <1>3 DEF Unasked
  <1>7. Unborn(u) => Unborn(u)'
    BY <1>3, <1>4 DEF Unborn
  <1>8. Free(u) => Free(u)'
    BY <1>4, <1>5, <1>6 DEF Free
  <1>9. RemoveAsked(u) => RemoveAsked(u)'
    <2>1. FirstAsked(todo, u) => FirstAsked(todo', u)
      BY DEF SameFor
    <2>2. FirstAsked(todo, u)' <=> FirstAsked(todo', u)
      BY DEF FirstAsked
    <2> QED
      BY <1>1, <1>4, <2>1, <2>2 DEF RemoveAsked
  <1>10. RemoveSent(u) => RemoveSent(u)'
    BY <1>4, <1>6 DEF RemoveSent
  <1>11. Removing(u) => Removing(u)'
    BY <1>4, <1>6 DEF Removing
  <1>12. Killed(u) => Killed(u)'
    BY <1>1, <1>3, <1>4 DEF Killed
  <1>13. Over(u) => Over(u)'
    <2>1. Over(u) => pc[u] = "none"
      BY DEF Over
    <2> QED
      BY <1>3, <1>4, <2>1 DEF Over
  <1>14. ~Stuck(u)
    BY DEF Stuck
  <1> QED
    BY <1>1, <1>2, <1>7, <1>8, <1>9, <1>10, <1>11, <1>12, <1>13, <1>14 DEF Life, Alive, Ended

(* The other invariants, while there are operations to make. *)
LEMMA BusyOthers ==
  ASSUME LInv, todo # <<>>, UNCHANGED <<events, emitting, status, mode, crashed>>
  PROVE  EmitInv' /\ ConnectedInv' /\ crashed' # Astray
  <1>1. emitting.t = NoTransfer
    BY DEF LInv, EmitInv
  <1>2. EmitInv'
    BY <1>1 DEF EmitInv
  <1>3. ConnectedInv'
    BY DEF LInv, ConnectedInv
  <1> QED
    BY <1>2, <1>3 DEF LInv

LEMMA NextOpLife ==
  ASSUME LInv, NextOp
  PROVE  Lives' /\ EmitInv' /\ ConnectedInv' /\ crashed' # Astray
  <1>1. todo \in Seq(Ops) /\ todo # <<>> /\ Head(todo).do \in Commands
    BY LifeTypes DEF NextOp
  <1>2. Head(todo) \in Ops /\ 1 \in DOMAIN todo /\ todo[1] = Head(todo)
    BY <1>1
  <1>3. PICK t \in Transfers, c \in Commands : t = Head(todo).t /\ c = Head(todo).do
    BY <1>1, <1>2 DEF Ops
  <1>4. todo \in Seq(Ops) /\ todo # <<>> /\ pc \in [Transfers -> PCs]
    BY <1>1, LifeTypes
  <1>5. /\ UNCHANGED <<stack, cmd, events, emitting, crashed, status, mode>>
        /\ op = NoOp /\ op' = [t |-> t, cmd |-> c] /\ todo' = Tail(todo)
        /\ pc' = [pc EXCEPT ![t] = IF pc[t] # "none" THEN @ ELSE "check"]
    BY <1>3 DEF NextOp, OpStart, MainIdle, Running
  <1>6. c \notin {"abort", "join"}
    BY DEF Commands, Retrieving, Stopping, Leaving
  <1>7. \A k \in DOMAIN todo' : \E l \in DOMAIN todo : todo[l] = todo'[k]
    BY <1>4, <1>5, TailSame
  <1>8. ASSUME NEW u \in Transfers, u # t PROVE Life(u)'
    <2>1. SameFor(todo, Tail(todo), u)
      BY <1>4, <1>3, <1>8, TailSame
    <2>2. pc'[u] = pc[u] /\ op'.t # u
      BY <1>4, <1>5, <1>8
    <2> QED
      BY <1>4, <1>3, <1>5, <1>8, <2>1, <2>2, PassedByLife
  <1>9. Life(t)'
    <2>1. Life(t) /\ op.t # t
      BY <1>5, NoTransfers DEF LInv, Lives
    <2>2. /\ pc'[t] = IF pc[t] # "none" THEN pc[t] ELSE "check"
          /\ op'.t = t /\ op'.cmd = c
      BY <1>4, <1>5
    <2>3. todo[1].t = t /\ todo[1].do = c /\ Head(todo).t = t /\ Head(todo).do = c
      BY <1>2, <1>3
    <2>4. Obeys(t)'
      BY <1>5, <2>1, <2>2 DEF Life, Obeys, Awake
    <2>5. /\ NoEvents(t) => NoEvents(t)'
          /\ NoRemoved(t) => NoRemoved(t)'
          /\ RemovedLast(t) => RemovedLast(t)'
      BY <1>5 DEF NoEvents, NoRemoved, RemovedLast
    <2>6. Unsent(t, Ending) => Unsent(t, Ending)'
      BY <1>5 DEF Unsent
    <2>7. Unasked(t, Blocking) => Unasked(t, Blocking)'
      BY <1>2, <1>7, <2>2, <2>3 DEF Unasked
    <2>8. ~Unborn(t) /\ ~Over(t) /\ ~Stuck(t)
      BY <1>2, <1>6, <2>3 DEF Unborn, Over, Stuck
    <2>9. Free(t) => Free(t)'
      BY <2>2, <2>5, <2>6, <2>7 DEF Free
    <2>10. ASSUME RemoveAsked(t) PROVE RemoveAsked(t)'
      <3>1. FirstAsked(todo, t)
        BY <2>1, <2>10 DEF RemoveAsked
      <3>2. /\ Head(todo).do = "REMOVE"
            /\ \A k \in DOMAIN Tail(todo) : Tail(todo)[k].t = t => Tail(todo)[k].do \notin Blocking
        BY <1>4, <2>3, <3>1, TailSame
      <3> QED
        BY <1>5, <2>2, <2>3, <2>5, <2>10, <3>2 DEF RemoveAsked
    <2>11. RemoveSent(t) => RemoveSent(t)'
      BY <1>5, <2>2, <2>5, <2>7 DEF RemoveSent
    <2>12. Removing(t) => Removing(t)'
      BY <1>5, <2>5, <2>7 DEF Removing
    <2>13. ASSUME Killed(t) PROVE Killed(t)'
      <3>1. c = "KILL"
        BY <1>2, <1>6, <2>3, <2>13 DEF Killed
      <3> QED
        BY <1>5, <1>7, <2>2, <2>5, <2>13, <3>1 DEF Killed
    <2> QED
      BY <1>5, <2>1, <2>4, <2>8, <2>9, <2>10, <2>11, <2>12, <2>13 DEF Life, Alive, Ended
  <1>10. EmitInv' /\ ConnectedInv' /\ crashed' # Astray
    BY <1>4, <1>5, BusyOthers
  <1> QED
    BY <1>8, <1>9, <1>10 DEF Lives

(* Whom the main thread is to abort or to wait for has been deleted. *)
LEMMA HeadDeleted ==
  ASSUME LInv, todo # <<>>, op = NoOp, NEW t \in Transfers, Head(todo).t = t,
         Head(todo).do \in {"abort", "join"}
  PROVE  /\ status[t] = "gone" /\ (Killed(t) \/ Over(t) \/ Stuck(t))
  <1>1. todo \in Seq(Ops) /\ 1 \in DOMAIN todo /\ todo[1] = Head(todo)
    BY LifeTypes
  <1>2. Life(t) /\ op.t # t
    BY NoTransfers DEF LInv, Lives
  <1>3. ~Unasked(t, Blocking) /\ ~Unborn(t)
    BY <1>1 DEF Unasked, Blocking, Unborn
  <1>4. ~RemoveAsked(t)
    <2>1. FirstAsked(todo, t) => Head(todo).do = "REMOVE"
      BY <1>1, TailSame
    <2> QED
      BY <1>2, <2>1 DEF RemoveAsked
  <1>5. ~Alive(t)
    BY <1>3, <1>4 DEF Alive, Free, RemoveSent, Removing
  <1> QED
    BY <1>2, <1>3, <1>5 DEF Life, Ended, Dead

LEMMA JoinLife ==
  ASSUME LInv, Join
  PROVE  Lives' /\ EmitInv' /\ ConnectedInv' /\ crashed' # Astray
  <1>1. Head(todo) \in Ops
    BY LifeTypes DEF Join
  <1>2. PICK t \in Transfers : t = Head(todo).t
    BY <1>1 DEF Ops
  <1>3. todo \in Seq(Ops) /\ todo # <<>> /\ Head(todo).do = "join" /\ pc[t] = "none"
    BY <1>2, LifeTypes DEF Join, Running
  <1>4. /\ UNCHANGED <<stack, pc, cmd, events, op, emitting, crashed, status, mode>>
        /\ op = NoOp /\ todo' = Tail(todo)
    BY DEF Join, svars, MainIdle
  <1>5. ASSUME NEW u \in Transfers, u # t PROVE Life(u)'
    <2>1. SameFor(todo, Tail(todo), u)
      BY <1>3, <1>2, <1>5, TailSame
    <2>2. op'.t # u
      BY <1>4, NoTransfers
    <2> QED
      BY <1>3, <1>2, <1>4, <1>5, <2>1, <2>2, PassedByLife
  <1>6. Life(t)'
    <2>1. status[t] = "gone" /\ (Killed(t) \/ Over(t) \/ Stuck(t)) /\ Life(t)
      BY <1>3, <1>2, <1>4, HeadDeleted DEF LInv, Lives
    <2>2. \A k \in DOMAIN todo' : \E l \in DOMAIN todo : todo[l] = todo'[k]
      BY <1>3, <1>4, TailSame
    <2>3. Obeys(t)'
      BY <1>4, <2>1 DEF Life, Obeys
    <2>4. NoEvents(t) => NoEvents(t)'
      BY <1>4 DEF NoEvents
    <2>5. Killed(t) => Killed(t)'
      BY <1>4, <2>2, <2>4 DEF Killed
    <2>6. Over(t) => Over(t)'
      BY <1>3, <1>4, <2>2, <2>4 DEF Over
    <2>7. ~Stuck(t)
      BY <1>3 DEF Stuck
    <2> QED
      BY <1>4, <2>1, <2>3, <2>5, <2>6, <2>7 DEF Life, Ended, Dead
  <1>7. EmitInv' /\ ConnectedInv' /\ crashed' # Astray
    BY <1>3, <1>4, BusyOthers
  <1> QED
    BY <1>5, <1>6, <1>7 DEF Lives

(* ~Transfer: a running thread is killed and waited for.                    *)
LEMMA AbortSame ==
  ASSUME NEW q \in Seq(Ops), q # <<>>, NEW t \in Transfers, Head(q).t = t
  PROVE  LET r == <<[t |-> t, do |-> "KILL"], [t |-> t, do |-> "join"]>> \o Tail(q)
         IN  /\ \A k \in DOMAIN r :
                   (r[k].t = t /\ r[k].do \in {"KILL", "join"}) \/ \E l \in DOMAIN q : q[l] = r[k]
             /\ \A u : u # t => SameFor(q, r, u)
  <1> DEFINE a == [t |-> t, do |-> "KILL"]
             b == [t |-> t, do |-> "join"]
             r == <<a, b>> \o Tail(q)
  <1>1. a.t = t /\ b.t = t /\ a.do = "KILL" /\ b.do = "join" /\ a \in Ops /\ b \in Ops
    BY DEF Ops, Commands, Leaving
  <1> HIDE DEF a, b
  <1>2. /\ Tail(q) \in Seq(Ops) /\ Len(Tail(q)) = Len(q) - 1 /\ Len(q) \in Nat \ {0}
        /\ DOMAIN q = 1 .. Len(q) /\ q[1].t = t
        /\ \A k \in 1 .. Len(q) - 1 : Tail(q)[k] = q[k + 1]
    OBVIOUS
  <1>3. <<a, b>> \in Seq(Ops) /\ Len(<<a, b>>) = 2
    BY <1>1
  <1>4. /\ DOMAIN r = 1 .. Len(q) + 1 /\ r[1] = a /\ r[2] = b
        /\ \A k \in 3 .. Len(q) + 1 : r[k] = Tail(q)[k - 2]
    BY <1>2, <1>3
  <1>5. \A k \in 3 .. Len(q) + 1 : r[k] = q[k - 1]
    BY <1>2, <1>4
  <1> HIDE DEF r
  <1>6. \A k \in DOMAIN r : k \in {1, 2} \/ (k \in Nat /\ k - 1 \in DOMAIN q /\ k - 1 # 1 /\ r[k] = q[k - 1])
    BY <1>2, <1>4, <1>5
  <1>7. \A k \in DOMAIN q : k \in Nat /\ (k # 1 => k + 1 \in DOMAIN r /\ r[k + 1] = q[k])
    BY <1>2, <1>4, <1>5
  <1>8. \A k \in DOMAIN r :
           (r[k].t = t /\ r[k].do \in {"KILL", "join"}) \/ \E l \in DOMAIN q : q[l] = r[k]
    BY <1>1, <1>4, <1>6
  <1>9. ASSUME NEW u, u # t, FirstAsked(q, u) PROVE FirstAsked(r, u)
    <2>1. PICK k \in DOMAIN q :
             /\ q[k].t = u /\ q[k].do = "REMOVE"
             /\ \A l \in DOMAIN q : q[l].t = u => l >= k /\ (q[l].do \in Blocking => l = k)
      BY <1>9 DEF FirstAsked
    <2>2. k # 1
      BY <1>2, <1>9, <2>1
    <2>3. k + 1 \in DOMAIN r /\ r[k + 1] = q[k]
      BY <1>7, <2>2
    <2>4. ASSUME NEW l \in DOMAIN r, r[l].t = u
          PROVE  l >= k + 1 /\ (r[l].do \in Blocking => l = k + 1)
      <3>1. l \notin {1, 2}
        BY <1>1, <1>4, <1>9, <2>4
      <3>2. l \in Nat /\ l - 1 \in DOMAIN q /\ r[l] = q[l - 1]
        BY <1>6, <3>1
      <3>3. l - 1 >= k /\ (r[l].do \in Blocking => l - 1 = k)
        BY <2>1, <2>4, <3>2
      <3>4. k \in Nat
        BY <1>7
      <3> QED
        BY <3>2, <3>3, <3>4
    <2> QED
      BY <2>1, <2>3, <2>4 DEF FirstAsked
  <1>10. \A u : u # t => SameFor(q, r, u)
    BY <1>8, <1>9 DEF SameFor
  <1> QED
    BY <1>8, <1>10 DEF r, a, b

LEMMA AbortLife ==
  ASSUME LInv, Abort
  PROVE  Lives' /\ EmitInv' /\ ConnectedInv' /\ crashed' # Astray
  <1>1. Head(todo) \in Ops /\ todo \in Seq(Ops) /\ todo # <<>> /\ Head(todo).do = "abort"
    BY LifeTypes DEF Abort
  <1>2. PICK t \in Transfers : t = Head(todo).t
    BY <1>1 DEF Ops
  <1> DEFINE r == <<[t |-> t, do |-> "KILL"], [t |-> t, do |-> "join"]>> \o Tail(todo)
  <1>3. /\ UNCHANGED <<stack, pc, cmd, events, op, emitting, crashed, status, mode>>
        /\ op = NoOp /\ todo' = IF pc[t] # "none" THEN r ELSE Tail(todo)
    BY <1>2 DEF Abort, svars, MainIdle, Running
  <1>4. /\ \A k \in DOMAIN todo' :
              \/ todo'[k].t = t /\ todo'[k].do \in {"KILL", "join"}
              \/ \E l \in DOMAIN todo : todo[l] = todo'[k]
        /\ \A u : u # t => SameFor(todo, todo', u)
    <2>1. CASE pc[t] # "none"
      <3>1. /\ \A k \in DOMAIN r :
                  \/ r[k].t = t /\ r[k].do \in {"KILL", "join"}
                  \/ \E l \in DOMAIN todo : todo[l] = r[k]
            /\ \A u : u # t => SameFor(todo, r, u)
        BY <1>1, <1>2, AbortSame
      <3> HIDE DEF r
      <3> QED
        BY <1>3, <2>1, <3>1
    <2>2. CASE pc[t] = "none"
      <3>1. /\ \A k \in DOMAIN Tail(todo) : \E l \in DOMAIN todo : todo[l] = Tail(todo)[k]
            /\ \A u : u # t => SameFor(todo, Tail(todo), u)
        BY <1>1, <1>2, TailSame
      <3> QED
        BY <1>3, <2>2, <3>1
    <2> QED
      BY <2>1, <2>2
  <1> HIDE DEF r
  <1>5. ASSUME NEW u \in Transfers, u # t PROVE Life(u)'
    <2>1. op'.t # u
      BY <1>3, NoTransfers
    <2> QED
      BY <1>1, <1>2, <1>3, <1>4, <1>5, <2>1, PassedByLife
  <1>6. Life(t)'
    <2>1. status[t] = "gone" /\ (Killed(t) \/ Over(t) \/ Stuck(t)) /\ Life(t)
      BY <1>1, <1>2, <1>3, HeadDeleted DEF LInv, Lives
    <2>2. Obeys(t)'
      BY <1>3, <2>1 DEF Life, Obeys
    <2>3. NoEvents(t) => NoEvents(t)'
      BY <1>3 DEF NoEvents
    <2>4. Killed(t) => Killed(t)'
      BY <1>3, <1>4, <2>3 DEF Killed
    <2>5. ASSUME Over(t) PROVE Over(t)'
      <3>1. pc[t] = "none"
        BY <1>1, <2>5 DEF Over
      <3>2. \A k \in DOMAIN todo' : \E l \in DOMAIN todo : todo[l] = todo'[k]
        BY <1>1, <1>3, <3>1, TailSame
      <3> QED
        BY <1>3, <2>3, <2>5, <3>1, <3>2 DEF Over
    <2>6. ~Stuck(t)
      BY <1>1 DEF Stuck
    <2> QED
      BY <1>3, <2>1, <2>2, <2>4, <2>5, <2>6 DEF Life, Ended, Dead
  <1>7. EmitInv' /\ ConnectedInv' /\ crashed' # Astray
    BY <1>1, <1>3, BusyOthers
  <1> QED
    BY <1>5, <1>6, <1>7 DEF Lives

----------------------------------------------------------------------------
(* The handlers.  They begin with the record of the window, in which new    *)
(* transfers may have come in.                                             *)

Fresh(g) ==
    /\ g \in Records /\ g.todo = <<>> /\ g.crashed = "no"
    /\ \A u \in Transfers : g.status[u] = status[u] \/ (status[u] = "absent" /\ g.status[u] \notin Dead)
    /\ \A u \in Transfers : g.mode[u] = "new" => mode[u] = "new" \/ status[u] = "absent"

(* The queue of events is as it was, or lacks its head. *)
Hears ==
    /\ \A u : Unheard(u)
    /\ \A k \in DOMAIN events' : \E l \in DOMAIN events : events'[k] = events[l]

LEMMA RestedLife ==
  ASSUME LInv, MainFree, NEW r, Become(r), SlaveIdle, Hears, NEW u \in Transfers,
         \A k \in DOMAIN r.todo :
             r.todo[k].t = u => r.todo[k].do \notin Blocking /\ r.status[u] \notin Dead,
         r.status[u] = status[u] \/ (status[u] # "gone" /\ r.status[u] \notin Dead)
  PROVE  Life(u)'
  <1>1. /\ UNCHANGED <<stack, pc, cmd, op>> /\ op = NoOp /\ todo = <<>>
        /\ status' = r.status /\ todo' = r.todo
    BY DEF MainFree, MainIdle, SlaveIdle, Become
  <1>2. \A k \in DOMAIN todo' :
           todo'[k].t = u => todo'[k].do \notin Blocking /\ status'[u] \notin Dead
    BY <1>1
  <1>3. status'[u] = status[u] \/ (status[u] # "gone" /\ status'[u] \notin Dead)
    BY <1>1
  <1>4. Life(u) /\ Unheard(u) /\ op.t # u
    BY <1>1, NoTransfers DEF LInv, Lives, Hears
  <1>5. Obeys(u)'
    BY <1>1, <1>4 DEF Life, Obeys
  <1>6. \A k \in DOMAIN todo' : todo'[k].t = u => status'[u] \notin Dead
    BY <1>2
  <1>7. Unasked(u, Blocking)'
    BY <1>1, <1>2, <1>4 DEF Unasked
  <1>8. Unsent(u, Ending) => Unsent(u, Ending)'
    BY <1>1 DEF Unsent
  <1>9. CASE status[u] = "absent"
    <2>1. Unborn(u)
      BY <1>4, <1>9 DEF Life
    <2>2. stack[u] = <<>> /\ cmd[u] = "NOOP" /\ pc[u] = "none"
      BY <1>4, <2>1 DEF Life, Obeys, Unborn, Awake
    <2>3. status'[u] \in Dead => Unborn(u)'
      BY <1>1, <1>4, <1>6, <2>1 DEF Unborn, Unheard
    <2>4. RemovedLast(u)'
      BY <1>4, <2>1 DEF Unborn, Unheard, NoEvents, RemovedLast
    <2>5. Unsent(u, Ending)'
      BY <1>1, <2>2 DEF Unsent, Ending
    <2>6. Free(u)'
      BY <1>7, <2>4, <2>5 DEF Free
    <2>7. status'[u] # "gone"
      BY <1>3, <1>9 DEF Dead
    <2> QED
      BY <1>5, <2>3, <2>6, <2>7 DEF Life, Alive, Dead
  <1>10. CASE status[u] = "gone"
    <2>1. status'[u] = "gone" /\ (Killed(u) \/ Over(u) \/ Stuck(u))
      BY <1>3, <1>4, <1>10 DEF Life, Ended
    <2>2. ~Stuck(u)
      BY <1>1 DEF Stuck
    <2>3. \A k \in DOMAIN todo' : todo'[k].t # u
      BY <1>6, <2>1 DEF Dead
    <2>4. Killed(u) => Killed(u)'
      BY <1>1, <1>4, <2>3 DEF Killed, Unheard
    <2>5. Over(u) => Over(u)'
      BY <1>1, <1>4, <2>3 DEF Over, Unheard
    <2> QED
      BY <1>5, <2>1, <2>2, <2>4, <2>5 DEF Life, Ended, Dead
  <1>11. CASE status[u] \notin Dead
    <2>1. Alive(u) /\ status'[u] \notin Dead
      BY <1>3, <1>4, <1>11 DEF Life
    <2>2. ~RemoveAsked(u)
      BY <1>1, <1>4 DEF RemoveAsked, FirstAsked
    <2>3. Free(u) => Free(u)'
      BY <1>1, <1>4, <1>7, <1>8 DEF Free, Unheard
    <2>4. RemoveSent(u) => RemoveSent(u)'
      BY <1>1, <1>4, <1>7 DEF RemoveSent, Unheard
    <2>5. Removing(u) => Removing(u)'
      BY <1>1, <1>4, <1>7 DEF Removing, Unheard
    <2> QED
      BY <1>5, <2>1, <2>2, <2>3, <2>4, <2>5 DEF Life, Alive, Dead
  <1> QED
    BY <1>9, <1>10, <1>11 DEF Dead

(* A handler that ends in r, whatever it is, delivers no result, and keeps   *)
(* the mode of what has been heard of.                                     *)
LEMMA HandledOthers ==
  ASSUME LInv, MainFree, NEW r, Become(r), SlaveIdle, Hears, r.crashed # Astray,
         \A u \in Transfers : r.mode[u] = "new" => mode[u] = "new" \/ status[u] = "absent"
  PROVE  EmitInv' /\ ConnectedInv' /\ crashed' # Astray
  <1>1. emitting' = NoEmission /\ mode' = r.mode /\ crashed' = r.crashed
    BY DEF MainFree, MainIdle, SlaveIdle, Become
  <1>2. EmitInv'
    BY <1>1 DEF EmitInv, NoEmission
  <1>3. ASSUME NEW k \in DOMAIN events', events'[k].kind = "SLV_CONNECTED"
        PROVE  mode'[events'[k].t] # "new"
    <2>1. PICK l \in DOMAIN events : events'[k] = events[l]
      BY DEF Hears
    <2>2. events[l] \in Events
      BY LifeTypes
    <2>3. events[l].t \in Transfers /\ mode[events[l].t] # "new"
      BY <1>3, <2>1, <2>2 DEF Events, LInv, ConnectedInv
    <2>4. status[events[l].t] # "absent"
      BY <2>3 DEF LInv, Lives, Life, Unborn, NoEvents
    <2> QED
      BY <1>1, <2>1, <2>3, <2>4
  <1>4. ConnectedInv'
    BY <1>3 DEF ConnectedInv
  <1> QED
    BY <1>1, <1>2, <1>4

LEMMA MildHandler ==
  ASSUME LInv, MainFree, NEW g, NEW r \in Records, Fresh(g), Mild(g, r), Become(r), SlaveIdle, Hears
  PROVE  Lives' /\ EmitInv' /\ ConnectedInv' /\ crashed' # Astray
  <1>1. ASSUME NEW u \in Transfers PROVE Life(u)'
    <2>1. \A k \in DOMAIN r.todo :
             r.todo[k].t = u => r.todo[k].do \notin Blocking /\ r.status[u] \notin Dead
      BY DEF Mild, Fresh
    <2>2. r.status[u] = status[u] \/ (status[u] # "gone" /\ r.status[u] \notin Dead)
      BY DEF Mild, Fresh, Dead
    <2> QED
      BY <2>1, <2>2, RestedLife
  <1>2. r.crashed # Astray
    BY DEF Mild, Follows, Fresh, Astray
  <1>3. \A u \in Transfers : r.mode[u] = "new" => mode[u] = "new" \/ status[u] = "absent"
    BY DEF Mild, Follows, Fresh
  <1> QED
    BY <1>1, <1>2, <1>3, HandledOthers DEF Lives

LEMMA HearsSame ==
  ASSUME events' = events
  PROVE  Hears
  BY SameEvents DEF Hears

(* The windows. *)
LEMMA FreshLike ==
  ASSUME NEW h, Fresh(h), NEW k \in Records, k.status = h.status, k.mode = h.mode,
         k.todo = h.todo, k.crashed = h.crashed
  PROVE  Fresh(k)
  BY DEF Fresh

LEMMA FreshMain ==
  ASSUME LInv, MainFree, NEW S \in SUBSET Transfers
  PROVE  Fresh(Main) /\ Fresh([Main EXCEPT !.selected = S])
  <1>1. Main \in Records /\ [Main EXCEPT !.selected = S] \in Records
    BY MainRecord DEF LInv, KInv
  <1>2. Main.status = status /\ Main.mode = mode /\ Main.todo = todo /\ Main.crashed = crashed
    BY DEF Main
  <1>3. Fresh(Main)
    BY <1>1, <1>2 DEF Fresh, MainFree
  <1> DEFINE k == [Main EXCEPT !.selected = S]
  <1>4. k \in Records /\ k.status = status /\ k.mode = mode /\ k.todo = todo /\ k.crashed = crashed
    BY <1>1 DEF Main
  <1> HIDE DEF k
  <1>5. Fresh(k)
    BY <1>4 DEF Fresh, MainFree
  <1> QED
    BY <1>3, <1>5 DEF k

LEMMA FreshUpdated ==
  ASSUME NEW h, Fresh(h)
  PROVE  Fresh(slotUpdateActions(h))
  <1> DEFINE k == slotUpdateActions(h)
  <1>1. h \in Records
    BY DEF Fresh
  <1>2. k \in Records /\ Alike(h, k) /\ k.todo = h.todo /\ k.crashed = h.crashed
    BY <1>1, UpdateFacts, CrashKept
  <1> HIDE DEF k
  <1>3. Fresh(k)
    BY <1>2, FreshLike DEF Alike
  <1> QED
    BY <1>3 DEF k

LEMMA FreshSelecting ==
  ASSUME LInv, MainFree, NEW S \in SUBSET Present
  PROVE  Fresh(Selecting(S))
  <1>1. S \in SUBSET Transfers
    BY DEF Present
  <1> QED
    BY <1>1, FreshMain, FreshUpdated DEF Selecting

LEMMA FreshWindow ==
  ASSUME LInv, MainFree, NEW b, NEW g \in Windows(b)
  PROVE  Fresh(g) /\ Listed(g)
  <1>1. Fresh(g)
    <2>1. g = Main \/ \E S \in SUBSET Present : g = Selecting(S)
      BY DEF Windows
    <2>2. {} \in SUBSET Transfers
      OBVIOUS
    <2>3. Fresh(Main)
      BY <2>2, FreshMain
    <2> QED
      BY <2>1, <2>3, FreshSelecting
  <1>2. KInv /\ ActiveNow \subseteq ActiveNow
    BY DEF LInv
  <1>3. Sound(g, ActiveNow, Active)
    BY <1>2, WindowSound
  <1> QED
    BY <1>1, <1>3 DEF Sound

LEMMA FreshButtons ==
  ASSUME NEW g, Fresh(g), Listed(g), NEW S \in SUBSET AllButtons
  PROVE  LET k == [g EXCEPT !.buttons = S]
         IN  Fresh(k) /\ Listed(k) /\ k.selected = g.selected
  <1> DEFINE k == [g EXCEPT !.buttons = S]
  <1>1. g \in Records
    BY DEF Fresh
  <1>2. k \in Records /\ Alike(g, k) /\ k.todo = g.todo
    BY <1>1, ButtonFacts
  <1>3. k.crashed = g.crashed
    BY <1>1 DEF Records
  <1> HIDE DEF k
  <1>4. Fresh(k)
    BY <1>2, <1>3, FreshLike DEF Alike
  <1>5. Listed(k)
    BY <1>2 DEF Listed, Alike
  <1> QED
    BY <1>2, <1>4, <1>5 DEF k, Alike

LEMMA FreshPressed ==
  ASSUME NEW g, Fresh(g), Listed(g), NEW b
  PROVE  Fresh(Pressed(g, b)) /\ Listed(Pressed(g, b))
  <1> DEFINE S == (g.buttons \cup DOMAIN Radios) \ {b}
  <1>1. S \in SUBSET AllButtons
    BY RecordFields DEF AllButtons, Fresh
  <1>2. Pressed(g, b) = [g EXCEPT !.buttons = S]
    BY DEF Pressed
  <1> HIDE DEF S
  <1> QED
    BY <1>1, <1>2, FreshButtons

LEMMA FreshAdded ==
  ASSUME LInv, MainFree, NEW S \in SUBSET Transfers, \A t \in S : status[t] = "absent"
  PROVE  Fresh(Added(S))
  <1> DEFINE h == Added(S)
             st == [t \in Transfers |-> IF t \in S THEN "stopped" ELSE status[t]]
             md == [t \in Transfers |-> IF t \in S THEN "new" ELSE mode[t]]
  <1>1. h \in Records
    BY AddedSound DEF LInv, NewSound, Sound
  <1>2. h.status = st /\ h.mode = md /\ h.todo = todo /\ h.crashed = crashed
    BY DEF Added
  <1>3. ASSUME NEW u \in Transfers
        PROVE  /\ st[u] = status[u] \/ (status[u] = "absent" /\ st[u] = "stopped")
               /\ md[u] = "new" => mode[u] = "new" \/ status[u] = "absent"
    <2>1. st[u] = IF u \in S THEN "stopped" ELSE status[u]
      OBVIOUS
    <2>2. md[u] = IF u \in S THEN "new" ELSE mode[u]
      OBVIOUS
    <2> HIDE DEF st, md
    <2> QED
      BY <2>1, <2>2
  <1> HIDE DEF st, md, h
  <1>4. "stopped" \notin Dead
    BY DEF Dead
  <1>5. Fresh(h)
    BY <1>1, <1>2, <1>3, <1>4 DEF Fresh, MainFree
  <1> QED
    BY <1>5 DEF h

----------------------------------------------------------------------------
(* The user and the timers.                                                 *)

LEMMA PressLife ==
  ASSUME LInv, NEW h, Fresh(h), Listed(h), NEW b \in AllButtons \ {"delete"}, NEW due,
         \/ Handler(EachSelected(h, b, due))
         \/ Handler(slotUpdateActions(EachSelected(h, b, due)))
  PROVE  Lives' /\ EmitInv' /\ ConnectedInv' /\ crashed' # Astray
  <1> DEFINE e == EachSelected(h, b, due)
             k == slotUpdateActions(e)
  <1>1. h \in Records
    BY DEF Fresh
  <1>2. e \in Records /\ Mild(h, e)
    BY <1>1, SelectedMild
  <1>3. MainFree /\ SlaveIdle /\ events' = events /\ (Become(e) \/ Become(k))
    BY DEF Handler
  <1>4. Hears
    BY <1>3, HearsSame
  <1> HIDE DEF e
  <1>5. k \in Records /\ Mild(e, k)
    BY <1>2, QueueMild
  <1> HIDE DEF k
  <1>6. Mild(h, k)
    BY <1>1, <1>2, <1>5, MildTwice
  <1> QED
    BY <1>2, <1>3, <1>4, <1>5, <1>6, MildHandler

LEMMA QuietHandlers ==
  ASSUME LInv, NEW h, Fresh(h), NEW due, MainFree,
         Handler(h) \/ Handler(checkQueue(h)) \/ Handler(slotTransferTimeout(h, due))
  PROVE  Lives' /\ EmitInv' /\ ConnectedInv' /\ crashed' # Astray
  <1> DEFINE a == checkQueue(h)
             b == slotTransferTimeout(h, due)
  <1>1. h \in Records
    BY DEF Fresh
  <1>2. a \in Records /\ Mild(h, a) /\ b \in Records /\ Mild(h, b)
    BY <1>1, QueueMild
  <1>3. Mild(h, h)
    BY MildSame DEF Follows
  <1>4. SlaveIdle /\ events' = events /\ (Become(h) \/ Become(a) \/ Become(b))
    BY DEF Handler
  <1>5. Hears
    BY <1>4, HearsSame
  <1> HIDE DEF a, b
  <1> QED
    BY <1>1, <1>2, <1>3, <1>4, <1>5, MildHandler

(* A window shows the present status of the transfers. *)
LEMMA WindowStatus ==
  ASSUME LInv, MainFree, NEW b, NEW g \in Windows(b)
  PROVE  g.status = status
  <1>1. Main.status = status
    BY DEF Main
  <1>2. ASSUME NEW S \in SUBSET Present PROVE Selecting(S).status = status
    <2> DEFINE k == [Main EXCEPT !.selected = S]
    <2>1. S \in SUBSET Transfers
      BY DEF Present
    <2>2. k \in Records /\ k.status = status
      BY <2>1, FreshMain DEF Main, Fresh
    <2>3. Selecting(S) = slotUpdateActions(k)
      BY DEF Selecting
    <2> HIDE DEF k
    <2> QED
      BY <2>2, <2>3, UpdateFacts DEF Alike
  <1>3. g = Main \/ \E S \in SUBSET Present : g = Selecting(S)
    BY DEF Windows
  <1> QED
    BY <1>1, <1>2, <1>3

(* Delete: the user has waited for the answers of what he deletes.          *)
LEMMA DeleteLife ==
  ASSUME LInv, Calm, NEW g \in Windows("delete"), DeleteCurrent(g)
  PROVE  Lives' /\ EmitInv' /\ ConnectedInv' /\ crashed' # Astray
  <1> DEFINE S == g.buttons \ {"delete", "pause"}
             a == [g EXCEPT !.buttons = S]
             e == EachSelected(a, "delete", {})
             r == checkQueue(e)
  <1>1. Handler(r)
    BY DEF DeleteCurrent
  <1>2. /\ MainFree /\ SlaveIdle /\ events' = events /\ Become(r)
    BY <1>1 DEF Handler
  <1>3. Fresh(g) /\ Listed(g)
    BY <1>2, FreshWindow
  <1>4. S \in SUBSET AllButtons
    BY <1>3, RecordFields DEF Fresh
  <1> HIDE DEF S
  <1>5. Fresh(a) /\ Listed(a) /\ a.selected = g.selected
    BY <1>3, <1>4, FreshButtons
  <1>6. a.status = status
    <2>1. g.status = status
      BY <1>2, WindowStatus
    <2>2. a.status = g.status
      BY <1>3, <1>4, ButtonFacts DEF a, Fresh, Alike
    <2> QED
      BY <2>1, <2>2
  <1> HIDE DEF a
  <1>7. a \in Records /\ a.todo = <<>> /\ a.crashed = "no"
    BY <1>5 DEF Fresh
  <1>8. e \in Records /\ DeletesOnly(a, e)
    BY <1>7, DeleteAll
  <1> HIDE DEF e
  <1>9. r \in Records /\ Adds(e, r)
    BY <1>8, QueueAdds
  <1> HIDE DEF r
  <1>10. Hears
    BY <1>2, HearsSame
  <1>11. \A t \in a.selected : Quiet(t)
    BY <1>5 DEF Windows, Calm
  <1>12. Follows(e, r) /\ Extends(e.todo, r.todo)
    BY <1>9 DEF Adds
  <1>13. r.crashed # Astray
    BY <1>7, <1>8, <1>12 DEF DeletesOnly, Follows, Astray
  <1>14. \A u \in Transfers : r.mode[u] = "new" => mode[u] = "new" \/ status[u] = "absent"
    BY <1>5, <1>8, <1>12 DEF DeletesOnly, Follows, Fresh
  <1>15. \A u \in Transfers : \A k \in DOMAIN r.todo : r.todo[k].t = u =>
             k \in Anew(e.todo, r.todo, u) \/ (k \in Asked(e, u) /\ r.todo[k] = e.todo[k])
    BY <1>12 DEF Anew, Asked, Extends
  <1>16. ASSUME NEW u \in Transfers
         PROVE  \/ r.status[u] = e.status[u] /\ Anew(e.todo, r.todo, u) = {}
                \/ /\ Resting(e, u) /\ r.status[u] = "trying"
                   /\ \A k \in Anew(e.todo, r.todo, u) : r.todo[k].do \notin Blocking
    <2>1. Beginning \cap Blocking = {}
      BY DEF Beginning, Blocking
    <2> QED
      BY <1>9, <2>1 DEF Adds
  <1>17. ASSUME NEW u \in Transfers, e.status[u] = a.status[u], Asked(e, u) = {}
         PROVE  Life(u)'
    <2>1. a.status[u] = status[u] \/ (status[u] = "absent" /\ a.status[u] \notin Dead)
      BY <1>5 DEF Fresh
    <2>2. r.status[u] = status[u] \/ (status[u] # "gone" /\ r.status[u] \notin Dead)
      BY <1>16, <1>17, <2>1 DEF Resting, Dead
    <2>3. \A k \in DOMAIN r.todo :
             r.todo[k].t = u => r.todo[k].do \notin Blocking /\ r.status[u] \notin Dead
      BY <1>15, <1>16, <1>17 DEF Dead
    <2> QED
      BY <1>2, <1>10, <2>2, <2>3, RestedLife
  <1>18. ASSUME NEW u \in Transfers, u \in a.selected, Deleting(a, e, u)
         PROVE  Life(u)'
    <2>1. status[u] \notin Dead
      BY <1>5, <1>6, <1>18 DEF Listed, Present, Dead
    <2>2. Quiet(u)
      BY <1>11, <1>18
    <2>3. /\ UNCHANGED <<stack, pc, cmd, op, events>> /\ op = NoOp
          /\ status' = r.status /\ todo' = r.todo
      BY <1>2 DEF MainFree, MainIdle, SlaveIdle, Become
    <2>4. DOMAIN events = 1 .. Len(events)
      BY LifeTypes
    <2>5. /\ stack'[u] = <<>> /\ cmd'[u] = "NOOP" /\ pc'[u] # "exit" /\ NoEvents(u)'
          /\ DOMAIN stack'[u] = {} /\ op'.t # u
      BY <2>2, <2>3, <2>4, NoTransfers DEF Quiet, NoEvents
    <2>6. Obeys(u)'
      BY <2>3 DEF LInv, Lives, Life, Obeys
    <2>7. CASE /\ e.status[u] = a.status[u]
               /\ \E i : Asked(e, u) = {i} /\ e.todo[i].do = "REMOVE"
      <3>1. PICK i : Asked(e, u) = {i} /\ e.todo[i].do = "REMOVE"
        BY <2>7
      <3>2. i \in DOMAIN e.todo /\ e.todo[i].t = u
        BY <3>1 DEF Asked
      <3>3. i \in DOMAIN r.todo /\ r.todo[i] = e.todo[i]
        BY <1>12, <3>2 DEF Extends
      <3>4. ASSUME NEW l \in DOMAIN r.todo, r.todo[l].t = u
            PROVE  l >= i /\ (r.todo[l].do \in Blocking => l = i)
        <4>1. e.todo \in Seq(Ops) /\ r.todo \in Seq(Ops)
          BY <1>8, <1>9, RecordFields
        <4>2. /\ DOMAIN e.todo = 1 .. Len(e.todo) /\ DOMAIN r.todo = 1 .. Len(r.todo)
              /\ Len(e.todo) \in Nat /\ Len(r.todo) \in Nat
          BY <4>1
        <4>3. CASE l \in Asked(e, u)
          BY <3>1, <3>2, <4>2, <4>3
        <4>4. CASE l \in Anew(e.todo, r.todo, u)
          <5>1. r.todo[l].do \notin Blocking
            BY <1>16, <4>4
          <5>2. l \in DOMAIN r.todo /\ l \notin DOMAIN e.todo
            BY <4>4 DEF Anew
          <5>3. l >= i
            BY <3>2, <4>2, <5>2
          <5> QED
            BY <5>1, <5>3
        <4> QED
          BY <1>15, <3>4, <4>3, <4>4
      <3>5. FirstAsked(todo', u)
        BY <2>3, <3>1, <3>2, <3>3, <3>4 DEF FirstAsked
      <3>6. RemoveAsked(u)'
        BY <2>5, <3>5 DEF RemoveAsked, FirstAsked
      <3>7. status'[u] \notin Dead
        BY <1>16, <1>6, <2>1, <2>3, <2>7 DEF Dead
      <3> QED
        BY <2>6, <3>6, <3>7 DEF Life, Alive, Dead
    <2>8. CASE /\ e.status[u] = "gone"
               /\ \A i \in Asked(e, u) : e.todo[i].do = "abort"
      <3>1. status'[u] = "gone" /\ Anew(e.todo, r.todo, u) = {}
        BY <1>16, <2>3, <2>8 DEF Resting
      <3>2. \A k \in DOMAIN todo' : todo'[k].t = u => todo'[k].do = "abort"
        BY <1>15, <2>3, <2>8, <3>1
      <3>3. Killed(u)'
        BY <2>5, <3>2 DEF Killed
      <3> QED
        BY <2>6, <3>1, <3>3 DEF Life, Ended, Dead
    <2> QED
      BY <1>18, <2>7, <2>8 DEF Deleting
  <1>19. Lives'
    BY <1>8, <1>17, <1>18 DEF DeletesOnly, Lives
  <1>20. EmitInv' /\ ConnectedInv' /\ crashed' # Astray
    BY <1>2, <1>10, <1>13, <1>14, HandledOthers
  <1> QED
    BY <1>19, <1>20

LEMMA UserLife ==
  ASSUME LInv, Calm, User \/ TransferTimeout
  PROVE  Lives' /\ EmitInv' /\ ConnectedInv' /\ crashed' # Astray
  <1> DEFINE Goal == Lives' /\ EmitInv' /\ ConnectedInv' /\ crashed' # Astray
  <1>1. \A b \in {"resume", "pause", "restart", "queue", "delay", "timer"} :
           b \in AllButtons \ {"delete"}
    BY ButtonNames
  <1>2. ASSUME TransferTimeout PROVE Goal
    <2>1. PICK due : Handler(slotTransferTimeout(Main, due))
      BY <1>2 DEF TransferTimeout
    <2>2. MainFree /\ {} \in SUBSET Transfers
      BY <2>1 DEF Handler
    <2>3. Fresh(Main)
      BY <2>2, FreshMain
    <2> QED
      BY <2>1, <2>2, <2>3, QuietHandlers
  <1>3. ASSUME NEW S \in SUBSET Transfers, AddTransfers(S) PROVE Goal
    <2>1. Handler(checkQueue(Added(S))) /\ \A t \in S : status[t] = "absent"
      BY <1>3, AddHandler
    <2>2. MainFree
      BY <2>1 DEF Handler
    <2>3. Fresh(Added(S))
      BY <2>1, <2>2, FreshAdded
    <2> QED
      BY <2>1, <2>2, <2>3, QuietHandlers
  <1>4. ASSUME NEW S \in SUBSET Present, Select(S) PROVE Goal
    <2>1. Handler(Selecting(S))
      BY <1>4 DEF Select
    <2>2. MainFree
      BY <2>1 DEF Handler
    <2>3. Fresh(Selecting(S))
      BY <2>2, FreshSelecting
    <2> QED
      BY <2>1, <2>2, <2>3, QuietHandlers
  <1>5. ASSUME NEW b \in {"resume", "pause", "restart"}, NEW g \in Windows(b),
               Handler(slotUpdateActions(EachSelected(g, b, {})))
        PROVE  Goal
    <2>1. MainFree
      BY <1>5 DEF Handler
    <2>2. Fresh(g) /\ Listed(g)
      BY <2>1, FreshWindow
    <2>3. b \in AllButtons \ {"delete"}
      BY <1>1
    <2> QED
      BY <1>5, <2>2, <2>3, PressLife
  <1>6. ASSUME NEW b \in {"queue", "delay", "timer"}, NEW g \in Windows(b), NEW due,
               \/ Handler(EachSelected(Pressed(g, b), b, due))
               \/ Handler(slotUpdateActions(EachSelected(Pressed(g, b), b, due)))
        PROVE  Goal
    <2>1. MainFree
      BY <1>6 DEF Handler
    <2>2. Fresh(g) /\ Listed(g)
      BY <2>1, FreshWindow
    <2>3. Fresh(Pressed(g, b)) /\ Listed(Pressed(g, b))
      BY <2>2, FreshPressed
    <2>4. b \in AllButtons \ {"delete"}
      BY <1>1
    <2> QED
      BY <1>6, <2>3, <2>4, PressLife
  <1>7. ASSUME NEW g \in Windows("resume"), ResumeCurrent(g) PROVE Goal
    BY <1>5, <1>7 DEF ResumeCurrent
  <1>8. ASSUME NEW g \in Windows("pause"), PauseCurrent(g) PROVE Goal
    BY <1>5, <1>8 DEF PauseCurrent
  <1>9. ASSUME NEW g \in Windows("restart"), RestartCurrent(g) PROVE Goal
    BY <1>5, <1>9 DEF RestartCurrent
  <1>10. ASSUME NEW g \in Windows("delete"), DeleteCurrent(g) PROVE Goal
    BY <1>10, DeleteLife
  <1>11. ASSUME NEW g \in Windows("queue"), QueueCurrent(g) PROVE Goal
    BY <1>6, <1>11 DEF QueueCurrent
  <1>12. ASSUME NEW g \in Windows("delay"), DelayCurrent(g) PROVE Goal
    BY <1>6, <1>12 DEF DelayCurrent
  <1>13. ASSUME NEW g \in Windows("timer"), TimerCurrent(g) PROVE Goal
    BY <1>6, <1>13 DEF TimerCurrent
  <1> HIDE DEF Goal
  <1>14. Goal
    <2>1. CASE User
      BY <1>3, <1>4, <1>7, <1>8, <1>9, <1>10, <1>11, <1>12, <1>13, <2>1 DEF User, Calm
    <2> QED
      BY <1>2, <2>1
  <1> QED
    BY <1>14 DEF Goal

----------------------------------------------------------------------------
(* The answers.                                                             *)

LEMMA TwoAppended ==
  ASSUME NEW q \in Seq(Ops), q = <<>>, NEW a \in Ops, NEW b \in Ops
  PROVE  LET r == Append(Append(q, a), b)
         IN  r # <<>> /\ Head(r) = a /\ \A k \in DOMAIN r : r[k] \in {a, b}
  <1>1. Append(q, a) \in Seq(Ops) /\ Len(q) = 0
    OBVIOUS
  <1>2. PICK n : n = Append(q, a) /\ n \in Seq(Ops)
    BY <1>1
  <1>3. Len(n) = 1 /\ n[1] = a
    BY <1>1, <1>2
  <1>4. Append(n, b) \in Seq(Ops)
    BY <1>2
  <1>5. PICK r : r = Append(n, b) /\ r \in Seq(Ops)
    BY <1>4
  <1>6. Len(r) = 2 /\ r[1] = a /\ r[2] = b
    BY <1>2, <1>3, <1>5
  <1>7. DOMAIN r = {1, 2} /\ r # <<>> /\ Head(r) = r[1]
    BY <1>5, <1>6
  <1> QED
    BY <1>2, <1>5, <1>6, <1>7

(* REMOVED: the main thread is to wait for the thread, and deletes t.       *)
LEMMA RemovedFacts ==
  ASSUME NEW h \in Records, NEW t \in Transfers, h.todo = <<>>
  PROVE  LET r == slotExecRemove(h, t)
         IN  /\ r.status = [h.status EXCEPT ![t] = "gone"]
             /\ r.mode = [h.mode EXCEPT ![t] = "none"]
             /\ r.crashed = h.crashed
             /\ r.todo # <<>> /\ Head(r.todo) = [t |-> t, do |-> "join"]
             /\ \A k \in DOMAIN r.todo :
                   r.todo[k].t = t /\ r.todo[k].do \in {"abort", "join"}
  <1> DEFINE r == slotExecRemove(h, t)
             a == Do(h, t, "join")
             x == Show(a, t, "gone", "none")
             S == x.selected \ {t}
             y == [x EXCEPT !.selected = S]
  <1>1. r = Do(y, t, "abort")
    BY DEF slotExecRemove, deleteItem
  <1>2. /\ "gone" \in Statuses /\ "none" \in Modes
        /\ {"abort", "join"} \subseteq Commands \cup {"abort", "join"}
    BY DEF Statuses, Modes
  <1>3. a \in Records /\ Alike(h, a) /\ a.todo = Append(h.todo, [t |-> t, do |-> "join"])
    BY <1>2, DoFacts
  <1>4. a.crashed = h.crashed
    BY CrashKept
  <1> HIDE DEF a
  <1>5. /\ x \in Records /\ x.status = [a.status EXCEPT ![t] = "gone"]
        /\ x.mode = [a.mode EXCEPT ![t] = "none"] /\ x.todo = a.todo
    BY <1>2, <1>3, ShowFacts
  <1>6. x.crashed = a.crashed
    BY <1>3, CrashKept
  <1> HIDE DEF x
  <1>7. S \subseteq Transfers
    BY <1>5, RecordFields
  <1> HIDE DEF S
  <1>8. /\ y \in Records /\ y.status = x.status /\ y.mode = x.mode
        /\ y.todo = x.todo /\ y.crashed = x.crashed
    BY <1>5, <1>7 DEF Records
  <1> HIDE DEF y
  <1>9. Alike(y, r) /\ r.todo = Append(y.todo, [t |-> t, do |-> "abort"])
    BY <1>1, <1>2, <1>8, DoFacts
  <1>10. r.crashed = y.crashed
    BY <1>1, <1>8, CrashKept
  <1> HIDE DEF r
  <1>11. /\ r.todo # <<>> /\ Head(r.todo) = [t |-> t, do |-> "join"]
         /\ \A k \in DOMAIN r.todo : r.todo[k].t = t /\ r.todo[k].do \in {"abort", "join"}
    <2> DEFINE j == [t |-> t, do |-> "join"]
               b == [t |-> t, do |-> "abort"]
               q == Append(Append(h.todo, j), b)
    <2>1. r.todo = q
      BY <1>3, <1>5, <1>8, <1>9
    <2>2. /\ j \in Ops /\ b \in Ops /\ j.t = t /\ b.t = t /\ j.do = "join" /\ b.do = "abort"
      BY DEF Ops
    <2>3. h.todo \in Seq(Ops)
      BY RecordFields
    <2> HIDE DEF j, b
    <2>4. q # <<>> /\ Head(q) = j /\ \A k \in DOMAIN q : q[k] \in {j, b}
      BY <2>2, <2>3, TwoAppended
    <2> HIDE DEF q
    <2>5. \A k \in DOMAIN q : q[k].t = t /\ q[k].do \in {"abort", "join"}
      BY <2>2, <2>4
    <2> QED
      BY <2>1, <2>4, <2>5 DEF j
  <1>12. /\ r.status = [h.status EXCEPT ![t] = "gone"] /\ r.mode = [h.mode EXCEPT ![t] = "none"]
         /\ r.crashed = h.crashed
    BY <1>3, <1>4, <1>5, <1>6, <1>8, <1>9, <1>10 DEF Alike
  <1> QED
    BY <1>11, <1>12 DEF r

LEMMA RemovedLife ==
  ASSUME LInv, MainFree, SlaveIdle, Hears, NEW t \in Transfers, Become(slotExecRemove(Main, t)),
         status[t] \notin Dead, NEW l \in DOMAIN events, events[l].t = t,
         events[l].kind = "SLV_REMOVED", RemovedLast(t) => NoEvents(t)'
  PROVE  Lives' /\ EmitInv' /\ ConnectedInv' /\ crashed' # Astray
  <1> DEFINE r == slotExecRemove(Main, t)
  <1>1. Main \in Records /\ Main.todo = <<>>
    BY MainRecord DEF LInv, KInv, Main, MainFree
  <1>2. /\ Main.status = status /\ Main.mode = mode /\ Main.crashed = "no"
        /\ status \in [Transfers -> Statuses] /\ mode \in [Transfers -> Modes]
    BY <1>1, RecordFields DEF Main, MainFree
  <1>3. /\ r.status = [status EXCEPT ![t] = "gone"] /\ r.mode = [mode EXCEPT ![t] = "none"]
        /\ r.crashed = "no" /\ r.todo # <<>> /\ Head(r.todo) = [t |-> t, do |-> "join"]
        /\ \A k \in DOMAIN r.todo : r.todo[k].t = t /\ r.todo[k].do \in {"abort", "join"}
    <2>1. /\ r.status = [Main.status EXCEPT ![t] = "gone"]
          /\ r.mode = [Main.mode EXCEPT ![t] = "none"] /\ r.crashed = Main.crashed
          /\ r.todo # <<>> /\ Head(r.todo) = [t |-> t, do |-> "join"]
          /\ \A k \in DOMAIN r.todo : r.todo[k].t = t /\ r.todo[k].do \in {"abort", "join"}
      BY <1>1, RemovedFacts
    <2> HIDE DEF r
    <2> QED
      BY <1>2, <2>1
  <1>4. Become(r)
    OBVIOUS
  <1> HIDE DEF r
  <1>5. ASSUME NEW u \in Transfers, u # t PROVE Life(u)'
    <2>1. r.status[u] = status[u] /\ \A k \in DOMAIN r.todo : r.todo[k].t # u
      BY <1>2, <1>3, <1>5
    <2> QED
      BY <1>4, <2>1, RestedLife
  <1>6. Life(t)'
    <2>1. /\ UNCHANGED <<stack, pc, cmd, op>> /\ op = NoOp /\ todo = <<>>
          /\ status'[t] = "gone" /\ todo' = r.todo
      BY <1>2, <1>3, <1>4 DEF MainFree, MainIdle, SlaveIdle, Become
    <2>2. Life(t) /\ op'.t # t
      BY <2>1, NoTransfers DEF LInv, Lives
    <2>3. Obeys(t)'
      BY <2>1, <2>2 DEF Life, Obeys
    <2>4. ~NoRemoved(t) /\ ~NoEvents(t)
      BY DEF NoRemoved, NoEvents
    <2>5. Free(t)
      BY <2>2, <2>4 DEF Life, Alive, RemoveAsked, RemoveSent, Removing
    <2>6. CASE pc[t] \in {"none", "exit"}
      <3>1. NoEvents(t)'
        BY <2>5, <2>6 DEF Free
      <3>2. Over(t)'
        BY <1>3, <2>1, <2>2, <2>6, <3>1 DEF Over
      <3> QED
        BY <2>1, <2>3, <3>2 DEF Life, Ended, Dead
    <2>7. CASE pc[t] \notin {"none", "exit"}
      <3>1. Stuck(t)'
        BY <1>3, <2>1, <2>5, <2>7 DEF Free, Unsent, Stuck
      <3> QED
        BY <2>1, <2>3, <3>1 DEF Life, Ended, Dead
    <2> QED
      BY <2>6, <2>7
  <1>7. r.crashed # Astray
    BY <1>3 DEF Astray
  <1>8. \A u \in Transfers : r.mode[u] = "new" => mode[u] = "new" \/ status[u] = "absent"
    BY <1>2, <1>3
  <1>9. EmitInv' /\ ConnectedInv' /\ crashed' # Astray
    BY <1>4, <1>7, <1>8, HandledOthers
  <1> QED
    BY <1>5, <1>6, <1>9 DEF Lives

LEMMA HandleEventLife ==
  ASSUME LInv, Calm, HandleEvent
  PROVE  Lives' /\ EmitInv' /\ ConnectedInv' /\ crashed' # Astray
  <1>1. /\ MainFree /\ SlaveIdle
        /\ Head(events).t \in Transfers /\ Head(events).kind \in EventKinds
    BY EventRecord DEF LInv
  <1>2. PICK t \in Transfers, kind \in EventKinds :
           t = Head(events).t /\ kind = Head(events).kind
    BY <1>1
  <1>3. events \in Seq(Events) /\ events # <<>> /\ events' = Tail(events)
    BY LifeTypes DEF HandleEvent
  <1>4. /\ Hears
        /\ RemovedLast(t) /\ kind = "SLV_REMOVED" => NoEvents(t)'
        /\ \E l \in DOMAIN events : Head(events) = events[l]
    BY <1>2, <1>3, TailEvents DEF Hears
  <1>5. PICK l \in DOMAIN events : events[l].t = t /\ events[l].kind = kind
    BY <1>2, <1>4
  <1>6. status[t] \notin Dead
    <2>1. ~NoEvents(t) /\ Life(t)
      BY <1>5 DEF NoEvents, LInv, Lives
    <2>2. ~Unborn(t) /\ ~Killed(t) /\ ~Over(t)
      BY <2>1 DEF Unborn, Killed, Over
    <2>3. ~Stuck(t)
      BY <1>1 DEF Stuck, MainFree
    <2> QED
      BY <2>1, <2>2, <2>3 DEF Life, Ended, Dead
  <1>7. PICK due : Become(customEvent(Main, t, kind, due))
    <2>1. \/ /\ status[t] = "gone"
             /\ Become([Main EXCEPT !.crashed = "kmainwidget.cpp:customEvent"])
          \/ /\ status[t] # "gone"
             /\ \E due : Become(customEvent(Main, t, kind, due))
      BY <1>2, EventRecord DEF LInv
    <2> QED
      BY <1>6, <2>1 DEF Dead
  <1>8. CASE kind = "SLV_REMOVED"
    <2>1. customEvent(Main, t, kind, due) = slotExecRemove(Main, t)
      BY <1>8 DEF customEvent
    <2>2. Become(slotExecRemove(Main, t))
      BY <1>7, <2>1
    <2> QED
      BY <1>1, <1>4, <1>5, <1>6, <1>8, <2>2, RemovedLife
  <1>9. CASE kind # "SLV_REMOVED"
    <2> DEFINE r == customEvent(Main, t, kind, due)
    <2>1. Fresh(Main) /\ Main \in Records
      <3>1. {} \in SUBSET Transfers
        OBVIOUS
      <3> QED
        BY <1>1, <3>1, FreshMain DEF Fresh
    <2>2. Main.status[t] \notin Dead /\ (kind = "SLV_CONNECTED" => Main.mode[t] # "new")
      <3>1. Main.status = status /\ Main.mode = mode
        BY DEF Main
      <3> QED
        BY <1>5, <1>6, <3>1 DEF LInv, ConnectedInv
    <2>3. kind \in EventKinds \ {"SLV_REMOVED"} /\ ~b_removeOnSuccess
      BY <1>9 DEF Calm
    <2>4. r \in Records /\ Mild(Main, r)
      BY <2>1, <2>2, <2>3, EventMild
    <2>5. Become(r)
      BY <1>7
    <2> HIDE DEF r
    <2> QED
      BY <1>1, <1>4, <2>1, <2>4, <2>5, MildHandler
  <1> QED
    BY <1>8, <1>9

----------------------------------------------------------------------------
LEMMA LifeInit == Init => LInv
  <1> SUFFICES ASSUME Init PROVE LInv
    OBVIOUS
  <1>1. KInv
    BY KInit
  <1>2. /\ events = <<>> /\ op = NoOp /\ todo = <<>> /\ emitting = NoEmission /\ crashed = "no"
        /\ DOMAIN events = {} /\ DOMAIN todo = {}
        /\ \A t \in Transfers : /\ stack[t] = <<>> /\ pc[t] = "none" /\ cmd[t] = "NOOP"
                                /\ status[t] = "absent"
    BY DEF Init, SInit
  <1>3. ASSUME NEW t \in Transfers PROVE Life(t)
    <2>1. op.t # t
      BY <1>2, NoTransfers
    <2>2. Obeys(t) /\ Unborn(t)
      BY <1>2, <2>1 DEF Obeys, Unborn, NoEvents, Awake
    <2> QED
      BY <1>2, <2>2 DEF Life, Dead
  <1>4. EmitInv /\ ConnectedInv /\ crashed # Astray
    BY <1>2 DEF EmitInv, ConnectedInv, NoEmission, Astray
  <1> QED
    BY <1>1, <1>3, <1>4 DEF LInv, Lives

LEMMA LifeNext == Calm /\ LInv /\ [Next]_vars => LInv'
  <1> SUFFICES ASSUME Calm, LInv, [Next]_vars PROVE LInv'
    OBVIOUS
  <1>1. KInv'
    BY KNext DEF LInv
  <1>2. CASE UNCHANGED vars
    <2>1. /\ UNCHANGED <<stack, pc, cmd, events, op, emitting, crashed>>
          /\ UNCHANGED <<status, mode, todo>>
      BY <1>2 DEF vars, svars, kvars
    <2>2. Lives'
      BY <2>1, SameEvents, LifeKept DEF LInv, Lives
    <2>3. EmitInv' /\ ConnectedInv' /\ crashed' # Astray
      BY <2>1 DEF LInv, EmitInv, ConnectedInv
    <2> QED
      BY <1>1, <2>2, <2>3 DEF LInv
  <1>3. CASE Next
    <2>1. ASSUME NEW t \in Transfers,
                 \/ JobConnected(t) \/ JobEnds(t) \/ JobSucceeded(t) \/ JobFailed(t)
                 \/ PushStep(t) \/ SlaveStep(t)
          PROVE  Lives' /\ EmitInv' /\ ConnectedInv' /\ crashed' # Astray
      BY <2>1, ConnectedLife, EndsLife, ResultLife, PushStepLife, SlaveStepLife
    <2>2. Lives' /\ EmitInv' /\ ConnectedInv' /\ crashed' # Astray
      BY <1>3, <2>1, UserLife, HandleEventLife, NextOpLife, AbortLife, JoinLife DEF Next
    <2> QED
      BY <1>1, <2>2 DEF LInv
  <1> QED
    BY <1>2, <1>3

(* No event of a deleted Transfer is ever handled: customEvent, which has   *)
(* only a plain pointer, does not meet one that is gone.  That holds for a  *)
(* user who waits for the answers of the transfers he selects before he     *)
(* presses a button (Patient), on a platform whose condition variable wakes *)
(* nobody for nothing, with b_removeOnSuccess off and without the offline   *)
(* switch; each of the four can make customEvent meet a deleted Transfer.   *)
THEOREM DeletedStaySilent ==
  ASSUME Calm
  PROVE  Spec => []DeletedIsSilent
  <1>1. LInv /\ DeletedHasNoThread => DeletedIsSilent
    BY DEF LInv, Astray, DeletedIsSilent
  <1>2. Calm
    OBVIOUS
  <1>3. LInv /\ [Next]_vars => LInv'
    BY <1>2, LifeNext
  <1> QED
    BY <1>1, <1>3, LifeInit, DeletedIsStopped, PTL DEF Spec

----------------------------------------------------------------------------
(* The flow of a transfer: what is under way agrees with what the list      *)
(* shows, unless it is being removed.                                      *)

News == {"SLV_RESUMED", "SLV_CONNECTED"}

Going(t) == Unasked(t, Blocking) /\ Unsent(t, Ending) /\ NoRemoved(t)
OnlyNews(t) == \A k \in DOMAIN events : events[k].t = t => events[k].kind \in News
ResultLast(t) ==
    \E k \in DOMAIN events :
        /\ events[k].t = t /\ events[k].kind \in Results
        /\ \A l \in DOMAIN events : events[l].t = t /\ l # k => l < k /\ events[l].kind \in News

(* A command that begins a download is the only one asked of t. *)
Sole(q, t) ==
    \E k \in DOMAIN q :
        q[k].t = t /\ q[k].do \in Beginning /\ \A l \in DOMAIN q : q[l].t = t => l = k
Unordered(t) == op.t # t /\ \A k \in DOMAIN todo : todo[k].t # t
NoCommands(t) == Unordered(t) /\ stack[t] = <<>> /\ cmd[t] = "NOOP"

(* The download is asked for, in one place; runs; has ended; or there is    *)
(* none.                                                                   *)
Begun(t) ==
    /\ copyjob[t] = "none" /\ NoEvents(t)
    /\ \/ stack[t] = <<>> /\ cmd[t] = "NOOP" /\ op.t # t /\ Sole(todo, t)
       \/ /\ stack[t] = <<>> /\ cmd[t] = "NOOP" /\ op.t = t /\ op.cmd \in Beginning
          /\ \A k \in DOMAIN todo : todo[k].t # t
       \/ Unordered(t) /\ cmd[t] = "NOOP" /\ Len(stack[t]) = 1 /\ stack[t][1] \in Beginning
       \/ Unordered(t) /\ cmd[t] \in Beginning /\ stack[t] = <<>>
Loading(t) == NoCommands(t) /\ copyjob[t] # "none" /\ OnlyNews(t)
Loaded(t)  == NoCommands(t) /\ copyjob[t] = "none" /\ ResultLast(t)
AtRest(t)  == NoCommands(t) /\ copyjob[t] = "none" /\ NoEvents(t)

Flow(t) ==
    status[t] \notin Dead /\ Going(t) =>
        IF status[t] \in Active THEN Begun(t) \/ Loading(t) \/ Loaded(t) ELSE AtRest(t)
Flows == \A t \in Transfers : Flow(t)
FInv == LInv /\ (crashed = "no" => Flows)

(* The events of u are as they were, or fewer of the news. *)
Echoes(u) ==
    /\ NoEvents(u) => NoEvents(u)'
    /\ OnlyNews(u) => OnlyNews(u)'
    /\ ResultLast(u) => ResultLast(u)'
    /\ NoRemoved(u)' => NoRemoved(u)

LEMMA NewsOrResult == News \cap Results = {} /\ "SLV_REMOVED" \notin News \cup Results
  BY DEF News, Results

LEMMA SameEchoes ==
  ASSUME events' = events
  PROVE  \A u : Echoes(u)
  BY DEF Echoes, NoEvents, OnlyNews, ResultLast, NoRemoved

LEMMA PostEchoes ==
  ASSUME events \in Seq(Events), NEW t \in Transfers, NEW kind \in EventKinds, Post(t, kind)
  PROVE  /\ \A u : u # t => Echoes(u)
         /\ NoRemoved(t)' => NoRemoved(t) /\ kind # "SLV_REMOVED"
         /\ kind \in News /\ OnlyNews(t) => OnlyNews(t)'
         /\ kind \in Results /\ OnlyNews(t) => ResultLast(t)'
  <1> DEFINE e == [t |-> t, kind |-> kind]
             n == Len(events) + 1
  <1>1. e \in Events /\ e.t = t /\ e.kind = kind /\ events' = Append(events, e)
    BY DEF Events, Post
  <1> HIDE DEF e
  <1>2. /\ DOMAIN events = 1 .. Len(events) /\ Len(events) \in Nat
        /\ DOMAIN Append(events, e) = 1 .. Len(events) + 1
        /\ \A i \in 1 .. Len(events) : Append(events, e)[i] = events[i]
        /\ Append(events, e)[Len(events) + 1] = e
    BY <1>1
  <1>3. /\ DOMAIN events' = DOMAIN events \cup {n} /\ events'[n] = e
        /\ \A i \in DOMAIN events : events'[i] = events[i] /\ i < n /\ i # n
    BY <1>1, <1>2
  <1> HIDE DEF n
  <1>4. ASSUME NEW u, u # t PROVE Echoes(u)
    <2>1. \A i \in DOMAIN events' : events'[i].t = u => i \in DOMAIN events /\ events'[i] = events[i]
      BY <1>1, <1>3, <1>4
    <2>2. /\ NoEvents(u) => NoEvents(u)'
          /\ OnlyNews(u) => OnlyNews(u)'
          /\ NoRemoved(u)' => NoRemoved(u)
      BY <1>3, <2>1 DEF NoEvents, OnlyNews, NoRemoved
    <2>3. ResultLast(u) => ResultLast(u)'
      BY <1>3, <2>1 DEF ResultLast
    <2> QED
      BY <2>2, <2>3 DEF Echoes
  <1>5. NoRemoved(t)' => NoRemoved(t) /\ kind # "SLV_REMOVED"
    BY <1>1, <1>3 DEF NoRemoved
  <1>6. kind \in News /\ OnlyNews(t) => OnlyNews(t)'
    BY <1>1, <1>3 DEF OnlyNews
  <1>7. kind \in Results /\ OnlyNews(t) => ResultLast(t)'
    BY <1>1, <1>3 DEF OnlyNews, ResultLast
  <1> QED
    BY <1>4, <1>5, <1>6, <1>7

LEMMA TailEchoes ==
  ASSUME events \in Seq(Events), events # <<>>, events' = Tail(events),
         NEW t, Head(events).t = t
  PROVE  /\ \A u : u # t => Echoes(u)
         /\ Head(events).kind \in News => Echoes(t)
         /\ Head(events).kind # "SLV_REMOVED" /\ NoRemoved(t)' => NoRemoved(t)
         /\ Head(events).kind \in Results /\ ResultLast(t) => NoEvents(t)'
         /\ ~NoEvents(t)
         /\ OnlyNews(t) => Head(events).kind \in News
         /\ ResultLast(t) => Head(events).kind \in News \cup Results
  <1>1. /\ Len(events) \in Nat \ {0} /\ DOMAIN events = 1 .. Len(events)
        /\ DOMAIN Tail(events) = 1 .. Len(events) - 1
        /\ \A i \in 1 .. Len(events) - 1 : Tail(events)[i] = events[i + 1]
        /\ Head(events) = events[1]
    OBVIOUS
  <1>2. \A i \in DOMAIN events' :
           i \in Nat /\ i >= 1 /\ i + 1 \in DOMAIN events /\ events'[i] = events[i + 1]
    BY <1>1
  <1>3. \A i \in DOMAIN events : i # 1 => i - 1 \in DOMAIN events' /\ events'[i - 1] = events[i]
    BY <1>1
  <1>4. 1 \in DOMAIN events /\ \A i \in DOMAIN events : i \in Nat /\ i >= 1
    BY <1>1
  <1>5. ASSUME NEW u PROVE (NoEvents(u) => NoEvents(u)') /\ (OnlyNews(u) => OnlyNews(u)')
    BY <1>2 DEF NoEvents, OnlyNews
  <1>6. ASSUME NEW u, events[1].t = u => events[1].kind # "SLV_REMOVED", NoRemoved(u)'
        PROVE  NoRemoved(u)
    BY <1>3, <1>6 DEF NoRemoved
  <1>7. ASSUME NEW u, events[1].t = u => events[1].kind \in News, ResultLast(u)
        PROVE  ResultLast(u)'
    <2>1. PICK k \in DOMAIN events :
             /\ events[k].t = u /\ events[k].kind \in Results
             /\ \A l \in DOMAIN events : events[l].t = u /\ l # k => l < k /\ events[l].kind \in News
      BY <1>7 DEF ResultLast
    <2>2. k # 1
      BY <1>7, <2>1, NewsOrResult
    <2>3. k - 1 \in DOMAIN events' /\ events'[k - 1] = events[k]
      BY <1>3, <2>2
    <2>4. ASSUME NEW l \in DOMAIN events', events'[l].t = u, l # k - 1
          PROVE  l < k - 1 /\ events'[l].kind \in News
      <3>1. l + 1 \in DOMAIN events /\ events'[l] = events[l + 1] /\ l \in Nat /\ k \in Nat
        BY <1>2, <1>4
      <3>2. l + 1 # k
        BY <2>4, <3>1
      <3>3. l + 1 < k /\ events[l + 1].kind \in News
        BY <2>1, <2>4, <3>1, <3>2
      <3> QED
        BY <3>1, <3>3
    <2> QED
      BY <2>1, <2>3, <2>4 DEF ResultLast
  <1>8. ASSUME events[1].kind \in Results, ResultLast(t) PROVE NoEvents(t)'
    <2>1. PICK k \in DOMAIN events :
             /\ events[k].t = t /\ events[k].kind \in Results
             /\ \A l \in DOMAIN events : events[l].t = t /\ l # k => l < k /\ events[l].kind \in News
      BY <1>8 DEF ResultLast
    <2>2. k = 1
      BY <1>1, <1>4, <1>8, <2>1, NewsOrResult
    <2>3. ASSUME NEW i \in DOMAIN events', events'[i].t = t PROVE FALSE
      <3>1. i + 1 \in DOMAIN events /\ events[i + 1].t = t /\ i \in Nat /\ i >= 1
        BY <1>2, <2>3
      <3>2. i + 1 # k /\ ~(i + 1 < k)
        BY <2>2, <3>1
      <3> QED
        BY <2>1, <3>1, <3>2
    <2> QED
      BY <2>3 DEF NoEvents
  <1>9. \A u : u # t => Echoes(u)
    BY <1>1, <1>5, <1>6, <1>7 DEF Echoes
  <1>10. Head(events).kind \in News => Echoes(t)
    BY <1>1, <1>5, <1>6, <1>7, NewsOrResult DEF Echoes
  <1>11. /\ ~NoEvents(t)
         /\ OnlyNews(t) => Head(events).kind \in News
         /\ ResultLast(t) => Head(events).kind \in News \cup Results
    BY <1>1, <1>4 DEF NoEvents, OnlyNews, ResultLast
  <1>12. Head(events).kind # "SLV_REMOVED" /\ NoRemoved(t)' => NoRemoved(t)
    BY <1>1, <1>6
  <1>13. Head(events).kind \in Results /\ ResultLast(t) => NoEvents(t)'
    BY <1>1, <1>8
  <1> QED
    BY <1>9, <1>10, <1>11, <1>12, <1>13

(* A transfer that a step passes by. *)
LEMMA FlowKept ==
  ASSUME NEW u \in Transfers, Flow(u), Echoes(u),
         status'[u] = status[u], stack'[u] = stack[u], cmd'[u] = cmd[u],
         copyjob'[u] = "none" <=> copyjob[u] = "none",
         todo' = todo, op' = op \/ (op.t # u /\ op' = NoOp)
  PROVE  Flow(u)'
  <1>1. NoOp.t # u
    BY SlaveAssumption DEF NoOp
  <1>2. Going(u)' => Going(u)
    BY <1>1 DEF Going, Unasked, Unsent, Echoes
  <1>3. Unordered(u) => Unordered(u)'
    BY <1>1 DEF Unordered
  <1>4. NoCommands(u) => NoCommands(u)'
    BY <1>3 DEF NoCommands
  <1>5. Begun(u) => Begun(u)'
    BY <1>1, <1>3 DEF Begun, Echoes, Sole
  <1>6. /\ Loading(u) => Loading(u)'
        /\ Loaded(u) => Loaded(u)'
        /\ AtRest(u) => AtRest(u)'
    BY <1>4 DEF Loading, Loaded, AtRest, Echoes
  <1> QED
    BY <1>2, <1>5, <1>6 DEF Flow

----------------------------------------------------------------------------
(* The steps of the slaves. *)

LEMMA OneBeginning == Beginning \cap (Ending \cup Stopping \cup {"NOOP"}) = {}
  BY DEF Beginning, Ending, Stopping

LEMMA FetchFlow ==
  ASSUME LInv, NEW t \in Transfers, Flow(t), FetchCmd(t), UNCHANGED kvars
  PROVE  Flow(t)'
  <1> DEFINE s == stack[t]
  <1>1. Life(t) /\ pc[t] = "fetch"
    BY DEF LInv, Lives, FetchCmd
  <1>2. s \in Seq(Commands) /\ s # <<>> /\ cmd[t] = "NOOP"
    BY <1>1, LifeTypes DEF Life, Obeys, Awake
  <1>3. /\ UNCHANGED <<events, op, status, todo, copyjob>>
        /\ stack'[t] = Tail(s) /\ cmd'[t] = Head(s)
    BY <1>2, LifeTypes DEF FetchCmd, kvars
  <1> HIDE DEF s
  <1>4. /\ Len(s) \in Nat \ {0} /\ DOMAIN s = 1 .. Len(s) /\ Head(s) = s[1]
        /\ DOMAIN Tail(s) = 1 .. Len(s) - 1
        /\ \A i \in 1 .. Len(s) - 1 : Tail(s)[i] = s[i + 1]
    BY <1>2
  <1>5. Len(s) = 1 => Tail(s) = <<>>
    <2>1. Tail(s) \in Seq(Commands) /\ Len(Tail(s)) = Len(s) - 1
      BY <1>2
    <2>2. Len(s) = 1 => Len(Tail(s)) = 0
      BY <2>1
    <2>3. ASSUME NEW r \in Seq(Commands), Len(r) = 0 PROVE r = <<>>
      BY <2>3
    <2> QED
      BY <2>1, <2>2, <2>3
  <1>6. ASSUME status[t] \notin Dead, Going(t)'
        PROVE  Begun(t)' /\ status[t] \in Active
    <2>1. \A k \in DOMAIN s : s[k] \notin Ending
      <3>1. Head(s) \notin Ending /\ \A i \in DOMAIN Tail(s) : Tail(s)[i] \notin Ending
        BY <1>3, <1>6 DEF Going, Unsent
      <3>2. ASSUME NEW k \in DOMAIN s PROVE k = 1 \/ (k - 1 \in DOMAIN Tail(s) /\ Tail(s)[k - 1] = s[k])
        BY <1>4
      <3> QED
        BY <1>4, <3>1, <3>2
    <2>2. Going(t)
      <3>1. Unsent(t, Ending)
        BY <1>2, <2>1 DEF Unsent, s, Ending
      <3> QED
        BY <1>3, <1>6, <3>1 DEF Going, Unasked, NoRemoved
    <2>3. Begun(t) /\ status[t] \in Active
      BY <1>2, <1>6, <2>2 DEF Flow, Loading, Loaded, AtRest, NoCommands, s
    <2>4. Unordered(t) /\ Len(s) = 1 /\ s[1] \in Beginning
      BY <1>2, <2>3, OneBeginning DEF Begun, s
    <2>5. Unordered(t)' /\ NoEvents(t)'
      BY <1>3, <2>3, <2>4 DEF Unordered, Begun, NoEvents
    <2> QED
      BY <1>3, <1>4, <1>5, <2>3, <2>4, <2>5 DEF Begun
  <1> QED
    BY <1>3, <1>6 DEF Flow

LEMMA KillFlow ==
  ASSUME LInv, NEW t \in Transfers, Flow(t), KillJob(t), UNCHANGED kvars, crashed' = "no"
  PROVE  Flow(t)'
  <1>1. UNCHANGED <<stack, cmd, events, op, status, todo>>
    BY DEF KillJob, kvars
  <1>2. pc[t] = "kill" /\ copyjob[t] # "none" /\ Life(t)
    BY DEF KillJob, LInv, Lives
  <1>3. cmd[t] # "NOOP"
    BY <1>2 DEF Life, Obeys, Awake
  <1>4. Going(t)' => Going(t)
    BY <1>1 DEF Going, Unasked, Unsent, NoRemoved
  <1>5. ~Begun(t) /\ ~Loading(t) /\ ~Loaded(t) /\ ~AtRest(t)
    BY <1>2, <1>3 DEF Begun, Loading, Loaded, AtRest, NoCommands
  <1> QED
    BY <1>1, <1>4, <1>5 DEF Flow

LEMMA ActFlow ==
  ASSUME LInv, NEW t \in Transfers, Flow(t), Retrieve(t) \/ AnswerStop(t), UNCHANGED kvars,
         crashed' = "no"
  PROVE  Flow(t)'
  <1>1. UNCHANGED <<stack, op, status, todo>> /\ pc[t] = "act"
    BY DEF Retrieve, AnswerStop, kvars
  <1>2. /\ cmd[t] \in Retrieving \cup Stopping /\ cmd'[t] = "NOOP"
        /\ Retrieve(t) => copyjob'[t] = "new"
    BY LifeTypes DEF Retrieve, AnswerStop, Done
  <1>3. cmd[t] \notin Ending \cup {"NOOP"}
    BY <1>2 DEF Retrieving, Stopping, Ending
  <1>4. /\ NoRemoved(t)' => NoRemoved(t)
        /\ Retrieve(t) /\ OnlyNews(t) => OnlyNews(t)'
    <2>1. /\ events' = events \/ \E kind \in EventKinds : Post(t, kind)
          /\ Retrieve(t) => events' = events \/ \E kind \in News : Post(t, kind)
      BY <1>2 DEF Retrieve, AnswerStop, Retrieving, Stopping, Answer, EventKinds, News
    <2>2. News \subseteq EventKinds
      BY DEF News, EventKinds, Answer
    <2>3. ASSUME NEW kind \in EventKinds, Post(t, kind)
          PROVE  (NoRemoved(t)' => NoRemoved(t)) /\ (kind \in News /\ OnlyNews(t) => OnlyNews(t)')
      BY <2>3, LifeTypes, PostEchoes
    <2>4. events' = events => (NoRemoved(t)' => NoRemoved(t)) /\ (OnlyNews(t) => OnlyNews(t)')
      BY DEF NoRemoved, OnlyNews
    <2> QED
      BY <2>1, <2>2, <2>3, <2>4
  <1>5. ASSUME status[t] \notin Dead, Going(t)'
        PROVE  Loading(t)' /\ status[t] \in Active
    <2>1. Going(t)
      BY <1>1, <1>2, <1>3, <1>4, <1>5 DEF Going, Unasked, Unsent
    <2>2. Begun(t) /\ status[t] \in Active
      BY <1>3, <1>5, <2>1 DEF Flow, Loading, Loaded, AtRest, NoCommands
    <2>3. cmd[t] \in Beginning /\ Unordered(t) /\ stack[t] = <<>> /\ NoEvents(t)
      BY <1>3, <2>2 DEF Begun
    <2>4. Retrieve(t)
      BY <2>3, OneBeginning DEF AnswerStop
    <2>5. OnlyNews(t)'
      BY <1>4, <2>3, <2>4 DEF NoEvents, OnlyNews
    <2>6. NoCommands(t)'
      BY <1>1, <1>2, <2>3 DEF NoCommands, Unordered
    <2> QED
      BY <1>2, <2>2, <2>4, <2>5, <2>6 DEF Loading
  <1> QED
    BY <1>1, <1>5 DEF Flow

LEMMA LeaveFlow ==
  ASSUME LInv, NEW t \in Transfers, LeaveLoop(t), UNCHANGED kvars
  PROVE  Flow(t)'
  <1>1. status' = status /\ pc[t] = "act" /\ Life(t) /\ cmd[t] \in Leaving
    BY DEF LeaveLoop, kvars, LInv, Lives
  <1>2. cmd[t] \in Ending
    BY <1>1 DEF Life, Obeys, Awake, Leaving, Ending
  <1>3. CASE cmd[t] = "REMOVE"
    <2>1. Post(t, "SLV_REMOVED") /\ "SLV_REMOVED" \in EventKinds
      BY <1>3 DEF LeaveLoop, Answer, EventKinds
    <2>2. ~NoRemoved(t)'
      BY <2>1, LifeTypes, PostEchoes
    <2> QED
      BY <2>2 DEF Flow, Going
  <1>4. CASE cmd[t] # "REMOVE"
    <2>1. ~Alive(t)
      BY <1>2, <1>4 DEF Alive, Free, Unsent, RemoveAsked, RemoveSent, Removing, Ending
    <2> QED
      BY <1>1, <2>1 DEF Life, Flow
  <1> QED
    BY <1>3, <1>4

LEMMA SlaveStepFlow ==
  ASSUME LInv, Calm, Flows, NEW t \in Transfers, SlaveStep(t), crashed' = "no"
  PROVE  Flows'
  <1>1. Worker(t) /\ UNCHANGED kvars /\ crashed = "no"
    BY DEF SlaveStep, Worker, CheckPending, Sleep, SpuriousWake, FetchCmd, Dispatch, KillJob,
           Retrieve, AnswerStop, LeaveLoop, Exit
  <1>2. op' = op
    BY <1>1 DEF Worker, CheckPending, Sleep, SpuriousWake, FetchCmd, Dispatch, KillJob,
           Retrieve, AnswerStop, LeaveLoop, Exit
  <1>3. events' = events \/ \E kind \in EventKinds : Post(t, kind)
    BY <1>1 DEF Worker, CheckPending, Sleep, SpuriousWake, FetchCmd, Dispatch, KillJob,
           Retrieve, AnswerStop, LeaveLoop, Exit, Retrieving, Stopping, Answer, EventKinds
  <1>4. \A u : u # t => Echoes(u)
    <2>1. ASSUME NEW kind \in EventKinds, Post(t, kind) PROVE \A u : u # t => Echoes(u)
      BY <2>1, LifeTypes, PostEchoes
    <2> QED
      BY <1>3, <2>1, SameEchoes
  <1>5. status' = status /\ todo' = todo
    BY <1>1 DEF kvars
  <1>6. ASSUME NEW u \in Transfers, u # t PROVE Flow(u)'
    <2>1. stack'[u] = stack[u] /\ cmd'[u] = cmd[u] /\ copyjob'[u] = copyjob[u]
      BY <1>1, <1>6, LifeTypes DEF Worker, CheckPending, Sleep, SpuriousWake, FetchCmd, Dispatch,
           KillJob, Retrieve, AnswerStop, LeaveLoop, Exit, Done
    <2> QED
      BY <1>2, <1>4, <1>5, <1>6, <2>1, FlowKept DEF Flows
  <1>7. Flow(t)'
    <2>1. CASE CheckPending(t) \/ Sleep(t) \/ SpuriousWake(t) \/ Dispatch(t) \/ Exit(t)
      <3>1. UNCHANGED <<stack, cmd, copyjob, events>>
        BY <2>1 DEF CheckPending, Sleep, SpuriousWake, Dispatch, Exit
      <3> QED
        BY <1>2, <1>5, <3>1, SameEchoes, FlowKept DEF Flows
    <2>2. CASE FetchCmd(t)
      BY <1>1, <2>2, FetchFlow DEF Flows
    <2>3. CASE KillJob(t)
      BY <1>1, <2>3, KillFlow DEF Flows
    <2>4. CASE Retrieve(t) \/ AnswerStop(t)
      BY <1>1, <2>4, ActFlow DEF Flows
    <2>5. CASE LeaveLoop(t)
      BY <1>1, <2>5, LeaveFlow DEF Flows
    <2> QED
      BY <1>1, <2>1, <2>2, <2>3, <2>4, <2>5 DEF Worker
  <1> QED
    BY <1>6, <1>7 DEF Flows

LEMMA PushStepFlow ==
  ASSUME LInv, Flows, NEW t \in Transfers, PushStep(t)
  PROVE  Flows'
  <1> DEFINE s == stack[t]
             c == op.cmd
             n == <<c>> \o s
  <1>1. /\ UNCHANGED <<cmd, events, copyjob, status, todo>>
        /\ op' = NoOp /\ op.t = t /\ s \in Seq(Commands) /\ c \in Commands
    BY LifeTypes DEF PushStep, OpPush, kvars
  <1>2. stack'[t] = n
    BY LifeTypes DEF PushStep, OpPush
  <1>3. ASSUME NEW u \in Transfers, u # t PROVE Flow(u)'
    <2>1. stack'[u] = stack[u]
      BY <1>3, LifeTypes DEF PushStep, OpPush
    <2> QED
      BY <1>1, <1>3, <2>1, SameEchoes, FlowKept DEF Flows
  <1>4. Flow(t)'
    <2> HIDE DEF s, c
    <2>1. /\ Len(s) \in Nat /\ DOMAIN s = 1 .. Len(s)
          /\ Len(n) = Len(s) + 1 /\ DOMAIN n = 1 .. Len(s) + 1 /\ n[1] = c
          /\ \A i \in 1 .. Len(s) : n[i + 1] = s[i]
      BY <1>1
    <2>2. \A i \in DOMAIN s : i + 1 \in DOMAIN n /\ n[i + 1] = s[i]
      BY <2>1
    <2>3. 1 \in DOMAIN n
      BY <2>1
    <2> HIDE DEF n
    <2>4. ASSUME status[t] \notin Dead, Going(t)'
          PROVE  Begun(t)' /\ status[t] \in Active
      <3>1. c \notin Ending /\ (\A i \in DOMAIN s : s[i] \notin Ending) /\ cmd[t] \notin Ending
        BY <1>1, <1>2, <2>1, <2>2, <2>3, <2>4 DEF Going, Unsent
      <3>2. c \notin Blocking
        BY <1>1, <3>1 DEF Blocking, Ending, Commands, Retrieving, Stopping, Leaving
      <3>3. Going(t)
        BY <1>1, <2>4, <3>1, <3>2 DEF Going, Unasked, Unsent, NoRemoved, s, c
      <3>4. Begun(t) /\ status[t] \in Active
        BY <1>1, <2>4, <3>3 DEF Flow, Flows, Loading, Loaded, AtRest, NoCommands, Unordered
      <3>5. /\ s = <<>> /\ cmd[t] = "NOOP" /\ c \in Beginning
            /\ \A k \in DOMAIN todo : todo[k].t # t
            /\ copyjob[t] = "none" /\ NoEvents(t)
        BY <1>1, <3>4 DEF Begun, Unordered, s, c
      <3>6. NoOp.t # t
        BY NoTransfers
      <3>7. Unordered(t)' /\ NoEvents(t)'
        BY <1>1, <3>5, <3>6 DEF Unordered, NoEvents
      <3>8. Len(n) = 1 /\ n[1] \in Beginning
        BY <2>1, <3>5
      <3> QED
        BY <1>1, <1>2, <3>4, <3>5, <3>7, <3>8 DEF Begun
    <2> QED
      BY <1>1, <2>4 DEF Flow
  <1> QED
    BY <1>3, <1>4 DEF Flows

(* The signals of the jobs. *)
LEMMA ConnectedFlow ==
  ASSUME LInv, Flows, NEW t \in Transfers, JobConnected(t)
  PROVE  Flows'
  <1>1. /\ UNCHANGED <<stack, cmd, op, kvars>> /\ copyjob[t] = "new"
        /\ copyjob' = [copyjob EXCEPT ![t] = "sized"]
        /\ events' = events \/ Post(t, "SLV_CONNECTED")
    BY DEF JobConnected, SlotTotalSize
  <1>2. status' = status /\ todo' = todo
    BY <1>1 DEF kvars
  <1>3. \A u \in Transfers : (copyjob'[u] = "none" <=> copyjob[u] = "none")
    BY <1>1, LifeTypes
  <1>4. /\ \A u : u # t => Echoes(u)
        /\ NoRemoved(t)' => NoRemoved(t)
        /\ OnlyNews(t) => OnlyNews(t)'
    <2>1. "SLV_CONNECTED" \in EventKinds /\ "SLV_CONNECTED" \in News
      BY DEF EventKinds, News
    <2>2. CASE events' = events
      BY <2>2, SameEchoes DEF Echoes
    <2>3. CASE Post(t, "SLV_CONNECTED")
      BY <2>1, <2>3, LifeTypes, PostEchoes
    <2> QED
      BY <1>1, <2>2, <2>3
  <1>5. ASSUME NEW u \in Transfers, u # t PROVE Flow(u)'
    BY <1>1, <1>2, <1>3, <1>4, <1>5, FlowKept DEF Flows
  <1>6. Flow(t)'
    <2>1. Going(t)' => Going(t)
      BY <1>1, <1>2, <1>4 DEF Going, Unasked, Unsent
    <2>2. Flow(t) /\ ~Begun(t) /\ ~Loaded(t) /\ ~AtRest(t)
      BY <1>1 DEF Begun, Loaded, AtRest, Flows
    <2>3. Loading(t) => Loading(t)'
      BY <1>1, <1>2, <1>3, <1>4 DEF Loading, NoCommands, Unordered
    <2> QED
      BY <1>2, <2>1, <2>2, <2>3 DEF Flow
  <1> QED
    BY <1>5, <1>6 DEF Flows

LEMMA EndsFlow ==
  ASSUME LInv, Flows, NEW t \in Transfers, JobEnds(t)
  PROVE  Flows'
  <1>1. UNCHANGED <<stack, cmd, copyjob, op, events, kvars>>
    BY DEF JobEnds, EmitResult
  <1>2. status' = status /\ todo' = todo
    BY <1>1 DEF kvars
  <1> QED
    BY <1>1, <1>2, SameEchoes, FlowKept DEF Flows

LEMMA ResultFlow ==
  ASSUME LInv, Flows, NEW t \in Transfers, JobSucceeded(t) \/ JobFailed(t), crashed' = "no"
  PROVE  Flows'
  <1>1. PICK kind \in Results : SlotResult(t, kind) /\ UNCHANGED kvars
    BY DEF JobSucceeded, JobFailed, FailureAnswer, Results
  <1>2. /\ UNCHANGED <<stack, cmd, op, kvars>> /\ emitting.valid /\ emitting.t = t
        /\ copyjob' = [copyjob EXCEPT ![t] = "none"] /\ Post(t, kind) /\ kind \in EventKinds
    BY <1>1 DEF SlotResult, EventKinds
  <1>3. copyjob[t] # "none"
    BY <1>2 DEF LInv, KInv, SlaveInv, EmissionIsCurrent
  <1>4. status' = status /\ todo' = todo
    BY <1>2 DEF kvars
  <1>5. /\ \A u : u # t => Echoes(u)
        /\ NoRemoved(t)' => NoRemoved(t)
        /\ OnlyNews(t) => ResultLast(t)'
    BY <1>2, LifeTypes, PostEchoes
  <1>6. ASSUME NEW u \in Transfers, u # t PROVE Flow(u)'
    <2>1. copyjob'[u] = copyjob[u]
      BY <1>2, <1>6, LifeTypes
    <2> QED
      BY <1>2, <1>4, <1>5, <1>6, <2>1, FlowKept DEF Flows
  <1>7. Flow(t)'
    <2>1. Going(t)' => Going(t)
      BY <1>2, <1>4, <1>5 DEF Going, Unasked, Unsent
    <2>2. Flow(t) /\ ~Begun(t) /\ ~Loaded(t) /\ ~AtRest(t)
      BY <1>3 DEF Begun, Loaded, AtRest, Flows
    <2>3. copyjob'[t] = "none"
      BY <1>2, LifeTypes
    <2>4. Loading(t) => Loaded(t)'
      BY <1>2, <1>4, <1>5, <2>3 DEF Loading, Loaded, NoCommands, Unordered
    <2> QED
      BY <1>4, <2>1, <2>2, <2>4 DEF Flow
  <1> QED
    BY <1>6, <1>7 DEF Flows

----------------------------------------------------------------------------
(* The operations of the main thread.                                       *)

(* q and r ask the same of u.                                              *)
SameAsked(q, r, u) ==
    /\ \A k \in DOMAIN r : r[k].t = u => \E l \in DOMAIN q : q[l] = r[k]
    /\ \A l \in DOMAIN q : q[l].t = u => \E k \in DOMAIN r : r[k] = q[l]
    /\ Sole(q, u) => Sole(r, u)

LEMMA TailAsked ==
  ASSUME NEW q \in Seq(Ops), q # <<>>, NEW u
  PROVE  /\ Head(q).t # u => SameAsked(q, Tail(q), u)
         /\ Head(q).t = u /\ Sole(q, u) =>
               /\ Head(q).do \in Beginning
               /\ \A k \in DOMAIN Tail(q) : Tail(q)[k].t # u
         /\ \A l \in DOMAIN q : q[l] = Head(q) \/ \E k \in DOMAIN Tail(q) : Tail(q)[k] = q[l]
  <1> DEFINE r == Tail(q)
  <1>1. /\ Len(q) \in Nat \ {0} /\ DOMAIN q = 1 .. Len(q) /\ Head(q) = q[1]
        /\ DOMAIN r = 1 .. Len(q) - 1 /\ \A k \in 1 .. Len(q) - 1 : r[k] = q[k + 1]
    OBVIOUS
  <1> HIDE DEF r
  <1>2. \A k \in DOMAIN r : k \in Nat /\ k >= 1 /\ k + 1 \in DOMAIN q /\ r[k] = q[k + 1]
    BY <1>1
  <1>3. 1 \in DOMAIN q /\ \A k \in DOMAIN q : k \in Nat /\ k >= 1
    BY <1>1
  <1>4. \A k \in DOMAIN q : k # 1 => k - 1 \in DOMAIN r /\ r[k - 1] = q[k]
    BY <1>1
  <1>5. ASSUME q[1].t # u, Sole(q, u) PROVE Sole(r, u)
    <2>1. PICK k \in DOMAIN q :
             q[k].t = u /\ q[k].do \in Beginning /\ \A l \in DOMAIN q : q[l].t = u => l = k
      BY <1>5 DEF Sole
    <2>2. k - 1 \in DOMAIN r /\ r[k - 1] = q[k]
      BY <1>4, <1>5, <2>1
    <2>3. ASSUME NEW l \in DOMAIN r, r[l].t = u PROVE l = k - 1
      <3>1. l + 1 = k
        BY <1>2, <2>1, <2>3
      <3> QED
        BY <1>2, <1>3, <3>1
    <2> QED
      BY <2>1, <2>2, <2>3 DEF Sole
  <1>6. ASSUME q[1].t = u, Sole(q, u)
        PROVE  q[1].do \in Beginning /\ \A k \in DOMAIN r : r[k].t # u
    <2>1. PICK k \in DOMAIN q :
             q[k].t = u /\ q[k].do \in Beginning /\ \A l \in DOMAIN q : q[l].t = u => l = k
      BY <1>6 DEF Sole
    <2>2. k = 1
      BY <1>3, <1>6, <2>1
    <2>3. ASSUME NEW i \in DOMAIN r, r[i].t = u PROVE FALSE
      <3>1. i + 1 # 1 /\ i + 1 \in DOMAIN q /\ r[i] = q[i + 1]
        BY <1>2
      <3> QED
        BY <2>1, <2>2, <2>3, <3>1
    <2> QED
      BY <2>1, <2>2, <2>3
  <1>7. \A k \in DOMAIN r : \E l \in DOMAIN q : q[l] = r[k]
    BY <1>2
  <1>8. \A l \in DOMAIN q : q[l] = q[1] \/ \E k \in DOMAIN r : r[k] = q[l]
    BY <1>4
  <1>9. q[1].t # u => SameAsked(q, r, u)
    BY <1>5, <1>7, <1>8 DEF SameAsked
  <1> QED
    BY <1>1, <1>6, <1>8, <1>9 DEF r

LEMMA AbortAsked ==
  ASSUME NEW q \in Seq(Ops), q # <<>>, NEW t \in Transfers, Head(q).t = t, NEW u, u # t
  PROVE  SameAsked(q, <<[t |-> t, do |-> "KILL"], [t |-> t, do |-> "join"]>> \o Tail(q), u)
  <1> DEFINE a == [t |-> t, do |-> "KILL"]
             b == [t |-> t, do |-> "join"]
             r == <<a, b>> \o Tail(q)
  <1>1. a.t = t /\ b.t = t /\ a \in Ops /\ b \in Ops
    BY DEF Ops, Commands, Leaving
  <1> HIDE DEF a, b
  <1>2. /\ Tail(q) \in Seq(Ops) /\ Len(Tail(q)) = Len(q) - 1 /\ Len(q) \in Nat \ {0}
        /\ DOMAIN q = 1 .. Len(q) /\ q[1].t = t
        /\ \A k \in 1 .. Len(q) - 1 : Tail(q)[k] = q[k + 1]
    OBVIOUS
  <1>3. <<a, b>> \in Seq(Ops) /\ Len(<<a, b>>) = 2
    BY <1>1
  <1>4. /\ DOMAIN r = 1 .. Len(q) + 1 /\ r[1] = a /\ r[2] = b
        /\ \A k \in 3 .. Len(q) + 1 : r[k] = Tail(q)[k - 2]
    BY <1>2, <1>3
  <1>5. \A k \in 3 .. Len(q) + 1 : r[k] = q[k - 1]
    BY <1>2, <1>4
  <1> HIDE DEF r
  <1>6. \A k \in DOMAIN r : k \in {1, 2} \/ (k \in Nat /\ k - 1 \in DOMAIN q /\ k - 1 # 1 /\ r[k] = q[k - 1])
    BY <1>2, <1>4, <1>5
  <1>7. \A k \in DOMAIN q : k \in Nat /\ (k # 1 => k + 1 \in DOMAIN r /\ r[k + 1] = q[k])
    BY <1>2, <1>4, <1>5
  <1>8. /\ \A k \in DOMAIN r : r[k].t = u => \E l \in DOMAIN q : q[l] = r[k]
        /\ \A l \in DOMAIN q : q[l].t = u => \E k \in DOMAIN r : r[k] = q[l]
    BY <1>1, <1>2, <1>4, <1>6, <1>7
  <1>9. ASSUME Sole(q, u) PROVE Sole(r, u)
    <2>1. PICK k \in DOMAIN q :
             q[k].t = u /\ q[k].do \in Beginning /\ \A l \in DOMAIN q : q[l].t = u => l = k
      BY <1>9 DEF Sole
    <2>2. k # 1
      BY <1>2, <2>1
    <2>3. k + 1 \in DOMAIN r /\ r[k + 1] = q[k]
      BY <1>7, <2>2
    <2>4. ASSUME NEW l \in DOMAIN r, r[l].t = u PROVE l = k + 1
      <3>1. l \notin {1, 2}
        BY <1>1, <1>4, <2>4
      <3>2. l \in Nat /\ l - 1 \in DOMAIN q /\ r[l] = q[l - 1]
        BY <1>6, <3>1
      <3>3. l - 1 = k /\ k \in Nat
        BY <1>7, <2>1, <2>4, <3>2
      <3> QED
        BY <3>2, <3>3
    <2> QED
      BY <2>1, <2>3, <2>4 DEF Sole
  <1>10. SameAsked(q, r, u)
    BY <1>8, <1>9 DEF SameAsked
  <1> QED
    BY <1>10 DEF r, a, b

(* A transfer that the operation at the head is not about. *)
LEMMA FlowPassed ==
  ASSUME Flows, NEW u \in Transfers, op = NoOp, op'.t # u, SameAsked(todo, todo', u),
         UNCHANGED <<stack, cmd, copyjob, events, status>>
  PROVE  Flow(u)'
  <1>1. Flow(u) /\ op.t # u
    BY NoTransfers DEF Flows
  <1>2. Going(u)' => Going(u)
    <2>1. Unasked(u, Blocking)' => Unasked(u, Blocking)
      BY <1>1 DEF Unasked, SameAsked
    <2> QED
      BY <2>1 DEF Going, Unsent, NoRemoved
  <1>3. Unordered(u) => Unordered(u)'
    BY DEF Unordered, SameAsked
  <1>4. NoCommands(u) => NoCommands(u)'
    BY <1>3 DEF NoCommands
  <1>5. Begun(u) => Begun(u)'
    <2>1. Sole(todo, u) => Sole(todo', u)
      BY DEF SameAsked
    <2>2. Sole(todo, u)' <=> Sole(todo', u)
      BY DEF Sole
    <2>3. NoEvents(u) => NoEvents(u)'
      BY DEF NoEvents
    <2> QED
      BY <1>1, <1>3, <2>1, <2>2, <2>3 DEF Begun
  <1>6. /\ Loading(u) => Loading(u)'
        /\ Loaded(u) => Loaded(u)'
        /\ AtRest(u) => AtRest(u)'
    BY <1>4 DEF Loading, Loaded, AtRest, OnlyNews, ResultLast, NoEvents
  <1> QED
    BY <1>1, <1>2, <1>5, <1>6 DEF Flow

LEMMA NextOpFlow ==
  ASSUME LInv, Flows, NextOp
  PROVE  Flows'
  <1>1. todo \in Seq(Ops) /\ todo # <<>> /\ Head(todo).do \in Commands
    BY LifeTypes DEF NextOp
  <1>2. Head(todo) \in Ops /\ 1 \in DOMAIN todo /\ todo[1] = Head(todo)
    BY <1>1
  <1>3. PICK t \in Transfers, c \in Commands : t = Head(todo).t /\ c = Head(todo).do
    BY <1>1, <1>2 DEF Ops
  <1>4. /\ UNCHANGED <<stack, cmd, copyjob, events, status>>
        /\ op = NoOp /\ op' = [t |-> t, cmd |-> c] /\ todo' = Tail(todo)
    BY <1>3 DEF NextOp, OpStart, MainIdle, Running
  <1>5. op'.t = t /\ op'.cmd = c
    BY <1>4
  <1>6. ASSUME NEW u \in Transfers, u # t PROVE Flow(u)'
    <2>1. SameAsked(todo, todo', u)
      BY <1>1, <1>3, <1>4, <1>6, TailAsked
    <2> QED
      BY <1>4, <1>5, <1>6, <2>1, FlowPassed
  <1>7. Flow(t)'
    <2>1. Flow(t) /\ op.t # t /\ ~Unordered(t)
      BY <1>2, <1>3, <1>4, NoTransfers DEF Flows, Unordered
    <2>2. ASSUME Going(t)' PROVE Going(t)
      <3>1. \A l \in DOMAIN todo : todo[l] = Head(todo) \/ \E k \in DOMAIN todo' : todo'[k] = todo[l]
        BY <1>1, <1>4, TailAsked
      <3>2. c \notin Blocking /\ \A k \in DOMAIN todo' : todo'[k].t = t => todo'[k].do \notin Blocking
        BY <1>5, <2>2 DEF Going, Unasked
      <3>3. Unasked(t, Blocking)
        BY <1>3, <2>1, <3>1, <3>2 DEF Unasked
      <3> QED
        BY <1>4, <2>2, <3>3 DEF Going, Unsent, NoRemoved
    <2>3. ASSUME status[t] \notin Dead, Going(t)' PROVE Begun(t)' /\ status[t] \in Active
      <3>1. Begun(t) /\ status[t] \in Active
        BY <2>1, <2>2, <2>3 DEF Flow, Loading, Loaded, AtRest, NoCommands
      <3>2. /\ stack[t] = <<>> /\ cmd[t] = "NOOP" /\ Sole(todo, t)
            /\ copyjob[t] = "none" /\ NoEvents(t)
        BY <2>1, <3>1 DEF Begun
      <3>3. c \in Beginning /\ \A k \in DOMAIN todo' : todo'[k].t # t
        BY <1>1, <1>3, <1>4, <3>2, TailAsked
      <3>4. NoEvents(t)'
        BY <1>4, <3>2 DEF NoEvents
      <3> QED
        BY <1>4, <1>5, <3>1, <3>2, <3>3, <3>4 DEF Begun
    <2> QED
      BY <1>4, <2>3 DEF Flow
  <1> QED
    BY <1>6, <1>7 DEF Flows

LEMMA WaitFlow ==
  ASSUME LInv, Flows, Abort \/ Join
  PROVE  Flows'
  <1>1. Head(todo) \in Ops /\ todo \in Seq(Ops) /\ todo # <<>> /\ Head(todo).do \in {"abort", "join"}
    BY LifeTypes DEF Abort, Join
  <1>2. PICK t \in Transfers : t = Head(todo).t
    BY <1>1 DEF Ops
  <1> DEFINE r == <<[t |-> t, do |-> "KILL"], [t |-> t, do |-> "join"]>> \o Tail(todo)
  <1>3. /\ UNCHANGED <<stack, cmd, copyjob, events, op, status>>
        /\ op = NoOp /\ (todo' = r \/ todo' = Tail(todo))
    BY <1>2 DEF Abort, Join, svars, MainIdle
  <1>4. ASSUME NEW u \in Transfers, u # t PROVE Flow(u)'
    <2>1. SameAsked(todo, r, u) /\ SameAsked(todo, Tail(todo), u)
      BY <1>1, <1>2, <1>4, AbortAsked, TailAsked
    <2> HIDE DEF r
    <2>2. SameAsked(todo, todo', u)
      BY <1>3, <2>1
    <2>3. op'.t # u
      BY <1>3, NoTransfers
    <2> QED
      BY <1>3, <2>2, <2>3, FlowPassed
  <1>5. Flow(t)'
    <2>1. status[t] = "gone"
      BY <1>1, <1>2, <1>3, HeadDeleted
    <2> QED
      BY <1>3, <2>1 DEF Flow, Dead
  <1> QED
    BY <1>4, <1>5 DEF Flows

----------------------------------------------------------------------------
(* The handlers: one does its work, which leads to g, and may end in the    *)
(* queue, which leads to r.                                                *)

(* After the work, u is deleted, or at rest, or in the state it was in.     *)
Ready(g, u) ==
    \/ g.status[u] \in Dead
    \/ /\ g.status[u] \notin Active /\ NoEvents(u)'
       /\ stack[u] = <<>> /\ cmd[u] = "NOOP" /\ copyjob[u] = "none"
    \/ /\ Flow(u) /\ Echoes(u) /\ status[u] \notin Dead
       /\ g.status[u] \in Active <=> status[u] \in Active

LEMMA AddedFlow ==
  ASSUME MainFree, SlaveIdle, NEW g, NEW r, Adds(g, r), Become(r),
         NEW u \in Transfers, Asked(g, u) = {}, Ready(g, u)
  PROVE  Flow(u)'
  <1>1. /\ UNCHANGED <<stack, cmd, copyjob, op>> /\ op = NoOp /\ todo = <<>>
        /\ status' = r.status /\ todo' = r.todo
    BY DEF MainFree, MainIdle, SlaveIdle, Become
  <1>2. op.t # u /\ Unordered(u)
    BY <1>1, NoTransfers DEF Unordered
  <1>3. \A k \in DOMAIN todo' : todo'[k].t = u <=> k \in Anew(g.todo, r.todo, u)
    BY <1>1 DEF Adds, Extends, Asked, Anew
  <1>4. CASE r.status[u] = g.status[u] /\ Anew(g.todo, r.todo, u) = {}
    <2>1. Unordered(u)'
      BY <1>1, <1>2, <1>3, <1>4 DEF Unordered
    <2>2. CASE g.status[u] \in Dead
      BY <1>1, <1>4, <2>2 DEF Flow
    <2>3. CASE /\ g.status[u] \notin Active /\ NoEvents(u)'
               /\ stack[u] = <<>> /\ cmd[u] = "NOOP" /\ copyjob[u] = "none"
      BY <1>1, <1>4, <2>1, <2>3 DEF Flow, AtRest, NoCommands
    <2>4. CASE /\ Flow(u) /\ Echoes(u) /\ status[u] \notin Dead
               /\ g.status[u] \in Active <=> status[u] \in Active
      <3>1. Going(u)' => Going(u)
        BY <1>1, <1>2, <2>4 DEF Going, Unasked, Unsent, Unordered, Echoes
      <3>2. Begun(u) => Begun(u)'
        BY <1>1, <1>2, <2>1, <2>4 DEF Begun, Sole, Echoes
      <3>3. /\ Loading(u) => Loading(u)'
            /\ Loaded(u) => Loaded(u)'
            /\ AtRest(u) => AtRest(u)'
        BY <1>1, <2>1, <2>4 DEF Loading, Loaded, AtRest, NoCommands, Echoes
      <3> QED
        BY <1>1, <1>4, <2>4, <3>1, <3>2, <3>3 DEF Flow
    <2> QED
      BY <2>2, <2>3, <2>4 DEF Ready
  <1>5. CASE /\ Resting(g, u) /\ r.status[u] = "trying"
             /\ \E i : Anew(g.todo, r.todo, u) = {i} /\ r.todo[i].do \in Beginning
    <2>1. PICK i : Anew(g.todo, r.todo, u) = {i} /\ r.todo[i].do \in Beginning
      BY <1>5
    <2>2. i \in DOMAIN todo' /\ todo'[i].t = u /\ todo'[i].do \in Beginning
      BY <1>1, <2>1 DEF Anew
    <2>3. Sole(todo', u)
      BY <1>3, <2>1, <2>2 DEF Sole
    <2>4. Going(u)' =>
             stack[u] = <<>> /\ cmd[u] = "NOOP" /\ copyjob[u] = "none" /\ NoEvents(u)'
      <3>1. g.status[u] \notin Dead /\ g.status[u] \notin Active
        BY <1>5 DEF Resting, Dead
      <3>2. CASE NoEvents(u)' /\ stack[u] = <<>> /\ cmd[u] = "NOOP" /\ copyjob[u] = "none"
        BY <3>2
      <3>3. CASE /\ Flow(u) /\ Echoes(u) /\ status[u] \notin Dead
                 /\ g.status[u] \in Active <=> status[u] \in Active
        <4>1. Going(u)' => Going(u)
          BY <1>1, <1>2, <3>3 DEF Going, Unasked, Unsent, Unordered, Echoes
        <4>2. Going(u) => AtRest(u)
          BY <3>1, <3>3 DEF Flow
        <4> QED
          BY <3>3, <4>1, <4>2 DEF AtRest, NoCommands, Echoes
      <3> QED
        BY <3>1, <3>2, <3>3 DEF Ready
    <2>5. Sole(todo, u)' <=> Sole(todo', u)
      BY DEF Sole
    <2>6. Going(u)' => Begun(u)'
      BY <1>1, <1>2, <2>3, <2>4, <2>5 DEF Begun
    <2>7. status'[u] \in Active
      BY <1>1, <1>5 DEF Active
    <2> QED
      BY <2>6, <2>7 DEF Flow
  <1> QED
    BY <1>4, <1>5 DEF Adds

LEMMA AddsSame == \A h : Adds(h, h)
  BY AddsNothing DEF Follows

(* A handler whose own work leaves u alone. *)
LEMMA ReadySame ==
  ASSUME Flows, NEW g, NEW u \in Transfers, g.status[u] = status[u], Echoes(u)
  PROVE  Ready(g, u)
  BY DEF Flows, Ready

LEMMA NoneAsked ==
  ASSUME NEW h, h.todo = <<>>
  PROVE  \A u : Asked(h, u) = {}
  BY DEF Asked

(* A transfer that has not been added is at rest. *)
LEMMA AbsentRests ==
  ASSUME LInv, NEW u \in Transfers, status[u] = "absent"
  PROVE  stack[u] = <<>> /\ cmd[u] = "NOOP" /\ copyjob[u] = "none" /\ NoEvents(u)
  <1>1. Life(u)
    BY DEF LInv, Lives
  <1>2. stack[u] = <<>> /\ pc[u] = "none" /\ NoEvents(u) /\ cmd[u] = "NOOP"
    BY <1>1 DEF Life, Unborn, Obeys, Awake
  <1>3. copyjob[u] = "none"
    BY <1>2 DEF LInv, KInv, SlaveInv, JobHasThread
  <1> QED
    BY <1>2, <1>3

(* A handler that has made no operation of its own before it ends in the    *)
(* queue, and shows what was there as it was.                               *)
LEMMA QueuedFlow ==
  ASSUME LInv, Flows, MainFree, NEW g, g.todo = <<>>, NEW r, Adds(g, r), Handler(r),
         \A u \in Transfers : g.status[u] = status[u] \/ (status[u] = "absent" /\ g.status[u] \notin Active)
  PROVE  Flows'
  <1>1. SlaveIdle /\ Become(r) /\ events' = events
    BY DEF Handler
  <1>2. ASSUME NEW u \in Transfers PROVE Ready(g, u)
    <2>1. Echoes(u)
      BY <1>1, SameEchoes
    <2>2. CASE g.status[u] = status[u]
      BY <2>1, <2>2, ReadySame
    <2>3. CASE status[u] = "absent" /\ g.status[u] \notin Active
      BY <2>1, <2>3, AbsentRests DEF Ready, Echoes
    <2> QED
      BY <2>2, <2>3
  <1> QED
    BY <1>1, <1>2, NoneAsked, AddedFlow DEF Flows

----------------------------------------------------------------------------
(* The buttons Resume and Queue add to what was there, or an assertion      *)
(* fails.                                                                  *)

AddsSafely(h, k) == k.crashed = "no" => h.crashed = "no" /\ Adds(h, k)

LEMMA SafelyTwice ==
  ASSUME NEW g, NEW h, NEW k, AddsSafely(g, h), AddsSafely(h, k)
  PROVE  AddsSafely(g, k)
  BY AddsTwice DEF AddsSafely

LEMMA AddsAreSafe ==
  ASSUME NEW h, NEW k, Adds(h, k)
  PROVE  AddsSafely(h, k)
  BY DEF Adds, Follows, AddsSafely

LEMMA ResumeSafely ==
  ASSUME NEW h \in Records, NEW t \in Transfers
  PROVE  slotResume(h, t) \in Records /\ AddsSafely(h, slotResume(h, t))
  <1> DEFINE n == h.retryCount[t] + 1
             r == IF n > reconnectRetries THEN 1 ELSE n
             a == [h EXCEPT !.retryCount[t] = r]
             b == Check(a, h.status[t] = "stopped", "transfer.cpp:slotResume")
             c == Show(b, t, "trying", "queued")
             d == Do(c, t, "RETR")
             k == slotResume(h, t)
  <1>1. k = d
    BY DEF slotResume
  <1>2. a.crashed = h.crashed
    BY DEF Records
  <1>3. /\ b.crashed = a.crashed \/ (a.crashed = "no" /\ b.crashed = "transfer.cpp:slotResume")
        /\ h.status[t] # "stopped" => b.crashed # "no"
    <2>1. a.crashed = h.crashed /\ [a EXCEPT !.crashed = "transfer.cpp:slotResume"].crashed
             = "transfer.cpp:slotResume"
      BY DEF Records
    <2> HIDE DEF a
    <2> QED
      BY <2>1 DEF Check
  <1> HIDE DEF a, n
  <1>4. c.crashed = b.crashed
    BY DEF Show, Check
  <1> HIDE DEF b
  <1>5. d.crashed = c.crashed
    BY DEF Do
  <1> HIDE DEF c, d
  <1>6. k.crashed = "no" => h.crashed = "no" /\ h.status[t] = "stopped"
    BY <1>1, <1>2, <1>3, <1>4, <1>5
  <1>7. h.status[t] = "stopped" => Adds(h, k)
    BY ResumeAdds DEF Resting, Active
  <1>8. k \in Records
    BY ResumeFacts
  <1> HIDE DEF k
  <1>9. AddsSafely(h, k)
    BY <1>6, <1>7 DEF AddsSafely
  <1> QED
    BY <1>8, <1>9 DEF k

LEMMA QueueSafely ==
  ASSUME NEW h \in Records, NEW t \in Transfers
  PROVE  slotQueue(h, t) \in Records /\ AddsSafely(h, slotQueue(h, t))
  <1> DEFINE c == Check(h, h.mode[t] # "queued", "transfer.cpp:slotQueue")
             q == [c.mode EXCEPT ![t] = "queued"]
             a == [c EXCEPT !.mode = q]
  <1>1. slotQueue(h, t) = slotStatusChanged(a)
    <2>1. [c EXCEPT !.mode[t] = "queued"] = a
      OBVIOUS
    <2> QED
      BY <2>1 DEF slotQueue
  <1>2. c \in Records /\ c.status = h.status /\ c.todo = h.todo /\ Follows(h, c)
    BY SlotNames, CheckMild DEF Mild
  <1> HIDE DEF c
  <1>3. c.mode \in [Transfers -> Modes]
    BY <1>2, RecordFields
  <1>4. q \in [Transfers -> Modes] /\ \A u \in Transfers : q[u] = "new" => c.mode[u] = "new"
    BY <1>3 DEF Modes
  <1> HIDE DEF q
  <1>5. /\ a \in Records /\ a.mode = q /\ a.status = c.status /\ a.todo = c.todo
        /\ a.selected = c.selected /\ a.crashed = c.crashed
    BY <1>2, <1>4 DEF Records
  <1> HIDE DEF a
  <1>6. Follows(c, a)
    BY <1>4, <1>5 DEF Follows
  <1>7. Adds(h, c) /\ Adds(c, a)
    BY <1>2, <1>5, <1>6, AddsNothing
  <1>8. slotStatusChanged(a) \in Records /\ Adds(a, slotStatusChanged(a))
    BY <1>5, ChangedAdds
  <1>9. Adds(h, slotStatusChanged(a))
    BY <1>7, <1>8, AddsTwice
  <1> QED
    BY <1>1, <1>8, <1>9, AddsAreSafe

LEMMA SelectedSafely ==
  ASSUME NEW h \in Records, NEW b \in {"resume", "queue"}, NEW due
  PROVE  /\ EachSelected(h, b, due) \in Records
         /\ AddsSafely(h, EachSelected(h, b, due))
  <1> DEFINE L == Len(Order)
             r == EachSelected(h, b, due)
  <1>1. L \in Nat /\ \A n \in 1 .. L : Order[n] \in Transfers
    BY KGetAssumption
  <1>2. b \in AllButtons
    BY ButtonNames
  <1>3. PICK f \in [0 .. L -> Records] :
           /\ f[0] = h /\ f[L] = r
           /\ \A n \in 1 .. L : f[n] = SlotIfSelected(b, due, f[n - 1], Order[n])
    BY <1>2, SelectedLoop
  <1> HIDE DEF r
  <1> DEFINE N == {n \in 0 .. L : AddsSafely(h, f[n])}
  <1>4. 0 \in N
    BY <1>1, <1>3, AddsSame, AddsAreSafe
  <1>5. ASSUME NEW n \in 1 .. L, n - 1 \in N PROVE n \in N
    <2> DEFINE a == f[n - 1]
               t == Order[n]
    <2>1. f[n] = SlotIfSelected(b, due, a, t) /\ t \in Transfers /\ a \in Records
      BY <1>1, <1>3
    <2>2. AddsSafely(h, a)
      BY <1>5
    <2> HIDE DEF a, t
    <2>3. AddsSafely(a, f[n])
      <3>1. CASE t \notin a.selected
        BY <2>1, <3>1, AddsSame, AddsAreSafe DEF SlotIfSelected
      <3>2. CASE t \in a.selected /\ b = "resume"
        <4>1. f[n] = slotResume(a, t)
          BY <2>1, <3>2 DEF SlotIfSelected, Slot
        <4> QED
          BY <2>1, <4>1, ResumeSafely
      <3>3. CASE t \in a.selected /\ b = "queue"
        <4>1. f[n] = slotQueue(a, t)
          BY <2>1, <3>3 DEF SlotIfSelected, Slot
        <4> QED
          BY <2>1, <4>1, QueueSafely
      <3> QED
        BY <3>1, <3>2, <3>3
    <2>4. AddsSafely(h, f[n])
      BY <2>2, <2>3, SafelyTwice
    <2> QED
      BY <1>1, <2>4
  <1> HIDE DEF N
  <1>6. \A n \in 0 .. L : n \in N
    BY <1>1, <1>4, <1>5, Counting
  <1>7. L \in N
    BY <1>1, <1>6
  <1> QED
    BY <1>1, <1>3, <1>7 DEF N, r

LEMMA PressFlow ==
  ASSUME LInv, Flows, NEW h, Fresh(h), h.status = status, NEW b \in {"resume", "queue"},
         Handler(slotUpdateActions(EachSelected(h, b, {}))), crashed' = "no"
  PROVE  Flows'
  <1> DEFINE e == EachSelected(h, b, {})
             k == slotUpdateActions(e)
  <1>1. h \in Records /\ h.todo = <<>>
    BY DEF Fresh
  <1>2. e \in Records /\ AddsSafely(h, e)
    BY <1>1, SelectedSafely
  <1>3. Handler(k)
    OBVIOUS
  <1> HIDE DEF e
  <1>4. k \in Records /\ Adds(e, k)
    BY <1>2, UpdateAdds
  <1> HIDE DEF k
  <1>5. MainFree /\ k.crashed = "no"
    BY <1>3 DEF Handler, Become
  <1>6. Adds(h, k)
    <2>1. AddsSafely(h, k)
      BY <1>2, <1>4, AddsAreSafe, SafelyTwice
    <2> QED
      BY <1>5, <2>1 DEF AddsSafely
  <1> QED
    BY <1>1, <1>3, <1>5, <1>6, QueuedFlow

LEMMA DeleteFlow ==
  ASSUME LInv, Calm, Flows, NEW g \in Windows("delete"), DeleteCurrent(g)
  PROVE  Flows'
  <1> DEFINE S == g.buttons \ {"delete", "pause"}
             a == [g EXCEPT !.buttons = S]
             e == EachSelected(a, "delete", {})
             r == checkQueue(e)
  <1>1. Handler(r)
    BY DEF DeleteCurrent
  <1>2. /\ MainFree /\ SlaveIdle /\ events' = events /\ Become(r)
    BY <1>1 DEF Handler
  <1>3. Fresh(g) /\ Listed(g)
    BY <1>2, FreshWindow
  <1>4. S \in SUBSET AllButtons
    BY <1>3, RecordFields DEF Fresh
  <1> HIDE DEF S
  <1>5. Fresh(a)
    BY <1>3, <1>4, FreshButtons
  <1>6. a.status = status
    <2>1. g.status = status
      BY <1>2, WindowStatus
    <2>2. a.status = g.status
      BY <1>3, <1>4, ButtonFacts DEF a, Fresh, Alike
    <2> QED
      BY <2>1, <2>2
  <1> HIDE DEF a
  <1>7. a \in Records /\ a.todo = <<>> /\ a.crashed = "no"
    BY <1>5 DEF Fresh
  <1>8. e \in Records /\ DeletesOnly(a, e)
    BY <1>7, DeleteAll
  <1> HIDE DEF e
  <1>9. r \in Records /\ Adds(e, r)
    BY <1>8, QueueAdds
  <1> HIDE DEF r
  <1>10. Extends(e.todo, r.todo) /\ status' = r.status /\ todo' = r.todo
    BY <1>2, <1>9 DEF Adds, Become
  <1>11. ASSUME NEW u \in Transfers PROVE Flow(u)'
    <2>1. CASE e.status[u] = a.status[u] /\ Asked(e, u) = {}
      <3>1. Echoes(u)
        BY <1>2, SameEchoes
      <3>2. Ready(e, u)
        BY <1>6, <2>1, <3>1, ReadySame
      <3> QED
        BY <1>2, <1>9, <2>1, <3>2, AddedFlow
    <2>2. CASE /\ e.status[u] = a.status[u]
               /\ \E i : Asked(e, u) = {i} /\ e.todo[i].do = "REMOVE"
      <3>1. PICK i : Asked(e, u) = {i} /\ e.todo[i].do = "REMOVE"
        BY <2>2
      <3>2. i \in DOMAIN e.todo /\ e.todo[i].t = u
        BY <3>1 DEF Asked
      <3>3. i \in DOMAIN todo' /\ todo'[i].t = u /\ todo'[i].do = "REMOVE"
        BY <1>10, <3>1, <3>2 DEF Extends
      <3>4. ~Going(u)'
        BY <3>3 DEF Going, Unasked, Blocking
      <3> QED
        BY <3>4 DEF Flow
    <2>3. CASE e.status[u] = "gone"
      <3>1. status'[u] = "gone"
        BY <1>9, <1>10, <2>3 DEF Adds, Resting
      <3> QED
        BY <3>1 DEF Flow, Dead
    <2> QED
      BY <1>8, <2>1, <2>2, <2>3 DEF DeletesOnly, Deleting
  <1> QED
    BY <1>11 DEF Flows

LEMMA UserFlow ==
  ASSUME LInv, Calm, Flows, UserOps \subseteq {"resume", "queue", "delete"},
         User \/ TransferTimeout, crashed' = "no"
  PROVE  Flows'
  <1>1. ASSUME NEW b, Windows(b) # {} PROVE b \in {"resume", "queue", "delete"}
    BY <1>1 DEF Windows
  <1>2. ASSUME TransferTimeout PROVE Flows'
    <2>1. PICK due : Handler(slotTransferTimeout(Main, due))
      BY <1>2 DEF TransferTimeout
    <2>2. MainFree /\ {} \in SUBSET Transfers
      BY <2>1 DEF Handler
    <2>3. Main \in Records /\ Main.todo = <<>> /\ Main.status = status
      BY <2>2, FreshMain DEF Fresh, Main
    <2>4. Adds(Main, slotTransferTimeout(Main, due))
      BY <2>3, TimeoutAdds
    <2> QED
      BY <2>1, <2>2, <2>3, <2>4, QueuedFlow
  <1>3. ASSUME NEW S \in SUBSET Transfers, AddTransfers(S) PROVE Flows'
    <2> DEFINE g == Added(S)
    <2>1. Handler(checkQueue(g)) /\ \A t \in S : status[t] = "absent"
      BY <1>3, AddHandler
    <2>2. MainFree
      BY <2>1 DEF Handler
    <2>3. Fresh(g)
      BY <2>1, <2>2, FreshAdded
    <2>4. \A u \in Transfers : g.status[u] = status[u] \/ (status[u] = "absent" /\ g.status[u] = "stopped")
      <3> DEFINE st == [t \in Transfers |-> IF t \in S THEN "stopped" ELSE status[t]]
      <3>1. g.status = st
        BY DEF Added
      <3>2. \A u \in Transfers : st[u] = IF u \in S THEN "stopped" ELSE status[u]
        OBVIOUS
      <3> HIDE DEF st, g
      <3> QED
        BY <2>1, <3>1, <3>2
    <2> HIDE DEF g
    <2>5. g.todo = <<>> /\ Adds(g, checkQueue(g))
      BY <2>3, QueueAdds DEF Fresh
    <2>6. "stopped" \notin Active
      BY DEF Active
    <2> QED
      BY <2>1, <2>2, <2>4, <2>5, <2>6, QueuedFlow
  <1>4. ASSUME NEW S \in SUBSET Present, Select(S) PROVE Flows'
    <2> DEFINE g == Selecting(S)
               k == [Main EXCEPT !.selected = S]
    <2>1. Handler(g)
      BY <1>4 DEF Select
    <2>2. MainFree
      BY <2>1 DEF Handler
    <2>3. Fresh(g)
      BY <2>2, FreshSelecting
    <2>4. g.status = status
      <3>1. S \in SUBSET Transfers
        BY DEF Present
      <3>2. k \in Records /\ k.status = status
        BY <2>2, <3>1, FreshMain DEF Main, Fresh
      <3>3. g = slotUpdateActions(k)
        BY DEF Selecting
      <3> HIDE DEF k, g
      <3> QED
        BY <3>2, <3>3, UpdateFacts DEF Alike
    <2> HIDE DEF g
    <2>5. g.todo = <<>> /\ Adds(g, g)
      BY <2>3, AddsSame DEF Fresh
    <2> QED
      BY <2>1, <2>2, <2>4, <2>5, QueuedFlow
  <1>5. ASSUME NEW g \in Windows("resume"), ResumeCurrent(g) PROVE Flows'
    <2>1. Handler(slotUpdateActions(EachSelected(g, "resume", {})))
      BY <1>5 DEF ResumeCurrent
    <2>2. MainFree
      BY <2>1 DEF Handler
    <2>3. Fresh(g) /\ g.status = status
      BY <2>2, FreshWindow, WindowStatus
    <2> QED
      BY <2>1, <2>3, PressFlow
  <1>6. ASSUME NEW g \in Windows("queue"), QueueCurrent(g) PROVE Flows'
    <2> DEFINE h == Pressed(g, "queue")
               S == (g.buttons \cup DOMAIN Radios) \ {"queue"}
    <2>1. Handler(slotUpdateActions(EachSelected(h, "queue", {})))
      BY <1>6 DEF QueueCurrent
    <2>2. MainFree
      BY <2>1 DEF Handler
    <2>3. Fresh(g) /\ Listed(g) /\ g.status = status
      BY <2>2, FreshWindow, WindowStatus
    <2>4. Fresh(h)
      BY <2>3, FreshPressed
    <2>5. h.status = status
      <3>1. S \in SUBSET AllButtons
        BY <2>3, RecordFields DEF AllButtons, Fresh
      <3>2. h = [g EXCEPT !.buttons = S]
        BY DEF Pressed
      <3> HIDE DEF S, h
      <3> QED
        BY <2>3, <3>1, <3>2, ButtonFacts DEF Fresh, Alike
    <2> HIDE DEF h
    <2> QED
      BY <2>1, <2>4, <2>5, PressFlow
  <1>7. ASSUME NEW g \in Windows("delete"), DeleteCurrent(g) PROVE Flows'
    BY <1>7, DeleteFlow
  <1>8. CASE User
    <2>1. /\ Windows("pause") = {} /\ Windows("restart") = {}
          /\ Windows("delay") = {} /\ Windows("timer") = {}
      BY <1>1
    <2> QED
      BY <1>3, <1>4, <1>5, <1>6, <1>7, <1>8, <2>1 DEF User, Calm
  <1> QED
    BY <1>2, <1>8

----------------------------------------------------------------------------
(* The answers.  Each but REMOVED shows its transfer in the state that it   *)
(* is in by then, and goes on to the queue.                                *)

Shown(h, g, t, kind) ==
    /\ g.todo = h.todo /\ \A u \in Transfers \ {t} : g.status[u] = h.status[u]
    /\ kind = "SLV_RESUMED" => g.status[t] = h.status[t]
    /\ kind = "SLV_CONNECTED" => g.status[t] = "running"
    /\ kind \in Results => g.status[t] \in {"stopped", "finished"}

LEMMA EventAdds ==
  ASSUME ~b_removeOnSuccess, NEW h \in Records, NEW t \in Transfers,
         NEW kind \in EventKinds \ {"SLV_REMOVED"}, kind = "SLV_CONNECTED" => h.mode[t] # "new",
         NEW due
  PROVE  \E g : Shown(h, g, t, kind) /\ Adds(g, customEvent(h, t, kind, due))
  <1> DEFINE r == customEvent(h, t, kind, due)
  <1>1. kind \in {"SLV_RESUMED", "SLV_CONNECTED", "SLV_FINISHED", "SLV_PAUSED", "SLV_DELAYED",
                  "SLV_SCHEDULED", "SLV_ERROR", "SLV_BROKEN", "SLV_NOTINCACHE"}
    BY DEF EventKinds, Answer, Results
  <1>2. h.status \in [Transfers -> Statuses]
    BY RecordFields
  <1>3. ASSUME NEW s \in {"stopped", "finished"}, NEW m \in {"queued", "delayed", "scheduled", "none"},
               kind \notin {"SLV_RESUMED", "SLV_CONNECTED"}
        PROVE  LET a == Show(h, t, s, m)
               IN  /\ Shown(h, a, t, kind) /\ Adds(a, a) /\ Adds(a, checkQueue(a))
                   /\ Adds(a, slotStatusChanged(a))
                   /\ Adds(a, slotTransferTimeout(slotUpdateActions(a), due))
    <2> DEFINE a == Show(h, t, s, m)
               b == slotUpdateActions(a)
    <2>1. s \in Statuses /\ m \in Modes
      BY DEF Statuses, Modes
    <2>2. /\ a \in Records /\ a.status = [h.status EXCEPT ![t] = s]
          /\ a.mode = [h.mode EXCEPT ![t] = m] /\ a.selected = h.selected /\ a.todo = h.todo
      BY <2>1, ShowFacts
    <2> HIDE DEF a
    <2>3. a.status[t] = s /\ \A u \in Transfers \ {t} : a.status[u] = h.status[u]
      BY <1>2, <2>2
    <2>4. Shown(h, a, t, kind)
      BY <1>3, <2>2, <2>3 DEF Shown
    <2>5. b \in Records /\ Adds(a, b)
      BY <2>2, UpdateAdds
    <2> HIDE DEF b
    <2>6. Adds(b, slotTransferTimeout(b, due))
      BY <2>5, TimeoutAdds
    <2>7. Adds(a, slotTransferTimeout(b, due))
      BY <2>5, <2>6, AddsTwice
    <2>8. Adds(a, checkQueue(a)) /\ Adds(a, slotStatusChanged(a))
      BY <2>2, QueueAdds, ChangedAdds
    <2> QED
      BY <2>4, <2>7, <2>8, AddsSame DEF a, b
  <1>4. CASE kind = "SLV_RESUMED"
    <2>1. r = slotStatusChanged(h)
      BY <1>4 DEF customEvent, slotExecResume
    <2>2. Adds(h, r)
      BY <2>1, ChangedAdds
    <2>3. Shown(h, h, t, kind)
      BY <1>4 DEF Shown, Results
    <2> QED
      BY <2>2, <2>3
  <1>5. CASE kind = "SLV_CONNECTED"
    <2> DEFINE q == [h.status EXCEPT ![t] = "running"]
               b == [h EXCEPT !.status = q]
    <2>1. [h EXCEPT !.status[t] = "running"] = b
      OBVIOUS
    <2>2. r = checkQueue(b)
      BY <1>5, <2>1 DEF customEvent, slotExecConnected
    <2>3. /\ q \in [Transfers -> Statuses] /\ q[t] = "running"
          /\ \A u \in Transfers \ {t} : q[u] = h.status[u]
      BY <1>2 DEF Statuses
    <2> HIDE DEF q
    <2>4. b \in Records /\ b.status = q /\ b.todo = h.todo
      BY <2>3 DEF Records
    <2> HIDE DEF b, r
    <2>5. Shown(h, b, t, kind)
      BY <1>5, <2>3, <2>4 DEF Shown, Results
    <2>6. Adds(b, r)
      BY <2>2, <2>4, QueueAdds
    <2> QED
      BY <2>5, <2>6 DEF r
  <1>6. CASE kind = "SLV_FINISHED"
    <2>1. r = checkQueue(Show(h, t, "finished", "none"))
      BY <1>6 DEF customEvent, slotFinished
    <2> QED
      BY <1>3, <1>6, <2>1
  <1>7. CASE kind \in {"SLV_PAUSED", "SLV_DELAYED"}
    <2>1. r = slotStatusChanged(Show(h, t, "stopped", "delayed"))
      BY <1>7 DEF customEvent, slotExecPause, slotExecDelay
    <2> QED
      BY <1>3, <1>7, <2>1
  <1>8. CASE kind = "SLV_BROKEN"
    <2>1. r = slotStatusChanged(Show(h, t, "stopped", "queued"))
      BY <1>8 DEF customEvent, slotExecBroken
    <2> QED
      BY <1>3, <1>8, <2>1
  <1>9. CASE kind \in {"SLV_SCHEDULED", "SLV_ERROR"}
    <2>1. r = slotTransferTimeout(slotUpdateActions(Show(h, t, "stopped", "scheduled")), due)
      BY <1>9 DEF customEvent, slotExecSchedule, slotExecError
    <2> QED
      BY <1>3, <1>9, <2>1
  <1>10. CASE kind = "SLV_NOTINCACHE"
    <2>1. r = NotInCache(h, t)
      BY <1>10 DEF customEvent
    <2>2. PICK m \in {"queued", "delayed"} : r = Show(h, t, "stopped", m)
      BY <2>1, NotInCacheFacts
    <2> QED
      BY <1>3, <1>10, <2>2
  <1> QED
    BY <1>1, <1>4, <1>5, <1>6, <1>7, <1>8, <1>9, <1>10

(* A transfer that is being removed stays so until REMOVED is answered.     *)
LEMMA RemovingStays ==
  ASSUME MainFree, SlaveIdle, NEW t \in Transfers, NoRemoved(t)' => NoRemoved(t), Going(t)'
  PROVE  Going(t)
  <1>1. UNCHANGED <<stack, cmd>> /\ op = NoOp /\ todo = <<>>
    BY DEF MainFree, MainIdle, SlaveIdle
  <1>2. Unasked(t, Blocking)
    BY <1>1, NoTransfers DEF Unasked
  <1> QED
    BY <1>1, <1>2 DEF Going, Unsent

LEMMA HandleEventFlow ==
  ASSUME LInv, Calm, Flows, HandleEvent, crashed' = "no"
  PROVE  Flows'
  <1>1. /\ MainFree /\ SlaveIdle
        /\ Head(events).t \in Transfers /\ Head(events).kind \in EventKinds
    BY EventRecord DEF LInv
  <1>2. PICK t \in Transfers, kind \in EventKinds :
           t = Head(events).t /\ kind = Head(events).kind
    BY <1>1
  <1>3. events \in Seq(Events) /\ events # <<>> /\ events' = Tail(events)
    BY LifeTypes DEF HandleEvent
  <1>4. /\ \A u : u # t => Echoes(u)
        /\ kind \in News => Echoes(t)
        /\ kind # "SLV_REMOVED" /\ NoRemoved(t)' => NoRemoved(t)
        /\ kind \in Results /\ ResultLast(t) => NoEvents(t)'
        /\ ~NoEvents(t)
        /\ OnlyNews(t) => kind \in News
        /\ ResultLast(t) => kind \in News \cup Results
    BY <1>2, <1>3, TailEchoes
  <1>5. PICK due : Become(customEvent(Main, t, kind, due))
    <2>1. \/ /\ status[t] = "gone"
             /\ Become([Main EXCEPT !.crashed = "kmainwidget.cpp:customEvent"])
          \/ /\ status[t] # "gone"
             /\ \E due : Become(customEvent(Main, t, kind, due))
      BY <1>2, EventRecord DEF LInv
    <2>2. ~Become([Main EXCEPT !.crashed = "kmainwidget.cpp:customEvent"])
      BY DEF Become, Main
    <2> QED
      BY <2>1, <2>2
  <1>6. Main \in Records /\ Main.todo = <<>> /\ Main.status = status /\ Main.mode = mode
    BY <1>1, MainRecord DEF LInv, KInv, Main, MainFree
  <1>7. CASE kind = "SLV_REMOVED"
    <2> DEFINE r == slotExecRemove(Main, t)
    <2>1. customEvent(Main, t, kind, due) = r
      BY <1>7 DEF customEvent
    <2>2. Become(r)
      BY <1>5, <2>1
    <2>3. /\ r.status = [Main.status EXCEPT ![t] = "gone"]
          /\ r.mode = [Main.mode EXCEPT ![t] = "none"] /\ r.crashed = Main.crashed
          /\ r.todo # <<>> /\ Head(r.todo) = [t |-> t, do |-> "join"]
          /\ \A k \in DOMAIN r.todo : r.todo[k].t = t /\ r.todo[k].do \in {"abort", "join"}
      BY <1>6, RemovedFacts
    <2> HIDE DEF r
    <2>4. status \in [Transfers -> Statuses]
      BY <1>6, RecordFields
    <2>5. ASSUME NEW u \in Transfers, u # t PROVE Flow(u)'
      <3>1. r.status[u] = status[u] /\ Asked(r, u) = {}
        BY <1>6, <2>3, <2>4, <2>5 DEF Asked
      <3>2. Ready(r, u)
        BY <1>4, <2>5, <3>1, ReadySame
      <3> QED
        BY <1>1, <2>2, <3>1, <3>2, AddsSame, AddedFlow
    <2>6. status'[t] = "gone"
      BY <1>6, <2>2, <2>3, <2>4 DEF Become
    <2> QED
      BY <2>5, <2>6 DEF Flows, Flow, Dead
  <1>8. CASE kind # "SLV_REMOVED"
    <2> DEFINE r == customEvent(Main, t, kind, due)
    <2>1. kind = "SLV_CONNECTED" => Main.mode[t] # "new"
      <3>1. 1 \in DOMAIN events /\ Head(events) = events[1]
        BY <1>3
      <3> QED
        BY <1>2, <1>6, <3>1 DEF LInv, ConnectedInv
    <2>2. PICK g : Shown(Main, g, t, kind) /\ Adds(g, r)
      BY <1>6, <1>8, <2>1, EventAdds DEF Calm
    <2>3. Become(r)
      BY <1>5
    <2> HIDE DEF r
    <2>4. g.todo = <<>>
      BY <1>6, <2>2 DEF Shown
    <2>5. ASSUME NEW u \in Transfers, u # t PROVE Flow(u)'
      <3>1. Ready(g, u)
        BY <1>4, <1>6, <2>2, <2>5, ReadySame DEF Shown
      <3> QED
        BY <1>1, <2>2, <2>3, <2>4, <3>1, NoneAsked, AddedFlow
    <2>6. ASSUME status[t] \notin Dead, Going(t)' PROVE Ready(g, t)
      <3>1. Going(t) /\ Flow(t)
        BY <1>1, <1>4, <1>8, <2>6, RemovingStays DEF Flows
      <3>2. status[t] \in Active /\ (Loading(t) \/ Loaded(t))
        BY <1>4, <2>6, <3>1 DEF Flow, Begun, AtRest
      <3>3. CASE kind \in News
        <4>1. g.status[t] \in Active
          BY <1>6, <2>2, <3>2, <3>3 DEF Shown, News, Active
        <4> QED
          BY <1>4, <2>6, <3>1, <3>2, <3>3, <4>1 DEF Ready
      <3>4. CASE kind \notin News
        <4>1. Loaded(t) /\ kind \in Results
          BY <1>4, <3>2, <3>4 DEF Loading, Loaded
        <4>2. g.status[t] \notin Active
          BY <2>2, <4>1 DEF Shown, Active
        <4> QED
          BY <1>4, <4>1, <4>2 DEF Ready, Loaded, NoCommands
      <3> QED
        BY <3>3, <3>4
    <2>7. Flow(t)'
      <3>1. CASE status[t] \notin Dead /\ Going(t)'
        BY <1>1, <2>2, <2>3, <2>4, <2>6, <3>1, NoneAsked, AddedFlow
      <3>2. CASE ~Going(t)'
        BY <3>2 DEF Flow
      <3>3. status[t] \notin Dead
        <4>1. Life(t)
          BY DEF LInv, Lives
        <4>2. ~Unborn(t) /\ ~Killed(t) /\ ~Over(t)
          BY <1>4 DEF Unborn, Killed, Over
        <4>3. ~Stuck(t)
          BY <1>1 DEF Stuck, MainFree
        <4> QED
          BY <4>1, <4>2, <4>3 DEF Life, Ended, Dead
      <3> QED
        BY <3>1, <3>2, <3>3
    <2> QED
      BY <2>5, <2>7 DEF Flows
  <1> QED
    BY <1>7, <1>8

----------------------------------------------------------------------------
LEMMA FlowInit == Init => FInv
  <1> SUFFICES ASSUME Init PROVE FInv
    OBVIOUS
  <1>1. \A t \in Transfers : status[t] = "absent"
    BY DEF Init
  <1> QED
    BY <1>1, LifeInit DEF FInv, Flows, Flow, Dead

LEMMA FlowNext ==
  ASSUME Calm, UserOps \subseteq {"resume", "queue", "delete"}
  PROVE  FInv /\ [Next]_vars => FInv'
  <1> SUFFICES ASSUME FInv, [Next]_vars PROVE FInv'
    OBVIOUS
  <1>1. LInv /\ LInv'
    BY LifeNext DEF FInv
  <1> SUFFICES ASSUME crashed' = "no" PROVE Flows'
    BY <1>1 DEF FInv
  <1>2. CASE UNCHANGED vars
    <2>1. /\ UNCHANGED <<stack, cmd, copyjob, events, op, crashed>>
          /\ UNCHANGED <<status, todo>>
      BY <1>2 DEF vars, svars, kvars
    <2>2. Flows
      BY <2>1 DEF FInv
    <2>3. \A u \in Transfers : Echoes(u)
      BY <2>1, SameEchoes
    <2> QED
      BY <2>1, <2>2, <2>3, FlowKept DEF Flows
  <1>3. CASE Next
    <2>1. ASSUME NEW t \in Transfers, SlaveStep(t) PROVE Flows /\ Flows'
      <3>1. crashed = "no"
        BY <2>1 DEF SlaveStep, Worker, CheckPending, Sleep, SpuriousWake, FetchCmd, Dispatch,
             KillJob, Retrieve, AnswerStop, LeaveLoop, Exit
      <3>2. Flows
        BY <3>1 DEF FInv
      <3> QED
        BY <1>1, <2>1, <3>2, SlaveStepFlow
    <2>2. ASSUME NEW t \in Transfers, PushStep(t) PROVE Flows'
      <3>1. Flows
        BY <2>2 DEF FInv, PushStep, OpPush
      <3> QED
        BY <1>1, <2>2, <3>1, PushStepFlow
    <2>3. ASSUME NEW t \in Transfers,
                 JobConnected(t) \/ JobEnds(t) \/ JobSucceeded(t) \/ JobFailed(t)
          PROVE  Flows'
      <3>1. Flows
        BY <2>3 DEF FInv, JobConnected, JobEnds, JobSucceeded, JobFailed, SlotResult, MainFree
      <3> QED
        BY <1>1, <2>3, <3>1, ConnectedFlow, EndsFlow, ResultFlow
    <2>4. ASSUME NextOp \/ Abort \/ Join PROVE Flows'
      <3>1. Flows
        BY <2>4 DEF FInv, NextOp, OpStart, Abort, Join
      <3> QED
        BY <1>1, <2>4, <3>1, NextOpFlow, WaitFlow
    <2>5. ASSUME HandleEvent PROVE Flows'
      <3>1. Flows
        BY <2>5 DEF FInv, HandleEvent, MainFree
      <3> QED
        BY <1>1, <2>5, <3>1, HandleEventFlow
    <2>6. ASSUME User \/ TransferTimeout PROVE Flows'
      <3>1. Flows
        BY <2>6 DEF FInv, User, TransferTimeout, AddTransfers, Select, ResumeCurrent,
             PauseCurrent, RestartCurrent, DeleteCurrent, QueueCurrent, DelayCurrent,
             TimerCurrent, ToggleOfflineMode, CheckConnection, Handler, MainFree
      <3> QED
        BY <1>1, <2>6, <3>1, UserFlow
    <2> QED
      BY <1>3, <2>1, <2>2, <2>3, <2>4, <2>5, <2>6 DEF Next
  <1> QED
    BY <1>2, <1>3

LEMMA FlowAgrees == FInv /\ DeletedHasNoThread => StatusAgreesWithJob
  <1> SUFFICES ASSUME FInv, DeletedHasNoThread, crashed = "no", MainIdle, todo = <<>>,
                      NEW t \in Transfers, Quiet(t)
               PROVE  status[t] \in Active <=> copyjob[t] # "none"
    BY DEF StatusAgreesWithJob
  <1>1. LInv /\ Flow(t) /\ Life(t) /\ MainFree
    BY DEF FInv, Flows, LInv, Lives, MainFree
  <1>2. CASE status[t] = "absent"
    BY <1>1, <1>2, AbsentRests DEF Active
  <1>3. CASE status[t] = "gone"
    BY <1>1, <1>3 DEF DeletedHasNoThread, Active
  <1>4. CASE status[t] \notin Dead
    <2>1. DOMAIN events = 1 .. Len(events)
      BY <1>1, LifeTypes
    <2>2. NoEvents(t) /\ stack[t] = <<>> /\ cmd[t] = "NOOP"
      BY <2>1 DEF Quiet, NoEvents
    <2>3. op.t # t /\ DOMAIN stack[t] = {} /\ DOMAIN todo = {}
      BY <2>2, NoTransfers DEF MainIdle
    <2>4. Going(t)
      BY <2>2, <2>3 DEF Going, Unasked, Unsent, NoRemoved, NoEvents, Ending
    <2>5. ~Begun(t) /\ ~Loaded(t)
      BY <2>2, <2>3 DEF Begun, Sole, Beginning, Loaded, ResultLast, NoEvents
    <2> QED
      BY <1>1, <1>4, <2>4, <2>5 DEF Flow, Loading, AtRest
  <1> QED
    BY <1>2, <1>3, <1>4 DEF Dead

(* What the list shows is what the slaves do: once nothing is on its way    *)
(* for a transfer it is shown trying or running exactly if its slave has a *)
(* download, for a patient user who resumes, queues and deletes.  A pause, *)
(* a delay or a restart may be sent to a slave whose job is just ending.   *)
THEOREM StatusAgrees ==
  ASSUME Calm, UserOps \subseteq {"resume", "queue", "delete"}
  PROVE  Spec => []StatusAgreesWithJob
  <1>1. Calm /\ UserOps \subseteq {"resume", "queue", "delete"}
    OBVIOUS
  <1>2. FInv /\ [Next]_vars => FInv'
    BY <1>1, FlowNext
  <1> QED
    BY <1>2, FlowInit, FlowAgrees, DeletedIsStopped, PTL DEF Spec
=============================================================================
