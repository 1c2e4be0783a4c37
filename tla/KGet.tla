-------------------------------- MODULE KGet --------------------------------
(***************************************************************************)
(* KGet's transfers and download queue: the main thread (kmainwidget.cpp,  *)
(* transfer.cpp) above the slaves of KGetSlave.                            *)
(*                                                                         *)
(* A handler of the main thread runs to its end before the next one.  Its  *)
(* effects on the transfers are computed at once, on a record g of the     *)
(* main thread's state; the slave operations it makes on its way are put   *)
(* in "todo" and are carried out one by one, interleaved with the workers, *)
(* before the main thread takes up anything else.  No handler reads what a *)
(* slave operation changes, so the order of both is that of the code.      *)
(*                                                                         *)
(* The buttons act on the selected transfers.  KMainWidget enables them in *)
(* slotUpdateActions, which not every change of a transfer is followed by: *)
(* "buttons" are those that can be pressed as the window shows them.       *)
(*                                                                         *)
(* Abstractions: sizes, speeds, texts and start times (a scheduled         *)
(* transfer may be due at any moment), the confirmation dialogs, moving    *)
(* transfers in the list and the windows of single transfers.              *)
(***************************************************************************)
EXTENDS KGetSlave, FiniteSets

CONSTANTS
    Order,                      \* the transfer list, top to bottom
    Http,                       \* the transfers with protocol "http"
    maxSimultaneousConnections, \* setting: downloads checkQueue may run
    reconnectRetries,           \* setting: attempts before giving up
    b_addQueued,                \* setting: new transfers are queued
    b_removeOnSuccess,          \* setting: finished transfers are deleted
    UserOps,                    \* what this user does
    Keeps,                      \* he may press a button without selecting anew
    Patient,                    \* the user waits for the previous answer
    Fails                       \* the ways a job may fail

ASSUME KGetAssumption ==
    /\ Order \in Seq(Transfers)
    /\ \A t \in Transfers : \E n \in 1 .. Len(Order) : Order[n] = t
    /\ \A m, n \in 1 .. Len(Order) : Order[m] = Order[n] => m = n
    /\ Http \subseteq Transfers
    /\ {maxSimultaneousConnections, reconnectRetries} \subseteq Nat \ {0}
    /\ {b_addQueued, b_removeOnSuccess, Keeps, Patient} \subseteq BOOLEAN
    /\ Fails \subseteq {"login_timeout", "broken", "other"}

VARIABLES
    status,      \* status[t]: TransferStatus, "absent" before and "gone" after
    mode,        \* mode[t]: TransferMode
    retryCount,  \* retryCount[t]: attempts made
    offlineMode, \* the user's offline switch
    b_connected, \* the network interface is up
    selected,    \* the selected transfers, {} between the steps unless Keeps
    buttons,     \* the buttons that can be pressed
    todo         \* slave operations the running handler has still to make

window == <<selected, buttons>>
kvars == <<status, mode, retryCount, offlineMode, b_connected, window, todo>>
vars == <<svars, kvars>>

Active == {"trying", "running"}

(* A bug: transfers that are tried do not count. *)
NumActiveRunning(st) == Cardinality({t \in Transfers : st[t] = "running"})

NumActive(st) == Cardinality({t \in Transfers : st[t] \in Active})
b_offline == offlineMode \/ ~b_connected

(* The main thread's state, as the handlers below take and return it. *)
Main == [status |-> status, mode |-> mode, retryCount |-> retryCount,
         offlineMode |-> offlineMode, b_connected |-> b_connected,
         selected |-> selected, buttons |-> buttons,
         todo |-> todo, crashed |-> crashed]

Offline(g) == g.offlineMode \/ ~g.b_connected
Do(g, t, what) == [g EXCEPT !.todo = Append(@, [t |-> t, do |-> what])]
Show(g, t, s, m) == [g EXCEPT !.status[t] = s, !.mode[t] = m]
Check(g, holds, line) ==
    IF holds \/ g.crashed # "no" THEN g ELSE [g EXCEPT !.crashed = line]

(* A loop over the transfer list. *)
Each(g, Body(_, _)) ==
    LET after[n \in 0 .. Len(Order)] == IF n = 0 THEN g ELSE Body(after[n - 1], Order[n])
    IN  after[Len(Order)]

(* The first of some transfers. *)
First(S) ==
    Order[CHOOSE n \in 1 .. Len(Order) : Order[n] \in S /\ \A m \in 1 .. n - 1 : Order[m] \notin S]

(* KMainWidget::slotUpdateActions.  Pause, Restart or Resume: online, if   *)
(* the selected transfers have one status.  Queue, Timer and Delay: if     *)
(* they have one mode, the first is not finished, and the radio button is  *)
(* not on already, when pressing it does nothing.                          *)
Radios == [queue |-> "queued", timer |-> "scheduled", delay |-> "delayed"]
slotUpdateActions(g) ==
    LET S      == g.selected
        first  == First(S)
        online == ~Offline(g) /\ \A t \in S : g.status[t] = g.status[first]
        moded  == g.status[first] # "finished" /\ \A t \in S : g.mode[t] = g.mode[first]
    IN  [g EXCEPT !.buttons =
            IF S = {} THEN {}
            ELSE {b \in {"resume"} : online /\ g.status[first] = "stopped"}
                 \cup {b \in {"pause", "restart"} : online /\ g.status[first] \in Active}
                 \cup {b \in DOMAIN Radios : moded /\ g.mode[first] # Radios[b]}
                 \cup {"delete"}]

----------------------------------------------------------------------------
(* The queue.                                                              *)

(* Transfer::slotResume: the attempt is counted, wrapping past the limit. *)
slotResume(g, t) ==
    LET n == g.retryCount[t] + 1
        counted == [g EXCEPT !.retryCount[t] = IF n > reconnectRetries THEN 1 ELSE n]
        checked == Check(counted, g.status[t] = "stopped", "transfer.cpp:slotResume")
    IN  Do(Show(checked, t, "trying", "queued"), t, "RETR")

(* A bug: the cache look-up does not stop the transfer. *)
NotInCacheTrying(g, t) ==
    [g EXCEPT !.mode[t] = IF b_addQueued THEN "queued" ELSE "delayed"]

NotInCache(g, t) ==
    Show(g, t, "stopped", IF b_addQueued THEN "queued" ELSE "delayed")

checkCache(g, t) ==
    IF t \in Http THEN Do(Show(g, t, "trying", "new"), t, "RETR_CACHE")
    ELSE NotInCache(g, t)

(* KMainWidget::checkQueue: online, start waiting transfers in list order  *)
(* while fewer than the maximum are active, and update the buttons; then,  *)
(* always, look up in the cache what is still new.                         *)
Waits(g, t) ==
    g.status[t] \notin {"absent", "gone"} \cup Active /\ g.mode[t] \in {"queued", "new"}
startWaiting(g, t) ==
    IF Waits(g, t) /\ NumActive(g.status) < maxSimultaneousConnections
    THEN slotResume(g, t) ELSE g
lookUpNew(g, t) ==
    IF g.mode[t] = "new" /\ g.status[t] = "stopped" THEN checkCache(g, t) ELSE g

checkQueue(g) ==
    Each(IF Offline(g) THEN g ELSE slotUpdateActions(Each(g, startWaiting)), lookUpNew)

(* KMainWidget::slotTransferTimeout, the transfers in "due" being due. *)
slotTransferTimeout(g, due) ==
    LET late == {t \in due : g.mode[t] = "scheduled"}
    IN  IF late = {} THEN g
        ELSE checkQueue([g EXCEPT !.mode = [t \in Transfers |->
                            IF t \in late THEN "queued" ELSE @[t]]])

(* A bug: the slave is not aborted. *)
deleteItemOnly(g, t) ==
    [Show(g, t, "gone", "none") EXCEPT !.selected = @ \ {t}]

(* delete item: ~Transfer aborts the slave and waits for its thread. *)
deleteItem(g, t) ==
    Do([Show(g, t, "gone", "none") EXCEPT !.selected = @ \ {t}], t, "abort")

----------------------------------------------------------------------------
(* The answers of the slaves: KMainWidget::customEvent, the slot it calls, *)
(* and slotStatusChanged, which updates the buttons for some operations    *)
(* and ends in checkQueue but for OP_REMOVED and OP_SCHEDULED.             *)

slotFinished(g, t) ==
    checkQueue(IF b_removeOnSuccess THEN deleteItem(g, t)
               ELSE Show(g, t, "finished", "none"))

(* A bug: the queue is not checked for the connection that is free now. *)
slotExecBrokenOnly(g, t) == Show(g, t, "stopped", "queued")

slotStatusChanged(g) == checkQueue(slotUpdateActions(g))
slotExecPause(g, t)  == slotStatusChanged(Show(g, t, "stopped", "delayed"))
slotExecDelay(g, t)  == slotStatusChanged(Show(g, t, "stopped", "delayed"))
slotExecBroken(g, t) == slotStatusChanged(Show(g, t, "stopped", "queued"))
slotExecResume(g, t) == slotStatusChanged(g)
slotExecSchedule(g, t, due) ==
    slotTransferTimeout(slotUpdateActions(Show(g, t, "stopped", "scheduled")), due)
slotExecError(g, t, due) == slotExecSchedule(g, t, due)
slotExecRemove(g, t) == deleteItem(Do(g, t, "join"), t)

slotExecConnected(g, t) ==
    IF g.mode[t] # "new" THEN checkQueue([g EXCEPT !.status[t] = "running"])
    ELSE IF Offline(g) THEN g
    ELSE slotStatusChanged(Do(NotInCache(g, t), t, "KILL"))

customEvent(g, t, kind, due) ==
    CASE kind = "SLV_RESUMED"    -> slotExecResume(g, t)
      [] kind = "SLV_CONNECTED"  -> slotExecConnected(g, t)
      [] kind = "SLV_FINISHED"   -> slotFinished(g, t)
      [] kind = "SLV_PAUSED"     -> slotExecPause(g, t)
      [] kind = "SLV_DELAYED"    -> slotExecDelay(g, t)
      [] kind = "SLV_SCHEDULED"  -> slotExecSchedule(g, t, due)
      [] kind = "SLV_ERROR"      -> slotExecError(g, t, due)
      [] kind = "SLV_BROKEN"     -> slotExecBroken(g, t)
      [] kind = "SLV_REMOVED"    -> slotExecRemove(g, t)
      [] kind = "SLV_NOTINCACHE" -> NotInCache(g, t)

----------------------------------------------------------------------------
(* The user's buttons, each on the selected transfers in list order.       *)

slotRequestPause(g, t) ==
    Do(Check(g, g.status[t] \in Active, "transfer.cpp:slotRequestPause"), t, "PAUSE")
slotRequestRestart(g, t) == Do(g, t, "RESTART")

slotRequestRemove(g, t) ==
    IF g.status[t] = "running" THEN Do(g, t, "REMOVE") ELSE deleteItem(g, t)

slotQueue(g, t) ==
    slotStatusChanged([Check(g, g.mode[t] # "queued", "transfer.cpp:slotQueue")
                       EXCEPT !.mode[t] = "queued"])

slotRequestDelay(g, t) ==
    LET checked == Check(g, g.mode[t] # "delayed", "transfer.cpp:slotRequestDelay")
    IN  IF g.status[t] = "running" THEN Do(checked, t, "DELAY")
        ELSE slotExecDelay(checked, t)

(* The start time is now in the future, so t itself is not due. *)
slotRequestSchedule(g, t, due) ==
    LET checked == Check(g, g.mode[t] # "scheduled", "transfer.cpp:slotRequestSchedule")
    IN  IF g.status[t] = "running" THEN Do(checked, t, "SCHEDULE")
        ELSE slotExecSchedule(checked, t, due \ {t})

(* Transfer::slotStop asserts what stopAll has tested: active, offline. *)
slotStop(g, t) == Do(Show(g, t, "stopped", "queued"), t, "KILL")
stopActive(g, t) == IF g.status[t] \in Active THEN slotStop(g, t) ELSE g
stopAll(g) == slotUpdateActions(Each(g, stopActive))

(* What a button does to a selected transfer; the transfers in "due" are    *)
(* due by then.                                                            *)
Slot(b, due, g, t) ==
    CASE b = "resume"  -> slotResume(g, t)
      [] b = "pause"   -> slotRequestPause(g, t)
      [] b = "restart" -> slotRequestRestart(g, t)
      [] b = "delete"  -> slotRequestRemove(g, t)
      [] b = "queue"   -> slotQueue(g, t)
      [] b = "delay"   -> slotRequestDelay(g, t)
      [] b = "timer"   -> slotRequestSchedule(g, t, due)
SlotIfSelected(b, due, g, t) == IF t \in g.selected THEN Slot(b, due, g, t) ELSE g
EachSelected(g, b, due) ==
    LET after[n \in 0 .. Len(Order)] ==
            IF n = 0 THEN g ELSE SlotIfSelected(b, due, after[n - 1], Order[n])
    IN  after[Len(Order)]

----------------------------------------------------------------------------
Init ==
    /\ SInit
    /\ status = [t \in Transfers |-> "absent"]
    /\ mode = [t \in Transfers |-> "none"]
    /\ retryCount = [t \in Transfers |-> 0]
    /\ offlineMode \in BOOLEAN
    /\ b_connected = TRUE
    /\ selected = {} /\ buttons = {}
    /\ todo = <<>>

(* The main thread ends a handler: g is its new state.  The line of an     *)
(* assertion that failed goes to "crashed".                                *)
Become(g) ==
    /\ status' = g.status
    /\ mode' = g.mode
    /\ retryCount' = g.retryCount
    /\ offlineMode' = g.offlineMode
    /\ b_connected' = g.b_connected
    /\ selected' = IF Keeps THEN g.selected ELSE {}
    /\ buttons' = IF Keeps THEN g.buttons ELSE {}
    /\ todo' = g.todo
    /\ crashed' = g.crashed

MainFree == crashed = "no" /\ MainIdle /\ todo = <<>>
SlaveIdle == UNCHANGED <<stack, pc, cmd, copyjob, op, emitting>>

(* The slave operations a handler has made, in order.                      *)
NextOp ==
    /\ todo # <<>> /\ Head(todo).do \in Commands
    /\ OpStart(Head(todo).t, Head(todo).do)
    /\ todo' = Tail(todo)
    /\ UNCHANGED <<status, mode, retryCount, offlineMode, b_connected, window>>

(* Transfer::synchronousAbort: kill a running thread and wait for it. *)
Abort ==
    /\ crashed = "no" /\ MainIdle /\ todo # <<>> /\ Head(todo).do = "abort"
    /\ LET t == Head(todo).t
       IN  todo' = IF Running(t)
                   THEN <<[t |-> t, do |-> "KILL"], [t |-> t, do |-> "join"]>>
                        \o Tail(todo)
                   ELSE Tail(todo)
    /\ UNCHANGED <<svars, status, mode, retryCount, offlineMode, b_connected, window>>

(* m_pSlave->wait(): the main thread blocks until the thread has ended. *)
Join ==
    /\ crashed = "no" /\ MainIdle /\ todo # <<>> /\ Head(todo).do = "join"
    /\ ~Running(Head(todo).t)
    /\ todo' = Tail(todo)
    /\ UNCHANGED <<svars, status, mode, retryCount, offlineMode, b_connected, window>>

(* Slave signals, delivered by the main thread between two handlers.  The  *)
(* answer to a failure depends on the mode and on the attempts left.       *)
JobConnected(t) ==
    /\ MainFree /\ Len(events) < MaxEvents
    /\ SlotTotalSize(t, mode[t] # "new")
    /\ UNCHANGED kvars

JobEnds(t) ==
    /\ MainFree /\ Len(events) < MaxEvents
    /\ EmitResult(t)
    /\ UNCHANGED kvars

FailureAnswer(t, failure) ==
    CASE mode[t] = "new" -> "SLV_NOTINCACHE"
      [] mode[t] # "new" /\ failure = "login_timeout"
                         /\ retryCount[t] < reconnectRetries -> "SLV_ERROR"
      [] mode[t] # "new" /\ failure = "broken"
                         /\ retryCount[t] < reconnectRetries -> "SLV_BROKEN"
      [] OTHER -> "SLV_DELAYED"

JobSucceeded(t) == SlotResult(t, "SLV_FINISHED") /\ UNCHANGED kvars
JobFailed(t) ==
    /\ \E failure \in Fails : SlotResult(t, FailureAnswer(t, failure))
    /\ UNCHANGED kvars

(* The next event.  It holds a plain pointer to its transfer. *)
HandleEvent ==
    /\ MainFree /\ events # <<>>
    /\ events' = Tail(events)
    /\ LET e == Head(events)
       IN  IF status[e.t] = "gone"
           THEN Become([Main EXCEPT !.crashed = "kmainwidget.cpp:customEvent"])
           ELSE \E due \in SUBSET {t \in Transfers : mode[t] = "scheduled" \/ t = e.t} :
                    Become(customEvent(Main, e.t, e.kind, due))
    /\ SlaveIdle

(* The user, the timers and the network.                                   *)
Handler(g) == MainFree /\ Become(g) /\ SlaveIdle /\ UNCHANGED events

(* addTransferEx, addTransfers: new items at the end of the list, and no   *)
(* selection.                                                              *)
AddTransfers(S) ==
    /\ \E n \in 1..Len(Order) :
          /\ status[Order[n]] = "absent"
          /\ n > 1 => status[Order[n - 1]] # "absent"
          /\ \E m \in n..Len(Order) : S = {Order[i] : i \in n..m}
    /\ \A t \in S : status[t] = "absent"
    /\ Handler(checkQueue(
          [Main EXCEPT !.status = [t \in Transfers |-> IF t \in S THEN "stopped" ELSE @[t]],
                       !.mode = [t \in Transfers |-> IF t \in S THEN "new" ELSE @[t]],
                       !.selected = {}, !.buttons = {}]))

(* Nothing is pending between the user and t. *)
Quiet(t) ==
    /\ stack[t] = <<>> /\ cmd[t] = "NOOP" /\ pc[t] \notin {"fetch", "exit"}
    /\ \A i \in 1..Len(events) : events[i].t # t

Present == {t \in Transfers : status[t] \notin {"absent", "gone"}}
Selecting(S) == slotUpdateActions([Main EXCEPT !.selected = S])

(* The window as it is when the user presses button b: as he has left it,  *)
(* or with a new selection.                                                *)
Windows(b) ==
    {g \in IF Keeps THEN {Main} ELSE {Selecting(S) : S \in SUBSET Present} :
        /\ b \in UserOps \cap g.buttons
        /\ \A t \in g.selected : Len(stack[t]) < MaxStack /\ (Patient => Quiet(t))}

(* The user selects; selectionChanged is connected to slotUpdateActions.   *)
Select(S) ==
    /\ Keeps /\ S # selected
    /\ Handler(Selecting(S))

(* A radio button that is pressed goes on, and the other two go off. *)
Pressed(g, b) ==
    [g EXCEPT !.buttons = (@ \cup DOMAIN Radios) \ {b}]

ResumeCurrent(g)  == Handler(slotUpdateActions(EachSelected(g, "resume", {})))
PauseCurrent(g)   == Handler(slotUpdateActions(EachSelected(g, "pause", {})))
RestartCurrent(g) == Handler(slotUpdateActions(EachSelected(g, "restart", {})))
DeleteCurrent(g)  == Handler(checkQueue(EachSelected(
    [g EXCEPT !.buttons = @ \ {"delete", "pause"}], "delete", {})))
QueueCurrent(g)   == Handler(slotUpdateActions(EachSelected(Pressed(g, "queue"), "queue", {})))
DelayCurrent(g)   == Handler(EachSelected(Pressed(g, "delay"), "delay", {}))
TimerCurrent(g)   ==
    \E due \in SUBSET {t \in Transfers : mode[t] = "scheduled"} :
        Handler(EachSelected(Pressed(g, "timer"), "timer", due))

(* The transfer timer finds some scheduled transfers due. *)
TransferTimeout ==
    \E due \in SUBSET {t \in Transfers : mode[t] = "scheduled"} :
        due # {} /\ Handler(slotTransferTimeout(Main, due))

(* The offline switch works only while connected. *)
ToggleOfflineMode ==
    /\ b_connected
    /\ LET g == [Main EXCEPT !.offlineMode = ~@]
       IN  Handler(checkQueue(slotUpdateActions(IF Offline(g) THEN stopAll(g) ELSE g)))

CheckConnection ==
    LET g == [Main EXCEPT !.b_connected = ~@]
    IN  Handler(IF g.b_connected THEN checkQueue(g) ELSE stopAll(g))

(* The environment, held back by the bounds. *)
User ==
    /\ Len(events) < MaxEvents
    /\ \/ \E S \in SUBSET Transfers : AddTransfers(S)
       \/ \E S \in SUBSET Present : Select(S)
       \/ \E g \in Windows("resume")  : ResumeCurrent(g)
       \/ \E g \in Windows("pause")   : PauseCurrent(g)
       \/ \E g \in Windows("restart") : RestartCurrent(g)
       \/ \E g \in Windows("delete")  : DeleteCurrent(g)
       \/ \E g \in Windows("queue")   : QueueCurrent(g)
       \/ \E g \in Windows("delay")   : DelayCurrent(g)
       \/ \E g \in Windows("timer")   : TimerCurrent(g)
       \/ /\ "offline" \in UserOps
          /\ \A t \in Transfers : Len(stack[t]) < MaxStack
          /\ (ToggleOfflineMode \/ CheckConnection)

SlaveStep(t) == Worker(t) /\ UNCHANGED kvars
PushStep(t) == OpPush(t) /\ UNCHANGED kvars

Next ==
    \/ User \/ TransferTimeout \/ HandleEvent \/ NextOp \/ Abort \/ Join
    \/ \E t \in Transfers :
          \/ JobConnected(t) \/ JobEnds(t) \/ JobSucceeded(t) \/ JobFailed(t)
          \/ PushStep(t) \/ SlaveStep(t)

Spec == Init /\ [][Next]_vars

(* The two kinds of thread are scheduled and the event loop runs.  Nothing *)
(* forces the user, the network or a job to act.                           *)
Fairness ==
    /\ WF_vars(HandleEvent) /\ WF_vars(NextOp \/ Abort \/ Join)
    /\ \A t \in Transfers :
          /\ WF_vars(PushStep(t)) /\ WF_vars(SlaveStep(t))
          /\ WF_vars(JobSucceeded(t) \/ JobFailed(t))
FairSpec == Spec /\ Fairness

----------------------------------------------------------------------------
(* Types of the main thread's variables (transfer.h). *)
TypeOK ==
    /\ SlaveTypeOK
    /\ status \in [Transfers ->
          {"absent", "gone", "trying", "running", "stopped", "finished"}]
    /\ mode \in [Transfers -> {"queued", "delayed", "scheduled", "none", "new"}]
    /\ retryCount \in [Transfers -> 0..reconnectRetries]
    /\ todo \in Seq([t : Transfers, do : Commands \cup {"abort", "join"}])
    /\ {offlineMode, b_connected} \subseteq BOOLEAN
    /\ selected \subseteq Present
    /\ buttons \subseteq DOMAIN Radios \cup {"resume", "pause", "restart", "delete"}

(* What the list shows is what the slaves do: once no command, event or    *)
(* handler is on its way for a transfer, it is shown trying or running     *)
(* exactly if its slave has a download.                                    *)
StatusAgreesWithJob ==
    crashed = "no" /\ MainIdle /\ todo = <<>> =>
        \A t \in Transfers :
            Quiet(t) => (status[t] \in Active <=> copyjob[t] # "none")

(* Deleting a transfer takes its thread and its download with it: a        *)
(* deleted transfer has neither once the main thread is free ...           *)
DeletedHasNoThread ==
    MainFree => \A t \in Transfers :
                    status[t] = "gone" => ~Running(t) /\ copyjob[t] = "none"

(* ... and no event of a deleted transfer is ever handled. *)
DeletedIsSilent ==
    DeletedHasNoThread /\ crashed # "kmainwidget.cpp:customEvent"

(* checkQueue respects maxSimultaneousConnections: a step that starts a    *)
(* queued transfer leaves at most that many active, the cache look-ups it  *)
(* starts itself not counted.  Only the Resume button starts more.         *)
Starts == {t \in Transfers : status[t] \notin Active /\ status'[t] = "trying"
                                                   /\ mode'[t] = "queued"}
Busy == {t \in Transfers : status'[t] \in Active
                           /\ (status[t] \in Active \/ mode'[t] # "new")}
StartsWithinLimit ==
    [][Starts # {} =>
          \/ Cardinality(Busy) <= maxSimultaneousConnections
          \/ \E g \in Windows("resume") : ResumeCurrent(g)]_vars

(* An attempt is never started while KGet is offline, and a waiting        *)
(* transfer is started online whenever checkQueue runs with room for it:   *)
(* after each answer but NOTINCACHE, REMOVED and the SCHEDULED ones, no    *)
(* queued transfer waits beside a free connection.                         *)
NoIdleConnection ==
    [][HandleEvent /\ crashed' = "no"
          /\ Head(events).kind \in {"SLV_FINISHED", "SLV_PAUSED", "SLV_DELAYED", "SLV_BROKEN",
                                   "SLV_RESUMED", "SLV_CONNECTED"}
       => \/ (b_offline /\ Starts = {})
          \/ NumActive(status') >= maxSimultaneousConnections
          \/ \A t \in Transfers : status'[t] \in {"stopped", "finished"}
                                   => mode'[t] # "queued"]_vars

----------------------------------------------------------------------------
(* What the code asserts, and the program does not do.                      *)

(* assert(!copyjob) before a new job in Slave::run. *)
OneJobAtATime == crashed # "slave.cpp:RETR"
=============================================================================
