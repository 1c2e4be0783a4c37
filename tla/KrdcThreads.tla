---------------------------- MODULE KrdcThreads ----------------------------
(***************************************************************************)
(* The three threads of a VNC connection of krdc (krdc/vnc/threads.cpp,    *)
(* kvncview.cpp, with what sockets.c and rfbproto.c do to them):           *)
(*                                                                         *)
(*  - the controller connects, logs in and then reads the server's         *)
(*    messages;                                                            *)
(*  - the writer sends what the other two have queued for it;              *)
(*  - the GUI thread handles the events they post to the view, asks for    *)
(*    the password, and queues the user's input.                           *)
(*                                                                         *)
(* They share m_quitFlag without a lock, what is to be sent under m_lock,  *)
(* and the password under passwordLock and passwordWaiter.                 *)
(***************************************************************************)
EXTENDS Naturals, Sequences, SequencesExt

CONSTANTS
    MOUSEPRESS_QUEUE_SIZE,
    MOUSEMOVE_QUEUE_SIZE,
    UseWallet    \* whether the host's preferences may ask for the wallet

ASSUME KrdcAssumption ==
    /\ MOUSEMOVE_QUEUE_SIZE \in Nat \ {0}
    /\ MOUSEPRESS_QUEUE_SIZE \in Nat
    /\ MOUSEMOVE_QUEUE_SIZE <= MOUSEPRESS_QUEUE_SIZE
    /\ UseWallet \in BOOLEAN

VARIABLES
    quitFlag,    \* m_quitFlag
    cpc,         \* where ControllerThread::run stands
    inited,      \* m_desktopInitialized
    password,    \* the static password is not null
    wpc,         \* where WriterThread::run stands
    postponed,   \* m_lastIncrUpdatePostponed
    recent,      \* m_lastIncrUpdate.elapsed() < 100
    queue,       \* what m_lock protects; of the input, how many mouse events
                 \* and the last of them
    copy,        \* the writer's local copies of them
    server,      \* what the server has been sent and has not answered
    events,      \* posted to the view
    gui,         \* "loop", in the destructor, or gone
    dialogs,     \* dialogs open, each in a nested event loop
    status,      \* KRemoteView::m_status
    tried,       \* whether the last event it tried to queue had the button pressed
    overrun      \* history: that was dropped from a queue of full length

netVars == <<queue, copy, server, postponed, recent>>
viewVars == <<gui, dialogs, status, tried, overrun>>
vars == <<quitFlag, cpc, inited, password, wpc, postponed, recent, queue, copy,
          server, events, gui, dialogs, status, tried, overrun>>

(* Asking: the controller waits for the answer of the GUI thread.  In the  *)
(* "Posted" states it has posted the question and still holds passwordLock. *)
LoginStates == {"auth", "getPassword", "walletPosted", "wallet", "walletAnswered",
                "passwordPosted", "asking", "answered"}
ControllerStates ==
    LoginStates \cup {"none", "connect", "login", "desktop", "prepare", "start",
                      "messages", "update", "done"}
WriterStates == {"none", "test", "look", "wait", "send", "done"}
Statuses == {"connecting", "authenticating", "preparing", "connected", "disconnected"}
Events == Statuses \cup {"DesktopInit", "WalletOpen", "PasswordRequired", "FatalError"}

TypeOK ==
    /\ quitFlag \in BOOLEAN /\ inited \in BOOLEAN /\ password \in BOOLEAN
    /\ postponed \in BOOLEAN /\ recent \in BOOLEAN /\ overrun \in BOOLEAN
    /\ cpc \in ControllerStates
    /\ wpc \in WriterStates
    /\ queue \in [inc : BOOLEAN, announced : BOOLEAN, region : BOOLEAN,
                  last : BOOLEAN,
                  mouse : 0..MOUSEPRESS_QUEUE_SIZE, num : 0..MOUSEPRESS_QUEUE_SIZE]
    /\ copy \in [inc : BOOLEAN, announced : BOOLEAN, region : BOOLEAN,
                 mouse : BOOLEAN, pressed : BOOLEAN]
    /\ server \in [inc : BOOLEAN, region : BOOLEAN, pressed : BOOLEAN]
    /\ events \in Seq(Events)
    /\ gui \in {"loop", "joinController", "joinWriter", "gone"}
    /\ dialogs \in Seq({"wallet", "password", "error"})
    /\ status \in Statuses
    /\ tried \in BOOLEAN

Nothing == [inc |-> FALSE, announced |-> FALSE, region |-> FALSE, mouse |-> FALSE,
            pressed |-> FALSE]

Init ==
    /\ quitFlag = FALSE
    /\ cpc = "none" /\ wpc = "none"
    /\ inited = FALSE
    /\ password \in BOOLEAN
    /\ postponed = FALSE /\ recent \in BOOLEAN
    /\ tried = FALSE
    /\ queue = [inc |-> FALSE, announced |-> FALSE, region |-> FALSE, mouse |-> 0,
                num |-> 0, last |-> FALSE]
    /\ copy = Nothing
    /\ server = [inc |-> FALSE, region |-> FALSE, pressed |-> FALSE]
    /\ events = <<>>
    /\ gui = "loop" /\ dialogs = <<>>
    /\ status = "disconnected"
    /\ overrun = FALSE

(***************************************************************************)
(* What the threads do to one another.                                     *)
(***************************************************************************)

(* wakeAll of the writer's m_waiter: seen only by a writer that waits.     *)
WakeWriter == wpc' = IF wpc = "wait" THEN "test" ELSE wpc

Post(e) == events' = Append(events, e)

(* sendFatalError of the controller.                                       *)
ControllerFails ==
    /\ cpc' = "done"
    /\ quitFlag' = TRUE
    /\ Post("FatalError")
    /\ WakeWriter
    /\ UNCHANGED <<inited, password, netVars, viewVars>>

(* The controller leaves run with changeStatus(REMOTE_VIEW_DISCONNECTED).  *)
ControllerLeaves ==
    /\ cpc' = "done"
    /\ Post("disconnected")
    /\ UNCHANGED <<quitFlag, inited, password, wpc, netVars, viewVars>>

ControllerGoes(next) ==
    /\ cpc' = next
    /\ UNCHANGED <<quitFlag, inited, password, wpc, netVars, viewVars>>

(***************************************************************************)
(* ControllerThread::run                                                   *)
(***************************************************************************)

Connect ==
    /\ cpc = "connect"
    /\ \/ ControllerFails
       \/ quitFlag /\ ControllerLeaves
       \/ ~quitFlag /\ ControllerGoes("auth") /\ Post("authenticating")

(* InitialiseRFBConnection up to the authentication scheme.  Reading fails *)
(* once the flag is set, or when the server does.                          *)
Handshake ==
    /\ cpc = "auth"
    /\ \/ ControllerFails
       \/ /\ ~quitFlag
          /\ \E next \in {"login", "getPassword"} : ControllerGoes(next)
          /\ UNCHANGED events

(* getPassword: lock passwordLock; if there is no password, post a question *)
(* and wait, which gives the lock up.                                      *)
GetPassword ==
    /\ cpc = "getPassword"
    /\ IF password THEN ControllerGoes("login") /\ UNCHANGED events
       ELSE \/ UseWallet /\ ControllerGoes("walletPosted") /\ Post("WalletOpen")
            \/ ControllerGoes("passwordPosted") /\ Post("PasswordRequired")

WaitForAnswer ==
    /\ \/ cpc = "walletPosted" /\ ControllerGoes("wallet")
       \/ cpc = "passwordPosted" /\ ControllerGoes("asking")
    /\ UNCHANGED events

WalletAnswered ==
    /\ cpc = "walletAnswered"
    /\ IF password THEN ControllerGoes("login") /\ UNCHANGED events
                   ELSE ControllerGoes("passwordPosted") /\ Post("PasswordRequired")

(* No password: the controller calls startQuitting, and INIT_ABORTED makes *)
(* it leave.                                                               *)
PasswordAnswered ==
    /\ cpc = "answered"
    /\ \/ password /\ ControllerGoes("login") /\ UNCHANGED events
       \/ /\ ~password
          /\ cpc' = "done"
          /\ quitFlag' = TRUE
          /\ WakeWriter
          /\ Post("disconnected")
          /\ UNCHANGED <<inited, password, netVars, viewVars>>

(* A condition variable may wake by itself; the wait is not in a loop.     *)
SpuriousWake ==
    /\ \/ cpc = "wallet" /\ ControllerGoes("walletAnswered")
       \/ cpc = "asking" /\ ControllerGoes("answered")
    /\ UNCHANGED events

(* The rest of InitialiseRFBConnection.                                    *)
Login ==
    /\ cpc = "login"
    /\ \/ ControllerFails
       \/ /\ ~quitFlag
          /\ cpc' = "desktop"
          /\ Post("DesktopInit")
          /\ queue' = [queue EXCEPT !.region = TRUE]
          /\ WakeWriter
          /\ UNCHANGED <<quitFlag, inited, password, copy, server, postponed, recent, viewVars>>

(* The wait is timed: a wake-up that is missed costs a second.             *)
AwaitDesktop ==
    /\ cpc = "desktop"
    /\ \/ quitFlag /\ ControllerLeaves
       \/ ~quitFlag /\ inited /\ ControllerGoes("prepare") /\ Post("preparing")

Prepare ==
    /\ cpc = "prepare"
    /\ \/ ControllerFails
       \/ ~quitFlag /\ ControllerGoes("start") /\ Post("connected")

(* A bug: the writer is started before the status is posted.               *)
StartWriterFirst ==
    /\ cpc = "start"
    /\ \/ wpc = "none" /\ wpc' = "test" /\ UNCHANGED <<cpc, events>>
       \/ wpc # "none" /\ cpc' = "messages" /\ Post("connected") /\ UNCHANGED wpc
    /\ UNCHANGED <<quitFlag, inited, password, netVars, viewVars>>

StartWriter ==
    /\ cpc = "start"
    /\ cpc' = "messages"
    /\ wpc' = "test"
    /\ UNCHANGED <<quitFlag, inited, password, netVars, events, viewVars>>

(* An update is sent on a request only.  It announces that a request will  *)
(* follow, and makes it when it has been read.                             *)
UpdateBegins ==
    /\ cpc = "messages" /\ ~quitFlag
    /\ server.inc \/ server.region
    /\ cpc' = "update"
    /\ server' = [server EXCEPT !.inc = FALSE, !.region = FALSE]
    /\ queue' = [queue EXCEPT !.announced = TRUE]
    /\ UNCHANGED <<quitFlag, inited, password, wpc, copy, postponed, recent, events, viewVars>>

queueIncrementalUpdateRequest ==
    /\ queue' = [queue EXCEPT !.inc = TRUE]
    /\ WakeWriter

UpdateEnds ==
    /\ cpc = "update" /\ ~quitFlag
    /\ cpc' = "messages"
    /\ queueIncrementalUpdateRequest
    /\ UNCHANGED <<quitFlag, inited, password, copy, server, postponed, recent, events, viewVars>>

(* HandleRFBServerMessage fails.                                           *)
ConnectionLost ==
    /\ cpc \in {"messages", "update"} /\ ~quitFlag
    /\ ControllerFails

LeaveMessages ==
    /\ cpc \in {"messages", "update"} /\ quitFlag
    /\ cpc' = "done"
    /\ Post("disconnected")
    /\ WakeWriter
    /\ UNCHANGED <<quitFlag, inited, password, netVars, viewVars>>

(* What a controller does that does not wait for the server, and the rest. *)
LocalStep ==
    \/ Connect \/ GetPassword \/ WaitForAnswer \/ WalletAnswered \/ PasswordAnswered
    \/ AwaitDesktop \/ StartWriter \/ LeaveMessages

ServerStep == Handshake \/ Login \/ Prepare \/ UpdateBegins \/ UpdateEnds \/ ConnectionLost

-----------------------------------------------------------------------------
(***************************************************************************)
(* WriterThread::run                                                       *)
(***************************************************************************)

WriterUnchanged == UNCHANGED <<cpc, inited, password, viewVars>>

TestQuit ==
    /\ wpc = "test"
    /\ wpc' = IF quitFlag THEN "done" ELSE "look"
    /\ UNCHANGED <<quitFlag, netVars, events>> /\ WriterUnchanged

NothingToSend == ~queue.inc /\ ~queue.region /\ queue.mouse = 0

(* Under m_lock: wait, or take everything.                                 *)
TakeAll ==
    /\ copy' = [inc |-> queue.inc, announced |-> queue.announced,
                region |-> queue.region, mouse |-> queue.mouse > 0,
                pressed |-> queue.mouse > 0 /\ queue.last]
    /\ queue' = [queue EXCEPT !.inc = FALSE, !.announced = FALSE, !.region = FALSE,
                              !.mouse = 0, !.num = 0]

Look ==
    /\ wpc = "look"
    /\ IF NothingToSend THEN wpc' = "wait" /\ UNCHANGED <<queue, copy>>
                        ELSE wpc' = "send" /\ TakeAll
    /\ UNCHANGED <<quitFlag, server, postponed, recent, events>> /\ WriterUnchanged

(* A bug: the wait just ends.                                              *)
TimeoutOnly ==
    /\ wpc = "wait"
    /\ wpc' = "test"
    /\ UNCHANGED <<quitFlag, queue, copy, server, postponed, recent, events>> /\ WriterUnchanged

(* The wait ends after 8 s, or 110 ms if a request was postponed: the      *)
(* writer then asks for an update by itself.                               *)
Timeout ==
    /\ wpc = "wait"
    /\ queue' = [queue EXCEPT !.inc = TRUE]
    /\ wpc' = "test"
    /\ UNCHANGED <<quitFlag, copy, server, postponed, recent, events>> /\ WriterUnchanged

(* An incremental request goes with whatever is sent, unless one will      *)
(* follow or the last was sent less than 0.1 s ago.                        *)
SendsUpdate == copy.inc \/ (~copy.announced /\ ~recent)

Send ==
    /\ wpc = "send" /\ ~quitFlag
    /\ wpc' = "test"
    /\ postponed' = (~copy.inc /\ ~copy.announced /\ recent)
    /\ recent' = (recent \/ SendsUpdate)
    /\ server' = [inc |-> server.inc \/ SendsUpdate,
                  region |-> server.region \/ copy.region,
                  pressed |-> IF copy.mouse THEN copy.pressed ELSE server.pressed]
    /\ copy' = Nothing
    /\ UNCHANGED <<quitFlag, queue, events>> /\ WriterUnchanged

(* A bug: the error is reported and the flag forgotten.                    *)
SendFailsAlone ==
    /\ wpc = "send"
    /\ wpc' = "done"
    /\ Post("FatalError")
    /\ UNCHANGED <<quitFlag, netVars>> /\ WriterUnchanged

(* WriteExact fails, also because the flag is set: sendFatalError.         *)
SendFails ==
    /\ wpc = "send"
    /\ wpc' = "done"
    /\ quitFlag' = TRUE
    /\ Post("FatalError")
    /\ UNCHANGED netVars /\ WriterUnchanged

(* 0.1 s pass.                                                             *)
Elapse ==
    /\ recent
    /\ recent' = FALSE
    /\ UNCHANGED <<quitFlag, wpc, queue, copy, server, postponed, events>> /\ WriterUnchanged

WriterStep == TestQuit \/ Look \/ Timeout \/ Send \/ SendFails

-----------------------------------------------------------------------------
(***************************************************************************)
(* The GUI thread                                                          *)
(***************************************************************************)

Start ==
    /\ gui = "loop" /\ cpc = "none"
    /\ status' = "connecting"
    /\ cpc' = "connect"
    /\ UNCHANGED <<quitFlag, inited, password, wpc, netVars, events, gui, dialogs, tried, overrun>>

(* customEvent.  A dialog is a nested event loop, in which the events      *)
(* posted meanwhile are handled.                                           *)
customEvent ==
    /\ gui = "loop" /\ events # <<>>
    /\ events' = Tail(events)
    /\ LET e == Head(events) IN
       /\ status' = IF e \in Statuses THEN e
                    ELSE IF e = "FatalError" THEN "disconnected" ELSE status
       /\ inited' = (inited \/ e = "DesktopInit")
       /\ dialogs' = CASE e = "WalletOpen" -> Append(dialogs, "wallet")
                       [] e = "PasswordRequired" -> Append(dialogs, "password")
                       [] e = "FatalError" -> Append(dialogs, "error")
                       [] OTHER -> dialogs
    /\ UNCHANGED <<quitFlag, cpc, password, wpc, netVars, gui, tried, overrun>>

(* The answer is given under passwordLock, "to guarantee that thread is    *)
(* waiting".                                                               *)
(* A bug: the lock is not taken.                                           *)
PasswordLockIgnored == TRUE

PasswordLockFree == cpc \notin {"walletPosted", "passwordPosted"}

WakeController ==
    cpc' = CASE cpc = "wallet" -> "walletAnswered"
             [] cpc = "asking" -> "answered"
             [] OTHER -> cpc

(* The wallet has a password for the host or changes nothing; a refused    *)
(* dialog clears it.                                                       *)
CloseQuestion ==
    /\ gui = "loop" /\ dialogs # <<>> /\ Last(dialogs) \in {"wallet", "password"}
    /\ PasswordLockFree
    /\ password' \in IF Last(dialogs) = "wallet" THEN {password, TRUE} ELSE BOOLEAN
    /\ dialogs' = Front(dialogs)
    /\ WakeController
    /\ UNCHANGED <<quitFlag, inited, wpc, netVars, events, gui, status, tried, overrun>>

CloseError ==
    /\ gui = "loop" /\ dialogs # <<>> /\ Last(dialogs) = "error"
    /\ dialogs' = Front(dialogs)
    /\ UNCHANGED <<quitFlag, cpc, inited, password, wpc, netVars, events, gui, status, tried, overrun>>

(* queueMouseEvent: the lock, the limits, the wake-up.  An event is where  *)
(* the mouse is, the place of the last event or another, and its buttons;  *)
(* one of them is enough, and turning the wheel is a press and a release.  *)
Repeats(moved, pressed) == queue.num > 0 /\ ~moved /\ pressed = queue.last
(* A bug: any event beyond the shorter limit is dropped.                   *)
OverrunsEarly(pressed) == queue.num >= MOUSEMOVE_QUEUE_SIZE
Overruns(pressed) ==
    /\ queue.num > 0
    /\ \/ queue.num >= MOUSEPRESS_QUEUE_SIZE
       \/ queue.num >= MOUSEMOVE_QUEUE_SIZE /\ pressed = queue.last

queueMouseEvent(moved, pressed) ==
    IF Repeats(moved, pressed) \/ Overruns(pressed)
    THEN UNCHANGED <<queue, wpc>>
    ELSE /\ queue' = [queue EXCEPT !.num = @ + 1, !.last = pressed, !.mouse = @ + 1]
         /\ WakeWriter

(* overrun notes that the writer is a full queue behind.                   *)
mouseEvent(moved, pressed) ==
    /\ gui = "loop" /\ dialogs = <<>> /\ status = "connected"
    /\ queueMouseEvent(moved, pressed)
    /\ tried' = pressed
    /\ overrun' = (queue.mouse >= MOUSEPRESS_QUEUE_SIZE)
    /\ UNCHANGED <<quitFlag, cpc, inited, password, copy, server, postponed, recent, events,
                   gui, dialogs, status>>

(* ~KVncView: startQuitting, then the threads are waited for in turn.      *)
Delete ==
    /\ gui = "loop" /\ dialogs = <<>>
    /\ gui' = "joinController"
    /\ quitFlag' = TRUE
    /\ WakeWriter
    /\ UNCHANGED <<cpc, inited, password, netVars, events, dialogs, status, tried, overrun>>

Finished(pc) == pc \in {"none", "done"}

(* A bug: the writer is waited for first.                                  *)
JoinWriterFirst ==
    /\ gui = "joinController" /\ Finished(wpc)
    /\ gui' = "joinWriter"
    /\ UNCHANGED <<quitFlag, cpc, inited, password, wpc, netVars, events, dialogs, status, tried, overrun>>

JoinController ==
    /\ gui = "joinController" /\ Finished(cpc)
    /\ gui' = "joinWriter"
    /\ UNCHANGED <<quitFlag, cpc, inited, password, wpc, netVars, events, dialogs, status, tried, overrun>>

JoinWriter ==
    /\ gui = "joinWriter" /\ Finished(wpc)
    /\ gui' = "gone"
    /\ events' = <<>>
    /\ UNCHANGED <<quitFlag, cpc, inited, password, wpc, netVars, dialogs, status, tried, overrun>>

GuiStep == customEvent \/ CloseQuestion \/ CloseError \/ JoinController \/ JoinWriter

Next ==
    \/ LocalStep \/ ServerStep \/ SpuriousWake
    \/ WriterStep \/ Elapse
    \/ Start \/ GuiStep \/ Delete
    \/ \E moved, pressed \in BOOLEAN : mouseEvent(moved, pressed)

Spec == Init /\ [][Next]_vars

(* The threads are scheduled, time passes, dialogs are closed, connect()    *)
(* returns, and what is written arrives or fails.  The server need not send *)
(* anything, but reading from it ends once the flag is set (select with a   *)
(* timeout of 3 s).  The user may do nothing at all.                        *)
FairSpec ==
    /\ Spec
    /\ WF_vars(LocalStep)
    /\ WF_vars(quitFlag /\ ServerStep)
    /\ WF_vars(WriterStep)
    /\ WF_vars(Elapse)
    /\ WF_vars(GuiStep)

-----------------------------------------------------------------------------
(***************************************************************************)
(* Properties                                                              *)
(***************************************************************************)

(* The destructor waits for the controller before the writer, which the    *)
(* controller may still start: no thread runs on a view that is gone.      *)
NoThreadOutlivesView == gui = "gone" => Finished(cpc) /\ Finished(wpc)

(* Whether the server will see the button pressed once the writer has caught up.  *)
ButtonAfterDrain ==
    IF queue.mouse > 0 THEN queue.last
    ELSE IF copy.mouse THEN copy.pressed
    ELSE server.pressed

(* Events are dropped, compared and sent without losing a press or release: *)
(* unless the writer is a full queue behind, the server will see the       *)
(* buttons as the user holds them.                                         *)
ButtonArrives == ~quitFlag /\ ~overrun => ButtonAfterDrain = tried

(* An error of one thread and the answers of the other race to the view: a *)
(* view that has shown the end of its connection never shows it connected. *)
DisconnectedIsFinal ==
    [][cpc # "none" /\ status = "disconnected" => status' = "disconnected"]_vars

(* While the connection is up, the server always gets another request for  *)
(* an update, whatever the two threads announce to and postpone for each   *)
(* other: the picture never freezes.                                       *)
DisplayIsRefreshed ==
    cpc = "messages" ~> (server.inc \/ quitFlag \/ cpc = "update")

(* When one thread has given up, the other does, and the view shows it.    *)
UserIsTold ==
    (cpc = "done" \/ wpc = "done") ~> ((cpc = "done" /\ status = "disconnected") \/ gui # "loop")

(* The controller may yet wait for an answer to a question.                *)
MayAsk == cpc \in {"auth", "getPassword", "walletPosted", "wallet", "walletAnswered",
                   "passwordPosted", "asking"}

(* Whoever waits without a timeout is not forgotten: the answer to the     *)
(* controller's question is never given before the controller waits for    *)
(* it, and the destructor's joins return unless the controller may yet ask *)
(* what only the thread in the destructor could answer.                    *)
WaitsEnd ==
    /\ cpc = "wallet" ~> (cpc # "wallet" \/ gui # "loop")
    /\ cpc = "asking" ~> (cpc # "asking" \/ gui # "loop")
    /\ (gui = "joinController" /\ ~MayAsk) ~> gui = "gone"
=============================================================================
