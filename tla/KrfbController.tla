-------------------------- MODULE KrfbController ---------------------------
(***************************************************************************)
(* A desktop sharing session of krfb: RFBController (krfb/krfb) and the    *)
(* client it serves through libvncserver.  kinetd starts one process per   *)
(* connection, so there is one client.  Its threads are                    *)
(*                                                                         *)
(*  - the GUI thread: the dialog that asks the user, the tray icon, the     *)
(*    timer whose slot looks for changes on the screen;                    *)
(*  - the listener, which becomes the client's input thread when the       *)
(*    client need not wait for the user, and is started by him otherwise;  *)
(*  - the client's output thread.                                          *)
(*                                                                         *)
(* asyncMutex protects the queue of events and closePending; the list of   *)
(* clients has a mutex; who uses a client counts as a reference to it.     *)
(***************************************************************************)
EXTENDS Naturals, Sequences

CONSTANT MaxQueue     \* bound on asyncQueue

ASSUME KrfbAssumption == MaxQueue \in Nat \ {0}

VARIABLES
    config,       \* auth: a password is needed; ask: askOnConnect, or there
                  \* are invitations; disableBackground
    state,        \* RFBController::state
    timers,       \* "init", "idle" or "none" of initIdleTimer and idleTimer runs
    dialog,       \* the connection dialog is open
    asyncQueue,
    closePending,
    pending,      \* disableBackgroundPending
    background,   \* the desktop has a background: ~disableBackgroundState
    forcedClose,
    control,      \* allowDesktopControl
    gui,          \* where the GUI thread stands, and what it does next
    ended,        \* what the user has been told: "no", "popup" or "quit"
    told,         \* sessionEstablished has been emitted
    cpc,          \* where the listener or input thread stands
    sock,         \* cl->sock # -1
    hooked,       \* the controller's clientGoneHook is set
    inList,       \* rfbClientHead # NULL
    refs,         \* cl->refCount, of the GUI thread
    late,         \* history: the client was referenced after its references
                  \* had been counted
    output,       \* the output thread: "none", "runs" or "done"
    drawn,        \* cursorIsDrawn
    surprise,     \* history: input was executed before told
    exitCall      \* history: the DCOP call exit() was made

controllerVars == <<config, state, timers, dialog, forcedClose, control, ended, told, exitCall>>
asyncVars == <<asyncQueue, closePending, pending, background, surprise>>
clientVars == <<cpc, sock, hooked, inList, refs, late, output, drawn>>
vars == <<controllerVars, asyncVars, gui, clientVars>>

Served == {"version", "auth", "init", "normal"}
(* The stages of marking or sending something for the client.              *)
Marking == {"mark", "deref", "skip", "refer", "release"}
GuiStates == {"loop", "start", "close", "search", "pointer", "check", "exit", "crashed"}
                 \cup Marking

TypeOK ==
    /\ config \in [auth : BOOLEAN, ask : BOOLEAN, disableBackground : BOOLEAN]
    /\ state \in {"waiting", "connecting", "connected"}
    /\ timers \in {"init", "idle", "none"}
    /\ asyncQueue \in Seq({"established", "input"}) /\ Len(asyncQueue) <= MaxQueue
    /\ {dialog, closePending, pending, background, forcedClose, control, told, sock,
        hooked, inList, late, drawn, surprise, exitCall} \subseteq BOOLEAN
    /\ gui \in [pc : GuiStates, next : GuiStates]
    /\ ended \in {"no", "popup", "quit"}
    /\ cpc \in Served \cup {"listen", "insert", "refused", "hold", "closed", "list",
                            "count", "wait", "hook", "gone", "none"}
    /\ refs \in 0..1
    /\ output \in {"none", "runs", "done"}

At(pc) == [pc |-> pc, next |-> pc]

(* After startServer.  Somebody who needs no password was not invited.     *)
Init ==
    /\ config \in [auth : BOOLEAN, ask : BOOLEAN, disableBackground : BOOLEAN]
    /\ state = "waiting" /\ timers = "init"
    /\ dialog = FALSE /\ forcedClose = FALSE /\ control = FALSE
    /\ asyncQueue = <<>> /\ closePending = FALSE
    /\ pending = FALSE /\ background = TRUE
    /\ gui = At("loop") /\ ended = "no" /\ told = FALSE
    /\ cpc = "listen" /\ sock = TRUE /\ hooked = FALSE /\ inList = FALSE
    /\ refs = 0 /\ late = FALSE
    /\ output = "none" /\ drawn = FALSE
    /\ surprise = FALSE /\ exitCall = FALSE

(* Whether the process is there, and what the locks allow.  The GUI thread *)
(* holds the application's lock unless it waits for events; asyncMutex     *)
(* while it looks at the pointer and what that leads to.                   *)
Alive == gui.pc \notin {"exit", "crashed"}
AppLockFree == gui.pc = "loop"
AsyncFree == ~(gui.pc \in Marking /\ gui.next = "check")
(* The input thread holds the lock of the list while it takes the client   *)
(* from it, and until the client is gone.                                  *)
ListFree == cpc \notin {"list", "count", "wait", "hook"}

-----------------------------------------------------------------------------
(***************************************************************************)
(* RFBController, on whichever thread calls it                             *)
(***************************************************************************)

(* connectionAccepted: state is "connecting".                              *)
connectionAccepted(c) ==
    /\ control' = c
    /\ timers' = "idle"
    /\ hooked' = TRUE
    /\ state' = "connected"
    /\ told' = (told \/ ~config.auth)

(* rfbRefuseOnHoldClient and the state.                                    *)
refuse ==
    /\ state' = "waiting"
    /\ sock' = FALSE
    /\ inList' = FALSE
    /\ cpc' = "gone"

(* checkAsyncEvents executes what is queued, then the end of the           *)
(* connection; only if it has not ended, it does what the client wants of  *)
(* the background, unless the user wants it off anyway.                     *)
(* A bug: the last is done in any case.                                    *)
BackgroundAsWanted(closed, shown) ==
    IF config.disableBackground THEN (IF closed THEN TRUE ELSE shown) ELSE ~pending
BackgroundAfter(closed, shown) ==
    IF closed THEN TRUE ELSE IF config.disableBackground THEN shown ELSE ~pending

Establishes == \E i \in DOMAIN asyncQueue : asyncQueue[i] = "established"

(* Input is executed before the user has been told.                        *)
InputTooEarly ==
    /\ ~told
    /\ \E i \in DOMAIN asyncQueue :
          /\ asyncQueue[i] = "input"
          /\ \A j \in 1..(i - 1) : asyncQueue[j] # "established"

checkAsyncEvents ==
    /\ surprise' = (surprise \/ InputTooEarly)
    /\ told' = (told \/ Establishes)
    /\ asyncQueue' = <<>>
    /\ background' = BackgroundAfter(closePending,
                         background /\ ~(Establishes /\ config.disableBackground))
    /\ closePending' = FALSE
    /\ IF closePending
       THEN /\ timers' = "none"
            /\ state' = "waiting"
            /\ ended' = IF forcedClose \/ exitCall THEN "quit" ELSE "popup"
       ELSE UNCHANGED <<timers, state, ended>>
    /\ UNCHANGED pending

-----------------------------------------------------------------------------
(***************************************************************************)
(* The GUI thread                                                          *)
(***************************************************************************)

(* initIdleTimer.                                                          *)
InitTick ==
    /\ gui.pc = "loop" /\ timers = "init"
    /\ checkAsyncEvents
    /\ UNCHANGED <<config, dialog, forcedClose, control, exitCall, gui, clientVars>>

dialogAccepted ==
    /\ gui.pc = "loop" /\ dialog
    /\ dialog' = FALSE
    /\ IF state = "connecting"
       THEN gui' = At("start") /\ \E c \in BOOLEAN : connectionAccepted(c)
       ELSE UNCHANGED <<gui, control, timers, hooked, state, told>>
    /\ UNCHANGED <<config, forcedClose, ended, exitCall, asyncVars,
                   cpc, sock, inList, refs, late, output, drawn>>

StartOnHold ==
    /\ gui.pc = "start"
    /\ gui' = At("loop")
    /\ cpc' = "version" /\ output' = "runs"
    /\ UNCHANGED <<controllerVars, asyncVars, sock, hooked, inList, refs, late, drawn>>

(* The program quits when the user has refused.                            *)
dialogRefused ==
    /\ gui.pc = "loop" /\ dialog
    /\ dialog' = FALSE
    /\ IF state = "connecting" THEN refuse ELSE UNCHANGED <<state, sock, inList, cpc>>
    /\ ended' = "quit"
    /\ UNCHANGED <<config, timers, forcedClose, control, told, exitCall, asyncVars, gui,
                   hooked, refs, late, output, drawn>>

enableDesktopControl ==
    /\ gui.pc = "loop"
    /\ control' = ~control
    /\ UNCHANGED <<config, state, timers, dialog, forcedClose, ended, told, exitCall,
                   asyncVars, gui, clientVars>>

(* closeConnection, for the tray icon's Quit or, with quit(), for exit().  *)
(* The background comes back, and may go again with what is queued.        *)
closeConnection ==
    /\ gui.pc = "loop" /\ ended # "quit"
    /\ forcedClose' = TRUE
    /\ exitCall' \in {exitCall, TRUE}
    /\ CASE state = "connected" ->
              /\ surprise' = (surprise \/ InputTooEarly)
              /\ told' = (told \/ Establishes)
              /\ asyncQueue' = <<>>
              /\ closePending' = FALSE
              /\ background' = BackgroundAfter(closePending,
                                   ~(Establishes /\ config.disableBackground))
              /\ IF closePending
                 THEN /\ timers' = "none" /\ state' = "waiting" /\ ended' = "quit"
                      /\ UNCHANGED gui
                 ELSE /\ gui' = At("close")
                      /\ UNCHANGED <<timers, state, ended>>
              /\ UNCHANGED <<pending, sock, inList, cpc>>
         [] state = "connecting" ->
              /\ refuse
              /\ ended' = IF exitCall' THEN "quit" ELSE ended
              /\ UNCHANGED <<timers, told, asyncVars, gui>>
         [] OTHER ->
              /\ ended' = IF exitCall' THEN "quit" ELSE ended
              /\ UNCHANGED <<state, timers, told, asyncVars, gui, sock, inList, cpc>>
    /\ UNCHANGED <<config, dialog, control, hooked, refs, late, output, drawn>>

(* A bug: the client is closed when its end is noted.                      *)
CloseClientIfPending ==
    /\ gui.pc = "close"
    /\ gui' = At("loop")
    /\ sock' = (sock /\ ~closePending)
    /\ ended' = IF exitCall THEN "quit" ELSE ended
    /\ UNCHANGED <<config, state, timers, dialog, forcedClose, control, told, exitCall,
                   asyncVars, cpc, hooked, inList, refs, late, output, drawn>>

(* Its second half: the client is closed unless its end is already noted.  *)
(* Without a client in the list, rfbCloseClient gets a null pointer.       *)
CloseClient ==
    /\ gui.pc = "close"
    /\ IF closePending THEN gui' = At("loop") /\ UNCHANGED sock
       ELSE IF inList THEN gui' = At("loop") /\ sock' = FALSE
       ELSE gui' = At("crashed") /\ UNCHANGED sock
    /\ ended' = IF exitCall THEN "quit" ELSE ended
    /\ UNCHANGED <<config, state, timers, dialog, forcedClose, control, told, exitCall,
                   asyncVars, cpc, hooked, inList, refs, late, output, drawn>>

(* rfbUndrawCursor has something to mark if the cursor is drawn.           *)
Mark(next) == gui' = [pc |-> "mark", next |-> next]

(* idleSlot.                                                               *)
IdleTick ==
    /\ gui.pc = "loop" /\ timers = "idle" /\ state = "connected"
    /\ checkAsyncEvents
    /\ IF closePending \/ forcedClose THEN UNCHANGED <<gui, drawn>>
       ELSE IF drawn THEN Mark("search") /\ drawn' = FALSE
       ELSE gui' = At("search") /\ UNCHANGED drawn
    /\ UNCHANGED <<config, dialog, forcedClose, control, exitCall,
                   cpc, sock, hooked, inList, refs, late, output>>

(* searchUpdates: something has changed, or not.                           *)
searchUpdates ==
    /\ gui.pc = "search"
    /\ Mark("pointer") \/ gui' = At("pointer")
    /\ UNCHANGED <<controllerVars, asyncVars, clientVars>>

(* defaultPtrAddEvent, under asyncMutex, unless the client's end is noted: *)
(* the head of the list is used.  If the pointer has moved the cursor,     *)
(* which may be drawn again by now, is taken away.                         *)
PtrAddEvent ==
    /\ gui.pc = "pointer"
    /\ IF closePending THEN gui' = At("check") /\ UNCHANGED drawn
       ELSE IF ~inList THEN gui' = At("crashed") /\ UNCHANGED drawn
       ELSE \/ gui' = At("check") /\ UNCHANGED drawn
            \/ drawn /\ Mark("check") /\ drawn' = FALSE
    /\ UNCHANGED <<controllerVars, asyncVars, cpc, sock, hooked, inList, refs, late, output>>

CheckAgain ==
    /\ gui.pc = "check"
    /\ gui' = At("loop")
    /\ checkAsyncEvents
    /\ UNCHANGED <<config, dialog, forcedClose, control, exitCall, clientVars>>

(* clipboardChanged and selectionChanged send the text to the client.      *)
clipboardChanged ==
    /\ gui.pc = "loop" /\ state = "connected"
    /\ Mark("loop")
    /\ UNCHANGED <<controllerVars, asyncVars, clientVars>>

(* rfbMarkRegionAsModified and rfbSendServerCutText: the head of the list   *)
(* is read under the lock of the list.                                     *)
Head_ ==
    /\ gui.pc = "mark" /\ ListFree
    /\ gui' = IF inList THEN [gui EXCEPT !.pc = "deref"] ELSE At(gui.next)
    /\ UNCHANGED <<controllerVars, asyncVars, clientVars>>

(* From here on there is no lock: the client may be freed before each look  *)
(* at it, until it is referenced, and after if its references have been    *)
(* counted already.  Its socket is looked at,                              *)
Deref ==
    /\ gui.pc = "deref"
    /\ gui' = IF cpc = "gone" THEN At("crashed")
              ELSE [gui EXCEPT !.pc = IF sock THEN "refer" ELSE "skip"]
    /\ UNCHANGED <<controllerVars, asyncVars, clientVars>>

(* then, if it is closed, which client comes next,                         *)
Skip ==
    /\ gui.pc = "skip"
    /\ gui' = At(IF cpc = "gone" THEN "crashed" ELSE gui.next)
    /\ UNCHANGED <<controllerVars, asyncVars, clientVars>>

(* and if it is open rfbIncrClientRef refers to it.                        *)
Refer ==
    /\ gui.pc = "refer"
    /\ IF cpc = "gone" THEN gui' = At("crashed") /\ UNCHANGED <<refs, late>>
       ELSE /\ gui' = [gui EXCEPT !.pc = "release"]
            /\ refs' = refs + 1
            /\ late' = (cpc = "hook")
    /\ UNCHANGED <<controllerVars, asyncVars, cpc, sock, hooked, inList, output, drawn>>

(* The client is used.  rfbDecrClientRef wakes who waits for the last       *)
(* reference to go.  To send the text may have failed.                     *)
Release ==
    /\ gui.pc = "release"
    /\ IF cpc = "gone" THEN gui' = At("crashed") /\ UNCHANGED <<refs, cpc, sock>>
       ELSE /\ gui' = At(gui.next)
            /\ refs' = refs - 1
            /\ cpc' = IF cpc = "wait" THEN "hook" ELSE cpc
            /\ sock' \in IF gui.next = "loop" THEN {sock, FALSE} ELSE {sock}
    /\ UNCHANGED <<controllerVars, asyncVars, hooked, inList, late, output, drawn>>

(* The message that the session has ended is gone.                         *)
PopupHidden ==
    /\ gui.pc = "loop" /\ ended = "popup"
    /\ ended' = "quit"
    /\ UNCHANGED <<config, state, timers, dialog, forcedClose, control, told, exitCall,
                   asyncVars, gui, clientVars>>

(* stopServer, which looks for clients in the list, and the process ends.  *)
Quit ==
    /\ gui.pc = "loop" /\ ended = "quit" /\ ListFree
    /\ gui' = At("exit")
    /\ UNCHANGED <<controllerVars, asyncVars, clientVars>>

GuiStep ==
    \/ InitTick \/ StartOnHold \/ CloseClient \/ IdleTick \/ searchUpdates
    \/ PtrAddEvent \/ CheckAgain \/ Head_ \/ Deref \/ Skip \/ Refer \/ Release
    \/ PopupHidden \/ Quit

UserStep ==
    \/ dialogAccepted \/ dialogRefused \/ enableDesktopControl \/ closeConnection
    \/ clipboardChanged

-----------------------------------------------------------------------------
(***************************************************************************)
(* The listener and the input thread                                       *)
(***************************************************************************)

ClientGoes(pc) ==
    /\ cpc' = pc
    /\ UNCHANGED <<controllerVars, asyncVars, gui, hooked, inList, refs, late, drawn>>

(* rfbNewClient: the client is in the list, then it is written to.         *)
NewClient ==
    /\ cpc = "listen"
    /\ inList' = TRUE
    /\ \/ cpc' = "insert" /\ UNCHANGED sock
       \/ cpc' = "refused" /\ sock' = FALSE
    /\ UNCHANGED <<controllerVars, asyncVars, gui, hooked, refs, late, output, drawn>>

(* handleNewClient, under the application's lock.                          *)
handleNewClient ==
    /\ cpc = "insert" /\ AppLockFree
    /\ IF config.ask
       THEN /\ state' = "connecting"
            /\ dialog' = TRUE
            /\ cpc' = "hold"
            /\ UNCHANGED <<control, timers, hooked, told, output>>
       ELSE /\ \E c \in BOOLEAN : connectionAccepted(c)
            /\ cpc' = "version" /\ output' = "runs"
            /\ UNCHANGED dialog
    /\ UNCHANGED <<config, forcedClose, ended, exitCall, asyncVars, gui, sock, inList,
                   refs, late, drawn>>

handleClientGone ==
    /\ AsyncFree
    /\ closePending' = TRUE
    /\ UNCHANGED <<controllerVars, asyncQueue, pending, background, surprise, gui,
                   sock, hooked, inList, refs, late, output, drawn>>

inetdDisconnectHook ==
    /\ cpc = "refused"
    /\ cpc' = "none"
    /\ handleClientGone

(* rfbProcessClientMessage, on a socket that may close at any time.        *)
Fails ==
    /\ cpc \in Served
    /\ sock' = FALSE
    /\ ClientGoes("closed")
    /\ UNCHANGED output

Version ==
    /\ cpc = "version" /\ sock
    /\ ClientGoes(IF config.auth THEN "auth" ELSE "init")
    /\ UNCHANGED <<sock, output>>

(* handleCheckPassword, under the application's lock.                      *)
(* A bug: the user is told later.                                          *)
checkPasswordOnly ==
    /\ cpc = "auth" /\ sock /\ AppLockFree
    /\ ClientGoes("init")
    /\ UNCHANGED <<sock, output>>

handleCheckPassword ==
    /\ cpc = "auth" /\ sock /\ AppLockFree /\ AsyncFree
    /\ Len(asyncQueue) < MaxQueue
    /\ cpc' = "init"
    /\ asyncQueue' = Append(asyncQueue, "established")
    /\ UNCHANGED <<controllerVars, closePending, pending, background, surprise, gui,
                   sock, hooked, inList, refs, late, output, drawn>>

ClientInit ==
    /\ cpc = "init" /\ sock
    /\ ClientGoes("normal")
    /\ UNCHANGED <<sock, output>>

(* handleNegotiationFinished.                                              *)
SetEncodings ==
    /\ cpc = "normal" /\ sock /\ AsyncFree
    /\ pending' \in BOOLEAN
    /\ UNCHANGED <<controllerVars, asyncQueue, closePending, background, surprise, gui,
                   clientVars>>

(* handleKeyEvent, handlePointerEvent, clipboardToServer.                  *)
Input ==
    /\ cpc = "normal" /\ sock /\ control /\ AsyncFree
    /\ Len(asyncQueue) < MaxQueue
    /\ asyncQueue' = Append(asyncQueue, "input")
    /\ UNCHANGED <<controllerVars, closePending, pending, background, surprise, gui,
                   clientVars>>

(* The loop of clientInput ends.                                           *)
LeaveLoop ==
    /\ cpc \in Served /\ ~sock
    /\ ClientGoes("closed")
    /\ UNCHANGED <<sock, output>>

(* The output thread is joined; rfbClientConnectionGone locks the list,     *)
(* takes the client from it and looks for references.                      *)
TakeFromList ==
    /\ cpc = "closed" /\ output = "done"
    /\ cpc' = "list"
    /\ inList' = FALSE
    /\ UNCHANGED <<controllerVars, asyncVars, gui, sock, hooked, refs, late, output, drawn>>

(* A bug: nobody looks for references.                                     *)
CountNone ==
    /\ cpc = "list"
    /\ ClientGoes("hook")
    /\ UNCHANGED <<sock, output>>

Count ==
    /\ cpc = "list"
    /\ ClientGoes(IF refs > 0 THEN "count" ELSE "hook")
    /\ UNCHANGED <<sock, output>>

(* refCountMutex is not held from the count to the wait.                   *)
Wait ==
    /\ cpc = "count"
    /\ ClientGoes("wait")
    /\ UNCHANGED <<sock, output>>

(* clientGoneHook; the client is freed and the lock of the list released.  *)
Gone ==
    /\ cpc = "hook"
    /\ cpc' = "gone"
    /\ IF hooked THEN handleClientGone
       ELSE UNCHANGED <<controllerVars, asyncVars, gui, sock, hooked, inList, refs, late,
                        output, drawn>>

ClientRuns ==
    \/ NewClient \/ handleNewClient \/ inetdDisconnectHook \/ LeaveLoop
    \/ TakeFromList \/ Count \/ Wait \/ Gone

Peer ==
    \/ Fails \/ Version \/ handleCheckPassword \/ ClientInit \/ SetEncodings \/ Input

(* The output thread draws the cursor for a client that cannot, closes it   *)
(* when it cannot write, and leaves when it is closed.  To take the cursor  *)
(* away has the cursor's mutex.                                            *)
CursorFree == ~(gui.pc \in Marking /\ gui.next \in {"search", "check"})

DrawCursor ==
    /\ output = "runs" /\ CursorFree
    /\ drawn' = TRUE
    /\ UNCHANGED <<controllerVars, asyncVars, gui, cpc, sock, hooked, inList, refs, late, output>>

OutputFails ==
    /\ output = "runs"
    /\ sock' = FALSE
    /\ UNCHANGED <<controllerVars, asyncVars, gui, cpc, hooked, inList, refs, late, output, drawn>>

OutputLeaves ==
    /\ output = "runs" /\ ~sock
    /\ output' = "done"
    /\ UNCHANGED <<controllerVars, asyncVars, gui, cpc, sock, hooked, inList, refs, late, drawn>>

Next ==
    /\ Alive
    /\ \/ GuiStep \/ UserStep
       \/ ClientRuns \/ Peer
       \/ DrawCursor \/ OutputFails \/ OutputLeaves

Spec == Init /\ [][Next]_vars

(* The threads are scheduled and the timers fire; the popup goes away by    *)
(* itself.  Neither the user nor the client need do anything.  The slot of  *)
(* the timer and the handling of the socket each go on though the others   *)
(* have much to do.                                                        *)
FairSpec ==
    /\ Spec
    /\ WF_vars(Alive /\ GuiStep)
    /\ SF_vars(Alive /\ (InitTick \/ IdleTick))
    /\ SF_vars(Alive /\ (PopupHidden \/ Quit))
    /\ SF_vars(Alive /\ ClientRuns)
    /\ WF_vars(Alive /\ OutputLeaves)

-----------------------------------------------------------------------------
(***************************************************************************)
(* Properties                                                              *)
(***************************************************************************)

(* What the locks allow and the code does not exclude: GUI thread and input *)
(* thread wait for each other's lock; the wake-up came before the wait; the *)
(* GUI thread used a client that was not there.                            *)
Inverted == ~AsyncFree /\ gui.pc = "mark" /\ cpc = "hook"
WakeUpLost == cpc \in {"count", "wait"} /\ refs = 0
Crashed == gui.pc = "crashed"

(* rfb.h: "whenever a client is referenced, the refCount has to be          *)
(* incremented ... so that the client is not cleaned up while being         *)
(* referenced."  It is not so of a client that is found in the list and    *)
(* referenced after the input thread has counted.                          *)
NoUseAfterFree == refs > 0 => cpc # "gone"

(* So it is for a reference that the input thread could count: from then on *)
(* the client is kept until the GUI thread, which marks changes for it and  *)
(* sends it the clipboard, has released it.                                *)
ReferenceKeepsClient == ~late => NoUseAfterFree

(* Nothing the client does is done before the user has been told of it,    *)
(* though input and the news reach the GUI thread from another.            *)
UserIsToldFirst == ~surprise

(* However the client's wishes, the queue, the end of the connection and    *)
(* the user's quitting are ordered, the desktop has its background again   *)
(* when the program ends; unless exit() ends it, which does not wait.      *)
BackgroundRestored == gui.pc = "exit" /\ ~exitCall => background

(* The end of a client that is served, or never was, is noticed, and the    *)
(* program ends; so it does when the user quits while a client is          *)
(* connected, whether that is closed then or was about to leave.           *)
SessionEnds ==
    cpc \in {"closed", "refused"} \/ gui.pc = "close" \/ ended = "quit"
        ~> (gui.pc = "exit" \/ Inverted \/ WakeUpLost \/ Crashed)
=============================================================================
