------------------------------ MODULE KpppDial ------------------------------
(***************************************************************************)
(* kppp dials (kppp/connect.cpp), and its main widget (kpppwidget.cpp)     *)
(* begins and ends connections.  What needs privileges is done by a second *)
(* process, the opener (opener.cpp): it holds the modem's tty open, starts *)
(* pppd and passes its death on as a SIGUSR1.  A request to the opener is  *)
(* waited for; its signal comes at any time and is handled as an event.    *)
(*                                                                         *)
(* An action is an event of the one thread.  Where the code runs the event *)
(* loop inside a handler, the handler is a frame on nest and other events  *)
(* come in between.                                                        *)
(***************************************************************************)
EXTENDS Naturals, Sequences, SequencesExt

CONSTANTS
    NumInitStrings,
    Configs,      \* automatic_redial, modemLockFile and the login script
    MaxNest,      \* bound: the user acts in nested event loops up to here
    MaxSignals    \* bound on SIGUSR1s that wait to be handled

(* What a command of a script does: send something, expect or scan what the *)
(* peer sends, pause, or let the peer call back.                           *)
Commands == {"Send", "Expect", "Scan", "Pause", "Answer"}

ASSUME KpppAssumption ==
    /\ NumInitStrings \in Nat \ {0}
    /\ Configs \subseteq [redial : BOOLEAN, lock : BOOLEAN, script : Seq(Commands)]
    /\ MaxNest \in Nat /\ MaxSignals \in Nat \ {0}

VARIABLES
    config,      \* which does not change
    shown,       \* windows: the main one, ConnectWidget, ConWindow or its icon
    nest,        \* handlers that run the event loop, the innermost last
    timers,      \* that run; "lost" is a main timer whose id is forgotten
    dial,        \* ConnectWidget's members
    modem,       \* modemfd, modem_is_locked, the opener's ttyfd; the line
    pppd,        \* none, up, or told to end
    died,        \* SIGUSR1s to be handled
    running,     \* gpppdata.pppdRunning()
    error,       \* gpppdata.pppdError()
    astray       \* history: what the code does not guard against has happened

vars == <<config, shown, nest, timers, dial, modem, pppd, died, running, error, astray>>
pppdVars == <<pppd, died, running, error>>

Timers == {"init", "main", "lost", "timeout", "pause", "if", "ifTimeout", "disconnect"}
Frames == {"pre", "open", "hung", "cancel", "disconnect", "box"}

TypeOK ==
    /\ config \in Configs
    /\ shown \subseteq {"main", "con", "conwin"}
    /\ nest \in Seq(Frames)
    /\ timers \subseteq Timers
    /\ dial \in [vmain : {0, 1, 2, 3, 4, 5, 10, 20, 100, 101, 150},
                 substate : 0 .. NumInitStrings, expecting : BOOLEAN,
                 scanning : BOOLEAN, index : Nat, semaphore : BOOLEAN]
    /\ modem \in [tty : BOOLEAN, locked : BOOLEAN, ttyfd : BOOLEAN,
                  line : {"down", "calling", "up"}]
    /\ pppd \in {"none", "up", "ending"}
    /\ died \in 0 .. MaxSignals
    /\ running \in BOOLEAN
    /\ error \in {"none", "died", "timeout"}
    /\ astray \subseteq {"hurried", "twice", "mistaken", "unheard", "refused"}

Init ==
    /\ config \in Configs
    /\ shown = {"main"}
    /\ nest = <<>>
    /\ timers = {}
    /\ dial = [vmain |-> 0, substate |-> 0, expecting |-> FALSE, scanning |-> FALSE,
               index |-> 0, semaphore |-> FALSE]
    /\ modem = [tty |-> FALSE, locked |-> FALSE, ttyfd |-> FALSE, line |-> "down"]
    /\ pppd = "none" /\ died = 0
    /\ running = FALSE /\ error = "none"
    /\ astray = {}

-----------------------------------------------------------------------------
(***************************************************************************)
(* The modem                                                               *)
(***************************************************************************)

(* A bug: the lock is removed, and the descriptor stays open.              *)
unlockOnly(m) == [m EXCEPT !.locked = FALSE]

(* unlockdevice: the opener removes the lock and closes its descriptor.    *)
unlockdevice(m) == IF m.locked THEN [m EXCEPT !.locked = FALSE, !.ttyfd = FALSE] ELSE m

(* hangup does nothing on a tty that has been closed.                      *)
hangup(m) == IF m.tty THEN [m EXCEPT !.line = "down"] ELSE m

closetty(m) == [m EXCEPT !.tty = FALSE]

(* The line goes down when nobody has the tty open.                        *)
Settled(m, p) ==
    IF m.tty \/ m.ttyfd \/ p # "none" THEN m ELSE [m EXCEPT !.line = "down"]

-----------------------------------------------------------------------------
(***************************************************************************)
(* Requests to the opener                                                  *)
(***************************************************************************)

(* A bug: only the signal is sent.                                         *)
killWithoutNote ==
    /\ running' = running
    /\ pppd' = IF pppd = "up" THEN "ending" ELSE pppd

killPPPDaemon ==
    /\ running' = FALSE
    /\ pppd' = IF pppd = "up" THEN "ending" ELSE pppd

(* execPPPDaemon: fails if the opener has no tty, or cannot fork; otherwise *)
(* it closes the tty.  A pppd that ends before its pid is stored dies       *)
(* unheard.                                                                *)
execPPPDaemon ==
    /\ modem.ttyfd
    /\ running' = TRUE
    /\ \/ pppd' = "up" /\ astray' = astray \ {"unheard", "mistaken"}
       \/ pppd' = "none" /\ astray' = (astray \ {"mistaken"}) \cup {"unheard"}

-----------------------------------------------------------------------------
(***************************************************************************)
(* Beginning                                                               *)
(***************************************************************************)

(* What is under way when a connection begins, though it has been cancelled *)
(* or is about to end: it will go on afterwards.                           *)
UnderWay ==
    \/ nest # <<>>
    \/ "conwin" \in shown
    \/ timers \cap {"init", "main", "lost", "if", "disconnect"} # {}
    \/ running \/ error # "none"

(* beginConnect, preinit.  (Bound: what a hurried beginning has left under  *)
(* way is left to end before the user begins again.)                       *)
beginConnect(windows) ==
    /\ shown' = (windows \ {"main"}) \cup {"con"}
    /\ timers' = timers \cup {"init"}

Connect ==
    /\ "main" \in shown /\ Len(nest) < MaxNest
    /\ \A i \in DOMAIN nest : nest[i] # "box"
    /\ "twice" \in astray => ~UnderWay
    /\ beginConnect(shown)
    /\ astray' = (astray \ {"hurried", "twice", "refused"})
                   \cup (IF UnderWay THEN {"hurried", "twice"} ELSE {})
    /\ UNCHANGED <<config, nest, dial, modem, pppdVars>>

(* init: all is reset, and the pre-startup command is waited for.          *)
init ==
    /\ "init" \in timers
    /\ timers' = timers \ {"init", "pause"}
    /\ dial' = [dial EXCEPT !.vmain = 0, !.substate = 0, !.expecting = FALSE,
                            !.scanning = FALSE, !.index = 0]
    /\ error' = "none"
    /\ nest' = Append(nest, "pre")
    /\ UNCHANGED <<config, shown, modem, pppd, died, running, astray>>

(* Then the modem is locked and opened.  It may be locked by another       *)
(* program.                                                                *)
InitOpen ==
    /\ nest # <<>> /\ Last(nest) = "pre"
    /\ \/ /\ config.lock
          /\ nest' = Front(nest)
          /\ dial' = [dial EXCEPT !.vmain = 20]
          /\ UNCHANGED modem
       \/ /\ ~modem.locked
          /\ nest' = Append(Front(nest), "open")
          /\ modem' = [modem EXCEPT !.locked = config.lock, !.tty = TRUE, !.ttyfd = TRUE]
          /\ UNCHANGED dial
       \/ /\ ~modem.locked
          /\ nest' = Front(nest)
          /\ dial' = [dial EXCEPT !.vmain = 20]
          /\ \E o \in BOOLEAN :
                modem' = Settled(unlockdevice([modem EXCEPT !.locked = config.lock,
                                                 !.tty = FALSE, !.ttyfd = o]), pppd)
    /\ UNCHANGED <<config, shown, timers, pppdVars, astray>>

InitHangup ==
    /\ nest # <<>> /\ Last(nest) = "open"
    /\ IF modem.tty
       THEN /\ nest' = Append(Front(nest), "hung")
            /\ modem' = hangup(modem)
            /\ UNCHANGED dial
       ELSE /\ nest' = Front(nest)
            /\ modem' = Settled(unlockdevice(modem), pppd)
            /\ dial' = [dial EXCEPT !.vmain = 20]
    /\ UNCHANGED <<config, shown, timers, pppdVars, astray>>

InitEnds ==
    /\ nest # <<>> /\ Last(nest) = "hung"
    /\ nest' = Front(nest)
    /\ dial' = [dial EXCEPT !.semaphore = FALSE]
    /\ timers' = timers \cup {"timeout", "main"}
                        \cup (IF "main" \in timers THEN {"lost"} ELSE {})
    /\ UNCHANGED <<config, shown, modem, pppdVars, astray>>

-----------------------------------------------------------------------------
(***************************************************************************)
(* Dialling: timerEvent, by vmain                                          *)
(***************************************************************************)

At(v) ==
    /\ timers \cap {"main", "lost"} # {} /\ "pause" \notin timers
    /\ ~dial.semaphore /\ dial.vmain = v

DialUnchanged == UNCHANGED <<config, shown, nest, pppdVars, astray>>

(* Commands to the modem that are answered with OK; what is configured as   *)
(* empty is not sent.                                                      *)
Ask(asked, d) == dial' = [d EXCEPT !.expecting = asked \/ @]

SendInitString ==
    /\ At(0)
    /\ \E asked \in BOOLEAN, next \in {3, 5} :
          Ask(asked, [dial EXCEPT !.substate = @ + 1, !.vmain = next])
    /\ UNCHANGED <<timers, modem>> /\ DialUnchanged

SetToneDuration ==
    /\ At(5)
    /\ Ask(TRUE, [dial EXCEPT !.vmain = 3])
    /\ UNCHANGED <<timers, modem>> /\ DialUnchanged

SetVolume ==
    /\ At(3) /\ ~dial.expecting
    /\ IF dial.substate < NumInitStrings THEN dial' = [dial EXCEPT !.vmain = 0]
       ELSE \E asked \in BOOLEAN : Ask(asked, [dial EXCEPT !.substate = 0, !.vmain = 4])
    /\ UNCHANGED <<timers, modem>> /\ DialUnchanged

SetDialTone ==
    /\ At(4) /\ ~dial.expecting
    /\ \E asked \in BOOLEAN : Ask(asked, [dial EXCEPT !.vmain = 1])
    /\ UNCHANGED <<timers, modem>> /\ DialUnchanged

(* A bug: the time is left running from the start.                         *)
DialUntimed ==
    /\ At(1) /\ ~dial.expecting
    /\ dial' = [dial EXCEPT !.expecting = TRUE, !.vmain = 100]
    /\ modem' = IF modem.tty THEN [modem EXCEPT !.line = "calling"] ELSE modem
    /\ UNCHANGED timers /\ DialUnchanged

Dial ==
    /\ At(1) /\ ~dial.expecting
    /\ timers' = timers \cup {"timeout"}
    /\ dial' = [dial EXCEPT !.expecting = TRUE, !.vmain = 100]
    /\ modem' = IF modem.tty THEN [modem EXCEPT !.line = "calling"] ELSE modem
    /\ DialUnchanged

AwaitNewline ==
    /\ At(100) /\ ~dial.expecting
    /\ dial' = [dial EXCEPT !.expecting = TRUE, !.vmain = 101]
    /\ UNCHANGED <<timers, modem>> /\ DialUnchanged

(* The modem says BUSY, or NO CARRIER and that is to be tried again.  While *)
(* it waits nothing else is timed.                                         *)
Busy ==
    /\ At(100) /\ dial.expecting /\ modem.line = "calling"
    /\ timers' \in {timers \cup {"timeout"}, (timers \ {"timeout"}) \cup {"pause"}}
    /\ dial' = [dial EXCEPT !.vmain = 0, !.substate = 0]
    /\ modem' = [modem EXCEPT !.line = "down"]
    /\ DialUnchanged

(* NO DIALTONE, NO CARRIER, or the line is not an analogous one.           *)
NoCarrier ==
    /\ At(100) /\ dial.expecting /\ modem.line = "calling"
    /\ timers' = timers \ {"timeout"}
    /\ dial' = [dial EXCEPT !.vmain = 20]
    /\ modem' = unlockdevice([modem EXCEPT !.line = "down"])
    /\ DialUnchanged

Connected ==
    /\ At(101) /\ ~dial.expecting
    /\ dial' = [dial EXCEPT !.vmain = 2]
    /\ UNCHANGED <<timers, modem>> /\ DialUnchanged

(* A command of the script.                                                *)
RunScript ==
    /\ At(2) /\ ~dial.expecting /\ ~dial.scanning
    /\ UNCHANGED modem /\ DialUnchanged
    /\ IF dial.index = Len(config.script)
       THEN dial' = [dial EXCEPT !.vmain = 10] /\ timers' = timers \cup {"timeout"}
       ELSE LET c == config.script[dial.index + 1] IN
            /\ dial' = [dial EXCEPT !.vmain = IF c = "Answer" THEN 150 ELSE 2,
                                    !.index = IF c = "Answer" THEN @ ELSE @ + 1,
                                    !.expecting = c \in {"Expect", "Answer"},
                                    !.scanning = c = "Scan"]
            /\ timers' = CASE c = "Pause" -> (timers \ {"timeout"}) \cup {"pause"}
                           [] c = "Answer" -> timers \ {"timeout"}
                           [] OTHER -> timers \cup {"timeout"}

(* The modem rings: it is told to answer.                                  *)
Answer ==
    /\ At(150) /\ ~dial.expecting
    /\ dial' = [dial EXCEPT !.expecting = TRUE, !.vmain = 2, !.index = @ + 1]
    /\ modem' = IF modem.tty THEN [modem EXCEPT !.line = "calling"] ELSE modem
    /\ UNCHANGED timers /\ DialUnchanged

(* pppd is started; if_waiting_slot is called next.  If that fails, the    *)
(* command for the modem comes after its tty is closed.                    *)
StartPPPD ==
    /\ At(10) /\ ~dial.expecting
    /\ dial' = [dial EXCEPT !.semaphore = TRUE]
    /\ \/ /\ execPPPDaemon
          /\ modem' = Settled([closetty(modem) EXCEPT !.ttyfd = FALSE], pppd')
          /\ timers' = (timers \ {"timeout", "main"}) \cup {"if", "ifTimeout"}
          /\ UNCHANGED shown
       \/ /\ modem' = Settled(unlockdevice(hangup(closetty(modem))), pppd)
          /\ timers' = timers \ {"timeout", "main", "ifTimeout"}
          /\ shown' = (shown \ {"con"}) \cup {"main"}
          /\ UNCHANGED <<running, pppd, astray>>
    /\ UNCHANGED <<config, nest, died, error>>

timerEvent ==
    \/ SendInitString \/ SetToneDuration \/ SetVolume \/ SetDialTone \/ Dial
    \/ AwaitNewline \/ Busy \/ NoCarrier \/ Connected \/ RunScript \/ Answer \/ StartPPPD

(* readChar: what was expected, or scanned for, has come.                  *)
readChar ==
    /\ "main" \in timers /\ modem.tty /\ ~dial.semaphore
    /\ \/ /\ dial.expecting /\ (dial.vmain = 100 => modem.line = "calling")
          /\ dial' = [dial EXCEPT !.expecting = FALSE]
          /\ modem' = IF modem.line = "calling" THEN [modem EXCEPT !.line = "up"] ELSE modem
       \/ /\ dial.scanning
          /\ dial' = [dial EXCEPT !.scanning = FALSE]
          /\ UNCHANGED modem
    /\ UNCHANGED timers /\ DialUnchanged

pause ==
    /\ "pause" \in timers
    /\ timers' = timers \ {"pause"}
    /\ UNCHANGED <<dial, modem>> /\ DialUnchanged

(* The modem is dialled again, or nothing is waited for any more.          *)
script_timed_out ==
    /\ "timeout" \in timers
    /\ IF dial.vmain = 20
       THEN timers' = timers \ {"timeout"} /\ UNCHANGED <<dial, modem>>
       ELSE /\ dial' = [dial EXCEPT !.vmain = 0, !.substate = 0]
            /\ modem' = hangup(modem)
            /\ UNCHANGED timers
    /\ DialUnchanged

(* The peer hangs up.                                                      *)
HangsUp ==
    /\ modem.line = "up"
    /\ modem' = [modem EXCEPT !.line = "down"]
    /\ UNCHANGED <<timers, dial>> /\ DialUnchanged

-----------------------------------------------------------------------------
(***************************************************************************)
(* Ending                                                                  *)
(***************************************************************************)

(* cancelbutton: the button, the window's close box, or SIGINT.  What has   *)
(* begun a connection and has not finished goes on afterwards.             *)
Cancel ==
    /\ "con" \in shown /\ Len(nest) < MaxNest
    /\ timers' = timers \ {"main", "timeout", "if", "ifTimeout"}
    /\ nest' = Append(nest, "cancel")
    /\ astray' = IF "init" \in timers \/ Range(nest) \cap {"pre", "open", "hung"} # {}
                 THEN astray \cup {"hurried"} ELSE astray
    /\ UNCHANGED <<config, shown, dial, modem, pppdVars>>

CancelEnds ==
    /\ nest # <<>> /\ Last(nest) = "cancel"
    /\ nest' = Front(nest)
    /\ killPPPDaemon
    /\ modem' = Settled(unlockdevice(closetty(hangup(modem))), pppd)
    /\ shown' = (shown \ {"con"}) \cup {"main"}
    /\ UNCHANGED <<config, timers, dial, died, error, astray>>

(* disconnect: the button of ConWindow, or SIGINT.                         *)
disconnect ==
    /\ "conwin" \in shown \/ (running /\ "con" \notin shown)
    /\ "disconnect" \notin timers /\ Len(nest) < MaxNest
    /\ shown' = (shown \ {"conwin"}) \cup {"con"}
    /\ nest' = Append(nest, "disconnect")
    /\ UNCHANGED <<config, timers, dial, modem, pppdVars, astray>>

DisconnectEnds ==
    /\ nest # <<>> /\ Last(nest) = "disconnect"
    /\ nest' = Front(nest)
    /\ timers' = timers \cup {"disconnect"}
    /\ UNCHANGED <<config, shown, dial, modem, pppdVars, astray>>

delayedDisconnect ==
    /\ "disconnect" \in timers
    /\ timers' = timers \ {"disconnect"}
    /\ killPPPDaemon
    /\ modem' = Settled(unlockdevice(modem), pppd)
    /\ shown' = {"main"}
    /\ UNCHANGED <<config, nest, dial, died, error, astray>>

-----------------------------------------------------------------------------
(***************************************************************************)
(* Logging on, and the end of pppd                                         *)
(***************************************************************************)

(* The network interface is up, which takes a pppd.                        *)
InterfaceUp ==
    /\ "if" \in timers /\ pppd # "none"
    /\ timers' = timers \ {"if", "ifTimeout"}
    /\ shown' = (shown \ {"con"}) \cup {"conwin"}
    /\ modem' = closetty(modem)
    /\ UNCHANGED <<config, nest, dial, pppdVars, astray>>

(* It is not, and will not be.                                             *)
InterfaceFails ==
    /\ "if" \in timers /\ error # "none"
    /\ timers' = timers \ {"if", "ifTimeout"}
    /\ UNCHANGED <<config, shown, nest, dial, modem, pppdVars, astray>>

if_waiting_slot == InterfaceUp \/ InterfaceFails

if_waiting_timed_out ==
    /\ "ifTimeout" \in timers
    /\ timers' = timers \ {"if", "ifTimeout"}
    /\ error' = "timeout"
    /\ killPPPDaemon
    /\ UNCHANGED <<config, shown, nest, dial, modem, died, astray>>

(* The opener hears of it, and sends SIGUSR1.                              *)
PppdDies ==
    /\ pppd # "none" /\ died < MaxSignals
    /\ pppd' = "none" /\ died' = died + 1
    /\ modem' = Settled(modem, "none")
    /\ astray' = astray \ {"mistaken"}
    /\ UNCHANGED <<config, shown, nest, timers, dial, running, error>>

(* A bug: only a pppd that is believed to run is missed.                   *)
DiedRunning == running

(* It was not killed by cancelling or disconnecting.                       *)
DiedUnasked == running \/ error # "none"

Told ==
    /\ shown' = {"main"}
    /\ timers' = timers \ {"disconnect", "if", "ifTimeout"}
    /\ nest' = Append(nest, "box")
    /\ error' = IF error = "none" THEN "died" ELSE error

Again ==
    /\ error' = "none"
    /\ UNCHANGED nest
    /\ LET left == shown \ {"conwin"}
           stopped == timers \ {"disconnect", "if", "ifTimeout"} IN
       \/ /\ shown' = (left \ {"main"}) \cup {"con"}
          /\ timers' = stopped \cup {"init"}
       \/ shown' = left /\ timers' = stopped

(* The signal does not say whose pppd died: that of an earlier connection   *)
(* is mistaken for the present one.                                        *)
sigPPPDDied ==
    /\ died > 0
    /\ died' = died - 1
    /\ UNCHANGED <<config, dial, pppd>>
    /\ IF DiedUnasked
       THEN /\ running' = FALSE
            /\ modem' = Settled(unlockdevice(modem), pppd)
            /\ IF config.redial THEN Again ELSE Told
            /\ astray' = astray
                  \cup (IF running /\ pppd = "up" THEN {"mistaken"} ELSE {})
                  \cup (IF config.redial /\ ("init" \notin timers' \/ "con" \notin shown')
                        THEN {"refused"} ELSE {})
                  \cup (IF "init" \in timers'
                         /\ (nest # <<>> \/ timers \cap {"init", "main", "lost"} # {})
                        THEN {"hurried"} ELSE {})
       ELSE /\ error' = "none"
            /\ UNCHANGED <<shown, nest, timers, modem, running, astray>>

CloseBox ==
    /\ nest # <<>> /\ Last(nest) = "box"
    /\ nest' = Front(nest)
    /\ error' = "none"
    /\ UNCHANGED <<config, shown, timers, dial, modem, pppd, died, running, astray>>

-----------------------------------------------------------------------------
FrameEnds ==
    InitOpen \/ InitHangup \/ InitEnds \/ CancelEnds \/ DisconnectEnds \/ CloseBox

Next ==
    \/ Connect \/ init \/ InitOpen \/ InitHangup \/ InitEnds
    \/ timerEvent \/ readChar \/ pause \/ script_timed_out \/ HangsUp
    \/ Cancel \/ CancelEnds \/ disconnect \/ DisconnectEnds \/ delayedDisconnect
    \/ if_waiting_slot \/ if_waiting_timed_out
    \/ PppdDies \/ sigPPPDDied \/ CloseBox

Spec == Init /\ [][Next]_vars

(* Timers fire, signals are delivered, a pppd that was told to end ends,    *)
(* commands that are waited for end, and the user closes the message box.  *)
Fairness ==
    /\ WF_vars(init) /\ WF_vars(FrameEnds)
    /\ WF_vars(if_waiting_timed_out) /\ WF_vars(delayedDisconnect)
    /\ WF_vars(pppd = "ending" /\ PppdDies) /\ WF_vars(sigPPPDDied)

FairSpec == Spec /\ Fairness

-----------------------------------------------------------------------------
(***************************************************************************)
(* Properties                                                              *)
(***************************************************************************)

(* While kppp dials or logs on there is a window to cancel it.             *)
DialIsShown ==
    timers \cap {"init", "main", "if"} # {} => "con" \in shown \/ "hurried" \in astray

(* What is expected from a peer is not expected for ever, other than the   *)
(* ring a script has asked to wait for.                                    *)
Ringing ==
    dial.index > 0 /\ dial.vmain = 2 /\ config.script[dial.index] = "Answer"

DialIsTimed ==
    /\ "main" \in timers /\ "pause" \notin timers
    /\ dial.expecting \/ dial.scanning
    /\ dial.vmain \in {100, 101} \/ (dial.vmain = 2 /\ ~Ringing)
    => "timeout" \in timers

WindowIsShown == shown # {} \/ "refused" \in astray

(* Whoever is waited for, there is a window to stop it from and a timer     *)
(* that stops it.                                                          *)
DialIsGuarded == DialIsShown /\ DialIsTimed /\ WindowIsShown

(* pppdRunning() says whether a pppd runs that nobody has told to end, up   *)
(* to a signal that has not been handled yet.                              *)
PppdIsKnown ==
    /\ pppd = "up" => running \/ "mistaken" \in astray
    /\ running => pppd = "up" \/ died > 0 \/ "unheard" \in astray

(* With a lock file the phone line is never left up with neither kppp nor   *)
(* a pppd on it: cancelling, failures and the ends of pppd close the        *)
(* opener's descriptor as well.                                            *)
LineIsAttended ==
    config.lock /\ "hurried" \notin astray /\ modem.line # "down"
    => modem.tty \/ pppd # "none"

(* Logging on comes to an end the user sees: the connection, the main       *)
(* window, or another attempt.                                             *)
LogOnEnds ==
    {"if", "ifTimeout"} \cap timers # {} \/ error = "timeout"
    ~> shown \cap {"conwin", "main"} # {} \/ "init" \in timers
       \/ astray \cap {"unheard", "refused", "hurried"} # {}
=============================================================================
