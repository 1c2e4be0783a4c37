------------------------ MODULE KrfbController_proofs ------------------------
(***************************************************************************)
(* Theorems about a desktop sharing session, for queues of any length.     *)
(*                                                                         *)
(* Three invariants that need one another little: who holds a reference to *)
(* the client while where it stands still allows that; what the user has   *)
(* been told, or will be told by what is queued, of input that is queued   *)
(* behind; and how far a session has come when the program may end.        *)
(***************************************************************************)
EXTENDS KrfbController, SequenceTheorems, TLAPS

Events == {"established", "input"}
ClientStates == Served \cup {"listen", "insert", "refused", "hold", "closed", "list",
                             "count", "wait", "hook", "gone", "none"}

(* The types, of one variable at a time; and what the GUI thread goes on    *)
(* with after it has marked something.                                     *)
ControllerTypes ==
    /\ config \in [auth : BOOLEAN, ask : BOOLEAN, disableBackground : BOOLEAN]
    /\ state \in {"waiting", "connecting", "connected"}
    /\ timers \in {"init", "idle", "none"}
    /\ ended \in {"no", "popup", "quit"}
    /\ dialog \in BOOLEAN /\ forcedClose \in BOOLEAN /\ control \in BOOLEAN
    /\ told \in BOOLEAN /\ exitCall \in BOOLEAN

AsyncTypes ==
    /\ asyncQueue \in Seq(Events) /\ Len(asyncQueue) <= MaxQueue
    /\ closePending \in BOOLEAN /\ pending \in BOOLEAN
    /\ background \in BOOLEAN /\ surprise \in BOOLEAN

GuiTypes ==
    /\ gui \in [pc : GuiStates, next : GuiStates]
    /\ gui.pc \in Marking =>
          gui.next \in {"search", "pointer", "check", "loop"}

ClientTypes ==
    /\ cpc \in ClientStates
    /\ sock \in BOOLEAN /\ hooked \in BOOLEAN /\ inList \in BOOLEAN /\ drawn \in BOOLEAN
    /\ refs \in 0..1 /\ late \in BOOLEAN
    /\ output \in {"none", "runs", "done"}

Typed == ControllerTypes /\ AsyncTypes /\ GuiTypes /\ ClientTypes

(* The GUI thread refers to the client while it uses it; the socket is      *)
(* closed before the client leaves the list; and a reference that was not   *)
(* late has been counted, or is still to be.                               *)
RefInv ==
    /\ gui.pc = "release" => refs = 1
    /\ gui.pc \notin {"release", "crashed"} => refs = 0
    /\ sock => cpc \in Served \cup {"listen", "insert", "hold"}
    /\ refs > 0 /\ ~late => cpc \notin {"hook", "gone"}

(* Nobody sends input before he is let in, and whoever is let in has told   *)
(* the user, or has queued the news.                                       *)
TellInv ==
    /\ ~surprise
    /\ ~InputTooEarly
    /\ cpc \in {"init", "normal"} => told \/ Establishes
    /\ cpc = "auth" => config.auth
    /\ cpc \in {"version", "init", "normal"} => told \/ config.auth
    /\ gui.pc = "start" => told \/ config.auth

(* How state, timers, dialog and client belong together.                   *)
PhaseInv ==
    /\ (timers = "idle") = (state = "connected")
    /\ dialog => timers = "init" /\ ~closePending /\ cpc \in {"hold", "gone"}
    /\ timers = "idle" => cpc \notin {"listen", "insert", "refused"}
    /\ state = "connecting" => cpc = "hold" /\ timers = "init"
    /\ gui.pc = "start" => cpc = "hold" /\ timers = "idle"
    /\ closePending \/ timers = "none" => cpc \in {"gone", "none"}

(* The background is there before the session and after it.                *)
BackInv ==
    /\ timers = "init" =>
          /\ background /\ ~pending /\ asyncQueue = <<>>
          /\ cpc \in {"listen", "insert", "refused", "hold", "gone", "none"}
    /\ ended # "no" /\ ~exitCall =>
          /\ background /\ state = "waiting"
          /\ gui.pc \in {"loop", "exit"}
          /\ cpc \notin {"listen", "insert"}
    /\ gui.pc = "exit" => ended = "quit"

KrfbInv == Typed /\ RefInv /\ TellInv /\ PhaseInv /\ BackInv
(* An empty queue holds neither news nor input.                            *)
LEMMA NothingQueued ==
  ASSUME asyncQueue = <<>>
  PROVE  ~InputTooEarly /\ ~Establishes
  BY DEF InputTooEarly, Establishes

(* The same of the queue a step leaves.                                    *)
LEMMA NothingQueuedNext ==
  ASSUME asyncQueue' = <<>>
  PROVE  ~InputTooEarly' /\ ~Establishes'
  BY DEF InputTooEarly, Establishes

(* The types of what the GUI thread keeps.                                 *)
LEMMA ControllerStep ==
  ASSUME ControllerTypes, [Next]_vars
  PROVE  ControllerTypes'
  <1> USE DEF ControllerTypes, vars, controllerVars, asyncVars, clientVars
  <1>1. CASE InitTick
    BY <1>1 DEF InitTick, checkAsyncEvents
  <1>2. CASE StartOnHold
    BY <1>2 DEF StartOnHold
  <1>3. CASE CloseClient
    BY <1>3 DEF CloseClient
  <1>4. CASE IdleTick
    BY <1>4 DEF IdleTick, checkAsyncEvents, Mark
  <1>5. CASE searchUpdates
    BY <1>5 DEF searchUpdates, Mark
  <1>6. CASE PtrAddEvent
    BY <1>6 DEF PtrAddEvent, Mark
  <1>7. CASE CheckAgain
    BY <1>7 DEF CheckAgain, checkAsyncEvents
  <1>8. CASE Head_
    BY <1>8 DEF Head_
  <1>9. CASE Deref
    BY <1>9 DEF Deref
  <1>36. CASE Skip
    BY <1>36 DEF Skip
  <1>37. CASE Refer
    <2>1. CASE cpc = "gone"
      BY <1>37, <2>1 DEF Refer, At
    <2>2. CASE cpc # "gone"
      BY <1>37, <2>2 DEF Refer
    <2> QED
      BY <2>1, <2>2
  <1>10. CASE Release
    <2>1. CASE cpc = "gone"
      BY <1>10, <2>1 DEF Release, At
    <2>2. CASE cpc # "gone"
      BY <1>10, <2>2 DEF Release, At
    <2> QED
      BY <2>1, <2>2
  <1>11. CASE PopupHidden
    BY <1>11 DEF PopupHidden
  <1>12. CASE Quit
    BY <1>12 DEF Quit
  <1>13. CASE dialogAccepted
    BY <1>13 DEF dialogAccepted, connectionAccepted
  <1>14. CASE dialogRefused
    BY <1>14 DEF dialogRefused, refuse
  <1>15. CASE enableDesktopControl
    BY <1>15 DEF enableDesktopControl
  <1>16. CASE closeConnection
    <2>1. CASE state = "connected" /\ closePending
      BY <1>16, <2>1 DEF closeConnection, BackgroundAfter
    <2>2. CASE state = "connected" /\ ~closePending
      BY <1>16, <2>2 DEF closeConnection, BackgroundAfter
    <2>3. CASE state = "connecting"
      BY <1>16, <2>3 DEF closeConnection, refuse
    <2>4. CASE state = "waiting"
      BY <1>16, <2>4 DEF closeConnection
    <2> QED
      BY <2>1, <2>2, <2>3, <2>4
  <1>17. CASE clipboardChanged
    BY <1>17 DEF clipboardChanged, Mark
  <1>18. CASE NewClient
    BY <1>18 DEF NewClient
  <1>19. CASE handleNewClient
    BY <1>19 DEF handleNewClient, connectionAccepted
  <1>20. CASE inetdDisconnectHook
    BY <1>20 DEF inetdDisconnectHook, handleClientGone
  <1>21. CASE LeaveLoop
    BY <1>21 DEF LeaveLoop, ClientGoes
  <1>22. CASE TakeFromList
    BY <1>22 DEF TakeFromList
  <1>23. CASE Count
    BY <1>23 DEF Count, ClientGoes
  <1>24. CASE Wait
    BY <1>24 DEF Wait, ClientGoes
  <1>25. CASE Gone
    BY <1>25 DEF Gone, handleClientGone
  <1>26. CASE Fails
    BY <1>26 DEF Fails, ClientGoes
  <1>27. CASE Version
    BY <1>27 DEF Version, ClientGoes
  <1>28. CASE handleCheckPassword
    BY <1>28 DEF handleCheckPassword
  <1>29. CASE ClientInit
    BY <1>29 DEF ClientInit, ClientGoes
  <1>30. CASE SetEncodings
    BY <1>30 DEF SetEncodings
  <1>31. CASE Input
    BY <1>31 DEF Input
  <1>32. CASE DrawCursor
    BY <1>32 DEF DrawCursor
  <1>33. CASE OutputFails
    BY <1>33 DEF OutputFails
  <1>34. CASE OutputLeaves
    BY <1>34 DEF OutputLeaves
  <1>35. CASE UNCHANGED vars
    BY <1>35
  <1> QED
    BY <1>1, <1>2, <1>3, <1>4, <1>5, <1>6, <1>7, <1>8, <1>9, <1>10, <1>11,
       <1>12, <1>13, <1>14, <1>15, <1>16, <1>17, <1>18, <1>19, <1>20, <1>21,
       <1>22, <1>23, <1>24, <1>25, <1>26, <1>27, <1>28, <1>29, <1>30, <1>31,
       <1>32, <1>33, <1>34, <1>35, <1>36, <1>37
    DEF Next, GuiStep, UserStep, ClientRuns, Peer

(* The types of what asyncMutex protects; events are only put into a queue that *)
(* has room.                                                               *)
LEMMA AsyncStep ==
  ASSUME ControllerTypes, AsyncTypes, [Next]_vars
  PROVE  AsyncTypes'
  <1> USE DEF ControllerTypes, AsyncTypes, Events, vars, controllerVars,
              asyncVars, clientVars
  <1>1. CASE InitTick
    <2>1. asyncQueue' = <<>>
      BY <1>1 DEF InitTick, checkAsyncEvents
    <2>2. asyncQueue' \in Seq(Events) /\ Len(asyncQueue') <= MaxQueue
      BY <2>1, KrfbAssumption, EmptySeq
    <2>3. closePending' \in BOOLEAN /\ pending' \in BOOLEAN /\ background' \in BOOLEAN
          /\ surprise' \in BOOLEAN
      BY <1>1 DEF InitTick, checkAsyncEvents, BackgroundAfter, InputTooEarly
    <2> QED
      BY <2>2, <2>3
  <1>2. CASE StartOnHold
    BY <1>2 DEF StartOnHold
  <1>3. CASE CloseClient
    BY <1>3 DEF CloseClient
  <1>4. CASE IdleTick
    <2>1. asyncQueue' = <<>>
      BY <1>4 DEF IdleTick, checkAsyncEvents
    <2>2. asyncQueue' \in Seq(Events) /\ Len(asyncQueue') <= MaxQueue
      BY <2>1, KrfbAssumption, EmptySeq
    <2>3. closePending' \in BOOLEAN /\ pending' \in BOOLEAN /\ background' \in BOOLEAN
          /\ surprise' \in BOOLEAN
      BY <1>4 DEF IdleTick, checkAsyncEvents, BackgroundAfter, InputTooEarly
    <2> QED
      BY <2>2, <2>3
  <1>5. CASE searchUpdates
    BY <1>5 DEF searchUpdates, Mark
  <1>6. CASE PtrAddEvent
    BY <1>6 DEF PtrAddEvent, Mark
  <1>7. CASE CheckAgain
    <2>1. asyncQueue' = <<>>
      BY <1>7 DEF CheckAgain, checkAsyncEvents
    <2>2. asyncQueue' \in Seq(Events) /\ Len(asyncQueue') <= MaxQueue
      BY <2>1, KrfbAssumption, EmptySeq
    <2>3. closePending' \in BOOLEAN /\ pending' \in BOOLEAN /\ background' \in BOOLEAN
          /\ surprise' \in BOOLEAN
      BY <1>7 DEF CheckAgain, checkAsyncEvents, BackgroundAfter, InputTooEarly
    <2> QED
      BY <2>2, <2>3
  <1>8. CASE Head_
    BY <1>8 DEF Head_
  <1>9. CASE Deref
    BY <1>9 DEF Deref
  <1>36. CASE Skip
    BY <1>36 DEF Skip
  <1>37. CASE Refer
    <2>1. CASE cpc = "gone"
      BY <1>37, <2>1 DEF Refer, At
    <2>2. CASE cpc # "gone"
      BY <1>37, <2>2 DEF Refer
    <2> QED
      BY <2>1, <2>2
  <1>10. CASE Release
    <2>1. CASE cpc = "gone"
      BY <1>10, <2>1 DEF Release, At
    <2>2. CASE cpc # "gone"
      BY <1>10, <2>2 DEF Release, At
    <2> QED
      BY <2>1, <2>2
  <1>11. CASE PopupHidden
    BY <1>11 DEF PopupHidden
  <1>12. CASE Quit
    BY <1>12 DEF Quit
  <1>13. CASE dialogAccepted
    BY <1>13 DEF dialogAccepted, connectionAccepted
  <1>14. CASE dialogRefused
    BY <1>14 DEF dialogRefused, refuse
  <1>15. CASE enableDesktopControl
    BY <1>15 DEF enableDesktopControl
  <1>16. CASE closeConnection
    <2>1. CASE state = "connected"
      <3>1. asyncQueue' = <<>>
        BY <1>16, <2>1 DEF closeConnection
      <3>2. asyncQueue' \in Seq(Events) /\ Len(asyncQueue') <= MaxQueue
        BY <3>1, KrfbAssumption, EmptySeq
      <3>3. surprise' \in BOOLEAN
        BY <1>16, <2>1 DEF closeConnection, InputTooEarly
      <3>4. background' \in BOOLEAN
        BY <1>16, <2>1 DEF closeConnection, BackgroundAfter
      <3>5. closePending' = FALSE /\ pending' = pending
        BY <1>16, <2>1 DEF closeConnection
      <3> QED
        BY <3>2, <3>3, <3>4, <3>5
    <2>2. CASE state # "connected"
      BY <1>16, <2>2 DEF closeConnection
    <2> QED
      BY <2>1, <2>2
  <1>17. CASE clipboardChanged
    BY <1>17 DEF clipboardChanged, Mark
  <1>18. CASE NewClient
    BY <1>18 DEF NewClient
  <1>19. CASE handleNewClient
    BY <1>19 DEF handleNewClient, connectionAccepted
  <1>20. CASE inetdDisconnectHook
    BY <1>20 DEF inetdDisconnectHook, handleClientGone
  <1>21. CASE LeaveLoop
    BY <1>21 DEF LeaveLoop, ClientGoes
  <1>22. CASE TakeFromList
    BY <1>22 DEF TakeFromList
  <1>23. CASE Count
    BY <1>23 DEF Count, ClientGoes
  <1>24. CASE Wait
    BY <1>24 DEF Wait, ClientGoes
  <1>25. CASE Gone
    BY <1>25 DEF Gone, handleClientGone
  <1>26. CASE Fails
    BY <1>26 DEF Fails, ClientGoes
  <1>27. CASE Version
    BY <1>27 DEF Version, ClientGoes
  <1>28. CASE handleCheckPassword
    <2>1. asyncQueue' \in Seq(Events) /\ Len(asyncQueue') = Len(asyncQueue) + 1
      BY <1>28, AppendProperties DEF handleCheckPassword
    <2> QED
      BY <1>28, <2>1, KrfbAssumption DEF handleCheckPassword
  <1>29. CASE ClientInit
    BY <1>29 DEF ClientInit, ClientGoes
  <1>30. CASE SetEncodings
    BY <1>30 DEF SetEncodings
  <1>31. CASE Input
    <2>1. asyncQueue' \in Seq(Events) /\ Len(asyncQueue') = Len(asyncQueue) + 1
      BY <1>31, AppendProperties DEF Input
    <2> QED
      BY <1>31, <2>1, KrfbAssumption DEF Input
  <1>32. CASE DrawCursor
    BY <1>32 DEF DrawCursor
  <1>33. CASE OutputFails
    BY <1>33 DEF OutputFails
  <1>34. CASE OutputLeaves
    BY <1>34 DEF OutputLeaves
  <1>35. CASE UNCHANGED vars
    BY <1>35
  <1> QED
    BY <1>1, <1>2, <1>3, <1>4, <1>5, <1>6, <1>7, <1>8, <1>9, <1>10, <1>11,
       <1>12, <1>13, <1>14, <1>15, <1>16, <1>17, <1>18, <1>19, <1>20, <1>21,
       <1>22, <1>23, <1>24, <1>25, <1>26, <1>27, <1>28, <1>29, <1>30, <1>31,
       <1>32, <1>33, <1>34, <1>35, <1>36, <1>37
    DEF Next, GuiStep, UserStep, ClientRuns, Peer

(* The types of where the GUI thread stands.                               *)
LEMMA GuiPlaceStep ==
  ASSUME ControllerTypes, GuiTypes, [Next]_vars
  PROVE  GuiTypes'
  <1> USE DEF ControllerTypes, GuiTypes, GuiStates, Marking, At, vars, controllerVars,
              asyncVars, clientVars
  <1>1. CASE InitTick
    BY <1>1 DEF InitTick, checkAsyncEvents
  <1>2. CASE StartOnHold
    BY <1>2 DEF StartOnHold
  <1>3. CASE CloseClient
    BY <1>3 DEF CloseClient
  <1>4. CASE IdleTick
    BY <1>4 DEF IdleTick, checkAsyncEvents, Mark
  <1>5. CASE searchUpdates
    BY <1>5 DEF searchUpdates, Mark
  <1>6. CASE PtrAddEvent
    BY <1>6 DEF PtrAddEvent, Mark
  <1>7. CASE CheckAgain
    BY <1>7 DEF CheckAgain, checkAsyncEvents
  <1>8. CASE Head_
    BY <1>8 DEF Head_
  <1>9. CASE Deref
    BY <1>9 DEF Deref
  <1>36. CASE Skip
    BY <1>36 DEF Skip
  <1>37. CASE Refer
    <2>1. CASE cpc = "gone"
      BY <1>37, <2>1 DEF Refer, At
    <2>2. CASE cpc # "gone"
      BY <1>37, <2>2 DEF Refer
    <2> QED
      BY <2>1, <2>2
  <1>10. CASE Release
    <2>1. CASE cpc = "gone"
      BY <1>10, <2>1 DEF Release, At
    <2>2. CASE cpc # "gone"
      BY <1>10, <2>2 DEF Release, At
    <2> QED
      BY <2>1, <2>2
  <1>11. CASE PopupHidden
    BY <1>11 DEF PopupHidden
  <1>12. CASE Quit
    BY <1>12 DEF Quit
  <1>13. CASE dialogAccepted
    BY <1>13 DEF dialogAccepted, connectionAccepted
  <1>14. CASE dialogRefused
    BY <1>14 DEF dialogRefused, refuse
  <1>15. CASE enableDesktopControl
    BY <1>15 DEF enableDesktopControl
  <1>16. CASE closeConnection
    <2>1. CASE state = "connected" /\ closePending
      BY <1>16, <2>1 DEF closeConnection, BackgroundAfter
    <2>2. CASE state = "connected" /\ ~closePending
      BY <1>16, <2>2 DEF closeConnection, BackgroundAfter
    <2>3. CASE state = "connecting"
      BY <1>16, <2>3 DEF closeConnection, refuse
    <2>4. CASE state = "waiting"
      BY <1>16, <2>4 DEF closeConnection
    <2> QED
      BY <2>1, <2>2, <2>3, <2>4 DEF ControllerTypes
  <1>17. CASE clipboardChanged
    BY <1>17 DEF clipboardChanged, Mark
  <1>18. CASE NewClient
    BY <1>18 DEF NewClient
  <1>19. CASE handleNewClient
    BY <1>19 DEF handleNewClient, connectionAccepted, AppLockFree
  <1>20. CASE inetdDisconnectHook
    BY <1>20 DEF inetdDisconnectHook, handleClientGone
  <1>21. CASE LeaveLoop
    BY <1>21 DEF LeaveLoop, ClientGoes
  <1>22. CASE TakeFromList
    BY <1>22 DEF TakeFromList
  <1>23. CASE Count
    BY <1>23 DEF Count, ClientGoes
  <1>24. CASE Wait
    BY <1>24 DEF Wait, ClientGoes
  <1>25. CASE Gone
    BY <1>25 DEF Gone, handleClientGone
  <1>26. CASE Fails
    BY <1>26 DEF Fails, ClientGoes
  <1>27. CASE Version
    BY <1>27 DEF Version, ClientGoes
  <1>28. CASE handleCheckPassword
    BY <1>28 DEF handleCheckPassword, AppLockFree
  <1>29. CASE ClientInit
    BY <1>29 DEF ClientInit, ClientGoes
  <1>30. CASE SetEncodings
    BY <1>30 DEF SetEncodings
  <1>31. CASE Input
    BY <1>31 DEF Input
  <1>32. CASE DrawCursor
    BY <1>32 DEF DrawCursor
  <1>33. CASE OutputFails
    BY <1>33 DEF OutputFails
  <1>34. CASE OutputLeaves
    BY <1>34 DEF OutputLeaves
  <1>35. CASE UNCHANGED vars
    BY <1>35
  <1> QED
    BY <1>1, <1>2, <1>3, <1>4, <1>5, <1>6, <1>7, <1>8, <1>9, <1>10, <1>11,
       <1>12, <1>13, <1>14, <1>15, <1>16, <1>17, <1>18, <1>19, <1>20, <1>21,
       <1>22, <1>23, <1>24, <1>25, <1>26, <1>27, <1>28, <1>29, <1>30, <1>31,
       <1>32, <1>33, <1>34, <1>35, <1>36, <1>37
    DEF Next, GuiStep, UserStep, ClientRuns, Peer

(* The types of what is kept of the client.                                *)
LEMMA ClientStep ==
  ASSUME GuiTypes, ClientTypes, RefInv, [Next]_vars
  PROVE  ClientTypes'
  <1> USE DEF GuiTypes, ClientTypes, RefInv, ClientStates, Served, Marking, vars,
              controllerVars, asyncVars, clientVars
  <1>1. CASE InitTick
    BY <1>1 DEF InitTick, checkAsyncEvents
  <1>2. CASE StartOnHold
    BY <1>2 DEF StartOnHold
  <1>3. CASE CloseClient
    BY <1>3 DEF CloseClient
  <1>4. CASE IdleTick
    BY <1>4 DEF IdleTick, checkAsyncEvents, Mark
  <1>5. CASE searchUpdates
    BY <1>5 DEF searchUpdates, Mark
  <1>6. CASE PtrAddEvent
    BY <1>6 DEF PtrAddEvent, Mark
  <1>7. CASE CheckAgain
    BY <1>7 DEF CheckAgain, checkAsyncEvents
  <1>8. CASE Head_
    BY <1>8 DEF Head_
  <1>9. CASE Deref
    BY <1>9 DEF Deref
  <1>36. CASE Skip
    BY <1>36 DEF Skip
  <1>37. CASE Refer
    <2>1. CASE cpc = "gone"
      BY <1>37, <2>1 DEF Refer, At
    <2>2. CASE cpc # "gone"
      BY <1>37, <2>2 DEF Refer
    <2> QED
      BY <2>1, <2>2
  <1>10. CASE Release
    <2>1. sock' \in BOOLEAN
      BY <1>10 DEF Release
    <2>2. cpc' \in ClientStates
      BY <1>10 DEF Release
    <2>3. refs' \in 0..1
      <3>1. refs = 1
        BY <1>10 DEF Release
      <3>2. refs' = refs \/ refs' = refs - 1
        BY <1>10 DEF Release
      <3> QED
        BY <3>1, <3>2
    <2>4. UNCHANGED <<hooked, inList, late, output, drawn>>
      BY <1>10 DEF Release
    <2> QED
      BY <2>1, <2>2, <2>3, <2>4
  <1>11. CASE PopupHidden
    BY <1>11 DEF PopupHidden
  <1>12. CASE Quit
    BY <1>12 DEF Quit
  <1>13. CASE dialogAccepted
    BY <1>13 DEF dialogAccepted, connectionAccepted
  <1>14. CASE dialogRefused
    BY <1>14 DEF dialogRefused, refuse
  <1>15. CASE enableDesktopControl
    BY <1>15 DEF enableDesktopControl
  <1>16. CASE closeConnection
    BY <1>16 DEF closeConnection, refuse
  <1>17. CASE clipboardChanged
    BY <1>17 DEF clipboardChanged, Mark
  <1>18. CASE NewClient
    BY <1>18 DEF NewClient
  <1>19. CASE handleNewClient
    BY <1>19 DEF handleNewClient, connectionAccepted
  <1>20. CASE inetdDisconnectHook
    BY <1>20 DEF inetdDisconnectHook, handleClientGone
  <1>21. CASE LeaveLoop
    BY <1>21 DEF LeaveLoop, ClientGoes
  <1>22. CASE TakeFromList
    BY <1>22 DEF TakeFromList
  <1>23. CASE Count
    BY <1>23 DEF Count, ClientGoes
  <1>24. CASE Wait
    BY <1>24 DEF Wait, ClientGoes
  <1>25. CASE Gone
    BY <1>25 DEF Gone, handleClientGone
  <1>26. CASE Fails
    BY <1>26 DEF Fails, ClientGoes
  <1>27. CASE Version
    BY <1>27 DEF Version, ClientGoes
  <1>28. CASE handleCheckPassword
    BY <1>28 DEF handleCheckPassword
  <1>29. CASE ClientInit
    BY <1>29 DEF ClientInit, ClientGoes
  <1>30. CASE SetEncodings
    BY <1>30 DEF SetEncodings
  <1>31. CASE Input
    BY <1>31 DEF Input
  <1>32. CASE DrawCursor
    BY <1>32 DEF DrawCursor
  <1>33. CASE OutputFails
    BY <1>33 DEF OutputFails
  <1>34. CASE OutputLeaves
    BY <1>34 DEF OutputLeaves
  <1>35. CASE UNCHANGED vars
    BY <1>35
  <1> QED
    BY <1>1, <1>2, <1>3, <1>4, <1>5, <1>6, <1>7, <1>8, <1>9, <1>10, <1>11,
       <1>12, <1>13, <1>14, <1>15, <1>16, <1>17, <1>18, <1>19, <1>20, <1>21,
       <1>22, <1>23, <1>24, <1>25, <1>26, <1>27, <1>28, <1>29, <1>30, <1>31,
       <1>32, <1>33, <1>34, <1>35, <1>36, <1>37
    DEF Next, GuiStep, UserStep, ClientRuns, Peer

(* Whoever ends the client waits for the reference that he has counted.     *)
LEMMA RefStep ==
  ASSUME ControllerTypes, GuiTypes, ClientTypes, RefInv, [Next]_vars
  PROVE  RefInv'
  <1> USE DEF ControllerTypes, GuiTypes, ClientTypes, RefInv, At, Served, Marking,
              vars, controllerVars, asyncVars, clientVars
  <1>1. CASE InitTick
    BY <1>1 DEF InitTick, checkAsyncEvents
  <1>2. CASE StartOnHold
    BY <1>2 DEF StartOnHold
  <1>3. CASE CloseClient
    BY <1>3 DEF CloseClient
  <1>4. CASE IdleTick
    BY <1>4 DEF IdleTick, checkAsyncEvents, Mark
  <1>5. CASE searchUpdates
    BY <1>5 DEF searchUpdates, Mark
  <1>6. CASE PtrAddEvent
    BY <1>6 DEF PtrAddEvent, Mark
  <1>7. CASE CheckAgain
    BY <1>7 DEF CheckAgain, checkAsyncEvents
  <1>8. CASE Head_
    BY <1>8 DEF Head_
  <1>9. CASE Deref
    BY <1>9 DEF Deref
  <1>36. CASE Skip
    BY <1>36 DEF Skip
  <1>37. CASE Refer
    <2>1. CASE cpc = "gone"
      BY <1>37, <2>1 DEF Refer, At
    <2>2. CASE cpc # "gone"
      <3>1. gui'.pc = "release"
        BY <1>37, <2>2 DEF Refer
      <3>2. refs' = 1
        BY <1>37, <2>2 DEF Refer
      <3>3. cpc' = cpc /\ sock' = sock
        BY <1>37 DEF Refer
      <3>4. cpc = "hook" => late'
        BY <1>37, <2>2 DEF Refer
      <3> QED
        BY <2>2, <3>1, <3>2, <3>3, <3>4
    <2> QED
      BY <2>1, <2>2
  <1>10. CASE Release
    <2>1. CASE cpc = "gone"
      <3>1. gui'.pc = "crashed"
        BY <1>10, <2>1 DEF Release
      <3>2. refs' = refs /\ cpc' = cpc
        BY <1>10, <2>1 DEF Release
      <3>3. sock' = sock
        BY <1>10, <2>1 DEF Release
      <3>4. late' = late
        BY <1>10 DEF Release
      <3> QED
        BY <3>1, <3>2, <3>3, <3>4
    <2>2. CASE cpc # "gone"
      <3>1. gui' = At(gui.next) /\ refs' = refs - 1 /\ late' = late
        BY <1>10, <2>2 DEF Release
      <3>2. refs' = 0
        BY <1>10, <3>1 DEF Release
      <3>3. gui'.pc \in {"search", "pointer", "check", "loop"}
        BY <1>10, <3>1 DEF Release
      <3>4. sock' => sock
        BY <1>10, <2>2 DEF Release
      <3>5. cpc' = IF cpc = "wait" THEN "hook" ELSE cpc
        BY <1>10, <2>2 DEF Release
      <3> QED
        BY <3>2, <3>3, <3>4, <3>5
    <2> QED
      BY <2>1, <2>2
  <1>11. CASE PopupHidden
    BY <1>11 DEF PopupHidden
  <1>12. CASE Quit
    BY <1>12 DEF Quit
  <1>13. CASE dialogAccepted
    BY <1>13 DEF dialogAccepted, connectionAccepted
  <1>14. CASE dialogRefused
    BY <1>14 DEF dialogRefused, refuse
  <1>15. CASE enableDesktopControl
    BY <1>15 DEF enableDesktopControl
  <1>16. CASE closeConnection
    <2>1. CASE state = "connected" /\ closePending
      BY <1>16, <2>1 DEF closeConnection, BackgroundAfter
    <2>2. CASE state = "connected" /\ ~closePending
      BY <1>16, <2>2 DEF closeConnection, BackgroundAfter
    <2>3. CASE state = "connecting"
      BY <1>16, <2>3 DEF closeConnection, refuse
    <2>4. CASE state = "waiting"
      BY <1>16, <2>4 DEF closeConnection
    <2> QED
      BY <2>1, <2>2, <2>3, <2>4 DEF ControllerTypes
  <1>17. CASE clipboardChanged
    BY <1>17 DEF clipboardChanged, Mark
  <1>18. CASE NewClient
    BY <1>18 DEF NewClient
  <1>19. CASE handleNewClient
    BY <1>19 DEF handleNewClient, connectionAccepted
  <1>20. CASE inetdDisconnectHook
    BY <1>20 DEF inetdDisconnectHook, handleClientGone
  <1>21. CASE LeaveLoop
    BY <1>21 DEF LeaveLoop, ClientGoes
  <1>22. CASE TakeFromList
    BY <1>22 DEF TakeFromList
  <1>23. CASE Count
    BY <1>23 DEF Count, ClientGoes
  <1>24. CASE Wait
    BY <1>24 DEF Wait, ClientGoes
  <1>25. CASE Gone
    BY <1>25 DEF Gone, handleClientGone
  <1>26. CASE Fails
    BY <1>26 DEF Fails, ClientGoes
  <1>27. CASE Version
    BY <1>27 DEF Version, ClientGoes
  <1>28. CASE handleCheckPassword
    BY <1>28 DEF handleCheckPassword
  <1>29. CASE ClientInit
    BY <1>29 DEF ClientInit, ClientGoes
  <1>30. CASE SetEncodings
    BY <1>30 DEF SetEncodings
  <1>31. CASE Input
    BY <1>31 DEF Input
  <1>32. CASE DrawCursor
    BY <1>32 DEF DrawCursor
  <1>33. CASE OutputFails
    BY <1>33 DEF OutputFails
  <1>34. CASE OutputLeaves
    BY <1>34 DEF OutputLeaves
  <1>35. CASE UNCHANGED vars
    BY <1>35
  <1> QED
    BY <1>1, <1>2, <1>3, <1>4, <1>5, <1>6, <1>7, <1>8, <1>9, <1>10, <1>11,
       <1>12, <1>13, <1>14, <1>15, <1>16, <1>17, <1>18, <1>19, <1>20, <1>21,
       <1>22, <1>23, <1>24, <1>25, <1>26, <1>27, <1>28, <1>29, <1>30, <1>31,
       <1>32, <1>33, <1>34, <1>35, <1>36, <1>37
    DEF Next, GuiStep, UserStep, ClientRuns, Peer

(* The news of a client is executed before what is queued behind it.       *)
LEMMA TellStep ==
  ASSUME ControllerTypes, AsyncTypes, GuiTypes, TellInv, PhaseInv, [Next]_vars
  PROVE  TellInv'
  <1> USE DEF AsyncTypes, GuiTypes, TellInv, PhaseInv, InputTooEarly,
              Establishes, At, Events, Marking, vars, controllerVars, asyncVars,
              clientVars
  <1>1. CASE InitTick
    <2>1. ~InputTooEarly' /\ ~Establishes'
      BY <1>1, NothingQueuedNext DEF InitTick, checkAsyncEvents
    <2> HIDE DEF InputTooEarly, Establishes
    <2>2. ~surprise'
      BY <1>1 DEF InitTick, checkAsyncEvents
    <2>3. told' = (told \/ Establishes) /\ cpc' = cpc
      BY <1>1 DEF InitTick, checkAsyncEvents
    <2>4. gui'.pc # "start" /\ config' = config
      BY <1>1 DEF InitTick, checkAsyncEvents
    <2> QED
      BY <2>1, <2>2, <2>3, <2>4
  <1>2. CASE StartOnHold
    BY <1>2 DEF StartOnHold
  <1>3. CASE CloseClient
    BY <1>3 DEF CloseClient
  <1>4. CASE IdleTick
    <2>1. ~InputTooEarly' /\ ~Establishes'
      BY <1>4, NothingQueuedNext DEF IdleTick, checkAsyncEvents
    <2> HIDE DEF InputTooEarly, Establishes
    <2>2. ~surprise'
      BY <1>4 DEF IdleTick, checkAsyncEvents
    <2>3. told' = (told \/ Establishes) /\ cpc' = cpc
      BY <1>4 DEF IdleTick, checkAsyncEvents
    <2>4. gui'.pc # "start" /\ config' = config
      BY <1>4 DEF IdleTick, checkAsyncEvents, Mark
    <2> QED
      BY <2>1, <2>2, <2>3, <2>4
  <1>5. CASE searchUpdates
    BY <1>5 DEF searchUpdates, Mark
  <1>6. CASE PtrAddEvent
    BY <1>6 DEF PtrAddEvent, Mark
  <1>7. CASE CheckAgain
    <2>1. ~InputTooEarly' /\ ~Establishes'
      BY <1>7, NothingQueuedNext DEF CheckAgain, checkAsyncEvents
    <2> HIDE DEF InputTooEarly, Establishes
    <2>2. ~surprise'
      BY <1>7 DEF CheckAgain, checkAsyncEvents
    <2>3. told' = (told \/ Establishes) /\ cpc' = cpc
      BY <1>7 DEF CheckAgain, checkAsyncEvents
    <2>4. gui'.pc # "start" /\ config' = config
      BY <1>7 DEF CheckAgain, checkAsyncEvents
    <2> QED
      BY <2>1, <2>2, <2>3, <2>4
  <1>8. CASE Head_
    BY <1>8 DEF Head_
  <1>9. CASE Deref
    BY <1>9 DEF Deref
  <1>36. CASE Skip
    BY <1>36 DEF Skip
  <1>37. CASE Refer
    <2>1. CASE cpc = "gone"
      BY <1>37, <2>1 DEF Refer, At
    <2>2. CASE cpc # "gone"
      BY <1>37, <2>2 DEF Refer
    <2> QED
      BY <2>1, <2>2
  <1>10. CASE Release
    <2>1. CASE cpc = "gone"
      BY <1>10, <2>1 DEF Release, At
    <2>2. CASE cpc # "gone"
      BY <1>10, <2>2 DEF Release, At
    <2> QED
      BY <2>1, <2>2
  <1>11. CASE PopupHidden
    BY <1>11 DEF PopupHidden
  <1>12. CASE Quit
    BY <1>12 DEF Quit
  <1>13. CASE dialogAccepted
    BY <1>13 DEF dialogAccepted, connectionAccepted
  <1>14. CASE dialogRefused
    BY <1>14 DEF dialogRefused, refuse
  <1>15. CASE enableDesktopControl
    BY <1>15 DEF enableDesktopControl
  <1>16. CASE closeConnection
    <2>1. CASE state = "connected"
      <3>1. ~InputTooEarly' /\ ~Establishes'
        BY <1>16, <2>1, NothingQueuedNext DEF closeConnection
      <3> HIDE DEF InputTooEarly, Establishes
      <3>2. ~surprise'
        BY <1>16, <2>1 DEF closeConnection
      <3>3. told' = (told \/ Establishes) /\ cpc' = cpc
        BY <1>16, <2>1 DEF closeConnection
      <3>4. gui'.pc # "start" /\ config' = config
        BY <1>16, <2>1 DEF closeConnection
      <3> QED
        BY <3>1, <3>2, <3>3, <3>4
    <2>2. CASE state = "connecting"
      BY <1>16, <2>2 DEF closeConnection, refuse
    <2>3. CASE state = "waiting"
      BY <1>16, <2>3 DEF closeConnection
    <2> QED
      BY <2>1, <2>2, <2>3 DEF ControllerTypes
  <1>17. CASE clipboardChanged
    BY <1>17 DEF clipboardChanged, Mark
  <1>18. CASE NewClient
    BY <1>18 DEF NewClient
  <1>19. CASE handleNewClient
    BY <1>19 DEF handleNewClient, connectionAccepted
  <1>20. CASE inetdDisconnectHook
    BY <1>20 DEF inetdDisconnectHook, handleClientGone
  <1>21. CASE LeaveLoop
    BY <1>21 DEF LeaveLoop, ClientGoes
  <1>22. CASE TakeFromList
    BY <1>22 DEF TakeFromList
  <1>23. CASE Count
    BY <1>23 DEF Count, ClientGoes
  <1>24. CASE Wait
    BY <1>24 DEF Wait, ClientGoes
  <1>25. CASE Gone
    BY <1>25 DEF Gone, handleClientGone
  <1>26. CASE Fails
    BY <1>26 DEF Fails, ClientGoes
  <1>27. CASE Version
    BY <1>27 DEF Version, ClientGoes
  <1>28. CASE handleCheckPassword
    BY <1>28 DEF handleCheckPassword
  <1>29. CASE ClientInit
    BY <1>29 DEF ClientInit, ClientGoes
  <1>30. CASE SetEncodings
    BY <1>30 DEF SetEncodings
  <1>31. CASE Input
    BY <1>31 DEF Input
  <1>32. CASE DrawCursor
    BY <1>32 DEF DrawCursor
  <1>33. CASE OutputFails
    BY <1>33 DEF OutputFails
  <1>34. CASE OutputLeaves
    BY <1>34 DEF OutputLeaves
  <1>35. CASE UNCHANGED vars
    BY <1>35
  <1> QED
    BY <1>1, <1>2, <1>3, <1>4, <1>5, <1>6, <1>7, <1>8, <1>9, <1>10, <1>11,
       <1>12, <1>13, <1>14, <1>15, <1>16, <1>17, <1>18, <1>19, <1>20, <1>21,
       <1>22, <1>23, <1>24, <1>25, <1>26, <1>27, <1>28, <1>29, <1>30, <1>31,
       <1>32, <1>33, <1>34, <1>35, <1>36, <1>37
    DEF Next, GuiStep, UserStep, ClientRuns, Peer

(* A client whose end is noted is served no more.                          *)
LEMMA PhaseStep ==
  ASSUME ControllerTypes, GuiTypes, RefInv, PhaseInv, [Next]_vars
  PROVE  PhaseInv'
  <1> USE DEF ControllerTypes, GuiTypes, PhaseInv, RefInv, At, Served, Marking,
              vars, controllerVars, asyncVars, clientVars
  <1>1. CASE InitTick
    BY <1>1 DEF InitTick, checkAsyncEvents
  <1>2. CASE StartOnHold
    BY <1>2 DEF StartOnHold
  <1>3. CASE CloseClient
    BY <1>3 DEF CloseClient
  <1>4. CASE IdleTick
    BY <1>4 DEF IdleTick, checkAsyncEvents, Mark
  <1>5. CASE searchUpdates
    BY <1>5 DEF searchUpdates, Mark
  <1>6. CASE PtrAddEvent
    BY <1>6 DEF PtrAddEvent, Mark
  <1>7. CASE CheckAgain
    BY <1>7 DEF CheckAgain, checkAsyncEvents
  <1>8. CASE Head_
    BY <1>8 DEF Head_
  <1>9. CASE Deref
    BY <1>9 DEF Deref
  <1>36. CASE Skip
    BY <1>36 DEF Skip
  <1>37. CASE Refer
    <2>1. CASE cpc = "gone"
      BY <1>37, <2>1 DEF Refer, At
    <2>2. CASE cpc # "gone"
      BY <1>37, <2>2 DEF Refer
    <2> QED
      BY <2>1, <2>2
  <1>10. CASE Release
    <2>1. CASE cpc = "gone"
      BY <1>10, <2>1 DEF Release, At
    <2>2. CASE cpc # "gone"
      BY <1>10, <2>2 DEF Release, At
    <2> QED
      BY <2>1, <2>2
  <1>11. CASE PopupHidden
    BY <1>11 DEF PopupHidden
  <1>12. CASE Quit
    BY <1>12 DEF Quit
  <1>13. CASE dialogAccepted
    BY <1>13 DEF dialogAccepted, connectionAccepted
  <1>14. CASE dialogRefused
    BY <1>14 DEF dialogRefused, refuse
  <1>15. CASE enableDesktopControl
    BY <1>15 DEF enableDesktopControl
  <1>16. CASE closeConnection
    <2>1. CASE state = "connected" /\ closePending
      BY <1>16, <2>1 DEF closeConnection, BackgroundAfter
    <2>2. CASE state = "connected" /\ ~closePending
      BY <1>16, <2>2 DEF closeConnection, BackgroundAfter
    <2>3. CASE state = "connecting"
      BY <1>16, <2>3 DEF closeConnection, refuse
    <2>4. CASE state = "waiting"
      BY <1>16, <2>4 DEF closeConnection
    <2> QED
      BY <2>1, <2>2, <2>3, <2>4 DEF ControllerTypes
  <1>17. CASE clipboardChanged
    BY <1>17 DEF clipboardChanged, Mark
  <1>18. CASE NewClient
    BY <1>18 DEF NewClient
  <1>19. CASE handleNewClient
    BY <1>19 DEF handleNewClient, connectionAccepted, AppLockFree
  <1>20. CASE inetdDisconnectHook
    BY <1>20 DEF inetdDisconnectHook, handleClientGone
  <1>21. CASE LeaveLoop
    BY <1>21 DEF LeaveLoop, ClientGoes
  <1>22. CASE TakeFromList
    BY <1>22 DEF TakeFromList
  <1>23. CASE Count
    BY <1>23 DEF Count, ClientGoes
  <1>24. CASE Wait
    BY <1>24 DEF Wait, ClientGoes
  <1>25. CASE Gone
    BY <1>25 DEF Gone, handleClientGone
  <1>26. CASE Fails
    BY <1>26 DEF Fails, ClientGoes
  <1>27. CASE Version
    BY <1>27 DEF Version, ClientGoes
  <1>28. CASE handleCheckPassword
    BY <1>28 DEF handleCheckPassword, AppLockFree
  <1>29. CASE ClientInit
    BY <1>29 DEF ClientInit, ClientGoes
  <1>30. CASE SetEncodings
    BY <1>30 DEF SetEncodings
  <1>31. CASE Input
    BY <1>31 DEF Input
  <1>32. CASE DrawCursor
    BY <1>32 DEF DrawCursor
  <1>33. CASE OutputFails
    BY <1>33 DEF OutputFails
  <1>34. CASE OutputLeaves
    BY <1>34 DEF OutputLeaves
  <1>35. CASE UNCHANGED vars
    BY <1>35
  <1> QED
    BY <1>1, <1>2, <1>3, <1>4, <1>5, <1>6, <1>7, <1>8, <1>9, <1>10, <1>11,
       <1>12, <1>13, <1>14, <1>15, <1>16, <1>17, <1>18, <1>19, <1>20, <1>21,
       <1>22, <1>23, <1>24, <1>25, <1>26, <1>27, <1>28, <1>29, <1>30, <1>31,
       <1>32, <1>33, <1>34, <1>35, <1>36, <1>37
    DEF Next, GuiStep, UserStep, ClientRuns, Peer

(* The program ends before a session has begun, or when its end has been noted. *)
LEMMA BackStep ==
  ASSUME ControllerTypes, AsyncTypes, GuiTypes, PhaseInv, BackInv, [Next]_vars
  PROVE  BackInv'
  <1> USE DEF ControllerTypes, AsyncTypes, GuiTypes, PhaseInv, BackInv, At,
              Served, Marking, vars, controllerVars, asyncVars, clientVars
  <1>1. CASE InitTick
    <2>1. timers = "init"
      BY <1>1 DEF InitTick
    <2>2. ~Establishes
      BY <2>1, NothingQueued
    <2> QED
      BY <1>1, <2>1, <2>2 DEF InitTick, checkAsyncEvents, BackgroundAfter
  <1>2. CASE StartOnHold
    BY <1>2 DEF StartOnHold
  <1>3. CASE CloseClient
    BY <1>3 DEF CloseClient
  <1>4. CASE IdleTick
    BY <1>4 DEF IdleTick, checkAsyncEvents, BackgroundAfter, Mark
  <1>5. CASE searchUpdates
    BY <1>5 DEF searchUpdates, Mark
  <1>6. CASE PtrAddEvent
    BY <1>6 DEF PtrAddEvent, Mark
  <1>7. CASE CheckAgain
    <2>1. timers = "init" => ~Establishes
      BY NothingQueued
    <2> QED
      BY <1>7, <2>1 DEF CheckAgain, checkAsyncEvents, BackgroundAfter
  <1>8. CASE Head_
    BY <1>8 DEF Head_
  <1>9. CASE Deref
    BY <1>9 DEF Deref
  <1>36. CASE Skip
    BY <1>36 DEF Skip
  <1>37. CASE Refer
    <2>1. CASE cpc = "gone"
      BY <1>37, <2>1 DEF Refer, At
    <2>2. CASE cpc # "gone"
      BY <1>37, <2>2 DEF Refer
    <2> QED
      BY <2>1, <2>2
  <1>10. CASE Release
    <2>1. CASE cpc = "gone"
      BY <1>10, <2>1 DEF Release, At
    <2>2. CASE cpc # "gone"
      BY <1>10, <2>2 DEF Release, At
    <2> QED
      BY <2>1, <2>2
  <1>11. CASE PopupHidden
    BY <1>11 DEF PopupHidden
  <1>12. CASE Quit
    BY <1>12 DEF Quit
  <1>13. CASE dialogAccepted
    BY <1>13 DEF dialogAccepted, connectionAccepted
  <1>14. CASE dialogRefused
    BY <1>14 DEF dialogRefused, refuse
  <1>15. CASE enableDesktopControl
    BY <1>15 DEF enableDesktopControl
  <1>16. CASE closeConnection
    <2>0. exitCall' = exitCall \/ exitCall' = TRUE
      BY <1>16 DEF closeConnection
    <2>1. CASE state = "connected" /\ closePending
      BY <1>16, <2>1, <2>0 DEF closeConnection, BackgroundAfter
    <2>2. CASE state = "connected" /\ ~closePending
      BY <1>16, <2>2, <2>0 DEF closeConnection, BackgroundAfter
    <2>3. CASE state = "connecting"
      BY <1>16, <2>3, <2>0 DEF closeConnection, refuse
    <2>4. CASE state = "waiting"
      BY <1>16, <2>4, <2>0 DEF closeConnection
    <2> QED
      BY <2>1, <2>2, <2>3, <2>4 DEF ControllerTypes
  <1>17. CASE clipboardChanged
    BY <1>17 DEF clipboardChanged, Mark
  <1>18. CASE NewClient
    BY <1>18 DEF NewClient
  <1>19. CASE handleNewClient
    BY <1>19 DEF handleNewClient, connectionAccepted, AppLockFree
  <1>20. CASE inetdDisconnectHook
    BY <1>20 DEF inetdDisconnectHook, handleClientGone
  <1>21. CASE LeaveLoop
    BY <1>21 DEF LeaveLoop, ClientGoes
  <1>22. CASE TakeFromList
    BY <1>22 DEF TakeFromList
  <1>23. CASE Count
    BY <1>23 DEF Count, ClientGoes
  <1>24. CASE Wait
    BY <1>24 DEF Wait, ClientGoes
  <1>25. CASE Gone
    BY <1>25 DEF Gone, handleClientGone
  <1>26. CASE Fails
    BY <1>26 DEF Fails, ClientGoes
  <1>27. CASE Version
    BY <1>27 DEF Version, ClientGoes
  <1>28. CASE handleCheckPassword
    BY <1>28 DEF handleCheckPassword, AppLockFree
  <1>29. CASE ClientInit
    BY <1>29 DEF ClientInit, ClientGoes
  <1>30. CASE SetEncodings
    BY <1>30 DEF SetEncodings
  <1>31. CASE Input
    BY <1>31 DEF Input
  <1>32. CASE DrawCursor
    BY <1>32 DEF DrawCursor
  <1>33. CASE OutputFails
    BY <1>33 DEF OutputFails
  <1>34. CASE OutputLeaves
    BY <1>34 DEF OutputLeaves
  <1>35. CASE UNCHANGED vars
    BY <1>35
  <1> QED
    BY <1>1, <1>2, <1>3, <1>4, <1>5, <1>6, <1>7, <1>8, <1>9, <1>10, <1>11,
       <1>12, <1>13, <1>14, <1>15, <1>16, <1>17, <1>18, <1>19, <1>20, <1>21,
       <1>22, <1>23, <1>24, <1>25, <1>26, <1>27, <1>28, <1>29, <1>30, <1>31,
       <1>32, <1>33, <1>34, <1>35, <1>36, <1>37
    DEF Next, GuiStep, UserStep, ClientRuns, Peer

LEMMA InitInv == Init => KrfbInv
  <1> SUFFICES ASSUME Init PROVE KrfbInv
    OBVIOUS
  <1> USE DEF Init, At
  <1>1. Typed
    <2>1. ControllerTypes
      BY DEF ControllerTypes
    <2>4. ClientTypes
      <3>1. cpc \in ClientStates /\ output \in {"none", "runs", "done"}
        BY DEF ClientStates
      <3>2. sock \in BOOLEAN /\ hooked \in BOOLEAN /\ inList \in BOOLEAN /\ drawn \in BOOLEAN
        OBVIOUS
      <3>3. refs \in 0..1
        OBVIOUS
      <3>4. late \in BOOLEAN
        OBVIOUS
      <3> QED
        BY <3>1, <3>2, <3>3, <3>4 DEF ClientTypes
    <2>2. GuiTypes
      BY DEF GuiTypes, GuiStates, Marking
    <2>3. AsyncTypes
      <3>1. <<>> \in Seq(Events) /\ Len(<<>>) = 0
        BY EmptySeq
      <3>2. asyncQueue \in Seq(Events) /\ Len(asyncQueue) <= MaxQueue
        BY <3>1, KrfbAssumption
      <3> QED
        BY <3>2 DEF AsyncTypes
    <2> QED
      BY <2>1, <2>2, <2>3, <2>4 DEF Typed
  <1>2. RefInv /\ PhaseInv /\ BackInv
    BY DEF RefInv, PhaseInv, BackInv
  <1>3. TellInv
    BY NothingQueued DEF TellInv
  <1> QED
    BY <1>1, <1>2, <1>3 DEF KrfbInv

LEMMA NextInv == KrfbInv /\ [Next]_vars => KrfbInv'
  BY ControllerStep, AsyncStep, GuiPlaceStep, ClientStep, RefStep, TellStep, PhaseStep, BackStep
  DEF KrfbInv, Typed

LEMMA InvImplies ==
  KrfbInv => TypeOK /\ ReferenceKeepsClient /\ UserIsToldFirst /\ BackgroundRestored
  <1> SUFFICES ASSUME KrfbInv
      PROVE  TypeOK /\ ReferenceKeepsClient /\ UserIsToldFirst /\ BackgroundRestored
    OBVIOUS
  <1> USE DEF KrfbInv
  <1>1. TypeOK
    BY DEF TypeOK, Typed, ControllerTypes, AsyncTypes, GuiTypes, ClientTypes, Events,
           ClientStates
  <1>2. ReferenceKeepsClient
    BY DEF ReferenceKeepsClient, NoUseAfterFree, RefInv
  <1>3. UserIsToldFirst
    BY DEF UserIsToldFirst, TellInv
  <1>4. BackgroundRestored
    BY DEF BackgroundRestored, BackInv
  <1> QED
    BY <1>1, <1>2, <1>3, <1>4

-----------------------------------------------------------------------------
(* The variables keep their types, and the queue its bound.                *)
THEOREM KrfbTypes == Spec => []TypeOK
  <1>1. KrfbInv => TypeOK
    BY InvImplies
  <1> QED
    BY InitInv, NextInv, <1>1, PTL DEF Spec

(* A reference that the input thread could count keeps the client until it  *)
(* is released.  The GUI thread takes it without a lock, and one that comes *)
(* between the count and the end of the client keeps nothing: of that the   *)
(* theorem says nothing, and there the code frees what is in use.           *)
THEOREM CountedIsNotFreed == Spec => []ReferenceKeepsClient
  <1>1. KrfbInv => ReferenceKeepsClient
    BY InvImplies
  <1> QED
    BY InitInv, NextInv, <1>1, PTL DEF Spec

(* No input of the client is executed before the user has been told that    *)
(* he is there, however the queue that carries both is emptied.            *)
THEOREM ToldBeforeInput == Spec => []UserIsToldFirst
  <1>1. KrfbInv => UserIsToldFirst
    BY InvImplies
  <1> QED
    BY InitInv, NextInv, <1>1, PTL DEF Spec

(* Unless it is ended by exit(), the program leaves a desktop that has its  *)
(* background.                                                             *)
THEOREM BackgroundComesBack == Spec => []BackgroundRestored
  <1>1. KrfbInv => BackgroundRestored
    BY InvImplies
  <1> QED
    BY InitInv, NextInv, <1>1, PTL DEF Spec
==============================================================================
