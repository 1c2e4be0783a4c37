--------------------------- MODULE KpppDial_proofs ---------------------------
(***************************************************************************)
(* Theorems about kppp's dialling, for any scripts, any number of init      *)
(* strings, and events nested to any depth.                                *)
(*                                                                         *)
(* The heart is PhaseInv: unless a connection was hurried, it is in one of  *)
(* the phases of its beginning, its dialling and its logging on, with its   *)
(* window on the screen and nothing that ends it on the way.               *)
(***************************************************************************)
EXTENDS KpppDial, SequenceTheorems, TLAPS

InitFrames == {"pre", "open", "hung"}

(* One of the handlers F is among those that run.                          *)
Has(s, F) == \E i \in 1 .. Len(s) : s[i] \in F

(* init runs at most once.                                                 *)
Once(s) ==
    \A i, j \in 1 .. Len(s) : s[i] \in InitFrames /\ s[j] \in InitFrames => i = j

Calm == "hurried" \notin astray

Dials == {"init", "main", "if"} \cap timers # {} \/ Has(nest, InitFrames)

(* The types, of what is changed together.                                 *)
ProcessTypes ==
    /\ config \in Configs
    /\ shown \subseteq {"main", "con", "conwin"}
    /\ timers \subseteq Timers
    /\ pppd \in {"none", "up", "ending"}
    /\ died \in 0 .. MaxSignals
    /\ running \in BOOLEAN
    /\ error \in {"none", "died", "timeout"}
    /\ astray \subseteq {"hurried", "twice", "mistaken", "unheard", "refused"}

ModemTypes ==
    modem \in [tty : BOOLEAN, locked : BOOLEAN, ttyfd : BOOLEAN,
               line : {"down", "calling", "up"}]

States == {0, 1, 2, 3, 4, 5, 10, 20, 100, 101, 150}

DialRecords ==
    [vmain : States, substate : 0 .. NumInitStrings, expecting : BOOLEAN,
     scanning : BOOLEAN, index : Nat, semaphore : BOOLEAN]
DialTypes == dial \in DialRecords

(* An init string that is left is within bounds.                           *)
StringInv == dial.vmain = 0 => dial.substate < NumInitStrings

TypeInv == ProcessTypes /\ ModemTypes /\ DialTypes /\ StringInv /\ nest \in Seq(Frames)

(* The timeout runs from the number being dialled on, and while a command   *)
(* of the script waits; where a script is.                                 *)
TimedInv ==
    /\ "main" \in timers /\ dial.vmain \in {100, 101} => "timeout" \in timers
    /\ "main" \in timers /\ dial.vmain = 2 /\ (dial.expecting \/ dial.scanning) /\ ~Ringing
          => "timeout" \in timers
    /\ dial.index <= Len(config.script)
    /\ dial.vmain = 150 =>
          dial.index < Len(config.script) /\ config.script[dial.index + 1] = "Answer"

(* A connection is in one phase, is seen, and is not about to end.         *)
PhaseInv ==
    /\ "ifTimeout" \in timers => "if" \in timers
    /\ Calm =>
          /\ "lost" \notin timers
          /\ "init" \in timers => {"main", "if"} \cap timers = {} /\ ~Has(nest, InitFrames)
          /\ Has(nest, InitFrames) => {"main", "if"} \cap timers = {}
          /\ "main" \in timers => "if" \notin timers
          /\ Once(nest)
          /\ Dials => /\ "con" \in shown /\ "conwin" \notin shown
                      /\ "disconnect" \notin timers
                      /\ ~Has(nest, {"cancel", "disconnect"})
          /\ Dials /\ "if" \notin timers => ~running /\ error = "none"

(* A disconnection is possible or on the way.                              *)
Ends ==
    "conwin" \in shown \/ "disconnect" \in timers \/ Has(nest, {"disconnect"})

(* Who has the line's tty open.                                            *)
LineInv ==
    /\ modem.line # "down" => modem.tty \/ modem.ttyfd \/ pppd # "none"
    /\ config.lock /\ modem.ttyfd =>
          /\ modem.locked
          /\ modem.tty \/ Ends
          /\ Calm => modem.tty /\ "if" \notin timers

(* The inductive invariant.                                                *)
IInv ==
    TypeInv /\ PppdIsKnown /\ WindowIsShown /\ TimedInv /\ PhaseInv /\ LineInv

(* The first n elements.                                                   *)
LEMMA Prefix ==
  ASSUME NEW S, NEW s, NEW n \in Nat, \A i \in 1 .. n : s[i] \in S
  PROVE  /\ SubSeq(s, 1, n) \in Seq(S)
         /\ Len(SubSeq(s, 1, n)) = n
         /\ \A i \in 1 .. n : SubSeq(s, 1, n)[i] = s[i]
  <1>1. SubSeq(s, 1, n) \in Seq(S)
    BY SubSeqProperties
  <1>2. Len(SubSeq(s, 1, n)) = n
    BY SubSeqProperties
  <1>3. \A i \in 1 .. n : SubSeq(s, 1, n)[i] = s[i]
    BY SubSeqProperties
  <1> QED
    BY <1>1, <1>2, <1>3

(* What is popped, and what is pushed.                                     *)
LEMMA Popped ==
  ASSUME NEW s \in Seq(Frames), s # <<>>, NEW F
  PROVE  /\ Front(s) \in Seq(Frames)
         /\ Has(Front(s), F) => Has(s, F)
         /\ Has(s, F) => Has(Front(s), F) \/ Last(s) \in F
         /\ Once(s) => Once(Front(s))
         /\ Once(s) /\ Last(s) \in InitFrames => ~Has(Front(s), InitFrames)
         /\ Last(s) \in F => Has(s, F)
  <1>1. Len(s) \in Nat \ {0} /\ Last(s) = s[Len(s)]
    BY DEF Last
  <1>2. /\ Front(s) \in Seq(Frames)
        /\ Len(Front(s)) = Len(s) - 1
        /\ \A i \in 1 .. Len(s) - 1 : Front(s)[i] = s[i]
    <2>1. Len(s) - 1 \in Nat /\ \A i \in 1 .. Len(s) - 1 : s[i] \in Frames
      BY <1>1
    <2> QED
      <3> DEFINE n == Len(s) - 1
      <3>1. n \in Nat /\ Front(s) = SubSeq(s, 1, n) /\ \A i \in 1 .. n : s[i] \in Frames
        BY <2>1 DEF Front
      <3> HIDE DEF n
      <3>2. /\ Front(s) \in Seq(Frames) /\ Len(Front(s)) = n
            /\ \A i \in 1 .. n : Front(s)[i] = s[i]
        BY <3>1, Prefix
      <3> QED
        BY <3>2 DEF n
  <1> QED
    BY <1>1, <1>2 DEF Has, Once

LEMMA Pushed ==
  ASSUME NEW s \in Seq(Frames), NEW f \in Frames, NEW F
  PROVE  /\ Append(s, f) \in Seq(Frames)
         /\ Has(Append(s, f), F) <=> Has(s, F) \/ f \in F
         /\ Once(s) /\ (f \in InitFrames => ~Has(s, InitFrames)) => Once(Append(s, f))
  <1>1. Len(s) \in Nat
    OBVIOUS
  <1>2. /\ Append(s, f) \in Seq(Frames)
        /\ Len(Append(s, f)) = Len(s) + 1
        /\ \A i \in 1 .. Len(s) : Append(s, f)[i] = s[i]
        /\ Append(s, f)[Len(s) + 1] = f
    BY AppendProperties
  <1> QED
    BY <1>1, <1>2 DEF Has, Once

LEMMA Empty ==
  ASSUME NEW s \in Seq(Frames), NEW F
  PROVE  s = <<>> => ~Has(s, F) /\ Once(s)
  BY DEF Has, Once

LEMMA InRange ==
  ASSUME NEW s \in Seq(Frames)
  PROVE  Range(s) \cap InitFrames # {} <=> Has(s, InitFrames)
  BY DEF Range, Has

(* init goes on.                                                           *)
LEMMA Replaced ==
  ASSUME NEW s \in Seq(Frames), s # <<>>, Last(s) \in InitFrames,
         NEW f \in Frames, f \in InitFrames, NEW F
  PROVE  /\ Has(s, InitFrames) /\ Has(Append(Front(s), f), InitFrames)
         /\ Once(s) => Once(Append(Front(s), f))
         /\ f \notin F /\ Has(Append(Front(s), f), F) => Has(s, F)
         /\ f \notin F /\ Last(s) \notin F =>
               (Has(Append(Front(s), f), F) <=> Has(s, F))
  <1>1. Front(s) \in Seq(Frames)
    BY Popped
  <1>2. Has(s, InitFrames) /\ Has(Append(Front(s), f), InitFrames)
    BY <1>1, Popped, Pushed
  <1>3. Once(s) => Once(Append(Front(s), f))
    BY <1>1, Popped, Pushed
  <1>4. f \notin F /\ Has(Append(Front(s), f), F) => Has(s, F)
    BY <1>1, Popped, Pushed
  <1>5. f \notin F /\ Last(s) \notin F => (Has(Append(Front(s), f), F) <=> Has(s, F))
    BY <1>1, Popped, Pushed
  <1> QED
    BY <1>2, <1>3, <1>4, <1>5

(* The types of timers, windows and pppd.                                  *)
LEMMA ProcessStep ==
  ASSUME ProcessTypes, [Next]_vars
  PROVE  ProcessTypes'
  <1> USE DEF ProcessTypes, Timers
  <1>1. CASE Connect
    BY <1>1 DEF Connect, beginConnect, pppdVars
  <1>2. CASE init
    BY <1>2 DEF init, pppdVars
  <1>3. CASE InitOpen
    BY <1>3 DEF InitOpen, unlockdevice, hangup, closetty, Settled, pppdVars
  <1>4. CASE InitHangup
    BY <1>4 DEF InitHangup, unlockdevice, hangup, closetty, Settled, pppdVars
  <1>5. CASE InitEnds
    BY <1>5 DEF InitEnds, pppdVars
  <1>6. CASE SendInitString
    BY <1>6 DEF SendInitString, Ask, At, DialUnchanged, pppdVars
  <1>7. CASE SetToneDuration
    BY <1>7 DEF SetToneDuration, Ask, At, DialUnchanged, pppdVars
  <1>8. CASE SetVolume
    BY <1>8 DEF SetVolume, Ask, At, DialUnchanged, pppdVars
  <1>9. CASE SetDialTone
    BY <1>9 DEF SetDialTone, Ask, At, DialUnchanged, pppdVars
  <1>10. CASE Dial
    BY <1>10 DEF Dial, At, DialUnchanged, pppdVars
  <1>11. CASE AwaitNewline
    BY <1>11 DEF AwaitNewline, At, DialUnchanged, pppdVars
  <1>12. CASE Busy
    BY <1>12 DEF Busy, At, DialUnchanged, pppdVars
  <1>13. CASE NoCarrier
    BY <1>13 DEF NoCarrier, unlockdevice, At, DialUnchanged, pppdVars
  <1>14. CASE Connected
    BY <1>14 DEF Connected, At, DialUnchanged, pppdVars
  <1>15. CASE RunScript
    BY <1>15 DEF RunScript, At, DialUnchanged, pppdVars
  <1>16. CASE Answer
    BY <1>16 DEF Answer, At, DialUnchanged, pppdVars
  <1>17. CASE StartPPPD
    BY <1>17 DEF StartPPPD, execPPPDaemon, unlockdevice, hangup, closetty,
       Settled, At, pppdVars
  <1>18. CASE readChar
    BY <1>18 DEF readChar, DialUnchanged, pppdVars
  <1>19. CASE pause
    BY <1>19 DEF pause, DialUnchanged, pppdVars
  <1>20. CASE script_timed_out
    BY <1>20 DEF script_timed_out, DialUnchanged, pppdVars
  <1>21. CASE HangsUp
    BY <1>21 DEF HangsUp, DialUnchanged, pppdVars
  <1>22. CASE Cancel
    BY <1>22 DEF Cancel, pppdVars
  <1>23. CASE CancelEnds
    BY <1>23 DEF CancelEnds, killPPPDaemon, unlockdevice, hangup, closetty,
       Settled, pppdVars
  <1>24. CASE disconnect
    BY <1>24 DEF disconnect, pppdVars
  <1>25. CASE DisconnectEnds
    BY <1>25 DEF DisconnectEnds, pppdVars
  <1>26. CASE delayedDisconnect
    BY <1>26 DEF delayedDisconnect, killPPPDaemon, unlockdevice, hangup,
       closetty, Settled, pppdVars
  <1>27. CASE InterfaceUp
    BY <1>27 DEF InterfaceUp, closetty, pppdVars
  <1>28. CASE InterfaceFails
    BY <1>28 DEF InterfaceFails, pppdVars
  <1>29. CASE if_waiting_timed_out
    BY <1>29 DEF if_waiting_timed_out, killPPPDaemon, pppdVars
  <1>30. CASE PppdDies
    BY <1>30, KpppAssumption DEF PppdDies
  <1>31. CASE sigPPPDDied
    <2>1. died' \in 0 .. MaxSignals /\ config' \in Configs /\ pppd' \in {"none", "up", "ending"}
      BY <1>31, KpppAssumption DEF sigPPPDDied
    <2>2. CASE ~DiedUnasked
      BY <1>31, <2>1, <2>2 DEF sigPPPDDied
    <2>3. CASE DiedUnasked
      <3>1. running' = FALSE /\ (IF config.redial THEN Again ELSE Told)
        BY <1>31, <2>3 DEF sigPPPDDied
      <3>2. astray' \subseteq {"hurried", "twice", "mistaken", "unheard", "refused"}
        BY <1>31, <2>3, Zenon DEF sigPPPDDied
      <3>3. /\ shown' \subseteq {"main", "con", "conwin"}
            /\ timers' \subseteq {"init", "main", "lost", "timeout", "pause", "if", "ifTimeout",
                                 "disconnect"}
            /\ error' \in {"none", "died", "timeout"}
        BY <3>1 DEF Again, Told
      <3> QED
        BY <2>1, <3>1, <3>2, <3>3
    <2> QED
      BY <2>2, <2>3
  <1>32. CASE CloseBox
    BY <1>32 DEF CloseBox, pppdVars
  <1>33. CASE UNCHANGED vars
    BY <1>33 DEF vars, pppdVars
  <1> QED
    BY <1>1, <1>2, <1>3, <1>4, <1>5, <1>6, <1>7, <1>8, <1>9, <1>10, <1>11,
       <1>12, <1>13, <1>14, <1>15, <1>16, <1>17, <1>18, <1>19, <1>20,
       <1>21, <1>22, <1>23, <1>24, <1>25, <1>26, <1>27, <1>28, <1>29,
       <1>30, <1>31, <1>32, <1>33
       DEF Next, timerEvent, if_waiting_slot

(* There is an init string.                                                *)
LEMMA NumTypes == NumInitStrings \in Nat /\ NumInitStrings > 0
  BY KpppAssumption

(* The values that are used.                                               *)
LEMMA Values ==
  /\ 0 \in States /\ 1 \in States /\ 2 \in States /\ 3 \in States /\ 4 \in States
  /\ 5 \in States /\ 10 \in States /\ 20 \in States /\ 100 \in States
  /\ 101 \in States /\ 150 \in States
  /\ 0 \in 0 .. NumInitStrings /\ 0 \in Nat
  /\ TRUE \in BOOLEAN /\ FALSE \in BOOLEAN
  BY NumTypes DEF States

(* What a step makes of a record is one.                                   *)
LEMMA FieldVmain ==
  ASSUME NEW d \in DialRecords, NEW v \in States
  PROVE  [d EXCEPT !.vmain = v] \in DialRecords
  BY DEF DialRecords

(* The flags.                                                              *)
LEMMA FieldBoolean ==
  ASSUME NEW d \in DialRecords, NEW e \in BOOLEAN
  PROVE  /\ [d EXCEPT !.expecting = e] \in DialRecords
         /\ [d EXCEPT !.scanning = e] \in DialRecords
         /\ [d EXCEPT !.semaphore = e] \in DialRecords
  BY DEF DialRecords

(* What is dialled is begun again.                                         *)
LEMMA FieldString ==
  ASSUME NEW d \in DialRecords, NEW v \in States, NEW n \in 0 .. NumInitStrings
  PROVE  /\ [d EXCEPT !.vmain = v, !.substate = n] \in DialRecords
         /\ [d EXCEPT !.substate = n, !.vmain = v] \in DialRecords
  BY DEF DialRecords

(* Something is expected.                                                  *)
LEMMA FieldExpecting ==
  ASSUME NEW d \in DialRecords, NEW v \in States, NEW e \in BOOLEAN
  PROVE  [d EXCEPT !.expecting = e, !.vmain = v] \in DialRecords
  BY DEF DialRecords

(* The modem is told to answer.                                            *)
LEMMA FieldAnswer ==
  ASSUME NEW d \in DialRecords, NEW v \in States, NEW e \in BOOLEAN, NEW i \in Nat
  PROVE  [d EXCEPT !.expecting = e, !.vmain = v, !.index = i] \in DialRecords
  BY DEF DialRecords

(* A command of the script.                                                *)
LEMMA FieldScript ==
  ASSUME NEW d \in DialRecords, NEW v \in States, NEW i \in Nat, NEW e \in BOOLEAN, NEW s \in BOOLEAN
  PROVE  [d EXCEPT !.vmain = v, !.index = i, !.expecting = e, !.scanning = s] \in DialRecords
  BY DEF DialRecords

(* All is reset.                                                           *)
LEMMA FieldReset ==
  ASSUME NEW d \in DialRecords, NEW v \in States, NEW n \in 0 .. NumInitStrings, NEW e \in BOOLEAN,
         NEW s \in BOOLEAN, NEW i \in Nat
  PROVE  [d EXCEPT !.vmain = v, !.substate = n, !.expecting = e, !.scanning = s,
                   !.index = i] \in DialRecords
  BY DEF DialRecords

(* A command to the modem changes what is expected only.                   *)
LEMMA Asked ==
  ASSUME NEW asked \in BOOLEAN, NEW d \in DialRecords, Ask(asked, d)
  PROVE  dial' \in DialRecords
  <1> DEFINE e == asked \/ d.expecting
  <1>1. e \in BOOLEAN
    BY DEF DialRecords
  <1>2. dial' = [d EXCEPT !.expecting = e]
    BY DEF Ask
  <1> HIDE DEF e
  <1> QED
    BY <1>1, <1>2, FieldBoolean

(* The types of what is dialled, and where.                                *)
LEMMA DialStep ==
  ASSUME DialTypes, StringInv, [Next]_vars
  PROVE  DialTypes'
  <1> USE DEF DialTypes
  <1>1. CASE Connect
    BY <1>1 DEF Connect, beginConnect, pppdVars
  <1>2. CASE init
    <2>1. dial' = [dial EXCEPT !.vmain = 0, !.substate = 0, !.expecting = FALSE,
                               !.scanning = FALSE, !.index = 0]
      BY <1>2 DEF init
    <2> QED
      BY <2>1, FieldReset, Values
  <1>3. CASE InitOpen
    <2>1. dial' = dial \/ dial' = [dial EXCEPT !.vmain = 20]
      BY <1>3 DEF InitOpen
    <2> QED
      BY <2>1, FieldVmain, Values
  <1>4. CASE InitHangup
    <2>1. dial' = dial \/ dial' = [dial EXCEPT !.vmain = 20]
      BY <1>4 DEF InitHangup
    <2> QED
      BY <2>1, FieldVmain, Values
  <1>5. CASE InitEnds
    <2>1. dial' = [dial EXCEPT !.semaphore = FALSE]
      BY <1>5 DEF InitEnds
    <2> QED
      BY <2>1, FieldBoolean, Values
  <1>6. CASE SendInitString
    <2>1. PICK asked \in BOOLEAN, next \in {3, 5} :
             Ask(asked, [dial EXCEPT !.substate = dial.substate + 1, !.vmain = next])
      BY <1>6 DEF SendInitString
    <2>2. dial.substate + 1 \in 0 .. NumInitStrings
      BY <1>6, NumTypes DEF SendInitString, At, StringInv, DialRecords
    <2>3. next \in States
      BY Values
    <2>4. [dial EXCEPT !.substate = dial.substate + 1, !.vmain = next] \in DialRecords
      BY <2>2, <2>3, FieldString
    <2> QED
      BY <2>1, <2>4, Asked
  <1>7. CASE SetToneDuration
    <2>1. Ask(TRUE, [dial EXCEPT !.vmain = 3])
      BY <1>7 DEF SetToneDuration
    <2> QED
      BY <2>1, FieldVmain, Values, Asked
  <1>8. CASE SetVolume
    <2>1. CASE dial.substate < NumInitStrings
      <3>1. dial' = [dial EXCEPT !.vmain = 0]
        BY <1>8, <2>1 DEF SetVolume
      <3> QED
        BY <3>1, FieldVmain, Values
    <2>2. CASE ~(dial.substate < NumInitStrings)
      <3>1. PICK asked \in BOOLEAN : Ask(asked, [dial EXCEPT !.substate = 0, !.vmain = 4])
        BY <1>8, <2>2 DEF SetVolume
      <3> QED
        BY <3>1, FieldString, Values, Asked
    <2> QED
      BY <2>1, <2>2
  <1>9. CASE SetDialTone
    <2>1. PICK asked \in BOOLEAN : Ask(asked, [dial EXCEPT !.vmain = 1])
      BY <1>9 DEF SetDialTone
    <2> QED
      BY <2>1, FieldVmain, Values, Asked
  <1>10. CASE Dial
    <2>1. dial' = [dial EXCEPT !.expecting = TRUE, !.vmain = 100]
      BY <1>10 DEF Dial
    <2> QED
      BY <2>1, FieldExpecting, Values
  <1>11. CASE AwaitNewline
    <2>1. dial' = [dial EXCEPT !.expecting = TRUE, !.vmain = 101]
      BY <1>11 DEF AwaitNewline
    <2> QED
      BY <2>1, FieldExpecting, Values
  <1>12. CASE Busy
    <2>1. dial' = [dial EXCEPT !.vmain = 0, !.substate = 0]
      BY <1>12 DEF Busy
    <2> QED
      BY <2>1, FieldString, Values
  <1>13. CASE NoCarrier
    <2>1. dial' = [dial EXCEPT !.vmain = 20]
      BY <1>13 DEF NoCarrier
    <2> QED
      BY <2>1, FieldVmain, Values
  <1>14. CASE Connected
    <2>1. dial' = [dial EXCEPT !.vmain = 2]
      BY <1>14 DEF Connected
    <2> QED
      BY <2>1, FieldVmain, Values
  <1>15. CASE RunScript
    <2>1. CASE dial.index = Len(config.script)
      <3>1. dial' = [dial EXCEPT !.vmain = 10]
        BY <1>15, <2>1 DEF RunScript
      <3> QED
        BY <3>1, FieldVmain, Values
    <2>2. CASE dial.index # Len(config.script)
      <3> DEFINE c == config.script[dial.index + 1]
                 v == IF c = "Answer" THEN 150 ELSE 2
                 i == IF c = "Answer" THEN dial.index ELSE dial.index + 1
                 e == c \in {"Expect", "Answer"}
                 s == c = "Scan"
      <3>1. v \in States /\ i \in Nat
        BY Values DEF DialRecords
      <3>2. e \in BOOLEAN /\ s \in BOOLEAN
        OBVIOUS
      <3>3. dial' = [dial EXCEPT !.vmain = v, !.index = i, !.expecting = e, !.scanning = s]
        BY <1>15, <2>2 DEF RunScript
      <3> HIDE DEF c, v, i, e, s
      <3> QED
        BY <3>1, <3>2, <3>3, FieldScript
    <2> QED
      BY <2>1, <2>2
  <1>16. CASE Answer
    <2>1. dial' = [dial EXCEPT !.expecting = TRUE, !.vmain = 2, !.index = dial.index + 1]
      BY <1>16 DEF Answer
    <2>2. dial.index + 1 \in Nat
      BY DEF DialRecords
    <2> QED
      BY <2>1, <2>2, FieldAnswer, Values
  <1>17. CASE StartPPPD
    <2>1. dial' = [dial EXCEPT !.semaphore = TRUE]
      BY <1>17 DEF StartPPPD
    <2> QED
      BY <2>1, FieldBoolean, Values
  <1>18. CASE readChar
    <2>1. dial' = [dial EXCEPT !.expecting = FALSE] \/ dial' = [dial EXCEPT !.scanning = FALSE]
      BY <1>18 DEF readChar
    <2> QED
      BY <2>1, FieldBoolean, Values
  <1>19. CASE pause
    BY <1>19 DEF pause, DialUnchanged, pppdVars
  <1>20. CASE script_timed_out
    <2>1. CASE dial' = dial
      BY <2>1
    <2>2. CASE dial' = [dial EXCEPT !.vmain = 0, !.substate = 0]
      BY <2>2, FieldString, Values
    <2> QED
      BY <1>20, <2>1, <2>2 DEF script_timed_out
  <1>21. CASE HangsUp
    BY <1>21 DEF HangsUp, DialUnchanged, pppdVars
  <1>22. CASE Cancel
    BY <1>22 DEF Cancel, pppdVars
  <1>23. CASE CancelEnds
    BY <1>23 DEF CancelEnds, killPPPDaemon, unlockdevice, hangup, closetty,
       Settled, pppdVars
  <1>24. CASE disconnect
    BY <1>24 DEF disconnect, pppdVars
  <1>25. CASE DisconnectEnds
    BY <1>25 DEF DisconnectEnds, pppdVars
  <1>26. CASE delayedDisconnect
    BY <1>26 DEF delayedDisconnect, killPPPDaemon, unlockdevice, hangup,
       closetty, Settled, pppdVars
  <1>27. CASE InterfaceUp
    BY <1>27 DEF InterfaceUp, closetty, pppdVars
  <1>28. CASE InterfaceFails
    BY <1>28 DEF InterfaceFails, pppdVars
  <1>29. CASE if_waiting_timed_out
    BY <1>29 DEF if_waiting_timed_out, killPPPDaemon, pppdVars
  <1>30. CASE PppdDies
    BY <1>30 DEF PppdDies, Settled, pppdVars
  <1>31. CASE sigPPPDDied
    BY <1>31 DEF sigPPPDDied, Again, Told, DiedUnasked, unlockdevice, hangup,
       closetty, Settled, pppdVars
  <1>32. CASE CloseBox
    BY <1>32 DEF CloseBox, pppdVars
  <1>33. CASE UNCHANGED vars
    BY <1>33 DEF vars
  <1> QED
    BY <1>1, <1>2, <1>3, <1>4, <1>5, <1>6, <1>7, <1>8, <1>9, <1>10, <1>11,
       <1>12, <1>13, <1>14, <1>15, <1>16, <1>17, <1>18, <1>19, <1>20,
       <1>21, <1>22, <1>23, <1>24, <1>25, <1>26, <1>27, <1>28, <1>29,
       <1>30, <1>31, <1>32, <1>33
       DEF Next, timerEvent, if_waiting_slot

(* The settings.                                                           *)
LEMMA ConfigTypes ==
  ASSUME config \in Configs
  PROVE  /\ config.lock \in BOOLEAN /\ config.redial \in BOOLEAN
         /\ config.script \in Seq(Commands)
  BY KpppAssumption

(* The types of the modem.                                                 *)
LEMMA ModemStep ==
  ASSUME config \in Configs, ModemTypes, [Next]_vars
  PROVE  ModemTypes'
  <1> USE DEF ModemTypes
  <1>1. CASE Connect
    BY <1>1 DEF Connect, beginConnect, pppdVars
  <1>2. CASE init
    BY <1>2 DEF init, pppdVars
  <1>3. CASE InitOpen
    <2>1. CASE UNCHANGED modem
      BY <2>1
    <2>2. CASE modem' = [modem EXCEPT !.locked = config.lock, !.tty = TRUE, !.ttyfd = TRUE]
      BY <2>2, ConfigTypes
    <2>3. CASE \E o \in BOOLEAN :
                  modem' = Settled(unlockdevice([modem EXCEPT !.locked = config.lock,
                                                   !.tty = FALSE, !.ttyfd = o]), pppd)
      BY <2>3, ConfigTypes DEF Settled, unlockdevice
    <2> QED
      BY <1>3, <2>1, <2>2, <2>3 DEF InitOpen
  <1>4. CASE InitHangup
    BY <1>4 DEF InitHangup, unlockdevice, hangup, closetty, Settled, pppdVars
  <1>5. CASE InitEnds
    BY <1>5 DEF InitEnds, pppdVars
  <1>6. CASE SendInitString
    BY <1>6 DEF SendInitString, Ask, At, DialUnchanged, pppdVars
  <1>7. CASE SetToneDuration
    BY <1>7 DEF SetToneDuration, Ask, At, DialUnchanged, pppdVars
  <1>8. CASE SetVolume
    BY <1>8 DEF SetVolume, Ask, At, DialUnchanged, pppdVars
  <1>9. CASE SetDialTone
    BY <1>9 DEF SetDialTone, Ask, At, DialUnchanged, pppdVars
  <1>10. CASE Dial
    BY <1>10 DEF Dial, At, DialUnchanged, pppdVars
  <1>11. CASE AwaitNewline
    BY <1>11 DEF AwaitNewline, At, DialUnchanged, pppdVars
  <1>12. CASE Busy
    BY <1>12 DEF Busy, At, DialUnchanged, pppdVars
  <1>13. CASE NoCarrier
    BY <1>13 DEF NoCarrier, unlockdevice, At, DialUnchanged, pppdVars
  <1>14. CASE Connected
    BY <1>14 DEF Connected, At, DialUnchanged, pppdVars
  <1>15. CASE RunScript
    BY <1>15 DEF RunScript, At, DialUnchanged, pppdVars
  <1>16. CASE Answer
    BY <1>16 DEF Answer, At, DialUnchanged, pppdVars
  <1>17. CASE StartPPPD
    BY <1>17 DEF StartPPPD, execPPPDaemon, unlockdevice, hangup, closetty,
       Settled, At, pppdVars
  <1>18. CASE readChar
    BY <1>18 DEF readChar, DialUnchanged, pppdVars
  <1>19. CASE pause
    BY <1>19 DEF pause, DialUnchanged, pppdVars
  <1>20. CASE script_timed_out
    BY <1>20 DEF script_timed_out, hangup
  <1>21. CASE HangsUp
    BY <1>21 DEF HangsUp, DialUnchanged, pppdVars
  <1>22. CASE Cancel
    BY <1>22 DEF Cancel, pppdVars
  <1>23. CASE CancelEnds
    BY <1>23 DEF CancelEnds, killPPPDaemon, unlockdevice, hangup, closetty,
       Settled, pppdVars
  <1>24. CASE disconnect
    BY <1>24 DEF disconnect, pppdVars
  <1>25. CASE DisconnectEnds
    BY <1>25 DEF DisconnectEnds, pppdVars
  <1>26. CASE delayedDisconnect
    BY <1>26 DEF delayedDisconnect, killPPPDaemon, unlockdevice, hangup,
       closetty, Settled, pppdVars
  <1>27. CASE InterfaceUp
    BY <1>27 DEF InterfaceUp, closetty, pppdVars
  <1>28. CASE InterfaceFails
    BY <1>28 DEF InterfaceFails, pppdVars
  <1>29. CASE if_waiting_timed_out
    BY <1>29 DEF if_waiting_timed_out, killPPPDaemon, pppdVars
  <1>30. CASE PppdDies
    BY <1>30 DEF PppdDies, Settled, pppdVars
  <1>31. CASE sigPPPDDied
    BY <1>31 DEF sigPPPDDied, Again, Told, DiedUnasked, unlockdevice, hangup,
       closetty, Settled, pppdVars
  <1>32. CASE CloseBox
    BY <1>32 DEF CloseBox, pppdVars
  <1>33. CASE UNCHANGED vars
    BY <1>33 DEF vars, pppdVars
  <1> QED
    BY <1>1, <1>2, <1>3, <1>4, <1>5, <1>6, <1>7, <1>8, <1>9, <1>10, <1>11,
       <1>12, <1>13, <1>14, <1>15, <1>16, <1>17, <1>18, <1>19, <1>20,
       <1>21, <1>22, <1>23, <1>24, <1>25, <1>26, <1>27, <1>28, <1>29,
       <1>30, <1>31, <1>32, <1>33
       DEF Next, timerEvent, if_waiting_slot

(* An init string that is left is within bounds.                           *)
LEMMA StringStep ==
  ASSUME DialTypes, StringInv, [Next]_vars
  PROVE  StringInv'
  <1> USE NumTypes DEF DialTypes, DialRecords, StringInv, States
  <1>1. CASE Connect
    BY <1>1 DEF Connect, beginConnect, pppdVars
  <1>2. CASE init
    BY <1>2 DEF init
  <1>3. CASE InitOpen
    <2>1. dial' = dial \/ dial' = [dial EXCEPT !.vmain = 20]
      BY <1>3 DEF InitOpen
    <2> QED
      BY <2>1
  <1>4. CASE InitHangup
    BY <1>4 DEF InitHangup
  <1>5. CASE InitEnds
    BY <1>5 DEF InitEnds
  <1>6. CASE SendInitString
    <2>1. PICK asked \in BOOLEAN, next \in {3, 5} :
             Ask(asked, [dial EXCEPT !.substate = dial.substate + 1, !.vmain = next])
      BY <1>6 DEF SendInitString
    <2> QED
      BY <2>1 DEF Ask
  <1>7. CASE SetToneDuration
    BY <1>7 DEF SetToneDuration, Ask, At
  <1>8. CASE SetVolume
    BY <1>8 DEF SetVolume, Ask, At
  <1>9. CASE SetDialTone
    BY <1>9 DEF SetDialTone, Ask, At
  <1>10. CASE Dial
    BY <1>10 DEF Dial, At
  <1>11. CASE AwaitNewline
    BY <1>11 DEF AwaitNewline, At
  <1>12. CASE Busy
    BY <1>12 DEF Busy, At
  <1>13. CASE NoCarrier
    BY <1>13 DEF NoCarrier, At
  <1>14. CASE Connected
    BY <1>14 DEF Connected, At
  <1>15. CASE RunScript
    <2>1. CASE dial.index = Len(config.script)
      BY <1>15, <2>1 DEF RunScript
    <2>2. CASE dial.index # Len(config.script)
      <3> DEFINE v == IF config.script[dial.index + 1] = "Answer" THEN 150 ELSE 2
      <3>1. dial'.vmain = v
        BY <1>15, <2>2 DEF RunScript
      <3> QED
        BY <3>1
    <2> QED
      BY <2>1, <2>2
  <1>16. CASE Answer
    BY <1>16 DEF Answer, At
  <1>17. CASE StartPPPD
    BY <1>17 DEF StartPPPD, At
  <1>18. CASE readChar
    BY <1>18 DEF readChar
  <1>19. CASE pause
    BY <1>19 DEF pause, DialUnchanged, pppdVars
  <1>20. CASE script_timed_out
    BY <1>20 DEF script_timed_out
  <1>21. CASE HangsUp
    BY <1>21 DEF HangsUp, DialUnchanged, pppdVars
  <1>22. CASE Cancel
    BY <1>22 DEF Cancel, pppdVars
  <1>23. CASE CancelEnds
    BY <1>23 DEF CancelEnds, killPPPDaemon, unlockdevice, hangup, closetty,
       Settled, pppdVars
  <1>24. CASE disconnect
    BY <1>24 DEF disconnect, pppdVars
  <1>25. CASE DisconnectEnds
    BY <1>25 DEF DisconnectEnds, pppdVars
  <1>26. CASE delayedDisconnect
    BY <1>26 DEF delayedDisconnect, killPPPDaemon, unlockdevice, hangup,
       closetty, Settled, pppdVars
  <1>27. CASE InterfaceUp
    BY <1>27 DEF InterfaceUp, closetty, pppdVars
  <1>28. CASE InterfaceFails
    BY <1>28 DEF InterfaceFails, pppdVars
  <1>29. CASE if_waiting_timed_out
    BY <1>29 DEF if_waiting_timed_out, killPPPDaemon, pppdVars
  <1>30. CASE PppdDies
    BY <1>30 DEF PppdDies, Settled, pppdVars
  <1>31. CASE sigPPPDDied
    BY <1>31 DEF sigPPPDDied, Again, Told, DiedUnasked, unlockdevice, hangup,
       closetty, Settled, pppdVars
  <1>32. CASE CloseBox
    BY <1>32 DEF CloseBox, pppdVars
  <1>33. CASE UNCHANGED vars
    BY <1>33 DEF vars, pppdVars
  <1> QED
    BY <1>1, <1>2, <1>3, <1>4, <1>5, <1>6, <1>7, <1>8, <1>9, <1>10, <1>11,
       <1>12, <1>13, <1>14, <1>15, <1>16, <1>17, <1>18, <1>19, <1>20,
       <1>21, <1>22, <1>23, <1>24, <1>25, <1>26, <1>27, <1>28, <1>29,
       <1>30, <1>31, <1>32, <1>33
       DEF Next, timerEvent, if_waiting_slot

(* The types of the handlers.                                              *)
LEMMA NestStep ==
  ASSUME nest \in Seq(Frames), [Next]_vars
  PROVE  nest' \in Seq(Frames)
  <1>1. CASE Connect
    BY <1>1 DEF Connect, beginConnect, pppdVars
  <1>2. CASE init
    BY <1>2, Pushed DEF init, Frames
  <1>3. CASE InitOpen
    <2>1. nest' = Front(nest) \/ nest' = Append(Front(nest), "open")
      BY <1>3 DEF InitOpen
    <2>2. Front(nest) \in Seq(Frames)
      BY <1>3, Popped DEF InitOpen
    <2> QED
      BY <2>1, <2>2, Pushed DEF Frames
  <1>4. CASE InitHangup
    BY <1>4, Popped, Pushed DEF InitHangup, Frames
  <1>5. CASE InitEnds
    BY <1>5, Popped DEF InitEnds
  <1>6. CASE SendInitString
    BY <1>6 DEF SendInitString, DialUnchanged
  <1>7. CASE SetToneDuration
    BY <1>7 DEF SetToneDuration, DialUnchanged
  <1>8. CASE SetVolume
    BY <1>8 DEF SetVolume, DialUnchanged
  <1>9. CASE SetDialTone
    BY <1>9 DEF SetDialTone, DialUnchanged
  <1>10. CASE Dial
    BY <1>10 DEF Dial, DialUnchanged
  <1>11. CASE AwaitNewline
    BY <1>11 DEF AwaitNewline, DialUnchanged
  <1>12. CASE Busy
    BY <1>12 DEF Busy, DialUnchanged
  <1>13. CASE NoCarrier
    BY <1>13 DEF NoCarrier, DialUnchanged
  <1>14. CASE Connected
    BY <1>14 DEF Connected, DialUnchanged
  <1>15. CASE RunScript
    BY <1>15 DEF RunScript, DialUnchanged
  <1>16. CASE Answer
    BY <1>16 DEF Answer, DialUnchanged
  <1>17. CASE StartPPPD
    BY <1>17 DEF StartPPPD, execPPPDaemon, unlockdevice, hangup, closetty,
       Settled, At, pppdVars
  <1>18. CASE readChar
    BY <1>18 DEF readChar, DialUnchanged
  <1>19. CASE pause
    BY <1>19 DEF pause, DialUnchanged
  <1>20. CASE script_timed_out
    BY <1>20 DEF script_timed_out, DialUnchanged
  <1>21. CASE HangsUp
    BY <1>21 DEF HangsUp, DialUnchanged
  <1>22. CASE Cancel
    BY <1>22, Pushed DEF Cancel, Frames
  <1>23. CASE CancelEnds
    BY <1>23, Popped DEF CancelEnds
  <1>24. CASE disconnect
    BY <1>24, Pushed DEF disconnect, Frames
  <1>25. CASE DisconnectEnds
    BY <1>25, Popped DEF DisconnectEnds
  <1>26. CASE delayedDisconnect
    BY <1>26 DEF delayedDisconnect, killPPPDaemon, unlockdevice, hangup,
       closetty, Settled, pppdVars
  <1>27. CASE InterfaceUp
    BY <1>27 DEF InterfaceUp, closetty, pppdVars
  <1>28. CASE InterfaceFails
    BY <1>28 DEF InterfaceFails, pppdVars
  <1>29. CASE if_waiting_timed_out
    BY <1>29 DEF if_waiting_timed_out, killPPPDaemon, pppdVars
  <1>30. CASE PppdDies
    BY <1>30 DEF PppdDies, Settled, pppdVars
  <1>31. CASE sigPPPDDied
    BY <1>31, Pushed DEF sigPPPDDied, Again, Told, Frames
  <1>32. CASE CloseBox
    BY <1>32, Popped DEF CloseBox
  <1>33. CASE UNCHANGED vars
    BY <1>33 DEF vars
  <1> QED
    BY <1>1, <1>2, <1>3, <1>4, <1>5, <1>6, <1>7, <1>8, <1>9, <1>10, <1>11,
       <1>12, <1>13, <1>14, <1>15, <1>16, <1>17, <1>18, <1>19, <1>20,
       <1>21, <1>22, <1>23, <1>24, <1>25, <1>26, <1>27, <1>28, <1>29,
       <1>30, <1>31, <1>32, <1>33
       DEF Next, timerEvent, if_waiting_slot

(* A signal tells of each pppd that has ended.                             *)
LEMMA PppdStep ==
  ASSUME ProcessTypes, PppdIsKnown, [Next]_vars
  PROVE  PppdIsKnown'
  <1> USE DEF ProcessTypes, PppdIsKnown
  <1>1. CASE Connect
    BY <1>1 DEF Connect, beginConnect, pppdVars
  <1>2. CASE init
    BY <1>2 DEF init, pppdVars
  <1>3. CASE InitOpen
    BY <1>3 DEF InitOpen, unlockdevice, hangup, closetty, Settled, pppdVars
  <1>4. CASE InitHangup
    BY <1>4 DEF InitHangup, unlockdevice, hangup, closetty, Settled, pppdVars
  <1>5. CASE InitEnds
    BY <1>5 DEF InitEnds, pppdVars
  <1>6. CASE SendInitString
    BY <1>6 DEF SendInitString, Ask, At, DialUnchanged, pppdVars
  <1>7. CASE SetToneDuration
    BY <1>7 DEF SetToneDuration, Ask, At, DialUnchanged, pppdVars
  <1>8. CASE SetVolume
    BY <1>8 DEF SetVolume, Ask, At, DialUnchanged, pppdVars
  <1>9. CASE SetDialTone
    BY <1>9 DEF SetDialTone, Ask, At, DialUnchanged, pppdVars
  <1>10. CASE Dial
    BY <1>10 DEF Dial, At, DialUnchanged, pppdVars
  <1>11. CASE AwaitNewline
    BY <1>11 DEF AwaitNewline, At, DialUnchanged, pppdVars
  <1>12. CASE Busy
    BY <1>12 DEF Busy, At, DialUnchanged, pppdVars
  <1>13. CASE NoCarrier
    BY <1>13 DEF NoCarrier, unlockdevice, At, DialUnchanged, pppdVars
  <1>14. CASE Connected
    BY <1>14 DEF Connected, At, DialUnchanged, pppdVars
  <1>15. CASE RunScript
    BY <1>15 DEF RunScript, At, DialUnchanged, pppdVars
  <1>16. CASE Answer
    BY <1>16 DEF Answer, At, DialUnchanged, pppdVars
  <1>17. CASE StartPPPD
    BY <1>17 DEF StartPPPD, execPPPDaemon, unlockdevice, hangup, closetty,
       Settled, At, pppdVars
  <1>18. CASE readChar
    BY <1>18 DEF readChar, DialUnchanged, pppdVars
  <1>19. CASE pause
    BY <1>19 DEF pause, DialUnchanged, pppdVars
  <1>20. CASE script_timed_out
    BY <1>20 DEF script_timed_out, DialUnchanged, pppdVars
  <1>21. CASE HangsUp
    BY <1>21 DEF HangsUp, DialUnchanged, pppdVars
  <1>22. CASE Cancel
    BY <1>22 DEF Cancel, pppdVars
  <1>23. CASE CancelEnds
    BY <1>23 DEF CancelEnds, killPPPDaemon, unlockdevice, hangup, closetty,
       Settled, pppdVars
  <1>24. CASE disconnect
    BY <1>24 DEF disconnect, pppdVars
  <1>25. CASE DisconnectEnds
    BY <1>25 DEF DisconnectEnds, pppdVars
  <1>26. CASE delayedDisconnect
    BY <1>26 DEF delayedDisconnect, killPPPDaemon, unlockdevice, hangup,
       closetty, Settled, pppdVars
  <1>27. CASE InterfaceUp
    BY <1>27 DEF InterfaceUp, closetty, pppdVars
  <1>28. CASE InterfaceFails
    BY <1>28 DEF InterfaceFails, pppdVars
  <1>29. CASE if_waiting_timed_out
    BY <1>29 DEF if_waiting_timed_out, killPPPDaemon, pppdVars
  <1>30. CASE PppdDies
    BY <1>30 DEF PppdDies, Settled, pppdVars
  <1>31. CASE sigPPPDDied
    BY <1>31 DEF sigPPPDDied, Again, Told, DiedUnasked, unlockdevice, hangup,
       closetty, Settled, pppdVars
  <1>32. CASE CloseBox
    BY <1>32 DEF CloseBox, pppdVars
  <1>33. CASE UNCHANGED vars
    BY <1>33 DEF vars, pppdVars
  <1> QED
    BY <1>1, <1>2, <1>3, <1>4, <1>5, <1>6, <1>7, <1>8, <1>9, <1>10, <1>11,
       <1>12, <1>13, <1>14, <1>15, <1>16, <1>17, <1>18, <1>19, <1>20,
       <1>21, <1>22, <1>23, <1>24, <1>25, <1>26, <1>27, <1>28, <1>29,
       <1>30, <1>31, <1>32, <1>33
       DEF Next, timerEvent, if_waiting_slot

(* There is a window.                                                      *)
LEMMA WindowStep ==
  ASSUME WindowIsShown, [Next]_vars
  PROVE  WindowIsShown'
  <1> USE DEF WindowIsShown
  <1>1. CASE Connect
    BY <1>1 DEF Connect, beginConnect, pppdVars
  <1>2. CASE init
    BY <1>2 DEF init, pppdVars
  <1>3. CASE InitOpen
    BY <1>3 DEF InitOpen, unlockdevice, hangup, closetty, Settled, pppdVars
  <1>4. CASE InitHangup
    BY <1>4 DEF InitHangup, unlockdevice, hangup, closetty, Settled, pppdVars
  <1>5. CASE InitEnds
    BY <1>5 DEF InitEnds, pppdVars
  <1>6. CASE SendInitString
    BY <1>6 DEF SendInitString, Ask, At, DialUnchanged, pppdVars
  <1>7. CASE SetToneDuration
    BY <1>7 DEF SetToneDuration, Ask, At, DialUnchanged, pppdVars
  <1>8. CASE SetVolume
    BY <1>8 DEF SetVolume, Ask, At, DialUnchanged, pppdVars
  <1>9. CASE SetDialTone
    BY <1>9 DEF SetDialTone, Ask, At, DialUnchanged, pppdVars
  <1>10. CASE Dial
    BY <1>10 DEF Dial, At, DialUnchanged, pppdVars
  <1>11. CASE AwaitNewline
    BY <1>11 DEF AwaitNewline, At, DialUnchanged, pppdVars
  <1>12. CASE Busy
    BY <1>12 DEF Busy, At, DialUnchanged, pppdVars
  <1>13. CASE NoCarrier
    BY <1>13 DEF NoCarrier, unlockdevice, At, DialUnchanged, pppdVars
  <1>14. CASE Connected
    BY <1>14 DEF Connected, At, DialUnchanged, pppdVars
  <1>15. CASE RunScript
    BY <1>15 DEF RunScript, At, DialUnchanged, pppdVars
  <1>16. CASE Answer
    BY <1>16 DEF Answer, At, DialUnchanged, pppdVars
  <1>17. CASE StartPPPD
    BY <1>17 DEF StartPPPD, execPPPDaemon, unlockdevice, hangup, closetty,
       Settled, At, pppdVars
  <1>18. CASE readChar
    BY <1>18 DEF readChar, DialUnchanged, pppdVars
  <1>19. CASE pause
    BY <1>19 DEF pause, DialUnchanged, pppdVars
  <1>20. CASE script_timed_out
    BY <1>20 DEF script_timed_out, DialUnchanged, pppdVars
  <1>21. CASE HangsUp
    BY <1>21 DEF HangsUp, DialUnchanged, pppdVars
  <1>22. CASE Cancel
    BY <1>22 DEF Cancel, pppdVars
  <1>23. CASE CancelEnds
    BY <1>23 DEF CancelEnds, killPPPDaemon, unlockdevice, hangup, closetty,
       Settled, pppdVars
  <1>24. CASE disconnect
    BY <1>24 DEF disconnect, pppdVars
  <1>25. CASE DisconnectEnds
    BY <1>25 DEF DisconnectEnds, pppdVars
  <1>26. CASE delayedDisconnect
    BY <1>26 DEF delayedDisconnect, killPPPDaemon, unlockdevice, hangup,
       closetty, Settled, pppdVars
  <1>27. CASE InterfaceUp
    BY <1>27 DEF InterfaceUp, closetty, pppdVars
  <1>28. CASE InterfaceFails
    BY <1>28 DEF InterfaceFails, pppdVars
  <1>29. CASE if_waiting_timed_out
    BY <1>29 DEF if_waiting_timed_out, killPPPDaemon, pppdVars
  <1>30. CASE PppdDies
    BY <1>30 DEF PppdDies, Settled, pppdVars
  <1>31. CASE sigPPPDDied
    BY <1>31 DEF sigPPPDDied, Again, Told, DiedUnasked, unlockdevice, hangup,
       closetty, Settled, pppdVars
  <1>32. CASE CloseBox
    BY <1>32 DEF CloseBox, pppdVars
  <1>33. CASE UNCHANGED vars
    BY <1>33 DEF vars, pppdVars
  <1> QED
    BY <1>1, <1>2, <1>3, <1>4, <1>5, <1>6, <1>7, <1>8, <1>9, <1>10, <1>11,
       <1>12, <1>13, <1>14, <1>15, <1>16, <1>17, <1>18, <1>19, <1>20,
       <1>21, <1>22, <1>23, <1>24, <1>25, <1>26, <1>27, <1>28, <1>29,
       <1>30, <1>31, <1>32, <1>33
       DEF Next, timerEvent, if_waiting_slot

(* What is expected is timed.                                              *)
LEMMA TimedStep ==
  ASSUME TypeInv, TimedInv, [Next]_vars
  PROVE  TimedInv'
  <1> USE ConfigTypes DEF TypeInv, ProcessTypes, DialTypes, DialRecords, TimedInv, Ringing
  <1>1. CASE Connect
    BY <1>1 DEF Connect, beginConnect, pppdVars
  <1>2. CASE init
    BY <1>2 DEF init, pppdVars
  <1>3. CASE InitOpen
    <2>1. dial' = dial \/ dial' = [dial EXCEPT !.vmain = 20]
      BY <1>3 DEF InitOpen
    <2>2. UNCHANGED <<config, timers>>
      BY <1>3 DEF InitOpen
    <2> QED
      BY <2>1, <2>2
  <1>4. CASE InitHangup
    BY <1>4 DEF InitHangup, unlockdevice, hangup, closetty, Settled, pppdVars
  <1>5. CASE InitEnds
    BY <1>5 DEF InitEnds, pppdVars
  <1>6. CASE SendInitString
    BY <1>6 DEF SendInitString, Ask, At, DialUnchanged, pppdVars
  <1>7. CASE SetToneDuration
    BY <1>7 DEF SetToneDuration, Ask, At, DialUnchanged, pppdVars
  <1>8. CASE SetVolume
    <2>1. UNCHANGED <<config, timers>>
      BY <1>8 DEF SetVolume, DialUnchanged
    <2>2. dial'.vmain \in {0, 4} /\ dial'.index = dial.index
      BY <1>8 DEF SetVolume, Ask
    <2> QED
      BY <2>1, <2>2
  <1>9. CASE SetDialTone
    BY <1>9 DEF SetDialTone, Ask, At, DialUnchanged, pppdVars
  <1>10. CASE Dial
    BY <1>10 DEF Dial, At, DialUnchanged, pppdVars
  <1>11. CASE AwaitNewline
    BY <1>11 DEF AwaitNewline, At, DialUnchanged, pppdVars
  <1>12. CASE Busy
    BY <1>12 DEF Busy, At, DialUnchanged, pppdVars
  <1>13. CASE NoCarrier
    BY <1>13 DEF NoCarrier, unlockdevice, At, DialUnchanged, pppdVars
  <1>14. CASE Connected
    BY <1>14 DEF Connected, At, DialUnchanged, pppdVars
  <1>15. CASE RunScript
    <2>1. config' = config
      BY <1>15 DEF RunScript, DialUnchanged
    <2>2. CASE dial.index = Len(config.script)
      <3>1. dial' = [dial EXCEPT !.vmain = 10]
        BY <1>15, <2>2 DEF RunScript
      <3> QED
        BY <2>1, <3>1
    <2>3. CASE dial.index # Len(config.script)
      <3> DEFINE c == config.script[dial.index + 1]
      <3>1. dial.index < Len(config.script)
        BY <2>3
      <3>2. CASE c = "Answer"
        <4>1. dial'.vmain = 150 /\ dial'.index = dial.index
          BY <1>15, <2>3, <3>2 DEF RunScript
        <4> QED
          BY <2>1, <3>1, <3>2, <4>1
      <3>3. CASE c = "Pause"
        <4>1. /\ dial'.vmain = 2 /\ dial'.index = dial.index + 1
              /\ ~dial'.expecting /\ ~dial'.scanning
          BY <1>15, <2>3, <3>3 DEF RunScript
        <4> QED
          BY <2>1, <3>1, <4>1
      <3>4. CASE c \notin {"Answer", "Pause"}
        <4>1. /\ dial'.vmain = 2 /\ dial'.index = dial.index + 1
              /\ "timeout" \in timers'
          BY <1>15, <2>3, <3>4 DEF RunScript
        <4> QED
          BY <2>1, <3>1, <4>1
      <3> QED
        BY <3>2, <3>3, <3>4
    <2> QED
      BY <2>2, <2>3
  <1>16. CASE Answer
    BY <1>16 DEF Answer, At, DialUnchanged, pppdVars
  <1>17. CASE StartPPPD
    BY <1>17 DEF StartPPPD, execPPPDaemon, unlockdevice, hangup, closetty,
       Settled, At, pppdVars
  <1>18. CASE readChar
    BY <1>18 DEF readChar, DialUnchanged, pppdVars
  <1>19. CASE pause
    BY <1>19 DEF pause, DialUnchanged, pppdVars
  <1>20. CASE script_timed_out
    <2>1. config' = config
      BY <1>20 DEF script_timed_out, DialUnchanged
    <2>2. CASE dial.vmain = 20
      BY <1>20, <2>1, <2>2 DEF script_timed_out
    <2>3. CASE dial.vmain # 20
      <3>1. dial'.vmain = 0 /\ dial'.index = dial.index
        BY <1>20, <2>3 DEF script_timed_out
      <3> QED
        BY <2>1, <3>1
    <2> QED
      BY <2>2, <2>3
  <1>21. CASE HangsUp
    BY <1>21 DEF HangsUp, DialUnchanged, pppdVars
  <1>22. CASE Cancel
    BY <1>22 DEF Cancel, pppdVars
  <1>23. CASE CancelEnds
    BY <1>23 DEF CancelEnds, killPPPDaemon, unlockdevice, hangup, closetty,
       Settled, pppdVars
  <1>24. CASE disconnect
    BY <1>24 DEF disconnect, pppdVars
  <1>25. CASE DisconnectEnds
    BY <1>25 DEF DisconnectEnds, pppdVars
  <1>26. CASE delayedDisconnect
    BY <1>26 DEF delayedDisconnect, killPPPDaemon, unlockdevice, hangup,
       closetty, Settled, pppdVars
  <1>27. CASE InterfaceUp
    BY <1>27 DEF InterfaceUp, closetty, pppdVars
  <1>28. CASE InterfaceFails
    BY <1>28 DEF InterfaceFails, pppdVars
  <1>29. CASE if_waiting_timed_out
    BY <1>29 DEF if_waiting_timed_out, killPPPDaemon, pppdVars
  <1>30. CASE PppdDies
    BY <1>30 DEF PppdDies, Settled, pppdVars
  <1>31. CASE sigPPPDDied
    BY <1>31 DEF sigPPPDDied, Again, Told, DiedUnasked, unlockdevice, hangup,
       closetty, Settled, pppdVars
  <1>32. CASE CloseBox
    BY <1>32 DEF CloseBox, pppdVars
  <1>33. CASE UNCHANGED vars
    BY <1>33 DEF vars, pppdVars
  <1> QED
    BY <1>1, <1>2, <1>3, <1>4, <1>5, <1>6, <1>7, <1>8, <1>9, <1>10, <1>11,
       <1>12, <1>13, <1>14, <1>15, <1>16, <1>17, <1>18, <1>19, <1>20,
       <1>21, <1>22, <1>23, <1>24, <1>25, <1>26, <1>27, <1>28, <1>29,
       <1>30, <1>31, <1>32, <1>33
       DEF Next, timerEvent, if_waiting_slot

(* Phases follow one another.                                              *)
LEMMA PhaseStep ==
  ASSUME nest \in Seq(Frames), PhaseInv, [Next]_vars
  PROVE  PhaseInv'
  <1> USE DEF PhaseInv, Dials, Calm
  <1>1. CASE Connect
    BY <1>1, Empty DEF Connect, beginConnect, pppdVars, UnderWay
  <1>2. CASE init
    BY <1>2, Pushed DEF init, pppdVars, InitFrames, Frames
  <1>3. CASE InitOpen
    <2>1. /\ nest # <<>> /\ Last(nest) = "pre"
          /\ UNCHANGED <<shown, timers, running, error, astray>>
          /\ nest' = Front(nest) \/ nest' = Append(Front(nest), "open")
      BY <1>3 DEF InitOpen, pppdVars
    <2>2. Has(nest, InitFrames)
      BY <2>1, Popped DEF InitFrames
    <2>3. CASE nest' = Front(nest)
      <3>1. Once(nest) => ~Has(nest', InitFrames) /\ Once(nest')
        BY <2>1, <2>3, Popped DEF InitFrames
      <3> QED
        BY <2>1, <2>2, <3>1
    <2>4. CASE nest' = Append(Front(nest), "open")
      <3>1. "open" \in Frames /\ "open" \in InitFrames /\ Last(nest) \in InitFrames
        BY <2>1 DEF Frames, InitFrames
      <3>2. /\ Has(nest', InitFrames) /\ (Once(nest) => Once(nest'))
            /\ Has(nest', {"cancel", "disconnect"}) => Has(nest, {"cancel", "disconnect"})
        BY <2>1, <2>4, <3>1, Replaced
      <3> QED
        BY <2>1, <2>2, <3>2
    <2> QED
      BY <2>1, <2>3, <2>4
  <1>4. CASE InitHangup
    <2>1. /\ nest # <<>> /\ Last(nest) = "open"
          /\ UNCHANGED <<shown, timers, running, error, astray>>
          /\ nest' = Front(nest) \/ nest' = Append(Front(nest), "hung")
      BY <1>4 DEF InitHangup, pppdVars
    <2>2. Has(nest, InitFrames)
      BY <2>1, Popped DEF InitFrames
    <2>3. CASE nest' = Front(nest)
      <3>1. Once(nest) => ~Has(nest', InitFrames) /\ Once(nest')
        BY <2>1, <2>3, Popped DEF InitFrames
      <3> QED
        BY <2>1, <2>2, <3>1
    <2>4. CASE nest' = Append(Front(nest), "hung")
      <3>1. "hung" \in Frames /\ "hung" \in InitFrames /\ Last(nest) \in InitFrames
        BY <2>1 DEF Frames, InitFrames
      <3>2. /\ Has(nest', InitFrames) /\ (Once(nest) => Once(nest'))
            /\ Has(nest', {"cancel", "disconnect"}) => Has(nest, {"cancel", "disconnect"})
        BY <2>1, <2>4, <3>1, Replaced
      <3> QED
        BY <2>1, <2>2, <3>2
    <2> QED
      BY <2>1, <2>3, <2>4
  <1>5. CASE InitEnds
    BY <1>5, Popped DEF InitEnds, pppdVars, InitFrames, Frames
  <1>6. CASE SendInitString
    BY <1>6 DEF SendInitString, Ask, At, DialUnchanged, pppdVars
  <1>7. CASE SetToneDuration
    BY <1>7 DEF SetToneDuration, Ask, At, DialUnchanged, pppdVars
  <1>8. CASE SetVolume
    BY <1>8 DEF SetVolume, Ask, At, DialUnchanged, pppdVars
  <1>9. CASE SetDialTone
    BY <1>9 DEF SetDialTone, Ask, At, DialUnchanged, pppdVars
  <1>10. CASE Dial
    BY <1>10 DEF Dial, At, DialUnchanged, pppdVars
  <1>11. CASE AwaitNewline
    BY <1>11 DEF AwaitNewline, At, DialUnchanged, pppdVars
  <1>12. CASE Busy
    BY <1>12 DEF Busy, At, DialUnchanged, pppdVars
  <1>13. CASE NoCarrier
    BY <1>13 DEF NoCarrier, unlockdevice, At, DialUnchanged, pppdVars
  <1>14. CASE Connected
    BY <1>14 DEF Connected, At, DialUnchanged, pppdVars
  <1>15. CASE RunScript
    BY <1>15 DEF RunScript, At, DialUnchanged, pppdVars
  <1>16. CASE Answer
    BY <1>16 DEF Answer, At, DialUnchanged, pppdVars
  <1>17. CASE StartPPPD
    BY <1>17 DEF StartPPPD, execPPPDaemon, At, pppdVars
  <1>18. CASE readChar
    BY <1>18 DEF readChar, DialUnchanged, pppdVars
  <1>19. CASE pause
    BY <1>19 DEF pause, DialUnchanged, pppdVars
  <1>20. CASE script_timed_out
    BY <1>20 DEF script_timed_out, DialUnchanged, pppdVars
  <1>21. CASE HangsUp
    BY <1>21 DEF HangsUp, DialUnchanged, pppdVars
  <1>22. CASE Cancel
    BY <1>22, Pushed, InRange DEF Cancel, pppdVars, InitFrames, Frames
  <1>23. CASE CancelEnds
    BY <1>23, Popped DEF CancelEnds, killPPPDaemon, pppdVars, InitFrames, Frames
  <1>24. CASE disconnect
    BY <1>24, Pushed DEF disconnect, pppdVars, InitFrames, Frames
  <1>25. CASE DisconnectEnds
    BY <1>25, Popped DEF DisconnectEnds, pppdVars, InitFrames, Frames
  <1>26. CASE delayedDisconnect
    BY <1>26 DEF delayedDisconnect, killPPPDaemon, pppdVars
  <1>27. CASE InterfaceUp
    BY <1>27 DEF InterfaceUp, closetty, pppdVars
  <1>28. CASE InterfaceFails
    BY <1>28 DEF InterfaceFails, pppdVars
  <1>29. CASE if_waiting_timed_out
    BY <1>29 DEF if_waiting_timed_out, killPPPDaemon, pppdVars
  <1>30. CASE PppdDies
    BY <1>30 DEF PppdDies, Settled, pppdVars
  <1>31. CASE sigPPPDDied
    <2>1. CASE ~DiedUnasked
      <3>1. error' = "none" /\ UNCHANGED <<shown, nest, timers, running, astray>>
        BY <1>31, <2>1 DEF sigPPPDDied
      <3> QED
        BY <3>1
    <2>2. CASE DiedUnasked
      <3>1. /\ running' = FALSE
            /\ IF config.redial THEN Again ELSE Told
            /\ Calm' => Calm
            /\ Calm' /\ "init" \in timers' =>
                  nest = <<>> /\ timers \cap {"init", "main", "lost"} = {}
        BY <1>31, <2>2 DEF sigPPPDDied
      <3>2. Calm => ({"init", "main"} \cap timers = {} /\ ~Has(nest, InitFrames))
        BY <2>2 DEF DiedUnasked
      <3>3. CASE Told
        <4>1. /\ Once(nest) => Once(nest')
              /\ Has(nest', InitFrames) => Has(nest, InitFrames)
          BY <3>3, Pushed DEF Told, Frames, InitFrames
        <4> QED
          BY <3>1, <3>2, <3>3, <4>1 DEF Told
      <3>4. CASE Again
        <4>1. nest = <<>> => ~Has(nest, InitFrames) /\ ~Has(nest, {"cancel", "disconnect"})
          BY Empty
        <4>2. /\ nest' = nest /\ error' = "none"
              /\ timers' \subseteq timers \cup {"init"}
              /\ {"disconnect", "if", "ifTimeout"} \cap timers' = {}
              /\ "init" \in timers' /\ "init" \notin timers =>
                    "con" \in shown' /\ "conwin" \notin shown'
          BY <3>4 DEF Again
        <4> QED
          BY <3>1, <3>2, <4>1, <4>2
      <3> QED
        BY <3>1, <3>3, <3>4
    <2> QED
      BY <2>1, <2>2
  <1>32. CASE CloseBox
    BY <1>32, Popped DEF CloseBox, pppdVars, InitFrames, Frames
  <1>33. CASE UNCHANGED vars
    BY <1>33 DEF vars
  <1> QED
    BY <1>1, <1>2, <1>3, <1>4, <1>5, <1>6, <1>7, <1>8, <1>9, <1>10, <1>11,
       <1>12, <1>13, <1>14, <1>15, <1>16, <1>17, <1>18, <1>19, <1>20,
       <1>21, <1>22, <1>23, <1>24, <1>25, <1>26, <1>27, <1>28, <1>29,
       <1>30, <1>31, <1>32, <1>33
       DEF Next, timerEvent, if_waiting_slot

(* Who holds the line.                                                     *)
LEMMA LineStep ==
  ASSUME TypeInv, PhaseInv, LineInv, [Next]_vars
  PROVE  LineInv'
  <1> USE ConfigTypes DEF TypeInv, ProcessTypes, ModemTypes, PhaseInv, LineInv, Ends, Calm,
              Dials, InitFrames, Frames
  <1>1. CASE Connect
    BY <1>1, Empty DEF Connect, beginConnect, pppdVars, UnderWay
  <1>2. CASE init
    BY <1>2, Pushed DEF init, pppdVars
  <1>3. CASE InitOpen
    <2>1. /\ nest # <<>> /\ Last(nest) = "pre"
          /\ UNCHANGED <<config, shown, timers, pppd, astray>>
          /\ nest' = Front(nest) \/ nest' = Append(Front(nest), "open")
      BY <1>3 DEF InitOpen, pppdVars
    <2>2. "open" \in Frames /\ "open" \in InitFrames /\ Last(nest) \in InitFrames
      BY <2>1
    <2>3. Has(nest, {"disconnect"}) => Has(nest', {"disconnect"})
      <3>1. "open" \notin {"disconnect"} /\ Last(nest) \notin {"disconnect"}
        BY <2>1
      <3>2. CASE nest' = Front(nest)
        BY <2>1, <3>1, <3>2, Popped
      <3>3. CASE nest' = Append(Front(nest), "open")
        BY <2>1, <2>2, <3>1, <3>3, Replaced
      <3> QED
        BY <2>1, <3>2, <3>3
    <2>4. Calm => "if" \notin timers
      BY <2>1, <2>2, Popped
    <2>5. CASE UNCHANGED modem
      BY <2>1, <2>3, <2>5
    <2>6. CASE /\ ~modem.locked
               /\ modem' = [modem EXCEPT !.locked = config.lock, !.tty = TRUE, !.ttyfd = TRUE]
      BY <2>1, <2>3, <2>4, <2>6
    <2>7. CASE \E o \in BOOLEAN :
                  modem' = Settled(unlockdevice([modem EXCEPT !.locked = config.lock,
                                                   !.tty = FALSE, !.ttyfd = o]), pppd)
      BY <2>1, <2>3, <2>4, <2>7 DEF Settled, unlockdevice
    <2> QED
      BY <1>3, <2>5, <2>6, <2>7 DEF InitOpen
  <1>4. CASE InitHangup
    <2>1. /\ nest # <<>> /\ Last(nest) = "open"
          /\ UNCHANGED <<config, shown, timers, pppd, astray>>
          /\ nest' = Front(nest) \/ nest' = Append(Front(nest), "hung")
      BY <1>4 DEF InitHangup, pppdVars
    <2>2. "hung" \in Frames /\ "hung" \in InitFrames /\ Last(nest) \in InitFrames
      BY <2>1
    <2>3. Has(nest, {"disconnect"}) => Has(nest', {"disconnect"})
      <3>1. "hung" \notin {"disconnect"} /\ Last(nest) \notin {"disconnect"}
        BY <2>1
      <3>2. CASE nest' = Front(nest)
        BY <2>1, <3>1, <3>2, Popped
      <3>3. CASE nest' = Append(Front(nest), "hung")
        BY <2>1, <2>2, <3>1, <3>3, Replaced
      <3> QED
        BY <2>1, <3>2, <3>3
    <2>4. Calm => "if" \notin timers
      BY <2>1, <2>2, Popped
    <2>5. CASE modem.tty
      BY <1>4, <2>1, <2>3, <2>4, <2>5 DEF InitHangup, hangup
    <2>6. CASE ~modem.tty
      BY <1>4, <2>1, <2>3, <2>4, <2>6 DEF InitHangup, Settled, unlockdevice
    <2> QED
      BY <2>5, <2>6
  <1>5. CASE InitEnds
    BY <1>5, Popped DEF InitEnds, pppdVars
  <1>6. CASE SendInitString
    BY <1>6 DEF SendInitString, Ask, At, DialUnchanged, pppdVars
  <1>7. CASE SetToneDuration
    BY <1>7 DEF SetToneDuration, Ask, At, DialUnchanged, pppdVars
  <1>8. CASE SetVolume
    BY <1>8 DEF SetVolume, Ask, At, DialUnchanged, pppdVars
  <1>9. CASE SetDialTone
    BY <1>9 DEF SetDialTone, Ask, At, DialUnchanged, pppdVars
  <1>10. CASE Dial
    BY <1>10 DEF Dial, At, DialUnchanged, pppdVars
  <1>11. CASE AwaitNewline
    BY <1>11 DEF AwaitNewline, At, DialUnchanged, pppdVars
  <1>12. CASE Busy
    BY <1>12 DEF Busy, At, DialUnchanged, pppdVars
  <1>13. CASE NoCarrier
    BY <1>13 DEF NoCarrier, unlockdevice, At, DialUnchanged, pppdVars
  <1>14. CASE Connected
    BY <1>14 DEF Connected, At, DialUnchanged, pppdVars
  <1>15. CASE RunScript
    BY <1>15 DEF RunScript, At, DialUnchanged, pppdVars
  <1>16. CASE Answer
    BY <1>16 DEF Answer, At, DialUnchanged, pppdVars
  <1>17. CASE StartPPPD
    <2>1. UNCHANGED <<config, nest>>
      BY <1>17 DEF StartPPPD
    <2>2. CASE execPPPDaemon /\ modem' = Settled([closetty(modem) EXCEPT !.ttyfd = FALSE], pppd')
      BY <2>1, <2>2 DEF Settled, closetty
    <2>3. CASE /\ modem' = Settled(unlockdevice(hangup(closetty(modem))), pppd)
               /\ pppd' = pppd
      <3>1. modem' = Settled(unlockdevice(closetty(modem)), pppd)
        BY <2>3 DEF hangup, closetty
      <3> QED
        BY <2>1, <2>3, <3>1 DEF Settled, closetty, unlockdevice
    <2> QED
      BY <1>17, <2>2, <2>3 DEF StartPPPD
  <1>18. CASE readChar
    BY <1>18 DEF readChar, DialUnchanged, pppdVars
  <1>19. CASE pause
    BY <1>19 DEF pause, DialUnchanged, pppdVars
  <1>20. CASE script_timed_out
    <2>1. /\ UNCHANGED <<config, shown, nest, pppd, astray>>
          /\ "if" \in timers' => "if" \in timers
          /\ "disconnect" \in timers => "disconnect" \in timers'
      BY <1>20 DEF script_timed_out, DialUnchanged, pppdVars
    <2>2. modem' = modem \/ modem' = hangup(modem)
      BY <1>20 DEF script_timed_out
    <2> QED
      BY <2>1, <2>2 DEF hangup
  <1>21. CASE HangsUp
    BY <1>21 DEF HangsUp, DialUnchanged, pppdVars
  <1>22. CASE Cancel
    BY <1>22, Pushed DEF Cancel, pppdVars
  <1>23. CASE CancelEnds
    BY <1>23, Popped DEF CancelEnds, killPPPDaemon, unlockdevice, hangup,
       closetty, Settled, pppdVars
  <1>24. CASE disconnect
    BY <1>24, Pushed DEF disconnect, pppdVars
  <1>25. CASE DisconnectEnds
    BY <1>25, Popped DEF DisconnectEnds, pppdVars
  <1>26. CASE delayedDisconnect
    BY <1>26 DEF delayedDisconnect, killPPPDaemon, unlockdevice, hangup,
       closetty, Settled, pppdVars
  <1>27. CASE InterfaceUp
    BY <1>27 DEF InterfaceUp, closetty, pppdVars
  <1>28. CASE InterfaceFails
    BY <1>28 DEF InterfaceFails, pppdVars
  <1>29. CASE if_waiting_timed_out
    BY <1>29 DEF if_waiting_timed_out, killPPPDaemon, pppdVars
  <1>30. CASE PppdDies
    BY <1>30 DEF PppdDies, Settled, pppdVars
  <1>31. CASE sigPPPDDied
    <2>1. config' = config /\ pppd' = pppd
      BY <1>31 DEF sigPPPDDied
    <2>2. CASE ~DiedUnasked
      BY <1>31, <2>1, <2>2 DEF sigPPPDDied
    <2>3. CASE DiedUnasked
      <3>1. modem' = Settled(unlockdevice(modem), pppd)
        BY <1>31, <2>3 DEF sigPPPDDied
      <3> QED
        BY <2>1, <3>1 DEF Settled, unlockdevice
    <2> QED
      BY <2>2, <2>3
  <1>32. CASE CloseBox
    BY <1>32, Popped DEF CloseBox, pppdVars
  <1>33. CASE UNCHANGED vars
    BY <1>33 DEF vars, pppdVars
  <1> QED
    BY <1>1, <1>2, <1>3, <1>4, <1>5, <1>6, <1>7, <1>8, <1>9, <1>10, <1>11,
       <1>12, <1>13, <1>14, <1>15, <1>16, <1>17, <1>18, <1>19, <1>20,
       <1>21, <1>22, <1>23, <1>24, <1>25, <1>26, <1>27, <1>28, <1>29,
       <1>30, <1>31, <1>32, <1>33
       DEF Next, timerEvent, if_waiting_slot

(* What no step changes holds from the start.                              *)
LEMMA InitIInv == Init => IInv
  <1> SUFFICES ASSUME Init PROVE IInv
    OBVIOUS
  <1>1. nest = <<>> /\ nest \in Seq(Frames)
    BY DEF Init
  <1>2. \A F : ~Has(nest, F) /\ Once(nest)
    BY <1>1, Empty
  <1>3. TypeInv
    <2>1. ProcessTypes
      <3>1. died \in 0 .. MaxSignals
        BY KpppAssumption DEF Init
      <3>2. config \in Configs /\ astray = {} /\ timers = {} /\ shown = {"main"}
        BY DEF Init
      <3>3. pppd = "none" /\ running = FALSE /\ error = "none"
        BY DEF Init
      <3> QED
        BY <3>1, <3>2, <3>3 DEF ProcessTypes, Timers
    <2>2. ModemTypes
      BY DEF Init, ModemTypes
    <2>3. DialTypes /\ StringInv
      BY NumTypes DEF Init, DialTypes, DialRecords, States, StringInv
    <2> QED
      BY <1>1, <2>1, <2>2, <2>3 DEF TypeInv
  <1>4. PppdIsKnown /\ WindowIsShown
    BY DEF Init, PppdIsKnown, WindowIsShown
  <1>5. TimedInv
    <2>1. config.script \in Seq(Commands)
      BY ConfigTypes DEF Init
    <2> QED
      BY <2>1 DEF Init, TimedInv
  <1>6. PhaseInv
    BY <1>2 DEF Init, PhaseInv, Dials
  <1>7. LineInv
    BY DEF Init, LineInv
  <1> QED
    BY <1>3, <1>4, <1>5, <1>6, <1>7 DEF IInv

(* Every step keeps the invariant.                                         *)
LEMMA StepIInv == IInv /\ [Next]_vars => IInv'
  <1> SUFFICES ASSUME IInv, [Next]_vars PROVE IInv'
    OBVIOUS
  <1>1. /\ TypeInv /\ PppdIsKnown /\ WindowIsShown /\ TimedInv /\ PhaseInv /\ LineInv
        /\ ProcessTypes /\ ModemTypes /\ DialTypes /\ StringInv
        /\ nest \in Seq(Frames) /\ config \in Configs
    BY DEF IInv, TypeInv, ProcessTypes
  <1>2. TypeInv'
    BY <1>1, ProcessStep, ModemStep, DialStep, StringStep, NestStep DEF TypeInv
  <1>3. PppdIsKnown' /\ WindowIsShown'
    BY <1>1, PppdStep, WindowStep
  <1>4. TimedInv'
    BY <1>1, TimedStep
  <1>5. PhaseInv'
    BY <1>1, PhaseStep
  <1>6. LineInv'
    BY <1>1, LineStep
  <1> QED
    BY <1>2, <1>3, <1>4, <1>5, <1>6 DEF IInv

(* The invariant holds throughout.                                         *)
THEOREM KpppInvariant == Spec => []IInv
  <1>1. Init => IInv
    BY InitIInv
  <1>2. IInv /\ [Next]_vars => IInv'
    BY StepIInv
  <1> QED
    BY <1>1, <1>2, PTL DEF Spec

(* The state of ConnectWidget, of the opener and of kppp's timers stays     *)
(* within its types, and the init string asked for is one that is          *)
(* configured.                                                             *)
THEOREM KpppTypes == Spec => []TypeOK
  <1>1. IInv => TypeOK
    BY DEF IInv, TypeInv, TypeOK, ProcessTypes, ModemTypes, DialTypes, DialRecords, States
  <1> QED
    BY <1>1, KpppInvariant, PTL

(* While kppp dials or logs on there is a window to cancel it from, and     *)
(* what is expected of the peer is timed, unless a connection was begun on  *)
(* top of another or cancelled in its first moments.                       *)
THEOREM DialGuarded == Spec => []DialIsGuarded
  <1>1. IInv => DialIsGuarded
    <2> SUFFICES ASSUME IInv PROVE DialIsGuarded
      OBVIOUS
    <2>1. DialIsShown
      BY DEF IInv, PhaseInv, Dials, Calm, DialIsShown
    <2>2. DialIsTimed
      BY DEF IInv, TimedInv, DialIsTimed
    <2> QED
      BY <2>1, <2>2 DEF IInv, DialIsGuarded
  <1> QED
    BY <1>1, KpppInvariant, PTL

(* pppdRunning() is true of every pppd that nobody has told to end, unless  *)
(* an earlier one's signal was mistaken for its death, and false again once *)
(* its death has been handled, unless it died before its pid was known.    *)
THEOREM PppdKnown == Spec => []PppdIsKnown
  <1>1. IInv => PppdIsKnown
    BY DEF IInv
  <1> QED
    BY <1>1, KpppInvariant, PTL

(* With a lock file the line is not left up with nobody on it, however a    *)
(* connection ends.                                                        *)
THEOREM LineAttended == Spec => []LineIsAttended
  <1>1. IInv => LineIsAttended
    BY DEF IInv, LineInv, Calm, LineIsAttended
  <1> QED
    BY <1>1, KpppInvariant, PTL

=============================================================================
