-------------------------- MODULE LanServers_proofs --------------------------
(***************************************************************************)
(* Theorems about the two servers for a local network: the LAN information *)
(* servers (LISa), for any number of hosts, and kpf's web server           *)
(* (KpfWebServer), for any connections, requests and limits.               *)
(*                                                                         *)
(* That a LAN information server has one child at most, and serves whoever *)
(* it lets wait, rests on who can be among the clients of another host:    *)
(* the children that read a list from it, and they only.                   *)
(*                                                                         *)
(* That kpf's timers run, and that its Servers keep to the bandwidth,      *)
(* rests on what a Server's fields say of each other, on a Server's share  *)
(* never being more than what is left, and on the iterator of slotWrite    *)
(* standing at a Server.                                                   *)
(***************************************************************************)
EXTENDS LISa, KpfWebServer, SequenceTheorems, WellFoundedInduction, TLAPS

-----------------------------------------------------------------------------
(* LISa                                                                    *)

Children == [pc : {"none", "find", "ask", "scan", "get", "read", "write"},
             from : Hosts \cup {NoHost}, list : Lists]

(* The types, of one variable at a time.                                   *)
Typed ==
    /\ up \in [Hosts -> BOOLEAN] /\ scanning \in [Hosts -> BOOLEAN]
    /\ informed \in [Hosts -> BOOLEAN] /\ bc \in [Hosts -> BOOLEAN]
    /\ due \in [Hosts -> BOOLEAN]
    /\ list \in [Hosts -> Lists]
    /\ child \in [Hosts -> Children]
    /\ pipe \in [Hosts -> Results \cup {Partial, NoData, NoPipe}]
    /\ user \in [Hosts -> {"none", "connects", "waits"}]
    /\ peers \in [Hosts -> SUBSET Hosts] /\ asked \in [Hosts -> SUBSET Hosts]

(* A host's foreign clients are the children that read its list.           *)
PeersRead ==
    \A h, g \in Hosts : g \in peers[h] => child[g].pc = "read" /\ child[g].from = h

(* A server that is down keeps nothing, and nobody waits for it.           *)
DownIsIdle ==
    \A h \in Hosts : ~up[h] =>
        ~scanning[h] /\ ~informed[h] /\ user[h] = "none" /\ peers[h] = {}

ChildInv == OneChild /\ PeersRead
ListInv == EverybodyIsServed /\ DownIsIdle
LisaInv == Typed /\ ChildInv /\ ListInv

-----------------------------------------------------------------------------
LEMMA InitInv == Init => LisaInv
  <1> SUFFICES ASSUME Init PROVE LisaInv
    OBVIOUS
  <1> USE DEF Init, NoChild
  <1>1. Typed
    BY DEF Typed, Lists, Children
  <1>2. ChildInv
    BY DEF ChildInv, OneChild, PeersRead
  <1>3. ListInv
    BY DEF ListInv, EverybodyIsServed, ServerIsInformed, NobodyWaitsInVain, DownIsIdle
  <1> QED
    BY <1>1, <1>2, <1>3 DEF LisaInv

(* Serving lets children that read write, and ends nobody's child.         *)
LEMMA ServedIsWritten ==
  ASSUME Typed, NEW h \in Hosts, NEW l \in Lists, Served(h, l)
  PROVE  /\ child' \in [Hosts -> Children]
         /\ \A g \in Hosts : (child'[g].pc = "none") = (child[g].pc = "none")
         /\ \A g \in Hosts : child'[g] = child[g] \/ child[g].from = h
  <1>1. child \in [Hosts -> Children]
    BY DEF Typed, Children
  <1>2. ASSUME NEW g \in Hosts
        PROVE  /\ child'[g] \in Children
               /\ (child'[g].pc = "none") = (child[g].pc = "none")
               /\ child'[g] = child[g] \/ child[g].from = h
    <2>1. CASE child'[g] = child[g]
      BY <1>1, <2>1
    <2>2. CASE child'[g] = [child[g] EXCEPT !.pc = "write", !.list = l] /\ child[g].from = h
               /\ child[g].pc = "read"
      BY <1>1, <2>2 DEF Children
    <2> QED
      BY <2>1, <2>2 DEF Served
  <1> QED
    BY <1>2 DEF Served

LEMMA ServeTypes ==
  ASSUME Typed, NEW h \in Hosts, NEW known \in BOOLEAN, NEW l \in Lists,
         serveAndClean(h, known, l)
  PROVE  /\ child' \in [Hosts -> Children]
         /\ user' \in [Hosts -> {"none", "connects", "waits"}]
         /\ peers' \in [Hosts -> SUBSET Hosts]
  BY ServedIsWritten DEF Typed, serveAndClean, Children

(* Nobody is served by two hosts, so that those who are served are among   *)
(* the clients of no host.                                                 *)
LEMMA ServeKeepsPeers ==
  ASSUME Typed, PeersRead, NEW h \in Hosts, NEW known \in BOOLEAN, NEW l \in Lists,
         serveAndClean(h, known, l)
  PROVE  PeersRead'
  <1>1. CASE known
    <2>1. \A g \in Hosts : child'[g] = child[g] \/ child[g].from = h
      BY <1>1, ServedIsWritten DEF serveAndClean
    <2>2. \A k \in Hosts : peers'[k] = IF k = h THEN {} ELSE peers[k]
      BY <1>1 DEF serveAndClean, Typed
    <2> QED
      BY <2>1, <2>2 DEF PeersRead
  <1>2. CASE ~known
    BY <1>2 DEF serveAndClean, PeersRead
  <1> QED
    BY <1>1, <1>2

(* The death of a server.                                                  *)
LEMMA ExitKeeps ==
  ASSUME LisaInv, NEW h \in Hosts, Exit(h)
  PROVE  LisaInv'
  <1> USE DEF LisaInv, Exit
  <1>1. child \in [Hosts -> Children] /\ peers \in [Hosts -> SUBSET Hosts]
    BY DEF Typed, Children
  <1>2. child' \in [Hosts -> Children]
    <2> SUFFICES ASSUME NEW g \in Hosts PROVE child'[g] \in Children
      BY <1>1
    <2>1. CASE child'[g] = NoChild
      BY <2>1 DEF NoChild, Children, Lists
    <2>2. CASE child'[g] = [child[g] EXCEPT !.pc = "write"]
      BY <1>1, <2>2 DEF Children
    <2>3. CASE child'[g] = child[g]
      BY <1>1, <2>3
    <2> QED
      BY <2>1, <2>2, <2>3
  <1>3. peers' \in [Hosts -> SUBSET Hosts]
    BY <1>1
  <1>4. Typed'
    BY <1>2, <1>3 DEF Typed, Lists, Children
  <1>5. \A g \in Hosts : g # h /\ child'[g].pc # "none" => child[g].pc # "none"
    <2> SUFFICES ASSUME NEW g \in Hosts, g # h, child'[g].pc # "none"
                 PROVE  child[g].pc # "none"
      OBVIOUS
    <2>1. CASE g \in peers[h]
      BY <2>1 DEF ChildInv, PeersRead
    <2>2. CASE g \notin peers[h]
      BY <2>2
    <2> QED
      BY <2>1, <2>2
  <1>6. OneChild'
    BY <1>5 DEF ChildInv, OneChild, Typed, NoChild
  <1>7. PeersRead'
    <2> SUFFICES ASSUME NEW k \in Hosts, NEW g \in Hosts, g \in peers'[k]
                 PROVE  child'[g].pc = "read" /\ child'[g].from = k
      BY DEF PeersRead
    <2>1. k # h /\ g # h /\ g \in peers[k] /\ child[g].pc = "read" /\ child[g].from = k
      BY DEF ChildInv, PeersRead
    <2>2. g \notin peers[h]
      BY <2>1 DEF ChildInv, PeersRead
    <2> QED
      BY <2>1, <2>2
  <1>8. ListInv'
    BY DEF ListInv, EverybodyIsServed, ServerIsInformed, NobodyWaitsInVain, DownIsIdle, Typed
  <1> QED
    BY <1>4, <1>6, <1>7, <1>8 DEF ChildInv

-----------------------------------------------------------------------------
(* The server. *)

LEMMA ScanKeeps ==
  ASSUME LisaInv, NEW h \in Hosts, scan(h) \/ ForkFails(h)
  PROVE  LisaInv'
  <1> USE DEF LisaInv
  <1>1. child' \in [Hosts -> Children]
    BY DEF scan, ForkFails, Typed, Children, Lists
  <1>2. Typed'
    BY <1>1 DEF scan, ForkFails, Typed, Children
  <1>3. ChildInv'
    BY DEF scan, ForkFails, ChildInv, OneChild, PeersRead, Typed, Quiet
  <1>4. ListInv'
    BY DEF scan, ForkFails, ListInv, EverybodyIsServed, ServerIsInformed, NobodyWaitsInVain,
           DownIsIdle, Typed
  <1> QED
    BY <1>2, <1>3, <1>4

LEMMA AcceptKeeps ==
  ASSUME LisaInv, NEW h \in Hosts, Accept(h) \/ AcceptPeers(h)
  PROVE  LisaInv'
  <1> USE DEF LisaInv
  <1>0. list[h] \in Lists
    BY DEF Typed
  <1>1. CASE informed[h]
    <2>1. serveAndClean(h, TRUE, list[h])
          /\ UNCHANGED <<up, scanning, informed, list, bc, due, pipe, asked>>
      BY <1>1 DEF Accept, AcceptPeers
    <2>2. Typed'
      BY <1>0, <2>1, ServeTypes DEF Typed, Children
    <2>3. PeersRead'
      BY <1>0, <2>1, ServeKeepsPeers DEF ChildInv
    <2>4. OneChild'
      <3>1. \A g \in Hosts : (child'[g].pc = "none") = (child[g].pc = "none")
        BY <1>0, <2>1, ServedIsWritten DEF serveAndClean
      <3> QED
        BY <2>1, <3>1 DEF ChildInv, OneChild
    <2>5. ListInv'
      BY <2>1 DEF serveAndClean, ListInv, EverybodyIsServed, ServerIsInformed,
                  NobodyWaitsInVain, DownIsIdle, Typed
    <2> QED
      BY <2>2, <2>3, <2>4, <2>5 DEF ChildInv
  <1>2. CASE ~informed[h]
    <2>1. /\ up[h] /\ user' = [user EXCEPT ![h] = "waits"]
          /\ UNCHANGED <<up, scanning, informed, list, bc, due, child, pipe, peers, asked>>
      BY <1>2 DEF Accept, AcceptPeers
    <2>2. Typed' /\ ChildInv'
      BY <2>1 DEF Typed, ChildInv, OneChild, PeersRead
    <2>3. ListInv'
      BY <1>2, <2>1 DEF ListInv, EverybodyIsServed, ServerIsInformed, NobodyWaitsInVain,
                       DownIsIdle, Typed
    <2> QED
      BY <2>2, <2>3
  <1> QED
    BY <1>1, <1>2

LEMMA RemoveKeeps ==
  ASSUME LisaInv, NEW h \in Hosts, RemoveUser(h) \/ \E g \in Hosts : RemovePeer(h, g)
  PROVE  LisaInv'
  <1> USE DEF LisaInv
  <1>1. CASE RemoveUser(h)
    BY <1>1 DEF RemoveUser, Typed, ChildInv, OneChild, PeersRead, ListInv, EverybodyIsServed,
                ServerIsInformed, NobodyWaitsInVain, DownIsIdle
  <1>2. ASSUME NEW g \in Hosts, RemovePeer(h, g)
        PROVE  LisaInv'
    <2> USE <1>2 DEF RemovePeer
    <2>1. child[g].pc = "read" /\ child[g].from = h
      BY DEF ChildInv, PeersRead
    <2>2. child \in [Hosts -> Children] /\ child' \in [Hosts -> Children]
      <3>1. child \in [Hosts -> Children] /\ [child[g] EXCEPT !.pc = "write"] \in Children
        BY DEF Typed, Children
      <3>2. child' = [child EXCEPT ![g] = [child[g] EXCEPT !.pc = "write"]]
        BY <3>1
      <3> QED
        BY <3>1, <3>2
    <2>3. peers' \in [Hosts -> SUBSET Hosts]
      BY DEF Typed
    <2>4. Typed'
      BY <2>2, <2>3 DEF Typed, Children
    <2>5. OneChild'
      BY <2>1, <2>2 DEF ChildInv, OneChild
    <2>6. PeersRead'
      BY <2>1, <2>2 DEF ChildInv, PeersRead, Typed
    <2>7. ListInv'
      BY DEF ListInv, EverybodyIsServed, ServerIsInformed, NobodyWaitsInVain, DownIsIdle, Typed
    <2> QED
      BY <2>4, <2>5, <2>6, <2>7 DEF ChildInv
  <1> QED
    BY <1>1, <1>2

LEMMA AnswerKeeps ==
  ASSUME LisaInv, NEW h \in Hosts, NEW g \in Hosts, answerBroadcast(h, g)
  PROVE  LisaInv'
  <1> USE DEF LisaInv, answerBroadcast
  <1>0. child \in [Hosts -> Children]
    BY DEF Typed, Children
  <1>1. child' \in [Hosts -> Children]
    <2>1. CASE UNCHANGED child
      BY <1>0, <2>1
    <2>2. CASE child' = [child EXCEPT ![g].pc = "get", ![g].from = h]
      <3>1. child' = [child EXCEPT ![g] = [child[g] EXCEPT !.pc = "get", !.from = h]]
        BY <1>0, <2>2
      <3>2. [child[g] EXCEPT !.pc = "get", !.from = h] \in Children
        BY <1>0 DEF Children
      <3> QED
        BY <1>0, <3>1, <3>2
    <2> QED
      BY <2>1, <2>2
  <1>2. asked' \in [Hosts -> SUBSET Hosts]
    BY DEF Typed
  <1>3. Typed'
    BY <1>1, <1>2 DEF Typed, Children
  <1>4. ChildInv'
    <2>1. CASE UNCHANGED child
      BY <2>1 DEF ChildInv, OneChild, PeersRead
    <2>2. CASE child[g].pc = "ask" /\ child' = [child EXCEPT ![g].pc = "get", ![g].from = h]
      <3>1. child'[g].pc = "get" /\ \A k \in Hosts : k # g => child'[k] = child[k]
        BY <1>0, <2>2 DEF Children
      <3>2. \A k \in Hosts : (child'[k].pc = "none") = (child[k].pc = "none")
        BY <2>2, <3>1
      <3>3. \A k \in Hosts : g \notin peers[k]
        BY <2>2 DEF ChildInv, PeersRead
      <3>4. OneChild'
        BY <3>2 DEF ChildInv, OneChild
      <3>5. PeersRead'
        BY <3>1, <3>3 DEF ChildInv, PeersRead
      <3> QED
        BY <3>4, <3>5 DEF ChildInv
    <2> QED
      BY <2>1, <2>2
  <1>5. ListInv'
    BY DEF ListInv, EverybodyIsServed, ServerIsInformed, NobodyWaitsInVain, DownIsIdle
  <1> QED
    BY <1>3, <1>4, <1>5

(* What may come through a pipe.                                           *)
LEMMA PipeResults ==
  ASSUME Typed, NEW h \in Hosts
  PROVE  /\ pipe[h].server \in BOOLEAN
         /\ pipe[h] \notin {NoData, NoPipe} => pipe[h].list \in {"empty", "found"}
  <1>1. CASE pipe[h] \in Results
    <2>1. /\ pipe[h].server \in BOOLEAN
          /\ pipe[h].list \in {"empty", "found"}
      BY <1>1 DEF Results
    <2> QED
      BY <2>1
  <1>2. CASE pipe[h] = Partial
    <2>1. Partial.server = FALSE /\ Partial.list = "empty"
      BY DEF Partial
    <2> QED
      BY <1>2, <2>1
  <1>3. CASE pipe[h] \in {NoData, NoPipe}
    <2>1. NoData.server = FALSE /\ NoPipe.server = FALSE
      BY DEF NoData, NoPipe
    <2> QED
      BY <1>3, <2>1
  <1> QED
    BY <1>1, <1>2, <1>3 DEF Typed

LEMMA ResultsKeep ==
  ASSUME LisaInv, NEW h \in Hosts, processScanResults(h)
  PROVE  LisaInv'
  <1> USE DEF LisaInv
  <1>0. up[h] /\ pipe[h] # NoPipe /\ list[h] \in Lists /\ informed[h] \in BOOLEAN
    BY DEF processScanResults, Typed
  <1>1. CASE pipe[h] = NoData
    <2>0. NoData # Partial
      <3>1. NoData.list # Partial.list
        BY DEF NoData, Partial
      <3> QED
        BY <3>1
    <2>1. /\ pipe' = [pipe EXCEPT ![h] = NoPipe]
          /\ serveAndClean(h, informed[h], list[h])
          /\ UNCHANGED <<up, scanning, informed, list, bc, due, asked>>
      BY <1>1, <2>0 DEF processScanResults, serveAndClean
    <2>2. Typed'
      BY <1>0, <2>1, ServeTypes DEF Typed, Children
    <2>3. PeersRead'
      BY <1>0, <2>1, ServeKeepsPeers DEF ChildInv
    <2>4. OneChild'
      <3>1. \A g \in Hosts : (child'[g].pc = "none") = (child[g].pc = "none")
        BY <1>0, <2>1, ServedIsWritten DEF serveAndClean
      <3> QED
        BY <2>1, <3>1 DEF ChildInv, OneChild, Typed
    <2>5. ListInv'
      BY <2>1 DEF serveAndClean, ListInv, EverybodyIsServed, ServerIsInformed,
                  NobodyWaitsInVain, DownIsIdle, Typed
    <2> QED
      BY <2>2, <2>3, <2>4, <2>5 DEF ChildInv
  <1>2. CASE pipe[h] # NoData /\ pipe[h] = Partial /\ list[h] = "null"
    BY <1>2, ExitKeeps DEF processScanResults
  <1>3. CASE pipe[h] # NoData /\ ~(pipe[h] = Partial /\ list[h] = "null")
    <2>1. /\ pipe' = [pipe EXCEPT ![h] = NoPipe]
          /\ list' = [list EXCEPT ![h] = pipe[h].list]
          /\ informed' = [informed EXCEPT ![h] = TRUE]
          /\ scanning' = [scanning EXCEPT ![h] = FALSE]
          /\ due' = [due EXCEPT ![h] = FALSE]
          /\ \E b \in BOOLEAN : bc' = [bc EXCEPT ![h] = b]
          /\ serveAndClean(h, TRUE, pipe[h].list)
          /\ UNCHANGED <<up, asked>>
      <3>1. pipe[h].server \in BOOLEAN /\ bc = [bc EXCEPT ![h] = bc[h]] /\ bc[h] \in BOOLEAN
        BY PipeResults DEF Typed
      <3> QED
        BY <1>3, <3>1 DEF processScanResults
    <2>2. pipe[h].list \in Lists \ {"null"}
      BY <1>0, <1>3, PipeResults DEF Lists
    <2>3. Typed'
      BY <2>1, <2>2, ServeTypes DEF Typed, Children
    <2>4. PeersRead'
      BY <2>1, <2>2, ServeKeepsPeers DEF ChildInv
    <2>5. OneChild'
      <3>1. \A g \in Hosts : (child'[g].pc = "none") = (child[g].pc = "none")
        BY <2>1, <2>2, ServedIsWritten DEF serveAndClean
      <3> QED
        BY <1>0, <2>1, <3>1 DEF ChildInv, OneChild, Typed
    <2>6. ListInv'
      BY <1>0, <2>1, <2>2 DEF serveAndClean, ListInv, EverybodyIsServed, ServerIsInformed,
                  NobodyWaitsInVain, DownIsIdle, Typed
    <2> QED
      BY <2>3, <2>4, <2>5, <2>6 DEF ChildInv
  <1> QED
    BY <1>1, <1>2, <1>3

-----------------------------------------------------------------------------
(* The child. *)

LEMMA ChildStepKeeps ==
  ASSUME LisaInv, NEW h \in Hosts, ChildStep(h) \/ ReadFails(h) \/ ChildDies(h)
  PROVE  LisaInv'
  <1> USE DEF LisaInv
  <1>0. child \in [Hosts -> Children] /\ peers \in [Hosts -> SUBSET Hosts]
    BY DEF Typed, Children
  <1>1. ChildUnchanged
    BY DEF ChildStep, ReadFails, ChildDies, findServerServer, NobodyAnswers, doScan,
           getListFromServerServer, writeDataToFD
  <1>2. /\ child'[h] \in Children
        /\ child' = [child EXCEPT ![h] = child'[h]]
        /\ child[h].pc # "none"
    BY <1>0 DEF ChildStep, ReadFails, ChildDies, findServerServer, NobodyAnswers, doScan,
           getListFromServerServer, writeDataToFD, Children, Lists, NoChild
  <1>3. \/ pipe' = pipe /\ child'[h].pc # "none"
        \/ /\ child'[h].pc = "none"
           /\ \E r \in Results \cup {Partial, NoData} : pipe' = [pipe EXCEPT ![h] = r]
    <2>1. CASE ChildStep(h) /\ ~writeDataToFD(h)
      BY <1>0, <2>1 DEF ChildStep, findServerServer, NobodyAnswers, doScan,
                        getListFromServerServer, Children
    <2>2. CASE writeDataToFD(h)
      <3>1. child'[h].pc = "none"
        BY <1>0, <2>2 DEF writeDataToFD, NoChild
      <3>2. CASE child[h].list = "null"
        BY <2>2, <3>1, <3>2 DEF writeDataToFD
      <3>3. CASE child[h].list # "null"
        <4> DEFINE r == [whole |-> TRUE, list |-> child[h].list,
                         server |-> child[h].from = NoHost]
        <4>1. child[h].list \in {"empty", "found"}
          BY <1>0, <3>3 DEF Children, Lists
        <4>2. r \in Results
          BY <4>1 DEF Results
        <4>3. pipe' = [pipe EXCEPT ![h] = r]
          BY <2>2, <3>3 DEF writeDataToFD
        <4> HIDE DEF r
        <4> QED
          BY <3>1, <4>2, <4>3
      <3> QED
        BY <3>2, <3>3
    <2>3. CASE ReadFails(h)
      BY <1>0, <2>3 DEF ReadFails, Children
    <2>4. CASE ChildDies(h)
      BY <1>0, <2>4 DEF ChildDies, NoChild
    <2> QED
      BY <2>1, <2>2, <2>3, <2>4
  <1>4. PeersRead'
    <2>1. CASE ChildDies(h)
      BY <1>0, <1>2, <2>1 DEF ChildDies, ChildInv, PeersRead
    <2>2. CASE ReadFails(h)
      <3>1. \A k \in Hosts : h \notin peers'[k]
        BY <1>0, <2>2 DEF ReadFails, ChildInv, PeersRead
      <3>2. \A k \in Hosts : peers'[k] \subseteq peers[k]
        BY <1>0, <2>2 DEF ReadFails
      <3> QED
        BY <1>0, <1>2, <3>1, <3>2 DEF ChildInv, PeersRead
    <2>3. CASE getListFromServerServer(h)
      <3>1. \A k \in Hosts : h \notin peers[k]
        BY <2>3 DEF getListFromServerServer, ChildInv, PeersRead
      <3>2. CASE UNCHANGED peers
        BY <1>0, <1>2, <3>1, <3>2 DEF ChildInv, PeersRead
      <3>3. CASE peers' # peers
        <4>1. child' = [child EXCEPT ![h].pc = "read"]
              /\ peers' = [peers EXCEPT ![child[h].from] = @ \cup {h}]
          BY <2>3, <3>3 DEF getListFromServerServer
        <4>2. child'[h].pc = "read" /\ child'[h].from = child[h].from
          BY <1>0, <4>1 DEF Children
        <4> QED
          BY <1>0, <1>2, <3>1, <4>1, <4>2 DEF ChildInv, PeersRead
      <3> QED
        BY <3>2, <3>3
    <2>4. CASE ChildStep(h) /\ ~getListFromServerServer(h)
      <3>1. child[h].pc # "read" /\ UNCHANGED peers
        BY <2>4 DEF ChildStep, findServerServer, NobodyAnswers, doScan, writeDataToFD
      <3> QED
        BY <1>0, <1>2, <3>1 DEF ChildInv, PeersRead
    <2> QED
      BY <2>1, <2>2, <2>3, <2>4
  <1>5. OneChild'
    <2>1. scanning' = scanning /\ scanning[h] /\ pipe[h] = NoPipe
      BY <1>1, <1>2 DEF ChildUnchanged, ChildInv, OneChild
    <2>2. \A g \in Hosts : g # h => child'[g] = child[g] /\ pipe'[g] = pipe[g]
      BY <1>0, <1>2, <1>3 DEF Typed
    <2>3. child'[h].pc # "none" => pipe'[h] = NoPipe
      BY <1>3, <2>1
    <2> QED
      BY <2>1, <2>2, <2>3 DEF ChildInv, OneChild
  <1>6. \A k \in Hosts : ~up[k] => peers'[k] = {}
    BY <1>0 DEF ListInv, DownIsIdle, ChildStep, ReadFails, ChildDies, findServerServer,
       NobodyAnswers, doScan, getListFromServerServer, writeDataToFD
  <1>7. ListInv'
    BY <1>1, <1>6 DEF ChildUnchanged, ListInv, EverybodyIsServed, ServerIsInformed,
       NobodyWaitsInVain, DownIsIdle
  <1>8. Typed'
    <2>1. child' \in [Hosts -> Children]
      BY <1>0, <1>2
    <2>2. pipe' \in [Hosts -> Results \cup {Partial, NoData, NoPipe}]
      BY <1>3 DEF Typed
    <2>3. peers' \in [Hosts -> SUBSET Hosts]
      BY <1>0 DEF ChildStep, ReadFails, ChildDies, findServerServer,
         NobodyAnswers, doScan, getListFromServerServer, writeDataToFD
    <2>4. asked' \in [Hosts -> SUBSET Hosts]
      BY DEF Typed, ChildStep, ReadFails, ChildDies, findServerServer,
         NobodyAnswers, doScan, getListFromServerServer, writeDataToFD
    <2> QED
      BY <1>1, <2>1, <2>2, <2>3, <2>4 DEF ChildUnchanged, Typed, Children
  <1> QED
    BY <1>4, <1>5, <1>7, <1>8 DEF ChildInv

(* The world. *)

LEMMA WorldKeeps ==
  ASSUME LisaInv, NEW h \in Hosts, readConfig(h) \/ Elapse(h) \/ Connect(h) \/ Start(h)
  PROVE  LisaInv'
  <1> USE DEF LisaInv, readConfig, Elapse, Connect, Start
  <1>1. Typed'
    <2>1. up' \in [Hosts -> BOOLEAN] /\ due' \in [Hosts -> BOOLEAN]
      BY DEF Typed
    <2>2. user' \in [Hosts -> {"none", "connects", "waits"}]
      BY DEF Typed
    <2>3. UNCHANGED <<scanning, informed, list, bc, child, pipe, peers, asked>>
      OBVIOUS
    <2> QED
      BY <2>1, <2>2, <2>3 DEF Typed
  <1>2. ChildInv'
    BY DEF ChildInv, OneChild, PeersRead
  <1>3. ListInv'
    BY DEF ListInv, EverybodyIsServed, ServerIsInformed, NobodyWaitsInVain, DownIsIdle, Typed
  <1> QED
    BY <1>1, <1>2, <1>3

-----------------------------------------------------------------------------
LEMMA NextKeeps == LisaInv /\ [Next]_vars => LisaInv'
  <1> SUFFICES ASSUME LisaInv, [Next]_vars PROVE LisaInv'
    OBVIOUS
  <1>1. CASE UNCHANGED vars
    BY <1>1 DEF vars, LisaInv, Typed, ChildInv, OneChild, PeersRead, ListInv,
       EverybodyIsServed, ServerIsInformed, NobodyWaitsInVain, DownIsIdle
  <1>2. CASE Next
    BY <1>2, ScanKeeps, AcceptKeeps, RemoveKeeps, AnswerKeeps, ResultsKeep, ChildStepKeeps,
       WorldKeeps, ExitKeeps
    DEF Next, ServerStep, Stop
  <1> QED
    BY <1>1, <1>2

LEMMA LisaInvHolds == Spec => []LisaInv
  BY InitInv, NextKeeps, PTL DEF Spec

(* The variables of the servers and their children keep their types.       *)
THEOREM LisaTypes == Spec => []TypeOK
  <1>1. LisaInv => TypeOK
    BY DEF LisaInv, Typed, TypeOK, Children
  <1> QED
    BY <1>1, LisaInvHolds, PTL

(* NetManager::scan forks no second child, and none is left when the flag  *)
(* is cleared.                                                             *)
THEOREM OneChildAtATime == Spec => []OneChild
  <1>1. LisaInv => OneChild
    BY DEF LisaInv, ChildInv
  <1> QED
    BY <1>1, LisaInvHolds, PTL

(* A server that answers broadcasts can serve the list, and serves it to   *)
(* all it has let wait as soon as there is one.                            *)
THEOREM ClientsAreServed == Spec => []EverybodyIsServed
  <1>1. LisaInv => EverybodyIsServed
    BY DEF LisaInv, ListInv
  <1> QED
    BY <1>1, LisaInvHolds, PTL

-----------------------------------------------------------------------------
(* kpf                                                                     *)

(* What a Server's fields say of each other.                               *)
Sane(s) ==
    /\ s.state = "headers" => s.req \in Requests
    /\ s.state = "responding" => s.code # "none"
    /\ s.state = "responding" /\ s.code # "error" => s.req \in Requests
    /\ s.state = "responding" /\ s.code = "ok" => s.file # 0 \/ s.req.size = 0
    /\ s.state = "responding" /\ s.code # "ok" => s.head # 0

(* A Server that has lines to read reads them, or its timer runs.          *)
Reads(s) == s.lines # <<>> /\ s.state # "responding" => s.timer

(* A connection without a Server has none of what a Server leaves behind,   *)
(* and slotWrite's iterator stands at a Server.                            *)
HeldInv ==
    /\ it <= Len(serverList)
    /\ \A c \in Conns : ~In(c, serverList) => server[c] = NewServer

(* What has been counted stays within the limit, and it is what the sockets *)
(* got, unless a write failed.                                             *)
CountedWithin ==
    /\ ~lowered => spent <= bandwidthLimit
    /\ ~failed => sent = spent

WebInv ==
    /\ WTypeOK /\ HeldInv
    /\ \A c \in Conns : Sane(server[c])
    /\ TimersRun /\ CountedWithin

-----------------------------------------------------------------------------
(* Numbers.                                                                *)
LEMMA LeastOfTwo ==
  ASSUME NEW a \in Nat, NEW b \in Nat
  PROVE  Least(a, b) \in Nat /\ Least(a, b) <= a /\ Least(a, b) <= b
  BY DEF Least

LEMMA Quotient ==
  ASSUME NEW a \in Nat, NEW n \in Nat \ {0}
  PROVE  a \div n \in Nat /\ a \div n <= a
  OBVIOUS

LEMMA Residue ==
  ASSUME NEW a \in Int, NEW w \in Nat \ {0}
  PROVE  a % w \in 0 .. w - 1 /\ (a \in 0 .. w - 1 => a % w = a)
  OBVIOUS

LEMMA NatMin ==
  ASSUME NEW S \in SUBSET Nat, S # {}
  PROVE  \E n \in S : \A m \in S : ~(m < n)
  <1> DEFINE Less == {ss \in Nat \X Nat : ss[1] < ss[2]}
  <1>1. IsWellFoundedOn(Less, Nat)
    BY NatLessThanWellFounded DEF OpToRel, Less
  <1>2. \E n \in S : \A m \in S : ~(<<m, n>> \in Less)
    BY <1>1, WFMin, Zenon
  <1> QED
    BY <1>2

(* Lists.                                                                  *)
LEMMA InList ==
  ASSUME NEW c, NEW s
  PROVE  In(c, s) <=> \E i \in 1 .. Len(s) : s[i] = c
  BY DEF In, Elements

LEMMA AppendIn ==
  ASSUME NEW s \in Seq(Conns), NEW d \in Conns, NEW c
  PROVE  In(c, Append(s, d)) <=> In(c, s) \/ c = d
  <1>1. /\ Len(Append(s, d)) = Len(s) + 1 /\ Len(s) \in Nat
        /\ \A i \in 1 .. Len(s) : Append(s, d)[i] = s[i]
        /\ Append(s, d)[Len(s) + 1] = d
    OBVIOUS
  <1>2. ASSUME In(c, Append(s, d)) PROVE In(c, s) \/ c = d
    <2>1. PICK i \in 1 .. Len(Append(s, d)) : Append(s, d)[i] = c
      BY <1>2, InList
    <2> QED
      BY <1>1, <2>1, InList
  <1>3. ASSUME In(c, s) PROVE In(c, Append(s, d))
    <2>1. PICK i \in 1 .. Len(s) : s[i] = c
      BY <1>3, InList
    <2>2. i \in 1 .. Len(Append(s, d)) /\ Append(s, d)[i] = c
      BY <1>1, <2>1
    <2> QED
      BY <2>2, InList
  <1>4. In(d, Append(s, d))
    <2>1. Len(s) + 1 \in 1 .. Len(Append(s, d))
      BY <1>1
    <2> QED
      BY <1>1, <2>1, InList
  <1> QED
    BY <1>2, <1>3, <1>4

LEMMA WithoutOne ==
  ASSUME NEW s \in Seq(Conns), NEW c, In(c, s)
  PROVE  /\ Without(s, c) \in Seq(Conns)
         /\ Len(Without(s, c)) = Len(s) - 1
         /\ \A d : In(d, Without(s, c)) => In(d, s)
         /\ \A d : In(d, s) /\ d # c => In(d, Without(s, c))
  <1> DEFINE i == CHOOSE n \in 1 .. Len(s) : s[n] = c
             t == SubSeq(s, 1, i - 1)
             u == SubSeq(s, i + 1, Len(s))
  <1>1. i \in 1 .. Len(s) /\ s[i] = c
    BY InList
  <1>2. Len(s) \in Nat /\ \A j \in 1 .. Len(s) : s[j] \in Conns
    OBVIOUS
  <1> HIDE DEF i
  <1>3. /\ t \in Seq(Conns) /\ Len(t) = i - 1
        /\ \A j \in 1 .. i - 1 : t[j] = s[j]
    <2>1. \A j \in 1 .. i - 1 : s[j] \in Conns
      BY <1>1, <1>2
    <2> QED
      BY <1>1, <2>1, SubSeqProperties
  <1>4. /\ u \in Seq(Conns) /\ Len(u) = Len(s) - i
        /\ \A j \in 1 .. Len(s) - i : u[j] = s[i + j]
    <2>1. \A j \in i + 1 .. Len(s) : s[j] \in Conns
      BY <1>1, <1>2
    <2>2. /\ u \in Seq(Conns)
          /\ Len(u) = IF i + 1 <= Len(s) THEN Len(s) - (i + 1) + 1 ELSE 0
          /\ \A j \in 1 .. Len(s) - (i + 1) + 1 : u[j] = s[(i + 1) + j - 1]
      <3> i + 1 \in Int /\ Len(s) \in Int
        BY <1>1, <1>2
      <3> QED
        BY <2>1, SubSeqProperties
    <2>3. Len(s) - (i + 1) + 1 = Len(s) - i
      BY <1>1, <1>2
    <2>4. ASSUME NEW j \in 1 .. Len(s) - i PROVE u[j] = s[i + j]
      <3>1. (i + 1) + j - 1 = i + j /\ j \in 1 .. Len(s) - (i + 1) + 1
        BY <1>1, <1>2
      <3> HIDE DEF u
      <3>2. u[j] = s[(i + 1) + j - 1]
        BY <2>2, <3>1, Zenon
      <3> QED
        BY <3>1, <3>2
    <2> HIDE DEF u
    <2>5. Len(u) = Len(s) - i
      <3>1. CASE i + 1 <= Len(s)
        BY <2>2, <2>3, <3>1
      <3>2. CASE ~(i + 1 <= Len(s))
        BY <1>1, <1>2, <2>2, <3>2
      <3> QED
        BY <3>1, <3>2
    <2> QED
      BY <2>2, <2>4, <2>5
  <1> HIDE DEF t, u
  <1>5. /\ t \o u \in Seq(Conns) /\ Len(t \o u) = Len(s) - 1
        /\ \A j \in 1 .. Len(s) - 1 : (t \o u)[j] = IF j < i THEN s[j] ELSE s[j + 1]
    <2>1. /\ t \o u \in Seq(Conns) /\ Len(t \o u) = Len(t) + Len(u)
          /\ \A j \in 1 .. Len(t) + Len(u) :
                (t \o u)[j] = IF j <= Len(t) THEN t[j] ELSE u[j - Len(t)]
      BY <1>3, <1>4, ConcatProperties
    <2>2. ASSUME NEW j \in 1 .. Len(s) - 1, j < i PROVE (t \o u)[j] = s[j]
      BY <1>1, <1>2, <1>3, <1>4, <2>1, <2>2
    <2>3. ASSUME NEW j \in 1 .. Len(s) - 1, ~(j < i) PROVE (t \o u)[j] = s[j + 1]
      <3>1. j - (i - 1) \in 1 .. Len(s) - i /\ i + (j - (i - 1)) = j + 1
        BY <1>1, <1>2, <2>3
      <3> QED
        <4>1. j \in 1 .. Len(t) + Len(u) /\ ~(j <= Len(t)) /\ j - Len(t) = j - (i - 1)
          BY <1>1, <1>2, <1>3, <1>4, <2>3
        <4>2. (t \o u)[j] = u[j - (i - 1)]
          BY <2>1, <4>1
        <4>3. u[j - (i - 1)] = s[i + (j - (i - 1))]
          BY <1>4, <3>1, Zenon
        <4> QED
          BY <3>1, <4>2, <4>3
    <2> QED
      BY <1>1, <1>2, <1>3, <1>4, <2>1, <2>2, <2>3
  <1>6. Without(s, c) = t \o u
    BY DEF Without, i, t, u
  <1>7. ASSUME NEW d, In(d, t \o u) PROVE In(d, s)
    <2>1. PICK j \in 1 .. Len(s) - 1 : (t \o u)[j] = d
      BY <1>5, <1>7, InList
    <2>2. s[j] = d \/ s[j + 1] = d
      BY <1>5, <2>1
    <2> QED
      BY <1>2, <2>1, <2>2, InList
  <1>8. ASSUME NEW d, In(d, s), d # c PROVE In(d, t \o u)
    <2>1. PICK j \in 1 .. Len(s) : s[j] = d
      BY <1>8, InList
    <2>2. CASE j < i
      <3>1. j \in 1 .. Len(s) - 1
        BY <1>1, <1>2, <2>1, <2>2
      <3> QED
        BY <1>5, <2>1, <2>2, <3>1, InList
    <2>3. CASE j > i
      <3>1. j - 1 \in 1 .. Len(s) - 1 /\ ~(j - 1 < i) /\ j - 1 + 1 = j
        BY <1>1, <1>2, <2>1, <2>3
      <3> QED
        BY <1>5, <2>1, <3>1, InList
    <2> QED
      BY <1>1, <1>8, <2>1, <2>2, <2>3
  <1> QED
    BY <1>5, <1>6, <1>7, <1>8

(* The first n of a list and the others.                                   *)
LEMMA FirstOf ==
  ASSUME NEW s \in Seq(Conns), NEW n \in 0 .. Len(s)
  PROVE  /\ SubSeq(s, 1, n) \in Seq(Conns) /\ Len(SubSeq(s, 1, n)) = n
         /\ \A i \in 1 .. n : SubSeq(s, 1, n)[i] = s[i]
         /\ SubSeq(s, n + 1, Len(s)) \in Seq(Conns)
  <1>1. Len(s) \in Nat /\ \A j \in 1 .. Len(s) : s[j] \in Conns
    OBVIOUS
  <1>2. (\A j \in 1 .. n : s[j] \in Conns) /\ (\A j \in n + 1 .. Len(s) : s[j] \in Conns)
    BY <1>1
  <1> QED
    BY <1>1, <1>2, SubSeqProperties

-----------------------------------------------------------------------------
(* The Server.                                                             *)
LEMMA NewServerIsSane == NewServer \in Servers /\ Sane(NewServer) /\ Reads(NewServer)
  BY KpfAssumption DEF NewServer, Servers, Sane, Reads

LEMMA Responds ==
  ASSUME NEW s \in Servers, NEW code \in {"error", "same", "ok"}, NEW n \in Nat
  PROVE  /\ respond(s, code, n) \in Servers
         /\ respond(s, code, n).state = "responding"
         /\ respond(s, code, n).code = code
         /\ respond(s, code, n).head = s.head + n
         /\ respond(s, code, n).file = s.file
         /\ respond(s, code, n).req = s.req
  <1> DEFINE a == [s EXCEPT !.state = "responding"]
             b == [a EXCEPT !.code = code]
             d == [b EXCEPT !.head = @ + n]
  <1>1. a \in Servers /\ a.state = "responding" /\ a.head = s.head /\ a.file = s.file /\ a.req = s.req
    BY DEF Servers
  <1>2. respond(s, code, n) = d
    BY DEF respond
  <1> HIDE DEF a
  <1>3. b \in Servers /\ b.state = "responding" /\ b.code = code
        /\ b.head = s.head /\ b.file = s.file /\ b.req = s.req
    BY <1>1 DEF Servers
  <1> HIDE DEF b
  <1>4. d \in Servers /\ d.state = "responding" /\ d.code = code
        /\ d.head = s.head + n /\ d.file = s.file /\ d.req = s.req
    <2> b.head + n \in Nat
      BY <1>3 DEF Servers
    <2> QED
      BY <1>3, SMTT(30) DEF Servers
  <1> HIDE DEF d
  <1> QED
    BY <1>2, <1>4

(* What it prepares has something to write, unless the resource is empty.   *)
LEMMA PreparedIsSane ==
  ASSUME NEW s \in Servers, s.req \in Requests
  PROVE  LET t == prepareResponse(s)
         IN t \in Servers /\ Sane(t) /\ t.state = "responding"
  <1>0. s.req.size \in Nat /\ s.req.avail \in Nat /\ s.head \in Nat
        /\ HeaderBytes \in Nat \ {0}
    BY KpfAssumption DEF Servers
  <1>1. CASE s.req.outcome = "ok"
    <2> DEFINE n == IF s.req.v = 9 THEN 0 ELSE HeaderBytes
               f == [s EXCEPT !.file = s.req.size, !.avail = s.req.avail]
    <2>1. n \in Nat
      BY <1>0
    <2>2. f \in Servers /\ f.req = s.req /\ f.file = s.req.size
      BY <1>0 DEF Servers
    <2>3. prepareResponse(s) = respond(f, "ok", n)
      BY <1>1 DEF prepareResponse
    <2> HIDE DEF f, n
    <2> DEFINE t == respond(f, "ok", n)
    <2>4. t \in Servers /\ t.state = "responding" /\ t.code = "ok" /\ t.req = s.req
          /\ t.file = s.req.size
      BY <2>1, <2>2, Responds
    <2> HIDE DEF t
    <2> QED
      BY <2>3, <2>4 DEF Sane, t
  <1>2. CASE s.req.outcome # "ok"
    <2> DEFINE code == IF s.req.outcome = "same" THEN "same" ELSE "error"
               t == respond(s, code, HeaderBytes)
    <2>1. prepareResponse(s) = t /\ code \in {"error", "same"}
      BY <1>2 DEF prepareResponse
    <2> HIDE DEF code
    <2>2. t \in Servers /\ t.state = "responding" /\ t.code = code /\ t.req = s.req
          /\ t.head = s.head + HeaderBytes
      <3>1. code \in {"error", "same", "ok"} /\ HeaderBytes \in Nat
        BY <1>0, <2>1
      <3>2. t \in Servers
        BY <3>1, Responds
      <3>3. t.state = "responding" /\ t.code = code
        BY <3>1, Responds
      <3>4. t.req = s.req
        BY <3>1, Responds
      <3>5. t.head = s.head + HeaderBytes
        BY <3>1, Responds
      <3> QED
        BY <3>2, <3>3, <3>4, <3>5
    <2> HIDE DEF t
    <2> QED
      BY <1>0, <2>1, <2>2 DEF Sane
  <1> QED
    BY <1>1, <1>2

LEMMA ErrorIsSane ==
  ASSUME NEW t \in Servers, NEW q \in Requests \cup {NoRequest}
  PROVE  LET e == respond([t EXCEPT !.req = q], "error", HeaderBytes)
         IN e \in Servers /\ Sane(e) /\ Reads(e)
  <1> DEFINE f == [t EXCEPT !.req = q]
  <1>1. HeaderBytes \in Nat \ {0}
    BY KpfAssumption
  <1>2. f \in Servers /\ f.head \in Nat
    BY DEF Servers
  <1> HIDE DEF f
  <1> DEFINE e == respond(f, "error", HeaderBytes)
  <1>3. /\ e \in Servers /\ e.state = "responding" /\ e.code = "error"
        /\ e.head = f.head + HeaderBytes
    <2>1. HeaderBytes \in Nat
      BY <1>1
    <2>2. e \in Servers
      BY <2>1, <1>2, Responds
    <2>3. e.state = "responding"
      BY <2>1, <1>2, Responds
    <2>4. e.code = "error"
      BY <2>1, <1>2, Responds
    <2>5. e.head = f.head + HeaderBytes
      BY <2>1, <1>2, Responds
    <2> QED
      BY <2>2, <2>3, <2>4, <2>5
  <1> HIDE DEF e
  <1>4. e \in Servers /\ Sane(e) /\ Reads(e)
    BY <1>1, <1>2, <1>3 DEF Sane, Reads
  <1> QED
    BY <1>4 DEF e, f

LEMMA RequestIsSane ==
  ASSUME NEW s \in Servers, s.lines # <<>>, s.state = "request"
  PROVE  LET t == readRequest(s)
         IN t \in Servers /\ Sane(t) /\ Reads(t)
  <1> DEFINE r == Head(s.lines)
             t == [s EXCEPT !.count = @ + 1, !.lines = Tail(@)]
  <1>1. s.lines \in Seq(Requests \cup {End})
    BY DEF Servers
  <1>2. r \in Requests \cup {End} /\ Tail(s.lines) \in Seq(Requests \cup {End})
    BY <1>1, HeadTailProperties
  <1>3. t \in Servers
    <2> DEFINE a == [s EXCEPT !.count = @ + 1]
    <2>1. a \in Servers /\ a.lines = s.lines
      BY DEF Servers
    <2>2. t = [a EXCEPT !.lines = Tail(s.lines)]
      BY <2>1
    <2> HIDE DEF a, t
    <2> QED
      BY <1>2, <2>1, <2>2 DEF Servers
  <1> HIDE DEF t
  <1> DEFINE e(q) == respond([t EXCEPT !.req = q], "error", HeaderBytes)
  <1>4. ASSUME NEW q \in Requests \cup {NoRequest}
        PROVE  e(q) \in Servers /\ Sane(e(q)) /\ Reads(e(q))
    BY <1>3, ErrorIsSane
  <1>5. CASE r = End
    BY <1>4, <1>5 DEF readRequest, t
  <1>6. CASE r # End /\ r.outcome = "bad"
    BY <1>2, <1>4, <1>6 DEF readRequest, t
  <1>7. CASE r # End /\ r.outcome # "bad" /\ r.v = 9
    <2>1. [t EXCEPT !.req = r] \in Servers /\ [t EXCEPT !.req = r].req \in Requests
      BY <1>2, <1>3, <1>7 DEF Servers
    <2>2. readRequest(s) = prepareResponse([t EXCEPT !.req = r])
      BY <1>7 DEF readRequest, t
    <2> HIDE DEF r
    <2> QED
      BY <2>1, <2>2, PreparedIsSane DEF Reads
  <1>8. CASE r # End /\ r.outcome # "bad" /\ r.v # 9
    <2>1. readRequest(s) = [t EXCEPT !.req = r, !.state = "headers", !.timer = TRUE]
      BY <1>8 DEF readRequest, t
    <2> HIDE DEF r
    <2> QED
      BY <1>2, <1>3, <1>8, <2>1 DEF Servers, Sane, Reads
  <1> QED
    BY <1>5, <1>6, <1>7, <1>8

LEMMA HeadersAreSane ==
  ASSUME NEW s \in Servers, Sane(s), s.state = "headers"
  PROVE  LET t == readHeaders(s)
         IN t \in Servers /\ Sane(t) /\ Reads(t)
  <1>0. s.lines \in Seq(Requests \cup {End}) /\ s.req \in Requests
    BY DEF Servers, Sane
  <1>1. CASE In(End, s.lines)
    <2> DEFINE i == CHOOSE n \in 1 .. Len(s.lines) :
                      s.lines[n] = End /\ \A m \in 1 .. n - 1 : s.lines[m] # End
               t == [s EXCEPT !.lines = SubSeq(@, i + 1, Len(@))]
    <2>1. i \in 1 .. Len(s.lines)
      <3> DEFINE ends == {n \in 1 .. Len(s.lines) : s.lines[n] = End}
      <3>1. ends \in SUBSET Nat /\ ends # {}
        BY <1>0, <1>1, InList
      <3> HIDE DEF ends
      <3>2. PICK n \in ends : \A m \in ends : ~(m < n)
        BY <3>1, NatMin
      <3>3. /\ n \in 1 .. Len(s.lines) /\ s.lines[n] = End
            /\ \A m \in 1 .. n - 1 : s.lines[m] # End
        BY <1>0, <3>2 DEF ends
      <3> QED
        BY <3>3
    <2> HIDE DEF i
    <2>2. SubSeq(s.lines, i + 1, Len(s.lines)) \in Seq(Requests \cup {End})
      BY <1>0, <2>1
    <2>3. t \in Servers /\ t.req \in Requests
      BY <1>0, <2>2 DEF Servers
    <2>4. readHeaders(s) = prepareResponse(t)
      BY <1>1 DEF readHeaders, i
    <2> HIDE DEF t
    <2> QED
      BY <2>3, <2>4, PreparedIsSane DEF Reads
  <1>2. CASE ~In(End, s.lines)
    <2> DEFINE t == [s EXCEPT !.lines = <<>>]
    <2>0. <<>> \in Seq(Requests \cup {End})
      OBVIOUS
    <2>1. t \in Servers /\ t.lines = <<>> /\ t.state = "headers" /\ t.req = s.req
      BY <2>0 DEF Servers
    <2>2. readHeaders(s) = t
      BY <1>2 DEF readHeaders
    <2> HIDE DEF t
    <2> QED
      BY <1>0, <2>1, <2>2 DEF Sane, Reads
  <1> QED
    BY <1>1, <1>2

LEMMA ReadIsSane ==
  ASSUME NEW s \in Servers, Sane(s)
  PROVE  LET t == read(s)
         IN t \in Servers /\ Sane(t) /\ Reads(t) /\ (s.state = "responding" => t = s)
  <1>1. CASE s.lines # <<>> /\ s.state = "request"
    BY <1>1, RequestIsSane DEF read
  <1>2. CASE s.lines # <<>> /\ s.state = "headers"
    BY <1>2, HeadersAreSane DEF read
  <1>3. CASE s.lines = <<>> \/ s.state = "responding"
    <2>1. read(s) = s
      BY <1>3 DEF read
    <2> QED
      BY <1>3, <2>1 DEF Reads
  <1> QED
    BY <1>1, <1>2, <1>3 DEF Servers

LEMMA ResetIsSane ==
  ASSUME NEW s \in Servers
  PROVE  reset(s) \in Servers /\ Sane(reset(s)) /\ Reads(reset(s))
  <1> DEFINE a == [s EXCEPT !.state = "request"]
             b == [a EXCEPT !.req = NoRequest]
             d == [b EXCEPT !.code = "none"]
             e == [d EXCEPT !.avail = 0]
             f == [e EXCEPT !.timer = TRUE]
  <1>1. a \in Servers /\ a.state = "request"
    BY DEF Servers
  <1>2. reset(s) = f
    BY DEF reset
  <1> HIDE DEF a
  <1>3. b \in Servers /\ b.state = "request"
    BY <1>1 DEF Servers
  <1> HIDE DEF b
  <1>4. d \in Servers /\ d.state = "request"
    BY <1>3 DEF Servers
  <1> HIDE DEF d
  <1>5. e \in Servers /\ e.state = "request"
    BY <1>4 DEF Servers
  <1> HIDE DEF e
  <1>6. f \in Servers /\ f.state = "request" /\ f.timer = TRUE
    BY <1>5 DEF Servers
  <1> HIDE DEF f
  <1> QED
    BY <1>2, <1>6 DEF Sane, Reads

(* What comes of writing at most max bytes: as many at most, all counted    *)
(* unless the write failed, and a Server that goes on is as sane as it was. *)
Written(w, max) ==
    /\ w.n \in Nat /\ w.n <= max /\ w.over \in BOOLEAN
    /\ w.sent \in Nat /\ w.failed \in BOOLEAN /\ (~w.failed => w.sent = w.n)
    /\ ~w.over => w.s \in Servers /\ Sane(w.s) /\ Reads(w.s)

LEMMA FinishWrites ==
  ASSUME NEW s, NEW max \in Nat, NEW n \in 0 .. max
  PROVE  Written(finish(s, n), max)
  BY DEF Written, finish

LEMMA EndWrites ==
  ASSUME NEW s, NEW max \in Nat, NEW n \in 0 .. max
  PROVE  Written(atEnd(s, n), max)
  <1>1. /\ atEnd(s, n).n = 0 /\ atEnd(s, n).sent = n /\ atEnd(s, n).over = TRUE
        /\ atEnd(s, n).failed = (n # 0)
    BY DEF atEnd
  <1>2. atEnd(s, n).failed \in BOOLEAN /\ (~atEnd(s, n).failed => n = 0)
    BY <1>1, Zenon
  <1>3. n \in Nat /\ 0 \in Nat /\ 0 <= max
    OBVIOUS
  <1> QED
    BY <1>1, <1>2, <1>3, Zenon DEF Written

LEMMA ContinueWrites ==
  ASSUME NEW s \in Servers, Sane(s), Reads(s), NEW max \in Nat, NEW n \in 0 .. max
  PROVE  Written(continue(s, n), max)
  <1>1. /\ continue(s, n).n \in Nat /\ continue(s, n).n <= max
        /\ continue(s, n).sent \in Nat /\ continue(s, n).sent = continue(s, n).n
        /\ continue(s, n).failed = FALSE
    BY DEF continue
  <1>2. continue(s, n).over \in BOOLEAN
    BY DEF continue
  <1>3. continue(s, n).s = s
    BY DEF continue
  <1>4. continue(s, n).s \in Servers /\ Sane(continue(s, n).s) /\ Reads(continue(s, n).s)
    BY <1>3
  <1> QED
    BY <1>1, <1>2, <1>4 DEF Written

LEMMA FileIsWritten ==
  ASSUME NEW s \in Servers, s.state = "responding", s.code = "ok", s.req \in Requests,
         NEW n \in Nat, NEW max \in Nat, NEW room \in Nat
  PROVE  Written(writeFile(s, max, room, n), n + max)
  <1> DEFINE m == Least(Least(s.file, max), Least(room, s.avail))
             a == [s EXCEPT !.file = @ - m]
             t == [a EXCEPT !.avail = @ - m]
  <1>0. s.file \in Nat /\ s.avail \in Nat
    BY DEF Servers
  <1>1. m \in Nat /\ m <= s.file /\ m <= max /\ m <= s.avail
    <2>1. Least(s.file, max) \in Nat /\ Least(s.file, max) <= s.file /\ Least(s.file, max) <= max
      BY <1>0, LeastOfTwo
    <2>2. Least(room, s.avail) \in Nat /\ Least(room, s.avail) <= s.avail
      BY <1>0, LeastOfTwo
    <2>3. m \in Nat /\ m <= Least(s.file, max) /\ m <= Least(room, s.avail)
      BY <2>1, <2>2, LeastOfTwo
    <2> HIDE DEF m
    <2> QED
      BY <1>0, <2>1, <2>2, <2>3
  <1>2. writeFile(s, max, room, n) =
          CASE s.avail = 0 -> atEnd(s, n)
            [] s.avail # 0 /\ t.file # 0 -> continue(t, n + m)
            [] OTHER -> IF t.count < MaxKeepAlive /\ t.req.persist
                        THEN continue(reset(t), n + m)
                        ELSE finish(t, n + m)
    BY DEF writeFile
  <1> HIDE DEF m
  <1>3. s.file - m \in Nat /\ s.avail - m \in Nat /\ n + m \in 0 .. n + max /\ n + max \in Nat
    BY <1>0, <1>1
  <1>4. /\ a \in Servers /\ a.state = s.state /\ a.code = s.code /\ a.req = s.req
        /\ a.avail = s.avail
    BY <1>3 DEF Servers
  <1> HIDE DEF a
  <1>5. t \in Servers /\ t.state = s.state /\ t.code = s.code /\ t.req = s.req
    BY <1>3, <1>4 DEF Servers
  <1> HIDE DEF t
  <1>6. CASE s.avail = 0
    <2>1. n \in 0 .. n + max
      OBVIOUS
    <2> QED
      BY <1>2, <1>3, <1>6, <2>1, EndWrites
  <1>7. CASE s.avail # 0 /\ t.file # 0
    <2>1. Sane(t) /\ Reads(t)
      BY <1>5, <1>7 DEF Sane, Reads
    <2>2. writeFile(s, max, room, n) = continue(t, n + m)
      BY <1>2, <1>7
    <2> QED
      BY <1>3, <1>5, <2>1, <2>2, ContinueWrites
  <1>8. CASE s.avail # 0 /\ t.file = 0
    <2>1. writeFile(s, max, room, n) = IF t.count < MaxKeepAlive /\ t.req.persist
                                       THEN continue(reset(t), n + m)
                                       ELSE finish(t, n + m)
      BY <1>2, <1>8
    <2>2. Written(continue(reset(t), n + m), n + max)
      BY <1>3, <1>5, ResetIsSane, ContinueWrites
    <2>3. Written(finish(t, n + m), n + max)
      BY <1>3, FinishWrites
    <2> QED
      BY <2>1, <2>2, <2>3
  <1> QED
    BY <1>6, <1>7, <1>8

LEMMA WriteIsSane ==
  ASSUME NEW s \in Servers, Sane(s), NEW max \in Nat, NEW room \in Nat
  PROVE  Written(write(s, max, room), max)
  <1> DEFINE n == Least(Least(s.head, max), room)
             t == [s EXCEPT !.head = @ - n]
  <1>0. s.head \in Nat
    BY DEF Servers
  <1>1. n \in Nat /\ n <= s.head /\ n <= max /\ n <= room
    <2>1. Least(s.head, max) \in Nat /\ Least(s.head, max) <= s.head /\ Least(s.head, max) <= max
      BY <1>0, LeastOfTwo
    <2>2. n \in Nat /\ n <= Least(s.head, max) /\ n <= room
      BY <2>1, LeastOfTwo
    <2> HIDE DEF n
    <2> QED
      BY <1>0, <2>1, <2>2
  <1>2. write(s, max, room) =
          CASE s.state # "responding" -> finish(s, 0)
            [] s.state = "responding" /\ s.code # "ok" ->
                 IF s.code = "same" /\ s.req.persist THEN continue(reset(t), n) ELSE finish(t, n)
            [] s.state = "responding" /\ s.code = "ok" /\ s.req.method = "HEAD" ->
                 IF s.req.persist THEN continue(reset(t), n) ELSE finish(t, n)
            [] OTHER -> IF max = n THEN continue(t, n) ELSE writeFile(t, max - n, room - n, n)
    BY DEF write
  <1> HIDE DEF n
  <1>3. s.head - n \in Nat /\ n \in 0 .. max /\ 0 \in 0 .. max
        /\ max - n \in Nat /\ room - n \in Nat /\ n + (max - n) = max
    BY <1>0, <1>1
  <1>4. /\ t \in Servers /\ t.state = s.state /\ t.code = s.code /\ t.req = s.req
        /\ t.file = s.file
    BY <1>3 DEF Servers
  <1> HIDE DEF t
  <1>5. Written(continue(reset(t), n), max)
    BY <1>3, <1>4, ResetIsSane, ContinueWrites
  <1>6. Written(finish(t, n), max)
    BY <1>3, FinishWrites
  <1>7. CASE s.state # "responding"
    BY <1>2, <1>3, <1>7, FinishWrites
  <1>8. CASE s.state = "responding" /\ s.code # "ok"
    BY <1>2, <1>5, <1>6, <1>8
  <1>9. CASE s.state = "responding" /\ s.code = "ok" /\ s.req.method = "HEAD"
    BY <1>2, <1>5, <1>6, <1>9
  <1>10. CASE s.state = "responding" /\ s.code = "ok" /\ s.req.method # "HEAD"
    <2>1. write(s, max, room) =
            IF max = n THEN continue(t, n) ELSE writeFile(t, max - n, room - n, n)
      BY <1>2, <1>10
    <2>2. Sane(t) /\ Reads(t) /\ t.req \in Requests
      BY <1>4, <1>10 DEF Sane, Reads
    <2>3. Written(continue(t, n), max)
      BY <1>3, <1>4, <2>2, ContinueWrites
    <2>4. Written(writeFile(t, max - n, room - n, n), n + (max - n))
      BY <1>1, <1>3, <1>4, <1>10, <2>2, FileIsWritten
    <2> QED
      BY <1>3, <2>1, <2>3, <2>4
  <1> QED
    BY <1>7, <1>8, <1>9, <1>10

(* A Server's share is no more than what is left.                          *)
LEMMA ShareIsLeft ==
  ASSUME WTypeOK, serverList # <<>>, NEW s \in Servers
  PROVE  /\ webBytesLeft \in Nat /\ Share(s) \in Nat /\ Share(s) <= webBytesLeft
         /\ spent <= bandwidthLimit => webBytesLeft = bandwidthLimit - spent
  <1>1. /\ bandwidthLimit \in 0 .. Width - 1 /\ Width \in Nat \ {0} /\ spent \in Nat
        /\ serverList \in Seq(Conns)
    BY KpfAssumption DEF WTypeOK
  <1>2. /\ webBytesLeft \in 0 .. Width - 1
        /\ spent <= bandwidthLimit => webBytesLeft = bandwidthLimit - spent
    <2>1. bandwidthLimit - spent \in Int
      BY <1>1
    <2>2. spent <= bandwidthLimit => bandwidthLimit - spent \in 0 .. Width - 1
      BY <1>1
    <2> QED
      BY <1>1, <2>1, <2>2, Residue DEF webBytesLeft
  <1>3. Len(serverList) \in Nat \ {0}
    BY <1>1, EmptySeq, LenProperties
  <1>4. bandwidthPerClient \in Nat /\ bandwidthPerClient <= webBytesLeft
    BY <1>1, <1>2, <1>3, Quotient DEF bandwidthPerClient
  <1>5. bytesLeft(s) \in Nat
    BY DEF bytesLeft, Servers
  <1>6. webBytesLeft \in Nat
    BY <1>1, <1>2
  <1>7. CASE bandwidthPerClient = 0
    BY <1>2, <1>6, <1>7 DEF Share
  <1>8. CASE bandwidthPerClient # 0
    <2>1. Share(s) = Least(bytesLeft(s), bandwidthPerClient)
      BY <1>8 DEF Share
    <2>2. Share(s) \in Nat /\ Share(s) <= bandwidthPerClient
      BY <1>4, <1>5, <2>1, LeastOfTwo
    <2> QED
      BY <1>2, <1>4, <1>6, <2>2
  <1> QED
    BY <1>7, <1>8

-----------------------------------------------------------------------------
(* The web server.                                                         *)

LEMMA WebInit == WInit => WebInv
  <1> SUFFICES ASSUME WInit PROVE WebInv
    OBVIOUS
  <1>1. serverList = <<>> /\ backlog = <<>> /\ it = 0 /\ server = [c \in Conns |-> NewServer]
    BY DEF WInit
  <1>2. WTypeOK
    <2>1. server \in [Conns -> Servers]
      BY <1>1, NewServerIsSane
    <2> QED
      <3>1. <<>> \in Seq(Conns)
        OBVIOUS
      <3>2. {listening, bindTimer, paused, backlogTimer, writeTimer, failed, lowered} \subseteq BOOLEAN
        BY DEF WInit
      <3> QED
        BY <1>1, <2>1, <3>1, <3>2 DEF WInit, WTypeOK
  <1>3. \A c : ~In(c, serverList)
    <2>1. Len(serverList) = 0
      BY <1>1, EmptySeq
    <2> QED
      BY <2>1, InList
  <1>4. HeldInv
    BY <1>1, EmptySeq DEF HeldInv
  <1>5. \A c \in Conns : Sane(server[c])
    BY <1>1, NewServerIsSane
  <1>6. TimersRun
    BY <1>1, <1>3 DEF TimersRun, NoRequestForgotten, BacklogIsPolled, WriteIsPending, In
  <1>7. CountedWithin
    BY KpfAssumption DEF WInit, CountedWithin
  <1> QED
    BY <1>2, <1>4, <1>5, <1>6, <1>7 DEF WebInv

(* The timers run on when each Server is as it was, or new; the timer of    *)
(* slotWrite runs or its loop does; and the backlog's timer runs.          *)
LEMMA TimersKept ==
  ASSUME TimersRun,
         \A d : In(d, serverList') =>
            \/ server'[d] = NewServer
            \/ In(d, serverList) /\ server'[d] = server[d],
         serverList' = <<>> \/ (writeTimer \/ it # 0 => (writeTimer \/ it # 0)'),
         BacklogIsPolled'
  PROVE  TimersRun'
  <1>1. ASSUME NEW d, In(d, serverList')
        PROVE  /\ server'[d].lines # <<>> /\ server'[d].state # "responding" => server'[d].timer
               /\ server'[d].state = "responding" /\ bytesLeft(server'[d]) # 0 =>
                     writeTimer' \/ it' # 0
    <2>1. CASE server'[d] = NewServer
      BY <2>1 DEF NewServer
    <2>2. CASE In(d, serverList) /\ server'[d] = server[d]
      <3>1. serverList' # <<>>
        <4>1. Len(<<>>) = 0
          OBVIOUS
        <4> QED
          BY <1>1, <4>1, InList
      <3> QED
        BY <2>2, <3>1 DEF TimersRun, NoRequestForgotten, WriteIsPending, In
    <2> QED
      BY <1>1, <2>1, <2>2
  <1> QED
    BY <1>1 DEF TimersRun, NoRequestForgotten, WriteIsPending, In, bytesLeft

(* A step that changes neither the lists nor the Servers.                  *)
LEMMA ServersKept ==
  ASSUME WebInv, WTypeOK', it' <= Len(serverList), CountedWithin',
         UNCHANGED <<serverList, server, backlog, backlogTimer>>,
         serverList = <<>> \/ (writeTimer \/ it # 0 => (writeTimer \/ it # 0)')
  PROVE  WebInv'
  <1>1. HeldInv' /\ \A c \in Conns : Sane(server'[c])
    BY DEF WebInv, HeldInv
  <1>2. TimersRun'
    <2>1. TimersRun /\ BacklogIsPolled'
      BY DEF WebInv, TimersRun, BacklogIsPolled
    <2> QED
      BY <2>1, TimersKept
  <1> QED
    BY <1>1, <1>2 DEF WebInv

(* A Server that finishes.                                                 *)
LEMMA FinishedKeeps ==
  ASSUME WebInv, NEW c \in Conns, In(c, serverList), slotFinished(c)
  PROVE  /\ serverList' \in Seq(Conns) /\ Len(serverList') = Len(serverList) - 1
         /\ server' \in [Conns -> Servers]
         /\ \A d \in Conns : ~In(d, serverList') => server'[d] = NewServer
         /\ \A d \in Conns : Sane(server'[d])
         /\ \A d : In(d, serverList') =>
               \/ server'[d] = NewServer
               \/ In(d, serverList) /\ server'[d] = server[d]
  <1>1. /\ serverList \in Seq(Conns) /\ server \in [Conns -> Servers]
        /\ \A d \in Conns : ~In(d, serverList) => server[d] = NewServer
        /\ \A d \in Conns : Sane(server[d])
    BY DEF WebInv, WTypeOK, HeldInv
  <1>2. /\ serverList' \in Seq(Conns) /\ Len(serverList') = Len(serverList) - 1
        /\ \A d : In(d, serverList') => In(d, serverList)
        /\ \A d : In(d, serverList) /\ d # c => In(d, serverList')
    BY <1>1, WithoutOne DEF slotFinished
  <1>3. /\ server' \in [Conns -> Servers] /\ server'[c] = NewServer
        /\ \A d \in Conns : d # c => server'[d] = server[d]
    BY <1>1, NewServerIsSane DEF slotFinished
  <1>4. \A d : In(d, serverList) => d \in Conns
    BY <1>1, InList
  <1> QED
    BY <1>1, <1>2, <1>3, <1>4, NewServerIsSane

(* A Server that goes on.                                                  *)
LEMMA GoesOnKeeps ==
  ASSUME WebInv, NEW c \in Conns, NEW s \in Servers, Sane(s), Reads(s), In(c, serverList),
         server' = [server EXCEPT ![c] = s], UNCHANGED <<serverList, backlog, backlogTimer>>,
         writeTimer \/ it # 0 => (writeTimer \/ it # 0)',
         s.state = "responding" /\ bytesLeft(s) # 0 => (writeTimer \/ it # 0)',
         WTypeOK', it' <= Len(serverList), CountedWithin'
  PROVE  WebInv'
  <1>1. server \in [Conns -> Servers]
    BY DEF WebInv, WTypeOK
  <1>2. server'[c] = s /\ \A d \in Conns : d # c => server'[d] = server[d]
    BY <1>1
  <1>3. HeldInv'
    BY <1>2 DEF WebInv, HeldInv
  <1>4. \A d \in Conns : Sane(server'[d])
    BY <1>2 DEF WebInv
  <1>5. \A d : In(d, serverList) => d \in Conns
    BY InList DEF WebInv, WTypeOK
  <1>6. ASSUME NEW d, In(d, serverList)
        PROVE  /\ server'[d].lines # <<>> /\ server'[d].state # "responding" => server'[d].timer
               /\ server'[d].state = "responding" /\ bytesLeft(server'[d]) # 0 =>
                     writeTimer' \/ it' # 0
    <2>1. CASE d = c
      BY <1>2, <2>1 DEF Reads
    <2>2. CASE d # c
      <3>1. server'[d] = server[d]
        BY <1>2, <1>5, <1>6, <2>2
      <3> QED
        BY <1>6, <3>1 DEF WebInv, TimersRun, NoRequestForgotten, WriteIsPending, In
    <2> QED
      BY <2>1, <2>2
  <1>7. TimersRun'
    BY <1>6 DEF WebInv, TimersRun, NoRequestForgotten, WriteIsPending, BacklogIsPolled, In, bytesLeft
  <1> QED
    BY <1>3, <1>4, <1>7 DEF WebInv

LEMMA Advances ==
  ASSUME NEW i \in Nat \ {0}, NEW n \in Nat, Advance(i + 1, n)
  PROVE  it' \in Nat /\ it' <= n /\ writeTimer' \in BOOLEAN /\ (writeTimer \/ it # 0)'
  <1>1. it' = (IF i + 1 > n THEN 0 ELSE i + 1)
    BY DEF Advance
  <1>2. CASE i + 1 > n
    <2>1. writeTimer' = TRUE
      BY <1>2 DEF Advance
    <2>2. it' \in Nat /\ it' <= n
      BY <1>1, <1>2
    <2> QED
      BY <2>1, <2>2
  <1>3. CASE ~(i + 1 > n)
    <2>1. writeTimer' = FALSE
      <3>1. writeTimer' = (i + 1 > n)
        BY DEF Advance
      <3>2. (i + 1 > n) = FALSE
        BY <1>3
      <3> QED
        BY <3>1, <3>2, Zenon
    <2>2. it' \in Nat /\ it' <= n /\ it' # 0
      BY <1>1, <1>3
    <2> QED
      BY <2>1, <2>2
  <1> QED
    BY <1>2, <1>3

(* A Server is over in slotWrite, or outside of it.                        *)
LEMMA OverKeeps ==
  ASSUME WebInv, NEW c \in Conns, In(c, serverList), it # 0, slotFinished(c),
         Advance(it + 1, Len(serverList) - 1), UNCHANGED <<settings, binding, waiting>>,
         spent' \in Nat, sent' \in Nat, failed' \in BOOLEAN, lowered' = lowered, CountedWithin'
  PROVE  WebInv'
  <1>1. /\ serverList' \in Seq(Conns) /\ Len(serverList') = Len(serverList) - 1
        /\ server' \in [Conns -> Servers]
        /\ \A d \in Conns : ~In(d, serverList') => server'[d] = NewServer
        /\ \A d \in Conns : Sane(server'[d])
        /\ \A d : In(d, serverList') =>
              \/ server'[d] = NewServer
              \/ In(d, serverList) /\ server'[d] = server[d]
    BY FinishedKeeps
  <1>2. it \in Nat /\ Len(serverList) \in Nat /\ Len(serverList') \in Nat
    BY <1>1, LenProperties DEF WebInv, WTypeOK
  <1>3. /\ it' \in Nat /\ it' <= Len(serverList') /\ writeTimer' \in BOOLEAN
        /\ (writeTimer \/ it # 0)'
    BY <1>1, <1>2, Advances
  <1>4. WTypeOK'
    BY <1>1, <1>3 DEF WebInv, WTypeOK, settings, binding, waiting
  <1>5. TimersRun'
    <2>1. TimersRun /\ BacklogIsPolled'
      BY DEF WebInv, TimersRun, BacklogIsPolled, waiting
    <2> QED
      BY <1>1, <1>3, <2>1, TimersKept
  <1> QED
    BY <1>1, <1>3, <1>4, <1>5 DEF WebInv, HeldInv

LEMMA LeavingKeeps ==
  ASSUME WebInv, NEW c \in Conns, In(c, serverList), it = 0, slotFinished(c),
         UNCHANGED <<settings, binding, waiting, writeTimer, it, output>>
  PROVE  WebInv'
  <1>1. /\ serverList' \in Seq(Conns) /\ Len(serverList') = Len(serverList) - 1
        /\ server' \in [Conns -> Servers]
        /\ \A d \in Conns : ~In(d, serverList') => server'[d] = NewServer
        /\ \A d \in Conns : Sane(server'[d])
        /\ \A d : In(d, serverList') =>
              \/ server'[d] = NewServer
              \/ In(d, serverList) /\ server'[d] = server[d]
    BY FinishedKeeps
  <1>2. Len(serverList') \in Nat
    BY <1>1, LenProperties
  <1>3. WTypeOK'
    BY <1>1 DEF WebInv, WTypeOK, settings, binding, waiting, output
  <1>4. TimersRun'
    <2>1. TimersRun /\ BacklogIsPolled'
      BY DEF WebInv, TimersRun, BacklogIsPolled, waiting
    <2> QED
      BY <1>1, <2>1, TimersKept
  <1>5. CountedWithin'
    BY DEF WebInv, CountedWithin, settings, output
  <1> QED
    BY <1>1, <1>2, <1>3, <1>4, <1>5 DEF WebInv, HeldInv

(* A Server has read, in slotReadyRead or in slotRead.                     *)
LEMMA ServerReads ==
  ASSUME WebInv, NEW c \in Conns, NEW s \in Servers, Sane(s), Reads(s), In(c, serverList),
         server[c].state = "responding" =>
            s.state = "responding" /\ bytesLeft(s) = bytesLeft(server[c]),
         server' = [server EXCEPT ![c] = s],
         writeTimer' = (writeTimer \/ (s.state = "responding" /\ server[c].state # "responding")),
         UNCHANGED <<settings, binding, waiting, serverList, it, output>>
  PROVE  WebInv'
  <1>1. WTypeOK /\ CountedWithin /\ it <= Len(serverList)
    BY DEF WebInv, HeldInv
  <1>2. server' \in [Conns -> Servers] /\ writeTimer' \in BOOLEAN
    BY <1>1 DEF WTypeOK
  <1>3. WTypeOK'
    BY <1>1, <1>2 DEF WTypeOK, settings, binding, waiting, output
  <1>4. CountedWithin'
    BY <1>1 DEF CountedWithin, settings, output
  <1>5. s.state = "responding" /\ bytesLeft(s) # 0 => (writeTimer \/ it # 0)'
    BY DEF WebInv, TimersRun, WriteIsPending, In
  <1> QED
    BY <1>1, <1>3, <1>4, <1>5, GoesOnKeeps DEF waiting

LEMMA ReadyReadKeeps ==
  ASSUME WebInv, NEW c \in Conns, NEW lines \in Arrivals(c), slotReadyRead(c, lines)
  PROVE  WebInv'
  <1> USE DEF slotReadyRead, settings, binding, waiting, output
  <1>1. CASE server[c].read + Len(lines) > IncomingDataLimit
    <2>1. In(c, serverList) /\ slotFinished(c) /\ it = 0 /\ UNCHANGED <<writeTimer, it>>
          /\ UNCHANGED <<settings, binding, waiting, output>>
      BY <1>1
    <2> QED
      BY <2>1, LeavingKeeps
  <1>2. CASE ~(server[c].read + Len(lines) > IncomingDataLimit)
    <2> DEFINE a == [server[c] EXCEPT !.read = @ + Len(lines)]
               b == [a EXCEPT !.lines = @ \o lines]
               s == read(b)
    <2>1. /\ server[c] \in Servers /\ Sane(server[c])
      BY DEF WebInv, WTypeOK
    <2>2. lines \in Seq(Requests \cup {End}) /\ Len(lines) \in Nat
      <3>1. \A r \in Asks[c] : r \in Requests
        BY KpfAssumption
      <3>2. CASE \E q \in Asks[c] : lines = <<q>>
        BY <3>1, <3>2
      <3>3. CASE \E q \in Asks[c] : lines = <<q, End>>
        BY <3>1, <3>3
      <3>4. CASE lines = <<End>>
        BY <3>4
      <3> QED
        BY <3>2, <3>3, <3>4 DEF Arrivals
    <2>3. /\ a \in Servers /\ a.state = server[c].state /\ a.req = server[c].req
          /\ a.code = server[c].code /\ a.head = server[c].head /\ a.file = server[c].file
      <3>1. server[c].read + Len(lines) \in Nat
        BY <2>1, <2>2 DEF Servers
      <3> QED
        BY <2>1, <3>1 DEF Servers
    <2>4. server' = [server EXCEPT ![c] = s]
          /\ writeTimer' = (writeTimer \/ (s.state = "responding" /\ server[c].state # "responding"))
          /\ UNCHANGED serverList
      BY <1>2
    <2> HIDE DEF a
    <2>5. /\ b \in Servers /\ b.state = a.state /\ b.req = a.req
          /\ b.code = a.code /\ b.head = a.head /\ b.file = a.file
      <3>1. a.lines \o lines \in Seq(Requests \cup {End})
        BY <2>2, <2>3, ConcatProperties DEF Servers
      <3> QED
        BY <2>3, <3>1 DEF Servers
    <2> HIDE DEF b
    <2>6. Sane(b) /\ b.state = server[c].state /\ bytesLeft(b) = bytesLeft(server[c])
      BY <2>1, <2>3, <2>5 DEF Sane, bytesLeft
    <2>7. /\ s \in Servers /\ Sane(s) /\ Reads(s)
          /\ b.state = "responding" => s = b
      BY <2>5, <2>6, ReadIsSane
    <2> HIDE DEF s
    <2> QED
      BY <2>4, <2>6, <2>7, ServerReads
  <1> QED
    BY <1>1, <1>2

LEMMA ReadKeeps ==
  ASSUME WebInv, NEW c \in Conns, slotRead(c)
  PROVE  WebInv'
  <1> DEFINE b == [server[c] EXCEPT !.timer = FALSE]
             s == read(b)
  <1>1. /\ server[c] \in Servers /\ Sane(server[c])
    BY DEF WebInv, WTypeOK
  <1>2. server' = [server EXCEPT ![c] = s] /\ In(c, serverList) /\ it = 0
        /\ writeTimer' = (writeTimer \/ (s.state = "responding" /\ server[c].state # "responding"))
        /\ UNCHANGED <<settings, binding, waiting, serverList, it, output>>
    BY DEF slotRead
  <1>3. /\ b \in Servers /\ b.state = server[c].state /\ b.req = server[c].req
        /\ b.code = server[c].code /\ b.head = server[c].head /\ b.file = server[c].file
    BY <1>1 DEF Servers
  <1> HIDE DEF b
  <1>4. Sane(b) /\ bytesLeft(b) = bytesLeft(server[c])
    BY <1>1, <1>3 DEF Sane, bytesLeft
  <1>5. /\ s \in Servers /\ Sane(s) /\ Reads(s)
        /\ b.state = "responding" => s = b
    BY <1>3, <1>4, ReadIsSane
  <1> HIDE DEF s
  <1> QED
    BY <1>2, <1>3, <1>4, <1>5, ServerReads

LEMMA WriteKeeps ==
  ASSUME WebInv, NEW c \in Conns, NEW room \in Rooms, Write(c, room)
  PROVE  WebInv'
  <1> DEFINE s == server[c]
             w == write(s, Share(s), room)
  <1>1. /\ WTypeOK /\ s \in Servers /\ Sane(s) /\ it \in Nat /\ it <= Len(serverList)
        /\ CountedWithin
    BY DEF WebInv, WTypeOK, HeldInv
  <1>2. In(c, serverList) /\ serverList # <<>> /\ Len(serverList) \in Nat
    <2>1. serverList \in Seq(Conns) /\ Len(serverList) \in Nat
      BY <1>1 DEF WTypeOK
    <2>2. it \in 1 .. Len(serverList)
      BY <1>1, <2>1 DEF Write
    <2> QED
      BY <2>1, <2>2, InList, EmptySeq DEF Write
  <1>3. room \in Nat
    BY KpfAssumption DEF Rooms
  <1>4. /\ webBytesLeft \in Nat /\ Share(s) \in Nat /\ Share(s) <= webBytesLeft
        /\ spent <= bandwidthLimit => webBytesLeft = bandwidthLimit - spent
    BY <1>1, <1>2, ShareIsLeft
  <1>5. Written(w, Share(s))
    BY <1>1, <1>3, <1>4, WriteIsSane
  <1>6. /\ spent' = spent + w.n /\ sent' = sent + w.sent
        /\ failed' = (failed \/ w.failed)
        /\ UNCHANGED <<settings, binding, waiting>> /\ lowered' = lowered
    BY DEF Write
  <1>6a. ASSUME w.over PROVE slotFinished(c) /\ Advance(it + 1, Len(serverList) - 1)
    BY <1>6a DEF Write
  <1>6b. ASSUME ~w.over
         PROVE  /\ server' = [server EXCEPT ![c] = w.s]
                /\ Advance(it + 1, Len(serverList)) /\ UNCHANGED serverList
    BY <1>6b DEF Write
  <1> HIDE DEF w, s
  <1>7. spent' \in Nat /\ sent' \in Nat /\ failed' \in BOOLEAN /\ CountedWithin'
    <2>0. sent' \in Nat /\ failed' \in BOOLEAN
      BY <1>1, <1>5, <1>6 DEF WTypeOK, Written
    <2>1. /\ spent \in Nat /\ bandwidthLimit \in Nat /\ bandwidthLimit' = bandwidthLimit
          /\ w.n \in Nat /\ w.n <= Share(s) /\ lowered' = lowered /\ spent' = spent + w.n
      BY <1>1, <1>5, <1>6, KpfAssumption DEF WTypeOK, settings, Written
    <2>2. ASSUME ~lowered PROVE spent + w.n <= bandwidthLimit
      BY <1>1, <1>4, <2>1, <2>2 DEF CountedWithin
    <2>3. ASSUME ~failed' PROVE sent' = spent'
      BY <1>1, <1>5, <1>6, <2>3 DEF CountedWithin, Written
    <2> QED
      BY <2>0, <2>1, <2>2, <2>3 DEF CountedWithin
  <1>8. CASE w.over
    <2>1. slotFinished(c) /\ Advance(it + 1, Len(serverList) - 1)
      BY <1>6a, <1>8
    <2>2. it # 0
      BY DEF Write
    <2> QED
      BY <1>2, <1>6, <1>7, <2>1, <2>2, OverKeeps
  <1>9. CASE ~w.over
    <2>1. w.s \in Servers /\ Sane(w.s) /\ Reads(w.s)
      BY <1>5, <1>9 DEF Written
    <2>2. it' \in Nat /\ it' <= Len(serverList) /\ writeTimer' \in BOOLEAN
          /\ (writeTimer \/ it # 0)'
      <3> it \in Nat \ {0}
        BY <1>1 DEF Write
      <3> QED
        BY <1>2, <1>6b, <1>9, Advances
    <2>3. WTypeOK'
      <3>1. server' \in [Conns -> Servers]
        BY <1>1, <1>6b, <1>9, <2>1 DEF WTypeOK
      <3> QED
        BY <1>1, <1>6, <1>6b, <1>7, <1>9, <2>2, <3>1
        DEF WTypeOK, settings, binding, waiting
    <2> QED
      BY <1>2, <1>6, <1>6b, <1>7, <1>9, <2>1, <2>2, <2>3, GoesOnKeeps DEF waiting
  <1> QED
    BY <1>8, <1>9

(* New connections: the Servers of those that get one are new.             *)
LEMMA JoinedKeep ==
  ASSUME WebInv, NEW joined \in Seq(Conns), serverList' = serverList \o joined,
         backlog' \in Seq(Conns), backlogTimer' \in BOOLEAN, ignored' \subseteq Conns,
         BacklogIsPolled', UNCHANGED <<settings, binding, server, writeTimer, it, output>>
  PROVE  WebInv'
  <1>1. serverList \in Seq(Conns) /\ Len(serverList) \in Nat /\ Len(joined) \in Nat
    BY LenProperties DEF WebInv, WTypeOK
  <1>2. /\ serverList' \in Seq(Conns) /\ Len(serverList') = Len(serverList) + Len(joined)
        /\ \A i \in 1 .. Len(serverList) + Len(joined) :
              serverList'[i] = IF i <= Len(serverList) THEN serverList[i]
                               ELSE joined[i - Len(serverList)]
    BY <1>1, ConcatProperties
  <1>3. ASSUME NEW d, In(d, serverList) PROVE In(d, serverList')
    <2>1. PICK i \in 1 .. Len(serverList) : serverList[i] = d
      BY <1>3, InList
    <2>2. i \in 1 .. Len(serverList') /\ serverList'[i] = d
      BY <1>1, <1>2, <2>1
    <2> QED
      BY <2>2, InList
  <1>4. ASSUME NEW d, In(d, serverList'), ~In(d, serverList) PROVE server[d] = NewServer
    <2>1. PICK i \in 1 .. Len(serverList') : serverList'[i] = d
      BY <1>4, InList
    <2>2. ~(i <= Len(serverList))
      BY <1>1, <1>2, <1>4, <2>1, InList
    <2>3. i - Len(serverList) \in 1 .. Len(joined) /\ joined[i - Len(serverList)] = d
      BY <1>1, <1>2, <2>1, <2>2
    <2>4. d \in Conns
      BY <2>3
    <2> QED
      BY <1>4, <2>4 DEF WebInv, HeldInv
  <1>5. HeldInv'
    <2>1. it' <= Len(serverList')
      BY <1>1, <1>2 DEF WebInv, HeldInv, WTypeOK
    <2>2. \A d \in Conns : ~In(d, serverList') => server'[d] = NewServer
      BY <1>3 DEF WebInv, HeldInv
    <2> QED
      BY <2>1, <2>2 DEF HeldInv
  <1>6. WTypeOK'
    BY <1>2 DEF WebInv, WTypeOK, settings, binding, output
  <1>7. TimersRun'
    BY <1>4, TimersKept DEF WebInv
  <1>8. CountedWithin'
    BY DEF WebInv, CountedWithin, settings, output
  <1> QED
    BY <1>5, <1>6, <1>7, <1>8 DEF WebInv

LEMMA ConnectionKeeps ==
  ASSUME WebInv, NEW c \in Conns, slotConnection(c)
  PROVE  WebInv'
  <1>1. /\ WTypeOK /\ BacklogIsPolled /\ serverList \in Seq(Conns) /\ backlog \in Seq(Conns)
        /\ backlogTimer \in BOOLEAN /\ ignored \subseteq Conns
    BY DEF WebInv, WTypeOK, TimersRun
  <1>2. UNCHANGED <<settings, binding, server, writeTimer, it, output>> /\ ~In(c, serverList)
    BY DEF slotConnection
  <1>3. CASE serverList' = Append(serverList, c) /\ UNCHANGED waiting
    <2>1. <<c>> \in Seq(Conns) /\ Len(<<c>>) = 1 /\ <<c>>[1] = c
      OBVIOUS
    <2>2. serverList' = serverList \o <<c>>
      BY <1>1, <1>3, AppendIsConcat
    <2>4. backlog' = backlog /\ backlogTimer' = backlogTimer /\ ignored' = ignored
      BY <1>3 DEF waiting
    <2>5. BacklogIsPolled'
      BY <1>1, <2>4 DEF BacklogIsPolled
    <2> QED
      BY <1>1, <1>2, <2>1, <2>2, <2>4, <2>5, JoinedKeep
  <1>4. CASE UNCHANGED serverList
    <2>1. backlog' \in Seq(Conns) /\ backlogTimer' \in BOOLEAN /\ ignored' \subseteq Conns
      <3>1. UNCHANGED waiting => UNCHANGED <<backlog, backlogTimer, ignored>>
        BY DEF waiting
      <3>2. backlog' = backlog \/ backlog' = Append(backlog, c)
        BY <3>1 DEF slotConnection
      <3>3. backlogTimer' = backlogTimer \/ backlogTimer' = (backlogTimer \/ backlog = <<>>)
        BY <3>1 DEF slotConnection
      <3>4. ignored' = ignored \/ ignored' = ignored \cup {c}
        BY <3>1 DEF slotConnection
      <3>5. backlogTimer' \in BOOLEAN
        BY <1>1, <3>3
      <3> QED
        BY <1>1, <3>2, <3>4, <3>5
    <2>2. BacklogIsPolled'
      BY <1>1 DEF slotConnection, waiting, BacklogIsPolled
    <2>3. serverList' = serverList \o <<>>
      BY <1>1, <1>4, ConcatEmptySeq
    <2>4. <<>> \in Seq(Conns) /\ Len(<<>>) = 0
      OBVIOUS
    <2> QED
      BY <1>2, <2>1, <2>2, <2>3, <2>4, JoinedKeep
  <1> QED
    BY <1>3, <1>4 DEF slotConnection

LEMMA HandledAreFirst ==
  ASSUME WTypeOK
  PROVE  LET n == IF Handles THEN Least(Len(backlog), connectionLimit - Len(serverList)) ELSE 0
         IN n \in 0 .. Len(backlog)
  <1>1. Len(backlog) \in Nat /\ Len(serverList) \in Nat /\ connectionLimit \in Nat
    BY KpfAssumption, LenProperties DEF WTypeOK
  <1> QED
    BY <1>1 DEF Handles, Least

LEMMA ClearBacklogKeeps ==
  ASSUME WebInv, slotClearBacklog
  PROVE  WebInv'
  <1> DEFINE n == IF Handles THEN Least(Len(backlog), connectionLimit - Len(serverList)) ELSE 0
  <1>1. WTypeOK /\ backlog \in Seq(Conns) /\ ignored \subseteq Conns
    BY DEF WebInv, WTypeOK
  <1>2. n \in 0 .. Len(backlog)
    BY <1>1, HandledAreFirst
  <1>3. /\ serverList' = serverList \o SubSeq(backlog, 1, n)
        /\ backlog' = SubSeq(backlog, n + 1, Len(backlog))
        /\ UNCHANGED <<settings, binding, ignored, server, writeTimer, it, output>>
    BY DEF slotClearBacklog
  <1>4. backlogTimer' = (backlog' # <<>>)
    BY DEF slotClearBacklog
  <1> HIDE DEF n
  <1>5. SubSeq(backlog, 1, n) \in Seq(Conns) /\ SubSeq(backlog, n + 1, Len(backlog)) \in Seq(Conns)
    BY <1>1, <1>2, FirstOf
  <1>6. backlogTimer' \in BOOLEAN /\ BacklogIsPolled'
    BY <1>4 DEF BacklogIsPolled
  <1> QED
    BY <1>1, <1>3, <1>5, <1>6, JoinedKeep

LEMMA RestartKeeps ==
  ASSUME WebInv, restart
  PROVE  WebInv'
  <1> DEFINE left == [i \in 1 .. Len(serverList) \div 2 |-> serverList[2 * i]]
  <1>1. /\ serverList \in Seq(Conns) /\ Len(serverList) \in Nat
        /\ server \in [Conns -> Servers] /\ it = 0
        /\ \A i \in 1 .. Len(serverList) : serverList[i] \in Conns
    BY LenProperties DEF WebInv, WTypeOK, restart
  <1>2. Len(serverList) \div 2 \in Nat
        /\ \A i \in 1 .. Len(serverList) \div 2 : 2 * i \in 1 .. Len(serverList)
    BY <1>1
  <1>3. left \in Seq(Conns) /\ Len(left) = Len(serverList) \div 2
    <2>1. \A i \in 1 .. Len(serverList) \div 2 : serverList[2 * i] \in Conns
      BY <1>1, <1>2
    <2> QED
      BY <1>2, <2>1
  <1>4. ASSUME NEW d, In(d, left) PROVE In(d, serverList)
    <2>1. PICK i \in 1 .. Len(left) : left[i] = d
      BY <1>4, InList
    <2>2. serverList[2 * i] = d /\ 2 * i \in 1 .. Len(serverList)
      BY <1>2, <1>3, <2>1
    <2> QED
      BY <2>2, InList
  <1>5. /\ serverList' = left
        /\ server' = [c \in Conns |-> IF In(c, left) THEN server[c] ELSE NewServer]
        /\ listening' = FALSE /\ bindTimer' = TRUE
        /\ UNCHANGED <<settings, waiting, writeTimer, it, output>>
    BY DEF restart
  <1> HIDE DEF left
  <1>6. server' \in [Conns -> Servers]
    BY <1>1, <1>5, NewServerIsSane
  <1>7. WTypeOK'
    BY <1>3, <1>5, <1>6 DEF WebInv, WTypeOK, settings, waiting, output
  <1>8. \A d \in Conns : server'[d] = IF In(d, left) THEN server[d] ELSE NewServer
    BY <1>5
  <1>9. HeldInv' /\ \A d \in Conns : Sane(server'[d])
    <2>1. it' <= Len(serverList')
      BY <1>1, <1>2, <1>3, <1>5
    <2>2. \A d \in Conns : ~In(d, serverList') => server'[d] = NewServer
      BY <1>5, <1>8
    <2>3. \A d \in Conns : Sane(server'[d])
      BY <1>8, NewServerIsSane DEF WebInv
    <2> QED
      BY <2>1, <2>2, <2>3 DEF HeldInv
  <1>10. TimersRun'
    <2>1. ASSUME NEW d, In(d, serverList')
          PROVE  In(d, serverList) /\ server'[d] = server[d]
      <3>1. In(d, left) /\ In(d, serverList)
        BY <1>4, <1>5, <2>1
      <3>2. d \in Conns
        BY <1>1, <3>1, InList
      <3> QED
        BY <1>8, <3>1, <3>2
    <2>2. TimersRun /\ BacklogIsPolled' /\ UNCHANGED <<writeTimer, it>>
      BY <1>5 DEF WebInv, TimersRun, BacklogIsPolled, waiting
    <2> QED
      BY <2>1, <2>2, TimersKept
  <1>11. CountedWithin'
    BY <1>5 DEF WebInv, CountedWithin, settings, output
  <1> QED
    BY <1>7, <1>9, <1>10, <1>11 DEF WebInv

(* A setting, the socket, or what has been counted.                        *)
LEMMA SettingKeeps ==
  ASSUME WebInv,
         \/ \E l \in Bandwidths : setBandwidthLimit(l)
         \/ \E i \in ConnectionLimits : setConnectionLimit(i)
         \/ \E b \in BOOLEAN : pause(b)
         \/ slotBind \/ slotCheckOutput \/ \E c \in Conns : GivesUp(c)
  PROVE  WebInv'
  <1>1. WTypeOK /\ CountedWithin /\ it <= Len(serverList)
    BY DEF WebInv, HeldInv
  <1>2. UNCHANGED <<serverList, server, backlog, backlogTimer, writeTimer, it>>
    BY DEF setBandwidthLimit, setConnectionLimit, pause, slotBind, slotCheckOutput, GivesUp,
           settings, binding, waiting, output
  <1>3. /\ paused' \in BOOLEAN /\ connectionLimit' \in ConnectionLimits
        /\ bandwidthLimit' \in Bandwidths /\ ignored' \subseteq Conns /\ spent' \in Nat
        /\ sent' \in Nat
    BY <1>1 DEF WTypeOK, setBandwidthLimit, setConnectionLimit, pause, slotBind, slotCheckOutput,
                GivesUp, settings, binding, waiting, output
  <1>4. listening' \in BOOLEAN /\ bindTimer' \in BOOLEAN
    BY <1>1 DEF WTypeOK, setBandwidthLimit, setConnectionLimit, pause, slotBind, slotCheckOutput,
                GivesUp, settings, binding, waiting, output
  <1>5. lowered' \in BOOLEAN /\ failed' \in BOOLEAN
    <2>1. CASE \E l \in Bandwidths : setBandwidthLimit(l)
      BY <1>1, <2>1 DEF WTypeOK, setBandwidthLimit
    <2>2. CASE slotCheckOutput
      BY <2>2 DEF slotCheckOutput
    <2>3. CASE UNCHANGED <<failed, lowered>>
      BY <1>1, <2>3 DEF WTypeOK
    <2> QED
      BY <2>1, <2>2, <2>3 DEF setConnectionLimit, pause, slotBind, GivesUp, output
  <1>6. WTypeOK'
    BY <1>1, <1>2, <1>3, <1>4, <1>5 DEF WTypeOK
  <1>7. CountedWithin'
    <2>1. CASE \E l \in Bandwidths : setBandwidthLimit(l)
      <3>1. PICK l \in Bandwidths : setBandwidthLimit(l)
        BY <2>1
      <3>2. /\ l \in Nat /\ spent \in Nat /\ bandwidthLimit' = l
            /\ UNCHANGED <<spent, sent, failed>>
        BY <1>1, <3>1, KpfAssumption DEF WTypeOK, setBandwidthLimit
      <3>3. ~lowered' => ~(spent > l)
        BY <3>1, Zenon DEF setBandwidthLimit
      <3> QED
        BY <1>1, <3>2, <3>3 DEF CountedWithin
    <2>2. CASE slotCheckOutput
      <3>1. bandwidthLimit' \in Nat /\ spent' = 0 /\ sent' = 0
        BY <1>3, <2>2, KpfAssumption DEF slotCheckOutput
      <3> QED
        BY <3>1 DEF CountedWithin
    <2>3. CASE UNCHANGED <<bandwidthLimit, spent, sent, failed, lowered>>
      BY <1>1, <2>3 DEF CountedWithin
    <2> QED
      BY <2>1, <2>2, <2>3 DEF setConnectionLimit, pause, slotBind, GivesUp, output, settings
  <1>8. it' <= Len(serverList) /\ (writeTimer \/ it # 0 => (writeTimer \/ it # 0)')
    BY <1>1, <1>2
  <1> QED
    BY <1>2, <1>6, <1>7, <1>8, ServersKept

(* slotWrite, where no Server writes.                                      *)
LEMMA PassKeeps ==
  ASSUME WebInv, slotWrite \/ Pass \/ Spent
  PROVE  WebInv'
  <1>1. /\ WTypeOK /\ CountedWithin /\ it <= Len(serverList) /\ it \in Nat
        /\ serverList \in Seq(Conns)
    BY DEF WebInv, HeldInv, WTypeOK
  <1>2. Len(serverList) \in Nat /\ (serverList = <<>> \/ Len(serverList) # 0)
    BY <1>1, EmptySeq, LenProperties
  <1>3. /\ UNCHANGED <<serverList, server, backlog, backlogTimer>>
        /\ UNCHANGED <<settings, binding, waiting, output>>
    BY DEF slotWrite, Pass, Spent, waiting
  <1>4. /\ it' \in Nat /\ it' <= Len(serverList) /\ writeTimer' \in BOOLEAN
        /\ serverList = <<>> \/ (writeTimer \/ it # 0)'
    <2>1. CASE slotWrite
      <3>1. writeTimer' = FALSE /\ it' = IF serverList = <<>> THEN 0 ELSE 1
        BY <2>1 DEF slotWrite
      <3>2. it' \in Nat /\ it' <= Len(serverList) /\ (serverList = <<>> \/ it' # 0)
        BY <1>2, <3>1
      <3> QED
        BY <3>1, <3>2
    <2>2. CASE Pass
      <3>1. it \in Nat \ {0} /\ Advance(it + 1, Len(serverList))
        BY <1>1, <2>2 DEF Pass
      <3> QED
        BY <1>2, <3>1, Advances
    <2>3. CASE Spent
      <3>1. it' = 0 /\ writeTimer' = TRUE
        BY <2>3 DEF Spent
      <3>2. it' \in Nat /\ it' <= Len(serverList)
        BY <1>2, <3>1
      <3> QED
        BY <3>1, <3>2
    <2> QED
      BY <2>1, <2>2, <2>3
  <1>5. WTypeOK'
    BY <1>1, <1>3, <1>4 DEF WTypeOK, settings, binding, waiting, output
  <1>6. CountedWithin'
    BY <1>1, <1>3 DEF CountedWithin, settings, output
  <1> QED
    BY <1>3, <1>4, <1>5, <1>6, ServersKept

LEMMA WriteFailsKeeps ==
  ASSUME WebInv, NEW c \in Conns, WriteFails(c)
  PROVE  WebInv'
  <1>1. WTypeOK /\ it \in Nat /\ it <= Len(serverList) /\ serverList \in Seq(Conns)
    BY DEF WebInv, WTypeOK, HeldInv
  <1>2. it # 0 /\ c = serverList[it] /\ slotFinished(c) /\ Advance(it + 1, Len(serverList) - 1)
        /\ UNCHANGED <<settings, binding, waiting>>
    BY DEF WriteFails
  <1>3. In(c, serverList)
    <2>1. Len(serverList) \in Nat
      BY <1>1, LenProperties
    <2>2. it \in 1 .. Len(serverList)
      BY <1>1, <1>2, <2>1
    <2> QED
      BY <1>2, <2>2, InList
  <1>4. spent' = spent /\ lowered' = lowered /\ bandwidthLimit' = bandwidthLimit
    BY DEF WriteFails, settings
  <1>5. sent' \in Nat /\ failed' \in BOOLEAN /\ (~failed' => ~failed /\ sent' = sent)
    <2>1. PICK room \in Rooms :
             LET header == headerBefore(server[c], Share(server[c]), room) IN
             sent' = sent + header /\ failed' = (failed \/ header # 0)
      BY DEF WriteFails
    <2> DEFINE header == headerBefore(server[c], Share(server[c]), room)
    <2>2. server[c].head \in Nat /\ sent \in Nat /\ failed \in BOOLEAN
      BY <1>1 DEF WTypeOK, Servers
    <2>3. header \in {server[c].head, 0}
      BY DEF headerBefore
    <2>4. sent' = sent + header /\ failed' = (failed \/ header # 0)
      BY <2>1
    <2> HIDE DEF header
    <2>5. failed' \in BOOLEAN /\ (~failed' => ~failed /\ header = 0)
      BY <2>2, <2>4, Zenon
    <2>6. header \in Nat
      BY <2>2, <2>3
    <2> QED
      BY <2>2, <2>4, <2>5, <2>6
  <1>6. spent' \in Nat /\ CountedWithin'
    BY <1>1, <1>4, <1>5 DEF WebInv, CountedWithin, WTypeOK
  <1> QED
    BY <1>2, <1>3, <1>4, <1>5, <1>6, OverKeeps

LEMMA WebNext == WebInv /\ [WNext]_wvars => WebInv'
  <1> SUFFICES ASSUME WebInv, [WNext]_wvars PROVE WebInv'
    OBVIOUS
  <1>1. ASSUME NEW c \in Conns, slotConnection(c) PROVE WebInv'
    BY <1>1, ConnectionKeeps
  <1>2. ASSUME NEW c \in Conns, NEW lines \in Arrivals(c), slotReadyRead(c, lines) PROVE WebInv'
    BY <1>2, ReadyReadKeeps
  <1>3. ASSUME NEW c \in Conns, slotRead(c) PROVE WebInv'
    BY <1>3, ReadKeeps
  <1>4. ASSUME NEW c \in Conns, slotConnectionClosed(c) PROVE WebInv'
    BY <1>4, LeavingKeeps DEF slotConnectionClosed
  <1>5. ASSUME NEW c \in Conns, NEW room \in Rooms, Write(c, room) PROVE WebInv'
    BY <1>5, WriteKeeps
  <1>6. ASSUME NEW c \in Conns, WriteFails(c) PROVE WebInv'
    BY <1>6, WriteFailsKeeps
  <1>7. ASSUME slotClearBacklog PROVE WebInv'
    BY <1>7, ClearBacklogKeeps
  <1>8. ASSUME slotWrite \/ Pass \/ Spent PROVE WebInv'
    BY <1>8, PassKeeps
  <1>9. ASSUME restart PROVE WebInv'
    BY <1>9, RestartKeeps
  <1>10. ASSUME \/ \E l \in Bandwidths : setBandwidthLimit(l)
                \/ \E i \in ConnectionLimits : setConnectionLimit(i)
                \/ \E b \in BOOLEAN : pause(b)
                \/ slotBind \/ slotCheckOutput \/ \E c \in Conns : GivesUp(c)
         PROVE WebInv'
    BY <1>10, SettingKeeps
  <1>11. ASSUME UNCHANGED wvars PROVE WebInv'
    <2>1. UNCHANGED <<serverList, server, backlog, backlogTimer, writeTimer, it, spent, sent,
                      failed, lowered, bandwidthLimit>>
      BY <1>11 DEF wvars
    <2>2. WTypeOK' /\ CountedWithin'
      BY <1>11 DEF wvars, WebInv, WTypeOK, CountedWithin
    <2> QED
      BY <2>1, <2>2, ServersKept DEF WebInv, HeldInv
  <1> QED
    BY <1>1, <1>2, <1>3, <1>4, <1>5, <1>6, <1>7, <1>8, <1>9, <1>10, <1>11 DEF WNext, User

LEMMA WebInvHolds == WSpec => []WebInv
  BY WebInit, WebNext, PTL DEF WSpec

(* The types, for every connection: no count of bytes left ever falls below *)
(* zero, though write subtracts from them what it finds there is.          *)
THEOREM WebTypes == WSpec => []WTypeOK
  <1>1. WebInv => WTypeOK
    BY DEF WebInv
  <1> QED
    BY <1>1, WebInvHolds, PTL

(* Nothing waits without a timer: whatever clients send, and whatever the   *)
(* user does, a line to read, a connection in the backlog and a response   *)
(* with something to write each have a timer that comes back to them.      *)
THEOREM TimersAlwaysRun == WSpec => []TimersRun
  <1>1. WebInv => TimersRun
    BY DEF WebInv
  <1> QED
    BY <1>1, WebInvHolds, PTL

(* What all sockets together get is no more than the limit in a tenth of a *)
(* second, in every tenth in which no write fails behind a header and the   *)
(* user does not lower the limit below what has been counted.              *)
THEOREM BandwidthIsKept == WSpec => []WithinBandwidth
  <1>1. WebInv => WithinBandwidth
    BY DEF WebInv, CountedWithin, WithinBandwidth
  <1> QED
    BY <1>1, WebInvHolds, PTL

(* Only the response for an empty resource is left to the timer of a        *)
(* minute: any other that has nothing to write is over.                    *)
THEOREM OnlyEmptyResponsesStall == WSpec => []OnlyEmptyStalls
  <1>1. ASSUME WebInv PROVE OnlyEmptyStalls
    <2> SUFFICES ASSUME NEW c \in Elements(serverList), server[c].state = "responding",
                        bytesLeft(server[c]) = 0
                 PROVE  server[c].req.size = 0
      BY DEF OnlyEmptyStalls
    <2>1. c \in Conns
      BY <1>1 DEF Elements, WebInv, WTypeOK
    <2>2. Sane(server[c]) /\ server[c].head \in Nat /\ server[c].file \in Nat
      BY <1>1, <2>1 DEF WebInv, WTypeOK, Servers
    <2>3. server[c].head = 0 /\ server[c].file = 0
      BY <2>2 DEF bytesLeft
    <2> QED
      BY <2>2, <2>3 DEF Sane
  <1> QED
    BY <1>1, WebInvHolds, PTL

(* Nobody in the backlog is overtaken: a connection that gets a Server is   *)
(* the first of those that wait and get none, however many can be handled   *)
(* and whatever the limit was when they came.                              *)
THEOREM FirstComeFirstServed == WSpec => ServedInOrder
  <1> DEFINE Order == \A c \in Conns : In(c, serverList') /\ ~In(c, serverList) =>
                        \A i \in 1 .. Len(backlog) :
                           ~In(backlog[i], serverList') => \E j \in 1 .. i - 1 : backlog[j] = c
  <1>1. ASSUME WebInv, [WNext]_wvars PROVE [Order]_wvars
    <2> SUFFICES ASSUME WNext PROVE Order
      BY <1>1
    <2>1. serverList \in Seq(Conns) /\ backlog \in Seq(Conns) /\ WTypeOK
      BY <1>1 DEF WebInv, WTypeOK
    <2>2. CASE \A c \in Conns : In(c, serverList') => In(c, serverList)
      BY <2>2
    <2>3. CASE \E c \in Conns : slotConnection(c)
      <3>1. backlog = <<>> \/ UNCHANGED serverList
        BY <2>3 DEF slotConnection
      <3>2. Len(<<>>) = 0
        OBVIOUS
      <3>3. CASE backlog = <<>>
        BY <3>2, <3>3
      <3> QED
        BY <2>2, <3>1, <3>3
    <2>4. CASE slotClearBacklog
      <3> DEFINE n == IF Handles THEN Least(Len(backlog), connectionLimit - Len(serverList)) ELSE 0
                 u == SubSeq(backlog, 1, n)
      <3>1. n \in 0 .. Len(backlog) /\ Len(backlog) \in Nat /\ Len(serverList) \in Nat
        BY <2>1, HandledAreFirst, LenProperties
      <3>2. serverList' = serverList \o u
        BY <2>4 DEF slotClearBacklog
      <3> HIDE DEF n
      <3>3. u \in Seq(Conns) /\ Len(u) = n /\ \A i \in 1 .. n : u[i] = backlog[i]
        BY <2>1, <3>1, FirstOf
      <3> HIDE DEF u
      <3>4. /\ Len(serverList') = Len(serverList) + n
            /\ \A i \in 1 .. Len(serverList) + n :
                  serverList'[i] = IF i <= Len(serverList) THEN serverList[i]
                                   ELSE u[i - Len(serverList)]
        BY <2>1, <3>2, <3>3, ConcatProperties
      <3>5. ASSUME NEW i \in 1 .. n PROVE In(backlog[i], serverList')
        <4>1. /\ Len(serverList) + i \in 1 .. Len(serverList')
              /\ Len(serverList) + i \in 1 .. Len(serverList) + n
              /\ ~(Len(serverList) + i <= Len(serverList))
              /\ (Len(serverList) + i) - Len(serverList) = i
          BY <3>1, <3>4
        <4>2. serverList'[Len(serverList) + i] = backlog[i]
          BY <3>3, <3>4, <4>1
        <4> QED
          BY <4>1, <4>2, InList
      <3>6. ASSUME NEW c \in Conns, In(c, serverList'), ~In(c, serverList)
            PROVE  \E j \in 1 .. n : backlog[j] = c
        <4>1. PICK k \in 1 .. Len(serverList') : serverList'[k] = c
          BY <3>6, InList
        <4>2. ~(k <= Len(serverList))
          BY <3>1, <3>4, <3>6, <4>1, InList
        <4>3. k - Len(serverList) \in 1 .. n /\ u[k - Len(serverList)] = c
          BY <3>1, <3>4, <4>1, <4>2
        <4> QED
          BY <3>3, <4>3
      <3>7. ASSUME NEW c \in Conns, In(c, serverList'), ~In(c, serverList),
                   NEW i \in 1 .. Len(backlog), ~In(backlog[i], serverList')
            PROVE  \E j \in 1 .. i - 1 : backlog[j] = c
        <4>1. PICK j \in 1 .. n : backlog[j] = c
          BY <3>6, <3>7
        <4>2. ~(i <= n)
          BY <3>1, <3>5, <3>7
        <4>3. j \in 1 .. i - 1
          BY <3>1, <4>2
        <4> QED
          BY <4>1, <4>3
      <3> QED
        BY <3>7
    <2>5. CASE restart
      <3> DEFINE left == [i \in 1 .. Len(serverList) \div 2 |-> serverList[2 * i]]
      <3>1. Len(serverList) \in Nat /\ serverList' = left
        BY <2>1, <2>5, LenProperties DEF restart
      <3>2. /\ Len(serverList) \div 2 \in Nat
            /\ \A i \in 1 .. Len(serverList) \div 2 : 2 * i \in 1 .. Len(serverList)
        BY <3>1
      <3>3. \A i \in 1 .. Len(serverList) \div 2 : serverList[2 * i] \in Conns
        BY <2>1, <3>2
      <3>4. Len(left) = Len(serverList) \div 2
        BY <3>2, <3>3
      <3>5. ASSUME NEW c, In(c, left) PROVE In(c, serverList)
        <4>1. PICK i \in 1 .. Len(left) : left[i] = c
          BY <3>5, InList
        <4>2. serverList[2 * i] = c /\ 2 * i \in 1 .. Len(serverList)
          BY <3>2, <3>4, <4>1
        <4> QED
          BY <4>2, InList
      <3> QED
        BY <2>2, <3>1, <3>5
    <2>6. ASSUME NEW c \in Conns, slotFinished(c), In(c, serverList) PROVE Order
      BY <2>1, <2>2, <2>6, WithoutOne DEF slotFinished
    <2>7. ASSUME NEW c \in Conns,
                 \/ (\E lines \in Arrivals(c) : slotReadyRead(c, lines)) \/ slotConnectionClosed(c)
                 \/ (\E room \in Rooms : Write(c, room)) \/ WriteFails(c)
          PROVE  Order
      <3>1. UNCHANGED serverList \/ slotFinished(c)
        BY <2>7 DEF slotReadyRead, slotConnectionClosed, Write, WriteFails
      <3>2. In(c, serverList)
        <4>1. CASE it # 0 /\ c = serverList[it]
          <5>1. it \in 1 .. Len(serverList)
            BY <1>1, <2>1, <4>1, LenProperties DEF WebInv, HeldInv, WTypeOK
          <5> QED
            BY <4>1, <5>1, InList
        <4> QED
          BY <2>7, <4>1 DEF slotReadyRead, slotConnectionClosed, Write, WriteFails
      <3> QED
        BY <2>2, <2>6, <3>1, <3>2
    <2>8. CASE UNCHANGED serverList
      BY <2>2, <2>8
    <2>9. CASE \/ \E c \in Conns : GivesUp(c) \/ slotRead(c)
               \/ slotBind \/ slotWrite \/ Pass \/ Spent \/ slotCheckOutput
               \/ \E l \in Bandwidths : setBandwidthLimit(l)
               \/ \E i \in ConnectionLimits : setConnectionLimit(i)
               \/ \E b \in BOOLEAN : pause(b)
      BY <2>8, <2>9 DEF GivesUp, slotRead, slotBind, slotWrite, Pass, Spent, slotCheckOutput,
                        setBandwidthLimit, setConnectionLimit, pause
    <2> QED
      BY <2>3, <2>4, <2>5, <2>7, <2>9 DEF WNext, User
  <1> QED
    BY <1>1, WebInvHolds, PTL DEF WSpec, ServedInOrder
=============================================================================
