-------------------------------- MODULE LISa --------------------------------
(***************************************************************************)
(* The LAN information servers of a network (lanbrowsing/lisa): on every   *)
(* host a NetManager serves the list of the hosts that are up, and at      *)
(* times has a child process find them anew.  The servers cooperate: the   *)
(* child broadcasts a request first, and if a server answers takes the     *)
(* list from it; otherwise it pings the network, and its server becomes    *)
(* the "server server", which answers broadcasts.                          *)
(*                                                                         *)
(* A list is what a scan has found ("found"), was cleared ("empty"), or    *)
(* hostList is still a null pointer ("null").                              *)
(***************************************************************************)
EXTENDS FiniteSets, Naturals

CONSTANTS
    Hosts,
    Users,       \* hosts with clients of their own
    NoHost       \* not a host

ASSUME LisaAssumption == NoHost \notin Hosts /\ Users \subseteq Hosts

VARIABLES
    up,          \* the server runs
    scanning,    \* m_isBeingScanned
    informed,    \* m_isInformed
    list,        \* hostList
    bc,          \* m_bcFD # -1: the server server
    due,         \* m_refreshTime has passed since m_lastUpdate
    child,       \* what the child process does, and the list it has
    pipe,        \* what the child has left in the pipe
    user,        \* a client of the host itself
    peers,       \* hosts whose children wait for the list
    asked        \* hosts whose broadcasts wait to be read

vars == <<up, scanning, informed, list, bc, due, child, pipe, user, peers, asked>>

Lists == {"null", "empty", "found"}
NoChild == [pc |-> "none", from |-> NoHost, list |-> "null"]

(* What comes through a pipe: a list and whether it was found by a scan of *)
(* the child's own; a part of it; or nothing but its end.                  *)
Results == [whole : {TRUE}, list : {"empty", "found"}, server : BOOLEAN]
Partial == [whole |-> FALSE, list |-> "empty", server |-> FALSE]
NoData == [whole |-> FALSE, list |-> "null", server |-> FALSE]
NoPipe == [whole |-> TRUE, list |-> "null", server |-> FALSE]

TypeOK ==
    /\ {up, scanning, informed, bc, due} \subseteq [Hosts -> BOOLEAN]
    /\ list \in [Hosts -> Lists]
    /\ child \in [Hosts -> [pc : {"none", "find", "ask", "scan", "get", "read", "write"},
                            from : Hosts \cup {NoHost}, list : Lists]]
    /\ pipe \in [Hosts -> Results \cup {Partial, NoData, NoPipe}]
    /\ user \in [Hosts -> {"none", "connects", "waits"}]
    /\ {peers, asked} \subseteq [Hosts -> SUBSET Hosts]

Init ==
    /\ up = [h \in Hosts |-> TRUE]
    /\ scanning = [h \in Hosts |-> FALSE]
    /\ informed = [h \in Hosts |-> FALSE]
    /\ list = [h \in Hosts |-> "null"]
    /\ bc = [h \in Hosts |-> FALSE]
    /\ due = [h \in Hosts |-> TRUE]
    /\ child = [h \in Hosts |-> NoChild]
    /\ pipe = [h \in Hosts |-> NoPipe]
    /\ user = [h \in Hosts |-> "none"]
    /\ peers = [h \in Hosts |-> {}]
    /\ asked = [h \in Hosts |-> {}]

-----------------------------------------------------------------------------
(***************************************************************************)
(* The server: NetManager::run                                             *)
(***************************************************************************)

(* Nothing happens on a descriptor.                                        *)
Quiet(h) ==
    /\ user[h] # "connects"
    /\ peers[h] = {} \/ ~informed[h]
    /\ asked[h] = {}
    /\ pipe[h] = NoPipe

(* What children read when h serves those who wait: they become writers.   *)
Served(h, l) ==
    child' = [g \in Hosts |->
                 IF g \in peers[h] /\ child[g].pc = "read" /\ child[g].from = h
                 THEN [child[g] EXCEPT !.pc = "write", !.list = l]
                 ELSE child[g]]

(* A bug: the hosts are served, the clients of the host itself wait.       *)
serveHosts(h, known, l) ==
    /\ peers' = IF known THEN [peers EXCEPT ![h] = {}] ELSE peers
    /\ user' = user
    /\ IF known THEN Served(h, l) ELSE UNCHANGED child

(* serveAndClean: clients are served if there is a list to serve; those    *)
(* that have waited for half a minute are closed anyway.                   *)
serveAndClean(h, known, l) ==
    IF known
    THEN /\ user' = [user EXCEPT ![h] = "none"]
         /\ peers' = [peers EXCEPT ![h] = {}]
         /\ Served(h, l)
    ELSE UNCHANGED <<user, peers, child>>

(* scan, after a time-out: a child is forked, with a copy of the list.     *)
scan(h) ==
    /\ up[h] /\ Quiet(h)
    /\ ~scanning[h] /\ due[h]
    /\ scanning' = [scanning EXCEPT ![h] = TRUE]
    /\ child' = [child EXCEPT ![h] = [pc |-> "find", from |-> NoHost, list |-> list[h]]]
    /\ UNCHANGED <<up, informed, list, bc, due, pipe, user, peers, asked>>

(* fork fails: the flag stays.                                             *)
ForkFails(h) ==
    /\ up[h] /\ Quiet(h)
    /\ ~scanning[h] /\ due[h]
    /\ scanning' = [scanning EXCEPT ![h] = TRUE]
    /\ UNCHANGED <<up, informed, list, bc, due, child, pipe, user, peers, asked>>

(* A client is accepted; and all who wait are served, if they can be.      *)
Accept(h) ==
    /\ up[h] /\ user[h] = "connects"
    /\ IF informed[h] THEN serveAndClean(h, TRUE, list[h])
       ELSE user' = [user EXCEPT ![h] = "waits"] /\ UNCHANGED <<peers, child>>
    /\ UNCHANGED <<up, scanning, informed, list, bc, due, pipe, asked>>

AcceptPeers(h) ==
    /\ up[h] /\ peers[h] # {} /\ informed[h]
    /\ serveAndClean(h, TRUE, list[h])
    /\ UNCHANGED <<up, scanning, informed, list, bc, due, pipe, asked>>

(* A client leaves, or is older than half a minute: it is closed.          *)
RemoveUser(h) ==
    /\ up[h] /\ user[h] = "waits"
    /\ user' = [user EXCEPT ![h] = "none"]
    /\ UNCHANGED <<up, scanning, informed, list, bc, due, child, pipe, peers, asked>>

RemovePeer(h, g) ==
    /\ up[h] /\ g \in peers[h] /\ ~informed[h]
    /\ peers' = [peers EXCEPT ![h] = @ \ {g}]
    /\ child' = [child EXCEPT ![g].pc = "write"]
    /\ UNCHANGED <<up, scanning, informed, list, bc, due, pipe, user, asked>>

(* answerBroadcast: the answer may be lost, or too late.                   *)
answerBroadcast(h, g) ==
    /\ up[h] /\ g \in asked[h]
    /\ asked' = [asked EXCEPT ![h] = @ \ {g}]
    /\ \/ UNCHANGED child
       \/ /\ bc[h] /\ child[g].pc = "ask"
          /\ child' = [child EXCEPT ![g].pc = "get", ![g].from = h]
    /\ UNCHANGED <<up, scanning, informed, list, bc, due, pipe, user, peers>>

(* The server exits: by a signal, SIGPIPE of a client that has left, or a  *)
(* null pointer.  Its child does not survive the pipe; the children it     *)
(* served read the end of the connection.                                  *)
Exit(h) ==
    /\ up' = [up EXCEPT ![h] = FALSE]
    /\ bc' = [bc EXCEPT ![h] = FALSE]
    /\ scanning' = [scanning EXCEPT ![h] = FALSE]
    /\ informed' = [informed EXCEPT ![h] = FALSE]
    /\ list' = [list EXCEPT ![h] = "null"]
    /\ pipe' = [pipe EXCEPT ![h] = NoPipe]
    /\ user' = [user EXCEPT ![h] = "none"]
    /\ asked' = [g \in Hosts |-> IF g = h THEN {} ELSE asked[g]]
    /\ peers' = [g \in Hosts |-> IF g = h THEN {} ELSE peers[g] \ {h}]
    /\ child' = [g \in Hosts |->
                    IF g = h THEN NoChild
                    ELSE IF g \in peers[h] THEN [child[g] EXCEPT !.pc = "write"]
                    ELSE child[g]]
    /\ due' = [due EXCEPT ![h] = TRUE]

(* processScanResults, when the pipe has come to its end.                  *)
(* A bug: the list of a child that did not end well is kept, as if nothing  *)
(* was known.                                                              *)
processScanResultsOfWhole(h) ==
    /\ up[h] /\ pipe[h] # NoPipe /\ pipe[h].whole
    /\ pipe' = [pipe EXCEPT ![h] = NoPipe]
    /\ list' = [list EXCEPT ![h] = pipe[h].list]
    /\ informed' = [informed EXCEPT ![h] = TRUE]
    /\ scanning' = [scanning EXCEPT ![h] = FALSE]
    /\ due' = [due EXCEPT ![h] = FALSE]
    /\ bc' \in {[bc EXCEPT ![h] = b] : b \in {FALSE, pipe[h].server}}
    /\ serveAndClean(h, TRUE, pipe[h].list)
    /\ UNCHANGED <<up, asked>>

processScanResults(h) ==
    /\ up[h] /\ pipe[h] # NoPipe
    /\ CASE pipe[h] = NoData ->
              /\ pipe' = [pipe EXCEPT ![h] = NoPipe]
              /\ serveAndClean(h, informed[h], list[h])
              /\ UNCHANGED <<up, scanning, informed, list, bc, due, asked>>
         [] pipe[h] = Partial /\ list[h] = "null" -> Exit(h)
         [] OTHER ->
              /\ pipe' = [pipe EXCEPT ![h] = NoPipe]
              /\ list' = [list EXCEPT ![h] = pipe[h].list]
              /\ informed' = [informed EXCEPT ![h] = TRUE]
              /\ scanning' = [scanning EXCEPT ![h] = FALSE]
              /\ due' = [due EXCEPT ![h] = FALSE]
              /\ IF pipe[h] = Partial THEN UNCHANGED bc
                 ELSE bc' \in {[bc EXCEPT ![h] = b] :
                                  b \in IF bc[h] THEN {pipe[h].server}
                                        ELSE {FALSE, pipe[h].server}}
              /\ serveAndClean(h, TRUE, pipe[h].list)
              /\ UNCHANGED <<up, asked>>

(* A bug: so that the update is not put off, the scan that goes on is       *)
(* forgotten.                                                              *)
readConfigAfresh(h) ==
    /\ up[h]
    /\ due' = [due EXCEPT ![h] = TRUE]
    /\ scanning' = [scanning EXCEPT ![h] = FALSE]
    /\ UNCHANGED <<up, informed, list, bc, child, pipe, user, peers, asked>>

(* SIGHUP: readConfig, "after reading the new configuration we should      *)
(* really update".                                                         *)
readConfig(h) ==
    /\ up[h]
    /\ due' = [due EXCEPT ![h] = TRUE]
    /\ UNCHANGED <<up, scanning, informed, list, bc, child, pipe, user, peers, asked>>

-----------------------------------------------------------------------------
(***************************************************************************)
(* The child                                                               *)
(***************************************************************************)

ChildUnchanged == UNCHANGED <<up, scanning, informed, list, bc, due, user>>

(* findServerServer: the broadcast reaches some of those who listen.       *)
findServerServer(h) ==
    /\ child[h].pc = "find"
    /\ \E reached \in SUBSET {g \in Hosts \ {h} : up[g] /\ bc[g]} :
          asked' = [g \in Hosts |-> IF g \in reached THEN asked[g] \cup {h} ELSE asked[g]]
    /\ child' = [child EXCEPT ![h].pc = "ask"]
    /\ UNCHANGED <<pipe, peers>> /\ ChildUnchanged

(* Nobody has answered within a quarter of a second.                       *)
NobodyAnswers(h) ==
    /\ child[h].pc = "ask"
    /\ child' = [child EXCEPT ![h].pc = "scan"]
    /\ UNCHANGED <<pipe, peers, asked>> /\ ChildUnchanged

doScan(h) ==
    /\ child[h].pc = "scan"
    /\ child' = [child EXCEPT ![h].pc = "write", ![h].list = "found"]
    /\ UNCHANGED <<pipe, peers, asked>> /\ ChildUnchanged

(* getListFromServerServer: the connection may fail, and what is read end   *)
(* early, which clears the list.  Without a list to clear or to write the  *)
(* child follows a null pointer.                                           *)
getListFromServerServer(h) ==
    /\ child[h].pc = "get"
    /\ LET g == child[h].from IN
       \/ /\ up[g]
          /\ child' = [child EXCEPT ![h].pc = "read"]
          /\ peers' = [peers EXCEPT ![g] = @ \cup {h}]
       \/ /\ child' = [child EXCEPT ![h].pc = "write"]
          /\ UNCHANGED peers
    /\ UNCHANGED <<pipe, asked>> /\ ChildUnchanged

ReadFails(h) ==
    /\ child[h].pc = "read"
    /\ child' = [child EXCEPT ![h].pc = "write",
                              ![h].list = IF @ = "null" THEN "null" ELSE "empty"]
    /\ peers' = [peers EXCEPT ![child[h].from] = @ \ {h}]
    /\ UNCHANGED <<pipe, asked>> /\ ChildUnchanged

(* writeDataToFD, exit.                                                    *)
(* A bug: a child that was given the list passes for one that has scanned. *)
writeAlways(h) ==
    /\ child[h].pc = "write"
    /\ child' = [child EXCEPT ![h] = NoChild]
    /\ pipe' = [pipe EXCEPT ![h] =
                   IF child[h].list = "null" THEN NoData
                   ELSE [whole |-> TRUE, list |-> child[h].list, server |-> TRUE]]
    /\ UNCHANGED <<peers, asked>> /\ ChildUnchanged

writeDataToFD(h) ==
    /\ child[h].pc = "write"
    /\ child' = [child EXCEPT ![h] = NoChild]
    /\ pipe' = [pipe EXCEPT ![h] =
                   IF child[h].list = "null" THEN NoData
                   ELSE [whole |-> TRUE, list |-> child[h].list,
                         server |-> child[h].from = NoHost]]
    /\ UNCHANGED <<peers, asked>> /\ ChildUnchanged

(* The child dies at any time, before it writes or while it does.          *)
ChildDies(h) ==
    /\ child[h].pc # "none"
    /\ child' = [child EXCEPT ![h] = NoChild]
    /\ pipe' \in {[pipe EXCEPT ![h] = r] :
                     r \in IF child[h].pc = "write" /\ child[h].list # "null"
                           THEN {NoData, Partial} ELSE {NoData}}
    /\ peers' = [g \in Hosts |-> peers[g] \ {h}]
    /\ UNCHANGED asked /\ ChildUnchanged

-----------------------------------------------------------------------------
(***************************************************************************)
(* The world                                                               *)
(***************************************************************************)

Elapse(h) ==
    /\ up[h] /\ ~due[h]
    /\ due' = [due EXCEPT ![h] = TRUE]
    /\ UNCHANGED <<up, scanning, informed, list, bc, child, pipe, user, peers, asked>>

Connect(h) ==
    /\ h \in Users /\ up[h] /\ user[h] = "none"
    /\ user' = [user EXCEPT ![h] = "connects"]
    /\ UNCHANGED <<up, scanning, informed, list, bc, due, child, pipe, peers, asked>>

Stop(h) == up[h] /\ Exit(h)

Start(h) ==
    /\ ~up[h]
    /\ up' = [up EXCEPT ![h] = TRUE]
    /\ UNCHANGED <<scanning, informed, list, bc, due, child, pipe, user, peers, asked>>

ServerStep(h) ==
    \/ Accept(h) \/ AcceptPeers(h) \/ processScanResults(h)
    \/ \E g \in Hosts : answerBroadcast(h, g)

ChildStep(h) ==
    \/ findServerServer(h) \/ NobodyAnswers(h) \/ doScan(h)
    \/ getListFromServerServer(h) \/ writeDataToFD(h)

Next ==
    \E h \in Hosts :
       \/ scan(h) \/ ForkFails(h) \/ ServerStep(h)
       \/ RemoveUser(h) \/ (\E g \in Hosts : RemovePeer(h, g))
       \/ readConfig(h)
       \/ ChildStep(h) \/ ReadFails(h) \/ ChildDies(h)
       \/ Elapse(h) \/ Connect(h) \/ Stop(h) \/ Start(h)

Spec == Init /\ [][Next]_vars

(* The processes run and time passes; a server looks at every descriptor   *)
(* each time select returns, and closes who has waited too long.  There    *)
(* are ten quiet seconds again and again: a host asks again only after     *)
(* half a minute.  Users need not leave such a time.                       *)
FairSpec ==
    /\ Spec
    /\ \A h \in Hosts :
          /\ SF_vars(scan(h) /\ user[h] = "none")
          /\ WF_vars(processScanResults(h))
          /\ WF_vars(AcceptPeers(h))
          /\ \A g \in Hosts : WF_vars(answerBroadcast(h, g))
          /\ WF_vars(\E g \in Hosts : RemovePeer(h, g))
          /\ WF_vars(ChildStep(h))
          /\ WF_vars(Elapse(h))

-----------------------------------------------------------------------------
(***************************************************************************)
(* Properties                                                              *)
(***************************************************************************)

(* The flag outlives the child: it left nothing, or there was none.        *)
Stuck(h) == scanning[h] /\ child[h].pc = "none" /\ pipe[h] = NoPipe

(* At most one child, and never one that nobody waits for.                 *)
OneChild == \A h \in Hosts :
    /\ child[h].pc # "none" => scanning[h] /\ pipe[h] = NoPipe
    /\ pipe[h] # NoPipe => scanning[h]

(* Whoever answers broadcasts has a list to serve, so that a child that    *)
(* finds a server server is served without delay.                          *)
ServerIsInformed == \A h \in Hosts : bc[h] => up[h] /\ informed[h] /\ list[h] # "null"

(* Nobody is left waiting once there is a list: the list of a scan is      *)
(* served to all who wait in the step that takes it from the pipe.         *)
NobodyWaitsInVain == \A h \in Hosts : user[h] = "waits" => up[h] /\ ~informed[h]

EverybodyIsServed == ServerIsInformed /\ NobodyWaitsInVain

(* A scan ends, and the next can begin.                                    *)
ScanEnds == \A h \in Hosts : scanning[h] ~> (~scanning[h] \/ Stuck(h))

(* The servers do not rely on one another forever: as long as one runs and  *)
(* is not stuck, users leave it a quiet time and children do not die while  *)
(* they write, some host pings the network again and again.                *)
SomebodyScans ==
    (<>[](\A h \in Hosts : user[h] = "none" /\ pipe[h] # Partial))
        => []<>((\E h \in Hosts : child[h].pc = "scan" \/ ~up[h] \/ Stuck(h)))
=============================================================================
