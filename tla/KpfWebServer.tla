---------------------------- MODULE KpfWebServer ----------------------------
(***************************************************************************)
(* kpf, the web server in the panel: a WebServer listens, holds a Server   *)
(* for every connection up to a limit and the others in a backlog, and     *)
(* ten times a second lets each Server write a share of the bandwidth.     *)
(* A Server reads requests and prepares one response after the other.      *)
(*                                                                         *)
(* Everything runs in the one event loop.  Only slotWrite takes several    *)
(* steps here, one for each pass of its loop; nothing runs in between.     *)
(***************************************************************************)
EXTENDS Integers, Sequences

CONSTANTS
    Conns,       \* descriptors of connections
    Requests,    \* what a request line and its headers ask for
    Asks,        \* the requests that come on a connection
    End,         \* the line that ends the headers
    NoRequest,
    HeaderBytes,        \* size of the header of a response
    Bandwidths,         \* what bandwidthLimit comes to in a tenth of a second
    ConnectionLimits,
    MaxBacklog,
    MaxKeepAlive,
    IncomingDataLimit,  \* in lines
    Width,              \* ulong counts modulo Width
    MaxSpent            \* bound: so much that slotCheckOutput comes before slotWrite

(* What a request leads to: refused at once, refused after the headers, a   *)
(* resource that has not changed, or the resource: size bytes are promised *)
(* and the file has avail.                                                 *)
Methods == {"GET", "HEAD"}
Outcomes == {"bad", "error", "same", "ok"}

ASSUME KpfAssumption ==
    /\ Requests \subseteq [v : {9, 10, 11}, method : Methods, outcome : Outcomes,
                           size : Nat, avail : Nat, persist : BOOLEAN]
    /\ \A r \in Requests : /\ r.persist => r.v = 11
                           /\ r.avail <= r.size
                           /\ r.outcome = "same" => r.v # 9
    /\ Asks \in [Conns -> SUBSET Requests]
    /\ End \notin Requests /\ NoRequest \notin Requests
    /\ HeaderBytes \in Nat \ {0} /\ Width \in Nat /\ MaxSpent \in Nat
    /\ Bandwidths \subseteq 0 .. Width - 1
    /\ ConnectionLimits \subseteq Nat
    /\ {MaxBacklog, MaxKeepAlive, IncomingDataLimit} \subseteq Nat

VARIABLES
    listening,   \* WebServer::socket # 0
    bindTimer,
    paused,
    connectionLimit,
    bandwidthLimit,
    backlog,
    backlogTimer,
    serverList,  \* the connections that have a Server
    ignored,     \* connections nobody has: "Backlog full"
    server,      \* the Server of a connection
    writeTimer,
    it,          \* where slotWrite's iterator stands, 0 outside of slotWrite
    spent,       \* totalOutput - lastTotalOutput
    sent,        \* history: what the sockets have got since lastTotalOutput
    failed,      \* history: a write that failed has sent a header since then
    lowered      \* history: the limit was set below what was spent already

wvars == <<listening, bindTimer, paused, connectionLimit, bandwidthLimit, backlog, backlogTimer,
          serverList, ignored, server, writeTimer, it, spent, sent, failed, lowered>>
settings == <<paused, connectionLimit, bandwidthLimit>>
binding == <<listening, bindTimer>>
waiting == <<backlog, backlogTimer, ignored>>
output == <<spent, sent, failed, lowered>>

Servers == [state : {"request", "headers", "responding"},
            lines : Seq(Requests \cup {End}), timer : BOOLEAN, req : Requests \cup {NoRequest},
            code : {"none", "error", "same", "ok"},
            head : Nat, file : Nat, avail : Nat, count : Nat, read : Nat]

NewServer == [state |-> "request", lines |-> <<>>, timer |-> FALSE, req |-> NoRequest,
              code |-> "none", head |-> 0, file |-> 0, avail |-> 0, count |-> 0, read |-> 0]

Elements(s) == {s[i] : i \in 1 .. Len(s)}
In(c, s) == c \in Elements(s)

(* A list without one of its members. *)
Without(s, c) ==
    LET i == CHOOSE n \in 1 .. Len(s) : s[n] = c
    IN SubSeq(s, 1, i - 1) \o SubSeq(s, i + 1, Len(s))

Least(a, b) == IF a < b THEN a ELSE b

(* Room in a socket's buffer: none, or enough.                             *)
Rooms == {0, Width}

WTypeOK ==
    /\ {listening, bindTimer, paused, backlogTimer, writeTimer, failed, lowered} \subseteq BOOLEAN
    /\ connectionLimit \in ConnectionLimits /\ bandwidthLimit \in Bandwidths
    /\ backlog \in Seq(Conns) /\ serverList \in Seq(Conns) /\ ignored \subseteq Conns
    /\ server \in [Conns -> Servers]
    /\ it \in Nat /\ spent \in Nat /\ sent \in Nat

WInit ==
    /\ listening = FALSE /\ bindTimer = TRUE /\ paused = FALSE
    /\ connectionLimit \in ConnectionLimits /\ bandwidthLimit \in Bandwidths
    /\ backlog = <<>> /\ backlogTimer = FALSE
    /\ serverList = <<>> /\ ignored = {} /\ server = [c \in Conns |-> NewServer]
    /\ writeTimer = FALSE /\ it = 0
    /\ spent = 0 /\ sent = 0 /\ failed = FALSE /\ lowered = FALSE

-----------------------------------------------------------------------------
(***************************************************************************)
(* Server: from lines to a response                                        *)
(***************************************************************************)

respond(s, code, bytes) ==
    [s EXCEPT !.state = "responding", !.code = code, !.head = @ + bytes]

(* Of a resource that has changed size bytes will be sent; the others leave *)
(* fileBytesLeft as it was.                                                *)
prepareResponse(s) ==
    CASE s.req.outcome = "ok" ->
           respond([s EXCEPT !.file = s.req.size, !.avail = s.req.avail],
                   "ok", IF s.req.v = 9 THEN 0 ELSE HeaderBytes)
      [] s.req.outcome = "same" -> respond(s, "same", HeaderBytes)
      [] OTHER -> respond(s, "error", HeaderBytes)

(* readRequest, checkRequest: an empty line is an unsupported method.  The  *)
(* headers are read when the timer next fires.                             *)
readRequest(s) ==
    LET r == Head(s.lines)
        t == [s EXCEPT !.count = @ + 1, !.lines = Tail(@)]
    IN CASE r = End -> respond([t EXCEPT !.req = NoRequest], "error", HeaderBytes)
         [] r # End /\ r.outcome = "bad" -> respond([t EXCEPT !.req = r], "error", HeaderBytes)
         [] r # End /\ r.outcome # "bad" /\ r.v = 9 -> prepareResponse([t EXCEPT !.req = r])
         [] OTHER -> [t EXCEPT !.req = r, !.state = "headers", !.timer = TRUE]

readHeaders(s) ==
    IF In(End, s.lines)
    THEN LET i == CHOOSE n \in 1 .. Len(s.lines) :
                     s.lines[n] = End /\ \A m \in 1 .. n - 1 : s.lines[m] # End
         IN prepareResponse([s EXCEPT !.lines = SubSeq(@, i + 1, Len(@))])
    ELSE [s EXCEPT !.lines = <<>>]

(* slotRead: one request line, or what there is of the headers; a response  *)
(* is finished first.                                                      *)
read(s) ==
    CASE s.lines # <<>> /\ s.state = "request" -> readRequest(s)
      [] s.lines # <<>> /\ s.state = "headers" -> readHeaders(s)
      [] OTHER -> s

(* reset: another request.  The counts of bytes left are not among what is  *)
(* cleared.                                                                *)
reset(s) ==
    [s EXCEPT !.state = "request", !.req = NoRequest, !.code = "none", !.avail = 0, !.timer = TRUE]

bytesLeft(s) == s.head + s.file

(* write: at most max bytes, and no more than the socket has room for.  The *)
(* result is the Server, how much it says it has written, how much the     *)
(* socket got, whether the write failed after a header, and whether the     *)
(* Server has finished: the header is sent, and if there is more to send    *)
(* and any of max left, the file.  A file that is at its end before it has  *)
(* been read, because it is empty or has been cut, makes it say that it has *)
(* written nothing, whatever the header took.                              *)
finish(s, n) == [s |-> s, n |-> n, sent |-> n, failed |-> FALSE, over |-> TRUE]
continue(s, n) == [s |-> s, n |-> n, sent |-> n, failed |-> FALSE, over |-> FALSE]
atEnd(s, header) == [s |-> s, n |-> 0, sent |-> header, failed |-> header # 0, over |-> TRUE]

(* A bug: the file is closed only when more of it is asked for.            *)
writeFileOnly(s, max, room, n) ==
    LET m == Least(Least(s.file, max), Least(room, s.avail))
        t == [s EXCEPT !.file = @ - m, !.avail = @ - m]
    IN IF s.avail = 0 THEN atEnd(s, n) ELSE continue(t, n + m)

writeFile(s, max, room, n) ==
    LET m == Least(Least(s.file, max), Least(room, s.avail))
        t == [s EXCEPT !.file = @ - m, !.avail = @ - m]
    IN CASE s.avail = 0 -> atEnd(s, n)
         [] s.avail # 0 /\ t.file # 0 -> continue(t, n + m)
         [] OTHER -> IF t.count < MaxKeepAlive /\ t.req.persist
                     THEN continue(reset(t), n + m)
                     ELSE finish(t, n + m)

write(s, max, room) ==
    LET n == Least(Least(s.head, max), room)
        t == [s EXCEPT !.head = @ - n]
    IN CASE s.state # "responding" -> finish(s, 0)
         [] s.state = "responding" /\ s.code # "ok" ->
              IF s.code = "same" /\ s.req.persist THEN continue(reset(t), n) ELSE finish(t, n)
         [] s.state = "responding" /\ s.code = "ok" /\ s.req.method = "HEAD" ->
              IF s.req.persist THEN continue(reset(t), n) ELSE finish(t, n)
         [] OTHER -> IF max = n THEN continue(t, n) ELSE writeFile(t, max - n, room - n, n)

(* The header that was written before the socket failed under the file.    *)
headerBefore(s, max, room) ==
    IF s.state = "responding" /\ s.code = "ok" /\ s.req.method # "HEAD"
       /\ s.head < Least(max, room) /\ s.file # 0 /\ s.avail # 0
    THEN s.head ELSE 0

-----------------------------------------------------------------------------
(***************************************************************************)
(* Server: slots                                                           *)
(***************************************************************************)

(* slotFinished: the Server is taken from the list and deleted.            *)
slotFinished(c) ==
    /\ serverList' = Without(serverList, c)
    /\ server' = [server EXCEPT ![c] = NewServer]

(* slotReadyRead: lines have arrived; too many of them end the connection.  *)
slotReadyRead(c, lines) ==
    /\ it = 0 /\ In(c, serverList)
    /\ IF server[c].read + Len(lines) > IncomingDataLimit
       THEN slotFinished(c) /\ UNCHANGED writeTimer
       ELSE LET s == read([server[c] EXCEPT !.read = @ + Len(lines), !.lines = @ \o lines]) IN
            /\ server' = [server EXCEPT ![c] = s]
            /\ writeTimer' = (writeTimer \/ (s.state = "responding" /\ server[c].state # "responding"))
            /\ UNCHANGED serverList
    /\ UNCHANGED <<settings, binding, waiting, it, output>>

slotRead(c) ==
    /\ it = 0 /\ In(c, serverList) /\ server[c].timer
    /\ LET s == read([server[c] EXCEPT !.timer = FALSE]) IN
       /\ server' = [server EXCEPT ![c] = s]
       /\ writeTimer' = (writeTimer \/ (s.state = "responding" /\ server[c].state # "responding"))
    /\ UNCHANGED <<settings, binding, waiting, serverList, it, output>>

(* slotConnectionClosed, slotTimeout.                                      *)
slotConnectionClosed(c) ==
    /\ it = 0 /\ In(c, serverList)
    /\ slotFinished(c)
    /\ UNCHANGED <<settings, binding, waiting, writeTimer, it, output>>

slotTimeout(c) == slotConnectionClosed(c)

-----------------------------------------------------------------------------
(***************************************************************************)
(* WebServer: connections                                                  *)
(***************************************************************************)

slotBind ==
    /\ it = 0 /\ bindTimer
    /\ \/ listening' = TRUE /\ bindTimer' = FALSE
       \/ ~listening /\ UNCHANGED binding
    /\ UNCHANGED <<settings, waiting, serverList, server, writeTimer, it, output>>

(* handleConnection succeeds.                                              *)
Handles == ~paused /\ Len(serverList) < connectionLimit

(* A bug: a connection that can be handled does not wait for those that do. *)
slotConnectionAtOnce(c) ==
    /\ it = 0 /\ listening
    /\ ~In(c, serverList) /\ ~In(c, backlog) /\ c \notin ignored
    /\ IF Handles
       THEN serverList' = Append(serverList, c) /\ UNCHANGED waiting
       ELSE IF Len(backlog) < MaxBacklog
       THEN backlog' = Append(backlog, c) /\ backlogTimer' = TRUE /\ UNCHANGED <<serverList, ignored>>
       ELSE ignored' = ignored \cup {c} /\ UNCHANGED <<serverList, backlog, backlogTimer>>
    /\ UNCHANGED <<settings, binding, server, writeTimer, it, output>>

(* A connection that the backlog has no room for is not closed either.     *)
slotConnection(c) ==
    /\ it = 0 /\ listening
    /\ ~In(c, serverList) /\ ~In(c, backlog) /\ c \notin ignored
    /\ IF backlog = <<>> /\ Handles
       THEN serverList' = Append(serverList, c) /\ UNCHANGED waiting
       ELSE IF Len(backlog) < MaxBacklog
       THEN /\ backlog' = Append(backlog, c)
            /\ backlogTimer' = (backlogTimer \/ backlog = <<>>)
            /\ UNCHANGED <<serverList, ignored>>
       ELSE ignored' = ignored \cup {c} /\ UNCHANGED <<serverList, backlog, backlogTimer>>
    /\ UNCHANGED <<settings, binding, server, writeTimer, it, output>>

(* The client of an ignored connection gives up.                           *)
GivesUp(c) ==
    /\ it = 0 /\ c \in ignored
    /\ ignored' = ignored \ {c}
    /\ UNCHANGED <<settings, binding, backlog, backlogTimer, serverList, server, writeTimer, it, output>>

(* slotClearBacklog: as many as can be handled, the first first.           *)
(* A bug: the timer goes on only if something has been done.               *)
slotClearBacklogOnce ==
    /\ it = 0 /\ backlogTimer
    /\ LET n == IF Handles THEN Least(Len(backlog), connectionLimit - Len(serverList)) ELSE 0 IN
       /\ serverList' = serverList \o SubSeq(backlog, 1, n)
       /\ backlog' = SubSeq(backlog, n + 1, Len(backlog))
       /\ backlogTimer' = (n # 0 /\ backlog' # <<>>)
    /\ UNCHANGED <<settings, binding, ignored, server, writeTimer, it, output>>

slotClearBacklog ==
    /\ it = 0 /\ backlogTimer
    /\ LET n == IF Handles THEN Least(Len(backlog), connectionLimit - Len(serverList)) ELSE 0 IN
       /\ serverList' = serverList \o SubSeq(backlog, 1, n)
       /\ backlog' = SubSeq(backlog, n + 1, Len(backlog))
       /\ backlogTimer' = (backlog' # <<>>)
    /\ UNCHANGED <<settings, binding, ignored, server, writeTimer, it, output>>

(* killAllConnections: each connection is taken from the list the iterator  *)
(* runs through, which moves it on to the next, and then it is moved on     *)
(* again.                                                                  *)
restart ==
    /\ it = 0
    /\ LET left == [i \in 1 .. Len(serverList) \div 2 |-> serverList[2 * i]] IN
       /\ serverList' = left
       /\ server' = [c \in Conns |-> IF In(c, left) THEN server[c] ELSE NewServer]
    /\ listening' = FALSE /\ bindTimer' = TRUE
    /\ UNCHANGED <<settings, waiting, writeTimer, it, output>>

-----------------------------------------------------------------------------
(***************************************************************************)
(* WebServer: bandwidth                                                    *)
(***************************************************************************)

webBytesLeft == (bandwidthLimit - spent) % Width

bandwidthPerClient == webBytesLeft \div Len(serverList)

(* What the Server at the iterator may write.                              *)
(* A bug: what the others have written since is not looked at.             *)
ShareOfLimit(s) ==
    IF bandwidthLimit \div Len(serverList) = 0 THEN bandwidthLimit
    ELSE Least(bytesLeft(s), bandwidthLimit \div Len(serverList))

Share(s) ==
    IF bandwidthPerClient = 0 THEN webBytesLeft ELSE Least(bytesLeft(s), bandwidthPerClient)

slotWrite ==
    /\ it = 0 /\ writeTimer /\ sent <= MaxSpent
    /\ writeTimer' = FALSE
    /\ it' = IF serverList = <<>> THEN 0 ELSE 1
    /\ UNCHANGED <<settings, binding, waiting, serverList, server, output>>

(* A pass of the loop ends: the iterator moves on.                         *)
Advance(i, n) == it' = (IF i > n THEN 0 ELSE i) /\ writeTimer' = (i > n)

(* The loop comes to a Server that has nothing to write.                   *)
Pass ==
    /\ it # 0 /\ webBytesLeft # 0 /\ bytesLeft(server[serverList[it]]) = 0
    /\ Advance(it + 1, Len(serverList))
    /\ UNCHANGED <<settings, binding, waiting, serverList, server, output>>

(* All is spent: the loop is left.                                         *)
Spent ==
    /\ it # 0 /\ webBytesLeft = 0
    /\ it' = 0 /\ writeTimer' = TRUE
    /\ UNCHANGED <<settings, binding, waiting, serverList, server, output>>

(* The Server writes.  If it finishes it leaves the list, and the iterator  *)
(* stands at the next, or at the one before if there is none; then it is    *)
(* moved on.                                                               *)
Write(c, room) ==
    /\ it # 0 /\ webBytesLeft # 0 /\ c = serverList[it] /\ bytesLeft(server[c]) # 0
    /\ LET w == write(server[c], Share(server[c]), room) IN
       /\ spent' = spent + w.n
       /\ sent' = sent + w.sent
       /\ failed' = (failed \/ w.failed)
       /\ IF w.over
          THEN slotFinished(c) /\ Advance(it + 1, Len(serverList) - 1)
          ELSE /\ server' = [server EXCEPT ![c] = w.s]
               /\ Advance(it + 1, Len(serverList))
               /\ UNCHANGED serverList
    /\ UNCHANGED <<settings, binding, waiting, lowered>>

(* The socket is found closed, or fails: nothing is counted of this write.  *)
WriteFails(c) ==
    /\ it # 0 /\ webBytesLeft # 0 /\ c = serverList[it] /\ bytesLeft(server[c]) # 0
    /\ \E room \in Rooms :
          LET header == headerBefore(server[c], Share(server[c]), room) IN
          /\ sent' = sent + header
          /\ failed' = (failed \/ header # 0)
    /\ slotFinished(c)
    /\ Advance(it + 1, Len(serverList) - 1)
    /\ UNCHANGED <<settings, binding, waiting, spent, lowered>>

slotCheckOutput ==
    /\ it = 0 /\ sent # 0
    /\ spent' = 0 /\ sent' = 0 /\ failed' = FALSE /\ lowered' = FALSE
    /\ UNCHANGED <<settings, binding, waiting, serverList, server, writeTimer, it>>

-----------------------------------------------------------------------------
(***************************************************************************)
(* The user                                                                *)
(***************************************************************************)

setBandwidthLimit(l) ==
    /\ it = 0 /\ l # bandwidthLimit
    /\ bandwidthLimit' = l
    /\ lowered' = (lowered \/ spent > l)
    /\ UNCHANGED <<binding, waiting, paused, connectionLimit, serverList, server, writeTimer, it,
                   spent, sent, failed>>

setConnectionLimit(i) ==
    /\ it = 0 /\ i # connectionLimit
    /\ connectionLimit' = i
    /\ UNCHANGED <<binding, waiting, paused, bandwidthLimit, serverList, server, writeTimer, it, output>>

pause(b) ==
    /\ it = 0 /\ b # paused
    /\ paused' = b
    /\ UNCHANGED <<binding, waiting, connectionLimit, bandwidthLimit, serverList, server, writeTimer,
                   it, output>>

-----------------------------------------------------------------------------
(* What arrives at once: clients end the headers of each request before    *)
(* the next, and need not wait for the response.                           *)
Arrivals(c) ==
    IF server[c].read % 2 = 0
    THEN {<<r>> : r \in Asks[c]} \cup {<<r, End>> : r \in Asks[c]}
    ELSE {<<End>>}

User ==
    \/ \E l \in Bandwidths : setBandwidthLimit(l)
    \/ \E i \in ConnectionLimits : setConnectionLimit(i)
    \/ \E b \in BOOLEAN : pause(b)
    \/ restart

WNext ==
    \/ \E c \in Conns :
          \/ slotConnection(c) \/ GivesUp(c)
          \/ (\E lines \in Arrivals(c) : slotReadyRead(c, lines))
          \/ slotRead(c) \/ slotConnectionClosed(c)
          \/ (\E room \in Rooms : Write(c, room)) \/ WriteFails(c)
    \/ slotBind \/ slotClearBacklog
    \/ slotWrite \/ Pass \/ Spent \/ slotCheckOutput
    \/ User

WSpec == WInit /\ [][WNext]_wvars

-----------------------------------------------------------------------------
(***************************************************************************)
(* Properties                                                              *)
(***************************************************************************)

(* Lines that came while a response was written, or with the request line,  *)
(* are looked at without waiting for more.                                 *)
NoRequestForgotten == \A c \in Elements(serverList) :
    server[c].lines # <<>> /\ server[c].state # "responding" => server[c].timer

(* A connection in the backlog is looked at again, whatever happens to the  *)
(* connections in front of it.                                             *)
BacklogIsPolled == backlog # <<>> => backlogTimer

(* Whatever there is to write is written when the timer fires, or in a      *)
(* later pass of the loop.                                                 *)
WriteIsPending == \A c \in Elements(serverList) :
    server[c].state = "responding" /\ bytesLeft(server[c]) # 0 => writeTimer \/ it # 0

(* Nothing waits without a timer: no line, no connection, no response.     *)
TimersRun == NoRequestForgotten /\ BacklogIsPolled /\ WriteIsPending

(* Whoever comes first is served first: a connection that gets a Server     *)
(* has overtaken none in the backlog.                                      *)
ServedInOrder ==
    [][\A c \in Conns : In(c, serverList') /\ ~In(c, serverList) =>
          \A i \in 1 .. Len(backlog) :
             ~In(backlog[i], serverList') => \E j \in 1 .. i - 1 : backlog[j] = c]_wvars

(* What the sockets get from all Servers together is no more than the limit *)
(* in a tenth of a second, unless a write that failed had sent a header,    *)
(* which the Server does not report, or the limit was set below what had    *)
(* been spent already: then bytesLeft wraps around.                        *)
WithinBandwidth == ~failed /\ ~lowered => sent <= bandwidthLimit

(* Nothing but the timer of a minute ends a response that has nothing left  *)
(* to write and is not over; only the response for an empty resource comes  *)
(* to that.                                                                *)
OnlyEmptyStalls == \A c \in Elements(serverList) :
    server[c].state = "responding" /\ bytesLeft(server[c]) = 0 => server[c].req.size = 0

(* The comment of restart in WebServer.h: "Kill all connections".          *)
RestartKillsAll == [][listening /\ ~listening' => serverList' = <<>>]_wvars
=============================================================================
