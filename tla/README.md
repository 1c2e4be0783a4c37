# TLA+ models of kdenetwork (KDE 3)

kdenetwork is a module of some twenty independent network programs. This
directory holds TLA+ models of the parts of it whose correctness depends on
the order of events: who runs first, which answer comes late, which timer is
still set. They are translated from the code under `src/`, model-checked with
TLC on small instances and, where a theorem is stated, proved with TLAPS for
every value of the constants.

1. [What there is](#1-what-there-is): the inventory of the repository
2. [Plan](#2-plan)
3. [The models and the code](#3-the-models-and-the-code)
4. [Runs](#4-runs)
5. [Proofs](#5-proofs)
6. [Where the code and its documents disagree](#6-where-the-code-and-its-documents-disagree)
7. [Limits](#7-limits)

Line numbers are those of the files under `src/`.

## 1. What there is

### Modelled

**KGet** (`kget/`), a download manager.

- *Slave* (`slave.cpp`): a `QThread` per transfer that owns the transfer's
  KIO job. State: the stack of pending commands and its counter, the job,
  the condition variable. Operations: `Op` (main thread: start the thread or
  push a command and wake it), `run`/`fetch_cmd` (worker), the job's signals
  (`slotResult`, `slotTotalSize`, delivered in the main thread). It answers
  with events posted to the main window. Hard: commands are a *stack*, the
  job is touched by both threads without a lock, the test before the wait is
  outside the mutex. Correct if no download outlives its thread, a transfer
  has at most one download, and every command has its effect.
- *Transfers and queue* (`transfer.cpp`, `transferlist.cpp`,
  `kmainwidget.cpp`): status (trying, running, stopped, finished), mode
  (queued, delayed, scheduled, none, new) and the number of attempts of each
  transfer; offline mode; the network check; `checkQueue`, which looks for
  finished downloads in the cache and starts queued transfers up to
  `maxSimultaneousConnections`. Driven by the user's buttons, by a timer for
  scheduled transfers and by the slaves' events, which hold a bare pointer to
  the transfer. Hard: the list shows the status the *answers* gave, while
  commands and results are on their way; the buttons offered are updated in
  some handlers only; deletion blocks in `wait()`. Correct if the list agrees
  with the slaves once everything has been answered, deletion is final, and
  the queue neither starts too many nor idles.

**KInetD** (`krfb/kinetd/`), a small inetd that desktop sharing uses. State:
for each service its port, range, enabling, expiration and advertisement by
SLP and DNS-SD; entries in `kinetdrc`; three timers shared by all services.
Operations: the DCOP calls `setEnabled` (twice), `setPort`,
`setServiceRegistrationEnabled`, the three timers, start and stop. Hard: each
timer serves all services and is set again by several handlers; other
programs take and free the ports; configuration and memory can drift apart;
the port changes under an advertisement. Correct if only enabled services
listen, only where configured; enablings end in time; a lost port is looked
for again; advertisements are true and renewed in time.

**KDict's client** (`kdict/dict.cpp`). `DictInterface` (main thread) keeps the
list of queries; `DictAsyncClient` (a `pthread`) serves the first of them.
They share a pointer to the job and two pipes of bytes that all look alike: a
byte to the worker means start or stop, one from it means "ended". Hard: both
threads empty the pipe of the start signals, the pointer is cleared without a
lock, and the message box of an error runs an event loop in the middle of
`clientDone`, in which queries (D-COP) and further ends arrive. Correct if the
pointer never dangles, no signal is lost for good, every query ends, and what
is reported for a query is the reply to it.

**Remote desktop client** (`krdc/vnc/`). A connection has three threads: the
controller connects, logs in and reads; the writer sends what the other two
have queued; the GUI thread handles the events they post to the view, asks for
the password and queues input. State: `m_quitFlag`, which nobody locks; the
update requests and mouse events under `m_lock`; the password under
`passwordLock`. Operations: the two `run` methods, `queue...`, `customEvent`
with its dialogs, the destructor. Hard: the threads end one another through the
flag while any of them waits; the requests for updates are made, announced and
postponed by two threads; the input queue drops what is superfluous; dialogs
nest event loops. Correct if no thread outlives the view, the picture never
freezes, a button pressed arrives pressed and released, and the end is shown.

**Desktop sharing server** (`krfb/krfb/rfbcontroller.cc`,
`krfb/libvncserver/rfbserver.c`). One process per connection. State: the
controller's state, the queue of events executed later and the mark that the
client is gone (`asyncMutex`), the list of clients and the references to a
client, the background. Operations: the dialog, the two timers' slots, closing
and quitting, the clipboard; in the client's threads its acceptance, the
protocol, its end. Hard: the end of the connection and the user's closing it
race; a client must not be freed under the GUI thread; locks are taken in
different orders. Correct if nothing of a client's is executed before the user
has been told of it, the client lives as long as it is used, and its end
restores the desktop and ends the program.

**LISa** (`lanbrowsing/lisa/`). A server per host (`NetManager`), which forks a
child for every update. State: the list, the two flags, whether it answers
broadcasts, those who wait for the list. Operations: select's branches, the
child's (`findServerServer`, `getListFromServerServer`, `doScan`), signals.
Hard: servers get the list from one another, through children that die; who
answers broadcasts changes with every update. Correct if whoever waits is
served once there is a list, there is one child at a time, and the servers do
not all rely on one another.

**kpf's web server** (`kpf/src/WebServer.cpp`, `Server.cpp`). State: the
connections served and those in the backlog, what is left of the bandwidth in
this tenth of a second, and of each connection the lines read, the request and
the bytes to write. Operations: the timers' and sockets' slots, the user's
settings. Hard: several timers that each keep the others going; the loop that
shares the bandwidth while connections finish in it; unsigned arithmetic;
pipelined requests; a file or socket that fails behind a header just written.
Correct if nothing waits without a timer, connections are served in order, what
is written is counted and the limit is kept.

**Kopete's plug-in manager** (`kopete/libkopete/`: `kopetepluginmanager.cpp`,
`kopeteprotocol.cpp`, `kopeteaccountmanager.cpp`). State: the queue of plug-ins
to load, those loaded, those with a deferred delete, the accounts' status and
who awaits it. Operations: start-up, loading, unloading, D-COP's calls, the
wizard, removing an account, quitting. Hard: everything is asynchronous and
may meet its opposite under way. Correct if no account outlives its protocol,
what is enabled is loaded in the end, and unloading and quitting end.

**kppp's dialling** (`kppp/connect.cpp`, `kpppwidget.cpp`, `opener.cpp`,
`requester.cpp`, `modem.cpp`). Two processes: kppp, one thread, and the
privileged opener, which holds the modem's tty open, starts pppd and passes on
its death as a `SIGUSR1`. State: the windows, `ConnectWidget`'s state of
dialling and place in the login script, eight timers, `pppdRunning()` and
`pppdError()`, the two descriptors of the tty and the lock file. Operations:
beginning, `timerEvent`, which is the dialling, Cancel, disconnecting, the
waiting for the interface, the signal. Hard: `init`, Cancel, `disconnect` and
message boxes run the event loop, so that any other event is handled in the
middle of them; pppd dies when it likes, and the signal does not say which one
it was. Correct if what is dialled can be stopped and is timed, `pppdRunning()`
is right, no way out leaves the line up, and logging on comes to an end.

### Not modelled

| component | state and operations | why, or what would be hard |
|---|---|---|
| KGet user interface (`dlgIndividual`, `logwindow`, `settings`, plug-in) | what is shown, settings | no order matters |
| KDict user interface | history, settings | no order matters |
| ktalkd (`ktalkd/ktalkd`) | table of invitations with expirations, answering machine processes | planned: expiry during a look-up |
| KDNSSD (`kdnssd/kdedmodule`) | reference-counted watchers of service directories | planned: enter and leave while services resolve |
| KSirc (`ksirc/`) | perl process, message receivers by channel | mostly text |
| KNewsTicker, RSS service, librss | feeds and their loaders | little state; a loader that fails while another starts |
| File sharing, KWiFiManager | configuration dialogs, display | no order matters |
| Torrent plug-in (`kfile-plugins/torrent`) | parser of bencoded data | a pure function, planned |
| Kopete protocols (`kopete/protocols`, `plugins`) | fourteen protocols | mostly adaptations of other libraries; the OSCAR rate class is planned |

The programs above do not interact with one another except that desktop
sharing registers with KInetD (calls over DCOP, a socket handed to the started
process) and KInetD and kpf advertise through DNS-SD.

### Hazards

`PROJECT.json` lists what in this code is hard to test, each at its line, with
the properties about it. The ones no property covers, and some it does not
list, are these:

- KGet: `Op` starts the thread on demand while it is leaving (`slave.cpp:60`);
  the assertion of the job in `slotResult` (`:257`); `synchronousAbort` and
  `slotExecRemove` block in `wait()` (`transfer.cpp:164`, `:876`); a transfer
  saved as trying is read back as trying, without a job (`:790`); the nested
  event loop of a deletion (`:475`); the buttons updated before `checkQueue`
  changes the transfers (`kmainwidget.cpp:1385`).
- KInetD: the int product in `setExpirationTimer` (`kinetd.cpp:461`).
- KDict: the destructor cancels the worker wherever it stands (`dict.cpp:1227`).
- krdc: Cancel during authentication makes a new view while the old controller
  still runs, and both use the same static password and lock.
- krfb: input queued before the user takes control away is executed after it.
- kpf: a connection for which the backlog has no room is neither served nor
  closed (`WebServer.cpp:220`).
- krfb: the head of an empty list is used after the last client has left it
  (`rfbcontroller.cc:593`); krdc: a view deleted while its controller waits for
  the password waits for it (`kvncview.cpp:769`).
- LISa: a signal handler asks for an update that a scan under way forgets
  (`netmanager.cpp:133`).
- kppp: a redial that fails with a message box leaves no window
  (`kpppwidget.cpp:651`); the script's place is not reset when it times out
  (`connect.cpp:1094`).
- Kopete: a shutdown asked for while plug-ins are loaded is ignored, and
  `slotShutdownDone` may come twice and give back the same reference
  twice (`kopetepluginmanager.cpp:166`).

## 2. Plan

The order is that of importance: threads that share state first, then
protocols between processes, then timers, then arithmetic.

| module | what | state |
|---|---|---|
| `KGetDownload` | abstract: a thread and at most one download in it | done |
| `KGetSlave` | the slave; implements `KGetDownload` | done, proved |
| `KGet` | main thread over the slaves (EXTENDS `KGetSlave`) | queue and buttons done, proved |
| `KInetD` | the daemon | done, proved |
| `KDict` | both threads of the client | done, proved |
| `KrdcThreads` | controller, writer, GUI thread; the end of all | done, proved |
| `KrfbController` | a session: controller, client threads, references | done, proved |
| `LISa` | the servers of a network and their children | done, proved |
| `KpfWebServer` | connections, backlog, requests, bandwidth | done, proved |
| `KopetePlugins` | loading, unloading, accounts, the end | done, proved |
| `KpppDial` | dialling against timers, Cancel and the death of pppd | done, proved |
| proofs about `KGet` | `StatusAgrees` for an impatient user and with finished transfers removed | next |
| `KTalkdTable`, `KDnssdWatcher`, `RateClass`, `Bencode` | tables, reference counts, pure functions | then |
| additions to `KGet` | saving and reading back the list, moving transfers, nested event loops of deletion | then |
| additions to `KrfbController`, `KInetD` | invitations; accepting connections and their limit | then |

There is one run for each component, with all its properties, and one for each
disagreement worth a counterexample. An invariant that says only which type the
variables have is proved and not run as well.

## 3. The models and the code

### KGetSlave and KGetDownload

| model | code |
|---|---|
| `stack[t]` | `Slave::stack` and `nPendingCommand` (they change under one lock) |
| `pc[t]` | where the worker stands in `Slave::run`; `"none"` while `running()` is false |
| `cmd[t]`, `copyjob[t]` | the command fetched; `copyjob`: null, new, or with a known size |
| `op` | the `Op` the main thread is in, between `start()` and `push` |
| `emitting` | the `result` signal on its way to `slotResult` |
| `events` | the posted `SlaveEvent`s |
| `crashed` | the line of the assertion that failed or of the null job |
| `OpStart`, `OpPush` | the two halves of `Op`: the worker may leave between them |
| `CheckPending`, `Sleep` | the unlocked test, and the moment from which a wake is seen |
| `FetchCmd`, `Dispatch`, `KillJob`, `Retrieve`, `AnswerStop`, `LeaveLoop`, `Exit` | `fetch_cmd` and the cases of `run`, cut where the other thread can see a difference: the test of `copyjob`, its `kill`, the answer |
| `EmitResult`, `SlotResult`, `SlotTotalSize` | the job's signals in the main thread |

`SlaveNext` lets any client send any command at any time. `KGetDownload` says
what a slave promises: a thread is launched, a download begins and ends in it,
and the thread leaves only without one.

### KGet

A handler of the main thread is computed at once, on a record of the main
thread's state, by operators with the names of the methods
(`checkQueue`, `slotResume`, `slotRequestDelay`, `customEvent`, ...). The
slave operations it makes are kept in `todo` in the order of the code and are
carried out one at a time (`NextOp`, `Abort`, `Join`), interleaved with the
workers, before the main thread does anything else. This is sound because no
handler reads what a slave operation changes. A loop over the list of transfers
(`Each`, `EachSelected`) is the function of what the state is after each step.

`status`, `mode` and `retryCount` are the members of `Transfer`;
`offlineMode`, `b_connected` those of `KMainWidget`; `selected` is the
selection of the list, `buttons` the actions `slotUpdateActions` has enabled.
`User` contains the buttons, adding transfers, selecting, the offline switch
and the network check; `TransferTimeout` is the timer of scheduled transfers.

### KInetD

A listener is a record with the members of `PortListener`; the operators
(`acquirePort`, `freePort`, `setEnabledInternal`, `setPort`,
`refreshRegistration`, ...) are its methods and return the new record. What is
advertised is part of the record: `slpPort` and `dnssdPort` are the ports the
advertisement carries. `config` is `kinetdrc`, which outlives the daemon;
`Start`, `Load`, `Loaded` and `Stop` are its life. The two loops that bind
ports take a step per service (`Load`, `Retry`), so that other programs
(`OtherProgram`) compete in between. `expiration`, `portRetry` and `rereg` are
the three timers, holding the time at which they fire. A unit of time is 30 s,
the interval of the retry timer and the shortest of the re-registration timer;
`Tick` lets time pass only once the timers that are due have been served;
that their handlers always make room for it is `TimersMoveOn`, without which a
timer set to 0 for ever would hold up the clock and hide a missed deadline (it
is proved, for any number of services, and not run).

### KDict

`jobList`, `newServer`, `clientDoneInProgress` are members of
`DictInterface`; `data[j]` is the `JobData` object at address `j`, `Freed` if
there is none; `job` the pointer the threads share; `pipeIn` and `pipeOut`
count the bytes in the two pipes. `at` is where the main thread stands in
`clientDone` and `startClient`, cut at every access to the pipes and the
pointer; `wpc` is where the worker stands in `waitForWork` and the protocol.
`boxes` counts the message boxes: each is a `clientDone` that is suspended in
the event loop of its box (`Report`, `CloseBox`). `serving` is the query the
worker has sent, and `data[j].answer` the query whose reply `j` holds. A byte
is written by `Signal` (stop) and `StartWrite` (start), and taken by `DoneOut`
and `StartOut` in the main thread and by `Clear` and `Drain` in the worker.
`disturbed` is a history variable: a query was cancelled since the client was
last at rest.

### KrdcThreads

`quitFlag` is `m_quitFlag`. `cpc` and `wpc` are the places where the controller
and the writer stand, cut at every wait and every access to what is shared.
`queue` is what `m_lock` protects, `copy` the writer's local copies, `server`
what the server has been sent and not answered; of the mouse only whether a
button is pressed is kept, and how many events are queued. `events` are the
posted events and `dialogs` the dialogs open, each a nested event loop in which
further events are handled. The controller posts a question and waits for its
answer under one lock: in the states `...Posted` it holds `passwordLock`, and
the GUI thread cannot answer yet. `tried` and `overrun` are history variables:
the last mouse event the user made, and whether it met a full queue.

### KrfbController

`gui` is where the GUI thread stands and where it goes on to. `Marking` are
the stages of the use of a client that several slots make, so that the input
thread can come between: `mark` (the head of the list is read, under its lock),
`deref` (the client's socket is looked at), `skip` (it is closed: the next
client is looked for) or `refer` (`rfbIncrClientRef`), and `release` (the
reference is given back). From `deref` on no lock is held, as in
`rfbClientIteratorNext`, and each stage is a step: if the client has been freed,
it ends in `crashed`. `late` is history: the present reference, or the last, was
taken after the input thread had counted the references. `cpc` is the listener, which becomes
the input thread: the protocol, then `closed`, `list`, `count`, `wait`, `hook`
(in the last four it holds the lock of the list) and `gone`, when the client is
freed. `AsyncFree`, `ListFree`, `AppLockFree`, `CursorFree` say who holds the
locks. `surprise` and `exitCall` are history: input was executed too early; the
program was ended by D-COP. Three things the code does not exclude are states
of the model, excepted by name where a property speaks of what happens in the
end: `Inverted` (GUI thread and input thread wait for each other's lock),
`WakeUpLost` (the last reference goes between the count and the wait) and
`Crashed` (the head of an empty list, or a client that is gone, is used).

### LISa

The variables are those of each host's `NetManager`; `child` is its child:
`find`, `ask`, then `scan`, or `get` and `read`, then `write`. `pipe` is what
has come through the pipe at its end: a list (`Results`), part of one
(`Partial`), nothing (`NoData`). A list is null, empty or found; `due` says
that the time to update has come, `asked` and `peers` are the broadcasts and
the connections of other hosts' children, `user` a client of the host's own.
`serveAndClean` is part of every branch of select, as in the code. A server
that exits is started again by `Start`.

### KpfWebServer

`server[c]` is the `Server` of connection `c`: its state, the lines read, the
request and the bytes of header and file to write; `read`, `prepareResponse`,
`write`, `reset` are its methods on this record. `slotWrite` is cut into the
passes of its loop, at the iterator `it`, and nothing else runs in between.
`spent` is `totalOutput - lastTotalOutput`, which sums what `write` says it has
written; what is left is computed modulo `Width`, as `ulong` does. `sent` is
history: what the sockets got in the same time, also in calls that return 0
after the header has gone out (`atEnd`, `headerBefore`); `failed` says that there
was such a call. `lowered` is history: the limit was set below what had been
counted. A request is what it leads to,
and a file has as many bytes as it has: fewer than promised, or none, if it was
cut after its size was taken.

### KopetePlugins

Every action is one event of the only thread. `loadTimers` and `doneTimers`
count the zero timers pending; `doomed` and `condemned` are the plug-ins and
accounts with a deferred delete pending; `statusWatch` and `endWatch` are the
accounts whose signals a protocol that unloads is connected to. `overtaken`,
`disturbed` and `quitAsked` are history: plug-ins whose load met an unload
under way, or the reverse; protocols whose accounts the user changed while
they were unloading; the last window was closed.

### KpppDial

Every action is one event of kppp's thread, or the death of a pppd. A handler
that runs the event loop is a frame on `nest`, and goes on only when it is the
innermost: `"pre"`, `"open"` and `"hung"` are the three places of `init` (the
pre-startup command, after the tty was opened, after the modem was hung up),
`"cancel"`, `"disconnect"` and `"box"` those of `cancelbutton`, `disconnect`
and the message box of `sigPPPDDied`. `dial` has `ConnectWidget`'s members;
`vmain` has the numbers of the code, and `timerEvent` an action for each.
`substate` is counted from 0, -1 and 0 being alike. What the code arms and
stops is in `timers`: Qt's timers by name, `"pause"` for `pausing`, and
`"main"` for the one in `main_timer_ID`; a second `init` overwrites that id,
and the first timer, which nobody can stop any more, is `"lost"`. `modem` is
the state of the line and its three holders: `modemfd` (`tty`), the lock file
(`locked`) and the opener's `ttyfd`. The line goes down when the last of kppp,
the opener and pppd closes the tty (`Settled`). `died` counts the signals that
have not been handled.

`astray` is history, the five ways in which something happens that the code
does not guard against, and the properties name the ones they except:
`"hurried"` (cancelled in its first moments, before or inside `init`, or begun
on top of something that goes on), `"mistaken"` (a late signal taken for the
death of the present pppd), `"unheard"` (a pppd that died before the opener had
stored its pid), `"refused"` (a redial that `beginConnect` refuses with a
message box); `"twice"` belongs to a bound.

## 4. Runs

| run | instance | shows |
|---|---|---|
| `kget_queue` | `KGetQueue.cfg`: two transfers on one connection, resume, queue, delete, one transfer found in the cache or not | `StatusAgreesWithJob`, `DeletedIsSilent`, `StartsWithinLimit`, `NoIdleConnection` |
| `kget_all` | `KGetAll.cfg`: one transfer, every button at any time as the window shows it, offline switch and network, spurious wake-ups | `SlaveInv`, and that the slave implements `KGetDownload`, under the real main thread |
| `kinetd` | `KInetD.cfg`: one service with SLP and DNS-SD, two ports, 6 units of time, registrations that live 4 | `PortIsRetried`, `ExpiredIsDisabled`, `ListensWhereConfigured`, `RegistrationIsRenewed`, `AdvertisedPortIsOwn` |
| `kdict` | `KDict.cfg`: three jobs, all user actions, two boxes | `JobIsFirst`, `NeverStalls`, `UndisturbedIsDone`, `EveryQueryEnds` |
| `krdc` | `KrdcThreads.cfg`: queues of 2 and 1 mouse events, with and without the wallet | `NoThreadOutlivesView`, `ButtonArrives`, `DisconnectedIsFinal`, `DisplayIsRefreshed`, `UserIsTold`, `WaitsEnd` |
| `krfb` | `KrfbController.cfg`: every configuration, two events queued | `ReferenceKeepsClient`, `UserIsToldFirst`, `BackgroundRestored`, `SessionEnds` |
| `lisa` | `LISa.cfg`: two hosts, each with clients of its own | `OneChild`, `EverybodyIsServed`, `ScanEnds`, `SomebodyScans` |
| `kpf` | `KpfWebServer.cfg`: two connections, five kinds of request, two of which lead to an empty file | `TimersRun`, `WithinBandwidth`, `OnlyEmptyStalls`, `ServedInOrder` |
| `kopete` | `KopetePlugins.cfg`: a plug-in, a protocol with two accounts | `ProtocolOutlivesAccounts`, `EnabledIsLoaded`, `UnloadingEnds` |
| `kppp` | `KpppDial.cfg`: three accounts with scripts of one or two commands, with and without redialling and lock file | `DialIsGuarded`, `PppdIsKnown`, `LineIsAttended`, `LogOnEnds` |
| `kget_one_job`, `kpf_restart` | one property each | a violation, see section 6 |

**Bounds, and why they are enough.**

- *KGet.* All slaves share the main thread, which is inside one slave at a
  time, and no slave reads another's state: one transfer shows every
  interleaving of a slave. Two transfers and one connection make them compete
  for it: one waits, one runs, and every answer of one meets every state of
  the other. `MaxStack` is 2: a command that overtakes and one that is
  overtaken. In
  `kget_all` the user acts while no event waits (`MaxEvents` 1), since the
  slave, which its properties are about, does not see the event queue; in
  `kget_queue` he acts on a list that is up to two events late. A
  handler is never cut by the bounds: they hold back the user and the
  job's signals. `reconnectRetries` is 1, so that the last
  attempt and the wrap of the counter both come at once. The user of the
  queue run is patient (`Patient`: he waits for an answer before he presses
  another button for the same transfer) since an impatient one reaches failed
  assertions at once (section 6), which end the behaviour; `kget_all` has the
  impatient one. He has the buttons, and the settings, for which both
  invariants are claimed; what the others lead to is in section 6.
- *KInetD.* Two ports allow a range of one or two, a port that is lost and
  another that is found. A registration lives 4 units, the shortest the code
  makes (120 s); 6 units are the end of a life and a renewal after it. Several
  services on the same timers are left to the proofs, whose number of services
  is arbitrary.
- *KDict.* The list holds at most two queries; the third address is the one
  that is being deleted or has just been freed. Two boxes are a `clientDone`
  inside a `clientDone` inside the event loop. `MaxSignals` holds back the
  user only, while two bytes are in a pipe: a second byte is needed for a
  stop to be read as a start, and the readers empty the pipe however full.
- *krdc.* The two limits (5 and 8 in the code) are only compared with: 1 and 2
  are the smallest that differ, so that a movement is dropped where a press is
  not. Events and dialogs are not bounded.
- *krfb.* Two events are the news of the session and an input after or before
  it; the input thread waits while the queue is full (the code's queue grows).
- *LISa.* Two hosts are a server server and one that asks it, and both may be
  the first, which is when they might rely on each other.
- *kpf.* Two connections: one is served and one waits, or both share the
  bandwidth. The bandwidths 1 and 2 are a share of nothing and a share of one;
  a header of 2 bytes may need one call or two, and with a limit raised in
  between a header's last byte and the file come in one call. Files have a byte
  or none. `Width` 16 leaves room between the limits and the wrapped value. At most four lines are read, two
  requests with their headers; `MaxSpent` holds back `slotWrite` until the
  timer that begins the next tenth of a second, and only then.
- *Kopete.* Two accounts are needed for one to be the last. Of the plug-ins
  one is a protocol and one is not, since the queue treats them alike and the
  unloading does not. `MaxQueue` holds back the user's and D-COP's loads. The
  plug-in whose library is broken is left to the proofs.
- *kppp.* One init string; more only repeat a step (the proofs have any
  number). The three scripts have each command that the code treats in a way of
  its own. `MaxNest` 2 is a handler inside a handler: the user's clicks are held
  back beyond it, not the timers and signals. `MaxSignals` 2 is a signal that
  waits when another pppd dies; since a connection needs a live pppd to be
  mistaken, that is enough for it. After a hurried beginning another one waits
  until what the first left under way has ended (`"twice"`): a third handler of
  `init` does nothing a second does not.

**Deadlock.** TLC checks it for KInetD and kpf, whose timers always go on.
In KGet the main thread may really
block for ever (`wait()` for a thread that was started again, or a thread that
sleeps on a full stack), and a failed assertion stops the program; in KDict a
null pointer does, and a client with no query waits; in krdc and krfb the view
and the program come to their end, or threads wait for each other; a server of
LISa whose child never reported stops for good; Kopete leaves its event loop;
kppp waits for the user.
These runs therefore say `CHECK_DEADLOCK FALSE`.

**Fairness.** Everywhere: the operating system schedules the threads, timers
that are set fire, posted events are handled, and nothing makes the user, the
network or a spurious wake-up act. In particular:

- `EveryQueryEnds` (KDict): weak fairness of the threads' steps includes that
  `select` returns (its timeout is in the code, `dict.cpp:112`) and that a
  message box is closed in the end; strong fairness of `UseEnd` says that a
  server's reply has an end, however often a part of it arrives first.
- krdc: a step that waits for the server is fair only once `m_quitFlag` is set,
  because `select` then ends after 3 s; a dialog is closed in the end.
- krfb: strong fairness of the timers' slots and of the client's handling,
  each of which needs a lock or a moment that others take again and again.
- LISa: `scan` runs only when nothing has happened on any descriptor for ten
  seconds, so its strong fairness is asked for only while no user connects;
  `SomebodyScans` says so again in its premise. The rest is weak fairness of
  select's branches and the child's steps.
- Kopete: the timers, the deferred deletes, and that a connection that is being
  closed from this side ends.
- kppp: the timers that begin and end logging on, the signals, the end of a
  pppd that was told to end (`SIGTERM`, then `SIGKILL`), of a command that is
  waited for, and of a message box. Neither the modem nor the peer need answer,
  and the user need not act.

## 5. Proofs

TLAPS checks the following for every value of the constants that satisfies
the named assumptions (`SlaveAssumption`, `KGetAssumption`,
`KInetDAssumption`, `KDictAssumption`, `KrdcAssumption`, `KrfbAssumption`,
`LisaAssumption`, `KpfAssumption`, `KopeteAssumption`, `KpppAssumption`: the
constants have their types, every transfer is in KGet's list once, an SLP
registration lives at least 120 s, a null pointer is no object, the shorter
limit of krdc's mouse queue is the smaller number, a file has no more bytes than
kpf promises, a connection is kept only by HTTP/1.1 and only later versions than
0.9 ask whether a resource has changed, an account has a
protocol, there is an init string).

**`KGet_proofs`, the slave.** `SlaveSafety` (`SlaveSpec => []SlaveInv`): `SlaveInv`
is inductive. The part that makes it so is `KilledWhenActing`: between the
worker's test of the job and its act on the command only the main thread
runs, which can clear the job and never makes one; without it nothing says
that `LeaveLoop` finds no job. `EmissionIsCurrent` ties the signal on its way
to the job it is of. `SlaveImplementsDownload`: the initial states map to
initial states and every step to a step or a stutter of `KGetDownload`, by
`SlaveInv` in the two steps that leave the thread.

**`KGet_proofs`, the main thread.** For any list of transfers, any settings and
any user, patient or not. A handler is a composition of methods on one record,
so most of the proof is about records: `Sound` says that the record has its
types, that what is selected is in the list, which states a new transfer may be
in, that whatever is asked of a deleted transfer's slave is followed by an abort
or a wait (`Aborted`), and that the limit is kept or nothing was started
(`Limited`). Each method keeps it, hence each handler. A loop over the
list is treated without induction over data: its states exist as a function
(`LoopExists`), and what each step keeps holds after all of them (`Counting`,
from the well-foundedness of the naturals). The inductive invariant is `KInv`:
types, `SlaveInv`, `NothingNew` (a new transfer is being looked up: otherwise
the look-ups that `checkQueue` makes after its loop would start what the
limit does not count) and `GoneInv` (a deleted transfer has a thread, or is the
subject of an operation, only while its abort or the wait for it is still to
come). `MainThreadSafety` is `Spec => []KInv`; from it follow `DeletedIsStopped`,
`SlavesStaySafe` and `KGetImplementsDownload`, in which the slave's lemmas are
used again under the real client. `StartsKeepTheLimit` needs two handlers by
themselves: new transfers, whose look-ups are not counted (`AddWithin`), and
`SLV_CONNECTED`, which makes a transfer run before it counts (`ConnectedRuns`).
`NoConnectionIdles` says for each answer that `checkQueue` is reached with
every transfer of the list before it (`Answered`).

`DeletedStaySilent` is the other part of `DeletedIsSilent`: no event of a
deleted transfer is handled. It has a hypothesis, `Calm`, since the code does not
keep it otherwise: the user is patient, no wake-up is spurious,
finished transfers stay in the list and the network is not switched; section 6
says how each of these, when it fails, leads `customEvent` to a deleted
transfer. They are values of the constants that `KGetQueue.cfg` has. The
invariant, `LInv`, follows each transfer
through the operations that the main thread has still to make, the stack of its
slave, the command the thread is at and the queue of events (`Life`): one that
is in the list has no command on its way that ends its thread, or one
REMOVE in one place (`RemoveAsked`, `RemoveSent`, `Removing`), below everything
else in the stack and with no REMOVED before it; REMOVED is the last event of a
thread that has left (`RemovedLast`), so a transfer is deleted with
no event left (`Over`), by `~Transfer` with none either, because a patient
user has waited (`Killed`), or the main thread waits for ever for a
thread that has begun anew (`Stuck`). Of the handlers it is enough to know that
they ask nothing of a deleted transfer and end no other (`Mild`), but for Delete
and REMOVED.

`StatusAgrees` proves `StatusAgreesWithJob` under `Calm` and for a user who
presses Resume, Queue and Delete only; the conditions are those of
`KGetQueue.cfg`, for any list, any limit and any results of the jobs. The
property speaks of a moment when nothing is on its way. The
invariant, `FInv`, is `LInv` and, of every transfer that no command is about to
end (`Going`), where the news of its download is (`Flow`). One that is
shown trying or running has the single RETR or RETR_CACHE on its way and no job
yet (`Begun`), or a job and only reports of progress in the queue (`Loading`),
or no job any more and, as its last event but for late progress, the result
(`Loaded`); one that is shown otherwise has no command, job or event (`AtRest`).
What makes it inductive is that a download
is begun only from `AtRest` and only once: `checkQueue`
looks for queued transfers, Resume ends in an assertion for one that is active, and
a result is handled before the transfer may be queued again. TLC, on this
run's instance, finds patience and "remove finished transfers" of no
importance for this property; the proof keeps both conditions because it rests
on `LInv`. A spurious wake-up and each of the buttons Pause, Delay,
Timer and Restart and of the offline switch breaks it.

**`KInetD_proofs`.** One inductive invariant, `DaemonInv`, gives all eight
theorems. Its first half, `Sound`, speaks of one listener; that the methods of
`PortListener` keep it is proved once per method and used by every handler
that calls it. Its second half ties the listeners to the configuration
(`Configured`), to one another's ports and other programs' (`Exclusive`) and
to the timers (`ExpirationInTime`, `RenewalInTime`, `PortIsRetried`). The
invariant for the timers is stronger than the properties: it says that the
timer fires before the time is up, and `NonePassed` that no timer is overdue;
from the two follows that the time itself is not past. That the earliest of
the expirations exists is well-founded induction on the naturals (`Less`),
cited from the library in the form without operator parameters.
Number of services, ports, lifetimes and the length of the run are arbitrary.

**`KDict_proofs`.** `DictInv` is the conjunction of `ListInv` (what is in the
list is allocated, once; the pointer is null or the first of the list; the
places where the main thread relies on either) and `ProtocolInv`. The second
is why an undisturbed query is safe: it goes through phases (`Idling`,
`Queued`, `Served`, `Reported`, `Shown`, `Removed`) in each of which it is
known how many bytes are in which pipe and who will take them. There is one
token, in a pipe or in a thread, and both threads can empty the pipe of start
signals only when the token is not there. A cancellation makes a second token;
`disturbed` stays set until both threads are at rest again, and then the
protocol is in `Queued` whatever happened before.

**`KrdcThreads_proofs`.** `ViewInv` gives types, `NoThreadOutlivesView`,
`ButtonArrives` and the action property `DisconnectedIsFinal`, for queues of
any length. `Joined` holds because the writer has been started only by a
controller that reports (the first parts of `EndInv`), so that once the
controller is joined nothing starts the writer. `CopyIsSent` follows an event
of the mouse from the queue through the writer's copy to the server. `EndInv`
orders what is posted: after the news of an end no other status is in the
queue, and none follows a view that shows it.

**`KrfbController_proofs`.** `KrfbInv`: there is a reference at `release` and
nowhere before, and unless it is a late one the input thread is then before
`hook`: it has not counted yet, or it has counted 1 and waits (`RefInv`). Nothing
is claimed of references taken after the count, which the code does not exclude
(section 6). Whoever is let
in has told the user or has queued the news, ahead of all input (`TellInv`);
state, timers, dialog and client belong together (`PhaseInv`), which is why
the background comes back: before the session it is untouched, and once the
user has been told of the end it is back and nothing is left that would take
it away (`BackInv`). For a queue of any length.

**`LanServers_proofs`, LISa.** `LisaInv`, for any number of hosts: a child reads from a
host exactly if that host has it among its peers (`PeersRead`), and with
`OneChild` every server has one child, or the result of one, or neither;
`EverybodyIsServed` needs that a server that is down has no state
(`DownIsIdle`).

**`LanServers_proofs`, kpf.** `WebInv`, for any number of connections, any
requests, files, limits and width of the counter: with `TimersRun` and
`CountedWithin` (what has been counted stays within the limit, and is what the
sockets got if no write failed) it says what the fields of a `Server` tell of each other
(`Sane`: one that responds has a code, and a header or a file to write), and
that a connection without a `Server` has left nothing behind and the iterator of
`slotWrite` stands at one (`HeldInv`). The bandwidth is kept because a pass of
the loop gives a connection a share of what is left and never more; that the
remainder is taken modulo `Width` does no harm as long as the limit was not
lowered below what has been counted. `WithinBandwidth` follows for what the sockets
got, in every tenth of a second in which no write failed behind a header. `OnlyEmptyStalls` and the action property
`ServedInOrder` follow.

**`KopetePlugins_proofs`.** `UnloadInv`, for any plug-ins and accounts, broken
ones too: `Wiring` says that what is doomed is loaded, that a doomed protocol
is unloading, and that the accounts whose signals are awaited exist and belong
to a protocol that unloads; `ProtocolOutlivesAccounts` is the rest of the
invariant, for a protocol is doomed only by its last account or without any.
`EnabledIsLoaded` speaks of a quiet moment and is not inductive; `QueueInv` says
how Kopete comes to be quiet: as long as it loads plug-ins, a queue that is not
empty has a timer, an enabled plug-in is loaded to stay or queued, and one that
is not enabled is neither.

**`KpppDial_proofs`.** `IInv`, for any scripts and handlers nested to any
depth. Its heart is `PhaseInv`: unless it was hurried, a connection is in one
phase at a time, in `init`, dialling or logging on, its window is shown, and no
Cancel, disconnection or earlier pppd is on its way that would end it; so what
comes next can only be its own. It needs that `init` is on `nest` once at most
(`Once`), which is proved from lemmas about what pushing, popping and replacing
the innermost handler does to the handlers there are (`Pushed`, `Popped`,
`Replaced`). `TimedInv` follows the timeout from the dialling on, through the
commands of the script, and ties `vmain` to the command the script is at.
`LineInv` says who has the tty open: while the opener does, the lock file is
there, and kppp has it too or a disconnection, which removes the lock, is on
the way.

**Not proved, only model-checked.** Liveness (`EveryQueryEnds`,
`DisplayIsRefreshed`, `UserIsTold`, `WaitsEnd`, `SessionEnds`, `ScanEnds`,
`SomebodyScans`, `UnloadingEnds`, `LogOnEnds`), since fairness and ENABLED are
beyond this prover. All other properties of passing runs are stated by a
theorem. Two of them, `DeletedIsSilent` and `StatusAgreesWithJob`, are proved
under the conditions on the settings and the user named above, without which the
code breaks them (section 6); the rest have no condition but the assumptions on
the constants.

## 6. Where the code and its documents disagree

Each of these is a run in which TLC finds the property violated.

- `kget_one_job`. `slave.cpp:119` asserts that no job exists before one is
  made. Delay, pressed while a transfer is being tried, shows it as stopped
  but sends nothing to the slave (`transfer.cpp:535`); Resume then sends a
  RETR to a worker that has a job.
- `kpf_restart`. `WebServer.h` says that a restart kills all connections.
  `killAllConnections` takes each from the list its iterator runs through
  (`WebServer.cpp:316`): every other one survives.

Others were met and have no run. Either they follow from these or there is
no state to relate, or they are the exceptions that a property names:

- krfb: `rfb.h:557` says that references keep a client from being cleaned up.
  `rfbClientIteratorNext` takes one after it has given up the lock of the list
  (`rfbserver.c:117`, `:128`), and `rfbClientConnectionGone` may have counted
  before (`:358`): the client is freed while it is referenced, or before its
  socket is looked at. `NoUseAfterFree` states the header's claim and
  `ReferenceKeepsClient` excepts what is `late`; with the first as the INVARIANT
  of `KrfbController.cfg` TLC shows the interleaving;
- kpf: `Server.h:125` says that `write` returns the number of bytes sent. It
  writes the header and then the file in one call, and returns 0 when
  `writeFileData` fails (`Server.cpp:876`): because the file is at its end before
  it has been read, or because the socket fails. The header is then not counted,
  and the Servers may write that much more than the limit. `WithinBandwidth`
  excepts such a tenth of a second (`failed`);
- KGet: the handbook (`doc/kget/index.docbook:494`) says that Resume
  begins the download. The worker tests the number of pending commands
  without the mutex and then waits (`slave.cpp:107`): a wake-up in between is
  lost, and the transfer stays trying.
- `queue`, `pause` and `resume` assert statuses (`transfer.cpp:495`, `:426`,
  `:380`) that the buttons shown do not guarantee, because `checkQueue`
  changes transfers after the buttons were updated;
- an event of a deleted transfer is handled through a dangling pointer
  (`kmainwidget.cpp:2413`, a state where `DeletedIsSilent` fails) even if the
  user is patient, in three ways. With "remove finished transfers" a download
  that finishes before its worker has taken REMOVE is deleted
  (`kmainwidget.cpp:1493`), and REMOVED comes for what is gone. Going offline
  and online again while REMOVE is under way starts the thread anew. So does a
  spurious wake-up and the retry after BROKEN; without the wake-up the main thread
  hangs in `wait()` (`transfer.cpp:876`) for a thread that has begun again;
- the list and the slave disagree for a patient user (`StatusAgreesWithJob`)
  after Restart of a download that has just finished (it is loaded again and
  shown as finished), after Pause overtaken by BROKEN (the retry
  is behind the PAUSE: loaded and shown as stopped), after Delay or Timer while
  it is tried (`transfer.cpp:535`), after going offline with CONNECTED
  under way (killed and shown as running), and after a spurious wake-up, which ends
  the thread and its download without an event;
- `slotResult` asserts the job (`slave.cpp:257`) which the worker may have
  killed while the signal was on its way;
- `Op` starts the thread "on demand" (`slave.cpp:60`) while a thread that is
  leaving still counts as running: the command is then never fetched;
- KInetD: `kinetd.h:158` says that a service is registered as soon as
  it is enabled. `setEnabledInternal` acquires the port, and registers, before
  it sets `m_enabled` (`kinetd.cpp:310`), and the registration is refused;
- `setPort` returns false for a disabled service (`kinetd.cpp:293`), where
  `kinetd.h:144` promises true;
- `setServiceRegistrationEnabled` writes `enable_srvreg_` (`kinetd.cpp:332`)
  and the configuration is read from `enabled_srvreg_` (`kinetd.cpp:200`): the
  choice does not survive a restart, and the model loads the default;
- KDict: a stop written after the worker has finished is read as a
  start; the finished job is served again and its second end is taken for the
  end of the next query, which is reported as done, and empty;
- the flag "settings have changed" travels with the first
  query made after the change; if that is deleted before it starts, the next
  is asked of the old server;
- `clientDone` with an empty list, "This shouldn't happen" (`dict.cpp:1370`),
  happens: a second end arrives after the list was emptied;
- LISa: after SIGHUP the servers "should really update"
  (`netmanager.cpp:132`): a scan that is under way sets the time of the last
  update when it ends, and the update is put off;
- krfb: `closePending` is described as set when the client is gone
  (`rfbcontroller.h:196`), but the client leaves the list first, and in between
  `closeConnection` closes the head of an empty list;
- Kopete: `kopetepluginmanager.h:94` says that three seconds after the shutdown
  all plug-ins are removed. `shutdown` does nothing unless Kopete is running
  (`kopetepluginmanager.cpp:166`): closing the window while plug-ins are being
  loaded leaves a process without a window;
- kppp: "if we are stuck anywhere we will time out" (`connect.cpp:264`). The
  wait after BUSY stops the timeout (`:444`), and only the number being dialled
  starts it again (`:386`): a modem that does not answer an init string
  after such a wait is waited for without a limit (`DialIsTimed` is claimed from
  the number on);
- "when we killpppd() on Cancel ... we won't enter this block"
  (`kpppwidget.cpp:571`): the signal of the killed pppd may come when the next
  one runs, and then it is entered and the running one is believed to be dead;
- Cancel in the first tenth of a second, or while `init` waits for its command,
  does not stop `init` (`connect.cpp:1047` stops the other timers): it dials,
  behind a hidden window;
- without a lock file nothing closes the opener's descriptor of the tty
  (`opener.cpp:237` does, when the lock is removed): after Cancel the line may
  stay up. `LineIsAttended` is claimed of connections with a lock file;
- Kopete: cancelling the wizard and removing the last account mean to unload
  the protocol, under a name without `kopete_` that no plug-in has.

## 7. Limits

What the models assume of code outside the repository: Qt delivers posted
events in order and one at a time; a condition variable may wake
spuriously; deleting an item of the list view does not by itself refresh the
buttons; KIO emits `result` once per job and never after `kill`; the event
loop serves a timer that is due within one unit of 30 s; an SLP server drops a
registration no sooner than 30 s after `slpLifetimeEnd`; `assert` is compiled
in; a thread sees the other's writes in order.

What is left out of the modelled programs:

- KGet: sizes, speeds, texts and start times (a scheduled transfer may be due
  at any moment); the confirmation dialogs; moving transfers; the window of a
  single transfer, which has the same buttons; saving, importing and reading
  back the list; automatic disconnection and shutdown; the event loop nested
  in a deletion (`transfer.cpp:475`).
- KInetD: accepting a connection and starting the server; queries that change
  nothing; the 32-bit product in `setExpirationTimer` (`kinetd.cpp:461`),
  which overflows for expirations more than 24 days ahead.
- KDict: what is sent and received; which error it was; the end of the program
  (the worker is cancelled where it stands, `dict.cpp:1227`); a pipe notifier
  that is activated twice for one byte; the message box of a query that is
  refused at once; a compiler that keeps the shared pointer in a register. The
  address of the query the worker has sent is not used again before its next,
  so that an address names one query.
- krdc: keys, cut text, the contents of updates; the RDP view.
- krfb: reloading the configuration, invitations as a list, clients that
  share a process; spurious wake-ups of the wait for references.
- LISa: the strict mode, the answer of a server that is busy, how long the time
  to the next update is; what is in a list.
- kpf: `WebServerManager` and its configuration, DNS-SD, listings of
  directories, byte ranges; a file that becomes shorter or cannot be read while it
  is being sent, and a short write, which fail as a socket does. Lines come whole, and a socket has room for what is
  written or for nothing.
- Kopete: accounts connect automatically as they are connected by the user
  (`connect`); after the main window is closed no dialog is open; contacts,
  chat windows, the contact list.
- kppp: waiting for a callback, the terminal window, and of scripts the loops,
  prompts and user names; quitting when a connection ends; accounting and
  statistics; the log window. The message boxes of a beginning that is refused
  and of "digital line", and the `processEvents` of a pppd that cannot be
  started, end before anything else happens. What is expected is never in the
  buffer already. Opening the tty again counts as closing the `modemfd` that is
  overwritten (the opener does close its own).

Components that are not modelled are those of the table in section 1, with the
reason.
