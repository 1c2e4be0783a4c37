---------------------------- MODULE KopetePlugins ----------------------------
(***************************************************************************)
(* Kopete's plug-in manager (src/kopete/libkopete/kopetepluginmanager.cpp) *)
(* with the protocols' unloading (kopeteprotocol.cpp) and the accounts     *)
(* that belong to them (kopeteaccountmanager.cpp, kopeteaccount.cpp).      *)
(*                                                                         *)
(* One thread, one event loop.  Every action is one event: a zero timer, a *)
(* deferred delete, a status change of an account, a D-COP call or a click *)
(* of the user.  What makes it hard is that unloading is asynchronous: a   *)
(* plug-in told to unload stays in the list of loaded plug-ins until its   *)
(* deferred delete is served, a protocol until the last of its accounts is *)
(* gone, and meanwhile anybody may load, unload, add or quit.              *)
(***************************************************************************)
EXTENDS Naturals, Sequences, FiniteSets

CONSTANTS
  Plugins,      \* the plug-ins that are installed, protocols included
  Protocols,    \* those among them that are protocols
  Broken,       \* those whose library cannot be loaded
  Accounts,     \* the accounts the user has or may add
  Owner,        \* the protocol of an account
  NoProtocol,   \* the wizard is closed
  MaxQueue      \* bound: plug-ins waiting for the user's loads, and timers pending

ASSUME KopeteAssumption ==
  /\ IsFiniteSet(Plugins) /\ IsFiniteSet(Accounts)
  /\ Protocols \subseteq Plugins
  /\ Broken \subseteq Plugins
  /\ Owner \in [Accounts -> Protocols]
  /\ NoProtocol \notin Plugins
  /\ MaxQueue \in Nat

VARIABLES
  mode,         \* shutdownMode, and "Starting" before slotLoadPlugins has run
  enabled,      \* the non-protocols asked for: the group Plugins of kopeterc, as read
  configured,   \* the accounts with a group in kopeterc
  pluginsToLoad,
  loadTimers,   \* zero timers of slotLoadNextPlugin that are pending
  loadedPlugins,
  doomed,       \* plug-ins with a deferred delete pending
  unloading,    \* protocols told to unload (Protocol::Private::unloading)
  account,      \* the status of an account; "none" when it is not registered
  condemned,    \* accounts with a deferred delete pending
  statusWatch,  \* accounts whose status change the protocol awaits
  endWatch,     \* accounts whose destruction the protocol awaits
  deadline,     \* the 3 s timer of shutdown
  doneTimers,   \* zero timers of slotShutdownDone that are pending
  derefs,       \* how often the manager gave back its reference to kapp
  wizard,       \* the protocol the add-account wizard holds a pointer to
  overtaken,    \* history: plug-ins whose load met an unload under way, or the reverse
  disturbed,    \* history: protocols whose accounts changed while unloading
  quitAsked     \* history: the last window was closed

vars == <<mode, enabled, configured, pluginsToLoad, loadTimers, loadedPlugins,
          doomed, unloading, account, condemned, statusWatch, endWatch,
          deadline, doneTimers, derefs, wizard, overtaken, disturbed, quitAsked>>

\* What loading, unloading and the accounts' life leave alone.
queueVars == <<pluginsToLoad, loadTimers>>
accountVars == <<account, condemned, statusWatch, endWatch>>
endVars == <<deadline, doneTimers, derefs, quitAsked>>

Modes == {"Starting", "StartingUp", "Running", "ShuttingDown", "DoneShutdown"}

Statuses == {"none", "offline", "connecting", "online", "closing"}

\* Contact::isOnline: a connection being closed is still online.
Online(a) == account[a] \in {"online", "closing"}

\* AccountManager::accounts( protocol )
Registered(p) == {a \in Accounts : Owner[a] = p /\ account[a] # "none"}

\* The process serves events: it has not left the event loop.
Alive == mode \notin {"Starting", "DoneShutdown"}

\* There are windows: the dialogs go with the main window.
Shown == Alive /\ ~quitAsked

Init ==
  /\ mode = "Starting"
  /\ enabled \in SUBSET (Plugins \ Protocols)
  /\ configured \in SUBSET Accounts
  /\ pluginsToLoad = <<>>
  /\ loadTimers = 0
  /\ loadedPlugins = {}
  /\ doomed = {}
  /\ unloading = {}
  /\ account = [a \in Accounts |-> "none"]
  /\ condemned = {}
  /\ statusWatch = {}
  /\ endWatch = {}
  /\ deadline = "idle"
  /\ doneTimers = 0
  /\ derefs = 0
  /\ wizard = NoProtocol
  /\ overtaken = {}
  /\ disturbed = {}
  /\ quitAsked = FALSE

(***************************************************************************)
(* Loading                                                                 *)
(***************************************************************************)

\* Sequences that list a set, each member once.
Listings(S) ==
  {s \in [1 .. Cardinality(S) -> S] : \A i, j \in DOMAIN s : s[i] = s[j] => i = j}

\* AccountManager::load queues the protocol of every configured account, one
\* timer each; then loadAllPlugins queues what is enabled, unless --noplugins.
\* The order is that of the groups in the file.
slotLoadPlugins ==
  /\ mode = "Starting"
  /\ mode' = "StartingUp"
  /\ \E os \in Listings(configured), ps \in Listings(enabled), plugins \in BOOLEAN :
       LET protocols == [i \in DOMAIN os |-> Owner[os[i]]] IN
       IF plugins THEN /\ pluginsToLoad' = protocols \o ps
                       /\ loadTimers' = Len(os) + 1
                       /\ UNCHANGED enabled
                  ELSE /\ pluginsToLoad' = protocols
                       /\ loadTimers' = Len(os)
                       /\ enabled' = {}
  /\ UNCHANGED <<configured, loadedPlugins, doomed, unloading,
                 accountVars, endVars, wizard, overtaken, disturbed>>

\* A load that finds the plug-in on its way out returns it as it is; an unload
\* does not look into the queue.
Leaving(p) == p \in loadedPlugins /\ p \in doomed \cup unloading
Queued(p) == \E i \in DOMAIN pluginsToLoad : pluginsToLoad[i] = p

\* loadPluginInternal: what is loaded is returned, whatever happens to it; a
\* new protocol has its configured accounts registered by slotPluginLoaded.
loadPluginInternal(p) ==
  /\ overtaken' = overtaken \cup {x \in {p} \ Protocols : Leaving(x)}
  /\ IF p \in loadedPlugins \cup Broken
       THEN UNCHANGED <<loadedPlugins, account>>
       ELSE /\ loadedPlugins' = loadedPlugins \cup {p}
            /\ account' = [a \in Accounts |->
                 IF Owner[a] = p /\ a \in configured THEN "offline" ELSE account[a]]

\* The queue is a stack.  The first time it is found empty Kopete is running.
slotLoadNextPlugin ==
  /\ Alive
  /\ loadTimers > 0
  /\ IF pluginsToLoad = <<>>
       THEN /\ mode' = IF mode = "StartingUp" THEN "Running" ELSE mode
            /\ loadTimers' = loadTimers - 1
            /\ UNCHANGED <<pluginsToLoad, loadedPlugins, account, overtaken>>
       ELSE /\ pluginsToLoad' = SubSeq(pluginsToLoad, 1, Len(pluginsToLoad) - 1)
            /\ loadPluginInternal(pluginsToLoad[Len(pluginsToLoad)])
            /\ UNCHANGED <<mode, loadTimers>>
  /\ UNCHANGED <<enabled, configured, doomed, unloading, condemned, statusWatch,
                 endWatch, endVars, wizard, disturbed>>

(***************************************************************************)
(* Unloading                                                               *)
(***************************************************************************)

\* Plugin::aboutToUnload and Protocol::aboutToUnload of every plug-in of S: a
\* plug-in, or a protocol without accounts, is ready at once and gets its
\* deferred delete; an account that is offline gets one of its own; one that
\* is online is disconnected first.
aboutToUnload(S) ==
  LET asked  == {a \in Accounts : Owner[a] \in S /\ account[a] # "none"}
      online == {a \in asked : Online(a)}
  IN /\ doomed' = doomed \cup {p \in S : Registered(p) = {}}
     /\ unloading' = unloading \cup (S \cap Protocols)
     /\ account' = [a \in Accounts |-> IF a \in online THEN "closing" ELSE account[a]]
     /\ statusWatch' = statusWatch \cup online
     /\ endWatch' = endWatch \cup (asked \ online)
     /\ condemned' = condemned \cup (asked \ online)

(* A bug: the protocol is ready as soon as one of its accounts is gone. *)
LastAccountAny(a) == IF a \in endWatch THEN {Owner[a]} ELSE {}

\* slotAccountDestroyed: the last account makes its protocol ready.
LastAccount(a) == IF a \in endWatch /\ Registered(Owner[a]) = {a} THEN {Owner[a]} ELSE {}

\* An account is destroyed: it is unregistered, then the protocol is told.
accountDestroyed(a) ==
  /\ account' = [account EXCEPT ![a] = "none"]
  /\ condemned' = condemned \ {a}
  /\ statusWatch' = statusWatch \ {a}
  /\ endWatch' = endWatch \ {a}
  /\ doomed' = doomed \cup LastAccount(a)

\* The deferred delete of an account.
DeleteAccount(a) ==
  /\ Alive
  /\ a \in condemned
  /\ accountDestroyed(a)
  /\ UNCHANGED <<mode, enabled, configured, queueVars, loadedPlugins, unloading,
                 endVars, wizard, overtaken, disturbed>>

\* The deferred delete of a plug-in: ~Protocol deletes the accounts that are
\* left, slotPluginDestroyed takes it off the list.  A wizard that still points
\* to the protocol is dead from here on: what it does is undefined.
DeletePlugin(p) ==
  /\ Alive
  /\ p \in doomed
  /\ loadedPlugins' = loadedPlugins \ {p}
  /\ doomed' = doomed \ {p}
  /\ unloading' = unloading \ {p}
  /\ account' = [a \in Accounts |-> IF Owner[a] = p THEN "none" ELSE account[a]]
  /\ condemned' = condemned \ Registered(p)
  /\ statusWatch' = statusWatch \ Registered(p)
  /\ endWatch' = endWatch \ Registered(p)
  /\ doneTimers' = IF mode = "ShuttingDown" /\ loadedPlugins \subseteq {p}
                     THEN doneTimers + 1 ELSE doneTimers
  /\ wizard' = IF wizard = p THEN NoProtocol ELSE wizard
  /\ disturbed' = disturbed \ {p}
  /\ UNCHANGED <<mode, enabled, configured, queueVars, deadline, derefs, overtaken,
                 quitAsked>>

(***************************************************************************)
(* The user and D-COP                                                      *)
(***************************************************************************)

(* A bug: the queue is left to the timer that loads the plug-ins at start-up. *)
ApplyUnscheduled(E) ==
  /\ Shown
  /\ \E ps \in Listings(E \ loadedPlugins) :
       /\ pluginsToLoad' = pluginsToLoad \o ps
       /\ Len(pluginsToLoad') <= MaxQueue
  /\ UNCHANGED loadTimers
  /\ enabled' = E
  /\ aboutToUnload((loadedPlugins \ Protocols) \ E)
  /\ overtaken' = overtaken \cup {p \in E : Leaving(p)}
                           \cup {p \in Plugins \ (Protocols \cup E) : Queued(p)}
  /\ UNCHANGED <<mode, configured, loadedPlugins, endVars, wizard, disturbed>>

\* The user changes the plug-ins' page: loadAllPlugins reads the group anew,
\* queues what is wanted and not loaded and unloads what is not wanted.
Apply(E) ==
  /\ Shown
  /\ \E ps \in Listings(E \ loadedPlugins) :
       /\ pluginsToLoad' = pluginsToLoad \o ps
       /\ Len(pluginsToLoad') <= MaxQueue
  /\ loadTimers < MaxQueue
  /\ loadTimers' = loadTimers + 1
  /\ enabled' = E
  /\ aboutToUnload((loadedPlugins \ Protocols) \ E)
  /\ overtaken' = overtaken \cup {p \in E : Leaving(p)}
                           \cup {p \in Plugins \ (Protocols \cup E) : Queued(p)}
  /\ UNCHANGED <<mode, configured, loadedPlugins, endVars, wizard, disturbed>>

\* KopeteIface::loadPlugin
DcopLoad(p) ==
  /\ Alive
  /\ doneTimers <= MaxQueue
  /\ enabled' = enabled \cup ({p} \ Protocols)
  /\ loadPluginInternal(p)
  /\ UNCHANGED <<mode, configured, queueVars, doomed, unloading, condemned,
                 statusWatch, endWatch, endVars, wizard, disturbed>>

\* KopeteIface::unloadPlugin
DcopUnload(p) ==
  /\ Alive
  /\ enabled' = enabled \ {p}
  /\ aboutToUnload({p} \cap loadedPlugins)
  /\ overtaken' = overtaken \cup {x \in {p} \ Protocols : Queued(x)}
  /\ UNCHANGED <<mode, configured, queueVars, loadedPlugins, endVars, wizard,
                 disturbed>>

\* AddAccountWizard::next on the page of the protocols.
WizardNext(p) ==
  /\ Shown
  /\ wizard = NoProtocol
  /\ loadPluginInternal(p)
  /\ wizard' = IF p \in loadedPlugins' THEN p ELSE NoProtocol
  /\ UNCHANGED <<mode, enabled, configured, queueVars, doomed, unloading,
                 condemned, statusWatch, endWatch, endVars, disturbed>>

\* AddAccountWizard::accept: the account is registered, also with a protocol
\* that is unloading and has asked its accounts already.
WizardAccept(a) ==
  /\ Shown
  /\ wizard = Owner[a]
  /\ account[a] = "none"
  /\ account' = [account EXCEPT ![a] = "offline"]
  /\ configured' = configured \cup {a}
  /\ wizard' = NoProtocol
  /\ disturbed' = disturbed \cup ({Owner[a]} \cap unloading)
  /\ UNCHANGED <<mode, enabled, queueVars, loadedPlugins, doomed, unloading,
                 condemned, statusWatch, endWatch, endVars, overtaken>>

\* AddAccountWizard::reject means to unload a protocol without accounts, under
\* a name without "kopete_" that no plug-in has: nothing happens.
WizardReject ==
  /\ Shown
  /\ wizard # NoProtocol
  /\ wizard' = NoProtocol
  /\ UNCHANGED <<mode, enabled, configured, queueVars, loadedPlugins, doomed,
                 unloading, accountVars, endVars, overtaken, disturbed>>

\* AccountManager::removeAccount deletes the account at once and forgets its
\* group; the protocol of the last one stays for the same reason.
removeAccount(a) ==
  /\ Shown
  /\ account[a] # "none"
  /\ accountDestroyed(a)
  /\ configured' = configured \ {a}
  /\ disturbed' = disturbed \cup ({Owner[a]} \cap unloading)
  /\ UNCHANGED <<mode, enabled, queueVars, loadedPlugins, unloading, endVars,
                 wizard, overtaken>>

\* PasswordedAccount::connect, asked for by the user, by slotAllPluginsLoaded
\* or by the reconnect timer; and the server's answer.
connect(a) ==
  /\ Alive
  /\ \/ account[a] = "offline"    /\ account' = [account EXCEPT ![a] = "connecting"]
     \/ account[a] = "connecting" /\ account' = [account EXCEPT ![a] = "online"]
  /\ UNCHANGED <<mode, enabled, configured, queueVars, loadedPlugins, doomed,
                 unloading, condemned, statusWatch, endWatch, endVars, wizard,
                 overtaken, disturbed>>

\* The user disconnects.
disconnect(a) ==
  /\ Shown
  /\ account[a] = "online"
  /\ account' = [account EXCEPT ![a] = "closing"]
  /\ UNCHANGED <<mode, enabled, configured, queueVars, loadedPlugins, doomed,
                 unloading, condemned, statusWatch, endWatch, endVars, wizard,
                 overtaken, disturbed>>

(* A bug: the destruction of an account that was still online is not awaited. *)
OfflineUnawaited(a) ==
  /\ Alive
  /\ account[a] \in {"connecting", "online", "closing"}
  /\ account' = [account EXCEPT ![a] = "offline"]
  /\ statusWatch' = statusWatch \ {a}
  /\ condemned' = condemned \cup ({a} \cap statusWatch)
  /\ UNCHANGED <<mode, enabled, configured, queueVars, loadedPlugins, doomed,
                 unloading, endWatch, endVars, wizard, overtaken, disturbed>>

\* The connection is closed, or lost: slotAccountOnlineStatusChanged of a
\* protocol that waits for it condemns the account.
Offline(a) ==
  /\ Alive
  /\ account[a] \in {"connecting", "online", "closing"}
  /\ account' = [account EXCEPT ![a] = "offline"]
  /\ LET awaited == {a} \cap statusWatch IN
       /\ statusWatch' = statusWatch \ awaited
       /\ endWatch' = endWatch \cup awaited
       /\ condemned' = condemned \cup awaited
  /\ UNCHANGED <<mode, enabled, configured, queueVars, loadedPlugins, doomed,
                 unloading, endVars, wizard, overtaken, disturbed>>

(***************************************************************************)
(* The end                                                                 *)
(***************************************************************************)

\* The last window is closed: KopeteWindow::queryExit calls shutdown, which
\* does nothing unless Kopete is running, and the window goes in either case.
shutdown ==
  /\ Shown
  /\ quitAsked' = TRUE
  /\ wizard' = NoProtocol
  /\ IF mode = "Running"
       THEN /\ mode' = "ShuttingDown"
            /\ pluginsToLoad' = <<>>
            /\ aboutToUnload(loadedPlugins)
            /\ deadline' = "set"
       ELSE UNCHANGED <<mode, pluginsToLoad, doomed, unloading, accountVars, deadline>>
  /\ UNCHANGED <<enabled, configured, loadTimers, loadedPlugins, doneTimers,
                 derefs, overtaken, disturbed>>

\* What slotShutdownTimeout and slotShutdownDone leave alone.
SlotUnchanged == UNCHANGED <<enabled, configured, queueVars, loadedPlugins, doomed,
                             unloading, accountVars, wizard, overtaken, disturbed,
                             quitAsked>>

slotShutdownTimeout ==
  /\ deadline = "set"
  /\ deadline' = "passed"
  /\ IF mode = "DoneShutdown"
       THEN UNCHANGED <<mode, derefs>>
       ELSE mode' = "DoneShutdown" /\ derefs' = derefs + 1
  /\ UNCHANGED doneTimers
  /\ SlotUnchanged

slotShutdownDone ==
  /\ doneTimers > 0
  /\ doneTimers' = doneTimers - 1
  /\ mode' = "DoneShutdown"
  /\ derefs' = derefs + 1
  /\ UNCHANGED deadline
  /\ SlotUnchanged

\* What the event loop serves by itself, and the connections that end.
Serve ==
  \/ slotLoadPlugins \/ slotLoadNextPlugin
  \/ slotShutdownTimeout \/ slotShutdownDone
  \/ \E a \in Accounts : DeleteAccount(a)
  \/ \E p \in Plugins : DeletePlugin(p)

UserStep ==
  \/ \E E \in SUBSET (Plugins \ Protocols) : Apply(E)
  \/ \E p \in Plugins : DcopLoad(p) \/ DcopUnload(p)
  \/ \E p \in Protocols : WizardNext(p)
  \/ WizardReject
  \/ shutdown
  \/ \E a \in Accounts :
       WizardAccept(a) \/ removeAccount(a) \/ connect(a) \/ disconnect(a)

Next == Serve \/ UserStep \/ \E a \in Accounts : Offline(a)

Spec == Init /\ [][Next]_vars

\* The event loop serves its timers and deferred deletes; a connection that is
\* being closed ends, since the socket is closed on this side.
FairSpec ==
  /\ Spec
  /\ WF_vars(slotLoadNextPlugin)
  /\ WF_vars(slotShutdownTimeout)
  /\ \A a \in Accounts : WF_vars(DeleteAccount(a))
  /\ \A p \in Plugins : WF_vars(DeletePlugin(p))
  /\ \A a \in Accounts : WF_vars(account[a] = "closing" /\ Offline(a))

(***************************************************************************)
(* Properties                                                              *)
(***************************************************************************)

\* The types of the variables.
TypeOK ==
  /\ mode \in Modes
  /\ enabled \subseteq Plugins \ Protocols
  /\ configured \subseteq Accounts
  /\ pluginsToLoad \in Seq(Plugins)
  /\ loadTimers \in Nat
  /\ loadedPlugins \subseteq Plugins
  /\ doomed \subseteq Plugins
  /\ unloading \subseteq Protocols
  /\ account \in [Accounts -> Statuses]
  /\ condemned \subseteq Accounts
  /\ statusWatch \subseteq Accounts
  /\ endWatch \subseteq Accounts
  /\ deadline \in {"idle", "set", "passed"}
  /\ doneTimers \in Nat
  /\ derefs \in Nat
  /\ wizard \in Protocols \cup {NoProtocol}
  /\ overtaken \subseteq Plugins
  /\ disturbed \subseteq Protocols
  /\ quitAsked \in BOOLEAN

\* "Deleting protocol with existing accounts! Did the account unloading go
\* wrong?" (kopeteprotocol.cpp:70): a protocol is ready for its delete only when
\* its last account is gone, and no account outlives its protocol, whatever is
\* told to unload twice, lost or reconnected meanwhile - unless the user adds
\* an account to a protocol that is already unloading, or removes one from it.
ProtocolOutlivesAccounts ==
  /\ \A p \in doomed \ disturbed : Registered(p) = {}
  /\ \A a \in Accounts : account[a] # "none" => Owner[a] \in loadedPlugins

\* When all is quiet, what the user enabled is loaded and what he disabled is
\* not: however loads, unloads and the timers of the queue interleave, no
\* plug-in is left in the queue without a timer.  Excepted are plug-ins whose
\* load was asked for while they were on their way out (they are handed out as
\* they are and then deleted, kopetepluginmanager.cpp:381) or whose unload
\* found them in the queue, and those whose library is broken.
EnabledIsLoaded ==
  (mode = "Running" /\ loadTimers = 0 /\ doomed = {}) =>
    \A p \in Plugins \ (Protocols \cup Broken \cup overtaken) :
      p \in enabled <=> p \in loadedPlugins

\* What is told to end does.  A protocol that is told to unload goes: its
\* accounts are awaited however they stand and however they end - unless an
\* account was added to or removed from it meanwhile, which the protocol does
\* not take into account.  And a shutdown that has begun gives back Kopete's
\* reference, whatever the accounts, the wizard and D-COP do.
UnloadingEnds ==
  /\ \A p \in Protocols :
       (p \in unloading /\ Alive) ~> (p \notin unloading \/ p \in disturbed \/ ~Alive)
  /\ mode = "ShuttingDown" ~> mode = "DoneShutdown"
=============================================================================
