------------------------------- MODULE KInetD -------------------------------
(***************************************************************************)
(* KInetD (krfb/kinetd): the daemon that listens on a port for every       *)
(* enabled service, advertises it by SLP and DNS-SD, disables it when its  *)
(* enabling expires, looks again for a port every 30 s when there was none *)
(* and renews the SLP registration before it lapses.                       *)
(*                                                                         *)
(* One unit of time is 30 s.  The daemon is single threaded: every DCOP    *)
(* call and every timer runs to its end.  A handler computes the new state *)
(* of a listener with operators on its record, named after the methods of  *)
(* PortListener; the two loops that bind ports for all listeners take a    *)
(* step per listener, so that other programs compete for the ports.        *)
(* Texts, URLs and the launch of the server are left out; what a listener  *)
(* does not use while it is not advertised is Null.                        *)
(***************************************************************************)
EXTENDS Integers

CONSTANTS
    Services,    \* the installed services
    Ports,       \* port numbers in play
    Registrable, \* services with a service URL, SLP being available
    Publishable, \* services with a DNS-SD name and type
    Base,        \* Base[s]: default port (desktop file)
    BaseRange,   \* BaseRange[s]: default number of ports to try, 0 if unset
    MaxRange,    \* bound: longest range of ports asked for
    Lifetime,    \* lifetime of an SLP registration, at least 120 s
    MaxTime      \* bound: the clock stops here

Null == -1       \* no port, no time, no timer

ASSUME KInetDAssumption ==
    /\ Ports \subseteq Nat \ {0}
    /\ Registrable \subseteq Services /\ Publishable \subseteq Services
    /\ MaxRange \in Nat \ {0} /\ Lifetime \in Nat /\ Lifetime >= 4 /\ MaxTime \in Nat
    /\ Base \in [Services -> Ports] /\ BaseRange \in [Services -> 0..MaxRange]

VARIABLES
    phase,       \* what the daemon does: "down", "load", "retry" or "idle"
    left,        \* listeners the loop of "load" or "retry" has still to visit
    listener,    \* listener[s]: the PortListener of s
    config,      \* config[s]: its entries in kinetdrc, which outlive the daemon
    taken,       \* the ports other programs listen on
    now,         \* the clock
    expiration,  \* m_expirationTimer: when it fires, Null if stopped
    portRetry,   \* m_portRetryTimer
    rereg        \* m_reregistrationTimer

loop == <<phase, left>>
timers == <<expiration, portRetry, rereg>>
vars == <<loop, listener, config, taken, now, timers>>

Times == 0..MaxTime
Range == 1..MaxRange

----------------------------------------------------------------------------
(* PortListener.                                                           *)

(* setServiceRegistrationEnabledInternal: register or unregister with SLP. *)
(* The registration carries the port of the moment.                        *)
Register(s, l, e) ==
    LET wish == l.enabled /\ e
        set  == [l EXCEPT !.registerService = e]
    IN  IF s \notin Registrable \/ l.serviceRegistered = wish THEN set
        ELSE IF wish
        THEN [set EXCEPT !.serviceRegistered = TRUE, !.slpPort = l.port,
                         !.slpLifetimeEnd = now + Lifetime - 1]
        ELSE [set EXCEPT !.serviceRegistered = FALSE, !.slpPort = Null,
                         !.slpLifetimeEnd = Null]

(* dnssdRegister: publish by DNS-SD. *)
Publish(s, l, e) ==
    IF s \notin Publishable \/ l.dnssdRegistered = e THEN l
    ELSE [l EXCEPT !.dnssdRegistered = e, !.dnssdPort = IF e THEN l.port ELSE Null]

(* The ports acquirePort can bind: a port is free if nobody else has it.   *)
Candidates(l) == {l.portBase} \cup l.portBase..(l.portBase + l.autoPortRange - 1)
Others(s) == {listener[u].port : u \in Services \ {s}}

Free(s, l) == {p \in Candidates(l) : p \in Ports \ (taken \cup Others(s))}
Lowest(S) == CHOOSE p \in S : \A q \in S : p <= q

InRangeOffByOne(l) == l.port \in l.portBase..(l.portBase + l.autoPortRange)
InRange(l) == l.port \in l.portBase..(l.portBase + l.autoPortRange - 1)

(* A bug: the listener is advertised anew without being withdrawn first. *)
acquirePortAdvertised(s, l) ==
    IF l.port # Null /\ InRange(l) THEN l
    ELSE IF Free(s, l) = {} THEN [l EXCEPT !.port = Null]
    ELSE LET bound == [l EXCEPT !.port = Lowest(Free(s, l))]
         IN  Publish(s, Register(s, bound, l.registerService), TRUE)

(* acquirePort: keep a port that is in the range, else bind the first free *)
(* one and advertise it anew.  Failing leaves the advertisements alone.    *)
acquirePort(s, l) ==
    IF l.port # Null /\ InRange(l) THEN l
    ELSE IF Free(s, l) = {} THEN [l EXCEPT !.port = Null]
    ELSE LET bound  == [l EXCEPT !.port = Lowest(Free(s, l))]
             hidden == Publish(s, Register(s, bound, FALSE), FALSE)
         IN  Publish(s, Register(s, hidden, l.registerService), TRUE)

(* freePort: called while m_enabled still has its old value. *)
freePort(s, l) ==
    LET closed == [l EXCEPT !.port = Null]
    IN  Publish(s, Register(s, closed, closed.registerService), FALSE)

(* setEnabledInternal, without the configuration. *)
setEnabledInternal(s, l, e, ex) ==
    LET timed  == [l EXCEPT !.expirationTime = ex]
        opened == IF timed.port = Null THEN acquirePort(s, timed) ELSE timed
    IN  IF e THEN [opened EXCEPT !.enabled = opened.port # Null]
        ELSE [freePort(s, timed) EXCEPT !.enabled = FALSE]

(* refreshRegistration, within 90 s of the end of the lifetime. *)
refreshRegistration(s, l) ==
    IF l.serviceRegistered /\ l.slpLifetimeEnd - 3 < now
    THEN Register(s, Register(s, l, FALSE), TRUE)
    ELSE l

(* loadConfig.  The entry for the registration is read under the name      *)
(* enabled_srvreg_, which nothing writes: it has the default, registered   *)
(* if there is a service URL.                                              *)
loadConfig(s, c) ==
    LET expired == c.expiration # Null /\ c.expiration < now
    IN  [ port |-> Null, portBase |-> c.portBase, autoPortRange |-> c.autoPortRange,
          enabled |-> c.enabled /\ ~expired, expirationTime |-> c.expiration,
          registerService |-> s \in Registrable, serviceRegistered |-> FALSE,
          slpPort |-> Null, slpLifetimeEnd |-> Null,
          dnssdRegistered |-> FALSE, dnssdPort |-> Null ]

(* A service without a listener: the daemon is down or has not loaded it. *)
Unloaded == [ port |-> Null, portBase |-> Null, autoPortRange |-> 0, enabled |-> FALSE,
              expirationTime |-> Null, registerService |-> FALSE,
              serviceRegistered |-> FALSE, slpPort |-> Null, slpLifetimeEnd |-> Null,
              dnssdRegistered |-> FALSE, dnssdPort |-> Null ]

----------------------------------------------------------------------------
(* KInetD: the timers, given the listeners ls after a handler.             *)

Earliest(S) == IF S = {} THEN Null ELSE Lowest(S)

(* getNextExpirationTime disables every listener whose time has passed, on *)
(* disk too, and setExpirationTimer waits for the next one, 30 s longer.   *)
Expired(ls) ==
    {s \in Services : ls[s].expirationTime # Null /\ ls[s].expirationTime < now}
DisableExpired(ls) ==
    [s \in Services |-> IF s \in Expired(ls)
                        THEN setEnabledInternal(s, ls[s], FALSE, Null) ELSE ls[s]]

(* A bug: an expiration that is due now is past. *)
NextExpirationAfter(ls) ==
    Earliest({ls[s].expirationTime : s \in {u \in Services : ls[u].expirationTime > now}})

NextExpiration(ls) ==
    Earliest({ls[s].expirationTime : s \in {u \in Services : ls[u].expirationTime >= now}})
ExpirationTimer(ls) ==
    IF NextExpiration(ls) = Null THEN Null ELSE NextExpiration(ls) + 1

(* setExpirationTimer. *)
Expire(ls, cfg) ==
    /\ listener' = DisableExpired(ls)
    /\ config' = [s \in Services |-> IF s \in Expired(ls)
                    THEN [cfg[s] EXCEPT !.enabled = FALSE, !.expiration = Null]
                    ELSE cfg[s]]
    /\ expiration' = ExpirationTimer(ls)

LifetimeEnds(ls) == {ls[s].slpLifetimeEnd : s \in {u \in Services : ls[u].serviceRegistered}}

(* A bug: renewals are 90 s apart. *)
ReregistrationTimerRare(ls) ==
    LET next == Earliest(LifetimeEnds(ls))
    IN  IF next = Null THEN Null
        ELSE IF next < now THEN now
        ELSE IF next < now + 3 THEN now + 3
        ELSE next

(* setReregistrationTimer: at the earliest end of a lifetime, at once if   *)
(* one has passed, but never within the next 30 s otherwise.               *)
ReregistrationTimer(ls) ==
    LET next == Earliest(LifetimeEnds(ls))
    IN  IF next = Null THEN Null
        ELSE IF next < now THEN now
        ELSE IF next < now + 1 THEN now + 1
        ELSE next

(* A bug: ports are only counted when they are retried. *)
PortRetryTimerOfRetry(ls) ==
    IF phase = "retry" /\ \E s \in Services : ls[s].enabled /\ ls[s].port = Null
    THEN now + 1 ELSE Null

(* setPortRetryTimer: every 30 s while an enabled service has no port. *)
PortRetryTimer(ls) ==
    IF \E s \in Services : ls[s].enabled /\ ls[s].port = Null THEN now + 1 ELSE Null

----------------------------------------------------------------------------
Configs == [ enabled : BOOLEAN, portBase : Ports, autoPortRange : 0..MaxRange,
             expiration : Times \cup {Null} ]

(* Nothing is configured: the defaults of the desktop files. *)
Init ==
    /\ phase = "down" /\ left = {}
    /\ listener = [s \in Services |-> Unloaded]
    /\ \E on \in [Services -> BOOLEAN] :
          config = [s \in Services |->
                      [ enabled |-> on[s], portBase |-> Base[s],
                        autoPortRange |-> BaseRange[s], expiration |-> Null ]]
    /\ taken \in SUBSET Ports
    /\ now = 0
    /\ expiration = Null /\ portRetry = Null /\ rereg = Null

(* The daemon starts: KInetD and loadServiceList construct the listeners.  *)
Start ==
    /\ phase = "down"
    /\ phase' = "load" /\ left' = Services
    /\ UNCHANGED <<listener, config, taken, now, timers>>

Load(s) ==
    /\ phase = "load" /\ s \in left
    /\ left' = left \ {s}
    /\ LET l == loadConfig(s, config[s])
       IN  listener' = [listener EXCEPT ![s] = IF l.enabled THEN acquirePort(s, l) ELSE l]
    /\ UNCHANGED <<phase, config, taken, now, timers>>

(* Then it sets the timers, which disables what has expired and retries    *)
(* for the listeners that got no port.                                     *)
Loaded ==
    /\ phase = "load" /\ left = {}
    /\ phase' = "retry" /\ left' = Services
    /\ Expire(listener, config)
    /\ UNCHANGED <<taken, now, portRetry, rereg>>

(* setPortRetryTimer(true) visits the listeners ... *)
Retry(s) ==
    /\ phase = "retry" /\ s \in left
    /\ left' = left \ {s}
    /\ listener' = IF listener[s].enabled /\ listener[s].port = Null
                   THEN [listener EXCEPT ![s] = acquirePort(s, @)] ELSE listener
    /\ UNCHANGED <<phase, config, taken, now, timers>>

(* ... and its callers set m_reregistrationTimer after it.                 *)
Retried ==
    /\ phase = "retry" /\ left = {}
    /\ phase' = "idle" /\ UNCHANGED left
    /\ portRetry' = PortRetryTimer(listener)
    /\ rereg' = ReregistrationTimer(listener)
    /\ UNCHANGED <<listener, config, taken, now, expiration>>

(* The session ends: ~PortListener unregisters, the sockets are closed and *)
(* the configuration stays.                                                *)
Stop ==
    /\ phase # "down"
    /\ phase' = "down" /\ left' = {}
    /\ listener' = [s \in Services |-> Unloaded]
    /\ expiration' = Null /\ portRetry' = Null /\ rereg' = Null
    /\ UNCHANGED <<config, taken, now>>

----------------------------------------------------------------------------
(* DCOP calls.                                                             *)

Idle == phase = "idle"

setEnabledCall(s, e, ex) ==
    /\ Idle
    /\ Expire([listener EXCEPT ![s] = setEnabledInternal(s, @, e, ex)],
              [config EXCEPT ![s].enabled = e, ![s].expiration = ex])
    /\ rereg' = ReregistrationTimer(listener')
    /\ UNCHANGED <<loop, taken, now, portRetry>>

setEnabled(s) == \E e \in BOOLEAN : setEnabledCall(s, e, Null)
setEnabledUntil(s) == \E ex \in Times : setEnabledCall(s, TRUE, ex)

(* The range setPort asks for: port = Null stands for the defaults. *)
rangeOf(s, l, port, range) ==
    IF port = Null THEN [l EXCEPT !.portBase = Base[s], !.autoPortRange = BaseRange[s]]
    ELSE [l EXCEPT !.portBase = port, !.autoPortRange = range]

(* setPort(port, range); what it returns is read by nobody here. *)
setPort(s, port, range) ==
    LET l == listener[s]
        same == port = l.portBase /\ range = l.autoPortRange
        moved == rangeOf(s, l, port, range)
        result == IF same THEN l
                  ELSE IF l.enabled THEN acquirePort(s, moved) ELSE moved
    IN  /\ Idle
        /\ listener' = [listener EXCEPT ![s] = result]
        /\ config' = [config EXCEPT ![s].portBase = result.portBase,
                                    ![s].autoPortRange = result.autoPortRange]
        /\ portRetry' = PortRetryTimer(listener')
        /\ rereg' = ReregistrationTimer(listener')
        /\ UNCHANGED <<loop, taken, now, expiration>>

(* The choice is written under the name enable_srvreg_, which nothing      *)
(* reads: loadConfig asks for enabled_srvreg_.                             *)
setServiceRegistrationEnabled(s, e) ==
    LET set == Register(s, listener[s], e)
    IN  /\ Idle
        /\ listener' = [listener EXCEPT ![s] = Publish(s, set, e /\ set.enabled)]
        /\ rereg' = ReregistrationTimer(listener')
        /\ UNCHANGED <<loop, config, taken, now, expiration, portRetry>>

----------------------------------------------------------------------------
(* Timers.                                                                 *)

Due(timer) == Idle /\ timer # Null /\ timer <= now

(* m_expirationTimer is connected to setExpirationTimer. *)
ExpirationFires ==
    /\ Due(expiration)
    /\ Expire(listener, config)
    /\ UNCHANGED <<loop, taken, now, portRetry, rereg>>

PortRetryFires ==
    /\ Due(portRetry)
    /\ phase' = "retry" /\ left' = Services
    /\ UNCHANGED <<listener, config, taken, now, timers>>

ReregistrationFires ==
    /\ Due(rereg)
    /\ listener' = [s \in Services |-> refreshRegistration(s, listener[s])]
    /\ rereg' = ReregistrationTimer(listener')
    /\ UNCHANGED <<loop, config, taken, now, expiration, portRetry>>

----------------------------------------------------------------------------
(* The world: time, which the event loop does not let run past a timer,    *)
(* and other programs.                                                     *)

Tick ==
    /\ now < MaxTime
    /\ phase \in {"idle", "down"}
    /\ \A timer \in {expiration, portRetry, rereg} : timer = Null \/ now < timer
    /\ now' = now + 1
    /\ UNCHANGED <<loop, listener, config, taken, timers>>

OtherProgram(p) ==
    /\ \/ p \in taken /\ taken' = taken \ {p}
       \/ /\ \A s \in Services : listener[s].port # p
          /\ p \notin taken /\ taken' = taken \cup {p}
    /\ UNCHANGED <<loop, listener, config, now, timers>>

Next ==
    \/ Start \/ Loaded \/ Retried \/ Stop
    \/ ExpirationFires \/ PortRetryFires \/ ReregistrationFires \/ Tick
    \/ \E p \in Ports : OtherProgram(p)
    \/ \E s \in Services :
          \/ Load(s) \/ Retry(s) \/ setEnabled(s) \/ setEnabledUntil(s)
          \/ \E port \in Ports \cup {Null}, range \in Range : setPort(s, port, range)
          \/ \E e \in BOOLEAN : setServiceRegistrationEnabled(s, e)

Spec == Init /\ [][Next]_vars

----------------------------------------------------------------------------
(* Types of the daemon's variables (kinetd.h). *)
Listeners ==
    [ port : Ports \cup {Null}, portBase : Ports \cup {Null}, autoPortRange : 0..MaxRange,
      enabled : BOOLEAN, expirationTime : Times \cup {Null}, registerService : BOOLEAN,
      serviceRegistered : BOOLEAN, slpPort : Ports \cup {Null}, slpLifetimeEnd : Nat \cup {Null},
      dnssdRegistered : BOOLEAN, dnssdPort : Ports \cup {Null} ]

TypeOK ==
    /\ phase \in {"down", "load", "retry", "idle"} /\ left \in SUBSET Services
    /\ listener \in [Services -> Listeners]
    /\ config \in [Services -> Configs]
    /\ taken \in SUBSET Ports
    /\ now \in Times
    /\ {expiration, portRetry, rereg} \subseteq Nat \cup {Null}

(* A service listens only while it is enabled, whether it was disabled by  *)
(* a call, by its expiration or by the configuration, and on a port of the *)
(* range that is configured for it, on disk too, whenever the range was    *)
(* changed; it shares the port with nobody.                                *)
ListensWhereConfigured ==
    \A s \in Services : listener[s].port # Null =>
        /\ listener[s].enabled
        /\ listener[s].port \in Candidates(config[s])
        /\ listener[s].port \notin taken \cup Others(s)

(* "If it didnt find one but is enabled it will start a timer that probes  *)
(* that port every 30s": an enabled service without a port is looked after *)
(* within the next 30 s, after whatever calls, timers and restarts.        *)
PortIsRetried ==
    phase = "idle" =>
        \A s \in Services : listener[s].enabled /\ listener[s].port = Null =>
            portRetry # Null /\ portRetry <= now + 1

(* A service enabled until some time does not stay enabled more than 30 s  *)
(* after it, with any number of services and across restarts.              *)
ExpiredIsDisabled ==
    phase = "idle" =>
        \A s \in Services : listener[s].enabled /\ listener[s].expirationTime # Null =>
            now <= listener[s].expirationTime + 1

(* The SLP registration of an enabled service is renewed before the server *)
(* drops it, 30 s after slpLifetimeEnd.                                    *)
RegistrationIsRenewed ==
    phase = "idle" =>
        \A s \in Services : listener[s].enabled /\ listener[s].serviceRegistered =>
            now <= listener[s].slpLifetimeEnd + 1

(* What is advertised for a listening service is the port it listens on,   *)
(* however often the port was lost, found again or moved.                  *)
AdvertisedPortIsOwn ==
    \A s \in Services : listener[s].port # Null =>
        /\ listener[s].serviceRegistered => listener[s].slpPort = listener[s].port
        /\ listener[s].dnssdRegistered => listener[s].dnssdPort = listener[s].port

(* A timer that fires is done with its work: its handler stops it or sets  *)
(* it for later.  The re-registration timer, which is set to 0 for a       *)
(* lifetime that has ended, never keeps the daemon spinning.               *)
TimersMoveOn ==
    LET renewed == [s \in Services |-> refreshRegistration(s, listener[s])]
    IN  /\ Due(expiration) => ExpirationTimer(listener) \notin 0..now
        /\ Due(rereg) => ReregistrationTimer(renewed) \notin 0..now
=============================================================================
