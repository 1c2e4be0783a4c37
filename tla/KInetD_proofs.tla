--------------------------- MODULE KInetD_proofs ---------------------------
(***************************************************************************)
(* Proofs about KInetD, for any services, ports, ranges, lifetimes and     *)
(* length of time.                                                         *)
(*                                                                         *)
(* The safety properties of the daemon follow from one inductive invariant,*)
(* DaemonInv.  Its first part, Sound, is about one listener; the methods   *)
(* of PortListener keep it, which the lemmas of the first section show     *)
(* once for every handler that calls them.  The second part ties the       *)
(* listeners to the configuration, the ports and the three timers.         *)
(***************************************************************************)
EXTENDS KInetD, TLAPS, WellFoundedInduction

USE KInetDAssumption DEF Null

(* What every method of PortListener keeps, in whatever order it is called: *)
(* a registration is of a service that can be registered, and it is fresh   *)
(* while the service is enabled.                                            *)
Fresh(s, l) ==
    /\ l \in Listeners
    /\ l.serviceRegistered => s \in Registrable /\ l.slpLifetimeEnd # Null
    /\ l.dnssdRegistered => s \in Publishable
    /\ l.enabled /\ l.serviceRegistered => now <= l.slpLifetimeEnd + 1

(* What is advertised is the port, if there is one. *)
Advertised(l) ==
    l.port # Null =>
        /\ l.serviceRegistered => l.slpPort = l.port
        /\ l.dnssdRegistered => l.dnssdPort = l.port

Coherent(s, l) == Fresh(s, l) /\ Advertised(l)

(* Two states of a listener that differ in what is advertised only. *)
SameButAdvertised(r, l) ==
    /\ r.port = l.port /\ r.portBase = l.portBase /\ r.autoPortRange = l.autoPortRange
    /\ r.enabled = l.enabled /\ r.expirationTime = l.expirationTime

(* What holds of a listener when the daemon has left its methods. *)
Sound(s, l) ==
    /\ Coherent(s, l)
    /\ l.port # Null => l.enabled /\ l.portBase # Null /\ l.port \in Candidates(l)

(* A listener agrees with its configuration once it is loaded. *)
Configured(s) ==
    listener[s].portBase # Null =>
        /\ listener[s].portBase = config[s].portBase
        /\ listener[s].autoPortRange = config[s].autoPortRange

(* Nobody shares a port. *)
Exclusive(s) == listener[s].port # Null => listener[s].port \notin taken \cup Others(s)

(* The listeners are loaded one by one. *)
IsLoaded(s) == phase \in {"retry", "idle"} \/ (phase = "load" /\ s \notin left)

(* While the daemon is down no service is enabled. *)
NothingLoaded == phase = "down" => \A s \in Services : ~listener[s].enabled

(* The timers: none has passed, and each comes early enough for those that *)
(* wait for it.                                                            *)
NonePassed == \A timer \in {expiration, rereg} : timer = Null \/ now <= timer
ExpirationInTime ==
    phase \in {"retry", "idle"} =>
        \A s \in Services : listener[s].expirationTime # Null =>
            expiration # Null /\ expiration <= listener[s].expirationTime + 1
RenewalInTime ==
    phase = "idle" =>
        \A s \in Services : listener[s].enabled /\ listener[s].serviceRegistered =>
            rereg # Null /\ rereg <= listener[s].slpLifetimeEnd + 1

DaemonInv ==
    /\ TypeOK
    /\ \A s \in Services : Sound(s, listener[s])
    /\ \A s \in Services : Configured(s)
    /\ \A s \in Services : Exclusive(s)
    /\ \A s \in Services : IsLoaded(s) => listener[s].portBase # Null
    /\ NothingLoaded
    /\ PortIsRetried
    /\ NonePassed
    /\ ExpirationInTime
    /\ RenewalInTime

----------------------------------------------------------------------------
(* Lowest, which the choice of a port and the timers use, is the least     *)
(* element of a set of numbers that is not empty.                          *)
Less == {pair \in Nat \X Nat : pair[1] < pair[2]}

LEMMA LowestIsLeast ==
  ASSUME NEW S \in SUBSET Nat, S # {}
  PROVE  Lowest(S) \in S /\ \A q \in S : Lowest(S) <= q
  <1>1. IsWellFoundedOn(Less, Nat)
    BY NatLessThanWellFounded DEF OpToRel, Less
  <1>2. PICK x \in S : \A y \in S : ~ (<<y, x>> \in Less)
    BY <1>1, WFMin, Zenon
  <1>3. \A y \in S : x <= y
    <2> TAKE y \in S
    <2>1. <<y, x>> \notin Less
      BY <1>2
    <2>2. ~ (y < x)
      BY <2>1 DEF Less
    <2> QED
      BY <2>2
  <1> QED
    BY <1>3 DEF Lowest

LEMMA EarliestIsLeast ==
  ASSUME NEW S \in SUBSET Nat
  PROVE  /\ S = {} => Earliest(S) = Null
         /\ S # {} => Earliest(S) \in S /\ \A q \in S : Earliest(S) <= q
  BY LowestIsLeast DEF Earliest

----------------------------------------------------------------------------
(* The methods of PortListener.                                            *)

(* Registering changes nothing else and leaves a fresh listener; what it   *)
(* registers has the port of the listener.                                 *)
LEMMA RegisterKeeps ==
  ASSUME NEW s \in Services, NEW l, Fresh(s, l), NEW e \in BOOLEAN, now \in Nat
  PROVE  LET r == Register(s, l, e)
         IN  /\ Fresh(s, r) /\ SameButAdvertised(r, l)
             /\ r.registerService = e
             /\ r.dnssdRegistered = l.dnssdRegistered /\ r.dnssdPort = l.dnssdPort
             /\ r.serviceRegistered =>
                   /\ l.enabled /\ e
                   /\ ~l.serviceRegistered =>
                         r.slpPort = l.port /\ now < r.slpLifetimeEnd
                   /\ l.serviceRegistered => r.slpPort = l.slpPort
  <1> DEFINE wish == l.enabled /\ e
             set == [l EXCEPT !.registerService = e]
             on == [set EXCEPT !.serviceRegistered = TRUE, !.slpPort = l.port,
                               !.slpLifetimeEnd = now + Lifetime - 1]
             off == [set EXCEPT !.serviceRegistered = FALSE, !.slpPort = Null,
                                !.slpLifetimeEnd = Null]
  <1>0. l \in Listeners
    BY DEF Fresh
  <1>1. CASE s \notin Registrable \/ l.serviceRegistered = wish
    <2>1. Register(s, l, e) = set
      BY <1>1 DEF Register
    <2>2. set \in Listeners
      BY <1>0 DEF Listeners
    <2> QED
      BY <1>0, <1>1, <2>1, <2>2 DEF Fresh, Listeners, SameButAdvertised
  <1>2. CASE s \in Registrable /\ l.serviceRegistered # wish /\ wish
    <2>0. /\ now + Lifetime - 1 \in Nat /\ now <= now + Lifetime - 1 + 1
          /\ now < now + Lifetime - 1
      OBVIOUS
    <2>1. Register(s, l, e) = on
      BY <1>2 DEF Register
    <2>2. on \in Listeners
      BY <1>0, <2>0 DEF Listeners
    <2>3. /\ SameButAdvertised(on, l) /\ on.registerService = e
          /\ on.dnssdRegistered = l.dnssdRegistered /\ on.dnssdPort = l.dnssdPort
          /\ on.slpPort = l.port
      BY <1>0 DEF Listeners, SameButAdvertised
    <2>4. on.slpLifetimeEnd = now + Lifetime - 1
      BY <1>0 DEF Listeners
    <2>5. l.enabled /\ e /\ ~l.serviceRegistered
      BY <1>0, <1>2 DEF Listeners
    <2> HIDE DEF on
    <2>6. Fresh(s, on)
      BY <1>2, <2>0, <2>2, <2>3, <2>4 DEF Fresh
    <2> QED
      BY <2>0, <2>1, <2>3, <2>4, <2>5, <2>6
  <1>3. CASE s \in Registrable /\ l.serviceRegistered # wish /\ ~wish
    <2>1. Register(s, l, e) = off
      BY <1>3 DEF Register
    <2>2. off \in Listeners
      BY <1>0 DEF Listeners
    <2> QED
      BY <1>0, <1>3, <2>1, <2>2 DEF Fresh, Listeners, SameButAdvertised
  <1> QED
    BY <1>1, <1>2, <1>3

(* So does publishing. *)
LEMMA PublishKeeps ==
  ASSUME NEW s \in Services, NEW l, Fresh(s, l), NEW e \in BOOLEAN
  PROVE  LET r == Publish(s, l, e)
         IN  /\ Fresh(s, r) /\ SameButAdvertised(r, l)
             /\ r.registerService = l.registerService
             /\ r.serviceRegistered = l.serviceRegistered /\ r.slpPort = l.slpPort
             /\ r.slpLifetimeEnd = l.slpLifetimeEnd
             /\ r.dnssdRegistered =>
                   /\ e
                   /\ ~l.dnssdRegistered => r.dnssdPort = l.port
                   /\ l.dnssdRegistered => r.dnssdPort = l.dnssdPort
  <1>0. l \in Listeners
    BY DEF Fresh
  <1>1. CASE s \notin Publishable \/ l.dnssdRegistered = e
    BY <1>0, <1>1 DEF Publish, Fresh, Listeners, SameButAdvertised
  <1>2. CASE ~(s \notin Publishable \/ l.dnssdRegistered = e)
    <2> DEFINE p == IF e THEN l.port ELSE Null
               r == [l EXCEPT !.dnssdRegistered = e, !.dnssdPort = p]
    <2>1. Publish(s, l, e) = r
      BY <1>2 DEF Publish
    <2>2. p \in Ports \cup {Null}
      BY <1>0 DEF Listeners
    <2>3. r \in Listeners
      BY <1>0, <2>2 DEF Listeners
    <2> QED
      BY <1>0, <1>2, <2>1, <2>3 DEF Fresh, Listeners, SameButAdvertised
  <1> QED
    BY <1>1, <1>2

(* acquirePort keeps the listener coherent.  It ends with the port it had, *)
(* with a free one of the range, or with none; what it registers is        *)
(* enabled if it had no port before.                                       *)
LEMMA AcquireKeeps ==
  ASSUME NEW s \in Services, NEW l, Coherent(s, l), now \in Nat, l.portBase # Null
  PROVE  LET r == acquirePort(s, l)
         IN  /\ Coherent(s, r)
             /\ r.portBase = l.portBase /\ r.autoPortRange = l.autoPortRange
             /\ r.enabled = l.enabled /\ r.expirationTime = l.expirationTime
             /\ r.port # Null =>
                   /\ r.port \in Candidates(r)
                   /\ r.port = l.port \/ r.port \in Free(s, l)
             /\ l.port = Null /\ r.port # Null /\ r.serviceRegistered => l.enabled
  <1> DEFINE r == acquirePort(s, l)
  <1>0. l \in Listeners
    BY DEF Coherent, Fresh
  <1>1. CASE l.port # Null /\ InRange(l)
    <2>1. r = l
      BY <1>1 DEF acquirePort
    <2> QED
      BY <1>1, <2>1, <1>0 DEF InRange, Candidates
  <1>2. CASE ~(l.port # Null /\ InRange(l)) /\ Free(s, l) = {}
    <2> DEFINE n == [l EXCEPT !.port = Null]
    <2>1. r = n
      BY <1>2 DEF acquirePort
    <2>2. n \in Listeners
      BY <1>0 DEF Listeners
    <2>3. /\ n.port = Null /\ n.portBase = l.portBase
          /\ n.autoPortRange = l.autoPortRange /\ n.enabled = l.enabled
          /\ n.expirationTime = l.expirationTime
          /\ n.serviceRegistered = l.serviceRegistered
          /\ n.slpLifetimeEnd = l.slpLifetimeEnd
          /\ n.dnssdRegistered = l.dnssdRegistered
      BY <1>0 DEF Listeners
    <2> HIDE DEF n
    <2> QED
      BY <2>1, <2>2, <2>3 DEF Coherent, Fresh, Advertised
  <1>3. CASE ~(l.port # Null /\ InRange(l)) /\ Free(s, l) # {}
    <2> DEFINE p == Lowest(Free(s, l))
               b == [l EXCEPT !.port = p]
               u == Register(s, b, FALSE)
               h == Publish(s, u, FALSE)
               g == Register(s, h, l.registerService)
               w == Publish(s, g, TRUE)
    <2>1. r = w
      BY <1>3 DEF acquirePort
    <2>2. p \in Free(s, l) /\ p \in Ports /\ p \in Candidates(l)
      <3>1. Free(s, l) \in SUBSET Nat
        BY DEF Free
      <3> QED
        BY <1>3, <3>1, LowestIsLeast DEF Free
    <2>3. /\ b \in Listeners /\ b.port = p /\ b.portBase = l.portBase
          /\ b.autoPortRange = l.autoPortRange /\ b.enabled = l.enabled
          /\ b.expirationTime = l.expirationTime
          /\ b.serviceRegistered = l.serviceRegistered
          /\ b.slpLifetimeEnd = l.slpLifetimeEnd
          /\ b.dnssdRegistered = l.dnssdRegistered
      BY <1>0, <2>2 DEF Listeners
    <2>4. Fresh(s, b)
      BY <2>3 DEF Coherent, Fresh
    <2> HIDE DEF b, p
    <2>5. Fresh(s, u) /\ SameButAdvertised(u, b) /\ ~u.serviceRegistered
      BY <2>4, RegisterKeeps
    <2> HIDE DEF u
    <2>6. /\ Fresh(s, h) /\ SameButAdvertised(h, u)
          /\ h.serviceRegistered = u.serviceRegistered /\ ~h.dnssdRegistered
      BY <2>5, PublishKeeps
    <2> HIDE DEF h
    <2>7. /\ Fresh(s, g) /\ SameButAdvertised(g, h)
          /\ g.serviceRegistered => h.enabled /\ g.slpPort = h.port
          /\ g.dnssdRegistered = h.dnssdRegistered
      <3>1. l.registerService \in BOOLEAN
        BY <1>0 DEF Listeners
      <3> QED
        BY <2>5, <2>6, <3>1, RegisterKeeps
    <2> HIDE DEF g
    <2>8. /\ Fresh(s, w) /\ SameButAdvertised(w, g)
          /\ w.serviceRegistered = g.serviceRegistered /\ w.slpPort = g.slpPort
          /\ w.dnssdRegistered => w.dnssdPort = g.port
      <3>1. ~g.dnssdRegistered
        BY <2>6, <2>7
      <3> QED
        BY <2>7, <3>1, PublishKeeps
    <2> HIDE DEF w
    <2>9. /\ w.port = p /\ w.portBase = l.portBase
          /\ w.autoPortRange = l.autoPortRange
          /\ w.enabled = l.enabled /\ w.expirationTime = l.expirationTime
      BY <2>3, <2>5, <2>6, <2>7, <2>8 DEF SameButAdvertised
    <2>10. Coherent(s, w) /\ (w.serviceRegistered => l.enabled)
      BY <2>3, <2>5, <2>6, <2>7, <2>8 DEF Coherent, Advertised, SameButAdvertised
    <2> QED
      BY <2>1, <2>2, <2>9, <2>10 DEF Candidates
  <1> QED
    BY <1>1, <1>2, <1>3

(* freePort closes the socket and keeps the listener coherent. *)
LEMMA FreeKeeps ==
  ASSUME NEW s \in Services, NEW l, Coherent(s, l), now \in Nat
  PROVE  LET r == freePort(s, l)
         IN  /\ Coherent(s, r) /\ r.port = Null
             /\ r.portBase = l.portBase /\ r.autoPortRange = l.autoPortRange
             /\ r.expirationTime = l.expirationTime
  <1> DEFINE c == [l EXCEPT !.port = Null]
             u == Register(s, c, c.registerService)
             w == Publish(s, u, FALSE)
  <1>1. freePort(s, l) = w
    BY DEF freePort
  <1>2. l \in Listeners
    BY DEF Coherent, Fresh
  <1>3. /\ c \in Listeners /\ c.port = Null /\ c.portBase = l.portBase
        /\ c.autoPortRange = l.autoPortRange /\ c.enabled = l.enabled
        /\ c.expirationTime = l.expirationTime
        /\ c.serviceRegistered = l.serviceRegistered
        /\ c.slpLifetimeEnd = l.slpLifetimeEnd
        /\ c.dnssdRegistered = l.dnssdRegistered /\ c.registerService \in BOOLEAN
    BY <1>2 DEF Listeners
  <1> HIDE DEF c
  <1>4. Fresh(s, c)
    BY <1>3 DEF Coherent, Fresh
  <1>5. Fresh(s, u) /\ SameButAdvertised(u, c)
    BY <1>3, <1>4, RegisterKeeps
  <1> HIDE DEF u
  <1>6. Fresh(s, w) /\ SameButAdvertised(w, u)
    BY <1>5, PublishKeeps
  <1> HIDE DEF w
  <1> QED
    BY <1>1, <1>3, <1>5, <1>6 DEF SameButAdvertised, Coherent, Advertised

(* setEnabledInternal leaves a sound listener: enabled only with a port,   *)
(* which is the one it had or a free one.                                  *)
LEMMA EnableKeeps ==
  ASSUME NEW s \in Services, NEW l, Sound(s, l), l.portBase # Null, now \in Nat,
         NEW e \in BOOLEAN, NEW ex \in Times \cup {Null}
  PROVE  LET r == setEnabledInternal(s, l, e, ex)
         IN  /\ Sound(s, r)
             /\ r.portBase = l.portBase /\ r.autoPortRange = l.autoPortRange
             /\ r.expirationTime = ex
             /\ r.enabled => e /\ r.port # Null
             /\ r.port # Null => r.port = l.port \/ r.port \in Free(s, l)
  <1> DEFINE t == [l EXCEPT !.expirationTime = ex]
             o == IF t.port = Null THEN acquirePort(s, t) ELSE t
             f == freePort(s, t)
             r == setEnabledInternal(s, l, e, ex)
  <1>1. l \in Listeners
    BY DEF Sound, Coherent, Fresh
  <1>2. /\ t \in Listeners /\ t.expirationTime = ex /\ t.port = l.port
        /\ t.portBase = l.portBase /\ t.autoPortRange = l.autoPortRange
        /\ t.enabled = l.enabled /\ t.serviceRegistered = l.serviceRegistered
        /\ t.slpLifetimeEnd = l.slpLifetimeEnd /\ t.slpPort = l.slpPort
        /\ t.dnssdRegistered = l.dnssdRegistered /\ t.dnssdPort = l.dnssdPort
    BY <1>1 DEF Listeners
  <1>3. r = IF e THEN [o EXCEPT !.enabled = o.port # Null]
            ELSE [f EXCEPT !.enabled = FALSE]
    BY DEF setEnabledInternal
  <1> HIDE DEF t, r
  <1>4. Coherent(s, t)
    BY <1>2 DEF Sound, Coherent, Fresh, Advertised
  <1>5. CASE e
    <2> DEFINE n == [o EXCEPT !.enabled = o.port # Null]
    <2>1. /\ Coherent(s, o) /\ o.portBase = l.portBase
          /\ o.autoPortRange = l.autoPortRange /\ o.expirationTime = ex
          /\ o.port # Null => /\ o.port \in Candidates(l)
                              /\ o.port = l.port \/ o.port \in Free(s, l)
                              /\ o.serviceRegistered => o.enabled
      <3>1. CASE t.port = Null
        <4> DEFINE a == acquirePort(s, t)
        <4>1. /\ Coherent(s, a)
              /\ a.portBase = t.portBase /\ a.autoPortRange = t.autoPortRange
              /\ a.enabled = t.enabled /\ a.expirationTime = t.expirationTime
              /\ a.port # Null =>
                    /\ a.port \in Candidates(a)
                    /\ a.port = t.port \/ a.port \in Free(s, t)
              /\ t.port = Null /\ a.port # Null /\ a.serviceRegistered => t.enabled
          BY <1>2, <1>4, AcquireKeeps
        <4>2. o = a
          BY <3>1
        <4> HIDE DEF a, o
        <4> QED
          BY <1>2, <3>1, <4>1, <4>2 DEF Candidates, Free
      <3>2. CASE t.port # Null
        <4>1. o = t
          BY <3>2
        <4> HIDE DEF o
        <4> QED
          BY <1>2, <1>4, <3>2, <4>1 DEF Sound, Candidates
      <3> QED
        BY <3>1, <3>2
    <2> HIDE DEF o
    <2>2. o \in Listeners
      BY <2>1 DEF Coherent, Fresh
    <2>3. /\ n \in Listeners /\ n.expirationTime = o.expirationTime /\ n.port = o.port
          /\ n.portBase = o.portBase /\ n.autoPortRange = o.autoPortRange
          /\ n.enabled = (o.port # Null) /\ n.serviceRegistered = o.serviceRegistered
          /\ n.slpLifetimeEnd = o.slpLifetimeEnd /\ n.slpPort = o.slpPort
          /\ n.dnssdRegistered = o.dnssdRegistered /\ n.dnssdPort = o.dnssdPort
      BY <2>2 DEF Listeners
    <2>4. r = n
      BY <1>3, <1>5
    <2> HIDE DEF n
    <2>5. Coherent(s, n)
      BY <2>1, <2>3 DEF Coherent, Fresh, Advertised
    <2>6. Sound(s, n)
      BY <2>1, <2>3, <2>5 DEF Sound, Candidates
    <2> QED
      BY <1>5, <2>1, <2>3, <2>4, <2>6 DEF r
  <1>6. CASE ~e
    <2> DEFINE n == [f EXCEPT !.enabled = FALSE]
    <2>1. /\ Coherent(s, f) /\ f.port = Null
          /\ f.portBase = t.portBase /\ f.autoPortRange = t.autoPortRange
          /\ f.expirationTime = t.expirationTime
      BY <1>4, FreeKeeps
    <2> HIDE DEF f
    <2>2. f \in Listeners
      BY <2>1 DEF Coherent, Fresh
    <2>3. /\ n \in Listeners /\ n.expirationTime = f.expirationTime /\ n.port = Null
          /\ n.portBase = f.portBase /\ n.autoPortRange = f.autoPortRange
          /\ ~n.enabled /\ n.serviceRegistered = f.serviceRegistered
          /\ n.slpLifetimeEnd = f.slpLifetimeEnd
          /\ n.dnssdRegistered = f.dnssdRegistered
      BY <2>1, <2>2 DEF Listeners
    <2>4. r = n
      BY <1>3, <1>6
    <2> HIDE DEF n
    <2>5. Sound(s, n)
      BY <2>1, <2>3 DEF Sound, Coherent, Fresh, Advertised
    <2> QED
      BY <1>2, <2>1, <2>3, <2>4, <2>5 DEF r
  <1> QED
    BY <1>5, <1>6

(* Renewing a registration keeps everything but what is advertised. *)
LEMMA RefreshKeeps ==
  ASSUME NEW s \in Services, NEW l, Sound(s, l), now \in Nat
  PROVE  LET r == refreshRegistration(s, l)
         IN  /\ Sound(s, r) /\ SameButAdvertised(r, l)
             /\ r.serviceRegistered => now < r.slpLifetimeEnd
  <1> DEFINE u == Register(s, l, FALSE)
             w == Register(s, u, TRUE)
  <1>1. CASE l.serviceRegistered /\ l.slpLifetimeEnd - 3 < now
    <2>1. refreshRegistration(s, l) = w
      BY <1>1 DEF refreshRegistration
    <2>2. /\ Fresh(s, u) /\ SameButAdvertised(u, l) /\ ~u.serviceRegistered
          /\ u.dnssdRegistered = l.dnssdRegistered /\ u.dnssdPort = l.dnssdPort
      BY RegisterKeeps DEF Sound, Coherent
    <2> HIDE DEF u
    <2>3. /\ Fresh(s, w) /\ SameButAdvertised(w, u)
          /\ w.serviceRegistered => w.slpPort = u.port /\ now < w.slpLifetimeEnd
          /\ w.dnssdRegistered = u.dnssdRegistered /\ w.dnssdPort = u.dnssdPort
      BY <2>2, RegisterKeeps
    <2> HIDE DEF w
    <2> QED
      BY <2>1, <2>2, <2>3 DEF Sound, Coherent, Advertised, SameButAdvertised, Candidates
  <1>2. CASE ~(l.serviceRegistered /\ l.slpLifetimeEnd - 3 < now)
    <2>1. refreshRegistration(s, l) = l
      BY <1>2 DEF refreshRegistration
    <2>2. l.serviceRegistered => l.slpLifetimeEnd \in Nat
      BY DEF Sound, Coherent, Fresh, Listeners
    <2>3. l.serviceRegistered => now < l.slpLifetimeEnd
      BY <1>2, <2>2
    <2> QED
      BY <2>1, <2>3 DEF SameButAdvertised
  <1> QED
    BY <1>1, <1>2

(* So does switching the registration on or off. *)
LEMMA RegistrationKeeps ==
  ASSUME NEW s \in Services, NEW l, Sound(s, l), NEW e \in BOOLEAN, now \in Nat
  PROVE  LET u == Register(s, l, e)
             w == Publish(s, u, e /\ u.enabled)
         IN  Sound(s, w) /\ SameButAdvertised(w, l)
  <1> DEFINE u == Register(s, l, e)
             w == Publish(s, u, e /\ u.enabled)
  <1>1. /\ Fresh(s, u) /\ SameButAdvertised(u, l)
        /\ u.dnssdRegistered = l.dnssdRegistered /\ u.dnssdPort = l.dnssdPort
        /\ u.serviceRegistered =>
              /\ ~l.serviceRegistered => u.slpPort = l.port
              /\ l.serviceRegistered => u.slpPort = l.slpPort
    BY RegisterKeeps DEF Sound, Coherent
  <1> HIDE DEF u
  <1>2. (e /\ u.enabled) \in BOOLEAN
    OBVIOUS
  <1>3. /\ Fresh(s, w) /\ SameButAdvertised(w, u)
        /\ w.serviceRegistered = u.serviceRegistered /\ w.slpPort = u.slpPort
        /\ w.dnssdRegistered =>
              /\ ~u.dnssdRegistered => w.dnssdPort = u.port
              /\ u.dnssdRegistered => w.dnssdPort = u.dnssdPort
    BY <1>1, <1>2, PublishKeeps
  <1> HIDE DEF w
  <1>4. Coherent(s, w)
    BY <1>1, <1>3 DEF Sound, Coherent, Advertised, SameButAdvertised
  <1>5. Sound(s, w) /\ SameButAdvertised(w, l)
    BY <1>1, <1>3, <1>4 DEF Sound, SameButAdvertised, Candidates
  <1> QED
    BY <1>5 DEF u, w

----------------------------------------------------------------------------
(* The timers.                                                             *)

(* setExpirationTimer disables whatever has expired, touches no other      *)
(* listener and wakes up in time for each of them.                         *)
LEMMA ExpireKeeps ==
  ASSUME NEW ls \in [Services -> Listeners], NEW cfg \in [Services -> Configs],
         \A s \in Services : Sound(s, ls[s]) /\ ls[s].portBase # Null,
         now \in Nat, Expire(ls, cfg)
  PROVE  /\ listener' \in [Services -> Listeners] /\ config' \in [Services -> Configs]
         /\ \A s \in Services :
               /\ Sound(s, listener'[s])
               /\ \/ listener'[s] = ls[s]
                  \/ ~listener'[s].enabled /\ listener'[s].port = Null
               /\ listener'[s].portBase = ls[s].portBase
               /\ listener'[s].autoPortRange = ls[s].autoPortRange
               /\ config'[s].portBase = cfg[s].portBase
               /\ config'[s].autoPortRange = cfg[s].autoPortRange
               /\ listener'[s].expirationTime # Null =>
                     expiration' # Null /\ expiration' <= listener'[s].expirationTime + 1
         /\ expiration' \in Nat \cup {Null} /\ (expiration' = Null \/ now < expiration')
  <1> DEFINE off(s) == setEnabledInternal(s, ls[s], FALSE, Null)
             Waiting == {u \in Services : ls[u].expirationTime >= now}
             Times1 == {ls[s].expirationTime : s \in Waiting}
  <1>1. \A s \in Services : /\ ls[s].expirationTime \in Nat \cup {Null}
                            /\ ls[s].expirationTime \in Times \cup {Null}
    <2> TAKE s \in Services
    <2>1. ls[s] \in Listeners
      OBVIOUS
    <2> QED
      BY <2>1 DEF Listeners, Times
  <1>2. \A s \in Services :
           /\ Sound(s, off(s)) /\ off(s).portBase = ls[s].portBase
           /\ off(s).autoPortRange = ls[s].autoPortRange
           /\ off(s).expirationTime = Null /\ ~off(s).enabled /\ off(s).port = Null
    <2> TAKE s \in Services
    <2>1. /\ Sound(s, off(s)) /\ off(s).portBase = ls[s].portBase
          /\ off(s).autoPortRange = ls[s].autoPortRange
          /\ off(s).expirationTime = Null /\ ~off(s).enabled
      <3> DEFINE l == ls[s]
                 no == FALSE
                 r == setEnabledInternal(s, l, no, Null)
      <3>1. /\ Sound(s, l) /\ l.portBase # Null
            /\ no \in BOOLEAN /\ Null \in Times \cup {Null}
        OBVIOUS
      <3> HIDE DEF Null, l, no
      <3>2. /\ Sound(s, r) /\ r.portBase = l.portBase
            /\ r.autoPortRange = l.autoPortRange
            /\ r.expirationTime = Null /\ (r.enabled => no)
        BY <3>1, EnableKeeps
      <3> QED
        BY <3>2 DEF no, l
    <2> QED
      BY <2>1 DEF Sound
  <1> HIDE DEF off
  <1>3. /\ listener' = [s \in Services |-> IF s \in Expired(ls) THEN off(s) ELSE ls[s]]
        /\ expiration' = IF Earliest(Times1) = Null THEN Null ELSE Earliest(Times1) + 1
    BY DEF Expire, DisableExpired, ExpirationTimer, NextExpiration, off
  <1>4. Times1 \in SUBSET Nat /\ \A x \in Times1 : now <= x
    BY <1>1
  <1>5. \A s \in Services : s \notin Expired(ls) /\ ls[s].expirationTime # Null
                            => ls[s].expirationTime \in Times1
    BY <1>1 DEF Expired
  <1> HIDE DEF Times1
  <1>6. /\ expiration' \in Nat \cup {Null} /\ (expiration' = Null \/ now < expiration')
        /\ \A x \in Times1 : expiration' # Null /\ expiration' <= x + 1
    <2> DEFINE E == Earliest(Times1)
    <2>1. /\ Times1 = {} => E = Null
          /\ Times1 # {} => E \in Times1 /\ \A q \in Times1 : E <= q
      BY <1>4, EarliestIsLeast
    <2>2. expiration' = IF E = Null THEN Null ELSE E + 1
      BY <1>3
    <2> HIDE DEF E
    <2>3. CASE Times1 = {}
      BY <2>1, <2>2, <2>3
    <2>4. CASE Times1 # {}
      <3>1. E \in Nat /\ now <= E
        BY <1>4, <2>1, <2>4
      <3>2. expiration' = E + 1
        BY <2>2, <3>1
      <3>3. \A x \in Times1 : x \in Nat /\ E <= x
        BY <1>4, <2>1, <2>4
      <3> QED
        BY <3>1, <3>2, <3>3
    <2> QED
      BY <2>3, <2>4
  <1>7. \A s \in Services :
               /\ Sound(s, listener'[s])
               /\ \/ listener'[s] = ls[s]
                  \/ ~listener'[s].enabled /\ listener'[s].port = Null
               /\ listener'[s].portBase = ls[s].portBase
               /\ listener'[s].autoPortRange = ls[s].autoPortRange
               /\ listener'[s].expirationTime # Null =>
                     expiration' # Null /\ expiration' <= listener'[s].expirationTime + 1
    <2> TAKE s \in Services
    <2>1. CASE s \in Expired(ls)
      BY <1>2, <1>3, <2>1
    <2>2. CASE s \notin Expired(ls)
      BY <1>3, <1>5, <1>6, <2>2
    <2> QED
      BY <2>1, <2>2
  <1>8. listener' \in [Services -> Listeners]
    BY <1>3, <1>7 DEF Sound, Coherent, Fresh
  <1>9. /\ config' \in [Services -> Configs]
        /\ \A s \in Services : /\ config'[s].portBase = cfg[s].portBase
                               /\ config'[s].autoPortRange = cfg[s].autoPortRange
    BY DEF Expire, Configs
  <1> QED
    BY <1>6, <1>7, <1>8, <1>9

(* setReregistrationTimer wakes up in time for every registration.         *)
LEMMA RenewalTimer ==
  ASSUME NEW ls \in [Services -> Listeners], \A s \in Services : Sound(s, ls[s]),
         now \in Nat
  PROVE  LET timer == ReregistrationTimer(ls)
         IN  /\ timer \in Nat \cup {Null} /\ (timer = Null \/ now <= timer)
             /\ \A s \in Services : ls[s].enabled /\ ls[s].serviceRegistered =>
                   timer # Null /\ timer <= ls[s].slpLifetimeEnd + 1
  <1> DEFINE ends == LifetimeEnds(ls)
  <1>1. ends \in SUBSET Nat
    BY DEF LifetimeEnds, Sound, Coherent, Fresh, Listeners
  <1>2. \A s \in Services : ls[s].serviceRegistered => ls[s].slpLifetimeEnd \in ends
    BY DEF LifetimeEnds
  <1>3. \A s \in Services : ls[s].enabled /\ ls[s].serviceRegistered
                            => now <= ls[s].slpLifetimeEnd + 1
    BY DEF Sound, Coherent, Fresh
  <1> HIDE DEF ends
  <1> DEFINE E == Earliest(ends)
             timer == ReregistrationTimer(ls)
  <1>4. /\ ends = {} => E = Null
        /\ ends # {} => E \in ends /\ \A q \in ends : E <= q
    BY <1>1, EarliestIsLeast
  <1>5. timer = IF E = Null THEN Null
                ELSE IF E < now THEN now
                ELSE IF E < now + 1 THEN now + 1
                ELSE E
    BY DEF ReregistrationTimer, ends
  <1> HIDE DEF E
  <1>6. CASE ends = {}
    BY <1>2, <1>4, <1>5, <1>6
  <1>7. CASE ends # {}
    <2>0. E \in Nat
      BY <1>1, <1>4, <1>7
    <2>1. E \in Nat /\ timer \in Nat /\ now <= timer
      BY <1>5, <2>0
    <2>2. ASSUME NEW s \in Services, ls[s].enabled, ls[s].serviceRegistered
          PROVE  timer <= ls[s].slpLifetimeEnd + 1
      <3> DEFINE end == ls[s].slpLifetimeEnd
      <3>1. end \in Nat /\ E <= end /\ now <= end + 1
        BY <1>1, <1>2, <1>3, <1>4, <1>7, <2>2
      <3> HIDE DEF end
      <3>2. timer <= end + 1
        BY <1>5, <2>1, <3>1
      <3> QED
        BY <3>2 DEF end
    <2> HIDE DEF timer
    <2>3. /\ timer \in Nat \cup {Null} /\ (timer = Null \/ now <= timer)
          /\ \A s \in Services : ls[s].enabled /\ ls[s].serviceRegistered =>
                timer # Null /\ timer <= ls[s].slpLifetimeEnd + 1
      BY <2>1, <2>2
    <2> QED
      BY <2>3 DEF timer
  <1> QED
    BY <1>6, <1>7

----------------------------------------------------------------------------
(* The steps of the daemon.                                                *)

(* Sound speaks of a listener and of the clock only. *)
LEMMA SoundPrime ==
  ASSUME now' = now, \A s \in Services : Sound(s, listener'[s])
  PROVE  \A s \in Services : Sound(s, listener[s])'
  BY DEF Sound, Coherent, Fresh, Advertised, Candidates

(* A listener that takes a free port, while others at most give theirs up, *)
(* shares it with nobody.                                                  *)
LEMMA ExclusiveKept ==
  ASSUME taken' = taken, \A u \in Services : Exclusive(u), NEW s \in Services,
         \A u \in Services \ {s} : listener'[u].port \in {Null, listener[u].port},
         \/ listener'[s].port \in {Null, listener[s].port}
         \/ listener'[s].port \notin taken \cup Others(s)
  PROVE  \A u \in Services : Exclusive(u)'
  <1> SUFFICES ASSUME NEW u \in Services, listener'[u].port # Null
               PROVE  /\ listener'[u].port \notin taken
                      /\ \A v \in Services \ {u} : listener'[v].port # listener'[u].port
    BY DEF Exclusive, Others
  <1>1. \A v \in Services : listener[v].port # Null =>
           /\ listener[v].port \notin taken
           /\ \A w \in Services \ {v} : listener[w].port # listener[v].port
    BY DEF Exclusive, Others
  <1>2. listener'[s].port \in {Null, listener[s].port}
        \/ /\ listener'[s].port \notin taken
           /\ \A w \in Services \ {s} : listener[w].port # listener'[s].port
    BY DEF Others
  <1> QED
    BY <1>1, <1>2

(* A service without a listener is sound. *)
LEMMA UnloadedIsSound ==
  /\ Unloaded \in Listeners /\ Unloaded.port = Null /\ Unloaded.portBase = Null
  /\ ~Unloaded.enabled /\ Unloaded.expirationTime = Null
  /\ \A s \in Services : Sound(s, Unloaded)
  <1>1. /\ Unloaded \in Listeners /\ Unloaded.port = Null /\ Unloaded.portBase = Null
        /\ ~Unloaded.enabled /\ Unloaded.expirationTime = Null
        /\ ~Unloaded.serviceRegistered /\ ~Unloaded.dnssdRegistered
    BY DEF Unloaded, Listeners, Times
  <1> QED
    BY <1>1 DEF Sound, Coherent, Fresh, Advertised

(* The daemon starts in a state of the invariant: nothing is loaded. *)
LEMMA InitDaemon == Init => DaemonInv
  <1> SUFFICES ASSUME Init PROVE DaemonInv
    OBVIOUS
  <1>1. Unloaded \in Listeners /\ Unloaded.port = Null /\ Unloaded.portBase = Null
    BY UnloadedIsSound
  <1>2. listener \in [Services -> Listeners] /\ \A s \in Services : listener[s] = Unloaded
    BY <1>1 DEF Init
  <1>3. config \in [Services -> Configs]
    <2>1. PICK on \in [Services -> BOOLEAN] :
             config = [s \in Services |->
                        [ enabled |-> on[s], portBase |-> Base[s],
                          autoPortRange |-> BaseRange[s], expiration |-> Null ]]
      BY DEF Init
    <2>2. \A s \in Services : /\ on[s] \in BOOLEAN /\ Base[s] \in Ports
                              /\ BaseRange[s] \in 0..MaxRange
      OBVIOUS
    <2> QED
      BY <2>1, <2>2 DEF Configs
  <1>4. TypeOK
    BY <1>2, <1>3 DEF Init, TypeOK, Times
  <1>5. \A s \in Services : Sound(s, listener[s]) /\ Configured(s) /\ Exclusive(s)
    BY <1>1, <1>2, UnloadedIsSound DEF Configured, Exclusive
  <1>6. (\A s \in Services : IsLoaded(s) => listener[s].portBase # Null) /\ PortIsRetried
        /\ NonePassed /\ ExpirationInTime /\ RenewalInTime /\ NothingLoaded
    BY <1>2, UnloadedIsSound
       DEF Init, IsLoaded, PortIsRetried, NonePassed, ExpirationInTime, RenewalInTime, NothingLoaded
  <1> QED
    BY <1>4, <1>5, <1>6 DEF DaemonInv

(* Starting and loading. *)
LEMMA StartStep ==
  ASSUME DaemonInv, Start
  PROVE  DaemonInv'
  <1> USE DEF Start, timers
  <1>1. TypeOK'
    BY DEF DaemonInv, TypeOK, Configs, Times
  <1>2. \A s \in Services : Sound(s, listener[s])'
    BY SoundPrime DEF DaemonInv
  <1>3. \A s \in Services : Configured(s)' /\ Exclusive(s)'
    BY DEF DaemonInv, Configured, Exclusive, Others
  <1>4. (\A s \in Services : IsLoaded(s) => listener[s].portBase # Null)'
    BY DEF IsLoaded
  <1>5. PortIsRetried' /\ NonePassed' /\ ExpirationInTime' /\ RenewalInTime' /\ NothingLoaded'
    BY DEF DaemonInv, PortIsRetried, NonePassed, ExpirationInTime, RenewalInTime, NothingLoaded
  <1> QED
    BY <1>1, <1>2, <1>3, <1>4, <1>5 DEF DaemonInv

LEMMA LoadStep ==
  ASSUME DaemonInv, NEW s \in Services, Load(s)
  PROVE  DaemonInv'
  <1> DEFINE c == config[s]
             l == loadConfig(s, c)
             r == IF l.enabled THEN acquirePort(s, l) ELSE l
  <1>1. c \in Configs /\ now \in Nat /\ now \in Times
    BY DEF DaemonInv, TypeOK, Times
  <1>2. /\ l \in Listeners /\ l.port = Null /\ l.portBase = c.portBase
        /\ l.autoPortRange = c.autoPortRange /\ l.portBase \in Ports
        /\ ~l.serviceRegistered /\ ~l.dnssdRegistered
    <2>1. /\ c.portBase \in Ports /\ c.autoPortRange \in 0..MaxRange
          /\ c.enabled \in BOOLEAN /\ c.expiration \in Times \cup {Null}
      BY <1>1 DEF Configs
    <2> DEFINE late == c.expiration # Null /\ c.expiration < now
               on == c.enabled /\ ~late
               reg == s \in Registrable
    <2>2. on \in BOOLEAN /\ reg \in BOOLEAN
      BY <2>1
    <2>3. l = [ port |-> Null, portBase |-> c.portBase, autoPortRange |-> c.autoPortRange,
                enabled |-> on, expirationTime |-> c.expiration,
                registerService |-> reg, serviceRegistered |-> FALSE,
                slpPort |-> Null, slpLifetimeEnd |-> Null,
                dnssdRegistered |-> FALSE, dnssdPort |-> Null ]
      BY DEF loadConfig
    <2> HIDE DEF c, l, on, reg
    <2> QED
      BY <2>1, <2>2, <2>3 DEF Listeners
  <1>3. Coherent(s, l)
    BY <1>2 DEF Coherent, Fresh, Advertised
  <1>4. listener' = [listener EXCEPT ![s] = r] /\ left' = left \ {s} /\ s \in left
        /\ phase = "load" /\ UNCHANGED <<phase, config, taken, now, timers>>
    BY DEF Load
  <1> HIDE DEF l
  <1>5. /\ Sound(s, r) /\ r.portBase = c.portBase /\ r.autoPortRange = c.autoPortRange
        /\ r.port \in {Null} \cup Free(s, l)
    <2>1. CASE l.enabled
      <3> DEFINE a == acquirePort(s, l)
      <3>1. l.portBase # Null
        BY <1>2
      <3>2. /\ Coherent(s, a)
            /\ a.portBase = l.portBase /\ a.autoPortRange = l.autoPortRange
            /\ a.enabled = l.enabled /\ a.expirationTime = l.expirationTime
            /\ a.port # Null =>
                  /\ a.port \in Candidates(a)
                  /\ a.port = l.port \/ a.port \in Free(s, l)
        BY <1>1, <1>3, <3>1, AcquireKeeps
      <3>3. r = a
        BY <2>1
      <3> HIDE DEF a, r
      <3> QED
        BY <1>2, <2>1, <3>1, <3>2, <3>3 DEF Sound
    <2>2. CASE ~l.enabled
      BY <1>2, <1>3, <2>2 DEF Sound
    <2> QED
      BY <2>1, <2>2
  <1> HIDE DEF r
  <1>6. /\ \A u \in Services \ {s} : listener'[u] = listener[u]
        /\ listener'[s] = r
    BY <1>4 DEF DaemonInv, TypeOK
  <1>7. TypeOK'
    <2>1. listener' \in [Services -> Listeners]
      BY <1>4, <1>5 DEF DaemonInv, TypeOK, Sound, Coherent, Fresh
    <2> QED
      BY <1>4, <2>1 DEF DaemonInv, TypeOK, timers, Configs, Times
  <1>8. \A u \in Services : Sound(u, listener[u])'
    BY <1>4, <1>5, <1>6, SoundPrime DEF DaemonInv
  <1>9. \A u \in Services : Configured(u)'
    BY <1>4, <1>5, <1>6 DEF DaemonInv, Configured
  <1>10. \A u \in Services : Exclusive(u)'
    BY <1>4, <1>5, <1>6, ExclusiveKept DEF DaemonInv, Free
  <1>11. (\A u \in Services : IsLoaded(u) => listener[u].portBase # Null)'
    BY <1>2, <1>4, <1>5, <1>6 DEF DaemonInv, IsLoaded
  <1>12. PortIsRetried' /\ NonePassed' /\ ExpirationInTime' /\ RenewalInTime' /\ NothingLoaded'
    BY <1>4
       DEF DaemonInv, PortIsRetried, NonePassed, ExpirationInTime, RenewalInTime, NothingLoaded, timers
  <1> QED
    BY <1>7, <1>8, <1>9, <1>10, <1>11, <1>12 DEF DaemonInv

LEMMA LoadedStep ==
  ASSUME DaemonInv, Loaded
  PROVE  DaemonInv'
  <1>1. /\ listener \in [Services -> Listeners] /\ config \in [Services -> Configs]
        /\ now \in Nat /\ Expire(listener, config)
        /\ phase = "load" /\ left = {} /\ phase' = "retry" /\ left' = Services
        /\ UNCHANGED <<taken, now, portRetry, rereg>>
    BY DEF DaemonInv, TypeOK, Loaded, Times
  <1>2. \A s \in Services : Sound(s, listener[s]) /\ listener[s].portBase # Null
    BY <1>1 DEF DaemonInv, IsLoaded
  <1>3. /\ listener' \in [Services -> Listeners] /\ config' \in [Services -> Configs]
        /\ \A s \in Services :
              /\ Sound(s, listener'[s])
              /\ \/ listener'[s] = listener[s]
                 \/ ~listener'[s].enabled /\ listener'[s].port = Null
              /\ listener'[s].portBase = listener[s].portBase
              /\ listener'[s].autoPortRange = listener[s].autoPortRange
              /\ config'[s].portBase = config[s].portBase
              /\ config'[s].autoPortRange = config[s].autoPortRange
              /\ listener'[s].expirationTime # Null =>
                    expiration' # Null /\ expiration' <= listener'[s].expirationTime + 1
        /\ expiration' \in Nat \cup {Null} /\ (expiration' = Null \/ now < expiration')
    BY <1>1, <1>2, ExpireKeeps
  <1>4. TypeOK'
    BY <1>1, <1>3 DEF DaemonInv, TypeOK
  <1>5. \A s \in Services : Sound(s, listener[s])'
    BY <1>1, <1>3, SoundPrime
  <1>6. \A s \in Services : Configured(s)' /\ (listener[s].portBase # Null)'
    BY <1>2, <1>3 DEF DaemonInv, Configured
  <1>7. \A s \in Services : Exclusive(s)'
    BY <1>1, <1>3, ExclusiveKept DEF DaemonInv
  <1>8. PortIsRetried' /\ NonePassed' /\ ExpirationInTime' /\ RenewalInTime' /\ NothingLoaded'
    BY <1>1, <1>3
       DEF DaemonInv, PortIsRetried, NonePassed, ExpirationInTime, RenewalInTime, NothingLoaded
  <1> QED
    BY <1>4, <1>5, <1>6, <1>7, <1>8 DEF DaemonInv

(* Looking for ports again. *)
LEMMA RetryStep ==
  ASSUME DaemonInv, NEW s \in Services, Retry(s)
  PROVE  DaemonInv'
  <1> DEFINE l == listener[s]
             r == acquirePort(s, l)
  <1>1. /\ phase = "retry" /\ left' = left \ {s}
        /\ UNCHANGED <<phase, config, taken, now, expiration, portRetry, rereg>>
        /\ listener \in [Services -> Listeners] /\ now \in Nat
    BY DEF Retry, DaemonInv, TypeOK, timers, Times
  <1>2. Sound(s, l) /\ l.portBase # Null /\ Coherent(s, l)
    BY <1>1 DEF DaemonInv, IsLoaded, Sound
  <1>3. CASE l.enabled /\ l.port = Null
    <2>1. listener' = [listener EXCEPT ![s] = r]
      BY <1>3 DEF Retry
    <2> HIDE DEF l
    <2>2. /\ Coherent(s, r)
          /\ r.portBase = l.portBase /\ r.autoPortRange = l.autoPortRange
          /\ r.enabled = l.enabled /\ r.expirationTime = l.expirationTime
          /\ r.port # Null =>
                /\ r.port \in Candidates(r)
                /\ r.port = l.port \/ r.port \in Free(s, l)
      BY <1>1, <1>2, AcquireKeeps
    <2> HIDE DEF r
    <2>3. Sound(s, r) /\ r.port \in {Null} \cup Free(s, l) /\ r \in Listeners
      BY <1>2, <1>3, <2>2 DEF Sound, Coherent, Fresh
    <2>4. /\ \A u \in Services \ {s} : listener'[u] = listener[u]
          /\ listener'[s] = r /\ listener' \in [Services -> Listeners]
      BY <1>1, <2>1, <2>3
    <2>5. TypeOK'
      BY <1>1, <2>4 DEF DaemonInv, TypeOK
    <2>6. \A u \in Services : Sound(u, listener[u])'
      BY <1>1, <2>3, <2>4, SoundPrime DEF DaemonInv
    <2>7. \A u \in Services : Configured(u)' /\ (listener[u].portBase # Null)'
      BY <1>1, <1>2, <2>2, <2>4 DEF DaemonInv, Configured, IsLoaded, l
    <2>8. \A u \in Services : Exclusive(u)'
      BY <1>1, <2>3, <2>4, ExclusiveKept DEF DaemonInv, Free
    <2>9. ExpirationInTime'
      BY <1>1, <2>2, <2>4 DEF DaemonInv, ExpirationInTime, l
    <2>10. PortIsRetried' /\ NonePassed' /\ RenewalInTime' /\ NothingLoaded'
      BY <1>1 DEF DaemonInv, PortIsRetried, NonePassed, RenewalInTime, NothingLoaded
    <2> QED
      BY <2>5, <2>6, <2>7, <2>8, <2>9, <2>10 DEF DaemonInv
  <1>4. CASE ~(l.enabled /\ l.port = Null)
    <2>1. listener' = listener
      BY <1>4 DEF Retry
    <2>2. TypeOK'
      BY <1>1, <2>1 DEF DaemonInv, TypeOK
    <2>3. \A u \in Services : Sound(u, listener[u])'
      BY <1>1, <2>1, SoundPrime DEF DaemonInv
    <2>4. \A u \in Services : Configured(u)' /\ Exclusive(u)'
      BY <1>1, <2>1 DEF DaemonInv, Configured, Exclusive, Others
    <2>5. (\A u \in Services : IsLoaded(u) => listener[u].portBase # Null)'
      BY <1>1, <2>1 DEF DaemonInv, IsLoaded
    <2>6. PortIsRetried' /\ NonePassed' /\ ExpirationInTime' /\ RenewalInTime' /\ NothingLoaded'
      BY <1>1, <2>1
         DEF DaemonInv, PortIsRetried, NonePassed, ExpirationInTime, RenewalInTime, NothingLoaded
    <2> QED
      BY <2>2, <2>3, <2>4, <2>5, <2>6 DEF DaemonInv
  <1> QED
    BY <1>3, <1>4

LEMMA RetriedStep ==
  ASSUME DaemonInv, Retried
  PROVE  DaemonInv'
  <1>1. /\ phase = "retry" /\ phase' = "idle" /\ left' = left
        /\ UNCHANGED <<listener, config, taken, now, expiration>>
        /\ portRetry' = PortRetryTimer(listener) /\ rereg' = ReregistrationTimer(listener)
        /\ listener \in [Services -> Listeners] /\ now \in Nat
    BY DEF Retried, DaemonInv, TypeOK, Times
  <1>2. \A s \in Services : Sound(s, listener[s])
    BY DEF DaemonInv
  <1>3. /\ rereg' \in Nat \cup {Null} /\ (rereg' = Null \/ now <= rereg')
        /\ \A s \in Services : listener[s].enabled /\ listener[s].serviceRegistered =>
              rereg' # Null /\ rereg' <= listener[s].slpLifetimeEnd + 1
    BY <1>1, <1>2, RenewalTimer
  <1>4. portRetry' \in Nat \cup {Null} /\ PortIsRetried'
    BY <1>1 DEF PortRetryTimer, PortIsRetried
  <1>5. TypeOK'
    BY <1>1, <1>3, <1>4 DEF DaemonInv, TypeOK
  <1>6. \A u \in Services : Sound(u, listener[u])'
    BY <1>1, <1>2, SoundPrime
  <1>7. \A u \in Services : Configured(u)' /\ Exclusive(u)'
    BY <1>1 DEF DaemonInv, Configured, Exclusive, Others
  <1>8. (\A u \in Services : IsLoaded(u) => listener[u].portBase # Null)'
    BY <1>1 DEF DaemonInv, IsLoaded
  <1>9. NonePassed' /\ ExpirationInTime' /\ RenewalInTime' /\ NothingLoaded'
    BY <1>1, <1>3
       DEF DaemonInv, NonePassed, ExpirationInTime, RenewalInTime, NothingLoaded
  <1> QED
    BY <1>4, <1>5, <1>6, <1>7, <1>8, <1>9 DEF DaemonInv

(* The session ends: nothing is loaded again. *)
LEMMA StopStep ==
  ASSUME DaemonInv, Stop
  PROVE  DaemonInv'
  <1>1. /\ phase' = "down" /\ left' = {} /\ listener' = [s \in Services |-> Unloaded]
        /\ expiration' = Null /\ portRetry' = Null /\ rereg' = Null
        /\ UNCHANGED <<config, taken, now>>
    BY DEF Stop
  <1>2. /\ listener' \in [Services -> Listeners]
        /\ \A s \in Services : listener'[s] = Unloaded /\ Sound(s, listener'[s])
    BY <1>1, UnloadedIsSound
  <1>3. TypeOK'
    BY <1>1, <1>2 DEF DaemonInv, TypeOK
  <1>4. \A u \in Services : Sound(u, listener[u])'
    BY <1>1, <1>2, SoundPrime
  <1>5. \A u \in Services : Configured(u)' /\ Exclusive(u)'
    BY <1>2, UnloadedIsSound DEF Configured, Exclusive
  <1>6. (\A u \in Services : IsLoaded(u) => listener[u].portBase # Null)'
    BY <1>1 DEF IsLoaded
  <1>7. PortIsRetried' /\ NonePassed' /\ ExpirationInTime' /\ RenewalInTime' /\ NothingLoaded'
    BY <1>1, <1>2, UnloadedIsSound
       DEF PortIsRetried, NonePassed, ExpirationInTime, RenewalInTime, NothingLoaded
  <1> QED
    BY <1>3, <1>4, <1>5, <1>6, <1>7 DEF DaemonInv

(* The calls. *)
LEMMA SetEnabledStep ==
  ASSUME DaemonInv, NEW s \in Services, NEW e \in BOOLEAN,
         NEW ex \in Times \cup {Null}, setEnabledCall(s, e, ex)
  PROVE  DaemonInv'
  <1> DEFINE l == listener[s]
             r == setEnabledInternal(s, l, e, ex)
             ls == [listener EXCEPT ![s] = r]
             cfg == [config EXCEPT ![s].enabled = e, ![s].expiration = ex]
  <1>1. /\ phase = "idle" /\ Expire(ls, cfg) /\ rereg' = ReregistrationTimer(listener')
        /\ UNCHANGED <<phase, left, taken, now, portRetry>>
        /\ listener \in [Services -> Listeners] /\ config \in [Services -> Configs]
        /\ now \in Nat
    BY DEF setEnabledCall, Idle, loop, DaemonInv, TypeOK, Times
  <1>2. Sound(s, l) /\ l.portBase # Null
    BY <1>1 DEF DaemonInv, IsLoaded
  <1>3. /\ cfg \in [Services -> Configs]
        /\ \A u \in Services : /\ cfg[u].portBase = config[u].portBase
                               /\ cfg[u].autoPortRange = config[u].autoPortRange
    BY <1>1 DEF Configs
  <1> HIDE DEF l, cfg
  <1>4. /\ Sound(s, r)
        /\ r.portBase = l.portBase /\ r.autoPortRange = l.autoPortRange
        /\ r.expirationTime = ex /\ (r.enabled => e /\ r.port # Null)
        /\ r.port # Null => r.port = l.port \/ r.port \in Free(s, l)
    BY <1>1, <1>2, EnableKeeps
  <1> HIDE DEF r
  <1>5. /\ ls \in [Services -> Listeners] /\ ls[s] = r
        /\ \A u \in Services \ {s} : ls[u] = listener[u]
    BY <1>1, <1>4 DEF Sound, Coherent, Fresh
  <1> HIDE DEF ls
  <1>6. \A u \in Services : /\ Sound(u, ls[u]) /\ ls[u].portBase # Null
                            /\ ls[u].portBase = listener[u].portBase
                            /\ ls[u].autoPortRange = listener[u].autoPortRange
    BY <1>1, <1>2, <1>4, <1>5 DEF DaemonInv, IsLoaded, l
  <1>7. /\ listener' \in [Services -> Listeners] /\ config' \in [Services -> Configs]
        /\ \A u \in Services :
              /\ Sound(u, listener'[u])
              /\ \/ listener'[u] = ls[u]
                 \/ ~listener'[u].enabled /\ listener'[u].port = Null
              /\ listener'[u].portBase = ls[u].portBase
              /\ listener'[u].autoPortRange = ls[u].autoPortRange
              /\ config'[u].portBase = cfg[u].portBase
              /\ config'[u].autoPortRange = cfg[u].autoPortRange
              /\ listener'[u].expirationTime # Null =>
                    expiration' # Null /\ expiration' <= listener'[u].expirationTime + 1
        /\ expiration' \in Nat \cup {Null} /\ (expiration' = Null \/ now < expiration')
    BY <1>1, <1>3, <1>5, <1>6, ExpireKeeps
  <1>8. /\ rereg' \in Nat \cup {Null} /\ (rereg' = Null \/ now <= rereg')
        /\ \A u \in Services : listener'[u].enabled /\ listener'[u].serviceRegistered =>
              rereg' # Null /\ rereg' <= listener'[u].slpLifetimeEnd + 1
    BY <1>1, <1>7, RenewalTimer
  <1>9. TypeOK'
    BY <1>1, <1>7, <1>8 DEF DaemonInv, TypeOK
  <1>10. \A u \in Services : Sound(u, listener[u])'
    BY <1>1, <1>7, SoundPrime
  <1>11. \A u \in Services : Configured(u)' /\ (listener[u].portBase # Null)'
    BY <1>3, <1>6, <1>7 DEF DaemonInv, Configured
  <1>12. \A u \in Services : Exclusive(u)'
    <2>1. \A u \in Services \ {s} : listener'[u].port \in {Null, listener[u].port}
      BY <1>5, <1>7
    <2>2. \/ listener'[s].port \in {Null, listener[s].port}
          \/ listener'[s].port \notin taken \cup Others(s)
      BY <1>4, <1>5, <1>7 DEF Free, l
    <2> QED
      BY <1>1, <2>1, <2>2, ExclusiveKept DEF DaemonInv
  <1>13. PortIsRetried'
    BY <1>1, <1>4, <1>5, <1>7 DEF DaemonInv, PortIsRetried
  <1>14. NonePassed' /\ ExpirationInTime' /\ RenewalInTime' /\ NothingLoaded'
    BY <1>1, <1>7, <1>8 DEF NonePassed, ExpirationInTime, RenewalInTime, NothingLoaded
  <1> QED
    BY <1>9, <1>10, <1>11, <1>12, <1>13, <1>14 DEF DaemonInv

LEMMA SetPortStep ==
  ASSUME DaemonInv, NEW s \in Services, NEW port \in Ports \cup {Null},
         NEW range \in Range, setPort(s, port, range)
  PROVE  DaemonInv'
  <1> DEFINE l == listener[s]
             same == port = l.portBase /\ range = l.autoPortRange
             there == [l EXCEPT !.portBase = port, !.autoPortRange = range]
             base == Base[s]
             span == BaseRange[s]
             back == [l EXCEPT !.portBase = base, !.autoPortRange = span]
             moved == IF port = Null THEN back ELSE there
             r == IF same THEN l
                  ELSE IF l.enabled THEN acquirePort(s, moved) ELSE moved
  <1>1. /\ phase = "idle" /\ listener' = [listener EXCEPT ![s] = r]
        /\ config' = [config EXCEPT ![s].portBase = r.portBase,
                                    ![s].autoPortRange = r.autoPortRange]
        /\ portRetry' = PortRetryTimer(listener')
        /\ rereg' = ReregistrationTimer(listener')
        /\ UNCHANGED <<phase, left, taken, now, expiration>>
        /\ listener \in [Services -> Listeners] /\ config \in [Services -> Configs]
        /\ now \in Nat
    BY DEF setPort, rangeOf, Idle, loop, DaemonInv, TypeOK, Times
  <1>2. Sound(s, l) /\ l.portBase # Null /\ l \in Listeners
    BY <1>1 DEF DaemonInv, IsLoaded, Sound, Coherent, Fresh
  <1>3. /\ range \in 0..MaxRange /\ base \in Ports /\ span \in 0..MaxRange
        /\ base # Null
    BY DEF Range
  <1> HIDE DEF l, base, span
  <1>4. /\ moved \in Listeners /\ moved.portBase # Null /\ moved.port = l.port
        /\ moved.enabled = l.enabled /\ moved.expirationTime = l.expirationTime
        /\ moved.serviceRegistered = l.serviceRegistered
        /\ moved.slpLifetimeEnd = l.slpLifetimeEnd /\ moved.slpPort = l.slpPort
        /\ moved.dnssdRegistered = l.dnssdRegistered /\ moved.dnssdPort = l.dnssdPort
    <2>1. CASE port = Null
      <3>1. moved = back
        BY <2>1
      <3> HIDE DEF moved
      <3>2. back \in Listeners /\ back.portBase = base
        BY <1>2, <1>3 DEF Listeners
      <3> QED
        BY <1>2, <1>3, <3>1, <3>2 DEF Listeners
    <2>2. CASE port # Null
      <3>1. moved = there
        BY <2>2
      <3> HIDE DEF moved
      <3> QED
        BY <1>2, <1>3, <2>2, <3>1 DEF Listeners
    <2> QED
      BY <2>1, <2>2
  <1> HIDE DEF moved
  <1>5. Coherent(s, moved)
    BY <1>2, <1>4 DEF Sound, Coherent, Fresh, Advertised
  <1>6. /\ Sound(s, r) /\ r.portBase # Null /\ r.expirationTime = l.expirationTime
        /\ r.port # Null => r.port = l.port \/ r.port \in Free(s, moved)
    <2>1. CASE same
      BY <1>2, <2>1
    <2>2. CASE ~same /\ l.enabled
      <3> DEFINE a == acquirePort(s, moved)
      <3>1. /\ Coherent(s, a)
            /\ a.portBase = moved.portBase /\ a.autoPortRange = moved.autoPortRange
            /\ a.enabled = moved.enabled /\ a.expirationTime = moved.expirationTime
            /\ a.port # Null =>
                  /\ a.port \in Candidates(a)
                  /\ a.port = moved.port \/ a.port \in Free(s, moved)
        BY <1>1, <1>4, <1>5, AcquireKeeps
      <3>2. r = a
        BY <2>2
      <3> HIDE DEF a, r
      <3> QED
        BY <1>4, <2>2, <3>1, <3>2 DEF Sound
    <2>3. CASE ~same /\ ~l.enabled
      <3>1. r = moved
        BY <2>3
      <3> HIDE DEF r
      <3> QED
        BY <1>2, <1>4, <1>5, <2>3, <3>1 DEF Sound
    <2> QED
      BY <2>1, <2>2, <2>3
  <1> HIDE DEF r
  <1>7. r \in Listeners /\ r.portBase \in Ports /\ r.autoPortRange \in 0..MaxRange
    BY <1>6 DEF Sound, Coherent, Fresh, Listeners
  <1>8. /\ \A u \in Services \ {s} : listener'[u] = listener[u]
        /\ listener'[s] = r /\ listener' \in [Services -> Listeners]
        /\ \A u \in Services : Sound(u, listener'[u])
    BY <1>1, <1>6, <1>7 DEF DaemonInv
  <1>9. /\ config' \in [Services -> Configs]
        /\ config'[s].portBase = r.portBase /\ config'[s].autoPortRange = r.autoPortRange
        /\ \A u \in Services \ {s} : config'[u] = config[u]
    BY <1>1, <1>7 DEF Configs
  <1>10. /\ rereg' \in Nat \cup {Null} /\ (rereg' = Null \/ now <= rereg')
         /\ \A u \in Services : listener'[u].enabled /\ listener'[u].serviceRegistered =>
               rereg' # Null /\ rereg' <= listener'[u].slpLifetimeEnd + 1
    BY <1>1, <1>8, RenewalTimer
  <1>11. portRetry' \in Nat \cup {Null} /\ PortIsRetried'
    BY <1>1 DEF PortRetryTimer, PortIsRetried
  <1>12. TypeOK'
    BY <1>1, <1>8, <1>9, <1>10, <1>11 DEF DaemonInv, TypeOK
  <1>13. \A u \in Services : Sound(u, listener[u])'
    BY <1>1, <1>8, SoundPrime
  <1>14. \A u \in Services : Configured(u)' /\ (listener[u].portBase # Null)'
    BY <1>1, <1>6, <1>8, <1>9 DEF DaemonInv, Configured, IsLoaded
  <1>15. \A u \in Services : Exclusive(u)'
    BY <1>1, <1>6, <1>8, ExclusiveKept DEF DaemonInv, Free, l
  <1>16. NonePassed' /\ ExpirationInTime' /\ RenewalInTime' /\ NothingLoaded'
    BY <1>1, <1>6, <1>8, <1>10
       DEF DaemonInv, NonePassed, ExpirationInTime, RenewalInTime, NothingLoaded, l
  <1> QED
    BY <1>11, <1>12, <1>13, <1>14, <1>15, <1>16 DEF DaemonInv

(* A handler that changes only what is advertised, and then sets the timer *)
(* of the registrations.                                                   *)
LEMMA AdvertisingStep ==
  ASSUME DaemonInv, phase = "idle", rereg' = ReregistrationTimer(listener'),
         UNCHANGED <<phase, left, taken, now, expiration, portRetry>>,
         listener' \in [Services -> Listeners], config' \in [Services -> Configs],
         \A u \in Services : /\ Sound(u, listener'[u])
                             /\ SameButAdvertised(listener'[u], listener[u])
                             /\ config'[u].portBase = config[u].portBase
                             /\ config'[u].autoPortRange = config[u].autoPortRange
  PROVE  DaemonInv'
  <1>1. now \in Nat
    BY DEF DaemonInv, TypeOK, Times
  <1>2. /\ rereg' \in Nat \cup {Null} /\ (rereg' = Null \/ now <= rereg')
        /\ \A u \in Services : listener'[u].enabled /\ listener'[u].serviceRegistered =>
              rereg' # Null /\ rereg' <= listener'[u].slpLifetimeEnd + 1
    BY <1>1, RenewalTimer
  <1>3. TypeOK'
    BY <1>2 DEF DaemonInv, TypeOK
  <1>4. \A u \in Services : Sound(u, listener[u])'
    BY SoundPrime
  <1>5. \A u \in Services : Configured(u)' /\ Exclusive(u)' /\ (listener[u].portBase # Null)'
    BY DEF DaemonInv, Configured, Exclusive, Others, SameButAdvertised, IsLoaded
  <1>6. PortIsRetried' /\ NonePassed' /\ ExpirationInTime' /\ RenewalInTime' /\ NothingLoaded'
    BY <1>2
       DEF DaemonInv, PortIsRetried, NonePassed, ExpirationInTime, RenewalInTime, NothingLoaded,
                SameButAdvertised
  <1> QED
    BY <1>3, <1>4, <1>5, <1>6 DEF DaemonInv

LEMMA SetRegistrationStep ==
  ASSUME DaemonInv, NEW s \in Services, NEW e \in BOOLEAN,
         setServiceRegistrationEnabled(s, e)
  PROVE  DaemonInv'
  <1> DEFINE l == listener[s]
             r == Publish(s, Register(s, l, e), e /\ Register(s, l, e).enabled)
  <1>1. /\ phase = "idle" /\ listener' = [listener EXCEPT ![s] = r]
        /\ config' = config
        /\ rereg' = ReregistrationTimer(listener')
        /\ UNCHANGED <<phase, left, taken, now, expiration, portRetry>>
        /\ listener \in [Services -> Listeners] /\ config \in [Services -> Configs]
        /\ now \in Nat
    BY DEF setServiceRegistrationEnabled, Idle, loop, DaemonInv, TypeOK, Times
  <1>2. Sound(s, l)
    BY DEF DaemonInv
  <1> HIDE DEF l
  <1>3. Sound(s, r) /\ SameButAdvertised(r, l)
    BY <1>1, <1>2, RegistrationKeeps
  <1> HIDE DEF r
  <1>4. /\ \A u \in Services \ {s} : listener'[u] = listener[u]
        /\ listener'[s] = r /\ listener' \in [Services -> Listeners]
        /\ \A u \in Services : /\ Sound(u, listener'[u])
                               /\ SameButAdvertised(listener'[u], listener[u])
    BY <1>1, <1>3 DEF DaemonInv, Sound, Coherent, Fresh, SameButAdvertised, l
  <1>5. /\ config' \in [Services -> Configs]
        /\ \A u \in Services : /\ config'[u].portBase = config[u].portBase
                               /\ config'[u].autoPortRange = config[u].autoPortRange
    BY <1>1 DEF Configs
  <1> QED
    BY <1>1, <1>4, <1>5, AdvertisingStep

(* The timers. *)
LEMMA ExpirationStep ==
  ASSUME DaemonInv, ExpirationFires
  PROVE  DaemonInv'
  <1>1. /\ listener \in [Services -> Listeners] /\ config \in [Services -> Configs]
        /\ now \in Nat /\ Expire(listener, config) /\ phase = "idle"
        /\ UNCHANGED <<phase, left, taken, now, portRetry, rereg>>
    BY DEF DaemonInv, TypeOK, ExpirationFires, Due, Idle, loop, Times
  <1>2. \A s \in Services : Sound(s, listener[s]) /\ listener[s].portBase # Null
    BY <1>1 DEF DaemonInv, IsLoaded
  <1>3. /\ listener' \in [Services -> Listeners] /\ config' \in [Services -> Configs]
        /\ \A s \in Services :
              /\ Sound(s, listener'[s])
              /\ \/ listener'[s] = listener[s]
                 \/ ~listener'[s].enabled /\ listener'[s].port = Null
              /\ listener'[s].portBase = listener[s].portBase
              /\ listener'[s].autoPortRange = listener[s].autoPortRange
              /\ config'[s].portBase = config[s].portBase
              /\ config'[s].autoPortRange = config[s].autoPortRange
              /\ listener'[s].expirationTime # Null =>
                    expiration' # Null /\ expiration' <= listener'[s].expirationTime + 1
        /\ expiration' \in Nat \cup {Null} /\ (expiration' = Null \/ now < expiration')
    BY <1>1, <1>2, ExpireKeeps
  <1>4. TypeOK'
    BY <1>1, <1>3 DEF DaemonInv, TypeOK
  <1>5. \A s \in Services : Sound(s, listener[s])'
    BY <1>1, <1>3, SoundPrime
  <1>6. \A s \in Services : Configured(s)' /\ (listener[s].portBase # Null)'
    BY <1>2, <1>3 DEF DaemonInv, Configured
  <1>7. \A s \in Services : Exclusive(s)'
    BY <1>1, <1>3, ExclusiveKept DEF DaemonInv
  <1>8. PortIsRetried' /\ NonePassed' /\ ExpirationInTime' /\ RenewalInTime' /\ NothingLoaded'
    BY <1>1, <1>3
       DEF DaemonInv, PortIsRetried, NonePassed, ExpirationInTime, RenewalInTime, NothingLoaded
  <1> QED
    BY <1>4, <1>5, <1>6, <1>7, <1>8 DEF DaemonInv

LEMMA PortRetryStep ==
  ASSUME DaemonInv, PortRetryFires
  PROVE  DaemonInv'
  <1>1. /\ phase = "idle" /\ phase' = "retry" /\ left' = Services
        /\ UNCHANGED <<listener, config, taken, now, expiration, portRetry, rereg>>
    BY DEF PortRetryFires, Due, Idle, timers
  <1>2. TypeOK'
    BY <1>1 DEF DaemonInv, TypeOK
  <1>3. \A s \in Services : Sound(s, listener[s])'
    BY <1>1, SoundPrime DEF DaemonInv
  <1>4. \A s \in Services : Configured(s)' /\ Exclusive(s)'
    BY <1>1 DEF DaemonInv, Configured, Exclusive, Others
  <1>5. \A s \in Services : (listener[s].portBase # Null)'
    BY <1>1 DEF DaemonInv, IsLoaded
  <1>6. PortIsRetried' /\ NonePassed' /\ ExpirationInTime' /\ RenewalInTime' /\ NothingLoaded'
    BY <1>1
       DEF DaemonInv, PortIsRetried, NonePassed, ExpirationInTime, RenewalInTime, NothingLoaded
  <1> QED
    BY <1>2, <1>3, <1>4, <1>5, <1>6 DEF DaemonInv

LEMMA ReregistrationStep ==
  ASSUME DaemonInv, ReregistrationFires
  PROVE  DaemonInv'
  <1>1. /\ phase = "idle" /\ rereg' = ReregistrationTimer(listener')
        /\ listener' = [s \in Services |-> refreshRegistration(s, listener[s])]
        /\ UNCHANGED <<phase, left, config, taken, now, expiration, portRetry>>
        /\ config \in [Services -> Configs] /\ now \in Nat
    BY DEF ReregistrationFires, Due, Idle, loop, DaemonInv, TypeOK, Times
  <1>2. \A s \in Services : /\ Sound(s, listener'[s])
                            /\ SameButAdvertised(listener'[s], listener[s])
    BY <1>1, RefreshKeeps DEF DaemonInv
  <1>3. listener' \in [Services -> Listeners]
    BY <1>1, <1>2 DEF Sound, Coherent, Fresh
  <1> QED
    BY <1>1, <1>2, <1>3, AdvertisingStep

(* The world. *)
LEMMA TickStep ==
  ASSUME DaemonInv, Tick
  PROVE  DaemonInv'
  <1>1. /\ now \in Nat /\ now' = now + 1 /\ now' \in Times /\ phase \in {"idle", "down"}
        /\ \A timer \in {expiration, portRetry, rereg} : timer = Null \/ now < timer
        /\ UNCHANGED <<phase, left, listener, config, taken, expiration, portRetry, rereg>>
        /\ {expiration, portRetry, rereg} \subseteq Nat \cup {Null}
    BY DEF Tick, DaemonInv, TypeOK, Times, loop, timers
  <1>2. TypeOK'
    BY <1>1 DEF DaemonInv, TypeOK, Configs, Listeners, Times
  <1>3. ASSUME NEW s \in Services
        PROVE  Sound(s, listener[s])'
    <2> DEFINE l == listener[s]
    <2>1. Sound(s, l) /\ l \in Listeners
      BY DEF DaemonInv, Sound, Coherent, Fresh
    <2>2. l.enabled /\ l.serviceRegistered => now + 1 <= l.slpLifetimeEnd + 1
      <3>1. CASE phase = "idle" /\ l.enabled /\ l.serviceRegistered
        <4>1. rereg # Null /\ rereg <= l.slpLifetimeEnd + 1 /\ now < rereg
          BY <1>1, <3>1 DEF DaemonInv, RenewalInTime, NothingLoaded
        <4>2. rereg \in Nat /\ l.slpLifetimeEnd \in Nat
          BY <1>1, <2>1, <3>1, <4>1 DEF Sound, Coherent, Fresh, Listeners
        <4> QED
          BY <1>1, <4>1, <4>2
      <3>2. CASE phase = "down"
        BY <3>2 DEF DaemonInv, NothingLoaded
      <3> QED
        BY <1>1, <3>1, <3>2
    <2> QED
      BY <1>1, <2>1, <2>2 DEF Sound, Coherent, Fresh, Advertised, Candidates, Listeners
  <1>4. \A s \in Services : Configured(s)' /\ Exclusive(s)'
    BY <1>1 DEF DaemonInv, Configured, Exclusive, Others
  <1>5. (\A s \in Services : IsLoaded(s) => listener[s].portBase # Null)'
    BY <1>1 DEF DaemonInv, IsLoaded
  <1>6. PortIsRetried' /\ NonePassed'
    BY <1>1 DEF DaemonInv, PortIsRetried, NonePassed
  <1>7. ExpirationInTime' /\ RenewalInTime' /\ NothingLoaded'
    BY <1>1 DEF DaemonInv, ExpirationInTime, RenewalInTime, NothingLoaded
  <1> QED
    BY <1>2, <1>3, <1>4, <1>5, <1>6, <1>7 DEF DaemonInv

LEMMA OtherProgramStep ==
  ASSUME DaemonInv, NEW p \in Ports, OtherProgram(p)
  PROVE  DaemonInv'
  <1>1. /\ UNCHANGED <<phase, left, listener, config, now, expiration, portRetry, rereg>>
        /\ \/ taken' = taken \ {p}
           \/ taken' = taken \cup {p} /\ \A s \in Services : listener[s].port # p
    BY DEF OtherProgram, loop, timers
  <1>2. TypeOK'
    BY <1>1 DEF DaemonInv, TypeOK, Times
  <1>3. \A s \in Services : Sound(s, listener[s])'
    BY <1>1, SoundPrime DEF DaemonInv
  <1>4. \A s \in Services : Configured(s)' /\ Exclusive(s)'
    BY <1>1 DEF DaemonInv, Configured, Exclusive, Others
  <1>5. (\A s \in Services : IsLoaded(s) => listener[s].portBase # Null)'
    BY <1>1 DEF DaemonInv, IsLoaded
  <1>6. PortIsRetried' /\ NonePassed' /\ ExpirationInTime' /\ RenewalInTime' /\ NothingLoaded'
    BY <1>1
       DEF DaemonInv, PortIsRetried, NonePassed, ExpirationInTime, RenewalInTime, NothingLoaded
  <1> QED
    BY <1>2, <1>3, <1>4, <1>5, <1>6 DEF DaemonInv

LEMMA NextDaemon ==
  ASSUME DaemonInv, [Next]_vars
  PROVE  DaemonInv'
  <1>1. CASE Start
    BY <1>1, StartStep
  <1>2. CASE \E s \in Services : Load(s)
    BY <1>2, LoadStep
  <1>3. CASE Loaded
    BY <1>3, LoadedStep
  <1>4. CASE \E s \in Services : Retry(s)
    BY <1>4, RetryStep
  <1>5. CASE Retried
    BY <1>5, RetriedStep
  <1>6. CASE Stop
    BY <1>6, StopStep
  <1>7. CASE \E s \in Services : setEnabled(s)
    <2>1. PICK s \in Services, e \in BOOLEAN : setEnabledCall(s, e, Null)
      BY <1>7 DEF setEnabled
    <2>2. Null \in Times \cup {Null}
      OBVIOUS
    <2> HIDE DEF Null
    <2> QED
      BY <2>1, <2>2, SetEnabledStep
  <1>8. CASE \E s \in Services : setEnabledUntil(s)
    <2> DEFINE yes == TRUE
    <2>1. PICK s \in Services, ex \in Times : setEnabledCall(s, yes, ex)
      BY <1>8 DEF setEnabledUntil
    <2>2. yes \in BOOLEAN /\ ex \in Times \cup {Null}
      OBVIOUS
    <2> HIDE DEF Null, yes
    <2> QED
      BY <2>1, <2>2, SetEnabledStep
  <1>9. CASE \E s \in Services, port \in Ports \cup {Null}, range \in Range :
                setPort(s, port, range)
    BY <1>9, SetPortStep
  <1>10. CASE \E s \in Services, e \in BOOLEAN : setServiceRegistrationEnabled(s, e)
    BY <1>10, SetRegistrationStep
  <1>11. CASE ExpirationFires
    BY <1>11, ExpirationStep
  <1>12. CASE PortRetryFires
    BY <1>12, PortRetryStep
  <1>13. CASE ReregistrationFires
    BY <1>13, ReregistrationStep
  <1>14. CASE Tick
    BY <1>14, TickStep
  <1>15. CASE \E p \in Ports : OtherProgram(p)
    BY <1>15, OtherProgramStep
  <1>16. CASE UNCHANGED vars
    <2>1. UNCHANGED <<phase, left, listener, config, taken, now, expiration, portRetry,
                      rereg>>
      BY <1>16 DEF vars, loop, timers
    <2>2. TypeOK'
      BY <2>1 DEF DaemonInv, TypeOK
    <2>3. \A s \in Services : Sound(s, listener[s])'
      BY <2>1, SoundPrime DEF DaemonInv
    <2>4. \A s \in Services : Configured(s)' /\ Exclusive(s)'
      BY <2>1 DEF DaemonInv, Configured, Exclusive, Others
    <2>5. (\A s \in Services : IsLoaded(s) => listener[s].portBase # Null)'
      BY <2>1 DEF DaemonInv, IsLoaded
    <2>6. PortIsRetried' /\ NonePassed' /\ ExpirationInTime' /\ RenewalInTime'
          /\ NothingLoaded'
      BY <2>1 DEF DaemonInv, PortIsRetried, NonePassed, ExpirationInTime, RenewalInTime,
                  NothingLoaded
    <2> QED
      BY <2>2, <2>3, <2>4, <2>5, <2>6 DEF DaemonInv
  <1> QED
    BY <1>1, <1>2, <1>3, <1>4, <1>5, <1>6, <1>7, <1>8, <1>9, <1>10, <1>11, <1>12,
       <1>13, <1>14, <1>15, <1>16 DEF Next

(* The inductive invariant holds in every state of the daemon. *)
THEOREM DaemonInvariant == Spec => []DaemonInv
  BY InitDaemon, NextDaemon, PTL DEF Spec

(* Every variable of the daemon keeps its type, with any number of         *)
(* services and ports.                                                     *)
THEOREM DaemonTypes == Spec => []TypeOK
  <1>1. DaemonInv => TypeOK
    BY DEF DaemonInv
  <1> QED
    BY <1>1, DaemonInvariant, PTL

(* A listening service is enabled and has a port of its configured range   *)
(* to itself.                                                              *)
THEOREM PortsAreConfigured == Spec => []ListensWhereConfigured
  <1>1. DaemonInv => ListensWhereConfigured
    BY DEF DaemonInv, Sound, Configured, Exclusive, Candidates, ListensWhereConfigured
  <1> QED
    BY <1>1, DaemonInvariant, PTL

(* An enabled service without a port is looked after within 30 s. *)
THEOREM PortsAreRetried == Spec => []PortIsRetried
  <1>1. DaemonInv => PortIsRetried
    BY DEF DaemonInv
  <1> QED
    BY <1>1, DaemonInvariant, PTL

(* No service stays enabled more than 30 s after its time.  The timer the  *)
(* daemon sets for the earliest of all times is early enough for each.     *)
THEOREM ExpirationsHold == Spec => []ExpiredIsDisabled
  <1>1. DaemonInv => ExpiredIsDisabled
    <2> SUFFICES ASSUME DaemonInv, phase = "idle", NEW s \in Services,
                        listener[s].expirationTime # Null
                 PROVE  now <= listener[s].expirationTime + 1
      BY DEF ExpiredIsDisabled
    <2> DEFINE time == listener[s].expirationTime
    <2>1. listener[s] \in Listeners /\ now \in Nat /\ expiration \in Nat \cup {Null}
      BY DEF DaemonInv, TypeOK, Times
    <2>2. time \in Nat
      BY <2>1 DEF Listeners, Times
    <2>3. expiration # Null /\ expiration <= time + 1 /\ now <= expiration
      BY DEF DaemonInv, ExpirationInTime, NonePassed
    <2> HIDE DEF time
    <2>4. now <= time + 1
      BY <2>1, <2>2, <2>3
    <2> QED
      BY <2>4 DEF time
  <1> QED
    BY <1>1, DaemonInvariant, PTL

(* The registration of an enabled service never lapses. *)
THEOREM RegistrationsAreRenewed == Spec => []RegistrationIsRenewed
  <1>1. DaemonInv => RegistrationIsRenewed
    BY DEF DaemonInv, Sound, Coherent, Fresh, RegistrationIsRenewed
  <1> QED
    BY <1>1, DaemonInvariant, PTL

(* A listening service advertises no port but its own. *)
THEOREM AdvertisementsAreTrue == Spec => []AdvertisedPortIsOwn
  <1>1. DaemonInv => AdvertisedPortIsOwn
    BY DEF DaemonInv, Sound, Coherent, Advertised, AdvertisedPortIsOwn
  <1> QED
    BY <1>1, DaemonInvariant, PTL

(* No timer keeps the daemon spinning: what has fired is stopped or set    *)
(* for later by its own handler.                                           *)
THEOREM TimersAreServed == Spec => []TimersMoveOn
  <1>1. DaemonInv => TimersMoveOn
    <2> SUFFICES ASSUME DaemonInv PROVE TimersMoveOn
      OBVIOUS
    <2>1. now \in Nat /\ listener \in [Services -> Listeners]
      BY DEF DaemonInv, TypeOK, Times
    <2>2. ExpirationTimer(listener) \notin 0..now
      <3> DEFINE times == {listener[s].expirationTime :
                              s \in {u \in Services : listener[u].expirationTime >= now}}
      <3>1. times \in SUBSET Nat /\ \A x \in times : now <= x
        BY <2>1 DEF Listeners, Times
      <3> HIDE DEF times
      <3> DEFINE E == Earliest(times)
      <3>2. E = Null \/ (E \in Nat /\ now <= E)
        BY <3>1, EarliestIsLeast
      <3>3. ExpirationTimer(listener) = IF E = Null THEN Null ELSE E + 1
        BY DEF ExpirationTimer, NextExpiration, times
      <3> HIDE DEF E
      <3> QED
        BY <2>1, <3>2, <3>3
    <2>3. ASSUME NEW renewed,
                 renewed = [s \in Services |-> refreshRegistration(s, listener[s])]
          PROVE  ReregistrationTimer(renewed) \notin 0..now
      <3>1. \A s \in Services :
               /\ Sound(s, renewed[s])
               /\ renewed[s].serviceRegistered => now < renewed[s].slpLifetimeEnd
        BY <2>1, <2>3, RefreshKeeps DEF DaemonInv
      <3> DEFINE ends == LifetimeEnds(renewed)
      <3>2. ends \in SUBSET Nat /\ \A x \in ends : now < x
        BY <3>1 DEF LifetimeEnds, Sound, Coherent, Fresh, Listeners
      <3> HIDE DEF ends
      <3> DEFINE E == Earliest(ends)
      <3>3. E = Null \/ (E \in Nat /\ now < E)
        BY <3>2, EarliestIsLeast
      <3>4. ReregistrationTimer(renewed) =
               IF E = Null THEN Null
               ELSE IF E < now THEN now
               ELSE IF E < now + 1 THEN now + 1
               ELSE E
        BY DEF ReregistrationTimer, ends
      <3> HIDE DEF E
      <3> QED
        BY <2>1, <3>3, <3>4
    <2> QED
      BY <2>2, <2>3 DEF TimersMoveOn
  <1> QED
    BY <1>1, DaemonInvariant, PTL
===========================================================================
