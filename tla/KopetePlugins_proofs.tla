------------------------- MODULE KopetePlugins_proofs -------------------------
(***************************************************************************)
(* Theorems about Kopete's plug-in manager, for any number of plug-ins,    *)
(* protocols and accounts.                                                 *)
(*                                                                         *)
(* ProtocolOutlivesAccounts is not inductive: that a protocol is doomed    *)
(* only when its last account is gone depends on which accounts are        *)
(* awaited, and that no account is added to a doomed protocol unnoticed on *)
(* who was told to unload.  Wiring says how the sets of the unloading      *)
(* belong together.                                                        *)
(*                                                                         *)
(* Nor is EnabledIsLoaded: QueueInv adds to it that an enabled plug-in is  *)
(* loaded or queued, and that a queue that is not empty has a timer.       *)
(***************************************************************************)
EXTENDS KopetePlugins, FiniteSetTheorems, SequenceTheorems, TLAPS

(* A deferred delete is pending for loaded plug-ins only, and for protocols  *)
(* only when they were told to unload; the accounts that are awaited are     *)
(* registered and belong to such a protocol; the wizard's protocol is loaded.*)
Wiring ==
  /\ doomed \subseteq loadedPlugins
  /\ doomed \cap Protocols \subseteq unloading
  /\ \A a \in endWatch \cup statusWatch : account[a] # "none" /\ Owner[a] \in unloading
  /\ wizard \in loadedPlugins \cup {NoProtocol}

UnloadInv == TypeOK /\ Wiring /\ ProtocolOutlivesAccounts

----------------------------------------------------------------------------
(* A listing of a finite set is a sequence of its members. *)
LEMMA ListingsAreSequences ==
  ASSUME NEW S, IsFiniteSet(S), NEW s \in Listings(S)
  PROVE  s \in Seq(S)
  <1>1. Cardinality(S) \in Nat
    BY FS_CardinalityType
  <1> QED
    BY <1>1 DEF Listings

(* Finite sets of the model. *)
LEMMA SubsetsAreFinite ==
  ASSUME NEW T \in {Plugins, Accounts}, NEW S \in SUBSET T
  PROVE  IsFiniteSet(S)
  BY KopeteAssumption, FS_Subset

(* slotLoadPlugins queues plug-ins. *)
LEMMA StartQueues ==
  ASSUME NEW C \in SUBSET Accounts, NEW E \in SUBSET Plugins,
         NEW os \in Listings(C), NEW ps \in Listings(E)
  PROVE  /\ [i \in DOMAIN os |-> Owner[os[i]]] \in Seq(Plugins)
         /\ ps \in Seq(Plugins)
         /\ Len(os) \in Nat
  <1>1. IsFiniteSet(C) /\ IsFiniteSet(E)
    BY SubsetsAreFinite
  <1>2. os \in Seq(C) /\ ps \in Seq(E)
    BY <1>1, ListingsAreSequences
  <1>3. os \in [1 .. Len(os) -> C] /\ DOMAIN os = 1 .. Len(os) /\ Len(os) \in Nat
    BY <1>2, LenProperties
  <1>4. [i \in DOMAIN os |-> Owner[os[i]]] \in [1 .. Len(os) -> Plugins]
    <2>1. \A i \in 1 .. Len(os) : os[i] \in Accounts
      BY <1>3
    <2>2. \A i \in 1 .. Len(os) : Owner[os[i]] \in Plugins
      BY <2>1, KopeteAssumption
    <2>3. [i \in DOMAIN os |-> Owner[os[i]]] = [i \in 1 .. Len(os) |-> Owner[os[i]]]
      BY <1>3
    <2>4. [i \in 1 .. Len(os) |-> Owner[os[i]]] \in [1 .. Len(os) -> Plugins]
      BY <2>2
    <2> QED
      BY <2>3, <2>4
  <1>5. [i \in DOMAIN os |-> Owner[os[i]]] \in Seq(Plugins)
    <2> DEFINE f == [i \in DOMAIN os |-> Owner[os[i]]]
    <2>1. f \in [1 .. Len(os) -> Plugins] /\ Len(os) \in Nat
      BY <1>3, <1>4
    <2> HIDE DEF f
    <2>2. f \in Seq(Plugins)
      BY <2>1, SeqDef
    <2> QED
      BY <2>2 DEF f
  <1>6. ps \in [1 .. Len(ps) -> E] /\ Len(ps) \in Nat
    BY <1>2, LenProperties
  <1>7. ps \in Seq(Plugins)
    <2>1. ps \in [1 .. Len(ps) -> Plugins]
      BY <1>6
    <2> QED
      BY <1>6, <2>1, SeqDef
  <1> QED
    BY <1>3, <1>5, <1>7

(* The top of the stack. *)
LEMMA TopIsPlugin ==
  ASSUME NEW q \in Seq(Plugins), q # <<>>
  PROVE  q[Len(q)] \in Plugins /\ SubSeq(q, 1, Len(q) - 1) \in Seq(Plugins)
  <1>1. Len(q) \in Nat /\ Len(q) > 0 /\ Len(q) \in 1 .. Len(q)
    <2>1. Len(q) \in Nat /\ Len(q) # 0
      BY EmptySeq, LenProperties
    <2> QED
      BY <2>1
  <1>2. \A i \in 1 .. Len(q) - 1 : q[i] \in Plugins
    BY <1>1, ElementOfSeq
  <1>3. q[Len(q)] \in Plugins
    BY <1>1, ElementOfSeq
  <1>4. 1 \in Int /\ Len(q) - 1 \in Int
    BY <1>1
  <1>5. SubSeq(q, 1, Len(q) - 1) \in Seq(Plugins)
    <2> DEFINE n == Len(q) - 1
    <2>1. n \in Int /\ \A i \in 1 .. n : q[i] \in Plugins
      BY <1>2, <1>4
    <2> HIDE DEF n
    <2>2. SubSeq(q, 1, n) \in Seq(Plugins)
      BY <1>4, <2>1, SubSeqProperties
    <2> QED
      BY <2>2 DEF n
  <1> QED
    BY <1>3, <1>5

----------------------------------------------------------------------------
LEMMA InitHolds == Init => UnloadInv
  <1> SUFFICES ASSUME Init PROVE UnloadInv
    OBVIOUS
  <1>1. <<>> \in Seq(Plugins)
    OBVIOUS
  <1>2. TypeOK
    BY <1>1 DEF Init, TypeOK, Modes, Statuses
  <1>3. Wiring /\ ProtocolOutlivesAccounts
    BY DEF Init, Wiring, ProtocolOutlivesAccounts
  <1> QED
    BY <1>2, <1>3 DEF UnloadInv

----------------------------------------------------------------------------
(* Loading a plug-in: a new protocol is not on its way out. *)
LEMMA LoadKeeps ==
  ASSUME UnloadInv, NEW p \in Plugins, loadPluginInternal(p),
         UNCHANGED <<configured, doomed, unloading, condemned, statusWatch, endWatch, disturbed>>
  PROVE  /\ loadedPlugins' \subseteq Plugins /\ loadedPlugins \subseteq loadedPlugins'
         /\ account' \in [Accounts -> Statuses]
         /\ overtaken' \subseteq Plugins
         /\ doomed \subseteq loadedPlugins'
         /\ \A a \in endWatch \cup statusWatch : account'[a] # "none"
         /\ ProtocolOutlivesAccounts'
  <1>1. CASE p \in loadedPlugins \cup Broken
    BY <1>1 DEF loadPluginInternal, UnloadInv, TypeOK, Wiring, ProtocolOutlivesAccounts, Registered
  <1>2. CASE p \notin loadedPlugins \cup Broken
    <2>1. /\ loadedPlugins' = loadedPlugins \cup {p}
          /\ account' = [a \in Accounts |->
               IF Owner[a] = p /\ a \in configured THEN "offline" ELSE account[a]]
          /\ overtaken' \subseteq overtaken \cup {p}
      BY <1>2 DEF loadPluginInternal
    <2>2. \A x \in doomed : Registered(x)' = Registered(x)
      BY <1>2, <2>1 DEF UnloadInv, Wiring, Registered
    <2>3. account' \in [Accounts -> Statuses]
      BY <2>1 DEF UnloadInv, TypeOK, Statuses
    <2>4. \A a \in Accounts : account'[a] # "none" => Owner[a] \in loadedPlugins'
      BY <2>1 DEF UnloadInv, ProtocolOutlivesAccounts
    <2>5. \A a \in endWatch \cup statusWatch : account'[a] # "none"
      BY <2>1 DEF UnloadInv, TypeOK, Wiring
    <2> QED
      BY <2>1, <2>2, <2>3, <2>4, <2>5 DEF UnloadInv, TypeOK, Wiring, ProtocolOutlivesAccounts
  <1> QED
    BY <1>1, <1>2

(* Telling loaded plug-ins to unload. *)
LEMMA TellKeeps ==
  ASSUME UnloadInv, NEW S \in SUBSET loadedPlugins, aboutToUnload(S),
         UNCHANGED <<loadedPlugins, disturbed>>, wizard' \in {wizard, NoProtocol}
  PROVE  /\ doomed' \subseteq Plugins /\ unloading' \subseteq Protocols
         /\ account' \in [Accounts -> Statuses]
         /\ condemned' \subseteq Accounts /\ statusWatch' \subseteq Accounts
         /\ endWatch' \subseteq Accounts
         /\ Wiring' /\ ProtocolOutlivesAccounts'
  <1> DEFINE asked  == {a \in Accounts : Owner[a] \in S /\ account[a] # "none"}
             online == {a \in asked : Online(a)}
  <1>1. /\ doomed' = doomed \cup {p \in S : Registered(p) = {}}
        /\ unloading' = unloading \cup (S \cap Protocols)
        /\ account' = [a \in Accounts |-> IF a \in online THEN "closing" ELSE account[a]]
        /\ statusWatch' = statusWatch \cup online
        /\ endWatch' = endWatch \cup (asked \ online)
        /\ condemned' = condemned \cup (asked \ online)
    BY DEF aboutToUnload
  <1>2. \A a \in Accounts : (account'[a] # "none") <=> (account[a] # "none")
    BY <1>1 DEF UnloadInv, TypeOK
  <1>3. \A p : Registered(p)' = Registered(p)
    BY <1>2 DEF Registered
  <1>4. account' \in [Accounts -> Statuses]
    BY <1>1 DEF UnloadInv, TypeOK, Statuses
  <1>5. \A a \in asked : Owner[a] \in Protocols
    BY KopeteAssumption
  <1>6. Wiring'
    <2>1. \A a \in endWatch' \cup statusWatch' : account'[a] # "none" /\ Owner[a] \in unloading'
      BY <1>1, <1>2, <1>5 DEF UnloadInv, TypeOK, Wiring
    <2> QED
      BY <1>1, <2>1 DEF UnloadInv, Wiring
  <1>7. ProtocolOutlivesAccounts'
    BY <1>1, <1>2, <1>3 DEF UnloadInv, ProtocolOutlivesAccounts
  <1> QED
    BY <1>1, <1>4, <1>6, <1>7 DEF UnloadInv, TypeOK

(* An account goes: its protocol is doomed with the last that is awaited. *)
LEMMA DestroyKeeps ==
  ASSUME UnloadInv, NEW a \in Accounts, accountDestroyed(a),
         UNCHANGED <<loadedPlugins, unloading, wizard>>, disturbed \subseteq disturbed'
  PROVE  /\ doomed' \subseteq Plugins
         /\ account' \in [Accounts -> Statuses]
         /\ condemned' \subseteq Accounts /\ statusWatch' \subseteq Accounts
         /\ endWatch' \subseteq Accounts
         /\ Wiring' /\ ProtocolOutlivesAccounts'
  <1>1. /\ account' = [account EXCEPT ![a] = "none"]
        /\ condemned' = condemned \ {a}
        /\ statusWatch' = statusWatch \ {a}
        /\ endWatch' = endWatch \ {a}
        /\ doomed' = doomed \cup LastAccount(a)
    BY DEF accountDestroyed
  <1>2. \A p : Registered(p)' = Registered(p) \ {a}
    BY <1>1 DEF Registered, UnloadInv, TypeOK
  <1>3. \A p \in LastAccount(a) : /\ p = Owner[a] /\ a \in endWatch
                                  /\ Registered(p) = {a} /\ Registered(p)' = {}
    BY <1>2 DEF LastAccount
  <1>4. \A p \in LastAccount(a) : p \in unloading /\ p \in loadedPlugins
    BY <1>3 DEF UnloadInv, Wiring, ProtocolOutlivesAccounts
  <1>5. account' \in [Accounts -> Statuses]
    BY <1>1 DEF UnloadInv, TypeOK, Statuses
  <1>6. Wiring'
    <2>1. \A x \in endWatch' \cup statusWatch' : account'[x] # "none" /\ Owner[x] \in unloading'
      BY <1>1 DEF UnloadInv, TypeOK, Wiring
    <2> QED
      BY <1>1, <1>4, <2>1 DEF UnloadInv, Wiring
  <1>7. ProtocolOutlivesAccounts'
    <2>1. \A p \in doomed' \ disturbed' : Registered(p)' = {}
      BY <1>1, <1>2, <1>3 DEF UnloadInv, ProtocolOutlivesAccounts
    <2>2. \A x \in Accounts : account'[x] # "none" => Owner[x] \in loadedPlugins'
      BY <1>1 DEF UnloadInv, TypeOK, ProtocolOutlivesAccounts
    <2> QED
      BY <2>1, <2>2 DEF ProtocolOutlivesAccounts
  <1> QED
    BY <1>1, <1>4, <1>5, <1>6, <1>7 DEF UnloadInv, TypeOK

(* A plug-in goes, with the accounts it has left. *)
LEMMA DeleteKeeps ==
  ASSUME UnloadInv, NEW p \in Plugins, DeletePlugin(p)
  PROVE  UnloadInv'
  <1>1. /\ loadedPlugins' = loadedPlugins \ {p}
        /\ doomed' = doomed \ {p}
        /\ unloading' = unloading \ {p}
        /\ account' = [a \in Accounts |-> IF Owner[a] = p THEN "none" ELSE account[a]]
        /\ condemned' = condemned \ Registered(p)
        /\ statusWatch' = statusWatch \ Registered(p)
        /\ endWatch' = endWatch \ Registered(p)
        /\ doneTimers' \in {doneTimers, doneTimers + 1}
        /\ wizard' = IF wizard = p THEN NoProtocol ELSE wizard
        /\ disturbed' = disturbed \ {p}
        /\ UNCHANGED <<mode, enabled, configured, pluginsToLoad, loadTimers, deadline, derefs,
                       overtaken, quitAsked>>
    BY DEF DeletePlugin, queueVars
  <1>2. TypeOK'
    BY <1>1, KopeteAssumption DEF UnloadInv, TypeOK, Statuses
  <1>3. \A a \in endWatch' \cup statusWatch' : account'[a] # "none" /\ Owner[a] \in unloading'
    <2>1. \A a \in endWatch' \cup statusWatch' :
             a \in Accounts /\ account[a] # "none" /\ Owner[a] # p /\ Owner[a] \in unloading
      BY <1>1 DEF UnloadInv, TypeOK, Wiring, Registered
    <2> QED
      BY <1>1, <2>1
  <1>4. Wiring'
    BY <1>1, <1>3 DEF UnloadInv, Wiring
  <1>5. ProtocolOutlivesAccounts'
    <2>1. \A x \in doomed' : Registered(x)' \subseteq Registered(x)
      BY <1>1 DEF Registered
    <2>2. \A a \in Accounts : account'[a] # "none" => Owner[a] \in loadedPlugins'
      BY <1>1 DEF UnloadInv, ProtocolOutlivesAccounts
    <2> QED
      BY <1>1, <2>1, <2>2 DEF UnloadInv, ProtocolOutlivesAccounts
  <1> QED
    BY <1>2, <1>4, <1>5 DEF UnloadInv

(* The status of an account that stays registered, and who awaits it. *)
LEMMA StatusKeeps ==
  ASSUME UnloadInv, NEW a \in Accounts, account[a] # "none",
         NEW st \in Statuses \ {"none"}, account' = [account EXCEPT ![a] = st],
         statusWatch' \cup endWatch' = statusWatch \cup endWatch,
         condemned' \subseteq condemned \cup {a},
         UNCHANGED <<mode, enabled, configured, queueVars, loadedPlugins, doomed, unloading,
                     endVars, wizard, overtaken, disturbed>>
  PROVE  UnloadInv'
  <1>1. \A x \in Accounts : (account'[x] # "none") <=> (account[x] # "none")
    BY DEF UnloadInv, TypeOK
  <1>2. \A p : Registered(p)' = Registered(p)
    BY <1>1 DEF Registered
  <1>3. TypeOK'
    BY DEF UnloadInv, TypeOK, Statuses, queueVars, endVars
  <1>4. \A x \in endWatch' \cup statusWatch' : account'[x] # "none" /\ Owner[x] \in unloading'
    BY <1>1 DEF UnloadInv, TypeOK, Wiring
  <1>5. Wiring'
    BY <1>4 DEF UnloadInv, Wiring
  <1>6. ProtocolOutlivesAccounts'
    BY <1>1, <1>2 DEF UnloadInv, ProtocolOutlivesAccounts
  <1> QED
    BY <1>3, <1>5, <1>6 DEF UnloadInv

----------------------------------------------------------------------------
(* Every step keeps the invariant. *)
LEMMA ServeKeeps == UnloadInv /\ Serve => UnloadInv'
  <1> SUFFICES ASSUME UnloadInv, Serve PROVE UnloadInv'
    OBVIOUS
  <1>1. CASE slotLoadPlugins
    <2>1. /\ mode' = "StartingUp"
          /\ pluginsToLoad' \in Seq(Plugins) /\ loadTimers' \in Nat
          /\ enabled' \subseteq enabled
      <3>1. PICK os \in Listings(configured), ps \in Listings(enabled) :
              /\ \/ /\ pluginsToLoad' = [i \in DOMAIN os |-> Owner[os[i]]] \o ps
                    /\ loadTimers' = Len(os) + 1
                 \/ /\ pluginsToLoad' = [i \in DOMAIN os |-> Owner[os[i]]]
                    /\ loadTimers' = Len(os)
              /\ enabled' \in {enabled, {}}
        BY <1>1 DEF slotLoadPlugins
      <3>2. configured \in SUBSET Accounts /\ enabled \in SUBSET Plugins
        BY DEF UnloadInv, TypeOK
      <3>3. /\ [i \in DOMAIN os |-> Owner[os[i]]] \in Seq(Plugins)
            /\ ps \in Seq(Plugins) /\ Len(os) \in Nat
        BY <3>2, StartQueues
      <3> DEFINE protocols == [i \in DOMAIN os |-> Owner[os[i]]]
      <3>4. protocols \o ps \in Seq(Plugins)
        BY <3>3, ConcatProperties
      <3>5. mode' = "StartingUp" /\ enabled' \subseteq enabled
        BY <1>1, <3>1 DEF slotLoadPlugins
      <3>6. pluginsToLoad' \in {protocols, protocols \o ps} /\ loadTimers' \in {Len(os), Len(os) + 1}
        BY <3>1
      <3>7. protocols \in Seq(Plugins) /\ Len(os) \in Nat
        BY <3>3
      <3> HIDE DEF protocols
      <3>8. pluginsToLoad' \in Seq(Plugins)
        BY <3>4, <3>6, <3>7
      <3>9. loadTimers' \in Nat
        BY <3>6, <3>7
      <3> QED
        BY <3>5, <3>8, <3>9
    <2>2. UNCHANGED <<configured, loadedPlugins, doomed, unloading,
                      accountVars, endVars, wizard, overtaken, disturbed>>
      BY <1>1 DEF slotLoadPlugins
    <2> QED
      BY <2>1, <2>2 DEF UnloadInv, TypeOK, Wiring, ProtocolOutlivesAccounts, Registered,
                        accountVars, endVars, Modes
  <1>2. CASE slotLoadNextPlugin
    <2>1. UNCHANGED <<enabled, configured, doomed, unloading, condemned, statusWatch,
                      endWatch, endVars, wizard, disturbed>>
      BY <1>2 DEF slotLoadNextPlugin
    <2>2. CASE pluginsToLoad = <<>>
      <3>1. /\ mode' \in {mode, "Running"} /\ loadTimers' = loadTimers - 1 /\ loadTimers > 0
            /\ UNCHANGED <<pluginsToLoad, loadedPlugins, account, overtaken>>
        BY <1>2, <2>2 DEF slotLoadNextPlugin
      <3> QED
        BY <2>1, <3>1 DEF UnloadInv, TypeOK, Wiring, ProtocolOutlivesAccounts, Registered,
                          endVars, Modes
    <2>3. CASE pluginsToLoad # <<>>
      <3> DEFINE p == pluginsToLoad[Len(pluginsToLoad)]
      <3>1. p \in Plugins /\ pluginsToLoad' \in Seq(Plugins)
        BY <1>2, <2>3, TopIsPlugin DEF slotLoadNextPlugin, UnloadInv, TypeOK
      <3>2. loadPluginInternal(p) /\ UNCHANGED <<mode, loadTimers>>
        BY <1>2, <2>3 DEF slotLoadNextPlugin
      <3> HIDE DEF p
      <3>3. /\ loadedPlugins' \subseteq Plugins /\ loadedPlugins \subseteq loadedPlugins'
            /\ account' \in [Accounts -> Statuses]
            /\ overtaken' \subseteq Plugins
            /\ doomed \subseteq loadedPlugins'
            /\ \A a \in endWatch \cup statusWatch : account'[a] # "none"
            /\ ProtocolOutlivesAccounts'
        BY <2>1, <3>1, <3>2, LoadKeeps
      <3> QED
        BY <2>1, <3>1, <3>2, <3>3 DEF UnloadInv, TypeOK, Wiring, endVars
    <2> QED
      BY <2>2, <2>3
  <1>3. CASE slotShutdownTimeout
    BY <1>3 DEF slotShutdownTimeout, SlotUnchanged, UnloadInv, TypeOK, Wiring,
                ProtocolOutlivesAccounts, Registered, queueVars, accountVars, Modes
  <1>4. CASE slotShutdownDone
    BY <1>4 DEF slotShutdownDone, SlotUnchanged, UnloadInv, TypeOK, Wiring,
                ProtocolOutlivesAccounts, Registered, queueVars, accountVars, Modes
  <1>5. ASSUME NEW a \in Accounts, DeleteAccount(a) PROVE UnloadInv'
    <2>1. /\ accountDestroyed(a)
          /\ UNCHANGED <<mode, enabled, configured, queueVars, loadedPlugins, unloading,
                         endVars, wizard, overtaken, disturbed>>
      BY <1>5 DEF DeleteAccount
    <2> QED
      BY <2>1, DestroyKeeps DEF UnloadInv, TypeOK, queueVars, endVars
  <1>6. ASSUME NEW p \in Plugins, DeletePlugin(p) PROVE UnloadInv'
    BY <1>6, DeleteKeeps
  <1> QED
    BY <1>1, <1>2, <1>3, <1>4, <1>5, <1>6 DEF Serve

LEMMA UserKeeps == UnloadInv /\ UserStep => UnloadInv'
  <1> SUFFICES ASSUME UnloadInv, UserStep PROVE UnloadInv'
    OBVIOUS
  <1>1. ASSUME NEW E \in SUBSET (Plugins \ Protocols), Apply(E) PROVE UnloadInv'
    <2>1. pluginsToLoad' \in Seq(Plugins)
      <3>1. PICK ps \in Listings(E \ loadedPlugins) : pluginsToLoad' = pluginsToLoad \o ps
        BY <1>1 DEF Apply
      <3>2. IsFiniteSet(E \ loadedPlugins)
        <4>1. E \ loadedPlugins \in SUBSET Plugins
          OBVIOUS
        <4> QED
          BY <4>1, SubsetsAreFinite
      <3>3. ps \in Seq(E \ loadedPlugins)
        BY <3>2, ListingsAreSequences
      <3>4. ps \in [1 .. Len(ps) -> E \ loadedPlugins] /\ Len(ps) \in Nat
        BY <3>3, LenProperties
      <3>5. ps \in [1 .. Len(ps) -> Plugins]
        BY <3>4
      <3>6. ps \in Seq(Plugins)
        BY <3>4, <3>5, SeqDef
      <3> QED
        BY <3>1, <3>6, ConcatProperties DEF UnloadInv, TypeOK
    <2>2. /\ aboutToUnload((loadedPlugins \ Protocols) \ E)
          /\ loadTimers' = loadTimers + 1
          /\ enabled' = E
          /\ overtaken' = overtaken \cup {p \in E : Leaving(p)}
                          \cup {p \in Plugins \ (Protocols \cup E) : Queued(p)}
          /\ UNCHANGED <<mode, configured, loadedPlugins, endVars, wizard, disturbed>>
      BY <1>1 DEF Apply
    <2>3. overtaken' \subseteq Plugins
      BY <2>2 DEF UnloadInv, TypeOK
    <2>4. (loadedPlugins \ Protocols) \ E \in SUBSET loadedPlugins
      OBVIOUS
    <2>5. /\ doomed' \subseteq Plugins /\ unloading' \subseteq Protocols
          /\ account' \in [Accounts -> Statuses]
          /\ condemned' \subseteq Accounts /\ statusWatch' \subseteq Accounts
          /\ endWatch' \subseteq Accounts
          /\ Wiring' /\ ProtocolOutlivesAccounts'
      BY <2>2, <2>4, TellKeeps
    <2> QED
      BY <2>1, <2>2, <2>3, <2>5 DEF UnloadInv, TypeOK, endVars
  <1>2. ASSUME NEW p \in Plugins, DcopLoad(p) PROVE UnloadInv'
    <2>1. /\ loadPluginInternal(p)
          /\ enabled' = enabled \cup ({p} \ Protocols)
          /\ UNCHANGED <<mode, configured, queueVars, doomed, unloading, condemned,
                         statusWatch, endWatch, endVars, wizard, disturbed>>
      BY <1>2 DEF DcopLoad
    <2>2. /\ loadedPlugins' \subseteq Plugins /\ loadedPlugins \subseteq loadedPlugins'
          /\ account' \in [Accounts -> Statuses]
          /\ overtaken' \subseteq Plugins
          /\ doomed \subseteq loadedPlugins'
          /\ \A a \in endWatch \cup statusWatch : account'[a] # "none"
          /\ ProtocolOutlivesAccounts'
      BY <2>1, LoadKeeps
    <2> QED
      BY <2>1, <2>2 DEF UnloadInv, TypeOK, Wiring, endVars, queueVars
  <1>3. ASSUME NEW p \in Plugins, DcopUnload(p) PROVE UnloadInv'
    <2>1. /\ aboutToUnload({p} \cap loadedPlugins)
          /\ enabled' = enabled \ {p}
          /\ overtaken' = overtaken \cup {x \in {p} \ Protocols : Queued(x)}
          /\ UNCHANGED <<mode, configured, queueVars, loadedPlugins, endVars, wizard,
                         disturbed>>
      BY <1>3 DEF DcopUnload
    <2>2. {p} \cap loadedPlugins \in SUBSET loadedPlugins
      OBVIOUS
    <2>3. /\ doomed' \subseteq Plugins /\ unloading' \subseteq Protocols
          /\ account' \in [Accounts -> Statuses]
          /\ condemned' \subseteq Accounts /\ statusWatch' \subseteq Accounts
          /\ endWatch' \subseteq Accounts
          /\ Wiring' /\ ProtocolOutlivesAccounts'
      BY <2>1, <2>2, TellKeeps
    <2> QED
      BY <2>1, <2>3 DEF UnloadInv, TypeOK, endVars, queueVars
  <1>4. ASSUME NEW p \in Protocols, WizardNext(p) PROVE UnloadInv'
    <2>1. /\ loadPluginInternal(p)
          /\ wizard' = IF p \in loadedPlugins' THEN p ELSE NoProtocol
          /\ UNCHANGED <<mode, enabled, configured, queueVars, doomed, unloading,
                         condemned, statusWatch, endWatch, endVars, disturbed>>
      BY <1>4 DEF WizardNext
    <2>2. p \in Plugins
      BY KopeteAssumption
    <2>3. /\ loadedPlugins' \subseteq Plugins /\ loadedPlugins \subseteq loadedPlugins'
          /\ account' \in [Accounts -> Statuses]
          /\ overtaken' \subseteq Plugins
          /\ doomed \subseteq loadedPlugins'
          /\ \A a \in endWatch \cup statusWatch : account'[a] # "none"
          /\ ProtocolOutlivesAccounts'
      BY <2>1, <2>2, LoadKeeps
    <2> QED
      BY <2>1, <2>3 DEF UnloadInv, TypeOK, Wiring, endVars, queueVars
  <1>5. CASE WizardReject
    BY <1>5 DEF WizardReject, UnloadInv, TypeOK, Wiring, ProtocolOutlivesAccounts, Registered,
                queueVars, accountVars, endVars
  <1>6. CASE shutdown
    <2>1. CASE mode = "Running"
      <3>1. /\ mode' = "ShuttingDown" /\ pluginsToLoad' = <<>> /\ deadline' = "set"
            /\ quitAsked' = TRUE /\ wizard' = NoProtocol
            /\ aboutToUnload(loadedPlugins)
            /\ UNCHANGED <<enabled, configured, loadTimers, loadedPlugins, doneTimers,
                           derefs, overtaken, disturbed>>
        BY <1>6, <2>1 DEF shutdown
      <3>2. loadedPlugins \in SUBSET loadedPlugins
        OBVIOUS
      <3>3. /\ doomed' \subseteq Plugins /\ unloading' \subseteq Protocols
            /\ account' \in [Accounts -> Statuses]
            /\ condemned' \subseteq Accounts /\ statusWatch' \subseteq Accounts
            /\ endWatch' \subseteq Accounts
            /\ Wiring' /\ ProtocolOutlivesAccounts'
        BY <3>1, <3>2, TellKeeps
      <3> QED
        BY <3>1, <3>3 DEF UnloadInv, TypeOK, Modes
    <2>2. CASE mode # "Running"
      <3>1. /\ quitAsked' = TRUE /\ wizard' = NoProtocol
            /\ UNCHANGED <<mode, pluginsToLoad, doomed, unloading, accountVars, deadline>>
            /\ UNCHANGED <<enabled, configured, loadTimers, loadedPlugins, doneTimers,
                           derefs, overtaken, disturbed>>
        BY <1>6, <2>2 DEF shutdown
      <3> QED
        BY <3>1 DEF UnloadInv, TypeOK, Wiring, ProtocolOutlivesAccounts, Registered, accountVars
    <2> QED
      BY <2>1, <2>2
  <1>7. ASSUME NEW a \in Accounts, WizardAccept(a) PROVE UnloadInv'
    <2>1. /\ wizard = Owner[a] /\ account[a] = "none"
          /\ account' = [account EXCEPT ![a] = "offline"]
          /\ configured' = configured \cup {a}
          /\ wizard' = NoProtocol
          /\ disturbed' = disturbed \cup ({Owner[a]} \cap unloading)
          /\ UNCHANGED <<mode, enabled, queueVars, loadedPlugins, doomed, unloading,
                         condemned, statusWatch, endWatch, endVars, overtaken>>
      BY <1>7 DEF WizardAccept
    <2>2. Owner[a] \in loadedPlugins /\ Owner[a] \in Protocols
      BY <2>1, KopeteAssumption DEF UnloadInv, Wiring
    <2>3. account' \in [Accounts -> Statuses]
      BY <2>1 DEF UnloadInv, TypeOK, Statuses
    <2>4. TypeOK'
      BY <2>1, <2>2, <2>3 DEF UnloadInv, TypeOK, queueVars, endVars
    <2>5. Wiring'
      <3>1. \A x \in endWatch' \cup statusWatch' : account'[x] # "none" /\ Owner[x] \in unloading'
        BY <2>1 DEF UnloadInv, TypeOK, Wiring
      <3> QED
        BY <2>1, <3>1 DEF UnloadInv, Wiring
    <2>6. ProtocolOutlivesAccounts'
      <3>1. \A p : p # Owner[a] => Registered(p)' = Registered(p)
        BY <2>1 DEF UnloadInv, TypeOK, Registered
      <3>2. Owner[a] \in doomed => Owner[a] \in disturbed'
        BY <2>1, <2>2 DEF UnloadInv, Wiring
      <3>3. \A x \in Accounts : account'[x] # "none" => Owner[x] \in loadedPlugins'
        BY <2>1, <2>2 DEF UnloadInv, TypeOK, ProtocolOutlivesAccounts
      <3> QED
        BY <2>1, <3>1, <3>2, <3>3 DEF UnloadInv, ProtocolOutlivesAccounts
    <2> QED
      BY <2>4, <2>5, <2>6 DEF UnloadInv
  <1>8. ASSUME NEW a \in Accounts, removeAccount(a) PROVE UnloadInv'
    <2>1. /\ accountDestroyed(a)
          /\ configured' = configured \ {a}
          /\ disturbed' = disturbed \cup ({Owner[a]} \cap unloading)
          /\ UNCHANGED <<mode, enabled, queueVars, loadedPlugins, unloading, endVars,
                         wizard, overtaken>>
      BY <1>8 DEF removeAccount
    <2>2. disturbed \subseteq disturbed' /\ disturbed' \subseteq Protocols
      BY <2>1 DEF UnloadInv, TypeOK
    <2> QED
      BY <2>1, <2>2, DestroyKeeps DEF UnloadInv, TypeOK, queueVars, endVars
  <1>9. ASSUME NEW a \in Accounts, connect(a) PROVE UnloadInv'
    <2>1. PICK st \in {"connecting", "online"} : account' = [account EXCEPT ![a] = st]
      BY <1>9 DEF connect
    <2>2. st \in Statuses \ {"none"} /\ account[a] # "none"
      BY <1>9, <2>1 DEF connect, Statuses
    <2> QED
      BY <1>9, <2>1, <2>2, StatusKeeps DEF connect
  <1>10. ASSUME NEW a \in Accounts, disconnect(a) PROVE UnloadInv'
    <2>1. "closing" \in Statuses \ {"none"} /\ account[a] # "none"
      BY <1>10 DEF disconnect, Statuses
    <2> QED
      BY <1>10, <2>1, StatusKeeps DEF disconnect
  <1> QED
    BY <1>1, <1>2, <1>3, <1>4, <1>5, <1>6, <1>7, <1>8, <1>9, <1>10 DEF UserStep

LEMMA OfflineKeeps == ASSUME UnloadInv, NEW a \in Accounts, Offline(a) PROVE UnloadInv'
  <1>1. /\ account' = [account EXCEPT ![a] = "offline"]
        /\ statusWatch' = statusWatch \ ({a} \cap statusWatch)
        /\ endWatch' = endWatch \cup ({a} \cap statusWatch)
        /\ condemned' = condemned \cup ({a} \cap statusWatch)
    BY DEF Offline
  <1>2. /\ statusWatch' \cup endWatch' = statusWatch \cup endWatch
        /\ condemned' \subseteq condemned \cup {a}
    BY <1>1
  <1>3. "offline" \in Statuses \ {"none"} /\ account[a] # "none"
    BY DEF Offline, Statuses
  <1> QED
    BY <1>1, <1>2, <1>3, StatusKeeps DEF Offline

(* The invariant holds always. *)
LEMMA UnloadInvHolds == Spec => []UnloadInv
  <1>1. UnloadInv /\ [Next]_vars => UnloadInv'
    <2> SUFFICES ASSUME UnloadInv, [Next]_vars PROVE UnloadInv'
      OBVIOUS
    <2>1. CASE UNCHANGED vars
      BY <2>1 DEF vars, UnloadInv, TypeOK, Wiring, ProtocolOutlivesAccounts, Registered
    <2> QED
      BY <2>1, ServeKeeps, UserKeeps, OfflineKeeps DEF Next
  <1> QED
    BY <1>1, InitHolds, PTL DEF Spec

----------------------------------------------------------------------------
(* EnabledIsLoaded speaks of a quiet state, and is not inductive: how Kopete *)
(* comes to be quiet is said by QueueInv.  As long as plug-ins are loaded,   *)
(* the queue has a timer, an enabled plug-in is loaded to stay or queued,    *)
(* and one that is not enabled is neither queued nor loaded to stay.         *)
Sound == Plugins \ (Protocols \cup Broken \cup overtaken)
Loading == mode \in {"StartingUp", "Running"}

Settled(p) ==
  /\ p \in enabled => \/ p \in loadedPlugins \ doomed
                      \/ p \notin loadedPlugins /\ Queued(p)
  /\ p \notin enabled => ~Queued(p) /\ (p \in loadedPlugins => p \in doomed)

QueueInv ==
  /\ mode = "Starting" => loadedPlugins = {} /\ pluginsToLoad = <<>>
  /\ Loading /\ pluginsToLoad # <<>> => loadTimers > 0
  /\ Loading => \A p \in Sound : Settled(p)

(* What a queue holds. *)
Holds(s, p) == \E i \in DOMAIN s : s[i] = p

LEMMA QueuedHolds ==
  ASSUME NEW p
  PROVE  (Queued(p) <=> Holds(pluginsToLoad, p)) /\ (Queued(p)' <=> Holds(pluginsToLoad', p))
  BY DEF Queued, Holds

(* A listing of a finite set leaves none of its members out. *)
LEMMA ListingsCover ==
  ASSUME NEW S, IsFiniteSet(S), NEW s \in Listings(S)
  PROVE  /\ DOMAIN s = 1 .. Len(s) /\ Len(s) \in Nat
         /\ \A x : x \in S <=> Holds(s, x)
  <1> DEFINE n == Cardinality(S)
  <1>1. n \in Nat
    BY FS_CardinalityType
  <1>2. s \in [1 .. n -> S] /\ \A i, j \in 1 .. n : s[i] = s[j] => i = j
    BY DEF Listings
  <1>3. s \in Injection(1 .. n, S)
    BY <1>2 DEF Injection, IsInjective
  <1>4. IsFiniteSet(1 .. n) /\ Cardinality(1 .. n) = n
    BY <1>1, FS_Interval
  <1>5. s \in Surjection(1 .. n, S)
    BY <1>3, <1>4, FS_Injection
  <1>6. \A x \in S : \E i \in 1 .. n : s[i] = x
    BY <1>5 DEF Surjection
  <1>7. Len(s) \in Nat /\ DOMAIN s = 1 .. Len(s)
    BY ListingsAreSequences, LenProperties
  <1>8. DOMAIN s = 1 .. n /\ \A i \in 1 .. n : s[i] \in S
    BY <1>2
  <1>9. \A x : x \in S <=> Holds(s, x)
    BY <1>6, <1>8 DEF Holds
  <1> QED
    BY <1>7, <1>9

(* What is in the concatenation of two queues is in one of them. *)
LEMMA ConcatQueued ==
  ASSUME NEW q \in Seq(Plugins), NEW r \in Seq(Plugins), NEW p
  PROVE  Holds(q \o r, p) <=> Holds(q, p) \/ Holds(r, p)
  <1>1. /\ Len(q) \in Nat /\ DOMAIN q = 1 .. Len(q)
        /\ Len(r) \in Nat /\ DOMAIN r = 1 .. Len(r)
        /\ DOMAIN (q \o r) = 1 .. Len(q) + Len(r)
        /\ \A i \in 1 .. Len(q) + Len(r) :
             (q \o r)[i] = IF i <= Len(q) THEN q[i] ELSE r[i - Len(q)]
    BY ConcatProperties, LenProperties
  <1>2. ASSUME NEW i \in DOMAIN (q \o r)
        PROVE  \/ i \in DOMAIN q /\ (q \o r)[i] = q[i]
               \/ i - Len(q) \in DOMAIN r /\ (q \o r)[i] = r[i - Len(q)]
    BY <1>1
  <1>3. ASSUME NEW i \in DOMAIN q PROVE i \in DOMAIN (q \o r) /\ (q \o r)[i] = q[i]
    BY <1>1
  <1>4. ASSUME NEW i \in DOMAIN r
        PROVE  i + Len(q) \in DOMAIN (q \o r) /\ (q \o r)[i + Len(q)] = r[i]
    BY <1>1
  <1> QED
    BY <1>2, <1>3, <1>4 DEF Holds

(* The queue without its top. *)
LEMMA PoppedQueued ==
  ASSUME NEW q \in Seq(Plugins), q # <<>>, NEW p
  PROVE  Holds(q, p) <=> Holds(SubSeq(q, 1, Len(q) - 1), p) \/ p = q[Len(q)]
  <1>1. Len(q) \in Nat /\ Len(q) > 0 /\ DOMAIN q = 1 .. Len(q)
    BY EmptySeq, LenProperties
  <1> DEFINE r == SubSeq(q, 1, Len(q) - 1)
  <1>2. r \in Seq(Plugins)
    BY TopIsPlugin
  <1>3. /\ DOMAIN r = 1 .. Len(q) - 1
        /\ \A i \in 1 .. Len(q) - 1 : r[i] = q[i]
    BY <1>1
  <1> HIDE DEF r
  <1>4. \A i \in DOMAIN q : i \in DOMAIN r \/ i = Len(q)
    BY <1>1, <1>3
  <1>5. \A i \in DOMAIN r : i \in DOMAIN q /\ r[i] = q[i]
    BY <1>1, <1>3
  <1>6. Len(q) \in DOMAIN q
    BY <1>1
  <1>7. Holds(q, p) <=> Holds(r, p) \/ p = q[Len(q)]
    BY <1>4, <1>5, <1>6 DEF Holds
  <1> QED
    BY <1>7 DEF r

(* What does not concern a plug-in leaves it settled. *)
LEMMA OthersSettled ==
  ASSUME NEW q, Settled(q), (q \in enabled') <=> (q \in enabled),
         (q \in loadedPlugins') <=> (q \in loadedPlugins), (q \in doomed') <=> (q \in doomed),
         Queued(q)' <=> Queued(q)
  PROVE  Settled(q)'
  BY DEF Settled

(* A load that does not meet an unload: the plug-in is there to stay. *)
LEMMA LoadedToStay ==
  ASSUME UnloadInv, NEW p \in Plugins, loadPluginInternal(p), UNCHANGED doomed
  PROVE  /\ p \in Sound' => p \in loadedPlugins' \ doomed'
         /\ \A q : q # p => ((q \in loadedPlugins') <=> (q \in loadedPlugins))
         /\ Sound' \subseteq Sound
  <1>1. overtaken' = overtaken \cup {x \in {p} \ Protocols : Leaving(x)}
    BY DEF loadPluginInternal
  <1>2. CASE p \in loadedPlugins \cup Broken
    BY <1>1, <1>2 DEF loadPluginInternal, Sound, Leaving
  <1>3. CASE p \notin loadedPlugins \cup Broken
    BY <1>1, <1>3 DEF loadPluginInternal, Sound, UnloadInv, Wiring
  <1> QED
    BY <1>2, <1>3

(* Telling plug-ins to unload dooms those that are no protocols at once. *)
LEMMA ToldAreDoomed ==
  ASSUME UnloadInv, NEW S \in SUBSET loadedPlugins, aboutToUnload(S), NEW q \in Sound
  PROVE  (q \in doomed') <=> (q \in doomed \/ q \in S)
  <1>1. doomed' = doomed \cup {p \in S : Registered(p) = {}}
    BY DEF aboutToUnload
  <1>2. Registered(q) = {}
    BY KopeteAssumption DEF Registered, Sound
  <1> QED
    BY <1>1, <1>2

(* The last of the accounts dooms protocols only. *)
LEMMA DestroyDoomsProtocols ==
  ASSUME NEW a \in Accounts, accountDestroyed(a), NEW q \in Sound
  PROVE  (q \in doomed') <=> (q \in doomed)
  BY KopeteAssumption DEF accountDestroyed, LastAccount, Sound

(* At the start the enabled plug-ins are queued above the protocols of the  *)
(* accounts, or none is enabled.                                            *)
LEMMA StartSettles ==
  ASSUME UnloadInv, QueueInv, slotLoadPlugins
  PROVE  QueueInv'
  <1>1. PICK os \in Listings(configured), ps \in Listings(enabled) :
          \/ /\ pluginsToLoad' = [i \in DOMAIN os |-> Owner[os[i]]] \o ps
             /\ loadTimers' = Len(os) + 1 /\ enabled' = enabled
          \/ /\ pluginsToLoad' = [i \in DOMAIN os |-> Owner[os[i]]]
             /\ loadTimers' = Len(os) /\ enabled' = {}
    BY DEF slotLoadPlugins
  <1>2. configured \in SUBSET Accounts /\ enabled \in SUBSET Plugins
    BY DEF UnloadInv, TypeOK
  <1>3. IsFiniteSet(configured) /\ IsFiniteSet(enabled)
    BY <1>2, SubsetsAreFinite
  <1> DEFINE protocols == [i \in DOMAIN os |-> Owner[os[i]]]
  <1>4. /\ DOMAIN os = 1 .. Len(os) /\ Len(os) \in Nat
        /\ \A x : x \in configured <=> Holds(os, x)
        /\ \A x : x \in enabled <=> Holds(ps, x)
    BY <1>3, ListingsCover
  <1>5. protocols \in Seq(Plugins) /\ ps \in Seq(Plugins)
    BY <1>2, StartQueues
  <1>6. DOMAIN protocols = 1 .. Len(os) /\ \A i \in DOMAIN protocols : protocols[i] \in Protocols
    <2>1. \A i \in DOMAIN os : os[i] \in Accounts
      BY <1>2, <1>4 DEF Holds
    <2> QED
      BY <1>4, <2>1, KopeteAssumption
  <1>7. /\ pluginsToLoad' \in {protocols, protocols \o ps}
        /\ pluginsToLoad' = protocols => loadTimers' \in {Len(os), Len(os) + 1}
        /\ pluginsToLoad' # protocols => loadTimers' = Len(os) + 1
    BY <1>1
  <1>8. mode = "Starting" /\ mode' = "StartingUp" /\ loadedPlugins = {} /\ loadedPlugins' = {}
    BY DEF slotLoadPlugins, QueueInv
  <1> HIDE DEF protocols
  <1>9. Len(os) = 0 => protocols = <<>>
    BY <1>5, <1>6, LenProperties, EmptySeq
  <1>10. pluginsToLoad' # <<>> => loadTimers' > 0
    BY <1>4, <1>7, <1>9
  <1>11. ASSUME NEW q \in Sound' PROVE Settled(q)'
    <2>1. q \notin Protocols
      BY <1>11 DEF Sound
    <2>2. ~Holds(protocols, q)
      BY <1>6, <2>1 DEF Holds
    <2>3. CASE pluginsToLoad' = protocols \o ps /\ enabled' = enabled
      <3>1. Queued(q)' <=> Holds(ps, q)
        BY <1>5, <2>2, <2>3, ConcatQueued, QueuedHolds
      <3>2. (q \in enabled') <=> Queued(q)'
        BY <1>4, <2>3, <3>1
      <3> QED
        BY <1>8, <3>2 DEF Settled
    <2>4. CASE pluginsToLoad' = protocols /\ enabled' = {}
      BY <1>8, <2>2, <2>4, QueuedHolds DEF Settled
    <2> QED
      BY <1>1, <2>3, <2>4 DEF protocols
  <1> QED
    BY <1>8, <1>10, <1>11 DEF QueueInv, Loading

(* The next plug-in is loaded, or the queue is empty and a timer has gone. *)
LEMMA NextSettles ==
  ASSUME UnloadInv, QueueInv, slotLoadNextPlugin
  PROVE  QueueInv'
  <1>1. /\ UNCHANGED <<enabled, doomed>>
        /\ mode # "Starting" /\ loadTimers > 0
        /\ mode' # "Starting" /\ (Loading' => Loading)
    BY DEF slotLoadNextPlugin, Alive, Loading
  <1>2. CASE pluginsToLoad = <<>>
    <2>1. UNCHANGED <<pluginsToLoad, loadedPlugins, overtaken>>
      BY <1>2 DEF slotLoadNextPlugin
    <2> QED
      BY <1>1, <1>2, <2>1 DEF QueueInv, Sound, Settled, Queued
  <1>3. CASE pluginsToLoad # <<>>
    <2> DEFINE p == pluginsToLoad[Len(pluginsToLoad)]
    <2>1. /\ pluginsToLoad' = SubSeq(pluginsToLoad, 1, Len(pluginsToLoad) - 1)
          /\ loadPluginInternal(p)
          /\ UNCHANGED <<mode, loadTimers>>
      BY <1>3 DEF slotLoadNextPlugin
    <2>2. p \in Plugins
      BY <1>3, TopIsPlugin DEF UnloadInv, TypeOK
    <2>3. \A q : Queued(q) <=> Queued(q)' \/ q = p
      BY <1>3, <2>1, PoppedQueued, QueuedHolds DEF UnloadInv, TypeOK
    <2> HIDE DEF p
    <2>4. /\ p \in Sound' => p \in loadedPlugins' \ doomed'
          /\ \A q : q # p => ((q \in loadedPlugins') <=> (q \in loadedPlugins))
          /\ Sound' \subseteq Sound
      BY <1>1, <2>1, <2>2, LoadedToStay
    <2>5. ASSUME Loading, NEW q \in Sound' PROVE Settled(q)'
      <3>1. Settled(q)
        BY <2>4, <2>5 DEF QueueInv
      <3>2. CASE q = p
        BY <1>1, <2>3, <2>4, <3>1, <3>2 DEF Settled
      <3>3. CASE q # p
        BY <1>1, <2>3, <2>4, <3>1, <3>3, OthersSettled
      <3> QED
        BY <3>2, <3>3
    <2> QED
      BY <1>1, <2>1, <2>5 DEF QueueInv
  <1> QED
    BY <1>2, <1>3

(* The user changes what is enabled. *)
LEMMA ApplySettles ==
  ASSUME UnloadInv, QueueInv, NEW E \in SUBSET (Plugins \ Protocols), Apply(E)
  PROVE  QueueInv'
  <1>1. PICK ps \in Listings(E \ loadedPlugins) : pluginsToLoad' = pluginsToLoad \o ps
    BY DEF Apply
  <1>2. /\ aboutToUnload((loadedPlugins \ Protocols) \ E)
        /\ loadTimers' = loadTimers + 1 /\ loadTimers' > 0
        /\ enabled' = E
        /\ overtaken' = overtaken \cup {p \in E : Leaving(p)}
                          \cup {p \in Plugins \ (Protocols \cup E) : Queued(p)}
        /\ UNCHANGED <<mode, loadedPlugins>> /\ mode # "Starting"
    BY DEF Apply, Shown, Alive, UnloadInv, TypeOK
  <1>3. ps \in Seq(Plugins) /\ \A q : q \in E \ loadedPlugins <=> Holds(ps, q)
    <2>1. E \ loadedPlugins \in SUBSET Plugins
      OBVIOUS
    <2>2. IsFiniteSet(E \ loadedPlugins)
      BY <2>1, SubsetsAreFinite
    <2>3. \A q : q \in E \ loadedPlugins <=> Holds(ps, q)
      BY <2>2, ListingsCover
    <2>4. DOMAIN ps = 1 .. Len(ps) /\ Len(ps) \in Nat /\ ps \in Seq(E \ loadedPlugins)
      BY <2>2, ListingsCover, ListingsAreSequences
    <2>5. ps \in [1 .. Len(ps) -> E \ loadedPlugins] /\ Len(ps) \in Nat
      BY <2>4, LenProperties
    <2>6. ps \in [1 .. Len(ps) -> Plugins]
      BY <2>5
    <2>7. ps \in Seq(Plugins)
      BY <2>5, <2>6, SeqDef
    <2> QED
      BY <2>3, <2>7
  <1>4. \A q : Queued(q)' <=> Queued(q) \/ q \in E \ loadedPlugins
    <2>1. pluginsToLoad \in Seq(Plugins)
      BY DEF UnloadInv, TypeOK
    <2> QED
      BY <1>1, <1>3, <2>1, ConcatQueued, QueuedHolds
  <1>5. Sound' \subseteq Sound
    BY <1>2 DEF Sound
  <1>6. (loadedPlugins \ Protocols) \ E \in SUBSET loadedPlugins
    OBVIOUS
  <1>7. \A q \in Sound' : (q \in doomed') <=> (q \in doomed \/ q \in loadedPlugins \ E)
    BY <1>2, <1>5, <1>6, ToldAreDoomed DEF Sound
  <1>8. ASSUME NEW q \in Sound', q \in E, q \in loadedPlugins PROVE q \notin doomed'
    BY <1>2, <1>7, <1>8 DEF Sound, Leaving
  <1>9. ASSUME NEW q \in Sound', q \notin E PROVE ~Queued(q)'
    BY <1>2, <1>4, <1>9 DEF Sound
  <1>10. ASSUME NEW q \in Sound' PROVE Settled(q)'
    BY <1>2, <1>4, <1>7, <1>8, <1>9 DEF Settled
  <1> QED
    BY <1>2, <1>10 DEF QueueInv

(* D-COP loads a plug-in at once ... *)
LEMMA DcopLoadSettles ==
  ASSUME UnloadInv, QueueInv, NEW p \in Plugins, DcopLoad(p)
  PROVE  QueueInv'
  <1>1. /\ loadPluginInternal(p)
        /\ enabled' = enabled \cup ({p} \ Protocols)
        /\ UNCHANGED <<mode, pluginsToLoad, loadTimers, doomed>> /\ mode # "Starting"
    BY DEF DcopLoad, Alive, queueVars
  <1>2. /\ p \in Sound' => p \in loadedPlugins' \ doomed'
        /\ \A q : q # p => ((q \in loadedPlugins') <=> (q \in loadedPlugins))
        /\ Sound' \subseteq Sound
    BY <1>1, LoadedToStay
  <1>3. \A q : Queued(q)' <=> Queued(q)
    BY <1>1 DEF Queued
  <1>4. ASSUME Loading, NEW q \in Sound' PROVE Settled(q)'
    <2>1. CASE q = p
      BY <1>1, <1>2, <2>1 DEF Settled, Sound
    <2>2. CASE q # p
      <3>1. Settled(q)
        BY <1>2, <1>4 DEF QueueInv
      <3>2. (q \in enabled') <=> (q \in enabled)
        BY <1>1, <2>2
      <3>3. (q \in loadedPlugins') <=> (q \in loadedPlugins)
        BY <1>2, <2>2
      <3> QED
        BY <1>1, <1>3, <3>1, <3>2, <3>3, OthersSettled
    <2> QED
      BY <2>1, <2>2
  <1> QED
    BY <1>1, <1>4 DEF QueueInv, Loading

(* ... and tells one to unload. *)
LEMMA DcopUnloadSettles ==
  ASSUME UnloadInv, QueueInv, NEW p \in Plugins, DcopUnload(p)
  PROVE  QueueInv'
  <1>1. /\ aboutToUnload({p} \cap loadedPlugins)
        /\ enabled' = enabled \ {p}
        /\ overtaken' = overtaken \cup {x \in {p} \ Protocols : Queued(x)}
        /\ UNCHANGED <<mode, pluginsToLoad, loadTimers, loadedPlugins>> /\ mode # "Starting"
    BY DEF DcopUnload, Alive, queueVars
  <1>2. Sound' \subseteq Sound
    BY <1>1 DEF Sound
  <1>3. {p} \cap loadedPlugins \in SUBSET loadedPlugins
    OBVIOUS
  <1>4. \A q \in Sound' : (q \in doomed') <=> (q \in doomed \/ (q = p /\ p \in loadedPlugins))
    BY <1>1, <1>2, <1>3, ToldAreDoomed
  <1>5. \A q : Queued(q)' <=> Queued(q)
    BY <1>1 DEF Queued
  <1>6. ASSUME Loading, NEW q \in Sound' PROVE Settled(q)'
    <2>1. CASE q = p
      <3>1. q \notin enabled' /\ ~Queued(q)
        BY <1>1, <2>1 DEF Sound
      <3> QED
        BY <1>1, <1>4, <1>5, <2>1, <3>1 DEF Settled
    <2>2. CASE q # p
      <3>1. Settled(q)
        BY <1>2, <1>6 DEF QueueInv
      <3> QED
        BY <1>1, <1>4, <1>5, <2>2, <3>1, OthersSettled
    <2> QED
      BY <2>1, <2>2
  <1> QED
    BY <1>1, <1>6 DEF QueueInv, Loading

(* The wizard loads protocols. *)
LEMMA WizardSettles ==
  ASSUME UnloadInv, QueueInv, NEW p \in Protocols, WizardNext(p)
  PROVE  QueueInv'
  <1>1. /\ loadPluginInternal(p)
        /\ UNCHANGED <<mode, enabled, pluginsToLoad, loadTimers, doomed>> /\ mode # "Starting"
    BY DEF WizardNext, Shown, Alive, queueVars
  <1>2. p \in Plugins
    BY KopeteAssumption
  <1>3. /\ \A q : q # p => ((q \in loadedPlugins') <=> (q \in loadedPlugins))
        /\ Sound' \subseteq Sound
    BY <1>1, <1>2, LoadedToStay
  <1>4. \A q : Queued(q)' <=> Queued(q)
    BY <1>1 DEF Queued
  <1>5. ASSUME Loading, NEW q \in Sound' PROVE Settled(q)'
    <2>1. q # p
      BY <1>5 DEF Sound
    <2>2. Settled(q)
      BY <1>3, <1>5 DEF QueueInv
    <2> QED
      BY <1>1, <1>3, <1>4, <2>1, <2>2, OthersSettled
  <1> QED
    BY <1>1, <1>5 DEF QueueInv, Loading

(* A plug-in that is no protocol goes only if it is not enabled. *)
LEMMA DeleteSettles ==
  ASSUME UnloadInv, QueueInv, NEW p \in Plugins, DeletePlugin(p)
  PROVE  QueueInv'
  <1>1. /\ loadedPlugins' = loadedPlugins \ {p} /\ doomed' = doomed \ {p} /\ p \in doomed
        /\ UNCHANGED <<mode, enabled, pluginsToLoad, loadTimers, overtaken>> /\ mode # "Starting"
    BY DEF DeletePlugin, Alive, queueVars
  <1>2. p \in loadedPlugins
    BY <1>1 DEF UnloadInv, Wiring
  <1>3. \A q : Queued(q)' <=> Queued(q)
    BY <1>1 DEF Queued
  <1>4. ASSUME Loading, NEW q \in Sound' PROVE Settled(q)'
    <2>1. Settled(q)
      BY <1>1, <1>4 DEF QueueInv, Sound
    <2>2. CASE q = p
      BY <1>1, <1>2, <1>3, <2>1, <2>2 DEF Settled
    <2>3. CASE q # p
      BY <1>1, <1>3, <2>1, <2>3, OthersSettled
    <2> QED
      BY <2>2, <2>3
  <1> QED
    BY <1>1, <1>4 DEF QueueInv, Loading

(* What only the accounts are concerned with. *)
LEMMA AccountsSettle ==
  ASSUME QueueInv, UNCHANGED <<mode, enabled, queueVars, loadedPlugins, overtaken>>,
         \A q \in Sound : (q \in doomed') <=> (q \in doomed)
  PROVE  QueueInv'
  <1>1. UNCHANGED <<mode, enabled, pluginsToLoad, loadTimers, loadedPlugins, overtaken>>
    BY DEF queueVars
  <1>2. Sound' = Sound /\ \A q : Queued(q)' <=> Queued(q)
    BY <1>1 DEF Sound, Queued
  <1>3. \A q \in Sound : Settled(q) => Settled(q)'
    BY <1>1, <1>2, OthersSettled
  <1> QED
    BY <1>1, <1>2, <1>3 DEF QueueInv, Loading

(* Every step keeps QueueInv. *)
LEMMA QueueInvStep == UnloadInv /\ QueueInv /\ [Next]_vars => QueueInv'
  <1> SUFFICES ASSUME UnloadInv, QueueInv, [Next]_vars PROVE QueueInv'
    OBVIOUS
  <1>1. CASE UNCHANGED vars
    BY <1>1 DEF vars, QueueInv, Loading, Sound, Settled, Queued
  <1>2. CASE slotLoadPlugins
    BY <1>2, StartSettles
  <1>3. CASE slotLoadNextPlugin
    BY <1>3, NextSettles
  <1>4. CASE slotShutdownTimeout \/ slotShutdownDone
    <2>1. \/ mode' = "DoneShutdown"
          \/ UNCHANGED <<mode, enabled, queueVars, loadedPlugins, overtaken, doomed>>
      BY <1>4 DEF slotShutdownTimeout, slotShutdownDone, SlotUnchanged
    <2>2. CASE mode' = "DoneShutdown"
      BY <2>2 DEF QueueInv, Loading
    <2>3. CASE UNCHANGED <<mode, enabled, queueVars, loadedPlugins, overtaken, doomed>>
      BY <2>3, AccountsSettle
    <2> QED
      BY <2>1, <2>2, <2>3
  <1>5. ASSUME NEW a \in Accounts, DeleteAccount(a) \/ removeAccount(a) PROVE QueueInv'
    BY <1>5, DestroyDoomsProtocols, AccountsSettle DEF DeleteAccount, removeAccount
  <1>6. ASSUME NEW p \in Plugins, DeletePlugin(p) PROVE QueueInv'
    BY <1>6, DeleteSettles
  <1>7. ASSUME NEW E \in SUBSET (Plugins \ Protocols), Apply(E) PROVE QueueInv'
    BY <1>7, ApplySettles
  <1>8. ASSUME NEW p \in Plugins, DcopLoad(p) \/ DcopUnload(p) PROVE QueueInv'
    BY <1>8, DcopLoadSettles, DcopUnloadSettles
  <1>9. ASSUME NEW p \in Protocols, WizardNext(p) PROVE QueueInv'
    BY <1>9, WizardSettles
  <1>10. CASE WizardReject
    BY <1>10, AccountsSettle DEF WizardReject
  <1>11. CASE shutdown
    <2>1. mode # "Starting"
      BY <1>11 DEF shutdown, Shown, Alive
    <2>2. CASE mode = "Running"
      BY <1>11, <2>2 DEF shutdown, QueueInv, Loading
    <2>3. CASE mode # "Running"
      BY <1>11, <2>3, AccountsSettle DEF shutdown, queueVars
    <2> QED
      BY <2>2, <2>3
  <1>12. ASSUME NEW a \in Accounts,
                WizardAccept(a) \/ connect(a) \/ disconnect(a) \/ Offline(a)
         PROVE  QueueInv'
    <2>1. UNCHANGED <<mode, enabled, queueVars, loadedPlugins, overtaken, doomed>>
      BY <1>12 DEF WizardAccept, connect, disconnect, Offline
    <2> QED
      BY <2>1, AccountsSettle
  <1> QED
    BY <1>1, <1>2, <1>3, <1>4, <1>5, <1>6, <1>7, <1>8, <1>9, <1>10, <1>11, <1>12
       DEF Next, Serve, UserStep

LEMMA QueueInvHolds == Spec => []QueueInv
  <1>1. Init => QueueInv
    BY DEF Init, QueueInv, Loading
  <1> QED
    BY <1>1, QueueInvStep, UnloadInvHolds, PTL DEF Spec

(* The manager's variables have their types: the queue holds installed     *)
(* plug-ins, and only protocols wait for accounts.                         *)
THEOREM KopeteTypes == Spec => []TypeOK
  <1>1. UnloadInv => TypeOK
    BY DEF UnloadInv
  <1> QED
    BY <1>1, UnloadInvHolds, PTL

(* A protocol's deferred delete waits for the last of its accounts, unless *)
(* the user added or removed one while it was unloading; and no account    *)
(* outlives its protocol, however unloads, reloads and lost connections    *)
(* interleave (kopeteprotocol.cpp, ~Protocol and slotAccountDestroyed).    *)
THEOREM ProtocolsOutliveAccounts == Spec => []ProtocolOutlivesAccounts
  <1>1. UnloadInv => ProtocolOutlivesAccounts
    BY DEF UnloadInv
  <1> QED
    BY <1>1, UnloadInvHolds, PTL

(* When no timer of the queue and no deferred delete is pending, the       *)
(* plug-ins that are loaded are those that are enabled, whatever the order *)
(* in which the user and D-COP had them loaded and unloaded: broken ones,  *)
(* and those whose load met an unload, are the only exceptions             *)
(* (kopetepluginmanager.cpp, loadAllPlugins and slotLoadNextPlugin).       *)
THEOREM EnabledAreLoaded == Spec => []EnabledIsLoaded
  <1>1. UnloadInv /\ QueueInv => EnabledIsLoaded
    <2> SUFFICES ASSUME UnloadInv, QueueInv, mode = "Running", loadTimers = 0, doomed = {},
                        NEW p \in Sound
                 PROVE  p \in enabled <=> p \in loadedPlugins
      BY DEF EnabledIsLoaded, Sound
    <2>1. Settled(p) /\ pluginsToLoad = <<>>
      BY DEF QueueInv, Loading
    <2>2. ~Queued(p)
      BY <2>1 DEF Queued
    <2> QED
      BY <2>1, <2>2 DEF Settled
  <1> QED
    BY <1>1, UnloadInvHolds, QueueInvHolds, PTL
=============================================================================
