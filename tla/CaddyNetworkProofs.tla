------------------------- MODULE CaddyNetworkProofs -------------------------
(***************************************************************************)
(* Theorems about CaddyNetwork, for any machines and services: types, that *)
(* no stopped machine is routed to, that a successful PATCH makes routes   *)
(* and cache agree, and that the static routes are kept.                   *)
(***************************************************************************)
EXTENDS CaddyNetwork, TLAPS

(* A call that returns changes no machine but the one that leaves. *)
LEMMA ReturnSpares ==
  ASSUME TypeOK, LockFits, NEW ok \in BOOLEAN, Return(ok), NEW m \in Machine
  PROVE  vm'[m] = vm[m] \/ (vm[m] = "leaving" /\ vm'[m] \in {"unlisted", "stray"})
<1>1. CASE lock.call = "delete"
  <2>1. lock.machine \in Machine /\ vm[lock.machine] = "leaving"
    BY <1>1 DEF LockFits
  <2>2. vm' = [vm EXCEPT ![lock.machine] = IF ok THEN "unlisted" ELSE "stray"]
    BY <1>1 DEF Return
  <2> QED
    BY <2>1, <2>2 DEF TypeOK
<1>2. CASE lock.call # "delete"
  BY <1>2 DEF Return
<1> QED
  BY <1>1, <1>2

(* Types; the entries of the cache are those with addresses. *)
LEMMA TypeStep ==
  ASSUME TypeOK, Created, [Next]_vars PROVE TypeOK'
<1> USE DEF TypeOK, Created, Released, NoRoutes
<1>1. ASSUME NEW m \in Machine, Create(m) PROVE TypeOK'
  BY <1>1 DEF Create
<1>2. ASSUME NEW m \in Machine, PollerAnswered(m) PROVE TypeOK'
  BY <1>2 DEF PollerAnswered
<1>3. ASSUME NEW m \in Machine, AddServiceIP(m) PROVE TypeOK'
  BY <1>3 DEF AddServiceIP
<1>4. ASSUME NEW m \in Machine, DeleteServiceIP(m) PROVE TypeOK'
  BY <1>4 DEF DeleteServiceIP
<1>5. ASSUME NEW m \in Machine, StopVM(m) PROVE TypeOK'
  BY <1>5 DEF StopVM
<1>6. CASE ReloadApplied
  BY <1>6 DEF ReloadApplied, Return, Config
<1>7. CASE ReloadRefused
  BY <1>7 DEF ReloadRefused, Return
<1>8. CASE ReloadFails
  <2>1. Config \in [base : BOOLEAN, old : [Service -> SUBSET Machine],
                                    new : [Service -> SUBSET Machine]]
    BY DEF Config
  <2>2. vm' \in [Machine -> {"off", "up", "leaving", "unlisted", "stray", "stopped"}]
    BY <1>8 DEF ReloadFails, Return
  <2>3. proxy' \in [base : BOOLEAN, old : [Service -> SUBSET Machine],
                                    new : [Service -> SUBSET Machine]]
    BY <1>8, <2>1 DEF ReloadFails
  <2> QED
    BY <1>8, <2>2, <2>3 DEF ReloadFails, Return
<1>9. CASE CaddyRestarts
  BY <1>9 DEF CaddyRestarts, world, NoRoutes
<1>10. CASE DaemonRestarts
  <2>1. [s \in Service |-> Routed(s)] \in [Service -> SUBSET Machine]
    BY DEF Routed
  <2>2. permanent' \in [base : BOOLEAN, routes : [Service -> SUBSET Machine]]
    <3>1. NoRoutes \in [Service -> SUBSET Machine]
      OBVIOUS
    <3>2. CASE permanent' = [base |-> proxy.base, routes |-> [s \in Service |-> Routed(s)]]
      BY <3>2, <2>1
    <3>3. CASE permanent' = [base |-> FALSE, routes |-> NoRoutes]
      BY <3>3, <3>1
    <3> QED
      BY <1>10, <3>2, <3>3 DEF DaemonRestarts
  <2>3. spoiled' \in [refused : BOOLEAN, start : BOOLEAN, late : SUBSET Machine]
    BY <1>10 DEF DaemonRestarts
  <2>4. keys' = {s \in Service : cache'[s] # {}} /\ cache' \in [Service -> SUBSET Machine]
    BY <1>10 DEF DaemonRestarts
  <2>5. vm' \in [Machine -> {"off", "up", "leaving", "unlisted", "stray", "stopped"}]
    BY <1>10 DEF DaemonRestarts
  <2> QED
    BY <1>10, <2>2, <2>3, <2>4, <2>5 DEF DaemonRestarts
<1>11. CASE UNCHANGED vars
  BY <1>11 DEF vars
<1> QED
  BY <1>1, <1>2, <1>3, <1>4, <1>5, <1>6, <1>7, <1>8, <1>9, <1>10, <1>11 DEF Next

(* A machine is created once, and has a service from then on. *)
LEMMA CreatedStep ==
  ASSUME TypeOK, Created, LockFits, [Next]_vars PROVE Created'
<1> USE DEF TypeOK, Created
<1>1. ASSUME NEW m \in Machine, Create(m) PROVE Created'
  BY <1>1 DEF Create
<1>2. ASSUME NEW m \in Machine, PollerAnswered(m) PROVE Created'
  BY <1>2 DEF PollerAnswered
<1>3. ASSUME NEW m \in Machine, AddServiceIP(m) PROVE Created'
  BY <1>3 DEF AddServiceIP
<1>4. ASSUME NEW m \in Machine, DeleteServiceIP(m) PROVE Created'
  BY <1>4 DEF DeleteServiceIP
<1>5. ASSUME NEW m \in Machine, StopVM(m) PROVE Created'
  BY <1>5 DEF StopVM
<1>6. CASE ReloadApplied
  <2>1. UNCHANGED <<poller, owner, spoiled.late>>
    BY <1>6 DEF ReloadApplied, Return
  <2>2. \A m \in Machine : vm'[m] = vm[m] \/ (vm[m] = "leaving" /\ vm'[m] # "off")
    <3>1. Return(TRUE)
      BY <1>6 DEF ReloadApplied
    <3> QED
      BY <3>1, ReturnSpares
  <2> QED
    BY <2>1, <2>2
<1>7. CASE ReloadRefused
  <2>1. UNCHANGED <<poller, owner, spoiled.late>>
    BY <1>7 DEF ReloadRefused, Return
  <2>2. \A m \in Machine : vm'[m] = vm[m] \/ (vm[m] = "leaving" /\ vm'[m] # "off")
    <3>1. Return(TRUE)
      BY <1>7 DEF ReloadRefused
    <3> QED
      BY <3>1, ReturnSpares
  <2> QED
    BY <2>1, <2>2
<1>8. CASE ReloadFails
  <2>1. UNCHANGED <<poller, owner, spoiled.late>>
    BY <1>8 DEF ReloadFails, Return
  <2>2. \A m \in Machine : vm'[m] = vm[m] \/ (vm[m] = "leaving" /\ vm'[m] # "off")
    <3>1. Return(FALSE)
      BY <1>8 DEF ReloadFails
    <3> QED
      BY <3>1, ReturnSpares
  <2> QED
    BY <2>1, <2>2
<1>9. CASE CaddyRestarts
  BY <1>9 DEF CaddyRestarts, world, NoRoutes
<1>10. CASE DaemonRestarts
  BY <1>10 DEF DaemonRestarts, Routed, NoRoutes, Released
<1>11. CASE UNCHANGED vars
  BY <1>11 DEF vars
<1> QED
  BY <1>1, <1>2, <1>3, <1>4, <1>5, <1>6, <1>7, <1>8, <1>9, <1>10, <1>11 DEF Next

(* Who is in the cache is in service, or was added late. *)
LEMMA CacheStep ==
  ASSUME TypeOK, Created, CacheFits, LockFits, [Next]_vars PROVE CacheFits'
<1> USE DEF TypeOK, Created, CacheFits, LockFits, NoRoutes, Released
<1>1. ASSUME NEW m \in Machine, Create(m) PROVE CacheFits'
  BY <1>1 DEF Create
<1>2. ASSUME NEW m \in Machine, PollerAnswered(m) PROVE CacheFits'
  BY <1>2 DEF PollerAnswered
<1>3. ASSUME NEW m \in Machine, AddServiceIP(m) PROVE CacheFits'
  BY <1>3 DEF AddServiceIP
<1>4. ASSUME NEW m \in Machine, DeleteServiceIP(m) PROVE CacheFits'
  BY <1>4 DEF DeleteServiceIP
<1>5. ASSUME NEW m \in Machine, StopVM(m) PROVE CacheFits'
  BY <1>5 DEF StopVM
<1>6. CASE ReloadApplied
  <2>1. UNCHANGED <<cache, owner, spoiled.late>>
    BY <1>6 DEF ReloadApplied, Return
  <2>2. \A m \in Machine : vm[m] = "up" => vm'[m] = "up"
    <3>1. Return(TRUE)
      BY <1>6 DEF ReloadApplied
    <3> QED
      BY <3>1, ReturnSpares
  <2> QED
    BY <2>1, <2>2
<1>7. CASE ReloadRefused
  <2>1. UNCHANGED <<cache, owner, spoiled.late>>
    BY <1>7 DEF ReloadRefused, Return
  <2>2. \A m \in Machine : vm[m] = "up" => vm'[m] = "up"
    <3>1. Return(TRUE)
      BY <1>7 DEF ReloadRefused
    <3> QED
      BY <3>1, ReturnSpares
  <2> QED
    BY <2>1, <2>2
<1>8. CASE ReloadFails
  <2>1. UNCHANGED <<cache, owner, spoiled.late>>
    BY <1>8 DEF ReloadFails, Return
  <2>2. \A m \in Machine : vm[m] = "up" => vm'[m] = "up"
    <3>1. Return(FALSE)
      BY <1>8 DEF ReloadFails
    <3> QED
      BY <3>1, ReturnSpares
  <2> QED
    BY <2>1, <2>2
<1>9. CASE CaddyRestarts
  BY <1>9 DEF CaddyRestarts, world, NoRoutes
<1>10. CASE DaemonRestarts
  BY <1>10 DEF DaemonRestarts, Routed, NoRoutes, Released
<1>11. CASE UNCHANGED vars
  BY <1>11 DEF vars
<1> QED
  BY <1>1, <1>2, <1>3, <1>4, <1>5, <1>6, <1>7, <1>8, <1>9, <1>10, <1>11 DEF Next

(* The machine a deletion is about leaves until the lock is released. *)
LEMMA LockStep ==
  ASSUME TypeOK, LockFits, [Next]_vars PROVE LockFits'
<1> USE DEF TypeOK, LockFits, Released
<1>1. ASSUME NEW m \in Machine, Create(m) PROVE LockFits'
  BY <1>1 DEF Create
<1>2. ASSUME NEW m \in Machine, PollerAnswered(m) PROVE LockFits'
  BY <1>2 DEF PollerAnswered
<1>3. ASSUME NEW m \in Machine, AddServiceIP(m) PROVE LockFits'
  BY <1>3 DEF AddServiceIP
<1>4. ASSUME NEW m \in Machine, DeleteServiceIP(m) PROVE LockFits'
  BY <1>4 DEF DeleteServiceIP
<1>5. ASSUME NEW m \in Machine, StopVM(m) PROVE LockFits'
  BY <1>5 DEF StopVM
<1>6. CASE ReloadApplied
  BY <1>6 DEF ReloadApplied, Return, Config
<1>7. CASE ReloadRefused
  BY <1>7 DEF ReloadRefused, Return
<1>8. CASE ReloadFails
  BY <1>8 DEF ReloadFails, Return, Config
<1>9. CASE CaddyRestarts
  BY <1>9 DEF CaddyRestarts, world, NoRoutes
<1>10. CASE DaemonRestarts
  BY <1>10 DEF DaemonRestarts, Routed, NoRoutes, Released
<1>11. CASE UNCHANGED vars
  BY <1>11 DEF vars
<1> QED
  BY <1>1, <1>2, <1>3, <1>4, <1>5, <1>6, <1>7, <1>8, <1>9, <1>10, <1>11 DEF Next

(* The routes found at a start lead to machines nobody stops. *)
LEMMA PermanentStep ==
  ASSUME TypeOK, Created, LockFits, PermanentFits, ProxyFits, [Next]_vars PROVE PermanentFits'
<1> USE DEF TypeOK, Created, LockFits, PermanentFits, ProxyFits, Excused, Released
<1>1. ASSUME NEW m \in Machine, Create(m) PROVE PermanentFits'
  BY <1>1 DEF Create
<1>2. ASSUME NEW m \in Machine, PollerAnswered(m) PROVE PermanentFits'
  BY <1>2 DEF PollerAnswered
<1>3. ASSUME NEW m \in Machine, AddServiceIP(m) PROVE PermanentFits'
  BY <1>3 DEF AddServiceIP
<1>4. ASSUME NEW m \in Machine, DeleteServiceIP(m) PROVE PermanentFits'
  BY <1>4 DEF DeleteServiceIP
<1>5. ASSUME NEW m \in Machine, StopVM(m) PROVE PermanentFits'
  BY <1>5 DEF StopVM
<1>6. CASE ReloadApplied
  BY <1>6 DEF ReloadApplied, Return, Config
<1>7. CASE ReloadRefused
  BY <1>7 DEF ReloadRefused, Return
<1>8. CASE ReloadFails
  BY <1>8 DEF ReloadFails, Return, Config
<1>9. CASE CaddyRestarts
  BY <1>9 DEF CaddyRestarts, world, NoRoutes
<1>10. CASE DaemonRestarts
  BY <1>10 DEF DaemonRestarts, Routed, NoRoutes, Released
<1>11. CASE UNCHANGED vars
  BY <1>11 DEF vars
<1> QED
  BY <1>1, <1>2, <1>3, <1>4, <1>5, <1>6, <1>7, <1>8, <1>9, <1>10, <1>11 DEF Next

(* Who is in the routes of Caddy has not been stopped. *)
LEMMA ProxyStep ==
  ASSUME TypeOK, Created, CacheFits, LockFits, PermanentFits, ProxyFits, [Next]_vars PROVE ProxyFits'
<1> USE DEF TypeOK, Created, CacheFits, LockFits, PermanentFits, ProxyFits, Excused, Released
<1>1. ASSUME NEW m \in Machine, Create(m) PROVE ProxyFits'
  BY <1>1 DEF Create
<1>2. ASSUME NEW m \in Machine, PollerAnswered(m) PROVE ProxyFits'
  BY <1>2 DEF PollerAnswered
<1>3. ASSUME NEW m \in Machine, AddServiceIP(m) PROVE ProxyFits'
  BY <1>3 DEF AddServiceIP
<1>4. ASSUME NEW m \in Machine, DeleteServiceIP(m) PROVE ProxyFits'
  BY <1>4 DEF DeleteServiceIP
<1>5. ASSUME NEW m \in Machine, StopVM(m) PROVE ProxyFits'
  BY <1>5 DEF StopVM
<1>6. CASE ReloadApplied
  BY <1>6 DEF ReloadApplied, Return, Config
<1>7. CASE ReloadRefused
  BY <1>7 DEF ReloadRefused, Return
<1>8. CASE ReloadFails
  BY <1>8 DEF ReloadFails, Return, Config
<1>9. CASE CaddyRestarts
  BY <1>9 DEF CaddyRestarts, world, NoRoutes
<1>10. CASE DaemonRestarts
  BY <1>10 DEF DaemonRestarts, Routed, NoRoutes, Released
<1>11. CASE UNCHANGED vars
  BY <1>11 DEF vars
<1> QED
  BY <1>1, <1>2, <1>3, <1>4, <1>5, <1>6, <1>7, <1>8, <1>9, <1>10, <1>11 DEF Next

(* Every change of the cache is followed by a PATCH under the lock. *)
LEMMA SyncStep ==
  ASSUME TypeOK, LockFits, SyncFits, [Next]_vars PROVE SyncFits'
<1> USE DEF TypeOK, LockFits, SyncFits, Config, Released
<1>1. ASSUME NEW m \in Machine, Create(m) PROVE SyncFits'
  BY <1>1 DEF Create
<1>2. ASSUME NEW m \in Machine, PollerAnswered(m) PROVE SyncFits'
  BY <1>2 DEF PollerAnswered
<1>3. ASSUME NEW m \in Machine, AddServiceIP(m) PROVE SyncFits'
  BY <1>3 DEF AddServiceIP
<1>4. ASSUME NEW m \in Machine, DeleteServiceIP(m) PROVE SyncFits'
  BY <1>4 DEF DeleteServiceIP
<1>5. ASSUME NEW m \in Machine, StopVM(m) PROVE SyncFits'
  BY <1>5 DEF StopVM
<1>6. CASE ReloadApplied
  BY <1>6 DEF ReloadApplied, Return, Config
<1>7. CASE ReloadRefused
  BY <1>7 DEF ReloadRefused, Return
<1>8. CASE ReloadFails
  BY <1>8 DEF ReloadFails, Return, Config
<1>9. CASE CaddyRestarts
  BY <1>9 DEF CaddyRestarts, world, NoRoutes
<1>10. CASE DaemonRestarts
  BY <1>10 DEF DaemonRestarts, Routed, NoRoutes, Released
<1>11. CASE UNCHANGED vars
  BY <1>11 DEF vars
<1> QED
  BY <1>1, <1>2, <1>3, <1>4, <1>5, <1>6, <1>7, <1>8, <1>9, <1>10, <1>11 DEF Next

(* The static routes are in every PATCH. *)
LEMMA BaseStep ==
  ASSUME TypeOK, BaseFits, [Next]_vars PROVE BaseFits'
<1> USE DEF TypeOK, BaseFits
<1>1. ASSUME NEW m \in Machine, Create(m) PROVE BaseFits'
  BY <1>1 DEF Create
<1>2. ASSUME NEW m \in Machine, PollerAnswered(m) PROVE BaseFits'
  BY <1>2 DEF PollerAnswered
<1>3. ASSUME NEW m \in Machine, AddServiceIP(m) PROVE BaseFits'
  BY <1>3 DEF AddServiceIP
<1>4. ASSUME NEW m \in Machine, DeleteServiceIP(m) PROVE BaseFits'
  BY <1>4 DEF DeleteServiceIP
<1>5. ASSUME NEW m \in Machine, StopVM(m) PROVE BaseFits'
  BY <1>5 DEF StopVM
<1>6. CASE ReloadApplied
  BY <1>6 DEF ReloadApplied, Return, Config
<1>7. CASE ReloadRefused
  BY <1>7 DEF ReloadRefused, Return
<1>8. CASE ReloadFails
  BY <1>8 DEF ReloadFails, Return, Config
<1>9. CASE CaddyRestarts
  BY <1>9 DEF CaddyRestarts, world, NoRoutes
<1>10. CASE DaemonRestarts
  BY <1>10 DEF DaemonRestarts, Routed, NoRoutes, Released
<1>11. CASE UNCHANGED vars
  BY <1>11 DEF vars
<1> QED
  BY <1>1, <1>2, <1>3, <1>4, <1>5, <1>6, <1>7, <1>8, <1>9, <1>10, <1>11 DEF Next

(* The step lemmas together: the invariant is inductive. *)
THEOREM InvariantHolds == Spec => [](TypeOK /\ Inductive)
<1>1. Init => TypeOK /\ Inductive
  BY NoneIsNobody DEF Init, TypeOK, Inductive, Created, CacheFits, LockFits, PermanentFits,
     ProxyFits, SyncFits, BaseFits, Config, NoRoutes, Released
<1>2. TypeOK /\ Inductive /\ [Next]_vars => (TypeOK /\ Inductive)'
  BY TypeStep, CreatedStep, CacheStep, LockStep, PermanentStep, ProxyStep, SyncStep, BaseStep
     DEF Inductive
<1> QED
  BY <1>1, <1>2, PTL DEF Spec

(* The variables keep their types, and the cache has no entry without an   *)
(* address (AddServiceIP and DeleteServiceIP, caddy.go:41-97).             *)
THEOREM TypeCorrect == Spec => []TypeOK
<1> QED
  BY InvariantHolds, PTL

(* No machine that destroyMachine stopped is routed to, whoever restarts   *)
(* and whatever PATCH is lost; refused ones (caddy.go:149) and late        *)
(* pollers (machine.go:523) are excepted.                                  *)
THEOREM StoppedUnrouted == Spec => []NoRouteToStopped
<1>1. TypeOK /\ Inductive => NoRouteToStopped
  BY DEF TypeOK, Inductive, ProxyFits, Excused, NoRouteToStopped, Routed
<1> QED
  BY <1>1, InvariantHolds, PTL

(* After a successful PATCH the services that resolve are routed to their  *)
(* own machines in service (reloadConfig, caddy.go:127).                   *)
THEOREM ReloadHeals == Spec => []RoutedServes
<1>1. TypeOK /\ Inductive => RoutedServes
  BY DEF TypeOK, Inductive, SyncFits, CacheFits, Config, RoutedServes, Routed
<1> QED
  BY <1>1, InvariantHolds, PTL

(* The static routes of Caddy are kept, unless the daemon was answered     *)
(* other than 200 when it started (config.go:77).                          *)
THEOREM BaseKept == Spec => []BaseRouteKept
<1>1. Inductive => BaseRouteKept
  BY DEF Inductive, BaseFits, BaseRouteKept
<1> QED
  BY <1>1, InvariantHolds, PTL
=============================================================================
