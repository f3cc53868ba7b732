---------------------------- MODULE CaddyNetwork ----------------------------
(***************************************************************************)
(* pkg/network/caddy: the network controller that keeps the addresses of   *)
(* each service in a cache and makes Caddy route to them, with a PATCH of  *)
(* all routes after each change of the cache.  Its callers are those of    *)
(* the machine store: the poller of a machine adds the address after the   *)
(* first answer of the guest and ignores the error, destroyMachine deletes *)
(* it and stops the machine only when that succeeds.  Caddy and the daemon *)
(* are separate processes and restart separately.                          *)
(***************************************************************************)

CONSTANTS
  Machine,   \* machines, each with an address of its own that names it
  Service,   \* functions
  None       \* no machine, no service

ASSUME NoneIsNobody == None \notin Machine \cup Service

VARIABLES
  keys,       \* services serviceIPCache has an entry for
  cache,      \* serviceIPCache: the addresses of each of them
  permanent,  \* permanentRoutes, as read from Caddy at start
  proxy,      \* the routes in Caddy: permanent ones first, then the cache's
  lock,       \* the call that holds the RWMutex and has changed the cache
  vm,         \* a machine, as its destroyMachine and its process know it
  poller,     \* its poller
  owner,      \* its service
  synced,     \* history: Caddy has taken the last PATCH, and still runs
  spoiled     \* history: what a refused PATCH, a bad start or a late poller did

vars == <<keys, cache, permanent, proxy, lock, vm, poller, owner, synced, spoiled>>
world == <<vm, poller, owner>>

NoRoutes == [s \in Service |-> {}]
Released == [call |-> "none", machine |-> None]

(* The static routes are one, base.  At the first start Caddy has no other. *)
Init ==
  /\ keys = {}
  /\ cache = NoRoutes
  /\ permanent = [base |-> TRUE, routes |-> NoRoutes]
  /\ proxy = [base |-> TRUE, old |-> NoRoutes, new |-> NoRoutes]
  /\ lock = Released
  /\ vm = [m \in Machine |-> "off"]
  /\ poller = [m \in Machine |-> "none"]
  /\ owner = [m \in Machine |-> None]
  /\ synced = TRUE
  /\ spoiled = [refused |-> FALSE, start |-> FALSE, late |-> {}]

-----------------------------------------------------------------------------
(* Caddy tries its routes in order, and reverse_proxy is the end of one.   *)
Routed(s) == IF proxy.old[s] # {} THEN proxy.old[s] ELSE proxy.new[s]

(* Mutant of Config: the list is built from the cache alone. *)
ConfigOfCache == [base |-> FALSE, old |-> NoRoutes, new |-> cache]

(* getConfig *)
Config == [base |-> permanent.base, old |-> permanent.routes, new |-> cache]

-----------------------------------------------------------------------------
Create(m) ==
  /\ vm[m] = "off"
  /\ vm' = [vm EXCEPT ![m] = "up"]
  /\ poller' = [poller EXCEPT ![m] = "waiting"]
  /\ \E s \in Service : owner' = [owner EXCEPT ![m] = s]
  /\ UNCHANGED <<keys, cache, permanent, proxy, lock, synced, spoiled>>

PollerAnswered(m) ==
  /\ poller[m] = "waiting"
  /\ vm[m] # "stopped"
  /\ poller' = [poller EXCEPT ![m] = "answered"]
  /\ UNCHANGED <<keys, cache, permanent, proxy, lock, vm, owner, synced, spoiled>>

AddServiceIP(m) ==
  LET s == owner[m] IN
  /\ poller[m] = "answered"
  /\ lock = Released
  /\ lock' = [call |-> "add", machine |-> m]
  /\ keys' = keys \cup {s}
  /\ cache' = [cache EXCEPT ![s] = @ \cup {m}]
  /\ poller' = [poller EXCEPT ![m] = "none"]
  /\ spoiled' = IF vm[m] = "up" THEN spoiled
                                ELSE [spoiled EXCEPT !.late = @ \cup {m}]
  /\ UNCHANGED <<permanent, proxy, vm, owner, synced>>

(* Mutant of DeleteServiceIP: a service without addresses keeps its entry. *)
DeleteServiceIPKeepsKey(m) ==
  LET s == owner[m] IN
  /\ vm[m] = "up"
  /\ lock = Released
  /\ IF s \in keys
     THEN /\ lock' = [call |-> "delete", machine |-> m]
          /\ cache' = [cache EXCEPT ![s] = @ \ {m}]
          /\ vm' = [vm EXCEPT ![m] = "leaving"]
     ELSE vm' = [vm EXCEPT ![m] = "stray"] /\ UNCHANGED <<cache, lock>>
  /\ UNCHANGED <<keys, permanent, proxy, poller, owner, synced, spoiled>>

(* Mutant of DeleteServiceIP: the new list is not stored. *)
DeleteServiceIPKeepsList(m) ==
  /\ vm[m] = "up"
  /\ lock = Released
  /\ IF owner[m] \in keys
     THEN /\ lock' = [call |-> "delete", machine |-> m]
          /\ vm' = [vm EXCEPT ![m] = "leaving"]
     ELSE vm' = [vm EXCEPT ![m] = "stray"] /\ UNCHANGED lock
  /\ UNCHANGED <<keys, cache, permanent, proxy, poller, owner, synced, spoiled>>

(* destroyMachine calls it, with the machine already out of service: for a *)
(* service without an entry the error ends it and the process runs on.     *)
DeleteServiceIP(m) ==
  LET s == owner[m]
      ips == cache[s] \ {m}
  IN
  /\ vm[m] = "up"
  /\ lock = Released
  /\ IF s \in keys
     THEN /\ lock' = [call |-> "delete", machine |-> m]
          /\ cache' = [cache EXCEPT ![s] = ips]
          /\ keys' = IF ips = {} THEN keys \ {s} ELSE keys
          /\ vm' = [vm EXCEPT ![m] = "leaving"]
     ELSE vm' = [vm EXCEPT ![m] = "stray"] /\ UNCHANGED <<keys, cache, lock>>
  /\ UNCHANGED <<permanent, proxy, poller, owner, synced, spoiled>>

(* reloadConfig, in three outcomes; the lock is released.  Only            *)
(* destroyMachine looks at the error.                                      *)
Return(ok) ==
  /\ lock # Released
  /\ lock' = Released
  /\ vm' = IF lock.call = "delete"
           THEN [vm EXCEPT ![lock.machine] = IF ok THEN "unlisted" ELSE "stray"]
           ELSE vm
  /\ UNCHANGED <<keys, cache, permanent, poller, owner>>

ReloadApplied ==
  /\ Return(TRUE)
  /\ proxy' = Config
  /\ synced' = TRUE
  /\ UNCHANGED spoiled

(* The status of the answer is logged and not looked at. *)
ReloadRefused ==
  /\ Return(TRUE)
  /\ synced' = FALSE
  /\ spoiled' = [spoiled EXCEPT !.refused = TRUE]
  /\ UNCHANGED proxy

(* Mutant of ReloadFails: the error is logged like the status. *)
ReloadFailsUnnoticed ==
  /\ Return(TRUE)
  /\ synced' = FALSE
  /\ proxy' \in {proxy, Config}
  /\ UNCHANGED spoiled

(* No connection, or one that broke before or after Caddy took the routes. *)
ReloadFails ==
  /\ Return(FALSE)
  /\ synced' = FALSE
  /\ proxy' \in {proxy, Config}
  /\ UNCHANGED spoiled

StopVM(m) ==
  /\ vm[m] = "unlisted"
  /\ vm' = [vm EXCEPT ![m] = "stopped"]
  /\ UNCHANGED <<keys, cache, permanent, proxy, lock, poller, owner, synced, spoiled>>

-----------------------------------------------------------------------------
(* Caddy comes back with the routes of its Caddyfile. *)
CaddyRestarts ==
  /\ proxy' = [base |-> TRUE, old |-> NoRoutes, new |-> NoRoutes]
  /\ synced' = FALSE
  /\ UNCHANGED <<keys, cache, permanent, lock, world, spoiled>>

(* NewCaddyController takes every route for a permanent one.  An answer    *)
(* other than 200 gives neither routes nor an error; with an error the     *)
(* daemon does not start.                                                  *)
DaemonRestarts ==
  /\ keys' = {}
  /\ cache' = NoRoutes
  /\ lock' = Released
  /\ \/ /\ permanent' = [base |-> proxy.base, routes |-> [s \in Service |-> Routed(s)]]
        /\ UNCHANGED spoiled
     \/ /\ permanent' = [base |-> FALSE, routes |-> NoRoutes]
        /\ spoiled' = [spoiled EXCEPT !.start = TRUE]
  /\ vm' = [m \in Machine |-> IF vm[m] \in {"off", "stopped"} THEN vm[m] ELSE "stray"]
  /\ poller' = [m \in Machine |-> "none"]
  /\ synced' = FALSE
  /\ UNCHANGED <<proxy, owner>>

Next ==
  \/ \E m \in Machine : \/ Create(m) \/ PollerAnswered(m) \/ AddServiceIP(m)
                        \/ DeleteServiceIP(m) \/ StopVM(m)
  \/ ReloadApplied \/ ReloadRefused \/ ReloadFails
  \/ CaddyRestarts \/ DaemonRestarts

Spec == Init /\ [][Next]_vars

-----------------------------------------------------------------------------
(* Types; and no call leaves an entry without addresses behind (90-94),    *)
(* for which Resolve would answer with a route that leads nowhere.         *)
TypeOK ==
  /\ keys = {s \in Service : cache[s] # {}}
  /\ cache \in [Service -> SUBSET Machine]
  /\ permanent \in [base : BOOLEAN, routes : [Service -> SUBSET Machine]]
  /\ proxy \in [base : BOOLEAN, old : [Service -> SUBSET Machine],
                                new : [Service -> SUBSET Machine]]
  /\ lock \in [call : {"none", "add", "delete"}, machine : Machine \cup {None}]
  /\ vm \in [Machine -> {"off", "up", "leaving", "unlisted", "stray", "stopped"}]
  /\ poller \in [Machine -> {"none", "waiting", "answered"}]
  /\ owner \in [Machine -> Service \cup {None}]
  /\ synced \in BOOLEAN
  /\ spoiled \in [refused : BOOLEAN, start : BOOLEAN, late : SUBSET Machine]

(* Caddy never routes to a machine that was stopped (DeleteServiceIP       *)
(* before Stop, machine.go:257), whatever was lost and whoever restarted,  *)
(* unless Caddy refused a PATCH (149) or its poller came late.             *)
NoRouteToStopped ==
  \A m \in Machine :
    vm[m] = "stopped" /\ ~spoiled.refused /\ m \notin spoiled.late
      => \A s \in Service : m \notin Routed(s)

(* Once a PATCH has succeeded a service that resolves (158) is routed, to  *)
(* machines of its own that are in service: earlier failures are healed,   *)
(* addresses whose deletion failed included.  Routes that the daemon found *)
(* at its start hide those of the cache, and are excepted.                 *)
RoutedServes ==
  synced /\ lock = Released =>
    \A s \in keys :
      permanent.routes[s] = {} =>
        /\ Routed(s) # {}
        /\ \A m \in Routed(s) : owner[m] = s /\ (vm[m] = "up" \/ m \in spoiled.late)

(* The static routes survive every reload and every restart unless the     *)
(* daemon got an answer other than 200 at a start (config.go:77).          *)
BaseRouteKept == ~spoiled.start => proxy.base

-----------------------------------------------------------------------------
(* The inductive invariant behind these. *)

(* What a refused PATCH or a late poller may have done to a machine. *)
Excused(m) == spoiled.refused \/ m \in spoiled.late

Created ==
  \A m \in Machine : IF vm[m] = "off" THEN poller[m] = "none" /\ m \notin spoiled.late
                                      ELSE owner[m] \in Service

CacheFits ==
  \A s \in Service : \A m \in cache[s] :
    owner[m] = s /\ (vm[m] = "up" \/ m \in spoiled.late)

LockFits ==
  /\ lock.call = "none" <=> lock = Released
  /\ lock.call = "delete" => lock.machine \in Machine /\ vm[lock.machine] = "leaving"

(* Only machines of an earlier daemon are in the routes found at a start. *)
PermanentFits ==
  \A s \in Service : \A m \in permanent.routes[s] : vm[m] = "stray" \/ Excused(m)

ProxyFits ==
  \A s \in Service :
    /\ \A m \in proxy.old[s] : vm[m] = "stray" \/ Excused(m)
    /\ \A m \in proxy.new[s] : vm[m] \notin {"off", "unlisted", "stopped"} \/ Excused(m)

SyncFits == synced /\ lock = Released => proxy = Config

BaseFits == ~spoiled.start => permanent.base /\ proxy.base

(* The parts hold together: who is in the cache is in service (47-96), who *)
(* is in the routes has not been stopped, and a route found at a start     *)
(* (25-38) leads to no machine this daemon can stop.                       *)
Inductive ==
  /\ Created /\ CacheFits /\ LockFits /\ PermanentFits
  /\ ProxyFits /\ SyncFits /\ BaseFits
=============================================================================
