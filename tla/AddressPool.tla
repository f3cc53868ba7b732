----------------------------- MODULE AddressPool ----------------------------
(***************************************************************************)
(* The addresses of machines, from the bridge that allocates them to the   *)
(* load balancers that route to them: createMachine (pkg/store/machine.go) *)
(* with AllocateIP of the vendored bridge, the poller, destroyMachine, and *)
(* the lists of the internal network controller, each call of which is one *)
(* step here.  Unlike in MachineStore addresses are few and used again.    *)
(***************************************************************************)
EXTENDS Integers

CONSTANTS
  Machine,  \* machines, by UID; none is used twice
  Fn,       \* functions
  None,     \* no function
  Pool      \* number of addresses the bridge's network has for machines

ASSUME NoneIsNoFunction == None \notin Fn
ASSUME PoolNat          == Pool \in Nat

Address == 1 .. Pool
Blank   == 0  \* the empty string: a place in a list nobody filled, no address

VARIABLES
  stage,   \* a machine, as the store knows it
  guest,   \* its qemu process and what runs in it
  fn,      \* its function
  addr,    \* its address
  poller,  \* its poller
  list,    \* how often the load balancer of a function has an address
  lock,    \* MachineStore.lock
  shared,  \* history: addresses this daemon gave away while a machine had them
  stale    \* history: addresses of machines that left it before their poller

vars == <<stage, guest, fn, addr, poller, list, lock, shared, stale>>

EmptyList == [f \in Fn |-> [a \in {Blank} \cup Address |-> 0]]

Init ==
  /\ stage = [m \in Machine |-> "none"]
  /\ guest = [m \in Machine |-> "off"]
  /\ fn = [m \in Machine |-> None]
  /\ addr = [m \in Machine |-> Blank]
  /\ poller = [m \in Machine |-> "none"]
  /\ list = EmptyList
  /\ lock = "free"
  /\ shared = {} /\ stale = {}

-----------------------------------------------------------------------------
Answers(a) == \E m \in Machine : guest[m] = "answers" /\ addr[m] = a

(* The other machines that have an address, whether it answers or not. *)
Holders(a) ==
  {m \in Machine : /\ addr[m] = a
                   /\ \/ stage[m] \in {"made", "stored", "leaving"}
                      \/ guest[m] \in {"paused", "booting", "answers"}}

Leave(m) ==
  stale' = IF poller[m] = "none" THEN stale ELSE stale \cup {addr[m]}

(* The daemon starts again and knows none of the machines that live on. *)
Restart ==
  /\ stage' = [m \in Machine |-> IF stage[m] = "none" THEN "none" ELSE "out"]
  /\ poller' = [m \in Machine |-> "none"]
  /\ list' = EmptyList
  /\ lock' = "free"
  /\ shared' = {} /\ stale' = {}
  /\ UNCHANGED <<guest, fn, addr>>

-----------------------------------------------------------------------------
(* AllocateIP may return a: it asks the addresses in order and takes the   *)
(* first that does not answer in 150 ms, which a guest that serves may     *)
(* miss too.  The neighbours it compares with are strings of an address    *)
(* and a MAC, which equal no address.                                      *)
AllocateIP(a) == \A b \in 1 .. (a - 1) : Answers(b)

(* createMachine, under MachineStore.lock: the bridge's network is updated *)
(* with a new interface, the process created, the poller started.          *)
Create(m) ==
  \E a \in Address, f \in Fn :
    /\ stage[m] = "none"
    /\ lock = "free"
    /\ AllocateIP(a)
    /\ stage' = [stage EXCEPT ![m] = "made"]
    /\ guest' = [guest EXCEPT ![m] = "paused"]
    /\ fn' = [fn EXCEPT ![m] = f]
    /\ addr' = [addr EXCEPT ![m] = a]
    /\ poller' = [poller EXCEPT ![m] = "waiting"]
    /\ shared' = IF Holders(a) = {} THEN shared ELSE shared \cup {a}
    /\ UNCHANGED <<list, lock, stale>>

(* Every address answers: the error returns with the mutex taken. *)
CreateFails ==
  /\ lock = "free"
  /\ \A a \in Address : Answers(a)
  /\ lock' = "leaked"
  /\ UNCHANGED <<stage, guest, fn, addr, poller, list, shared, stale>>

Start(m) ==
  /\ stage[m] = "made"
  /\ stage' = [stage EXCEPT ![m] = "stored"]
  /\ guest' = [guest EXCEPT ![m] = "booting"]
  /\ UNCHANGED <<fn, addr, poller, list, lock, shared, stale>>

(* The machine does not enter the table, but its poller goes on. *)
StartFails(m) ==
  /\ stage[m] = "made"
  /\ stage' = [stage EXCEPT ![m] = "out"]
  /\ guest' \in {guest, [guest EXCEPT ![m] = "ended"]}
  /\ Leave(m)
  /\ UNCHANGED <<fn, addr, poller, list, lock, shared>>

GuestAnswers(m) ==
  /\ guest[m] = "booting"
  /\ guest' = [guest EXCEPT ![m] = "answers"]
  /\ UNCHANGED <<stage, fn, addr, poller, list, lock, shared, stale>>

GuestEnds(m) ==
  /\ guest[m] \in {"booting", "answers"}
  /\ guest' = [guest EXCEPT ![m] = "ended"]
  /\ UNCHANGED <<stage, fn, addr, poller, list, lock, shared, stale>>

(* Mutant of PollerAnswered: the poller gives up and adds the address.     *)
PollerGivesUp(m) ==
  /\ poller[m] = "waiting"
  /\ poller' = [poller EXCEPT ![m] = "answered"]
  /\ UNCHANGED <<stage, guest, fn, addr, list, lock, shared, stale>>

(* Whoever has the address answers. *)
PollerAnswered(m) ==
  /\ poller[m] = "waiting"
  /\ Answers(addr[m])
  /\ poller' = [poller EXCEPT ![m] = "answered"]
  /\ UNCHANGED <<stage, guest, fn, addr, list, lock, shared, stale>>

AddServiceIP(m) ==
  /\ poller[m] = "answered"
  /\ poller' = [poller EXCEPT ![m] = "none"]
  /\ list' = [list EXCEPT ![fn[m]][addr[m]] = @ + 1]
  /\ UNCHANGED <<stage, guest, fn, addr, lock, shared, stale>>

-----------------------------------------------------------------------------
(* The size of a list is zero. *)
Empty(ips) == \A b \in DOMAIN ips : ips[b] = 0

(* Mutant of Without: an empty list is not left alone. *)
WithoutCheck(ips, a) ==
  [ips EXCEPT ![a] = 0, ![Blank] = @ + ips[a] - 1]

(* Mutant of Without: the new list is as long as the old one. *)
WithoutShrinking(ips, a) ==
  IF Empty(ips) THEN ips ELSE [ips EXCEPT ![a] = 0, ![Blank] = @ + ips[a]]

(* DeleteInstance keeps the other addresses, in a list one shorter. *)
Without(ips, a) ==
  IF Empty(ips) THEN ips
  ELSE [ips EXCEPT ![a] = 0, ![Blank] = @ + ips[a] - 1]

(* Mutant of DeleteServiceIP: the machine is stopped at once. *)
DeleteServiceIPForgotten(m) ==
  /\ stage[m] = "stored"
  /\ stage' = [stage EXCEPT ![m] = "leaving"]
  /\ Leave(m)
  /\ UNCHANGED <<guest, fn, addr, poller, list, lock, shared>>

(* destroyMachine, of a scale-down or of the health check: an address that *)
(* is not in a list with others makes the copy run over its end, and the   *)
(* panic ends the daemon.                                                  *)
DeleteServiceIP(m) ==
  LET ips == list[fn[m]] IN
  /\ stage[m] = "stored"
  /\ IF ips[addr[m]] = 0 /\ ~Empty(ips)
     THEN Restart
     ELSE /\ stage' = [stage EXCEPT ![m] = "leaving"]
          /\ list' = [list EXCEPT ![fn[m]] = Without(ips, addr[m])]
          /\ Leave(m)
          /\ UNCHANGED <<guest, fn, addr, poller, lock, shared>>

Stop(m) ==
  /\ stage[m] = "leaving"
  /\ stage' = [stage EXCEPT ![m] = "out"]
  /\ guest' = [guest EXCEPT ![m] = "ended"]
  /\ UNCHANGED <<fn, addr, poller, list, lock, shared, stale>>

Next ==
  \/ \E m \in Machine :
       \/ Create(m) \/ Start(m) \/ StartFails(m)
       \/ GuestAnswers(m) \/ GuestEnds(m)
       \/ PollerAnswered(m) \/ AddServiceIP(m) \/ DeleteServiceIP(m) \/ Stop(m)
  \/ CreateFails \/ Restart

Spec == Init /\ [][Next]_vars

-----------------------------------------------------------------------------
(* Types; a list has no fewer than no places. *)
TypeOK ==
  /\ stage \in [Machine -> {"none", "made", "stored", "leaving", "out"}]
  /\ guest \in [Machine -> {"off", "paused", "booting", "answers", "ended"}]
  /\ fn \in [Machine -> Fn \cup {None}]
  /\ addr \in [Machine -> {Blank} \cup Address]
  /\ poller \in [Machine -> {"none", "waiting", "answered"}]
  /\ list \in [Fn -> [{Blank} \cup Address -> Nat]]
  /\ lock \in {"free", "leaked"}
  /\ shared \subseteq Address /\ stale \subseteq Address

Untroubled == Address \ (shared \cup stale)

(* An address in the list of a function is answered by no machine of       *)
(* another one, unless AllocateIP (bridge/utils.go:75) gave it away while  *)
(* a silent machine had it, or the poller of a machine that was destroyed  *)
(* or never started (machine.go:507) outlived it and was answered by the   *)
(* next machine at the address.                                            *)
RoutesToOwn ==
  \A f \in Fn, a \in Untroubled, m \in Machine :
    list[f][a] > 0 /\ addr[m] = a /\ guest[m] = "answers" => fn[m] = f

(* For every other address the lists are exact: it is listed once for each *)
(* stored machine whose poller is done, and nowhere else; no deletion of   *)
(* another machine takes a serving one out of the list or leaves its       *)
(* address behind (random.go:32-48, machine.go:257).                       *)
ListsExact ==
  \A f \in Fn, a \in Untroubled :
    list[f][a] = IF \E m \in Machine : /\ addr[m] = a /\ fn[m] = f
                                       /\ poller[m] = "none"
                                       /\ stage[m] \in {"made", "stored"}
                 THEN 1 ELSE 0

(* NextInstance finds a place without an address only when some address    *)
(* was shared, or added by a poller that outlived its machine: deletion    *)
(* leaves a blank for an address that was in the list twice.               *)
BlankOnlyAfterSharing ==
  shared \cup stale = {} => \A f \in Fn : list[f][Blank] = 0

-----------------------------------------------------------------------------
(* The inductive invariant behind the three: a machine has an address and  *)
(* a function from its creation on and its guest starts after it is made.  *)
Placed ==
  \A m \in Machine :
    /\ stage[m] = "none" => addr[m] = Blank /\ poller[m] = "none"
    /\ stage[m] # "none" => addr[m] \in Address /\ fn[m] \in Fn
    /\ stage[m] = "made" => guest[m] = "paused"

(* An address that was not given away twice is that of one machine the     *)
(* store has to do with, and of no guest that it has forgotten.            *)
SoleHolder ==
  \A m, k \in Machine :
    /\ stage[m] \in {"made", "stored", "leaving"}
    /\ addr[m] \notin shared
    /\ k \in Holders(addr[m])
    => k = m

(* A poller ends before its machine leaves, or its address is stale, and   *)
(* not before its machine starts, or the address is shared.                *)
PollerFits ==
  \A m \in Machine :
    /\ poller[m] # "none" /\ addr[m] \notin stale => stage[m] \in {"made", "stored"}
    /\ stage[m] = "made" /\ addr[m] \in Untroubled => poller[m] = "waiting"

Inductive ==
  /\ TypeOK /\ Placed /\ SoleHolder /\ PollerFits
  /\ ListsExact /\ BlankOnlyAfterSharing
=============================================================================
