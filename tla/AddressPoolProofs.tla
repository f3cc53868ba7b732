------------------------- MODULE AddressPoolProofs -------------------------
(* Theorems about AddressPool for every set of machines and functions and  *)
(* every number of addresses.                                              *)
EXTENDS AddressPool, TLAPS

(* A machine that is counted among the holders of its address. *)
Holding(k) ==
  \/ stage[k] \in {"made", "stored", "leaving"}
  \/ guest[k] \in {"paused", "booting", "answers"}

LEMMA SoleHolderIs ==
  SoleHolder <=>
    \A m, k \in Machine :
      /\ stage[m] \in {"made", "stored", "leaving"}
      /\ addr[m] \notin shared
      /\ addr[k] = addr[m] /\ Holding(k)
      => k = m
BY DEF SoleHolder, Holders, Holding

LEMMA AddressNotBlank == Blank \notin Address /\ Address \subseteq Nat
BY PoolNat DEF Blank, Address

(* Taking a listed address out of a list, or leaving an empty one alone,   *)
(* moves no other address.                                                 *)
LEMMA WithoutKeeps ==
  ASSUME NEW ips \in [{Blank} \cup Address -> Nat], NEW a \in Address,
         ips[a] # 0 \/ Empty(ips)
  PROVE  /\ Without(ips, a) \in [{Blank} \cup Address -> Nat]
         /\ Without(ips, a)[a] = 0
         /\ \A b \in Address : b # a => Without(ips, a)[b] = ips[b]
         /\ ips[a] \in {0, 1} => Without(ips, a)[Blank] = ips[Blank]
<1>1. CASE Empty(ips)  BY <1>1 DEF Empty, Without
<1>2. CASE ~Empty(ips)
  <2>1. ips[a] \in Nat /\ ips[a] # 0 /\ ips[Blank] \in Nat  BY <1>2
  <2>2. ips[Blank] + ips[a] - 1 \in Nat  BY <2>1
  <2>3. Without(ips, a) = [b \in {Blank} \cup Address |->
          IF b = Blank THEN ips[Blank] + ips[a] - 1 ELSE IF b = a THEN 0 ELSE ips[b]]
    BY <1>2, AddressNotBlank DEF Without
  <2> QED  BY <2>1, <2>2, <2>3, AddressNotBlank
<1> QED  BY <1>1, <1>2

(* NewMachineStore and NewNetworkController begin with nothing.            *)
LEMMA InductiveInit == Init => Inductive
<1> SUFFICES ASSUME Init PROVE Inductive
  OBVIOUS
<1>1. TypeOK /\ Placed
  BY DEF Init, TypeOK, Placed, EmptyList
<1>2. SoleHolder /\ PollerFits
  BY DEF Init, SoleHolder, PollerFits
<1>3. ListsExact
  BY AddressNotBlank DEF Init, ListsExact, EmptyList, Untroubled
<1>4. BlankOnlyAfterSharing
  BY DEF Init, BlankOnlyAfterSharing, EmptyList
<1> QED  BY <1>1, <1>2, <1>3, <1>4 DEF Inductive

(* After a restart no list has an address and no machine has a poller.     *)
LEMMA RestartStep == Inductive /\ Restart => Inductive'
<1> SUFFICES ASSUME Inductive, Restart PROVE Inductive'
  OBVIOUS
<1>1. TypeOK' /\ Placed'
  BY DEF Inductive, Restart, TypeOK, Placed, EmptyList
<1>2. SoleHolder' /\ PollerFits'
  BY DEF Restart, SoleHolder, PollerFits
<1>3. ListsExact'
  BY AddressNotBlank DEF Restart, ListsExact, EmptyList, Untroubled
<1>4. BlankOnlyAfterSharing'
  BY DEF Restart, BlankOnlyAfterSharing, EmptyList
<1> QED  BY <1>1, <1>2, <1>3, <1>4 DEF Inductive

(* A machine leaves the store: its address is stale if its poller goes on. *)
LEMMA LeaveStep ==
  ASSUME TypeOK, NEW m \in Machine, addr[m] \in Address, Leave(m)
  PROVE  /\ stale' \subseteq Address /\ stale \subseteq stale'
         /\ poller[m] # "none" => addr[m] \in stale'
BY DEF Leave, TypeOK

(* The steps of the machines, of their pollers and of the store. *)
Step(m) ==
  \/ Create(m) \/ Start(m) \/ StartFails(m)
  \/ GuestAnswers(m) \/ GuestEnds(m)
  \/ PollerAnswered(m) \/ AddServiceIP(m) \/ DeleteServiceIP(m) \/ Stop(m)

(* A list is only asked to drop an address that it has, or has nothing to  *)
(* drop, so its places never become fewer than none.                       *)
LEMMA TypeStep ==
  ASSUME Inductive, NEW m \in Machine, Step(m), ~Restart
  PROVE  TypeOK' /\ Placed'
<1> USE AddressNotBlank DEF Step
<1>0. TypeOK /\ Placed  BY DEF Inductive
<1>1. CASE Create(m)
  <2>1. PICK a \in Address, f \in Fn :
          /\ stage[m] = "none"
          /\ lock = "free"
          /\ AllocateIP(a)
          /\ stage' = [stage EXCEPT ![m] = "made"]
          /\ guest' = [guest EXCEPT ![m] = "paused"]
          /\ fn' = [fn EXCEPT ![m] = f]
          /\ addr' = [addr EXCEPT ![m] = a]
          /\ poller' = [poller EXCEPT ![m] = "waiting"]
          /\ shared' = IF Holders(a) = {} THEN shared ELSE shared \cup {a}
          /\ UNCHANGED <<list, lock, stale>>
    BY <1>1 DEF Create
  <2>2. shared' \subseteq Address  BY <1>0, <2>1 DEF TypeOK
  <2>3. TypeOK'  BY <1>0, <2>1, <2>2 DEF TypeOK
  <2>4. Placed'  BY <1>0, <2>1 DEF TypeOK, Placed
  <2> QED  BY <2>3, <2>4
<1>2. CASE Start(m)  BY <1>0, <1>2 DEF Start, TypeOK, Placed
<1>3. CASE StartFails(m)
  <2>1. addr[m] \in Address /\ Leave(m)  BY <1>0, <1>3 DEF StartFails, Placed
  <2>2. stale' \subseteq Address  BY <1>0, <2>1, LeaveStep
  <2> QED  BY <1>0, <1>3, <2>2 DEF StartFails, TypeOK, Placed
<1>4. CASE GuestAnswers(m) \/ GuestEnds(m)
  BY <1>0, <1>4 DEF GuestAnswers, GuestEnds, TypeOK, Placed
<1>5. CASE PollerAnswered(m)  BY <1>0, <1>5 DEF PollerAnswered, TypeOK, Placed
<1>6. CASE AddServiceIP(m)
  <2>1. addr[m] \in Address /\ fn[m] \in Fn  BY <1>0, <1>6 DEF AddServiceIP, Placed
  <2>2. list' \in [Fn -> [{Blank} \cup Address -> Nat]]
    <3> DEFINE ips == list[fn[m]]
               new == [ips EXCEPT ![addr[m]] = @ + 1]
    <3>1. ips \in [{Blank} \cup Address -> Nat]  BY <1>0, <2>1 DEF TypeOK
    <3>2. new \in [{Blank} \cup Address -> Nat]  BY <2>1, <3>1
    <3>3. list' = [list EXCEPT ![fn[m]] = new]  BY <1>6 DEF AddServiceIP
    <3> HIDE DEF new
    <3> QED  BY <1>0, <3>2, <3>3 DEF TypeOK
  <2> QED  BY <1>0, <1>6, <2>2 DEF AddServiceIP, TypeOK, Placed
<1>7. CASE DeleteServiceIP(m)
  <2>1. addr[m] \in Address /\ fn[m] \in Fn  BY <1>0, <1>7 DEF DeleteServiceIP, Placed
  <2>2. /\ list' = [list EXCEPT ![fn[m]] = Without(list[fn[m]], addr[m])]
        /\ list[fn[m]][addr[m]] # 0 \/ Empty(list[fn[m]])
        /\ Leave(m)
        /\ stage' = [stage EXCEPT ![m] = "leaving"] /\ stage[m] = "stored"
        /\ UNCHANGED <<guest, fn, addr, poller, lock, shared>>
    BY <1>7 DEF DeleteServiceIP
  <2>3. list[fn[m]] \in [{Blank} \cup Address -> Nat]  BY <1>0, <2>1 DEF TypeOK
  <2>4. Without(list[fn[m]], addr[m]) \in [{Blank} \cup Address -> Nat]
    BY <2>1, <2>2, <2>3, WithoutKeeps
  <2>5. stale' \subseteq Address  BY <1>0, <2>1, <2>2, LeaveStep
  <2> QED  BY <1>0, <2>2, <2>4, <2>5 DEF TypeOK, Placed
<1>8. CASE Stop(m)  BY <1>0, <1>8 DEF Stop, TypeOK, Placed
<1> QED  BY <1>1, <1>2, <1>3, <1>4, <1>5, <1>6, <1>7, <1>8

(* An address gets a second holder only from AllocateIP, which is noted.   *)
LEMMA HolderStep ==
  ASSUME Inductive, NEW m \in Machine, Step(m), ~Restart
  PROVE  SoleHolder'
<1>0. TypeOK /\ Placed /\ SoleHolder  BY DEF Inductive
<1>1. CASE Create(m)
  <2>1. PICK a \in Address, f \in Fn :
          /\ stage[m] = "none"
          /\ lock = "free"
          /\ AllocateIP(a)
          /\ stage' = [stage EXCEPT ![m] = "made"]
          /\ guest' = [guest EXCEPT ![m] = "paused"]
          /\ fn' = [fn EXCEPT ![m] = f]
          /\ addr' = [addr EXCEPT ![m] = a]
          /\ poller' = [poller EXCEPT ![m] = "waiting"]
          /\ shared' = IF Holders(a) = {} THEN shared ELSE shared \cup {a}
          /\ UNCHANGED <<list, lock, stale>>
    BY <1>1 DEF Create
  <2>2. /\ Holding(m)' /\ addr'[m] = a /\ addr[m] = Blank
        /\ \A k \in Machine : k # m => /\ Holding(k)' <=> Holding(k)
                                       /\ addr'[k] = addr[k]
                                       /\ stage'[k] = stage[k]
    BY <1>0, <2>1 DEF Holding, TypeOK, Placed
  <2>3. (\A k \in Machine : addr[k] = a => ~Holding(k)) \/ a \in shared'
    BY <2>1 DEF Holders, Holding
  <2>4. shared \subseteq shared'  BY <2>1
  <2>5. ASSUME NEW n \in Machine, NEW k \in Machine,
               stage'[n] \in {"made", "stored", "leaving"}, addr'[n] \notin shared',
               addr'[k] = addr'[n], Holding(k)'
        PROVE  k = n
    <3>1. CASE n = m  BY <2>2, <2>3, <2>5, <3>1
    <3>2. CASE n # m
      <4>1. Holding(n) /\ addr[n] = addr'[n]  BY <2>2, <2>5, <3>2 DEF Holding
      <4>2. addr[n] # a  BY <2>3, <2>5, <4>1
      <4>3. k # m  BY <2>2, <2>5, <4>1, <4>2
      <4> QED  BY <1>0, <2>2, <2>4, <2>5, <3>2, <4>1, <4>3, SoleHolderIs
    <3> QED  BY <3>1, <3>2
  <2>6. \A n, k \in Machine :
          /\ stage'[n] \in {"made", "stored", "leaving"}
          /\ addr'[n] \notin shared'
          /\ addr'[k] = addr'[n] /\ Holding(k)'
          => k = n
    BY <2>5
  <2> QED  BY <2>6 DEF SoleHolder, Holders, Holding
<1>2. CASE ~Create(m)
  <2>1. /\ addr' = addr /\ shared' = shared
        /\ \A k \in Machine :
             /\ stage'[k] \in {"made", "stored", "leaving"} => stage[k] \in {"made", "stored", "leaving"}
             /\ guest'[k] \in {"paused", "booting", "answers"}
                  => \/ guest[k] \in {"paused", "booting", "answers"}
                     \/ stage[k] \in {"made", "stored", "leaving"}
    BY <1>0, <1>2 DEF Step, Start, StartFails, GuestAnswers, GuestEnds, PollerAnswered,
      AddServiceIP, DeleteServiceIP, Stop, TypeOK
  <2> QED  BY <1>0, <2>1 DEF SoleHolder, Holders
<1> QED  BY <1>1, <1>2

(* A poller is answered by its own machine unless the address is shared,   *)
(* and it is noted when its machine leaves before it.                      *)
LEMMA PollerStep ==
  ASSUME Inductive, NEW m \in Machine, Step(m), ~Restart
  PROVE  PollerFits'
<1>0. TypeOK /\ Placed /\ SoleHolder /\ PollerFits  BY DEF Inductive
<1> USE DEF Untroubled
<1>1. CASE Create(m)  BY <1>0, <1>1 DEF Create, TypeOK, Placed, PollerFits
<1>2. CASE Start(m)  BY <1>0, <1>2 DEF Start, TypeOK, PollerFits
<1>3. CASE StartFails(m) \/ DeleteServiceIP(m)
  <2>1. addr[m] \in Address /\ Leave(m)
    BY <1>0, <1>3 DEF StartFails, DeleteServiceIP, Placed
  <2>2. stale \subseteq stale' /\ (poller[m] # "none" => addr[m] \in stale')
    BY <1>0, <2>1, LeaveStep
  <2>3. /\ UNCHANGED <<addr, poller, shared>>
        /\ stage' \in {[stage EXCEPT ![m] = "out"], [stage EXCEPT ![m] = "leaving"]}
    BY <1>3 DEF StartFails, DeleteServiceIP
  <2> QED  BY <1>0, <2>2, <2>3 DEF TypeOK, PollerFits
<1>4. CASE GuestAnswers(m) \/ GuestEnds(m)
  BY <1>0, <1>4 DEF GuestAnswers, GuestEnds, PollerFits
<1>5. CASE PollerAnswered(m)
  <2>1. stage[m] = "made" => addr[m] \notin Untroubled
    <3> SUFFICES ASSUME stage[m] = "made", addr[m] \in Untroubled PROVE FALSE
      OBVIOUS
    <3>1. PICK k \in Machine : guest[k] = "answers" /\ addr[k] = addr[m]
      BY <1>5 DEF PollerAnswered, Answers
    <3>2. k = m  BY <1>0, <3>1, SoleHolderIs DEF Holding
    <3> QED  BY <1>0, <3>1, <3>2 DEF Placed
  <2> QED  BY <1>0, <1>5, <2>1 DEF PollerAnswered, TypeOK, PollerFits
<1>6. CASE AddServiceIP(m)
  BY <1>0, <1>6 DEF AddServiceIP, TypeOK, PollerFits
<1>7. CASE Stop(m)  BY <1>0, <1>7 DEF Stop, TypeOK, PollerFits
<1> QED  BY <1>1, <1>2, <1>3, <1>4, <1>5, <1>6, <1>7 DEF Step

(* A stored machine of the function has the address and has added it. *)
Served(f, a) ==
  \E m \in Machine : /\ addr[m] = a /\ fn[m] = f
                     /\ poller[m] = "none"
                     /\ stage[m] \in {"made", "stored"}

LEMMA ListsExactIs ==
  ListsExact <=> \A f \in Fn, a \in Untroubled : list[f][a] = IF Served(f, a) THEN 1 ELSE 0
BY DEF ListsExact, Served

(* The lists follow the machines: the poller adds an address once, and     *)
(* destroyMachine takes it out before the machine is stopped.              *)
LEMMA ListStep ==
  ASSUME Inductive, NEW m \in Machine, Step(m), ~Restart
  PROVE  ListsExact'
<1>0. TypeOK /\ Placed /\ SoleHolder /\ PollerFits /\ ListsExact /\ TypeOK'
  BY TypeStep DEF Inductive
<1>1. Untroubled' \subseteq Untroubled /\ Untroubled \subseteq Address
  <2>1. CASE StartFails(m) \/ DeleteServiceIP(m)
    BY <1>0, <2>1, LeaveStep DEF StartFails, DeleteServiceIP, Placed, Untroubled
  <2>2. CASE ~StartFails(m) /\ ~DeleteServiceIP(m)
    BY <2>2 DEF Step, Create, Start, GuestAnswers, GuestEnds, PollerAnswered, AddServiceIP,
      Stop, Untroubled
  <2> QED  BY <2>1, <2>2
<1> SUFFICES ASSUME NEW f \in Fn, NEW a \in Untroubled'
             PROVE  list'[f][a] = IF Served(f, a)' THEN 1 ELSE 0
  BY DEF ListsExact, Served
<1>2. list[f][a] = (IF Served(f, a) THEN 1 ELSE 0) /\ a \in Address /\ a \in Untroubled
  BY <1>0, <1>1, ListsExactIs
<1>3. ASSUME list'[f][a] = list[f][a], Served(f, a)' <=> Served(f, a)
      PROVE  list'[f][a] = IF Served(f, a)' THEN 1 ELSE 0
  BY <1>2, <1>3
<1>4. ASSUME NEW k \in Machine, addr[k] = a, Holding(k), addr[m] = a,
             stage[m] \in {"made", "stored", "leaving"}
      PROVE  k = m
  BY <1>0, <1>2, <1>4, SoleHolderIs DEF Untroubled
<1>5. CASE Create(m)
  <2>1. list' = list  BY <1>5 DEF Create
  <2>2. Served(f, a)' <=> Served(f, a)
    BY <1>0, <1>2, <1>5, AddressNotBlank DEF Create, Served, TypeOK, Placed
  <2> QED  BY <1>3, <2>1, <2>2
<1>6. CASE Start(m) \/ GuestAnswers(m) \/ GuestEnds(m) \/ PollerAnswered(m) \/ Stop(m)
  <2>1. list' = list
    BY <1>6 DEF Start, GuestAnswers, GuestEnds, PollerAnswered, Stop
  <2>2. Served(f, a)' <=> Served(f, a)
    BY <1>0, <1>6 DEF Start, GuestAnswers, GuestEnds, PollerAnswered, Stop, Served, TypeOK
  <2> QED  BY <1>3, <2>1, <2>2
<1>7. CASE StartFails(m)
  <2>1. list' = list /\ addr[m] \in Address /\ Leave(m)
    BY <1>0, <1>7 DEF StartFails, Placed
  <2>2. poller[m] # "none" => addr[m] # a
    BY <1>0, <2>1, LeaveStep DEF Untroubled
  <2>3. poller[m] = "none" => addr[m] # a
    BY <1>0, <1>2, <1>7 DEF StartFails, PollerFits
  <2>4. Served(f, a)' <=> Served(f, a)
    BY <1>0, <1>7, <2>2, <2>3 DEF StartFails, Served, TypeOK
  <2> QED  BY <1>3, <2>1, <2>4
<1>8. CASE AddServiceIP(m)
  <2>1. addr[m] \in Address /\ fn[m] \in Fn /\ poller[m] = "answered"
    BY <1>0, <1>8 DEF AddServiceIP, Placed
  <2>2. list' = [list EXCEPT ![fn[m]] = [list[fn[m]] EXCEPT ![addr[m]] = @ + 1]]
    BY <1>8 DEF AddServiceIP
  <2>3. \A g \in Fn : list[g] \in [{Blank} \cup Address -> Nat]  BY <1>0 DEF TypeOK
  <2>4. CASE addr[m] = a /\ fn[m] = f
    <3>1. list'[f][a] = list[f][a] + 1  BY <1>0, <1>2, <2>2, <2>3, <2>4 DEF TypeOK
    <3>2. stage[m] \in {"made", "stored"}
      BY <1>0, <1>2, <2>1, <2>4 DEF PollerFits, Untroubled
    <3>3. ~Served(f, a)
      BY <1>4, <2>1, <2>4, <3>2 DEF Served, Holding
    <3>4. Served(f, a)'
      BY <1>0, <1>8, <2>4, <3>2 DEF AddServiceIP, Served, TypeOK
    <3> QED  BY <1>2, <3>1, <3>3, <3>4
  <2>5. CASE ~(addr[m] = a /\ fn[m] = f)
    <3>1. list'[f][a] = list[f][a]  BY <1>0, <1>2, <2>2, <2>3, <2>5 DEF TypeOK
    <3>2. Served(f, a)' <=> Served(f, a)
      BY <1>0, <1>8, <2>5 DEF AddServiceIP, Served, TypeOK
    <3> QED  BY <1>3, <3>1, <3>2
  <2> QED  BY <2>4, <2>5
<1>9. CASE DeleteServiceIP(m)
  <2> DEFINE ips == list[fn[m]]
  <2>1. addr[m] \in Address /\ fn[m] \in Fn  BY <1>0, <1>9 DEF DeleteServiceIP, Placed
  <2>2. /\ list' = [list EXCEPT ![fn[m]] = Without(ips, addr[m])]
        /\ ips[addr[m]] # 0 \/ Empty(ips)
        /\ Leave(m)
        /\ stage' = [stage EXCEPT ![m] = "leaving"] /\ stage[m] = "stored"
        /\ UNCHANGED <<fn, addr, poller>>
    BY <1>9 DEF DeleteServiceIP
  <2>3. ips \in [{Blank} \cup Address -> Nat]  BY <1>0, <2>1 DEF TypeOK
  <2>4. /\ Without(ips, addr[m])[addr[m]] = 0
        /\ \A b \in Address : b # addr[m] => Without(ips, addr[m])[b] = ips[b]
    BY <2>1, <2>2, <2>3, WithoutKeeps
  <2>5. CASE addr[m] = a /\ fn[m] = f
    <3>1. list'[f][a] = 0  BY <1>0, <2>2, <2>4, <2>5 DEF TypeOK
    <3>2. ~Served(f, a)'
      <4>1. \A k \in Machine : addr[k] = a /\ stage[k] \in {"made", "stored"} => k = m
        BY <1>4, <2>2, <2>5 DEF Holding
      <4> QED  BY <1>0, <2>2, <4>1 DEF Served, TypeOK
    <3> QED  BY <3>1, <3>2
  <2>6. CASE addr[m] # a
    <3>1. list'[f][a] = list[f][a]  BY <1>0, <1>2, <2>1, <2>2, <2>4, <2>6 DEF TypeOK
    <3>2. Served(f, a)' <=> Served(f, a)  BY <1>0, <2>2, <2>6 DEF Served, TypeOK
    <3> QED  BY <1>3, <3>1, <3>2
  <2>7. CASE fn[m] # f
    <3>1. list'[f][a] = list[f][a]  BY <1>0, <2>2, <2>7 DEF TypeOK
    <3>2. Served(f, a)' <=> Served(f, a)  BY <1>0, <2>2, <2>7 DEF Served, TypeOK
    <3> QED  BY <1>3, <3>1, <3>2
  <2> QED  BY <2>5, <2>6, <2>7
<1> QED  BY <1>5, <1>6, <1>7, <1>8, <1>9 DEF Step

(* While every address has one machine each deletion finds its address     *)
(* once, and the new list has as many places as addresses.                 *)
LEMMA BlankStep ==
  ASSUME Inductive, NEW m \in Machine, Step(m), ~Restart
  PROVE  BlankOnlyAfterSharing'
<1>0. TypeOK /\ Placed /\ ListsExact /\ BlankOnlyAfterSharing  BY DEF Inductive
<1>1. shared \subseteq shared' /\ stale \subseteq stale'
  <2>1. CASE StartFails(m) \/ DeleteServiceIP(m)
    BY <1>0, <2>1, LeaveStep DEF StartFails, DeleteServiceIP, Placed
  <2>2. CASE ~StartFails(m) /\ ~DeleteServiceIP(m)
    BY <2>2 DEF Step, Create, Start, GuestAnswers, GuestEnds, PollerAnswered, AddServiceIP, Stop
  <2> QED  BY <2>1, <2>2
<1> SUFFICES ASSUME shared' \cup stale' = {}, NEW f \in Fn PROVE list'[f][Blank] = 0
  BY DEF BlankOnlyAfterSharing
<1>2. list[f][Blank] = 0 /\ Untroubled = Address
  BY <1>0, <1>1 DEF BlankOnlyAfterSharing, Untroubled
<1>3. CASE AddServiceIP(m)
  <2>1. addr[m] \in Address /\ fn[m] \in Fn  BY <1>0, <1>3 DEF AddServiceIP, Placed
  <2>2. list' = [list EXCEPT ![fn[m]] = [list[fn[m]] EXCEPT ![addr[m]] = @ + 1]]
    BY <1>3 DEF AddServiceIP
  <2>3. \A g \in Fn : list[g] \in [{Blank} \cup Address -> Nat]  BY <1>0 DEF TypeOK
  <2> QED  BY <1>0, <1>2, <2>1, <2>2, <2>3, AddressNotBlank DEF TypeOK
<1>4. CASE DeleteServiceIP(m)
  <2> DEFINE ips == list[fn[m]]
  <2>1. addr[m] \in Address /\ fn[m] \in Fn  BY <1>0, <1>4 DEF DeleteServiceIP, Placed
  <2>2. /\ list' = [list EXCEPT ![fn[m]] = Without(ips, addr[m])]
        /\ ips[addr[m]] # 0 \/ Empty(ips)
    BY <1>4 DEF DeleteServiceIP
  <2>3. ips \in [{Blank} \cup Address -> Nat]  BY <1>0, <2>1 DEF TypeOK
  <2>4. ips[addr[m]] \in {0, 1}  BY <1>0, <1>2, <2>1 DEF ListsExact
  <2>5. Without(ips, addr[m])[Blank] = ips[Blank]
    BY <2>1, <2>2, <2>3, <2>4, WithoutKeeps
  <2> QED  BY <1>0, <1>2, <2>2, <2>5 DEF TypeOK
<1>5. CASE ~AddServiceIP(m) /\ ~DeleteServiceIP(m)
  <2> list' = list
    BY <1>5 DEF Step, Create, Start, StartFails, GuestAnswers, GuestEnds, PollerAnswered, Stop
  <2> QED  BY <1>2
<1> QED  BY <1>3, <1>4, <1>5

(* Every step keeps the invariant.                                         *)
LEMMA InductiveStep == Inductive /\ [Next]_vars => Inductive'
<1> SUFFICES ASSUME Inductive, [Next]_vars PROVE Inductive'
  OBVIOUS
<1>1. ASSUME NEW m \in Machine, Step(m), ~Restart PROVE Inductive'
  BY <1>1, TypeStep, HolderStep, PollerStep, ListStep, BlankStep DEF Inductive
<1>2. CASE Restart  BY <1>2, RestartStep
<1>3. CASE CreateFails \/ UNCHANGED vars
  <2>1. UNCHANGED <<stage, guest, fn, addr, poller, list, shared, stale>> /\ lock' \in {lock, "leaked"}
    BY <1>3 DEF CreateFails, vars
  <2>2. TypeOK'  BY <2>1 DEF Inductive, TypeOK
  <2>3. Placed' /\ PollerFits'  BY <2>1 DEF Inductive, Placed, PollerFits, Untroubled
  <2>4. SoleHolder'  BY <2>1 DEF Inductive, SoleHolder, Holders
  <2>5. ListsExact' /\ BlankOnlyAfterSharing'
    BY <2>1 DEF Inductive, ListsExact, Untroubled, BlankOnlyAfterSharing
  <2> QED  BY <2>2, <2>3, <2>4, <2>5 DEF Inductive
<1> QED  BY <1>1, <1>2, <1>3 DEF Next, Step

(* Who holds an address, which pollers go on and what the lists say, from  *)
(* which the theorems below follow.                                        *)
THEOREM InvariantHolds == Spec => []Inductive
BY InductiveInit, InductiveStep, PTL DEF Spec

(* The variables have their types; no list ever has fewer than no places.  *)
THEOREM TypeCorrect == Spec => []TypeOK
<1>1. Inductive => TypeOK  BY DEF Inductive
<1> QED  BY <1>1, InvariantHolds, PTL

(* For every number of machines and addresses, the lists hold exactly the  *)
(* addresses of the stored machines that answered, but for those that      *)
(* AllocateIP gave away twice or a late poller added.                      *)
THEOREM ListsAreExact == Spec => []ListsExact
<1>1. Inductive => ListsExact  BY DEF Inductive
<1> QED  BY <1>1, InvariantHolds, PTL

(* NextInstance never returns an empty address while no address was given  *)
(* away twice and no poller outlived its machine.                          *)
THEOREM BlanksOnlyAfterSharing == Spec => []BlankOnlyAfterSharing
<1>1. Inductive => BlankOnlyAfterSharing  BY DEF Inductive
<1> QED  BY <1>1, InvariantHolds, PTL

(* An address in the list of a function leads to a machine of another one  *)
(* only if AllocateIP gave it away twice or a late poller added it.        *)
THEOREM RoutedToOwn == Spec => []RoutesToOwn
<1>1. Inductive => RoutesToOwn
  <2> SUFFICES ASSUME Inductive, NEW f \in Fn, NEW a \in Untroubled, NEW m \in Machine,
                      list[f][a] > 0, addr[m] = a, guest[m] = "answers"
               PROVE  fn[m] = f
    BY DEF RoutesToOwn
  <2>1. Served(f, a)  BY ListsExactIs DEF Inductive
  <2>2. PICK k \in Machine : addr[k] = a /\ fn[k] = f /\ stage[k] \in {"made", "stored"}
    BY <2>1 DEF Served
  <2>3. m = k  BY <2>2, SoleHolderIs DEF Inductive, Holding, Untroubled
  <2> QED  BY <2>2, <2>3
<1> QED  BY <1>1, InvariantHolds, PTL
=============================================================================
