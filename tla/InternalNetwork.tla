-------------------------- MODULE InternalNetwork --------------------------
(***************************************************************************)
(* pkg/network/internal: the network controller the daemon uses.  It keeps *)
(* a random load balancer for every function, a table with the health of   *)
(* every address and a count of addresses, and takes no lock over them.    *)
(*                                                                         *)
(* The callers are the goroutines of the machine store: the poller of each *)
(* machine adds its address once, after the guest has answered; the        *)
(* workers of one ScaleMachinesTo, or the store's health check, delete     *)
(* addresses of one function at a time.  The proxy resolves functions.     *)
(* A load balancer is a heap object; a racy read or write of one of its    *)
(* fields, or of the count, is a step of its own.                          *)
(***************************************************************************)
EXTENDS Naturals, Sequences, FiniteSets

CONSTANTS
  Machine,     \* machines, each with the goroutine that adds its address
  Service,     \* names of functions
  Ip,          \* addresses
  Worker,      \* goroutines that delete addresses
  Resolver,    \* goroutines of the proxy
  Visited,     \* addresses that RunHealthChecks gets to
  Faults,      \* what the environment may get wrong
  None,        \* no machine, no load balancer, no service
  Blank,       \* the empty string in place of an address
  MinTries,    \* 5 in ResolveServiceEndpoint
  CountWrap    \* 2^64: the count is a uint64

FaultKind ==
  { "guest",    \* a guest ends
    "check" }   \* a check gets no answer from a guest that runs

ASSUME VisitedIp   == Visited \subseteq Ip
ASSUME FaultsKnown == Faults \subseteq FaultKind
ASSUME NothingOutside == None \notin Machine \cup Service /\ Blank \notin Ip
ASSUME GoroutinesDiffer == Machine \cap Worker = {}
ASSUME BalancersDiffer == (Machine \cup {None}) \cap (Worker \X Machine) = {}
ASSUME MachinesFinite == IsFiniteSet(Machine)
ASSUME MinTriesNat  == MinTries \in Nat
ASSUME CountWrapNat == CountWrap \in Nat \ {0, 1}

Caller == Machine \cup Worker

(* The objects: one for the address that may be the first of its function, *)
(* one for each copy that DeleteInstance makes.                            *)
Balancer == Machine \cup (Worker \X Machine)

VARIABLES
  svc,        \* function of a machine
  addr,       \* address of a machine; AllocateIP may give one out twice
  guest,      \* machines whose guest answers
  fatal,      \* what ended the daemon; the next one starts from Init
  instances,  \* instancesMap
  heap,       \* the load balancers
  health,     \* healthCheckTable
  count,      \* instanceCount
  pc,         \* next step of a caller
  goal,       \* the machine whose address a worker deletes
  lb,         \* the load balancer a caller works on
  tmp,        \* the size or the count a caller has read
  got,        \* the addresses a caller has read
  probed,     \* what a caller's checkHealth returned
  check,      \* the goroutine of RunHealthChecks
  res,        \* the goroutines of ResolveServiceEndpoint
  marked,     \* machines that the store has marked for deletion
  listed,     \* history: the directory that serial calls would have built
  raced,      \* history: functions with overlapping calls
  miscounted, \* history: two updates of the count overlapped
  undue       \* history: machines deleted twice, or before or without being listed

world   == <<svc, addr>>
tables  == <<instances, heap, health, count>>
local   == <<goal, lb, tmp, got, probed>>
history == <<listed, raced, miscounted, undue>>

vars == <<world, guest, fatal, tables, pc, local, check, res, marked, history>>

-----------------------------------------------------------------------------
(* The machine a call is about, and its function and address. *)
Target(c)  == IF c \in Machine THEN c ELSE goal[c]
Svc(c)     == svc[Target(c)]
Address(c) == addr[Target(c)]

AddStep    == {"grow", "append", "report", "publish"}
DeleteStep == {"shrink", "copy", "replace"}

(* Calls that have loaded the load balancer of s and not yet stored it. *)
Calling(c) == pc[c] \in AddStep \cup DeleteStep

InCall(s) == {c \in Caller : Calling(c) /\ Svc(c) = s}

Goto(c, step) == pc' = [pc EXCEPT ![c] = step]

NoCheck   == [at |-> "idle", ip |-> Blank, good |-> FALSE]
NoResolve == [at |-> "idle", svc |-> None, lb |-> None, max |-> 0, tries |-> 0,
              ip |-> Blank, gone |-> {}]

Init ==
  /\ svc \in [Machine -> Service]
  /\ addr \in [Machine -> Ip]
  /\ guest = Machine
  /\ fatal = "none"
  /\ instances = [s \in Service |-> None]
  /\ heap = [b \in Balancer |-> [size |-> 0, ips |-> <<>>]]
  /\ health = [i \in Ip |-> "absent"]
  /\ count = 0
  /\ pc = [c \in Caller |-> "idle"]
  /\ goal = [w \in Worker |-> None]
  /\ lb = [c \in Caller |-> None]
  /\ tmp = [c \in Caller |-> 0]
  /\ got = [m \in Machine |-> <<>>]
  /\ probed = [m \in Machine |-> FALSE]
  /\ check = NoCheck
  /\ res = [r \in Resolver |-> NoResolve]
  /\ marked = {}
  /\ listed = {}
  /\ raced = {}
  /\ miscounted = FALSE
  /\ undue = {}

(* A guest ends, by Stop or on its own. *)
GuestStops(m) ==
  /\ "guest" \in Faults
  /\ m \in guest
  /\ guest' = guest \ {m}
  /\ UNCHANGED <<world, fatal, tables, pc, local, check, res, marked, history>>

(* checkHealth: an answer 200 or 400 from the address. *)
CheckHealth(i) ==
  {\E m \in guest : addr[m] = i} \cup (IF "check" \in Faults THEN {FALSE} ELSE {})

(* A call that starts while another works on the same load balancer. *)
Overlap(c) == raced' = IF InCall(Svc(c)) = {} THEN raced ELSE raced \cup {Svc(c)}

-----------------------------------------------------------------------------
(* AddServiceIP, in the goroutine that has polled the guest. *)

LoadOrCreate(m) ==
  LET b == IF instances[svc[m]] = None THEN m ELSE instances[svc[m]] IN
  /\ pc[m] = "idle"
  /\ m \in guest
  /\ lb' = [lb EXCEPT ![m] = b]
  /\ tmp' = [tmp EXCEPT ![m] = heap[b].size]
  /\ Goto(m, "grow")
  /\ Overlap(m)
  /\ UNCHANGED <<world, guest, fatal, tables, goal, got, probed, check, res, marked,
                 listed, miscounted, undue>>

(* Mutant of Grow: the size is set to one instead of counted up. *)
GrowToOne(m) ==
  /\ pc[m] = "grow"
  /\ heap' = [heap EXCEPT ![lb[m]].size = 1]
  /\ got' = [got EXCEPT ![m] = heap[lb[m]].ips]
  /\ tmp' = [tmp EXCEPT ![m] = 0]
  /\ Goto(m, "append")
  /\ UNCHANGED <<world, guest, fatal, instances, health, count, goal, lb, probed, check, res,
                 marked, history>>

(* AddInstance works on the load balancer in place. *)
Grow(m) ==
  /\ pc[m] = "grow"
  /\ heap' = [heap EXCEPT ![lb[m]].size = tmp[m] + 1]
  /\ got' = [got EXCEPT ![m] = heap[lb[m]].ips]
  /\ tmp' = [tmp EXCEPT ![m] = 0]
  /\ Goto(m, "append")
  /\ UNCHANGED <<world, guest, fatal, instances, health, count, goal, lb, probed, check, res,
                 marked, history>>

(* The address is in the list, and its health is asked for. *)
AppendIp(m) ==
  /\ pc[m] = "append"
  /\ heap' = [heap EXCEPT ![lb[m]].ips = Append(got[m], addr[m])]
  /\ got' = [got EXCEPT ![m] = <<>>]
  /\ \E good \in CheckHealth(addr[m]) : probed' = [probed EXCEPT ![m] = good]
  /\ Goto(m, "report")
  /\ UNCHANGED <<world, guest, fatal, instances, health, count, goal, lb, tmp, check, res,
                 marked, history>>

State(good) == IF good THEN "good" ELSE "bad"

StoreHealth(m) ==
  /\ pc[m] = "report"
  /\ health' = [health EXCEPT ![addr[m]] = State(probed[m])]
  /\ probed' = [probed EXCEPT ![m] = FALSE]
  /\ Goto(m, "publish")
  /\ UNCHANGED <<world, guest, fatal, instances, heap, count, goal, lb, tmp, got, check, res,
                 marked, history>>

Publish(m) ==
  /\ pc[m] = "publish"
  /\ instances' = [instances EXCEPT ![svc[m]] = lb[m]]
  /\ lb' = [lb EXCEPT ![m] = None]
  /\ listed' = listed \cup {m}
  /\ Goto(m, "readcount")
  /\ UNCHANGED <<world, guest, fatal, heap, health, count, goal, tmp, got, probed, check, res,
                 marked, raced, miscounted, undue>>

AddServiceIP(m) ==
  LoadOrCreate(m) \/ Grow(m) \/ AppendIp(m) \/ StoreHealth(m) \/ Publish(m)

(* The count is read and written without a lock, by either call. *)
ReadCount(c) ==
  /\ pc[c] = "readcount"
  /\ tmp' = [tmp EXCEPT ![c] = count]
  /\ Goto(c, "writecount")
  /\ miscounted' = (miscounted \/ \E d \in Caller : pc[d] = "writecount")
  /\ UNCHANGED <<world, guest, fatal, tables, goal, lb, got, probed, check, res, marked,
                 listed, raced, undue>>

(* Mutant of CountUp: AddServiceIP does not count the address. *)
CountUpForgotten(m) ==
  /\ pc[m] = "writecount"
  /\ tmp' = [tmp EXCEPT ![m] = 0]
  /\ Goto(m, "done")
  /\ UNCHANGED <<world, guest, fatal, tables, goal, lb, got, probed, check, res, marked, history>>

CountUp(m) ==
  /\ pc[m] = "writecount"
  /\ count' = (tmp[m] + 1) % CountWrap
  /\ tmp' = [tmp EXCEPT ![m] = 0]
  /\ Goto(m, "done")
  /\ UNCHANGED <<world, guest, fatal, instances, heap, health, goal, lb, got, probed, check,
                 res, marked, history>>

-----------------------------------------------------------------------------
(* DeleteServiceIP, in a worker of the store. *)

(* getFunctionMachine: not yet marked, of the function being scaled. *)
Pick(w, m) ==
  /\ pc[w] = "idle"
  /\ m \notin marked
  /\ \A v \in Worker : goal[v] # None => svc[goal[v]] = svc[m]
  /\ goal' = [goal EXCEPT ![w] = m]
  /\ Goto(w, "load")
  /\ UNCHANGED <<world, guest, fatal, tables, lb, tmp, got, probed, check, res, marked, history>>

(* DeleteMachine marks the machine, which another worker may have picked   *)
(* too, and destroyMachine calls DeleteServiceIP.                          *)
Load(w) ==
  /\ pc[w] = "load"
  /\ marked' = marked \cup {goal[w]}
  /\ lb' = [lb EXCEPT ![w] = instances[Svc(w)]]
  /\ Goto(w, IF instances[Svc(w)] = None THEN "forget" ELSE "shrink")
  /\ undue' = IF goal[w] \in listed \ marked /\ pc[goal[w]] = "done"
              THEN undue ELSE undue \cup {goal[w]}
  /\ Overlap(w)
  /\ UNCHANGED <<world, guest, fatal, tables, goal, tmp, got, probed, check, res,
                 listed, miscounted>>

(* An empty load balancer is stored again as it is. *)
Shrink(w) ==
  /\ pc[w] = "shrink"
  /\ LET size == heap[lb[w]].size IN
       /\ tmp' = [tmp EXCEPT ![w] = size]
       /\ Goto(w, IF size = 0 THEN "replace" ELSE "copy")
  /\ UNCHANGED <<world, guest, fatal, tables, goal, lb, got, probed, check, res, marked, history>>

(* The addresses of ips but for i, in their order: the n-th is the one at  *)
(* the n-th place that does not hold i.                                    *)
Places(ips, i) == {k \in 1..Len(ips) : ips[k] # i}

Nth(S, n) == CHOOSE k \in S : Cardinality({j \in S : j <= k}) = n

Without(ips, i) ==
  [n \in 1..Cardinality(Places(ips, i)) |-> ips[Nth(Places(ips, i), n)]]

Kept(w) == Without(heap[lb[w]].ips, Address(w))

(* DeleteInstance copies the other addresses into a new slice of size - 1; *)
(* what the copy leaves of it are empty strings.                           *)
Copy(w) ==
  LET room == tmp[w] - 1
      new  == <<w, goal[w]>> IN
  /\ pc[w] = "copy"
  /\ Len(Kept(w)) <= room
  /\ heap' = [heap EXCEPT ![new] =
                [size |-> heap[lb[w]].size - 1,
                 ips  |-> Kept(w) \o [k \in 1..(room - Len(Kept(w))) |-> Blank]]]
  /\ lb' = [lb EXCEPT ![w] = new]
  /\ tmp' = [tmp EXCEPT ![w] = 0]
  /\ Goto(w, "replace")
  /\ UNCHANGED <<world, guest, fatal, instances, health, count, goal, got, probed, check, res,
                 marked, history>>

(* The copy runs over the end of the new slice: the worker's panic ends    *)
(* the daemon.                                                             *)
CopyPanics(w) ==
  /\ pc[w] = "copy"
  /\ Len(Kept(w)) > tmp[w] - 1
  /\ fatal' = "copy"
  /\ Goto(w, "dead")
  /\ UNCHANGED <<world, guest, tables, local, check, res, marked, history>>

(* Mutant of Replace: the copy is not stored in instancesMap. *)
ReplaceNothing(w) ==
  /\ pc[w] = "replace"
  /\ lb' = [lb EXCEPT ![w] = None]
  /\ tmp' = [tmp EXCEPT ![w] = 0]
  /\ listed' = listed \ {goal[w]}
  /\ Goto(w, "forget")
  /\ UNCHANGED <<world, guest, fatal, tables, goal, got, probed, check, res, marked, raced,
                 miscounted, undue>>

Replace(w) ==
  /\ pc[w] = "replace"
  /\ instances' = [instances EXCEPT ![Svc(w)] = lb[w]]
  /\ lb' = [lb EXCEPT ![w] = None]
  /\ tmp' = [tmp EXCEPT ![w] = 0]
  /\ listed' = listed \ {goal[w]}
  /\ Goto(w, "forget")
  /\ UNCHANGED <<world, guest, fatal, heap, health, count, goal, got, probed, check, res,
                 marked, raced, miscounted, undue>>

Forget(w) ==
  /\ pc[w] = "forget"
  /\ health' = [health EXCEPT ![Address(w)] = "absent"]
  /\ Goto(w, "readcount")
  /\ UNCHANGED <<world, guest, fatal, instances, heap, count, local, check, res, marked, history>>

(* Mutant of CountDown: the count is not unsigned. *)
CountDownSigned(w) ==
  /\ pc[w] = "writecount"
  /\ count' = tmp[w] - 1
  /\ tmp' = [tmp EXCEPT ![w] = 0]
  /\ goal' = [goal EXCEPT ![w] = None]
  /\ Goto(w, "idle")
  /\ UNCHANGED <<world, guest, fatal, instances, heap, health, lb, got, probed, check, res,
                 marked, history>>

CountDown(w) ==
  /\ pc[w] = "writecount"
  /\ count' = (tmp[w] + CountWrap - 1) % CountWrap
  /\ tmp' = [tmp EXCEPT ![w] = 0]
  /\ goal' = [goal EXCEPT ![w] = None]
  /\ Goto(w, "idle")
  /\ UNCHANGED <<world, guest, fatal, instances, heap, health, lb, got, probed, check, res,
                 marked, history>>

DeleteServiceIP(w) ==
  \/ Load(w) \/ Shrink(w) \/ Copy(w) \/ CopyPanics(w)
  \/ Replace(w) \/ Forget(w)

-----------------------------------------------------------------------------
(* RunHealthChecks *)

Visit(i) ==
  /\ check.at = "idle"
  /\ health[i] # "absent"
  /\ \E good \in CheckHealth(i) : check' = [at |-> "store", ip |-> i, good |-> good]
  /\ UNCHANGED <<world, guest, fatal, tables, pc, local, res, marked, history>>

(* Mutant of StoreCheck: a failed check leaves the entry as it is. *)
StoreCheckIfGood ==
  /\ check.at = "store"
  /\ health' = IF check.good THEN [health EXCEPT ![check.ip] = "good"] ELSE health
  /\ check' = NoCheck
  /\ UNCHANGED <<world, guest, fatal, instances, heap, count, pc, local, res, marked, history>>

(* Stored whether or not the address is still in the table; then comes the *)
(* delay 300 / (instanceCount + 1), for the count -1 a division by zero.   *)
StoreCheck ==
  /\ check.at = "store"
  /\ health' = [health EXCEPT ![check.ip] = State(check.good)]
  /\ fatal' = IF (count + 1) % CountWrap = 0 THEN "divide" ELSE fatal
  /\ check' = NoCheck
  /\ UNCHANGED <<world, guest, instances, heap, count, pc, local, res, marked, history>>

-----------------------------------------------------------------------------
(* ResolveServiceEndpoint *)

(* Machines whose deletion has returned and that are not listed. *)
Gone(s) ==
  {m \in marked \ listed : svc[m] = s /\ pc[m] = "done" /\ \A w \in Worker : goal[w] # m}

Resolve(r, s) ==
  /\ res[r].at = "idle"
  /\ instances[s] # None
  /\ res' = [res EXCEPT ![r] =
       [at |-> "next", svc |-> s, lb |-> instances[s], max |-> heap[instances[s]].size,
        tries |-> 0, ip |-> Blank, gone |-> Gone(s)]]
  /\ UNCHANGED <<world, guest, fatal, tables, pc, local, check, marked, history>>

GiveUp(r) == res' = [res EXCEPT ![r] = NoResolve]

(* An index past the end of the list is a panic that net/http recovers. *)
NextInstance(r) ==
  LET b == heap[res[r].lb] IN
  /\ res[r].at = "next"
  /\ \/ b.size = 0 /\ GiveUp(r)
     \/ \E k \in 1..b.size :
          IF k > Len(b.ips)
          THEN GiveUp(r)
          ELSE res' = [res EXCEPT ![r].at = "check", ![r].ip = b.ips[k]]
  /\ UNCHANGED <<world, guest, fatal, tables, pc, local, check, marked, history>>

Healthy(i) == i \in Ip /\ health[i] = "good"

(* Mutant of CheckIp: an address is only refused when it is known as bad. *)
CheckIpUnlessBad(r) ==
  /\ res[r].at = "check"
  /\ ~(res[r].ip \in Ip /\ health[res[r].ip] = "bad")
  /\ res' = [res EXCEPT ![r].at = "answer"]
  /\ UNCHANGED <<world, guest, fatal, tables, pc, local, check, marked, history>>

CheckIp(r) ==
  /\ res[r].at = "check"
  /\ IF Healthy(res[r].ip)
     THEN res' = [res EXCEPT ![r].at = "answer"]
     ELSE IF res[r].tries + 1 < res[r].max \/ res[r].tries + 1 < MinTries
          THEN res' = [res EXCEPT ![r].at = "next", ![r].ip = Blank, ![r].tries = @ + 1]
          ELSE GiveUp(r)
  /\ UNCHANGED <<world, guest, fatal, tables, pc, local, check, marked, history>>

Answer(r) ==
  /\ res[r].at = "answer"
  /\ GiveUp(r)
  /\ UNCHANGED <<world, guest, fatal, tables, pc, local, check, marked, history>>

-----------------------------------------------------------------------------
Next ==
  /\ fatal = "none"
  /\ \/ \E m \in Machine : GuestStops(m) \/ AddServiceIP(m) \/ CountUp(m)
     \/ \E w \in Worker, m \in Machine : Pick(w, m)
     \/ \E w \in Worker : DeleteServiceIP(w) \/ CountDown(w)
     \/ \E c \in Caller : ReadCount(c)
     \/ \E i \in Visited : Visit(i)
     \/ StoreCheck
     \/ \E r \in Resolver, s \in Service : Resolve(r, s)
     \/ \E r \in Resolver : NextInstance(r) \/ CheckIp(r) \/ Answer(r)

Spec == Init /\ [][Next]_vars

-----------------------------------------------------------------------------
CallerStep ==
  {"idle", "readcount", "writecount", "done", "load", "forget", "dead"}
    \cup AddStep \cup DeleteStep

(* A RandomLoadBalancer, a pass of RunHealthChecks and a resolution. *)
LoadBalancer == [size : Nat, ips : Seq(Ip \cup {Blank})]

Checking == [at : {"idle", "store"}, ip : Ip \cup {Blank}, good : BOOLEAN]

Resolution ==
  [at : {"idle", "next", "check", "answer"}, svc : Service \cup {None},
   lb : Balancer \cup {None}, max : Nat, tries : Nat, ip : Ip \cup {Blank},
   gone : SUBSET Machine]

TypeOK ==
  /\ svc \in [Machine -> Service]
  /\ addr \in [Machine -> Ip]
  /\ guest \subseteq Machine
  /\ fatal \in {"none", "copy", "divide"}
  /\ instances \in [Service -> Balancer \cup {None}]
  /\ heap \in [Balancer -> LoadBalancer]
  /\ health \in [Ip -> {"absent", "good", "bad"}]
  /\ count \in 0..(CountWrap - 1)
  /\ pc \in [Caller -> CallerStep]
  /\ goal \in [Worker -> Machine \cup {None}]
  /\ lb \in [Caller -> Balancer \cup {None}]
  /\ tmp \in [Caller -> Nat]
  /\ got \in [Machine -> Seq(Ip \cup {Blank})]
  /\ probed \in [Machine -> BOOLEAN]
  /\ check \in Checking
  /\ res \in [Resolver -> Resolution]
  /\ marked \subseteq Machine
  /\ listed \subseteq Machine
  /\ raced \subseteq Service
  /\ miscounted \in BOOLEAN
  /\ undue \subseteq Machine

(* The machines of a function have different addresses. *)
Distinct(s) ==
  \A m, n \in Machine : svc[m] = s /\ svc[n] = s /\ addr[m] = addr[n] => m = n

(* Whatever the calls on other functions and the health check do, the load *)
(* balancer of a function whose own calls never overlapped holds exactly   *)
(* the addresses added and not deleted, and its size counts them.          *)
ListExact ==
  \A s \in Service :
    LET members == {m \in listed : svc[m] = s}
        b       == heap[instances[s]] IN
    s \notin raced /\ InCall(s) = {} /\ Distinct(s) =>
      IF instances[s] = None
      THEN members = {}
      ELSE /\ b.size = Len(b.ips)
           /\ b.size = Cardinality(members)
           /\ {b.ips[k] : k \in 1..Len(b.ips)} = {addr[m] : m \in members}

(* A worker's copy runs over only after overlapping calls on its function, *)
(* for a shared address, or for a machine that is deleted twice, is not    *)
(* listed or whose AddServiceIP has not returned.                          *)
CopyRunsOverOnlyAfterRaces ==
  fatal = "copy" =>
    \E w \in Worker :
      /\ pc[w] = "dead"
      /\ Svc(w) \in raced \/ ~Distinct(Svc(w)) \/ goal[w] \in undue

(* The delay of the health check divides by zero only after overlapping    *)
(* updates of the count, or after the deletion of a machine that another   *)
(* worker deletes too, that is not listed or whose AddServiceIP has not    *)
(* returned.                                                               *)
DelayDividesOnlyAfterRaces == fatal = "divide" => miscounted \/ undue # {}

(* However calls race, a resolved endpoint is an address that a machine of *)
(* the function was given: never that of another function's machine only,  *)
(* never the empty string that DeleteInstance leaves behind.               *)
ResolvesOwnAddress ==
  \A r \in Resolver :
    res[r].at = "answer" =>
      \E m \in Machine : svc[m] = res[r].svc /\ addr[m] = res[r].ip

(* A resolution that begins after a machine was deleted does not return    *)
(* its address, unless calls on the function overlapped.                   *)
NoStaleEndpoint ==
  \A r \in Resolver :
    res[r].at = "answer" /\ res[r].svc \notin raced /\ Distinct(res[r].svc) =>
      \A m \in res[r].gone : addr[m] # res[r].ip

-----------------------------------------------------------------------------
(* What holds of every reachable state, and makes the properties above     *)
(* inductive.                                                              *)

Owner(b) == svc[IF b \in Machine THEN b ELSE b[2]]

OwnIps(s) == {addr[m] : m \in {n \in Machine : svc[n] = s}}

(* Where each goroutine may be, and what it holds there. *)
Placed ==
  /\ \A m \in Machine : pc[m] \in {"idle", "readcount", "writecount", "done"} \cup AddStep
  /\ \A w \in Worker :
       /\ pc[w] \in {"idle", "load", "forget", "readcount", "writecount", "dead"}
                      \cup DeleteStep
       /\ goal[w] = None <=> pc[w] = "idle"
       /\ goal[w] \notin marked => pc[w] \in {"idle", "load"}
  /\ \A c \in Caller :
       /\ pc[c] \in AddStep \cup DeleteStep => lb[c] # None
       /\ lb[c] # None => pc[c] \in AddStep \cup DeleteStep \cup {"dead"}
  /\ \A m \in listed :
       /\ pc[m] \in {"readcount", "writecount", "done"}
       /\ instances[svc[m]] # None

(* A size that a worker has found positive stays so. *)
Sized == \A w \in Worker : pc[w] = "copy" => tmp[w] > 0 /\ heap[lb[w]].size > 0

(* A load balancer that its goroutine has yet to make. *)
Unmade(b) ==
  IF b \in Machine
  THEN pc[b] = "idle"
  ELSE b[2] \in marked => goal[b[1]] = b[2] /\ pc[b[1]] \in {"load", "shrink", "copy"}

Untouched(b) ==
  /\ heap[b] = [size |-> 0, ips |-> <<>>]
  /\ \A s \in Service : instances[s] # b
  /\ \A c \in Caller : lb[c] # b
  /\ \A r \in Resolver : res[r].lb # b

Fresh == \A b \in Balancer : Unmade(b) => Untouched(b)

(* No load balancer gets to a second function. *)
Owned ==
  /\ \A s \in Service : instances[s] # None => Owner(instances[s]) = s
  /\ \A c \in Caller : lb[c] # None => Owner(lb[c]) = Svc(c)

OwnLists ==
  /\ \A b \in Balancer : heap[b].ips \in Seq(OwnIps(Owner(b)) \cup {Blank})
  /\ \A m \in Machine : got[m] \in Seq(OwnIps(svc[m]) \cup {Blank})

Resolving ==
  \A r \in Resolver :
    /\ res[r].at \in {"next", "check"} => res[r].lb # None /\ Owner(res[r].lb) = res[r].svc
    /\ res[r].at = "check" => res[r].ip \in OwnIps(res[r].svc) \cup {Blank}
    /\ res[r].at = "answer" => res[r].ip \in OwnIps(res[r].svc)
    /\ \A m \in res[r].gone : svc[m] = res[r].svc /\ pc[m] = "done" /\ m \in marked \ listed

Undisturbed(s) == s \notin raced /\ Distinct(s)

(* What the list of s would be, had its calls been serial. *)
Addresses(s) == {addr[m] : m \in {n \in listed : svc[n] = s}}

(* ips holds each address of A once, and nothing else. *)
Lists(ips, A) ==
  /\ Len(ips) = Cardinality(A)
  /\ {ips[k] : k \in 1..Len(ips)} = A
  /\ \A j, k \in 1..Len(ips) : ips[j] = ips[k] => j = k

Exact(b, A) == b.size = Cardinality(A) /\ Lists(b.ips, A)

(* One call at a time, unless calls overlapped. *)
Alone == \A s \in Service \ raced : \A c, d \in InCall(s) : c = d

(* The published list, while no call works on it in place. *)
PublishedList(s) ==
  IF instances[s] = None
  THEN Addresses(s) = {}
  ELSE \/ \E m \in Machine : svc[m] = s /\ pc[m] \in {"append", "report", "publish"}
       \/ Exact(heap[instances[s]], Addresses(s))

Published == \A s \in Service : Undisturbed(s) => PublishedList(s)

(* The list a call works on, at each of its steps. *)
ListInHand(c) ==
  LET b == heap[lb[c]]
      A == Addresses(Svc(c)) IN
  /\ pc[c] \in AddStep => instances[Svc(c)] \in {None, lb[c]}
  /\ pc[c] = "grow" => Exact(b, A) /\ tmp[c] = b.size
  /\ pc[c] = "append" => b.size = Cardinality(A) + 1 /\ Lists(b.ips, A) /\ got[c] = b.ips
  /\ pc[c] \in {"report", "publish"} => Exact(b, A \cup {Address(c)})
  /\ pc[c] = "shrink" => Exact(b, A)
  /\ pc[c] = "copy" => Exact(b, A) /\ tmp[c] = b.size
  /\ pc[c] = "replace" => Exact(b, A \ {Address(c)})

InHand == \A c \in Caller : Calling(c) /\ Undisturbed(Svc(c)) => ListInHand(c)

(* A machine that a worker is taking out of the list is in it. *)
DeletesListed ==
  \A w \in Worker :
    pc[w] \in DeleteStep /\ Svc(w) \notin raced => goal[w] \in listed \cup undue

(* The list a resolution reads from keeps no address that is gone. *)
GoneForGood ==
  \A r \in Resolver : Undisturbed(res[r].svc) =>
    \A m \in res[r].gone :
      /\ res[r].at \in {"next", "check"} =>
           \A k \in 1..Len(heap[res[r].lb].ips) : heap[res[r].lb].ips[k] # addr[m]
      /\ res[r].at \in {"check", "answer"} => res[r].ip # addr[m]

(* The machines whose address has been counted up and not down again. *)
Counted ==
  {m \in Machine :
    pc[m] = "done" /\ (m \in marked => \E w \in Worker : goal[w] = m /\ pc[w] # "load")}

(* An address for each value of the count but two, at most. *)
FewMachines == Cardinality(Machine) + 1 < CountWrap

CountExact ==
  ~miscounted =>
    /\ \A c, d \in Caller : pc[c] = "writecount" /\ pc[d] = "writecount" => c = d
    /\ \A c \in Caller : pc[c] = "writecount" => tmp[c] = count
    /\ undue = {} =>
         /\ \A m \in marked : pc[m] = "done"
         /\ \A v, w \in Worker :
              goal[v] = goal[w] /\ pc[v] \notin {"idle", "load"} /\ pc[w] \notin {"idle", "load"}
                => v = w
         /\ FewMachines => count = Cardinality(Counted)

Inductive ==
  /\ TypeOK
  /\ Placed
  /\ Sized
  /\ Fresh
  /\ Owned
  /\ OwnLists
  /\ Resolving
  /\ Alone
  /\ Published
  /\ InHand
  /\ DeletesListed
  /\ CopyRunsOverOnlyAfterRaces
  /\ GoneForGood
  /\ CountExact
  /\ FewMachines => DelayDividesOnlyAfterRaces

-----------------------------------------------------------------------------
(* Calls return, and each pass of the health check visits every address    *)
(* that stays in the table.                                                *)
Running == fatal = "none"

Fairness ==
  /\ \A m \in Machine : WF_vars(Running /\ (AddServiceIP(m) \/ ReadCount(m) \/ CountUp(m)))
  /\ \A w \in Worker : WF_vars(Running /\ (DeleteServiceIP(w) \/ ReadCount(w) \/ CountDown(w)))
  /\ \A i \in Visited : SF_vars(Running /\ Visit(i))
  /\ WF_vars(Running /\ StoreCheck)

FairSpec == Spec /\ Fairness

(* An address at which no guest answers any more ends up refused, though   *)
(* AddServiceIP, DeleteServiceIP and RunHealthChecks write its entry in    *)
(* any order with answers they got earlier.                                *)
HealthCorrected ==
  \A i \in Visited :
    (\A m \in guest : addr[m] # i) ~> (health[i] # "good" \/ fatal # "none")
=============================================================================
