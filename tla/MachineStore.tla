---------------------------- MODULE MachineStore ----------------------------
(***************************************************************************)
(* pkg/store/machine.go: the store of running unikernels.                  *)
(*                                                                         *)
(* A machine is created by the goroutine that runs createMachine for it,   *)
(* so that goroutine is named by the machine.  Deletions run in a pool of  *)
(* worker goroutines spawned by ScaleMachinesTo and in the goroutine of    *)
(* RunHealthChecks.  One TLA+ step is one access to state that another     *)
(* goroutine can see: a lock, a sync.Map, the Status of a machine, a call  *)
(* to the platform or to the network controller.                           *)
(***************************************************************************)
EXTENDS Naturals, FiniteSets

CONSTANTS
  Machine,      \* the UIDs that machines may get, never used twice
  Service,      \* names of functions
  Worker,       \* goroutines that ScaleMachinesTo spawns to delete machines
  Checker,      \* the goroutine of RunHealthChecks
  None,         \* no machine, no service
  MaxReplicas,  \* bound on the replicas a request asks for
  Faults        \* what the environment may get wrong

FaultKind ==
  { "prepare",      \* volume setup fails
    "setup",        \* network setup or Create returns an error
    "setup_hook",   \* a hook of Create fails: it returns a nil machine
    "start",        \* Start returns an error
    "start_hook",   \* a hook of Start fails: it returns a nil machine
    "get",          \* the process lives and does not answer a query
    "get_hook",     \* a hook of Get fails: it returns a nil machine
    "lookup",       \* the platform cannot be detected
    "stop",         \* the process does not accept Stop or does not end in time
    "stop_hook",    \* a hook of Stop fails: it returns a nil machine
    "unlink",       \* the tap device cannot be found or removed
    "vm",           \* the guest halts or its process dies
    "crash" }       \* the daemon is killed

ASSUME MachineFinite     == IsFiniteSet(Machine)
ASSUME WorkerFinite      == IsFiniteSet(Worker)
ASSUME CheckerNotWorker  == Checker \notin Worker
ASSUME NoneOutside       == None \notin Machine
ASSUME MaxReplicasNat    == MaxReplicas \in Nat
ASSUME FaultsKnown       == Faults \subseteq FaultKind

Destroyer == Worker \cup {Checker}

VARIABLES
  stage,     \* how far createMachine got for a machine
  service,   \* label ukfaas.io/service
  clones,    \* machines that the current ScaleMachinesTo waits for
  lock,      \* holder of MachineStore.lock
  vm,        \* the qemu process of a machine and the guest in it
  links,     \* machines whose tap device exists
  poller,    \* the goroutine that waits for the first answer of the guest
  reg,       \* machines whose IP the network controller knows
  status,    \* machine.Status.State
  inst,      \* keys of machineInstanceMapv2
  net,       \* keys of machineNetworkMapv2
  hlock,     \* holder of MachineStore.healthChecklock
  scale,     \* arguments of the ScaleMachinesTo that holds it
  pc,        \* next step of a destroyer
  goal,      \* the machine a destroyer works on
  reported   \* history: machines an error was returned or logged about

creation == <<stage, service, clones, lock>>
host     == <<vm, links>>
endpoint == <<poller, reg>>
tables   == <<inst, net>>
control  == <<hlock, scale, pc, goal>>

vars == <<creation, host, endpoint, status, tables, control, reported>>

-----------------------------------------------------------------------------
Stage ==
  {"none", "clone", "prepare", "lock", "setup", "start",
   "record", "recordnet", "done", "failed", "gone"}

Ended == {"done", "failed"}

VMState == {"none", "paused", "up", "halted", "dead"}

\* The states of a process that still runs.
Alive == {"paused", "up", "halted"}

Status == {"none", "created", "running", "unknown", "exited", "failed", "lost"}

DestroyStep == {"lookup", "deregister", "stop", "keep", "unlink", "forget"}

NoScale == [svc |-> None, target |-> 0]

(* GetReplicas, getFunctionMachine: the machines of a service in the table *)
(* whose status is running.                                                *)
Running(s) == {m \in inst : service[m] = s /\ status[m] = "running"}

(* The addresses the load balancer of a service holds. *)
Routed(s) == {m \in reg : service[m] = s}

Unused == {m \in Machine : stage[m] = "none"}

(* What Get reads from the process and from QMP. *)
Probe(m) == CASE vm[m] = "up"     -> "running"
              [] vm[m] = "halted" -> "failed"
              [] OTHER            -> "exited"

Init ==
  /\ stage = [m \in Machine |-> "none"]
  /\ service = [m \in Machine |-> None]
  /\ clones = {}
  /\ lock = None
  /\ vm = [m \in Machine |-> "none"]
  /\ links = {}
  /\ poller = [m \in Machine |-> "none"]
  /\ reg = {}
  /\ status = [m \in Machine |-> "none"]
  /\ inst = {}
  /\ net = {}
  /\ hlock = "free"
  /\ scale = NoScale
  /\ pc = [d \in Destroyer |-> "idle"]
  /\ goal = [d \in Destroyer |-> None]
  /\ reported = {}

-----------------------------------------------------------------------------
(* The daemon ends and systemd starts it again: the maps, the locks, the   *)
(* goroutines and the load balancers are lost, nothing is read back.       *)
Restart ==
  /\ stage' = [m \in Machine |-> IF stage[m] = "none" THEN "none" ELSE "gone"]
  /\ clones' = {}
  /\ lock' = None
  /\ poller' = [m \in Machine |-> "none"]
  /\ reg' = {}
  /\ status' = [m \in Machine |-> IF stage[m] = "none" THEN "none" ELSE "lost"]
  /\ inst' = {}
  /\ net' = {}
  /\ hlock' = "free"
  /\ scale' = NoScale
  /\ pc' = [d \in Destroyer |-> "idle"]
  /\ goal' = [d \in Destroyer |-> None]
  /\ reported' = {m \in Machine : stage[m] # "none"}
  /\ UNCHANGED service

Crash ==
  /\ "crash" \in Faults
  /\ \E m \in Machine : stage[m] \notin {"none", "gone"}
  /\ Restart
  /\ UNCHANGED host

-----------------------------------------------------------------------------
(* createMachine *)

Advance(m, to) == stage' = [stage EXCEPT ![m] = to]

(* NewMachine, called by the deploy, scale, update and invoke handlers. *)
NewMachine(m, s) ==
  /\ stage[m] = "none"
  /\ Advance(m, "prepare")
  /\ service' = [service EXCEPT ![m] = s]
  /\ UNCHANGED <<clones, lock, host, endpoint, status, tables, control, reported>>

(* CloneMachine copies the first running machine of the service. *)
CloneMachine(m) ==
  /\ stage[m] = "clone"
  /\ Advance(m, IF Running(service[m]) = {} THEN "failed" ELSE "prepare")
  /\ UNCHANGED <<service, clones, lock, host, endpoint, status, tables, control, reported>>

PrepareVolume(m) ==
  /\ stage[m] = "prepare"
  /\ \/ Advance(m, "lock")
     \/ "prepare" \in Faults /\ Advance(m, "failed")
  /\ UNCHANGED <<service, clones, lock, host, endpoint, status, tables, control, reported>>

AcquireLock(m) ==
  /\ stage[m] = "lock"
  /\ lock = None
  /\ lock' = m
  /\ Advance(m, "setup")
  /\ UNCHANGED <<service, clones, host, endpoint, status, tables, control, reported>>

(* Mutant of CreateVM: Unlock is forgotten on the way to Start. *)
CreateVMKeepsLock(m) ==
  /\ stage[m] = "setup"
  /\ Advance(m, "start")
  /\ vm' = [vm EXCEPT ![m] = "paused"]
  /\ links' = links \cup {m}
  /\ poller' = [poller EXCEPT ![m] = "polling"]
  /\ status' = [status EXCEPT ![m] = "created"]
  /\ UNCHANGED <<service, clones, lock, reg, tables, control, reported>>

(* The tap device, the paused qemu process, Unlock and the poller. *)
CreateVM(m) ==
  /\ stage[m] = "setup"
  /\ Advance(m, "start")
  /\ lock' = None
  /\ vm' = [vm EXCEPT ![m] = "paused"]
  /\ links' = links \cup {m}
  /\ poller' = [poller EXCEPT ![m] = "polling"]
  /\ status' = [status EXCEPT ![m] = "created"]
  /\ UNCHANGED <<service, clones, reg, tables, control, reported>>

(* The error returns between Lock and Unlock keep the lock. *)
CreateFails(m) ==
  /\ stage[m] = "setup"
  /\ "setup" \in Faults
  /\ Advance(m, "failed")
  /\ links' \in {links, links \cup {m}}
  /\ reported' = reported \cup {m}
  /\ UNCHANGED <<service, clones, lock, vm, endpoint, status, tables, control>>

(* A nil machine and an error: the deferred cleanup dereferences nil.  A   *)
(* handler's panic is recovered by net/http and its goroutine ends, with   *)
(* the lock if it has it; a clone's panic ends the daemon.                 *)
Panic(m) ==
  \/ m \in clones /\ Restart
  \/ /\ m \notin clones
     /\ Advance(m, "failed")
     /\ reported' = reported \cup {m}
     /\ UNCHANGED <<service, clones, lock, endpoint, status, tables, control>>

CreatePanics(m) ==
  /\ stage[m] = "setup"
  /\ "setup_hook" \in Faults
  /\ vm' \in {vm, [vm EXCEPT ![m] = "paused"]}
  /\ links' = links \cup {m}
  /\ Panic(m)

StartVM(m) ==
  /\ stage[m] = "start"
  /\ vm[m] = "paused"
  /\ Advance(m, "record")
  /\ vm' = [vm EXCEPT ![m] = "up"]
  /\ status' = [status EXCEPT ![m] = "running"]
  /\ UNCHANGED <<service, clones, lock, links, endpoint, tables, control, reported>>

(* The process is gone, or Start fails before or after the guest runs. *)
Started(m) == IF vm[m] = "paused" THEN {vm, [vm EXCEPT ![m] = "up"]} ELSE {vm}

StartFails(m) ==
  /\ stage[m] = "start"
  /\ vm[m] = "dead" \/ "start" \in Faults
  /\ vm' \in Started(m)
  /\ Advance(m, "failed")
  /\ reported' = reported \cup {m}
  /\ UNCHANGED <<service, clones, lock, links, endpoint, status, tables, control>>

StartPanics(m) ==
  /\ stage[m] = "start"
  /\ "start_hook" \in Faults
  /\ vm' \in Started(m)
  /\ UNCHANGED links
  /\ Panic(m)

StoreInstance(m) ==
  /\ stage[m] = "record"
  /\ Advance(m, "recordnet")
  /\ inst' = inst \cup {m}
  /\ UNCHANGED <<service, clones, lock, host, endpoint, status, net, control, reported>>

StoreNetwork(m) ==
  /\ stage[m] = "recordnet"
  /\ Advance(m, "done")
  /\ net' = net \cup {m}
  /\ UNCHANGED <<service, clones, lock, host, endpoint, status, inst, control, reported>>

Create(m) ==
  \/ CloneMachine(m) \/ PrepareVolume(m) \/ AcquireLock(m)
  \/ CreateVM(m) \/ CreateFails(m) \/ CreatePanics(m)
  \/ StartVM(m) \/ StartFails(m) \/ StartPanics(m)
  \/ StoreInstance(m) \/ StoreNetwork(m)

(* The poller that createMachine spawns asks until the guest answers, then *)
(* hands the address to the network controller.                            *)
PollerAnswered(m) ==
  /\ poller[m] = "polling"
  /\ vm[m] = "up"
  /\ poller' = [poller EXCEPT ![m] = "answered"]
  /\ UNCHANGED <<creation, host, reg, status, tables, control, reported>>

AddServiceIP(m) ==
  /\ poller[m] = "answered"
  /\ poller' = [poller EXCEPT ![m] = "none"]
  /\ reg' = reg \cup {m}
  /\ UNCHANGED <<creation, host, status, tables, control, reported>>

-----------------------------------------------------------------------------
(* ScaleMachinesTo *)

ScaleUp(s, n) ==
  /\ \E new \in SUBSET Unused :
       /\ Cardinality(new) = n
       /\ clones' = new
       /\ stage' = [m \in Machine |-> IF m \in new THEN "clone" ELSE stage[m]]
       /\ service' = [m \in Machine |-> IF m \in new THEN s ELSE service[m]]
  /\ UNCHANGED pc

(* Mutant of ScaleDown: the loop runs once too often, i >= replicas. *)
ScaleDownTooFar(n) ==
  /\ \E chosen \in SUBSET Worker :
       /\ Cardinality(chosen) = n + 1
       /\ pc' = [d \in Destroyer |-> IF d \in chosen THEN "pick" ELSE pc[d]]
  /\ UNCHANGED <<stage, service, clones>>

ScaleDown(n) ==
  /\ \E chosen \in SUBSET Worker :
       /\ Cardinality(chosen) = n
       /\ pc' = [d \in Destroyer |-> IF d \in chosen THEN "pick" ELSE pc[d]]
  /\ UNCHANGED <<stage, service, clones>>

ScaleMachinesTo(s, replicas) ==
  LET current == Cardinality(Running(s)) IN
  /\ hlock = "free"
  /\ hlock' = "scale"
  /\ scale' = [svc |-> s, target |-> replicas]
  /\ \/ current < replicas /\ ScaleUp(s, replicas - current)
     \/ replicas < current /\ ScaleDown(current - replicas)
     \/ current = replicas /\ UNCHANGED <<stage, service, clones, pc>>
  /\ UNCHANGED <<lock, host, endpoint, status, tables, goal, reported>>

(* wg.Wait returns and the deferred Unlock runs. *)
ScaleDone ==
  /\ hlock = "scale"
  /\ \A w \in Worker : pc[w] = "idle"
  /\ \A m \in clones : stage[m] \in Ended
  /\ hlock' = "free"
  /\ scale' = NoScale
  /\ clones' = {}
  /\ UNCHANGED <<stage, service, lock, host, endpoint, status, tables, pc, goal, reported>>

-----------------------------------------------------------------------------
(* DeleteMachine and destroyMachine *)

Goto(d, step) == pc' = [pc EXCEPT ![d] = step]

(* Mutant of Return: the health check returns from an entry without Unlock. *)
ReturnWithoutUnlock(d) ==
  /\ pc' = [pc EXCEPT ![d] = "idle"]
  /\ goal' = [goal EXCEPT ![d] = None]
  /\ UNCHANGED <<hlock, scale>>

(* The goroutine ends, or the health check leaves the entry it visits. *)
Return(d) ==
  /\ pc' = [pc EXCEPT ![d] = "idle"]
  /\ goal' = [goal EXCEPT ![d] = None]
  /\ hlock' = IF d = Checker THEN "free" ELSE hlock
  /\ UNCHANGED scale

Report(m) == reported' = reported \cup {m}

(* Mutant of PickMachine: the label of the machine is not compared. *)
PickAnyMachine(w) ==
  /\ pc[w] = "pick"
  /\ \E m \in inst :
       /\ status[m] = "running"
       /\ Goto(w, "mark")
       /\ goal' = [goal EXCEPT ![w] = m]
  /\ UNCHANGED <<creation, host, endpoint, status, tables, hlock, scale, reported>>

(* getFunctionMachine returns the first running machine of the function.   *)
PickMachine(w) ==
  /\ pc[w] = "pick"
  /\ IF Running(scale.svc) = {}
     THEN Return(w)
     ELSE /\ \E m \in Running(scale.svc) : goal' = [goal EXCEPT ![w] = m]
          /\ Goto(w, "mark")
          /\ UNCHANGED <<hlock, scale>>
  /\ UNCHANGED <<creation, host, endpoint, status, tables, reported>>

MarkUnknown(w) ==
  /\ pc[w] = "mark"
  /\ status' = [status EXCEPT ![goal[w]] = "unknown"]
  /\ inst' = inst \cup {goal[w]}
  /\ Goto(w, "lookup")
  /\ UNCHANGED <<creation, host, endpoint, net, hlock, scale, goal, reported>>

LookupInterface(d) ==
  /\ pc[d] = "lookup"
  /\ goal[d] \in net
  /\ Goto(d, "deregister")
  /\ UNCHANGED <<creation, host, endpoint, status, tables, hlock, scale, goal, reported>>

(* DeleteMachine's caller logs the error, RunHealthChecks drops it. *)
LookupFails(d) ==
  /\ pc[d] = "lookup"
  /\ goal[d] \notin net \/ "lookup" \in Faults
  /\ Return(d)
  /\ IF d = Checker THEN UNCHANGED reported ELSE Report(goal[d])
  /\ UNCHANGED <<creation, host, endpoint, status, tables>>

(* Mutant of DeleteServiceIP: without an address there is nothing to stop. *)
DeleteServiceIPOrReturn(d) ==
  /\ pc[d] = "deregister"
  /\ goal[d] \in reg \/ Routed(service[goal[d]]) = {}
  /\ reg' = reg \ {goal[d]}
  /\ IF goal[d] \in reg
     THEN Goto(d, "stop") /\ UNCHANGED <<hlock, scale, goal>>
     ELSE Return(d)
  /\ UNCHANGED <<creation, host, poller, status, tables, reported>>

(* DeleteServiceIP takes an address out of the service's list. *)
DeleteServiceIP(d) ==
  /\ pc[d] = "deregister"
  /\ goal[d] \in reg \/ Routed(service[goal[d]]) = {}
  /\ reg' = reg \ {goal[d]}
  /\ Goto(d, "stop")
  /\ UNCHANGED <<creation, host, poller, status, tables, hlock, scale, goal, reported>>

(* DeleteInstance copies size - 1 addresses: when the address to delete is *)
(* not in the list the copy runs over the end of the new slice.            *)
DeleteServiceIPPanics(d) ==
  /\ pc[d] = "deregister"
  /\ goal[d] \notin reg
  /\ Routed(service[goal[d]]) # {}
  /\ Restart
  /\ UNCHANGED host

StopVM(d) ==
  /\ pc[d] = "stop"
  /\ vm[goal[d]] \in Alive
  /\ vm' = [vm EXCEPT ![goal[d]] = "dead"]
  /\ status' = [status EXCEPT ![goal[d]] = "exited"]
  /\ Goto(d, "keep")
  /\ UNCHANGED <<creation, links, endpoint, tables, hlock, scale, goal, reported>>

(* Stop returns an error and the machine: there is no process, it does not *)
(* accept Stop, or it has not ended after five seconds and the status      *)
(* already says that it did.                                               *)
StopRefused(d) ==
  /\ pc[d] = "stop"
  /\ \/ vm[goal[d]] \notin Alive /\ UNCHANGED status
     \/ "stop" \in Faults /\ status' \in {status, [status EXCEPT ![goal[d]] = "exited"]}
  /\ Goto(d, "keep")
  /\ Report(goal[d])
  /\ UNCHANGED <<creation, host, endpoint, tables, hlock, scale, goal>>

(* Mutant of StopHookFails: the nil machine is stored like any other. *)
StopHookFailsUnchecked(d) ==
  /\ pc[d] = "stop"
  /\ "stop_hook" \in Faults
  /\ goal' = [goal EXCEPT ![d] = None]
  /\ Goto(d, "keep")
  /\ Report(goal[d])
  /\ UNCHANGED <<creation, host, endpoint, status, tables, hlock, scale>>

(* A hook fails before Stop ran, or after it did: Stop returns nil. *)
StopHookFails(d) ==
  /\ pc[d] = "stop"
  /\ "stop_hook" \in Faults
  /\ \/ UNCHANGED <<vm, status>>
     \/ /\ vm[goal[d]] \in Alive
        /\ vm' = [vm EXCEPT ![goal[d]] = "dead"]
        /\ status' = [status EXCEPT ![goal[d]] = "exited"]
  /\ Goto(d, "unlink")
  /\ Report(goal[d])
  /\ UNCHANGED <<creation, links, endpoint, tables, hlock, scale, goal>>

(* Stop returned the machine: its entry is stored again. *)
KeepEntry(d) ==
  /\ pc[d] = "keep"
  /\ inst' = inst \cup {goal[d]}
  /\ Return(d)
  /\ UNCHANGED <<creation, host, endpoint, status, net, reported>>

(* The link is deleted, or could not be found and stays. *)
Unlink(d) ==
  /\ pc[d] = "unlink"
  /\ \/ links' = links \ {goal[d]}
     \/ "unlink" \in Faults /\ UNCHANGED links
  /\ Goto(d, "forget")
  /\ UNCHANGED <<creation, vm, endpoint, status, tables, hlock, scale, goal, reported>>

UnlinkFails(d) ==
  /\ pc[d] = "unlink"
  /\ "unlink" \in Faults
  /\ Return(d)
  /\ UNCHANGED <<creation, host, endpoint, status, tables, reported>>

ForgetEntry(d) ==
  /\ pc[d] = "forget"
  /\ inst' = inst \ {goal[d]}
  /\ net' = net \ {goal[d]}
  /\ Return(d)
  /\ UNCHANGED <<creation, host, endpoint, status, reported>>

Delete(w) == PickMachine(w) \/ MarkUnknown(w)

Destroy(d) ==
  \/ LookupInterface(d) \/ LookupFails(d)
  \/ DeleteServiceIP(d) \/ DeleteServiceIPPanics(d)
  \/ StopVM(d) \/ StopRefused(d) \/ StopHookFails(d)
  \/ KeepEntry(d) \/ Unlink(d) \/ UnlinkFails(d) \/ ForgetEntry(d)

-----------------------------------------------------------------------------
(* RunHealthChecks *)

(* Range hands out the next entry before the callback takes the lock. *)
VisitEntry(m) ==
  /\ pc[Checker] = "idle"
  /\ m \in inst
  /\ Goto(Checker, "want")
  /\ goal' = [goal EXCEPT ![Checker] = m]
  /\ UNCHANGED <<creation, host, endpoint, status, tables, hlock, scale, reported>>

(* Mutant of LockEntry: the health check does not wait for the lock. *)
LockEntryAtOnce ==
  /\ pc[Checker] = "want"
  /\ IF status[goal[Checker]] = "running"
     THEN Goto(Checker, "get") /\ UNCHANGED goal
     ELSE pc' = [pc EXCEPT ![Checker] = "idle"] /\ goal' = [goal EXCEPT ![Checker] = None]
  /\ UNCHANGED <<creation, host, endpoint, status, tables, hlock, scale, reported>>

LockEntry ==
  /\ pc[Checker] = "want"
  /\ hlock = "free"
  /\ IF status[goal[Checker]] = "running"
     THEN /\ hlock' = "health"
          /\ Goto(Checker, "get")
          /\ UNCHANGED <<goal, scale>>
     ELSE Return(Checker)
  /\ UNCHANGED <<creation, host, endpoint, status, tables, reported>>

(* Mutant of GetState: the answer is not looked at. *)
GetStateAlwaysDestroys ==
  /\ pc[Checker] = "get"
  /\ status' = [status EXCEPT ![goal[Checker]] = Probe(goal[Checker])]
  /\ Goto(Checker, "lookup")
  /\ UNCHANGED <<creation, host, endpoint, tables, hlock, scale, goal, reported>>

(* Get writes what it found into the machine it was given. *)
GetState ==
  LET m == goal[Checker] IN
  /\ pc[Checker] = "get"
  /\ status' = [status EXCEPT ![m] = Probe(m)]
  /\ IF Probe(m) = "running"
     THEN Return(Checker)
     ELSE /\ Goto(Checker, "lookup")
          /\ UNCHANGED <<hlock, scale, goal>>
  /\ UNCHANGED <<creation, host, endpoint, tables, reported>>

(* The query fails: Get leaves the status unknown behind and the entry is  *)
(* skipped from now on.                                                    *)
GetFails ==
  /\ pc[Checker] = "get"
  /\ "get" \in Faults
  /\ vm[goal[Checker]] \in Alive
  /\ status' = [status EXCEPT ![goal[Checker]] = "unknown"]
  /\ Report(goal[Checker])
  /\ Return(Checker)
  /\ UNCHANGED <<creation, host, endpoint, tables>>

GetHookFails ==
  /\ pc[Checker] = "get"
  /\ "get_hook" \in Faults
  /\ status' \in {status, [status EXCEPT ![goal[Checker]] = Probe(goal[Checker])]}
  /\ Report(goal[Checker])
  /\ Return(Checker)
  /\ UNCHANGED <<creation, host, endpoint, tables>>

Check == LockEntry \/ GetState \/ GetFails \/ GetHookFails

-----------------------------------------------------------------------------
(* The guest and its process, outside the daemon. *)

GuestHalts(m) ==
  /\ "vm" \in Faults
  /\ vm[m] = "up"
  /\ vm' = [vm EXCEPT ![m] = "halted"]
  /\ UNCHANGED <<creation, links, endpoint, status, tables, control, reported>>

ProcessDies(m) ==
  /\ "vm" \in Faults
  /\ vm[m] \in Alive
  /\ vm' = [vm EXCEPT ![m] = "dead"]
  /\ UNCHANGED <<creation, links, endpoint, status, tables, control, reported>>

Next ==
  \/ \E m \in Machine, s \in Service : NewMachine(m, s)
  \/ \E m \in Machine : Create(m)
  \/ \E m \in Machine : PollerAnswered(m) \/ AddServiceIP(m)
  \/ \E s \in Service, n \in 0..MaxReplicas : ScaleMachinesTo(s, n)
  \/ ScaleDone
  \/ \E w \in Worker : Delete(w)
  \/ \E d \in Destroyer : Destroy(d)
  \/ \E m \in Machine : VisitEntry(m)
  \/ Check
  \/ \E m \in Machine : GuestHalts(m) \/ ProcessDies(m)
  \/ Crash

Spec == Init /\ [][Next]_vars

-----------------------------------------------------------------------------
TypeOK ==
  /\ stage \in [Machine -> Stage]
  /\ service \in [Machine -> Service \cup {None}]
  /\ clones \subseteq Machine
  /\ lock \in Machine \cup {None}
  /\ vm \in [Machine -> VMState]
  /\ links \subseteq Machine
  /\ poller \in [Machine -> {"none", "polling", "answered"}]
  /\ reg \subseteq Machine
  /\ status \in [Machine -> Status]
  /\ inst \subseteq Machine
  /\ net \subseteq Machine
  /\ hlock \in {"free", "scale", "health"}
  /\ scale \in [svc : Service \cup {None}, target : Nat]
  /\ pc \in [Destroyer -> {"idle", "pick", "mark", "want", "get"} \cup DestroyStep]
  /\ goal \in [Destroyer -> Machine \cup {None}]
  /\ reported \subseteq Machine

(* A machine is listed as running, or a goroutine that knows it is         *)
(* creating or destroying it, or somebody was told.                        *)
Accounted(m) ==
  \/ stage[m] \in {"start", "record"}
  \/ m \in inst /\ status[m] = "running"
  \/ \E d \in Destroyer : goal[d] = m /\ pc[d] \in {"lookup", "deregister", "stop"}
  \/ m \in reported

(* createMachine, scaling down and the health check never drop a unikernel *)
(* whose guest can run without an error that somebody sees.                *)
NoServingLoss ==
  \A m \in Machine : vm[m] \in {"paused", "up"} => Accounted(m)

(* While ScaleMachinesTo runs, the machines that run and the clones it     *)
(* waits for or that failed, less the deletions still to choose or mark    *)
(* their machine, are at least the replicas asked for: whatever the        *)
(* workers race for, scaling down never goes below the target.             *)
Waited  == {m \in clones : stage[m] # "done"}
Pending == {w \in Worker : pc[w] \in {"pick", "mark"}}

ScaleFloor ==
  hlock = "scale" =>
    Cardinality(Running(scale.svc) \cup Waited) >= scale.target + Cardinality(Pending)

(* A worker that looks for a machine to delete finds one, however many     *)
(* others look at the same time: DeleteMachine never reports "not found".  *)
DeletionFindsMachine ==
  \A w \in Worker : pc[w] = "pick" => Running(scale.svc) # {}

(* The health check, however its reading of the table and of the process   *)
(* interleaves with scaling and with deaths, only destroys a machine whose *)
(* guest has ended.                                                        *)
CheckerSparesServing ==
  pc[Checker] \in DestroyStep => vm[goal[Checker]] \notin {"paused", "up"}

(* Once scaling down, the health check or a stop has taken a machine out   *)
(* of service, nothing puts it back among the running ones.                *)
NoResurrection ==
  [][\A m \in Machine : status[m] \notin {"none", "created", "running"}
                            => status'[m] # "running"]_vars

(* The replica set the store implements: a machine serves while its entry  *)
(* is listed as running and is spent once its status says anything else.   *)
Task ==
  IF hlock = "scale"
  THEN [kind |-> "scale", svc |-> scale.svc, floor |-> scale.target, machine |-> None]
  ELSE IF hlock = "health"
  THEN [kind |-> "check", svc |-> None, floor |-> 0, machine |-> goal[Checker]]
  ELSE [kind |-> "idle", svc |-> None, floor |-> 0, machine |-> None]

Abstract == INSTANCE ReplicaSet WITH
  serving <- {<<m, service[m]>> : m \in {k \in inst : status[k] = "running"}},
  spent   <- {m \in Machine : status[m] \in {"unknown", "exited", "failed", "lost"}},
  task    <- Task

(* Machines leave service for good, one by one, by a scale-down of their   *)
(* own function that stays at or above its target, or by the health check  *)
(* that holds the lock for them.                                           *)
ImplementsReplicaSet == Abstract!Spec

-----------------------------------------------------------------------------
(* Goroutines that can run do run, and every call they make returns.  The  *)
(* mutex hands itself to a waiter that has waited long enough, and each    *)
(* pass of the health check visits every entry that stays in the table.    *)
Fairness ==
  /\ \A m \in Machine : WF_vars(Create(m)) /\ WF_vars(AddServiceIP(m))
  /\ \A w \in Worker : WF_vars(Delete(w))
  /\ \A d \in Destroyer : WF_vars(Destroy(d))
  /\ WF_vars(ScaleDone)
  /\ \A m \in Machine : SF_vars(VisitEntry(m))
  /\ SF_vars(LockEntry)
  /\ WF_vars(GetState \/ GetFails \/ GetHookFails)

FairSpec == Spec /\ Fairness

(* The mutex of createMachine that no goroutine will ever release. *)
LockLeaked == lock # None /\ stage[lock] = "failed"

(* ScaleMachinesTo returns, and releases the health check lock, unless a   *)
(* failed createMachine left its mutex locked behind it.                   *)
ScaleReturns == hlock = "scale" ~> hlock # "scale" \/ LockLeaked

(* The process of a listed machine that ends is noticed: the machine stops *)
(* counting as a replica, or scaling is stuck on the leaked mutex.         *)
DeathIsNoticed ==
  \A m \in Machine :
    (m \in Running(service[m]) /\ vm[m] = "dead") ~> (status[m] # "running" \/ LockLeaked)

-----------------------------------------------------------------------------
(* The inductive invariant behind the safety properties. *)

(* What the status and the process of a machine can be at each stage of    *)
(* its creation: nothing touches them before the machine is in the table.  *)
StageFits ==
  \A m \in Machine :
    /\ stage[m] \in {"none", "clone", "prepare", "lock", "setup"}
         => status[m] = "none" /\ vm[m] = "none"
    /\ stage[m] = "start" => status[m] = "created" /\ vm[m] \in {"paused", "dead"}
    /\ stage[m] = "record" => status[m] = "running" /\ vm[m] \in {"up", "halted", "dead"}
    /\ stage[m] \in {"recordnet", "done"}
         => /\ status[m] \in {"running", "unknown", "exited", "failed"}
            /\ vm[m] \in {"up", "halted", "dead"}
    /\ stage[m] = "failed" => status[m] \in {"none", "created"}
    /\ stage[m] = "gone" => status[m] = "lost"

(* Only stored machines are listed and looked for. *)
TableFits ==
  /\ \A m \in inst : stage[m] \in {"recordnet", "done"}
  /\ \A d \in Destroyer : pc[d] \notin {"idle", "pick"}
       => goal[d] \in Machine /\ stage[goal[d]] \in {"recordnet", "done"}

(* healthChecklock keeps deletions and the health check apart. *)
LockFits ==
  /\ \A w \in Worker : pc[w] \in {"idle", "pick", "mark"} \cup DestroyStep
  /\ \A w \in Worker : pc[w] # "idle" => hlock = "scale"
  /\ pc[Checker] \in {"idle", "want", "get"} \cup DestroyStep
  /\ hlock = "health" <=> pc[Checker] \notin {"idle", "want"}
  /\ pc[Checker] = "get" => status[goal[Checker]] = "running"

(* A machine that is being destroyed no longer counts as a replica. *)
DestroyFits ==
  \A d \in Destroyer : pc[d] \in DestroyStep => status[goal[d]] \in {"unknown", "exited", "failed"}

(* A scale-up deletes nothing: its clones, once stored, are replicas of    *)
(* the function it scales.                                                 *)
CloneFits ==
  /\ clones # {} => hlock = "scale" /\ \A w \in Worker : pc[w] = "idle"
  /\ \A m \in clones :
       /\ stage[m] # "none"
       /\ service[m] = scale.svc
       /\ stage[m] \in {"recordnet", "done"} => m \in Running(scale.svc)

(* A stored machine has the name of its function for good, is listed for   *)
(* as long as its status is running, and is only ever chosen for deletion  *)
(* by a scaling of its own function.                                       *)
OwnerFits ==
  /\ \A m \in Machine :
       /\ stage[m] # "none" => service[m] \in Service
       /\ stage[m] \in {"recordnet", "done"} /\ status[m] = "running" => m \in inst
  /\ \A w \in Worker : pc[w] = "mark" => service[goal[w]] = scale.svc

(* A machine that leaves the table without having been stopped is known. *)
ForgottenIsReported ==
  \A d \in Destroyer : pc[d] \in {"unlink", "forget"} => goal[d] \in reported

Inductive ==
  /\ TypeOK
  /\ StageFits
  /\ TableFits
  /\ LockFits
  /\ DestroyFits
  /\ CloneFits
  /\ OwnerFits
  /\ ForgottenIsReported
  /\ CheckerSparesServing
  /\ ScaleFloor
  /\ NoServingLoss
=============================================================================
