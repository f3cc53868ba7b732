----------------------- MODULE MachineStoreRefinement -----------------------
(* The machine store implements ReplicaSet: every step of its goroutines   *)
(* is a step of the replica set or leaves it as it is.                     *)
EXTENDS MachineStoreProofs

(* The machines that serve, those that never will again, and the           *)
(* operation under way, as ImplementsReplicaSet reads them off the store.  *)
Listed  == {k \in inst : status[k] = "running"}
Serving == {<<m, service[m]>> : m \in Listed}
Spent   == {m \in Machine : status[m] \in {"unknown", "exited", "failed", "lost"}}

(* Serving is a function of the listed machines and of their names.        *)
LEMMA SameServing ==
  ASSUME Listed' = Listed, \A m \in Listed : service'[m] = service[m]
  PROVE  Serving' = Serving
BY DEF Serving

(* The step stays outside of what the replica set shows.                   *)
Hidden ==
  /\ Listed' = Listed
  /\ \A m \in Listed : service'[m] = service[m]
  /\ Spent' = Spent
  /\ Task' = Task

LEMMA HiddenStutters == Hidden => UNCHANGED Abstract!vars
BY SameServing DEF Hidden, Abstract!vars, Serving, Listed, Spent

(* A step that touches neither the table, nor a status, nor the names of   *)
(* stored machines, nor who holds healthChecklock, is not seen.            *)
LEMMA QuietStep ==
  ASSUME inst' = inst, status' = status, hlock' = hlock, scale' = scale,
         hlock = "health" => goal'[Checker] = goal[Checker],
         \A m \in inst : service'[m] = service[m]
  PROVE  Hidden
BY DEF Hidden, Listed, Spent, Task

(* Nobody who creates a machine is seen before StoreInstance: until then   *)
(* the machine is not in the table, and its status is on its way up.       *)
LEMMA CreateRefines ==
  ASSUME Inductive, NEW m \in Machine, Create(m), ~Restart
  PROVE  [Abstract!Next]_Abstract!vars
<1> USE DEF creation, host, endpoint, tables, control, Advance
<1>0. TypeOK /\ StageFits /\ TableFits /\ LockFits /\ OwnerFits  BY DEF Inductive
<1>1. CASE CloneMachine(m) \/ PrepareVolume(m) \/ AcquireLock(m) \/ StoreNetwork(m)
  <2> Hidden  BY <1>1, QuietStep DEF CloneMachine, PrepareVolume, AcquireLock, StoreNetwork
  <2> QED  BY HiddenStutters
<1>2. CASE CreateFails(m) \/ StartFails(m) \/ CreatePanics(m) \/ StartPanics(m)
  <2> Hidden
    BY <1>2, QuietStep DEF CreateFails, StartFails, CreatePanics, StartPanics, Panic
  <2> QED  BY HiddenStutters
<1>3. CASE CreateVM(m) \/ StartVM(m)
  <2>1. m \notin inst /\ status[m] \in {"none", "created"}
    BY <1>0, <1>3 DEF CreateVM, StartVM, TableFits, StageFits
  <2>2. /\ UNCHANGED <<service, inst, control>>
        /\ status'[m] \in {"created", "running"}
        /\ \A k \in Machine : k # m => status'[k] = status[k]
    BY <1>0, <1>3 DEF CreateVM, StartVM, TypeOK
  <2>3. Listed' = Listed  BY <1>0, <2>1, <2>2 DEF Listed, TypeOK
  <2>4. Spent' = Spent  BY <2>1, <2>2 DEF Spent
  <2>5. Task' = Task  BY <2>2 DEF Task
  <2> Hidden  BY <2>2, <2>3, <2>4, <2>5 DEF Hidden
  <2> QED  BY HiddenStutters
<1>4. CASE StoreInstance(m)
  <2>1. /\ inst' = inst \cup {m}
        /\ UNCHANGED <<service, status, control>>
        /\ status[m] = "running" /\ service[m] \in Service /\ m \notin inst
    BY <1>0, <1>4 DEF StoreInstance, StageFits, TableFits, OwnerFits
  <2> PICK s \in Service : service[m] = s  BY <2>1
  <2>2. Listed' = Listed \cup {m} /\ m \notin Listed  BY <2>1 DEF Listed
  <2>3. Serving' = Serving \cup {<<m, s>>}  BY <2>1, <2>2 DEF Serving
  <2>4. \A t \in Service : <<m, t>> \notin Serving  BY <2>2 DEF Serving
  <2>5. m \notin Spent /\ Spent' = Spent /\ Task' = Task  BY <2>1 DEF Spent, Task
  <2>6. Abstract!Launch(m, s)
    BY <2>3, <2>4, <2>5 DEF Abstract!Launch, Serving, Listed, Spent
  <2> QED  BY <2>6 DEF Abstract!Next
<1> QED  BY <1>1, <1>2, <1>3, <1>4 DEF Create

(* Tagging the members of a finite set does not change their number.       *)
LEMMA PairsCounted ==
  ASSUME NEW S, IsFiniteSet(S), NEW t
  PROVE  Cardinality({<<m, t>> : m \in S}) = Cardinality(S)
<1> DEFINE T == {<<m, t>> : m \in S}
           f == [m \in S |-> <<m, t>>]
<1>1. f \in Bijection(S, T)  BY DEF Bijection, Injection, Surjection, IsInjective
<1>2. ExistsBijection(S, T)  BY <1>1 DEF ExistsBijection
<1>3. Cardinality(T) = Cardinality(S)
  <2> HIDE DEF T
  <2> QED  BY <1>2, FS_Bijection
<1> QED  BY <1>3

(* The instance of the replica set counts as the store does.               *)
LEMMA SameCount == \A S : Abstract!Cardinality(S) = Cardinality(S)
BY DEF Abstract!Cardinality, Cardinality

(* The replicas of the replica set are the running machines of the store.  *)
LEMMA ReplicasCounted ==
  ASSUME TypeOK, NEW s
  PROVE  Cardinality(Abstract!Replicas(s)) = Cardinality(Running(s))
<1>1. Abstract!Replicas(s) = {<<m, s>> : m \in Running(s)}
  BY DEF Abstract!Replicas, Running
<1> QED  BY <1>1, Finite, PairsCounted

(* Changing the status of a listed machine to anything that is not running *)
(* takes exactly that machine out of service.                              *)
LEMMA RetireStep ==
  ASSUME TypeOK, NEW m \in Machine, NEW s, service[m] = s, m \in inst, status[m] = "running",
         inst' = inst, service' = service,
         NEW st \in {"unknown", "exited", "failed"}, status' = [status EXCEPT ![m] = st]
  PROVE  Abstract!Retire(m, s)
<1>1. Listed' = Listed \ {m} /\ m \in Listed  BY DEF Listed, TypeOK
<1>2. Serving' = Serving \ {<<m, s>>} /\ <<m, s>> \in Serving  BY <1>1 DEF Serving
<1>3. Spent' = Spent \cup {m}  BY DEF Spent, TypeOK
<1> QED  BY <1>2, <1>3 DEF Abstract!Retire, Serving, Listed, Spent

(* A worker marks a machine that runs only when the floor of its scaling   *)
(* leaves one to spare, whatever the other workers marked since it chose.  *)
LEMMA MarkRefines ==
  ASSUME Inductive, NEW w \in Worker, MarkUnknown(w)
  PROVE  [Abstract!Next]_Abstract!vars
<1> USE DEF creation, host, endpoint, tables, control, Goto
<1>0. /\ TypeOK /\ StageFits /\ TableFits /\ LockFits /\ CloneFits /\ OwnerFits /\ ScaleFloor
      /\ w \in Destroyer /\ pc[w] = "mark" /\ hlock = "scale" /\ clones = {}
  BY DEF Inductive, Destroyer, MarkUnknown, LockFits, CloneFits
<1>1. /\ goal[w] \in Machine /\ stage[goal[w]] \in {"recordnet", "done"}
      /\ service[goal[w]] = scale.svc /\ service[goal[w]] \in Service
  BY <1>0 DEF TableFits, OwnerFits, StageFits
<1> PICK m \in Machine : goal[w] = m  BY <1>1
<1> PICK s \in Service : scale.svc = s  BY <1>1
<1>2. /\ status' = [status EXCEPT ![m] = "unknown"] /\ inst' = inst \cup {m}
      /\ UNCHANGED <<service, hlock, scale, goal>>
  BY DEF MarkUnknown
<1>3. Task' = Task  BY <1>2 DEF Task
<1>4. CASE status[m] = "running"
  <2>1. m \in inst /\ inst' = inst  BY <1>0, <1>1, <1>2, <1>4 DEF OwnerFits
  <2>2. Abstract!Retire(m, s)  BY <1>0, <1>1, <1>2, <1>4, <2>1, RetireStep
  <2>3. Cardinality(Running(s)) > scale.target
    <3>1. Running(scale.svc) \cup Waited = Running(s)  BY <1>0 DEF Waited
    <3>2. Cardinality(Pending) \in Nat /\ Cardinality(Pending) # 0
      <4>1. w \in Pending  BY <1>0 DEF Pending
      <4> QED  BY <1>0, <4>1, Finite, FS_EmptySet
    <3>3. Cardinality(Running(s)) \in Nat /\ scale.target \in Nat
      BY <1>0, Finite DEF TypeOK
    <3>4. Cardinality(Running(scale.svc) \cup Waited) >= scale.target + Cardinality(Pending)
      BY <1>0 DEF ScaleFloor
    <3>5. Cardinality(Running(s)) >= scale.target + Cardinality(Pending)  BY <3>1, <3>4
    <3> QED  BY <3>2, <3>3, <3>5
  <2>4. Task.kind = "scale" /\ Task.svc = s /\ Task.floor = scale.target
    BY <1>0 DEF Task
  <2>5. Cardinality(Abstract!Replicas(s)) > Task.floor
    BY <1>0, <2>3, <2>4, ReplicasCounted
  <2>6. Abstract!Shrink(m, s)  BY <1>3, <2>2, <2>4, <2>5, SameCount DEF Abstract!Shrink
  <2> QED  BY <2>6 DEF Abstract!Next
<1>5. CASE status[m] # "running"
  <2>1. status[m] \in {"unknown", "exited", "failed"}
    BY <1>0, <1>1, <1>5 DEF StageFits
  <2>2. Listed' = Listed /\ Spent' = Spent
    BY <1>0, <1>2, <2>1 DEF Listed, Spent, TypeOK
  <2> Hidden  BY <1>2, <1>3, <2>2 DEF Hidden
  <2> QED  BY HiddenStutters
<1> QED  BY <1>4, <1>5

(* What a destroyer does to a machine no longer shows: it does not serve.  *)
(* Only the end of its work on an entry gives the task back.               *)
LEMMA DestroyRefines ==
  ASSUME Inductive, NEW d \in Destroyer, Destroy(d), ~Restart
  PROVE  [Abstract!Next]_Abstract!vars
<1> USE DEF creation, host, endpoint, tables, control, Goto
<1>0. TypeOK /\ LockFits /\ DestroyFits /\ TableFits  BY DEF Inductive
<1>1. pc[d] \in DestroyStep /\ goal[d] \in Machine /\ status[goal[d]] \in {"unknown", "exited", "failed"}
  BY <1>0, DestroyGoal DEF DestroyFits
<1>2. /\ UNCHANGED <<service, scale>>
      /\ \A k \in Machine : k # goal[d] => (k \in inst' <=> k \in inst) /\ status'[k] = status[k]
      /\ status'[goal[d]] \in {"unknown", "exited", "failed"}
  BY <1>0, <1>1 DEF Destroy, LookupInterface, LookupFails, DeleteServiceIP,
    DeleteServiceIPPanics, StopVM, StopRefused, StopHookFails, KeepEntry, Unlink,
    UnlinkFails, ForgetEntry, Return, TypeOK
<1>3. Listed' = Listed /\ Spent' = Spent
  <2>1. inst \subseteq Machine /\ inst' \subseteq Machine
    BY <1>0, <1>1 DEF Destroy, LookupInterface, LookupFails, DeleteServiceIP,
      DeleteServiceIPPanics, StopVM, StopRefused, StopHookFails, KeepEntry, Unlink,
      UnlinkFails, ForgetEntry, Return, TypeOK
  <2> QED  BY <1>1, <1>2, <2>1 DEF Listed, Spent
<1>4. CASE UNCHANGED <<hlock, goal>>
  <2> Task' = Task  BY <1>2, <1>4 DEF Task
  <2> Hidden  BY <1>2, <1>3 DEF Hidden
  <2> QED  BY HiddenStutters
<1>5. CASE Return(d) /\ d # Checker
  <2> Task' = Task  BY <1>2, <1>5 DEF Task, Return
  <2> Hidden  BY <1>2, <1>3 DEF Hidden
  <2> QED  BY HiddenStutters
<1>6. CASE Return(d) /\ d = Checker
  <2>1. hlock' = "free"  BY <1>6 DEF Return
  <2>2. Task' = Abstract!Idle  BY <2>1 DEF Task, Abstract!Idle
  <2>3. Serving' = Serving  BY <1>2, <1>3, SameServing
  <2>4. Abstract!End  BY <1>3, <2>2, <2>3 DEF Abstract!End, Serving, Listed, Spent
  <2> QED  BY <2>4 DEF Abstract!Next
<1>7. UNCHANGED <<hlock, goal>> \/ Return(d)
  BY DEF Destroy, LookupInterface, LookupFails, DeleteServiceIP,
    DeleteServiceIPPanics, StopVM, StopRefused, StopHookFails, KeepEntry, Unlink,
    UnlinkFails, ForgetEntry
<1> QED  BY <1>4, <1>5, <1>6, <1>7

(* The health check begins with the lock, condemns the machine it holds    *)
(* the lock for when its answer is bad, and ends with the lock.            *)
LEMMA CheckRefines ==
  ASSUME Inductive, Check
  PROVE  [Abstract!Next]_Abstract!vars
<1> USE DEF creation, host, endpoint, tables, control, Goto
<1>0. TypeOK /\ StageFits /\ TableFits /\ LockFits /\ OwnerFits /\ Checker \in Destroyer
  BY DEF Inductive, Destroyer
<1>1. /\ pc[Checker] \in {"want", "get"} /\ goal[Checker] \in Machine
      /\ stage[goal[Checker]] \in {"recordnet", "done"}
  BY <1>0 DEF Check, LockEntry, GetState, GetFails, GetHookFails, TableFits
<1> PICK m \in Machine : goal[Checker] = m  BY <1>1
<1>2. inst' = inst /\ service' = service /\ scale' = scale
  BY DEF Check, LockEntry, GetState, GetFails, GetHookFails, Return
<1>3. Return(Checker) => Task' = Abstract!Idle
  BY DEF Return, Task, Abstract!Idle
<1>4. ASSUME status' = status PROVE Serving' = Serving /\ Spent' = Spent
  BY <1>2, <1>4, SameServing DEF Listed, Spent
<1>5. CASE LockEntry
  <2>1. hlock = "free" /\ Task = Abstract!Idle /\ status' = status
    BY <1>5 DEF LockEntry, Task, Abstract!Idle
  <2>2. CASE status[m] = "running"
    <3>1. hlock' = "health" /\ goal' = goal  BY <1>5, <2>2 DEF LockEntry
    <3>2. Task' = [kind |-> "check", svc |-> None, floor |-> 0, machine |-> m]
      BY <3>1 DEF Task
    <3>3. Abstract!BeginCheck(m)
      BY <1>4, <2>1, <3>2 DEF Abstract!BeginCheck, Serving, Listed, Spent
    <3> QED  BY <3>3 DEF Abstract!Next
  <2>3. CASE status[m] # "running"
    <3>1. Task' = Task  BY <1>3, <1>5, <2>1, <2>3 DEF LockEntry
    <3> QED  BY <1>4, <2>1, <3>1 DEF Abstract!vars, Serving, Listed, Spent
  <2> QED  BY <2>2, <2>3
<1>6. CASE pc[Checker] = "get"
  <2>1. /\ hlock = "health" /\ status[m] = "running" /\ m \in inst /\ service[m] \in Service
    BY <1>0, <1>1, <1>6 DEF LockFits, OwnerFits
  <2> PICK s \in Service : service[m] = s  BY <2>1
  <2>2. Task.kind = "check" /\ Task.machine = m  BY <2>1 DEF Task
  <2>3. /\ \/ status' = status
           \/ \E st \in {"unknown", "exited", "failed"} : status' = [status EXCEPT ![m] = st]
        /\ \/ Return(Checker)
           \/ status' # status /\ UNCHANGED <<hlock, goal>>
    <3>1. PICK p \in {"running", "exited", "failed"} : p = Probe(goal[Checker])  BY DEF Probe
    <3>2. [status EXCEPT ![m] = "running"] = status
      BY <1>0, <2>1 DEF TypeOK
    <3>3. \A st \in {"unknown", "exited", "failed"} : [status EXCEPT ![m] = st] # status
      BY <1>0, <2>1 DEF TypeOK
    <3>4. CASE GetState
      <4>1. /\ status' = [status EXCEPT ![m] = p]
            /\ IF p = "running" THEN Return(Checker) ELSE UNCHANGED <<hlock, goal>>
        BY <3>1, <3>4 DEF GetState
      <4> QED  BY <3>1, <3>2, <3>3, <4>1
    <3>5. CASE GetFails  BY <3>5 DEF GetFails
    <3>6. CASE GetHookFails
      <4>1. Return(Checker) /\ status' \in {status, [status EXCEPT ![m] = p]}
        BY <3>1, <3>6 DEF GetHookFails
      <4> QED  BY <3>1, <3>2, <4>1
    <3> QED  BY <1>6, <3>4, <3>5, <3>6 DEF Check, LockEntry
  <2>4. Task' \in {Task, Abstract!Idle}  BY <1>2, <1>3, <2>3 DEF Task
  <2>5. CASE status' = status
    <3>1. Abstract!End
      BY <1>3, <1>4, <2>3, <2>5 DEF Abstract!End, Serving, Listed, Spent
    <3> QED  BY <3>1 DEF Abstract!Next
  <2>6. CASE status' # status
    <3>1. Abstract!Retire(m, s)  BY <1>0, <1>2, <2>1, <2>3, <2>6, RetireStep
    <3>2. Abstract!Condemn(m, s)  BY <2>2, <2>4, <3>1 DEF Abstract!Condemn
    <3> QED  BY <3>2 DEF Abstract!Next
  <2> QED  BY <2>5, <2>6
<1> QED  BY <1>5, <1>6 DEF Check, GetState, GetFails, GetHookFails

(* ScaleMachinesTo holds the lock, and with it the task, from its count of *)
(* the replicas to the end of its wait.                                    *)
LEMMA ScaleRefines ==
  ASSUME Inductive,
         \/ ScaleDone
         \/ \E s \in Service, n \in 0..MaxReplicas : ScaleMachinesTo(s, n)
  PROVE  [Abstract!Next]_Abstract!vars
<1> USE DEF creation, host, endpoint, tables, control
<1>0. TypeOK /\ TableFits  BY DEF Inductive
<1>1. ASSUME NEW s \in Service, NEW n \in 0..MaxReplicas, ScaleMachinesTo(s, n)
      PROVE  [Abstract!Next]_Abstract!vars
  <2>1. /\ UNCHANGED <<inst, status>>
        /\ hlock = "free" /\ hlock' = "scale" /\ scale' = [svc |-> s, target |-> n]
    BY <1>1 DEF ScaleMachinesTo
  <2>2. \A m \in inst : service'[m] = service[m]
    BY <1>0, <1>1 DEF ScaleMachinesTo, ScaleUp, ScaleDown, Unused, TableFits, TypeOK
  <2>3. Serving' = Serving /\ Spent' = Spent
    BY <2>1, <2>2, SameServing DEF Listed, Spent
  <2>4. /\ Task = Abstract!Idle
        /\ Task' = [kind |-> "scale", svc |-> s, floor |-> n, machine |-> None]
    BY <2>1 DEF Task, Abstract!Idle
  <2>5. n \in Nat  BY MaxReplicasNat
  <2>6. Task' \in [kind : {"scale"}, svc : Service, floor : Nat, machine : {None}]
    BY <2>4, <2>5
  <2>7. Abstract!BeginScale
    BY <2>3, <2>4, <2>6 DEF Abstract!BeginScale, Serving, Listed, Spent
  <2> QED  BY <2>7 DEF Abstract!Next
<1>2. CASE ScaleDone
  <2>1. Task' = Abstract!Idle  BY <1>2 DEF ScaleDone, Task, Abstract!Idle
  <2>2. Serving' = Serving /\ Spent' = Spent
    BY <1>2, SameServing DEF ScaleDone, Listed, Spent
  <2>3. Abstract!End  BY <2>1, <2>2 DEF Abstract!End, Serving, Listed, Spent
  <2> QED  BY <2>3 DEF Abstract!Next
<1> QED  BY <1>1, <1>2

(* A restart forgets every machine that was ever named.                    *)
LEMMA RestartRefines ==
  ASSUME Inductive, Restart
  PROVE  [Abstract!Next]_Abstract!vars
<1>0. TypeOK /\ StageFits /\ TableFits  BY DEF Inductive
<1>1. Serving' = {}  BY DEF Restart, Serving, Listed
<1>2. Spent' = {m \in Machine : stage[m] # "none"}  BY DEF Restart, Spent
<1>3. Spent \subseteq Spent'  BY <1>0, <1>2 DEF Spent, StageFits
<1>4. \A r \in Serving : r[1] \in Spent'
  BY <1>0, <1>2 DEF Serving, Listed, TableFits, TypeOK
<1>5. Task' = Abstract!Idle  BY DEF Restart, Task, Abstract!Idle
<1>6. Spent' \in SUBSET Machine  BY <1>2
<1>7. Abstract!Restart
  BY <1>1, <1>3, <1>4, <1>5, <1>6 DEF Abstract!Restart, Serving, Listed, Spent
<1> QED  BY <1>7 DEF Abstract!Next

(* Every step of the store is one of the replica set, or not seen there.   *)
LEMMA StepRefines == Inductive /\ [Next]_vars => [Abstract!Next]_Abstract!vars
<1> SUFFICES ASSUME Inductive, [Next]_vars PROVE [Abstract!Next]_Abstract!vars
  OBVIOUS
<1> USE DEF creation, host, endpoint, tables, control, Goto
<1>0. TypeOK /\ LockFits /\ TableFits  BY DEF Inductive
<1>1. ASSUME Hidden PROVE [Abstract!Next]_Abstract!vars  BY <1>1, HiddenStutters
<1>2. ASSUME NEW m \in Machine, NEW s \in Service, NewMachine(m, s) PROVE Hidden
  BY <1>0, <1>2, QuietStep DEF NewMachine, TableFits, TypeOK
<1>3. ASSUME NEW m \in Machine,
             PollerAnswered(m) \/ AddServiceIP(m) \/ GuestHalts(m) \/ ProcessDies(m)
      PROVE  Hidden
  BY <1>3, QuietStep DEF PollerAnswered, AddServiceIP, GuestHalts, ProcessDies
<1>4. ASSUME NEW w \in Worker, PickMachine(w) PROVE Hidden
  BY <1>0, <1>4, CheckerNotWorker, QuietStep DEF PickMachine, Return, TypeOK, Destroyer
<1>5. ASSUME NEW m \in Machine, VisitEntry(m) PROVE Hidden
  BY <1>0, <1>5, QuietStep DEF VisitEntry, LockFits
<1>6. ASSUME UNCHANGED vars PROVE Hidden  BY <1>6, QuietStep DEF vars
<1>7. CASE Restart  BY <1>7, RestartRefines
<1>8. ASSUME NEW d \in Destroyer, Destroy(d) PROVE [Abstract!Next]_Abstract!vars
  BY <1>7, <1>8, DestroyRefines
<1>9. ASSUME NEW m \in Machine, Create(m) PROVE [Abstract!Next]_Abstract!vars
  BY <1>7, <1>9, CreateRefines
<1>10. CASE \E w \in Worker : MarkUnknown(w)  BY <1>10, MarkRefines
<1>11. CASE Check  BY <1>11, CheckRefines
<1> QED
  BY <1>1, <1>2, <1>3, <1>4, <1>5, <1>6, <1>7, <1>8, <1>9, <1>10, <1>11, ScaleRefines
  DEF Next, Delete, Crash

(* pkg/store promises its callers a replica set: machines join the set of  *)
(* their function one by one and leave it for good, for a scale-down that  *)
(* stays at or above the replicas it asked for or for a health check of    *)
(* that machine, and never two such operations at once.                    *)
THEOREM StoreRefines == Spec => ImplementsReplicaSet
<1>1. Init => Abstract!Init
  BY DEF Init, Abstract!Init, Abstract!Idle, Task
<1>2. Inductive /\ [Next]_vars => [Abstract!Next]_Abstract!vars  BY StepRefines
<1> QED  BY <1>1, <1>2, InductiveHolds, PTL DEF Spec, ImplementsReplicaSet, Abstract!Spec
=============================================================================
