------------------------- MODULE MachineStoreProofs -------------------------
(* Theorems about MachineStore for every set of machines, functions and    *)
(* workers, every bound and every choice of faults.                        *)
EXTENDS MachineStore, FiniteSetTheorems, TLAPS

(* The variables keep their shapes whatever a goroutine, the environment   *)
(* or a restart does.                                                      *)
LEMMA TypeStep == TypeOK /\ TableFits /\ [Next]_vars => TypeOK'
<1> SUFFICES ASSUME TypeOK, TableFits, [Next]_vars PROVE TypeOK'
  OBVIOUS
<1>0. \A d \in Destroyer : pc[d] \notin {"idle", "pick"} => goal[d] \in Machine
  BY DEF TableFits
<1> USE DEF TypeOK, creation, host, endpoint, tables, control, Stage, VMState,
            Status, DestroyStep, Advance, Goto, Return, Report
<1>1. ASSUME NEW m \in Machine, NEW s \in Service, NewMachine(m, s) PROVE TypeOK'
  BY <1>1 DEF NewMachine
<1>2. ASSUME Restart, vm' \in [Machine -> VMState], links' \subseteq Machine PROVE TypeOK'
  BY <1>2 DEF Restart, NoScale
<1>3. ASSUME NEW m \in Machine, Panic(m), vm' \in [Machine -> VMState], links' \subseteq Machine
      PROVE TypeOK'
  <2>1. CASE Restart  BY <1>2, <1>3, <2>1
  <2>2. CASE ~Restart  BY <1>3, <2>2 DEF Panic
  <2> QED  BY <2>1, <2>2
<1>4. ASSUME NEW m \in Machine, Create(m) PROVE TypeOK'
  <2>1. CASE CloneMachine(m)   BY <2>1 DEF CloneMachine
  <2>2. CASE PrepareVolume(m)  BY <2>2 DEF PrepareVolume
  <2>3. CASE AcquireLock(m)    BY <2>3 DEF AcquireLock
  <2>4. CASE CreateVM(m)       BY <2>4 DEF CreateVM
  <2>5. CASE CreateFails(m)    BY <2>5 DEF CreateFails
  <2>6. CASE CreatePanics(m)   BY <1>3, <2>6 DEF CreatePanics
  <2>7. CASE StartVM(m)        BY <2>7 DEF StartVM
  <2>8. CASE StartFails(m)     BY <2>8 DEF StartFails, Started
  <2>9. CASE StartPanics(m)    BY <1>3, <2>9 DEF StartPanics, Started
  <2>10. CASE StoreInstance(m) BY <2>10 DEF StoreInstance
  <2>11. CASE StoreNetwork(m)  BY <2>11 DEF StoreNetwork
  <2> QED  BY <1>4, <2>1, <2>2, <2>3, <2>4, <2>5, <2>6, <2>7, <2>8, <2>9, <2>10, <2>11
              DEF Create
<1>5. ASSUME NEW m \in Machine, PollerAnswered(m) \/ AddServiceIP(m) PROVE TypeOK'
  BY <1>5 DEF PollerAnswered, AddServiceIP
<1>6. ASSUME NEW s \in Service, NEW n \in 0..MaxReplicas, ScaleMachinesTo(s, n) PROVE TypeOK'
  BY <1>6, MaxReplicasNat DEF ScaleMachinesTo, ScaleUp, ScaleDown, Unused
<1>7. CASE ScaleDone  BY <1>7 DEF ScaleDone, NoScale
<1>8. ASSUME NEW w \in Worker, Delete(w) PROVE TypeOK'
  <2> w \in Destroyer  BY DEF Destroyer
  <2>1. CASE PickMachine(w)  BY <2>1 DEF PickMachine, Running
  <2>2. CASE MarkUnknown(w)  BY <1>0, <2>2 DEF MarkUnknown
  <2> QED  BY <1>8, <2>1, <2>2 DEF Delete
<1>9. ASSUME NEW d \in Destroyer, Destroy(d) PROVE TypeOK'
  <2> pc[d] \in DestroyStep /\ goal[d] \in Machine
    BY <1>0, <1>9 DEF Destroy, LookupInterface, LookupFails, DeleteServiceIP,
      DeleteServiceIPPanics, StopVM, StopRefused, StopHookFails, KeepEntry, Unlink,
      UnlinkFails, ForgetEntry
  <2>1. CASE LookupInterface(d)  BY <2>1 DEF LookupInterface
  <2>2. CASE LookupFails(d)  BY <2>2 DEF LookupFails
  <2>3. CASE DeleteServiceIP(d)  BY <2>3 DEF DeleteServiceIP
  <2>4. CASE DeleteServiceIPPanics(d)  BY <1>2, <2>4 DEF DeleteServiceIPPanics
  <2>5. CASE StopVM(d)  BY <2>5 DEF StopVM
  <2>6. CASE StopRefused(d)  BY <2>6 DEF StopRefused
  <2>7. CASE StopHookFails(d)  BY <2>7 DEF StopHookFails
  <2>8. CASE KeepEntry(d)  BY <2>8 DEF KeepEntry
  <2>9. CASE Unlink(d)  BY <2>9 DEF Unlink
  <2>10. CASE UnlinkFails(d)  BY <2>10 DEF UnlinkFails
  <2>11. CASE ForgetEntry(d)  BY <2>11 DEF ForgetEntry
  <2> QED  BY <1>9, <2>1, <2>2, <2>3, <2>4, <2>5, <2>6, <2>7, <2>8, <2>9, <2>10, <2>11
              DEF Destroy
<1>10. ASSUME NEW m \in Machine, VisitEntry(m) PROVE TypeOK'
  BY <1>10 DEF VisitEntry
<1>11. CASE Check
  <2> Checker \in Destroyer  BY DEF Destroyer
  <2>1. CASE LockEntry  BY <2>1 DEF LockEntry
  <2>2. CASE GetState
    <3>1. \A m \in Machine : Probe(m) \in Status
      BY DEF Probe
    <3> QED
      BY <1>0, <2>2, <3>1 DEF GetState
  <2>3. CASE GetFails  BY <1>0, <2>3 DEF GetFails
  <2>4. CASE GetHookFails  BY <1>0, <2>4 DEF GetHookFails, Probe
  <2> QED  BY <1>11, <2>1, <2>2, <2>3, <2>4 DEF Check
<1>12. ASSUME NEW m \in Machine, GuestHalts(m) \/ ProcessDies(m) PROVE TypeOK'
  BY <1>12 DEF GuestHalts, ProcessDies
<1>13. CASE Crash  BY <1>2, <1>13 DEF Crash
<1>14. CASE UNCHANGED vars  BY <1>14 DEF vars
<1> QED
  BY <1>1, <1>4, <1>5, <1>6, <1>7, <1>8, <1>9, <1>10, <1>11, <1>12, <1>13, <1>14 DEF Next

(* A destroyer in destroyMachine has a stored machine in hand. *)
LEMMA DestroyGoal ==
  ASSUME TableFits, NEW d \in Destroyer, Destroy(d)
  PROVE  /\ pc[d] \in DestroyStep
         /\ goal[d] \in Machine
         /\ stage[goal[d]] \in {"recordnet", "done"}
<1>1. pc[d] \in DestroyStep
  BY DEF Destroy, LookupInterface, LookupFails, DeleteServiceIP, DeleteServiceIPPanics,
    StopVM, StopRefused, StopHookFails, KeepEntry, Unlink, UnlinkFails, ForgetEntry, DestroyStep
<1> QED  BY <1>1 DEF TableFits, DestroyStep

(* Creation sets the status and the process of a machine in the order of   *)
(* its stages; destroyers and the health check only touch stored machines. *)
LEMMA StageStep ==
  TypeOK /\ StageFits /\ TableFits /\ LockFits /\ [Next]_vars => StageFits'
<1> SUFFICES ASSUME TypeOK, StageFits, TableFits, LockFits, [Next]_vars PROVE StageFits'
  OBVIOUS
<1> USE DEF TypeOK, creation, host, endpoint, tables, control, Advance, Goto, Return
<1>1. ASSUME NEW m \in Machine, NEW s \in Service, NewMachine(m, s) PROVE StageFits'
  BY <1>1 DEF NewMachine, StageFits
<1>2. ASSUME Restart, \A m \in Machine : stage[m] = "none" => vm'[m] = vm[m] PROVE StageFits'
  BY <1>2 DEF Restart, StageFits
<1>3. ASSUME NEW m \in Machine, Create(m) PROVE StageFits'
  <2>1. CASE CloneMachine(m)   BY <2>1 DEF CloneMachine, StageFits
  <2>2. CASE PrepareVolume(m)  BY <2>2 DEF PrepareVolume, StageFits
  <2>3. CASE AcquireLock(m)    BY <2>3 DEF AcquireLock, StageFits
  <2>4. CASE CreateVM(m)       BY <2>4 DEF CreateVM, StageFits
  <2>5. CASE CreateFails(m)    BY <2>5 DEF CreateFails, StageFits
  <2>6. CASE CreatePanics(m)
    <3>1. \A k \in Machine : k # m => vm'[k] = vm[k]  BY <2>6 DEF CreatePanics
    <3>2. CASE Restart  BY <1>2, <2>6, <3>1, <3>2 DEF CreatePanics
    <3>3. CASE ~Restart  BY <2>6, <3>3 DEF CreatePanics, Panic, StageFits
    <3> QED  BY <3>2, <3>3
  <2>7. CASE StartVM(m)        BY <2>7 DEF StartVM, StageFits
  <2>8. CASE StartFails(m)     BY <2>8 DEF StartFails, Started, StageFits
  <2>9. CASE StartPanics(m)
    <3>1. \A k \in Machine : k # m => vm'[k] = vm[k]  BY <2>9 DEF StartPanics, Started
    <3>2. CASE Restart  BY <1>2, <2>9, <3>1, <3>2 DEF StartPanics
    <3>3. CASE ~Restart  BY <2>9, <3>3 DEF StartPanics, Started, Panic, StageFits
    <3> QED  BY <3>2, <3>3
  <2>10. CASE StoreInstance(m) BY <2>10 DEF StoreInstance, StageFits
  <2>11. CASE StoreNetwork(m)  BY <2>11 DEF StoreNetwork, StageFits
  <2> QED  BY <1>3, <2>1, <2>2, <2>3, <2>4, <2>5, <2>6, <2>7, <2>8, <2>9, <2>10, <2>11
              DEF Create
<1>4. ASSUME NEW m \in Machine, PollerAnswered(m) \/ AddServiceIP(m) PROVE StageFits'
  BY <1>4 DEF PollerAnswered, AddServiceIP, StageFits
<1>5. ASSUME NEW s \in Service, NEW n \in 0..MaxReplicas, ScaleMachinesTo(s, n) PROVE StageFits'
  BY <1>5 DEF ScaleMachinesTo, ScaleUp, ScaleDown, Unused, StageFits
<1>6. CASE ScaleDone  BY <1>6 DEF ScaleDone, StageFits
<1>7. ASSUME NEW w \in Worker, Delete(w) PROVE StageFits'
  <2>1. CASE PickMachine(w)  BY <2>1 DEF PickMachine, StageFits
  <2>2. CASE MarkUnknown(w)
    <3>1. w \in Destroyer /\ goal[w] \in Machine /\ stage[goal[w]] \in {"recordnet", "done"}
      BY <2>2 DEF MarkUnknown, TableFits, Destroyer
    <3> QED  BY <2>2, <3>1 DEF MarkUnknown, StageFits
  <2> QED  BY <1>7, <2>1, <2>2 DEF Delete
<1>8. ASSUME NEW d \in Destroyer, Destroy(d) PROVE StageFits'
  <2> goal[d] \in Machine /\ stage[goal[d]] \in {"recordnet", "done"}  BY <1>8, DestroyGoal
  <2>1. CASE LookupInterface(d)  BY <2>1 DEF LookupInterface, StageFits
  <2>2. CASE LookupFails(d)  BY <2>2 DEF LookupFails, StageFits
  <2>3. CASE DeleteServiceIP(d)  BY <2>3 DEF DeleteServiceIP, StageFits
  <2>4. CASE DeleteServiceIPPanics(d)  BY <1>2, <2>4 DEF DeleteServiceIPPanics
  <2>5. CASE StopVM(d)  BY <2>5 DEF StopVM, StageFits
  <2>6. CASE StopRefused(d)  BY <2>6 DEF StopRefused, StageFits
  <2>7. CASE StopHookFails(d)  BY <2>7 DEF StopHookFails, StageFits
  <2>8. CASE KeepEntry(d)  BY <2>8 DEF KeepEntry, StageFits
  <2>9. CASE Unlink(d)  BY <2>9 DEF Unlink, StageFits
  <2>10. CASE UnlinkFails(d)  BY <2>10 DEF UnlinkFails, StageFits
  <2>11. CASE ForgetEntry(d)  BY <2>11 DEF ForgetEntry, StageFits
  <2> QED  BY <1>8, <2>1, <2>2, <2>3, <2>4, <2>5, <2>6, <2>7, <2>8, <2>9, <2>10, <2>11
              DEF Destroy
<1>9. ASSUME NEW m \in Machine, VisitEntry(m) PROVE StageFits'
  BY <1>9 DEF VisitEntry, StageFits
<1>10. CASE Check
  <2>1. CASE LockEntry  BY <2>1 DEF LockEntry, StageFits
  <2>2. CASE ~LockEntry
    <3>1. /\ goal[Checker] \in Machine
          /\ stage[goal[Checker]] \in {"recordnet", "done"}
      BY <1>10, <2>2 DEF Check, GetState, GetFails, GetHookFails, TableFits, Destroyer
    <3>2. CASE GetState  BY <3>1, <3>2 DEF GetState, Probe, StageFits
    <3>3. CASE GetFails  BY <3>1, <3>3 DEF GetFails, StageFits
    <3>4. CASE GetHookFails  BY <3>1, <3>4 DEF GetHookFails, Probe, StageFits
    <3> QED  BY <1>10, <2>2, <3>2, <3>3, <3>4 DEF Check
  <2> QED  BY <2>1, <2>2
<1>11. ASSUME NEW m \in Machine, GuestHalts(m) \/ ProcessDies(m) PROVE StageFits'
  BY <1>11 DEF GuestHalts, ProcessDies, Alive, StageFits
<1>12. CASE Crash  BY <1>2, <1>12 DEF Crash
<1>13. CASE UNCHANGED vars  BY <1>13 DEF vars, StageFits
<1> QED
  BY <1>1, <1>3, <1>4, <1>5, <1>6, <1>7, <1>8, <1>9, <1>10, <1>11, <1>12, <1>13 DEF Next

(* A machine, once stored, keeps its stage until a restart, and everything *)
(* that names a machine of the table learned it from the table.            *)
LEMMA TableStep == TypeOK /\ TableFits /\ LockFits /\ [Next]_vars => TableFits'
<1> SUFFICES ASSUME TypeOK, TableFits, LockFits, [Next]_vars PROVE TableFits'
  OBVIOUS
<1> USE DEF TypeOK, creation, host, endpoint, tables, control, Advance, Goto, Return
<1>1. ASSUME NEW m \in Machine, NEW s \in Service, NewMachine(m, s) PROVE TableFits'
  BY <1>1 DEF NewMachine, TableFits
<1>2. CASE Restart  BY <1>2 DEF Restart, TableFits
<1>3. ASSUME NEW m \in Machine, Create(m) PROVE TableFits'
  <2>1. CASE Restart  BY <1>2, <2>1
  <2>2. CASE CloneMachine(m) \/ PrepareVolume(m) \/ AcquireLock(m)
    BY <2>2 DEF CloneMachine, PrepareVolume, AcquireLock, TableFits
  <2>3. CASE CreateVM(m) \/ CreateFails(m)
    BY <2>3 DEF CreateVM, CreateFails, TableFits
  <2>4. CASE ~Restart /\ (CreatePanics(m) \/ StartPanics(m))
    BY <2>4 DEF CreatePanics, StartPanics, Panic, TableFits
  <2>5. CASE StartVM(m) \/ StartFails(m)
    BY <2>5 DEF StartVM, StartFails, TableFits
  <2>6. CASE StoreInstance(m) \/ StoreNetwork(m)
    BY <2>6 DEF StoreInstance, StoreNetwork, TableFits
  <2> QED  BY <1>3, <2>1, <2>2, <2>3, <2>4, <2>5, <2>6 DEF Create
<1>4. ASSUME NEW m \in Machine, PollerAnswered(m) \/ AddServiceIP(m) PROVE TableFits'
  BY <1>4 DEF PollerAnswered, AddServiceIP, TableFits
<1>5. ASSUME NEW s \in Service, NEW n \in 0..MaxReplicas, ScaleMachinesTo(s, n) PROVE TableFits'
  BY <1>5 DEF ScaleMachinesTo, ScaleUp, ScaleDown, Unused, TableFits
<1>6. CASE ScaleDone  BY <1>6 DEF ScaleDone, TableFits
<1>7. ASSUME NEW w \in Worker, Delete(w) PROVE TableFits'
  <2> w \in Destroyer  BY DEF Destroyer
  <2>1. CASE PickMachine(w)  BY <2>1 DEF PickMachine, Running, TableFits
  <2>2. CASE MarkUnknown(w)  BY <2>2 DEF MarkUnknown, TableFits
  <2> QED  BY <1>7, <2>1, <2>2 DEF Delete
<1>8. ASSUME NEW d \in Destroyer, Destroy(d) PROVE TableFits'
  <2> pc[d] \in DestroyStep /\ goal[d] \in Machine /\ stage[goal[d]] \in {"recordnet", "done"}
    BY <1>8, DestroyGoal
  <2>1. CASE LookupInterface(d) \/ LookupFails(d)
    BY <2>1 DEF LookupInterface, LookupFails, TableFits
  <2>2. CASE DeleteServiceIP(d)  BY <2>2 DEF DeleteServiceIP, TableFits
  <2>3. CASE DeleteServiceIPPanics(d)  BY <1>2, <2>3 DEF DeleteServiceIPPanics
  <2>4. CASE StopVM(d) \/ StopRefused(d) \/ StopHookFails(d)
    BY <2>4 DEF StopVM, StopRefused, StopHookFails, TableFits
  <2>5. CASE KeepEntry(d)  BY <2>5 DEF KeepEntry, TableFits
  <2>6. CASE Unlink(d) \/ UnlinkFails(d) \/ ForgetEntry(d)
    BY <2>6 DEF Unlink, UnlinkFails, ForgetEntry, TableFits
  <2> QED  BY <1>8, <2>1, <2>2, <2>3, <2>4, <2>5, <2>6 DEF Destroy
<1>9. ASSUME NEW m \in Machine, VisitEntry(m) PROVE TableFits'
  BY <1>9 DEF VisitEntry, TableFits
<1>10. CASE Check
  <2> Checker \in Destroyer  BY DEF Destroyer
  <2> QED  BY <1>10 DEF Check, LockEntry, GetState, GetFails, GetHookFails, TableFits
<1>11. ASSUME NEW m \in Machine, GuestHalts(m) \/ ProcessDies(m) PROVE TableFits'
  BY <1>11 DEF GuestHalts, ProcessDies, TableFits
<1>12. CASE Crash  BY <1>2, <1>12 DEF Crash
<1>13. CASE UNCHANGED vars  BY <1>13 DEF vars, TableFits
<1> QED
  BY <1>1, <1>3, <1>4, <1>5, <1>6, <1>7, <1>8, <1>9, <1>10, <1>11, <1>12, <1>13 DEF Next

(* healthChecklock: a worker runs only under the ScaleMachinesTo that      *)
(* spawned it, and the health check holds the lock from the moment it has  *)
(* seen a running machine until it is through with it.                     *)
LEMMA LockStep == TypeOK /\ StageFits /\ TableFits /\ LockFits /\ [Next]_vars => LockFits'
<1> SUFFICES ASSUME TypeOK, StageFits, TableFits, LockFits, [Next]_vars PROVE LockFits'
  OBVIOUS
<1> USE CheckerNotWorker
    DEF TypeOK, creation, host, endpoint, tables, control, Advance, Goto, Return, DestroyStep
<1>0. Checker \in Destroyer /\ Worker \subseteq Destroyer  BY DEF Destroyer
<1>a. pc[Checker] = "get" => goal[Checker] \in Machine /\ status[goal[Checker]] = "running"
                              /\ stage[goal[Checker]] \in {"recordnet", "done"}
  BY <1>0 DEF TableFits, LockFits
<1>1. ASSUME NEW m \in Machine, NEW s \in Service, NewMachine(m, s) PROVE LockFits'
  BY <1>1 DEF NewMachine, LockFits
<1>2. CASE Restart  BY <1>0, <1>2 DEF Restart, LockFits
<1>3. ASSUME NEW m \in Machine, Create(m) PROVE LockFits'
  <2>1. CASE Restart  BY <1>2, <2>1
  <2>2. CASE CloneMachine(m) \/ PrepareVolume(m) \/ AcquireLock(m)
    BY <2>2 DEF CloneMachine, PrepareVolume, AcquireLock, LockFits
  <2>3. CASE CreateVM(m) \/ CreateFails(m)
    BY <1>a, <2>3 DEF CreateVM, CreateFails, LockFits
  <2>4. CASE ~Restart /\ (CreatePanics(m) \/ StartPanics(m))
    BY <2>4 DEF CreatePanics, StartPanics, Panic, LockFits
  <2>5. CASE StartVM(m) \/ StartFails(m)
    BY <1>a, <2>5 DEF StartVM, StartFails, LockFits
  <2>6. CASE StoreInstance(m) \/ StoreNetwork(m)
    BY <2>6 DEF StoreInstance, StoreNetwork, LockFits
  <2> QED  BY <1>3, <2>1, <2>2, <2>3, <2>4, <2>5, <2>6 DEF Create
<1>4. ASSUME NEW m \in Machine, PollerAnswered(m) \/ AddServiceIP(m) PROVE LockFits'
  BY <1>4 DEF PollerAnswered, AddServiceIP, LockFits
<1>5. ASSUME NEW s \in Service, NEW n \in 0..MaxReplicas, ScaleMachinesTo(s, n) PROVE LockFits'
  BY <1>0, <1>5 DEF ScaleMachinesTo, ScaleUp, ScaleDown, LockFits
<1>6. CASE ScaleDone  BY <1>6 DEF ScaleDone, LockFits
<1>7. ASSUME NEW w \in Worker, Delete(w) PROVE LockFits'
  BY <1>0, <1>7 DEF Delete, PickMachine, MarkUnknown, LockFits
<1>8. ASSUME NEW d \in Destroyer, Destroy(d) PROVE LockFits'
  <2> pc[d] \in DestroyStep  BY <1>8, DestroyGoal
  <2> d \in Worker \/ d = Checker  BY DEF Destroyer
  <2>1. CASE LookupInterface(d) \/ LookupFails(d)
    BY <1>0, <2>1 DEF LookupInterface, LookupFails, LockFits
  <2>2. CASE DeleteServiceIP(d)  BY <1>0, <2>2 DEF DeleteServiceIP, LockFits
  <2>3. CASE DeleteServiceIPPanics(d)  BY <1>2, <2>3 DEF DeleteServiceIPPanics
  <2>4. CASE StopVM(d) \/ StopRefused(d) \/ StopHookFails(d)
    BY <1>0, <2>4 DEF StopVM, StopRefused, StopHookFails, LockFits
  <2>5. CASE KeepEntry(d)  BY <1>0, <2>5 DEF KeepEntry, LockFits
  <2>6. CASE Unlink(d) \/ UnlinkFails(d) \/ ForgetEntry(d)
    BY <1>0, <2>6 DEF Unlink, UnlinkFails, ForgetEntry, LockFits
  <2> QED  BY <1>8, <2>1, <2>2, <2>3, <2>4, <2>5, <2>6 DEF Destroy
<1>9. ASSUME NEW m \in Machine, VisitEntry(m) PROVE LockFits'
  BY <1>0, <1>9 DEF VisitEntry, LockFits
<1>10. CASE Check
  BY <1>0, <1>10 DEF Check, LockEntry, GetState, GetFails, GetHookFails, LockFits
<1>11. ASSUME NEW m \in Machine, GuestHalts(m) \/ ProcessDies(m) PROVE LockFits'
  BY <1>11 DEF GuestHalts, ProcessDies, LockFits
<1>12. CASE Crash  BY <1>2, <1>12 DEF Crash
<1>13. CASE UNCHANGED vars  BY <1>13 DEF vars, LockFits
<1> QED
  BY <1>1, <1>3, <1>4, <1>5, <1>6, <1>7, <1>8, <1>9, <1>10, <1>11, <1>12, <1>13 DEF Next

(* destroyMachine reaches its clean-up of the maps only after Stop returned *)
(* an error, which it logs.                                                *)
LEMMA ForgottenStep ==
  TypeOK /\ TableFits /\ LockFits /\ ForgottenIsReported /\ [Next]_vars => ForgottenIsReported'
<1> SUFFICES ASSUME TypeOK, TableFits, LockFits, ForgottenIsReported, [Next]_vars
             PROVE  ForgottenIsReported'
  OBVIOUS
<1> USE DEF TypeOK, creation, host, endpoint, tables, control, Goto, Return, Report,
            ForgottenIsReported
<1>1. CASE Restart  BY <1>1 DEF Restart
<1>2. ASSUME NEW m \in Machine, Create(m), ~Restart PROVE ForgottenIsReported'
  BY <1>2 DEF Create, CloneMachine, PrepareVolume, AcquireLock, CreateVM, CreateFails,
    CreatePanics, StartVM, StartFails, StartPanics, Panic, StoreInstance, StoreNetwork
<1>3. ASSUME NEW m \in Machine, PollerAnswered(m) \/ AddServiceIP(m) PROVE ForgottenIsReported'
  BY <1>3 DEF PollerAnswered, AddServiceIP
<1>4. ASSUME NEW s \in Service, NEW n \in 0..MaxReplicas, ScaleMachinesTo(s, n)
      PROVE ForgottenIsReported'
  BY <1>4 DEF ScaleMachinesTo, ScaleUp, ScaleDown
<1>5. ASSUME NEW w \in Worker, Delete(w) PROVE ForgottenIsReported'
  BY <1>5 DEF Delete, PickMachine, MarkUnknown
<1>6. ASSUME NEW d \in Destroyer, Destroy(d), ~Restart PROVE ForgottenIsReported'
  <2> goal[d] \in Machine  BY <1>6, DestroyGoal
  <2>1. CASE LookupInterface(d) \/ LookupFails(d) \/ DeleteServiceIP(d)
    BY <2>1 DEF LookupInterface, LookupFails, DeleteServiceIP
  <2>2. CASE StopVM(d) \/ StopRefused(d) \/ StopHookFails(d)
    BY <2>2 DEF StopVM, StopRefused, StopHookFails
  <2>3. CASE KeepEntry(d) \/ Unlink(d) \/ UnlinkFails(d) \/ ForgetEntry(d)
    BY <2>3 DEF KeepEntry, Unlink, UnlinkFails, ForgetEntry
  <2> QED  BY <1>6, <2>1, <2>2, <2>3 DEF Destroy, DeleteServiceIPPanics
<1>7. ASSUME NEW m \in Machine, VisitEntry(m) PROVE ForgottenIsReported'
  BY <1>7 DEF VisitEntry
<1>8. CASE Check
  BY <1>8 DEF Check, LockEntry, GetState, GetFails, GetHookFails
<1>9. CASE ScaleDone \/ \E m \in Machine : GuestHalts(m) \/ ProcessDies(m)
  BY <1>9 DEF ScaleDone, GuestHalts, ProcessDies
<1>10. ASSUME NEW m \in Machine, NEW s \in Service, NewMachine(m, s) PROVE ForgottenIsReported'
  BY <1>10 DEF NewMachine
<1>11. CASE UNCHANGED vars  BY <1>11 DEF vars
<1>12. CASE Crash  BY <1>1, <1>12 DEF Crash
<1> QED
  BY <1>1, <1>2, <1>3, <1>4, <1>5, <1>6, <1>7, <1>8, <1>9, <1>10, <1>11, <1>12 DEF Next

(* A guest that has ended never runs again, and the health check decides   *)
(* on what it has just seen of the machine it holds the lock for.          *)
LEMMA SparesStep ==
  TypeOK /\ StageFits /\ TableFits /\ LockFits /\ CheckerSparesServing /\ [Next]_vars
    => CheckerSparesServing'
<1> SUFFICES ASSUME TypeOK, StageFits, TableFits, LockFits, CheckerSparesServing, [Next]_vars
             PROVE  CheckerSparesServing'
  OBVIOUS
<1> USE DEF TypeOK, creation, host, endpoint, tables, control, Goto, Return, DestroyStep,
            CheckerSparesServing
<1>0. /\ Checker \in Destroyer
      /\ pc[Checker] \notin {"idle", "pick"}
           => /\ goal[Checker] \in Machine
              /\ stage[goal[Checker]] \in {"recordnet", "done"}
              /\ vm[goal[Checker]] \in {"up", "halted", "dead"}
  BY DEF TableFits, StageFits, Destroyer
<1>1. CASE Restart  BY <1>0, <1>1 DEF Restart
<1>2. ASSUME NEW m \in Machine, Create(m), ~Restart PROVE CheckerSparesServing'
  BY <1>0, <1>2 DEF Create, CloneMachine, PrepareVolume, AcquireLock, CreateVM, CreateFails,
    CreatePanics, StartVM, StartFails, StartPanics, Started, Panic, StoreInstance, StoreNetwork
<1>3. ASSUME NEW m \in Machine, PollerAnswered(m) \/ AddServiceIP(m) PROVE CheckerSparesServing'
  BY <1>3 DEF PollerAnswered, AddServiceIP
<1>4. ASSUME NEW s \in Service, NEW n \in 0..MaxReplicas, ScaleMachinesTo(s, n)
      PROVE CheckerSparesServing'
  BY <1>0, <1>4, CheckerNotWorker DEF ScaleMachinesTo, ScaleUp, ScaleDown
<1>5. ASSUME NEW w \in Worker, Delete(w) PROVE CheckerSparesServing'
  BY <1>0, <1>5, CheckerNotWorker DEF Delete, PickMachine, MarkUnknown
<1>6. ASSUME NEW d \in Destroyer, Destroy(d), ~Restart PROVE CheckerSparesServing'
  <2> pc[d] \in DestroyStep /\ goal[d] \in Machine  BY <1>6, DestroyGoal
  <2>1. CASE LookupInterface(d) \/ LookupFails(d) \/ DeleteServiceIP(d)
    BY <1>0, <2>1 DEF LookupInterface, LookupFails, DeleteServiceIP
  <2>2. CASE StopVM(d) \/ StopRefused(d) \/ StopHookFails(d)
    BY <1>0, <2>2 DEF StopVM, StopRefused, StopHookFails
  <2>3. CASE KeepEntry(d) \/ Unlink(d) \/ UnlinkFails(d) \/ ForgetEntry(d)
    BY <1>0, <2>3 DEF KeepEntry, Unlink, UnlinkFails, ForgetEntry
  <2> QED  BY <1>6, <2>1, <2>2, <2>3 DEF Destroy, DeleteServiceIPPanics
<1>7. ASSUME NEW m \in Machine, VisitEntry(m) PROVE CheckerSparesServing'
  BY <1>0, <1>7 DEF VisitEntry
<1>8. CASE Check
  BY <1>0, <1>8 DEF Check, LockEntry, GetState, GetFails, GetHookFails, Probe
<1>9. CASE ScaleDone \/ \E m \in Machine : GuestHalts(m) \/ ProcessDies(m)
  BY <1>0, <1>9 DEF ScaleDone, GuestHalts, ProcessDies
<1>10. ASSUME NEW m \in Machine, NEW s \in Service, NewMachine(m, s) PROVE CheckerSparesServing'
  BY <1>10 DEF NewMachine
<1>11. CASE UNCHANGED vars  BY <1>11 DEF vars
<1>12. CASE Crash  BY <1>1, <1>12 DEF Crash
<1> QED
  BY <1>1, <1>2, <1>3, <1>4, <1>5, <1>6, <1>7, <1>8, <1>9, <1>10, <1>11, <1>12 DEF Next

(* Wherever a live guest leaves the hands of a goroutine it is stored, or  *)
(* taken over by a destroyer, or reported.                                 *)
LEMMA LossStep == Inductive /\ [Next]_vars => NoServingLoss'
<1> SUFFICES ASSUME TypeOK, StageFits, TableFits, LockFits,
                    ForgottenIsReported, CheckerSparesServing, NoServingLoss,
                    [Next]_vars, NEW m \in Machine, vm'[m] \in {"paused", "up"}
             PROVE  Accounted(m)'
  BY DEF Inductive, NoServingLoss
<1> USE DEF TypeOK, creation, host, endpoint, tables, control, Goto, Return, Advance, Report,
            Accounted
<1>0. vm[m] \in {"paused", "up"} => Accounted(m)  BY DEF NoServingLoss
<1>1. CASE Restart /\ (stage[m] = "none" => vm'[m] = vm[m])
  BY <1>1 DEF Restart, StageFits
<1>2. ASSUME NEW k \in Machine, Create(k) PROVE Accounted(m)'
  <2>1. CASE CloneMachine(k) \/ PrepareVolume(k) \/ AcquireLock(k)
    BY <1>0, <2>1 DEF CloneMachine, PrepareVolume, AcquireLock, StageFits
  <2>2. CASE CreateVM(k) \/ CreateFails(k)
    BY <1>0, <2>2 DEF CreateVM, CreateFails, StageFits
  <2>3. CASE CreatePanics(k)
    <3>1. CASE Restart  BY <1>1, <2>3, <3>1 DEF CreatePanics
    <3>2. CASE ~Restart  BY <1>0, <2>3, <3>2 DEF CreatePanics, Panic, StageFits
    <3> QED  BY <3>1, <3>2
  <2>4. CASE StartVM(k) \/ StartFails(k)
    BY <1>0, <2>4 DEF StartVM, StartFails, Started, StageFits
  <2>5. CASE StartPanics(k)
    <3>1. CASE Restart  BY <1>1, <2>5, <3>1 DEF StartPanics, Started
    <3>2. CASE ~Restart  BY <1>0, <2>5, <3>2 DEF StartPanics, Started, Panic, StageFits
    <3> QED  BY <3>1, <3>2
  <2>6. CASE StoreInstance(k) \/ StoreNetwork(k)
    BY <1>0, <2>6 DEF StoreInstance, StoreNetwork, StageFits
  <2> QED  BY <1>2, <2>1, <2>2, <2>3, <2>4, <2>5, <2>6 DEF Create
<1>3. ASSUME NEW k \in Machine, PollerAnswered(k) \/ AddServiceIP(k) PROVE Accounted(m)'
  BY <1>0, <1>3 DEF PollerAnswered, AddServiceIP
<1>4. ASSUME NEW s \in Service, NEW n \in 0..MaxReplicas, ScaleMachinesTo(s, n) PROVE Accounted(m)'
  BY <1>0, <1>4 DEF ScaleMachinesTo, ScaleUp, ScaleDown, Unused, StageFits, LockFits
<1>5. ASSUME NEW w \in Worker, Delete(w) PROVE Accounted(m)'
  <2> w \in Destroyer  BY DEF Destroyer
  <2> QED  BY <1>0, <1>5 DEF Delete, PickMachine, MarkUnknown
<1>6. ASSUME NEW d \in Destroyer, Destroy(d) PROVE Accounted(m)'
  <2> pc[d] \in DestroyStep /\ goal[d] \in Machine  BY <1>6, DestroyGoal
  <2>1. CASE LookupInterface(d) \/ LookupFails(d)
    BY <1>0, <2>1 DEF LookupInterface, LookupFails, CheckerSparesServing
  <2>2. CASE DeleteServiceIP(d)  BY <1>0, <2>2 DEF DeleteServiceIP
  <2>3. CASE DeleteServiceIPPanics(d)  BY <1>1, <2>3 DEF DeleteServiceIPPanics
  <2>4. CASE StopVM(d) \/ StopRefused(d) \/ StopHookFails(d)
    BY <1>0, <2>4 DEF StopVM, StopRefused, StopHookFails
  <2>5. CASE KeepEntry(d)  BY <1>0, <2>5 DEF KeepEntry
  <2>6. CASE Unlink(d) \/ UnlinkFails(d) \/ ForgetEntry(d)
    BY <1>0, <2>6 DEF Unlink, UnlinkFails, ForgetEntry, ForgottenIsReported
  <2> QED  BY <1>6, <2>1, <2>2, <2>3, <2>4, <2>5, <2>6 DEF Destroy
<1>7. ASSUME NEW k \in Machine, VisitEntry(k) PROVE Accounted(m)'
  BY <1>0, <1>7 DEF VisitEntry
<1>8. CASE Check
  <2> Checker \in Destroyer  BY DEF Destroyer
  <2>1. CASE LockEntry  BY <1>0, <2>1 DEF LockEntry
  <2>2. CASE GetState
    <3>1. goal[Checker] \in Machine /\ vm[goal[Checker]] \in {"up", "halted", "dead"}
      BY <2>2 DEF GetState, TableFits, StageFits
    <3> QED  BY <1>0, <2>2, <3>1 DEF GetState, Probe
  <2>3. CASE GetFails \/ GetHookFails
    <3>1. goal[Checker] \in Machine  BY <2>3 DEF GetFails, GetHookFails, TableFits
    <3> QED  BY <1>0, <2>3, <3>1 DEF GetFails, GetHookFails
  <2> QED  BY <1>8, <2>1, <2>2, <2>3 DEF Check
<1>9. CASE ScaleDone \/ \E k \in Machine : GuestHalts(k) \/ ProcessDies(k)
  BY <1>0, <1>9 DEF ScaleDone, GuestHalts, ProcessDies, Alive
<1>10. ASSUME NEW k \in Machine, NEW s \in Service, NewMachine(k, s) PROVE Accounted(m)'
  BY <1>0, <1>10 DEF NewMachine, StageFits
<1>11. CASE UNCHANGED vars  BY <1>0, <1>11 DEF vars
<1>12. CASE Crash  BY <1>1, <1>12 DEF Crash
<1> QED
  BY <1>2, <1>3, <1>4, <1>5, <1>6, <1>7, <1>8, <1>9, <1>10, <1>11, <1>12 DEF Next

(* What a destroyer works on was taken out of service before.              *)
LEMMA DestroyStepFits ==
  TypeOK /\ StageFits /\ TableFits /\ LockFits /\ DestroyFits /\ [Next]_vars => DestroyFits'
<1> SUFFICES ASSUME TypeOK, StageFits, TableFits, LockFits, DestroyFits, [Next]_vars
             PROVE  DestroyFits'
  OBVIOUS
<1> USE DEF TypeOK, creation, host, endpoint, tables, control, Goto, Return, DestroyStep
<1>0. /\ Checker \in Destroyer /\ Worker \subseteq Destroyer
      /\ \A d \in Destroyer : pc[d] \notin {"idle", "pick"}
           => goal[d] \in Machine /\ stage[goal[d]] \in {"recordnet", "done"}
  BY DEF TableFits, Destroyer
<1>1. CASE Restart  BY <1>1 DEF Restart, DestroyFits
<1>2. ASSUME NEW m \in Machine, Create(m), ~Restart PROVE DestroyFits'
  BY <1>0, <1>2 DEF Create, CloneMachine, PrepareVolume, AcquireLock, CreateVM, CreateFails,
    CreatePanics, StartVM, StartFails, StartPanics, Panic, StoreInstance, StoreNetwork, DestroyFits
<1>3. ASSUME NEW m \in Machine, PollerAnswered(m) \/ AddServiceIP(m) PROVE DestroyFits'
  BY <1>3 DEF PollerAnswered, AddServiceIP, DestroyFits
<1>4. ASSUME NEW s \in Service, NEW n \in 0..MaxReplicas, ScaleMachinesTo(s, n) PROVE DestroyFits'
  BY <1>4 DEF ScaleMachinesTo, ScaleUp, ScaleDown, DestroyFits
<1>5. ASSUME NEW w \in Worker, Delete(w) PROVE DestroyFits'
  BY <1>0, <1>5 DEF Delete, PickMachine, MarkUnknown, DestroyFits
<1>6. ASSUME NEW d \in Destroyer, Destroy(d), ~Restart PROVE DestroyFits'
  <2> pc[d] \in DestroyStep /\ goal[d] \in Machine  BY <1>6, DestroyGoal
  <2>1. CASE LookupInterface(d) \/ LookupFails(d) \/ DeleteServiceIP(d)
    BY <2>1 DEF LookupInterface, LookupFails, DeleteServiceIP, DestroyFits
  <2>2. CASE StopVM(d) \/ StopRefused(d) \/ StopHookFails(d)
    BY <1>0, <2>2 DEF StopVM, StopRefused, StopHookFails, DestroyFits
  <2>3. CASE KeepEntry(d) \/ Unlink(d) \/ UnlinkFails(d) \/ ForgetEntry(d)
    BY <2>3 DEF KeepEntry, Unlink, UnlinkFails, ForgetEntry, DestroyFits
  <2> QED  BY <1>6, <2>1, <2>2, <2>3 DEF Destroy, DeleteServiceIPPanics
<1>7. ASSUME NEW m \in Machine, VisitEntry(m) PROVE DestroyFits'
  BY <1>0, <1>7 DEF VisitEntry, DestroyFits
<1>8. CASE Check
  <2> \A w \in Worker : pc[Checker] = "get" => pc[w] = "idle"  BY <1>0 DEF LockFits
  <2> QED
    BY <1>0, <1>8 DEF Check, LockEntry, GetState, GetFails, GetHookFails, Probe,
       DestroyFits, Destroyer
<1>9. CASE ScaleDone \/ \E m \in Machine : GuestHalts(m) \/ ProcessDies(m)
  BY <1>9 DEF ScaleDone, GuestHalts, ProcessDies, DestroyFits
<1>10. ASSUME NEW m \in Machine, NEW s \in Service, NewMachine(m, s) PROVE DestroyFits'
  BY <1>10 DEF NewMachine, DestroyFits
<1>11. CASE UNCHANGED vars  BY <1>11 DEF vars, DestroyFits
<1>12. CASE Crash  BY <1>1, <1>12 DEF Crash
<1> QED
  BY <1>1, <1>2, <1>3, <1>4, <1>5, <1>6, <1>7, <1>8, <1>9, <1>10, <1>11, <1>12 DEF Next

(* While clones are created no machine is deleted, so each of them is a    *)
(* replica from the moment it is stored.                                   *)
LEMMA CloneStep ==
  TypeOK /\ StageFits /\ TableFits /\ LockFits /\ CloneFits /\ [Next]_vars => CloneFits'
<1> SUFFICES ASSUME TypeOK, StageFits, TableFits, LockFits, CloneFits, [Next]_vars
             PROVE  CloneFits'
  OBVIOUS
<1> USE DEF TypeOK, creation, host, endpoint, tables, control, Goto, Return, Advance, DestroyStep,
            Running
<1>1. CASE Restart  BY <1>1 DEF Restart, CloneFits
<1>2. ASSUME NEW m \in Machine, Create(m), ~Restart PROVE CloneFits'
  <2>1. CASE CloneMachine(m) \/ PrepareVolume(m) \/ AcquireLock(m)
    BY <2>1 DEF CloneMachine, PrepareVolume, AcquireLock, CloneFits
  <2>2. CASE CreateVM(m) \/ CreateFails(m)
    BY <2>2 DEF CreateVM, CreateFails, CloneFits, TableFits
  <2>3. CASE CreatePanics(m) \/ StartPanics(m)
    BY <1>2, <2>3 DEF CreatePanics, StartPanics, Panic, CloneFits
  <2>4. CASE StartVM(m) \/ StartFails(m)
    BY <2>4 DEF StartVM, StartFails, CloneFits
  <2>5. CASE StoreInstance(m) \/ StoreNetwork(m)
    BY <2>5 DEF StoreInstance, StoreNetwork, StageFits, CloneFits
  <2> QED  BY <1>2, <2>1, <2>2, <2>3, <2>4, <2>5 DEF Create
<1>3. ASSUME NEW m \in Machine, PollerAnswered(m) \/ AddServiceIP(m) PROVE CloneFits'
  BY <1>3 DEF PollerAnswered, AddServiceIP, CloneFits
<1>4. ASSUME NEW s \in Service, NEW n \in 0..MaxReplicas, ScaleMachinesTo(s, n) PROVE CloneFits'
  <2>1. clones = {} /\ \A w \in Worker : pc[w] = "idle"  BY <1>4 DEF ScaleMachinesTo,
                                                            CloneFits, LockFits
  <2>2. CASE clones' = {}  BY <2>2 DEF CloneFits
  <2>3. CASE clones' # {}
    <3>1. ScaleUp(s, n - Cardinality(Running(s)))
      BY <1>4, <2>1, <2>3 DEF ScaleMachinesTo, ScaleDown
    <3> QED  BY <1>4, <2>1, <3>1 DEF ScaleMachinesTo, ScaleUp, Unused, CloneFits
  <2> QED  BY <2>2, <2>3
<1>5. ASSUME NEW w \in Worker, Delete(w) PROVE CloneFits'
  <2> clones = {}  BY <1>5 DEF Delete, PickMachine, MarkUnknown, CloneFits
  <2> QED  BY <1>5 DEF Delete, PickMachine, MarkUnknown, CloneFits
<1>6. ASSUME NEW d \in Destroyer, Destroy(d), ~Restart PROVE CloneFits'
  <2>1. clones = {}
    <3>1. pc[d] \in DestroyStep  BY <1>6, DestroyGoal
    <3>2. CASE d \in Worker  BY <3>1, <3>2 DEF CloneFits
    <3>3. CASE d = Checker  BY <3>1, <3>3 DEF LockFits, CloneFits
    <3> QED  BY <3>2, <3>3 DEF Destroyer
  <2>2. clones' = clones
    BY <1>6 DEF Destroy, LookupInterface, LookupFails, DeleteServiceIP, DeleteServiceIPPanics,
      StopVM, StopRefused, StopHookFails, KeepEntry, Unlink, UnlinkFails, ForgetEntry
  <2> QED  BY <2>1, <2>2 DEF CloneFits
<1>7. ASSUME NEW m \in Machine, VisitEntry(m) PROVE CloneFits'
  BY <1>7, CheckerNotWorker DEF VisitEntry, CloneFits, Destroyer
<1>8. CASE Check
  <2> clones = {}
    BY <1>8 DEF Check, LockEntry, GetState, GetFails, GetHookFails, LockFits, CloneFits
  <2> QED  BY <1>8 DEF Check, LockEntry, GetState, GetFails, GetHookFails, CloneFits
<1>9. CASE ScaleDone \/ \E m \in Machine : GuestHalts(m) \/ ProcessDies(m)
  BY <1>9 DEF ScaleDone, GuestHalts, ProcessDies, CloneFits
<1>10. ASSUME NEW m \in Machine, NEW s \in Service, NewMachine(m, s) PROVE CloneFits'
  BY <1>10 DEF NewMachine, CloneFits
<1>11. CASE UNCHANGED vars  BY <1>11 DEF vars, CloneFits
<1>12. CASE Crash  BY <1>1, <1>12 DEF Crash
<1> QED
  BY <1>1, <1>2, <1>3, <1>4, <1>5, <1>6, <1>7, <1>8, <1>9, <1>10, <1>11, <1>12 DEF Next

(* A machine is named after its function before it is stored, leaves the   *)
(* table only after it was taken out of service, and a worker picks it     *)
(* under the scaling that spawned the worker.                              *)
LEMMA OwnerStep ==
  TypeOK /\ StageFits /\ TableFits /\ LockFits /\ DestroyFits /\ CloneFits /\ OwnerFits /\ [Next]_vars
    => OwnerFits'
<1> SUFFICES ASSUME TypeOK, StageFits, TableFits, LockFits, DestroyFits, CloneFits, OwnerFits,
                    [Next]_vars
             PROVE  OwnerFits'
  OBVIOUS
<1> USE DEF TypeOK, creation, host, endpoint, tables, control, Goto, Return, Advance, DestroyStep
<1>0. /\ Checker \in Destroyer /\ Worker \subseteq Destroyer
      /\ \A d \in Destroyer : pc[d] \notin {"idle", "pick"}
           => goal[d] \in Machine /\ stage[goal[d]] \in {"recordnet", "done"}
  BY DEF TableFits, Destroyer
<1>1. CASE Restart  BY <1>0, <1>1 DEF Restart, OwnerFits
<1>2. ASSUME NEW m \in Machine, Create(m), ~Restart PROVE OwnerFits'
  <2>1. CASE CloneMachine(m) \/ PrepareVolume(m) \/ AcquireLock(m)
    BY <2>1 DEF CloneMachine, PrepareVolume, AcquireLock, OwnerFits
  <2>2. CASE CreateVM(m) \/ CreateFails(m)
    BY <2>2 DEF CreateVM, CreateFails, OwnerFits
  <2>3. CASE CreatePanics(m) \/ StartPanics(m)
    BY <1>2, <2>3 DEF CreatePanics, StartPanics, Panic, OwnerFits
  <2>4. CASE StartVM(m) \/ StartFails(m)
    BY <2>4 DEF StartVM, StartFails, OwnerFits
  <2>5. CASE StoreInstance(m) \/ StoreNetwork(m)
    BY <2>5 DEF StoreInstance, StoreNetwork, OwnerFits
  <2> QED  BY <1>2, <2>1, <2>2, <2>3, <2>4, <2>5 DEF Create
<1>3. ASSUME NEW m \in Machine, PollerAnswered(m) \/ AddServiceIP(m) PROVE OwnerFits'
  BY <1>3 DEF PollerAnswered, AddServiceIP, OwnerFits
<1>4. ASSUME NEW s \in Service, NEW n \in 0..MaxReplicas, ScaleMachinesTo(s, n) PROVE OwnerFits'
  <2>1. \A w \in Worker : pc'[w] # "mark"
    BY <1>0, <1>4 DEF ScaleMachinesTo, ScaleUp, ScaleDown, LockFits
  <2> QED  BY <1>4, <2>1 DEF ScaleMachinesTo, ScaleUp, ScaleDown, Unused, OwnerFits
<1>5. ASSUME NEW w \in Worker, Delete(w) PROVE OwnerFits'
  BY <1>0, <1>5, CheckerNotWorker DEF Delete, PickMachine, MarkUnknown, Running, OwnerFits
<1>6. ASSUME NEW d \in Destroyer, Destroy(d), ~Restart PROVE OwnerFits'
  <2>0. pc[d] \in DestroyStep /\ goal[d] \in Machine /\ status[goal[d]] # "running"
    BY <1>6, DestroyGoal DEF DestroyFits
  <2>1. CASE LookupInterface(d) \/ LookupFails(d) \/ DeleteServiceIP(d)
    BY <1>0, <2>0, <2>1 DEF LookupInterface, LookupFails, DeleteServiceIP, OwnerFits
  <2>2. CASE StopVM(d) \/ StopRefused(d) \/ StopHookFails(d)
    BY <1>0, <2>0, <2>2 DEF StopVM, StopRefused, StopHookFails, OwnerFits
  <2>3. CASE KeepEntry(d) \/ Unlink(d) \/ UnlinkFails(d)
    BY <1>0, <2>0, <2>3 DEF KeepEntry, Unlink, UnlinkFails, OwnerFits
  <2>4. CASE ForgetEntry(d)  BY <1>0, <2>0, <2>4 DEF ForgetEntry, OwnerFits
  <2> QED  BY <1>6, <2>1, <2>2, <2>3, <2>4 DEF Destroy, DeleteServiceIPPanics
<1>7. ASSUME NEW m \in Machine, VisitEntry(m) PROVE OwnerFits'
  BY <1>0, <1>7, CheckerNotWorker DEF VisitEntry, OwnerFits
<1>8. CASE Check
  <2>1. \A k \in Machine : status'[k] = "running" => status[k] = "running"
    BY <1>8 DEF Check, LockEntry, GetState, GetFails, GetHookFails, LockFits
  <2>2. UNCHANGED <<stage, service, inst, scale>>
    BY <1>8 DEF Check, LockEntry, GetState, GetFails, GetHookFails
  <2>3. \A w \in Worker : pc'[w] = pc[w] /\ goal'[w] = goal[w]
    BY <1>0, <1>8, CheckerNotWorker DEF Check, LockEntry, GetState, GetFails, GetHookFails
  <2> QED  BY <2>1, <2>2, <2>3 DEF OwnerFits
<1>9. CASE ScaleDone
  BY <1>9 DEF ScaleDone, OwnerFits
<1>10. ASSUME NEW m \in Machine, GuestHalts(m) \/ ProcessDies(m) PROVE OwnerFits'
  BY <1>10 DEF GuestHalts, ProcessDies, OwnerFits
<1>11. ASSUME NEW m \in Machine, NEW s \in Service, NewMachine(m, s) PROVE OwnerFits'
  BY <1>0, <1>11 DEF NewMachine, OwnerFits
<1>12. CASE UNCHANGED vars  BY <1>12 DEF vars, OwnerFits
<1>13. CASE Crash  BY <1>1, <1>13 DEF Crash
<1> QED
  BY <1>1, <1>2, <1>3, <1>4, <1>5, <1>6, <1>7, <1>8, <1>9, <1>10, <1>11, <1>12, <1>13 DEF Next

(* The replicas and clones a scaling counts on, and the deletions it still *)
(* owes, are finite sets.                                                  *)
LEMMA Finite ==
  ASSUME TypeOK, NEW s
  PROVE  /\ IsFiniteSet(Running(s) \cup Waited)
         /\ Cardinality(Running(s) \cup Waited) \in Nat
         /\ IsFiniteSet(Running(s)) /\ Cardinality(Running(s)) \in Nat
         /\ IsFiniteSet(Pending) /\ Cardinality(Pending) \in Nat
<1>1. Running(s) \cup Waited \in SUBSET Machine /\ Running(s) \in SUBSET Machine
  BY DEF TypeOK, Running, Waited
<1>2. Pending \in SUBSET Worker  BY DEF Pending
<1> QED  BY <1>1, <1>2, FS_Subset, FS_CardinalityType, MachineFinite, WorkerFinite

(* A step that loses no replica and owes no new deletion keeps the floor.  *)
LEMMA FloorKept ==
  ASSUME TypeOK, TypeOK', ScaleFloor, hlock = "scale", scale' = scale,
         Running(scale.svc) \cup Waited \subseteq Running(scale.svc)' \cup Waited',
         Pending' \subseteq Pending
  PROVE  ScaleFloor'
<1> DEFINE R == Running(scale.svc) \cup Waited
           P == Pending
<1>1. IsFiniteSet(R') /\ Cardinality(R') \in Nat /\ IsFiniteSet(P') /\ Cardinality(P') \in Nat
  <2>1. (Running(scale.svc) \cup Waited)' \in SUBSET Machine  BY DEF TypeOK, Running, Waited
  <2>2. P' \in SUBSET Worker  BY DEF Pending
  <2> QED  BY <2>1, <2>2, FS_Subset, FS_CardinalityType, MachineFinite, WorkerFinite
<1>2. IsFiniteSet(R) /\ Cardinality(R) \in Nat /\ IsFiniteSet(P) /\ Cardinality(P) \in Nat
  BY Finite
<1>3. R \in SUBSET R' /\ P' \in SUBSET P  BY scale' = scale
<1>4. Cardinality(R) <= Cardinality(R') /\ Cardinality(P') <= Cardinality(P)
  <2> HIDE DEF R, P
  <2> QED  BY <1>1, <1>2, <1>3, FS_Subset
<1>5. Cardinality(R) >= scale.target + Cardinality(P)  BY DEF ScaleFloor
<1>6. scale.target \in Nat  BY DEF TypeOK
<1>7. Cardinality(R') >= scale'.target + Cardinality(P')
  <2> HIDE DEF R, P
  <2> QED  BY <1>1, <1>2, <1>4, <1>5, <1>6, scale' = scale
<1> QED  BY <1>7 DEF ScaleFloor

(* Marking a machine takes one replica away and settles one deletion;      *)
(* every other step of a scaling keeps what it counts on, and a scaling    *)
(* begins with as many clones or deletions as the difference asks for.     *)
LEMMA FloorStep == Inductive /\ TypeOK' /\ [Next]_vars => ScaleFloor'
<1> SUFFICES ASSUME Inductive, TypeOK', [Next]_vars, hlock' = "scale" PROVE ScaleFloor'
  BY DEF ScaleFloor
<1> USE DEF TypeOK, creation, host, endpoint, tables, control, Goto, Return, Advance, DestroyStep
<1> TypeOK /\ StageFits /\ TableFits /\ LockFits /\ DestroyFits /\ CloneFits /\ ScaleFloor
  BY DEF Inductive
<1> DEFINE Kept == /\ hlock = "scale" /\ scale' = scale
                   /\ Running(scale.svc) \cup Waited \subseteq Running(scale.svc)' \cup Waited'
                   /\ Pending' \subseteq Pending
<1>k. Kept => ScaleFloor'  BY FloorKept
<1>1. ASSUME NEW m \in Machine, Create(m) PROVE Kept
  <2>0. ~Restart  BY DEF Restart
  <2>1. CASE CloneMachine(m) \/ PrepareVolume(m) \/ AcquireLock(m)
    BY <2>1 DEF CloneMachine, PrepareVolume, AcquireLock, Running, Waited, Pending, TableFits
  <2>2. CASE CreateVM(m) \/ CreateFails(m)
    BY <2>2 DEF CreateVM, CreateFails, Running, Waited, Pending, TableFits
  <2>3. CASE CreatePanics(m) \/ StartPanics(m)
    BY <2>0, <2>3 DEF CreatePanics, StartPanics, Panic, Running, Waited, Pending, TableFits
  <2>4. CASE StartVM(m) \/ StartFails(m)
    BY <2>4 DEF StartVM, StartFails, Running, Waited, Pending, TableFits
  <2>5. CASE StoreInstance(m) \/ StoreNetwork(m)
    BY <2>5 DEF StoreInstance, StoreNetwork, Running, Waited, Pending, CloneFits
  <2> QED  BY <1>1, <2>1, <2>2, <2>3, <2>4, <2>5 DEF Create
<1>2. ASSUME NEW m \in Machine, NEW s \in Service, NewMachine(m, s) PROVE Kept
  BY <1>2 DEF NewMachine, Running, Waited, Pending, TableFits, CloneFits
<1>3. ASSUME NEW m \in Machine,
             PollerAnswered(m) \/ AddServiceIP(m) \/ GuestHalts(m) \/ ProcessDies(m)
      PROVE  Kept
  BY <1>3 DEF PollerAnswered, AddServiceIP, GuestHalts, ProcessDies, Running, Waited, Pending
<1>4. ASSUME NEW m \in Machine, VisitEntry(m) PROVE Kept
  BY <1>4, CheckerNotWorker DEF VisitEntry, Running, Waited, Pending
<1>5. ASSUME NEW d \in Destroyer, Destroy(d) PROVE Kept
  <2>0. pc[d] \in DestroyStep /\ goal[d] \in Machine /\ status[goal[d]] # "running"
    BY <1>5, DestroyGoal DEF DestroyFits
  <2>1. d # Checker /\ ~Restart /\ hlock = "scale"
    <3>1. CASE Restart  BY <3>1 DEF Restart
    <3>2. CASE d = Checker /\ ~Restart
      <4>1. hlock = "health"  BY <2>0, <3>2 DEF LockFits
      <4>2. hlock' \in {hlock, "free"}
        BY <1>5, <3>2 DEF Destroy, LookupInterface, LookupFails, DeleteServiceIP,
          DeleteServiceIPPanics, StopVM, StopRefused, StopHookFails, KeepEntry, Unlink,
          UnlinkFails, ForgetEntry
      <4> QED  BY <4>1, <4>2
    <3>3. d # Checker => hlock = "scale"  BY <2>0 DEF LockFits, Destroyer
    <3> QED  BY <3>1, <3>2, <3>3
  <2>2. /\ scale' = scale /\ hlock' = hlock /\ Pending' \subseteq Pending
        /\ Waited' = Waited /\ service' = service
    BY <1>5, <2>0, <2>1 DEF Destroy, LookupInterface, LookupFails, DeleteServiceIP,
      DeleteServiceIPPanics, StopVM, StopRefused, StopHookFails, KeepEntry, Unlink,
      UnlinkFails, ForgetEntry, Pending, Waited, Destroyer
  <2>3. \A m \in inst : status[m] = "running" => m \in inst' /\ status'[m] = "running"
    BY <1>5, <2>0, <2>1 DEF Destroy, LookupInterface, LookupFails, DeleteServiceIP,
      DeleteServiceIPPanics, StopVM, StopRefused, StopHookFails, KeepEntry, Unlink,
      UnlinkFails, ForgetEntry
  <2> QED  BY <2>1, <2>2, <2>3 DEF Running
<1>6. ASSUME NEW w \in Worker, PickMachine(w) PROVE Kept
  BY <1>6, CheckerNotWorker
  DEF PickMachine, Running, Waited, Pending, LockFits, Destroyer
<1>7. ASSUME NEW w \in Worker, MarkUnknown(w) PROVE ScaleFloor'
  <2> DEFINE R == Running(scale.svc) \cup Waited
             S == Running(scale.svc)' \cup Waited'
  <2>1. hlock = "scale" /\ scale' = scale /\ w \in Pending /\ scale.target \in Nat
    BY <1>7 DEF MarkUnknown, Pending
  <2>2. R \ {goal[w]} \in SUBSET S /\ S \in SUBSET Machine
    BY <1>7 DEF MarkUnknown, Running, Waited
  <2>3. Pending' = Pending \ {w}
    BY <1>7 DEF MarkUnknown, Pending, Destroyer
  <2>4. /\ IsFiniteSet(R) /\ Cardinality(R) \in Nat
        /\ IsFiniteSet(Pending) /\ Cardinality(Pending) \in Nat
    BY Finite
  <2>5. IsFiniteSet(S) /\ Cardinality(S) \in Nat
    BY <2>2, FS_Subset, FS_CardinalityType, MachineFinite
  <2>6. Cardinality(R) >= scale.target + Cardinality(Pending)  BY <2>1 DEF ScaleFloor
  <2> HIDE DEF R, S
  <2>7. Cardinality(R \ {goal[w]}) \in {Cardinality(R), Cardinality(R) - 1}
    BY <2>4, FS_RemoveElement
  <2>8. Cardinality(R \ {goal[w]}) <= Cardinality(S)  BY <2>2, <2>5, FS_Subset
  <2>9. Cardinality(Pending') = Cardinality(Pending) - 1
    BY <2>1, <2>3, <2>4, FS_RemoveElement
  <2>10. Cardinality(S) >= scale.target + Cardinality(Pending')
    BY <2>1, <2>4, <2>5, <2>6, <2>7, <2>8, <2>9
  <2> QED  BY <2>1, <2>10 DEF ScaleFloor, R, S
<1>8. ASSUME Check PROVE FALSE
  BY <1>8 DEF Check, LockEntry, GetState, GetFails, GetHookFails, LockFits
<1>9. ASSUME NEW s \in Service, NEW n \in 0..MaxReplicas, ScaleMachinesTo(s, n) PROVE ScaleFloor'
  <2> DEFINE c == Cardinality(Running(s))
             S == Running(s)' \cup Waited'
  <2>1. /\ hlock = "free" /\ scale' = [svc |-> s, target |-> n]
        /\ inst' = inst /\ status' = status
    BY <1>9 DEF ScaleMachinesTo
  <2>2. /\ \A w \in Worker : pc[w] = "idle"
        /\ clones = {}
    BY <2>1 DEF LockFits, CloneFits
  <2>3. IsFiniteSet(Running(s)) /\ c \in Nat  BY Finite
  <2>4. n \in Nat  BY MaxReplicasNat
  <2>5. CASE c < n /\ ScaleUp(s, n - c)
    <3>1. PICK new \in SUBSET Unused :
            /\ Cardinality(new) = n - c
            /\ clones' = new
            /\ stage' = [m \in Machine |-> IF m \in new THEN "clone" ELSE stage[m]]
            /\ service' = [m \in Machine |-> IF m \in new THEN s ELSE service[m]]
      BY <2>5 DEF ScaleUp
    <3>2. Running(s) \cap new = {}  BY DEF Running, TableFits, Unused
    <3>3. Running(s) \cup new \in SUBSET S /\ S \in SUBSET Machine
      BY <2>1, <3>1 DEF Running, Waited, Unused, TableFits
    <3>4. IsFiniteSet(new) /\ IsFiniteSet(S) /\ Cardinality(S) \in Nat
      <4>1. new \in SUBSET Machine  BY DEF Unused
      <4>2. \A T \in SUBSET Machine : IsFiniteSet(T) /\ Cardinality(T) \in Nat
        BY FS_Subset, FS_CardinalityType, MachineFinite
      <4> HIDE DEF S
      <4> QED  BY <3>3, <4>1, <4>2
    <3>5. Cardinality(Running(s) \cup new) = c + (n - c)
      <4> HIDE DEF c
      <4>1. Cardinality(Running(s) \cup new) = Cardinality(Running(s)) + Cardinality(new) - 0
        BY <2>3, <3>2, <3>4, FS_Union, FS_EmptySet
      <4> QED  BY <2>3, <2>4, <3>1, <4>1 DEF c
    <3>6. Pending' = {}  BY <2>2, <2>5 DEF ScaleUp, Pending
    <3>7. Cardinality(Running(s) \cup new) <= Cardinality(S)  BY <3>3, <3>4, FS_Subset
    <3>8. Cardinality(S) >= n + Cardinality(Pending')
      BY <2>3, <2>4, <3>4, <3>5, <3>6, <3>7, FS_EmptySet
    <3> QED  BY <2>1, <3>8 DEF ScaleFloor
  <2>6. CASE n < c /\ ScaleDown(c - n)
    <3>1. PICK chosen \in SUBSET Worker :
            /\ Cardinality(chosen) = c - n
            /\ pc' = [d \in Destroyer |-> IF d \in chosen THEN "pick" ELSE pc[d]]
      BY <2>6 DEF ScaleDown
    <3>2. Pending' = chosen  BY <2>2, <3>1 DEF Pending, Destroyer
    <3> service' = service /\ clones' = {}  BY <2>2, <2>6 DEF ScaleDown
    <3>3. S = Running(s)  BY <2>1, <2>2 DEF Running, Waited
    <3>4. Cardinality(S) >= n + Cardinality(Pending')
      <4>1. Cardinality(S) = c /\ Cardinality(Pending') = c - n  BY <3>1, <3>2, <3>3
      <4> HIDE DEF S, c
      <4> QED  BY <2>3, <2>4, <4>1
    <3> QED  BY <2>1, <3>4 DEF ScaleFloor
  <2>7. CASE c = n /\ UNCHANGED <<stage, service, clones, pc>>
    <3>1. Pending' = {}  BY <2>2, <2>7 DEF Pending
    <3>2. S = Running(s)  BY <2>1, <2>2, <2>7 DEF Running, Waited
    <3>3. Cardinality(S) >= n + Cardinality(Pending')
      BY <2>3, <2>4, <2>7, <3>1, <3>2, FS_EmptySet
    <3> QED  BY <2>1, <3>3 DEF ScaleFloor
  <2> QED  BY <1>9, <2>5, <2>6, <2>7 DEF ScaleMachinesTo
<1>10. ASSUME UNCHANGED vars PROVE Kept
  BY <1>10 DEF vars, Running, Waited, Pending
<1>11. ASSUME ScaleDone \/ Restart PROVE FALSE  BY <1>11 DEF ScaleDone, Restart
<1> QED
  BY <1>k, <1>1, <1>2, <1>3, <1>4, <1>5, <1>6, <1>7, <1>8, <1>9, <1>10, <1>11
  DEF Next, Delete, Crash

(* NewMachineStore returns empty maps: every part of the invariant holds. *)
LEMMA InductiveInit == Init => Inductive
<1> SUFFICES ASSUME Init PROVE Inductive
  OBVIOUS
<1>1. TypeOK
  BY DEF Init, TypeOK, NoScale, Stage, Status, VMState, DestroyStep
<1>2. StageFits /\ TableFits /\ LockFits /\ DestroyFits /\ CloneFits /\ OwnerFits
  BY DEF Init, StageFits, TableFits, LockFits, DestroyFits, CloneFits, OwnerFits, DestroyStep,
    Destroyer
<1>3. ForgottenIsReported /\ CheckerSparesServing /\ ScaleFloor /\ NoServingLoss
  BY DEF Init, ForgottenIsReported, CheckerSparesServing, ScaleFloor, NoServingLoss,
     DestroyStep,
    Destroyer
<1> QED  BY <1>1, <1>2, <1>3 DEF Inductive

(* Every step of createMachine, ScaleMachinesTo, destroyMachine, the health *)
(* check and the environment keeps each part of the invariant.             *)
LEMMA InductiveStep == Inductive /\ [Next]_vars => Inductive'
  BY TypeStep, StageStep, TableStep, LockStep, DestroyStepFits, CloneStep, OwnerStep,
     ForgottenStep,
    SparesStep, FloorStep, LossStep DEF Inductive

(* The invariant of the machine store, from which the theorems follow:     *)
(* what stage, status, process, table, locks and reports are to each other *)
(* between any two steps of its goroutines.                                *)
THEOREM InductiveHolds == Spec => []Inductive
  BY InductiveInit, InductiveStep, PTL DEF Spec

(* The variables have their types in every reachable state. *)
THEOREM TypeCorrect == Spec => []TypeOK
<1>1. Inductive => TypeOK  BY DEF Inductive
<1> QED  BY <1>1, InductiveHolds, PTL

(* No unikernel whose guest can run is dropped without a report, whatever  *)
(* the number of machines and workers and whatever fails.                  *)
THEOREM ServingAccounted == Spec => []NoServingLoss
<1>1. Inductive => NoServingLoss  BY DEF Inductive
<1> QED  BY <1>1, InductiveHolds, PTL

(* The health check only ever destroys a machine whose guest has ended.    *)
THEOREM CheckerSafe == Spec => []CheckerSparesServing
<1>1. Inductive => CheckerSparesServing  BY DEF Inductive
<1> QED  BY <1>1, InductiveHolds, PTL

(* Only Start and the health check write the status running: Start while   *)
(* no one else knows the machine, the health check while it holds the lock *)
(* under which it has seen the machine running.                            *)
LEMMA ResurrectionStep ==
  ASSUME Inductive, [Next]_vars, NEW m \in Machine, status'[m] = "running"
  PROVE  status[m] \in {"none", "created", "running"}
<1> USE DEF TypeOK, creation, host, endpoint, tables, control
<1>0. TypeOK /\ StageFits /\ LockFits  BY DEF Inductive
<1>1. ~Restart  BY <1>0 DEF Restart
<1>2. ASSUME NEW k \in Machine, Create(k) PROVE status[m] \in {"none", "created", "running"}
  <2>1. CASE StartVM(k)  BY <1>0, <2>1 DEF StartVM, StageFits
  <2>2. CASE CreateVM(k)  BY <1>0, <2>2 DEF CreateVM
  <2>3. CASE ~StartVM(k) /\ ~CreateVM(k)
    BY <1>1, <1>2, <2>3 DEF Create, CloneMachine, PrepareVolume, AcquireLock, CreateFails,
      CreatePanics, StartFails, StartPanics, Panic, StoreInstance, StoreNetwork
  <2> QED  BY <2>1, <2>2, <2>3
<1>3. CASE status' = status  BY <1>3
<1>4. ASSUME NEW w \in Worker, Delete(w) PROVE status[m] \in {"none", "created", "running"}
  BY <1>0, <1>4 DEF Delete, PickMachine, MarkUnknown
<1>5. ASSUME NEW d \in Destroyer, Destroy(d) PROVE status[m] \in {"none", "created", "running"}
  BY <1>0, <1>1, <1>5 DEF Destroy, LookupInterface, LookupFails, DeleteServiceIP,
    DeleteServiceIPPanics, StopVM, StopRefused, StopHookFails, KeepEntry, Unlink,
    UnlinkFails, ForgetEntry
<1>6. CASE Check
  BY <1>0, <1>6 DEF Check, LockEntry, GetState, GetFails, GetHookFails, LockFits
<1>7. ASSUME NEW k \in Machine, NEW s \in Service, NewMachine(k, s)
      PROVE  status' = status
  BY <1>7 DEF NewMachine
<1>8. ASSUME NEW s \in Service, NEW n \in 0..MaxReplicas, ScaleMachinesTo(s, n)
      PROVE  status' = status
  BY <1>8 DEF ScaleMachinesTo
<1>9. ASSUME NEW k \in Machine,
             \/ PollerAnswered(k) \/ AddServiceIP(k) \/ VisitEntry(k)
             \/ GuestHalts(k) \/ ProcessDies(k)
      PROVE  status' = status
  BY <1>9 DEF PollerAnswered, AddServiceIP, VisitEntry, GuestHalts, ProcessDies
<1>10. CASE ScaleDone \/ UNCHANGED vars  BY <1>3, <1>10 DEF ScaleDone, vars
<1> QED
  BY <1>1, <1>2, <1>3, <1>4, <1>5, <1>6, <1>7, <1>8, <1>9, <1>10 DEF Next, Crash

(* A machine that scaling down, the health check or a restart has taken    *)
(* out of service is never again among the running ones.                   *)
THEOREM OutOfServiceForGood == Spec => NoResurrection
<1>1. Inductive /\ [Next]_vars
        => [\A m \in Machine : status[m] \notin {"none", "created", "running"}
                                 => status'[m] # "running"]_vars
  BY ResurrectionStep
<1> QED  BY <1>1, InductiveHolds, PTL DEF Spec, NoResurrection

(* However its workers race for machines, a ScaleMachinesTo that deletes   *)
(* leaves its function at least the replicas it was asked for, and one     *)
(* that adds counts on as many machines, or clones under way or failed.    *)
THEOREM ScalingKeepsTarget == Spec => []ScaleFloor
<1>1. Inductive => ScaleFloor  BY DEF Inductive
<1> QED  BY <1>1, InductiveHolds, PTL

(* The not-found branch of DeleteMachine is never taken: while a deletion  *)
(* is owed the floor says that a running machine is left for it.           *)
THEOREM DeletionsFind == Spec => []DeletionFindsMachine
<1>1. Inductive => DeletionFindsMachine
  <2> SUFFICES ASSUME Inductive, NEW w \in Worker, pc[w] = "pick", Running(scale.svc) = {}
               PROVE  FALSE
    BY DEF DeletionFindsMachine
  <2>1. TypeOK /\ LockFits /\ CloneFits /\ ScaleFloor  BY DEF Inductive
  <2>2. hlock = "scale" /\ clones = {}  BY <2>1 DEF LockFits, CloneFits
  <2>3. Running(scale.svc) \cup Waited = {}  BY <2>2 DEF Waited
  <2>4. w \in Pending  BY DEF Pending
  <2>5. /\ IsFiniteSet(Pending) /\ Cardinality(Pending) \in Nat
        /\ Cardinality(Running(scale.svc) \cup Waited) = 0
    BY <2>1, <2>3, Finite, FS_EmptySet
  <2>6. Cardinality(Pending) # 0  BY <2>4, <2>5, FS_EmptySet
  <2>7. scale.target \in Nat  BY <2>1 DEF TypeOK
  <2> QED  BY <2>1, <2>2, <2>5, <2>6, <2>7 DEF ScaleFloor
<1> QED  BY <1>1, InductiveHolds, PTL
=============================================================================
