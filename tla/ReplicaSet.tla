----------------------------- MODULE ReplicaSet -----------------------------
(***************************************************************************)
(* What the machine store promises to the handlers that use it: machines   *)
(* join the set that serves a function one by one, leave it for good, and  *)
(* leave it for a reason - a request to scale down, which never goes below *)
(* the replicas it asked for, or a health check of that very machine.      *)
(***************************************************************************)
EXTENDS Naturals, FiniteSets

CONSTANTS Machine, Service, None

VARIABLES
  serving,  \* pairs <<machine, service>>: the replicas of every function
  spent,    \* machines that have served and never will again
  task      \* the one operation that may take machines out of service

vars == <<serving, spent, task>>

Idle == [kind |-> "idle", svc |-> None, floor |-> 0, machine |-> None]

Replicas(s) == {r \in serving : r[2] = s}

Init == serving = {} /\ spent = {} /\ task = Idle

Launch(m, s) ==
  /\ m \notin spent
  /\ \A t \in Service : <<m, t>> \notin serving
  /\ serving' = serving \cup {<<m, s>>}
  /\ UNCHANGED <<spent, task>>

BeginScale ==
  /\ task = Idle
  /\ task' \in [kind : {"scale"}, svc : Service, floor : Nat, machine : {None}]
  /\ UNCHANGED <<serving, spent>>

BeginCheck(m) ==
  /\ task = Idle
  /\ task' = [kind |-> "check", svc |-> None, floor |-> 0, machine |-> m]
  /\ UNCHANGED <<serving, spent>>

End ==
  /\ task' = Idle
  /\ UNCHANGED <<serving, spent>>

Retire(m, s) ==
  /\ <<m, s>> \in serving
  /\ serving' = serving \ {<<m, s>>}
  /\ spent' = spent \cup {m}

Shrink(m, s) ==
  /\ task.kind = "scale"
  /\ task.svc = s
  /\ Cardinality(Replicas(s)) > task.floor
  /\ Retire(m, s)
  /\ UNCHANGED task

(* A machine that fails its check leaves; the check may end with it. *)
Condemn(m, s) ==
  /\ task.kind = "check"
  /\ task.machine = m
  /\ Retire(m, s)
  /\ task' \in {task, Idle}

Restart ==
  /\ serving' = {}
  /\ spent' \in SUBSET Machine
  /\ spent \subseteq spent'
  /\ \A r \in serving : r[1] \in spent'
  /\ task' = Idle

Next ==
  \/ \E m \in Machine, s \in Service : Launch(m, s) \/ Shrink(m, s) \/ Condemn(m, s)
  \/ BeginScale
  \/ \E m \in Machine : BeginCheck(m)
  \/ End
  \/ Restart

Spec == Init /\ [][Next]_vars
=============================================================================
