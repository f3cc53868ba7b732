------------------------------ MODULE Provider ------------------------------
(***************************************************************************)
(* pkg/provider/handlers: the HTTP handlers that deploy, update, scale,    *)
(* delete and invoke functions, composed with the function store and with  *)
(* the machine store as its callers see it.  net/http runs every request   *)
(* in a goroutine of its own; what they share are the tables of the two    *)
(* stores and healthChecklock.                                             *)
(***************************************************************************)
EXTENDS FunctionStore, Integers, FiniteSets

CONSTANTS
  Machine,   \* room for machines on the host; a place is used again
  Target,    \* replica counts that scale requests ask for
  Requests,  \* bound on the requests clients send
  Trouble    \* what the environment may do: see TroubleKind

TroubleKind ==
  { "create",   \* createMachine returns an error
    "vm",       \* a guest dies and RunHealthChecks removes its machine
    "reject",   \* a request is malformed or names a bad namespace or secret
    "restart" } \* the daemon ends and systemd starts it again

ASSUME TargetsNat    == Target \subseteq Nat
ASSUME RequestsNat   == Requests \in Nat
ASSUME MachineFinite == IsFiniteSet(Machine)
ASSUME NoneIsNobody  == None \notin Proc
ASSUME TroublesKnown == Trouble \subseteq TroubleKind

VARIABLES
  req,      \* the request a process serves, and where its handler is
  machine,  \* machineInstanceMapv2, with the machines being created
  scaling,  \* healthChecklock and the goroutines ScaleMachinesTo waits for
  sent,     \* requests the clients have sent
  asked,    \* history: the last replica count a scale request asked for
  raced     \* history: what overlapping requests may have done to a function

providerVars == <<req, machine, scaling, sent, asked, raced>>
vars == <<storeVars, providerVars>>

Kind == {"deploy", "update", "scale", "delete", "invoke"}

NoRequest == [kind |-> "none", fn |-> None, image |-> None, target |-> 0, pc |-> "idle",
              held |-> None, ok |-> TRUE, alone |-> TRUE, served |-> FALSE]

NoMachine == [state |-> "none", fn |-> None, image |-> None, by |-> None]

NotScaling == [by |-> None, grow |-> 0, shrink |-> 0]

Init ==
  /\ StoreInit
  /\ req = [p \in Proc |-> NoRequest]
  /\ machine = [m \in Machine |-> NoMachine]
  /\ scaling = NotScaling
  /\ sent = 0
  /\ asked = [f \in Fn |-> 0]
  /\ raced = [f \in Fn |-> {}]

-----------------------------------------------------------------------------
Running(f)  == {m \in Machine : machine[m].state = "run" /\ machine[m].fn = f}
Replicas(f) == Cardinality(Running(f))
Booting(p)  == {m \in Machine : machine[m].state = "boot" /\ machine[m].by = p}
Free        == {m \in Machine : machine[m].state = "none"}

At(p, kinds, pc) == req[p].kind \in kinds /\ req[p].pc = pc

Move(p, pc) == req' = [req EXCEPT ![p].pc = pc]

Answer(p, code) ==
  req' = [req EXCEPT ![p] = [NoRequest EXCEPT !.served = (code = 200)]]

(* A failure behind the back of the requests that use a function. *)
Spoil(f) == [p \in Proc |-> IF req[p].fn = f THEN [req[p] EXCEPT !.alone = FALSE]
                                              ELSE req[p]]

-----------------------------------------------------------------------------
(* What two overlapping requests for one function can do: what serves it   *)
(* is no longer what is stored after a deletion, an update or a second     *)
(* deployment; a machine too many takes two requests that create.          *)
Consequence(a, b) ==
  IF {a, b} \cap {"delete", "update"} # {} \/ {a, b} = {"deploy"}
  THEN {"lost", "extra"} ELSE {"extra"}

Consequences(k, others) == UNION {Consequence(k, req[q].kind) : q \in others}

NewRequest(k, f, i, n, alone) ==
  [kind |-> k, fn |-> f, image |-> i, target |-> n, pc |-> "begin",
   held |-> None, ok |-> TRUE, alone |-> alone, served |-> FALSE]

Receive(p) ==
  \E k \in Kind, f \in Fn, i \in Image \cup {None}, n \in Target \cup {0} :
    LET others == {q \in Proc \ {p} : req[q].fn = f}
        unused == /\ ~FunctionExists(f) /\ others = {}
                  /\ \A m \in Machine : machine[m].fn # f
    IN
    /\ req[p].pc = "idle"
    /\ sent < Requests
    /\ sent' = sent + 1
    /\ i = None <=> k \notin {"deploy", "update"}
    /\ IF k = "scale" THEN n \in Target ELSE n = 0
    /\ req' = [q \in Proc |->
                IF q = p THEN NewRequest(k, f, i, n, others = {}) ELSE Spoil(f)[q]]
    /\ asked' = IF unused THEN [asked EXCEPT ![f] = 0] ELSE asked
    /\ raced' = [raced EXCEPT ![f] = (IF unused THEN {} ELSE @)
                    \cup Consequences(k, others)]
    /\ UNCHANGED <<storeVars, machine, scaling>>

(* Bad body, unknown namespace, missing secret. *)
Reject(p) ==
  /\ "reject" \in Trouble
  /\ At(p, Kind \ {"invoke"}, "begin")
  /\ Answer(p, 400)
  /\ UNCHANGED <<storeVars, machine, scaling, sent, asked, raced>>

-----------------------------------------------------------------------------
(* MakeDeployHandler *)

(* The handler has taken over what the store returned. *)
Forget(p) ==
  /\ call' = [call EXCEPT ![p] = NoCall]
  /\ UNCHANGED <<functions, cached, files, hurt>>

DeployBegins(p) ==
  /\ At(p, {"deploy"}, "begin")
  /\ Enter(p, "check", req[p].fn, req[p].image)
  /\ Move(p, "store")
  /\ UNCHANGED <<functions, cached, files, hurt, machine, scaling, sent, asked, raced>>

DeployStored(p) ==
  /\ At(p, {"deploy"}, "store")
  /\ call[p].at = "idle"
  /\ IF call[p].ok
     THEN req' = [req EXCEPT ![p].pc = "create",
                             ![p].held = call[p].image]
     ELSE Answer(p, 400)
  /\ Forget(p)
  /\ UNCHANGED <<machine, scaling, sent, asked, raced>>

(* MakeUpdateHandler looks for an error where it means none. *)
UpdateBegins(p) ==
  /\ At(p, {"update"}, "begin")
  /\ IF FunctionExists(req[p].fn)
     THEN Answer(p, 404) /\ UNCHANGED call
     ELSE Enter(p, "read", req[p].fn, req[p].image) /\ Move(p, "store")
  /\ UNCHANGED <<functions, cached, files, hurt, machine, scaling, sent, asked, raced>>

UpdateStored(p) ==
  /\ At(p, {"update"}, "store")
  /\ call[p].at = "idle"
  /\ IF ~call[p].ok THEN Answer(p, 400)
     ELSE req' = [req EXCEPT ![p].pc = IF call[p].added THEN "create" ELSE "scale",
                             ![p].held = IF call[p].added THEN call[p].image ELSE None]
  /\ Forget(p)
  /\ UNCHANGED <<machine, scaling, sent, asked, raced>>

(* MakeDeleteHandler *)

(* Mutant of DeleteBegins: the machines are left to the health check. *)
DeleteBeginsWithoutStop(p) ==
  /\ At(p, {"delete"}, "begin")
  /\ IF FunctionExists(req[p].fn) THEN Move(p, "scaled") ELSE Answer(p, 404)
  /\ UNCHANGED <<storeVars, machine, scaling, sent, asked, raced>>

DeleteBegins(p) ==
  /\ At(p, {"delete"}, "begin")
  /\ IF FunctionExists(req[p].fn) THEN Move(p, "scale") ELSE Answer(p, 404)
  /\ UNCHANGED <<storeVars, machine, scaling, sent, asked, raced>>

DeleteEnds(p) ==
  /\ At(p, {"delete"}, "scaled")
  /\ DeleteFunction(req[p].fn)
  /\ Answer(p, 200)
  /\ UNCHANGED <<machine, scaling, sent, asked, raced>>

(* MakeReplicaUpdateHandler and Resolve read the function, then count its  *)
(* replicas, and create a machine when there is none.                      *)
LoadFunction(p) ==
  /\ At(p, {"scale", "invoke"}, "begin")
  /\ IF FunctionExists(req[p].fn)
     THEN req' = [req EXCEPT ![p].pc = "count", ![p].held = functions[req[p].fn].image]
     ELSE Answer(p, IF req[p].kind = "scale" THEN 404 ELSE 503)
  /\ UNCHANGED <<storeVars, machine, scaling, sent, asked, raced>>

(* Mutant of CountReplicas: ScaleMachinesTo creates from nothing. *)
CountReplicasToInvoke(p) ==
  /\ At(p, {"scale", "invoke"}, "count")
  /\ req' = IF Replicas(req[p].fn) = 0 /\ req[p].kind = "invoke"
            THEN [req EXCEPT ![p].pc = "create"]
            ELSE [req EXCEPT ![p].held = None,
                             ![p].pc = IF req[p].kind = "scale" THEN "scale" ELSE "resolve"]
  /\ UNCHANGED <<storeVars, machine, scaling, sent, asked, raced>>

(* Mutant of CountReplicas: the test for replicas is gone. *)
CountReplicasNever(p) ==
  /\ At(p, {"scale", "invoke"}, "count")
  /\ req' = [req EXCEPT ![p].pc = "create"]
  /\ UNCHANGED <<storeVars, machine, scaling, sent, asked, raced>>

CountReplicas(p) ==
  /\ At(p, {"scale", "invoke"}, "count")
  /\ req' = IF Replicas(req[p].fn) = 0 THEN [req EXCEPT ![p].pc = "create"]
            ELSE [req EXCEPT ![p].held = None,
                             ![p].pc = IF req[p].kind = "scale" THEN "scale" ELSE "resolve"]
  /\ UNCHANGED <<storeVars, machine, scaling, sent, asked, raced>>

(* The network controller may know no endpoint although a machine runs:    *)
(* its address is added once the guest answers.                            *)
Resolve(p) ==
  /\ At(p, {"invoke"}, "resolve")
  /\ \/ Answer(p, 503)
     \/ (\E m \in Machine : machine[m].fn = req[p].fn) /\ Answer(p, 200)
  /\ UNCHANGED <<storeVars, machine, scaling, sent, asked, raced>>

-----------------------------------------------------------------------------
(* NewMachine, from the function the handler holds. *)

CreateMachine(p) ==
  /\ req[p].pc = "create"
  /\ \E m \in Free :
       machine' = [machine EXCEPT ![m] = [state |-> "boot", fn |-> req[p].fn,
                                          image |-> req[p].held, by |-> p]]
  /\ req' = [req EXCEPT ![p].pc = "boot", ![p].held = None]
  /\ UNCHANGED <<storeVars, scaling, sent, asked, raced>>

(* The machine enters the table, for NewMachine and for CloneMachine. *)
Booted(p) ==
  /\ req[p].pc \in {"boot", "scaling"}
  /\ \E m \in Booting(p) : machine' = [machine EXCEPT ![m].state = "run", ![m].by = None]
  /\ Move(p, IF req[p].pc = "boot" THEN "created" ELSE "scaling")
  /\ UNCHANGED <<storeVars, scaling, sent, asked, raced>>

BootFails(p) ==
  /\ "create" \in Trouble
  /\ req[p].pc \in {"boot", "scaling"}
  /\ \E m \in Booting(p) : machine' = [machine EXCEPT ![m] = NoMachine]
  /\ req' = IF req[p].pc = "boot"
            THEN [Spoil(req[p].fn) EXCEPT ![p].pc = "created", ![p].ok = FALSE]
            ELSE Spoil(req[p].fn)
  /\ UNCHANGED <<storeVars, scaling, sent, asked, raced>>

(* There is no room for another machine. *)
CreateFails(p) ==
  /\ req[p].pc = "create"
  /\ Free = {}
  /\ req' = [Spoil(req[p].fn) EXCEPT ![p].pc = "created", ![p].ok = FALSE]
  /\ UNCHANGED <<storeVars, machine, scaling, sent, asked, raced>>

DeployEnds(p) ==
  /\ At(p, {"deploy"}, "created")
  /\ Answer(p, IF req[p].ok THEN 200 ELSE 400)
  /\ UNCHANGED <<storeVars, machine, scaling, sent, asked, raced>>

InvokeCreated(p) ==
  /\ At(p, {"invoke"}, "created")
  /\ IF req[p].ok THEN Move(p, "resolve") ELSE Answer(p, 503)
  /\ UNCHANGED <<storeVars, machine, scaling, sent, asked, raced>>

(* The error of NewMachine is dropped. *)
ScaleCreated(p) ==
  /\ At(p, {"scale"}, "created")
  /\ Move(p, "scale")
  /\ UNCHANGED <<storeVars, machine, scaling, sent, asked, raced>>

(* Beside NewMachine runs StopAllMachines of function.Name, which is empty *)
(* here: it waits for the lock and stops nothing.  Both assign to one err. *)
UpdateCreated(p) ==
  /\ At(p, {"update"}, "created")
  /\ scaling.by = None
  /\ Move(p, "scale") \/ (~req[p].ok /\ Answer(p, 400))
  /\ UNCHANGED <<storeVars, machine, scaling, sent, asked, raced>>

-----------------------------------------------------------------------------
(* ScaleMachinesTo.  MachineStore has the steps of its goroutines.         *)

(* Mutant of ScaleLocks: the surplus is not compared, and wraps. *)
ScaleLocksUncompared(p) ==
  /\ req[p].pc = "scale"
  /\ scaling.by = None
  /\ scaling' = [by |-> p, grow |-> 0, shrink |-> Replicas(req[p].fn) - req[p].target]
  /\ Move(p, "scaling")
  /\ UNCHANGED <<storeVars, machine, sent, asked, raced>>

ScaleLocks(p) ==
  LET r == Replicas(req[p].fn)
      n == req[p].target
  IN
  /\ req[p].pc = "scale"
  /\ scaling.by = None
  /\ scaling' = [by |-> p, grow |-> IF r < n THEN n - r ELSE 0,
                           shrink |-> IF n < r THEN r - n ELSE 0]
  /\ Move(p, "scaling")
  /\ UNCHANGED <<storeVars, machine, sent, asked, raced>>

(* A clone takes the image of some running machine. *)
CloneMachine(p) ==
  /\ scaling.by = p
  /\ scaling.grow > 0
  /\ scaling' = [scaling EXCEPT !.grow = @ - 1]
  /\ \/ \E source \in Running(req[p].fn), m \in Free :
          /\ machine' = [machine EXCEPT ![m] = [machine[source] EXCEPT !.state = "boot",
                                                                       !.by = p]]
          /\ UNCHANGED req
     \/ Running(req[p].fn) = {} /\ UNCHANGED <<req, machine>>
     \/ Free = {} /\ req' = Spoil(req[p].fn) /\ UNCHANGED machine
  /\ UNCHANGED <<storeVars, sent, asked, raced>>

(* Two of the goroutines may take the same machine. *)
DeleteMachine(p) ==
  /\ scaling.by = p
  /\ \E workers \in 1 .. 2 :
       /\ scaling.shrink >= workers
       /\ scaling' = [scaling EXCEPT !.shrink = @ - workers]
       /\ req' = IF workers = 1 THEN req ELSE Spoil(req[p].fn)
       /\ raced' = IF workers = 1 THEN raced
                   ELSE [raced EXCEPT ![req[p].fn] = {"lost", "extra"}]
  /\ \E m \in Running(req[p].fn) : machine' = [machine EXCEPT ![m] = NoMachine]
  /\ UNCHANGED <<storeVars, sent, asked>>

ScaleEnds(p) ==
  /\ scaling.by = p
  /\ scaling.grow = 0 /\ scaling.shrink = 0 /\ Booting(p) = {}
  /\ scaling' = NotScaling
  /\ IF req[p].kind = "delete" THEN Move(p, "scaled") ELSE Answer(p, 200)
  /\ asked' = IF req[p].kind = "scale" THEN [asked EXCEPT ![req[p].fn] = req[p].target]
                                       ELSE asked
  /\ UNCHANGED <<storeVars, machine, sent, raced>>

-----------------------------------------------------------------------------
Condemn ==
  /\ "vm" \in Trouble
  /\ scaling.by = None
  /\ \E m \in Machine :
       /\ machine[m].state = "run"
       /\ machine' = [machine EXCEPT ![m] = NoMachine]
       /\ req' = Spoil(machine[m].fn)
  /\ UNCHANGED <<storeVars, scaling, sent, asked, raced>>

Restart ==
  /\ "restart" \in Trouble
  /\ StoreRestarts
  /\ req' = [p \in Proc |-> NoRequest]
  /\ machine' = [m \in Machine |-> NoMachine]
  /\ scaling' = NotScaling
  /\ asked' = [f \in Fn |-> 0]
  /\ UNCHANGED sent
  /\ raced' = [f \in Fn |-> {}]

Serve(p) ==
  \/ StoreStep(p) /\ UNCHANGED providerVars
  \/ Reject(p) \/ DeployBegins(p) \/ DeployStored(p) \/ UpdateBegins(p) \/ UpdateStored(p)
  \/ DeleteBegins(p) \/ DeleteEnds(p) \/ LoadFunction(p) \/ CountReplicas(p) \/ Resolve(p)
  \/ CreateMachine(p) \/ Booted(p) \/ BootFails(p) \/ CreateFails(p)
  \/ DeployEnds(p) \/ InvokeCreated(p) \/ ScaleCreated(p) \/ UpdateCreated(p)
  \/ ScaleLocks(p) \/ CloneMachine(p) \/ DeleteMachine(p) \/ ScaleEnds(p)

Next ==
  \/ \E p \in Proc : Receive(p) \/ Serve(p)
  \/ Condemn \/ Restart

Spec == Init /\ [][Next]_vars

-----------------------------------------------------------------------------
TypeOK ==
  /\ StoreTypeOK
  /\ req \in [Proc -> [kind : Kind \cup {"none"}, fn : Fn \cup {None},
       image : Image \cup {None}, target : Nat, held : Image \cup {None},
       pc : {"idle", "begin", "store", "create", "boot", "created", "count", "resolve",
             "scale", "scaling", "scaled"},
       ok : BOOLEAN, alone : BOOLEAN, served : BOOLEAN]]
  /\ machine \in [Machine -> [state : {"none", "boot", "run"}, fn : Fn \cup {None},
                              image : Image \cup {None}, by : Proc \cup {None}]]
  /\ scaling \in [by : Proc \cup {None}, grow : Nat, shrink : Nat]
  /\ sent \in 0 .. Requests
  /\ asked \in [Fn -> Nat]
  /\ raced \in [Fn -> SUBSET {"lost", "extra"}]

(* A request names a function, and an image when it may store one. *)
RequestFits ==
  \A p \in Proc : req[p].pc # "idle" =>
    /\ req[p].fn \in Fn
    /\ req[p].kind \in {"deploy", "update"} => req[p].image \in Image

(* ScaleMachinesTo has one caller at a time, which waits for its end. *)
ScalingFits == \A p \in Proc : scaling.by = p <=> req[p].pc = "scaling"

(* The invariant of the function store holds under the handlers: what they *)
(* do between two steps of it (deploy.go:87, update.go:55, delete.go:67)   *)
(* leaves no function and no cached image without its directory.           *)
Inductive == StoreInductive /\ RequestFits /\ ScalingFits

(* A machine that runs belongs to a function of the store and was made     *)
(* from its image, unless a deletion or an update overlapped another       *)
(* request for the function, two deployments of it overlapped, or two      *)
(* goroutines of a scale-down took the same machine: no sequence of        *)
(* separate requests (deploy.go:87, delete.go:58-67, invoke.go:34-38),     *)
(* failed or not, orphans a machine.                                       *)
ReplicasMatchStore ==
  \A m \in Machine :
    LET f == machine[m].fn IN
    machine[m].state = "run" /\ "lost" \notin raced[f] => functions[f].image = machine[m].image

(* A function has more than one replica only because a scale request asked *)
(* for it, or two requests that create machines overlapped: a cold start   *)
(* (invoke.go:35) or a scaling from zero (scale.go:58) adds a machine only *)
(* when there is none.                                                     *)
ReplicasAreAskedFor ==
  \A f \in Fn :
    \/ Replicas(f) <= 1 \/ Replicas(f) <= asked[f]
    \/ "extra" \in raced[f]
    \/ \E p \in Proc : req[p].fn = f /\ req[p].kind = "scale"

(* What a request that met no other one and no failure has done when it is *)
(* answered 200.                                                           *)
Effect(r) ==
  CASE r.kind = "deploy" -> /\ functions'[r.fn].image = r.image
                            /\ \E m \in Running(r.fn) : machine[m].image = r.image
    [] r.kind = "delete" -> functions'[r.fn] = NoFunction /\ Running(r.fn) = {}
    [] r.kind = "scale"  -> Replicas(r.fn) = r.target
    [] r.kind = "invoke" -> FunctionExists(r.fn) /\ Running(r.fn) # {}
    [] OTHER             -> FALSE

(* The handlers answer 200 at their end whatever ScaleMachinesTo (193) and *)
(* a dropped NewMachine (scale.go:59) did: for a request that overlapped   *)
(* no other one for its function and no failure the answer is true, and no *)
(* such update is ever answered 200.                                       *)
AnswersAreTrue ==
  [][\A p \in Proc :
       req[p].alone /\ req[p].pc # "idle" /\ req'[p].pc = "idle" /\ req'[p].served
         => Effect(req[p])]_vars
-----------------------------------------------------------------------------
(* What the handlers rely on between two steps, as long as nothing else    *)
(* has got in their way.                                                   *)

Path(k) ==
  {"begin"} \cup
  CASE k = "deploy" -> {"store", "create", "boot", "created"}
    [] k = "update" -> {"store", "create", "boot", "created", "scale", "scaling"}
    [] k = "scale"  -> {"count", "create", "boot", "created", "scale", "scaling"}
    [] k = "delete" -> {"scale", "scaling", "scaled"}
    [] k = "invoke" -> {"count", "create", "boot", "created", "resolve"}

Serving(p, f) == req[p].pc # "idle" /\ req[p].fn = f

(* No deletion, update or second deployment met another request for f. *)
Calm(f) == "lost" \notin raced[f]

(* Nothing happened to what p has found and made. *)
Own(p) == req[p].alone \/ Calm(req[p].fn)

(* AddFunction or UpdateFunction is about to return success, or has. *)
Stored(p) ==
  /\ req[p].pc = "store"
  /\ call[p].at = "remember" \/ (call[p].at = "idle" /\ call[p].ok)

PathFits ==
  \A p \in Proc :
    /\ req[p].pc # "idle" => req[p].kind \in Kind /\ req[p].pc \in Path(req[p].kind)
    /\ req[p].kind = "delete" => req[p].target = 0
    /\ call[p].at # "idle" => req[p].pc = "store"
    /\ req[p].pc = "store" /\ (call[p].at # "idle" \/ call[p].ok)
         => call[p].fn = req[p].fn /\ call[p].image = req[p].image

(* A machine that boots belongs to the one request that waits for it. *)
BootFits ==
  /\ \A m \in Machine :
       /\ machine[m].state # "none" => machine[m].fn \in Fn
       /\ machine[m].state = "boot" =>
            LET p == machine[m].by
            IN  p \in Proc /\ req[p].pc \in {"boot", "scaling"} /\ req[p].fn = machine[m].fn
  /\ \A p \in Proc : req[p].pc = "boot" => \A m, n \in Booting(p) : m = n

(* Two requests for one function know that they met. *)
MeetFits ==
  /\ \A f \in Fn : ~Calm(f) => "extra" \in raced[f]
  /\ \A p, q \in Proc : p # q /\ Serving(p, req[q].fn) /\ Serving(q, req[p].fn) =>
       /\ ~req[p].alone
       /\ Consequence(req[p].kind, req[q].kind) \subseteq raced[req[p].fn]

(* A function is only stored where there was none, is there as long as a   *)
(* handler works with it, and is what the handler has read.                *)
StoredFits ==
  \A p \in Proc : req[p].pc # "idle" /\ Own(p) =>
    LET f == req[p].fn
        i == functions[f].image
    IN
    /\ req[p].kind = "update" =>
         req[p].pc \in {"begin", "store"} /\ ~Stored(p) /\ call[p].at \in {"idle", "read"}
    /\ call[p].at \notin {"keep", "drop"}
    /\ call[p].at \in {"read", "resolve", "lookup", "unpack", "write", "store"} => i = None
    /\ Stored(p) => i = req[p].image
    /\ req[p].pc \in {"count", "create", "boot", "created", "resolve"} =>
         i # None /\ (req[p].kind = "deploy" => i = req[p].image)
    /\ req[p].pc \in {"count", "create"} => i = req[p].held

(* A machine, booting or not, was made from the function in the store. *)
MachinesFit ==
  \A m \in Machine :
    LET f == machine[m].fn IN
    machine[m].state # "none" /\ Calm(f) =>
      machine[m].image # None /\ functions[f].image = machine[m].image

(* A deletion takes them all. *)
DeleteFits ==
  \A p \in Proc : req[p].kind = "delete" /\ Own(p) =>
    /\ req[p].pc = "scaling" =>
         scaling.grow = 0 /\ Booting(p) = {} /\ Replicas(req[p].fn) <= scaling.shrink
    /\ req[p].pc = "scaled" => Running(req[p].fn) = {}

(* A machine is created where there is none. *)
AskedFits ==
  \A f \in Fn : "extra" \notin raced[f] =>
    /\ \A p \in Proc : Serving(p, f) =>
         /\ Stored(p) \/ req[p].pc \in {"create", "boot"} => Running(f) = {}
         /\ req[p].kind = "scale" /\ req[p].pc = "scaling" =>
              Replicas(f) + Cardinality(Booting(p)) + scaling.grow
                <= req[p].target + scaling.shrink
    /\ (\A p \in Proc : Serving(p, f) /\ req[p].kind = "scale" => req[p].pc = "begin")
         => Replicas(f) <= 1 \/ Replicas(f) <= asked[f]

(* What a request has made is still there. *)
AnswersFit ==
  \A p \in Proc : req[p].pc # "idle" /\ req[p].alone =>
    LET f == req[p].fn
        Here == {m \in Running(f) : req[p].kind = "deploy" => machine[m].image = req[p].image}
    IN
    /\ req[p].kind = "deploy" /\ req[p].pc = "boot" =>
         \A m \in Booting(p) : machine[m].image = req[p].image
    /\ req[p].kind = "deploy" /\ req[p].pc = "create" => req[p].held = req[p].image
    /\ req[p].ok
    /\ req[p].pc = "created" \/ req[p].pc = "resolve"
         \/ (req[p].kind = "scale" /\ req[p].pc = "scale") => Here # {}
    /\ req[p].kind = "scale" /\ req[p].pc = "scaling" =>
         /\ Replicas(f) + Cardinality(Booting(p)) + scaling.grow = req[p].target + scaling.shrink
         /\ scaling.grow > 0 => scaling.shrink = 0 /\ Running(f) # {}

(* What a handler has put into the stores or found there is still there at *)
(* its next step (deploy.go:87-95, update.go:54-84, scale.go:57-61,        *)
(* delete.go:58-67 and invoke.go:34-44 hold no lock from one call to the   *)
(* next), up to what other requests for the function and failures undo.    *)
HandlersFit ==
  /\ PathFits /\ BootFits /\ MeetFits /\ StoredFits /\ MachinesFit /\ DeleteFits
  /\ AskedFits /\ AnswersFit
=============================================================================
