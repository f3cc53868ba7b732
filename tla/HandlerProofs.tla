---------------------------- MODULE HandlerProofs ----------------------------
(***************************************************************************)
(* Theorems about the request handlers, for any functions, images,         *)
(* requests and failures: what they leave running is what is stored, and   *)
(* no more than was asked for; what they answer is what they did.          *)
(***************************************************************************)
EXTENDS ProviderProofs

Base == TypeOK /\ Inductive

(* The request of q is the one it was. *)
SameRequest(q) ==
  /\ req'[q].kind = req[q].kind /\ req'[q].fn = req[q].fn
  /\ req'[q].image = req[q].image /\ req'[q].target = req[q].target
  /\ req'[q].alone => req[q].alone

Stays(q) ==
  /\ SameRequest(q)
  /\ req'[q].pc = req[q].pc /\ req'[q].held = req[q].held /\ req'[q].ok = req[q].ok

Comes(p, pc, held, ok) ==
  SameRequest(p) /\ req'[p].pc = pc /\ req'[p].held = held /\ req'[p].ok = ok

Leaves(p) == req'[p].pc = "idle" /\ req'[p].kind = "none"

Others(p) == \A q \in Proc \ {p} : req'[q] = req[q]

Disturbed(f) == \A q \in Proc : req[q].fn = f => ~req'[q].alone

-----------------------------------------------------------------------------
(* What the moves of a request do to it and to the others. *)

LEMMA AnswerFacts ==
  ASSUME ReqOK, NEW p \in Proc, NEW code \in Nat, Answer(p, code)
  PROVE  Leaves(p) /\ Others(p) /\ (req'[p].served <=> code = 200)
<1>1. /\ [NoRequest EXCEPT !.served = (code = 200)].pc = "idle"
      /\ [NoRequest EXCEPT !.served = (code = 200)].kind = "none"
      /\ [NoRequest EXCEPT !.served = (code = 200)].served <=> (code = 200)
  BY DEF NoRequest
<1>2. req'[p] = [NoRequest EXCEPT !.served = (code = 200)] /\ Others(p)
  BY DEF ReqOK, Answer, Others
<1> QED
  BY <1>1, <1>2 DEF Leaves

LEMMA MoveFacts ==
  ASSUME ReqOK, NEW p \in Proc, NEW pc, Move(p, pc)
  PROVE  Comes(p, pc, req[p].held, req[p].ok) /\ Others(p) /\ req'[p].alone = req[p].alone
  BY DEF ReqOK, Move, Reqs, Comes, SameRequest, Others

LEMMA NoteFacts ==
  ASSUME ReqOK, NEW p \in Proc, NEW pc, NEW i, Note(p, pc, i)
  PROVE  Comes(p, pc, i, req[p].ok) /\ Others(p) /\ req'[p].alone = req[p].alone
  BY DEF ReqOK, Note, Reqs, Comes, SameRequest, Others

LEMMA OthersStay ==
  ASSUME NEW p, Others(p) PROVE \A q \in Proc \ {p} : Stays(q)
  BY DEF Others, Stays, SameRequest

LEMMA SpoilFacts ==
  ASSUME ReqOK, NEW f
  PROVE  \A q \in Proc :
           LET r == Spoil(f)[q] IN
           /\ r \in Reqs
           /\ r.kind = req[q].kind /\ r.fn = req[q].fn /\ r.image = req[q].image
           /\ r.target = req[q].target /\ r.pc = req[q].pc /\ r.held = req[q].held
           /\ r.ok = req[q].ok /\ (r.alone => req[q].alone)
           /\ req[q].fn = f => ~r.alone
  BY DEF ReqOK, Spoil, Reqs

LEMMA SpoiledStay ==
  ASSUME ReqOK, NEW f, req' = Spoil(f)
  PROVE  Disturbed(f) /\ \A q \in Proc : Stays(q)
  BY SpoilFacts DEF Disturbed, Stays, SameRequest

LEMMA SpoiltFacts ==
  ASSUME ReqOK, NEW p \in Proc, Spoilt(p)
  PROVE  /\ Comes(p, "created", req[p].held, FALSE) /\ Disturbed(req[p].fn)
         /\ \A q \in Proc \ {p} : Stays(q)
<1> DEFINE s == Spoil(req[p].fn)
           r == [s[p] EXCEPT !.pc = "created", !.ok = FALSE]
<1>1. /\ s \in [Proc -> Reqs]
      /\ \A q \in Proc :
           /\ s[q].kind = req[q].kind /\ s[q].fn = req[q].fn /\ s[q].image = req[q].image
           /\ s[q].target = req[q].target /\ s[q].pc = req[q].pc /\ s[q].held = req[q].held
           /\ s[q].ok = req[q].ok /\ (s[q].alone => req[q].alone)
           /\ req[q].fn = req[p].fn => ~s[q].alone
  BY SpoilTypes, SpoilFacts
<1>2. req' = [s EXCEPT ![p] = r]
  BY <1>1 DEF Spoilt
<1> HIDE DEF s
<1>3. /\ r.kind = s[p].kind /\ r.fn = s[p].fn /\ r.image = s[p].image /\ r.target = s[p].target
      /\ r.pc = "created" /\ r.held = s[p].held /\ r.ok = FALSE /\ r.alone = s[p].alone
  BY <1>1 DEF Reqs
<1> HIDE DEF r
<1>4. req'[p] = r /\ \A q \in Proc \ {p} : req'[q] = s[q]
  BY <1>1, <1>2
<1> QED
  BY <1>1, <1>3, <1>4 DEF Comes, Disturbed, Stays, SameRequest

-----------------------------------------------------------------------------
(* What a step of p leaves of the other requests, and of its own. *)

Frame(p) ==
  /\ \A q \in Proc \ {p} : Stays(q) /\ call'[q] = call[q]
  /\ SameRequest(p) \/ Leaves(p)
  /\ req[p].pc = "idle" => req'[p].pc = "idle"
  /\ \A f \in Fn : /\ raced[f] \subseteq raced'[f]
                   /\ "lost" \in raced'[f] => "lost" \in raced[f] \/ "extra" \in raced'[f]

LEMMA StoreStepFrame ==
  ASSUME Base, NEW p \in Proc, StoreStep(p)
  PROVE  \A q \in Proc \ {p} : call'[q] = call[q]
<1> DEFINE Only == \A q \in Proc \ {p} : call'[q] = call[q]
<1>1. ASSUME NEW s, Goto(p, s) PROVE Only
  BY <1>1 DEF Base, TypeOK, StoreTypeOK, Goto
<1>2. ASSUME NEW ok, Return(p, ok) PROVE Only
  BY <1>2 DEF Base, TypeOK, StoreTypeOK, Return
<1>3. CASE CheckAbsent(p) \/ ImageCached(p) \/ ImageMissing(p) \/ UnpackEnds(p) \/ PullFails(p)
  BY <1>1, <1>2, <1>3 DEF CheckAbsent, ImageCached, ImageMissing, UnpackEnds, PullFails
<1>4. CASE StoreImage(p) \/ UpdateKeeps(p) \/ UpdateDrops(p)
  BY <1>1, <1>2, <1>4 DEF StoreImage, UpdateKeeps, UpdateDrops
<1>5. CASE ResolveManifest(p)
  BY <1>2, <1>5 DEF ResolveManifest, Base, TypeOK, StoreTypeOK
<1>6. CASE UnpackBegins(p)
  BY <1>6 DEF UnpackBegins, Base, TypeOK, StoreTypeOK
<1>7. CASE StoreFunction(p)
  BY <1>7 DEF StoreFunction, Base, TypeOK, StoreTypeOK
<1>8. CASE UpdateReads(p)
  BY <1>1, <1>2, <1>8 DEF UpdateReads, Base, TypeOK, StoreTypeOK
<1> QED
  BY <1>3, <1>4, <1>5, <1>6, <1>7, <1>8 DEF StoreStep

LEMMA EnterForget ==
  ASSUME Base, NEW p \in Proc
  PROVE  /\ \A s, f, i : Enter(p, s, f, i) => \A q \in Proc \ {p} : call'[q] = call[q]
         /\ Forget(p) => \A q \in Proc \ {p} : call'[q] = call[q]
  BY DEF Base, TypeOK, StoreTypeOK, Enter, Forget

LEMMA BaseFacts == Base => ReqOK /\ ScalingFits /\ raced \in [Fn -> SUBSET {"lost", "extra"}]
  BY Types DEF Base, Inductive, ReqOK

(* Nobody serves without a request. *)
LEMMA ServeBusy ==
  ASSUME Base, NEW p \in Proc, Serve(p)
  PROVE  req[p].pc # "idle" \/ (StoreStep(p) /\ UNCHANGED req)
<1>1. CASE Reject(p) \/ DeployBegins(p) \/ DeployStored(p) \/ UpdateBegins(p) \/ UpdateStored(p)
  BY <1>1 DEF Reject, DeployBegins, DeployStored, UpdateBegins, UpdateStored, At
<1>2. CASE DeleteBegins(p) \/ DeleteEnds(p) \/ LoadFunction(p) \/ CountReplicas(p) \/ Resolve(p)
  BY <1>2 DEF DeleteBegins, DeleteEnds, LoadFunction, CountReplicas, Resolve, At
<1>3. CASE CreateMachine(p) \/ Booted(p) \/ BootFails(p) \/ CreateFails(p)
  BY <1>3 DEF CreateMachine, Booted, BootFails, CreateFails
<1>4. CASE DeployEnds(p) \/ InvokeCreated(p) \/ ScaleCreated(p) \/ UpdateCreated(p)
  BY <1>4 DEF DeployEnds, InvokeCreated, ScaleCreated, UpdateCreated, At
<1>5. CASE ScaleLocks(p)
  BY <1>5 DEF ScaleLocks
<1>6. CASE CloneMachine(p) \/ DeleteMachine(p) \/ ScaleEnds(p)
  BY <1>6, BaseFacts DEF CloneMachine, DeleteMachine, ScaleEnds, ScalingFits
<1>7. CASE StoreStep(p) /\ UNCHANGED providerVars
  BY <1>7 DEF providerVars
<1> QED
  BY <1>1, <1>2, <1>3, <1>4, <1>5, <1>6, <1>7 DEF Serve

LEMMA ServeFrame == ASSUME Base, NEW p \in Proc, Serve(p) PROVE Frame(p)
<1> USE BaseFacts
<1>0. req[p].pc = "idle" => req'[p].pc = "idle" \/ UNCHANGED req
  BY ServeBusy
<1>1. ASSUME UNCHANGED raced,
             \A q \in Proc \ {p} : Stays(q) /\ call'[q] = call[q],
             SameRequest(p) \/ Leaves(p)
      PROVE  Frame(p)
  BY <1>0, <1>1 DEF Frame
<1>2. ASSUME UNCHANGED <<call, raced>>, Others(p), SameRequest(p) \/ Leaves(p) PROVE Frame(p)
  BY <1>1, <1>2, OthersStay
<1>3. ASSUME UNCHANGED raced, \A q \in Proc \ {p} : call'[q] = call[q], Others(p),
             SameRequest(p) \/ Leaves(p)
      PROVE  Frame(p)
  BY <1>1, <1>3, OthersStay
<1>4. ASSUME NEW code \in Nat, Answer(p, code) PROVE Leaves(p) /\ Others(p)
  BY <1>4, AnswerFacts
<1>5. ASSUME NEW pc, Move(p, pc) PROVE SameRequest(p) /\ Others(p)
  BY <1>5, MoveFacts DEF Comes
<1>6. ASSUME NEW pc, NEW i, Note(p, pc, i) PROVE SameRequest(p) /\ Others(p)
  BY <1>6, NoteFacts DEF Comes
<1>7. ASSUME Spoilt(p), UNCHANGED <<call, raced>> PROVE Frame(p)
  BY <1>1, <1>7, SpoiltFacts DEF Comes
<1>8. ASSUME NEW f, req' = Spoil(f) PROVE \A q \in Proc : Stays(q)
  BY <1>8, SpoiledStay
<1>9. CASE StoreStep(p) /\ UNCHANGED providerVars
  <2>1. \A q \in Proc : Stays(q)
    BY <1>9 DEF providerVars, Stays, SameRequest
  <2> QED
    BY <1>1, <1>9, <2>1, StoreStepFrame DEF providerVars, Stays
<1>10. CASE Reject(p) \/ DeleteBegins(p) \/ DeleteEnds(p) \/ Resolve(p)
  BY <1>2, <1>4, <1>5, <1>10 DEF Reject, DeleteBegins, DeleteEnds, Resolve, storeVars, DeleteFunction
<1>11. CASE DeployBegins(p) \/ UpdateBegins(p)
  BY <1>3, <1>4, <1>5, <1>11, EnterForget DEF DeployBegins, UpdateBegins
<1>12. CASE DeployStored(p)
  <2>1. Note(p, "create", call[p].image) \/ Answer(p, 400)
    BY <1>12 DEF DeployStored, Note
  <2> QED
    BY <1>3, <1>4, <1>6, <1>12, <2>1, EnterForget DEF DeployStored
<1>13. CASE UpdateStored(p)
  <2>1. Note(p, "create", call[p].image) \/ Note(p, "scale", None) \/ Answer(p, 400)
    BY <1>13 DEF UpdateStored, Note, Base, TypeOK, StoreTypeOK
  <2> QED
    BY <1>3, <1>4, <1>6, <1>13, <2>1, EnterForget DEF UpdateStored
<1>14. CASE LoadFunction(p)
  <2>1. \/ Note(p, "count", functions[req[p].fn].image)
        \/ Answer(p, 404) \/ Answer(p, 503)
    BY <1>14 DEF LoadFunction, Note
  <2> QED
    BY <1>2, <1>4, <1>6, <1>14, <2>1 DEF LoadFunction, storeVars
<1>15. CASE CountReplicas(p)
  <2>1. Move(p, "create") \/ Note(p, "scale", None) \/ Note(p, "resolve", None)
    BY <1>15 DEF CountReplicas, Move, Note
  <2> QED
    BY <1>2, <1>5, <1>6, <1>15, <2>1 DEF CountReplicas, storeVars
<1>16. CASE CreateMachine(p)
  <2>1. Note(p, "boot", None)
    BY <1>16 DEF CreateMachine, Note
  <2> QED
    BY <1>2, <1>6, <1>16, <2>1 DEF CreateMachine, storeVars
<1>17. CASE Booted(p)
  BY <1>2, <1>5, <1>17 DEF Booted, storeVars
<1>18. CASE BootFails(p)
  <2>1. Spoilt(p) \/ req' = Spoil(req[p].fn)
    BY <1>18 DEF BootFails, Spoilt
  <2>2. UNCHANGED <<call, raced>>
    BY <1>18 DEF BootFails, storeVars
  <2> QED
    BY <1>1, <1>7, <1>8, <2>1, <2>2 DEF Stays
<1>19. CASE CreateFails(p)
  BY <1>7, <1>19 DEF CreateFails, Spoilt, storeVars
<1>20. CASE DeployEnds(p) \/ InvokeCreated(p) \/ ScaleCreated(p)
  BY <1>2, <1>4, <1>5, <1>20 DEF DeployEnds, InvokeCreated, ScaleCreated, storeVars
<1>21. CASE UpdateCreated(p) \/ ScaleLocks(p) \/ ScaleEnds(p)
  BY <1>2, <1>4, <1>5, <1>21 DEF UpdateCreated, ScaleLocks, ScaleEnds, storeVars
<1>22. CASE CloneMachine(p)
  <2>1. UNCHANGED req \/ req' = Spoil(req[p].fn)
    BY <1>22 DEF CloneMachine
  <2>2. UNCHANGED <<call, raced>>
    BY <1>22 DEF CloneMachine, storeVars
  <2>3. \A q \in Proc : Stays(q)
    BY <1>8, <2>1 DEF Stays, SameRequest
  <2> QED
    BY <1>1, <2>2, <2>3 DEF Stays
<1>23. CASE DeleteMachine(p)
  <2>1. UNCHANGED req \/ req' = Spoil(req[p].fn)
    BY <1>23 DEF DeleteMachine
  <2>2. UNCHANGED call
    BY <1>23 DEF DeleteMachine, storeVars
  <2>3. \A q \in Proc : Stays(q)
    BY <1>8, <2>1 DEF Stays, SameRequest
  <2>4. raced' = raced \/ raced' = [raced EXCEPT ![req[p].fn] = {"lost", "extra"}]
    BY <1>23 DEF DeleteMachine
  <2>5. \A f \in Fn : /\ raced[f] \subseteq raced'[f]
                      /\ "lost" \in raced'[f] => "lost" \in raced[f] \/ "extra" \in raced'[f]
    BY <2>4
  <2> QED
    BY <1>0, <2>2, <2>3, <2>5 DEF Frame, Stays
<1> QED
  BY <1>9, <1>10, <1>11, <1>12, <1>13, <1>14, <1>15, <1>16, <1>17, <1>18, <1>19, <1>20,
     <1>21, <1>22, <1>23 DEF Serve

(* What a new request finds. *)
Unused(p, f) == /\ ~FunctionExists(f)
                /\ \A q \in Proc \ {p} : req[q].fn # f
                /\ \A m \in Machine : machine[m].fn # f

(* A request of kind k for f comes to p. *)
Arrival(p, k, f) ==
  /\ req[p].pc = "idle"
  /\ req'[p].kind = k /\ req'[p].fn = f /\ req'[p].pc = "begin"
  /\ req'[p].alone <=> \A q \in Proc \ {p} : req[q].fn # f
  /\ req'[p].ok /\ (k = "delete" => req'[p].target = 0)
  /\ \A q \in Proc \ {p} : Stays(q) /\ (req[q].fn = f => ~req'[q].alone)
  /\ \A g \in Fn \ {f} : raced'[g] = raced[g] /\ asked'[g] = asked[g]
  /\ \/ raced[f] \subseteq raced'[f] /\ asked'[f] = asked[f]
     \/ Unused(p, f)
  /\ \A q \in Proc \ {p} : req[q].fn = f => Consequence(k, req[q].kind) \subseteq raced'[f]
  /\ "lost" \in raced'[f] =>
       "extra" \in raced'[f] \/ ("lost" \in raced[f] /\ raced[f] \subseteq raced'[f])
  /\ UNCHANGED <<storeVars, machine, scaling>>

LEMMA ReceiveFacts ==
  ASSUME Base, NEW p \in Proc, Receive(p)
  PROVE  \E k \in Kind, f \in Fn : Arrival(p, k, f)
<1> USE BaseFacts
<1>1. PICK k \in Kind, f \in Fn, i \in Image \cup {None}, n \in Target \cup {0} :
        LET others == {q \in Proc \ {p} : req[q].fn = f}
            unused == /\ ~FunctionExists(f) /\ others = {}
                      /\ \A m \in Machine : machine[m].fn # f
        IN
        /\ req[p].pc = "idle"
        /\ sent < Requests
        /\ sent' = sent + 1
        /\ i = None <=> k \notin {"deploy", "update"}
        /\ IF k = "scale" THEN n \in Target ELSE n = 0
        /\ req' = [q \in Proc |->
                IF q = p THEN NewRequest(k, f, i, n, others = {}) ELSE Spoil(f)[q]]
        /\ asked' = IF unused THEN [asked EXCEPT ![f] = 0] ELSE asked
        /\ raced' = [raced EXCEPT ![f] = (IF unused THEN {} ELSE @)
                        \cup Consequences(k, others)]
        /\ UNCHANGED <<storeVars, machine, scaling>>
  BY Zenon DEF Receive
<1> DEFINE others == {q \in Proc \ {p} : req[q].fn = f}
           unused == /\ ~FunctionExists(f) /\ others = {}
                     /\ \A m \in Machine : machine[m].fn # f
           r == NewRequest(k, f, i, n, others = {})
<1>2. req' = [q \in Proc |-> IF q = p THEN r ELSE Spoil(f)[q]]
  BY <1>1
<1>3. /\ r.kind = k /\ r.fn = f /\ r.pc = "begin" /\ r.target = n /\ r.ok
      /\ r.alone <=> others = {}
  BY DEF NewRequest
<1>4. unused => Unused(p, f)
  BY DEF Unused
<1>5. \A q \in others : Consequence(k, req[q].kind) \subseteq Consequences(k, others)
  BY DEF Consequences
<1>6. "lost" \in Consequences(k, others) => "extra" \in Consequences(k, others)
  BY DEF Consequences, Consequence
<1>7. req[p].pc = "idle" /\ UNCHANGED <<storeVars, machine, scaling>>
  BY DEF Receive
<1>8. /\ raced' = [raced EXCEPT ![f] = (IF unused THEN {} ELSE @) \cup Consequences(k, others)]
      /\ asked' = IF unused THEN [asked EXCEPT ![f] = 0] ELSE asked
      /\ k = "delete" => n = 0
  BY <1>1
<1>9. asked \in [Fn -> Nat]
  BY DEF Base, TypeOK
<1> HIDE DEF r, unused
<1>10. \A q \in Proc \ {p} : Stays(q) /\ (req[q].fn = f => ~req'[q].alone)
  BY <1>2, SpoilFacts DEF Stays, SameRequest
<1>11. req'[p] = r
  BY <1>2
<1>12. \A g \in Fn \ {f} : raced'[g] = raced[g] /\ asked'[g] = asked[g]
  BY <1>8, <1>9
<1>13. raced'[f] = (IF unused THEN {} ELSE raced[f]) \cup Consequences(k, others)
  BY <1>8
<1>14. \/ raced[f] \subseteq raced'[f] /\ asked'[f] = asked[f]
       \/ Unused(p, f)
  BY <1>4, <1>8, <1>13
<1>15. "lost" \in raced'[f] =>
         "extra" \in raced'[f] \/ ("lost" \in raced[f] /\ raced[f] \subseteq raced'[f])
  BY <1>6, <1>13
<1>16. \A q \in Proc \ {p} : req[q].fn = f => Consequence(k, req[q].kind) \subseteq raced'[f]
  BY <1>5, <1>13
<1>17. Arrival(p, k, f)
  BY <1>3, <1>7, <1>8, <1>10, <1>11, <1>12, <1>14, <1>15, <1>16 DEF Arrival
<1> QED
  BY <1>17

-----------------------------------------------------------------------------
(* Requests for one function know that they met. *)

LEMMA Symmetric ==
  ASSUME NEW a, NEW b PROVE Consequence(a, b) = Consequence(b, a)
<1>1. {a, b} = {b, a}
  OBVIOUS
<1> QED
  BY <1>1 DEF Consequence

LEMMA MeetStep == ASSUME Base, MeetFits, [Next]_vars PROVE MeetFits'
<1> USE BaseFacts DEF MeetFits, Calm, Serving
<1>0. \A q \in Proc : req[q].pc # "idle" => req[q].fn \in Fn
  BY DEF Base, Inductive, RequestFits
<1>1. ASSUME NEW p \in Proc, Receive(p) PROVE MeetFits'
  <2>1. PICK k \in Kind, f \in Fn : Arrival(p, k, f)
    BY <1>1, ReceiveFacts
  <2>2. \A g \in Fn : "lost" \in raced'[g] => "extra" \in raced'[g]
    BY <2>1 DEF Arrival, Unused
  <2>3. ASSUME NEW q \in Proc, NEW s \in Proc, q # s, Serving(q, req[s].fn)', Serving(s, req[q].fn)'
        PROVE  ~req'[q].alone /\ Consequence(req'[q].kind, req'[s].kind) \subseteq raced'[req'[q].fn]
    <3>1. CASE q = p
      BY <2>1, <2>3, <3>1 DEF Arrival, Stays, SameRequest
    <3>2. CASE s = p
      BY <2>1, <2>3, <3>2, Symmetric DEF Arrival, Stays, SameRequest
    <3>3. CASE q # p /\ s # p
      <4>1. Stays(q) /\ Stays(s)
        BY <2>1, <3>3 DEF Arrival
      <4>2. /\ req[q].fn \in Fn /\ req[q].fn = req[s].fn /\ ~req[q].alone
            /\ Consequence(req[q].kind, req[s].kind) \subseteq raced[req[q].fn]
        BY <1>0, <2>3, <4>1 DEF Stays, SameRequest
      <4>3. raced[req[q].fn] \subseteq raced'[req[q].fn]
        BY <2>1, <3>3, <4>2 DEF Arrival, Unused
      <4> QED
        BY <4>1, <4>2, <4>3 DEF Stays, SameRequest
    <3> QED
      BY <3>1, <3>2, <3>3
  <2> QED
    BY <2>2, <2>3
<1>2. ASSUME NEW p \in Proc, Frame(p) PROVE MeetFits'
  <2>1. \A g \in Fn : "lost" \in raced'[g] => "extra" \in raced'[g]
    BY <1>2 DEF Frame
  <2>2. \A q \in Proc : req'[q].pc # "idle" => req[q].pc # "idle" /\ SameRequest(q)
    BY <1>2 DEF Frame, Stays, Leaves
  <2>3. ASSUME NEW q \in Proc, NEW s \in Proc, q # s, Serving(q, req[s].fn)', Serving(s, req[q].fn)'
        PROVE  ~req'[q].alone /\ Consequence(req'[q].kind, req'[s].kind) \subseteq raced'[req'[q].fn]
    <3>1. SameRequest(q) /\ SameRequest(s) /\ req[q].pc # "idle" /\ req[s].pc # "idle"
      BY <2>2, <2>3
    <3>2. /\ req[q].fn \in Fn /\ req[q].fn = req[s].fn /\ ~req[q].alone
          /\ Consequence(req[q].kind, req[s].kind) \subseteq raced[req[q].fn]
      BY <1>0, <2>3, <3>1 DEF SameRequest
    <3>3. raced[req[q].fn] \subseteq raced'[req[q].fn]
      BY <1>2, <3>2 DEF Frame
    <3> QED
      BY <3>1, <3>2, <3>3 DEF SameRequest
  <2> QED
    BY <2>1, <2>3
<1>3. CASE Condemn
  <2>1. PICK f : req' = Spoil(f)
    BY <1>3 DEF Condemn
  <2>2. \A q \in Proc : Stays(q)
    BY <2>1, SpoiledStay
  <2> QED
    BY <1>3, <2>2 DEF Condemn, Stays, SameRequest
<1>4. CASE Restart
  BY <1>4 DEF Restart, NoRequest
<1>5. CASE UNCHANGED vars
  BY <1>5 DEF vars, providerVars
<1> QED
  BY <1>1, <1>2, <1>3, <1>4, <1>5, ServeFrame DEF Next

-----------------------------------------------------------------------------
(* Requests keep to their handlers. *)

PathOf(p) ==
  /\ req[p].pc # "idle" => req[p].kind \in Kind /\ req[p].pc \in Path(req[p].kind)
  /\ req[p].kind = "delete" => req[p].target = 0
  /\ call[p].at # "idle" => req[p].pc = "store"
  /\ req[p].pc = "store" /\ (call[p].at # "idle" \/ call[p].ok)
       => call[p].fn = req[p].fn /\ call[p].image = req[p].image

LEMMA StoreStepCall ==
  ASSUME Base, NEW p \in Proc, StoreStep(p)
  PROVE  /\ call[p].at # "idle"
         /\ \/ call'[p].fn = call[p].fn /\ call'[p].image = call[p].image
            \/ call'[p].at = "idle" /\ ~call'[p].ok
<1> DEFINE Fine == \/ call'[p].fn = call[p].fn /\ call'[p].image = call[p].image
                   \/ call'[p].at = "idle" /\ ~call'[p].ok
<1> USE DEF Calls
<1>0. call \in [Proc -> Calls]
  BY DEF Base, TypeOK, StoreTypeOK
<1>1. ASSUME NEW s, Goto(p, s) PROVE Fine
  BY <1>0, <1>1 DEF Goto
<1>2. ASSUME NEW ok, Return(p, ok) PROVE Fine
  BY <1>0, <1>2 DEF Return, NoCall
<1>3. CASE CheckAbsent(p) \/ ImageCached(p) \/ ImageMissing(p) \/ UnpackEnds(p) \/ PullFails(p)
  BY <1>1, <1>2, <1>3 DEF CheckAbsent, ImageCached, ImageMissing, UnpackEnds, PullFails
<1>4. CASE StoreImage(p) \/ UpdateKeeps(p) \/ UpdateDrops(p)
  BY <1>1, <1>2, <1>4 DEF StoreImage, UpdateKeeps, UpdateDrops
<1>5. CASE ResolveManifest(p)
  BY <1>0, <1>2, <1>5 DEF ResolveManifest
<1>6. CASE UnpackBegins(p)
  BY <1>0, <1>6 DEF UnpackBegins
<1>7. CASE StoreFunction(p)
  BY <1>0, <1>7 DEF StoreFunction
<1>8. CASE UpdateReads(p)
  <2>1. \/ Return(p, FALSE) \/ Goto(p, "drop")
        \/ \E d : call' = [call EXCEPT ![p].at = "keep", ![p].digest = d]
    BY <1>8 DEF UpdateReads
  <2>2. ASSUME NEW d, call' = [call EXCEPT ![p].at = "keep", ![p].digest = d] PROVE Fine
    BY <1>0, <2>2
  <2>3. call[p].at # "idle"
    BY <1>8 DEF UpdateReads
  <2> QED
    BY <1>1, <1>2, <2>1, <2>2, <2>3
<1> QED
  BY <1>3, <1>4, <1>5, <1>6, <1>7, <1>8 DEF StoreStep

LEMMA EnterFacts ==
  ASSUME Base, NEW p \in Proc, NEW s, NEW f, NEW i, Enter(p, s, f, i)
  PROVE  /\ call[p].at = "idle"
         /\ call'[p].at = s /\ call'[p].fn = f /\ call'[p].image = i /\ call'[p].ok = TRUE
<1>1. LET c == [NoCall EXCEPT !.at = s, !.fn = f, !.image = i] IN
      c.at = s /\ c.fn = f /\ c.image = i /\ c.ok = TRUE
  BY DEF NoCall
<1> QED
  BY <1>1 DEF Base, TypeOK, StoreTypeOK, Enter

LEMMA ForgetFacts ==
  ASSUME Base, NEW p \in Proc, Forget(p) PROVE call'[p] = NoCall /\ call'[p].at = "idle"
  BY DEF Base, TypeOK, StoreTypeOK, Forget, NoCall

LEMMA PathStep == ASSUME Base, PathFits, [Next]_vars PROVE PathFits'
<1> USE BaseFacts
<1>0. \A q \in Proc : PathOf(q)
  BY DEF PathFits, PathOf
<1>1. ASSUME NEW p \in Proc, \A q \in Proc \ {p} : Stays(q) /\ call'[q] = call[q], PathOf(p)'
      PROVE  PathFits'
  BY <1>0, <1>1 DEF PathFits, PathOf, Stays, SameRequest
<1>2. ASSUME NEW p \in Proc, Receive(p) PROVE PathFits'
  <2>1. PICK k \in Kind, f \in Fn : Arrival(p, k, f)
    BY <1>2, ReceiveFacts
  <2>2. UNCHANGED call /\ call[p].at = "idle"
    BY <1>0, <2>1 DEF Arrival, PathOf, storeVars
  <2> QED
    BY <1>1, <2>1, <2>2 DEF Arrival, PathOf, Path
<1>3. ASSUME NEW p \in Proc, Serve(p) PROVE PathFits'
  <2>1. SUFFICES PathOf(p)'
    BY <1>1, <1>3, ServeFrame DEF Frame
  <2>2. PathOf(p)
    BY <1>0
  <2> USE DEF PathOf
  <2>3. ASSUME NEW code \in Nat, Answer(p, code), call'[p].at = "idle" PROVE PathOf(p)'
    BY <2>3, AnswerFacts DEF Leaves
  <2>4. ASSUME NEW pc, Move(p, pc) \/ (\E i : Note(p, pc, i)), pc # "store", call'[p].at = "idle",
               req[p].pc # "idle", pc \in Path(req[p].kind)
        PROVE  PathOf(p)'
    BY <2>2, <2>4, MoveFacts, NoteFacts DEF Comes, SameRequest
  <2>5. ASSUME NEW c \in Kind, NEW pc, At(p, {c}, pc), pc # "store", UNCHANGED call
        PROVE  call'[p].at = "idle" /\ req[p].kind = c /\ req[p].pc = pc
    BY <2>2, <2>5 DEF At
  <2>6. CASE StoreStep(p) /\ UNCHANGED providerVars
    BY <2>2, <2>6, StoreStepCall DEF providerVars
  <2> USE DEF At, Kind, Path
  <2>7. CASE Reject(p)
    BY <2>2, <2>3, <2>7 DEF Reject, storeVars
  <2>8. CASE DeployBegins(p)
    <3>1. /\ Enter(p, "check", req[p].fn, req[p].image) /\ Move(p, "store")
          /\ req[p].kind = "deploy" /\ req[p].pc = "begin"
      BY <2>8 DEF DeployBegins
    <3>2. call'[p].fn = req[p].fn /\ call'[p].image = req[p].image
      <4>1. PICK f, i : f = req[p].fn /\ i = req[p].image
        OBVIOUS
      <4>2. Enter(p, "check", f, i)
        BY <3>1, <4>1 DEF Enter
      <4> QED
        BY <4>1, <4>2, EnterFacts
    <3>3. SameRequest(p) /\ req'[p].pc = "store"
      BY <3>1, MoveFacts DEF Comes
    <3> QED
      BY <3>1, <3>2, <3>3 DEF SameRequest
  <2>9. CASE DeployStored(p)
    <3>1. Note(p, "create", call[p].image) \/ Answer(p, 400)
      BY <2>9 DEF DeployStored, Note
    <3>2. call'[p].at = "idle"
      BY <2>9, ForgetFacts DEF DeployStored
    <3> QED
      BY <2>3, <2>4, <2>9, <3>1, <3>2 DEF DeployStored
  <2>10. CASE UpdateBegins(p)
    <3>1. CASE FunctionExists(req[p].fn)
      BY <2>2, <2>3, <2>10, <3>1 DEF UpdateBegins
    <3>2. CASE ~FunctionExists(req[p].fn)
      <4>1. /\ Enter(p, "read", req[p].fn, req[p].image) /\ Move(p, "store")
            /\ req[p].kind = "update" /\ req[p].pc = "begin"
        BY <2>10, <3>2 DEF UpdateBegins
      <4>2. call'[p].fn = req[p].fn /\ call'[p].image = req[p].image
        <5>1. PICK f, i : f = req[p].fn /\ i = req[p].image
          OBVIOUS
        <5>2. Enter(p, "read", f, i)
          BY <4>1, <5>1 DEF Enter
        <5> QED
          BY <5>1, <5>2, EnterFacts
      <4>3. SameRequest(p) /\ req'[p].pc = "store"
        BY <4>1, MoveFacts DEF Comes
      <4> QED
        BY <4>1, <4>2, <4>3 DEF SameRequest
    <3> QED
      BY <3>1, <3>2
  <2>11. CASE UpdateStored(p)
    <3>1. Note(p, "create", call[p].image) \/ Note(p, "scale", None) \/ Answer(p, 400)
      BY <2>11 DEF UpdateStored, Note, Base, TypeOK, StoreTypeOK
    <3>2. call'[p].at = "idle"
      BY <2>11, ForgetFacts DEF UpdateStored
    <3> QED
      BY <2>3, <2>4, <2>11, <3>1, <3>2 DEF UpdateStored
  <2>12. CASE DeleteBegins(p)
    BY <2>2, <2>3, <2>4, <2>12 DEF DeleteBegins, storeVars
  <2>13. CASE DeleteEnds(p)
    BY <2>2, <2>3, <2>13 DEF DeleteEnds, DeleteFunction
  <2>14. CASE LoadFunction(p)
    <3>1. Note(p, "count", functions[req[p].fn].image) \/ Answer(p, 404) \/ Answer(p, 503)
      BY <2>14 DEF LoadFunction, Note
    <3> QED
      BY <2>2, <2>3, <2>4, <2>14, <3>1 DEF LoadFunction, storeVars
  <2>15. CASE CountReplicas(p)
    <3>1. \/ Move(p, "create")
          \/ req[p].kind = "scale" /\ Note(p, "scale", None)
          \/ req[p].kind = "invoke" /\ Note(p, "resolve", None)
      BY <2>15 DEF CountReplicas, Move, Note
    <3> QED
      BY <2>2, <2>4, <2>15, <3>1 DEF CountReplicas, storeVars
  <2>16. CASE Resolve(p)
    BY <2>2, <2>3, <2>16 DEF Resolve, storeVars
  <2>17. CASE CreateMachine(p)
    <3>1. Note(p, "boot", None)
      BY <2>17 DEF CreateMachine, Note
    <3> QED
      BY <2>2, <2>4, <2>17, <3>1 DEF CreateMachine, storeVars
  <2>18. CASE Booted(p)
    BY <2>2, <2>4, <2>18 DEF Booted, storeVars
  <2>19. CASE BootFails(p)
    <3>1. (Spoilt(p) /\ req[p].pc = "boot") \/ req' = Spoil(req[p].fn)
      BY <2>19 DEF BootFails, Spoilt
    <3>2. call'[p] = call[p] /\ call[p].at = "idle"
      BY <2>2, <2>19 DEF BootFails, storeVars
    <3>3. CASE Spoilt(p) /\ req[p].pc = "boot"
      BY <2>2, <3>2, <3>3, SpoiltFacts DEF Comes, SameRequest
    <3>4. CASE req' = Spoil(req[p].fn)
      BY <2>2, <3>2, <3>4, SpoiledStay DEF Stays, SameRequest
    <3> QED
      BY <3>1, <3>3, <3>4
  <2>20. CASE CreateFails(p)
    <3>1. Spoilt(p) /\ call'[p] = call[p] /\ req[p].pc = "create"
      BY <2>20 DEF CreateFails, Spoilt, storeVars
    <3>2. SameRequest(p) /\ req'[p].pc = "created"
      BY <3>1, SpoiltFacts DEF Comes
    <3>3. /\ req[p].kind \in Kind /\ "created" \in Path(req[p].kind)
          /\ call[p].at = "idle" /\ (req[p].kind = "delete" => req[p].target = 0)
      BY <2>2, <3>1
    <3> QED
      BY <3>1, <3>2, <3>3 DEF SameRequest
  <2>21. CASE DeployEnds(p)
    BY <2>2, <2>3, <2>21 DEF DeployEnds, storeVars
  <2>22. CASE InvokeCreated(p)
    BY <2>2, <2>3, <2>4, <2>22 DEF InvokeCreated, storeVars
  <2>23. CASE ScaleCreated(p)
    BY <2>2, <2>4, <2>23 DEF ScaleCreated, storeVars
  <2>24. CASE UpdateCreated(p)
    BY <2>2, <2>3, <2>4, <2>24 DEF UpdateCreated, storeVars
  <2>25. CASE ScaleLocks(p)
    BY <2>2, <2>4, <2>25 DEF ScaleLocks, storeVars
  <2>26. CASE CloneMachine(p)
    <3>1. UNCHANGED req \/ req' = Spoil(req[p].fn)
      BY <2>26 DEF CloneMachine
    <3> QED
      BY <2>2, <2>26, <3>1, SpoiledStay DEF CloneMachine, Stays, SameRequest, storeVars
  <2>27. CASE DeleteMachine(p)
    <3>1. UNCHANGED req \/ req' = Spoil(req[p].fn)
      BY <2>27 DEF DeleteMachine
    <3> QED
      BY <2>2, <2>27, <3>1, SpoiledStay DEF DeleteMachine, Stays, SameRequest, storeVars
  <2>28. CASE ScaleEnds(p)
    <3>1. req[p].pc = "scaling"
      BY <2>28 DEF ScaleEnds, ScalingFits
    <3> QED
      BY <2>2, <2>3, <2>4, <2>28, <3>1 DEF ScaleEnds, storeVars
  <2> QED
    BY <1>3, <2>6, <2>7, <2>8, <2>9, <2>10, <2>11, <2>12, <2>13, <2>14, <2>15, <2>16, <2>17,
       <2>18, <2>19, <2>20, <2>21, <2>22, <2>23, <2>24, <2>25, <2>26, <2>27, <2>28 DEF Serve
<1>4. CASE Condemn
  <2>1. PICK f : req' = Spoil(f)
    BY <1>4 DEF Condemn
  <2> QED
    BY <1>0, <1>4, <2>1, SpoiledStay DEF Condemn, Stays, SameRequest, PathFits, PathOf, storeVars
<1>5. CASE Restart
  BY <1>5 DEF Restart, StoreRestarts, NoRequest, NoCall, PathFits
<1>6. CASE UNCHANGED vars
  BY <1>0, <1>6 DEF vars, providerVars, storeVars, PathFits, PathOf
<1> QED
  BY <1>2, <1>3, <1>4, <1>5, <1>6 DEF Next

-----------------------------------------------------------------------------
(* What happens to the machines. *)

(* m alone becomes a machine of f with image i, in the hands of p. *)
Puts(m, state, f, i, p) ==
  /\ machine'[m].state = state /\ machine'[m].fn = f
  /\ machine'[m].image = i /\ machine'[m].by = p
  /\ \A k \in Machine \ {m} : machine'[k] = machine[k]

Removes(m) ==
  /\ machine'[m].state = "none" /\ machine'[m].fn = None
  /\ \A k \in Machine \ {m} : machine'[k] = machine[k]

LEMMA RemoveFacts ==
  ASSUME Base, NEW m \in Machine, machine' = [machine EXCEPT ![m] = NoMachine]
  PROVE  Removes(m)
<1>1. NoMachine.state = "none" /\ NoMachine.fn = None
  BY DEF NoMachine
<1> QED
  BY <1>1 DEF Base, TypeOK, Removes

LEMMA CreateFacts ==
  ASSUME Base, NEW p \in Proc, CreateMachine(p)
  PROVE  /\ req[p].pc = "create" /\ Comes(p, "boot", None, req[p].ok) /\ Others(p)
         /\ req'[p].alone = req[p].alone
         /\ \E m \in Machine : /\ machine[m].state = "none"
                               /\ Puts(m, "boot", req[p].fn, req[p].held, p)
         /\ UNCHANGED <<storeVars, scaling, asked, raced>>
<1>1. Note(p, "boot", None)
  BY DEF CreateMachine, Note
<1>2. PICK m \in Free : machine' = [machine EXCEPT ![m] = [state |-> "boot", fn |-> req[p].fn,
                                          image |-> req[p].held, by |-> p]]
  BY DEF CreateMachine
<1>3. m \in Machine /\ machine[m].state = "none"
  BY DEF Free
<1>4. Puts(m, "boot", req[p].fn, req[p].held, p)
  BY <1>2, <1>3 DEF Base, TypeOK, Puts
<1> QED
  BY <1>1, <1>3, <1>4, NoteFacts, BaseFacts DEF CreateMachine

LEMMA BootedFacts ==
  ASSUME Base, NEW p \in Proc, Booted(p)
  PROVE  /\ req[p].pc \in {"boot", "scaling"}
         /\ Comes(p, IF req[p].pc = "boot" THEN "created" ELSE "scaling", req[p].held, req[p].ok)
         /\ Others(p) /\ req'[p].alone = req[p].alone
         /\ \E m \in Booting(p) : Puts(m, "run", machine[m].fn, machine[m].image, None)
         /\ UNCHANGED <<storeVars, scaling, asked, raced>>
<1>1. PICK m \in Booting(p) : machine' = [machine EXCEPT ![m].state = "run", ![m].by = None]
  BY DEF Booted
<1>2. Puts(m, "run", machine[m].fn, machine[m].image, None)
  BY <1>1 DEF Base, TypeOK, Booting, Puts
<1> QED
  BY <1>1, <1>2, MoveFacts, BaseFacts DEF Booted

LEMMA BootFailsFacts ==
  ASSUME Base, NEW p \in Proc, BootFails(p)
  PROVE  /\ \/ req[p].pc = "boot" /\ Comes(p, "created", req[p].held, FALSE)
            \/ req[p].pc = "scaling" /\ Stays(p)
         /\ Disturbed(req[p].fn)
         /\ \E m \in Booting(p) : Removes(m)
         /\ UNCHANGED <<storeVars, scaling, asked, raced>>
<1>1. PICK m \in Booting(p) : machine' = [machine EXCEPT ![m] = NoMachine]
  BY DEF BootFails
<1>2. Removes(m)
  BY <1>1, RemoveFacts DEF Booting
<1>3. \/ req[p].pc = "boot" /\ Spoilt(p)
      \/ req[p].pc = "scaling" /\ req' = Spoil(req[p].fn)
  BY DEF BootFails, Spoilt
<1>4. PICK f : f = req[p].fn
  OBVIOUS
<1>5. CASE req[p].pc = "scaling" /\ req' = Spoil(req[p].fn)
  <2>1. req' = Spoil(f)
    BY <1>4, <1>5 DEF Spoil
  <2>2. Disturbed(f) /\ Stays(p)
    BY <2>1, SpoiledStay, BaseFacts
  <2>3. Disturbed(req[p].fn)
    BY <1>4, <2>2 DEF Disturbed
  <2> QED
    BY <1>1, <1>2, <1>5, <2>2, <2>3 DEF BootFails
<1>6. CASE req[p].pc = "boot" /\ Spoilt(p)
  BY <1>1, <1>2, <1>6, SpoiltFacts, BaseFacts DEF BootFails
<1> QED
  BY <1>3, <1>5, <1>6

(* A clone is made, there is nothing to clone, or there is no room. *)
LEMMA CloneFacts ==
  ASSUME Base, NEW p \in Proc, CloneMachine(p)
  PROVE  /\ req[p].pc = "scaling" /\ Stays(p)
         /\ scaling.grow \in Nat \ {0} /\ scaling'.grow = scaling.grow - 1
         /\ scaling'.shrink = scaling.shrink /\ scaling'.by = p
         /\ \/ \E source \in Running(req[p].fn), m \in Machine :
                 /\ machine[m].state = "none"
                 /\ Puts(m, "boot", machine[source].fn, machine[source].image, p)
                 /\ UNCHANGED req
            \/ Running(req[p].fn) = {} /\ UNCHANGED <<req, machine>>
            \/ Disturbed(req[p].fn) /\ UNCHANGED machine
         /\ UNCHANGED <<storeVars, asked, raced>>
<1>1. scaling.by = p /\ scaling.grow > 0 /\ scaling' = [scaling EXCEPT !.grow = @ - 1]
  BY DEF CloneMachine
<1>2. /\ scaling.grow \in Nat \ {0} /\ scaling'.grow = scaling.grow - 1
      /\ scaling'.shrink = scaling.shrink /\ scaling'.by = p
  BY <1>1 DEF Base, TypeOK
<1>3. req[p].pc = "scaling" /\ UNCHANGED <<storeVars, asked, raced>>
  BY <1>1, BaseFacts DEF ScalingFits, CloneMachine
<1>4. PICK f : f = req[p].fn
  OBVIOUS
<1>5. \/ \E source \in Running(f), m \in Free :
           /\ machine' = [machine EXCEPT ![m] = [machine[source] EXCEPT !.state = "boot",
                                                                        !.by = p]]
           /\ UNCHANGED req
      \/ Running(f) = {} /\ UNCHANGED <<req, machine>>
      \/ req' = Spoil(f) /\ UNCHANGED machine
  BY <1>4 DEF CloneMachine, Running, Spoil
<1>6. UNCHANGED req => Stays(p)
  BY DEF Stays, SameRequest
<1>7. CASE \E source \in Running(f), m \in Free :
           /\ machine' = [machine EXCEPT ![m] = [machine[source] EXCEPT !.state = "boot",
                                                                        !.by = p]]
           /\ UNCHANGED req
  <2>1. PICK source \in Running(f), m \in Free :
           /\ machine' = [machine EXCEPT ![m] = [machine[source] EXCEPT !.state = "boot",
                                                                        !.by = p]]
           /\ UNCHANGED req
    BY <1>7
  <2>2. source \in Machine /\ m \in Machine /\ machine[m].state = "none"
    BY DEF Running, Free
  <2>3. machine[source] \in Machines /\ machine \in [Machine -> Machines]
    BY <2>2, Types DEF Base
  <2>4. PICK x \in Machines : x = [machine[source] EXCEPT !.state = "boot", !.by = p]
    BY <2>3 DEF Machines
  <2>5. x.state = "boot" /\ x.fn = machine[source].fn /\ x.image = machine[source].image /\ x.by = p
    BY <2>3, <2>4 DEF Machines
  <2>6. machine'[m] = x /\ \A k \in Machine \ {m} : machine'[k] = machine[k]
    BY <2>1, <2>2, <2>3, <2>4
  <2>7. Puts(m, "boot", machine[source].fn, machine[source].image, p)
    BY <2>5, <2>6 DEF Puts
  <2>8. source \in Running(req[p].fn)
    BY <1>4 DEF Running
  <2> QED
    BY <1>2, <1>3, <1>6, <2>1, <2>2, <2>7, <2>8
<1>8. CASE Running(f) = {} /\ UNCHANGED <<req, machine>>
  BY <1>2, <1>3, <1>4, <1>6, <1>8 DEF Running
<1>9. CASE req' = Spoil(f) /\ UNCHANGED machine
  BY <1>2, <1>3, <1>4, <1>9, SpoiledStay, BaseFacts DEF Disturbed
<1> QED
  BY <1>5, <1>7, <1>8, <1>9

(* One worker or two take a machine. *)
LEMMA DeleteFacts ==
  ASSUME Base, NEW p \in Proc, DeleteMachine(p)
  PROVE  /\ req[p].pc = "scaling" /\ Stays(p)
         /\ scaling'.grow = scaling.grow /\ scaling'.by = p
         /\ scaling'.shrink \in Nat /\ scaling'.shrink < scaling.shrink
         /\ \/ scaling'.shrink = scaling.shrink - 1 /\ UNCHANGED <<req, raced>>
            \/ /\ Disturbed(req[p].fn)
               /\ req[p].fn \in Fn => raced'[req[p].fn] = {"lost", "extra"}
               /\ \A f \in Fn \ {req[p].fn} : raced'[f] = raced[f]
         /\ \E m \in Running(req[p].fn) : Removes(m)
         /\ UNCHANGED <<storeVars, asked>>
<1>1. PICK workers \in 1 .. 2 :
       /\ scaling.shrink >= workers
       /\ scaling' = [scaling EXCEPT !.shrink = @ - workers]
       /\ req' = IF workers = 1 THEN req ELSE Spoil(req[p].fn)
       /\ raced' = IF workers = 1 THEN raced
                   ELSE [raced EXCEPT ![req[p].fn] = {"lost", "extra"}]
  BY DEF DeleteMachine
<1>2. /\ scaling'.grow = scaling.grow /\ scaling'.by = scaling.by
      /\ scaling'.shrink = scaling.shrink - workers
      /\ scaling'.shrink \in Nat /\ scaling'.shrink < scaling.shrink
  BY <1>1 DEF Base, TypeOK
<1>3. req[p].pc = "scaling" /\ scaling.by = p /\ UNCHANGED <<storeVars, asked>>
  BY BaseFacts DEF ScalingFits, DeleteMachine
<1>4. \E m \in Running(req[p].fn) : Removes(m)
  <2>1. PICK m \in Running(req[p].fn) : machine' = [machine EXCEPT ![m] = NoMachine]
    BY DEF DeleteMachine
  <2> QED
    BY <2>1, RemoveFacts DEF Running
<1>5. CASE workers = 1
  BY <1>1, <1>2, <1>3, <1>4, <1>5 DEF Stays, SameRequest
<1>6. CASE workers # 1
  <2>1. PICK f : f = req[p].fn
    OBVIOUS
  <2>2. req' = Spoil(f)
    BY <1>1, <1>6, <2>1 DEF Spoil
  <2>3. Disturbed(req[p].fn) /\ Stays(p)
    BY <2>1, <2>2, SpoiledStay, BaseFacts DEF Disturbed
  <2>4. /\ req[p].fn \in Fn => raced'[req[p].fn] = {"lost", "extra"}
        /\ \A g \in Fn \ {req[p].fn} : raced'[g] = raced[g]
    BY <1>1, <1>6, BaseFacts
  <2> QED
    BY <1>2, <1>3, <1>4, <2>3, <2>4
<1> QED
  BY <1>5, <1>6

LEMMA CondemnFacts ==
  ASSUME Base, Condemn
  PROVE  /\ scaling.by = None
         /\ \A q \in Proc : Stays(q)
         /\ \E m \in Machine : machine[m].state = "run" /\ Removes(m) /\ Disturbed(machine[m].fn)
         /\ UNCHANGED <<storeVars, scaling, asked, raced>>
<1>1. PICK m \in Machine : /\ machine[m].state = "run"
                           /\ machine' = [machine EXCEPT ![m] = NoMachine]
                           /\ req' = Spoil(machine[m].fn)
  BY DEF Condemn
<1>2. PICK f : f = machine[m].fn
  OBVIOUS
<1>3. req' = Spoil(f)
  BY <1>1, <1>2 DEF Spoil
<1>4. Disturbed(f) /\ \A q \in Proc : Stays(q)
  BY <1>3, SpoiledStay, BaseFacts
<1>5. Disturbed(machine[m].fn)
  BY <1>2, <1>4 DEF Disturbed
<1> QED
  BY <1>1, <1>4, <1>5, RemoveFacts DEF Condemn

(* The other steps leave the machines and the lock alone. *)
Talks(p) ==
  /\ UNCHANGED <<machine, scaling, asked, raced>>
  /\ \/ Stays(p)
     \/ req[p].pc \notin {"boot", "scaling"} /\ req'[p].pc \notin {"boot", "scaling", "scaled"}

Builds(p) == CreateMachine(p) \/ Booted(p) \/ BootFails(p)

Scales(p) == ScaleLocks(p) \/ CloneMachine(p) \/ DeleteMachine(p) \/ ScaleEnds(p)

LEMMA TalksFacts ==
  ASSUME Base, NEW p \in Proc, Serve(p) PROVE Builds(p) \/ Scales(p) \/ Talks(p)
<1> USE BaseFacts
<1>1. ASSUME UNCHANGED <<machine, scaling, asked, raced>>, req[p].pc \notin {"boot", "scaling"},
             \/ \E code \in Nat : Answer(p, code)
             \/ \E pc : pc \notin {"boot", "scaling", "scaled"} /\ Move(p, pc)
             \/ \E pc, i : pc \notin {"boot", "scaling", "scaled"} /\ Note(p, pc, i)
             \/ Spoilt(p)
      PROVE  Talks(p)
  <2>1. ASSUME NEW code \in Nat, Answer(p, code) PROVE req'[p].pc \notin {"boot", "scaling", "scaled"}
    BY <2>1, AnswerFacts DEF Leaves
  <2>2. ASSUME NEW pc, pc \notin {"boot", "scaling", "scaled"}, Move(p, pc)
        PROVE  req'[p].pc \notin {"boot", "scaling", "scaled"}
    BY <2>2, MoveFacts DEF Comes
  <2>3. ASSUME NEW pc, NEW i, pc \notin {"boot", "scaling", "scaled"}, Note(p, pc, i)
        PROVE  req'[p].pc \notin {"boot", "scaling", "scaled"}
    BY <2>3, NoteFacts DEF Comes
  <2>4. Spoilt(p) => req'[p].pc \notin {"boot", "scaling", "scaled"}
    BY SpoiltFacts DEF Comes
  <2>5. req'[p].pc \notin {"boot", "scaling", "scaled"}
    BY <1>1, <2>1, <2>2, <2>3, <2>4
  <2> QED
    BY <1>1, <2>5 DEF Talks
<1>2. CASE StoreStep(p) /\ UNCHANGED providerVars
  BY <1>2 DEF providerVars, Talks, Stays, SameRequest
<1> USE DEF At
<1>3. CASE Reject(p) \/ DeleteBegins(p) \/ DeleteEnds(p) \/ Resolve(p)
  BY <1>1, <1>3 DEF Reject, DeleteBegins, DeleteEnds, Resolve
<1>4. CASE DeployBegins(p) \/ UpdateBegins(p)
  BY <1>1, <1>4 DEF DeployBegins, UpdateBegins
<1>5. CASE DeployStored(p)
  <2>1. Note(p, "create", call[p].image) \/ Answer(p, 400)
    BY <1>5 DEF DeployStored, Note
  <2> QED
    BY <1>1, <1>5, <2>1 DEF DeployStored
<1>6. CASE UpdateStored(p)
  <2>1. Note(p, "create", call[p].image) \/ Note(p, "scale", None) \/ Answer(p, 400)
    BY <1>6 DEF UpdateStored, Note, Base, TypeOK, StoreTypeOK
  <2> QED
    BY <1>1, <1>6, <2>1 DEF UpdateStored
<1>7. CASE LoadFunction(p)
  <2>1. Note(p, "count", functions[req[p].fn].image) \/ Answer(p, 404) \/ Answer(p, 503)
    BY <1>7 DEF LoadFunction, Note
  <2> QED
    BY <1>1, <1>7, <2>1 DEF LoadFunction
<1>8. CASE CountReplicas(p)
  <2>1. Move(p, "create") \/ Note(p, "scale", None) \/ Note(p, "resolve", None)
    BY <1>8 DEF CountReplicas, Move, Note
  <2> QED
    BY <1>1, <1>8, <2>1 DEF CountReplicas
<1>9. CASE CreateFails(p)
  BY <1>1, <1>9 DEF CreateFails, Spoilt
<1>10. CASE DeployEnds(p) \/ InvokeCreated(p) \/ ScaleCreated(p) \/ UpdateCreated(p)
  BY <1>1, <1>10 DEF DeployEnds, InvokeCreated, ScaleCreated, UpdateCreated
<1> QED
  BY <1>2, <1>3, <1>4, <1>5, <1>6, <1>7, <1>8, <1>9, <1>10 DEF Serve, Builds, Scales

LEMMA LocksFacts ==
  ASSUME Base, NEW p \in Proc, ScaleLocks(p)
  PROVE  /\ req[p].pc = "scale" /\ Comes(p, "scaling", req[p].held, req[p].ok) /\ Others(p)
         /\ req'[p].alone = req[p].alone
         /\ scaling'.grow \in Nat /\ scaling'.shrink \in Nat
         /\ Replicas(req[p].fn) + scaling'.grow = req[p].target + scaling'.shrink
         /\ scaling'.grow = 0 \/ scaling'.shrink = 0
         /\ UNCHANGED <<storeVars, machine, asked, raced>>
<1>1. Replicas(req[p].fn) \in Nat /\ req[p].target \in Nat
  BY ReplicasNat DEF Base, TypeOK
<1>2. PICK r \in Nat, n \in Nat : r = Replicas(req[p].fn) /\ n = req[p].target
  BY <1>1
<1>3. scaling' = [by |-> p, grow |-> IF r < n THEN n - r ELSE 0,
                            shrink |-> IF n < r THEN r - n ELSE 0]
  BY <1>2 DEF ScaleLocks
<1>4. /\ scaling'.grow = IF r < n THEN n - r ELSE 0
      /\ scaling'.shrink = IF n < r THEN r - n ELSE 0
  BY <1>3
<1>5. /\ scaling'.grow \in Nat /\ scaling'.shrink \in Nat
      /\ r + scaling'.grow = n + scaling'.shrink
      /\ scaling'.grow = 0 \/ scaling'.shrink = 0
  BY <1>4
<1>6. req[p].pc = "scale" /\ Move(p, "scaling") /\ UNCHANGED <<storeVars, machine, asked, raced>>
  BY DEF ScaleLocks
<1> QED
  BY <1>2, <1>5, <1>6, MoveFacts, BaseFacts

LEMMA EndsFacts ==
  ASSUME Base, NEW p \in Proc, ScaleEnds(p)
  PROVE  /\ req[p].pc = "scaling" /\ scaling.grow = 0 /\ scaling.shrink = 0 /\ Booting(p) = {}
         /\ \/ req[p].kind = "delete" /\ Comes(p, "scaled", req[p].held, req[p].ok)
            \/ req[p].kind # "delete" /\ Leaves(p)
         /\ Others(p)
         /\ req[p].kind = "scale" /\ req[p].fn \in Fn => asked'[req[p].fn] = req[p].target
         /\ \A f \in Fn : req[p].kind # "scale" \/ f # req[p].fn => asked'[f] = asked[f]
         /\ UNCHANGED <<storeVars, machine, raced>>
<1>1. /\ scaling.by = p /\ scaling.grow = 0 /\ scaling.shrink = 0 /\ Booting(p) = {}
      /\ IF req[p].kind = "delete" THEN Move(p, "scaled") ELSE Answer(p, 200)
      /\ asked' = IF req[p].kind = "scale" THEN [asked EXCEPT ![req[p].fn] = req[p].target]
                                           ELSE asked
      /\ UNCHANGED <<storeVars, machine, sent, raced>>
  BY DEF ScaleEnds
<1>2. asked \in [Fn -> Nat]
  BY DEF Base, TypeOK
<1>3. /\ req[p].kind = "scale" /\ req[p].fn \in Fn => asked'[req[p].fn] = req[p].target
      /\ \A f \in Fn : req[p].kind # "scale" \/ f # req[p].fn => asked'[f] = asked[f]
  BY <1>1, <1>2
<1>4. req[p].pc = "scaling"
  BY <1>1, BaseFacts DEF ScalingFits
<1>5. CASE req[p].kind = "delete"
  BY <1>1, <1>3, <1>4, <1>5, MoveFacts, BaseFacts
<1>6. CASE req[p].kind # "delete"
  BY <1>1, <1>3, <1>4, <1>6, AnswerFacts, BaseFacts
<1> QED
  BY <1>5, <1>6

-----------------------------------------------------------------------------
(* A machine that boots has somebody who waits for it. *)

Belongs(m) ==
  /\ machine[m].state # "none" => machine[m].fn \in Fn
  /\ machine[m].state = "boot" =>
       LET p == machine[m].by
       IN  p \in Proc /\ req[p].pc \in {"boot", "scaling"} /\ req[p].fn = machine[m].fn

LEMMA BootStep == ASSUME Base, PathFits, BootFits, [Next]_vars PROVE BootFits'
<1> USE BaseFacts
<1>0. /\ \A m \in Machine : Belongs(m)
      /\ \A q \in Proc : req[q].pc = "boot" => \A m, n \in Booting(q) : m = n
      /\ \A q \in Proc : req[q].pc # "idle" => req[q].fn \in Fn
  BY DEF BootFits, Belongs, Base, Inductive, RequestFits
<1>1. ASSUME \A m \in Machine : Belongs(m)',
             \A q \in Proc : req'[q].pc = "boot" => \A m, n \in Booting(q)' : m = n
      PROVE  BootFits'
  BY <1>1 DEF BootFits, Belongs
<1>2. ASSUME UNCHANGED machine, \A q \in Proc : Stays(q) \/ (Booting(q) = {})
      PROVE  BootFits'
  BY <1>0, <1>1, <1>2 DEF Belongs, Booting, Stays, SameRequest
<1>3. ASSUME NEW p \in Proc, Receive(p) PROVE BootFits'
  <2>1. PICK k \in Kind, f \in Fn : Arrival(p, k, f)
    BY <1>3, ReceiveFacts
  <2>2. Booting(p) = {}
    BY <1>0, <2>1 DEF Arrival, Booting, Belongs
  <2> QED
    BY <1>2, <2>1, <2>2 DEF Arrival
<1>4. ASSUME NEW p \in Proc, Serve(p) PROVE BootFits'
  <2>0. /\ \A q \in Proc \ {p} : Stays(q)
        /\ SameRequest(p) \/ Leaves(p)
    BY <1>4, ServeFrame DEF Frame
  <2>1. CASE Talks(p)
    <3>1. Stays(p) \/ Booting(p) = {}
      BY <1>0, <2>1 DEF Talks, Belongs, Booting
    <3> QED
      BY <1>2, <2>0, <2>1, <3>1 DEF Talks
  <2>2. CASE CreateMachine(p)
    <3>1. PICK m \in Machine : machine[m].state = "none" /\ Puts(m, "boot", req[p].fn, req[p].held, p)
      BY <2>2, CreateFacts
    <3>2. req[p].pc = "create" /\ req'[p].pc = "boot" /\ req'[p].fn = req[p].fn
      BY <2>2, CreateFacts DEF Comes, SameRequest
    <3>3. Booting(p) = {} /\ req[p].fn \in Fn
      BY <1>0, <3>2 DEF Belongs, Booting
    <3>4. \A k \in Machine : Belongs(k)'
      BY <1>0, <2>0, <3>1, <3>2, <3>3 DEF Belongs, Puts, Stays, SameRequest
    <3>5. \A q \in Proc \ {p} : Booting(q)' \subseteq Booting(q)
      BY <3>1 DEF Booting, Puts
    <3>6. Booting(p)' \subseteq {m}
      BY <3>1, <3>3 DEF Booting, Puts
    <3> QED
      BY <1>0, <1>1, <2>0, <3>4, <3>5, <3>6 DEF Stays
  <2>3. CASE Booted(p)
    <3>1. PICK m \in Booting(p) : Puts(m, "run", machine[m].fn, machine[m].image, None)
      BY <2>3, BootedFacts
    <3>2. /\ req[p].pc \in {"boot", "scaling"} /\ SameRequest(p)
          /\ req'[p].pc = IF req[p].pc = "boot" THEN "created" ELSE "scaling"
      BY <2>3, BootedFacts DEF Comes
    <3>3. \A q \in Proc : Booting(q)' \subseteq Booting(q) \ {m}
      BY <3>1 DEF Booting, Puts
    <3>4. ASSUME NEW k \in Machine PROVE Belongs(k)'
      <4>1. CASE k = m
        BY <1>0, <3>1, <4>1 DEF Belongs, Puts, Booting
      <4>2. CASE k # m /\ machine[k].by = p
        BY <1>0, <3>1, <3>2, <4>2 DEF Belongs, Puts, Booting, SameRequest
      <4>3. CASE k # m /\ machine[k].by # p
        BY <1>0, <2>0, <3>1, <4>3 DEF Belongs, Puts, Stays, SameRequest
      <4> QED
        BY <4>1, <4>2, <4>3
    <3> QED
      BY <1>0, <1>1, <2>0, <3>2, <3>3, <3>4 DEF Stays
  <2>4. CASE BootFails(p)
    <3>1. PICK m \in Booting(p) : Removes(m)
      BY <2>4, BootFailsFacts
    <3>2. \/ req[p].pc = "boot" /\ SameRequest(p) /\ req'[p].pc = "created"
          \/ req[p].pc = "scaling" /\ SameRequest(p) /\ req'[p].pc = "scaling"
      BY <2>4, BootFailsFacts DEF Comes, Stays
    <3>3. \A q \in Proc : Booting(q)' \subseteq Booting(q) \ {m}
      BY <3>1 DEF Booting, Removes
    <3>4. ASSUME NEW k \in Machine PROVE Belongs(k)'
      <4>1. CASE k = m
        BY <3>1, <4>1 DEF Belongs, Removes
      <4>2. CASE k # m /\ machine[k].by = p
        BY <1>0, <3>1, <3>2, <4>2 DEF Belongs, Removes, Booting, SameRequest
      <4>3. CASE k # m /\ machine[k].by # p
        BY <1>0, <2>0, <3>1, <4>3 DEF Belongs, Removes, Stays, SameRequest
      <4> QED
        BY <4>1, <4>2, <4>3
    <3> QED
      BY <1>0, <1>1, <2>0, <3>2, <3>3, <3>4 DEF Stays
  <2>5. CASE ScaleLocks(p)
    <3>1. req[p].pc = "scale" /\ UNCHANGED machine
      BY <2>5, LocksFacts
    <3>2. Booting(p) = {}
      BY <1>0, <3>1 DEF Belongs, Booting
    <3> QED
      BY <1>2, <2>0, <3>1, <3>2
  <2>6. CASE CloneMachine(p)
    <3>1. req[p].pc = "scaling" /\ Stays(p)
      BY <2>6, CloneFacts
    <3>2. CASE UNCHANGED machine
      BY <1>2, <2>0, <3>1, <3>2
    <3>3. CASE \E source \in Running(req[p].fn), m \in Machine :
                 /\ machine[m].state = "none"
                 /\ Puts(m, "boot", machine[source].fn, machine[source].image, p)
      <4>1. PICK source \in Running(req[p].fn), m \in Machine :
                 /\ machine[m].state = "none"
                 /\ Puts(m, "boot", machine[source].fn, machine[source].image, p)
        BY <3>3
      <4>2. machine[source].fn = req[p].fn /\ req[p].fn \in Fn
        BY <1>0, <3>1 DEF Running
      <4>3. \A k \in Machine : Belongs(k)'
        BY <1>0, <2>0, <3>1, <4>1, <4>2 DEF Belongs, Puts, Stays, SameRequest
      <4>4. \A q \in Proc \ {p} : Booting(q)' \subseteq Booting(q)
        BY <4>1 DEF Booting, Puts
      <4> QED
        BY <1>0, <1>1, <2>0, <3>1, <4>3, <4>4 DEF Stays
    <3> QED
      BY <2>6, <3>2, <3>3, CloneFacts
  <2>7. CASE DeleteMachine(p)
    <3>1. PICK m \in Running(req[p].fn) : Removes(m)
      BY <2>7, DeleteFacts
    <3>2. \A q \in Proc : Stays(q)
      BY <2>0, <2>7, DeleteFacts
    <3>3. \A q \in Proc : Booting(q)' \subseteq Booting(q)
      BY <3>1 DEF Booting, Removes
    <3>4. \A k \in Machine : Belongs(k)'
      BY <1>0, <3>1, <3>2 DEF Belongs, Removes, Stays, SameRequest
    <3> QED
      BY <1>0, <1>1, <3>2, <3>3, <3>4 DEF Stays
  <2>8. CASE ScaleEnds(p)
    BY <1>2, <2>0, <2>8, EndsFacts
  <2> QED
    BY <1>4, <2>1, <2>2, <2>3, <2>4, <2>5, <2>6, <2>7, <2>8, TalksFacts DEF Builds, Scales
<1>5. CASE Condemn
  <2>1. PICK m \in Machine : Removes(m)
    BY <1>5, CondemnFacts
  <2>2. \A q \in Proc : Stays(q)
    BY <1>5, CondemnFacts
  <2>3. \A q \in Proc : Booting(q)' \subseteq Booting(q)
    BY <2>1 DEF Booting, Removes
  <2>4. \A k \in Machine : Belongs(k)'
    BY <1>0, <2>1, <2>2 DEF Belongs, Removes, Stays, SameRequest
  <2> QED
    BY <1>0, <1>1, <2>2, <2>3, <2>4 DEF Stays
<1>6. CASE Restart
  BY <1>6 DEF Restart, NoMachine, NoRequest, BootFits
<1>7. CASE UNCHANGED vars
  BY <1>2, <1>7 DEF vars, providerVars, Stays, SameRequest
<1> QED
  BY <1>3, <1>4, <1>5, <1>6, <1>7 DEF Next

-----------------------------------------------------------------------------
(* A function is what the handlers that work with it take it for. *)

StoredOf(p) ==
  req[p].pc # "idle" /\ Own(p) =>
    LET f == req[p].fn
        i == functions[f].image
    IN
    /\ req[p].kind = "update" =>
         req[p].pc \in {"begin", "store"} /\ ~Stored(p) /\ call[p].at \in {"idle", "read"}
    /\ call[p].at \notin {"keep", "drop"}
    /\ call[p].at \in {"read", "resolve", "lookup", "unpack", "write", "store"} => i = None
    /\ Stored(p) => i = req[p].image
    /\ req[p].pc \in {"count", "create", "boot", "created", "resolve"} =>
         i # None /\ (req[p].kind = "deploy" => i = req[p].image)
    /\ req[p].pc \in {"count", "create"} => i = req[p].held

LEMMA FunctionTypes ==
  ASSUME Base, NEW f \in Fn
  PROVE  /\ functions[f].image \in Image \cup {None}
         /\ functions[f].image = None <=> functions[f] = NoFunction
  BY NoneIsNothing DEF Base, TypeOK, StoreTypeOK, Function, NoFunction

(* Who is undisturbed was so before. *)
LEMMA OwnBefore ==
  ASSUME NEW q, SameRequest(q), raced[req[q].fn] \subseteq raced'[req[q].fn], Own(q)'
  PROVE  Own(q)
  BY DEF SameRequest, Own, Calm

(* Nobody stores or deletes a function while another request that works    *)
(* with it is undisturbed.                                                 *)
LEMMA FunctionKept ==
  ASSUME Base, PathFits, MeetFits, StoredFits, NEW p \in Proc, Serve(p),
         NEW q \in Proc \ {p}, req[q].pc # "idle", Own(q)
  PROVE  \/ functions'[req[q].fn] = functions[req[q].fn]
         \/ req[q].pc \in {"begin", "scale", "scaling"}
<1> DEFINE f == req[q].fn
<1>1. f \in Fn
  BY DEF Base, Inductive, RequestFits
<1>2. SUFFICES ASSUME functions'[f] # functions[f]
               PROVE  req[q].pc \in {"begin", "scale", "scaling"}
  OBVIOUS
<1>3. PathOf(p) /\ PathOf(q)
  BY DEF PathFits, PathOf
<1>4. functions \in [Fn -> Function \cup {NoFunction}]
  BY DEF Base, TypeOK, StoreTypeOK
<1>5. ASSUME req[p].pc # "idle", req[p].fn = f
      PROVE  /\ Own(p) /\ StoredOf(p)
             /\ {req[p].kind, req[q].kind} \cap {"delete", "update"} = {}
             /\ {req[p].kind, req[q].kind} # {"deploy"}
  <2>1. ~req[q].alone /\ Consequence(req[p].kind, req[q].kind) \subseteq raced[f]
    BY <1>5 DEF MeetFits, Serving
  <2>2. "lost" \notin raced[f]
    BY <2>1 DEF Own, Calm
  <2>3. "lost" \notin Consequence(req[p].kind, req[q].kind)
    BY <2>1, <2>2
  <2>4. Own(p) /\ StoredOf(p)
    BY <1>5, <2>2 DEF Own, Calm, StoredFits, StoredOf
  <2> QED
    BY <2>3, <2>4 DEF Consequence
<1>6. CASE StoreStep(p)
  <2>1. call[p].at # "idle" /\ req[p].pc = "store" /\ call[p].fn = req[p].fn
    BY <1>3, <1>6, StoreStepCall DEF PathOf
  <2>2. /\ StoreFunction(p) \/ UpdateKeeps(p) \/ UpdateDrops(p)
        /\ req[p].fn = f
    BY <1>1, <1>2, <1>4, <1>6, <2>1 DEF StoreStep, CheckAbsent, ResolveManifest, ImageCached,
       ImageMissing, UnpackBegins, UnpackEnds, PullFails, StoreImage, UpdateReads,
       StoreFunction, UpdateKeeps, UpdateDrops
  <2>3. call[p].at \in {"store", "keep", "drop"}
    BY <2>2 DEF StoreFunction, UpdateKeeps, UpdateDrops
  <2>4. functions[f].image = None /\ req[p].kind = "deploy"
    BY <1>3, <1>5, <2>1, <2>2, <2>3 DEF StoredOf, PathOf, Path, Kind
  <2>5. req[q].kind \in {"scale", "invoke"}
    BY <1>3, <1>5, <2>1, <2>2, <2>4 DEF PathOf, Kind
  <2>6. req[q].pc \notin {"count", "create", "boot", "created", "resolve"}
    BY <2>4 DEF StoredFits
  <2> QED
    BY <1>3, <2>5, <2>6 DEF PathOf, Path
<1>7. CASE DeleteEnds(p)
  BY <1>1, <1>2, <1>4, <1>5, <1>7 DEF DeleteEnds, DeleteFunction, At
<1>8. CASE DeployBegins(p) \/ DeployStored(p) \/ UpdateBegins(p) \/ UpdateStored(p)
  BY <1>2, <1>8 DEF DeployBegins, DeployStored, UpdateBegins, UpdateStored, Forget
<1>9. CASE Reject(p) \/ DeleteBegins(p) \/ LoadFunction(p) \/ CountReplicas(p) \/ Resolve(p)
  BY <1>2, <1>9 DEF Reject, DeleteBegins, LoadFunction, CountReplicas, Resolve, storeVars
<1>10. CASE CreateMachine(p) \/ Booted(p) \/ BootFails(p) \/ CreateFails(p)
  BY <1>2, <1>10 DEF CreateMachine, Booted, BootFails, CreateFails, storeVars
<1>11. CASE DeployEnds(p) \/ InvokeCreated(p) \/ ScaleCreated(p) \/ UpdateCreated(p)
  BY <1>2, <1>11 DEF DeployEnds, InvokeCreated, ScaleCreated, UpdateCreated, storeVars
<1>12. CASE ScaleLocks(p) \/ CloneMachine(p) \/ DeleteMachine(p) \/ ScaleEnds(p)
  BY <1>2, <1>12 DEF ScaleLocks, CloneMachine, DeleteMachine, ScaleEnds, storeVars
<1> QED
  BY <1>6, <1>7, <1>8, <1>9, <1>10, <1>11, <1>12 DEF Serve

(* A call of the store does what the handler needs. *)
LEMMA CallsStore ==
  ASSUME Base, PathFits, NEW p \in Proc, StoredOf(p), StoreStep(p), UNCHANGED providerVars
  PROVE  StoredOf(p)'
<1> DEFINE f == req[p].fn
           i == functions[f].image
<1>1. /\ call[p].at # "idle" /\ req[p].pc = "store"
      /\ call[p].fn = f /\ call[p].image = req[p].image
  BY StoreStepCall DEF PathFits
<1>2. f \in Fn /\ UNCHANGED req /\ (Own(p)' => Own(p))
  BY <1>1 DEF Base, Inductive, RequestFits, providerVars, Own, Calm
<1>3. SUFFICES ASSUME Own(p)'
               PROVE  /\ req[p].kind = "update" => call'[p].at = "idle" /\ ~call'[p].ok
                      /\ call'[p].at \notin {"keep", "drop"}
                      /\ call'[p].at \in {"read", "resolve", "lookup", "unpack", "write", "store"}
                           => functions'[f].image = None
                      /\ call'[p].at = "remember" \/ (call'[p].at = "idle" /\ call'[p].ok)
                           => functions'[f].image = req[p].image
  BY <1>1, <1>2 DEF StoredOf, Stored
<1>4. /\ req[p].kind = "update" => call[p].at = "read"
      /\ call[p].at \notin {"keep", "drop"}
      /\ call[p].at \in {"read", "resolve", "lookup", "unpack", "write", "store"} => i = None
      /\ call[p].at = "remember" => i = req[p].image
  BY <1>1, <1>2, <1>3 DEF StoredOf, Stored
<1>5. i = None <=> ~FunctionExists(f)
  BY <1>2, FunctionTypes DEF FunctionExists
<1>6. call \in [Proc -> Calls] /\ functions \in [Fn -> Function \cup {NoFunction}]
  BY DEF Base, TypeOK, StoreTypeOK, Calls
<1>7. ASSUME NEW s, Goto(p, s) PROVE call'[p].at = s
  BY <1>6, <1>7 DEF Goto, Calls
<1>8. Return(p, FALSE) => call'[p].at = "idle" /\ ~call'[p].ok
  BY <1>6 DEF Return, NoCall
<1>9. Return(p, TRUE) => call'[p].at = "idle"
  BY <1>6 DEF Return, Calls
<1>10. CASE CheckAbsent(p)
  BY <1>1, <1>4, <1>5, <1>7, <1>8, <1>10 DEF CheckAbsent
<1>11. CASE ResolveManifest(p)
  <2>1. call'[p].at = "lookup" \/ Return(p, FALSE)
    BY <1>6, <1>11 DEF ResolveManifest, Calls
  <2> QED
    BY <1>4, <1>8, <1>11, <2>1 DEF ResolveManifest
<1>12. CASE ImageCached(p)
  BY <1>4, <1>7, <1>12 DEF ImageCached
<1>13. CASE ImageMissing(p)
  BY <1>4, <1>7, <1>8, <1>13 DEF ImageMissing
<1>14. CASE UnpackBegins(p)
  <2>1. call'[p].at = "write"
    BY <1>6, <1>14 DEF UnpackBegins, Calls
  <2> QED
    BY <1>4, <1>14, <2>1 DEF UnpackBegins
<1>15. CASE UnpackEnds(p)
  BY <1>4, <1>7, <1>15 DEF UnpackEnds
<1>16. CASE PullFails(p)
  BY <1>4, <1>8, <1>16 DEF PullFails
<1>17. CASE StoreFunction(p)
  <2>1. call'[p].at = "remember"
    BY <1>6, <1>17 DEF StoreFunction, Calls
  <2>2. functions'[f].image = req[p].image
    BY <1>1, <1>2, <1>6, <1>17 DEF StoreFunction
  <2> QED
    BY <1>4, <1>17, <2>1, <2>2 DEF StoreFunction
<1>18. CASE StoreImage(p)
  BY <1>4, <1>9, <1>18 DEF StoreImage
<1>19. CASE UpdateReads(p)
  BY <1>1, <1>4, <1>5, <1>8, <1>19 DEF UpdateReads, FunctionExists
<1>20. CASE UpdateKeeps(p) \/ UpdateDrops(p)
  BY <1>4, <1>20 DEF UpdateKeeps, UpdateDrops
<1> QED
  BY <1>10, <1>11, <1>12, <1>13, <1>14, <1>15, <1>16, <1>17, <1>18, <1>19, <1>20 DEF StoreStep

LEMMA StoredStep ==
  ASSUME Base, PathFits, MeetFits, StoredFits, [Next]_vars PROVE StoredFits'
<1> USE BaseFacts
<1>0. /\ \A q \in Proc : StoredOf(q) /\ PathOf(q)
      /\ \A q \in Proc : req[q].pc # "idle" => req[q].fn \in Fn
  BY DEF StoredFits, StoredOf, PathFits, PathOf, Base, Inductive, RequestFits
<1>1. ASSUME \A q \in Proc : StoredOf(q)' PROVE StoredFits'
  BY <1>1 DEF StoredFits, StoredOf
<1>2. ASSUME NEW q \in Proc, Stays(q), call'[q] = call[q],
             req[q].pc # "idle" => \/ functions'[req[q].fn] = functions[req[q].fn]
                                   \/ req[q].pc \in {"begin", "scale", "scaling"}
                                   \/ ~Own(q),
             req[q].pc # "idle" /\ Own(q)' => Own(q)
      PROVE  StoredOf(q)'
  <2>1. SUFFICES ASSUME req[q].pc # "idle", Own(q), Own(q)' PROVE StoredOf(q)'
    BY <1>2 DEF StoredOf, Stays
  <2>2. CASE functions'[req[q].fn] = functions[req[q].fn]
    BY <1>0, <1>2, <2>1, <2>2 DEF StoredOf, Stays, SameRequest, Stored
  <2>3. CASE req[q].pc \in {"begin", "scale", "scaling"}
    BY <1>0, <1>2, <2>1, <2>3 DEF StoredOf, PathOf, Stays, SameRequest, Stored
  <2> QED
    BY <1>2, <2>1, <2>2, <2>3
<1>3. ASSUME NEW p \in Proc, Receive(p) PROVE StoredFits'
  <2>1. PICK k \in Kind, f \in Fn : Arrival(p, k, f)
    BY <1>3, ReceiveFacts
  <2>2. ASSUME NEW q \in Proc \ {p} PROVE StoredOf(q)'
    <3>1. Stays(q) /\ UNCHANGED <<functions, call>>
      BY <2>1 DEF Arrival, storeVars
    <3>2. req[q].pc # "idle" => raced[req[q].fn] \subseteq raced'[req[q].fn]
      BY <1>0, <2>1 DEF Arrival, Unused
    <3> QED
      BY <1>2, <3>1, <3>2, OwnBefore DEF Stays
  <2>3. StoredOf(p)'
    <3>1. req'[p].pc = "begin" /\ call'[p].at = "idle"
      BY <1>0, <2>1 DEF Arrival, storeVars, PathOf
    <3> QED
      BY <3>1 DEF StoredOf, Stored
  <2> QED
    BY <1>1, <2>2, <2>3
<1>4. ASSUME NEW p \in Proc, Serve(p) PROVE StoredFits'
  <2>0. Frame(p)
    BY <1>4, ServeFrame
  <2>1. ASSUME NEW q \in Proc, req[q].pc # "idle", SameRequest(q), Own(q)' PROVE Own(q)
    BY <1>0, <2>0, <2>1, OwnBefore DEF Frame
  <2>2. ASSUME NEW q \in Proc \ {p} PROVE StoredOf(q)'
    BY <1>2, <1>4, <2>0, <2>1, FunctionKept DEF Frame, Stays
  <2>3. SUFFICES StoredOf(p)'
    BY <1>1, <2>2
  <2>4. ASSUME Leaves(p) PROVE StoredOf(p)'
    BY <2>4 DEF Leaves, StoredOf
  <2>5. ASSUME NEW pc, NEW h, NEW ok, Comes(p, pc, h, ok), UNCHANGED storeVars,
               req[p].pc \in {"count", "create", "boot", "created", "resolve", "scale", "scaling",
                              "scaled"},
               pc \notin {"idle", "begin", "store"},
               req[p].pc \notin {"count", "create", "boot", "created", "resolve"}
                 => pc \notin {"count", "create", "boot", "created", "resolve"},
               pc \in {"count", "create"} => req[p].pc \in {"count", "create"} /\ h = req[p].held
        PROVE  StoredOf(p)'
    <3>1. SUFFICES ASSUME Own(p)' PROVE StoredOf(p)'
      BY DEF StoredOf
    <3>2. Own(p) /\ SameRequest(p)
      BY <2>1, <2>5, <3>1 DEF Comes
    <3>3. call[p].at = "idle" /\ ~Stored(p)' /\ req[p].kind # "update"
      BY <1>0, <2>5, <3>2 DEF PathOf, Stored, Comes, StoredOf
    <3> QED
      BY <1>0, <2>5, <3>2, <3>3 DEF StoredOf, Comes, SameRequest, storeVars
  <2>6. CASE StoreStep(p) /\ UNCHANGED providerVars
    BY <1>0, <2>6, CallsStore
  <2> USE DEF At
  <2>7. CASE Reject(p) \/ DeleteEnds(p) \/ Resolve(p) \/ DeployEnds(p)
    BY <2>4, <2>7, AnswerFacts DEF Reject, DeleteEnds, Resolve, DeployEnds
  <2>8. CASE DeployBegins(p)
    <3>1. /\ Enter(p, "check", req[p].fn, req[p].image) /\ Move(p, "store")
          /\ req[p].kind = "deploy"
      BY <2>8 DEF DeployBegins
    <3>2. call'[p].at = "check"
      <4>1. PICK f, i : f = req[p].fn /\ i = req[p].image
        OBVIOUS
      <4>2. Enter(p, "check", f, i)
        BY <3>1, <4>1 DEF Enter
      <4> QED
        BY <4>1, <4>2, EnterFacts
    <3>3. SameRequest(p) /\ req'[p].pc = "store"
      BY <3>1, MoveFacts DEF Comes
    <3> QED
      BY <3>1, <3>2, <3>3 DEF StoredOf, Stored, SameRequest
  <2>9. CASE UpdateBegins(p)
    <3>1. CASE FunctionExists(req[p].fn)
      BY <2>4, <2>9, <3>1, AnswerFacts DEF UpdateBegins
    <3>2. CASE ~FunctionExists(req[p].fn)
      <4>1. /\ Enter(p, "read", req[p].fn, req[p].image) /\ Move(p, "store")
            /\ req[p].kind = "update" /\ req[p].pc = "begin" /\ UNCHANGED functions
        BY <2>9, <3>2 DEF UpdateBegins
      <4>2. call'[p].at = "read"
        <5>1. PICK f, i : f = req[p].fn /\ i = req[p].image
          OBVIOUS
        <5>2. Enter(p, "read", f, i)
          BY <4>1, <5>1 DEF Enter
        <5> QED
          BY <5>1, <5>2, EnterFacts
      <4>3. SameRequest(p) /\ req'[p].pc = "store"
        BY <4>1, MoveFacts DEF Comes
      <4>4. functions[req[p].fn].image = None
        BY <1>0, <3>2, <4>1, FunctionTypes DEF FunctionExists
      <4> QED
        BY <4>1, <4>2, <4>3, <4>4 DEF StoredOf, Stored, SameRequest
    <3> QED
      BY <3>1, <3>2
  <2>10. CASE DeployStored(p)
    <3>1. \/ ~call[p].ok /\ Answer(p, 400)
          \/ call[p].ok /\ Note(p, "create", call[p].image)
      BY <2>10 DEF DeployStored, Note
    <3>2. CASE ~call[p].ok /\ Answer(p, 400)
      BY <2>4, <3>2, AnswerFacts
    <3>3. CASE call[p].ok /\ Note(p, "create", call[p].image)
      <4>1. /\ SameRequest(p) /\ req'[p].pc = "create" /\ req'[p].held = call[p].image
        BY <3>3, NoteFacts DEF Comes
      <4>2. /\ req[p].kind = "deploy" /\ Stored(p) /\ call[p].image = req[p].image
            /\ UNCHANGED functions /\ req[p].pc # "idle" /\ req[p].image \in Image
        BY <1>0, <2>10, <3>3 DEF DeployStored, Stored, PathOf, Forget, Base, Inductive, RequestFits
      <4>3. call'[p].at = "idle"
        BY <2>10, ForgetFacts DEF DeployStored
      <4>4. Own(p)' => functions[req[p].fn].image = req[p].image
        BY <1>0, <2>1, <4>1, <4>2 DEF StoredOf
      <4> QED
        BY <4>1, <4>2, <4>3, <4>4, NoneIsNothing DEF StoredOf, Stored, SameRequest
    <3> QED
      BY <3>1, <3>2, <3>3
  <2>11. CASE UpdateStored(p)
    <3>1. \/ Answer(p, 400)
          \/ /\ call[p].ok
             /\ Note(p, "create", call[p].image) \/ Note(p, "scale", None)
      BY <2>11 DEF UpdateStored, Note, Base, TypeOK, StoreTypeOK
    <3>2. CASE Answer(p, 400)
      BY <2>4, <3>2, AnswerFacts
    <3>3. CASE call[p].ok /\ (Note(p, "create", call[p].image) \/ Note(p, "scale", None))
      <4>1. SameRequest(p)
        BY <3>3, NoteFacts DEF Comes
      <4>2. req[p].kind = "update" /\ Stored(p) /\ req[p].pc # "idle"
        BY <2>11, <3>3 DEF UpdateStored, Stored
      <4>3. ~Own(p)
        BY <1>0, <4>2 DEF StoredOf
      <4> QED
        BY <2>1, <4>1, <4>2, <4>3 DEF StoredOf
    <3> QED
      BY <3>1, <3>2, <3>3
  <2>12. CASE DeleteBegins(p)
    <3>1. Answer(p, 404) \/ Move(p, "scale")
      BY <2>12 DEF DeleteBegins
    <3>2. CASE Move(p, "scale")
      <4>1. SameRequest(p) /\ req'[p].pc = "scale" /\ req[p].kind = "delete"
        BY <2>12, <3>2, MoveFacts DEF DeleteBegins, Comes
      <4>2. call'[p].at = "idle"
        BY <1>0, <2>12 DEF DeleteBegins, storeVars, PathOf
      <4> QED
        BY <4>1, <4>2 DEF StoredOf, Stored, SameRequest
    <3> QED
      BY <2>4, <3>1, <3>2, AnswerFacts
  <2>13. CASE LoadFunction(p)
    <3>1. \/ Answer(p, 404) \/ Answer(p, 503)
          \/ FunctionExists(req[p].fn) /\ Note(p, "count", functions[req[p].fn].image)
      BY <2>13 DEF LoadFunction, Note
    <3>2. CASE FunctionExists(req[p].fn) /\ Note(p, "count", functions[req[p].fn].image)
      <4>1. /\ SameRequest(p) /\ req'[p].pc = "count"
            /\ req'[p].held = functions[req[p].fn].image
        <5>1. PICK i : i = functions[req[p].fn].image
          OBVIOUS
        <5>2. Note(p, "count", i)
          BY <3>2, <5>1 DEF Note
        <5> QED
          BY <5>1, <5>2, NoteFacts DEF Comes
      <4>2. /\ req[p].kind \in {"scale", "invoke"} /\ req[p].pc = "begin"
            /\ call'[p].at = "idle" /\ UNCHANGED functions
        BY <1>0, <2>13 DEF LoadFunction, storeVars, PathOf
      <4>3. functions[req[p].fn].image # None
        BY <1>0, <3>2, <4>2, FunctionTypes DEF FunctionExists
      <4> QED
        BY <4>1, <4>2, <4>3 DEF StoredOf, Stored, SameRequest
    <3> QED
      BY <2>4, <3>1, <3>2, AnswerFacts
  <2>14. CASE CountReplicas(p)
    <3>1. Move(p, "create") \/ Note(p, "scale", None) \/ Note(p, "resolve", None)
      BY <2>14 DEF CountReplicas, Move, Note
    <3>2. req[p].pc = "count" /\ UNCHANGED storeVars
      BY <2>14 DEF CountReplicas
    <3> QED
      BY <2>5, <3>1, <3>2, MoveFacts, NoteFacts
  <2>15. CASE CreateMachine(p)
    BY <2>5, <2>15, CreateFacts
  <2>16. CASE Booted(p)
    BY <2>5, <2>16, BootedFacts
  <2>17. CASE BootFails(p)
    <3>1. CASE req[p].pc = "boot" /\ Comes(p, "created", req[p].held, FALSE)
      BY <2>5, <2>17, <3>1, BootFailsFacts
    <3>2. CASE req[p].pc = "scaling" /\ Stays(p)
      BY <2>5, <2>17, <3>2, BootFailsFacts DEF Stays, Comes
    <3> QED
      BY <2>17, <3>1, <3>2, BootFailsFacts
  <2>18. CASE CreateFails(p)
    BY <2>5, <2>18, SpoiltFacts DEF CreateFails, Spoilt
  <2>19. CASE InvokeCreated(p)
    BY <2>4, <2>5, <2>19, AnswerFacts, MoveFacts DEF InvokeCreated
  <2>20. CASE ScaleCreated(p)
    BY <2>5, <2>20, MoveFacts DEF ScaleCreated
  <2>21. CASE UpdateCreated(p)
    BY <2>4, <2>5, <2>21, AnswerFacts, MoveFacts DEF UpdateCreated
  <2>22. CASE ScaleLocks(p)
    BY <2>5, <2>22, LocksFacts
  <2>23. CASE CloneMachine(p)
    BY <2>5, <2>23, CloneFacts DEF Stays, Comes
  <2>24. CASE DeleteMachine(p)
    BY <2>5, <2>24, DeleteFacts DEF Stays, Comes
  <2>25. CASE ScaleEnds(p)
    BY <2>4, <2>5, <2>25, EndsFacts
  <2> QED
    BY <1>4, <2>6, <2>7, <2>8, <2>9, <2>10, <2>11, <2>12, <2>13, <2>14, <2>15, <2>16, <2>17,
       <2>18, <2>19, <2>20, <2>21, <2>22, <2>23, <2>24, <2>25 DEF Serve
<1>5. CASE Condemn
  <2>1. (\A q \in Proc : Stays(q)) /\ UNCHANGED <<functions, call, raced>>
    BY <1>5, CondemnFacts DEF storeVars
  <2> QED
    BY <1>1, <1>2, <2>1, OwnBefore DEF Stays
<1>6. CASE Restart
  BY <1>6 DEF Restart, NoRequest, StoredFits
<1>7. CASE UNCHANGED vars
  BY <1>1, <1>2, <1>7 DEF vars, providerVars, storeVars, Stays, SameRequest, Own, Calm
<1> QED
  BY <1>3, <1>4, <1>5, <1>6, <1>7 DEF Next

-----------------------------------------------------------------------------
(* What runs was made from what is stored, and a deletion takes it all. *)

LEMMA RunningFinite ==
  ASSUME NEW f
  PROVE  IsFiniteSet(Running(f)) /\ IsFiniteSet(Running(f)')
  BY MachineFinite, FS_Subset DEF Running

(* Only a boot adds to what runs for a function. *)
LEMMA RunningShrinks ==
  ASSUME Base, BootFits, NEW p \in Proc, Serve(p), NEW f, ~(Booted(p) /\ req[p].fn = f)
  PROVE  Running(f)' \subseteq Running(f)
<1>1. CASE Talks(p)
  BY <1>1 DEF Talks, Running
<1>2. CASE CreateMachine(p)
  BY <1>2, CreateFacts DEF Running, Puts
<1>3. CASE Booted(p)
  <2>1. PICK m \in Booting(p) : Puts(m, "run", machine[m].fn, machine[m].image, None)
    BY <1>3, BootedFacts
  <2>2. machine[m].fn = req[p].fn
    BY DEF Booting, BootFits
  <2> QED
    BY <1>3, <2>1, <2>2 DEF Running, Puts
<1>4. CASE BootFails(p)
  BY <1>4, BootFailsFacts DEF Running, Removes
<1>5. CASE ScaleLocks(p) \/ ScaleEnds(p)
  BY <1>5, LocksFacts, EndsFacts DEF Running
<1>6. CASE CloneMachine(p)
  <2>1. CASE UNCHANGED machine
    BY <2>1 DEF Running
  <2>2. ASSUME NEW source, NEW m \in Machine,
               Puts(m, "boot", machine[source].fn, machine[source].image, p)
        PROVE  Running(f)' \subseteq Running(f)
    BY <2>2 DEF Running, Puts
  <2> QED
    BY <1>6, <2>1, <2>2, CloneFacts
<1>7. CASE DeleteMachine(p)
  BY <1>7, DeleteFacts DEF Running, Removes
<1> QED
  BY <1>1, <1>2, <1>3, <1>4, <1>5, <1>6, <1>7, TalksFacts DEF Builds, Scales

LEMMA ReplicasShrink ==
  ASSUME NEW f, Running(f)' \subseteq Running(f)
  PROVE  Replicas(f)' <= Replicas(f) /\ Replicas(f) \in Nat /\ Replicas(f)' \in Nat
<1>1. IsFiniteSet(Running(f)) /\ IsFiniteSet(Running(f)')
  BY RunningFinite
<1> QED
  BY <1>1, FS_Subset, FS_CardinalityType DEF Replicas

(* A deletion or an update that is undisturbed has its function for itself. *)
LEMMA DeleteAlone ==
  ASSUME Base, MeetFits, NEW q \in Proc, req[q].pc # "idle", req[q].kind = "delete", Own(q),
         NEW p \in Proc \ {q}, req[p].pc # "idle"
  PROVE  req[p].fn # req[q].fn
  BY DEF MeetFits, Serving, Own, Calm, Consequence

DeleteOf(p) ==
  req[p].kind = "delete" /\ Own(p) =>
    /\ req[p].pc = "scaling" =>
         scaling.grow = 0 /\ Booting(p) = {} /\ Replicas(req[p].fn) <= scaling.shrink
    /\ req[p].pc = "scaled" => Running(req[p].fn) = {}

(* Nobody else gives a machine to p or takes one from it. *)
LEMMA BootingKept ==
  ASSUME Base, BootFits, NEW p \in Proc, Serve(p), NEW q \in Proc \ {p}
  PROVE  Booting(q)' = Booting(q)
<1>1. CASE Talks(p) \/ ScaleLocks(p) \/ ScaleEnds(p)
  BY <1>1, LocksFacts, EndsFacts DEF Talks, Booting
<1>2. CASE CreateMachine(p)
  BY <1>2, CreateFacts DEF Booting, Puts
<1>3. CASE Booted(p)
  BY <1>3, BootedFacts DEF Booting, Puts
<1>4. CASE BootFails(p)
  <2>1. PICK m \in Booting(p) : Removes(m)
    BY <1>4, BootFailsFacts
  <2> QED
    BY <2>1 DEF Booting, Removes
<1>5. CASE CloneMachine(p)
  <2>1. CASE UNCHANGED machine
    BY <2>1 DEF Booting
  <2>2. ASSUME NEW source, NEW m \in Machine, machine[m].state = "none",
               Puts(m, "boot", machine[source].fn, machine[source].image, p)
        PROVE  Booting(q)' = Booting(q)
    BY <2>2 DEF Booting, Puts
  <2> QED
    BY <1>5, <2>1, <2>2, CloneFacts
<1>6. CASE DeleteMachine(p)
  BY <1>6, DeleteFacts DEF Booting, Running, Removes
<1> QED
  BY <1>1, <1>2, <1>3, <1>4, <1>5, <1>6, TalksFacts DEF Builds, Scales

(* While p scales, nobody else moves the lock. *)
LEMMA LockKept ==
  ASSUME Base, NEW p \in Proc, Serve(p), NEW q \in Proc \ {p}, req[q].pc = "scaling"
  PROVE  UNCHANGED scaling
<1>1. scaling.by = q
  BY BaseFacts DEF ScalingFits
<1>2. ~ScaleLocks(p) /\ ~CloneMachine(p) /\ ~DeleteMachine(p) /\ ~ScaleEnds(p)
  BY <1>1, NoneIsNobody DEF ScaleLocks, CloneMachine, DeleteMachine, ScaleEnds
<1> QED
  BY <1>2, TalksFacts, CreateFacts, BootedFacts, BootFailsFacts DEF Builds, Scales, Talks

(* The function of a request, by a name that does not change. *)
LEMMA OfFunction ==
  ASSUME NEW q, NEW f, f = req[q].fn, SameRequest(q)
  PROVE  /\ Running(req[q].fn) = Running(f) /\ Running(req[q].fn)' = Running(f)'
         /\ Replicas(req[q].fn) = Replicas(f) /\ Replicas(req[q].fn)' = Replicas(f)'
<1>1. req'[q].fn = f
  BY DEF SameRequest
<1>2. Running(req[q].fn) = Running(f) /\ Running(req[q].fn)' = Running(f)'
  BY <1>1 DEF Running
<1> QED
  BY <1>2 DEF Replicas

LEMMA DeleteStep ==
  ASSUME Base, PathFits, BootFits, MeetFits, DeleteFits, [Next]_vars PROVE DeleteFits'
<1> USE BaseFacts
<1>0. /\ \A q \in Proc : DeleteOf(q) /\ PathOf(q)
      /\ \A q \in Proc : req[q].pc # "idle" => req[q].fn \in Fn
      /\ \A m \in Machine : Belongs(m)
  BY DEF DeleteFits, DeleteOf, PathFits, PathOf, BootFits, Belongs, Base, Inductive, RequestFits
<1>1. ASSUME \A q \in Proc : DeleteOf(q)' PROVE DeleteFits'
  BY <1>1 DEF DeleteFits, DeleteOf
<1>2. ASSUME NEW q \in Proc, NEW f, f = req[q].fn, Stays(q), UNCHANGED scaling,
             Booting(q)' \subseteq Booting(q), Running(f)' \subseteq Running(f), Own(q)' => Own(q)
      PROVE  DeleteOf(q)'
  <2>1. /\ Running(req[q].fn) = Running(f) /\ Running(req[q].fn)' = Running(f)'
        /\ Replicas(req[q].fn) = Replicas(f) /\ Replicas(req[q].fn)' = Replicas(f)'
    BY <1>2, OfFunction DEF Stays
  <2>2. Replicas(f)' <= Replicas(f) /\ Replicas(f) \in Nat /\ Replicas(f)' \in Nat
    BY <1>2, ReplicasShrink
  <2>3. scaling.shrink \in Nat
    BY DEF Base, TypeOK
  <2>4. SUFFICES ASSUME req[q].kind = "delete", Own(q)
                 PROVE  /\ req'[q].pc = "scaling" =>
                             scaling'.grow = 0 /\ Booting(q)' = {} /\ Replicas(f)' <= scaling'.shrink
                        /\ req'[q].pc = "scaled" => Running(f)' = {}
    BY <1>2, <2>1 DEF DeleteOf, Stays, SameRequest
  <2>5. /\ req[q].pc = "scaling" =>
             scaling.grow = 0 /\ Booting(q) = {} /\ Replicas(f) <= scaling.shrink
        /\ req[q].pc = "scaled" => Running(f) = {}
    BY <1>0, <2>1, <2>4 DEF DeleteOf
  <2>6. req'[q].pc = req[q].pc /\ UNCHANGED scaling
    BY <1>2 DEF Stays
  <2>7. Replicas(f) <= scaling.shrink => Replicas(f)' <= scaling.shrink
    BY <2>2, <2>3
  <2> QED
    BY <1>2, <2>5, <2>6, <2>7
<1>3. ASSUME NEW p \in Proc, Receive(p) PROVE DeleteFits'
  <2>1. PICK k \in Kind, f \in Fn : Arrival(p, k, f)
    BY <1>3, ReceiveFacts
  <2>2. ASSUME NEW q \in Proc \ {p}, req[q].pc # "idle" PROVE DeleteOf(q)'
    <3>1. Stays(q) /\ UNCHANGED <<machine, scaling>>
      BY <2>1 DEF Arrival
    <3>2. raced[req[q].fn] \subseteq raced'[req[q].fn]
      BY <1>0, <2>1, <2>2 DEF Arrival, Unused
    <3> QED
      <4>1. PICK g : g = req[q].fn
        OBVIOUS
      <4>2. Running(g)' = Running(g) /\ Booting(q)' = Booting(q)
        BY <3>1 DEF Running, Booting
      <4>3. Own(q)' => Own(q)
        BY <3>1, <3>2, OwnBefore DEF Stays
      <4> QED
        BY <1>2, <3>1, <4>1, <4>2, <4>3
  <2>3. ASSUME NEW q \in Proc, req'[q].pc \in {"idle", "begin"} PROVE DeleteOf(q)'
    BY <2>3 DEF DeleteOf
  <2> QED
    BY <1>1, <2>1, <2>2, <2>3 DEF Arrival, Stays
<1>4. ASSUME NEW p \in Proc, Serve(p) PROVE DeleteFits'
  <2>0. Frame(p)
    BY <1>4, ServeFrame
  <2>1. ASSUME NEW q \in Proc, req[q].pc # "idle", SameRequest(q), Own(q)' PROVE Own(q)
    BY <1>0, <2>0, <2>1, OwnBefore DEF Frame
  <2>2. ASSUME NEW q \in Proc \ {p} PROVE DeleteOf(q)'
    <3>1. Stays(q) /\ Booting(q)' = Booting(q)
      BY <1>4, <2>0, BootingKept DEF Frame
    <3>2. SUFFICES ASSUME req[q].kind = "delete", req[q].pc \in {"scaling", "scaled"},
                          Own(q), Own(q)'
                   PROVE  DeleteOf(q)'
      BY <2>1, <3>1 DEF DeleteOf, Stays, SameRequest
    <3>3. PICK f : f = req[q].fn
      OBVIOUS
    <3>4. ~(Booted(p) /\ req[p].fn = f)
      BY <3>2, <3>3, DeleteAlone, BootedFacts
    <3>5. Running(f)' \subseteq Running(f)
      BY <1>4, <3>4, RunningShrinks
    <3>6. CASE req[q].pc = "scaling"
      <4>1. UNCHANGED scaling
        BY <1>4, <3>6, LockKept
      <4> QED
        BY <1>2, <3>1, <3>2, <3>3, <3>5, <4>1
    <3>7. CASE req[q].pc = "scaled"
      <4>1. Running(req[q].fn)' = Running(f)' /\ Running(f) = {}
        BY <1>0, <3>1, <3>2, <3>3, <3>7, OfFunction DEF DeleteOf, Stays
      <4> QED
        BY <3>1, <3>5, <3>7, <4>1 DEF DeleteOf, Stays
    <3> QED
      BY <3>2, <3>6, <3>7
  <2>3. SUFFICES DeleteOf(p)'
    BY <1>1, <2>2
  <2>4. SUFFICES ASSUME req'[p].kind = "delete", req'[p].pc \in {"scaling", "scaled"}, Own(p)'
                 PROVE  DeleteOf(p)'
    BY DEF DeleteOf
  <2>5. /\ SameRequest(p) /\ req[p].kind = "delete" /\ req[p].pc # "idle" /\ Own(p)
        /\ req[p].target = 0 /\ req[p].fn \in Fn
    BY <1>0, <2>0, <2>1, <2>4 DEF Frame, Leaves, SameRequest, PathOf
  <2>6. req[p].pc \in {"begin", "scale", "scaling", "scaled"}
    BY <1>0, <2>5 DEF PathOf, Path
  <2>7. PICK f \in Fn : f = req[p].fn
    BY <2>5
  <2>8. /\ Running(req[p].fn) = Running(f) /\ Running(req[p].fn)' = Running(f)'
        /\ Replicas(req[p].fn) = Replicas(f) /\ Replicas(req[p].fn)' = Replicas(f)'
        /\ Replicas(f) \in Nat /\ Replicas(f)' \in Nat
    BY <2>5, <2>7, OfFunction, RunningFinite, FS_CardinalityType DEF Replicas
  <2>9. SUFFICES /\ req'[p].pc = "scaling" =>
                      scaling'.grow = 0 /\ Booting(p)' = {} /\ Replicas(f)' <= scaling'.shrink
                 /\ req'[p].pc = "scaled" => Running(f)' = {}
    BY <2>8 DEF DeleteOf
  <2>10. CASE Talks(p)
    <3>1. Stays(p) /\ UNCHANGED <<machine, scaling>>
      BY <2>4, <2>10 DEF Talks
    <3>2. Running(f)' = Running(f) /\ Booting(p)' = Booting(p)
      BY <3>1 DEF Running, Booting
    <3> QED
      BY <1>0, <2>5, <2>8, <3>1, <3>2 DEF DeleteOf, Stays, Replicas
  <2>11. CASE Builds(p)
    <3>1. req[p].pc = "scaling" /\ Booting(p) # {}
      BY <2>6, <2>11, CreateFacts, BootedFacts, BootFailsFacts DEF Builds
    <3> QED
      BY <1>0, <2>5, <3>1 DEF DeleteOf
  <2>12. CASE ScaleLocks(p)
    <3>1. /\ req[p].pc = "scale" /\ req'[p].pc = "scaling" /\ UNCHANGED machine
          /\ scaling'.grow \in Nat /\ scaling'.shrink \in Nat
          /\ Replicas(f) + scaling'.grow = 0 + scaling'.shrink
          /\ scaling'.grow = 0 \/ scaling'.shrink = 0
      BY <2>5, <2>8, <2>12, LocksFacts DEF Comes
    <3>2. Booting(p)' = {} /\ Replicas(f)' = Replicas(f)
      BY <1>0, <3>1 DEF Booting, Belongs, Replicas, Running
    <3> QED
      BY <2>8, <3>1, <3>2
  <2>13. CASE CloneMachine(p)
    BY <1>0, <2>5, <2>13, CloneFacts DEF DeleteOf
  <2>14. CASE DeleteMachine(p)
    <3>1. /\ req[p].pc = "scaling" /\ Stays(p) /\ scaling'.grow = scaling.grow
          /\ scaling'.shrink \in Nat
      BY <2>14, DeleteFacts
    <3>2. PICK m \in Running(f) : Removes(m)
      BY <2>8, <2>14, DeleteFacts
    <3>3. Running(f)' = Running(f) \ {m} /\ Booting(p)' \subseteq Booting(p)
      BY <3>2 DEF Running, Booting, Removes
    <3>4. Replicas(f)' = Replicas(f) - 1
      BY <3>2, <3>3, RunningFinite, FS_RemoveElement DEF Replicas
    <3>5. scaling'.shrink = scaling.shrink - 1
      <4>1. SUFFICES ASSUME Disturbed(req[p].fn), raced'[req[p].fn] = {"lost", "extra"}
                     PROVE  FALSE
        BY <2>5, <2>14, DeleteFacts
      <4> QED
        BY <2>4, <2>5, <4>1 DEF Disturbed, Own, Calm, SameRequest
    <3>6. Replicas(f) <= scaling.shrink /\ scaling.grow = 0 /\ Booting(p) = {}
      BY <1>0, <2>5, <2>8, <3>1 DEF DeleteOf
    <3>7. scaling.shrink \in Nat
      BY DEF Base, TypeOK
    <3> QED
      BY <2>8, <3>1, <3>3, <3>4, <3>5, <3>6, <3>7 DEF Stays
  <2>15. CASE ScaleEnds(p)
    <3>1. /\ req[p].pc = "scaling" /\ scaling.shrink = 0 /\ req'[p].pc = "scaled"
          /\ UNCHANGED machine
      BY <2>5, <2>15, EndsFacts DEF Comes
    <3>2. Replicas(f) = 0
      BY <1>0, <2>5, <2>8, <3>1 DEF DeleteOf
    <3>3. Running(f) = {}
      BY <3>2, RunningFinite, FS_EmptySet DEF Replicas
    <3> QED
      BY <3>1, <3>3 DEF Running
  <2> QED
    BY <1>4, <2>10, <2>11, <2>12, <2>13, <2>14, <2>15, TalksFacts DEF Scales
<1>5. CASE Condemn
  <2>1. (\A q \in Proc : Stays(q)) /\ UNCHANGED <<scaling, raced>>
    BY <1>5, CondemnFacts
  <2>2. PICK m \in Machine : machine[m].state = "run" /\ Removes(m)
    BY <1>5, CondemnFacts
  <2>3. ASSUME NEW q \in Proc PROVE DeleteOf(q)'
    <3>1. PICK f : f = req[q].fn
      OBVIOUS
    <3>2. Booting(q)' \subseteq Booting(q) /\ Running(f)' \subseteq Running(f)
      BY <2>1, <2>2 DEF Booting, Running, Removes
    <3>3. Own(q)' => Own(q)
      BY <2>1, OwnBefore DEF Stays
    <3> QED
      BY <1>2, <2>1, <3>1, <3>2, <3>3
  <2> QED
    BY <1>1, <2>3
<1>6. CASE Restart
  BY <1>6 DEF Restart, NoRequest, DeleteFits
<1>7. CASE UNCHANGED vars
  <2>1. UNCHANGED <<req, machine, scaling, raced>>
    BY <1>7 DEF vars, providerVars
  <2> QED
    BY <1>0, <1>1, <2>1 DEF DeleteOf, Own, Calm, Running, Booting, Replicas
<1> QED
  BY <1>3, <1>4, <1>5, <1>6, <1>7 DEF Next

(* The function of a machine stays as it is while nothing disturbs it: who *)
(* would store it finds it there, who deletes it has taken the machine.    *)
LEMMA FunctionOfMachine ==
  ASSUME Base, PathFits, BootFits, MeetFits, StoredFits, MachinesFit, DeleteFits,
         NEW p \in Proc, Serve(p),
         NEW m \in Machine, machine[m].state # "none", Calm(machine[m].fn)
  PROVE  functions'[machine[m].fn] = functions[machine[m].fn]
<1> DEFINE f == machine[m].fn
<1>1. f \in Fn /\ functions[f].image # None
  BY DEF BootFits, MachinesFit
<1>2. SUFFICES ASSUME functions'[f] # functions[f] PROVE FALSE
  OBVIOUS
<1>3. PathOf(p)
  BY DEF PathFits, PathOf
<1>4. functions \in [Fn -> Function \cup {NoFunction}]
  BY DEF Base, TypeOK, StoreTypeOK
<1>5. ASSUME req[p].fn = f PROVE Own(p) /\ (req[p].pc # "idle" => StoredOf(p)) /\ DeleteOf(p)
  BY <1>5 DEF Own, StoredFits, StoredOf, DeleteFits, DeleteOf
<1>6. CASE StoreStep(p)
  <2>1. call[p].at # "idle" /\ req[p].pc = "store" /\ call[p].fn = req[p].fn
    BY <1>3, <1>6, StoreStepCall DEF PathOf
  <2>2. /\ StoreFunction(p) \/ UpdateKeeps(p) \/ UpdateDrops(p)
        /\ req[p].fn = f
    BY <1>1, <1>2, <1>4, <1>6, <2>1 DEF StoreStep, CheckAbsent, ResolveManifest, ImageCached,
       ImageMissing, UnpackBegins, UnpackEnds, PullFails, StoreImage, UpdateReads,
       StoreFunction, UpdateKeeps, UpdateDrops
  <2>3. call[p].at \in {"store", "keep", "drop"}
    BY <2>2 DEF StoreFunction, UpdateKeeps, UpdateDrops
  <2> QED
    BY <1>1, <1>5, <2>1, <2>2, <2>3 DEF StoredOf
<1>7. CASE DeleteEnds(p)
  <2>1. req[p].fn = f /\ req[p].kind = "delete" /\ req[p].pc = "scaled"
    BY <1>1, <1>2, <1>4, <1>7 DEF DeleteEnds, DeleteFunction, At
  <2>2. machine[m].state # "run"
    BY <1>5, <2>1 DEF DeleteOf, Running
  <2>3. machine[m].state = "boot"
    BY <2>2 DEF Base, TypeOK
  <2>4. PICK q \in Proc : req[q].pc \in {"boot", "scaling"} /\ req[q].fn = f
    BY <2>3 DEF BootFits
  <2> QED
    BY <1>5, <2>1, <2>4, DeleteAlone
<1>8. CASE DeployBegins(p) \/ DeployStored(p) \/ UpdateBegins(p) \/ UpdateStored(p)
  BY <1>2, <1>8 DEF DeployBegins, DeployStored, UpdateBegins, UpdateStored, Forget
<1>9. CASE Reject(p) \/ DeleteBegins(p) \/ LoadFunction(p) \/ CountReplicas(p) \/ Resolve(p)
  BY <1>2, <1>9 DEF Reject, DeleteBegins, LoadFunction, CountReplicas, Resolve, storeVars
<1>10. CASE CreateMachine(p) \/ Booted(p) \/ BootFails(p) \/ CreateFails(p)
  BY <1>2, <1>10 DEF CreateMachine, Booted, BootFails, CreateFails, storeVars
<1>11. CASE DeployEnds(p) \/ InvokeCreated(p) \/ ScaleCreated(p) \/ UpdateCreated(p)
  BY <1>2, <1>11 DEF DeployEnds, InvokeCreated, ScaleCreated, UpdateCreated, storeVars
<1>12. CASE ScaleLocks(p) \/ CloneMachine(p) \/ DeleteMachine(p) \/ ScaleEnds(p)
  BY <1>2, <1>12 DEF ScaleLocks, CloneMachine, DeleteMachine, ScaleEnds, storeVars
<1> QED
  BY <1>6, <1>7, <1>8, <1>9, <1>10, <1>11, <1>12 DEF Serve

Matches(m) ==
  machine[m].state # "none" /\ Calm(machine[m].fn) =>
    machine[m].image # None /\ functions[machine[m].fn].image = machine[m].image

LEMMA MachinesStep ==
  ASSUME Base, PathFits, BootFits, MeetFits, StoredFits, MachinesFit, DeleteFits, [Next]_vars
  PROVE  MachinesFit'
<1> USE BaseFacts
<1>0. /\ \A m \in Machine : Belongs(m) /\ Matches(m)
      /\ \A q \in Proc : req[q].pc # "idle" => req[q].fn \in Fn
  BY DEF MachinesFit, Matches, BootFits, Belongs, Base, Inductive, RequestFits
<1>1. ASSUME \A m \in Machine : Matches(m)' PROVE MachinesFit'
  BY <1>1 DEF MachinesFit, Matches
<1>2. ASSUME NEW p \in Proc, Receive(p) PROVE MachinesFit'
  <2>1. PICK k \in Kind, f \in Fn : Arrival(p, k, f)
    BY <1>2, ReceiveFacts
  <2>2. ASSUME NEW m \in Machine, machine[m].state # "none"
        PROVE  raced[machine[m].fn] \subseteq raced'[machine[m].fn]
    BY <1>0, <2>1, <2>2 DEF Arrival, Unused, Belongs
  <2> QED
    BY <1>0, <1>1, <2>1, <2>2 DEF Arrival, storeVars, Matches, Calm
<1>3. ASSUME NEW p \in Proc, Serve(p) PROVE MachinesFit'
  <2>1. \A f \in Fn : Calm(f)' => Calm(f)
    BY <1>3, ServeFrame DEF Frame, Calm
  <2>2. ASSUME NEW m \in Machine, machine[m].state # "none", Calm(machine[m].fn)
        PROVE  functions'[machine[m].fn] = functions[machine[m].fn]
    BY <1>3, <2>2, FunctionOfMachine
  <2>3. ASSUME NEW m \in Machine, machine'[m].fn = machine[m].fn,
               machine'[m].image = machine[m].image, machine[m].state # "none"
        PROVE  Matches(m)'
    <3>1. PICK f \in Fn : f = machine[m].fn
      BY <1>0, <2>3 DEF Belongs
    <3> QED
      BY <1>0, <2>1, <2>2, <2>3, <3>1 DEF Matches, Calm
  <2>4. ASSUME NEW m \in Machine, machine'[m] = machine[m] PROVE Matches(m)'
    <3>1. CASE machine[m].state = "none"
      BY <2>4, <3>1 DEF Matches
    <3> QED
      BY <2>3, <2>4, <3>1
  <2>5. ASSUME NEW m \in Machine, machine'[m].state = "none" PROVE Matches(m)'
    BY <2>5 DEF Matches
  <2>6. ASSUME NEW m \in Machine, Removes(m) PROVE MachinesFit'
    BY <1>1, <2>4, <2>5, <2>6 DEF Removes
  <2>7. CASE UNCHANGED machine
    BY <1>1, <2>4, <2>7
  <2>8. CASE CreateMachine(p)
    <3>1. PICK m \in Machine : Puts(m, "boot", req[p].fn, req[p].held, p)
      BY <2>8, CreateFacts
    <3>2. req[p].pc = "create" /\ UNCHANGED <<functions, raced>>
      BY <2>8, CreateFacts DEF storeVars
    <3>3. Calm(req[p].fn) => req[p].held # None /\ functions[req[p].fn].image = req[p].held
      BY <3>2 DEF StoredFits, Own
    <3>4. Matches(m)'
      BY <3>1, <3>2, <3>3 DEF Matches, Puts, Calm
    <3> QED
      BY <1>1, <2>4, <3>1, <3>4 DEF Puts
  <2>9. CASE Booted(p)
    <3>1. PICK m \in Booting(p) : Puts(m, "run", machine[m].fn, machine[m].image, None)
      BY <2>9, BootedFacts
    <3>2. Matches(m)'
      BY <2>3, <3>1 DEF Puts, Booting
    <3> QED
      BY <1>1, <2>4, <3>1, <3>2 DEF Puts
  <2>10. CASE BootFails(p)
    BY <2>6, <2>10, BootFailsFacts DEF Booting
  <2>11. CASE ScaleLocks(p) \/ ScaleEnds(p)
    BY <2>7, <2>11, LocksFacts, EndsFacts
  <2>12. CASE CloneMachine(p)
    <3>1. ASSUME NEW source \in Running(req[p].fn), NEW m \in Machine,
                 Puts(m, "boot", machine[source].fn, machine[source].image, p)
          PROVE  MachinesFit'
      <4>1. source \in Machine /\ machine[source].state # "none"
        BY DEF Running
      <4>2. UNCHANGED <<functions, raced>>
        BY <2>12, CloneFacts DEF storeVars
      <4>3. Matches(m)'
        BY <1>0, <3>1, <4>1, <4>2 DEF Matches, Puts, Calm
      <4> QED
        BY <1>1, <2>4, <3>1, <4>3 DEF Puts
    <3> QED
      BY <2>7, <2>12, <3>1, CloneFacts
  <2>13. CASE DeleteMachine(p)
    BY <2>6, <2>13, DeleteFacts DEF Running
  <2> QED
    BY <1>3, <2>7, <2>8, <2>9, <2>10, <2>11, <2>12, <2>13, TalksFacts DEF Talks, Builds, Scales
<1>4. CASE Condemn
  <2>1. PICK m \in Machine : Removes(m)
    BY <1>4, CondemnFacts
  <2>2. UNCHANGED <<functions, raced>>
    BY <1>4, CondemnFacts DEF storeVars
  <2> QED
    BY <1>0, <1>1, <2>1, <2>2 DEF Removes, Matches, Calm
<1>5. CASE Restart
  BY <1>5 DEF Restart, NoMachine, MachinesFit
<1>6. CASE UNCHANGED vars
  BY <1>0, <1>1, <1>6 DEF vars, providerVars, storeVars, Matches, Calm
<1> QED
  BY <1>2, <1>3, <1>4, <1>5, <1>6 DEF Next

-----------------------------------------------------------------------------
(* A machine is created where there is none, or where one was asked for.   *)

Asks(p, f) ==
  Serving(p, f) =>
    /\ Stored(p) \/ req[p].pc \in {"create", "boot"} => Running(f) = {}
    /\ req[p].kind = "scale" /\ req[p].pc = "scaling" =>
         Replicas(f) + Cardinality(Booting(p)) + scaling.grow <= req[p].target + scaling.shrink

(* Nobody scales f. *)
Unscaled(f) == \A p \in Proc : Serving(p, f) /\ req[p].kind = "scale" => req[p].pc = "begin"

Few(f) == Unscaled(f) => Replicas(f) <= 1 \/ Replicas(f) <= asked[f]

LEMMA AskedParts ==
  AskedFits <=> \A f \in Fn : "extra" \notin raced[f] => (\A p \in Proc : Asks(p, f)) /\ Few(f)
  BY DEF AskedFits, Asks, Few, Unscaled

LEMMA BootingFinite ==
  ASSUME NEW p
  PROVE  /\ IsFiniteSet(Booting(p)) /\ IsFiniteSet(Booting(p)')
         /\ Cardinality(Booting(p)) \in Nat /\ Cardinality(Booting(p)') \in Nat
<1>1. IsFiniteSet(Booting(p)) /\ IsFiniteSet(Booting(p)')
  BY MachineFinite, FS_Subset DEF Booting
<1> QED
  BY <1>1, FS_CardinalityType

(* A handler that serves has a request. *)
LEMMA ServeHasRequest ==
  ASSUME Base, PathFits, NEW p \in Proc, Serve(p)
  PROVE  req[p].pc # "idle" /\ req[p].kind \in Kind /\ req[p].fn \in Fn
<1>1. req[p].pc # "idle"
  BY ServeBusy, StoreStepCall DEF PathFits
<1> QED
  BY <1>1 DEF PathFits, Base, Inductive, RequestFits

(* What does not grow stays within what was asked for. *)
LEMMA AsksKept ==
  ASSUME Base, NEW q \in Proc, NEW f, Asks(q, f), Stays(q), call'[q] = call[q],
         Running(f)' \subseteq Running(f), Booting(q)' \subseteq Booting(q),
         req[q].pc = "scaling" => UNCHANGED scaling
  PROVE  Asks(q, f)'
<1>1. Replicas(f)' <= Replicas(f) /\ Replicas(f) \in Nat /\ Replicas(f)' \in Nat
  BY ReplicasShrink
<1>2. PICK c \in Nat, d \in Nat : /\ c = Cardinality(Booting(q)) /\ d = Cardinality(Booting(q)')
                                  /\ d <= c
  BY BootingFinite, FS_Subset
<1>3. scaling.grow \in Nat /\ scaling.shrink \in Nat /\ req[q].target \in Nat
  BY DEF Base, TypeOK
<1>4. /\ req'[q].pc = req[q].pc /\ req'[q].kind = req[q].kind /\ req'[q].fn = req[q].fn
      /\ req'[q].target = req[q].target /\ (Stored(q)' <=> Stored(q))
  BY DEF Stays, SameRequest, Stored
<1>5. CASE req[q].pc = "scaling"
  <2>1. PICK a \in Nat, b \in Nat, g \in Nat, s \in Nat, n \in Nat :
          /\ a = Replicas(f) /\ b = Replicas(f)' /\ b <= a
          /\ g = scaling.grow /\ s = scaling.shrink /\ n = req[q].target
    BY <1>1, <1>3
  <2>2. a + c + g <= n + s => b + d + g <= n + s
    BY <1>2, <2>1
  <2> QED
    BY <1>2, <1>4, <1>5, <2>1, <2>2 DEF Asks, Serving, Stored
<1>6. CASE req[q].pc # "scaling"
  BY <1>4, <1>6 DEF Asks, Serving
<1> QED
  BY <1>5, <1>6

LEMMA FewKept ==
  ASSUME Base, NEW f, Few(f), Running(f)' \subseteq Running(f), asked'[f] = asked[f],
         asked[f] \in Nat, Unscaled(f)' => Unscaled(f)
  PROVE  Few(f)'
<1>1. Replicas(f)' <= Replicas(f) /\ Replicas(f) \in Nat /\ Replicas(f)' \in Nat
  BY ReplicasShrink
<1>2. PICK a \in Nat, b \in Nat, n \in Nat :
        a = Replicas(f) /\ b = Replicas(f)' /\ n = asked[f] /\ b <= a
  BY <1>1
<1>3. a <= 1 \/ a <= n => b <= 1 \/ b <= n
  BY <1>2
<1> QED
  BY <1>2, <1>3 DEF Few

(* A request comes to create a machine by what it stored or by counting.   *)
LEMMA TalksAsks ==
  ASSUME Base, PathFits, StoredFits, MachinesFit, NEW p \in Proc, Serve(p),
         ~Builds(p), ~Scales(p), NEW f \in Fn, f = req[p].fn, Calm(f), Asks(p, f)
  PROVE  /\ Stored(p)' \/ req'[p].pc \in {"create", "boot"} => Running(f) = {}
         /\ req[p].kind = "scale" /\ req[p].pc # "begin" => req'[p].pc \notin {"begin", "idle"}
<1> USE BaseFacts
<1>1. /\ req[p].pc # "idle" /\ req[p].kind \in Kind /\ req[p].pc \in Path(req[p].kind)
      /\ call[p].at # "idle" => req[p].pc = "store"
  BY ServeHasRequest DEF PathFits
<1>2. StoredOf(p) /\ Own(p)
  BY <1>1 DEF StoredFits, StoredOf, Own
<1>3. Stored(p) \/ req[p].pc \in {"create", "boot"} => Running(f) = {}
  BY <1>1 DEF Asks, Serving
<1>4. functions[f].image = None => Running(f) = {}
  BY DEF MachinesFit, Running
<1> DEFINE Creates == Stored(p)' \/ req'[p].pc \in {"create", "boot"}
           Scaled == req[p].kind = "scale" /\ req[p].pc # "begin"
           Fine == (Creates => Running(f) = {}) /\ (Scaled => req'[p].pc \notin {"begin", "idle"})
<1>5. ASSUME NEW code \in Nat, Answer(p, code), ~Scaled PROVE Fine
  BY <1>5, AnswerFacts DEF Leaves, Stored
<1>6. ASSUME NEW pc, Move(p, pc) \/ (\E i : Note(p, pc, i)),
             pc \notin {"idle", "begin", "store", "create", "boot"}
      PROVE  Fine
  BY <1>6, MoveFacts, NoteFacts DEF Comes, Stored
<1>7. ASSUME NEW pc, Move(p, pc) \/ (\E i : Note(p, pc, i)), pc = "create", Running(f) = {}
      PROVE  Fine
  BY <1>7, MoveFacts, NoteFacts DEF Comes
<1>8. CASE StoreStep(p) /\ UNCHANGED providerVars
  <2>1. UNCHANGED req /\ call[p].at # "idle" /\ req[p].pc = "store"
    BY <1>1, <1>8, StoreStepCall DEF providerVars
  <2>2. ASSUME Stored(p)' PROVE functions[f].image = None \/ Stored(p)
    <3>1. CASE call[p].at \in {"read", "resolve", "lookup", "unpack", "write", "store"}
      BY <1>2, <2>1, <3>1 DEF StoredOf
    <3>2. CASE call[p].at = "remember"
      BY <2>1, <3>2 DEF Stored
    <3>3. call[p].at \notin {"keep", "drop"}
      BY <1>2, <2>1 DEF StoredOf
    <3>4. CASE call[p].at = "check"
      <4>1. CheckAbsent(p)
        BY <1>8, <3>4 DEF StoreStep, CheckAbsent, ResolveManifest, ImageCached, ImageMissing,
           UnpackBegins, UnpackEnds, PullFails, StoreFunction, StoreImage, UpdateReads,
           UpdateKeeps, UpdateDrops
      <4>2. \/ ~FunctionExists(call[p].fn)
            \/ Return(p, FALSE)
        BY <4>1 DEF CheckAbsent
      <4>3. Return(p, FALSE) => call'[p].at = "idle" /\ ~call'[p].ok
        BY DEF Return, NoCall, Base, TypeOK, StoreTypeOK
      <4>4. call[p].fn = f
        BY <2>1 DEF PathFits
      <4> QED
        BY <2>1, <2>2, <4>2, <4>3, <4>4, FunctionTypes DEF Stored, FunctionExists
    <3>5. call[p].at \in {"idle", "check", "resolve", "lookup", "unpack", "write", "store",
                         "remember", "read", "keep", "drop"}
      BY DEF Base, TypeOK, StoreTypeOK, Step
    <3> QED
      BY <2>1, <2>2, <3>1, <3>2, <3>3, <3>4, <3>5
  <2> QED
    BY <1>1, <1>3, <1>4, <2>1, <2>2
<1> USE DEF At, Kind, Path
<1>9. CASE Reject(p) \/ DeleteBegins(p)
  BY <1>5, <1>6, <1>9 DEF Reject, DeleteBegins
<1>10. CASE DeleteEnds(p) \/ Resolve(p) \/ DeployEnds(p)
  BY <1>5, <1>10 DEF DeleteEnds, Resolve, DeployEnds
<1>11. CASE DeployBegins(p)
  <2>1. req'[p].pc = "store" /\ call'[p].at = "check"
    <3>1. Enter(p, "check", req[p].fn, req[p].image) /\ Move(p, "store")
      BY <1>11 DEF DeployBegins
    <3>2. PICK g, i : g = req[p].fn /\ i = req[p].image
      OBVIOUS
    <3>3. Enter(p, "check", g, i)
      BY <3>1, <3>2 DEF Enter
    <3> QED
      BY <3>1, <3>3, EnterFacts, MoveFacts DEF Comes
  <2> QED
    BY <1>11, <2>1 DEF DeployBegins, Stored
<1>12. CASE DeployStored(p)
  <2>1. Answer(p, 400) \/ (Note(p, "create", call[p].image) /\ Stored(p))
    BY <1>12 DEF DeployStored, Note, Stored
  <2> QED
    BY <1>3, <1>5, <1>7, <1>12, <2>1 DEF DeployStored
<1>13. CASE UpdateBegins(p)
  <2>1. CASE FunctionExists(req[p].fn)
    BY <1>5, <1>13, <2>1 DEF UpdateBegins
  <2>2. CASE ~FunctionExists(req[p].fn)
    <3>1. Enter(p, "read", req[p].fn, req[p].image) /\ Move(p, "store")
      BY <1>13, <2>2 DEF UpdateBegins
    <3>2. PICK g, i : g = req[p].fn /\ i = req[p].image
      OBVIOUS
    <3>3. Enter(p, "read", g, i)
      BY <3>1, <3>2 DEF Enter
    <3>4. req'[p].pc = "store" /\ call'[p].at = "read"
      BY <3>1, <3>3, EnterFacts, MoveFacts DEF Comes
    <3> QED
      BY <1>13, <3>4 DEF UpdateBegins, Stored
  <2> QED
    BY <2>1, <2>2
<1>14. CASE UpdateStored(p)
  <2>1. ~Stored(p) /\ req[p].kind = "update" /\ req[p].pc = "store" /\ call[p].at = "idle"
    BY <1>2, <1>14 DEF UpdateStored, StoredOf
  <2>2. Answer(p, 400)
    BY <1>14, <2>1 DEF UpdateStored, Stored
  <2> QED
    BY <1>5, <2>1, <2>2
<1>15. CASE LoadFunction(p)
  <2>1. Note(p, "count", functions[req[p].fn].image) \/ Answer(p, 404) \/ Answer(p, 503)
    BY <1>15 DEF LoadFunction, Note
  <2>2. ~Scaled
    BY <1>15 DEF LoadFunction
  <2>3. Note(p, "count", functions[req[p].fn].image) => Fine
    BY <1>6
  <2> QED
    BY <1>5, <2>1, <2>2, <2>3
<1>16. CASE CountReplicas(p)
  <2>1. \/ Move(p, "create") /\ Replicas(f) = 0
        \/ Note(p, "scale", None) \/ Note(p, "resolve", None)
    BY <1>16 DEF CountReplicas, Move, Note, Replicas, Running
  <2>2. Replicas(f) = 0 => Running(f) = {}
    BY RunningFinite, FS_EmptySet DEF Replicas
  <2> QED
    BY <1>6, <1>7, <2>1, <2>2
<1>17. CASE CreateFails(p)
  BY <1>17, SpoiltFacts DEF CreateFails, Spoilt, Comes, Stored
<1>18. CASE InvokeCreated(p) \/ ScaleCreated(p) \/ UpdateCreated(p)
  BY <1>5, <1>6, <1>18 DEF InvokeCreated, ScaleCreated, UpdateCreated
<1> QED
  BY <1>8, <1>9, <1>10, <1>11, <1>12, <1>13, <1>14, <1>15, <1>16, <1>17, <1>18 DEF Serve, Builds, Scales

(* A boot, a clone and a removal move what is counted from one summand to  *)
(* another.                                                                *)
LEMMA BootCounts ==
  ASSUME Base, BootFits, NEW p \in Proc, Booted(p), NEW f, f = req[p].fn
  PROVE  /\ Replicas(f)' = Replicas(f) + 1
         /\ Cardinality(Booting(p)') = Cardinality(Booting(p)) - 1
         /\ req[p].pc = "boot" => Booting(p)' = {}
<1>1. PICK m \in Booting(p) : Puts(m, "run", machine[m].fn, machine[m].image, None)
  BY BootedFacts
<1>2. m \in Machine /\ machine[m].state = "boot" /\ machine[m].fn = f
  BY DEF Booting, BootFits
<1>3. Running(f)' = Running(f) \cup {m} /\ m \notin Running(f)
  BY <1>1, <1>2 DEF Running, Puts
<1>4. Booting(p)' = Booting(p) \ {m}
  BY <1>1, <1>2 DEF Booting, Puts
<1>5. Replicas(f)' = Replicas(f) + 1
  BY <1>3, RunningFinite, FS_AddElement DEF Replicas
<1>6. Cardinality(Booting(p)') = Cardinality(Booting(p)) - 1
  BY <1>4, BootingFinite, FS_RemoveElement
<1>7. req[p].pc = "boot" => Booting(p)' = {}
  BY <1>4 DEF BootFits
<1> QED
  BY <1>5, <1>6, <1>7

LEMMA CloneCounts ==
  ASSUME Base, NEW p \in Proc, CloneMachine(p), NEW f, f = req[p].fn
  PROVE  /\ Replicas(f)' = Replicas(f)
         /\ \/ /\ Cardinality(Booting(p)') = Cardinality(Booting(p)) + 1
               /\ UNCHANGED req /\ Running(f) # {}
            \/ Booting(p)' = Booting(p) /\ Running(f) = {} /\ UNCHANGED req
            \/ Booting(p)' = Booting(p) /\ Disturbed(req[p].fn)
<1>1. CASE UNCHANGED machine
  <2>1. Running(f)' = Running(f) /\ Booting(p)' = Booting(p)
    BY <1>1 DEF Running, Booting
  <2>2. CASE Running(req[p].fn) = {} /\ UNCHANGED req
    BY <2>1, <2>2 DEF Running, Replicas
  <2>3. CASE Disturbed(req[p].fn)
    BY <2>1, <2>3 DEF Replicas
  <2>4. ASSUME NEW source, NEW m \in Machine, machine[m].state = "none",
               Puts(m, "boot", machine[source].fn, machine[source].image, p)
        PROVE  FALSE
    BY <1>1, <2>4 DEF Puts
  <2> QED
    BY <2>2, <2>3, <2>4, CloneFacts
<1>2. ASSUME NEW source \in Running(req[p].fn), NEW m \in Machine, machine[m].state = "none",
             Puts(m, "boot", machine[source].fn, machine[source].image, p), UNCHANGED req
      PROVE  /\ Replicas(f)' = Replicas(f)
             /\ Cardinality(Booting(p)') = Cardinality(Booting(p)) + 1
             /\ UNCHANGED req /\ Running(f) # {}
  <2>1. Booting(p)' = Booting(p) \cup {m} /\ m \notin Booting(p)
    BY <1>2 DEF Booting, Puts
  <2>2. Running(f)' = Running(f) /\ source \in Running(f)
    BY <1>2 DEF Running, Puts
  <2>3. Cardinality(Booting(p)') = Cardinality(Booting(p)) + 1
    BY <2>1, BootingFinite, FS_AddElement
  <2> QED
    BY <1>2, <2>2, <2>3 DEF Replicas
<1> QED
  BY <1>1, <1>2, CloneFacts

LEMMA DeleteCounts ==
  ASSUME Base, NEW p \in Proc, DeleteMachine(p), NEW f, f = req[p].fn
  PROVE  Replicas(f)' = Replicas(f) - 1 /\ Booting(p)' = Booting(p)
<1>1. PICK m \in Running(req[p].fn) : Removes(m)
  BY DeleteFacts
<1>2. m \in Running(f) /\ Running(f)' = Running(f) \ {m}
  BY <1>1 DEF Running, Removes
<1>3. Booting(p)' = Booting(p)
  BY <1>1 DEF Running, Booting, Removes
<1>4. Replicas(f)' = Replicas(f) - 1
  BY <1>2, RunningFinite, FS_RemoveElement DEF Replicas
<1> QED
  BY <1>3, <1>4

(* A machine that is not yet in the table counts for nobody. *)
LEMMA FailCounts ==
  ASSUME Base, NEW p \in Proc, BootFails(p), NEW f
  PROVE  Running(f)' = Running(f) /\ Booting(p)' \subseteq Booting(p)
<1>1. PICK m \in Booting(p) : Removes(m)
  BY BootFailsFacts
<1> QED
  BY <1>1 DEF Booting, Running, Removes

(* The step of a request that has its function for itself.                 *)
LEMMA AskedByOne ==
  ASSUME Base, PathFits, BootFits, StoredFits, MachinesFit, DeleteFits, NEW p \in Proc, Serve(p),
         NEW f \in Fn, f = req[p].fn, "extra" \notin raced'[f], Calm(f), Asks(p, f),
         Few(f), \A q \in Proc \ {p} : ~Serving(q, f)
  PROVE  Asks(p, f)' /\ Few(f)'
<1> USE BaseFacts
<1>1. /\ req[p].pc # "idle" /\ req[p].kind \in Kind /\ req[p].pc \in Path(req[p].kind)
      /\ req[p].target \in Nat /\ asked[f] \in Nat
  BY ServeHasRequest DEF PathFits, Base, TypeOK
<1>2. SameRequest(p) \/ (Leaves(p) /\ ~Serving(p, f)')
  BY ServeFrame DEF Frame, Leaves, Serving
<1>3. StoredOf(p) /\ DeleteOf(p) /\ Own(p)
  BY <1>1 DEF StoredFits, StoredOf, DeleteFits, DeleteOf, Own
<1>4. req[p].pc \in {"scale", "scaling", "boot"} => req[p].kind # "update"
  BY <1>1, <1>3 DEF StoredOf
<1>5. \A q \in Proc \ {p} : ~Serving(q, f)'
  BY ServeFrame DEF Frame, Stays, SameRequest, Serving
<1>6. /\ Replicas(f) \in Nat /\ Replicas(f)' \in Nat
      /\ Cardinality(Booting(p)) \in Nat /\ Cardinality(Booting(p)') \in Nat
      /\ scaling.grow \in Nat /\ scaling.shrink \in Nat
  BY RunningFinite, FS_CardinalityType, BootingFinite DEF Replicas, Base, TypeOK
<1>7. Running(f) = {} <=> Replicas(f) = 0
  BY RunningFinite, FS_EmptySet DEF Replicas
<1>8. /\ Stored(p) \/ req[p].pc \in {"create", "boot"} => Running(f) = {}
      /\ req[p].kind = "scale" /\ req[p].pc = "scaling" =>
           Replicas(f) + Cardinality(Booting(p)) + scaling.grow <= req[p].target + scaling.shrink
  BY <1>1 DEF Asks, Serving
<1>9. ASSUME Stays(p), Running(f)' \subseteq Running(f), asked'[f] = asked[f] PROVE Few(f)'
  <2>1. Unscaled(f)' => Unscaled(f)
    BY <1>5, <1>9 DEF Unscaled, Serving, Stays, SameRequest
  <2> QED
    BY <1>1, <1>9, <2>1, FewKept
<1>10. ASSUME req'[p].pc \notin {"store", "create", "boot", "scaling"} PROVE Asks(p, f)'
  BY <1>10 DEF Asks, Stored
<1>11. ASSUME req'[p].kind = "scale", req'[p].pc = "scaling", SameRequest(p),
              Replicas(f)' + Cardinality(Booting(p)') + scaling'.grow
                <= req[p].target + scaling'.shrink
       PROVE  Asks(p, f)' /\ Few(f)'
  BY <1>11 DEF Asks, Few, Unscaled, Serving, SameRequest, Stored
<1>12. CASE ~Builds(p) /\ ~Scales(p)
  <2>1. /\ Stored(p)' \/ req'[p].pc \in {"create", "boot"} => Running(f) = {}
        /\ req[p].kind = "scale" /\ req[p].pc # "begin" => req'[p].pc \notin {"begin", "idle"}
    BY <1>12, TalksAsks
  <2>2. Talks(p)
    BY <1>12, TalksFacts
  <2>3. Running(f)' = Running(f) /\ Booting(p)' = Booting(p) /\ Replicas(f)' = Replicas(f)
    BY <2>2 DEF Talks, Running, Booting, Replicas
  <2>4. req'[p].pc = "scaling" => Stays(p)
    BY <2>2 DEF Talks
  <2>5. Asks(p, f)'
    BY <1>8, <2>1, <2>2, <2>3, <2>4 DEF Asks, Talks, Stays, SameRequest
  <2>6. Unscaled(f)' => Unscaled(f)
    <3>1. SUFFICES ASSUME Unscaled(f)', req[p].kind = "scale", req[p].pc # "begin" PROVE FALSE
      BY DEF Unscaled, Serving
    <3>2. SameRequest(p) /\ req'[p].pc \notin {"begin", "idle"}
      BY <1>2, <2>1, <3>1 DEF Leaves
    <3> QED
      BY <3>1, <3>2 DEF Unscaled, Serving, SameRequest
  <2> QED
    BY <1>1, <2>2, <2>3, <2>5, <2>6, FewKept DEF Talks
<1>13. CASE CreateMachine(p)
  <2>1. req[p].pc = "create" /\ req'[p].pc = "boot" /\ Running(f)' = Running(f)
    BY <1>13, CreateFacts DEF Comes, Running, Puts
  <2>2. Running(f) = {} /\ Running(f)' = {} /\ Replicas(f)' = 0
    BY <1>8, <2>1, FS_EmptySet DEF Replicas
  <2> QED
    BY <2>1, <2>2 DEF Asks, Few, Stored
<1>14. CASE Booted(p)
  <2>1. /\ Replicas(f)' = Replicas(f) + 1
        /\ Cardinality(Booting(p)') = Cardinality(Booting(p)) - 1
        /\ UNCHANGED <<scaling, asked>>
    BY <1>14, BootCounts, BootedFacts
  <2>2. CASE req[p].pc = "boot"
    <3>1. Replicas(f)' = 1
      BY <1>6, <1>7, <1>8, <2>1, <2>2
    <3>2. req'[p].pc = "created"
      BY <1>14, <2>2, BootedFacts DEF Comes
    <3> QED
      BY <1>10, <3>1, <3>2 DEF Few
  <2>3. CASE req[p].pc = "scaling"
    <3>1. SameRequest(p) /\ req'[p].pc = "scaling"
      BY <1>14, <2>3, BootedFacts DEF Comes
    <3>2. Booting(p) # {}
      BY <1>14 DEF Booted
    <3>3. req[p].kind = "scale"
      BY <1>1, <1>3, <1>4, <2>3, <3>2 DEF DeleteOf, Path, Kind
    <3> QED
      BY <1>6, <1>8, <1>11, <2>1, <2>3, <3>1, <3>3 DEF SameRequest
  <2> QED
    BY <1>14, <2>2, <2>3, BootedFacts
<1>15. CASE BootFails(p)
  <2>1. /\ Running(f)' = Running(f) /\ Booting(p)' \subseteq Booting(p)
        /\ UNCHANGED <<storeVars, scaling, asked>>
    BY <1>15, FailCounts, BootFailsFacts
  <2>2. CASE Stays(p)
    BY <1>9, <2>1, <2>2, AsksKept DEF storeVars
  <2>3. CASE req[p].pc = "boot" /\ Comes(p, "created", req[p].held, FALSE)
    <3>1. Replicas(f)' = 0
      BY <1>7, <1>8, <2>1, <2>3 DEF Replicas
    <3> QED
      BY <1>10, <2>3, <3>1 DEF Few, Comes
  <2> QED
    BY <1>15, <2>2, <2>3, BootFailsFacts
<1>16. CASE ScaleLocks(p)
  <2>1. /\ req[p].pc = "scale" /\ SameRequest(p) /\ req'[p].pc = "scaling"
        /\ scaling'.grow \in Nat /\ scaling'.shrink \in Nat
        /\ Replicas(f) + scaling'.grow = req[p].target + scaling'.shrink
        /\ UNCHANGED <<machine, asked>>
    <3>1. Replicas(req[p].fn) = Replicas(f)
      BY DEF Replicas, Running
    <3> QED
      BY <1>16, <3>1, LocksFacts DEF Comes
  <2>2. Running(f)' = Running(f) /\ Replicas(f)' = Replicas(f)
    BY <2>1 DEF Running, Replicas
  <2>3. Booting(p)' = {} /\ Cardinality(Booting(p)') = 0
    BY <2>1, FS_EmptySet DEF Booting, BootFits
  <2>4. CASE req[p].kind = "scale"
    <3>1. Replicas(f)' + Cardinality(Booting(p)') + scaling'.grow
            <= req[p].target + scaling'.shrink
      BY <1>1, <1>6, <2>1, <2>2, <2>3
    <3> QED
      BY <1>11, <2>1, <2>4, <3>1 DEF SameRequest
  <2>5. CASE req[p].kind # "scale"
    <3>1. Unscaled(f)' => Unscaled(f)
      BY <2>5 DEF Unscaled, Serving
    <3> QED
      BY <1>1, <2>1, <2>2, <2>5, <3>1, FewKept DEF Asks, SameRequest, Stored
  <2> QED
    BY <2>4, <2>5
<1>17. CASE CloneMachine(p)
  <2>1. /\ req[p].pc = "scaling" /\ Stays(p) /\ scaling'.grow = scaling.grow - 1
        /\ scaling.grow \in Nat \ {0} /\ scaling'.shrink = scaling.shrink /\ UNCHANGED asked
    BY <1>17, CloneFacts
  <2>2. /\ Replicas(f)' = Replicas(f)
        /\ \/ Cardinality(Booting(p)') = Cardinality(Booting(p)) + 1
           \/ Cardinality(Booting(p)') = Cardinality(Booting(p))
    BY <1>17, CloneCounts
  <2>3. req[p].kind = "scale"
    BY <1>1, <1>3, <1>4, <2>1 DEF DeleteOf, Path, Kind
  <2>4. Replicas(f)' + Cardinality(Booting(p)') + scaling'.grow <= req[p].target + scaling'.shrink
    BY <1>1, <1>6, <1>8, <2>1, <2>2, <2>3
  <2> QED
    BY <1>11, <2>1, <2>3, <2>4 DEF Stays, SameRequest
<1>18. CASE DeleteMachine(p)
  <2>1. /\ req[p].pc = "scaling" /\ Stays(p) /\ scaling'.grow = scaling.grow /\ UNCHANGED asked
    BY <1>18, DeleteFacts
  <2>2. scaling'.shrink = scaling.shrink - 1
    BY <1>18, DeleteFacts
  <2>3. Replicas(f)' = Replicas(f) - 1 /\ Booting(p)' = Booting(p)
    BY <1>18, DeleteCounts
  <2>4. CASE req[p].kind = "scale"
    <3>1. Replicas(f)' + Cardinality(Booting(p)') + scaling'.grow
            <= req[p].target + scaling'.shrink
      BY <1>1, <1>6, <1>8, <2>1, <2>2, <2>3, <2>4
    <3> QED
      BY <1>11, <2>1, <2>4, <3>1 DEF Stays, SameRequest
  <2>5. CASE req[p].kind # "scale"
    <3>1. Running(f)' \subseteq Running(f)
      <4>1. PICK m \in Running(req[p].fn) : Removes(m)
        BY <1>18, DeleteFacts
      <4> QED
        BY <4>1 DEF Running, Removes
    <3> QED
      BY <1>9, <2>1, <2>5, <3>1 DEF Asks, Stays, SameRequest, Stored
  <2> QED
    BY <2>4, <2>5
<1>19. CASE ScaleEnds(p)
  <2>1. /\ req[p].pc = "scaling" /\ scaling.grow = 0 /\ scaling.shrink = 0 /\ Booting(p) = {}
        /\ req'[p].pc \in {"idle", "scaled"} /\ UNCHANGED machine
        /\ req[p].kind = "scale" => asked'[f] = req[p].target
    BY <1>19, EndsFacts DEF Comes, Leaves
  <2>2. Replicas(f)' = Replicas(f) /\ Cardinality(Booting(p)) = 0
    BY <2>1, FS_EmptySet DEF Running, Replicas
  <2>3. CASE req[p].kind = "scale"
    <3>1. Replicas(f)' <= asked'[f]
      BY <1>1, <1>6, <1>8, <2>1, <2>2, <2>3
    <3> QED
      BY <1>10, <2>1, <3>1 DEF Few
  <2>4. CASE req[p].kind = "delete"
    <3>1. Replicas(f) = 0
      <4>1. Replicas(req[p].fn) = Replicas(f)
        BY DEF Replicas, Running
      <4> QED
        BY <1>3, <1>6, <2>1, <2>4, <4>1 DEF DeleteOf
    <3> QED
      BY <1>10, <2>1, <2>2, <3>1 DEF Few
  <2> QED
    BY <1>1, <1>4, <2>1, <2>3, <2>4 DEF Path, Kind
<1> QED
  BY <1>12, <1>13, <1>14, <1>15, <1>16, <1>17, <1>18, <1>19 DEF Builds, Scales

(* A scaling sets what was asked for its own function only.                *)
LEMMA AskedKept ==
  ASSUME Base, NEW p \in Proc, Serve(p), NEW f \in Fn, f # req[p].fn
  PROVE  asked'[f] = asked[f]
<1>1. CASE ScaleEnds(p)
  BY <1>1, EndsFacts
<1>2. CASE ~ScaleEnds(p)
  BY <1>2, TalksFacts, CreateFacts, BootedFacts, BootFailsFacts, LocksFacts, CloneFacts,
     DeleteFacts DEF Talks, Builds, Scales
<1> QED
  BY <1>1, <1>2

LEMMA AskedStep ==
  ASSUME Base, PathFits, BootFits, MeetFits, StoredFits, MachinesFit, DeleteFits, AskedFits,
         [Next]_vars
  PROVE  AskedFits'
<1> USE BaseFacts
<1>0. /\ \A f \in Fn : "extra" \notin raced[f] => (\A q \in Proc : Asks(q, f)) /\ Few(f)
      /\ \A f \in Fn : "extra" \notin raced[f] => Calm(f)
      /\ \A q \in Proc : req[q].pc # "idle" => req[q].fn \in Fn
      /\ asked \in [Fn -> Nat]
  BY AskedParts DEF MeetFits, Base, TypeOK, Inductive, RequestFits
<1>1. ASSUME \A f \in Fn : "extra" \notin raced'[f] => (\A q \in Proc : Asks(q, f)') /\ Few(f)'
      PROVE  AskedFits'
  BY <1>1 DEF AskedFits, Asks, Few, Unscaled
<1>2. \A a, b : "extra" \in Consequence(a, b)
  BY DEF Consequence
<1>3. ASSUME NEW p \in Proc, Receive(p) PROVE AskedFits'
  <2>1. PICK k \in Kind, f \in Fn : Arrival(p, k, f)
    BY <1>3, ReceiveFacts
  <2>2. \A q \in Proc \ {p} : Stays(q) /\ call'[q] = call[q]
    BY <2>1 DEF Arrival, storeVars
  <2>3. UNCHANGED <<machine, scaling>>
    BY <2>1 DEF Arrival
  <2>4. ASSUME NEW g PROVE /\ Running(g)' = Running(g)
                           /\ \A q \in Proc : Booting(q)' = Booting(q)
    BY <2>3 DEF Running, Booting
  <2>5. ASSUME NEW g \in Fn, "extra" \notin raced[g], asked'[g] = asked[g]
        PROVE  (\A q \in Proc : Asks(q, g)') /\ Few(g)'
    <3>1. ASSUME NEW q \in Proc \ {p} PROVE Asks(q, g)'
      BY <1>0, <2>2, <2>3, <2>4, <2>5, AsksKept
    <3>2. Asks(p, g)'
      BY <2>1 DEF Arrival, Asks, Stored
    <3>3. Unscaled(g)' => Unscaled(g)
      BY <2>1, <2>2 DEF Arrival, Unscaled, Serving, Stays, SameRequest
    <3>4. Few(g)'
      BY <1>0, <2>4, <2>5, <3>3, FewKept
    <3> QED
      BY <3>1, <3>2, <3>4
  <2>6. ASSUME "extra" \notin raced'[f] PROVE (\A q \in Proc : Asks(q, f)') /\ Few(f)'
    <3>1. CASE raced[f] \subseteq raced'[f] /\ asked'[f] = asked[f]
      BY <2>5, <2>6, <3>1
    <3>2. CASE Unused(p, f)
      <4>1. \A q \in Proc \ {p} : ~Serving(q, f)'
        BY <2>2, <3>2 DEF Unused, Serving, Stays, SameRequest
      <4>2. Running(f)' = {}
        BY <2>4, <3>2 DEF Unused, Running
      <4>3. Replicas(f)' = 0
        BY <4>2, FS_EmptySet DEF Replicas
      <4> QED
        BY <2>1, <4>1, <4>3 DEF Arrival, Asks, Few, Stored
    <3> QED
      BY <2>1, <3>1, <3>2 DEF Arrival
  <2> QED
    BY <1>1, <2>1, <2>5, <2>6 DEF Arrival
<1>4. ASSUME NEW p \in Proc, Serve(p) PROVE AskedFits'
  <2>1. Frame(p) /\ req[p].pc # "idle" /\ req[p].fn \in Fn
    BY <1>4, ServeFrame, ServeHasRequest
  <2>2. SUFFICES ASSUME NEW f \in Fn, "extra" \notin raced'[f]
                 PROVE  (\A q \in Proc : Asks(q, f)') /\ Few(f)'
    BY <1>1
  <2>3. "extra" \notin raced[f] /\ Calm(f)
    BY <1>0, <2>1, <2>2 DEF Frame
  <2>4. CASE f = req[p].fn
    <3>1. \A q \in Proc \ {p} : ~Serving(q, f)
      BY <1>2, <2>1, <2>3, <2>4 DEF MeetFits, Serving
    <3>2. \A q \in Proc \ {p} : Asks(q, f)'
      BY <2>1, <3>1 DEF Frame, Stays, SameRequest, Asks, Serving
    <3> QED
      BY <1>0, <1>4, <2>2, <2>3, <2>4, <3>1, <3>2, AskedByOne
  <2>5. CASE f # req[p].fn
    <3>1. Running(f)' \subseteq Running(f)
      BY <1>4, <2>5, RunningShrinks
    <3>2. ASSUME NEW q \in Proc \ {p} PROVE Asks(q, f)'
      <4>1. Booting(q)' = Booting(q) /\ Stays(q) /\ call'[q] = call[q]
        BY <1>4, <2>1, BootingKept DEF Frame
      <4>2. req[q].pc = "scaling" => UNCHANGED scaling
        BY <1>4, LockKept
      <4> QED
        BY <1>0, <2>3, <3>1, <4>1, <4>2, AsksKept
    <3>3. ~Serving(p, f)'
      BY <2>1, <2>5 DEF Frame, SameRequest, Leaves, Serving
    <3>4. Unscaled(f)' => Unscaled(f)
      BY <2>1, <2>5 DEF Unscaled, Serving, Frame, Stays, SameRequest
    <3>5. Few(f)'
      BY <1>0, <1>4, <2>3, <2>5, <3>1, <3>4, AskedKept, FewKept
    <3> QED
      BY <3>2, <3>3, <3>5 DEF Asks
  <2> QED
    BY <2>4, <2>5
<1>5. CASE Condemn
  <2>1. (\A q \in Proc : Stays(q)) /\ UNCHANGED <<call, scaling, asked, raced>>
    BY <1>5, CondemnFacts DEF storeVars
  <2>2. PICK m \in Machine : machine[m].state = "run" /\ Removes(m)
    BY <1>5, CondemnFacts
  <2>3. ASSUME NEW f \in Fn, "extra" \notin raced'[f]
        PROVE  (\A q \in Proc : Asks(q, f)') /\ Few(f)'
    <3>1. Running(f)' \subseteq Running(f) /\ \A q \in Proc : Booting(q)' = Booting(q)
      BY <2>2 DEF Running, Booting, Removes
    <3>2. \A q \in Proc : Asks(q, f)'
      BY <1>0, <2>1, <2>3, <3>1, AsksKept
    <3>3. Unscaled(f)' => Unscaled(f)
      BY <2>1 DEF Unscaled, Serving, Stays, SameRequest
    <3> QED
      BY <1>0, <2>1, <2>3, <3>1, <3>2, <3>3, FewKept
  <2> QED
    BY <1>1, <2>3
<1>6. CASE Restart
  <2>1. /\ \A q \in Proc : req'[q] = NoRequest
        /\ \A m \in Machine : machine'[m] = NoMachine
    BY <1>6 DEF Restart
  <2>2. \A f : Running(f)' = {}
    BY <2>1 DEF Running, NoMachine
  <2>3. \A f : Replicas(f)' = 0
    BY <2>2, FS_EmptySet DEF Replicas
  <2>4. \A f, q : q \in Proc => ~Serving(q, f)'
    BY <2>1 DEF Serving, NoRequest
  <2> QED
    BY <1>1, <2>3, <2>4 DEF Asks, Few
<1>7. CASE UNCHANGED vars
  <2>1. UNCHANGED <<req, call, machine, scaling, raced, asked>>
    BY <1>7 DEF vars, providerVars, storeVars
  <2> QED
    BY <1>0, <1>1, <2>1 DEF Asks, Few, Unscaled, Serving, Stored, Running, Booting, Replicas
<1> QED
  BY <1>3, <1>4, <1>5, <1>6, <1>7 DEF Next

-----------------------------------------------------------------------------
(* What an undisturbed request has made is there when it answers.          *)

Here(p, f) == {m \in Running(f) : req[p].kind = "deploy" => machine[m].image = req[p].image}

Answers(p, f) ==
  req[p].pc # "idle" /\ req[p].alone =>
    /\ req[p].kind = "deploy" /\ req[p].pc = "boot" =>
         \A m \in Booting(p) : machine[m].image = req[p].image
    /\ req[p].kind = "deploy" /\ req[p].pc = "create" => req[p].held = req[p].image
    /\ req[p].ok
    /\ req[p].pc = "created" \/ req[p].pc = "resolve"
         \/ (req[p].kind = "scale" /\ req[p].pc = "scale") => Here(p, f) # {}
    /\ req[p].kind = "scale" /\ req[p].pc = "scaling" =>
         /\ Replicas(f) + Cardinality(Booting(p)) + scaling.grow = req[p].target + scaling.shrink
         /\ scaling.grow > 0 => scaling.shrink = 0 /\ Running(f) # {}

LEMMA AnswersParts == AnswersFit <=> \A p \in Proc : Answers(p, req[p].fn)
  BY DEF AnswersFit, Answers, Here

(* A step for another function leaves the machines of f alone. *)
Untouched(f) ==
  \A m \in Machine :
    \/ machine[m].state # "none" /\ machine[m].fn = f
    \/ machine'[m].state # "none" /\ machine'[m].fn = f
    => machine'[m] = machine[m]

LEMMA ServeUntouched ==
  ASSUME Base, BootFits, NEW p \in Proc, Serve(p), NEW f, f # req[p].fn PROVE Untouched(f)
<1>1. CASE UNCHANGED machine
  BY <1>1 DEF Untouched
<1>2. ASSUME NEW m \in Machine, machine[m].state # "none" => machine[m].fn = req[p].fn,
             machine'[m].state # "none" => machine'[m].fn = req[p].fn,
             \A k \in Machine \ {m} : machine'[k] = machine[k]
      PROVE  Untouched(f)
  BY <1>2 DEF Untouched
<1>3. CASE CreateMachine(p)
  BY <1>2, <1>3, CreateFacts DEF Puts
<1>4. \A m \in Booting(p) : m \in Machine /\ machine[m].fn = req[p].fn
  BY DEF Booting, BootFits
<1>5. CASE Booted(p)
  BY <1>2, <1>4, <1>5, BootedFacts DEF Puts
<1>6. CASE BootFails(p)
  BY <1>2, <1>4, <1>6, BootFailsFacts DEF Removes
<1>7. \A m \in Running(req[p].fn) : m \in Machine /\ machine[m].fn = req[p].fn
  BY DEF Running
<1>8. CASE CloneMachine(p)
  BY <1>1, <1>2, <1>7, <1>8, CloneFacts DEF Puts
<1>9. CASE DeleteMachine(p)
  BY <1>2, <1>7, <1>9, DeleteFacts DEF Removes
<1> QED
  BY <1>1, <1>3, <1>5, <1>6, <1>8, <1>9, TalksFacts, LocksFacts, EndsFacts
     DEF Talks, Builds, Scales

LEMMA AnswersKept ==
  ASSUME Base, BootFits, NEW q \in Proc, NEW f, f = req[q].fn, Answers(q, f), Stays(q),
         Untouched(f), Booting(q)' = Booting(q), req[q].pc = "scaling" => UNCHANGED scaling
  PROVE  Answers(q, f)'
<1>1. /\ req'[q].pc = req[q].pc /\ req'[q].kind = req[q].kind /\ req'[q].image = req[q].image
      /\ req'[q].target = req[q].target /\ req'[q].held = req[q].held /\ req'[q].ok = req[q].ok
      /\ (req'[q].alone => req[q].alone)
  BY DEF Stays, SameRequest
<1>2. Running(f)' = Running(f) /\ \A m \in Running(f) : machine'[m] = machine[m]
  BY DEF Running, Untouched
<1>3. \A m \in Booting(q) : machine'[m] = machine[m]
  BY DEF Booting, BootFits, Untouched
<1>4. Here(q, f)' = Here(q, f) /\ Replicas(f)' = Replicas(f)
  BY <1>1, <1>2 DEF Here, Replicas
<1> QED
  BY <1>1, <1>2, <1>3, <1>4 DEF Answers

LEMMA TalksAnswers ==
  ASSUME Base, PathFits, StoredFits, NEW p \in Proc, Serve(p), ~Builds(p), ~Scales(p),
         NEW f \in Fn, f = req[p].fn, Answers(p, f), req[p].alone
  PROVE  Answers(p, f)'
<1> USE BaseFacts
<1>1. /\ req[p].pc # "idle" /\ req[p].kind \in Kind /\ req[p].pc \in Path(req[p].kind)
  BY ServeHasRequest DEF PathFits
<1>2. StoredOf(p) /\ req[p].ok
  BY <1>1 DEF StoredFits, StoredOf, Own, Answers
<1>3. UNCHANGED <<machine, scaling>>
  BY TalksFacts DEF Talks
<1>4. Running(f)' = Running(f)
  BY <1>3 DEF Running
<1>5. SameRequest(p) => Here(p, f)' = Here(p, f)
  BY <1>3, <1>4 DEF Here, SameRequest
<1>6. ASSUME NEW code \in Nat, Answer(p, code) PROVE Answers(p, f)'
  BY <1>6, AnswerFacts DEF Leaves, Answers
<1>7. ASSUME NEW pc, Move(p, pc) \/ (\E i : Note(p, pc, i))
      PROVE  SameRequest(p) /\ req'[p].pc = pc /\ req'[p].ok
  BY <1>2, <1>7, MoveFacts, NoteFacts DEF Comes
<1>8. ASSUME NEW pc, Move(p, pc) \/ (\E i : Note(p, pc, i)),
             pc \notin {"boot", "create", "created", "resolve", "scale", "scaling"}
      PROVE  Answers(p, f)'
  BY <1>7, <1>8 DEF Answers
<1>9. ASSUME NEW pc, Move(p, pc) \/ (\E i : Note(p, pc, i)), pc \in {"resolve", "scale"},
             Here(p, f) # {}
      PROVE  Answers(p, f)'
  BY <1>5, <1>7, <1>9 DEF Answers
<1> USE DEF At, Kind, Path
<1>10. CASE StoreStep(p) /\ UNCHANGED providerVars
  <2>1. UNCHANGED req /\ req[p].pc = "store"
    BY <1>10, StoreStepCall DEF providerVars, PathFits
  <2> QED
    BY <1>2, <2>1 DEF Answers
<1>11. CASE Reject(p) \/ DeleteEnds(p) \/ Resolve(p) \/ DeployEnds(p)
  BY <1>6, <1>11 DEF Reject, DeleteEnds, Resolve, DeployEnds
<1>12. CASE DeployBegins(p)
  BY <1>8, <1>12 DEF DeployBegins
<1>13. CASE DeployStored(p)
  <2>1. CASE Answer(p, 400)
    BY <1>6, <2>1
  <2>2. CASE call[p].ok
    <3>1. Note(p, "create", call[p].image)
      BY <1>13, <2>2 DEF DeployStored, Note
    <3>2. SameRequest(p) /\ req'[p].pc = "create" /\ req'[p].ok /\ req'[p].held = call[p].image
      BY <1>2, <3>1, NoteFacts DEF Comes
    <3>3. call[p].image = req[p].image
      BY <1>13, <2>2 DEF DeployStored, PathFits
    <3> QED
      BY <3>2, <3>3 DEF Answers, SameRequest
  <2> QED
    BY <1>13, <2>1, <2>2 DEF DeployStored
<1>14. CASE UpdateBegins(p)
  BY <1>6, <1>8, <1>14 DEF UpdateBegins
<1>15. CASE UpdateStored(p)
  <2>1. ~Stored(p) /\ req[p].pc = "store" /\ call[p].at = "idle"
    BY <1>1, <1>2, <1>15 DEF UpdateStored, StoredOf, Own
  <2>2. Answer(p, 400)
    BY <1>15, <2>1 DEF UpdateStored, Stored
  <2> QED
    BY <1>6, <2>2
<1>16. CASE DeleteBegins(p)
  <2>1. Move(p, "scale") => Answers(p, f)'
    BY <1>7, <1>16 DEF DeleteBegins, Answers, SameRequest
  <2> QED
    BY <1>6, <1>16, <2>1 DEF DeleteBegins
<1>17. CASE LoadFunction(p)
  <2>1. Note(p, "count", functions[req[p].fn].image) \/ Answer(p, 404) \/ Answer(p, 503)
    BY <1>17 DEF LoadFunction, Note
  <2>2. Note(p, "count", functions[req[p].fn].image) => Answers(p, f)'
    BY <1>8
  <2> QED
    BY <1>6, <2>1, <2>2
<1>18. CASE CountReplicas(p)
  <2>1. req[p].kind # "deploy"
    BY <1>18 DEF CountReplicas
  <2>2. \/ Move(p, "create")
        \/ Replicas(f) # 0 /\ (Note(p, "scale", None) \/ Note(p, "resolve", None))
    BY <1>18 DEF CountReplicas, Move, Note, Replicas, Running
  <2>3. CASE Move(p, "create")
    BY <1>7, <2>1, <2>3 DEF Answers, SameRequest
  <2>4. CASE Replicas(f) # 0 /\ (Note(p, "scale", None) \/ Note(p, "resolve", None))
    <3>1. Running(f) # {}
      BY <2>4, RunningFinite, FS_EmptySet DEF Replicas
    <3>2. Here(p, f) # {}
      BY <2>1, <3>1 DEF Here
    <3> QED
      BY <1>9, <2>4, <3>2
  <2> QED
    BY <2>2, <2>3, <2>4
<1>19. CASE CreateFails(p)
  BY <1>19, SpoiltFacts DEF CreateFails, Spoilt, Disturbed, Answers
<1>20. CASE InvokeCreated(p) \/ ScaleCreated(p)
  <2>1. req[p].pc = "created" /\ (Move(p, "resolve") \/ Move(p, "scale"))
    BY <1>2, <1>20 DEF InvokeCreated, ScaleCreated
  <2>2. Here(p, f) # {}
    BY <1>1, <2>1 DEF Answers
  <2> QED
    BY <1>9, <2>1, <2>2
<1>21. CASE UpdateCreated(p)
  BY <1>1, <1>2, <1>21 DEF UpdateCreated, StoredOf, Own
<1> QED
  BY <1>10, <1>11, <1>12, <1>13, <1>14, <1>15, <1>16, <1>17, <1>18, <1>19, <1>20, <1>21
     DEF Serve, Builds, Scales

LEMMA AnswersByOne ==
  ASSUME Base, PathFits, BootFits, StoredFits, DeleteFits, NEW p \in Proc, Serve(p),
         NEW f \in Fn, f = req[p].fn, Answers(p, f)
  PROVE  Answers(p, f)'
<1> USE BaseFacts
<1>1. SUFFICES ASSUME req'[p].pc # "idle", req'[p].alone PROVE Answers(p, f)'
  BY DEF Answers
<1>2. SameRequest(p) /\ req[p].alone
  BY <1>1, ServeFrame DEF Frame, Leaves, SameRequest
<1>3. /\ req[p].pc # "idle" /\ req[p].kind \in Kind /\ req[p].pc \in Path(req[p].kind)
      /\ req[p].target \in Nat
  BY ServeHasRequest DEF PathFits, Base, TypeOK
<1>4. StoredOf(p) /\ DeleteOf(p) /\ Own(p) /\ req[p].ok
  BY <1>2, <1>3 DEF StoredFits, StoredOf, DeleteFits, DeleteOf, Own, Answers
<1>5. ~Disturbed(req[p].fn)
  BY <1>1 DEF Disturbed
<1>6. /\ Replicas(f) \in Nat /\ Replicas(f)' \in Nat
      /\ Cardinality(Booting(p)) \in Nat /\ Cardinality(Booting(p)') \in Nat
      /\ scaling.grow \in Nat /\ scaling.shrink \in Nat
  BY RunningFinite, FS_CardinalityType, BootingFinite DEF Replicas, Base, TypeOK
<1>7. req[p].kind = "scale" /\ req[p].pc = "scaling" =>
        /\ Replicas(f) + Cardinality(Booting(p)) + scaling.grow = req[p].target + scaling.shrink
        /\ scaling.grow > 0 => scaling.shrink = 0 /\ Running(f) # {}
  BY <1>2, <1>3 DEF Answers
<1>8. ASSUME req'[p].pc = "scaling", req'[p].ok,
             req[p].kind = "scale" =>
               /\ Replicas(f)' + Cardinality(Booting(p)') + scaling'.grow
                    = req[p].target + scaling'.shrink
               /\ scaling'.grow > 0 => scaling'.shrink = 0 /\ Running(f)' # {}
      PROVE  Answers(p, f)'
  BY <1>2, <1>8 DEF Answers, SameRequest
<1>9. Running(f)' = {} <=> Replicas(f)' = 0
  BY RunningFinite, FS_EmptySet DEF Replicas
<1>10. CASE CreateMachine(p)
  <2>1. PICK m \in Machine : Puts(m, "boot", req[p].fn, req[p].held, p)
    BY <1>10, CreateFacts
  <2>2. req[p].pc = "create" /\ req'[p].pc = "boot" /\ req'[p].ok
    BY <1>4, <1>10, CreateFacts DEF Comes
  <2>3. Booting(p)' = {m}
    BY <2>1, <2>2 DEF Booting, Puts, BootFits
  <2>4. req[p].kind = "deploy" => machine'[m].image = req[p].image
    BY <1>2, <2>1, <2>2 DEF Puts, Answers
  <2> QED
    BY <1>2, <2>2, <2>3, <2>4 DEF Answers, SameRequest
<1>11. CASE Booted(p)
  <2>1. CASE req[p].pc = "boot"
    <3>1. PICK m \in Booting(p) : Puts(m, "run", machine[m].fn, machine[m].image, None)
      BY <1>11, BootedFacts
    <3>2. m \in Running(f)'
      BY <3>1 DEF Running, Booting, Puts, BootFits
    <3>3. req[p].kind = "deploy" => machine'[m].image = req[p].image
      BY <1>2, <2>1, <3>1 DEF Puts, Answers
    <3>4. m \in Here(p, f)'
      BY <1>2, <3>2, <3>3 DEF Here, SameRequest
    <3>5. req'[p].pc = "created" /\ req'[p].ok
      BY <1>4, <1>11, <2>1, BootedFacts DEF Comes
    <3> QED
      BY <3>4, <3>5 DEF Answers
  <2>2. CASE req[p].pc = "scaling"
    <3>1. /\ Replicas(f)' = Replicas(f) + 1 /\ UNCHANGED scaling
          /\ Cardinality(Booting(p)') = Cardinality(Booting(p)) - 1
      BY <1>11, BootCounts, BootedFacts
    <3>2. req'[p].pc = "scaling" /\ req'[p].ok
      BY <1>4, <1>11, <2>2, BootedFacts DEF Comes
    <3>3. Replicas(f)' # 0
      BY <1>6, <3>1
    <3>4. req[p].kind = "scale" =>
            Replicas(f)' + Cardinality(Booting(p)') + scaling'.grow
              = req[p].target + scaling'.shrink
      BY <1>3, <1>6, <1>7, <2>2, <3>1
    <3> QED
      BY <1>7, <1>8, <1>9, <2>2, <3>1, <3>2, <3>3, <3>4
  <2> QED
    BY <1>11, <2>1, <2>2, BootedFacts
<1>12. CASE BootFails(p)
  BY <1>5, <1>12, BootFailsFacts
<1>13. CASE ScaleLocks(p)
  <2>1. /\ req[p].pc = "scale" /\ req'[p].pc = "scaling" /\ req'[p].ok
        /\ scaling'.grow \in Nat /\ scaling'.shrink \in Nat
        /\ Replicas(f) + scaling'.grow = req[p].target + scaling'.shrink
        /\ scaling'.grow = 0 \/ scaling'.shrink = 0
        /\ UNCHANGED machine
    <3>1. Replicas(req[p].fn) = Replicas(f)
      BY DEF Replicas, Running
    <3> QED
      BY <1>4, <1>13, <3>1, LocksFacts DEF Comes
  <2>2. Running(f)' = Running(f) /\ Replicas(f)' = Replicas(f)
    BY <2>1 DEF Running, Replicas
  <2>3. Booting(p)' = {} /\ Cardinality(Booting(p)') = 0
    BY <2>1, FS_EmptySet DEF Booting, BootFits
  <2>4. req[p].kind = "scale" => Running(f) # {}
    BY <1>2, <1>3, <2>1 DEF Answers, Here
  <2>5. Replicas(f)' + Cardinality(Booting(p)') + scaling'.grow = req[p].target + scaling'.shrink
    BY <1>3, <1>6, <2>1, <2>2, <2>3
  <2>6. scaling'.grow > 0 => scaling'.shrink = 0
    BY <2>1
  <2> QED
    BY <1>8, <2>1, <2>2, <2>4, <2>5, <2>6
<1>14. CASE CloneMachine(p)
  <2>1. /\ req[p].pc = "scaling" /\ scaling'.grow = scaling.grow - 1
        /\ scaling.grow \in Nat \ {0} /\ scaling'.shrink = scaling.shrink
        /\ req'[p].pc = "scaling" /\ req'[p].ok
    BY <1>4, <1>14, CloneFacts DEF Stays
  <2>2. /\ Replicas(f)' = Replicas(f)
        /\ \/ Cardinality(Booting(p)') = Cardinality(Booting(p)) + 1
           \/ Running(f) = {}
    BY <1>5, <1>14, CloneCounts
  <2>3. ASSUME req[p].kind = "scale"
        PROVE  /\ Replicas(f)' + Cardinality(Booting(p)') + scaling'.grow
                    = req[p].target + scaling'.shrink
               /\ scaling'.shrink = 0 /\ Running(f)' # {}
    <3>1. scaling.shrink = 0 /\ Running(f) # {}
      BY <1>7, <2>1, <2>3
    <3>2. Replicas(f) # 0
      BY <3>1, RunningFinite, FS_EmptySet DEF Replicas
    <3>3. Cardinality(Booting(p)') = Cardinality(Booting(p)) + 1
      BY <2>2, <3>1
    <3> QED
      BY <1>3, <1>6, <1>7, <1>9, <2>1, <2>2, <2>3, <3>1, <3>2, <3>3
  <2> QED
    BY <1>8, <2>1, <2>3
<1>15. CASE DeleteMachine(p)
  <2>1. /\ req[p].pc = "scaling" /\ scaling'.grow = scaling.grow
        /\ scaling'.shrink = scaling.shrink - 1 /\ scaling'.shrink \in Nat
        /\ req'[p].pc = "scaling" /\ req'[p].ok
    BY <1>4, <1>5, <1>15, DeleteFacts DEF Stays
  <2>2. Replicas(f)' = Replicas(f) - 1 /\ Booting(p)' = Booting(p)
    BY <1>15, DeleteCounts
  <2>3. ASSUME req[p].kind = "scale"
        PROVE  /\ Replicas(f)' + Cardinality(Booting(p)') + scaling'.grow
                    = req[p].target + scaling'.shrink
               /\ ~(scaling'.grow > 0)
    BY <1>3, <1>6, <1>7, <2>1, <2>2, <2>3
  <2> QED
    BY <1>8, <2>1, <2>3
<1>16. CASE ScaleEnds(p)
  <2>1. req[p].kind = "delete" /\ req'[p].pc = "scaled" /\ req'[p].ok
    BY <1>1, <1>4, <1>16, EndsFacts DEF Comes, Leaves
  <2> QED
    BY <2>1 DEF Answers
<1>17. CASE ~Builds(p) /\ ~Scales(p)
  BY <1>2, <1>17, TalksAnswers
<1> QED
  BY <1>10, <1>11, <1>12, <1>13, <1>14, <1>15, <1>16, <1>17 DEF Builds, Scales

LEMMA AnswersStep ==
  ASSUME Base, PathFits, BootFits, MeetFits, StoredFits, DeleteFits, AnswersFit, [Next]_vars
  PROVE  AnswersFit'
<1> USE BaseFacts
<1>0. /\ \A q \in Proc : Answers(q, req[q].fn)
      /\ \A q \in Proc : req[q].pc # "idle" => req[q].fn \in Fn
  BY AnswersParts DEF Base, Inductive, RequestFits
<1>1. ASSUME NEW q \in Proc, NEW f, f = req[q].fn PROVE Answers(q, f)
  BY <1>0, <1>1
<1>2. ASSUME \A q \in Proc : req'[q].pc # "idle" /\ req'[q].alone =>
                \E f : f = req'[q].fn /\ Answers(q, f)'
      PROVE  AnswersFit'
  BY <1>2 DEF AnswersFit, Answers, Here
<1>3. ASSUME NEW p \in Proc, Receive(p) PROVE AnswersFit'
  <2>1. PICK k \in Kind, f \in Fn : Arrival(p, k, f)
    BY <1>3, ReceiveFacts
  <2>2. UNCHANGED <<machine, scaling>>
    BY <2>1 DEF Arrival
  <2>3. Answers(p, f)' /\ req'[p].fn = f
    BY <2>1 DEF Arrival, Answers
  <2>4. ASSUME NEW q \in Proc \ {p} PROVE \E g : g = req'[q].fn /\ Answers(q, g)'
    <3>1. PICK g : g = req[q].fn
      OBVIOUS
    <3>2. Stays(q) /\ Untouched(g) /\ Booting(q)' = Booting(q)
      BY <2>1, <2>2 DEF Arrival, Untouched, Booting
    <3>3. Answers(q, g)'
      BY <1>1, <2>2, <3>1, <3>2, AnswersKept
    <3> QED
      BY <3>1, <3>2, <3>3 DEF Stays, SameRequest
  <2> QED
    BY <1>2, <2>3, <2>4
<1>4. ASSUME NEW p \in Proc, Serve(p) PROVE AnswersFit'
  <2>1. Frame(p) /\ req[p].pc # "idle" /\ req[p].fn \in Fn
    BY <1>4, ServeFrame, ServeHasRequest
  <2>2. ASSUME req'[p].pc # "idle" PROVE \E f : f = req'[p].fn /\ Answers(p, f)'
    <3>1. PICK f \in Fn : f = req[p].fn
      BY <2>1
    <3>2. Answers(p, f)'
      BY <1>1, <1>4, <3>1, AnswersByOne
    <3> QED
      BY <2>1, <2>2, <3>1, <3>2 DEF Frame, Leaves, SameRequest
  <2>3. ASSUME NEW q \in Proc \ {p}, req'[q].pc # "idle", req'[q].alone
        PROVE  \E f : f = req'[q].fn /\ Answers(q, f)'
    <3>1. Stays(q) /\ req[q].pc # "idle" /\ req[q].alone
      BY <2>1, <2>3 DEF Frame, Stays, SameRequest
    <3>2. PICK f : f = req[q].fn
      OBVIOUS
    <3>3. f # req[p].fn
      BY <2>1, <3>1, <3>2 DEF MeetFits, Serving
    <3>4. Untouched(f)
      BY <1>4, <3>3, ServeUntouched
    <3>5. Booting(q)' = Booting(q) /\ (req[q].pc = "scaling" => UNCHANGED scaling)
      BY <1>4, BootingKept, LockKept
    <3>6. Answers(q, f)'
      BY <1>1, <3>1, <3>2, <3>4, <3>5, AnswersKept
    <3> QED
      BY <3>1, <3>2, <3>6 DEF Stays, SameRequest
  <2> QED
    BY <1>2, <2>2, <2>3
<1>5. CASE Condemn
  <2>1. (\A q \in Proc : Stays(q)) /\ UNCHANGED scaling
    BY <1>5, CondemnFacts
  <2>2. PICK m \in Machine : machine[m].state = "run" /\ Removes(m) /\ Disturbed(machine[m].fn)
    BY <1>5, CondemnFacts
  <2>3. ASSUME NEW q \in Proc, req'[q].alone PROVE \E f : f = req'[q].fn /\ Answers(q, f)'
    <3>1. PICK f : f = req[q].fn
      OBVIOUS
    <3>2. machine[m].fn # f
      BY <2>2, <2>3, <3>1 DEF Disturbed
    <3>3. Untouched(f) /\ Booting(q)' = Booting(q)
      BY <2>2, <3>2 DEF Untouched, Booting, Removes
    <3>4. Answers(q, f)'
      BY <1>1, <2>1, <3>1, <3>3, AnswersKept
    <3> QED
      BY <2>1, <3>1, <3>4 DEF Stays, SameRequest
  <2> QED
    BY <1>2, <2>3
<1>6. CASE Restart
  BY <1>6 DEF Restart, NoRequest, AnswersFit
<1>7. CASE UNCHANGED vars
  <2>1. UNCHANGED <<req, machine, scaling>>
    BY <1>7 DEF vars, providerVars
  <2>2. \A f : Running(f)' = Running(f) /\ Replicas(f)' = Replicas(f)
    BY <2>1 DEF Running, Replicas
  <2>3. \A q : Booting(q)' = Booting(q)
    BY <2>1 DEF Booting
  <2> QED
    BY <1>0, <1>2, <2>1, <2>2, <2>3 DEF Answers, Here
<1> QED
  BY <1>3, <1>4, <1>5, <1>6, <1>7 DEF Next

-----------------------------------------------------------------------------
(* The theorems. *)

LEMMA HandlersInit == ASSUME Init PROVE HandlersFit
<1>1. /\ \A p \in Proc : /\ req[p].pc = "idle" /\ req[p].kind = "none"
                         /\ call[p].at = "idle"
      /\ \A m \in Machine : machine[m].state = "none"
      /\ \A f \in Fn : raced[f] = {}
  BY DEF Init, StoreInit, NoRequest, NoMachine, NoCall
<1>2. \A f : Running(f) = {}
  BY <1>1 DEF Running
<1>3. \A f : Replicas(f) = 0
  BY <1>2, FS_EmptySet DEF Replicas
<1>4. PathFits
  BY <1>1 DEF PathFits
<1>5. BootFits
  BY <1>1 DEF BootFits
<1>6. MeetFits
  BY <1>1 DEF MeetFits, Calm, Serving
<1>7. StoredFits /\ AnswersFit
  BY <1>1 DEF StoredFits, AnswersFit
<1>8. MachinesFit
  BY <1>1 DEF MachinesFit
<1>9. DeleteFits
  BY <1>1 DEF DeleteFits
<1>10. AskedFits
  BY <1>1, <1>3 DEF AskedFits, Serving
<1> QED
  BY <1>4, <1>5, <1>6, <1>7, <1>8, <1>9, <1>10 DEF HandlersFit

(* Between any two steps of any handlers (deploy.go, update.go, scale.go,  *)
(* delete.go, invoke.go), a request has in the stores what it has put      *)
(* there, as long as no other request for its function, and no failure     *)
(* behind its back, could have taken it away.                              *)
THEOREM HandlersHold == Spec => [](TypeOK /\ Inductive /\ HandlersFit)
<1>1. Spec => [](TypeOK /\ Inductive)
  BY InvariantHolds
<1>2. ASSUME TypeOK /\ Inductive, HandlersFit, [Next]_vars PROVE HandlersFit'
  <2>1. /\ Base /\ PathFits /\ BootFits /\ MeetFits /\ StoredFits /\ MachinesFit /\ DeleteFits
        /\ AskedFits /\ AnswersFit
    BY <1>2 DEF Base, HandlersFit
  <2>2. PathFits' /\ BootFits' /\ MeetFits' /\ StoredFits'
    BY <1>2, <2>1, PathStep, BootStep, MeetStep, StoredStep
  <2>3. MachinesFit' /\ DeleteFits' /\ AskedFits' /\ AnswersFit'
    BY <1>2, <2>1, MachinesStep, DeleteStep, AskedStep, AnswersStep
  <2> QED
    BY <2>2, <2>3 DEF HandlersFit
<1>3. Init => HandlersFit
  BY HandlersInit
<1> QED
  BY <1>1, <1>2, <1>3, PTL DEF Spec

(* No sequence of separate requests orphans a machine: what runs for a     *)
(* function was made from the function in the store, unless a deletion or  *)
(* an update overlapped another request for it, two deployments of it      *)
(* overlapped, or two goroutines of a scale-down took the same machine     *)
(* (deploy.go:87, delete.go:58-67, invoke.go:34-38).                       *)
THEOREM ReplicasMatch == Spec => []ReplicasMatchStore
<1>1. HandlersFit => ReplicasMatchStore
  BY DEF HandlersFit, MachinesFit, ReplicasMatchStore, Calm
<1> QED
  BY <1>1, HandlersHold, PTL

(* Without a scale request a function has one machine at most, unless two  *)
(* requests that create machines overlapped, and after one no more than it *)
(* asked for (invoke.go:35, scale.go:58).                                  *)
THEOREM ReplicasAsked == Spec => []ReplicasAreAskedFor
<1>1. ASSUME TypeOK /\ Inductive /\ HandlersFit PROVE ReplicasAreAskedFor
  <2>1. SUFFICES ASSUME NEW f \in Fn, "extra" \notin raced[f],
                        ~ \E p \in Proc : req[p].fn = f /\ req[p].kind = "scale"
                 PROVE  Replicas(f) <= 1 \/ Replicas(f) <= asked[f]
    BY DEF ReplicasAreAskedFor
  <2>2. Few(f)
    BY <1>1, <2>1, AskedParts DEF HandlersFit
  <2>3. Unscaled(f)
    BY <2>1 DEF Unscaled, Serving
  <2> QED
    BY <2>2, <2>3 DEF Few
<1> QED
  BY <1>1, HandlersHold, PTL

(* Only the handlers' ends answer 200. *)
LEMMA ServedEnds ==
  ASSUME Base, NEW p \in Proc, Serve(p), req[p].pc # "idle", req'[p].pc = "idle", req'[p].served
  PROVE  \/ DeleteEnds(p)
         \/ DeployEnds(p) /\ req[p].ok
         \/ ScaleEnds(p)
         \/ At(p, {"invoke"}, "resolve") /\ UNCHANGED <<storeVars, machine>>
<1> USE BaseFacts
<1>1. ASSUME NEW code \in Nat, Answer(p, code), code # 200 PROVE FALSE
  BY <1>1, AnswerFacts
<1>2. ASSUME NEW pc, pc # "idle", Move(p, pc) \/ (\E i : Note(p, pc, i)) PROVE FALSE
  BY <1>2, MoveFacts, NoteFacts DEF Comes
<1>3. ASSUME Stays(p) PROVE FALSE
  BY <1>3 DEF Stays
<1>4. Spoilt(p) => FALSE
  BY SpoiltFacts DEF Comes
<1>5. CASE StoreStep(p) /\ UNCHANGED providerVars
  BY <1>5 DEF providerVars
<1>6. CASE Reject(p) \/ DeployBegins(p) \/ UpdateBegins(p) \/ DeleteBegins(p)
  BY <1>1, <1>2, <1>6 DEF Reject, DeployBegins, UpdateBegins, DeleteBegins
<1>7. CASE DeployStored(p)
  <2>1. Note(p, "create", call[p].image) \/ Answer(p, 400)
    BY <1>7 DEF DeployStored, Note
  <2> QED
    BY <1>1, <1>2, <2>1
<1>8. CASE UpdateStored(p)
  <2>1. Note(p, "create", call[p].image) \/ Note(p, "scale", None) \/ Answer(p, 400)
    BY <1>8 DEF UpdateStored, Note, Base, TypeOK, StoreTypeOK
  <2> QED
    BY <1>1, <1>2, <2>1
<1>9. CASE LoadFunction(p)
  <2>1. Note(p, "count", functions[req[p].fn].image) \/ Answer(p, 404) \/ Answer(p, 503)
    BY <1>9 DEF LoadFunction, Note
  <2>2. ~Note(p, "count", functions[req[p].fn].image)
    BY <1>2
  <2> QED
    BY <1>1, <2>1, <2>2
<1>10. CASE CountReplicas(p)
  <2>1. Move(p, "create") \/ Note(p, "scale", None) \/ Note(p, "resolve", None)
    BY <1>10 DEF CountReplicas, Move, Note
  <2> QED
    BY <1>2, <2>1
<1>11. CASE Resolve(p)
  BY <1>11 DEF Resolve
<1>12. CASE CreateMachine(p) \/ Booted(p) \/ BootFails(p)
  BY <1>3, <1>12, CreateFacts, BootedFacts, BootFailsFacts DEF Comes
<1>13. CASE CreateFails(p)
  BY <1>4, <1>13 DEF CreateFails, Spoilt
<1>14. CASE DeployEnds(p)
  BY <1>1, <1>14 DEF DeployEnds
<1>15. CASE InvokeCreated(p) \/ ScaleCreated(p) \/ UpdateCreated(p)
  BY <1>1, <1>2, <1>15 DEF InvokeCreated, ScaleCreated, UpdateCreated
<1>16. CASE ScaleLocks(p)
  BY <1>2, <1>16 DEF ScaleLocks
<1>17. CASE CloneMachine(p) \/ DeleteMachine(p)
  BY <1>3, <1>17, CloneFacts, DeleteFacts
<1> QED
  BY <1>5, <1>6, <1>7, <1>8, <1>9, <1>10, <1>11, <1>12, <1>13, <1>14, <1>15, <1>16, <1>17
     DEF Serve

LEMMA ServedIsDone ==
  ASSUME Base, HandlersFit, NEW p \in Proc, Serve(p), req[p].alone, req[p].pc # "idle",
         req'[p].pc = "idle", req'[p].served
  PROVE  Effect(req[p])
<1>1. PICK f \in Fn : f = req[p].fn
  BY DEF Base, Inductive, RequestFits
<1>2. /\ StoredOf(p) /\ DeleteOf(p) /\ Own(p) /\ Answers(p, f)
      /\ req[p].kind \in Kind /\ req[p].pc \in Path(req[p].kind)
  BY <1>1 DEF HandlersFit, PathFits, StoredFits, StoredOf, DeleteFits, DeleteOf, Own, AnswersFit,
     Answers, Here
<1>3. /\ Running(req[p].fn) = Running(f) /\ Replicas(req[p].fn) = Replicas(f)
      /\ FunctionExists(req[p].fn) <=> functions[f].image # None
  BY <1>1, FunctionTypes DEF Running, Replicas, FunctionExists
<1>4. functions \in [Fn -> Function \cup {NoFunction}]
  BY DEF Base, TypeOK, StoreTypeOK
<1>5. CASE DeleteEnds(p)
  <2>1. req[p].kind = "delete" /\ req[p].pc = "scaled"
    BY <1>5 DEF DeleteEnds, At
  <2>2. functions'[req[p].fn] = NoFunction
    BY <1>1, <1>4, <1>5 DEF DeleteEnds, DeleteFunction
  <2>3. Running(req[p].fn) = {}
    BY <1>2, <2>1 DEF DeleteOf
  <2> QED
    BY <2>1, <2>2, <2>3 DEF Effect
<1>6. CASE DeployEnds(p)
  <2>1. req[p].kind = "deploy" /\ req[p].pc = "created" /\ UNCHANGED functions
    BY <1>6 DEF DeployEnds, At, storeVars
  <2>2. functions'[req[p].fn].image = req[p].image
    BY <1>2, <2>1 DEF StoredOf
  <2>3. Here(p, f) # {}
    BY <1>2, <2>1 DEF Answers
  <2>4. \E m \in Running(req[p].fn) : machine[m].image = req[p].image
    BY <1>3, <2>1, <2>3 DEF Here
  <2> QED
    BY <2>1, <2>2, <2>4 DEF Effect
<1>7. CASE ScaleEnds(p)
  <2>1. /\ req[p].pc = "scaling" /\ scaling.grow = 0 /\ scaling.shrink = 0 /\ Booting(p) = {}
        /\ req[p].kind # "delete"
    BY <1>7, EndsFacts DEF Comes
  <2>2. req[p].kind = "scale"
    BY <1>2, <2>1 DEF StoredOf, Path, Kind
  <2>3. Cardinality(Booting(p)) = 0 /\ Replicas(f) \in Nat /\ req[p].target \in Nat
    BY <2>1, FS_EmptySet, ReplicasNat DEF Base, TypeOK
  <2>4. Replicas(f) + Cardinality(Booting(p)) + scaling.grow = req[p].target + scaling.shrink
    BY <1>2, <2>1, <2>2 DEF Answers
  <2>5. Replicas(req[p].fn) = req[p].target
    BY <1>3, <2>1, <2>3, <2>4
  <2> QED
    BY <2>2, <2>5 DEF Effect
<1>8. CASE At(p, {"invoke"}, "resolve")
  <2>1. req[p].kind = "invoke" /\ req[p].pc = "resolve"
    BY <1>8 DEF At
  <2>2. FunctionExists(req[p].fn)
    BY <1>1, <1>2, <1>3, <2>1 DEF StoredOf
  <2>3. Running(req[p].fn) # {}
    BY <1>2, <1>3, <2>1 DEF Answers, Here
  <2> QED
    BY <2>1, <2>2, <2>3 DEF Effect
<1> QED
  BY <1>5, <1>6, <1>7, <1>8, ServedEnds

(* Where a request met no other one for its function and no failure, the   *)
(* answer 200 is true although the handlers drop the errors of NewMachine  *)
(* (scale.go:59) and of ScaleMachinesTo's goroutines (machine.go:193): a   *)
(* deployed function is stored and runs, a deleted one neither, a scaled   *)
(* one has the replicas asked for, an invoked one a machine; an update     *)
(* that met nobody never answers 200.                                      *)
THEOREM AnswersTrue == Spec => AnswersAreTrue
<1>1. ASSUME TypeOK /\ Inductive /\ HandlersFit, [Next]_vars, NEW p \in Proc, req[p].alone,
             req[p].pc # "idle", req'[p].pc = "idle", req'[p].served
      PROVE  Effect(req[p])
  <2>1. Base
    BY <1>1 DEF Base
  <2>2. ASSUME NEW q \in Proc, Receive(q) PROVE FALSE
    BY <1>1, <2>1, <2>2, ReceiveFacts DEF Arrival, Stays
  <2>3. ASSUME NEW q \in Proc \ {p}, Serve(q) PROVE FALSE
    BY <1>1, <2>1, <2>3, ServeFrame DEF Frame, Stays
  <2>4. ~Condemn
    BY <1>1, <2>1, CondemnFacts DEF Stays
  <2>5. ~Restart
    BY <1>1 DEF Restart, NoRequest
  <2>6. ~UNCHANGED vars
    BY <1>1 DEF vars, providerVars
  <2>7. Serve(p)
    BY <1>1, <2>2, <2>3, <2>4, <2>5, <2>6 DEF Next
  <2> QED
    BY <1>1, <2>1, <2>7, ServedIsDone
<1>2. ASSUME TypeOK /\ Inductive /\ HandlersFit, [Next]_vars
      PROVE  [\A p \in Proc :
                req[p].alone /\ req[p].pc # "idle" /\ req'[p].pc = "idle" /\ req'[p].served
                  => Effect(req[p])]_vars
  BY <1>1, <1>2
<1> QED
  BY <1>2, HandlersHold, PTL DEF Spec, AnswersAreTrue

=============================================================================
