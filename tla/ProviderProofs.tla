--------------------------- MODULE ProviderProofs ---------------------------
(***************************************************************************)
(* Theorems about the function store under the request handlers, for any   *)
(* functions, images, requests and failures: the directory of every image  *)
(* in use or in the cache holds that image, unless it was hurt.            *)
(***************************************************************************)
EXTENDS Provider, FiniteSetTheorems, TLAPS

Calls == [at : Step, fn : Fn \cup {None}, image : Image \cup {None},
          digest : Digest \cup {None}, source : Digest \cup {None},
          added : BOOLEAN, ok : BOOLEAN]

(* What the moves of a call leave of its types. *)
LEMMA GotoTypes ==
  ASSUME StoreTypeOK, NEW p \in Proc, NEW s \in Step, Goto(p, s)
  PROVE  call' \in [Proc -> Calls]
  BY DEF StoreTypeOK, Goto, Calls

LEMMA ReturnTypes ==
  ASSUME StoreTypeOK, NEW p \in Proc, NEW ok \in BOOLEAN, Return(p, ok)
  PROVE  call' \in [Proc -> Calls]
<1>1. call[p] \in Calls /\ NoCall \in Calls
  BY DEF StoreTypeOK, Calls, NoCall, Step
<1>2. CASE ok
  <2>1. [call[p] EXCEPT !.at = "idle", !.source = None] \in Calls
    BY <1>1 DEF Calls, Step
  <2> QED
    BY <2>1, <1>2 DEF StoreTypeOK, Return, Calls
<1>3. CASE ~ok
  <2>1. [NoCall EXCEPT !.ok = FALSE] \in Calls
    BY <1>1 DEF Calls
  <2> QED
    BY <2>1, <1>3 DEF StoreTypeOK, Return, Calls
<1> QED
  BY <1>2, <1>3

-----------------------------------------------------------------------------
(* What the handlers do to the function store. *)

(* A step of AddFunction or UpdateFunction, the beginning of one, its end, *)
(* a deletion, a restart, or nothing.                                      *)
StoreMove ==
  \/ \E p \in Proc : StoreStep(p)
  \/ \E p \in Proc, f \in Fn, i \in Image, s \in {"check", "read"} :
       Enter(p, s, f, i) /\ UNCHANGED <<functions, cached, files, hurt>>
  \/ \E p \in Proc : call[p].at = "idle" /\ Forget(p)
  \/ \E f \in Fn : DeleteFunction(f)
  \/ StoreRestarts
  \/ UNCHANGED storeVars

(* Every step of the composition is one of these for the store. *)
LEMMA StoreMoves ==
  ASSUME RequestFits, [Next]_vars PROVE StoreMove
<1>1. ASSUME NEW p \in Proc, Serve(p) PROVE StoreMove
  <2>1. CASE StoreStep(p)
    BY <2>1 DEF StoreMove
  <2>2. CASE DeployBegins(p)
    <3>1. req[p].fn \in Fn /\ req[p].image \in Image
      BY <2>2 DEF DeployBegins, At, RequestFits
    <3> QED
      BY <2>2, <3>1 DEF DeployBegins, StoreMove
  <2>3. CASE UpdateBegins(p)
    <3>1. req[p].fn \in Fn /\ req[p].image \in Image
      BY <2>3 DEF UpdateBegins, At, RequestFits
    <3>2. CASE FunctionExists(req[p].fn)
      BY <2>3, <3>2 DEF UpdateBegins, StoreMove, storeVars
    <3>3. CASE ~FunctionExists(req[p].fn)
      BY <2>3, <3>1, <3>3 DEF UpdateBegins, StoreMove
    <3> QED
      BY <3>2, <3>3
  <2>4. CASE DeployStored(p) \/ UpdateStored(p)
    BY <2>4 DEF DeployStored, UpdateStored, StoreMove
  <2>5. CASE DeleteEnds(p)
    <3>1. req[p].fn \in Fn
      BY <2>5 DEF DeleteEnds, At, RequestFits
    <3> QED
      BY <2>5, <3>1 DEF DeleteEnds, StoreMove
  <2>6. CASE Reject(p) \/ DeleteBegins(p) \/ LoadFunction(p) \/ CountReplicas(p) \/ Resolve(p)
    BY <2>6 DEF Reject, DeleteBegins, LoadFunction, CountReplicas, Resolve, StoreMove
  <2>7. CASE CreateMachine(p) \/ Booted(p) \/ BootFails(p) \/ CreateFails(p)
    BY <2>7 DEF CreateMachine, Booted, BootFails, CreateFails, StoreMove
  <2>8. CASE DeployEnds(p) \/ InvokeCreated(p) \/ ScaleCreated(p) \/ UpdateCreated(p)
    BY <2>8 DEF DeployEnds, InvokeCreated, ScaleCreated, UpdateCreated, StoreMove
  <2>9. CASE ScaleLocks(p) \/ CloneMachine(p) \/ DeleteMachine(p) \/ ScaleEnds(p)
    BY <2>9 DEF ScaleLocks, CloneMachine, DeleteMachine, ScaleEnds, StoreMove
  <2> QED
    BY <1>1, <2>1, <2>2, <2>3, <2>4, <2>5, <2>6, <2>7, <2>8, <2>9 DEF Serve
<1>2. ASSUME NEW p \in Proc, Receive(p) PROVE StoreMove
  BY <1>2 DEF Receive, StoreMove
<1>3. CASE Condemn
  BY <1>3 DEF Condemn, StoreMove
<1>4. CASE Restart
  BY <1>4 DEF Restart, StoreMove
<1>5. CASE UNCHANGED vars
  BY <1>5 DEF vars, StoreMove
<1> QED
  BY <1>1, <1>2, <1>3, <1>4, <1>5 DEF Next

-----------------------------------------------------------------------------
(* The invariant of the store, part by part and step by step. *)

(* Types. *)
LEMMA StoreTypeStep ==
  ASSUME StoreTypeOK, CallFits, StoreMove PROVE StoreTypeOK'
<1> USE DEF StoreTypeOK, Step, Calls
<1>1. ASSUME NEW p \in Proc, CheckAbsent(p) PROVE StoreTypeOK'
  <2>1. call' \in [Proc -> Calls]
    BY <1>1, GotoTypes, ReturnTypes DEF CheckAbsent
  <2> QED
    BY <1>1, <2>1 DEF CheckAbsent
<1>2. ASSUME NEW p \in Proc, ResolveManifest(p) PROVE StoreTypeOK'
  <2>1. call' \in [Proc -> Calls]
    <3>1. ASSUME NEW d \in Digest, call' = [call EXCEPT ![p].at = "lookup", ![p].digest = d]
          PROVE  call' \in [Proc -> Calls]
      <4>1. [call[p] EXCEPT !.at = "lookup", !.digest = d] \in Calls
        OBVIOUS
      <4> QED
        BY <3>1, <4>1
    <3> QED
      BY <1>2, <3>1, ReturnTypes DEF ResolveManifest
  <2> QED
    BY <1>2, <2>1 DEF ResolveManifest
<1>3. ASSUME NEW p \in Proc, ImageCached(p) PROVE StoreTypeOK'
  BY <1>3 DEF ImageCached, Goto
<1>4. ASSUME NEW p \in Proc, ImageMissing(p) PROVE StoreTypeOK'
  <2>1. call' \in [Proc -> Calls]
    BY <1>4, GotoTypes, ReturnTypes DEF ImageMissing
  <2> QED
    BY <1>4, <2>1 DEF ImageMissing
<1>5. ASSUME NEW p \in Proc, UnpackBegins(p) PROVE StoreTypeOK'
  <2>1. call' \in [Proc -> Calls]
    <3>1. PICK source \in Digest :
            call' = [call EXCEPT ![p].at = "write", ![p].source = source]
      BY <1>5 DEF UnpackBegins
    <3>2. [call[p] EXCEPT !.at = "write", !.source = source] \in Calls
      OBVIOUS
    <3> QED
      BY <3>1, <3>2
  <2>2. call[p].digest \in Digest
    BY <1>5 DEF UnpackBegins, CallFits
  <2>3. files' \in [Digest -> Digest \cup {"absent", "torn", "mixed"}] /\ hurt' \subseteq Digest
    BY <1>5, <2>2 DEF UnpackBegins
  <2> QED
    BY <1>5, <2>1, <2>3 DEF UnpackBegins
<1>6. ASSUME NEW p \in Proc, UnpackEnds(p) PROVE StoreTypeOK'
  <2>1. call' \in [Proc -> Calls]
    BY <1>6, GotoTypes DEF UnpackEnds
  <2> QED
    BY <1>6, <2>1 DEF UnpackEnds, CallFits
<1>7. ASSUME NEW p \in Proc, PullFails(p) PROVE StoreTypeOK'
  BY <1>7 DEF PullFails, Return, NoCall
<1>8. ASSUME NEW p \in Proc, StoreFunction(p) PROVE StoreTypeOK'
  <2>1. call' \in [Proc -> Calls]
    <3>1. [call[p] EXCEPT !.at = "remember", !.added = TRUE] \in Calls
      OBVIOUS
    <3> QED
      BY <1>8, <3>1 DEF StoreFunction
  <2>2. [image |-> call[p].image, digest |-> call[p].digest] \in Function
    BY <1>8 DEF StoreFunction, CallFits, Function
  <2> QED
    BY <1>8, <2>1, <2>2 DEF StoreFunction
<1>9. ASSUME NEW p \in Proc, StoreImage(p) PROVE StoreTypeOK'
  <2>1. call' \in [Proc -> Calls]
    BY <1>9, ReturnTypes DEF StoreImage
  <2> QED
    BY <1>9, <2>1 DEF StoreImage, CallFits
<1>10. ASSUME NEW p \in Proc, UpdateReads(p) PROVE StoreTypeOK'
  <2>1. call' \in [Proc -> Calls]
    <3>1. functions[call[p].fn].digest \in Digest \cup {None}
      BY <1>10 DEF UpdateReads, CallFits, Function, NoFunction
    <3>2. [call[p] EXCEPT !.at = "keep", !.digest = functions[call[p].fn].digest] \in Calls
      BY <3>1
    <3> QED
      BY <1>10, <3>2, GotoTypes, ReturnTypes DEF UpdateReads
  <2> QED
    BY <1>10, <2>1 DEF UpdateReads
<1>11. ASSUME NEW p \in Proc, UpdateKeeps(p) PROVE StoreTypeOK'
  <2>1. call' \in [Proc -> Calls]
    BY <1>11, ReturnTypes DEF UpdateKeeps
  <2> QED
    BY <1>11, <2>1 DEF UpdateKeeps, CallFits, Function
<1>12. ASSUME NEW p \in Proc, UpdateDrops(p) PROVE StoreTypeOK'
  <2>1. call' \in [Proc -> Calls]
    BY <1>12, GotoTypes DEF UpdateDrops
  <2> QED
    BY <1>12, <2>1 DEF UpdateDrops
<1>13. ASSUME NEW p \in Proc, NEW f \in Fn, NEW i \in Image, NEW s \in {"check", "read"},
             Enter(p, s, f, i), UNCHANGED <<functions, cached, files, hurt>>
      PROVE  StoreTypeOK'
  BY <1>13 DEF Enter, NoCall
<1>14. ASSUME NEW p \in Proc, call[p].at = "idle", Forget(p) PROVE StoreTypeOK'
  BY <1>14 DEF Forget, NoCall
<1>15. ASSUME NEW f \in Fn, DeleteFunction(f) PROVE StoreTypeOK'
  BY <1>15 DEF DeleteFunction, NoFunction
<1>16. CASE StoreRestarts
  BY <1>16 DEF StoreRestarts, NoCall, NoFunction
<1>17. CASE UNCHANGED storeVars
  BY <1>17 DEF storeVars
<1> QED
  BY <1>1, <1>2, <1>3, <1>4, <1>5, <1>6, <1>7, <1>8, <1>9,
     <1>10, <1>11, <1>12, <1>13, <1>14, <1>15, <1>16, <1>17 DEF StoreMove, StoreStep

(* A call that works has a function, an image and, once it is known, a     *)
(* digest.                                                                 *)
LEMMA CallStep ==
  ASSUME StoreTypeOK, CallFits, StoreMove PROVE CallFits'
<1> USE DEF StoreTypeOK, Step, CallFits
<1>1. ASSUME NEW p \in Proc, CheckAbsent(p) PROVE CallFits'
  BY <1>1 DEF CheckAbsent, Goto, Return, NoCall
<1>2. ASSUME NEW p \in Proc, ResolveManifest(p) PROVE CallFits'
  BY <1>2 DEF ResolveManifest, Return, NoCall
<1>3. ASSUME NEW p \in Proc, ImageCached(p) PROVE CallFits'
  BY <1>3 DEF ImageCached, Goto
<1>4. ASSUME NEW p \in Proc, ImageMissing(p) PROVE CallFits'
  BY <1>4 DEF ImageMissing, Goto, Return, NoCall
<1>5. ASSUME NEW p \in Proc, UnpackBegins(p) PROVE CallFits'
  BY <1>5 DEF UnpackBegins
<1>6. ASSUME NEW p \in Proc, UnpackEnds(p) PROVE CallFits'
  BY <1>6 DEF UnpackEnds, Goto
<1>7. ASSUME NEW p \in Proc, PullFails(p) PROVE CallFits'
  BY <1>7 DEF PullFails, Return, NoCall
<1>8. ASSUME NEW p \in Proc, StoreFunction(p) PROVE CallFits'
  BY <1>8 DEF StoreFunction
<1>9. ASSUME NEW p \in Proc, StoreImage(p) PROVE CallFits'
  BY <1>9 DEF StoreImage, Return, NoCall
<1>10. ASSUME NEW p \in Proc, UpdateReads(p) PROVE CallFits'
  BY <1>10 DEF UpdateReads, Goto, Return, NoCall, NoFunction, Function
<1>11. ASSUME NEW p \in Proc, UpdateKeeps(p) PROVE CallFits'
  BY <1>11 DEF UpdateKeeps, Return, NoCall
<1>12. ASSUME NEW p \in Proc, UpdateDrops(p) PROVE CallFits'
  BY <1>12 DEF UpdateDrops, Goto
<1>13. ASSUME NEW p \in Proc, NEW f \in Fn, NEW i \in Image, NEW s \in {"check", "read"},
             Enter(p, s, f, i), UNCHANGED <<functions, cached, files, hurt>>
      PROVE  CallFits'
  BY <1>13 DEF Enter, NoCall
<1>14. ASSUME NEW p \in Proc, call[p].at = "idle", Forget(p) PROVE CallFits'
  BY <1>14 DEF Forget, NoCall
<1>15. ASSUME NEW f \in Fn, DeleteFunction(f) PROVE CallFits'
  BY <1>15 DEF DeleteFunction, NoFunction
<1>16. CASE StoreRestarts
  BY <1>16 DEF StoreRestarts, NoCall, NoFunction
<1>17. CASE UNCHANGED storeVars
  BY <1>17 DEF storeVars
<1> QED
  BY <1>1, <1>2, <1>3, <1>4, <1>5, <1>6, <1>7, <1>8, <1>9,
     <1>10, <1>11, <1>12, <1>13, <1>14, <1>15, <1>16, <1>17 DEF StoreMove, StoreStep

(* Who is in the tables stays in the cache or is about to enter it. *)
LEMMA UseStep ==
  ASSUME StoreTypeOK, CallFits, UseFits, StoreMove PROVE UseFits'
<1> USE DEF StoreTypeOK, Step, UseFits, InUse
<1>1. ASSUME NEW p \in Proc, CheckAbsent(p) PROVE UseFits'
  BY <1>1, NoneIsNothing, SMTT(20) DEF CheckAbsent, Goto, Return, NoCall
<1>2. ASSUME NEW p \in Proc, ResolveManifest(p) PROVE UseFits'
  BY <1>2, NoneIsNothing DEF ResolveManifest, Return, NoCall
<1>3. ASSUME NEW p \in Proc, ImageCached(p) PROVE UseFits'
  BY <1>3, NoneIsNothing DEF ImageCached, Goto
<1>4. ASSUME NEW p \in Proc, ImageMissing(p) PROVE UseFits'
  BY <1>4, NoneIsNothing DEF ImageMissing, Goto, Return, NoCall
<1>5. ASSUME NEW p \in Proc, UnpackBegins(p) PROVE UseFits'
  BY <1>5, NoneIsNothing DEF UnpackBegins
<1>6. ASSUME NEW p \in Proc, UnpackEnds(p) PROVE UseFits'
  BY <1>6, NoneIsNothing DEF UnpackEnds, Goto
<1>7. ASSUME NEW p \in Proc, PullFails(p) PROVE UseFits'
  BY <1>7, NoneIsNothing DEF PullFails, Return, NoCall
<1>8. ASSUME NEW p \in Proc, StoreFunction(p) PROVE UseFits'
  BY <1>8, NoneIsNothing DEF StoreFunction
<1>9. ASSUME NEW p \in Proc, StoreImage(p) PROVE UseFits'
  BY <1>9, NoneIsNothing DEF StoreImage, Return, NoCall
<1>10. ASSUME NEW p \in Proc, UpdateReads(p) PROVE UseFits'
  <2>1. ASSUME NEW d \in Digest, InUse(d)' PROVE InUse(d)
    BY <1>10, <2>1, NoneIsNothing DEF UpdateReads, Goto, Return, NoCall, CallFits
  <2>2. ASSUME NEW q \in Proc, call[q].at = "remember"
        PROVE  call'[q] = call[q]
    BY <1>10, <2>2 DEF UpdateReads, Goto, Return
  <2> QED
    BY <1>10, <2>1, <2>2 DEF UpdateReads
<1>11. ASSUME NEW p \in Proc, UpdateKeeps(p) PROVE UseFits'
  BY <1>11, NoneIsNothing DEF UpdateKeeps, Return, NoCall
<1>12. ASSUME NEW p \in Proc, UpdateDrops(p) PROVE UseFits'
  BY <1>12, NoneIsNothing DEF UpdateDrops, Goto, NoFunction
<1>13. ASSUME NEW p \in Proc, NEW f \in Fn, NEW i \in Image, NEW s \in {"check", "read"},
             Enter(p, s, f, i), UNCHANGED <<functions, cached, files, hurt>>
      PROVE  UseFits'
  BY <1>13, NoneIsNothing DEF Enter, NoCall
<1>14. ASSUME NEW p \in Proc, call[p].at = "idle", Forget(p) PROVE UseFits'
  BY <1>14, NoneIsNothing DEF Forget, NoCall
<1>15. ASSUME NEW f \in Fn, DeleteFunction(f) PROVE UseFits'
  BY <1>15, NoneIsNothing DEF DeleteFunction, NoFunction
<1>16. CASE StoreRestarts
  BY <1>16, NoneIsNothing DEF StoreRestarts, NoCall, NoFunction
<1>17. CASE UNCHANGED storeVars
  BY <1>17, NoneIsNothing DEF storeVars
<1> QED
  BY <1>1, <1>2, <1>3, <1>4, <1>5, <1>6, <1>7, <1>8, <1>9,
     <1>10, <1>11, <1>12, <1>13, <1>14, <1>15, <1>16, <1>17 DEF StoreMove, StoreStep

(* Directories. *)
LEMMA FilesStep ==
  ASSUME StoreTypeOK, CallFits, FilesFit, StoreMove PROVE FilesFit'
<1> USE DEF StoreTypeOK, Step, FilesFit, TakenAsWhole, OtherWriters
<1>1. ASSUME NEW p \in Proc, CheckAbsent(p) PROVE FilesFit'
  BY <1>1, NoneIsNothing, DigestsOnly DEF CheckAbsent, Goto, Return, NoCall
<1>2. ASSUME NEW p \in Proc, ResolveManifest(p) PROVE FilesFit'
  BY <1>2, NoneIsNothing, DigestsOnly DEF ResolveManifest, Return, NoCall
<1>3. ASSUME NEW p \in Proc, ImageCached(p) PROVE FilesFit'
  BY <1>3, NoneIsNothing, DigestsOnly DEF ImageCached, Goto
<1>4. ASSUME NEW p \in Proc, ImageMissing(p) PROVE FilesFit'
  BY <1>4, NoneIsNothing, DigestsOnly, SMTT(20) DEF ImageMissing, Goto, Return, NoCall
<1>5. ASSUME NEW p \in Proc, UnpackBegins(p) PROVE FilesFit'
  BY <1>5, NoneIsNothing, DigestsOnly DEF UnpackBegins
<1>6. ASSUME NEW p \in Proc, UnpackEnds(p) PROVE FilesFit'
  BY <1>6, NoneIsNothing, DigestsOnly DEF UnpackEnds, Goto
<1>7. ASSUME NEW p \in Proc, PullFails(p) PROVE FilesFit'
  BY <1>7, NoneIsNothing, DigestsOnly DEF PullFails, Return, NoCall
<1>8. ASSUME NEW p \in Proc, StoreFunction(p) PROVE FilesFit'
  BY <1>8, NoneIsNothing, DigestsOnly DEF StoreFunction
<1>9. ASSUME NEW p \in Proc, StoreImage(p) PROVE FilesFit'
  BY <1>9, NoneIsNothing, DigestsOnly DEF StoreImage, Return, NoCall
<1>10. ASSUME NEW p \in Proc, UpdateReads(p) PROVE FilesFit'
  BY <1>10, NoneIsNothing, DigestsOnly DEF UpdateReads, Goto, Return, NoCall
<1>11. ASSUME NEW p \in Proc, UpdateKeeps(p) PROVE FilesFit'
  BY <1>11, NoneIsNothing, DigestsOnly DEF UpdateKeeps, Return, NoCall
<1>12. ASSUME NEW p \in Proc, UpdateDrops(p) PROVE FilesFit'
  BY <1>12, NoneIsNothing, DigestsOnly DEF UpdateDrops, Goto
<1>13. ASSUME NEW p \in Proc, NEW f \in Fn, NEW i \in Image, NEW s \in {"check", "read"},
             Enter(p, s, f, i), UNCHANGED <<functions, cached, files, hurt>>
      PROVE  FilesFit'
  BY <1>13, NoneIsNothing, DigestsOnly DEF Enter, NoCall
<1>14. ASSUME NEW p \in Proc, call[p].at = "idle", Forget(p) PROVE FilesFit'
  BY <1>14, NoneIsNothing, DigestsOnly DEF Forget, NoCall
<1>15. ASSUME NEW f \in Fn, DeleteFunction(f) PROVE FilesFit'
  BY <1>15, NoneIsNothing, DigestsOnly DEF DeleteFunction, NoFunction
<1>16. CASE StoreRestarts
  BY <1>16, NoneIsNothing, DigestsOnly DEF StoreRestarts, NoCall, NoFunction
<1>17. CASE UNCHANGED storeVars
  BY <1>17, NoneIsNothing, DigestsOnly DEF storeVars
<1> QED
  BY <1>1, <1>2, <1>3, <1>4, <1>5, <1>6, <1>7, <1>8, <1>9,
     <1>10, <1>11, <1>12, <1>13, <1>14, <1>15, <1>16, <1>17 DEF StoreMove, StoreStep

-----------------------------------------------------------------------------
(* The handlers. *)

Pc == {"idle", "begin", "store", "create", "boot", "created", "count", "resolve",
       "scale", "scaling", "scaled"}

Reqs == [kind : Kind \cup {"none"}, fn : Fn \cup {None}, image : Image \cup {None},
         target : Nat, held : Image \cup {None}, pc : Pc,
         ok : BOOLEAN, alone : BOOLEAN, served : BOOLEAN]

Machines == [state : {"none", "boot", "run"}, fn : Fn \cup {None},
             image : Image \cup {None}, by : Proc \cup {None}]

(* What is known of the requests. *)
ReqOK == req \in [Proc -> Reqs] /\ RequestFits

(* The types in the words of this module. *)
LEMMA Types ==
  TypeOK <=> /\ StoreTypeOK
             /\ req \in [Proc -> Reqs]
             /\ machine \in [Machine -> Machines]
             /\ scaling \in [by : Proc \cup {None}, grow : Nat, shrink : Nat]
             /\ sent \in 0 .. Requests
             /\ asked \in [Fn -> Nat]
             /\ raced \in [Fn -> SUBSET {"lost", "extra"}]
  BY DEF TypeOK, Reqs, Pc, Machines

LEMMA NoRequestTypes == NoRequest \in Reqs /\ \A b \in BOOLEAN : [NoRequest EXCEPT !.served = b] \in Reqs
  BY DEF NoRequest, Reqs, Pc, Kind

LEMMA AnswerTypes ==
  ASSUME ReqOK, NEW p \in Proc, NEW code \in Nat, Answer(p, code) PROVE ReqOK'
<1>1. [NoRequest EXCEPT !.served = (code = 200)] \in Reqs
  BY NoRequestTypes
<1>2. [NoRequest EXCEPT !.served = (code = 200)].pc = "idle"
  BY DEF NoRequest
<1> QED
  BY <1>1, <1>2 DEF ReqOK, RequestFits, Answer

LEMMA MoveTypes ==
  ASSUME ReqOK, NEW p \in Proc, req[p].pc # "idle", NEW pc \in Pc, Move(p, pc) PROVE ReqOK'
  BY DEF ReqOK, RequestFits, Move, Reqs

(* What a handler has read is noted in its request. *)
Note(p, pc, i) == req' = [req EXCEPT ![p].pc = pc, ![p].held = i]

LEMMA NoteTypes ==
  ASSUME ReqOK, NEW p \in Proc, req[p].pc # "idle",
         NEW pc \in Pc, NEW i \in Image \cup {None},
         Note(p, pc, i)
  PROVE  ReqOK'
<1>1. [req[p] EXCEPT !.pc = pc, !.held = i] \in Reqs
  BY DEF ReqOK, Reqs
<1> QED
  BY <1>1 DEF Note, ReqOK, RequestFits, Reqs

LEMMA SpoilTypes ==
  ASSUME ReqOK, NEW f
  PROVE  /\ Spoil(f) \in [Proc -> Reqs]
         /\ \A q \in Proc : /\ Spoil(f)[q].pc = req[q].pc /\ Spoil(f)[q].fn = req[q].fn
                            /\ Spoil(f)[q].kind = req[q].kind
                            /\ Spoil(f)[q].image = req[q].image
  BY DEF ReqOK, Spoil, Reqs

(* A creation failed. *)
Spoilt(p) == req' = [Spoil(req[p].fn) EXCEPT ![p].pc = "created", ![p].ok = FALSE]

LEMMA SpoiltTypes ==
  ASSUME ReqOK, NEW p \in Proc, req[p].pc # "idle", Spoilt(p) PROVE ReqOK'
<1> DEFINE s == Spoil(req[p].fn)
           r == [s[p] EXCEPT !.pc = "created", !.ok = FALSE]
<1>1. s \in [Proc -> Reqs]
  BY SpoilTypes
<1>2. r \in Reqs /\ r.fn = req[p].fn /\ r.kind = req[p].kind /\ r.image = req[p].image
  <2>1. s[p] \in Reqs
    BY <1>1
  <2>2. s[p].fn = req[p].fn /\ s[p].kind = req[p].kind /\ s[p].image = req[p].image
    BY SpoilTypes
  <2> HIDE DEF s
  <2> QED
    BY <2>1, <2>2 DEF Reqs, Pc
<1>3. req' = [s EXCEPT ![p] = r]
  BY <1>1 DEF Spoilt
<1> HIDE DEF s, r
<1>4. \A q \in Proc : req'[q] = IF q = p THEN r ELSE s[q]
  BY <1>1, <1>3
<1>5. req' \in [Proc -> Reqs]
  BY <1>1, <1>2, <1>3
<1> QED
  BY <1>2, <1>4, <1>5, SpoilTypes DEF ReqOK, RequestFits, s

(* What a new request asks for. *)
LEMMA ReceiveRequest ==
  ASSUME NEW p \in Proc, Receive(p)
  PROVE  \E k \in Kind, f \in Fn, i \in Image \cup {None}, n \in Target \cup {0} :
        /\ i = None <=> k \notin {"deploy", "update"}
        /\ req' = [q \in Proc |->
             IF q = p THEN NewRequest(k, f, i, n, {o \in Proc \ {p} : req[o].fn = f} = {})
             ELSE Spoil(f)[q]]
<1>1. PICK k \in Kind, f \in Fn, i \in Image \cup {None}, n \in Target \cup {0} :
        LET others == {q \in Proc \ {p} : req[q].fn = f}
            unused == /\ ~FunctionExists(f) /\ others = {}
                      /\ \A m \in Machine : machine[m].fn # f
        IN
        /\ req[p].pc = "idle"
        /\ sent < Requests
        /\ sent' = sent + 1
        /\ i = None <=> k \notin {"deploy", "update"}
        /\ IF k = "scale" THEN n \in Target ELSE n = 0
        /\ req' = [q \in Proc |->
                IF q = p THEN NewRequest(k, f, i, n, others = {}) ELSE Spoil(f)[q]]
        /\ asked' = IF unused THEN [asked EXCEPT ![f] = 0] ELSE asked
        /\ raced' = [raced EXCEPT ![f] = (IF unused THEN {} ELSE @)
                        \cup Consequences(k, others)]
        /\ UNCHANGED <<storeVars, machine, scaling>>
  BY Zenon DEF Receive
<1>2. /\ i = None <=> k \notin {"deploy", "update"}
      /\ req' = [q \in Proc |->
           IF q = p THEN NewRequest(k, f, i, n, {o \in Proc \ {p} : req[o].fn = f} = {})
           ELSE Spoil(f)[q]]
  BY <1>1, Zenon
<1> QED
  BY <1>2, Zenon

(* Requests keep their types. *)
LEMMA RequestStep ==
  ASSUME TypeOK, Inductive, [Next]_vars PROVE ReqOK'
<1>1. ReqOK
  BY Types DEF ReqOK, Inductive
<1>2. ASSUME NEW p \in Proc, Receive(p) PROVE ReqOK'
  <2>1. PICK k \in Kind, f \in Fn, i \in Image \cup {None}, n \in Target \cup {0} :
          /\ i = None <=> k \notin {"deploy", "update"}
          /\ req' = [q \in Proc |->
               IF q = p THEN NewRequest(k, f, i, n, {o \in Proc \ {p} : req[o].fn = f} = {})
               ELSE Spoil(f)[q]]
    BY <1>2, ReceiveRequest
  <2> DEFINE r == NewRequest(k, f, i, n, {o \in Proc \ {p} : req[o].fn = f} = {})
  <2>2. req' = [q \in Proc |-> IF q = p THEN r ELSE Spoil(f)[q]]
    BY <2>1
  <2>3. r.kind = k /\ r.fn = f /\ r.image = i
    BY DEF NewRequest
  <2>4. req'[p] = r /\ \A q \in Proc \ {p} : req'[q] = Spoil(f)[q]
    BY <2>2
  <2>5. r \in Reqs
    BY TargetsNat DEF NewRequest, Reqs, Pc
  <2> HIDE DEF r
  <2>6. req' \in [Proc -> Reqs]
    BY <1>1, <2>2, <2>5, SpoilTypes
  <2>7. RequestFits'
    BY <1>1, <2>1, <2>3, <2>4, SpoilTypes DEF ReqOK, RequestFits
  <2> QED
    BY <2>6, <2>7 DEF ReqOK
<1>3. ASSUME NEW p \in Proc, Serve(p) PROVE ReqOK'
  <2> USE <1>1
  <2> USE DEF At, Pc
  <2>1. CASE StoreStep(p) /\ UNCHANGED providerVars
    BY <2>1 DEF providerVars, ReqOK, RequestFits
  <2>2. CASE Reject(p)
    BY <2>2, AnswerTypes DEF Reject
  <2>3. CASE DeployBegins(p)
    BY <2>3, MoveTypes DEF DeployBegins
  <2>4. CASE DeployStored(p)
    <3>1. call[p].image \in Image \cup {None}
      BY DEF TypeOK, StoreTypeOK
    <3> QED
      <4>1. Note(p, "create", call[p].image) \/ Answer(p, 400)
        BY <2>4 DEF DeployStored, Note
      <4> QED
        BY <2>4, <3>1, <4>1, AnswerTypes, NoteTypes DEF DeployStored
  <2>5. CASE UpdateBegins(p)
    BY <2>5, AnswerTypes, MoveTypes DEF UpdateBegins
  <2>6. CASE UpdateStored(p)
    <3>1. call[p].image \in Image \cup {None} /\ call[p].added \in BOOLEAN
      BY DEF TypeOK, StoreTypeOK
    <3> QED
      <4>1. \/ Note(p, "create", call[p].image)
            \/ Note(p, "scale", None)
            \/ Answer(p, 400)
        BY <2>6, <3>1 DEF UpdateStored, Note
      <4> QED
        BY <2>6, <3>1, <4>1, AnswerTypes, NoteTypes DEF UpdateStored
  <2>7. CASE DeleteBegins(p)
    BY <2>7, AnswerTypes, MoveTypes DEF DeleteBegins
  <2>8. CASE DeleteEnds(p)
    BY <2>8, AnswerTypes DEF DeleteEnds
  <2>9. CASE LoadFunction(p)
    <3>1. req[p].fn \in Fn
      BY <2>9 DEF LoadFunction, ReqOK, RequestFits
    <3>2. functions[req[p].fn].image \in Image \cup {None}
      BY <3>1 DEF TypeOK, StoreTypeOK, Function, NoFunction
    <3> QED
      <4>1. \/ Note(p, "count", functions[req[p].fn].image)
            \/ Answer(p, 404) \/ Answer(p, 503)
        BY <2>9 DEF LoadFunction, Note
      <4> QED
        BY <2>9, <3>2, <4>1, AnswerTypes, NoteTypes DEF LoadFunction
  <2>10. CASE CountReplicas(p)
    <3>1. CASE req' = [req EXCEPT ![p].pc = "create"]
      BY <2>10, <3>1, MoveTypes DEF CountReplicas, Move
    <3>2. CASE req' = [req EXCEPT ![p].held = None,
                 ![p].pc = IF req[p].kind = "scale" THEN "scale" ELSE "resolve"]
      <4>1. Note(p, "scale", None) \/ Note(p, "resolve", None)
        BY <2>10, <3>2 DEF Note
      <4> QED
        BY <2>10, <4>1, NoteTypes DEF CountReplicas
    <3> QED
      BY <2>10, <3>1, <3>2 DEF CountReplicas
  <2>11. CASE Resolve(p)
    BY <2>11, AnswerTypes DEF Resolve
  <2>12. CASE CreateMachine(p)
    <3>1. Note(p, "boot", None)
      BY <2>12 DEF CreateMachine, Note
    <3> QED
      BY <2>12, <3>1, NoteTypes DEF CreateMachine
  <2>13. CASE Booted(p)
    BY <2>13, MoveTypes DEF Booted
  <2>14. CASE BootFails(p)
    <3>1. Spoilt(p) \/ req' = Spoil(req[p].fn)
      BY <2>14 DEF BootFails, Spoilt
    <3>2. CASE Spoilt(p)
      BY <2>14, <3>2, SpoiltTypes DEF BootFails
    <3>3. CASE req' = Spoil(req[p].fn)
      BY <3>3, SpoilTypes DEF ReqOK, RequestFits
    <3> QED
      BY <3>1, <3>2, <3>3
  <2>15. CASE CreateFails(p)
    <3>1. Spoilt(p)
      BY <2>15 DEF CreateFails, Spoilt
    <3> QED
      BY <2>15, <3>1, SpoiltTypes DEF CreateFails
  <2>16. CASE DeployEnds(p)
    BY <2>16, AnswerTypes DEF DeployEnds
  <2>17. CASE InvokeCreated(p)
    BY <2>17, AnswerTypes, MoveTypes DEF InvokeCreated
  <2>18. CASE ScaleCreated(p)
    BY <2>18, MoveTypes DEF ScaleCreated
  <2>19. CASE UpdateCreated(p)
    BY <2>19, AnswerTypes, MoveTypes DEF UpdateCreated
  <2>20. CASE ScaleLocks(p)
    BY <2>20, MoveTypes DEF ScaleLocks
  <2>21. CASE CloneMachine(p)
    <3>1. UNCHANGED req \/ req' = Spoil(req[p].fn)
      BY <2>21 DEF CloneMachine
    <3> QED
      BY <3>1, SpoilTypes DEF ReqOK, RequestFits
  <2>22. CASE DeleteMachine(p)
    BY <2>22, SpoilTypes DEF DeleteMachine, ReqOK, RequestFits
  <2>23. CASE ScaleEnds(p)
    <3>1. req[p].pc # "idle"
      BY <2>23 DEF ScaleEnds, Inductive, ScalingFits
    <3> QED
      BY <2>23, <3>1, AnswerTypes, MoveTypes DEF ScaleEnds
  <2> QED
    BY <1>3, <2>1, <2>2, <2>3, <2>4, <2>5, <2>6, <2>7, <2>8, <2>9, <2>10, <2>11, <2>12,
       <2>13, <2>14, <2>15, <2>16, <2>17, <2>18, <2>19, <2>20, <2>21, <2>22, <2>23 DEF Serve
<1>4. CASE Condemn
  BY <1>1, <1>4, SpoilTypes DEF Condemn, ReqOK, RequestFits
<1>5. CASE Restart
  BY <1>5, NoRequestTypes DEF Restart, ReqOK, RequestFits, NoRequest
<1>6. CASE UNCHANGED vars
  BY <1>1, <1>6 DEF vars, providerVars, ReqOK, RequestFits
<1> QED
  BY <1>2, <1>3, <1>4, <1>5, <1>6 DEF Next

-----------------------------------------------------------------------------
(* Who scales. *)

(* The handler of p goes on to pc, and no other one moves. *)
Moves(p, pc) == req'[p].pc = pc /\ \A q \in Proc \ {p} : req'[q].pc = req[q].pc

LEMMA AnswerMoves ==
  ASSUME ReqOK, NEW p \in Proc, NEW code \in Nat, Answer(p, code) PROVE Moves(p, "idle")
<1>1. [NoRequest EXCEPT !.served = (code = 200)].pc = "idle"
  BY DEF NoRequest
<1> QED
  BY <1>1 DEF ReqOK, Answer, Moves

LEMMA MoveMoves ==
  ASSUME ReqOK, NEW p \in Proc, NEW pc, Move(p, pc) PROVE Moves(p, pc)
  BY DEF ReqOK, Move, Moves, Reqs

LEMMA NoteMoves ==
  ASSUME ReqOK, NEW p \in Proc, NEW pc, NEW i, Note(p, pc, i) PROVE Moves(p, pc)
  BY DEF ReqOK, Note, Moves, Reqs

LEMMA SpoiltMoves ==
  ASSUME ReqOK, NEW p \in Proc, Spoilt(p) PROVE Moves(p, "created")
<1> DEFINE s == Spoil(req[p].fn)
<1>1. s \in [Proc -> Reqs] /\ \A q \in Proc : s[q].pc = req[q].pc
  BY SpoilTypes
<1>2. req' = [s EXCEPT ![p].pc = "created", ![p].ok = FALSE]
  BY DEF Spoilt
<1> HIDE DEF s
<1> QED
  BY <1>1, <1>2 DEF Moves, Reqs

(* A handler that neither scales nor comes to scale leaves the lock to     *)
(* whoever has it.                                                         *)
LEMMA LeavesScaling ==
  ASSUME ScalingFits, UNCHANGED scaling, NEW p \in Proc, req[p].pc # "scaling",
         NEW pc, pc # "scaling", Moves(p, pc)
  PROVE  ScalingFits'
  BY DEF ScalingFits, Moves

(* ScaleMachinesTo has one caller at a time, which waits for its end.      *)
LEMMA ScalingStep ==
  ASSUME TypeOK, Inductive, [Next]_vars PROVE ScalingFits'
<1>1. ReqOK /\ ScalingFits
  BY Types DEF ReqOK, Inductive
<1> USE <1>1
<1>2. ASSUME NEW p \in Proc, Receive(p) PROVE ScalingFits'
  <2>1. PICK k \in Kind, f \in Fn, i \in Image \cup {None}, n \in Target \cup {0} :
          /\ i = None <=> k \notin {"deploy", "update"}
          /\ req' = [q \in Proc |->
               IF q = p THEN NewRequest(k, f, i, n, {o \in Proc \ {p} : req[o].fn = f} = {})
               ELSE Spoil(f)[q]]
    BY <1>2, ReceiveRequest
  <2>2. NewRequest(k, f, i, n, {o \in Proc \ {p} : req[o].fn = f} = {}).pc = "begin"
    BY DEF NewRequest
  <2>3. Moves(p, "begin")
    BY <2>1, <2>2, SpoilTypes DEF Moves
  <2> QED
    BY <1>2, <2>3, LeavesScaling DEF Receive
<1>3. ASSUME NEW p \in Proc, Serve(p) PROVE ScalingFits'
  <2>1. CASE StoreStep(p) /\ UNCHANGED providerVars
    BY <2>1 DEF providerVars, ScalingFits
  <2>2. ASSUME UNCHANGED scaling, req[p].pc # "scaling",
               \/ \E code \in Nat : Answer(p, code)
               \/ \E pc \in Pc \ {"scaling"} : Move(p, pc)
               \/ \E pc \in Pc \ {"scaling"}, i \in Image \cup {None} : Note(p, pc, i)
        PROVE  ScalingFits'
    BY <2>2, AnswerMoves, MoveMoves, NoteMoves, LeavesScaling
  <2> USE DEF At, Pc
  <2>3. CASE Reject(p)
    BY <2>2, <2>3 DEF Reject
  <2>4. CASE DeployBegins(p)
    BY <2>2, <2>4 DEF DeployBegins
  <2>5. CASE DeployStored(p)
    <3>1. call[p].image \in Image \cup {None}
      BY DEF TypeOK, StoreTypeOK
    <3> QED
      BY <2>2, <2>5, <3>1 DEF DeployStored, Note
  <2>6. CASE UpdateBegins(p)
    BY <2>2, <2>6 DEF UpdateBegins
  <2>7. CASE UpdateStored(p)
    <3>1. call[p].image \in Image \cup {None} /\ call[p].added \in BOOLEAN
      BY DEF TypeOK, StoreTypeOK
    <3>2. \/ Note(p, "create", call[p].image)
          \/ Note(p, "scale", None)
          \/ Answer(p, 400)
      BY <2>7, <3>1 DEF UpdateStored, Note
    <3> QED
      BY <2>2, <2>7, <3>1, <3>2 DEF UpdateStored
  <2>8. CASE DeleteBegins(p)
    BY <2>2, <2>8 DEF DeleteBegins
  <2>9. CASE DeleteEnds(p)
    BY <2>2, <2>9 DEF DeleteEnds
  <2>10. CASE LoadFunction(p)
    <3>1. req[p].fn \in Fn
      BY <2>10 DEF LoadFunction, ReqOK, RequestFits
    <3>2. functions[req[p].fn].image \in Image \cup {None}
      BY <3>1 DEF TypeOK, StoreTypeOK, Function, NoFunction
    <3>3. \/ Note(p, "count", functions[req[p].fn].image)
          \/ Answer(p, 404) \/ Answer(p, 503)
      BY <2>10 DEF LoadFunction, Note
    <3> QED
      BY <2>2, <2>10, <3>2, <3>3 DEF LoadFunction
  <2>11. CASE CountReplicas(p)
    <3>1. Move(p, "create") \/ Note(p, "scale", None) \/ Note(p, "resolve", None)
      BY <2>11 DEF CountReplicas, Move, Note
    <3> QED
      BY <2>2, <2>11, <3>1 DEF CountReplicas
  <2>12. CASE Resolve(p)
    BY <2>2, <2>12 DEF Resolve
  <2>13. CASE CreateMachine(p)
    <3>1. Note(p, "boot", None)
      BY <2>13 DEF CreateMachine, Note
    <3> QED
      BY <2>2, <2>13, <3>1 DEF CreateMachine
  <2>14. CASE Booted(p)
    <3>1. CASE req[p].pc = "boot"
      BY <2>2, <2>14, <3>1 DEF Booted
    <3>2. CASE req[p].pc = "scaling"
      BY <2>14, <3>2, MoveMoves DEF Booted, Moves, ScalingFits
    <3> QED
      BY <2>14, <3>1, <3>2 DEF Booted
  <2>15. CASE BootFails(p)
    <3>1. CASE req[p].pc = "boot"
      BY <2>15, <3>1, SpoiltMoves, LeavesScaling DEF BootFails, Spoilt
    <3>2. CASE req[p].pc = "scaling"
      BY <2>15, <3>2, SpoilTypes DEF BootFails, ScalingFits
    <3> QED
      BY <2>15, <3>1, <3>2 DEF BootFails
  <2>16. CASE CreateFails(p)
    BY <2>16, SpoiltMoves, LeavesScaling DEF CreateFails, Spoilt
  <2>17. CASE DeployEnds(p)
    BY <2>2, <2>17 DEF DeployEnds
  <2>18. CASE InvokeCreated(p)
    BY <2>2, <2>18 DEF InvokeCreated
  <2>19. CASE ScaleCreated(p)
    BY <2>2, <2>19 DEF ScaleCreated
  <2>20. CASE UpdateCreated(p)
    BY <2>2, <2>20 DEF UpdateCreated
  <2>21. CASE ScaleLocks(p)
    BY <2>21, MoveMoves, NoneIsNobody DEF ScaleLocks, Moves, ScalingFits
  <2>22. CASE CloneMachine(p)
    <3>1. \A q \in Proc : req'[q].pc = req[q].pc
      <4>1. UNCHANGED req \/ req' = Spoil(req[p].fn)
        BY <2>22 DEF CloneMachine
      <4> QED
        BY <4>1, SpoilTypes
    <3>2. scaling'.by = scaling.by
      BY <2>22 DEF CloneMachine, TypeOK
    <3> QED
      BY <3>1, <3>2 DEF ScalingFits
  <2>23. CASE DeleteMachine(p)
    <3>1. \A q \in Proc : req'[q].pc = req[q].pc
      BY <2>23, SpoilTypes DEF DeleteMachine
    <3>2. scaling'.by = scaling.by
      BY <2>23 DEF DeleteMachine, TypeOK
    <3> QED
      BY <3>1, <3>2 DEF ScalingFits
  <2>24. CASE ScaleEnds(p)
    <3>1. scaling'.by = None
      BY <2>24 DEF ScaleEnds, NotScaling
    <3>2. Moves(p, "scaled") \/ Moves(p, "idle")
      BY <2>24, MoveMoves, AnswerMoves DEF ScaleEnds
    <3>3. \A q \in Proc \ {p} : req[q].pc # "scaling"
      BY <2>24 DEF ScaleEnds, ScalingFits
    <3> QED
      BY <3>1, <3>2, <3>3, NoneIsNobody DEF Moves, ScalingFits
  <2> QED
    BY <1>3, <2>1, <2>3, <2>4, <2>5, <2>6, <2>7, <2>8, <2>9, <2>10, <2>11, <2>12, <2>13,
       <2>14, <2>15, <2>16, <2>17, <2>18, <2>19, <2>20, <2>21, <2>22, <2>23, <2>24 DEF Serve
<1>4. CASE Condemn
  BY <1>4, SpoilTypes DEF Condemn, ScalingFits
<1>5. CASE Restart
  BY <1>5, NoneIsNobody DEF Restart, ScalingFits, NoRequest, NotScaling
<1>6. CASE UNCHANGED vars
  BY <1>6 DEF vars, providerVars, ScalingFits
<1> QED
  BY <1>2, <1>3, <1>4, <1>5, <1>6 DEF Next

-----------------------------------------------------------------------------
(* Machines, the lock and the histories keep their types. *)

LEMMA MachineStep ==
  ASSUME TypeOK, Inductive, [Next]_vars PROVE machine' \in [Machine -> Machines]
<1>1. machine \in [Machine -> Machines] /\ NoMachine \in Machines
  BY Types DEF Machines, NoMachine
<1>2. ASSUME NEW p \in Proc, Serve(p) PROVE machine' \in [Machine -> Machines]
  <2>1. CASE CreateMachine(p)
    <3>1. req[p].fn \in Fn \cup {None} /\ req[p].held \in Image \cup {None}
      BY DEF TypeOK
    <3>2. [state |-> "boot", fn |-> req[p].fn, image |-> req[p].held, by |-> p] \in Machines
      BY <3>1 DEF Machines
    <3>3. PICK m \in Machine :
            machine' = [machine EXCEPT ![m] = [state |-> "boot", fn |-> req[p].fn,
                                               image |-> req[p].held, by |-> p]]
      BY <2>1 DEF CreateMachine, Free
    <3> QED
      BY <1>1, <3>2, <3>3
  <2>2. CASE Booted(p)
    <3>1. PICK m \in Machine : machine' = [machine EXCEPT ![m].state = "run", ![m].by = None]
      BY <2>2 DEF Booted, Booting
    <3>2. [machine[m] EXCEPT !.state = "run", !.by = None] \in Machines
      BY <1>1 DEF Machines
    <3> QED
      BY <1>1, <3>1, <3>2
  <2>3. CASE BootFails(p)
    BY <1>1, <2>3 DEF BootFails, Booting
  <2>4. CASE CloneMachine(p)
    <3>1. ASSUME NEW source \in Running(req[p].fn), NEW m \in Free,
                 machine' = [machine EXCEPT ![m] = [machine[source] EXCEPT !.state = "boot", !.by = p]]
          PROVE  machine' \in [Machine -> Machines]
      <4>1. machine[source] \in Machines
        BY <1>1 DEF Running
      <4>2. [machine[source] EXCEPT !.state = "boot", !.by = p] \in Machines
        BY <4>1 DEF Machines
      <4> QED
        BY <1>1, <3>1, <4>2
    <3> QED
      BY <1>1, <2>4, <3>1 DEF CloneMachine
  <2>5. CASE DeleteMachine(p)
    BY <1>1, <2>5 DEF DeleteMachine, Running
  <2>6. CASE StoreStep(p) /\ UNCHANGED providerVars
    BY <1>1, <2>6 DEF providerVars
  <2>7. CASE Reject(p) \/ DeployBegins(p) \/ DeployStored(p) \/ UpdateBegins(p) \/ UpdateStored(p)
    BY <1>1, <2>7 DEF Reject, DeployBegins, DeployStored, UpdateBegins, UpdateStored
  <2>8. CASE DeleteBegins(p) \/ DeleteEnds(p) \/ LoadFunction(p) \/ CountReplicas(p) \/ Resolve(p)
    BY <1>1, <2>8 DEF DeleteBegins, DeleteEnds, LoadFunction, CountReplicas, Resolve
  <2>9. CASE CreateFails(p) \/ DeployEnds(p) \/ InvokeCreated(p) \/ ScaleCreated(p)
    BY <1>1, <2>9 DEF CreateFails, DeployEnds, InvokeCreated, ScaleCreated
  <2>10. CASE UpdateCreated(p) \/ ScaleLocks(p) \/ ScaleEnds(p)
    BY <1>1, <2>10 DEF UpdateCreated, ScaleLocks, ScaleEnds
  <2> QED
    BY <1>2, <2>1, <2>2, <2>3, <2>4, <2>5, <2>6, <2>7, <2>8, <2>9, <2>10 DEF Serve
<1>3. ASSUME NEW p \in Proc, Receive(p) PROVE machine' \in [Machine -> Machines]
  BY <1>1, <1>3 DEF Receive
<1>4. CASE Condemn
  BY <1>1, <1>4 DEF Condemn
<1>5. CASE Restart
  BY <1>1, <1>5 DEF Restart
<1>6. CASE UNCHANGED vars
  BY <1>1, <1>6 DEF vars, providerVars
<1> QED
  BY <1>2, <1>3, <1>4, <1>5, <1>6 DEF Next

(* A count of replicas is a number. *)
LEMMA ReplicasNat == ASSUME NEW f PROVE Replicas(f) \in Nat
<1>1. IsFiniteSet(Running(f))
  BY MachineFinite, FS_Subset DEF Running
<1> QED
  BY <1>1, FS_CardinalityType DEF Replicas

LEMMA OtherStep ==
  ASSUME TypeOK, Inductive, [Next]_vars
  PROVE  /\ scaling' \in [by : Proc \cup {None}, grow : Nat, shrink : Nat]
         /\ sent' \in 0 .. Requests
         /\ asked' \in [Fn -> Nat]
         /\ raced' \in [Fn -> SUBSET {"lost", "extra"}]
<1> DEFINE Ok == /\ scaling' \in [by : Proc \cup {None}, grow : Nat, shrink : Nat]
                 /\ sent' \in 0 .. Requests
                 /\ asked' \in [Fn -> Nat]
                 /\ raced' \in [Fn -> SUBSET {"lost", "extra"}]
<1>1. /\ scaling \in [by : Proc \cup {None}, grow : Nat, shrink : Nat]
      /\ sent \in 0 .. Requests /\ asked \in [Fn -> Nat]
      /\ raced \in [Fn -> SUBSET {"lost", "extra"}]
  BY DEF TypeOK
<1>2. ASSUME NEW p \in Proc, Serve(p) PROVE Ok
  <2>1. CASE ScaleLocks(p)
    <3>1. Replicas(req[p].fn) \in Nat /\ req[p].target \in Nat
      BY ReplicasNat DEF TypeOK
    <3> QED
      BY <1>1, <2>1, <3>1 DEF ScaleLocks
  <2>2. CASE CloneMachine(p)
    <3>1. scaling.grow > 0 /\ scaling' = [scaling EXCEPT !.grow = @ - 1]
      BY <2>2 DEF CloneMachine
    <3>2. scaling' \in [by : Proc \cup {None}, grow : Nat, shrink : Nat]
      BY <1>1, <3>1
    <3> QED
      BY <1>1, <2>2, <3>2 DEF CloneMachine
  <2>3. CASE DeleteMachine(p)
    <3>1. PICK workers \in 1 .. 2 :
            /\ scaling.shrink >= workers
            /\ scaling' = [scaling EXCEPT !.shrink = @ - workers]
            /\ raced' = IF workers = 1 THEN raced
                        ELSE [raced EXCEPT ![req[p].fn] = {"lost", "extra"}]
      BY <2>3 DEF DeleteMachine
    <3>2. scaling' \in [by : Proc \cup {None}, grow : Nat, shrink : Nat]
      BY <1>1, <3>1
    <3>3. raced' \in [Fn -> SUBSET {"lost", "extra"}]
      BY <1>1, <3>1
    <3>4. UNCHANGED <<sent, asked>>
      BY <2>3 DEF DeleteMachine
    <3> QED
      BY <1>1, <3>2, <3>3, <3>4
  <2>4. CASE ScaleEnds(p)
    <3>1. NotScaling \in [by : Proc \cup {None}, grow : Nat, shrink : Nat]
      BY DEF NotScaling
    <3>2. req[p].target \in Nat
      BY DEF TypeOK
    <3> QED
      BY <1>1, <2>4, <3>1, <3>2 DEF ScaleEnds
  <2>5. CASE StoreStep(p) /\ UNCHANGED providerVars
    BY <1>1, <2>5 DEF providerVars
  <2>6. CASE Reject(p) \/ DeployBegins(p) \/ DeployStored(p) \/ UpdateBegins(p) \/ UpdateStored(p)
    BY <1>1, <2>6 DEF Reject, DeployBegins, DeployStored, UpdateBegins, UpdateStored
  <2>7. CASE DeleteBegins(p) \/ DeleteEnds(p) \/ LoadFunction(p) \/ CountReplicas(p) \/ Resolve(p)
    BY <1>1, <2>7 DEF DeleteBegins, DeleteEnds, LoadFunction, CountReplicas, Resolve
  <2>8. CASE CreateMachine(p) \/ Booted(p) \/ BootFails(p) \/ CreateFails(p)
    BY <1>1, <2>8 DEF CreateMachine, Booted, BootFails, CreateFails
  <2>9. CASE DeployEnds(p) \/ InvokeCreated(p) \/ ScaleCreated(p) \/ UpdateCreated(p)
    BY <1>1, <2>9 DEF DeployEnds, InvokeCreated, ScaleCreated, UpdateCreated
  <2> QED
    BY <1>2, <2>1, <2>2, <2>3, <2>4, <2>5, <2>6, <2>7, <2>8, <2>9 DEF Serve
<1>3. ASSUME NEW p \in Proc, Receive(p) PROVE Ok
  <2>1. ASSUME NEW k, NEW others PROVE Consequences(k, others) \subseteq {"lost", "extra"}
    BY DEF Consequences, Consequence
  <2>2. PICK k \in Kind, f \in Fn :
          /\ asked' = asked \/ asked' = [asked EXCEPT ![f] = 0]
          /\ \/ raced' = [raced EXCEPT ![f] = {} \cup Consequences(k, {o \in Proc \ {p} : req[o].fn = f})]
             \/ raced' = [raced EXCEPT ![f] = @ \cup Consequences(k, {o \in Proc \ {p} : req[o].fn = f})]
    BY <1>3 DEF Receive
  <2>3. raced' \in [Fn -> SUBSET {"lost", "extra"}]
    BY <1>1, <2>1, <2>2
  <2>4. sent' \in 0 .. Requests /\ UNCHANGED scaling
    BY <1>1, <1>3, RequestsNat DEF Receive
  <2> QED
    BY <1>1, <2>2, <2>3, <2>4
<1>4. CASE Condemn
  BY <1>1, <1>4 DEF Condemn
<1>5. CASE Restart
  BY <1>1, <1>5 DEF Restart, NotScaling
<1>6. CASE UNCHANGED vars
  BY <1>1, <1>6 DEF vars, providerVars
<1> QED
  BY <1>2, <1>3, <1>4, <1>5, <1>6 DEF Next

-----------------------------------------------------------------------------
(* The step lemmas together: the invariant is inductive. *)
THEOREM InvariantHolds == Spec => [](TypeOK /\ Inductive)
<1>1. Init => TypeOK /\ Inductive
  <2> SUFFICES ASSUME Init PROVE TypeOK /\ Inductive
    OBVIOUS
  <2>1. StoreTypeOK
    BY DEF Init, StoreInit, StoreTypeOK, NoCall, NoFunction, Step
  <2>2. StoreInductive
    BY NoneIsNothing DEF Init, StoreInit, StoreInductive, CallFits, FilesFit, TakenAsWhole,
       UseFits, InUse, NoCall, NoFunction
  <2>3. RequestFits /\ ScalingFits
    BY NoneIsNobody DEF Init, RequestFits, ScalingFits, NoRequest, NotScaling
  <2>4. req \in [Proc -> Reqs] /\ machine \in [Machine -> Machines]
    BY NoRequestTypes DEF Init, NoMachine, Machines
  <2>5. TypeOK
    BY <2>1, <2>4, RequestsNat, Types DEF Init, NotScaling
  <2> QED
    BY <2>2, <2>3, <2>5 DEF Inductive
<1>2. TypeOK /\ Inductive /\ [Next]_vars => (TypeOK /\ Inductive)'
  <2> SUFFICES ASSUME TypeOK, Inductive, [Next]_vars PROVE TypeOK' /\ Inductive'
    OBVIOUS
  <2>1. StoreTypeOK /\ CallFits /\ FilesFit /\ UseFits /\ RequestFits
    BY DEF TypeOK, Inductive, StoreInductive
  <2>2. StoreMove
    BY <2>1, StoreMoves
  <2>3. StoreTypeOK' /\ CallFits' /\ FilesFit' /\ UseFits'
    BY <2>1, <2>2, StoreTypeStep, CallStep, FilesStep, UseStep
  <2>4. req' \in [Proc -> Reqs] /\ RequestFits'
    BY RequestStep DEF ReqOK
  <2>5. TypeOK'
    BY <2>3, <2>4, MachineStep, OtherStep DEF TypeOK, Reqs, Pc, Machines
  <2> QED
    BY <2>3, <2>4, <2>5, ScalingStep DEF Inductive, StoreInductive
<1> QED
  BY <1>1, <1>2, PTL DEF Spec

(* The variables of the handlers and of the function store keep their      *)
(* types (pkg/provider/handlers, pkg/store/function.go).                   *)
THEOREM TypeCorrect == Spec => []TypeOK
<1> QED
  BY InvariantHolds, PTL

(* Whatever requests overlap, fail or are cut off by a restart, the        *)
(* directory of each image that a function or the cache relies on holds    *)
(* that image whole (AddFunction, function.go:125-178), or was unpacked by *)
(* two calls at the same time or from another image.                       *)
THEOREM ImagesAreWhole == Spec => []DirectoryHoldsImage
<1>1. TypeOK /\ Inductive => DirectoryHoldsImage
  <2> SUFFICES ASSUME TypeOK, Inductive, NEW d \in Digest \ hurt,
                      d \in cached \/ \E f \in Fn : functions[f].digest = d
               PROVE  files[d] = d
    BY DEF DirectoryHoldsImage
  <2>1. TakenAsWhole(d)
    BY DEF Inductive, StoreInductive, UseFits, InUse, TakenAsWhole
  <2> QED
    BY <2>1 DEF Inductive, StoreInductive, FilesFit
<1> QED
  BY <1>1, InvariantHolds, PTL
=============================================================================
