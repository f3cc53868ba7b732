--------------------------- MODULE FunctionStore ---------------------------
(***************************************************************************)
(* pkg/store/function.go: the deployed functions and the images unpacked   *)
(* for them.  Both tables are sync.Maps that any number of requests use at *)
(* the same time; no lock spans two of their operations.  A step is one    *)
(* access to a table, to containerd or to the directory of an image.       *)
(***************************************************************************)
EXTENDS Naturals

CONSTANTS
  Fn,          \* names of functions
  Image,       \* references of images, as a deployment names them
  Digest,      \* digests of images; a directory is named by a digest
  Proc,        \* goroutines that serve requests
  None,        \* no function, no image, no digest
  AlwaysPull   \* --pull-policy is "Always"

ASSUME NoneIsNothing == None \notin Image \cup Digest
ASSUME PullPolicy    == AlwaysPull \in BOOLEAN
ASSUME DigestsOnly   == Digest \cap {"absent", "torn", "mixed"} = {}

VARIABLES
  functions,  \* functionMetaDataMapV2
  cached,     \* keys of imageStore
  files,      \* what the directory of a digest holds
  call,       \* the AddFunction or UpdateFunction a process is in
  hurt        \* history: digests unpacked by two calls, or from another image

storeVars == <<functions, cached, files, call, hurt>>

NoFunction == [image |-> None, digest |-> None]
Function   == [image : Image, digest : Digest]

NoCall == [at |-> "idle", fn |-> None, image |-> None, digest |-> None,
           source |-> None, added |-> FALSE, ok |-> TRUE]

Step == {"idle", "read", "keep", "drop", "check", "resolve", "lookup", "unpack",
         "write", "store", "remember"}

StoreInit ==
  /\ functions = [f \in Fn |-> NoFunction]
  /\ cached = {}
  /\ files = [d \in Digest |-> "absent"]
  /\ call = [p \in Proc |-> NoCall]
  /\ hurt = {}

-----------------------------------------------------------------------------
FunctionExists(f) == functions[f] # NoFunction

(* The calls that write into the directory of a digest, p aside. *)
OtherWriters(p, d) == {q \in Proc \ {p} : call[q].at = "write" /\ call[q].digest = d}

Goto(p, s) == call' = [call EXCEPT ![p].at = s]

Return(p, ok) ==
  call' = [call EXCEPT ![p] = IF ok THEN [@ EXCEPT !.at = "idle", !.source = None]
                                    ELSE [NoCall EXCEPT !.ok = FALSE]]

(* A process enters AddFunction or UpdateFunction. *)
Enter(p, s, f, i) ==
  /\ call[p].at = "idle"
  /\ call' = [call EXCEPT ![p] = [NoCall EXCEPT !.at = s, !.fn = f, !.image = i]]

-----------------------------------------------------------------------------
(* AddFunction *)

CheckAbsent(p) ==
  /\ call[p].at = "check"
  /\ IF FunctionExists(call[p].fn) THEN Return(p, FALSE) ELSE Goto(p, "resolve")
  /\ UNCHANGED <<functions, cached, files, hurt>>

(* The manifests of containerd are searched for the image; the registry is *)
(* not asked.  The name may not parse, the image may not be there, and     *)
(* which digest it has may change at any time.                             *)
ResolveManifest(p) ==
  /\ call[p].at = "resolve"
  /\ \/ \E d \in Digest : call' = [call EXCEPT ![p].at = "lookup", ![p].digest = d]
     \/ Return(p, FALSE)
  /\ UNCHANGED <<functions, cached, files, hurt>>

(* Mutant of ImageCached: an image whose directory is there is taken for   *)
(* unpacked.                                                               *)
ImageFound(p) ==
  /\ call[p].at = "lookup"
  /\ files[call[p].digest] # "absent"
  /\ Goto(p, "store")
  /\ UNCHANGED <<functions, cached, files, hurt>>

ImageCached(p) ==
  /\ call[p].at = "lookup"
  /\ call[p].digest \in cached
  /\ Goto(p, "store")
  /\ UNCHANGED <<functions, cached, files, hurt>>

(* The directory is made before the platform is detected: what fails then  *)
(* returns past a cleanup that tests another err.                          *)
ImageMissing(p) ==
  LET d == call[p].digest IN
  /\ call[p].at = "lookup"
  /\ d \notin cached
  /\ files' = [files EXCEPT ![d] = IF @ = "absent" THEN "torn" ELSE @]
  /\ Goto(p, "unpack") \/ Return(p, FALSE)
  /\ UNCHANGED <<functions, cached, hurt>>

(* Pull finds the image in containerd by its reference, not by the digest  *)
(* looked up before, and truncates the files of the directory one by one:  *)
(* two calls that write them at the same time may leave any of them cut.   *)
UnpackBegins(p) ==
  LET d == call[p].digest IN
  /\ call[p].at = "unpack"
  /\ files' = [files EXCEPT ![d] = IF OtherWriters(p, d) = {} THEN "torn" ELSE "mixed"]
  /\ \E source \in Digest :
       /\ call' = [call EXCEPT ![p].at = "write", ![p].source = source]
       /\ hurt' = IF \/ source # d
                     \/ d \in cached
                     \/ \E q \in Proc \ {p} :
                          /\ call[q].digest = d
                          /\ call[q].at \in {"write", "store", "remember"}
                  THEN hurt \cup {d} ELSE hurt
  /\ UNCHANGED <<functions, cached>>

UnpackEnds(p) ==
  LET d == call[p].digest
      outcomes == (IF OtherWriters(p, d) = {} THEN {call[p].source} ELSE {})
                    \cup (IF files[d] = "mixed" THEN {"mixed"} ELSE {})
  IN
  /\ call[p].at = "write"
  /\ Goto(p, "store")
  /\ \E o \in outcomes : files' = [files EXCEPT ![d] = o]
  /\ UNCHANGED <<functions, cached, hurt>>

(* Mutant of PullFails: the err of Pull is tested like that of Detect, a   *)
(* variable of the inner scope that nobody looks at.                       *)
PullFailsUnnoticed(p) ==
  /\ call[p].at \in {"unpack", "write"}
  /\ Goto(p, "store")
  /\ UNCHANGED <<functions, cached, files, hurt>>

PullFails(p) ==
  /\ call[p].at \in {"unpack", "write"}
  /\ Return(p, FALSE)
  /\ UNCHANGED <<functions, cached, files, hurt>>

StoreFunction(p) ==
  LET c == call[p] IN
  /\ c.at = "store"
  /\ functions' = [functions EXCEPT ![c.fn] = [image |-> c.image, digest |-> c.digest]]
  /\ call' = [call EXCEPT ![p].at = "remember", ![p].added = TRUE]
  /\ UNCHANGED <<cached, files, hurt>>

StoreImage(p) ==
  /\ call[p].at = "remember"
  /\ cached' = cached \cup {call[p].digest}
  /\ Return(p, TRUE)
  /\ UNCHANGED <<functions, files, hurt>>

-----------------------------------------------------------------------------
(* UpdateFunction: the package and the directory stay when the image does, *)
(* otherwise the function is deleted and added again.                      *)

UpdateReads(p) ==
  LET c == call[p]
      old == functions[c.fn]
  IN
  /\ c.at = "read"
  /\ IF old = NoFunction THEN Return(p, FALSE)
     ELSE IF old.image = c.image
     THEN call' = [call EXCEPT ![p].at = "keep", ![p].digest = old.digest]
     ELSE Goto(p, "drop")
  /\ UNCHANGED <<functions, cached, files, hurt>>

UpdateKeeps(p) ==
  LET c == call[p] IN
  /\ c.at = "keep"
  /\ functions' = [functions EXCEPT ![c.fn] = [image |-> c.image, digest |-> c.digest]]
  /\ Return(p, TRUE)
  /\ UNCHANGED <<cached, files, hurt>>

UpdateDrops(p) ==
  /\ call[p].at = "drop"
  /\ functions' = [functions EXCEPT ![call[p].fn] = NoFunction]
  /\ Goto(p, "check")
  /\ UNCHANGED <<cached, files, hurt>>

DeleteFunction(f) ==
  /\ functions' = [functions EXCEPT ![f] = NoFunction]
  /\ UNCHANGED <<cached, files, call, hurt>>

-----------------------------------------------------------------------------
(* The daemon starts again: both tables are empty, the directories remain. *)
StoreRestarts ==
  /\ functions' = [f \in Fn |-> NoFunction]
  /\ cached' = {}
  /\ call' = [p \in Proc |-> NoCall]
  /\ hurt' = {}
  /\ UNCHANGED files

StoreStep(p) ==
  \/ CheckAbsent(p) \/ ResolveManifest(p) \/ ImageCached(p) \/ ImageMissing(p)
  \/ UnpackBegins(p) \/ UnpackEnds(p) \/ PullFails(p)
  \/ StoreFunction(p) \/ StoreImage(p)
  \/ UpdateReads(p) \/ UpdateKeeps(p) \/ UpdateDrops(p)

StoreNext ==
  \/ \E p \in Proc, f \in Fn, i \in Image, s \in {"check", "read"} :
       Enter(p, s, f, i) /\ UNCHANGED <<functions, cached, files, hurt>>
  \/ \E p \in Proc : StoreStep(p)
  \/ \E f \in Fn : DeleteFunction(f)
  \/ StoreRestarts

StoreSpec == StoreInit /\ [][StoreNext]_storeVars

-----------------------------------------------------------------------------
StoreTypeOK ==
  /\ functions \in [Fn -> Function \cup {NoFunction}]
  /\ cached \subseteq Digest
  /\ files \in [Digest -> Digest \cup {"absent", "torn", "mixed"}]
  /\ call \in [Proc -> [at : Step, fn : Fn \cup {None}, image : Image \cup {None},
                        digest : Digest \cup {None}, source : Digest \cup {None},
                        added : BOOLEAN, ok : BOOLEAN]]
  /\ hurt \subseteq Digest

(* The directory of every image in the cache, and of every function, holds *)
(* that image whole, unless two calls unpacked it at the same time or the  *)
(* name got another image between the look-up and the pull (148): no       *)
(* failed pull and no restart leaves a torn directory that later           *)
(* deployments rely on.                                                    *)
DirectoryHoldsImage ==
  \A d \in Digest :
    (d \in cached \/ \E f \in Fn : functions[f].digest = d) => (files[d] = d \/ d \in hurt)

(* The inductive invariant behind it. *)

CallFits ==
  \A p \in Proc :
    /\ call[p].at # "idle" => call[p].fn \in Fn /\ call[p].image \in Image
    /\ call[p].at \in {"keep", "lookup", "unpack", "write", "store", "remember"}
         => call[p].digest \in Digest
    /\ call[p].at = "write" => call[p].source \in Digest

(* A call has taken the directory of d for whole, or put it into the cache. *)
TakenAsWhole(d) ==
  d \in cached \/ \E p \in Proc : call[p].at \in {"store", "remember"} /\ call[p].digest = d

FilesFit ==
  \A d \in Digest \ hurt :
    /\ TakenAsWhole(d) => files[d] = d
    /\ \A p \in Proc : call[p].at = "write" /\ call[p].digest = d
         => files[d] = "torn" /\ call[p].source = d /\ OtherWriters(p, d) = {}

(* Who has an image in the function table has it in the cache, or soon will. *)
InUse(d) == \/ \E f \in Fn : functions[f].digest = d
            \/ \E p \in Proc : call[p].at = "keep" /\ call[p].digest = d

UseFits ==
  \A d \in Digest : InUse(d) =>
    d \in cached \/ \E p \in Proc : call[p].at = "remember" /\ call[p].digest = d

(* The parts hold together between any two accesses to the tables (126,    *)
(* 175, 176, 270) and directories: who writes a directory is alone, or it  *)
(* is hurt; who is past the pull has a whole one, and keeps it.            *)
StoreInductive == CallFits /\ FilesFit /\ UseFits

(* cmd/provider.go:29 documents that "Always" forces a pull of images upon *)
(* deployment: a call that is about to return success has pulled.          *)
AlwaysPullHonoured ==
  AlwaysPull => \A p \in Proc : call[p].at = "remember" => call[p].source # None
=============================================================================
