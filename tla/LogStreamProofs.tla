-------------------------- MODULE LogStreamProofs --------------------------
(* Theorems about LogStream for every length of the journal and every      *)
(* capacity of the pipe.                                                   *)
EXTENDS LogStream, TLAPS

(* The parts of TypeOK. *)
Flags  == follow \in BOOLEAN /\ lost \in BOOLEAN /\ bad \in BOOLEAN /\ gone \in BOOLEAN
Phases ==
  /\ journal \in {"none", "run", "exited", "reaped"}
  /\ loop \in {"none", "more", "check", "send", "returned"}
  /\ ctx \in {"live", "done"}
  /\ handler \in {"ask", "receive", "write", "left"}
Counts ==
  /\ written \in 0 .. Entries /\ unread \in 0 .. Pipe
  /\ buffered \in 0 .. Pipe /\ got \in 0 .. written /\ past \in 0 .. got
  /\ got + buffered + unread + Sending <= written

LEMMA TypeParts == TypeOK <=> Flags /\ Phases /\ Counts
BY DEF TypeOK, Flags, Phases, Counts, Sending

(* A query begins with nothing written.                                    *)
LEMMA InductiveInit == Init => Inductive
<1> SUFFICES ASSUME Init PROVE Inductive
  OBVIOUS
<1>1. Sending = 0  BY DEF Init, Sending
<1>2. Flags /\ Phases  BY DEF Init, Flags, Phases
<1>3. Counts  BY <1>1, EntriesNat, PipeHolds DEF Init, Counts
<1>4. EntriesKept /\ LoopFits /\ PastFits
  BY <1>1 DEF Init, EntriesKept, LoopFits, PastFits
<1> QED  BY <1>2, <1>3, <1>4, TypeParts DEF Inductive

(* The flags and the program counters take the values of their types.      *)
LEMMA PhaseStep == Flags /\ Phases /\ [Next]_vars => Flags' /\ Phases'
<1> SUFFICES ASSUME Flags, Phases, [Next]_vars PROVE Flags' /\ Phases'
  OBVIOUS
<1>1. Flags'
  BY DEF Flags, Next, vars, Query, QueryFails, ContextEnds, JournalWrites, JournalExits, Wait,
    More, Decode, Send, HandlerWrites, HandlerEnds, ClientLeaves, Over
<1>2. Phases'
  BY DEF Phases, Next, vars, Query, QueryFails, ContextEnds, JournalWrites, JournalExits, Wait,
    More, Decode, Send, HandlerWrites, HandlerEnds, ClientLeaves, Over
<1> QED  BY <1>1, <1>2

(* Every step of journalctl, of the goroutine in cmd.Wait, of the decoding *)
(* loop and of the handler keeps the counts.                               *)
LEMMA CountStep ==
  ASSUME Phases, Counts, EntriesKept, LoopFits, PastFits, [Next]_vars
  PROVE  Counts' /\ EntriesKept' /\ LoopFits' /\ PastFits'
<1> USE EntriesNat, PipeHolds
    DEF Phases, Counts, EntriesKept, LoopFits, PastFits, Sending
<1>1. CASE Query  BY <1>1 DEF Query
<1>2. CASE QueryFails  BY <1>2 DEF QueryFails
<1>3. CASE ContextEnds  BY <1>3 DEF ContextEnds
<1>4. CASE JournalWrites  BY <1>4 DEF JournalWrites
<1>5. CASE JournalExits  BY <1>5 DEF JournalExits
<1>6. CASE Wait  BY <1>6 DEF Wait
<1>7. CASE More  BY <1>7 DEF More
<1>8. CASE Decode  BY <1>8 DEF Decode
<1>9. CASE Send  BY <1>9 DEF Send
<1>10. CASE HandlerWrites  BY <1>10 DEF HandlerWrites
<1>11. CASE HandlerEnds  BY <1>11 DEF HandlerEnds
<1>12. CASE ClientLeaves  BY <1>12 DEF ClientLeaves
<1>13. CASE Over \/ UNCHANGED vars  BY <1>13 DEF Over, vars
<1> QED
  BY <1>1, <1>2, <1>3, <1>4, <1>5, <1>6, <1>7, <1>8, <1>9, <1>10, <1>11, <1>12, <1>13 DEF Next

(* Together: each step keeps the invariant.                               *)
LEMMA InductiveStep == Inductive /\ [Next]_vars => Inductive'
<1>1. TypeOK' <=> Flags' /\ Phases' /\ Counts'
  BY DEF TypeOK, Flags, Phases, Counts, Sending
<1> QED  BY <1>1, PhaseStep, CountStep, TypeParts DEF Inductive

(* The invariant of a query, from which the theorems below follow.         *)
THEOREM InvariantHolds == Spec => []Inductive
BY InductiveInit, InductiveStep, PTL DEF Spec

(* The variables keep their types, and no entry is received, buffered or   *)
(* unread that journalctl has not written.                                 *)
THEOREM TypeCorrect == Spec => []TypeOK
<1>1. Inductive => TypeOK  BY DEF Inductive
<1> QED  BY <1>1, InvariantHolds, PTL

(* A stream that ends by itself has given the handler the whole journal,   *)
(* unless an entry could not be decoded or cmd.Wait closed the pipe on it. *)
THEOREM StreamIsComplete == Spec => []StreamComplete
<1>1. Inductive => StreamComplete
  BY DEF Inductive, TypeOK, EntriesKept, LoopFits, Sending, StreamComplete
<1> QED  BY <1>1, InvariantHolds, PTL

(* After its context is done a handler that stays receives at most the one *)
(* entry that was checked before and is being sent.                        *)
THEOREM CancellationIsPrompt == Spec => []CancelledSoon
<1>1. Inductive => CancelledSoon
  BY DEF Inductive, TypeOK, PastFits, Sending, CancelledSoon
<1> QED  BY <1>1, InvariantHolds, PTL
=============================================================================
