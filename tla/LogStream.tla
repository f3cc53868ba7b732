------------------------------ MODULE LogStream -----------------------------
(***************************************************************************)
(* pkg/logs/requester.go: one query for the logs of a function, as the     *)
(* processes it consists of: journalctl, the goroutine that waits for it   *)
(* and closes its pipe, the goroutine that decodes the pipe and sends on   *)
(* an unbuffered channel, and the handler of faas-provider that receives   *)
(* until the channel is closed or its client leaves.                       *)
(***************************************************************************)
EXTENDS Naturals

CONSTANTS
  Entries,  \* bound on the entries in the journal
  Pipe      \* entries the pipe has room for

ASSUME EntriesNat == Entries \in Nat
ASSUME PipeHolds  == Pipe \in Nat \ {0}

VARIABLES
  follow,   \* the request asks to follow the journal
  journal,  \* journalctl and the goroutine in cmd.Wait
  written,  \* entries journalctl has written
  unread,   \* those in the pipe
  buffered, \* those in the decoder's buffer
  loop,     \* where streamLogs is
  ctx,      \* the context of the query
  handler,  \* the HTTP handler
  got,      \* entries the handler has received
  past,     \* history: those it received after the context was done
  lost,     \* history: entries were in the pipe when it was closed
  bad,      \* history: an entry could not be decoded or parsed
  gone      \* history: the client left

vars == <<follow, journal, written, unread, buffered, loop, ctx, handler,
          got, past, lost, bad, gone>>

Init ==
  /\ follow \in BOOLEAN
  /\ journal = "none" /\ loop = "none"
  /\ written = 0 /\ unread = 0 /\ buffered = 0 /\ got = 0 /\ past = 0
  /\ ctx = "live" /\ handler = "ask"
  /\ lost = FALSE /\ bad = FALSE /\ gone = FALSE

-----------------------------------------------------------------------------
Query ==
  /\ handler = "ask"
  /\ handler' = "receive"
  /\ journal' = "run"
  /\ loop' = "more"
  /\ UNCHANGED <<follow, written, unread, buffered, ctx, got, past, lost, bad, gone>>

(* No journalctl, no pipe, no process. *)
QueryFails ==
  /\ handler = "ask"
  /\ handler' = "left"
  /\ ctx' = "done"
  /\ UNCHANGED <<follow, journal, written, unread, buffered, loop, got, past, lost, bad, gone>>

(* The timeout of the handler, or of net/http when the client goes away. *)
ContextEnds ==
  /\ ctx = "live"
  /\ ctx' = "done"
  /\ UNCHANGED <<follow, journal, written, unread, buffered, loop, handler,
                 got, past, lost, bad, gone>>

-----------------------------------------------------------------------------
JournalWrites ==
  /\ journal = "run"
  /\ written < Entries /\ unread < Pipe
  /\ written' = written + 1
  /\ unread' = unread + 1
  /\ UNCHANGED <<follow, journal, buffered, loop, ctx, handler, got, past, lost, bad, gone>>

(* Mutant of JournalExits: exec.Command in place of exec.CommandContext. *)
JournalExitsByItself ==
  /\ journal = "run"
  /\ ~follow
  /\ journal' = "exited"
  /\ UNCHANGED <<follow, written, unread, buffered, loop, ctx, handler,
                 got, past, lost, bad, gone>>

(* At the end of the journal, or killed by exec.CommandContext. *)
JournalExits ==
  /\ journal = "run"
  /\ ~follow \/ ctx = "done"
  /\ journal' = "exited"
  /\ UNCHANGED <<follow, written, unread, buffered, loop, ctx, handler,
                 got, past, lost, bad, gone>>

(* cmd.Wait closes the pipe as soon as the process has ended. *)
Wait ==
  /\ journal = "exited"
  /\ journal' = "reaped"
  /\ unread' = 0
  /\ lost' = IF unread > 0 THEN TRUE ELSE lost
  /\ UNCHANGED <<follow, written, buffered, loop, ctx, handler, got, past, bad, gone>>

-----------------------------------------------------------------------------
(* dec.More reads when the buffer is empty, and ends at the end of the     *)
(* pipe or at an error; returning from streamLogs closes the channel.      *)
More ==
  /\ loop = "more"
  /\ \/ buffered > 0 /\ loop' = "check" /\ UNCHANGED <<unread, buffered>>
     \/ /\ buffered = 0
        /\ \E n \in 1 .. unread : buffered' = n /\ unread' = unread - n
        /\ loop' = "check"
     \/ /\ buffered = 0 /\ unread = 0 /\ journal # "run"
        /\ loop' = "returned"
        /\ UNCHANGED <<unread, buffered>>
  /\ UNCHANGED <<follow, journal, written, ctx, handler, got, past, lost, bad, gone>>

(* Mutant of Decode: the context is only looked at by exec. *)
DecodeRegardless ==
  /\ loop = "check"
  /\ loop' = "send" /\ buffered' = buffered - 1
  /\ UNCHANGED <<follow, journal, written, unread, ctx, handler, got, past, lost, bad, gone>>

(* Mutant of Decode: an entry that cannot be parsed is skipped. *)
DecodeSkips ==
  /\ loop = "check"
  /\ IF ctx = "done"
     THEN loop' = "returned" /\ UNCHANGED buffered
     ELSE buffered' = buffered - 1 /\ loop' \in {"send", "more"}
  /\ UNCHANGED <<follow, journal, written, unread, ctx, handler, got, past, lost, bad, gone>>

(* The context is checked, then an entry is decoded and parsed; a single   *)
(* one that cannot be ends the stream.                                     *)
Decode ==
  /\ loop = "check"
  /\ IF ctx = "done"
     THEN loop' = "returned" /\ UNCHANGED <<buffered, bad>>
     ELSE /\ buffered' = buffered - 1
          /\ \/ loop' = "send" /\ UNCHANGED bad
             \/ loop' = "returned" /\ bad' = TRUE
  /\ UNCHANGED <<follow, journal, written, unread, ctx, handler, got, past, lost, gone>>

(* Mutant of Send: a send that timed out is tried again although the       *)
(* handler has taken the entry.                                            *)
SendAgain ==
  /\ loop = "send" /\ handler = "receive"
  /\ loop' \in {"more", "send"} /\ handler' = "write"
  /\ got' = got + 1
  /\ past' = IF ctx = "done" THEN past + 1 ELSE past
  /\ UNCHANGED <<follow, journal, written, unread, buffered, ctx, lost, bad, gone>>

(* The unbuffered channel: sender and receiver meet. *)
Send ==
  /\ loop = "send" /\ handler = "receive"
  /\ loop' = "more" /\ handler' = "write"
  /\ got' = got + 1
  /\ past' = IF ctx = "done" THEN past + 1 ELSE past
  /\ UNCHANGED <<follow, journal, written, unread, buffered, ctx, lost, bad, gone>>

-----------------------------------------------------------------------------
(* The handler of faas-provider; its return cancels the query. *)
HandlerWrites ==
  /\ handler = "write"
  /\ handler' = "receive"
  /\ UNCHANGED <<follow, journal, written, unread, buffered, loop, ctx, got, past, lost, bad, gone>>

HandlerEnds ==
  /\ handler = "receive" /\ loop = "returned"
  /\ handler' = "left"
  /\ ctx' = "done"
  /\ UNCHANGED <<follow, journal, written, unread, buffered, loop, got, past, lost, bad, gone>>

ClientLeaves ==
  /\ handler \in {"receive", "write"}
  /\ handler' = "left"
  /\ ctx' = "done"
  /\ gone' = TRUE
  /\ UNCHANGED <<follow, journal, written, unread, buffered, loop, got, past, lost, bad>>

(* The query is over. *)
Over == /\ handler = "left" /\ journal \in {"none", "reaped"}
        /\ loop \in {"none", "returned", "send"}
        /\ UNCHANGED vars

Next ==
  \/ Query \/ QueryFails \/ ContextEnds \/ JournalWrites \/ JournalExits \/ Wait
  \/ More \/ Decode \/ Send \/ HandlerWrites \/ HandlerEnds \/ ClientLeaves
  \/ Over

(* Every goroutine runs, the timeout of the handler's context passes, a    *)
(* journal that is not followed ends, and a killed process dies.           *)
Fairness ==
  /\ WF_vars(Query) /\ WF_vars(ContextEnds) /\ WF_vars(JournalExits) /\ WF_vars(Wait)
  /\ WF_vars(More) /\ WF_vars(Decode) /\ WF_vars(Send)
  /\ WF_vars(HandlerWrites) /\ WF_vars(HandlerEnds)

Spec == Init /\ [][Next]_vars /\ Fairness

-----------------------------------------------------------------------------
(* Types; and what was written is in the pipe, in the decoder's buffer, in *)
(* the hands of the loop, received, lost or undecodable.                   *)
TypeOK ==
  /\ follow \in BOOLEAN /\ lost \in BOOLEAN /\ bad \in BOOLEAN /\ gone \in BOOLEAN
  /\ journal \in {"none", "run", "exited", "reaped"}
  /\ written \in 0 .. Entries /\ unread \in 0 .. Pipe
  /\ buffered \in 0 .. Pipe /\ got \in 0 .. written /\ past \in 0 .. got
  /\ loop \in {"none", "more", "check", "send", "returned"}
  /\ ctx \in {"live", "done"}
  /\ handler \in {"ask", "receive", "write", "left"}
  /\ got + buffered + unread + (IF loop = "send" THEN 1 ELSE 0) <= written

(* A stream that ends before its context gave the handler every entry      *)
(* journalctl wrote, unless one could not be decoded (128, 134) or         *)
(* cmd.Wait (108) closed the pipe on entries the decoder had not read.     *)
StreamComplete ==
  loop = "returned" /\ ctx = "live" /\ ~bad /\ ~lost => got = written

(* The check of the context (119) races the send (139): the handler that   *)
(* stays receives at most one entry after its context is done.             *)
CancelledSoon == past <= 1

(* However the query ends, the handler returns, journalctl is reaped and   *)
(* the decoding goroutine returns, unless the client left while it was     *)
(* sending (139): then it is blocked for ever, and only then.              *)
QueryCleanedUp ==
  <>[]( /\ handler = "left"
        /\ journal \in {"none", "reaped"}
        /\ loop \in {"none", "returned"} \/ (loop = "send" /\ gone) )

-----------------------------------------------------------------------------
(* The inductive invariant behind the safety properties.                   *)
Sending == IF loop = "send" THEN 1 ELSE 0

(* Unless the pipe was closed too early, or an entry could not be decoded, *)
(* every entry written is somewhere between journalctl and the handler.    *)
EntriesKept == ~bad /\ ~lost => got + Sending + buffered + unread = written

(* The loop decodes only what it has read, and a stream that ended before  *)
(* its context has read everything of a journalctl that has ended.         *)
LoopFits ==
  /\ handler = "ask" => loop = "none"
  /\ loop = "check" => buffered > 0
  /\ journal = "reaped" => unread = 0
  /\ loop = "returned" /\ ctx = "live" /\ ~bad
       => journal # "run" /\ buffered = 0 /\ unread = 0

(* The entry that is being sent when the context ends is the only one the  *)
(* handler may still receive.                                              *)
PastFits == past + Sending <= IF ctx = "live" THEN Sending ELSE 1

Inductive == TypeOK /\ EntriesKept /\ LoopFits /\ PastFits
=============================================================================
