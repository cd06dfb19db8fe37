---------------------------- MODULE BodyDelivery ----------------------------
(***************************************************************************)
(* How the body of one request reaches its Dart handler, and how the native *)
(* memory it travels in is given back.                                      *)
(*                                                                         *)
(* The loop thread allocates each payload, logs it in PendingTable and      *)
(* posts it; heads, body chunks and server events are separate streams with *)
(* no order between them.  The runner (server_runner.dart) copies a payload *)
(* when its message is delivered and acknowledges payloads by a cumulative  *)
(* count (ackBody); the log frees every payload below the count.  A request *)
(* that is over - answered, timed out, its client gone - has its log        *)
(* orphaned, and an orphaned log is reaped once everything is acknowledged. *)
(*                                                                         *)
(* Requests do not share logs, so one is modelled.                          *)
(***************************************************************************)
EXTENDS Integers, Sequences

CONSTANTS
    Routes,         \* the kinds of route: "stream" (streamBody: true), "whole"
    EarlyAnswers,   \* handlers may answer before the body has ended
    Faults,         \* what may end a request other than its answer
    MaxPayloads     \* bound on the data payloads of a request

ASSUME FlagsAssumption ==
    /\ Routes \subseteq {"stream", "whole"}
    /\ EarlyAnswers \in BOOLEAN
    /\ Faults \subseteq {"deadline", "disconnect", "oversize", "stalled upload", "idle answer"}
ASSUME BoundAssumption == MaxPayloads \in Nat

VARIABLES
    route,      \* the route the request matched
    engine,     \* where the loop thread is with this request
    loc,        \* whether the request is in reqLoc_
    emitting,   \* the message the loop thread has tracked and not yet posted
    tracked,    \* payloads allocated so far; they are numbered 1 .. tracked
    live,       \* whether PendingTable has a log for the request
    nextSeq,    \* PayloadLog::nextSeq
    acked,      \* PayloadLog::acked
    orphaned,   \* PayloadLog::orphaned
    held,       \* the payloads in the log
    seqOf,      \* their sequence numbers
    freed,      \* the payloads freed
    head,       \* the head: not posted, posted, or delivered
    chunks,     \* the bodyChunks stream
    events,     \* the server events posted and not yet delivered
    entry,      \* the request's _pending entry in the runner
    ended,      \* whether the handler has seen its body end or fail
    earlyEnd,   \* _earlyComplete
    earlyError, \* _earlyErrors
    ackCount,   \* _acked, 0 when absent
    completed,  \* whether the request is in _completed
    handler     \* the handler, and the answer being delivered

logVars == <<live, nextSeq, acked, orphaned, held, freed>>
dartVars == <<entry, ended, earlyEnd, earlyError, ackCount, completed, handler>>
vars == <<route, engine, loc, emitting, tracked, live, nextSeq, acked, orphaned, held, seqOf,
          freed, head, chunks, events, entry, ended, earlyEnd, earlyError, ackCount,
          completed, handler>>

Payloads == 1 .. MaxPayloads + 1      \* one more for the error of an abort
Message == [kind : {"data", "error", "end"}, payload : Payloads \cup {0}]

TypeOK ==
    /\ route \in Routes
    /\ engine \in {"idle", "body", "abort", "over"}
    /\ loc \in BOOLEAN
    /\ emitting \in Message \cup {[kind |-> "none", payload |-> 0]}
    /\ tracked \in Payloads \cup {0}
    /\ live \in BOOLEAN
    /\ nextSeq \in Nat /\ acked \in Nat
    /\ orphaned \in BOOLEAN
    /\ held \in SUBSET Payloads
    /\ seqOf \in [Payloads -> Nat]
    /\ freed \in SUBSET Payloads
    /\ head \in {"none", "posted", "delivered"}
    /\ chunks \in Seq(Message)
    /\ events \in SUBSET {"handlerTimeout", "clientDisconnect", "clientError"}
    /\ entry \in {"none", "buffering", "streaming"}
    /\ ended \in BOOLEAN /\ completed \in BOOLEAN
    /\ earlyEnd \in BOOLEAN /\ earlyError \in BOOLEAN
    /\ ackCount \in Nat
    /\ handler \in {"none", "running", "completing", "opened", "streaming", "done"}

StreamBody == route = "stream"
Nothing == [kind |-> "none", payload |-> 0]
EndOfBody == [kind |-> "end", payload |-> 0]

Init ==
    /\ route \in Routes
    /\ engine = "idle"
    /\ loc = FALSE
    /\ emitting = Nothing
    /\ tracked = 0
    /\ live = FALSE /\ nextSeq = 0 /\ acked = 0 /\ orphaned = FALSE
    /\ held = {}
    /\ seqOf = [p \in Payloads |-> 0]
    /\ freed = {}
    /\ head = "none"
    /\ chunks = <<>>
    /\ events = {}
    /\ entry = "none"
    /\ ended = FALSE /\ earlyEnd = FALSE /\ earlyError = FALSE
    /\ ackCount = 0
    /\ completed = FALSE
    /\ handler = "none"

-----------------------------------------------------------------------------
(* PendingTable.                                                            *)

\* trackPayload: log p, in a new log if there is none.
TrackPayload(p) ==
    /\ live' = TRUE
    /\ seqOf' = [seqOf EXCEPT ![p] = IF live THEN nextSeq ELSE 0]
    /\ nextSeq' = IF live THEN nextSeq + 1 ELSE 1
    /\ acked' = IF live THEN acked ELSE 0
    /\ orphaned' = (live /\ orphaned)
    /\ held' = held \cup {p}
    /\ freed' = freed

\* Slip: an erased request frees its payloads whether or not Dart has them.
EraseLogFreesAll ==
    /\ live' = FALSE /\ orphaned' = FALSE
    /\ freed' = freed \cup held
    /\ held' = {}
    /\ UNCHANGED <<nextSeq, acked>>

\* erase: the request is over.  Its log goes too if everything is
\* acknowledged, and is orphaned otherwise.
EraseLog ==
    \/ /\ live /\ acked = nextSeq
       /\ live' = FALSE /\ orphaned' = FALSE
       /\ freed' = freed \cup held
       /\ held' = {}
       /\ UNCHANGED <<nextSeq, acked>>
    \/ /\ live /\ acked # nextSeq
       /\ orphaned' = TRUE
       /\ UNCHANGED <<live, nextSeq, acked, held, freed>>
    \/ ~live /\ UNCHANGED logVars

\* ack: free the payloads below n, and reap an orphaned log that is then
\* acknowledged in full.
AckBody(n) ==
    LET below == {p \in held : seqOf[p] < n} IN
    \/ /\ live /\ n > acked
       /\ acked' = n
       /\ held' = held \ below
       /\ freed' = freed \cup below
       /\ nextSeq' = nextSeq
       /\ IF orphaned /\ n = nextSeq
          THEN live' = FALSE /\ orphaned' = FALSE
          ELSE UNCHANGED <<live, orphaned>>
    \/ (~live \/ n <= acked) /\ UNCHANGED logVars

-----------------------------------------------------------------------------
(* The loop thread.                                                         *)

\* processConn dispatches the request: head first, then its body.
Dispatch ==
    /\ engine = "idle"
    /\ engine' = "body"
    /\ loc' = TRUE
    /\ head' = "posted"
    /\ UNCHANGED <<route, emitting, tracked, logVars, seqOf, chunks, events, dartVars>>

\* A payload is allocated and logged, and only then posted.  A route that
\* does not stream has its whole body in one payload.
Track ==
    /\ engine = "body" /\ emitting = Nothing
    /\ tracked < (IF StreamBody THEN MaxPayloads ELSE 1)
    /\ tracked' = tracked + 1
    /\ TrackPayload(tracked + 1)
    /\ emitting' = [kind |-> "data", payload |-> tracked + 1]
    /\ UNCHANGED <<route, engine, loc, head, chunks, events, dartVars>>

Emit ==
    /\ emitting # Nothing
    /\ chunks' = Append(chunks, emitting)
    /\ emitting' = Nothing
    /\ UNCHANGED <<route, engine, loc, tracked, logVars, seqOf, head, events, dartVars>>

EmitEnd ==
    /\ engine = "body" /\ emitting = Nothing
    /\ StreamBody \/ tracked = 1
    /\ engine' = "over"
    /\ chunks' = Append(chunks, EndOfBody)
    /\ UNCHANGED <<route, loc, emitting, tracked, logVars, seqOf, head, events, dartVars>>

\* abortStreamTooLarge: the request is taken out, then the error is tracked
\* and posted (and 413 written, whether or not it was still there).
AbortStreamTooLarge ==
    /\ "oversize" \in Faults /\ StreamBody
    /\ engine = "body" /\ emitting = Nothing
    /\ engine' = "abort"
    /\ loc' = FALSE
    /\ IF loc THEN EraseLog ELSE UNCHANGED logVars
    /\ UNCHANGED <<route, emitting, tracked, seqOf, head, chunks, events, dartVars>>

TrackError ==
    /\ engine = "abort"
    /\ engine' = "over"
    /\ tracked' = tracked + 1
    /\ TrackPayload(tracked + 1)
    /\ emitting' = [kind |-> "error", payload |-> tracked + 1]
    /\ UNCHANGED <<route, loc, head, chunks, events, dartVars>>

\* The loop thread is between callbacks.
AtRest == emitting = Nothing /\ engine # "abort" /\ (engine = "body" => StreamBody)

\* What onSweep finds: a deadline that passed before the answer began, an
\* upload that stalled, a streamed answer that has gone quiet.
Expired(kind) ==
    \/ /\ kind = "handlerTimeout" /\ "deadline" \in Faults
       /\ handler # "streaming"
    \/ /\ kind = "clientError" /\ "stalled upload" \in Faults
       /\ engine = "body"
    \/ /\ kind = "clientError" /\ "idle answer" \in Faults
       /\ handler = "streaming"

\* Slip: the sweep does not tell the runner of a deadline that passed.
RetireUntold(kind) ==
    /\ AtRest /\ loc
    /\ Expired(kind)
    /\ loc' = FALSE
    /\ engine' = "over"
    /\ EraseLog
    /\ UNCHANGED <<route, emitting, tracked, seqOf, head, chunks, events, dartVars>>

\* onSweep retires the request and reports why; the connection closes.
Retire(kind) ==
    /\ AtRest /\ loc
    /\ Expired(kind)
    /\ loc' = FALSE
    /\ engine' = "over"
    /\ EraseLog
    /\ events' = events \cup {kind}
    /\ UNCHANGED <<route, emitting, tracked, seqOf, head, chunks, dartVars>>

\* onCloseConn: the client is gone.  Only a request still in reqLoc_ is told.
Disconnect ==
    /\ AtRest /\ "disconnect" \in Faults
    /\ engine = "body" \/ loc
    /\ engine' = "over"
    /\ loc' = FALSE
    /\ IF loc THEN EraseLog ELSE UNCHANGED logVars
    /\ events' = IF loc THEN events \cup {"clientDisconnect"} ELSE events
    /\ UNCHANGED <<route, emitting, tracked, seqOf, head, chunks, dartVars>>

\* onAsync writes the head of a streamed answer: its deadline is off.
WriteStreamHead ==
    /\ AtRest /\ loc
    /\ handler = "opened"
    /\ handler' = "streaming"
    /\ UNCHANGED <<route, engine, loc, emitting, tracked, logVars, seqOf, head, chunks, events,
                   entry, ended, earlyEnd, earlyError, ackCount, completed>>

-----------------------------------------------------------------------------
(* The runner.  An isolate runs one callback at a time; the native calls it *)
(* makes on the way (respond, ackBody) interleave with the loop thread.     *)

\* The cumulative ack, sent only when something has been copied.
Flush(n) == IF n > 0 THEN AckBody(n) ELSE UNCHANGED logVars

\* Slip: completing a request drops its count without sending it.
CompleteUnacked ==
    /\ entry' = "none"
    /\ completed' = TRUE
    /\ ackCount' = 0
    /\ UNCHANGED logVars

\* _complete: the request is over for the runner.
Complete ==
    /\ entry' = "none"
    /\ completed' = TRUE
    /\ ackCount' = 0
    /\ Flush(ackCount)

\* _onHead: the bytes that beat the head are already counted.  A body known
\* to be complete, or a route that streams, dispatches at once; _dispatch
\* drops a request whose body has already failed.
OnHead ==
    /\ handler # "completing"
    /\ head = "posted"
    /\ head' = "delivered"
    /\ earlyEnd' = (earlyEnd /\ completed)
    /\ earlyError' = (earlyError /\ completed)
    /\ \/ completed /\ UNCHANGED <<logVars, entry, ended, ackCount, completed, handler>>
       \/ /\ ~completed /\ earlyError /\ (earlyEnd \/ StreamBody)
          /\ Complete
          /\ UNCHANGED <<ended, handler>>
       \/ /\ ~completed /\ ~earlyError /\ (earlyEnd \/ StreamBody)
          /\ entry' = IF earlyEnd THEN "buffering" ELSE "streaming"
          /\ handler' = "running"
          /\ ended' = earlyEnd
          /\ IF earlyEnd THEN UNCHANGED logVars ELSE Flush(ackCount)
          /\ UNCHANGED <<ackCount, completed>>
       \/ /\ ~completed /\ ~earlyEnd /\ ~StreamBody
          /\ entry' = "buffering"
          /\ UNCHANGED <<logVars, ended, ackCount, completed, handler>>
    /\ UNCHANGED <<route, engine, loc, emitting, tracked, seqOf, chunks, events>>

\* _onChunk, data: a straggler of a completed request is acknowledged
\* unread, as payload number one.  Any other is copied and counted, and the
\* count is sent at once when the handler reads a stream.
OnData ==
    /\ Head(chunks).kind = "data"
    /\ IF completed
       THEN AckBody(1) /\ ackCount' = ackCount
       ELSE /\ ackCount' = ackCount + 1
            /\ IF entry = "streaming" THEN AckBody(ackCount + 1) ELSE UNCHANGED logVars
    /\ UNCHANGED <<entry, ended, earlyEnd, earlyError, completed, handler>>

\* _onChunk, error: its message is read in every case.
OnError ==
    /\ Head(chunks).kind = "error"
    /\ ackCount' = ackCount + 1
    /\ earlyError' = (earlyError \/ entry = "none")
    /\ ended' = (ended \/ entry = "streaming")
    /\ IF entry = "streaming" THEN AckBody(ackCount + 1) ELSE UNCHANGED logVars
    /\ UNCHANGED <<entry, earlyEnd, completed, handler>>

\* _onChunk, end: a body that was being collected is complete, and its
\* handler runs.
OnEnd ==
    /\ Head(chunks).kind = "end"
    /\ earlyEnd' = (earlyEnd \/ entry = "none")
    /\ ended' = (ended \/ entry # "none")
    /\ handler' = IF entry = "buffering" /\ handler = "none" THEN "running" ELSE handler
    /\ UNCHANGED <<logVars, entry, earlyError, ackCount, completed>>

OnChunk ==
    /\ handler # "completing"
    /\ chunks # <<>>
    /\ OnData \/ OnError \/ OnEnd
    /\ chunks' = Tail(chunks)
    /\ UNCHANGED <<route, engine, loc, emitting, tracked, seqOf, head, events>>

\* _onEvent: a disconnect or a missed deadline cancels the outbound stream
\* and completes the request; any other event is only reported.
OnEvent(kind) ==
    /\ handler # "completing"
    /\ kind \in events
    /\ events' = events \ {kind}
    /\ IF kind \in {"clientDisconnect", "handlerTimeout"}
       THEN /\ Complete
            /\ ended' = (ended \/ entry = "streaming")
            /\ handler' = IF handler \in {"opened", "streaming"} THEN "done" ELSE handler
       ELSE UNCHANGED <<logVars, entry, ended, ackCount, completed, handler>>
    /\ UNCHANGED <<route, engine, loc, emitting, tracked, seqOf, head, chunks, earlyEnd,
                   earlyError>>

\* respond / respondFile, or the last chunk of a streamed answer, takes the
\* request out of reqLoc_.  _complete follows in the same callback.
TakeOut ==
    /\ loc' = FALSE
    /\ IF loc THEN EraseLog ELSE UNCHANGED logVars
    /\ handler' = "completing"
    /\ UNCHANGED <<entry, ended, earlyEnd, earlyError, ackCount, completed>>

\* _deliver: the handler returned its response.  It is dropped if the request
\* is no longer pending; otherwise it is answered, or its stream opened.
Deliver ==
    /\ handler = "running"
    /\ ended \/ EarlyAnswers
    /\ \/ entry = "none" /\ handler' = "done" /\ UNCHANGED <<loc, logVars>>
       \/ entry # "none" /\ handler' = "opened" /\ UNCHANGED <<loc, logVars>>
       \/ entry # "none" /\ TakeOut
    /\ UNCHANGED <<route, engine, emitting, tracked, seqOf, head, chunks, events, entry, ended,
                   earlyEnd, earlyError, ackCount, completed>>

\* _finishStream: the terminal chunk, then _complete.
FinishStream ==
    /\ handler \in {"opened", "streaming"}
    /\ TakeOut
    /\ UNCHANGED <<route, engine, emitting, tracked, seqOf, head, chunks, events>>

\* The _complete after an answer.
CompleteAnswer ==
    /\ handler = "completing"
    /\ handler' = "done"
    /\ Complete
    /\ UNCHANGED <<route, engine, loc, emitting, tracked, seqOf, head, chunks, events, ended,
                   earlyEnd, earlyError>>

Next ==
    \/ Dispatch \/ Track \/ Emit \/ EmitEnd \/ AbortStreamTooLarge \/ TrackError
    \/ \E kind \in {"handlerTimeout", "clientError"} : Retire(kind)
    \/ Disconnect \/ WriteStreamHead
    \/ OnHead \/ OnChunk
    \/ \E kind \in {"handlerTimeout", "clientDisconnect", "clientError"} : OnEvent(kind)
    \/ Deliver \/ FinishStream \/ CompleteAnswer

Spec == Init /\ [][Next]_vars

\* The loop thread finishes its callbacks and the isolate delivers what was
\* posted to it.  Nothing is assumed of clients and handlers.
Fairness ==
    /\ WF_vars(Emit) /\ WF_vars(TrackError)
    /\ WF_vars(OnHead) /\ WF_vars(OnChunk)
    /\ \A kind \in {"handlerTimeout", "clientDisconnect", "clientError"} :
          WF_vars(OnEvent(kind))
    /\ WF_vars(CompleteAnswer)

FairSpec == Spec /\ Fairness

-----------------------------------------------------------------------------
(* Properties.                                                              *)

\* No payload queued for a request that is not completed, and so still to be
\* read, has been freed (PendingTable.h: "leak-free and
\* use-after-free-free").
NoReadAfterFree ==
    \A i \in DOMAIN chunks :
        ~completed /\ chunks[i].kind # "end" => chunks[i].payload \notin freed

\* Nor has the message of an error, which _onChunk reads in every case.
ErrorsReadable ==
    \A i \in DOMAIN chunks : chunks[i].kind = "error" => chunks[i].payload \notin freed
=============================================================================
