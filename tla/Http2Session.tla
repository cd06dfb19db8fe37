---------------------------- MODULE Http2Session ----------------------------
(***************************************************************************)
(* One HTTP/2 connection: Http2Session and the parts of UvReactor that feed *)
(* it, answer through it, sweep it and close it.                            *)
(*                                                                         *)
(* Everything that touches the session runs on its loop thread.  Handlers   *)
(* call respond, startStream and sendStreamChunk from isolate threads; the  *)
(* two sides share reqLoc_ and h2StreamAccum_ (under reqMutex_) and the     *)
(* loop's queue.  Requests of other loops are in the same reqLoc_: of them  *)
(* only their number matters, and that the check of the in-flight budget    *)
(* and the insertion are two locked sections.                               *)
(*                                                                         *)
(* The request of stream s has the id s.  Body lengths are small numbers;   *)
(* -1 is no Content-Length, a cap of 0 no cap.  nghttp2 is external: it     *)
(* holds bodies to their Content-Length, closes a stream once both ends     *)
(* have ended it, and wants to read until GOAWAY and the last stream.       *)
(***************************************************************************)
EXTENDS Integers, Sequences, FiniteSets, Functions

CONSTANTS
    Streams,        \* the streams of the session, 1 .. n
    Heads,          \* the request heads of clients: see HeadsAssumption
    Budget,         \* maxBufferedBodyBytes
    MaxBody,        \* bound on the bytes of a body
    MaxInFlight,    \* maxInFlightRequests
    OtherLoops      \* the other loops of the reactor

ASSUME StreamsAssumption == IsFiniteSet(Streams) /\ Streams = 1 .. Cardinality(Streams)
\* A head names a route with its body cap and its timeout or none, or only
\* other methods have its path; its length is declared or -1, its body may be none.
ASSUME HeadsAssumption ==
    \A h \in Heads :
        /\ h.found \in {"route", "method"} /\ h.cap \in Nat /\ h.length \in Nat \cup {-1}
        /\ h.bodyless \in BOOLEAN /\ h.timed \in BOOLEAN
        /\ h.bodyless => h.length <= 0
ASSUME SizesAssumption ==
    /\ {Budget, MaxBody, MaxInFlight} \subseteq Nat \ {0}
ASSUME LoopsAssumption == IsFiniteSet(OtherLoops)

VARIABLES
    phase,      \* open, closing (uv_close called) or closed (onCloseConn ran)
    goaway,     \* goawaySent_
    stage,      \* of a stream: none, head (onBeginHeaders), body (routed),
                \* emitted (dispatched), or gone (deleted)
    rejected,   \* Stream::rejected
    ended,      \* the client has ended its side
    found,      \* Stream::matched, and whether other methods have the path
    cap,        \* Stream::maxBody
    length,     \* Stream::contentLength
    reserve,    \* Stream::reserved
    reserved,   \* reserved_
    body,       \* Stream::body
    deadline,   \* Stream::hasDeadline
    answers,    \* the responses submitted: "engine" (rejectStream) or "handler"
    out,        \* the last of them: none, blocked by flow control, or sent
    toStream,   \* reqToStream_
    reqLoc,     \* reqLoc_, the ids of this connection
    accum,      \* h2StreamAccum_
    queue,      \* Loop::queue: the answers handed over to the loop
    handler,    \* none, running, starting (in startStream), streaming,
                \* flushing (in sendStreamChunk), done
    told,       \* what the runner was told: a timeout, or the end of the client
    others,     \* the requests of other loops in reqLoc_
    admitted    \* the other loops between overInFlightBudget and the insertion

streamVars == <<stage, rejected, ended, found, cap, length, reserve, body, deadline, answers, out>>
locVars == <<reqLoc, accum, queue, handler, told>>
otherVars == <<others, admitted>>
vars == <<phase, goaway, streamVars, reserved, toStream, locVars, otherVars>>

TypeOK ==
    /\ phase \in {"open", "closing", "closed"} /\ goaway \in BOOLEAN
    /\ stage \in [Streams -> {"none", "head", "body", "emitted", "gone"}]
    /\ {rejected, ended, deadline} \subseteq [Streams -> BOOLEAN]
    /\ cap \in [Streams -> Nat] /\ length \in [Streams -> Nat \cup {-1}]
    /\ found \in [Streams -> {"none", "route", "method"}]
    /\ reserve \in [Streams -> 0 .. Budget] /\ reserved \in 0 .. Budget
    /\ body \in [Streams -> 0 .. MaxBody]
    /\ answers \in [Streams -> Seq({"engine", "handler"})]
    /\ out \in [Streams -> {"none", "blocked", "sent"}]
    /\ {toStream, reqLoc, accum} \subseteq SUBSET Streams
    /\ queue \in Seq(Streams)
    /\ handler \in [Streams -> {"none", "running", "starting", "streaming", "flushing", "done"}]
    /\ told \in [Streams -> SUBSET {"timeout", "disconnect"}]
    /\ others \in Nat /\ admitted \subseteq OtherLoops

Init ==
    /\ phase = "open" /\ goaway = FALSE
    /\ stage = [s \in Streams |-> "none"]
    /\ rejected = [s \in Streams |-> FALSE] /\ ended = rejected /\ deadline = rejected
    /\ cap = [s \in Streams |-> 0] /\ reserve = cap /\ body = cap
    /\ length = [s \in Streams |-> -1] /\ found = [s \in Streams |-> "none"]
    /\ reserved = 0
    /\ answers = [s \in Streams |-> <<>>] /\ out = [s \in Streams |-> "none"]
    /\ toStream = {} /\ reqLoc = {} /\ accum = {} /\ queue = <<>>
    /\ handler = [s \in Streams |-> "none"] /\ told = [s \in Streams |-> {}]
    /\ others = 0 /\ admitted = {}

-----------------------------------------------------------------------------
(* A stream, in one callback: its new state is put together from what is    *)
(* done to it and from what nghttp2 closes at the end.                      *)

Alive(s) == stage[s] \in {"head", "body", "emitted"}
OpenStreams == {s \in Streams : Alive(s)}       \* hasOpenStreams

\* wantRead and wantWrite, after a pump.
Finished == goaway' /\ {s \in Streams : stage'[s] \in {"head", "body", "emitted"}} = {}

\* Slip: a finished session keeps its socket.
CloseNever == phase' = phase

\* feedH2, onAsync, onSweep: close the connection once the session is finished.
CloseIfFinished == phase' = IF Finished THEN "closing" ELSE phase

\* The stream s, as a record: what callbacks read and change.
Of(s) == [stage |-> stage[s], rejected |-> rejected[s], ended |-> ended[s], found |-> found[s],
          cap |-> cap[s], length |-> length[s], reserve |-> reserve[s], body |-> body[s],
          deadline |-> deadline[s], answers |-> answers[s], out |-> out[s]]

\* rejectStream: drop the body, and answer from the engine.
Rejected(r) == [r EXCEPT !.rejected = TRUE, !.body = 0, !.out = "sent",
                         !.answers = Append(r.answers, "engine")]

\* onFrameRecv adds what a stream reserves to reserved_, onStreamClose takes it off.
Reserved(s, r) == reserved + r.reserve - reserve[s]

\* reqToStream_ names the dispatched streams the engine has not answered.
RouteBack(s, r) ==
    IF r.stage = "emitted" /\ ~r.rejected THEN toStream \cup {s} ELSE toStream \ {s}

\* onStreamClose: the stream is deleted.
Deleted(r) == [stage |-> "gone", rejected |-> FALSE, ended |-> FALSE, found |-> "none",
               cap |-> 0, length |-> -1, reserve |-> 0, body |-> 0,
               deadline |-> FALSE, answers |-> r.answers, out |-> "none"]

\* pump: the stream s becomes r; nghttp2 closes it once both ends have ended it.
Becomes(s, next) ==
    LET r == IF next.ended /\ next.out = "sent" THEN Deleted(next) ELSE next
    IN /\ stage' = [stage EXCEPT ![s] = r.stage]
       /\ rejected' = [rejected EXCEPT ![s] = r.rejected]
       /\ ended' = [ended EXCEPT ![s] = r.ended]
       /\ found' = [found EXCEPT ![s] = r.found]
       /\ cap' = [cap EXCEPT ![s] = r.cap] /\ length' = [length EXCEPT ![s] = r.length]
       /\ reserve' = [reserve EXCEPT ![s] = r.reserve]
       /\ reserved' = Reserved(s, r)
       /\ body' = [body EXCEPT ![s] = r.body]
       /\ deadline' = [deadline EXCEPT ![s] = r.deadline]
       /\ answers' = [answers EXCEPT ![s] = r.answers]
       /\ out' = [out EXCEPT ![s] = r.out]
       /\ toStream' = RouteBack(s, r)

\* overInFlightBudget.
OverBudget == Cardinality(reqLoc) + others >= MaxInFlight

\* emitComplete: refuse over the budget (503) or for a path that only has
\* other methods (405); else dispatch, with the body handed over.
EmitComplete(r) ==
    IF OverBudget \/ r.found = "method" THEN Rejected(r)
    ELSE [r EXCEPT !.stage = "emitted", !.body = 0]

\* What emitComplete does outside the stream: register the id, run the handler.
Dispatch(s, r) ==
    IF r.stage = "emitted" /\ stage[s] # "emitted"
    THEN /\ reqLoc' = reqLoc \cup {s}
         /\ handler' = [handler EXCEPT ![s] = "running"]
         /\ UNCHANGED <<accum, queue, told>>
    ELSE UNCHANGED locVars

-----------------------------------------------------------------------------
(* The loop thread: feedH2.                                                 *)

\* onBeginHeaders: a new stream.
OnBeginHeaders(s) ==
    /\ phase = "open" /\ ~goaway
    /\ stage[s] = "none" /\ \A t \in 1 .. s - 1 : stage[t] # "none"
    /\ Becomes(s, [Of(s) EXCEPT !.stage = "head"])
    /\ UNCHANGED <<phase, goaway, locVars, otherVars>>

\* onHeader: a field the runner could not take (400).
OnHeader(s) ==
    /\ phase = "open" /\ stage[s] = "head" /\ ~rejected[s]
    /\ Becomes(s, Rejected(Of(s)))
    /\ UNCHANGED <<phase, goaway, locVars, otherVars>>

\* onFrameRecv on HEADERS: what the stream may buffer.
Want(r, bodyless) ==
    IF bodyless THEN 0 ELSE IF r.length >= 0 THEN r.length
    ELSE IF r.cap > 0 THEN r.cap ELSE Budget + 1

\* onFrameRecv on HEADERS: refuse what could not be held (413), or not now
\* (503), else reserve it.
Reserve(r, bodyless) ==
    LET want == Want(r, bodyless)
    IN IF want > Budget \/ reserved + want > Budget THEN Rejected(r)
       ELSE [r EXCEPT !.reserve = want]

\* onFrameRecv on HEADERS: route, refuse a declared body over the cap (413), reserve, and dispatch
\* when the head ends the stream.
OnHeaders(s, h) ==
    LET routed == [Of(s) EXCEPT !.stage = "body", !.found = h.found, !.cap = h.cap,
                                !.length = h.length, !.deadline = h.timed, !.ended = h.bodyless]
        kept == IF rejected[s] THEN routed
                ELSE IF h.cap > 0 /\ h.length > h.cap THEN Rejected(routed)
                ELSE Reserve(routed, h.bodyless)
        r == IF h.bodyless /\ ~kept.rejected THEN EmitComplete(kept) ELSE kept
    IN /\ phase = "open" /\ stage[s] = "head"
       /\ Becomes(s, r) /\ Dispatch(s, r)
       /\ goaway' = goaway /\ CloseIfFinished
       /\ UNCHANGED otherVars

\* nghttp2: n more bytes, and the end of the stream or not, fit the declared length.
Fits(s, n, end) ==
    length[s] >= 0 => IF end THEN body[s] + n = length[s] ELSE body[s] + n <= length[s]

\* Slip: a refused stream is dispatched at its end.
OnDataDispatches(s, n, end) ==
    LET more == [Of(s) EXCEPT !.body = IF rejected[s] THEN 0 ELSE body[s] + n, !.ended = end]
        r == IF end THEN EmitComplete(more) ELSE more
    IN /\ phase = "open" /\ stage[s] = "body" /\ ~ended[s] /\ body[s] + n <= MaxBody
       /\ ~rejected[s] => Fits(s, n, end)
       /\ Becomes(s, r) /\ Dispatch(s, r)
       /\ goaway' = goaway /\ CloseIfFinished
       /\ UNCHANGED otherVars

\* onDataChunk, onFrameRecv on DATA: n bytes, refused over the cap (413); the
\* last ones dispatch the request.
OnData(s, n, end) ==
    LET more == IF rejected[s] THEN Of(s)
                ELSE IF cap[s] > 0 /\ body[s] + n > cap[s] THEN Rejected(Of(s))
                ELSE [Of(s) EXCEPT !.body = body[s] + n]
        last == [more EXCEPT !.ended = end]
        r == IF end /\ ~last.rejected THEN EmitComplete(last) ELSE last
    IN /\ phase = "open" /\ stage[s] = "body" /\ ~ended[s] /\ body[s] + n <= MaxBody
       /\ ~rejected[s] => Fits(s, n, end)
       /\ Becomes(s, r) /\ Dispatch(s, r)
       /\ goaway' = goaway /\ CloseIfFinished
       /\ UNCHANGED otherVars

\* feed of a WINDOW_UPDATE: the rest of a blocked answer goes out.
OnWindowUpdate(s) ==
    /\ phase = "open" /\ Alive(s) /\ out[s] = "blocked"
    /\ Becomes(s, [Of(s) EXCEPT !.out = "sent"])
    /\ goaway' = goaway /\ CloseIfFinished
    /\ UNCHANGED <<locVars, otherVars>>

\* feed of a RST_STREAM: onStreamClose.  The runner is not told.
OnReset(s) ==
    /\ phase = "open" /\ stage[s] \in {"body", "emitted"}
    /\ Becomes(s, Deleted(Of(s)))
    /\ goaway' = goaway /\ CloseIfFinished
    /\ UNCHANGED <<locVars, otherVars>>

\* feed fails, the peer closes, or a write fails.
Lost ==
    /\ phase = "open" /\ phase' = "closing"
    /\ UNCHANGED <<goaway, streamVars, reserved, toStream, locVars, otherVars>>

-----------------------------------------------------------------------------
(* Handlers, on isolate threads.                                            *)

HandlerOnly == <<phase, goaway, streamVars, reserved, toStream, told, otherVars>>

\* respond: retire the id and hand the answer to the loop.
Respond(s) ==
    /\ handler[s] = "running"
    /\ handler' = [handler EXCEPT ![s] = "done"]
    /\ reqLoc' = reqLoc \ {s}
    /\ queue' = IF s \in reqLoc THEN Append(queue, s) ELSE queue
    /\ UNCHANGED <<HandlerOnly, accum>>

\* startStream, and the last sendStreamChunk (or the one that exceeds the
\* cap): the id is looked up,
LookUp(s, before, after) ==
    /\ handler[s] = before
    /\ handler' = [handler EXCEPT ![s] = IF s \in reqLoc THEN after ELSE "done"]
    /\ UNCHANGED <<HandlerOnly, reqLoc, accum, queue>>
StartStream(s) == LookUp(s, "running", "starting")
SendStreamChunk(s) == LookUp(s, "streaming", "flushing")

\* and, under the lock again, given an accumulator,
OpenAccum(s) ==
    /\ handler[s] = "starting"
    /\ handler' = [handler EXCEPT ![s] = "streaming"]
    /\ accum' = accum \cup {s}
    /\ UNCHANGED <<HandlerOnly, reqLoc, queue>>

\* or the accumulator, if it is still there, is handed to the loop.
FlushAccum(s) ==
    /\ handler[s] = "flushing"
    /\ handler' = [handler EXCEPT ![s] = "done"]
    /\ accum' = accum \ {s} /\ reqLoc' = IF s \in accum THEN reqLoc \ {s} ELSE reqLoc
    /\ queue' = IF s \in accum THEN Append(queue, s) ELSE queue
    /\ UNCHANGED HandlerOnly

\* onAsync, Http2Session::respond: answer the stream if it still waits; flow
\* control may keep some of the body back.
OnAsync ==
    /\ queue # <<>>
    /\ queue' = Tail(queue)
    /\ LET s == Head(queue)
       IN IF phase = "open" /\ s \in toStream
          THEN /\ \E o \in {"blocked", "sent"} :
                    Becomes(s, [Of(s) EXCEPT !.answers = Append(@, "handler"), !.out = o])
               /\ goaway' = goaway /\ CloseIfFinished
          ELSE UNCHANGED <<phase, goaway, streamVars, reserved, toStream>>
    /\ UNCHANGED <<reqLoc, accum, handler, told, otherVars>>

-----------------------------------------------------------------------------
(* The loop thread: onSweep and onCloseConn.                                *)

\* Slip: the id is not retired.
SweepDeadlineKeeps(s) ==
    /\ phase = "open" /\ stage[s] = "emitted" /\ deadline[s] /\ ~rejected[s]
    /\ Becomes(s, Rejected(Of(s)))
    /\ told' = [told EXCEPT ![s] = @ \cup {"timeout"}]
    /\ goaway' = goaway /\ CloseIfFinished
    /\ UNCHANGED <<reqLoc, accum, queue, handler, otherVars>>

\* sweep: a dispatched stream is past its deadline (408).  The reactor retires
\* the id and tells the runner, unless the handler has just answered.
SweepDeadline(s) ==
    /\ phase = "open" /\ stage[s] = "emitted" /\ deadline[s] /\ ~rejected[s]
    /\ Becomes(s, Rejected(Of(s)))
    /\ reqLoc' = reqLoc \ {s}
    /\ told' = IF s \in reqLoc THEN [told EXCEPT ![s] = @ \cup {"timeout"}] ELSE told
    /\ goaway' = goaway /\ CloseIfFinished
    /\ UNCHANGED <<accum, queue, handler, otherVars>>

\* sweep: a body stopped arriving (408).
SweepStall(s) ==
    /\ phase = "open" /\ stage[s] \in {"head", "body"} /\ ~rejected[s]
    /\ Becomes(s, Rejected(Of(s)))
    /\ goaway' = goaway /\ CloseIfFinished
    /\ UNCHANGED <<locVars, otherVars>>

\* onSweep: the reactor drains, or the connection reached its age; goAway.
GoAway ==
    /\ phase = "open" /\ ~goaway
    /\ goaway' = TRUE
    /\ UNCHANGED <<streamVars, reserved, toStream, locVars, otherVars>>
    /\ CloseIfFinished

\* onSweep: an idle connection, without open streams, is closed.
SweepIdle ==
    /\ phase = "open" /\ OpenStreams = {}
    /\ phase' = "closing"
    /\ UNCHANGED <<goaway, streamVars, reserved, toStream, locVars, otherVars>>

\* onCloseConn: the session is deleted; what was in flight is retired, and the
\* runner told.
OnCloseConn ==
    /\ phase = "closing" /\ phase' = "closed"
    /\ stage' = [s \in Streams |-> "gone"]
    /\ accum' = accum \ reqLoc
    /\ told' = [s \in Streams |-> IF s \in reqLoc THEN told[s] \cup {"disconnect"} ELSE told[s]]
    /\ reqLoc' = {} /\ toStream' = {}
    /\ reserved' = 0 /\ reserve' = [s \in Streams |-> 0] /\ body' = reserve' /\ cap' = reserve'
    /\ rejected' = [s \in Streams |-> FALSE] /\ deadline' = rejected' /\ ended' = rejected'
    /\ length' = [s \in Streams |-> -1] /\ found' = [s \in Streams |-> "none"]
    /\ out' = found'
    /\ UNCHANGED <<goaway, answers, queue, handler, otherVars>>

-----------------------------------------------------------------------------
(* The other loops.                                                         *)

OtherAdmits(l) ==
    /\ l \notin admitted /\ ~OverBudget
    /\ admitted' = admitted \cup {l} /\ others' = others
    /\ UNCHANGED <<phase, goaway, streamVars, reserved, toStream, locVars>>

OtherInserts(l) ==
    /\ l \in admitted
    /\ admitted' = admitted \ {l} /\ others' = others + 1
    /\ UNCHANGED <<phase, goaway, streamVars, reserved, toStream, locVars>>

OtherAnswers ==
    /\ others > 0
    /\ others' = others - 1 /\ admitted' = admitted
    /\ UNCHANGED <<phase, goaway, streamVars, reserved, toStream, locVars>>

-----------------------------------------------------------------------------

EndsHeaders(s) == \E h \in Heads : OnHeaders(s, h)
Handles(s) ==
    Respond(s) \/ StartStream(s) \/ OpenAccum(s) \/ SendStreamChunk(s) \/ FlushAccum(s)
Sweeps(s) == SweepDeadline(s) \/ SweepStall(s)

Next ==
    \/ \E s \in Streams :
           \/ OnBeginHeaders(s) \/ OnHeader(s) \/ EndsHeaders(s)
           \/ \E n \in 0 .. 1, e \in BOOLEAN : OnData(s, n, e)
           \/ OnWindowUpdate(s) \/ OnReset(s)
           \/ Handles(s) \/ Sweeps(s)
    \/ OnAsync \/ GoAway \/ SweepIdle \/ Lost \/ OnCloseConn
    \/ \E l \in OtherLoops : OtherAdmits(l) \/ OtherInserts(l)
    \/ OtherAnswers

\* The loop runs its callbacks and its timer.
LoopFairness == WF_vars(OnAsync \/ OnCloseConn \/ \E s \in Streams : Sweeps(s))

\* Clients end their header blocks, end or reset the requests they started
\* and read what they are sent; handlers answer.
PeerFairness ==
    /\ WF_vars(\E s \in Streams : EndsHeaders(s) \/ (~ended[s] /\ OnReset(s)) \/ OnWindowUpdate(s))
    /\ WF_vars(\E s \in Streams : Handles(s))

Spec == Init /\ [][Next]_vars /\ LoopFairness

-----------------------------------------------------------------------------

\* The body budget: what is reserved is what the open streams reserved, it is
\* within the budget, and no stream holds more than it reserved - so that the
\* session "never holds more than bodyBudget_ of request bodies".
BodyBudget ==
    /\ reserved = SumFunction(reserve) /\ reserved <= Budget
    /\ \A s \in Streams : body[s] <= reserve[s]

\* A stream gets one answer: rejectStream never follows rejectStream, and the
\* handler's answer never follows it.  (The sweep may answer after the handler:
\* see OneAnswer.)
HandlerAnswersFirst ==
    \A s \in Streams : answers[s] \in {<<>>, <<"engine">>, <<"handler">>, <<"handler", "engine">>}

\* A stream gets one answer, whatever the clocks do (sweep: "A dispatched
\* stream whose handler has missed its deadline is answered `408`").
OneAnswer == \A s \in Streams : Len(answers[s]) <= 1

\* No handler works unaware on a stream that was answered without it: one the
\* engine refused is not dispatched by later frames, and a handler the sweep
\* answered for has been told.
NoHandlerUnaware ==
    \A s \in Streams :
        answers[s] # <<>> /\ handler[s] \notin {"none", "done"} => told[s] # {}

\* reqLoc_ holds exactly the requests whose handler still has to answer, the
\* timed out and the disconnected ones apart: no slot of the in-flight budget
\* is lost, and none is given back twice; a stream's accumulator outlives its
\* entry only for those.
InFlightIsExact ==
    /\ \A s \in Streams :
          s \in reqLoc <=> handler[s] \notin {"none", "done"} /\ told[s] = {}
    /\ \A s \in accum : s \in reqLoc \/ told[s] # {}

\* The budget of requests in flight is exceeded by at most one request for
\* each other loop, which may have been admitted together.
InFlightBudget ==
    Cardinality(reqLoc) + others + Cardinality(admitted) <= MaxInFlight + Cardinality(OtherLoops)

\* A dispatched request with a deadline is answered, or its stream is gone,
\* even if its handler never returns.
DeadlineAnswers ==
    \A s \in Streams : (stage[s] = "emitted" /\ deadline[s]) ~> (answers[s] # <<>> \/ ~Alive(s))

\* A session that was told to go away finishes its streams and its connection
\* closes, when clients end their requests and handlers answer (goAway: "the
\* reactor closes the connection").
GoAwayCloses == PeerFairness => (goaway ~> (phase = "closed"))

\* What the session counts is what is there and stays within its budgets: the
\* buffered bodies of a session and the engine's requests in flight.
BudgetsHold == TypeOK /\ BodyBudget /\ InFlightIsExact /\ InFlightBudget

\* Handlers and streams stay in step: no handler answers a stream the engine
\* has answered, and none works on unaware of it.
HandlersInStep == HandlerAnswersFirst /\ NoHandlerUnaware

\* Streams settle and so does the session: deadlines are kept, and a session
\* told to go away closes.
SessionSettles == DeadlineAnswers /\ GoAwayCloses
=============================================================================
