----------------------------- MODULE WsSession ------------------------------
(***************************************************************************)
(* One WebSocket session, from its upgrade to its end: the loop thread that *)
(* owns the socket (UvReactor's ws* functions, and what readCb, writeAnswer,*)
(* onWrite, onAsync, onSweep and onCloseConn do for a session) and the      *)
(* runner that serves it (_dispatchWs, _runWs, _onWsMessage, _deliverWs and *)
(* _WsSessionImpl in server_runner.dart).                                   *)
(*                                                                         *)
(* The two share wsConnLoop_, the loop's queue and the payload log, each    *)
(* under its mutex, and two streams with no order between them: the head    *)
(* that opens the session, and its messages.  Only one isolate calls        *)
(* wsSend and wsClose for a session, one call at a time, so that each is    *)
(* one step here: a loop callback between its look-up and its push has the  *)
(* effect of one right after it.                                            *)
(*                                                                         *)
(* A frame is one token; one read brings one frame, or bytes that complete  *)
(* none (ReadPiece).  Sizes are counted in frames, and close codes are left *)
(* out: which frames close a session matters here, not with what number.    *)
(***************************************************************************)
EXTENDS Integers, Sequences, FiniteSetsExt

CONSTANTS
    Frames,     \* the frames clients send
    MaxFrames,  \* bound on how many
    MaxSends,   \* bound on the messages the handler sends
    MaxMsg,     \* fragments a message may have (maxBodyBytes)
    MaxBuffer,  \* frames that may wait to be written (wsMaxBufferBytes)
    MaxInbound, \* messages that may wait for the handler (maxInbound)
    MaxPending  \* bound on the frames pending when a ping is sent: a closing
                \* session is still pinged

Starts == {"text", "badText", "deflated", "badDeflated", "first"}
Continuations == {"more", "last"}
Unfinished == {"first", "more"}
Closing == {"malformed", "huge", "close", "badClose"}   \* on sight

ASSUME FramesAssumption ==
    Frames \subseteq Starts \cup Continuations \cup Closing \cup {"ping", "unparsed"}
ASSUME BoundsAssumption ==
    /\ {MaxFrames, MaxSends, MaxPending} \subseteq Nat
    /\ {MaxMsg, MaxBuffer, MaxInbound} \subseteq Nat \ {0}

VARIABLES
    running,    \* running_: stop() has not been called
    silent,     \* the peer neither reads nor writes any more
    phase,      \* http, ws, closing (uv_close called) or closed (onCloseConn ran)
    wsClosing,  \* Conn::wsClosing
    sent,       \* frames the client has sent
    fragments,  \* frames in wsMsg; 0 when wsMsgOpcode < 0
    jammed,     \* the buffer starts with a header that parseHeader never takes
    quiet,      \* since lastActive: under half the idle window, half of it,
                \* half of it and wsPingSent, or all of it
    inMap,      \* whether wsConnLoop_ has the connection
    queue,      \* Loop::queue: frames the runner asked to be written
    pending,    \* frames handed to uv_write and not yet landed (writePending)
    finishing,  \* whether one of them is to close the connection
    tracked,    \* payloads logged so far; they are numbered 1 .. tracked
    acked,      \* PayloadLog::acked
    held,       \* the payloads in the log; the other ones have been freed
    head,       \* the head: not posted, posted, or delivered
    msgs,       \* the wsMessages stream: payloads, "undecodable" ones, the close
    gated,      \* whether the route has middleware
    session,    \* _wsSessions: none, open, or done
    handler,    \* none, gate (middleware running), running, over
    parked,     \* _wsEarly
    ackCount,   \* _wsAcked, 0 when absent
    added,      \* messages added to the session's stream so far
    lastAdded,  \* the last of them
    waiting,    \* those the handler has not taken (_inboundBuffered)
    sends       \* messages the handler has sent

envVars == <<running, silent, gated>>
readVars == <<sent, fragments, jammed, quiet>>
writeVars == <<pending, finishing>>
sockVars == <<inMap, queue, writeVars>>
logVars == <<tracked, acked, held>>
streamVars == <<added, lastAdded, waiting>>
runnerVars == <<session, handler, parked, ackCount, streamVars, sends>>
vars == <<envVars, phase, wsClosing, readVars, sockVars, logVars, head, msgs, runnerVars>>

Message == [kind : {"data", "undecodable", "close"}, n : Nat]
Close == [kind |-> "close", n |-> 0]

TypeOK ==
    /\ phase \in {"http", "ws", "closing", "closed"}
    /\ {running, silent, gated, wsClosing, jammed, inMap, finishing} \subseteq BOOLEAN
    /\ sent \in 0 .. MaxFrames /\ fragments \in 0 .. MaxMsg
    /\ quiet \in {"no", "half", "pinged", "full"}
    /\ queue \in Seq({"data", "close"})
    /\ pending \in Nat
    /\ tracked \in 0 .. MaxFrames /\ acked \in Nat /\ held \in SUBSET (1 .. tracked)
    /\ head \in {"none", "posted", "delivered"}
    /\ msgs \in Seq(Message) /\ parked \in Seq(Message)
    /\ session \in {"none", "open", "done"}
    /\ handler \in {"none", "gate", "running", "over"}
    /\ {ackCount, added, lastAdded} \subseteq Nat
    /\ waiting \in 0 .. MaxInbound /\ sends \in 0 .. MaxSends

Init ==
    /\ running = TRUE /\ silent = FALSE /\ gated \in BOOLEAN
    /\ phase = "http" /\ wsClosing = FALSE
    /\ sent = 0 /\ fragments = 0 /\ jammed = FALSE /\ quiet = "no"
    /\ inMap = FALSE /\ queue = <<>> /\ pending = 0 /\ finishing = FALSE
    /\ tracked = 0 /\ acked = 0 /\ held = {}
    /\ head = "none" /\ msgs = <<>>
    /\ session = "none" /\ handler = "none" /\ parked = <<>> /\ ackCount = 0
    /\ added = 0 /\ lastAdded = 0 /\ waiting = 0 /\ sends = 0

-----------------------------------------------------------------------------
(* Writing.                                                                 *)

Open == phase \in {"http", "ws"}

\* The rest of wsCloseConn, behind n frames written just before: tell the
\* runner, and close the connection once the close frame has landed.
CloseAfter(n) ==
    /\ wsClosing' = TRUE /\ inMap' = FALSE
    /\ msgs' = Append(msgs, Close)
    /\ pending' = pending + n + 1 /\ finishing' = TRUE

\* Slip: a session that is closing is closed, and its runner told, again.
WsCloseConnAgain == CloseAfter(0)

\* wsCloseConn.
WsCloseConn ==
    IF wsClosing THEN UNCHANGED <<wsClosing, inMap, msgs, writeVars>> ELSE CloseAfter(0)

\* writeAnswer: a session that outruns its reader past the cap is closed.
WriteAnswer(n, finish) ==
    IF phase = "ws" /\ ~wsClosing /\ pending + n > MaxBuffer THEN CloseAfter(n)
    ELSE /\ pending' = pending + n /\ finishing' = (finishing \/ finish)
         /\ UNCHANGED <<wsClosing, inMap, msgs>>

-----------------------------------------------------------------------------
(* The loop thread: reading.                                                *)

\* wsHandshake, on a key, a version and a subprotocol it accepts: answer 101
\* and open the session.
Handshake ==
    /\ phase = "http" /\ running /\ ~finishing
    /\ phase' = "ws"
    /\ inMap' = TRUE
    /\ head' = "posted"
    /\ pending' = pending + 1
    /\ UNCHANGED <<envVars, wsClosing, readVars, queue, finishing, logVars, msgs, runnerVars>>

\* wsHandshake, on one it does not: answer 400 or 426 and close.
RefuseHandshake ==
    /\ phase = "http" /\ running /\ ~finishing
    /\ pending' = pending + 1 /\ finishing' = TRUE
    /\ UNCHANGED <<envVars, phase, wsClosing, readVars, inMap, queue, logVars, head, msgs, runnerVars>>

\* The frames wsProcess closes the session for, with 1002, 1007 or 1009 or
\* with the code of a close frame.
Closes(f) ==
    \/ f \in Closing
    \/ f \in Starts /\ fragments > 0
    \/ f \in Continuations /\ (fragments = 0 \/ fragments + 1 > MaxMsg)
    \/ f = "badText"

\* wsProcess leaves what it reads in the buffer once the session is closing,
\* or behind a header that never parses.
Takes == ~jammed /\ ~wsClosing

\* readCb: a read is activity.
Read == phase = "ws" /\ ~silent /\ quiet' = "no"
ReadFrame(f) ==
    /\ Read
    /\ f \in Frames /\ sent < MaxFrames /\ Takes
    /\ sent' = sent + 1

\* wsProcess: a frame that ends the session.
ReadClosing(f) ==
    /\ ReadFrame(f) /\ Closes(f)
    /\ WsCloseConn
    /\ UNCHANGED <<envVars, phase, fragments, jammed, queue, logVars, head, runnerVars>>

\* wsProcess: a ping is answered.
ReadPing ==
    /\ ReadFrame("ping")
    /\ WriteAnswer(1, FALSE)
    /\ UNCHANGED <<envVars, phase, fragments, jammed, queue, logVars, head, runnerVars>>

\* wsProcess: a header parseHeader refuses, for ever, as incomplete.
ReadUnparsed ==
    /\ ReadFrame("unparsed")
    /\ jammed' = TRUE
    /\ UNCHANGED <<envVars, phase, wsClosing, fragments, sockVars, logVars, head, msgs, runnerVars>>

\* wsProcess: a fragment that does not end its message.
ReadFragment(f) ==
    /\ ReadFrame(f) /\ f \in Unfinished /\ ~Closes(f)
    /\ fragments' = fragments + 1
    /\ UNCHANGED <<envVars, phase, wsClosing, jammed, sockVars, logVars, head, msgs, runnerVars>>

\* wsProcess: a message is complete; log its payload (trackPayload) and post it.
ReadMessage(f) ==
    /\ ReadFrame(f) /\ f \in (Starts \cup Continuations) \ Unfinished /\ ~Closes(f)
    /\ fragments' = 0
    /\ tracked' = tracked + 1 /\ held' = held \cup {tracked + 1} /\ acked' = acked
    /\ msgs' = Append(msgs, [kind |-> IF f = "badDeflated" THEN "undecodable" ELSE "data",
                             n |-> tracked + 1])
    /\ UNCHANGED <<envVars, phase, wsClosing, jammed, sockVars, head, runnerVars>>

\* readCb: bytes that complete no frame, or a pong, or what wsProcess leaves.
ReadPiece ==
    /\ Read
    /\ UNCHANGED <<envVars, phase, wsClosing, sent, fragments, jammed, sockVars, logVars, head,
                   msgs, runnerVars>>

-----------------------------------------------------------------------------
(* The loop thread: the rest.                                               *)

\* uv_close: the pending writes are cancelled, and onCloseConn runs later.
UvClose ==
    /\ phase' = "closing" /\ pending' = 0 /\ finishing' = FALSE
    /\ UNCHANGED <<envVars, wsClosing, readVars, inMap, logVars, head, msgs, runnerVars>>

\* readCb with nread < 0: the peer is gone without a close frame.
ReadEof == Open /\ ~silent /\ UvClose /\ queue' = queue

\* onWrite with status < 0.
WriteFails == Open /\ pending > 0 /\ UvClose /\ queue' = queue

\* onWrite: a frame lands; the one that finishes the session closes it.
Landed ==
    /\ Open /\ ~silent /\ pending > 0 /\ queue' = queue
    /\ \/ finishing /\ UvClose
       \/ /\ pending > 1 \/ ~finishing
          /\ pending' = pending - 1 /\ finishing' = finishing
          /\ UNCHANGED <<envVars, phase, wsClosing, readVars, inMap, logVars, head, msgs, runnerVars>>

\* onAsync: what is queued goes out as one write, up to its close frame.
OnAsync ==
    /\ queue # <<>> /\ running
    /\ queue' = <<>>
    /\ IF Open THEN WriteAnswer(Len(queue), queue[Len(queue)] = "close")
       ELSE UNCHANGED <<wsClosing, inMap, msgs, writeVars>>
    /\ UNCHANGED <<envVars, phase, readVars, logVars, head, runnerVars>>

\* onAsync once stop() has set its flag: the connection is closed.
OnStopping == ~running /\ Open /\ UvClose /\ queue' = <<>>

\* Slip: a session that is closing is left to its close handshake.
SweepWriteTimeoutSpares == ~wsClosing /\ WriteFails

\* onSweep: a write has been pending for writeTimeoutMs.
SweepWriteTimeout == WriteFails

\* onSweep: maxConnectionAgeMs has passed, or the whole idle window.
SweepAge ==
    /\ phase = "ws"
    /\ WsCloseConn
    /\ UNCHANGED <<envVars, phase, readVars, queue, logVars, head, runnerVars>>
SweepIdle == quiet = "full" /\ SweepAge

\* onSweep: half of the idle window has passed.
SweepPing ==
    /\ phase = "ws" /\ quiet = "half" /\ pending < MaxPending
    /\ quiet' = "pinged"
    /\ WriteAnswer(1, FALSE)
    /\ UNCHANGED <<envVars, phase, sent, fragments, jammed, queue, logVars, head, runnerVars>>

\* The clock: nothing is read for half a window, or for all of it.
TimePasses ==
    /\ phase = "ws" /\ quiet # "full"
    /\ quiet' = IF quiet = "no" THEN "half" ELSE "full"
    /\ UNCHANGED <<envVars, phase, wsClosing, sent, fragments, jammed, sockVars, logVars, head,
                   msgs, runnerVars>>

\* onCloseConn: forget the connection and free its payloads.  The runner is
\* not told.
OnCloseConn ==
    /\ phase = "closing"
    /\ phase' = "closed" /\ inMap' = FALSE
    /\ held' = {} /\ acked' = 0 /\ tracked' = tracked
    /\ fragments' = 0 /\ jammed' = FALSE /\ quiet' = "no"      \* delete c
    /\ UNCHANGED <<envVars, wsClosing, sent, queue, writeVars, head, msgs, runnerVars>>

\* stop() is called.
Stop ==
    /\ running /\ running' = FALSE
    /\ UNCHANGED <<silent, gated, phase, wsClosing, readVars, sockVars, logVars, head, msgs, runnerVars>>

\* The network: the peer vanishes without a word.
PeerVanishes ==
    /\ Open /\ ~silent /\ silent' = TRUE
    /\ UNCHANGED <<running, gated, phase, wsClosing, readVars, sockVars, logVars, head, msgs, runnerVars>>

-----------------------------------------------------------------------------
(* The runner.                                                              *)

\* _deliverWs and _add, over ms in turn until one ends the session - the
\* engine's close, a payload that does not inflate, or one too many waiting.
Stops(ms) == {i \in DOMAIN ms : ms[i].kind # "data" \/ waiting + i > MaxInbound}
Added(ms) == IF Stops(ms) = {} THEN Len(ms) ELSE Min(Stops(ms)) - 1

\* _WsSessionImpl._finish with UvReactor::wsClose: once, and ask for a close
\* frame if the engine still has the connection.  _onDone drops _wsAcked.
Finish(acks) ==
    /\ session' = "done"
    /\ ackCount' = IF session = "done" THEN acks ELSE 0
    /\ IF session # "done" /\ running /\ inMap
       THEN inMap' = FALSE /\ queue' = Append(queue, "close")
       ELSE UNCHANGED <<inMap, queue>>

Deliver(ms, acks) ==
    /\ added' = added + Added(ms)
    /\ waiting' = waiting + Added(ms)
    /\ lastAdded' = IF Added(ms) = 0 THEN lastAdded ELSE ms[Added(ms)].n
    /\ IF Stops(ms) # {} THEN Finish(acks)
       ELSE session' = "open" /\ ackCount' = acks /\ UNCHANGED <<inMap, queue>>

\* Slip: what was parked before the open is dropped.
RunWsForgetful ==
    /\ parked' = <<>> /\ handler' = "running"
    /\ IF session = "done" THEN UNCHANGED <<session, ackCount, streamVars, inMap, queue>>
       ELSE Deliver(<<>>, ackCount)

\* _runWs: replay what was parked, and run the handler.
RunWs ==
    /\ parked' = <<>> /\ handler' = "running"
    /\ IF session = "done" THEN UNCHANGED <<session, ackCount, streamVars, inMap, queue>>
       ELSE Deliver(parked, ackCount)

\* _dispatchWs: the head is delivered; the session opens and its handler runs,
\* or its middleware first.
DispatchWs ==
    /\ head = "posted"
    /\ head' = "delivered"
    /\ IF gated THEN /\ session' = "open" /\ handler' = "gate"
                     /\ UNCHANGED <<parked, ackCount, streamVars, inMap, queue>>
       ELSE RunWs
    /\ UNCHANGED <<envVars, phase, wsClosing, readVars, writeVars, logVars, msgs, sends>>

\* _dispatchWs: the middleware lets the handshake pass,
GateAccepts ==
    /\ handler = "gate"
    /\ RunWs
    /\ UNCHANGED <<envVars, phase, wsClosing, readVars, writeVars, logVars, head, msgs, sends>>

\* or short-circuits or throws (4000 + status, 1008, 1011).
GateRejects ==
    /\ handler = "gate"
    /\ handler' = "over" /\ parked' = <<>>
    /\ Finish(ackCount)
    /\ UNCHANGED <<envVars, phase, wsClosing, readVars, writeVars, logVars, head, msgs, streamVars, sends>>

\* Slip: the payload at the count is freed too.
AckOneMore(n) ==
    /\ acked' = IF n > acked /\ tracked > 0 /\ phase # "closed" THEN n ELSE acked
    /\ held' = {p \in held : p > acked' + 1}
    /\ tracked' = tracked

\* PendingTable::ack: a cumulative count, while there is a log; it frees the
\* payloads below the count.  Payload p has the sequence number p - 1.
Ack(n) ==
    /\ acked' = IF n > acked /\ tracked > 0 /\ phase # "closed" THEN n ELSE acked
    /\ held' = {p \in held : p > acked'}
    /\ tracked' = tracked

\* _onWsMessage: copy, acknowledge, and deliver; park what beat the open, drop
\* what comes after the end.
OnWsMessage ==
    /\ msgs # <<>>
    /\ msgs' = Tail(msgs)
    /\ Ack(ackCount + 1)
    /\ \/ session = "open" /\ Deliver(<<Head(msgs)>>, ackCount + 1) /\ parked' = parked
       \/ /\ session # "open" /\ ackCount' = ackCount + 1
          /\ parked' = IF session = "none" THEN Append(parked, Head(msgs)) ELSE parked
          /\ UNCHANGED <<session, streamVars, inMap, queue>>
    /\ UNCHANGED <<envVars, phase, wsClosing, readVars, writeVars, head, handler, sends>>

\* The handler takes its next message.
HandlerTakes ==
    /\ handler = "running" /\ waiting > 0
    /\ waiting' = waiting - 1
    /\ UNCHANGED <<envVars, phase, wsClosing, readVars, sockVars, logVars, head, msgs, session,
                   handler, parked, ackCount, added, lastAdded, sends>>

\* sendText, sendBytes, with UvReactor::wsSend: -1 once closed.
HandlerSends ==
    /\ handler = "running" /\ session = "open" /\ sends < MaxSends
    /\ sends' = sends + 1
    /\ queue' = IF running /\ inMap THEN Append(queue, "data") ELSE queue
    /\ UNCHANGED <<envVars, phase, wsClosing, readVars, inMap, writeVars, logVars, head, msgs, session,
                   handler, parked, ackCount, streamVars>>

\* The handler returns, throws, or closes the session itself.
HandlerReturns ==
    /\ handler = "running"
    /\ handler' = "over"
    /\ Finish(ackCount)
    /\ UNCHANGED <<envVars, phase, wsClosing, readVars, writeVars, logVars, head, msgs, parked,
                   streamVars, sends>>

\* ServerRunner.close, after stop(): _shutdown.  Nothing is delivered any more.
RunnerCloses ==
    /\ ~running /\ phase = "closed" /\ ~(head = "delivered" /\ msgs = <<>> /\ session # "open")
    /\ session' = IF session = "open" THEN "done" ELSE session
    /\ head' = "delivered" /\ msgs' = <<>> /\ parked' = <<>>
    /\ UNCHANGED <<envVars, phase, wsClosing, readVars, sockVars, logVars, handler, ackCount,
                   streamVars, sends>>

-----------------------------------------------------------------------------

EngineNext ==
    \/ Handshake \/ RefuseHandshake
    \/ \E f \in Frames : ReadClosing(f) \/ ReadFragment(f) \/ ReadMessage(f)
    \/ ReadPing \/ ReadUnparsed \/ ReadPiece \/ ReadEof
    \/ WriteFails \/ Landed \/ OnAsync \/ OnStopping
    \/ SweepWriteTimeout \/ SweepAge \/ SweepIdle \/ SweepPing \/ TimePasses
    \/ OnCloseConn \/ Stop \/ PeerVanishes

RunnerNext ==
    \/ DispatchWs \/ GateAccepts \/ GateRejects \/ OnWsMessage
    \/ HandlerTakes \/ HandlerSends \/ HandlerReturns \/ RunnerCloses

Next == EngineNext \/ RunnerNext

\* A loop runs its timer and its close callback, an isolate takes its messages
\* and its events; middleware answers.  Nothing is asked of peers and handlers,
\* nor of a write, which may never land.
Fairness ==
    /\ WF_vars(SweepWriteTimeout) /\ WF_vars(SweepIdle) /\ WF_vars(TimePasses)
    /\ WF_vars(OnCloseConn) /\ WF_vars(DispatchWs)
    /\ WF_vars(GateAccepts \/ GateRejects) /\ WF_vars(OnWsMessage)

Spec == Init /\ [][Next]_vars /\ Fairness

-----------------------------------------------------------------------------

\* A payload is freed only after the runner has copied it: while the
\* connection is not closed, every payload whose message is still queued for
\* _onWsMessage is in the log (trackPayload before the post, ackBody after the
\* copy).
UnreadIsHeld ==
    phase # "closed" =>
        \A i \in DOMAIN msgs : msgs[i].kind # "close" => msgs[i].n \in held

\* And none is kept: when every message of a session still open has been
\* delivered, the log is empty (_onWsMessage: "A constant 1 freed only the
\* first frame and leaked the rest for the life of the socket").
DeliveredIsFreed == msgs = <<>> /\ session # "done" => held = {}

\* The close that wsCloseConn reports is the last message of the stream:
\* wsProcess dispatches nothing behind it, and no second close, from a cap, an
\* age, an idle window or the peer, is reported.
CloseIsReportedLast ==
    \A i \in DOMAIN msgs : msgs[i].kind = "close" => i = Len(msgs) /\ wsClosing

\* A session the engine reported closed ends, even when the report comes
\* before the head that opens it, or while its middleware runs.
ReportedSessionEnds == wsClosing ~> (session # "open" /\ head = "delivered")

\* A peer that vanishes without a word is found out by the idle window or by a
\* write that never lands, and its connection is closed.
VanishedPeerIsClosed == (phase = "ws" /\ silent) ~> (phase = "closed")

\* Every payload still to be read is in the log, whatever became of the
\* connection (PendingTable.h: "Freeing on ack (never on completion) is what
\* makes the path both leak-free and use-after-free-free").
UnreadIsAlwaysHeld == \A i \in DOMAIN msgs : msgs[i].kind # "close" => msgs[i].n \in held

\* A session ends with its connection (WsSession.closeCode: "1006 on transport
\* failure"; WsSession.messages: "Ends on close.").
SessionEndsWithConnection == (phase = "closed" /\ session = "open") ~> (session = "done")

\* The log of a socket holds exactly what its isolate has still to read: every
\* payload under way, and nothing once all were delivered (ackPayload).
PayloadsAccounted == TypeOK /\ UnreadIsHeld /\ DeliveredIsFreed
=============================================================================
