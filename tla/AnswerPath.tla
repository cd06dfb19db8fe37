----------------------------- MODULE AnswerPath -----------------------------
(***************************************************************************)
(* The HTTP/1.1 answer path of UvReactor: how a request is taken off a      *)
(* connection's buffer, dispatched to a Dart handler, and answered - by the *)
(* handler through respond, respondFile or startStream/sendStreamChunk, by  *)
(* the loop itself, or by the sweep when a clock runs out.                  *)
(*                                                                         *)
(* Every callback of a connection runs on its own loop thread; the handlers *)
(* call in from isolate threads.  The two sides share reqLoc_ (the requests *)
(* dispatched and not yet answered) and the loop's queue, each under its    *)
(* own mutex, so another thread may run between a look-up in reqLoc_ and    *)
(* the push to the queue.  Loops share nothing else here, and one is        *)
(* modelled.                                                                *)
(*                                                                         *)
(* Bytes are abstract.  A client sends tokens: a whole request ("get",      *)
(* "head" and "part" then "rest" for a handler route, "static" for one the  *)
(* loop answers, "refuse" for one it refuses and closes), or the head of a  *)
(* streamed upload ("upload") and then what ends its body ("end", "over"    *)
(* when it exceeds its cap, "junk" when its framing is malformed).          *)
(***************************************************************************)
EXTENDS Integers, Sequences, FiniteSets

CONSTANTS
    Conns,          \* connections
    Reqs,           \* request ids; also the bound on the requests clients send
    None,           \* no request (-1 in the code)
    Traffics,       \* the tokens clients send and the ways handlers answer
    RouteTimeout,   \* whether routes have a timeout (timeoutMs > 0)
    FileChunks,     \* writes a file answer takes after its head
    BusyCap,        \* tokens a busy connection may buffer (overBusyBuffer)
    MaxWire         \* bound on the chunks a handler streams

Requests == {"get", "head", "static", "refuse", "part", "upload"}
Endings == {"end", "over", "junk"}

ASSUME SetsAssumption == Reqs \subseteq Nat /\ IsFiniteSet(Reqs) /\ None \notin Reqs \cup Conns
Tokens == Requests \cup Endings \cup {"rest"}
ASSUME TrafficsAssumption ==
    \A t \in Traffics : t.kinds \subseteq Tokens /\ t.answers \subseteq {"full", "file", "stream"}
ASSUME FlagsAssumption == RouteTimeout \in BOOLEAN
ASSUME BoundsAssumption == FileChunks \in Nat \ {0} /\ BusyCap \in Nat /\ MaxWire \in Nat

VARIABLES
    traffic,    \* what this behaviour's clients and handlers do
    phase,      \* open, closing (uv_close called) or closed (onCloseConn ran)
    client,     \* what the client sends next
    budget,     \* requests clients may still send
    socket,     \* tokens sent and not yet read
    inbuf,      \* Conn::buf
    bodyPending, \* Conn::bodyPending
    busy,       \* Conn::busy
    inFlight,   \* Conn::reqIdInFlight
    deadline,   \* Conn::hasDeadline
    started,    \* Conn::responseStarted
    upload,     \* Conn::streamingBody
    uploadReq,  \* Conn::streamReqId
    aged,       \* Conn::ageExpired
    fileLeft,   \* chunks left of the file being sent, 0 when fileFd < 0
    fileKeep,   \* Conn::fileKeepAlive
    wire,       \* every write handed to uv_write
    flushed,    \* how many of them have completed
    asked,      \* requests the connection has begun to serve
    reqLoc,     \* the keys of reqLoc_
    reqConn,    \* ReqLoc::connId
    isHead,     \* ReqLoc::isHead
    keep,       \* ReqLoc::keepAlive
    handler,    \* where each request's handler stands
    out,        \* the entry the handler's call is about to push
    queue,      \* Loop::queue
    draining    \* draining_

clientVars == <<traffic, client, budget, socket>>
reqVars == <<reqConn, isHead>>
handlerVars == <<handler, out>>
fileVars == <<fileLeft, fileKeep>>
vars == <<traffic, phase, client, budget, socket, inbuf, bodyPending, busy, inFlight, deadline, started, upload,
          uploadReq, aged, fileLeft, fileKeep, wire, flushed, asked, reqLoc,
          reqConn, isHead, keep, handler, out, queue, draining>>

\* "full" is a whole answer of a handler, "reply" one the loop makes itself,
\* "408" the sweep's; "head", "chunk" and "last" make up a streamed answer.
Parts == {"full", "reply", "408", "head", "chunk", "last"}
Write == [req : Reqs \cup {None}, part : Parts, keep : BOOLEAN, finish : BOOLEAN]
Entry == [conn : Conns, req : Reqs, part : Parts \cup {"file"},
          keep : BOOLEAN, finish : BOOLEAN]
Clocks == {"write", "age", "deadline", "body", "stream", "idle"}
\* The sweep acts on at most two clocks of a connection: age and one other.
Expired == {x \in SUBSET Clocks : x # {} /\ Cardinality(x \ {"age"}) <= 1}

TypeOK ==
    /\ traffic \in Traffics
    /\ phase \in [Conns -> {"open", "closing", "closed"}]
    /\ client \in [Conns -> {"head", "body", "rest", "eof"}]
    /\ budget \in Nat
    /\ socket \in [Conns -> Seq(Tokens)]
    /\ inbuf \in [Conns -> Seq(Tokens)]
    /\ bodyPending \in [Conns -> BOOLEAN]
    /\ busy \in [Conns -> BOOLEAN]
    /\ inFlight \in [Conns -> Reqs \cup {None}]
    /\ deadline \in [Conns -> BOOLEAN]
    /\ started \in [Conns -> BOOLEAN]
    /\ upload \in [Conns -> BOOLEAN]
    /\ uploadReq \in [Conns -> Reqs \cup {None}]
    /\ aged \in [Conns -> BOOLEAN]
    /\ fileLeft \in [Conns -> 0 .. FileChunks]
    /\ fileKeep \in [Conns -> BOOLEAN]
    /\ wire \in [Conns -> Seq(Write)]
    /\ flushed \in [Conns -> Nat]
    /\ asked \in [Conns -> Nat]
    /\ reqLoc \in SUBSET Reqs
    /\ reqConn \in [Reqs -> Conns \cup {None}]
    /\ isHead \in [Reqs -> BOOLEAN]
    /\ keep \in [Reqs -> BOOLEAN]
    /\ handler \in [Reqs -> {"unborn", "running", "push", "streaming",
                             "release", "done"}]
    /\ out \in [Reqs -> Entry \cup {None}]
    /\ queue \in Seq(Entry)
    /\ draining \in BOOLEAN

Init ==
    /\ traffic \in Traffics
    /\ phase = [c \in Conns |-> "open"]
    /\ client = [c \in Conns |-> "head"]
    /\ budget = Cardinality(Reqs)
    /\ socket = [c \in Conns |-> <<>>]
    /\ inbuf = [c \in Conns |-> <<>>]
    /\ bodyPending = [c \in Conns |-> FALSE]
    /\ busy = [c \in Conns |-> FALSE]
    /\ inFlight = [c \in Conns |-> None]
    /\ deadline = [c \in Conns |-> FALSE]
    /\ started = [c \in Conns |-> FALSE]
    /\ upload = [c \in Conns |-> FALSE]
    /\ uploadReq = [c \in Conns |-> None]
    /\ aged = [c \in Conns |-> FALSE]
    /\ fileLeft = [c \in Conns |-> 0]
    /\ fileKeep = [c \in Conns |-> FALSE]
    /\ wire = [c \in Conns |-> <<>>]
    /\ flushed = [c \in Conns |-> 0]
    /\ asked = [c \in Conns |-> 0]
    /\ reqLoc = {}
    /\ reqConn = [r \in Reqs |-> None]
    /\ isHead = [r \in Reqs |-> FALSE]
    /\ keep = [r \in Reqs |-> FALSE]
    /\ handler = [r \in Reqs |-> "unborn"]
    /\ out = [r \in Reqs |-> None]
    /\ queue = <<>>
    /\ draining = FALSE

\* f with the value of x replaced by v.
With(f, x, v) == [f EXCEPT ![x] = v]
Closing(c) == With(phase, c, "closing")

Reply(part, ka) == [req |-> None, part |-> part, keep |-> ka, finish |-> TRUE]

\* writeAnswer: hand one write to uv_write.  The connection is busy, the
\* route timeout no longer applies and the response has started.
WriteAnswer(c, w) ==
    /\ wire' = With(wire, c, Append(wire[c], w))
    /\ busy' = With(busy, c, TRUE)
    /\ deadline' = With(deadline, c, FALSE)
    /\ started' = With(started, c, TRUE)

\* Its other half: an unfinished streamed answer whose reader has fallen
\* behind by more than streamMaxBufferBytes drops the connection.
MayOverflow(c, w) == phase' \in {phase} \cup (IF w.finish THEN {} ELSE {Closing(c)})

-----------------------------------------------------------------------------
(* Requests come off the buffer.                                            *)

\* What keepAlive comes to for a request whose client (and request budget)
\* allow ka.
KeepsAlive(c, ka) == ka /\ ~draining /\ ~aged[c]

\* A request gets the next id, its reqLoc_ entry and its handler.
Register(c, r, head, ka) ==
    /\ handler[r] = "unborn"
    /\ \A q \in Reqs : handler[q] = "unborn" => r <= q
    /\ handler' = With(handler, r, "running")
    /\ reqConn' = With(reqConn, r, c)
    /\ isHead' = With(isHead, r, head)
    /\ keep' = With(keep, r, KeepsAlive(c, ka))
    /\ inFlight' = With(inFlight, c, r)

\* emitStreamBytes / emitStreamChunked on the bytes buffered after the head
\* of an upload, with abortStreamTooLarge.  b, d and s are what busy,
\* hasDeadline and responseStarted are on entry.
EmitStream(c, r, buf, locs, b, d, s) ==
    LET first == IF buf = <<>> THEN "more" ELSE Head(buf)
        over == first = "over"
    IN
    /\ upload' = With(upload, c, first = "more")
    /\ inbuf' = With(inbuf, c, IF first = "more" THEN buf ELSE Tail(buf))
    /\ phase' = IF first = "junk" THEN Closing(c) ELSE phase
    /\ reqLoc' = IF over THEN locs \ {r} ELSE locs
    /\ wire' = IF over THEN With(wire, c, Append(wire[c], Reply("reply", FALSE)))
                       ELSE wire
    /\ busy' = With(busy, c, b \/ over)
    /\ deadline' = With(deadline, c, d /\ ~over)
    /\ started' = With(started, c, s \/ over)

\* Nothing complete is buffered, or an upload owns the buffer: the
\* connection waits for more bytes.
Wait(c, buf, wait) ==
    /\ inbuf' = With(inbuf, c, buf)
    /\ bodyPending' = With(bodyPending, c, wait)
    /\ busy' = With(busy, c, FALSE)
    /\ inFlight' = With(inFlight, c, None)
    /\ deadline' = With(deadline, c, FALSE)
    /\ started' = With(started, c, FALSE)
    /\ UNCHANGED <<phase, upload, uploadReq, wire, asked, reqLoc, reqVars, keep,
                   handlerVars>>

\* A request the loop answers itself: a static route, a miss (404, 405), or
\* a refusal (400, 413, 426, 501, 503, 505), which also closes.
AnswerOnLoop(c, buf) ==
    /\ inbuf' = With(inbuf, c, Tail(buf))
    /\ bodyPending' = With(bodyPending, c, FALSE)
    /\ \E ka \in BOOLEAN :
          WriteAnswer(c, Reply("reply", Head(buf) = "static" /\ KeepsAlive(c, ka)))
    /\ inFlight' = With(inFlight, c, None)
    /\ asked' = With(asked, c, asked[c] + 1)
    /\ UNCHANGED <<phase, upload, uploadReq, reqLoc, reqVars, keep, handlerVars>>

\* A handler route: one request in flight until it is answered.
Dispatch(c, rest, head) ==
    \E r \in Reqs, ka \in BOOLEAN :
       /\ Register(c, r, head, ka)
       /\ inbuf' = With(inbuf, c, rest)
       /\ bodyPending' = With(bodyPending, c, FALSE)
       /\ reqLoc' = reqLoc \cup {r}
       /\ busy' = With(busy, c, TRUE)
       /\ deadline' = With(deadline, c, RouteTimeout)
       /\ started' = With(started, c, FALSE)
       /\ asked' = With(asked, c, asked[c] + 1)
       /\ UNCHANGED <<phase, upload, uploadReq, wire, out>>

\* A streamBody route: the head is dispatched before the body has arrived.
DispatchUpload(c, rest) ==
    \E r \in Reqs, ka \in BOOLEAN :
       /\ Register(c, r, FALSE, ka)
       /\ uploadReq' = With(uploadReq, c, r)
       /\ EmitStream(c, r, rest, reqLoc \cup {r}, TRUE, RouteTimeout, FALSE)
       /\ asked' = With(asked, c, asked[c] + 1)
       /\ UNCHANGED <<bodyPending, out>>

\* processConn on a connection that is not busy.  Every answer and every
\* dispatch makes it busy, so the loop takes one request at most.
ProcessConn(c, buf) ==
    \/ buf = <<>> /\ Wait(c, buf, bodyPending[c])
    \/ buf = <<"part">> /\ Wait(c, buf, TRUE)
    \/ buf # <<>> /\ Head(buf) \in {"static", "refuse"} /\ AnswerOnLoop(c, buf)
    \/ /\ buf # <<>>
       /\ Head(buf) \in {"get", "head"}
       /\ Dispatch(c, Tail(buf), Head(buf) = "head")
    \/ Len(buf) > 1 /\ Head(buf) = "part" /\ Dispatch(c, Tail(Tail(buf)), FALSE)
    \/ buf # <<>> /\ Head(buf) = "upload" /\ DispatchUpload(c, Tail(buf))

-----------------------------------------------------------------------------
(* readCb.                                                                  *)

\* The client sends t, which arrives at the socket.
Send(c, t) ==
    /\ phase[c] = "open"
    /\ t \in traffic.kinds
    /\ \/ client[c] = "head" /\ t \in Requests /\ budget > 0
       \/ client[c] = "body" /\ t \in Endings
       \/ client[c] = "rest" /\ t = "rest"
    /\ socket' = With(socket, c, Append(socket[c], t))
    /\ budget' = IF t \in Requests THEN budget - 1 ELSE budget
    /\ client' = With(client, c, IF t = "upload" THEN "body"
                                 ELSE IF t = "part" THEN "rest" ELSE "head")
    /\ UNCHANGED <<traffic, phase, inbuf, bodyPending, busy, inFlight, deadline, started, upload,
                   uploadReq, aged, fileVars, wire, flushed, asked, reqLoc, reqVars,
                   keep, handlerVars, queue, draining>>

\* overBusyBuffer: a connection whose request is being answered has buffered
\* more than it may.
OverBusyBuffer(c, buf) == busy[c] /\ ~upload[c] /\ Len(buf) > BusyCap

\* Bytes arrive: everything the socket holds, in one read.
Read(c) ==
    LET buf == inbuf[c] \o socket[c] IN
    /\ phase[c] = "open"
    /\ socket[c] # <<>>
    /\ socket' = With(socket, c, <<>>)
    /\ \/ /\ OverBusyBuffer(c, buf)
          /\ inbuf' = With(inbuf, c, <<>>)
          /\ WriteAnswer(c, Reply("reply", FALSE))
          /\ UNCHANGED <<phase, bodyPending, inFlight, upload, uploadReq, asked, reqLoc,
                         reqVars, keep, handlerVars>>
       \/ /\ upload[c]
          /\ EmitStream(c, uploadReq[c], buf, reqLoc, busy[c], deadline[c], started[c])
          /\ UNCHANGED <<bodyPending, inFlight, uploadReq, asked, reqVars, keep,
                         handlerVars>>
       \/ /\ ~OverBusyBuffer(c, buf) /\ ~upload[c] /\ busy[c]
          /\ inbuf' = With(inbuf, c, buf)
          /\ UNCHANGED <<phase, bodyPending, busy, inFlight, deadline, started, upload,
                         uploadReq, wire, asked, reqLoc, reqVars, keep, handlerVars>>
       \/ ~upload[c] /\ ~busy[c] /\ ProcessConn(c, buf)
    /\ UNCHANGED <<traffic, client, budget, aged, fileVars, flushed, queue, draining>>

\* The peer is gone.  A request head buffered with its body incomplete is
\* answered 400 on a plaintext connection (tls = FALSE).
Eof(c, tls) ==
    /\ phase[c] = "open"
    /\ client[c] # "eof" /\ socket[c] = <<>>
    /\ client' = With(client, c, "eof")
    /\ \/ /\ ~busy[c] /\ ~tls /\ inbuf[c] # <<>>
          /\ WriteAnswer(c, Reply("reply", FALSE))
          /\ asked' = With(asked, c, asked[c] + 1)
          /\ phase' = phase
       \/ /\ busy[c] \/ tls \/ inbuf[c] = <<>>
          /\ phase' = Closing(c)
          /\ UNCHANGED <<wire, busy, deadline, started, asked>>
    /\ UNCHANGED <<traffic, budget, socket, inbuf, bodyPending, inFlight, upload, uploadReq, aged, fileVars,
                   flushed, reqLoc, reqVars, keep, handlerVars, queue, draining>>

-----------------------------------------------------------------------------
(* The handler's calls, on an isolate thread.  Each looks its request up in *)
(* reqLoc_ (lookupReq, which may erase the entry) and later pushes to the   *)
(* loop's queue; a request that is no longer there makes the call a no-op.  *)

\* lookupReq finds r: the call goes on, with the copy of the entry it took,
\* to push the given part.
Calls(r, part, finish, next) ==
    /\ r \in reqLoc
    /\ out' = With(out, r, [conn |-> reqConn[r], req |-> r, part |-> part,
                            keep |-> keep[r], finish |-> finish])
    /\ handler' = With(handler, r, next)

\* lookupReq does not: unknown, or already answered.
Misses(r) ==
    /\ r \notin reqLoc
    /\ handler' = With(handler, r, "done")
    /\ UNCHANGED <<out, reqLoc>>

loopVars == <<phase, clientVars, inbuf, bodyPending, busy, inFlight, deadline, started, upload,
              uploadReq, aged, fileVars, wire, flushed, asked, reqVars, keep,
              draining>>

\* Slip: respond looks its request up without taking it out of reqLoc_.
RespondPeeks(r) ==
    /\ handler[r] = "running" /\ "full" \in traffic.answers
    /\ \/ Calls(r, "full", TRUE, "push") /\ reqLoc' = reqLoc
       \/ Misses(r)
    /\ UNCHANGED <<loopVars, queue>>

\* respond takes the request out of reqLoc_, then builds and pushes its answer.
Respond(r) ==
    /\ handler[r] = "running" /\ "full" \in traffic.answers
    /\ \/ Calls(r, "full", TRUE, "push") /\ reqLoc' = reqLoc \ {r}
       \/ Misses(r)
    /\ UNCHANGED <<loopVars, queue>>

\* respondFile: a HEAD request, an empty range and a missing file (404) go
\* through respond; otherwise the head is queued with the open file.
RespondFile(r) ==
    /\ handler[r] = "running" /\ "file" \in traffic.answers
    /\ \/ Calls(r, "full", TRUE, "push") /\ reqLoc' = reqLoc \ {r}
       \/ /\ ~isHead[r]
          /\ Calls(r, "file", FALSE, "push")
          /\ reqLoc' = reqLoc \ {r}
       \/ Misses(r)
    /\ UNCHANGED <<loopVars, queue>>

\* startStream only looks: the entry stays until the terminal chunk, or, for
\* HEAD, until the head has been pushed.
StartStream(r) ==
    /\ handler[r] = "running" /\ "stream" \in traffic.answers
    /\ \/ Calls(r, "head", isHead[r], "push") /\ reqLoc' = reqLoc
       \/ Misses(r)
    /\ UNCHANGED <<loopVars, queue>>

\* sendStreamChunk, not last and last.
SendStreamChunk(r) ==
    /\ handler[r] = "streaming"
    /\ \/ /\ Len(queue) + Len(wire[reqConn[r]]) < MaxWire
          /\ Calls(r, "chunk", FALSE, "push")
          /\ reqLoc' = reqLoc
       \/ Calls(r, "last", TRUE, "release") /\ reqLoc' = reqLoc
       \/ Misses(r)
    /\ UNCHANGED <<loopVars, queue>>

\* The second look-up of a terminal chunk (whose result is not used), and
\* the one that follows the push of a HEAD answer's head.
Release(r) ==
    /\ handler[r] = "release"
    /\ reqLoc' = reqLoc \ {r}
    /\ handler' = With(handler, r, IF out[r].part = "last" THEN "push" ELSE "done")
    /\ UNCHANGED <<loopVars, out, queue>>

\* pushWrite.
Push(r) ==
    LET e == out[r] IN
    /\ handler[r] = "push"
    /\ queue' = Append(queue, e)
    /\ handler' = With(handler, r,
                       IF e.part = "head" /\ e.finish THEN "release"
                       ELSE IF e.part \in {"head", "chunk"} THEN "streaming"
                       ELSE "done")
    /\ UNCHANGED <<loopVars, out, reqLoc>>

-----------------------------------------------------------------------------
(* The loop's callbacks.                                                    *)

\* A queued file answer brings its open file to the connection.
OpenFile(c, e) == IF e.part = "file" THEN With(fileLeft, c, FileChunks) ELSE fileLeft

\* onAsync, one entry of the batch: write it to its connection if that is
\* still open, opening the file of a file answer.
OnAsync ==
    LET e == Head(queue)
        c == e.conn
        w == [req |-> e.req, part |-> IF e.part = "file" THEN "head" ELSE e.part,
              keep |-> e.keep, finish |-> e.finish]
    IN
    /\ queue # <<>>
    /\ queue' = Tail(queue)
    /\ \/ /\ phase[c] = "open"
          /\ WriteAnswer(c, w)
          /\ MayOverflow(c, w)
          /\ fileLeft' = OpenFile(c, e)
          /\ fileKeep' = IF e.part = "file" THEN With(fileKeep, c, e.keep) ELSE fileKeep
       \/ /\ phase[c] # "open"
          /\ UNCHANGED <<phase, wire, busy, deadline, started, fileVars>>
    /\ UNCHANGED <<clientVars, inbuf, bodyPending, inFlight, upload, uploadReq, aged, flushed,
                   asked, reqLoc, reqVars, keep, handlerVars, draining>>

Pending(c) == Len(wire[c]) - flushed[c]

\* continueFileSend: the next chunk of the file, or the connection closed
\* when it cannot be read.
ContinueFileSend(c) ==
    LET left == fileLeft[c] - 1
        w == [req |-> inFlight[c], part |-> IF left = 0 THEN "last" ELSE "chunk",
              keep |-> fileKeep[c], finish |-> left = 0]
    IN
    \/ /\ fileLeft' = With(fileLeft, c, 0)
       /\ phase' = Closing(c)
       /\ UNCHANGED <<wire, busy, deadline, started>>
    \/ /\ fileLeft' = With(fileLeft, c, left)
       /\ WriteAnswer(c, w)
       /\ MayOverflow(c, w)

\* Slip: a pipelined request buffered behind a finished answer is left there.
ResumeForgets(c) == Wait(c, inbuf[c], bodyPending[c])

\* A kept-alive answer is finished: on to the request buffered behind it,
\* unless an upload still owns the buffer.
Resume(c) ==
    \/ upload[c] /\ Wait(c, inbuf[c], bodyPending[c])
    \/ ~upload[c] /\ ProcessConn(c, inbuf[c])

\* onWrite: the oldest write of c has completed, or failed.
OnWrite(c, ok) ==
    LET w == wire[c][flushed[c] + 1] IN
    /\ phase[c] = "open"
    /\ Pending(c) > 0
    /\ flushed' = With(flushed, c, flushed[c] + 1)
    /\ \/ /\ ~ok
          /\ phase' = Closing(c)
          /\ UNCHANGED <<inbuf, bodyPending, busy, inFlight, deadline, started, upload, uploadReq,
                         fileLeft, wire, asked, reqLoc, reqVars, keep, handlerVars>>
       \/ /\ ok /\ ~w.finish
          /\ \/ fileLeft[c] > 0 /\ Pending(c) = 1 /\ ContinueFileSend(c)
             \/ /\ fileLeft[c] = 0 \/ Pending(c) > 1
                /\ UNCHANGED <<phase, busy, deadline, started, fileLeft, wire>>
          /\ UNCHANGED <<inbuf, bodyPending, inFlight, upload, uploadReq, asked, reqLoc, reqVars,
                         keep, handlerVars>>
       \/ /\ ok /\ w.finish /\ ~w.keep
          /\ phase' = Closing(c)
          /\ inFlight' = With(inFlight, c, None)
          /\ deadline' = With(deadline, c, FALSE)
          /\ started' = With(started, c, FALSE)
          /\ UNCHANGED <<inbuf, bodyPending, busy, upload, uploadReq, fileLeft, wire, asked, reqLoc,
                         reqVars, keep, handlerVars>>
       \/ /\ ok /\ w.finish /\ w.keep
          /\ Resume(c)
          /\ fileLeft' = fileLeft
    /\ UNCHANGED <<clientVars, aged, fileKeep, queue, draining>>

-----------------------------------------------------------------------------
(* onSweep, one connection; x is the set of its clocks that have run out.   *)

\* Slip: the look-up's answer is not consulted.
RetireRegardless(c) ==
    /\ reqLoc' = reqLoc \ {inFlight[c]}
    /\ inFlight' = With(inFlight, c, None)
    /\ upload' = With(upload, c, FALSE)
    /\ WriteAnswer(c, Reply("408", FALSE))
    /\ UNCHANGED <<phase, asked>>

\* Slip: the request is retired and its client never told.
RetireSilently(c) ==
    /\ reqLoc' = reqLoc \ {inFlight[c]}
    /\ UNCHANGED <<phase, inFlight, upload, wire, busy, deadline, started, asked>>

\* Slip: only the event is broadcast.
RetireOnlyTells(c) ==
    UNCHANGED <<phase, inFlight, upload, wire, busy, deadline, started, asked, reqLoc>>

\* A request past its deadline, or whose upload stopped arriving: if it is
\* still in reqLoc_, it is taken out and answered 408 and close.
RetireTimedOut(c) ==
    \/ /\ inFlight[c] \in reqLoc
       /\ reqLoc' = reqLoc \ {inFlight[c]}
       /\ inFlight' = With(inFlight, c, None)
       /\ upload' = With(upload, c, FALSE)
       /\ WriteAnswer(c, Reply("408", FALSE))
       /\ UNCHANGED <<phase, asked>>
    \/ /\ inFlight[c] \notin reqLoc
       /\ UNCHANGED <<phase, inFlight, upload, wire, busy, deadline, started, asked,
                      reqLoc>>

SweepBusy(c, x) ==
    LET late == deadline[c] /\ "deadline" \in x /\ inFlight[c] # None
        stalled == upload[c] /\ "body" \in x /\ inFlight[c] # None
        silent == started[c] /\ inFlight[c] # None /\ Pending(c) = 0 /\ "stream" \in x
    IN
    \/ (late \/ stalled) /\ RetireTimedOut(c)
    \/ /\ ~late /\ ~stalled /\ silent
       /\ reqLoc' = reqLoc \ {inFlight[c]}
       /\ inFlight' = With(inFlight, c, None)
       /\ started' = With(started, c, FALSE)
       /\ phase' = Closing(c)
       /\ UNCHANGED <<upload, wire, busy, deadline, asked>>
    \/ /\ ~late /\ ~stalled /\ ~silent
       /\ UNCHANGED <<phase, inFlight, upload, wire, busy, deadline, started, asked,
                      reqLoc>>

\* Not busy: a body that stopped arriving is answered 408 and close; a
\* connection that is idle or past its age is closed.
SweepIdle(c, x) ==
    /\ \/ /\ bodyPending[c] /\ "body" \in x
          /\ WriteAnswer(c, Reply("408", FALSE))
          /\ asked' = With(asked, c, asked[c] + 1)
          /\ phase' = phase
       \/ /\ ~bodyPending[c] /\ (aged'[c] \/ "idle" \in x)
          /\ phase' = Closing(c)
          /\ UNCHANGED <<wire, busy, deadline, started, asked>>
       \/ /\ IF bodyPending[c] THEN "body" \notin x ELSE ~aged'[c] /\ "idle" \notin x
          /\ UNCHANGED <<phase, wire, busy, deadline, started, asked>>
    /\ UNCHANGED <<inFlight, upload, reqLoc>>

Sweep(c, x) ==
    /\ phase[c] = "open"
    /\ \/ /\ Pending(c) > 0 /\ "write" \in x
          /\ phase' = Closing(c)
          /\ UNCHANGED <<busy, inFlight, deadline, started, upload, aged, wire, asked,
                         reqLoc, keep>>
       \/ /\ Pending(c) = 0 \/ "write" \notin x
          /\ aged' = With(aged, c, aged[c] \/ "age" \in x)
          /\ keep' = IF aged'[c] /\ ~aged[c] /\ busy[c] /\ inFlight[c] \in reqLoc
                     THEN With(keep, inFlight[c], FALSE) ELSE keep
          /\ IF busy[c] THEN SweepBusy(c, x) ELSE SweepIdle(c, x)
    /\ UNCHANGED <<clientVars, inbuf, bodyPending, uploadReq, fileVars, flushed, reqVars,
                   handlerVars, queue, draining>>

-----------------------------------------------------------------------------
\* onCloseConn: the connection is gone, and with it every request of its own.
OnCloseConn(c) ==
    /\ phase[c] = "closing"
    /\ phase' = With(phase, c, "closed")
    /\ reqLoc' = {r \in reqLoc : reqConn[r] # c}
    /\ fileLeft' = With(fileLeft, c, 0)
    /\ UNCHANGED <<clientVars, inbuf, bodyPending, busy, inFlight, deadline, started, upload,
                   uploadReq, aged, fileKeep, wire, flushed, asked, reqVars, keep,
                   handlerVars, queue, draining>>

BeginDrain ==
    /\ ~draining
    /\ draining' = TRUE
    /\ UNCHANGED <<phase, clientVars, inbuf, bodyPending, busy, inFlight, deadline, started, upload,
                   uploadReq, aged, fileVars, wire, flushed, asked, reqLoc, reqVars,
                   keep, handlerVars, queue>>

Handler(r) ==
    \/ Respond(r) \/ RespondFile(r)
    \/ StartStream(r) \/ SendStreamChunk(r)
    \/ Release(r) \/ Push(r)

Next ==
    \/ \E c \in Conns : (\E t \in Tokens : Send(c, t)) \/ Read(c) \/ (\E tls \in BOOLEAN : Eof(c, tls))
    \/ \E r \in Reqs : Handler(r)
    \/ OnAsync
    \/ \E c \in Conns : (\E ok \in BOOLEAN : OnWrite(c, ok)) \/ OnCloseConn(c)
    \/ \E c \in Conns, x \in Expired : Sweep(c, x)
    \/ BeginDrain

\* A loop thread runs its callbacks, and a clock that nothing restarts runs
\* out: the sweep then sees it.  A handler finishes the native call it is in;
\* nothing else is assumed of handlers, and nothing of clients.
Fairness ==
    /\ WF_vars(OnAsync)
    /\ \A r \in Reqs : WF_vars(Push(r)) /\ WF_vars(Release(r))
    /\ \A c \in Conns :
          /\ WF_vars(OnCloseConn(c))
          /\ WF_vars(Pending(c) > 0 /\ Sweep(c, {"write"}))
          /\ WF_vars(~busy[c] /\ bodyPending[c] /\ Sweep(c, {"body"}))
          /\ WF_vars(~busy[c] /\ ~bodyPending[c] /\ Sweep(c, {"idle"}))
          /\ \A r \in Reqs :
                /\ WF_vars(inFlight[c] = r /\ deadline[c] /\ Sweep(c, {"deadline"}))
                /\ WF_vars(/\ inFlight[c] = r /\ started[c] /\ Pending(c) = 0
                           /\ Sweep(c, {"stream"}))

Spec == Init /\ [][Next]_vars
FairSpec == Spec /\ Fairness

-----------------------------------------------------------------------------
(* What the answer path promises.                                           *)

Starts(w) == w.part \in {"full", "reply", "408", "head"}
SaysClose(w) == w.finish /\ ~w.keep

\* The writes of c that its client reads as answers: up to and including the
\* first complete answer that says close.
Heard(c) == {i \in 1 .. Len(wire[c]) : \A j \in 1 .. i - 1 : ~SaysClose(wire[c][j])}

\* An answer starts only when the one before it is complete, and continues
\* only with parts of its own: no keep-alive client ever reads one answer
\* spliced into another, or one meant for a different request.
Framing ==
    \A c \in Conns : \A i \in Heard(c) :
       LET w == wire[c][i] IN
       IF Starts(w)
       THEN i > 1 => wire[c][i - 1].finish
       ELSE i > 1 /\ ~wire[c][i - 1].finish /\ wire[c][i - 1].req = w.req

\* The sweep never splices a 408 into an answer under way: "once any answer
\* byte is on the way ... the sweep must not later splice a 408 into a long
\* streaming body" (writeAnswer).
No408InsideAnswer ==
    \A c \in Conns : \A i \in 2 .. Len(wire[c]) :
       wire[c][i].part = "408" => wire[c][i - 1].finish

\* Nothing is written after an answer that says close; in particular "the
\* handler's late respond is a no-op" once the sweep has answered 408.
CloseIsLast ==
    \A c \in Conns : \A i \in 1 .. Len(wire[c]) : SaysClose(wire[c][i]) => i = Len(wire[c])

\* So it is but for a handler that streams, whose head may be queued when the
\* sweep answers 408 (startStream): then parts of that stream are all that
\* follows.
CloseIsLastButStreams ==
    /\ "stream" \notin traffic.answers => CloseIsLast
    /\ \A c \in Conns : \A i \in 1 .. Len(wire[c]) : \A j \in i + 1 .. Len(wire[c]) :
          SaysClose(wire[c][i]) => wire[c][j].part \in {"head", "chunk", "last"}

\* processConn dispatches "complete buffered requests until one is in
\* flight": an open connection with nothing in flight has nothing complete
\* in its buffer.
NoIdleBacklog ==
    \A c \in Conns :
       phase[c] = "open" /\ ~busy[c] /\ ~upload[c] => inbuf[c] \in {<<>>, <<"part">>}

\* So it is on a connection that has carried no streamed upload, which may be
\* answered before its body has ended (emitStreamBytes).
NoIdleBacklogButUploads ==
    \A c \in Conns :
       phase[c] = "open" /\ ~busy[c] /\ uploadReq[c] = None => inbuf[c] \in {<<>>, <<"part">>}

\* A closed connection leaves nothing in reqLoc_, so the in-flight count the
\* drain polls and the 503 budget reads comes back to zero.
NoStrandedRequest == \A r \in reqLoc : phase[reqConn[r]] # "closed"

\* A busy connection is never forgotten: there is a finishing write on its
\* way, in the file being sent, in the queue or in a handler's hands, or its
\* request is still in reqLoc_, where a handler or the sweep can answer it.
BusyHasExit ==
    \A c \in Conns :
       phase[c] = "open" /\ busy[c] =>
          \/ \E i \in flushed[c] + 1 .. Len(wire[c]) : wire[c][i].finish
          \/ fileLeft[c] > 0
          \/ \E i \in 1 .. Len(queue) :
                queue[i].conn = c /\ (queue[i].finish \/ queue[i].part = "file")
          \/ \E r \in Reqs :
                /\ handler[r] \in {"push", "release"} /\ out[r].conn = c
                /\ out[r].finish \/ out[r].part = "file"
          \/ inFlight[c] \in reqLoc

\* With a route timeout, every dispatched request leaves reqLoc_: answered,
\* timed out, cut off as a silent stream, or dropped with its connection.
RequestSettles == \A r \in Reqs : r \in reqLoc ~> r \notin reqLoc

\* The answer path implements the contract of AnswerContract.
Begun == [c \in Conns |-> Cardinality({i \in Heard(c) : Starts(wire[c][i])})]
Ended == [c \in Conns |-> Cardinality({i \in Heard(c) : wire[c][i].finish})]
Shut == [c \in Conns |-> phase[c] # "open" \/ \E i \in Heard(c) : SaysClose(wire[c][i])]

Contract == INSTANCE AnswerContract WITH begun <- Begun, ended <- Ended, shut <- Shut

\* Every behaviour of the answer path is one the contract allows.
KeepsContract == Contract!Spec

\* What is on the wire is well framed and ends at the answer that says close,
\* streams opened late apart (writeAnswer, closeConn).
WireInOrder == TypeOK /\ Framing /\ CloseIsLastButStreams

\* Nothing is stuck: no request outlives its connection in reqLoc_, and every
\* busy connection has something that will make it idle or close it.
NothingStuck == NoStrandedRequest /\ BusyHasExit
=============================================================================
