-------------------------- MODULE AnswerPathProofs --------------------------
(* Proofs about the serving of HTTP/1.1 connections (AnswerPath), for any     *)
(* number of connections and requests: nothing complete waits in the buffer   *)
(* of an idle connection, and no request of a closed connection is left in    *)
(* reqLoc_.                                                                   *)
(*                                                                            *)
(* The invariant is Tidy: the two properties, the types, and Named, which     *)
(* says that connections and requests point at each other.  Named is what     *)
(* makes the rest inductive.  A streamed upload's bytes are read while its    *)
(* connection may be idle: only through Named is that connection known to     *)
(* have carried an upload.  And a request in reqLoc_ is known to have a       *)
(* connection at all, the one whose close takes it out.                       *)
(*                                                                            *)
(* One lemma per action shows that Base, the types and Named, is kept; one    *)
(* per action that Tidy is, at the connection the action is about, the other  *)
(* connections being left alone.  processConn runs inside onRead, onWrite     *)
(* and the dispatch, and has lemmas of its own.                               *)
EXTENDS AnswerPath, FiniteSetTheorems, TLAPS

\* The request in flight on a connection, and the upload it carries, were
\* registered for it (dispatch); what a handler holds in its hands is an
\* answer to its own request.
Named ==
    /\ \A c \in Conns :
          /\ inFlight[c] # None => handler[inFlight[c]] # "unborn" /\ reqConn[inFlight[c]] = c
          /\ uploadReq[c] # None => handler[uploadReq[c]] # "unborn" /\ reqConn[uploadReq[c]] = c
          /\ upload[c] => uploadReq[c] # None
    /\ \A r \in Reqs :
          /\ reqConn[r] = None <=> handler[r] = "unborn"
          /\ r \in reqLoc => handler[r] # "unborn"
          /\ handler[r] \in {"push", "release"} =>
                out[r] \in Entry /\ out[r].conn = reqConn[r] /\ out[r].req = r
          /\ handler[r] = "release" => out[r].part \in {"last", "head"} /\ out[r].finish

\* The types of what processConn and the handlers share.
ServeTypes ==
    /\ phase \in [Conns -> {"open", "closing", "closed"}]
    /\ inbuf \in [Conns -> Seq(Tokens)]
    /\ bodyPending \in [Conns -> BOOLEAN]
    /\ busy \in [Conns -> BOOLEAN]
    /\ inFlight \in [Conns -> Reqs \cup {None}]
    /\ deadline \in [Conns -> BOOLEAN]
    /\ started \in [Conns -> BOOLEAN]
    /\ upload \in [Conns -> BOOLEAN]
    /\ uploadReq \in [Conns -> Reqs \cup {None}]
    /\ wire \in [Conns -> Seq(Write)]
    /\ asked \in [Conns -> Nat]
    /\ reqLoc \in SUBSET Reqs
    /\ reqConn \in [Reqs -> Conns \cup {None}]
    /\ isHead \in [Reqs -> BOOLEAN]
    /\ keep \in [Reqs -> BOOLEAN]
    /\ handler \in [Reqs -> {"unborn", "running", "push", "streaming", "release", "done"}]
    /\ out \in [Reqs -> Entry \cup {None}]

\* First-order reasoning is enough for most of what follows.
USE Zenon

\* Appending to a sequence.
LEMMA AppendFacts ==
    ASSUME NEW S, NEW s \in Seq(S), NEW x \in S
    PROVE  /\ Append(s, x) \in Seq(S)
           /\ Len(Append(s, x)) = Len(s) + 1
           /\ \A i \in 1 .. Len(s) : Append(s, x)[i] = s[i]
           /\ Append(s, x)[Len(s) + 1] = x
           /\ Append(s, x) # <<>>
BY SMT

\* Taking the head off a sequence.
LEMMA TailFacts ==
    ASSUME NEW S, NEW s \in Seq(S), s # <<>>
    PROVE  /\ Tail(s) \in Seq(S)
           /\ Len(s) > 0 /\ Len(Tail(s)) = Len(s) - 1
           /\ \A i \in 1 .. Len(Tail(s)) : Tail(s)[i] = s[i + 1]
           /\ Head(s) = s[1] /\ s[1] \in S
BY SMT

\* Joining two sequences.
LEMMA ConcatFacts ==
    ASSUME NEW S, NEW s \in Seq(S), NEW t \in Seq(S)
    PROVE  /\ s \o t \in Seq(S)
           /\ Len(s \o t) = Len(s) + Len(t)
BY SMT

\* An answer of the loop itself is a write.
LEMMA ReplyType ==
    ASSUME NEW p \in Parts, NEW ka \in BOOLEAN
    PROVE  Reply(p, ka) \in Write
BY DEF Reply, Write

\* writeAnswer keeps the types of what it writes to.
LEMMA WriteTypes ==
    ASSUME ServeTypes, NEW c \in Conns, NEW w \in Write, WriteAnswer(c, w)
    PROVE  /\ wire' \in [Conns -> Seq(Write)]
           /\ busy' \in [Conns -> BOOLEAN]
           /\ deadline' \in [Conns -> BOOLEAN]
           /\ started' \in [Conns -> BOOLEAN]
BY SMT DEF ServeTypes, WriteAnswer, With

\* processConn, nothing complete in the buffer.
LEMMA WaitTypes ==
    ASSUME ServeTypes, NEW c \in Conns, NEW buf \in Seq(Tokens), NEW w \in BOOLEAN, Wait(c, buf, w)
    PROVE  ServeTypes'
BY DEF ServeTypes, Wait, With, reqVars, handlerVars

\* processConn, a request answered on the loop.
LEMMA AnswerOnLoopTypes ==
    ASSUME ServeTypes, NEW c \in Conns, NEW buf \in Seq(Tokens), buf # <<>>, AnswerOnLoop(c, buf)
    PROVE  ServeTypes'
<1>1. PICK ka \in BOOLEAN : WriteAnswer(c, Reply("reply", Head(buf) = "static" /\ KeepsAlive(c, ka)))
  BY DEF AnswerOnLoop
<1>2. Reply("reply", Head(buf) = "static" /\ KeepsAlive(c, ka)) \in Write
  BY ReplyType DEF Parts
<1>3. Tail(buf) \in Seq(Tokens)
  BY SMT
<1>4. /\ wire' \in [Conns -> Seq(Write)]
      /\ busy' \in [Conns -> BOOLEAN]
      /\ deadline' \in [Conns -> BOOLEAN]
      /\ started' \in [Conns -> BOOLEAN]
  BY <1>1, <1>2, WriteTypes
<1>5. /\ inbuf' \in [Conns -> Seq(Tokens)]
      /\ bodyPending' \in [Conns -> BOOLEAN]
      /\ inFlight' \in [Conns -> Reqs \cup {None}]
      /\ asked' \in [Conns -> Nat]
  BY SMT, <1>3 DEF ServeTypes, AnswerOnLoop, With
<1>6. UNCHANGED <<phase, upload, uploadReq, reqLoc, reqVars, keep, handlerVars>>
  BY DEF AnswerOnLoop
<1> QED
  BY <1>4, <1>5, <1>6 DEF ServeTypes, reqVars, handlerVars

\* processConn, a request handed to a handler.
LEMMA DispatchTypes ==
    ASSUME ServeTypes, NEW c \in Conns, NEW rest \in Seq(Tokens), NEW head \in BOOLEAN, Dispatch(c, rest, head)
    PROVE  ServeTypes'
BY SMT, FlagsAssumption DEF ServeTypes, Dispatch, Register, KeepsAlive, With

\* The types of what emitStreamBytes writes to, after it.
EmitTyped ==
    /\ upload' \in [Conns -> BOOLEAN]
    /\ inbuf' \in [Conns -> Seq(Tokens)]
    /\ phase' \in [Conns -> {"open", "closing", "closed"}]
    /\ reqLoc' \in SUBSET Reqs
    /\ wire' \in [Conns -> Seq(Write)]
    /\ busy' \in [Conns -> BOOLEAN]
    /\ deadline' \in [Conns -> BOOLEAN]
    /\ started' \in [Conns -> BOOLEAN]

\* emitStreamBytes keeps the types of what it writes to, whatever the flags it
\* starts from.
LEMMA EmitTypes ==
    ASSUME ServeTypes, NEW c \in Conns, NEW r \in Reqs, NEW buf \in Seq(Tokens), NEW locs \in SUBSET Reqs,
           NEW b \in BOOLEAN, NEW d \in BOOLEAN, NEW s \in BOOLEAN, EmitStream(c, r, buf, locs, b, d, s)
    PROVE  EmitTyped
<1>1. Reply("reply", FALSE) \in Write
  BY ReplyType DEF Parts
<1>2. buf # <<>> => Tail(buf) \in Seq(Tokens)
  BY SMT
<1>3. /\ upload' \in [Conns -> BOOLEAN]
      /\ busy' \in [Conns -> BOOLEAN]
      /\ deadline' \in [Conns -> BOOLEAN]
      /\ started' \in [Conns -> BOOLEAN]
  BY DEF ServeTypes, EmitStream, With
<1>4. /\ phase' \in [Conns -> {"open", "closing", "closed"}]
      /\ reqLoc' \in SUBSET Reqs
  BY DEF ServeTypes, EmitStream, Closing, With
<1>5. wire' \in [Conns -> Seq(Write)]
  <2>1. Append(wire[c], Reply("reply", FALSE)) \in Seq(Write)
    <3>1. wire[c] \in Seq(Write)
      BY DEF ServeTypes
    <3> QED
      BY <1>1, <3>1, AppendFacts
  <2>2. With(wire, c, Append(wire[c], Reply("reply", FALSE))) \in [Conns -> Seq(Write)]
    BY <2>1 DEF ServeTypes, With
  <2>3. wire' \in {wire, With(wire, c, Append(wire[c], Reply("reply", FALSE)))}
    BY DEF EmitStream
  <2> QED
    BY <2>2, <2>3 DEF ServeTypes
<1>6. inbuf' \in [Conns -> Seq(Tokens)]
  BY <1>2 DEF ServeTypes, EmitStream, With
<1> QED
  BY <1>3, <1>4, <1>5, <1>6 DEF EmitTyped

\* processConn, a streamed upload handed to a handler.
LEMMA DispatchUploadTypes ==
    ASSUME ServeTypes, NEW c \in Conns, NEW rest \in Seq(Tokens), DispatchUpload(c, rest)
    PROVE  ServeTypes'
<1>1. PICK r \in Reqs, ka \in BOOLEAN :
          /\ Register(c, r, FALSE, ka)
          /\ uploadReq' = With(uploadReq, c, r)
          /\ EmitStream(c, r, rest, reqLoc \cup {r}, TRUE, RouteTimeout, FALSE)
          /\ asked' = With(asked, c, asked[c] + 1)
          /\ UNCHANGED <<bodyPending, out>>
  BY DEF DispatchUpload
<1>2. reqLoc \cup {r} \in SUBSET Reqs
  BY DEF ServeTypes
<1>3. EmitTyped
  BY ZenonT(60), <1>1, <1>2, EmitTypes, FlagsAssumption
<1>4. /\ handler' \in [Reqs -> {"unborn", "running", "push", "streaming", "release", "done"}]
      /\ reqConn' \in [Reqs -> Conns \cup {None}]
      /\ isHead' \in [Reqs -> BOOLEAN]
      /\ keep' \in [Reqs -> BOOLEAN]
      /\ inFlight' \in [Conns -> Reqs \cup {None}]
  BY <1>1 DEF ServeTypes, Register, KeepsAlive, With
<1>5. /\ uploadReq' \in [Conns -> Reqs \cup {None}]
      /\ asked' \in [Conns -> Nat]
      /\ bodyPending' \in [Conns -> BOOLEAN]
      /\ out' \in [Reqs -> Entry \cup {None}]
  BY SMT, <1>1 DEF ServeTypes, With
<1> QED
  BY <1>3, <1>4, <1>5 DEF EmitTyped, ServeTypes

\* processConn keeps the types.
LEMMA ProcessConnTypes ==
    ASSUME ServeTypes, NEW c \in Conns, NEW buf \in Seq(Tokens), ProcessConn(c, buf)
    PROVE  ServeTypes'
<1>1. CASE buf = <<>> /\ Wait(c, buf, bodyPending[c])
  <2>1. bodyPending[c] \in BOOLEAN
    BY DEF ServeTypes
  <2> QED
    BY <1>1, <2>1, WaitTypes
<1>2. CASE buf = <<"part">> /\ Wait(c, buf, TRUE)
  BY <1>2, WaitTypes
<1>3. CASE buf # <<>> /\ Head(buf) \in {"static", "refuse"} /\ AnswerOnLoop(c, buf)
  BY <1>3, AnswerOnLoopTypes
<1>4. CASE buf # <<>> /\ Head(buf) \in {"get", "head"} /\ Dispatch(c, Tail(buf), Head(buf) = "head")
  <2>1. Tail(buf) \in Seq(Tokens)
    BY SMT, <1>4
  <2> QED
    BY <2>1, <1>4, DispatchTypes
<1>5. CASE Len(buf) > 1 /\ Head(buf) = "part" /\ Dispatch(c, Tail(Tail(buf)), FALSE)
  <2>1. Tail(buf) \in Seq(Tokens) /\ Tail(buf) # <<>>
    BY SMT, <1>5
  <2>2. Tail(Tail(buf)) \in Seq(Tokens)
    BY SMT, <2>1
  <2> QED
    BY <2>2, <1>5, DispatchTypes
<1>6. CASE buf # <<>> /\ Head(buf) = "upload" /\ DispatchUpload(c, Tail(buf))
  <2>1. Tail(buf) \in Seq(Tokens)
    BY SMT, <1>6
  <2> QED
    BY <2>1, <1>6, DispatchUploadTypes
<1> QED
  BY <1>1, <1>2, <1>3, <1>4, <1>5, <1>6 DEF ProcessConn

-----------------------------------------------------------------------------
\* The ways out of processConn: the connection waits for more,
Waits(c) ==
    /\ busy' = With(busy, c, FALSE)
    /\ inFlight' = With(inFlight, c, None)
    /\ deadline' = With(deadline, c, FALSE)
    /\ UNCHANGED <<phase, upload, uploadReq, wire, asked, reqLoc, reqConn, handler, out>>

\* the loop answers it itself,
Replies(c) ==
    /\ \E ka \in BOOLEAN : WriteAnswer(c, Reply("reply", ka))
    /\ inFlight' = With(inFlight, c, None)
    /\ asked' = With(asked, c, asked[c] + 1)
    /\ UNCHANGED <<phase, upload, uploadReq, reqLoc, reqConn, handler, out>>

\* a new request is registered for it,
Starting(c, r) ==
    /\ handler[r] = "unborn"
    /\ handler' = With(handler, r, "running")
    /\ reqConn' = With(reqConn, r, c)
    /\ inFlight' = With(inFlight, c, r)
    /\ asked' = With(asked, c, asked[c] + 1)
    /\ busy' = With(busy, c, TRUE)
    /\ UNCHANGED out
    /\ \/ UNCHANGED <<upload, uploadReq>>
       \/ \E more \in BOOLEAN : upload' = With(upload, c, more) /\ uploadReq' = With(uploadReq, c, r)

\* which a handler is to answer,
Begins(c, r) ==
    /\ Starting(c, r)
    /\ phase' \in {phase, Closing(c)}
    /\ reqLoc' = reqLoc \cup {r}
    /\ deadline' = With(deadline, c, RouteTimeout)
    /\ UNCHANGED wire

\* or which is refused at once.
Refuses(c, r) ==
    /\ Starting(c, r)
    /\ reqLoc' = reqLoc \ {r}
    /\ WriteAnswer(c, Reply("reply", FALSE))
    /\ UNCHANGED phase

\* What dispatching an upload does: it begins, or its first bytes are already
\* too many and it is refused.
LEMMA UploadOutcome ==
    ASSUME ServeTypes, NEW c \in Conns, NEW rest \in Seq(Tokens), DispatchUpload(c, rest)
    PROVE  /\ \E r \in Reqs : Begins(c, r) \/ (rest # <<>> /\ Head(rest) = "over" /\ Refuses(c, r))
           /\ inbuf' = With(inbuf, c, IF rest = <<>> THEN rest ELSE Tail(rest))
<1>1. PICK r \in Reqs, ka \in BOOLEAN :
          /\ Register(c, r, FALSE, ka)
          /\ uploadReq' = With(uploadReq, c, r)
          /\ EmitStream(c, r, rest, reqLoc \cup {r}, TRUE, RouteTimeout, FALSE)
          /\ asked' = With(asked, c, asked[c] + 1)
          /\ UNCHANGED <<bodyPending, out>>
  BY DEF DispatchUpload
<1>2. Starting(c, r)
  <2>1. busy' = With(busy, c, TRUE)
    BY <1>1 DEF EmitStream
  <2>2. \E more \in BOOLEAN : upload' = With(upload, c, more)
    BY <1>1 DEF EmitStream
  <2> QED
    BY <1>1, <2>1, <2>2 DEF Register, Starting
<1>3. rest # <<>> => Head(rest) \in Tokens
  BY TailFacts
<1>4. CASE rest # <<>> /\ Head(rest) = "over"
  <2>1. reqLoc' = reqLoc \ {r}
    BY <1>1, <1>4 DEF EmitStream
  <2>2. WriteAnswer(c, Reply("reply", FALSE)) /\ UNCHANGED phase
    BY <1>1, <1>4 DEF EmitStream, WriteAnswer
  <2>3. inbuf' = With(inbuf, c, Tail(rest))
    BY <1>1, <1>4 DEF EmitStream
  <2> QED
    BY <1>2, <2>1, <2>2, <2>3, <1>4 DEF Refuses
<1>5. CASE rest = <<>>
  <2>1. /\ reqLoc' = reqLoc \cup {r} /\ UNCHANGED <<wire, phase>>
        /\ deadline' = With(deadline, c, RouteTimeout)
        /\ inbuf' = With(inbuf, c, rest)
    BY <1>1, <1>5, FlagsAssumption DEF EmitStream
  <2> QED
    BY <1>2, <2>1, <1>5 DEF Begins
<1>6. CASE rest # <<>> /\ Head(rest) # "over"
  <2>1. Head(rest) # "more"
    BY <1>3, <1>6 DEF Tokens, Requests, Endings
  <2>2. /\ reqLoc' = reqLoc \cup {r} /\ UNCHANGED wire /\ phase' \in {phase, Closing(c)}
        /\ deadline' = With(deadline, c, RouteTimeout)
        /\ inbuf' = With(inbuf, c, Tail(rest))
    BY <1>1, <1>6, <2>1, FlagsAssumption DEF EmitStream
  <2> QED
    BY <1>2, <2>2, <1>6 DEF Begins
<1> QED
  BY <1>4, <1>5, <1>6

\* What processConn does, in one of four ways.
LEMMA ProcessOutcome ==
    ASSUME ServeTypes, NEW c \in Conns, NEW buf \in Seq(Tokens), ProcessConn(c, buf)
    PROVE  \/ Waits(c) /\ inbuf' = With(inbuf, c, buf) /\ buf \in {<<>>, <<"part">>}
           \/ Replies(c)
           \/ \E r \in Reqs : Begins(c, r)
           \/ Len(buf) > 1 /\ buf[2] = "over" /\ \E r \in Reqs : Refuses(c, r)
<1>1. CASE buf \in {<<>>, <<"part">>} /\ \E w \in BOOLEAN : Wait(c, buf, w)
  BY <1>1 DEF Wait, Waits, reqVars, handlerVars
<1>2. CASE buf # <<>> /\ AnswerOnLoop(c, buf)
  BY <1>2 DEF AnswerOnLoop, Replies, reqVars, handlerVars
<1>3. ASSUME NEW rest \in Seq(Tokens), NEW head \in BOOLEAN, Dispatch(c, rest, head)
      PROVE  \E r \in Reqs : Begins(c, r)
  BY <1>3 DEF Dispatch, Register, Begins, Starting
<1>4. CASE buf # <<>> /\ Head(buf) = "upload" /\ DispatchUpload(c, Tail(buf))
  <2>1. Tail(buf) \in Seq(Tokens)
    BY <1>4, TailFacts
  <2>2. Tail(buf) # <<>> => Len(buf) > 1 /\ Head(Tail(buf)) = buf[2]
    BY SMT, <1>4
  <2> QED
    BY <2>1, <2>2, <1>4, UploadOutcome
<1>5. CASE buf # <<>> /\ Head(buf) \in {"get", "head"} /\ Dispatch(c, Tail(buf), Head(buf) = "head")
  <2>1. Tail(buf) \in Seq(Tokens)
    BY <1>5, TailFacts
  <2> QED
    BY <2>1, <1>5, <1>3
<1>6. CASE Len(buf) > 1 /\ Head(buf) = "part" /\ Dispatch(c, Tail(Tail(buf)), FALSE)
  <2>1. Tail(buf) \in Seq(Tokens) /\ Tail(buf) # <<>>
    BY SMT, <1>6
  <2>2. Tail(Tail(buf)) \in Seq(Tokens)
    BY SMT, <2>1
  <2> QED
    BY <2>2, <1>6, <1>3
<1>7. bodyPending[c] \in BOOLEAN
  BY DEF ServeTypes
<1> QED
  BY <1>1, <1>2, <1>4, <1>5, <1>6, <1>7 DEF ProcessConn

\* A new request is named by its connection.
LEMMA StartingNamed ==
    ASSUME ServeTypes, Named, NEW c \in Conns, NEW r \in Reqs, Starting(c, r), reqLoc' \subseteq reqLoc \cup {r}
    PROVE  Named'
<1>1. ASSUME NEW d \in Conns
      PROVE  /\ inFlight'[d] # None => handler'[inFlight'[d]] # "unborn" /\ reqConn'[inFlight'[d]] = d
             /\ uploadReq'[d] # None => handler'[uploadReq'[d]] # "unborn" /\ reqConn'[uploadReq'[d]] = d
             /\ upload'[d] => uploadReq'[d] # None
  <2>1. inFlight'[d] # None => handler'[inFlight'[d]] # "unborn" /\ reqConn'[inFlight'[d]] = d
    BY SMT DEF Starting, ServeTypes, Named, With
  <2>2. uploadReq'[d] # None => handler'[uploadReq'[d]] # "unborn" /\ reqConn'[uploadReq'[d]] = d
    BY SMT DEF Starting, ServeTypes, Named, With
  <2>3. upload'[d] => uploadReq'[d] # None
    <3>1. CASE UNCHANGED <<upload, uploadReq>>
      BY <3>1 DEF Named
    <3>2. ASSUME NEW more \in BOOLEAN, upload' = With(upload, c, more), uploadReq' = With(uploadReq, c, r)
          PROVE  upload'[d] => uploadReq'[d] # None
      BY SMT, <3>2, SetsAssumption DEF ServeTypes, Named, With
    <3> QED
      BY <3>1, <3>2 DEF Starting
  <2> QED
    BY <2>1, <2>2, <2>3
<1>2. ASSUME NEW q \in Reqs
      PROVE  /\ reqConn'[q] = None <=> handler'[q] = "unborn"
             /\ q \in reqLoc' => handler'[q] # "unborn"
             /\ handler'[q] \in {"push", "release"} =>
                   out'[q] \in Entry /\ out'[q].conn = reqConn'[q] /\ out'[q].req = q
             /\ handler'[q] = "release" => out'[q].part \in {"last", "head"} /\ out'[q].finish
  <2>1. CASE q = r
    <3>1. handler'[r] = "running" /\ reqConn'[r] = c
      BY DEF Starting, ServeTypes, With
    <3> QED
      BY <2>1, <3>1, SetsAssumption
  <2>2. CASE q # r
    BY SMT, <2>2 DEF Starting, ServeTypes, Named, With
  <2> QED
    BY <2>1, <2>2
<1> QED
  BY <1>1, <1>2 DEF Named

\* processConn keeps requests and connections pointing at each other.
LEMMA ProcessNamed ==
    ASSUME ServeTypes, Named, NEW c \in Conns, NEW buf \in Seq(Tokens), ProcessConn(c, buf)
    PROVE  Named'
<1>1. CASE Waits(c)
  BY SMT, <1>1 DEF Waits, ServeTypes, Named, With
<1>2. CASE Replies(c)
  BY SMT, <1>2 DEF Replies, ServeTypes, Named, With
<1>3. ASSUME NEW r \in Reqs, Begins(c, r) \/ Refuses(c, r)
      PROVE  Named'
  BY <1>3, StartingNamed DEF Begins, Refuses
<1> QED
  BY <1>1, <1>2, <1>3, ProcessOutcome

\* The variables ProcessConn leaves alone.
RestTypes ==
    /\ traffic \in Traffics
    /\ client \in [Conns -> {"head", "body", "rest", "eof"}]
    /\ budget \in Nat
    /\ socket \in [Conns -> Seq(Tokens)]
    /\ aged \in [Conns -> BOOLEAN]
    /\ fileLeft \in [Conns -> 0 .. FileChunks]
    /\ fileKeep \in [Conns -> BOOLEAN]
    /\ flushed \in [Conns -> Nat]
    /\ queue \in Seq(Entry)
    /\ draining \in BOOLEAN

\* TypeOK, in two parts.
LEMMA TypesSplit == TypeOK <=> ServeTypes /\ RestTypes
BY DEF TypeOK, ServeTypes, RestTypes

\* The types and the pointers: what every action is shown to keep first.
Base == ServeTypes /\ RestTypes /\ Named

serveVars == <<phase, inbuf, bodyPending, busy, inFlight, deadline, started, upload, uploadReq, wire,
               asked, reqLoc, reqConn, isHead, keep, handler, out>>

\* What the types say of one connection.
LEMMA ConnTypes ==
    ASSUME Base, NEW c \in Conns
    PROVE  /\ inbuf[c] \in Seq(Tokens) /\ wire[c] \in Seq(Write) /\ Len(wire[c]) \in Nat
           /\ flushed[c] \in Nat /\ fileLeft[c] \in Nat
           /\ inFlight[c] \in Reqs \/ inFlight[c] = None
<1>1. /\ inbuf[c] \in Seq(Tokens) /\ wire[c] \in Seq(Write) /\ flushed[c] \in Nat /\ fileLeft[c] \in 0 .. FileChunks
      /\ inFlight[c] \in Reqs \/ inFlight[c] = None
  BY ZenonT(60) DEF Base, ServeTypes, RestTypes
<1>2. Len(wire[c]) \in Nat /\ fileLeft[c] \in Nat
  BY SMT, <1>1, BoundsAssumption
<1> QED
  BY <1>1, <1>2

\* Requests known to the loop, and the one in flight, have their connection.
LEMMA ReqTypes ==
    ASSUME Base
    PROVE  /\ \A c \in Conns : inFlight[c] # None => inFlight[c] \in Reqs /\ reqConn[inFlight[c]] = c
           /\ \A r \in Reqs : r \in reqLoc \/ handler[r] # "unborn" => reqConn[r] \in Conns
BY SMT, SetsAssumption DEF Base, ServeTypes, Named

\* What a new request, and what a write, leave behind at their connection.
LEMMA StartingAt ==
    ASSUME Base, NEW c \in Conns, NEW r \in Reqs, Starting(c, r)
    PROVE  /\ busy'[c] /\ inFlight'[c] = r /\ handler'[r] = "running" /\ reqConn'[r] = c /\ out' = out
           /\ \A q \in Reqs : q # r => handler'[q] = handler[q] /\ reqConn'[q] = reqConn[q]
BY SMT DEF Starting, Base, ServeTypes, With

\* A connection that was written to is busy, its deadline gone.
LEMMA WriteAt ==
    ASSUME Base, NEW c \in Conns, NEW w, WriteAnswer(c, w)
    PROVE  wire'[c] = Append(wire[c], w) /\ busy'[c] /\ ~deadline'[c]
BY SMT DEF WriteAnswer, Base, ServeTypes, With

\* A step that leaves these variables alone.
LEMMA ServeUnchanged ==
    ASSUME ServeTypes, Named, UNCHANGED serveVars
    PROVE  ServeTypes' /\ Named'
BY SMT DEF ServeTypes, Named, serveVars

\* What a step that leaves the requests alone has to show for Named.
LEMMA LoopNamed ==
    ASSUME Named, UNCHANGED <<uploadReq, reqConn, handler, out>>, reqLoc' \subseteq reqLoc,
           \A d \in Conns : inFlight'[d] \in {inFlight[d], None} /\ (upload'[d] => upload[d])
    PROVE  Named'
BY SMT DEF Named

\* The client sends.
LEMMA SendBase ==
    ASSUME Base, NEW c \in Conns, NEW t \in Tokens, Send(c, t)
    PROVE  Base'
<1>1. UNCHANGED serveVars
  BY DEF Send, serveVars, reqVars, handlerVars
<1>2. RestTypes'
  <2>1. socket' \in [Conns -> Seq(Tokens)]
    BY SMT, AppendFacts DEF Base, RestTypes, Send, With
  <2>2. budget' \in Nat
    BY SMT DEF Base, RestTypes, Send, Requests, Endings
  <2>3. client' \in [Conns -> {"head", "body", "rest", "eof"}]
    BY DEF Base, RestTypes, Send, With
  <2> QED
    BY ZenonT(60), <2>1, <2>2, <2>3 DEF Base, RestTypes, Send, fileVars
<1> QED
  BY <1>1, <1>2, ServeUnchanged DEF Base

\* onRead.
LEMMA ReadBase ==
    ASSUME Base, NEW c \in Conns, Read(c)
    PROVE  Base'
<1> DEFINE buf == inbuf[c] \o socket[c]
<1>1. buf \in Seq(Tokens)
  <2>1. inbuf[c] \in Seq(Tokens) /\ socket[c] \in Seq(Tokens)
    BY DEF Base, ServeTypes, RestTypes
  <2> QED
    BY <2>1, ConcatFacts
<1>2. RestTypes'
  <2>1. socket' \in [Conns -> Seq(Tokens)]
    BY SMT DEF Base, RestTypes, Read, With
  <2> QED
    BY <2>1 DEF Base, RestTypes, Read, fileVars
<1>3. ServeTypes' /\ Named'
  <2>1. CASE /\ OverBusyBuffer(c, buf)
             /\ inbuf' = With(inbuf, c, <<>>)
             /\ WriteAnswer(c, Reply("reply", FALSE))
             /\ UNCHANGED <<phase, bodyPending, inFlight, upload, uploadReq, asked, reqLoc,
                            reqVars, keep, handlerVars>>
    <3>1. Reply("reply", FALSE) \in Write
      BY ReplyType DEF Parts
    <3>2. /\ wire' \in [Conns -> Seq(Write)]
          /\ busy' \in [Conns -> BOOLEAN]
          /\ deadline' \in [Conns -> BOOLEAN]
          /\ started' \in [Conns -> BOOLEAN]
      BY <2>1, <3>1, WriteTypes DEF Base
    <3>3. inbuf' \in [Conns -> Seq(Tokens)]
      BY SMT, <2>1 DEF Base, ServeTypes, With
    <3>4. ServeTypes'
      BY <2>1, <3>2, <3>3 DEF Base, ServeTypes, reqVars, handlerVars
    <3>5. Named'
      BY SMT, <2>1 DEF Base, Named, reqVars, handlerVars
    <3> QED
      BY <3>4, <3>5
  <2>2. CASE /\ upload[c]
             /\ EmitStream(c, uploadReq[c], buf, reqLoc, busy[c], deadline[c], started[c])
             /\ UNCHANGED <<bodyPending, inFlight, uploadReq, asked, reqVars, keep, handlerVars>>
    <3>1. uploadReq[c] \in Reqs
      BY SMT, <2>2 DEF Base, Named, ServeTypes
    <3>2. busy[c] \in BOOLEAN /\ deadline[c] \in BOOLEAN /\ started[c] \in BOOLEAN /\ reqLoc \in SUBSET Reqs
      BY DEF Base, ServeTypes
    <3>3. EmitTyped
      <4> HIDE DEF buf
      <4>1. ServeTypes /\ EmitStream(c, uploadReq[c], buf, reqLoc, busy[c], deadline[c], started[c])
        BY <2>2 DEF Base
      <4> QED
        BY <1>1, <3>1, <3>2, <4>1, EmitTypes
    <3>4. ServeTypes'
      BY <2>2, <3>3 DEF EmitTyped, Base, ServeTypes, reqVars, handlerVars
    <3>5. reqLoc' \subseteq reqLoc /\ \A d \in Conns : upload'[d] => upload[d]
      <4>1. reqLoc' \subseteq reqLoc /\ \E b \in BOOLEAN : upload' = With(upload, c, b)
        BY <2>2 DEF EmitStream
      <4>2. ASSUME NEW d \in Conns, upload'[d] PROVE upload[d]
        <5>1. CASE d = c
          BY <2>2, <5>1
        <5>2. CASE d # c
          BY <4>1, <4>2, <5>2 DEF Base, ServeTypes, With
        <5> QED
          BY <5>1, <5>2
      <4> QED
        BY <4>1, <4>2
    <3>6. Named'
      BY <2>2, <3>5, LoopNamed DEF Base, reqVars, handlerVars
    <3> QED
      BY <3>4, <3>6
  <2>3. CASE /\ inbuf' = With(inbuf, c, buf)
             /\ UNCHANGED <<phase, bodyPending, busy, inFlight, deadline, started, upload,
                            uploadReq, wire, asked, reqLoc, reqVars, keep, handlerVars>>
    <3>1. inbuf' \in [Conns -> Seq(Tokens)]
      BY <1>1, <2>3 DEF Base, ServeTypes, With
    <3> QED
      BY SMTT(30), <2>3, <3>1 DEF Base, ServeTypes, Named, reqVars, handlerVars
  <2>4. CASE ProcessConn(c, buf)
    BY <1>1, <2>4, ProcessConnTypes, ProcessNamed DEF Base
  <2> QED
    BY <2>1, <2>2, <2>3, <2>4 DEF Read
<1> QED
  BY <1>2, <1>3 DEF Base

\* onRead, at the end of the input.
LEMMA EofBase ==
    ASSUME Base, NEW c \in Conns, NEW tls \in BOOLEAN, Eof(c, tls)
    PROVE  Base'
<1>1. RestTypes'
  <2>1. client' \in [Conns -> {"head", "body", "rest", "eof"}]
    BY DEF Base, RestTypes, Eof, With
  <2> QED
    BY <2>1 DEF Base, RestTypes, Eof, fileVars
<1>2. Reply("reply", FALSE) \in Write
  BY ReplyType DEF Parts
<1>3. /\ wire' \in [Conns -> Seq(Write)]
      /\ busy' \in [Conns -> BOOLEAN]
      /\ deadline' \in [Conns -> BOOLEAN]
      /\ started' \in [Conns -> BOOLEAN]
  <2>1. CASE WriteAnswer(c, Reply("reply", FALSE))
    BY <2>1, <1>2, WriteTypes DEF Base
  <2>2. CASE UNCHANGED <<wire, busy, deadline, started>>
    BY <2>2 DEF Base, ServeTypes
  <2> QED
    BY <2>1, <2>2 DEF Eof
<1>4. /\ asked' \in [Conns -> Nat]
      /\ phase' \in [Conns -> {"open", "closing", "closed"}]
  <2>1. asked' \in {asked, With(asked, c, asked[c] + 1)} /\ phase' \in {phase, Closing(c)}
    BY DEF Eof
  <2>2. asked[c] + 1 \in Nat
    BY SMT DEF Base, ServeTypes
  <2>3. asked' \in [Conns -> Nat]
    BY <2>1, <2>2 DEF Base, ServeTypes, With
  <2>4. phase' \in [Conns -> {"open", "closing", "closed"}]
    BY <2>1 DEF Base, ServeTypes, Closing, With
  <2> QED
    BY <2>3, <2>4
<1>5. ServeTypes'
  BY <1>3, <1>4 DEF Base, ServeTypes, Eof, reqVars, handlerVars
<1>6. Named'
  BY DEF Base, Named, Eof, reqVars, handlerVars
<1> QED
  BY <1>1, <1>5, <1>6 DEF Base

\* What a step of one handler has to show for Named.
LEMMA HandlerNamed ==
    ASSUME Base, NEW r \in Reqs, handler[r] # "unborn", handler'[r] # "unborn",
           UNCHANGED <<inFlight, upload, uploadReq, reqConn>>, reqLoc' \subseteq reqLoc,
           \A q \in Reqs : q # r => handler'[q] = handler[q] /\ out'[q] = out[q],
           handler'[r] \in {"push", "release"} => out'[r] \in Entry /\ out'[r].conn = reqConn[r] /\ out'[r].req = r,
           handler'[r] = "release" => out'[r].part \in {"last", "head"} /\ out'[r].finish
    PROVE  Named'
<1>1. ASSUME NEW q \in Reqs
      PROVE  /\ reqConn'[q] = None <=> handler'[q] = "unborn"
             /\ q \in reqLoc' => handler'[q] # "unborn"
             /\ handler'[q] \in {"push", "release"} =>
                   out'[q] \in Entry /\ out'[q].conn = reqConn'[q] /\ out'[q].req = q
             /\ handler'[q] = "release" => out'[q].part \in {"last", "head"} /\ out'[q].finish
  <2>1. CASE q = r
    BY <2>1 DEF Base, Named
  <2>2. CASE q # r
    BY SMT, <2>2 DEF Base, Named
  <2> QED
    BY <2>1, <2>2
<1>2. \A d \in Conns :
          /\ inFlight'[d] # None => handler'[inFlight'[d]] # "unborn" /\ reqConn'[inFlight'[d]] = d
          /\ uploadReq'[d] # None => handler'[uploadReq'[d]] # "unborn" /\ reqConn'[uploadReq'[d]] = d
          /\ upload'[d] => uploadReq'[d] # None
  BY SMT DEF Base, Named, ServeTypes
<1> QED
  BY <1>1, <1>2 DEF Named

\* A handler's call, as far as reqLoc_ and its own state go.
LEMMA CallsBase ==
    ASSUME Base, NEW r \in Reqs, NEW part \in Parts \cup {"file"}, NEW finish \in BOOLEAN, NEW next,
           Calls(r, part, finish, next), reqLoc' \in {reqLoc, reqLoc \ {r}}, UNCHANGED <<loopVars, queue>>,
           \/ next = "push"
           \/ next = "release" /\ part \in {"last", "head"} /\ finish
    PROVE  Base'
<1>1. RestTypes'
  BY DEF Base, RestTypes, loopVars, clientVars, fileVars
<1>2. reqConn[r] \in Conns /\ keep[r] \in BOOLEAN
  BY SMT DEF Base, Named, ServeTypes, Calls
<1> DEFINE e == [conn |-> reqConn[r], req |-> r, part |-> part, keep |-> keep[r], finish |-> finish]
<1>3. e \in Entry
  BY <1>2 DEF Entry
<1>4. out' = With(out, r, e) /\ handler' = With(handler, r, next)
  BY DEF Calls
<1>5. out' \in [Reqs -> Entry \cup {None}]
  BY <1>3, <1>4 DEF Base, ServeTypes, With
<1>6. handler' \in [Reqs -> {"unborn", "running", "push", "streaming", "release", "done"}]
  BY <1>4 DEF Base, ServeTypes, With
<1>7. ServeTypes'
  BY <1>5, <1>6 DEF Base, ServeTypes, loopVars, reqVars
<1>8. UNCHANGED <<inFlight, upload, uploadReq, reqConn>>
  BY DEF loopVars, reqVars
<1>9. \A q \in Reqs : q # r => handler'[q] = handler[q] /\ out'[q] = out[q]
  BY <1>4 DEF Base, ServeTypes, With
<1>10. handler'[r] = next /\ out'[r] = e
  BY <1>4 DEF Base, ServeTypes, With
<1>11. e.conn = reqConn[r] /\ e.req = r /\ e.part = part /\ e.finish = finish
  OBVIOUS
<1>12. handler[r] # "unborn"
  BY DEF Base, Named, Calls
<1> HIDE DEF e
<1>13. Named'
  BY ZenonT(60), <1>3, <1>8, <1>9, <1>10, <1>11, <1>12, HandlerNamed
<1> QED
  BY <1>1, <1>7, <1>13 DEF Base

\* A handler whose request is no longer in reqLoc_.
LEMMA MissesBase ==
    ASSUME Base, NEW r \in Reqs, handler[r] # "unborn", Misses(r), UNCHANGED <<loopVars, queue>>
    PROVE  Base'
<1>1. RestTypes'
  BY DEF Base, RestTypes, loopVars, clientVars, fileVars
<1>2. handler' \in [Reqs -> {"unborn", "running", "push", "streaming", "release", "done"}]
  BY DEF Base, ServeTypes, Misses, With
<1>3. ServeTypes'
  BY <1>2 DEF Base, ServeTypes, Misses, loopVars, reqVars
<1>4. UNCHANGED <<inFlight, upload, uploadReq, reqConn, reqLoc, out>>
  BY DEF loopVars, reqVars, Misses
<1>5. \A q \in Reqs : handler'[q] = IF q = r THEN "done" ELSE handler[q]
  BY DEF Base, ServeTypes, Misses, With
<1>6. Named'
  BY <1>4, <1>5, HandlerNamed
<1> QED
  BY <1>1, <1>3, <1>6 DEF Base

\* A handler that calls has a request.
LEMMA CallStep ==
    ASSUME NEW r \in Reqs,
           Respond(r) \/ RespondFile(r) \/ StartStream(r) \/ SendStreamChunk(r)
    PROVE  /\ handler[r] \in {"running", "streaming"}
           /\ UNCHANGED <<loopVars, queue>>
           /\ \/ Misses(r)
              \/ /\ reqLoc' = reqLoc \ {r} /\ handler[r] = "running"
                 /\ \/ Calls(r, "full", TRUE, "push")
                    \/ Calls(r, "file", FALSE, "push")
              \/ /\ reqLoc' = reqLoc /\ handler[r] = "running" /\ "stream" \in traffic.answers
                 /\ Calls(r, "head", isHead[r], "push")
              \/ /\ reqLoc' = reqLoc /\ handler[r] = "streaming"
                 /\ \/ Calls(r, "chunk", FALSE, "push")
                    \/ Calls(r, "last", TRUE, "release")
BY DEF Respond, RespondFile, StartStream, SendStreamChunk

\* respond, respondFile, startStream and sendStreamChunk, up to their push.
LEMMA CallBase ==
    ASSUME Base, NEW r \in Reqs,
           Respond(r) \/ RespondFile(r) \/ StartStream(r) \/ SendStreamChunk(r)
    PROVE  Base'
<1>1. CASE Misses(r)
  BY <1>1, CallStep, MissesBase
<1>2. CASE reqLoc' = reqLoc \ {r} /\ Calls(r, "full", TRUE, "push")
  BY <1>2, CallStep, CallsBase DEF Parts
<1>3. CASE reqLoc' = reqLoc \ {r} /\ Calls(r, "file", FALSE, "push")
  BY <1>3, CallStep, CallsBase DEF Parts
<1>4. CASE reqLoc' = reqLoc /\ Calls(r, "head", isHead[r], "push")
  <2>1. isHead[r] \in BOOLEAN
    BY DEF Base, ServeTypes
  <2> QED
    BY <1>4, <2>1, CallStep, CallsBase DEF Parts
<1>5. CASE reqLoc' = reqLoc /\ Calls(r, "chunk", FALSE, "push")
  BY <1>5, CallStep, CallsBase DEF Parts
<1>6. CASE reqLoc' = reqLoc /\ Calls(r, "last", TRUE, "release")
  BY <1>6, CallStep, CallsBase DEF Parts
<1> QED
  BY <1>1, <1>2, <1>3, <1>4, <1>5, <1>6, CallStep

\* The end of a stream, taken out of reqLoc_.
LEMMA ReleaseBase ==
    ASSUME Base, NEW r \in Reqs, Release(r)
    PROVE  Base'
<1>1. RestTypes'
  BY DEF Base, RestTypes, Release, loopVars, clientVars, fileVars
<1>2. handler' \in [Reqs -> {"unborn", "running", "push", "streaming", "release", "done"}]
  BY DEF Base, ServeTypes, Release, With
<1>3. ServeTypes'
  BY <1>2 DEF Base, ServeTypes, Release, loopVars, reqVars
<1>4. UNCHANGED <<inFlight, upload, uploadReq, reqConn, out>> /\ reqLoc' = reqLoc \ {r}
  BY DEF loopVars, reqVars, Release
<1>5. \A q \in Reqs : handler'[q] = IF q = r THEN (IF out[r].part = "last" THEN "push" ELSE "done") ELSE handler[q]
  BY DEF Base, ServeTypes, Release, With
<1>6. handler[r] = "release"
  BY DEF Release
<1>7. out[r] \in Entry /\ out[r].conn = reqConn[r] /\ out[r].req = r
  BY <1>6 DEF Base, Named
<1>8. Named'
  BY <1>4, <1>5, <1>6, <1>7, HandlerNamed
<1> QED
  BY <1>1, <1>3, <1>8 DEF Base

\* The push of an answer onto the queue of the loop.
LEMMA PushBase ==
    ASSUME Base, NEW r \in Reqs, Push(r)
    PROVE  Base'
<1>1. out[r] \in Entry /\ handler[r] = "push"
  BY DEF Base, Named, Push
<1>2. queue' \in Seq(Entry)
  BY <1>1, AppendFacts DEF Base, RestTypes, Push
<1>3. RestTypes'
  BY <1>2 DEF Base, RestTypes, Push, loopVars, clientVars, fileVars
<1>4. handler' \in [Reqs -> {"unborn", "running", "push", "streaming", "release", "done"}]
  BY DEF Base, ServeTypes, Push, With
<1>5. ServeTypes'
  BY <1>4 DEF Base, ServeTypes, Push, loopVars, reqVars
<1>6. UNCHANGED <<inFlight, upload, uploadReq, reqConn, out, reqLoc>>
  BY DEF loopVars, reqVars, Push
<1>7. /\ \A q \in Reqs : q # r => handler'[q] = handler[q]
      /\ handler'[r] = IF out[r].part = "head" /\ out[r].finish THEN "release"
                       ELSE IF out[r].part \in {"head", "chunk"} THEN "streaming" ELSE "done"
  BY DEF Base, ServeTypes, Push, With
<1>8. out[r].conn = reqConn[r] /\ out[r].req = r
  BY <1>1 DEF Base, Named
<1>9. Named'
  BY <1>1, <1>6, <1>7, <1>8, HandlerNamed
<1> QED
  BY <1>3, <1>5, <1>9 DEF Base

\* onAsync, one entry of the queue.
LEMMA OnAsyncBase ==
    ASSUME Base, OnAsync
    PROVE  Base'
<1> DEFINE e == Head(queue)
           c == e.conn
           w == [req |-> e.req, part |-> IF e.part = "file" THEN "head" ELSE e.part,
                 keep |-> e.keep, finish |-> e.finish]
<1>1. queue \in Seq(Entry) /\ queue # <<>>
  BY DEF Base, RestTypes, OnAsync
<1>2. e \in Entry /\ Tail(queue) \in Seq(Entry)
  BY <1>1, TailFacts
<1>3. c \in Conns /\ w \in Write
  BY <1>2 DEF Entry, Write, Parts
<1>4. /\ fileLeft' \in {fileLeft, With(fileLeft, c, FileChunks)}
      /\ fileKeep' \in {fileKeep, With(fileKeep, c, e.keep)}
      /\ phase' \in {phase, Closing(c)}
  BY DEF OnAsync, OpenFile, MayOverflow, fileVars
<1>5. fileLeft' \in [Conns -> 0 .. FileChunks]
  <2>1. FileChunks \in 0 .. FileChunks
    BY SMT, BoundsAssumption
  <2>2. With(fileLeft, c, FileChunks) \in [Conns -> 0 .. FileChunks]
    BY <2>1 DEF Base, RestTypes, With
  <2> QED
    BY <1>4, <2>2 DEF Base, RestTypes
<1>6. fileKeep' \in [Conns -> BOOLEAN]
  BY <1>2, <1>4 DEF Base, RestTypes, With, Entry
<1>7. RestTypes'
  BY <1>2, <1>5, <1>6 DEF Base, RestTypes, OnAsync, clientVars
<1>8. phase' \in [Conns -> {"open", "closing", "closed"}]
  BY <1>4 DEF Base, ServeTypes, Closing, With
<1>9. /\ wire' \in [Conns -> Seq(Write)]
      /\ busy' \in [Conns -> BOOLEAN]
      /\ deadline' \in [Conns -> BOOLEAN]
      /\ started' \in [Conns -> BOOLEAN]
  <2>1. CASE WriteAnswer(c, w)
    BY <2>1, <1>3, WriteTypes DEF Base
  <2>2. CASE UNCHANGED <<wire, busy, deadline, started>>
    BY <2>2 DEF Base, ServeTypes
  <2> QED
    BY <2>1, <2>2 DEF OnAsync
<1>10. ServeTypes'
  BY <1>8, <1>9 DEF Base, ServeTypes, OnAsync, reqVars, handlerVars
<1>11. Named'
  BY LoopNamed DEF Base, OnAsync, reqVars, handlerVars
<1> QED
  BY <1>7, <1>10, <1>11 DEF Base

\* continueFileSend.
LEMMA FileBase ==
    ASSUME Base, NEW c \in Conns, fileLeft[c] > 0, ContinueFileSend(c)
    PROVE  /\ wire' \in [Conns -> Seq(Write)]
           /\ busy' \in [Conns -> BOOLEAN]
           /\ deadline' \in [Conns -> BOOLEAN]
           /\ started' \in [Conns -> BOOLEAN]
           /\ phase' \in [Conns -> {"open", "closing", "closed"}]
           /\ fileLeft' \in [Conns -> 0 .. FileChunks]
<1> DEFINE left == fileLeft[c] - 1
           w == [req |-> inFlight[c], part |-> IF left = 0 THEN "last" ELSE "chunk",
                 keep |-> fileKeep[c], finish |-> left = 0]
<1>1. left \in 0 .. FileChunks
  BY SMT, BoundsAssumption DEF Base, RestTypes
<1>2. w \in Write
  BY DEF Base, RestTypes, ServeTypes, Write, Parts
<1>3. /\ fileLeft' \in {With(fileLeft, c, 0), With(fileLeft, c, left)}
      /\ phase' \in {phase, Closing(c)}
      /\ WriteAnswer(c, w) \/ UNCHANGED <<wire, busy, deadline, started>>
  BY DEF ContinueFileSend, MayOverflow
<1>4. /\ wire' \in [Conns -> Seq(Write)]
      /\ busy' \in [Conns -> BOOLEAN]
      /\ deadline' \in [Conns -> BOOLEAN]
      /\ started' \in [Conns -> BOOLEAN]
  <2>1. CASE WriteAnswer(c, w)
    BY <2>1, <1>2, WriteTypes DEF Base
  <2>2. CASE UNCHANGED <<wire, busy, deadline, started>>
    BY <2>2 DEF Base, ServeTypes
  <2> QED
    BY <2>1, <2>2, <1>3
<1>5. phase' \in [Conns -> {"open", "closing", "closed"}]
  BY <1>3 DEF Base, ServeTypes, Closing, With
<1>6. fileLeft' \in [Conns -> 0 .. FileChunks]
  <2>1. 0 \in 0 .. FileChunks
    BY SMT, BoundsAssumption
  <2>2. \A n \in 0 .. FileChunks : With(fileLeft, c, n) \in [Conns -> 0 .. FileChunks]
    BY DEF Base, RestTypes, With
  <2> QED
    BY <1>1, <1>3, <2>1, <2>2
<1> QED
  BY <1>4, <1>5, <1>6

\* onWrite.
LEMMA OnWriteBase ==
    ASSUME Base, NEW c \in Conns, NEW ok \in BOOLEAN, OnWrite(c, ok)
    PROVE  Base'
<1>1. flushed' \in [Conns -> Nat]
  <2>1. flushed[c] + 1 \in Nat /\ flushed' = With(flushed, c, flushed[c] + 1)
    BY SMT DEF Base, RestTypes, OnWrite
  <2> QED
    BY ZenonT(60), <2>1 DEF Base, RestTypes, With
<1>2. UNCHANGED <<clientVars, aged, fileKeep, queue, draining>>
  BY DEF OnWrite
<1>3. fileLeft' = fileLeft => RestTypes'
  BY <1>1, <1>2 DEF Base, RestTypes, clientVars
<1>4. CASE /\ phase' = Closing(c)
           /\ inFlight' \in {inFlight, With(inFlight, c, None)}
           /\ deadline' \in {deadline, With(deadline, c, FALSE)}
           /\ started' \in {started, With(started, c, FALSE)}
           /\ UNCHANGED <<inbuf, bodyPending, busy, upload, uploadReq, fileLeft, wire, asked, reqLoc, reqVars, keep,
                          handlerVars>>
  <2>1. ServeTypes'
    BY <1>4 DEF Base, ServeTypes, Closing, With, reqVars, handlerVars
  <2>2. \A d \in Conns : inFlight'[d] \in {inFlight[d], None}
    BY <1>4 DEF Base, ServeTypes, With
  <2>3. Named'
    BY <1>4, <2>2, LoopNamed DEF Base, reqVars, handlerVars
  <2> QED
    BY <1>3, <1>4, <2>1, <2>3 DEF Base
<1>5. CASE /\ \/ fileLeft[c] > 0 /\ ContinueFileSend(c)
              \/ UNCHANGED <<phase, busy, deadline, started, fileLeft, wire>>
           /\ UNCHANGED <<inbuf, bodyPending, inFlight, upload, uploadReq, asked, reqLoc, reqVars, keep,
                          handlerVars>>
  <2>1. /\ wire' \in [Conns -> Seq(Write)]
        /\ busy' \in [Conns -> BOOLEAN]
        /\ deadline' \in [Conns -> BOOLEAN]
        /\ started' \in [Conns -> BOOLEAN]
        /\ phase' \in [Conns -> {"open", "closing", "closed"}]
        /\ fileLeft' \in [Conns -> 0 .. FileChunks]
    BY ZenonT(60), <1>5, FileBase DEF Base, ServeTypes, RestTypes
  <2>2. RestTypes'
    BY <1>1, <1>2, <2>1 DEF Base, RestTypes, clientVars
  <2>3. ServeTypes'
    BY <1>5, <2>1 DEF Base, ServeTypes, reqVars, handlerVars
  <2>4. Named'
    BY <1>5, LoopNamed DEF Base, reqVars, handlerVars
  <2> QED
    BY <2>2, <2>3, <2>4 DEF Base
<1>6. CASE Resume(c) /\ fileLeft' = fileLeft
  <2>1. inbuf[c] \in Seq(Tokens) /\ bodyPending[c] \in BOOLEAN
    BY DEF Base, ServeTypes
  <2>2. CASE Wait(c, inbuf[c], bodyPending[c])
    <3>1. ServeTypes'
      BY <2>1, <2>2, WaitTypes DEF Base
    <3>2. /\ \A d \in Conns : inFlight'[d] \in {inFlight[d], None}
          /\ UNCHANGED <<uploadReq, upload, reqConn, handler, out, reqLoc>>
      BY <2>2 DEF Base, ServeTypes, Wait, With, reqVars, handlerVars
    <3>3. Named'
      BY <3>2, LoopNamed DEF Base
    <3> QED
      BY <1>3, <1>6, <3>1, <3>3 DEF Base
  <2>3. CASE ProcessConn(c, inbuf[c])
    BY <1>3, <1>6, <2>1, <2>3, ProcessConnTypes, ProcessNamed DEF Base
  <2> QED
    BY <1>6, <2>2, <2>3 DEF Resume
<1> QED
  BY <1>4, <1>5, <1>6 DEF OnWrite

\* What onSweep does to a connection: it answers 408 to a request whose handler
\* is late, closes the connection, answers 408 to a request that is slow to
\* arrive, or leaves it alone.
Retires(c) ==
    /\ inFlight[c] \in reqLoc
    /\ reqLoc' = reqLoc \ {inFlight[c]}
    /\ inFlight' = With(inFlight, c, None)
    /\ upload' = With(upload, c, FALSE)
    /\ WriteAnswer(c, Reply("408", FALSE))
    /\ UNCHANGED <<phase, asked>>

Drops(c) ==
    /\ phase' = Closing(c)
    /\ \/ UNCHANGED <<reqLoc, inFlight, started>>
       \/ /\ inFlight[c] # None
          /\ reqLoc' = reqLoc \ {inFlight[c]}
          /\ inFlight' = With(inFlight, c, None)
          /\ started' = With(started, c, FALSE)
    /\ UNCHANGED <<upload, wire, busy, deadline, asked>>

TimesOut(c) ==
    /\ ~busy[c]
    /\ WriteAnswer(c, Reply("408", FALSE))
    /\ asked' = With(asked, c, asked[c] + 1)
    /\ UNCHANGED <<phase, inFlight, upload, reqLoc>>

Leaves == UNCHANGED <<phase, inFlight, upload, wire, busy, deadline, started, asked, reqLoc>>

\* What onSweep does to a connection, whichever clocks have run out.
LEMMA SweepOutcome ==
    ASSUME Base, NEW c \in Conns, NEW x \in Expired, Sweep(c, x)
    PROVE  /\ phase[c] = "open"
           /\ aged' = aged \/ \E b \in BOOLEAN : aged' = With(aged, c, b)
           /\ keep' = keep \/ \E r \in Reqs : keep' = With(keep, r, FALSE)
           /\ UNCHANGED <<clientVars, inbuf, bodyPending, uploadReq, fileVars, flushed, reqVars,
                          handlerVars, queue, draining>>
           /\ \/ Retires(c) /\ busy[c] /\ (deadline[c] \/ upload[c])
              \/ Drops(c)
              \/ TimesOut(c)
              \/ Leaves
<1>1. aged' = aged \/ \E b \in BOOLEAN : aged' = With(aged, c, b)
  <2>1. (aged[c] \/ "age" \in x) \in BOOLEAN
    OBVIOUS
  <2> QED
    BY <2>1 DEF Sweep
<1>2. keep' = keep \/ \E r \in Reqs : keep' = With(keep, r, FALSE)
  <2>1. inFlight[c] \in reqLoc => inFlight[c] \in Reqs
    BY DEF Base, ServeTypes
  <2> QED
    BY <2>1 DEF Sweep
<1>3. (Retires(c) /\ busy[c] /\ (deadline[c] \/ upload[c])) \/ Drops(c) \/ TimesOut(c) \/ Leaves
  <2>1. CASE busy[c] /\ SweepBusy(c, x)
    BY <2>1 DEF SweepBusy, RetireTimedOut, Retires, Drops, Leaves
  <2>2. CASE ~busy[c] /\ SweepIdle(c, x)
    BY <2>2 DEF SweepIdle, TimesOut, Drops, Leaves
  <2>3. CASE phase' = Closing(c) /\ UNCHANGED <<busy, inFlight, deadline, started, upload, wire, asked, reqLoc>>
    BY <2>3 DEF Drops
  <2> QED
    BY <2>1, <2>2, <2>3 DEF Sweep
<1> QED
  BY <1>1, <1>2, <1>3 DEF Sweep

\* onSweep.
LEMMA SweepBase ==
    ASSUME Base, NEW c \in Conns, NEW x \in Expired, Sweep(c, x)
    PROVE  Base'
<1>1. aged' \in [Conns -> BOOLEAN]
  <2>1. \A b \in BOOLEAN : With(aged, c, b) \in [Conns -> BOOLEAN]
    BY DEF Base, RestTypes, With
  <2> QED
    BY <2>1, SweepOutcome DEF Base, RestTypes
<1>2. keep' \in [Reqs -> BOOLEAN]
  <2>1. \A r \in Reqs : With(keep, r, FALSE) \in [Reqs -> BOOLEAN]
    BY DEF Base, ServeTypes, With
  <2> QED
    BY ZenonT(60), <2>1, SweepOutcome DEF Base, ServeTypes
<1>3. UNCHANGED <<clientVars, inbuf, bodyPending, uploadReq, fileVars, flushed, reqVars, handlerVars, queue, draining>>
  BY SweepOutcome
<1>4. RestTypes'
  BY <1>1, <1>3 DEF Base, RestTypes, clientVars, fileVars
<1>5. Reply("408", FALSE) \in Write
  BY ReplyType DEF Parts
<1>6. /\ wire' \in [Conns -> Seq(Write)]
      /\ busy' \in [Conns -> BOOLEAN]
      /\ deadline' \in [Conns -> BOOLEAN]
      /\ started' \in [Conns -> BOOLEAN]
  <2>1. CASE WriteAnswer(c, Reply("408", FALSE))
    BY <2>1, <1>5, WriteTypes DEF Base
  <2>2. CASE UNCHANGED <<wire, busy, deadline>> /\ started' \in {started, With(started, c, FALSE)}
    BY <2>2 DEF Base, ServeTypes, With
  <2> QED
    BY <2>1, <2>2, SweepOutcome DEF Retires, Drops, TimesOut, Leaves
<1>7. /\ phase' \in {phase, Closing(c)} /\ inFlight' \in {inFlight, With(inFlight, c, None)}
      /\ upload' \in {upload, With(upload, c, FALSE)} /\ reqLoc' \subseteq reqLoc
      /\ asked' \in {asked, With(asked, c, asked[c] + 1)}
  BY SweepOutcome DEF Retires, Drops, TimesOut, Leaves
<1>8. asked' \in [Conns -> Nat]
  <2>1. asked[c] + 1 \in Nat
    BY SMT DEF Base, ServeTypes
  <2> QED
    BY <1>7, <2>1 DEF Base, ServeTypes, With
<1>9. /\ phase' \in [Conns -> {"open", "closing", "closed"}]
      /\ inFlight' \in [Conns -> Reqs \cup {None}]
      /\ upload' \in [Conns -> BOOLEAN]
      /\ reqLoc' \in SUBSET Reqs
  BY <1>7 DEF Base, ServeTypes, Closing, With
<1>10. ServeTypes'
  BY <1>2, <1>3, <1>6, <1>8, <1>9 DEF Base, ServeTypes, reqVars, handlerVars
<1>11. \A d \in Conns : inFlight'[d] \in {inFlight[d], None} /\ (upload'[d] => upload[d])
  <2> SUFFICES ASSUME NEW d \in Conns
               PROVE  inFlight'[d] \in {inFlight[d], None} /\ (upload'[d] => upload[d])
    OBVIOUS
  <2>1. inFlight'[d] \in {inFlight[d], None}
    BY <1>7 DEF Base, ServeTypes, With
  <2>2. upload'[d] => upload[d]
    BY <1>7 DEF Base, ServeTypes, With
  <2> QED
    BY <2>1, <2>2
<1>12. Named'
  BY <1>3, <1>7, <1>11, LoopNamed DEF Base, reqVars, handlerVars
<1> QED
  BY <1>4, <1>10, <1>12 DEF Base

\* onCloseConn.
LEMMA OnCloseConnBase ==
    ASSUME Base, NEW c \in Conns, OnCloseConn(c)
    PROVE  Base'
<1>1. fileLeft' \in [Conns -> 0 .. FileChunks]
  <2>1. 0 \in 0 .. FileChunks
    BY SMT, BoundsAssumption
  <2> QED
    BY <2>1 DEF Base, RestTypes, OnCloseConn, With
<1>2. RestTypes'
  BY <1>1 DEF Base, RestTypes, OnCloseConn, clientVars
<1>3. phase' \in [Conns -> {"open", "closing", "closed"}] /\ reqLoc' \subseteq reqLoc
  BY DEF Base, ServeTypes, OnCloseConn, With
<1>4. ServeTypes'
  BY <1>3 DEF Base, ServeTypes, OnCloseConn, reqVars, handlerVars
<1>5. Named'
  BY <1>3, LoopNamed DEF Base, OnCloseConn, reqVars, handlerVars
<1> QED
  BY <1>2, <1>4, <1>5 DEF Base

\* beginDrain.
LEMMA BeginDrainBase ==
    ASSUME Base, BeginDrain
    PROVE  Base'
<1>1. UNCHANGED serveVars
  BY DEF BeginDrain, serveVars, reqVars, handlerVars
<1>2. RestTypes'
  BY DEF Base, RestTypes, BeginDrain, clientVars, fileVars
<1> QED
  BY <1>1, <1>2, ServeUnchanged DEF Base

-----------------------------------------------------------------------------
\* writeAnswer touches one connection.
LEMMA WriteElsewhere ==
    ASSUME ServeTypes, NEW c \in Conns, NEW w, WriteAnswer(c, w)
    PROVE  \A d \in Conns : d # c => wire'[d] = wire[d] /\ busy'[d] = busy[d] /\ deadline'[d] = deadline[d]
BY DEF ServeTypes, WriteAnswer, With

\* NoIdleBacklogButUploads, of one connection.
BacklogAt(c) == phase[c] = "open" /\ ~busy[c] /\ uploadReq[c] = None => inbuf[c] \in {<<>>, <<"part">>}

\* NoIdleBacklogButUploads, connection by connection.
LEMMA BacklogSplit == NoIdleBacklogButUploads <=> \A c \in Conns : BacklogAt(c)
BY DEF NoIdleBacklogButUploads, BacklogAt

\* processConn leaves nothing complete behind on a connection it leaves idle:
\* it stops at an empty buffer, at an incomplete request, or busy.
LEMMA ProcessBacklog ==
    ASSUME Base, NEW c \in Conns, NEW buf \in Seq(Tokens), ProcessConn(c, buf)
    PROVE  /\ BacklogAt(c)'
           /\ \A d \in Conns : d # c => inbuf'[d] = inbuf[d] /\ uploadReq'[d] = uploadReq[d]
<1>1. /\ \E b : inbuf' = With(inbuf, c, b)
      /\ uploadReq' = uploadReq \/ \E r : uploadReq' = With(uploadReq, c, r)
  BY DEF ProcessConn, Wait, AnswerOnLoop, Dispatch, DispatchUpload, EmitStream
<1>2. \A d \in Conns : d # c => inbuf'[d] = inbuf[d] /\ uploadReq'[d] = uploadReq[d]
  BY <1>1 DEF Base, ServeTypes, With
<1>3. BacklogAt(c)'
  <2>1. CASE inbuf' = With(inbuf, c, buf) /\ buf \in {<<>>, <<"part">>}
    BY <2>1 DEF BacklogAt, Base, ServeTypes, With
  <2>2. CASE busy'[c]
    BY <2>2 DEF BacklogAt
  <2>3. Replies(c) \/ (\E r \in Reqs : Starting(c, r)) => busy'[c]
    BY StartingAt, WriteAt DEF Replies
  <2> QED
    BY ZenonT(60), <2>1, <2>2, <2>3, ProcessOutcome DEF Base, Begins, Refuses
<1> QED
  BY <1>2, <1>3

\* reqLoc_ only shrinks, and no connection is closed.
LEMMA LoopStranded ==
    ASSUME Base, NoStrandedRequest, reqConn' = reqConn, reqLoc' \subseteq reqLoc,
           \A d \in Conns : phase'[d] = "closed" => phase[d] = "closed"
    PROVE  NoStrandedRequest'
<1>1. \A r \in reqLoc : reqConn[r] \in Conns
  BY ReqTypes DEF Base, ServeTypes
<1> QED
  BY <1>1 DEF NoStrandedRequest

\* The request processConn adds to reqLoc_ is one of an open connection.
LEMMA ProcessStranded ==
    ASSUME Base, NoStrandedRequest, NEW c \in Conns, phase[c] = "open", NEW buf \in Seq(Tokens), ProcessConn(c, buf)
    PROVE  NoStrandedRequest'
<1>1. CASE Waits(c) \/ Replies(c)
  BY <1>1, LoopStranded DEF Waits, Replies
<1>2. ASSUME NEW r \in Reqs, Begins(c, r) \/ Refuses(c, r)
      PROVE  NoStrandedRequest'
  <2>1. Starting(c, r) /\ phase' \in {phase, Closing(c)} /\ reqLoc' \subseteq reqLoc \cup {r}
    BY ZenonT(60), <1>2 DEF Begins, Refuses
  <2>2. phase'[c] # "closed" /\ reqConn'[r] = c
    <3>1. phase'[c] # "closed"
      BY <2>1 DEF Closing, Base, ServeTypes, With
    <3> QED
      BY SMT, <2>1, <3>1, StartingAt
  <2>3. \A d \in Conns : d # c => phase'[d] = phase[d]
    BY <2>1 DEF Closing, Base, ServeTypes, With
  <2>4. ASSUME NEW q \in reqLoc', q # r
        PROVE  phase'[reqConn'[q]] # "closed"
    <3>1. q \in reqLoc /\ reqConn'[q] = reqConn[q] /\ reqConn[q] \in Conns
      <4>1. q \in Reqs /\ q \in reqLoc
        BY <2>1, <2>4 DEF Base, ServeTypes
      <4> QED
        BY SMTT(30), <2>1, <2>4, <4>1, StartingAt, ReqTypes
    <3> QED
      BY <2>2, <2>3, <3>1 DEF NoStrandedRequest
  <2> QED
    BY <2>2, <2>4 DEF NoStrandedRequest
<1> QED
  BY <1>1, <1>2, ProcessOutcome DEF Base

\* What is kept: the types, the pointers, and the two properties.
Tidy == Base /\ NoStrandedRequest /\ NoIdleBacklogButUploads

\* Of another connection, what the invariant reads is left alone.
Aside(d) ==
    phase'[d] = phase[d] /\ busy'[d] = busy[d] /\ inbuf'[d] = inbuf[d] /\ uploadReq'[d] = uploadReq[d]

\* A step of one connection preserves the invariant when it does so there.
LEMMA TidyAt ==
    ASSUME Tidy, Base', NoStrandedRequest', NEW c \in Conns, BacklogAt(c)',
           \A d \in Conns : d # c => Aside(d)
    PROVE  Tidy'
<1>1. ASSUME NEW d \in Conns, d # c
      PROVE  BacklogAt(d)'
  <2>1. BacklogAt(d)
    BY BacklogSplit DEF Tidy
  <2> QED
    BY <1>1, <2>1 DEF BacklogAt, Aside
<1>2. NoIdleBacklogButUploads'
  BY <1>1 DEF BacklogAt, NoIdleBacklogButUploads
<1> QED
  BY <1>2 DEF Tidy

\* A step that changes nothing of what the invariant reads.
LEMMA QuietTidy ==
    ASSUME Tidy, Base', UNCHANGED serveVars
    PROVE  Tidy'
BY DEF Tidy, NoStrandedRequest, NoIdleBacklogButUploads, serveVars

\* processConn.
LEMMA ProcessTidy ==
    ASSUME Tidy, Base', NEW c \in Conns, phase[c] = "open", NEW buf \in Seq(Tokens), ProcessConn(c, buf)
    PROVE  Tidy'
<1>1. Base /\ ServeTypes
  BY DEF Tidy, Base
<1>2. BacklogAt(c)' /\ \A d \in Conns : d # c => inbuf'[d] = inbuf[d] /\ uploadReq'[d] = uploadReq[d]
  BY <1>1, ProcessBacklog
<1>3. NoStrandedRequest'
  BY <1>1, ProcessStranded DEF Tidy
<1>4. /\ phase' \in {phase, Closing(c)}
      /\ (\E w : WriteAnswer(c, w)) \/ (\E b : busy' = With(busy, c, b))
  BY <1>1, ProcessOutcome DEF Waits, Replies, Begins, Refuses, Starting
<1>5. ASSUME NEW d \in Conns, d # c
      PROVE  Aside(d)
  <2>1. phase'[d] = phase[d]
    BY <1>1, <1>4, <1>5 DEF Closing, With, ServeTypes
  <2>2. busy'[d] = busy[d]
    BY <1>1, <1>4, <1>5, WriteElsewhere DEF With, ServeTypes
  <2> QED
    BY <1>2, <1>5, <2>1, <2>2 DEF Aside
<1> QED
  BY <1>2, <1>3, <1>5, TidyAt

\* onRead: a buffer that is over its limit, an upload's bytes, a busy
\* connection, or a connection to process.
LEMMA ReadTidy ==
    ASSUME Tidy, Base', NEW c \in Conns, Read(c)
    PROVE  Tidy'
<1> DEFINE buf == inbuf[c] \o socket[c]
<1>1. Base /\ ServeTypes /\ Named /\ NoStrandedRequest /\ phase[c] = "open"
  BY DEF Tidy, Base, Read
<1>2. buf \in Seq(Tokens)
  <2>1. inbuf[c] \in Seq(Tokens) /\ socket[c] \in Seq(Tokens)
    BY ZenonT(60), <1>1 DEF Base, ServeTypes, RestTypes
  <2> QED
    BY <2>1, ConcatFacts
<1>3. ASSUME WriteAnswer(c, Reply("reply", FALSE)), inbuf' = With(inbuf, c, <<>>),
             UNCHANGED <<phase, uploadReq, reqLoc, reqConn>>
      PROVE  Tidy'
  <2>1. BacklogAt(c)'
    BY <1>1, <1>3, WriteAt DEF BacklogAt
  <2>2. \A d \in Conns : d # c => Aside(d)
    BY <1>1, <1>3, WriteElsewhere DEF Aside, ServeTypes, With
  <2>3. NoStrandedRequest'
    BY <1>1, <1>3, LoopStranded
  <2> QED
    BY <2>1, <2>2, <2>3, TidyAt
<1>4. ASSUME upload[c], EmitStream(c, uploadReq[c], buf, reqLoc, busy[c], deadline[c], started[c]),
             UNCHANGED <<uploadReq, reqConn>>
      PROVE  Tidy'
  <2>1. BacklogAt(c)'
    BY <1>1, <1>4 DEF BacklogAt, Named
  <2>2. phase' \in {phase, Closing(c)} /\ reqLoc' \subseteq reqLoc
    BY <1>4 DEF EmitStream
  <2>3. \A d \in Conns : d # c => inbuf'[d] = inbuf[d] /\ busy'[d] = busy[d]
    BY <1>1, <1>4 DEF EmitStream, ServeTypes, With
  <2>4. \A d \in Conns : d # c => phase'[d] = phase[d]
    BY <1>1, <2>2 DEF Closing, ServeTypes, With
  <2>5. \A d \in Conns : phase'[d] = "closed" => phase[d] = "closed"
    BY <1>1, <2>2 DEF Closing, ServeTypes, With
  <2>6. NoStrandedRequest'
    BY <1>1, <1>4, <2>2, <2>5, LoopStranded
  <2>7. \A d \in Conns : d # c => Aside(d)
    BY <1>4, <2>3, <2>4 DEF Aside
  <2> QED
    BY <2>1, <2>6, <2>7, TidyAt
<1>5. ASSUME busy[c], inbuf' = With(inbuf, c, buf), UNCHANGED <<phase, busy, uploadReq, reqLoc, reqConn>>
      PROVE  Tidy'
  <2>1. BacklogAt(c)'
    BY <1>5 DEF BacklogAt
  <2>2. \A d \in Conns : d # c => Aside(d)
    BY <1>1, <1>5 DEF Aside, ServeTypes, With
  <2>3. NoStrandedRequest'
    BY <1>1, <1>5, LoopStranded
  <2> QED
    BY <2>1, <2>2, <2>3, TidyAt
<1>6. ASSUME ProcessConn(c, buf)
      PROVE  Tidy'
  BY <1>1, <1>2, <1>6, ProcessTidy
<1> QED
  BY <1>3, <1>4, <1>5, <1>6 DEF Read, reqVars

\* onRead, at the end of the input.
LEMMA EofTidy ==
    ASSUME Tidy, Base', NEW c \in Conns, NEW tls \in BOOLEAN, Eof(c, tls)
    PROVE  Tidy'
<1>1. Base /\ ServeTypes /\ NoStrandedRequest
  BY DEF Tidy, Base
<1>2. UNCHANGED <<inbuf, uploadReq, reqLoc, reqConn>> /\ phase' \in {phase, Closing(c)}
  BY DEF Eof, reqVars
<1>3. BacklogAt(c)'
  BY <1>1 DEF BacklogAt, Eof, WriteAnswer, Closing, ServeTypes, With
<1>4. \A d \in Conns : d # c => busy'[d] = busy[d]
  BY <1>1, WriteElsewhere DEF Eof
<1>5. \A d \in Conns : d # c => phase'[d] = phase[d]
  BY <1>1, <1>2 DEF Closing, ServeTypes, With
<1>6. \A d \in Conns : phase'[d] = "closed" => phase[d] = "closed"
  BY <1>1, <1>2 DEF Closing, ServeTypes, With
<1>7. NoStrandedRequest'
  BY <1>1, <1>2, <1>6, LoopStranded
<1>8. \A d \in Conns : d # c => Aside(d)
  BY <1>2, <1>4, <1>5 DEF Aside
<1> QED
  BY ZenonT(60), <1>3, <1>7, <1>8, TidyAt

\* A handler never touches a connection, and takes its own request out of
\* reqLoc_ at most.
LEMMA HandlerTidy ==
    ASSUME Tidy, NEW r \in Reqs, Handler(r)
    PROVE  Tidy'
<1>1. Base /\ ServeTypes /\ NoStrandedRequest
  BY DEF Tidy, Base
<1>2. Base'
  BY <1>1, CallBase, ReleaseBase, PushBase DEF Handler
<1>3. UNCHANGED <<phase, busy, inbuf, uploadReq, reqConn>>
  BY DEF Handler, Respond, RespondFile, StartStream, SendStreamChunk, Release, Push, loopVars, reqVars
<1>4. reqLoc' \subseteq reqLoc
  BY DEF Handler, Respond, RespondFile, StartStream, SendStreamChunk, Release, Push, Calls, Misses
<1>5. NoStrandedRequest'
  BY <1>1, <1>3, <1>4, LoopStranded
<1> QED
  BY <1>2, <1>3, <1>5 DEF Tidy, NoIdleBacklogButUploads

\* onAsync: the entry's connection is written to, or no longer open.
LEMMA OnAsyncTidy ==
    ASSUME Tidy, Base', OnAsync
    PROVE  Tidy'
<1> DEFINE e == Head(queue)
<1>1. Base /\ ServeTypes /\ NoStrandedRequest
  BY DEF Tidy, Base
<1>2. e \in Entry /\ UNCHANGED <<inbuf, uploadReq, reqLoc, reqConn>>
  <2>1. queue \in Seq(Entry) /\ queue # <<>> /\ UNCHANGED <<inbuf, uploadReq, reqLoc, reqConn>>
    BY <1>1 DEF OnAsync, Base, RestTypes, reqVars
  <2> QED
    BY <2>1, TailFacts
<1>3. PICK c \in Conns : c = e.conn
  BY <1>2 DEF Entry
<1>4. /\ phase' \in {phase, Closing(c)}
      /\ (\E w : WriteAnswer(c, w)) \/ (phase[c] # "open" /\ UNCHANGED <<phase, busy>>)
  BY <1>3 DEF OnAsync, MayOverflow
<1>5. BacklogAt(c)'
  BY <1>1, <1>4, WriteAt DEF BacklogAt
<1>6. \A d \in Conns : d # c => busy'[d] = busy[d]
  BY <1>1, <1>4, WriteElsewhere
<1>7. \A d \in Conns : d # c => phase'[d] = phase[d]
  BY <1>1, <1>4 DEF Closing, ServeTypes, With
<1>8. \A d \in Conns : phase'[d] = "closed" => phase[d] = "closed"
  BY <1>1, <1>4 DEF Closing, ServeTypes, With
<1>9. NoStrandedRequest'
  BY <1>1, <1>2, <1>8, LoopStranded
<1>10. \A d \in Conns : d # c => Aside(d)
  BY <1>2, <1>6, <1>7 DEF Aside
<1> QED
  BY <1>5, <1>9, <1>10, TidyAt

\* onWrite: the connection closes, goes on with its file, is left as it is, or
\* is idle again and processed.
LEMMA OnWriteTidy ==
    ASSUME Tidy, Base', NEW c \in Conns, NEW ok \in BOOLEAN, OnWrite(c, ok)
    PROVE  Tidy'
<1>1. Base /\ ServeTypes /\ Named /\ NoStrandedRequest /\ BacklogAt(c) /\ phase[c] = "open"
  BY BacklogSplit DEF Tidy, Base, OnWrite
<1>2. inbuf[c] \in Seq(Tokens)
  BY <1>1, ConnTypes
<1>3. ASSUME phase' \in {phase, Closing(c)}, UNCHANGED <<inbuf, uploadReq, reqLoc, reqConn>>,
             \/ phase' = Closing(c) /\ busy' = busy
             \/ phase' = phase /\ busy' = busy
             \/ \E w : WriteAnswer(c, w)
      PROVE  Tidy'
  <2>1. \A d \in Conns : d # c => phase'[d] = phase[d]
    BY <1>1, <1>3 DEF Closing, ServeTypes, With
  <2>2. \A d \in Conns : phase'[d] = "closed" => phase[d] = "closed"
    BY <1>1, <1>3 DEF Closing, ServeTypes, With
  <2>3. NoStrandedRequest'
    BY <1>1, <1>3, <2>2, LoopStranded
  <2>4. \A d \in Conns : d # c => busy'[d] = busy[d]
    BY <1>1, <1>3, WriteElsewhere
  <2>5. \A d \in Conns : d # c => Aside(d)
    BY <1>3, <2>1, <2>4 DEF Aside
  <2>6. BacklogAt(c)'
    <3>1. CASE phase' = Closing(c)
      BY <1>1, <3>1 DEF BacklogAt, Closing, ServeTypes, With
    <3>2. CASE phase' = phase /\ busy' = busy
      BY <1>1, <1>3, <3>2 DEF BacklogAt
    <3>3. CASE \E w : WriteAnswer(c, w)
      BY <1>1, <3>3, WriteAt DEF BacklogAt
    <3> QED
      BY <1>3, <3>1, <3>2, <3>3
  <2> QED
    BY <2>3, <2>5, <2>6, TidyAt
<1>4. ASSUME Resume(c)
      PROVE  Tidy'
  <2>1. CASE ProcessConn(c, inbuf[c])
    BY <1>1, <1>2, <2>1, ProcessTidy
  <2>2. CASE upload[c] /\ Wait(c, inbuf[c], bodyPending[c])
    <3>1. UNCHANGED <<phase, uploadReq, reqLoc, reqConn>> /\ inbuf' = inbuf /\ busy' = With(busy, c, FALSE)
      BY <1>1, <2>2 DEF Wait, reqVars, ServeTypes, With
    <3>2. BacklogAt(c)'
      BY <1>1, <2>2, <3>1 DEF BacklogAt, Named
    <3>3. \A d \in Conns : d # c => Aside(d)
      BY <1>1, <3>1 DEF Aside, ServeTypes, With
    <3>4. NoStrandedRequest'
      BY <1>1, <3>1, LoopStranded
    <3> QED
      BY <3>2, <3>3, <3>4, TidyAt
  <2> QED
    BY <1>4, <2>1, <2>2 DEF Resume
<1>5. ASSUME ContinueFileSend(c), UNCHANGED <<inbuf, uploadReq, reqLoc, reqConn>>
      PROVE  Tidy'
  <2>1. /\ phase' \in {phase, Closing(c)}
        /\ (phase' = Closing(c) /\ busy' = busy) \/ \E w : WriteAnswer(c, w)
    BY <1>5 DEF ContinueFileSend, MayOverflow
  <2> QED
    BY <1>3, <1>5, <2>1
<1> QED
  BY <1>3, <1>4, <1>5 DEF OnWrite, reqVars

\* onSweep.
LEMMA SweepTidy ==
    ASSUME Tidy, Base', NEW c \in Conns, NEW x \in Expired, Sweep(c, x)
    PROVE  Tidy'
<1>1. Base /\ ServeTypes /\ NoStrandedRequest /\ BacklogAt(c)
  BY BacklogSplit DEF Tidy, Base
<1>2. UNCHANGED <<inbuf, uploadReq, reqConn>>
  BY <1>1, SweepOutcome DEF clientVars, reqVars
<1>3. /\ phase' \in {phase, Closing(c)} /\ reqLoc' \subseteq reqLoc
      /\ (\E w : WriteAnswer(c, w)) \/ busy' = busy
  BY <1>1, SweepOutcome DEF Retires, Drops, TimesOut, Leaves
<1>4. \A d \in Conns : d # c => phase'[d] = phase[d]
  BY <1>1, <1>3 DEF Closing, ServeTypes, With
<1>5. \A d \in Conns : phase'[d] = "closed" => phase[d] = "closed"
  BY <1>1, <1>3 DEF Closing, ServeTypes, With
<1>6. NoStrandedRequest'
  BY <1>1, <1>2, <1>3, <1>5, LoopStranded
<1>7. \A d \in Conns : d # c => busy'[d] = busy[d]
  BY <1>1, <1>3, WriteElsewhere
<1>8. \A d \in Conns : d # c => Aside(d)
  BY <1>2, <1>4, <1>7 DEF Aside
<1>9. BacklogAt(c)'
  <2>1. CASE \E w : WriteAnswer(c, w)
    BY <1>1, <2>1, WriteAt DEF BacklogAt
  <2>2. CASE busy' = busy
    <3>1. phase'[c] = "open" => phase[c] = "open"
      BY <1>1, <1>3 DEF Closing, ServeTypes, With
    <3> QED
      BY <1>1, <1>2, <2>2, <3>1 DEF BacklogAt
  <2> QED
    BY <1>3, <2>1, <2>2
<1> QED
  BY <1>6, <1>8, <1>9, TidyAt

\* onCloseConn takes every request of its connection out of reqLoc_.
LEMMA OnCloseConnTidy ==
    ASSUME Tidy, Base', NEW c \in Conns, OnCloseConn(c)
    PROVE  Tidy'
<1>1. Base /\ ServeTypes /\ NoStrandedRequest
  BY DEF Tidy, Base
<1>2. /\ UNCHANGED <<busy, inbuf, uploadReq, reqConn>>
      /\ phase' = With(phase, c, "closed") /\ reqLoc' = {r \in reqLoc : reqConn[r] # c}
  BY DEF OnCloseConn, reqVars
<1>3. phase'[c] # "open" /\ \A d \in Conns : d # c => phase'[d] = phase[d]
  BY <1>1, <1>2 DEF ServeTypes, With
<1>4. NoStrandedRequest'
  <2>1. \A r \in reqLoc' : r \in reqLoc /\ reqConn[r] # c /\ reqConn[r] \in Conns
    BY <1>1, <1>2, ReqTypes DEF ServeTypes
  <2> QED
    BY <1>1, <1>2, <1>3, <2>1 DEF NoStrandedRequest
<1>5. BacklogAt(c)'
  BY <1>3 DEF BacklogAt
<1>6. \A d \in Conns : d # c => Aside(d)
  BY <1>2, <1>3 DEF Aside
<1> QED
  BY <1>4, <1>5, <1>6, TidyAt

\* Before the first byte.
LEMMA InitTidy == Init => Tidy
<1> SUFFICES ASSUME Init PROVE Tidy
  OBVIOUS
<1>1. /\ budget \in Nat /\ 0 \in Nat /\ 0 \in 0 .. FileChunks
      /\ <<>> \in Seq(Tokens) /\ <<>> \in Seq(Entry) /\ FALSE \in BOOLEAN
  BY SMTT(30), SetsAssumption, BoundsAssumption, FS_CardinalityType DEF Init
<1>2. ServeTypes
  BY SMT DEF Init, ServeTypes
<1>3. RestTypes
  <2>1. traffic \in Traffics /\ budget \in Nat /\ queue \in Seq(Entry) /\ draining \in BOOLEAN
    BY <1>1 DEF Init
  <2>2. /\ client \in [Conns -> {"head", "body", "rest", "eof"}]
        /\ socket \in [Conns -> Seq(Tokens)]
        /\ aged \in [Conns -> BOOLEAN]
        /\ fileKeep \in [Conns -> BOOLEAN]
        /\ fileLeft \in [Conns -> 0 .. FileChunks]
        /\ flushed \in [Conns -> Nat]
    BY <1>1 DEF Init
  <2> QED
    BY <2>1, <2>2 DEF RestTypes
<1>4. Named
  BY SetsAssumption DEF Init, Named
<1>5. NoStrandedRequest
  BY DEF Init, NoStrandedRequest
<1>6. NoIdleBacklogButUploads
  BY DEF Init, NoIdleBacklogButUploads
<1> QED
  BY <1>2, <1>3, <1>4, <1>5, <1>6 DEF Tidy, Base

\* Every step keeps the invariant.
LEMMA NextTidy ==
    ASSUME Tidy, [Next]_vars
    PROVE  Tidy'
<1>1. Base /\ ServeTypes /\ Named
  BY DEF Tidy, Base
<1>2. CASE UNCHANGED vars
  <2>1. UNCHANGED serveVars
    BY <1>2 DEF vars, serveVars
  <2>2. RestTypes'
    BY <1>1, <1>2 DEF vars, Base, RestTypes
  <2>3. Base'
    BY <1>1, <2>1, <2>2, ServeUnchanged DEF Base
  <2> QED
    BY <2>1, <2>3, QuietTidy
<1>3. ASSUME NEW c \in Conns, NEW t \in Tokens, Send(c, t)
      PROVE  Tidy'
  BY <1>1, <1>3, SendBase, QuietTidy DEF Send, serveVars, reqVars, handlerVars
<1>4. CASE BeginDrain
  BY <1>1, <1>4, BeginDrainBase, QuietTidy DEF BeginDrain, serveVars, reqVars, handlerVars
<1>5. ASSUME NEW c \in Conns, Read(c)
      PROVE  Tidy'
  BY <1>1, <1>5, ReadBase, ReadTidy
<1>6. ASSUME NEW c \in Conns, NEW tls \in BOOLEAN, Eof(c, tls)
      PROVE  Tidy'
  BY <1>1, <1>6, EofBase, EofTidy
<1>7. ASSUME NEW r \in Reqs, Handler(r)
      PROVE  Tidy'
  BY <1>7, HandlerTidy
<1>8. CASE OnAsync
  BY <1>1, <1>8, OnAsyncBase, OnAsyncTidy
<1>9. ASSUME NEW c \in Conns, NEW ok \in BOOLEAN, OnWrite(c, ok)
      PROVE  Tidy'
  BY <1>1, <1>9, OnWriteBase, OnWriteTidy
<1>10. ASSUME NEW c \in Conns, NEW x \in Expired, Sweep(c, x)
       PROVE  Tidy'
  BY <1>1, <1>10, SweepBase, SweepTidy
<1>11. ASSUME NEW c \in Conns, OnCloseConn(c)
       PROVE  Tidy'
  BY <1>1, <1>11, OnCloseConnBase, OnCloseConnTidy
<1> QED
  BY ZenonT(60), <1>2, <1>3, <1>4, <1>5, <1>6, <1>7, <1>8, <1>9, <1>10, <1>11 DEF Next

\* The invariant holds of every behaviour.
THEOREM Invariance == Spec => []Tidy
<1>1. Init => Tidy
  BY InitTidy
<1>2. Tidy /\ [Next]_vars => Tidy'
  BY NextTidy
<1> QED
  BY <1>1, <1>2, PTL DEF Spec

\* onCloseConn: a closed connection leaves nothing in reqLoc_, so the in-flight
\* count the drain polls and the 503 budget reads comes back to zero.
THEOREM NeverStranded == Spec => [](TypeOK /\ NoStrandedRequest)
<1>1. Tidy => TypeOK /\ NoStrandedRequest
  BY TypesSplit DEF Tidy, Base
<1> QED
  BY <1>1, Invariance, PTL

\* processConn: an open, idle connection that has carried no streamed upload
\* has nothing complete in its buffer, whatever the reads, the writes, the sweep
\* and the handlers of all connections do in between.
THEOREM NeverIdleBacklog == Spec => []NoIdleBacklogButUploads
<1>1. Tidy => NoIdleBacklogButUploads
  BY DEF Tidy
<1> QED
  BY <1>1, Invariance, PTL

=============================================================================
